---------------------------- MODULE EntryOptions ----------------------------
(***************************************************************************)
(* EntryOptions of src/src/writer/entry_options.rs: the metadata of one    *)
(* entry.  Permissions are a set of mode bits, a comment is its length,    *)
(* the user and group are present or not (ids).  Now is SystemTime::now(). *)
(***************************************************************************)
EXTENDS Integers

Options ==
  [mtime: Int, setPerms: BOOLEAN, perms: SUBSET (0..31), ids: BOOLEAN,
   commentLen: Nat]

Default(now) ==
  [mtime |-> now, setPerms |-> FALSE, perms |-> {}, ids |-> FALSE, commentLen |-> 0]

WithMtime(o, t)              == [o EXCEPT !.mtime = t]
WithUnixPermissions(o, bits) == [o EXCEPT !.setPerms = TRUE, !.perms = bits]
WithUidGid(o)                == [o EXCEPT !.ids = TRUE]
WithComment(o, len)          == [o EXCEPT !.commentLen = len]

File(now)      == WithUnixPermissions(Default(now), {2, 5, 7, 8})              \* 0o644
Directory(now) == WithUnixPermissions(Default(now), {0, 2, 3, 5, 6, 7, 8})     \* 0o755
Symlink(now)   == WithUnixPermissions(Default(now), 0..8)                      \* 0o777

(* On Unix: `mode & 0o7777`, and the owner.                                *)
FromMetadata(meta) ==
  WithUidGid(WithUnixPermissions(Default(meta.mtime), meta.mode \cap 0..11))
=============================================================================
