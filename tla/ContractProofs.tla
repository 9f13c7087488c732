--------------------------- MODULE ContractProofs ---------------------------
(***************************************************************************)
(* That ZipWriter implements ArchiveContract for all requests, sizes and   *)
(* limits: what a reader of the sink lists is what the writer registered,  *)
(* and every step of the writer is a step of the contract or invisible.    *)
(***************************************************************************)
EXTENDS ZipWriterContract, ArchiveProofs

(* The reader lists the writer's entries, in their order: an entry is      *)
(* found as the header with as many headers before it.                     *)
LEMMA ListingIsMembers == ArchiveInv /\ pc = "done" => Listing(out, sinkLen) = ContractMembers
<1> SUFFICES ASSUME ArchiveInv, pc = "done" PROVE Listing(out, sinkLen) = ContractMembers
  OBVIOUS
<1>0. entries \in Seq(StoredEntries) /\ Len(entries) \in Nat
  BY DEF ArchiveInv, Bookkeeping, TypeOK
<1> DEFINE n == Len(entries)
           D == CHOOSE d \in Directories(out, sinkLen) : TRUE
           H == Headers(out, D)
           Before(x) == {y \in H : y.off < x.off}
           Nth(i) == CHOOSE x \in H : Cardinality(Before(x)) = i - 1
           Member(h) == [req |-> h.req, csize |-> Decoded(h).csize, usize |-> Decoded(h).usize]
<1>1. Listing(out, sinkLen) = [i \in 1..Cardinality(H) |-> Member(Nth(i).hdr)]
  BY DEF Listing
<1>2. D = Directory
  BY DirectoryFound
<1> HIDE DEF D
<1>3. PICK f : Placement(f, fin.cdOffset, n) /\ H = Listed(f, n)
  BY <1>2, HeadersFound
<1> DEFINE x(i) == [off |-> f[i], hdr |-> CentralDirEntry(entries[i])]
<1>4. /\ \A i \in 1..n : f[i] \in Nat
      /\ \A i, j \in 1..n : i < j => f[i] < f[j]
  <2>1. \A i \in 1..n : i \in 1..(n + 1)
    BY <1>0
  <2>2. QED
    BY <1>3, <2>1 DEF Placement
<1> HIDE DEF H, n
<1>5. Cardinality(H) = n
  BY <1>0, <1>3, <1>4, ListedCount DEF n
<1>6. ASSUME NEW i \in 1..n PROVE Cardinality(Before(x(i))) = i - 1
  <2>0. n \in Nat /\ i - 1 \in Nat /\ 1..(i - 1) \subseteq 1..n /\ i \in Int
    BY <1>0 DEF n
  <2>1. Before(x(i)) = Listed(f, i - 1)
    <3>1. \A j \in 1..n : f[j] < f[i] <=> j \in 1..(i - 1)
      <4> SUFFICES ASSUME NEW j \in 1..n PROVE f[j] < f[i] <=> j \in 1..(i - 1)
        OBVIOUS
      <4>1. j < i \/ j = i \/ i < j
        OBVIOUS
      <4>2. (j < i => f[j] < f[i]) /\ (i < j => f[i] < f[j]) /\ f[i] \in Nat /\ f[j] \in Nat
        BY <1>4
      <4>3. QED
        BY <4>1, <4>2
    <3>2. ASSUME NEW y PROVE y \in Before(x(i)) => y \in Listed(f, i - 1)
      <4> SUFFICES ASSUME y \in H, y.off < f[i] PROVE y \in Listed(f, i - 1)
        OBVIOUS
      <4>1. PICK j \in 1..n : y = x(j)
        BY <1>3 DEF Listed
      <4>2. j \in 1..(i - 1)
        BY <3>1, <4>1
      <4>3. QED
        BY <4>1, <4>2 DEF Listed
    <3>3. ASSUME NEW y PROVE y \in Listed(f, i - 1) => y \in Before(x(i))
      <4> SUFFICES ASSUME y \in Listed(f, i - 1) PROVE y \in H /\ y.off < f[i]
        OBVIOUS
      <4>1. PICK j \in 1..(i - 1) : y = x(j)
        BY DEF Listed
      <4>2. j \in 1..n
        BY <2>0
      <4>3. QED
        BY <1>3, <3>1, <4>1, <4>2 DEF Listed
    <3> HIDE DEF Before, x
    <3>4. QED
      BY <3>2, <3>3
  <2>2. /\ \A j \in 1..(i - 1) : f[j] \in Nat
        /\ \A j, k \in 1..(i - 1) : j < k => f[j] < f[k]
    BY <1>4, <2>0
  <2>3. Cardinality(Listed(f, i - 1)) = i - 1
    BY <2>0, <2>2, ListedCount
  <2>4. QED
    BY <2>1, <2>3
<1>7. ASSUME NEW i \in 1..n PROVE Nth(i) = x(i)
  <2>1. x(i) \in H
    BY <1>3 DEF Listed
  <2>2. ASSUME NEW y \in H, Cardinality(Before(y)) = i - 1 PROVE y = x(i)
    <3>1. PICK j \in 1..n : y = x(j)
      BY <1>3 DEF Listed
    <3>2. j - 1 = i - 1
      BY <1>6, <2>2, <3>1
    <3>3. j = i
      BY <3>2
    <3>4. QED
      BY <3>1, <3>3
  <2>3. Cardinality(Before(x(i))) = i - 1
    BY <1>6
  <2> HIDE DEF Before, x
  <2>4. QED
    BY <2>1, <2>2, <2>3
<1> HIDE DEF Nth
<1>8. ASSUME NEW i \in 1..n PROVE Member(Nth(i).hdr) = AsMember(entries[i])
  <2>1. entries[i] \in StoredEntries
    BY <1>0 DEF n
  <2>2. Nth(i).hdr = CentralDirEntry(entries[i])
    BY <1>7
  <2>3. CentralDirEntry(entries[i]).req = entries[i].req
    BY DEF CentralDirEntry
  <2>4. QED
    BY <2>1, <2>2, <2>3, DecodedIsRecorded DEF AsMember
<1> HIDE DEF Member
<1>9. QED
  BY <1>1, <1>5, <1>8 DEF ContractMembers, n

LEMMA ListingIsMembersNext == (ArchiveInv /\ pc = "done" => Listing(out, sinkLen) = ContractMembers)'
  BY ListingIsMembers, PTL
-----------------------------------------------------------------------------
(* Between and inside the calls the contract knows six states.             *)
StateByPc ==
  /\ pc = "idle" => ContractState = IF holder = "zip" THEN "open" ELSE "lost"
  /\ pc \in EntryOpPcs \cup {"entry"} => ContractState = "adding"
  /\ pc \in FinishPcs => ContractState = "closing"
  /\ pc = "done" => ContractState = "sealed"
  /\ pc = "gone" => ContractState = "gone"

LEMMA StateIs == StateByPc
  BY DEF StateByPc, ContractState, EntryOpPcs, FinishPcs

LEMMA StateIsNext == StateByPc'
  BY DEF StateByPc, ContractState, EntryOpPcs, FinishPcs

LEMMA ContractInit == Init => Contract!Init
<1> SUFFICES ASSUME Init PROVE Contract!Init
  OBVIOUS
<1>1. ContractMembers = <<>>
  BY DEF Init, ContractMembers
<1>2. ContractCatalogue = <<>> /\ ContractState = "open" /\ ret = "none"
  BY StateIs DEF Init, ContractCatalogue, StateByPc
<1>3. QED
  BY <1>1, <1>2 DEF Contract!Init

(* A step that registers no entry leaves the members alone; no step is     *)
(* taken once the archive is done, and none but the last one reaches it.   *)
LEMMA MembersStay == UNCHANGED entries => UNCHANGED ContractMembers
  BY DEF ContractMembers

LEMMA CatalogueStays ==
  pc # "done" /\ pc' # "done" => ContractCatalogue = <<>> /\ ContractCatalogue' = <<>>
  BY DEF ContractCatalogue

(* An operation registers its entry and hands the sink back.               *)
LEMMA RegisteredCommits ==
  ASSUME ArchiveInv, pc \in EntryOpPcs, HandBack, entries' = Append(entries, StoredEntry(cur))
  PROVE  Contract!Commit
<1>1. cur \in EntryState /\ entries \in Seq(StoredEntries) /\ StoredEntry(cur) \in StoredEntries
  BY RequestFacts DEF ArchiveInv, Bookkeeping, TypeOK
<1>2. /\ entries' \in Seq(StoredEntries) /\ Len(entries') = Len(entries) + 1
      /\ \A i \in 1..Len(entries) : entries'[i] = entries[i]
      /\ entries'[Len(entries) + 1] = StoredEntry(cur)
  BY <1>1, Registered
<1> DEFINE n == Len(entries)
<1>3. /\ Len(ContractMembers) = n /\ Len(ContractMembers') = n + 1
      /\ \A i \in 1..(n + 1) : ContractMembers'[i] = AsMember(entries'[i])
      /\ \A i \in 1..n : ContractMembers[i] = AsMember(entries[i])
      /\ n \in Nat
  BY <1>1, <1>2 DEF ContractMembers
<1>4. SubSeq(ContractMembers', 1, n) = ContractMembers
  <2>1. SubSeq(ContractMembers', 1, n) = [i \in 1..n |-> AsMember(entries'[i])]
    BY <1>1, <1>2 DEF ContractMembers
  <2>2. \A i \in 1..n : AsMember(entries'[i]) = AsMember(entries[i])
    BY <1>2
  <2>3. QED
    BY <2>1, <2>2 DEF ContractMembers
<1>5. ContractMembers'[n + 1] \in [req: Requests, csize: Nat, usize: Nat]
  <2>1. ContractMembers'[n + 1] = AsMember(StoredEntry(cur))
    BY <1>2, <1>3
  <2>2. QED
    BY <1>1, <2>1 DEF AsMember, StoredEntries
<1>6. pc' = "idle" /\ holder' = "zip" /\ ret' = "Ok"
  BY DEF HandBack
<1>7. ContractState = "adding" /\ ContractState' = "open"
  BY <1>6, StateIs, StateIsNext DEF StateByPc
<1>8. UNCHANGED ContractCatalogue
  BY <1>6, CatalogueStays DEF EntryOpPcs
<1> HIDE DEF n
<1>9. QED
  BY <1>3, <1>4, <1>5, <1>6, <1>7, <1>8 DEF Contract!Commit, n

(* Every step of the writer is one of the contract, or leaves what the     *)
(* contract speaks of as it is.                                            *)
LEMMA ContractStep == ArchiveInv /\ ArchiveInv' /\ [Next]_vars => [Contract!Next]_(Contract!cVars)
<1> SUFFICES ASSUME ArchiveInv, ArchiveInv', [Next]_vars
             PROVE  Contract!Next \/ UNCHANGED Contract!cVars
  OBVIOUS
<1>0. /\ pc = "idle" => (poisoned <=> holder # "zip")
      /\ pc = "idle" /\ poisoned => TakeError = "Poisoned"
  BY DEF ArchiveInv, Bookkeeping, Custody, TakeError
(* The contract sees nothing.                                              *)
<1>1. ASSUME UNCHANGED <<entries, ret>>, ContractState' = ContractState,
             pc # "done", pc' # "done"
      PROVE  UNCHANGED Contract!cVars
  BY <1>1, MembersStay, CatalogueStays DEF Contract!cVars
<1>2. ASSUME UNCHANGED <<entries, pc, holder, ret>>, pc # "done" PROVE UNCHANGED Contract!cVars
  BY <1>1, <1>2 DEF ContractState
<1>3. CASE WithCompressionLevel \/ WithComment
  BY <1>2, <1>3 DEF WithCompressionLevel, WithComment, opVars
<1>4. ASSUME \/ \E n \in ShortWrites : WriteShort(n)
             \/ \E m, n \in WriteSizes : PollWrite(m, n)
             \/ \E n \in DrainSizes : EncoderDrain(n)
             \/ EntryShutdown
      PROVE  UNCHANGED Contract!cVars
  BY <1>2, <1>4 DEF WriteShort, PollWrite, EncoderDrain, EntryShutdown, zipVars, WritePcs, FinishPcs
<1>5. CASE LinkHeaderWritten \/ TargetWritten \/ EncoderFinished
  <2>1. /\ pc \in EntryOpPcs /\ pc' \in EntryOpPcs /\ UNCHANGED <<entries, ret>>
    BY <1>5 DEF LinkHeaderWritten, TargetWritten, EncoderFinished, EntryOpPcs, zipVars
  <2>2. QED
    BY <1>1, <2>1, StateIs, StateIsNext DEF StateByPc, EntryOpPcs
<1>6. CASE CentralEntryWritten \/ Eocdr64Written \/ LocatorWritten \/ EocdrWritten
  <2>1. /\ pc \in FinishPcs /\ pc' \in FinishPcs /\ UNCHANGED <<entries, ret>>
    BY <1>6 DEF CentralEntryWritten, Eocdr64Written, LocatorWritten, EocdrWritten, NextRecord,
                FinishPcs, zipVars
  <2>2. QED
    BY <1>1, <2>1, StateIs, StateIsNext DEF StateByPc, FinishPcs
(* A call is refused.                                                      *)
<1>7. ASSUME NEW r \in Requests, RefuseInput(r) \/ RefuseStart(r) PROVE Contract!Refuse
  <2>1. pc = "idle" /\ UNCHANGED <<entries, pc, holder>>
    BY <1>7 DEF RefuseInput, RefuseStart, Refuse, zipVars
  <2>2. ContractState' = ContractState
    BY <2>1 DEF ContractState
  <2>3. ContractState \in {"open", "lost"} /\ (holder # "zip" => ContractState = "lost")
    BY <2>1, StateIs DEF StateByPc
  <2>4. \/ ret' \in {"InvalidInput", "FieldTooLong", "Io"}
        \/ holder # "zip" /\ ret' = "Poisoned"
    BY <1>0, <1>7, <2>1 DEF RefuseInput, RefuseStart, Refuse
  <2>5. UNCHANGED <<ContractMembers, ContractCatalogue>>
    BY <2>1, MembersStay, CatalogueStays
  <2>6. QED
    BY <2>2, <2>3, <2>4, <2>5 DEF Contract!Refuse, Contract!InputErrors
(* An entry begins, goes on, is registered or lost.                        *)
<1>8. ASSUME NEW r \in Requests, StartEntry(r) PROVE Contract!Begin
  <2>1. /\ pc = "idle" /\ pc' = "lfh" /\ holder = "zip" /\ UNCHANGED entries /\ ret' = "none"
    BY <1>8 DEF StartEntry, TakeInner
  <2>2. QED
    BY <2>1, StateIs, StateIsNext, MembersStay, CatalogueStays
       DEF StateByPc, EntryOpPcs, Contract!Begin
<1>9. CASE FileHeaderWritten \/ FinishEntry
  <2>1. /\ pc \in EntryOpPcs \cup {"entry"} /\ pc' \in EntryOpPcs \cup {"entry"}
        /\ UNCHANGED entries /\ ret' \in {"Ok", "none"}
    BY <1>9 DEF FileHeaderWritten, FinishEntry, EntryOpPcs
  <2>2. pc # "done" /\ pc' # "done"
    BY <2>1 DEF EntryOpPcs
  <2>3. Contract!Hold
    BY <2>1, <2>2, StateIs, StateIsNext, MembersStay, CatalogueStays
       DEF StateByPc, Contract!Hold
  <2>4. QED
    BY <2>3 DEF Contract!Next
<1>10. CASE DirectoryHeaderWritten \/ LinkDescriptorWritten \/ EntryDescriptorWritten
  <2>1. pc \in EntryOpPcs /\ HandBack /\ entries' = Append(entries, StoredEntry(cur))
    BY <1>10 DEF DirectoryHeaderWritten, LinkDescriptorWritten, EntryDescriptorWritten, EntryOpPcs
  <2>2. Contract!Commit
    BY <2>1, RegisteredCommits
  <2>3. QED
    BY <2>2 DEF Contract!Next
<1>11. CASE DropEntry \/ LeakEntry \/ Fail \/ Cancel
  <2>1. /\ pc \in EntryOpPcs \cup {"entry"} /\ pc' = "idle" /\ holder' # "zip"
        /\ UNCHANGED entries /\ ret' \in {"Io", "none"}
    BY <1>11 DEF DropEntry, LeakEntry, Fail, Cancel
  <2>2. pc # "done"
    BY <2>1 DEF EntryOpPcs
  <2>3. Contract!Lose
    BY <2>1, <2>2, StateIs, StateIsNext, MembersStay, CatalogueStays
       DEF StateByPc, Contract!Lose
  <2>4. QED
    BY <2>3 DEF Contract!Next
(* The archive ends.                                                       *)
<1>12. CASE Finish
  <2>1. /\ pc = "idle" /\ pc' \in FinishPcs /\ holder = "zip" /\ UNCHANGED entries
        /\ ret' = "none"
    BY <1>12 DEF Finish, TakeInner, NextRecord, FinishPcs
  <2>2. pc' # "done"
    BY <2>1 DEF FinishPcs
  <2>3. Contract!Close
    BY <2>1, <2>2, StateIs, StateIsNext, MembersStay, CatalogueStays
       DEF StateByPc, Contract!Close
  <2>4. QED
    BY <2>3 DEF Contract!Next
<1>13. CASE ShutdownDone
  <2>1. pc = "shutdown" /\ pc' = "done" /\ ret' = "Ok" /\ UNCHANGED entries
    BY <1>13 DEF ShutdownDone
  <2>2. ContractCatalogue' = ContractMembers'
    BY <2>1, ListingIsMembersNext DEF ContractCatalogue
  <2>3. UNCHANGED ContractMembers
    BY <2>1, MembersStay
  <2>4. Contract!Seal
    BY <2>1, <2>2, <2>3, StateIs, StateIsNext DEF StateByPc, FinishPcs, Contract!Seal
  <2>5. QED
    BY <2>4 DEF Contract!Next
<1>14. CASE FinishRefused \/ Abort \/ FailFinish \/ CancelFinish
  <2>1. pc' = "gone" /\ UNCHANGED entries
    BY <1>14 DEF FinishRefused, Abort, FailFinish, CancelFinish, Gone
  <2>2. \/ pc = "idle" /\ holder = "zip" /\ ret' \in {"Ok", "FieldTooLong"}
        \/ pc = "idle" /\ holder # "zip" /\ ret' \in {"Poisoned", "FieldTooLong"}
        \/ pc \in FinishPcs /\ ret' \in {"Io", "none"}
    BY <1>0, <1>14 DEF FinishRefused, Abort, FailFinish, CancelFinish, Gone
  <2>3. pc # "done"
    BY <2>2 DEF FinishPcs
  <2>4. Contract!Abandon
    BY <2>1, <2>2, <2>3, StateIs, StateIsNext, MembersStay, CatalogueStays
       DEF StateByPc, Contract!Abandon
  <2>5. QED
    BY <2>4 DEF Contract!Next
<1>15. CASE UNCHANGED vars
  BY <1>15 DEF vars, zipVars, opVars, sinkVars, Contract!cVars, ContractState, ContractMembers,
               ContractCatalogue
<1>16. QED
  BY <1>3, <1>4, <1>5, <1>6, <1>7, <1>8, <1>9, <1>10, <1>11, <1>12, <1>13, <1>14, <1>15
     DEF Next, Contract!Next

(* ZipWriter implements the promise of its API.                            *)
THEOREM WriterImplementsContract == Spec => ImplementsContract
<1>1. Init => Contract!Init
  BY ContractInit
<1>2. ArchiveInv /\ ArchiveInv' /\ [Next]_vars => [Contract!Next]_(Contract!cVars)
  BY ContractStep
<1>3. Spec => []ArchiveInv
  BY ArchiveAlways
<1>4. QED
  BY <1>1, <1>2, <1>3, PTL DEF Spec, ImplementsContract, Contract!Spec
=============================================================================
