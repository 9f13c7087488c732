--------------------------- MODULE EncoderStream ---------------------------
(* DeflateEncoder implements ByteStream: the mapping reads the running     *)
(* call off the poll's place in the code, what was delivered off the sink, *)
(* and the end of the input off the compressor.                            *)
EXTENDS DeflateEncoder

Asked ==
  CASE pc = "caller" -> "none"
    [] pc \in {"w_drain", "w_none", "w_sync"}               -> "write"
    [] pc \in {"f_drain", "f_sync", "f_drain_sync"}         -> "flush"
    [] pc \in {"s_drain", "s_finish", "s_drain_end"}        -> "shutdown"

Phase == IF finished THEN "closed" ELSE IF comp.fin THEN "ending" ELSE "open"

Stream ==
  INSTANCE ByteStream WITH
    asked <- Asked, answer <- result, taken <- accepted, delivered <- sink,
    phase <- Phase

(* Whatever the sink and the compressor do and however polls are repeated: *)
(* a write that returned Ok has taken what it said and one that did not    *)
(* has taken nothing, the sink receives the tokens once and in order, no   *)
(* token follows the end of the stream, and a shutdown that returned Ok    *)
(* has delivered them all.                                                 *)
ImplementsStream == Stream!Spec
=============================================================================
