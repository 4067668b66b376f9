-------------------------------- MODULE Writer --------------------------------
(***************************************************************************)
(* The writer sink of spec.md (section 3, JSON encode): a GglWriter that  *)
(* the encoder emits into.  Each write delivers all of its bytes, in      *)
(* order after those of earlier writes, or fails with NOMEM and delivers  *)
(* none when they do not fit in the sink's Cap bytes.                     *)
(***************************************************************************)
EXTENDS Integers, Sequences

CONSTANTS
    Bytes,       \* byte values
    Cap,         \* bytes the sink can hold
    ArgLen       \* bound: length of one write

VARIABLES
    out,         \* the bytes delivered so far
    wret         \* the result of the last write, "none" before any

Writes == UNION { [1..n -> Bytes] : n \in 0..ArgLen }

Init ==
    /\ out = <<>>
    /\ wret = "none"

Write(b) ==
    IF Len(out) + Len(b) <= Cap
      THEN out' = out \o b /\ wret' = "OK"
      ELSE out' = out /\ wret' = "NOMEM"

Next == \E b \in Writes : Write(b)

Spec == Init /\ [][Next]_<<out, wret>>
====
