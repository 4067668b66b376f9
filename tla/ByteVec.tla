-------------------------------- MODULE ByteVec --------------------------------
(***************************************************************************)
(* GglByteVec of src/src/vector.c: a byte vector over a caller's buffer   *)
(* of Capacity bytes (ggl_byte_vec_init), with push, append, their chain  *)
(* variants that do nothing once *err is not OK, the remaining-capacity   *)
(* view, and the GglWriter of ggl_byte_vec_writer, whose write is an      *)
(* append.                                                                 *)
(***************************************************************************)
EXTENDS Integers, Sequences

CONSTANTS
    Bytes,       \* byte values
    Capacity,    \* buf.len given to ggl_byte_vec_init
    ArgLen       \* bound: length of an appended buffer

VARIABLES
    data,        \* the buffer's bytes: 0..Capacity-1 -> Bytes
    vlen,        \* vector->buf.len
    verr,        \* the GglError a chain of calls threads through
    vret,        \* what the last push or append returned
    rem          \* the last ggl_byte_vec_remaining_capacity: [off, len]

vvars == <<data, vlen, verr, vret, rem>>

Appends == UNION { [1..n -> Bytes] : n \in 0..ArgLen }

\* ggl_byte_vec_init: len 0 over the whole buffer, whatever it holds.
VInit ==
    /\ data \in [0..Capacity-1 -> Bytes]
    /\ vlen = 0
    /\ verr = "OK"
    /\ vret = "none"
    /\ rem = [off |-> 0, len |-> 0]

\* The bytes b copied to data[vlen ..], vlen advanced.
Stored(b) ==
    /\ data' = [j \in DOMAIN data |->
                  IF j - vlen \in 0..Len(b)-1 THEN b[j - vlen + 1] ELSE data[j]]
    /\ vlen' = vlen + Len(b)

ByteVecPush(x) ==
    IF vlen >= Capacity
      THEN vret' = "NOMEM" /\ UNCHANGED <<data, vlen>>
      ELSE vret' = "OK" /\ Stored(<<x>>)

\* mutant: the space check written with <=, refusing an exact fit
ByteVecAppendNoExact(b) ==
    IF Capacity - vlen <= Len(b)
      THEN vret' = "NOMEM" /\ UNCHANGED <<data, vlen>>
      ELSE vret' = "OK" /\ Stored(b)

\* ggl_byte_vec_append, and byte_vec_write of ggl_byte_vec_writer
ByteVecAppend(b) ==
    IF Capacity - vlen < Len(b)
      THEN vret' = "NOMEM" /\ UNCHANGED <<data, vlen>>
      ELSE vret' = "OK" /\ Stored(b)

\* ggl_byte_vec_chain_push / ggl_byte_vec_chain_append
VChain(A) ==
    IF verr = "OK" THEN A /\ verr' = vret'
    ELSE UNCHANGED <<data, vlen, verr, vret>>

\* ggl_byte_vec_remaining_capacity: the unused tail of the buffer.
RemainingCapacity ==
    /\ rem' = [off |-> vlen, len |-> Capacity - vlen]
    /\ UNCHANGED <<data, vlen, verr, vret>>

VNext ==
    \/ \E x \in Bytes : ByteVecPush(x) /\ UNCHANGED <<verr, rem>>
    \/ \E b \in Appends : ByteVecAppend(b) /\ UNCHANGED <<verr, rem>>
    \/ \E x \in Bytes : VChain(ByteVecPush(x)) /\ UNCHANGED rem
    \/ \E b \in Appends : VChain(ByteVecAppend(b)) /\ UNCHANGED rem
    \/ RemainingCapacity

VSpec == VInit /\ [][VNext]_vvars
====
