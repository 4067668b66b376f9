------------------------------ MODULE MC_Buffer ------------------------------
(***************************************************************************)
(* The functions of src/src/buffer.c and the byte vector of               *)
(* src/src/vector.c checked in one run.  fn, chosen in the initial state, *)
(* picks what a behaviour exercises: ggl_str_to_int64 (StrToInt), the     *)
(* GglBuffer helpers and writes (Buffer), the buffer writer alone         *)
(* (ggl_buf_writer), or a GglByteVec (ByteVec); the other parts stay      *)
(* idle.  They share no state in the code.                                 *)
(***************************************************************************)
EXTENDS Integers, Sequences

CONSTANTS Width, Chars, MaxLen, Bytes, ArrayLen, ArgLen, SizeBits

VARIABLES fn, str, ret, sign, i, status, mem, buf, call, access,
          data, vlen, verr, vret, rem

P == INSTANCE StrToInt
B == INSTANCE Buffer
V == INSTANCE ByteVec WITH Capacity <- ArrayLen

pvars == <<str, ret, sign, i, status>>
bvars == <<mem, buf, call, access>>
vvars == <<data, vlen, verr, vret, rem>>
vars == <<fn, pvars, bvars, vvars>>

ParseIdle == str = <<>> /\ ret = 0 /\ sign = 1 /\ i = 0 /\ status = "idle"
BufferIdle ==
    /\ mem = [j \in B!Addrs |-> CHOOSE x \in Bytes : TRUE]
    /\ buf = [off |-> 0, len |-> 0]
    /\ call = [fn |-> "none", arg |-> <<>>, ret |-> FALSE]
    /\ access = {}
VecIdle ==
    /\ data = [j \in B!Addrs |-> CHOOSE x \in Bytes : TRUE]
    /\ vlen = 0 /\ verr = "OK" /\ vret = "none"
    /\ rem = [off |-> 0, len |-> 0]
Init ==
    \/ fn = "str_to_int" /\ P!Init /\ BufferIdle /\ VecIdle
    \/ fn \in {"buffer", "buf_writer"} /\ B!BInit /\ ParseIdle /\ VecIdle
    \/ fn = "byte_vec" /\ V!VInit /\ ParseIdle /\ BufferIdle

Next ==
    /\ UNCHANGED fn
    /\ \/ fn = "str_to_int" /\ P!Next /\ UNCHANGED <<bvars, vvars>>
       \/ fn = "buffer" /\ B!BNext /\ UNCHANGED <<pvars, vvars>>
       \/ fn = "buf_writer" /\ \E b \in B!Args : B!BufWrite(b)
          /\ UNCHANGED <<pvars, vvars>>
       \/ fn = "byte_vec" /\ V!VNext /\ UNCHANGED <<pvars, bvars>>

Spec == Init /\ [][Next]_vars

\* ggl_str_to_int64 agrees with the decimal reference (StrToInt).
ParsesExactly == P!ParsesExactly
\* No intermediate value of the parse overflows (StrToInt).
NoOverflow == P!NoOverflow
\* No helper or write reaches outside the array (Buffer).
InBounds == B!InBounds
\* Every helper does what it promises of byte strings (Buffer).
HelpersExact == B!HelpersExact

(***************************************************************************)
(* The two GglWriters of the code as writer sinks: what the buffer writer *)
(* has delivered is the array before the target's offset; what the byte  *)
(* vector has delivered is its first len bytes (a push is a one-byte      *)
(* write, a skipped chain call and the remaining-capacity query write     *)
(* nothing).                                                               *)
(***************************************************************************)
WOut ==
    CASE fn = "buf_writer" -> B!View([off |-> 0, len |-> buf.off], mem)
      [] fn = "byte_vec" -> [k \in 1..vlen |-> data[k-1]]
      [] OTHER -> <<>>
WRet ==
    CASE fn = "buf_writer" /\ call.fn = "write" -> call.ret
      [] fn = "byte_vec" -> vret
      [] OTHER -> "none"

W == INSTANCE Writer WITH Cap <- ArrayLen, out <- WOut, wret <- WRet

(***************************************************************************)
(* ggl_buf_writer and ggl_byte_vec_writer (with the vector's own push,    *)
(* append and chain calls) implement the writer sink: every write         *)
(* delivers all its bytes after the earlier ones, or none with NOMEM      *)
(* exactly when they do not fit, over any sequence of writes.             *)
(***************************************************************************)
ImplementsWriter == W!Spec
====
