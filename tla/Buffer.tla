-------------------------------- MODULE Buffer --------------------------------
(***************************************************************************)
(* The GglBuffer helpers of src/src/buffer.c: ggl_buffer_eq, has/remove   *)
(* prefix and suffix, ggl_buffer_contains, ggl_buffer_substr, and the     *)
(* buffer writer buf_write, applied in any order by a caller to one       *)
(* GglBuffer that views a fixed array.                                     *)
(*                                                                         *)
(* A GglBuffer is its offset into the array (.data) and its length.  The  *)
(* code is modelled on offsets (pointer arithmetic) with size_t kept at   *)
(* SizeBits bits, so an unsigned subtraction wraps as it does in C.  The  *)
(* properties compare it with the byte-string meaning of each helper.    *)
(***************************************************************************)
EXTENDS Integers, Sequences, SequencesExt

CONSTANTS
    Bytes,       \* byte values in the array and in the arguments
    ArrayLen,    \* length of the array the buffer views
    ArgLen,      \* bound: length of a byte-string argument
    SizeBits     \* bits of size_t (64 in the code)

ASSUME ArrayLen \in Nat /\ ArgLen \in Nat /\ SizeBits \in 1..16
ASSUME 2^SizeBits > ArrayLen + ArgLen

VARIABLES
    mem,         \* the array: 0..ArrayLen-1 -> Bytes
    buf,         \* the caller's GglBuffer: [off, len]
    call,        \* the last helper called: fn, argument, returned value
    access       \* the array indices the last call read or wrote

bvars == <<mem, buf, call, access>>

SIZE_MAX == 2^SizeBits - 1
Addrs == 0..ArrayLen-1
Args == UNION { [1..n -> Bytes] : n \in 0..ArgLen }
Sizes == {0, 1, 2, SIZE_MAX}
\* size_t subtraction
SizeSub(a, b) == (a - b) % 2^SizeBits

(***************************************************************************)
(* memcmp(&array[o], s, Len(s)) == 0, with the indices it reads; a byte   *)
(* outside the array never compares equal.                                *)
(***************************************************************************)
Memcmp(o, s) ==
    [eq  |-> \A k \in 1..Len(s) : o+k-1 \in Addrs /\ mem[o+k-1] = s[k],
     acc |-> {o + k : k \in 0..Len(s)-1}]
NoCmp == [eq |-> FALSE, acc |-> {}]

BInit ==
    /\ mem \in [Addrs -> Bytes]
    /\ buf = [off |-> 0, len |-> ArrayLen]
    /\ call = [fn |-> "none", arg |-> <<>>, ret |-> FALSE]
    /\ access = {}

\* mutant: the length computed without the end >= start guard
SubstrNoGuard(b, start, end) ==
    LET st == IF start < b.len THEN start ELSE b.len
        en == IF end < b.len THEN end ELSE b.len
    IN [off |-> b.off + st, len |-> SizeSub(en, st)]

\* ggl_buffer_substr: start and end are clamped to the length.
Substr(b, start, end) ==
    LET st == IF start < b.len THEN start ELSE b.len
        en == IF end < b.len THEN end ELSE b.len
    IN [off |-> b.off + st, len |-> IF en >= st THEN en - st ELSE 0]

\* ggl_buffer_eq: equal lengths, then memcmp (none for two empty buffers).
BufferEq(b, s) == IF b.len = Len(s) THEN Memcmp(b.off, s) ELSE NoCmp

HasPrefix(b, p) == IF Len(p) <= b.len THEN Memcmp(b.off, p) ELSE NoCmp

\* mutant: has_suffix without the suffix.len <= buf.len check
HasSuffixNoLen(b, s) == Memcmp(b.off + SizeSub(b.len, Len(s)), s)

HasSuffix(b, s) ==
    IF Len(s) <= b.len THEN Memcmp(b.off + SizeSub(b.len, Len(s)), s)
    ELSE NoCmp

\* The caller's call of fn on arg: what it returns and what it accessed.
Called(fn, arg, r, acc) ==
    /\ call' = [fn |-> fn, arg |-> arg, ret |-> r]
    /\ access' = acc

Eq(s) ==
    /\ Called("eq", s, BufferEq(buf, s).eq, BufferEq(buf, s).acc)
    /\ UNCHANGED <<mem, buf>>

\* ggl_buffer_remove_prefix: has_prefix, then substr(prefix.len, SIZE_MAX).
RemovePrefix(p) ==
    LET c == HasPrefix(buf, p) IN
    /\ Called("remove_prefix", p, c.eq, c.acc)
    /\ buf' = IF c.eq THEN Substr(buf, Len(p), SIZE_MAX) ELSE buf
    /\ UNCHANGED mem

\* ggl_buffer_remove_suffix: has_suffix, then substr(0, len - suffix.len).
RemoveSuffix(s) ==
    LET c == HasSuffix(buf, s) IN
    /\ Called("remove_suffix", s, c.eq, c.acc)
    /\ buf' = IF c.eq THEN Substr(buf, 0, SizeSub(buf.len, Len(s))) ELSE buf
    /\ UNCHANGED mem

(***************************************************************************)
(* ggl_buffer_contains: an empty substring is found at 0; otherwise       *)
(* memmem returns the first offset of the window where it occurs, or      *)
(* NULL (-1 here stands for false with *start untouched).                 *)
(***************************************************************************)
BufferContains(sub) ==
    LET at == {k \in 0..buf.len - Len(sub) : Memcmp(buf.off + k, sub).eq}
        first == CHOOSE k \in at : \A j \in at : k <= j
    IN
    /\ IF Len(sub) = 0
         THEN Called("contains", sub, 0, {})
         ELSE Called("contains", sub, IF at = {} THEN -1 ELSE first,
                     {buf.off + k : k \in 0..buf.len-1})
    /\ UNCHANGED <<mem, buf>>

\* buf = ggl_buffer_substr(buf, start, end)
SubstrCall(start, end) ==
    /\ Called("substr", <<start, end>>, TRUE, {})
    /\ buf' = Substr(buf, start, end)
    /\ UNCHANGED mem

\* mutant: the space check written with <=, refusing a write that fits
\* exactly
BufWriteExactRefused(b) ==
    IF buf.len <= Len(b)
      THEN /\ Called("write", b, "NOMEM", {})
           /\ UNCHANGED <<mem, buf>>
      ELSE /\ Called("write", b, "OK", {buf.off + k : k \in 0..Len(b)-1})
           /\ mem' = [j \in Addrs |->
                        IF j - buf.off \in 0..Len(b)-1 THEN b[j - buf.off + 1]
                        ELSE mem[j]]
           /\ buf' = Substr(buf, Len(b), SIZE_MAX)

(***************************************************************************)
(* A write through ggl_buf_writer(&buf) (buf_write): NOMEM with nothing   *)
(* written if the target is shorter than the data; otherwise memcpy to    *)
(* the front of the target, which then advances past what was written.    *)
(***************************************************************************)
BufWrite(b) ==
    IF buf.len < Len(b)
      THEN /\ Called("write", b, "NOMEM", {})
           /\ UNCHANGED <<mem, buf>>
      ELSE /\ Called("write", b, "OK", {buf.off + k : k \in 0..Len(b)-1})
           /\ mem' = [j \in Addrs |->
                        IF j - buf.off \in 0..Len(b)-1 THEN b[j - buf.off + 1]
                        ELSE mem[j]]
           /\ buf' = Substr(buf, Len(b), SIZE_MAX)

BNext ==
    \/ \E s \in Args : Eq(s) \/ RemovePrefix(s) \/ RemoveSuffix(s)
                       \/ BufferContains(s) \/ BufWrite(s)
    \/ \E a, e \in Sizes : SubstrCall(a, e)

BSpec == BInit /\ [][BNext]_bvars
-----------------------------------------------------------------------------
(***************************************************************************)
(* Memory safety: after any sequence of calls the buffer lies within the  *)
(* array, and no memcmp, memmem or memcpy of the last call touched a byte *)
(* outside it, however the unsigned length arithmetic (len - suffix.len,  *)
(* end - start) and the clamping of substr combine.                        *)
(***************************************************************************)
InBounds ==
    /\ buf.off + buf.len <= ArrayLen
    /\ access \subseteq Addrs

\* The bytes a buffer views.
View(b, m) == [k \in 1..b.len |-> m[b.off + k - 1]]
Lesser(x, y) == IF x < y THEN x ELSE y

(***************************************************************************)
(* Every call does to the bytes the buffer views what its name says of    *)
(* byte strings: eq is equality, remove_prefix/suffix succeed exactly for *)
(* a prefix/suffix and leave the rest, contains finds the first           *)
(* occurrence, substr is the clamped subsequence, and a write succeeds    *)
(* exactly when it fits, lands at the front of the buffer and leaves the  *)
(* buffer viewing what follows it; nothing else in the array changes.     *)
(***************************************************************************)
StepExact ==
    LET v == View(buf, mem)
        v2 == View(buf', mem')
        a == call'.arg
        r == call'.ret
        wrote == IF call'.fn = "write" /\ r = "OK" THEN Len(a) ELSE 0
    IN
    /\ \A j \in Addrs : j - buf.off \notin 0..wrote-1 => mem'[j] = mem[j]
    /\ CASE call'.fn = "eq" -> r = (a = v) /\ v2 = v
         [] call'.fn = "remove_prefix" ->
              r = IsPrefix(a, v) /\ v = IF r THEN a \o v2 ELSE v2
         [] call'.fn = "remove_suffix" ->
              r = IsSuffix(a, v) /\ v = IF r THEN v2 \o a ELSE v2
         [] call'.fn = "contains" ->
              /\ r = IF a \in SubSeqs(v) THEN IndexFirstSubSeq(a, v) - 1 ELSE -1
              /\ v2 = v
         [] call'.fn = "substr" ->
              v2 = SubSeq(v, Lesser(a[1], Len(v)) + 1, Lesser(a[2], Len(v)))
         [] call'.fn = "write" ->
              /\ r = IF Len(a) <= Len(v) THEN "OK" ELSE "NOMEM"
              /\ IF r = "OK" THEN View(buf, mem') = a \o v2 ELSE v2 = v
         [] OTHER -> FALSE

HelpersExact == [][StepExact]_bvars
====
