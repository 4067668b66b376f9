-------------------------------- MODULE Vector ---------------------------------
(***************************************************************************)
(* The bounded vectors of src/src/vector.c: a list over a fixed backing   *)
(* array of Capacity items, with push, pop, append, the "chain" variants  *)
(* that do nothing once an earlier call failed, and                       *)
(* ggl_buf_vec_append_list, which pushes a list's buffers one by one.     *)
(* GglObjVec, GglKVVec, GglByteVec and GglBufVec share these operations;  *)
(* the module models one vector and the error variable a caller threads   *)
(* through a chain of calls.                                               *)
(***************************************************************************)
EXTENDS Integers, Sequences, SequencesExt

CONSTANTS
    Capacity,    \* vector->capacity
    Bufs,        \* objects that are buffers
    Others,      \* objects of another type
    MaxList      \* bound: length of a list passed to append

ASSUME Capacity \in Nat /\ MaxList \in Nat /\ Bufs \cap Others = {}

VARIABLES
    items,       \* vector->list.items[0 .. len-1]
    err,         \* the GglError a chain of calls threads through
    last         \* history: the last call and what it returned

vars == <<items, err, last>>

Objects == Bufs \cup Others
Lists == UNION { [1..n -> Objects] : n \in 0..MaxList }
\* how: "plain", or "chain" for a call made through a *_chain_* wrapper
Call(op, arg, ret, how) ==
    [op |-> op, arg |-> arg, ret |-> ret, how |-> how]

\* The vector's contents and the call just made.
Did(op, arg, ret, new, how) ==
    /\ items' = new
    /\ last' = Call(op, arg, ret, how)

\* mutant: push whose capacity check lets len reach capacity + 1
PushOffByOne(x, how) ==
    IF Len(items) > Capacity THEN Did("push", <<x>>, "NOMEM", items, how)
    ELSE Did("push", <<x>>, "OK", Append(items, x), how)

\* ggl_obj_vec_push (and ggl_kv_vec_push, ggl_byte_vec_push, ggl_buf_vec_push)
Push(x, how) ==
    IF Len(items) >= Capacity THEN Did("push", <<x>>, "NOMEM", items, how)
    ELSE Did("push", <<x>>, "OK", Append(items, x), how)

\* ggl_obj_vec_pop
Pop(how) ==
    IF Len(items) = 0 THEN Did("pop", <<>>, "RANGE", items, how)
    ELSE Did("pop", <<>>, "OK", Front(items), how)

\* ggl_obj_vec_append (and ggl_byte_vec_append): all of the list or nothing
VecAppend(l, how) ==
    IF Capacity - Len(items) < Len(l) THEN Did("append", l, "NOMEM", items, how)
    ELSE Did("append", l, "OK", items \o l, how)

\* ggl_buf_vec_push, as ggl_buf_vec_append_list calls it
BufVecPush(v, x) ==
    IF Len(v) >= Capacity THEN [vec |-> v, ret |-> "NOMEM"]
    ELSE [vec |-> Append(v, x), ret |-> "OK"]

\* mutant: a loop that skips an item that is not a buffer
RECURSIVE AppendListFromSkip(_, _)
AppendListFromSkip(v, l) ==
    IF l = <<>> THEN [vec |-> v, ret |-> "OK"]
    ELSE IF Head(l) \notin Bufs THEN AppendListFromSkip(v, Tail(l))
    ELSE IF Len(v) >= Capacity THEN [vec |-> v, ret |-> "NOMEM"]
    ELSE AppendListFromSkip(Append(v, Head(l)), Tail(l))

(***************************************************************************)
(* ggl_buf_vec_append_list: push each item in turn; a non-buffer or a     *)
(* full vector stops it, with the items before already pushed.            *)
(***************************************************************************)
RECURSIVE AppendListFrom(_, _)
AppendListFrom(v, l) ==
    IF l = <<>> THEN [vec |-> v, ret |-> "OK"]
    ELSE IF Head(l) \notin Bufs THEN [vec |-> v, ret |-> "INVALID"]
    ELSE LET r == BufVecPush(v, Head(l)) IN
         IF r.ret # "OK" THEN r ELSE AppendListFrom(r.vec, Tail(l))

AppendList(l, how) ==
    LET r == AppendListFrom(items, l) IN Did("append_list", l, r.ret, r.vec, how)

\* The chain variants (*_chain_push, *_chain_append, *_chain_append_list):
\* make the call only while *err is OK, and store its result in *err.
Chain(A) ==
    IF err = "OK" THEN /\ A
                       /\ err' = last'.ret
    ELSE /\ last' = Call("chain", <<>>, "skipped", "chain")
         /\ UNCHANGED <<items, err>>

Init ==
    /\ items = <<>>
    /\ err = "OK"
    /\ last = Call("none", <<>>, "OK", "plain")

\* A caller makes a plain call, or a chain call, or starts a new chain.
Next ==
    \/ \E x \in Objects : Push(x, "plain") /\ UNCHANGED err
    \/ Pop("plain") /\ UNCHANGED err
    \/ \E l \in Lists : VecAppend(l, "plain") /\ UNCHANGED err
    \/ \E l \in Lists : AppendList(l, "plain") /\ UNCHANGED err
    \/ \E x \in Objects : Chain(Push(x, "chain"))
    \/ \E l \in Lists : Chain(VecAppend(l, "chain"))
    \/ \E l \in Lists : Chain(AppendList(l, "chain"))
    \/ /\ err' = "OK"                                 \* GglError err = OK
       /\ last' = Call("reset", <<>>, "OK", "plain")
       /\ UNCHANGED items

Spec == Init /\ [][Next]_vars
-----------------------------------------------------------------------------
(***************************************************************************)
(* No call writes past the backing array: the length never exceeds the    *)
(* capacity, whatever sequence of pushes, appends and chains is made      *)
(* (the capacity checks of every push and append).                        *)
(***************************************************************************)
WithinCapacity == Len(items) <= Capacity

(***************************************************************************)
(* ggl_buf_vec_append_list, plain or chained, is not atomic but is exact  *)
(* about what it did: it pushes a prefix of the list, the whole list iff  *)
(* it returns OK; INVALID stops at the first non-buffer item and NOMEM at *)
(* the first buffer that found the vector full.                          *)
(***************************************************************************)
AppendListPrefix ==
    [][last'.op = "append_list" =>
         LET l == last'.arg IN
         \E k \in 0..Len(l) :
            /\ items' = items \o SubSeq(l, 1, k)
            /\ (last'.ret = "OK") = (k = Len(l))
            /\ last'.ret = "INVALID" => l[k+1] \notin Bufs
            /\ last'.ret = "NOMEM" => l[k+1] \in Bufs /\ Len(items') = Capacity
      ]_vars
====
