----------------------------- MODULE MapCanonical -----------------------------
(***************************************************************************)
(* gg_map_canonicalize_shallow and gg_map_is_canonical of                  *)
(* src/src/map_canonical.c, run on one map.                                *)
(*                                                                         *)
(* The map is the C array of pairs, indexed from 0, with its length len.  *)
(* Each iteration of the two loops is a step: prune_duplicates walks i    *)
(* from len down to 1 and overwrites a duplicate with the last pair;      *)
(* sort_keys is an insertion sort with swaps.  A key is a byte string (a *)
(* sequence of byte values); the value of each input pair is its 1-based  *)
(* position in the input, so the result shows which occurrence survived.  *)
(***************************************************************************)
EXTENDS Integers, Sequences, FiniteSets

CONSTANTS
    Bytes,       \* byte values keys are made of
    MaxKeyLen,   \* bound: length of a key
    MaxPairs     \* bound: length of the input map

ASSUME Bytes \subseteq 0..255 /\ MaxKeyLen \in Nat /\ MaxPairs \in Nat

VARIABLES
    input,       \* the map passed in (history: a sequence of keys)
    pairs,       \* val->pairs[0..N-1]
    len,         \* val->len
    i,           \* loop index of prune_duplicates / outer loop of sort_keys
    j,           \* inner loop index of sort_keys
    phase        \* "prune", "sort_outer", "sort_inner", "done"

vars == <<input, pairs, len, i, j, phase>>

Keys == UNION { [1..n -> Bytes] : n \in 0..MaxKeyLen }
Inputs == UNION { [1..n -> Keys] : n \in 0..MaxPairs }
\* GG_STR("<pruned>") with GG_OBJ_NULL: a key no input key equals
Pruned == [key |-> <<-1>>, val |-> 0]

(***************************************************************************)
(* is_key_less: byte-lexicographic over the common prefix, then shorter   *)
(* first.                                                                  *)
(***************************************************************************)
\* mutant: is_key_less without the length tie-break
RECURSIVE KeyLessFromNoLen(_, _, _)
KeyLessFromNoLen(a, b, n) ==
    IF n > Len(a) \/ n > Len(b) THEN FALSE
    ELSE IF a[n] < b[n] THEN TRUE
    ELSE IF b[n] < a[n] THEN FALSE
    ELSE KeyLessFromNoLen(a, b, n + 1)

RECURSIVE KeyLessFrom(_, _, _)
KeyLessFrom(a, b, n) ==
    IF n > Len(a) \/ n > Len(b) THEN Len(a) < Len(b)
    ELSE IF a[n] < b[n] THEN TRUE
    ELSE IF b[n] < a[n] THEN FALSE
    ELSE KeyLessFrom(a, b, n + 1)

KeyLess(a, b) == KeyLessFrom(a, b, 1)

\* gg_map_get: the index of the first of the len pairs with key k.
MapGet(p, n, k) == CHOOSE x \in 0..n-1 : p[x].key = k /\
                                         \A y \in 0..x-1 : p[y].key # k

\* gg_map_is_canonical: keys strictly increasing.
IsCanonical(p, n) == \A x \in 1..n-1 : KeyLess(p[x-1].key, p[x].key)

Init ==
    /\ input \in Inputs
    /\ pairs = [x \in 0..Len(input)-1 |-> [key |-> input[x+1], val |-> x+1]]
    /\ len = Len(input)
    /\ i = Len(input)
    /\ j = 0
    /\ phase = "prune"

\* mutant: prune that marks the duplicate's place without moving the last
\* pair into it
PruneStepNoMove ==
    /\ phase = "prune" /\ i > 0
    /\ i' = i - 1
    /\ IF MapGet(pairs, len, pairs[i-1].key) = i - 1
         THEN UNCHANGED <<pairs, len>>
         ELSE /\ pairs' = [pairs EXCEPT ![len-1] = Pruned]
              /\ len' = len - 1
    /\ UNCHANGED <<input, j, phase>>

(***************************************************************************)
(* One iteration of prune_duplicates: a pair that is not the first with   *)
(* its key is a duplicate; the last pair takes its place and the length   *)
(* shrinks.                                                                *)
(***************************************************************************)
PruneStep ==
    /\ phase = "prune" /\ i > 0
    /\ i' = i - 1
    /\ IF MapGet(pairs, len, pairs[i-1].key) = i - 1
         THEN UNCHANGED <<pairs, len>>
         ELSE /\ pairs' = [pairs EXCEPT ![i-1] = IF i # len THEN pairs[len-1]
                                                 ELSE @,
                                        ![len-1] = Pruned]
              /\ len' = len - 1
    /\ UNCHANGED <<input, j, phase>>

\* prune_duplicates returns; sort_keys starts at i = 0.
PruneDone ==
    /\ phase = "prune" /\ i = 0
    /\ phase' = "sort_outer"
    /\ UNCHANGED <<input, pairs, len, i, j>>

\* mutant: the inner loop of sort_keys with the comparison's arguments
\* swapped (sorts in descending order)
SortInnerSwapped ==
    /\ phase = "sort_inner"
    /\ IF j > 0 /\ KeyLess(pairs[j-1].key, pairs[j].key)
         THEN /\ pairs' = [pairs EXCEPT ![j] = pairs[j-1], ![j-1] = pairs[j]]
              /\ j' = j - 1
              /\ UNCHANGED <<i, phase>>
         ELSE /\ i' = i + 1
              /\ phase' = "sort_outer"
              /\ UNCHANGED <<pairs, j>>
    /\ UNCHANGED <<input, len>>

\* mutant: sort_keys whose outer loop lost its ++i
SortInnerNoInc ==
    /\ phase = "sort_inner"
    /\ IF j > 0 /\ KeyLess(pairs[j].key, pairs[j-1].key)
         THEN /\ pairs' = [pairs EXCEPT ![j] = pairs[j-1], ![j-1] = pairs[j]]
              /\ j' = j - 1
              /\ UNCHANGED <<i, phase>>
         ELSE /\ phase' = "sort_outer"
              /\ UNCHANGED <<pairs, i, j>>
    /\ UNCHANGED <<input, len>>

(***************************************************************************)
(* sort_keys: insertion sort.  The outer loop starts the inner loop at    *)
(* j = i; the inner loop swaps pair j down while it is less than pair     *)
(* j - 1 (swap_pairs).                                                     *)
(***************************************************************************)
SortOuter ==
    /\ phase = "sort_outer"
    /\ IF i < len
         THEN /\ j' = i
              /\ phase' = "sort_inner"
         ELSE /\ phase' = "done"
              /\ UNCHANGED j
    /\ UNCHANGED <<input, pairs, len, i>>

SortInner ==
    /\ phase = "sort_inner"
    /\ IF j > 0 /\ KeyLess(pairs[j].key, pairs[j-1].key)
         THEN /\ pairs' = [pairs EXCEPT ![j] = pairs[j-1], ![j-1] = pairs[j]]
              /\ j' = j - 1
              /\ UNCHANGED <<i, phase>>
         ELSE /\ i' = i + 1
              /\ phase' = "sort_outer"
              /\ UNCHANGED <<pairs, j>>
    /\ UNCHANGED <<input, len>>

\* gg_map_canonicalize_shallow has returned.
Returned ==
    /\ phase = "done"
    /\ UNCHANGED vars

Next == PruneStep \/ PruneDone \/ SortOuter \/ SortInner \/ Returned

Spec == Init /\ [][Next]_vars /\ WF_vars(Next)

-----------------------------------------------------------------------------
Result == {pairs[x] : x \in 0..len-1}

TypeOK ==
    /\ input \in Inputs
    /\ len \in 0..Len(input)
    /\ pairs \in [0..Len(input)-1 -> [key : Keys, val : 1..Len(input)]
                                     \cup {Pruned}]
    /\ i \in 0..Len(input) /\ j \in 0..Len(input)
    /\ phase \in {"prune", "sort_outer", "sort_inner", "done"}

\* The pairs the tests expect to survive: the first occurrence of each key.
FirstOccurrences ==
    {[key |-> input[x], val |-> x] :
        x \in {y \in DOMAIN input : \A z \in 1..y-1 : input[z] # input[y]}}

\* The pairs spec.md says survive: the last occurrence of each key.
LastOccurrences ==
    {[key |-> input[x], val |-> x] :
        x \in {y \in DOMAIN input : \A z \in y+1..Len(input) : input[z] # input[y]}}

(***************************************************************************)
(* Canonicalisation yields a canonical map: when                           *)
(* gg_map_canonicalize_shallow returns, gg_map_is_canonical holds of the   *)
(* first len pairs (spec 8).                                               *)
(***************************************************************************)
CanonicalResult == phase = "done" => IsCanonical(pairs, len)

(***************************************************************************)
(* Nothing is lost and the first occurrence wins: the result holds         *)
(* exactly one pair per distinct input key, the first one in the input,   *)
(* as the map_prune_duplicates and map_canonicalize tests expect.         *)
(***************************************************************************)
KeepsFirst == phase = "done" => Result = FirstOccurrences

(***************************************************************************)
(* spec.md 3 and 4.2: canonicalisation keeps the last write for any       *)
(* duplicate key.                                                          *)
(***************************************************************************)
KeepsLast == phase = "done" => Result = LastOccurrences

(***************************************************************************)
(* Canonicalising a canonical map is the identity (spec 8: canonicalize   *)
(* is idempotent): no step of prune_duplicates or sort_keys changes a map *)
(* that is already canonical.                                              *)
(***************************************************************************)
CanonicalUntouched ==
    [][IsCanonical(pairs, len) => UNCHANGED <<pairs, len>>]_vars

\* Both loops terminate: gg_map_canonicalize_shallow returns.
Terminates == <>(phase = "done")

====
