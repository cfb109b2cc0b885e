------------------------------- MODULE Spans -------------------------------
(***************************************************************************)
(* src/src/internals/algorithms.c and span.c: operations on a span, a part  *)
(* of the buffer of a vector or an array.  The buffer's elements are        *)
(* numbered from 0; a span is the indices first .. first + nmemb - 1.       *)
(***************************************************************************)
EXTENDS Integers, Sequences, FiniteSets, Functions, SequencesExt

CONSTANTS
  Len0,    \* elements of the buffer
  Values,  \* elements, integers that the client's comparator orders
  FAULT    \* the state after a trap: nothing is known of the buffer

SpansAssumption ==
  /\ Len0 \in Nat /\ Values \subseteq Int
  /\ FAULT \notin [0 .. Len0 - 1 -> Values]

VARIABLES
  data,    \* the buffer
  span,    \* ghost: the span of the last operation
  op       \* ghost: that operation

vars == <<data, span, op>>

Indices == 0 .. Len0 - 1
(* span_from_vector, span_from_vector_slice and the array's, by make_span.  *)
make_span(first, nmemb) == [first |-> first, nmemb |-> nmemb]
Slices == {make_span(p[1], p[2]) : p \in {q \in (0 .. Len0) \X (0 .. Len0) : q[1] + q[2] <= Len0}}
InSpan(s) == s.first .. s.first + s.nmemb - 1
Item(d, s, i) == d[s.first + i]
Items(d, s) == [i \in 1 .. s.nmemb |-> Item(d, s, i - 1)]

(* Client code: a comparator and a transformation.                          *)
compare(a, b) == a - b
transform(v) == IF -v \in Values THEN -v ELSE v

-----------------------------------------------------------------------------
(* internal_swap of items a and b of s.                                     *)
swapNoBuff(d, s, a, b) ==                                  \* mutant
  [d EXCEPT ![s.first + a] = Item(d, s, b)]
swap(d, s, a, b) ==
  [d EXCEPT ![s.first + a] = Item(d, s, b), ![s.first + b] = Item(d, s, a)]

(* reverse_span: the two ends swap until they meet.                         *)
Meet(s) == s.nmemb \div 2
reverse_span(d, s) ==
  LET after[b \in 0 .. Meet(s)] ==
        IF b = 0 THEN d ELSE swap(after[b - 1], s, b - 1, s.nmemb - b)
  IN  after[Meet(s)]

(* fisher_yates_shuffle: i from the last item down to 1 swaps with the item *)
(* j that random() picks, of those up to i.  choice maps each i to its j.   *)
PicksAny(s, i) == 0 .. s.nmemb - 1                         \* mutant
Picks(s, i) == 0 .. i
PickSequences(s) == {c \in [1 .. s.nmemb - 1 -> 0 .. s.nmemb - 1] :
                 \A i \in DOMAIN c : c[i] \in Picks(s, i)}
Shuffled(d, s, choice) ==
  LET after[k \in 0 .. s.nmemb - 1] ==     \* k swaps done
        IF k = 0 THEN d ELSE swap(after[k - 1], s, s.nmemb - k, choice[s.nmemb - k])
  IN  after[s.nmemb - 1]

(* nmemb - 1 is unsigned: over no items i starts as the largest size_t, and *)
(* random() % (i + 1), a remainder by zero, traps before anything moves.    *)
shuffle_span(d, s) ==
  IF s.nmemb = 0 THEN {FAULT} ELSE {Shuffled(d, s, c) : c \in PickSequences(s)}

fill_span(d, s, v) == [i \in Indices |-> IF i \in InSpan(s) THEN v ELSE d[i]]
transform_span(d, s) == [i \in Indices |-> IF i \in InSpan(s) THEN transform(d[i]) ELSE d[i]]

(* qsort: the items in places of which none compares greater than a later.  *)
Places(s) == {p \in [1 .. s.nmemb -> 1 .. s.nmemb] : IsInjective(p)}
InOrder(t, p) == \A i, j \in DOMAIN t : i < j => compare(t[p[i]], t[p[j]]) <= 0
Sorted(d, s) ==
  LET t == Items(d, s)
      p == CHOOSE q \in Places(s) : InOrder(t, q)
  IN  [i \in 1 .. s.nmemb |-> t[p[i]]]
sort_span(d, s) ==
  [i \in Indices |-> IF i \in InSpan(s) THEN Sorted(d, s)[i - s.first + 1] ELSE d[i]]

(* duplicate_span, which asserts that the source fits; memcpy, so the spans *)
(* do not overlap.                                                          *)
MayDuplicate(dest, src) == dest.nmemb >= src.nmemb /\ InSpan(dest) \cap InSpan(src) = {}
duplicate_span(d, dest, src) ==
  [i \in Indices |-> IF i \in dest.first .. dest.first + src.nmemb - 1
                       THEN Item(d, src, i - dest.first) ELSE d[i]]

-----------------------------------------------------------------------------
(* find_span: the first item that compares equal, or NULL (-1).             *)
find_span(d, s, v) ==
  LET at == {i \in 0 .. s.nmemb - 1 : compare(Item(d, s, i), v) = 0}
  IN  IF at = {} THEN -1 ELSE CHOOSE i \in at : \A j \in at : i <= j

(* equal_span, of two spans of one buffer; it compares the items of spans   *)
(* that start at one place only.                                            *)
equal_span(d, s, t) ==
  /\ s.nmemb = t.nmemb
  /\ \/ s.first # t.first
     \/ \A i \in 0 .. s.nmemb - 1 : compare(Item(d, s, i), Item(d, t, i)) = 0

(* min_span and max_span: the item of a span that is not empty which keeps  *)
(* its place against every later one.                                       *)
Kept(d, s, Beats(_, _)) ==
  LET best[i \in 0 .. s.nmemb - 1] ==
        IF i = 0 THEN 0
        ELSE IF Beats(Item(d, s, best[i - 1]), Item(d, s, i)) THEN i ELSE best[i - 1]
  IN  best[s.nmemb - 1]
min_span(d, s) == Kept(d, s, LAMBDA a, b : compare(a, b) < 0)
max_spanLast(d, s) == Kept(d, s, LAMBDA a, b : compare(a, b) >= 0)    \* mutant
max_span(d, s) == Kept(d, s, LAMBDA a, b : compare(a, b) > 0)

-----------------------------------------------------------------------------
(* The client's buffer starts filled with one value.                        *)
Init == data \in {[i \in Indices |-> v] : v \in Values} /\ span = make_span(0, Len0) /\ op = "none"

Does(name, s, results) ==
  data # FAULT /\ data' \in results /\ span' = s /\ op' = name

ReverseSpan == \E s \in Slices : Does("reverse", s, {reverse_span(data, s)})
ShuffleSpan == \E s \in Slices : Does("shuffle", s, shuffle_span(data, s))
SortSpan == \E s \in Slices : Does("sort", s, {sort_span(data, s)})
FillSpan == \E s \in Slices, v \in Values : Does("fill", s, {fill_span(data, s, v)})
TransformSpan == \E s \in Slices : Does("transform", s, {transform_span(data, s)})
DuplicateSpan == \E s, t \in Slices : /\ MayDuplicate(s, t)
                                      /\ Does("duplicate", s, {duplicate_span(data, s, t)})

Next == ReverseSpan \/ ShuffleSpan \/ SortSpan \/ FillSpan \/ TransformSpan \/ DuplicateSpan

Spec == Init /\ [][Next]_vars

-----------------------------------------------------------------------------
(* An operation on a span changes no element of the buffer outside it.  All *)
(* return but a shuffle of no items, after which nothing is known.          *)
OutsideKept ==
  [][IF data' = FAULT THEN op' = "shuffle" /\ span'.nmemb = 0
     ELSE \A i \in Indices \ InSpan(span') : data'[i] = data[i]]_vars

(* Reversing, shuffling and sorting lose and duplicate no element.          *)
ElementsKept ==
  [][data' # FAULT /\ op' \in {"reverse", "shuffle", "sort"} =>
       \A v \in Values : Cardinality({i \in Indices : data'[i] = v})
                           = Cardinality({i \in Indices : data[i] = v})]_vars

(* The in-place reversal is the reversal, of odd and even lengths.          *)
ReverseReverses ==
  data # FAULT =>
    \A s \in Slices : Items(reverse_span(data, s), s) = Reverse(Items(data, s))

(* The shuffle is fair: each order of distinct items results from exactly   *)
(* one sequence of picks, so fair picks give each order the same chance.    *)
ShuffleFair ==
  data # FAULT =>
    \A s \in Slices :
      s.nmemb > 0 /\ IsInjective(Items(data, s)) =>
        LET outcomes == [c \in PickSequences(s) |-> Items(Shuffled(data, s, c), s)]
        IN  /\ IsInjective(outcomes)
            /\ \A p \in [1 .. s.nmemb -> Range(Items(data, s))] :
                 IsInjective(p) => p \in Range(outcomes)

(* The reversal and the shuffle.                                            *)
ReordersRight == ReverseReverses /\ ShuffleFair

(* min_span returns the first of the greatest items and max_span the first  *)
(* of the least, the other way round than their names say, and equal_span   *)
(* is true of any two spans of one length.                                  *)
Greatest(d, s, m) == \A i \in 0 .. s.nmemb - 1 : Item(d, s, i) <= Item(d, s, m)
LeastItem(d, s, m) == \A i \in 0 .. s.nmemb - 1 : Item(d, s, m) <= Item(d, s, i)
FirstFound(d, s, m) == find_span(d, s, Item(d, s, m)) = m
ReadersAnswer ==
  data # FAULT =>
    \A s \in Slices :
      /\ s.nmemb > 0 =>
           LET a == min_span(data, s)
               b == max_span(data, s)
           IN  /\ Greatest(data, s, a) /\ FirstFound(data, s, a)
               /\ LeastItem(data, s, b) /\ FirstFound(data, s, b)
      /\ \A t \in Slices : equal_span(data, s, t) <=> s.nmemb = t.nmemb
=============================================================================
