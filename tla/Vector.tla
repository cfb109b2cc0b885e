------------------------------- MODULE Vector -------------------------------
(***************************************************************************)
(* src/src/internals/mpool.c: the contiguous storage under vector, stack    *)
(* and array, with src/src/containers/vector.c.  A stack is a vector used   *)
(* at its end; an array is one whose elements are only set.                 *)
(*                                                                         *)
(* Elements move by memmove inside the array and by realloc, which frees    *)
(* the old array; JUNK is what memory holds that nobody wrote.  The value a *)
(* call stores is given by its address, which may be that of an element of  *)
(* the same container (a source "own").                                     *)
(***************************************************************************)
EXTENDS Integers, Sequences, SequencesExt

CONSTANTS
  Values,
  SEQUENTIAL_INIT, SEQUENTIAL_GROWTH,  \* of internals/base.h
  MaxCapacity,  \* bound: elements the container has room for
  MaxRange,     \* bound: elements of an inserted range
  JUNK, NULL

ASSUME GrowthAssumption == /\ SEQUENTIAL_INIT \in Nat \ {0}
                           /\ SEQUENTIAL_GROWTH \in Nat \ {0, 1}
ASSUME JunkAssumption == JUNK \notin Values
ASSUME BoundsAssumption == MaxCapacity \in Nat /\ MaxRange \in Nat

VARIABLES
  vec,    \* the Vector object: array, capacity, nmemb
  items   \* ghost: the elements the client put in and did not take out

vars == <<vec, items>>

(* create_vector: calloc.                                                   *)
Init == /\ vec = [array |-> NULL, capacity |-> 0, nmemb |-> 0]
        /\ items = << >>

Element(v, i) == v.array[i]

-----------------------------------------------------------------------------
(* malloc or realloc of n elements: the first ones are kept; of none, the   *)
(* array is freed and realloc returns NULL.  A debug build takes that NULL  *)
(* for a failure and aborts (mpool.c:20); this is the release build, the    *)
(* default one, whose assertions are compiled out.                          *)
Reallocated(v, n) ==
  [v EXCEPT !.capacity = n,
            !.array = IF n = 0 THEN NULL
                      ELSE [i \in 0 .. n - 1 |->
                              IF i < v.capacity THEN Element(v, i) ELSE JUNK]]

(* mempool_resize's new capacity.                                           *)
Resized(capacity) ==
  IF capacity > 0 THEN capacity * SEQUENTIAL_GROWTH ELSE SEQUENTIAL_INIT

(* generic_mempool_insert: is the array to be resized first?                *)
IsFullEarly(v) == v.nmemb + 1 >= v.capacity                \* mutant
IsFull(v) == v.nmemb >= v.capacity
Room(v) == IF IsFull(v) THEN Reallocated(v, Resized(v.capacity)) ELSE v

(* mempool_insert's memmove: the elements from index on go up by one.       *)
MovedUpShort(v, index) ==                                  \* mutant
  [v EXCEPT !.array = [i \in DOMAIN @ |->
     IF i > index /\ i < v.nmemb THEN @[i - 1] ELSE @[i]]]
MovedUp(v, index) ==
  [v EXCEPT !.array = [i \in DOMAIN @ |->
     IF i > index /\ i <= v.nmemb THEN @[i - 1] ELSE @[i]]]

(* What is found at the address of the value: an element of the container   *)
(* is where it was, unless the array was moved away under it.               *)
ValueAt(v, moved, source) ==
  IF "own" \notin DOMAIN source THEN source.value
  ELSE IF IsFull(v) THEN JUNK ELSE Element(moved, source.own)

(* generic_mempool_insert.                                                  *)
Inserted(v, index, source) ==
  LET moved == MovedUp(Room(v), index)
  IN  [moved EXCEPT !.array[index] = ValueAt(v, moved, source),
                    !.nmemb = @ + 1]

(* mempool_remove, then the count.                                          *)
Removed(v, index) ==
  [v EXCEPT !.array = [i \in DOMAIN @ |->
     IF i >= index /\ i < v.nmemb - 1 THEN @[i + 1] ELSE @[i]],
            !.nmemb = @ - 1]

-----------------------------------------------------------------------------
Outside(x) == [value |-> x]
Fits(v) == v.capacity <= MaxCapacity

(* insert_vector, and push_back_vector and push_stack at the end.           *)
Insert(i) ==
  \E x \in Values :
    /\ vec' = Inserted(vec, i, Outside(x)) /\ Fits(vec')
    /\ items' = InsertAt(items, i + 1, x)

(* The same, of a value that is an element of the vector.                   *)
InsertOwn(i, j) ==
  /\ vec' = Inserted(vec, i, [own |-> j]) /\ Fits(vec')
  /\ items' = InsertAt(items, i + 1, items[j + 1])

(* insert_range_vector and push_back_range_vector: a range of another       *)
(* container, one element after the other.                                  *)
RangeInserted(v, index, xs) ==
  LET after[k \in 0 .. Len(xs)] ==
        IF k = 0 THEN v ELSE Inserted(after[k - 1], index + k - 1, Outside(xs[k]))
  IN  after[Len(xs)]

InsertRange(i) ==
  \E xs \in BoundedSeq(Values, MaxRange) :
    /\ vec' = RangeInserted(vec, i, xs) /\ Fits(vec')
    /\ items' = SubSeq(items, 1, i) \o xs \o SubSeq(items, i + 1, Len(items))

(* pop_back_vector and pop_stack.                                           *)
PopBack ==
  /\ vec.nmemb # 0
  /\ vec' = [vec EXCEPT !.nmemb = @ - 1]
  /\ items' = Front(items)

(* erase_vector.                                                            *)
Erase(i) ==
  /\ vec' = Removed(vec, i)
  /\ items' = RemoveAt(items, i + 1)

(* set_array, and what a client does with the pointer at_vector returns.    *)
Set(i) ==
  \E x \in Values :
    /\ vec' = [vec EXCEPT !.array[i] = x]
    /\ items' = [items EXCEPT ![i + 1] = x]

Clear ==
  /\ vec' = [vec EXCEPT !.nmemb = 0]
  /\ items' = << >>

(* reserve_vector: never makes the array smaller.                           *)
Reserve ==
  \E new_cap \in 1 .. MaxCapacity :
    /\ vec' = IF new_cap > vec.capacity THEN Reallocated(vec, new_cap) ELSE vec
    /\ UNCHANGED items

ShrinkToFit ==
  /\ vec' = IF vec.nmemb < vec.capacity THEN Reallocated(vec, vec.nmemb) ELSE vec
  /\ UNCHANGED items

(* Types of the vector object: its array has room for capacity elements.    *)
TypeOK ==
  /\ vec.capacity \in 0 .. MaxCapacity
  /\ vec.nmemb \in 0 .. vec.capacity
  /\ IF vec.capacity = 0 THEN vec.array = NULL
     ELSE vec.array \in [0 .. vec.capacity - 1 -> Values \union {JUNK}]

(* at, front and back read the elements the client put in, in its order.    *)
Sound ==
  /\ TypeOK
  /\ vec.nmemb = Len(items)
  /\ \A i \in 0 .. vec.nmemb - 1 : Element(vec, i) = items[i + 1]

(* The client stops once an element is lost.                                *)
Next ==
  /\ Sound
  /\ \/ \E i \in 0 .. vec.nmemb :
          Insert(i) \/ InsertRange(i) \/ \E j \in 0 .. vec.nmemb - 1 : InsertOwn(i, j)
     \/ \E i \in 0 .. vec.nmemb - 1 : Erase(i) \/ Set(i)
     \/ PopBack \/ Clear \/ Reserve \/ ShrinkToFit

Spec == Init /\ [][Next]_vars

-----------------------------------------------------------------------------
(* Moves, growth, reserve and shrink_to_fit lose, duplicate and reorder no  *)
(* element, and none is read from memory nobody wrote.  The one exception   *)
(* is a value that is an element of the vector itself, when the call moves  *)
(* it up or replaces the array before it reads it.                          *)
OwnMoves ==
  \E i \in 0 .. vec.nmemb, j \in 0 .. vec.nmemb - 1 :
    InsertOwn(i, j) /\ (IsFull(vec) \/ j > i)
VectorIsSequence == [][Sound' \/ OwnMoves]_vars

(* While there is room, inserting one element leaves the array where it is, *)
(* so that after reserve pointers and iterators stay valid up to that size. *)
RoomKeepsArray ==
  [][vec'.nmemb = vec.nmemb + 1 /\ vec.nmemb < vec.capacity
       => vec'.capacity = vec.capacity]_vars
=============================================================================
