----------------------------- MODULE BinaryHeap -----------------------------
(***************************************************************************)
(* src/src/internals/bheap.c and src/src/containers/pqueue.c: a binary heap *)
(* in the contiguous storage of Vector.tla, seen here as the sequence that  *)
(* VectorIsSequence shows it to be.  Indices are size_t, from 0.            *)
(***************************************************************************)
EXTENDS Integers, Sequences, SequencesExt, FiniteSets

CONSTANTS
  Elements,   \* a set of integers
  Orders,     \* the client's comparison functions: 1 ascending, -1 descending
  SizeMod,    \* number of values of a size_t, 2^w for w bits
  MaxElements,\* bound: elements in the queue at one time
  MaxRange    \* bound: elements of a pushed range

(* No array takes more than half of the address space.                      *)
HeapAssumption ==
  /\ Elements \subseteq Int /\ Orders \subseteq {1, -1}
  /\ MaxElements \in Nat /\ SizeMod \in Nat /\ 2 * MaxElements < SizeMod

VARIABLES
  heap,   \* the elements of array, in place
  order,  \* fnc, the comparison function
  settled,\* ghost: were the elements arranged under this order?
  given   \* ghost: the elements that the last call handed in

vars == <<heap, order, settled, given>>

(* create_pqueue.                                                           *)
Init == heap = << >> /\ order \in Orders /\ settled = TRUE /\ given = << >>

Wrap(n) == n % SizeMod
parent(i) == Wrap(i - 1) \div 2
left_child(i) == Wrap(2 * i + 1)
right_child(i) == Wrap(2 * i + 2)

At(h, i) == h[i + 1]
(* The comparison function: is x to come before y?                          *)
Before(o, x, y) == o * x < o * y
swap(h, i, j) == [h EXCEPT ![i + 1] = At(h, j), ![j + 1] = At(h, i)]

-----------------------------------------------------------------------------
(* The loops of bubble_up and bubble_down, turn by turn: the array and the  *)
(* index the element has come to.  A turn that does not move it ends them.  *)
Turned(s, i, j) == [heap |-> swap(s.heap, i, j), at |-> j]

Rising(s, o) == s.at > 0 /\ Before(o, At(s.heap, s.at), At(s.heap, parent(s.at)))
Risen(s, o) == IF Rising(s, o) THEN Turned(s, s.at, parent(s.at)) ELSE s
bubble_up(h, i, o) ==
  LET after[k \in 0 .. i] ==
        IF k = 0 THEN [heap |-> h, at |-> i] ELSE Risen(after[k - 1], o)
  IN  after[i].heap

(* The child of i that bubble_down looks at.                                *)
Child(h, i, o) ==
  IF right_child(i) < Len(h) /\ Before(o, At(h, right_child(i)), At(h, left_child(i)))
    THEN right_child(i) ELSE left_child(i)

Sinking(s, o) ==
  /\ left_child(s.at) < Len(s.heap)
  /\ Before(o, At(s.heap, Child(s.heap, s.at, o)), At(s.heap, s.at))
Sunk(s, o) == IF Sinking(s, o) THEN Turned(s, s.at, Child(s.heap, s.at, o)) ELSE s
bubble_down(h, i, o) ==
  LET after[k \in 0 .. Len(h)] ==
        IF k = 0 THEN [heap |-> h, at |-> i] ELSE Sunk(after[k - 1], o)
  IN  after[Len(h)].heap

(* make_heap's loop, from i down to 0, where i wraps around.                *)
HeapFrom(h, i, o) ==
  LET after[k \in 0 .. i + 1] ==
        IF k = 0 THEN h ELSE bubble_down(after[k - 1], i + 1 - k, o)
  IN  IF i < Len(h) THEN after[i + 1] ELSE h
make_heapLate(h, o) == HeapFrom(h, parent(Len(h) - 1) - 1, o)   \* mutant
make_heap(h, o) == HeapFrom(h, parent(Wrap(Len(h) - 1)), o)

(* pop_front_binary_heap.                                                   *)
Popped(h) == Front(swap(h, 0, Len(h) - 1))

-----------------------------------------------------------------------------
PushedTwice(h, x, o) ==                                    \* mutant
  bubble_up(h \o <<x, x>>, Len(h) + 1, o)
Pushed(h, x, o) == bubble_up(Append(h, x), Len(h), o)

push_pqueue ==
  \E x \in Elements :
    /\ Len(heap) < MaxElements
    /\ heap' = Pushed(heap, x, order)
    /\ given' = <<x>>
    /\ UNCHANGED <<order, settled>>

(* The whole array is arranged anew.                                        *)
push_range_pqueue ==
  \E xs \in BoundedSeq(Elements, MaxRange) :
    /\ Len(heap) + Len(xs) <= MaxElements
    /\ heap' = make_heap(heap \o xs, order)
    /\ given' = xs
    /\ settled' = TRUE
    /\ UNCHANGED order

pop_pqueue ==
  /\ heap # << >>
  /\ heap' = bubble_down(Popped(heap), 0, order)
  /\ settled' = (settled \/ heap' = << >>)
  /\ given' = << >>
  /\ UNCHANGED order

(* The elements stay where they are.                                        *)
set_comparator_pqueue ==
  /\ order' \in Orders
  /\ settled' = (heap = << >> \/ (settled /\ order' = order))
  /\ given' = << >>
  /\ UNCHANGED heap

Next == push_pqueue \/ push_range_pqueue \/ pop_pqueue \/ set_comparator_pqueue

Spec == Init /\ [][Next]_vars

-----------------------------------------------------------------------------
(* No element comes before the one at its parent, so that the top, which    *)
(* top_pqueue reads and pop_pqueue takes, is a least element; unless the    *)
(* comparison function of a queue with elements was changed, which a pushed *)
(* range repairs.                                                           *)
HeapOrdered ==
  settled =>
    \A i \in 1 .. Len(heap) - 1 : ~Before(order, At(heap, i), At(heap, parent(i)))

(* The heap is a priority queue: a push or a pushed range adds each element *)
(* as often as it was handed in and no rebuild loses or doubles one; a pop  *)
(* takes out one element, a least one unless the comparison function of a   *)
(* queue with elements was changed.                                         *)
BagOf(h) == [x \in ToSet(h) |-> Cardinality({i \in DOMAIN h : h[i] = x})]
Abs == INSTANCE PriorityQueue WITH bag <- BagOf(heap), given <- BagOf(given)
AbsSpec == Abs!Spec
=============================================================================
