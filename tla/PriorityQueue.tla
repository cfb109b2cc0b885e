--------------------------- MODULE PriorityQueue ---------------------------
(***************************************************************************)
(* What a priority queue promises: a bag of elements and the order in       *)
(* force; what a call hands in is added, each element as often as it was    *)
(* given, and a pop takes out one of the least elements in that order.      *)
(***************************************************************************)
EXTENDS Integers, Bags

CONSTANTS
  Elements,   \* a set of integers
  Orders      \* the client's orders: 1 for ascending, -1 for descending

VARIABLES
  bag,    \* the elements in the queue
  order,  \* the order in force
  settled,\* is it the order the elements were put in under?
  given   \* the elements that the last call handed in

Before(o, x, y) == o * x < o * y
Least(o, b) == {x \in BagToSet(b) : \A y \in BagToSet(b) : ~Before(o, y, x)}

Init == bag = EmptyBag /\ order \in Orders /\ settled = TRUE /\ given = EmptyBag

Push == \E x \in Elements :
  /\ given' = SetToBag({x})
  /\ bag' = bag (+) given'
  /\ UNCHANGED <<order, settled>>

(* Under another order than the elements were put in, any may come out.     *)
Pop == \E x \in BagToSet(bag) :
  /\ settled => x \in Least(order, bag)
  /\ bag' = bag (-) SetToBag({x})
  /\ settled' = (settled \/ bag' = EmptyBag)
  /\ given' = EmptyBag
  /\ UNCHANGED order

(* A range of elements goes in as a whole.                                  *)
PushRange ==
  /\ IsABag(given') /\ BagToSet(given') \subseteq Elements
  /\ bag' = bag (+) given'
  /\ settled' = TRUE
  /\ UNCHANGED order

SetOrder ==
  /\ order' \in Orders
  /\ settled' = (bag = EmptyBag \/ (settled /\ order' = order))
  /\ given' = EmptyBag
  /\ UNCHANGED bag

Next == Push \/ Pop \/ PushRange \/ SetOrder

Spec == Init /\ [][Next]_<<bag, order, settled, given>>
=============================================================================
