----------------------------- MODULE Contiguous -----------------------------
(***************************************************************************)
(* A client of one of: a vector, a priority queue, the spans of a buffer, or *)
(* loops over the range of a container.  Those that are not the client's    *)
(* stay as they were created.                                               *)
(***************************************************************************)
EXTENDS Vector

CONSTANTS
  HeapElements, Orders, SizeMod, MaxElements, MaxPushed,  \* see BinaryHeap
  BufferSize, BufferValues,                               \* see Spans
  MaxLen, MaxStep, MaxBeyond,                             \* see Iterators
  FAULT

VARIABLES
  client,  \* "vector", "pqueue", "span" or "range"
  heap, order, settled, given,
  data, span, op,
  kind, n, begin, end, loop, reversed, visited, outcome

heapVars == <<heap, order, settled, given>>
spanVars == <<data, span, op>>
rangeVars == <<kind, n, begin, end, loop, reversed, visited, outcome>>
allVars == <<client, vars, heapVars, spanVars, rangeVars>>

Heap == INSTANCE BinaryHeap WITH Elements <- HeapElements, MaxRange <- MaxPushed

Sp == INSTANCE Spans WITH Len0 <- BufferSize, Values <- BufferValues

It == INSTANCE Iterators

(* The assumptions of the modules on their constants.                       *)
ASSUME ContiguousAssumption ==
  Heap!HeapAssumption /\ Sp!SpansAssumption /\ It!IteratorsAssumption

InitAny ==
  /\ client \in {"vector", "pqueue", "span", "range"}
  /\ Init /\ Heap!Init /\ Sp!Init /\ It!Init
  /\ client # "pqueue" => order = 1
  /\ client # "span" => data[0] = 0
  /\ client # "range" => kind = "vector" /\ n = 1

NextAny ==
  \/ /\ client = "vector" /\ Next
     /\ UNCHANGED <<client, heapVars, spanVars, rangeVars>>
  \/ /\ client = "pqueue" /\ Heap!Next
     /\ UNCHANGED <<client, vars, spanVars, rangeVars>>
  \/ /\ client = "span" /\ Sp!Next
     /\ UNCHANGED <<client, vars, heapVars, rangeVars>>
  \/ /\ client = "range" /\ It!Next
     /\ UNCHANGED <<client, vars, heapVars, spanVars>>

SpecAny == InitAny /\ [][NextAny]_allVars

(* The priority queue's properties; see BinaryHeap.                         *)
HeapOrdered == Heap!HeapOrdered
HeapAbsSpec == Heap!AbsSpec

(* Those of spans; see Spans.                                               *)
ReordersRight == Sp!ReordersRight
ReadersAnswer == Sp!ReadersAnswer
SpansKeepElements == Sp!OutsideKept /\ Sp!ElementsKept

(* Those of iterators and ranges; see Iterators.                            *)
LoopsSeeAll == It!LoopsSeeAll
LoopsRun == It!LoopsRun
=============================================================================
