----------------------------- MODULE Iterators -----------------------------
(***************************************************************************)
(* src/src/internals/iter.c and src/range.h: one iterator type for nine     *)
(* containers, dispatched on a tag, and the loops over ranges.  The tag of  *)
(* a reverse iterator is not the forward one's, and done_iter and           *)
(* done_iter_r each know one of the two.                                    *)
(*                                                                         *)
(* A container is its elements 0 .. n-1 in order.  A position is the index  *)
(* of an element; past either end a container of nodes has the null node,   *)
(* the others one more or one less than an index, and more and less again:  *)
(* nothing tells a loop that it left its range.  What it reads out there is *)
(* not modelled, nor where the system stops the program.  How a container   *)
(* finds the next element is modelled in its own module.                    *)
(***************************************************************************)
EXTENDS Integers, Sequences, SequencesExt

CONSTANTS
  MaxLen,     \* bound: elements of a container
  MaxStep,    \* bound: the argument of step_iter
  MaxBeyond,  \* bound: how far outside a container a loop is followed
  NULL

IteratorsAssumption ==
  MaxLen \in Nat /\ MaxStep \in Nat /\ MaxBeyond \in Nat /\ NULL \notin Int

NodeKinds == {"list", "flist", "set", "table"}
IndexKinds == {"array", "vector", "deque", "hash_set", "hash_table"}
Kinds == NodeKinds \union IndexKinds

(* Containers on which begin is defined when they are empty.                *)
MayBeEmpty == {"list", "flist", "hash_set", "hash_table"}

VARIABLES
  kind, n,  \* the container
  begin,    \* Range.begin, which the loops advance
  end,      \* Range.end
  loop,     \* the loop that runs: "for_each", "for_each_r", "push_range" or "none"
  reversed, \* ghost: was the last range made of rbegin and rend?
  visited,  \* ghost: the positions its body has read, the first n + 1 of them
  outcome   \* "idle" before the first loop; "running", "ended" or "thrown" (exit)

vars == <<kind, n, begin, end, loop, reversed, visited, outcome>>

Iter(type, reverse, pos) == [type |-> type, reverse |-> reverse, pos |-> pos]

(* begin_ and end_ of each container.                                       *)
Begin == Iter(kind, FALSE, IF kind \in NodeKinds /\ n = 0 THEN NULL ELSE 0)
End == Iter(kind, FALSE, IF kind \in NodeKinds THEN NULL ELSE n)

(* rbegin_ and rend_: only two containers tag them as reverse, and an array *)
(* tags them as a vector's.                                                 *)
ReverseTag == kind \in {"list", "vector"}
ReverseType == IF kind = "array" THEN "vector" ELSE kind
RBegin == Iter(ReverseType, ReverseTag, IF kind \in NodeKinds /\ n = 0 THEN NULL ELSE n - 1)
REnd == Iter(ReverseType, ReverseTag, IF kind \in NodeKinds THEN NULL ELSE -1)

-----------------------------------------------------------------------------
(* The positions next_ and prev_ lead to; a null node leads nowhere.        *)
NextPos(it) ==
  IF it.type \notin NodeKinds THEN it.pos + 1
  ELSE IF it.pos = n - 1 THEN NULL ELSE it.pos + 1
PrevPos(it) ==
  IF it.type \notin NodeKinds THEN it.pos - 1
  ELSE IF it.pos = 0 THEN NULL ELSE it.pos - 1

(* The tags a dispatch knows; on any other it calls throw, which exits.     *)
CanPrev(it) == it.type # "flist"
CanTest(it) == ~it.reverse
CanTestReverse(it) == it.reverse /\ it.type # "flist"

(* done_iter and done_iter_r compare positions, of buckets, nodes or        *)
(* elements.                                                                *)
doneLate(b, e) == b.pos # NULL /\ e.pos # NULL /\ b.pos > e.pos  \* mutant
done(b, e) == b.pos = e.pos

(* Does get_iter read an element there?                                     *)
AtElement(it) == it.pos \in 0 .. n - 1

-----------------------------------------------------------------------------
(* deque_push_back_range: which way it goes depends on the tag alone.       *)
GoesForward == ~begin.reverse

Forward == loop = "for_each" \/ (loop = "push_range" /\ GoesForward)

(* The test and the advance of the loop that runs.                          *)
TestKnown == IF Forward THEN CanTest(begin) ELSE CanTestReverse(begin)
Advanced == [begin EXCEPT !.pos = IF Forward THEN NextPos(begin) ELSE PrevPos(begin)]

Init == /\ kind \in Kinds /\ n \in (IF kind \in MayBeEmpty THEN 0 ELSE 1) .. MaxLen
        /\ loop = "none" /\ reversed = FALSE /\ visited = << >> /\ outcome = "idle"
        /\ begin = Begin /\ end = End

(* create_range, and the loop that walks it.                                *)
Start(l, r, b, e) ==
  /\ loop = "none" /\ outcome # "thrown"
  /\ loop' = l /\ begin' = b /\ end' = e
  /\ reversed' = r /\ visited' = << >> /\ outcome' = "running"
  /\ UNCHANGED <<kind, n>>

StartForward == \E l \in {"for_each", "push_range"} : Start(l, FALSE, Begin, End)
(* A forward list has no rbegin.                                            *)
StartReverse == /\ kind # "flist"
                /\ \E l \in {"for_each_r", "push_range"} : Start(l, TRUE, RBegin, REnd)

Stops(why) == loop' = "none" /\ outcome' = why /\ UNCHANGED <<kind, n, begin, end, reversed, visited>>

(* One turn of the loop: the test, the body, which reads what is there, and *)
(* the advance.                                                             *)
Turn == /\ loop # "none"
        /\ \/ ~TestKnown /\ Stops("thrown")
           \/ TestKnown /\ done(begin, end) /\ Stops("ended")
           \/ /\ TestKnown /\ ~done(begin, end)
              /\ begin.pos \in -MaxBeyond .. n - 1 + MaxBeyond
              /\ visited' = IF Len(visited) > n THEN visited ELSE Append(visited, begin.pos)
              /\ begin' = Advanced
              /\ UNCHANGED <<kind, n, end, loop, reversed, outcome>>

(* step_iter: |s| times next or prev, as long as there is an element.       *)
Stepped(it, s) ==
  LET to[i \in 0 .. MaxStep] ==
        IF i = 0 THEN it
        ELSE [it EXCEPT !.pos = IF s < 0 THEN PrevPos(to[i - 1]) ELSE NextPos(to[i - 1])]
  IN  to[IF s < 0 THEN -s ELSE s]
StepIter(s) == /\ loop = "none" /\ outcome = "idle"
               /\ AtElement(begin) /\ begin.pos + s \in 0 .. n - 1
               /\ s < 0 => CanPrev(begin)
               /\ begin' = Stepped(begin, s)
               /\ UNCHANGED <<kind, n, end, loop, reversed, visited, outcome>>
Step == \E s \in -MaxStep .. MaxStep : StepIter(s)

Next == StartForward \/ StartReverse \/ Turn \/ Step

Spec == Init /\ [][Next]_vars

-----------------------------------------------------------------------------
Elements == [i \in 1 .. n |-> i - 1]
All == IF reversed THEN Reverse(Elements) ELSE Elements

(* A loop over begin and end, once it ended, saw every element of the       *)
(* container, in order; until then it saw the first of them and nothing     *)
(* outside; and it meets no tag it does not know.  So does, in reverse, a   *)
(* loop over rbegin and rend of the two containers that tag them.           *)
LoopsSeeAll == (reversed => ReverseTag) => /\ outcome \in {"idle", "running", "ended"}
                                           /\ IsPrefix(visited, All)
                                           /\ outcome = "ended" => visited = All

(* "Provides a generic interface for iterating and reverse iterating        *)
(* containers" (README.md:86): no loop over a range of a container ends the *)
(* program.                                                                 *)
LoopsRun == outcome # "thrown"
=============================================================================
