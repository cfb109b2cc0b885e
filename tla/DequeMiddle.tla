---------------------------- MODULE DequeMiddle ----------------------------
(***************************************************************************)
(* src/src/internals/deq.c: insertion and removal in the middle of a deque, *)
(* and its range operations, on the structure Deque models.  Elements are   *)
(* moved by memmove inside a block and one at a time across the boundary of *)
(* two blocks, towards the end of the deque that is nearer.                 *)
(*                                                                         *)
(* What lies in an array outside the elements of its block is forgotten     *)
(* between calls: no call may depend on it.                                 *)
(***************************************************************************)
EXTENDS Deque

(* Of a client: the values that may be in the deque more than once, and the *)
(* sequences of elements its ranges yield.                                  *)
Repeated == client.repeated
Ranges == client.ranges

-----------------------------------------------------------------------------
(* memmove of n elements inside the array of block b; n is a size_t.        *)
Moved(d, b, dest, src, n) ==
  LET k == n % SizeMod
      in == 0 .. arr_cap - 1
      a == d.blocks[b].array
  IN  IF d = FAULT \/ k = 0 THEN d
      ELSE IF a # NULL /\ {dest, src, dest + k - 1, src + k - 1} \subseteq in
        THEN [d EXCEPT !.blocks[b].array =
                [i \in in |-> IF i \in dest .. dest + k - 1 THEN a[src + i - dest] ELSE a[i]]]
        ELSE FAULT

(* memcpy of one element to index i of block b.                             *)
Put(d, b, i, v) == IF d = FAULT THEN FAULT ELSE Store(d, b, i, v)

Grown(d, b) == [d EXCEPT !.blocks[b].nmemb = Inc(@)]
Shrunk(d, b) == [d EXCEPT !.blocks[b].nmemb = Dec(@)]

(* The entry before b in the ring.                                          *)
PrevBlock(d, b) == (b - 1) % d.capacity

(* How many of n elements lie after index.                                  *)
AfterMore(n, index) == n - index                           \* mutant
After(n, index) == n - index - 1

(* v goes to index of block b; a full block passes its last element on.     *)
RECURSIVE insert_back(_, _, _, _)
insert_back(d, b, index, v) ==
  LET n == d.blocks[b].nmemb
      e == IF is_full(n) THEN insert_back(d, NextBlock(d, b), 0, Load(d, b, n - 1))
                         ELSE Grown(d, b)
      moved == IF is_full(n) THEN After(n, index) ELSE n - index
  IN  Put(Moved(e, b, index + 1, index, moved), b, index, v)

(* v goes before index of block b; a full block passes its first element    *)
(* back, to before the last one of the block there.                         *)
RECURSIVE insert_front(_, _, _, _)
insert_front(d, b, index, v) ==
  LET first == arr_cap - d.blocks[b].nmemb
      prev == PrevBlock(d, b)
  IN  IF is_full(d.blocks[b].nmemb)
      THEN LET e == insert_front(d, prev, Dec(d.blocks[prev].nmemb), Load(d, b, 0))
           IN  Put(Moved(e, b, first, first + 1, index), b, index, v)
      ELSE Put(Moved(Grown(d, b), b, first - 1, first, index), b, first + index - 1, v)

(* insert_single, in the half of the block that is nearer to the front.     *)
insert_single_front(d, at, v) ==
  IF has_space_at_front(d.front)
  THEN LET e == [Grown(d, 0) EXCEPT !.front = Dec(@)]
       IN  Put(Moved(e, 0, d.front - 1, d.front, at - d.front), 0, at - 1, v)
  ELSE LET r == resize_from_single(d, 0)
           e == Grown(Store(r, 0, arr_cap - 1, Load(r, 1, 0)), 0)
       IN  Put(Moved(e, 1, 0, 1, at - 1), 1, at, v)

(* And nearer to the back.                                                  *)
insert_single_back(d, at, v) ==
  LET e == IF has_space_at_back(d.back)
           THEN [Grown(d, 0) EXCEPT !.back = Inc(@)]
           ELSE Grown(Store(resize_from_single(d, 1), 1, 0,
                            Load(d, 0, d.blocks[0].nmemb - 1)), 1)
  IN  Put(Moved(e, 0, at + 1, at, d.back - at + 1), 0, at, v)

insert_single(d, index, v) ==
  LET at == index + d.front
  IN  IF at < (d.front + d.back) \div 2 THEN insert_single_front(d, at, v)
                                        ELSE insert_single_back(d, at, v)

(* insert_multiple: a full end block first gets a neighbour, into which its *)
(* end element is copied.                                                   *)
RoomAtBack(d) ==
  LET r == resize_from_multiple(d, FALSE)
  IN  IF is_full(d.blocks[d.back].nmemb)
      THEN Grown(Store(r, r.back, 0, deque_back(d)), r.back) ELSE d
RoomAtFront(d) ==
  LET r == resize_from_multiple(d, TRUE)
  IN  IF is_full(d.blocks[d.front].nmemb)
      THEN Grown(Store(r, r.front, arr_cap - 1, deque_front(d)), r.front) ELSE d

(* insert_multiple: is the insertion pushed towards the back?               *)
TowardsBack(d, index) == index > d.nmemb \div 2

insert_multiple(d, index, v) ==
  LET r == IF TowardsBack(d, index) THEN RoomAtBack(d) ELSE RoomAtFront(d)
      p == locate_block(r, index)
  IN  IF TowardsBack(d, index) THEN insert_back(r, p.block, p.index, v)
                               ELSE insert_front(r, p.block, p.index, v)

deque_insert(d, index, v) ==
  IF index = 0 THEN deque_push_front(d, v)
  ELSE IF index = d.nmemb THEN deque_push_back(d, v)
  ELSE Counted(IF d.block_count = 1 THEN insert_single(d, index, v)
                                    ELSE insert_multiple(d, index, v))

-----------------------------------------------------------------------------
(* shift_up and shift_down: the end block has lost an element.              *)
FrontShrunk(d) ==
  LET t == Shrunk(d, d.front)
      u == Freed(t, d.front)
  IN  IF t.blocks[d.front].nmemb # 0 THEN t
      ELSE IF u.block_count = 1 THEN CollapsedBack(u)
      ELSE [u EXCEPT !.front = NextBlock(d, @)]
BackShrunk(d) ==
  LET t == Shrunk(d, d.back)
      u == Freed(t, d.back)
  IN  IF t.blocks[d.back].nmemb # 0 THEN t
      ELSE IF u.block_count = 1 THEN CollapsedFront(u)
      ELSE [u EXCEPT !.back = PrevBlock(d, @)]

(* The elements before place index of block b move up by one, from block to *)
(* block until the front one.                                               *)
RECURSIVE shift_up(_, _, _)
shift_up(d, b, index) ==
  LET first == arr_cap - d.blocks[b].nmemb
      prev == PrevBlock(d, b)
      e == Moved(d, b, first + 1, first, index - first)
  IN  IF e = FAULT THEN FAULT
      ELSE IF b = d.front THEN FrontShrunk(e)
      ELSE shift_up(Store(e, b, 0, Load(e, prev, arr_cap - 1)), prev, arr_cap - 1)

(* The elements after index of block b move down by one.                    *)
RECURSIVE shift_down(_, _, _)
shift_down(d, b, index) ==
  LET n == d.blocks[b].nmemb
      next == NextBlock(d, b)
      e == IF index < arr_cap - 1 THEN Moved(d, b, index, index + 1, After(n, index)) ELSE d
  IN  IF e = FAULT THEN FAULT
      ELSE IF b = d.back THEN BackShrunk(e)
      ELSE shift_down(Store(e, b, arr_cap - 1, Load(e, next, 0)), next, 0)

erase_single(d, index) ==
  LET f == d.front
      at == index + f
      e == Shrunk(d, 0)
  IN  IF at < (f + d.back) \div 2
      THEN Moved([e EXCEPT !.front = Inc(@)], 0, f + 1, f, at - f)
      ELSE Moved([e EXCEPT !.back = Dec(@)], 0, at, at + 1, After(d.blocks[0].nmemb, index))

erase_multiple(d, index) ==
  LET p == locate_block(d, index)
      up == arr_cap - d.blocks[p.block].nmemb + p.index
  IN  IF index < d.nmemb \div 2 THEN shift_up(d, p.block, up)
                                ELSE shift_down(d, p.block, p.index)

(* deque_erase.  Its test for the last element compares with nmemb, which   *)
(* the assertion has excluded, so that the last element is erased here too. *)
deque_erase(d, index) ==
  LET e == IF d.block_count = 1 THEN erase_single(d, index) ELSE erase_multiple(d, index)
  IN  IF index = 0 THEN deque_pop_front(d)
      ELSE IF e = FAULT THEN FAULT ELSE [e EXCEPT !.nmemb = Dec(@)]

-----------------------------------------------------------------------------
(* Push and insertion of every element of a range, front element first.     *)
Each(op(_, _), d, range) ==
  FoldLeft(LAMBDA e, v : IF e = FAULT THEN FAULT ELSE op(e, v), d, range)

deque_push_back_range(d, range) == Each(deque_push_back, d, range)
deque_push_front_rangeBack(d, range) == Each(deque_push_back, d, range)   \* mutant
deque_push_front_range(d, range) == Each(deque_push_front, d, range)

(* index counts the elements inserted.                                      *)
deque_insert_range(d, range, index) ==
  Each(LAMBDA e, v : deque_insert(e, (index + e.nmemb - d.nmemb) % SizeMod, v), d, range)

-----------------------------------------------------------------------------
(* The indices of the array of block b that hold its elements.              *)
Occupied(d, b) ==
  LET n == d.blocks[b].nmemb
      first == IF d.block_count = 1 THEN d.front ELSE IF b = d.front THEN arr_cap - n ELSE 0
  IN  first .. first + n - 1

Forgotten(d) ==
  IF d = FAULT \/ ~Sound(d) THEN d
  ELSE [d EXCEPT !.blocks = [b \in DOMAIN @ |->
          IF b \notin InUse(d) THEN [@[b] EXCEPT !.nmemb = 0]
          ELSE [@[b] EXCEPT !.array = [i \in DOMAIN @ |->
                  IF i \in Occupied(d, b) THEN @[i] ELSE JUNK]]]]

(* Any value but one that may be there only once and is.                    *)
Fresh(v) == v \in Repeated \/ \A i \in 1 .. Len(items) : items[i] # v
FreshRange(r) == Len(items) + Len(r) <= MaxItems /\ \A i \in 1 .. Len(r) : Fresh(r[i])

(* A shape the operations expect, with the client's elements in it.         *)
Good == /\ Sound(dq) /\ dq.nmemb = Len(items)
        /\ MapThenSumSet(LAMBDA b : dq.blocks[b].nmemb, InUse(dq)) = dq.nmemb
        /\ \A i \in 1 .. Len(items) : deque_at(dq, i - 1) = items[i]

InsertAtIndex(index, v) == /\ "insert" \in Ops
                           /\ items' = InsertAt(items, index + 1, v)
                           /\ dq' = Forgotten(deque_insert(dq, index, v))

Insert == /\ Good /\ Len(items) < MaxItems
          /\ \E index \in 0 .. Len(items), v \in Values : Fresh(v) /\ InsertAtIndex(index, v)

EraseAtIndex(index) == /\ "erase" \in Ops
                       /\ items' = RemoveAt(items, index + 1)
                       /\ dq' = Forgotten(deque_erase(dq, index))

Erase == /\ Good /\ Len(items) > MinKept
         /\ \E index \in 0 .. Len(items) - 1 : EraseAtIndex(index)

PushBackRange == /\ "push_back_range" \in Ops /\ Good
                 /\ \E r \in Ranges : /\ FreshRange(r)
                                      /\ dq' = Forgotten(deque_push_back_range(dq, r))
                                      /\ items' = items \o r

PushFrontRange == /\ "push_front_range" \in Ops /\ Good
                  /\ \E r \in Ranges : /\ FreshRange(r)
                                       /\ dq' = Forgotten(deque_push_front_range(dq, r))
                                       /\ items' = Reverse(r) \o items

InsertRangeAt(index, r) ==
  /\ "insert_range" \in Ops
  /\ dq' = Forgotten(deque_insert_range(dq, r, index))
  /\ items' = SubSeq(items, 1, index) \o r \o SubSeq(items, index + 1, Len(items))

InsertRange == Good /\ \E index \in 0 .. Len(items), r \in Ranges :
                 FreshRange(r) /\ InsertRangeAt(index, r)

NextMiddle == Insert \/ Erase \/ PushBackRange \/ PushFrontRange \/ InsertRange

SpecMiddle == Init /\ [][(Next \/ NextMiddle) /\ UNCHANGED client]_vars

-----------------------------------------------------------------------------
(* The elements nearer to the end towards which an insertion pushes have    *)
(* room to move: the single block has a free place on that side, or the end *)
(* block has, and the place is not in the block at the other end of the     *)
(* ring, whose elements lie at the other end of its array, unless that      *)
(* block is full too.                                                       *)
RoomFor(index) ==
  LET at == dq.front + index
      b == locate_block(dq, index).block
  IN  IF index \in {0, dq.nmemb} THEN dq.nmemb > 0
      ELSE IF dq.block_count = 1
      THEN IF at < (dq.front + dq.back) \div 2 THEN dq.front > 0 ELSE dq.back < arr_cap - 1
      ELSE IF TowardsBack(dq, index)
      THEN /\ ~is_full(dq.blocks[dq.back].nmemb)
           /\ b = dq.front => is_full(dq.blocks[b].nmemb)
      ELSE ~is_full(dq.blocks[dq.front].nmemb) /\ b = dq.front

(* This step, which breaks the deque, is no insertion where there is room.  *)
InsertKeepsOrder ==
  \A index \in 0 .. Len(items), v \in Values :
    RoomFor(index) => ~InsertAtIndex(index, v)

(* The element to be erased is not in the end block of the ring towards     *)
(* which the erasure does not shift, unless that block is full, and the one *)
(* block that is left is not blocks[0] already.                             *)
ShiftsWhole(index) ==
  LET b == locate_block(dq, index).block
      far == IF index < dq.nmemb \div 2 THEN dq.back ELSE dq.front
      near == IF index < dq.nmemb \div 2 THEN dq.front ELSE dq.back
  IN  dq.block_count > 1 =>
        /\ far # b \/ is_full(dq.blocks[b].nmemb) \/ index = 0
        /\ dq.block_count = 2 /\ dq.blocks[near].nmemb = 1 => far # 0
(* Nor is it an erasure of such an element.                                 *)
EraseKeepsOrder ==
  \A index \in 0 .. Len(items) - 1 : ShiftsWhole(index) => ~EraseAtIndex(index)

(* No insertion where there is room, and no erasure but in those places,    *)
(* breaks the deque: every element keeps its order across block boundaries, *)
(* whichever half of the ring moves, and the erased one and no other goes.  *)
MiddleKeepsOrder ==
  [][~OnlyEnds /\ ~Good' => InsertKeepsOrder /\ EraseKeepsOrder]_vars

(* Ranges pushed on an end of a deque that is not empty arrive whole and in *)
(* order, however many blocks they add.                                     *)
RangesArrive ==
  [][~OnlyEnds /\ ~Good' /\ dq.nmemb > 0 => ~PushBackRange /\ ~PushFrontRange]_vars
=============================================================================
