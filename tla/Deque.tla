------------------------------- MODULE Deque -------------------------------
(***************************************************************************)
(* src/src/internals/deq.c: the segmented array under deque and queue, its  *)
(* operations on the two ends.  A control array of blocks, each an array of *)
(* arr_cap elements.  With one block, blocks[0] holds the elements between  *)
(* front and back, indices into its array.  With more, front and back are   *)
(* indices into blocks, used as a ring: the first block's elements lie at   *)
(* the end of its array, every other block's at the beginning.              *)
(*                                                                         *)
(* FAULT is the state after a memory access outside an array or through a   *)
(* NULL one: the program may do anything, and the model stops.              *)
(***************************************************************************)
EXTENDS Integers, Sequences, SequencesExt

CONSTANTS
  Clients,   \* what a client may be: its elements, their number in a block
             \* (arr_cap, which follows from their size), the operations it
             \* calls, how many elements it leaves when it pops one, and a
             \* bound on those in the deque at one time
  SizeMod,   \* number of values of a size_t
  PastDamage,\* bound: does the model follow a deque that lost its shape?
  JUNK,      \* what malloc left in an element
  NULL, FAULT

ASSUME ArrCapAssumption ==
  \A c \in Clients : c.arr_cap \in Nat /\ c.arr_cap >= 2 /\ c.arr_cap < SizeMod
ASSUME SizeModAssumption == \E w \in 1 .. 64 : SizeMod = 2 ^ w
ASSUME MaxItemsAssumption == \A c \in Clients : c.max_items \in Nat /\ c.max_items < SizeMod

(* The arrays, the entries of the control array and the Deque objects of a  *)
(* client c.                                                                *)
ArrayOf(c) == [0 .. c.arr_cap - 1 -> c.values \union {JUNK}]
BlockOf(c) == [array : ArrayOf(c) \union {NULL}, nmemb : Nat]
DequeOf(c) ==
  [blocks : UNION {[0 .. 2 ^ e - 1 -> BlockOf(c)] : e \in 0 .. c.max_items},
   block_count : Nat, capacity : Nat, front : Nat, back : Nat, nmemb : Nat]

ASSUME MarksAssumption ==
  \A c \in Clients : NULL \notin ArrayOf(c) /\ FAULT \notin DequeOf(c)

VARIABLES
  client, \* one of Clients, for the life of the deque
  dq,     \* the Deque object
  items   \* ghost: what the client pushed and did not pop, front first

vars == <<client, dq, items>>

arr_cap == client.arr_cap
Values == client.values
Ops == client.ops
MinKept == client.min_kept
MaxItems == client.max_items

Inc(n) == (n + 1) % SizeMod
Dec(n) == (n - 1) % SizeMod

has_space_at_front(front) == front # 0
has_space_at_back(back) == back < arr_cap - 1
is_fullEarly(n) == n >= arr_cap - 1                        \* mutant
is_full(n) == n >= arr_cap

(* The entry of the control array after b in the ring.                      *)
NextBlock(d, b) == (b + 1) % d.capacity

NewBlock == [array |-> [i \in 0 .. arr_cap - 1 |-> JUNK], nmemb |-> 0]
UnsetBlock == [array |-> NULL, nmemb |-> 0]

(* Element i of the array of block b: where it can be read and written.     *)
Reaches(d, b, i) == d.blocks[b].array # NULL /\ i \in 0 .. arr_cap - 1
Load(d, b, i) == IF Reaches(d, b, i) THEN d.blocks[b].array[i] ELSE JUNK
Store(d, b, i, v) ==
  IF Reaches(d, b, i) THEN [d EXCEPT !.blocks[b].array[i] = v] ELSE FAULT

Created == [blocks |-> [b \in {0} |-> NewBlock], block_count |-> 1, capacity |-> 1,
            front |-> arr_cap \div 2, back |-> (arr_cap \div 2) - 1, nmemb |-> 0]

-----------------------------------------------------------------------------
(* The one block becomes two: the new one is blocks[index].                 *)
resize_from_single(d, index) ==
  [d EXCEPT !.blocks = [b \in {0, 1} |-> IF b = index THEN NewBlock ELSE d.blocks[0]],
            !.capacity = 2,
            !.block_count = @ + 1,
            !.front = 0,
            !.back = 1]

(* The blocks in ring order.                                                *)
RingOrderFlat(d) == [j \in 0 .. d.block_count - 1 |-> d.blocks[j]]   \* mutant
RingOrder(d) ==
  [j \in 0 .. d.block_count - 1 |->
     d.blocks[IF d.front > d.back THEN (d.front + j) % d.capacity ELSE j]]

(* A control array with every entry in use is replaced by one twice as      *)
(* long, the blocks in its middle.                                          *)
GrowControl(d) ==
  LET cap == 2 * d.capacity
      n == d.block_count
      f == (cap \div 2) - (n \div 2)
      ring == RingOrder(d)
  IN  [d EXCEPT !.blocks = [b \in 0 .. cap - 1 |->
                              IF b \in f .. f + n - 1 THEN ring[b - f] ELSE UnsetBlock],
                !.capacity = cap,
                !.front = f,
                !.back = f + n - 1]

(* resize_from_multiple: the ring gains an empty block before its first one *)
(* (forward), or after its last.                                            *)
resize_from_multiple(d, forward) ==
  LET g == IF d.block_count >= d.capacity THEN GrowControl(d) ELSE d
      at == IF forward THEN (g.front - 1) % g.capacity ELSE NextBlock(g, g.back)
  IN  [g EXCEPT !.blocks[at] = NewBlock,
                !.block_count = @ + 1,
                !.front = IF forward THEN at ELSE @,
                !.back = IF forward THEN @ ELSE at]

push_front_single(d, v) ==
  LET r == IF has_space_at_front(d.front) THEN [d EXCEPT !.front = Dec(@)]
                                          ELSE resize_from_single(d, 0)
      i == IF has_space_at_front(d.front) THEN r.front ELSE arr_cap - 1
  IN  Store([r EXCEPT !.blocks[0].nmemb = Inc(@)], 0, i, v)

push_front_multiple(d, v) ==
  LET r == IF is_full(d.blocks[d.front].nmemb) THEN resize_from_multiple(d, TRUE) ELSE d
      n == Inc(r.blocks[r.front].nmemb)
  IN  Store([r EXCEPT !.blocks[r.front].nmemb = n], r.front, (arr_cap - n) % SizeMod, v)

push_back_single(d, v) ==
  LET grow == ~has_space_at_back(d.back)
      r == IF grow THEN resize_from_single(d, 1) ELSE [d EXCEPT !.back = Inc(@)]
      b == IF grow THEN 1 ELSE 0
  IN  Store([r EXCEPT !.blocks[b].nmemb = Inc(@)], b, IF grow THEN 0 ELSE r.back, v)

push_back_multiple(d, v) ==
  LET r == IF is_full(d.blocks[d.back].nmemb) THEN resize_from_multiple(d, FALSE) ELSE d
  IN  Store([r EXCEPT !.blocks[r.back].nmemb = Inc(@)], r.back, r.blocks[r.back].nmemb, v)

Counted(d) == IF d = FAULT THEN FAULT ELSE [d EXCEPT !.nmemb = Inc(@)]

deque_push_front(d, v) ==
  Counted(IF d.block_count = 1 THEN push_front_single(d, v) ELSE push_front_multiple(d, v))
deque_push_back(d, v) ==
  Counted(IF d.block_count = 1 THEN push_back_single(d, v) ELSE push_back_multiple(d, v))

-----------------------------------------------------------------------------
(* An end block that was emptied is freed; when one block is left, it moves *)
(* to blocks[0] and the entry it came from is unset.                        *)
FreedKept(d, b) == [d EXCEPT !.block_count = @ - 1]        \* mutant
Freed(d, b) == [d EXCEPT !.blocks[b].array = NULL, !.block_count = @ - 1]
Collapsed(d, b) ==
  [d EXCEPT !.blocks = [[@ EXCEPT ![0] = d.blocks[b]] EXCEPT ![b].array = NULL]]

(* *front and *back of the one block that is left.                          *)
CollapsedBack(d) == LET c == Collapsed(d, d.back)
                    IN  [c EXCEPT !.back = Dec(c.blocks[0].nmemb), !.front = 0]
CollapsedFront(d) ==
  LET c == Collapsed(d, d.front)
  IN  [c EXCEPT !.back = arr_cap - 1,
                !.front = (arr_cap - c.blocks[0].nmemb) % SizeMod]

deque_pop_front(d) ==
  LET multi == d.block_count > 1
      b == IF multi THEN d.front ELSE 0
      t == [d EXCEPT !.nmemb = Dec(@), !.blocks[b].nmemb = Dec(@)]
      u == Freed(t, b)
  IN  IF ~multi THEN [t EXCEPT !.front = Inc(@)]
      ELSE IF t.blocks[b].nmemb # 0 THEN t
      ELSE IF u.block_count = 1 THEN CollapsedBack(u)
      ELSE [u EXCEPT !.front = NextBlock(d, @)]

deque_pop_back(d) ==
  LET multi == d.block_count > 1
      b == IF multi THEN d.back ELSE 0
      t == [d EXCEPT !.nmemb = Dec(@), !.blocks[b].nmemb = Dec(@)]
      u == Freed(t, b)
  IN  IF ~multi THEN [t EXCEPT !.back = Dec(@)]
      ELSE IF t.blocks[b].nmemb # 0 THEN t
      ELSE IF u.block_count = 1 THEN CollapsedFront(u)
      ELSE [u EXCEPT !.back = (@ - 1) % d.capacity]

(* deque_clear's loop frees every block of the ring but the first.  It      *)
(* starts at front + 1 without the wrap the other steps take.               *)
ClearedFrom(d) == d.front + 1
ClearedBlocks(d) ==
  {(ClearedFrom(d) + j) % d.capacity : j \in 0 .. d.block_count - 2}
OneBlock(d) ==
  LET f == [b \in 0 .. d.capacity - 1 |->
              IF b \in ClearedBlocks(d) THEN [d.blocks[b] EXCEPT !.array = NULL] ELSE d.blocks[b]]
  IN  Collapsed([d EXCEPT !.blocks = f], d.front)

deque_clear(d) ==
  IF d.block_count > 1 /\ ClearedFrom(d) >= d.capacity THEN FAULT
  ELSE LET c == IF d.block_count > 1 THEN OneBlock(d) ELSE d
       IN  [c EXCEPT !.front = arr_cap \div 2,
                     !.back = (arr_cap \div 2) - 1,
                     !.blocks[0].nmemb = 0,
                     !.block_count = 1,
                     !.nmemb = 0]

-----------------------------------------------------------------------------
(* Reading.  locate_block walks the ring until the index falls in a block.  *)
locate_block(d, index) ==
  LET before[j \in 0 .. d.capacity] ==
        IF j = 0 THEN 0
        ELSE before[j - 1] + d.blocks[(d.front + j - 1) % d.capacity].nmemb
      j == CHOOSE j \in 0 .. d.capacity - 1 : before[j] <= index /\ index < before[j + 1]
  IN  [block |-> (d.front + j) % d.capacity, index |-> index - before[j]]

FirstOf(d, b) == (arr_cap - d.blocks[b].nmemb) % SizeMod
deque_at(d, index) ==
  IF d.block_count = 1 THEN Load(d, 0, d.front + index)
  ELSE LET p == locate_block(d, index)
       IN  Load(d, p.block, IF p.block = d.front THEN FirstOf(d, d.front) + p.index ELSE p.index)

deque_front(d) == IF d.block_count = 1 THEN Load(d, 0, d.front)
                                       ELSE Load(d, d.front, FirstOf(d, d.front))
deque_back(d) == IF d.block_count = 1 THEN Load(d, 0, d.back)
                                      ELSE Load(d, d.back, Dec(d.blocks[d.back].nmemb))

-----------------------------------------------------------------------------
(* The entries of the control array that hold a block.                      *)
InUse(d) == IF d.block_count = 1 THEN {0}
            ELSE {(d.front + j) % d.capacity : j \in 0 .. d.block_count - 1}

(* The shape every operation expects: each block in use has its array; one  *)
(* block holds what lies between front and back; of several, the first and  *)
(* last are not empty and those between are full.                           *)
Sound(d) ==
  /\ d # FAULT
  /\ \A b \in InUse(d) : d.blocks[b].array # NULL
  /\ IF d.block_count = 1
     THEN /\ d.front + d.blocks[0].nmemb \in 0 .. arr_cap
          /\ d.back = Dec(d.front + d.blocks[0].nmemb)
     ELSE /\ d.back = (d.front + d.block_count - 1) % d.capacity
          /\ \A b \in InUse(d) : d.blocks[b].nmemb \in 1 .. arr_cap
          /\ \A b \in InUse(d) \ {d.front, d.back} : d.blocks[b].nmemb = arr_cap

Running == dq # FAULT /\ (PastDamage \/ Sound(dq))

Init == client \in Clients /\ dq = Created /\ items = << >>

PushFront == /\ "push_front" \in Ops /\ Running /\ Len(items) < MaxItems
             /\ \E v \in Values : /\ dq' = deque_push_front(dq, v)
                                  /\ items' = <<v>> \o items

PushBack == /\ "push_back" \in Ops /\ Running /\ Len(items) < MaxItems
            /\ \E v \in Values : /\ dq' = deque_push_back(dq, v)
                                 /\ items' = Append(items, v)

(* assert: popping an empty deque is the caller's error.                     *)
MayPop == Running /\ dq.nmemb > 0 /\ Len(items) > MinKept

PopFront == /\ "pop_front" \in Ops /\ MayPop
            /\ dq' = deque_pop_front(dq)
            /\ items' = Tail(items)

PopBack == /\ "pop_back" \in Ops /\ MayPop
           /\ dq' = deque_pop_back(dq)
           /\ items' = Front(items)

Clear == /\ "clear" \in Ops /\ Running
         /\ dq' = deque_clear(dq)
         /\ items' = << >>

Next == PushFront \/ PushBack \/ PopFront \/ PopBack \/ Clear

Spec == Init /\ [][Next /\ UNCHANGED client]_vars

-----------------------------------------------------------------------------
(* Properties.                                                              *)

(* The control array's length is a power of two that covers its blocks, and *)
(* its indices are in range.                                                *)
TypeOK ==
  dq # FAULT =>
    /\ DOMAIN dq.blocks = 0 .. dq.capacity - 1
    /\ dq.capacity \in {2 ^ e : e \in 0 .. MaxItems}
    /\ dq.block_count \in 1 .. dq.capacity
    /\ dq.block_count > 1 => {dq.front, dq.back} \subseteq DOMAIN dq.blocks
    /\ dq.nmemb = Len(items)

(* Does the client only push, pop and clear?                                *)
OnlyEnds == Ops \subseteq {"push_front", "push_back", "pop_front", "pop_back", "clear"}

(* In that shape, the deque of such a client is the sequence it built: at,  *)
(* front and back return its elements wherever the ring starts and however  *)
(* often the control array was reallocated or collapsed.                    *)
SoundIsSequence ==
  OnlyEnds /\ Sound(dq) =>
    /\ \A i \in 1 .. Len(items) : deque_at(dq, i - 1) = items[i]
    /\ items # << >> => deque_front(dq) = items[1] /\ deque_back(dq) = Last(items)

(* In that shape no other entry of the control array still owns an array:   *)
(* destroy, which frees the blocks in use, frees them all.                  *)
NoBlockLeaked ==
  Sound(dq) => \A b \in DOMAIN dq.blocks \ InUse(dq) : dq.blocks[b].array = NULL

(* The control array keeps its types, and the blocks it does not use no     *)
(* memory.                                                                  *)
BlocksSafe == TypeOK /\ NoBlockLeaked

(* The calls after which a deque of that shape has it no longer: a push     *)
(* that grows past an empty single block, a pop that leaves one block when  *)
(* that block is blocks[0], a clear of a ring that starts at either end of  *)
(* the control array.                                                       *)
GrowsPastEmpty == dq.block_count = 1 /\ dq.nmemb = 0 /\ dq'.block_count = 2
CollapsesInPlace ==
  /\ dq.block_count = 2 /\ dq'.block_count = 1
  /\ \/ dq.back = 0 /\ items' = Tail(items)
     \/ dq.front = 0 /\ items' = Front(items)
ClearsRingEnd ==
  dq.block_count > 1 /\ items' = << >> /\ dq.front \in {0, dq.capacity - 1}

(* No other step of the operations on the ends does.                        *)
ShapeKept ==
  [][OnlyEnds /\ Sound(dq) /\ ~Sound(dq') =>
       ClearsRingEnd \/ (dq' # FAULT /\ (GrowsPastEmpty \/ CollapsesInPlace))]_vars

(* "Returns a pointer to the first element in the queue" (queue.h:84).      *)
FirstInFirstOut == dq # FAULT /\ items # << >> => deque_front(dq) = items[1]
=============================================================================
