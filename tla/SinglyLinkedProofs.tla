------------------------- MODULE SinglyLinkedProofs -------------------------
(***************************************************************************)
(* Proofs about SinglyLinked for pages of any size and lists of any length, *)
(* on top of those about the node allocator.                                *)
(***************************************************************************)
EXTENDS SinglyLinked, ListLemmas, TLAPS

NAP == INSTANCE NodeAllocProofs WITH Data <- {}

Slots == NA!Slots(pages)
Link == (Nat \X Nat) \union {NULL}

(* The object, its nodes and the allocator have their types even after an   *)
(* erase after before_begin.                                                *)
Typed == /\ pages \in Seq(NAP!PageRec) /\ pages # << >>
         /\ blocks \in Link /\ word \in [Slots -> Link]
         /\ TypeOK

(* Before one, the node allocator's invariant holds and the elements are    *)
(* distinct slots that the list holds.                                      *)
Held == NAP!IInv /\ NodesAreElements

(* The inductive invariant.  That the list holds its nodes needs that it is *)
(* its client's sequence: what pop_front and erase free is what head and    *)
(* the links lead to.                                                       *)
IInv == Typed /\ (astray = 0 => Held /\ Sound)

-----------------------------------------------------------------------------
(* The node allocator.                                                      *)
LEMMA AllocatorAssumptions ==
  ASSUME FListAssumption
  PROVE  NAP!InitMaxAssumption /\ NAP!MaxPagesAssumption /\ NAP!NullAssumption
BY DEF FListAssumption, NAP!InitMaxAssumption, NAP!MaxPagesAssumption, NAP!NullAssumption

(* The list's instance of the allocator and the one proved about agree.     *)
LEMMA SameSlots == \A pgs : NA!Slots(pgs) = NAP!Slots(pgs)
BY DEF NA!Slots, NAP!Slots

LEMMA SameAlloc ==
  /\ NA!AllocRecycled <=> NAP!AllocRecycled
  /\ NA!AllocCursor <=> NAP!AllocCursor
  /\ NA!AllocNewPage <=> NAP!AllocNewPage
<1>1. NA!AllocRecycled <=> NAP!AllocRecycled
  BY DEF NA!AllocRecycled, NAP!AllocRecycled, NA!NextFree, NAP!NextFree, NA!AfterFirst, NAP!AfterFirst
<1>2. NA!AllocCursor <=> NAP!AllocCursor
  BY DEF NA!AllocCursor, NAP!AllocCursor, NA!TopFull, NAP!TopFull, NA!Top, NAP!Top
<1>3. NA!AllocNewPage <=> NAP!AllocNewPage
  BY DEF NA!AllocNewPage, NAP!AllocNewPage, NA!TopFull, NAP!TopFull, NA!Top, NAP!Top,
         NA!growth_policy, NAP!growth_policy, NA!ZeroedPage, NAP!ZeroedPage,
         NA!Slots, NAP!Slots
<1>4. QED BY <1>1, <1>2, <1>3

LEMMA SameFree ==
  ASSUME NEW s
  PROVE  FreeNode(s) <=> NAP!FreeAtCursor(s) \/ NAP!FreeToList(s)
BY DEF FreeNode, NA!FreeAtCursor, NAP!FreeAtCursor, NA!FreeToList, NAP!FreeToList,
       NA!AtCursor, NAP!AtCursor, NA!TopEmptied, NAP!TopEmptied, NA!Kept, NAP!Kept,
       NA!Slots, NAP!Slots, NA!Top, NAP!Top, NA!Front, NAP!Front

(* What is known of the list between two calls.                             *)
LEMMA Facts ==
  ASSUME FListAssumption, Typed, Held
  PROVE  /\ live \subseteq Slots /\ Slots \subseteq Nat \X Nat
         /\ flist.before \in live /\ flist.before \in Slots
         /\ ToSet(items) \subseteq live
         /\ items \in Seq(Slots) /\ DOMAIN items = 1 .. Len(items) /\ Len(items) \in Nat
         /\ \A i \in 1 .. Len(items) : /\ items[i] \in Slots /\ items[i] \in live
                                       /\ items[i] # flist.before
         /\ \A i, j \in DOMAIN items : items[i] = items[j] => i = j
         /\ link \in [Slots -> Link]
         /\ flist.head \in Link /\ flist.nmemb = Len(items)
<1>1. live \subseteq Slots /\ Slots \subseteq Nat \X Nat
  <2>1. NAP!IInv => NAP!LiveInSlots
    BY AllocatorAssumptions, NAP!LiveIsMemory
  <2>2. QED BY <2>1, SameSlots DEF Held, NAP!LiveInSlots, Slots
<1>2. /\ live = ToSet(items) \union {flist.before} /\ flist.before \notin ToSet(items)
      /\ \A i, j \in DOMAIN items : items[i] = items[j] => i = j
  BY DEF Held, NodesAreElements
<1>3. /\ items \in Seq(Nat \X Nat) /\ link \in [Slots -> Link] /\ flist.head \in Link
      /\ flist.nmemb = Len(items)
  BY DEF Typed, TypeOK, Slots, Link
<1>4. DOMAIN items = 1 .. Len(items) /\ Len(items) \in Nat
  BY <1>3, LenProperties
<1>5. \A i \in 1 .. Len(items) : items[i] \in ToSet(items)
  BY <1>4 DEF ToSet
<1>6. items \in Seq(Slots)
  <2>1. ToSet(items) \subseteq Slots
    BY <1>1, <1>2
  <2>2. QED BY <1>3, <2>1, SeqOver
<1>7. QED BY <1>1, <1>2, <1>3, <1>4, <1>5, <1>6

(* The types alone, which do not need the invariant of the allocator.       *)
LEMMA AllocTyped ==
  ASSUME FListAssumption, Typed, Alloc
  PROVE  /\ pages' \in Seq(NAP!PageRec) /\ pages' # << >>
         /\ blocks' \in Link /\ word' \in [Slots' -> Link]
         /\ NewNode \in Nat \X Nat /\ Slots \subseteq Slots'
         /\ Memory(pages') \in [Slots' -> Link]
<1>1. /\ pages \in Seq(NAP!PageRec) /\ pages # << >> /\ blocks \in Link
      /\ word \in [Slots -> Link] /\ link \in [Slots -> Link]
  BY DEF Typed, TypeOK, Slots, Link
<1>2. Len(pages) \in Nat /\ pages[Len(pages)].cursor \in Nat
      /\ pages[Len(pages)].max \in Nat \ {0}
  <2>1. Len(pages) \in 1 .. Len(pages)
    BY <1>1, EmptySeq
  <2>2. QED BY <1>1, <2>1, LenProperties, AllocatorAssumptions, NAP!PageTyped
<1>3. NewNode \in Nat \X Nat
  BY <1>1, <1>2 DEF NewNode, Link
<1>4. /\ pages' \in Seq(NAP!PageRec) /\ pages' # << >>
      /\ blocks' \in Link /\ word' \in [Slots' -> Link]
      /\ Slots \subseteq Slots'
  <2>1. CASE NA!AllocRecycled
    <3>1. pages' = pages /\ word' = word /\ blocks # NULL /\ blocks' = word[blocks]
      BY <2>1 DEF NA!AllocRecycled, NA!NextFree
    <3>2. blocks \in Slots
      BY <1>1, <3>1 DEF Alloc
    <3>3. QED BY <1>1, <3>1, <3>2 DEF Slots
  <2>2. CASE NA!AllocCursor
    <3>1. /\ pages' = [pages EXCEPT ![Len(pages)].cursor = @ + 1]
          /\ word' = word /\ blocks' = blocks
      BY <2>2 DEF NA!AllocCursor, NA!Top
    <3>2. pages' \in Seq(NAP!PageRec) /\ Len(pages') = Len(pages)
          /\ NAP!Slots(pages') = NAP!Slots(pages)
      BY <1>1, <3>1, AllocatorAssumptions, NAP!CursorUp
    <3>3. pages' # << >>
      BY <1>1, <3>2, EmptySeq
    <3>4. Slots' = Slots
      BY <3>2, SameSlots DEF Slots
    <3>5. QED BY <1>1, <3>1, <3>2, <3>3, <3>4
  <2>3. CASE NA!AllocNewPage
    <3> DEFINE m == 2 * pages[Len(pages)].max
               page == [cursor |-> 1, max |-> m]
    <3>1. /\ pages' = Append(pages, page) /\ blocks' = blocks
          /\ word' = [s \in Slots' |-> IF s \in DOMAIN word THEN word[s]
                                       ELSE NA!ZeroedPage(Len(pages) + 1, m)[s]]
      <4>1. pages[Len(pages)].max * 2 = m
        BY <1>2
      <4>2. QED BY <2>3, <4>1 DEF NA!AllocNewPage, NA!Top, NA!growth_policy, Slots
    <3>2. page \in NAP!PageRec /\ page.cursor = 1 /\ page.max = m
      <4>1. m \in Nat \ {0}
        BY <1>2
      <4>2. QED BY <4>1 DEF NAP!PageRec
    <3> HIDE DEF page
    <3>3. /\ pages' \in Seq(NAP!PageRec) /\ Len(pages') = Len(pages) + 1
          /\ NAP!Slots(pages') = NAP!Slots(pages) \union ({Len(pages) + 1} \X (0 .. m - 1))
      <4>1. LET new == Append(pages, page)
            IN  /\ new \in Seq(NAP!PageRec) /\ Len(new) = Len(pages) + 1
                /\ NAP!Slots(new) = NAP!Slots(pages)
                                       \union ({Len(pages) + 1} \X (0 .. page.max - 1))
        BY <1>1, <3>2, AllocatorAssumptions, NAP!PagePushed
      <4>2. QED BY <3>1, <3>2, <4>1
    <3>4. pages' # << >>
      BY <1>2, <3>3, EmptySeq
    <3>5. Slots' = Slots \union ({Len(pages) + 1} \X (0 .. m - 1))
      BY <3>3, SameSlots DEF Slots
    <3> HIDE DEF m
    <3>6. \A s \in {Len(pages) + 1} \X (0 .. m - 1) :
            NA!ZeroedPage(Len(pages) + 1, m)[s] = NULL
      BY DEF NA!ZeroedPage
    <3>7. word' \in [Slots' -> Link]
      BY <1>1, <3>1, <3>5, <3>6 DEF Link
    <3>8. QED BY <1>1, <3>1, <3>3, <3>4, <3>5, <3>7
  <2>4. QED BY <2>1, <2>2, <2>3 DEF Alloc
<1>5. Memory(pages') \in [Slots' -> Link]
  BY <1>1 DEF Memory, Slots, Link
<1>6. QED BY <1>3, <1>4, <1>5

LEMMA FreeTyped ==
  ASSUME FListAssumption, Typed, NEW s \in Slots, FreeNode(s)
  PROVE  /\ pages' \in Seq(NAP!PageRec) /\ pages' # << >>
         /\ blocks' \in Link /\ word' \in [Slots' -> Link]
         /\ Slots' \subseteq Slots
<1>1. /\ pages \in Seq(NAP!PageRec) /\ pages # << >> /\ blocks \in Link
      /\ word \in [Slots -> Link]
  BY DEF Typed
<1>2. Len(pages) \in Nat /\ pages[Len(pages)].cursor \in Nat
  <2>1. Len(pages) \in 1 .. Len(pages)
    BY <1>1, EmptySeq
  <2>2. QED BY <1>1, <2>1, LenProperties, AllocatorAssumptions, NAP!PageTyped
<1>3. PICK p \in 1 .. Len(pages), k \in Nat : s = <<p, k>>
  BY <1>1, AllocatorAssumptions, SameSlots, NAP!SlotsMember DEF Slots
<1>4. CASE NA!FreeToList(s)
  <2>1. pages' = pages /\ word' = [word EXCEPT ![s] = blocks] /\ blocks' = s
    BY <1>4 DEF NA!FreeToList
  <2>2. s \in Link
    BY <1>3 DEF Link
  <2>3. QED BY <1>1, <2>1, <2>2 DEF Slots
<1>5. CASE NA!FreeAtCursor(s)
  <2>1. /\ s = <<Len(pages), pages[Len(pages)].cursor - 1>> /\ blocks' = blocks
        /\ word' = [t \in Slots' |-> word[t]]
        /\ pages' = IF pages[Len(pages)].cursor - 1 = 0 /\ Len(pages) > 1
                    THEN Front(pages)
                    ELSE [pages EXCEPT ![Len(pages)].cursor = @ - 1]
    BY <1>5 DEF NA!FreeAtCursor, NA!AtCursor, NA!TopEmptied, NA!Top, NA!Kept, Slots,
                NA!Front, Front
  <2>2. pages[Len(pages)].cursor > 0
    BY <1>2, <1>3, <2>1
  <2>3. /\ pages' \in Seq(NAP!PageRec) /\ pages' # << >> /\ Slots' \subseteq Slots
    <3>1. CASE pages[Len(pages)].cursor = 1 /\ Len(pages) > 1
      <4>1. pages' = NAP!Front(pages)
        BY <2>1, <3>1 DEF NAP!Front, Front
      <4>2. pages' \in Seq(NAP!PageRec) /\ Len(pages') = Len(pages) - 1
            /\ NAP!Slots(pages') \subseteq NAP!Slots(pages)
        BY <1>1, <3>1, <4>1, AllocatorAssumptions, NAP!PagePopped
      <4>3. pages' # << >>
        BY <1>2, <3>1, <4>2, EmptySeq
      <4>4. QED BY <4>2, <4>3, SameSlots DEF Slots
    <3>2. CASE ~(pages[Len(pages)].cursor = 1 /\ Len(pages) > 1)
      <4>1. pages' = [pages EXCEPT ![Len(pages)].cursor = @ - 1]
        BY <1>2, <2>1, <3>2
      <4>2. pages' \in Seq(NAP!PageRec) /\ Len(pages') = Len(pages)
            /\ NAP!Slots(pages') = NAP!Slots(pages)
        BY <1>1, <2>2, <4>1, AllocatorAssumptions, NAP!CursorDown
      <4>3. pages' # << >>
        BY <1>1, <4>2, EmptySeq
      <4>4. QED BY <4>2, <4>3, SameSlots DEF Slots
    <3>3. QED BY <3>1, <3>2
  <2>4. QED BY <1>1, <2>1, <2>3
<1>6. QED BY <1>4, <1>5 DEF FreeNode

(* What an allocation for a new node leaves.                                *)
LEMMA AllocEffect ==
  ASSUME FListAssumption, Typed, Held, Alloc
  PROVE  /\ NAP!IInv' /\ pages' # << >>
         /\ NewNode \notin live /\ live' = live \union {NewNode} /\ NewNode \in Slots'
         /\ Slots \subseteq Slots' /\ Slots' \subseteq Nat \X Nat
         /\ Memory(pages') \in [Slots' -> Link]
         /\ \A s \in Slots : Memory(pages')[s] = link[s]
<1>1. NAP!AllocRecycled \/ NAP!AllocCursor \/ NAP!AllocNewPage
  BY SameAlloc DEF Alloc
<1>2. /\ NAP!IInv' /\ pages' # << >>
      /\ live' \subseteq Slots' /\ Slots' \subseteq Nat \X Nat
      /\ Slots \subseteq Slots'
      /\ \E s : s \notin live /\ live' = live \union {s}
  BY <1>1, AllocatorAssumptions, NAP!AllocGives, SameSlots DEF Held, Typed, Slots
<1>3. PICK s : s \notin live /\ live' = live \union {s}
  BY <1>2
<1>4. live' = live \union {NewNode}
  BY DEF Alloc, NewNode, NA!AllocRecycled, NA!AllocCursor, NA!AllocNewPage, NA!Top
<1>5. link \in [Slots -> Link]
  BY Facts
<1>6. /\ Memory(pages') \in [Slots' -> Link]
      /\ \A t \in Slots : Memory(pages')[t] = link[t]
  BY <1>2, <1>5 DEF Memory, Slots, Link
<1>7. NewNode \notin live
  BY <1>3, <1>4
<1>8. QED BY <1>2, <1>4, <1>6, <1>7

(* What giving back the node of an element leaves.                          *)
LEMMA FreeEffect ==
  ASSUME FListAssumption, Typed, Held, NEW s \in live, FreeNode(s)
  PROVE  /\ NAP!IInv' /\ pages' # << >>
         /\ live' = live \ {s} /\ live' \subseteq Slots'
         /\ Slots' \subseteq Slots
<1>1. NAP!FreeAtCursor(s) \/ NAP!FreeToList(s)
  BY SameFree
<1>2. QED BY <1>1, AllocatorAssumptions, NAP!FreeGives, SameSlots DEF Held, Typed, Slots

(* What is known of the object whatever the client has erased.              *)
LEMMA TypedFacts ==
  ASSUME FListAssumption, Typed
  PROVE  /\ flist \in [before : {<<1, 0>>}, head : Link, nmemb : 0 .. MaxItems]
         /\ flist.before = <<1, 0>> /\ flist.head \in Link
         /\ flist.nmemb = Len(items) /\ flist.nmemb \in 0 .. MaxItems
         /\ items \in Seq(Nat \X Nat) /\ Len(items) \in Nat
         /\ DOMAIN items = 1 .. Len(items)
         /\ link \in [Slots -> Link] /\ astray \in 0 .. MaxAstray
         /\ MaxItems \in Nat /\ MaxAstray \in Nat
<1>1. /\ flist \in [before : {<<1, 0>>}, head : Link, nmemb : 0 .. MaxItems]
      /\ flist.nmemb = Len(items) /\ items \in Seq(Nat \X Nat)
      /\ link \in [Slots -> Link] /\ astray \in 0 .. MaxAstray
      /\ MaxItems \in Nat /\ MaxAstray \in Nat
  BY DEF Typed, TypeOK, Slots, Link, FListAssumption
<1>2. Len(items) \in Nat /\ DOMAIN items = 1 .. Len(items)
  BY <1>1, LenProperties
<1>3. QED BY <1>1, <1>2

(* A call that goes on counts itself within the bound.                      *)
LEMMA GoesOnTyped ==
  ASSUME FListAssumption, Typed, NEW b \in BOOLEAN, GoesOn(b)
  PROVE  astray' \in 0 .. MaxAstray /\ (astray' = 0 => astray = 0 /\ ~b)
<1>1. astray \in 0 .. MaxAstray /\ MaxAstray \in Nat
  BY TypedFacts
<1>2. QED BY <1>1 DEF GoesOn

(* A call that gives the list one element more.                             *)
LEMMA GrowTyped ==
  ASSUME FListAssumption, Typed, Alloc, NEW h \in Link,
         flist' = [flist EXCEPT !.head = h, !.nmemb = @ + 1],
         link' \in [Slots' -> Link], astray' \in 0 .. MaxAstray,
         items' \in Seq(Nat \X Nat), Len(items') = Len(items) + 1
  PROVE  Typed' /\ flist'.before = flist.before /\ flist'.head = h
<1>1. /\ pages' \in Seq(NAP!PageRec) /\ pages' # << >>
      /\ blocks' \in Link /\ word' \in [Slots' -> Link]
  BY AllocTyped
<1>2. Len(items) < MaxItems
  BY DEF Alloc
<1>3. /\ flist' \in [before : {<<1, 0>>}, head : Link, nmemb : 0 .. MaxItems]
      /\ flist'.nmemb = Len(items')
      /\ flist'.before = flist.before /\ flist'.head = h
  <2>1. flist.nmemb + 1 \in 0 .. MaxItems /\ flist.nmemb + 1 = Len(items')
    BY <1>2, TypedFacts
  <2>2. QED BY <2>1, TypedFacts
<1>4. TypeOK'
  BY <1>3 DEF TypeOK, Slots, Link
<1>5. QED BY <1>1, <1>3, <1>4 DEF Typed

(* A call that takes one element away and frees a node.                     *)
LEMMA ShrinkTyped ==
  ASSUME FListAssumption, Typed, NEW s \in Slots, FreeNode(s), NEW h \in Link,
         flist' = [flist EXCEPT !.head = h, !.nmemb = @ - 1],
         link' \in [Slots' -> Link], astray' \in 0 .. MaxAstray,
         items # << >>, items' \in Seq(Nat \X Nat), Len(items') = Len(items) - 1
  PROVE  Typed' /\ flist'.before = flist.before /\ flist'.head = h
<1>1. /\ pages' \in Seq(NAP!PageRec) /\ pages' # << >>
      /\ blocks' \in Link /\ word' \in [Slots' -> Link]
  BY FreeTyped
<1>2. Len(items) # 0
  BY TypedFacts, EmptySeq
<1>3. /\ flist' \in [before : {<<1, 0>>}, head : Link, nmemb : 0 .. MaxItems]
      /\ flist'.nmemb = Len(items')
      /\ flist'.before = flist.before /\ flist'.head = h
  <2>1. flist.nmemb - 1 \in 0 .. MaxItems /\ flist.nmemb - 1 = Len(items')
    BY <1>2, TypedFacts
  <2>2. QED BY <2>1, TypedFacts
<1>4. TypeOK'
  BY <1>3 DEF TypeOK, Slots, Link
<1>5. QED BY <1>1, <1>3, <1>4 DEF Typed

(* A call that puts a new node among the elements.                          *)
LEMMA GrowHeld ==
  ASSUME FListAssumption, Typed, Held, Alloc, flist'.before = flist.before,
         ToSet(items') = ToSet(items) \union {NewNode},
         \A i, j \in DOMAIN items' : items'[i] = items'[j] => i = j
  PROVE  Held'
<1>1. /\ NAP!IInv' /\ NewNode \notin live /\ live' = live \union {NewNode}
  BY AllocEffect
<1>2. NodesAreElements'
  BY <1>1, Facts DEF Held, NodesAreElements
<1>3. QED BY <1>1, <1>2 DEF Held

(* A call that takes element k away and gives back its node.                *)
LEMMA ShrinkHeld ==
  ASSUME FListAssumption, Typed, Held, NEW k \in 1 .. Len(items), FreeNode(items[k]),
         flist'.before = flist.before,
         ToSet(items') = ToSet(items) \ {items[k]},
         \A i, j \in DOMAIN items' : items'[i] = items'[j] => i = j
  PROVE  Held'
<1>1. items[k] \in live /\ items[k] # flist.before /\ flist.before \in live
  BY Facts
<1>2. NAP!IInv' /\ live' = live \ {items[k]}
  BY <1>1, FreeEffect
<1>3. NodesAreElements'
  BY <1>1, <1>2 DEF Held, NodesAreElements
<1>4. QED BY <1>2, <1>3 DEF Held

-----------------------------------------------------------------------------
(* The calls: types first, then the nodes held.                             *)

LEMMA PushFrontTyped ==
  FListAssumption /\ Typed /\ PushFront => Typed' /\ flist'.before = flist.before
                                                  /\ flist'.head = NewNode
<1> SUFFICES ASSUME FListAssumption, Typed, PushFront
             PROVE  Typed' /\ flist'.before = flist.before /\ flist'.head = NewNode
  OBVIOUS
<1>1. /\ Alloc /\ GoesOn(FALSE)
      /\ flist' = [flist EXCEPT !.head = NewNode, !.nmemb = @ + 1]
      /\ link' = [[Memory(pages') EXCEPT ![NewNode] = flist.head]
                     EXCEPT ![flist'.before] = flist'.head]
      /\ items' = <<NewNode>> \o items
  BY DEF PushFront, Sentinel
<1>2. /\ NewNode \in Nat \X Nat /\ NewNode \in Link
      /\ Memory(pages') \in [Slots' -> Link]
  BY <1>1, AllocTyped DEF Link
<1>3. flist'.head = NewNode /\ flist.head \in Link
  BY <1>1, TypedFacts
<1>4. link' \in [Slots' -> Link]
  BY <1>1, <1>2, <1>3
<1>5. items' \in Seq(Nat \X Nat) /\ Len(items') = Len(items) + 1
  <2>1. <<NewNode>> \in Seq(Nat \X Nat) /\ Len(<<NewNode>>) = 1
    BY <1>2
  <2>2. items' \in Seq(Nat \X Nat) /\ Len(items') = Len(<<NewNode>>) + Len(items)
    BY <1>1, <2>1, TypedFacts, ConcatProperties
  <2>3. QED BY <2>1, <2>2, TypedFacts
<1>6. astray' \in 0 .. MaxAstray
  BY <1>1, GoesOnTyped
<1>7. QED BY <1>1, <1>2, <1>4, <1>5, <1>6, GrowTyped

LEMMA InsertAfterTyped ==
  ASSUME FListAssumption, Typed, NEW i \in 1 .. Len(items) + 1, InsertAfter(i)
  PROVE  /\ Typed' /\ flist'.before = flist.before
         /\ flist'.head = IF BecomesHead(Before(i)) THEN NewNode ELSE flist.head
<1> DEFINE h == IF BecomesHead(Before(i)) THEN NewNode ELSE flist.head
<1>1. /\ Before(i) \in Slots /\ Alloc /\ GoesOn(FALSE)
      /\ flist' = [flist EXCEPT !.head = h, !.nmemb = @ + 1]
      /\ link' = [[Memory(pages') EXCEPT ![NewNode] = link[Before(i)],
                                         ![Before(i)] = NewNode]
                     EXCEPT ![flist'.before] = flist'.head]
      /\ items' = InsertAt(items, i, NewNode)
  BY TypedFacts DEF InsertAfter, Sentinel
<1>2. /\ NewNode \in Nat \X Nat /\ NewNode \in Link
      /\ Memory(pages') \in [Slots' -> Link]
  BY <1>1, AllocTyped DEF Link
<1>3. h \in Link
  BY <1>2, TypedFacts
<1> HIDE DEF h
<1>4. flist'.head = h
  BY <1>1, TypedFacts
<1>5. link[Before(i)] \in Link
  BY <1>1, TypedFacts
<1>6. link' \in [Slots' -> Link]
  BY <1>1, <1>2, <1>3, <1>4, <1>5
<1>7. items' \in Seq(Nat \X Nat) /\ Len(items') = Len(items) + 1
  <2> DEFINE P == Nat \X Nat
  <2>1. items' = InsertAt(items, i, NewNode) /\ NewNode \in P /\ items \in Seq(P)
    BY <1>1, <1>2, TypedFacts
  <2> HIDE DEF P
  <2>2. items' \in Seq(P) /\ Len(items') = Len(items) + 1
    BY <2>1, InsertShape
  <2>3. QED BY <2>2 DEF P
<1>8. astray' \in 0 .. MaxAstray
  BY <1>1, GoesOnTyped
<1>9. Typed' /\ flist'.before = flist.before /\ flist'.head = h
  BY <1>1, <1>3, <1>6, <1>7, <1>8, GrowTyped
<1>10. QED BY <1>9 DEF h

LEMMA PopFrontTyped ==
  FListAssumption /\ Typed /\ PopFront => Typed' /\ flist'.before = flist.before
                                                 /\ flist'.head = link[flist.head]
<1> SUFFICES ASSUME FListAssumption, Typed, PopFront
             PROVE  Typed' /\ flist'.before = flist.before /\ flist'.head = link[flist.head]
  OBVIOUS
<1>1. /\ flist.nmemb # 0 /\ flist.head \in Slots /\ FreeNode(flist.head) /\ GoesOn(FALSE)
      /\ flist' = [flist EXCEPT !.head = link[flist.head], !.nmemb = @ - 1]
      /\ link' = Left([link EXCEPT ![flist'.before] = flist'.head])
      /\ items' = Tail(items)
  BY TypedFacts DEF PopFront, Sentinel
<1>2. link[flist.head] \in Link
  BY <1>1, TypedFacts
<1>3. flist'.head = link[flist.head]
  BY <1>1, TypedFacts
<1>4. Slots' \subseteq Slots
  BY <1>1, FreeTyped
<1>5. link' \in [Slots' -> Link]
  BY <1>1, <1>2, <1>3, <1>4, TypedFacts DEF Left, Slots
<1>6. items # << >>
  BY <1>1, TypedFacts, EmptySeq
<1>7. items' \in Seq(Nat \X Nat) /\ Len(items') = Len(items) - 1
  BY <1>1, <1>6, TypedFacts, HeadTailProperties
<1>8. astray' \in 0 .. MaxAstray
  BY <1>1, GoesOnTyped
<1>9. QED BY <1>1, <1>2, <1>5, <1>6, <1>7, <1>8, ShrinkTyped

LEMMA EraseAfterTyped ==
  ASSUME FListAssumption, Typed, NEW i, EraseAfter(i)
  PROVE  Typed' /\ flist'.before = flist.before /\ flist'.head = flist.head
<1> DEFINE s == link[Before(i)]
<1>1. /\ i \in DOMAIN items /\ Before(i) \in Slots /\ s \in Slots /\ FreeNode(s)
      /\ GoesOn(i = 1)
      /\ flist' = [flist EXCEPT !.nmemb = @ - 1]
      /\ link' = Left([[link EXCEPT ![Before(i)] = link[s]]
                         EXCEPT ![flist.before] = flist.head])
      /\ items' = RemoveAt(items, i)
  BY TypedFacts DEF EraseAfter, Sentinel
<1> HIDE DEF s
<1>2. link[s] \in Link /\ flist.head \in Link
  BY <1>1, TypedFacts
<1>3. flist' = [flist EXCEPT !.head = flist.head, !.nmemb = @ - 1]
  BY <1>1, TypedFacts
<1>4. Slots' \subseteq Slots
  BY <1>1, FreeTyped
<1>5. link' \in [Slots' -> Link]
  BY <1>1, <1>2, <1>4, TypedFacts DEF Left, Slots
<1>6. i \in 1 .. Len(items) /\ items # << >>
  BY <1>1, TypedFacts, EmptySeq
<1>7. items' \in Seq(Nat \X Nat) /\ Len(items') = Len(items) - 1
  BY <1>1, <1>6, TypedFacts, RemoveShape
<1>8. astray' \in 0 .. MaxAstray
  BY <1>1, GoesOnTyped
<1>9. QED BY <1>1, <1>2, <1>3, <1>5, <1>6, <1>7, <1>8, ShrinkTyped

LEMMA PushFrontHeld == FListAssumption /\ Typed /\ Held /\ PushFront => Held'
<1> SUFFICES ASSUME FListAssumption, Typed, Held, PushFront PROVE Held'
  OBVIOUS
<1>1. Alloc /\ items' = <<NewNode>> \o items
  BY DEF PushFront
<1>2. NewNode \notin live /\ NewNode \in Slots' /\ Slots \subseteq Slots'
  BY <1>1, AllocEffect
<1>3. items \in Seq(Slots') /\ NewNode \notin ToSet(items)
      /\ \A i, j \in DOMAIN items : items[i] = items[j] => i = j
  <2>1. ToSet(items) \subseteq Slots' /\ items \in Seq(Slots)
    BY <1>2, Facts
  <2>2. QED BY <2>1, <1>2, Facts, SeqOver
<1>4. /\ ToSet(items') = ToSet(items) \union {NewNode}
      /\ \A i, j \in DOMAIN items' : items'[i] = items'[j] => i = j
  BY <1>1, <1>2, <1>3, ChainPush
<1>5. QED BY <1>1, <1>4, PushFrontTyped, GrowHeld

LEMMA InsertAfterHeld ==
  ASSUME FListAssumption, Typed, Held, NEW i \in 1 .. Len(items) + 1, InsertAfter(i)
  PROVE  Held'
<1>1. Alloc /\ items' = InsertAt(items, i, NewNode)
  BY DEF InsertAfter
<1>2. NewNode \notin live /\ NewNode \in Slots' /\ Slots \subseteq Slots'
  BY <1>1, AllocEffect
<1>3. items \in Seq(Slots') /\ NewNode \notin ToSet(items)
      /\ \A m, j \in DOMAIN items : items[m] = items[j] => m = j
  <2>1. ToSet(items) \subseteq Slots' /\ items \in Seq(Slots)
    BY <1>2, Facts
  <2>2. QED BY <2>1, <1>2, Facts, SeqOver
<1>4. /\ ToSet(items') = ToSet(items) \union {NewNode}
      /\ \A m, j \in DOMAIN items' : items'[m] = items'[j] => m = j
  <2>1. NewNode \in Slots' /\ items' = InsertAt(items, i, NewNode)
    BY <1>1, <1>2
  <2>2. QED BY <2>1, <1>3, ChainInsert
<1>5. QED BY <1>1, <1>4, InsertAfterTyped, GrowHeld

LEMMA PopFrontHeld == FListAssumption /\ Typed /\ Held /\ Sound /\ PopFront => Held'
<1> SUFFICES ASSUME FListAssumption, Typed, Held, Sound, PopFront PROVE Held'
  OBVIOUS
<1>1. flist.nmemb # 0 /\ FreeNode(flist.head) /\ items' = Tail(items)
  BY DEF PopFront
<1>2. /\ items \in Seq(Slots) /\ flist.nmemb = Len(items) /\ Len(items) \in Nat
      /\ \A i, j \in DOMAIN items : items[i] = items[j] => i = j
  BY Facts
<1>3. items # << >> /\ 1 \in 1 .. Len(items) /\ flist.head = items[1]
  BY <1>1, <1>2, EmptySeq DEF Sound
<1>4. /\ ToSet(items') = ToSet(items) \ {items[1]}
      /\ \A i, j \in DOMAIN items' : items'[i] = items'[j] => i = j
  BY <1>1, <1>2, <1>3, ChainTail
<1>5. QED BY <1>1, <1>3, <1>4, PopFrontTyped, ShrinkHeld

(* What erase after the position of an element frees, while the links       *)
(* follow the elements: its node.                                           *)
LEMMA ErasesElement ==
  ASSUME FListAssumption, Typed, Held, Sound, NEW i \in 1 .. Len(items)
  PROVE  link[Before(i)] = items[i]
<1>1. Len(items) \in Nat /\ DOMAIN items = 1 .. Len(items) /\ items # << >>
  BY Facts, EmptySeq
<1>2. CASE i = 1
  BY <1>1, <1>2, Facts DEF Before, Sound
<1>3. CASE i # 1
  <2>1. i - 1 \in DOMAIN items /\ i - 1 # Len(items) /\ i - 1 + 1 = i
    BY <1>1, <1>3
  <2>2. QED BY <1>3, <2>1 DEF Before, Sound
<1>4. QED BY <1>2, <1>3

LEMMA EraseAfterHeld ==
  ASSUME FListAssumption, Typed, Held, Sound, NEW i, EraseAfter(i)
  PROVE  Held'
<1>1. /\ i \in DOMAIN items /\ FreeNode(link[Before(i)])
      /\ items' = RemoveAt(items, i)
  BY DEF EraseAfter
<1>2. /\ items \in Seq(Slots) /\ DOMAIN items = 1 .. Len(items) /\ i \in 1 .. Len(items)
      /\ \A m, j \in DOMAIN items : items[m] = items[j] => m = j
  BY <1>1, Facts
<1>3. FreeNode(items[i])
  BY <1>1, <1>2, ErasesElement
<1>4. /\ ToSet(items') = ToSet(items) \ {items[i]}
      /\ \A m, j \in DOMAIN items' : items'[m] = items'[j] => m = j
  BY <1>1, <1>2, ChainRemove
<1>5. QED BY <1>2, <1>3, <1>4, EraseAfterTyped, ShrinkHeld

(* The allocator of a list without elements, new or cleared: the sentinel's *)
(* node is the one slot in use.                                             *)
SentinelAlone ==
  /\ \E m \in Nat \ {0} : pages = <<[cursor |-> 1, max |-> m]>>
  /\ blocks = NULL /\ word \in [Slots -> NAP!Word]
  /\ live = {<<1, 0>>} /\ chain = << >> /\ held = 1

EmptyList ==
  /\ SentinelAlone
  /\ flist = [before |-> <<1, 0>>, head |-> NULL, nmemb |-> 0]
  /\ link \in [Slots -> Link] /\ link[<<1, 0>>] = NULL
  /\ items = << >> /\ astray = 0

LEMMA EmptyInv == FListAssumption /\ EmptyList => IInv
<1> SUFFICES ASSUME FListAssumption, EmptyList PROVE IInv
  OBVIOUS
<1>1. PICK m \in Nat \ {0} : pages = <<[cursor |-> 1, max |-> m]>>
  BY DEF EmptyList, SentinelAlone
<1>2. /\ blocks = NULL /\ word \in [Slots -> NAP!Word]
      /\ live = {<<1, 0>>} /\ chain = << >> /\ held = 1
  BY DEF EmptyList, SentinelAlone
<1>3. /\ pages \in Seq(NAP!PageRec) /\ Len(pages) = 1 /\ pages # << >> /\ DOMAIN pages = {1}
      /\ pages[1].cursor = 1 /\ pages[1].max = m
      /\ NAP!Used(pages) = {<<1, 0>>}
      /\ <<1, 0>> \in NAP!Slots(pages) /\ NAP!Slots(pages) \subseteq Nat \X Nat
  BY <1>1, AllocatorAssumptions, NAP!FirstSlotTaken
<1>4. ToSet(chain) = {} /\ DOMAIN chain = {} /\ ToSet(items) = {} /\ items = << >>
      /\ DOMAIN items = {} /\ Len(items) = 0
  BY <1>2, EmptyChain DEF EmptyList
<1>5. NAP!IInv
  <2>1. NAP!TypeOK
    BY <1>2, <1>3, SameSlots DEF NAP!TypeOK, NAP!PageRec, NAP!Word, Slots
  <2>2. NAP!PagesPacked
    BY <1>3 DEF NAP!PagesPacked, NAP!Top
  <2>3. NAP!SlotsPartitioned
    <3>1. NAP!ToSet(chain) = {}
      BY <1>4 DEF NAP!ToSet, ToSet
    <3>2. QED BY <1>2, <1>3, <1>4, <3>1 DEF NAP!SlotsPartitioned
  <2>4. NAP!FreeListIntact
    BY <1>2, <1>4 DEF NAP!FreeListIntact
  <2>5. QED BY <2>1, <2>2, <2>3, <2>4 DEF NAP!IInv
<1>6. MaxItems \in Nat /\ MaxAstray \in Nat
  BY DEF FListAssumption
<1>7. TypeOK
  BY <1>4, <1>6 DEF EmptyList, TypeOK, Slots, Link
<1>8. NodesAreElements
  BY <1>2, <1>4 DEF EmptyList, NodesAreElements
<1>9. Sound
  BY <1>4 DEF EmptyList, Sound
<1>10. word \in [Slots -> Link] /\ blocks \in Link
  BY <1>2 DEF NAP!Word, Link
<1>11. QED BY <1>3, <1>5, <1>7, <1>8, <1>9, <1>10 DEF IInv, Typed, Held

LEMMA InitInv == FListAssumption /\ Init => IInv
<1> SUFFICES ASSUME FListAssumption, Init PROVE EmptyList
  BY EmptyInv
<1>1. pages = <<[cursor |-> 1, max |-> InitMax]>> /\ InitMax \in Nat \ {0}
  BY DEF Init, FListAssumption
<1>2. DOMAIN pages = {1} /\ pages[1].max = InitMax
  BY <1>1
<1>3. Slots = {1} \X (0 .. InitMax - 1) /\ <<1, 0>> \in Slots
  BY <1>1, <1>2 DEF Slots, NA!Slots
<1>4. NA!ZeroedPage(1, InitMax) \in [Slots -> {NULL}]
  BY <1>3 DEF NA!ZeroedPage
<1>5. NA!ZeroedPage(1, InitMax)[<<1, 0>>] = NULL
  BY <1>3, <1>4
<1>6. QED BY <1>1, <1>4, <1>5 DEF Init, EmptyList, SentinelAlone, NAP!Word, Link

(* clear begins anew, whatever was erased before.                           *)
LEMMA ClearInv == FListAssumption /\ Typed /\ Clear => IInv'
<1> SUFFICES ASSUME FListAssumption, Typed, Clear PROVE IInv'
  OBVIOUS
<1>1. /\ pages' = <<[pages[1] EXCEPT !.cursor = 1]>>
      /\ word' = [s \in Slots' |-> word[s]]
      /\ link' = [Memory(pages') EXCEPT ![<<1, 0>>] = NULL]
  BY DEF Clear, NA!Kept, Slots
<1>2. /\ pages \in Seq(NAP!PageRec) /\ pages # << >>
      /\ word \in [Slots -> NAP!Word] /\ link \in [Slots -> Link]
  BY TypedFacts DEF Typed, NAP!Word, Link
<1>3. DOMAIN pages = 1 .. Len(pages) /\ 1 \in DOMAIN pages /\ pages[1] \in NAP!PageRec
  BY <1>2, EmptySeq
<1>4. /\ pages[1].max \in Nat \ {0}
      /\ pages' = <<[cursor |-> 1, max |-> pages[1].max]>>
  BY <1>1, <1>3 DEF NAP!PageRec
<1>5. Slots' = {1} \X (0 .. pages[1].max - 1) /\ <<1, 0>> \in Slots'
  <2>1. DOMAIN pages' = {1} /\ pages'[1].max = pages[1].max
    BY <1>4
  <2>2. QED BY <1>4, <2>1 DEF Slots, NA!Slots
<1>6. Slots' \subseteq Slots
  BY <1>3, <1>5 DEF Slots, NA!Slots
<1>7. word' \in [Slots' -> NAP!Word]
  BY <1>1, <1>2, <1>6
<1>8. link' \in [Slots' -> Link] /\ link'[<<1, 0>>] = NULL
  <2>1. Memory(pages') \in [Slots' -> Link]
    BY <1>2 DEF Memory, Slots, Link
  <2>2. QED BY <1>1, <1>5, <2>1 DEF Link
<1>9. SentinelAlone'
  BY <1>4, <1>7 DEF Clear, SentinelAlone, NAP!Word
<1>10. EmptyList'
  BY <1>8, <1>9 DEF Clear, EmptyList, Link
<1>11. QED BY <1>10, EmptyInv, PTL

-----------------------------------------------------------------------------
(* Head, links and elements.                                                *)

(* What Sound says, by positions.                                           *)
LEMMA SoundFacts ==
  ASSUME FListAssumption, Typed, Held, Sound
  PROVE  /\ items = << >> <=> Len(items) = 0
         /\ flist.head = IF Len(items) = 0 THEN NULL ELSE items[1]
         /\ link[flist.before] = flist.head
         /\ \A i \in 1 .. Len(items) :
              link[items[i]] = IF i = Len(items) THEN NULL ELSE items[i + 1]
<1>1. items \in Seq(Slots) /\ DOMAIN items = 1 .. Len(items)
  BY Facts
<1>2. items = << >> <=> Len(items) = 0
  BY <1>1, EmptySeq
<1>3. items # << >> => Head(items) = items[1]
  BY <1>1
<1>4. flist.head = IF Len(items) = 0 THEN NULL ELSE items[1]
  BY <1>2, <1>3 DEF Sound
<1>5. QED BY <1>1, <1>2, <1>4 DEF Sound

(* The first element is a new node.                                         *)
LEMMA SoundInFront ==
  ASSUME FListAssumption, Typed, Held, Sound, NEW n, n \notin live,
         flist'.head = n, link'[flist'.before] = n, link'[n] = flist.head,
         \A j \in 1 .. Len(items) : link'[items[j]] = link[items[j]],
         items' \in Seq(Slots'), Len(items') = Len(items) + 1, items'[1] = n,
         \A j \in 1 .. Len(items) : items'[j + 1] = items[j]
  PROVE  Sound'
<1>1. Len(items) \in Nat
  BY Facts
<1>2. DOMAIN items' = 1 .. Len(items) + 1 /\ items' # << >>
  BY <1>1, EmptySeq
<1>3. flist'.head = Head(items')
  OBVIOUS
<1>4. ASSUME NEW j \in 1 .. Len(items) + 1
      PROVE  link'[items'[j]] = IF j = Len(items') THEN NULL ELSE items'[j + 1]
  <2>1. CASE j = 1
    BY <1>1, <2>1, SoundFacts
  <2>2. CASE j # 1
    <3> DEFINE m == j - 1
    <3>1. m \in 1 .. Len(items) /\ j = m + 1
      BY <1>1, <2>2
    <3> HIDE DEF m
    <3>2. items'[j] = items[m] /\ link'[items[m]] = link[items[m]]
      BY <3>1
    <3>3. link[items[m]] = IF m = Len(items) THEN NULL ELSE items[m + 1]
      BY <3>1, SoundFacts
    <3>4. CASE m = Len(items)
      BY <1>1, <3>1, <3>2, <3>3, <3>4
    <3>5. CASE m # Len(items)
      <4>1. m + 1 \in 1 .. Len(items)
        BY <1>1, <3>1, <3>5
      <4>2. items'[j + 1] = items[m + 1]
        BY <3>1, <4>1
      <4>3. QED BY <1>1, <3>1, <3>2, <3>3, <3>5, <4>2
    <3>6. QED BY <3>4, <3>5
  <2>3. QED BY <2>1, <2>2
<1>5. QED BY <1>2, <1>3, <1>4 DEF Sound

LEMMA PushFrontSound ==
  FListAssumption /\ Typed /\ Held /\ Sound /\ PushFront => Sound'
<1> SUFFICES ASSUME FListAssumption, Typed, Held, Sound, PushFront PROVE Sound'
  OBVIOUS
<1>1. /\ Sound /\ Alloc
      /\ flist' = [flist EXCEPT !.head = NewNode, !.nmemb = @ + 1]
      /\ link' = [[Memory(pages') EXCEPT ![NewNode] = flist.head]
                     EXCEPT ![flist'.before] = flist'.head]
      /\ items' = <<NewNode>> \o items
  BY DEF PushFront, Sentinel
<1>2. /\ NewNode \notin live /\ NewNode \in Slots' /\ Slots \subseteq Slots'
      /\ Memory(pages') \in [Slots' -> Link]
      /\ \A s \in Slots : Memory(pages')[s] = link[s]
  BY <1>1, AllocEffect
<1>3. flist'.before = flist.before /\ flist'.head = NewNode
  BY <1>1, TypedFacts
<1>4. /\ flist.before \in Slots /\ flist.before # NewNode
      /\ \A j \in 1 .. Len(items) : items[j] \in Slots /\ items[j] # NewNode
                                    /\ items[j] # flist.before
  BY <1>2, Facts
<1>5. /\ link'[flist'.before] = NewNode /\ link'[NewNode] = flist.head
      /\ \A j \in 1 .. Len(items) : link'[items[j]] = link[items[j]]
  BY <1>1, <1>2, <1>3, <1>4
<1>6. /\ items' \in Seq(Slots') /\ Len(items') = Len(items) + 1 /\ items'[1] = NewNode
      /\ \A j \in 1 .. Len(items) : items'[j + 1] = items[j]
  <2>1. items \in Seq(Slots') /\ NewNode \notin ToSet(items)
    BY <1>2, Facts, SeqOver
  <2>2. \A i, j \in DOMAIN items : items[i] = items[j] => i = j
    BY Facts
  <2>3. QED BY <1>1, <1>2, <2>1, <2>2, ChainPush
<1>7. QED BY <1>1, <1>2, <1>3, <1>5, <1>6, SoundInFront

(* insert_after_forward_list after before_begin: the same.                  *)
LEMMA InsertFirstSound ==
  FListAssumption /\ Typed /\ Held /\ Sound /\ InsertAfter(1) => Sound'
<1> SUFFICES ASSUME FListAssumption, Typed, Held, Sound, InsertAfter(1) PROVE Sound'
  OBVIOUS
<1>0. Sound /\ BecomesHead(flist.before)
  BY DEF InsertAfter, Sound, BecomesHead
<1>1. /\ Alloc
      /\ flist' = [flist EXCEPT !.head = NewNode, !.nmemb = @ + 1]
      /\ link' = [[Memory(pages') EXCEPT ![NewNode] = flist.head,
                                         ![flist.before] = NewNode]
                     EXCEPT ![flist'.before] = flist'.head]
      /\ items' = InsertAt(items, 1, NewNode)
  BY <1>0 DEF InsertAfter, Sentinel, Before, BecomesHead
<1>2. /\ NewNode \notin live /\ NewNode \in Slots' /\ Slots \subseteq Slots'
      /\ Memory(pages') \in [Slots' -> Link]
      /\ \A s \in Slots : Memory(pages')[s] = link[s]
  BY <1>1, AllocEffect
<1>3. flist'.before = flist.before /\ flist'.head = NewNode
  BY <1>1, TypedFacts
<1>4. /\ flist.before \in Slots /\ flist.before # NewNode
      /\ \A j \in 1 .. Len(items) : items[j] \in Slots /\ items[j] # NewNode
                                    /\ items[j] # flist.before
  BY <1>2, Facts
<1>5. /\ link'[flist'.before] = NewNode /\ link'[NewNode] = flist.head
      /\ \A j \in 1 .. Len(items) : link'[items[j]] = link[items[j]]
  BY <1>1, <1>2, <1>3, <1>4
<1>6. /\ items' \in Seq(Slots') /\ Len(items') = Len(items) + 1 /\ items'[1] = NewNode
      /\ \A j \in 1 .. Len(items) : items'[j + 1] = items[j]
  <2>1. items \in Seq(Slots') /\ Len(items) \in Nat
    BY <1>2, Facts, SeqOver
  <2>2. 1 \in 1 .. Len(items) + 1
    BY <2>1
  <2>3. /\ items' \in Seq(Slots') /\ Len(items') = Len(items) + 1
        /\ \A j \in 1 .. Len(items) + 1 :
             items'[j] = IF j < 1 THEN items[j] ELSE IF j = 1 THEN NewNode ELSE items[j - 1]
    BY <1>1, <1>2, <2>1, <2>2, InsertShape
  <2>4. ASSUME NEW j \in 1 .. Len(items) PROVE items'[j + 1] = items[j]
    <3>1. j + 1 \in 1 .. Len(items) + 1 /\ j + 1 > 1 /\ j + 1 - 1 = j
      BY <2>1
    <3>2. QED BY <2>3, <3>1
  <2>5. QED BY <2>2, <2>3, <2>4
<1>7. QED BY <1>0, <1>1, <1>2, <1>3, <1>5, <1>6, SoundInFront

(* After an element the head stays: an element's link is never the head.    *)
LEMMA InsertLaterSound ==
  ASSUME FListAssumption, Typed, Held, Sound, NEW i \in 2 .. Len(items) + 1, InsertAfter(i)
  PROVE  Sound'
<1> DEFINE p == items[i - 1]
<1>0. /\ Sound /\ Len(items) \in Nat /\ i - 1 \in 1 .. Len(items) /\ i # 1 /\ i \in Int
      /\ 1 \in 1 .. Len(items)
  BY Facts DEF InsertAfter
<1>1. Before(i) = p
  BY <1>0 DEF Before
<1>2. link[p] = IF i - 1 = Len(items) THEN NULL ELSE items[i]
  <2>1. link[items[i - 1]] = IF i - 1 = Len(items) THEN NULL ELSE items[i - 1 + 1]
    BY <1>0, SoundFacts
  <2>2. i - 1 + 1 = i
    BY <1>0
  <2>3. QED BY <2>1, <2>2
<1>3. flist.head = items[1] /\ flist.head # NULL
  <2>1. flist.head = items[1]
    BY <1>0, SoundFacts
  <2>2. items[1] \in Nat \X Nat
    BY <1>0, Facts
  <2>3. QED BY <2>1, <2>2 DEF FListAssumption
<1>4. ~BecomesHead(p)
  <2>1. i - 1 # Len(items) => i \in DOMAIN items /\ 1 \in DOMAIN items
    BY <1>0, Facts
  <2>2. i - 1 # Len(items) => items[i] # items[1]
    BY <1>0, <2>1, Facts
  <2>3. QED BY <1>2, <1>3, <2>2 DEF BecomesHead
<1>5. /\ Alloc
      /\ flist' = [flist EXCEPT !.head = @, !.nmemb = @ + 1]
      /\ link' = [[Memory(pages') EXCEPT ![NewNode] = link[p], ![p] = NewNode]
                     EXCEPT ![flist'.before] = flist'.head]
      /\ items' = InsertAt(items, i, NewNode)
  BY <1>1, <1>4 DEF InsertAfter, Sentinel
<1>6. /\ NewNode \notin live /\ NewNode \in Slots' /\ Slots \subseteq Slots'
      /\ Memory(pages') \in [Slots' -> Link]
      /\ \A s \in Slots : Memory(pages')[s] = link[s]
  BY <1>5, AllocEffect
<1>7. flist'.before = flist.before /\ flist'.head = items[1]
  BY <1>3, <1>5, TypedFacts
<1>8. /\ flist.before \in Slots /\ flist.before # NewNode
      /\ \A j \in 1 .. Len(items) : items[j] \in Slots /\ items[j] # NewNode
                                    /\ items[j] # flist.before
      /\ \A j \in 1 .. Len(items) : j # i - 1 => items[j] # p
  <2>1. \A j, m \in 1 .. Len(items) : items[j] = items[m] => j = m
    BY Facts
  <2>2. QED BY <1>0, <1>6, <2>1, Facts
<1>9. /\ link'[flist'.before] = items[1]
      /\ link'[NewNode] = IF i - 1 = Len(items) THEN NULL ELSE items[i]
      /\ link'[p] = NewNode
      /\ \A j \in 1 .. Len(items) : j # i - 1 => link'[items[j]] = link[items[j]]
  <2>1. p \in Slots /\ p # NewNode /\ p # flist.before
    BY <1>0, <1>8
  <2> HIDE DEF p
  <2>2. /\ link'[flist.before] = items[1] /\ link'[NewNode] = link[p] /\ link'[p] = NewNode
    BY <1>5, <1>6, <1>7, <1>8, <2>1
  <2>3. ASSUME NEW j \in 1 .. Len(items), j # i - 1
        PROVE  link'[items[j]] = link[items[j]]
    BY <1>5, <1>6, <1>7, <1>8, <2>3
  <2>4. QED BY <1>2, <1>7, <2>2, <2>3
<1>10. /\ items' \in Seq(Slots') /\ Len(items') = Len(items) + 1
       /\ \A j \in 1 .. Len(items) + 1 :
            items'[j] = IF j < i THEN items[j] ELSE IF j = i THEN NewNode ELSE items[j - 1]
  <2>1. items \in Seq(Slots') /\ i \in 1 .. Len(items) + 1 /\ NewNode \in Slots'
    BY <1>0, <1>6, Facts, SeqOver
  <2>2. /\ InsertAt(items, i, NewNode) \in Seq(Slots')
        /\ IsInserted(InsertAt(items, i, NewNode), items, i, NewNode)
    BY <2>1, InsertInserts
  <2>3. items' \in Seq(Slots') /\ IsInserted(items', items, i, NewNode)
    BY <1>5, <2>2
  <2>4. QED BY <2>3 DEF IsInserted
<1>11. /\ DOMAIN items' = 1 .. Len(items) + 1 /\ items' # << >>
       /\ Head(items') = items[1]
  <2>1. DOMAIN items' = 1 .. Len(items) + 1 /\ items' # << >>
    BY <1>0, <1>10, EmptySeq
  <2>2. items'[1] = items[1]
    BY <1>0, <1>10
  <2>3. QED BY <2>1, <2>2, <1>10
<1>12. ASSUME NEW j \in 1 .. Len(items) + 1
       PROVE  link'[items'[j]] = IF j = Len(items') THEN NULL ELSE items'[j + 1]
  <2>1. j \in Int /\ (j # Len(items') => j + 1 \in 1 .. Len(items) + 1)
    BY <1>0, <1>10
  <2>2. CASE j < i - 1
    <3>1. j \in 1 .. Len(items) /\ j # Len(items) /\ j # Len(items') /\ j + 1 < i
      BY <1>0, <1>10, <2>1, <2>2
    <3>2. items'[j] = items[j] /\ items'[j + 1] = items[j + 1]
      BY <1>0, <1>10, <2>1, <3>1
    <3>3. link'[items[j]] = link[items[j]]
      BY <1>9, <2>2, <3>1
    <3>4. QED BY <3>1, <3>2, <3>3, <1>0, SoundFacts
  <2>3. CASE j = i - 1
    <3>1. items'[j] = p /\ items'[j + 1] = NewNode /\ j # Len(items')
      BY <1>0, <1>10, <2>1, <2>3
    <3>2. QED BY <3>1, <1>9
  <2>4. CASE j = i
    <3>1. items'[j] = NewNode
      BY <1>10, <2>4
    <3>2. j # Len(items') => items'[j + 1] = items[i]
      <4>1. j + 1 # i /\ ~(j + 1 < i) /\ j + 1 - 1 = i
        BY <1>0, <2>4
      <4>2. QED BY <1>10, <2>1, <4>1
    <3>3. j = Len(items') <=> i - 1 = Len(items)
      BY <1>0, <1>10, <2>4
    <3>4. QED BY <3>1, <3>2, <3>3, <1>9
  <2>5. CASE j > i
    <3> DEFINE m == j - 1
    <3>1. m \in 1 .. Len(items) /\ m # i - 1 /\ j = m + 1
      BY <1>0, <2>1, <2>5
    <3>2. items'[j] = items[m]
      BY <1>0, <1>10, <2>1, <2>5
    <3>3. j # Len(items') => items'[j + 1] = items[m + 1]
      <4>1. j + 1 # i /\ ~(j + 1 < i) /\ j + 1 - 1 = m + 1
        BY <1>0, <2>1, <2>5
      <4>2. QED BY <1>10, <2>1, <4>1
    <3>4. j = Len(items') <=> m = Len(items)
      BY <1>0, <1>10, <3>1
    <3> HIDE DEF m
    <3>5. link'[items[m]] = IF m = Len(items) THEN NULL ELSE items[m + 1]
      BY <3>1, <1>0, <1>9, SoundFacts
    <3>6. QED BY <3>2, <3>3, <3>4, <3>5
  <2>6. QED BY <2>1, <2>2, <2>3, <2>4, <2>5, <1>0
<1>13. QED BY <1>7, <1>9, <1>11, <1>12 DEF Sound

LEMMA PopFrontSound ==
  FListAssumption /\ Typed /\ Held /\ Sound /\ PopFront => Sound'
<1> SUFFICES ASSUME FListAssumption, Typed, Held, Sound, PopFront PROVE Sound'
  OBVIOUS
<1> DEFINE n == Len(items)
<1>1. /\ Sound /\ flist.nmemb # 0 /\ FreeNode(flist.head)
      /\ flist' = [flist EXCEPT !.head = link[flist.head], !.nmemb = @ - 1]
      /\ link' = Left([link EXCEPT ![flist'.before] = flist'.head])
      /\ items' = Tail(items)
  BY DEF PopFront, Sentinel
<1>2. /\ items \in Seq(Slots) /\ flist.nmemb = n /\ n \in Nat \ {0} /\ 1 \in 1 .. n
      /\ link \in [Slots -> Link] /\ flist.before \in Slots /\ flist.before \in live
      /\ \A j \in 1 .. n : items[j] \in Slots /\ items[j] \in live /\ items[j] # flist.before
      /\ \A i, j \in DOMAIN items : items[i] = items[j] => i = j
      /\ DOMAIN items = 1 .. n /\ items # << >>
  BY <1>1, Facts, EmptySeq
<1>3. flist.head = items[1]
  BY <1>1, <1>2, SoundFacts
<1>4. /\ live' = live \ {items[1]} /\ live' \subseteq Slots' /\ Slots' \subseteq Slots
  BY <1>1, <1>2, <1>3, FreeEffect
<1>5. /\ flist'.before = flist.before
      /\ flist'.head = IF 1 = n THEN NULL ELSE items[2]
  <2>1. flist'.before = flist.before /\ flist'.head = link[items[1]]
    BY <1>3, PopFrontTyped
  <2>2. QED BY <1>1, <1>2, <2>1, SoundFacts
<1>6. /\ link'[flist'.before] = flist'.head
      /\ \A j \in 1 .. n : j # 1 => link'[items[j]] = link[items[j]]
  <2>1. flist.before \in Slots' /\ \A j \in 1 .. n : j # 1 => items[j] \in Slots'
    BY <1>2, <1>4
  <2>2. QED BY <1>1, <1>2, <1>4, <1>5, <2>1 DEF Left, Slots
<1>7. /\ items' \in Seq(Slots) /\ Len(items') = n - 1
      /\ \A j \in 1 .. n - 1 : items'[j] = items[j + 1]
  BY <1>1, <1>2, ChainTail
<1>8. DOMAIN items' = 1 .. n - 1 /\ (items' = << >> <=> n = 1)
      /\ (n # 1 => Head(items') = items[2])
  <2>1. DOMAIN items' = 1 .. n - 1 /\ (items' = << >> <=> n - 1 = 0)
    BY <1>2, <1>7, EmptySeq
  <2>2. n # 1 => 1 \in 1 .. n - 1
    BY <1>2
  <2>3. QED BY <1>2, <1>7, <2>1, <2>2
<1>9. ASSUME NEW j \in 1 .. n - 1
      PROVE  link'[items'[j]] = IF j = Len(items') THEN NULL ELSE items'[j + 1]
  <2> DEFINE m == j + 1
  <2>1. m \in 1 .. n /\ m # 1 /\ items'[j] = items[m] /\ (j = Len(items') <=> m = n)
    BY <1>2, <1>7
  <2>2. j # Len(items') => items'[j + 1] = items[m + 1]
    <3>1. n \in Nat
      BY <1>2
    <3>2. j # n - 1 => j + 1 \in 1 .. n - 1
      BY <3>1
    <3>3. QED BY <1>7, <3>2
  <2> HIDE DEF m
  <2>3. link'[items[m]] = IF m = n THEN NULL ELSE items[m + 1]
    BY <1>1, <1>6, <2>1, SoundFacts
  <2>4. QED BY <2>1, <2>2, <2>3
<1>10. QED BY <1>5, <1>6, <1>8, <1>9 DEF Sound

LEMMA EraseLaterSound ==
  ASSUME FListAssumption, Typed, Held, Sound, NEW k, k # 1, EraseAfter(k)
  PROVE  Sound'
<1> DEFINE n == Len(items)
           p == items[k - 1]
<1>0. k \in DOMAIN items /\ k \in 1 .. Len(items) /\ link[Before(k)] = items[k]
  BY Facts, ErasesElement DEF EraseAfter
<1>1. /\ Sound /\ k \in DOMAIN items /\ FreeNode(items[k])
      /\ flist' = [flist EXCEPT !.nmemb = @ - 1]
      /\ link' = Left([[link EXCEPT ![p] = link[items[k]]]
                         EXCEPT ![flist.before] = flist.head])
      /\ items' = RemoveAt(items, k)
  BY <1>0 DEF EraseAfter, Sentinel, Before
<1>2. /\ items \in Seq(Slots) /\ n \in Nat /\ DOMAIN items = 1 .. n
      /\ link \in [Slots -> Link] /\ flist.before \in Slots /\ flist.before \in live
      /\ \A j \in 1 .. n : items[j] \in Slots /\ items[j] \in live /\ items[j] # flist.before
      /\ \A i, j \in DOMAIN items : items[i] = items[j] => i = j
  BY <1>1, Facts
<1>3. k \in 2 .. n /\ k - 1 \in 1 .. n /\ k \in 1 .. n /\ 1 \in 1 .. n /\ k - 1 # k
  BY <1>1, <1>2
<1>4. /\ live' = live \ {items[k]} /\ live' \subseteq Slots' /\ Slots' \subseteq Slots
  BY <1>1, <1>2, <1>3, FreeEffect
<1>5. flist'.before = flist.before /\ flist'.head = items[1]
  <2>1. flist.head = items[1]
    BY <1>1, <1>2, <1>3, SoundFacts
  <2>2. QED BY <1>1, <2>1, TypedFacts
<1>6. link[items[k]] = IF k = n THEN NULL ELSE items[k + 1]
  BY <1>1, <1>3, SoundFacts
<1>7. /\ link'[flist'.before] = items[1] /\ link'[p] = link[items[k]]
      /\ \A j \in 1 .. n : j # k /\ j # k - 1 => link'[items[j]] = link[items[j]]
  <2>1. flist.before \in Slots' /\ \A j \in 1 .. n : j # k => items[j] \in Slots'
    BY <1>2, <1>3, <1>4
  <2>2. /\ p \in Slots' /\ p \in Slots /\ p # flist.before
        /\ \A j \in 1 .. n : j # k - 1 => items[j] # p
    BY <1>2, <1>3, <2>1
  <2> HIDE DEF p
  <2>3. \A s \in Slots' : link'[s] = IF s = flist.before THEN items[1]
                                     ELSE IF s = p THEN link[items[k]] ELSE link[s]
    BY <1>1, <1>2, <1>4, <1>5 DEF Left, Slots
  <2>4. QED BY <1>2, <1>5, <2>1, <2>2, <2>3
<1>8. /\ items' \in Seq(Slots) /\ Len(items') = n - 1
      /\ \A j \in 1 .. n - 1 : items'[j] = IF j < k THEN items[j] ELSE items[j + 1]
  <2> DEFINE d == RemoveAt(items, k)
  <2>1. items' = d /\ items \in Seq(Slots) /\ k \in 1 .. Len(items)
    BY <1>1, <1>2, <1>3
  <2>2. /\ d \in Seq(Slots) /\ Len(d) = Len(items) - 1
        /\ \A j \in 1 .. Len(items) - 1 :
             d[j] = IF j < k THEN items[j] ELSE items[j + 1]
    BY <2>1, RemoveShape
  <2> HIDE DEF d
  <2>3. QED BY <2>1, <2>2
<1>9. DOMAIN items' = 1 .. n - 1 /\ items' # << >> /\ Head(items') = items[1]
  <2>1. DOMAIN items' = 1 .. n - 1 /\ 1 \in 1 .. n - 1 /\ 1 < k
    BY <1>2, <1>3, <1>8
  <2>2. items' # << >>
    BY <1>8, <2>1, EmptySeq
  <2>3. QED BY <1>8, <2>1, <2>2
<1>10. ASSUME NEW j \in 1 .. n - 1
       PROVE  link'[items'[j]] = IF j = Len(items') THEN NULL ELSE items'[j + 1]
  <2>0. n \in Nat /\ k \in 2 .. n
    BY <1>2, <1>3
  <2>1. j \in Int /\ j \in 1 .. n /\ (j # n - 1 => j + 1 \in 1 .. n - 1)
    BY <2>0
  <2>2. CASE j < k - 1
    <3>1. items'[j] = items[j] /\ j # n - 1 /\ j # n /\ j # k /\ j # k - 1 /\ j + 1 < k
      BY <1>3, <1>8, <2>1, <2>2
    <3>2. items'[j + 1] = items[j + 1]
      BY <1>8, <2>1, <3>1
    <3>3. link'[items[j]] = items[j + 1]
      BY <1>1, <1>7, <2>1, <3>1, SoundFacts
    <3>4. QED BY <1>8, <3>1, <3>2, <3>3
  <2>3. CASE j = k - 1
    <3>1. items'[j] = p /\ (j = n - 1 <=> k = n) /\ j + 1 = k
      BY <1>8, <2>0, <2>3
    <3>2. j # n - 1 => items'[j + 1] = items[k + 1]
      <4>1. ~(j + 1 < k) /\ j + 1 + 1 = k + 1
        BY <1>3, <2>3
      <4>2. QED BY <1>8, <2>1, <4>1
    <3>3. QED BY <1>6, <1>7, <1>8, <3>1, <3>2
  <2>4. CASE j >= k
    <3> DEFINE m == j + 1
    <3>1. m \in 1 .. n /\ m # k /\ m # k - 1 /\ items'[j] = items[m] /\ (j = n - 1 <=> m = n)
      BY <1>8, <2>0, <2>4
    <3>2. j # n - 1 => items'[j + 1] = items[m + 1]
      <4>1. ~(j + 1 < k)
        BY <1>3, <2>1, <2>4
      <4>2. QED BY <1>8, <2>1, <4>1
    <3> HIDE DEF m
    <3>3. link'[items[m]] = IF m = n THEN NULL ELSE items[m + 1]
      BY <1>1, <1>7, <3>1, SoundFacts
    <3>4. QED BY <1>8, <3>1, <3>2, <3>3
  <2>5. QED BY <1>3, <2>1, <2>2, <2>3, <2>4
<1>11. QED BY <1>5, <1>7, <1>9, <1>10 DEF Sound

-----------------------------------------------------------------------------
(* A call after which no element was erased after before_begin was made     *)
(* before one was, and was not one: or it is clear.                         *)
LEMMA StillSound ==
  ASSUME FListAssumption, Typed, Held, Sound, Next, ~EraseAfter(1), ~Clear
  PROVE  Held' /\ Sound'
<1>1. CASE PushFront   BY <1>1, PushFrontHeld, PushFrontSound
<1>2. CASE PopFront    BY <1>2, PopFrontHeld, PopFrontSound
<1>3. CASE \E i \in 1 .. Len(items) + 1 : InsertAfter(i)
  <2>1. PICK i \in 1 .. Len(items) + 1 : InsertAfter(i)
    BY <1>3
  <2>2. i = 1 \/ i \in 2 .. Len(items) + 1
    BY Facts
  <2>3. QED BY <2>1, <2>2, InsertAfterHeld, InsertFirstSound, InsertLaterSound
<1>4. CASE \E i \in 1 .. MaxItems : EraseAfter(i)
  BY <1>4, EraseAfterHeld, EraseLaterSound
<1>5. QED BY <1>1, <1>2, <1>3, <1>4 DEF Next

LEMMA Step == FListAssumption /\ IInv /\ [Next]_vars => IInv'
<1> SUFFICES ASSUME FListAssumption, IInv, [Next]_vars PROVE IInv'
  OBVIOUS
<1>0. Typed
  BY DEF IInv
<1>1. CASE Clear
  BY <1>0, <1>1, ClearInv
<1>2. CASE Next /\ ~Clear
  <2>1. Typed'
    BY <1>0, <1>2, PushFrontTyped, PopFrontTyped, InsertAfterTyped, EraseAfterTyped DEF Next
  <2>2. astray' = 0 => astray = 0 /\ ~EraseAfter(1)
    BY <1>0, <1>2, GoesOnTyped DEF Next, PushFront, PopFront, InsertAfter, EraseAfter
  <2>3. astray' = 0 => Held' /\ Sound'
    BY <1>0, <1>2, <2>2, StillSound DEF IInv
  <2>4. QED BY <2>1, <2>3 DEF IInv
<1>3. CASE UNCHANGED vars
  <2>1. NAP!IInv => NAP!IInv'
    BY <1>3, SameSlots
       DEF vars, NAP!IInv, NAP!TypeOK, NAP!PagesPacked, NAP!SlotsPartitioned,
           NAP!FreeListIntact, NAP!Top, NAP!Slots, NAP!Used
  <2>2. Typed'
    BY <1>0, <1>3 DEF vars, Typed, TypeOK, Slots
  <2>3. Held => Held'
    BY <1>3, <2>1 DEF vars, Held, NodesAreElements
  <2>4. Sound => Sound'
    BY <1>3 DEF vars, Sound
  <2>5. QED BY <1>3, <2>2, <2>3, <2>4 DEF vars, IInv
<1>4. QED BY <1>1, <1>2, <1>3

(* After any sequence of calls the list keeps its types; unless an element  *)
(* was erased after before_begin and the list not cleared since, it holds   *)
(* every node of an element and the sentinel's, and no other slot.          *)
THEOREM FListHoldsItsNodes ==
  ASSUME FListAssumption
  PROVE  Spec => []FListSafe
<1>1. Init => IInv                   BY InitInv
<1>2. IInv /\ [Next]_vars => IInv'   BY Step
<1>3. IInv => FListSafe              BY DEF IInv, Typed, Held, FListSafe
<1>4. QED BY <1>1, <1>2, <1>3, PTL DEF Spec

(* With the same exception, iterating a forward list meets its elements in  *)
(* the client's order: whatever a recycled slot or a slot that clear left   *)
(* behind held before.                                                      *)
THEOREM FListKeepsOrder ==
  ASSUME FListAssumption
  PROVE  Spec => []FListIsSequence
<1>1. Init => IInv                   BY InitInv
<1>2. IInv /\ [Next]_vars => IInv'   BY Step
<1>3. IInv => FListIsSequence        BY DEF IInv, FListIsSequence
<1>4. QED BY <1>1, <1>2, <1>3, PTL DEF Spec
=============================================================================
