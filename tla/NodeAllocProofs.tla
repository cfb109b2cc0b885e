-------------------------- MODULE NodeAllocProofs --------------------------
(***************************************************************************)
(* Proofs about NodeAlloc for every first page size, page bound and client  *)
(* data.                                                                    *)
(***************************************************************************)
EXTENDS NodeAlloc, ListLemmas, TLAPS

(* The inductive invariant.  No conjunct of it is inductive alone: freeing  *)
(* at the cursor keeps the partition only because the pages are packed, a   *)
(* recycled slot leaves the list only because the chain has no duplicates.  *)
IInv == TypeOK /\ PagesPacked /\ SlotsPartitioned /\ FreeListIntact

PageRec == [cursor : Nat, max : Nat \ {0}]

-----------------------------------------------------------------------------
(* Pages and their slots.                                                   *)

LEMMA PageTyped ==
  ASSUME NEW pgs \in Seq(PageRec), NEW p \in 1 .. Len(pgs)
  PROVE  /\ pgs[p] \in PageRec
         /\ pgs[p].cursor \in Nat
         /\ pgs[p].max \in Nat \ {0}
<1>1. pgs[p] \in PageRec
  OBVIOUS
<1>2. QED BY <1>1 DEF PageRec

(* Slots(pgs) by coordinates.                                               *)
LEMMA SlotsMember ==
  ASSUME NEW pgs \in Seq(PageRec), NEW s
  PROVE  s \in Slots(pgs) <=> \E p \in 1 .. Len(pgs), i \in Nat :
                                 s = <<p, i>> /\ i < pgs[p].max
<1>1. s \in Slots(pgs) <=> \E p \in 1 .. Len(pgs) : s \in {p} \X (0 .. pgs[p].max - 1)
  BY DOMAIN pgs = 1 .. Len(pgs) DEF Slots
<1>2. ASSUME NEW p \in 1 .. Len(pgs)
      PROVE  s \in {p} \X (0 .. pgs[p].max - 1)
               <=> \E i \in Nat : s = <<p, i>> /\ i < pgs[p].max
  BY PageTyped
<1>3. QED BY <1>1, <1>2

(* Used(pgs) by coordinates.                                                *)
LEMMA UsedMember ==
  ASSUME NEW pgs \in Seq(PageRec), NEW s
  PROVE  s \in Used(pgs) <=> \E p \in 1 .. Len(pgs), i \in Nat :
                                s = <<p, i>> /\ i < pgs[p].cursor
<1>1. s \in Used(pgs) <=> \E p \in 1 .. Len(pgs) : s \in {p} \X (0 .. pgs[p].cursor - 1)
  BY DOMAIN pgs = 1 .. Len(pgs) DEF Used
<1>2. ASSUME NEW p \in 1 .. Len(pgs)
      PROVE  s \in {p} \X (0 .. pgs[p].cursor - 1)
               <=> \E i \in Nat : s = <<p, i>> /\ i < pgs[p].cursor
  BY PageTyped
<1>3. QED BY <1>1, <1>2

(* Nothing is handed out beyond the end of a page.                          *)
LEMMA UsedInSlots ==
  ASSUME NEW pgs \in Seq(PageRec),
         \A p \in 1 .. Len(pgs) : pgs[p].cursor <= pgs[p].max
  PROVE  Used(pgs) \subseteq Slots(pgs)
<1>1. \A p \in 1 .. Len(pgs) : pgs[p].cursor \in Nat /\ pgs[p].max \in Nat
  BY PageTyped
<1> SUFFICES ASSUME NEW s \in Used(pgs) PROVE s \in Slots(pgs)
  OBVIOUS
<1>2. PICK p \in 1 .. Len(pgs), i \in Nat : s = <<p, i>> /\ i < pgs[p].cursor
  BY UsedMember
<1>3. i < pgs[p].max
  BY <1>1, <1>2
<1>4. QED BY <1>2, <1>3, SlotsMember

(* Moving the top page's cursor from c to c + 1 uses exactly slot c.        *)
LEMMA CursorUp ==
  ASSUME NEW pgs \in Seq(PageRec), pgs # << >>,
         NEW new, new = [pgs EXCEPT ![Len(pgs)].cursor = @ + 1]
  PROVE  LET c == pgs[Len(pgs)].cursor
         IN  /\ new \in Seq(PageRec) /\ Len(new) = Len(pgs)
             /\ \A p \in 1 .. Len(pgs) :
                  /\ new[p].max = pgs[p].max
                  /\ new[p].cursor = IF p = Len(pgs) THEN c + 1 ELSE pgs[p].cursor
             /\ <<Len(pgs), c>> \notin Used(pgs)
             /\ Used(new) = Used(pgs) \union {<<Len(pgs), c>>}
             /\ Slots(new) = Slots(pgs)
<1> DEFINE n == Len(pgs)
           c == pgs[n].cursor
<1>1. n \in Nat \ {0} /\ n \in 1 .. Len(pgs)
  BY EmptySeq
<1>2. pgs[n] \in PageRec /\ c \in Nat
  BY <1>1, PageTyped
<1>3. [pgs[n] EXCEPT !.cursor = c + 1] \in PageRec
  BY <1>2 DEF PageRec
<1>4. new = [pgs EXCEPT ![n] = [pgs[n] EXCEPT !.cursor = c + 1]]
  OBVIOUS
<1>5. new \in Seq(PageRec) /\ Len(new) = n
  BY <1>1, <1>3, <1>4, ExceptSeq
<1>6. \A p \in 1 .. n : new[p] = IF p = n THEN [pgs[n] EXCEPT !.cursor = c + 1] ELSE pgs[p]
  BY <1>4
<1>7. \A p \in 1 .. n : /\ new[p].max = pgs[p].max
                        /\ new[p].cursor = IF p = n THEN c + 1 ELSE pgs[p].cursor
  BY <1>2, <1>6 DEF PageRec
<1>8. <<n, c>> \notin Used(pgs)
  BY <1>2, UsedMember
<1>9. ASSUME NEW s PROVE s \in Used(new) <=> s \in Used(pgs) \union {<<n, c>>}
  <2>1. s \in Used(new) <=> \E p \in 1 .. n, i \in Nat : s = <<p, i>> /\ i < new[p].cursor
    BY <1>5, UsedMember
  <2>2. s \in Used(pgs) <=> \E p \in 1 .. n, i \in Nat : s = <<p, i>> /\ i < pgs[p].cursor
    BY UsedMember
  <2>3. s = <<n, c>> <=> \E p \in 1 .. n, i \in Nat : s = <<p, i>> /\ p = n /\ i = c
    BY <1>1, <1>2
  <2>4. \A p \in 1 .. n, i \in Nat :
          i < new[p].cursor <=> i < pgs[p].cursor \/ (p = n /\ i = c)
    BY <1>2, <1>7
  <2>5. QED BY <2>1, <2>2, <2>3, <2>4
<1>10. ASSUME NEW s PROVE s \in Slots(new) <=> s \in Slots(pgs)
  <2>1. s \in Slots(new) <=> \E p \in 1 .. n, i \in Nat : s = <<p, i>> /\ i < new[p].max
    BY <1>5, SlotsMember
  <2>2. s \in Slots(pgs) <=> \E p \in 1 .. n, i \in Nat : s = <<p, i>> /\ i < pgs[p].max
    BY SlotsMember
  <2>3. QED BY <2>1, <2>2, <1>7
<1>11. QED BY <1>5, <1>7, <1>8, <1>9, <1>10

(* Moving it back from c to c - 1 gives up exactly slot c - 1.              *)
LEMMA CursorDown ==
  ASSUME NEW pgs \in Seq(PageRec), pgs # << >>,
         pgs[Len(pgs)].cursor > 0,
         NEW new, new = [pgs EXCEPT ![Len(pgs)].cursor = @ - 1]
  PROVE  LET c == pgs[Len(pgs)].cursor
         IN  /\ new \in Seq(PageRec) /\ Len(new) = Len(pgs)
             /\ \A p \in 1 .. Len(pgs) :
                  /\ new[p].max = pgs[p].max
                  /\ new[p].cursor = IF p = Len(pgs) THEN c - 1 ELSE pgs[p].cursor
             /\ Used(new) = Used(pgs) \ {<<Len(pgs), c - 1>>}
             /\ Slots(new) = Slots(pgs)
<1> DEFINE n == Len(pgs)
           c == pgs[n].cursor
<1>1. n \in Nat \ {0} /\ n \in 1 .. Len(pgs)
  BY EmptySeq
<1>2. pgs[n] \in PageRec /\ c \in Nat /\ c - 1 \in Nat
  BY <1>1, PageTyped
<1>3. [pgs[n] EXCEPT !.cursor = c - 1] \in PageRec
  BY <1>2 DEF PageRec
<1>4. new = [pgs EXCEPT ![n] = [pgs[n] EXCEPT !.cursor = c - 1]]
  OBVIOUS
<1>5. new \in Seq(PageRec) /\ Len(new) = n
  BY <1>1, <1>3, <1>4, ExceptSeq
<1>6. \A p \in 1 .. n : new[p] = IF p = n THEN [pgs[n] EXCEPT !.cursor = c - 1] ELSE pgs[p]
  BY <1>4
<1>7. \A p \in 1 .. n : /\ new[p].max = pgs[p].max
                        /\ new[p].cursor = IF p = n THEN c - 1 ELSE pgs[p].cursor
  BY <1>2, <1>6 DEF PageRec
<1>8. ASSUME NEW s PROVE s \in Used(new) <=> s \in Used(pgs) \ {<<n, c - 1>>}
  <2>1. s \in Used(new) <=> \E p \in 1 .. n, i \in Nat : s = <<p, i>> /\ i < new[p].cursor
    BY <1>5, UsedMember
  <2>2. s \in Used(pgs) <=> \E p \in 1 .. n, i \in Nat : s = <<p, i>> /\ i < pgs[p].cursor
    BY UsedMember
  <2>3. \A p \in 1 .. n, i \in Nat :
          i < new[p].cursor <=> i < pgs[p].cursor /\ ~(p = n /\ i = c - 1)
    BY <1>2, <1>7
  <2>4. \A p \in 1 .. n, i \in Nat : <<p, i>> = <<n, c - 1>> <=> p = n /\ i = c - 1
    OBVIOUS
  <2>5. QED BY <2>1, <2>2, <2>3, <2>4
<1>9. ASSUME NEW s PROVE s \in Slots(new) <=> s \in Slots(pgs)
  <2>1. s \in Slots(new) <=> \E p \in 1 .. n, i \in Nat : s = <<p, i>> /\ i < new[p].max
    BY <1>5, SlotsMember
  <2>2. s \in Slots(pgs) <=> \E p \in 1 .. n, i \in Nat : s = <<p, i>> /\ i < pgs[p].max
    BY SlotsMember
  <2>3. QED BY <2>1, <2>2, <1>7
<1>10. QED BY <1>5, <1>7, <1>8, <1>9

(* A new page on top adds its own slots and no other, one of them in use.   *)
LEMMA PagePushed ==
  ASSUME NEW pgs \in Seq(PageRec), NEW page \in PageRec, page.cursor = 1
  PROVE  LET new == Append(pgs, page)
         IN  /\ new \in Seq(PageRec) /\ Len(new) = Len(pgs) + 1
             /\ \A p \in 1 .. Len(pgs) : new[p] = pgs[p]
             /\ new[Len(pgs) + 1] = page
             /\ <<Len(pgs) + 1, 0>> \notin Slots(pgs)
             /\ Used(new) = Used(pgs) \union {<<Len(pgs) + 1, 0>>}
             /\ Slots(new) = Slots(pgs) \union ({Len(pgs) + 1} \X (0 .. page.max - 1))
<1> DEFINE n == Len(pgs) + 1
           new == Append(pgs, page)
<1>1. page.max \in Nat \ {0}
  BY DEF PageRec
<1>2. Len(pgs) \in Nat
  BY LenProperties
<1>3. /\ new \in Seq(PageRec) /\ Len(new) = n
      /\ \A p \in 1 .. Len(pgs) : new[p] = pgs[p]
      /\ new[n] = page
  BY AppendProperties
<1> HIDE DEF new
<1>4. new[n].cursor = 1 /\ new[n].max = page.max
  BY <1>3
<1>5. <<n, 0>> \notin Slots(pgs)
  BY <1>2, SlotsMember
<1>6. ASSUME NEW s PROVE s \in Used(new) <=> s \in Used(pgs) \union {<<n, 0>>}
  <2>0. new \in Seq(PageRec) /\ Len(new) = n
    BY <1>3
  <2>1. s \in Used(new) <=> \E p \in 1 .. n, i \in Nat : s = <<p, i>> /\ i < new[p].cursor
    BY <2>0, UsedMember, Zenon
  <2>2. s \in Used(pgs) <=> \E p \in 1 .. Len(pgs), i \in Nat :
                              s = <<p, i>> /\ i < new[p].cursor
    BY <1>3, UsedMember
  <2>3. s = <<n, 0>> <=> \E i \in Nat : s = <<n, i>> /\ i < new[n].cursor
    BY <1>4
  <2>4. 1 .. n = (1 .. Len(pgs)) \union {n}
    BY <1>2
  <2>5. QED BY <2>1, <2>2, <2>3, <2>4
<1>7. ASSUME NEW s
      PROVE  s \in Slots(new) <=> s \in Slots(pgs) \union ({n} \X (0 .. page.max - 1))
  <2>0. new \in Seq(PageRec) /\ Len(new) = n
    BY <1>3
  <2>1. s \in Slots(new) <=> \E p \in 1 .. n, i \in Nat : s = <<p, i>> /\ i < new[p].max
    BY <2>0, SlotsMember, Zenon
  <2>2. s \in Slots(pgs) <=> \E p \in 1 .. Len(pgs), i \in Nat :
                               s = <<p, i>> /\ i < new[p].max
    BY <1>3, SlotsMember
  <2>3. s \in {n} \X (0 .. page.max - 1) <=> \E i \in Nat : s = <<n, i>> /\ i < new[n].max
    BY <1>1, <1>4
  <2>4. 1 .. n = (1 .. Len(pgs)) \union {n}
    BY <1>2
  <2>5. QED BY <2>1, <2>2, <2>3, <2>4
<1>8. QED BY <1>3, <1>4, <1>5, <1>6, <1>7 DEF new

(* Dropping a top page whose only used slot is its first gives up that slot *)
(* and no other that is in use.                                             *)
LEMMA PagePopped ==
  ASSUME NEW pgs \in Seq(PageRec), Len(pgs) > 1,
         pgs[Len(pgs)].cursor = 1,
         NEW new, new = Front(pgs)
  PROVE  LET n == Len(pgs)
         IN  /\ new \in Seq(PageRec) /\ Len(new) = n - 1
             /\ \A p \in 1 .. n - 1 : new[p] = pgs[p]
             /\ Used(new) = Used(pgs) \ {<<n, 0>>}
             /\ Slots(new) \subseteq Slots(pgs)
<1> DEFINE n == Len(pgs)
<1>1. n \in Nat
  BY LenProperties
<1>2. \A p \in 1 .. n - 1 : pgs[p] \in PageRec
  BY <1>1
<1>3. new = SubSeq(pgs, 1, n - 1)
  BY DEF Front
<1>4. new \in Seq(PageRec) /\ Len(new) = n - 1 /\ \A p \in 1 .. n - 1 : new[p] = pgs[p]
  BY <1>1, <1>2, <1>3, SubSeqProperties
<1>5. 1 .. n = (1 .. n - 1) \union {n}
  BY <1>1
<1>6. ASSUME NEW s PROVE s \in Used(new) <=> s \in Used(pgs) \ {<<n, 0>>}
  <2>1. s \in Used(new) <=> \E p \in 1 .. n - 1, i \in Nat :
                              s = <<p, i>> /\ i < pgs[p].cursor
    <3>1. new \in Seq(PageRec)
      BY <1>4
    <3>2. s \in Used(new) <=> \E p \in 1 .. Len(new), i \in Nat :
                                s = <<p, i>> /\ i < new[p].cursor
      BY <3>1, UsedMember, Zenon
    <3>3. QED BY <3>2, <1>4
  <2>2. s \in Used(pgs) <=> \E p \in 1 .. n, i \in Nat : s = <<p, i>> /\ i < pgs[p].cursor
    BY UsedMember
  <2>3. s = <<n, 0>> <=> \E i \in Nat : s = <<n, i>> /\ i < pgs[n].cursor
    OBVIOUS
  <2>4. \A p \in 1 .. n - 1, i \in Nat : <<p, i>> # <<n, 0>>
    BY <1>1
  <2>5. QED BY <2>1, <2>2, <2>3, <2>4, <1>5
<1>7. ASSUME NEW s \in Slots(new) PROVE s \in Slots(pgs)
  <2>1. new \in Seq(PageRec)
    BY <1>4
  <2>2. \E p \in 1 .. Len(new), i \in Nat : s = <<p, i>> /\ i < new[p].max
    BY <2>1, <1>7, SlotsMember, Zenon
  <2>3. PICK p \in 1 .. n - 1, i \in Nat : s = <<p, i>> /\ i < new[p].max
    BY <2>2, <1>4
  <2>4. new[p] = pgs[p] /\ p \in 1 .. n
    BY <1>4, <1>5, <2>3
  <2>5. \E q \in 1 .. Len(pgs), j \in Nat : s = <<q, j>> /\ j < pgs[q].max
    BY <2>3, <2>4
  <2>6. QED BY <2>5, SlotsMember, Zenon
<1>8. QED BY <1>4, <1>6, <1>7

-----------------------------------------------------------------------------
(* Facts of the invariant in the form the steps use.                        *)
LEMMA Facts ==
  ASSUME IInv
  PROVE  /\ pages \in Seq(PageRec) /\ Top \in Nat /\ DOMAIN pages = 1 .. Top
         /\ pages # << >> => Top \in 1 .. Top
         /\ live \subseteq Slots(pages)
         /\ ToSet(chain) \subseteq Slots(pages)
         /\ DOMAIN chain = 1 .. Len(chain)
         /\ blocks \in ToSet(chain) \union {NULL} \/ pages = << >>
         /\ \A s \in Slots(pages) : s \in Nat \X Nat
<1>1. pages \in Seq(PageRec)
  BY DEF IInv, TypeOK, PageRec
<1>2. Top \in Nat /\ DOMAIN pages = 1 .. Top
  BY <1>1, LenProperties DEF Top
<1>3. pages # << >> => Top \in 1 .. Top
  BY <1>1, EmptySeq DEF Top
<1>4. Used(pages) \subseteq Slots(pages)
  BY <1>1, <1>2, UsedInSlots DEF IInv, PagesPacked, Top
<1>5. live \subseteq Slots(pages) /\ ToSet(chain) \subseteq Slots(pages)
  BY <1>4 DEF IInv, SlotsPartitioned
<1>6. DOMAIN chain = 1 .. Len(chain) /\ Len(chain) \in Nat
  BY LenProperties DEF IInv, TypeOK
<1>7. blocks \in ToSet(chain) \union {NULL} \/ pages = << >>
  <2>1. CASE chain = << >>
    BY <2>1 DEF IInv, FreeListIntact
  <2>2. CASE chain # << >>
    <3>1. 1 \in DOMAIN chain
      BY <2>2, EmptySeq, <1>6 DEF IInv, TypeOK
    <3>2. QED BY <2>2, <3>1 DEF IInv, FreeListIntact, ToSet
  <2>3. QED BY <2>1, <2>2
<1>8. ASSUME NEW s \in Slots(pages) PROVE s \in Nat \X Nat
  BY <1>1, SlotsMember
<1>9. QED BY <1>1, <1>2, <1>3, <1>5, <1>6, <1>7, <1>8

-----------------------------------------------------------------------------
(* The invariant holds initially and is preserved, one lemma per action.    *)

(* What both Init and Create establish.                                     *)
LEMMA FreshInv ==
  /\ FirstPage \in Seq(PageRec) /\ Len(FirstPage) = 1 /\ FirstPage # << >>
  /\ FirstPage[1].cursor = 0 /\ FirstPage[1].max = InitMax
  /\ Used(FirstPage) = {}
  /\ Slots(FirstPage) = {1} \X (0 .. InitMax - 1)
  /\ ZeroedPage(1, InitMax) \in [Slots(FirstPage) -> Word]
<1>1. /\ FirstPage \in Seq(PageRec) /\ Len(FirstPage) = 1 /\ FirstPage # << >>
      /\ FirstPage[1].cursor = 0 /\ FirstPage[1].max = InitMax
  BY InitMaxAssumption DEF FirstPage, PageRec
<1>2. ASSUME NEW s PROVE s \notin Used(FirstPage)
  BY <1>1, UsedMember
<1>3. ASSUME NEW s PROVE s \in Slots(FirstPage) <=> s \in {1} \X (0 .. InitMax - 1)
  BY <1>1, SlotsMember, InitMaxAssumption
<1>4. ZeroedPage(1, InitMax) \in [{1} \X (0 .. InitMax - 1) -> Word]
  BY DEF ZeroedPage, Word
<1>5. QED BY <1>1, <1>2, <1>3, <1>4

LEMMA InitInv == Init => IInv
<1> SUFFICES ASSUME Init PROVE IInv
  OBVIOUS
<1>1. chain = << >> /\ Len(chain) = 0 /\ DOMAIN chain = {} /\ ToSet(chain) = {}
  BY DEF Init, ToSet
<1>2. TypeOK
  BY FreshInv, <1>1 DEF Init, TypeOK, PageRec
<1>3. PagesPacked
  BY FreshInv, InitMaxAssumption DEF Init, PagesPacked, Top
<1>4. SlotsPartitioned
  BY FreshInv, <1>1 DEF Init, SlotsPartitioned
<1>5. FreeListIntact
  BY <1>1 DEF Init, FreeListIntact
<1>6. QED BY <1>2, <1>3, <1>4, <1>5 DEF IInv

LEMMA AllocRecycledInv == IInv /\ AllocRecycled => IInv'
<1> SUFFICES ASSUME IInv, AllocRecycled PROVE IInv'
  OBVIOUS
<1>0. held' \in Int
  BY DEF IInv, TypeOK, AllocRecycled
<1> USE Facts
<1>1. chain # << >> /\ blocks = chain[1]
  BY DEF IInv, FreeListIntact, AllocRecycled
<1>2. chain \in Seq(Nat \X Nat) /\ Len(chain) \in Nat \ {0} /\ 1 \in DOMAIN chain
  BY <1>1, EmptySeq DEF IInv, TypeOK
<1>3. chain[1] \in ToSet(chain) /\ chain' = Tail(chain)
  BY <1>1, <1>2 DEF ToSet, AllocRecycled, AfterFirst
<1>4. /\ chain' \in Seq(Nat \X Nat)
      /\ Len(chain') = Len(chain) - 1
      /\ \A i \in 1 .. Len(chain) - 1 : chain'[i] = chain[i + 1]
      /\ ToSet(chain') = ToSet(chain) \ {chain[1]}
      /\ \A i, j \in DOMAIN chain' : chain'[i] = chain'[j] => i = j
  BY <1>1, <1>2, <1>3, ChainTail DEF IInv, SlotsPartitioned
<1>5. pages' = pages /\ word' = word /\ Slots(pages') = Slots(pages)
      /\ live' = live \union {chain[1]}
  BY <1>1 DEF NextFree, AllocRecycled
<1>6. Linked(NULL, blocks', word', chain')
  <2>1. Linked(NULL, blocks, word, chain)
    BY DEF IInv, FreeListIntact, AllocRecycled, Linked
  <2>2. Linked(NULL, word[blocks], word, Tail(chain))
    BY <1>1, <1>2, <2>1, LinkedTail DEF IInv, SlotsPartitioned
  <2>3. QED BY <1>3, <2>2 DEF NextFree, AllocRecycled
<1>7. TypeOK'
  <2>1. blocks' \in (Nat \X Nat) \union {NULL}
    <3>1. blocks' = IF chain' = << >> THEN NULL ELSE chain'[1]
      BY <1>6 DEF Linked
    <3>2. chain' # << >> => 1 \in 1 .. Len(chain')
      BY <1>4, EmptySeq
    <3>3. QED BY <3>1, <3>2, <1>4
  <2>2. QED BY <1>0, <1>2, <1>3, <1>4, <1>5, <2>1 DEF IInv, TypeOK
<1>8. PagesPacked'
  BY <1>5 DEF IInv, PagesPacked, Top
<1>9. SlotsPartitioned'
  BY <1>3, <1>4, <1>5 DEF IInv, SlotsPartitioned
<1>10. FreeListIntact'
  BY <1>6 DEF FreeListIntact, Linked
<1>11. QED BY <1>7, <1>8, <1>9, <1>10 DEF IInv

LEMMA AllocCursorInv == IInv /\ AllocCursor => IInv'
<1> SUFFICES ASSUME IInv, AllocCursor PROVE IInv'
  OBVIOUS
<1>0. held' \in Int
  BY DEF IInv, TypeOK, AllocCursor
<1> USE Facts
<1> DEFINE s == <<Top, pages[Top].cursor>>
<1>1. pages # << >> /\ pages' = [pages EXCEPT ![Len(pages)].cursor = @ + 1]
      /\ live' = live \union {s} /\ UNCHANGED <<blocks, word, chain>>
  BY DEF AllocCursor, TopFull, Top
<1>2. LET c == pages[Top].cursor
      IN  /\ pages' \in Seq(PageRec) /\ Top' = Top
          /\ \A p \in 1 .. Top :
               /\ pages'[p].max = pages[p].max
               /\ pages'[p].cursor = IF p = Top THEN c + 1 ELSE pages[p].cursor
          /\ s \notin Used(pages)
          /\ Used(pages') = Used(pages) \union {s}
          /\ Slots(pages') = Slots(pages)
  BY <1>1, CursorUp DEF Top
<1>3. pages[Top].cursor \in Nat /\ pages[Top].max \in Nat
  BY <1>1, PageTyped DEF Top
<1>4. TypeOK'
  <2>1. live' \subseteq Nat \X Nat
    BY SMTT(30), <1>1, <1>3 DEF IInv, TypeOK
  <2>2. QED BY <1>0, <1>1, <1>2, <2>1 DEF IInv, TypeOK, PageRec
<1>5. PagesPacked'
  <2>1. DOMAIN pages' = 1 .. Top
    BY <1>2, LenProperties DEF Top
  <2>2. \A p \in 1 .. Top : p < Top => p # Top
    OBVIOUS
  <2>3. QED BY <1>2, <1>3, <2>1, <2>2 DEF IInv, PagesPacked, AllocCursor, TopFull
<1>6. SlotsPartitioned'
  BY <1>1, <1>2 DEF IInv, SlotsPartitioned
<1>7. FreeListIntact'
  BY <1>1 DEF IInv, FreeListIntact
<1>8. QED BY <1>4, <1>5, <1>6, <1>7 DEF IInv

LEMMA AllocNewPageInv == IInv /\ AllocNewPage => IInv'
<1> SUFFICES ASSUME IInv, AllocNewPage PROVE IInv'
  OBVIOUS
<1>0. held' \in Int
  BY DEF IInv, TypeOK, AllocNewPage
<1> USE Facts
<1> DEFINE n == Top + 1
           nmemb == growth_policy(pages[Top].max)
           s == <<n, 0>>
<1>1. /\ pages # << >> /\ pages' = Append(pages, [cursor |-> 1, max |-> nmemb])
      /\ word' = [t \in Slots(pages') |->
                    IF t \in DOMAIN word THEN word[t] ELSE ZeroedPage(n, nmemb)[t]]
      /\ live' = live \union {s} /\ UNCHANGED <<blocks, chain>>
  BY DEF AllocNewPage, TopFull
<1>2. nmemb \in Nat \ {0}
  BY <1>1, PageTyped DEF Top, growth_policy
<1> HIDE DEF nmemb
<1>3. /\ pages' \in Seq(PageRec) /\ Top' = n
      /\ \A p \in 1 .. Top : pages'[p] = pages[p]
      /\ pages'[n].cursor = 1 /\ pages'[n].max = nmemb
      /\ s \notin Slots(pages)
      /\ Used(pages') = Used(pages) \union {s}
      /\ Slots(pages') = Slots(pages) \union ({n} \X (0 .. nmemb - 1))
  <2>1. pages \in Seq(PageRec)
    OBVIOUS
  <2> HIDE Facts
  <2> DEFINE page == [cursor |-> 1, max |-> nmemb]
  <2>2. page \in PageRec /\ page.cursor = 1 /\ page.max = nmemb /\ pages' = Append(pages, page)
    BY <1>1, <1>2 DEF PageRec
  <2> HIDE DEF page
  <2>3. LET new == Append(pages, page)
        IN  /\ new \in Seq(PageRec) /\ Len(new) = Len(pages) + 1
            /\ \A p \in 1 .. Len(pages) : new[p] = pages[p]
            /\ new[Len(pages) + 1] = page
            /\ <<Len(pages) + 1, 0>> \notin Slots(pages)
            /\ Used(new) = Used(pages) \union {<<Len(pages) + 1, 0>>}
            /\ Slots(new) = Slots(pages) \union ({Len(pages) + 1} \X (0 .. page.max - 1))
    BY <2>1, <2>2, PagePushed, Zenon
  <2>4. QED BY <2>2, <2>3 DEF Top
<1>4. DOMAIN word = Slots(pages) /\ \A t \in Slots(pages) : word'[t] = word[t]
  BY <1>1, <1>3 DEF IInv, TypeOK
<1>5. TypeOK'
  <2>1. word' \in [Slots(pages') -> Word]
    <3>1. \A t \in {n} \X (0 .. nmemb - 1) : ZeroedPage(n, nmemb)[t] \in Word
      BY DEF ZeroedPage, Word
    <3>2. \A t \in DOMAIN word : word[t] \in Word
      BY DEF IInv, TypeOK
    <3>3. QED BY <1>1, <1>3, <1>4, <3>1, <3>2
  <2>2. live' \subseteq Nat \X Nat
    BY <1>1 DEF IInv, TypeOK
  <2>3. QED BY <1>0, <1>1, <1>3, <2>1, <2>2 DEF IInv, TypeOK, PageRec
<1>6. PagesPacked'
  <2>1. DOMAIN pages' = (1 .. Top) \union {n}
    BY <1>3, LenProperties DEF Top
  <2>2. \A p \in 1 .. Top : pages[p].cursor \in Nat /\ pages[p].max \in Nat
    BY PageTyped DEF Top
  <2>3. pages[Top].cursor = pages[Top].max
    BY <1>1, <2>2 DEF IInv, PagesPacked, AllocNewPage, TopFull
  <2>4. \A p \in 1 .. Top : p < Top \/ p = Top
    OBVIOUS
  <2>5. QED BY <1>2, <1>3, <2>1, <2>2, <2>3, <2>4 DEF IInv, PagesPacked
<1>7. SlotsPartitioned'
  <2>1. s \notin live /\ s \notin ToSet(chain)
    BY <1>3
  <2>2. live \union ToSet(chain) = Used(pages) /\ live \intersect ToSet(chain) = {}
    BY DEF IInv, SlotsPartitioned
  <2>3. live' \union ToSet(chain') = Used(pages') /\ live' \intersect ToSet(chain') = {}
    BY <1>1, <1>3, <2>1, <2>2
  <2>4. \A i, j \in DOMAIN chain' : chain'[i] = chain'[j] => i = j
    BY <1>1 DEF IInv, SlotsPartitioned
  <2>5. QED BY <2>3, <2>4 DEF SlotsPartitioned
<1>8. FreeListIntact'
  BY <1>1, <1>3, <1>4 DEF IInv, FreeListIntact, ToSet
<1>9. QED BY <1>5, <1>6, <1>7, <1>8 DEF IInv

(* The list survives any change of the memory that leaves its slots alone.  *)
LEMMA FreeAtCursorInv == IInv /\ (\E s \in live : FreeAtCursor(s)) => IInv'
<1> SUFFICES ASSUME IInv, NEW s \in live, FreeAtCursor(s) PROVE IInv'
  OBVIOUS
<1>0. held' \in Int
  BY DEF IInv, TypeOK, FreeAtCursor
<1> USE Facts
<1> DEFINE c == pages[Top].cursor
<1>1. /\ s = <<Top, c - 1>> /\ word' = Kept(pages')
      /\ live' = live \ {s} /\ UNCHANGED <<blocks, chain>>
  BY DEF FreeAtCursor, TopEmptied, AtCursor
<1>2. s \in Used(pages)
  BY DEF IInv, SlotsPartitioned
<1>3. PICK p \in 1 .. Top, n \in Nat : s = <<p, n>> /\ n < pages[p].cursor
  BY <1>2, UsedMember DEF Top
<1>4. pages # << >> /\ Top \in 1 .. Top /\ c \in Nat /\ c > 0
  <2>1. 1 .. Top # {}
    BY <1>3
  <2>2. pages # << >>
    BY <2>1, EmptySeq DEF Top
  <2>3. c \in Nat
    BY <2>2, PageTyped DEF Top
  <2>4. QED BY <1>1, <1>3, <2>2, <2>3
<1>5. /\ pages' \in Seq(PageRec)
      /\ Used(pages') = Used(pages) \ {s}
      /\ Slots(pages') \subseteq Slots(pages)
      /\ PagesPacked'
  <2>1. CASE c - 1 = 0 /\ Top > 1
    <3>1. pages' = Front(pages)
      BY <2>1 DEF FreeAtCursor, TopEmptied
    <3>2. /\ pages' \in Seq(PageRec) /\ Top' = Top - 1
          /\ \A q \in 1 .. Top - 1 : pages'[q] = pages[q]
          /\ Used(pages') = Used(pages) \ {<<Top, 0>>}
          /\ Slots(pages') \subseteq Slots(pages)
      <4>1. Len(pages) > 1 /\ pages[Len(pages)].cursor = 1
        BY <2>1, <1>4 DEF Top
      <4>2. pages \in Seq(PageRec)
        OBVIOUS
      <4> HIDE Facts
      <4>3. QED BY <3>1, <4>1, <4>2, PagePopped, ZenonT(30) DEF Top
    <3>3. DOMAIN pages' = 1 .. Top - 1
      BY <3>2, LenProperties DEF Top
    <3>4. PagesPacked'
      BY <3>2, <3>3 DEF IInv, PagesPacked
    <3>5. QED BY <1>1, <2>1, <3>2, <3>4
  <2>2. CASE ~(c - 1 = 0 /\ Top > 1)
    <3>1. pages' = [pages EXCEPT ![Len(pages)].cursor = @ - 1]
      BY <2>2 DEF FreeAtCursor, TopEmptied, Top
    <3>2. /\ pages' \in Seq(PageRec) /\ Top' = Top
          /\ \A q \in 1 .. Top :
                /\ pages'[q].max = pages[q].max
                /\ pages'[q].cursor = IF q = Top THEN c - 1 ELSE pages[q].cursor
          /\ Used(pages') = Used(pages) \ {s}
          /\ Slots(pages') = Slots(pages)
      BY ZenonT(30), <1>1, <1>4, <3>1, CursorDown DEF Top
    <3>3. DOMAIN pages' = 1 .. Top
      BY <3>2, LenProperties DEF Top
    <3>4. \A q \in 1 .. Top : pages[q].cursor \in Nat /\ pages[q].max \in Nat
      BY PageTyped DEF Top
    <3>5. ASSUME NEW q \in 1 .. Top
          PROVE  /\ pages'[q].cursor <= pages'[q].max
                 /\ q < Top' => pages'[q].cursor = pages'[q].max
                 /\ q > 1 => pages'[q].cursor > 0
      <4>1. /\ pages[q].cursor <= pages[q].max
            /\ q < Top => pages[q].cursor = pages[q].max
            /\ q > 1 => pages[q].cursor > 0
        BY DEF IInv, PagesPacked
      <4>2. q = Top => ~(c - 1 = 0 /\ q > 1)
        BY <2>2
      <4>3. CASE q = Top
        BY SMTT(30), <4>1, <4>2, <4>3, <1>4, <3>2, <3>4
      <4>4. CASE q # Top
        BY <4>1, <4>4, <3>2, <3>4
      <4>5. QED BY <4>3, <4>4
    <3>6. PagesPacked'
      BY <3>3, <3>5 DEF PagesPacked
    <3>7. QED BY <3>2, <3>6
  <2>3. QED BY <2>1, <2>2
<1>6. SlotsPartitioned'
  BY SMTT(30), <1>1, <1>5 DEF IInv, SlotsPartitioned
<1>7. ToSet(chain) \subseteq Slots(pages')
  <2>1. Used(pages') \subseteq Slots(pages')
    BY <1>5, UsedInSlots, LenProperties DEF PagesPacked, Top
  <2>2. QED BY <2>1, <1>1, <1>6 DEF SlotsPartitioned
<1>8. TypeOK'
  <2>1. word' \in [Slots(pages') -> Word]
    BY <1>1, <1>5 DEF IInv, TypeOK, Kept
  <2>2. QED BY <1>0, <1>1, <1>5, <2>1 DEF IInv, TypeOK, PageRec
<1>9. FreeListIntact'
  <2>1. \A i \in DOMAIN chain : word'[chain[i]] = word[chain[i]]
    BY <1>1, <1>7 DEF Kept, ToSet
  <2>2. QED BY <1>1, <1>4, <2>1 DEF IInv, FreeListIntact
<1>10. QED BY <1>5, <1>6, <1>8, <1>9 DEF IInv

LEMMA FreeToListInv == IInv /\ (\E s \in live : FreeToList(s)) => IInv'
<1> SUFFICES ASSUME IInv, NEW s \in live, FreeToList(s) PROVE IInv'
  OBVIOUS
<1>0. held' \in Int
  BY DEF IInv, TypeOK, FreeToList
<1> USE Facts
<1>1. /\ word' = [word EXCEPT ![s] = blocks] /\ blocks' = s
      /\ chain' = <<s>> \o chain /\ live' = live \ {s} /\ pages' = pages
  BY DEF FreeToList
<1>2. s \notin ToSet(chain) /\ s \in Slots(pages) /\ s \in Nat \X Nat
  BY DEF IInv, SlotsPartitioned
<1>3. pages # << >>
  <2>1. s \notin Slots(<< >>)
    BY DEF Slots
  <2>2. QED BY <2>1, <1>2
<1>4. chain \in Seq(Nat \X Nat) /\ \A i, j \in DOMAIN chain : chain[i] = chain[j] => i = j
  BY DEF IInv, TypeOK, SlotsPartitioned
<1>5. /\ chain' \in Seq(Nat \X Nat)
      /\ ToSet(chain') = ToSet(chain) \union {s}
      /\ \A i, j \in DOMAIN chain' : chain'[i] = chain'[j] => i = j
  <2>1. s \in Nat \X Nat /\ s \notin ToSet(chain) /\ chain \in Seq(Nat \X Nat)
    BY <1>2, <1>4
  <2>2. /\ <<s>> \o chain \in Seq(Nat \X Nat)
        /\ ToSet(<<s>> \o chain) = ToSet(chain) \union {s}
        /\ \A i, j \in DOMAIN (<<s>> \o chain) :
             (<<s>> \o chain)[i] = (<<s>> \o chain)[j] => i = j
    <3> HIDE Facts
    <3>1. QED BY <2>1, <1>4, ChainPush, SMTT(30)
  <2>3. chain' = <<s>> \o chain
    BY <1>1
  <2>4. QED BY <2>2, <2>3, Zenon
<1>6. s \in DOMAIN word /\ blocks \in Word
  BY <1>2 DEF IInv, TypeOK, Word
<1>7. Linked(NULL, blocks', word', chain')
  <2>1. Linked(NULL, blocks, word, chain)
    BY <1>3 DEF IInv, FreeListIntact, Linked
  <2>2. QED BY <1>1, <1>2, <1>4, <1>6, <2>1, LinkedPush
<1>8. TypeOK'
  BY <1>0, <1>1, <1>2, <1>5, <1>6 DEF IInv, TypeOK
<1>9. PagesPacked'
  BY <1>1 DEF IInv, PagesPacked, Top
<1>10. SlotsPartitioned'
  <2>1. Used(pages') = Used(pages)
    BY <1>1
  <2>2. live \union ToSet(chain) = Used(pages) /\ live \intersect ToSet(chain) = {}
    BY DEF IInv, SlotsPartitioned
  <2>3. live' \union ToSet(chain') = Used(pages') /\ live' \intersect ToSet(chain') = {}
    <3> HIDE Facts
    <3>1. s \in live
      OBVIOUS
    <3>2. ToSet(chain') = ToSet(chain) \union {s} /\ live' = live \ {s}
      BY <1>1, <1>5
    <3>3. QED BY <3>1, <3>2, <2>1, <2>2, Zenon
  <2>4. QED BY <1>5, <2>3 DEF SlotsPartitioned
<1>11. FreeListIntact'
  BY <1>7 DEF FreeListIntact, Linked
<1>12. QED BY <1>8, <1>9, <1>10, <1>11 DEF IInv

LEMMA ClearInv == IInv /\ Clear => IInv'
<1> SUFFICES ASSUME IInv, Clear PROVE IInv'
  OBVIOUS
<1>0. held' \in Int
  BY DEF IInv, TypeOK, Clear
<1> USE Facts
<1>1. /\ pages # << >> /\ pages' = <<[pages[1] EXCEPT !.cursor = 0]>>
      /\ blocks' = NULL /\ word' = Kept(pages') /\ live' = {} /\ chain' = << >>
  BY DEF Clear
<1>2. 1 \in 1 .. Top /\ pages[1] \in PageRec
  BY <1>1, PageTyped DEF Top
<1>3. /\ pages' \in Seq(PageRec) /\ Len(pages') = 1
      /\ pages'[1].cursor = 0 /\ pages'[1].max = pages[1].max
      /\ pages[1].max \in Nat \ {0}
  BY <1>1, <1>2 DEF PageRec
<1>4. \A s : s \notin Used(pages')
  BY <1>3, UsedMember
<1>5. Slots(pages') \subseteq Slots(pages)
  BY <1>2, <1>3, SlotsMember DEF Top
<1>6. chain' = << >> /\ DOMAIN chain' = {} /\ ToSet(chain') = {}
  BY <1>1 DEF ToSet
<1>7. TypeOK'
  <2>1. word' \in [Slots(pages') -> Word]
    BY <1>1, <1>5 DEF IInv, TypeOK, Kept
  <2>2. chain' \in Seq(Nat \X Nat)
    BY <1>1, EmptySeq
  <2>3. QED BY <1>0, <1>1, <1>3, <2>1, <2>2 DEF TypeOK, PageRec
<1>8. PagesPacked'
  BY <1>3 DEF PagesPacked, Top
<1>9. SlotsPartitioned'
  BY <1>1, <1>4, <1>6 DEF SlotsPartitioned
<1>10. FreeListIntact'
  BY <1>1, <1>6 DEF FreeListIntact
<1>11. QED BY <1>7, <1>8, <1>9, <1>10 DEF IInv

LEMMA DestroyInv == IInv /\ Destroy => IInv'
<1> SUFFICES ASSUME IInv, Destroy PROVE IInv'
  OBVIOUS
<1>0. held' \in Int
  BY DEF IInv, TypeOK, Destroy
<1>1. /\ pages' = << >> /\ word' = << >> /\ live' = {} /\ chain' = << >>
      /\ blocks' = blocks
  BY DEF Destroy
<1>2. Slots(pages') = {} /\ Used(pages') = {} /\ ToSet(chain') = {}
  BY <1>1 DEF Slots, Used, ToSet
<1>3. TypeOK'
  BY <1>0, <1>1, <1>2 DEF IInv, TypeOK
<1>4. PagesPacked'
  BY <1>1 DEF PagesPacked
<1>5. SlotsPartitioned'
  <2>1. DOMAIN chain' = {}
    BY <1>1
  <2>2. QED BY <1>1, <1>2, <2>1 DEF SlotsPartitioned
<1>6. FreeListIntact'
  BY <1>1 DEF FreeListIntact
<1>7. QED BY <1>3, <1>4, <1>5, <1>6 DEF IInv

LEMMA CreateInv == IInv /\ Create => IInv'
<1> SUFFICES ASSUME IInv, Create PROVE IInv'
  OBVIOUS
<1>0. held' \in Int
  BY DEF IInv, TypeOK, Create
<1>1. /\ pages = << >> /\ pages' = FirstPage /\ blocks' = NULL
      /\ word' = ZeroedPage(1, InitMax) /\ UNCHANGED <<live, chain>>
  BY DEF Create
<1>2. Used(pages) = {}
  BY <1>1 DEF Used
<1>3. live = {} /\ ToSet(chain) = {}
  BY <1>2 DEF IInv, SlotsPartitioned
<1>4. chain = << >>
  <2>1. chain \in Seq(Nat \X Nat)
    BY DEF IInv, TypeOK
  <2>2. chain # << >> => 1 \in DOMAIN chain
    BY <2>1, EmptySeq
  <2>3. QED BY <1>3, <2>2 DEF ToSet
<1>5. TypeOK'
  BY <1>0, <1>1, FreshInv DEF IInv, TypeOK, PageRec
<1>6. PagesPacked'
  BY <1>1, FreshInv, InitMaxAssumption DEF PagesPacked, Top
<1>7. SlotsPartitioned'
  BY <1>1, <1>2, FreshInv DEF IInv, SlotsPartitioned
<1>8. FreeListIntact'
  BY <1>1, <1>4 DEF FreeListIntact
<1>9. QED BY <1>5, <1>6, <1>7, <1>8 DEF IInv

LEMMA WriteInv == IInv /\ Write => IInv'
<1> SUFFICES ASSUME IInv, NEW s \in live, NEW d \in Data,
                    word' = [word EXCEPT ![s] = d],
                    UNCHANGED <<pages, blocks, live, chain, held>>
             PROVE  IInv'
  BY DEF Write
<1>1. TypeOK'
  BY DEF IInv, TypeOK, Word
<1>2. PagesPacked' /\ SlotsPartitioned'
  BY DEF IInv, PagesPacked, SlotsPartitioned, Top
<1>3. \A i \in DOMAIN chain : word'[chain[i]] = word[chain[i]]
  BY DEF IInv, TypeOK, SlotsPartitioned, ToSet
<1>4. FreeListIntact'
  BY <1>3 DEF IInv, FreeListIntact
<1>5. QED BY <1>1, <1>2, <1>4 DEF IInv

LEMMA Step == IInv /\ [Next]_vars => IInv'
<1> SUFFICES ASSUME IInv, [Next]_vars PROVE IInv'
  OBVIOUS
<1>1. CASE AllocRecycled    BY <1>1, AllocRecycledInv
<1>2. CASE AllocCursor      BY <1>2, AllocCursorInv
<1>3. CASE AllocNewPage     BY <1>3, AllocNewPageInv
<1>4. CASE Free             BY <1>4, FreeAtCursorInv, FreeToListInv DEF Free
<1>5. CASE Clear            BY <1>5, ClearInv
<1>6. CASE Destroy          BY <1>6, DestroyInv
<1>7. CASE Create           BY <1>7, CreateInv
<1>8. CASE Write            BY <1>8, WriteInv
<1>9. CASE UNCHANGED vars
  BY <1>9 DEF vars, IInv, TypeOK, PagesPacked, SlotsPartitioned, FreeListIntact, Top
<1>10. QED BY <1>1, <1>2, <1>3, <1>4, <1>5, <1>6, <1>7, <1>8, <1>9 DEF Next

(* The allocator's struct, pages, memory and free list have their types     *)
(* after any sequence of calls: word covers exactly the slots of the pages. *)
THEOREM TypeCorrect == Spec => []TypeOK
<1>1. Init => IInv             BY InitInv
<1>2. IInv /\ [Next]_vars => IInv'   BY Step
<1>3. IInv => TypeOK           BY DEF IInv
<1>4. QED BY <1>1, <1>2, <1>3, PTL DEF Spec

(* alloc_node and free_node neither hand a slot out twice nor lose one, the *)
(* pages below the top are full and the free list threaded through the      *)
(* slots is never damaged by what the clients write into theirs.            *)
THEOREM AllocatorSafe == Spec => [](NodeSafe /\ SlotsPartitioned)
<1>1. Init => IInv             BY InitInv
<1>2. IInv /\ [Next]_vars => IInv'   BY Step
<1>3. IInv => NodeSafe /\ SlotsPartitioned
  BY DEF IInv, NodeSafe
<1>4. QED BY <1>1, <1>2, <1>3, PTL DEF Spec

(* With an empty free list and a full top page the client holds every slot. *)
LEMMA FullMeansLive ==
  ASSUME IInv, pages # << >>, blocks = NULL, TopFull
  PROVE  live = Slots(pages)
<1>1. pages \in Seq(PageRec) /\ DOMAIN pages = 1 .. Top /\ Top \in Nat
  BY Facts
<1>2. chain = << >>
  <2>1. chain \in Seq(Nat \X Nat)
    BY DEF IInv, TypeOK
  <2>2. chain # << >> => chain[1] \in Nat \X Nat
    BY <2>1, EmptySeq
  <2>3. QED BY <2>2, NullAssumption DEF IInv, FreeListIntact
<1>3. live = Used(pages)
  <2>1. ToSet(chain) = {}
    BY <1>2 DEF ToSet
  <2>2. QED BY <2>1 DEF IInv, SlotsPartitioned
<1>4. \A p \in 1 .. Top : pages[p].cursor = pages[p].max
  <2>1. \A p \in 1 .. Top : pages[p].cursor \in Nat /\ pages[p].max \in Nat
    BY <1>1, PageTyped DEF Top
  <2>2. QED BY <1>1, <2>1 DEF IInv, PagesPacked, TopFull
<1>5. ASSUME NEW s PROVE s \in Used(pages) <=> s \in Slots(pages)
  <2>1. s \in Used(pages) <=> \E p \in 1 .. Top, i \in Nat : s = <<p, i>> /\ i < pages[p].cursor
    BY <1>1, UsedMember DEF Top
  <2>2. s \in Slots(pages) <=> \E p \in 1 .. Top, i \in Nat : s = <<p, i>> /\ i < pages[p].max
    BY <1>1, SlotsMember DEF Top
  <2>3. QED BY <2>1, <2>2, <1>4
<1>6. QED BY <1>3, <1>5

(* A page is requested only when every slot of every page is in use.        *)
THEOREM GrowthOnDemand == Spec => GrowOnlyWhenFull
<1>1. Init => IInv             BY InitInv
<1>2. IInv /\ [Next]_vars => IInv'   BY Step
<1>3. IInv /\ [Next]_vars => [Len(pages') > Len(pages) => pages = << >> \/ live = Slots(pages)]_vars
  <2> SUFFICES ASSUME IInv, Next, Len(pages') > Len(pages), pages # << >>
               PROVE  live = Slots(pages)
    OBVIOUS
  <2>1. pages \in Seq(PageRec) /\ Len(pages) \in Nat /\ Len(pages) # 0
    BY Facts, EmptySeq DEF Top
  <2>2. CASE AllocNewPage
    BY <2>2, FullMeansLive DEF AllocNewPage, TopFull
  <2>3. CASE AllocRecycled \/ Write
    BY <2>1, <2>3 DEF NextFree, AllocRecycled, Write
  <2>4. CASE AllocCursor
    BY <2>1, <2>4, CursorUp DEF AllocCursor, TopFull, Top
  <2>5. CASE Free
    <3>1. PICK s \in live : FreeAtCursor(s) \/ FreeToList(s)
      BY <2>5 DEF Free
    <3>2. CASE FreeToList(s)
      BY <2>1, <3>2 DEF FreeToList
    <3>3. CASE FreeAtCursor(s)
      <4>1. Len([pages EXCEPT ![Top].cursor = @ - 1]) = Len(pages)
        BY <2>1
      <4>2. CASE pages[Top].cursor - 1 = 0 /\ Top > 1
        <5>1. pages[Len(pages)].cursor = 1 /\ Len(pages) > 1
          BY <2>1, <4>2, PageTyped DEF Top
        <5>2. Len(Front(pages)) = Len(pages) - 1
          BY <2>1, <5>1, PagePopped
        <5>3. QED BY <2>1, <3>3, <4>2, <5>2 DEF FreeAtCursor, TopEmptied
      <4>3. CASE ~(pages[Top].cursor - 1 = 0 /\ Top > 1)
        BY <2>1, <3>3, <4>1, <4>3 DEF FreeAtCursor, TopEmptied
      <4>4. QED BY <4>2, <4>3
    <3>4. QED BY <3>1, <3>2, <3>3
  <2>6. CASE Clear
    BY <2>1, <2>6 DEF Clear
  <2>7. CASE Destroy
    BY <2>1, <2>7 DEF Destroy
  <2>8. CASE Create
    BY <2>8 DEF Create
  <2>9. QED BY <2>2, <2>3, <2>4, <2>5, <2>6, <2>7, <2>8 DEF Next
<1>4. QED BY <1>1, <1>2, <1>3, PTL DEF Spec, GrowOnlyWhenFull

-----------------------------------------------------------------------------
(* What a container built on the allocator relies on.                       *)

(* A held slot is memory of some page.                                      *)
LiveInSlots == live \subseteq Slots(pages) /\ Slots(pages) \subseteq Nat \X Nat

LEMMA LiveIsMemory == IInv => LiveInSlots
BY Facts DEF LiveInSlots

(* alloc_node gives a slot that is not held, and frees no memory.           *)
LEMMA AllocGives ==
  ASSUME IInv, AllocRecycled \/ AllocCursor \/ AllocNewPage
  PROVE  /\ IInv' /\ pages' # << >>
         /\ live' \subseteq Slots(pages') /\ Slots(pages') \subseteq Nat \X Nat
         /\ Slots(pages) \subseteq Slots(pages')
         /\ \E s : s \notin live /\ live' = live \union {s}
<1>1. IInv'
  BY AllocRecycledInv, AllocCursorInv, AllocNewPageInv
<1>2. live' \subseteq Slots(pages') /\ Slots(pages') \subseteq Nat \X Nat
  <2>1. LiveInSlots'
    BY <1>1, LiveIsMemory, PTL
  <2>2. QED BY <2>1 DEF LiveInSlots
<1>3. CASE AllocRecycled
  <2>1. blocks \notin live /\ pages' = pages /\ live' = live \union {blocks} /\ pages # << >>
    BY <1>3, Facts DEF IInv, SlotsPartitioned, AllocRecycled
  <2>2. QED BY <1>1, <1>2, <2>1
<1>4. CASE AllocCursor
  <2>1. /\ <<Top, pages[Top].cursor>> \notin Used(pages)
        /\ Slots(pages') = Slots(pages) /\ Len(pages') = Len(pages) /\ Len(pages) # 0
    BY <1>4, Facts, CursorUp, EmptySeq DEF AllocCursor, TopFull, Top
  <2>2. live \subseteq Used(pages)
    BY DEF IInv, SlotsPartitioned
  <2>3. pages' # << >>
    BY <2>1
  <2>4. QED BY <1>1, <1>2, <1>4, <2>1, <2>2, <2>3 DEF AllocCursor
<1>5. CASE AllocNewPage
  <2>1. pages' = Append(pages, [cursor |-> 1, max |-> growth_policy(pages[Top].max)])
        /\ live' = live \union {<<Top + 1, 0>>} /\ pages # << >>
    BY <1>5 DEF AllocNewPage
  <2>2. /\ pages \in Seq(PageRec) /\ Top \in Nat /\ Top \in 1 .. Top
        /\ pages[Top].max \in Nat \ {0}
    BY <2>1, Facts, PageTyped DEF Top
  <2>3. growth_policy(pages[Top].max) \in Nat \ {0}
    BY <2>2 DEF growth_policy
  <2>4. Slots(pages) \subseteq Slots(pages') /\ Len(pages') = Top + 1
    <3> DEFINE page == [cursor |-> 1, max |-> growth_policy(pages[Top].max)]
    <3>1. page \in PageRec /\ page.cursor = 1
      BY <2>3 DEF PageRec
    <3> HIDE DEF page
    <3>2. pages \in Seq(PageRec)
      BY <2>2
    <3>3. /\ Len(Append(pages, page)) = Len(pages) + 1
          /\ Slots(Append(pages, page)) =
               Slots(pages) \union ({Len(pages) + 1} \X (0 .. page.max - 1))
      BY <3>1, <3>2, PagePushed
    <3>4. QED BY <2>1, <3>3 DEF Top, page
  <2>5. <<Top + 1, 0>> \notin Slots(pages)
    BY <2>2, SlotsMember DEF Top
  <2>6. live \subseteq Slots(pages) /\ pages' # << >>
    BY <2>2, <2>4, Facts
  <2>7. QED BY <1>1, <1>2, <2>1, <2>4, <2>5, <2>6
<1>6. QED BY <1>3, <1>4, <1>5

(* free_node takes back that slot alone: memory that goes is held by none.  *)
LEMMA FreeGives ==
  ASSUME IInv, NEW s \in live, FreeAtCursor(s) \/ FreeToList(s)
  PROVE  /\ IInv' /\ pages' # << >>
         /\ live' = live \ {s} /\ live' \subseteq Slots(pages')
         /\ Slots(pages') \subseteq Slots(pages)
<1>1. IInv'
  BY FreeAtCursorInv, FreeToListInv
<1>2. live' \subseteq Slots(pages')
  <2>1. LiveInSlots'
    BY <1>1, LiveIsMemory, PTL
  <2>2. QED BY <2>1 DEF LiveInSlots
<1>3. live' = live \ {s}
  BY DEF FreeAtCursor, FreeToList
<1>4. pages \in Seq(PageRec) /\ pages # << >> /\ Top \in Nat \ {0}
  <2>1. live \subseteq Slots(pages) /\ pages \in Seq(PageRec)
    BY Facts
  <2>2. Slots(<< >>) = {}
    BY DEF Slots
  <2>3. QED BY <2>1, <2>2, EmptySeq DEF Top
<1>5. CASE FreeToList(s)
  <2>1. pages' = pages
    BY <1>5 DEF FreeToList
  <2>2. QED BY <1>1, <1>2, <1>3, <1>4, <2>1
<1>6. CASE FreeAtCursor(s) /\ TopEmptied
  <2>1. pages' = Front(pages) /\ pages[Top].cursor - 1 = 0 /\ Top > 1
    BY <1>6 DEF FreeAtCursor, TopEmptied
  <2>2. pages[Top].cursor = 1
    BY <1>4, <2>1, PageTyped DEF Top
  <2>3. Slots(pages') \subseteq Slots(pages) /\ Len(pages') = Top - 1
    BY <1>4, <2>1, <2>2, PagePopped DEF Top
  <2>4. pages' # << >>
    BY <1>4, <2>1, <2>3
  <2>5. QED BY <1>1, <1>2, <1>3, <2>3, <2>4
<1>7. CASE FreeAtCursor(s) /\ ~TopEmptied
  <2>1. pages' = [pages EXCEPT ![Top].cursor = @ - 1] /\ s = <<Top, pages[Top].cursor - 1>>
    BY <1>7 DEF FreeAtCursor, AtCursor
  <2>2. s \in Used(pages)
    BY DEF IInv, SlotsPartitioned
  <2>3. pages[Top].cursor > 0
    <3>1. pages[Top].cursor \in Nat
      BY <1>4, PageTyped DEF Top
    <3>2. PICK p \in 1 .. Len(pages), i \in Nat : s = <<p, i>> /\ i < pages[p].cursor
      BY <1>4, <2>2, UsedMember
    <3>3. i = pages[Top].cursor - 1
      BY <2>1, <3>2
    <3>4. QED BY <3>1, <3>2, <3>3
  <2>4. Slots(pages') = Slots(pages) /\ Len(pages') = Len(pages)
    BY <1>4, <2>1, <2>3, CursorDown DEF Top
  <2>5. pages' # << >>
    BY <1>4, <2>4 DEF Top
  <2>6. QED BY <1>1, <1>2, <1>3, <2>4, <2>5
<1>8. QED BY <1>5, <1>6, <1>7

(* A stack of one page whose first slot alone is taken: what a container    *)
(* that keeps a node of its own starts from.                                *)
LEMMA FirstSlotTaken ==
  ASSUME NEW m \in Nat \ {0}, NEW pgs, pgs = <<[cursor |-> 1, max |-> m]>>
  PROVE  /\ pgs \in Seq(PageRec) /\ Len(pgs) = 1 /\ pgs # << >> /\ DOMAIN pgs = {1}
         /\ pgs[1].cursor = 1 /\ pgs[1].max = m
         /\ Used(pgs) = {<<1, 0>>}
         /\ <<1, 0>> \in Slots(pgs) /\ Slots(pgs) \subseteq Nat \X Nat
<1>1. /\ pgs \in Seq(PageRec) /\ Len(pgs) = 1 /\ pgs # << >> /\ DOMAIN pgs = {1}
      /\ pgs[1].cursor = 1 /\ pgs[1].max = m
  BY DEF PageRec
<1>2. ASSUME NEW s PROVE s \in Used(pgs) <=> s = <<1, 0>>
  <2>1. s \in Used(pgs) <=> \E p \in 1 .. 1, i \in Nat : s = <<p, i>> /\ i < pgs[p].cursor
    BY <1>1, UsedMember
  <2>2. \A p \in 1 .. 1, i \in Nat : i < pgs[p].cursor <=> p = 1 /\ i = 0
    BY <1>1
  <2>3. QED BY <2>1, <2>2
<1>3. <<1, 0>> \in Slots(pgs) /\ Slots(pgs) \subseteq Nat \X Nat
  BY SMTT(30), <1>1, SlotsMember
<1>4. QED BY <1>1, <1>2, <1>3

-----------------------------------------------------------------------------
(* Refinement: every call is a step of the abstract allocator on the slots  *)
(* the client holds.                                                        *)

(* A slot handed out is one the client does not hold.                       *)
LEMMA AllocStep ==
  ASSUME IInv, NEW s, s \notin live, live' = live \union {s}, held' = held + 1,
         \A t \in live : word'[t] = word[t]
  PROVE  Abs!Alloc
BY DEF Abs!Alloc, Abs!Keeps

LEMMA FreeStep ==
  ASSUME IInv, NEW s \in live, live' = live \ {s}, held' = held - 1,
         \A t \in live \ {s} : word'[t] = word[t]
  PROVE  Abs!Free
BY DEF Abs!Free, Abs!Keeps

(* The node allocator implements the abstract allocator.                    *)
THEOREM ImplementsAllocator == Spec => AbsSpec
<1>1. Init => IInv             BY InitInv
<1>2. IInv /\ [Next]_vars => IInv'   BY Step
<1>3. Init => Abs!Init
  BY DEF Init, Abs!Init
<1>4. IInv /\ IInv' /\ [Next]_vars => [Abs!Next]_(<<[s \in live |-> word[s]], held>>)
  <2> SUFFICES ASSUME IInv, IInv', [Next]_vars
               PROVE  Abs!Next \/ UNCHANGED <<[s \in live |-> word[s]], held>>
    OBVIOUS
  <2> USE Facts
  <2>1. live \intersect ToSet(chain) = {} /\ live \union ToSet(chain) = Used(pages)
    BY DEF IInv, SlotsPartitioned
  <2>0. live' \subseteq Slots(pages')
    <3>1. /\ pages' \in Seq(PageRec)
          /\ \A p \in 1 .. Len(pages') : pages'[p].cursor <= pages'[p].max
      BY LenProperties DEF IInv, TypeOK, PagesPacked, PageRec
    <3>2. Used(pages') \subseteq Slots(pages')
      BY <3>1, UsedInSlots
    <3>3. QED BY <3>2 DEF IInv, SlotsPartitioned
  <2>2. CASE AllocRecycled
    <3>1. blocks \notin live
      BY <2>1, <2>2 DEF NextFree, AllocRecycled
    <3>2. QED BY <2>2, <3>1, AllocStep DEF NextFree, AllocRecycled, Abs!Next
  <2>3. CASE AllocCursor
    <3>1. <<Top, pages[Top].cursor>> \notin Used(pages)
      BY <2>3, CursorUp DEF AllocCursor, TopFull, Top
    <3>2. QED BY <2>1, <2>3, <3>1, AllocStep DEF AllocCursor, TopFull, Abs!Next
  <2>4. CASE AllocNewPage
    <3>1. <<Top + 1, 0>> \notin Slots(pages)
      BY SlotsMember DEF Top
    <3>2. live \subseteq Slots(pages') /\ live \subseteq DOMAIN word
      BY <2>0, <2>4 DEF IInv, TypeOK, AllocNewPage, TopFull
    <3>3. \A t \in live : word'[t] = word[t]
      BY <2>4, <3>2 DEF AllocNewPage, TopFull
    <3>4. QED BY <2>4, <3>1, <3>3, AllocStep DEF AllocNewPage, TopFull, Abs!Next
  <2>5. CASE Free
    <3>1. PICK s \in live : FreeAtCursor(s) \/ FreeToList(s)
      BY <2>5 DEF Free
    <3>2. live' = live \ {s} /\ live' \subseteq Slots(pages')
      BY <2>0, <3>1 DEF FreeAtCursor, TopEmptied, FreeToList
    <3>3. \A t \in live \ {s} : word'[t] = word[t]
      <4>1. CASE FreeAtCursor(s)
        BY <3>2, <4>1 DEF FreeAtCursor, TopEmptied, Kept
      <4>2. CASE FreeToList(s)
        BY <4>2 DEF FreeToList, IInv, TypeOK
      <4>3. QED BY <3>1, <4>1, <4>2
    <3>4. held' = held - 1
      BY <3>1 DEF FreeAtCursor, FreeToList
    <3>5. QED BY <3>2, <3>3, <3>4, FreeStep DEF Abs!Next
  <2>6. CASE Clear \/ Destroy
    BY <2>6 DEF Clear, Destroy, Abs!Next, Abs!Clear
  <2>7. CASE Create
    <3>1. live = {}
      BY <2>1, <2>7 DEF Create, Used
    <3>2. QED BY <2>7, <3>1 DEF Create
  <2>8. CASE Write
    <3>1. PICK s \in live, d \in Data : /\ word' = [word EXCEPT ![s] = d]
                                        /\ UNCHANGED <<pages, blocks, live, chain, held>>
      BY <2>8 DEF Write
    <3>2. \A t \in live \ {s} : word'[t] = word[t]
      BY <3>1 DEF IInv, TypeOK
    <3>3. QED BY <3>1, <3>2 DEF Abs!Next, Abs!Write, Abs!Keeps
  <2>9. CASE UNCHANGED vars
    BY <2>9 DEF vars
  <2>10. QED BY <2>2, <2>3, <2>4, <2>5, <2>6, <2>7, <2>8, <2>9 DEF Next
<1>5. QED BY <1>1, <1>2, <1>3, <1>4, PTL DEF Spec, AbsSpec, Abs!Spec

-----------------------------------------------------------------------------
(* A client that gives slots back in the opposite order.                    *)

(* Slot s was reached by the cursor after t was.                            *)
Above(s, t) == s[1] > t[1] \/ (s[1] = t[1] /\ s[2] > t[2])

(* No slot is on the free list.                                             *)
NoneFree == chain = << >> /\ pages # << >>

(* With no free list the held slots are those below the cursors.            *)
LEMMA StackFacts ==
  ASSUME IInv, NoneFree
  PROVE  /\ blocks = NULL /\ live = Used(pages) /\ pages \in Seq(PageRec)
         /\ Top \in Nat /\ Top \in 1 .. Top
         /\ \A p \in 1 .. Top : /\ pages[p].cursor \in Nat /\ pages[p].max \in Nat \ {0}
                                /\ p < Top => pages[p].cursor > 0
                                /\ p > 1 => pages[p].cursor > 0
         /\ \A t \in live : /\ t \in Nat \X Nat /\ t[1] \in 1 .. Top
                            /\ t[2] < pages[t[1]].cursor
<1>1. pages \in Seq(PageRec) /\ Top \in Nat /\ Top \in 1 .. Top /\ DOMAIN pages = 1 .. Top
  BY Facts DEF NoneFree
<1>2. live = Used(pages)
  BY EmptyChain DEF IInv, SlotsPartitioned, NoneFree
<1>3. ASSUME NEW p \in 1 .. Top
      PROVE  /\ pages[p].cursor \in Nat /\ pages[p].max \in Nat \ {0}
             /\ p < Top => pages[p].cursor > 0
             /\ p > 1 => pages[p].cursor > 0
  <2>1. pages[p].cursor \in Nat /\ pages[p].max \in Nat \ {0}
    BY <1>1, PageTyped DEF Top
  <2>2. (p < Top => pages[p].cursor = pages[p].max) /\ (p > 1 => pages[p].cursor > 0)
    BY <1>1 DEF IInv, PagesPacked
  <2>3. QED BY <2>1, <2>2
<1>4. \A t \in live : t \in Nat \X Nat /\ t[1] \in 1 .. Top /\ t[2] < pages[t[1]].cursor
  <2> SUFFICES ASSUME NEW t \in live
               PROVE  t \in Nat \X Nat /\ t[1] \in 1 .. Top /\ t[2] < pages[t[1]].cursor
    OBVIOUS
  <2>1. PICK p \in 1 .. Top, i \in Nat : t = <<p, i>> /\ i < pages[p].cursor
    BY <1>1, <1>2, UsedMember DEF Top
  <2>2. p \in Nat
    BY <1>1
  <2>3. QED BY <2>1, <2>2
<1>5. blocks = NULL
  BY DEF IInv, FreeListIntact, NoneFree
<1>6. QED BY <1>1, <1>2, <1>3, <1>4, <1>5

(* With no free list, the slot handed out is above every held one, and the  *)
(* first of the bottom page if none is held.                                *)
LEMMA StackAlloc ==
  ASSUME IInv, NoneFree, AllocRecycled \/ AllocCursor \/ AllocNewPage
  PROVE  /\ NoneFree'
         /\ \A s \in live' \ live : /\ \A t \in live : Above(s, t)
                                    /\ live = {} => s = <<1, 0>>
<1>1. /\ blocks = NULL /\ live = Used(pages) /\ pages \in Seq(PageRec)
      /\ Top \in Nat /\ Top \in 1 .. Top
      /\ \A p \in 1 .. Top : /\ pages[p].cursor \in Nat /\ pages[p].max \in Nat \ {0}
                             /\ p < Top => pages[p].cursor > 0
                             /\ p > 1 => pages[p].cursor > 0
      /\ \A t \in live : /\ t \in Nat \X Nat /\ t[1] \in 1 .. Top
                         /\ t[2] < pages[t[1]].cursor
  BY StackFacts
<1>2. AllocCursor \/ AllocNewPage
  BY <1>1 DEF AllocRecycled
<1>3. NoneFree'
  <2>1. pages' # << >>
    BY AllocGives
  <2>2. chain' = chain
    BY <1>2 DEF AllocCursor, AllocNewPage
  <2>3. QED BY <2>1, <2>2 DEF NoneFree
<1>4. live = {} => Top = 1 /\ pages[Top].cursor = 0
  <2>1. \A p \in 1 .. Top : pages[p].cursor > 0 => <<p, 0>> \in live
    BY <1>1, UsedMember DEF Top
  <2>2. live = {} => \A p \in 1 .. Top : ~(pages[p].cursor > 0)
    BY <2>1
  <2>3. 1 \in 1 .. Top
    BY <1>1
  <2>4. QED BY <1>1, <2>2, <2>3
<1>5. CASE AllocCursor
  <2> DEFINE c == pages[Top].cursor
  <2>1. c \in Nat /\ \A s \in live' \ live : s = <<Top, c>>
    BY <1>1, <1>5 DEF AllocCursor
  <2>2. \A t \in live : Above(<<Top, c>>, t)
    <3> SUFFICES ASSUME NEW t \in live PROVE Above(<<Top, c>>, t)
      OBVIOUS
    <3>1. t[1] \in Nat /\ t[2] \in Nat /\ t[1] \in 1 .. Top /\ t[2] < pages[t[1]].cursor
      BY <1>1
    <3>2. t[1] = Top \/ Top > t[1]
      BY <1>1, <3>1
    <3>3. t[1] = Top => c > t[2]
      BY <2>1, <3>1
    <3>4. <<Top, c>>[1] = Top /\ <<Top, c>>[2] = c
      OBVIOUS
    <3> HIDE DEF c
    <3>5. QED BY <3>2, <3>3, <3>4 DEF Above
  <2>3. live = {} => <<Top, c>> = <<1, 0>>
    BY <1>4
  <2>4. QED BY <1>3, <2>1, <2>2, <2>3
<1>6. CASE AllocNewPage
  <2>1. \A s \in live' \ live : s = <<Top + 1, 0>>
    BY <1>6 DEF AllocNewPage
  <2>2. \A t \in live : Above(<<Top + 1, 0>>, t)
    <3> SUFFICES ASSUME NEW t \in live PROVE Above(<<Top + 1, 0>>, t)
      OBVIOUS
    <3>1. t[1] \in 1 .. Top
      BY <1>1
    <3>2. Top + 1 > t[1]
      BY <1>1, <3>1
    <3>3. <<Top + 1, 0>>[1] = Top + 1
      OBVIOUS
    <3>4. QED BY <3>2, <3>3 DEF Above
  <2>3. live # {}
    <3>1. pages[Top].cursor >= pages[Top].max
      BY <1>6 DEF AllocNewPage, TopFull
    <3>2. QED BY <1>1, <1>4, <3>1
  <2>4. QED BY <1>3, <2>1, <2>2, <2>3
<1>7. QED BY <1>2, <1>5, <1>6

(* The highest held slot is the one at the cursor, so giving it back puts   *)
(* none on the free list.                                                   *)
LEMMA StackFree ==
  ASSUME IInv, NoneFree, NEW s \in live, \A t \in live : t = s \/ Above(s, t),
         FreeAtCursor(s) \/ FreeToList(s)
  PROVE  NoneFree' /\ (live = {s} => s = <<1, 0>>)
<1>1. /\ live = Used(pages) /\ pages \in Seq(PageRec)
      /\ Top \in Nat /\ Top \in 1 .. Top
      /\ \A p \in 1 .. Top : /\ pages[p].cursor \in Nat
                             /\ p < Top => pages[p].cursor > 0
                             /\ p > 1 => pages[p].cursor > 0
      /\ \A t \in live : /\ t \in Nat \X Nat /\ t[1] \in 1 .. Top
                         /\ t[2] < pages[t[1]].cursor
  BY StackFacts
<1>2. \A p \in 1 .. Top, i \in Nat : i < pages[p].cursor => <<p, i>> \in live
  BY <1>1, UsedMember DEF Top
<1>3. s[1] \in Nat /\ s[2] \in Nat /\ s = <<s[1], s[2]>> /\ s[1] \in 1 .. Top
      /\ s[2] < pages[s[1]].cursor
  BY <1>1
<1>4. pages[Top].cursor > 0
  <2>1. Top = 1 => s[1] = Top
    BY <1>3
  <2>2. Top # 1 => Top > 1
    BY <1>1
  <2>3. s[1] = Top => pages[Top].cursor > 0
    BY <1>1, <1>3
  <2>4. QED BY <1>1, <2>1, <2>2, <2>3
<1>5. AtCursor(s)
  <2> DEFINE x == pages[Top].cursor - 1
  <2>1. x \in Nat /\ x < pages[Top].cursor
    BY <1>1, <1>4
  <2>2. <<Top, x>> \in live
    BY <1>1, <1>2, <2>1
  <2>3. <<Top, x>>[1] = Top /\ <<Top, x>>[2] = x
    OBVIOUS
  <2>4. ~Above(s, <<Top, x>>)
    <3>1. ~(s[1] > Top)
      BY <1>1, <1>3
    <3>2. s[1] = Top => ~(s[2] > x)
      BY <1>1, <1>3
    <3> HIDE DEF x
    <3>3. QED BY <3>1, <3>2, <2>3 DEF Above
  <2>5. QED BY <2>2, <2>4 DEF AtCursor
<1>6. NoneFree'
  <2>1. FreeAtCursor(s)
    BY <1>5 DEF FreeToList
  <2>2. pages' # << >>
    BY FreeGives
  <2>3. QED BY <2>1, <2>2 DEF NoneFree, FreeAtCursor
<1>7. ASSUME live = {s} PROVE s = <<1, 0>>
  <2>1. 1 \in 1 .. Top /\ pages[1].cursor > 0
    <3>1. Top = 1 \/ 1 < Top
      BY <1>1
    <3>2. QED BY <1>1, <1>4, <3>1
  <2>2. <<1, 0>> \in live
    BY <1>2, <2>1
  <2>3. QED BY <1>7, <2>2
<1>8. QED BY <1>6, <1>7

(* There is always a slot at the bottom of the stack of pages.              *)
LEMMA BottomSlot == IInv /\ pages # << >> => <<1, 0>> \in Slots(pages)
<1> SUFFICES ASSUME IInv, pages # << >> PROVE <<1, 0>> \in Slots(pages)
  OBVIOUS
<1>1. pages \in Seq(PageRec) /\ 1 \in 1 .. Len(pages)
  BY Facts DEF Top
<1>2. pages[1].max \in Nat \ {0}
  BY <1>1, PageTyped
<1>3. 0 \in Nat /\ 0 < pages[1].max
  BY <1>2
<1>4. QED BY <1>1, <1>3, SlotsMember
=============================================================================
