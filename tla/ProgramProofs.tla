--------------------------- MODULE ProgramProofs ---------------------------
(***************************************************************************)
(* Proofs about the pool, the arena and the bump allocator of a program,    *)
(* and that what is proved of the node allocator and of the forward list    *)
(* holds of it in a program that uses any of them in any order, for all     *)
(* constants.                                                               *)
(***************************************************************************)
EXTENDS Program, NodeAllocProofs

-----------------------------------------------------------------------------
(* The pool, of any size and for any client data.                           *)

LEMMA PoolToSet == \A s : Pool!ToSet(s) = ToSet(s)
BY DEF Pool!ToSet, ToSet

(* The inductive invariant: what PoolSafe says of the slots and of the list *)
(* threaded through them.  Neither half is inductive alone: a slot leaves   *)
(* the list for the client only because the list holds the free slots.      *)
PoolInv == Pool!TypeOK /\ Pool!SlotsPartitioned /\ Pool!FreeListIntact

-----------------------------------------------------------------------------
(* Facts of the invariant in the form the steps use.                        *)
LEMMA PoolFacts ==
  ASSUME Pool!PoolAssumption, PoolInv
  PROVE  /\ PoolSlots \in Nat /\ poffset \in Nat /\ poffset <= PoolSlots
         /\ Pool!Slots \subseteq Nat /\ NULL \notin Pool!Slots
         /\ pchain \in Seq(Pool!Slots) /\ pword \in [Pool!Slots -> Pool!Word]
         /\ plive \subseteq Pool!Slots
         /\ pheld \in Int
         /\ plive \union ToSet(pchain) = 0 .. poffset - 1
         /\ plive \intersect ToSet(pchain) = {}
         /\ \A i, j \in DOMAIN pchain : pchain[i] = pchain[j] => i = j
         /\ Linked(NULL, pblocks, pword, pchain)
         /\ pblocks = NULL <=> pchain = << >>
         /\ pblocks # NULL => /\ pblocks = pchain[1] /\ pblocks \in ToSet(pchain)
                              /\ pblocks \in Pool!Slots
<1>1. /\ PoolSlots \in Nat /\ NULL \notin Nat /\ Pool!Slots \subseteq Nat /\ NULL \notin Pool!Slots
  BY DEF Pool!PoolAssumption, Pool!Slots
<1>2. /\ poffset \in 0 .. PoolSlots /\ pword \in [Pool!Slots -> Pool!Word]
      /\ plive \subseteq Pool!Slots
      /\ pchain \in Seq(Pool!Slots) /\ pheld \in Int
  BY DEF PoolInv, Pool!TypeOK
<1>3. Linked(NULL, pblocks, pword, pchain)
  BY DEF PoolInv, Pool!FreeListIntact, Linked
<1>4. /\ pblocks = NULL <=> pchain = << >>
      /\ pblocks # NULL => /\ pblocks = pchain[1] /\ pblocks \in ToSet(pchain)
                           /\ pblocks \in Pool!Slots
  BY <1>1, <1>2, <1>3, LinkedHead
<1>5. QED BY PoolToSet, <1>1, <1>2, <1>3, <1>4 DEF PoolInv, Pool!SlotsPartitioned

-----------------------------------------------------------------------------
(* The invariant holds initially and is preserved, one lemma per action.    *)
LEMMA PoolInitInv == ASSUME Pool!PoolAssumption, Pool!Init PROVE PoolInv
<1>1. /\ DOMAIN pchain = {} /\ ToSet(pchain) = {} /\ pchain \in Seq(Pool!Slots)
      /\ Linked(NULL, pblocks, pword, pchain)
  BY EmptyChain, EmptySeq DEF Pool!Init
<1>2. pword \in [Pool!Slots -> Pool!Word] /\ poffset \in 0 .. PoolSlots /\ 0 .. poffset - 1 = {}
  BY DEF Pool!Init, Pool!Word, Pool!PoolAssumption
<1>3. QED BY PoolToSet, <1>1, <1>2
          DEF Pool!Init, PoolInv, Pool!TypeOK, Pool!SlotsPartitioned, Pool!FreeListIntact, Linked

LEMMA PoolAllocRecycledInv == ASSUME Pool!PoolAssumption, PoolInv, Pool!AllocRecycled PROVE PoolInv'
<1> USE PoolFacts
<1>1. PICK zeroed \in BOOLEAN : pword' = [pword EXCEPT ![pblocks] = Pool!Contents(pblocks, zeroed)]
  BY DEF Pool!AllocRecycled
<1>2. /\ pchain # << >> /\ pblocks = pchain[1] /\ pblocks \in ToSet(pchain)
      /\ pblocks \in Pool!Slots
      /\ plive' = plive \union {pblocks} /\ pblocks' = pword[pblocks] /\ pchain' = Tail(pchain)
      /\ pheld' = pheld + 1 /\ poffset' = poffset
  BY DEF Pool!AllocRecycled
<1>3. /\ pchain' \in Seq(Pool!Slots) /\ ToSet(pchain') = ToSet(pchain) \ {pblocks}
      /\ \A i, j \in DOMAIN pchain' : pchain'[i] = pchain'[j] => i = j
  <2> HIDE PoolFacts
  <2>1. pchain \in Seq(Pool!Slots) /\ \A i, j \in DOMAIN pchain : pchain[i] = pchain[j] => i = j
    BY PoolFacts
  <2>2. QED BY <1>2, <2>1, ChainTail
<1>4. Linked(NULL, pblocks', pword, pchain')
  BY <1>2, LinkedTail
<1>5. /\ pword' \in [Pool!Slots -> Pool!Word]
      /\ \A s \in Pool!Slots \ {pblocks} : pword'[s] = pword[s]
  BY <1>1, <1>2 DEF Pool!Contents, Pool!Word
<1>6. Linked(NULL, pblocks', pword', pchain')
  <2>1. \A s \in ToSet(pchain') : pword'[s] = pword[s]
    <3>1. ToSet(pchain) \subseteq Pool!Slots
      BY DEF PoolInv, Pool!TypeOK, ToSet
    <3>2. QED BY <3>1, <1>3, <1>5
  <2>2. QED BY <1>4, <2>1, LinkedFrame
<1>7. poffset' \in 0 .. PoolSlots /\ plive' \subseteq Pool!Slots /\ pheld' \in Int
  BY <1>2
<1>8. plive' \union ToSet(pchain') = 0 .. poffset' - 1 /\ plive' \intersect ToSet(pchain') = {}
  BY <1>2, <1>3
<1>9. pblocks' \in Pool!Slots \union {NULL}
  BY <1>3, <1>6, LinkedType
<1>10. QED BY PoolToSet, <1>3, <1>5, <1>6, <1>7, <1>8, <1>9
           DEF PoolInv, Pool!TypeOK, Pool!SlotsPartitioned, Pool!FreeListIntact, Linked

LEMMA PoolAllocOffsetInv == ASSUME Pool!PoolAssumption, PoolInv, Pool!AllocOffset PROVE PoolInv'
<1> USE PoolFacts
<1>1. PICK zeroed \in BOOLEAN : pword' = [pword EXCEPT ![poffset] = Pool!Contents(poffset, zeroed)]
  BY DEF Pool!AllocOffset
<1>2. /\ poffset \in Pool!Slots /\ poffset \notin ToSet(pchain)
      /\ plive' = plive \union {poffset} /\ poffset' = poffset + 1 /\ pheld' = pheld + 1
      /\ pblocks' = pblocks /\ pchain' = pchain
  BY DEF Pool!AllocOffset, Pool!HasRoom, Pool!Slots
<1>3. pword' \in [Pool!Slots -> Pool!Word] /\ \A s \in Pool!Slots \ {poffset} : pword'[s] = pword[s]
  BY <1>1, <1>2 DEF Pool!Contents, Pool!Word
<1>4. Linked(NULL, pblocks', pword', pchain')
  <2>1. ToSet(pchain) \subseteq Pool!Slots
    BY DEF PoolInv, Pool!TypeOK, ToSet
  <2>2. \A s \in ToSet(pchain) : pword'[s] = pword[s]
    BY <2>1, <1>2, <1>3
  <2>3. Linked(NULL, pblocks, pword', pchain)
    BY <2>2, LinkedFrame
  <2>4. QED BY <2>3, <1>2
<1>5. 0 .. poffset' - 1 = (0 .. poffset - 1) \union {poffset}
  BY <1>2
<1>6. plive' \union ToSet(pchain') = 0 .. poffset' - 1 /\ plive' \intersect ToSet(pchain') = {}
  BY <1>2, <1>5
<1>7. poffset' \in 0 .. PoolSlots
  BY <1>2 DEF Pool!Slots
<1>8. QED BY PoolToSet, <1>2, <1>3, <1>4, <1>6, <1>7
          DEF PoolInv, Pool!TypeOK, Pool!SlotsPartitioned, Pool!FreeListIntact, Linked

(* The last slot handed out at the offset goes back there.                  *)
LEMMA PoolFreeAtOffsetInv ==
  ASSUME Pool!PoolAssumption, PoolInv, NEW s \in plive, s = poffset - 1,
         poffset' = poffset - 1, UNCHANGED <<pblocks, pword, pchain>>,
         plive' = plive \ {s}, pheld' = pheld - 1
  PROVE  PoolInv'
<1> USE PoolFacts
<1>1. s \in 0 .. poffset - 1 /\ s \notin ToSet(pchain)
  OBVIOUS
<1>2. 0 .. poffset' - 1 = (0 .. poffset - 1) \ {s} /\ poffset' \in 0 .. PoolSlots
  BY <1>1
<1>3. plive' \union ToSet(pchain') = 0 .. poffset' - 1 /\ plive' \intersect ToSet(pchain') = {}
  BY <1>1, <1>2
<1>4. QED BY PoolToSet, <1>2, <1>3
          DEF PoolInv, Pool!TypeOK, Pool!SlotsPartitioned, Pool!FreeListIntact

(* Any other slot is pushed on the free list.                               *)
LEMMA PoolFreeToListInv ==
  ASSUME Pool!PoolAssumption, PoolInv, NEW s \in plive,
         pword' = [pword EXCEPT ![s] = pblocks], pblocks' = s, pchain' = <<s>> \o pchain,
         poffset' = poffset, plive' = plive \ {s}, pheld' = pheld - 1
  PROVE  PoolInv'
<1> USE PoolFacts
<1>1. s \in Pool!Slots /\ s \notin ToSet(pchain)
  OBVIOUS
<1>2. /\ pchain \in Seq(Pool!Slots) /\ \A i, j \in DOMAIN pchain : pchain[i] = pchain[j] => i = j
      /\ Linked(NULL, pblocks, pword, pchain) /\ s \in DOMAIN pword
  BY <1>1
<1>3. /\ pchain' \in Seq(Pool!Slots) /\ ToSet(pchain') = ToSet(pchain) \union {s}
      /\ \A i, j \in DOMAIN pchain' : pchain'[i] = pchain'[j] => i = j
  <2> HIDE PoolFacts
  <2>1. QED BY <1>1, <1>2, ChainPush
<1>4. Linked(NULL, pblocks', pword', pchain')
  <2> HIDE PoolFacts
  <2>1. QED BY <1>1, <1>2, LinkedPush
<1>5. pword' \in [Pool!Slots -> Pool!Word]
  <2>1. pblocks \in Pool!Word
    BY DEF PoolInv, Pool!TypeOK, Pool!Word
  <2>2. QED BY <2>1
<1>6. plive' \union ToSet(pchain') = 0 .. poffset' - 1 /\ plive' \intersect ToSet(pchain') = {}
  <2>1. /\ plive \union ToSet(pchain) = 0 .. poffset - 1 /\ plive \intersect ToSet(pchain) = {}
        /\ s \in plive /\ plive' = plive \ {s} /\ poffset' = poffset
    OBVIOUS
  <2>2. ToSet(pchain') = ToSet(pchain) \union {s}
    BY <1>3
  <2> HIDE PoolFacts
  <2>3. QED BY <2>1, <2>2, Zenon
<1>7. poffset' \in 0 .. PoolSlots /\ plive' \subseteq Pool!Slots /\ pheld' \in Int
  OBVIOUS
<1>8. QED BY PoolToSet, <1>1, <1>3, <1>4, <1>5, <1>6, <1>7
          DEF PoolInv, Pool!TypeOK, Pool!SlotsPartitioned, Pool!FreeListIntact, Linked

LEMMA PoolFreeInv == ASSUME Pool!PoolAssumption, PoolInv, Pool!Free PROVE PoolInv'
<1>1. PICK s \in plive :
        /\ IF Pool!AtOffset(s)
             THEN /\ poffset' = poffset - 1
                  /\ UNCHANGED <<pblocks, pword, pchain>>
             ELSE /\ pword' = [pword EXCEPT ![s] = Pool!Link]
                  /\ pblocks' = s
                  /\ pchain' = <<s>> \o pchain
                  /\ UNCHANGED poffset
        /\ plive' = plive \ {s}
        /\ pheld' = pheld - 1
  BY DEF Pool!Free
<1>2. CASE Pool!AtOffset(s)
  BY <1>1, <1>2, PoolFreeAtOffsetInv DEF Pool!AtOffset
<1>3. CASE ~Pool!AtOffset(s)
  BY <1>1, <1>3, PoolFreeToListInv DEF Pool!Link
<1>4. QED BY <1>2, <1>3

LEMMA PoolClearInv == ASSUME Pool!PoolAssumption, PoolInv, Pool!Clear PROVE PoolInv'
<1> USE PoolFacts
<1>1. /\ DOMAIN pchain' = {} /\ ToSet(pchain') = {} /\ pchain' \in Seq(Pool!Slots)
      /\ pchain' = << >> /\ 0 .. poffset' - 1 = {}
  BY EmptyChain, EmptySeq DEF Pool!Clear
<1>2. QED BY PoolToSet, <1>1
          DEF Pool!Clear, PoolInv, Pool!TypeOK, Pool!SlotsPartitioned, Pool!FreeListIntact

LEMMA PoolWriteInv == ASSUME Pool!PoolAssumption, PoolInv, Pool!Write PROVE PoolInv'
<1> USE PoolFacts
<1>1. PICK s \in plive, d \in Data : /\ pword' = [pword EXCEPT ![s] = d]
                                     /\ UNCHANGED <<poffset, pblocks, plive, pchain, pheld>>
  BY DEF Pool!Write
<1>2. pword' \in [Pool!Slots -> Pool!Word]
  BY <1>1 DEF Pool!Word
<1>3. \A i \in DOMAIN pchain : pword'[pchain[i]] = pword[pchain[i]]
  BY <1>1 DEF ToSet
<1>4. QED BY PoolToSet, <1>1, <1>2, <1>3
          DEF PoolInv, Pool!TypeOK, Pool!SlotsPartitioned, Pool!FreeListIntact

LEMMA PoolStep == ASSUME Pool!PoolAssumption, PoolInv, [Pool!Next]_(Pool!vars) PROVE PoolInv'
<1>1. CASE Pool!AllocRecycled    BY <1>1, PoolAllocRecycledInv
<1>2. CASE Pool!AllocOffset      BY <1>2, PoolAllocOffsetInv
<1>3. CASE Pool!Free             BY <1>3, PoolFreeInv
<1>4. CASE Pool!Clear            BY <1>4, PoolClearInv
<1>5. CASE Pool!Write            BY <1>5, PoolWriteInv
<1>6. CASE UNCHANGED Pool!vars
  BY PoolToSet, <1>6 DEF Pool!vars, PoolInv, Pool!TypeOK, Pool!SlotsPartitioned, Pool!FreeListIntact
<1>7. QED BY <1>1, <1>2, <1>3, <1>4, <1>5, <1>6 DEF Pool!Next

(* With an empty free list and no room at the offset, every slot is held.   *)
LEMMA PoolFullMeansLive == ASSUME Pool!PoolAssumption, PoolInv PROVE Pool!FailsOnlyWhenFull
<1> SUFFICES ASSUME Pool!Exhausted PROVE plive = Pool!Slots
  BY DEF Pool!FailsOnlyWhenFull
<1>1. pchain = << >> /\ ToSet(pchain) = {}
  BY PoolFacts, EmptyChain DEF Pool!Exhausted
<1>2. poffset = PoolSlots
  BY PoolFacts DEF Pool!Exhausted, Pool!HasRoom
<1>3. QED BY <1>1, <1>2, PoolFacts DEF Pool!Slots

-----------------------------------------------------------------------------
(* Refinement: every call is a step of the abstract allocator on the slots  *)
(* the client holds.                                                        *)

(* A slot handed out is one the client does not hold.                       *)
LEMMA PoolAllocStep ==
  ASSUME NEW s, s \notin plive, plive' = plive \union {s}, pheld' = pheld + 1,
         \A t \in plive : pword'[t] = pword[t]
  PROVE  Pool!Abs!Alloc
BY DEF Pool!Abs!Alloc, Pool!Abs!Keeps

LEMMA PoolFreeStep ==
  ASSUME NEW s \in plive, plive' = plive \ {s}, pheld' = pheld - 1,
         \A t \in plive \ {s} : pword'[t] = pword[t]
  PROVE  Pool!Abs!Free
BY DEF Pool!Abs!Free, Pool!Abs!Keeps

LEMMA PoolAbsStep ==
  ASSUME Pool!PoolAssumption, PoolInv, [Pool!Next]_(Pool!vars)
  PROVE  [Pool!Abs!Next]_<<[s \in plive |-> pword[s]], pheld>>
<1> SUFFICES Pool!Abs!Next \/ UNCHANGED <<[s \in plive |-> pword[s]], pheld>>
  OBVIOUS
<1> USE PoolFacts
<1>1. CASE Pool!AllocRecycled
  <2>1. pblocks \notin plive /\ \A t \in plive : pword'[t] = pword[t]
    BY <1>1 DEF Pool!AllocRecycled
  <2>2. plive' = plive \union {pblocks} /\ pheld' = pheld + 1
    BY <1>1 DEF Pool!AllocRecycled
  <2>3. QED BY <2>1, <2>2, PoolAllocStep DEF Pool!Abs!Next
<1>2. CASE Pool!AllocOffset
  <2>1. poffset \notin plive /\ \A t \in plive : pword'[t] = pword[t]
    BY <1>2 DEF Pool!AllocOffset
  <2>2. plive' = plive \union {poffset} /\ pheld' = pheld + 1
    BY <1>2 DEF Pool!AllocOffset
  <2>3. QED BY <2>1, <2>2, PoolAllocStep DEF Pool!Abs!Next
<1>3. CASE Pool!Free
  <2>1. PICK s \in plive : /\ plive' = plive \ {s} /\ pheld' = pheld - 1
                           /\ \/ pword' = pword
                              \/ pword' = [pword EXCEPT ![s] = Pool!Link]
    BY <1>3 DEF Pool!Free
  <2>2. \A t \in plive \ {s} : pword'[t] = pword[t]
    BY <2>1
  <2>3. QED BY <2>1, <2>2, PoolFreeStep DEF Pool!Abs!Next
<1>4. CASE Pool!Clear
  BY <1>4 DEF Pool!Clear, Pool!Abs!Next, Pool!Abs!Clear
<1>5. CASE Pool!Write
  <2>1. PICK s \in plive, d \in Data : /\ pword' = [pword EXCEPT ![s] = d]
                                       /\ UNCHANGED <<poffset, pblocks, plive, pchain, pheld>>
    BY <1>5 DEF Pool!Write
  <2>2. \A t \in plive \ {s} : pword'[t] = pword[t]
    BY <2>1
  <2>3. QED BY <2>1, <2>2 DEF Pool!Abs!Next, Pool!Abs!Write, Pool!Abs!Keeps
<1>6. CASE UNCHANGED Pool!vars
  BY <1>6 DEF Pool!vars
<1>7. QED BY <1>1, <1>2, <1>3, <1>4, <1>5, <1>6 DEF Pool!Next

LEMMA PoolAssumed == Pool!PoolAssumption
BY ProgramAssumption

(* A program's steps are steps of its pool or leave it alone.               *)
LEMMA PoolAlone == SpecAll => Pool!Spec
<1>1. InitAll => Pool!Init
  BY DEF InitAll
<1>2. [NextAll]_allVars => [Pool!Next]_(Pool!vars)
  BY DEF NextAll, allVars, poolVars, Pool!vars
<1>3. QED BY <1>1, <1>2, PTL DEF SpecAll, Pool!Spec

(* pool_alloc and pool_free account for every slot of the pool, once and    *)
(* never twice, keep the list threaded through the free ones whatever the   *)
(* clients write, and pool_alloc fails only when the clients hold them all, *)
(* whatever else the program does.                                          *)
THEOREM PoolInProgram == SpecAll => []PoolSafe
<1>1. Pool!Init => PoolInv                          BY PoolAssumed, PoolInitInv
<1>2. PoolInv /\ [Pool!Next]_(Pool!vars) => PoolInv'  BY PoolAssumed, PoolStep
<1>3. PoolInv => PoolSafe
  BY PoolAssumed, PoolFullMeansLive DEF PoolInv, PoolSafe, Pool!PoolSafe
<1>4. QED BY <1>1, <1>2, <1>3, PoolAlone, PTL DEF Pool!Spec

(* It implements the abstract allocator.                                    *)
THEOREM PoolInProgramImplements == SpecAll => PoolAbsSpec
<1>1. Pool!Init => PoolInv                          BY PoolAssumed, PoolInitInv
<1>2. PoolInv /\ [Pool!Next]_(Pool!vars) => PoolInv'  BY PoolAssumed, PoolStep
<1>3. Pool!Init => Pool!Abs!Init                    BY DEF Pool!Init, Pool!Abs!Init
<1>4. PoolInv /\ [Pool!Next]_(Pool!vars)
        => [Pool!Abs!Next]_<<[s \in plive |-> pword[s]], pheld>>
  BY PoolAssumed, PoolAbsStep
<1>5. QED BY <1>1, <1>2, <1>3, <1>4, PoolAlone, PTL
          DEF Pool!Spec, PoolAbsSpec, Pool!PoolAbsSpec, Pool!Abs!Spec

-----------------------------------------------------------------------------
(* The arena, for a first page of any size, any number of pages, and any    *)
(* requests.                                                                *)

(* An unsigned value below the modulus does not wrap.                       *)
LEMMA NoWrap ==
  ASSUME NEW m \in Nat, NEW x \in 0 .. m - 1
  PROVE  x % m = x
OBVIOUS

ArenaPageRec == [size : Nat, offset : Nat]
ArenaBlock == [page : Ar!Pages, from : Nat, size : ArenaRequests]

(* The size of the page at each depth.                                      *)
ArenaPageSize == CHOOSE size \in [1 .. ArenaPages -> 0 .. Modulus - 1] : Ar!Doubling(size)

(* No cell belongs to two blocks.                                           *)
ArenaApart(b, t) ==
  \/ b.page # t.page
  \/ b.from + b.size <= t.from
  \/ t.from + t.size <= b.from

(* A page whose blocks lie one after the other below its offset, and whose  *)
(* offset is inside it.                                                     *)
ArenaStacked(p) ==
  /\ acurr[p].offset <= acurr[p].size
  /\ \A b \in alive : b.page = p => b.from + b.size <= acurr[p].offset
  /\ \A b, t \in alive : b.page = p /\ t.page = p /\ b # t => ArenaApart(b, t)

(* The inductive invariant.  InsideUnlessTooSmall needs the offsets inside  *)
(* their pages and each page's exact size: only then does the unsigned      *)
(* difference in arena_alloc measure the room that is left.                 *)
ArenaInv ==
  /\ Ar!TypeOK
  /\ alive \subseteq ArenaBlock
  /\ \A p \in 1 .. Len(acurr) : /\ acurr[p].size = ArenaPageSize[p]
                                /\ Ar!TooSmall(p) \/ ArenaStacked(p)

-----------------------------------------------------------------------------
LEMMA ArenaSizesDouble ==
  ASSUME Ar!ArenaAssumption
  PROVE  /\ ArenaPageSize \in [1 .. ArenaPages -> 0 .. Modulus - 1]
         /\ ArenaPageSize[1] = ArenaSize
         /\ \A p \in 1 .. ArenaPages - 1 : ArenaPageSize[p + 1] = 2 * ArenaPageSize[p]
BY DEF Ar!ArenaAssumption, ArenaPageSize, Ar!Doubling

LEMMA ArenaBlockTyped ==
  ASSUME Ar!ArenaAssumption, NEW b \in ArenaBlock
  PROVE  /\ b.page \in Ar!Pages /\ b.page \in Nat /\ b.from \in Nat /\ b.size \in ArenaRequests
         /\ b.size \in Nat \ {0} /\ b.size \in 0 .. Modulus - 1
<1>1. b.page \in Ar!Pages /\ b.from \in Nat /\ b.size \in ArenaRequests
  BY DEF ArenaBlock
<1>2. \A size \in ArenaRequests : size \in Nat \ {0} /\ size \in 0 .. Modulus - 1
  BY DEF Ar!ArenaAssumption
<1>3. b.page \in Nat
  BY <1>1 DEF Ar!Pages, Ar!ArenaAssumption
<1>4. QED BY <1>1, <1>2, <1>3

(* What is known of the stack of pages.                                     *)
LEMMA ArenaFacts ==
  ASSUME Ar!ArenaAssumption, ArenaInv
  PROVE  /\ ArenaSize \in Nat \ {0} /\ ArenaPages \in Nat \ {0} /\ Modulus \in Nat
         /\ acurr \in Seq(ArenaPageRec) /\ Len(acurr) \in 1 .. ArenaPages
         /\ \A p \in 1 .. Len(acurr) : /\ acurr[p] \in ArenaPageRec
                                       /\ acurr[p].size = ArenaPageSize[p]
                                       /\ acurr[p].size \in 0 .. Modulus - 1
                                       /\ acurr[p].offset \in Nat
<1>1. /\ ArenaSize \in Nat \ {0} /\ ArenaPages \in Nat \ {0} /\ Modulus \in Nat
      /\ acurr \in Seq(ArenaPageRec) /\ Len(acurr) \in 1 .. ArenaPages
  BY DEF Ar!ArenaAssumption, ArenaInv, Ar!TypeOK, ArenaPageRec
<1>2. ASSUME NEW p \in 1 .. Len(acurr)
      PROVE  /\ acurr[p] \in ArenaPageRec
             /\ acurr[p].size = ArenaPageSize[p]
             /\ acurr[p].size \in 0 .. Modulus - 1
             /\ acurr[p].offset \in Nat
  <2>1. acurr[p] \in ArenaPageRec /\ p \in 1 .. ArenaPages
    BY <1>1
  <2>2. acurr[p].size = ArenaPageSize[p]
    BY DEF ArenaInv
  <2>3. acurr[p].size \in 0 .. Modulus - 1
    BY <2>1, <2>2, ArenaSizesDouble
  <2>4. acurr[p].offset \in Nat
    BY <2>1 DEF ArenaPageRec
  <2>5. QED BY <2>1, <2>2, <2>3, <2>4
<1>3. QED BY <1>1, <1>2

(* The page arena_alloc takes the block from: the current one, unless the   *)
(* request does not fit the difference it computes; a new one is twice the  *)
(* size.                                                                    *)
LEMMA ArenaPagesForShape ==
  ASSUME Ar!ArenaAssumption, ArenaInv, NEW size \in ArenaRequests, Len(Ar!PagesFor(size)) <= ArenaPages
  PROVE  LET stack == Ar!PagesFor(size)
             n == Len(stack)
             m == Len(acurr)
         IN  /\ stack \in Seq(ArenaPageRec) /\ n \in 1 .. ArenaPages
             /\ Ar!Last(stack) = stack[n]
             /\ \A p \in 1 .. m : stack[p] = acurr[p]
             /\ stack[n].size = ArenaPageSize[n] /\ stack[n].offset \in Nat
             /\ \/ /\ n = m
                   /\ acurr[m].offset <= acurr[m].size => acurr[m].offset + size <= acurr[m].size
                \/ n = m + 1 /\ stack[n].offset = 0
<1> DEFINE m == Len(acurr)
<1>1. /\ m \in 1 .. ArenaPages /\ acurr \in Seq(ArenaPageRec) /\ Ar!Last(acurr) = acurr[m]
      /\ ArenaPages \in Nat \ {0} /\ Modulus \in Nat
      /\ acurr[m].size \in 0 .. Modulus - 1 /\ acurr[m].offset \in Nat
      /\ acurr[m].size = ArenaPageSize[m]
  BY ArenaFacts DEF Ar!Last
<1>2. size \in Nat
  BY DEF Ar!ArenaAssumption
<1>3. acurr[m].offset <= acurr[m].size => Ar!Room = acurr[m].size - acurr[m].offset
  <2>1. SUFFICES ASSUME acurr[m].offset <= acurr[m].size
                 PROVE  Ar!Room = acurr[m].size - acurr[m].offset
    OBVIOUS
  <2>2. acurr[m].size - acurr[m].offset \in 0 .. Modulus - 1
    BY <1>1, <2>1
  <2>3. QED BY <1>1, <2>2, NoWrap DEF Ar!Room
<1>4. CASE ~Ar!NeedsPage(size)
  <2>1. Ar!PagesFor(size) = acurr
    BY <1>4 DEF Ar!PagesFor
  <2>2. acurr[m].offset <= acurr[m].size => acurr[m].offset + size <= acurr[m].size
    BY <1>1, <1>2, <1>3, <1>4 DEF Ar!NeedsPage
  <2>3. QED BY <1>1, <2>1, <2>2
<1>5. CASE Ar!NeedsPage(size)
  <2> DEFINE new == Ar!construct_page(2, Ar!Last(acurr).size)
             stack == Append(acurr, new)
  <2>1. Ar!PagesFor(size) = stack
    BY <1>5 DEF Ar!PagesFor
  <2>2. Len(stack) = m + 1 /\ m + 1 \in 1 .. ArenaPages /\ m \in 1 .. ArenaPages - 1
    BY <1>1, <2>1
  <2>3. new.size = ArenaPageSize[m + 1] /\ new.offset = 0 /\ new \in ArenaPageRec
    <3>1. ArenaPageSize[m + 1] = 2 * acurr[m].size /\ ArenaPageSize[m + 1] \in 0 .. Modulus - 1
      BY <1>1, <2>2, ArenaSizesDouble
    <3>2. (2 * acurr[m].size) % Modulus = 2 * acurr[m].size
      BY <1>1, <3>1, NoWrap
    <3>3. QED BY <1>1, <3>1, <3>2 DEF Ar!construct_page, ArenaPageRec
  <2> HIDE DEF new
  <2>4. /\ stack \in Seq(ArenaPageRec)
        /\ \A p \in 1 .. m : stack[p] = acurr[p]
        /\ stack[m + 1] = new
    BY <1>1, <2>3, AppendProperties
  <2>5. Ar!Last(stack) = stack[m + 1]
    BY <2>2 DEF Ar!Last
  <2> HIDE DEF stack
  <2>6. QED BY <1>1, <2>1, <2>2, <2>3, <2>4, <2>5
<1>6. QED BY <1>4, <1>5

(* After the allocation that page alone has another offset: the block's end, *)
(* if that is inside the page or the block the first of it.                 *)
LEMMA ArenaAdvancedShape ==
  ASSUME Ar!ArenaAssumption, NEW stack \in Seq(ArenaPageRec), NEW size \in ArenaRequests,
         Len(stack) \in 1 .. ArenaPages, stack[Len(stack)].size = ArenaPageSize[Len(stack)]
  PROVE  LET n == Len(stack)
             new == Ar!Advanced(stack, size)
         IN  /\ new \in Seq(ArenaPageRec) /\ Len(new) = n
             /\ \A p \in 1 .. n - 1 : new[p] = stack[p]
             /\ new[n].size = stack[n].size
             /\ \/ stack[n].offset + size <= stack[n].size
                \/ stack[n].offset = 0
                => new[n].offset = stack[n].offset + size
<1> DEFINE n == Len(stack)
           off == (stack[n].offset + size) % Modulus
           new == Ar!Advanced(stack, size)
<1>1. /\ n \in 1 .. ArenaPages /\ n \in Nat /\ n \in 1 .. n
      /\ stack[n] \in ArenaPageRec /\ stack[n].size \in Nat /\ stack[n].offset \in Nat
      /\ stack[n].size = ArenaPageSize[n]
  <2>1. n \in 1 .. ArenaPages /\ n \in Nat /\ n \in 1 .. n
    BY DEF Ar!ArenaAssumption
  <2> HIDE DEF n
  <2>2. stack[n] \in ArenaPageRec /\ stack[n].size = ArenaPageSize[n]
    BY <2>1 DEF n
  <2>3. QED BY <2>1, <2>2 DEF ArenaPageRec
<1>2. /\ ArenaPageSize[n] \in 0 .. Modulus - 1 /\ Modulus \in Nat /\ Modulus # 0
      /\ size \in 1 .. Modulus - 1
  BY <1>1, ArenaSizesDouble DEF Ar!ArenaAssumption
<1>3. off \in Nat
  BY <1>1, <1>2
<1>4. stack[n].offset + size <= stack[n].size \/ stack[n].offset = 0
        => off = stack[n].offset + size
  <2>1. SUFFICES ASSUME stack[n].offset + size <= stack[n].size \/ stack[n].offset = 0
                 PROVE  off = stack[n].offset + size
    OBVIOUS
  <2>2. stack[n].offset + size \in 0 .. Modulus - 1
    BY <1>1, <1>2, <2>1
  <2>3. QED BY <1>2, <2>2, NoWrap
<1> HIDE DEF off
<1>5. [stack[n] EXCEPT !.offset = off] \in ArenaPageRec
  BY <1>1, <1>3 DEF ArenaPageRec
<1>6. new = [stack EXCEPT ![n] = [stack[n] EXCEPT !.offset = off]]
  BY DEF Ar!Advanced, off
<1> HIDE DEF new
<1>7. new \in Seq(ArenaPageRec) /\ Len(new) = n
  BY <1>1, <1>5, <1>6, ExceptSeq
<1>8. /\ \A p \in 1 .. n - 1 : new[p] = stack[p]
      /\ new[n] = [stack[n] EXCEPT !.offset = off]
  <2>1. DOMAIN stack = 1 .. n
    BY <1>1
  <2> HIDE DEF n
  <2>2. QED BY <1>1, <1>6, <2>1
<1>9. new[n].size = stack[n].size /\ new[n].offset = off
  BY <1>1, <1>8 DEF ArenaPageRec
<1>10. QED BY <1>4, <1>7, <1>8, <1>9 DEF new

(* What an allocation does: a block at the end of the last page, which may  *)
(* be a new one, and nothing written in another block.                      *)
ArenaGranted(b) ==
  /\ b \in ArenaBlock
  /\ alive' = alive \union {b} /\ aheld < MaxHeld /\ aheld' = aheld + 1
  /\ abytes' \in [Ar!Cells -> Ar!Content]
  /\ \A c \in Ar!Cells \ Ar!CellsOf(b) : abytes'[c] = abytes[c]
  /\ acurr' \in Seq(ArenaPageRec) /\ Len(acurr') \in 1 .. ArenaPages /\ b.page = Len(acurr')
  /\ \A p \in 1 .. Len(acurr') : acurr'[p].size = ArenaPageSize[p]
  /\ \A p \in 1 .. Len(acurr') - 1 : p \in 1 .. Len(acurr) /\ acurr'[p] = acurr[p]
  /\ \/ /\ Len(acurr') = Len(acurr) /\ b.from = acurr[b.page].offset
        /\ b.from <= acurr[b.page].size => b.from + b.size <= acurr[b.page].size
     \/ Len(acurr') = Len(acurr) + 1 /\ b.from = 0
  /\ b.from + b.size <= acurr'[b.page].size \/ b.from = 0
       => acurr'[b.page].offset = b.from + b.size

LEMMA ArenaAllocGrants ==
  ASSUME Ar!ArenaAssumption, ArenaInv, Ar!Alloc
  PROVE  \E b : ArenaGranted(b)
<1>1. PICK size \in ArenaRequests, zeroed \in BOOLEAN :
        LET stack == Ar!PagesFor(size)
            b == [page |-> Len(stack), from |-> Ar!Last(stack).offset, size |-> size]
        IN  /\ Len(stack) <= ArenaPages /\ aheld < MaxHeld
            /\ acurr' = Ar!Advanced(stack, size)
            /\ alive' = alive \union {b}
            /\ aheld' = aheld + 1
            /\ abytes' = IF zeroed THEN Ar!Fill(b, ZERO) ELSE abytes
  BY DEF Ar!Alloc
<1> DEFINE stack == Ar!PagesFor(size)
           n == Len(stack)
           m == Len(acurr)
           b == [page |-> n, from |-> Ar!Last(stack).offset, size |-> size]
<1>2. /\ Len(stack) <= ArenaPages /\ acurr' = Ar!Advanced(stack, size)
      /\ alive' = alive \union {b} /\ aheld < MaxHeld /\ aheld' = aheld + 1
      /\ abytes' = IF zeroed THEN Ar!Fill(b, ZERO) ELSE abytes
  BY <1>1
<1>3. /\ stack \in Seq(ArenaPageRec) /\ n \in 1 .. ArenaPages
      /\ Ar!Last(stack) = stack[n]
      /\ \A p \in 1 .. m : stack[p] = acurr[p]
      /\ stack[n].size = ArenaPageSize[n] /\ stack[n].offset \in Nat
      /\ \/ /\ n = m
            /\ acurr[m].offset <= acurr[m].size => acurr[m].offset + size <= acurr[m].size
         \/ n = m + 1 /\ stack[n].offset = 0
  BY <1>2, ArenaPagesForShape
<1>4. m \in 1 .. ArenaPages /\ ArenaPages \in Nat /\ \A p \in 1 .. m : acurr[p].size = ArenaPageSize[p]
  BY ArenaFacts
<1> HIDE DEF stack
<1>5. /\ acurr' \in Seq(ArenaPageRec) /\ Len(acurr') = n
      /\ \A p \in 1 .. n - 1 : acurr'[p] = stack[p]
      /\ acurr'[n].size = stack[n].size
      /\ \/ stack[n].offset + size <= stack[n].size
         \/ stack[n].offset = 0
         => acurr'[n].offset = stack[n].offset + size
  BY <1>2, <1>3, ArenaAdvancedShape
<1>6. b \in ArenaBlock /\ b.page = n /\ b.from = stack[n].offset /\ b.size = size
  BY <1>3 DEF ArenaBlock, Ar!Pages
<1>7. /\ abytes' \in [Ar!Cells -> Ar!Content]
      /\ \A c \in Ar!Cells \ Ar!CellsOf(b) : abytes'[c] = abytes[c]
  <2>1. abytes \in [Ar!Cells -> Ar!Content] /\ ZERO \in Ar!Content
    BY DEF ArenaInv, Ar!TypeOK, Ar!Content
  <2> HIDE DEF b
  <2>2. QED BY <1>2, <2>1 DEF Ar!Fill
<1> HIDE DEF b
<1>8. \A p \in 1 .. n - 1 : p \in 1 .. m /\ acurr'[p] = acurr[p]
  <2> HIDE DEF n, m
  <2>1. \A p \in 1 .. n - 1 : p \in 1 .. m
    BY <1>3, <1>4
  <2>2. QED BY <1>3, <1>5, <2>1
<1>9. \A p \in 1 .. n : acurr'[p].size = ArenaPageSize[p]
  <2> HIDE DEF n, m
  <2>1. \A p \in 1 .. n : p = n \/ p \in 1 .. n - 1
    BY <1>3, <1>4
  <2>2. QED BY <1>3, <1>4, <1>5, <1>8, <2>1
<1>10. \/ /\ n = m /\ b.from = acurr[b.page].offset
          /\ b.from <= acurr[b.page].size => b.from + b.size <= acurr[b.page].size
       \/ n = m + 1 /\ b.from = 0
  <2> HIDE DEF n, m
  <2>1. CASE n = m
    <3>1. stack[n] = acurr[n]
      BY <1>3, <1>4, <2>1
    <3>2. QED BY <1>3, <1>4, <1>6, <2>1, <3>1
  <2>2. CASE n = m + 1
    BY <1>3, <1>4, <1>6, <2>2
  <2>3. QED BY <1>3, <2>1, <2>2
<1>11. ArenaGranted(b)
  BY <1>2, <1>3, <1>5, <1>6, <1>7, <1>8, <1>9, <1>10 DEF ArenaGranted
<1>12. QED BY <1>11

(* The new block is apart from every other one of a page whose blocks are   *)
(* stacked.                                                                 *)
LEMMA ArenaGrantedApart ==
  ASSUME Ar!ArenaAssumption, ArenaInv, NEW b, ArenaGranted(b), NEW t \in alive,
         t.page = b.page => ArenaStacked(t.page)
  PROVE  ArenaApart(t, b) /\ ArenaApart(b, t) /\ t # b
<1>1. t \in ArenaBlock /\ b \in ArenaBlock /\ t.page \in 1 .. Len(acurr) /\ Len(acurr) \in Nat
  BY ArenaFacts DEF ArenaInv, Ar!TypeOK, ArenaGranted
<1>2. CASE t.page # b.page
  BY <1>2 DEF ArenaApart
<1>3. CASE t.page = b.page
  <2>1. t.from + t.size <= acurr[b.page].offset
    BY <1>3 DEF ArenaStacked
  <2>2. b.from = acurr[b.page].offset
    BY <1>1, <1>3 DEF ArenaGranted
  <2>3. t.from \in Nat /\ b.from \in Nat /\ t.size \in Nat \ {0}
    BY <1>1, ArenaBlockTyped
  <2>4. QED BY <2>1, <2>2, <2>3 DEF ArenaApart
<1>4. QED BY <1>2, <1>3

(* Filling a block changes none of the cells of a block apart from it.      *)
LEMMA ArenaApartCells ==
  ASSUME Ar!ArenaAssumption, NEW b \in ArenaBlock, NEW t \in ArenaBlock, ArenaApart(b, t)
  PROVE  Ar!CellsOf(b) \intersect Ar!CellsOf(t) = {}
<1>1. SUFFICES ASSUME NEW c \in Ar!CellsOf(b), c \in Ar!CellsOf(t) PROVE FALSE
  OBVIOUS
<1>2. /\ c[1] = b.page /\ c[2] \in b.from .. b.from + b.size - 1
      /\ c[1] = t.page /\ c[2] \in t.from .. t.from + t.size - 1
  BY <1>1 DEF Ar!CellsOf
<1>3. QED BY <1>2, ArenaBlockTyped DEF ArenaApart

-----------------------------------------------------------------------------
(* The invariant holds initially and is preserved.                          *)
LEMMA ArenaInitInv == ASSUME Ar!ArenaAssumption, Ar!Init PROVE ArenaInv
<1>1. ArenaSize % Modulus = ArenaSize /\ ArenaSize \in Nat /\ ArenaPageSize[1] = ArenaSize
      /\ ArenaPages \in Nat \ {0} /\ MaxHeld \in Nat
  <2>1. 1 \in 1 .. ArenaPages /\ Modulus \in Nat /\ MaxHeld \in Nat
    BY DEF Ar!ArenaAssumption
  <2>2. ArenaSize \in 0 .. Modulus - 1
    BY <2>1, ArenaSizesDouble
  <2>3. QED BY <2>1, <2>2, NoWrap, ArenaSizesDouble DEF Ar!ArenaAssumption
<1>2. acurr = << [size |-> ArenaSize, offset |-> 0] >> /\ alive = {} /\ aheld = 0
  BY <1>1 DEF Ar!Init, Ar!construct_page
<1>3. acurr \in Seq(ArenaPageRec) /\ Len(acurr) = 1 /\ acurr[1].size = ArenaSize
      /\ acurr[1].offset = 0
  BY <1>1, <1>2 DEF ArenaPageRec
<1>4. ArenaStacked(1)
  BY <1>1, <1>2, <1>3 DEF ArenaStacked
<1>5. abytes \in [Ar!Cells -> Ar!Content]
  BY DEF Ar!Init, Ar!Content
<1>6. QED BY <1>1, <1>2, <1>3, <1>4, <1>5 DEF ArenaInv, Ar!TypeOK, ArenaPageRec

LEMMA ArenaAllocInv ==
  ASSUME Ar!ArenaAssumption, ArenaInv, Ar!Alloc
  PROVE  ArenaInv'
<1>1. PICK b : ArenaGranted(b)
  BY ArenaAllocGrants
<1> DEFINE m == Len(acurr)
           n == Len(acurr')
<1>2. /\ m \in 1 .. ArenaPages /\ n \in 1 .. ArenaPages /\ ArenaPages \in Nat /\ b.page = n
      /\ n = m \/ n = m + 1
      /\ b \in ArenaBlock /\ b.from \in Nat /\ b.size \in Nat \ {0}
      /\ alive' = alive \union {b}
      /\ alive \subseteq ArenaBlock /\ \A t \in alive : t.page \in 1 .. m
  BY <1>1, ArenaFacts, ArenaBlockTyped DEF ArenaGranted, ArenaInv, Ar!TypeOK
<1> HIDE DEF m, n
<1>3. Ar!TypeOK'
  <2>1. aheld' \in 0 .. MaxHeld
    BY <1>1 DEF ArenaInv, Ar!TypeOK, ArenaGranted, Ar!ArenaAssumption
  <2>2. \A t \in alive' : t.page \in 1 .. n /\ t.size \in ArenaRequests /\ t.from \in Nat
    BY <1>2, ArenaBlockTyped
  <2>3. QED BY <1>1, <2>1, <2>2 DEF Ar!TypeOK, ArenaGranted, ArenaPageRec, n
<1>4. ASSUME NEW p \in 1 .. n, ~Ar!TooSmall(p)' PROVE ArenaStacked(p)'
  <2>1. CASE p # n
    <3>1. p \in 1 .. m /\ acurr'[p] = acurr[p] /\ b.page # p
      <4>1. p \in 1 .. n - 1
        BY <1>2, <2>1
      <4>2. QED BY <1>1, <1>2, <2>1, <4>1 DEF ArenaGranted, m, n
    <3>2. ~Ar!TooSmall(p)
      BY <1>2, <1>4, <3>1 DEF Ar!TooSmall
    <3>3. ArenaStacked(p)
      BY <3>1, <3>2 DEF ArenaInv, m
    <3>4. QED BY <1>2, <3>1, <3>3 DEF ArenaStacked
  <2>2. CASE p = n /\ n = m + 1
    <3>1. b.from = 0 /\ acurr'[p].offset = b.size
      BY <1>1, <1>2, <2>2 DEF ArenaGranted, m, n
    <3>2. \A t \in alive' : t.page = p => t = b
      BY <1>2, <2>2
    <3>3. p > 1 /\ ~(b.size > acurr'[p].size)
      <4>1. p > 1
        BY <1>2, <2>2
      <4>2. QED BY <1>2, <1>4, <2>2, <3>1, <4>1 DEF Ar!TooSmall
    <3>4. acurr'[p].size \in Nat
      <4>1. acurr'[p] \in ArenaPageRec
        BY <1>1, <1>4 DEF ArenaGranted, n
      <4>2. QED BY <4>1 DEF ArenaPageRec
    <3>5. QED BY <1>2, <3>1, <3>2, <3>3, <3>4 DEF ArenaStacked
  <2>3. CASE p = n /\ n = m
    <3>1. p \in 1 .. m /\ acurr'[p].size = acurr[p].size /\ b.page = p
      BY <1>1, <1>2, <2>3, ArenaFacts DEF ArenaGranted, m, n
    <3>2. ~Ar!TooSmall(p)
      BY <1>2, <1>4, <3>1 DEF Ar!TooSmall
    <3>3. ArenaStacked(p)
      BY <3>1, <3>2 DEF ArenaInv, m
    <3>4. acurr[p].offset \in Nat /\ acurr[p].size \in Nat /\ acurr[p].offset <= acurr[p].size
      BY <3>1, <3>3, ArenaFacts DEF ArenaStacked, m
    <3>5. b.from = acurr[p].offset /\ b.from + b.size <= acurr[p].size
      BY <1>1, <1>2, <2>3, <3>1, <3>4 DEF ArenaGranted, m, n
    <3>6. acurr'[p].offset = b.from + b.size
      BY <1>1, <3>1, <3>5 DEF ArenaGranted
    <3>7. \A t \in alive : t.page = p => t.from + t.size <= acurr[p].offset /\ t.from \in Nat /\ t.size \in Nat
      BY <1>2, <3>3, ArenaBlockTyped DEF ArenaStacked
    <3>8. \A t \in alive' : t.page = p => t.from + t.size <= acurr'[p].offset
      BY <1>2, <3>4, <3>5, <3>6, <3>7
    <3>9. \A t, u \in alive' : t.page = p /\ u.page = p /\ t # u => ArenaApart(t, u)
      <4>1. \A t \in alive : t.page = p => ArenaApart(t, b) /\ ArenaApart(b, t)
        BY <1>1, <3>3, ArenaGrantedApart
      <4>2. QED BY <1>2, <3>3, <4>1 DEF ArenaStacked
    <3>10. acurr'[p].offset <= acurr'[p].size
      BY <3>1, <3>5, <3>6
    <3>11. QED BY <3>8, <3>9, <3>10 DEF ArenaStacked, ArenaApart
  <2>4. QED BY <1>2, <2>1, <2>2, <2>3
<1>5. \A p \in 1 .. n : acurr'[p].size = ArenaPageSize[p]
  BY <1>1 DEF ArenaGranted, n
<1>6. alive' \subseteq ArenaBlock
  BY <1>2
<1>7. QED BY <1>3, <1>4, <1>5, <1>6 DEF ArenaInv, n

LEMMA ArenaClearInv ==
  ASSUME Ar!ArenaAssumption, ArenaInv, Ar!Clear
  PROVE  ArenaInv'
<1>1. /\ acurr[1] \in ArenaPageRec /\ acurr[1].size = ArenaPageSize[1] /\ acurr[1].size \in Nat
      /\ ArenaPages \in Nat \ {0} /\ MaxHeld \in Nat
  BY ArenaFacts DEF Ar!ArenaAssumption
<1>2. /\ acurr' = << [acurr[1] EXCEPT !.offset = 0] >> /\ alive' = {} /\ aheld' = 0
      /\ abytes' = [c \in Ar!Cells |-> IF c[1] = 1 THEN abytes[c] ELSE JUNK]
  BY DEF Ar!Clear
<1>3. /\ acurr' \in Seq(ArenaPageRec) /\ Len(acurr') = 1
      /\ acurr'[1].size = acurr[1].size /\ acurr'[1].offset = 0
  BY <1>1, <1>2 DEF ArenaPageRec
<1>4. ArenaStacked(1)'
  BY <1>1, <1>2, <1>3 DEF ArenaStacked
<1>5. abytes' \in [Ar!Cells -> Ar!Content]
  BY <1>2 DEF ArenaInv, Ar!TypeOK, Ar!Content
<1>6. Ar!TypeOK'
  BY <1>1, <1>2, <1>3, <1>5 DEF Ar!TypeOK, ArenaPageRec
<1>7. \A p \in 1 .. Len(acurr') : p = 1
  BY <1>3
<1>8. QED BY <1>1, <1>2, <1>3, <1>4, <1>6, <1>7 DEF ArenaInv

LEMMA ArenaWriteInv ==
  ASSUME Ar!ArenaAssumption, ArenaInv, Ar!Write
  PROVE  ArenaInv'
<1>1. PICK b \in alive, v \in Data : abytes' = Ar!Fill(b, v) /\ UNCHANGED <<acurr, alive, aheld>>
  BY DEF Ar!Write
<1>2. abytes' \in [Ar!Cells -> Ar!Content]
  BY <1>1 DEF ArenaInv, Ar!TypeOK, Ar!Content, Ar!Fill
<1>3. QED BY <1>1, <1>2 DEF ArenaInv, Ar!TypeOK, Ar!TooSmall, ArenaStacked, ArenaApart

LEMMA ArenaStep ==
  ASSUME Ar!ArenaAssumption, ArenaInv, [Ar!Next]_(Ar!vars)
  PROVE  ArenaInv'
<1>1. CASE Ar!Alloc   BY <1>1, ArenaAllocInv
<1>2. CASE Ar!Clear   BY <1>2, ArenaClearInv
<1>3. CASE Ar!Write   BY <1>3, ArenaWriteInv
<1>4. CASE UNCHANGED Ar!vars
  BY <1>4 DEF Ar!vars, ArenaInv, Ar!TypeOK, Ar!TooSmall, ArenaStacked, ArenaApart
<1>5. QED BY <1>1, <1>2, <1>3, <1>4 DEF Ar!Next

(* A page that was large enough for the request it was made for keeps its   *)
(* blocks inside.                                                           *)
LEMMA ArenaInvSafe == ASSUME Ar!ArenaAssumption, ArenaInv PROVE Ar!ArenaSafe
<1>1. SUFFICES ASSUME NEW b \in alive, ~Ar!TooSmall(b.page) PROVE Ar!Inside(b)
  BY DEF ArenaInv, Ar!ArenaSafe, Ar!InsideUnlessTooSmall
<1>2. b \in ArenaBlock /\ b.page \in 1 .. Len(acurr)
  BY DEF ArenaInv, Ar!TypeOK
<1>3. ArenaStacked(b.page)
  BY <1>1, <1>2 DEF ArenaInv
<1>4. /\ b.from + b.size <= acurr[b.page].offset /\ acurr[b.page].offset <= acurr[b.page].size
      /\ acurr[b.page].offset \in Nat /\ acurr[b.page].size \in Nat
      /\ b.from \in Nat /\ b.size \in Nat
  BY <1>2, <1>3, ArenaFacts, ArenaBlockTyped DEF ArenaStacked
<1>5. QED BY <1>4 DEF Ar!Inside

(* alloc_arena and calloc_arena hand out memory beyond the page it is taken *)
(* from only after a page was made, twice the size of the last one, that is *)
(* too small for the very request it was made for: whatever the sizes asked *)
(* for, their order, and the clears between.                                *)
THEOREM ArenaInside == ASSUME Ar!ArenaAssumption PROVE Ar!Spec => []Ar!ArenaSafe
<1>1. Ar!Init => ArenaInv   BY ArenaInitInv
<1>2. ArenaInv /\ [Ar!Next]_(Ar!vars) => ArenaInv'   BY ArenaStep
<1>3. ArenaInv => Ar!ArenaSafe   BY ArenaInvSafe
<1>4. QED BY <1>1, <1>2, <1>3, PTL DEF Ar!Spec

-----------------------------------------------------------------------------
(* Refinement: what the cells of a block hold is its content.               *)

(* A new block is handed out and the others keep their content.             *)
LEMMA ArenaAllocStep ==
  ASSUME NEW b, b \notin alive, alive' = alive \union {b}, aheld' = aheld + 1,
         \A t \in alive : \A c \in Ar!CellsOf(t) : abytes'[c] = abytes[c]
  PROVE  Ar!Abs!Alloc
BY DEF Ar!Abs!Alloc, Ar!Abs!Keeps, Ar!Store

(* A block is written and the others keep their content.                    *)
LEMMA ArenaWriteStep ==
  ASSUME NEW b \in alive, alive' = alive, aheld' = aheld,
         \A t \in alive \ {b} : \A c \in Ar!CellsOf(t) : abytes'[c] = abytes[c]
  PROVE  Ar!Abs!Write
BY DEF Ar!Abs!Write, Ar!Abs!Keeps, Ar!Store

(* A page with its blocks inside was not too small.                         *)
LEMMA ArenaInsideStacked ==
  ASSUME Ar!ArenaAssumption, ArenaInv, NEW p \in 1 .. Len(acurr),
         \A t \in alive : t.page = p => Ar!Inside(t)
  PROVE  ArenaStacked(p)
<1>1. SUFFICES ASSUME Ar!TooSmall(p) PROVE FALSE
  BY DEF ArenaInv
<1>2. PICK b \in alive : b.page = p /\ b.from = 0 /\ b.size > acurr[p].size
  BY <1>1 DEF Ar!TooSmall
<1>3. b.size \in Nat /\ acurr[p].size \in Nat /\ b.from + b.size <= acurr[p].size
  BY <1>2, ArenaBlockTyped, ArenaFacts DEF ArenaInv, Ar!Inside
<1>4. QED BY <1>2, <1>3

LEMMA ArenaAbsStep ==
  ASSUME Ar!ArenaAssumption, ArenaInv, [Ar!Next]_(Ar!vars)
  PROVE  [Ar!BlocksInside' => Ar!Abs!Next]_<<Ar!Store, aheld>>
<1> SUFFICES ASSUME Ar!BlocksInside'
             PROVE  Ar!Abs!Next \/ UNCHANGED <<Ar!Store, aheld>>
  OBVIOUS
<1>0. \A t : Ar!CellsOf(t) \subseteq Ar!Cells
  BY DEF Ar!CellsOf
<1>1. CASE Ar!Alloc
  <2>1. PICK b : ArenaGranted(b)
    BY <1>1, ArenaAllocGrants
  <2>2. b \in ArenaBlock /\ alive' = alive \union {b} /\ aheld' = aheld + 1
    BY <2>1 DEF ArenaGranted
  <2>3. ASSUME NEW t \in alive, t.page = b.page PROVE ArenaStacked(t.page)
    <3>1. t.page \in 1 .. Len(acurr) /\ t.page \in 1 .. Len(acurr')
      BY <2>1, <2>3 DEF ArenaInv, Ar!TypeOK, ArenaGranted
    <3>2. acurr'[t.page].size = acurr[t.page].size
      BY <2>1, <3>1, ArenaFacts DEF ArenaGranted
    <3>3. \A u \in alive : u.page = t.page => Ar!Inside(u)
      BY <2>2, <3>2 DEF Ar!BlocksInside, Ar!Inside
    <3>4. QED BY <3>1, <3>3, ArenaInsideStacked
  <2>4. \A t \in alive : t # b /\ ArenaApart(b, t)
    BY <2>1, <2>3, ArenaGrantedApart
  <2>5. \A t \in alive : Ar!CellsOf(b) \intersect Ar!CellsOf(t) = {}
    BY <2>2, <2>4, ArenaApartCells DEF ArenaInv
  <2>6. \A t \in alive : \A c \in Ar!CellsOf(t) : abytes'[c] = abytes[c]
    BY <1>0, <2>1, <2>5 DEF ArenaGranted
  <2>7. QED BY <2>2, <2>4, <2>6, ArenaAllocStep DEF Ar!Abs!Next
<1>2. CASE Ar!Clear
  BY <1>2 DEF Ar!Clear, Ar!Abs!Next, Ar!Abs!Clear, Ar!Store
<1>3. CASE Ar!Write
  <2>1. PICK b \in alive, v \in Data : abytes' = Ar!Fill(b, v) /\ UNCHANGED <<acurr, alive, aheld>>
    BY <1>3 DEF Ar!Write
  <2>2. Ar!BlocksInside
    BY <2>1 DEF Ar!BlocksInside, Ar!Inside
  <2>3. ASSUME NEW t \in alive \ {b} PROVE ArenaApart(b, t)
    <3>1. b.page \in 1 .. Len(acurr)
      BY DEF ArenaInv, Ar!TypeOK
    <3>2. ArenaStacked(b.page)
      BY <2>2, <3>1, ArenaInsideStacked DEF Ar!BlocksInside
    <3>3. QED BY <3>2 DEF ArenaStacked, ArenaApart
  <2>4. \A t \in alive \ {b} : Ar!CellsOf(b) \intersect Ar!CellsOf(t) = {}
    BY <2>3, ArenaApartCells DEF ArenaInv
  <2>5. \A c \in Ar!Cells \ Ar!CellsOf(b) : abytes'[c] = abytes[c]
    BY <2>1 DEF Ar!Fill
  <2>6. \A t \in alive \ {b} : \A c \in Ar!CellsOf(t) : abytes'[c] = abytes[c]
    BY <1>0, <2>4, <2>5
  <2>7. QED BY <2>1, <2>6, ArenaWriteStep DEF Ar!Abs!Next
<1>4. CASE UNCHANGED Ar!vars
  BY <1>4 DEF Ar!vars, Ar!Store
<1>5. QED BY <1>1, <1>2, <1>3, <1>4 DEF Ar!Next

(* As long as its blocks are inside their pages, the arena implements the   *)
(* abstract allocator.                                                      *)
THEOREM ArenaImplementsAllocator ==
  ASSUME Ar!ArenaAssumption
  PROVE  Ar!Spec => Ar!BlocksAbsSpec
<1>1. Ar!Init => ArenaInv   BY ArenaInitInv
<1>2. ArenaInv /\ [Ar!Next]_(Ar!vars) => ArenaInv'   BY ArenaStep
<1>3. Ar!Init => Ar!Abs!Init   BY DEF Ar!Init, Ar!Abs!Init, Ar!Store
<1>4. ArenaInv /\ [Ar!Next]_(Ar!vars) => [Ar!BlocksInside' => Ar!Abs!Next]_<<Ar!Store, aheld>>
  BY ArenaAbsStep
<1>5. QED BY <1>1, <1>2, <1>3, <1>4, PTL DEF Ar!Spec, Ar!BlocksAbsSpec

-----------------------------------------------------------------------------
(* The bump allocator, for a buffer of any size, and any requests, in both  *)
(* builds.                                                                  *)
BumpBlock == [from : 0 .. Modulus - 1, size : BumpRequests]

(* No cell belongs to two blocks.                                           *)
BumpApart(b, t) == b.from + b.size <= t.from \/ t.from + t.size <= b.from

(* The blocks of a buffer no more was asked of than it has: one after the   *)
(* other up to the offset, which has not wrapped.                           *)
BumpStacked ==
  /\ boffset = basked
  /\ \A b \in blive : b.from + b.size <= basked
  /\ \A b, t \in blive : b # t => BumpApart(b, t)

(* The inductive invariant.  InsideWhileEnough is not inductive alone: that *)
(* the sum of the sizes fits says nothing of the next block unless the      *)
(* offset is that sum.                                                      *)
BumpInv ==
  /\ Bump!TypeOK
  /\ blive \subseteq BumpBlock
  /\ basked <= BumpSize => BumpStacked
  /\ basked > BumpSize => \E b \in blive : b.from + b.size > BumpSize

-----------------------------------------------------------------------------
LEMMA BumpBlockTyped ==
  ASSUME Bump!BumpAssumption, NEW b \in BumpBlock
  PROVE  b.from \in 0 .. Modulus - 1 /\ b.from \in Nat /\ b.size \in Nat \ {0}
         /\ b.size \in BumpRequests
<1>1. b.from \in 0 .. Modulus - 1 /\ b.size \in BumpRequests /\ Modulus \in Nat
  BY DEF BumpBlock, Bump!BumpAssumption
<1>2. \A size \in BumpRequests : size \in Nat \ {0}
  BY DEF Bump!BumpAssumption
<1>3. QED BY <1>1, <1>2

LEMMA BumpFacts ==
  ASSUME Bump!BumpAssumption, BumpInv
  PROVE  /\ BumpSize \in Nat /\ Modulus \in Nat /\ BumpSize < Modulus
         /\ basked \in Nat /\ boffset \in 0 .. Modulus - 1 /\ MaxHeld \in Nat
         /\ \A b \in blive : b.from \in Nat /\ b.size \in Nat \ {0}
BY BumpBlockTyped DEF Bump!BumpAssumption, BumpInv, Bump!TypeOK

(* As long as enough is left, inside the buffer and stacked are the same.   *)
LEMMA BumpInsideStacked ==
  ASSUME Bump!BumpAssumption, BumpInv
  PROVE  /\ Bump!BlocksInside <=> basked <= BumpSize
         /\ Bump!BlocksInside => BumpStacked
<1>1. ASSUME basked <= BumpSize PROVE Bump!BlocksInside
  BY <1>1, BumpFacts DEF BumpInv, BumpStacked, Bump!BlocksInside
<1>2. ASSUME ~(basked <= BumpSize) PROVE ~Bump!BlocksInside
  <2>1. PICK b \in blive : b.from + b.size > BumpSize
    BY <1>2, BumpFacts DEF BumpInv
  <2>2. QED BY <2>1, BumpFacts DEF Bump!BlocksInside
<1>3. QED BY <1>1, <1>2 DEF BumpInv

(* Filling a block changes none of the cells of a block apart from it.      *)
LEMMA BumpApartCells ==
  ASSUME Bump!BumpAssumption, NEW b \in BumpBlock, NEW t \in BumpBlock, BumpApart(b, t),
         b.from + b.size <= BumpSize, t.from + t.size <= BumpSize
  PROVE  Bump!CellsOf(b) \intersect Bump!CellsOf(t) = {}
<1>1. ASSUME NEW u \in BumpBlock, u.from + u.size <= BumpSize
      PROVE  Bump!CellsOf(u) \subseteq u.from .. u.from + u.size - 1
  <2>1. SUFFICES ASSUME NEW c \in u.from .. u.from + u.size - 1
                 PROVE  c % Modulus = c
    BY DEF Bump!CellsOf
  <2>2. c \in 0 .. Modulus - 1 /\ Modulus \in Nat
    BY <1>1, BumpBlockTyped DEF Bump!BumpAssumption
  <2>3. QED BY <2>2, NoWrap
<1>2. /\ b.from \in Nat /\ b.size \in Nat /\ t.from \in Nat /\ t.size \in Nat
  BY BumpBlockTyped
<1>3. (b.from .. b.from + b.size - 1) \intersect (t.from .. t.from + t.size - 1) = {}
  BY <1>2 DEF BumpApart
<1>4. QED BY <1>1, <1>3

LEMMA BumpFillTyped ==
  ASSUME bbytes \in [Bump!Cells -> Bump!Content], NEW b, NEW v \in Bump!Content
  PROVE  /\ Bump!Fill(b, v) \in [Bump!Cells -> Bump!Content]
         /\ \A c \in Bump!Cells \ Bump!CellsOf(b) : Bump!Fill(b, v)[c] = bbytes[c]
BY DEF Bump!Fill

(* An allocation hands out the block at the offset, and writes in no other. *)
BumpGranted(size, b) ==
  /\ bheld < MaxHeld /\ UNCHANGED bdebug
  /\ b = [from |-> boffset, size |-> size]
  /\ boffset' = Bump!Advanced(size) /\ blive' = blive \union {b} /\ bheld' = bheld + 1
  /\ basked' = basked + size
  /\ bbytes' \in [Bump!Cells -> Bump!Content]
  /\ \A c \in Bump!Cells \ Bump!CellsOf(b) : bbytes'[c] = bbytes[c]

LEMMA BumpAllocGrants ==
  ASSUME Bump!BumpAssumption, BumpInv, Bump!Alloc \/ Bump!Calloc \/ Bump!Salloc
  PROVE  \E size \in BumpRequests : \E b : BumpGranted(size, b)
<1>1. bbytes \in [Bump!Cells -> Bump!Content] /\ ZERO \in Bump!Content
      /\ Data \subseteq Bump!Content
  BY DEF BumpInv, Bump!TypeOK, Bump!Content
<1>2. CASE Bump!Alloc
  BY <1>1, <1>2 DEF Bump!Alloc, Bump!Grant, BumpGranted
<1>3. CASE Bump!Calloc
  <2>1. PICK size \in BumpRequests : Bump!Grant(size, LAMBDA b : Bump!Fill(b, ZERO))
    BY <1>3 DEF Bump!Calloc
  <2>2. QED BY <1>1, <2>1, BumpFillTyped DEF Bump!Grant, BumpGranted
<1>4. CASE Bump!Salloc
  <2>1. PICK size \in BumpRequests, v \in Data :
          Bump!Grant(size, LAMBDA b : [c \in Bump!Cells |->
            IF c = (b.from + size - 1) % Modulus THEN ZERO ELSE Bump!Fill(b, v)[c]])
    BY <1>4 DEF Bump!Salloc
  <2> DEFINE b == [from |-> boffset, size |-> size]
  <2>2. /\ bheld < MaxHeld /\ UNCHANGED bdebug
        /\ boffset' = Bump!Advanced(size) /\ blive' = blive \union {b} /\ bheld' = bheld + 1
        /\ basked' = basked + size
        /\ bbytes' = [c \in Bump!Cells |->
                       IF c = (boffset + size - 1) % Modulus THEN ZERO ELSE Bump!Fill(b, v)[c]]
    BY <2>1 DEF Bump!Grant
  <2>3. /\ Bump!Fill(b, v) \in [Bump!Cells -> Bump!Content]
        /\ \A c \in Bump!Cells \ Bump!CellsOf(b) : Bump!Fill(b, v)[c] = bbytes[c]
    BY <1>1, BumpFillTyped
  <2>4. \A c \in Bump!Cells \ Bump!CellsOf(b) : c # (boffset + size - 1) % Modulus
    <3>1. boffset \in Nat /\ size \in Nat \ {0}
      BY BumpFacts DEF Bump!BumpAssumption
    <3>2. boffset + size - 1 \in b.from .. b.from + b.size - 1
      BY <3>1
    <3>3. QED BY <3>2 DEF Bump!CellsOf
  <2>5. bbytes' \in [Bump!Cells -> Bump!Content]
    BY <1>1, <2>2, <2>3
  <2>6. \A c \in Bump!Cells \ Bump!CellsOf(b) : bbytes'[c] = bbytes[c]
    BY <2>2, <2>3, <2>4
  <2>7. QED BY <2>2, <2>5, <2>6 DEF BumpGranted
<1>5. QED BY <1>2, <1>3, <1>4

-----------------------------------------------------------------------------
(* The invariant holds initially and is preserved.                          *)
LEMMA BumpInitInv == ASSUME Bump!BumpAssumption, Bump!Init PROVE BumpInv
BY DEF Bump!BumpAssumption, Bump!Init, BumpInv, Bump!TypeOK, BumpStacked, Bump!Content

(* What a block handed out looks like while enough is left.                 *)
LEMMA BumpGrantEnough ==
  ASSUME Bump!BumpAssumption, BumpInv, NEW size \in BumpRequests, NEW b, BumpGranted(size, b),
         basked' <= BumpSize
  PROVE  /\ BumpStacked /\ boffset' = basked'
         /\ b.from = basked /\ b.from + b.size = basked'
         /\ \A t \in blive : t # b /\ BumpApart(b, t) /\ BumpApart(t, b)
<1>1. size \in Nat \ {0} /\ basked' = basked + size /\ b.from = boffset /\ b.size = size
      /\ boffset' = (boffset + size) % Modulus
  BY DEF BumpGranted, Bump!BumpAssumption, Bump!Advanced
<1>2. basked <= BumpSize /\ BumpStacked /\ boffset = basked
  BY <1>1, BumpFacts DEF BumpInv, BumpStacked
<1>3. (boffset + size) % Modulus = boffset + size
  <2>1. boffset + size \in 0 .. Modulus - 1 /\ Modulus \in Nat
    BY <1>1, <1>2, BumpFacts
  <2>2. QED BY <2>1, NoWrap
<1>4. \A t \in blive : t # b /\ BumpApart(b, t) /\ BumpApart(t, b)
  BY <1>1, <1>2, BumpFacts DEF BumpStacked, BumpApart
<1>5. QED BY <1>1, <1>2, <1>3, <1>4

LEMMA BumpGrantInv ==
  ASSUME Bump!BumpAssumption, BumpInv, Bump!Alloc \/ Bump!Calloc \/ Bump!Salloc
  PROVE  BumpInv'
<1>0. PICK size \in BumpRequests : \E b : BumpGranted(size, b)
  BY BumpAllocGrants
<1>1. PICK b : BumpGranted(size, b)
  BY <1>0
<1>2. /\ size \in 1 .. Modulus - 1 /\ b = [from |-> boffset, size |-> size] /\ b \in BumpBlock
      /\ blive' = blive \union {b} /\ basked' = basked + size
  BY <1>1, BumpFacts DEF BumpGranted, Bump!BumpAssumption, BumpBlock
<1>3. blive' \subseteq BumpBlock
  BY <1>2 DEF BumpInv
<1>4. Bump!TypeOK'
  <2>1. bheld' \in 0 .. MaxHeld /\ bdebug' \in BOOLEAN /\ basked' \in Nat
    BY <1>1, <1>2, BumpFacts DEF BumpGranted, BumpInv, Bump!TypeOK
  <2>2. boffset' \in 0 .. Modulus - 1
    BY <1>1, <1>2, BumpFacts DEF BumpGranted, Bump!Advanced
  <2>3. \A t \in blive' : t.size \in BumpRequests /\ t.from \in 0 .. Modulus - 1
    BY <1>3, BumpBlockTyped
  <2>4. QED BY <1>1, <2>1, <2>2, <2>3 DEF Bump!TypeOK, BumpGranted
<1>5. ASSUME basked' <= BumpSize PROVE BumpStacked'
  <2>1. /\ BumpStacked /\ boffset' = basked' /\ b.from + b.size = basked' /\ basked <= basked'
        /\ \A t \in blive : t # b /\ BumpApart(b, t) /\ BumpApart(t, b)
    BY <1>1, <1>2, <1>5, BumpGrantEnough, BumpFacts
  <2>2. \A t \in blive : t.from + t.size <= basked'
    BY <1>2, <2>1, BumpFacts DEF BumpStacked
  <2>3. \A t \in blive' : t.from + t.size <= basked'
    BY <1>2, <2>1, <2>2, BumpFacts
  <2>4. \A t, u \in blive' : t # u => BumpApart(t, u)
    BY <1>2, <2>1 DEF BumpStacked
  <2>5. QED BY <2>1, <2>3, <2>4 DEF BumpStacked, BumpApart
<1>6. ASSUME basked' > BumpSize PROVE \E t \in blive' : t.from + t.size > BumpSize
  <2>1. CASE basked > BumpSize
    BY <1>2, <2>1 DEF BumpInv
  <2>2. CASE basked <= BumpSize
    <3>1. b.from = basked /\ b.size = size
      BY <1>2, <2>2 DEF BumpInv, BumpStacked
    <3>2. QED BY <1>2, <1>6, <3>1
  <2>3. QED BY <2>1, <2>2, BumpFacts
<1>7. QED BY <1>3, <1>4, <1>5, <1>6 DEF BumpInv

LEMMA BumpClearInv ==
  ASSUME Bump!BumpAssumption, BumpInv, Bump!Clear
  PROVE  BumpInv'
BY DEF Bump!BumpAssumption, Bump!Clear, BumpInv, Bump!TypeOK, BumpStacked

LEMMA BumpWriteInv ==
  ASSUME Bump!BumpAssumption, BumpInv, Bump!Write
  PROVE  BumpInv'
<1>1. PICK b \in blive, v \in Data : /\ bbytes' = Bump!Fill(b, v)
                                     /\ UNCHANGED <<bdebug, boffset, blive, bheld, basked>>
  BY DEF Bump!Write
<1>2. bbytes' \in [Bump!Cells -> Bump!Content]
  BY <1>1, BumpFillTyped DEF BumpInv, Bump!TypeOK, Bump!Content
<1>3. QED BY <1>1, <1>2 DEF BumpInv, Bump!TypeOK, BumpStacked, BumpApart

LEMMA BumpStep ==
  ASSUME Bump!BumpAssumption, BumpInv, [Bump!Next]_(Bump!vars)
  PROVE  BumpInv'
<1>1. CASE Bump!Alloc \/ Bump!Calloc \/ Bump!Salloc   BY <1>1, BumpGrantInv
<1>2. CASE Bump!Clear   BY <1>2, BumpClearInv
<1>3. CASE Bump!Write   BY <1>3, BumpWriteInv
<1>4. CASE UNCHANGED Bump!vars
  BY <1>4 DEF Bump!vars, BumpInv, Bump!TypeOK, BumpStacked, BumpApart
<1>5. QED BY <1>1, <1>2, <1>3, <1>4 DEF Bump!Next

(* bump_alloc, bump_calloc and bump_salloc hand out memory beyond the       *)
(* buffer exactly when more was asked for since the last clear than it has, *)
(* in a debug and in a release build, however calls and clears are mixed.   *)
THEOREM BumpInside ==
  ASSUME Bump!BumpAssumption
  PROVE  Bump!Spec => []Bump!BumpSafe
<1>1. Bump!Init => BumpInv   BY BumpInitInv
<1>2. BumpInv /\ [Bump!Next]_(Bump!vars) => BumpInv'   BY BumpStep
<1>3. BumpInv => Bump!BumpSafe
  BY BumpInsideStacked DEF BumpInv, Bump!BumpSafe, Bump!InsideWhileEnough
<1>4. QED BY <1>1, <1>2, <1>3, PTL DEF Bump!Spec

-----------------------------------------------------------------------------
(* Refinement: what the cells of a block hold is its content.               *)

(* A new block is handed out and the others keep their content.             *)
LEMMA BumpAllocStep ==
  ASSUME NEW b, b \notin blive, blive' = blive \union {b}, bheld' = bheld + 1,
         \A t \in blive : \A c \in Bump!CellsOf(t) : bbytes'[c] = bbytes[c]
  PROVE  Bump!Abs!Alloc
BY DEF Bump!Abs!Alloc, Bump!Abs!Keeps, Bump!Store

(* A block is written and the others keep their content.                    *)
LEMMA BumpWriteStep ==
  ASSUME NEW b \in blive, blive' = blive, bheld' = bheld,
         \A t \in blive \ {b} : \A c \in Bump!CellsOf(t) : bbytes'[c] = bbytes[c]
  PROVE  Bump!Abs!Write
BY DEF Bump!Abs!Write, Bump!Abs!Keeps, Bump!Store

LEMMA BumpAbsStep ==
  ASSUME Bump!BumpAssumption, BumpInv, [Bump!Next]_(Bump!vars)
  PROVE  [Bump!BlocksInside' => Bump!Abs!Next]_<<Bump!Store, bheld>>
<1> SUFFICES ASSUME Bump!BlocksInside'
             PROVE  Bump!Abs!Next \/ UNCHANGED <<Bump!Store, bheld>>
  OBVIOUS
<1>0. \A t : Bump!CellsOf(t) \subseteq Bump!Cells
  BY DEF Bump!CellsOf
<1>1. CASE Bump!Alloc \/ Bump!Calloc \/ Bump!Salloc
  <2>0. PICK size \in BumpRequests : \E b : BumpGranted(size, b)
    BY <1>1, BumpAllocGrants
  <2>1. PICK b : BumpGranted(size, b)
    BY <2>0
  <2>2. blive' = blive \union {b} /\ bheld' = bheld + 1 /\ b \in BumpBlock
    BY <2>1, BumpFacts DEF BumpGranted, BumpBlock
  <2>3. \A t \in blive \union {b} : t.from + t.size <= BumpSize
    BY <2>2 DEF Bump!BlocksInside
  <2>4. basked' <= BumpSize
    <3>1. BumpInv'
      BY <1>1, BumpGrantInv
    <3>2. ~(basked' > BumpSize)
      BY <2>2, <2>3, <3>1, BumpFacts, BumpBlockTyped DEF BumpInv
    <3>3. basked' \in Nat /\ BumpSize \in Nat
      BY <3>1 DEF BumpInv, Bump!TypeOK, Bump!BumpAssumption
    <3>4. QED BY <3>2, <3>3
  <2>5. \A t \in blive : t # b /\ BumpApart(b, t)
    BY <2>1, <2>4, BumpGrantEnough
  <2>6. \A t \in blive : \A c \in Bump!CellsOf(t) : bbytes'[c] = bbytes[c]
    <3>1. \A t \in blive : Bump!CellsOf(b) \intersect Bump!CellsOf(t) = {}
      BY <2>2, <2>3, <2>5, BumpApartCells DEF BumpInv
    <3>2. QED BY <1>0, <2>1, <3>1 DEF BumpGranted
  <2>7. QED BY <2>2, <2>5, <2>6, BumpAllocStep DEF Bump!Abs!Next
<1>2. CASE Bump!Clear
  BY <1>2 DEF Bump!Clear, Bump!Abs!Next, Bump!Abs!Clear, Bump!Store
<1>3. CASE Bump!Write
  <2>1. PICK b \in blive, v \in Data : /\ bbytes' = Bump!Fill(b, v)
                                       /\ UNCHANGED <<bdebug, boffset, blive, bheld, basked>>
    BY <1>3 DEF Bump!Write
  <2>2. Bump!BlocksInside
    BY <2>1 DEF Bump!BlocksInside
  <2>3. BumpStacked /\ \A t \in blive : t.from + t.size <= BumpSize /\ t \in BumpBlock
    BY <2>2, BumpInsideStacked DEF BumpInv, Bump!BlocksInside
  <2>4. \A t \in blive \ {b} : \A c \in Bump!CellsOf(t) : bbytes'[c] = bbytes[c]
    <3>1. \A t \in blive \ {b} : Bump!CellsOf(b) \intersect Bump!CellsOf(t) = {}
      BY <2>3, BumpApartCells DEF BumpStacked
    <3>2. \A c \in Bump!Cells \ Bump!CellsOf(b) : bbytes'[c] = bbytes[c]
      BY <2>1 DEF Bump!Fill
    <3>3. QED BY <1>0, <3>1, <3>2
  <2>5. QED BY <2>1, <2>4, BumpWriteStep DEF Bump!Abs!Next
<1>4. CASE UNCHANGED Bump!vars
  BY <1>4 DEF Bump!vars, Bump!Store
<1>5. QED BY <1>1, <1>2, <1>3, <1>4 DEF Bump!Next

(* As long as its blocks are inside the buffer, the bump allocator          *)
(* implements the abstract allocator.                                       *)
THEOREM BumpImplementsAllocator ==
  ASSUME Bump!BumpAssumption
  PROVE  Bump!Spec => Bump!BlocksAbsSpec
<1>1. Bump!Init => BumpInv   BY BumpInitInv
<1>2. BumpInv /\ [Bump!Next]_(Bump!vars) => BumpInv'   BY BumpStep
<1>3. Bump!Init => Bump!Abs!Init   BY DEF Bump!Init, Bump!Abs!Init, Bump!Store
<1>4. BumpInv /\ [Bump!Next]_(Bump!vars)
        => [Bump!BlocksInside' => Bump!Abs!Next]_<<Bump!Store, bheld>>
  BY BumpAbsStep
<1>5. QED BY <1>1, <1>2, <1>3, <1>4, PTL DEF Bump!Spec, Bump!BlocksAbsSpec

-----------------------------------------------------------------------------
(* A program's steps are steps of its arena, or of its bump allocator, or   *)
(* leave them alone.                                                        *)
LEMMA ArenaAlone == SpecAll => Ar!Spec
<1>1. InitAll => Ar!Init
  BY DEF InitAll
<1>2. [NextAll]_allVars => [Ar!Next]_(Ar!vars)
  BY DEF NextAll, allVars, arenaVars, Ar!vars
<1>3. QED BY <1>1, <1>2, PTL DEF SpecAll, Ar!Spec

LEMMA BumpAlone == SpecAll => Bump!Spec
<1>1. InitAll => Bump!Init
  BY DEF InitAll
<1>2. [NextAll]_allVars => [Bump!Next]_(Bump!vars)
  BY DEF NextAll, allVars, bumpVars, Bump!vars
<1>3. QED BY <1>1, <1>2, PTL DEF SpecAll, Bump!Spec

(* The blocks of the arena and of the bump allocator of a program leave     *)
(* their page and their buffer in those cases only, whatever else it does.  *)
THEOREM BlocksInProgram == SpecAll => []BlocksInside
<1>1. SpecAll => []Ar!ArenaSafe
  BY ProgramAssumption, ArenaAlone, ArenaInside, PTL
<1>2. SpecAll => []Bump!BumpSafe
  BY ProgramAssumption, BumpAlone, BumpInside, PTL
<1>3. QED BY <1>1, <1>2, PTL DEF BlocksInside

(* As long as their blocks are inside, both implement the abstract          *)
(* allocator.                                                               *)
THEOREM BlocksInProgramImplement == SpecAll => BlocksAbsSpec
<1>1. SpecAll => Ar!BlocksAbsSpec
  BY ProgramAssumption, ArenaAlone, ArenaImplementsAllocator
<1>2. SpecAll => Bump!BlocksAbsSpec
  BY ProgramAssumption, BumpAlone, BumpImplementsAllocator
<1>3. QED BY <1>1, <1>2 DEF BlocksAbsSpec

-----------------------------------------------------------------------------
(* The node allocator, which this module extends.                           *)
LEMMA NodeAlone == SpecAll => Spec
<1>1. InitAll => Init
  BY DEF InitAll
<1>2. [NextAll]_allVars => [Next]_vars
  BY DEF NextAll, allVars
<1>3. QED BY <1>1, <1>2, PTL DEF SpecAll, Spec

(* The node allocator of a program neither loses a slot nor hands one out   *)
(* twice, asks for a page only when every slot is held, and implements the  *)
(* abstract allocator.                                                      *)
THEOREM NodesInProgram ==
  SpecAll => [](TypeOK /\ NodeSafe /\ SlotsPartitioned) /\ GrowOnlyWhenFull /\ AbsSpec
BY NodeAlone, TypeCorrect, AllocatorSafe, GrowthOnDemand, ImplementsAllocator, PTL

-----------------------------------------------------------------------------
(* The forward list, with the node allocator of its own.                    *)
FP == INSTANCE SinglyLinkedProofs WITH
  InitMax <- ListMax, MaxPages <- ListPages,
  pages <- fpages, blocks <- fblocks, word <- fword, live <- flive,
  chain <- fchain, held <- fheld

LEMMA FListAssumed == FP!FListAssumption
BY ProgramAssumption DEF FL!FListAssumption, FP!FListAssumption

LEMMA FListAllocSame ==
  /\ FL!Alloc <=> FP!Alloc
  /\ \A s : FL!FreeNode(s) <=> FP!FreeNode(s)
  /\ FL!Memory(fpages') = FP!Memory(fpages')
  /\ FL!NewNode = FP!NewNode
<1>1. FL!Alloc <=> FP!Alloc
  BY DEF FL!Alloc, FP!Alloc, FL!NA!Slots, FP!NA!Slots, FL!NA!AllocRecycled,
         FP!NA!AllocRecycled, FL!NA!AllocCursor, FP!NA!AllocCursor, FL!NA!AllocNewPage,
         FP!NA!AllocNewPage, FL!NA!TopFull, FP!NA!TopFull, FL!NA!Top, FP!NA!Top,
         FL!NA!growth_policy, FP!NA!growth_policy, FL!NA!NextFree, FP!NA!NextFree,
         FL!NA!AfterFirst, FP!NA!AfterFirst,
         FL!NA!ZeroedPage, FP!NA!ZeroedPage
<1>2. ASSUME NEW s PROVE FL!FreeNode(s) <=> FP!FreeNode(s)
  BY DEF FL!FreeNode, FP!FreeNode, FL!NA!Slots, FP!NA!Slots, FL!NA!FreeAtCursor,
         FP!NA!FreeAtCursor, FL!NA!FreeToList, FP!NA!FreeToList, FL!NA!AtCursor,
         FP!NA!AtCursor, FL!NA!TopEmptied, FP!NA!TopEmptied, FL!NA!Top, FP!NA!Top,
         FL!NA!Kept, FP!NA!Kept, FL!NA!Front, FP!NA!Front
<1>3. FL!Memory(fpages') = FP!Memory(fpages')
  BY DEF FL!Memory, FP!Memory, FL!NA!Slots, FP!NA!Slots
<1>4. FL!NewNode = FP!NewNode
  BY DEF FL!NewNode, FP!NewNode, FL!NA!TopFull, FP!NA!TopFull, FL!NA!Top, FP!NA!Top
<1>5. QED BY <1>1, <1>2, <1>3, <1>4

LEMMA FListCallsSame ==
  /\ FL!PushFront <=> FP!PushFront
  /\ FL!PopFront <=> FP!PopFront
  /\ FL!Clear <=> FP!Clear
  /\ \A i : FL!InsertAfter(i) <=> FP!InsertAfter(i)
  /\ \A i : FL!EraseAfter(i) <=> FP!EraseAfter(i)
<1>1. FL!PushFront <=> FP!PushFront
  BY FListAllocSame DEF FL!PushFront, FP!PushFront, FL!Sentinel, FP!Sentinel, FL!GoesOn, FP!GoesOn
<1>2. FL!PopFront <=> FP!PopFront
  BY FListAllocSame DEF FL!PopFront, FP!PopFront, FL!Sentinel, FP!Sentinel, FL!GoesOn, FP!GoesOn, FL!Left,
                        FP!Left, FL!NA!Slots, FP!NA!Slots
<1>3. FL!Clear <=> FP!Clear
  BY FListAllocSame DEF FL!Clear, FP!Clear, FL!NA!Kept, FP!NA!Kept, FL!NA!Slots,
                        FP!NA!Slots
<1>4. ASSUME NEW i PROVE FL!InsertAfter(i) <=> FP!InsertAfter(i)
  BY FListAllocSame DEF FL!InsertAfter, FP!InsertAfter, FL!Before, FP!Before, FL!BecomesHead,
                        FP!BecomesHead, FL!Sentinel, FP!Sentinel, FL!GoesOn, FP!GoesOn, FL!InsertAt,
                        FP!InsertAt
<1>5. ASSUME NEW i PROVE FL!EraseAfter(i) <=> FP!EraseAfter(i)
  BY FListAllocSame DEF FL!EraseAfter, FP!EraseAfter, FL!Before, FP!Before, FL!Sentinel, FP!Sentinel,
                        FL!GoesOn, FP!GoesOn, FL!Left, FP!Left, FL!NA!Slots, FP!NA!Slots, FL!RemoveAt,
                        FP!RemoveAt
<1>6. QED BY <1>1, <1>2, <1>3, <1>4, <1>5

LEMMA FListSame ==
  /\ FL!Init <=> FP!Init
  /\ FL!Next <=> FP!Next
  /\ FL!FListSafe <=> FP!FListSafe
  /\ FL!FListIsSequence <=> FP!FListIsSequence
<1>1. FL!Init <=> FP!Init
  BY DEF FL!Init, FP!Init, FL!NA!ZeroedPage, FP!NA!ZeroedPage
<1>2. FL!Next <=> FP!Next
  BY FListCallsSame DEF FL!Next, FP!Next
<1>3. FL!FListSafe <=> FP!FListSafe
  BY DEF FL!FListSafe, FP!FListSafe, FL!TypeOK, FP!TypeOK, FL!NodesAreElements,
         FP!NodesAreElements, FL!NA!Slots, FP!NA!Slots, FL!ToSet, FP!ToSet
<1>4. FL!FListIsSequence <=> FP!FListIsSequence
  BY DEF FL!FListIsSequence, FP!FListIsSequence, FL!Sound, FP!Sound
<1>5. QED BY <1>1, <1>2, <1>3, <1>4

LEMMA FListAlone == SpecAll => FP!Spec
<1>1. InitAll => FP!Init
  BY FListSame DEF InitAll
<1>2. [NextAll]_allVars => [FP!Next]_(FP!vars)
  BY FListSame DEF NextAll, allVars, flistVars, FP!vars
<1>3. QED BY <1>1, <1>2, PTL DEF SpecAll, FP!Spec

(* Whatever else the program does, its forward list keeps its types, and    *)
(* until an element is erased after before_begin it holds every node of an  *)
(* element and its sentinel's, and no other slot; so it does again once it  *)
(* is cleared.                                                              *)
THEOREM FListInProgram == SpecAll => []FListSafe
<1>1. FP!FListSafe => FListSafe
  BY FListSame DEF FListSafe
<1>2. FP!Spec => []FP!FListSafe
  BY FListAssumed, FP!FListHoldsItsNodes
<1>3. QED BY FListAlone, <1>1, <1>2, PTL

(* With the same exception it is its client's sequence.                     *)
THEOREM FListInProgramKeepsOrder == SpecAll => []FListIsSequence
<1>1. FP!FListIsSequence => FListIsSequence
  BY FListSame DEF FListIsSequence
<1>2. FP!Spec => []FP!FListIsSequence
  BY FListAssumed, FP!FListKeepsOrder
<1>3. QED BY FListAlone, <1>1, <1>2, PTL
=============================================================================
