----------------------------- MODULE PoolAlloc -----------------------------
(***************************************************************************)
(* src/src/allocators/pool.c: a fixed number of slots in one buffer, handed *)
(* out at an offset that only moves when the last slot comes back; other    *)
(* freed slots are threaded on a LIFO list through their own first word.    *)
(* A slot is its index in the buffer.                                       *)
(***************************************************************************)
EXTENDS Integers, Sequences, SequencesExt

CONSTANTS
  nmemb,  \* PoolAlloc.nmemb, a natural number
  Data,   \* what a client writes into the first word of its slot
  NULL    \* a null pointer, and a word of zeros; no natural number

VARIABLES
  offset,  \* PoolAlloc.offset
  blocks,  \* PoolAlloc.blocks: head of the free list, or NULL
  word,    \* first word of each slot; the slot's other bytes follow it
  live,    \* ghost: the slots the client holds
  chain,   \* ghost: the free slots in the order they will be reused
  held     \* ghost: slots handed out and not yet given back, by count

vars == <<offset, blocks, word, live, chain, held>>

PoolAssumption == nmemb \in Nat /\ NULL \notin Nat

Slots == 0 .. nmemb - 1
Word == Slots \union {NULL} \union Data

(* create_pool_allocator: calloc zeroes the slots.                          *)
Init == /\ offset = 0
        /\ blocks = NULL
        /\ word = [s \in Slots |-> NULL]
        /\ live = {} /\ chain = << >> /\ held = 0

-----------------------------------------------------------------------------
(* pool_alloc: is there a slot at the offset?                               *)
HasRoomLate == offset + 1 < nmemb                          \* mutant
HasRoom == offset < nmemb

(* pool_free: is s the last slot handed out at the offset?                  *)
AtOffsetOrBelow(s) == s <= offset - 1                      \* mutant
AtOffset(s) == s = offset - 1

(* pool_free: what the freed slot's first word becomes.                     *)
Link == blocks

(* What memset in pool_c_alloc, or nothing in pool_alloc, leaves in a slot. *)
Contents(s, zeroed) == IF zeroed THEN NULL ELSE word[s]

(* pool_alloc and pool_c_alloc, from the free list.                         *)
AllocRecycled ==
  /\ blocks # NULL
  /\ live' = live \union {blocks}
  /\ blocks' = word[blocks]
  /\ chain' = Tail(chain)
  /\ held' = held + 1
  /\ \E zeroed \in BOOLEAN : word' = [word EXCEPT ![blocks] = Contents(blocks, zeroed)]
  /\ UNCHANGED offset

(* The same, at the offset.                                                 *)
AllocOffset ==
  /\ blocks = NULL
  /\ HasRoom
  /\ live' = live \union {offset}
  /\ offset' = offset + 1
  /\ held' = held + 1
  /\ \E zeroed \in BOOLEAN : word' = [word EXCEPT ![offset] = Contents(offset, zeroed)]
  /\ UNCHANGED <<blocks, chain>>

(* With neither, the call fails: in a debug build an assertion aborts; in a *)
(* release build pool_alloc returns NULL and changes nothing, and           *)
(* pool_c_alloc writes to that NULL.                                        *)
Exhausted == blocks = NULL /\ ~HasRoom

Free == \E s \in live :
  /\ IF AtOffset(s)
       THEN /\ offset' = offset - 1
            /\ UNCHANGED <<blocks, word, chain>>
       ELSE /\ word' = [word EXCEPT ![s] = Link]
            /\ blocks' = s
            /\ chain' = <<s>> \o chain
            /\ UNCHANGED offset
  /\ live' = live \ {s}
  /\ held' = held - 1

Clear == /\ blocks' = NULL
         /\ offset' = 0
         /\ live' = {} /\ chain' = << >> /\ held' = 0
         /\ UNCHANGED word

(* The client fills in a slot it holds.                                     *)
Write == \E s \in live, d \in Data :
           /\ word' = [word EXCEPT ![s] = d]
           /\ UNCHANGED <<offset, blocks, live, chain, held>>

Next == AllocRecycled \/ AllocOffset \/ Free \/ Clear \/ Write

Spec == Init /\ [][Next]_vars

-----------------------------------------------------------------------------
(* Types of the pool's struct and memory.                                   *)
TypeOK == /\ offset \in 0 .. nmemb
          /\ blocks \in Slots \union {NULL}
          /\ word \in [Slots -> Word]
          /\ live \subseteq Slots
          /\ chain \in Seq(Slots)
          /\ held \in Int

(* Every slot below the offset is held or free, once and never both, and no *)
(* slot above it is either.                                                 *)
SlotsPartitioned ==
  /\ live \union ToSet(chain) = 0 .. offset - 1
  /\ live \intersect ToSet(chain) = {}
  /\ \A i, j \in DOMAIN chain : chain[i] = chain[j] => i = j

(* The list threaded through the slots is the intended one, whatever the    *)
(* clients write into the slots they hold.                                  *)
FreeListIntact ==
  /\ blocks = IF chain = << >> THEN NULL ELSE chain[1]
  /\ \A i \in DOMAIN chain :
       word[chain[i]] = IF i = Len(chain) THEN NULL ELSE chain[i + 1]

(* pool_alloc fails only when the client holds every slot of the pool: no   *)
(* order of frees makes a slot unusable.                                    *)
FailsOnlyWhenFull == Exhausted => live = Slots

(* The pool's slots are all accounted for, and all can be handed out.       *)
PoolSafe == TypeOK /\ SlotsPartitioned /\ FreeListIntact /\ FailsOnlyWhenFull

(* The pool implements the allocator that Allocator.tla describes.          *)
Abs == INSTANCE Allocator WITH store <- [s \in live |-> word[s]], held <- held
PoolAbsSpec == Abs!Spec
=============================================================================
