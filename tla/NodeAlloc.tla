----------------------------- MODULE NodeAlloc -----------------------------
(***************************************************************************)
(* src/src/internals/nalloc.c: the node allocator under list, flist, set,   *)
(* table, hash_set and hash_table.  A stack of pages, each twice as long as *)
(* the one below it; slots are handed out at the top page's cursor, and     *)
(* freed slots are threaded on a LIFO list through their own first word.    *)
(*                                                                         *)
(* A slot is <<page, index>>: the page's depth in the stack, 1 at the       *)
(* bottom, and the slot's index in the page's pool.  word holds the first   *)
(* machine word of every slot of every page: what the client wrote there,   *)
(* or, on the free list, NodeBlock.next.  Slots of freed pages leave its    *)
(* domain, so no action can read them.                                      *)
(***************************************************************************)
EXTENDS Integers, Sequences, SequencesExt

CONSTANTS
  InitMax,   \* nmemb of the first page
  MaxPages,  \* bound: pages on the stack at one time
  Data,      \* what a client writes into the first word of its slot
  NULL

ASSUME InitMaxAssumption == InitMax \in Nat \ {0}
ASSUME MaxPagesAssumption == MaxPages \in Nat \ {0}
ASSUME NullAssumption == NULL \notin Nat \X Nat

VARIABLES
  pages,   \* NodeAlloc.pages with the prev chain; the last element is the top
  blocks,  \* NodeAlloc.blocks: head of the free list, or NULL
  word,    \* first word of each slot
  live,    \* ghost: the slots the client holds
  chain,   \* ghost: the free slots in the order they will be reused
  held     \* ghost: slots handed out and not yet given back, by count

vars == <<pages, blocks, word, live, chain, held>>

Top == Len(pages)
Slots(pgs) == UNION {{p} \X (0 .. pgs[p].max - 1) : p \in DOMAIN pgs}
Used(pgs) == UNION {{p} \X (0 .. pgs[p].cursor - 1) : p \in DOMAIN pgs}
growth_policy(x) == x * 2
Word == (Nat \X Nat) \union {NULL} \union Data

(* page_allocate: does the top page have no slot left at its cursor?        *)
TopFullEarly == pages[Top].cursor + 1 >= pages[Top].max    \* mutant
TopFull == pages[Top].cursor >= pages[Top].max

(* search_freeblocks: what follows the head of the free list.               *)
NextFreeNone == NULL                                       \* mutant
NextFree == word[blocks]

(* The chain without its first slot; a list that runs in a circle, because  *)
(* a slot on it was freed again, outlives its chain.                        *)
AfterFirst == IF chain = << >> THEN chain ELSE Tail(chain)

(* free_memory: is s the last slot handed out at the top page's cursor?     *)
AtCursorOrBelow(s) ==                                      \* mutant
  s[1] = Top /\ s[2] <= pages[Top].cursor - 1
AtCursorOfAnyPage(s) == s[2] = pages[Top].cursor - 1       \* mutant
AtCursor(s) == s = <<Top, pages[Top].cursor - 1>>

(* free_memory: does that slot's return empty a page that can be dropped?   *)
TopEmptied == pages[Top].cursor - 1 = 0 /\ Top > 1

(* Page n with nmemb zeroed slots: calloc in create_page.                   *)
ZeroedPage(n, nmemb) == [s \in {n} \X (0 .. nmemb - 1) |-> NULL]
(* The memory that is left when only the pages of pgs are.                  *)
KeptAll(pgs) == word                                       \* mutant
Kept(pgs) == [s \in Slots(pgs) |-> word[s]]

FirstPage == <<[cursor |-> 0, max |-> InitMax]>>

(* create_node_allocator.                                                   *)
Init == /\ pages = FirstPage
        /\ blocks = NULL
        /\ word = ZeroedPage(1, InitMax)
        /\ live = {} /\ chain = << >> /\ held = 0

-----------------------------------------------------------------------------
(* alloc_node with a free list: search_freeblocks unlinks its head.         *)
AllocRecycled ==
  /\ pages # << >> /\ blocks # NULL
  /\ live' = live \union {blocks}
  /\ blocks' = NextFree
  /\ chain' = AfterFirst
  /\ held' = held + 1
  /\ UNCHANGED <<pages, word>>

(* alloc_node without: page_allocate takes the slot at the cursor.          *)
AllocCursor ==
  /\ pages # << >> /\ blocks = NULL
  /\ ~TopFull
  /\ live' = live \union {<<Top, pages[Top].cursor>>}
  /\ pages' = [pages EXCEPT ![Top].cursor = @ + 1]
  /\ held' = held + 1
  /\ UNCHANGED <<blocks, word, chain>>

(* The same with a full top page: create_page, then its first slot.         *)
AllocNewPage ==
  /\ pages # << >> /\ blocks = NULL
  /\ TopFull
  /\ Top < MaxPages
  /\ LET nmemb == growth_policy(pages[Top].max)
     IN  /\ pages' = Append(pages, [cursor |-> 1, max |-> nmemb])
         /\ word' = [s \in Slots(pages') |->
                       IF s \in DOMAIN word THEN word[s]
                                            ELSE ZeroedPage(Top + 1, nmemb)[s]]
  /\ live' = live \union {<<Top + 1, 0>>}
  /\ held' = held + 1
  /\ UNCHANGED <<blocks, chain>>

(* free_node of the cursor's slot: the cursor steps back, and a page that   *)
(* becomes empty is destroyed unless it is the bottom one.                  *)
FreeAtCursor(s) ==
  /\ AtCursor(s)
  /\ IF TopEmptied
       THEN pages' = Front(pages)
       ELSE pages' = [pages EXCEPT ![Top].cursor = @ - 1]
  /\ word' = Kept(pages')
  /\ live' = live \ {s}
  /\ held' = held - 1
  /\ UNCHANGED <<blocks, chain>>

(* free_node of any other slot: pushed on the free list.                    *)
FreeToList(s) ==
  /\ ~AtCursor(s)
  /\ word' = [word EXCEPT ![s] = blocks]
  /\ blocks' = s
  /\ chain' = <<s>> \o chain
  /\ live' = live \ {s}
  /\ held' = held - 1
  /\ UNCHANGED pages

Free == \E s \in live : FreeAtCursor(s) \/ FreeToList(s)

(* clear_nodes: back to the bottom page, whose slots are not zeroed.        *)
Clear ==
  /\ pages # << >>
  /\ pages' = <<[pages[1] EXCEPT !.cursor = 0]>>
  /\ blocks' = NULL
  /\ word' = Kept(pages')
  /\ live' = {}
  /\ held' = 0
  /\ chain' = << >>

(* destroy_node_allocator frees the pages and leaves blocks dangling.       *)
Destroy ==
  /\ pages # << >>
  /\ pages' = << >>
  /\ word' = << >>
  /\ live' = {}
  /\ held' = 0
  /\ chain' = << >>
  /\ UNCHANGED blocks

(* create_node_allocator over the struct of a destroyed one.                *)
Create ==
  /\ pages = << >>
  /\ pages' = FirstPage
  /\ blocks' = NULL
  /\ word' = ZeroedPage(1, InitMax)
  /\ UNCHANGED <<live, chain, held>>

(* A container fills in a node it was given.                                *)
Write == \E s \in live, d \in Data :
           /\ word' = [word EXCEPT ![s] = d]
           /\ UNCHANGED <<pages, blocks, live, chain, held>>

Next == \/ AllocRecycled \/ AllocCursor \/ AllocNewPage
        \/ Free \/ Clear \/ Destroy \/ Create \/ Write

Spec == Init /\ [][Next]_vars

-----------------------------------------------------------------------------
(* Types of the allocator's struct, its pages and its memory.               *)
TypeOK ==
  /\ pages \in Seq([cursor : Nat, max : Nat \ {0}])
  /\ blocks \in (Nat \X Nat) \union {NULL}
  /\ word \in [Slots(pages) -> Word]
  /\ live \subseteq Nat \X Nat
  /\ chain \in Seq(Nat \X Nat)
  /\ held \in Int

(* Only the top page can have room, and only the bottom page can be empty:  *)
(* what lets page_allocate look at the top page alone and free_memory drop  *)
(* a page the moment its cursor returns to 0.                               *)
PagesPacked ==
  \A p \in DOMAIN pages : /\ pages[p].cursor <= pages[p].max
                          /\ p < Top => pages[p].cursor = pages[p].max
                          /\ p > 1 => pages[p].cursor > 0

(* Every slot below a cursor is either held by the client or on the free    *)
(* list, once and never both; no slot above a cursor is.  A slot handed out *)
(* twice, lost, or left in a destroyed page breaks this.                    *)
SlotsPartitioned ==
  /\ live \union ToSet(chain) = Used(pages)
  /\ live \intersect ToSet(chain) = {}
  /\ \A i, j \in DOMAIN chain : chain[i] = chain[j] => i = j

(* The list threaded through the slots' own memory is the intended one:     *)
(* from blocks, each word leads to the next free slot and the last is NULL, *)
(* whatever the clients write into the slots they hold.                     *)
FreeListIntact ==
  pages # << >> =>
    /\ blocks = IF chain = << >> THEN NULL ELSE chain[1]
    /\ \A i \in DOMAIN chain :
         word[chain[i]] = IF i = Len(chain) THEN NULL ELSE chain[i + 1]

(* The pages stay packed and the free list stays linked.                    *)
NodeSafe == PagesPacked /\ FreeListIntact

(* alloc_node asks the system for a page only when the client holds every   *)
(* slot of every page: free slots are always reused first, whatever order   *)
(* they were freed in.                                                      *)
GrowOnlyWhenFull ==
  [][Len(pages') > Len(pages) => pages = << >> \/ live = Slots(pages)]_vars

(* Seen through the slots a client holds, this is the abstract allocator:   *)
(* a new slot is never one in use, and no other call changes a slot's word. *)
Abs == INSTANCE Allocator WITH store <- [s \in live |-> word[s]]
AbsSpec == Abs!Spec
=============================================================================
