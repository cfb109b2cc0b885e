---------------------------- MODULE SinglyLinked ----------------------------
(***************************************************************************)
(* src/src/internals/flinked.c and src/src/containers/flist.c: the forward  *)
(* list, over the node allocator of NodeAlloc.tla.  before is a sentinel    *)
(* node from the same allocator whose next should be the head; inserting    *)
(* and erasing work on the node after a position, and before is the         *)
(* position of the first element.                                           *)
(*                                                                         *)
(* link holds the next of every slot.  Values are not modelled: an element  *)
(* is identified by its slot.  erase after before leaves head at the node   *)
(* it frees, and the calls after it go on from there: they may free a node  *)
(* twice, or be handed one that is in use.  Only a call that would read     *)
(* memory of a page given back to the system is not modelled.               *)
(***************************************************************************)
EXTENDS Integers, Sequences, SequencesExt

CONSTANTS
  InitMax,     \* nodes in the first page
  MaxPages,    \* bound: pages of nodes at one time
  MaxItems,    \* bound: elements in the list at one time
  MaxAstray,   \* bound on astray
  NULL

VARIABLES
  pages, blocks, word, live, chain, held,  \* the node allocator
  flist,  \* the FList object: before, head, nmemb
  link,   \* next of every slot
  items,  \* ghost: the slots of the elements, in the order the client wants
  astray  \* ghost: calls since (and with) an erase after before, until a clear

FListAssumption == /\ InitMax \in Nat \ {0} /\ MaxPages \in Nat \ {0}
                   /\ MaxItems \in Nat /\ MaxAstray \in Nat /\ NULL \notin Nat \X Nat

allocVars == <<pages, blocks, word, live, chain, held>>
vars == <<pages, blocks, word, live, chain, held, flist, link, items, astray>>

NA == INSTANCE NodeAlloc WITH Data <- {}

(* The next of each slot of the pages of pgs: a new page is zeroed.         *)
Memory(pgs) == [s \in NA!Slots(pgs) |-> IF s \in DOMAIN link THEN link[s] ELSE NULL]

(* create_forward_list: the first slot goes to the sentinel.                *)
Init == /\ pages = <<[cursor |-> 1, max |-> InitMax]>>
        /\ blocks = NULL
        /\ word = NA!ZeroedPage(1, InitMax)
        /\ live = {<<1, 0>>} /\ chain = << >> /\ held = 1
        /\ flist = [before |-> <<1, 0>>, head |-> NULL, nmemb |-> 0]
        /\ link = NA!ZeroedPage(1, InitMax)
        /\ items = << >> /\ astray = 0

(* Do head, the links and the sentinel's link follow the elements?          *)
Sound ==
  /\ flist.head = IF items = << >> THEN NULL ELSE Head(items)
  /\ link[flist.before] = flist.head
  /\ \A i \in DOMAIN items :
       link[items[i]] = IF i = Len(items) THEN NULL ELSE items[i + 1]

-----------------------------------------------------------------------------
(* The ends of the calls: before->next is brought up to date.               *)
SentinelKept(l, mem) == mem                                \* mutant
Sentinel(l, mem) == [mem EXCEPT ![l.before] = l.head]

(* Counts the call, once there was such an erase or if it is one.           *)
GoesOn(erases_first) ==
  astray' = (IF astray = 0 /\ ~erases_first THEN 0 ELSE astray + 1) /\ astray' <= MaxAstray

(* alloc_node, and the slot it returns.                                     *)
Alloc == /\ Len(items) < MaxItems
         /\ blocks # NULL => blocks \in DOMAIN word
         /\ NA!AllocRecycled \/ NA!AllocCursor \/ NA!AllocNewPage
NewNode == IF blocks # NULL THEN blocks
           ELSE IF NA!TopFull THEN <<Len(pages) + 1, 0>>
           ELSE <<Len(pages), pages[Len(pages)].cursor>>

PushFront ==
  /\ Alloc
  /\ flist' = [flist EXCEPT !.head = NewNode, !.nmemb = @ + 1]
  /\ link' = Sentinel(flist', [Memory(pages') EXCEPT ![NewNode] = flist.head])
  /\ items' = <<NewNode>> \o items
  /\ GoesOn(FALSE)

(* insert: is the new node the first?                                       *)
BecomesHead(position) == link[position] = flist.head

(* The position before element i: the sentinel for the first.               *)
Before(i) == IF i = 1 THEN flist.before ELSE items[i - 1]

(* insert_after_forward_list.                                               *)
InsertAfter(i) ==
  /\ Before(i) \in DOMAIN link /\ Alloc
  /\ flist' = [flist EXCEPT !.head = IF BecomesHead(Before(i)) THEN NewNode ELSE @,
                            !.nmemb = @ + 1]
  /\ link' = Sentinel(flist', [Memory(pages') EXCEPT ![NewNode] = link[Before(i)],
                                                     ![Before(i)] = NewNode])
  /\ items' = InsertAt(items, i, NewNode)
  /\ GoesOn(FALSE)

FreeNodeNot(s) == UNCHANGED allocVars                      \* mutant
FreeNode(s) == NA!FreeAtCursor(s) \/ NA!FreeToList(s)

(* The links that are left once the links are those of mem.                 *)
Left(mem) == [s \in NA!Slots(pages') |-> mem[s]]

(* pop_front_forward_list asserts that there is an element.                 *)
PopFront ==
  /\ flist.nmemb # 0 /\ flist.head \in DOMAIN link
  /\ FreeNode(flist.head)
  /\ flist' = [flist EXCEPT !.head = link[flist.head], !.nmemb = @ - 1]
  /\ link' = Left(Sentinel(flist', link))
  /\ items' = Tail(items)
  /\ GoesOn(FALSE)

(* erase_after_forward_list does not look at head.                          *)
EraseAfter(i) ==
  /\ i \in DOMAIN items /\ Before(i) \in DOMAIN link
  /\ LET to_erase == link[Before(i)]
     IN  /\ to_erase \in DOMAIN link
         /\ FreeNode(to_erase)
         /\ link' = Left(Sentinel(flist, [link EXCEPT ![Before(i)] = link[to_erase]]))
  /\ flist' = [flist EXCEPT !.nmemb = @ - 1]
  /\ items' = RemoveAt(items, i)
  /\ GoesOn(i = 1)

(* clear_nodes takes the sentinel too; a new one gets the first slot.       *)
Clear ==
  /\ pages' = <<[pages[1] EXCEPT !.cursor = 1]>>
  /\ blocks' = NULL
  /\ word' = NA!Kept(pages')
  /\ live' = {<<1, 0>>} /\ chain' = << >> /\ held' = 1
  /\ flist' = [before |-> <<1, 0>>, head |-> NULL, nmemb |-> 0]
  /\ link' = [Memory(pages') EXCEPT ![<<1, 0>>] = NULL]
  /\ items' = << >> /\ astray' = 0

Next == \/ PushFront \/ PopFront \/ Clear
        \/ \E i \in 1 .. Len(items) + 1 : InsertAfter(i)
        \/ \E i \in 1 .. MaxItems : EraseAfter(i)

Spec == Init /\ [][Next]_vars

-----------------------------------------------------------------------------
(* Types of the forward list object and of its nodes' links.                *)
TypeOK ==
  /\ flist \in [before : {<<1, 0>>}, head : (Nat \X Nat) \union {NULL}, nmemb : 0 .. MaxItems]
  /\ link \in [NA!Slots(pages) -> (Nat \X Nat) \union {NULL}]
  /\ items \in Seq(Nat \X Nat) /\ flist.nmemb = Len(items)
  /\ astray \in 0 .. MaxAstray

(* Iterating from begin, or from before_begin, meets the elements in the    *)
(* order the client gave them, whatever the recycled slots held before,     *)
(* until an element is erased after before_begin, and again once the list   *)
(* is cleared.                                                              *)
FListIsSequence == astray = 0 => Sound

(* Until then the list holds on to every node it was given until the        *)
(* element is gone, and to the sentinel for ever: the iterator before_begin *)
(* stays valid, even over a clear, and no node is leaked.                   *)
NodesAreElements ==
  /\ live = ToSet(items) \union {flist.before}
  /\ flist.before \notin ToSet(items)
  /\ \A i, j \in DOMAIN items : items[i] = items[j] => i = j

(* The forward list keeps its types and, until then, its nodes.             *)
FListSafe == TypeOK /\ (astray = 0 => NodesAreElements)

(* begin is the first of the elements, or end: a node the list holds.       *)
HeadIsHeld == flist.head = NULL \/ flist.head \in live
=============================================================================
