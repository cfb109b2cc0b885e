---------------------------- MODULE DoublyLinked ----------------------------
(***************************************************************************)
(* src/src/internals/linked.c and src/src/containers/list.c: the doubly     *)
(* linked list, over the node allocator of NodeAlloc.tla.  create_node sets *)
(* a node's value and nothing else, so a recycled or cleared slot keeps the *)
(* next and prev of the node that was there; only fresh pages are zeroed.   *)
(*                                                                         *)
(* node holds the two links of every slot.  The value and the pointer to it *)
(* are written when the slot is handed out and never moved, so an element   *)
(* is identified by its slot.  That pointer is the slot's first word, which *)
(* the allocator overwrites before it reads it.                             *)
(*                                                                         *)
(* The client walks the list in a for loop and changes it only outside one. *)
(* A list that is no longer linked as its elements are (~Sound) is walked   *)
(* but not operated on further: what follows is undefined.                  *)
(***************************************************************************)
EXTENDS Integers, Sequences, SequencesExt

CONSTANTS
  InitMax,   \* nodes in the first page
  MaxPages,  \* bound: pages of nodes at one time
  Clients,   \* what a client may be: the operations it calls, and bounds on the
             \* elements in the list at one time and on the counter nmemb
  NULL, FAULT

ASSUME PagesAssumption == /\ InitMax \in Nat \ {0} /\ MaxPages \in Nat \ {0}
                          /\ NULL \notin Nat \X Nat
ASSUME ClientsAssumption == \A c \in Clients : c.max_items \in Nat /\ c.max_nmemb \in Nat

VARIABLES
  client, \* one of Clients, for the life of the list
  pages, blocks, word, live, chain, held,  \* the node allocator
  list,   \* the List object: head, tail, nmemb
  node,   \* next and prev of every slot
  items,  \* ghost: the slots of the elements, in the order the client wants
  walk    \* the client's iterator and its direction; NULL outside a loop

allocVars == <<pages, blocks, word, live, chain, held>>
vars == <<client, pages, blocks, word, live, chain, held, list, node, items, walk>>

Ops == client.ops
MaxItems == client.max_items
MaxNmemb == client.max_nmemb

NA == INSTANCE NodeAlloc WITH Data <- {}

Zeroed == [next |-> NULL, prev |-> NULL]
(* The links in the slots of the pages of pgs: a new page is zeroed.        *)
Memory(pgs) == [s \in NA!Slots(pgs) |-> IF s \in DOMAIN node THEN node[s] ELSE Zeroed]

(* create_list.                                                             *)
Init == /\ client \in Clients
        /\ NA!Init
        /\ list = [head |-> NULL, tail |-> NULL, nmemb |-> 0]
        /\ node = [s \in NA!Slots(pages) |-> Zeroed]
        /\ items = << >>
        /\ walk = NULL

(* Is the list linked both ways in the order of its elements?               *)
Sound ==
  /\ list.head = IF items = << >> THEN NULL ELSE Head(items)
  /\ list.tail = IF items = << >> THEN NULL ELSE Last(items)
  /\ \A i \in DOMAIN items :
       node[items[i]] = [next |-> IF i = Len(items) THEN NULL ELSE items[i + 1],
                         prev |-> IF i = 1 THEN NULL ELSE items[i - 1]]

Operating(op) == op \in Ops /\ walk = NULL /\ Sound

-----------------------------------------------------------------------------
(* The list functions: the List object l and the links mem after the call.  *)

push_frontLate(l, mem, n) ==                               \* mutant
  IF l.head = NULL /\ l.tail = NULL
    THEN [list |-> [l EXCEPT !.head = n, !.tail = n], node |-> mem]
    ELSE [list |-> [l EXCEPT !.head = n],
          node |-> [mem EXCEPT ![l.head].prev = n, ![n].next = n]]
push_front(l, mem, n) ==
  IF l.head = NULL /\ l.tail = NULL
    THEN [list |-> [l EXCEPT !.head = n, !.tail = n], node |-> mem]
    ELSE [list |-> [l EXCEPT !.head = n],
          node |-> [mem EXCEPT ![l.head].prev = n, ![n].next = l.head]]

push_back(l, mem, n) ==
  IF l.head = NULL /\ l.tail = NULL
    THEN [list |-> [l EXCEPT !.head = n, !.tail = n], node |-> mem]
    ELSE [list |-> [l EXCEPT !.tail = n],
          node |-> [mem EXCEPT ![l.tail].next = n, ![n].prev = l.tail]]

(* insert: before position; at NULL, the end, the list is replaced by n.    *)
insert(l, mem, position, n) ==
  IF position = NULL
    THEN [list |-> [l EXCEPT !.head = n, !.tail = n], node |-> mem]
    ELSE LET p == mem[position].prev
             linked == [mem EXCEPT ![position].prev = n, ![n].next = position]
         IN  IF p = NULL
               THEN [list |-> [l EXCEPT !.head = n], node |-> linked]
               ELSE [list |-> l,
                     node |-> [linked EXCEPT ![p].next = n, ![n].prev = p]]

(* erase, before the node is freed.                                         *)
eraseTailKept(l, mem, position) ==                         \* mutant
  LET here == mem[position]
      forward == IF here.prev = NULL THEN mem
                                     ELSE [mem EXCEPT ![here.prev].next = here.next]
  IN  [list |-> [l EXCEPT !.head = IF here.prev = NULL THEN here.next ELSE @],
       node |-> IF here.next = NULL THEN forward
                                    ELSE [forward EXCEPT ![here.next].prev = here.prev]]
erase(l, mem, position) ==
  LET here == mem[position]
      forward == IF here.prev = NULL THEN mem
                                     ELSE [mem EXCEPT ![here.prev].next = here.next]
  IN  [list |-> [l EXCEPT !.head = IF here.prev = NULL THEN here.next ELSE @,
                          !.tail = IF here.next = NULL THEN here.prev ELSE @],
       node |-> IF here.next = NULL THEN forward
                                    ELSE [forward EXCEPT ![here.next].prev = here.prev]]

(* What the three kinds of call do to nmemb.                                *)
Counted(l) == [l EXCEPT !.nmemb = @ + 1]

-----------------------------------------------------------------------------
(* alloc_node, and the slot it returned.                                    *)
Alloc == /\ Len(items) < MaxItems
         /\ list.nmemb < MaxNmemb
         /\ NA!AllocRecycled \/ NA!AllocCursor \/ NA!AllocNewPage
NewNode == CHOOSE s \in live' : s \notin live

After(result, l) == list' = l /\ node' = result.node

PushFront ==
  /\ Operating("push_front")
  /\ Alloc
  /\ LET r == push_front(list, Memory(pages'), NewNode) IN After(r, Counted(r.list))
  /\ items' = <<NewNode>> \o items
  /\ UNCHANGED walk

PushBack ==
  /\ Operating("push_back")
  /\ Alloc
  /\ LET r == push_back(list, Memory(pages'), NewNode) IN After(r, Counted(r.list))
  /\ items' = Append(items, NewNode)
  /\ UNCHANGED walk

(* insert_list before an element, and at end_list.                          *)
Insert(i) ==
  /\ Operating(IF i > Len(items) THEN "insert_end" ELSE "insert")
  /\ Alloc
  /\ LET position == IF i > Len(items) THEN NULL ELSE items[i]
         r == insert(list, Memory(pages'), position, NewNode)
     IN  After(r, Counted(r.list))
  /\ items' = InsertAt(items, i, NewNode)
  /\ UNCHANGED walk

(* erase of element i, and free_node.                                       *)
Removed(i, r) ==
  /\ NA!FreeAtCursor(items[i]) \/ NA!FreeToList(items[i])
  /\ node' = [s \in NA!Slots(pages') |-> r.node[s]]
  /\ items' = RemoveAt(items, i)
  /\ UNCHANGED walk

(* The pops do not count.                                                   *)
PopFront ==
  /\ Operating("pop_front") /\ items # << >>
  /\ LET r == erase(list, node, list.head) IN Removed(1, r) /\ list' = r.list

PopBack ==
  /\ Operating("pop_back") /\ items # << >>
  /\ LET r == erase(list, node, list.tail) IN Removed(Len(items), r) /\ list' = r.list

(* erase_list counts the wrong way.                                         *)
Erase(i) ==
  /\ Operating("erase") /\ list.nmemb < MaxNmemb
  /\ LET r == erase(list, node, items[i]) IN Removed(i, r) /\ list' = Counted(r.list)

Clear ==
  /\ Operating("clear")
  /\ NA!Clear
  /\ list' = [head |-> NULL, tail |-> NULL, nmemb |-> 0]
  /\ node' = Memory(pages')
  /\ items' = << >>
  /\ UNCHANGED walk

-----------------------------------------------------------------------------
(* The iterator at p going in direction d: done_iter at NULL.  A link into a *)
(* page that was destroyed is followed into freed memory.                   *)
Iter(p, d) == IF p = NULL THEN NULL
              ELSE IF p \in DOMAIN node THEN [at |-> p, dir |-> d] ELSE FAULT

(* begin_list and rbegin_list.                                              *)
BeginWalk ==
  /\ walk = NULL
  /\ "walk" \in Ops
  /\ \/ walk' = Iter(list.head, "next")
     \/ walk' = Iter(list.tail, "prev")
  /\ UNCHANGED <<allocVars, list, node, items>>

(* next_linked and prev_linked.                                             *)
WalkOn ==
  /\ walk \notin {NULL, FAULT}
  /\ walk' = Iter(node[walk.at][walk.dir], walk.dir)
  /\ UNCHANGED <<allocVars, list, node, items>>

Next == \/ PushFront \/ PushBack
        \/ \E i \in 1 .. Len(items) + 1 : Insert(i)
        \/ PopFront \/ PopBack
        \/ \E i \in DOMAIN items : Erase(i)
        \/ Clear
        \/ BeginWalk \/ WalkOn

(* A loop that has begun goes on to the next element.                       *)
Spec == Init /\ [][Next /\ UNCHANGED client]_vars /\ WF_vars(WalkOn /\ UNCHANGED client)

-----------------------------------------------------------------------------
(* Types of the list object and of its nodes' links.                        *)
TypeOK ==
  LET Link == NA!Slots(pages) \union {NULL}
  IN  /\ list \in [head : Link, tail : Link, nmemb : Nat]
      /\ DOMAIN node = NA!Slots(pages)
      /\ items \in Seq(NA!Slots(pages))

(* Leftover links in the slot that create_node is given.                    *)
Leftover(s) == s \in DOMAIN node /\ node[s] # Zeroed

(* Only a slot with a link left over from an earlier node, or an insertion  *)
(* at end_list, can break the list: every other operation that allocates    *)
(* nothing, or is given a zeroed slot, leaves the list linked both ways in  *)
(* the order the client asked for.                                          *)
ZeroedSlotsSuffice ==
  [][Sound' \/ (\E s \in live' \ live : Leftover(s)) \/ Insert(Len(items) + 1)]_
    <<allocVars, list, node, items>>

(* empty_list never says that a list with elements is empty, although pops  *)
(* and erasures leave nmemb too large.                                      *)
EmptyIsRight == list.nmemb = 0 => items = << >>

(* A list used as a stack stays linked both ways in the order the client    *)
(* asked for, whatever the recycled slots held before; clear, which leaves  *)
(* the bottom element's prev in its slot, is not an operation of a stack.   *)
AsStack == Ops \subseteq {"push_front", "pop_front", "walk"}
StackIsSequence == AsStack => Sound

(* The list keeps its types, is empty only when it says so, and stays in    *)
(* order if it is used as a stack.                                          *)
ListSafe == TypeOK /\ EmptyIsRight /\ StackIsSequence

(* A loop over such a list, in either direction, comes to its end.          *)
StackWalkEnds == AsStack /\ walk # NULL ~> walk = NULL

(* "Provides a generic interface for iterating and reverse iterating        *)
(* containers" (README.md:86): a loop over any list comes to its end.       *)
WalkEnds == walk # NULL ~> walk = NULL
=============================================================================
