------------------------------- MODULE RBTree -------------------------------
(***************************************************************************)
(* src/src/internals/rbtree.c with src/src/containers/table.c and set.c:    *)
(* the red-black tree under table and set, over the node allocator of       *)
(* NodeAlloc.tla.  A set is a table whose values have no size.              *)
(*                                                                         *)
(* A slot holds a TreeNode and, after it, the bytes of a key and a value.   *)
(* The TreeNode points to the bytes (pair), at first to those of its own    *)
(* slot; rbt_delete of a node with two children copies the pair pointers of *)
(* its predecessor and frees the predecessor's slot, so a live node may     *)
(* point into a free slot, or into a page given back to the system.  A call *)
(* that compares keys there reads any bytes, and one that writes there      *)
(* changes nothing of the table's; a new page of nodes is taken to lie      *)
(* where the last one of its length did.  tree.node holds the TreeNodes,    *)
(* tree.store the bytes, slot by slot.                                      *)
(*                                                                         *)
(* A key is a number and the client's comparison function is <.             *)
(***************************************************************************)
EXTENDS Integers, Sequences, FiniteSets

CONSTANTS
  Clients,   \* what a client may be: its greatest key, the least being 1, and its
             \* values; the nodes of the first page; what it does besides inserting
             \* keys in ascending order and erasing: "any_order", "present_key" and,
             \* once it erased a key, "after_erase" or, when none is left, "refill";
             \* and "clear"; and a bound on what the counter nmemb may reach
  MaxPages,  \* bound: pages of nodes at one time
  NULL

VARIABLES
  client,  \* one of Clients, for the life of the tree
  pages, blocks, word, live, chain, held,  \* the node allocator
  tree,    \* head, nmemb, node and store
  dict,    \* ghost: the value last inserted for each key not erased since
  again,   \* ghost: insertions of a key that was there, while ~damaged
  erased,  \* ghost: did the client erase a key since the tree was empty?
  damaged  \* ghost: was a pair lost or shared since the tree was made or cleared?

allocVars == <<pages, blocks, word, live, chain, held>>
vars == <<client, pages, blocks, word, live, chain, held, tree, dict, again, erased, damaged>>

Keys == 1 .. client.max_key
Values == client.values
Client == client.calls
MaxNmemb == client.max_nmemb

(* The first page is made in Init.                                          *)
NA == INSTANCE NodeAlloc WITH Data <- {}, InitMax <- 1

RED == "red"
BLACK == "black"
Other(side) == IF side = "left" THEN "right" ELSE "left"

(* The bytes of slot n hold a key and a value; TreeNode.                    *)
Zeroed == [pair |-> NULL, colour |-> RED, parent |-> NULL, left |-> NULL, right |-> NULL]
Unwritten == [key |-> 0, value |-> NULL]

(* The memory of the pages of pgs.  create_node writes every field of a     *)
(* TreeNode, so the one in a slot that is not lent, lent being those that   *)
(* are, is never read; its bytes are, if a lent node points to them.        *)
Memory(t, pgs, lent) ==
  LET Seen == lent \union {t.node[n].pair : n \in lent}
  IN  [t EXCEPT
        !.node = [s \in NA!Slots(pgs) |-> IF s \in lent THEN t.node[s] ELSE Zeroed],
        !.store = [s \in NA!Slots(pgs) |->
                     IF s \in Seen \intersect DOMAIN t.store THEN t.store[s] ELSE Unwritten]]

(* create_table and create_set, over a fresh allocator.                     *)
Init == /\ client \in Clients
        /\ pages = <<[cursor |-> 0, max |-> client.first_page]>>
        /\ blocks = NULL
        /\ word = NA!ZeroedPage(1, client.first_page)
        /\ live = {} /\ chain = << >> /\ held = 0
        /\ tree = Memory([head |-> NULL, nmemb |-> 0, node |-> << >>, store |-> << >>], pages, {})
        /\ dict = << >> /\ again = 0
        /\ erased = FALSE /\ damaged = FALSE

-----------------------------------------------------------------------------
(* Reading the tree.                                                        *)

KeyOf(t, n) == t.store[t.node[n].pair].key
node_colour(t, n) == IF n = NULL THEN BLACK ELSE t.node[n].colour
is_red(t, n) == node_colour(t, n) = RED
is_black(t, n) == node_colour(t, n) = BLACK
SideOf(t, n) == IF n = t.node[t.node[n].parent].left THEN "left" ELSE "right"
grandparent(t, n) == t.node[t.node[n].parent].parent
sibling(t, n) == t.node[t.node[n].parent][Other(SideOf(t, n))]
uncle(t, n) == sibling(t, t.node[n].parent)

(* The child of n on the way to key.                                        *)
Towards(t, n, key) == IF key < KeyOf(t, n) THEN "left" ELSE "right"

(* lookup_node.                                                             *)
RECURSIVE lookup_node(_, _, _)
lookup_node(t, n, key) ==
  IF n = NULL \/ KeyOf(t, n) = key THEN n
  ELSE lookup_node(t, t.node[n][Towards(t, n, key)], key)

(* rbt_insert's loop: the node with the key, or the one to hang it under.   *)
RECURSIVE InsertPoint(_, _, _)
InsertPoint(t, n, key) ==
  IF KeyOf(t, n) = key \/ t.node[n][Towards(t, n, key)] = NULL THEN n
  ELSE InsertPoint(t, t.node[n][Towards(t, n, key)], key)

(* rbt_min with left, rbt_max and maximum_node with right.                  *)
RECURSIVE Outermost(_, _, _)
Outermost(t, n, side) ==
  IF t.node[n][side] = NULL THEN n ELSE Outermost(t, t.node[n][side], side)

-----------------------------------------------------------------------------
(* Changing it: each operator is the tree after the call.                   *)

Coloured(t, n, c) == [t EXCEPT !.node[n].colour = c]

replace_node(t, old, new) ==
  LET p == t.node[old].parent
      down == IF p = NULL THEN [t EXCEPT !.head = new]
                          ELSE [t EXCEPT !.node[p][SideOf(t, old)] = new]
  IN  IF new = NULL THEN down ELSE [down EXCEPT !.node[new].parent = p]

(* rotate_left and rotate_right: n goes down to side, its other child up.   *)
rotate(t, n, side) ==
  LET up == t.node[n][Other(side)]
      inner == t.node[up][side]
      moved == [replace_node(t, n, up) EXCEPT !.node[n][Other(side)] = inner,
                                              !.node[up][side] = n,
                                              !.node[n].parent = up]
  IN  IF inner = NULL THEN moved ELSE [moved EXCEPT !.node[inner].parent = n]

(* insert_fixup, its last part: n and its parent are red, its uncle black.  *)
insert_rotate(t, n) ==
  LET p == t.node[n].parent
      side == SideOf(t, p)
      bent == SideOf(t, n) # side
      straight == IF bent THEN rotate(t, p, side) ELSE t
      m == IF bent THEN p ELSE n
      q == straight.node[m].parent
      g == straight.node[q].parent
  IN  rotate(Coloured(Coloured(straight, q, BLACK), g, RED), g, Other(side))

RECURSIVE insert_fixup(_, _)
insert_fixup(t, n) ==
  LET p == t.node[n].parent
  IN  IF p = NULL THEN Coloured(t, n, BLACK)
      ELSE IF is_black(t, p) THEN t
      ELSE IF is_red(t, uncle(t, n))
        THEN LET g == grandparent(t, n)
                 lifted == Coloured(Coloured(Coloured(t, p, BLACK), uncle(t, n), BLACK), g, RED)
             IN  insert_fixup(lifted, g)
      ELSE insert_rotate(t, n)

(* remove_fixup, its last part: a child of n's sibling is red.              *)
remove_rotateOnce(t, n) ==                                 \* mutant
  LET p == t.node[n].parent
      s == sibling(t, n)
  IN  rotate(Coloured(Coloured(t, s, node_colour(t, p)), p, BLACK), p, SideOf(t, n))
remove_rotate(t, n) ==
  LET p == t.node[n].parent
      side == SideOf(t, n)
      s == sibling(t, n)
      near == t.node[s][side]
      bent == is_black(t, s) /\ is_red(t, near) /\ is_black(t, t.node[s][Other(side)])
      straight == IF bent
                    THEN rotate(Coloured(Coloured(t, s, RED), near, BLACK), s, Other(side))
                    ELSE t
      u == sibling(straight, n)
      far == straight.node[u][Other(side)]
      painted == Coloured(Coloured(straight, u, node_colour(straight, p)), p, BLACK)
  IN  rotate(Coloured(painted, far, BLACK), p, side)

RECURSIVE remove_fixup(_, _)
remove_fixup(t, n) ==
  IF t.node[n].parent = NULL THEN t
  ELSE
    LET p == t.node[n].parent
        r == IF is_red(t, sibling(t, n))
               THEN rotate(Coloured(Coloured(t, p, RED), sibling(t, n), BLACK), p, SideOf(t, n))
               ELSE t
        s == sibling(r, n)
        allBlack == /\ is_black(r, s)
                    /\ is_black(r, r.node[s].left) /\ is_black(r, r.node[s].right)
    IN  IF allBlack /\ is_black(r, p) THEN remove_fixup(Coloured(r, s, RED), p)
        ELSE IF allBlack THEN Coloured(Coloured(r, s, RED), p, BLACK)
        ELSE remove_rotate(r, n)

(* rbt_delete after the lookup: which node goes when n's pair goes, what    *)
(* happens to n's pair pointers, and the tree without that node.            *)
Victim(t, n) == IF t.node[n].left # NULL /\ t.node[n].right # NULL
                  THEN Outermost(t, t.node[n].left, "right") ELSE n
PairMoved(t, n) == [t EXCEPT !.node[n].pair = t.node[Victim(t, n)].pair]

Unlinked(t, v) ==
  LET child == IF t.node[v].right = NULL THEN t.node[v].left ELSE t.node[v].right
      fixed == IF is_black(t, v)
                 THEN remove_fixup(Coloured(t, v, node_colour(t, child)), v) ELSE t
      gone == replace_node(fixed, v, child)
  IN  IF gone.node[v].parent = NULL /\ child # NULL THEN Coloured(gone, child, BLACK) ELSE gone

Counted(t) == [t EXCEPT !.nmemb = @ + 1]

-----------------------------------------------------------------------------
(* The pairs that lie in pages given back; the tree as a call reads it that *)
(* finds keys there; and all it may find: also one below or above all keys. *)
Astray == {tree.node[n].pair : n \in live} \ DOMAIN tree.store
Reading(keys) ==
  [tree EXCEPT !.store = [s \in DOMAIN tree.store \union Astray |->
     IF s \in Astray THEN [Unwritten EXCEPT !.key = keys[s]] ELSE tree.store[s]]]
Readings == {Reading(keys) : keys \in [Astray -> 0 .. client.max_key + 1]}

(* Do all live nodes have their pairs in memory of the table, each its own? *)
PairsKept == /\ \A n \in live : tree.node[n].pair \in DOMAIN tree.store
             /\ \A m, n \in live : tree.node[m].pair = tree.node[n].pair => m = n
Watched == damaged' = (damaged \/ ~PairsKept')

(* insert of a key that is there, in node n: its value is overwritten.      *)
InsertFound(n, value) ==
  /\ LET pair == tree.node[n].pair
     IN  tree' = Counted(IF pair \in Astray THEN tree
                                            ELSE [tree EXCEPT !.store[pair].value = value])
  /\ UNCHANGED allocVars

(* create_node's slot.                                                      *)
NewNode == CHOOSE s \in live' : s \notin live

Created(t, n, parent, key, value) ==
  [t EXCEPT !.node[n] = [Zeroed EXCEPT !.pair = n, !.parent = parent],
            !.store[n] = [key |-> key, value |-> value]]

(* insert of a key that the tree, read as t, does not have.                 *)
InsertNew(t, key, value) ==
  /\ NA!AllocRecycled \/ NA!AllocCursor \/ NA!AllocNewPage
  /\ LET p == IF t.head = NULL THEN NULL ELSE InsertPoint(t, t.head, key)
         made == Created(Memory(tree, pages', live), NewNode, p, key, value)
         hung == IF p = NULL THEN [made EXCEPT !.head = NewNode]
                 ELSE [made EXCEPT !.node[p][Towards(t, p, key)] = NewNode]
     IN  tree' = Counted(insert_fixup(hung, NewNode))

(* What the client inserts.                                                 *)
Chosen(key) ==
  /\ key \in DOMAIN dict => "present_key" \in Client
  /\ erased /\ key \notin DOMAIN dict => \/ "after_erase" \in Client
                                         \/ "refill" \in Client /\ dict = << >>
  /\ "any_order" \in Client \/ \A k \in DOMAIN dict : k <= key

Insert(key, value) ==
  /\ Chosen(key) /\ tree.nmemb < MaxNmemb
  /\ \E t \in Readings :
       LET n == lookup_node(t, t.head, key)
       IN  \/ n # NULL /\ InsertFound(n, value)
           \/ n = NULL /\ InsertNew(t, key, value)
  /\ dict' = [k \in DOMAIN dict \union {key} |-> IF k = key THEN value ELSE dict[k]]
  /\ Watched
  /\ again' = (IF damaged' THEN 0 ELSE IF key \in DOMAIN dict THEN again + 1 ELSE again)
  /\ erased' = (erased /\ dict # << >>)

(* rbt_delete once it found n.                                              *)
DeleteFound(n) ==
  LET v == Victim(tree, n)
      t == Unlinked(PairMoved(tree, n), v)
  IN  /\ NA!FreeAtCursor(v) \/ NA!FreeToList(v)
      /\ tree' = Memory([t EXCEPT !.nmemb = @ - 1], pages', live')

(* erase.                                                                   *)
Delete(key) ==
  /\ \E t \in Readings :
       LET n == lookup_node(t, t.head, key)
       IN  \/ n # NULL /\ DeleteFound(n) /\ erased' = TRUE
           \/ n = NULL /\ UNCHANGED <<pages, blocks, word, live, chain, held, tree, erased>>
  /\ dict' = [k \in DOMAIN dict \ {key} |-> dict[k]]
  /\ Watched
  /\ again' = (IF damaged' THEN 0 ELSE again)

Clear ==
  /\ "clear" \in Client
  /\ NA!Clear
  /\ tree' = Memory([tree EXCEPT !.head = NULL, !.nmemb = 0], pages', {})
  /\ dict' = << >> /\ again' = 0
  /\ erased' = FALSE /\ damaged' = FALSE

Next == \/ \E key \in Keys, value \in Values : Insert(key, value)
        \/ \E key \in Keys : Delete(key)
        \/ Clear

Spec == Init /\ [][Next /\ UNCHANGED client]_vars

-----------------------------------------------------------------------------
(* next_rbtree with d = "right", prev_rbtree with d = "left".               *)
RECURSIVE ClimbFrom(_, _, _)
ClimbFrom(t, n, d) ==
  LET p == t.node[n].parent
  IN  IF p = NULL \/ n # t.node[p][d] THEN p ELSE ClimbFrom(t, p, d)
NextNodeUp(t, n, d) == ClimbFrom(t, n, d)                  \* mutant
NextNode(t, n, d) ==
  IF t.node[n][d] # NULL THEN Outermost(t, t.node[n][d], Other(d)) ELSE ClimbFrom(t, n, d)

(* The nodes under n from left to right.                                    *)
RECURSIVE InOrder(_, _)
InOrder(t, n) ==
  IF n = NULL THEN << >>
  ELSE InOrder(t, t.node[n].left) \o <<n>> \o InOrder(t, t.node[n].right)
Nodes == InOrder(tree, tree.head)

(* Black nodes on each way down from n to a leaf, or -1 if they differ.     *)
RECURSIVE BlackHeight(_, _)
BlackHeight(t, n) ==
  IF n = NULL THEN 0
  ELSE LET l == BlackHeight(t, t.node[n].left)
           r == BlackHeight(t, t.node[n].right)
       IN  IF l = -1 \/ l # r THEN -1 ELSE l + (IF is_black(t, n) THEN 1 ELSE 0)

(* Types of the tree's nodes.                                               *)
TypeOK ==
  LET Link == live \union {NULL}
  IN  /\ DOMAIN tree.node = NA!Slots(pages) /\ DOMAIN tree.store = NA!Slots(pages)
      /\ tree.head \in Link /\ tree.nmemb \in 0 .. MaxNmemb
      /\ \A n \in live :
           tree.node[n] \in [pair : Nat \X Nat, colour : {RED, BLACK},
                             parent : Link, left : Link, right : Link]

(* The tree stays balanced whatever the keys' bytes have become: the root   *)
(* is black, no red node has a red child, and every way down has the same   *)
(* number of black nodes.                                                   *)
RedBlack ==
  /\ is_black(tree, tree.head)
  /\ \A n \in live : is_red(tree, n) => /\ is_black(tree, tree.node[n].left)
                                        /\ is_black(tree, tree.node[n].right)
  /\ BlackHeight(tree, tree.head) # -1

(* The nodes of the tree are exactly the slots the allocator has lent it,   *)
(* each once, and every parent link leads back up.                          *)
LinksMatch ==
  /\ \A i, j \in DOMAIN Nodes : Nodes[i] = Nodes[j] => i = j
  /\ {Nodes[i] : i \in DOMAIN Nodes} = live
  /\ tree.head # NULL => tree.node[tree.head].parent = NULL
  /\ \A n \in live, d \in {"left", "right"} :
       tree.node[n][d] # NULL => tree.node[tree.node[n][d]].parent = n

(* The tree is a balanced tree of the lent nodes, whatever the client does. *)
TreeSafe == TypeOK /\ RedBlack /\ LinksMatch

(* From begin, next_iter meets every node from left to right and ends; from *)
(* rbegin, prev_iter meets them from right to left.                         *)
IteratorsInOrder ==
  Nodes # << >> =>
    /\ Outermost(tree, tree.head, "left") = Nodes[1]
    /\ Outermost(tree, tree.head, "right") = Nodes[Len(Nodes)]
    /\ \A i \in DOMAIN Nodes :
         /\ NextNode(tree, Nodes[i], "right") = IF i = Len(Nodes) THEN NULL ELSE Nodes[i + 1]
         /\ NextNode(tree, Nodes[i], "left") = IF i = 1 THEN NULL ELSE Nodes[i - 1]

(* Do find, count and contains answer as the dictionary the client built,   *)
(* and do the keys come in order?                                           *)
IsDictionary ==
  /\ \A i \in 1 .. Len(Nodes) - 1 : KeyOf(tree, Nodes[i]) < KeyOf(tree, Nodes[i + 1])
  /\ \A key \in Keys :
       LET n == lookup_node(tree, tree.head, key)
       IN  IF key \in DOMAIN dict
             THEN n # NULL /\ tree.store[tree.node[n].pair].value = dict[key]
             ELSE n = NULL

(* They do, wherever rbt_delete has moved the pairs, for every client, as   *)
(* long as no pair was lost with a page and none came to be shared by two   *)
(* nodes.  The value of a key is the one last inserted, where table.h:90    *)
(* says "does not overwrite the existing value".                            *)
TableIsDictionary == ~damaged => IsDictionary


(* "A sorted associative container that stores unique keys" (set.h:23).     *)
UniqueKeys ==
  \A i \in 1 .. Len(Nodes) - 1 : KeyOf(tree, Nodes[i]) < KeyOf(tree, Nodes[i + 1])
=============================================================================
