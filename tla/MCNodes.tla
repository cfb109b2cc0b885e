------------------------------ MODULE MCNodes ------------------------------
(***************************************************************************)
(* A client of one of the containers whose nodes come from a node           *)
(* allocator: a doubly linked list, or a table.  Those of a table fill it   *)
(* in any order and then empty it, fill it again, have many keys, only      *)
(* erase while its pages come and go, go on inserting after an erasure, or  *)
(* mix all the operations.                                                  *)
(***************************************************************************)
EXTENDS DoublyLinked

CONSTANTS
  Uses,                    \* subset of {"list", "table"}
  TreeClients, TreePages   \* see RBTree

VARIABLES
  uses,  \* one of Uses, for the life of the program
  tclient, tpages, tblocks, tword, tlive, tchain, theld,
  tree, dict, again, erased, damaged

treeVars == <<tclient, tpages, tblocks, tword, tlive, tchain, theld,
              tree, dict, again, erased, damaged>>

Tr == INSTANCE RBTree WITH
  Clients <- TreeClients, MaxPages <- TreePages, client <- tclient,
  pages <- tpages, blocks <- tblocks, word <- tword, live <- tlive,
  chain <- tchain, held <- theld

ListClient(ops, max_items, max_nmemb) ==
  [ops |-> ops, max_items |-> max_items, max_nmemb |-> max_nmemb]

Mixing == ListClient({"push_front", "push_back", "insert", "insert_end", "pop_front",
                      "pop_back", "erase", "clear"}, 4, 7)
Stacking == ListClient({"push_front", "pop_front", "walk"}, 12, 24)
Queueing == ListClient({"push_back", "pop_front", "walk"}, 3, 4)

AllLists == {Mixing, Stacking}
QueueClient == {Queueing}

TreeClient(max_key, values, first_page, calls, max_nmemb) ==
  [max_key |-> max_key, values |-> values, first_page |-> first_page, calls |-> calls,
   max_nmemb |-> max_nmemb]

Filling == TreeClient(6, {"v"}, 8, {"any_order"}, 6)
Refilling == TreeClient(4, {"v"}, 4, {"any_order", "refill", "clear", "present_key"}, 5)
Large == TreeClient(8, {"v"}, 16, {}, 8)
Paging == TreeClient(3, {"v", "w"}, 1, {"any_order", "refill"}, 3)
Continuing == TreeClient(4, {"v"}, 4, {"any_order", "after_erase"}, 3)
Everything == TreeClient(3, {"v", "w"}, 1,
                         {"any_order", "present_key", "after_erase", "clear"}, 3)
Reinserting == TreeClient(4, {"v"}, 8, {"any_order", "after_erase"}, 5)

AllTrees == {Filling, Refilling, Large, Paging, Continuing, Everything}
ReinsertingClient == {Reinserting}

InitNodes == /\ uses \in Uses
             /\ Init /\ Tr!Init
             /\ uses = "table" => client = CHOOSE c \in Clients : TRUE
             /\ uses = "list" => tclient = CHOOSE c \in TreeClients : TRUE

NextNodes ==
  \/ uses = "list" /\ Next /\ UNCHANGED <<uses, client, treeVars>>
  \/ uses = "table" /\ Tr!Next /\ UNCHANGED <<uses, vars, tclient>>

(* A loop over a list that has begun goes on to the next element.           *)
SpecNodes == /\ InitNodes /\ [][NextNodes]_<<uses, vars, treeVars>>
             /\ WF_vars(WalkOn /\ UNCHANGED client)

(* The tree is a balanced search tree with its links and its slots right;   *)
(* see RBTree.                                                              *)
TreeSafe == Tr!TreeSafe

(* Its iterators go through the nodes in order, both ways; see RBTree.      *)
IteratorsInOrder == Tr!IteratorsInOrder

(* Until a pair is lost or shared it is the dictionary its client built;    *)
(* see RBTree.                                                              *)
TableIsDictionary == Tr!TableIsDictionary


(* "A sorted associative container that stores unique keys" (set.h:23).     *)
UniqueKeys == Tr!UniqueKeys
=============================================================================
