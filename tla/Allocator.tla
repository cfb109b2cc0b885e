----------------------------- MODULE Allocator -----------------------------
(***************************************************************************)
(* What CHeap's block allocators promise a container, with no pages, no     *)
(* cursor and no free list: a store of blocks that are handed out.          *)
(*                                                                         *)
(* store maps every block in use to its content.  The address and the       *)
(* first content of a new block are unspecified; a call on one block never  *)
(* changes the content of another.  held counts the blocks handed out and   *)
(* not given back, so that handing out the same block twice is a step of no *)
(* allocator, however the addresses compare.                                *)
(***************************************************************************)
EXTENDS Integers

VARIABLES store, held

(* Old blocks keep address and content in the step that changes store.      *)
Keeps(S) == \A b \in S : b \in DOMAIN store' /\ store'[b] = store[b]

Init == store = << >> /\ held = 0

(* A block that was not in use is handed out.                               *)
Alloc == /\ \E b \in DOMAIN store' : b \notin DOMAIN store
                                     /\ DOMAIN store' = DOMAIN store \union {b}
         /\ Keeps(DOMAIN store)
         /\ held' = held + 1

(* The client gives one block back.                                         *)
Free == \E b \in DOMAIN store : /\ DOMAIN store' = DOMAIN store \ {b}
                                /\ Keeps(DOMAIN store \ {b})
                                /\ held' = held - 1

(* The client writes one of its own blocks.                                 *)
Write == \E b \in DOMAIN store : /\ DOMAIN store' = DOMAIN store
                                 /\ Keeps(DOMAIN store \ {b})
                                 /\ held' = held

(* All blocks are taken back at once.                                       *)
Clear == DOMAIN store' = {} /\ held' = 0

Next == Alloc \/ Free \/ Write \/ Clear

Spec == Init /\ [][Next]_<<store, held>>
=============================================================================
