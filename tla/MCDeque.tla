------------------------------ MODULE MCDeque ------------------------------
(***************************************************************************)
(* Clients of a deque: one that pushes equal elements, far enough for a     *)
(* ring that wrapped to outgrow its control array; one whose elements       *)
(* differ; one that works in the middle; and two that use it as a queue.    *)
(***************************************************************************)
EXTENDS DequeMiddle

Client(values, cap, ops, min_kept, max_items) ==
  [values |-> values, arr_cap |-> cap, ops |-> ops, min_kept |-> min_kept,
   max_items |-> max_items, repeated |-> {"a"},
   ranges |-> {<<"a", "b">>, <<"a", "a", "a">>, <<"b", "a", "a", "a", "a", "a">>}]

Ends == {"push_front", "push_back", "pop_front", "pop_back", "clear"}
Middle == {"push_front_range", "push_back_range", "insert", "erase", "insert_range"}
Queue == {"push_back", "pop_front"}

Counting == Client({"a"}, 2, Ends, 0, 12)
Telling == Client({"a", "b"}, 2, Ends, 0, 9)
Inserting == Client({"a", "b"}, 6, Middle, 0, 13)
Queueing == Client({"a", "b"}, 2, Queue, 0, 6)
Keeping == Client({"a", "b"}, 2, Queue, 1, 7)

AllClients == {Counting, Telling, Inserting}
QueueClient == {Queueing}
KeepingClient == {Keeping}
=============================================================================
