------------------------------- MODULE MCHash -------------------------------
(***************************************************************************)
(* Keys that collide in a table of 4 but not of 8, that collide in both,    *)
(* and whose probes wrap around the end of the array; and the clients.      *)
(***************************************************************************)
EXTENDS HashIteration, TLC

MCHashOf == ("k1" :> 3) @@ ("k2" :> 3) @@ ("k3" :> 7) @@ ("k4" :> 2) @@ ("k5" :> 10) @@ ("k6" :> 15)

Client(keys, values, ops, max_capacity) ==
  [keys |-> keys, values |-> values, ops |-> ops, max_capacity |-> max_capacity]

Changes == {"add", "erase", "find", "clear"}

Colliding == Client({"k1", "k2", "k3", "k4"}, {"v"}, Changes \union {"update"}, 8)
Resizing == Client({"k1", "k2"}, {"v"}, Changes \union {"update"}, 16)
Erasing == Client({"k1", "k2", "k3", "k4", "k5", "k6"}, {"v"}, Changes, 16)
Updating == Client({"k1", "k2", "k3", "k4", "k5"}, {"v", "w"}, {"add", "update", "find", "clear"}, 8)
Looping == Client({"k1", "k2", "k3", "k4"}, {"v"}, Changes \union {"next", "prev"}, 8)
Reading == Client({"k1", "k2", "k3"}, {"v"}, Changes \union {"next", "prev", "find_in_loop"}, 8)

AllClients == {Colliding, Resizing, Erasing, Updating, Looping, Reading}
ReinsertingClient == {Colliding}
=============================================================================
