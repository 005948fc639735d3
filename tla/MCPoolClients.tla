---------------------------- MODULE MCPoolClients ----------------------------
(* Two resources, three threads.  "wide" fits only an idle gpu bin, "huge"  *)
(* never fits, so threads sleep with and without a reservation to wait for. *)
EXTENDS PoolClients

MCKeys == {"gpu", "mem"}
MCCapacity == [gpu |-> 2, mem |-> 3]
MCCosts == {[gpu |-> 1, mem |-> 1], [gpu |-> 1, mem |-> 2],
            [gpu |-> 2, mem |-> 0], [gpu |-> 0, mem |-> 4]}
MCIterIds == 1..3
MCTimedClients == {3}

=============================================================================
