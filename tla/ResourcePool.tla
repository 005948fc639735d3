---------------------------- MODULE ResourcePool ----------------------------
(***************************************************************************)
(* controller/resource_pool.py: the bounded resource bin that admits       *)
(* trials into the parallel engine.  Every method runs under one lock, so  *)
(* each operation is one action.                                           *)
(*                                                                         *)
(* The dictionaries of the code are total functions over Keys: a resource  *)
(* a dictionary does not mention counts 0, which is what the code's        *)
(* .get(k, 0) reads for it (an unknown resource has capacity 0).           *)
(***************************************************************************)
EXTENDS Integers

CONSTANTS Keys,      \* resource names: "gpu", "memory_gb", ...
          Capacity,  \* ResourcePool(capacity)
          IterIds,   \* the iteration ids that key the reservations
          Costs,     \* the costs compute_resource_cost may return
          None       \* no reservation

ASSUME PoolAssumption ==
    /\ Capacity \in [Keys -> Nat]
    /\ Costs \subseteq [Keys -> Nat]
    /\ None \notin Costs

VARIABLES inUse,         \* _PoolState.in_use
          reservations   \* _PoolState.reservations

poolVars == <<inUse, reservations>>

PoolInit ==
    /\ inUse = [k \in Keys |-> 0]
    /\ reservations = [i \in IterIds |-> None]

Available(k) == Capacity[k] - inUse[k]

(* A cost the pool can serve once everything is released.  As a mutant of  *)
(* Fits, it forgets what is in use.                                        *)
FitsEmptyPool(cost) == \A k \in Keys : cost[k] <= Capacity[k]

(* Mutant of Fits: one key that fits is enough. *)
FitsSomeKey(cost) == \E k \in Keys : Available(k) >= cost[k]

Fits(cost) == \A k \in Keys : Available(k) >= cost[k]

Held == {i \in IterIds : reservations[i] # None}

(* try_acquire returning True: all keys are checked before any is taken. *)
TryAcquire(i, cost) ==
    /\ reservations[i] = None
    /\ Fits(cost)
    /\ inUse' = [k \in Keys |-> inUse[k] + cost[k]]
    /\ reservations' = [reservations EXCEPT ![i] = cost]

(* try_acquire returning False leaves the pool alone. *)
TryAcquireFails(i, cost) ==
    /\ reservations[i] = None
    /\ ~Fits(cost)
    /\ UNCHANGED poolVars

AtLeastZero(n) == IF n < 0 THEN 0 ELSE n

(* Mutant of Release: the reservation is read and not popped. *)
ReleaseKeepsReservation(i) ==
    /\ reservations[i] # None
    /\ inUse' = [k \in Keys |-> AtLeastZero(inUse[k] - reservations[i][k])]
    /\ UNCHANGED reservations

(* release pops the reservation; the subtraction is clamped at zero.       *)
(* Releasing an id that holds nothing changes nothing.                     *)
Release(i) ==
    /\ reservations[i] # None
    /\ inUse' = [k \in Keys |-> AtLeastZero(inUse[k] - reservations[i][k])]
    /\ reservations' = [reservations EXCEPT ![i] = None]

-----------------------------------------------------------------------------

PoolTypeOK ==
    /\ inUse \in [Keys -> Nat]
    /\ reservations \in [IterIds -> Costs \cup {None}]

(* No interleaving of acquisitions and releases hands out more of a       *)
(* resource than the pool was built with (ResourcePool, "bounded").        *)
NeverOversubscribed == \A k \in Keys : inUse[k] <= Capacity[k]

=============================================================================
