----------------------------- MODULE PoolClients -----------------------------
(***************************************************************************)
(* Threads that share one ResourcePool in the way its docstrings describe: *)
(* try_acquire, back off in wait_for_capacity when it does not fit, try    *)
(* again, release.  wait_for_capacity checks under the lock, sleeps on the *)
(* condition variable (which gives the lock up) and checks again when a    *)
(* release notifies it or its deadline passes; it never acquires.          *)
(***************************************************************************)
EXTENDS ResourcePool

CONSTANT TimedClients    \* the threads that pass a timeout_s

ASSUME TimedClientsAssumption == TimedClients \subseteq IterIds

VARIABLES phase,    \* where each thread is
          want,     \* the cost each thread asks for
          expired   \* its deadline has passed

clientVars == <<phase, want, expired>>
poolClientVars == <<poolVars, clientVars>>

Phases == {"idle", "holding", "checking", "asleep"}

ClientsInit ==
    /\ PoolInit
    /\ phase = [i \in IterIds |-> "idle"]
    /\ want \in [IterIds -> Costs]
    /\ expired = [i \in IterIds |-> FALSE]

Acquire(i) ==
    /\ phase[i] = "idle"
    /\ TryAcquire(i, want[i])
    /\ phase' = [phase EXCEPT ![i] = "holding"]
    /\ UNCHANGED <<want, expired>>

(* Refused: enter wait_for_capacity, which computes its deadline. *)
BackOff(i) ==
    /\ phase[i] = "idle"
    /\ TryAcquireFails(i, want[i])
    /\ phase' = [phase EXCEPT ![i] = "checking"]
    /\ expired' = [expired EXCEPT ![i] = FALSE]
    /\ UNCHANGED want

(* wait_for_capacity returns True; the caller must still try_acquire. *)
WaitReady(i) ==
    /\ phase[i] = "checking"
    /\ Fits(want[i])
    /\ phase' = [phase EXCEPT ![i] = "idle"]
    /\ UNCHANGED <<poolVars, want, expired>>

WaitSleep(i) ==
    /\ phase[i] = "checking"
    /\ ~Fits(want[i])
    /\ ~expired[i]
    /\ phase' = [phase EXCEPT ![i] = "asleep"]
    /\ UNCHANGED <<poolVars, want, expired>>

(* wait_for_capacity returns False. *)
WaitTimedOut(i) ==
    /\ phase[i] = "checking"
    /\ ~Fits(want[i])
    /\ expired[i]
    /\ phase' = [phase EXCEPT ![i] = "idle"]
    /\ UNCHANGED <<poolVars, want, expired>>

(* The deadline passes; a sleeping thread comes back to check once more. *)
DeadlinePasses(i) ==
    /\ i \in TimedClients
    /\ phase[i] \in {"checking", "asleep"}
    /\ ~expired[i]
    /\ expired' = [expired EXCEPT ![i] = TRUE]
    /\ phase' = [phase EXCEPT ![i] = "checking"]
    /\ UNCHANGED <<poolVars, want>>

(* Mutant of NotifyAll: notify(), which wakes one of them. *)
NotifyOne(p) ==
    LET woken == CHOOSE j \in IterIds : p[j] = "asleep"
    IN  IF \E j \in IterIds : p[j] = "asleep"
        THEN [p EXCEPT ![woken] = "checking"] ELSE p

(* notify_all: every sleeping thread goes back to its check. *)
NotifyAll(p) ==
    [j \in IterIds |-> IF p[j] = "asleep" THEN "checking" ELSE p[j]]

ReleaseAndNotify(i) ==
    /\ phase[i] = "holding"
    /\ Release(i)
    /\ phase' = NotifyAll([phase EXCEPT ![i] = "idle"])
    /\ UNCHANGED <<want, expired>>

ClientsNext == \E i \in IterIds :
    \/ Acquire(i)
    \/ BackOff(i)
    \/ WaitReady(i)
    \/ WaitSleep(i)
    \/ WaitTimedOut(i)
    \/ DeadlinePasses(i)
    \/ ReleaseAndNotify(i)

(* A holder releases when its trial ends; nothing else is assumed fair. *)
Fairness == \A i \in IterIds : WF_poolClientVars(ReleaseAndNotify(i))

ClientsSpec == ClientsInit /\ [][ClientsNext]_poolClientVars /\ Fairness

-----------------------------------------------------------------------------

ClientsTypeOK ==
    /\ PoolTypeOK
    /\ phase \in [IterIds -> Phases]
    /\ want \in [IterIds -> Costs]
    /\ expired \in [IterIds -> BOOLEAN]

(* No lost wakeup: a thread asleep in wait_for_capacity is one whose cost  *)
(* does not fit, because only release frees capacity and it notifies all.  *)
NoLostWakeup == \A i \in IterIds : phase[i] = "asleep" => ~Fits(want[i])

(* A sleeper whose cost the pool could ever serve is eventually woken,     *)
(* with or without a timeout, as long as holders release.                  *)
SleepersWake ==
    \A i \in IterIds :
        (phase[i] = "asleep" /\ FitsEmptyPool(want[i])) ~> (phase[i] # "asleep")

=============================================================================
