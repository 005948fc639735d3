---------------------------- MODULE ParallelEngine ----------------------------
(***************************************************************************)
(* controller/parallel_engine.py: run_experiment_parallel.  One loop       *)
(* thread draws proposals, admits them through the ResourcePool, hands     *)
(* them to a ThreadPoolExecutor and commits their outcomes in submission   *)
(* order; one worker thread per trial runs the executor beside its         *)
(* IntraIterationGuard.  Signals, the wall clock, exceptions in the loop   *)
(* body, a kill and a restart from the checkpoint may come at any time.    *)
(*                                                                         *)
(* pc names the phases of the loop body; what the loop does within one     *)
(* phase touches no state another thread writes, other than through the    *)
(* workers' futures and the shutdown flag, which are read once per phase.  *)
(***************************************************************************)
EXTENDS TrialRules, Functions

CONSTANTS MaxIterations,   \* controller.max_iterations
          MaxConcurrency,  \* controller.parallel.max_concurrency
          Keys, Capacity,  \* controller.parallel.resources
          Costs, None,
          GuardEnabled,    \* controller.intra_iteration_cancel.enabled
          HasWallLimit,    \* controller.max_wall_time_s is set
          Faults,          \* the phases in which the loop body may raise
          MaxRestarts      \* bound: kills and reruns considered

Rewards == {"keep", "cancelled", "failed", "zero"}   \* 1.0, -0.05, -0.1, 0.0

FaultPhases == {"propose", "submit", "commit", "reward", "record", "finally"}

ASSUME EngineAssumption ==
    /\ None \notin Outcomes
    /\ None \notin Rewards
    /\ Capacity \in [Keys -> Nat]
    /\ Costs \subseteq [Keys -> Nat]
    /\ None \notin Costs
    /\ MaxIterations \in Nat
    /\ MaxConcurrency \in Nat \ {0}
    /\ GuardEnabled \in BOOLEAN
    /\ HasWallLimit \in BOOLEAN
    /\ Faults \subseteq FaultPhases
    /\ MaxRestarts \in Nat

IterIds == 0..(MaxIterations - 1)

VARIABLES
    pc,             \* phase of the loop body
    batch,          \* costs of the proposals drawn and not yet submitted
    iterIdx, nextToProcess, iterationsDone,
    inFlight, completed,
    worker,         \* what the thread pool is doing with each trial
    outcome,        \* the result of each future that is done
    current,        \* the trial being committed, or None
    bestScore, streak, recent,
    pendingRewards, nextUnflushed,
    rewards,        \* calls of policy.record_reward, in order
    shutdown, wallExpired,
    ledger, checkpoint,   \* the two files that survive a restart
    firstIter,      \* iteration this process started from
    restarts,
    inUse, reservations   \* the ResourcePool

loopVars == <<batch, iterIdx, nextToProcess, iterationsDone, inFlight, completed,
              current, bestScore, streak, recent, pendingRewards, nextUnflushed,
              rewards, firstIter>>
workVars == <<worker, outcome>>
signalVars == <<shutdown, wallExpired>>
fileVars == <<ledger, checkpoint>>
poolVars == <<inUse, reservations>>

vars == <<pc, loopVars, workVars, signalVars, fileVars, restarts, poolVars>>

Pool == INSTANCE ResourcePool

Phases == {"top", "propose", "submit", "drain", "process", "record",
           "finally", "join", "stopped"}
Workers == {"none", "queued", "running", "done", "dropped"}

-----------------------------------------------------------------------------
(* Startup. *)

(* What a process without a checkpoint file starts from.                   *)
NoCheckpoint ==
    [iteration |-> -1, best |-> Infinity, streak |-> 0, recent |-> <<>>, wall |-> FALSE]

Init ==
    /\ pc = "top"
    /\ batch = <<>>
    /\ iterIdx = 0 /\ nextToProcess = 0 /\ iterationsDone = 0
    /\ inFlight = {} /\ completed = {}
    /\ worker = [i \in IterIds |-> "none"]
    /\ outcome = [i \in IterIds |-> None]
    /\ current = None
    /\ bestScore = Infinity /\ streak = 0 /\ recent = <<>>
    /\ pendingRewards = [i \in IterIds |-> None]
    /\ nextUnflushed = 0 /\ rewards = <<>> /\ firstIter = 0
    /\ shutdown = FALSE /\ wallExpired = FALSE
    /\ ledger = <<>> /\ checkpoint = NoCheckpoint
    /\ restarts = 0
    /\ Pool!PoolInit

(* The process ended, or is killed here, and is started again: it loads    *)
(* the checkpoint; the policy, the pool and the workers start afresh.      *)
Restart ==
    /\ restarts < MaxRestarts
    /\ restarts' = restarts + 1
    /\ pc' = "top"
    /\ batch' = <<>>
    /\ iterIdx' = checkpoint.iteration + 1
    /\ nextToProcess' = checkpoint.iteration + 1
    /\ iterationsDone' = checkpoint.iteration + 1
    /\ nextUnflushed' = checkpoint.iteration + 1
    /\ firstIter' = checkpoint.iteration + 1
    /\ bestScore' = checkpoint.best
    /\ streak' = checkpoint.streak
    /\ recent' = checkpoint.recent
    /\ wallExpired' = checkpoint.wall
    /\ shutdown' = FALSE
    /\ inFlight' = {} /\ completed' = {} /\ current' = None
    /\ worker' = [i \in IterIds |-> "none"]
    /\ outcome' = [i \in IterIds |-> None]
    /\ pendingRewards' = [i \in IterIds |-> None]
    /\ rewards' = <<>>
    /\ inUse' = [k \in Keys |-> 0]
    /\ reservations' = [i \in IterIds |-> None]
    /\ UNCHANGED fileVars

-----------------------------------------------------------------------------
(* The environment: a signal, the wall clock. *)

SignalArrives ==
    /\ pc # "stopped" /\ ~shutdown
    /\ shutdown' = TRUE
    /\ UNCHANGED <<pc, loopVars, workVars, wallExpired, fileVars, restarts, poolVars>>

WallTimePasses ==
    /\ HasWallLimit /\ pc # "stopped" /\ ~wallExpired
    /\ wallExpired' = TRUE
    /\ UNCHANGED <<pc, loopVars, workVars, shutdown, fileVars, restarts, poolVars>>

(* _stop_requested *)
StopRequested ==
    \/ shutdown
    \/ wallExpired
    \/ iterationsDone >= MaxIterations
    \/ NoImprove(streak)
    \/ FailureRateHit(recent)

-----------------------------------------------------------------------------
(* Submit phase. *)

Outstanding == Cardinality(inFlight) + Cardinality(completed)

Least(a, b) == IF a < b THEN a ELSE b

(* Mutant of SlotsOpen: the trials in flight occupy no slot. *)
SlotsOpenIgnoresBusy ==
    LET needed == MaxIterations - iterationsDone - Outstanding
    IN  Least(MaxConcurrency, IF needed < 0 THEN 0 ELSE needed)

SlotsOpen ==
    LET needed == MaxIterations - iterationsDone - Outstanding
    IN  Least(MaxConcurrency - Cardinality(inFlight), IF needed < 0 THEN 0 ELSE needed)

(* Mutant of BeginRound: a stop condition ends the loop on the spot. *)
BeginRoundAbandons ==
    /\ pc = "top"
    /\ pc' = IF StopRequested THEN "finally"
             ELSE IF SlotsOpen > 0 THEN "propose" ELSE "drain"
    /\ UNCHANGED <<loopVars, workVars, signalVars, fileVars, restarts, poolVars>>

(* The while condition, and whether this round asks for proposals.         *)
BeginRound ==
    /\ pc = "top"
    /\ pc' = IF StopRequested /\ inFlight = {} /\ completed = {} THEN "finally"
             ELSE IF SlotsOpen > 0 /\ ~StopRequested THEN "propose" ELSE "drain"
    /\ UNCHANGED <<loopVars, workVars, signalVars, fileVars, restarts, poolVars>>

(* propose_batch(policy, state, slots_open) returns that many proposals.   *)
ProposeBatch ==
    /\ pc = "propose"
    /\ batch' \in [1..SlotsOpen -> Costs]
    /\ pc' = "submit"
    /\ UNCHANGED <<iterIdx, nextToProcess, iterationsDone, inFlight, completed,
                   current, bestScore, streak, recent, pendingRewards, nextUnflushed,
                   rewards, firstIter, workVars, signalVars, fileVars, restarts, poolVars>>

MaySubmit ==
    /\ batch # <<>>
    /\ ~StopRequested
    /\ iterationsDone + Outstanding < MaxIterations

Submit ==
    /\ pc = "submit" /\ MaySubmit
    /\ Pool!TryAcquire(iterIdx, Head(batch))
    /\ inFlight' = inFlight \cup {iterIdx}
    /\ worker' = [worker EXCEPT ![iterIdx] = "queued"]
    /\ iterIdx' = iterIdx + 1
    /\ batch' = Tail(batch)
    /\ UNCHANGED <<pc, nextToProcess, iterationsDone, completed, current, bestScore,
                   streak, recent, pendingRewards, nextUnflushed, rewards, firstIter,
                   outcome, signalVars, fileVars, restarts>>

(* The round ends: the batch is used up, the loop is to stop, or the next  *)
(* proposal does not fit.  The proposals left in the batch are dropped.    *)
EndSubmit ==
    /\ pc = "submit"
    /\ MaySubmit => Pool!TryAcquireFails(iterIdx, Head(batch))
    /\ batch' = <<>>
    /\ pc' = "drain"
    /\ UNCHANGED <<iterIdx, nextToProcess, iterationsDone, inFlight, completed,
                   current, bestScore, streak, recent, pendingRewards, nextUnflushed,
                   rewards, firstIter, workVars, signalVars, fileVars, restarts, poolVars>>

-----------------------------------------------------------------------------
(* The worker threads. *)

Running == {i \in IterIds : worker[i] = "running"}

StartTrial(i) ==
    /\ worker[i] = "queued"
    /\ Cardinality(Running) < MaxConcurrency      \* ThreadPoolExecutor(max_workers)
    /\ worker' = [worker EXCEPT ![i] = "running"]
    /\ UNCHANGED <<pc, loopVars, outcome, signalVars, fileVars, restarts, poolVars>>

(* _execute_one returns, or raises (a failed outcome without metrics).     *)
(* The guard turns any outcome into "cancelled", and it can do so only     *)
(* once a best value has been published to best_value_ref.                 *)
FinishTrial(i) ==
    /\ worker[i] = "running"
    /\ \E out \in Outcomes :
        /\ out.status = "cancelled" => GuardEnabled /\ bestScore < Infinity
        /\ outcome' = [outcome EXCEPT ![i] = out]
    /\ worker' = [worker EXCEPT ![i] = "done"]
    /\ UNCHANGED <<pc, loopVars, signalVars, fileVars, restarts, poolVars>>

-----------------------------------------------------------------------------
(* Drain phase: every done future leaves in_flight and its reservation is  *)
(* released.  Trials that finish while the loop walks in_flight are found  *)
(* in the next round, so one at a time or all at once makes no difference. *)

Finished == {i \in inFlight : worker[i] = "done"}

(* Mutant of DrainOne: the trial stays in in_flight. *)
DrainOneKeepsInFlight ==
    /\ pc = "drain"
    /\ \E i \in Finished :
        /\ completed' = completed \cup {i}
        /\ Pool!Release(i)
    /\ UNCHANGED <<pc, batch, iterIdx, nextToProcess, iterationsDone, inFlight, current,
                   bestScore, streak, recent, pendingRewards, nextUnflushed, rewards,
                   firstIter, workVars, signalVars, fileVars, restarts>>

DrainOne ==
    /\ pc = "drain"
    /\ \E i \in Finished :
        /\ \A j \in Finished : i <= j             \* sorted(in_flight)
        /\ inFlight' = inFlight \ {i}
        /\ completed' = completed \cup {i}
        /\ Pool!Release(i)
    /\ UNCHANGED <<pc, batch, iterIdx, nextToProcess, iterationsDone, current, bestScore,
                   streak, recent, pendingRewards, nextUnflushed, rewards, firstIter,
                   workVars, signalVars, fileVars, restarts>>

EndDrain ==
    /\ pc = "drain" /\ Finished = {}
    /\ pc' = "process"
    /\ UNCHANGED <<loopVars, workVars, signalVars, fileVars, restarts, poolVars>>

(* Nothing to commit: leave when nothing is under way, else sleep and poll. *)
NothingReady ==
    /\ pc = "process" /\ nextToProcess \notin completed
    /\ pc' = IF inFlight = {} /\ completed = {} THEN "finally" ELSE "top"
    /\ UNCHANGED <<loopVars, workVars, signalVars, fileVars, restarts, poolVars>>

-----------------------------------------------------------------------------
(* Commit of one trial, in submission order. *)

(* Mutant of Reward: a discarded trial gets no reward. *)
RewardNotable(out, best) ==
    IF out.status = "cancelled" THEN "cancelled"
    ELSE IF out.score = NoScore THEN "failed"
    ELSE IF Improves(out, best) THEN "keep" ELSE None

Reward(out, best) ==
    IF out.status = "cancelled" THEN "cancelled"
    ELSE IF out.score = NoScore THEN "failed"
    ELSE IF Improves(out, best) THEN "keep" ELSE "zero"

(* Pop the trial, decide, publish the best value, queue the reward.        *)
Commit ==
    /\ pc = "process" /\ nextToProcess \in completed
    /\ LET i == nextToProcess
           out == outcome[i]
       IN  /\ current' = [iter |-> i, out |-> out, before |-> bestScore]
           /\ completed' = completed \ {i}
           /\ nextToProcess' = i + 1
           /\ bestScore' = BestAfter(out, bestScore)
           /\ streak' = StreakAfter(out, bestScore, streak)
           /\ pendingRewards' = [pendingRewards EXCEPT ![i] = Reward(out, bestScore)]
    /\ pc' = "record"
    /\ UNCHANGED <<batch, iterIdx, iterationsDone, inFlight, recent, nextUnflushed,
                   rewards, firstIter, workVars, signalVars, fileVars, restarts,
                   poolVars>>

(* _drain_rewards: hand the policy the queued rewards as long as the next  *)
(* one in iteration order is there.                                        *)
RewardReady ==
    nextUnflushed \in IterIds /\ pendingRewards[nextUnflushed] # None

FlushReward ==
    /\ pc = "record" /\ RewardReady
    /\ rewards' = Append(rewards, [iter |-> nextUnflushed,
                                   reward |-> pendingRewards[nextUnflushed]])
    /\ pendingRewards' = [pendingRewards EXCEPT ![nextUnflushed] = None]
    /\ nextUnflushed' = nextUnflushed + 1
    /\ UNCHANGED <<pc, batch, iterIdx, nextToProcess, iterationsDone, inFlight, completed,
                   current, bestScore, streak, recent, firstIter, workVars, signalVars,
                   fileVars, restarts, poolVars>>

(* Mutant of LedgerRow: decided again, when the best score has moved. *)
RowDecidedAgain ==
    [iter |-> current.iter, decision |-> Decision(current.out, bestScore),
     best |-> ShownScore(bestScore)]

(* What append_result_row is given. *)
LedgerRow ==
    [iter |-> current.iter,
     decision |-> Decision(current.out, current.before),
     best |-> ShownScore(bestScore)]

(* Trace event, manifest, ledger row, history, statuses, counter.          *)
Record ==
    /\ pc = "record" /\ ~RewardReady
    /\ ledger' = Append(ledger, LedgerRow)
    /\ recent' = Push(recent, FinalStatus(current.out))
    /\ iterationsDone' = iterationsDone + 1
    /\ current' = None
    /\ pc' = "top"
    /\ UNCHANGED <<batch, iterIdx, nextToProcess, inFlight, completed, bestScore, streak,
                   pendingRewards, nextUnflushed, rewards, firstIter, workVars,
                   signalVars, checkpoint, restarts, poolVars>>

-----------------------------------------------------------------------------
(* finally: cancel what has not started, wait for what has, save. *)

CancelPending ==
    /\ pc = "finally"
    /\ worker' = [i \in IterIds |-> IF worker[i] = "queued" THEN "dropped" ELSE worker[i]]
    /\ pc' = "join"
    /\ UNCHANGED <<loopVars, outcome, signalVars, fileVars, restarts, poolVars>>

SaveCheckpoint ==
    /\ pc = "join" /\ Running = {}
    /\ checkpoint' = IF iterationsDone > 0
                     THEN [iteration |-> iterIdx - 1, best |-> bestScore,
                           streak |-> streak, recent |-> recent, wall |-> wallExpired]
                     ELSE checkpoint
    /\ current' = None
    /\ pc' = "stopped"
    /\ UNCHANGED <<batch, iterIdx, nextToProcess, iterationsDone, inFlight, completed,
                   bestScore, streak, recent, pendingRewards, nextUnflushed, rewards,
                   firstIter, workVars, signalVars, ledger, restarts, poolVars>>

(* An exception leaves the loop body for the finally block: the policy     *)
(* raises; the trace cannot be appended after the pool admitted a trial,   *)
(* or after a completed trial was popped; a version cannot be saved after  *)
(* the best score moved; the policy raises on a reward; the trace, the     *)
(* manifest or the ledger cannot be written.                               *)
Raise ==
    /\ \/ /\ pc = "propose" /\ "propose" \in Faults
          /\ UNCHANGED <<loopVars, poolVars>>
       \/ /\ pc = "submit" /\ "submit" \in Faults /\ MaySubmit
          /\ Pool!TryAcquire(iterIdx, Head(batch))
          /\ UNCHANGED loopVars
       \/ /\ pc = "process" /\ "commit" \in Faults
          /\ nextToProcess \in completed
          /\ completed' = completed \ {nextToProcess}
          /\ nextToProcess' = nextToProcess + 1
          /\ \/ UNCHANGED <<bestScore, streak>>
             \/ /\ Improves(outcome[nextToProcess], bestScore)
                /\ bestScore' = outcome[nextToProcess].score
                /\ streak' = 0
          /\ UNCHANGED <<batch, iterIdx, iterationsDone, inFlight, current, recent,
                         pendingRewards, nextUnflushed, rewards, firstIter, poolVars>>
       \/ /\ pc = "record" /\ "reward" \in Faults /\ RewardReady
          /\ pendingRewards' = [pendingRewards EXCEPT ![nextUnflushed] = None]
          /\ UNCHANGED <<batch, iterIdx, nextToProcess, iterationsDone, inFlight,
                         completed, current, bestScore, streak, recent, nextUnflushed,
                         rewards, firstIter, poolVars>>
       \/ /\ pc = "record" /\ "record" \in Faults /\ ~RewardReady
          /\ UNCHANGED <<loopVars, poolVars>>
    /\ pc' = "finally"
    /\ UNCHANGED <<workVars, signalVars, fileVars, restarts>>

(* The finally block raises before it reaches save_checkpoint.             *)
RaiseInFinally ==
    /\ pc = "join" /\ Running = {} /\ "finally" \in Faults
    /\ pc' = "stopped"
    /\ UNCHANGED <<loopVars, workVars, signalVars, fileVars, restarts, poolVars>>

-----------------------------------------------------------------------------

Loop ==
    \/ BeginRound \/ ProposeBatch \/ Submit \/ EndSubmit \/ DrainOne \/ EndDrain
    \/ NothingReady \/ Commit \/ FlushReward \/ Record
    \/ CancelPending \/ SaveCheckpoint \/ Raise \/ RaiseInFinally

WorkerStep(i) == StartTrial(i) \/ FinishTrial(i)

Next ==
    \/ Loop
    \/ \E i \in IterIds : WorkerStep(i)
    \/ SignalArrives
    \/ WallTimePasses
    \/ Restart

(* The loop thread keeps running, and every trial ends: the executor's     *)
(* target has a timeout.                                                   *)
Fairness ==
    /\ WF_vars(Loop)
    /\ \A i \in IterIds : WF_vars(WorkerStep(i))

Spec == Init /\ [][Next]_vars
FairSpec == Spec /\ Fairness

-----------------------------------------------------------------------------
(* Properties. *)

LoopPhases == {"top", "propose", "submit", "drain", "process", "record"}

BestScores == Scores \cup {Infinity}

CheckpointSet ==
    [iteration : IterIds \cup {-1}, best : BestScores, streak : Nat,
     recent : Seq(Statuses), wall : BOOLEAN]

TypeOK ==
    /\ pc \in Phases
    /\ batch \in Seq(Costs)
    /\ iterIdx \in 0..MaxIterations
    /\ nextToProcess \in 0..MaxIterations
    /\ iterationsDone \in 0..MaxIterations
    /\ inFlight \subseteq IterIds
    /\ completed \subseteq IterIds
    /\ worker \in [IterIds -> Workers]
    /\ outcome \in [IterIds -> Outcomes \cup {None}]
    /\ pc = "record" =>
          current \in [iter : IterIds, out : Outcomes, before : BestScores]
    /\ bestScore \in BestScores
    /\ streak \in Nat
    /\ recent \in Seq(Statuses)
    /\ pendingRewards \in [IterIds -> Rewards \cup {None}]
    /\ nextUnflushed \in 0..MaxIterations
    /\ rewards \in Seq([iter : IterIds, reward : Rewards])
    /\ shutdown \in BOOLEAN
    /\ wallExpired \in BOOLEAN
    /\ ledger \in Seq([iter : IterIds, decision : Decisions, best : RowScores])
    /\ checkpoint \in CheckpointSet
    /\ firstIter \in 0..MaxIterations
    /\ restarts \in 0..MaxRestarts
    /\ Pool!PoolTypeOK

(* in_flight and completed are disjoint and together hold exactly the      *)
(* submitted, uncommitted iterations: the loop can never wait for a trial  *)
(* that is in neither, nor commit one twice.                               *)
EveryTrialAccountedFor ==
    /\ inFlight \cap completed = {}
    /\ inFlight \cup completed = nextToProcess..(iterIdx - 1)

(* What runs at any moment was admitted: a running trial holds its         *)
(* reservation until its thread is done, and the costs of all running      *)
(* trials fit the configured resources, across stops and exceptions.       *)
RunningAdmitted == \A i \in Running : reservations[i] # None

RunningWithinCapacity ==
    /\ RunningAdmitted
    /\ \A k \in Keys :
          SumFunctionOnSet([i \in Running |-> reservations[i][k]], Running) <= Capacity[k]

(* No reservation outlives its trial in in_flight while the loop goes on,  *)
(* so a long search never loses a slot.                                    *)
NoLeakedReservation == pc \in LoopPhases => Pool!Held = inFlight

(* No more iterations are started than controller.max_iterations, and no   *)
(* more are under way than max_concurrency, though the three counters the  *)
(* clamps are computed from move at different moments.                     *)
LimitsRespected ==
    /\ iterIdx <= MaxIterations
    /\ Cardinality(inFlight) <= MaxConcurrency

(* R3.a of the module docstring: record_reward is called in iteration      *)
(* order, once per iteration, from the first iteration of this process,    *)
(* whatever order the trials complete in; and nothing committed waits.     *)
RewardsInOrder ==
    /\ \A n \in 1..Len(rewards) : rewards[n].iter = firstIter + n - 1
    /\ pc \in LoopPhases \ {"record"} => Len(rewards) = nextToProcess - firstIter

(* A search that no exception interrupts ends only because a stop          *)
(* condition holds or a trial costs more than the whole pool, and then     *)
(* every trial it submitted has been committed: a shutdown, a time limit   *)
(* or a streak drops no running trial.                                     *)
StopsCleanly ==
    pc = "stopped" =>
        /\ StopRequested \/ \E c \in Costs : ~Pool!FitsEmptyPool(c)
        /\ iterIdx = iterationsDone

(* The search implements the sequential ledger: its overlapping trials     *)
(* are committed as if they had run one after the other.                   *)
Ledger == INSTANCE SearchLedger WITH
    rows  <- ledger,
    best  <- IF pc = "record" THEN current.before ELSE bestScore,
    done  <- iterationsDone,
    saved <- [done |-> checkpoint.iteration + 1, best |-> checkpoint.best]

LedgerSpec == Ledger!Spec

(* The checkpoint counts no iteration that has no ledger row (module       *)
(* docstring: "Same observable contract (LoopResult, telemetry events,     *)
(* ledger rows, checkpoint, keep/discard)").                               *)
NoneSkipped == Ledger!NoneSkipped

(* With the loop and the workers running, the search comes to its end.     *)
Terminates == <>(pc = "stopped")

=============================================================================
