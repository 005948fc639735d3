----------------------------- MODULE SerialEngine -----------------------------
(***************************************************************************)
(* controller/engine.py: run_experiment, the loop that runs one trial at a *)
(* time.  A signal, the wall clock, an exception at any call the body      *)
(* makes, a kill and a restart from the checkpoint may come in between.    *)
(***************************************************************************)
EXTENDS TrialRules

CONSTANTS MaxIterations,   \* controller.max_iterations
          GuardEnabled,    \* controller.intra_iteration_cancel.enabled
          ForecastAfter,   \* scored trials before the forecast may stop the loop
          HasWallLimit,    \* controller.max_wall_time_s is set
          Faults,          \* the calls that may raise
          None,
          MaxRestarts      \* bound: kills and reruns considered

FaultPoints == {"propose", "execute", "judge", "reward", "record", "notify", "finally"}

ASSUME EngineAssumption ==
    /\ MaxIterations \in Nat
    /\ GuardEnabled \in BOOLEAN
    /\ ForecastAfter \in Nat
    /\ HasWallLimit \in BOOLEAN
    /\ Faults \subseteq FaultPoints
    /\ MaxRestarts \in Nat

VARIABLES pc,
          done,           \* iterations_done, which iter_idx always equals
          current,        \* outcome of the trial under way, and what it had to beat
          bestScore, streak, recent,
          scored,         \* len(score_history)
          shutdown, wallExpired,
          ledger, checkpoint,
          restarts,
          raised,         \* history: some call has raised
          dropped         \* history: winning scores whose row an exception
                          \* prevented

loopVars == <<done, current, bestScore, streak, recent, scored>>
signalVars == <<shutdown, wallExpired>>
fileVars == <<ledger, checkpoint>>
history == <<raised, dropped>>
vars == <<pc, loopVars, signalVars, fileVars, restarts, history>>

NoCheckpoint ==
    [iteration |-> -1, best |-> Infinity, streak |-> 0, recent |-> <<>>, wall |-> FALSE]

Init ==
    /\ pc = "top"
    /\ done = 0 /\ current = None
    /\ bestScore = Infinity /\ streak = 0 /\ recent = <<>>
    /\ scored = 0
    /\ shutdown = FALSE /\ wallExpired = FALSE
    /\ ledger = <<>> /\ checkpoint = NoCheckpoint
    /\ restarts = 0 /\ raised = FALSE /\ dropped = {}

(* The process ended, or is killed here, and is started again.             *)
Restart ==
    /\ restarts < MaxRestarts
    /\ restarts' = restarts + 1
    /\ pc' = "top"
    /\ done' = checkpoint.iteration + 1
    /\ current' = None
    /\ bestScore' = checkpoint.best
    /\ streak' = checkpoint.streak
    /\ recent' = checkpoint.recent
    /\ wallExpired' = checkpoint.wall
    /\ scored' = 0
    /\ shutdown' = FALSE
    /\ UNCHANGED <<fileVars, history>>

SignalArrives ==
    /\ pc # "stopped" /\ ~shutdown
    /\ shutdown' = TRUE
    /\ UNCHANGED <<pc, loopVars, wallExpired, fileVars, restarts, history>>

WallTimePasses ==
    /\ HasWallLimit /\ pc # "stopped" /\ ~wallExpired
    /\ wallExpired' = TRUE
    /\ UNCHANGED <<pc, loopVars, shutdown, fileVars, restarts, history>>

-----------------------------------------------------------------------------
(* One iteration. *)

BeginIteration ==
    /\ pc = "top"
    /\ pc' = IF shutdown \/ wallExpired \/ done >= MaxIterations
             THEN "finally" ELSE "propose"
    /\ UNCHANGED <<loopVars, signalVars, fileVars, restarts, history>>

Propose ==
    /\ pc = "propose" /\ pc' = "execute"
    /\ UNCHANGED <<loopVars, signalVars, fileVars, restarts, history>>

(* A guard, started only when there is a best value to beat, may turn any  *)
(* outcome into a cancelled one.                                           *)
Execute ==
    /\ pc = "execute" /\ pc' = "judge"
    /\ \E out \in Outcomes :
        /\ out.status = "cancelled" => GuardEnabled /\ bestScore < Infinity
        /\ current' = [out |-> out, before |-> bestScore]
    /\ UNCHANGED <<done, bestScore, streak, recent, scored, signalVars, fileVars,
                   restarts, history>>

(* Decide; the best score moves before the version is saved.               *)
Judge ==
    /\ pc = "judge" /\ pc' = "reward"
    /\ bestScore' = BestAfter(current.out, bestScore)
    /\ streak' = StreakAfter(current.out, bestScore, streak)
    /\ UNCHANGED <<done, current, recent, scored, signalVars, fileVars, restarts, history>>

(* record_reward, then score_history.                                      *)
RewardPolicy ==
    /\ pc = "reward" /\ pc' = "record"
    /\ scored' = IF current.out.score = NoScore THEN scored ELSE scored + 1
    /\ UNCHANGED <<done, current, bestScore, streak, recent, signalVars, fileVars, restarts, history>>

(* Mutant of LedgerRow: decided again, when the best score has moved. *)
RowDecidedAgain ==
    [iter |-> done, decision |-> Decision(current.out, bestScore),
     best |-> ShownScore(bestScore)]

(* What append_result_row is given. *)
LedgerRow ==
    [iter |-> done,
     decision |-> Decision(current.out, current.before),
     best |-> ShownScore(bestScore)]

(* Trace event, manifest, ledger row, history.                             *)
Record ==
    /\ pc = "record" /\ pc' = "notify"
    /\ ledger' = Append(ledger, LedgerRow)
    /\ UNCHANGED <<loopVars, signalVars, checkpoint, restarts, history>>

(* on_iteration, the counters, and the guards that end the search.         *)
Finish ==
    /\ pc = "notify"
    /\ recent' = Push(recent, FinalStatus(current.out))
    /\ done' = done + 1
    /\ current' = None
    /\ pc' \in IF NoImprove(streak) \/ FailureRateHit(recent') THEN {"finally"}
               ELSE IF bestScore < Infinity /\ scored >= ForecastAfter
               THEN {"finally", "top"} ELSE {"top"}
    /\ UNCHANGED <<bestScore, streak, scored, signalVars, fileVars, restarts, history>>

(* Mutant of CheckpointNow: the next iteration instead of the last one. *)
CheckpointAhead ==
    [iteration |-> done, best |-> bestScore, streak |-> streak, recent |-> recent,
     wall |-> wallExpired]

(* The LoopCheckpoint that is saved. *)
CheckpointNow ==
    [iteration |-> done - 1, best |-> bestScore, streak |-> streak, recent |-> recent,
     wall |-> wallExpired]

SaveCheckpoint ==
    /\ pc = "finally" /\ pc' = "stopped"
    /\ checkpoint' = IF done > 0 THEN CheckpointNow ELSE checkpoint
    /\ current' = None
    /\ UNCHANGED <<done, bestScore, streak, recent, scored, signalVars, ledger,
                   restarts, history>>

(* A call raises before it has had its effect: the policy, the executor,   *)
(* the version writer (the best score has moved by then), the policy's     *)
(* feedback, a telemetry writer, the iteration callback.  The finally      *)
(* block saves what there is; it may raise itself.                         *)
Raise ==
    /\ pc \in Faults
    /\ raised' = TRUE
    /\ IF pc = "judge"
       THEN /\ Improves(current.out, bestScore)
            /\ bestScore' = current.out.score
            /\ streak' = 0
       ELSE UNCHANGED <<bestScore, streak>>
    /\ pc' = IF pc = "finally" THEN "stopped" ELSE "finally"
    /\ current' = None
    /\ dropped' = IF pc \in {"judge", "reward", "record"}
                     /\ Improves(current.out, current.before)
                  THEN dropped \cup {current.out.score} ELSE dropped
    /\ UNCHANGED <<done, recent, scored, signalVars, fileVars, restarts>>

-----------------------------------------------------------------------------

Loop ==
    \/ BeginIteration \/ Propose \/ Execute \/ Judge \/ RewardPolicy \/ Record
    \/ Finish \/ SaveCheckpoint \/ Raise

Next == Loop \/ SignalArrives \/ WallTimePasses \/ Restart

Spec == Init /\ [][Next]_vars

-----------------------------------------------------------------------------
(* Properties. *)

Points == FaultPoints \cup {"top", "stopped"}
BestScores == Scores \cup {Infinity}

TypeOK ==
    /\ pc \in Points
    /\ done \in 0..MaxIterations
    /\ pc \in {"judge", "reward", "record", "notify"} =>
          current \in [out : Outcomes, before : BestScores]
    /\ bestScore \in BestScores
    /\ streak \in Nat
    /\ recent \in Seq(Statuses)
    /\ scored \in Nat
    /\ shutdown \in BOOLEAN
    /\ wallExpired \in BOOLEAN
    /\ ledger \in Seq([iter : Nat, decision : Decisions, best : RowScores])
    /\ checkpoint \in [iteration : 0..(MaxIterations - 1) \cup {-1}, best : BestScores,
                       streak : Nat, recent : Seq(Statuses), wall : BOOLEAN]
    /\ restarts \in 0..MaxRestarts
    /\ raised \in BOOLEAN
    /\ dropped \subseteq Scores

(* Until a call raises, the serial loop implements the sequential ledger.  *)
(* The row is written between the moment the best score moves and the      *)
(* moment the iteration counts; a reader of the abstract ledger sees all   *)
(* three at once.                                                          *)
Ledger == INSTANCE SearchLedger WITH
    rows  <- ledger,
    best  <- IF pc \in {"reward", "record"} THEN current.before ELSE bestScore,
    done  <- IF pc = "notify" THEN done + 1 ELSE done,
    saved <- [done |-> checkpoint.iteration + 1, best |-> checkpoint.best]

LedgerSpec ==
    /\ Ledger!Init
    /\ [][raised' \/ Ledger!Next]_<<Ledger!ledgerVars, raised>>

(* The checkpoint counts no iteration without a row, whatever raised.      *)
NoneSkipped == Ledger!NoneSkipped

(* The best score the loop, or a rerun of it, has to beat is that of a     *)
(* trial the ledger shows as kept, whatever raised and whenever it was     *)
(* killed; the one exception is a kept trial whose own row was prevented.  *)
BestIsAccountedFor ==
    \A score \in {IF pc \in {"reward", "record"} THEN current.before ELSE bestScore,
                  checkpoint.best} :
        Ledger!Earned(score) \/ score \in dropped

=============================================================================
