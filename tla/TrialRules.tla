------------------------------ MODULE TrialRules ------------------------------
(***************************************************************************)
(* The per-trial bookkeeping that controller/engine.py and                 *)
(* controller/parallel_engine.py both carry: how an outcome becomes a      *)
(* decision, what it does to the best score, to the no-improvement streak  *)
(* and to the window of recent statuses, and the guards that read them.    *)
(*                                                                         *)
(* A score is the objective with its direction folded in (_score), so      *)
(* lower is better.  Infinity is the initial best_score; a trial may also  *)
(* report it, and stands then for inf and nan alike: no comparison         *)
(* score < best_score is ever true of them.                                *)
(***************************************************************************)
EXTENDS Integers, Sequences, FiniteSets

CONSTANTS Scores,          \* objective scores trials may report
          Infinity,        \* float("inf")
          NoScore,         \* the objective is not among the metrics
          NoImproveLimit,  \* controller.no_improve_limit
          FailureWindow,   \* max(1, controller.failure_window)
          FailuresToStop,  \* failures in a full window that reach
                           \* controller.failure_rate_limit; more than the
                           \* window when the limit is None
          Outcomes         \* what executor.execute may return

ASSUME RulesAssumption ==
    /\ Scores \subseteq Nat
    /\ Infinity \in Nat
    /\ \A s \in Scores : s <= Infinity
    /\ NoScore \notin Nat
    /\ NoImproveLimit \in Nat
    /\ FailureWindow \in Nat \ {0}
    /\ FailuresToStop \in Nat

Statuses == {"ok", "failed", "cancelled", "rejected"}
Decisions == {"keep", "discard", "cancelled"}

OutcomeSet == [status : Statuses, score : Scores \cup {NoScore}]

ASSUME OutcomesAssumption == Outcomes \subseteq OutcomeSet

(* A trial that reports no objective has failed, unless it was cancelled.  *)
FinalStatus(out) ==
    IF out.status # "cancelled" /\ out.score = NoScore THEN "failed" ELSE out.status

(* Mutant of Improves: a cancelled trial may become the best one. *)
ImprovesThoughCancelled(out, best) == out.score # NoScore /\ out.score < best

Improves(out, best) ==
    out.status # "cancelled" /\ out.score # NoScore /\ out.score < best

Decision(out, best) ==
    IF out.status = "cancelled" THEN "cancelled"
    ELSE IF Improves(out, best) THEN "keep" ELSE "discard"

BestAfter(out, best) == IF Improves(out, best) THEN out.score ELSE best

StreakAfter(out, best, streak) == IF Improves(out, best) THEN 0 ELSE streak + 1

(* The score column of a ledger row: 0 as long as there is no best score.  *)
ShownScore(best) == IF best < Infinity THEN best ELSE 0
RowScores == Scores \cup {0}

(* recent_statuses.append, then pop(0) beyond the window. *)
Push(window, status) ==
    LET longer == Append(window, status)
    IN  IF Len(longer) > FailureWindow THEN Tail(longer) ELSE longer

NoImprove(streak) == streak >= NoImproveLimit

(* check_failure_rate: only a full window counts, and a cancelled trial is *)
(* not a failure.                                                          *)
FailureRateHit(window) ==
    /\ Len(window) >= FailureWindow
    /\ Cardinality({n \in 1..Len(window) : window[n] \notin {"ok", "cancelled"}})
           >= FailuresToStop

=============================================================================
