----------------------------- MODULE SearchLedger -----------------------------
(***************************************************************************)
(* What the search loop promises to a reader of results.tsv and of the     *)
(* checkpoint, whichever engine runs it and however its trials overlap:    *)
(* trials are committed one at a time in iteration order, each judged      *)
(* against the best of the trials committed before it; a checkpoint holds  *)
(* the committed state and nothing else; a restart goes back to the        *)
(* checkpoint and never rewrites the ledger.                               *)
(***************************************************************************)
EXTENDS TrialRules

VARIABLES rows,   \* results.tsv
          best,   \* best score of the committed trials
          done,   \* committed iterations
          saved   \* the checkpoint file, or the initial state when there is none

ledgerVars == <<rows, best, done, saved>>

Row(iter, decision, score) == [iter |-> iter, decision |-> decision, best |-> ShownScore(score)]

Start == [done |-> 0, best |-> Infinity]

Init ==
    /\ rows = <<>>
    /\ best = Infinity
    /\ done = 0
    /\ saved = Start

Commit(out) ==
    /\ rows' = Append(rows, Row(done, Decision(out, best), BestAfter(out, best)))
    /\ best' = BestAfter(out, best)
    /\ done' = done + 1
    /\ UNCHANGED saved

Save ==
    /\ saved' = [done |-> done, best |-> best]
    /\ UNCHANGED <<rows, best, done>>

Resume ==
    /\ done' = saved.done
    /\ best' = saved.best
    /\ UNCHANGED <<rows, saved>>

Next ==
    \/ \E out \in Outcomes : Commit(out)
    \/ Save
    \/ Resume

Spec == Init /\ [][Next]_ledgerVars

-----------------------------------------------------------------------------

LedgerTypeOK ==
    /\ rows \in Seq([iter : Nat, decision : Decisions, best : RowScores])
    /\ best \in Scores \cup {Infinity}
    /\ done \in Nat
    /\ saved \in [done : Nat, best : Scores \cup {Infinity}]

Earned(score) ==
    score # Infinity =>
        \E n \in 1..Len(rows) : rows[n].decision = "keep" /\ rows[n].best = score

(* The best score a loop continues from, and the one a restart would       *)
(* continue from, is always that of a trial the ledger shows as kept.      *)
BestIsEarned == Earned(best) /\ Earned(saved.best)

HasRow(iter) == \E n \in 1..Len(rows) : rows[n].iter = iter

(* Every iteration counted as done, now or by the checkpoint a restart     *)
(* would load, has its row in the ledger: none is skipped over.            *)
NoneSkipped ==
    \A i \in 0..(done - 1) \cup 0..(saved.done - 1) : HasRow(i)

=============================================================================
