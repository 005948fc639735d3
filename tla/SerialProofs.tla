----------------------------- MODULE SerialProofs -----------------------------
(***************************************************************************)
(* Proofs about SerialEngine, for every set of outcomes, of calls that     *)
(* raise, and any number of kills and reruns.                              *)
(*                                                                         *)
(* The best score moves in Judge, its row is written in Record: that it is *)
(* accounted for in between rests on the score the trial had to beat being *)
(* accounted for, and on the best being what the outcome made of that.     *)
(***************************************************************************)
EXTENDS SerialEngine, SequenceTheorems, TLAPS

UnderWay == {"judge", "reward", "record", "notify"}

(* A trial is proposed only while there are iterations left. *)
IterationsLeft == pc \in UnderWay \cup {"propose", "execute"} => done < MaxIterations

(* What the trial under way had to beat, and what it made of it. *)
JudgedAgainstBest ==
    /\ pc = "judge" => current.before = bestScore
    /\ pc \in {"reward", "record", "notify"} =>
          bestScore = BestAfter(current.out, current.before)

IndInv == TypeOK /\ IterationsLeft /\ JudgedAgainstBest

Rows == [iter : Nat, decision : Decisions, best : RowScores]

-----------------------------------------------------------------------------
(* Lemmas about the rules of a trial. *)

LEMMA BestTyped ==
    ASSUME NEW out \in Outcomes, NEW best \in BestScores
    PROVE  BestAfter(out, best) \in BestScores
BY OutcomesAssumption DEF BestAfter, Improves, BestScores, OutcomeSet

(* A score that improves is a number the trial reported. *)
LEMMA ImprovingScore ==
    ASSUME NEW out \in Outcomes, NEW best, Improves(out, best)
    PROVE  out.score \in Scores
BY OutcomesAssumption DEF Improves, OutcomeSet

LEMMA StatusTyped ==
    ASSUME NEW out \in Outcomes
    PROVE  FinalStatus(out) \in Statuses
BY OutcomesAssumption DEF FinalStatus, OutcomeSet, Statuses

LEMMA PushTyped ==
    ASSUME NEW window \in Seq(Statuses), NEW status \in Statuses
    PROVE  Push(window, status) \in Seq(Statuses)
<1>1. /\ Append(window, status) \in Seq(Statuses)
      /\ Append(window, status) # <<>>
    BY AppendProperties
<1>2. Tail(Append(window, status)) \in Seq(Statuses)
    BY <1>1, HeadTailProperties
<1> QED BY <1>1, <1>2 DEF Push

LEMMA BestBounded ==
    ASSUME NEW best \in BestScores
    PROVE  best \in Nat /\ best <= Infinity
BY RulesAssumption DEF BestScores

LEMMA RowTyped ==
    ASSUME TypeOK, pc = "record"
    PROVE  LedgerRow \in Rows
<1>1. Decision(current.out, current.before) \in Decisions
    BY DEF Decision, Decisions
<1>2. ShownScore(bestScore) \in RowScores
    BY RulesAssumption DEF TypeOK, BestScores, ShownScore, RowScores
<1> QED BY <1>1, <1>2, EngineAssumption DEF TypeOK, LedgerRow, Rows

-----------------------------------------------------------------------------

LEMMA IndInit == Init => IndInv
<1> SUFFICES ASSUME Init PROVE IndInv
    OBVIOUS
<1>1. TypeOK
    <2>1. checkpoint \in [iteration : 0..(MaxIterations - 1) \cup {-1}, best : BestScores,
                         streak : Nat, recent : Seq(Statuses), wall : BOOLEAN]
        <3>1. <<>> \in Seq(Statuses)
            OBVIOUS
        <3>2. -1 \in 0..(MaxIterations - 1) \cup {-1}
            OBVIOUS
        <3> QED BY <3>1, <3>2 DEF Init, NoCheckpoint, BestScores
    <2>2. /\ pc \in Points
          /\ pc \notin {"judge", "reward", "record", "notify"}
          /\ done \in 0..MaxIterations
          /\ bestScore \in BestScores
          /\ restarts \in 0..MaxRestarts
        BY EngineAssumption DEF Init, Points, FaultPoints, BestScores
    <2>3. /\ ledger \in Seq([iter : Nat, decision : Decisions, best : RowScores])
          /\ recent \in Seq(Statuses)
        BY DEF Init
    <2> QED BY <2>1, <2>2, <2>3 DEF Init, TypeOK
<1> QED BY <1>1 DEF Init, IndInv, IterationsLeft, JudgedAgainstBest, UnderWay

LEMMA TypeStep == IndInv /\ [Next]_vars => TypeOK'
<1> SUFFICES ASSUME IndInv, [Next]_vars PROVE TypeOK'
    OBVIOUS
<1> USE DEF IndInv, TypeOK, Points, FaultPoints
<1>1. CASE BeginIteration
    BY <1>1 DEF BeginIteration, loopVars, signalVars, fileVars, history
<1>2. CASE Propose
    BY <1>2 DEF Propose, loopVars, signalVars, fileVars, history
<1>3. CASE Execute
    BY <1>3 DEF Execute, signalVars, fileVars, history
<1>4. CASE Judge
    <2>1. current.out \in Outcomes /\ bestScore \in BestScores
        BY <1>4 DEF Judge
    <2>2. bestScore' \in BestScores
        BY <1>4, <2>1, BestTyped DEF Judge
    <2>3. streak' \in Nat
        BY <1>4 DEF Judge, StreakAfter
    <2> QED BY <1>4, <2>2, <2>3 DEF Judge, signalVars, fileVars, history
<1>5. CASE RewardPolicy
    BY <1>5 DEF RewardPolicy, signalVars, fileVars, history
<1>6. CASE Record
    <2>1. ledger \in Seq(Rows) /\ LedgerRow \in Rows
        BY <1>6, RowTyped DEF Record, Rows
    <2>2. ledger' \in Seq(Rows)
        BY <1>6, <2>1, AppendProperties DEF Record
    <2> QED BY <1>6, <2>2 DEF Record, Rows, loopVars, signalVars, history
<1>7. CASE Finish
    <2>1. recent' \in Seq(Statuses)
        BY <1>7, PushTyped, StatusTyped DEF Finish
    <2>2. done' \in 0..MaxIterations
        BY <1>7, EngineAssumption DEF Finish, IterationsLeft, UnderWay
    <2>3. pc' \in {"finally", "top"}
        BY <1>7 DEF Finish
    <2> QED BY <1>7, <2>1, <2>2, <2>3 DEF Finish, signalVars, fileVars, history
<1>8. CASE SaveCheckpoint
    <2>1. done > 0 => done - 1 \in 0..(MaxIterations - 1)
        BY EngineAssumption
    <2>2. checkpoint' \in [iteration : 0..(MaxIterations - 1) \cup {-1},
                           best : BestScores, streak : Nat,
                           recent : Seq(Statuses), wall : BOOLEAN]
        BY <1>8, <2>1 DEF SaveCheckpoint, CheckpointNow
    <2> QED BY <1>8, <2>2 DEF SaveCheckpoint, signalVars, history
<1>9. CASE Raise
    <2>1. /\ bestScore' \in BestScores
          /\ streak' \in Nat
        BY <1>9, ImprovingScore DEF Raise, BestScores
    <2>2. dropped' \subseteq Scores
        BY <1>9, ImprovingScore DEF Raise
    <2>3. pc' \in {"stopped", "finally"} /\ raised' = TRUE
        BY <1>9 DEF Raise
    <2> QED BY <1>9, <2>1, <2>2, <2>3 DEF Raise, signalVars, fileVars
<1>10. CASE SignalArrives \/ WallTimePasses
    BY <1>10 DEF SignalArrives, WallTimePasses, loopVars, fileVars, history
<1>11. CASE Restart
    <2>1. checkpoint.iteration + 1 \in 0..MaxIterations
        BY EngineAssumption
    <2>2. restarts' \in 0..MaxRestarts
        BY <1>11, EngineAssumption DEF Restart
    <2>3. /\ pc' = "top" /\ scored' = 0 /\ shutdown' = FALSE
          /\ done' = checkpoint.iteration + 1
          /\ bestScore' = checkpoint.best
          /\ streak' = checkpoint.streak
          /\ recent' = checkpoint.recent
          /\ wallExpired' = checkpoint.wall
          /\ UNCHANGED <<ledger, checkpoint, raised, dropped>>
        BY <1>11 DEF Restart, fileVars, history
    <2> QED BY <2>1, <2>2, <2>3
<1>12. CASE UNCHANGED vars
    BY <1>12 DEF vars, loopVars, signalVars, fileVars, history
<1> QED BY <1>1, <1>2, <1>3, <1>4, <1>5, <1>6, <1>7, <1>8, <1>9, <1>10, <1>11, <1>12
        DEF Next, Loop

LEMMA LeftStep == IndInv /\ [Next]_vars => IterationsLeft'
<1> SUFFICES ASSUME IndInv, [Next]_vars PROVE IterationsLeft'
    OBVIOUS
<1> USE DEF IterationsLeft, UnderWay
<1>1. CASE BeginIteration
    BY <1>1, EngineAssumption DEF BeginIteration, loopVars, IndInv, TypeOK
<1>2. CASE Propose \/ Execute \/ Judge \/ RewardPolicy \/ Record
    BY <1>2 DEF Propose, Execute, Judge, RewardPolicy, Record, loopVars, IndInv
<1>3. CASE Finish \/ SaveCheckpoint \/ Raise \/ Restart
    BY <1>3 DEF Finish, SaveCheckpoint, Raise, Restart
<1>4. CASE SignalArrives \/ WallTimePasses \/ UNCHANGED vars
    BY <1>4 DEF SignalArrives, WallTimePasses, vars, loopVars, IndInv
<1> QED BY <1>1, <1>2, <1>3, <1>4 DEF Next, Loop

LEMMA JudgedStep == IndInv /\ [Next]_vars => JudgedAgainstBest'
<1> SUFFICES ASSUME IndInv, [Next]_vars PROVE JudgedAgainstBest'
    OBVIOUS
<1> USE DEF JudgedAgainstBest
<1>1. CASE BeginIteration \/ Propose
    BY <1>1 DEF BeginIteration, Propose
<1>2. CASE Execute
    BY <1>2 DEF Execute
<1>3. CASE Judge
    BY <1>3 DEF Judge, IndInv
<1>4. CASE RewardPolicy \/ Record
    BY <1>4 DEF RewardPolicy, Record, loopVars, IndInv
<1>5. CASE Finish \/ SaveCheckpoint \/ Raise \/ Restart
    BY <1>5 DEF Finish, SaveCheckpoint, Raise, Restart
<1>6. CASE SignalArrives \/ WallTimePasses \/ UNCHANGED vars
    BY <1>6 DEF SignalArrives, WallTimePasses, vars, loopVars, IndInv
<1> QED BY <1>1, <1>2, <1>3, <1>4, <1>5, <1>6 DEF Next, Loop

LEMMA Inductive == Spec => []IndInv
<1>1. IndInv /\ [Next]_vars => IndInv'
    BY TypeStep, LeftStep, JudgedStep DEF IndInv
<1> QED BY <1>1, IndInit, PTL DEF Spec

(* Type correctness of the serial engine.                                  *)
THEOREM SerialTyped == Spec => []TypeOK
<1>1. IndInv => TypeOK
    BY DEF IndInv
<1> QED BY <1>1, Inductive, PTL

-----------------------------------------------------------------------------
(* The ledger only grows, and Record appends the row of the trial.         *)

LEMMA RowsStay ==
    ASSUME IndInv, [Next]_vars
    PROVE  \A n \in 1..Len(ledger) : n \in 1..Len(ledger') /\ ledger'[n] = ledger[n]
<1>1. CASE Record
    <2>1. ledger \in Seq(Rows) /\ LedgerRow \in Rows /\ ledger' = Append(ledger, LedgerRow)
        BY <1>1, RowTyped DEF Record, Rows, IndInv, TypeOK
    <2> HIDE DEF LedgerRow
    <2> QED BY <2>1, AppendProperties, LenProperties
<1>2. CASE ~Record
    <2>1. ledger' = ledger
        BY <1>2 DEF Next, Loop, BeginIteration, Propose, Execute, Judge, RewardPolicy,
           Finish, SaveCheckpoint, Raise, SignalArrives, WallTimePasses, Restart,
           fileVars, vars
    <2> QED BY <2>1
<1> QED BY <1>1, <1>2

LEMMA RecordAppends ==
    ASSUME IndInv, Record
    PROVE  \E n \in 1..Len(ledger') : ledger'[n] = LedgerRow
<1>1. ledger \in Seq(Rows) /\ LedgerRow \in Rows /\ ledger' = Append(ledger, LedgerRow)
    BY RowTyped DEF Record, Rows, IndInv, TypeOK
<1> HIDE DEF LedgerRow
<1>2. Len(ledger) + 1 \in 1..Len(ledger') /\ ledger'[Len(ledger) + 1] = LedgerRow
    BY <1>1, AppendProperties, LenProperties
<1> QED BY <1>2

-----------------------------------------------------------------------------
(* No iteration is skipped: the checkpoint, and the count of iterations    *)
(* done once the row is written, cover iterations the ledger has.          *)

DoneInLedger == IF pc = "notify" THEN done + 1 ELSE done

SavedNow == [done |-> checkpoint.iteration + 1, best |-> checkpoint.best]

Counted == 0..(DoneInLedger - 1) \cup 0..(SavedNow.done - 1)

LEMMA SkippedMeans ==
    /\ NoneSkipped <=> \A i \in Counted : \E n \in 1..Len(ledger) : ledger[n].iter = i
    /\ NoneSkipped' <=> \A i \in Counted' : \E n \in 1..Len(ledger') : ledger'[n].iter = i
BY Zenon DEF NoneSkipped, Ledger!NoneSkipped, Ledger!HasRow, Counted, DoneInLedger, SavedNow

LEMMA SkipInit == Init => NoneSkipped
<1> SUFFICES ASSUME Init PROVE NoneSkipped
    OBVIOUS
<1>1. DoneInLedger = 0 /\ checkpoint.iteration = -1
    BY DEF Init, NoCheckpoint, DoneInLedger
<1> QED BY <1>1, SkippedMeans DEF Counted, SavedNow

LEMMA SkipStep == IndInv /\ NoneSkipped /\ [Next]_vars => NoneSkipped'
<1> SUFFICES ASSUME IndInv, NoneSkipped, [Next]_vars,
                    NEW i \in Counted'
             PROVE  \E n \in 1..Len(ledger') : ledger'[n].iter = i
    BY SkippedMeans
<1> USE DEF Counted, SavedNow
<1>1. ASSUME i \in Counted
      PROVE  \E n \in 1..Len(ledger') : ledger'[n].iter = i
    BY <1>1, RowsStay, SkippedMeans
<1>2. done \in Nat /\ checkpoint.iteration \in Int
    BY EngineAssumption DEF IndInv, TypeOK
<1>3. CASE BeginIteration \/ Propose \/ Execute \/ Judge \/ RewardPolicy
    <2>1. DoneInLedger' = DoneInLedger /\ checkpoint' = checkpoint
        BY <1>3 DEF BeginIteration, Propose, Execute, Judge, RewardPolicy, loopVars,
           fileVars, DoneInLedger
    <2> QED BY <1>1, <2>1
<1>4. CASE Record
    <2>1. /\ DoneInLedger' = done + 1 /\ DoneInLedger = done
          /\ checkpoint' = checkpoint
        BY <1>4 DEF Record, loopVars, DoneInLedger
    <2>2. CASE i = done
        BY <1>4, <2>2, RecordAppends DEF LedgerRow
    <2>3. CASE i # done
        BY <1>1, <1>2, <2>1, <2>3
    <2> QED BY <2>2, <2>3
<1>5. CASE Finish
    <2>1. DoneInLedger' = DoneInLedger /\ checkpoint' = checkpoint
        BY <1>5 DEF Finish, fileVars, DoneInLedger
    <2> QED BY <1>1, <2>1
<1>6. CASE SaveCheckpoint
    <2>1. DoneInLedger' = done /\ DoneInLedger = done
        BY <1>6 DEF SaveCheckpoint, DoneInLedger
    <2>2. checkpoint'.iteration \in {done - 1, checkpoint.iteration}
        BY <1>6 DEF SaveCheckpoint, CheckpointNow
    <2> QED BY <1>1, <1>2, <2>1, <2>2
<1>7. CASE Raise                         \* the row stays, the count does not
    <2>1. DoneInLedger' = done /\ checkpoint' = checkpoint
        BY <1>7 DEF Raise, fileVars, DoneInLedger
    <2>2. done <= DoneInLedger /\ DoneInLedger \in Nat
        BY <1>2 DEF DoneInLedger
    <2> QED BY <1>1, <1>2, <2>1, <2>2
<1>8. CASE Restart
    <2>1. DoneInLedger' = checkpoint.iteration + 1 /\ checkpoint' = checkpoint
        BY <1>8 DEF Restart, fileVars, DoneInLedger
    <2> QED BY <1>1, <1>2, <2>1
<1>9. CASE SignalArrives \/ WallTimePasses \/ UNCHANGED vars
    <2>1. DoneInLedger' = DoneInLedger /\ checkpoint' = checkpoint
        BY <1>9 DEF SignalArrives, WallTimePasses, vars, loopVars, fileVars, DoneInLedger
    <2> QED BY <1>1, <2>1
<1> QED BY <1>3, <1>4, <1>5, <1>6, <1>7, <1>8, <1>9 DEF Next, Loop

(* Whatever raises and whenever the process is killed, the checkpoint      *)
(* counts no iteration the ledger does not have: a resume skips none.      *)
THEOREM SerialSkipsNone == Spec => []NoneSkipped
BY SkipInit, SkipStep, Inductive, PTL DEF Spec

-----------------------------------------------------------------------------
(* The best score.                                                         *)

(* The score the loop goes on from: until the row is written, what the     *)
(* trial under way had to beat.                                            *)
Standing == IF pc \in {"reward", "record"} THEN current.before ELSE bestScore

Accounted(score) ==
    \/ score # Infinity =>
          \E n \in 1..Len(ledger) : ledger[n].decision = "keep" /\ ledger[n].best = score
    \/ score \in dropped

AccountedNext(score) ==
    \/ score # Infinity =>
          \E n \in 1..Len(ledger') : ledger'[n].decision = "keep" /\ ledger'[n].best = score
    \/ score \in dropped'

LEMMA AccountedMeans ==
    /\ BestIsAccountedFor <=> Accounted(Standing) /\ Accounted(checkpoint.best)
    /\ BestIsAccountedFor' <=> AccountedNext(Standing') /\ AccountedNext(checkpoint'.best)
BY Zenon DEF BestIsAccountedFor, Ledger!Earned, Accounted, AccountedNext, Standing

LEMMA AccountedForever ==
    ASSUME IndInv, [Next]_vars, NEW score, Accounted(score)
    PROVE  AccountedNext(score)
<1>1. score \in dropped => score \in dropped'
    BY DEF Next, Loop, BeginIteration, Propose, Execute, Judge, RewardPolicy, Record,
       Finish, SaveCheckpoint, Raise, SignalArrives, WallTimePasses, Restart, history, vars
<1> QED BY <1>1, RowsStay DEF Accounted, AccountedNext

LEMMA BestStep == IndInv /\ BestIsAccountedFor /\ [Next]_vars => BestIsAccountedFor'
<1> SUFFICES ASSUME IndInv, BestIsAccountedFor, [Next]_vars
             PROVE  AccountedNext(Standing') /\ AccountedNext(checkpoint'.best)
    BY AccountedMeans
<1>1. AccountedNext(Standing) /\ AccountedNext(checkpoint.best)
    BY AccountedMeans, AccountedForever
<1>2. CASE BeginIteration \/ Propose \/ Execute
    BY <1>1, <1>2 DEF BeginIteration, Propose, Execute, loopVars, fileVars, Standing
<1>3. CASE Judge                         \* still what it had to beat
    BY <1>1, <1>3 DEF Judge, IndInv, JudgedAgainstBest, Standing, fileVars
<1>4. CASE RewardPolicy
    BY <1>1, <1>4 DEF RewardPolicy, Standing, fileVars
<1>5. CASE Record                        \* the row of the new best is there
    <2>1. /\ Standing' = BestAfter(current.out, current.before)
          /\ Standing = current.before
          /\ checkpoint' = checkpoint
        BY <1>5 DEF Record, IndInv, JudgedAgainstBest, Standing, loopVars
    <2>2. CASE Improves(current.out, current.before)
        <3>1. bestScore < Infinity
            <4>1. current.out \in OutcomeSet /\ current.before \in BestScores
                BY <1>5, OutcomesAssumption DEF Record, IndInv, TypeOK
            <4>2. bestScore = current.out.score
                BY <1>5, <2>2 DEF Record, IndInv, JudgedAgainstBest, BestAfter
            <4>3. current.out.score \in Nat /\ current.out.score < current.before
                BY <2>2, <4>1, RulesAssumption DEF Improves, OutcomeSet
            <4>4. current.before \in Nat /\ current.before <= Infinity
                BY <4>1, BestBounded
            <4> QED BY <4>2, <4>3, <4>4, RulesAssumption
        <3>2. /\ LedgerRow.decision = "keep"
              /\ LedgerRow.best = bestScore
            BY <2>2, <3>1 DEF LedgerRow, ShownScore, Decision, Improves
        <3>3. bestScore = Standing'
            BY <1>5 DEF Record, Standing, loopVars
        <3>4. AccountedNext(Standing')
            BY <1>5, <3>2, <3>3, RecordAppends DEF AccountedNext
        <3> QED BY <1>1, <2>1, <3>4
    <2>3. CASE ~Improves(current.out, current.before)
        BY <1>1, <2>1, <2>3 DEF BestAfter
    <2> QED BY <2>2, <2>3
<1>6. CASE Finish
    BY <1>1, <1>6 DEF Finish, Standing, fileVars
<1>7. CASE SaveCheckpoint
    <2>1. checkpoint'.best \in {bestScore, checkpoint.best}
        BY <1>7 DEF SaveCheckpoint, CheckpointNow
    <2>2. Standing = bestScore /\ Standing' = bestScore
        BY <1>7 DEF SaveCheckpoint, Standing
    <2> QED BY <1>1, <2>1, <2>2
<1>8. CASE Raise                         \* an improvement without a row is dropped
    <2>1. checkpoint' = checkpoint /\ Standing' = bestScore'
        BY <1>8 DEF Raise, Standing, fileVars
    <2>2. CASE /\ pc \in {"judge", "reward", "record"}
               /\ Improves(current.out, current.before)
        <3>1. bestScore' = current.out.score /\ current.out.score \in dropped'
            BY <1>8, <2>2 DEF Raise, IndInv, JudgedAgainstBest, BestAfter
        <3> QED BY <1>1, <2>1, <3>1 DEF AccountedNext
    <2>3. CASE ~(/\ pc \in {"judge", "reward", "record"}
                 /\ Improves(current.out, current.before))
        <3>1. bestScore' = Standing
            BY <1>8, <2>3 DEF Raise, IndInv, JudgedAgainstBest, BestAfter, Standing
        <3> QED BY <1>1, <2>1, <3>1
    <2> QED BY <2>2, <2>3
<1>9. CASE Restart
    BY <1>1, <1>9 DEF Restart, fileVars, Standing
<1>10. CASE SignalArrives \/ WallTimePasses \/ UNCHANGED vars
    BY <1>1, <1>10
       DEF SignalArrives, WallTimePasses, vars, loopVars, fileVars, Standing
<1> QED BY <1>2, <1>3, <1>4, <1>5, <1>6, <1>7, <1>8, <1>9, <1>10 DEF Next, Loop

(* Whatever raises and whenever the process is killed, the best score to   *)
(* beat is that of a kept row, or of a kept trial whose row was prevented. *)
THEOREM SerialBestAccounted == Spec => []BestIsAccountedFor
<1>1. Init => BestIsAccountedFor
    BY AccountedMeans DEF Init, NoCheckpoint, Standing, Accounted
<1> QED BY <1>1, BestStep, Inductive, PTL DEF Spec

-----------------------------------------------------------------------------
(* Refinement of the sequential ledger, until a call raises.               *)

LEMMA LedgerStep ==
    ASSUME IndInv, [Next]_vars
    PROVE  [raised' \/ Ledger!Next]_<<Ledger!ledgerVars, raised>>
<1> USE DEF Ledger!ledgerVars
<1>1. CASE BeginIteration \/ Propose \/ Execute \/ RewardPolicy \/ Finish
    BY <1>1 DEF BeginIteration, Propose, Execute, RewardPolicy, Finish, loopVars,
       fileVars, history
<1>2. CASE Judge                         \* stutters: the row is not written yet
    BY <1>2 DEF Judge, IndInv, JudgedAgainstBest, fileVars, history
<1>3. CASE Record                        \* Ledger!Commit
    <2>1. /\ current.out \in Outcomes
          /\ bestScore = BestAfter(current.out, current.before)
        BY <1>3 DEF Record, IndInv, TypeOK, JudgedAgainstBest
    <2>2. Ledger!Commit(current.out)
        BY <1>3, <2>1
           DEF Record, LedgerRow, loopVars, Ledger!Commit, Ledger!Row, Ledger!Decision,
               Ledger!BestAfter, Ledger!Improves, Ledger!ShownScore, Decision, BestAfter,
               Improves, ShownScore
    <2> QED BY <2>1, <2>2 DEF Ledger!Next
<1>4. CASE SaveCheckpoint                \* Ledger!Save, or nothing to save
    <2>1. CASE done > 0
        <3>1. checkpoint' = CheckpointNow /\ done \in Nat
            BY <1>4, <2>1, EngineAssumption DEF SaveCheckpoint, IndInv, TypeOK
        <3>2. checkpoint'.iteration + 1 = done /\ checkpoint'.best = bestScore
            BY <3>1 DEF CheckpointNow
        <3>3. Ledger!Save
            BY <1>4, <3>2 DEF SaveCheckpoint, Ledger!Save
        <3> QED BY <3>3 DEF Ledger!Next
    <2>2. CASE ~(done > 0)
        BY <1>4, <2>2 DEF SaveCheckpoint, history
    <2> QED BY <2>1, <2>2
<1>5. CASE Raise
    BY <1>5 DEF Raise
<1>6. CASE Restart                       \* Ledger!Resume
    <2>1. Ledger!Resume
        BY <1>6 DEF Restart, fileVars, Ledger!Resume
    <2> QED BY <2>1 DEF Ledger!Next
<1>7. CASE SignalArrives \/ WallTimePasses \/ UNCHANGED vars
    BY <1>7 DEF SignalArrives, WallTimePasses, vars, loopVars, fileVars, history
<1> QED BY <1>1, <1>2, <1>3, <1>4, <1>5, <1>6, <1>7 DEF Next, Loop

(* Up to the first exception, the ledger and the checkpoint are those of   *)
(* the sequential ledger, through signals, kills and reruns.               *)
THEOREM SerialIsSequential == Spec => LedgerSpec
<1>1. Init => Ledger!Init
    BY DEF Init, NoCheckpoint, Ledger!Init, Ledger!Start
<1>2. IndInv /\ [Next]_vars => [raised' \/ Ledger!Next]_<<Ledger!ledgerVars, raised>>
    BY LedgerStep
<1> QED BY <1>1, <1>2, Inductive, PTL DEF Spec, LedgerSpec

=============================================================================
