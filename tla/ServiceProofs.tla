---------------------------- MODULE ServiceProofs ----------------------------
(***************************************************************************)
(* Proofs about the three services the search loops stand on: the          *)
(* resource pool and its clients, for every set of resources, capacity,    *)
(* cost and thread; the ledger and checkpoint, for every set of outcomes   *)
(* and any number of trials and restarts; the cancellation of a running    *)
(* trial, for any number of reports and any threshold.                     *)
(***************************************************************************)
EXTENDS PoolClients, SearchLedger, CancelProtocol, SequenceTheorems, TLAPS

-----------------------------------------------------------------------------
(* ResourcePool and PoolClients. *)

(* The type invariant of the pool is preserved by its two operations       *)
(* wherever they are used; the parallel engine's proofs cite these.        *)
LEMMA TryAcquireType ==
    ASSUME PoolTypeOK, NEW i \in IterIds, NEW c \in Costs, TryAcquire(i, c)
    PROVE  PoolTypeOK'
BY PoolAssumption DEF PoolTypeOK, TryAcquire, Fits, Available

LEMMA ReleaseType ==
    ASSUME PoolTypeOK, NEW i \in IterIds, Release(i)
    PROVE  PoolTypeOK'
<1>1. reservations[i] \in [Keys -> Nat]
    BY PoolAssumption DEF PoolTypeOK, Release
<1>2. inUse' \in [Keys -> Nat]
    BY <1>1 DEF PoolTypeOK, Release, AtLeastZero
<1>3. reservations' \in [IterIds -> Costs \cup {None}]
    BY DEF PoolTypeOK, Release
<1> QED BY <1>2, <1>3 DEF PoolTypeOK

(* A successful try_acquire stays within capacity; a release only gives    *)
(* back.                                                                   *)
LEMMA TryAcquireBounded ==
    ASSUME PoolTypeOK, NEW i \in IterIds, NEW c \in Costs, TryAcquire(i, c)
    PROVE  NeverOversubscribed'
BY PoolAssumption
   DEF PoolTypeOK, TryAcquire, Fits, Available, NeverOversubscribed

LEMMA ReleaseShrinks ==
    ASSUME PoolTypeOK, NEW i \in IterIds, Release(i), NEW k \in Keys
    PROVE  inUse'[k] <= inUse[k]
<1>1. reservations[i] \in [Keys -> Nat]
    BY PoolAssumption DEF PoolTypeOK, Release
<1> QED BY <1>1 DEF PoolTypeOK, Release, AtLeastZero

LEMMA ReleaseBounded ==
    ASSUME PoolTypeOK, NeverOversubscribed, NEW i \in IterIds, Release(i)
    PROVE  NeverOversubscribed'
<1> SUFFICES ASSUME NEW k \in Keys PROVE inUse'[k] <= Capacity[k]
    BY DEF NeverOversubscribed
<1>1. inUse'[k] <= inUse[k]
    BY ReleaseShrinks
<1>2. inUse'[k] \in Nat
    BY ReleaseType DEF PoolTypeOK
<1> QED BY <1>1, <1>2, PoolAssumption DEF PoolTypeOK, NeverOversubscribed

-----------------------------------------------------------------------------

LEMMA TypeInit == ClientsInit => ClientsTypeOK
BY PoolAssumption DEF ClientsInit, ClientsTypeOK, PoolInit, PoolTypeOK, Phases

LEMMA TypeStep == ClientsTypeOK /\ [ClientsNext]_poolClientVars => ClientsTypeOK'
<1> SUFFICES ASSUME ClientsTypeOK, [ClientsNext]_poolClientVars PROVE ClientsTypeOK'
    OBVIOUS
<1>1. ASSUME NEW i \in IterIds, Acquire(i) PROVE ClientsTypeOK'
    BY <1>1, TryAcquireType DEF Acquire, ClientsTypeOK, Phases
<1>2. ASSUME NEW i \in IterIds, BackOff(i) PROVE ClientsTypeOK'
    BY <1>2 DEF BackOff, TryAcquireFails, ClientsTypeOK, PoolTypeOK, poolVars, Phases
<1>3. ASSUME NEW i \in IterIds, WaitReady(i) PROVE ClientsTypeOK'
    BY <1>3 DEF WaitReady, ClientsTypeOK, PoolTypeOK, poolVars, Phases
<1>4. ASSUME NEW i \in IterIds, WaitSleep(i) PROVE ClientsTypeOK'
    BY <1>4 DEF WaitSleep, ClientsTypeOK, PoolTypeOK, poolVars, Phases
<1>5. ASSUME NEW i \in IterIds, WaitTimedOut(i) PROVE ClientsTypeOK'
    BY <1>5 DEF WaitTimedOut, ClientsTypeOK, PoolTypeOK, poolVars, Phases
<1>6. ASSUME NEW i \in IterIds, DeadlinePasses(i) PROVE ClientsTypeOK'
    BY <1>6 DEF DeadlinePasses, ClientsTypeOK, PoolTypeOK, poolVars, Phases
<1>7. ASSUME NEW i \in IterIds, ReleaseAndNotify(i) PROVE ClientsTypeOK'
    BY <1>7, ReleaseType DEF ReleaseAndNotify, NotifyAll, ClientsTypeOK, Phases
<1>8. CASE UNCHANGED poolClientVars
    BY <1>8 DEF poolClientVars, clientVars, poolVars, ClientsTypeOK, PoolTypeOK
<1> QED BY <1>1, <1>2, <1>3, <1>4, <1>5, <1>6, <1>7, <1>8 DEF ClientsNext

(* Type correctness of the pool and of the threads that use it.            *)
THEOREM PoolTyped == ClientsSpec => []ClientsTypeOK
BY TypeInit, TypeStep, PTL DEF ClientsSpec

-----------------------------------------------------------------------------

LEMMA BoundedStep ==
    ClientsTypeOK /\ NeverOversubscribed /\ [ClientsNext]_poolClientVars => NeverOversubscribed'
<1> SUFFICES ASSUME ClientsTypeOK, NeverOversubscribed, [ClientsNext]_poolClientVars
             PROVE  NeverOversubscribed'
    OBVIOUS
<1>1. ASSUME NEW i \in IterIds, Acquire(i) PROVE NeverOversubscribed'
    BY <1>1, TryAcquireBounded DEF Acquire, ClientsTypeOK
<1>2. ASSUME NEW i \in IterIds, ReleaseAndNotify(i) PROVE NeverOversubscribed'
    BY <1>2, ReleaseBounded DEF ReleaseAndNotify, ClientsTypeOK
<1>3. ASSUME UNCHANGED poolVars PROVE NeverOversubscribed'
    BY <1>3 DEF poolVars, NeverOversubscribed
<1> QED BY <1>1, <1>2, <1>3
        DEF ClientsNext, BackOff, TryAcquireFails, WaitReady, WaitSleep,
            WaitTimedOut, DeadlinePasses, poolClientVars

(* However many threads race, no resource is handed out beyond capacity.   *)
THEOREM PoolBounded == ClientsSpec => []NeverOversubscribed
<1>1. ClientsInit => NeverOversubscribed
    <2> SUFFICES ASSUME ClientsInit, NEW k \in Keys PROVE inUse[k] <= Capacity[k]
        BY DEF NeverOversubscribed
    <2>1. inUse[k] = 0 /\ Capacity[k] \in Nat
        BY PoolAssumption DEF ClientsInit, PoolInit
    <2> QED BY <2>1
<1>2. QED BY <1>1, BoundedStep, PoolTyped, PTL DEF ClientsSpec

-----------------------------------------------------------------------------

(* Capacity is freed only by release: an acquisition by one thread cannot  *)
(* make another thread's refused cost fit.                                 *)
LEMMA AcquireFreesNothing ==
    ASSUME ClientsTypeOK, NEW i \in IterIds, Acquire(i), NEW c \in Costs, ~Fits(c)
    PROVE  ~(Fits(c)')
<1>1. PICK k \in Keys : ~(Available(k) >= c[k])
    BY DEF Fits
<1>2. inUse'[k] = inUse[k] + want[i][k]
    BY DEF Acquire, TryAcquire
<1>3. /\ inUse[k] \in Nat
      /\ want[i][k] \in Nat
      /\ c[k] \in Nat
      /\ Capacity[k] \in Nat
    BY PoolAssumption DEF ClientsTypeOK, PoolTypeOK
<1>4. ~(Capacity[k] - inUse'[k] >= c[k])
    BY <1>1, <1>2, <1>3 DEF Available
<1> QED BY <1>4 DEF Fits, Available

LEMMA WakeupStep ==
    ClientsTypeOK /\ NoLostWakeup /\ [ClientsNext]_poolClientVars => NoLostWakeup'
<1> SUFFICES ASSUME ClientsTypeOK, NoLostWakeup, [ClientsNext]_poolClientVars,
                    NEW j \in IterIds, phase'[j] = "asleep"
             PROVE  ~(Fits(want[j])')
    BY DEF NoLostWakeup
<1>1. want' = want /\ want[j] \in Costs
    BY DEF ClientsNext, Acquire, BackOff, WaitReady, WaitSleep, WaitTimedOut,
           DeadlinePasses, ReleaseAndNotify, poolClientVars, clientVars, ClientsTypeOK
<1>2. ASSUME NEW i \in IterIds, Acquire(i) PROVE ~(Fits(want[j])')
    <2>1. phase[j] = "asleep"
        BY <1>2 DEF Acquire, ClientsTypeOK
    <2> QED BY <2>1, <1>1, <1>2, AcquireFreesNothing DEF NoLostWakeup, Fits, Available
<1>3. ASSUME NEW i \in IterIds, ReleaseAndNotify(i) PROVE FALSE
    BY <1>3 DEF ReleaseAndNotify, NotifyAll, ClientsTypeOK
<1>4. ASSUME NEW i \in IterIds, WaitSleep(i) PROVE ~(Fits(want[j])')
    BY <1>1, <1>4 DEF WaitSleep, NoLostWakeup, Fits, Available, poolVars, ClientsTypeOK
<1>5. ASSUME NEW i \in IterIds,
             BackOff(i) \/ WaitReady(i) \/ WaitTimedOut(i) \/ DeadlinePasses(i)
      PROVE  ~(Fits(want[j])')
    <2>1. phase[j] = "asleep" /\ UNCHANGED poolVars
        BY <1>5 DEF BackOff, TryAcquireFails, WaitReady, WaitTimedOut,
                    DeadlinePasses, ClientsTypeOK
    <2> QED BY <2>1, <1>1 DEF NoLostWakeup, Fits, Available, poolVars
<1>6. CASE UNCHANGED poolClientVars
    BY <1>6 DEF poolClientVars, clientVars, poolVars, NoLostWakeup, Fits, Available
<1> QED BY <1>2, <1>3, <1>4, <1>5, <1>6 DEF ClientsNext

(* No interleaving puts a thread to sleep on capacity that is already      *)
(* there, or leaves it asleep after capacity for it was freed.             *)
THEOREM WakeupsNotLost == ClientsSpec => []NoLostWakeup
<1>1. ClientsInit => NoLostWakeup
    BY DEF ClientsInit, NoLostWakeup
<1>2. QED BY <1>1, WakeupStep, PoolTyped, PTL DEF ClientsSpec

-----------------------------------------------------------------------------
(* SearchLedger, the promise both engines are held to. *)

BestScores == Scores \cup {Infinity}

RowSet == [iter : Nat, decision : Decisions, best : RowScores]

-----------------------------------------------------------------------------

LEMMA CommitTyped ==
    ASSUME LedgerTypeOK, NEW out \in Outcomes
    PROVE  /\ Row(done, Decision(out, best), BestAfter(out, best)) \in RowSet
           /\ BestAfter(out, best) \in BestScores
<1>1. Decision(out, best) \in Decisions
    BY DEF Decision, Decisions
<1>2. BestAfter(out, best) \in BestScores
    BY OutcomesAssumption
       DEF BestAfter, Improves, OutcomeSet, LedgerTypeOK, BestScores
<1>3. ShownScore(BestAfter(out, best)) \in RowScores
    BY <1>2, RulesAssumption DEF ShownScore, RowScores, BestScores
<1> QED BY <1>1, <1>2, <1>3 DEF Row, RowSet, LedgerTypeOK

LEMMA LedgerTypeInit == Init => LedgerTypeOK
BY DEF Init, Start, LedgerTypeOK

LEMMA LedgerTypeStep == LedgerTypeOK /\ [Next]_ledgerVars => LedgerTypeOK'
<1> SUFFICES ASSUME LedgerTypeOK, [Next]_ledgerVars PROVE LedgerTypeOK'
    OBVIOUS
<1>1. ASSUME NEW out \in Outcomes, Commit(out) PROVE LedgerTypeOK'
    BY <1>1, CommitTyped DEF Commit, LedgerTypeOK, RowSet, BestScores
<1>2. CASE Save
    BY <1>2 DEF Save, LedgerTypeOK
<1>3. CASE Resume
    BY <1>3 DEF Resume, LedgerTypeOK
<1>4. CASE UNCHANGED ledgerVars
    BY <1>4 DEF ledgerVars, LedgerTypeOK
<1> QED BY <1>1, <1>2, <1>3, <1>4 DEF Next

-----------------------------------------------------------------------------
(* The ledger only grows: a row found once is found ever after. *)

LEMMA RowsGrow ==
    ASSUME LedgerTypeOK, [Next]_ledgerVars
    PROVE  \A n \in 1..Len(rows) : n \in 1..Len(rows') /\ rows'[n] = rows[n]
<1>1. ASSUME NEW out \in Outcomes, Commit(out)
      PROVE  \A n \in 1..Len(rows) : n \in 1..Len(rows') /\ rows'[n] = rows[n]
    <2> DEFINE row == Row(done, Decision(out, best), BestAfter(out, best))
    <2>1. row \in RowSet /\ rows \in Seq(RowSet) /\ rows' = Append(rows, row)
        BY <1>1, CommitTyped DEF Commit, LedgerTypeOK, RowSet, BestScores
    <2> HIDE DEF row
    <2> QED BY <2>1, AppendProperties, LenProperties
<1>2. ASSUME rows' = rows
      PROVE  \A n \in 1..Len(rows) : n \in 1..Len(rows') /\ rows'[n] = rows[n]
    BY <1>2
<1> QED BY <1>1, <1>2 DEF Next, Save, Resume, ledgerVars

(* What Commit appends. *)
LEMMA CommitAppends ==
    ASSUME LedgerTypeOK, NEW out \in Outcomes, Commit(out)
    PROVE  \E n \in 1..Len(rows') : /\ rows'[n].iter = done
                                    /\ rows'[n].decision = Decision(out, best)
                                    /\ rows'[n].best = ShownScore(BestAfter(out, best))
<1> DEFINE row == Row(done, Decision(out, best), BestAfter(out, best))
<1>1. row \in RowSet /\ rows \in Seq(RowSet) /\ rows' = Append(rows, row)
    BY CommitTyped DEF Commit, LedgerTypeOK, RowSet, BestScores
<1>2. /\ row.iter = done
      /\ row.decision = Decision(out, best)
      /\ row.best = ShownScore(BestAfter(out, best))
    BY DEF Row
<1> HIDE DEF row
<1>3. Len(rows) + 1 \in 1..Len(rows') /\ rows'[Len(rows) + 1] = row
    BY <1>1, AppendProperties, LenProperties
<1> QED BY <1>2, <1>3

LEMMA EarnedForever ==
    ASSUME LedgerTypeOK, [Next]_ledgerVars, NEW score, Earned(score)
    PROVE  score # Infinity =>
              \E n \in 1..Len(rows') : rows'[n].decision = "keep" /\ rows'[n].best = score
BY RowsGrow DEF Earned

LEMMA EarnedStep ==
    LedgerTypeOK /\ BestIsEarned /\ [Next]_ledgerVars => BestIsEarned'
<1> SUFFICES ASSUME LedgerTypeOK, BestIsEarned, [Next]_ledgerVars PROVE BestIsEarned'
    OBVIOUS
<1> DEFINE InRows(score) == score # Infinity =>
        \E n \in 1..Len(rows') : rows'[n].decision = "keep" /\ rows'[n].best = score
<1>1. InRows(best) /\ InRows(saved.best)
    BY EarnedForever DEF BestIsEarned
<1>2. InRows(best') /\ InRows(saved'.best)
    <2>1. ASSUME NEW out \in Outcomes, Commit(out)
          PROVE  InRows(best') /\ InRows(saved'.best)
        <3>1. CASE Improves(out, best)
            <4> best \in BestScores /\ out \in OutcomeSet
                BY OutcomesAssumption DEF LedgerTypeOK, BestScores
            <4>1. BestAfter(out, best) < Infinity
                <5>1. /\ BestAfter(out, best) = out.score
                      /\ out.score \in Nat /\ out.score < best
                    BY <3>1, RulesAssumption DEF BestAfter, Improves, OutcomeSet
                <5>2. best \in Nat /\ best <= Infinity
                    BY RulesAssumption DEF BestScores
                <5> QED BY <5>1, <5>2, RulesAssumption
            <4>2. ShownScore(BestAfter(out, best)) = BestAfter(out, best)
                BY <4>1 DEF ShownScore
            <4> QED BY <1>1, <2>1, <3>1, <4>2, CommitAppends DEF Commit, Decision, Improves
        <3>2. CASE ~Improves(out, best)
            BY <1>1, <2>1, <3>2 DEF Commit, BestAfter
        <3> QED BY <3>1, <3>2
    <2>2. CASE Save
        BY <1>1, <2>2 DEF Save
    <2>3. CASE Resume
        BY <1>1, <2>3 DEF Resume
    <2>4. CASE UNCHANGED ledgerVars
        BY <1>1, <2>4 DEF ledgerVars
    <2> QED BY <2>1, <2>2, <2>3, <2>4 DEF Next
<1> QED BY <1>2 DEF BestIsEarned, Earned

(* Whatever is run, resumed and run again, the best score to beat is that  *)
(* of a trial the ledger shows as kept.                                    *)
THEOREM BestAlwaysEarned == Spec => []BestIsEarned
<1>1. Init => BestIsEarned
    BY DEF Init, Start, BestIsEarned, Earned
<1> QED BY <1>1, EarnedStep, LedgerTypeInit, LedgerTypeStep, PTL DEF Spec

-----------------------------------------------------------------------------

LEMMA SkipStep == LedgerTypeOK /\ NoneSkipped /\ [Next]_ledgerVars => NoneSkipped'
<1> SUFFICES ASSUME LedgerTypeOK, NoneSkipped, [Next]_ledgerVars,
                    NEW i \in 0..(done' - 1) \cup 0..(saved'.done - 1)
             PROVE  \E n \in 1..Len(rows') : rows'[n].iter = i
    BY DEF NoneSkipped, HasRow
<1>1. ASSUME i \in 0..(done - 1) \cup 0..(saved.done - 1)
      PROVE  \E n \in 1..Len(rows') : rows'[n].iter = i
    BY <1>1, RowsGrow DEF NoneSkipped, HasRow
<1>2. ASSUME NEW out \in Outcomes, Commit(out)
      PROVE  \E n \in 1..Len(rows') : rows'[n].iter = i
    <2>1. done' = done + 1 /\ saved' = saved /\ done \in Nat /\ saved.done \in Nat
        BY <1>2 DEF Commit, LedgerTypeOK
    <2>2. CASE i = done
        BY <1>2, <2>2, CommitAppends
    <2>3. CASE i # done
        BY <1>1, <2>1, <2>3
    <2> QED BY <2>2, <2>3
<1>3. CASE Save
    BY <1>1, <1>3 DEF Save
<1>4. CASE Resume
    BY <1>1, <1>4 DEF Resume
<1>5. CASE UNCHANGED ledgerVars
    BY <1>1, <1>5 DEF ledgerVars
<1> QED BY <1>2, <1>3, <1>4, <1>5 DEF Next

(* Every iteration counted as done has its row, across any restarts.       *)
THEOREM NothingSkipped == Spec => []NoneSkipped
<1>1. Init => NoneSkipped
    BY DEF Init, Start, NoneSkipped
<1> QED BY <1>1, SkipStep, LedgerTypeInit, LedgerTypeStep, PTL DEF Spec

-----------------------------------------------------------------------------
(* CancelProtocol: guard, reader, trial and engine. *)

(* A cancel on its way, in the file or obeyed, is known to the guard.      *)
CancelKnown ==
    control = "cancel" \/ exit = "cancel" => guard = "flag" \/ cancelled

(* The engine classifies an exited trial, after the guard's last step.     *)
ClassifiedLast ==
    /\ engine # "waiting" => trial = "exited"
    /\ engine = "done" /\ ~late => guard = "ended"

(* As long as the iteration has not been run again. *)
FreshInv ==
    /\ restarts \in Nat
    /\ restarts = 0 => CancelKnown /\ ClassifiedLast /\ (~late => ObeyedIsCancelled)

LEMMA FreshStep ==
    ASSUME FreshInv, [CancelNext]_cancelVars
    PROVE  FreshInv'
<1> USE DEF FreshInv, CancelKnown, ClassifiedLast, ObeyedIsCancelled
<1>1. CASE Report \/ EndReport
    BY <1>1 DEF Report, EndReport, readerVars, guardVars, engineVars
<1>2. CASE ReadControl
    BY <1>2 DEF ReadControl, files, readerVars, guardVars, engineVars
<1>3. CASE Finish
    BY <1>3 DEF Finish, files, readerVars, guardVars, engineVars
<1>4. CASE ReadNewLines
    BY <1>4 DEF ReadNewLines, files, trialVars, guardVars, engineVars
<1>5. CASE Wake
    BY <1>5 DEF Wake, files, trialVars, readerVars, engineVars
<1>6. CASE Evaluate
    BY <1>6 DEF Evaluate, NextTick, files, trialVars, engineVars
<1>7. CASE TruncateControl
    BY <1>7 DEF TruncateControl, trialVars, readerVars, engineVars
<1>8. CASE WriteControl
    BY <1>8 DEF WriteControl, trialVars, readerVars, engineVars
<1>9. CASE WriteControlFails             \* a torn file is no cancel
    BY <1>9 DEF WriteControlFails, files, trialVars, readerVars, engineVars
<1>10. CASE SetCancelled
    BY <1>10 DEF SetCancelled, files, trialVars, readerVars, engineVars
<1>11. CASE TrialReturns
    BY <1>11 DEF TrialReturns, files, trialVars, readerVars, guardVars
<1>12. CASE Classify
    BY <1>12 DEF Classify, FinalOutcome, files, trialVars, readerVars, guardVars
<1>13. CASE JoinTimesOut
    BY <1>13 DEF JoinTimesOut, files, trialVars, readerVars, guardVars
<1>14. CASE ShutdownRequested
    BY <1>14 DEF ShutdownRequested, files, trialVars, readerVars, guardVars
<1>15. CASE Rerun
    BY <1>15 DEF Rerun
<1>16. CASE UNCHANGED cancelVars
    BY <1>16 DEF cancelVars, files, trialVars, readerVars, guardVars, engineVars
<1> QED BY <1>1, <1>2, <1>3, <1>4, <1>5, <1>6, <1>7, <1>8, <1>9, <1>10, <1>11, <1>12,
           <1>13, <1>14, <1>15, <1>16 DEF CancelNext, Trial, Emit, Guard, Engine

(* In a run directory that started empty a trial that obeyed the guard is  *)
(* recorded as cancelled, whatever its exit code and however its threads   *)
(* interleave, if the engine does not give up waiting for the guard.  (In  *)
(* a rerun it need not be: the old control file is there.)                 *)
THEOREM ObeyedCounts == CancelSpec => []ObeyedInFreshDirectory
<1>1. CancelInit => FreshInv
    BY DEF CancelInit, FreshInv, CancelKnown, ClassifiedLast, ObeyedIsCancelled
<1>2. FreshInv /\ [CancelNext]_cancelVars => FreshInv'
    BY FreshStep
<1>3. FreshInv => ObeyedInFreshDirectory
    BY DEF FreshInv, ObeyedInFreshDirectory
<1> QED BY <1>1, <1>2, <1>3, PTL DEF CancelSpec

-----------------------------------------------------------------------------
(* No report is lost between the file, the reader and the guard. *)

FileTyped == progress \in Seq(BOOLEAN)

Typed ==
    /\ offset \in 0..Len(progress)
    /\ unfinished \subseteq 1..Len(progress)
    /\ cut \subseteq 1..offset

ReportInv == FileTyped /\ Typed /\ NoReportLost

LEMMA SegmentsNest ==
    ASSUME NEW n \in Nat, NEW m \in 0..n
    PROVE  1..m \subseteq 1..n
OBVIOUS

LEMMA LengthTyped == FileTyped => Len(progress) \in Nat
BY DEF FileTyped

LEMMA FileStep ==
    ASSUME FileTyped, [CancelNext]_cancelVars
    PROVE  /\ FileTyped'
           /\ \/ Report /\ Len(progress') = Len(progress) + 1
              \/ ~Report /\ progress' = progress
<1> USE DEF FileTyped
<1>1. CASE Report
    <2>1. PICK beats \in BOOLEAN : progress' = Append(progress, beats)
        BY <1>1 DEF Report
    <2> QED BY <1>1, <2>1, AppendProperties
<1>2. CASE ~Report
    <2>1. progress' = progress
        BY <1>2 DEF CancelNext, Trial, Emit, Guard, Engine, EndReport, ReadControl, Finish,
           ReadNewLines, Wake, Evaluate, TruncateControl, WriteControl, WriteControlFails,
           SetCancelled, TrialReturns, Classify, JoinTimesOut, ShutdownRequested, Rerun,
           cancelVars, files
    <2> QED BY <1>2, <2>1
<1> QED BY <1>1, <1>2

(* A poll hands on every report beyond the offset but those whose line, or *)
(* whose predecessor's, it cut.                                            *)
LEMMA PollStep ==
    ASSUME Len(progress) \in Nat, Typed, NoReportLost, ReadNewLines, progress' = progress
    PROVE  Typed' /\ NoReportLost'
<1> USE DEF Typed, NoReportLost
<1>1. /\ buffer' = buffer \cup NewLines
      /\ offset' = Len(progress)
      /\ cut' = cut \cup {n \in unfinished : n > offset}
      /\ UNCHANGED <<unfinished, series>>
    BY DEF ReadNewLines, files, guardVars
<1>2. Typed'
    <2>1. 1..offset \subseteq 1..Len(progress)
        BY SegmentsNest
    <2>2. cut' \subseteq 1..Len(progress)
        BY <1>1, <2>1
    <2>3. Len(progress) \in 0..Len(progress)
        OBVIOUS
    <2> QED BY <1>1, <2>2, <2>3
<1>3. NewLines \subseteq 1..Len(progress) /\ \A n \in NewLines : n > offset
    BY DEF NewLines
<1>4. series \cup buffer' \subseteq 1..offset'
    <2>1. series \cup buffer \subseteq 1..Len(progress)
        BY SegmentsNest
    <2> QED BY <1>1, <1>3, <2>1
<1>5. \A n \in series, m \in buffer' : n < m
    <2> SUFFICES ASSUME NEW n \in series, NEW m \in buffer' PROVE n < m
        OBVIOUS
    <2>1. CASE m \in buffer
        BY <2>1
    <2>2. CASE m \in NewLines
        BY <1>3, <2>2
    <2> QED BY <1>1, <2>1, <2>2
<1>6. ASSUME NEW n \in 1..Len(progress)
      PROVE  n \in series \cup buffer' \/ n \in cut' \/ n - 1 \in cut'
    <2>1. CASE n <= offset
        BY <1>1, <2>1
    <2>2. CASE n > offset
        <3>1. CASE n \in NewLines
            BY <1>1, <3>1
        <3>2. CASE n \in unfinished
            BY <1>1, <2>2, <3>2
        <3>3. CASE n - 1 > offset /\ n - 1 \in unfinished
            BY <1>1, <3>3
        <3> QED BY <2>2, <3>1, <3>2, <3>3 DEF NewLines
    <2> QED BY <2>1, <2>2
<1> QED BY <1>1, <1>2, <1>4, <1>5, <1>6

LEMMA ReportStep ==
    ASSUME ReportInv, [CancelNext]_cancelVars
    PROVE  ReportInv'
<1>1. /\ FileTyped' /\ Len(progress) \in Nat
      /\ \/ Report /\ Len(progress') = Len(progress) + 1
         \/ ~Report /\ progress' = progress
    BY FileStep, LengthTyped DEF ReportInv
<1> SUFFICES Typed' /\ NoReportLost'
    BY <1>1 DEF ReportInv
<1> USE DEF ReportInv, Typed, NoReportLost
<1>2. CASE Report
    <2>1. /\ UNCHANGED <<offset, buffer, cut, series>>
          /\ unfinished' = unfinished \cup {Len(progress) + 1}
        BY <1>2 DEF Report, readerVars, guardVars
    <2>2. Len(progress') = Len(progress) + 1
        BY <1>1, <1>2
    <2>3. 1..Len(progress) \subseteq 1..Len(progress')
        BY <1>1, <2>2, SegmentsNest
    <2>4. Typed'
        <3>1. offset' \in 0..Len(progress')
            BY <1>1, <2>1, <2>2
        <3>2. Len(progress) + 1 \in 1..Len(progress')
            BY <1>1, <2>2
        <3> QED BY <2>1, <2>3, <3>1, <3>2
    <2> QED BY <2>1, <2>4
<1>3. CASE ReadNewLines
    <2>1. progress' = progress
        BY <1>3 DEF ReadNewLines, files
    <2> QED BY <1>1, <1>3, <2>1, PollStep
<1>4. CASE EndReport
    <2>1. UNCHANGED <<progress, offset, buffer, cut, series>> /\ unfinished' \subseteq unfinished
        BY <1>4 DEF EndReport, readerVars, guardVars
    <2> QED BY <2>1
<1>5. CASE Evaluate
    <2>1. /\ series' = series \cup buffer
          /\ buffer' = {}
          /\ UNCHANGED <<progress, unfinished, offset, cut>>
        BY <1>5 DEF Evaluate, files
    <2> QED BY <2>1
<1>6. CASE Rerun
    <2>1. /\ UNCHANGED <<progress, unfinished>>
          /\ offset' = 0 /\ buffer' = {} /\ cut' = {} /\ series' = {}
        BY <1>6 DEF Rerun, files
    <2> QED BY <1>1, <2>1
<1>7. ASSUME UNCHANGED <<progress, unfinished, offset, buffer, cut, series>>
      PROVE  Typed' /\ NoReportLost'
    BY <1>7
<1>8. CASE ReadControl \/ Finish
    BY <1>7, <1>8 DEF ReadControl, Finish, files, readerVars, guardVars
<1>9. CASE Wake \/ TruncateControl \/ WriteControl \/ WriteControlFails \/ SetCancelled
    BY <1>7, <1>9 DEF Wake, TruncateControl, WriteControl, WriteControlFails, SetCancelled,
       files, readerVars
<1>10. CASE TrialReturns \/ Classify \/ JoinTimesOut \/ ShutdownRequested
    BY <1>7, <1>10 DEF TrialReturns, Classify, JoinTimesOut, ShutdownRequested, files,
       readerVars, guardVars
<1>11. CASE UNCHANGED cancelVars
    BY <1>7, <1>11 DEF cancelVars, files, readerVars, guardVars
<1> QED BY <1>2, <1>3, <1>4, <1>5, <1>6, <1>8, <1>9, <1>10, <1>11
        DEF CancelNext, Trial, Emit, Guard, Engine

LEMMA ReportInit == CancelInit => ReportInv
<1> SUFFICES ASSUME CancelInit PROVE ReportInv
    OBVIOUS
<1>1. /\ progress = << >> /\ unfinished = {} /\ offset = 0
      /\ buffer = {} /\ series = {} /\ cut = {}
    BY DEF CancelInit
<1>2. << >> \in Seq(BOOLEAN) /\ Len(<< >>) = 0
    OBVIOUS
<1> QED BY <1>1, <1>2 DEF ReportInv, FileTyped, Typed, NoReportLost

(* The guard judges the trial by the reports it made, each once and in     *)
(* order, however the trial's appends, the reader's polls, the guard's     *)
(* ticks, a kill in the middle of a line and a rerun over the old file     *)
(* interleave; only a line the reader cut can be missing, and the next.    *)
THEOREM ReportsArrive == CancelSpec => []NoReportLost
<1>1. CancelInit => ReportInv
    BY ReportInit
<1>2. ReportInv /\ [CancelNext]_cancelVars => ReportInv'
    BY ReportStep
<1>3. ReportInv => NoReportLost
    BY DEF ReportInv
<1> QED BY <1>1, <1>2, <1>3, PTL DEF CancelSpec

-----------------------------------------------------------------------------
(* Type correctness. *)

(* The program counters, flags and counters of the threads. *)
ThreadsTyped ==
    /\ trial \in {"running", "writing", "reported", "exited"}
    /\ exit \in {"none", "ok", "failed", "cancel"}
    /\ control \in {"absent", "torn", "cancel"}
    /\ guard \in {"sleeping", "awake", "truncate", "write", "flag", "ended"}
    /\ engine \in {"waiting", "joining", "done"}
    /\ outcome \in {"none", "ok", "failed", "cancelled"}
    /\ restarts \in 0..MaxRestarts

FileBounded == Len(progress) <= MaxReports

FlagsTyped ==
    cancelled \in BOOLEAN /\ stop \in BOOLEAN /\ shutdown \in BOOLEAN /\ late \in BOOLEAN

LEMMA BoundStep ==
    ASSUME FileTyped, FileBounded, [CancelNext]_cancelVars
    PROVE  FileBounded'
<1>1. /\ Len(progress) \in Nat
      /\ \/ Report /\ Len(progress') = Len(progress) + 1
         \/ ~Report /\ progress' = progress
    BY FileStep, LengthTyped
<1>2. Report => Len(progress) < MaxReports
    BY DEF Report
<1> QED BY <1>1, <1>2, CancelAssumption DEF FileBounded

LEMMA ThreadsStep ==
    ASSUME ThreadsTyped, [CancelNext]_cancelVars
    PROVE  ThreadsTyped'
<1> USE CancelAssumption
    DEF ThreadsTyped, files, trialVars, readerVars, guardVars, engineVars
<1>1. CASE Report \/ EndReport \/ ReadControl
    BY <1>1 DEF Report, EndReport, ReadControl
<1>2. CASE Finish \/ ReadNewLines
    BY <1>2 DEF Finish, ReadNewLines
<1>3. CASE Wake \/ Evaluate \/ TruncateControl \/ WriteControl
    BY <1>3 DEF Wake, Evaluate, NextTick, TruncateControl, WriteControl
<1>4. CASE WriteControlFails \/ SetCancelled \/ TrialReturns
    BY <1>4 DEF WriteControlFails, SetCancelled, TrialReturns
<1>5. CASE Classify \/ JoinTimesOut
    BY <1>5 DEF Classify, JoinTimesOut, FinalOutcome
<1>6. CASE ShutdownRequested \/ Rerun
    BY <1>6 DEF ShutdownRequested, Rerun
<1>7. CASE UNCHANGED cancelVars
    BY <1>7 DEF cancelVars
<1> QED BY <1>1, <1>2, <1>3, <1>4, <1>5, <1>6, <1>7
        DEF CancelNext, Trial, Emit, Guard, Engine

LEMMA FlagsStep ==
    ASSUME FlagsTyped, [CancelNext]_cancelVars
    PROVE  FlagsTyped'
<1>1. /\ cancelled' \in {cancelled, TRUE, FALSE}
      /\ stop' \in {stop, TRUE, FALSE}
      /\ shutdown' \in {shutdown, TRUE, FALSE}
      /\ late' \in {late, TRUE, FALSE}
    BY DEF CancelNext, Trial, Emit, Guard, Engine, Report, EndReport, ReadControl, Finish,
       ReadNewLines, Wake, Evaluate, TruncateControl, WriteControl, WriteControlFails,
       SetCancelled, TrialReturns, Classify, JoinTimesOut, ShutdownRequested, Rerun,
       cancelVars, guardVars, engineVars
<1> QED BY <1>1, Zenon DEF FlagsTyped

CancelInv == ReportInv /\ FileBounded /\ ThreadsTyped /\ FlagsTyped

(* Type correctness of the cancel protocol, the reader's offset included.  *)
THEOREM CancelTyped == CancelSpec => []CancelTypeOK
<1>1. CancelInit => CancelInv
    <2> SUFFICES ASSUME CancelInit PROVE CancelInv
        OBVIOUS
    <2>1. ReportInv
        BY ReportInit
    <2>2. Len(progress) = 0
        BY DEF CancelInit
    <2>3. ThreadsTyped /\ FileBounded
        BY <2>2, CancelAssumption DEF CancelInit, ThreadsTyped, FileBounded
    <2> QED BY <2>1, <2>3 DEF CancelInit, CancelInv, FlagsTyped
<1>2. CancelInv /\ [CancelNext]_cancelVars => CancelInv'
    BY ReportStep, BoundStep, ThreadsStep, FlagsStep DEF CancelInv, ReportInv
<1>3. CancelInv => CancelTypeOK
    <2> SUFFICES ASSUME CancelInv PROVE CancelTypeOK
        OBVIOUS
    <2>1. Len(progress) \in Nat /\ Len(progress) <= MaxReports /\ MaxReports \in Nat
        BY LengthTyped, CancelAssumption DEF CancelInv, ReportInv, FileBounded
    <2>2. /\ offset \in 0..MaxReports
          /\ unfinished \subseteq 1..MaxReports
          /\ cut \subseteq 1..MaxReports
          /\ series \subseteq 1..MaxReports /\ buffer \subseteq 1..MaxReports
        BY <2>1 DEF CancelInv, ReportInv, Typed, NoReportLost
    <2>3. progress \in Seq(BOOLEAN) /\ Len(progress) <= MaxReports
        BY <2>1 DEF CancelInv, ReportInv, FileTyped
    <2> QED BY <2>2, <2>3, Zenon DEF CancelInv, CancelTypeOK, ThreadsTyped, FlagsTyped
<1> QED BY <1>1, <1>2, <1>3, PTL DEF CancelSpec

=============================================================================
