---------------------------- MODULE ParallelProofs ----------------------------
(***************************************************************************)
(* Proofs about ParallelEngine, for every number of iterations, degree of  *)
(* concurrency, pool, set of outcomes and set of faults.                   *)
(*                                                                         *)
(* None of the properties is inductive alone: that the loop never starts   *)
(* more than MaxIterations trials rests on the count of trials under way   *)
(* being iterIdx - nextToProcess, which rests on in_flight and completed   *)
(* covering exactly that window; IndInv conjoins what they need.           *)
(***************************************************************************)
EXTENDS ParallelEngine, FiniteSetTheorems, SequenceTheorems, WellFoundedInduction, TLAPS

(* The three counters of the loop, and where they may differ.              *)
CountersAligned ==
    /\ iterationsDone <= nextToProcess
    /\ nextToProcess <= iterIdx
    /\ pc \in LoopPhases \ {"record"} => iterationsDone = nextToProcess
    /\ pc = "record" => nextToProcess = iterationsDone + 1

(* What Record is about to write is what Commit decided.                   *)
CommitPending ==
    pc = "record" => /\ current.iter = iterationsDone
                     /\ bestScore = BestAfter(current.out, current.before)

SlotsAccountedFor ==
    /\ NoLeakedReservation
    /\ Cardinality(inFlight) <= MaxConcurrency
    /\ pc = "submit" => Cardinality(inFlight) + Len(batch) <= MaxConcurrency

FuturesHaveOutcomes ==
    /\ \A i \in IterIds : worker[i] = "done" => outcome[i] \in Outcomes
    /\ \A i \in completed : worker[i] = "done"

(* Between commits no reward waits; while a trial is recorded only its own *)
(* reward may, and then it is the next one due.                            *)
RewardsAligned ==
    /\ firstIter <= nextUnflushed
    /\ Len(rewards) = nextUnflushed - firstIter
    /\ \A n \in 1..Len(rewards) : rewards[n].iter = firstIter + n - 1
    /\ pc \in LoopPhases \ {"record"} =>
          /\ nextUnflushed = nextToProcess
          /\ \A i \in IterIds : pendingRewards[i] = None
    /\ pc = "record" =>
          /\ nextUnflushed \in {nextToProcess - 1, nextToProcess}
          /\ \A i \in IterIds : pendingRewards[i] # None <=>
                                    i = nextUnflushed /\ i = nextToProcess - 1

IndInv ==
    /\ TypeOK
    /\ CountersAligned
    /\ CommitPending
    /\ EveryTrialAccountedFor
    /\ SlotsAccountedFor
    /\ FuturesHaveOutcomes
    /\ RewardsAligned

-----------------------------------------------------------------------------
(* Lemmas about the operators the engine is built from. *)

LEMMA BestTyped ==
    ASSUME NEW out \in Outcomes, NEW best \in BestScores
    PROVE  BestAfter(out, best) \in BestScores
BY OutcomesAssumption DEF BestAfter, Improves, BestScores, OutcomeSet

LEMMA StreakTyped ==
    ASSUME NEW out, NEW best, NEW n \in Nat
    PROVE  StreakAfter(out, best, n) \in Nat
BY DEF StreakAfter

LEMMA DecisionTyped ==
    ASSUME NEW out, NEW best
    PROVE  Decision(out, best) \in Decisions
BY DEF Decision, Decisions

LEMMA StatusTyped ==
    ASSUME NEW out \in Outcomes
    PROVE  FinalStatus(out) \in Statuses
BY OutcomesAssumption DEF FinalStatus, OutcomeSet, Statuses

LEMMA RewardTyped ==
    ASSUME NEW out, NEW best
    PROVE  Reward(out, best) \in Rewards
BY DEF Reward, Rewards

(* The window of statuses never grows beyond failure_window. *)
LEMMA PushTyped ==
    ASSUME NEW window \in Seq(Statuses), NEW status \in Statuses
    PROVE  Push(window, status) \in Seq(Statuses)
<1>1. /\ Append(window, status) \in Seq(Statuses)
      /\ Append(window, status) # <<>>
    BY AppendProperties
<1>2. Tail(Append(window, status)) \in Seq(Statuses)
    BY <1>1, HeadTailProperties
<1> QED BY <1>1, <1>2 DEF Push

(* The pool's operations, as the engine uses them. *)
LEMMA AcquireTyped ==
    ASSUME Pool!PoolTypeOK, NEW i \in IterIds, NEW c \in Costs,
           Pool!TryAcquire(i, c)
    PROVE  /\ Pool!PoolTypeOK'
           /\ Pool!Held' = Pool!Held \cup {i}
<1>1. c \in [Keys -> Nat] /\ c # None
    BY EngineAssumption
<1>2. inUse' \in [Keys -> Nat]
    BY <1>1 DEF Pool!PoolTypeOK, Pool!TryAcquire
<1>3. reservations' \in [IterIds -> Costs \cup {None}]
    BY DEF Pool!PoolTypeOK, Pool!TryAcquire
<1>4. Pool!Held' = Pool!Held \cup {i}
    BY <1>1 DEF Pool!PoolTypeOK, Pool!TryAcquire, Pool!Held
<1> QED BY <1>2, <1>3, <1>4 DEF Pool!PoolTypeOK

LEMMA ReleaseTyped ==
    ASSUME Pool!PoolTypeOK, NEW i \in IterIds, Pool!Release(i)
    PROVE  /\ Pool!PoolTypeOK'
           /\ Pool!Held' = Pool!Held \ {i}
<1>1. reservations[i] \in [Keys -> Nat]
    BY EngineAssumption DEF Pool!PoolTypeOK, Pool!Release
<1>2. inUse' \in [Keys -> Nat]
    BY <1>1 DEF Pool!PoolTypeOK, Pool!Release, Pool!AtLeastZero
<1>3. reservations' \in [IterIds -> Costs \cup {None}]
    BY DEF Pool!PoolTypeOK, Pool!Release
<1>4. Pool!Held' = Pool!Held \ {i}
    BY DEF Pool!PoolTypeOK, Pool!Release, Pool!Held
<1> QED BY <1>2, <1>3, <1>4 DEF Pool!PoolTypeOK

LEMMA IntervalCount ==
    ASSUME NEW a \in Nat, NEW b \in Nat, a <= b
    PROVE  IsFiniteSet(a..(b - 1)) /\ Cardinality(a..(b - 1)) = b - a
<1> DEFINE c == b - 1
<1>1. c \in Int /\ b = c + 1
    OBVIOUS
<1> HIDE DEF c
<1>2. IsFiniteSet(a..c) /\ Cardinality(a..c) = IF a > c THEN 0 ELSE c - a + 1
    BY <1>1, FS_Interval
<1>3. IsFiniteSet(a..c) /\ Cardinality(a..c) = b - a
    BY <1>1, <1>2
<1> QED BY <1>3 DEF c

(* How many trials are under way is known from two counters alone. *)
LEMMA WindowCount ==
    ASSUME TypeOK, EveryTrialAccountedFor, CountersAligned
    PROVE  /\ Outstanding = iterIdx - nextToProcess
           /\ IsFiniteSet(inFlight)
           /\ Cardinality(inFlight) \in Nat
<1>1. iterIdx \in Nat /\ nextToProcess \in Nat /\ nextToProcess <= iterIdx
    BY EngineAssumption DEF TypeOK, CountersAligned
<1> DEFINE window == nextToProcess..(iterIdx - 1)
<1>2. IsFiniteSet(window) /\ Cardinality(window) = iterIdx - nextToProcess
    BY <1>1, IntervalCount
<1>3. inFlight \subseteq window /\ completed \subseteq window
    BY DEF EveryTrialAccountedFor
<1>4. IsFiniteSet(inFlight) /\ IsFiniteSet(completed)
    BY <1>2, <1>3, FS_Subset
<1>5. /\ Cardinality(inFlight) \in Nat
      /\ Cardinality(completed) \in Nat
      /\ Cardinality(inFlight \cap completed) = 0
    BY <1>4, FS_CardinalityType, FS_EmptySet DEF EveryTrialAccountedFor
<1>6. Cardinality(window) = Cardinality(inFlight) + Cardinality(completed)
                            - Cardinality(inFlight \cap completed)
    BY <1>4, FS_Union DEF EveryTrialAccountedFor
<1> QED BY <1>2, <1>4, <1>5, <1>6 DEF Outstanding

-----------------------------------------------------------------------------
(* Type correctness. *)

LEMMA TypeInit == Init => TypeOK
<1> SUFFICES ASSUME Init PROVE TypeOK
    OBVIOUS
<1>1. Infinity \in BestScores /\ MaxIterations \in Nat /\ MaxRestarts \in Nat
    BY EngineAssumption DEF BestScores
<1>2. checkpoint \in CheckpointSet
    BY <1>1, RulesAssumption DEF Init, NoCheckpoint, CheckpointSet
<1>3. Pool!PoolTypeOK
    BY DEF Init, Pool!PoolInit, Pool!PoolTypeOK
<1>4. bestScore \in BestScores /\ current = None /\ pc = "top"
    BY <1>1 DEF Init
<1>5. /\ batch \in Seq(Costs) /\ recent \in Seq(Statuses)
      /\ rewards \in Seq([iter : IterIds, reward : Rewards])
      /\ ledger \in Seq([iter : IterIds, decision : Decisions, best : RowScores])
    BY DEF Init
<1>6. /\ worker \in [IterIds -> Workers]
      /\ outcome \in [IterIds -> Outcomes \cup {None}]
      /\ pendingRewards \in [IterIds -> Rewards \cup {None}]
    BY DEF Init, Workers
<1>7. 0 \in 0..MaxIterations /\ 0 \in 0..MaxRestarts /\ 0 \in Nat
    BY <1>1
<1>9. shutdown \in BOOLEAN /\ wallExpired \in BOOLEAN
    BY DEF Init
<1>8. inFlight \subseteq IterIds /\ completed \subseteq IterIds
    BY DEF Init
<1> QED BY <1>2, <1>3, <1>4, <1>5, <1>6, <1>7, <1>8, <1>9, Zenon DEF Init, TypeOK, Phases

LEMMA SlotsTyped ==
    ASSUME IndInv
    PROVE  /\ SlotsOpen \in Nat
           /\ SlotsOpen + Cardinality(inFlight) <= MaxConcurrency
<1>1. /\ Outstanding \in Int
      /\ Cardinality(inFlight) \in Nat
      /\ Cardinality(inFlight) <= MaxConcurrency
    BY WindowCount DEF IndInv, TypeOK, SlotsAccountedFor
<1>2. MaxIterations - iterationsDone - Outstanding \in Int
    BY <1>1, EngineAssumption DEF IndInv, TypeOK
<1> QED BY <1>1, <1>2, EngineAssumption DEF SlotsOpen, Least

LEMMA TypeStep == IndInv /\ [Next]_vars => TypeOK'
<1> SUFFICES ASSUME IndInv, [Next]_vars PROVE TypeOK'
    OBVIOUS
<1> USE EngineAssumption DEF IndInv
<1>1. CASE BeginRound
    BY <1>1 DEF BeginRound, TypeOK, Phases, loopVars, workVars, signalVars, fileVars,
       poolVars, Pool!PoolTypeOK
<1>2. CASE ProposeBatch
    <2>1. SlotsOpen \in Nat
        BY SlotsTyped
    <2> DEFINE n == SlotsOpen
    <2>2. batch' \in [1..n -> Costs]
        BY <1>2 DEF ProposeBatch
    <2> HIDE DEF n
    <2>3. batch' \in Seq(Costs)
        BY <2>1, <2>2 DEF n
    <2> QED BY <1>2, <2>3 DEF ProposeBatch, TypeOK, Phases, workVars, signalVars,
               fileVars, poolVars, Pool!PoolTypeOK
<1>3. CASE Submit
    <2>1. /\ iterIdx \in IterIds
          /\ iterIdx + 1 \in 0..MaxIterations
        BY <1>3, WindowCount
           DEF Submit, MaySubmit, TypeOK, CountersAligned, LoopPhases, IterIds
    <2>2. Head(batch) \in Costs /\ Tail(batch) \in Seq(Costs)
        BY <1>3, HeadTailProperties DEF Submit, MaySubmit, TypeOK
    <2>3. Pool!PoolTypeOK'
        BY <1>3, <2>1, <2>2, AcquireTyped DEF Submit, TypeOK
    <2> QED BY <1>3, <2>1, <2>2, <2>3 DEF Submit, TypeOK, Workers, signalVars, fileVars
<1>4. CASE EndSubmit
    BY <1>4 DEF EndSubmit, TypeOK, Phases, workVars, signalVars, fileVars, poolVars,
       Pool!PoolTypeOK
<1>5. CASE DrainOne
    <2>1. PICK i \in IterIds : i \in inFlight /\ Pool!Release(i)
                               /\ inFlight' = inFlight \ {i}
                               /\ completed' = completed \cup {i}
        BY <1>5 DEF DrainOne, Finished, TypeOK
    <2>2. Pool!PoolTypeOK'
        BY <2>1, ReleaseTyped DEF TypeOK
    <2> QED BY <1>5, <2>1, <2>2 DEF DrainOne, TypeOK, workVars, signalVars, fileVars
<1>6. CASE EndDrain \/ NothingReady
    BY <1>6 DEF EndDrain, NothingReady, TypeOK, Phases, loopVars, workVars, signalVars,
       fileVars, poolVars, Pool!PoolTypeOK
<1>7. CASE Commit
    <2> DEFINE i == nextToProcess
    <2>1. i \in IterIds /\ outcome[i] \in Outcomes /\ i + 1 \in 0..MaxIterations
        BY <1>7 DEF Commit, TypeOK, FuturesHaveOutcomes, IterIds
    <2>2. /\ current' \in [iter : IterIds, out : Outcomes, before : BestScores]
          /\ bestScore' \in BestScores
          /\ streak' \in Nat
          /\ pendingRewards' \in [IterIds -> Rewards \cup {None}]
        BY <1>7, <2>1, BestTyped, StreakTyped, RewardTyped DEF Commit, TypeOK
    <2>3. nextToProcess' \in 0..MaxIterations /\ completed' \subseteq IterIds
        BY <1>7, <2>1 DEF Commit, TypeOK
    <2> QED BY <1>7, <2>2, <2>3 DEF Commit, TypeOK, Phases, workVars, signalVars,
               fileVars, poolVars, Pool!PoolTypeOK
<1>8. CASE FlushReward
    <2>1. /\ nextUnflushed \in IterIds
          /\ nextUnflushed + 1 \in 0..MaxIterations
          /\ pendingRewards[nextUnflushed] \in Rewards
        BY <1>8 DEF FlushReward, RewardReady, TypeOK, IterIds
    <2>2. rewards' \in Seq([iter : IterIds, reward : Rewards])
        BY <1>8, <2>1 DEF FlushReward, TypeOK
    <2> QED BY <1>8, <2>1, <2>2 DEF FlushReward, TypeOK, workVars, signalVars,
               fileVars, poolVars, Pool!PoolTypeOK
<1>9. CASE Record
    <2>1. current \in [iter : IterIds, out : Outcomes, before : BestScores]
        BY <1>9 DEF Record, TypeOK
    <2>2. recent' \in Seq(Statuses)
        BY <1>9, <2>1, StatusTyped, PushTyped DEF Record, TypeOK
    <2>3. ShownScore(bestScore) \in RowScores
        BY RulesAssumption DEF TypeOK, BestScores, ShownScore, RowScores
    <2>4. ledger' \in Seq([iter : IterIds, decision : Decisions, best : RowScores])
        BY <1>9, <2>1, <2>3, DecisionTyped DEF Record, LedgerRow, TypeOK
    <2>5. iterationsDone' \in 0..MaxIterations
        BY <1>9 DEF Record, TypeOK, CountersAligned
    <2> QED BY <1>9, <2>2, <2>4, <2>5 DEF Record, TypeOK, Phases, workVars, signalVars,
               poolVars, Pool!PoolTypeOK
<1>10. CASE CancelPending
    <2>1. worker' \in [IterIds -> Workers]
        BY <1>10 DEF CancelPending, TypeOK, Workers
    <2> QED BY <1>10, <2>1 DEF CancelPending, TypeOK, Phases, loopVars, signalVars,
               fileVars, poolVars, Pool!PoolTypeOK
<1>11. CASE SaveCheckpoint
    <2>1. checkpoint' \in CheckpointSet
        BY <1>11 DEF SaveCheckpoint, TypeOK, CheckpointSet, IterIds
    <2> QED BY <1>11, <2>1 DEF SaveCheckpoint, TypeOK, Phases, workVars, signalVars,
               poolVars, Pool!PoolTypeOK
<1>12. CASE Raise
    <2> USE <1>12
    <2>1. pc' = "finally" /\ UNCHANGED <<workVars, signalVars, fileVars, restarts>>
        BY DEF Raise
    <2>2. CASE UNCHANGED <<loopVars, poolVars>>
        BY <2>1, <2>2 DEF TypeOK, Phases, loopVars, workVars, signalVars, fileVars,
           poolVars, Pool!PoolTypeOK
    <2>3. CASE /\ pc = "submit" /\ MaySubmit /\ Pool!TryAcquire(iterIdx, Head(batch))
               /\ UNCHANGED loopVars
        <3>1. iterIdx \in IterIds /\ Head(batch) \in Costs
            BY <2>3, WindowCount, HeadTailProperties
               DEF MaySubmit, TypeOK, CountersAligned, LoopPhases, IterIds
        <3>2. Pool!PoolTypeOK'
            BY <2>3, <3>1, AcquireTyped DEF TypeOK
        <3> QED BY <2>1, <2>3, <3>2 DEF TypeOK, Phases, loopVars, workVars, signalVars,
                   fileVars
    <2>4. CASE /\ nextToProcess \in completed
               /\ completed' = completed \ {nextToProcess}
               /\ nextToProcess' = nextToProcess + 1
               /\ \/ UNCHANGED <<bestScore, streak>>
                  \/ /\ Improves(outcome[nextToProcess], bestScore)
                     /\ bestScore' = outcome[nextToProcess].score
                     /\ streak' = 0
               /\ UNCHANGED <<batch, iterIdx, iterationsDone, inFlight, current, recent,
                              pendingRewards, nextUnflushed, rewards, firstIter,
                              poolVars>>
        <3>1. nextToProcess \in IterIds /\ nextToProcess + 1 \in 0..MaxIterations
            BY <2>4 DEF TypeOK, IterIds
        <3>2. outcome[nextToProcess] \in Outcomes /\ bestScore \in BestScores
            BY <2>4, <3>1 DEF TypeOK, FuturesHaveOutcomes
        <3>3. bestScore' \in BestScores /\ streak' \in Nat
            BY <2>4, <3>2, BestTyped DEF BestAfter, TypeOK
        <3> QED BY <2>1, <2>4, <3>1, <3>3 DEF TypeOK, Phases, workVars, signalVars,
                   fileVars, poolVars, Pool!PoolTypeOK
    <2>5. CASE /\ RewardReady
               /\ pendingRewards' = [pendingRewards EXCEPT ![nextUnflushed] = None]
               /\ UNCHANGED <<batch, iterIdx, nextToProcess, iterationsDone, inFlight,
                              completed, current, bestScore, streak, recent,
                              nextUnflushed, rewards, firstIter, poolVars>>
        BY <2>1, <2>5 DEF TypeOK, Phases, workVars, signalVars, fileVars, poolVars,
           Pool!PoolTypeOK
    <2> QED BY <2>2, <2>3, <2>4, <2>5 DEF Raise
<1>13. CASE RaiseInFinally
    BY <1>13 DEF RaiseInFinally, TypeOK, Phases, loopVars, workVars, signalVars,
       fileVars, poolVars, Pool!PoolTypeOK
<1>14. ASSUME NEW i \in IterIds, StartTrial(i) PROVE TypeOK'
    BY <1>14 DEF StartTrial, TypeOK, Workers, loopVars, signalVars, fileVars, poolVars,
       Pool!PoolTypeOK
<1>15. ASSUME NEW i \in IterIds, FinishTrial(i) PROVE TypeOK'
    BY <1>15 DEF FinishTrial, TypeOK, Workers, loopVars, signalVars, fileVars, poolVars,
       Pool!PoolTypeOK
<1>16. CASE SignalArrives \/ WallTimePasses
    BY <1>16 DEF SignalArrives, WallTimePasses, TypeOK, loopVars, workVars, fileVars,
       poolVars, Pool!PoolTypeOK
<1>17. CASE Restart
    <2>1. /\ checkpoint.iteration + 1 \in 0..MaxIterations
          /\ checkpoint.best \in BestScores
          /\ checkpoint.streak \in Nat
          /\ checkpoint.recent \in Seq(Statuses)
          /\ checkpoint.wall \in BOOLEAN
        BY DEF TypeOK, CheckpointSet, IterIds
    <2>2. Pool!PoolTypeOK'
        BY <1>17 DEF Restart, Pool!PoolTypeOK
    <2>3. restarts' \in 0..MaxRestarts
        BY <1>17 DEF Restart, TypeOK
    <2>4. batch' \in Seq(Costs) /\ rewards' \in Seq([iter : IterIds, reward : Rewards])
        BY <1>17 DEF Restart
    <2> QED BY <1>17, <2>1, <2>2, <2>3, <2>4
            DEF Restart, TypeOK, Phases, Workers, fileVars
<1>18. CASE UNCHANGED vars
    BY <1>18 DEF vars, TypeOK, loopVars, workVars, signalVars, fileVars, poolVars,
       Pool!PoolTypeOK
<1> QED BY <1>1, <1>2, <1>3, <1>4, <1>5, <1>6, <1>7, <1>8, <1>9, <1>10, <1>11, <1>12,
           <1>13, <1>14, <1>15, <1>16, <1>17, <1>18 DEF Next, Loop, WorkerStep

-----------------------------------------------------------------------------
(* The other conjuncts of IndInv are preserved, one lemma for each. *)

LEMMA CountersStep == IndInv /\ [Next]_vars => CountersAligned'
<1> SUFFICES ASSUME IndInv, [Next]_vars PROVE CountersAligned'
    OBVIOUS
<1> USE DEF IndInv, TypeOK, CountersAligned, LoopPhases
<1>1. CASE BeginRound \/ ProposeBatch \/ EndSubmit \/ EndDrain \/ NothingReady
    BY <1>1 DEF BeginRound, ProposeBatch, EndSubmit, EndDrain, NothingReady, loopVars
<1>2. CASE Submit \/ DrainOne
    BY <1>2 DEF Submit, DrainOne
<1>3. CASE Commit
    <2>1. nextToProcess < iterIdx
        BY <1>3 DEF Commit, EveryTrialAccountedFor
    <2> QED BY <1>3, <2>1 DEF Commit
<1>4. CASE FlushReward \/ Record
    BY <1>4 DEF FlushReward, Record
<1>5. CASE CancelPending \/ SaveCheckpoint \/ RaiseInFinally
    BY <1>5 DEF CancelPending, SaveCheckpoint, RaiseInFinally, loopVars
<1>6. CASE Raise
    <2>1. pc' = "finally" /\ iterIdx' = iterIdx /\ iterationsDone' = iterationsDone
        BY <1>6 DEF Raise, loopVars
    <2>2. \/ nextToProcess' = nextToProcess
          \/ nextToProcess \in completed /\ nextToProcess' = nextToProcess + 1
        BY <1>6 DEF Raise, loopVars
    <2>3. nextToProcess \in completed => nextToProcess < iterIdx
        BY DEF EveryTrialAccountedFor
    <2> QED BY <2>1, <2>2, <2>3
<1>7. CASE (\E i \in IterIds : WorkerStep(i)) \/ SignalArrives \/ WallTimePasses
    BY <1>7 DEF WorkerStep, StartTrial, FinishTrial, SignalArrives, WallTimePasses,
       loopVars
<1>8. CASE Restart
    <2>1. checkpoint.iteration + 1 \in Int
        BY EngineAssumption DEF CheckpointSet, IterIds
    <2> QED BY <1>8, <2>1 DEF Restart
<1>9. CASE UNCHANGED vars
    BY <1>9 DEF vars, loopVars
<1> QED BY <1>1, <1>2, <1>3, <1>4, <1>5, <1>6, <1>7, <1>8, <1>9 DEF Next, Loop

LEMMA PendingStep == IndInv /\ [Next]_vars => CommitPending'
<1> SUFFICES ASSUME IndInv, [Next]_vars PROVE CommitPending'
    OBVIOUS
<1> USE DEF IndInv, CommitPending
<1>1. CASE BeginRound \/ ProposeBatch \/ EndSubmit \/ EndDrain \/ NothingReady
    BY <1>1 DEF BeginRound, ProposeBatch, EndSubmit, EndDrain, NothingReady
<1>2. CASE Submit \/ DrainOne
    BY <1>2 DEF Submit, DrainOne
<1>3. CASE Commit
    BY <1>3 DEF Commit, CountersAligned, LoopPhases
<1>4. CASE FlushReward \/ Record
    BY <1>4 DEF FlushReward, Record
<1>5. CASE CancelPending \/ SaveCheckpoint \/ RaiseInFinally \/ Raise \/ Restart
    BY <1>5 DEF CancelPending, SaveCheckpoint, RaiseInFinally, Raise, Restart
<1>6. CASE (\E i \in IterIds : WorkerStep(i)) \/ SignalArrives \/ WallTimePasses
    BY <1>6 DEF WorkerStep, StartTrial, FinishTrial, SignalArrives, WallTimePasses,
       loopVars
<1>7. CASE UNCHANGED vars
    BY <1>7 DEF vars, loopVars
<1> QED BY <1>1, <1>2, <1>3, <1>4, <1>5, <1>6, <1>7 DEF Next, Loop

LEMMA AccountedStep == IndInv /\ [Next]_vars => EveryTrialAccountedFor'
<1> SUFFICES ASSUME IndInv, [Next]_vars PROVE EveryTrialAccountedFor'
    OBVIOUS
<1> USE DEF IndInv, EveryTrialAccountedFor
<1>1. /\ iterIdx \in Nat /\ nextToProcess \in Nat /\ nextToProcess <= iterIdx
      /\ checkpoint.iteration + 1 \in Int
    BY EngineAssumption DEF TypeOK, CountersAligned, CheckpointSet, IterIds
<1>2. CASE BeginRound \/ ProposeBatch \/ EndSubmit \/ EndDrain \/ NothingReady
    BY <1>2 DEF BeginRound, ProposeBatch, EndSubmit, EndDrain, NothingReady, loopVars
<1>3. CASE Submit
    BY <1>1, <1>3 DEF Submit
<1>4. CASE DrainOne
    BY <1>4 DEF DrainOne, Finished
<1>5. CASE Commit
    BY <1>1, <1>5 DEF Commit
<1>6. CASE FlushReward \/ Record
    BY <1>6 DEF FlushReward, Record
<1>7. CASE CancelPending \/ SaveCheckpoint \/ RaiseInFinally
    BY <1>7 DEF CancelPending, SaveCheckpoint, RaiseInFinally, loopVars
<1>8. CASE Raise
    <2>1. iterIdx' = iterIdx /\ inFlight' = inFlight
        BY <1>8 DEF Raise, loopVars
    <2>2. \/ nextToProcess' = nextToProcess /\ completed' = completed
          \/ /\ nextToProcess \in completed
             /\ nextToProcess' = nextToProcess + 1
             /\ completed' = completed \ {nextToProcess}
        BY <1>8 DEF Raise, loopVars
    <2> QED BY <1>1, <2>1, <2>2
<1>9. CASE (\E i \in IterIds : WorkerStep(i)) \/ SignalArrives \/ WallTimePasses
    BY <1>9 DEF WorkerStep, StartTrial, FinishTrial, SignalArrives, WallTimePasses,
       loopVars
<1>10. CASE Restart
    BY <1>1, <1>10 DEF Restart
<1>11. CASE UNCHANGED vars
    BY <1>11 DEF vars, loopVars
<1> QED BY <1>2, <1>3, <1>4, <1>5, <1>6, <1>7, <1>8, <1>9, <1>10, <1>11 DEF Next, Loop

LEMMA FuturesStep == IndInv /\ [Next]_vars => FuturesHaveOutcomes'
<1> SUFFICES ASSUME IndInv, [Next]_vars PROVE FuturesHaveOutcomes'
    OBVIOUS
<1> USE DEF IndInv, FuturesHaveOutcomes, TypeOK
<1>1. CASE BeginRound \/ ProposeBatch \/ EndSubmit \/ EndDrain \/ NothingReady
    BY <1>1 DEF BeginRound, ProposeBatch, EndSubmit, EndDrain, NothingReady, loopVars,
       workVars
<1>2. CASE Submit
    <2>1. iterIdx \notin completed
        BY EngineAssumption DEF EveryTrialAccountedFor
    <2> QED BY <1>2, <2>1 DEF Submit
<1>3. CASE DrainOne
    BY <1>3 DEF DrainOne, Finished, workVars
<1>4. CASE Commit \/ FlushReward \/ Record
    BY <1>4 DEF Commit, FlushReward, Record, workVars
<1>5. CASE CancelPending
    BY <1>5 DEF CancelPending, loopVars
<1>6. CASE SaveCheckpoint \/ RaiseInFinally
    BY <1>6 DEF SaveCheckpoint, RaiseInFinally, loopVars, workVars
<1>7. CASE Raise
    <2>1. completed' \subseteq completed /\ UNCHANGED workVars
        BY <1>7 DEF Raise, loopVars
    <2> QED BY <2>1 DEF workVars
<1>8. ASSUME NEW i \in IterIds, StartTrial(i) PROVE FuturesHaveOutcomes'
    BY <1>8 DEF StartTrial, loopVars
<1>9. ASSUME NEW i \in IterIds, FinishTrial(i) PROVE FuturesHaveOutcomes'
    BY <1>9 DEF FinishTrial, loopVars
<1>10. CASE SignalArrives \/ WallTimePasses
    BY <1>10 DEF SignalArrives, WallTimePasses, loopVars, workVars
<1>11. CASE Restart
    BY <1>11 DEF Restart
<1>12. CASE UNCHANGED vars
    BY <1>12 DEF vars, loopVars, workVars
<1> QED BY <1>1, <1>2, <1>3, <1>4, <1>5, <1>6, <1>7, <1>8, <1>9, <1>10, <1>11, <1>12
        DEF Next, Loop, WorkerStep

LEMMA SlotsStep == IndInv /\ [Next]_vars => SlotsAccountedFor'
<1> SUFFICES ASSUME IndInv, [Next]_vars PROVE SlotsAccountedFor'
    OBVIOUS
<1> USE DEF IndInv, SlotsAccountedFor, NoLeakedReservation, LoopPhases
<1>a. /\ MaxConcurrency \in Nat
      /\ IsFiniteSet(inFlight)
      /\ Cardinality(inFlight) \in Nat
      /\ batch \in Seq(Costs)
    BY EngineAssumption, WindowCount DEF TypeOK
<1>1. CASE BeginRound \/ EndDrain \/ NothingReady
    BY <1>1 DEF BeginRound, EndDrain, NothingReady, loopVars, poolVars, Pool!Held
<1>2. CASE ProposeBatch
    <2> DEFINE n == SlotsOpen
    <2>1. n \in Nat /\ n + Cardinality(inFlight) <= MaxConcurrency
        BY SlotsTyped
    <2>2. batch' \in [1..n -> Costs]
        BY <1>2 DEF ProposeBatch
    <2> HIDE DEF n
    <2>3. Len(batch') = n
        BY <2>1, <2>2
    <2> QED BY <1>2, <1>a, <2>1, <2>3 DEF ProposeBatch, poolVars, Pool!Held
<1>3. CASE Submit
    <2>1. iterIdx \in IterIds
        BY <1>3, WindowCount, EngineAssumption
           DEF Submit, MaySubmit, TypeOK, CountersAligned, IterIds
    <2>2. Head(batch) \in Costs /\ Len(Tail(batch)) = Len(batch) - 1 /\ Len(batch) \in Nat
        BY <1>3, <1>a, HeadTailProperties, LenProperties DEF Submit, MaySubmit
    <2>3. Pool!Held' = Pool!Held \cup {iterIdx}
        BY <1>3, <2>1, <2>2, AcquireTyped DEF Submit, TypeOK
    <2>4. /\ Cardinality(inFlight') = Cardinality(inFlight) + 1
          /\ Cardinality(inFlight') \in Nat
        <3>1. iterIdx \notin inFlight
            BY EngineAssumption DEF EveryTrialAccountedFor, TypeOK
        <3>2. inFlight' = inFlight \cup {iterIdx}
            BY <1>3 DEF Submit
        <3>3. Cardinality(inFlight \cup {iterIdx}) = Cardinality(inFlight) + 1
            BY <1>a, <3>1, FS_AddElement
        <3> QED BY <1>a, <3>2, <3>3
    <2>5. Len(batch) # 0
        BY <1>3, <1>a, EmptySeq DEF Submit, MaySubmit
    <2> QED BY <1>3, <1>a, <2>2, <2>3, <2>4, <2>5 DEF Submit
<1>4. CASE EndSubmit
    BY <1>4 DEF EndSubmit, poolVars, Pool!Held
<1>5. CASE DrainOne
    <2>1. PICK i \in IterIds : i \in inFlight /\ Pool!Release(i)
                               /\ inFlight' = inFlight \ {i}
        BY <1>5 DEF DrainOne, Finished, TypeOK
    <2>2. Pool!Held' = Pool!Held \ {i}
        BY <2>1, ReleaseTyped DEF TypeOK
    <2>3. Cardinality(inFlight') <= MaxConcurrency
        <3>1. Cardinality(inFlight \ {i}) = Cardinality(inFlight) - 1
            BY <1>a, <2>1, FS_RemoveElement
        <3> QED BY <1>a, <2>1, <3>1
    <2> QED BY <1>5, <2>1, <2>2, <2>3 DEF DrainOne
<1>6. CASE Commit \/ FlushReward \/ Record
    BY <1>6 DEF Commit, FlushReward, Record, poolVars, Pool!Held
<1>7. CASE CancelPending \/ SaveCheckpoint \/ RaiseInFinally
    BY <1>7 DEF CancelPending, SaveCheckpoint, RaiseInFinally, loopVars
<1>8. CASE Raise
    BY <1>8 DEF Raise, loopVars
<1>9. CASE (\E i \in IterIds : WorkerStep(i)) \/ SignalArrives \/ WallTimePasses
    BY <1>9 DEF WorkerStep, StartTrial, FinishTrial, SignalArrives, WallTimePasses,
       loopVars, poolVars, Pool!Held
<1>10. CASE Restart
    <2>1. inFlight' = {} /\ pc' = "top" /\ Pool!Held' = {}
        BY <1>10 DEF Restart, Pool!Held
    <2> QED BY <1>a, <2>1, FS_EmptySet
<1>11. CASE UNCHANGED vars
    BY <1>11 DEF vars, loopVars, poolVars, Pool!Held
<1> QED BY <1>1, <1>2, <1>3, <1>4, <1>5, <1>6, <1>7, <1>8, <1>9, <1>10, <1>11
        DEF Next, Loop

LEMMA RewardsStep == IndInv /\ [Next]_vars => RewardsAligned'
<1> SUFFICES ASSUME IndInv, [Next]_vars PROVE RewardsAligned'
    OBVIOUS
<1> USE DEF IndInv, RewardsAligned, LoopPhases
<1>a. /\ nextUnflushed \in Nat /\ firstIter \in Nat /\ nextToProcess \in Nat
      /\ pendingRewards \in [IterIds -> Rewards \cup {None}]
      /\ rewards \in Seq([iter : IterIds, reward : Rewards])
    BY EngineAssumption DEF TypeOK
<1>1. CASE BeginRound \/ ProposeBatch \/ EndSubmit \/ EndDrain \/ NothingReady
    BY <1>1 DEF BeginRound, ProposeBatch, EndSubmit, EndDrain, NothingReady, loopVars
<1>2. CASE Submit \/ DrainOne
    BY <1>2 DEF Submit, DrainOne
<1>3. CASE Commit
    <2>1. nextToProcess \in IterIds /\ nextUnflushed = nextToProcess
        BY <1>3 DEF Commit, TypeOK
    <2>2. Reward(outcome[nextToProcess], bestScore) # None
        BY RewardTyped, EngineAssumption
    <2>3. \A j \in IterIds : pendingRewards'[j] # None <=> j = nextToProcess
        BY <1>3, <1>a, <2>1, <2>2 DEF Commit
    <2> QED BY <1>3, <1>a, <2>1, <2>3 DEF Commit
<1>4. CASE FlushReward
    <2> DEFINE row == [iter |-> nextUnflushed, reward |-> pendingRewards[nextUnflushed]]
    <2>1. nextUnflushed \in IterIds /\ pendingRewards[nextUnflushed] # None
          /\ pc = "record"
        BY <1>4 DEF FlushReward, RewardReady
    <2>2. row \in [iter : IterIds, reward : Rewards] /\ row.iter = nextUnflushed
        BY <1>a, <2>1
    <2>3. nextUnflushed = nextToProcess - 1
        BY <2>1
    <2> HIDE DEF row
    <2>4. /\ Len(rewards') = Len(rewards) + 1
          /\ \A n \in 1..Len(rewards) : rewards'[n] = rewards[n]
          /\ rewards'[Len(rewards) + 1] = row
        BY <1>4, <1>a, <2>2, AppendProperties DEF FlushReward, row
    <2>5. \A n \in 1..Len(rewards') : rewards'[n].iter = firstIter + n - 1
        <3>1. Len(rewards) = nextUnflushed - firstIter /\ Len(rewards) \in Nat
            BY <1>a
        <3>2. SUFFICES ASSUME NEW n \in 1..Len(rewards')
                       PROVE  rewards'[n].iter = firstIter + n - 1
            OBVIOUS
        <3>3. CASE n \in 1..Len(rewards)
            BY <2>4, <3>3
        <3>4. CASE n = Len(rewards) + 1
            BY <1>a, <2>2, <2>4, <3>1, <3>4
        <3> QED BY <2>4, <3>1, <3>2, <3>3, <3>4
    <2>6. /\ nextUnflushed' = nextUnflushed + 1
          /\ UNCHANGED <<pc, firstIter, nextToProcess>>
        BY <1>4 DEF FlushReward
    <2>7. \A j \in IterIds : pendingRewards'[j] = None
        BY <1>4, <1>a, <2>1 DEF FlushReward
    <2> QED BY <1>a, <2>1, <2>3, <2>4, <2>5, <2>6, <2>7
<1>5. CASE Record
    <2>1. nextUnflushed = nextToProcess /\ \A j \in IterIds : pendingRewards[j] = None
        <3>1. pc = "record" /\ ~RewardReady
            BY <1>5 DEF Record
        <3>2. CASE nextUnflushed = nextToProcess
            BY <3>1, <3>2, <1>a
        <3>3. CASE nextUnflushed = nextToProcess - 1
            <4>1. nextUnflushed \in IterIds
                BY <3>1, <3>3, <1>a, EngineAssumption DEF TypeOK, IterIds
            <4> QED BY <3>1, <3>3, <4>1 DEF RewardReady
        <3> QED BY <3>1, <3>2, <3>3
    <2> QED BY <1>5, <1>a, <2>1 DEF Record
<1>6. CASE CancelPending \/ SaveCheckpoint \/ RaiseInFinally
    BY <1>6 DEF CancelPending, SaveCheckpoint, RaiseInFinally, loopVars
<1>7. CASE Raise
    <2>1. pc' = "finally" /\ UNCHANGED <<rewards, nextUnflushed, firstIter>>
        BY <1>7 DEF Raise, loopVars
    <2> QED BY <2>1
<1>8. CASE (\E i \in IterIds : WorkerStep(i)) \/ SignalArrives \/ WallTimePasses
    BY <1>8 DEF WorkerStep, StartTrial, FinishTrial, SignalArrives, WallTimePasses,
       loopVars
<1>9. CASE Restart
    <2>1. checkpoint.iteration + 1 \in Int
        BY EngineAssumption DEF TypeOK, CheckpointSet, IterIds
    <2>2. /\ rewards' = <<>> /\ pc' = "top"
          /\ nextUnflushed' = checkpoint.iteration + 1
          /\ nextToProcess' = checkpoint.iteration + 1
          /\ firstIter' = checkpoint.iteration + 1
          /\ \A j \in IterIds : pendingRewards'[j] = None
        BY <1>9 DEF Restart
    <2> QED BY <2>1, <2>2
<1>10. CASE UNCHANGED vars
    BY <1>10 DEF vars, loopVars
<1> QED BY <1>1, <1>2, <1>3, <1>4, <1>5, <1>6, <1>7, <1>8, <1>9, <1>10 DEF Next, Loop

-----------------------------------------------------------------------------

LEMMA IndInit == Init => IndInv
<1> SUFFICES ASSUME Init PROVE IndInv
    OBVIOUS
<1>1. /\ pc = "top" /\ inFlight = {} /\ completed = {} /\ rewards = <<>>
      /\ iterIdx = 0 /\ nextToProcess = 0 /\ iterationsDone = 0
      /\ nextUnflushed = 0 /\ firstIter = 0
      /\ \A i \in IterIds : pendingRewards[i] = None /\ worker[i] = "none"
    BY DEF Init
<1>2. CountersAligned /\ CommitPending
    BY <1>1 DEF CountersAligned, CommitPending
<1>3. EveryTrialAccountedFor /\ FuturesHaveOutcomes
    BY <1>1 DEF EveryTrialAccountedFor, FuturesHaveOutcomes
<1>4. RewardsAligned
    BY <1>1 DEF RewardsAligned
<1>5. Pool!Held = {}
    BY DEF Init, Pool!PoolInit, Pool!Held
<1>6. SlotsAccountedFor
    BY <1>1, <1>5, FS_EmptySet, EngineAssumption DEF SlotsAccountedFor, NoLeakedReservation
<1> QED BY <1>2, <1>3, <1>4, <1>6, TypeInit DEF IndInv

LEMMA IndStep == IndInv /\ [Next]_vars => IndInv'
BY TypeStep, CountersStep, PendingStep, AccountedStep, SlotsStep, FuturesStep,
   RewardsStep DEF IndInv

LEMMA Inductive == Spec => []IndInv
BY IndInit, IndStep, PTL DEF Spec

(* Type correctness of the parallel engine. *)
THEOREM TypeCorrect == Spec => []TypeOK
<1>1. IndInv => TypeOK
    BY DEF IndInv
<1> QED BY <1>1, Inductive, PTL

(* in_flight and completed partition the submitted, uncommitted trials,    *)
(* whatever fails and however often the search is restarted.               *)
THEOREM TrialsAccountedFor == Spec => []EveryTrialAccountedFor
<1>1. IndInv => EveryTrialAccountedFor
    BY DEF IndInv
<1> QED BY <1>1, Inductive, PTL

(* While the loop runs exactly the in-flight trials hold reservations.     *)
THEOREM NoReservationLeaks == Spec => []NoLeakedReservation
<1>1. IndInv => NoLeakedReservation
    BY DEF IndInv, SlotsAccountedFor
<1> QED BY <1>1, Inductive, PTL

(* max_iterations and max_concurrency are never exceeded.                  *)
THEOREM LimitsHold == Spec => []LimitsRespected
<1>1. IndInv => LimitsRespected
    BY EngineAssumption DEF IndInv, SlotsAccountedFor, TypeOK, LimitsRespected
<1> QED BY <1>1, Inductive, PTL

(* R3.a: the policy hears of every iteration once and in order, whatever   *)
(* order the trials finish in.                                             *)
THEOREM RewardsOrdered == Spec => []RewardsInOrder
<1>1. IndInv => RewardsInOrder
    BY DEF IndInv, RewardsAligned, LoopPhases, RewardsInOrder
<1> QED BY <1>1, Inductive, PTL

-----------------------------------------------------------------------------
(* Refinement of the sequential ledger.  It holds of a loop body that does *)
(* not raise: an exception lets the checkpoint count trials that were      *)
(* never committed (run ParallelResumeSkips).                              *)

(* Once the loop is left, every submitted trial has been committed.        *)
LeavesNothingBehind ==
    pc \in {"finally", "join", "stopped"} =>
        inFlight = {} /\ completed = {} /\ iterIdx = iterationsDone

LEMMA EmptyWindow ==
    ASSUME IndInv, inFlight = {}, completed = {}
    PROVE  iterIdx = nextToProcess
<1>1. iterIdx \in Nat /\ nextToProcess \in Nat /\ nextToProcess <= iterIdx
    BY EngineAssumption DEF IndInv, TypeOK, CountersAligned
<1>2. nextToProcess \notin nextToProcess..(iterIdx - 1)
    BY DEF IndInv, EveryTrialAccountedFor
<1> QED BY <1>1, <1>2

LEMMA LeavesNothingStep ==
    ASSUME Faults = {}, IndInv, LeavesNothingBehind, [Next]_vars
    PROVE  LeavesNothingBehind'
<1> USE DEF LeavesNothingBehind
<1>1. CASE BeginRound \/ NothingReady
    <2>1. CASE inFlight = {} /\ completed = {}
        BY <1>1, <2>1, EmptyWindow
           DEF BeginRound, NothingReady, loopVars, IndInv, CountersAligned, LoopPhases
    <2>2. CASE ~(inFlight = {} /\ completed = {})
        BY <1>1, <2>2 DEF BeginRound, NothingReady
    <2> QED BY <2>1, <2>2
<1>2. CASE ProposeBatch \/ Submit \/ EndSubmit \/ DrainOne \/ EndDrain
    BY <1>2 DEF ProposeBatch, Submit, EndSubmit, DrainOne, EndDrain
<1>3. CASE Commit \/ FlushReward \/ Record
    BY <1>3 DEF Commit, FlushReward, Record
<1>4. CASE CancelPending \/ SaveCheckpoint
    BY <1>4 DEF CancelPending, SaveCheckpoint, loopVars
<1>5. ~Raise /\ ~RaiseInFinally
    BY DEF Raise, RaiseInFinally
<1>6. CASE (\E i \in IterIds : WorkerStep(i)) \/ SignalArrives \/ WallTimePasses
    BY <1>6 DEF WorkerStep, StartTrial, FinishTrial, SignalArrives, WallTimePasses,
       loopVars
<1>7. CASE Restart
    BY <1>7 DEF Restart
<1>8. CASE UNCHANGED vars
    BY <1>8 DEF vars, loopVars
<1> QED BY <1>1, <1>2, <1>3, <1>4, <1>5, <1>6, <1>7, <1>8 DEF Next, Loop

LEMMA LedgerInit == Init => Ledger!Init
BY DEF Init, NoCheckpoint, Ledger!Init, Ledger!Start

LEMMA LedgerStep ==
    ASSUME Faults = {}, IndInv, LeavesNothingBehind, [Next]_vars
    PROVE  [Ledger!Next]_(Ledger!ledgerVars)
<1> USE DEF Ledger!ledgerVars
<1>1. CASE BeginRound \/ NothingReady \/ EndDrain
    BY <1>1 DEF BeginRound, NothingReady, EndDrain, loopVars, fileVars
<1>2. CASE ProposeBatch \/ Submit \/ EndSubmit \/ DrainOne
    BY <1>2 DEF ProposeBatch, Submit, EndSubmit, DrainOne, fileVars
<1>3. CASE Commit                        \* stutters: the row is not written yet
    BY <1>3 DEF Commit, fileVars
<1>4. CASE FlushReward
    BY <1>4 DEF FlushReward, fileVars
<1>5. CASE Record                        \* Ledger!Commit
    <2>1. /\ current.out \in Outcomes
          /\ current.iter = iterationsDone
          /\ bestScore = BestAfter(current.out, current.before)
        BY <1>5 DEF Record, IndInv, TypeOK, CommitPending
    <2>2. Ledger!Commit(current.out)
        BY <1>5, <2>1
           DEF Record, LedgerRow, Ledger!Commit, Ledger!Row, Ledger!Decision, Ledger!BestAfter,
               Ledger!Improves, Ledger!ShownScore, Decision, BestAfter, Improves, ShownScore
    <2> QED BY <2>1, <2>2 DEF Ledger!Next
<1>6. CASE CancelPending
    BY <1>6 DEF CancelPending, loopVars, fileVars
<1>7. CASE SaveCheckpoint                \* Ledger!Save, or nothing to save
    <2>1. iterIdx = iterationsDone /\ iterIdx \in Nat
        BY <1>7, EngineAssumption
           DEF SaveCheckpoint, LeavesNothingBehind, IndInv, TypeOK
    <2>2. CASE iterationsDone > 0
        <3>1. checkpoint' = [iteration |-> iterIdx - 1, best |-> bestScore,
                             streak |-> streak, recent |-> recent, wall |-> wallExpired]
            BY <1>7, <2>2 DEF SaveCheckpoint
        <3>2. checkpoint'.iteration + 1 = iterationsDone /\ checkpoint'.best = bestScore
            BY <2>1, <3>1
        <3>3. Ledger!Save
            BY <1>7, <3>2 DEF SaveCheckpoint, Ledger!Save
        <3> QED BY <3>3 DEF Ledger!Next
    <2>3. CASE ~(iterationsDone > 0)
        BY <1>7, <2>3 DEF SaveCheckpoint
    <2> QED BY <2>2, <2>3
<1>8. ~Raise /\ ~RaiseInFinally
    BY DEF Raise, RaiseInFinally
<1>9. CASE (\E i \in IterIds : WorkerStep(i)) \/ SignalArrives \/ WallTimePasses
    BY <1>9 DEF WorkerStep, StartTrial, FinishTrial, SignalArrives, WallTimePasses,
       loopVars, fileVars
<1>10. CASE Restart                      \* Ledger!Resume
    <2>1. Ledger!Resume
        BY <1>10 DEF Restart, fileVars, Ledger!Resume
    <2> QED BY <2>1 DEF Ledger!Next
<1>11. CASE UNCHANGED vars
    BY <1>11 DEF vars, loopVars, fileVars
<1> QED BY <1>1, <1>2, <1>3, <1>4, <1>5, <1>6, <1>7, <1>8, <1>9, <1>10, <1>11
        DEF Next, Loop

(* However the trials overlap, are stopped or resumed, the ledger and the  *)
(* checkpoint are those of a search that ran them one after the other.     *)
THEOREM SearchIsSequential ==
    ASSUME Faults = {}
    PROVE  Spec => LedgerSpec
<1>1. Init => LeavesNothingBehind
    BY DEF Init, LeavesNothingBehind
<1>2. IndInv /\ LeavesNothingBehind /\ [Next]_vars => LeavesNothingBehind'
    BY LeavesNothingStep
<1>3. IndInv /\ LeavesNothingBehind /\ [Next]_vars => [Ledger!Next]_(Ledger!ledgerVars)
    BY LedgerStep
<1> QED BY <1>1, <1>2, <1>3, LedgerInit, Inductive, PTL
        DEF Spec, LedgerSpec, Ledger!Spec

-----------------------------------------------------------------------------
(* What the pool has handed out is exactly what the reservations add up    *)
(* to.  A step changes the sum at one end, so it is carried along as a     *)
(* list of the holders with its partial sums, extended by an acquisition   *)
(* and contracted by a release; SumFitsList compares the folded sum to it. *)

(* e lists the trials that hold a reservation, each once, and p[j] is what *)
(* the first j of them hold together.                                      *)
PartialSums(n, e, p) ==
    /\ e \in [1..n -> Pool!Held]
    /\ \A i \in Pool!Held : \E j \in 1..n : e[j] = i
    /\ \A j, l \in 1..n : e[j] = e[l] => j = l
    /\ p \in [0..n -> [Keys -> Nat]]
    /\ \A k \in Keys : p[0][k] = 0
    /\ p[n] = inUse
    /\ \A j \in 1..n, k \in Keys : p[j][k] = p[j - 1][k] + reservations[e[j]][k]
    /\ \A j, l \in 0..n, k \in Keys : j <= l => p[j][k] <= p[l][k]

InUseAddsUp == \E n \in Nat : \E e, p : PartialSums(n, e, p)

(* With nothing reserved, nothing is in use. *)
LEMMA EmptyPool ==
    ASSUME InUseAddsUp, Pool!Held = {}
    PROVE  \A k \in Keys : inUse[k] = 0
<1>0. PICK n \in Nat : \E e, p : PartialSums(n, e, p)
    BY DEF InUseAddsUp
<1>1. PICK e, p : PartialSums(n, e, p)
    BY <1>0
<1>2. n = 0
    <2>1. ASSUME n # 0 PROVE FALSE
        <3>1. 1 \in 1..n
            BY <2>1
        <3> QED BY <1>1, <3>1 DEF PartialSums
    <2> QED BY <2>1
<1> QED BY <1>1, <1>2 DEF PartialSums

LEMMA AcquireAddsUp ==
    ASSUME Pool!PoolTypeOK, InUseAddsUp, NEW i \in IterIds, NEW c \in Costs,
           Pool!TryAcquire(i, c)
    PROVE  InUseAddsUp'
<1>0. PICK n \in Nat : \E e, p : PartialSums(n, e, p)
    BY DEF InUseAddsUp
<1>1. PICK e, p : PartialSums(n, e, p)
    BY <1>0
<1> DEFINE e2 == [j \in 1..(n + 1) |-> IF j = n + 1 THEN i ELSE e[j]]
           p2 == [j \in 0..(n + 1) |-> IF j = n + 1 THEN inUse' ELSE p[j]]
<1>2. /\ c \in [Keys -> Nat] /\ i \notin Pool!Held
      /\ Pool!Held' = Pool!Held \cup {i}
      /\ inUse \in [Keys -> Nat] /\ inUse' \in [Keys -> Nat]
      /\ reservations' = [reservations EXCEPT ![i] = c]
      /\ \A k \in Keys : inUse'[k] = inUse[k] + c[k]
    BY AcquireTyped, EngineAssumption DEF Pool!PoolTypeOK, Pool!TryAcquire, Pool!Held
<1>3. \A j \in 1..n : e[j] \in Pool!Held /\ e[j] # i /\ reservations'[e[j]] = reservations[e[j]]
    BY <1>1, <1>2 DEF PartialSums, Pool!Held
<1>4. reservations'[i] = c
    BY <1>2 DEF Pool!PoolTypeOK
<1>5. /\ e2 \in [1..(n + 1) -> Pool!Held']
      /\ \A h \in Pool!Held' : \E j \in 1..(n + 1) : e2[j] = h
      /\ \A j, l \in 1..(n + 1) : e2[j] = e2[l] => j = l
    <2>1. e2 \in [1..(n + 1) -> Pool!Held']
        BY <1>2, <1>3
    <2>2. ASSUME NEW h \in Pool!Held' PROVE \E j \in 1..(n + 1) : e2[j] = h
        <3>1. CASE h = i
            BY <3>1
        <3>2. CASE h \in Pool!Held
            <4>1. PICK j \in 1..n : e[j] = h
                BY <1>1, <3>2 DEF PartialSums
            <4> QED BY <4>1
        <3> QED BY <1>2, <3>1, <3>2
    <2>3. ASSUME NEW j \in 1..(n + 1), NEW l \in 1..(n + 1), e2[j] = e2[l] PROVE j = l
        <3>1. \A a, b \in 1..n : e[a] = e[b] => a = b
            BY <1>1 DEF PartialSums
        <3>2. \A a \in 1..(n + 1) : a # n + 1 => a \in 1..n /\ e2[a] = e[a]
            OBVIOUS
        <3>3. e2[n + 1] = i
            OBVIOUS
        <3> HIDE DEF e2
        <3> QED BY <1>3, <2>3, <3>1, <3>2, <3>3
    <2> QED BY <2>1, <2>2, <2>3
<1>6. /\ p2 \in [0..(n + 1) -> [Keys -> Nat]]
      /\ \A k \in Keys : p2[0][k] = 0
      /\ p2[n + 1] = inUse'
    BY <1>1, <1>2 DEF PartialSums
<1>7. ASSUME NEW j \in 1..(n + 1), NEW k \in Keys
      PROVE  p2[j][k] = p2[j - 1][k] + reservations'[e2[j]][k]
    BY <1>1, <1>2, <1>3, <1>4 DEF PartialSums
<1>8. ASSUME NEW j \in 0..(n + 1), NEW l \in 0..(n + 1), NEW k \in Keys, j <= l
      PROVE  p2[j][k] <= p2[l][k]
    BY <1>1, <1>2, <1>8 DEF PartialSums
<1>9. PICK e3, p3 : e3 = e2 /\ p3 = p2
    OBVIOUS
<1> HIDE DEF e2, p2
<1>10. PartialSums(n + 1, e3, p3)'
    BY <1>5, <1>6, <1>7, <1>8, <1>9 DEF PartialSums
<1> QED BY <1>10 DEF InUseAddsUp

LEMMA ReleaseAddsUp ==
    ASSUME Pool!PoolTypeOK, InUseAddsUp, NEW i \in IterIds, Pool!Release(i)
    PROVE  InUseAddsUp'
<1>0. PICK n \in Nat : \E e, p : PartialSums(n, e, p)
    BY DEF InUseAddsUp
<1>1. PICK e, p : PartialSums(n, e, p)
    BY <1>0
<1>2. /\ i \in Pool!Held /\ Pool!Held' = Pool!Held \ {i}
      /\ reservations[i] \in [Keys -> Nat]
      /\ reservations' = [reservations EXCEPT ![i] = None]
      /\ inUse' = [k \in Keys |-> Pool!AtLeastZero(inUse[k] - reservations[i][k])]
    BY ReleaseTyped, EngineAssumption DEF Pool!PoolTypeOK, Pool!Release, Pool!Held
<1>3. PICK m \in 1..n : e[m] = i
    BY <1>1, <1>2 DEF PartialSums
<1> DEFINE r == reservations[i]
           e2 == [j \in 1..(n - 1) |-> IF j < m THEN e[j] ELSE e[j + 1]]
           p2 == [j \in 0..(n - 1) |->
                     IF j < m THEN p[j] ELSE [k \in Keys |-> p[j + 1][k] - r[k]]]
<1>4. /\ \A j \in 0..n : p[j] \in [Keys -> Nat]
      /\ \A j, l \in 0..n, k \in Keys : j <= l => p[j][k] <= p[l][k]
      /\ \A j \in 1..n, k \in Keys : p[j][k] = p[j - 1][k] + reservations[e[j]][k]
      /\ \A j, l \in 1..n : e[j] = e[l] => j = l
      /\ \A j \in 1..n : e[j] \in Pool!Held
      /\ p[n] = inUse
    BY <1>1 DEF PartialSums
<1>5. \A j \in m..n, k \in Keys : p[m - 1][k] <= p[j][k] - r[k] /\ p[j][k] - r[k] \in Nat
    <2> SUFFICES ASSUME NEW j \in m..n, NEW k \in Keys
                 PROVE  p[m - 1][k] <= p[j][k] - r[k] /\ p[j][k] - r[k] \in Nat
        OBVIOUS
    <2>1. j \in 0..n /\ m \in 0..n /\ m - 1 \in 0..n /\ m <= j
        BY <1>3
    <2>2. p[j][k] \in Nat /\ p[m][k] \in Nat /\ p[m - 1][k] \in Nat /\ r[k] \in Nat
        BY <1>2, <1>4, <2>1
    <2>3. p[m][k] = p[m - 1][k] + r[k] /\ p[m][k] <= p[j][k]
        BY <1>3, <1>4, <2>1
    <2> QED BY <2>2, <2>3
<1>6. /\ e2 \in [1..(n - 1) -> Pool!Held']
      /\ \A h \in Pool!Held' : \E j \in 1..(n - 1) : e2[j] = h
      /\ \A j, l \in 1..(n - 1) : e2[j] = e2[l] => j = l
    <2>1. \A j \in 1..(n - 1) :
              /\ j < m => j \in 1..n /\ j # m /\ e2[j] = e[j]
              /\ j >= m => j + 1 \in 1..n /\ j + 1 # m /\ e2[j] = e[j + 1]
        BY <1>3
    <2>2. \A j \in 1..(n - 1) : e2[j] \in Pool!Held /\ e2[j] # i
        <3> HIDE DEF e2
        <3> QED BY <1>3, <1>4, <2>1
    <2>3. e2 \in [1..(n - 1) -> Pool!Held']
        BY <1>2, <2>2
    <2>4. ASSUME NEW h \in Pool!Held' PROVE \E j \in 1..(n - 1) : e2[j] = h
        <3>1. PICK j \in 1..n : e[j] = h
            BY <1>1, <1>2 DEF PartialSums
        <3>2. j # m
            BY <1>2, <1>3, <3>1
        <3> HIDE DEF e2
        <3>3. CASE j < m
            BY <1>3, <2>1, <3>1, <3>3
        <3>4. CASE j > m
            <4>1. j - 1 \in 1..(n - 1) /\ j - 1 >= m /\ (j - 1) + 1 = j
                BY <1>3, <3>4
            <4> QED BY <2>1, <3>1, <4>1
        <3> QED BY <3>2, <3>3, <3>4
    <2>5. ASSUME NEW j \in 1..(n - 1), NEW l \in 1..(n - 1), e2[j] = e2[l] PROVE j = l
        <3> HIDE DEF e2
        <3>1. CASE j < m /\ l < m
            BY <1>4, <2>1, <2>5, <3>1
        <3>2. CASE j < m /\ l >= m
            <4>1. j = l + 1
                BY <1>4, <2>1, <2>5, <3>2
            <4> QED BY <3>2, <4>1
        <3>3. CASE j >= m /\ l < m
            <4>1. j + 1 = l
                BY <1>4, <2>1, <2>5, <3>3
            <4> QED BY <3>3, <4>1
        <3>4. CASE j >= m /\ l >= m
            <4>1. j + 1 = l + 1
                BY <1>4, <2>1, <2>5, <3>4
            <4> QED BY <4>1
        <3> QED BY <1>3, <3>1, <3>2, <3>3, <3>4
    <2> QED BY <2>3, <2>4, <2>5
<1>7. /\ p2 \in [0..(n - 1) -> [Keys -> Nat]]
      /\ \A k \in Keys : p2[0][k] = 0
      /\ p2[n - 1] = inUse'
    <2>1. ASSUME NEW j \in 0..(n - 1) PROVE p2[j] \in [Keys -> Nat]
        <3>1. CASE j < m
            BY <1>4, <3>1
        <3>2. CASE j >= m
            <4>1. j + 1 \in m..n
                BY <1>3, <3>2
            <4> QED BY <1>3, <1>5, <3>2, <4>1
        <3> QED BY <1>3, <3>1, <3>2
    <2>2. \A k \in Keys : p2[0][k] = 0
        BY <1>1, <1>3 DEF PartialSums
    <2>3. p2[n - 1] = inUse'
        <3>1. p2[n - 1] = [k \in Keys |-> p[n][k] - r[k]]
            <4>1. CASE m = n
                <5>1. p2[n - 1] = p[m - 1] /\ m - 1 \in 0..n /\ m \in 0..n
                    BY <1>3, <4>1
                <5>2. \A k \in Keys : p[m][k] = p[m - 1][k] + r[k]
                    BY <1>3, <1>4
                <5>3. \A k \in Keys : r[k] \in Nat /\ p[m - 1][k] \in Nat
                    BY <1>2, <1>4, <5>1
                <5>4. \A k \in Keys : p[m - 1][k] = p[n][k] - r[k]
                    BY <4>1, <5>2, <5>3
                <5>5. p[m - 1] \in [Keys -> Nat]
                    BY <1>4, <5>1
                <5> QED BY <5>1, <5>4, <5>5
            <4>2. CASE m < n
                BY <1>3, <4>2
            <4> QED BY <1>3, <4>1, <4>2
        <3>2. \A k \in Keys : p[n][k] - r[k] \in Nat
            BY <1>3, <1>5
        <3>3. \A k \in Keys : Pool!AtLeastZero(inUse[k] - r[k]) = p[n][k] - r[k]
            BY <1>4, <3>2 DEF Pool!AtLeastZero
        <3> HIDE DEF p2
        <3> QED BY <1>2, <3>1, <3>3
    <2> QED BY <2>1, <2>2, <2>3
<1>8. \A h \in Pool!Held' : reservations'[h] = reservations[h]
    BY <1>2 DEF Pool!PoolTypeOK, Pool!Held
<1>9. ASSUME NEW j \in 1..(n - 1), NEW k \in Keys
      PROVE  p2[j][k] = p2[j - 1][k] + reservations'[e2[j]][k]
    <2>1. reservations'[e2[j]] = reservations[e2[j]]
        BY <1>6, <1>8
    <2>2. CASE j < m
        <3>1. j \in 1..n /\ e2[j] = e[j] /\ p2[j] = p[j] /\ p2[j - 1] = p[j - 1]
            BY <1>3, <2>2
        <3> QED BY <1>4, <2>1, <3>1
    <2>3. CASE j > m
        <3>1. /\ j + 1 \in 1..n /\ j \in 0..n /\ j + 1 \in 0..n /\ (j + 1) - 1 = j
              /\ e2[j] = e[j + 1]
              /\ p2[j][k] = p[j + 1][k] - r[k] /\ p2[j - 1][k] = p[j][k] - r[k]
            BY <1>3, <2>3
        <3>2. p[j + 1][k] = p[j][k] + reservations[e[j + 1]][k]
            BY <1>4, <3>1
        <3>3. reservations[e[j + 1]][k] \in Nat
            BY <1>4, <3>1, EngineAssumption DEF Pool!Held, Pool!PoolTypeOK
        <3>4. p[j][k] \in Nat /\ r[k] \in Nat
            BY <1>2, <1>4, <3>1
        <3> HIDE DEF p2, e2
        <3> QED BY <2>1, <3>1, <3>2, <3>3, <3>4
    <2>4. CASE j = m
        <3>1. /\ m + 1 \in 1..n /\ m \in 0..n /\ m - 1 \in 0..n /\ (m + 1) - 1 = m
              /\ e2[j] = e[m + 1]
              /\ p2[j][k] = p[m + 1][k] - r[k] /\ p2[j - 1] = p[m - 1]
            BY <1>3, <2>4
        <3>2. p[m + 1][k] = p[m][k] + reservations[e[m + 1]][k]
            BY <1>4, <3>1
        <3>3. reservations[e[m + 1]][k] \in Nat
            BY <1>4, <3>1, EngineAssumption DEF Pool!Held, Pool!PoolTypeOK
        <3>4. p[m][k] = p[m - 1][k] + r[k]
            BY <1>3, <1>4
        <3>5. p[m - 1][k] \in Nat /\ r[k] \in Nat
            BY <1>2, <1>4, <3>1
        <3> HIDE DEF p2, e2
        <3> QED BY <2>1, <3>1, <3>2, <3>3, <3>4, <3>5
    <2> QED BY <1>3, <2>2, <2>3, <2>4
<1>10. ASSUME NEW j \in 0..(n - 1), NEW l \in 0..(n - 1), NEW k \in Keys, j <= l
       PROVE  p2[j][k] <= p2[l][k]
    <2>1. /\ j < m => p2[j][k] = p[j][k] /\ j \in 0..n /\ j <= m - 1
          /\ j >= m => p2[j][k] = p[j + 1][k] - r[k] /\ j + 1 \in m..n
          /\ l < m => p2[l][k] = p[l][k] /\ l \in 0..n
          /\ l >= m => p2[l][k] = p[l + 1][k] - r[k] /\ l + 1 \in m..n
          /\ m - 1 \in 0..n /\ m - 1 \in Int /\ m \in Nat /\ j \in Nat /\ l \in Nat
        BY <1>3
    <2>2. r[k] \in Nat
        BY <1>2
    <2> HIDE DEF p2
    <2>3. CASE l < m
        BY <1>4, <1>10, <2>1, <2>3
    <2>4. CASE j >= m
        <3>1. j + 1 \in 0..n /\ l + 1 \in 0..n /\ j + 1 <= l + 1 /\ l >= m
            BY <1>10, <2>1, <2>4
        <3>2. p[j + 1][k] <= p[l + 1][k] /\ p[j + 1][k] \in Nat /\ p[l + 1][k] \in Nat
            BY <1>4, <3>1
        <3> QED BY <2>1, <2>2, <2>4, <3>1, <3>2
    <2>5. CASE j < m /\ l >= m
        <3>1. p[j][k] <= p[m - 1][k] /\ p[j][k] \in Nat /\ p[m - 1][k] \in Nat
            BY <1>4, <2>1, <2>5
        <3>2. p[m - 1][k] <= p[l + 1][k] - r[k] /\ p[l + 1][k] - r[k] \in Nat
            BY <1>5, <2>1, <2>5
        <3> QED BY <2>1, <2>5, <3>1, <3>2
    <2> QED BY <2>1, <2>3, <2>4, <2>5
<1>11. PICK e3, p3 : e3 = e2 /\ p3 = p2
    OBVIOUS
<1> HIDE DEF e2, p2
<1>12. n - 1 \in Nat
    BY <1>3
<1>13. PartialSums(n - 1, e3, p3)'
    BY <1>6, <1>7, <1>9, <1>10, <1>11 DEF PartialSums
<1> QED BY <1>12, <1>13 DEF InUseAddsUp

LEMMA AddsUpStep == IndInv /\ InUseAddsUp /\ [Next]_vars => InUseAddsUp'
<1> SUFFICES ASSUME IndInv, InUseAddsUp, [Next]_vars PROVE InUseAddsUp'
    OBVIOUS
<1>1. CASE Submit \/ (/\ pc = "submit" /\ MaySubmit
                      /\ Pool!TryAcquire(iterIdx, Head(batch)))
    <2>1. iterIdx \in IterIds /\ Head(batch) \in Costs
        BY <1>1, WindowCount, HeadTailProperties, EngineAssumption
           DEF Submit, MaySubmit, IndInv, TypeOK, CountersAligned, LoopPhases, IterIds
    <2>2. Pool!TryAcquire(iterIdx, Head(batch))
        BY <1>1 DEF Submit
    <2> QED BY <2>1, <2>2, AcquireAddsUp DEF IndInv, TypeOK
<1>2. CASE DrainOne
    <2>1. PICK i \in IterIds : Pool!Release(i)
        BY <1>2 DEF DrainOne, Finished, IndInv, TypeOK
    <2> QED BY <2>1, ReleaseAddsUp DEF IndInv, TypeOK
<1>3. CASE Restart
    <2>1. Pool!Held' = {} /\ inUse' = [k \in Keys |-> 0]
        BY <1>3 DEF Restart, Pool!Held
    <2>2. PICK e3, p3 : e3 = <<>> /\ p3 = [j \in 0..0 |-> [k \in Keys |-> 0]]
        OBVIOUS
    <2>3. PartialSums(0, e3, p3)'
        BY <2>1, <2>2 DEF PartialSums
    <2> QED BY <2>3 DEF InUseAddsUp
<1>4. CASE UNCHANGED poolVars
    <2>0. PICK n \in Nat : \E e, p : PartialSums(n, e, p)
        BY DEF InUseAddsUp
    <2>1. PICK e, p : PartialSums(n, e, p)
        BY <2>0
    <2>2. Pool!Held' = Pool!Held /\ inUse' = inUse /\ reservations' = reservations
        BY <1>4 DEF poolVars, Pool!Held
    <2>3. PartialSums(n, e, p)'
        BY <2>1, <2>2 DEF PartialSums
    <2> QED BY <2>3 DEF InUseAddsUp
<1>5. UNCHANGED poolVars \/ Submit \/ DrainOne \/ Restart
      \/ (/\ pc = "submit" /\ MaySubmit /\ Pool!TryAcquire(iterIdx, Head(batch)))
    BY DEF Next, Loop, WorkerStep, BeginRound, ProposeBatch, EndSubmit, EndDrain, NothingReady,
           Commit, FlushReward, Record, CancelPending, SaveCheckpoint, Raise, RaiseInFinally,
           StartTrial, FinishTrial, SignalArrives, WallTimePasses, vars, poolVars
<1> QED BY <1>1, <1>2, <1>3, <1>4, <1>5

LEMMA AddsUpInit == Init => InUseAddsUp
<1> SUFFICES ASSUME Init PROVE InUseAddsUp
    OBVIOUS
<1>1. Pool!Held = {} /\ inUse = [k \in Keys |-> 0]
    BY DEF Init, Pool!PoolInit, Pool!Held
<1>2. PartialSums(0, <<>>, [j \in 0..0 |-> [k \in Keys |-> 0]])
    BY <1>1 DEF PartialSums
<1> QED BY <1>2 DEF InUseAddsUp

-----------------------------------------------------------------------------
(* The sum over a set, whatever the order it is taken in. *)

(* Every set of naturals has a least element: induction, without a         *)
(* theorem that takes a predicate as its parameter.                        *)
LEMMA LeastElement ==
    ASSUME NEW T \in SUBSET Nat, T # {}
    PROVE  \E m \in T : \A y \in T : m <= y
<1>1. PICK m \in T : \A y \in T : <<y, m>> \notin OpToRel(<, Nat)
    BY NatLessThanWellFounded, WFMin
<1>2. ASSUME NEW y \in T PROVE m <= y
    <2>1. y < m => <<y, m>> \in OpToRel(<, Nat)
        BY DEF OpToRel
    <2>2. y \in Nat /\ m \in Nat /\ ~(y < m)
        BY <1>1, <2>1
    <2> QED BY <2>2
<1> QED BY <1>2

(* The community modules' sum takes the members of a set one by one.       *)
Pick(s) == CHOOSE i \in s : TRUE
Adds(g, f, D) == g = [s \in D |-> IF s = {} THEN 0 ELSE f[Pick(s)] + g[s \ {Pick(s)}]]

LEMMA SumIsFold ==
    ASSUME NEW R, NEW f
    PROVE  SumFunctionOnSet(f, R) = (CHOOSE g : Adds(g, f, SUBSET R))[R]
BY DEF SumFunctionOnSet, FoldFunctionOnSet, MapThenFoldSet, Adds, Pick

Small(R, n) == {s \in SUBSET R : Cardinality(s) <= n}

LEMMA Shrinks ==
    ASSUME NEW R, IsFiniteSet(R), NEW s \in SUBSET R, NEW x \in s
    PROVE  /\ IsFiniteSet(s) /\ Cardinality(s) \in Nat \ {0}
           /\ s \ {x} \in SUBSET R /\ Cardinality(s \ {x}) = Cardinality(s) - 1
<1>1. IsFiniteSet(s)
    BY FS_Subset
<1>2. Cardinality(s) \in Nat
    BY <1>1, FS_CardinalityType
<1>3. Cardinality(s) # 0
    BY <1>1, FS_EmptySet
<1> QED BY <1>1, <1>2, <1>3, FS_RemoveElement

LEMMA PickIn == ASSUME NEW s, s # {} PROVE Pick(s) \in s
BY DEF Pick

LEMMA AddsExists ==
    ASSUME NEW R, IsFiniteSet(R), NEW f
    PROVE  \E g : Adds(g, f, SUBSET R)
<1> DEFINE Without == {n \in Nat : ~\E g : Adds(g, f, Small(R, n))}
<1>1. Without = {}
    <2> SUFFICES ASSUME Without # {} PROVE FALSE
        OBVIOUS
    <2>1. PICK m \in Without : \A n \in Without : m <= n
        <3> HIDE DEF Without
        <3>1. Without \in SUBSET Nat
            BY DEF Without
        <3> QED BY <3>1, LeastElement
    <2>2. CASE m = 0
        <3>1. Small(R, 0) = {{}}
            <4>1. \A s \in SUBSET R : Cardinality(s) <= 0 => s = {}
                <5> SUFFICES ASSUME NEW s \in SUBSET R, NEW x \in s PROVE ~(Cardinality(s) <= 0)
                    OBVIOUS
                <5>1. Cardinality(s) \in Nat \ {0}
                    BY Shrinks
                <5> QED BY <5>1
            <4> QED BY <4>1, FS_EmptySet DEF Small
        <3> DEFINE z == [s \in {{}} |-> 0]
        <3>2. z = [s \in {{}} |-> IF s = {} THEN 0 ELSE f[Pick(s)] + z[s \ {Pick(s)}]]
            OBVIOUS
        <3> HIDE DEF z
        <3>3. Adds(z, f, {{}})
            BY <3>2 DEF Adds
        <3>4. ~\E g : Adds(g, f, Small(R, 0))
            BY <2>1, <2>2
        <3> QED BY <3>1, <3>3, <3>4
    <2>3. CASE m # 0
        <3>1. m \in Nat /\ m - 1 \in Nat /\ m - 1 \notin Without
            BY <2>1, <2>3
        <3>2. PICK g : Adds(g, f, Small(R, m - 1))
            BY <3>1
        <3> DEFINE h == [s \in Small(R, m) |->
                            IF s = {} THEN 0 ELSE f[Pick(s)] + g[s \ {Pick(s)}]]
        <3>3. ASSUME NEW s \in Small(R, m - 1) PROVE s \in Small(R, m) /\ h[s] = g[s]
            <4>1. s \in Small(R, m)
                <5>1. IsFiniteSet(s)
                    BY <3>3, FS_Subset DEF Small
                <5>2. Cardinality(s) \in Nat
                    BY <5>1, FS_CardinalityType
                <5> QED BY <3>1, <5>2 DEF Small
            <4>2. g[s] = IF s = {} THEN 0 ELSE f[Pick(s)] + g[s \ {Pick(s)}]
                BY <3>2 DEF Adds
            <4> QED BY <4>1, <4>2
        <3>4. ASSUME NEW s \in Small(R, m), s # {}
              PROVE  g[s \ {Pick(s)}] = h[s \ {Pick(s)}]
            <4>1. s \in SUBSET R /\ Pick(s) \in s /\ Cardinality(s) <= m
                BY <3>4, PickIn DEF Small
            <4>2. /\ s \ {Pick(s)} \in SUBSET R /\ Cardinality(s) \in Nat
                  /\ Cardinality(s \ {Pick(s)}) = Cardinality(s) - 1
                BY <4>1, Shrinks
            <4>3. s \ {Pick(s)} \in Small(R, m - 1)
                BY <3>1, <4>1, <4>2 DEF Small
            <4> QED BY <3>3, <4>3
        <3>5. Adds(h, f, Small(R, m))
            <4>1. \A s \in Small(R, m) :
                     h[s] = IF s = {} THEN 0 ELSE f[Pick(s)] + h[s \ {Pick(s)}]
                BY <3>4
            <4> HIDE DEF h
            <4>2. h = [s \in Small(R, m) |-> h[s]]
                BY DEF h
            <4> QED BY <4>1, <4>2 DEF Adds
        <3> QED BY <2>1, <3>5
    <2> QED BY <2>2, <2>3
<1>2. Cardinality(R) \in Nat /\ \A s \in SUBSET R : Cardinality(s) <= Cardinality(R)
    BY FS_CardinalityType, FS_Subset
<1>3. Small(R, Cardinality(R)) = SUBSET R
    BY <1>2 DEF Small
<1>4. \E g : Adds(g, f, Small(R, Cardinality(R)))
    BY <1>1, <1>2
<1> QED BY <1>3, <1>4

(* So the sum obeys its recursion, for all subsets of a finite set.        *)
Part(f, R, s) == (CHOOSE g : Adds(g, f, SUBSET R))[s]

LEMMA PartAdds ==
    ASSUME NEW R, IsFiniteSet(R), NEW f, NEW s \in SUBSET R
    PROVE  Part(f, R, s) = IF s = {} THEN 0 ELSE f[Pick(s)] + Part(f, R, s \ {Pick(s)})
<1> DEFINE g == CHOOSE h : Adds(h, f, SUBSET R)
<1>1. Adds(g, f, SUBSET R)
    BY AddsExists
<1>2. g[s] = IF s = {} THEN 0 ELSE f[Pick(s)] + g[s \ {Pick(s)}]
    <2> HIDE DEF g
    <2> QED BY <1>1 DEF Adds
<1> QED BY <1>2 DEF Part

LEMMA PartIsNat ==
    ASSUME NEW R, IsFiniteSet(R), NEW f \in [R -> Nat]
    PROVE  \A s \in SUBSET R : Part(f, R, s) \in Nat
<1> DEFINE Odd == {s \in SUBSET R : Part(f, R, s) \notin Nat}
           Sizes == {Cardinality(s) : s \in Odd}
<1> SUFFICES ASSUME Odd # {} PROVE FALSE
    OBVIOUS
<1>1. \A s \in Odd : Cardinality(s) \in Nat
    BY FS_Subset, FS_CardinalityType
<1>2. PICK m \in Sizes : \A n \in Sizes : m <= n
    <2>1. Sizes \in SUBSET Nat /\ Sizes # {}
        BY <1>1
    <2> HIDE DEF Sizes
    <2> QED BY <2>1, LeastElement
<1>3. PICK s \in Odd : m = Cardinality(s)
    OBVIOUS
<1>4. s # {}
    <2>1. Part(f, R, {}) = 0
        BY PartAdds
    <2> QED BY <2>1
<1>5. Pick(s) \in s /\ Pick(s) \in R
    BY <1>4, PickIn
<1>6. /\ s \ {Pick(s)} \in SUBSET R /\ Cardinality(s) \in Nat \ {0}
      /\ Cardinality(s \ {Pick(s)}) = Cardinality(s) - 1
    BY <1>5, Shrinks
<1>7. s \ {Pick(s)} \notin Odd
    <2> SUFFICES ASSUME s \ {Pick(s)} \in Odd PROVE FALSE
        OBVIOUS
    <2>1. m <= Cardinality(s \ {Pick(s)})
        BY <1>2
    <2> QED BY <1>3, <1>6, <2>1
<1>8. Part(f, R, s \ {Pick(s)}) \in Nat /\ f[Pick(s)] \in Nat
    BY <1>5, <1>6, <1>7
<1>9. Part(f, R, s) = f[Pick(s)] + Part(f, R, s \ {Pick(s)})
    BY <1>4, PartAdds
<1> QED BY <1>8, <1>9

(* In whatever order it takes them.                                        *)
LEMMA AnyOrder ==
    ASSUME NEW R, IsFiniteSet(R), NEW f \in [R -> Nat]
    PROVE  \A s \in SUBSET R : \A x \in s : Part(f, R, s) = f[x] + Part(f, R, s \ {x})
<1> DEFINE Odd == {s \in SUBSET R : \E x \in s : Part(f, R, s) # f[x] + Part(f, R, s \ {x})}
           Sizes == {Cardinality(s) : s \in Odd}
<1> SUFFICES ASSUME Odd # {} PROVE FALSE
    OBVIOUS
<1>1. \A s \in Odd : Cardinality(s) \in Nat
    BY FS_Subset, FS_CardinalityType
<1>2. PICK m \in Sizes : \A n \in Sizes : m <= n
    <2>1. Sizes \in SUBSET Nat /\ Sizes # {}
        BY <1>1
    <2> HIDE DEF Sizes
    <2> QED BY <2>1, LeastElement
<1>3. PICK s \in Odd : m = Cardinality(s)
    OBVIOUS
<1>4. PICK x \in s : Part(f, R, s) # f[x] + Part(f, R, s \ {x})
    OBVIOUS
<1> DEFINE y == Pick(s)
<1>5. y \in s /\ s \in SUBSET R
    BY <1>4, PickIn
<1> HIDE DEF y, Odd, Sizes
<1>6. Part(f, R, s) = f[y] + Part(f, R, s \ {y})
    BY <1>5, PartAdds DEF y
<1>7. x # y
    BY <1>4, <1>6
<1>8. /\ \A z \in s : s \ {z} \in SUBSET R /\ Cardinality(s \ {z}) = Cardinality(s) - 1
      /\ Cardinality(s) \in Nat \ {0}
    BY <1>4, <1>5, Shrinks
<1>9. \A z \in s : s \ {z} \notin Odd
    <2> SUFFICES ASSUME NEW z \in s, s \ {z} \in Odd PROVE FALSE
        OBVIOUS
    <2>1. m <= Cardinality(s \ {z})
        BY <1>2 DEF Sizes
    <2>2. Cardinality(s \ {z}) = m - 1 /\ m \in Nat
        BY <1>3, <1>8
    <2> QED BY <2>1, <2>2
<1>10. Part(f, R, s \ {y}) = f[x] + Part(f, R, (s \ {y}) \ {x})
    <2>1. x \in s \ {y} /\ s \ {y} \in SUBSET R
        BY <1>5, <1>7, <1>8
    <2> QED BY <1>5, <1>9, <2>1 DEF Odd
<1>11. Part(f, R, s \ {x}) = f[y] + Part(f, R, (s \ {x}) \ {y})
    <2>1. y \in s \ {x} /\ s \ {x} \in SUBSET R
        BY <1>5, <1>7, <1>8
    <2> QED BY <1>9, <2>1 DEF Odd
<1>12. (s \ {y}) \ {x} = (s \ {x}) \ {y}
    OBVIOUS
<1>13. f[x] \in Nat /\ f[y] \in Nat /\ Part(f, R, (s \ {x}) \ {y}) \in Nat
    <2>1. (s \ {x}) \ {y} \in SUBSET R
        BY <1>5
    <2> QED BY <1>5, <2>1, PartIsNat
<1>14. Part(f, R, s) = f[x] + Part(f, R, s \ {x})
    <2> DEFINE c == Part(f, R, (s \ {x}) \ {y})
    <2>1. Part(f, R, s \ {y}) = f[x] + c /\ Part(f, R, s \ {x}) = f[y] + c
        BY <1>10, <1>11, <1>12
    <2>2. f[x] \in Nat /\ f[y] \in Nat /\ c \in Nat
        BY <1>13
    <2> HIDE DEF c
    <2>3. f[y] + (f[x] + c) = f[x] + (f[y] + c)
        BY <2>2
    <2> QED BY <1>6, <2>1, <2>3
<1> QED BY <1>4, <1>14


(* The sum over any of the members of a list is at most the last of the    *)
(* list's partial sums.                                                    *)
LEMMA SumFitsList ==
    ASSUME NEW R, IsFiniteSet(R), NEW f \in [R -> Nat],
           NEW n \in Nat, NEW e, NEW p,
           \A i \in R : \E j \in 1..n : e[j] = i,
           \A j \in 0..n : p[j] \in Nat,
           \A j \in 1..n : p[j - 1] <= p[j] /\ (e[j] \in R => p[j] = p[j - 1] + f[e[j]])
    PROVE  SumFunctionOnSet(f, R) <= p[n]
<1> DEFINE Lists(s, j) == \A i \in s : \E l \in 1..j : e[l] = i
           Odd == {j \in 0..n : \E s \in SUBSET R : Lists(s, j) /\ ~(Part(f, R, s) <= p[j])}
<1>1. Odd = {}
    <2> SUFFICES ASSUME Odd # {} PROVE FALSE
        OBVIOUS
    <2>1. PICK m \in Odd : \A j \in Odd : m <= j
        <3>1. Odd \in SUBSET Nat
            OBVIOUS
        <3> HIDE DEF Odd
        <3> QED BY <3>1, LeastElement
    <2>2. PICK s \in SUBSET R : Lists(s, m) /\ ~(Part(f, R, s) <= p[m])
        OBVIOUS
    <2>3. m \in 0..n /\ p[m] \in Nat
        OBVIOUS
    <2> HIDE DEF Odd
    <2>4. m # 0
        <3> SUFFICES ASSUME m = 0 PROVE FALSE
            OBVIOUS
        <3>1. s = {}
            BY <2>2
        <3>2. Part(f, R, {}) = 0
            BY PartAdds
        <3> QED BY <2>2, <2>3, <3>1, <3>2
    <2>5. m - 1 \in 0..n /\ m \in 1..n /\ m - 1 \notin Odd /\ p[m - 1] \in Nat
        BY <2>1, <2>3, <2>4
    <2>6. CASE e[m] \in s
        <3>1. Lists(s \ {e[m]}, m - 1)
            <4> SUFFICES ASSUME NEW i \in s \ {e[m]} PROVE \E l \in 1..(m - 1) : e[l] = i
                OBVIOUS
            <4>1. PICK l \in 1..m : e[l] = i
                BY <2>2
            <4> QED BY <2>3, <4>1
        <3>2. Part(f, R, s \ {e[m]}) <= p[m - 1]
            BY <2>5, <3>1 DEF Odd
        <3>3. Part(f, R, s) = f[e[m]] + Part(f, R, s \ {e[m]})
            BY <2>6, AnyOrder
        <3>4. p[m] = p[m - 1] + f[e[m]] /\ f[e[m]] \in Nat
            BY <2>5, <2>6
        <3>5. Part(f, R, s \ {e[m]}) \in Nat
            BY PartIsNat
        <3> QED BY <2>2, <2>5, <3>2, <3>3, <3>4, <3>5
    <2>7. CASE e[m] \notin s
        <3>1. Lists(s, m - 1)
            <4> SUFFICES ASSUME NEW i \in s PROVE \E l \in 1..(m - 1) : e[l] = i
                OBVIOUS
            <4>1. PICK l \in 1..m : e[l] = i
                BY <2>2
            <4> QED BY <2>3, <2>7, <4>1
        <3>2. Part(f, R, s) <= p[m - 1]
            BY <2>5, <3>1 DEF Odd
        <3>3. Part(f, R, s) \in Nat /\ p[m - 1] <= p[m]
            BY <2>5, PartIsNat
        <3> QED BY <2>2, <2>3, <2>5, <3>2, <3>3
    <2> QED BY <2>6, <2>7
<1>2. n \notin Odd /\ n \in 0..n
    BY <1>1
<1>3. Part(f, R, R) <= p[n]
    BY <1>2
<1> QED BY <1>3, SumIsFold DEF Part

-----------------------------------------------------------------------------
(* Admission: what runs was admitted, and never more than fits. *)

Admitted ==
    /\ \A i \in IterIds : worker[i] \in {"queued", "running"} => reservations[i] # None
    /\ Pool!NeverOversubscribed

LEMMA AdmittedStep == IndInv /\ Admitted /\ [Next]_vars => Admitted'
<1> SUFFICES ASSUME IndInv, Admitted, [Next]_vars PROVE Admitted'
    OBVIOUS
<1> USE DEF Admitted, Pool!NeverOversubscribed
<1>a. /\ worker \in [IterIds -> Workers] /\ batch \in Seq(Costs)
      /\ inUse \in [Keys -> Nat] /\ reservations \in [IterIds -> Costs \cup {None}]
      /\ Capacity \in [Keys -> Nat] /\ Costs \subseteq [Keys -> Nat] /\ None \notin Costs
    BY EngineAssumption DEF IndInv, TypeOK, Pool!PoolTypeOK
<1>1. ASSUME pc = "submit", MaySubmit, Pool!TryAcquire(iterIdx, Head(batch))
      PROVE  /\ Pool!NeverOversubscribed'
             /\ iterIdx \in IterIds
             /\ reservations' = [reservations EXCEPT ![iterIdx] = Head(batch)]
             /\ Head(batch) # None
    <2>1. iterIdx \in IterIds /\ Head(batch) \in Costs
        BY <1>1, <1>a, WindowCount, HeadTailProperties, EngineAssumption
           DEF MaySubmit, IndInv, TypeOK, CountersAligned, LoopPhases, IterIds
    <2>2. \A k \in Keys : Capacity[k] - inUse[k] >= Head(batch)[k]
        BY <1>1 DEF Pool!TryAcquire, Pool!Fits, Pool!Available
    <2>3. \A k \in Keys : inUse'[k] = inUse[k] + Head(batch)[k]
        BY <1>1 DEF Pool!TryAcquire
    <2>4. \A k \in Keys : Head(batch)[k] \in Nat /\ inUse[k] \in Nat /\ Capacity[k] \in Nat
        BY <1>a, <2>1
    <2> QED BY <1>1, <1>a, <2>1, <2>2, <2>3, <2>4 DEF Pool!TryAcquire
<1>2. CASE Submit
    BY <1>1, <1>2, <1>a DEF Submit
<1>3. CASE DrainOne
    <2>1. PICK i \in IterIds : i \in inFlight /\ worker[i] = "done" /\ Pool!Release(i)
        BY <1>3 DEF DrainOne, Finished, IndInv, TypeOK
    <2>2. /\ reservations' = [reservations EXCEPT ![i] = None] /\ worker' = worker
          /\ reservations[i] \in [Keys -> Nat]
          /\ inUse' = [k \in Keys |-> Pool!AtLeastZero(inUse[k] - reservations[i][k])]
        BY <1>3, <1>a, <2>1 DEF DrainOne, Pool!Release, workVars
    <2>3. \A k \in Keys : inUse'[k] <= Capacity[k]
        BY <1>a, <2>2 DEF Pool!AtLeastZero
    <2> QED BY <1>a, <2>1, <2>2, <2>3
<1>4. CASE Raise
    <2>1. CASE UNCHANGED poolVars
        BY <1>4, <2>1 DEF Raise, poolVars, workVars
    <2>2. CASE pc = "submit" /\ MaySubmit /\ Pool!TryAcquire(iterIdx, Head(batch))
        BY <1>1, <1>4, <1>a, <2>2 DEF Raise, workVars
    <2> QED BY <1>4, <2>1, <2>2 DEF Raise, poolVars
<1>5. CASE BeginRound \/ ProposeBatch \/ EndSubmit \/ EndDrain \/ NothingReady \/ Commit
           \/ FlushReward \/ Record \/ SaveCheckpoint \/ RaiseInFinally
    BY <1>5 DEF BeginRound, ProposeBatch, EndSubmit, EndDrain, NothingReady, Commit,
       FlushReward, Record, SaveCheckpoint, RaiseInFinally, poolVars, workVars
<1>6. CASE CancelPending
    BY <1>6 DEF CancelPending, poolVars
<1>7. ASSUME NEW i \in IterIds, WorkerStep(i) PROVE Admitted'
    BY <1>7, <1>a DEF WorkerStep, StartTrial, FinishTrial, poolVars
<1>8. CASE SignalArrives \/ WallTimePasses \/ UNCHANGED vars
    BY <1>8 DEF SignalArrives, WallTimePasses, vars, poolVars, workVars
<1>9. CASE Restart
    BY <1>9, <1>a DEF Restart
<1> QED BY <1>2, <1>3, <1>4, <1>5, <1>6, <1>7, <1>8, <1>9 DEF Next, Loop

LEMMA RunningFits ==
    ASSUME IndInv, Admitted, InUseAddsUp
    PROVE  RunningWithinCapacity
<1>1. RunningAdmitted /\ Running \subseteq Pool!Held
    BY DEF Admitted, RunningAdmitted, Running, Pool!Held
<1>2. /\ inUse \in [Keys -> Nat] /\ Capacity \in [Keys -> Nat]
      /\ \A i \in Pool!Held : reservations[i] \in [Keys -> Nat]
    BY EngineAssumption DEF IndInv, TypeOK, Pool!PoolTypeOK, Pool!Held
<1>3. IsFiniteSet(Running)
    <2>1. IsFiniteSet(IterIds)
        BY FS_Interval, EngineAssumption DEF IterIds
    <2> QED BY <2>1, FS_Subset DEF Running
<1>4a. PICK n \in Nat : \E e, p : PartialSums(n, e, p)
    BY DEF InUseAddsUp
<1>4. PICK e, p : PartialSums(n, e, p)
    BY <1>4a
<1>5. ASSUME NEW k \in Keys
      PROVE  SumFunctionOnSet([i \in Running |-> reservations[i][k]], Running) <= Capacity[k]
    <2> DEFINE f == [i \in Running |-> reservations[i][k]]
               q == [j \in 0..n |-> p[j][k]]
    <2>1. f \in [Running -> Nat]
        BY <1>1, <1>2
    <2>2. \A i \in Running : \E j \in 1..n : e[j] = i
        BY <1>1, <1>4 DEF PartialSums
    <2>3. \A j \in 0..n : q[j] \in Nat
        BY <1>4 DEF PartialSums
    <2>4. ASSUME NEW j \in 1..n
          PROVE  q[j - 1] <= q[j] /\ (e[j] \in Running => q[j] = q[j - 1] + f[e[j]])
        <3>1. j - 1 \in 0..n /\ j \in 0..n /\ j - 1 <= j
            OBVIOUS
        <3>2. p[j - 1][k] <= p[j][k] /\ p[j][k] = p[j - 1][k] + reservations[e[j]][k]
            BY <1>4, <3>1 DEF PartialSums
        <3> QED BY <3>1, <3>2
    <2>5. q[n] = inUse[k]
        BY <1>4 DEF PartialSums
    <2> HIDE DEF f, q
    <2>6. SumFunctionOnSet(f, Running) <= q[n]
        BY <1>3, <2>1, <2>2, <2>3, <2>4, SumFitsList
    <2>7. inUse[k] <= Capacity[k] /\ inUse[k] \in Nat /\ Capacity[k] \in Nat
        BY <1>2 DEF Admitted, Pool!NeverOversubscribed
    <2>8. SumFunctionOnSet(f, Running) <= Capacity[k]
        <3>1. SumFunctionOnSet(f, Running) \in Nat
            <4>1. Running \in SUBSET Running
                OBVIOUS
            <4> QED BY <1>3, <2>1, <4>1, PartIsNat, SumIsFold DEF Part
        <3> QED BY <2>5, <2>6, <2>7, <3>1
    <2> QED BY <2>8 DEF f
<1> QED BY <1>1, <1>5 DEF RunningWithinCapacity

(* Every running trial holds its reservation and the costs of all that run *)
(* fit the resources together, across stops, exceptions and restarts.      *)
THEOREM AdmissionHolds == Spec => []RunningWithinCapacity
<1>1. Init => Admitted
    <2> SUFFICES ASSUME Init PROVE Admitted
        OBVIOUS
    <2>1. (\A i \in IterIds : worker[i] = "none") /\ inUse = [k \in Keys |-> 0]
        BY DEF Init, Pool!PoolInit
    <2> QED BY <2>1, EngineAssumption DEF Admitted, Pool!NeverOversubscribed
<1>2. IndInv /\ Admitted /\ InUseAddsUp => RunningWithinCapacity
    BY RunningFits
<1> QED BY <1>1, <1>2, AddsUpInit, AddsUpStep, AdmittedStep, IndInit, IndStep, PTL DEF Spec

-----------------------------------------------------------------------------
(* Why a search ends. *)

TooBig == \E c \in Costs : ~Pool!FitsEmptyPool(c)

(* The loop finds nothing under way only when it was to stop, or when the  *)
(* proposal it could not place does not fit the empty pool.                *)
IdleForAReason ==
    /\ pc = "propose" => SlotsOpen > 0
    /\ pc = "submit" /\ inFlight = {} /\ completed = {} => batch # <<>>
    /\ pc \in {"drain", "process"} /\ inFlight = {} /\ completed = {} =>
          StopRequested \/ TooBig
    /\ pc \in {"finally", "join", "stopped"} => StopRequested \/ TooBig

LEMMA IdleStep ==
    ASSUME Faults = {}, IndInv, InUseAddsUp, IdleForAReason, [Next]_vars
    PROVE  IdleForAReason'
<1> USE DEF IdleForAReason
<1>a. /\ ~StopRequested => iterationsDone < MaxIterations
      /\ iterationsDone \in Nat /\ MaxIterations \in Nat /\ MaxConcurrency \in Nat \ {0}
    BY EngineAssumption DEF IndInv, TypeOK, StopRequested
<1>b. TooBig' = TooBig
    BY DEF TooBig, Pool!FitsEmptyPool
<1>c. ASSUME UNCHANGED <<iterationsDone, streak, recent>>, shutdown => shutdown',
             wallExpired => wallExpired'
      PROVE  StopRequested => StopRequested'
    BY <1>c DEF StopRequested, NoImprove, FailureRateHit
<1>1. CASE BeginRound
    <2>1. ASSUME inFlight = {}, completed = {}, ~StopRequested PROVE SlotsOpen > 0
        <3>1. Cardinality(inFlight) = 0 /\ Cardinality(completed) = 0
            BY <2>1, FS_EmptySet
        <3> QED BY <1>a, <2>1, <3>1 DEF SlotsOpen, Outstanding, Least
    <2>2. UNCHANGED <<loopVars, signalVars>>
        BY <1>1 DEF BeginRound
    <2>3. SlotsOpen' = SlotsOpen /\ (StopRequested => StopRequested')
        BY <1>c, <2>2 DEF SlotsOpen, Outstanding, Least, loopVars, signalVars
    <2> QED BY <1>1, <2>1, <2>2, <2>3 DEF BeginRound, loopVars
<1>2. CASE ProposeBatch
    <2> DEFINE n == SlotsOpen
    <2>1. n \in Nat /\ n > 0 /\ batch' \in [1..n -> Costs]
        BY <1>2, SlotsTyped DEF ProposeBatch
    <2> HIDE DEF n
    <2>2. batch' # <<>>
        BY <2>1
    <2> QED BY <1>2, <2>2 DEF ProposeBatch
<1>3. CASE Submit
    BY <1>3 DEF Submit
<1>4. CASE EndSubmit
    <2>1. ASSUME inFlight = {}, completed = {}, ~StopRequested PROVE TooBig
        <3>1. Cardinality(inFlight) = 0 /\ Cardinality(completed) = 0
            BY <2>1, FS_EmptySet
        <3>2. pc = "submit" /\ MaySubmit
            BY <1>4, <1>a, <2>1, <3>1 DEF EndSubmit, MaySubmit, Outstanding
        <3>3. Head(batch) \in Costs /\ ~Pool!Fits(Head(batch))
            BY <1>4, <3>2, HeadTailProperties
               DEF EndSubmit, MaySubmit, Pool!TryAcquireFails, IndInv, TypeOK
        <3>4. \A k \in Keys : inUse[k] = 0
            BY <2>1, <3>2, EmptyPool
               DEF IndInv, SlotsAccountedFor, NoLeakedReservation, LoopPhases
        <3>5. \A k \in Keys : Capacity[k] \in Nat
            BY EngineAssumption
        <3>6. ~Pool!FitsEmptyPool(Head(batch))
            BY <3>3, <3>4, <3>5 DEF Pool!Fits, Pool!FitsEmptyPool, Pool!Available
        <3> QED BY <3>3, <3>6 DEF TooBig
    <2>2. UNCHANGED <<inFlight, completed, iterationsDone, streak, recent, signalVars>>
        BY <1>4 DEF EndSubmit
    <2>3. StopRequested => StopRequested'
        BY <1>c, <2>2 DEF signalVars
    <2> QED BY <1>4, <1>b, <2>1, <2>2, <2>3 DEF EndSubmit
<1>5. CASE DrainOne
    BY <1>5 DEF DrainOne
<1>6. CASE EndDrain \/ NothingReady \/ CancelPending
    <2>1. UNCHANGED <<loopVars, signalVars>>
        BY <1>6 DEF EndDrain, NothingReady, CancelPending
    <2>2. StopRequested => StopRequested'
        BY <1>c, <2>1 DEF loopVars, signalVars
    <2> QED BY <1>6, <1>b, <2>1, <2>2 DEF EndDrain, NothingReady, CancelPending, loopVars
<1>7. CASE Commit \/ FlushReward \/ Record
    BY <1>7 DEF Commit, FlushReward, Record
<1>8. CASE SaveCheckpoint
    <2>1. StopRequested => StopRequested'
        BY <1>c, <1>8 DEF SaveCheckpoint, signalVars
    <2> QED BY <1>8, <1>b, <2>1 DEF SaveCheckpoint
<1>9. ~Raise /\ ~RaiseInFinally
    BY DEF Raise, RaiseInFinally
<1>10. CASE (\E i \in IterIds : WorkerStep(i)) \/ SignalArrives \/ WallTimePasses
            \/ UNCHANGED vars
    <2>1. /\ UNCHANGED <<pc, loopVars>>
          /\ (shutdown => shutdown') /\ (wallExpired => wallExpired')
        BY <1>10 DEF WorkerStep, StartTrial, FinishTrial, SignalArrives, WallTimePasses,
           vars, signalVars
    <2>2. SlotsOpen' = SlotsOpen /\ (StopRequested => StopRequested')
        BY <1>c, <2>1 DEF SlotsOpen, Outstanding, Least, loopVars
    <2> QED BY <1>b, <2>1, <2>2 DEF loopVars
<1>11. CASE Restart
    BY <1>11 DEF Restart
<1> QED BY <1>1, <1>2, <1>3, <1>4, <1>5, <1>6, <1>7, <1>8, <1>9, <1>10, <1>11
        DEF Next, Loop

(* A search no exception interrupts ends for a stop condition or a trial   *)
(* no empty pool could place, with every trial it submitted committed.     *)
THEOREM SearchStopsCleanly ==
    ASSUME Faults = {}
    PROVE  Spec => []StopsCleanly
<1>1. Init => LeavesNothingBehind /\ IdleForAReason
    BY DEF Init, LeavesNothingBehind, IdleForAReason
<1>2. IndInv /\ LeavesNothingBehind /\ [Next]_vars => LeavesNothingBehind'
    BY LeavesNothingStep
<1>3. IndInv /\ InUseAddsUp /\ IdleForAReason /\ [Next]_vars => IdleForAReason'
    BY IdleStep
<1>4. LeavesNothingBehind /\ IdleForAReason => StopsCleanly
    BY DEF LeavesNothingBehind, IdleForAReason, StopsCleanly, TooBig
<1> QED BY <1>1, <1>2, <1>3, <1>4, AddsUpInit, AddsUpStep, IndInit, IndStep, PTL DEF Spec

=============================================================================
