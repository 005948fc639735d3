---------------------------- MODULE BasilicaProofs ----------------------------
(* Theorems about BasilicaTarget, for any timeouts and any set of settings. *)
EXTENDS BasilicaTarget, TLAPS

LEMMA BoundsTyped ==
    ASSUME setting \in Settings
    PROVE  /\ setting.failures \in Nat /\ setting.restarts \in Nat
           /\ setting.oddLogs \in BOOLEAN /\ setting.evalCmd \in BOOLEAN
BY TargetAssumption DEF TargetAssumption, SettingSet

-----------------------------------------------------------------------------
(* Types. *)

LEMMA TimesTyped ==
    /\ ReadyTimeout \in Nat /\ Timeout \in Nat /\ ReadyTimeout <= Timeout
    /\ None \notin {"ok", "failed", "metrics"}
BY TargetAssumption DEF TargetAssumption

(* The two halves of TypeOK need different provers. *)
FlagsTyped ==
    /\ model \in BOOLEAN /\ pushed \in BOOLEAN /\ cancel \in BOOLEAN
    /\ printed \in BOOLEAN /\ odd \in BOOLEAN /\ control \in BOOLEAN
    /\ excused \in BOOLEAN

FieldsTyped ==
    /\ setting \in Settings
    /\ pc \in Points
    /\ phase \in {"train", "eval"}
    /\ waited \in 0..Timeout
    /\ seen \in {None, "ok", "failed", "metrics"}
    /\ pc \in {"download", "cleanup"} => seen # None
    /\ pc = "closingLogs" => seen \in {"ok", "failed"}
    /\ result \in {None, "ok", "failed"}
    /\ cloud \in Alive \cup {"none", "deleted"}
    /\ trial \in {"training", "exited"}
    /\ outcome \in {None, "ok", "failed"}
    /\ failures \in 0..setting.failures
    /\ restarts \in 0..setting.restarts
    /\ due \subseteq {"ok", "failed"}

LEMMA TypeHalves == TypeOK <=> FlagsTyped /\ FieldsTyped
BY DEF TypeOK, FlagsTyped, FieldsTyped

LEMMA PollOwes ==
    ASSUME outcome \in {None, "ok", "failed"}, Poll
    PROVE  /\ due' \subseteq {"ok", "failed"}
           /\ due' # {} => cloud = "ready" /\ outcome \in due'
BY DEF Poll, Reachable

(* The cases of TrialStep in short. *)
LEMMA TrialStepMeans ==
    ASSUME TrialStep
    PROVE  /\ UNCHANGED <<pc, controller, cloud, control, cancel, restarts, setting,
                          failures, excused>>
           /\ printed' \in {printed, TRUE, FALSE}
           /\ odd' \in {odd, FALSE, setting.oddLogs}
           /\ trial' \in {trial, "exited"}
           /\ \/ outcome' = outcome /\ due' = due
              \/ outcome = None /\ outcome' \in {"ok", "failed"} /\ due' = due
              \/ /\ outcome = "ok" /\ outcome' = "failed"
                 /\ due' = IF due = {} THEN {} ELSE due \cup {"failed"}
BY DEF TrialStep

LEMMA InitTyped == Init => TypeOK
<1>1. Init => FlagsTyped
    BY DEF Init, FlagsTyped
<1>2. Init => FieldsTyped
    BY BoundsTyped, TimesTyped DEF Init, FieldsTyped, Points, Alive
<1> QED
    BY <1>1, <1>2, TypeHalves

LEMMA StepKeepsFlags == TypeOK /\ [Next]_vars => FlagsTyped'
<1> SUFFICES ASSUME TypeOK, [Next]_vars PROVE FlagsTyped'
    OBVIOUS
<1> USE DEF TypeOK, FlagsTyped, world, container, controller, rest
<1>1. CASE Create
    BY <1>1 DEF Create, FreshContainer
<1>2. CASE AwaitReady
    BY <1>2 DEF AwaitReady
<1>3. CASE NeverReady
    BY <1>3 DEF NeverReady
<1>4. CASE Poll
    BY <1>4 DEF Poll
<1>5. CASE PropagateControl
    BY <1>5 DEF PropagateControl
<1>6. CASE FetchOutcome
    BY <1>6 DEF FetchOutcome
<1>7. CASE ReadLogs
    BY <1>7 DEF ReadLogs
<1>8. CASE CheckStatus
    BY <1>8 DEF CheckStatus
<1>9. CASE Download
    BY <1>9 DEF Download, Downloaded
<1>10. CASE Cleanup
    BY <1>10 DEF Cleanup, Delete
<1>11. CASE CloseWithOutcome
    BY <1>11 DEF CloseWithOutcome
<1>12. CASE Collect
    BY <1>12 DEF Collect, Delete
<1>13. CASE CollectRaises
    BY <1>13 DEF CollectRaises
<1>14. CASE Abort
    BY <1>14 DEF Abort, Delete
<1>15. CASE NextPhase
    BY <1>15 DEF NextPhase
<1>16. CASE GuardCancels
    BY <1>16 DEF GuardCancels
<1>17. CASE Start
    BY <1>17 DEF Start
<1>18. CASE TrialStep
    <2>1. /\ printed' \in {printed, TRUE, FALSE}
          /\ odd' \in {odd, FALSE, setting.oddLogs}
          /\ UNCHANGED <<model, pushed, cancel, control, excused>>
        BY <1>18, TrialStepMeans
    <2> QED BY <2>1, BoundsTyped, Zenon
<1>19. CASE PodDies
    BY <1>19 DEF PodDies
<1>20. CASE PodRestarts
    BY <1>20 DEF PodRestarts, FreshContainer
<1>21. CASE UNCHANGED vars
    BY <1>21 DEF vars
<1> QED
    BY <1>1, <1>2, <1>3, <1>4, <1>5, <1>6, <1>7, <1>8, <1>9, <1>10, <1>11, <1>12,
       <1>13, <1>14, <1>15, <1>16, <1>17, <1>18, <1>19, <1>20, <1>21
       DEF Next, Controller, Environment

LEMMA StepKeepsFields == TypeOK /\ [Next]_vars => FieldsTyped'
<1> SUFFICES ASSUME TypeOK, [Next]_vars PROVE FieldsTyped'
    OBVIOUS
<1> USE BoundsTyped, TimesTyped DEF TypeOK, FieldsTyped, Points, Alive, Fails,
        world, container, controller, rest
<1>1. CASE Create
    BY <1>1 DEF Create, FreshContainer
<1>2. CASE AwaitReady
    BY <1>2 DEF AwaitReady
<1>3. CASE NeverReady
    BY <1>3 DEF NeverReady
<1>4. CASE Poll
    BY <1>4 DEF Poll
<1>5. CASE PropagateControl
    BY <1>5 DEF PropagateControl
<1>6. CASE FetchOutcome
    <2>1. /\ due' \in {due, {}} /\ failures' \in 0..setting.failures
          /\ pc' \in {"download", "logs", "collect"}
          /\ \/ seen' = seen /\ pc' # "download"
             \/ seen' = outcome /\ outcome # None
        BY <1>6 DEF FetchOutcome
    <2>2. UNCHANGED <<phase, waited, result, cloud, trial, outcome, restarts, setting>>
        BY <1>6 DEF FetchOutcome
    <2> QED BY <2>1, <2>2
<1>7. CASE ReadLogs
    BY <1>7 DEF ReadLogs
<1>8. CASE CheckStatus
    BY <1>8 DEF CheckStatus
<1>9. CASE Download
  <2>1. UNCHANGED <<setting, phase, waited, seen, result, cloud, trial, outcome,
                    restarts, due>>
    BY <1>9 DEF Download
  <2>2. pc' = "cleanup" /\ pc = "download"
    BY <1>9 DEF Download
  <2>3. failures' \in 0..setting.failures
    BY <1>9 DEF Download
  <2> QED
    BY <2>1, <2>2, <2>3
<1>10. CASE Cleanup
    BY <1>10 DEF Cleanup, Delete
<1>11. CASE CloseWithOutcome
    BY <1>11 DEF CloseWithOutcome
<1>12. CASE Collect
    BY <1>12 DEF Collect, Delete
<1>13. CASE CollectRaises
    BY <1>13 DEF CollectRaises
<1>14. CASE Abort
    BY <1>14 DEF Abort, Delete
<1>15. CASE NextPhase
    BY <1>15 DEF NextPhase
<1>16. CASE GuardCancels
    BY <1>16 DEF GuardCancels
<1>17. CASE Start
    BY <1>17 DEF Start
<1>18. CASE TrialStep
    <2>1. due' \subseteq {"ok", "failed"} /\ outcome' \in {None, "ok", "failed"}
        BY <1>18, TrialStepMeans
    <2>2. /\ UNCHANGED <<pc, phase, waited, seen, result, cloud, restarts, setting, failures>>
          /\ trial' \in {trial, "exited"}
        BY <1>18, TrialStepMeans
    <2> QED BY <2>1, <2>2
<1>19. CASE PodDies
    BY <1>19 DEF PodDies
<1>20. CASE PodRestarts
    BY <1>20 DEF PodRestarts, FreshContainer
<1>21. CASE UNCHANGED vars
    BY <1>21 DEF vars
<1> QED
    BY <1>1, <1>2, <1>3, <1>4, <1>5, <1>6, <1>7, <1>8, <1>9, <1>10, <1>11, <1>12,
       <1>13, <1>14, <1>15, <1>16, <1>17, <1>18, <1>19, <1>20, <1>21
       DEF Next, Controller, Environment

LEMMA StepTyped == TypeOK /\ [Next]_vars => TypeOK'
BY StepKeepsFlags, StepKeepsFields DEF TypeOK, FlagsTyped, FieldsTyped

(* TypeOK holds of every deployment, whatever fails. *)
THEOREM TypeCorrect == Spec => []TypeOK
<1>1. Init => TypeOK
    BY InitTyped
<1>2. TypeOK /\ [Next]_vars => TypeOK'
    BY StepTyped
<1> QED
    BY <1>1, <1>2, PTL DEF Spec

-----------------------------------------------------------------------------
(* Every way out deletes. *)

(* The deployment is gone, or its survival excused, from the first delete  *)
(* to the end of the method.                                               *)
Relinquished == pc \in {"closingLogs", "end"} /\ cloud \in Alive => excused

LEMMA StepRelinquished ==
    TypeOK /\ Relinquished /\ [Next]_vars => Relinquished'
<1> SUFFICES ASSUME TypeOK, Relinquished, [Next]_vars PROVE Relinquished'
    OBVIOUS
<1> USE DEF TypeOK, Relinquished, Alive, world, container, controller, rest
<1>1. CASE Create
    BY <1>1 DEF Create
<1>2. CASE AwaitReady \/ NeverReady \/ Poll \/ PropagateControl
    BY <1>2 DEF AwaitReady, NeverReady, Poll, PropagateControl
<1>3. CASE FetchOutcome \/ ReadLogs \/ CheckStatus \/ Download
    BY <1>3 DEF FetchOutcome, ReadLogs, CheckStatus, Download
<1>4. CASE Cleanup \/ Collect \/ Abort
    BY <1>4 DEF Cleanup, Collect, Abort, Delete
<1>5. CASE CloseWithOutcome
    BY <1>5 DEF CloseWithOutcome
<1>6. CASE CollectRaises \/ NextPhase
    BY <1>6 DEF CollectRaises, NextPhase
<1>7. CASE Environment
    BY <1>7 DEF Environment, GuardCancels, Start, TrialStep, PodDies, PodRestarts
<1>8. CASE UNCHANGED vars
    BY <1>8 DEF vars
<1> QED
    BY <1>1, <1>2, <1>3, <1>4, <1>5, <1>6, <1>7, <1>8 DEF Next, Controller

(* No deployment outlives the method that made it, on any of its returns,  *)
(* unless its delete failed or its handle was never obtained.              *)
THEOREM DeploymentsDeleted == Spec => []NothingLeftBehind
<1>1. Init => Relinquished
    BY DEF Init, Relinquished
<1>2. TypeOK /\ Relinquished /\ [Next]_vars => Relinquished'
    BY StepRelinquished
<1>3. Relinquished => NothingLeftBehind
    BY DEF Relinquished, NothingLeftBehind
<1> QED
    BY <1>1, <1>2, <1>3, TypeCorrect, PTL DEF Spec

-----------------------------------------------------------------------------
(* A pushed cancel, while nothing restarts. *)

(* Nothing is pushed before the first container is there to take it, and   *)
(* that container keeps it.                                                *)
CancelKept ==
    phase = "train" /\ restarts = 0 =>
        /\ pc \in {"create", "ready"} => ~pushed
        /\ pushed /\ cloud \in {"booting", "ready"} => control

LEMMA StepCancelKept ==
    TypeOK /\ CancelKept /\ [Next]_vars => CancelKept'
<1> SUFFICES ASSUME TypeOK, CancelKept, [Next]_vars PROVE CancelKept'
    OBVIOUS
<1> USE DEF TypeOK, CancelKept, Alive, world, container, controller, rest
<1>1. CASE Create
    BY <1>1 DEF Create
<1>2. CASE AwaitReady \/ NeverReady \/ Poll
    BY <1>2 DEF AwaitReady, NeverReady, Poll
<1>3. CASE PropagateControl
    BY <1>3 DEF PropagateControl, Reachable
<1>4. CASE FetchOutcome \/ ReadLogs \/ CheckStatus \/ Download
    BY <1>4 DEF FetchOutcome, ReadLogs, CheckStatus, Download
<1>5. CASE Cleanup \/ Collect \/ Abort
    BY <1>5 DEF Cleanup, Collect, Abort, Delete
<1>6. CASE CloseWithOutcome \/ CollectRaises \/ NextPhase
    BY <1>6 DEF CloseWithOutcome, CollectRaises, NextPhase
<1>7. CASE GuardCancels \/ Start \/ TrialStep \/ PodDies
    BY <1>7 DEF GuardCancels, Start, TrialStep, PodDies
<1>8. CASE PodRestarts
    BY <1>8 DEF PodRestarts
<1>9. CASE UNCHANGED vars
    BY <1>9 DEF vars
<1> QED
    BY <1>1, <1>2, <1>3, <1>4, <1>5, <1>6, <1>7, <1>8, <1>9
       DEF Next, Controller, Environment

(* What the adapter remembers as pushed is in the container, until it is   *)
(* restarted or replaced by the eval deployment.                           *)
THEOREM CancelStays == Spec => []PushedCancelStays
<1>1. Init => CancelKept
    BY DEF Init, CancelKept
<1>2. TypeOK /\ CancelKept /\ [Next]_vars => CancelKept'
    BY StepCancelKept
<1>3. CancelKept => PushedCancelStays
    BY DEF CancelKept, PushedCancelStays, PushedCancelIsThere
<1> QED
    BY <1>1, <1>2, <1>3, TypeCorrect, PTL DEF Spec

-----------------------------------------------------------------------------
(* The trial's outcome is the result. *)

(* Where the outcome of the last poll is, step by step: still in the       *)
(* container, then fetched, then the result.  On the other paths there     *)
(* was none.                                                               *)
OutcomeTracked ==
    ~setting.oddLogs =>
        /\ ~odd
        /\ due # {} =>
            /\ pc \in {"control", "outcome", "lastChance", "download", "cleanup",
                       "closingLogs", "end", "create", "returned"}
            /\ pc \in {"control", "outcome", "lastChance"} => cloud = "ready" /\ outcome \in due
            /\ pc \in {"download", "cleanup", "closingLogs"} => seen \in due
            /\ pc = "end" => result \in due

LEMMA StepOutcomeTracked ==
    TypeOK /\ OutcomeTracked /\ [Next]_vars => OutcomeTracked'
<1> SUFFICES ASSUME TypeOK, OutcomeTracked, [Next]_vars, ~setting.oddLogs
             PROVE OutcomeTracked'
    BY DEF OutcomeTracked, Next, Controller, Environment, Create, AwaitReady, NeverReady,
           Poll, PropagateControl, FetchOutcome, ReadLogs, CheckStatus, Download,
           Cleanup, CloseWithOutcome, Collect, CollectRaises, Abort, NextPhase,
           GuardCancels, Start, TrialStep, PodDies, PodRestarts, Delete, rest, vars
<1> USE DEF TypeOK, OutcomeTracked, Points, world, container, controller, rest
<1>1. CASE Create
    BY <1>1 DEF Create
<1>2. CASE AwaitReady \/ NeverReady
    BY <1>2 DEF AwaitReady, NeverReady
<1>3. CASE Poll
    BY <1>3 DEF Poll, Reachable
<1>4. CASE PropagateControl
    BY <1>4 DEF PropagateControl
<1>5. CASE FetchOutcome
    <2>1. /\ pc \in {"outcome", "lastChance"} /\ due' \in {due, {}}
          /\ \/ pc' = "download" /\ seen' = outcome
             \/ due' = {}
             \/ ~Reachable \/ outcome = None
          /\ UNCHANGED <<result, cloud, outcome, odd>>
        BY <1>5 DEF FetchOutcome
    <2>2. due # {} => Reachable /\ outcome \in due /\ outcome # None
        BY <2>1, TimesTyped DEF Reachable
    <2> QED BY <2>1, <2>2
<1>6. CASE ReadLogs \/ CheckStatus
    BY <1>6 DEF ReadLogs, CheckStatus
<1>7. CASE Download
    BY <1>7 DEF Download
<1>8. CASE Cleanup
    BY <1>8 DEF Cleanup, Delete
<1>9. CASE CloseWithOutcome
    BY <1>9 DEF CloseWithOutcome
<1>10. CASE Collect \/ Abort
    BY <1>10 DEF Collect, Abort, Delete
<1>11. CASE CollectRaises \/ NextPhase
    BY <1>11 DEF CollectRaises, NextPhase
<1>12. CASE GuardCancels \/ Start
    BY <1>12 DEF GuardCancels, Start
<1>13. CASE TrialStep
    <2>1. /\ UNCHANGED <<pc, seen, result, cloud>>
          /\ odd' \in {odd, FALSE, setting.oddLogs} /\ ~setting.oddLogs
        BY <1>13, TrialStepMeans
    <2>2. ~odd'
        BY <2>1
    <2>3. CASE outcome' = outcome /\ due' = due
        BY <2>1, <2>2, <2>3
    <2>4. CASE outcome = None /\ outcome' \in {"ok", "failed"} /\ due' = due
        BY <2>1, <2>2, <2>4, TimesTyped
    <2>5. CASE /\ outcome' = "failed"
               /\ due' = IF due = {} THEN {} ELSE due \cup {"failed"}
        BY <2>1, <2>2, <2>5
    <2> QED BY <1>13, <2>3, <2>4, <2>5, TrialStepMeans
<1>14. CASE PodDies \/ PodRestarts
    BY <1>14 DEF PodDies, PodRestarts
<1>15. CASE UNCHANGED vars
    BY <1>15 DEF vars
<1> QED
    BY <1>1, <1>2, <1>3, <1>4, <1>5, <1>6, <1>7, <1>8, <1>9, <1>10, <1>11, <1>12,
       <1>13, <1>14, <1>15 DEF Next, Controller, Environment

(* An outcome.json that was there when the last poll began, in a container *)
(* that lived to be asked, is the result the target reports.               *)
THEOREM OutcomeReported == Spec => []OutcomeHonouredInPlainLogs
<1>1. Init => OutcomeTracked
    BY DEF Init, OutcomeTracked
<1>2. TypeOK /\ OutcomeTracked /\ [Next]_vars => OutcomeTracked'
    BY StepOutcomeTracked
<1>3. OutcomeTracked => OutcomeHonouredInPlainLogs
    BY DEF OutcomeTracked, OutcomeHonouredInPlainLogs, OutcomeHonoured
<1> QED
    BY <1>1, <1>2, <1>3, TypeCorrect, PTL DEF Spec

=============================================================================
