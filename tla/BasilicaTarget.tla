---------------------------- MODULE BasilicaTarget ----------------------------
(***************************************************************************)
(* target/basilica.py under TargetExecutor: a train deployment, then an    *)
(* eval deployment if the train one came out ok and there is an eval_cmd.  *)
(* Three actors share a trial: the controller thread, which deploys, polls *)
(* and deletes; the container, in which the bootstrap script serves HTTP   *)
(* next to the trial; and the IntraIterationGuard, which may write         *)
(* run_dir/control.json at any time.  The cloud and the trial are external *)
(* and may do what the adapter allows for: fail to answer, never get       *)
(* ready, die, or be restarted with an empty file system (ADR-015).        *)
(*                                                                         *)
(* pc names the controller's next call.  waited counts sleeps, those of    *)
(* wait_ready and those of the polls, against timeout_s.                   *)
(***************************************************************************)
EXTENDS Naturals

CONSTANTS None,
          ReadyTimeout,   \* sleeps in min(timeout_s, ready_timeout_s)
          Timeout,        \* sleeps in timeout_s
          Settings        \* how the target is used and what may befall it

SettingSet ==
    [evalCmd : BOOLEAN,   \* target.eval_cmd is set
     failures : Nat,      \* bound: calls that fail though they need not
     restarts : Nat,      \* bound: containers restarted by the platform
     oddLogs : BOOLEAN]   \* a log line may be JSON and yet no object: "42"

ASSUME TargetAssumption ==
    /\ None \notin {"ok", "failed", "metrics"}
    /\ ReadyTimeout \in Nat /\ Timeout \in Nat /\ ReadyTimeout <= Timeout
    /\ Settings \subseteq SettingSet

VARIABLES setting,              \* chosen once and for all
          pc, phase, waited,
          seen,                 \* what ended the polling: outcome.json's status,
                                \* or "metrics" found in the logs
          result,               \* RunOutcome.status
          model,                \* the model directory was downloaded
          pushed,               \* run_dir is in _last_control_pushed
          cancel,               \* run_dir/control.json asks for a cancel
          cloud,                \* the deployment
          trial, outcome,       \* the user's command; outcome.json's status
          printed, odd,         \* what the last 500 lines of its logs hold
          control,              \* the container's control file
          failures, restarts,
          due,                  \* history: the outcome.json that was in the
                                \* container when the last poll began, and any
                                \* that has replaced it since
          excused               \* history: a delete failed, or the handle of
                                \* the deployment was never obtained

container == <<trial, outcome, printed, odd, control>>
world == <<cloud, container, cancel, restarts>>
controller == <<phase, waited, seen, result, model, pushed>>
rest == <<setting, failures, due, excused>>
vars == <<pc, controller, world, rest>>

Alive == {"booting", "ready", "failed"}

FreshContainer ==
    /\ trial' = "training" /\ outcome' = None /\ control' = FALSE

Init ==
    /\ setting \in Settings
    /\ pc = "create" /\ phase = "train" /\ waited = 0
    /\ seen = None /\ result = None /\ model = FALSE
    /\ pushed = FALSE /\ cancel = FALSE
    /\ cloud = "none" /\ trial = "training" /\ outcome = None
    /\ printed = FALSE /\ odd = FALSE /\ control = FALSE
    /\ failures = 0 /\ restarts = 0
    /\ due = {} /\ excused = FALSE

(* A call to the cloud or to the container fails, within the bound.        *)
Fails ==
    /\ failures < setting.failures
    /\ failures' = failures + 1

(* The bootstrap's HTTP server answers. *)
Reachable == cloud = "ready"

-----------------------------------------------------------------------------
(* _deploy_and_collect, _wait_and_collect *)

Create ==
    /\ pc = "create"
    /\ waited' = 0 /\ seen' = None /\ model' = FALSE /\ due' = {}
    /\ \/ /\ pc' = "ready"
          /\ cloud' = "booting" /\ FreshContainer
          /\ printed' = FALSE /\ odd' = FALSE
          /\ excused' = FALSE
          /\ UNCHANGED <<result, failures>>
       \/ /\ Fails
          /\ pc' = "end" /\ result' = "failed"
          \* refused, or created and the response not understood
          /\ \/ cloud' = "none" /\ excused' = FALSE
             \/ cloud' = "booting" /\ excused' = TRUE
          /\ FreshContainer /\ printed' = FALSE /\ odd' = FALSE
    /\ UNCHANGED <<setting, phase, pushed, cancel, restarts>>

(* One round of the wait for is_ready. *)
AwaitReady ==
    /\ pc = "ready" /\ waited < ReadyTimeout
    /\ \/ cloud = "ready" /\ pc' = "poll" /\ UNCHANGED <<waited, failures>>
       \/ cloud = "failed" /\ pc' = "collect" /\ UNCHANGED <<waited, failures>>
       \/ cloud = "booting" /\ waited' = waited + 1 /\ UNCHANGED <<pc, failures>>
       \/ Fails /\ pc' = "abort" /\ UNCHANGED waited
    /\ UNCHANGED <<phase, seen, result, model, pushed, world, setting, due, excused>>

NeverReady ==
    /\ pc = "ready" /\ waited = ReadyTimeout
    /\ pc' = "collect"
    /\ UNCHANGED <<controller, world, rest>>

-----------------------------------------------------------------------------
(* _poll_for_metrics *)

(* Mutant of Poll: the time spent asleep is not counted. *)
PollUncounted ==
    /\ pc = "poll"
    /\ pc' = IF waited < Timeout THEN "control" ELSE "lastChance"
    /\ due' = IF Reachable THEN {outcome} \ {None} ELSE {}
    /\ UNCHANGED <<phase, waited, seen, result, model, pushed, world, setting, failures,
                   excused>>

(* Sleep, or give up. *)
Poll ==
    /\ pc = "poll"
    /\ IF waited < Timeout
       THEN pc' = "control" /\ waited' = waited + 1
       ELSE pc' = "lastChance" /\ UNCHANGED waited
    /\ due' = IF Reachable THEN {outcome} \ {None} ELSE {}
    /\ UNCHANGED <<phase, seen, result, model, pushed, world, setting, failures, excused>>

(* Mutant of PropagateControl: a failed upload is remembered as done. *)
PropagateOptimistically ==
    /\ pc = "control" /\ pc' = "outcome"
    /\ pushed' = (pushed \/ cancel)
    /\ \/ /\ UNCHANGED failures
          /\ control' = (control \/ (cancel /\ ~pushed /\ Reachable))
       \/ /\ cancel /\ ~pushed /\ Fails
          /\ control' \in {control, control \/ Reachable}
    /\ UNCHANGED <<phase, waited, seen, result, model, cloud, trial, outcome, printed,
                   odd, cancel, restarts, setting, due, excused>>

(* A control file that was pushed once is not pushed again.  A POST may be *)
(* applied and its answer be lost.                                         *)
PropagateControl ==
    /\ pc = "control" /\ pc' = "outcome"
    /\ \/ /\ cancel /\ ~pushed /\ Reachable
          /\ control' = TRUE /\ pushed' = TRUE
          /\ UNCHANGED failures
       \/ /\ ~cancel \/ pushed \/ ~Reachable
          /\ UNCHANGED <<control, pushed, failures>>
       \/ /\ cancel /\ ~pushed /\ Fails
          /\ control' \in {control, control \/ Reachable}
          /\ UNCHANGED pushed
    /\ UNCHANGED <<phase, waited, seen, result, model, cloud, trial, outcome, printed,
                   odd, cancel, restarts, setting, due, excused>>

(* _fetch_outcome, on every poll and once more after the last.             *)
FetchOutcome ==
    /\ pc \in {"outcome", "lastChance"}
    /\ \/ /\ Reachable /\ outcome # None
          /\ seen' = outcome
          /\ pc' = "download"
          /\ UNCHANGED <<failures, due>>
       \/ /\ UNCHANGED seen
          /\ pc' = IF pc = "outcome" THEN "logs" ELSE "collect"
          /\ \/ (~Reachable \/ outcome = None) /\ UNCHANGED <<failures, due>>
             \/ Reachable /\ outcome # None /\ Fails /\ due' = {}
    /\ UNCHANGED <<phase, waited, result, model, pushed, world, setting, excused>>

(* _safe_logs, _extract_messages, _parse_metrics. *)
ReadLogs ==
    /\ pc = "logs"
    /\ \/ /\ pc' = IF odd THEN "abort" ELSE IF printed THEN "download" ELSE "status"
          /\ seen' = IF printed /\ ~odd THEN "metrics" ELSE seen
          /\ UNCHANGED failures
       \/ Fails /\ pc' = "status" /\ UNCHANGED seen
    /\ UNCHANGED <<phase, waited, result, model, pushed, world, setting, due, excused>>

(* An error of status() is swallowed, as is one of the collection.         *)
CheckStatus ==
    /\ pc = "status"
    /\ \/ pc' = (IF cloud = "failed" THEN "collectDead" ELSE "poll") /\ UNCHANGED failures
       \/ Fails /\ pc' = "poll"
    /\ UNCHANGED <<controller, world, setting, due, excused>>

-----------------------------------------------------------------------------
(* _download_model, _cleanup, and the three ways to a result *)

(* Whether there are files to download: outcome.json is one.               *)
Downloaded ==
    IF ~Reachable THEN {FALSE} ELSE IF outcome # None THEN {TRUE} ELSE BOOLEAN

Download ==
    /\ pc = "download" /\ pc' = "cleanup"
    /\ \/ model' \in Downloaded /\ UNCHANGED failures
       \/ Fails /\ UNCHANGED model
    /\ UNCHANGED <<phase, waited, seen, result, pushed, world, setting, due, excused>>

(* _cleanup: its failure is only logged. *)
Delete ==
    /\ \/ cloud' = "deleted" /\ UNCHANGED <<failures, excused>>
       \/ Fails /\ excused' = TRUE /\ UNCHANGED cloud
    /\ UNCHANGED <<container, cancel, restarts>>

Cleanup ==
    /\ pc = "cleanup"
    /\ Delete
    /\ IF seen = "metrics"
       THEN pc' = "end" /\ result' = "ok"
       ELSE pc' = "closingLogs" /\ UNCHANGED result
    /\ UNCHANGED <<phase, waited, seen, model, pushed, setting, due>>

(* Mutant of CloseWithOutcome: metrics count, whatever the status. *)
CloseAsOk ==
    /\ pc = "closingLogs"
    /\ \/ pc' = "end" /\ result' = "ok"
       \/ odd /\ pc' = "abort" /\ UNCHANGED result
    /\ UNCHANGED <<phase, waited, seen, model, pushed, world, rest>>

(* _finalize_outcome reads the logs of the deployment it has just deleted: *)
(* there may still be some.                                                *)
CloseWithOutcome ==
    /\ pc = "closingLogs"
    /\ \/ pc' = "end" /\ result' = seen
       \/ odd /\ pc' = "abort" /\ UNCHANGED result
    /\ UNCHANGED <<phase, waited, seen, model, pushed, world, rest>>

(* Mutant of Collect: the deployment is left to its ttl. *)
CollectOnly ==
    /\ pc \in {"collect", "collectDead"} /\ ~odd
    /\ pc' = "end"
    /\ result' = IF printed THEN "ok" ELSE "failed"
    /\ UNCHANGED <<phase, waited, seen, model, pushed, world, rest>>

(* _collect_from_logs: no outcome.json, no model. *)
Collect ==
    /\ pc \in {"collect", "collectDead"} /\ ~odd
    /\ pc' = "end"
    /\ Delete
    /\ result' \in {IF printed THEN "ok" ELSE "failed", "failed"}
    /\ UNCHANGED <<phase, waited, seen, model, pushed, setting, due>>

CollectRaises ==
    /\ pc \in {"collect", "collectDead"} /\ odd
    /\ pc' = IF pc = "collect" THEN "abort" ELSE "poll"
    /\ UNCHANGED <<controller, world, rest>>

(* _wait_and_collect's except clause. *)
Abort ==
    /\ pc = "abort"
    /\ pc' = "end"
    /\ Delete
    /\ result' = "failed"
    /\ UNCHANGED <<phase, waited, seen, model, pushed, setting, due>>

(* eval: without an eval_cmd it returns what run has cached for run_dir.   *)
NextPhase ==
    /\ pc = "end"
    /\ IF phase = "train" /\ result = "ok" /\ setting.evalCmd
       THEN pc' = "create" /\ phase' = "eval"
       ELSE pc' = "returned" /\ UNCHANGED phase
    /\ UNCHANGED <<waited, seen, result, model, pushed, world, rest>>

-----------------------------------------------------------------------------
(* The guard, the container and the platform. *)

GuardCancels ==
    /\ pc # "returned" /\ ~cancel
    /\ cancel' = TRUE
    /\ UNCHANGED <<pc, controller, cloud, container, restarts, rest>>

Start ==
    /\ cloud = "booting"
    /\ cloud' = "ready"
    /\ UNCHANGED <<pc, controller, container, cancel, restarts, rest>>

(* The trial prints, which also drops old lines from the part of the log   *)
(* that is read, writes its outcome.json, or ends: by itself, or because   *)
(* its report found a cancel.  A SIGTERM that comes after its outcome was  *)
(* written has its handler write another, a failure.                       *)
TrialStep ==
    /\ cloud = "ready" /\ trial = "training"
    /\ \/ printed' \in BOOLEAN /\ UNCHANGED <<trial, outcome, odd, due>>
       \/ odd' \in {FALSE, setting.oddLogs} /\ UNCHANGED <<trial, outcome, printed, due>>
       \/ /\ outcome = None /\ outcome' \in {"ok", "failed"}
          /\ UNCHANGED <<trial, printed, odd, due>>
       \/ /\ outcome = "ok" /\ outcome' = "failed"
          /\ due' = IF due = {} THEN {} ELSE due \cup {"failed"}
          /\ UNCHANGED <<trial, printed, odd>>
       \/ trial' = "exited" /\ UNCHANGED <<outcome, printed, odd, due>>
    /\ UNCHANGED <<pc, controller, cloud, control, cancel, restarts, setting, failures,
                   excused>>

PodDies ==
    /\ cloud \in {"booting", "ready"}
    /\ cloud' = "failed"
    /\ due' = {}
    /\ UNCHANGED <<pc, controller, container, cancel, restarts, setting, failures, excused>>

(* The command runs again from the start; the logs may go on. *)
PodRestarts ==
    /\ cloud = "ready" /\ restarts < setting.restarts
    /\ restarts' = restarts + 1
    /\ cloud' = "booting" /\ FreshContainer
    /\ printed' \in {FALSE, printed} /\ odd' \in {FALSE, odd}
    /\ due' = {}
    /\ UNCHANGED <<pc, controller, cancel, setting, failures, excused>>

-----------------------------------------------------------------------------

Controller ==
    \/ Create \/ AwaitReady \/ NeverReady \/ Poll \/ PropagateControl \/ FetchOutcome
    \/ ReadLogs \/ CheckStatus \/ Download \/ Cleanup \/ CloseWithOutcome
    \/ Collect \/ CollectRaises \/ Abort \/ NextPhase

Environment == GuardCancels \/ Start \/ TrialStep \/ PodDies \/ PodRestarts

Next == Controller \/ Environment

Spec == Init /\ [][Next]_vars

(* The controller keeps running: each of its calls has a timeout.          *)
FairSpec == Spec /\ WF_vars(Controller)

-----------------------------------------------------------------------------
(* Properties. *)

Points ==
    {"create", "ready", "poll", "control", "outcome", "lastChance", "logs", "status",
     "download", "cleanup", "closingLogs", "collect", "collectDead", "abort", "end",
     "returned"}

TypeOK ==
    /\ setting \in Settings
    /\ pc \in Points
    /\ phase \in {"train", "eval"}
    /\ waited \in 0..Timeout
    /\ seen \in {None, "ok", "failed", "metrics"}
    /\ pc \in {"download", "cleanup"} => seen # None
    /\ pc = "closingLogs" => seen \in {"ok", "failed"}
    /\ result \in {None, "ok", "failed"}
    /\ model \in BOOLEAN /\ pushed \in BOOLEAN /\ cancel \in BOOLEAN
    /\ cloud \in Alive \cup {"none", "deleted"}
    /\ trial \in {"training", "exited"}
    /\ outcome \in {None, "ok", "failed"}
    /\ printed \in BOOLEAN /\ odd \in BOOLEAN /\ control \in BOOLEAN
    /\ failures \in 0..setting.failures
    /\ restarts \in 0..setting.restarts
    /\ due \subseteq {"ok", "failed"}
    /\ excused \in BOOLEAN

(* However a deployment ends - result, timeout, death, error - it is       *)
(* deleted before the method returns, unless the delete fails or the       *)
(* create call's answer could not be read: a gpu left behind costs until   *)
(* its ttl.                                                                *)
NothingLeftBehind == pc = "end" /\ cloud \in Alive => excused

(* _finalize_outcome: "Status from the payload is honoured".  If the trial *)
(* had written its outcome.json when the last poll began, and the          *)
(* container lived to be asked, that is the result, or one it was then     *)
(* replaced by: the logs do not overrule it, and the end of the time does  *)
(* not overlook it.                                                        *)
OutcomeHonoured == pc = "end" /\ due # {} => result \in due

(* It is, as long as every log line that is JSON is an object.             *)
OutcomeHonouredInPlainLogs == ~setting.oddLogs => OutcomeHonoured

(* _propagate_control: a cancel is pushed "so emit_progress() inside the   *)
(* trial sees the cancel signal on its next call".  Once it counts as      *)
(* pushed, the running container has it.                                   *)
PushedCancelIsThere == pushed /\ cloud = "ready" => control

(* It has, in the first container of the train deployment.                 *)
PushedCancelStays == (phase = "train" /\ restarts = 0) => PushedCancelIsThere

(* The executor gets an answer, whatever the cloud does. *)
Returns == <>(pc = "returned")

=============================================================================
