------------------------------ MODULE TrialScript ------------------------------
(***************************************************************************)
(* The two training scripts the repository ships,                          *)
(* examples/ijepa-cifar10/train.py and examples/trace-jepa/train.py, each  *)
(* run in a container that target/basilica.py polls.  They talk through    *)
(* two channels: outcome.json (ADR-015), written to a temporary file that  *)
(* is then renamed, and the log, in which key=value pairs count.           *)
(*                                                                         *)
(* SIGTERM runs _on_sigterm between two instructions of the main thread,   *)
(* _write_outcome and the handler itself included: it then calls           *)
(* _write_outcome while calls of it are under way, on the same temporary   *)
(* file.  A file written and not yet closed is flushed when the handler's  *)
(* SystemExit unwinds the interrupted call: after the handler's rename,    *)
(* and into the renamed file.                                              *)
(***************************************************************************)
EXTENDS Naturals, Sequences

CONSTANTS None, Torn,
          Scripts,         \* a subset of {"ijepa", "trace"}
          MaxSteps,        \* MAX_STEPS
          ProbeEvery,      \* PROBE_EVAL_EVERY_N_STEPS
          Scores,          \* what the linear probe may return
          MaxPolls,        \* the polls in timeout_s
          MaxFaults        \* bound: exceptions raised and signals delivered

Phases == {"imports", "canary", "emit", "gate", "train", "probe", "print", "opening",
           "filling", "closing", "renaming", "leaving", "unwinding", "exited"}

ASSUME ScriptAssumption ==
    /\ None \notin Nat \cup Phases /\ Torn # None
    /\ {None, Torn} \cap [status : {"ok", "failed", "completed"}, score : Nat \cup {None}] = {}
    /\ None \notin [status : {"ok", "failed"}, score : Nat \cup {None},
                     by : {"outcome", "log", "timeout"}]
    /\ Scripts \subseteq {"ijepa", "trace"}
    /\ MaxSteps \in Nat \ {0} /\ ProbeEvery \in Nat \ {0}
    /\ Scores \subseteq Nat
    /\ MaxPolls \in Nat /\ MaxFaults \in Nat

VARIABLES script,
          pc, step, canary,
          best,            \* best_probe_auroc
          payload,         \* what _write_outcome is writing
          code,            \* how the script leaves; "sigterm" in the handler
          interrupted,     \* where SIGTERMs found the script
          unflushed,       \* what the files hold that SIGTERMs found unclosed
          tmp, outcome,    \* outcome.json.tmp and outcome.json
          printed,         \* the log holds a metric the adapter knows
          cancel,          \* the container's control file asks for a cancel
          polls, report,   \* the adapter
          faults,
          probes,          \* history: what the probes returned
          unwritten        \* history: a call of _write_outcome met an OSError

fileVars == <<tmp, outcome, unwritten>>
mainVars == <<step, canary, best, probes>>
trapVars == <<interrupted, unflushed>>
adapter == <<polls, report>>
vars == <<script, pc, mainVars, payload, code, trapVars, fileVars, printed, cancel,
          adapter, faults>>

Init ==
    /\ script \in Scripts
    /\ pc = "imports" /\ step = 0 /\ canary = None /\ best = 0
    /\ payload = None /\ code = None /\ interrupted = {} /\ unflushed = {}
    /\ tmp = None /\ outcome = None /\ unwritten = FALSE
    /\ printed = FALSE /\ cancel = FALSE
    /\ polls = 0 /\ report = None
    /\ faults = 0 /\ probes = <<>>

Fault == faults < MaxFaults /\ faults' = faults + 1

LastProbe == IF probes = <<>> THEN None ELSE probes[Len(probes)]

(* The objective among the metrics of a failed outcome: trace-jepa passes  *)
(* its last_metrics along, ijepa-cifar10 none.                             *)
FailedPayload ==
    [status |-> "failed", score |-> IF script = "trace" THEN LastProbe ELSE None]

(* main calls _write_outcome, and leaves with this code. *)
Leave(how, what) ==
    /\ pc' = "opening" /\ payload' = what /\ code' = how

Exit(how) == pc' = "exited" /\ code' = how /\ UNCHANGED payload

-----------------------------------------------------------------------------
(* main *)

IjepaLoads ==
    /\ script = "ijepa"
    /\ \/ pc' = "canary" /\ UNCHANGED <<payload, code, faults>>
       \/ Fault /\ Leave("import", FailedPayload)

TraceLoads ==
    /\ script = "trace"
    /\ \/ pc' = "canary" /\ UNCHANGED <<payload, code, faults>>
       \/ Fault /\ (Leave("import", FailedPayload) \/ Leave("noData", FailedPayload))

(* The imports, then the data; trace-jepa looks for its manifest first.    *)
Prepare ==
    /\ pc = "imports" /\ (IjepaLoads \/ TraceLoads)
    /\ UNCHANGED <<script, mainVars, trapVars, fileVars, printed, cancel, adapter>>

(* The least loss of the overfitting run: below the threshold, above it,   *)
(* or nan.                                                                 *)
CanaryLosses == {"low", "high", "nan"}

RunCanary ==
    /\ pc = "canary" /\ pc' = "emit"
    /\ canary' \in CanaryLosses
    /\ UNCHANGED <<script, step, best, probes, payload, code, trapVars, fileVars,
                   printed, cancel, adapter, faults>>

(* emit_progress leaves with CANCEL_EXIT_CODE when it finds a cancel.      *)
EmitProgress ==
    /\ pc = "emit"
    /\ IF cancel THEN Exit("cancel")
       ELSE /\ pc' = IF step = 0 THEN "gate" ELSE "print"
            /\ UNCHANGED <<payload, code>>
    /\ UNCHANGED <<script, mainVars, trapVars, fileVars, printed, cancel, adapter, faults>>

(* canary_loss > CANARY_LOSS_THRESHOLD, which nan is not. *)
GateCloses == canary = "high"

CanaryGate ==
    /\ pc = "gate"
    /\ IF GateCloses THEN Leave("canary", FailedPayload)
       ELSE pc' = "train" /\ UNCHANGED <<payload, code>>
    /\ UNCHANGED <<script, mainVars, trapVars, fileVars, printed, cancel, adapter, faults>>

ProbeDue(n) == n % ProbeEvery = 0 \/ n = MaxSteps

OneStep ==
    /\ step' = step + 1
    /\ pc' = IF ProbeDue(step') THEN "probe" ELSE "train"
    /\ UNCHANGED <<payload, code, faults>>

IjepaStep == script = "ijepa" /\ OneStep

(* Only trace-jepa looks at the loss it computes. *)
NanGuard == Fault /\ Leave("nan", FailedPayload) /\ UNCHANGED step

TraceStep == script = "trace" /\ (OneStep \/ NanGuard)

TrainStep ==
    /\ pc = "train" /\ step < MaxSteps /\ (IjepaStep \/ TraceStep)
    /\ UNCHANGED <<script, canary, best, probes, trapVars, fileVars, printed, cancel, adapter>>

(* Mutant of Probe: the latest result, not the best. *)
ProbeKeepsLast ==
    /\ pc = "probe" /\ pc' = "emit"
    /\ \E score \in Scores : probes' = Append(probes, score) /\ best' = score
    /\ UNCHANGED <<script, step, canary, payload, code, trapVars, fileVars, printed,
                   cancel, adapter, faults>>

Probe ==
    /\ pc = "probe" /\ pc' = "emit"
    /\ \E score \in Scores :
        /\ probes' = Append(probes, score)
        /\ best' = IF score > best THEN score ELSE best
    /\ UNCHANGED <<script, step, canary, payload, code, trapVars, fileVars, printed,
                   cancel, adapter, faults>>

(* "step=.. probe_auroc=..", after which trace-jepa has " loss=..": of     *)
(* these only loss is one of the adapter's _KNOWN_METRIC_KEYS.             *)
PrintProbe ==
    /\ pc = "print" /\ pc' = "train"
    /\ printed' = (printed \/ script = "trace")
    /\ UNCHANGED <<script, mainVars, payload, code, trapVars, fileVars, cancel,
                   adapter, faults>>

IjepaFinal == [status |-> "ok", score |-> best]

TraceFinal == [status |-> "completed", score |-> LastProbe]

FinalPayload == IF script = "ijepa" THEN IjepaFinal ELSE TraceFinal

Complete ==
    /\ pc = "train" /\ step = MaxSteps
    /\ Leave("done", FinalPayload)
    /\ UNCHANGED <<script, mainVars, trapVars, fileVars, printed, cancel, adapter, faults>>

(* Mutant of Raise: ijepa-cifar10 has no last resort either. *)
RaiseUncaught ==
    /\ pc \in {"imports", "canary", "train", "probe"} /\ Fault
    /\ Exit("unhandled")
    /\ UNCHANGED <<script, mainVars, trapVars, fileVars, printed, cancel, adapter>>

(* _entrypoint of ijepa-cifar10 turns an exception into an outcome. *)
Entrypoint == script = "ijepa" /\ Leave("unhandled", FailedPayload)

(* trace-jepa calls main bare. *)
NoEntrypoint == script = "trace" /\ Exit("unhandled")

(* An exception: data that is not there, an out-of-memory error. *)
Raise ==
    /\ pc \in {"imports", "canary", "train", "probe"} /\ Fault
    /\ Entrypoint \/ NoEntrypoint
    /\ UNCHANGED <<script, mainVars, trapVars, fileVars, printed, cancel, adapter>>

-----------------------------------------------------------------------------
(* _write_outcome *)

(* An OSError ends the call with a warning. *)
WriteFails == pc' = "leaving" /\ Fault /\ unwritten' = TRUE /\ UNCHANGED tmp

(* Mutant of OpenTmp: the outcome file itself is opened. *)
OpenInPlace ==
    /\ pc = "opening" /\ pc' = "filling"
    /\ outcome' = Torn /\ UNCHANGED <<tmp, faults, unwritten>>
    /\ UNCHANGED <<script, mainVars, payload, code, trapVars, printed, cancel, adapter>>

OpenTmp ==
    /\ pc = "opening"
    /\ \/ pc' = "filling" /\ tmp' = Torn /\ UNCHANGED <<faults, unwritten>>
       \/ WriteFails
    /\ UNCHANGED <<script, mainVars, payload, code, trapVars, outcome, printed,
                   cancel, adapter>>

(* The payload is in the file object's buffer. *)
Fill ==
    /\ pc = "filling" /\ pc' = "closing"
    /\ UNCHANGED <<script, mainVars, payload, code, trapVars, fileVars, printed,
                   cancel, adapter, faults>>

CloseTmp ==
    /\ pc = "closing"
    /\ \/ pc' = "renaming" /\ tmp' = payload /\ UNCHANGED <<faults, unwritten>>
       \/ WriteFails
    /\ UNCHANGED <<script, mainVars, payload, code, trapVars, outcome, printed,
                   cancel, adapter>>

Rename ==
    /\ pc = "renaming"
    /\ \/ pc' = "leaving" /\ outcome' = tmp /\ tmp' = None /\ UNCHANGED <<faults, unwritten>>
       \/ WriteFails /\ UNCHANGED outcome
    /\ UNCHANGED <<script, mainVars, payload, code, trapVars, printed, cancel, adapter>>

Return ==
    /\ pc = "leaving"
    /\ pc' = IF code = "sigterm" THEN "unwinding" ELSE "exited"
    /\ UNCHANGED <<script, mainVars, payload, code, trapVars, fileVars, printed,
                   cancel, adapter, faults>>

-----------------------------------------------------------------------------
(* SIGTERM.  Before the handler is installed it kills.                     *)

Trapped ==
    \/ pc \in {"train", "probe", "print", "emit"} /\ canary # None /\ (pc = "emit" => step > 0)
    \/ pc \in {"opening", "filling", "closing", "renaming", "leaving", "unwinding"}
           /\ code \in {"done", "nan", "unhandled", "sigterm"} /\ canary # None

(* The handler's own call of _write_outcome, which another SIGTERM may     *)
(* interrupt in turn.                                                      *)
Sigterm ==
    /\ Trapped /\ Fault
    /\ interrupted' = interrupted \cup {pc}
    /\ unflushed' = unflushed \cup (IF pc = "closing" THEN {payload} ELSE {})
    /\ Leave("sigterm", FailedPayload)
    /\ UNCHANGED <<script, mainVars, fileVars, printed, cancel, adapter>>

(* sys.exit(143) closes the files of the interrupted calls.  Their buffers *)
(* are flushed over what the handler has written, from the start of the    *)
(* file, so that the longer text shows at the end; or into a file that has *)
(* been replaced since.                                                    *)
Unwind ==
    /\ pc = "unwinding" /\ pc' = "exited"
    /\ outcome' \in IF outcome # None /\ unflushed # {}
                   THEN unflushed \cup {Torn, outcome} ELSE {outcome}
    /\ UNCHANGED <<script, mainVars, payload, code, trapVars, tmp, unwritten, printed,
                   cancel, adapter, faults>>

(* SIGKILL, an out-of-memory kill, or a SIGTERM that is not trapped. *)
Kill ==
    /\ pc # "exited" /\ Fault
    /\ pc' = "exited" /\ code' = "killed"
    /\ UNCHANGED <<script, mainVars, payload, trapVars, fileVars, printed, cancel, adapter>>

-----------------------------------------------------------------------------
(* The controller. *)

GuardCancels ==
    /\ ~cancel /\ pc # "exited"
    /\ cancel' = TRUE
    /\ UNCHANGED <<script, pc, mainVars, payload, code, trapVars, fileVars, printed,
                   adapter, faults>>

(* What a poll finds: an outcome.json that parses, else metrics in the     *)
(* log.  Any status but "ok" is a failure.                                 *)
Answer ==
    IF outcome \notin {None, Torn}
    THEN [status |-> IF outcome.status = "ok" THEN "ok" ELSE "failed",
          score |-> outcome.score, by |-> "outcome"]
    ELSE IF printed THEN [status |-> "ok", score |-> LastProbe, by |-> "log"]
    ELSE IF polls = MaxPolls THEN [status |-> "failed", score |-> None, by |-> "timeout"]
    ELSE None

(* With an answer the container is deleted. *)
Poll ==
    /\ report = None
    /\ report' = Answer
    /\ polls' = IF report' = None THEN polls + 1 ELSE polls
    /\ IF report' # None /\ pc # "exited" THEN pc' = "exited" /\ code' = "deleted"
       ELSE UNCHANGED <<pc, code>>
    /\ UNCHANGED <<script, mainVars, payload, trapVars, fileVars, printed, cancel, faults>>

-----------------------------------------------------------------------------

Main ==
    \/ Prepare \/ RunCanary \/ EmitProgress \/ CanaryGate \/ TrainStep \/ Probe
    \/ PrintProbe \/ Complete \/ OpenTmp \/ Fill \/ CloseTmp \/ Rename \/ Return
    \/ Unwind

Next == Main \/ Raise \/ Sigterm \/ Kill \/ GuardCancels \/ Poll

Spec == Init /\ [][Next]_vars

-----------------------------------------------------------------------------
(* Properties *)

Payloads == [status : {"ok", "failed", "completed"}, score : Scores \cup {0, None}]

Codes == {"import", "noData", "canary", "nan", "unhandled", "done", "cancel", "sigterm",
          "killed", "deleted"}

(* The types, with the steps within max_steps and at most one probe a step. *)
TypeOK ==
    /\ script \in Scripts /\ pc \in Phases
    /\ step \in 0..MaxSteps /\ canary \in CanaryLosses \cup {None}
    /\ best \in Scores \cup {0} /\ probes \in Seq(Scores) /\ Len(probes) <= step
    /\ payload \in Payloads \cup {None} /\ code \in Codes \cup {None}
    /\ interrupted \subseteq Phases /\ unflushed \subseteq Payloads
    /\ tmp \in Payloads \cup {None, Torn} /\ outcome \in Payloads \cup {None, Torn}
    /\ unwritten \in BOOLEAN /\ printed \in BOOLEAN /\ cancel \in BOOLEAN
    /\ polls \in 0..MaxPolls /\ faults \in 0..MaxFaults
    /\ report = None \/ report \in [status : {"ok", "failed"}, score : Scores \cup {0, None},
                                     by : {"outcome", "log", "timeout"}]

(* "Atomically write outcome.json": no crash, error or poll between two    *)
(* steps of the write shows a partial file, except when SIGTERM arrives    *)
(* between the write and the close, and the handler writes as well.        *)
OutcomeIsWhole == outcome = Torn => "closing" \in interrupted

(* ADR-015: every path on which main returns, raises (in ijepa-cifar10) or *)
(* is trapped leaves an outcome, unless writing it met an OSError.  The    *)
(* cancel exit of emit_progress is the path that writes none.              *)
ExitsLeaveOutcome ==
    pc = "exited" /\ code \notin {"cancel", "killed", "deleted"} =>
        outcome # None \/ unwritten \/ (script = "trace" /\ code = "unhandled")

(* An ijepa-cifar10 trial the controller takes for ok has passed the       *)
(* canary gate and trained to its last step, and its score is the best of  *)
(* its probes, the one of the last step included.                          *)
OkIsEarned ==
    report # None /\ script = "ijepa" => (report.status = "ok" =>
        /\ step = MaxSteps /\ canary # "high"
        /\ \A i \in 1..Len(probes) : probes[i] <= report.score
        /\ report.score = 0 \/ \E i \in 1..Len(probes) : probes[i] = report.score)

=============================================================================
