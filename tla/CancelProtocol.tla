---------------------------- MODULE CancelProtocol ----------------------------
(***************************************************************************)
(* How a trial is cancelled: controller/intra_iteration.py (the guard      *)
(* thread), target/progress_reader.py (the reader thread),                 *)
(* target/progress.py (the trial's process) and the engine thread that     *)
(* waits for the trial, joins the guard and classifies the outcome         *)
(* (controller/engine.py, and _execute_one of parallel_engine.py).  They   *)
(* communicate through two files of the run directory only, and a rerun    *)
(* of the iteration finds there what the killed run left.                  *)
(*                                                                         *)
(* A report in the file is TRUE when its value is at or beyond the best    *)
(* value the guard compares with, and FALSE otherwise; the reader's buffer *)
(* and the guard's series are sets of the numbers of the reports they have *)
(* got.                                                                    *)
(***************************************************************************)
EXTENDS Naturals, Sequences, FiniteSets

CONSTANTS MinReports,        \* max(min_reports_before_decide, 5)
          ControlWriteFails, \* writing control.json may raise OSError
          MaxReports,        \* bound: reports in progress.jsonl
          MaxRestarts        \* bound: reruns of the iteration

ASSUME CancelAssumption ==
    /\ MinReports \in Nat \ {0}
    /\ ControlWriteFails \in BOOLEAN
    /\ MaxReports \in Nat
    /\ MaxRestarts \in Nat

VARIABLES trial,            \* "running", "writing", "reported" or "exited"
          exit,             \* how it ended; "cancel" is CANCEL_EXIT_CODE
          progress, control,           \* progress.jsonl, control.json
          unfinished,       \* reports whose line has no end, yet or for good
          offset, buffer,              \* the ProgressReader
          cut,              \* reports it found unfinished when it read them
          guard, series, cancelled, stop,
          engine, outcome, shutdown,
          late,             \* the join of the guard timed out
          restarts

files == <<progress, unfinished, control>>
trialVars == <<trial, exit>>
readerVars == <<offset, buffer, cut>>
guardVars == <<guard, series, cancelled>>
engineVars == <<engine, stop, outcome, shutdown, late>>
cancelVars == <<files, trialVars, readerVars, guardVars, engineVars, restarts>>

CancelInit ==
    /\ trial = "running" /\ exit = "none"
    /\ progress = <<>> /\ unfinished = {} /\ control = "absent"
    /\ offset = 0 /\ buffer = {} /\ cut = {}
    /\ guard = "sleeping" /\ series = {} /\ cancelled = FALSE
    /\ engine = "waiting" /\ stop = FALSE /\ outcome = "none" /\ shutdown = FALSE
    /\ late = FALSE
    /\ restarts = 0

-----------------------------------------------------------------------------
(* The trial: emit_progress appends its report, then looks for a cancel.   *)
(* (A report that cannot be written at all changes nothing: the trial goes *)
(* on without looking.)                                                    *)

(* The line reaches the file in two parts. *)
Report ==
    /\ trial = "running" /\ Len(progress) < MaxReports
    /\ \E beats \in BOOLEAN : progress' = Append(progress, beats)
    /\ unfinished' = unfinished \cup {Len(progress) + 1}
    /\ trial' = "writing"
    /\ UNCHANGED <<control, exit, readerVars, guardVars, engineVars, restarts>>

EndReport ==
    /\ trial = "writing" /\ trial' = "reported"
    /\ unfinished' = unfinished \ {Len(progress)}
    /\ UNCHANGED <<progress, control, exit, readerVars, guardVars, engineVars, restarts>>

(* Mutant of ReadControl: the cancel is read and not obeyed. *)
ReadControlIgnores ==
    /\ trial = "reported"
    /\ trial' = "running"
    /\ UNCHANGED <<files, exit, readerVars, guardVars, engineVars, restarts>>

(* A control file that does not parse counts as none.                      *)
ReadControl ==
    /\ trial = "reported"
    /\ IF control = "cancel" THEN trial' = "exited" /\ exit' = "cancel"
                             ELSE trial' = "running" /\ UNCHANGED exit
    /\ UNCHANGED <<files, readerVars, guardVars, engineVars, restarts>>

(* The trial ends by itself, or its target kills it at any moment.         *)
Finish ==
    /\ trial # "exited" /\ trial' = "exited"
    /\ \/ exit' = "failed"
       \/ trial = "running" /\ exit' = "ok"
    /\ UNCHANGED <<files, readerVars, guardVars, engineVars, restarts>>

-----------------------------------------------------------------------------
(* The reader thread; it outlives the trial until the guard is joined.     *)

(* What a read from the offset to the end of the file parses: the lines    *)
(* that have an end and do not go on from one that has none.  Of a line    *)
(* the previous read has cut in two, the rest is dropped as malformed.     *)
NewLines ==
    {n \in offset + 1..Len(progress) :
        n \notin unfinished /\ ~(n - 1 > offset /\ n - 1 \in unfinished)}

(* Mutant of ReadNewLines: what the guard has not drained is overwritten. *)
ReadNewLinesOverwrites ==
    /\ engine # "done" /\ offset < Len(progress)
    /\ buffer' = NewLines
    /\ offset' = Len(progress)
    /\ cut' = cut \cup {n \in unfinished : n > offset}
    /\ UNCHANGED <<files, trialVars, guardVars, engineVars, restarts>>

ReadNewLines ==
    /\ engine # "done" /\ offset < Len(progress)
    /\ buffer' = buffer \cup NewLines
    /\ offset' = Len(progress)
    /\ cut' = cut \cup {n \in unfinished : n > offset}
    /\ UNCHANGED <<files, trialVars, guardVars, engineVars, restarts>>

-----------------------------------------------------------------------------
(* The guard thread. *)

(* while not stop: sleep.  The flag is not looked at again after the sleep *)
(* is over, only the shutdown request.                                     *)
Wake ==
    /\ guard = "sleeping"
    /\ guard' = IF shutdown THEN "ended" ELSE "awake"
    /\ UNCHANGED <<files, trialVars, readerVars, series, cancelled, engineVars, restarts>>

NextTick == IF stop THEN "ended" ELSE "sleeping"

(* The forecaster may say anything of a series that never reached the      *)
(* best; of one that did, it is not asked (ADR-026).                       *)
MayCancel(reports) ==
    Cardinality(reports) >= MinReports /\ \A n \in reports : ~progress[n]

Evaluate ==
    /\ guard = "awake"
    /\ series' = series \cup buffer
    /\ buffer' = {}
    /\ guard' \in {NextTick} \cup (IF MayCancel(series') THEN {"truncate"} ELSE {})
    /\ UNCHANGED <<files, trialVars, offset, cut, cancelled, engineVars, restarts>>

TruncateControl ==
    /\ guard = "truncate" /\ guard' = "write"
    /\ control' = "torn"
    /\ UNCHANGED <<progress, unfinished, trialVars, readerVars, series, cancelled, engineVars,
                   restarts>>

WriteControl ==
    /\ guard = "write" /\ guard' = "flag"
    /\ control' = "cancel"
    /\ UNCHANGED <<progress, unfinished, trialVars, readerVars, series, cancelled, engineVars,
                   restarts>>

(* Opening or writing the file fails, the latter leaving it torn.  The     *)
(* error is logged, and the trial counts as cancelled all the same.        *)
WriteControlFails ==
    /\ ControlWriteFails
    /\ guard \in {"truncate", "write"} /\ guard' = "flag"
    /\ UNCHANGED <<files, trialVars, readerVars, series, cancelled, engineVars, restarts>>

SetCancelled ==
    /\ guard = "flag" /\ guard' = "ended"
    /\ cancelled' = TRUE
    /\ UNCHANGED <<files, trialVars, readerVars, series, engineVars, restarts>>

-----------------------------------------------------------------------------
(* The engine thread. *)

TrialReturns ==
    /\ engine = "waiting" /\ trial = "exited"
    /\ engine' = "joining"
    /\ stop' = TRUE
    /\ UNCHANGED <<files, trialVars, readerVars, guardVars, outcome, shutdown, late, restarts>>

(* Any other exit code than 0 is a failure, CANCEL_EXIT_CODE included.     *)
FinalOutcome ==
    IF cancelled THEN "cancelled" ELSE IF exit = "ok" THEN "ok" ELSE "failed"

(* Mutant of Classify: the guard is not joined. *)
ClassifyWithoutJoin ==
    /\ engine = "joining" /\ engine' = "done"
    /\ outcome' = FinalOutcome
    /\ UNCHANGED <<files, trialVars, readerVars, guardVars, stop, shutdown, late, restarts>>

Classify ==
    /\ engine = "joining" /\ engine' = "done"
    /\ guard = "ended"
    /\ outcome' = FinalOutcome
    /\ UNCHANGED <<files, trialVars, readerVars, guardVars, stop, shutdown, late, restarts>>

(* guard.stop() waits for two ticks and a second; a guard held up for      *)
(* longer, by its file system say, is left to itself.                      *)
JoinTimesOut ==
    /\ engine = "joining" /\ engine' = "done"
    /\ guard # "ended"
    /\ outcome' = FinalOutcome
    /\ late' = TRUE
    /\ UNCHANGED <<files, trialVars, readerVars, guardVars, stop, shutdown, restarts>>

ShutdownRequested ==
    /\ engine # "done" /\ ~shutdown
    /\ shutdown' = TRUE
    /\ UNCHANGED <<files, trialVars, readerVars, guardVars, engine, stop, outcome, late,
                   restarts>>

(* The engine is killed, the trial with it, and the iteration is run again *)
(* in the same run directory, which nobody empties.                        *)
Rerun ==
    /\ restarts < MaxRestarts
    /\ restarts' = restarts + 1
    /\ trial' = "running" /\ exit' = "none"
    /\ offset' = 0 /\ buffer' = {} /\ cut' = {}
    /\ guard' = "sleeping" /\ series' = {} /\ cancelled' = FALSE
    /\ engine' = "waiting" /\ stop' = FALSE /\ outcome' = "none" /\ shutdown' = FALSE
    /\ late' = FALSE
    /\ UNCHANGED files

-----------------------------------------------------------------------------

Emit == Report \/ EndReport \/ ReadControl
Trial == Emit \/ Finish
Guard ==
    \/ Wake \/ Evaluate \/ TruncateControl \/ WriteControl \/ WriteControlFails
    \/ SetCancelled
Engine == TrialReturns \/ Classify \/ JoinTimesOut

CancelNext == Trial \/ ReadNewLines \/ Guard \/ Engine \/ ShutdownRequested \/ Rerun

CancelSpec == CancelInit /\ [][CancelNext]_cancelVars

(* Threads and the trial's process keep running.  The trial need not       *)
(* finish by itself: only its reports are due.                             *)
FairSpec ==
    /\ CancelSpec
    /\ WF_cancelVars(Emit)
    /\ WF_cancelVars(Guard)
    /\ WF_cancelVars(Engine)

-----------------------------------------------------------------------------
(* Properties. *)

CancelTypeOK ==
    /\ trial \in {"running", "writing", "reported", "exited"}
    /\ exit \in {"none", "ok", "failed", "cancel"}
    /\ progress \in Seq(BOOLEAN) /\ Len(progress) <= MaxReports
    /\ control \in {"absent", "torn", "cancel"}
    /\ offset \in 0..MaxReports
    /\ unfinished \subseteq 1..MaxReports
    /\ buffer \subseteq 1..MaxReports /\ series \subseteq 1..MaxReports
    /\ cut \subseteq 1..MaxReports
    /\ guard \in {"sleeping", "awake", "truncate", "write", "flag", "ended"}
    /\ cancelled \in BOOLEAN /\ stop \in BOOLEAN /\ shutdown \in BOOLEAN
    /\ engine \in {"waiting", "joining", "done"}
    /\ outcome \in {"none", "ok", "failed", "cancelled"}
    /\ late \in BOOLEAN
    /\ restarts \in 0..MaxRestarts

(* Between the file, the reader's buffer and the guard's series no report  *)
(* is lost, repeated or reordered, whenever the threads run: the guard     *)
(* gets every report up to the offset, but those whose own line, or the    *)
(* one before it, the reader met half-written.                             *)
NoReportLost ==
    /\ series \cup buffer \subseteq 1..offset
    /\ \A n \in series, m \in buffer : n < m
    /\ \A n \in 1..offset :
          n \in series \cup buffer \/ n \in cut \/ n - 1 \in cut

(* helpers.py, check_failure_rate: "'cancelled' is a graceful early-out    *)
(* (cooperative cancel by the IntraIterationGuard), not a trial failure".  *)
(* A trial that obeyed a cancel is recorded as cancelled and not as the    *)
(* failure its exit code looks like.                                       *)
ObeyedIsCancelled == engine = "done" /\ exit = "cancel" => outcome = "cancelled"

(* In a run directory that started empty it is, unless the engine gave up  *)
(* waiting for the guard: the engine classifies only after the guard has   *)
(* put up its flag, which the guard does after it has written the control  *)
(* file, and a torn file is not obeyed.                                    *)
ObeyedInFreshDirectory == restarts = 0 /\ ~late => ObeyedIsCancelled

(* Once the guard has cancelled a trial, and the control file is written,  *)
(* the trial does not report for ever and the engine gets its outcome,     *)
(* unless it is killed first.                                              *)
CancelArrives ==
    (/\ cancelled /\ control = "cancel"
     /\ Len(progress) < MaxReports /\ restarts = MaxRestarts) ~> (engine = "done")

=============================================================================
