----------------------------- MODULE DiffExecutor -----------------------------
(***************************************************************************)
(* controller/diff_executor.py inside the serial loop: a diff is written   *)
(* over the mutable file for the time of its trial, and written for good   *)
(* when the loop keeps it.  The file, its restore marker and the ledger    *)
(* outlive the process; everything else is lost when it is killed.         *)
(*                                                                         *)
(* pc names what the main thread does next.  Path.write_text truncates     *)
(* the file before it fills it, so each write is two steps; the signal     *)
(* handler runs on the main thread, between two of its steps, or between   *)
(* two of another handler's.  Any of the writes may raise an OSError, at   *)
(* either step.  A content is the set of diffs applied to the pristine     *)
(* source, or Torn: truncated or partly written.                           *)
(***************************************************************************)
EXTENDS Naturals, Sequences

CONSTANTS Diffs,         \* the diffs the policy may propose
          Torn, Gone,    \* a truncated content; no marker file
          Settings,      \* how the program is run and what may befall it
          MaxRestarts    \* bound: processes after the first

Marked == {"installTerm", "keepTerm", "installInt", "keepInt", "truncate", "write",
           "train", "eval", "undo", "refill", "restore", "rewrite",
           "uninstallTerm", "uninstallInt", "clear"}    \* inside _restore_on_signal
Guarded == Marked \ {"installTerm", "clear"}            \* a handler is installed
Steps == {"boot", "recover", "unmark", "propose", "mark", "fillMark", "judge",
          "persist", "fill"} \cup Marked
Points == Steps \cup {"handler"}
Signals == {"SIGTERM", "SIGINT"}

SettingSet ==
    [mode : {"continuous", "run-one"},  \* the loop, or cli.py's run-one --diff
     kills : SUBSET Points,             \* where SIGKILL may strike
     fails : SUBSET {"file", "marker"}, \* whose I/O may raise OSError
     maxSignals : Nat]                  \* bound: SIGTERMs and SIGINTs

ASSUME DiffAssumption ==
    /\ \A content \in SUBSET Diffs : Torn # content /\ Gone # content
    /\ Torn # Gone
    /\ Settings \subseteq SettingSet
    /\ MaxRestarts \in Nat

VARIABLES setting,                \* chosen once and for all
          pc,
          handlers,               \* running signal handlers, the innermost last
          file, marker,           \* the mutable file and its sidecar
          stuck,                  \* the last I/O on the sidecar has failed
          proposed,               \* diffs proposed so far
          diff, source, modified, \* locals of execute and _persist_diff
          marked,                 \* _write_restore_marker has returned the path
          result,                 \* outcome.status, or "raised" by the target
          measured,               \* the source the last command ran on
          raised,                 \* an OSError is on its way out
          shutdown,
          baseline,               \* diffs the ledger shows as kept
          signals, restarts

sidecar == <<marker, stuck>>
disk == <<file, sidecar, baseline>>
locals == <<diff, source, modified, marked, result, measured, raised>>
env == <<setting, proposed, shutdown, signals, restarts>>
vars == <<pc, handlers, disk, locals, env>>

Frames == [at : {"truncate", "write", "clear"},
           chains : BOOLEAN]           \* the previous handler is known

Init ==
    /\ setting \in Settings
    /\ pc = "boot" /\ handlers = <<>>
    /\ file = {} /\ marker = Gone /\ stuck = FALSE /\ baseline = {}
    /\ proposed = {} /\ diff = Gone /\ source = Gone /\ modified = Gone /\ marked = FALSE
    /\ result = "none" /\ measured = Gone /\ raised = FALSE
    /\ shutdown = FALSE /\ signals = 0 /\ restarts = 0

(* A step of the main thread from one point to another.                    *)
Main(from, to) ==
    /\ pc = from /\ pc' = to
    /\ handlers = <<>> /\ UNCHANGED handlers

Fails(io) == io \in setting.fails

(* _clear_restore_marker: nothing without a path, and an error is logged.  *)
Unlink ==
    IF marked
    THEN \/ marker' = Gone /\ stuck' = FALSE
         \/ Fails("marker") /\ UNCHANGED marker /\ stuck' = TRUE
    ELSE UNCHANGED sidecar

-----------------------------------------------------------------------------
(* recover_restore_marker, at the start of the continuous modes. *)

(* Mutant of SkipRecovery: the marker is never looked at. *)
SkipRecoveryAlways ==
    /\ Main("boot", "propose")
    /\ UNCHANGED <<disk, locals, env>>

SkipRecovery ==
    /\ Main("boot", "propose")
    /\ setting.mode = "run-one" \/ marker = Gone
    /\ UNCHANGED <<disk, locals, env>>

(* Mutant of Recover: it does not check that there is a marker. *)
RecoverUnchecked ==
    /\ Main("boot", "recover")
    /\ setting.mode = "continuous"
    /\ file' = Torn
    /\ UNCHANGED <<sidecar, baseline, locals, env>>

Recover ==
    /\ Main("boot", "recover")
    /\ setting.mode = "continuous" /\ marker # Gone
    /\ file' = Torn
    /\ UNCHANGED <<sidecar, baseline, locals, env>>

FillRecovered ==
    /\ Main("recover", "unmark")
    /\ file' = marker
    /\ UNCHANGED <<sidecar, baseline, locals, env>>

Unmark ==
    /\ Main("unmark", "propose")
    /\ marker' = Gone /\ stuck' = FALSE
    /\ UNCHANGED <<file, baseline, locals, env>>

(* An OSError of the read, the write or the unlink is logged: the run goes *)
(* on with the file and the marker as they are.                            *)
RecoverFails ==
    /\ \/ /\ Main("boot", "propose") /\ setting.mode = "continuous" /\ marker # Gone
          /\ Fails("marker") \/ Fails("file")
       \/ Main("recover", "propose") /\ Fails("file")
       \/ Main("unmark", "propose") /\ Fails("marker")
    /\ stuck' = TRUE
    /\ UNCHANGED <<file, marker, baseline, locals, env>>

(* A marker cut within a character is no UTF-8, which is no OSError.       *)
RecoverRaises ==
    /\ Main("boot", "dead")
    /\ setting.mode = "continuous" /\ marker = Torn
    /\ UNCHANGED <<disk, locals, env>>

-----------------------------------------------------------------------------
(* execute *)

AfterTrial == IF setting.mode = "run-one" THEN "stopped" ELSE "propose"

(* The diff is validated against the source read here; nothing applies to  *)
(* a torn source.                                                          *)
Propose(d) ==
    /\ Main("propose", "mark")
    /\ ~shutdown /\ d \notin proposed /\ file # Torn
    /\ proposed' = proposed \cup {d}
    /\ diff' = d
    /\ source' = file
    /\ modified' = file \cup {d}
    /\ result' = "none" /\ measured' = Gone /\ raised' = FALSE
    /\ UNCHANGED <<disk, marked, setting, shutdown, signals, restarts>>

Reject(d) ==
    /\ Main("propose", AfterTrial)
    /\ ~shutdown /\ d \notin proposed
    /\ proposed' = proposed \cup {d}
    /\ UNCHANGED <<disk, locals, setting, shutdown, signals, restarts>>

(* Mutant of Stop: the shutdown flag is not polled. *)
StopWhenExhausted ==
    /\ Main("propose", "stopped")
    /\ proposed = Diffs
    /\ UNCHANGED <<disk, locals, env>>

Stop ==
    /\ Main("propose", "stopped")
    /\ shutdown \/ proposed = Diffs
    /\ UNCHANGED <<disk, locals, env>>

(* _write_restore_marker. *)
Mark ==
    /\ Main("mark", "fillMark")
    /\ marker' = Torn
    /\ UNCHANGED <<file, stuck, baseline, locals, env>>

FillMark ==
    /\ Main("fillMark", "installTerm")
    /\ marker' = source /\ stuck' = FALSE
    /\ marked' = TRUE
    /\ UNCHANGED <<file, baseline, diff, source, modified, result, measured, raised, env>>

(* It fails to open, or to write, and leaves what is there: the trial goes *)
(* on without a marker.                                                    *)
MarkFails ==
    /\ Fails("marker")
    /\ \E from \in {"mark", "fillMark"} : Main(from, "installTerm")
    /\ stuck' = TRUE
    /\ marked' = FALSE
    /\ UNCHANGED <<file, marker, baseline, diff, source, modified, result, measured, raised, env>>

(* Two calls of signal.signal, and the handlers they return are known only *)
(* when they are assigned.                                                 *)
Install ==
    /\ \/ Main("installTerm", "keepTerm") \/ Main("keepTerm", "installInt")
       \/ Main("installInt", "keepInt") \/ Main("keepInt", "truncate")
    /\ UNCHANGED <<disk, locals, env>>

Truncate ==
    /\ Main("truncate", "write")
    /\ file' = Torn
    /\ UNCHANGED <<sidecar, baseline, locals, env>>

(* If the handler has written the source in between, the open descriptor   *)
(* overwrites it, and a shorter content leaves the tail of the longer one. *)
Write ==
    /\ Main("write", "train")
    /\ file' \in {modified} \cup (IF file = Torn THEN {} ELSE {Torn})
    /\ UNCHANGED <<sidecar, baseline, locals, env>>

(* Mutant of WriteFails: the error is swallowed and the trial goes on. *)
WriteFailsUnnoticed ==
    /\ Fails("file")
    /\ \E from \in {"truncate", "write"} : Main(from, "train")
    /\ UNCHANGED <<disk, locals, env>>

(* The write lies before the try: its error leaves through the context     *)
(* manager, which clears the marker.                                       *)
WriteFails ==
    /\ Fails("file")
    /\ \E from \in {"truncate", "write"} : Main(from, "uninstallTerm")
    /\ raised' = TRUE
    /\ UNCHANGED <<disk, diff, source, modified, marked, result, measured, env>>

Train ==
    /\ \/ Main("train", "eval") /\ result' = "ok"
       \/ Main("train", "restore") /\ result' = "failed"
       \/ Main("train", "undo") /\ result' = "raised"
    /\ measured' = file
    /\ UNCHANGED <<disk, diff, source, modified, marked, raised, env>>

Eval ==
    /\ \/ Main("eval", "restore") /\ result' \in {"ok", "failed"}
       \/ Main("eval", "undo") /\ result' = "raised"
    /\ measured' = file
    /\ UNCHANGED <<disk, diff, source, modified, marked, raised, env>>

(* An exception of the target writes the source back in the except clause  *)
(* and, like every way out, again in the finally clause.                   *)
Restore ==
    /\ Main("undo", "refill") \/ Main("restore", "rewrite")
    /\ file' = Torn
    /\ UNCHANGED <<sidecar, baseline, locals, env>>

Rewrite ==
    /\ Main("refill", "restore") \/ Main("rewrite", "uninstallTerm")
    /\ file' = source
    /\ UNCHANGED <<sidecar, baseline, locals, env>>

RewriteFails ==
    /\ Fails("file")
    /\ \/ \E from \in {"undo", "refill"} : Main(from, "restore")
       \/ \E from \in {"restore", "rewrite"} : Main(from, "uninstallTerm")
    /\ raised' = TRUE
    /\ UNCHANGED <<disk, diff, source, modified, marked, result, measured, env>>

Uninstall ==
    /\ Main("uninstallTerm", "uninstallInt") \/ Main("uninstallInt", "clear")
    /\ UNCHANGED <<disk, locals, env>>

(* Mutant of Clear: not on the way out with an error. *)
ClearOnSuccess ==
    /\ Main("clear", IF raised THEN "stopped" ELSE "judge")
    /\ IF raised THEN UNCHANGED sidecar ELSE Unlink
    /\ UNCHANGED <<file, baseline, locals, env>>

Clear ==
    /\ Main("clear", IF raised THEN "stopped" ELSE "judge")
    /\ Unlink
    /\ UNCHANGED <<file, baseline, locals, env>>

-----------------------------------------------------------------------------
(* The loop's verdict, and on_keep: _persist_diff. *)

Discard ==
    /\ Main("judge", AfterTrial)
    /\ UNCHANGED <<disk, locals, env>>

(* Any outcome with metrics may be kept, a failed one too.  run-one has no *)
(* on_keep callback: the source it runs on never changes.                  *)
Keep ==
    /\ result # "raised"
    /\ IF setting.mode = "run-one"
       THEN Main("judge", AfterTrial) /\ UNCHANGED baseline
       ELSE Main("judge", "persist") /\ baseline' = baseline \cup {diff}
    /\ UNCHANGED <<file, sidecar, locals, env>>

Persist ==
    /\ Main("persist", "fill")
    /\ file # Torn
    /\ modified' = file \cup {diff}
    /\ file' = Torn
    /\ UNCHANGED <<sidecar, baseline, diff, source, marked, result, measured, raised, env>>

(* The diff does not apply to what a failed handler left: a warning.       *)
PersistRefused ==
    /\ Main("persist", AfterTrial)
    /\ file = Torn
    /\ UNCHANGED <<disk, locals, env>>

Fill ==
    /\ Main("fill", AfterTrial)
    /\ file' = modified
    /\ UNCHANGED <<sidecar, baseline, locals, env>>

(* Nobody catches what on_keep raises.                                     *)
PersistFails ==
    /\ Fails("file")
    /\ \E from \in {"persist", "fill"} : Main(from, "stopped")
    /\ UNCHANGED <<disk, locals, env>>

-----------------------------------------------------------------------------
(* Signals, kills, restarts. *)

(* Whether _handler is installed for the signal, and prev_term or prev_int *)
(* assigned.                                                               *)
Handled(signal) ==
    pc \in Guarded \ (IF signal = "SIGTERM" THEN {"uninstallInt"} ELSE {"keepTerm", "installInt"})
Known(signal) == pc # IF signal = "SIGTERM" THEN "keepTerm" ELSE "keepInt"

(* Inside the guarded block the signal runs the restoring handler, which   *)
(* another may interrupt; outside it ShutdownHandler alone.                *)
Signal(signal) ==
    /\ signals < setting.maxSignals /\ pc \in Steps
    /\ signals' = signals + 1
    /\ IF Handled(signal)
       THEN /\ handlers' = Append(handlers, [at |-> "truncate", chains |-> Known(signal)])
            /\ UNCHANGED shutdown
       ELSE shutdown' = TRUE /\ UNCHANGED handlers
    /\ UNCHANGED <<pc, disk, locals, setting, proposed, restarts>>

Innermost == handlers[Len(handlers)]

Handler(from, to) ==
    /\ handlers # <<>> /\ Innermost.at = from
    /\ handlers' = [handlers EXCEPT ![Len(handlers)].at = to]

HandlerTruncate ==
    /\ Handler("truncate", "write")
    /\ file' = Torn
    /\ UNCHANGED <<pc, sidecar, baseline, locals, env>>

HandlerWrite ==
    /\ Handler("write", "clear")
    /\ file' = source
    /\ UNCHANGED <<pc, sidecar, baseline, locals, env>>

(* An OSError of the write is logged, and the handler goes on.             *)
HandlerFails ==
    /\ Fails("file")
    /\ \E from \in {"truncate", "write"} : Handler(from, "clear")
    /\ UNCHANGED <<pc, disk, locals, env>>

(* The handler clears the marker and chains to ShutdownHandler, unless it  *)
(* runs before prev_term or prev_int is assigned: then the signal is lost. *)
HandlerClear ==
    /\ handlers # <<>> /\ Innermost.at = "clear"
    /\ handlers' = SubSeq(handlers, 1, Len(handlers) - 1)
    /\ Unlink
    /\ shutdown' = (shutdown \/ Innermost.chains)
    /\ UNCHANGED <<pc, file, baseline, locals, setting, proposed, signals, restarts>>

Kill ==
    /\ pc \in Steps
    /\ (IF handlers = <<>> THEN pc ELSE "handler") \in setting.kills
    /\ pc' = "dead" /\ handlers' = <<>>
    /\ UNCHANGED <<disk, locals, env>>

Boot ==
    /\ pc \in {"dead", "stopped"} /\ restarts < MaxRestarts
    /\ pc' = "boot"
    /\ restarts' = restarts + 1
    /\ shutdown' = FALSE
    /\ UNCHANGED <<handlers, disk, locals, setting, proposed, signals>>

-----------------------------------------------------------------------------

MainStep ==
    \/ SkipRecovery \/ Recover \/ FillRecovered \/ Unmark \/ RecoverFails \/ RecoverRaises
    \/ (\E d \in Diffs : Propose(d) \/ Reject(d))
    \/ Stop \/ Mark \/ FillMark \/ MarkFails \/ Install \/ Truncate \/ Write \/ WriteFails
    \/ Train \/ Eval \/ Restore \/ Rewrite \/ RewriteFails \/ Uninstall \/ Clear
    \/ Discard \/ Keep \/ Persist \/ PersistRefused \/ Fill \/ PersistFails

HandlerStep == HandlerTruncate \/ HandlerWrite \/ HandlerFails \/ HandlerClear

Next == MainStep \/ HandlerStep \/ (\E signal \in Signals : Signal(signal)) \/ Kill \/ Boot

Spec == Init /\ [][Next]_vars

(* The main thread and the handler keep running: the target's commands     *)
(* have a timeout.                                                         *)
FairSpec == Spec /\ WF_vars(MainStep) /\ WF_vars(HandlerStep)

-----------------------------------------------------------------------------
(* Properties. *)

Contents == {Torn} \cup SUBSET Diffs
Stacks == Seq(Frames)

TypeOK ==
    /\ pc \in Steps \cup {"stopped", "dead"}
    /\ handlers \in Stacks
    /\ file # Gone /\ file \in Contents
    /\ marker \in {Gone} \cup Contents
    /\ stuck \in BOOLEAN /\ marked \in BOOLEAN
    /\ baseline \in SUBSET Diffs
    /\ proposed \in SUBSET Diffs
    /\ diff \in {Gone} \cup Diffs
    /\ source \in {Gone} \cup SUBSET Diffs
    /\ modified \in {Gone} \cup Contents
    /\ result \in {"none", "ok", "failed", "raised"}
    /\ measured \in {Gone} \cup Contents
    /\ raised \in BOOLEAN
    /\ shutdown \in BOOLEAN
    /\ setting \in Settings
    /\ signals \in 0..setting.maxSignals
    /\ restarts \in 0..MaxRestarts

(* ADR-024: whenever the policy reads the source for its next proposal, it *)
(* holds the kept diffs and nothing else, whatever interrupted the trials  *)
(* before: no leftover of a killed trial, no torn file, no lost keep.      *)
SourceIsBaseline == pc = "propose" => file = baseline

(* Kills that leave a marker, or the file, torn with nothing to repair it.  *)
Tearing == {"fillMark", "persist", "fill"}

(* What the marker and the handler are there for: the files can be written *)
(* (run-one does not look at the marker), and the process is signalled, or *)
(* it is killed in a mode that looks for the marker when it is started     *)
(* again.  The handler clears the marker and the trial goes on, so they do *)
(* not cover a kill after a signal.                                        *)
Recoverable(s) ==
    /\ "file" \notin s.fails
    /\ "marker" \notin s.fails \/ s.mode = "run-one"
    /\ \/ s.kills = {}
       \/ s.mode = "continuous" /\ s.maxSignals = 0 /\ s.kills \cap Tearing = {}

(* Where they do cover what happens, it never shows.                       *)
SourceSurvives == Recoverable(setting) => SourceIsBaseline

(* diff_executor.py, execute: "Write modified source to disk so local      *)
(* CommandTarget runs it".  A diff is kept only on the strength of a       *)
(* command that ran the source with the diff applied.                      *)
KeptAsMeasured == pc = "persist" => measured = source \cup {diff}

(* It is so as long as no signal came in the way.                          *)
KeptAsMeasuredUnsignalled == signals = 0 => KeptAsMeasured

(* ADR-024: no marker outlives its trial, to be replayed over newer keeps  *)
(* by a later start, but one whose own I/O has failed since it was last    *)
(* written or removed.  Whatever else fails or signals on the way out, and *)
(* whatever is killed in the mode that recovers, it is gone; one that is   *)
(* left by an OSError goes with the next marker or recovery that succeeds. *)
NoStaleMarker ==
    setting.kills = {} \/ setting.mode = "continuous" =>
        (pc \in {"judge", "persist", "fill", "stopped"} => marker = Gone \/ stuck)

(* A shutdown request ends the loop, though the handler may interrupt any  *)
(* step on the way.                                                        *)
ShutdownStops == [](shutdown => <>(pc \in {"stopped", "dead"}))

=============================================================================
