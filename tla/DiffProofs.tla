------------------------------ MODULE DiffProofs ------------------------------
(***************************************************************************)
(* Proofs about DiffExecutor, for any diffs, any number of signals, kills  *)
(* and restarts, and any settings.                                         *)
(*                                                                         *)
(* Whether the source survives is decided by who will write it last.  At   *)
(* every point of a trial that is the main thread, the handler, or the     *)
(* recovery of the next process; InGoodHands says of each point what this  *)
(* one will write and that the marker it would write it from is complete.  *)
(***************************************************************************)
EXTENDS DiffExecutor, TLAPS

Trial == {"mark", "fillMark", "judge", "persist"} \cup Marked

(* A handler runs inside the guarded block, and only after a signal.       *)
HandlerInBlock == handlers # <<>> => pc \in Guarded /\ signals > 0

(* What the trial and the recovery work with is whole.                     *)
Whole ==
    /\ pc \in Trial =>
          diff \in Diffs /\ source \in SUBSET Diffs /\ modified \in SUBSET Diffs
    /\ pc = "fill" => modified \in SUBSET Diffs
    /\ pc \in {"recover", "unmark"} => marker # Gone

Sane == TypeOK /\ HandlerInBlock /\ Whole

(* As long as no signal comes, the file the commands run on is the one     *)
(* written for them, and an outcome that can be kept is a command's.       *)
MeasuresModified ==
    signals = 0 =>
        /\ pc \in Trial => modified = source \cup {diff}
        /\ pc = "write" => file = Torn
        /\ pc \in {"train", "eval"} => file = modified
        /\ pc \in {"undo", "refill", "restore", "rewrite", "judge", "persist"} =>
              measured = modified
        /\ pc \in {"uninstallTerm", "uninstallInt", "clear"} => raised \/ measured = modified

(* The marker lives as long as the trial, where a process that dies in one *)
(* is followed by one that recovers; a trial that does not know of its     *)
(* marker has failed to write it.                                          *)
Swept == setting.kills = {} \/ setting.mode = "continuous"

MarkerComesAndGoes ==
    Swept =>
        /\ pc \in {"propose", "mark", "judge", "persist", "fill", "stopped"} =>
              marker = Gone \/ stuck
        /\ pc \in Marked => marked \/ stuck
        /\ setting.mode = "run-one" => pc # "dead" /\ (pc = "boot" => marker = Gone \/ stuck)

(* Where a handler may have been at work, it or the trial gives the file   *)
(* back.                                                                   *)
GivenBack ==
    /\ pc \in {"keepTerm", "installInt", "keepInt", "truncate",
               "uninstallTerm", "uninstallInt", "clear"} => handlers # <<>> \/ file = baseline
    /\ handlers # <<>> /\ Innermost.at = "clear" => file = source

InGoodHands ==
    Recoverable(setting) =>
        /\ ~raised
        /\ setting.mode = "continuous" => ~stuck
        /\ pc \in {"propose", "mark", "fillMark", "installTerm", "judge", "unmark"} => file = baseline
        /\ pc \in {"mark", "fillMark"} \cup Marked => source = baseline
        /\ GivenBack
        /\ pc = "persist" => file # Torn /\ file \cup {diff} = baseline
        /\ pc = "fill" => modified = baseline
        /\ pc \in {"recover", "unmark"} => marker = baseline /\ setting.mode = "continuous"
        /\ pc \in Marked /\ setting.maxSignals = 0 /\ setting.mode = "continuous" => marker = baseline
        /\ pc \in {"boot", "dead", "stopped"} =>
              \/ (marker = Gone \/ setting.mode = "run-one") /\ file = baseline
              \/ marker = baseline /\ setting.mode = "continuous"

IndInv == Sane /\ MeasuresModified /\ MarkerComesAndGoes /\ InGoodHands

-----------------------------------------------------------------------------
(* Types, and who may be at work. *)

LEMMA SaneInit == Init => Sane
<1> SUFFICES ASSUME Init PROVE Sane
    OBVIOUS
<1>1. setting.maxSignals \in Nat /\ MaxRestarts \in Nat
    BY DiffAssumption DEF Init, SettingSet
<1>2. {} \in SUBSET Diffs /\ {} # Gone
    BY DiffAssumption
<1>3. TypeOK
    <2>1. signals \in 0..setting.maxSignals /\ restarts \in 0..MaxRestarts
        BY <1>1 DEF Init
    <2>2. handlers \in Stacks
        BY DEF Init, Stacks
    <2> QED BY <1>2, <2>1, <2>2 DEF Init, TypeOK, Contents, Steps
<1>4. HandlerInBlock /\ Whole
    BY DEF Init, HandlerInBlock, Whole, Guarded, Marked, Trial
<1> QED BY <1>3, <1>4 DEF Sane

(* A signal puts a frame on top of the stack, a handler moves the frame on *)
(* top, and takes it away when it ends.                                    *)
LEMMA FramesStack ==
    ASSUME handlers \in Stacks
    PROVE  /\ <<>> \in Stacks
           /\ \A frame \in Frames :
                 LET s == Append(handlers, frame)
                 IN  s \in Stacks /\ s # <<>> /\ s[Len(s)] = frame
           /\ handlers # <<>> =>
                 /\ Innermost \in Frames
                 /\ \A to \in {"truncate", "write", "clear"} :
                       LET s == [handlers EXCEPT ![Len(handlers)].at = to]
                       IN  s \in Stacks /\ s # <<>> /\ s[Len(s)].at = to
                 /\ SubSeq(handlers, 1, Len(handlers) - 1) \in Stacks
<1> USE DEF Stacks
<1>1. ASSUME NEW frame \in Frames
      PROVE  LET s == Append(handlers, frame)
             IN  s \in Seq(Frames) /\ s # <<>> /\ s[Len(s)] = frame
    BY <1>1
<1>2. ASSUME handlers # <<>>
      PROVE  Len(handlers) \in 1..Len(handlers) /\ Innermost \in Frames
    BY <1>2 DEF Innermost
<1>3. ASSUME handlers # <<>>, NEW to \in {"truncate", "write", "clear"}
      PROVE  LET s == [handlers EXCEPT ![Len(handlers)].at = to]
             IN  s \in Seq(Frames) /\ s # <<>> /\ s[Len(s)].at = to
    <2> DEFINE moved == [Innermost EXCEPT !.at = to]
               s == [handlers EXCEPT ![Len(handlers)] = moved]
    <2>1. moved \in Frames /\ moved.at = to
        BY <1>2, <1>3 DEF Frames
    <2>2. s \in Seq(Frames) /\ Len(s) = Len(handlers) /\ s[Len(s)] = moved
        BY <1>2, <1>3, <2>1
    <2>3. s # <<>>
        BY <1>2, <1>3, <2>2
    <2>4. s = [handlers EXCEPT ![Len(handlers)].at = to]
        BY DEF Innermost
    <2> QED BY <2>1, <2>2, <2>3, <2>4
<1>4. ASSUME handlers # <<>>
      PROVE  SubSeq(handlers, 1, Len(handlers) - 1) \in Seq(Frames)
    BY <1>2, <1>4
<1> QED BY <1>1, <1>2, <1>3, <1>4

LEMMA SaneStep == Sane /\ [Next]_vars => Sane'
<1> SUFFICES ASSUME Sane, [Next]_vars PROVE Sane'
    OBVIOUS
<1> USE DEF Sane, TypeOK, HandlerInBlock, Whole, Contents, Steps, Marked, Guarded, Trial,
            Main, sidecar, disk, locals, env
<1>a. /\ setting \in SettingSet /\ setting.maxSignals \in Nat
      /\ \A content \in SUBSET Diffs : Torn # content /\ Gone # content
      /\ Torn # Gone /\ MaxRestarts \in Nat
    BY DiffAssumption DEF SettingSet
<1>1. CASE SkipRecovery \/ Recover \/ FillRecovered \/ Unmark
    <2>1. CASE SkipRecovery
        BY <1>a, <2>1 DEF SkipRecovery
    <2>2. CASE Recover
        BY <1>a, <2>2 DEF Recover
    <2>3. CASE FillRecovered
        BY <1>a, <2>3 DEF FillRecovered
    <2>4. CASE Unmark
        <3>1. /\ pc' = "propose" /\ marker' = Gone /\ stuck' \in BOOLEAN
              /\ UNCHANGED <<handlers, file, baseline, locals, env>>
            BY <2>4 DEF Unmark
        <3>2. TypeOK'
            BY <3>1
        <3>3. HandlerInBlock' /\ Whole'
            BY <2>4 DEF Unmark
        <3> QED BY <3>2, <3>3
    <2> QED BY <1>1, <2>1, <2>2, <2>3, <2>4
<1>2. CASE RecoverFails \/ RecoverRaises
    <2>1. CASE RecoverFails
        BY <1>a, <2>1 DEF RecoverFails
    <2>2. CASE RecoverRaises
        BY <1>a, <2>2 DEF RecoverRaises
    <2> QED BY <1>2, <2>1, <2>2
<1>3. ASSUME NEW d \in Diffs, Propose(d) PROVE Sane'
    BY <1>a, <1>3 DEF Propose
<1>4. ASSUME NEW d \in Diffs, Reject(d) PROVE Sane'
    BY <1>a, <1>4 DEF Reject, AfterTrial
<1>5. CASE Stop \/ Mark \/ FillMark \/ MarkFails
    <2>1. CASE Stop
        BY <1>a, <2>1 DEF Stop
    <2>2. CASE Mark
        BY <1>a, <2>2 DEF Mark
    <2>3. CASE FillMark
        BY <1>a, <2>3 DEF FillMark
    <2>4. CASE MarkFails
        BY <1>a, <2>4 DEF MarkFails
    <2> QED BY <1>5, <2>1, <2>2, <2>3, <2>4
<1>6. CASE Install \/ Truncate \/ Write \/ WriteFails
    <2>1. CASE Install
        BY <1>a, <2>1 DEF Install
    <2>2. CASE Truncate
        BY <1>a, <2>2 DEF Truncate
    <2>3. CASE Write
        BY <1>a, <2>3 DEF Write
    <2>4. CASE WriteFails
        BY <1>a, <2>4 DEF WriteFails
    <2> QED BY <1>6, <2>1, <2>2, <2>3, <2>4
<1>7. CASE Train \/ Eval
    BY <1>a, <1>7 DEF Train, Eval
<1>8. CASE Restore \/ Rewrite \/ RewriteFails
    <2>1. CASE Restore
        BY <1>a, <2>1 DEF Restore
    <2>2. CASE Rewrite
        BY <1>a, <2>2 DEF Rewrite
    <2>3. CASE RewriteFails
        BY <1>a, <2>3 DEF RewriteFails
    <2> QED BY <1>8, <2>1, <2>2, <2>3
<1>9. CASE Uninstall \/ Clear
    <2>1. CASE Uninstall
        BY <1>a, <2>1 DEF Uninstall
    <2>2. CASE Clear
        BY <1>a, <2>2 DEF Clear, Unlink
    <2> QED BY <1>9, <2>1, <2>2
<1>10. CASE Discard \/ Keep
    BY <1>a, <1>10 DEF Discard, Keep, AfterTrial
<1>11. CASE Persist \/ PersistRefused \/ Fill \/ PersistFails
    <2>1. CASE Persist
        BY <1>a, <2>1 DEF Persist
    <2>2. CASE PersistRefused
        BY <1>a, <2>2 DEF PersistRefused, AfterTrial
    <2>3. CASE Fill
        BY <1>a, <2>3 DEF Fill, AfterTrial
    <2>4. CASE PersistFails
        BY <1>a, <2>4 DEF PersistFails
    <2> QED BY <1>11, <2>1, <2>2, <2>3, <2>4
<1>12. CASE HandlerStep
    <2>1. handlers # <<>> /\ pc \in Guarded /\ signals > 0 /\ source \in SUBSET Diffs
        BY <1>12 DEF HandlerStep, HandlerTruncate, HandlerWrite, HandlerFails, HandlerClear,
           Handler
    <2>2. handlers' \in Stacks
        BY <1>12, <2>1, FramesStack DEF HandlerStep, HandlerTruncate, HandlerWrite,
           HandlerFails, HandlerClear, Handler
    <2>3. /\ file' \in {Torn, source, file}
          /\ marker' \in {marker, Gone} /\ stuck' \in BOOLEAN
          /\ UNCHANGED <<pc, baseline, locals, setting, proposed, signals, restarts>>
        BY <1>12 DEF HandlerStep, HandlerTruncate, HandlerWrite, HandlerFails, HandlerClear,
           Unlink
    <2>4. shutdown' \in BOOLEAN
        <3>1. Innermost.chains \in BOOLEAN
            BY <2>1, FramesStack DEF Frames
        <3> QED BY <1>12, <3>1 DEF HandlerStep, HandlerTruncate, HandlerWrite, HandlerFails,
                   HandlerClear
    <2>5. file' # Gone /\ file' \in Contents /\ marker' \in {Gone} \cup Contents
        BY <1>a, <2>1, <2>3
    <2>6. TypeOK'
        BY <2>2, <2>3, <2>4, <2>5
    <2>7. HandlerInBlock' /\ Whole'
        BY <1>a, <2>1, <2>3
    <2> QED BY <2>6, <2>7
<1>13. ASSUME NEW signal \in Signals, Signal(signal) PROVE Sane'
    <2>1. handlers' \in Stacks
        <3>1. [at |-> "truncate", chains |-> Known(signal)] \in Frames
            <4>1. Known(signal) \in BOOLEAN
                BY DEF Known
            <4> QED BY <4>1 DEF Frames
        <3> QED BY <1>13, <3>1, FramesStack DEF Signal
    <2>2. shutdown' \in BOOLEAN /\ UNCHANGED <<pc, disk, locals, setting, proposed, restarts>>
        BY <1>13 DEF Signal
    <2>3. signals' > 0 /\ signals' \in 0..setting.maxSignals
        <3>1. signals < setting.maxSignals /\ signals' = signals + 1
            BY <1>13 DEF Signal
        <3> QED BY <1>a, <3>1
    <2>4. TypeOK'
        <3>1. signals' \in 0..setting'.maxSignals
            BY <2>2, <2>3
        <3>2. /\ UNCHANGED <<pc, file, marker, stuck, baseline, diff, source, modified, marked>>
              /\ UNCHANGED <<result, measured, raised, setting, proposed, restarts>>
            BY <2>2
        <3>3. shutdown' \in BOOLEAN
            BY <2>2
        <3> QED BY <2>1, <3>1, <3>2, <3>3
    <2>5. HandlerInBlock' /\ Whole'
        BY <1>13, <2>2, <2>3 DEF Signal, Handled
    <2> QED BY <2>4, <2>5
<1>14. CASE Kill \/ Boot
    <2>1. restarts' \in 0..MaxRestarts
        BY <1>a, <1>14 DEF Kill, Boot
    <2>2. /\ pc' \in {"dead", "boot"} /\ handlers' \in {<<>>, handlers}
          /\ shutdown' \in BOOLEAN
          /\ UNCHANGED <<disk, locals, setting, proposed, signals>>
        BY <1>14 DEF Kill, Boot
    <2>3. handlers' \in Stacks
        BY <2>2, FramesStack
    <2>4. /\ UNCHANGED <<file, marker, stuck, baseline, diff, source, modified, marked>>
          /\ UNCHANGED <<result, measured, raised, setting, proposed, signals>>
        BY <2>2
    <2>5. TypeOK'
        BY <2>1, <2>2, <2>3, <2>4
    <2>6. HandlerInBlock' /\ Whole'
        BY <1>14 DEF Kill, Boot
    <2> QED BY <2>5, <2>6
<1>15. CASE UNCHANGED vars
    BY <1>a, <1>15 DEF vars
<1> QED BY <1>1, <1>2, <1>3, <1>4, <1>5, <1>6, <1>7, <1>8, <1>9, <1>10, <1>11, <1>12,
           <1>13, <1>14, <1>15 DEF Next, MainStep

-----------------------------------------------------------------------------
(* What was measured. *)

LEMMA MeasuredInit == Init => MeasuresModified
BY DEF Init, MeasuresModified, Trial, Marked

LEMMA MeasuredStep ==
    Sane /\ MeasuresModified /\ [Next]_vars => MeasuresModified'
<1> SUFFICES ASSUME Sane, MeasuresModified, [Next]_vars, signals' = 0
             PROVE  MeasuresModified'
    BY DEF MeasuresModified
<1> USE DEF Trial, Marked, Guarded, Main, sidecar, disk, locals, env
<1>a. setting \in SettingSet /\ signals \in Nat /\ setting.maxSignals \in Nat
    BY DiffAssumption DEF Sane, TypeOK, SettingSet
<1>1. CASE SkipRecovery \/ Recover \/ FillRecovered \/ Unmark
    BY <1>1 DEF SkipRecovery, Recover, FillRecovered, Unmark, MeasuresModified
<1>2. CASE RecoverFails \/ RecoverRaises
    BY <1>2 DEF RecoverFails, RecoverRaises, MeasuresModified
<1>3. ASSUME NEW d \in Diffs, Propose(d) PROVE MeasuresModified'
    BY <1>3 DEF Propose, MeasuresModified
<1>4. ASSUME NEW d \in Diffs, Reject(d) PROVE MeasuresModified'
    BY <1>4 DEF Reject, AfterTrial, MeasuresModified
<1>5. CASE Stop \/ Mark \/ FillMark \/ MarkFails
    BY <1>5 DEF Stop, Mark, FillMark, MarkFails, MeasuresModified
<1>6. CASE Install \/ Truncate \/ Write \/ WriteFails
    BY <1>6 DEF Install, Truncate, Write, WriteFails, MeasuresModified
<1>7. CASE Train \/ Eval
    BY <1>7 DEF Train, Eval, MeasuresModified
<1>8. CASE Restore \/ Rewrite \/ RewriteFails
    BY <1>8 DEF Restore, Rewrite, RewriteFails, MeasuresModified
<1>9. CASE Uninstall \/ Clear
    BY <1>9 DEF Uninstall, Clear, MeasuresModified
<1>10. CASE Discard \/ Keep
    BY <1>10 DEF Discard, Keep, AfterTrial, MeasuresModified
<1>11. CASE Persist \/ PersistRefused \/ Fill \/ PersistFails
    BY <1>11 DEF Persist, PersistRefused, Fill, PersistFails, AfterTrial, MeasuresModified
<1>12. CASE HandlerStep                        \* a signal has come
    BY <1>a, <1>12 DEF HandlerStep, HandlerTruncate, HandlerWrite, HandlerFails, HandlerClear,
       Handler, Sane, HandlerInBlock
<1>13. ASSUME NEW signal \in Signals, Signal(signal) PROVE FALSE
    BY <1>a, <1>13 DEF Signal
<1>14. CASE Kill \/ Boot
    BY <1>14 DEF Kill, Boot, MeasuresModified
<1>15. CASE UNCHANGED vars
    BY <1>15 DEF vars, MeasuresModified
<1> QED BY <1>1, <1>2, <1>3, <1>4, <1>5, <1>6, <1>7, <1>8, <1>9, <1>10, <1>11, <1>12, <1>13,
           <1>14, <1>15 DEF Next, MainStep

-----------------------------------------------------------------------------
(* The marker. *)

LEMMA MarkerInit == Init => MarkerComesAndGoes
BY DEF Init, MarkerComesAndGoes, Marked

LEMMA MarkerStep == Sane /\ MarkerComesAndGoes /\ [Next]_vars => MarkerComesAndGoes'
<1> SUFFICES ASSUME Sane, MarkerComesAndGoes, [Next]_vars PROVE MarkerComesAndGoes'
    OBVIOUS
<1> USE DEF MarkerComesAndGoes, Swept, Marked, Guarded, Main, sidecar, disk, locals, env
<1>a. /\ setting.mode \in {"continuous", "run-one"}
      /\ HandlerInBlock
      /\ \A p : pc = p /\ setting.kills = {} => p \notin setting.kills
    BY DiffAssumption DEF Sane, TypeOK, SettingSet
<1>1. CASE SkipRecovery \/ Recover \/ FillRecovered \/ Unmark
    BY <1>a, <1>1 DEF SkipRecovery, Recover, FillRecovered, Unmark
<1>2. CASE RecoverFails \/ RecoverRaises
    BY <1>a, <1>2 DEF RecoverFails, RecoverRaises
<1>3. ASSUME NEW d \in Diffs, Propose(d) \/ Reject(d) PROVE MarkerComesAndGoes'
    BY <1>a, <1>3 DEF Propose, Reject, AfterTrial
<1>4. CASE Stop \/ Mark \/ FillMark \/ MarkFails
    BY <1>a, <1>4 DEF Stop, Mark, FillMark, MarkFails
<1>5. CASE Install \/ Truncate \/ Write \/ WriteFails
    BY <1>a, <1>5 DEF Install, Truncate, Write, WriteFails
<1>6. CASE Train \/ Eval
    BY <1>a, <1>6 DEF Train, Eval
<1>7. CASE Restore \/ Rewrite \/ RewriteFails
    BY <1>a, <1>7 DEF Restore, Rewrite, RewriteFails
<1>8. CASE Uninstall \/ Clear
    BY <1>a, <1>8 DEF Uninstall, Clear, Unlink
<1>9. CASE Discard \/ Keep
    BY <1>a, <1>9 DEF Discard, Keep, AfterTrial
<1>10. CASE Persist \/ PersistRefused \/ Fill \/ PersistFails
    BY <1>a, <1>10 DEF Persist, PersistRefused, Fill, PersistFails, AfterTrial
<1>11. CASE HandlerStep
    <2>1. pc \in Guarded /\ pc' = pc /\ UNCHANGED <<setting, locals>>
        BY <1>a, <1>11 DEF HandlerStep, HandlerTruncate, HandlerWrite, HandlerFails,
           HandlerClear, Handler, HandlerInBlock
    <2>2. marked' = marked /\ (stuck' = stuck \/ (marked /\ stuck' \in BOOLEAN))
        BY <1>11, <2>1 DEF HandlerStep, HandlerTruncate, HandlerWrite, HandlerFails,
           HandlerClear, Unlink
    <2> QED BY <2>1, <2>2
<1>12. ASSUME NEW signal \in Signals, Signal(signal) PROVE MarkerComesAndGoes'
    BY <1>a, <1>12 DEF Signal
<1>13. CASE Kill \/ Boot
    BY <1>a, <1>13 DEF Kill, Boot
<1>14. CASE UNCHANGED vars
    BY <1>a, <1>14 DEF vars
<1> QED BY <1>1, <1>2, <1>3, <1>4, <1>5, <1>6, <1>7, <1>8, <1>9, <1>10, <1>11, <1>12, <1>13,
           <1>14 DEF Next, MainStep

-----------------------------------------------------------------------------
(* The source: whoever has just had it is about to give it back. *)

LEMMA HandsInit == Init => InGoodHands
BY DEF Init, InGoodHands, GivenBack, Marked

LEMMA HandsStep ==
    Sane /\ MarkerComesAndGoes /\ InGoodHands /\ [Next]_vars => InGoodHands'
<1> SUFFICES ASSUME Sane, MarkerComesAndGoes, InGoodHands, [Next]_vars, Recoverable(setting')
             PROVE  InGoodHands'
    BY DEF InGoodHands
<1> USE DEF InGoodHands, GivenBack, Marked, Guarded, Main, sidecar, disk, locals, env
<1>a. setting' = setting /\ setting \in SettingSet
    BY DiffAssumption DEF Next, MainStep, HandlerStep, Sane, TypeOK,
       SkipRecovery, Recover, FillRecovered, Unmark, RecoverFails, RecoverRaises, Propose,
       Reject, Stop, Mark, FillMark, MarkFails, Install, Truncate, Write, WriteFails, Train,
       Eval, Restore, Rewrite, RewriteFails, Uninstall, Clear, Discard, Keep, Persist,
       PersistRefused, Fill, PersistFails, HandlerTruncate, HandlerWrite, HandlerFails,
       HandlerClear, Signal, Kill, Boot, vars
<1>b. /\ setting.mode \in {"continuous", "run-one"} /\ ~Fails("file")
      /\ ~Fails("marker") \/ setting.mode = "run-one"
      /\ setting.maxSignals \in Nat
      /\ \/ setting.kills = {}
         \/ /\ setting.mode = "continuous" /\ setting.maxSignals = 0
            /\ "fillMark" \notin setting.kills /\ "persist" \notin setting.kills
            /\ "fill" \notin setting.kills
    BY <1>a DEF Recoverable, SettingSet, Tearing, Fails
<1>c. /\ HandlerInBlock /\ Whole /\ signals \in 0..setting.maxSignals
      /\ handlers \in Stacks
      /\ file # Gone /\ Torn # Gone /\ baseline # Gone /\ baseline # Torn
    BY DiffAssumption DEF Sane, TypeOK
<1>d. /\ setting.mode = "continuous" =>
            (pc \in {"propose", "mark", "judge", "persist", "fill", "stopped"} => marker = Gone)
      /\ setting.mode = "continuous" => (pc \in Marked => marked)
    BY <1>a, <1>b DEF MarkerComesAndGoes, Swept
<1> USE <1>a, <1>b, <1>c, <1>d
<1>1. CASE SkipRecovery
    BY <1>1 DEF SkipRecovery
<1>2. CASE Recover \/ FillRecovered \/ Unmark
    BY <1>2 DEF Recover, FillRecovered, Unmark
<1>3. CASE RecoverFails \/ RecoverRaises
    BY <1>3 DEF RecoverFails, RecoverRaises
<1>4. ASSUME NEW d \in Diffs, Propose(d) \/ Reject(d) PROVE InGoodHands'
    BY <1>4 DEF Propose, Reject, AfterTrial
<1>5. CASE Stop \/ Mark \/ FillMark \/ MarkFails
    BY <1>5 DEF Stop, Mark, FillMark, MarkFails
<1>6. CASE Install
    BY <1>6 DEF Install
<1>7. CASE Truncate \/ Write \/ WriteFails
    BY <1>7 DEF Truncate, Write, WriteFails
<1>8. CASE Train \/ Eval
    BY <1>8 DEF Train, Eval
<1>9. CASE Restore \/ Rewrite \/ RewriteFails
    BY <1>9 DEF Restore, Rewrite, RewriteFails
<1>10. CASE Uninstall \/ Clear
    BY <1>10 DEF Uninstall, Clear, Unlink
<1>11. CASE Discard \/ Keep
    BY <1>11 DEF Discard, Keep, AfterTrial
<1>12. CASE Persist \/ PersistRefused \/ Fill \/ PersistFails
    BY <1>12 DEF Persist, PersistRefused, Fill, PersistFails, AfterTrial
<1>13. CASE HandlerStep
    <2>1. /\ handlers # <<>> /\ pc \in Guarded /\ source = baseline
          /\ setting.maxSignals # 0
        BY <1>13 DEF HandlerStep, HandlerTruncate, HandlerWrite, HandlerFails, HandlerClear,
           Handler, HandlerInBlock
    <2>2. pc' = pc /\ UNCHANGED <<baseline, locals, setting>>
        BY <1>13 DEF HandlerStep, HandlerTruncate, HandlerWrite, HandlerFails, HandlerClear
    <2>3. CASE HandlerTruncate
        <3>1. handlers' # <<>> /\ Innermost'.at = "write" /\ stuck' = stuck
            BY <2>1, <2>3, FramesStack DEF HandlerTruncate, Handler, Innermost
        <3> QED BY <2>1, <2>2, <3>1
    <2>4. CASE HandlerWrite
        <3>1. handlers' # <<>> /\ file' = source /\ stuck' = stuck
            BY <2>1, <2>4, FramesStack DEF HandlerWrite, Handler
        <3> QED BY <2>1, <2>2, <3>1
    <2>5. CASE HandlerFails
        BY <2>5 DEF HandlerFails
    <2>6. CASE HandlerClear
        <3>1. file = source /\ file' = file
            BY <2>1, <2>6 DEF HandlerClear
        <3>2. setting.mode = "continuous" => ~stuck'
            BY <2>1, <2>6 DEF HandlerClear, Unlink
        <3> QED BY <2>1, <2>2, <3>1, <3>2
    <2> QED BY <1>13, <2>3, <2>4, <2>5, <2>6 DEF HandlerStep
<1>14. ASSUME NEW signal \in Signals, Signal(signal) PROVE InGoodHands'
    <2>1. /\ UNCHANGED <<pc, disk, locals, setting>>
          /\ handlers' = handlers \/ (handlers' # <<>> /\ Innermost'.at = "truncate")
        <3>1. [at |-> "truncate", chains |-> Known(signal)] \in Frames
            <4>1. Known(signal) \in BOOLEAN
                BY DEF Known
            <4> QED BY <4>1 DEF Frames
        <3> QED BY <1>14, <3>1, FramesStack DEF Signal, Innermost
    <2>2. handlers' = handlers => Innermost' = Innermost
        BY DEF Innermost
    <2> QED BY <2>1, <2>2
<1>15. CASE Kill
    <2>1. /\ setting.mode = "continuous" /\ setting.maxSignals = 0 /\ handlers = <<>>
          /\ pc \in Steps \ {"fillMark", "persist", "fill"}
        BY <1>15 DEF Kill, HandlerInBlock
    <2>2. \/ marker = Gone /\ file = baseline
          \/ marker = baseline
        BY <2>1 DEF Steps
    <2>3. pc' = "dead" /\ handlers' = <<>> /\ UNCHANGED <<disk, locals, setting>>
        BY <1>15 DEF Kill
    <2> QED BY <2>1, <2>2, <2>3
<1>16. CASE Boot
    BY <1>16 DEF Boot, HandlerInBlock
<1>17. CASE UNCHANGED vars
    <2>1. Innermost' = Innermost
        BY <1>17 DEF vars, Innermost
    <2> QED BY <1>17, <2>1 DEF vars
<1> QED BY <1>1, <1>2, <1>3, <1>4, <1>5, <1>6, <1>7, <1>8, <1>9, <1>10, <1>11, <1>12,
           <1>13, <1>14, <1>15, <1>16, <1>17 DEF Next, MainStep

-----------------------------------------------------------------------------

LEMMA Inductive == Spec => []IndInv
<1>1. Init => IndInv
    BY SaneInit, MeasuredInit, MarkerInit, HandsInit DEF IndInv
<1>2. IndInv /\ [Next]_vars => IndInv'
    BY SaneStep, MeasuredStep, MarkerStep, HandsStep DEF IndInv
<1> QED BY <1>1, <1>2, PTL DEF Spec

(* Every reachable state of the executor, its handler and its files is     *)
(* well typed.                                                             *)
THEOREM DiffTyped == Spec => []TypeOK
<1>1. IndInv => TypeOK
    BY DEF IndInv, Sane
<1> QED BY <1>1, Inductive, PTL

(* A diff that is kept was measured by a command that ran the source with  *)
(* the diff applied, whatever command fails and however the process is     *)
(* killed and restarted, until a signal comes.                             *)
THEOREM KeptWasMeasured == Spec => []KeptAsMeasuredUnsignalled
<1>1. IndInv => KeptAsMeasuredUnsignalled
    BY DEF IndInv, MeasuresModified, KeptAsMeasuredUnsignalled, KeptAsMeasured, Trial
<1> QED BY <1>1, Inductive, PTL

(* A marker that outlives its trial is one whose own I/O has failed since  *)
(* it was last written or removed, whatever else fails, for any number of  *)
(* signals, nested handlers, kills and restarts.                           *)
THEOREM MarkerSwept == Spec => []NoStaleMarker
<1>1. IndInv => NoStaleMarker
    BY DEF IndInv, MarkerComesAndGoes, NoStaleMarker, Swept
<1> QED BY <1>1, Inductive, PTL

(* Where the marker and the handler cover what interrupts the trials, the  *)
(* source a proposal starts from is the kept diffs and nothing else, for   *)
(* any diffs and any number of signals, kills and restarts.                *)
THEOREM SourceRestored == Spec => []SourceSurvives
<1>1. IndInv => SourceSurvives
    BY DEF IndInv, InGoodHands, SourceSurvives, SourceIsBaseline
<1> QED BY <1>1, Inductive, PTL

=============================================================================
