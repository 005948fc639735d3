------------------------------ MODULE TrialProofs ------------------------------
(***************************************************************************)
(* Proofs about TrialScript, for any number of steps, interval of probes,  *)
(* scores, polls and faults.                                               *)
(*                                                                         *)
(* What outcome.json holds rests on the payload of the call that writes    *)
(* it: Written says of each phase of _write_outcome what the temporary     *)
(* file holds, and Earned what an "ok" may be written for.                 *)
(***************************************************************************)
EXTENDS TrialScript, SequenceTheorems, TLAPS

Writing == {"opening", "filling", "closing", "renaming"}
Late == Writing \cup {"leaving", "unwinding", "exited"}

(* The call of _write_outcome under way, and what it leaves. *)
Written ==
    /\ pc \in Writing => payload # None
    /\ unflushed # {} => "closing" \in interrupted
    /\ pc = "renaming" => tmp = payload
    /\ pc \in {"leaving", "unwinding"} => outcome # None \/ unwritten
    /\ OutcomeIsWhole
    /\ ExitsLeaveOutcome

(* No probe before its step, and best_probe_auroc is the best of them. *)
BestOfProbes ==
    /\ pc = "probe" => Len(probes) < step
    /\ \A i \in 1..Len(probes) : probes[i] <= best
    /\ best = 0 \/ \E i \in 1..Len(probes) : probes[i] = best

(* An ijepa-cifar10 payload that says "ok" is that of a finished trial. *)
IsEarned(what) ==
    what \in Payloads /\ what.status = "ok" =>
        step = MaxSteps /\ canary # "high" /\ what.score = best

PayloadsEarned ==
    /\ pc \notin Late => payload = None /\ tmp = None /\ outcome = None /\ unflushed = {}
    /\ pc \in {"train", "probe", "print"} => canary # "high"
    /\ pc = "emit" /\ step > 0 => canary # "high"
    /\ pc \in {"imports", "canary", "gate"} => step = 0
    /\ script = "ijepa" => /\ IsEarned(payload) /\ IsEarned(tmp) /\ IsEarned(outcome)
                           /\ \A what \in unflushed : IsEarned(what)

(* An ijepa-cifar10 log holds no metric; a reported trial is over. *)
Quiet == script = "ijepa" => ~printed

Reported == (report # None => pc = "exited") /\ OkIsEarned

-----------------------------------------------------------------------------
(* Type correctness. *)

LEMMA PayloadsTyped ==
    /\ None \notin Payloads /\ Torn \notin Payloads /\ Torn # None
    /\ \A s \in {"ok", "failed", "completed"}, n \in Scores \cup {0, None} :
          [status |-> s, score |-> n] \in Payloads
<1>0. Scores \subseteq Nat
    BY ScriptAssumption, Zenon DEF ScriptAssumption
<1>1. Scores \cup {0, None} \subseteq Nat \cup {None}
    <2>1. 0 \in Nat
        OBVIOUS
    <2> QED BY <1>0, <2>1, Zenon
<1>2. Payloads \subseteq [status : {"ok", "failed", "completed"}, score : Nat \cup {None}]
    BY <1>1 DEF Payloads
<1>3. None \notin Payloads /\ Torn \notin Payloads /\ Torn # None
    BY <1>2, ScriptAssumption DEF ScriptAssumption
<1> QED BY <1>3 DEF Payloads

LEMMA LastTyped == TypeOK => LastProbe \in Scores \cup {None}
<1> SUFFICES ASSUME TypeOK, probes # <<>> PROVE probes[Len(probes)] \in Scores
    BY DEF LastProbe
<1>1. probes \in Seq(Scores) /\ Len(probes) \in Nat /\ Len(probes) # 0
    BY EmptySeq DEF TypeOK
<1>2. Len(probes) \in 1..Len(probes)
    BY <1>1
<1> QED BY <1>1, <1>2, ElementOfSeq

LEMMA FailedTyped == TypeOK => FailedPayload \in Payloads /\ FailedPayload.status = "failed"
BY LastTyped, PayloadsTyped DEF FailedPayload

LEMMA FinalTyped == TypeOK => FinalPayload \in Payloads
<1> SUFFICES ASSUME TypeOK PROVE FinalPayload \in Payloads
    OBVIOUS
<1>1. best \in Scores \cup {0, None} /\ LastProbe \in Scores \cup {0, None}
    BY LastTyped DEF TypeOK
<1> QED BY <1>1, PayloadsTyped DEF FinalPayload, IjepaFinal, TraceFinal

Reports == [status : {"ok", "failed"}, score : Scores \cup {0, None},
            by : {"outcome", "log", "timeout"}]

LEMMA ReportsTyped == None \notin Reports
<1>0. Scores \subseteq Nat
    BY ScriptAssumption, Zenon DEF ScriptAssumption
<1>1. Scores \cup {0, None} \subseteq Nat \cup {None}
    <2>1. 0 \in Nat
        OBVIOUS
    <2> QED BY <1>0, <2>1, Zenon
<1>2. Reports \subseteq [status : {"ok", "failed"}, score : Nat \cup {None},
                         by : {"outcome", "log", "timeout"}]
    BY <1>1 DEF Reports
<1> QED BY <1>2, ScriptAssumption DEF ScriptAssumption

(* A poll finds nothing, and then time is left, or a report. *)
LEMMA AnswerTyped == TypeOK => (Answer = None /\ polls # MaxPolls) \/ Answer \in Reports
<1> SUFFICES ASSUME TypeOK
             PROVE  (Answer = None /\ polls # MaxPolls) \/ Answer \in Reports
    OBVIOUS
<1>1. LastProbe \in Scores \cup {0, None}
    BY LastTyped
<1>2. outcome \notin {None, Torn} => outcome.score \in Scores \cup {0, None}
    BY DEF TypeOK, Payloads
<1> QED BY <1>1, <1>2 DEF Answer, Reports

(* The part of the state main computes with. *)
MainTyped ==
    /\ script \in Scripts /\ pc \in Phases
    /\ step \in 0..MaxSteps /\ canary \in CanaryLosses \cup {None}
    /\ best \in Scores \cup {0} /\ probes \in Seq(Scores) /\ Len(probes) <= step

(* The part _write_outcome and the adapter see. *)
OutcomeTyped ==
    /\ payload \in Payloads \cup {None} /\ code \in Codes \cup {None}
    /\ interrupted \subseteq Phases /\ unflushed \subseteq Payloads
    /\ tmp \in Payloads \cup {None, Torn} /\ outcome \in Payloads \cup {None, Torn}
    /\ polls \in 0..MaxPolls /\ faults \in 0..MaxFaults
    /\ report = None \/ report \in Reports

FlagsTyped == unwritten \in BOOLEAN /\ printed \in BOOLEAN /\ cancel \in BOOLEAN

LEMMA TypeParts == TypeOK <=> MainTyped /\ OutcomeTyped /\ FlagsTyped
BY Zenon DEF TypeOK, MainTyped, OutcomeTyped, FlagsTyped, Reports

LEMMA FaultTyped == TypeOK /\ Fault => faults' \in 0..MaxFaults
BY ScriptAssumption DEF TypeOK, Fault, ScriptAssumption

LEMMA MainStep ==
    ASSUME TypeOK, BestOfProbes, [Next]_vars
    PROVE  MainTyped'
<1> USE ScriptAssumption DEF TypeOK, MainTyped, Phases, mainVars
<1>1. CASE Prepare
    BY <1>1 DEF Prepare, IjepaLoads, TraceLoads, Leave
<1>2. CASE RunCanary
    BY <1>2 DEF RunCanary
<1>3. CASE EmitProgress \/ CanaryGate \/ PrintProbe \/ Complete
    BY <1>3 DEF EmitProgress, CanaryGate, PrintProbe, Complete, Leave, Exit
<1>4. CASE TrainStep
    <2>1. step' \in {step, step + 1} /\ step < MaxSteps /\ UNCHANGED <<script, canary, best, probes>>
          /\ pc' \in Phases
        BY <1>4 DEF TrainStep, IjepaStep, TraceStep, OneStep, NanGuard, Leave
    <2>2. step' \in 0..MaxSteps /\ Len(probes) <= step' /\ Len(probes) \in Nat
        BY <2>1 DEF ScriptAssumption
    <2> QED BY <2>1, <2>2
<1>5. CASE Probe
    <2>1. PICK score \in Scores : /\ probes' = Append(probes, score)
                                  /\ best' = IF score > best THEN score ELSE best
        BY <1>5 DEF Probe
    <2>2. probes' \in Seq(Scores) /\ Len(probes') = Len(probes) + 1 /\ Len(probes) \in Nat
        BY <2>1, AppendProperties
    <2>3. Len(probes) < step
        BY <1>5 DEF Probe, BestOfProbes
    <2> QED BY <1>5, <2>1, <2>2, <2>3 DEF Probe
<1>6. CASE OpenTmp \/ Fill \/ CloseTmp \/ Rename \/ Return
    BY <1>6 DEF OpenTmp, Fill, CloseTmp, Rename, Return, WriteFails
<1>7. CASE Unwind \/ Sigterm \/ Kill
    BY <1>7 DEF Unwind, Sigterm, Leave, Kill
<1>8. CASE Raise \/ GuardCancels \/ Poll
    BY <1>8 DEF Raise, Entrypoint, NoEntrypoint, Leave, Exit, GuardCancels, Poll
<1>9. CASE UNCHANGED vars
    BY <1>9 DEF vars
<1> QED BY <1>1, <1>2, <1>3, <1>4, <1>5, <1>6, <1>7, <1>8, <1>9 DEF Next, Main

LEMMA OutcomeStep ==
    ASSUME TypeOK, Written, [Next]_vars
    PROVE  OutcomeTyped'
<1> USE FaultTyped DEF OutcomeTyped, Codes, trapVars, fileVars, adapter
<1>0. OutcomeTyped
    BY TypeParts
<1>1. CASE Prepare
    BY <1>0, <1>1, FailedTyped DEF Prepare, IjepaLoads, TraceLoads, Leave
<1>2. CASE RunCanary
    BY <1>0, <1>2 DEF RunCanary
<1>3. CASE EmitProgress \/ CanaryGate \/ PrintProbe \/ Complete
    BY <1>0, <1>3, FailedTyped, FinalTyped
       DEF EmitProgress, CanaryGate, PrintProbe, Complete, Leave, Exit
<1>4. CASE TrainStep
    BY <1>0, <1>4, FailedTyped DEF TrainStep, IjepaStep, TraceStep, OneStep, NanGuard, Leave
<1>5. CASE Probe
    BY <1>0, <1>5 DEF Probe
<1>6. CASE OpenTmp \/ Fill \/ CloseTmp \/ Rename \/ Return
    BY <1>0, <1>6 DEF OpenTmp, Fill, CloseTmp, Rename, Return, WriteFails
<1>7. CASE Unwind \/ Sigterm \/ Kill
    <2>1. CASE Unwind
        BY <1>0, <2>1 DEF Unwind
    <2>2. CASE Sigterm
        <3>1. pc \in Phases /\ FailedPayload \in Payloads
            BY FailedTyped DEF TypeOK
        <3>2. pc = "closing" => payload \in Payloads
            BY <1>0 DEF Written, Writing
        <3>3. interrupted' \subseteq Phases /\ unflushed' \subseteq Payloads
            BY <1>0, <2>2, <3>1, <3>2 DEF Sigterm
        <3> QED BY <1>0, <2>2, <3>1, <3>3 DEF Sigterm, Leave
    <2>3. CASE Kill
        BY <1>0, <2>3 DEF Kill
    <2> QED BY <1>7, <2>1, <2>2, <2>3
<1>8. CASE Raise \/ GuardCancels
    BY <1>0, <1>8, FailedTyped DEF Raise, Entrypoint, NoEntrypoint, Leave, Exit, GuardCancels
<1>9. CASE Poll
    <2>1. report' = None \/ report' \in Reports
        BY <1>9, AnswerTyped DEF Poll
    <2>2. polls' \in 0..MaxPolls
        <3>1. CASE Answer = None
            <4>1. polls # MaxPolls
                BY <3>1, AnswerTyped, ReportsTyped
            <4> QED BY <1>0, <1>9, <3>1, <4>1, ScriptAssumption DEF Poll, ScriptAssumption
        <3>2. CASE Answer # None
            BY <1>0, <1>9, <3>2 DEF Poll
        <3> QED BY <3>1, <3>2
    <2> QED BY <1>0, <1>9, <2>1, <2>2 DEF Poll
<1>10. CASE UNCHANGED vars
    BY <1>0, <1>10 DEF vars
<1> QED BY <1>1, <1>2, <1>3, <1>4, <1>5, <1>6, <1>7, <1>8, <1>9, <1>10 DEF Next, Main

-----------------------------------------------------------------------------
(* The write of outcome.json. *)

LEMMA WrittenStep ==
    ASSUME TypeOK, Written, [Next]_vars
    PROVE  Written'
<1> USE PayloadsTyped DEF Written, Writing, OutcomeIsWhole, ExitsLeaveOutcome, trapVars, fileVars
<1>0. /\ FailedPayload \notin {None, Torn} /\ FinalPayload \notin {None, Torn}
      /\ payload \in Payloads \cup {None} /\ pc \in Phases
    BY FailedTyped, FinalTyped DEF TypeOK
<1>1. CASE Prepare
    BY <1>0, <1>1 DEF Prepare, IjepaLoads, TraceLoads, Leave
<1>2. CASE RunCanary
    BY <1>2 DEF RunCanary
<1>3. CASE EmitProgress \/ CanaryGate \/ PrintProbe \/ Complete
    BY <1>0, <1>3 DEF EmitProgress, CanaryGate, PrintProbe, Complete, Leave, Exit
<1>4. CASE TrainStep
    BY <1>0, <1>4 DEF TrainStep, IjepaStep, TraceStep, OneStep, NanGuard, Leave
<1>5. CASE Probe
    BY <1>5 DEF Probe
<1>6. CASE OpenTmp \/ Fill \/ CloseTmp
    BY <1>6 DEF OpenTmp, Fill, CloseTmp, WriteFails
<1>7. CASE Rename \/ Return
    BY <1>0, <1>7 DEF Rename, Return, WriteFails
<1>8. CASE Kill
    BY <1>8 DEF Kill
<1>9. CASE Unwind
    <2>1. /\ pc = "unwinding" /\ pc' = "exited"
          /\ UNCHANGED <<script, payload, trapVars, unwritten>>
          /\ \/ outcome' = outcome
             \/ unflushed # {} /\ outcome' \in unflushed \cup {Torn}
        BY <1>9 DEF Unwind
    <2>2. None \notin unflushed
        BY DEF TypeOK
    <2>3. outcome' # None \/ unwritten'
        BY <2>1, <2>2
    <2>4. outcome' = Torn => "closing" \in interrupted'
        BY <2>1
    <2>5. interrupted' = interrupted /\ unflushed' = unflushed
        BY <2>1
    <2> QED BY <2>1, <2>3, <2>4, <2>5
<1>10. CASE Sigterm
    BY <1>0, <1>10 DEF Sigterm, Leave
<1>11. CASE Raise
    BY <1>0, <1>11 DEF Raise, Entrypoint, NoEntrypoint, Leave, Exit
<1>12. CASE GuardCancels \/ Poll
    BY <1>12 DEF GuardCancels, Poll
<1>13. CASE UNCHANGED vars
    BY <1>13 DEF vars
<1> QED BY <1>1, <1>2, <1>3, <1>4, <1>5, <1>6, <1>7, <1>8, <1>9, <1>10, <1>11, <1>12,
        <1>13 DEF Next, Main

-----------------------------------------------------------------------------
(* What an "ok" is worth. *)

LEMMA BestStep ==
    ASSUME TypeOK, BestOfProbes, [Next]_vars
    PROVE  BestOfProbes'
<1> USE DEF BestOfProbes, mainVars
<1>1. CASE Prepare
    BY <1>1 DEF Prepare, IjepaLoads, TraceLoads, Leave
<1>2. CASE RunCanary
    BY <1>2 DEF RunCanary
<1>3. CASE EmitProgress \/ CanaryGate \/ PrintProbe \/ Complete
    BY <1>3 DEF EmitProgress, CanaryGate, PrintProbe, Complete, Leave, Exit
<1>4. CASE TrainStep
    <2>1. step \in Nat /\ Len(probes) \in Nat /\ Len(probes) <= step
        BY ScriptAssumption DEF TypeOK, ScriptAssumption
    <2>2. step' = step + 1 \/ pc' = "opening"
        BY <1>4 DEF TrainStep, IjepaStep, TraceStep, OneStep, NanGuard, Leave
    <2>3. UNCHANGED <<best, probes>>
        BY <1>4 DEF TrainStep
    <2> QED BY <2>1, <2>2, <2>3
<1>5. CASE Probe
    <2>1. PICK score \in Scores : /\ probes' = Append(probes, score)
                                  /\ best' = IF score > best THEN score ELSE best
        BY <1>5 DEF Probe
    <2>2. /\ probes \in Seq(Scores) /\ Len(probes) \in Nat
          /\ best \in Nat /\ score \in Nat
        BY ScriptAssumption DEF TypeOK, ScriptAssumption
    <2>3. /\ Len(probes') = Len(probes) + 1 /\ probes'[Len(probes) + 1] = score
          /\ \A i \in 1..Len(probes) : probes'[i] = probes[i] /\ probes[i] \in Nat
        <3>1. \A i \in 1..Len(probes) : probes[i] \in Nat
            BY <2>2, ElementOfSeq, ScriptAssumption DEF ScriptAssumption
        <3> QED BY <2>1, <2>2, <3>1, AppendProperties
    <2>4. \A i \in 1..Len(probes') : i \in 1..Len(probes) \/ i = Len(probes) + 1
        BY <2>2, <2>3
    <2>5. best <= best' /\ score <= best' /\ best' \in {score, best}
        BY <2>1, <2>2
    <2>6. \A i \in 1..Len(probes') : probes'[i] <= best'
        BY <2>2, <2>3, <2>4, <2>5
    <2>7. best' = 0 \/ \E i \in 1..Len(probes') : probes'[i] = best'
        <3>1. CASE best' = score
            <4>1. Len(probes) + 1 \in 1..Len(probes')
                BY <2>2, <2>3
            <4> QED BY <2>3, <3>1, <4>1
        <3>2. CASE best' = best
            <4>1. 1..Len(probes) \subseteq 1..Len(probes')
                BY <2>2, <2>3
            <4> QED BY <2>3, <3>2, <4>1
        <3> QED BY <2>5, <3>1, <3>2
    <2> QED BY <1>5, <2>6, <2>7 DEF Probe
<1>6. CASE OpenTmp \/ Fill \/ CloseTmp \/ Rename \/ Return
    BY <1>6 DEF OpenTmp, Fill, CloseTmp, Rename, Return, WriteFails
<1>7. CASE Unwind \/ Sigterm \/ Kill
    BY <1>7 DEF Unwind, Sigterm, Leave, Kill
<1>8. CASE Raise \/ GuardCancels \/ Poll
    BY <1>8 DEF Raise, Entrypoint, NoEntrypoint, Leave, Exit, GuardCancels, Poll
<1>9. CASE UNCHANGED vars
    BY <1>9 DEF vars
<1> QED BY <1>1, <1>2, <1>3, <1>4, <1>5, <1>6, <1>7, <1>8, <1>9 DEF Next, Main

(* Once a payload is being written, nothing it was made from moves. *)
LEMMA PayloadsStep ==
    ASSUME TypeOK, Written, PayloadsEarned, [Next]_vars
    PROVE  PayloadsEarned'
<1> USE PayloadsTyped DEF PayloadsEarned, IsEarned, Late, Writing, trapVars, fileVars, mainVars
<1>0. FailedPayload.status # "ok" /\ step \in Nat
    BY FailedTyped, ScriptAssumption DEF TypeOK, ScriptAssumption
<1>1. CASE Prepare
    BY <1>0, <1>1 DEF Prepare, IjepaLoads, TraceLoads, Leave
<1>2. CASE RunCanary
    BY <1>2 DEF RunCanary
<1>3. CASE EmitProgress
    BY <1>0, <1>3 DEF EmitProgress, Exit
<1>4. CASE CanaryGate
    BY <1>0, <1>4 DEF CanaryGate, GateCloses, Leave
<1>5. CASE TrainStep
    BY <1>0, <1>5 DEF TrainStep, IjepaStep, TraceStep, OneStep, NanGuard, Leave
<1>6. CASE Probe
    BY <1>6 DEF Probe
<1>7. CASE PrintProbe
    BY <1>7 DEF PrintProbe
<1>8. CASE Complete
    BY <1>8 DEF Complete, Leave, FinalPayload, IjepaFinal
<1>9. CASE OpenTmp \/ Fill \/ CloseTmp \/ Rename \/ Return
    BY <1>9 DEF OpenTmp, Fill, CloseTmp, Rename, Return, WriteFails, Written
<1>10. CASE Kill
    BY <1>10 DEF Kill
<1>11. CASE Unwind
    BY <1>11 DEF Unwind
<1>12. CASE Sigterm
    BY <1>0, <1>12 DEF Sigterm, Trapped, Leave
<1>13. CASE Raise
    BY <1>0, <1>13 DEF Raise, Entrypoint, NoEntrypoint, Leave, Exit
<1>14. CASE GuardCancels
    BY <1>14 DEF GuardCancels
<1>15. CASE Poll
    BY <1>15 DEF Poll
<1>16. CASE UNCHANGED vars
    BY <1>16 DEF vars
<1> QED BY <1>1, <1>2, <1>3, <1>4, <1>5, <1>6, <1>7, <1>8, <1>9, <1>10, <1>11, <1>12,
        <1>13, <1>14, <1>15, <1>16 DEF Next, Main

LEMMA QuietStep ==
    ASSUME TypeOK, Quiet, [Next]_vars
    PROVE  Quiet'
<1>1. CASE PrintProbe
    <2>1. script' = script /\ printed' = (printed \/ script = "trace")
        BY <1>1 DEF PrintProbe
    <2>2. script = "ijepa" => script # "trace"
        OBVIOUS
    <2> QED BY <2>1, <2>2, Zenon DEF Quiet
<1>2. CASE ~PrintProbe
    <2>1. script' = script /\ printed' = printed
        BY <1>2 DEF Next, Main, Prepare, RunCanary, EmitProgress, CanaryGate, TrainStep, Probe,
           Complete, OpenTmp, Fill, CloseTmp, Rename, Return, Unwind, Raise,
           Sigterm, Kill, GuardCancels, Poll, vars
    <2> QED BY <2>1, Zenon DEF Quiet
<1> QED BY <1>1, <1>2

(* A reported trial is over: nothing but the adapter's clock moves. *)
LEMMA OverStep ==
    ASSUME [Next]_vars, ~Poll
    PROVE  /\ UNCHANGED <<script, report>>
           /\ pc = "exited" => UNCHANGED <<pc, step, canary, best, probes>>
<1> USE DEF mainVars, adapter
<1>1. CASE Main
    BY <1>1 DEF Main, Prepare, RunCanary, EmitProgress, CanaryGate, TrainStep, Probe,
       PrintProbe, Complete, OpenTmp, Fill, CloseTmp, Rename, Return, Unwind
<1>2. CASE Raise \/ Sigterm \/ Kill \/ GuardCancels \/ UNCHANGED vars
    BY <1>2 DEF Raise, Sigterm, Trapped, Kill, GuardCancels, vars
<1> QED BY <1>1, <1>2 DEF Next

LEMMA ReportedStep ==
    ASSUME TypeOK, BestOfProbes, PayloadsEarned, Quiet, Reported, [Next]_vars
    PROVE  Reported'
<1>1. CASE ~Poll
    <2>1. /\ UNCHANGED <<script, report>>
          /\ pc = "exited" => UNCHANGED <<pc, step, canary, best, probes>>
        BY <1>1, OverStep
    <2> QED BY <2>1 DEF Reported, OkIsEarned
<1>2. CASE Poll
    <2>1. /\ UNCHANGED <<script, step, canary, best, probes>>
          /\ report' = Answer
          /\ report' # None => pc' = "exited"
        BY <1>2 DEF Poll, mainVars
    <2>2. ASSUME script = "ijepa", Answer # None, Answer.status = "ok"
          PROVE  step = MaxSteps /\ canary # "high" /\ Answer.score = best
        <3>1. CASE outcome \notin {None, Torn}
            <4>1. outcome \in Payloads
                BY <3>1 DEF TypeOK
            <4>2. outcome.status = "ok" /\ Answer.score = outcome.score
                BY <2>2, <3>1 DEF Answer
            <4> QED BY <2>2, <4>1, <4>2 DEF PayloadsEarned, IsEarned
        <3>2. CASE outcome \in {None, Torn}
            <4>1. ~printed
                BY <2>2 DEF Quiet
            <4> QED BY <2>2, <3>2, <4>1 DEF Answer
        <3> QED BY <3>1, <3>2
    <2>3. OkIsEarned'
        BY <2>1, <2>2 DEF OkIsEarned, BestOfProbes
    <2> QED BY <2>1, <2>3 DEF Reported
<1> QED BY <1>1, <1>2

-----------------------------------------------------------------------------

IndInv ==
    /\ TypeOK
    /\ Written
    /\ BestOfProbes
    /\ PayloadsEarned
    /\ Quiet
    /\ Reported

LEMMA IndInit == Init => IndInv
<1> SUFFICES ASSUME Init PROVE IndInv
    OBVIOUS
<1>1. TypeOK
    <2>1. MainTyped
        <3>1. 0 \in 0..MaxSteps /\ probes \in Seq(Scores) /\ Len(probes) = 0
            BY ScriptAssumption DEF Init, ScriptAssumption
        <3> QED BY <3>1 DEF Init, MainTyped, Phases
    <2>2. OutcomeTyped
        BY ScriptAssumption DEF Init, OutcomeTyped, ScriptAssumption
    <2>3. FlagsTyped
        BY DEF Init, FlagsTyped
    <2> QED BY <2>1, <2>2, <2>3, TypeParts
<1>2. Written
    BY PayloadsTyped, ScriptAssumption
       DEF Init, Written, Writing, OutcomeIsWhole, ExitsLeaveOutcome, Phases, ScriptAssumption
<1>3. BestOfProbes
    BY DEF Init, BestOfProbes
<1>4. PayloadsEarned
    BY PayloadsTyped DEF Init, PayloadsEarned, IsEarned
<1>5. Quiet /\ Reported
    BY DEF Init, Quiet, Reported, OkIsEarned
<1> QED BY <1>1, <1>2, <1>3, <1>4, <1>5 DEF IndInv

LEMMA FlagsStep ==
    ASSUME TypeOK, [Next]_vars
    PROVE  FlagsTyped'
<1>1. printed' \in BOOLEAN /\ cancel' \in BOOLEAN
    <2>1. CASE PrintProbe
        BY <2>1, Zenon DEF PrintProbe, TypeOK
    <2>2. CASE ~PrintProbe
        <3>1. printed' = printed /\ (cancel' = cancel \/ cancel' = TRUE)
            BY <2>2 DEF Next, Main, Prepare, RunCanary, EmitProgress, CanaryGate, TrainStep,
               Probe, Complete, OpenTmp, Fill, CloseTmp, Rename, Return, Unwind,
               Raise, Sigterm, Kill, GuardCancels, Poll, vars
        <3> QED BY <3>1, Zenon DEF TypeOK
    <2> QED BY <2>1, <2>2
<1>2. unwritten' \in BOOLEAN
    <2>1. unwritten' = unwritten \/ unwritten' = TRUE
        BY DEF Next, Main, Prepare, RunCanary, EmitProgress, CanaryGate, TrainStep, Probe,
           PrintProbe, Complete, OpenTmp, Fill, CloseTmp, Rename, Return, Unwind,
           Raise, Sigterm, Kill, GuardCancels, Poll, vars, WriteFails, fileVars
    <2> QED BY <2>1, Zenon DEF TypeOK
<1> QED BY <1>1, <1>2 DEF FlagsTyped

LEMMA IndStep == IndInv /\ [Next]_vars => IndInv'
<1> SUFFICES ASSUME IndInv, [Next]_vars PROVE IndInv'
    OBVIOUS
<1>1. MainTyped' /\ OutcomeTyped' /\ FlagsTyped'
    BY MainStep, OutcomeStep, FlagsStep DEF IndInv
<1>2. TypeOK'
    BY <1>1, Zenon DEF TypeOK, MainTyped, OutcomeTyped, FlagsTyped, Reports
<1> QED BY <1>2, WrittenStep, BestStep, PayloadsStep, QuietStep, ReportedStep DEF IndInv

LEMMA Inductive == Spec => []IndInv
BY IndInit, IndStep, PTL DEF Spec

(* Type correctness of the trial scripts, the step within max_steps and at *)
(* most one probe a step included.                                         *)
THEOREM TrialTyped == Spec => []TypeOK
<1>1. IndInv => TypeOK
    BY DEF IndInv
<1> QED BY <1>1, Inductive, PTL

(* No poll reads half an outcome.json, however the script ends, unless     *)
(* SIGTERM came between the write and the close.                           *)
THEOREM OutcomeWhole == Spec => []OutcomeIsWhole
<1>1. IndInv => OutcomeIsWhole
    BY DEF IndInv, Written
<1> QED BY <1>1, Inductive, PTL

(* ADR-015: the exits that write an outcome leave one, or met an OSError.  *)
THEOREM ExitsExplained == Spec => []ExitsLeaveOutcome
<1>1. IndInv => ExitsLeaveOutcome
    BY DEF IndInv, Written
<1> QED BY <1>1, Inductive, PTL

(* An "ok" of ijepa-cifar10 is that of a finished trial that passed its    *)
(* canary gate, and its score the best of its probes, whenever the adapter *)
(* polls, the script is signalled, killed or raises.                       *)
THEOREM OkEarned == Spec => []OkIsEarned
<1>1. IndInv => OkIsEarned
    BY DEF IndInv, Reported
<1> QED BY <1>1, Inductive, PTL
=============================================================================
