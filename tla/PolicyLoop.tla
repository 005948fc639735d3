------------------------------ MODULE PolicyLoop -------------------------------
(***************************************************************************)
(* The proposing policies in the loop that drives them: the engine asks    *)
(* for a proposal, runs it, gives the reward and appends to the history    *)
(* (controller/engine.py), or asks for a batch of them                     *)
(* (controller/parallel_engine.py).  llm, llm_diff and hybrid hold a chat  *)
(* through ChatClient; the learned policy is LearnedPolicy.  A restarted   *)
(* process has its history back, by the checkpoint, but none of the        *)
(* policy's own state.                                                     *)
(*                                                                         *)
(* Trials end in any order in the parallel engine; their rewards come in   *)
(* the order of the iterations (RewardsInOrder of ParallelEngine).         *)
(***************************************************************************)
EXTENDS ChatClient, LearnedPolicy

CONSTANTS Kinds,            \* policy.type
          Slots,            \* parallel.max_concurrency
          ExploreIters, StallThreshold, FailureLimit,     \* of HybridPolicy
          MaxPairs,         \* _MAX_CONVERSATION_PAIRS
          MaxCorrections,   \* _MAX_CORRECTION_RETRIES
          MaxIters,         \* max_iterations
          MaxDraws,         \* bound: proposals of one process
          MaxRestarts       \* bound: restarts

VARIABLES kind,
          slots,            \* 1 in the serial engine
          at,               \* "choose", "drawing", "asking", "saving" or "unstartable"
          mode,             \* _active_mode
          failures,         \* _diff_consecutive_failures
          talk,             \* _conversation of the two policies, as iterations
          lastSeen,         \* _last_seen_kept_diff_iter
          corrections,      \* invalid answers to this proposal
          asked,            \* how many proposals the engine wants
          inFlight,         \* the draws of the trials that run, by iteration
          history,
          drawn,            \* how many proposals the policy has made
          restarts,
          begun             \* length of the history when this process began

ASSUME LoopAssumption ==
    /\ Kinds \subseteq {"llm", "llm_diff", "hybrid", "learned"} /\ Slots \in Nat \ {0}
    /\ {ExploreIters, StallThreshold, FailureLimit, MaxCorrections, MaxIters,
        MaxDraws, MaxRestarts} \subseteq Nat
    /\ MaxIters <= MaxVersion
    /\ MaxPairs \in Nat \ {0} /\ None \notin Nat /\ Torn \notin Nat /\ None # Torn

policyVars == <<mode, failures, talk, lastSeen, corrections>>
engineVars == <<asked, inFlight, history, drawn>>
fixed == <<kind, slots, restarts, begun>>
vars == <<fixed, at, policyVars, engineVars, chatVars, learnerVars>>

(* llm_diff and hybrid always run in the serial engine. *)
Init ==
    /\ kind \in Kinds
    /\ slots \in IF kind \in {"llm_diff", "hybrid"} THEN {1} ELSE {1, Slots}
    /\ at = "choose" /\ mode = "param" /\ failures = 0
    /\ talk = [m \in {"param", "diff"} |-> <<>>] /\ lastSeen = None /\ corrections = 0
    /\ asked = 0 /\ inFlight = <<>> /\ history = <<>> /\ drawn = 0
    /\ ChatInit /\ LearnerInit
    /\ restarts = 0 /\ begun = 0

-----------------------------------------------------------------------------
(* What the policies read in the history. *)

(* The params of an llm_diff trial carry no "_type": _diff_extractor does  *)
(* not set it, _hybrid_extractor does.                                     *)
Marked(entry) == entry.diff /\ kind = "hybrid"

LastKeptDiff ==
    LET kept == {i \in 1..Len(history) : Marked(history[i]) /\ history[i].decision = "keep"}
    IN  IF kept = {} THEN None ELSE Max(kept)

SinceKeep ==
    LET kept == {i \in 1..Len(history) : history[i].decision = "keep"}
    IN  Len(history) - (IF kept = {} THEN 0 ELSE Max(kept))

(* _select_mode of the hybrid policy; the others have one mode. *)
SelectMode ==
    CASE kind = "llm_diff" -> "diff"
      [] kind = "hybrid" /\ Len(history) >= ExploreIters
            /\ SinceKeep >= StallThreshold /\ failures < FailureLimit -> "diff"
      [] OTHER -> "param"

-----------------------------------------------------------------------------
(* Proposing *)

Iteration == Len(history) + Len(inFlight) + 1

(* Mutant of Fresh: only a diff that was kept in the last iteration counts. *)
FreshAtOnce(conversation) ==
    IF LastKeptDiff = Len(history) THEN <<>> ELSE conversation

(* ADR-025: a diff kept since the last request resets the conversation. *)
Fresh(conversation) ==
    IF LastKeptDiff \notin {None, lastSeen} THEN <<>> ELSE conversation

(* slots_open, and never more than are still wanted. *)
Wanted == Min({slots - Len(inFlight), MaxIters - Iteration + 1})
MayAsk == at = "choose" /\ Wanted > 0 /\ drawn < MaxDraws

(* The engine asks. *)
Ask ==
    /\ MayAsk
    /\ asked' = Wanted
    /\ mode' = SelectMode
    /\ corrections' = 0
    /\ IF mode' = "diff"
       THEN /\ talk' = [talk EXCEPT !["diff"] = Fresh(@)]
            /\ lastSeen' = IF LastKeptDiff = None THEN lastSeen ELSE LastKeptDiff
       ELSE UNCHANGED <<talk, lastSeen>>
    /\ IF kind = "learned" THEN at' = "drawing" /\ UNCHANGED chatVars
       ELSE at' = "asking" /\ StartCall
    /\ UNCHANGED <<fixed, failures, inFlight, history, drawn, learnerVars>>

(* The engine takes the draws one by one until one does not fit, and drops *)
(* the rest.                                                               *)
Submit(n) ==
    /\ drawn' = drawn + n
    /\ \E taken \in 0..n :
        /\ taken = 0 => inFlight # <<>>
        /\ inFlight' = inFlight \o [i \in 1..taken |-> drawn + i]
    /\ at' = "choose"
    /\ UNCHANGED history

(* The learned policy draws as often as it is asked.  *)
DrawLearned ==
    /\ at = "drawing" /\ Submit(asked) /\ Draw(drawn + asked)
    /\ UNCHANGED <<fixed, policyVars, asked, chatVars>>

(* Without an API key, or a source to change, nobody is asked, and the     *)
(* conversation stays as it is.                                            *)
Unable ==
    /\ MayAsk /\ kind # "learned"
    /\ mode' = SelectMode /\ asked' = Wanted /\ Submit(asked')
    /\ UNCHANGED <<fixed, failures, talk, lastSeen, corrections, chatVars, learnerVars>>

ChatStep ==
    /\ at = "asking" /\ Respond
    /\ UNCHANGED <<fixed, at, policyVars, engineVars, learnerVars>>

Trimmed(pairs) == IF Len(pairs) > MaxPairs THEN Tail(pairs) ELSE pairs

(* Mutant of Remember: the pairs are never trimmed. *)
RememberAll(m) == talk' = [talk EXCEPT ![m] = Append(@, Iteration)]

Remember(m) == talk' = [talk EXCEPT ![m] = Trimmed(Append(@, Iteration))]

(* A valid answer; a batch is one call outside the conversation. *)
Accept ==
    /\ at = "asking" /\ answer = "text"
    /\ Submit(asked) /\ EndCall
    /\ IF asked = 1 THEN Remember(mode) ELSE UNCHANGED talk
    /\ UNCHANGED <<fixed, mode, failures, lastSeen, corrections, asked, learnerVars>>

(* An error, or an answer that does not validate: a diff is asked for      *)
(* again, with a correction.                                               *)
Correct ==
    /\ at = "asking" /\ answer \in {"text", "error"}
    /\ mode = "diff" /\ corrections < MaxCorrections
    /\ corrections' = corrections + 1 /\ StartCall
    /\ UNCHANGED <<fixed, at, mode, failures, talk, lastSeen, engineVars, learnerVars>>

(* Random parameters, or the greedy diff. *)
FallBack ==
    /\ at = "asking" /\ answer \in {"text", "error"}
    /\ mode = "diff" => corrections = MaxCorrections
    /\ Submit(asked) /\ EndCall
    /\ UNCHANGED <<fixed, policyVars, asked, learnerVars>>

-----------------------------------------------------------------------------
(* The engine *)

(* What the model makes of a result only the diff policies tell apart. *)
Results == IF kind \in {"llm_diff", "hybrid"}
           THEN {"keep", "discard", "failed", "cancelled"} ELSE {"discard"}

(* A failed trial is a discard; its reward is -0.1. *)
Entry(result) ==
    [diff |-> mode = "diff", failed |-> result = "failed", draw |-> Head(inFlight),
     decision |-> IF result = "failed" THEN "discard" ELSE result]

(* Mutant of CountFailures: a cancelled diff counts as well. *)
CountPenalties(result) ==
    failures' = IF kind # "hybrid" \/ mode # "diff" THEN failures
                ELSE IF result \in {"failed", "cancelled"} THEN failures + 1 ELSE 0

(* record_reward of the hybrid policy. *)
CountFailures(result) ==
    failures' = IF kind # "hybrid" \/ mode # "diff" THEN failures
                ELSE IF result = "failed" THEN failures + 1 ELSE 0

(* The trial of the oldest iteration is judged and rewarded. *)
Judge ==
    /\ at = "choose" /\ inFlight # <<>>
    /\ \E result \in Results :
        /\ CountFailures(result)
        /\ history' = Append(history, Entry(result))
    /\ IF kind = "learned" THEN Record(Len(history) + 1) ELSE UNCHANGED learnerVars
    /\ inFlight' = Tail(inFlight)
    /\ at' = IF saving' THEN "saving" ELSE "choose"
    /\ UNCHANGED <<fixed, mode, talk, lastSeen, corrections, asked, drawn, chatVars>>

Save ==
    /\ at = "saving" /\ (OpenSnapshot \/ CloseSnapshot)
    /\ at' = IF saving' THEN "saving" ELSE "choose"
    /\ UNCHANGED <<fixed, policyVars, engineVars, chatVars>>

(* A kill and a restart: the checkpoint of this process, when it came to   *)
(* save one, or that of the process before.  The policy is built anew.     *)
Restart ==
    /\ restarts < MaxRestarts /\ restarts' = restarts + 1
    /\ history' \in {history, SubSeq(history, 1, begun)} /\ begun' = Len(history')
    /\ mode' = "param" /\ failures' = 0 /\ lastSeen' = None /\ corrections' = 0
    /\ talk' = [m \in {"param", "diff"} |-> <<>>]
    /\ asked' = 0 /\ inFlight' = <<>> /\ drawn' = 0
    /\ model' = 1 /\ attempt' = 0 /\ answer' = "none"
    /\ Construct
    /\ at' = IF kind = "learned" /\ ~Constructible THEN "unstartable" ELSE "choose"
    /\ UNCHANGED <<kind, slots>>

Propose == Ask \/ Unable \/ DrawLearned \/ ChatStep \/ Accept \/ Correct \/ FallBack

Next == Propose \/ Judge \/ Save \/ Restart

Spec == Init /\ [][Next]_vars

(* The thread of the loop goes on: each request has a timeout. *)
FairSpec == Spec /\ WF_vars(Propose)

-----------------------------------------------------------------------------
(* Properties *)

(* The types; a conversation never outgrows its limit. *)
TypeOK ==
    /\ kind \in Kinds /\ slots \in 1..Slots
    /\ at \in {"choose", "drawing", "asking", "saving", "unstartable"}
    /\ mode \in {"param", "diff"} /\ failures \in 0..FailureLimit
    /\ talk \in [{"param", "diff"} -> Seq(1..MaxIters)]
    /\ \A m \in DOMAIN talk : Len(talk[m]) <= MaxPairs
    /\ lastSeen \in {None} \cup 1..MaxIters /\ corrections \in 0..MaxCorrections
    /\ asked \in 0..slots /\ inFlight \in Seq(Nat) /\ Len(inFlight) <= slots
    /\ history \in Seq([diff : BOOLEAN, failed : BOOLEAN, draw : Nat,
                        decision : {"keep", "discard", "cancelled"}])
    /\ Iteration <= MaxIters + 1 /\ drawn \in Nat
    /\ ChatTypeOK /\ LearnerTypeOK
    /\ restarts \in 0..MaxRestarts /\ begun \in 0..Len(history)

(* ADR-025: a request for a diff never carries a pair that was made        *)
(* against a source older than the last kept diff, whatever was kept,      *)
(* cancelled or restarted in between.  Not so in llm_diff mode, whose      *)
(* history the policy cannot read.                                         *)
ConversationFresh ==
    at = "asking" /\ kind = "hybrid" /\ mode = "diff" =>
        LET kept == {i \in 1..Len(history) : history[i].diff /\ history[i].decision = "keep"}
        IN  \A i \in 1..Len(talk["diff"]), k \in kept : talk["diff"][i] > k

(* The diffs of this process, and those of them since the last that ended  *)
(* in anything but a failure.                                              *)
Diffs == {i \in begun + 1..Len(history) : history[i].diff}
FailedSince == {i \in Diffs : \A j \in Diffs : j >= i => history[j].failed}

(* The counter that locks the hybrid policy out of diff mode is the number *)
(* of failed diffs in a row: parameter trials, cancelled trials and        *)
(* fallbacks in between neither add to it nor reset it wrongly.            *)
FailuresInARow == kind = "hybrid" => failures = Cardinality(FailedSince)

(* Rewards of the learned policy: one at a time, each goes to the proposal *)
(* that earned it; with batches, in which proposals overwrite each other's *)
(* transition, to none more than once.                                     *)
RewardsCredited ==
    /\ CreditedOnce
    /\ slots = 1 => \A i \in 1..Len(credits) :
                        credits[i].draw = history[credits[i].trial].draw

(* Through every model, retry and correction a proposal comes in the end.  *)
ProposalsCome == at = "asking" ~> at # "asking"

=============================================================================
