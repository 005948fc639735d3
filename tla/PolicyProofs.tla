----------------------------- MODULE PolicyProofs ------------------------------
(***************************************************************************)
(* Proofs about PolicyLoop, for any kinds, limits, batches and number of   *)
(* restarts.                                                               *)
(*                                                                         *)
(* The failure counter and the counted diffs move in the same step, so     *)
(* FailuresInARow carries itself; that the counter stays within its limit  *)
(* rests on SelectMode, which a trial in flight remembers (LockedOut).     *)
(* The conversation is fresh because lastSeen, the one mark the policy     *)
(* keeps of the history, bounds every pair from below (SeenBounds).  A     *)
(* reward goes to its own proposal because draws, iterations and what is   *)
(* pending only ever grow (Paired).                                        *)
(***************************************************************************)
EXTENDS PolicyLoop, WellFoundedInduction, FiniteSetTheorems,
        SequenceTheorems, TLAPS

(* What is asked for fits the slots and the iterations that are left.      *)
Fits ==
    /\ kind \in {"llm_diff", "hybrid"} => slots = 1
    /\ at \in {"drawing", "asking"} =>
          /\ 1 <= asked /\ asked + Len(inFlight) <= slots
          /\ Iteration + asked <= MaxIters + 1
    /\ at = "drawing" => kind = "learned"
    /\ at = "asking" => kind # "learned"

(* No diff is asked for, or tried, once the counter is full.               *)
LockedOut ==
    kind = "hybrid" /\ mode = "diff" /\ (at = "asking" \/ inFlight # <<>>) =>
        failures < FailureLimit

(* Every pair of the conversation is younger than the diff last seen,      *)
(* which is the last there is while a diff is being asked for.             *)
SeenBounds ==
    /\ lastSeen # None =>
          /\ lastSeen <= Len(history)
          /\ \A i \in 1..Len(talk["diff"]) : talk["diff"][i] > lastSeen
    /\ at = "asking" /\ mode = "diff" => LastKeptDiff \in {None, lastSeen}

(* Updates are at most as many as the rewards, one for each row.           *)
Updates == updates <= Len(history) /\ (saving => updates > 0)

(* What was credited is older than what is pending; with one slot, this is *)
(* the proposal of the trial that runs.                                    *)
Paired ==
    /\ kind # "learned" => pending = None /\ credits = <<>>
    /\ credits \in Seq([draw : Nat, trial : Nat])
    /\ \A i \in 1..Len(credits) :
          /\ credits[i].draw <= drawn /\ credits[i].trial \in 1..Len(history)
          /\ pending # None => credits[i].draw < pending
    /\ pending # None => pending <= drawn
    /\ slots = 1 /\ inFlight # <<>> /\ pending # None => pending = inFlight[1]

IndInv == TypeOK /\ Fits /\ LockedOut /\ FailuresInARow /\ SeenBounds /\ Updates
          /\ Paired /\ RewardsCredited

-----------------------------------------------------------------------------
(* Helpers *)

(* A non-empty set of positions has a last one. *)
LEMMA LastOne ==
    ASSUME NEW n \in Nat, NEW S \in SUBSET (1..n), S # {}
    PROVE  Max(S) \in S /\ \A y \in S : y <= Max(S)
<1> DEFINE R == OpToRel(<, Nat)
           T == {n - x : x \in S}
<1>1. IsWellFoundedOn(R, Nat)
      BY NatLessThanWellFounded
<1>2. T \subseteq Nat /\ T # {}
  <2>1. \A x \in S : n - x \in Nat
        OBVIOUS
  <2> QED
        BY <2>1
<1>3. PICK t \in T : \A y \in T : <<y, t>> \notin R
      BY <1>1, <1>2, WFMin
<1>4. \A y \in T : t <= y
  <2> HIDE DEF T
  <2> TAKE y \in T
  <2>1. y \in Nat /\ t \in Nat
        BY <1>2
  <2>2. y < t => <<y, t>> \in R
        BY <2>1 DEF OpToRel
  <2>3. ~(y < t)
        BY <1>3, <2>2
  <2> QED
        BY <2>1, <2>3
<1>5. PICK x \in S : t = n - x
      OBVIOUS
<1>6. \A y \in S : x >= y
  <2> TAKE y \in S
  <2>1. n - y \in T
        OBVIOUS
  <2> QED
        BY <2>1, <1>4, <1>5
<1>7. Max(S) \in S /\ \A y \in S : Max(S) >= y
      BY <1>6 DEF Max
<1> QED
      BY <1>7

Rows == [diff : BOOLEAN, failed : BOOLEAN, draw : Nat,
         decision : {"keep", "discard", "cancelled"}]

LEMMA Limits ==
    /\ MaxIters \in Nat /\ FailureLimit \in Nat /\ MaxCorrections \in Nat
    /\ MaxRestarts \in Nat /\ MaxPairs \in Nat /\ MaxPairs > 0 /\ Slots \in Nat
BY LoopAssumption

LEMMA Lengths ==
    ASSUME TypeOK
    PROVE  /\ history \in Seq(Rows)
           /\ inFlight \in Seq(Nat)
           /\ Len(history) \in Nat /\ Len(inFlight) \in Nat /\ slots \in Nat
           /\ Iteration = Len(history) + Len(inFlight) + 1 /\ Iteration \in Nat
           /\ Iteration <= MaxIters + 1 /\ drawn \in Nat /\ asked \in Nat
<1>1. /\ history \in Seq(Rows)
      /\ inFlight \in Seq(Nat) /\ slots \in 1..Slots /\ asked \in 0..slots
      /\ Iteration <= MaxIters + 1 /\ drawn \in Nat
      BY DEF TypeOK, Rows
<1>2. Len(history) \in Nat /\ Len(inFlight) \in Nat
      BY <1>1
<1> QED
      BY <1>1, <1>2, Limits DEF Iteration

(* What is wanted is one of its two bounds.                                *)
LEMMA WantedFits ==
    ASSUME TypeOK, Wanted > 0
    PROVE  /\ Wanted \in Nat /\ Wanted >= 1
           /\ Wanted + Len(inFlight) <= slots /\ Iteration + Wanted <= MaxIters + 1
<1> DEFINE a == slots - Len(inFlight)
           b == MaxIters - Iteration + 1
<1>1. slots \in Nat /\ Len(inFlight) \in Nat /\ Iteration \in Nat /\ MaxIters \in Nat
      BY Limits, Lengths
<1>2. a \in Int /\ b \in Int
      BY <1>1
<1> HIDE DEF a, b
<1>3. \E x \in {a, b} : \A y \in {a, b} : x <= y
      BY <1>2
<1>4. Wanted \in {a, b} /\ \A y \in {a, b} : Wanted <= y
      BY <1>3 DEF Wanted, Min, a, b
<1> QED
      BY <1>1, <1>2, <1>4 DEF a, b

(* The trials that are taken of n proposals.                               *)
LEMMA Submitted ==
    ASSUME TypeOK, NEW n \in Nat, Submit(n),
           n + Len(inFlight) <= slots, Iteration + n <= MaxIters + 1
    PROVE  /\ inFlight' \in Seq(Nat) /\ Len(inFlight') <= slots
           /\ Len(history) + Len(inFlight') <= MaxIters
           /\ drawn' = drawn + n /\ at' = "choose" /\ history' = history
           /\ inFlight # <<>> => Len(inFlight') > 0 /\ inFlight'[1] = inFlight[1]
           /\ inFlight = <<>> => inFlight' # <<>> /\ inFlight'[1] = drawn + 1
           /\ inFlight = <<>> => n > 0
<1>1. inFlight \in Seq(Nat) /\ drawn \in Nat /\ slots \in Nat
      BY Lengths
<1>2. Len(history) \in Nat /\ Len(inFlight) \in Nat /\ MaxIters \in Nat
      BY Lengths, Limits
<1>3. PICK taken \in 0..n :
        /\ taken = 0 => inFlight # <<>>
        /\ inFlight' = inFlight \o [i \in 1..taken |-> drawn + i]
      BY DEF Submit
<1> DEFINE more == [i \in 1..taken |-> drawn + i]
<1>4. more \in Seq(Nat) /\ Len(more) = taken /\ \A i \in 1..taken : more[i] = drawn + i
      BY <1>1
<1>5. inFlight' = inFlight \o more
      BY <1>3
<1> HIDE DEF more
<1>6. /\ inFlight' \in Seq(Nat) /\ Len(inFlight') = Len(inFlight) + taken
      /\ \A i \in 1..Len(inFlight) + taken :
            inFlight'[i] = IF i <= Len(inFlight) THEN inFlight[i] ELSE more[i - Len(inFlight)]
      BY <1>1, <1>4, <1>5, ConcatProperties
<1>7. inFlight = <<>> <=> Len(inFlight) = 0
      BY <1>1
<1>8. Len(inFlight') <= slots /\ Len(history) + Len(inFlight') <= MaxIters
      BY <1>1, <1>2, <1>6 DEF Iteration
<1>9. drawn' = drawn + n /\ at' = "choose" /\ history' = history
      BY DEF Submit
<1>10. inFlight # <<>> => Len(inFlight') > 0 /\ inFlight'[1] = inFlight[1]
       BY <1>2, <1>6, <1>7
<1>11. ASSUME inFlight = <<>> PROVE inFlight' # <<>> /\ inFlight'[1] = drawn + 1 /\ n > 0
  <2>1. Len(inFlight) = 0 /\ taken > 0 /\ n > 0
        BY <1>3, <1>7, <1>11
  <2>2. Len(inFlight') > 0 /\ inFlight'[1] = more[1]
        BY <1>6, <2>1
  <2> QED
        BY <1>4, <2>1, <2>2
<1> QED
      BY <1>6, <1>8, <1>9, <1>10, <1>11

(* The parts of TypeOK.                                                    *)
EngineTyped ==
    /\ kind \in Kinds /\ slots \in 1..Slots
    /\ at \in {"choose", "drawing", "asking", "saving", "unstartable"}
    /\ asked \in 0..slots /\ inFlight \in Seq(Nat) /\ Len(inFlight) <= slots
    /\ history \in Seq(Rows)
    /\ Iteration <= MaxIters + 1 /\ drawn \in Nat
    /\ restarts \in 0..MaxRestarts /\ begun \in 0..Len(history)

PolicyTyped ==
    /\ mode \in {"param", "diff"} /\ failures \in 0..FailureLimit
    /\ talk \in [{"param", "diff"} -> Seq(1..MaxIters)]
    /\ \A m \in DOMAIN talk : Len(talk[m]) <= MaxPairs
    /\ lastSeen \in {None} \cup 1..MaxIters /\ corrections \in 0..MaxCorrections

LEMMA Parts == TypeOK => EngineTyped /\ PolicyTyped /\ ChatTypeOK /\ LearnerTypeOK
BY DEF TypeOK, EngineTyped, PolicyTyped, Rows

-----------------------------------------------------------------------------
(* Types *)

LEMMA ChatKeeps == ASSUME TypeOK, [Next]_vars PROVE ChatTypeOK'
<1> USE ChatAssumption DEF ChatTypeOK, chatVars
<1>0. ChatTypeOK
      BY Parts
<1>1. ASSUME StartCall PROVE ChatTypeOK'
      BY <1>1 DEF StartCall
<1>2. ASSUME EndCall PROVE ChatTypeOK'
      BY <1>0, <1>2 DEF EndCall
<1>3. ASSUME Respond PROVE ChatTypeOK'
      BY <1>0, <1>3 DEF Respond, Answered, Unavailable, UnknownModel, Refused
<1>4. ASSUME UNCHANGED chatVars PROVE ChatTypeOK'
      BY <1>0, <1>4
<1>5. CASE Ask
      BY <1>1, <1>4, <1>5 DEF Ask
<1>6. CASE Unable \/ DrawLearned \/ Judge \/ Save
      BY <1>4, <1>6 DEF Unable, DrawLearned, Judge, Save
<1>7. CASE ChatStep
      BY <1>3, <1>7 DEF ChatStep
<1>8. CASE Accept \/ FallBack
      BY <1>2, <1>8 DEF Accept, FallBack
<1>9. CASE Correct
      BY <1>1, <1>9 DEF Correct
<1>10. CASE Restart
      BY <1>10 DEF Restart
<1>11. CASE UNCHANGED vars
      BY <1>4, <1>11 DEF vars
<1> QED
      BY <1>5, <1>6, <1>7, <1>8, <1>9, <1>10, <1>11 DEF Next, Propose

(* The proposals that Submit is asked for fit.                             *)
LEMMA SubmitFits ==
    ASSUME TypeOK, Fits,
           DrawLearned \/ Unable \/ Accept \/ FallBack
    PROVE  \E n \in Nat : /\ Submit(n) /\ n = asked' /\ n > 0 /\ n <= slots
                          /\ n + Len(inFlight) <= slots /\ Iteration + n <= MaxIters + 1
<1>1. CASE Unable
  <2>1. Wanted > 0 /\ asked' = Wanted /\ Submit(Wanted)
        BY <1>1 DEF Unable, MayAsk
  <2> QED
        BY <2>1, WantedFits, Lengths
<1>2. CASE DrawLearned \/ Accept \/ FallBack
  <2>1. Submit(asked) /\ asked' = asked /\ at \in {"drawing", "asking"}
        BY <1>2 DEF DrawLearned, Accept, FallBack, policyVars
  <2>2. 1 <= asked /\ asked + Len(inFlight) <= slots /\ Iteration + asked <= MaxIters + 1
        BY <2>1 DEF Fits
  <2> QED
        BY <2>1, <2>2, Lengths
<1> QED
      BY <1>1, <1>2

(* A judged trial appends its row, and the policy counts its result.       *)
LEMMA Judged ==
    ASSUME TypeOK, Judge
    PROVE  \E result \in Results :
              /\ CountFailures(result) /\ history' = Append(history, Entry(result))
              /\ Entry(result) \in Rows
              /\ Len(history') = Len(history) + 1
              /\ \A i \in 1..Len(history) : history'[i] = history[i]
              /\ history'[Len(history) + 1] = Entry(result)
              /\ Len(inFlight') = Len(inFlight) - 1 /\ inFlight' \in Seq(Nat)
<1>1. PICK result \in Results :
              CountFailures(result) /\ history' = Append(history, Entry(result))
      BY DEF Judge
<1>2. inFlight # <<>> /\ inFlight' = Tail(inFlight) /\ inFlight \in Seq(Nat)
      BY Lengths DEF Judge
<1>3. Head(inFlight) \in Nat /\ Len(inFlight') = Len(inFlight) - 1 /\ inFlight' \in Seq(Nat)
      BY <1>2, HeadTailProperties
<1>4. result \in {"keep", "discard", "failed", "cancelled"}
      BY DEF Results
<1>5. Entry(result) \in Rows
      BY <1>3, <1>4 DEF Entry, Rows
<1> HIDE DEF Entry
<1>6. /\ Len(history') = Len(history) + 1
      /\ \A i \in 1..Len(history) : history'[i] = history[i]
      /\ history'[Len(history) + 1] = Entry(result)
      BY <1>1, <1>5, Lengths, AppendProperties
<1> QED
      BY <1>1, <1>3, <1>5, <1>6

(* The history that a restart finds. *)
LEMMA Restarted ==
    ASSUME TypeOK, Restart
    PROVE  history' \in Seq(Rows) /\ Len(history') \in Nat /\ Len(history') <= Len(history)
<1>1. CASE history' = history
      BY <1>1, Lengths
<1>2. CASE history' = SubSeq(history, 1, begun)
  <2>1. begun \in 0..Len(history) /\ begun \in Int
        BY Lengths, Parts DEF EngineTyped
  <2>2. \A i \in 1..begun : history[i] \in Rows
    <3> TAKE i \in 1..begun
    <3>1. i \in 1..Len(history)
          BY <2>1, Lengths
    <3> QED
          BY <3>1, Lengths, ElementOfSeq
  <2>3. /\ SubSeq(history, 1, begun) \in Seq(Rows)
        /\ Len(SubSeq(history, 1, begun)) = IF 1 <= begun THEN begun - 1 + 1 ELSE 0
        BY <2>1, <2>2, SubSeqProperties
  <2> QED
        BY <1>2, <2>1, <2>3, Lengths
<1> QED
      BY <1>1, <1>2 DEF Restart

LEMMA EngineKeeps == ASSUME TypeOK, Fits, [Next]_vars PROVE EngineTyped'
<1> USE DEF EngineTyped
<1>0. EngineTyped
      BY Parts
<1>1. CASE Ask
  <2>1. UNCHANGED <<fixed, inFlight, history, drawn>> /\ at' \in {"drawing", "asking"}
        BY <1>1 DEF Ask
  <2>2. Wanted > 0 /\ asked' = Wanted
        BY <1>1 DEF Ask, MayAsk
  <2>3. asked' \in 0..slots
        BY <2>2, WantedFits, Lengths
  <2> QED
        BY <1>0, <2>1, <2>3 DEF fixed, Iteration
<1>2. CASE DrawLearned \/ Unable \/ Accept \/ FallBack
  <2>1. PICK n \in Nat : /\ Submit(n) /\ n = asked' /\ n > 0 /\ n <= slots
                         /\ n + Len(inFlight) <= slots /\ Iteration + n <= MaxIters + 1
        BY <1>2, SubmitFits
  <2>2. /\ inFlight' \in Seq(Nat) /\ Len(inFlight') <= slots
        /\ Len(history) + Len(inFlight') <= MaxIters
        /\ drawn' = drawn + n /\ at' = "choose" /\ history' = history
        BY <2>1, Submitted
  <2>3. UNCHANGED fixed
        BY <1>2 DEF DrawLearned, Unable, Accept, FallBack
  <2>4. asked' \in 0..slots /\ drawn' \in Nat
        BY <2>1, <2>2, Lengths
  <2>5. Iteration' <= MaxIters + 1
        BY <2>2, Lengths, LenProperties, Limits DEF Iteration
  <2> QED
        BY <1>0, <2>2, <2>3, <2>4, <2>5 DEF fixed
<1>3. CASE ChatStep \/ Correct
      BY <1>0, <1>3 DEF ChatStep, Correct, fixed, engineVars, Iteration
<1>4. CASE Judge
  <2>1. PICK result \in Results :
              /\ history' = Append(history, Entry(result))
              /\ Entry(result) \in Rows
              /\ Len(history') = Len(history) + 1
              /\ Len(inFlight') = Len(inFlight) - 1 /\ inFlight' \in Seq(Nat)
        BY <1>4, Judged
  <2>2. history' \in Seq(Rows)
        BY <2>1, Lengths, AppendProperties
  <2>3. UNCHANGED <<fixed, asked, drawn>> /\ at' \in {"saving", "choose"}
        BY <1>4 DEF Judge
  <2>4. Iteration' = Iteration /\ begun \in 0..Len(history')
        BY <1>0, <2>1, Lengths DEF Iteration
  <2>5. Len(inFlight') <= slots
        BY <1>0, <2>1, Lengths
  <2> QED
        BY <1>0, <2>1, <2>2, <2>3, <2>4, <2>5 DEF fixed
<1>5. CASE Save
      BY <1>0, <1>5 DEF Save, fixed, engineVars, Iteration
<1>6. CASE Restart
  <2>1. /\ UNCHANGED <<kind, slots>> /\ asked' = 0 /\ inFlight' = <<>> /\ drawn' = 0
        /\ at' \in {"unstartable", "choose"} /\ begun' = Len(history')
        /\ restarts < MaxRestarts /\ restarts' = restarts + 1
        /\ history' \in {history, SubSeq(history, 1, begun)}
        BY <1>6 DEF Restart
  <2>2. history' \in Seq(Rows) /\ Len(history') <= Len(history)
        BY <1>6, Restarted
  <2>3. Len(history') \in Nat /\ Len(<<>>) = 0 /\ <<>> \in Seq(Nat)
        BY <2>2, LenProperties, EmptySeq
  <2>4. Iteration' <= MaxIters + 1
        BY <2>1, <2>2, <2>3, Lengths, Limits DEF Iteration
  <2>5. restarts' \in 0..MaxRestarts /\ slots \in Nat
        BY <1>0, <2>1, Limits, Lengths
  <2>6. begun' \in 0..Len(history') /\ asked' \in 0..slots /\ Len(inFlight') <= slots
        BY <2>1, <2>3, <2>5
  <2> QED
        BY <1>0, <2>1, <2>2, <2>3, <2>4, <2>5, <2>6
<1>7. CASE UNCHANGED vars
      BY <1>0, <1>7 DEF vars, fixed, engineVars, Iteration
<1> QED
      BY <1>1, <1>2, <1>3, <1>4, <1>5, <1>6, <1>7 DEF Next, Propose

(* LastKeptDiff is the last of the diffs that carry the mark and were kept.*)
KeptDiffs == {i \in 1..Len(history) : Marked(history[i]) /\ history[i].decision = "keep"}

LEMMA LastKept ==
    ASSUME TypeOK
    PROVE  /\ LastKeptDiff = None => KeptDiffs = {}
           /\ LastKeptDiff # None => LastKeptDiff \in KeptDiffs /\ LastKeptDiff \in 1..Len(history)
           /\ LastKeptDiff \in {None} \cup 1..MaxIters
           /\ \A k \in KeptDiffs : k <= LastKeptDiff
<1>1. LastKeptDiff = IF KeptDiffs = {} THEN None ELSE Max(KeptDiffs)
      BY DEF LastKeptDiff, KeptDiffs
<1>2. KeptDiffs \in SUBSET (1..Len(history)) /\ Len(history) \in Nat
      BY Lengths DEF KeptDiffs
<1>3. KeptDiffs # {} => Max(KeptDiffs) \in KeptDiffs /\ \A k \in KeptDiffs : k <= Max(KeptDiffs)
      BY <1>2, LastOne
<1>4. \A k \in KeptDiffs : k \in 1..MaxIters /\ k \in Nat
      BY <1>2, Lengths, Limits
<1>5. None \notin Nat
      BY LoopAssumption
<1> HIDE DEF KeptDiffs
<1> QED
      BY <1>1, <1>2, <1>3, <1>4, <1>5

LEMMA PolicyKeeps == ASSUME TypeOK, Fits, LockedOut, [Next]_vars PROVE PolicyTyped'
<1> USE DEF PolicyTyped
<1>0. PolicyTyped
      BY Parts
<1>1. SelectMode \in {"param", "diff"}
      BY DEF SelectMode
<1>2. CASE Ask
  <2>1. mode' \in {"param", "diff"} /\ corrections' = 0 /\ failures' = failures
        BY <1>1, <1>2 DEF Ask
  <2>2. lastSeen' \in {None} \cup 1..MaxIters
        BY <1>0, <1>2, LastKept DEF Ask
  <2>3. Fresh(talk["diff"]) \in {talk["diff"], <<>>}
        BY DEF Fresh
  <2>4. /\ Fresh(talk["diff"]) \in Seq(1..MaxIters)
        /\ Len(Fresh(talk["diff"])) <= MaxPairs
    <3>1. talk["diff"] \in Seq(1..MaxIters) /\ Len(talk["diff"]) <= MaxPairs
          BY <1>0
    <3>2. <<>> \in Seq(1..MaxIters) /\ Len(<<>>) <= MaxPairs
          BY Limits, EmptySeq
    <3> QED
          BY <2>3, <3>1, <3>2
  <2>5. talk' = talk \/ talk' = [talk EXCEPT !["diff"] = Fresh(talk["diff"])]
        BY <1>2 DEF Ask
  <2>6. /\ talk' \in [{"param", "diff"} -> Seq(1..MaxIters)]
        /\ \A m \in DOMAIN talk' : Len(talk'[m]) <= MaxPairs
        BY <1>0, <2>4, <2>5
  <2> QED
        BY <1>0, <2>1, <2>2, <2>6, Limits
<1>3. CASE Unable
      BY <1>0, <1>1, <1>3 DEF Unable
<1>4. CASE DrawLearned \/ ChatStep \/ FallBack \/ Save \/ UNCHANGED vars
      BY <1>0, <1>4 DEF DrawLearned, ChatStep, FallBack, Save, vars, policyVars
<1>5. CASE Accept
  <2>1. UNCHANGED <<mode, failures, lastSeen, corrections>>
        BY <1>5 DEF Accept
  <2>2. CASE talk' = talk
        BY <1>0, <2>1, <2>2
  <2>3. CASE asked = 1 /\ Remember(mode)
    <3> DEFINE pairs == talk[mode]
    <3>1. Iteration \in 1..MaxIters
          BY <1>5, <2>3, Lengths, Limits DEF Accept, Fits
    <3>2. pairs \in Seq(1..MaxIters) /\ Len(pairs) <= MaxPairs
          BY <1>0
    <3> HIDE DEF pairs
    <3>3. /\ Append(pairs, Iteration) \in Seq(1..MaxIters)
          /\ Len(Append(pairs, Iteration)) = Len(pairs) + 1
          /\ Append(pairs, Iteration) # <<>>
          BY <3>1, <3>2, AppendProperties
    <3>4. /\ Tail(Append(pairs, Iteration)) \in Seq(1..MaxIters)
          /\ Len(Tail(Append(pairs, Iteration))) = Len(pairs)
          BY <3>2, <3>3, HeadTailProperties, LenProperties
    <3>5. /\ Trimmed(Append(pairs, Iteration)) \in Seq(1..MaxIters)
          /\ Len(Trimmed(Append(pairs, Iteration))) <= MaxPairs
      <4>1. Len(pairs) \in Nat
            BY <3>2, LenProperties
      <4>2. CASE Len(Append(pairs, Iteration)) > MaxPairs
            BY <3>2, <3>4, <4>2 DEF Trimmed
      <4>3. CASE ~(Len(Append(pairs, Iteration)) > MaxPairs)
            BY <3>3, <4>1, <4>3, Limits DEF Trimmed
      <4> QED
            BY <4>2, <4>3
    <3>6. talk' = [talk EXCEPT ![mode] = Trimmed(Append(pairs, Iteration))]
          BY <2>3 DEF Remember, pairs
    <3>7. /\ talk' \in [{"param", "diff"} -> Seq(1..MaxIters)]
          /\ \A m \in DOMAIN talk' : Len(talk'[m]) <= MaxPairs
          BY <1>0, <3>5, <3>6
    <3> QED
          BY <1>0, <2>1, <3>7
  <2> QED
        BY <1>5, <2>2, <2>3 DEF Accept
<1>6. CASE Correct
      BY <1>0, <1>6, Limits DEF Correct
<1>7. CASE Judge
  <2>1. PICK result \in Results : CountFailures(result)
        BY <1>7, Judged
  <2>2. UNCHANGED <<mode, talk, lastSeen, corrections>> /\ inFlight # <<>>
        BY <1>7 DEF Judge
  <2>3. failures' \in 0..FailureLimit
    <3>1. CASE kind = "hybrid" /\ mode = "diff"
      <4>1. failures < FailureLimit /\ failures \in Nat
            BY <1>0, <2>2, <3>1 DEF LockedOut
      <4>2. failures' = failures + 1 \/ failures' = 0
            BY <2>1, <3>1 DEF CountFailures
      <4> QED
            BY <4>1, <4>2, Limits
    <3>2. CASE ~(kind = "hybrid" /\ mode = "diff")
          BY <1>0, <2>1, <3>2 DEF CountFailures
    <3> QED
          BY <3>1, <3>2
  <2> QED
        BY <1>0, <2>2, <2>3
<1>8. CASE Restart
  <2>1. /\ mode' = "param" /\ failures' = 0 /\ lastSeen' = None /\ corrections' = 0
        /\ talk' = [m \in {"param", "diff"} |-> <<>>]
        BY <1>8 DEF Restart
  <2>2. Len(<<>>) = 0 /\ <<>> \in Seq(1..MaxIters)
        BY EmptySeq
  <2> QED
        BY <2>1, <2>2, Limits
<1> QED
      BY <1>2, <1>3, <1>4, <1>5, <1>6, <1>7, <1>8 DEF Next, Propose

LEMMA SnapshotLoads ==
    ASSUME LearnerTypeOK
    PROVE  Latest \in {None, Torn} \cup 1..saves
<1>1. disk \in [1..MaxVersion -> {None, Torn} \cup 1..saves] /\ MaxVersion \in Nat
      BY LearnedAssumption DEF LearnerTypeOK
<1>2. Versions \in SUBSET (1..MaxVersion)
      BY DEF Versions
<1>3. Versions # {} => Max(Versions) \in 1..MaxVersion
      BY <1>1, <1>2, LastOne
<1> QED
      BY <1>1, <1>3 DEF Latest

LEMMA LearnerKeeps == ASSUME TypeOK, Updates, [Next]_vars PROVE LearnerTypeOK' /\ Updates'
<1> USE DEF LearnerTypeOK, Updates
<1>0. LearnerTypeOK /\ None \notin Nat /\ Torn \notin Nat /\ None # Torn
      BY Parts, LoopAssumption
<1>1. ASSUME UNCHANGED learnerVars, Len(history') \in Nat, Len(history) <= Len(history')
      PROVE  LearnerTypeOK' /\ Updates'
      BY <1>0, <1>1, Lengths DEF learnerVars, learnerMemory
<1>2. CASE Ask \/ ChatStep \/ Correct \/ UNCHANGED vars
      BY <1>1, <1>2, Lengths DEF Ask, ChatStep, Correct, vars, engineVars
<1>3. CASE Unable \/ Accept \/ FallBack
      BY <1>1, <1>3, Lengths DEF Unable, Accept, FallBack, Submit
<1>4. CASE DrawLearned
  <2>1. Draw(drawn + asked) /\ history' = history
        BY <1>4 DEF DrawLearned, Submit
  <2>2. pending' \in Nat /\ UNCHANGED <<buffered, updates, saving, teacher, disk, saves>>
        BY <2>1, Lengths DEF Draw
  <2> QED
        BY <1>0, <2>1, <2>2
<1>5. CASE Judge
  <2>1. Len(history') = Len(history) + 1
        BY <1>5, Judged
  <2>2. CASE UNCHANGED learnerVars
        BY <1>1, <2>1, <2>2, Lengths
  <2>3. CASE Credit(Len(history) + 1) /\ pending' = None
    <3>1. UNCHANGED <<teacher, disk, saves>>
          BY <2>3 DEF Credit
    <3>2. buffered' \in 0..UpdateEvery - 1
          BY <1>0, <2>3, LearnedAssumption DEF Credit
    <3>3. updates' = updates \/ updates' = updates + 1
          BY <2>3 DEF Credit
    <3>4. saving' \in BOOLEAN /\ (saving' => updates' = updates + 1)
          BY <2>3 DEF Credit
    <3>5. updates' \in Nat /\ updates' <= Len(history') /\ (saving' => updates' > 0)
          BY <1>0, <2>1, <3>3, <3>4, Lengths
    <3> QED
          BY <1>0, <2>3, <3>1, <3>2, <3>4, <3>5
  <2> QED
        BY <1>5, <2>2, <2>3 DEF Judge, Record
<1>6. CASE Save
  <2>1. history' = history
        BY <1>6 DEF Save, engineVars
  <2>2. ASSUME saving PROVE updates \in 1..MaxVersion
        BY <1>0, <2>2, Lengths, Limits, LoopAssumption, LearnedAssumption DEF Iteration
  <2>3. CASE OpenSnapshot
    <3>1. UNCHANGED <<learnerMemory, saves>> /\ disk' = [disk EXCEPT ![updates] = Torn]
          BY <2>3 DEF OpenSnapshot
    <3>2. disk' \in [1..MaxVersion -> {None, Torn} \cup 1..saves]
          BY <1>0, <3>1
    <3> QED
          BY <1>0, <2>1, <3>1, <3>2 DEF learnerMemory
  <2>4. CASE CloseSnapshot
    <3>1. /\ saves' = saves + 1 /\ disk' = [disk EXCEPT ![updates] = saves'] /\ teacher' = saves'
          /\ saving' = FALSE /\ UNCHANGED <<pending, buffered, updates>>
          BY <2>4 DEF CloseSnapshot
    <3>2. saves' \in Nat /\ saves' \in 1..saves' /\ 1..saves \subseteq 1..saves'
          BY <1>0, <3>1
    <3>3. disk \in [1..MaxVersion -> {None, Torn} \cup 1..saves']
          BY <1>0, <3>2
    <3>4. disk' \in [1..MaxVersion -> {None, Torn} \cup 1..saves']
          BY <3>1, <3>2, <3>3
    <3> QED
          BY <1>0, <2>1, <3>1, <3>2, <3>4
  <2> QED
        BY <1>6, <2>3, <2>4 DEF Save
<1>7. CASE Restart
  <2>1. Construct /\ history' \in {history, SubSeq(history, 1, begun)}
        BY <1>7 DEF Restart
  <2>2. /\ pending' = None /\ buffered' = 0 /\ updates' = 0 /\ saving' = FALSE
        /\ teacher' = (IF Constructible THEN Latest ELSE None)
        /\ UNCHANGED <<disk, saves>>
        BY <2>1 DEF Construct
  <2>3. teacher' \in {None} \cup 1..saves
        BY <1>0, <2>2, SnapshotLoads DEF Constructible
  <2>4. 0 \in 0..UpdateEvery - 1
        BY LearnedAssumption
  <2>5. Len(history') \in Nat
        BY <1>7, Restarted
  <2>6. pending' \in Nat \cup {None} /\ updates' \in Nat /\ updates' <= Len(history')
        BY <2>2, <2>5
  <2>7. /\ saves' \in Nat /\ disk' \in [1..MaxVersion -> {None, Torn} \cup 1..saves']
        /\ teacher' \in {None} \cup 1..saves'
        BY <1>0, <2>2, <2>3
  <2>8. buffered' \in 0..UpdateEvery - 1 /\ saving' \in BOOLEAN /\ ~saving'
        BY <2>2, <2>4
  <2> QED
        BY <2>6, <2>7, <2>8
<1> QED
      BY <1>2, <1>3, <1>4, <1>5, <1>6, <1>7 DEF Next, Propose

-----------------------------------------------------------------------------
(* What is asked for, and the lock. *)

LEMMA FitsKeep == ASSUME TypeOK, Fits, [Next]_vars PROVE Fits'
<1>1. CASE Ask
  <2>1. UNCHANGED <<kind, slots, inFlight, history>> /\ Wanted > 0 /\ asked' = Wanted
        BY <1>1 DEF Ask, MayAsk, fixed
  <2>2. at' = IF kind = "learned" THEN "drawing" ELSE "asking"
        BY <1>1 DEF Ask
  <2>3. Iteration' = Iteration
        BY <2>1 DEF Iteration
  <2>4. /\ 1 <= asked' /\ asked' + Len(inFlight) <= slots
        /\ Iteration + asked' <= MaxIters + 1
        BY <2>1, WantedFits
  <2> QED
        BY <2>1, <2>2, <2>3, <2>4 DEF Fits
<1>2. CASE Unable \/ DrawLearned \/ Accept \/ FallBack
      BY <1>2 DEF Unable, DrawLearned, Accept, FallBack, Submit, fixed, Fits
<1>3. CASE ChatStep \/ Correct \/ UNCHANGED vars
      BY <1>3 DEF ChatStep, Correct, vars, fixed, engineVars, Fits, Iteration
<1>4. CASE Judge \/ Save
      BY <1>4 DEF Judge, Save, fixed, Fits
<1>5. CASE Restart
      BY <1>5 DEF Restart, Fits
<1> QED
      BY <1>1, <1>2, <1>3, <1>4, <1>5 DEF Next, Propose

LEMMA LockKeeps == ASSUME TypeOK, Fits, LockedOut, [Next]_vars PROVE LockedOut'
<1>1. CASE Ask \/ Unable
  <2>1. UNCHANGED <<kind, failures>> /\ mode' = SelectMode
        BY <1>1 DEF Ask, Unable, fixed
  <2>2. kind = "hybrid" /\ SelectMode = "diff" => failures < FailureLimit
        BY DEF SelectMode
  <2> QED
        BY <2>1, <2>2 DEF LockedOut
<1>2. CASE DrawLearned
      BY <1>2 DEF DrawLearned, LockedOut, Fits, fixed
<1>3. CASE Accept \/ FallBack
      BY <1>3 DEF Accept, FallBack, LockedOut, fixed, policyVars
<1>4. CASE ChatStep \/ Correct \/ UNCHANGED vars
      BY <1>4 DEF ChatStep, Correct, vars, fixed, policyVars, engineVars, LockedOut
<1>5. CASE Judge
  <2>1. at' # "asking" /\ kind' = kind
        BY <1>5 DEF Judge, fixed
  <2>2. ASSUME kind = "hybrid" PROVE inFlight' = <<>>
    <3>1. Len(inFlight) <= 1
          BY <2>2, Parts DEF Fits, EngineTyped
    <3>2. Len(inFlight') = Len(inFlight) - 1 /\ inFlight' \in Seq(Nat)
          BY <1>5, Judged
    <3>3. ~(Len(inFlight') > 0)
          BY <3>1, <3>2, Lengths
    <3> QED
          BY <3>2, <3>3, EmptySeq
  <2> QED
        BY <2>1, <2>2 DEF LockedOut
<1>6. CASE Save
      BY <1>6 DEF Save, fixed, policyVars, engineVars, LockedOut
<1>7. CASE Restart
      BY <1>7 DEF Restart, LockedOut
<1> QED
      BY <1>1, <1>2, <1>3, <1>4, <1>5, <1>6, <1>7 DEF Next, Propose

-----------------------------------------------------------------------------
(* The counter of failed diffs. *)

LEMMA FailuresKeep == ASSUME TypeOK, FailuresInARow, [Next]_vars PROVE FailuresInARow'
<1>1. ASSUME UNCHANGED <<kind, failures, history, begun>> PROVE FailuresInARow'
      BY <1>1 DEF FailuresInARow, FailedSince, Diffs
<1>2. CASE Ask \/ Unable \/ DrawLearned \/ Accept \/ FallBack
      BY <1>1, <1>2 DEF Ask, Unable, DrawLearned, Accept, FallBack, Submit, fixed, policyVars
<1>3. CASE ChatStep \/ Correct \/ Save \/ UNCHANGED vars
      BY <1>1, <1>3 DEF ChatStep, Correct, Save, vars, fixed, policyVars, engineVars
<1>4. CASE Restart
  <2>1. failures' = 0 /\ begun' = Len(history') /\ history' \in {history, SubSeq(history, 1, begun)}
        BY <1>4 DEF Restart
  <2>2. Len(history') \in Nat
        BY <1>4, Restarted
  <2>3. FailedSince' = {}
        BY <2>1, <2>2 DEF FailedSince, Diffs
  <2> QED
        BY <2>1, <2>3, FS_EmptySet DEF FailuresInARow
<1>5. CASE Judge
  <2> DEFINE n == Len(history)
  <2>1. PICK result \in Results :
              /\ CountFailures(result)
              /\ Len(history') = n + 1
              /\ \A i \in 1..n : history'[i] = history[i]
              /\ history'[n + 1] = Entry(result)
        BY <1>5, Judged
  <2>2. /\ kind' = kind /\ begun' = begun /\ n \in Nat /\ begun \in Nat /\ begun <= n
        BY <1>5, Lengths, Parts DEF Judge, fixed, EngineTyped
  <2>3. /\ Entry(result).diff = (mode = "diff")
        /\ Entry(result).failed = (result = "failed")
        BY DEF Entry
  <2>4. n + 1 \in begun + 1..Len(history') /\ begun + 1..Len(history') = (begun + 1..n) \cup {n + 1}
        BY <2>1, <2>2
  <2>5. \A i \in begun + 1..n : i \in 1..n /\ i < n + 1 /\ i \in Nat
        BY <2>2
  <2>6. Diffs \subseteq begun + 1..n
        BY DEF Diffs
  <2>7. Diffs' = IF mode = "diff" THEN Diffs \cup {n + 1} ELSE Diffs
        BY <2>1, <2>2, <2>3, <2>4, <2>5 DEF Diffs
  <2>8. SUFFICES ASSUME kind = "hybrid" PROVE failures' = Cardinality(FailedSince')
        BY <2>2 DEF FailuresInARow
  <2>9. failures = Cardinality(FailedSince)
        BY <2>8 DEF FailuresInARow
  <2> HIDE DEF n
  <2>10. CASE mode # "diff"
    <3>1. FailedSince' = FailedSince
          BY <2>1, <2>5, <2>6, <2>7, <2>10 DEF FailedSince
    <3>2. failures' = failures
          BY <2>1, <2>10 DEF CountFailures
    <3> QED
          BY <2>9, <3>1, <3>2
  <2>11. CASE mode = "diff" /\ result = "failed"
    <3>1. FailedSince' = FailedSince \cup {n + 1}
      <4>1. history'[n + 1].failed
            BY <2>1, <2>3, <2>11
      <4>2. \A i \in Diffs : history'[i].failed = history[i].failed
            BY <2>1, <2>5, <2>6
      <4>3. Diffs' = Diffs \cup {n + 1} /\ \A j \in Diffs : j < n + 1 /\ j \in Nat
            BY <2>5, <2>6, <2>7, <2>11
      <4> QED
            BY <2>2, <4>1, <4>2, <4>3 DEF FailedSince
    <3>2. n + 1 \notin FailedSince
          BY <2>2, <2>5, <2>6 DEF FailedSince
    <3>3. IsFiniteSet(FailedSince)
      <4>1. FailedSince \subseteq begun + 1..n
            BY <2>6 DEF FailedSince
      <4>2. begun + 1 \in Int /\ n \in Int
            BY <2>2
      <4> QED
            BY <4>1, <4>2, FS_Interval, FS_Subset
    <3>4. Cardinality(FailedSince') = Cardinality(FailedSince) + 1
          BY <3>1, <3>2, <3>3, FS_AddElement
    <3>5. failures' = failures + 1
          BY <2>1, <2>8, <2>11 DEF CountFailures
    <3> QED
          BY <2>9, <3>4, <3>5
  <2>12. CASE mode = "diff" /\ result # "failed"
    <3>1. n + 1 \in Diffs' /\ ~history'[n + 1].failed
          BY <2>1, <2>3, <2>7, <2>12
    <3>2. \A i \in Diffs' : i <= n + 1
          BY <2>2, <2>5, <2>6, <2>7
    <3>3. FailedSince' = {}
          BY <3>1, <3>2 DEF FailedSince
    <3>4. failures' = 0
          BY <2>1, <2>8, <2>12 DEF CountFailures
    <3> QED
          BY <3>3, <3>4, FS_EmptySet
  <2> QED
        BY <2>10, <2>11, <2>12
<1> QED
      BY <1>2, <1>3, <1>4, <1>5 DEF Next, Propose

-----------------------------------------------------------------------------
(* The conversation. *)

LEMMA SeenKeeps == ASSUME TypeOK, Fits, SeenBounds, [Next]_vars PROVE SeenBounds'
<1>1. ASSUME UNCHANGED <<kind, history>> PROVE LastKeptDiff' = LastKeptDiff
      BY <1>1 DEF LastKeptDiff, Marked
<1>2. CASE Ask
  <2>1. UNCHANGED <<kind, history>>
        BY <1>2 DEF Ask, fixed
  <2>2. LastKeptDiff' = LastKeptDiff
        BY <1>1, <2>1
  <2>3. CASE mode' = "diff"
    <3>1. /\ talk' = [talk EXCEPT !["diff"] = Fresh(talk["diff"])]
          /\ lastSeen' = IF LastKeptDiff = None THEN lastSeen ELSE LastKeptDiff
          BY <1>2, <2>3 DEF Ask
    <3>2. talk'["diff"] = Fresh(talk["diff"])
          BY <3>1, Parts DEF PolicyTyped
    <3>3. CASE LastKeptDiff = None
      <4>1. talk'["diff"] = talk["diff"] /\ lastSeen' = lastSeen
            BY <3>1, <3>2, <3>3 DEF Fresh
      <4> QED
            BY <2>1, <2>2, <3>3, <4>1 DEF SeenBounds
    <3>4. CASE LastKeptDiff # None /\ LastKeptDiff = lastSeen
      <4>1. talk'["diff"] = talk["diff"] /\ lastSeen' = lastSeen
            BY <3>1, <3>2, <3>4 DEF Fresh
      <4> QED
            BY <2>1, <2>2, <3>4, <4>1 DEF SeenBounds
    <3>5. CASE LastKeptDiff # None /\ LastKeptDiff # lastSeen
      <4>1. talk'["diff"] = <<>> /\ lastSeen' = LastKeptDiff
            BY <3>1, <3>2, <3>5 DEF Fresh
      <4>2. Len(talk'["diff"]) = 0 /\ lastSeen' <= Len(history)
            BY <3>5, <4>1, LastKept, Lengths
      <4> QED
            BY <2>1, <2>2, <4>1, <4>2 DEF SeenBounds
    <3> QED
          BY <3>3, <3>4, <3>5
  <2>4. CASE mode' # "diff"
        BY <1>2, <2>1, <2>4 DEF Ask, SeenBounds
  <2> QED
        BY <2>3, <2>4
<1>3. CASE Unable \/ DrawLearned \/ FallBack
      BY <1>3 DEF Unable, DrawLearned, FallBack, Submit, policyVars, SeenBounds
<1>4. CASE Accept
  <2>1. lastSeen' = lastSeen /\ history' = history /\ at' = "choose" /\ at = "asking"
        BY <1>4 DEF Accept, Submit
  <2>2. CASE talk'["diff"] = talk["diff"]
        BY <2>1, <2>2 DEF SeenBounds
  <2>3. CASE talk'["diff"] = Trimmed(Append(talk["diff"], Iteration)) /\ asked = 1
    <3> DEFINE pairs == talk["diff"]
               longer == Append(pairs, Iteration)
    <3>1. Iteration \in 1..MaxIters
          BY <2>1, <2>3, Lengths, Limits DEF Fits
    <3>2. pairs \in Seq(1..MaxIters)
          BY Parts DEF PolicyTyped
    <3> HIDE DEF pairs
    <3>3. /\ longer \in Seq(1..MaxIters) /\ Len(longer) = Len(pairs) + 1 /\ longer # <<>>
          /\ \A i \in 1..Len(pairs) : longer[i] = pairs[i]
          /\ longer[Len(pairs) + 1] = Iteration
          BY <3>1, <3>2, AppendProperties
    <3>4. /\ Len(Tail(longer)) = Len(pairs)
          /\ \A i \in 1..Len(pairs) : Tail(longer)[i] = longer[i + 1]
          BY <3>2, <3>3, HeadTailProperties, LenProperties
    <3>5. SUFFICES ASSUME lastSeen # None
                   PROVE  /\ lastSeen <= Len(history)
                          /\ \A i \in 1..Len(Trimmed(longer)) : Trimmed(longer)[i] > lastSeen
          BY <2>1, <2>3 DEF SeenBounds, pairs
    <3>6. /\ lastSeen <= Len(history) /\ lastSeen \in Nat
          /\ \A i \in 1..Len(pairs) : pairs[i] > lastSeen
          BY <3>5, Parts DEF SeenBounds, PolicyTyped, pairs
    <3>7. Iteration > lastSeen /\ Len(pairs) \in Nat
          BY <3>2, <3>6, Lengths, LenProperties
    <3>8. \A i \in 1..Len(longer) : longer[i] > lastSeen
      <4> TAKE i \in 1..Len(longer)
      <4>1. CASE i \in 1..Len(pairs)
            BY <3>3, <3>6, <4>1
      <4>2. CASE i = Len(pairs) + 1
            BY <3>3, <3>7, <4>2
      <4> QED
            BY <3>3, <3>7, <4>1, <4>2
    <3> HIDE DEF longer
    <3>9. CASE Trimmed(longer) = longer
          BY <3>6, <3>8, <3>9
    <3>10. CASE Trimmed(longer) = Tail(longer)
      <4>1. \A i \in 1..Len(pairs) : i + 1 \in 1..Len(longer)
            BY <3>3, <3>7
      <4>2. \A i \in 1..Len(pairs) : Tail(longer)[i] > lastSeen
            BY <3>4, <3>8, <4>1
      <4> QED
            BY <3>4, <3>6, <3>10, <4>2
    <3> QED
          BY <3>9, <3>10 DEF Trimmed
  <2>4. IF asked = 1 THEN Remember(mode) ELSE talk' = talk
        BY <1>4 DEF Accept
  <2>5. mode \in {"param", "diff"} /\ talk \in [{"param", "diff"} -> Seq(1..MaxIters)]
        BY Parts DEF PolicyTyped
  <2>6. Remember(mode) => talk'["diff"] = IF mode = "diff"
                                          THEN Trimmed(Append(talk["diff"], Iteration))
                                          ELSE talk["diff"]
        BY <2>5 DEF Remember
  <2>7. (Remember(mode) /\ mode = "diff") \/ talk'["diff"] = talk["diff"]
        BY <2>4, <2>6
  <2> QED
        BY <2>2, <2>3, <2>4, <2>6, <2>7
<1>5. CASE ChatStep \/ Correct \/ UNCHANGED vars
  <2>1. UNCHANGED <<kind, history, at, mode, talk, lastSeen>>
        BY <1>5 DEF ChatStep, Correct, vars, fixed, policyVars, engineVars
  <2>2. LastKeptDiff' = LastKeptDiff
        BY <1>1, <2>1
  <2> QED
        BY <2>1, <2>2 DEF SeenBounds
<1>6. CASE Judge
  <2>1. UNCHANGED <<talk, lastSeen>> /\ at' # "asking" /\ Len(history') = Len(history) + 1
        BY <1>6, Judged DEF Judge
  <2>2. lastSeen # None => lastSeen \in Nat
        BY Parts DEF PolicyTyped
  <2> QED
        BY <2>1, <2>2, Lengths DEF SeenBounds
<1>7. CASE Save
      BY <1>7 DEF Save, policyVars, engineVars, SeenBounds
<1>8. CASE Restart
      BY <1>8 DEF Restart, SeenBounds
<1> QED
      BY <1>2, <1>3, <1>4, <1>5, <1>6, <1>7, <1>8 DEF Next, Propose

LEMMA SeenMeansFresh == TypeOK /\ SeenBounds => ConversationFresh
<1> SUFFICES ASSUME TypeOK, SeenBounds, at = "asking", kind = "hybrid", mode = "diff",
                    NEW i \in 1..Len(talk["diff"]), NEW k \in 1..Len(history),
                    history[k].diff /\ history[k].decision = "keep"
             PROVE  talk["diff"][i] > k
    BY DEF ConversationFresh
<1>1. k \in KeptDiffs
      BY DEF KeptDiffs, Marked
<1>2. LastKeptDiff # None /\ k <= LastKeptDiff /\ LastKeptDiff \in 1..Len(history)
      BY <1>1, LastKept
<1>3. LastKeptDiff = lastSeen /\ lastSeen # None
      BY <1>2 DEF SeenBounds
<1>4. talk["diff"][i] > lastSeen
      BY <1>3 DEF SeenBounds
<1>5. talk["diff"] \in Seq(1..MaxIters)
      BY Parts DEF PolicyTyped
<1>6. talk["diff"][i] \in 1..MaxIters
      BY <1>5, ElementOfSeq
<1>7. talk["diff"][i] \in Nat /\ k \in Nat /\ lastSeen \in Nat
      BY <1>2, <1>3, <1>6, Lengths, Limits
<1> QED
      BY <1>2, <1>3, <1>4, <1>7

-----------------------------------------------------------------------------
(* The rewards. *)

LEMMA NothingPaired ==
    ASSUME kind' # "learned", pending' = None, credits' = <<>>
    PROVE  Paired' /\ RewardsCredited'
<1>1. credits' \in Seq([draw : Nat, trial : Nat]) /\ Len(credits') = 0
      BY EmptySeq
<1> QED
      BY <1>1 DEF Paired, RewardsCredited, CreditedOnce

LEMMA PairsKeep ==
    ASSUME TypeOK, Fits, Paired, RewardsCredited, [Next]_vars
    PROVE  Paired' /\ RewardsCredited'
<1> DEFINE n == Len(history)
<1>1. ASSUME kind = "learned",
             UNCHANGED <<slots, pending, credits, drawn, inFlight, history, kind>>
      PROVE  Paired' /\ RewardsCredited'
      BY <1>1 DEF Paired, RewardsCredited, CreditedOnce
<1>2. CASE kind # "learned"
  <2>1. pending = None /\ credits = <<>>
        BY <1>2 DEF Paired
  <2>2. kind' = kind
    <3>1. CASE Ask \/ Unable \/ DrawLearned \/ Accept \/ FallBack
          BY <3>1 DEF Ask, Unable, DrawLearned, Accept, FallBack, fixed
    <3>2. CASE ChatStep \/ Correct \/ Judge \/ Save \/ Restart \/ UNCHANGED vars
          BY <3>2 DEF ChatStep, Correct, Judge, Save, Restart, vars, fixed
    <3> QED
          BY <3>1, <3>2 DEF Next, Propose
  <2>3. pending' = None /\ credits' = <<>>
    <3>1. CASE Ask \/ Unable \/ ChatStep \/ Accept \/ Correct \/ FallBack \/ UNCHANGED vars
          BY <2>1, <3>1 DEF Ask, Unable, ChatStep, Accept, Correct, FallBack, vars,
                            learnerVars, learnerMemory
    <3>2. CASE Judge
          BY <1>2, <2>1, <3>2 DEF Judge, learnerVars, learnerMemory
    <3>3. CASE Save
          BY <2>1, <3>3 DEF Save, OpenSnapshot, CloseSnapshot, learnerMemory
    <3>4. CASE Restart
          BY <3>4 DEF Restart, Construct
    <3>5. CASE DrawLearned
          BY <1>2, <3>5 DEF DrawLearned, Fits
    <3> QED
          BY <3>1, <3>2, <3>3, <3>4, <3>5 DEF Next, Propose
  <2> QED
        BY <1>2, <2>2, <2>3, NothingPaired
<1>3. CASE kind = "learned" /\ (Ask \/ UNCHANGED vars)
      BY <1>1, <1>3 DEF Ask, vars, fixed, engineVars, learnerVars, learnerMemory
<1>4. CASE kind = "learned" /\ (Unable \/ ChatStep \/ Accept \/ Correct \/ FallBack)
      BY <1>4 DEF Unable, ChatStep, Accept, Correct, FallBack, Fits
<1>5. CASE kind = "learned" /\ Save
      BY <1>1, <1>5 DEF Save, OpenSnapshot, CloseSnapshot, learnerMemory, fixed, engineVars
<1>6. CASE kind = "learned" /\ Restart
  <2>1. pending' = None /\ credits' = <<>> /\ inFlight' = <<>>
        BY <1>6 DEF Restart, Construct
  <2>2. credits' \in Seq([draw : Nat, trial : Nat]) /\ Len(credits') = 0
        BY <2>1, EmptySeq
  <2> QED
        BY <2>1, <2>2 DEF Paired, RewardsCredited, CreditedOnce
<1>7. CASE kind = "learned" /\ DrawLearned
  <2>1. UNCHANGED <<kind, slots, credits, asked>> /\ pending' = drawn + asked /\ Submit(asked)
        BY <1>7 DEF DrawLearned, Draw, fixed
  <2>2. asked >= 1 /\ asked + Len(inFlight) <= slots /\ Iteration + asked <= MaxIters + 1
        BY <1>7 DEF DrawLearned, Fits
  <2>3. /\ drawn' = drawn + asked /\ history' = history
        /\ inFlight = <<>> => inFlight' # <<>> /\ inFlight'[1] = drawn + 1
        BY <2>1, <2>2, Lengths, Submitted
  <2>4. pending' \in Nat /\ pending' = drawn' /\ drawn < drawn' /\ drawn \in Nat
        BY <2>1, <2>2, <2>3, Lengths
  <2>5. slots = 1 => pending' = inFlight'[1]
    <3>1. slots = 1 => asked = 1 /\ Len(inFlight) = 0
          BY <2>2, Lengths
    <3>2. Len(inFlight) = 0 => inFlight = <<>>
          BY Lengths, EmptySeq
    <3> QED
          BY <2>1, <2>3, <3>1, <3>2
  <2>6. \A i \in 1..Len(credits) : credits[i].draw \in Nat /\ credits[i].draw < drawn'
    <3> TAKE i \in 1..Len(credits)
    <3>1. credits[i] \in [draw : Nat, trial : Nat]
          BY ElementOfSeq DEF Paired
    <3> QED
          BY <2>4, <3>1 DEF Paired
  <2>7. \A i \in 1..Len(credits) : credits[i].draw <= drawn'
        BY <2>4, <2>6
  <2> QED
        BY <1>7, <2>1, <2>3, <2>4, <2>5, <2>6, <2>7 DEF Paired, RewardsCredited, CreditedOnce
<1>8. CASE kind = "learned" /\ Judge
  <2>1. PICK result \in Results :
              /\ Len(history') = n + 1 /\ \A i \in 1..n : history'[i] = history[i]
              /\ history'[n + 1] = Entry(result)
        BY <1>8, Judged
  <2>2. n \in Nat /\ n + 1 \in 1..Len(history') /\ 1..n \subseteq 1..Len(history')
        BY <2>1, Lengths
  <2>3. UNCHANGED <<kind, slots, drawn>> /\ inFlight # <<>> /\ Record(n + 1)
        BY <1>8 DEF Judge, fixed
  <2>4. \A i \in 1..Len(credits) :
           credits[i].trial \in 1..n /\ history'[credits[i].trial] = history[credits[i].trial]
        BY <2>1 DEF Paired
  <2> HIDE DEF n
  <2>5. CASE pending = None
    <3>1. pending' = None /\ credits' = credits
          BY <2>3, <2>5 DEF Record, learnerVars, learnerMemory
    <3> QED
          BY <1>8, <2>2, <2>3, <2>4, <3>1 DEF Paired, RewardsCredited, CreditedOnce
  <2>6. CASE pending # None
    <3> DEFINE new == [draw |-> pending, trial |-> n + 1]
               m == Len(credits)
    <3>1. pending' = None /\ credits' = Append(credits, new)
          BY <2>3, <2>6 DEF Record, Credit
    <3>2. pending \in Nat /\ pending <= drawn
          BY <2>6, Parts DEF Paired, LearnerTypeOK
    <3>3. new \in [draw : Nat, trial : Nat] /\ new.draw = pending /\ new.trial = n + 1
          BY <2>2, <3>2
    <3> HIDE DEF new
    <3>4. /\ credits' \in Seq([draw : Nat, trial : Nat]) /\ Len(credits') = m + 1
          /\ \A i \in 1..m : credits'[i] = credits[i]
          /\ credits'[m + 1] = new
          BY <3>1, <3>3, AppendProperties DEF Paired
    <3>5. m \in Nat
          BY LenProperties DEF Paired
    <3> HIDE DEF m
    <3>6. \A i \in 1..m : /\ credits[i].draw <= drawn /\ credits[i].draw < pending
                          /\ credits[i].trial \in 1..n /\ credits[i].trial < n + 1
          BY <2>2, <2>4, <2>6 DEF Paired, m
    <3>7. \A i \in 1..m + 1 : i \in 1..m \/ i = m + 1
          BY <3>5
    <3>8. \A i \in 1..Len(credits') :
             credits'[i].draw <= drawn' /\ credits'[i].trial \in 1..Len(history')
          BY <2>2, <2>3, <3>2, <3>3, <3>4, <3>6, <3>7
    <3>9. Paired'
          BY <1>8, <2>3, <3>1, <3>4, <3>8 DEF Paired
    <3>10. CreditedOnce'
      <4> SUFFICES ASSUME NEW i \in 1..m + 1, NEW j \in 1..m + 1, i < j
                   PROVE  /\ credits'[i].draw < credits'[j].draw
                          /\ credits'[i].trial < credits'[j].trial
          BY <3>4 DEF CreditedOnce
      <4>1. i \in 1..m
            BY <3>5
      <4>2. CASE j \in 1..m
            BY <3>4, <4>1, <4>2 DEF RewardsCredited, CreditedOnce, m
      <4>3. CASE j = m + 1
            BY <3>3, <3>4, <3>6, <4>1, <4>3
      <4> QED
            BY <3>7, <4>2, <4>3
    <3>11. ASSUME slots = 1, NEW i \in 1..m + 1
           PROVE  credits'[i].draw = history'[credits'[i].trial].draw
      <4>1. CASE i \in 1..m
            BY <2>4, <3>4, <3>11, <4>1 DEF RewardsCredited, m
      <4>2. CASE i = m + 1
        <5>1. history'[n + 1].draw = Head(inFlight) /\ Head(inFlight) = inFlight[1]
              BY <2>1 DEF Entry
        <5>2. pending = inFlight[1]
              BY <2>3, <2>6, <3>11 DEF Paired
        <5> QED
              BY <3>3, <3>4, <4>2, <5>1, <5>2
      <4> QED
            BY <3>7, <4>1, <4>2
    <3> QED
          BY <2>3, <3>4, <3>9, <3>10, <3>11 DEF RewardsCredited
  <2> QED
        BY <2>5, <2>6
<1> QED
      BY <1>2, <1>3, <1>4, <1>5, <1>6, <1>7, <1>8 DEF Next, Propose

-----------------------------------------------------------------------------
(* The theorems. *)

LEMMA Initially == Init => IndInv
<1> SUFFICES ASSUME Init PROVE IndInv
    OBVIOUS
<1> USE DEF Init
<1>1. /\ <<>> \in Seq(Rows) /\ <<>> \in Seq(Nat) /\ <<>> \in Seq([draw : Nat, trial : Nat])
      /\ <<>> \in Seq(1..MaxIters) /\ Len(<<>>) = 0
      BY EmptySeq
<1>2. ChatTypeOK
      BY ChatAssumption DEF ChatTypeOK, ChatInit
<1>3. LearnerTypeOK
  <2>1. 0 \in 0..UpdateEvery - 1
        BY LearnedAssumption
  <2>2. /\ disk = [v \in 1..MaxVersion |-> None] /\ saves = 0 /\ pending = None
        /\ buffered = 0 /\ updates = 0 /\ saving = FALSE /\ teacher = None
        BY DEF LearnerInit, LearnerMemoryInit
  <2>3. disk \in [1..MaxVersion -> {None, Torn} \cup 1..saves]
        BY <2>2
  <2> QED
        BY <2>1, <2>2, <2>3 DEF LearnerTypeOK
<1>4. EngineTyped
  <2>1. kind \in Kinds /\ slots \in {1, Slots} /\ at = "choose" /\ asked = 0
        OBVIOUS
  <2>2. inFlight = <<>> /\ history = <<>> /\ drawn = 0 /\ restarts = 0 /\ begun = 0
        OBVIOUS
  <2>3. Slots \in Nat /\ Slots > 0
        BY LoopAssumption
  <2>4. slots \in 1..Slots /\ slots \in Nat
        BY <2>1, <2>3
  <2>5. Iteration = 1
        BY <1>1, <2>2 DEF Iteration
  <2> QED
        BY <1>1, <2>1, <2>2, <2>4, <2>5, Limits DEF EngineTyped
<1>5. PolicyTyped
      BY <1>1, Limits DEF PolicyTyped
<1>6. TypeOK
      BY <1>2, <1>3, <1>4, <1>5 DEF TypeOK, EngineTyped, PolicyTyped, Rows
<1>7. Fits /\ LockedOut
      BY DEF Fits, LockedOut
<1>8. FailuresInARow
  <2>1. FailedSince = {}
        BY <1>1 DEF FailedSince, Diffs
  <2> QED
        BY <2>1, FS_EmptySet DEF FailuresInARow
<1>9. SeenBounds
      BY DEF SeenBounds
<1>10. Updates
      BY <1>1 DEF Updates, LearnerInit, LearnerMemoryInit
<1>11. Paired /\ RewardsCredited
      BY <1>1 DEF LearnerInit, LearnerMemoryInit, Paired, RewardsCredited, CreditedOnce
<1> QED
      BY <1>6, <1>7, <1>8, <1>9, <1>10, <1>11 DEF IndInv

LEMMA Inductive == IndInv /\ [Next]_vars => IndInv'
<1> SUFFICES ASSUME IndInv, [Next]_vars PROVE IndInv'
    OBVIOUS
<1> USE DEF IndInv
<1>1. TypeOK'
      BY ChatKeeps, EngineKeeps, PolicyKeeps, LearnerKeeps
         DEF TypeOK, EngineTyped, PolicyTyped, Rows
<1> QED
      BY <1>1, FitsKeep, LockKeeps, FailuresKeep, SeenKeeps, LearnerKeeps, PairsKeep

LEMMA Holds == Spec => []IndInv
BY Initially, Inductive, PTL DEF Spec

(* Every reachable state of the loop is well typed; in particular a        *)
(* conversation has at most MaxPairs pairs, and the failure counter stops  *)
(* at its limit.                                                           *)
THEOREM PolicyTypedAlways == Spec => []TypeOK
<1>1. IndInv => TypeOK
      BY DEF IndInv
<1> QED
      BY <1>1, Holds, PTL

(* No request for a diff carries a pair made against a source that a later *)
(* kept diff has replaced (_last_seen_kept_diff_iter of llm_diff.py).      *)
THEOREM TalksFresh == Spec => []ConversationFresh
<1>1. IndInv => ConversationFresh
      BY SeenMeansFresh DEF IndInv
<1> QED
      BY <1>1, Holds, PTL

(* The counter of hybrid.py is the number of failed diffs in a row.        *)
THEOREM FailuresCounted == Spec => []FailuresInARow
<1>1. IndInv => FailuresInARow
      BY DEF IndInv
<1> QED
      BY <1>1, Holds, PTL

(* A reward of the learned policy is credited once, in order, and without  *)
(* batches to the proposal that earned it (learned_search.py).             *)
THEOREM RewardsToTheirProposals == Spec => []RewardsCredited
<1>1. IndInv => RewardsCredited
      BY DEF IndInv
<1> QED
      BY <1>1, Holds, PTL

=============================================================================
