----------------------------- MODULE ExampleProofs -----------------------------
(***************************************************************************)
(* Proofs about what an example trains on: its masks (MaskSampling), for   *)
(* every grid, interval of fractions, gap, number of targets and batch,    *)
(* and its data (TrialData), for any number of workers, prepares, corpora  *)
(* and faults.                                                             *)
(*                                                                         *)
(* That the masks never meet needs to know of every target drawn so far    *)
(* that it is a block of the grid, and of the future sampler that it lies  *)
(* behind the gap: what Sane says of each stage.  That a trial reads what  *)
(* it should hangs on the file prepare.py writes last (LastDecides).       *)
(***************************************************************************)
EXTENDS MaskSampling, TrialData, TLAPS


(* The future sampler's context ends early enough for a gap and a target.  *)
SplitFits ==
    sampler = "future" /\ stage \in {"targets", "sampled", "trained"} =>
        /\ contextEnd \in 1..(rows - (Gap + 1))
        /\ context = {p \in Positions : p[1] < contextEnd}

(* Every target drawn is a block, and a future one starts after the gap. *)
TargetsFit ==
    /\ {} \notin targets
    /\ stage \in {"context", "sampled", "trained"} => targets # {}
    /\ sampler = "future" /\ stage = "split" => targets = {}
    /\ sampler = "future" => stage # "context"
    /\ sampler = "infill" => stage # "targets"
    /\ sampler = "future" /\ stage \in {"targets", "sampled", "trained"} =>
          \A p \in Covered : p[1] >= FutureStart
    /\ stage \in {"pick", "split"} => drawn < NTargets
    /\ stage = "pick" => targets = {}

(* The infill sampler returns a context it has cut. *)
ContextCut ==
    sampler = "infill" /\ Sampled => context # {} /\ context \cap Covered = {}

Sane ==
    /\ TypeOK
    /\ SplitFits
    /\ TargetsFit
    /\ ContextCut
    /\ AttendsEvents
    /\ KeptReadNoTarget

-----------------------------------------------------------------------------
(* Lemmas about the grid. *)

LEMMA GridTyped == TypeOK => rows \in Nat \ {0} /\ columns \in Nat \ {0}
BY MaskAssumption DEF TypeOK, MaskAssumption

(* round(x) clamped to an interval is in it. *)
LEMMA ClampFits ==
    ASSUME NEW x \in Int, NEW low \in Int, NEW high \in Int, low <= high
    PROVE  Clamp(x, low, high) \in low..high
BY DEF Clamp, Larger, Smaller

(* A sampled block lies inside the grid, is not empty, and starts where it *)
(* was told to.                                                            *)
LEMMA BlockFits ==
    ASSUME rows \in Nat \ {0}, columns \in Nat \ {0},
           NEW sizes \in SUBSET ((1..rows) \X (1..columns)),
           NEW first \in Nat, NEW block \in Blocks(sizes, first)
    PROVE  /\ block \subseteq Positions
           /\ block # {}
           /\ \A p \in block : p[1] >= first
<1>0. PICK size \in sizes : block \in Placed(size, first)
    BY Zenon DEF Blocks
<1>1. PICK top \in first..rows - size[1], left \in 0..columns - size[2] :
          block = Block(top, left, size)
    BY <1>0 DEF Placed
<1>2. size[1] \in 1..rows /\ size[2] \in 1..columns
    OBVIOUS
<1>3. /\ top \in Int /\ first <= top /\ top + size[1] <= rows
      /\ left \in Int /\ 0 <= left /\ left + size[2] <= columns
    BY <1>2
<1>4. block = (top..top + size[1] - 1) \X (left..left + size[2] - 1)
    BY <1>1 DEF Block
<1>5. <<top, left>> \in block
    BY <1>2, <1>3, <1>4
<1>6. ASSUME NEW p \in block
      PROVE  p \in Positions /\ p[1] >= first
    <2>1. p[1] \in top..top + size[1] - 1 /\ p[2] \in left..left + size[2] - 1
          /\ p = <<p[1], p[2]>>
        BY <1>4
    <2>2. p[1] \in 0..rows - 1 /\ p[2] \in 0..columns - 1 /\ p[1] >= first
        BY <1>2, <1>3, <2>1
    <2> QED BY <2>1, <2>2 DEF Positions
<1> QED BY <1>5, <1>6

LEMMA InfillFits ==
    ASSUME TypeOK, NEW scale, NEW aspect, NEW block \in InfillBlocks(scale, aspect)
    PROVE  block \subseteq Positions /\ block # {}
<1>1. Sizes(scale, aspect) \in SUBSET ((1..rows) \X (1..columns))
    BY DEF Sizes
<1> QED BY <1>1, GridTyped, BlockFits DEF InfillBlocks

LEMMA RoundedTyped ==
    ASSUME NEW scale, NEW n, NEW x \in Rounded(scale, n)
    PROVE  x \in Int
BY DEF Rounded

(* A future block lies behind the gap. *)
LEMMA FutureFits ==
    ASSUME TypeOK, contextEnd \in 1..(rows - (Gap + 1)),
           NEW block \in Blocks(FutureSizes, FutureStart)
    PROVE  /\ block \subseteq Positions
           /\ block # {}
           /\ \A p \in block : p[1] >= FutureStart
<1>1. rows \in Nat \ {0} /\ columns \in Nat \ {0} /\ Gap \in Nat
    BY GridTyped, MaskAssumption DEF MaskAssumption
<1>2. FutureStart \in Nat /\ rows - FutureStart \in 1..rows
    BY <1>1 DEF FutureStart
<1>3. FutureSizes \in SUBSET ((1..rows) \X (1..columns))
    <2>1. ASSUME NEW h \in Rounded(TimeScale, rows - FutureStart),
                 NEW w \in Rounded(ChannelScale, columns)
          PROVE  <<Clamp(h, 1, rows - FutureStart), Clamp(w, 1, columns)>>
                     \in (1..rows) \X (1..columns)
        <3>1. h \in Int /\ w \in Int
            BY RoundedTyped
        <3>2. Clamp(h, 1, rows - FutureStart) \in 1..rows - FutureStart
            BY <1>2, <3>1, ClampFits
        <3>3. Clamp(w, 1, columns) \in 1..columns
            <4>1. columns \in Int /\ 1 <= columns
                BY <1>1
            <4> QED BY <3>1, <4>1, ClampFits
        <3>4. Clamp(h, 1, rows - FutureStart) \in 1..rows
            BY <1>1, <1>2, <3>2
        <3> QED BY <3>3, <3>4, Zenon
    <2> QED BY <2>1 DEF FutureSizes
<1> QED BY <1>1, <1>2, <1>3, BlockFits

-----------------------------------------------------------------------------
(* The initial state, and each step. *)

LEMMA SaneInit == Init => Sane
<1> SUFFICES ASSUME Init PROVE Sane
    OBVIOUS
<1>1. PICK size \in Grids : rows = size[1] /\ columns = size[2]
    BY DEF Init
<1>2. <<rows, columns>> \in Grids /\ rows \in Nat
    BY <1>1, MaskAssumption DEF MaskAssumption
<1>3. NTargets \in Nat \ {0} /\ MaxAttempts \in Nat \ {0}
    BY MaskAssumption DEF MaskAssumption
<1>4. TypeOK
    <2>1. /\ length \in [Sessions -> 0..rows]
          /\ attended \in [Sessions -> SUBSET Positions]
          /\ scored \in [Sessions -> SUBSET Positions]
        BY <1>2 DEF Init
    <2> QED BY <1>2, <1>3, <2>1 DEF Init, TypeOK
<1> QED BY <1>3, <1>4 DEF Init, Sane, SplitFits, TargetsFit, ContextCut, AttendsEvents,
        KeptReadNoTarget, Sampled, Covered

(* A step that draws a mask leaves the batch alone, and says so by stage.  *)
LEMMA DrawStep ==
    ASSUME Sane, UNCHANGED <<rows, columns>>, UNCHANGED step, stage' # "trained"
    PROVE  AttendsEvents' /\ KeptReadNoTarget' /\ Positions' = Positions
BY DEF AttendsEvents, KeptReadNoTarget, Positions, Read

LEMMA PickStep ==
    ASSUME Sane, Pick
    PROVE  Sane'
<1>1. UNCHANGED <<rows, columns, contextEnd, context, targets, drawn, attempts,
                  length, attended, scored>>
      /\ stage = "pick" /\ stage' = "split" /\ sampler' \in Samplers
    BY DEF Pick, mask, step
<1>2. TypeOK'
    BY <1>1 DEF Sane, TypeOK, Positions
<1>3. AttendsEvents' /\ KeptReadNoTarget'
    BY <1>1, DrawStep DEF step
<1> QED BY <1>1, <1>2, <1>3 DEF Sane, SplitFits, TargetsFit, ContextCut, Sampled

LEMMA SplitStep ==
    ASSUME Sane, Split
    PROVE  Sane'
<1> USE DEF Sane
<1>1. UNCHANGED <<rows, columns, sampler, targets, drawn, attempts,
                  length, attended, scored>>
      /\ stage = "split" /\ stage' = "targets" /\ sampler = "future"
    BY DEF Split, grid, step
<1>2. Positions' = Positions /\ Covered' = Covered
    BY <1>1 DEF Positions, Covered
<1>3. rows \in Nat /\ Gap \in Nat /\ 1 <= rows - (Gap + 1)
    BY GridTyped, MaskAssumption DEF MaskAssumption, Split, TooShort
<1>4. contextEnd' \in 1..(rows - (Gap + 1))
    <2>1. PICK x \in Rounded(ContextFraction, rows) :
              contextEnd' = Clamp(x, 1, rows - (Gap + 1))
        BY DEF Split
    <2> QED BY <1>3, <2>1, RoundedTyped, ClampFits
<1>5. context' = {p \in Positions : p[1] < contextEnd'}
    BY DEF Split
<1>6. TypeOK'
    <2>1. contextEnd' \in 0..rows /\ context' \subseteq Positions
        BY <1>3, <1>4, <1>5
    <2> QED BY <1>1, <1>2, <2>1 DEF TypeOK
<1>7. targets = {} /\ Covered = {}
    BY <1>1 DEF TargetsFit, Covered
<1>8. AttendsEvents' /\ KeptReadNoTarget'
    BY <1>1, DrawStep DEF step
<1> QED BY <1>1, <1>2, <1>4, <1>5, <1>6, <1>7, <1>8
        DEF SplitFits, TargetsFit, ContextCut, Sampled

LEMMA FutureTargetStep ==
    ASSUME Sane, FutureTarget
    PROVE  Sane'
<1> USE DEF Sane
<1>1. UNCHANGED <<rows, columns, sampler, contextEnd, context, attempts,
                  length, attended, scored>>
      /\ stage = "targets" /\ stage' \in {"targets", "sampled"} /\ sampler = "future"
      /\ drawn < NTargets /\ drawn' = drawn + 1
    BY MaskAssumption DEF FutureTarget, grid, step, TypeOK, TargetsFit, MaskAssumption
<1>2. Positions' = Positions /\ FutureStart' = FutureStart
    BY <1>1 DEF Positions, FutureStart
<1>3. PICK block \in Blocks(FutureSizes, FutureStart) : targets' = targets \cup {block}
    BY DEF FutureTarget
<1>4. /\ block \subseteq Positions /\ block # {}
      /\ \A p \in block : p[1] >= FutureStart
    BY <1>1, FutureFits DEF SplitFits
<1>5. Covered' = Covered \cup block
    BY <1>3 DEF Covered
<1>6. TypeOK'
    <2>1. targets' \subseteq SUBSET Positions
        BY <1>3, <1>4 DEF TypeOK
    <2>2. drawn' \in 0..NTargets
        BY <1>1, MaskAssumption DEF TypeOK, MaskAssumption
    <2> QED BY <1>1, <1>2, <2>1, <2>2 DEF TypeOK
<1>7. AttendsEvents' /\ KeptReadNoTarget'
    BY <1>1, DrawStep DEF step
<1> QED BY <1>1, <1>2, <1>3, <1>4, <1>5, <1>6, <1>7
        DEF SplitFits, TargetsFit, ContextCut, Sampled

LEMMA InfillTargetStep ==
    ASSUME Sane, InfillTarget
    PROVE  Sane'
<1> USE DEF Sane
<1>1. UNCHANGED <<rows, columns, sampler, contextEnd, context, attempts,
                  length, attended, scored>>
      /\ stage = "split" /\ sampler = "infill"
      /\ drawn < NTargets /\ drawn' = drawn + 1
      /\ stage' = IF drawn' = NTargets THEN "context" ELSE "split"
    BY DEF InfillTarget, grid, step
<1>2. Positions' = Positions
    BY <1>1 DEF Positions
<1>3. PICK block \in InfillBlocks(TargetScale, TargetAspect) : targets' = targets \cup {block}
    BY DEF InfillTarget
<1>4. block \subseteq Positions /\ block # {}
    BY InfillFits
<1>5. drawn' \in 0..NTargets /\ (stage' = "split" => drawn' < NTargets)
    BY <1>1, MaskAssumption DEF TypeOK, MaskAssumption
<1>6. TypeOK'
    <2>1. targets' \subseteq SUBSET Positions
        BY <1>3, <1>4 DEF TypeOK
    <2> QED BY <1>1, <1>2, <1>5, <2>1 DEF TypeOK
<1>7. AttendsEvents' /\ KeptReadNoTarget'
    BY <1>1, DrawStep DEF step
<1> QED BY <1>1, <1>3, <1>4, <1>5, <1>6, <1>7
        DEF SplitFits, TargetsFit, ContextCut, Sampled

LEMMA InfillContextStep ==
    ASSUME Sane, InfillContext \/ InfillFallback
    PROVE  Sane'
<1> USE DEF Sane
<1>1. UNCHANGED <<rows, columns, sampler, contextEnd, targets, drawn,
                  length, attended, scored>>
      /\ stage = "context" /\ stage' \in {"context", "sampled", "raised"}
      /\ (stage' = "sampled" => context' # {})
    BY DEF InfillContext, InfillFallback, grid, step
<1>2. sampler # "future"
    BY <1>1 DEF TargetsFit
<1>3. Positions' = Positions /\ Covered' = Covered
    BY <1>1 DEF Positions, Covered
<1>4. context' \subseteq Positions /\ context' \cap Covered = {}
    <2>1. CASE InfillContext
        <3>1. PICK block \in InfillBlocks(ContextScale, <<100, 100>>) :
                  context' = block \ Covered
            BY <2>1 DEF InfillContext
        <3> QED BY <3>1, InfillFits
    <2>2. CASE InfillFallback
        BY <2>2 DEF InfillFallback
    <2> QED BY <2>1, <2>2
<1>5. attempts' \in 0..MaxAttempts
    BY MaskAssumption DEF InfillContext, InfillFallback, TypeOK, MaskAssumption
<1>6. TypeOK'
    BY <1>1, <1>3, <1>4, <1>5 DEF TypeOK
<1>7. AttendsEvents' /\ KeptReadNoTarget'
    BY <1>1, DrawStep DEF step
<1> QED BY <1>1, <1>2, <1>3, <1>4, <1>6, <1>7
        DEF SplitFits, TargetsFit, ContextCut, Sampled

LEMMA RaiseStep ==
    ASSUME Sane, RaiseTooShort
    PROVE  Sane'
<1>1. UNCHANGED <<rows, columns, sampler, contextEnd, context, targets, drawn, attempts,
                  length, attended, scored>>
      /\ stage = "split" /\ stage' = "raised"
    BY DEF RaiseTooShort, grid, mask, step
<1>2. TypeOK'
    BY <1>1 DEF Sane, TypeOK, Positions
<1>3. AttendsEvents' /\ KeptReadNoTarget'
    BY <1>1, DrawStep DEF step
<1> QED BY <1>1, <1>2, <1>3 DEF Sane, SplitFits, TargetsFit, ContextCut, Sampled

LEMMA NextStepStep ==
    ASSUME Sane, NextStep
    PROVE  Sane'
<1>1. UNCHANGED <<rows, columns, sampler>> /\ stage' = "pick"
    BY DEF NextStep, grid
<1>2. rows \in Nat /\ NTargets \in Nat \ {0} /\ MaxAttempts \in Nat
    BY GridTyped, MaskAssumption DEF Sane, MaskAssumption
<1>3. /\ contextEnd' = 0 /\ context' = {} /\ targets' = {} /\ drawn' = 0 /\ attempts' = 0
      /\ length' \in [Sessions -> 0..rows]
      /\ attended' \in [Sessions -> SUBSET Positions]
      /\ scored' \in [Sessions -> SUBSET Positions]
    BY <1>2 DEF NextStep
<1>4. TypeOK'
    BY <1>1, <1>2, <1>3 DEF Sane, TypeOK, Positions
<1> QED BY <1>1, <1>2, <1>3, <1>4
        DEF Sane, SplitFits, TargetsFit, ContextCut, AttendsEvents, KeptReadNoTarget, Sampled

(* What the two samplers return, in one statement. *)
LEMMA MasksFit ==
    ASSUME Sane, Sampled
    PROVE  ContextIsApart /\ FutureOnly
<1> USE DEF Sane
<1>1. CASE sampler = "infill"
    BY <1>1 DEF ContextCut, TargetsFit, ContextIsApart, FutureOnly, Sampled
<1>2. CASE sampler = "future"
    <2>1. /\ contextEnd \in 1..(rows - (Gap + 1))
          /\ context = {p \in Positions : p[1] < contextEnd}
          /\ \A p \in Covered : p[1] >= contextEnd + Gap
          /\ rows \in Nat \ {0} /\ columns \in Nat \ {0} /\ Gap \in Nat
        BY <1>2, GridTyped, MaskAssumption
           DEF SplitFits, TargetsFit, Sampled, FutureStart, MaskAssumption
    <2>2. <<0, 0>> \in context
        BY <2>1 DEF Positions
    <2>3. ASSUME NEW c \in context, NEW t \in Covered
          PROVE  t[1] > c[1] + Gap
        <3>1. t \in Positions /\ c \in Positions
            BY <2>1 DEF TypeOK, Covered
        <3>2. t[1] \in Int /\ c[1] \in Int
            BY <3>1 DEF Positions
        <3> QED BY <2>1, <3>2
    <2>4. context \cap Covered = {}
        <3>1. SUFFICES ASSUME NEW p \in context, p \in Covered PROVE FALSE
            OBVIOUS
        <3>2. p \in Positions
            BY <2>1, <3>1
        <3>3. p[1] \in Int
            BY <2>1, <3>2 DEF Positions
        <3>4. p[1] > p[1] + Gap
            BY <2>3, <3>1
        <3> QED BY <2>1, <3>3, <3>4
    <2> QED BY <1>2, <2>2, <2>3, <2>4
           DEF ContextIsApart, FutureOnly, TargetsFit, Sampled
<1> QED BY <1>1, <1>2, MaskAssumption DEF TypeOK, MaskAssumption

LEMMA TrainStep ==
    ASSUME Sane, Train
    PROVE  Sane'
<1> USE DEF Sane
<1>1. UNCHANGED <<rows, columns, sampler, contextEnd, context, targets, drawn, attempts>>
      /\ stage = "sampled" /\ stage' = "trained" /\ columns = 1
      /\ length' \in [Sessions -> MinEvents..rows] /\ MinEvents \in Nat \ {0}
    BY MaskAssumption DEF Train, grid, mask, MaskAssumption
<1>2. Positions' = Positions /\ Covered' = Covered /\ FutureStart' = FutureStart
    BY <1>1 DEF Positions, Covered, FutureStart
<1>3. \A events : Valid(events)' = Valid(events)
    BY <1>2 DEF Valid
<1>4. ASSUME NEW s \in Sessions
      PROVE  /\ length'[s] \in 1..rows
             /\ attended'[s] = Guarded(context \cap Valid(length'[s]))
             /\ <<0, 0>> \in Valid(length'[s])
             /\ attended'[s] # {} /\ attended'[s] \subseteq Valid(length'[s])
             /\ Valid(length'[s]) \subseteq Positions
    <2>1. length'[s] \in 1..rows
        BY <1>1
    <2>2. attended'[s] = Guarded(context \cap Valid(length'[s]))
        BY DEF Train
    <2>3. <<0, 0>> \in Valid(length'[s])
        BY <1>1, <2>1, GridTyped DEF Valid, Positions
    <2>4. Valid(length'[s]) \subseteq Positions
        BY DEF Valid
    <2> QED BY <2>1, <2>2, <2>3, <2>4 DEF Guarded
<1>5. TypeOK'
    <2>1. length' \in [Sessions -> 0..rows]
        BY <1>1, <1>4
    <2>2. attended' \in [Sessions -> SUBSET Positions]
        BY <1>4 DEF Train
    <2>3. scored' \in [Sessions -> SUBSET Positions]
        BY <1>4 DEF Train
    <2> QED BY <1>1, <1>2, <2>1, <2>2, <2>3 DEF TypeOK
<1>6. AttendsEvents'
    BY <1>3, <1>4 DEF AttendsEvents
<1>7. KeptReadNoTarget'
    <2>1. context \cap Covered = {}
        BY <1>1, MasksFit DEF ContextIsApart, Sampled
    <2>2. CASE \E r \in Sessions : Covered \cap Valid(length'[r]) # {}
        <3>1. ASSUME NEW s \in Sessions, NEW p \in context \cap Valid(length'[s])
              PROVE  ({p} \cup attended'[s]) \cap scored'[s] = {}
            <4>1. scored'[s] = Covered \cap Valid(length'[s])
                BY <2>2 DEF Train
            <4>2. attended'[s] = context \cap Valid(length'[s])
                BY <1>4, <3>1 DEF Guarded
            <4> QED BY <2>1, <3>1, <4>1, <4>2
        <3> QED BY <1>1, <1>3, <3>1 DEF KeptReadNoTarget, Read
    <2>3. CASE \A r \in Sessions : Covered \cap Valid(length'[r]) = {}
        <3>1. \A r \in Sessions : scored'[r] = Positions
            BY <2>3 DEF Train
        <3> QED BY <1>2, <1>3, <2>3, <3>1 DEF KeptReadNoTarget
    <2> QED BY <2>2, <2>3
<1> QED BY <1>1, <1>2, <1>5, <1>6, <1>7
        DEF SplitFits, TargetsFit, ContextCut, Sampled

LEMMA SaneStep == Sane /\ [Next]_vars => Sane'
<1> SUFFICES ASSUME Sane, [Next]_vars PROVE Sane'
    OBVIOUS
<1>1. CASE UNCHANGED vars
    <2>1. UNCHANGED <<stage, rows, columns, sampler, contextEnd, context, targets, drawn,
                      attempts, length, attended, scored>>
        BY <1>1 DEF vars, grid, mask, step
    <2> QED BY <2>1 DEF Sane, TypeOK, SplitFits, TargetsFit, ContextCut, AttendsEvents,
            KeptReadNoTarget, Read, Sampled, Covered, Positions, FutureStart, Valid
<1> QED BY <1>1, PickStep, RaiseStep, SplitStep, FutureTargetStep, InfillTargetStep,
        InfillContextStep, TrainStep, NextStepStep DEF Next

LEMMA AlwaysSane == Spec => []Sane
BY SaneInit, SaneStep, PTL DEF Spec

-----------------------------------------------------------------------------
(* Masks and positions lie on the grid. *)
THEOREM MaskTyped == Spec => []TypeOK
<1>1. Sane => TypeOK
    BY DEF Sane
<1> QED BY <1>1, AlwaysSane, PTL

(* No sampler returns a context that is empty or meets a target, and the   *)
(* future sampler's targets are later than its context, whatever the grid, *)
(* the fractions and the gap.                                              *)
THEOREM MasksNeverMeet == Spec => []MasksApart
<1>1. Sane => MasksApart
    <2>1. ~Sampled => ContextIsApart /\ FutureOnly
        BY DEF ContextIsApart, FutureOnly
    <2> QED BY <2>1, MasksFit DEF MasksApart
<1> QED BY <1>1, AlwaysSane, PTL

(* The student's attention always has a key, and never a padded one.       *)
THEOREM StudentSeesEvents == Spec => []AttendsEvents
<1>1. Sane => AttendsEvents
    BY DEF Sane
<1> QED BY <1>1, AlwaysSane, PTL

(* What the student makes of an event of the context holds no event it is  *)
(* scored on, unless no target has an event.                               *)
THEOREM KeptBlindToTargets == Spec => []KeptReadNoTarget
<1>1. Sane => KeptReadNoTarget
    BY DEF Sane
<1> QED BY <1>1, AlwaysSane, PTL

-----------------------------------------------------------------------------
(* The data of the trials. *)

(* The file that is written last, and those a trial depends on.            *)
LastFile == IF script = "ijepa" THEN "canary" ELSE "manifest"
Needed == {Files[j] : j \in 1..4}

(* The behaviours the properties are about: no two prepares at once, and   *)
(* in ijepa-cifar10 none stopped; Kept excludes a stop under a manifest.   *)
Calm == ~overlapped /\ (script = "ijepa" => ~stopped)
Kept == script = "trace" => ~remade
Sound == ~overlapped /\ Kept

OneWriter ==
    ~overlapped => \A p, q \in Procs : proc[p] # None /\ proc[q] # None => p = q

(* A controller's own prepares write its corpus; ijepa-cifar10 has one.    *)
CorporaFit ==
    /\ \A p \in Procs : proc[p] # None /\ proc[p].owner # None => proc[p].corpus = args
    /\ script = "ijepa" =>
          /\ \A p \in Procs : proc[p] # None => proc[p].corpus = args
          /\ \A f \in DOMAIN file : file[f] \in {None, Torn, args}

(* A prepare that outlived its controller is gone before the next one has  *)
(* anything prepared, for that would have been a second writer.            *)
OrphansMeetNobody ==
    Calm => \A p \in Procs : proc[p] # None /\ proc[p].owner = None => ~prepared

InTrial == {"loading", "training", "probing", "ok", "failed"}

TrialsPrepared ==
    \A w \in Workers : /\ at[w] \in InTrial => prepared
                       /\ at[w] \in {"unprepared", "preparing"} => seen[w] = {}

(* Who waits for a prepare is waiting for one.                             *)
OwnersWait ==
    /\ \A p \in Procs : proc[p] # None /\ proc[p].owner # None => at[proc[p].owner] = "preparing"
    /\ \A p, q \in Procs :
          proc[p] # None /\ proc[q] # None /\ proc[p].owner = proc[q].owner
             /\ proc[p].owner # None => p = q

(* A lone writer has all the files before its own behind it.               *)
Written ==
    Calm => \A p \in Procs : Writing(p) =>
        /\ \A j \in 1..proc[p].next - 1 : file[Files[j]] = proc[p].corpus
        /\ proc[p].open => file[Target(p)] = Torn /\ opener[Target(p)] = p

(* The last file says which corpus is there: it is none while one is being *)
(* written, and the one asked for once a prepare has ended well.           *)
WriterHasNotEnded == \A p \in Procs : Writing(p) => file[LastFile] # proc[p].corpus

EndedHasWritten ==
    \A p \in Procs : proc[p] # None /\ proc[p].next > 4 /\ proc[p].rc = 0 =>
        file[LastFile] = proc[p].corpus

LastIsLast == file[LastFile] \in Corpora => \A f \in Needed : file[f] = file[LastFile]

LastDecides ==
    Calm => /\ WriterHasNotEnded
            /\ EndedHasWritten
            /\ prepared => file[LastFile] = args
            /\ Kept => LastIsLast
            /\ script = "ijepa" /\ (\A p \in Procs : ~Writing(p)) =>
                  file["train"] = None \/ file[LastFile] = args

ReadWell ==
    \A w \in Workers :
        /\ Calm /\ Kept => at[w] # "failed"
        /\ Sound /\ at[w] \in InTrial \ {"failed"} => seen[w] \subseteq {args}

Clean == OneWriter /\ CorporaFit /\ OrphansMeetNobody /\ TrialsPrepared /\ OwnersWait
         /\ Written /\ LastDecides /\ ReadWell

DataInv == DataTypeOK /\ Clean

-----------------------------------------------------------------------------
(* Helpers *)

Names == {"train", "test", "probe", "canary", "manifest"}

LEMMA FilesAre ==
    ASSUME DataTypeOK
    PROVE  /\ Len(Files) = 4 /\ DOMAIN Files = 1..4 /\ script \in {"ijepa", "trace"}
           /\ \A j \in 1..4 : Files[j] \in Names
           /\ \A i, j \in 1..4 : Files[i] = Files[j] => i = j
           /\ Files[4] = LastFile /\ Files[1] = "train"
           /\ LastFile \in Names /\ LastFile \in Needed /\ Needed \subseteq Names
           /\ script = "ijepa" => "test" \in Needed
           /\ "train" \in Needed /\ "probe" \in Needed /\ "canary" \in Needed
<1>1. script \in {"ijepa", "trace"}
      BY DataAssumption DEF DataTypeOK
<1>2. CASE script = "ijepa"
  <2>1. Files = <<"train", "test", "probe", "canary">>
        BY <1>2 DEF Files, IjepaFiles
  <2>2. /\ Len(Files) = 4 /\ DOMAIN Files = 1..4 /\ Files[1] = "train" /\ Files[2] = "test"
        /\ Files[3] = "probe" /\ Files[4] = "canary"
        BY <2>1
  <2>3. \A j \in 1..4 : j = 1 \/ j = 2 \/ j = 3 \/ j = 4
        OBVIOUS
  <2>4. {Files[1], Files[2], Files[3], Files[4]} \subseteq Needed
        BY DEF Needed
  <2> QED
        BY <1>2, <2>2, <2>3, <2>4 DEF Names, LastFile, Needed
<1>3. CASE script = "trace"
  <2>1. Files = <<"train", "probe", "canary", "manifest">>
        BY <1>3 DEF Files, TraceFiles
  <2>2. /\ Len(Files) = 4 /\ DOMAIN Files = 1..4 /\ Files[1] = "train" /\ Files[2] = "probe"
        /\ Files[3] = "canary" /\ Files[4] = "manifest"
        BY <2>1
  <2>3. \A j \in 1..4 : j = 1 \/ j = 2 \/ j = 3 \/ j = 4
        OBVIOUS
  <2>4. {Files[1], Files[2], Files[3], Files[4]} \subseteq Needed
        BY DEF Needed
  <2> QED
        BY <1>3, <2>2, <2>3, <2>4 DEF Names, LastFile, Needed
<1> QED
      BY <1>1, <1>2, <1>3

LEMMA Distinct ==
    /\ None \notin Workers /\ None \notin Corpora /\ None \notin Procs /\ None \notin Process
    /\ Torn \notin Corpora /\ Torn # None
BY DataAssumption

(* While a prepare writes, alone, nothing is prepared, and the last file   *)
(* is that of another corpus or of none.                                   *)
LEMMA WriterBeforeTrials ==
    ASSUME DataTypeOK, CorporaFit, OrphansMeetNobody, LastDecides, TrialsPrepared, Calm,
           NEW p \in Procs, Writing(p)
    PROVE  ~prepared /\ \A w \in Workers : at[w] \notin InTrial
<1>1. file[LastFile] # proc[p].corpus /\ proc[p] # None
      BY DEF LastDecides, WriterHasNotEnded, Writing
<1>2. ~prepared
  <2>1. CASE proc[p].owner = None
        BY <1>1, <2>1 DEF OrphansMeetNobody
  <2>2. CASE proc[p].owner # None
        BY <1>1, <2>2 DEF CorporaFit, LastDecides
  <2> QED
        BY <2>1, <2>2
<1> QED
      BY <1>2 DEF TrialsPrepared

(* The types, apart from those of the process table.                       *)
RestTyped ==
    /\ script \in Scripts /\ args \in Corpora
    /\ file \in [Names -> Contents] /\ opener \in [Names -> Procs \cup {None}]
    /\ at \in [Workers -> Places] /\ seen \in [Workers -> SUBSET Contents]
    /\ prepared \in BOOLEAN /\ overlapped \in BOOLEAN /\ stopped \in BOOLEAN
    /\ remade \in BOOLEAN /\ faults \in 0..MaxFaults

ProcTyped ==
    /\ proc \in [Procs -> Process \cup {None}]
    /\ \A p \in Procs : proc[p] # None => (proc[p].open => proc[p].next \in 1..4)

LEMMA TypeParts == DataTypeOK => RestTyped /\ ProcTyped
<1> SUFFICES ASSUME DataTypeOK PROVE RestTyped /\ ProcTyped
    OBVIOUS
<1>1. DOMAIN Files = 1..4
      BY FilesAre
<1>2. file \in [Names -> Contents] /\ DOMAIN file = Names
      BY DEF DataTypeOK, Names
<1> QED
      BY <1>1, <1>2 DEF DataTypeOK, RestTyped, ProcTyped

LEMMA TypeWhole ==
    ASSUME RestTyped', ProcTyped', DOMAIN Files' = 1..4
    PROVE  DataTypeOK'
BY DEF DataTypeOK, RestTyped, ProcTyped, Names

(* One process changes.                                                    *)
LEMMA OneProc ==
    ASSUME ProcTyped, NEW p \in Procs, NEW r \in Process \cup {None},
           proc' = [proc EXCEPT ![p] = r],
           r # None => (r.open => r.next \in 1..4)
    PROVE  /\ ProcTyped' /\ proc'[p] = r
           /\ \A q \in Procs \ {p} : proc'[q] = proc[q]
BY DEF ProcTyped

LEMMA IsProcess ==
    ASSUME ProcTyped, NEW p \in Procs, proc[p] # None
    PROVE  /\ proc[p] \in Process
           /\ proc[p].owner \in Workers \cup {None} /\ proc[p].corpus \in Corpora
           /\ proc[p].next \in 0..5 /\ proc[p].open \in BOOLEAN /\ proc[p].rc \in {0, 1}
           /\ proc[p].open => proc[p].next \in 1..4
BY DEF ProcTyped, Process

-----------------------------------------------------------------------------
(* What a step of a prepare does to its record. *)

Moved(r, n) == [r EXCEPT !.open = FALSE, !.next = n]

LEMMA Moves ==
    ASSUME NEW r \in Process, NEW n \in 0..5
    PROVE  /\ Moved(r, n) \in Process /\ ~Moved(r, n).open /\ Moved(r, n).next = n
           /\ Moved(r, n).owner = r.owner /\ Moved(r, n).corpus = r.corpus
           /\ Moved(r, n).rc = r.rc
BY DEF Moved, Process

LEMMA Looks ==
    ASSUME DataTypeOK, NEW p \in Procs, SkipOrGenerate(p)
    PROVE  LET skips == \/ script = "ijepa" /\ IjepaSkips
                        \/ script = "trace" /\ TraceSkips(proc[p].corpus)
               n == IF skips THEN 5 ELSE 1
               r == [proc[p] EXCEPT !.next = n]
           IN  /\ proc' = [proc EXCEPT ![p] = r] /\ proc[p] # None /\ proc[p] \in Process
               /\ r \in Process /\ r.next = n /\ ~r.open /\ ~proc[p].open /\ proc[p].next = 0
               /\ r.owner = proc[p].owner /\ r.corpus = proc[p].corpus /\ r.rc = proc[p].rc
<1> DEFINE skips == \/ script = "ijepa" /\ IjepaSkips
                    \/ script = "trace" /\ TraceSkips(proc[p].corpus)
           n == IF skips THEN 5 ELSE 1
           r == [proc[p] EXCEPT !.next = n]
<1>1. Len(Files) + 1 = 5
  <2>1. Len(Files) = 4
        BY FilesAre
  <2> QED
        BY <2>1
<1>2. proc' = [proc EXCEPT ![p] = r] /\ proc[p] # None /\ proc[p].next = 0
      BY <1>1 DEF SkipOrGenerate
<1>3. proc[p] \in Process /\ ~proc[p].open
      BY <1>2, TypeParts, IsProcess
<1>4. n \in 0..5
      OBVIOUS
<1> HIDE DEF n
<1>5. /\ r \in Process /\ r.next = n /\ ~r.open
      /\ r.owner = proc[p].owner /\ r.corpus = proc[p].corpus /\ r.rc = proc[p].rc
      BY <1>3, <1>4 DEF Process
<1> QED
      BY <1>2, <1>3, <1>5 DEF n

Ended(r, code) == IF r.owner = None THEN None
                  ELSE [r EXCEPT !.next = 5, !.open = FALSE, !.rc = code]

LEMMA StopEnds ==
    ASSUME DataTypeOK, NEW p \in Procs, proc[p] # None, NEW code \in {0, 1}, Stop(p, code)
    PROVE  /\ proc' = [proc EXCEPT ![p] = Ended(proc[p], code)]
           /\ Ended(proc[p], code) \in Process \cup {None}
           /\ Ended(proc[p], code) # None =>
                 /\ Ended(proc[p], code).next = 5 /\ ~Ended(proc[p], code).open
                 /\ Ended(proc[p], code).owner = proc[p].owner
                 /\ Ended(proc[p], code).corpus = proc[p].corpus
                 /\ Ended(proc[p], code).rc = code
<1>1. proc[p] \in Process
      BY TypeParts, IsProcess
<1>2. proc' = [proc EXCEPT ![p] = Ended(proc[p], code)]
  <2>1. Len(Files) = 4
        BY FilesAre
  <2>2. Len(Files) + 1 = 5
        BY <2>1
  <2> QED
        BY <2>2 DEF Stop, Ended
<1> DEFINE r == [proc[p] EXCEPT !.next = 5, !.open = FALSE, !.rc = code]
<1>3. /\ r \in Process /\ r.next = 5 /\ ~r.open /\ r.rc = code
      /\ r.owner = proc[p].owner /\ r.corpus = proc[p].corpus
  <2> DEFINE a == [proc[p] EXCEPT !.next = 5]
             b == [a EXCEPT !.open = FALSE]
             c == [b EXCEPT !.rc = code]
  <2>1. a \in Process /\ a.next = 5 /\ a.owner = proc[p].owner /\ a.corpus = proc[p].corpus
        BY <1>1 DEF Process
  <2> HIDE DEF a
  <2>2. /\ b \in Process /\ b.next = 5 /\ ~b.open
        /\ b.owner = proc[p].owner /\ b.corpus = proc[p].corpus
        BY <2>1 DEF Process
  <2> HIDE DEF b
  <2>3. /\ c \in Process /\ c.next = 5 /\ ~c.open /\ c.rc = code
        /\ c.owner = proc[p].owner /\ c.corpus = proc[p].corpus
        BY <2>2 DEF Process
  <2> QED
        BY <2>3 DEF a, b
<1> HIDE DEF r
<1>4. Ended(proc[p], code) = IF proc[p].owner = None THEN None ELSE r
      BY DEF Ended, r
<1> QED
      BY <1>2, <1>3, <1>4

LEMMA TypeKeeps == ASSUME DataTypeOK, [DataNext]_dataVars PROVE DataTypeOK'
<1> USE Distinct
<1>0. RestTyped /\ ProcTyped /\ Len(Files) = 4 /\ DOMAIN Files = 1..4
      BY TypeParts, FilesAre
<1>1. ASSUME script' = script, RestTyped', ProcTyped' PROVE DataTypeOK'
  <2>1. DOMAIN Files' = 1..4
        BY <1>0, <1>1 DEF Files
  <2> QED
        BY <1>1, <2>1, TypeWhole
<1>2. ASSUME NEW p \in Procs, SkipOrGenerate(p) PROVE DataTypeOK'
  <2>1. PICK r \in Process : proc' = [proc EXCEPT ![p] = r] /\ ~r.open
        BY <1>2, Looks
  <2>4. ProcTyped'
        BY <1>0, <2>1, OneProc
  <2>5. RestTyped' /\ script' = script
        BY <1>0, <1>2 DEF SkipOrGenerate, RestTyped, fileVars, workerVars, history
  <2> QED
        BY <1>1, <2>4, <2>5
<1>3. ASSUME NEW p \in Procs, OpenFile(p) PROVE DataTypeOK'
  <2>1. proc[p] \in Process /\ proc[p].next \in 1..4
        BY <1>0, <1>3, IsProcess DEF OpenFile, Writing
  <2>2. Target(p) \in Names
        BY <2>1, FilesAre DEF Target
  <2>3. proc' = [proc EXCEPT ![p] = [proc[p] EXCEPT !.open = TRUE]]
        BY <1>3 DEF OpenFile
  <2>4. [proc[p] EXCEPT !.open = TRUE] \in Process /\ [proc[p] EXCEPT !.open = TRUE].next \in 1..4
        BY <2>1 DEF Process
  <2>5. ProcTyped'
        BY <1>0, <2>3, <2>4, OneProc
  <2>6. /\ file' \in [Names -> Contents] /\ opener' \in [Names -> Procs \cup {None}]
        BY <1>0, <1>3, <2>2 DEF OpenFile, RestTyped, Contents
  <2>7. remade' \in BOOLEAN /\ UNCHANGED <<script, args, workerVars, prepared, overlapped,
                                           stopped, faults>>
        BY <1>3 DEF OpenFile
  <2>8. RestTyped'
        BY <1>0, <2>6, <2>7 DEF RestTyped, workerVars
  <2> QED
        BY <1>1, <2>5, <2>7, <2>8
<1>4. ASSUME NEW p \in Procs, CloseFile(p) PROVE DataTypeOK'
  <2>1. proc[p] \in Process /\ proc[p].next \in 1..4 /\ proc[p].corpus \in Corpora
        BY <1>0, <1>4, IsProcess DEF CloseFile, Writing
  <2>2. Target(p) \in Names
        BY <2>1, FilesAre DEF Target
  <2> DEFINE r == Moved(proc[p], proc[p].next + 1)
  <2>3. proc' = [proc EXCEPT ![p] = r]
        BY <1>4 DEF CloseFile, Moved
  <2>4. r \in Process /\ ~r.open
        BY <2>1, Moves
  <2>5. ProcTyped'
        BY <1>0, <2>3, <2>4, OneProc
  <2>6. Closed(p) \in Contents
        BY <2>1 DEF Closed, Contents
  <2>7. file' \in [Names -> Contents]
        BY <1>0, <1>4, <2>2, <2>6 DEF CloseFile, RestTyped
  <2>8. remade' \in BOOLEAN /\ UNCHANGED <<script, args, opener, workerVars, prepared, overlapped,
                                           stopped, faults>>
        BY <1>0, <1>4 DEF CloseFile, RestTyped
  <2>9. RestTyped'
        BY <1>0, <2>7, <2>8 DEF RestTyped, workerVars
  <2> QED
        BY <1>1, <2>5, <2>8, <2>9
<1>5. ASSUME NEW p \in Procs, PrepareFails(p) \/ OrphanEnds(p) PROVE DataTypeOK'
  <2>1. PICK code \in {0, 1} : Stop(p, code) /\ proc[p] # None
        BY <1>5 DEF PrepareFails, OrphanEnds
  <2>2. ProcTyped'
        BY <1>0, <2>1, StopEnds, OneProc
  <2>3. /\ UNCHANGED <<script, args, fileVars, workerVars, prepared, overlapped, remade>>
        /\ stopped' \in BOOLEAN
        BY <1>0, <1>5 DEF PrepareFails, OrphanEnds, history, RestTyped
  <2>4. faults' \in 0..MaxFaults
        BY <1>0, <1>5, DataAssumption DEF PrepareFails, OrphanEnds, Fault, RestTyped
  <2>5. RestTyped'
        BY <1>0, <2>3, <2>4 DEF RestTyped, fileVars, workerVars
  <2> QED
        BY <1>1, <2>2, <2>3, <2>5
<1>6. ASSUME NEW w \in Workers, EnsurePrepared(w) \/ NextTrial(w) PROVE DataTypeOK'
  <2>1. at' \in [Workers -> Places] /\ seen' \in [Workers -> SUBSET Contents]
        BY <1>0, <1>6 DEF EnsurePrepared, NextTrial, RestTyped, Places
  <2>2. UNCHANGED <<script, args, fileVars, proc, prepared, history, faults>>
        BY <1>6 DEF EnsurePrepared, NextTrial
  <2>3. RestTyped' /\ ProcTyped' /\ script' = script
        BY <1>0, <2>1, <2>2 DEF RestTyped, ProcTyped, fileVars, history
  <2> QED
        BY <1>1, <2>3
<1>7. ASSUME NEW w \in Workers, RunPrepare(w) PROVE DataTypeOK'
  <2> DEFINE r == [owner |-> w, corpus |-> args, next |-> 0, open |-> FALSE, rc |-> 0]
  <2>1. PICK p \in Procs : proc' = [proc EXCEPT ![p] = r]
        BY <1>7 DEF RunPrepare
  <2>2. r \in Process /\ ~r.open
        BY <1>0 DEF Process, RestTyped
  <2>3. ProcTyped'
        BY <1>0, <2>1, <2>2, OneProc
  <2>4. at' \in [Workers -> Places] /\ overlapped' \in BOOLEAN
        BY <1>0, <1>7 DEF RunPrepare, RestTyped, Places
  <2>5. UNCHANGED <<script, args, fileVars, seen, prepared, stopped, remade, faults>>
        BY <1>7 DEF RunPrepare
  <2>6. RestTyped'
        BY <1>0, <2>4, <2>5 DEF RestTyped, fileVars
  <2> QED
        BY <1>1, <2>3, <2>5, <2>6
<1>8. ASSUME NEW w \in Workers, Prepared(w) PROVE DataTypeOK'
  <2>1. PICK p \in Procs : /\ proc' = [proc EXCEPT ![p] = None]
                           /\ prepared' = (prepared \/ proc[p].rc = 0)
                           /\ at' = [at EXCEPT ![w] = IF proc[p].rc = 0 THEN "loading"
                                                      ELSE "unprepared failed"]
        BY <1>8 DEF Prepared
  <2>2. ProcTyped'
        BY <1>0, <2>1, OneProc
  <2>3. at' \in [Workers -> Places] /\ prepared' \in BOOLEAN
        BY <1>0, <2>1 DEF RestTyped, Places
  <2>4. UNCHANGED <<script, args, fileVars, seen, history, faults>>
        BY <1>8 DEF Prepared
  <2>5. RestTyped'
        BY <1>0, <2>3, <2>4 DEF RestTyped, fileVars, history
  <2> QED
        BY <1>1, <2>2, <2>4, <2>5
<1>9. ASSUME NEW w \in Workers, TrialStep(w) PROVE DataTypeOK'
  <2>1. UNCHANGED <<script, args, fileVars, proc, prepared, history, faults>>
        BY <1>9 DEF TrialStep
  <2>2. LoadedFirst \subseteq Names /\ LoadedInLoop \subseteq Names /\ {"probe"} \subseteq Names
        BY DEF LoadedFirst, LoadedInLoop, Names
  <2>3. PICK fs \in SUBSET Names, next \in {"training", "probing", "ok"} : Reads(w, fs, next)
        BY <1>9, <2>2 DEF TrialStep
  <2>4. \A f \in fs : file[f] \in Contents
        BY <1>0 DEF RestTyped
  <2>5. at' \in [Workers -> Places]
        BY <1>0, <2>3 DEF Reads, RestTyped, Places
  <2>6. seen' \in [Workers -> SUBSET Contents]
        BY <1>0, <2>3, <2>4 DEF Reads, RestTyped
  <2>7. RestTyped' /\ ProcTyped' /\ script' = script
        BY <1>0, <2>1, <2>5, <2>6 DEF RestTyped, ProcTyped, fileVars, history
  <2> QED
        BY <1>1, <2>7
<1>10. ASSUME Kill PROVE DataTypeOK'
  <2>1. PICK killed \in SUBSET {p \in Procs : proc[p] # None} :
          /\ proc' = [p \in Procs |-> IF proc[p] = None \/ p \in killed THEN None
                                      ELSE [proc[p] EXCEPT !.owner = None]]
          /\ stopped' = (stopped \/ killed # {})
        BY <1>10 DEF Kill
  <2>2. ProcTyped'
    <3>1. \A p \in Procs : proc[p] # None =>
             /\ [proc[p] EXCEPT !.owner = None] \in Process
             /\ [proc[p] EXCEPT !.owner = None].open => proc[p].next \in 1..4
             /\ [proc[p] EXCEPT !.owner = None].next = proc[p].next
          BY <1>0, IsProcess DEF Process
    <3> QED
          BY <2>1, <3>1 DEF ProcTyped
  <2>3. args' \in Corpora
        BY <1>0, <1>10 DEF Kill, RestTyped
  <2>4. at' \in [Workers -> Places] /\ seen' \in [Workers -> SUBSET Contents]
        BY <1>10 DEF Kill, Places
  <2>5. faults' \in 0..MaxFaults
        BY <1>0, <1>10, DataAssumption DEF Kill, Fault, RestTyped
  <2>6. UNCHANGED <<script, fileVars, overlapped, remade>> /\ prepared' = FALSE
        BY <1>10 DEF Kill
  <2>7. RestTyped'
        BY <1>0, <2>1, <2>3, <2>4, <2>5, <2>6 DEF RestTyped, fileVars
  <2> QED
        BY <1>1, <2>2, <2>6, <2>7
<1>11. ASSUME UNCHANGED dataVars PROVE DataTypeOK'
      BY <1>0, <1>1, <1>11 DEF dataVars, fileVars, workerVars, history, RestTyped, ProcTyped
<1> QED
      BY <1>2, <1>3, <1>4, <1>5, <1>6, <1>7, <1>8, <1>9, <1>10, <1>11 DEF DataNext

-----------------------------------------------------------------------------
(* The invariant, action by action. *)

(* What depends on the script alone.                                       *)
LEMMA Frame ==
    ASSUME DataTypeOK, script' = script
    PROVE  /\ Files' = Files /\ LastFile' = LastFile /\ Needed' = Needed
           /\ \A q \in Procs : Writing(q) <=> proc[q] # None /\ proc[q].next \in 1..4
           /\ \A q \in Procs : Writing(q)' <=> proc'[q] # None /\ proc'[q].next \in 1..4
           /\ \A q \in Procs : Target(q)' = Files[proc'[q].next]
           /\ Len(Files) = 4 /\ LastFile \in Needed /\ LastFile \in Names /\ Needed \subseteq Names
<1>1. Files' = Files /\ LastFile' = LastFile
      BY DEF Files, LastFile
<1>2. Needed' = Needed
      BY <1>1 DEF Needed
<1>3. DOMAIN Files = 1..4 /\ Len(Files) = 4
      BY FilesAre
<1>4. DOMAIN Files' = 1..4
      BY <1>1, <1>3
<1>5. \A q \in Procs : Writing(q) <=> proc[q] # None /\ proc[q].next \in 1..4
      BY <1>3 DEF Writing
<1>6. \A q \in Procs : Writing(q)' <=> proc'[q] # None /\ proc'[q].next \in 1..4
      BY <1>4 DEF Writing
<1>7. \A q \in Procs : Target(q)' = Files[proc'[q].next]
      BY <1>1 DEF Target
<1> QED
      BY <1>1, <1>2, <1>3, <1>5, <1>6, <1>7, FilesAre

LEMMA OnlyOne ==
    ASSUME OneWriter, Calm, NEW p \in Procs, proc[p] # None
    PROVE  \A q \in Procs \ {p} : proc[q] = None
BY DEF OneWriter, Calm

LEMMA SkipStep == ASSUME DataInv, NEW p \in Procs, SkipOrGenerate(p) PROVE Clean'
<1> DEFINE skips == \/ script = "ijepa" /\ IjepaSkips
                    \/ script = "trace" /\ TraceSkips(proc[p].corpus)
           n == IF skips THEN 5 ELSE 1
           r == [proc[p] EXCEPT !.next = n]
<1> USE DEF DataInv, Clean
<1>1. /\ proc' = [proc EXCEPT ![p] = r] /\ proc[p] # None /\ proc[p] \in Process
      /\ r \in Process /\ r.next = n /\ ~r.open /\ ~proc[p].open /\ proc[p].next = 0
      /\ r.owner = proc[p].owner /\ r.corpus = proc[p].corpus /\ r.rc = proc[p].rc
      BY Looks
<1>2. UNCHANGED <<script, args, file, opener, at, seen, prepared, overlapped, stopped, remade>>
      BY DEF SkipOrGenerate, fileVars, workerVars, history
<1> HIDE DEF r
<1>3. proc'[p] = r /\ \A q \in Procs \ {p} : proc'[q] = proc[q]
      BY <1>1, TypeParts, OneProc
<1>4. /\ Calm' = Calm /\ Kept' = Kept /\ Sound' = Sound /\ r # None
      BY <1>1, <1>2, Distinct DEF Calm, Kept, Sound
<1>5. OneWriter' /\ CorporaFit' /\ OrphansMeetNobody' /\ TrialsPrepared' /\ OwnersWait' /\ ReadWell'
      BY <1>1, <1>2, <1>3, <1>4
         DEF OneWriter, CorporaFit, OrphansMeetNobody, TrialsPrepared, OwnersWait, ReadWell
<1>6. Written'
      BY <1>1, <1>2, <1>3, <1>4, Frame DEF Written, Target
<1>7. ASSUME Calm PROVE LastDecides'
  <2>1. \A q \in Procs \ {p} : proc[q] = None /\ proc'[q] = None
        BY <1>1, <1>3, <1>7, OnlyOne
  <2>2. \A q \in Procs : ~Writing(q)
        BY <1>1, <1>2, <2>1, Frame
  <2>3. proc[p].corpus \in Corpora
        BY <1>1 DEF Process
  <2>4. CASE skips
    <3>1. r.next = 5
          BY <1>1, <2>4
    <3>2. file[LastFile] = proc[p].corpus
      <4>1. CASE script = "trace"
            BY <2>4, <4>1 DEF TraceSkips, LastFile
      <4>2. CASE script = "ijepa"
        <5>1. file["train"] # None
              BY <2>4, <4>2 DEF IjepaSkips
        <5> QED
              BY <1>1, <1>7, <2>2, <4>2, <5>1 DEF LastDecides, CorporaFit
      <4> QED
            BY <4>1, <4>2, FilesAre
    <3>3. \A q \in Procs : ~Writing(q)'
          BY <1>2, <1>3, <2>1, <3>1, Frame
    <3>4. WriterHasNotEnded' /\ EndedHasWritten'
          BY <1>1, <1>2, <1>3, <2>1, <3>2, <3>3, Frame DEF WriterHasNotEnded, EndedHasWritten
    <3> QED
          BY <1>2, <1>4, <1>7, <2>2, <3>4, Frame DEF LastDecides, LastIsLast
  <2>5. CASE ~skips
    <3>1. r.next = 1
          BY <1>1, <2>5
    <3>2. file[LastFile] # proc[p].corpus
      <4>1. CASE script = "trace"
            BY <2>5, <4>1 DEF TraceSkips, LastFile
      <4>2. CASE script = "ijepa"
        <5>1. SUFFICES ASSUME file[LastFile] = proc[p].corpus PROVE FALSE
              OBVIOUS
        <5>2. file["train"] = file[LastFile] /\ file["test"] = file[LastFile]
              BY <1>7, <2>3, <4>2, <5>1, FilesAre DEF LastDecides, LastIsLast, Kept
        <5> QED
              BY <2>3, <2>5, <4>2, <5>1, <5>2, Distinct DEF IjepaSkips
      <4> QED
            BY <4>1, <4>2, FilesAre
    <3>3. Writing(p)'
          BY <1>2, <1>3, <1>4, <3>1, Frame
    <3>4. WriterHasNotEnded' /\ EndedHasWritten'
          BY <1>1, <1>2, <1>3, <2>1, <3>1, <3>2, Frame DEF WriterHasNotEnded, EndedHasWritten
    <3> QED
          BY <1>2, <1>4, <1>7, <3>3, <3>4, Frame DEF LastDecides, LastIsLast
  <2> QED
        BY <2>4, <2>5
<1>8. LastDecides'
      BY <1>4, <1>7 DEF LastDecides
<1> QED
      BY <1>5, <1>6, <1>8


LEMMA OpenStep == ASSUME DataInv, NEW p \in Procs, OpenFile(p) PROVE Clean'
<1> DEFINE f == Target(p)
           r == [proc[p] EXCEPT !.open = TRUE]
<1> USE DEF DataInv, Clean
<1>1. /\ Writing(p) /\ ~proc[p].open /\ proc' = [proc EXCEPT ![p] = r]
      /\ file' = [file EXCEPT ![f] = Torn] /\ opener' = [opener EXCEPT ![f] = p]
      BY DEF OpenFile
<1>2. UNCHANGED <<script, args, at, seen, prepared, overlapped, stopped>>
      BY DEF OpenFile, workerVars
<1>3. proc[p] \in Process /\ proc[p] # None /\ proc[p].next \in 1..4 /\ proc[p].corpus \in Corpora
      BY <1>1, <1>2, TypeParts, IsProcess, Frame
<1>4. /\ r \in Process /\ r.open /\ r.next = proc[p].next /\ r # None
      /\ r.owner = proc[p].owner /\ r.corpus = proc[p].corpus /\ r.rc = proc[p].rc
      BY <1>3, Distinct DEF Process
<1> HIDE DEF r
<1>5. proc'[p] = r /\ \A q \in Procs \ {p} : proc'[q] = proc[q]
      BY <1>1, <1>3, <1>4, TypeParts, OneProc
<1>6. Calm' = Calm
      BY <1>2 DEF Calm
<1>7. f \in Needed /\ f \in Names /\ f = Files[proc[p].next]
      BY <1>3, FilesAre DEF Needed, Target
<1>8. /\ DOMAIN file = Names /\ DOMAIN file' = Names
      /\ file'[f] = Torn /\ opener'[f] = p /\ \A g \in Names \ {f} : file'[g] = file[g]
      BY <1>1, <1>7, TypeParts DEF RestTyped
<1> HIDE DEF f
<1>9. OneWriter' /\ OrphansMeetNobody' /\ TrialsPrepared' /\ OwnersWait'
      BY <1>2, <1>3, <1>4, <1>5, <1>6 DEF OneWriter, OrphansMeetNobody, TrialsPrepared, OwnersWait
<1>10. CorporaFit'
      BY <1>2, <1>3, <1>4, <1>5, <1>8 DEF CorporaFit
<1>11. ASSUME Calm PROVE Written' /\ LastDecides'
  <2>1. \A q \in Procs \ {p} : proc[q] = None /\ proc'[q] = None
        BY <1>3, <1>5, <1>11, OnlyOne
  <2>2. ~prepared
        BY <1>1, <1>11, WriterBeforeTrials
  <2>3. \A j \in 1..proc[p].next - 1 : Files[j] \in Names \ {f} /\ Files[j] = Files'[j]
        BY <1>2, <1>3, <1>7, FilesAre, Frame
  <2>4. Written'
        BY <1>1, <1>2, <1>4, <1>5, <1>7, <1>8, <1>11, <2>1, <2>3, Frame DEF Written
  <2>5. file[LastFile] # proc[p].corpus
        BY <1>1, <1>11 DEF LastDecides, WriterHasNotEnded
  <2>6. file'[LastFile] # proc[p].corpus
        BY <1>3, <1>8, <2>5, FilesAre, Distinct
  <2>7. WriterHasNotEnded' /\ EndedHasWritten'
        BY <1>2, <1>3, <1>4, <1>5, <2>1, <2>6, Frame DEF WriterHasNotEnded, EndedHasWritten
  <2>8. Writing(p)'
        BY <1>2, <1>3, <1>4, <1>5, Frame
  <2>9. ASSUME Kept' PROVE file'[LastFile] \notin Corpora
    <3>1. file[LastFile] \in {None, Torn, proc[p].corpus}
      <4>1. CASE script = "trace"
            BY <1>2, <1>8, <2>9, <4>1, FilesAre DEF Kept, OpenFile
      <4>2. CASE script = "ijepa"
            BY <1>3, <1>8, <4>2, FilesAre DEF CorporaFit
      <4> QED
            BY <4>1, <4>2, FilesAre
    <3> QED
          BY <1>8, <2>5, <3>1, FilesAre, Distinct
  <2>10. Kept' => LastIsLast'
        BY <1>2, <2>9, Frame DEF LastIsLast
  <2> QED
        BY <1>2, <2>2, <2>4, <2>7, <2>8, <2>10 DEF LastDecides
<1>12. Written' /\ LastDecides'
      BY <1>6, <1>11 DEF Written, LastDecides
<1>13. ReadWell'
  <2>1. CASE Calm
    <3>1. \A w \in Workers : at[w] \notin InTrial
          BY <1>1, <2>1, WriterBeforeTrials
    <3> QED
          BY <1>2, <3>1 DEF ReadWell, InTrial
  <2>2. CASE ~Calm
    <3>1. Sound' => Sound
          BY <1>2, <2>2 DEF Sound, Calm, Kept
    <3> QED
          BY <1>2, <1>6, <2>2, <3>1 DEF ReadWell
  <2> QED
        BY <2>1, <2>2
<1> QED
      BY <1>9, <1>10, <1>12, <1>13

LEMMA CloseStep == ASSUME DataInv, NEW p \in Procs, CloseFile(p) PROVE Clean'
<1> DEFINE f == Target(p)
           r == Moved(proc[p], proc[p].next + 1)
<1> USE DEF DataInv, Clean
<1>1. /\ Writing(p) /\ proc[p].open /\ proc' = [proc EXCEPT ![p] = r]
      /\ file' = [file EXCEPT ![f] = Closed(p)] /\ remade' = (remade /\ f # "manifest")
      BY DEF CloseFile, Moved
<1>2. UNCHANGED <<script, args, opener, at, seen, prepared, overlapped, stopped>>
      BY DEF CloseFile, workerVars
<1>3. proc[p] \in Process /\ proc[p] # None /\ proc[p].next \in 1..4 /\ proc[p].corpus \in Corpora
      BY <1>1, <1>2, TypeParts, IsProcess, Frame
<1>4. /\ r \in Process /\ ~r.open /\ r.next = proc[p].next + 1 /\ r # None
      /\ r.owner = proc[p].owner /\ r.corpus = proc[p].corpus /\ r.rc = proc[p].rc
  <2>1. proc[p].next + 1 \in 0..5
        BY <1>3
  <2> QED
        BY <1>3, <2>1, Moves, Distinct
<1> HIDE DEF r
<1>5. proc'[p] = r /\ \A q \in Procs \ {p} : proc'[q] = proc[q]
      BY <1>1, <1>3, <1>4, TypeParts, OneProc
<1>6. Calm' = Calm
      BY <1>2 DEF Calm
<1>7. f \in Needed /\ f \in Names /\ f = Files[proc[p].next]
      BY <1>3, FilesAre DEF Needed, Target
<1>8. /\ DOMAIN file = Names /\ DOMAIN file' = Names
      /\ file'[f] = Closed(p) /\ \A g \in Names \ {f} : file'[g] = file[g]
      BY <1>1, <1>7, TypeParts DEF RestTyped
<1>9. Closed(p) \in {proc[p].corpus, Torn}
      BY DEF Closed
<1>10. ASSUME Calm
       PROVE  Closed(p) = proc[p].corpus /\ file[f] = Torn /\ ~prepared
  <2>1. file[f] = Torn /\ opener[f] = p
        BY <1>1, <1>10 DEF Written
  <2>2. \A q \in Procs \ {p} : ~HasOpen(q, f)
        BY <1>2, <1>3, <1>10, OnlyOne, Frame DEF HasOpen
  <2>3. Closed(p) = proc[p].corpus
        BY <2>1, <2>2 DEF Closed
  <2> QED
        BY <1>1, <1>10, <2>1, <2>3, WriterBeforeTrials
<1> HIDE DEF f
<1>11. OneWriter' /\ OrphansMeetNobody' /\ TrialsPrepared' /\ OwnersWait'
      BY <1>2, <1>3, <1>4, <1>5, <1>6 DEF OneWriter, OrphansMeetNobody, TrialsPrepared, OwnersWait
<1>12. CorporaFit'
      BY <1>2, <1>3, <1>4, <1>5, <1>8, <1>9 DEF CorporaFit
<1>13. ASSUME Calm PROVE Written' /\ LastDecides'
  <2>1. \A q \in Procs \ {p} : proc[q] = None /\ proc'[q] = None
        BY <1>3, <1>5, <1>13, OnlyOne
  <2>2. file'[f] = proc[p].corpus /\ file[f] = Torn /\ ~prepared
        BY <1>8, <1>10, <1>13
  <2>3. \A j \in 1..proc[p].next - 1 : Files[j] \in Names \ {f} /\ file[Files[j]] = proc[p].corpus
        BY <1>1, <1>3, <1>7, <1>13, FilesAre DEF Written
  <2>4. \A j \in 1..proc[p].next : file'[Files[j]] = proc[p].corpus
    <3> TAKE j \in 1..proc[p].next
    <3>1. CASE j \in 1..proc[p].next - 1
          BY <1>8, <2>3, <3>1
    <3>2. CASE j = proc[p].next
          BY <1>7, <2>2, <3>2
    <3> QED
          BY <1>3, <3>1, <3>2
  <2>5. r.next - 1 = proc[p].next
        BY <1>3, <1>4
  <2>6. Written'
        BY <1>2, <1>4, <1>5, <2>1, <2>4, <2>5, Frame DEF Written
  <2>7. CASE proc[p].next = 4
    <3>1. file'[LastFile] = proc[p].corpus /\ r.next = 5
          BY <1>4, <1>7, <2>2, <2>7, FilesAre
    <3>2. \A g \in Needed : file'[g] = proc[p].corpus
          BY <2>4, <2>7 DEF Needed
    <3>3. WriterHasNotEnded' /\ EndedHasWritten' /\ LastIsLast'
          BY <1>2, <1>4, <1>5, <2>1, <3>1, <3>2, Frame
             DEF WriterHasNotEnded, EndedHasWritten, LastIsLast
    <3>4. script = "ijepa" => file'[LastFile] = args
          BY <1>3, <3>1 DEF CorporaFit
    <3> QED
          BY <1>2, <2>2, <2>6, <3>3, <3>4, Frame DEF LastDecides
  <2>8. CASE proc[p].next # 4
    <3>1. f # LastFile /\ r.next \in 1..4
          BY <1>3, <1>4, <1>7, <2>8, FilesAre
    <3>2. file'[LastFile] = file[LastFile] /\ file[LastFile] # proc[p].corpus
          BY <1>1, <1>8, <1>13, <3>1, FilesAre DEF LastDecides, WriterHasNotEnded
    <3>3. Writing(p)'
          BY <1>2, <1>4, <1>5, <3>1, Frame
    <3>4. WriterHasNotEnded' /\ EndedHasWritten'
          BY <1>2, <1>4, <1>5, <2>1, <3>1, <3>2, Frame DEF WriterHasNotEnded, EndedHasWritten
    <3>5. Kept' => Kept
          BY <1>1, <1>2, <3>1 DEF Kept, LastFile
    <3>6. Kept' => file[LastFile] \notin Corpora
          BY <1>7, <1>13, <2>2, <3>5, Distinct DEF LastDecides, LastIsLast
    <3>7. Kept' => LastIsLast'
          BY <1>2, <3>2, <3>6, Frame DEF LastIsLast
    <3> QED
          BY <1>2, <2>2, <2>6, <3>3, <3>4, <3>7 DEF LastDecides
  <2> QED
        BY <2>7, <2>8
<1>14. Written' /\ LastDecides'
      BY <1>6, <1>13 DEF Written, LastDecides
<1>15. ReadWell'
  <2>1. CASE Calm
    <3>1. \A w \in Workers : at[w] \notin InTrial
          BY <1>1, <2>1, WriterBeforeTrials
    <3> QED
          BY <1>2, <3>1 DEF ReadWell, InTrial
  <2>2. CASE ~Calm
    <3>1. Sound' => Sound
          BY <1>2, <2>2 DEF Sound, Calm, Kept
    <3> QED
          BY <1>2, <1>6, <2>2, <3>1 DEF ReadWell
  <2> QED
        BY <2>1, <2>2
<1> QED
      BY <1>11, <1>12, <1>14, <1>15

LEMMA StopStep ==
    ASSUME DataInv, NEW p \in Procs, PrepareFails(p) \/ OrphanEnds(p)
    PROVE  Clean'
<1> USE DEF DataInv, Clean
<1>1. PICK code \in {0, 1} :
         /\ Stop(p, code) /\ proc[p] # None
         /\ code = 1 => stopped' = TRUE
         /\ code = 0 => proc[p].owner = None /\ proc[p].next > 4 /\ stopped' = stopped
  <2>1. Len(Files) = 4
        BY FilesAre
  <2>2. CASE PrepareFails(p)
    <3> WITNESS 1 \in {0, 1}
    <3> QED
          BY <2>2 DEF PrepareFails
  <2>3. CASE OrphanEnds(p)
    <3> WITNESS 0 \in {0, 1}
    <3> QED
          BY <2>1, <2>3 DEF OrphanEnds, history
  <2> QED
        BY <2>2, <2>3
<1> DEFINE r == Ended(proc[p], code)
<1>2. UNCHANGED <<script, args, file, opener, at, seen, prepared, overlapped, remade>>
      BY DEF PrepareFails, OrphanEnds, fileVars, workerVars, history
<1>3. /\ proc' = [proc EXCEPT ![p] = r] /\ r \in Process \cup {None}
      /\ r # None => /\ r.next = 5 /\ ~r.open /\ r.owner = proc[p].owner
                     /\ r.corpus = proc[p].corpus /\ r.rc = code
      BY <1>1, StopEnds
<1>4. proc[p].owner = None => r = None
      BY DEF Ended
<1> HIDE DEF r
<1>5. proc'[p] = r /\ \A q \in Procs \ {p} : proc'[q] = proc[q]
      BY <1>3, TypeParts, OneProc
<1>6. (Calm' => Calm) /\ Kept' = Kept /\ Sound' = Sound
      BY <1>1, <1>2 DEF Calm, Kept, Sound
<1>7. OneWriter' /\ CorporaFit' /\ OrphansMeetNobody' /\ TrialsPrepared' /\ OwnersWait' /\ ReadWell'
      BY <1>1, <1>2, <1>3, <1>5, <1>6
         DEF OneWriter, CorporaFit, OrphansMeetNobody, TrialsPrepared, OwnersWait, ReadWell
<1>8. \A q \in Procs : Writing(q)' => Writing(q) /\ proc'[q] = proc[q]
      BY <1>2, <1>3, <1>5, Frame
<1>9. Written'
      BY <1>2, <1>6, <1>8, Frame DEF Written, Target
<1>10. ASSUME Calm' PROVE LastDecides'
  <2>1. WriterHasNotEnded'
        BY <1>2, <1>6, <1>8, <1>10, Frame DEF LastDecides, WriterHasNotEnded
  <2>2. EndedHasWritten'
        BY <1>1, <1>2, <1>3, <1>4, <1>5, <1>6, <1>10, Frame DEF LastDecides, EndedHasWritten
  <2>3. ASSUME script = "ijepa"
        PROVE  ~Writing(p) /\ \A q \in Procs \ {p} : Writing(q) => Writing(q)'
    <3>1. code = 0
          BY <1>1, <1>2, <1>10, <2>3 DEF Calm
    <3>2. ~(proc[p].next \in 1..4)
          BY <1>1, <3>1, TypeParts, IsProcess
    <3> QED
          BY <1>2, <1>5, <3>2, Frame
  <2>4. script = "ijepa" /\ (\A q \in Procs : ~Writing(q)') => \A q \in Procs : ~Writing(q)
        BY <2>3
  <2> QED
        BY <1>2, <1>6, <1>10, <2>1, <2>2, <2>4, Frame DEF LastDecides, LastIsLast
<1>11. LastDecides'
      BY <1>10 DEF LastDecides
<1> QED
      BY <1>7, <1>9, <1>11


(* A step of a worker alone.                                               *)
LEMMA WorkerOnly ==
    ASSUME DataInv,
           UNCHANGED <<script, args, fileVars, proc, prepared, history, faults>>
    PROVE  /\ OneWriter' /\ CorporaFit' /\ OrphansMeetNobody' /\ Written' /\ LastDecides'
           /\ Calm' = Calm /\ Kept' = Kept /\ Sound' = Sound
<1> USE DEF DataInv, Clean, fileVars, history
<1>1. Calm' = Calm /\ Kept' = Kept /\ Sound' = Sound
      BY DEF Calm, Kept, Sound
<1>2. OneWriter' /\ CorporaFit' /\ OrphansMeetNobody'
      BY <1>1 DEF OneWriter, CorporaFit, OrphansMeetNobody
<1>3. \A q \in Procs : (Writing(q)' <=> Writing(q)) /\ Target(q)' = Target(q)
  <2>1. Files' = Files
        BY Frame
  <2> QED
        BY <2>1 DEF Writing, Target
<1>4. Written'
      BY <1>1, <1>3, Frame DEF Written
<1>5. LastDecides'
      BY <1>1, <1>3, Frame DEF LastDecides, WriterHasNotEnded, EndedHasWritten, LastIsLast
<1> QED
      BY <1>1, <1>2, <1>4, <1>5

LEMMA StartStep ==
    ASSUME DataInv, NEW w \in Workers, EnsurePrepared(w) \/ NextTrial(w)
    PROVE  Clean'
<1> USE DEF DataInv, Clean
<1>1. UNCHANGED <<script, args, fileVars, proc, prepared, history, faults>>
      BY DEF EnsurePrepared, NextTrial
<1>2. at \in [Workers -> Places] /\ seen \in [Workers -> SUBSET Contents]
      BY TypeParts DEF RestTyped
<1>3. \/ at'[w] = "idle"
      \/ at'[w] = "loading" /\ prepared /\ seen'[w] = {}
      \/ at'[w] = "unprepared" /\ seen'[w] = {}
      BY <1>2 DEF EnsurePrepared, NextTrial
<1>4. at[w] # "preparing"
      BY DEF EnsurePrepared, NextTrial
<1>5. \A v \in Workers \ {w} : at'[v] = at[v] /\ seen'[v] = seen[v]
      BY <1>2 DEF EnsurePrepared, NextTrial
<1>6. args' = args /\ script' = script /\ prepared' = prepared /\ proc' = proc
      BY <1>1
<1>7. TrialsPrepared'
      BY <1>3, <1>5, <1>6 DEF TrialsPrepared, InTrial
<1>8. OwnersWait'
  <2>1. \A p \in Procs : proc[p] # None /\ proc[p].owner # None =>
           proc[p].owner \in Workers \ {w}
        BY <1>4, TypeParts, IsProcess DEF OwnersWait
  <2> QED
        BY <1>5, <1>6, <2>1 DEF OwnersWait
<1>9. ReadWell'
      BY <1>1, <1>3, <1>5, <1>6, WorkerOnly DEF ReadWell, InTrial
<1> QED
      BY <1>1, <1>7, <1>8, <1>9, WorkerOnly

LEMMA RunStep == ASSUME DataInv, NEW w \in Workers, RunPrepare(w) PROVE Clean'
<1> DEFINE r == [owner |-> w, corpus |-> args, next |-> 0, open |-> FALSE, rc |-> 0]
<1> USE DEF DataInv, Clean
<1>1. PICK p \in Procs :
         /\ proc[p] = None /\ proc' = [proc EXCEPT ![p] = r]
         /\ overlapped' = (overlapped \/ \E q \in Procs : proc[q] # None)
      BY DEF RunPrepare
<1>2. UNCHANGED <<script, args, file, opener, seen, prepared, stopped, remade>>
      BY DEF RunPrepare, fileVars
<1>3. at[w] = "unprepared" /\ at' = [at EXCEPT ![w] = "preparing"]
      BY DEF RunPrepare
<1>4. /\ r \in Process /\ r # None /\ r.owner = w /\ r.corpus = args /\ r.next = 0 /\ ~r.open
      /\ w # None
  <2>1. args \in Corpora /\ w \in Workers \cup {None}
        BY TypeParts DEF RestTyped
  <2>2. r \in Process /\ r.owner = w /\ r.corpus = args /\ r.next = 0 /\ ~r.open
        BY <2>1 DEF Process
  <2> QED
        BY <2>2, Distinct
<1> HIDE DEF r
<1>5. proc'[p] = r /\ \A q \in Procs \ {p} : proc'[q] = proc[q]
      BY <1>1, <1>4, TypeParts, OneProc
<1>6. at'[w] = "preparing" /\ \A v \in Workers \ {w} : at'[v] = at[v]
      BY <1>3, TypeParts DEF RestTyped
<1>7. ~overlapped' => ~overlapped /\ \A q \in Procs : proc[q] = None
      BY <1>1
<1>8. Calm' => Calm /\ \A q \in Procs : proc[q] = None
      BY <1>2, <1>7 DEF Calm
<1>9. OneWriter' /\ CorporaFit' /\ OrphansMeetNobody'
      BY <1>2, <1>4, <1>5, <1>7, <1>8 DEF OneWriter, CorporaFit, OrphansMeetNobody
<1>10. TrialsPrepared'
      BY <1>2, <1>3, <1>6 DEF TrialsPrepared, InTrial
<1>11. OwnersWait'
  <2>1. \A q \in Procs : proc[q] # None /\ proc[q].owner # None =>
           proc[q].owner \in Workers \ {w}
        BY <1>3, TypeParts, IsProcess DEF OwnersWait
  <2> QED
        BY <1>4, <1>5, <1>6, <2>1 DEF OwnersWait
<1>12. \A q \in Procs : Writing(q)' <=> Writing(q)
      BY <1>1, <1>2, <1>4, <1>5, Frame
<1>13. Written'
      BY <1>2, <1>5, <1>8, <1>12, Frame DEF Written
<1>14. ASSUME Calm' PROVE LastDecides'
  <2>1. WriterHasNotEnded'
        BY <1>2, <1>8, <1>12, <1>14, Frame DEF WriterHasNotEnded
  <2>2. EndedHasWritten'
        BY <1>2, <1>4, <1>5, <1>8, <1>14, Frame DEF EndedHasWritten
  <2> QED
        BY <1>2, <1>8, <1>12, <1>14, <2>1, <2>2, Frame DEF LastDecides, LastIsLast, Kept
<1>15. LastDecides'
      BY <1>14 DEF LastDecides
<1>16. ReadWell'
  <2>1. (Sound' => Sound) /\ Kept' = Kept
        BY <1>2, <1>7 DEF Sound, Kept
  <2> QED
        BY <1>2, <1>6, <1>8, <2>1 DEF ReadWell, InTrial
<1> QED
      BY <1>9, <1>10, <1>11, <1>13, <1>15, <1>16

LEMMA PreparedStep == ASSUME DataInv, NEW w \in Workers, Prepared(w) PROVE Clean'
<1> USE DEF DataInv, Clean
<1>0. Len(Files) = 4
      BY FilesAre
<1>1. PICK p \in Procs :
         /\ proc[p] # None /\ proc[p].owner = w /\ proc[p].next > 4
         /\ proc' = [proc EXCEPT ![p] = None]
         /\ prepared' = (prepared \/ proc[p].rc = 0)
         /\ at' = [at EXCEPT ![w] = IF proc[p].rc = 0 THEN "loading" ELSE "unprepared failed"]
      BY <1>0 DEF Prepared
<1>2. UNCHANGED <<script, args, file, opener, seen, overlapped, stopped, remade>>
      BY DEF Prepared, fileVars, history
<1>3. proc'[p] = None /\ \A q \in Procs \ {p} : proc'[q] = proc[q]
      BY <1>1, TypeParts, OneProc
<1>4. w # None
      BY Distinct
<1>5. at[w] = "preparing" /\ seen[w] = {} /\ proc[p].corpus = args
      BY <1>1, <1>4 DEF OwnersWait, TrialsPrepared, CorporaFit
<1>6. /\ at'[w] = IF proc[p].rc = 0 THEN "loading" ELSE "unprepared failed"
      /\ \A v \in Workers \ {w} : at'[v] = at[v]
      BY <1>1, TypeParts DEF RestTyped
<1>7. Calm' = Calm /\ Kept' = Kept /\ Sound' = Sound
      BY <1>2 DEF Calm, Kept, Sound
<1>8. Calm => \A q \in Procs : proc'[q] = None
      BY <1>1, <1>3, OnlyOne
<1>9. OneWriter' /\ CorporaFit' /\ OrphansMeetNobody'
      BY <1>2, <1>3, <1>7, <1>8 DEF OneWriter, CorporaFit, OrphansMeetNobody
<1>10. TrialsPrepared'
  <2> SUFFICES ASSUME NEW v \in Workers
               PROVE  /\ at'[v] \in InTrial => prepared'
                      /\ at'[v] \in {"unprepared", "preparing"} => seen'[v] = {}
      BY DEF TrialsPrepared
  <2>1. CASE v = w
    <3>1. CASE proc[p].rc = 0
      <4>1. at'[v] = "loading"
            BY <1>6, <2>1, <3>1
      <4>2. prepared'
            BY <1>1, <3>1, Zenon
      <4> QED
            BY <4>1, <4>2
    <3>2. CASE proc[p].rc # 0
      <4>1. at'[v] = "unprepared failed"
            BY <1>6, <2>1, <3>2
      <4> QED
            BY <4>1 DEF InTrial
    <3> QED
          BY <3>1, <3>2
  <2>2. CASE v # w
    <3>1. at'[v] = at[v] /\ seen'[v] = seen[v] /\ (prepared => prepared')
          BY <1>1, <1>2, <1>6, <2>2
    <3> QED
          BY <3>1 DEF TrialsPrepared
  <2> QED
        BY <2>1, <2>2
<1>11. OwnersWait'
  <2>1. \A q \in Procs \ {p} : proc[q] # None /\ proc[q].owner # None =>
           proc[q].owner \in Workers \ {w}
        BY <1>1, <1>4, TypeParts, IsProcess DEF OwnersWait
  <2>2. \A q \in Procs : proc'[q] # None => q # p /\ proc'[q] = proc[q]
        BY <1>3
  <2>3. \A q \in Procs : proc'[q] # None /\ proc'[q].owner # None =>
           at'[proc'[q].owner] = "preparing"
    <3> SUFFICES ASSUME NEW q \in Procs, proc'[q] # None, proc'[q].owner # None
                 PROVE  at'[proc'[q].owner] = "preparing"
        OBVIOUS
    <3>1. proc'[q] = proc[q] /\ q \in Procs \ {p}
          BY <2>2
    <3>2. proc[q].owner \in Workers \ {w} /\ at[proc[q].owner] = "preparing"
          BY <2>1, <3>1 DEF OwnersWait
    <3> QED
          BY <1>6, <3>1, <3>2
  <2>4. \A q, u \in Procs :
           proc'[q] # None /\ proc'[u] # None /\ proc'[q].owner = proc'[u].owner
              /\ proc'[q].owner # None => q = u
        BY <2>2 DEF OwnersWait
  <2> QED
        BY <2>3, <2>4 DEF OwnersWait
<1>12. \A q \in Procs : ~Writing(q)' \/ ~Calm
      BY <1>2, <1>8, Frame
<1>13. Written'
      BY <1>7, <1>12 DEF Written
<1>14. ASSUME Calm PROVE LastDecides'
  <2>1. \A q \in Procs : ~Writing(q)
    <3>1. \A q \in Procs \ {p} : proc[q] = None
          BY <1>1, <1>14, OnlyOne
    <3>2. ~(proc[p].next \in 1..4)
      <4>1. ProcTyped
            BY TypeParts
      <4>2. proc[p].next \in 0..5
            BY <1>1, <4>1, IsProcess
      <4>3. proc[p].next > 4
            BY <1>1
      <4> QED
            BY <4>2, <4>3
    <3> QED
          BY <1>2, <3>1, <3>2, Frame
  <2>2. proc[p].rc = 0 => file[LastFile] = args
        BY <1>1, <1>5, <1>14 DEF LastDecides, EndedHasWritten
  <2>3. WriterHasNotEnded' /\ EndedHasWritten'
        BY <1>8, <1>12, <1>14 DEF WriterHasNotEnded, EndedHasWritten
  <2> QED
        BY <1>1, <1>2, <1>7, <1>14, <2>1, <2>2, <2>3, Frame DEF LastDecides, LastIsLast
<1>15. LastDecides'
      BY <1>7, <1>14 DEF LastDecides
<1>16. ReadWell'
      BY <1>2, <1>5, <1>6, <1>7 DEF ReadWell, InTrial
<1> QED
      BY <1>9, <1>10, <1>11, <1>13, <1>15, <1>16

(* What a trial reads.                                                     *)
LEMMA ReadStep == ASSUME DataInv, NEW w \in Workers, TrialStep(w) PROVE Clean'
<1> USE DEF DataInv, Clean
<1>1. UNCHANGED <<script, args, fileVars, proc, prepared, history, faults>>
      BY DEF TrialStep
<1>2. at \in [Workers -> Places] /\ seen \in [Workers -> SUBSET Contents] /\ args \in Corpora
      BY TypeParts DEF RestTyped
<1>3. /\ LoadedFirst \subseteq Needed /\ LoadedInLoop \subseteq Needed /\ {"probe"} \subseteq Needed
      /\ Needed \subseteq DOMAIN file
  <2>1. script = "trace" => LastFile = "manifest"
        BY DEF LastFile
  <2>2. DOMAIN file = Names
        BY TypeParts DEF RestTyped
  <2> QED
        BY <2>1, <2>2, FilesAre DEF LoadedFirst, LoadedInLoop
<1>4. PICK fs \in SUBSET Needed, next \in {"training", "probing", "ok"} : Reads(w, fs, next)
      BY <1>3 DEF TrialStep
<1>5. at[w] \in InTrial \ {"failed"} /\ prepared
      BY DEF TrialStep, InTrial, TrialsPrepared
<1>6. /\ at'[w] \in {next, "failed"} /\ at'[w] # "preparing"
      /\ \A v \in Workers \ {w} : at'[v] = at[v] /\ seen'[v] = seen[v]
      /\ at'[w] # "failed" => /\ \A f \in fs : Readable(f)
                              /\ seen'[w] = seen[w] \cup {file[f] : f \in fs}
      /\ at'[w] = "failed" => \E f \in fs : Unreadable(f)
      BY <1>2, <1>4 DEF Reads
<1>7. args' = args /\ script' = script /\ prepared' = prepared /\ proc' = proc
      BY <1>1
<1>8. TrialsPrepared'
      BY <1>5, <1>6, <1>7 DEF TrialsPrepared, InTrial
<1>9. OwnersWait'
  <2>1. \A p \in Procs : proc[p] # None /\ proc[p].owner # None =>
           proc[p].owner \in Workers \ {w}
        BY <1>5, TypeParts, IsProcess DEF OwnersWait, InTrial
  <2> QED
        BY <1>6, <1>7, <2>1 DEF OwnersWait
<1>10. ASSUME Calm, Kept
       PROVE  \A f \in Needed : file[f] = args /\ ~Unreadable(f)
  <2>1. file[LastFile] = args /\ LastIsLast
        BY <1>5, <1>10 DEF LastDecides
  <2> QED
        BY <1>2, <2>1, Distinct DEF LastIsLast, Unreadable
<1>11. ASSUME script = "ijepa", ~overlapped
       PROVE  \A f \in Needed : Readable(f) => file[f] = args
      BY <1>3, <1>11, Distinct DEF Readable, MayBeShort, MayHaveHole, CorporaFit
<1>12. ASSUME at'[w] # "failed", Sound
       PROVE  seen'[w] \subseteq {args}
  <2>1. \A f \in fs : file[f] = args
    <3>1. script = "ijepa" \/ (Calm /\ Kept)
          BY <1>3, <1>12, FilesAre DEF Sound, Calm
    <3>2. ~overlapped
          BY <1>12 DEF Sound
    <3> QED
          BY <1>6, <1>10, <1>11, <1>12, <3>1, <3>2
  <2>2. seen[w] \subseteq {args}
        BY <1>5, <1>12, FilesAre DEF ReadWell
  <2> QED
        BY <1>6, <1>12, <2>1, <2>2
<1>13. Calm /\ Kept => at'[w] # "failed"
      BY <1>6, <1>10
<1>14. ReadWell'
      BY <1>1, <1>6, <1>7, <1>12, <1>13, FilesAre, WorkerOnly DEF ReadWell, InTrial
<1> QED
      BY <1>1, <1>8, <1>9, <1>14, WorkerOnly

LEMMA KillStep == ASSUME DataInv, Kill PROVE Clean'
<1> USE DEF DataInv, Clean
<1>1. PICK killed \in SUBSET {p \in Procs : proc[p] # None} :
        /\ proc' = [p \in Procs |-> IF proc[p] = None \/ p \in killed THEN None
                                    ELSE [proc[p] EXCEPT !.owner = None]]
        /\ stopped' = (stopped \/ killed # {})
      BY DEF Kill
<1>2. UNCHANGED <<script, file, opener, overlapped, remade>> /\ prepared' = FALSE
      BY DEF Kill, fileVars
<1>3. /\ \A w \in Workers : at'[w] = "idle"
      /\ script = "ijepa" => args' = args
      BY DEF Kill
<1>4. \A q \in Procs : proc'[q] # None =>
         /\ proc[q] # None /\ proc'[q].owner = None /\ proc'[q].corpus = proc[q].corpus
         /\ proc'[q].next = proc[q].next /\ proc'[q].open = proc[q].open
         /\ proc'[q].rc = proc[q].rc
      BY <1>1, TypeParts, IsProcess DEF Process
<1>5. (Calm' => Calm) /\ Kept' = Kept
      BY <1>1, <1>2 DEF Calm, Kept
<1>6. OneWriter' /\ CorporaFit' /\ OrphansMeetNobody'
      BY <1>2, <1>3, <1>4, <1>5 DEF OneWriter, CorporaFit, OrphansMeetNobody
<1>7. TrialsPrepared' /\ OwnersWait' /\ ReadWell'
      BY <1>2, <1>3, <1>4 DEF TrialsPrepared, OwnersWait, ReadWell, InTrial
<1>8. \A q \in Procs : Writing(q)' => Writing(q) /\ proc'[q] # None
      BY <1>2, <1>4, Frame
<1>9. Written'
      BY <1>2, <1>4, <1>5, <1>8, Frame DEF Written, Target
<1>10. ASSUME Calm' PROVE LastDecides'
  <2>1. WriterHasNotEnded' /\ EndedHasWritten'
        BY <1>2, <1>4, <1>5, <1>8, <1>10, Frame
           DEF LastDecides, WriterHasNotEnded, EndedHasWritten
  <2>2. ASSUME script = "ijepa", NEW q \in Procs, Writing(q) PROVE Writing(q)'
    <3>1. killed = {} /\ proc[q] # None /\ proc[q].next \in 1..4
          BY <1>1, <1>2, <1>10, <2>2, Frame DEF Calm
    <3>2. [proc[q] EXCEPT !.owner = None] \in Process
          BY <3>1, TypeParts, IsProcess DEF Process
    <3>3. proc'[q] = [proc[q] EXCEPT !.owner = None] /\ proc'[q] # None
          BY <1>1, <3>1, <3>2, Distinct
    <3> QED
          BY <1>2, <1>4, <3>1, <3>3, Frame
  <2> QED
        BY <1>2, <1>3, <1>5, <1>10, <2>1, <2>2, Frame DEF LastDecides, LastIsLast
<1>11. LastDecides'
      BY <1>10 DEF LastDecides
<1> QED
      BY <1>6, <1>7, <1>9, <1>11

LEMMA DataStays == ASSUME DataInv, UNCHANGED dataVars PROVE Clean'
<1>1. /\ UNCHANGED <<script, args, fileVars, proc, prepared, history, faults>>
      /\ UNCHANGED <<at, seen>>
      BY DEF dataVars, workerVars
<1>2. TrialsPrepared' /\ OwnersWait'
      BY <1>1 DEF DataInv, Clean, TrialsPrepared, OwnersWait
<1>3. ReadWell'
      BY <1>1, WorkerOnly DEF DataInv, Clean, ReadWell
<1> QED
      BY <1>1, <1>2, <1>3, WorkerOnly DEF Clean

LEMMA DataInitially == DataInit => DataInv
<1> SUFFICES ASSUME DataInit PROVE DataInv
    OBVIOUS
<1> USE DEF DataInit
<1>1. RestTyped
  <2>1. file \in [Names -> Contents] /\ opener \in [Names -> Procs \cup {None}]
        BY DEF Names, Contents
  <2>2. at \in [Workers -> Places] /\ seen \in [Workers -> SUBSET Contents]
        BY DEF Places
  <2>3. /\ prepared \in BOOLEAN /\ overlapped \in BOOLEAN /\ stopped \in BOOLEAN
        /\ remade \in BOOLEAN
        BY Zenon
  <2>4. faults \in 0..MaxFaults
        BY DataAssumption
  <2> QED
        BY <2>1, <2>2, <2>3, <2>4 DEF RestTyped
<1>2. \A p \in Procs : proc[p] = None
      OBVIOUS
<1>3. ProcTyped
      BY DEF ProcTyped
<1>4. DOMAIN Files = 1..4
  <2>1. script = "ijepa" \/ script = "trace"
        BY DataAssumption
  <2> QED
        BY <2>1 DEF Files, IjepaFiles, TraceFiles
<1>5. DataTypeOK
      BY <1>1, <1>3, <1>4 DEF DataTypeOK, RestTyped, ProcTyped, Names
<1>6. \A p \in Procs : ~Writing(p)
      BY <1>2 DEF Writing
<1>7. \A f \in Names : file[f] = None
      BY DEF Names
<1>8. DOMAIN file = Names
      BY DEF Names
<1>9. OneWriter /\ CorporaFit /\ OrphansMeetNobody
      BY <1>2, <1>7, <1>8 DEF OneWriter, CorporaFit, OrphansMeetNobody
<1>10. TrialsPrepared /\ OwnersWait /\ ReadWell
      BY <1>2 DEF TrialsPrepared, OwnersWait, ReadWell, InTrial
<1>11. file[LastFile] = None /\ file["train"] = None
      BY <1>5, <1>7, FilesAre
<1>12. Written /\ LastDecides
      BY <1>2, <1>6, <1>11, Distinct
         DEF Written, LastDecides, WriterHasNotEnded, EndedHasWritten, LastIsLast
<1> QED
      BY <1>5, <1>9, <1>10, <1>12 DEF DataInv, Clean

LEMMA DataInductive == DataInv /\ [DataNext]_dataVars => DataInv'
<1> SUFFICES ASSUME DataInv, [DataNext]_dataVars PROVE DataInv'
    OBVIOUS
<1>1. DataTypeOK'
      BY TypeKeeps DEF DataInv
<1>2. Clean'
      BY SkipStep, OpenStep, CloseStep, StopStep, StartStep, RunStep, PreparedStep, ReadStep,
         KillStep, DataStays DEF DataNext
<1> QED
      BY <1>1, <1>2 DEF DataInv

LEMMA DataHolds == DataSpec => []DataInv
BY DataInitially, DataInductive, PTL DEF DataSpec

-----------------------------------------------------------------------------
(* Every reachable state of the prepares, their files and the trials that  *)
(* read them is well typed.                                                *)
THEOREM DataTyped == DataSpec => []DataTypeOK
<1>1. DataInv => DataTypeOK
      BY DEF DataInv
<1> QED
      BY <1>1, DataHolds, PTL

(* A trial that ends well has read the corpus its controller asked for,    *)
(* and whole, for any number of workers, prepares, corpora, failures and   *)
(* kills, but for the overlaps and overwrites that OkReadItsCorpus names.  *)
THEOREM OkReadRight == DataSpec => []OkReadItsCorpus
<1>1. DataInv => OkReadItsCorpus
  <2> SUFFICES ASSUME DataInv, NEW w \in Workers, at[w] = "ok"
               PROVE  seen[w] \subseteq {args} \/ overlapped \/ (script = "trace" /\ remade)
      BY DEF OkReadItsCorpus
  <2>1. Sound => seen[w] \subseteq {args}
        BY DEF DataInv, Clean, ReadWell, InTrial
  <2> QED
        BY <2>1 DEF Sound, Kept
<1> QED
      BY <1>1, DataHolds, PTL

(* As long as prepares run one at a time no trial fails for want of data,  *)
(* but after a stop in ijepa-cifar10 or an overwrite in trace-jepa.        *)
THEOREM DataAlwaysThere == DataSpec => []DataIsThere
<1>1. DataInv => DataIsThere
  <2> SUFFICES ASSUME DataInv, NEW w \in Workers, at[w] = "failed"
               PROVE  overlapped \/ (IF script = "trace" THEN remade ELSE stopped)
      BY DEF DataIsThere
  <2>1. ~(Calm /\ Kept)
        BY DEF DataInv, Clean, ReadWell
  <2>2. script \in {"ijepa", "trace"}
        BY FilesAre DEF DataInv
  <2> QED
        BY <2>1, <2>2 DEF Calm, Kept
<1> QED
      BY <1>1, DataHolds, PTL

=============================================================================
