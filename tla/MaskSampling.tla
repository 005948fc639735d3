----------------------------- MODULE MaskSampling ------------------------------
(***************************************************************************)
(* The masks of a trace-jepa training step: CompositeMask picks one of its *)
(* samplers, MultiBlockInfillMask ("infill") or FutureBlockMask ("future") *)
(* of masking/, which draws a context and targets over a grid of events,   *)
(* and the step (examples/trace-jepa/train.py) applies them to a batch of  *)
(* sessions that may be shorter than the grid.                             *)
(*                                                                         *)
(* A fraction is in percent.  A draw from an interval of fractions is a    *)
(* choice of any whole number between what its two ends round to.          *)
(***************************************************************************)
EXTENDS Integers, FiniteSets

CONSTANTS Grids,             \* sizes <<rows, columns>>: time and channel
          Samplers,          \* of the composite, with a positive weight
          NTargets,          \* n_targets
          TargetScale, TargetAspect, ContextScale, MaxAttempts,  \* infill
          ContextFraction, TimeScale, ChannelScale, Gap,         \* future
          Sessions,          \* the batch
          MinEvents          \* of the shortest session

IsInterval(i) == i \in (Nat \ {0}) \X (Nat \ {0}) /\ i[1] <= i[2]

(* __post_init__ of the samplers and of CompositeMask. *)
ASSUME MaskAssumption ==
    /\ Grids \subseteq (Nat \ {0}) \X (Nat \ {0})
    /\ Samplers \subseteq {"infill", "future"} /\ Samplers # {}
    /\ NTargets \in Nat \ {0} /\ MaxAttempts \in Nat \ {0} /\ Gap \in Nat
    /\ MinEvents \in Nat \ {0}
    /\ IsInterval(TargetScale) /\ IsInterval(TargetAspect) /\ IsInterval(ContextScale)
    /\ IsInterval(ContextFraction) /\ IsInterval(TimeScale) /\ IsInterval(ChannelScale)

VARIABLES stage,
          rows, columns,     \* grid_h and grid_w
          sampler,
          contextEnd,        \* of the future sampler
          context, targets,  \* MaskOutput: positions <<row, column>>
          drawn, attempts,   \* blocks drawn, and tries for a context
          length,            \* the events of each session
          attended,          \* the keys of the student's attention
          scored             \* the positions the loss compares

grid == <<rows, columns, sampler>>
mask == <<contextEnd, context, targets, drawn, attempts>>
step == <<length, attended, scored>>
vars == <<stage, grid, mask, step>>

Smaller(a, b) == IF a <= b THEN a ELSE b
Larger(a, b) == IF a >= b THEN a ELSE b
Clamp(x, low, high) == Larger(low, Smaller(x, high))

(* round(n / 100): a half goes to the even neighbour. *)
Round(n) ==
    LET down == n \div 100
        rest == n % 100
    IN  IF rest > 50 \/ (rest = 50 /\ down % 2 = 1) THEN down + 1 ELSE down

Rounded(scale, n) == Round(scale[1] * n)..Round(scale[2] * n)

(* min(cap, max(1, round(sqrt(n) / d))) = r, an exact half going either way. *)
RoundsTo(r, n, d, cap) ==
    /\ r = 1 \/ (2 * r - 1) * (2 * r - 1) * d * d <= 4 * n
    /\ r = cap \/ 4 * n <= (2 * r + 1) * (2 * r + 1) * d * d

(* The sizes <<h, w>> of _sample_block: its area is a share s of the grid *)
(* and its aspect a.                                                      *)
Sizes(scale, aspect) ==
    {size \in (1..rows) \X (1..columns) :
        \E s \in scale[1]..scale[2], a \in aspect[1]..aspect[2] :
            LET n == s * rows * columns * a
            IN  RoundsTo(size[1], n, 100, rows) /\ RoundsTo(size[2], n, a, columns)}

Positions == (0..rows - 1) \X (0..columns - 1)
Block(top, left, size) == (top..top + size[1] - 1) \X (left..left + size[2] - 1)

(* The blocks of a size that lie inside the grid, at a row from first on. *)
Placed(size, first) ==
    {Block(top, left, size) : top \in first..rows - size[1], left \in 0..columns - size[2]}

Blocks(sizes, first) == UNION {Placed(size, first) : size \in sizes}

InfillBlocks(scale, aspect) == Blocks(Sizes(scale, aspect), 0)
Covered == UNION targets

Init ==
    /\ stage = "pick" /\ sampler \in Samplers
    /\ \E size \in Grids : rows = size[1] /\ columns = size[2]
    /\ contextEnd = 0 /\ context = {} /\ targets = {} /\ drawn = 0 /\ attempts = 0
    /\ length = [s \in Sessions |-> 0]
    /\ attended = [s \in Sessions |-> {}] /\ scored = [s \in Sessions |-> {}]

(* CompositeMask.sample delegates to one of its samplers. *)
Pick ==
    /\ stage = "pick" /\ stage' = "split"
    /\ sampler' \in Samplers
    /\ UNCHANGED <<rows, columns, mask, step>>

TooShort == rows < 2 \/ rows - (Gap + 1) < 1

(* FutureBlockMask.sample refuses a grid without room for both sides. *)
RaiseTooShort ==
    /\ stage = "split" /\ sampler = "future" /\ TooShort
    /\ stage' = "raised"
    /\ UNCHANGED <<grid, mask, step>>

(* The context of FutureBlockMask: every row before contextEnd. *)
Split ==
    /\ stage = "split" /\ sampler = "future" /\ ~TooShort
    /\ \E x \in Rounded(ContextFraction, rows) :
          contextEnd' = Clamp(x, 1, rows - (Gap + 1))
    /\ context' = {p \in Positions : p[1] < contextEnd'}
    /\ stage' = "targets"
    /\ UNCHANGED <<grid, targets, drawn, attempts, step>>

FutureStart == contextEnd + Gap

(* _sample_future_block: its sizes, within what the split leaves. *)
FutureSizes ==
    LET left == rows - FutureStart
    IN  {<<Clamp(h, 1, left), Clamp(w, 1, columns)>> :
            h \in Rounded(TimeScale, left), w \in Rounded(ChannelScale, columns)}

FutureTarget ==
    /\ stage = "targets" /\ drawn < NTargets
    /\ \E block \in Blocks(FutureSizes, FutureStart) : targets' = targets \cup {block}
    /\ drawn' = drawn + 1
    /\ stage' = IF drawn' = NTargets THEN "sampled" ELSE stage
    /\ UNCHANGED <<grid, contextEnd, context, attempts, step>>

(* MultiBlockInfillMask.sample: the targets, by _sample_block. *)
InfillTarget ==
    /\ stage = "split" /\ sampler = "infill" /\ drawn < NTargets
    /\ \E block \in InfillBlocks(TargetScale, TargetAspect) : targets' = targets \cup {block}
    /\ drawn' = drawn + 1
    /\ stage' = IF drawn' = NTargets THEN "context" ELSE stage
    /\ UNCHANGED <<grid, contextEnd, context, attempts, step>>

(* Mutant of InfillContext: what the targets cover is tested and not removed. *)
ContextUncut ==
    /\ stage = "context" /\ attempts < MaxAttempts
    /\ \E block \in InfillBlocks(ContextScale, <<100, 100>>) :
          /\ context' = block
          /\ IF block \subseteq Covered
             THEN attempts' = attempts + 1 /\ UNCHANGED stage
             ELSE stage' = "sampled" /\ UNCHANGED attempts
    /\ UNCHANGED <<grid, contextEnd, targets, drawn, step>>

(* _sample_context: a block without the targets, if anything is left of it. *)
InfillContext ==
    /\ stage = "context" /\ attempts < MaxAttempts
    /\ \E block \in InfillBlocks(ContextScale, <<100, 100>>) :
          /\ context' = block \ Covered
          /\ IF context' = {}
             THEN attempts' = attempts + 1 /\ UNCHANGED stage
             ELSE stage' = "sampled" /\ UNCHANGED attempts
    /\ UNCHANGED <<grid, contextEnd, targets, drawn, step>>

(* After max_attempts: everything but the targets, or a RuntimeError. *)
InfillFallback ==
    /\ stage = "context" /\ attempts = MaxAttempts
    /\ context' = Positions \ Covered
    /\ stage' = IF context' = {} THEN "raised" ELSE "sampled"
    /\ UNCHANGED <<grid, contextEnd, targets, drawn, attempts, step>>

Valid(events) == {p \in Positions : p[1] < events}

(* Mutants of Guarded: no guard, and one that always keeps position 0. *)
Unguarded(keep) == keep
GuardedAlways(keep) == keep \cup {<<0, 0>>}

(* TraceEncoder.forward: with no key to attend to, position 0 is kept. *)
Guarded(keep) == IF keep = {} THEN {<<0, 0>>} ELSE keep

(* What the student's output at a position is made of: the residual stream *)
(* carries the position's own event, whatever the mask, and each layer     *)
(* mixes in the keys.                                                      *)
Read(s, p) == {p} \cup attended[s]

(* _train_step: the context and the targets are cut to each session's      *)
(* events; a target none of whose positions is an event of the batch is    *)
(* skipped, and without any target left every position is scored.          *)
Train ==
    /\ stage = "sampled" /\ columns = 1 /\ MinEvents <= rows
    /\ length' \in [Sessions -> MinEvents..rows]
    /\ attended' = [s \in Sessions |-> Guarded(context \cap Valid(length'[s]))]
    /\ scored' = IF \E s \in Sessions : Covered \cap Valid(length'[s]) # {}
                 THEN [s \in Sessions |-> Covered \cap Valid(length'[s])]
                 ELSE [s \in Sessions |-> Positions]
    /\ stage' = "trained"
    /\ UNCHANGED <<grid, mask>>

(* The next training step draws its masks anew. *)
NextStep ==
    /\ stage = "trained" /\ stage' = "pick"
    /\ contextEnd' = 0 /\ context' = {} /\ targets' = {} /\ drawn' = 0 /\ attempts' = 0
    /\ length' = [s \in Sessions |-> 0]
    /\ attended' = [s \in Sessions |-> {}] /\ scored' = [s \in Sessions |-> {}]
    /\ UNCHANGED grid

Next ==
    \/ Pick \/ RaiseTooShort \/ Split \/ FutureTarget
    \/ InfillTarget \/ InfillContext \/ InfillFallback \/ Train \/ NextStep

Spec == Init /\ [][Next]_vars

-----------------------------------------------------------------------------
(* The grid is one of the grids, and masks and positions lie on it. *)
TypeOK ==
    /\ stage \in {"pick", "split", "targets", "context", "sampled", "trained", "raised"}
    /\ <<rows, columns>> \in Grids /\ sampler \in Samplers
    /\ contextEnd \in 0..rows /\ drawn \in 0..NTargets /\ attempts \in 0..MaxAttempts
    /\ context \subseteq Positions /\ targets \subseteq SUBSET Positions
    /\ length \in [Sessions -> 0..rows]
    /\ attended \in [Sessions -> SUBSET Positions] /\ scored \in [Sessions -> SUBSET Positions]

Sampled == stage \in {"sampled", "trained"}

(* A mask that is returned has a context and no empty target, and they do  *)
(* not meet, whatever the sampler, the grid and the tries it took.         *)
ContextIsApart ==
    Sampled => context # {} /\ {} \notin targets /\ targets # {} /\ context \cap Covered = {}

(* FutureBlockMask: each target is later than each context position, by    *)
(* more than min_horizon_gap rows (its docstring's future-only invariant). *)
FutureOnly ==
    Sampled /\ sampler = "future" => \A c \in context, t \in Covered : t[1] > c[1] + Gap

(* What either sampler returns: the two conditions above. *)
MasksApart == ContextIsApart /\ FutureOnly

(* The student always has a key to attend to, and it is an event of the    *)
(* session: neither a short session nor the masks leave it with padding.   *)
AttendsEvents ==
    stage = "trained" =>
        \A s \in Sessions : attended[s] # {} /\ attended[s] \subseteq Valid(length[s])

(* _train_step, "only kept events visible to student": what the student    *)
(* makes of an event of the context holds no event the loss asks for, or   *)
(* no target has an event and everything is scored.  It is so for events   *)
(* of the context only: at a target position the student's output holds    *)
(* the target's own event, and the predictor reads every position.         *)
KeptReadNoTarget ==
    stage = "trained" =>
        \A s \in Sessions : \A p \in context \cap Valid(length[s]) :
            \/ Read(s, p) \cap scored[s] = {}
            \/ \A r \in Sessions : scored[r] = Positions /\ Covered \cap Valid(length[r]) = {}

=============================================================================
