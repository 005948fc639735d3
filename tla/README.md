# TLA+ models of the AutoJEPA controller

AutoJEPA runs a search over training experiments ("trials"): a policy proposes
parameters or a source diff, an executor runs a trial on a target, the engine
judges the outcome against the best so far, records it in a ledger and goes on
until a stop rule fires. This directory models the controller, its policies,
the cloud target and the training scripts shipped with it, model-checks them
with TLC and proves their main invariants with TLAPS. Source paths below are
under `src/src/autojepa/`, the scripts' under `src/examples/`; ADRs are under
`src/docs/adr/`.

## 1. Inventory

| Component | State it keeps | Operations | Interacts with | What is hard |
|---|---|---|---|---|
| Parallel engine, `controller/parallel_engine.py` | `in_flight`, `completed`, `iter_idx`, `next_to_process`, `iterations_done`, best, streak, status window, pending rewards | submit, drain, commit, flush rewards, record, finally/checkpoint | worker threads (futures), ResourcePool, policy, guard, ledger and checkpoint files | trials end out of order; a signal, a time limit or an exception anywhere; a kill and a resume |
| Serial engine, `controller/engine.py` | the same without the overlap | one iteration: propose, execute, judge, reward, record, notify | policy, executor, guard, files | an exception between any two effects; a kill and a resume |
| Resource pool, `controller/resource_pool.py` | `in_use`, `reservations` | `try_acquire`, `release`, `wait_for_capacity` | engine thread; any client thread | all-or-nothing on several resources; lost wakeups; timeouts |
| Diff executor, `controller/diff_executor.py` (started by `controller/continuous.py` and `cli.py`) | the mutable file, its restore marker, signal handlers | execute, restore, recover, persist | signals, the target's command, the next process | kills and signals between any two writes; failing writes |
| Cancellation, `controller/intra_iteration.py`, `target/progress*.py` | guard's series and flag, reader's offset and buffer, `progress.jsonl`, `control.json` | report, read, evaluate, write control, obey, classify | guard thread, reader thread, trial process, engine thread, forecaster | four actors over two files; a decision made on old reports; files left by a killed run |
| Ledger and checkpoint, `telemetry/ledger.py`, `checkpoint.py` | two files | append a row; save atomically; load | both engines | a checkpoint older or newer than the ledger |
| Stop rules, `controller/helpers.py`, `controller/shutdown.py` | none; the shutdown flag | `check_no_improve`, `check_failure_rate` | engines, signals | evaluated at several moments, not latched |
| Command target, `target/command.py` | the child process | run, eval | trial | exit codes and timeouts |
| Basilica target, `target/basilica.py` | a cloud deployment, pushed controls, cached outcomes | deploy, wait, poll, propagate a cancel, collect, clean up | HTTP to the container | every exit path must delete the deployment; races of three completion signals |
| Hybrid and LLM policies, `policy/hybrid.py`, `llm_search.py`, `llm_diff.py` | conversation, last kept diff seen, mode and failure counter | `propose`, `propose_batch`, `record_reward`; model fallback, retries, corrections | engines, history, a chat API | a conversation about a source that has changed; a mode that locks out; state lost at a restart the history survives |
| Learned policies, `policy/learned_search.py` | pending transition, buffer, snapshots on disk | draw, pair with a reward, update, save, load | engines, snapshot directory | feedback that arrives later than the next proposal; a snapshot cut short |
| Trial scripts, `ijepa-cifar10/train.py`, `trace-jepa/train.py` | step, best probe, `outcome.json` and its temporary file, log | canary gate, train, probe, `_write_outcome`, SIGTERM handler, `_entrypoint` | `target/progress.py`, Basilica polls | a signal inside a write; exits that write no outcome; a poll of a running trial |
| Trial data, `*/prepare.py` through `target/command.py` | five files | skip or generate, write them in order | worker threads, trials | prepares that overlap or are stopped half way |
| Masking, `masking/`, used by `trace-jepa/train.py` | a mask, a batch | sample blocks, context, fallback; cut to each session | the training step | short grids and sessions; a context covered by its targets |
| Telemetry, `telemetry/`, `tracking.py` | append-only files | emit, rotate, span | everything | rotation, resumed timelines |
| Promotion and gates, `promotion.py`, `gates.py` | counters | record, evaluate | the engines record, nobody evaluates | none while unused |
| Configuration, `config*.py`; sandbox, `sandbox/`, `controller/contract.py` | none | pure checks | start-up, diff executor | none of it concurrent |
| JEPA library, `models/`, `eval/`, `forecasting.py` | tensors, numbers | pure functions | inside the trial | numerical |

For each modelled component, correctness means:

* **Engines.** However trials overlap, stop and resume, the ledger and the
  checkpoint read as if they had run one after the other; nothing submitted is
  dropped by a stop rule; limits, resources and the order of rewards are kept.
* **Pool.** Never more handed out than there is; no sleeping client misses the
  release it waits for.
* **Diff executor.** Whenever the next proposal reads the source, the file
  holds the kept diffs and nothing else; what is kept was measured.
* **Basilica target.** It answers, whatever the cloud does, leaves no
  deployment behind, and reports the outcome the trial wrote; a cancel it has
  pushed is where the trial looks for it.
* **Cancellation.** A trial that obeyed a cancel is recorded as cancelled, no
  other is; no report is lost between the threads; a cancel arrives.
* **Policies.** A chat is about the current source and bounded; the counter
  that closes the diff mode counts failed diffs in a row; a reward goes to the
  proposal that earned it; every request for a proposal ends in one.
* **Trial scripts.** An outcome that is seen is whole; an exit leaves one; an
  `ok` result comes from a trial that passed its canary and trained to the end,
  with its best probe.
* **Trial data.** As long as prepares do not overlap, or stop over an older
  corpus, a successful trial has read the corpus it was asked for; a trial lacks
  its data only when a prepare went wrong.
* **Masking.** Context and targets never meet and none is empty; the student
  attends to an event of each session, and what it makes of the context holds no
  event it is scored on.

`PROJECT.json` lists every hazard at its line with the properties that cover it.

## 2. Modules

| Module | Models | State and actions |
|---|---|---|
| `TrialRules` | the bookkeeping both engines repeat | operators only: status, decision, best, streak, window, stop rules |
| `SearchLedger` | abstract specification: what both engines promise | `rows`, `best`, `done`, `saved`; `Commit`, `Save`, `Resume` |
| `ResourcePool` | `ResourcePool` | one operator per locked section; dictionaries become functions over `Keys` |
| `PoolClients` | threads that use `try_acquire`, `wait_for_capacity` and `release` | composes `ResourcePool` with a phase per thread |
| `ParallelEngine` | `run_experiment_parallel` and its workers | `pc` is the phase of the loop body, `worker[i]` the state of the future; composes `TrialRules` and `ResourcePool`, refines `SearchLedger` |
| `SerialEngine` | `run_experiment` | `pc` is the next call of the body; composes `TrialRules`, refines `SearchLedger` |
| `CancelProtocol` | guard, reader, trial and engine | one variable or two per actor, and the two files; a report's line and the control file are written in two steps |
| `DiffExecutor` | `DiffExecutor.execute`, the marker, the handler, recovery, `_persist_diff`, in the loop and in `run-one --diff` | `pc` is the main thread's next step, `handlers` the stack of signal handlers running on top of it; a write is a truncation and a fill, and either may raise; `stuck` records that the marker's own I/O has failed |
| `BasilicaTarget` | `TargetExecutor` over `BasilicaTarget`: one trial, its train and its eval deployment | `pc` is the controller's next call; `cloud` and the container's files belong to the platform and the trial; `cancel` to the guard |
| `TrialScript` | `main` of the two training scripts, `_write_outcome`, `_on_sigterm`, `_entrypoint`, and the polls of `BasilicaTarget` that read the result | `pc` is the script's next step; `tmp` and `outcome` are the two files; `interrupted` are the steps a handler, or a handler in a handler, broke in on |
| `TrialData` | `prepare.py` of both examples, `CommandTarget._ensure_prepared`, and the trials that read the data | `proc[p]` is a running prepare, `at[w]` a worker thread, `file` the directory |
| `ChatClient` | one call of `_call_chat_api_messages` | `model`, `attempt`, `answer`; operators for each kind of response |
| `LearnedPolicy` | `LearnedParamPolicy`, its snapshots | `pending` transition, buffer and update counters, `disk` |
| `PolicyLoop` | `HybridPolicy`, the `llm` and `llm_diff` policies and the history both engines give them | composes `ChatClient` and `LearnedPolicy`; `at` is where the loop is |
| `MaskSampling` | `MultiBlockInfillMask`, `FutureBlockMask`, `CompositeMask`, and `_train_step` of trace-jepa | `stage` is the sampler's next step; `context` and `targets` are sets of positions; `Read` is what an output of the student is made of |
| `MC*` | TLC instances | values for the constants, nothing else |
| `ServiceProofs` | theorems about `PoolClients`, `SearchLedger` and `CancelProtocol` | one section for each |
| `ExampleProofs` | theorems about `MaskSampling` and `TrialData` | one section for each |
| `ParallelProofs`, `SerialProofs`, `DiffProofs`, `BasilicaProofs`, `TrialProofs`, `PolicyProofs` | theorems about the module of that name | |

Abstractions. A score is the objective with its direction folded in, a small
natural number; `Infinity` stands for inf, nan and the initial best, which the
ledger shows as 0.0. A trial's outcome is chosen from `Outcomes`, so a failed
trial may have metrics and a successful one may lack the objective, as in the
code. A source is the set of diffs applied to it, or `Torn`. A progress report
is the one bit the guard's rule tells apart: whether it is at or beyond the
best. The forecaster may answer either way. Of a report the reader meets
half-written it drops both parts, as the code does with lines it cannot parse.
The weights of the learned policy are known by the save that wrote them, a chat
pair by its iteration, a data file by the corpus it was made from: the arguments
`prepare.py` compares before it skips (the same arguments give the same bytes;
`shard_size`, which it does not compare, is held fixed). A torn archive of
trace-jepa may look like a shorter one; a tensor file of ijepa loads although it
is not whole only after two prepares have written it at once. A fraction of a
mask is in percent, and a draw from an interval is any whole number between what
its two ends round to. The sleeps between two chat requests are left out.
Telemetry other than the ledger and the checkpoint has no effect on later steps
and is left out, except that writing it may raise.

An atomic step is a stretch of code between two points where another actor's
effect can be seen: the parallel loop reads the workers' futures and the flag
once per phase; the pool's methods hold its lock; the main thread of the diff
executor can be interrupted by its own signal handler, and that handler by
another, between any two writes, which is why the writes are split.

## 3. Runs

| Run | What is checked | Shows |
|---|---|---|
| `pool_clients` | `NeverOversubscribed`, `NoLostWakeup`, `SleepersWake` | three threads, two resources, every cost profile (narrow, wide, never fitting), one thread with a timeout |
| `parallel` | `NoLeakedReservation`, `StopsCleanly`, `LedgerSpec`, `Terminates` | three iterations, two at a time, trials that may not be payable, signals, a kill at any step and one resume, nothing raises |
| `parallel_faults` | `EveryTrialAccountedFor`, `RunningWithinCapacity`, `LimitsRespected`, `RewardsInOrder` | the same with an exception possible in every phase, a wall-clock limit, and trials that cost nothing, everything or too much |
| `serial` | `NoneSkipped`, `BestIsAccountedFor`, `LedgerSpec` | three iterations, an exception possible at every call, wall clock, signals, forecaster stops, a kill and a resume; the ledger is implemented until a call raises |
| `cancel` | `NoReportLost`, `ObeyedInFreshDirectory`, `CancelArrives` | four reports, two enough to decide, lines read half-written, a control file that cannot be opened or is left torn, a join of the guard that may time out, one rerun |
| `diff` | `TypeOK`, `SourceSurvives`, `NoStaleMarker`, `KeptAsMeasuredUnsignalled`, `ShutdownStops` | two diffs, two restarts; kills outside the uncovered writes or anywhere, errors of the I/O of the file, of its marker or of both, signals that may nest, and any two of these three, in the loop and in run-one |
| `basilica` | `NothingLeftBehind`, `OutcomeHonouredInPlainLogs`, `PushedCancelStays`, `Returns` | two failing calls, one that was carried out but whose answer is lost included, or one and a restarted container; a container that never starts or dies at any step; an outcome that the script's SIGTERM handler overwrites; a result that has left the last 500 lines of the log; with and without an eval command |
| `trial` | `OutcomeIsWhole`, `ExitsLeaveOutcome`, `OkIsEarned` | both scripts, an exception, a SIGTERM (in the handler too), a kill or an `OSError` (of the rename too) at every step, three of them in one behaviour, with the controller polling |
| `prepare` | `DataTypeOK`, `OkReadItsCorpus`, `DataIsThere` | two workers, two prepares alive at once, two corpora, two failures or kills; an orphan of a killed controller may meet its successor |
| `policies` | `TypeOK`, `ConversationFresh`, `FailuresInARow`, `RewardsCredited`, `ProposalsCome` | the four policies in the loop of either engine, every answer of the API, every result, two restarts |
| `masks` | `MasksApart`, `AttendsEvents`, `KeptReadNoTarget` | every mask of both samplers on three grids, applied to every batch of two sessions |
| `parallel_resume_skips` | `NoneSkipped` violated | finding 1 |

**Bounds.** Three iterations with two in flight are the least in which a trial
finishes before an older one, a third is submitted while a completed one waits
in the buffer, and a resume starts in the middle. Limits of two for the streak
and the failure window are reached and reset within them. Two gpus against costs
of one, two, none and three give full, exclusive, free and unpayable trials. One
restart (two for the source) is enough for a checkpoint to be written by a
process that itself resumed. Four reports with a threshold of two leave reports
before, during and after the guard's decision. Two diffs: one kept, one in
flight at a kill; the next process looks at the source before it finds that none
is left to propose. Two signals are enough for a handler in a handler. For the
Basilica target one sleep may go by before the container is ready and two in
all, so that there are polls with and without a slow start and the last chance
after them; two failures reach a retry that fails again, and a failed delete
after a failed poll. There a sleep is one unit whatever its length: the polls'
intervals adapt, and nothing depends on them. Four training steps with a probe
every second one give two probes, a step between them and one after the first;
three faults reach an error inside the handler of a signal that interrupted
another's. Two prepares with two failures reach a third that meets what the two
left. Four iterations with conversations of two pairs, two diff failures to the
lock-out and two restarts reach a trimmed conversation, a diff kept and asked
for anew, and a snapshot loaded by a process that writes the next. Grids of
eight events, of two and of two channels hold both samplers' boundary cases: no
room for a split with a gap, a grid covered by two targets, and more than one
channel.

**Deadlock** is checked in `prepare`, where workers go on for ever. Elsewhere
every model of a process ends. That it does not end too early is `StopsCleanly`,
`Terminates`, `CancelArrives`, `ShutdownStops`, `Returns` and `ProposalsCome`.

**Fairness.** `WF` of the engine's loop, of each worker and of the main thread
and handler: they are running threads, and a trial ends because its target has
a timeout (`target/command.py`, `timeout=self.timeout_s`). In `CancelProtocol`
the trial is fair only in reporting, not in finishing by itself, so that
`CancelArrives` rests on the cancel. In `PoolClients` only `release` is fair: a
holder's trial ends. In `BasilicaTarget` only the controller is fair: its HTTP
calls have timeouts, and it returns though container and cloud do nothing. In
`PolicyLoop` the thread that proposes is fair: each chat request has a timeout.
Signals, the wall clock, kills, exceptions and restarts
are never fair.

**Mutants.** Each property of a passing run has a mutant in the model: a
variant of one operator as a plausible bug would have it, such as `notify` for
`notify_all`, a reservation read and not popped, a checkpoint one ahead, a
guard that is not joined. The comments `Mutant of ...` mark them; no
specification uses them.

## 4. Findings

The first has a run whose counterexample shows it; the others were met while
modelling, and the models contain the behaviour.

1. `parallel_engine.py:527` saves `iter_idx - 1`: after an exception the
   checkpoint counts the trials that were in flight and dropped, and the next
   process skips them. The serial engine (`engine.py:569-570`, `620`) counts
   only what it recorded, and the module docstring promises the same contract.
2. `engine.py:358` reuses the run directory of a killed run: its `control.json`
   cancels the rerun at its first report. The new guard has not cancelled
   anything, so exit code 42 becomes "failed" (`target/command.py:110`).
3. `engine.py:403` and `parallel_engine.py` `_execute_one` override the outcome
   when the guard's flag is up. The guard decided on reports drained earlier;
   one that beats the best may have come since, or the trial may be over
   (`intra_iteration.py:180` does not look at `_stop` after its sleep). ADR-026
   wants such a trial to continue, always.
4. `diff_executor.py:255`: the handler restores the source during the trial and
   returns; the main thread runs the commands on the original source, and the
   outcome counts for the diff.
5. `basilica.py:661` remembers which control file it has pushed per `run_dir`,
   not per container. A trial that obeys a cancel ends its command, the platform
   restarts the container (ADR-015 reports that it does), and the trial runs
   again without the cancel, which is not pushed again. The eval deployment of
   the same `run_dir` does not get it either.
6. `command.py:29`: the workers of the parallel engine test `_prepared` without
   a lock, so the first `max_concurrency` trials each run `prepare_cmd` over the
   same directory, and a trial may read a file another prepare has truncated
   (`overlapped` in `TrialData`). `src/README.md:58` says that it runs once.
7. `ijepa-cifar10/prepare.py:47` takes the data for complete when the first two
   of its files exist. After a prepare that was stopped later on, every trial
   fails on what is missing and no later prepare makes it (`stopped`).
8. `trace-jepa/train.py:1006` writes the status "completed", which
   `basilica.py` counts as a failure; ADR-015 has "ok" and "failed" only.
9. `trace-jepa/train.py:998` prints ` loss=` after its first probe, a metric the
   target looks for in the log: the next poll takes the running trial for
   finished and deletes its container.
10. `ijepa-cifar10/train.py:77`: a SIGTERM between the write and the close of
    the temporary file lets the handler rename it; the interrupted write is then
    flushed into `outcome.json` (`"closing" \in interrupted`, the exception in
    `OutcomeIsWhole`).
11. `target/progress.py:88` leaves a cancelled trial without an outcome, and in
    a container the controller waits for its timeout (the exception in
    `ExitsLeaveOutcome`).
12. `ijepa-cifar10/train.py:208` and `trace-jepa/train.py:829`: a canary loss of
    nan is not greater than the threshold and passes the gate whose comment says
    that it catches nan.
13. `ijepa-cifar10/train.py:340` prints `probe_auroc` for the target to parse;
    it is not among the metrics the target knows (`basilica.py:812-815`).
14. `masking/primitives.py:273`: `FutureBlockMask` never uses its
    `max_attempts`; a target may repeat or overlap another.
15. `trace-jepa/train.py:356` gives the mask to the encoder as a key padding
    mask. That takes positions out of the keys; every event is embedded all the
    same and reaches its own output through the residual, and the predictor reads
    all positions without a mask (373-376, 504) and is scored at the targets
    (517). So the student sees each event it is scored on, at the position where
    it is scored, against the comment at 502, "only kept events visible to
    student". `KeptReadNoTarget` is what does hold: the outputs at the positions
    of the context hold no target. A session none of whose events is in the
    context gets position 0 as its one key (352), a target or not.
16. `continuous.py:128` puts no `_type` into the params of an `llm_diff` trial,
    so the policy never finds a kept diff and never resets its conversation;
    `ConversationFresh` holds for `hybrid` only.
17. `config_validate.py:157` creates a directory; the module calls itself pure.
18. `diff_executor.py:223`: when writing the restore marker raises `OSError`,
    what was written of it stays, the function returns `None`, and nobody removes
    it (227); an `OSError` of the unlink (231) or of the recovery (302) leaves a
    marker too. A later start writes it over the source, whatever has been kept
    since (`stuck`, the exception in `NoStaleMarker`). A marker cut within a
    character is no UTF-8, which is no `OSError`: every later start raises.
19. `diff_executor.py:272`: `signal.signal` installs the handler before the
    previous one is assigned. A signal in between finds nothing to chain to and
    is lost: no shutdown follows (`Known`; `ShutdownStops` starts from the flag).

Also known: `basilica.py:752` raises on a log line that is JSON but no object, a
number alone on a line for one, and turns a finished trial into a failed one
(`OutcomeHonoured` holds in settings without such lines only); `basilica.py:365`
may raise after the deployment was created, which nobody can delete then
(`excused`); log metrics end the polling although the trial still runs, if it
prints a known key early; and `cli.py:174` starts a diff trial without the
recovery ADR-024 asks for. `Recoverable` in `DiffExecutor` names what the marker
and the handler do not cover, and `SourceSurvives` leaves out: a write that
fails at line 371 leaves a truncated file and no marker; a marker whose own I/O
fails is replayed, torn or old, over the source (finding 18); a signal followed
by a kill leaves a modified source without a marker; a kill within the
truncating write of the marker (`diff_executor.py:219`) leaves a torn marker
that recovery copies over an intact source, and one while a kept diff is being
persisted tears the file (`Tearing`). Of a cancel: a report the reader meets
half-written never reaches the guard (`cut`); a control file that cannot be
written, or is left torn, cancels nothing although the trial counts as
cancelled; and a guard that outlives its join may put its flag up after the
outcome was classified (`late`). Prepares of ijepa that overlap may leave a
tensor file which loads and is no corpus, and a prepare of trace-jepa that is
stopped over an older corpus leaves that one's manifest, under which a later
prepare skips (`remade`; `OkReadItsCorpus` excuses both).

## 5. Proofs

TLAPS checks the following for every value of the constants that satisfies the
modules' named assumptions.

* `ServiceProofs`, the pool: `PoolTyped`, `PoolBounded` (`NeverOversubscribed`)
  and `WakeupsNotLost` (`NoLostWakeup`), for any resources and number of threads.
  The argument for the last is `AcquireFreesNothing`: only `release` can make a
  refused cost fit, and it leaves nobody asleep.
* `ServiceProofs`, the abstract ledger: `BestAlwaysEarned` and
  `NothingSkipped`. Rows are only appended, so a witness row stays one.
* `ServiceProofs`, the cancel protocol: `CancelTyped`, `ReportsArrive`
  (`NoReportLost`) and `ObeyedCounts` (`ObeyedInFreshDirectory`). Buffer and
  series are sets of reports, split by the offset, with those lost to a read in
  the middle of a line in `cut`. The last rests on `CancelKnown`: a cancel in
  the control file or obeyed by the trial is one whose flag the guard is about
  to put up or has put up, and on the guard's end before the engine classifies,
  if the join has not timed out.
* `ParallelProofs`: `TypeCorrect`, `TrialsAccountedFor`, `NoReservationLeaks`,
  `LimitsHold`, `RewardsOrdered`, with any set of faults, and
  `SearchIsSequential`: without faults the engine implements `SearchLedger`.
  The inductive invariant `IndInv` adds to the type invariant how far the three
  counters may be apart in each phase (`CountersAligned`), that `in_flight` and
  `completed` are the window between them, that the reservations are those of
  `in_flight` with room for the rest of the batch (`SlotsAccountedFor`), that a
  done future has an outcome, and that at most the reward of the trial being
  recorded waits (`RewardsAligned`). No single property is inductive: that
  `iter_idx` stays within `max_iterations` needs the number of trials under way
  to be the width of the window, which needs the window. The refinement also
  needs `LeavesNothingBehind`: once the loop is left, nothing is in flight, so
  the checkpoint's count is that of the committed rows; this is what an
  exception breaks (finding 1).
* `ParallelProofs`, admission: `AdmissionHolds` (`RunningWithinCapacity`). Two
  sums have to meet. What the pool has in use changes by one reservation at a
  time, so the invariant `InUseAddsUp` carries a list of the holders with its
  partial sums, to which an acquisition adds an entry and from which a release
  takes one out of the middle. What the property folds over the running trials
  is a recursion over subsets; that the recursion has a solution
  (`AddsExists`), is indifferent to the order (`AnyOrder`) and stays below the
  partial sums of any list of its members (`SumFitsList`) is proved by least
  counterexample: a set of naturals that is not empty has a least element, which
  the library states without an operator parameter.
* `ParallelProofs`, the end: `SearchStopsCleanly` (`StopsCleanly`), when nothing
  raises (`Faults = {}`; with faults the code does not promise it). The loop is
  left only through `IdleForAReason`: nothing in flight, and a stop condition or
  a trial that no empty pool can place. With nothing reserved nothing is in use
  (`EmptyPool`), so what then does not fit never will.
* `SerialProofs`: `SerialTyped`, `SerialSkipsNone` (`NoneSkipped`) and
  `SerialBestAccounted` (`BestIsAccountedFor`), whatever call raises, and
  `SerialIsSequential`: until a call raises the engine implements
  `SearchLedger`. The inductive invariant adds how many iterations are left in
  each phase (`IterationsLeft`) and how the best score follows from what the
  trial under way had to beat (`JudgedAgainstBest`); without the second the step
  that records a row need not be a `Commit` of the ledger.
* `BasilicaProofs`: `TypeCorrect`, `DeploymentsDeleted` (`NothingLeftBehind`),
  `CancelStays` (`PushedCancelStays`) and `OutcomeReported`
  (`OutcomeHonouredInPlainLogs`), for any timeouts, failures and restarts. The
  last follows through the steps the outcomes the result may be
  (`OutcomeTracked`; more than one when the script's SIGTERM handler has
  overwritten the first): in the container until one is fetched, then fetched,
  then the result, and none on the paths that read the logs instead. The type
  invariant says what `seen` may be when the outcome is closed: it would not be
  inductive without.
* `TrialProofs`: `TrialTyped`, `OutcomeWhole` (`OutcomeIsWhole`),
  `ExitsExplained` (`ExitsLeaveOutcome`) and `OkEarned` (`OkIsEarned`), for any
  number of steps, probes and faults. `OkIsEarned` speaks of what a poll has
  reported; it needs that every payload that says ok, in either file, in the
  memory, was earned and comes after the last step (`PayloadsEarned`), that
  `best` is the best of the probes so far (`BestOfProbes`), and that the log
  holds no metric the controller would take instead (`Quiet`).
  `ExitsLeaveOutcome` needs to know for each step of the write, interrupted ones
  included and however deep the handlers are nested, what it is writing and what
  it leaves (`Written`); so do the payloads that wait in the buffers of the
  interrupted calls (`unflushed`).
* `DiffProofs`: `DiffTyped`, `SourceRestored` (`SourceSurvives`), `MarkerSwept`
  (`NoStaleMarker`) and `KeptWasMeasured` (`KeptAsMeasuredUnsignalled`), for any
  diffs and settings and any number of signals, kills and restarts.
  `SourceSurvives` speaks of one moment, the next proposal; the invariant has to
  say at every point of a trial who writes the file last - the main thread, the
  handler or the recovery of the next process - and that the marker that one
  would write it from is complete (`InGoodHands`). Handlers are a stack of any
  depth. `MarkerSwept` is about the error paths as well: on each, the marker is
  gone or its own I/O has failed (`MarkerComesAndGoes`), and a trial that does
  not know of its marker is one that failed to write it.
* `PolicyProofs`: `PolicyTypedAlways` (`TypeOK`), `TalksFresh`
  (`ConversationFresh`), `FailuresCounted` (`FailuresInARow`) and
  `RewardsToTheirProposals` (`RewardsCredited`), for the four policies, any
  limits, batches and number of restarts. The counter of failures and the set of
  failed diffs move in the same step; that a trial in flight cannot overrun the
  limit is `LockedOut`. The conversation is fresh because the one mark the policy
  keeps of the history, the diff it last saw kept, bounds every pair from below
  (`SeenBounds`); that the last kept diff is the maximum of a set of positions is
  a lemma of its own (`LastOne`). Rewards find their proposals because draws,
  rows and the pending transition only grow (`Paired`).
* `ExampleProofs`, masks: `MaskTyped`, `MasksNeverMeet` (`MasksApart`),
  `StudentSeesEvents` (`AttendsEvents`) and `KeptBlindToTargets`
  (`KeptReadNoTarget`),
  for grids of any size and any scales, gap and number of targets. The invariant
  `Sane` says what context and targets are in the stages before: the properties
  speak of finished masks only and are not inductive. It has that the split
  leaves room for the gap and a target (`SplitFits`), and that every target
  drawn is a block beyond the gap (`TargetsFit`), which rests on a lemma about
  blocks clamped to what is left.

* `ExampleProofs`, data: `DataTyped` (`DataTypeOK`), `OkReadRight`
  (`OkReadItsCorpus`) and `DataAlwaysThere` (`DataIsThere`), for any number of
  workers, prepares, corpora, failures and kills. For `OkReadRight` no
  two prepares must have met, and in trace-jepa none been stopped over an older
  corpus (`Sound`): then what a trial has loaded so far is of the corpus asked
  for (`ReadWell`). All hangs on the file
  `prepare.py` writes last (`LastDecides`): while a lone prepare writes it is
  not that prepare's yet, when it is some corpus' all files a trial depends on
  are (unless a stop intervened), and once a prepare has ended well it is the
  corpus asked for, from then until another is begun. So no trial runs while a
  prepare writes alone (`WriterBeforeTrials`), for which orphans of a killed
  controller must be followed too (`OrphansMeetNobody`).

So a theorem states every safety property that holds in the runs, the two
refinements of the ledger included. The proofs assume of the constants
what each module's `ASSUME` names. Those that are more than types: the last
weights the model can number are beyond the last iteration
(`MaxIters <= MaxVersion` in `PolicyLoop`: there is at most one update for each
reward), and `None` is none of the values it is told apart from (in `TrialData`
also none of the records that stand for a process).

Only model-checked, for the prover has neither fairness nor `ENABLED`: liveness
(`SleepersWake`, `Terminates`, `CancelArrives`, `ShutdownStops`, `Returns`,
`ProposalsCome`).

## 6. Not modelled

The texts of prompts and answers, diff application and validation; the
forecaster's arithmetic (it may answer either way); networks, losses and
advantages of policies and trials; the JEPA library but for the masks;
configuration and contract checks, pure functions; gates and promotion, which
nobody evaluates; the HTTP target, one request without state; search policies
that draw parameters and keep no state worth a property; `LearnedDiffPolicy`,
which no mode builds; the writers of telemetry other than the ledger. Of the
Basilica target the snapshot of `/progress` is left out: it only feeds the
guard, and `GuardCancels` may happen at any time. Of the trials: an append to
`progress.jsonl` that an `OSError` breaks off in the middle of a line; what a
guard that outlived its join does to a later iteration; targets without a
`prepare_cmd` (both examples have one); a change of `shard_size` alone.

## 7. Plan

All modules of section 2 are done and checked, and the proofs of section 5.
What is left, in this order:

1. Proofs that join components: the parallel engine's use of the pool as an
   implementation of `PoolClients`' promise, and what `Terminates` needs of the
   invariants (a phase that always leads on, without fairness).
2. The progress snapshot of `BasilicaTarget`, composed with the reader of
   `CancelProtocol`: a snapshot shorter than the reader's offset.
3. Rotation of the ledger and the trace; the timeline across a resume.
