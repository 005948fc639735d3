------------------------------- MODULE TrialData -------------------------------
(***************************************************************************)
(* The data both example trials read, written by prepare.py: started by    *)
(* the _ensure_prepared of one CommandTarget that all worker threads of    *)
(* the engine share, without a lock between the test of _prepared and the  *)
(* end of the command.  Each worker may so start a prepare of its own, in  *)
(* the same directory, and a prepare outlives a controller that is killed. *)
(*                                                                         *)
(* A file is opened, and so truncated, and whole once closed.  The same    *)
(* arguments give the same bytes: two writers of one corpus do not disturb *)
(* each other beyond the truncation, writers of two corpora mix them.      *)
(* A corpus is what main compares with the manifest: --shard-size, which   *)
(* it does not, cuts the same sessions into other files and is held fixed. *)
(* Both examples carry a prepare_cmd.                                      *)
(***************************************************************************)
EXTENDS Naturals, Sequences

CONSTANTS None, Torn,
          Scripts,      \* a subset of {"ijepa", "trace"}
          Workers,      \* threads of the engine
          Procs,        \* bound: prepare processes alive at once
          Corpora,      \* the arguments of prepare_cmd that make up the data
          MaxFaults     \* bound: prepares that fail and controllers killed

(* A prepare process: the worker that waits for it (None: of a controller  *)
(* that is gone), its arguments, and the file it writes: 0 before it has   *)
(* looked for them, 5 when it has ended, with a return code.               *)
Process == [owner : Workers \cup {None}, corpus : Corpora, next : 0..5, open : BOOLEAN,
            rc : {0, 1}]

ASSUME DataAssumption ==
    /\ Scripts \subseteq {"ijepa", "trace"} /\ MaxFaults \in Nat
    /\ None \notin Workers \cup Corpora \cup Procs \cup Process
    /\ Torn \notin Corpora \cup {None}

VARIABLES script, args,
          file, opener,     \* data/: the content, and who opened it last
          proc,             \* the prepare processes
          at, seen,         \* a worker, and the contents its trial has read
          prepared,         \* CommandTarget._prepared
          overlapped,       \* history: two prepares were alive at once
          stopped,          \* history: a prepare failed or was killed
          remade,           \* history: a corpus was begun over another, and not finished
          faults

fileVars == <<file, opener>>
history == <<overlapped, stopped, remade>>
workerVars == <<at, seen>>
dataVars == <<script, args, fileVars, proc, workerVars, prepared, history, faults>>

(* prepare.py of ijepa-cifar10 and of trace-jepa, in the order of writing. *)
IjepaFiles == <<"train", "test", "probe", "canary">>

(* Mutant of TraceFiles: the manifest is written first. *)
ManifestFirst == <<"manifest", "train", "probe", "canary">>

TraceFiles == <<"train", "probe", "canary", "manifest">>
Files == IF script = "ijepa" THEN IjepaFiles ELSE TraceFiles

DataInit ==
    /\ script \in Scripts /\ args \in Corpora
    /\ file = [f \in {"train", "test", "probe", "canary", "manifest"} |-> None]
    /\ opener = [f \in DOMAIN file |-> None]
    /\ proc = [p \in Procs |-> None]
    /\ at = [w \in Workers |-> "idle"] /\ seen = [w \in Workers |-> {}]
    /\ prepared = FALSE /\ faults = 0
    /\ overlapped = FALSE /\ stopped = FALSE /\ remade = FALSE

Fault == faults < MaxFaults /\ faults' = faults + 1

-----------------------------------------------------------------------------
(* prepare.py: the files are written one by one.                           *)

Writing(p) == proc[p] # None /\ proc[p].next \in DOMAIN Files
Target(p) == Files[proc[p].next]
HasOpen(p, f) == Writing(p) /\ proc[p].open /\ Target(p) = f

(* Mutant of TraceSkips: any manifest that parses is good enough. *)
TraceSkipsAny(corpus) == file["manifest"] \notin {None, Torn}

(* ijepa-cifar10 looks at two names only, trace-jepa into its manifest.    *)
IjepaSkips == file["train"] # None /\ file["test"] # None
TraceSkips(corpus) == file["manifest"] = corpus

SkipOrGenerate(p) ==
    /\ proc[p] # None /\ proc[p].next = 0
    /\ proc' = [proc EXCEPT ![p].next =
                    IF (script = "ijepa" /\ IjepaSkips)
                       \/ (script = "trace" /\ TraceSkips(proc[p].corpus))
                    THEN Len(Files) + 1 ELSE 1]
    /\ UNCHANGED <<script, args, fileVars, workerVars, prepared, history, faults>>

OpenFile(p) ==
    /\ Writing(p) /\ ~proc[p].open
    /\ file' = [file EXCEPT ![Target(p)] = Torn]
    /\ opener' = [opener EXCEPT ![Target(p)] = p]
    /\ proc' = [proc EXCEPT ![p].open = TRUE]
    /\ remade' = (remade \/ \E f \in DOMAIN file : file[f] \notin {None, Torn, proc[p].corpus})
    /\ UNCHANGED <<script, args, workerVars, prepared, overlapped, stopped, faults>>

(* What is in a file when p closes it. *)
Closed(p) ==
    LET f == Target(p)
        others == {q \in Procs \ {p} : HasOpen(q, f)}
    IN  IF opener[f] = p /\ \A q \in others : proc[q].corpus = proc[p].corpus
        THEN proc[p].corpus
        ELSE IF file[f] = proc[p].corpus THEN file[f] ELSE Torn

CloseFile(p) ==
    /\ Writing(p) /\ proc[p].open
    /\ file' = [file EXCEPT ![Target(p)] = Closed(p)]
    /\ proc' = [proc EXCEPT ![p].open = FALSE, ![p].next = @ + 1]
    /\ remade' = (remade /\ Target(p) # "manifest")
    /\ UNCHANGED <<script, args, opener, workerVars, prepared, overlapped, stopped, faults>>

(* Mutant of Stop: the file in hand stays open. *)
StopLeaks(p, code) ==
    proc' = [proc EXCEPT ![p] = IF @.owner = None THEN None
                                ELSE [@ EXCEPT !.next = Len(Files) + 1, !.rc = code]]

(* A prepare fails, or the timeout kills it; no owner: it just ends. *)
Stop(p, code) ==
    proc' = [proc EXCEPT ![p] = IF @.owner = None THEN None
                                ELSE [@ EXCEPT !.next = Len(Files) + 1, !.open = FALSE, !.rc = code]]

PrepareFails(p) ==
    /\ proc[p] # None /\ proc[p].next <= Len(Files) /\ Fault
    /\ Stop(p, 1)
    /\ stopped' = TRUE
    /\ UNCHANGED <<script, args, fileVars, workerVars, prepared, overlapped, remade>>

OrphanEnds(p) ==
    /\ proc[p] # None /\ proc[p].owner = None /\ proc[p].next > Len(Files)
    /\ Stop(p, 0)
    /\ UNCHANGED <<script, args, fileVars, workerVars, prepared, history, faults>>

-----------------------------------------------------------------------------
(* CommandTarget.run in a worker thread. *)

(* The test of _prepared ... *)
EnsurePrepared(w) ==
    /\ at[w] = "idle"
    /\ at' = [at EXCEPT ![w] = IF prepared THEN "loading" ELSE "unprepared"]
    /\ seen' = [seen EXCEPT ![w] = {}]
    /\ UNCHANGED <<script, args, fileVars, proc, prepared, history, faults>>

(* ... and the command that follows from it. *)
RunPrepare(w) ==
    /\ at[w] = "unprepared" /\ at' = [at EXCEPT ![w] = "preparing"]
    /\ \E p \in Procs :
        /\ proc[p] = None
        /\ proc' = [proc EXCEPT ![p] = [owner |-> w, corpus |-> args, next |-> 0,
                                        open |-> FALSE, rc |-> 0]]
        /\ overlapped' = (overlapped \/ \E q \in Procs : proc[q] # None)
    /\ UNCHANGED <<script, args, fileVars, seen, prepared, stopped, remade, faults>>

(* A return code other than 0 or a timeout raises: the trial has failed.   *)
Prepared(w) ==
    \E p \in Procs :
        /\ proc[p] # None /\ proc[p].owner = w /\ proc[p].next > Len(Files)
        /\ proc' = [proc EXCEPT ![p] = None]
        /\ prepared' = (prepared \/ proc[p].rc = 0)
        /\ at' = [at EXCEPT ![w] = IF proc[p].rc = 0 THEN "loading" ELSE "unprepared failed"]
        /\ UNCHANGED <<script, args, fileVars, seen, history, faults>>

-----------------------------------------------------------------------------
(* The trial's reads. *)

(* A tar that ends early may look like a shorter one; JSON does not parse, *)
(* and what torch.save wrote has its directory at the end.  But the bytes  *)
(* one writer wrote before another truncated the file are a hole before    *)
(* that directory until the other has come as far.                         *)
MayBeShort(f) == script = "trace" /\ f \in {"train", "probe"}
MayHaveHole == script = "ijepa" /\ overlapped

Readable(f) == file[f] # None /\ (file[f] # Torn \/ MayBeShort(f) \/ MayHaveHole)
Unreadable(f) == file[f] \in {None, Torn}

Reads(w, fs, next) ==
    \/ /\ \A f \in fs : Readable(f)
       /\ seen' = [seen EXCEPT ![w] = @ \cup {file[f] : f \in fs}]
       /\ at' = [at EXCEPT ![w] = next]
    \/ /\ \E f \in fs : Unreadable(f)
       /\ at' = [at EXCEPT ![w] = "failed"]
       /\ UNCHANGED seen

LoadedFirst == IF script = "ijepa" THEN {"train", "canary"} ELSE {"manifest", "canary"}
LoadedInLoop == IF script = "ijepa" THEN {} ELSE {"train"}

TrialStep(w) ==
    /\ \/ at[w] = "loading" /\ Reads(w, LoadedFirst, "training")
       \/ at[w] = "training" /\ Reads(w, LoadedInLoop, "probing")
       \/ at[w] = "probing" /\ (Reads(w, {"probe"}, "training") \/ Reads(w, {"probe"}, "ok"))
    /\ UNCHANGED <<script, args, fileVars, proc, prepared, history, faults>>

NextTrial(w) ==
    /\ at[w] \in {"ok", "failed", "unprepared failed"}
    /\ at' = [at EXCEPT ![w] = "idle"]
    /\ UNCHANGED <<script, args, fileVars, proc, seen, prepared, history, faults>>

(* The controller is killed, its prepares with it or not, and started      *)
(* again, perhaps with other arguments.                                    *)
Kill ==
    /\ Fault
    /\ at' = [w \in Workers |-> "idle"] /\ seen' = [w \in Workers |-> {}]
    /\ prepared' = FALSE
    /\ args' \in IF script = "ijepa" THEN {args} ELSE Corpora
    /\ \E killed \in SUBSET {p \in Procs : proc[p] # None} :
        /\ proc' = [p \in Procs |-> IF proc[p] = None \/ p \in killed THEN None
                                    ELSE [proc[p] EXCEPT !.owner = None]]
        /\ stopped' = (stopped \/ killed # {})
    /\ UNCHANGED <<script, fileVars, overlapped, remade>>

DataNext ==
    \/ \E p \in Procs : SkipOrGenerate(p) \/ OpenFile(p) \/ CloseFile(p)
                        \/ PrepareFails(p) \/ OrphanEnds(p)
    \/ \E w \in Workers : EnsurePrepared(w) \/ RunPrepare(w) \/ Prepared(w)
                          \/ TrialStep(w) \/ NextTrial(w)
    \/ Kill

DataSpec == DataInit /\ [][DataNext]_dataVars

-----------------------------------------------------------------------------
(* Properties *)

Places == {"idle", "unprepared", "preparing", "loading", "training", "probing", "ok",
           "failed", "unprepared failed"}

Contents == Corpora \cup {None, Torn}

(* The types; a process has a file open only while it has files to write.  *)
DataTypeOK ==
    /\ script \in Scripts /\ args \in Corpora
    /\ file \in [{"train", "test", "probe", "canary", "manifest"} -> Contents]
    /\ opener \in [DOMAIN file -> Procs \cup {None}]
    /\ proc \in [Procs -> Process \cup {None}]
    /\ \A p \in Procs : proc[p] # None => (proc[p].open => proc[p].next \in DOMAIN Files)
    /\ at \in [Workers -> Places] /\ seen \in [Workers -> SUBSET Contents]
    /\ {prepared, overlapped, stopped, remade} \subseteq BOOLEAN
    /\ faults \in 0..MaxFaults

(* As long as prepares run one at a time, a trial that ends well has read  *)
(* the corpus its controller asks for, and whole, through prepares that    *)
(* fail or are killed between two files, restarts and other arguments; in  *)
(* trace-jepa unless a prepare was stopped under the manifest of a corpus  *)
(* it replaces.                                                            *)
OkReadItsCorpus ==
    \A w \in Workers : at[w] = "ok" =>
        seen[w] \subseteq {args} \/ overlapped \/ (script = "trace" /\ remade)

(* When prepares run one at a time no trial lacks its data in trace-jepa,  *)
(* whose manifest comes last, and in ijepa-cifar10 only after a prepare    *)
(* was stopped (from then on every trial does: the files it looks for are  *)
(* there, those that come after them are not).                             *)
DataIsThere ==
    \A w \in Workers : at[w] = "failed" =>
        overlapped \/ (IF script = "trace" THEN remade ELSE stopped)

=============================================================================
