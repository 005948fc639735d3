---------------------------- MODULE MCDiffExecutor ----------------------------
(* Two diffs: one kept and one in flight when the process dies; the one that *)
(* follows asks for a proposal though none is left to be made.               *)
EXTENDS DiffExecutor

MCDiffs == {"d1", "d2"}

\* In either mode: kills anywhere, or anywhere but in a write that nothing
\* covers; errors of either file's I/O or of both; signals; and any two of these.
MCSettings ==
    {s \in [mode : {"continuous", "run-one"}, kills : {{}, Points \ Tearing, Points},
            fails : SUBSET {"file", "marker"}, maxSignals : {0, 2}] :
        /\ s.kills = Points => s.maxSignals = 0
        /\ s.kills = {} \/ s.fails = {} \/ s.maxSignals = 0}

=============================================================================
