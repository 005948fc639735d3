--------------------------- MODULE MCParallelEngine ---------------------------
(* Three iterations, two at a time, on a bin of two gpus.  A trial costs    *)
(* one gpu, both, none, or more than there are.  Infinity (3) as a reported *)
(* score stands for a diverged trial.                                       *)
EXTENDS ParallelEngine

MCKeys == {"gpu"}
MCCapacity == [gpu |-> 2]
MCSmallCosts == {[gpu |-> 1], [gpu |-> 2], [gpu |-> 3]}
MCFreeCosts == {[gpu |-> 0], [gpu |-> 2], [gpu |-> 3]}
MCInfinity == 3
MCScores == {1, 2, MCInfinity}

Out(s, v) == [status |-> s, score |-> v]

\* A kept failure, a success without the objective, a cancelled trial that
\* reported a better value than any other.
MCFewOutcomes ==
    {Out("ok", 2), Out("failed", 1), Out("ok", NoScore), Out("cancelled", 1)}

MCOutcomes == MCFewOutcomes \cup {Out("ok", MCInfinity)}

MCRecordFault == {"record"}
MCAllFaults == FaultPhases

=============================================================================
