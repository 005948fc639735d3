---------------------------- MODULE MCSerialEngine ----------------------------
(* Three iterations and one restart.  Infinity (3) as a reported score      *)
(* stands for a diverged trial.                                             *)
EXTENDS SerialEngine

MCInfinity == 3
MCScores == {1, 2, MCInfinity}

Out(s, v) == [status |-> s, score |-> v]

MCOutcomes ==
    {Out("ok", 1), Out("ok", 2), Out("failed", NoScore), Out("cancelled", 1),
     Out("ok", MCInfinity), Out("failed", 1), Out("ok", NoScore),
     Out("rejected", NoScore)}

MCAllFaults == FaultPoints

=============================================================================
