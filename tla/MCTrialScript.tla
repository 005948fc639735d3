----------------------------- MODULE MCTrialScript -----------------------------
(* Instances of TrialScript for TLC. *)
EXTENDS TrialScript

BothScripts == {"ijepa", "trace"}
TwoScores == {1, 2}
=============================================================================
