------------------------------ MODULE MCTrialData ------------------------------
(* Instances of TrialData for TLC. *)
EXTENDS TrialData, TLC

BothScripts == {"ijepa", "trace"}
Symmetric == Permutations(Workers) \cup Permutations(Procs) \cup Permutations(Corpora)
=============================================================================
