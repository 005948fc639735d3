----------------------------- MODULE MCPolicyLoop ------------------------------
(* Instances of PolicyLoop for TLC. *)
EXTENDS PolicyLoop

AllKinds == {"llm", "llm_diff", "hybrid", "learned"}
=============================================================================
