--------------------------- MODULE MCCancelProtocol ---------------------------
(* Two reports are enough for the guard to decide; the trial makes up to    *)
(* five, so that reports come before, during and after the decision.        *)
EXTENDS CancelProtocol
=============================================================================
