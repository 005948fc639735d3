--------------------------- MODULE MCMaskSampling ----------------------------
(* Instances of MaskSampling for TLC: fractions as config.yaml of trace-jepa *)
(* and the samplers' defaults give them, on grids of at most eight events.  *)
EXTENDS MaskSampling, TLC

Both == {"infill", "future"}
EventGrids == {<<8, 1>>, <<2, 1>>, <<4, 2>>}
TraceScale == <<10, 25>>
DefaultAspect == <<75, 150>>
DefaultContext == <<85, 100>>
DefaultFraction == <<40, 60>>
TraceTime == <<10, 30>>
AllChannels == <<100, 100>>
Symmetric == Permutations(Sessions)
=============================================================================
