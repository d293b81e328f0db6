------------------------- MODULE MCTelemetryClient -------------------------
(* Two exam contexts, a short clock and one outage for the model checker. *)
EXTENDS TelemetryClient

Symmetry == Permutations(Contexts)
=============================================================================
