---------------------- MODULE MCInvestigationLifecycle ----------------------
(* Instances of InvestigationLifecycle small enough for TLC.               *)
EXTENDS InvestigationLifecycle, TLC

\* Page views are interchangeable.  Not used with the liveness property.
ViewSymmetry == Permutations(Sweepers)
=============================================================================
