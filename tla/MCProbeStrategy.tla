-------------------------- MODULE MCProbeStrategy ---------------------------
(***************************************************************************)
(* Model values for the runs of ProbeStrategy.  Handlers are interchangeable. *)
(***************************************************************************)
EXTENDS ProbeStrategy, TLC

Symmetry == Permutations(Handler)
=============================================================================
