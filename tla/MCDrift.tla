------------------------------- MODULE MCDrift -------------------------------
(***************************************************************************)
(* Small instances of Drift: contents and steps are model values, which    *)
(* the runs without liveness may permute.                                  *)
(***************************************************************************)
EXTENDS Drift, TLC

CONSTANTS h1, h2, h3, p1, p2

Contents == {h1, h2, h3}
Symmetry == Permutations(Contents) \cup Permutations({p1, p2})
=============================================================================
