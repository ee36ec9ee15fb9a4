------------------------------- MODULE MCViewer -------------------------------
(* The viewer page on small instances. *)
EXTENDS Viewer, FiniteSets, TLC

Symmetry == Permutations(Run)

(* One call of play() at a time waits to settle. *)
OnePlay == Cardinality(plays) <= 1
=============================================================================
