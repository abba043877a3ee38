---------------------------- MODULE MCAnnotations ----------------------------
(***************************************************************************)
(* Annotations for TLC.                                                    *)
(***************************************************************************)
EXTENDS Annotations, TLC

\* The servers of a test are alike, and so are the handlers.
Symmetry == Permutations(Servers) \cup Permutations(Handlers)
=============================================================================
