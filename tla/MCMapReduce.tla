---------------------------- MODULE MCMapReduce ----------------------------
(***************************************************************************)
(* MapReduce for TLC: workers are interchangeable.                         *)
(***************************************************************************)
EXTENDS MapReduce, TLC

\* What a worker started with other parameters may report: too few files, a
\* task number out of range, a kind of task there is none of.
StrayCompletions ==
  {Completion(Task("Map", 0), 0), Completion(Task("Map", nMap), 1),
   Completion(Task("Reduce", nReduce), 0), Completion(Task("Sleep", 0), 0)}

Symmetry == Permutations(Workers)
=============================================================================
