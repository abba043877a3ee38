---------------------------- MODULE MapReduceJob ----------------------------
(***************************************************************************)
(* What the coordinator of mr promises, without queues, timers, workers or *)
(* locks: every map task is completed once, with the output of one of its  *)
(* attempts; when all are, the reduce tasks get those outputs and no       *)
(* others; every reduce task is completed once; then the job is done.      *)
(***************************************************************************)
EXTENDS Naturals

CONSTANTS
  MapTids,     \* the map tasks, one per input file
  ReduceTids   \* the reduce tasks

VARIABLES
  phase,       \* "Map", "Reduce" or "Done"
  accepted,    \* [MapTids -> Nat], the attempt whose output counts, or 0
  inputs,      \* [ReduceTids -> a set of <<map task, attempt>>]
  reduced      \* the completed reduce tasks

jobVars == <<phase, accepted, inputs, reduced>>

jobInit ==
  /\ phase = "Map"
  /\ accepted = [m \in MapTids |-> 0]
  /\ inputs = [r \in ReduceTids |-> {}]
  /\ reduced = {}

\* The primed value names the attempt.
AcceptMap(m) ==
  /\ phase = "Map"
  /\ accepted[m] = 0
  /\ accepted'[m] \in Nat \ {0}
  /\ accepted' = [accepted EXCEPT ![m] = accepted'[m]]
  /\ UNCHANGED <<phase, inputs, reduced>>

StartReduce ==
  /\ phase = "Map"
  /\ \A m \in MapTids : accepted[m] # 0
  /\ phase' = "Reduce"
  /\ inputs' = [r \in ReduceTids |-> {<<m, accepted[m]>> : m \in MapTids}]
  /\ UNCHANGED <<accepted, reduced>>

AcceptReduce(r) ==
  /\ phase = "Reduce"
  /\ r \notin reduced
  /\ reduced' = reduced \cup {r}
  /\ UNCHANGED <<phase, accepted, inputs>>

FinishJob ==
  /\ phase = "Reduce"
  /\ reduced = ReduceTids
  /\ phase' = "Done"
  /\ UNCHANGED <<accepted, inputs, reduced>>

jobNext ==
  \/ \E m \in MapTids : AcceptMap(m)
  \/ StartReduce
  \/ \E r \in ReduceTids : AcceptReduce(r)
  \/ FinishJob

jobSpec == jobInit /\ [][jobNext]_jobVars
=============================================================================
