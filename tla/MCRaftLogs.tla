----------------------------- MODULE MCRaftLogs -----------------------------
(***************************************************************************)
(* RaftLogs for TLC.                                                       *)
(***************************************************************************)
EXTENDS RaftLogs, TLC

\* Correct groups with and without snapshots and late calls of killed servers;
\* groups with a faulty server.
TestConfigs ==
  [snapshot : BOOLEAN, faulty : {{}}, stale : BOOLEAN]
  \cup [snapshot : BOOLEAN, faulty : {{CHOOSE s \in Servers : TRUE}}, stale : {FALSE}]
=============================================================================
