------------------------------ MODULE RpcChannel ------------------------------
(***************************************************************************)
(* What a connection of the demux package promises its callers: a call     *)
(* returns the server's reply to this very call, or an error; the server   *)
(* serves a call at most once, perhaps after the caller was told an error. *)
(***************************************************************************)
EXTENDS Naturals

CONSTANTS Callers, MaxCalls

VARIABLES
  n,         \* n[c]: number of c's current or last call
  waiting,   \* the callers inside SendReceive
  served,    \* how often the server has served call <<caller, number>>
  result     \* result[c]: what the last call returned

vars == <<n, waiting, served, result>>

Ids == Callers \X (1..MaxCalls)
NoResult == [ok |-> FALSE, id |-> <<>>]

Init ==
  /\ n = [c \in Callers |-> 0]
  /\ waiting = {}
  /\ served = [id \in Ids |-> 0]
  /\ result = [c \in Callers |-> NoResult]

Invoke(c) ==
  /\ c \notin waiting /\ n[c] < MaxCalls
  /\ n' = [n EXCEPT ![c] = @ + 1]
  /\ waiting' = waiting \cup {c}
  /\ UNCHANGED <<served, result>>

Serve(id) ==
  /\ id[2] <= n[id[1]] /\ served[id] = 0
  /\ served' = [served EXCEPT ![id] = 1]
  /\ UNCHANGED <<n, waiting, result>>

ReturnReply(c) ==
  /\ c \in waiting /\ served[<<c, n[c]>>] = 1
  /\ waiting' = waiting \ {c}
  /\ result' = [result EXCEPT ![c] = [ok |-> TRUE, id |-> <<c, n[c]>>]]
  /\ UNCHANGED <<n, served>>

ReturnError(c) ==
  /\ c \in waiting
  /\ waiting' = waiting \ {c}
  /\ result' = [result EXCEPT ![c] = NoResult]
  /\ UNCHANGED <<n, served>>

Next ==
  \/ \E c \in Callers : Invoke(c) \/ ReturnReply(c) \/ ReturnError(c)
  \/ \E id \in Ids : Serve(id)

Spec == Init /\ [][Next]_vars

=============================================================================
