------------------------------ MODULE KVService ------------------------------
(***************************************************************************)
(* The key/value service of kvsrv1: Clerks that resend until they are      *)
(* answered (client.go), the labrpc network between them and the server    *)
(* (ClientEnd.Call and Network.processReq), and the server, whose single   *)
(* goroutine serves the bounded queue opQ (server.go).                     *)
(*                                                                         *)
(* An RPC is lost with its request or with its reply when the network is   *)
(* not reliable.  When the end is disabled while the handler runs, Call    *)
(* returns false and the handler lives on: it may execute much later, next *)
(* to the handler of the resent request.                                   *)
(***************************************************************************)
EXTENDS Naturals, Sequences, Functions

CONSTANTS
  Clients,      \* the Clerks; each serves one application thread
  Keys,
  Values,       \* the values applications write, and EmptyValue
  EmptyValue,
  NoEntry,      \* kv has no entry for the key
  Reliable,     \* Network.reliable
  Unstable,     \* Clerks whose ends are disabled and enabled while calls run
  AnyVersion,   \* applications put with versions the server never had, too
  MaxOps,       \* bound: calls per Clerk
  MaxVersion,   \* bound: the largest version an application makes up
  MaxHandlers,  \* bound: handler goroutines before opQ
  QueueCap      \* capacity of opQ, 256 in the code

ASSUME KVServiceAssumption ==
  /\ EmptyValue \in Values
  /\ Reliable \in BOOLEAN /\ Unstable \subseteq Clients /\ AnyVersion \in BOOLEAN
  /\ MaxOps \in Nat /\ MaxVersion \in Nat
  /\ MaxHandlers \in Nat \ {0} /\ QueueCap \in Nat \ {0}
  /\ NoEntry \notin [value : Values, version : Nat]

VARIABLES
  kv,        \* KVServer.kv
  opQ,       \* KVServer.opQ, the channel the server goroutine drains
  handlers,  \* Get and Put handlers that have not sent to opQ yet
  enabled,   \* Network.enabled of each Clerk's end
  call,      \* the Clerk's arguments, NoCall outside Get and Put
  i,         \* the attempt counter of Clerk.Put; 2 stands for every i > 1
  rpc,       \* the RPC the Clerk waits for in ClientEnd.Call
  out,       \* what the Clerk's last call returned
  \* History, never read by the code above:
  n,         \* number of the Clerk's current or last call
  log,       \* log[k][v]: the call that wrote version v of key k
  answer     \* last read or refusal the pending call was served with

vars == <<kv, opQ, handlers, enabled, call, i, rpc, out, n, log, answer>>

(***************************************************************************)
(* Types.                                                                  *)
(***************************************************************************)
Entry == [value : Values, version : Nat]
GetCall == [op : {"Get"}, key : Keys]
PutCall == [op : {"Put"}, key : Keys, value : Values, version : Nat]
NoCall == [op |-> "none"]
Errs == {"none", "OK", "ErrNoKey", "ErrVersion", "ErrMaybe"}
Reply == [err : Errs, value : Values, version : Nat]
ErrReply(err) == [err |-> err, value |-> EmptyValue, version |-> 0]
NoReply == ErrReply("none")
CallId == [clnt : Clients, n : Nat]
Handler == [id : CallId, live : BOOLEAN, call : GetCall \cup PutCall]
NoRpc == [st |-> "none", reply |-> NoReply]

TypeOK ==
  /\ kv \in [Keys -> Entry \cup {NoEntry}]
  /\ opQ \in Seq(Handler) /\ Len(opQ) <= QueueCap
  /\ handlers \in Seq(Handler) /\ Len(handlers) <= MaxHandlers
  /\ enabled \in [Clients -> BOOLEAN]
  /\ call \in [Clients -> GetCall \cup PutCall \cup {NoCall}]
  /\ i \in [Clients -> 0..2]
  /\ rpc \in [Clients -> [st : {"none", "accepted", "running", "replied", "sent"}, reply : Reply]]
  /\ out \in [Clients -> Reply]
  /\ n \in [Clients -> 0..MaxOps]
  /\ log \in [Keys -> Seq(CallId)]
  /\ answer \in [Clients -> Reply]

Init ==
  /\ kv = [k \in Keys |-> NoEntry]
  /\ opQ = << >> /\ handlers = << >>
  /\ enabled = [c \in Clients |-> TRUE]
  /\ call = [c \in Clients |-> NoCall]
  /\ i = [c \in Clients |-> 0]
  /\ rpc = [c \in Clients |-> NoRpc]
  /\ out = [c \in Clients |-> NoReply]
  /\ n = [c \in Clients |-> 0]
  /\ log = [k \in Keys |-> << >>]
  /\ answer = [c \in Clients |-> NoReply]

(***************************************************************************)
(* The server goroutine's switch: the reply to a call and the entry it     *)
(* leaves behind.                                                          *)
(***************************************************************************)
Version(e) == IF e = NoEntry THEN 0 ELSE e.version

GetReply(e) ==
  IF e = NoEntry THEN ErrReply("ErrNoKey")
  ELSE [err |-> "OK", value |-> e.value, version |-> e.version]

\* Mutant: the first Put of a key is not asked for version 0.
PutErrCreates(e, version) ==
  IF e # NoEntry /\ e.version # version THEN "ErrVersion" ELSE "OK"

PutErr(e, version) ==
  IF e # NoEntry
  THEN IF e.version # version THEN "ErrVersion" ELSE "OK"
  ELSE IF version = 0 THEN "OK" ELSE "ErrNoKey"

PutEntry(e, value) ==
  [value |-> value, version |-> IF e = NoEntry THEN 1 ELSE e.version + 1]

(***************************************************************************)
(* The Clerk starts a call and sends RPCs.                                 *)
(***************************************************************************)
Invoke(c, op) ==
  /\ call[c] = NoCall
  /\ n[c] < MaxOps
  /\ call' = [call EXCEPT ![c] = op]
  /\ i' = [i EXCEPT ![c] = 0]
  /\ out' = [out EXCEPT ![c] = NoReply]
  /\ n' = [n EXCEPT ![c] = @ + 1]
  /\ UNCHANGED <<kv, opQ, handlers, enabled, rpc, log, answer>>

Get(c) == \E k \in Keys : Invoke(c, [op |-> "Get", key |-> k])

\* An application knows a version from an earlier reply, or makes one up.
Put(c) ==
  \E k \in Keys, value \in Values \ {EmptyValue} :
    \E version \in 0..(IF AnyVersion THEN MaxVersion ELSE Version(kv[k])) :
      Invoke(c, [op |-> "Put", key |-> k, value |-> value, version |-> version])

CountAttempt(c) == i' = [i EXCEPT ![c] = IF @ = 2 THEN 2 ELSE @ + 1]

\* Mutant: the Clerk does not send again.
SendOnce(c) ==
  /\ call[c] # NoCall /\ rpc[c].st = "none" /\ enabled[c] /\ i[c] = 0
  /\ CountAttempt(c)
  /\ rpc' = [rpc EXCEPT ![c].st = "accepted"]
  /\ UNCHANGED <<kv, opQ, handlers, enabled, call, out, n, log, answer>>

\* Call hands the request to processReq, which finds the end enabled.
Send(c) ==
  /\ call[c] # NoCall /\ rpc[c].st = "none" /\ enabled[c]
  /\ CountAttempt(c)
  /\ rpc' = [rpc EXCEPT ![c].st = "accepted"]
  /\ UNCHANGED <<kv, opQ, handlers, enabled, call, out, n, log, answer>>

\* processReq finds the end disabled: Call returns false after a delay.
SendDisabled(c) ==
  /\ call[c] # NoCall /\ rpc[c].st = "none" /\ ~enabled[c]
  /\ CountAttempt(c)
  /\ UNCHANGED <<kv, opQ, handlers, enabled, call, rpc, out, n, log, answer>>

(***************************************************************************)
(* The network.                                                            *)
(***************************************************************************)
\* Call returns false: the Clerk waits (RandWait) and loops.
CallFails(c) == rpc' = [rpc EXCEPT ![c] = NoRpc]

DropRequest(c) ==
  /\ rpc[c].st = "accepted" /\ ~Reliable
  /\ CallFails(c)
  /\ UNCHANGED <<kv, opQ, handlers, enabled, call, i, out, n, log, answer>>

\* server.dispatch in its own goroutine: a handler comes into being.
Dispatch(c) ==
  /\ rpc[c].st = "accepted"
  /\ Len(handlers) < MaxHandlers
  /\ handlers' = Append(handlers, [id |-> [clnt |-> c, n |-> n[c]], live |-> TRUE, call |-> call[c]])
  /\ rpc' = [rpc EXCEPT ![c].st = "running"]
  /\ UNCHANGED <<kv, opQ, enabled, call, i, out, n, log, answer>>

\* Mutant: the reply of an abandoned handler is taken for the next one's.
DisownNone(c, s) == s

\* isServerDead while processReq waits for the handler: Call returns false, the
\* handler's reply will be drained.
Disown(c, s) ==
  [j \in DOMAIN s |-> IF s[j].id.clnt = c THEN [s[j] EXCEPT !.live = FALSE] ELSE s[j]]

Abandon(c) ==
  /\ rpc[c].st = "running" /\ ~enabled[c]
  /\ handlers' = Disown(c, handlers)
  /\ opQ' = Disown(c, opQ)
  /\ CallFails(c)
  /\ UNCHANGED <<kv, enabled, call, i, out, n, log, answer>>

\* The reply is dropped, or isServerDead just before it would be sent.
LoseReply(c) ==
  /\ rpc[c].st = "replied" /\ (~Reliable \/ ~enabled[c])
  /\ CallFails(c)
  /\ UNCHANGED <<kv, opQ, handlers, enabled, call, i, out, n, log, answer>>

\* The reply is on its way, for a while (longReordering); the end is not looked
\* at again.
SendReply(c) ==
  /\ rpc[c].st = "replied" /\ enabled[c]
  /\ rpc' = [rpc EXCEPT ![c].st = "sent"]
  /\ UNCHANGED <<kv, opQ, handlers, enabled, call, i, out, n, log, answer>>

Disconnect(c) ==
  /\ c \in Unstable /\ enabled[c]
  /\ enabled' = [enabled EXCEPT ![c] = FALSE]
  /\ UNCHANGED <<kv, opQ, handlers, call, i, rpc, out, n, log, answer>>

Connect(c) ==
  /\ ~enabled[c]
  /\ enabled' = [enabled EXCEPT ![c] = TRUE]
  /\ UNCHANGED <<kv, opQ, handlers, call, i, rpc, out, n, log, answer>>

(***************************************************************************)
(* The server.                                                             *)
(***************************************************************************)
\* A handler sends its operation to opQ, and blocks while the channel is full.
Enqueue ==
  \E j \in DOMAIN handlers :
    /\ Len(opQ) < QueueCap
    /\ opQ' = Append(opQ, handlers[j])
    /\ handlers' = SubSeq(handlers, 1, j - 1) \o SubSeq(handlers, j + 1, Len(handlers))
    /\ UNCHANGED <<kv, enabled, call, i, rpc, out, n, log, answer>>

\* The handler waits on its reply channel, so executing the operation and
\* handing it the reply are one step; ech carries the reply to processReq.
Answer(h, reply) ==
  rpc' = IF h.live THEN [rpc EXCEPT ![h.id.clnt] = [st |-> "replied", reply |-> reply]] ELSE rpc

Note(h, reply) ==
  answer' = IF h.live /\ (h.call.op = "Get" \/ reply.err # "OK")
            THEN [answer EXCEPT ![h.id.clnt] = reply] ELSE answer

ServeGet ==
  /\ opQ # << >>
  /\ LET h == Head(opQ)
         reply == GetReply(kv[h.call.key])
     IN  /\ h.call.op = "Get"
         /\ Answer(h, reply) /\ Note(h, reply)
  /\ opQ' = Tail(opQ)
  /\ UNCHANGED <<kv, handlers, enabled, call, i, out, n, log>>

ServePut ==
  /\ opQ # << >>
  /\ LET h == Head(opQ)
         k == h.call.key
         err == PutErr(kv[k], h.call.version)
     IN  /\ h.call.op = "Put"
         /\ kv' = IF err = "OK" THEN [kv EXCEPT ![k] = PutEntry(@, h.call.value)] ELSE kv
         /\ log' = IF err = "OK" THEN [log EXCEPT ![k] = Append(@, h.id)] ELSE log
         /\ Answer(h, ErrReply(err)) /\ Note(h, ErrReply(err))
  /\ opQ' = Tail(opQ)
  /\ UNCHANGED <<handlers, enabled, call, i, out, n>>

(***************************************************************************)
(* Call returns true: the Clerk's switch on the reply.                     *)
(***************************************************************************)
ClerkErr(c, err) ==
  IF call[c].op = "Put" /\ err = "ErrVersion" /\ i[c] > 1 THEN "ErrMaybe" ELSE err

Deliver(c) ==
  /\ rpc[c].st = "sent"
  /\ out' = [out EXCEPT ![c] = [rpc[c].reply EXCEPT !.err = ClerkErr(c, @)]]
  /\ call' = [call EXCEPT ![c] = NoCall]
  /\ rpc' = [rpc EXCEPT ![c] = NoRpc]
  /\ answer' = [answer EXCEPT ![c] = NoReply]
  /\ UNCHANGED <<kv, opQ, handlers, enabled, i, n, log>>

\* Every Clerk has used up its calls: the model stops here, not the program.
Finished ==
  /\ \A c \in Clients : n[c] = MaxOps /\ call[c] = NoCall
  /\ UNCHANGED vars

Next ==
  \/ \E c \in Clients :
       \/ Get(c) \/ Put(c) \/ Send(c) \/ SendDisabled(c)
       \/ DropRequest(c) \/ Dispatch(c) \/ Abandon(c) \/ LoseReply(c) \/ SendReply(c)
       \/ Disconnect(c) \/ Connect(c) \/ Deliver(c)
  \/ Enqueue \/ ServeGet \/ ServePut
  \/ Finished

Spec == Init /\ [][Next]_vars

(***************************************************************************)
(* Every goroutine keeps running, and a network that drops one RPC in ten  *)
(* does not drop every one of infinitely many.                             *)
(***************************************************************************)
Fairness ==
  /\ WF_vars(Enqueue) /\ WF_vars(ServeGet) /\ WF_vars(ServePut)
  /\ \A c \in Clients :
       /\ WF_vars(Send(c)) /\ WF_vars(Deliver(c))
       /\ SF_vars(Dispatch(c)) /\ SF_vars(SendReply(c))

FairSpec == Spec /\ Fairness
-----------------------------------------------------------------------------
(***************************************************************************)
(* Properties.                                                             *)
(***************************************************************************)
Id(c, m) == [clnt |-> c, n |-> m]
Written(k) == Range(log[k])

\* Every Get and Put returns: the Clerk keeps trying, and sooner or later a
\* request and its reply get through (client.go:32-34).
CallsReturn == \A c \in Clients : call[c] # NoCall ~> call[c] = NoCall

(***************************************************************************)
(* The service implements the Clerk's promise: every call takes effect     *)
(* atomically between its invocation and its return.                       *)
(***************************************************************************)
RegView == [k \in Keys |->
  IF kv[k] = NoEntry THEN [value |-> EmptyValue, version |-> 0] ELSE kv[k]]

PerformedView == [c \in Clients |->
  call[c].op = "Put" /\ Id(c, n[c]) \in Written(call[c].key)]

VKV == INSTANCE VersionedKV WITH reg <- RegView, performed <- PerformedView

\* Get and Put of a Clerk over a lossy network are linearizable, with the
\* results VersionedKV allows (models1/kv.go, KvModel).  So a resent Put is
\* installed at most once (client.go:93-96) and never after its call; OK means
\* installed, ErrVersion and ErrNoKey mean never installed (client.go:66-68,
\* "the Put was definitely not performed at the server").
Linearizable == VKV!kvSpec
=============================================================================
