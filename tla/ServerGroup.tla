----------------------------- MODULE ServerGroup -----------------------------
(***************************************************************************)
(* A group of servers as the tester runs it: every server is a daemon      *)
(* process with a persister (daemonsrv.go, persister.go) that the tester   *)
(* starts, connects, partitions, shuts down and restarts (group.go, srv.go,*)
(* daemonclnt.go).  RPCs between servers, and from Clerks, pass through    *)
(* the tester's labrpc network (testsrv.go, labrpc.go).                    *)
(*                                                                         *)
(* What a server application (Raft, a key/value server) stores is its own  *)
(* business: here it is a number that grows whenever the application calls *)
(* Persister.Save, and every request and every reply carries the number    *)
(* its sender had saved by then.                                           *)
(*                                                                         *)
(* The tester's thread runs one operation at a time, as a list of steps    *)
(* (todo) between which RPCs make progress.  One step enables or disables  *)
(* several ends, which no RPC can tell apart: each uses a single end.      *)
(***************************************************************************)
EXTENDS Naturals, Sequences, FiniteSets

CONSTANTS
  Servers,     \* the servers of one group
  Clerks,      \* clients whose ends are always enabled
  Slots,       \* bound: RPCs in progress at a time
  Reliable,    \* Network.reliable
  MaxStarts,   \* bound: StartServer calls per server
  MaxSaves     \* bound: Persister.Save calls that change the state

ASSUME ServerGroupAssumption ==
  /\ Reliable \in BOOLEAN
  /\ Servers # {} /\ Cardinality(Servers) \in Nat /\ Servers \cap Clerks = {}
  /\ MaxStarts \in Nat \ {0} /\ MaxSaves \in Nat

VARIABLES
  todo,       \* the rest of the tester's current operation
  inc,        \* inc[i]: number of StartServer(i) calls; names Server object,
              \* daemon process, its ends, and its labrpc.Server
  proc,       \* state of the daemon process of inc[i]
  persisted,  \* DaemonSrv.persister
  saved,      \* Server.saved, the tester's copy of the persister
  connected,  \* ServerGrp.connected
  enabled,    \* the ends whose Network.enabled is true
  servers,    \* Network.servers: the registered incarnation, 0 for nil
  rpcs,       \* processReq and the handler of each RPC
  \* History, never read by the code above:
  told,       \* told[i]: the most any other party knows i to have saved
  split       \* pairs the last Partition separated, not reconnected since

tester == <<todo, inc, saved, connected, enabled, servers, split>>
vars == <<tester, proc, persisted, rpcs, told>>

(***************************************************************************)
(* Types.  A process is "starting" until it has received Init, "up" until  *)
(* CheckpointPersister closes its sockets, "closed" until the persister is *)
(* copied, and "copied" until it is killed.                                *)
(***************************************************************************)
Callers == Servers \cup Clerks
End == [from : Callers, inc : Nat, to : Servers]
Incarnation(p) == IF p \in Servers THEN inc[p] ELSE 1
EndOf(p, j) == [from |-> p, inc |-> Incarnation(p), to |-> j]

Rpc == [st : {"idle", "sent", "accepted", "waiting", "checked", "failed"},
        h : {"none", "running", "executed", "answered", "lost"},
        end : End, srv : Nat, val : Nat, rep : Nat]
NoEnd == CHOOSE e \in [from : Servers, inc : {0}, to : Servers] : TRUE
NoRpc == [st |-> "idle", h |-> "none", end |-> NoEnd, srv |-> 0, val |-> 0, rep |-> 0]

Disconnect(i, from) == [do |-> "disconnect", srv |-> i, peers |-> from]
Connect(i, to) == [do |-> "connect", srv |-> i, peers |-> to]
Do(op, i) == [do |-> op, srv |-> i, peers |-> {}]
Step == [do : {"disconnect", "connect", "DeleteServer", "close", "Checkpoint", "kill",
               "runDaemon", "init", "AddServer"},
         srv : Servers, peers : SUBSET Servers]

TypeOK ==
  /\ todo \in Seq(Step)
  /\ inc \in [Servers -> 1..MaxStarts]
  /\ proc \in [Servers -> {"starting", "up", "closed", "copied", "down"}]
  /\ persisted \in [Servers -> 0..MaxSaves]
  /\ saved \in [Servers -> 0..MaxSaves]
  /\ connected \in [Servers -> BOOLEAN]
  /\ enabled \subseteq End
  /\ servers \in [Servers -> 0..MaxStarts]
  /\ rpcs \in [Slots -> Rpc]
  /\ told \in [Servers -> 0..MaxSaves]
  /\ split \subseteq SUBSET Servers

\* StartServers has returned: every server runs and is connected.
Init ==
  /\ todo = << >>
  /\ inc = [i \in Servers |-> 1]
  /\ proc = [i \in Servers |-> "up"]
  /\ persisted = [i \in Servers |-> 0]
  /\ saved = [i \in Servers |-> 0]
  /\ connected = [i \in Servers |-> TRUE]
  /\ enabled = [from : Callers, inc : {1}, to : Servers]
  /\ servers = [i \in Servers |-> 1]
  /\ rpcs = [s \in Slots |-> NoRpc]
  /\ told = [i \in Servers |-> 0]
  /\ split = {}

Larger(a, b) == IF a < b THEN b ELSE a

\* A finished RPC leaves nothing behind.
SetRpc(s, r) == rpcs' = [rpcs EXCEPT ![s] = IF r.st = "idle" /\ r.h = "none" THEN NoRpc ELSE r]

(***************************************************************************)
(* The tester's operations, each as the steps it performs.                 *)
(***************************************************************************)
\* Mutant: DeleteServer only after the process is gone.
ShutdownStepsLateDelete(i) ==
  << Disconnect(i, Servers), Do("close", i), Do("Checkpoint", i), Do("kill", i),
     Do("DeleteServer", i) >>

ShutdownSteps(i) ==
  << Disconnect(i, Servers), Do("DeleteServer", i), Do("close", i), Do("Checkpoint", i),
     Do("kill", i) >>

StartSteps(i) == << Do("runDaemon", i), Do("init", i), Do("AddServer", i) >>

\* The slices that hold each server of S once.
Slices(S) ==
  {ps \in UNION {[1..n -> S] : n \in 0..Cardinality(Servers)} :
     /\ \A i \in S : \E k \in DOMAIN ps : ps[k] = i
     /\ \A k, l \in DOMAIN ps : ps[k] = ps[l] => k = l}

\* One loop of Partition: the servers of p, in the order of ps, leave q.
SideSteps(ps, p, q) ==
  [k \in 1..(2 * Len(ps)) |-> IF k % 2 = 1 THEN Disconnect(ps[(k + 1) \div 2], q)
                                          ELSE Connect(ps[k \div 2], p)]

Begin(steps, apart) ==
  /\ todo = << >>
  /\ todo' = steps
  /\ split' = apart
  /\ UNCHANGED <<inc, saved, connected, enabled, servers, proc, persisted, rpcs, told>>

Apart(p, q) == {{i, j} : i \in p, j \in q}
Joined(i) == {e \in split : i \notin e}

ShutdownServer(i) == proc[i] = "up" /\ Begin(ShutdownSteps(i), split)
StartServer(i) == proc[i] = "down" /\ inc[i] < MaxStarts /\ Begin(StartSteps(i), split)
ConnectOne(i) == proc[i] = "up" /\ Begin(<<Connect(i, Servers)>>, Joined(i))
DisconnectAll(i) == proc[i] = "up" /\ Begin(<<Disconnect(i, Servers)>>, split)
\* The tests partition a group only while all its servers run.
Partition(p) ==
  /\ \A i \in Servers : proc[i] = "up"
  /\ LET q == Servers \ p
     IN  \E ps \in Slices(p), qs \in Slices(q) :
           Begin(SideSteps(ps, p, q) \o SideSteps(qs, q, p), Apart(p, q))

(***************************************************************************)
(* The tester's steps.                                                     *)
(***************************************************************************)
At(op) == todo # << >> /\ Head(todo).do = op
Advance == todo' = Tail(todo)
\* srvs[i].endNames to and from the servers of S.
EndsBetween(i, S) == {EndOf(i, j) : j \in S} \cup {EndOf(j, i) : j \in S}

\* Mutant: ends are enabled whether or not the other server is on the net.
connectBlind(i, to) ==
  /\ connected' = [connected EXCEPT ![i] = TRUE]
  /\ enabled' = enabled \cup EndsBetween(i, to)

connect(i, to) ==
  /\ connected' = [connected EXCEPT ![i] = TRUE]
  /\ enabled' = enabled \cup EndsBetween(i, {j \in to : connected'[j]})

disconnect(i, from) ==
  /\ connected' = [connected EXCEPT ![i] = FALSE]
  /\ enabled' = enabled \ EndsBetween(i, from)

DisconnectStep ==
  /\ At("disconnect")
  /\ disconnect(Head(todo).srv, Head(todo).peers)
  /\ Advance
  /\ UNCHANGED <<inc, saved, servers, split, proc, persisted, rpcs, told>>

ConnectStep ==
  /\ At("connect")
  /\ connect(Head(todo).srv, Head(todo).peers)
  /\ Advance
  /\ UNCHANGED <<inc, saved, servers, split, proc, persisted, rpcs, told>>

DeleteServer ==
  /\ At("DeleteServer")
  /\ servers' = [servers EXCEPT ![Head(todo).srv] = 0]
  /\ Advance
  /\ UNCHANGED <<inc, saved, connected, enabled, split, proc, persisted, rpcs, told>>

\* CheckpointPersister closes rpcc and the listener of rpcs.  The connection
\* that carries the tester's requests has been accepted before: it stays.
CloseSockets ==
  /\ At("close")
  /\ proc' = [proc EXCEPT ![Head(todo).srv] = "closed"]
  /\ Advance
  /\ UNCHANGED <<inc, saved, connected, enabled, servers, split, persisted, rpcs, told>>

\* ... and copies the persister, which becomes Server.saved.
Checkpoint ==
  /\ At("Checkpoint")
  /\ LET i == Head(todo).srv
     IN  /\ saved' = [saved EXCEPT ![i] = persisted[i]]
         /\ proc' = [proc EXCEPT ![i] = "copied"]
  /\ Advance
  /\ UNCHANGED <<inc, connected, enabled, servers, split, persisted, rpcs, told>>

\* The connection breaks: forward returns false for the handlers it carried.
Kill ==
  /\ At("kill")
  /\ LET i == Head(todo).srv
         Cut(r) == IF r.end.to # i \/ r.h \notin {"running", "executed"} THEN r
                   ELSE IF r.st = "waiting" THEN [r EXCEPT !.h = "lost"]
                   ELSE IF r.st = "idle" THEN NoRpc ELSE [r EXCEPT !.h = "none"]
     IN  /\ proc' = [proc EXCEPT ![i] = "down"]
         /\ persisted' = [persisted EXCEPT ![i] = 0]
         /\ rpcs' = [s \in Slots |-> Cut(rpcs[s])]
  /\ Advance
  /\ UNCHANGED <<inc, saved, connected, enabled, servers, split, told>>

Restored(i) == saved[i]

\* A new Server object with fresh, disabled ends, and a new process.
RunDaemon ==
  /\ At("runDaemon")
  /\ LET i == Head(todo).srv
     IN  /\ inc' = [inc EXCEPT ![i] = @ + 1]
         /\ proc' = [proc EXCEPT ![i] = "starting"]
  /\ Advance
  /\ UNCHANGED <<saved, connected, enabled, servers, split, persisted, rpcs, told>>

\* The Init RPC fills the persister, and InitDaemon starts the application.
InitDaemon ==
  /\ At("init")
  /\ LET i == Head(todo).srv
     IN  /\ proc' = [proc EXCEPT ![i] = "up"]
         /\ persisted' = [persisted EXCEPT ![i] = Restored(i)]
  /\ Advance
  /\ UNCHANGED <<inc, saved, connected, enabled, servers, split, rpcs, told>>

AddServer ==
  /\ At("AddServer")
  /\ servers' = [servers EXCEPT ![Head(todo).srv] = inc[Head(todo).srv]]
  /\ Advance
  /\ UNCHANGED <<inc, saved, connected, enabled, split, proc, persisted, rpcs, told>>

TesterStep ==
  \/ DisconnectStep \/ ConnectStep \/ DeleteServer \/ CloseSockets \/ Checkpoint
  \/ Kill \/ RunDaemon \/ InitDaemon \/ AddServer

(***************************************************************************)
(* The daemons: applications save state, call, and serve calls.            *)
(***************************************************************************)
Alive(i) == proc[i] \in {"up", "closed", "copied"}

Save(i) ==
  /\ Alive(i) /\ persisted[i] < MaxSaves
  /\ persisted' = [persisted EXCEPT ![i] = @ + 1]
  /\ UNCHANGED <<tester, proc, rpcs, told>>

\* A Clerk calls from the tester's process, a daemon through rpcc.
CanCall(p) == p \in Servers => proc[p] = "up"

Call(s, p, j) ==
  /\ rpcs[s] = NoRpc /\ CanCall(p) /\ p # j
  /\ SetRpc(s, [NoRpc EXCEPT !.st = "sent", !.end = EndOf(p, j),
                             !.val = IF p \in Servers THEN persisted[p] ELSE 0])
  /\ UNCHANGED <<tester, proc, persisted, told>>

\* Some other party now knows that p had saved v.
Learn(p, v) ==
  told' = IF p \in Servers THEN [told EXCEPT ![p] = Larger(@, v)] ELSE told

\* The handler runs, and saves what it changes before it returns.
Execute(s) ==
  LET r == rpcs[s]
      j == r.end.to
  IN  /\ r.h = "running"
      /\ \E more \in {0, 1} :
           /\ persisted[j] + more <= MaxSaves
           /\ persisted' = [persisted EXCEPT ![j] = @ + more]
           /\ SetRpc(s, [r EXCEPT !.h = "executed", !.rep = persisted[j] + more])
      /\ Learn(r.end.from, r.val)
      /\ UNCHANGED <<tester, proc>>

\* The reply reaches the tester, which may have given the call up by now.
Answer(s) ==
  LET r == rpcs[s]
  IN  /\ r.h = "executed"
      /\ SetRpc(s, [r EXCEPT !.h = IF r.st = "waiting" THEN "answered" ELSE "none"])
      /\ UNCHANGED <<tester, proc, persisted, told>>

(***************************************************************************)
(* Network.processReq.                                                     *)
(***************************************************************************)
Accept(s) ==
  LET r == rpcs[s]
      srv == servers[r.end.to]
  IN  /\ r.st = "sent"
      /\ SetRpc(s, IF r.end \in enabled /\ srv # 0
                   THEN [r EXCEPT !.st = "accepted", !.srv = srv]
                   ELSE [r EXCEPT !.st = "failed"])
      /\ UNCHANGED <<tester, proc, persisted, told>>

DropRequest(s) ==
  /\ ~Reliable /\ rpcs[s].st = "accepted"
  /\ SetRpc(s, [rpcs[s] EXCEPT !.st = "failed"])
  /\ UNCHANGED <<tester, proc, persisted, told>>

\* dc.forward, at once false when the process it leads to is gone.
Dispatch(s) ==
  LET r == rpcs[s]
      there == r.srv = inc[r.end.to] /\ Alive(r.end.to)
  IN  /\ r.st = "accepted"
      /\ SetRpc(s, [r EXCEPT !.st = "waiting", !.h = IF there THEN "running" ELSE "lost"])
      /\ UNCHANGED <<tester, proc, persisted, told>>

isServerDead(r) == r.end \notin enabled \/ servers[r.end.to] # r.srv

\* Mutant: processReq waits for the handler however long it takes.
GiveUpNever(s) == FALSE /\ UNCHANGED vars

\* Every 100 ms: stop waiting for the handler, which runs on unheard.
GiveUp(s) ==
  LET r == rpcs[s]
  IN  /\ r.st = "waiting" /\ isServerDead(r)
      /\ SetRpc(s, [r EXCEPT !.st = "failed",
                             !.h = IF @ \in {"answered", "lost"} THEN "none" ELSE @])
      /\ UNCHANGED <<tester, proc, persisted, told>>

\* The handler has returned: drop its reply, or send it, perhaps delayed.
Check(s) ==
  LET r == rpcs[s]
  IN  /\ r.st = "waiting" /\ r.h \in {"answered", "lost"}
      /\ \E st \in (IF isServerDead(r) \/ r.h = "lost" THEN {"failed"}
                    ELSE IF Reliable THEN {"checked"} ELSE {"checked", "failed"}) :
           SetRpc(s, [r EXCEPT !.st = st, !.h = "none"])
      /\ UNCHANGED <<tester, proc, persisted, told>>

\* Call returns to a Clerk, or to the process that made it if rpcc is open.
Return(s) ==
  LET r == rpcs[s]
      p == r.end.from
      heard == r.st = "checked" /\ r.end.inc = Incarnation(p) /\ CanCall(p)
  IN  /\ r.st \in {"checked", "failed"}
      /\ IF heard THEN Learn(r.end.to, r.rep) ELSE UNCHANGED told
      /\ SetRpc(s, [r EXCEPT !.st = "idle"])
      /\ UNCHANGED <<tester, proc, persisted>>

Network(s) == Accept(s) \/ DropRequest(s) \/ Dispatch(s) \/ GiveUp(s) \/ Check(s) \/ Return(s)

Next ==
  \/ \E i \in Servers :
       \/ ShutdownServer(i) \/ StartServer(i) \/ ConnectOne(i) \/ DisconnectAll(i)
       \/ Save(i)
  \/ \E p \in SUBSET Servers : Partition(p)
  \/ TesterStep
  \/ \E s \in Slots :
       \/ \E p \in Callers, j \in Servers : Call(s, p, j)
       \/ Execute(s) \/ Answer(s) \/ Network(s)

Spec == Init /\ [][Next]_vars

\* The tester's thread and the goroutines of processReq run.  Handlers need
\* not return, and applications need not call.
FairSpec ==
  /\ Spec
  /\ WF_vars(TesterStep)
  /\ \A s \in Slots : WF_vars(Network(s))

(***************************************************************************)
(* Properties.                                                             *)
(***************************************************************************)
\* What a restart of server i would start from.
Durable(i) == IF proc[i] \in {"up", "closed"} THEN persisted[i] ELSE saved[i]

\* Nothing a server let another server or a Clerk know is lost when the
\* server is shut down and restarted: ShutdownServer takes the server off the
\* network before CheckpointPersister copies the persister, and processReq
\* passes no reply on if its update went "into the old Persister".
KnownIsDurable == \A i \in Servers : told[i] <= Durable(i)

\* Between the tester's operations, the end from i to j is enabled exactly
\* when both are connected, and no Partition that neither side has been
\* reconnected after keeps them apart (connect, disconnect, Partition).
LinksMatchConnected ==
  todo = << >> =>
    \A i, j \in Servers :
      EndOf(i, j) \in enabled <=> connected[i] /\ connected[j] /\ {i, j} \notin split

Pending(s) == rpcs[s].st # "idle"
HandlerHangs(s) ==
  rpcs[s].st = "waiting" /\ rpcs[s].h \in {"running", "executed"} /\ ~isServerDead(rpcs[s])

\* Call returns, whatever is disconnected, shut down or restarted meanwhile,
\* "except if the handler function on the server side does not return" (and
\* the server stays reachable).
ForwardsReturn == \A s \in Slots : [](Pending(s) => <>~Pending(s) \/ []<>HandlerHangs(s))

=============================================================================
