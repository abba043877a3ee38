--------------------------- MODULE ServerGroupProofs ---------------------------
(***************************************************************************)
(* Proofs about ServerGroup: what a server has let others know survives    *)
(* its restarts, and the ends of the network match what the tester has     *)
(* connected.  For any numbers of servers, Clerks, RPCs, starts and saves. *)
(***************************************************************************)
EXTENDS ServerGroup, TLAPS

USE Zenon

(***************************************************************************)
(* The inductive invariant.                                                *)
(***************************************************************************)
Typed ==
  /\ todo \in Seq(Step)
  /\ inc \in [Servers -> Nat \ {0}]
  /\ proc \in [Servers -> {"starting", "up", "closed", "copied", "down"}]
  /\ persisted \in [Servers -> Nat]
  /\ saved \in [Servers -> Nat]
  /\ connected \in [Servers -> BOOLEAN]
  /\ servers \in [Servers -> Nat]
  /\ rpcs \in [Slots -> Rpc]
  /\ told \in [Servers -> Nat]

\* A server no operation of the tester is busy with.
Settled(i) ==
  \/ proc[i] = "up" /\ servers[i] = inc[i]
  \/ proc[i] = "down" /\ servers[i] = 0 /\ ~connected[i]

Linked(i, j) == EndOf(i, j) \in enabled
LinksOK(S) ==
  \A i, j \in S : Linked(i, j) <=> connected[i] /\ connected[j] /\ {i, j} \notin split

\* The k-th step from here on is op of server i.
Will(k, op, i) == todo[k].do = op /\ todo[k].srv = i

\* The tester is in the middle of ShutdownServer or StartServer of i: the
\* steps left, the state of the process, and the registered server.
Stage(i, ops, state, srv) ==
  /\ Len(todo) = Len(ops) /\ \A k \in 1..Len(ops) : Will(k, ops[k], i)
  /\ proc[i] = state /\ servers[i] = srv

Off(i) == ~connected[i]

Working(i) ==
  /\ \A j \in Servers \ {i} : Settled(j)
  /\ LinksOK(Servers)
  /\ \/ Stage(i, <<"disconnect", "DeleteServer", "close", "Checkpoint", "kill">>, "up", inc[i])
        /\ todo[1].peers = Servers
     \/ Off(i) /\ Stage(i, <<"DeleteServer", "close", "Checkpoint", "kill">>, "up", inc[i])
     \/ Off(i) /\ Stage(i, <<"close", "Checkpoint", "kill">>, "up", 0)
     \/ Off(i) /\ Stage(i, <<"Checkpoint", "kill">>, "closed", 0)
     \/ Off(i) /\ Stage(i, <<"kill">>, "copied", 0)
     \/ Off(i) /\ Stage(i, <<"runDaemon", "init", "AddServer">>, "down", 0)
     \/ Off(i) /\ Stage(i, <<"init", "AddServer">>, "starting", 0)
     \/ Off(i) /\ Stage(i, <<"AddServer">>, "up", 0)

Quiet == todo = << >> /\ LinksOK(Servers)

Disconnecting(i) ==
  /\ Len(todo) = 1 /\ Will(1, "disconnect", i) /\ todo[1].peers = Servers
  /\ LinksOK(Servers)

Connecting(i) ==
  /\ Len(todo) = 1 /\ Will(1, "connect", i) /\ todo[1].peers = Servers
  /\ proc[i] = "up"
  /\ LinksOK(Servers \ {i})
  /\ \A e \in split : i \notin e
  /\ \A j \in Servers : Linked(i, j) \/ Linked(j, i) => connected[j]

\* Partition into p and the others, when the servers of D have been through.
Side(p, i) == IF i \in p THEN p ELSE Servers \ p
Across(p, i) == Servers \ Side(p, i)
Cut(p, i) == \A j \in Across(p, i) : ~Linked(i, j) /\ ~Linked(j, i)

\* Each server is disconnected before it is connected, and that once.
Ordered(T) ==
  \A k, l \in 1..Len(T) :
    k < l /\ T[k].srv = T[l].srv => T[k].do = "disconnect" /\ T[l].do = "connect"

Planned(p, D) ==
  /\ \A k \in 1..Len(todo) :
       \/ todo[k].do = "disconnect" /\ todo[k].peers = Across(p, todo[k].srv)
       \/ todo[k].do = "connect" /\ todo[k].peers = Side(p, todo[k].srv)
  /\ Ordered(todo)
  /\ \A k \in 1..Len(todo) : todo[k].srv \notin D
  /\ \A i \in Servers \ D : \E k \in 1..Len(todo) :
       Will(k, "connect", i) /\ (Cut(p, i) \/ \E l \in 1..(k - 1) : Will(l, "disconnect", i))

Parting(p, D) ==
  /\ \A i \in Servers : proc[i] = "up"
  /\ split = {{i, j} : i \in p, j \in Servers \ p}
  /\ Planned(p, D)
  /\ \A i \in D : connected[i] /\ Cut(p, i)
  /\ \A i, j \in D : Side(p, i) = Side(p, j) => Linked(i, j)

TesterInv ==
  /\ \A e \in enabled : e.from \in Servers => e.inc \in 1..inc[e.from]
  /\ \/ /\ \A i \in Servers : Settled(i)
        /\ \/ Quiet
           \/ \E i \in Servers : Disconnecting(i) \/ Connecting(i)
           \/ \E p, D \in SUBSET Servers : Parting(p, D)
     \/ \E i \in Servers : Working(i)

\* The process that serves r has been checkpointed.
Gone(r) ==
  \/ r.srv < inc[r.end.to]
  \/ r.srv = inc[r.end.to] /\ proc[r.end.to] \in {"copied", "down"}

RpcOK(r) ==
  /\ r.end.from \in Servers => r.val <= Durable(r.end.from)
  /\ r.st \in {"sent", "accepted", "checked"} => r.h = "none"
  /\ r.st \in {"accepted", "waiting"} => r.srv \in 1..inc[r.end.to]
  /\ r.h \in {"running", "executed"} => Alive(r.end.to) /\ r.srv = inc[r.end.to]
  /\ r.h \in {"executed", "answered"} => r.rep <= Durable(r.end.to) \/ Gone(r)
  /\ r.st = "checked" => r.rep <= Durable(r.end.to)

RpcInv == \A s \in Slots : RpcOK(rpcs[s])

IInv == Typed /\ TesterInv /\ RpcInv /\ KnownIsDurable

(***************************************************************************)
(* Types.                                                                  *)
(***************************************************************************)
LEMMA NoEndType == NoEnd \in End /\ NoEnd.from \in Servers /\ NoEnd.to \in Servers
<1>1. PICK i : i \in Servers
  BY ServerGroupAssumption
<1>2. [from |-> i, inc |-> 0, to |-> i] \in [from : Servers, inc : {0}, to : Servers]
  BY <1>1
<1>3. NoEnd \in [from : Servers, inc : {0}, to : Servers]
  BY <1>2 DEF NoEnd
<1> QED BY <1>3, SMT DEF End, Callers

LEMMA NoRpcFacts ==
  /\ NoRpc \in Rpc /\ NoRpc.st = "idle" /\ NoRpc.h = "none" /\ NoRpc.end = NoEnd
  /\ NoRpc.srv = 0 /\ NoRpc.val = 0 /\ NoRpc.rep = 0
BY NoEndType DEF NoRpc, Rpc

\* The fields of an RPC, and what each has to be.
LEMMA RpcFields ==
  ASSUME NEW r \in Rpc
  PROVE  /\ r.st \in {"idle", "sent", "accepted", "waiting", "checked", "failed"}
         /\ r.h \in {"none", "running", "executed", "answered", "lost"}
         /\ r.end \in End /\ r.srv \in Nat /\ r.val \in Nat /\ r.rep \in Nat
         /\ r.end.from \in Callers /\ r.end.inc \in Nat /\ r.end.to \in Servers
BY DEF Rpc, End

LEMMA StepFields ==
  ASSUME NEW x \in Step
  PROVE  /\ x.do \in {"disconnect", "connect", "DeleteServer", "close", "Checkpoint", "kill",
                      "runDaemon", "init", "AddServer"}
         /\ x.srv \in Servers /\ x.peers \in SUBSET Servers
BY DEF Step

LEMMA EndOfFacts ==
  ASSUME Typed, NEW p \in Callers, NEW j \in Servers
  PROVE  /\ EndOf(p, j) \in End /\ EndOf(p, j).from = p /\ EndOf(p, j).inc = Incarnation(p)
         /\ EndOf(p, j).to = j
BY DEF Typed, EndOf, Incarnation, End, Callers

\* What is left of the operation after its next step.
LEMMA TodoTail ==
  ASSUME Typed, todo # << >>
  PROVE  /\ Head(todo) = todo[1] /\ todo[1] \in Step /\ Len(todo) \in Nat \ {0}
         /\ Tail(todo) \in Seq(Step) /\ Len(Tail(todo)) = Len(todo) - 1
         /\ \A k \in 1..Len(Tail(todo)) : Tail(todo)[k] = todo[k + 1]
BY SMT DEF Typed

LEMMA DurableType ==
  ASSUME Typed, NEW i \in Servers
  PROVE  Durable(i) \in Nat
BY DEF Typed, Durable

(***************************************************************************)
(* A slice enumerates a side, and SideSteps takes each of a side apart from*)
(* the other side, then to its own.                                        *)
(***************************************************************************)
LEMMA Enumerated ==
  ASSUME NEW p \in SUBSET Servers, NEW ps \in Slices(p)
  PROVE  /\ Len(ps) \in Nat /\ ps \in Seq(p)
         /\ \A i \in p : \E m \in 1..Len(ps) : ps[m] = i
         /\ \A m, n \in 1..Len(ps) : ps[m] = ps[n] => m = n
<1>1. PICK n \in 0..Cardinality(Servers) : ps \in [1..n -> p]
  BY SMT DEF Slices
<1>2. n \in Nat
  BY ServerGroupAssumption, SMT
<1>3. ps \in Seq(p) /\ Len(ps) = n /\ DOMAIN ps = 1..n
  BY <1>1, <1>2, SMT
<1> QED BY <1>2, <1>3 DEF Slices

\* Each server of ps in turn is disconnected from q and connected to p.
Doubled(S, ps, p, q) ==
  /\ S \in Seq(Step) /\ Len(S) = 2 * Len(ps)
  /\ \A m \in 1..Len(ps) : S[2 * m - 1] = Disconnect(ps[m], q) /\ S[2 * m] = Connect(ps[m], p)
  /\ \A k \in 1..Len(S) : \E m \in 1..Len(ps) : k = 2 * m - 1 \/ k = 2 * m

LEMMA SideStepsAt ==
  ASSUME NEW p \in SUBSET Servers, NEW q \in SUBSET Servers, NEW ps \in Slices(p),
         NEW S, S = SideSteps(ps, p, q)
  PROVE  Doubled(S, ps, p, q)
<1>0. /\ Len(ps) \in Nat /\ \A m \in 1..Len(ps) : ps[m] \in Servers
      /\ 2 * Len(ps) \in Nat
  BY Enumerated, SMT
<1>1. \A k \in 1..(2 * Len(ps)) : \E m \in 1..Len(ps) : k = 2 * m - 1 \/ k = 2 * m
  <2> SUFFICES ASSUME NEW k \in 1..(2 * Len(ps))
               PROVE  \E m \in 1..Len(ps) : k = 2 * m - 1 \/ k = 2 * m
    OBVIOUS
  <2>1. CASE k % 2 = 1
    <3>1. (k + 1) \div 2 \in 1..Len(ps) /\ k = 2 * ((k + 1) \div 2) - 1
      BY <1>0, <2>1, SMT
    <3> QED BY <3>1
  <2>2. CASE k % 2 = 0
    <3>1. k \div 2 \in 1..Len(ps) /\ k = 2 * (k \div 2)
      BY <1>0, <2>2, SMT
    <3> QED BY <3>1
  <2> QED BY <1>0, <2>1, <2>2, SMT
<1> DEFINE F == [k \in 1..(2 * Len(ps)) |-> IF k % 2 = 1 THEN Disconnect(ps[(k + 1) \div 2], q)
                                                         ELSE Connect(ps[k \div 2], p)]
<1>2. S = F
  BY DEF SideSteps
<1>3. \A m \in 1..Len(ps) : F[2 * m - 1] = Disconnect(ps[m], q) /\ F[2 * m] = Connect(ps[m], p)
  <2> SUFFICES ASSUME NEW m \in 1..Len(ps)
               PROVE  F[2 * m - 1] = Disconnect(ps[m], q) /\ F[2 * m] = Connect(ps[m], p)
    OBVIOUS
  <2>1. /\ 2 * m - 1 \in 1..(2 * Len(ps)) /\ (2 * m - 1) % 2 = 1 /\ (2 * m - 1 + 1) \div 2 = m
        /\ 2 * m \in 1..(2 * Len(ps)) /\ (2 * m) % 2 = 0 /\ (2 * m) \div 2 = m
    BY <1>0, SMT
  <2> QED BY <2>1, SMT
<1>4. \A k \in 1..(2 * Len(ps)) : F[k] \in Step
  <2> SUFFICES ASSUME NEW k \in 1..(2 * Len(ps))
               PROVE  F[k] \in Step
    OBVIOUS
  <2> HIDE DEF F
  <2>1. PICK m \in 1..Len(ps) : k = 2 * m - 1 \/ k = 2 * m
    BY <1>1
  <2>2. F[k] = Disconnect(ps[m], q) \/ F[k] = Connect(ps[m], p)
    BY <1>3, <2>1
  <2> QED BY <1>0, <2>2, SMT DEF Disconnect, Connect, Step
<1>5. F \in Seq(Step) /\ Len(F) = 2 * Len(ps)
  BY <1>0, <1>4, SMT
<1> HIDE DEF F
<1> QED BY <1>1, <1>2, <1>3, <1>5, SMT DEF Doubled

\* A list of steps that has p leave q, in the order of one loop of Partition.
Parts(T, p, q) ==
  \A k \in 1..Len(T) : /\ T[k].srv \in p
                        /\ \/ T[k].do = "disconnect" /\ T[k].peers = q
                           \/ T[k].do = "connect" /\ T[k].peers = p
Covers(T, P) ==
  \A i \in P : \E k, l \in 1..Len(T) : /\ l < k /\ T[l].do = "disconnect" /\ T[l].srv = i
                                       /\ T[k].do = "connect" /\ T[k].srv = i

\* Every server of p is first taken from q, and later joined to p.
LEMMA SideStepsPlan ==
  ASSUME NEW p \in SUBSET Servers, NEW q \in SUBSET Servers, NEW ps \in Slices(p),
         NEW S, S = SideSteps(ps, p, q)
  PROVE  /\ S \in Seq(Step)
         /\ Parts(S, p, q) /\ Ordered(S) /\ Covers(S, p)
<1>0. /\ Len(ps) \in Nat /\ \A m \in 1..Len(ps) : ps[m] \in p
      /\ \A i \in p : \E m \in 1..Len(ps) : ps[m] = i
      /\ \A m, n \in 1..Len(ps) : ps[m] = ps[n] => m = n
  BY Enumerated, SMT
<1>1. /\ S \in Seq(Step) /\ Len(S) = 2 * Len(ps)
      /\ \A m \in 1..Len(ps) : S[2 * m - 1] = Disconnect(ps[m], q) /\ S[2 * m] = Connect(ps[m], p)
      /\ \A k \in 1..Len(S) : \E m \in 1..Len(ps) : k = 2 * m - 1 \/ k = 2 * m
  <2>1. Doubled(S, ps, p, q)
    BY SideStepsAt
  <2> QED BY <2>1 DEF Doubled
<1>2. \A m \in 1..Len(ps) :
        /\ S[2 * m - 1].do = "disconnect" /\ S[2 * m - 1].srv = ps[m] /\ S[2 * m - 1].peers = q
        /\ S[2 * m].do = "connect" /\ S[2 * m].srv = ps[m] /\ S[2 * m].peers = p
  <2> SUFFICES ASSUME NEW m \in 1..Len(ps)
               PROVE  /\ S[2 * m - 1].do = "disconnect" /\ S[2 * m - 1].srv = ps[m] /\ S[2 * m - 1].peers = q
                      /\ S[2 * m].do = "connect" /\ S[2 * m].srv = ps[m] /\ S[2 * m].peers = p
    OBVIOUS
  <2>1. PICK x : x = S[2 * m - 1]
    OBVIOUS
  <2>2. PICK y : y = S[2 * m]
    OBVIOUS
  <2>3. x = Disconnect(ps[m], q) /\ y = Connect(ps[m], p)
    BY <1>1, <2>1, <2>2
  <2>4. /\ x.do = "disconnect" /\ x.srv = ps[m] /\ x.peers = q
        /\ y.do = "connect" /\ y.srv = ps[m] /\ y.peers = p
    BY <2>3 DEF Disconnect, Connect
  <2> QED BY <2>1, <2>2, <2>4
<1>3. \A k \in 1..Len(S) : /\ S[k].srv \in p
                           /\ \/ S[k].do = "disconnect" /\ S[k].peers = q
                              \/ S[k].do = "connect" /\ S[k].peers = p
  <2> SUFFICES ASSUME NEW k \in 1..Len(S)
               PROVE  /\ S[k].srv \in p
                      /\ \/ S[k].do = "disconnect" /\ S[k].peers = q
                         \/ S[k].do = "connect" /\ S[k].peers = p
    OBVIOUS
  <2>1. PICK m \in 1..Len(ps) : k = 2 * m - 1 \/ k = 2 * m
    BY <1>1
  <2>2. CASE k = 2 * m - 1
    BY <1>0, <1>2, <2>2
  <2>3. CASE k = 2 * m
    BY <1>0, <1>2, <2>3
  <2> QED BY <2>1, <2>2, <2>3
<1>4. ASSUME NEW k \in 1..Len(S), NEW l \in 1..Len(S), k < l, S[k].srv = S[l].srv
      PROVE  S[k].do = "disconnect" /\ S[l].do = "connect"
  <2>1. PICK m \in 1..Len(ps) : k = 2 * m - 1 \/ k = 2 * m
    BY <1>1
  <2>2. PICK n \in 1..Len(ps) : l = 2 * n - 1 \/ l = 2 * n
    BY <1>1
  <2>a. S[k].srv = ps[m]
    <3>1. CASE k = 2 * m - 1
      BY <1>2, <3>1
    <3>2. CASE k = 2 * m
      BY <1>2, <3>2
    <3> QED BY <2>1, <3>1, <3>2
  <2>b. S[l].srv = ps[n]
    <3>1. CASE l = 2 * n - 1
      BY <1>2, <3>1
    <3>2. CASE l = 2 * n
      BY <1>2, <3>2
    <3> QED BY <2>2, <3>1, <3>2
  <2>3. ps[m] = ps[n]
    BY <1>4, <2>a, <2>b
  <2>4. m = n
    BY <1>0, <2>3
  <2>5. k = 2 * m - 1 /\ l = 2 * m
    BY <1>0, <1>4, <2>1, <2>2, <2>4, SMT
  <2> QED BY <1>2, <2>5
<1>5. ASSUME NEW i \in p
      PROVE  \E k, l \in 1..Len(S) : /\ l < k /\ S[l].do = "disconnect" /\ S[l].srv = i
                                     /\ S[k].do = "connect" /\ S[k].srv = i
  <2>1. PICK m \in 1..Len(ps) : ps[m] = i
    BY <1>0
  <2>2. 2 * m - 1 \in 1..Len(S) /\ 2 * m \in 1..Len(S) /\ 2 * m - 1 < 2 * m
    BY <1>0, <1>1, SMT
  <2> QED BY <1>2, <2>1, <2>2
<1>6. Parts(S, p, q)
  BY <1>3 DEF Parts
<1>7. Ordered(S)
  BY <1>4 DEF Ordered
<1>8. Covers(S, p)
  BY <1>5 DEF Covers
<1> QED BY <1>1, <1>6, <1>7, <1>8

LEMMA Joined2 ==
  ASSUME NEW S \in Seq(Step), NEW R \in Seq(Step), NEW T, T = S \o R
  PROVE  /\ T \in Seq(Step) /\ Len(S) \in Nat /\ Len(R) \in Nat /\ Len(T) = Len(S) + Len(R)
         /\ \A k \in 1..Len(S) : T[k] = S[k]
         /\ \A k \in 1..Len(R) : T[k + Len(S)] = R[k]
<1>1. T \in Seq(Step) /\ Len(S) \in Nat /\ Len(R) \in Nat /\ Len(T) = Len(S) + Len(R)
  BY SMT
<1>2. ASSUME NEW k \in 1..Len(S)
      PROVE  T[k] = S[k]
  BY SMT
<1>3. ASSUME NEW k \in 1..Len(R)
      PROVE  T[k + Len(S)] = R[k]
  <2>1. k + Len(S) \in 1..Len(T) /\ ~(k + Len(S) <= Len(S)) /\ (k + Len(S)) - Len(S) = k
    BY <1>1, SMT
  <2>2. T[k + Len(S)] = R[(k + Len(S)) - Len(S)]
    BY <2>1, SMT
  <2> QED BY <2>1, <2>2
<1> QED BY <1>1, <1>2, <1>3

\* What Partition(p) puts into todo.
Schedule(T, p) ==
  /\ T \in Seq(Step)
  /\ \A k \in 1..Len(T) : \/ T[k].do = "disconnect" /\ T[k].peers = Across(p, T[k].srv)
                          \/ T[k].do = "connect" /\ T[k].peers = Side(p, T[k].srv)
  /\ Ordered(T) /\ Covers(T, Servers)

LEMMA TwoSides ==
  ASSUME NEW p \in SUBSET Servers, NEW q, q = Servers \ p,
         NEW S \in Seq(Step), Parts(S, p, q), Ordered(S), Covers(S, p),
         NEW R \in Seq(Step), Parts(R, q, p), Ordered(R), Covers(R, q),
         NEW T, T = S \o R
  PROVE  Schedule(T, p)
<1>q. q \in SUBSET Servers /\ p \cap q = {} /\ Servers \ q = p /\ p \cup q = Servers
  OBVIOUS
<1>3. Parts(S, p, q) /\ Ordered(S) /\ Covers(S, p)
  OBVIOUS
<1>4. Parts(R, q, p) /\ Ordered(R) /\ Covers(R, q)
  OBVIOUS
<1>6. /\ T \in Seq(Step) /\ Len(S) \in Nat /\ Len(R) \in Nat /\ Len(T) = Len(S) + Len(R)
      /\ \A k \in 1..Len(S) : T[k] = S[k]
      /\ \A k \in 1..Len(R) : T[k + Len(S)] = R[k]
  BY Joined2, SMT
<1>a. Len(S) \in Nat /\ Len(R) \in Nat /\ Len(T) = Len(S) + Len(R)
  BY <1>6
<1>7. \A k \in 1..Len(T) : \/ k \in 1..Len(S) /\ T[k] = S[k]
                           \/ \E m \in 1..Len(R) : k = m + Len(S) /\ T[k] = R[m]
  <2> SUFFICES ASSUME NEW k \in 1..Len(T), ~(k \in 1..Len(S))
               PROVE  \E m \in 1..Len(R) : k = m + Len(S) /\ T[k] = R[m]
    BY <1>6
  <2>1. k - Len(S) \in 1..Len(R) /\ k = (k - Len(S)) + Len(S)
    BY <1>6, SMT
  <2> QED BY <1>6, <2>1
<1>8. ASSUME NEW k \in 1..Len(T)
      PROVE  \/ T[k].do = "disconnect" /\ T[k].peers = Across(p, T[k].srv)
             \/ T[k].do = "connect" /\ T[k].peers = Side(p, T[k].srv)
  <2>1. CASE k \in 1..Len(S) /\ T[k] = S[k]
    <3>1. Side(p, S[k].srv) = p /\ Across(p, S[k].srv) = q
      BY <1>3, <2>1 DEF Side, Across, Parts
    <3> QED BY <1>3, <2>1, <3>1 DEF Parts
  <2>2. ASSUME NEW m \in 1..Len(R), T[k] = R[m]
        PROVE  \/ T[k].do = "disconnect" /\ T[k].peers = Across(p, T[k].srv)
               \/ T[k].do = "connect" /\ T[k].peers = Side(p, T[k].srv)
    <3>1. Side(p, R[m].srv) = q /\ Across(p, R[m].srv) = p
      BY <1>4, <1>q DEF Side, Across, Parts
    <3> QED BY <1>4, <2>2, <3>1, SMT DEF Parts
  <2> QED BY <1>7, <2>1, <2>2
<1>9. ASSUME NEW k \in 1..Len(T), NEW l \in 1..Len(T), k < l, T[k].srv = T[l].srv
      PROVE  T[k].do = "disconnect" /\ T[l].do = "connect"
  <2>1. CASE l \in 1..Len(S)
    <3>1. k \in 1..Len(S)
      BY <1>6, <1>9, <2>1, SMT
    <3>2. T[k] = S[k] /\ T[l] = S[l]
      BY <1>6, <2>1, <3>1
    <3> QED BY <1>3, <1>9, <2>1, <3>1, <3>2, SMT DEF Ordered
  <2>2. CASE l \notin 1..Len(S)
    <3>1. PICK n \in 1..Len(R) : l = n + Len(S) /\ T[l] = R[n]
      BY <1>7, <2>2
    <3>2. k \notin 1..Len(S)
      <4>1. T[l].srv \in q
        BY <1>4, <3>1 DEF Parts
      <4>2. k \in 1..Len(S) => T[k].srv \in p
        BY <1>3, <1>6 DEF Parts
      <4> QED BY <1>9, <1>q, <4>1, <4>2
    <3>3. PICK m \in 1..Len(R) : k = m + Len(S) /\ T[k] = R[m]
      BY <1>7, <3>2
    <3>4. m < n
      BY <1>6, <1>9, <3>1, <3>3, SMT
    <3>5. R[m].srv = R[n].srv
      BY <1>9, <3>1, <3>3
    <3> QED BY <1>4, <3>1, <3>3, <3>4, <3>5, SMT DEF Ordered
  <2> QED BY <2>1, <2>2
<1>10. ASSUME NEW i \in Servers
       PROVE  \E k, l \in 1..Len(T) : /\ l < k /\ T[l].do = "disconnect" /\ T[l].srv = i
                                      /\ T[k].do = "connect" /\ T[k].srv = i
  <2>1. CASE i \in p
    <3>1. PICK k \in 1..Len(S), l \in 1..Len(S) : /\ l < k /\ S[l].do = "disconnect" /\ S[l].srv = i
                                                  /\ S[k].do = "connect" /\ S[k].srv = i
      BY <1>3, <2>1 DEF Covers
    <3>2. k \in 1..Len(T) /\ l \in 1..Len(T)
      BY <1>a, SMT
    <3>3. T[k] = S[k] /\ T[l] = S[l]
      BY <1>6
    <3> QED BY <3>1, <3>2, <3>3
  <2>2. CASE i \in q
    <3>1. PICK k \in 1..Len(R), l \in 1..Len(R) : /\ l < k /\ R[l].do = "disconnect" /\ R[l].srv = i
                                                  /\ R[k].do = "connect" /\ R[k].srv = i
      BY <1>4, <2>2 DEF Covers
    <3>2. /\ k + Len(S) \in 1..Len(T) /\ l + Len(S) \in 1..Len(T) /\ l + Len(S) < k + Len(S)
      BY <1>a, <3>1, SMT
    <3>3. T[k + Len(S)] = R[k] /\ T[l + Len(S)] = R[l]
      BY <1>6
    <3> QED BY <3>1, <3>2, <3>3
  <2> QED BY <1>q, <2>1, <2>2
<1>11. Ordered(T)
  BY <1>9 DEF Ordered
<1>12. Covers(T, Servers)
  BY <1>10 DEF Covers
<1> QED BY <1>6, <1>8, <1>11, <1>12 DEF Schedule
\* The whole of Partition.
LEMMA PartitionPlan ==
  ASSUME NEW p \in SUBSET Servers, NEW q, q = Servers \ p, NEW ps \in Slices(p), NEW qs \in Slices(q),
         NEW T, T = SideSteps(ps, p, q) \o SideSteps(qs, q, p)
  PROVE  Schedule(T, p)
<1>1. PICK S : S = SideSteps(ps, p, q)
  OBVIOUS
<1>2. PICK R : R = SideSteps(qs, q, p)
  OBVIOUS
<1>3. q \in SUBSET Servers
  OBVIOUS
<1>4. S \in Seq(Step) /\ Parts(S, p, q) /\ Ordered(S) /\ Covers(S, p)
  BY <1>1, <1>3, SideStepsPlan
<1>5. R \in Seq(Step) /\ Parts(R, q, p) /\ Ordered(R) /\ Covers(R, q)
  BY <1>2, <1>3, SideStepsPlan
<1>6. T = S \o R
  BY <1>1, <1>2
<1> QED BY <1>4, <1>5, <1>6, TwoSides

(***************************************************************************)
(* The tester between two operations, and at the beginning of one.         *)
(***************************************************************************)
LEMMA Unmoved ==
  ASSUME TesterInv, UNCHANGED <<tester, proc>>
  PROVE  TesterInv'
<1>1. /\ todo' = todo /\ inc' = inc /\ connected' = connected /\ enabled' = enabled
      /\ servers' = servers /\ split' = split /\ proc' = proc
  BY DEF tester
<1>2. LinksOK(Servers)' <=> LinksOK(Servers)
  BY <1>1 DEF LinksOK, Linked, EndOf, Incarnation
<1>3. \A i \in Servers : /\ Settled(i)' <=> Settled(i)
                         /\ Disconnecting(i)' <=> Disconnecting(i)
                         /\ Connecting(i)' <=> Connecting(i)
                         /\ Working(i)' <=> Working(i)
  BY <1>1, <1>2, SMT DEF Settled, Disconnecting, Connecting, Working, Stage, Will, Off, LinksOK, Linked, EndOf, Incarnation
<1>4. \A p, D \in SUBSET Servers : Parting(p, D)' <=> Parting(p, D)
  BY <1>1, SMT DEF Parting, Planned, Cut, Linked, EndOf, Incarnation, Will, Ordered, Side, Across
<1> QED BY <1>1, <1>2, <1>3, <1>4 DEF TesterInv, Quiet

LEMMA Parted ==
  ASSUME Typed, NEW p \in SUBSET Servers, NEW D \in SUBSET Servers, Parting(p, D), todo = << >>
  PROVE  LinksOK(Servers)
<1>0. Len(todo) = 0 /\ 1..Len(todo) = {}
  BY SMT
<1>a. \A i \in Servers \ D : \E k \in 1..Len(todo) : TRUE
  BY DEF Parting, Planned
<1>1. D = Servers
  BY <1>0, <1>a
<1>2. ASSUME NEW i \in Servers, NEW j \in Servers
      PROVE  Linked(i, j) <=> connected[i] /\ connected[j] /\ {i, j} \notin split
  <2>0. connected[i] /\ connected[j]
    BY <1>1 DEF Parting
  <2>1. CASE Side(p, i) = Side(p, j)
    <3>1. Linked(i, j)
      BY <1>1, <2>1 DEF Parting
    <3>2. \A a \in p, b \in Servers \ p : {i, j} # {a, b}
      BY <2>1 DEF Side
    <3> QED BY <2>0, <3>1, <3>2, SMT DEF Parting
  <2>2. CASE Side(p, i) # Side(p, j)
    <3>1. ~Linked(i, j)
      BY <1>1, <2>2 DEF Parting, Cut, Across, Side
    <3>2. (i \in p /\ j \in Servers \ p) \/ (j \in p /\ i \in Servers \ p)
      BY <2>2 DEF Side
    <3>3. {i, j} \in split
      BY <3>2, SMT DEF Parting
    <3> QED BY <3>1, <3>3
  <2> QED BY <2>1, <2>2
<1> QED BY <1>2 DEF LinksOK

LEMMA AtRest ==
  ASSUME Typed, TesterInv, todo = << >>
  PROVE  (\A i \in Servers : Settled(i)) /\ LinksOK(Servers)
<1>1. Len(todo) = 0
  OBVIOUS
<1>2. ASSUME NEW i \in Servers
      PROVE  ~Working(i) /\ ~Disconnecting(i) /\ ~Connecting(i)
  BY <1>1, SMT DEF Working, Stage, Disconnecting, Connecting
<1> QED BY <1>2, Parted DEF TesterInv, Quiet

LEMMA BeginTyped ==
  ASSUME Typed, NEW steps \in Seq(Step), NEW apart, Begin(steps, apart)
  PROVE  Typed'
BY DEF Typed, Begin

\* At the beginning of an operation only todo and split change.
LEMMA BeginRest ==
  ASSUME Typed, TesterInv, NEW steps, NEW apart, Begin(steps, apart)
  PROVE  /\ \A i \in Servers : Settled(i) /\ Settled(i)'
         /\ \A e \in enabled' : e.from \in Servers => e.inc \in 1..inc'[e.from]
         /\ LinksOK(Servers)
         /\ \A i, j \in Servers : Linked(i, j)' <=> Linked(i, j)
         /\ apart = split => LinksOK(Servers)'
<1>1. /\ todo = << >> /\ inc' = inc /\ connected' = connected /\ enabled' = enabled /\ servers' = servers
      /\ proc' = proc /\ split' = apart
  BY DEF Begin
<1>2. (\A i \in Servers : Settled(i)) /\ LinksOK(Servers)
  BY <1>1, AtRest
<1>3. \A i \in Servers : Settled(i)' <=> Settled(i)
  BY <1>1 DEF Settled
<1>4. \A i, j \in Servers : Linked(i, j)' <=> Linked(i, j)
  BY <1>1 DEF Linked, EndOf, Incarnation
<1>5. \A e \in enabled' : e.from \in Servers => e.inc \in 1..inc'[e.from]
  BY <1>1 DEF TesterInv
<1>6. apart = split => LinksOK(Servers)'
  BY <1>1, <1>2, <1>4 DEF LinksOK
<1> QED BY <1>2, <1>3, <1>4, <1>5, <1>6

LEMMA BeginShutdown ==
  ASSUME Typed, TesterInv, NEW i \in Servers, ShutdownServer(i)
  PROVE  Typed' /\ TesterInv'
<1>1. Begin(ShutdownSteps(i), split) /\ proc[i] = "up"
  BY DEF ShutdownServer
<1>2. ShutdownSteps(i) \in Seq(Step)
  BY SMT DEF ShutdownSteps, Step, Disconnect, Do
<1>3. Typed'
  BY <1>1, <1>2, BeginTyped
<1>4. /\ \A j \in Servers : Settled(j) /\ Settled(j)'
      /\ \A e \in enabled' : e.from \in Servers => e.inc \in 1..inc'[e.from]
      /\ LinksOK(Servers)'
  BY <1>1, BeginRest
<1>5. proc'[i] = "up" /\ servers'[i] = inc'[i]
  BY <1>1, <1>4 DEF Settled, Begin
<1>6. todo' = ShutdownSteps(i)
  BY <1>1 DEF Begin
<1>7. /\ Len(todo') = 5 /\ Will(1, "disconnect", i)' /\ todo'[1].peers = Servers
      /\ Will(2, "DeleteServer", i)' /\ Will(3, "close", i)' /\ Will(4, "Checkpoint", i)'
      /\ Will(5, "kill", i)'
  BY <1>6 DEF ShutdownSteps, Will, Disconnect, Do
<1>8. Stage(i, <<"disconnect", "DeleteServer", "close", "Checkpoint", "kill">>, "up", inc[i])'
  BY <1>5, <1>7, SMT DEF Stage
<1>9. Working(i)'
  BY <1>4, <1>7, <1>8 DEF Working
<1> QED BY <1>3, <1>4, <1>9 DEF TesterInv

LEMMA BeginStart ==
  ASSUME Typed, TesterInv, NEW i \in Servers, StartServer(i)
  PROVE  Typed' /\ TesterInv'
<1>1. Begin(StartSteps(i), split) /\ proc[i] = "down"
  BY DEF StartServer
<1>2. StartSteps(i) \in Seq(Step)
  BY SMT DEF StartSteps, Step, Do
<1>3. Typed'
  BY <1>1, <1>2, BeginTyped
<1>4. /\ \A j \in Servers : Settled(j) /\ Settled(j)'
      /\ \A e \in enabled' : e.from \in Servers => e.inc \in 1..inc'[e.from]
      /\ LinksOK(Servers)'
  BY <1>1, BeginRest
<1>5. proc'[i] = "down" /\ servers'[i] = 0 /\ ~connected'[i]
  BY <1>1, <1>4 DEF Settled, Begin
<1>6. todo' = StartSteps(i)
  BY <1>1 DEF Begin
<1>7. Len(todo') = 3 /\ Will(1, "runDaemon", i)' /\ Will(2, "init", i)' /\ Will(3, "AddServer", i)'
  BY <1>6 DEF StartSteps, Will, Do
<1>8. Stage(i, <<"runDaemon", "init", "AddServer">>, "down", 0)'
  BY <1>5, <1>7, SMT DEF Stage
<1>9. Working(i)'
  BY <1>4, <1>5, <1>8 DEF Working, Off
<1> QED BY <1>3, <1>4, <1>9 DEF TesterInv

LEMMA BeginConnect ==
  ASSUME Typed, TesterInv, NEW i \in Servers, ConnectOne(i)
  PROVE  Typed' /\ TesterInv'
<1>1. Begin(<<Connect(i, Servers)>>, Joined(i)) /\ proc[i] = "up"
  BY DEF ConnectOne
<1>2. <<Connect(i, Servers)>> \in Seq(Step)
  BY SMT DEF Step, Connect
<1>3. Typed'
  BY <1>1, <1>2, BeginTyped
<1>4. /\ \A j \in Servers : Settled(j) /\ Settled(j)'
      /\ \A e \in enabled' : e.from \in Servers => e.inc \in 1..inc'[e.from]
      /\ LinksOK(Servers)
      /\ \A j, k \in Servers : Linked(j, k)' <=> Linked(j, k)
  BY <1>1, BeginRest
<1>5. /\ todo' = <<Connect(i, Servers)>> /\ split' = {e \in split : i \notin e}
      /\ proc' = proc /\ connected' = connected
  BY <1>1 DEF Begin, Joined
<1>6. Len(todo') = 1 /\ Will(1, "connect", i)' /\ todo'[1].peers = Servers
  BY <1>5 DEF Will, Connect
<1>7. LinksOK(Servers \ {i})'
  BY <1>4, <1>5 DEF LinksOK
<1>8. \A j \in Servers : Linked(i, j)' \/ Linked(j, i)' => connected'[j]
  BY <1>4, <1>5 DEF LinksOK
<1>9. Connecting(i)'
  BY <1>1, <1>5, <1>6, <1>7, <1>8 DEF Connecting
<1> QED BY <1>3, <1>4, <1>9 DEF TesterInv

LEMMA BeginDisconnect ==
  ASSUME Typed, TesterInv, NEW i \in Servers, DisconnectAll(i)
  PROVE  Typed' /\ TesterInv'
<1>1. Begin(<<Disconnect(i, Servers)>>, split)
  BY DEF DisconnectAll
<1>2. <<Disconnect(i, Servers)>> \in Seq(Step)
  BY SMT DEF Step, Disconnect
<1>3. Typed'
  BY <1>1, <1>2, BeginTyped
<1>4. /\ \A j \in Servers : Settled(j) /\ Settled(j)'
      /\ \A e \in enabled' : e.from \in Servers => e.inc \in 1..inc'[e.from]
      /\ LinksOK(Servers)'
  BY <1>1, BeginRest
<1>5. todo' = <<Disconnect(i, Servers)>>
  BY <1>1 DEF Begin
<1>6. Len(todo') = 1 /\ Will(1, "disconnect", i)' /\ todo'[1].peers = Servers
  BY <1>5 DEF Will, Disconnect
<1>7. Disconnecting(i)' /\ proc[i] = "up"
  BY <1>4, <1>6 DEF Disconnecting, DisconnectAll
<1> QED BY <1>3, <1>4, <1>7 DEF TesterInv

LEMMA BeginPartition ==
  ASSUME Typed, TesterInv, NEW p \in SUBSET Servers, Partition(p)
  PROVE  Typed' /\ TesterInv'
<1>q. PICK q : q = Servers \ p
  OBVIOUS
<1>s. PICK ps \in Slices(p), qs \in Slices(q) :
        Begin(SideSteps(ps, p, q) \o SideSteps(qs, q, p), Apart(p, q))
  BY <1>q DEF Partition
<1>t. PICK T : T = SideSteps(ps, p, q) \o SideSteps(qs, q, p)
  OBVIOUS
<1>1. Begin(T, Apart(p, q)) /\ \A i \in Servers : proc[i] = "up"
  BY <1>s, <1>t DEF Partition
<1>2. /\ T \in Seq(Step)
      /\ \A k \in 1..Len(T) : \/ T[k].do = "disconnect" /\ T[k].peers = Across(p, T[k].srv)
                              \/ T[k].do = "connect" /\ T[k].peers = Side(p, T[k].srv)
      /\ Ordered(T) /\ Covers(T, Servers)
  <2>1. Schedule(T, p)
    BY <1>q, <1>t, PartitionPlan
  <2> QED BY <2>1 DEF Schedule
<1>3. Typed'
  BY <1>1, <1>2, BeginTyped
<1>4. /\ \A j \in Servers : Settled(j) /\ Settled(j)'
      /\ \A e \in enabled' : e.from \in Servers => e.inc \in 1..inc'[e.from]
  BY <1>1, BeginRest
<1>5. todo' = T /\ split' = Apart(p, q) /\ proc' = proc
  BY <1>1 DEF Begin
<1>6. \A i \in Servers : \E k \in 1..Len(T) :
        T[k].do = "connect" /\ T[k].srv = i /\ \E l \in 1..(k - 1) : T[l].do = "disconnect" /\ T[l].srv = i
  <2> SUFFICES ASSUME NEW i \in Servers
               PROVE  \E k \in 1..Len(T) : /\ T[k].do = "connect" /\ T[k].srv = i
                                           /\ \E l \in 1..(k - 1) : T[l].do = "disconnect" /\ T[l].srv = i
    OBVIOUS
  <2>1. PICK k \in 1..Len(T), l \in 1..Len(T) : /\ l < k /\ T[l].do = "disconnect" /\ T[l].srv = i
                                                /\ T[k].do = "connect" /\ T[k].srv = i
    BY <1>2 DEF Covers
  <2>2. l \in 1..(k - 1)
    BY <2>1, SMT
  <2> QED BY <2>1, <2>2
<1>7. Planned(p, {})'
  <2>1. \A k \in 1..Len(todo') :
          \/ todo'[k].do = "disconnect" /\ todo'[k].peers = Across(p, todo[k].srv)'
          \/ todo'[k].do = "connect" /\ todo'[k].peers = Side(p, todo[k].srv)'
    BY <1>2, <1>5 DEF Side, Across
  <2>2. Ordered(todo)'
    BY <1>2, <1>5 DEF Ordered
  <2>3. \A i \in Servers \ {} : \E k \in 1..Len(todo') :
          Will(k, "connect", i)' /\ \E l \in 1..(k - 1) : Will(l, "disconnect", i)'
    BY <1>5, <1>6, SMT DEF Will
  <2> QED BY <2>1, <2>2, <2>3 DEF Planned
<1>8. Parting(p, {})'
  BY <1>1, <1>5, <1>7, <1>q, SMT DEF Parting, Apart
<1> QED BY <1>3, <1>4, <1>8 DEF TesterInv

(***************************************************************************)
(* connect and disconnect.                                                 *)
(***************************************************************************)
LEMMA Between ==
  ASSUME Typed, NEW i \in Servers, NEW S \in SUBSET Servers, NEW k \in Servers, NEW l \in Servers
  PROVE  EndOf(k, l) \in EndsBetween(i, S) <=> (k = i /\ l \in S) \/ (l = i /\ k \in S)
BY DEF EndsBetween, EndOf

LEMMA AfterDisconnect ==
  ASSUME Typed, NEW i \in Servers, NEW S \in SUBSET Servers, disconnect(i, S), inc' = inc
  PROVE  /\ connected' = [connected EXCEPT ![i] = FALSE] /\ connected' \in [Servers -> BOOLEAN]
         /\ \A e \in enabled' : e \in enabled
         /\ \A k, l \in Servers :
              Linked(k, l)' <=> Linked(k, l) /\ ~(k = i /\ l \in S) /\ ~(l = i /\ k \in S)
<1>1. connected' = [connected EXCEPT ![i] = FALSE] /\ enabled' = enabled \ EndsBetween(i, S)
  BY DEF disconnect
<1>2. connected' \in [Servers -> BOOLEAN]
  BY <1>1 DEF Typed
<1>3. ASSUME NEW k \in Servers, NEW l \in Servers
      PROVE  Linked(k, l)' <=> Linked(k, l) /\ ~(k = i /\ l \in S) /\ ~(l = i /\ k \in S)
  <2>1. EndOf(k, l)' = EndOf(k, l)
    BY DEF EndOf, Incarnation
  <2> QED BY <1>1, <2>1, Between, SMT DEF Linked
<1> QED BY <1>1, <1>2, <1>3

LEMMA AfterConnect ==
  ASSUME Typed, NEW i \in Servers, NEW S \in SUBSET Servers, connect(i, S), inc' = inc,
         \A e \in enabled : e.from \in Servers => e.inc \in 1..inc[e.from]
  PROVE  /\ connected' = [connected EXCEPT ![i] = TRUE] /\ connected' \in [Servers -> BOOLEAN]
         /\ \A e \in enabled' : e.from \in Servers => e.inc \in 1..inc'[e.from]
         /\ \A k, l \in Servers :
              Linked(k, l)' <=> \/ Linked(k, l)
                                \/ k = i /\ l \in S /\ connected'[l]
                                \/ l = i /\ k \in S /\ connected'[k]
<1> PICK R : R = {j \in S : connected'[j]}
  OBVIOUS
<1>0. R \in SUBSET Servers
  OBVIOUS
<1>1. connected' = [connected EXCEPT ![i] = TRUE] /\ enabled' = enabled \cup EndsBetween(i, R)
  BY DEF connect
<1>2. connected' \in [Servers -> BOOLEAN]
  BY <1>1 DEF Typed
<1>3. ASSUME NEW k \in Servers, NEW l \in Servers
      PROVE  Linked(k, l)' <=> \/ Linked(k, l)
                               \/ k = i /\ l \in S /\ connected'[l]
                               \/ l = i /\ k \in S /\ connected'[k]
  <2>1. EndOf(k, l)' = EndOf(k, l)
    BY DEF EndOf, Incarnation
  <2>2. EndOf(k, l) \in EndsBetween(i, R) <=> (k = i /\ l \in R) \/ (l = i /\ k \in R)
    BY <1>0, Between
  <2>3. Linked(k, l)' <=> Linked(k, l) \/ EndOf(k, l) \in EndsBetween(i, R)
    BY <1>1, <2>1 DEF Linked
  <2> QED BY <2>2, <2>3
<1>4. ASSUME NEW e \in enabled', e.from \in Servers
      PROVE  e.inc \in 1..inc'[e.from]
  <2>1. CASE e \in EndsBetween(i, R)
    <3>1. PICK j \in Servers : e = EndOf(i, j) \/ e = EndOf(j, i)
      BY <1>0, <2>1 DEF EndsBetween
    <3>2. e.inc = inc[e.from]
      BY <3>1, SMT DEF EndOf, Incarnation
    <3>3. inc[e.from] \in Nat \ {0}
      BY <1>4 DEF Typed
    <3> QED BY <3>2, <3>3, SMT
  <2> QED BY <1>1, <1>4, <2>1
<1> QED BY <1>1, <1>2, <1>3, <1>4

\* A step of the tester takes the head of todo.
LEMMA AdvanceFacts ==
  ASSUME Typed, todo # << >>, Advance
  PROVE  /\ todo' \in Seq(Step) /\ Len(todo') = Len(todo) - 1 /\ Len(todo) \in Nat \ {0}
         /\ \A k \in 1..Len(todo') : todo'[k] = todo[k + 1]
         /\ Head(todo) = todo[1] /\ todo[1].srv \in Servers /\ todo[1].peers \in SUBSET Servers
BY TodoTail, StepFields DEF Advance

\* The first step left tells the stages apart.
LEMMA StageOps ==
  ASSUME Typed, todo # << >>, NEW i \in Servers
  PROVE  /\ Stage(i, <<"disconnect", "DeleteServer", "close", "Checkpoint", "kill">>, "up", inc[i])
              => Head(todo).do = "disconnect"
         /\ Stage(i, <<"DeleteServer", "close", "Checkpoint", "kill">>, "up", inc[i])
              => Head(todo).do = "DeleteServer"
         /\ Stage(i, <<"close", "Checkpoint", "kill">>, "up", 0) => Head(todo).do = "close"
         /\ Stage(i, <<"Checkpoint", "kill">>, "closed", 0) => Head(todo).do = "Checkpoint"
         /\ Stage(i, <<"kill">>, "copied", 0) => Head(todo).do = "kill"
         /\ Stage(i, <<"runDaemon", "init", "AddServer">>, "down", 0) => Head(todo).do = "runDaemon"
         /\ Stage(i, <<"init", "AddServer">>, "starting", 0) => Head(todo).do = "init"
         /\ Stage(i, <<"AddServer">>, "up", 0) => Head(todo).do = "AddServer"
<1>0. Head(todo) = todo[1]
  BY TodoTail
<1>1. /\ Stage(i, <<"disconnect", "DeleteServer", "close", "Checkpoint", "kill">>, "up", inc[i])
           => Head(todo).do = "disconnect"
      /\ Stage(i, <<"DeleteServer", "close", "Checkpoint", "kill">>, "up", inc[i])
           => Head(todo).do = "DeleteServer"
  BY <1>0, SMT DEF Stage, Will
<1>2. /\ Stage(i, <<"close", "Checkpoint", "kill">>, "up", 0) => Head(todo).do = "close"
      /\ Stage(i, <<"Checkpoint", "kill">>, "closed", 0) => Head(todo).do = "Checkpoint"
      /\ Stage(i, <<"kill">>, "copied", 0) => Head(todo).do = "kill"
  BY <1>0, SMT DEF Stage, Will
<1>3. /\ Stage(i, <<"runDaemon", "init", "AddServer">>, "down", 0) => Head(todo).do = "runDaemon"
      /\ Stage(i, <<"init", "AddServer">>, "starting", 0) => Head(todo).do = "init"
      /\ Stage(i, <<"AddServer">>, "up", 0) => Head(todo).do = "AddServer"
  BY <1>0, SMT DEF Stage, Will
<1> QED BY <1>1, <1>2, <1>3

LEMMA WhichStage ==
  ASSUME Typed, TesterInv, todo # << >>, Head(todo).do \notin {"connect", "disconnect"}
  PROVE  \E i \in Servers :
           /\ \A j \in Servers \ {i} : Settled(j)
           /\ LinksOK(Servers) /\ Off(i) /\ Head(todo).srv = i
           /\ \/ Head(todo).do = "DeleteServer" /\ Stage(i, <<"DeleteServer", "close", "Checkpoint", "kill">>, "up", inc[i])
              \/ Head(todo).do = "close" /\ Stage(i, <<"close", "Checkpoint", "kill">>, "up", 0)
              \/ Head(todo).do = "Checkpoint" /\ Stage(i, <<"Checkpoint", "kill">>, "closed", 0)
              \/ Head(todo).do = "kill" /\ Stage(i, <<"kill">>, "copied", 0)
              \/ Head(todo).do = "runDaemon" /\ Stage(i, <<"runDaemon", "init", "AddServer">>, "down", 0)
              \/ Head(todo).do = "init" /\ Stage(i, <<"init", "AddServer">>, "starting", 0)
              \/ Head(todo).do = "AddServer" /\ Stage(i, <<"AddServer">>, "up", 0)
<1>0. Len(todo) \in Nat \ {0} /\ Head(todo) = todo[1]
  BY TodoTail
<1>1. ~Quiet
  BY DEF Quiet
<1>2. \A i \in Servers : ~Disconnecting(i) /\ ~Connecting(i)
  BY <1>0 DEF Disconnecting, Connecting, Will
<1>3. \A p, D \in SUBSET Servers : ~Parting(p, D)
  BY <1>0, SMT DEF Parting, Planned
<1>4. PICK i \in Servers : Working(i)
  BY <1>1, <1>2, <1>3 DEF TesterInv
<1>5. ~Stage(i, <<"disconnect", "DeleteServer", "close", "Checkpoint", "kill">>, "up", inc[i])
  BY StageOps
<1>6. Head(todo).srv = i
  BY <1>0, <1>4, SMT DEF Working, Stage, Will
<1> QED BY <1>4, <1>5, <1>6, StageOps DEF Working

(***************************************************************************)
(* The steps of ShutdownServer and StartServer.                            *)
(***************************************************************************)
LEMMA SameLinks ==
  ASSUME LinksOK(Servers), UNCHANGED <<inc, connected, enabled, split>>
  PROVE  LinksOK(Servers)'
BY DEF LinksOK, Linked, EndOf, Incarnation

LEMMA SameSettled ==
  ASSUME Typed, NEW i \in Servers, \A j \in Servers \ {i} : Settled(j),
         \A j \in Servers \ {i} : /\ proc'[j] = proc[j] /\ servers'[j] = servers[j] /\ inc'[j] = inc[j]
                                  /\ connected'[j] = connected[j]
  PROVE  \A j \in Servers \ {i} : Settled(j)'
BY DEF Settled

LEMMA StepDelete ==
  ASSUME Typed, TesterInv, DeleteServer
  PROVE  Typed' /\ TesterInv'
<1>0. todo # << >> /\ Head(todo).do = "DeleteServer" /\ Advance
  BY DEF DeleteServer, At
<1>a. /\ todo' \in Seq(Step) /\ Len(todo') = Len(todo) - 1 /\ Len(todo) \in Nat \ {0}
      /\ \A k \in 1..Len(todo') : todo'[k] = todo[k + 1]
      /\ Head(todo) = todo[1]
  BY <1>0, AdvanceFacts
<1>1. PICK i \in Servers :
        /\ \A j \in Servers \ {i} : Settled(j)
        /\ LinksOK(Servers) /\ Off(i) /\ Head(todo).srv = i
        /\ Stage(i, <<"DeleteServer", "close", "Checkpoint", "kill">>, "up", inc[i])
  BY <1>0, WhichStage
<1>2. /\ servers' = [servers EXCEPT ![i] = 0]
      /\ UNCHANGED <<inc, saved, connected, enabled, split, proc, persisted, rpcs, told>>
  BY <1>1 DEF DeleteServer
<1>3. Typed'
  BY <1>1, <1>2, <1>a DEF Typed
<1>4. \A j \in Servers \ {i} : Settled(j)'
  BY <1>1, <1>2, SameSettled, SMT
<1>5. /\ LinksOK(Servers)' /\ ~connected'[i]
      /\ \A e \in enabled' : e.from \in Servers => e.inc \in 1..inc'[e.from]
  BY <1>1, <1>2, SameLinks DEF Off, TesterInv
<1>6. Stage(i, <<"close", "Checkpoint", "kill">>, "up", 0)'
  <2>1. /\ Len(todo) = 4
        /\ todo[2].do = "close" /\ todo[2].srv = i
        /\ todo[3].do = "Checkpoint" /\ todo[3].srv = i
        /\ todo[4].do = "kill" /\ todo[4].srv = i
    BY <1>1, SMT DEF Stage, Will
  <2>2. Len(todo') = 3 /\ todo'[1] = todo[2] /\ todo'[2] = todo[3] /\ todo'[3] = todo[4]
    BY <1>a, <2>1, SMT
  <2>3. proc'[i] = "up" /\ servers'[i] = 0
    BY <1>1, <1>2, SMT DEF Stage, Typed
  <2> QED BY <2>1, <2>2, <2>3, SMT DEF Stage, Will
<1>7. Working(i)'
  BY <1>4, <1>5, <1>6 DEF Working, Off
<1> QED BY <1>3, <1>5, <1>7 DEF TesterInv

LEMMA StepClose ==
  ASSUME Typed, TesterInv, CloseSockets
  PROVE  Typed' /\ TesterInv'
<1>0. todo # << >> /\ Head(todo).do = "close" /\ Advance
  BY DEF CloseSockets, At
<1>a. /\ todo' \in Seq(Step) /\ Len(todo') = Len(todo) - 1 /\ Len(todo) \in Nat \ {0}
      /\ \A k \in 1..Len(todo') : todo'[k] = todo[k + 1]
      /\ Head(todo) = todo[1]
  BY <1>0, AdvanceFacts
<1>1. PICK i \in Servers :
        /\ \A j \in Servers \ {i} : Settled(j)
        /\ LinksOK(Servers) /\ Off(i) /\ Head(todo).srv = i
        /\ Stage(i, <<"close", "Checkpoint", "kill">>, "up", 0)
  BY <1>0, WhichStage
<1>2. /\ proc' = [proc EXCEPT ![i] = "closed"]
      /\ UNCHANGED <<inc, saved, connected, enabled, servers, split, persisted, rpcs, told>>
  BY <1>1 DEF CloseSockets
<1>3. Typed'
  BY <1>1, <1>2, <1>a DEF Typed
<1>4. \A j \in Servers \ {i} : Settled(j)'
  BY <1>1, <1>2, SameSettled, SMT
<1>5. /\ LinksOK(Servers)' /\ ~connected'[i]
      /\ \A e \in enabled' : e.from \in Servers => e.inc \in 1..inc'[e.from]
  BY <1>1, <1>2, SameLinks DEF Off, TesterInv
<1>6. Stage(i, <<"Checkpoint", "kill">>, "closed", 0)'
  <2>1. /\ Len(todo) = 3
        /\ todo[2].do = "Checkpoint" /\ todo[2].srv = i
        /\ todo[3].do = "kill" /\ todo[3].srv = i
    BY <1>1, SMT DEF Stage, Will
  <2>2. Len(todo') = 2 /\ todo'[1] = todo[2] /\ todo'[2] = todo[3]
    BY <1>a, <2>1, SMT
  <2>3. proc'[i] = "closed" /\ servers'[i] = 0
    BY <1>1, <1>2, SMT DEF Stage, Typed
  <2> QED BY <2>1, <2>2, <2>3, SMT DEF Stage, Will
<1>7. Working(i)'
  BY <1>4, <1>5, <1>6 DEF Working, Off
<1> QED BY <1>3, <1>5, <1>7 DEF TesterInv

LEMMA StepCheckpoint ==
  ASSUME Typed, TesterInv, Checkpoint
  PROVE  Typed' /\ TesterInv'
<1>0. todo # << >> /\ Head(todo).do = "Checkpoint" /\ Advance
  BY DEF Checkpoint, At
<1>a. /\ todo' \in Seq(Step) /\ Len(todo') = Len(todo) - 1 /\ Len(todo) \in Nat \ {0}
      /\ \A k \in 1..Len(todo') : todo'[k] = todo[k + 1]
      /\ Head(todo) = todo[1]
  BY <1>0, AdvanceFacts
<1>1. PICK i \in Servers :
        /\ \A j \in Servers \ {i} : Settled(j)
        /\ LinksOK(Servers) /\ Off(i) /\ Head(todo).srv = i
        /\ Stage(i, <<"Checkpoint", "kill">>, "closed", 0)
  BY <1>0, WhichStage
<1>2. /\ proc' = [proc EXCEPT ![i] = "copied"] /\ saved' = [saved EXCEPT ![i] = persisted[i]]
      /\ UNCHANGED <<inc, connected, enabled, servers, split, persisted, rpcs, told>>
  BY <1>1 DEF Checkpoint
<1>3. Typed'
  BY <1>1, <1>2, <1>a DEF Typed
<1>4. \A j \in Servers \ {i} : Settled(j)'
  BY <1>1, <1>2, SameSettled, SMT
<1>5. /\ LinksOK(Servers)' /\ ~connected'[i]
      /\ \A e \in enabled' : e.from \in Servers => e.inc \in 1..inc'[e.from]
  BY <1>1, <1>2, SameLinks DEF Off, TesterInv
<1>6. Stage(i, <<"kill">>, "copied", 0)'
  BY <1>1, <1>2, <1>a, SMT DEF Stage, Will, Typed
<1>7. Working(i)'
  BY <1>4, <1>5, <1>6 DEF Working, Off
<1> QED BY <1>3, <1>5, <1>7 DEF TesterInv

LEMMA StepInit ==
  ASSUME Typed, TesterInv, InitDaemon
  PROVE  Typed' /\ TesterInv'
<1>0. todo # << >> /\ Head(todo).do = "init" /\ Advance
  BY DEF InitDaemon, At
<1>a. /\ todo' \in Seq(Step) /\ Len(todo') = Len(todo) - 1 /\ Len(todo) \in Nat \ {0}
      /\ \A k \in 1..Len(todo') : todo'[k] = todo[k + 1]
      /\ Head(todo) = todo[1]
  BY <1>0, AdvanceFacts
<1>1. PICK i \in Servers :
        /\ \A j \in Servers \ {i} : Settled(j)
        /\ LinksOK(Servers) /\ Off(i) /\ Head(todo).srv = i
        /\ Stage(i, <<"init", "AddServer">>, "starting", 0)
  BY <1>0, WhichStage
<1>2. /\ proc' = [proc EXCEPT ![i] = "up"] /\ persisted' = [persisted EXCEPT ![i] = saved[i]]
      /\ UNCHANGED <<inc, saved, connected, enabled, servers, split, rpcs, told>>
  BY <1>1 DEF InitDaemon, Restored
<1>3. Typed'
  BY <1>1, <1>2, <1>a DEF Typed
<1>4. \A j \in Servers \ {i} : Settled(j)'
  BY <1>1, <1>2, SameSettled, SMT
<1>5. /\ LinksOK(Servers)' /\ ~connected'[i]
      /\ \A e \in enabled' : e.from \in Servers => e.inc \in 1..inc'[e.from]
  BY <1>1, <1>2, SameLinks DEF Off, TesterInv
<1>6. Stage(i, <<"AddServer">>, "up", 0)'
  BY <1>1, <1>2, <1>a, SMT DEF Stage, Will, Typed
<1>7. Working(i)'
  BY <1>4, <1>5, <1>6 DEF Working, Off
<1> QED BY <1>3, <1>5, <1>7 DEF TesterInv

LEMMA StepAdd ==
  ASSUME Typed, TesterInv, AddServer
  PROVE  Typed' /\ TesterInv'
<1>0. todo # << >> /\ Head(todo).do = "AddServer" /\ Advance
  BY DEF AddServer, At
<1>a. /\ todo' \in Seq(Step) /\ Len(todo') = Len(todo) - 1 /\ Len(todo) \in Nat \ {0}
      /\ \A k \in 1..Len(todo') : todo'[k] = todo[k + 1]
      /\ Head(todo) = todo[1]
  BY <1>0, AdvanceFacts
<1>1. PICK i \in Servers :
        /\ \A j \in Servers \ {i} : Settled(j)
        /\ LinksOK(Servers) /\ Off(i) /\ Head(todo).srv = i
        /\ Stage(i, <<"AddServer">>, "up", 0)
  BY <1>0, WhichStage
<1>2. /\ servers' = [servers EXCEPT ![i] = inc[i]]
      /\ UNCHANGED <<inc, saved, connected, enabled, split, proc, persisted, rpcs, told>>
  BY <1>1 DEF AddServer
<1>3. Typed'
  BY <1>1, <1>2, <1>a DEF Typed
<1>4. \A j \in Servers \ {i} : Settled(j)'
  BY <1>1, <1>2, SameSettled, SMT
<1>5. /\ LinksOK(Servers)' /\ ~connected'[i]
      /\ \A e \in enabled' : e.from \in Servers => e.inc \in 1..inc'[e.from]
  BY <1>1, <1>2, SameLinks DEF Off, TesterInv
<1>6. todo' = << >>
  BY <1>1, <1>a, SMT DEF Stage
<1>7. Settled(i)'
  BY <1>1, <1>2, <1>5 DEF Settled, Stage, Typed
<1>8. \A j \in Servers : Settled(j)'
  BY <1>4, <1>7
<1> QED BY <1>3, <1>5, <1>6, <1>8 DEF TesterInv, Quiet

\* What Kill of i makes of an RPC.
CutAt(i, r) ==
  IF r.end.to # i \/ r.h \notin {"running", "executed"} THEN r
  ELSE IF r.st = "waiting" THEN [r EXCEPT !.h = "lost"]
  ELSE IF r.st = "idle" THEN NoRpc ELSE [r EXCEPT !.h = "none"]

LEMMA CutType == ASSUME NEW i, NEW r \in Rpc PROVE CutAt(i, r) \in Rpc
BY NoRpcFacts DEF CutAt, Rpc

LEMMA StepKill ==
  ASSUME Typed, TesterInv, Kill
  PROVE  Typed' /\ TesterInv'
<1>0. todo # << >> /\ Head(todo).do = "kill" /\ Advance
  BY DEF Kill, At
<1>a. /\ todo' \in Seq(Step) /\ Len(todo') = Len(todo) - 1 /\ Len(todo) \in Nat \ {0}
      /\ Head(todo) = todo[1]
  BY <1>0, AdvanceFacts
<1>1. PICK i \in Servers :
        /\ \A j \in Servers \ {i} : Settled(j)
        /\ LinksOK(Servers) /\ Off(i) /\ Head(todo).srv = i
        /\ Stage(i, <<"kill">>, "copied", 0)
  BY <1>0, WhichStage
<1>2. /\ proc' = [proc EXCEPT ![i] = "down"] /\ persisted' = [persisted EXCEPT ![i] = 0]
      /\ UNCHANGED <<inc, saved, connected, enabled, servers, split, told>>
  BY <1>1 DEF Kill
<1>b. rpcs' \in [Slots -> Rpc]
  <2>1. rpcs' = [s \in Slots |-> CutAt(i, rpcs[s])]
    BY <1>1 DEF Kill, CutAt
  <2>2. \A s \in Slots : CutAt(i, rpcs[s]) \in Rpc
    BY CutType DEF Typed
  <2> QED BY <2>1, <2>2
<1>3. Typed'
  BY <1>1, <1>2, <1>a, <1>b DEF Typed
<1>4. \A j \in Servers \ {i} : Settled(j)'
  BY <1>1, <1>2, SameSettled, SMT
<1>5. /\ LinksOK(Servers)' /\ ~connected'[i]
      /\ \A e \in enabled' : e.from \in Servers => e.inc \in 1..inc'[e.from]
  BY <1>1, <1>2, SameLinks DEF Off, TesterInv
<1>6. todo' = << >>
  BY <1>1, <1>a, SMT DEF Stage
<1>7. Settled(i)'
  BY <1>1, <1>2, <1>5 DEF Settled, Stage, Typed
<1>8. \A j \in Servers : Settled(j)'
  BY <1>4, <1>7
<1> QED BY <1>3, <1>5, <1>6, <1>8 DEF TesterInv, Quiet

\* The ends of the new Server object are none of those that were enabled.
LEMMA StepRunDaemon ==
  ASSUME Typed, TesterInv, RunDaemon
  PROVE  Typed' /\ TesterInv'
<1>0. todo # << >> /\ Head(todo).do = "runDaemon" /\ Advance
  BY DEF RunDaemon, At
<1>a. /\ todo' \in Seq(Step) /\ Len(todo') = Len(todo) - 1 /\ Len(todo) \in Nat \ {0}
      /\ \A k \in 1..Len(todo') : todo'[k] = todo[k + 1]
      /\ Head(todo) = todo[1]
  BY <1>0, AdvanceFacts
<1>1. PICK i \in Servers :
        /\ \A j \in Servers \ {i} : Settled(j)
        /\ LinksOK(Servers) /\ Off(i) /\ Head(todo).srv = i
        /\ Stage(i, <<"runDaemon", "init", "AddServer">>, "down", 0)
  BY <1>0, WhichStage
<1>2. /\ proc' = [proc EXCEPT ![i] = "starting"] /\ inc' = [inc EXCEPT ![i] = @ + 1]
      /\ UNCHANGED <<saved, connected, enabled, servers, split, persisted, rpcs, told>>
  BY <1>1 DEF RunDaemon
<1>b. inc' \in [Servers -> Nat \ {0}] /\ inc'[i] = inc[i] + 1 /\ \A j \in Servers \ {i} : inc'[j] = inc[j]
  BY <1>2, SMT DEF Typed
<1>3. Typed'
  BY <1>1, <1>2, <1>a, <1>b DEF Typed
<1>4. \A j \in Servers \ {i} : Settled(j)'
  <2>1. \A j \in Servers \ {i} : /\ proc'[j] = proc[j] /\ servers'[j] = servers[j] /\ inc'[j] = inc[j]
                                 /\ connected'[j] = connected[j]
    BY <1>2, <1>b DEF Typed
  <2> QED BY <1>1, <2>1, SameSettled
<1>5. \A e \in enabled' : e.from \in Servers => e.inc \in 1..inc'[e.from]
  <2> SUFFICES ASSUME NEW e \in enabled, e.from \in Servers
               PROVE  e.inc \in 1..inc'[e.from]
    BY <1>2
  <2>1. e.inc \in 1..inc[e.from]
    BY DEF TesterInv
  <2>2. CASE e.from = i
    <3>1. inc[i] \in Nat /\ e.inc \in 1..inc[i] /\ inc'[i] = inc[i] + 1
      BY <1>b, <2>1, <2>2 DEF Typed
    <3>2. e.inc \in 1..(inc[i] + 1)
      BY <3>1, SMT
    <3> QED BY <2>2, <3>1, <3>2
  <2> QED BY <1>b, <2>1, <2>2
<1>c. ~connected'[i]
  BY <1>1, <1>2 DEF Off
<1>d. ASSUME NEW j \in Servers, NEW k \in Servers
      PROVE  Linked(j, k)' <=> connected'[j] /\ connected'[k] /\ {j, k} \notin split'
  <2>1. CASE j = i
    <3>1. ~Linked(i, k)'
      <4> PICK e : e = EndOf(i, k)'
        OBVIOUS
      <4>1. e.from = i /\ e.inc = inc[i] + 1
        BY <1>b DEF EndOf, Incarnation
      <4>0. inc[i] \in Nat
        BY SMT DEF Typed
      <4>2. inc[i] + 1 \notin 1..inc[i]
        BY <4>0, SMT
      <4>3. e \notin enabled
        BY <4>1, <4>2 DEF TesterInv
      <4> QED BY <1>2, <4>3 DEF Linked
    <3> QED BY <1>c, <2>1, <3>1
  <2>2. CASE j # i
    <3>1. EndOf(j, k)' = EndOf(j, k)
      BY <1>b, <2>2 DEF EndOf, Incarnation
    <3> QED BY <1>1, <1>2, <3>1 DEF LinksOK, Linked
  <2> QED BY <2>1, <2>2
<1>e. LinksOK(Servers)'
  BY <1>d DEF LinksOK
<1>6. Stage(i, <<"init", "AddServer">>, "starting", 0)'
  <2>1. /\ Len(todo) = 3
        /\ todo[2].do = "init" /\ todo[2].srv = i
        /\ todo[3].do = "AddServer" /\ todo[3].srv = i
    BY <1>1, SMT DEF Stage, Will
  <2>2. Len(todo') = 2 /\ todo'[1] = todo[2] /\ todo'[2] = todo[3]
    BY <1>a, <2>1, SMT
  <2>3. proc'[i] = "starting" /\ servers'[i] = 0
    BY <1>1, <1>2, SMT DEF Stage, Typed
  <2> QED BY <2>1, <2>2, <2>3, SMT DEF Stage, Will
<1>7. Working(i)'
  BY <1>4, <1>c, <1>e, <1>6 DEF Working, Off
<1> QED BY <1>3, <1>5, <1>7 DEF TesterInv

(***************************************************************************)
(* The steps that connect and disconnect.                                  *)
(***************************************************************************)
LEMMA WhichDisconnect ==
  ASSUME Typed, TesterInv, At("disconnect")
  PROVE  \/ \E i \in Servers : (\A j \in Servers : Settled(j)) /\ Disconnecting(i)
         \/ \E p, D \in SUBSET Servers : (\A j \in Servers : Settled(j)) /\ Parting(p, D)
         \/ \E i \in Servers :
              /\ \A j \in Servers \ {i} : Settled(j)
              /\ LinksOK(Servers) /\ todo[1].peers = Servers
              /\ Stage(i, <<"disconnect", "DeleteServer", "close", "Checkpoint", "kill">>, "up", inc[i])
<1>0. todo # << >> /\ Len(todo) \in Nat \ {0} /\ todo[1].do = "disconnect"
  BY TodoTail DEF At
<1>1. ~Quiet
  BY <1>0 DEF Quiet
<1>2. \A i \in Servers : ~Connecting(i)
  BY <1>0 DEF Connecting, Will
<1>3. ASSUME NEW i \in Servers, Working(i)
      PROVE  /\ \A j \in Servers \ {i} : Settled(j)
             /\ LinksOK(Servers) /\ todo[1].peers = Servers
             /\ Stage(i, <<"disconnect", "DeleteServer", "close", "Checkpoint", "kill">>, "up", inc[i])
  <2>1. Head(todo).do = "disconnect"
    BY DEF At
  <2> QED BY <1>0, <1>3, <2>1, StageOps DEF Working
<1> QED BY <1>1, <1>2, <1>3 DEF TesterInv

LEMMA WhichConnect ==
  ASSUME Typed, TesterInv, At("connect")
  PROVE  /\ \A j \in Servers : Settled(j)
         /\ \/ \E i \in Servers : Connecting(i)
            \/ \E p, D \in SUBSET Servers : Parting(p, D)
<1>0. todo # << >> /\ Len(todo) \in Nat \ {0} /\ todo[1].do = "connect"
  BY TodoTail DEF At
<1>1. ~Quiet
  BY <1>0 DEF Quiet
<1>2. \A i \in Servers : ~Disconnecting(i)
  BY <1>0 DEF Disconnecting, Will
<1>3. \A i \in Servers : ~Working(i)
  BY <1>0, SMT DEF Working, Stage, Will
<1> QED BY <1>1, <1>2, <1>3 DEF TesterInv

\* Disconnect of i from all others.
LEMMA CutOff ==
  ASSUME Typed, LinksOK(Servers), NEW i \in Servers, disconnect(i, Servers), inc' = inc, split' = split
  PROVE  LinksOK(Servers)'
<1>1. /\ connected' = [connected EXCEPT ![i] = FALSE]
      /\ \A k, l \in Servers :
           Linked(k, l)' <=> Linked(k, l) /\ ~(k = i /\ l \in Servers) /\ ~(l = i /\ k \in Servers)
  BY AfterDisconnect
<1>2. ~connected'[i] /\ \A k \in Servers \ {i} : connected'[k] = connected[k]
  BY <1>1 DEF Typed
<1> QED BY <1>1, <1>2 DEF LinksOK

\* What is left of Partition when the head of todo has been dealt with.
LEMMA PlanLeft ==
  ASSUME Typed, NEW p, NEW D, Planned(p, D), todo # << >>, Advance
  PROVE  /\ \A k \in 1..Len(todo') :
              \/ todo'[k].do = "disconnect" /\ todo'[k].peers = Across(p, todo'[k].srv)
              \/ todo'[k].do = "connect" /\ todo'[k].peers = Side(p, todo'[k].srv)
         /\ Ordered(todo')
         /\ \A k \in 1..Len(todo') : todo'[k].srv \notin D
         /\ todo[1].do = "connect" => \A k \in 1..Len(todo') : todo'[k].srv # todo[1].srv
<1>1. /\ Len(todo') = Len(todo) - 1 /\ Len(todo) \in Nat \ {0}
      /\ \A k \in 1..Len(todo') : todo'[k] = todo[k + 1]
  BY AdvanceFacts
<1>2. \A k \in 1..Len(todo') : k + 1 \in 1..Len(todo) /\ 1 < k + 1
  BY <1>1, SMT
<1>3. \A k \in 1..Len(todo') :
        \/ todo'[k].do = "disconnect" /\ todo'[k].peers = Across(p, todo'[k].srv)
        \/ todo'[k].do = "connect" /\ todo'[k].peers = Side(p, todo'[k].srv)
  BY <1>1, <1>2, SMT DEF Planned
<1>4. Ordered(todo')
  <2> SUFFICES ASSUME NEW k \in 1..Len(todo'), NEW l \in 1..Len(todo'), k < l, todo'[k].srv = todo'[l].srv
               PROVE  todo'[k].do = "disconnect" /\ todo'[l].do = "connect"
    BY DEF Ordered
  <2>1. k + 1 \in 1..Len(todo) /\ l + 1 \in 1..Len(todo) /\ k + 1 < l + 1
    BY <1>1, SMT
  <2>2. todo'[k] = todo[k + 1] /\ todo'[l] = todo[l + 1]
    BY <1>1
  <2> QED BY <2>1, <2>2 DEF Planned, Ordered
<1>5. \A k \in 1..Len(todo') : todo'[k].srv \notin D
  BY <1>1, <1>2 DEF Planned
<1>6. ASSUME todo[1].do = "connect", NEW k \in 1..Len(todo')
      PROVE  todo'[k].srv # todo[1].srv
  <2>1. 1 \in 1..Len(todo) /\ k + 1 \in 1..Len(todo) /\ 1 < k + 1 /\ todo'[k] = todo[k + 1]
    BY <1>1, SMT
  <2> QED BY <1>6, <2>1 DEF Planned, Ordered
<1> QED BY <1>3, <1>4, <1>5, <1>6

LEMMA SideFacts ==
  ASSUME NEW p \in SUBSET Servers, NEW j \in Servers, NEW m \in Servers
  PROVE  /\ j \in Side(p, j) /\ Side(p, j) \in SUBSET Servers /\ Across(p, j) \in SUBSET Servers
         /\ m \in Side(p, j) <=> Side(p, m) = Side(p, j)
         /\ m \in Side(p, j) <=> j \in Side(p, m)
         /\ m \in Across(p, j) <=> m \notin Side(p, j)
BY DEF Side, Across

\* The connect that a server of Partition is still waiting for.
LEMMA PlanStill ==
  ASSUME Typed, NEW p, NEW D, Planned(p, D), todo # << >>, Advance, NEW j \in Servers \ D,
         ~Will(1, "connect", j), Cut(p, j) => Cut(p, j)', Will(1, "disconnect", j) => Cut(p, j)'
  PROVE  \E k \in 1..Len(todo') :
           Will(k, "connect", j)' /\ (Cut(p, j)' \/ \E l \in 1..(k - 1) : Will(l, "disconnect", j)')
<1>1. /\ Len(todo') = Len(todo) - 1 /\ Len(todo) \in Nat \ {0}
      /\ \A k \in 1..Len(todo') : todo'[k] = todo[k + 1]
  BY AdvanceFacts
<1>2. PICK k \in 1..Len(todo) :
        Will(k, "connect", j) /\ (Cut(p, j) \/ \E l \in 1..(k - 1) : Will(l, "disconnect", j))
  BY DEF Planned
<1>3. k # 1
  BY <1>2
<1>4. k - 1 \in 1..Len(todo') /\ (k - 1) + 1 = k
  BY <1>1, <1>3, SMT
<1>5. todo'[k - 1] = todo[k]
  BY <1>1, <1>4
<1>6. Will(k - 1, "connect", j)'
  BY <1>2, <1>5 DEF Will
<1>7. ASSUME NEW l \in 1..(k - 1), Will(l, "disconnect", j)
      PROVE  Cut(p, j)' \/ \E m \in 1..((k - 1) - 1) : Will(m, "disconnect", j)'
  <2>1. CASE l = 1
    BY <1>7, <2>1
  <2>2. CASE l # 1
    <3>1. l - 1 \in 1..((k - 1) - 1) /\ l - 1 \in 1..Len(todo') /\ (l - 1) + 1 = l
      BY <1>1, <2>2, SMT
    <3>2. todo'[l - 1] = todo[l]
      BY <1>1, <3>1
    <3> QED BY <1>7, <3>1, <3>2 DEF Will
  <2> QED BY <2>1, <2>2
<1>8. Cut(p, j)' \/ \E m \in 1..((k - 1) - 1) : Will(m, "disconnect", j)'
  BY <1>2, <1>7
<1> QED BY <1>4, <1>6, <1>8

LEMMA PartDisconnect ==
  ASSUME Typed, NEW p \in SUBSET Servers, NEW D \in SUBSET Servers, Parting(p, D), DisconnectStep
  PROVE  Parting(p, D)'
<1>0. todo # << >> /\ Advance /\ Head(todo).do = "disconnect"
  BY DEF DisconnectStep, At
<1>1. PICK i \in Servers : i = todo[1].srv /\ Head(todo) = todo[1]
  BY <1>0, AdvanceFacts
<1>a. Len(todo) \in Nat \ {0} /\ 1 \in 1..Len(todo)
  BY <1>0, TodoTail, SMT
<1>2. todo[1].do = "disconnect" /\ todo[1].peers = Across(p, i) /\ i \notin D
  BY <1>0, <1>1, <1>a DEF Parting, Planned
<1>3. disconnect(i, Across(p, i)) /\ inc' = inc /\ split' = split /\ proc' = proc
  BY <1>1, <1>2 DEF DisconnectStep
<1>4. /\ connected' = [connected EXCEPT ![i] = FALSE]
      /\ \A k, l \in Servers : Linked(k, l)' <=> /\ Linked(k, l)
                                                 /\ ~(k = i /\ l \in Across(p, i))
                                                 /\ ~(l = i /\ k \in Across(p, i))
  <2>1. Across(p, i) \in SUBSET Servers
    BY SideFacts
  <2> QED BY <1>3, <2>1, AfterDisconnect, SMT
<1>5. \A j \in Servers : Cut(p, j) => Cut(p, j)'
  BY <1>4, SideFacts DEF Cut, Across
<1>6. Cut(p, i)'
  BY <1>4, SideFacts DEF Cut, Across
<1>7. Planned(p, D)'
  <2>0. Planned(p, D)
    BY DEF Parting
  <2>1. /\ \A k \in 1..Len(todo') :
              \/ todo'[k].do = "disconnect" /\ todo'[k].peers = Across(p, todo'[k].srv)
              \/ todo'[k].do = "connect" /\ todo'[k].peers = Side(p, todo'[k].srv)
        /\ Ordered(todo')
        /\ \A k \in 1..Len(todo') : todo'[k].srv \notin D
    BY <1>0, <2>0, PlanLeft
  <2>2. ASSUME NEW j \in Servers \ D
        PROVE  \E k \in 1..Len(todo') :
                 Will(k, "connect", j)' /\ (Cut(p, j)' \/ \E l \in 1..(k - 1) : Will(l, "disconnect", j)')
    <3>1. ~Will(1, "connect", j)
      BY <1>2 DEF Will
    <3>2. Will(1, "disconnect", j) => Cut(p, j)'
      BY <1>1, <1>6 DEF Will
    <3> QED BY <1>0, <1>5, <2>0, <3>1, <3>2, PlanStill
  <2>3. Ordered(todo)'
    BY <2>1 DEF Ordered
  <2> QED BY <2>1, <2>2, <2>3 DEF Planned, Side, Across
<1>8. \A j \in D : connected'[j] /\ Cut(p, j)'
  BY <1>2, <1>4, <1>5 DEF Parting, Typed
<1>9. \A j, k \in D : Side(p, j) = Side(p, k) => Linked(j, k)'
  BY <1>2, <1>4 DEF Parting
<1> QED BY <1>3, <1>7, <1>8, <1>9, SMT DEF Parting, Side

LEMMA PartConnect ==
  ASSUME Typed, NEW p \in SUBSET Servers, NEW D \in SUBSET Servers, Parting(p, D), ConnectStep,
         \A e \in enabled : e.from \in Servers => e.inc \in 1..inc[e.from]
  PROVE  /\ \E S \in SUBSET Servers : Parting(p, S)'
         /\ \A e \in enabled' : e.from \in Servers => e.inc \in 1..inc'[e.from]
         /\ connected' \in [Servers -> BOOLEAN]
<1>0. todo # << >> /\ Advance /\ Head(todo).do = "connect"
  BY DEF ConnectStep, At
<1>1. PICK i \in Servers : i = todo[1].srv /\ Head(todo) = todo[1]
  BY <1>0, AdvanceFacts
<1>a. Len(todo) \in Nat \ {0} /\ 1 \in 1..Len(todo)
  BY <1>0, TodoTail, SMT
<1>2. todo[1].do = "connect" /\ todo[1].peers = Side(p, i) /\ i \notin D
  BY <1>0, <1>1, <1>a DEF Parting, Planned
<1>3. connect(i, Side(p, i)) /\ inc' = inc /\ split' = split /\ proc' = proc
  BY <1>1, <1>2 DEF ConnectStep
<1>4. /\ connected' = [connected EXCEPT ![i] = TRUE] /\ connected' \in [Servers -> BOOLEAN]
      /\ \A e \in enabled' : e.from \in Servers => e.inc \in 1..inc'[e.from]
      /\ \A k, l \in Servers : Linked(k, l)' <=> \/ Linked(k, l)
                                                 \/ k = i /\ l \in Side(p, i) /\ connected'[l]
                                                 \/ l = i /\ k \in Side(p, i) /\ connected'[k]
  <2>1. Side(p, i) \in SUBSET Servers
    BY SideFacts
  <2> QED BY <1>3, <2>1, AfterConnect
<1>5. \A j \in Servers : Cut(p, j) => Cut(p, j)'
  <2> SUFFICES ASSUME NEW j \in Servers, Cut(p, j), NEW m \in Across(p, j)
               PROVE  ~Linked(j, m)' /\ ~Linked(m, j)'
    BY DEF Cut, Across, Side
  <2>1. m \in Servers /\ m \notin Side(p, j) /\ j \notin Side(p, m)
    BY SideFacts DEF Across
  <2> QED BY <1>4, <2>1 DEF Cut
<1>6. Cut(p, i)
  <2>1. PICK k \in 1..Len(todo) :
          Will(k, "connect", i) /\ (Cut(p, i) \/ \E l \in 1..(k - 1) : Will(l, "disconnect", i))
    BY <1>2 DEF Parting, Planned
  <2>2. ~(1 < k)
    BY <1>1, <1>2, <1>a, <2>1, SMT DEF Parting, Planned, Ordered, Will
  <2>3. 1..(k - 1) = {}
    BY <1>a, <2>2, SMT
  <2> QED BY <2>1, <2>3
<1> DEFINE S == D \cup {i}
<1>7. Planned(p, S)'
  <2>0. Planned(p, D)
    BY DEF Parting
  <2>1. /\ \A k \in 1..Len(todo') :
              \/ todo'[k].do = "disconnect" /\ todo'[k].peers = Across(p, todo'[k].srv)
              \/ todo'[k].do = "connect" /\ todo'[k].peers = Side(p, todo'[k].srv)
        /\ Ordered(todo')
        /\ \A k \in 1..Len(todo') : todo'[k].srv \notin S
    BY <1>0, <1>1, <1>2, <2>0, PlanLeft
  <2>2. ASSUME NEW j \in Servers \ S
        PROVE  \E k \in 1..Len(todo') :
                 Will(k, "connect", j)' /\ (Cut(p, j)' \/ \E l \in 1..(k - 1) : Will(l, "disconnect", j)')
    <3>1. ~Will(1, "connect", j) /\ ~Will(1, "disconnect", j) /\ j \in Servers \ D
      BY <1>1 DEF Will
    <3> QED BY <1>0, <1>5, <2>0, <3>1, PlanStill
  <2>3. Ordered(todo)'
    BY <2>1 DEF Ordered
  <2> HIDE DEF S
  <2> QED BY <2>1, <2>2, <2>3 DEF Planned, Side, Across
<1>8. \A j \in S : connected'[j] /\ Cut(p, j)'
  BY <1>4, <1>5, <1>6, SMT DEF Parting, Typed
<1>9. ASSUME NEW j \in S, NEW k \in S, Side(p, j) = Side(p, k)
      PROVE  Linked(j, k)'
  <2>1. connected'[j] /\ connected'[k] /\ j \in Servers /\ k \in Servers
    BY <1>8
  <2>2. j \in Side(p, k) /\ k \in Side(p, j)
    BY <1>9, <2>1, SideFacts
  <2>3. CASE j \in D /\ k \in D
    BY <1>4, <1>9, <2>1, <2>3 DEF Parting
  <2>4. CASE j = i \/ k = i
    BY <1>4, <2>1, <2>2, <2>4
  <2> QED BY <2>3, <2>4
<1>10. Parting(p, S)'
  <2> HIDE DEF S
  <2> QED BY <1>3, <1>7, <1>8, <1>9, SMT DEF Parting, Side
<1>11. S \in SUBSET Servers
  OBVIOUS
<1> QED BY <1>4, <1>10, <1>11

LEMMA StepDisconnect ==
  ASSUME Typed, TesterInv, DisconnectStep
  PROVE  Typed' /\ TesterInv'
<1>0. /\ todo # << >> /\ Advance /\ At("disconnect") /\ Head(todo).do = "disconnect"
      /\ disconnect(Head(todo).srv, Head(todo).peers)
      /\ UNCHANGED <<inc, saved, servers, split, proc, persisted, rpcs, told>>
  BY DEF DisconnectStep, At
<1>a. /\ todo' \in Seq(Step) /\ Len(todo') = Len(todo) - 1 /\ Len(todo) \in Nat \ {0}
      /\ \A k \in 1..Len(todo') : todo'[k] = todo[k + 1]
      /\ Head(todo) = todo[1] /\ todo[1].srv \in Servers /\ todo[1].peers \in SUBSET Servers
  BY <1>0, AdvanceFacts
<1>1. PICK i \in Servers : i = todo[1].srv /\ disconnect(i, todo[1].peers)
  BY <1>0, <1>a
<1>2. /\ connected' = [connected EXCEPT ![i] = FALSE] /\ connected' \in [Servers -> BOOLEAN]
      /\ \A e \in enabled' : e \in enabled
  <2> PICK S \in SUBSET Servers : S = todo[1].peers
    BY <1>a
  <2> QED BY <1>0, <1>1, AfterDisconnect
<1>3. Typed'
  BY <1>0, <1>2, <1>a DEF Typed
<1>4. \A e \in enabled' : e.from \in Servers => e.inc \in 1..inc'[e.from]
  BY <1>0, <1>2 DEF TesterInv
<1>5. \A j \in Servers : Settled(j) => Settled(j)'
  BY <1>0, <1>2 DEF Settled, Typed
<1>6. ASSUME todo[1].peers = Servers, LinksOK(Servers)
      PROVE  LinksOK(Servers)' /\ ~connected'[i]
  BY <1>0, <1>1, <1>2, <1>6, CutOff DEF Typed
<1>7. CASE \E j \in Servers : (\A k \in Servers : Settled(k)) /\ Disconnecting(j)
  <2>1. todo[1].peers = Servers /\ LinksOK(Servers) /\ Len(todo) = 1
    BY <1>7 DEF Disconnecting
  <2>2. todo' = << >>
    BY <1>a, <2>1, SMT
  <2>3. Quiet'
    BY <1>6, <2>1, <2>2 DEF Quiet
  <2> QED BY <1>3, <1>4, <1>5, <1>7, <2>3 DEF TesterInv
<1>8. CASE \E p, D \in SUBSET Servers : (\A j \in Servers : Settled(j)) /\ Parting(p, D)
  <2>1. \A j \in Servers : Settled(j)'
    BY <1>5, <1>8
  <2>2. \E p, D \in SUBSET Servers : Parting(p, D)'
    BY <1>8, PartDisconnect
  <2> QED BY <1>3, <1>4, <2>1, <2>2 DEF TesterInv
<1>9. CASE \E j \in Servers :
             /\ \A k \in Servers \ {j} : Settled(k)
             /\ LinksOK(Servers) /\ todo[1].peers = Servers
             /\ Stage(j, <<"disconnect", "DeleteServer", "close", "Checkpoint", "kill">>, "up", inc[j])
  <2>1. PICK j \in Servers :
             /\ \A k \in Servers \ {j} : Settled(k)
             /\ LinksOK(Servers) /\ todo[1].peers = Servers
             /\ Stage(j, <<"disconnect", "DeleteServer", "close", "Checkpoint", "kill">>, "up", inc[j])
    BY <1>9
  <2>2. i = j
    BY <1>1, <2>1, SMT DEF Stage, Will
  <2>3. Stage(i, <<"DeleteServer", "close", "Checkpoint", "kill">>, "up", inc[i])'
    BY <1>0, <1>a, <2>1, <2>2, SMT DEF Stage, Will, Typed
  <2>4. LinksOK(Servers)' /\ ~connected'[i]
    BY <1>6, <2>1
  <2>5. \A k \in Servers \ {i} : Settled(k)'
    BY <1>5, <2>1, <2>2
  <2>6. Working(i)'
    BY <2>3, <2>4, <2>5 DEF Working, Off
  <2> QED BY <1>3, <1>4, <2>6 DEF TesterInv
<1> QED BY <1>0, <1>7, <1>8, <1>9, WhichDisconnect

LEMMA StepConnect ==
  ASSUME Typed, TesterInv, ConnectStep
  PROVE  Typed' /\ TesterInv'
<1>0. /\ todo # << >> /\ Advance /\ At("connect") /\ Head(todo).do = "connect"
      /\ connect(Head(todo).srv, Head(todo).peers)
      /\ UNCHANGED <<inc, saved, servers, split, proc, persisted, rpcs, told>>
  BY DEF ConnectStep, At
<1>a. /\ todo' \in Seq(Step) /\ Len(todo') = Len(todo) - 1 /\ Len(todo) \in Nat \ {0}
      /\ Head(todo) = todo[1] /\ todo[1].srv \in Servers /\ todo[1].peers \in SUBSET Servers
  BY <1>0, AdvanceFacts
<1>1. PICK i \in Servers : i = todo[1].srv /\ connect(i, todo[1].peers)
  BY <1>0, <1>a
<1>b. \A e \in enabled : e.from \in Servers => e.inc \in 1..inc[e.from]
  BY DEF TesterInv
<1>2. /\ connected' = [connected EXCEPT ![i] = TRUE] /\ connected' \in [Servers -> BOOLEAN]
      /\ \A e \in enabled' : e.from \in Servers => e.inc \in 1..inc'[e.from]
      /\ \A k, l \in Servers :
           Linked(k, l)' <=> \/ Linked(k, l)
                             \/ k = i /\ l \in todo[1].peers /\ connected'[l]
                             \/ l = i /\ k \in todo[1].peers /\ connected'[k]
  <2> PICK S \in SUBSET Servers : S = todo[1].peers
    BY <1>a
  <2> QED BY <1>0, <1>1, <1>b, AfterConnect
<1>3. Typed'
  BY <1>0, <1>2, <1>a DEF Typed
<1>4. \A j \in Servers : Settled(j) /\ (j = i => proc[j] = "up") => Settled(j)'
  BY <1>0, <1>2 DEF Settled, Typed
<1>5. \A j \in Servers : Settled(j)
  BY <1>0, WhichConnect
<1>6. CASE \E j \in Servers : Connecting(j)
  <2>1. Connecting(i) /\ Len(todo) = 1 /\ todo[1].peers = Servers /\ proc[i] = "up"
    BY <1>1, <1>6 DEF Connecting, Will
  <2>2. todo' = << >>
    BY <1>a, <2>1, SMT
  <2>3. \A j \in Servers : Settled(j)'
    BY <1>4, <1>5, <2>1
  <2>4. connected'[i] /\ \A j \in Servers \ {i} : connected'[j] = connected[j]
    BY <1>2 DEF Typed
  <2>5. ASSUME NEW j \in Servers, NEW k \in Servers
        PROVE  Linked(j, k)' <=> connected'[j] /\ connected'[k] /\ {j, k} \notin split'
    <3>1. CASE j = i \/ k = i
      <4>1. {j, k} \notin split'
        BY <1>0, <2>1, <3>1 DEF Connecting
      <4>2. Linked(j, k) => connected'[j] /\ connected'[k]
        BY <2>1, <2>4, <3>1 DEF Connecting
      <4>3. connected'[j] /\ connected'[k] => Linked(j, k)'
        BY <1>2, <2>1, <3>1
      <4>4. Linked(j, k)' => connected'[j] /\ connected'[k]
        BY <1>2, <2>4, <4>2
      <4> QED BY <4>1, <4>3, <4>4
    <3>2. CASE j # i /\ k # i
      <4>1. Linked(j, k)' <=> Linked(j, k)
        BY <1>2, <3>2
      <4>2. Linked(j, k) <=> connected[j] /\ connected[k] /\ {j, k} \notin split
        BY <2>1, <3>2 DEF Connecting, LinksOK
      <4> QED BY <1>0, <2>4, <3>2, <4>1, <4>2
    <3> QED BY <3>1, <3>2
  <2>6. Quiet'
    BY <2>2, <2>5 DEF Quiet, LinksOK
  <2> QED BY <1>2, <1>3, <2>3, <2>6 DEF TesterInv
<1>7. CASE \E p, D \in SUBSET Servers : Parting(p, D)
  <2>1. proc[i] = "up"
    BY <1>7, SMT DEF Parting
  <2>2. \A j \in Servers : Settled(j)'
    BY <1>4, <1>5, <2>1
  <2>3. \E p, D \in SUBSET Servers : Parting(p, D)'
    BY <1>7, <1>b, PartConnect
  <2> QED BY <1>2, <1>3, <2>2, <2>3 DEF TesterInv
<1> QED BY <1>0, <1>6, <1>7, WhichConnect

LEMMA TesterMoves ==
  ASSUME Typed, TesterInv, TesterStep
  PROVE  Typed' /\ TesterInv'
BY StepDisconnect, StepConnect, StepDelete, StepClose, StepCheckpoint, StepKill, StepRunDaemon, StepInit,
   StepAdd DEF TesterStep

(***************************************************************************)
(* RPCs.                                                                   *)
(***************************************************************************)
LEMMA Registered ==
  ASSUME Typed, TesterInv, NEW i \in Servers
  PROVE  servers[i] = 0 \/ (servers[i] = inc[i] /\ proc[i] = "up")
BY DEF TesterInv, Settled, Working, Stage

\* Once known to be kept for a restart, for ever kept.
LEMMA RpcKeeps ==
  ASSUME Typed, Typed', inc' = inc, proc' = proc, \A i \in Servers : Durable(i) <= Durable(i)',
         NEW r \in Rpc, RpcOK(r)
  PROVE  RpcOK(r)'
<1>1. /\ r.end.to \in Servers /\ r.val \in Nat /\ r.rep \in Nat
  BY RpcFields
<1>2. \A i \in Servers : Durable(i) \in Nat /\ Durable(i)' \in Nat
  BY DEF Durable, Typed
<1>3. \A i \in Servers : \A v \in Nat : v <= Durable(i) => v <= Durable(i)'
  BY <1>2, SMT
<1>4. r.end.from \in Servers => r.val <= Durable(r.end.from)'
  BY <1>1, <1>3 DEF RpcOK
<1>5. r.rep <= Durable(r.end.to) => r.rep <= Durable(r.end.to)'
  BY <1>1, <1>3
<1>6. Gone(r)' <=> Gone(r)
  BY DEF Gone
<1>7. Alive(r.end.to)' <=> Alive(r.end.to)
  BY DEF Alive
<1> QED BY <1>4, <1>5, <1>6, <1>7 DEF RpcOK

LEMMA NoRpcOK == ASSUME Typed PROVE RpcOK(NoRpc)
<1>1. Durable(NoEnd.from) \in Nat
  BY NoEndType, DurableType
<1>2. NoRpc.val = 0 /\ NoRpc.end = NoEnd /\ NoRpc.st = "idle" /\ NoRpc.h = "none"
  BY NoRpcFacts
<1>3. NoRpc.val <= Durable(NoRpc.end.from)
  BY <1>1, <1>2, SMT
<1> QED BY <1>2, <1>3 DEF RpcOK

\* One RPC takes a step.
LEMMA OneRpc ==
  ASSUME Typed, RpcInv, NEW s \in Slots, NEW n \in Rpc, SetRpc(s, n), inc' = inc, proc' = proc,
         UNCHANGED <<todo, saved, connected, servers>>, persisted' \in [Servers -> Nat], told' \in [Servers -> Nat],
         \A i \in Servers : Durable(i) <= Durable(i)', RpcOK(n)'
  PROVE  Typed' /\ RpcInv'
<1>1. rpcs' = [rpcs EXCEPT ![s] = IF n.st = "idle" /\ n.h = "none" THEN NoRpc ELSE n]
  BY DEF SetRpc
<1>2. rpcs' \in [Slots -> Rpc]
  BY <1>1, NoRpcFacts DEF Typed
<1>3. Typed'
  BY <1>2 DEF Typed
<1>4. ASSUME NEW x \in Slots
      PROVE  RpcOK(rpcs[x])'
  <2>1. PICK r \in Rpc : r = rpcs'[x]
    BY <1>2
  <2>2. r = rpcs[x] \/ r = n \/ r = NoRpc
    BY <1>1, <2>1 DEF Typed
  <2>3. RpcOK(NoRpc)
    BY NoRpcOK
  <2>4. r = rpcs[x] => RpcOK(r)
    BY DEF RpcInv
  <2>5. r # n => RpcOK(r)
    BY <2>2, <2>3, <2>4
  <2>6. RpcOK(r)'
    BY <1>3, <2>5, RpcKeeps
  <2> QED BY <2>1, <2>6 DEF RpcOK, Gone
<1> QED BY <1>3, <1>4 DEF RpcInv

LEMMA KnownKeeps ==
  ASSUME Typed, Typed', KnownIsDurable, told' = told, \A i \in Servers : Durable(i) <= Durable(i)'
  PROVE  KnownIsDurable'
<1>1. \A i \in Servers : Durable(i) \in Nat /\ Durable(i)' \in Nat /\ told[i] \in Nat
  BY DEF Durable, Typed
<1> QED BY <1>1, SMT DEF KnownIsDurable

\* A step of processReq, or of a Clerk or daemon that only calls or answers.
LEMMA QuietRpc ==
  ASSUME Typed, RpcInv, KnownIsDurable, NEW s \in Slots, NEW n \in Rpc, SetRpc(s, n), RpcOK(n),
         UNCHANGED <<tester, proc, persisted, told>>
  PROVE  Typed' /\ RpcInv' /\ KnownIsDurable'
<1>1. /\ inc' = inc /\ proc' = proc /\ UNCHANGED <<todo, saved, connected, servers>>
      /\ persisted' \in [Servers -> Nat] /\ told' \in [Servers -> Nat]
  BY DEF Typed, tester
<1>2. \A i \in Servers : Durable(i)' = Durable(i) /\ Durable(i) \in Nat
  BY <1>1, DurableType DEF Durable
<1>3. \A i \in Servers : Durable(i) <= Durable(i)'
  BY <1>2, SMT
<1>4. RpcOK(n)'
  <2>1. n.end.to \in Servers
    BY RpcFields
  <2>2. Gone(n)' <=> Gone(n)
    BY <1>1 DEF Gone
  <2>3. Alive(n.end.to)' <=> Alive(n.end.to)
    BY <1>1 DEF Alive
  <2> QED BY <1>1, <1>2, <2>1, <2>2, <2>3 DEF RpcOK
<1>5. Typed' /\ RpcInv'
  BY <1>1, <1>3, <1>4, OneRpc
<1>6. KnownIsDurable'
  BY <1>3, <1>5, KnownKeeps
<1> QED BY <1>5, <1>6

LEMMA RpcSaves ==
  ASSUME IInv, NEW i \in Servers, Save(i)
  PROVE  Typed' /\ RpcInv' /\ KnownIsDurable'
<1>0. Typed /\ RpcInv /\ KnownIsDurable
  BY DEF IInv
<1>1. /\ persisted' = [persisted EXCEPT ![i] = @ + 1]
      /\ UNCHANGED <<todo, inc, saved, connected, enabled, servers, split, proc, rpcs, told>>
  BY DEF Save, tester
<1>2. Typed'
  BY <1>0, <1>1, SMT DEF Typed
<1>3. \A j \in Servers : Durable(j) <= Durable(j)'
  BY <1>0, <1>1, SMT DEF Typed, Durable
<1>4. \A r \in Rpc : RpcOK(r) => RpcOK(r)'
  BY <1>0, <1>1, <1>2, <1>3, RpcKeeps
<1>5. RpcInv'
  <2> SUFFICES ASSUME NEW s \in Slots
               PROVE  RpcOK(rpcs[s])'
    BY DEF RpcInv
  <2>1. PICK r \in Rpc : r = rpcs[s]
    BY <1>0 DEF Typed
  <2>2. RpcOK(r)'
    BY <1>0, <1>4, <2>1 DEF RpcInv
  <2> QED BY <1>1, <2>1, <2>2 DEF RpcOK, Gone
<1>6. KnownIsDurable'
  BY <1>0, <1>1, <1>2, <1>3, KnownKeeps
<1> QED BY <1>2, <1>5, <1>6

\* A daemon calls while it is up, so what it has saved is in the persister.
LEMMA RpcCalls ==
  ASSUME IInv, NEW s \in Slots, NEW p \in Callers, NEW j \in Servers, Call(s, p, j)
  PROVE  Typed' /\ RpcInv' /\ KnownIsDurable'
<1>0. Typed /\ RpcInv /\ KnownIsDurable
  BY DEF IInv
<1>1. PICK v : v = IF p \in Servers THEN persisted[p] ELSE 0
  OBVIOUS
<1>2. v \in Nat
  BY <1>0, <1>1 DEF Typed
<1>3. PICK n : n = [NoRpc EXCEPT !.st = "sent", !.end = EndOf(p, j), !.val = v]
  OBVIOUS
<1>4. EndOf(p, j) \in End /\ EndOf(p, j).from = p
  BY <1>0, EndOfFacts
<1>5. n \in Rpc /\ n.st = "sent" /\ n.h = "none" /\ n.end = EndOf(p, j) /\ n.val = v
  BY <1>2, <1>3, <1>4, NoEndType DEF NoRpc, Rpc
<1>6. SetRpc(s, n) /\ UNCHANGED <<tester, proc, persisted, told>> /\ (p \in Servers => proc[p] = "up")
  BY <1>1, <1>3 DEF Call, CanCall
<1>7. p \in Servers => v <= Durable(p)
  BY <1>1, <1>2, <1>6, SMT DEF Durable
<1>8. RpcOK(n)
  BY <1>4, <1>5, <1>7 DEF RpcOK
<1> QED BY <1>0, <1>5, <1>6, <1>8, QuietRpc

\* The RPC of a slot, and the parts of it.
LEMMA TheRpc ==
  ASSUME IInv, NEW s \in Slots, NEW r, r = rpcs[s]
  PROVE  /\ Typed /\ RpcInv /\ KnownIsDurable /\ TesterInv
         /\ r \in Rpc /\ RpcOK(r) /\ r.end.to \in Servers /\ inc[r.end.to] \in Nat \ {0}
BY RpcFields DEF IInv, RpcInv, Typed

LEMMA RpcAnswers ==
  ASSUME IInv, NEW s \in Slots, Answer(s)
  PROVE  Typed' /\ RpcInv' /\ KnownIsDurable'
<1>0. PICK r : r = rpcs[s]
  OBVIOUS
<1>1. /\ Typed /\ RpcInv /\ KnownIsDurable /\ TesterInv
      /\ r \in Rpc /\ RpcOK(r) /\ r.end.to \in Servers /\ inc[r.end.to] \in Nat \ {0}
  BY <1>0, TheRpc
<1>2. PICK h \in {"answered", "none"} : h = IF r.st = "waiting" THEN "answered" ELSE "none"
  OBVIOUS
<1>3. PICK n : n = [r EXCEPT !.h = h]
  OBVIOUS
<1>4. SetRpc(s, n) /\ r.h = "executed" /\ UNCHANGED <<tester, proc, persisted, told>>
  BY <1>0, <1>2, <1>3 DEF Answer
<1>5. /\ n \in Rpc /\ n.st = r.st /\ n.h = h /\ n.end = r.end /\ n.val = r.val /\ n.srv = r.srv
      /\ n.rep = r.rep
  BY <1>1, <1>3 DEF Rpc
<1>6. RpcOK(n)
  BY <1>1, <1>4, <1>5 DEF RpcOK, Gone
<1> QED BY <1>1, <1>4, <1>5, <1>6, QuietRpc

LEMMA RpcAccepted ==
  ASSUME IInv, NEW s \in Slots, Accept(s)
  PROVE  Typed' /\ RpcInv' /\ KnownIsDurable'
<1>0. PICK r : r = rpcs[s]
  OBVIOUS
<1>1. /\ Typed /\ RpcInv /\ KnownIsDurable /\ TesterInv
      /\ r \in Rpc /\ RpcOK(r) /\ r.end.to \in Servers /\ inc[r.end.to] \in Nat \ {0}
  BY <1>0, TheRpc
<1>2. r.st = "sent" /\ UNCHANGED <<tester, proc, persisted, told>>
  BY <1>0 DEF Accept
<1>h. r.h = "none"
  BY <1>1, <1>2 DEF RpcOK
<1>3. CASE servers[r.end.to] # 0 /\ SetRpc(s, [r EXCEPT !.st = "accepted", !.srv = servers[r.end.to]])
  <2>1. PICK v : v = servers[r.end.to]
    OBVIOUS
  <2>2. v = inc[r.end.to] /\ v \in Nat
    BY <1>1, <1>3, <2>1, Registered
  <2>3. PICK n : n = [r EXCEPT !.st = "accepted", !.srv = v]
    OBVIOUS
  <2>4. n \in Rpc /\ n.st = "accepted" /\ n.srv = v /\ n.h = r.h /\ n.end = r.end /\ n.val = r.val
    BY <1>1, <2>2, <2>3 DEF Rpc
  <2>5. RpcOK(n)
    BY <1>1, <1>h, <2>2, <2>4, SMT DEF RpcOK
  <2> QED BY <1>1, <1>2, <1>3, <2>1, <2>3, <2>4, <2>5, QuietRpc
<1>4. CASE SetRpc(s, [r EXCEPT !.st = "failed"])
  <2>1. PICK n : n = [r EXCEPT !.st = "failed"]
    OBVIOUS
  <2>2. n \in Rpc /\ n.st = "failed" /\ n.srv = r.srv /\ n.h = r.h /\ n.end = r.end /\ n.val = r.val
    BY <1>1, <2>1 DEF Rpc
  <2>3. RpcOK(n)
    BY <1>1, <1>h, <2>2 DEF RpcOK
  <2> QED BY <1>1, <1>2, <1>4, <2>1, <2>2, <2>3, QuietRpc
<1> QED BY <1>0, <1>3, <1>4 DEF Accept

LEMMA RpcDropped ==
  ASSUME IInv, NEW s \in Slots, DropRequest(s)
  PROVE  Typed' /\ RpcInv' /\ KnownIsDurable'
<1>0. PICK r : r = rpcs[s]
  OBVIOUS
<1>1. /\ Typed /\ RpcInv /\ KnownIsDurable /\ TesterInv
      /\ r \in Rpc /\ RpcOK(r) /\ r.end.to \in Servers /\ inc[r.end.to] \in Nat \ {0}
  BY <1>0, TheRpc
<1>2. PICK n : n = [r EXCEPT !.st = "failed"]
  OBVIOUS
<1>3. SetRpc(s, n) /\ r.st = "accepted" /\ UNCHANGED <<tester, proc, persisted, told>>
  BY <1>0, <1>2 DEF DropRequest
<1>4. n \in Rpc /\ n.st = "failed" /\ n.srv = r.srv /\ n.h = r.h /\ n.end = r.end /\ n.val = r.val
  BY <1>1, <1>2 DEF Rpc
<1>5. RpcOK(n)
  BY <1>1, <1>3, <1>4 DEF RpcOK
<1> QED BY <1>1, <1>3, <1>4, <1>5, QuietRpc

LEMMA RpcDispatched ==
  ASSUME IInv, NEW s \in Slots, Dispatch(s)
  PROVE  Typed' /\ RpcInv' /\ KnownIsDurable'
<1>0. PICK r : r = rpcs[s]
  OBVIOUS
<1>1. /\ Typed /\ RpcInv /\ KnownIsDurable /\ TesterInv
      /\ r \in Rpc /\ RpcOK(r) /\ r.end.to \in Servers /\ inc[r.end.to] \in Nat \ {0}
  BY <1>0, TheRpc
<1>2. PICK h \in {"running", "lost"} :
        h = IF r.srv = inc[r.end.to] /\ Alive(r.end.to) THEN "running" ELSE "lost"
  OBVIOUS
<1>3. PICK n : n = [r EXCEPT !.st = "waiting", !.h = h]
  OBVIOUS
<1>4. SetRpc(s, n) /\ r.st = "accepted" /\ UNCHANGED <<tester, proc, persisted, told>>
  BY <1>0, <1>2, <1>3 DEF Dispatch
<1>5. n \in Rpc /\ n.st = "waiting" /\ n.srv = r.srv /\ n.h = h /\ n.end = r.end /\ n.val = r.val
  BY <1>1, <1>3 DEF Rpc
<1>6. RpcOK(n)
  BY <1>1, <1>2, <1>4, <1>5 DEF RpcOK
<1> QED BY <1>1, <1>4, <1>5, <1>6, QuietRpc

LEMMA RpcGivenUp ==
  ASSUME IInv, NEW s \in Slots, GiveUp(s)
  PROVE  Typed' /\ RpcInv' /\ KnownIsDurable'
<1>0. PICK r : r = rpcs[s]
  OBVIOUS
<1>1. /\ Typed /\ RpcInv /\ KnownIsDurable /\ TesterInv
      /\ r \in Rpc /\ RpcOK(r) /\ r.end.to \in Servers /\ inc[r.end.to] \in Nat \ {0}
  BY <1>0, TheRpc
<1>2. PICK h : h = IF r.h \in {"answered", "lost"} THEN "none" ELSE r.h
  OBVIOUS
<1>3. PICK n : n = [r EXCEPT !.st = "failed", !.h = h]
  OBVIOUS
<1>4. SetRpc(s, n) /\ UNCHANGED <<tester, proc, persisted, told>>
  BY <1>0, <1>2, <1>3 DEF GiveUp
<1>5. /\ n \in Rpc /\ n.st = "failed" /\ n.srv = r.srv /\ n.h = h /\ n.end = r.end /\ n.val = r.val
      /\ n.rep = r.rep
  BY <1>1, <1>2, <1>3 DEF Rpc
<1>6. RpcOK(n)
  BY <1>1, <1>2, <1>5 DEF RpcOK, Gone
<1> QED BY <1>1, <1>4, <1>5, <1>6, QuietRpc

\* A reply is passed on only while the server that sent it is registered, and
\* then it has not been checkpointed.
LEMMA RpcChecked ==
  ASSUME IInv, NEW s \in Slots, Check(s)
  PROVE  Typed' /\ RpcInv' /\ KnownIsDurable'
<1>0. PICK r : r = rpcs[s]
  OBVIOUS
<1>1. /\ Typed /\ RpcInv /\ KnownIsDurable /\ TesterInv
      /\ r \in Rpc /\ RpcOK(r) /\ r.end.to \in Servers /\ inc[r.end.to] \in Nat \ {0}
  BY <1>0, TheRpc
<1>2. PICK st \in {"checked", "failed"} :
        /\ st = "checked" => ~isServerDead(r) /\ r.h # "lost"
        /\ SetRpc(s, [r EXCEPT !.st = st, !.h = "none"])
  BY <1>0 DEF Check
<1>3. PICK n : n = [r EXCEPT !.st = st, !.h = "none"]
  OBVIOUS
<1>4. /\ r.st = "waiting" /\ r.h \in {"answered", "lost"} /\ UNCHANGED <<tester, proc, persisted, told>>
  BY <1>0 DEF Check
<1>5. /\ n \in Rpc /\ n.st = st /\ n.srv = r.srv /\ n.h = "none" /\ n.end = r.end /\ n.val = r.val
      /\ n.rep = r.rep
  BY <1>1, <1>3 DEF Rpc
<1>6. st = "checked" => r.rep <= Durable(r.end.to)
  <2> SUFFICES ASSUME st = "checked", Gone(r)
               PROVE  FALSE
    BY <1>1, <1>2, <1>4 DEF RpcOK
  <2>1. servers[r.end.to] = r.srv /\ r.srv \in 1..inc[r.end.to]
    BY <1>1, <1>2, <1>4 DEF isServerDead, RpcOK
  <2>2. r.srv = inc[r.end.to] /\ proc[r.end.to] = "up"
    BY <1>1, <2>1, Registered, SMT
  <2> QED BY <1>1, <2>2, SMT DEF Gone
<1>7. RpcOK(n)
  BY <1>1, <1>5, <1>6 DEF RpcOK
<1> QED BY <1>1, <1>2, <1>3, <1>4, <1>5, <1>7, QuietRpc

LEMMA Learns ==
  ASSUME Typed, NEW p, NEW v \in Nat, Learn(p, v)
  PROVE  /\ told' \in [Servers -> Nat]
         /\ \A i \in Servers : told'[i] = told[i] \/ (i = p /\ told'[i] = v)
BY DEF Learn, Larger, Typed

\* Nothing is learnt but what is kept for a restart.
LEMMA LearnsDurable ==
  ASSUME Typed, Typed', KnownIsDurable, \A i \in Servers : Durable(i) <= Durable(i)',
         NEW p, NEW v \in Nat, Learn(p, v), p \in Servers => v <= Durable(p)
  PROVE  KnownIsDurable'
<1>1. \A i \in Servers : Durable(i) \in Nat /\ Durable(i)' \in Nat /\ told[i] \in Nat
  BY DEF Durable, Typed
<1>2. \A i \in Servers : told'[i] = told[i] \/ (i = p /\ told'[i] = v)
  BY Learns
<1> SUFFICES ASSUME NEW i \in Servers
             PROVE  told'[i] <= Durable(i)'
  BY DEF KnownIsDurable
<1>3. PICK d \in Nat, e \in Nat : d = Durable(i) /\ e = Durable(i)'
  BY <1>1
<1>4. d <= e /\ told[i] <= d /\ told[i] \in Nat
  BY <1>1, <1>3 DEF KnownIsDurable
<1>5. i = p => v <= d
  BY <1>3
<1>6. told'[i] <= e
  BY <1>2, <1>4, <1>5, SMT
<1> QED BY <1>3, <1>6

LEMMA RpcReturned ==
  ASSUME IInv, NEW s \in Slots, Return(s)
  PROVE  Typed' /\ RpcInv' /\ KnownIsDurable'
<1>0. PICK r : r = rpcs[s]
  OBVIOUS
<1>1. /\ Typed /\ RpcInv /\ KnownIsDurable /\ TesterInv
      /\ r \in Rpc /\ RpcOK(r) /\ r.end.to \in Servers /\ inc[r.end.to] \in Nat \ {0}
  BY <1>0, TheRpc
<1>2. PICK n : n = [r EXCEPT !.st = "idle"]
  OBVIOUS
<1>3. /\ SetRpc(s, n) /\ UNCHANGED <<tester, proc, persisted>>
      /\ told' = told \/ (r.st = "checked" /\ Learn(r.end.to, r.rep))
  BY <1>0, <1>2 DEF Return
<1>4. /\ n \in Rpc /\ n.st = "idle" /\ n.srv = r.srv /\ n.h = r.h /\ n.end = r.end /\ n.val = r.val
      /\ n.rep = r.rep /\ r.rep \in Nat
  BY <1>1, <1>2 DEF Rpc
<1>5. RpcOK(n)
  BY <1>1, <1>4 DEF RpcOK, Gone
<1>6. CASE told' = told
  BY <1>1, <1>3, <1>4, <1>5, <1>6, QuietRpc
<1>7. CASE r.st = "checked" /\ Learn(r.end.to, r.rep)
  <2>1. /\ inc' = inc /\ proc' = proc /\ UNCHANGED <<todo, saved, connected, servers>>
        /\ persisted' \in [Servers -> Nat] /\ told' \in [Servers -> Nat]
    BY <1>1, <1>3, <1>4, <1>7, Learns DEF Typed, tester
  <2>2. \A i \in Servers : Durable(i)' = Durable(i) /\ Durable(i) \in Nat
    BY <1>1, <1>3, <2>1, DurableType DEF Durable
  <2>3. \A i \in Servers : Durable(i) <= Durable(i)'
    BY <2>2, SMT
  <2>4. RpcOK(n)'
    <3>1. Gone(n)' <=> Gone(n)
      BY <2>1 DEF Gone
    <3>2. Alive(n.end.to)' <=> Alive(n.end.to)
      BY <2>1 DEF Alive
    <3> QED BY <1>1, <1>4, <1>5, <2>1, <2>2, <3>1, <3>2 DEF RpcOK
  <2>5. Typed' /\ RpcInv'
    BY <1>1, <1>3, <1>4, <2>1, <2>3, <2>4, OneRpc
  <2>6. r.rep <= Durable(r.end.to)
    BY <1>1, <1>7 DEF RpcOK
  <2>7. KnownIsDurable'
    BY <1>1, <1>4, <1>7, <2>3, <2>5, <2>6, LearnsDurable
  <2> QED BY <2>5, <2>7
<1> QED BY <1>3, <1>6, <1>7

LEMMA RpcExecuted ==
  ASSUME IInv, NEW s \in Slots, Execute(s)
  PROVE  Typed' /\ RpcInv' /\ KnownIsDurable'
<1>0. PICK r : r = rpcs[s]
  OBVIOUS
<1>1. /\ Typed /\ RpcInv /\ KnownIsDurable /\ TesterInv
      /\ r \in Rpc /\ RpcOK(r) /\ r.end.to \in Servers /\ inc[r.end.to] \in Nat \ {0}
  BY <1>0, TheRpc
<1>j. PICK j \in Servers : j = r.end.to
  BY <1>1
<1>2. PICK more \in {0, 1} :
        /\ persisted' = [persisted EXCEPT ![j] = @ + more]
        /\ SetRpc(s, [r EXCEPT !.h = "executed", !.rep = persisted[j] + more])
  BY <1>0, <1>j DEF Execute
<1>v. PICK v \in Nat : v = persisted[j] + more
  BY <1>1, SMT DEF Typed
<1>3. PICK n : n = [r EXCEPT !.h = "executed", !.rep = v]
  OBVIOUS
<1>4. r.h = "running" /\ Learn(r.end.from, r.val) /\ UNCHANGED <<tester, proc>> /\ SetRpc(s, n)
  BY <1>0, <1>2, <1>3, <1>v DEF Execute
<1>5. /\ n \in Rpc /\ n.st = r.st /\ n.srv = r.srv /\ n.h = "executed" /\ n.end = r.end /\ n.val = r.val
      /\ n.rep = v /\ r.val \in Nat
  BY <1>1, <1>3 DEF Rpc
<1>6. /\ inc' = inc /\ proc' = proc /\ UNCHANGED <<todo, saved, connected, servers>>
      /\ persisted' \in [Servers -> Nat] /\ told' \in [Servers -> Nat] /\ persisted'[j] = v
  BY <1>1, <1>2, <1>4, <1>5, <1>v, Learns DEF Typed, tester
<1>7. \A i \in Servers : Durable(i) <= Durable(i)' /\ Durable(i) \in Nat /\ Durable(i)' \in Nat
  <2>1. \A i \in Servers : persisted[i] \in Nat /\ persisted'[i] \in Nat
    BY <1>1, <1>6 DEF Typed
  <2>2. \A i \in Servers : i # j => persisted'[i] = persisted[i]
    BY <1>1, <1>2 DEF Typed
  <2>3. persisted[j] <= persisted'[j]
    BY <1>6, <1>v, <2>1, SMT
  <2>4. \A i \in Servers : persisted[i] <= persisted'[i]
    BY <2>1, <2>2, <2>3, SMT
  <2> QED BY <1>1, <1>6, <2>1, <2>4, SMT DEF Typed, Durable
<1>8. Alive(j) /\ r.srv = inc[j] /\ r.st \notin {"sent", "accepted", "checked"}
  BY <1>1, <1>4, <1>j DEF RpcOK
<1>9. RpcOK(n)'
  <2>1. v <= Durable(j)' \/ Gone(n)'
    BY <1>5, <1>6, <1>8, <1>j, SMT DEF Durable, Gone, Alive
  <2>2. r.end.from \in Servers => r.val <= Durable(r.end.from)'
    <3> SUFFICES ASSUME r.end.from \in Servers
                 PROVE  r.val <= Durable(r.end.from)'
      OBVIOUS
    <3>1. PICK d \in Nat, e \in Nat : d = Durable(r.end.from) /\ e = Durable(r.end.from)' /\ d <= e
      BY <1>7
    <3>2. r.val <= d
      BY <1>1, <3>1 DEF RpcOK
    <3>3. r.val <= e
      BY <1>5, <3>1, <3>2, SMT
    <3> QED BY <3>1, <3>3
  <2>3. Alive(j)' /\ (r.st \in {"accepted", "waiting"} => r.srv \in 1..inc'[j])
    BY <1>1, <1>6, <1>8, <1>j DEF Alive, RpcOK
  <2> QED BY <1>5, <1>6, <1>8, <1>j, <2>1, <2>2, <2>3 DEF RpcOK
<1>10. Typed' /\ RpcInv'
  BY <1>1, <1>4, <1>5, <1>6, <1>7, <1>9, OneRpc
<1>11. r.end.from \in Servers => r.val <= Durable(r.end.from)
  BY <1>1 DEF RpcOK
<1>12. KnownIsDurable'
  BY <1>1, <1>4, <1>5, <1>7, <1>10, <1>11, LearnsDurable
<1> QED BY <1>10, <1>12

(***************************************************************************)
(* What the tester's steps do to the RPCs.                                 *)
(***************************************************************************)
LEMMA RpcMoves ==
  ASSUME Typed, Typed', NEW r \in Rpc, RpcOK(r),
         \A i \in Servers : Durable(i)' = Durable(i) /\ inc[i] <= inc'[i],
         Gone(r) => Gone(r)',
         r.h \in {"running", "executed"} /\ Alive(r.end.to) =>
           Alive(r.end.to)' /\ inc'[r.end.to] = inc[r.end.to]
  PROVE  RpcOK(r)'
<1>1. r.end.to \in Servers /\ r.srv \in Nat
  BY RpcFields
<1>2. r.srv \in 1..inc[r.end.to] => r.srv \in 1..inc'[r.end.to]
  <2>1. inc[r.end.to] \in Nat /\ inc'[r.end.to] \in Nat
    BY <1>1 DEF Typed
  <2>2. inc[r.end.to] <= inc'[r.end.to]
    BY <1>1
  <2> QED BY <1>1, <2>1, <2>2, SMT
<1> QED BY <1>1, <1>2 DEF RpcOK

LEMMA AllRpcs ==
  ASSUME Typed, Typed', RpcInv, KnownIsDurable, UNCHANGED <<rpcs, told>>,
         \A i \in Servers : Durable(i)' = Durable(i),
         \A r \in Rpc : RpcOK(r) => RpcOK(r)'
  PROVE  RpcInv' /\ KnownIsDurable'
<1>1. RpcInv'
  <2> SUFFICES ASSUME NEW s \in Slots
               PROVE  RpcOK(rpcs[s])'
    BY DEF RpcInv
  <2>1. PICK r \in Rpc : r = rpcs[s]
    BY DEF Typed
  <2>2. RpcOK(r)'
    BY <2>1 DEF RpcInv
  <2> QED BY <2>1, <2>2 DEF RpcOK, Gone
<1>2. KnownIsDurable'
  BY DEF KnownIsDurable
<1> QED BY <1>1, <1>2

\* Operations begin, servers come and go on the network.
LEMMA RpcElsewhere ==
  ASSUME IInv, Typed', UNCHANGED <<inc, saved, proc, persisted, rpcs, told>>
  PROVE  RpcInv' /\ KnownIsDurable'
<1>1. Typed /\ RpcInv /\ KnownIsDurable
  BY DEF IInv
<1>2. \A i \in Servers : Durable(i)' = Durable(i)
  BY DEF Durable
<1>3. ASSUME NEW r \in Rpc, RpcOK(r)
      PROVE  RpcOK(r)'
  BY <1>3 DEF RpcOK, Durable, Gone, Alive
<1> QED BY <1>1, <1>2, <1>3, AllRpcs

LEMMA RpcClosed ==
  ASSUME IInv, Typed', CloseSockets
  PROVE  RpcInv' /\ KnownIsDurable'
<1>0. Typed /\ TesterInv /\ RpcInv /\ KnownIsDurable
  BY DEF IInv
<1>1. todo # << >> /\ Head(todo).do = "close" /\ Advance
  BY DEF CloseSockets, At
<1>2. PICK i \in Servers : Head(todo).srv = i /\ Stage(i, <<"close", "Checkpoint", "kill">>, "up", 0)
  BY <1>0, <1>1, WhichStage
<1>3. /\ proc' = [proc EXCEPT ![i] = "closed"] /\ proc[i] = "up"
      /\ UNCHANGED <<inc, saved, persisted, rpcs, told>>
  BY <1>2 DEF CloseSockets, Stage
<1>4. \A j \in Servers : Durable(j)' = Durable(j) /\ inc[j] <= inc'[j]
  BY <1>0, <1>3, SMT DEF Durable, Typed
<1>5. ASSUME NEW r \in Rpc, RpcOK(r)
      PROVE  RpcOK(r)'
  <2>1. r.end.to \in Servers
    BY RpcFields
  <2>2. Gone(r) => Gone(r)'
    BY <1>0, <1>3, <2>1 DEF Gone, Typed
  <2>3. Alive(r.end.to) => Alive(r.end.to)' /\ inc'[r.end.to] = inc[r.end.to]
    BY <1>0, <1>3, <2>1 DEF Alive, Typed
  <2> QED BY <1>0, <1>4, <1>5, <2>2, <2>3, RpcMoves
<1> QED BY <1>0, <1>3, <1>4, <1>5, AllRpcs

LEMMA RpcCheckpointed ==
  ASSUME IInv, Typed', Checkpoint
  PROVE  RpcInv' /\ KnownIsDurable'
<1>0. Typed /\ TesterInv /\ RpcInv /\ KnownIsDurable
  BY DEF IInv
<1>1. todo # << >> /\ Head(todo).do = "Checkpoint" /\ Advance
  BY DEF Checkpoint, At
<1>2. PICK i \in Servers : Head(todo).srv = i /\ Stage(i, <<"Checkpoint", "kill">>, "closed", 0)
  BY <1>0, <1>1, WhichStage
<1>3. /\ proc' = [proc EXCEPT ![i] = "copied"] /\ proc[i] = "closed"
      /\ saved' = [saved EXCEPT ![i] = persisted[i]]
      /\ UNCHANGED <<inc, persisted, rpcs, told>>
  BY <1>2 DEF Checkpoint, Stage
<1>4. \A j \in Servers : Durable(j)' = Durable(j) /\ inc[j] <= inc'[j]
  BY <1>0, <1>3, SMT DEF Durable, Typed
<1>5. ASSUME NEW r \in Rpc, RpcOK(r)
      PROVE  RpcOK(r)'
  <2>1. r.end.to \in Servers
    BY RpcFields
  <2>2. Gone(r) => Gone(r)'
    BY <1>0, <1>3, <2>1 DEF Gone, Typed
  <2>3. Alive(r.end.to) => Alive(r.end.to)' /\ inc'[r.end.to] = inc[r.end.to]
    BY <1>0, <1>3, <2>1 DEF Alive, Typed
  <2> QED BY <1>0, <1>4, <1>5, <2>2, <2>3, RpcMoves
<1> QED BY <1>0, <1>3, <1>4, <1>5, AllRpcs

LEMMA RpcRestarted ==
  ASSUME IInv, Typed', RunDaemon
  PROVE  RpcInv' /\ KnownIsDurable'
<1>0. Typed /\ TesterInv /\ RpcInv /\ KnownIsDurable
  BY DEF IInv
<1>1. todo # << >> /\ Head(todo).do = "runDaemon" /\ Advance
  BY DEF RunDaemon, At
<1>2. PICK i \in Servers : Head(todo).srv = i /\ Stage(i, <<"runDaemon", "init", "AddServer">>, "down", 0)
  BY <1>0, <1>1, WhichStage
<1>3. /\ proc' = [proc EXCEPT ![i] = "starting"] /\ proc[i] = "down"
      /\ inc' = [inc EXCEPT ![i] = @ + 1]
      /\ UNCHANGED <<saved, persisted, rpcs, told>>
  BY <1>2 DEF RunDaemon, Stage
<1>4. \A j \in Servers : Durable(j)' = Durable(j) /\ inc[j] <= inc'[j]
  BY <1>0, <1>3, SMT DEF Durable, Typed
<1>5. ASSUME NEW r \in Rpc, RpcOK(r)
      PROVE  RpcOK(r)'
  <2>1. r.end.to \in Servers /\ r.srv \in Nat
    BY RpcFields
  <2>n. inc[r.end.to] \in Nat
    BY <1>0, <2>1 DEF Typed
  <2>0. r.end.to = i => inc'[r.end.to] = inc[r.end.to] + 1
    BY <1>0, <1>3, <2>1 DEF Typed
  <2>p. r.end.to # i => inc'[r.end.to] = inc[r.end.to] /\ proc'[r.end.to] = proc[r.end.to]
    BY <1>0, <1>3, <2>1 DEF Typed
  <2>2. Gone(r) => Gone(r)'
    BY <2>0, <2>1, <2>n, <2>p, SMT DEF Gone
  <2>3. Alive(r.end.to) => Alive(r.end.to)' /\ inc'[r.end.to] = inc[r.end.to]
    BY <1>0, <1>3, <2>1 DEF Alive, Typed
  <2> QED BY <1>0, <1>4, <1>5, <2>2, <2>3, RpcMoves
<1> QED BY <1>0, <1>3, <1>4, <1>5, AllRpcs

LEMMA RpcInitialized ==
  ASSUME IInv, Typed', InitDaemon
  PROVE  RpcInv' /\ KnownIsDurable'
<1>0. Typed /\ TesterInv /\ RpcInv /\ KnownIsDurable
  BY DEF IInv
<1>1. todo # << >> /\ Head(todo).do = "init" /\ Advance
  BY DEF InitDaemon, At
<1>2. PICK i \in Servers : Head(todo).srv = i /\ Stage(i, <<"init", "AddServer">>, "starting", 0)
  BY <1>0, <1>1, WhichStage
<1>3. /\ proc' = [proc EXCEPT ![i] = "up"] /\ proc[i] = "starting"
      /\ persisted' = [persisted EXCEPT ![i] = saved[i]]
      /\ UNCHANGED <<inc, saved, rpcs, told>>
  BY <1>2 DEF InitDaemon, Stage, Restored
<1>4. \A j \in Servers : Durable(j)' = Durable(j) /\ inc[j] <= inc'[j]
  BY <1>0, <1>3, SMT DEF Durable, Typed
<1>5. ASSUME NEW r \in Rpc, RpcOK(r)
      PROVE  RpcOK(r)'
  <2>1. r.end.to \in Servers
    BY RpcFields
  <2>2. Gone(r) => Gone(r)'
    BY <1>0, <1>3, <2>1 DEF Gone, Typed
  <2>3. Alive(r.end.to) => Alive(r.end.to)' /\ inc'[r.end.to] = inc[r.end.to]
    BY <1>0, <1>3, <2>1 DEF Alive, Typed
  <2> QED BY <1>0, <1>4, <1>5, <2>2, <2>3, RpcMoves
<1> QED BY <1>0, <1>3, <1>4, <1>5, AllRpcs

LEMMA CutOK ==
  ASSUME Typed, NEW i \in Servers, NEW r \in Rpc, RpcOK(r)
  PROVE  /\ RpcOK(CutAt(i, r))
         /\ CutAt(i, r).h \in {"running", "executed"} => CutAt(i, r).end.to # i
<1>1. CASE r.end.to # i \/ r.h \notin {"running", "executed"}
  BY <1>1 DEF CutAt
<1>2. ASSUME NEW h \in {"lost", "none"}, CutAt(i, r) = [r EXCEPT !.h = h], h = "none" \/ r.st = "waiting"
      PROVE  RpcOK(CutAt(i, r)) /\ CutAt(i, r).h = h
  <2>1. PICK n : n = [r EXCEPT !.h = h]
    OBVIOUS
  <2>2. /\ n.st = r.st /\ n.srv = r.srv /\ n.h = h /\ n.end = r.end /\ n.val = r.val /\ n.rep = r.rep
    BY <2>1 DEF Rpc
  <2>3. RpcOK(n)
    BY <1>2, <2>2 DEF RpcOK
  <2> QED BY <1>2, <2>1, <2>2, <2>3
<1>3. CASE r.end.to = i /\ r.h \in {"running", "executed"} /\ r.st = "waiting"
  <2>1. CutAt(i, r) = [r EXCEPT !.h = "lost"]
    BY <1>3 DEF CutAt
  <2> QED BY <1>2, <1>3, <2>1
<1>4. CASE r.end.to = i /\ r.h \in {"running", "executed"} /\ r.st = "idle"
  <2>1. CutAt(i, r) = NoRpc
    BY <1>4 DEF CutAt
  <2> QED BY <2>1, NoRpcOK, NoRpcFacts
<1>5. CASE r.end.to = i /\ r.h \in {"running", "executed"} /\ r.st \notin {"waiting", "idle"}
  <2>1. CutAt(i, r) = [r EXCEPT !.h = "none"]
    BY <1>5 DEF CutAt
  <2> QED BY <1>2, <2>1
<1> QED BY <1>1, <1>3, <1>4, <1>5

LEMMA RpcCut ==
  ASSUME IInv, Typed', Kill
  PROVE  RpcInv' /\ KnownIsDurable'
<1>0. Typed /\ TesterInv /\ RpcInv /\ KnownIsDurable
  BY DEF IInv
<1>1. todo # << >> /\ Head(todo).do = "kill" /\ Advance
  BY DEF Kill, At
<1>2. PICK i \in Servers : Head(todo).srv = i /\ Stage(i, <<"kill">>, "copied", 0)
  BY <1>0, <1>1, WhichStage
<1>3. /\ proc' = [proc EXCEPT ![i] = "down"] /\ proc[i] = "copied"
      /\ persisted' = [persisted EXCEPT ![i] = 0]
      /\ UNCHANGED <<inc, saved, told>>
  BY <1>2 DEF Kill, Stage
<1>4. rpcs' = [s \in Slots |-> CutAt(i, rpcs[s])]
  BY <1>2 DEF Kill, CutAt
<1>5. \A j \in Servers : Durable(j)' = Durable(j) /\ inc[j] <= inc'[j]
  BY <1>0, <1>3, SMT DEF Durable, Typed
<1>6. ASSUME NEW r \in Rpc, RpcOK(r), r.h \in {"running", "executed"} => r.end.to # i
      PROVE  RpcOK(r)'
  <2>1. r.end.to \in Servers
    BY RpcFields
  <2>2. Gone(r) => Gone(r)'
    BY <1>0, <1>3, <2>1 DEF Gone, Typed
  <2>3. r.end.to # i /\ Alive(r.end.to) => Alive(r.end.to)' /\ inc'[r.end.to] = inc[r.end.to]
    BY <1>0, <1>3, <2>1 DEF Alive, Typed
  <2> QED BY <1>0, <1>5, <1>6, <2>2, <2>3, RpcMoves
<1>7. RpcInv'
  <2> SUFFICES ASSUME NEW s \in Slots
               PROVE  RpcOK(rpcs[s])'
    BY DEF RpcInv
  <2>1. PICK r \in Rpc : r = rpcs[s]
    BY <1>0 DEF Typed
  <2>2. PICK n \in Rpc : n = CutAt(i, r)
    BY <2>1, CutType
  <2>3. RpcOK(r)
    BY <1>0, <2>1 DEF RpcInv
  <2>4. RpcOK(n) /\ (n.h \in {"running", "executed"} => n.end.to # i)
    BY <1>0, <2>2, <2>3, CutOK
  <2>5. RpcOK(n)'
    BY <1>6, <2>4
  <2>6. rpcs'[s] = n
    BY <1>4, <2>1, <2>2
  <2> QED BY <2>5, <2>6 DEF RpcOK, Gone
<1>8. KnownIsDurable'
  BY <1>0, <1>3, <1>5 DEF KnownIsDurable
<1> QED BY <1>7, <1>8

LEMMA RpcTester ==
  ASSUME IInv, TesterStep
  PROVE  IInv'
<1>0. Typed /\ TesterInv
  BY DEF IInv
<1>1. Typed' /\ TesterInv'
  BY <1>0, TesterMoves
<1>2. CASE DisconnectStep \/ ConnectStep \/ DeleteServer \/ AddServer
  <2>1. UNCHANGED <<inc, saved, proc, persisted, rpcs, told>>
    BY <1>2 DEF DisconnectStep, ConnectStep, DeleteServer, AddServer
  <2> QED BY <1>1, <2>1, RpcElsewhere DEF IInv
<1>3. CASE CloseSockets
  BY <1>1, <1>3, RpcClosed DEF IInv
<1>4. CASE Checkpoint
  BY <1>1, <1>4, RpcCheckpointed DEF IInv
<1>5. CASE Kill
  BY <1>1, <1>5, RpcCut DEF IInv
<1>6. CASE RunDaemon
  BY <1>1, <1>6, RpcRestarted DEF IInv
<1>7. CASE InitDaemon
  BY <1>1, <1>7, RpcInitialized DEF IInv
<1> QED BY <1>2, <1>3, <1>4, <1>5, <1>6, <1>7 DEF TesterStep

LEMMA RpcNetwork ==
  ASSUME IInv, NEW s \in Slots, Network(s)
  PROVE  IInv'
<1>1. Typed' /\ RpcInv' /\ KnownIsDurable'
  BY RpcAccepted, RpcDropped, RpcDispatched, RpcGivenUp, RpcChecked, RpcReturned DEF Network
<1>2. UNCHANGED <<tester, proc>>
  BY DEF Network, Accept, DropRequest, Dispatch, GiveUp, Check, Return
<1> QED BY <1>1, <1>2, Unmoved DEF IInv

LEMMA InitFacts == Init => IInv
<1> SUFFICES ASSUME Init
             PROVE  IInv
  OBVIOUS
<1>1. todo \in Seq(Step)
  BY SMT DEF Init
<1>2. Typed
  BY <1>1, NoRpcFacts, SMT DEF Init, Typed
<1>3. \A i \in Servers : Settled(i)
  BY DEF Init, Settled
<1>4. \A e \in enabled : e.from \in Servers => e.inc \in 1..inc[e.from]
  BY SMT DEF Init
<1>5. \A i, j \in Servers : EndOf(i, j) \in enabled
  BY DEF Init, EndOf, Incarnation, Callers
<1>6. LinksOK(Servers)
  BY <1>5 DEF LinksOK, Linked, Init
<1>7. TesterInv
  BY <1>3, <1>4, <1>6 DEF TesterInv, Quiet, Init
<1>8. RpcInv
  BY <1>2, NoRpcOK DEF RpcInv, Init
<1>9. KnownIsDurable
  BY SMT DEF KnownIsDurable, Durable, Init
<1> QED BY <1>2, <1>7, <1>8, <1>9 DEF IInv

LEMMA NextFacts == IInv /\ [Next]_vars => IInv'
<1> SUFFICES ASSUME IInv, [Next]_vars
             PROVE  IInv'
  OBVIOUS
<1>0. Typed /\ TesterInv
  BY DEF IInv
<1>1. ASSUME NEW i \in Servers, ShutdownServer(i) \/ StartServer(i) \/ ConnectOne(i) \/ DisconnectAll(i)
      PROVE  IInv'
  <2>1. Typed' /\ TesterInv'
    BY <1>0, <1>1, BeginShutdown, BeginStart, BeginConnect, BeginDisconnect
  <2>2. UNCHANGED <<inc, saved, proc, persisted, rpcs, told>>
    BY <1>1 DEF ShutdownServer, StartServer, ConnectOne, DisconnectAll, Begin
  <2> QED BY <2>1, <2>2, RpcElsewhere DEF IInv
<1>2. ASSUME NEW p \in SUBSET Servers, Partition(p)
      PROVE  IInv'
  <2>1. Typed' /\ TesterInv'
    BY <1>0, <1>2, BeginPartition
  <2>2. UNCHANGED <<inc, saved, proc, persisted, rpcs, told>>
    BY <1>2 DEF Partition, Begin
  <2> QED BY <2>1, <2>2, RpcElsewhere DEF IInv
<1>3. ASSUME NEW i \in Servers, Save(i)
      PROVE  IInv'
  <2>1. UNCHANGED <<tester, proc>>
    BY <1>3 DEF Save
  <2> QED BY <1>0, <1>3, <2>1, Unmoved, RpcSaves DEF IInv
<1>4. CASE TesterStep
  BY <1>4, RpcTester
<1>5. ASSUME NEW s \in Slots, NEW p \in Callers, NEW j \in Servers, Call(s, p, j)
      PROVE  IInv'
  <2>1. UNCHANGED <<tester, proc>>
    BY <1>5 DEF Call
  <2> QED BY <1>0, <1>5, <2>1, Unmoved, RpcCalls DEF IInv
<1>6. ASSUME NEW s \in Slots, Execute(s)
      PROVE  IInv'
  <2>1. UNCHANGED <<tester, proc>>
    BY <1>6 DEF Execute
  <2> QED BY <1>0, <1>6, <2>1, Unmoved, RpcExecuted DEF IInv
<1>7. ASSUME NEW s \in Slots, Answer(s)
      PROVE  IInv'
  <2>1. UNCHANGED <<tester, proc>>
    BY <1>7 DEF Answer
  <2> QED BY <1>0, <1>7, <2>1, Unmoved, RpcAnswers DEF IInv
<1>8. ASSUME NEW s \in Slots, Network(s)
      PROVE  IInv'
  BY <1>8, RpcNetwork
<1>9. CASE UNCHANGED vars
  <2>1. UNCHANGED <<tester, proc>> /\ UNCHANGED <<inc, saved, proc, persisted, rpcs, told>>
    BY <1>9 DEF vars, tester
  <2>2. Typed'
    BY <1>0, <1>9 DEF Typed, vars, tester
  <2> QED BY <1>0, <2>1, <2>2, Unmoved, RpcElsewhere DEF IInv
<1> QED BY <1>1, <1>2, <1>3, <1>4, <1>5, <1>6, <1>7, <1>8, <1>9 DEF Next

\* Whatever the tester shuts down, restarts, partitions or reconnects, and
\* whenever handlers, replies and saves fall into it, nothing a server let
\* another server or a Clerk know is missing from what it restarts with
\* (ShutdownServer, CheckpointPersister, processReq).
THEOREM KnownStaysDurable == Spec => []KnownIsDurable
<1>1. IInv => KnownIsDurable
  BY DEF IInv
<1> QED BY InitFacts, NextFacts, <1>1, PTL DEF Spec

\* Whenever the tester is between two operations, the enabled ends are
\* exactly those its connects, disconnects, partitions and restarts call for.
THEOREM LinksAlwaysMatch == Spec => []LinksMatchConnected
<1>1. IInv => LinksMatchConnected
  <2> SUFFICES ASSUME IInv, todo = << >>
               PROVE  \A i, j \in Servers :
                        EndOf(i, j) \in enabled <=> connected[i] /\ connected[j] /\ {i, j} \notin split
    BY DEF LinksMatchConnected
  <2>1. LinksOK(Servers)
    BY AtRest DEF IInv
  <2> QED BY <2>1 DEF LinksOK, Linked
<1> QED BY InitFacts, NextFacts, <1>1, PTL DEF Spec
=============================================================================
