---------------------------- MODULE KVTestProofs ----------------------------
(***************************************************************************)
(* Proofs about KVTest and the Clnts it works with: which servers a Clerk  *)
(* reaches while a test runs, and what is left in the Network at its end,  *)
(* for any clients, rounds and servers.  Whether Config.Cleanup may come   *)
(* while a goroutine still calls depends on where every goroutine of the   *)
(* test is, so the invariant follows all of them.                          *)
(***************************************************************************)
EXTENDS KVTest, TLAPS

USE Zenon

(***************************************************************************)
(* The inductive invariant: of the ends,                                   *)
(***************************************************************************)
EndTypes ==
  /\ clerks \subseteq Clients /\ cleaned \in BOOLEAN
  /\ srvs \in [Clients -> SUBSET Servers]
  /\ ends \subseteq Clients \X Servers /\ netEnds \subseteq ends /\ enabled \subseteq ends
  /\ cleaned => clerks = {}
  /\ most \in [Clients -> SUBSET Servers] /\ least \in [Clients -> SUBSET Servers]

Bounds == \A c \in Clients : srvs[c] \subseteq most[c] /\ least[c] \subseteq srvs[c]

\* The ends of a Clnt that can be deleted are in the Network, and the others
\* in the Network were made too late.
Owned ==
  /\ \A e \in ends : e[1] \in clerks => e \in netEnds
  /\ \A e \in netEnds : e[1] \in clerks \/ e \in stray

EndInv == EndTypes /\ Bounds /\ Owned /\ Confined /\ Reaching /\ NoFatal

(***************************************************************************)
(* and of the goroutines.                                                  *)
(***************************************************************************)
MainBusy == {"create", "checkPuts", "checkAppends", "first", "second", "checkSecond", "checkAgain", "third",
             "checkThird", "checkLast"}
ClientBusy == {"put", "get", "appendGet", "appendPut", "once"}
BusyLocs(c) == IF c = Main THEN MainBusy ELSE ClientBusy
Busy(c) == pc[c] \in BusyLocs(c)

Types ==
  /\ got \in Nat /\ round \in 0..Len(Teams)
  /\ kind \in {"puts", "partitioned", "appends", "partition", "clnts"}

Calling == \A c \in Clients : call[c] # NoCall => Busy(c)

\* A client whose goroutine has not begun has no ends.
Fresh == \A c \in Spawned : pc[c] \in {"new", "start"} => \A e \in ends : e[1] # c

\* A goroutine that may call has its Clnt.
Active == {"top", "put", "get", "appendGet", "appendPut", "submit", "once", "result"}
Holding ==
  /\ pc[Main] # "end" => Main \in clerks
  /\ \A c \in Spawned : pc[c] \in Active => c \in clerks
  /\ kind # "clnts" => stray = {}

Closing == cleaned <=> pc[Main] = "end"

\* SpawnClientsAndWait: the clients of the rounds to come have not begun, and
\* those of the rounds before have sent their results.
Over(c) == pc[c] \in {"delete", "gone"}
After == {"checkPuts", "checkAppends", "stop", "ack", "spawn", "cleanup", "end"}
Rounds == kind \in {"puts", "partitioned", "appends"}
RoundLocs == {"begin", "create", "spawn", "sleep", "done", "sent", "collect", "checkPuts", "checkAppends", "stop", "ack",
              "cleanup", "end", "failed"}
RoundClientLocs == {"new", "start", "top", "put", "get", "appendGet", "appendPut", "result", "delete", "gone", "failed"}
RoundsInv ==
  /\ pc[Main] \in RoundLocs /\ \A c \in Spawned : pc[c] \in RoundClientLocs
  /\ kind = "appends" => round <= 1
  /\ pc[Main] \in {"begin", "create"} => round = 0
  /\ \A r \in DOMAIN Teams : r > round => \A c \in Team(r) : pc[c] = "new"
  /\ \A r \in 1..round : r < round \/ pc[Main] \in After => \A c \in Team(r) : Over(c)
  /\ pc[Main] = "collect" => \A c \in Spawned, i \in 1..got : c = Teams[round][i] => Over(c)

\* TestOnePartition4B: where the Rival is, by where the test is.
Before == {"begin", "first"}
Split == {"second", "checkSecond"}
Cut == {"select", "checkAgain", "third", "checkThird", "heal", "reconnect", "wait"}
Joined == {"checkLast", "cleanup", "end"}
RivalLocs == {"submit", "once", "result", "failed"}
PartitionInv ==
  /\ pc[Main] \in Before \cup Split \cup Cut \cup Joined \cup {"failed"}
  /\ \A c \in Spawned \ {Rival} : pc[c] = "new"
  /\ pc[Main] \in Before => pc[Rival] = "new"
  /\ pc[Main] \in Split => pc[Rival] = "new" /\ Rival \in clerks
  /\ pc[Main] \in Cut => pc[Rival] \in RivalLocs
  /\ pc[Main] \in Joined => pc[Rival] = "gone"
  /\ pc[Main] = "failed" => pc[Rival] \in RivalLocs \cup {"new", "gone"}

ApiInv == pc[Main] \in {"begin", "api", "cleanup", "end"} /\ \A c \in Spawned : pc[c] \in {"new", "made"}

TestInv ==
  /\ Rounds => RoundsInv
  /\ kind = "partition" => PartitionInv
  /\ kind = "clnts" => ApiInv

Core ==
  /\ DOMAIN pc = Clients /\ DOMAIN call = Clients
  /\ EndInv /\ Calling /\ Fresh /\ Holding /\ Closing

IInv == Types /\ Core /\ TestInv

(***************************************************************************)
(* The constants.                                                          *)
(***************************************************************************)
LEMMA Teaming ==
  /\ Teams \in Seq(Seq(Clients)) /\ Len(Teams) \in Nat /\ 1 \in DOMAIN Teams /\ DOMAIN Teams = 1..Len(Teams)
  /\ \A r \in DOMAIN Teams : /\ Len(Teams[r]) \in Nat
                             /\ \A i \in 1..Len(Teams[r]) : Teams[r][i] \in Team(r)
                             /\ \A c \in Team(r) : \E i \in 1..Len(Teams[r]) : c = Teams[r][i]
  BY KVTestAssumption, SMT DEF Team, Range

LEMMA Who ==
  /\ Clerks = Clients /\ Main \in Clients /\ Main \notin Spawned /\ Clients = Spawned \cup {Main}
  /\ Rival \in Team(1) /\ Rival \in Spawned /\ Rival \in Clients /\ Rival # Main
  /\ \A r \in DOMAIN Teams : Team(r) \subseteq Spawned
  /\ \A c \in Spawned : c \in Clients /\ c # Main /\ \E r \in DOMAIN Teams : c \in Team(r)
<1>1. Rival \in Team(1)
  BY KVTestAssumption, Teaming, SMT DEF Rival, Team, Range
<1>2. \A c : c \in Spawned <=> \E r \in DOMAIN Teams : c \in Team(r)
  BY DEF Spawned
<1>3. Clerks = Clients /\ Main \notin Spawned /\ Clients = Spawned \cup {Main} /\ 1 \in DOMAIN Teams
  BY KVTestAssumption, Teaming
<1>4. Rival \in Spawned
  BY <1>1, <1>2, <1>3
<1>5. \A c \in Spawned : c \in Clients /\ c # Main
  BY <1>3
<1> QED
  BY <1>1, <1>2, <1>3, <1>4, <1>5

LEMMA Disjoint ==
  ASSUME NEW r \in DOMAIN Teams, NEW s \in DOMAIN Teams, NEW c \in Team(r), c \in Team(s)
  PROVE  r = s
  BY KVTestAssumption

(***************************************************************************)
(* The operations of the Clnts keep EndInv.                                *)
(***************************************************************************)
LEMMA EndsSame ==
  ASSUME EndInv, UNCHANGED clntVars
  PROVE  EndInv'
  BY SMT DEF EndInv, EndTypes, Bounds, Owned, Confined, Reaching, NoFatal, clntVars

LEMMA EndsMakeClientTo ==
  ASSUME EndInv, NEW c \in Clients, NEW to \in SUBSET Servers, ~cleaned,
         \A e \in ends : e[1] # c, MakeClientTo(c, to)
  PROVE  EndInv'
<1> USE DEF MakeClientTo, Remember
<1>1. EndTypes'
  BY SMT DEF EndInv, EndTypes
<1>2. Bounds'
  BY SMT DEF EndInv, EndTypes, Bounds
<1>3. Owned'
  BY DEF EndInv, EndTypes, Owned
<1>4. \A e \in ends : e[1] \in Clients /\ most'[e[1]] = most[e[1]] /\ least'[e[1]] = least[e[1]]
  BY SMT DEF EndInv, EndTypes
<1>5. Confined' /\ Reaching'
  BY <1>4 DEF EndInv, EndTypes, Confined, Reaching
<1> QED
  BY <1>1, <1>2, <1>3, <1>5 DEF EndInv, NoFatal

LEMMA EndsMakeEnd ==
  ASSUME EndInv, NEW c \in Clients, NEW s \in Servers, makeEnd(c, s)
  PROVE  EndInv'
<1> PICK e : e = <<c, s>>
  OBVIOUS
<1>e. e \in Clients \X Servers /\ e[1] = c /\ e[2] = s /\ e \notin ends
  BY SMT DEF makeEnd
<1>1. /\ ends' = ends \cup {e} /\ netEnds' = netEnds \cup {e}
      /\ enabled' = IF allowed(c, s) THEN enabled \cup {e} ELSE enabled \ {e}
      /\ stray' = IF c \in clerks THEN stray ELSE stray \cup {e}
      /\ UNCHANGED <<clerks, cleaned, srvs, fatal, most, least>>
  BY DEF makeEnd, NetMakeEnd, Enable
<1>2. enabled' \subseteq enabled \cup {e} /\ enabled \subseteq enabled'
  BY <1>1, <1>e DEF EndInv, EndTypes
<1>3. EndTypes' /\ Bounds'
  BY <1>1, <1>2, <1>e DEF EndInv, EndTypes, Bounds
<1>4. Owned'
  BY <1>1, <1>e DEF EndInv, Owned
<1>b. (allowed(c, s) => s \in most[c]) /\ (s \in least[c] => allowed(c, s))
  BY DEF EndInv, Bounds, allowed
<1>5. Confined'
  <2>1. e \in enabled' => allowed(c, s)
    BY <1>1
  <2>2. \A f \in enabled' \cap netEnds' : f \in enabled \cap netEnds \/ f = e
    BY <1>1, <1>2
  <2> QED
    BY <1>1, <1>e, <1>b, <2>1, <2>2 DEF EndInv, Confined
<1>6. Reaching'
  <2>1. allowed(c, s) => e \in enabled'
    BY <1>1
  <2> QED
    BY <1>1, <1>2, <1>e, <1>b, <2>1 DEF EndInv, Reaching
<1> QED
  BY <1>1, <1>3, <1>4, <1>5, <1>6 DEF EndInv, NoFatal

\* What the operations that connect and disconnect have in common.
LEMMA EndsSet ==
  ASSUME EndInv, NEW c \in Clients, EndTypes', Bounds',
         \A d \in Clients : d # c => most'[d] = most[d] /\ least'[d] = least[d],
         \A e \in ends : e[1] # c => (e \in enabled' <=> e \in enabled),
         \A e \in netEnds : e[1] = c /\ e \in enabled' => e[2] \in most'[c],
         \A e \in netEnds : e[1] = c /\ e[2] \in least'[c] => e \in enabled',
         UNCHANGED <<clerks, ends, netEnds, fatal, stray>>
  PROVE  EndInv'
<1>3. Owned' /\ NoFatal'
  BY DEF EndInv, Owned, NoFatal
<1>6. \A e \in netEnds : e[1] \in Clients /\ e \in ends
  BY SMT DEF EndInv, EndTypes
<1>7. Confined' /\ Reaching'
  BY <1>6 DEF EndInv, Confined, Reaching
<1> QED
  BY <1>3, <1>7 DEF EndInv

LEMMA EndsConnectAll ==
  ASSUME EndInv, NEW c \in Clients, ConnectAll(c)
  PROVE  EndInv'
<1>1. \A e \in netEnds : e \in ends /\ e[2] \in Servers
  BY SMT DEF EndInv, EndTypes
<1>2. enabled' \subseteq ends /\ \A e \in ends : e \in enabled' <=> e \in enabled \/ e[1] = c
  BY DEF ConnectAll, Enable, EndsOf, EndInv, EndTypes
<1>3. /\ EndTypes' /\ Bounds' /\ most'[c] = Servers
      /\ \A d \in Clients : d # c => most'[d] = most[d] /\ least'[d] = least[d]
  BY <1>2, SMT DEF EndInv, EndTypes, Bounds, ConnectAll, Remember
<1> QED
  BY <1>1, <1>2, <1>3, EndsSet DEF ConnectAll

LEMMA EndsDisconnectAll ==
  ASSUME EndInv, NEW c \in Clients, DisconnectAll(c)
  PROVE  EndInv'
<1>1. \A e \in netEnds : e \in ends
  BY DEF EndInv, EndTypes
<1>2. enabled' \subseteq ends /\ \A e \in ends : e \in enabled' <=> e \in enabled /\ e[1] # c
  BY DEF DisconnectAll, Enable, EndsOf, EndInv, EndTypes
<1>3. /\ EndTypes' /\ Bounds' /\ least'[c] = {}
      /\ \A d \in Clients : d # c => most'[d] = most[d] /\ least'[d] = least[d]
  BY <1>2, SMT DEF EndInv, EndTypes, Bounds, DisconnectAll, Remember
<1> QED
  BY <1>1, <1>2, <1>3, EndsSet DEF DisconnectAll

LEMMA EndsConnectTo ==
  ASSUME EndInv, NEW c \in Clients, NEW to \in SUBSET Servers, ConnectTo(c, to)
  PROVE  EndInv'
<1>1. \A e \in netEnds : e \in ends
  BY DEF EndInv, EndTypes
<1>2. enabled' \subseteq ends /\ \A e \in ends : e \in enabled' <=> e \in enabled \/ (e[1] = c /\ e[2] \in to)
  BY DEF ConnectTo, Enable, EndsOf, EndInv, EndTypes
<1>3. /\ EndTypes' /\ Bounds' /\ most'[c] = most[c] \cup to /\ least'[c] = to
      /\ \A d \in Clients : d # c => most'[d] = most[d] /\ least'[d] = least[d]
  BY <1>2, SMT DEF EndInv, EndTypes, Bounds, ConnectTo, Remember
<1>4. \A e \in netEnds : e[1] = c /\ e \in enabled => e[2] \in most[c]
  BY DEF EndInv, Confined
<1> QED
  BY <1>1, <1>2, <1>3, <1>4, EndsSet DEF ConnectTo

LEMMA EndsDisconnect ==
  ASSUME EndInv, NEW c \in Clients, NEW s \in Servers, Disconnect(c, s)
  PROVE  EndInv'
<1>1. enabled' = enabled \ {e \in ends : e[1] = c /\ e = <<c, s>>}
  BY DEF Disconnect, Enable, EndsOf
<1>2. \A e \in ends : e[1] = c /\ e = <<c, s>> => e[2] = s
  BY SMT
<1>3. enabled' \subseteq ends
  BY <1>1 DEF EndInv, EndTypes
<1>4. /\ EndTypes' /\ Bounds' /\ most'[c] = most[c] /\ least'[c] = least[c] \ {s}
      /\ \A d \in Clients : d # c => most'[d] = most[d] /\ least'[d] = least[d]
  BY <1>3, SMT DEF EndInv, EndTypes, Bounds, Disconnect, Remember
<1>5. /\ \A e \in netEnds : e[1] = c /\ e \in enabled' => e[2] \in most[c]
      /\ \A e \in netEnds : e[1] = c /\ e[2] \in least[c] \ {s} => e \in enabled'
  BY <1>1, <1>2 DEF EndInv, Confined, Reaching
<1> QED
  BY <1>1, <1>4, <1>5, EndsSet DEF Disconnect

\* Clnt.remove of Clnts that are in the map finds their ends in the Network.
LEMMA EndsRemove ==
  ASSUME EndInv, NEW S, S \subseteq clerks, remove(S), clerks' = clerks \ S,
         cleaned' \in BOOLEAN, cleaned => cleaned', cleaned' => clerks' = {},
         UNCHANGED <<srvs, ends, most, least, stray>>
  PROVE  EndInv'
<1> PICK gone : gone = UNION {EndsOf(c) : c \in S}
  OBVIOUS
<1>1. \A e : e \in gone <=> e \in ends /\ e[1] \in S
  <2>1. \A e : e \in gone <=> \E c \in S : e \in EndsOf(c)
    OBVIOUS
  <2>2. \A e, c : e \in EndsOf(c) <=> e \in ends /\ e[1] = c
    BY DEF EndsOf
  <2> QED
    BY <2>1, <2>2
<1>2. gone \subseteq netEnds
  BY <1>1 DEF EndInv, Owned
<1>3. netEnds' = netEnds \ gone /\ enabled' = enabled \ gone /\ ~fatal'
  BY <1>2 DEF remove, NetDeleteEnds
<1>4. EndTypes' /\ Bounds' /\ NoFatal'
  BY <1>3 DEF EndInv, EndTypes, Bounds, NoFatal
<1>5. Owned'
  BY <1>1, <1>3 DEF EndInv, EndTypes, Owned
<1>6. Confined' /\ Reaching'
  BY <1>3 DEF EndInv, Confined, Reaching
<1> QED
  BY <1>4, <1>5, <1>6 DEF EndInv

LEMMA EndsDeleteClient ==
  ASSUME EndInv, NEW c \in Clients, DeleteClient(c)
  PROVE  EndInv'
<1>1. CASE c \in clerks
  BY <1>1, EndsRemove DEF DeleteClient, EndInv, EndTypes
<1>2. CASE c \notin clerks
  <2>1. clerks' = clerks
    BY <1>2 DEF DeleteClient
  <2> QED
    BY <1>2, <2>1, EndsSame DEF DeleteClient, clntVars
<1> QED
  BY <1>1, <1>2

LEMMA EndsCleanup ==
  ASSUME EndInv, cleanup
  PROVE  EndInv'
  BY EndsRemove DEF cleanup

(***************************************************************************)
(* Goroutines that move, and the Clnts they hold.  A goroutine stays where *)
(* it is, or makes a step to a place where it may be calling only if it is *)
(* one for a call, with a Clnt if that is needed there.                    *)
(***************************************************************************)
Stays(c) == pc'[c] = pc[c] /\ (call'[c] = call[c] \/ call'[c] = NoCall \/ Busy(c))
Steps(c) ==
  /\ call'[c] = NoCall \/ pc'[c] \in BusyLocs(c)
  /\ pc'[c] # "new" /\ (pc'[c] = "start" => pc[c] = "new")
  /\ c = Main => pc[c] # "end" /\ pc'[c] # "end"
  /\ c # Main /\ pc'[c] \in Active => c \in clerks'

LEMMA CoreKept ==
  ASSUME Core, DOMAIN pc' = Clients, DOMAIN call' = Clients, EndInv',
         \A c \in Clients : Stays(c) \/ Steps(c),
         \A c \in clerks : c \in clerks' \/ (c # Main /\ pc'[c] \notin Active),
         UNCHANGED <<kind, ends, stray, cleaned>>
  PROVE  Core'
<1>1. Calling'
  BY DEF Core, Calling, Stays, Steps, Busy, BusyLocs
<1>2. Fresh'
  BY Who DEF Core, Fresh, Stays, Steps
<1>3. Holding'
  BY Who DEF Core, Holding, Stays, Steps
<1>4. Closing'
  BY Who DEF Core, Closing, Stays, Steps
<1> QED
  BY <1>1, <1>2, <1>3, <1>4 DEF Core

\* One goroutine moves to loc, where it calls or not.
Calls(c, loc) ==
  \/ call[c] = NoCall /\ call' = call
  \/ loc \in BusyLocs(c) /\ \E op : call' = [call EXCEPT ![c] = op]

LEMMA Moved ==
  ASSUME Core, NEW c \in Clients, NEW loc, pc' = [pc EXCEPT ![c] = loc], Calls(c, loc),
         loc # "new", loc = "start" => pc[c] = "new",
         c = Main => pc[c] # "end" /\ loc # "end",
         c # Main /\ loc \in Active => c \in clerks'
  PROVE  /\ DOMAIN pc' = Clients /\ DOMAIN call' = Clients /\ pc'[c] = loc
         /\ \A d \in Clients : d # c => pc'[d] = pc[d]
         /\ \A d \in Clients : Stays(d) \/ Steps(d)
<1>1. DOMAIN pc' = Clients /\ DOMAIN call' = Clients /\ pc'[c] = loc
  BY SMT DEF Core, Calls
<1>2. \A d \in Clients : d # c => pc'[d] = pc[d] /\ call'[d] = call[d]
  BY SMT DEF Core, Calls
<1>3. Steps(c)
  BY <1>1 DEF Steps, Calls
<1> QED
  BY <1>1, <1>2, <1>3 DEF Stays

LEMMA Invoking ==
  ASSUME NEW c
  PROVE  /\ GetK(c) => call[c] = NoCall /\ \E op : call' = [call EXCEPT ![c] = op]
         /\ \A v, n : PutK(c, v, n) => call[c] = NoCall /\ \E op : call' = [call EXCEPT ![c] = op]
         /\ TestGet(c) => GetK(c)
         /\ \A v, n : TestPut(c, v, n) => PutK(c, v, n)
         /\ NoInvoke => call' = call
  BY DEF GetK, PutK, TestGet, TestPut, Invoke, NoInvoke, kvVars

(***************************************************************************)
(* Which test it is, from where its goroutines are.                        *)
(***************************************************************************)
LEMMA InRounds ==
  ASSUME Types, TestInv,
         \/ pc[Main] \in {"create", "spawn", "sleep", "done", "sent", "collect", "checkPuts", "checkAppends", "stop",
                          "ack"}
         \/ \E c \in Spawned : pc[c] \in {"start", "top", "put", "get", "appendGet", "appendPut", "delete"}
  PROVE  Rounds /\ RoundsInv
<1>1. kind # "partition"
  BY SMT DEF TestInv, PartitionInv, Before, Split, Cut, Joined, RivalLocs
<1>2. kind # "clnts"
  BY SMT DEF TestInv, ApiInv
<1> QED
  BY <1>1, <1>2, SMT DEF Types, TestInv, Rounds

LEMMA InPartition ==
  ASSUME Types, TestInv,
         \/ pc[Main] \in {"first", "second", "checkSecond", "select", "checkAgain", "third", "checkThird", "heal",
                          "reconnect", "wait", "checkLast"}
         \/ \E c \in Spawned : pc[c] \in {"submit", "once"}
  PROVE  kind = "partition" /\ PartitionInv
<1>1. ~Rounds
  BY SMT DEF TestInv, RoundsInv, RoundLocs, RoundClientLocs
<1>2. kind # "clnts"
  BY SMT DEF TestInv, ApiInv
<1> QED
  BY <1>1, <1>2, SMT DEF Types, TestInv, Rounds

LEMMA InApi ==
  ASSUME Types, TestInv, pc[Main] = "api" \/ \E c \in Spawned : pc[c] = "made"
  PROVE  kind = "clnts" /\ ApiInv
<1>1. ~Rounds
  BY SMT DEF TestInv, RoundsInv, RoundLocs, RoundClientLocs
<1>2. kind # "partition"
  BY SMT DEF TestInv, PartitionInv, Before, Split, Cut, Joined, RivalLocs
<1> QED
  BY <1>1, <1>2, SMT DEF Types, TestInv, Rounds

(***************************************************************************)
(* The steps, by what they move.  Nobody moves:                            *)
(***************************************************************************)
LEMMA TestWaits ==
  ASSUME TestInv, UNCHANGED <<kind, pc, round, got>>, clerks \subseteq clerks'
  PROVE  TestInv'
<1>1. Rounds' => RoundsInv'
  BY DEF TestInv, Rounds, RoundsInv, Over
<1>2. kind' = "partition" => PartitionInv'
  BY DEF TestInv, PartitionInv
<1>3. kind' = "clnts" => ApiInv'
  BY DEF TestInv, ApiInv
<1> QED
  BY <1>1, <1>2, <1>3 DEF TestInv

LEMMA Waits ==
  ASSUME IInv, UNCHANGED <<kind, pc, round, got, clntVars>>, DOMAIN call' = Clients,
         \A c \in Clients : call'[c] = call[c] \/ call'[c] = NoCall \/ Busy(c)
  PROVE  IInv'
<1>1. EndInv'
  BY EndsSame DEF IInv, Core
<1>2. \A c \in Clients : Stays(c)
  BY DEF Stays
<1>3. Core'
  BY <1>1, <1>2, CoreKept DEF IInv, Core, clntVars
<1>4. TestInv'
  BY TestWaits DEF IInv, clntVars
<1> QED
  BY <1>3, <1>4 DEF IInv, Types

LEMMA WaitsCalling ==
  ASSUME IInv, UNCHANGED <<kind, pc, round, got, clntVars>>, NEW c \in Clients,
         Busy(c) \/ (\E op : op = NoCall /\ call' = [call EXCEPT ![c] = op]) \/ call' = call,
         call' = call \/ \E op : call' = [call EXCEPT ![c] = op]
  PROVE  IInv'
<1>1. DOMAIN call = Clients
  BY DEF IInv, Core
<1>2. DOMAIN call' = Clients /\ \A d \in Clients : d # c => call'[d] = call[d]
  BY <1>1, SMT
<1>3. call'[c] = call[c] \/ call'[c] = NoCall \/ Busy(c)
  BY <1>1, SMT
<1> QED
  BY <1>2, <1>3, Waits

(***************************************************************************)
(* In SpawnClientsAndWait: any goroutines, one client, or the test's own.  *)
(***************************************************************************)
LEMMA RoundsKept ==
  ASSUME Types, RoundsInv, UNCHANGED <<kind, round>>, pc'[Main] \in RoundLocs,
         \A c \in Spawned : /\ pc'[c] \in RoundClientLocs
                            /\ pc[c] = "new" => pc'[c] = "new"
                            /\ Over(c) => Over(c)',
         pc'[Main] \in {"begin", "create"} => round = 0,
         pc'[Main] \in After => pc[Main] \in After \/ round = 0 \/ \A c \in Team(round) : Over(c)',
         pc'[Main] = "collect" => \A c \in Spawned, i \in 1..got' : c = Teams[round][i] => Over(c)'
  PROVE  RoundsInv'
<1>1. \A r \in DOMAIN Teams : r > round => \A c \in Team(r) : pc'[c] = "new"
  BY Who DEF RoundsInv
<1>2. ASSUME NEW r \in 1..round, r < round \/ pc'[Main] \in After, NEW c \in Team(r)
      PROVE  Over(c)'
  <2>1. r \in DOMAIN Teams /\ round # 0 /\ (r < round \/ r = round)
    BY Teaming, SMT DEF Types
  <2>2. c \in Spawned
    BY <2>1, Who
  <2>3. CASE r < round
    BY <2>2, <2>3 DEF RoundsInv
  <2>4. CASE r = round /\ pc[Main] \in After
    BY <2>2, <2>4 DEF RoundsInv
  <2>5. CASE r = round /\ pc[Main] \notin After
    <3>1. pc'[Main] \in After
      BY <1>2, <2>5, SMT DEF Types
    <3>2. \A d \in Team(round) : Over(d)'
      BY <2>1, <2>5, <3>1
    <3> QED
      BY <1>2, <2>5, <3>2
  <2> QED
    BY <2>1, <2>3, <2>4, <2>5
<1> QED
  BY <1>1, <1>2 DEF RoundsInv

LEMMA TestOfRounds ==
  ASSUME Types, Rounds, RoundsInv', kind' = kind
  PROVE  TestInv'
  BY DEF TestInv, Rounds

ClientRuns == {"top", "put", "get", "appendGet", "appendPut"}

\* A client goes on with its loop, or fails.
LEMMA ClientMoves ==
  ASSUME IInv, NEW c \in Spawned, NEW loc \in ClientRuns \cup {"failed"}, pc[c] \in ClientRuns,
         pc' = [pc EXCEPT ![c] = loc], Calls(c, loc), UNCHANGED <<kind, round, got, clntVars>>
  PROVE  IInv'
<1>1. Rounds /\ RoundsInv
  BY InRounds, SMT DEF IInv, ClientRuns
<1>2. c \in Clients /\ c # Main /\ c \in clerks /\ loc # "new" /\ loc # "start" /\ clerks' = clerks
  <2>1. pc[c] \in Active /\ loc # "new" /\ loc # "start"
    BY SMT DEF ClientRuns, Active
  <2> QED
    BY <2>1, Who DEF IInv, Core, Holding, clntVars
<1>3. /\ DOMAIN pc' = Clients /\ DOMAIN call' = Clients /\ pc'[c] = loc
      /\ \A d \in Clients : d # c => pc'[d] = pc[d]
      /\ \A d \in Clients : Stays(d) \/ Steps(d)
  BY <1>2, Moved DEF IInv
<1>4. Core'
  BY <1>3, EndsSame, CoreKept DEF IInv, Core, clntVars
<1>5. loc \in RoundClientLocs /\ pc[c] # "new" /\ ~Over(c)
  BY SMT DEF ClientRuns, RoundClientLocs, Over
<1>6. \A d \in Clients : d # c => (Over(d)' <=> Over(d))
  BY <1>3 DEF Over
<1>7. \A d \in Spawned : pc'[d] \in RoundClientLocs /\ (pc[d] = "new" => pc'[d] = "new") /\ (Over(d) => Over(d)')
  BY <1>1, <1>3, <1>5, <1>6, Who DEF RoundsInv
<1>8. pc'[Main] = pc[Main] /\ pc[Main] \in RoundLocs
  BY <1>1, <1>2, <1>3, Who DEF RoundsInv
<1>9. pc[Main] = "collect" => \A d \in Spawned, i \in 1..got : d = Teams[round][i] => Over(d)'
  BY <1>1, <1>7 DEF RoundsInv
<1>10. RoundsInv'
  BY <1>1, <1>7, <1>8, <1>9, RoundsKept DEF IInv, RoundsInv
<1> QED
  BY <1>1, <1>4, <1>10, TestOfRounds DEF IInv, Types

\* The test's goroutine goes on.
LEMMA MainMoves ==
  ASSUME IInv, Rounds, NEW loc \in RoundLocs \ {"end"}, pc[Main] # "end",
         pc' = [pc EXCEPT ![Main] = loc], Calls(Main, loc), UNCHANGED <<kind, round, clntVars>>, got' \in Nat,
         loc \in {"begin", "create"} => round = 0,
         loc \in After => pc[Main] \in After \/ round = 0 \/ \A c \in Team(round) : Over(c),
         loc = "collect" => got' = 0
  PROVE  IInv'
<1>1. RoundsInv
  BY DEF IInv, TestInv
<1>2. loc # "new" /\ loc # "start" /\ loc # "end"
  BY SMT DEF RoundLocs
<1>4. /\ DOMAIN pc' = Clients /\ DOMAIN call' = Clients /\ pc'[Main] = loc
      /\ \A d \in Clients : d # Main => pc'[d] = pc[d]
      /\ \A d \in Clients : Stays(d) \/ Steps(d)
  BY <1>2, Who, Moved DEF IInv
<1>5. Core'
  BY <1>4, EndsSame, CoreKept DEF IInv, Core, clntVars
<1>6. \A d \in Spawned : pc'[d] = pc[d] /\ (Over(d)' <=> Over(d))
  BY <1>4, Who DEF Over
<1>7. \A d \in Spawned : pc'[d] \in RoundClientLocs /\ (pc[d] = "new" => pc'[d] = "new") /\ (Over(d) => Over(d)')
  BY <1>1, <1>6 DEF RoundsInv
<1>8. pc'[Main] \in After => pc[Main] \in After \/ round = 0 \/ \A c \in Team(round) : Over(c)'
  <2>1. round = 0 \/ round \in DOMAIN Teams
    BY Teaming, SMT DEF IInv, Types
  <2> QED
    BY <2>1, <1>4, <1>7, Who
<1>9. pc'[Main] = "collect" => \A d \in Spawned, i \in 1..got' : d = Teams[round][i] => Over(d)'
  <2>1. loc = "collect" => 1..got' = {}
    BY SMT
  <2> QED
    BY <2>1, <1>4
<1>10. RoundsInv'
  BY <1>1, <1>4, <1>7, <1>8, <1>9, RoundsKept DEF IInv
<1> QED
  BY <1>5, <1>10, TestOfRounds DEF IInv, Types

(***************************************************************************)
(* In TestOnePartition4B.                                                  *)
(***************************************************************************)
LEMMA TestOfPartition ==
  ASSUME Types, kind = "partition", PartitionInv', kind' = kind
  PROVE  TestInv'
  BY DEF TestInv, Rounds

Phases(from, to) ==
  \/ from \in Before /\ to \in Before
  \/ from \in Split /\ to \in Split
  \/ from \in Cut /\ to \in Cut
  \/ from \in Joined /\ to \in Joined
  \/ to = "failed"

LEMMA MainPartition ==
  ASSUME IInv, kind = "partition", NEW loc, loc # "end", pc[Main] # "end", Phases(pc[Main], loc),
         pc' = [pc EXCEPT ![Main] = loc], Calls(Main, loc), UNCHANGED <<kind, round, got, clerks>>, EndInv',
         UNCHANGED <<ends, stray, cleaned>>
  PROVE  IInv'
<1>1. PartitionInv
  BY DEF IInv, TestInv
<1>2. loc # "new" /\ loc # "start"
  BY SMT DEF Phases, Before, Split, Cut, Joined
<1>4. /\ DOMAIN pc' = Clients /\ DOMAIN call' = Clients /\ pc'[Main] = loc
      /\ \A d \in Clients : d # Main => pc'[d] = pc[d]
      /\ \A d \in Clients : Stays(d) \/ Steps(d)
  BY <1>2, Who, Moved DEF IInv
<1>5. Core'
  BY <1>4, CoreKept DEF IInv
<1>6. pc'[Rival] = pc[Rival] /\ \A d \in Spawned : pc'[d] = pc[d]
  BY <1>4, Who
<1>7. pc[Rival] \in RivalLocs \cup {"new", "gone"}
  BY <1>1, SMT DEF PartitionInv
<1>8. PartitionInv'
  <2>1. CASE loc = "failed"
    <3>1. loc \notin Before \cup Split \cup Cut \cup Joined
      BY <2>1, SMT DEF Before, Split, Cut, Joined
    <3> QED
      BY <2>1, <3>1, <1>1, <1>4, <1>6, <1>7 DEF PartitionInv
  <2>2. CASE loc # "failed"
    <3>1. /\ loc \in Before \cup Split \cup Cut \cup Joined
          /\ loc \in Before => pc[Main] \in Before
          /\ loc \in Split => pc[Main] \in Split
          /\ loc \in Cut => pc[Main] \in Cut
          /\ loc \in Joined => pc[Main] \in Joined
      BY <2>2, SMT DEF Phases, Before, Split, Cut, Joined
    <3> QED
      BY <2>2, <3>1, <1>1, <1>4, <1>6 DEF PartitionInv
  <2> QED
    BY <2>1, <2>2
<1> QED
  BY <1>5, <1>8, TestOfPartition DEF IInv, Types

LEMMA RivalMoves ==
  ASSUME IInv, NEW loc \in {"once", "result", "failed"}, pc[Rival] \in {"submit", "once"},
         pc' = [pc EXCEPT ![Rival] = loc], Calls(Rival, loc), UNCHANGED <<kind, round, got, clntVars>>
  PROVE  IInv'
<1>1. kind = "partition" /\ PartitionInv
  BY InPartition, Who DEF IInv
<1>2. loc # "new" /\ loc # "start" /\ pc[Rival] \in Active /\ loc \in RivalLocs /\ pc[Rival] # "gone" /\ pc[Rival] # "new"
  BY SMT DEF Active, RivalLocs
<1>4. /\ DOMAIN pc' = Clients /\ DOMAIN call' = Clients /\ pc'[Rival] = loc
      /\ \A d \in Clients : d # Rival => pc'[d] = pc[d]
      /\ \A d \in Clients : Stays(d) \/ Steps(d)
  BY <1>2, Who, Moved DEF IInv, Core, Holding, clntVars
<1>5. Core'
  BY <1>4, EndsSame, CoreKept DEF IInv, Core, clntVars
<1>6. pc'[Main] = pc[Main] /\ \A d \in Spawned \ {Rival} : pc'[d] = pc[d]
  BY <1>4, Who
<1>7. PartitionInv'
  BY <1>1, <1>2, <1>4, <1>6 DEF PartitionInv
<1> QED
  BY <1>1, <1>5, <1>7, TestOfPartition DEF IInv, Types

(***************************************************************************)
(* The calls.                                                              *)
(***************************************************************************)
LEMMA CallingNow ==
  ASSUME Core, NEW c \in Clients, call[c] # NoCall
  PROVE  Busy(c) /\ c \in clerks
<1>1. Busy(c)
  BY DEF Core, Calling
<1>2. CASE c = Main
  <2>1. pc[Main] # "end"
    BY <1>1, <1>2, SMT DEF Busy, BusyLocs, MainBusy
  <2> QED
    BY <1>1, <1>2, <2>1 DEF Core, Holding
<1>3. CASE c # Main
  <2>1. pc[c] \in Active
    BY <1>1, <1>3, SMT DEF Busy, BusyLocs, ClientBusy, Active
  <2> QED
    BY <1>1, <1>3, <2>1, Who DEF Core, Holding
<1> QED
  BY <1>2, <1>3

\* A new end is no end of a client that has not begun.
LEMMA MakesEnd ==
  ASSUME IInv, NEW c \in Clients, NEW s \in Servers, makeEnd(c, s), pc[c] \notin {"new", "start"},
         kind # "clnts" => c \in clerks, UNCHANGED <<pc, call, kind, round, got>>
  PROVE  IInv'
<1>1. EndInv'
  BY EndsMakeEnd DEF IInv, Core
<1>2. ends' = ends \cup {<<c, s>>} /\ UNCHANGED <<clerks, cleaned>> /\ (c \in clerks => stray' = stray)
  BY DEF makeEnd
<1>3. \A e \in ends' : e \in ends \/ e[1] = c
  <2>1. <<c, s>>[1] = c
    BY SMT
  <2> QED
    BY <1>2, <2>1
<1>4. Fresh'
  BY <1>3 DEF IInv, Core, Fresh
<1>5. Calling' /\ Holding' /\ Closing'
  BY <1>2 DEF IInv, Core, Calling, Busy, Holding, Closing
<1>6. TestInv'
  BY <1>2, TestWaits DEF IInv
<1> QED
  BY <1>1, <1>4, <1>5, <1>6 DEF IInv, Core, Types

LEMMA StepAttempt ==
  ASSUME IInv, NEW c \in Clients, Attempt(c)
  PROVE  IInv'
<1>1. PICK s \in Tried(c) : makeEnd(c, s)
  BY DEF Attempt
<1>2. s \in Servers
  BY KVTestAssumption DEF Tried
<1>3. Busy(c) /\ c \in clerks
  BY CallingNow DEF Attempt, IInv
<1>4. pc[c] \notin {"new", "start"}
  BY <1>3, SMT DEF Busy, BusyLocs, MainBusy, ClientBusy
<1> QED
  BY <1>1, <1>2, <1>3, <1>4, MakesEnd DEF Attempt, kvVars, testVars

LEMMA StepCall ==
  ASSUME IInv, NEW c \in Clients, CallServed(c) \/ CallReturns(c)
  PROVE  IInv'
<1>1. CASE CallServed(c)
  <2>1. call' = call
    BY <1>1 DEF CallServed, Serve, Read, Perform, Refuse
  <2> QED
    BY <1>1, <2>1, WaitsCalling DEF CallServed, testVars
<1>2. CASE CallReturns(c)
  <2>1. call' = [call EXCEPT ![c] = NoCall]
    BY <1>2 DEF CallReturns, Finish, Return
  <2>2. UNCHANGED <<kind, pc, round, got, clntVars>>
    BY <1>2 DEF CallReturns
  <2> QED
    BY <2>1, <2>2, WaitsCalling
<1> QED
  BY <1>1, <1>2

(***************************************************************************)
(* The clients.                                                            *)
(***************************************************************************)
LEMMA NotOver ==
  ASSUME IInv, NEW c \in Spawned,
         pc[c] \in {"start", "top", "put", "get", "appendGet", "appendPut", "submit", "once"}
  PROVE  ~cleaned /\ pc[Main] # "end"
<1>1. pc[Main] # "end"
  <2> SUFFICES ASSUME pc[Main] = "end"
               PROVE  FALSE
    OBVIOUS
  <2>1. CASE Rounds
    <3>1. PICK r \in DOMAIN Teams : c \in Team(r)
      BY Who
    <3>2. RoundsInv
      BY <2>1 DEF IInv, TestInv
    <3>3. r \in 1..round
      <4>1. ~(r > round)
        BY <3>1, <3>2 DEF RoundsInv
      <4> QED
        BY <4>1, Teaming, SMT DEF IInv, Types
    <3>4. Over(c)
      BY <3>1, <3>2, <3>3 DEF RoundsInv, After
    <3> QED
      BY <3>4, SMT DEF Over
  <2>2. CASE kind = "partition"
    <3>1. PartitionInv /\ pc[Main] \in Joined
      BY <2>2, SMT DEF IInv, TestInv, Joined
    <3>2. c = Rival /\ pc[c] = "gone"
      BY <3>1 DEF PartitionInv
    <3> QED
      BY <3>2, SMT
  <2>3. CASE kind = "clnts"
    <3>1. pc[c] \in {"new", "made"}
      BY <2>3 DEF IInv, TestInv, ApiInv
    <3> QED
      BY <3>1, SMT
  <2> QED
    BY <2>1, <2>2, <2>3 DEF IInv, Types, Rounds
<1> QED
  BY <1>1 DEF IInv, Core, Closing

LEMMA ClientGoes ==
  ASSUME IInv, Rounds, NEW c \in Spawned, NEW loc \in RoundClientLocs \ {"new", "start"}, pc[c] # "new",
         Over(c) => loc \in {"delete", "gone"}, pc' = [pc EXCEPT ![c] = loc], call' = call, call[c] = NoCall, EndInv',
         loc \in Active => c \in clerks', \A d \in clerks : d \in clerks' \/ (d = c /\ loc \notin Active),
         got' \in Nat,
         \A i \in 1..got' : i \in 1..got \/ (c = Teams[round][i] /\ loc \in {"delete", "gone"}),
         UNCHANGED <<kind, round, ends, stray, cleaned>>
  PROVE  IInv'
<1>1. RoundsInv
  BY DEF IInv, TestInv
<1>2. c \in Clients /\ c # Main /\ loc # "new" /\ loc # "start"
  BY Who
<1>3. Calls(c, loc)
  BY DEF Calls
<1>4. /\ DOMAIN pc' = Clients /\ DOMAIN call' = Clients /\ pc'[c] = loc
      /\ \A d \in Clients : d # c => pc'[d] = pc[d]
      /\ \A d \in Clients : Stays(d) \/ Steps(d)
  BY <1>2, <1>3, Moved DEF IInv
<1>5. Core'
  BY <1>2, <1>4, CoreKept DEF IInv
<1>6. \A d \in Spawned : pc'[d] \in RoundClientLocs /\ (pc[d] = "new" => pc'[d] = "new") /\ (Over(d) => Over(d)')
  <2>1. pc'[c] \in RoundClientLocs /\ pc[c] # "new" /\ (Over(c) => Over(c)')
    BY <1>4 DEF Over
  <2>2. \A d \in Spawned : d # c => pc'[d] = pc[d] /\ (Over(d)' <=> Over(d))
    BY <1>4, Who DEF Over
  <2> QED
    BY <1>1, <2>1, <2>2 DEF RoundsInv
<1>7. pc'[Main] = pc[Main]
  BY <1>2, <1>4, Who
<1>8. pc'[Main] = "collect" => \A d \in Spawned, i \in 1..got' : d = Teams[round][i] => Over(d)'
  <2> SUFFICES ASSUME pc[Main] = "collect", NEW d \in Spawned, NEW i \in 1..got', d = Teams[round][i]
               PROVE  Over(d)'
    BY <1>7
  <2>1. CASE i \in 1..got
    BY <2>1, <1>1, <1>6 DEF RoundsInv
  <2>2. CASE d = c /\ loc \in {"delete", "gone"}
    BY <2>2, <1>4 DEF Over
  <2> QED
    BY <2>1, <2>2
<1>9. RoundsInv'
  BY <1>1, <1>6, <1>7, <1>8, RoundsKept DEF IInv, RoundsInv
<1> QED
  BY <1>5, <1>9, TestOfRounds DEF IInv, Types

\* A client that is not at a call has none.
LEMMA Idle ==
  ASSUME Core, NEW c \in Clients, ~Busy(c)
  PROVE  call[c] = NoCall
  BY DEF Core, Calling

LEMMA StepRunClient ==
  ASSUME IInv, NEW c \in Spawned, RunClient(c)
  PROVE  IInv'
<1>1. pc[c] = "start" /\ MakeClientTo(c, Servers) /\ pc' = [pc EXCEPT ![c] = "top"] /\ call' = call
      /\ UNCHANGED <<kind, round, got>>
  BY DEF RunClient, MakeClient, Goto, Keep, NoInvoke, kvVars, ClientRest
<1>2. Rounds /\ ~cleaned /\ c \in Clients /\ c # Main
  BY <1>1, InRounds, NotOver, Who DEF IInv
<1>3. \A e \in ends : e[1] # c
  BY <1>1 DEF IInv, Core, Fresh
<1>4. EndInv'
  BY <1>1, <1>2, <1>3, EndsMakeClientTo DEF IInv, Core
<1>5. c \in clerks' /\ clerks \subseteq clerks' /\ UNCHANGED <<ends, stray, cleaned>>
  BY <1>1, <1>2 DEF MakeClientTo
<1>6. "top" \in RoundClientLocs \ {"new", "start"} /\ ~Over(c) /\ ~Busy(c) /\ pc[c] # "new"
  BY <1>1, <1>2, SMT DEF RoundClientLocs, Over, Busy, BusyLocs, ClientBusy
<1>7. call[c] = NoCall
  BY <1>2, <1>6, Idle DEF IInv
<1> QED
  BY <1>1, <1>2, <1>4, <1>5, <1>6, <1>7, ClientGoes DEF IInv, Types

LEMMA StepDeleteClerk ==
  ASSUME IInv, NEW c \in Spawned, DeleteClerk(c)
  PROVE  IInv'
<1>1. pc[c] = "delete" /\ DeleteClient(c) /\ pc' = [pc EXCEPT ![c] = "gone"] /\ call' = call
      /\ UNCHANGED <<kind, round, got>>
  BY DEF DeleteClerk, Goto, Keep, NoInvoke, kvVars, ClientRest
<1>2. Rounds /\ c \in Clients /\ c # Main
  BY <1>1, InRounds, Who DEF IInv
<1>3. EndInv'
  BY <1>1, <1>2, EndsDeleteClient DEF IInv, Core
<1>4. clerks' = clerks \ {c} /\ UNCHANGED <<ends, stray, cleaned>>
  BY <1>1 DEF DeleteClient
<1>5. "gone" \in RoundClientLocs \ {"new", "start"} /\ ~Busy(c) /\ pc[c] # "new" /\ "gone" \notin Active
  BY <1>1, <1>2, SMT DEF RoundClientLocs, Busy, BusyLocs, ClientBusy, Active
<1>6. call[c] = NoCall
  BY <1>2, <1>5, Idle DEF IInv
<1> QED
  BY <1>1, <1>2, <1>3, <1>4, <1>5, <1>6, ClientGoes DEF IInv, Types

LEMMA StepSendResult ==
  ASSUME IInv, NEW c \in Spawned, SendResult(c)
  PROVE  IInv'
<1>1. pc[c] = "result" /\ pc[Main] = "collect" /\ Teams[round][got + 1] = c /\ got' = got + 1
      /\ pc' = [pc EXCEPT ![c] = "delete"] /\ call' = call /\ UNCHANGED <<kind, round, clntVars>>
  BY DEF SendResult, Goto, NoInvoke, kvVars, ClientRest
<1>2. Rounds /\ c \in Clients /\ c # Main
  BY <1>1, InRounds, Who DEF IInv
<1>3. EndInv'
  BY <1>1, EndsSame DEF IInv, Core
<1>4. got' \in Nat /\ \A i \in 1..got' : i \in 1..got \/ c = Teams[round][i]
  BY <1>1, SMT DEF IInv, Types
<1>5. "delete" \in RoundClientLocs \ {"new", "start"} /\ ~Busy(c) /\ pc[c] # "new" /\ "delete" \notin Active
  BY <1>1, <1>2, SMT DEF RoundClientLocs, Busy, BusyLocs, ClientBusy, Active
<1>6. call[c] = NoCall
  BY <1>2, <1>5, Idle DEF IInv
<1> QED
  BY <1>1, <1>2, <1>3, <1>4, <1>5, <1>6, ClientGoes DEF clntVars

\* The client and the test move together.
LEMMA StepTakeDone ==
  ASSUME IInv, NEW c \in Spawned, TakeDone(c)
  PROVE  IInv'
<1>1. pc[c] = "top" /\ pc[Main] = "done" /\ got' = got + 1 /\ call' = call /\ UNCHANGED <<kind, round, clntVars>>
  BY DEF TakeDone, NoInvoke, kvVars, ClientRest
<1>2. Rounds /\ RoundsInv /\ c \in Clients /\ c # Main /\ Main \in Clients
  BY <1>1, InRounds, Who DEF IInv
<1>3. DOMAIN pc' = Clients /\ pc'[c] = "result" /\ pc'[Main] = "sent" /\ \A d \in Clients \ {c, Main} : pc'[d] = pc[d]
  BY <1>2, SMT DEF TakeDone, IInv, Core
<1>4. ~Busy(c) /\ ~Busy(Main) /\ pc[c] \in Active
  BY <1>1, <1>2, SMT DEF Busy, BusyLocs, ClientBusy, MainBusy, Active
<1>5. call'[c] = NoCall /\ call'[Main] = NoCall /\ c \in clerks'
  BY <1>1, <1>2, <1>4, Idle DEF IInv, Core, Holding, clntVars
<1>6. Steps(c) /\ Steps(Main)
  BY <1>1, <1>2, <1>3, <1>5, SMT DEF Steps
<1>7. \A d \in Clients \ {c, Main} : Stays(d)
  BY <1>1, <1>3 DEF Stays
<1>8. Core'
  BY <1>1, <1>3, <1>6, <1>7, EndsSame, CoreKept DEF IInv, Core, clntVars
<1>9. "result" \in RoundClientLocs /\ "sent" \in RoundLocs /\ ~Over(c) /\ "sent" \notin After
  BY <1>1, SMT DEF RoundClientLocs, RoundLocs, Over, After
<1>10. \A d \in Spawned : pc'[d] \in RoundClientLocs /\ (pc[d] = "new" => pc'[d] = "new") /\ (Over(d) => Over(d)')
  <2>1. \A d \in Spawned : d # c => pc'[d] = pc[d] /\ (Over(d)' <=> Over(d))
    BY <1>3, Who DEF Over
  <2> QED
    BY <1>1, <1>2, <1>3, <1>9, <2>1 DEF RoundsInv
<1>11. RoundsInv'
  <2>1. pc'[Main] \notin {"begin", "create"} /\ pc'[Main] # "collect"
    BY <1>3, SMT
  <2> QED
    BY <1>1, <1>2, <1>3, <1>9, <1>10, <2>1, RoundsKept DEF IInv
<1>12. got' \in Nat
  BY <1>1, SMT DEF IInv, Types
<1> QED
  BY <1>1, <1>2, <1>8, <1>11, <1>12, TestOfRounds DEF IInv, Types

\* The client's loop.
LEMMA FailsIdle ==
  ASSUME NEW c, Fail(c), call[c] = NoCall
  PROVE  pc' = [pc EXCEPT ![c] = "failed"] /\ Calls(c, "failed") /\ UNCHANGED got
  BY DEF Fail, Goto, Keep, NoInvoke, kvVars, Calls

LEMMA StepLoop ==
  ASSUME IInv, NEW c \in Spawned,
         Iterate(c) \/ OnePutPut(c) \/ OnePutGet(c) \/ AppendGet(c) \/ AppendPut(c)
  PROVE  IInv'
<1>1. BusyLocs(c) = ClientBusy /\ c \in Clients /\ c # Main
  BY Who DEF BusyLocs
<1>2. /\ "put" \in ClientBusy /\ "get" \in ClientBusy /\ "appendGet" \in ClientBusy /\ "appendPut" \in ClientBusy
      /\ "top" \notin ClientBusy
  BY SMT DEF ClientBusy
<1>3. /\ \A loc \in ClientBusy : GetK(c) => Calls(c, loc)
      /\ \A v, n : \A loc \in ClientBusy : PutK(c, v, n) => Calls(c, loc)
  BY <1>1, Invoking DEF Calls
<1>4. \A loc : NoInvoke /\ call[c] = NoCall => Calls(c, loc)
  BY Invoking DEF Calls
<1>5. UNCHANGED <<kind, round, got, clntVars>>
  BY DEF Iterate, OnePutPut, OnePutGet, AppendGet, AppendPut, ClientRest, Keep, Fail
<1>6. pc[c] \in ClientRuns
  BY SMT DEF Iterate, OnePutPut, OnePutGet, AppendGet, AppendPut, Returned, ClientRuns
<1>7. \E loc \in ClientRuns \cup {"failed"} : pc' = [pc EXCEPT ![c] = loc] /\ Calls(c, loc)
  <2>1. CASE Iterate(c)
    BY <2>1, <1>2, <1>3 DEF Iterate, Goto, ClientRuns
  <2>2. CASE OnePutPut(c)
    BY <2>2, <1>2, <1>3, FailsIdle DEF OnePutPut, Returned, Goto, ClientRuns
  <2>3. CASE OnePutGet(c)
    <3>1. call[c] = NoCall
      BY <2>3 DEF OnePutGet, Returned
    <3>2. CASE ~GotJson(c) \/ WrongValue(c)
      BY <2>3, <3>1, <3>2, FailsIdle DEF OnePutGet
    <3>3. CASE ~(~GotJson(c) \/ WrongValue(c)) /\ err[c] \in {"OK", "ErrMaybe"}
      BY <2>3, <3>1, <3>3, <1>4 DEF OnePutGet, Goto, ClientRuns
    <3>4. CASE ~(~GotJson(c) \/ WrongValue(c)) /\ err[c] \notin {"OK", "ErrMaybe"}
      BY <2>3, <3>4, <1>2, <1>3 DEF OnePutGet, Goto, ClientRuns
    <3> QED
      BY <3>2, <3>3, <3>4
  <2>4. CASE AppendGet(c)
    BY <2>4, <1>2, <1>3, FailsIdle DEF AppendGet, Returned, Goto, ClientRuns
  <2>5. CASE AppendPut(c)
    BY <2>5, <1>2, <1>3, <1>4 DEF AppendPut, Returned, Goto, ClientRuns
  <2> QED
    BY <2>1, <2>2, <2>3, <2>4, <2>5
<1> QED
  BY <1>5, <1>6, <1>7, ClientMoves

LEMMA StepClient ==
  ASSUME IInv, NEW c \in Spawned, Client(c)
  PROVE  IInv'
  BY StepRunClient, StepTakeDone, StepLoop, StepSendResult, StepDeleteClerk DEF Client

(***************************************************************************)
(* The test's goroutine.                                                   *)
(***************************************************************************)
LEMMA MainCalls ==
  /\ Main \in Clients /\ BusyLocs(Main) = MainBusy
  /\ \A loc : NoInvoke /\ call[Main] = NoCall => Calls(Main, loc)
  /\ \A loc \in MainBusy : GetK(Main) \/ TestGet(Main) => Calls(Main, loc)
  /\ \A v, n : \A loc \in MainBusy : PutK(Main, v, n) \/ TestPut(Main, v, n) => Calls(Main, loc)
<1>1. Main \in Clients /\ BusyLocs(Main) = MainBusy
  BY Who DEF BusyLocs
<1> QED
  BY <1>1, Invoking DEF Calls

LEMMA MainIdle ==
  ASSUME Core, pc[Main] \notin MainBusy
  PROVE  call[Main] = NoCall
  BY Who, Idle DEF Busy, BusyLocs

LEMMA StepBegin ==
  ASSUME IInv, Begin
  PROVE  IInv'
<1>1. pc[Main] = "begin" /\ UNCHANGED <<kind, round, got, clntVars>>
  BY DEF Begin, MainRest, Nowhere
<1>2. pc[Main] \notin MainBusy /\ pc[Main] # "end" /\ "create" \in MainBusy /\ "first" \in MainBusy
  BY <1>1, SMT DEF MainBusy
<1>3. call[Main] = NoCall
  BY <1>2, MainIdle DEF IInv
<1>4. CASE Rounds
  <2>1. round = 0 /\ got' \in Nat
    BY <1>1, <1>4, SMT DEF IInv, TestInv, RoundsInv, Types
  <2>2. \E loc \in {"spawn", "create"} : pc' = [pc EXCEPT ![Main] = loc] /\ Calls(Main, loc)
    BY <1>2, <1>3, <1>4, MainCalls, SMT DEF Begin, Goto, Rounds
  <2>3. \A loc \in {"spawn", "create"} : loc \in RoundLocs \ {"end"} /\ loc # "collect"
    BY SMT DEF RoundLocs
  <2> QED
    BY <1>1, <1>2, <1>4, <2>1, <2>2, <2>3, MainMoves
<1>5. CASE kind = "partition"
  <2>1. pc' = [pc EXCEPT ![Main] = "first"] /\ Calls(Main, "first")
    BY <1>2, <1>5, MainCalls, SMT DEF Begin, Goto
  <2>2. Phases(pc[Main], "first") /\ "first" # "end"
    BY <1>1, SMT DEF Phases, Before
  <2> QED
    BY <1>1, <1>2, <1>5, <2>1, <2>2, EndsSame, MainPartition DEF IInv, Core, clntVars
<1>6. CASE kind = "clnts"
  <2>1. pc' = [pc EXCEPT ![Main] = "api"] /\ Calls(Main, "api")
    BY <1>3, <1>6, MainCalls, SMT DEF Begin, Goto
  <2>2. /\ DOMAIN pc' = Clients /\ DOMAIN call' = Clients /\ pc'[Main] = "api"
        /\ \A d \in Clients : d # Main => pc'[d] = pc[d]
        /\ \A d \in Clients : Stays(d) \/ Steps(d)
    BY <1>2, <2>1, Who, Moved DEF IInv
  <2>3. Core'
    BY <1>1, <2>2, EndsSame, CoreKept DEF IInv, Core, clntVars
  <2>4. ApiInv'
    BY <1>6, <2>2, Who DEF IInv, TestInv, ApiInv
  <2> QED
    BY <1>1, <1>6, <2>3, <2>4 DEF IInv, Types, TestInv, Rounds
<1> QED
  BY <1>4, <1>5, <1>6 DEF IInv, Types, Rounds

\* The steps of the test's goroutine that do not end a wait.
LEMMA StepChecks ==
  ASSUME IInv, CreateList \/ Wake \/ NextSignal \/ CheckPutConcurrent \/ CheckAppends \/ StopPartitioner \/ Reconnect
  PROVE  IInv'
<1>1. UNCHANGED <<kind, round, clntVars>>
  BY DEF CreateList, Wake, NextSignal, CheckPutConcurrent, CheckAppends, StopPartitioner, Reconnect, MainRest,
         Nowhere, PartitionerOnly
<1>2. got' \in Nat
  BY SMT DEF CreateList, Wake, NextSignal, CheckPutConcurrent, CheckAppends, StopPartitioner, Reconnect, Nowhere,
             PartitionerOnly, IInv, Types
<1>3. CASE CreateList
  <2>1. pc[Main] = "create" /\ call[Main] = NoCall
    BY <1>3 DEF CreateList, Returned
  <2>2. Rounds /\ RoundsInv /\ round = 0
    BY <2>1, InRounds DEF IInv, RoundsInv
  <2>3. Busy(Main) /\ pc[Main] # "end"
    BY <2>1, SMT DEF Busy, BusyLocs, MainBusy
  <2>4. CASE out[Main].err = "ErrMaybe"
    BY <1>1, <1>3, <2>3, <2>4, Who, Invoking, WaitsCalling DEF CreateList, Nowhere
  <2>5. CASE out[Main].err # "ErrMaybe"
    <3>1. pc' = [pc EXCEPT ![Main] = "spawn"] /\ Calls(Main, "spawn")
      BY <1>3, <2>1, <2>5, MainCalls DEF CreateList, Goto
    <3>2. "spawn" \in RoundLocs \ {"end"} /\ "spawn" # "collect"
      BY SMT DEF RoundLocs
    <3> QED
      BY <1>1, <1>2, <2>2, <2>3, <3>1, <3>2, MainMoves
  <2> QED
    BY <2>4, <2>5
<1>4. CASE Wake \/ NextSignal
  <2>1. pc[Main] \in {"sleep", "sent"} /\ NoInvoke
    BY <1>4 DEF Wake, NextSignal
  <2>2. Rounds /\ pc[Main] # "end" /\ pc[Main] \notin MainBusy
    <3>1. pc[Main] # "end" /\ pc[Main] \notin MainBusy
      BY <2>1, SMT DEF MainBusy
    <3> QED
      BY <2>1, <3>1, InRounds DEF IInv
  <2>3. \A loc : Calls(Main, loc)
    BY <2>1, <2>2, MainIdle, MainCalls DEF IInv
  <2>4. \E loc \in {"done", "collect"} : pc' = [pc EXCEPT ![Main] = loc] /\ (loc = "collect" => got' = 0)
    BY <1>4 DEF Wake, NextSignal, Goto
  <2>5. \A loc \in {"done", "collect"} : loc \in RoundLocs \ {"end"} /\ loc \notin After /\ loc \notin {"begin", "create"}
    BY SMT DEF RoundLocs, After
  <2> QED
    BY <1>1, <1>2, <2>2, <2>3, <2>4, <2>5, MainMoves
<1>5. CASE CheckPutConcurrent \/ CheckAppends \/ StopPartitioner \/ Reconnect
  <2>1. pc[Main] \in {"checkPuts", "checkAppends", "stop", "ack"} /\ call' = call
    BY <1>5 DEF CheckPutConcurrent, CheckAppends, StopPartitioner, Reconnect, Returned, NoInvoke, PartitionerOnly, kvVars
  <2>2. Rounds /\ pc[Main] # "end" /\ pc[Main] \in After
    <3>1. pc[Main] # "end" /\ pc[Main] \in After
      BY <2>1, SMT DEF After
    <3> QED
      BY <2>1, <3>1, InRounds DEF IInv
  <2>3. call[Main] = NoCall
    <3>1. CASE CheckPutConcurrent \/ CheckAppends
      BY <3>1 DEF CheckPutConcurrent, CheckAppends, Returned
    <3>2. CASE StopPartitioner \/ Reconnect
      <4>1. pc[Main] \notin MainBusy
        BY <3>2, SMT DEF StopPartitioner, Reconnect, MainBusy
      <4> QED
        BY <4>1, MainIdle DEF IInv
    <3> QED
      BY <1>5, <3>1, <3>2
  <2>4. \A loc : Calls(Main, loc)
    BY <2>1, <2>3 DEF Calls
  <2>5. \E loc \in {"failed", "stop", "spawn", "cleanup", "ack"} : pc' = [pc EXCEPT ![Main] = loc]
    BY <1>5 DEF CheckPutConcurrent, CheckAppends, StopPartitioner, Reconnect, Goto
  <2>6. \A loc \in {"failed", "stop", "spawn", "cleanup", "ack"} :
           loc \in RoundLocs \ {"end"} /\ loc # "collect" /\ loc \notin {"begin", "create"}
    BY SMT DEF RoundLocs
  <2> QED
    BY <1>1, <1>2, <2>2, <2>4, <2>5, <2>6, MainMoves
<1> QED
  BY <1>3, <1>4, <1>5

\* All results have been received: the clients of the round are over.
LEMMA StepCollected ==
  ASSUME IInv, Collected
  PROVE  IInv'
<1>1. pc[Main] = "collect" /\ got = Len(Teams[round]) /\ GetK(Main) /\ UNCHANGED <<kind, round, got, clntVars>>
  BY DEF Collected, MainRest, Nowhere
<1>2. Rounds /\ RoundsInv /\ pc[Main] # "end"
  <2>1. pc[Main] # "end"
    BY <1>1, SMT
  <2> QED
    BY <1>1, <2>1, InRounds DEF IInv
<1>3. \E loc \in {"checkAppends", "checkPuts"} : pc' = [pc EXCEPT ![Main] = loc]
  BY DEF Collected, Goto
<1>4. \A loc \in {"checkAppends", "checkPuts"} :
         loc \in RoundLocs \ {"end"} /\ loc \in MainBusy /\ loc # "collect" /\ loc \notin {"begin", "create"}
  BY SMT DEF RoundLocs, MainBusy
<1>5. \A loc \in {"checkAppends", "checkPuts"} : Calls(Main, loc)
  BY <1>1, <1>4, MainCalls
<1>6. round = 0 \/ \A c \in Team(round) : Over(c)
  <2>1. round = 0 \/ round \in DOMAIN Teams
    BY Teaming, SMT DEF IInv, Types
  <2>2. \A c \in Team(round) : round \in DOMAIN Teams => \E i \in 1..got : c = Teams[round][i]
    BY <1>1, Teaming
  <2> QED
    BY <1>1, <1>2, <2>1, <2>2, Who DEF RoundsInv
<1> QED
  BY <1>1, <1>2, <1>3, <1>4, <1>5, <1>6, MainMoves DEF IInv, Types

\* The clients of the next round have not begun.
LEMMA StepSpawn ==
  ASSUME IInv, Spawn
  PROVE  IInv'
<1>1. /\ pc[Main] = "spawn" /\ ~LastRound /\ round' = round + 1 /\ got' = 0 /\ call' = call
      /\ UNCHANGED <<kind, clntVars>>
  BY DEF Spawn, MainRest, NoInvoke, kvVars
<1>2. Rounds /\ RoundsInv /\ pc[Main] \notin MainBusy /\ pc[Main] # "end" /\ pc[Main] \in After
  <2>1. pc[Main] \notin MainBusy /\ pc[Main] # "end" /\ pc[Main] \in After
    BY <1>1, SMT DEF MainBusy, After
  <2> QED
    BY <1>1, <2>1, InRounds DEF IInv
<1>3. round \in 0..Len(Teams) /\ Len(Teams) \in Nat /\ (kind = "appends" => round <= 1)
  BY <1>2, Teaming DEF IInv, Types, RoundsInv
<1>4. round' \in DOMAIN Teams /\ round' \in 0..Len(Teams) /\ round' > round /\ (kind = "appends" => round' <= 1)
  <2>1. DOMAIN Teams = 1..Len(Teams) /\ 1 <= Len(Teams)
    BY Teaming, SMT
  <2>2. CASE kind = "appends"
    <3>1. round # 1
      BY <1>1, <2>2 DEF LastRound
    <3> QED
      BY <1>1, <1>3, <2>1, <2>2, <3>1, SMT
  <2>3. CASE kind # "appends"
    <3>1. round # Len(Teams)
      BY <1>1, <2>3 DEF LastRound
    <3>2. round + 1 \in 1..Len(Teams) /\ round + 1 \in 0..Len(Teams) /\ round + 1 > round
      BY <1>3, <3>1, SMT
    <3> QED
      BY <1>1, <2>1, <2>3, <3>2
  <2> QED
    BY <2>2, <2>3
<1>5. /\ DOMAIN pc' = Clients /\ pc'[Main] = "sleep"
      /\ \A c \in Spawned : pc'[c] = IF c \in Team(round') THEN "start" ELSE pc[c]
  BY Who, SMT DEF Spawn
<1>6. \A c \in Team(round') : c \in Spawned /\ pc[c] = "new"
  BY <1>2, <1>4, Who DEF RoundsInv
<1>7. \A c \in Clients : Stays(c) \/ Steps(c)
  <2>1. Steps(Main)
    <3>1. call[Main] = NoCall
      BY <1>2, MainIdle DEF IInv
    <3> QED
      BY <1>1, <1>2, <1>5, <3>1, SMT DEF Steps
  <2>2. ASSUME NEW c \in Team(round')
        PROVE  Steps(c)
    <3>1. pc[c] = "new" /\ pc'[c] = "start" /\ c \in Clients /\ c # Main
      BY <1>5, <1>6, <2>2, Who
    <3>2. ~Busy(c)
      BY <3>1, SMT DEF Busy, BusyLocs, ClientBusy
    <3>3. call'[c] = NoCall
      BY <1>1, <3>1, <3>2, Idle DEF IInv
    <3> QED
      BY <3>1, <3>3, SMT DEF Steps, Active
  <2>3. \A c \in Spawned : c \notin Team(round') => Stays(c)
    BY <1>1, <1>5 DEF Stays
  <2> QED
    BY <2>1, <2>2, <2>3, Who
<1>8. Core'
  BY <1>1, <1>5, <1>7, EndsSame, CoreKept DEF IInv, Core, clntVars
<1>9. RoundsInv'
  <2>1. "start" \in RoundClientLocs /\ "sleep" \in RoundLocs /\ "sleep" \notin After \cup {"begin", "create", "collect"}
    BY SMT DEF RoundClientLocs, RoundLocs, After
  <2>2. \A c \in Spawned : pc'[c] \in RoundClientLocs
    BY <1>2, <1>5, <2>1 DEF RoundsInv
  <2>3. \A r \in DOMAIN Teams : r > round' => \A c \in Team(r) : pc'[c] = "new"
    <3> SUFFICES ASSUME NEW r \in DOMAIN Teams, r > round', NEW c \in Team(r)
                 PROVE  pc'[c] = "new"
      OBVIOUS
    <3>1. r > round /\ r # round'
      BY <1>1, <1>3, Teaming, SMT
    <3>2. c \notin Team(round')
      BY <1>4, <3>1, Disjoint
    <3> QED
      BY <1>2, <1>5, <3>1, <3>2, Who DEF RoundsInv
  <2>4. \A r \in 1..round' : r < round' => \A c \in Team(r) : Over(c)'
    <3> SUFFICES ASSUME NEW r \in 1..round', r < round', NEW c \in Team(r)
                 PROVE  Over(c)'
      OBVIOUS
    <3>1. r \in 1..round /\ r \in DOMAIN Teams /\ r # round'
      BY <1>1, <1>3, Teaming, SMT
    <3>2. c \notin Team(round')
      BY <1>4, <3>1, Disjoint
    <3>3. Over(c)
      BY <1>2, <3>1 DEF RoundsInv
    <3> QED
      BY <1>5, <3>1, <3>2, <3>3, Who DEF Over
  <2> QED
    BY <1>1, <1>4, <1>5, <2>1, <2>2, <2>3, <2>4 DEF RoundsInv
<1> QED
  BY <1>1, <1>2, <1>4, <1>8, <1>9, TestOfRounds, SMT DEF IInv, Types

(***************************************************************************)
(* The partition test.                                                     *)
(***************************************************************************)
LEMMA RetryWaits ==
  ASSUME IInv, NEW c \in Clients, NEW v, NEW n, Retry(c, v, n), Busy(c)
  PROVE  IInv'
<1>1. UNCHANGED <<kind, pc, round, got, clntVars>>
  BY DEF Retry, ClientRest
<1>2. \E op : call' = [call EXCEPT ![c] = op]
  BY Invoking DEF Retry
<1> QED
  BY <1>1, <1>2, WaitsCalling

LEMMA MainFails ==
  ASSUME IInv, kind = "partition", Fail(Main), UNCHANGED clntVars, ClientRest, call[Main] = NoCall, pc[Main] # "end"
  PROVE  IInv'
<1>1. pc' = [pc EXCEPT ![Main] = "failed"] /\ Calls(Main, "failed") /\ UNCHANGED <<kind, round, got>>
  BY FailsIdle DEF ClientRest
<1>2. Phases(pc[Main], "failed") /\ "failed" # "end"
  BY SMT DEF Phases
<1> QED
  BY <1>1, <1>2, EndsSame, MainPartition DEF IInv, Core, clntVars

\* The test's goroutine goes on within a phase, its Clnts being as they were.
LEMMA MainGoes ==
  ASSUME IInv, kind = "partition", NEW loc, loc # "end", pc[Main] # "end", Phases(pc[Main], loc),
         Goto(Main, loc), Calls(Main, loc), TestRest, UNCHANGED clntVars
  PROVE  IInv'
  BY EndsSame, MainPartition DEF IInv, Core, clntVars, Goto, TestRest

LEMMA PartitionLocs ==
  /\ Phases("second", "checkSecond") /\ Phases("select", "failed") /\ Phases("select", "checkAgain")
  /\ Phases("checkAgain", "third") /\ Phases("third", "checkThird") /\ Phases("checkThird", "heal")
  /\ Phases("heal", "reconnect") /\ Phases("reconnect", "wait") /\ Phases("checkLast", "cleanup")
  /\ {"first", "second", "checkSecond", "checkAgain", "third", "checkThird", "checkLast"} \subseteq MainBusy
  /\ {"select", "heal", "reconnect", "wait", "cleanup"} \cap MainBusy = {}
<1>1. /\ Phases("second", "checkSecond") /\ Phases("select", "failed") /\ Phases("select", "checkAgain")
      /\ Phases("checkAgain", "third") /\ Phases("third", "checkThird") /\ Phases("checkThird", "heal")
      /\ Phases("heal", "reconnect") /\ Phases("reconnect", "wait") /\ Phases("checkLast", "cleanup")
  BY DEF Phases, Split, Cut, Joined
<1> QED
  BY <1>1, SMT DEF MainBusy

\* Second and Third: a Put that is tried again until it has happened.
LEMMA StepPutAtLeastOnce ==
  ASSUME IInv, Second \/ Third
  PROVE  IInv'
<1>1. PICK loc, v, next : /\ Returned(Main, loc)
                          /\ \/ loc = "second" /\ next = "checkSecond"
                             \/ loc = "third" /\ next = "checkThird"
                          /\ IF out[Main].err = "OK"
                             THEN Goto(Main, next) /\ TestGet(Main) /\ UNCHANGED clntVars /\ TestRest
                             ELSE IF out[Main].err \in {"ErrMaybe", "ErrVersion"} THEN Retry(Main, v, ver[Main] + 1)
                             ELSE IF ver[Main] = 0 THEN Retry(Main, v, 0)
                             ELSE Fail(Main) /\ UNCHANGED clntVars /\ ClientRest
  <2>1. CASE Second
    BY <2>1 DEF Second, PutAtLeastOnce
  <2>2. CASE Third
    BY <2>2 DEF Third, PutAtLeastOnce
  <2> QED
    BY <2>1, <2>2
<1>2. pc[Main] = loc /\ call[Main] = NoCall /\ loc \in MainBusy /\ next \in MainBusy /\ Phases(loc, next)
  BY <1>1, PartitionLocs DEF Returned
<1>3. kind = "partition"
  BY <1>1, <1>2, InPartition DEF IInv
<1>4. loc # "end" /\ next # "end" /\ Busy(Main) /\ Main \in Clients
  <2>1. loc # "end" /\ next # "end"
    BY <1>1, SMT
  <2> QED
    BY <1>2, <2>1, MainCalls DEF Busy
<1>5. CASE out[Main].err = "OK"
  BY <1>1, <1>2, <1>3, <1>4, <1>5, MainCalls, MainGoes
<1>6. CASE out[Main].err # "OK"
  BY <1>1, <1>2, <1>3, <1>4, <1>6, RetryWaits, MainFails
<1> QED
  BY <1>5, <1>6

\* CheckAgain, CheckThird and CheckLast.
LEMMA StepCheckGet ==
  ASSUME IInv, CheckAgain \/ CheckThird \/ CheckLast
  PROVE  IInv'
<1>1. PICK loc, next : /\ Returned(Main, loc)
                       /\ \/ loc = "checkAgain" /\ next = "third"
                          \/ loc = "checkThird" /\ next = "heal"
                          \/ loc = "checkLast" /\ next = "cleanup"
                       /\ \/ Goto(Main, next) /\ Calls(Main, next) /\ UNCHANGED clntVars /\ TestRest
                          \/ Fail(Main) /\ UNCHANGED clntVars /\ ClientRest
  <2>1. CASE CheckAgain
    <3>1. "third" \in MainBusy
      BY PartitionLocs
    <3> QED
      BY <2>1, <3>1, MainCalls DEF CheckAgain, CheckGet
  <2>2. CASE CheckThird
    BY <2>2, MainCalls DEF CheckThird, CheckGet, Returned
  <2>3. CASE CheckLast
    BY <2>3, MainCalls DEF CheckLast, CheckGet, Returned
  <2> QED
    BY <2>1, <2>2, <2>3
<1>2. pc[Main] = loc /\ call[Main] = NoCall /\ Phases(loc, next)
  BY <1>1, PartitionLocs DEF Returned
<1>3. kind = "partition"
  BY <1>1, <1>2, InPartition DEF IInv
<1>4. loc # "end" /\ next # "end"
  BY <1>1, SMT
<1> QED
  BY <1>1, <1>2, <1>3, <1>4, MainGoes, MainFails

LEMMA StepSelect ==
  ASSUME IInv, SelectMinority
  PROVE  IInv'
<1>1. pc[Main] = "select" /\ UNCHANGED clntVars /\ TestRest
  BY DEF SelectMinority
<1>2. kind = "partition" /\ call[Main] = NoCall
  BY <1>1, InPartition, PartitionLocs, MainIdle DEF IInv
<1>3. \E loc \in {"failed", "checkAgain"} : Goto(Main, loc) /\ Calls(Main, loc)
  BY <1>2, MainCalls, PartitionLocs DEF SelectMinority
<1>4. pc[Main] # "end" /\ \A loc \in {"failed", "checkAgain"} : loc # "end"
  BY <1>1, SMT
<1> QED
  BY <1>1, <1>2, <1>3, <1>4, PartitionLocs, MainGoes

LEMMA StepHeal ==
  ASSUME IInv, Heal
  PROVE  IInv'
<1>1. pc[Main] \in {"heal", "reconnect"} /\ NoInvoke /\ TestRest
  BY DEF Heal
<1>2. kind = "partition" /\ call[Main] = NoCall
  <2>1. pc[Main] \notin MainBusy
    BY <1>1, PartitionLocs
  <2> QED
    BY <1>1, <2>1, InPartition, MainIdle DEF IInv
<1>3. pc[Main] # "end" /\ "reconnect" # "end" /\ "wait" # "end"
  BY <1>1, SMT
<1>4. \A loc : Calls(Main, loc)
  BY <1>1, <1>2, MainCalls
<1>5. CASE pc[Main] = "heal" /\ Goto(Main, "reconnect") /\ UNCHANGED clntVars
  BY <1>1, <1>2, <1>3, <1>4, <1>5, PartitionLocs, MainGoes
<1>6. CASE pc[Main] = "reconnect" /\ Goto(Main, "wait") /\ ConnectAll(Rival)
  <2>1. EndInv' /\ UNCHANGED <<clerks, ends, stray, cleaned>>
    BY <1>6, Who, EndsConnectAll DEF IInv, Core, ConnectAll
  <2> QED
    BY <1>1, <1>2, <1>3, <1>4, <1>6, <2>1, PartitionLocs, MainPartition DEF Goto, TestRest
<1> QED
  BY <1>5, <1>6 DEF Heal

LEMMA StepRival ==
  ASSUME IInv, RivalStart \/ RivalOnce
  PROVE  IInv'
<1>1. Rival \in Clients /\ Rival # Main /\ BusyLocs(Rival) = ClientBusy
  BY Who DEF BusyLocs
<1>2. "once" \in ClientBusy
  BY SMT DEF ClientBusy
<1>3. CASE RivalStart
  <2>1. pc[Rival] = "submit" /\ pc' = [pc EXCEPT ![Rival] = "once"] /\ UNCHANGED <<kind, round, got, clntVars>>
    BY <1>3 DEF RivalStart, Goto, TestRest
  <2>2. Calls(Rival, "once")
    BY <1>1, <1>2, <1>3, Invoking DEF RivalStart, Calls
  <2> QED
    BY <2>1, <2>2, RivalMoves
<1>4. CASE RivalOnce
  <2>1. pc[Rival] = "once" /\ call[Rival] = NoCall
    BY <1>4 DEF RivalOnce, PutAtLeastOnce, Returned
  <2>2. Busy(Rival)
    BY <1>1, <1>2, <2>1 DEF Busy
  <2>3. CASE out[Rival].err = "OK"
    <3>1. pc' = [pc EXCEPT ![Rival] = "result"] /\ NoInvoke /\ UNCHANGED <<kind, round, got, clntVars>>
      BY <1>4, <2>3 DEF RivalOnce, PutAtLeastOnce, Goto, TestRest
    <3>2. Calls(Rival, "result")
      BY <2>1, <3>1, Invoking DEF Calls
    <3> QED
      BY <2>1, <3>1, <3>2, RivalMoves
  <2>4. CASE out[Rival].err # "OK"
    <3>1. \/ \E n : Retry(Rival, Val(15), n)
          \/ Fail(Rival) /\ UNCHANGED clntVars /\ ClientRest
      BY <1>4, <2>4 DEF RivalOnce, PutAtLeastOnce
    <3>2. ASSUME Fail(Rival), UNCHANGED clntVars, ClientRest
          PROVE  IInv'
      BY <2>1, <3>2, FailsIdle, RivalMoves DEF ClientRest
    <3> QED
      BY <1>1, <2>2, <3>1, <3>2, RetryWaits
  <2> QED
    BY <2>3, <2>4
<1> QED
  BY <1>3, <1>4

\* The test makes the Rival's Clnt, which has no ends yet.
LEMMA StepFirst ==
  ASSUME IInv, First
  PROVE  IInv'
<1>1. pc[Main] = "first" /\ call[Main] = NoCall
  BY DEF First, PutAtLeastOnce, Returned
<1>2. kind = "partition" /\ PartitionInv
  BY <1>1, InPartition DEF IInv
<1>3. Busy(Main) /\ pc[Main] # "end" /\ pc[Main] \in Before /\ "second" \in Split /\ "second" \in MainBusy
  BY <1>1, SMT DEF Busy, BusyLocs, MainBusy, Before, Split
<1>4. CASE out[Main].err = "OK"
  <2>1. /\ pc' = [pc EXCEPT ![Main] = "second"] /\ TestPut(Main, Val(14), ver[Main] + 1)
        /\ MakeClientTo(Rival, Servers \ {Home}) /\ UNCHANGED <<kind, round, got>>
    BY <1>4 DEF First, PutAtLeastOnce, Goto, TestRest
  <2>2. Calls(Main, "second")
    BY <1>3, <2>1, MainCalls
  <2>3. pc[Rival] = "new" /\ ~cleaned
    BY <1>2, <1>3 DEF PartitionInv, IInv, Core, Closing
  <2>4. \A e \in ends : e[1] # Rival
    BY <2>3, Who DEF IInv, Core, Fresh
  <2>5. EndInv'
    BY <2>1, <2>3, <2>4, Who, EndsMakeClientTo DEF IInv, Core
  <2>6. clerks' = clerks \cup {Rival} /\ UNCHANGED <<ends, stray, cleaned>>
    BY <2>1, <2>3 DEF MakeClientTo
  <2>7. /\ "second" # "new" /\ "second" # "start" /\ "second" # "end"
        /\ "second" \notin Before \cup Cut \cup Joined \cup {"failed"}
    BY SMT DEF Before, Cut, Joined
  <2>8. /\ DOMAIN pc' = Clients /\ DOMAIN call' = Clients /\ pc'[Main] = "second"
        /\ \A d \in Clients : d # Main => pc'[d] = pc[d]
        /\ \A d \in Clients : Stays(d) \/ Steps(d)
    BY <1>3, <2>1, <2>2, <2>7, Who, Moved DEF IInv
  <2>9. Core'
    BY <2>1, <2>5, <2>6, <2>8, CoreKept DEF IInv
  <2>10. PartitionInv'
    BY <1>2, <1>3, <2>3, <2>6, <2>7, <2>8, Who DEF PartitionInv
  <2> QED
    BY <1>2, <2>1, <2>9, <2>10, TestOfPartition DEF IInv, Types
<1>5. CASE out[Main].err # "OK"
  <2>1. \/ \E n : Retry(Main, Val(13), n)
        \/ Fail(Main) /\ UNCHANGED clntVars /\ ClientRest
    BY <1>5 DEF First, PutAtLeastOnce
  <2> QED
    BY <1>1, <1>2, <1>3, <2>1, Who, RetryWaits, MainFails
<1> QED
  BY <1>4, <1>5

\* The two steps that the test and the Rival make together.
LEMMA Both ==
  ASSUME IInv, kind = "partition", NEW loc, NEW rloc, pc' = [pc EXCEPT ![Main] = loc, ![Rival] = rloc],
         Calls(Main, loc), call[Rival] = NoCall, loc \notin {"new", "start", "end"}, rloc \notin {"new", "start"},
         pc[Main] # "end", rloc \in Active => Rival \in clerks,
         \/ loc \in Cut /\ loc \notin Before \cup Split \cup Joined \cup {"failed"} /\ rloc \in RivalLocs
         \/ loc \in Joined /\ loc \notin Before \cup Split \cup Cut \cup {"failed"} /\ rloc = "gone",
         UNCHANGED <<kind, round, got, clntVars>>
  PROVE  IInv'
<1>1. PartitionInv
  BY DEF IInv, TestInv
<1>2. DOMAIN pc' = Clients /\ pc'[Main] = loc /\ pc'[Rival] = rloc /\ \A d \in Clients \ {Main, Rival} : pc'[d] = pc[d]
  BY Who, SMT DEF IInv, Core
<1>3. DOMAIN call' = Clients /\ \A d \in Clients \ {Main} : call'[d] = call[d]
  BY Who, SMT DEF Calls, IInv, Core
<1>4. Steps(Main)
  BY <1>2, Who DEF Steps, Calls
<1>5. Steps(Rival)
  BY <1>2, <1>3, Who DEF Steps, clntVars
<1>6. \A d \in Clients \ {Main, Rival} : Stays(d)
  BY <1>2, <1>3 DEF Stays
<1>7. Core'
  BY <1>2, <1>3, <1>4, <1>5, <1>6, EndsSame, CoreKept DEF IInv, Core, clntVars
<1>8. PartitionInv'
  BY <1>1, <1>2, Who DEF PartitionInv
<1> QED
  BY <1>7, <1>8, TestOfPartition DEF IInv, Types

LEMMA StepCheckSecond ==
  ASSUME IInv, CheckSecond
  PROVE  IInv'
<1>1. pc[Main] = "checkSecond" /\ call[Main] = NoCall
  BY DEF CheckSecond, CheckGet, Returned
<1>2. kind = "partition" /\ PartitionInv
  BY <1>1, InPartition DEF IInv
<1>3. pc[Main] # "end" /\ pc[Main] \in Split
  BY <1>1, SMT DEF Split
<1>4. pc[Rival] = "new" /\ Rival \in clerks
  BY <1>2, <1>3 DEF PartitionInv
<1>5. ~Busy(Rival)
  BY <1>4, Who, SMT DEF Busy, BusyLocs, ClientBusy
<1>6. call[Rival] = NoCall
  BY <1>5, Who, Idle DEF IInv
<1>7. /\ "select" \in Cut /\ "select" \notin Before \cup Split \cup Joined \cup {"failed"}
      /\ "select" \notin {"new", "start", "end"} /\ "submit" \notin {"new", "start"} /\ "submit" \in RivalLocs
  BY SMT DEF Before, Split, Cut, Joined, RivalLocs
<1>8. CASE /\ pc' = [pc EXCEPT ![Main] = "select", ![Rival] = "submit"]
           /\ NoInvoke /\ UNCHANGED clntVars /\ TestRest
  BY <1>1, <1>2, <1>3, <1>4, <1>6, <1>7, <1>8, MainCalls, Both DEF TestRest
<1>9. CASE Fail(Main) /\ UNCHANGED clntVars /\ ClientRest
  BY <1>1, <1>2, <1>3, <1>9, MainFails
<1> QED
  BY <1>8, <1>9 DEF CheckSecond, CheckGet

LEMMA StepRivalDone ==
  ASSUME IInv, RivalDone
  PROVE  IInv'
<1>1. /\ pc[Main] = "wait" /\ pc[Rival] = "result" /\ TestGet(Main) /\ UNCHANGED clntVars /\ TestRest
      /\ pc' = [pc EXCEPT ![Main] = "checkLast", ![Rival] = "gone"]
  BY DEF RivalDone
<1>2. kind = "partition"
  BY <1>1, InPartition DEF IInv
<1>3. pc[Main] # "end" /\ ~Busy(Rival) /\ "checkLast" \in MainBusy
  BY <1>1, Who, SMT DEF Busy, BusyLocs, ClientBusy, MainBusy
<1>4. call[Rival] = NoCall
  BY <1>3, Who, Idle DEF IInv
<1>5. /\ "checkLast" \in Joined /\ "checkLast" \notin Before \cup Split \cup Cut \cup {"failed"}
      /\ "checkLast" \notin {"new", "start", "end"} /\ "gone" \notin {"new", "start"} /\ "gone" \notin Active
  BY SMT DEF Before, Split, Cut, Joined, Active
<1> QED
  BY <1>1, <1>2, <1>3, <1>4, <1>5, MainCalls, Both DEF TestRest

LEMMA StepPartitionTest ==
  ASSUME IInv, PartitionTest
  PROVE  IInv'
  BY StepFirst, StepPutAtLeastOnce, StepCheckSecond, StepSelect, StepCheckGet, StepRival, StepHeal, StepRivalDone
     DEF PartitionTest

LEMMA StepPartitioner ==
  ASSUME IInv, StartPartitioner \/ Partitioner
  PROVE  IInv'
<1>1. CASE StartPartitioner \/ PartitionerTop \/ PartitionerBody
  <2>1. UNCHANGED <<kind, pc, round, got, clntVars>> /\ call' = call
    BY <1>1 DEF StartPartitioner, PartitionerTop, PartitionerBody, PartitionerOnly, kvVars
  <2> QED
    BY <2>1, Who, WaitsCalling
<1>2. CASE StopPartitioner \/ Reconnect
  BY <1>2, StepChecks
<1> QED
  BY <1>1, <1>2 DEF Partitioner

(***************************************************************************)
(* The test that works with its Clnts, and the end of every test.          *)
(***************************************************************************)
LEMMA StepApi ==
  ASSUME IInv, NEW c \in Team(1), Api(c)
  PROVE  IInv'
<1>1. pc[Main] = "api" /\ call' = call /\ UNCHANGED <<kind, round, got>>
  BY DEF Api, NoInvoke, kvVars, TestRest
<1>2. kind = "clnts" /\ ApiInv /\ c \in Spawned /\ c \in Clients /\ c # Main
  BY <1>1, InApi, Teaming, Who DEF IInv
<1>3. pc[Main] \notin MainBusy /\ pc[Main] # "end" /\ {"new", "made"} \cap ClientBusy = {} /\ "made" \notin Active
  BY <1>1, SMT DEF MainBusy, ClientBusy, Active
<1>4. call[Main] = NoCall /\ call[c] = NoCall /\ ~cleaned
  <2>1. ~Busy(c)
    BY <1>2, <1>3 DEF ApiInv, Busy, BusyLocs
  <2> QED
    BY <1>2, <1>3, <2>1, MainIdle, Idle DEF IInv, Core, Closing
<1>5. \A loc : Calls(c, loc) /\ Calls(Main, loc)
  BY <1>1, <1>4 DEF Calls
<1>6. ASSUME Core', ApiInv'
      PROVE  IInv'
  BY <1>1, <1>2, <1>6 DEF IInv, Types, TestInv, Rounds
<1>7. CASE pc[c] = "new" /\ Goto(c, "made") /\ \E to \in SUBSET Servers : MakeClientTo(c, to)
  <2>1. PICK to \in SUBSET Servers : MakeClientTo(c, to)
    BY <1>7
  <2>2. \A e \in ends : e[1] # c
    BY <1>2, <1>7 DEF IInv, Core, Fresh
  <2>3. EndInv'
    BY <1>2, <1>4, <2>1, <2>2, EndsMakeClientTo DEF IInv, Core
  <2>4. clerks \subseteq clerks' /\ UNCHANGED <<ends, stray, cleaned>>
    BY <1>4, <2>1 DEF MakeClientTo
  <2>5. "made" # "new" /\ "made" # "start"
    BY SMT
  <2>6. /\ DOMAIN pc' = Clients /\ DOMAIN call' = Clients /\ pc'[c] = "made"
        /\ \A d \in Clients : d # c => pc'[d] = pc[d]
        /\ \A d \in Clients : Stays(d) \/ Steps(d)
    BY <1>2, <1>3, <1>5, <1>7, <2>5, Moved DEF IInv, Goto
  <2>7. Core'
    BY <1>1, <2>3, <2>4, <2>6, CoreKept DEF IInv
  <2>8. ApiInv'
    BY <1>2, <2>6, Who DEF ApiInv
  <2> QED
    BY <1>6, <2>7, <2>8
<1>8. CASE /\ pc[c] = "made" /\ UNCHANGED pc
           /\ \/ ConnectAll(c) \/ DisconnectAll(c) \/ DeleteClient(c)
              \/ \E s \in Servers : Disconnect(c, s)
              \/ \E to \in SUBSET Servers : ConnectTo(c, to)
  <2>1. EndInv'
    BY <1>2, <1>8, EndsConnectAll, EndsDisconnectAll, EndsDeleteClient, EndsDisconnect, EndsConnectTo DEF IInv, Core
  <2>2. (\A d \in clerks : d \in clerks' \/ d = c) /\ UNCHANGED <<ends, stray, cleaned>>
    BY <1>8 DEF ConnectAll, DisconnectAll, DeleteClient, Disconnect, ConnectTo
  <2>3. \A d \in Clients : Stays(d)
    BY <1>1, <1>8 DEF Stays
  <2>4. Core'
    <3>1. \A d \in clerks : d \in clerks' \/ (d # Main /\ pc'[d] \notin Active)
      BY <1>2, <1>3, <1>8, <2>2
    <3>2. DOMAIN pc' = Clients /\ DOMAIN call' = Clients
      BY <1>1, <1>8 DEF IInv, Core
    <3> QED
      BY <1>1, <2>1, <2>2, <2>3, <3>1, <3>2, CoreKept DEF IInv
  <2>5. ApiInv'
    BY <1>2, <1>8 DEF ApiInv
  <2> QED
    BY <1>6, <2>4, <2>5
<1>9. CASE Goto(Main, "cleanup") /\ UNCHANGED clntVars
  <2>1. "cleanup" # "new" /\ "cleanup" # "start" /\ "cleanup" # "end"
    BY SMT
  <2>2. /\ DOMAIN pc' = Clients /\ DOMAIN call' = Clients /\ pc'[Main] = "cleanup"
        /\ \A d \in Clients : d # Main => pc'[d] = pc[d]
        /\ \A d \in Clients : Stays(d) \/ Steps(d)
    BY <1>3, <1>5, <1>9, <2>1, Who, Moved DEF IInv, Goto
  <2>3. Core'
    BY <1>1, <1>9, <2>2, EndsSame, CoreKept DEF IInv, Core, clntVars
  <2>4. ApiInv'
    BY <1>2, <2>2, Who DEF ApiInv
  <2> QED
    BY <1>6, <2>3, <2>4
<1> QED
  BY <1>7, <1>8, <1>9 DEF Api

LEMMA StepApiCall ==
  ASSUME IInv, NEW c \in Team(1), ApiCall(c)
  PROVE  IInv'
<1>1. c \in Spawned /\ c \in Clients
  BY Teaming, Who
<1>2. pc[c] = "made" /\ UNCHANGED <<pc, call, kind, round, got>>
  BY DEF ApiCall, NoInvoke, kvVars, testVars
<1>3. kind = "clnts"
  BY <1>1, <1>2, InApi DEF IInv
<1>4. pc[c] \notin {"new", "start"}
  BY <1>2, SMT
<1> QED
  BY <1>1, <1>2, <1>3, <1>4, MakesEnd DEF ApiCall

\* When a test is over, no goroutine of a client is at work.
LEMMA AllOver ==
  ASSUME IInv, pc[Main] \in {"spawn", "cleanup"}, NEW c \in Spawned
  PROVE  pc[c] \in {"new", "made", "delete", "gone"}
<1>1. CASE Rounds
  <2>1. RoundsInv /\ pc[Main] \in After
    BY <1>1, SMT DEF IInv, TestInv, After
  <2>2. PICK r \in DOMAIN Teams : c \in Team(r)
    BY Who
  <2>3. r > round \/ r \in 1..round
    BY Teaming, SMT DEF IInv, Types
  <2>4. pc[c] = "new" \/ Over(c)
    BY <2>1, <2>2, <2>3 DEF RoundsInv
  <2> QED
    BY <2>4 DEF Over
<1>2. CASE kind = "partition"
  <2>1. PartitionInv
    BY <1>2 DEF IInv, TestInv
  <2>2. pc[Main] \in Joined
    BY <2>1, SMT DEF PartitionInv, Before, Split, Cut, Joined
  <2> QED
    BY <2>1, <2>2 DEF PartitionInv
<1>3. CASE kind = "clnts"
  BY <1>3 DEF IInv, TestInv, ApiInv
<1> QED
  BY <1>1, <1>2, <1>3 DEF IInv, Types, Rounds

LEMMA StepCleanup ==
  ASSUME IInv, Cleanup
  PROVE  IInv'
<1>1. /\ pc[Main] \in {"spawn", "cleanup"} /\ cleanup /\ call' = call /\ pc' = [pc EXCEPT ![Main] = "end"]
      /\ UNCHANGED <<kind, round, got>>
  BY DEF Cleanup, Goto, NoInvoke, kvVars, TestRest
<1>2. EndInv' /\ clerks' = {} /\ cleaned' /\ UNCHANGED <<ends, stray>>
  BY <1>1, EndsCleanup DEF IInv, Core, cleanup
<1>3. DOMAIN pc' = Clients /\ pc'[Main] = "end" /\ \A d \in Spawned : pc'[d] = pc[d]
  BY <1>1, Who, SMT DEF IInv, Core
<1>4. pc[Main] \notin MainBusy
  BY <1>1, SMT DEF MainBusy
<1>5. Calling'
  <2>1. call[Main] = NoCall
    BY <1>4, MainIdle DEF IInv
  <2> QED
    BY <1>1, <1>3, <2>1, Who DEF IInv, Core, Calling, Busy
<1>6. Holding'
  <2>1. {"new", "made", "delete", "gone"} \cap Active = {}
    BY SMT DEF Active
  <2> QED
    BY <1>1, <1>2, <1>3, <2>1, AllOver DEF IInv, Core, Holding
<1>7. Fresh' /\ Closing'
  BY <1>2, <1>3 DEF IInv, Core, Fresh, Closing
<1>8. Core'
  BY <1>1, <1>2, <1>3, <1>5, <1>6, <1>7 DEF IInv, Core
<1>9. CASE Rounds
  <2>1. RoundsInv
    BY <1>9 DEF IInv, TestInv
  <2>2. pc[Main] \in After /\ "end" \in RoundLocs /\ "end" \notin {"begin", "create", "collect"}
    BY <1>1, SMT DEF After, RoundLocs
  <2>3. \A d \in Spawned : pc'[d] \in RoundClientLocs /\ (pc[d] = "new" => pc'[d] = "new") /\ (Over(d) => Over(d)')
    BY <1>3, <2>1 DEF RoundsInv, Over
  <2>4. RoundsInv'
    BY <1>1, <1>3, <2>1, <2>2, <2>3, RoundsKept DEF IInv
  <2> QED
    BY <1>1, <1>8, <1>9, <2>4, TestOfRounds DEF IInv, Types
<1>10. CASE kind = "partition"
  <2>1. PartitionInv
    BY <1>10 DEF IInv, TestInv
  <2>2. pc[Main] \in Joined /\ "end" \in Joined /\ "end" \notin Before \cup Split \cup Cut \cup {"failed"}
    BY <1>1, <2>1, SMT DEF PartitionInv, Before, Split, Cut, Joined
  <2>3. PartitionInv'
    BY <1>3, <2>1, <2>2, Who DEF PartitionInv
  <2> QED
    BY <1>1, <1>8, <1>10, <2>3, TestOfPartition DEF IInv, Types
<1>11. CASE kind = "clnts"
  <2>1. ApiInv'
    BY <1>3, <1>11 DEF IInv, TestInv, ApiInv
  <2> QED
    BY <1>1, <1>8, <1>11, <2>1 DEF IInv, Types, TestInv, Rounds
<1> QED
  BY <1>9, <1>10, <1>11 DEF IInv, Types, Rounds

(***************************************************************************)
(* The inductive invariant.                                                *)
(***************************************************************************)
LEMMA InitIInv ==
  ASSUME Init
  PROVE  IInv
<1>1. Types
  BY Teaming, SMT DEF Init, Types
<1>2. EndInv
  <2>1. clerks = {Main} /\ ends = {} /\ netEnds = {} /\ enabled = {} /\ ~cleaned /\ cleaned \in BOOLEAN /\ ~fatal
    BY DEF Init, clntInit
  <2>2. srvs \in [Clients -> SUBSET Servers] /\ most = srvs /\ least = srvs
    BY Who, SMT DEF Init, clntInit
  <2> QED
    BY <2>1, <2>2, Who DEF EndInv, EndTypes, Bounds, Owned, Confined, Reaching, NoFatal
<1>3. DOMAIN pc = Clients /\ DOMAIN call = Clients /\ pc[Main] = "begin" /\ \A c \in Spawned : pc[c] = "new"
  BY Who, SMT DEF Init, kvInit
<1>4. Calling
  BY DEF Init, kvInit, Calling
<1>5. Fresh /\ Closing
  <2>1. ends = {} /\ ~cleaned
    BY DEF Init, clntInit
  <2>2. pc[Main] # "end"
    BY <1>3, SMT
  <2> QED
    BY <2>1, <2>2 DEF Fresh, Closing
<1>6. Holding
  <2>1. "new" \notin Active
    BY SMT DEF Active
  <2> QED
    BY <1>3, <2>1 DEF Init, clntInit, Holding
<1>7. RoundsInv
  <2>1. /\ "begin" \in RoundLocs /\ "new" \in RoundClientLocs /\ "begin" # "collect" /\ "begin" \notin After
        /\ round = 0 /\ round <= 1 /\ \A r \in 1..round : ~(r < round)
    BY SMT DEF Init, RoundLocs, RoundClientLocs, After
  <2> QED
    BY <1>3, <2>1, Who DEF RoundsInv
<1>8. PartitionInv
  <2>1. "begin" \in Before /\ "begin" \notin Split \cup Cut \cup Joined \cup {"failed"}
    BY SMT DEF Before, Split, Cut, Joined
  <2> QED
    BY <1>3, <2>1, Who DEF PartitionInv
<1>9. ApiInv
  BY <1>3 DEF ApiInv
<1> QED
  BY <1>1, <1>2, <1>3, <1>4, <1>5, <1>6, <1>7, <1>8, <1>9 DEF IInv, Core, TestInv

LEMMA NextIInv ==
  ASSUME IInv, Next
  PROVE  IInv'
<1>1. CASE \E c \in Clients : Attempt(c) \/ CallServed(c) \/ CallReturns(c)
  BY <1>1, StepAttempt, StepCall
<1>2. CASE \E c \in Spawned : Client(c)
  BY <1>2, StepClient
<1>3. CASE Test
  BY <1>3, StepBegin, StepChecks, StepSpawn, StepCollected, StepPartitionTest, StepCleanup DEF Test
<1>4. CASE StartPartitioner \/ Partitioner
  BY <1>4, StepPartitioner
<1>5. CASE \E c \in Team(1) : Api(c) \/ ApiCall(c)
  BY <1>5, StepApi, StepApiCall
<1> QED
  BY <1>1, <1>2, <1>3, <1>4, <1>5 DEF Next

LEMMA StutterIInv ==
  ASSUME IInv, UNCHANGED vars
  PROVE  IInv'
<1>1. UNCHANGED <<kind, pc, round, got, clntVars>> /\ call' = call
  BY DEF vars, kvVars, testVars
<1> QED
  BY <1>1, Who, WaitsCalling

LEMMA Inductive == Spec => []IInv
<1>1. IInv /\ [~fatal /\ Next]_vars => IInv'
  BY NextIInv, StutterIInv
<1> QED
  BY <1>1, InitIInv, PTL DEF Spec

(***************************************************************************)
(* The theorems.                                                           *)
(***************************************************************************)
\* Whatever the test does with its Clnts and whichever goroutines call through
\* them meanwhile, no Clnt reaches a server it is not allowed (Clnt.Call,
\* DisconnectAll, MakeClientTo of clnts.go).
THEOREM ClntsConfined == Spec => []Confined
<1>1. IInv => Confined
  BY DEF IInv, Core, EndInv
<1> QED
  BY <1>1, Inductive, PTL

\* And every end to a server it was last connected to works, those that
\* Clnt.Call makes after ConnectAll or ConnectTo too.
THEOREM ClntsReach == Spec => []Reaching
<1>1. IInv => Reaching
  BY DEF IInv, Core, EndInv
<1> QED
  BY <1>1, Inductive, PTL

\* In none of the tests does DeleteEnd miss its end or MakeClient write to the
\* nil map, although the clients of the last round delete their Clerks while
\* Clnts.cleanup runs (labrpc.go:423, clnts.go:169).
THEOREM ClntsNeverFatal == Spec => []NoFatal
<1>1. IInv => NoFatal
  BY DEF IInv, Core, EndInv
<1> QED
  BY <1>1, Inductive, PTL

\* After Config.Cleanup the Network holds no end of a test of the library, and
\* of any other test only those made through a Clnt that was deleted before.
THEOREM NetworkReclaimed == Spec => []EndsReclaimed
<1>1. ASSUME IInv
      PROVE  EndsReclaimed
  <2>1. cleaned => \A e \in netEnds : e \in stray
    BY <1>1 DEF IInv, Core, EndInv, EndTypes, Owned
  <2>2. kind # "clnts" => stray = {}
    BY <1>1 DEF IInv, Core, Holding
  <2> QED
    BY <2>1, <2>2 DEF EndsReclaimed
<1> QED
  BY <1>1, Inductive, PTL
=============================================================================
