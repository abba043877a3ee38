------------------------------- MODULE KVTest -------------------------------
(***************************************************************************)
(* The test library of the key/value services (kvtest1/kvtest.go): clients *)
(* that put concurrently until the test tells them to stop, the checks the *)
(* test makes of what they report, and the goroutine that partitions the   *)
(* servers meanwhile.  The service is a correct one, as VersionedKV        *)
(* specifies it and KVService implements it; the Clerks' ends are Clnts'.  *)
(*                                                                         *)
(* A JSON value is the sequence of its entries: EntryV is one entry, and   *)
(* the list of OneClientAppend any number.  pc is where a goroutine is: at *)
(* a Clerk call (call[c] = NoCall once it has returned, with out[c]), at a *)
(* channel operation, or at the top of a loop.                             *)
(***************************************************************************)
EXTENDS VersionedKV, Clnts, Sequences, FiniteSetsExt

CONSTANTS
  Main,      \* the Clerk of the test's own goroutine
  Teams,     \* the clients of each call of SpawnClientsAndWait, in order
  Key,       \* the key they share
  Home,      \* the server of kvsrv1
  MaxIters,  \* bound: iterations of a client's loop
  MaxPartitionedIters, \* bound: the same while the Partitioner runs
  MaxMaybes  \* bound: Puts that return ErrMaybe

Team(r) == Range(Teams[r])
Spawned == UNION {Team(r) : r \in DOMAIN Teams}
Rival == Teams[1][1]    \* the client of the partition test

ASSUME KVTestAssumption ==
  /\ Keys = {Key} /\ Clerks = Clients
  /\ Main \notin Spawned /\ Clients = Spawned \cup {Main}
  /\ Teams \in Seq(Seq(Clients)) /\ Teams # << >> /\ Teams[1] # << >>
  /\ \A r, s \in DOMAIN Teams : r # s => Team(r) \cap Team(s) = {}
  /\ EmptyValue = << >> /\ Home \in Servers /\ MaxIters \in Nat \ {0} /\ MaxPartitionedIters \in 1..MaxIters
  /\ MaxMaybes \in Nat

VARIABLES
  kind,     \* the test: rounds of Puts, with or without the Partitioner,
            \* appends, one partition, or one that only works with its Clnts
  reliable, \* IsReliable, with no partitions
  pc,       \* where each goroutine is
  ver,      \* ver[c]: the version c's loop goes on from
  err,      \* err[c]: the result of the Put before the Get of OnePut
  iter,     \* iter[c]: loop iterations
  res,      \* res[c]: ClntRes
  round,    \* calls of SpawnClientsAndWait begun
  got,      \* done signals taken, then results received, in this call
  part,     \* the Partitioner
  whole,    \* the group's servers are all connected to each other
  maybes    \* Puts that have returned ErrMaybe

testVars == <<kind, reliable, pc, ver, err, iter, res, round, got, part, whole, maybes>>
vars == <<kvVars, clntVars, testVars>>

ClientLocs == {"new", "start", "top", "put", "get", "appendGet", "appendPut", "submit", "once", "made",
               "result", "delete", "gone", "failed"}
MainLocs == {"begin", "spawn", "sleep", "done", "sent", "collect", "checkPuts", "stop", "ack", "create",
             "checkAppends", "first", "second", "checkSecond", "select", "checkAgain", "third", "checkThird", "heal",
             "reconnect", "wait", "checkLast", "api", "cleanup", "end"}

TypeOK ==
  /\ kvTypeOK /\ clntTypeOK
  /\ kind \in {"puts", "partitioned", "appends", "partition", "clnts"} /\ reliable \in BOOLEAN
  /\ pc \in [Clients -> ClientLocs \cup MainLocs]
  /\ ver \in [Clients -> Nat] /\ err \in [Clients -> Errs] /\ iter \in [Clients -> 0..MaxIters]
  /\ res \in [Clients -> [nok : 0..MaxIters, nmaybe : 0..MaxIters]]
  /\ round \in 0..Len(Teams) /\ got \in Nat
  /\ part \in {"off", "top", "body", "stopped"} /\ whole \in BOOLEAN
  /\ maybes \in 0..MaxMaybes

\* MakeTest has returned and Main's Clerk has been made.
Init ==
  /\ kvInit
  /\ kind \in {"puts", "partitioned", "appends", "partition", "clnts"}
  /\ reliable \in IF kind \in {"puts", "appends"} THEN BOOLEAN ELSE {FALSE}
  /\ clntInit({Main})
  /\ pc = [c \in Clients |->
             IF c = Main THEN "begin" ELSE "new"]
  /\ ver = [c \in Clients |-> 0]
  /\ err = [c \in Clients |-> "none"]
  /\ iter = [c \in Clients |-> 0]
  /\ res = [c \in Clients |-> [nok |-> 0, nmaybe |-> 0]]
  /\ round = 0 /\ got = 0
  /\ part = "off" /\ whole = TRUE /\ maybes = 0

(***************************************************************************)
(* Calls of a Clerk.  The wrappers Get and Put of porcupine.go add only    *)
(* timestamps and the log.                                                 *)
(***************************************************************************)
Goto(c, loc) == pc' = [pc EXCEPT ![c] = loc]
Returned(c, loc) == pc[c] = loc /\ call[c] = NoCall

GetK(c) == Invoke(c, [op |-> "Get", key |-> Key])
PutK(c, value, version) ==
  Invoke(c, [op |-> "Put", key |-> Key, value |-> value, version |-> version])
NoInvoke == UNCHANGED kvVars
\* GetJson has returned; what was put is what Unmarshal finds.
GotJson(c) == out[c].err = "OK"
\* Test.Get and Test.Put, which do the same.
TestGet(c) == GetK(c)
TestPut(c, value, version) == PutK(c, value, version)

Entry1(c, n) == [id |-> c, n |-> n]
Val(n) == <<Entry1(Main, n)>>   \* the value n of the partition test

\* The Clerk's call goes through Clnt.Call: a Clerk of kvsrv1 calls its one
\* server, and a Clerk of kvraft1 tries them all.
Tried(c) == IF kind = "partition" THEN Servers ELSE {Home}
Attempt(c) ==
  /\ call[c] # NoCall
  /\ \E s \in Tried(c) : makeEnd(c, s)
  /\ UNCHANGED <<kvVars, testVars>>

\* The servers the Rival is confined to are a minority until the heal.
Reaches(c) ==
  /\ \E e \in enabled \cap netEnds : e[1] = c
  /\ kind = "partition" /\ c = Rival => whole

\* Without partitions and losses, a request is served once.
Resends == ~reliable /\ maybes < MaxMaybes

CallServed(c) ==
  /\ Reaches(c)
  /\ Resends \/ (~performed[c] /\ answer[c] = NoReply)
  /\ Serve(c)
  /\ UNCHANGED <<clntVars, testVars>>

CallReturns(c) ==
  /\ Finish(c)
  /\ IF out'[c].err = "ErrMaybe" THEN Resends /\ maybes' = maybes + 1 ELSE UNCHANGED maybes
  /\ UNCHANGED <<clntVars, kind, reliable, pc, ver, err, iter, res, round, got, part, whole>>

(***************************************************************************)
(* runClient, and the two functions it runs.  t.Fatalf in a goroutine ends *)
(* that goroutine only.                                                    *)
(***************************************************************************)
ClientRest == UNCHANGED <<kind, reliable, round, part, whole, maybes>>
Keep == UNCHANGED <<ver, err, iter, res, got>>

RunClient(c) ==
  /\ pc[c] = "start"
  /\ MakeClient(c)
  /\ Goto(c, "top") /\ Keep
  /\ NoInvoke /\ ClientRest

\* select: the done signal if the test is sending one, else an iteration.
TakeDone(c) ==
  /\ pc[c] = "top" /\ pc[Main] = "done"
  /\ got' = got + 1
  /\ pc' = [pc EXCEPT ![c] = "result", ![Main] = "sent"]
  /\ UNCHANGED <<ver, err, iter, res>>
  /\ NoInvoke /\ UNCHANGED clntVars /\ ClientRest

Iterate(c) ==
  /\ pc[c] = "top" /\ pc[Main] # "done"
  /\ iter[c] < IF kind = "partitioned" THEN MaxPartitionedIters ELSE MaxIters
  /\ iter' = [iter EXCEPT ![c] = @ + 1]
  /\ IF kind # "appends" THEN Goto(c, "put") /\ PutK(c, <<Entry1(c, ver[c])>>, ver[c])
                         ELSE Goto(c, "appendGet") /\ GetK(c)
  /\ UNCHANGED <<ver, err, res, got>>
  /\ UNCHANGED clntVars /\ ClientRest

Fail(c) == Goto(c, "failed") /\ Keep /\ NoInvoke
Report(c, e) ==
  res' = [res EXCEPT ![c] = IF e = "OK" THEN [@ EXCEPT !.nok = @ + 1] ELSE [@ EXCEPT !.nmaybe = @ + 1]]

OnePutPut(c) ==
  /\ Returned(c, "put")
  /\ IF out[c].err \notin {"OK", "ErrVersion", "ErrMaybe"} THEN Fail(c)
     ELSE /\ err' = [err EXCEPT ![c] = out[c].err]
          /\ Goto(c, "get") /\ GetK(c)
          /\ UNCHANGED <<ver, iter, res, got>>
  /\ UNCHANGED clntVars /\ ClientRest

\* The value the Get returned is not the one this Put wrote.
WrongValue(c) ==
  LET e == out[c].value[1]
  IN  err[c] = "OK" /\ out[c].version = ver[c] + 1 /\ e.id # c /\ e.n # ver[c]

\* Mutant: a Put that may have happened is not counted.
OnePutGetUncounted(c) ==
  /\ Returned(c, "get")
  /\ IF ~GotJson(c) \/ WrongValue(c) THEN Fail(c)
     ELSE /\ ver' = [ver EXCEPT ![c] = out[c].version]
          /\ IF err[c] \in {"OK", "ErrMaybe"}
             THEN Goto(c, "top") /\ NoInvoke
                  /\ (IF err[c] = "OK" THEN Report(c, "OK") ELSE UNCHANGED res)
             ELSE Goto(c, "put") /\ UNCHANGED res
                  /\ PutK(c, <<Entry1(c, out[c].version)>>, out[c].version)
          /\ UNCHANGED <<err, iter, got>>
  /\ UNCHANGED clntVars /\ ClientRest

OnePutGet(c) ==
  /\ Returned(c, "get")
  /\ IF ~GotJson(c) \/ WrongValue(c) THEN Fail(c)
     ELSE /\ ver' = [ver EXCEPT ![c] = out[c].version]
          /\ IF err[c] \in {"OK", "ErrMaybe"}
             THEN Goto(c, "top") /\ Report(c, err[c]) /\ NoInvoke
             ELSE Goto(c, "put") /\ UNCHANGED res
                  /\ PutK(c, <<Entry1(c, out[c].version)>>, out[c].version)
          /\ UNCHANGED <<err, iter, got>>
  /\ UNCHANGED clntVars /\ ClientRest

\* i of the loop is iter - 1.
AppendGet(c) ==
  /\ Returned(c, "appendGet")
  /\ IF ~GotJson(c) THEN Fail(c)
     ELSE /\ Goto(c, "appendPut") /\ Keep
          /\ PutK(c, Append(out[c].value, Entry1(c, iter[c] - 1)), out[c].version)
  /\ UNCHANGED clntVars /\ ClientRest

AppendPut(c) ==
  /\ Returned(c, "appendPut")
  /\ IF out[c].err \in {"OK", "ErrMaybe"}
     THEN Goto(c, "top") /\ Report(c, out[c].err) /\ NoInvoke
     ELSE Goto(c, "appendGet") /\ GetK(c) /\ UNCHANGED res
  /\ UNCHANGED <<ver, err, iter, got>>
  /\ UNCHANGED clntVars /\ ClientRest

\* ca[cli] <- v, which the test receives from in the order of the clients.
SendResult(c) ==
  /\ pc[c] = "result" /\ pc[Main] = "collect" /\ Teams[round][got + 1] = c
  /\ got' = got + 1
  /\ Goto(c, "delete")
  /\ UNCHANGED <<ver, err, iter, res>>
  /\ NoInvoke /\ UNCHANGED clntVars /\ ClientRest

DeleteClerk(c) ==
  /\ pc[c] = "delete"
  /\ DeleteClient(c)
  /\ Goto(c, "gone") /\ Keep
  /\ NoInvoke /\ ClientRest

(***************************************************************************)
(* PutAtLeastOnce, by goroutine c at loc: it tries again with the next     *)
(* version until the Put is known to have happened; Then is what follows.  *)
(***************************************************************************)
Retry(c, value, version) ==
  /\ TestPut(c, value, version)
  /\ ver' = [ver EXCEPT ![c] = version]
  /\ UNCHANGED <<pc, err, iter, res, got, clntVars>> /\ ClientRest

PutAtLeastOnce(c, loc, value, Then) ==
  /\ Returned(c, loc)
  /\ IF out[c].err = "OK" THEN ver' = [ver EXCEPT ![c] = @ + 1] /\ Then
     ELSE IF out[c].err \in {"ErrMaybe", "ErrVersion"} THEN Retry(c, value, ver[c] + 1)
     ELSE IF ver[c] = 0 THEN Retry(c, value, 0)
     ELSE Fail(c) /\ UNCHANGED clntVars /\ ClientRest

\* CheckGet by the test's goroutine at loc.
CheckGet(loc, value, version, Then) ==
  /\ Returned(Main, loc)
  /\ IF out[Main].err = "OK" /\ out[Main].value = value /\ out[Main].version = version
     THEN Then
     ELSE Fail(Main) /\ UNCHANGED clntVars /\ ClientRest

(***************************************************************************)
(* The test's goroutine: SpawnClientsAndWait and the checks.               *)
(***************************************************************************)
MainRest == UNCHANGED <<kind, reliable, ver, err, iter, res, maybes>>
Nowhere == UNCHANGED <<round, part, whole, got>>

Begin ==
  /\ pc[Main] = "begin"
  /\ \/ kind \in {"puts", "partitioned"} /\ Goto(Main, "spawn") /\ NoInvoke
     \/ kind = "appends" /\ Goto(Main, "create") /\ PutK(Main, << >>, 0)
     \/ kind = "partition" /\ Goto(Main, "first") /\ TestPut(Main, Val(13), 0)
     \/ kind = "clnts" /\ Goto(Main, "api") /\ NoInvoke
  /\ MainRest /\ Nowhere /\ UNCHANGED clntVars

\* PutAtLeastOnceJson, whose result nobody uses.
CreateList ==
  /\ Returned(Main, "create")
  /\ IF out[Main].err = "ErrMaybe" THEN PutK(Main, << >>, 0) /\ UNCHANGED pc
                                   ELSE Goto(Main, "spawn") /\ NoInvoke
  /\ MainRest /\ Nowhere /\ UNCHANGED clntVars

LastRound == round = IF kind = "appends" THEN 1 ELSE Len(Teams)

Spawn ==
  /\ pc[Main] = "spawn" /\ ~LastRound
  /\ round' = round + 1 /\ got' = 0
  /\ pc' = [c \in Clients |-> IF c = Main THEN "sleep"
                              ELSE IF c \in Team(round') THEN "start" ELSE pc[c]]
  /\ MainRest /\ NoInvoke /\ UNCHANGED <<clntVars, part, whole>>

\* time.Sleep(t), long enough for some Put of the round to happen: the tests
\* give the clients a second or more.
Wake ==
  /\ pc[Main] = "sleep" /\ reg[Key].version > 0
  /\ Goto(Main, "done")
  /\ MainRest /\ Nowhere /\ NoInvoke /\ UNCHANGED clntVars

\* Mutant: one signal more is sent than there are clients.
NextSignalExtra ==
  /\ pc[Main] = "sent"
  /\ IF got <= Len(Teams[round]) THEN Goto(Main, "done") /\ UNCHANGED got
                                 ELSE Goto(Main, "collect") /\ got' = 0
  /\ MainRest /\ NoInvoke /\ UNCHANGED <<clntVars, round, part, whole>>

\* Between two sends, a client that looks for the signal finds none.
NextSignal ==
  /\ pc[Main] = "sent"
  /\ IF got < Len(Teams[round]) THEN Goto(Main, "done") /\ UNCHANGED got
                                ELSE Goto(Main, "collect") /\ got' = 0
  /\ MainRest /\ NoInvoke /\ UNCHANGED <<clntVars, round, part, whole>>

Collected ==
  /\ pc[Main] = "collect" /\ got = Len(Teams[round])
  /\ GetK(Main)
  /\ Goto(Main, IF kind = "appends" THEN "checkAppends" ELSE "checkPuts")
  /\ MainRest /\ Nowhere /\ UNCHANGED clntVars

\* rs of this round is added to the results of the rounds before.
Reported == UNION {Team(r) : r \in 1..round}
Nok == MapThenSumSet(LAMBDA c : res[c].nok, Reported)
Nmaybe == MapThenSumSet(LAMBDA c : res[c].nmaybe, Reported)

CheckPutConcurrent ==
  /\ Returned(Main, "checkPuts")
  /\ LET ver0 == out[Main].version
         good == /\ GotJson(Main)
                 /\ IF reliable THEN ver0 = Nok ELSE ver0 <= Nok + Nmaybe
     IN  Goto(Main, IF ~good THEN "failed" ELSE IF kind = "partitioned" THEN "stop" ELSE "spawn")
  /\ MainRest /\ Nowhere /\ NoInvoke /\ UNCHANGED clntVars

\* What CheckAppends computes: c's entries, and one more than the last of
\* them, of which those in between were skipped.
EntriesOf(es, c) == SelectSeq(es, LAMBDA e : e.id = c)
Expect(es, c) ==
  LET mine == EntriesOf(es, c)
  IN  IF mine = << >> THEN 0 ELSE mine[Len(mine)].n + 1
Ascending(s) == \A i, j \in DOMAIN s : i < j => s[i].n < s[j].n

AppendsGood(es, version) ==
  /\ Len(es) + 1 = version
  /\ \A c \in Team(1) :
       /\ Ascending(EntriesOf(es, c))
       /\ Expect(es, c) - Len(EntriesOf(es, c)) <= res[c].nmaybe
       /\ Expect(es, c) <= res[c].nok + res[c].nmaybe

CheckAppends ==
  /\ Returned(Main, "checkAppends")
  /\ Goto(Main, IF GotJson(Main) /\ AppendsGood(out[Main].value, out[Main].version)
                THEN "cleanup" ELSE "failed")
  /\ MainRest /\ Nowhere /\ NoInvoke /\ UNCHANGED clntVars

(***************************************************************************)
(* The Partitioner, which polls the channel before every new partition.    *)
(***************************************************************************)
PartitionerOnly ==
  UNCHANGED <<kvVars, clntVars, kind, reliable, ver, err, iter, res, round, got, maybes>>

StartPartitioner ==
  /\ kind = "partitioned" /\ part = "off"
  /\ pc[Main] \notin {"begin", "spawn", "ack", "cleanup", "end", "failed"}
  /\ part' = "top"
  /\ UNCHANGED <<pc, whole>> /\ PartitionerOnly

\* default: choose the sides; one of them may be empty.
PartitionerTop ==
  /\ part = "top" /\ pc[Main] # "stop"
  /\ part' = "body"
  /\ UNCHANGED <<pc, whole>> /\ PartitionerOnly

PartitionerBody ==
  /\ part = "body"
  /\ part' = "top"
  /\ whole' \in BOOLEAN
  /\ UNCHANGED pc /\ PartitionerOnly

\* ch_partitioner <- true, taken at the top of the loop.
StopPartitioner ==
  /\ part = "top" /\ pc[Main] = "stop"
  /\ part' = "stopped"
  /\ Goto(Main, "ack")
  /\ UNCHANGED whole /\ PartitionerOnly

\* <-ch_partitioner, then ConnectAll of the group.
Reconnect ==
  /\ part = "stopped" /\ pc[Main] = "ack"
  /\ part' = "off" /\ whole' = TRUE
  /\ Goto(Main, "spawn")
  /\ PartitionerOnly

(***************************************************************************)
(* TestOnePartition4B: Main's Clerks ck and ckp1 stay with the majority,   *)
(* ckp2a is the Rival, whose Put is submitted in the minority and goes     *)
(* through after the heal.  ckp2b's Get, whose result nobody looks at, is  *)
(* left out.                                                               *)
(***************************************************************************)
TestRest == UNCHANGED <<kind, reliable, err, iter, res, round, got, part, maybes>>

First ==
  PutAtLeastOnce(Main, "first", Val(13),
    /\ Goto(Main, "second") /\ TestPut(Main, Val(14), ver[Main] + 1)
    /\ whole' = FALSE
    /\ MakeClientTo(Rival, Servers \ {Home})
    /\ TestRest)

Second ==
  PutAtLeastOnce(Main, "second", Val(14),
    /\ Goto(Main, "checkSecond") /\ TestGet(Main)
    /\ UNCHANGED <<whole, clntVars>> /\ TestRest)

\* go PutAtLeastOnce(ckp2a, "1", "15", ver1)
CheckSecond ==
  CheckGet("checkSecond", Val(14), ver[Main],
    /\ pc' = [pc EXCEPT ![Main] = "select", ![Rival] = "submit"]
    /\ ver' = [ver EXCEPT ![Rival] = ver[Main]]
    /\ NoInvoke /\ UNCHANGED <<whole, clntVars>> /\ TestRest)

\* A second later: a Put that completed in the minority is fatal.
SelectMinority ==
  /\ pc[Main] = "select"
  /\ IF pc[Rival] = "result" THEN Goto(Main, "failed") /\ NoInvoke
                             ELSE Goto(Main, "checkAgain") /\ TestGet(Main)
  /\ UNCHANGED <<ver, whole, clntVars>> /\ TestRest

CheckAgain ==
  CheckGet("checkAgain", Val(14), ver[Main],
    /\ Goto(Main, "third") /\ TestPut(Main, Val(16), ver[Main])
    /\ UNCHANGED <<ver, whole, clntVars>> /\ TestRest)

RivalStart ==
  /\ pc[Rival] = "submit"
  /\ Goto(Rival, "once") /\ TestPut(Rival, Val(15), ver[Rival])
  /\ UNCHANGED <<ver, whole, clntVars>> /\ TestRest

RivalOnce ==
  PutAtLeastOnce(Rival, "once", Val(15),
    /\ Goto(Rival, "result") /\ NoInvoke
    /\ UNCHANGED <<whole, clntVars>> /\ TestRest)

Third ==
  PutAtLeastOnce(Main, "third", Val(16),
    /\ Goto(Main, "checkThird") /\ TestGet(Main)
    /\ UNCHANGED <<whole, clntVars>> /\ TestRest)

CheckThird ==
  CheckGet("checkThird", Val(16), ver[Main],
    /\ Goto(Main, "heal") /\ NoInvoke
    /\ UNCHANGED <<ver, whole, clntVars>> /\ TestRest)

Heal ==
  \/ /\ pc[Main] = "heal"
     /\ Goto(Main, "reconnect") /\ whole' = TRUE
     /\ NoInvoke /\ UNCHANGED <<ver, clntVars>> /\ TestRest
  \/ /\ pc[Main] = "reconnect"
     /\ Goto(Main, "wait") /\ ConnectAll(Rival)
     /\ NoInvoke /\ UNCHANGED <<ver, whole>> /\ TestRest

\* ver15 = <-done0
RivalDone ==
  /\ pc[Main] = "wait" /\ pc[Rival] = "result"
  /\ pc' = [pc EXCEPT ![Main] = "checkLast", ![Rival] = "gone"]
  /\ TestGet(Main)
  /\ UNCHANGED <<ver, whole, clntVars>> /\ TestRest

CheckLast ==
  CheckGet("checkLast", Val(15), ver[Rival],
    /\ Goto(Main, "cleanup") /\ NoInvoke
    /\ UNCHANGED <<ver, whole, clntVars>> /\ TestRest)

PartitionTest ==
  \/ First \/ Second \/ CheckSecond \/ SelectMinority \/ CheckAgain \/ RivalStart \/ RivalOnce \/ Third \/ CheckThird
  \/ Heal \/ RivalDone \/ CheckLast

(***************************************************************************)
(* A test that works with the Clnts of its Clerks, in any order, while the *)
(* Clerks' goroutines call.                                                *)
(***************************************************************************)
Api(c) ==
  /\ pc[Main] = "api"
  /\ \/ /\ pc[c] = "new" /\ Goto(c, "made")
        /\ \E to \in SUBSET Servers : MakeClientTo(c, to)
     \/ /\ pc[c] = "made" /\ UNCHANGED pc
        /\ \/ ConnectAll(c) \/ DisconnectAll(c) \/ DeleteClient(c)
           \/ \E s \in Servers : Disconnect(c, s)
           \/ \E to \in SUBSET Servers : ConnectTo(c, to)
     \/ Goto(Main, "cleanup") /\ UNCHANGED clntVars
  /\ NoInvoke /\ UNCHANGED <<ver, whole>> /\ TestRest

\* The goroutine of a Clerk need not have ended when the Clerk is deleted.
ApiCall(c) ==
  /\ pc[c] = "made"
  /\ \E s \in Servers : makeEnd(c, s)
  /\ NoInvoke /\ UNCHANGED testVars

\* The deferred Config.Cleanup; goroutines of the last round may be running.
Cleanup ==
  /\ pc[Main] = "cleanup" \/ (pc[Main] = "spawn" /\ LastRound)
  /\ cleanup
  /\ Goto(Main, "end")
  /\ NoInvoke /\ UNCHANGED <<ver, whole>> /\ TestRest

Client(c) ==
  \/ RunClient(c) \/ TakeDone(c) \/ Iterate(c) \/ OnePutPut(c) \/ OnePutGet(c)
  \/ AppendGet(c) \/ AppendPut(c) \/ SendResult(c) \/ DeleteClerk(c)

Test ==
  \/ Begin \/ CreateList \/ Spawn \/ Wake \/ NextSignal \/ Collected \/ CheckPutConcurrent
  \/ CheckAppends \/ PartitionTest \/ Cleanup

Partitioner == PartitionerTop \/ PartitionerBody \/ StopPartitioner \/ Reconnect

Next ==
  \/ \E c \in Clients : Attempt(c) \/ CallServed(c) \/ CallReturns(c)
  \/ \E c \in Spawned : Client(c)
  \/ Test
  \/ StartPartitioner \/ Partitioner
  \/ \E c \in Team(1) : Api(c) \/ ApiCall(c)

Spec == Init /\ [][~fatal /\ Next]_vars

\* Every goroutine runs, and the calls of a Clerk return (CallsReturn).
FairSpec ==
  /\ Spec
  /\ \A c \in Clients : WF_vars(Attempt(c)) /\ WF_vars(CallServed(c)) /\ WF_vars(CallReturns(c))
  /\ \A c \in Spawned : WF_vars(Client(c))
  /\ WF_vars(Test) /\ WF_vars(StartPartitioner) /\ WF_vars(Partitioner)

(***************************************************************************)
(* Properties.                                                             *)
(***************************************************************************)
\* No check of the library fails on a correct service: neither those of
\* OnePut and OneClientAppend, nor CheckPutConcurrent, CheckAppends and
\* CheckGet of the test.
ChecksPass == \A c \in Clients : pc[c] # "failed"

\* The test ends: SpawnClientsAndWait returns, since every client looks for
\* the done signal between its Puts, and the test gets hold of the Partitioner.
TestEnds == kind # "clnts" => <>(pc[Main] = "end")

\* No end is left in the Network when Cleanup has run, although clients of the
\* last round may still be about to delete their Clerks; only a goroutine that
\* calls through a Clnt deleted before (a controller the test has given up)
\* leaves one behind.
EndsReclaimed == cleaned => netEnds \subseteq (IF kind = "clnts" THEN stray ELSE {})
=============================================================================
