------------------------------ MODULE RaftLogs ------------------------------
(***************************************************************************)
(* How the Raft tests learn what the servers have applied                  *)
(* (raft1/server.go, raft1/proxy.go, raft1/test.go).  Each server process  *)
(* reads the apply channel of its Raft peer and sends every entry to the   *)
(* tester in a CheckLogs RPC; with snapshots it also snapshots its log     *)
(* every SnapShotInterval entries, and sends a snapshot it gets in an      *)
(* IngestLog RPC.  The tester compares, and one() waits until enough       *)
(* servers have the command.                                               *)
(*                                                                         *)
(* Raft itself is external: a log that only grows, delivered in order and  *)
(* over again after a restart.  A faulty server's Raft delivers what it    *)
(* likes.  Index 0, nil in every snapshot, is left out.                    *)
(***************************************************************************)
EXTENDS Naturals, Sequences, FiniteSets

CONSTANTS
  Servers,
  Cmds,              \* the commands the test submits
  None,              \* no entry
  MaxLog,            \* bound on the length of the log
  SnapShotInterval,  \* 10 in the code
  MaxKills,          \* bound on how many servers the test kills
  MaxOdd,            \* bound on what a faulty server's Raft delivers wrongly
  Expected,          \* expectedServers of one()
  Configs            \* the configurations: [snapshot, faulty, stale]

Index == 1..MaxLog
Logs == [Index -> Cmds \cup {None}]

ASSUME RaftLogsAssumption ==
  /\ None \notin Cmds
  /\ MaxLog \in Nat /\ MaxKills \in Nat /\ MaxOdd \in Nat
  /\ SnapShotInterval \in Nat \ {0} /\ Expected \in Nat \ {0}
  /\ Configs \subseteq [snapshot : BOOLEAN, faulty : SUBSET Servers, stale : BOOLEAN]

VARIABLES
  conf,         \* this test: snapshots or not, the faulty servers, and whether
                \* a call of a killed process may still run after the restart
  committed, proposed,      \* Raft: the committed log, the commands submitted
  delivered,    \* Raft: the index it has sent last on the apply channel
  snap,         \* Raft's persister: the snapshot, and the last index in it
  proc,         \* the server process: "up", "closing" or "down"
  pc,           \* the RPC to the tester that the applier waits for, or "read"
  msg,          \* the ApplyMsg the applier works on
  err,          \* err_msg # ""
  log, lastApplied,         \* rfsrv, with snapshots
  logs, applyErr,           \* raftServer: what the tester knows of a server
  one,          \* the test: [pc, cmd, index] of one()
  stale,        \* calls of killed processes that the tester has yet to run
  reported,     \* history: what CheckLogs has been told, <<index, command>>
  lost,         \* history: the report of an error went down with its server
  kills, odd    \* counters for the bounds

raftVars == <<committed, proposed, delivered, snap>>
srvVars == <<pc, msg, err, log, lastApplied>>
testVars == <<logs, applyErr, reported>>
vars == <<conf, raftVars, proc, srvVars, testVars, one, stale, lost, kills, odd>>

NoLog == [i \in Index |-> None]
NoSnap == [last |-> 0, log |-> NoLog]
NoMsg == [index |-> 0, cmd |-> None]
Msgs == [index : Index, cmd : Cmds] \cup {NoMsg}
Request(s) == [srv |-> s, op |-> pc[s], msg |-> msg[s], log |-> log[s]]
Calls == {"check", "ingest", "report"}

TypeOK ==
  /\ conf \in Configs
  /\ committed \in Seq(Cmds) /\ Len(committed) <= MaxLog /\ proposed \subseteq Cmds
  /\ delivered \in [Servers -> 0..MaxLog] /\ lastApplied \in [Servers -> 0..MaxLog]
  /\ snap \in [Servers -> [last : 0..MaxLog, log : Logs]]
  /\ proc \in [Servers -> {"up", "closing", "down"}]
  /\ pc \in [Servers -> Calls \cup {"read"}]
  /\ msg \in [Servers -> Msgs] /\ err \in [Servers -> BOOLEAN]
  /\ log \in [Servers -> Logs] /\ logs \in [Servers -> Logs]
  /\ applyErr \in [Servers -> BOOLEAN] /\ lost \in BOOLEAN
  /\ one \in [pc : {"call", "wait", "fatal"}, cmd : Cmds \cup {None}, index : 0..MaxLog]
  /\ stale \subseteq [srv : Servers, op : Calls, msg : Msgs, log : Logs]
  /\ reported \subseteq Index \X Cmds
  /\ kills \in 0..MaxKills /\ odd \in 0..MaxOdd

\* makeTest: every server runs, with an empty persister.
Init ==
  /\ conf \in Configs
  /\ committed = <<>> /\ proposed = {} /\ delivered = [s \in Servers |-> 0]
  /\ snap = [s \in Servers |-> NoSnap]
  /\ proc = [s \in Servers |-> "up"] /\ pc = [s \in Servers |-> "read"]
  /\ msg = [s \in Servers |-> NoMsg] /\ err = [s \in Servers |-> FALSE]
  /\ log = [s \in Servers |-> NoLog] /\ lastApplied = [s \in Servers |-> 0]
  /\ logs = [s \in Servers |-> NoLog] /\ applyErr = [s \in Servers |-> FALSE]
  /\ one = [pc |-> "call", cmd |-> None, index |-> 0]
  /\ stale = {} /\ reported = {} /\ lost = FALSE
  /\ kills = 0 /\ odd = 0

\* A fatal error ends the test.
Testing == one.pc # "fatal"

(***************************************************************************)
(* Raft.                                                                   *)
(***************************************************************************)
Commit ==
  /\ Testing /\ Len(committed) < MaxLog
  /\ \E c \in proposed : committed' = Append(committed, c)
  /\ UNCHANGED <<conf, proposed, delivered, snap, proc, srvVars, testVars, one, stale, lost, kills, odd>>

\* What Raft sends next to s.
Due(s) ==
  {[index |-> i, cmd |-> committed[i]] : i \in {j \in 1..Len(committed) : j = delivered[s] + 1}}

(***************************************************************************)
(* applier and applierSnap.                                                *)
(***************************************************************************)
\* Mutant: the snapshot's list starts at index 1, and is read back from 0.
SnapshotShifted(s, m, l) ==
  IF (m.index + 1) % SnapShotInterval = 0
    THEN snap' = [snap EXCEPT ![s] = [last |-> m.index,
                    log |-> [j \in Index |-> IF j < m.index THEN l[j + 1] ELSE None]]]
    ELSE UNCHANGED snap

\* Every SnapShotInterval entries Raft gets the log up to the index.
Snapshot(s, m, l) ==
  IF (m.index + 1) % SnapShotInterval = 0
    THEN snap' = [snap EXCEPT ![s] = [last |-> m.index,
                    log |-> [j \in Index |-> IF j <= m.index THEN l[j] ELSE None]]]
    ELSE UNCHANGED snap

\* The end of applierSnap's turn with m: also after an error.
Record(s, m) ==
  IF conf.snapshot
    THEN LET l == [log[s] EXCEPT ![m.index] = m.cmd] IN
           /\ log' = [log EXCEPT ![s] = l]
           /\ lastApplied' = [lastApplied EXCEPT ![s] = m.index]
           /\ Snapshot(s, m, l)
    ELSE UNCHANGED <<log, lastApplied, snap>>

\* The applier is back at its loop, by way of ApplyErr when e.
Turn(s, e) ==
  /\ pc' = [pc EXCEPT ![s] = IF e THEN "report" ELSE "read"]
  /\ msg' = [msg EXCEPT ![s] = NoMsg]
  /\ err' = [err EXCEPT ![s] = FALSE]

\* A command comes down the apply channel.  applierSnap itself looks at the order.
Receive(s) ==
  /\ Testing /\ proc[s] # "down" /\ pc[s] = "read"
  /\ \E m \in Due(s) \cup IF s \in conf.faulty THEN [index : Index, cmd : Cmds] ELSE {} :
       /\ odd' = IF m \in Due(s) THEN odd ELSE odd + 1
       /\ odd' <= MaxOdd
       /\ delivered' = [delivered EXCEPT ![s] = m.index]
       /\ \/ /\ conf.snapshot /\ m.index # lastApplied[s] + 1
             /\ Record(s, m) /\ Turn(s, TRUE)
             /\ lost' = (lost \/ proc[s] = "closing")
          \/ /\ ~conf.snapshot \/ m.index = lastApplied[s] + 1
             /\ pc' = [pc EXCEPT ![s] = "check"]
             /\ msg' = [msg EXCEPT ![s] = m]
             /\ UNCHANGED <<err, log, lastApplied, snap, lost>>
  /\ UNCHANGED <<conf, committed, proposed, proc, testVars, one, stale, kills>>

\* A snapshot of some server's Raft comes down the apply channel, and is kept.
\* ingestSnap: an index that is not the snapshot's is an error.
ReceiveSnap(s) ==
  /\ Testing /\ conf.snapshot /\ proc[s] # "down" /\ pc[s] = "read"
  /\ \E t \in Servers :
       /\ snap[t].last > delivered[s]
       /\ \E index \in IF s \in conf.faulty THEN Index ELSE {snap[t].last} :
            \/ /\ index = snap[t].last
               /\ log' = [log EXCEPT ![s] = snap[t].log]
               /\ lastApplied' = [lastApplied EXCEPT ![s] = snap[t].last]
               /\ UNCHANGED <<err, odd>>
            \/ /\ index # snap[t].last
               /\ odd < MaxOdd /\ odd' = odd + 1
               /\ err' = [err EXCEPT ![s] = TRUE]
               /\ UNCHANGED <<log, lastApplied>>
       /\ snap' = [snap EXCEPT ![s] = snap[t]]
       /\ delivered' = [delivered EXCEPT ![s] = snap[t].last]
  /\ pc' = [pc EXCEPT ![s] = "ingest"]
  /\ UNCHANGED <<conf, committed, proposed, proc, msg, testVars, one, stale, lost, kills>>

(***************************************************************************)
(* The RPCs of the tester.                                                 *)
(***************************************************************************)
Differs(m) == \E t \in Servers : logs[t][m.index] \notin {None, m.cmd}
PrevOk(s, m) == logs[s][m.index - 1] # None

\* Mutant: only the server's own log is looked at.
CheckErrOwn(s, m) == logs[s][m.index] \notin {None, m.cmd} \/ (m.index > 1 /\ ~PrevOk(s, m))

CheckErr(s, m) == Differs(m) \/ (m.index > 1 /\ ~PrevOk(s, m))

CheckLogs(s, m) ==
  /\ logs' = [logs EXCEPT ![s][m.index] = m.cmd]
  /\ reported' = reported \cup {<<m.index, m.cmd>>}
  /\ UNCHANGED applyErr

IngestLog(s, l) == logs' = [logs EXCEPT ![s] = l] /\ UNCHANGED <<applyErr, reported>>

ApplyErr(s) == applyErr' = [applyErr EXCEPT ![s] = TRUE] /\ UNCHANGED <<logs, reported>>

\* The applier's call runs, and returns.
Call(s) ==
  /\ Testing /\ proc[s] = "up"
  /\ \/ /\ pc[s] = "check"
        /\ CheckLogs(s, msg[s])
        /\ Record(s, msg[s]) /\ Turn(s, CheckErr(s, msg[s]))
     \/ /\ pc[s] = "ingest"
        /\ IngestLog(s, log[s]) /\ Turn(s, err[s])
        /\ UNCHANGED <<log, lastApplied, snap>>
     \/ /\ pc[s] = "report"
        /\ ApplyErr(s) /\ Turn(s, FALSE)
        /\ UNCHANGED <<log, lastApplied, snap>>
  /\ UNCHANGED <<conf, committed, proposed, delivered, proc, one, stale, lost, kills, odd>>

\* A killed process' call runs; nobody gets the answer.
StaleCall(r) ==
  /\ Testing /\ r \in stale /\ stale' = stale \ {r}
  /\ \/ /\ r.op = "check" /\ CheckLogs(r.srv, r.msg)
        /\ lost' = (lost \/ CheckErr(r.srv, r.msg))
     \/ r.op = "ingest" /\ IngestLog(r.srv, r.log) /\ UNCHANGED lost
     \/ r.op = "report" /\ ApplyErr(r.srv) /\ UNCHANGED lost
  /\ UNCHANGED <<conf, raftVars, proc, srvVars, one, kills, odd>>

(***************************************************************************)
(* kill and restart.                                                       *)
(***************************************************************************)
\* CheckpointPersister closes the connection first.  A call in progress fails
\* for the server; the tester may have got it all the same.
Close(s) ==
  /\ Testing /\ proc[s] = "up" /\ kills < MaxKills
  /\ proc' = [proc EXCEPT ![s] = "closing"]
  /\ kills' = kills + 1
  /\ \/ stale' = stale /\ lost' = (lost \/ pc[s] = "report" \/ err[s])
     \/ pc[s] \in Calls /\ stale' = stale \cup {Request(s)} /\ lost' = (lost \/ err[s])
  /\ UNCHANGED <<conf, raftVars, srvVars, testVars, one, odd>>

\* Mutant: a call fails now and then, and the server goes on.
CallFailsUp(s) ==
  /\ Testing /\ proc[s] # "down"
  /\ \/ pc[s] = "check" /\ Record(s, msg[s]) /\ Turn(s, TRUE)
     \/ pc[s] = "ingest" /\ Turn(s, err[s]) /\ UNCHANGED <<log, lastApplied, snap>>
     \/ pc[s] = "report" /\ Turn(s, FALSE) /\ UNCHANGED <<log, lastApplied, snap>>
  /\ UNCHANGED <<conf, committed, proposed, delivered, proc, testVars, one, stale, lost, kills, odd>>

\* Until the kill every call fails: CheckLogs returns "ErrRPC".
CallFails(s) ==
  /\ Testing /\ proc[s] = "closing"
  /\ \/ pc[s] = "check" /\ Record(s, msg[s]) /\ Turn(s, TRUE)
     \/ pc[s] = "ingest" /\ Turn(s, err[s]) /\ UNCHANGED <<log, lastApplied, snap>>
     \/ pc[s] = "report" /\ Turn(s, FALSE) /\ UNCHANGED <<log, lastApplied, snap>>
  /\ UNCHANGED <<conf, committed, proposed, delivered, proc, testVars, one, stale, lost, kills, odd>>

Kill(s) ==
  /\ Testing /\ proc[s] = "closing"
  /\ proc' = [proc EXCEPT ![s] = "down"]
  /\ Turn(s, FALSE)
  /\ log' = [log EXCEPT ![s] = NoLog]
  /\ lastApplied' = [lastApplied EXCEPT ![s] = 0]
  /\ UNCHANGED <<conf, raftVars, testVars, one, stale, lost, kills, odd>>

\* Mutant: the restarted server does not send its snapshot.
IngestAtStartNot(s) == UNCHANGED testVars

\* newRfsrv processes the snapshot "now", if there is one.
IngestAtStart(s) ==
  IF snap[s].last > 0 THEN IngestLog(s, snap[s].log) ELSE UNCHANGED testVars

Restart(s) ==
  /\ Testing /\ proc[s] = "down"
  /\ conf.stale \/ \A r \in stale : r.srv # s
  /\ proc' = [proc EXCEPT ![s] = "up"]
  /\ log' = [log EXCEPT ![s] = snap[s].log]
  /\ lastApplied' = [lastApplied EXCEPT ![s] = snap[s].last]
  /\ delivered' = [delivered EXCEPT ![s] = snap[s].last]
  /\ IngestAtStart(s)
  /\ UNCHANGED <<conf, committed, proposed, snap, pc, msg, err, one, stale, lost, kills, odd>>

(***************************************************************************)
(* one(cmd, Expected, retry).                                              *)
(***************************************************************************)
Holders(i) == {s \in Servers : logs[s][i] # None}

\* nCommitted ends the test.
NCommittedFatal(i) ==
  \/ \E s \in Servers : applyErr[s]
  \/ \E s, t \in Holders(i) : logs[s][i] # logs[t][i]

\* A server that claims to lead, rightly or not, gives the command an index.
Start(c) ==
  /\ proposed' = proposed \cup {c}
  /\ \E s \in Servers, i \in Index :
       /\ proc[s] = "up" /\ i > delivered[s]
       /\ one' = [pc |-> "wait", cmd |-> c, index |-> i]
  /\ UNCHANGED <<conf, committed, delivered, snap, proc, srvVars, testVars, stale, lost, kills, odd>>

OneStart == one.pc = "call" /\ \E c \in Cmds \ proposed : Start(c)

\* Mutant: whatever command is at the index will do.
AgreedAny == Cardinality(Holders(one.index)) >= Expected

\* Enough servers have the command at the index.
Agreed ==
  /\ Cardinality(Holders(one.index)) >= Expected
  /\ \A s \in Holders(one.index) : logs[s][one.index] = one.cmd

\* A round of the waiting loop that ends it.
OneWait ==
  /\ one.pc = "wait"
  /\ \/ NCommittedFatal(one.index) /\ one' = [one EXCEPT !.pc = "fatal"]
     \/ ~NCommittedFatal(one.index) /\ Agreed /\ one' = [pc |-> "call", cmd |-> None, index |-> 0]
  /\ UNCHANGED <<conf, raftVars, proc, srvVars, testVars, stale, lost, kills, odd>>

\* Two seconds without agreement: the command is submitted again.
OneRetry ==
  /\ one.pc = "wait" /\ ~NCommittedFatal(one.index) /\ ~Agreed
  /\ Start(one.cmd)
-----------------------------------------------------------------------------
Running(s) == Receive(s) \/ ReceiveSnap(s) \/ Call(s) \/ CallFails(s)

Next ==
  \/ Commit \/ OneStart \/ OneWait \/ OneRetry
  \/ \E s \in Servers : Running(s) \/ Close(s) \/ Kill(s) \/ Restart(s)
  \/ \E r \in stale : StaleCall(r)

Spec == Init /\ [][Next]_vars

\* Raft keeps delivering, the appliers and the tester keep running, and the
\* test restarts whom it kills.
Fairness ==
  /\ \A s \in Servers : WF_vars(Running(s)) /\ WF_vars(Kill(s)) /\ WF_vars(Restart(s))
  /\ WF_vars(\E r \in stale : StaleCall(r))

FairSpec == Spec /\ Fairness
-----------------------------------------------------------------------------
Correct == conf.faulty = {}

\* What the tester has of a correct group is what Raft has committed: entries,
\* snapshots taken, installed and read back, and replays after restarts and
\* late calls of killed servers all say the same (server.go:107-210).
Truthful ==
  Correct => \A s \in Servers, i \in Index :
               logs[s][i] # None => (i <= Len(committed) /\ logs[s][i] = committed[i])

\* A correct group never fails the test: no report that entries differ or are
\* out of order, however calls, kills and restarts fall (server.go:113, 146).
\* With snapshots this takes that a killed server's calls end before its restart:
\* a late IngestLog would take entries away.
Settled == Correct /\ (conf.snapshot => ~conf.stale)
NoFalseAlarm == Settled => one.pc # "fatal" /\ \A s \in Servers : ~applyErr[s]

\* An error that some server has reported, has still to report, or could not.
Alarm ==
  \/ lost
  \/ \E s \in Servers : applyErr[s] \/ (proc[s] = "up" /\ pc[s] = "report")
  \/ \E r \in stale : r.op = "report"

\* A gap in what a server has applied never goes unnoticed; neither, without
\* snapshots, do two commands for one index, even if an entry has been
\* overwritten since (test.go:281, "indirectly checks that the servers agree on
\* the same value ... as do the threads that read from applyCh").
GapFree(l) == \A i \in Index : (i > 1 /\ l[i] # None) => l[i - 1] # None
FaultCaught ==
  \/ Alarm
  \/ /\ ~conf.snapshot => \A p, q \in reported : p[1] = q[1] => p[2] = q[2]
     /\ \A s \in Servers : GapFree(logs[s]) /\ GapFree(log[s])

\* one() returns an index only if Raft has committed the command there
\* (test.go:325-334).
OneIsCommitted ==
  [][(one.pc = "wait" /\ one'.pc = "call" /\ Correct) =>
       one.index <= Len(committed) /\ committed[one.index] = one.cmd]_vars

\* A running server's committed entries all reach the tester in the end, across
\* kills, snapshots and restarts (server.go:107-182).
CatchUp ==
  Settled => <>[](\A s \in Servers : \A i \in 1..Len(committed) : logs[s][i] # None)
=============================================================================
