--------------------------- MODULE RaftLogsProofs ---------------------------
(***************************************************************************)
(* Proofs about RaftLogs: the tester knows what a correct Raft group has   *)
(* committed, and does not fail it.                                        *)
(***************************************************************************)
EXTENDS RaftLogs, FiniteSetTheorems, TLAPS

USE RaftLogsAssumption

(***************************************************************************)
(* The types, and what the appliers work on.                               *)
(***************************************************************************)
Entry == [index : Index, cmd : Cmds]

\* The types, and that the applier checks entries only.
TInv ==
  /\ TypeOK
  /\ \A s \in Servers : pc[s] = "check" => msg[s] \in Entry
  /\ \A r \in stale : r.op = "check" => r.msg \in Entry
  /\ one.pc = "wait" => one.cmd \in Cmds /\ one.index \in Index

LEMMA NoLogType == NoLog \in Logs /\ NoSnap \in [last : 0..MaxLog, log : Logs] /\ NoMsg \in Msgs
BY DEF NoLog, NoSnap, NoMsg, Logs, Msgs

LEMMA InitTInv == Init => TInv
<1> SUFFICES ASSUME Init PROVE TInv
  OBVIOUS
<1>1. TypeOK
  <2>1. committed \in Seq(Cmds) /\ Len(committed) = 0
    BY DEF Init
  <2>2. snap \in [Servers -> [last : 0..MaxLog, log : Logs]]
    BY NoLogType DEF Init
  <2>3. log \in [Servers -> Logs] /\ logs \in [Servers -> Logs] /\ msg \in [Servers -> Msgs]
    BY NoLogType DEF Init
  <2>4. one \in [pc : {"call", "wait", "fatal"}, cmd : Cmds \cup {None}, index : 0..MaxLog]
    BY DEF Init
  <2>5. /\ delivered \in [Servers -> 0..MaxLog] /\ lastApplied \in [Servers -> 0..MaxLog]
        /\ kills \in 0..MaxKills /\ odd \in 0..MaxOdd
    BY DEF Init
  <2>6. /\ proc \in [Servers -> {"up", "closing", "down"}] /\ pc \in [Servers -> Calls \cup {"read"}]
        /\ err \in [Servers -> BOOLEAN] /\ applyErr \in [Servers -> BOOLEAN] /\ lost \in BOOLEAN
    BY Zenon DEF Init
  <2>7. conf \in Configs /\ proposed = {} /\ stale = {} /\ reported = {}
    BY DEF Init
  <2> QED BY <2>1, <2>2, <2>3, <2>4, <2>5, <2>6, <2>7 DEF TypeOK
<1>2. one.pc = "call" /\ stale = {} /\ \A s \in Servers : pc[s] = "read"
  BY DEF Init
<1> QED BY <1>1, <1>2 DEF TInv

\* Applying an entry keeps the types of the server's log and snapshot.
LEMMA RecordType ==
  ASSUME TypeOK, NEW s \in Servers, NEW m \in Entry, Record(s, m)
  PROVE  /\ log' \in [Servers -> Logs] /\ lastApplied' \in [Servers -> 0..MaxLog]
         /\ snap' \in [Servers -> [last : 0..MaxLog, log : Logs]]
<1> DEFINE l == [log[s] EXCEPT ![m.index] = m.cmd]
<1>1. l \in Logs
  BY DEF TypeOK, Logs, Entry
<1>2. [last |-> m.index, log |-> [j \in Index |-> IF j <= m.index THEN l[j] ELSE None]]
        \in [last : 0..MaxLog, log : Logs]
  BY <1>1 DEF Logs, Entry, Index
<1> HIDE DEF l
<1>3. CASE conf.snapshot
  <2>1. log' = [log EXCEPT ![s] = l] /\ lastApplied' = [lastApplied EXCEPT ![s] = m.index]
        /\ Snapshot(s, m, l)
    BY <1>3 DEF Record, l
  <2>2. snap' \in [Servers -> [last : 0..MaxLog, log : Logs]]
    BY ZenonT(30), <2>1, <1>2 DEF Snapshot, TypeOK
  <2>3. log' \in [Servers -> Logs]
    BY <2>1, <1>1 DEF TypeOK
  <2>4. lastApplied' \in [Servers -> 0..MaxLog]
    BY <2>1 DEF TypeOK, Entry, Index
  <2> QED BY <2>2, <2>3, <2>4
<1>4. CASE ~conf.snapshot
  BY <1>4 DEF Record, TypeOK
<1> QED BY <1>3, <1>4

LEMMA TurnType ==
  ASSUME TInv, NEW s \in Servers, NEW e \in BOOLEAN, Turn(s, e)
  PROVE  /\ pc' \in [Servers -> Calls \cup {"read"}]
         /\ msg' \in [Servers -> Msgs] /\ err' \in [Servers -> BOOLEAN]
         /\ \A t \in Servers : pc'[t] = "check" => msg'[t] \in Entry
BY NoLogType DEF TInv, TypeOK, Turn, Calls

\* The end of a turn: what is left of the types.
LEMMA TurnTInv ==
  ASSUME TInv, NEW s \in Servers, NEW e \in BOOLEAN, Turn(s, e),
         log' \in [Servers -> Logs], lastApplied' \in [Servers -> 0..MaxLog],
         snap' \in [Servers -> [last : 0..MaxLog, log : Logs]],
         logs' \in [Servers -> Logs], reported' \subseteq Index \X Cmds,
         applyErr' \in [Servers -> BOOLEAN],
         UNCHANGED <<conf, committed, proposed, delivered, proc, one, stale, lost, kills, odd>>
  PROVE  TInv'
<1>1. /\ pc' \in [Servers -> Calls \cup {"read"}]
      /\ msg' \in [Servers -> Msgs] /\ err' \in [Servers -> BOOLEAN]
      /\ \A t \in Servers : pc'[t] = "check" => msg'[t] \in Entry
  BY TurnType
<1>2. TypeOK'
  BY Zenon, <1>1 DEF TInv, TypeOK
<1> QED BY <1>1, <1>2 DEF TInv

LEMMA CheckLogsType ==
  ASSUME TypeOK, NEW s \in Servers, NEW m \in Entry, CheckLogs(s, m)
  PROVE  /\ logs' \in [Servers -> Logs] /\ reported' \subseteq Index \X Cmds
         /\ applyErr' \in [Servers -> BOOLEAN]
BY DEF TypeOK, CheckLogs, Entry, Logs

LEMMA IngestType ==
  ASSUME TypeOK, NEW s \in Servers, NEW l \in Logs, IngestLog(s, l)
  PROVE  /\ logs' \in [Servers -> Logs] /\ reported' \subseteq Index \X Cmds
         /\ applyErr' \in [Servers -> BOOLEAN]
BY DEF TypeOK, IngestLog

LEMMA ApplyErrType ==
  ASSUME TypeOK, NEW s \in Servers, ApplyErr(s)
  PROVE  /\ logs' \in [Servers -> Logs] /\ reported' \subseteq Index \X Cmds
         /\ applyErr' \in [Servers -> BOOLEAN]
BY DEF TypeOK, ApplyErr

\* What Raft sends a server is an entry of its log.
LEMMA DueType ==
  ASSUME TypeOK, NEW s \in Servers, NEW m \in Due(s)
  PROVE  /\ m \in Entry /\ m.index = delivered[s] + 1
         /\ m.index <= Len(committed) /\ m.cmd = committed[m.index]
BY DEF Due, TypeOK, Entry, Index

LEMMA ReceiveType ==
  ASSUME TInv, NEW s \in Servers, Receive(s)
  PROVE  TInv'
<1>1. PICK m \in Due(s) \cup IF s \in conf.faulty THEN Entry ELSE {} :
        /\ odd' = IF m \in Due(s) THEN odd ELSE odd + 1
        /\ odd' <= MaxOdd
        /\ delivered' = [delivered EXCEPT ![s] = m.index]
        /\ \/ /\ conf.snapshot /\ m.index # lastApplied[s] + 1
              /\ Record(s, m) /\ Turn(s, TRUE)
              /\ lost' = (lost \/ proc[s] = "closing")
           \/ /\ ~conf.snapshot \/ m.index = lastApplied[s] + 1
              /\ pc' = [pc EXCEPT ![s] = "check"]
              /\ msg' = [msg EXCEPT ![s] = m]
              /\ UNCHANGED <<err, log, lastApplied, snap, lost>>
  BY Zenon DEF Receive, Entry
<1>2. m \in Entry
  BY <1>1, DueType DEF TInv
<1>3. UNCHANGED <<conf, committed, proposed, proc, testVars, one, stale, kills>>
  BY DEF Receive
<1>4. odd' \in 0..MaxOdd /\ delivered' \in [Servers -> 0..MaxLog]
  BY <1>1, <1>2 DEF TInv, TypeOK, Entry, Index
<1>5. CASE Record(s, m) /\ Turn(s, TRUE) /\ lost' = (lost \/ proc[s] = "closing")
  BY Zenon, <1>2, <1>3, <1>4, <1>5, RecordType, TurnType DEF TInv, TypeOK, testVars
<1>6. CASE /\ pc' = [pc EXCEPT ![s] = "check"]
           /\ msg' = [msg EXCEPT ![s] = m]
           /\ UNCHANGED <<err, log, lastApplied, snap, lost>>
  BY Zenon, <1>2, <1>3, <1>4, <1>6 DEF TInv, TypeOK, testVars, Calls, Msgs, Entry
<1> QED BY Zenon, <1>1, <1>5, <1>6

LEMMA ReceiveSnapType ==
  ASSUME TInv, NEW s \in Servers, ReceiveSnap(s)
  PROVE  TInv'
<1>1. PICK t \in Servers :
        /\ snap' = [snap EXCEPT ![s] = snap[t]]
        /\ delivered' = [delivered EXCEPT ![s] = snap[t].last]
        /\ \/ /\ log' = [log EXCEPT ![s] = snap[t].log]
              /\ lastApplied' = [lastApplied EXCEPT ![s] = snap[t].last]
              /\ UNCHANGED <<err, odd>>
           \/ /\ odd < MaxOdd /\ odd' = odd + 1
              /\ err' = [err EXCEPT ![s] = TRUE]
              /\ UNCHANGED <<log, lastApplied>>
  BY Zenon DEF ReceiveSnap
<1>2. snap[t] \in [last : 0..MaxLog, log : Logs]
  BY DEF TInv, TypeOK
<1>3. /\ snap' \in [Servers -> [last : 0..MaxLog, log : Logs]]
      /\ delivered' \in [Servers -> 0..MaxLog]
  BY <1>1, <1>2 DEF TInv, TypeOK
<1>4. /\ log' \in [Servers -> Logs] /\ lastApplied' \in [Servers -> 0..MaxLog]
      /\ err' \in [Servers -> BOOLEAN] /\ odd' \in 0..MaxOdd
  <2>1. /\ log \in [Servers -> Logs] /\ lastApplied \in [Servers -> 0..MaxLog]
        /\ err \in [Servers -> BOOLEAN] /\ odd \in 0..MaxOdd
    BY DEF TInv, TypeOK
  <2>2. snap[t].log \in Logs /\ snap[t].last \in 0..MaxLog
    BY <1>2
  <2>3. CASE /\ odd < MaxOdd /\ odd' = odd + 1
             /\ err' = [err EXCEPT ![s] = TRUE]
             /\ UNCHANGED <<log, lastApplied>>
    BY <2>1, <2>3
  <2>4. CASE /\ log' = [log EXCEPT ![s] = snap[t].log]
             /\ lastApplied' = [lastApplied EXCEPT ![s] = snap[t].last]
             /\ UNCHANGED <<err, odd>>
    BY <2>1, <2>2, <2>4
  <2> QED BY <1>1, <2>3, <2>4
<1>5. /\ pc' = [pc EXCEPT ![s] = "ingest"]
      /\ UNCHANGED <<conf, committed, proposed, proc, msg, testVars, one, stale, lost, kills>>
  BY DEF ReceiveSnap
<1>6. TypeOK'
  BY Zenon, <1>3, <1>4, <1>5 DEF TInv, TypeOK, testVars, Calls
<1> QED BY ZenonT(30), <1>5, <1>6 DEF TInv, TypeOK

LEMMA CallType ==
  ASSUME TInv, NEW s \in Servers, Call(s)
  PROVE  TInv'
<1>1. UNCHANGED <<conf, committed, proposed, delivered, proc, one, stale, lost, kills, odd>>
  BY DEF Call
<1>2. TypeOK
  BY DEF TInv
<1>3. CASE pc[s] = "check" /\ CheckLogs(s, msg[s]) /\ Record(s, msg[s]) /\ Turn(s, CheckErr(s, msg[s]))
  <2>1. msg[s] \in Entry
    BY <1>3 DEF TInv
  <2>2. CheckErr(s, msg[s]) \in BOOLEAN
    BY DEF CheckErr, Differs
  <2>3. /\ log' \in [Servers -> Logs] /\ lastApplied' \in [Servers -> 0..MaxLog]
        /\ snap' \in [Servers -> [last : 0..MaxLog, log : Logs]]
    BY <1>2, <1>3, <2>1, RecordType
  <2>4. /\ logs' \in [Servers -> Logs] /\ reported' \subseteq Index \X Cmds
        /\ applyErr' \in [Servers -> BOOLEAN]
    BY <1>2, <1>3, <2>1, CheckLogsType
  <2> QED BY <1>1, <1>3, <2>2, <2>3, <2>4, TurnTInv
<1>4. CASE IngestLog(s, log[s]) /\ Turn(s, err[s]) /\ UNCHANGED <<log, lastApplied, snap>>
  <2>1. log[s] \in Logs /\ err[s] \in BOOLEAN
    BY DEF TInv, TypeOK
  <2>2. /\ log' \in [Servers -> Logs] /\ lastApplied' \in [Servers -> 0..MaxLog]
        /\ snap' \in [Servers -> [last : 0..MaxLog, log : Logs]]
    BY <1>2, <1>4 DEF TypeOK
  <2>3. /\ logs' \in [Servers -> Logs] /\ reported' \subseteq Index \X Cmds
        /\ applyErr' \in [Servers -> BOOLEAN]
    BY <1>2, <1>4, <2>1, IngestType
  <2> QED BY <1>1, <1>4, <2>1, <2>2, <2>3, TurnTInv
<1>5. CASE ApplyErr(s) /\ Turn(s, FALSE) /\ UNCHANGED <<log, lastApplied, snap>>
  <2>1. /\ log' \in [Servers -> Logs] /\ lastApplied' \in [Servers -> 0..MaxLog]
        /\ snap' \in [Servers -> [last : 0..MaxLog, log : Logs]]
    BY <1>2, <1>5 DEF TypeOK
  <2>2. /\ logs' \in [Servers -> Logs] /\ reported' \subseteq Index \X Cmds
        /\ applyErr' \in [Servers -> BOOLEAN]
    BY <1>2, <1>5, ApplyErrType
  <2> QED BY Zenon, <1>1, <1>5, <2>1, <2>2, TurnTInv
<1> QED BY Zenon, <1>3, <1>4, <1>5 DEF Call

LEMMA StaleCallType ==
  ASSUME TInv, NEW r \in stale, StaleCall(r)
  PROVE  TInv'
<1>1. UNCHANGED <<conf, raftVars, proc, srvVars, one, kills, odd>> /\ stale' = stale \ {r}
  BY DEF StaleCall
<1>2. r.srv \in Servers /\ r.log \in Logs
  BY DEF TInv, TypeOK
<1>3. lost' \in BOOLEAN
  BY Zenon DEF StaleCall, TInv, TypeOK, CheckErr, Differs
<1>4. logs' \in [Servers -> Logs] /\ reported' \subseteq Index \X Cmds /\ applyErr' \in [Servers -> BOOLEAN]
  BY <1>2, CheckLogsType, IngestType, ApplyErrType DEF StaleCall, TInv
<1> QED BY SMTT(30), <1>1, <1>3, <1>4 DEF TInv, TypeOK, raftVars, srvVars

LEMMA CallFailsType ==
  ASSUME TInv, NEW s \in Servers, CallFails(s)
  PROVE  TInv'
<1>1. UNCHANGED <<conf, committed, proposed, delivered, proc, testVars, one, stale, lost, kills, odd>>
  BY DEF CallFails
<1>2. TypeOK
  BY DEF TInv
<1>3. /\ logs' \in [Servers -> Logs] /\ reported' \subseteq Index \X Cmds
      /\ applyErr' \in [Servers -> BOOLEAN]
  BY <1>1, <1>2 DEF TypeOK, testVars
<1>4. CASE pc[s] = "check" /\ Record(s, msg[s]) /\ Turn(s, TRUE)
  <2>1. msg[s] \in Entry
    BY <1>4 DEF TInv
  <2>2. /\ log' \in [Servers -> Logs] /\ lastApplied' \in [Servers -> 0..MaxLog]
        /\ snap' \in [Servers -> [last : 0..MaxLog, log : Logs]]
    BY <1>2, <1>4, <2>1, RecordType
  <2> QED BY Zenon, <1>1, <1>3, <1>4, <2>2, TurnTInv
<1>5. ASSUME NEW e \in BOOLEAN, Turn(s, e), UNCHANGED <<log, lastApplied, snap>>
      PROVE  TInv'
  <2>1. /\ log' \in [Servers -> Logs] /\ lastApplied' \in [Servers -> 0..MaxLog]
        /\ snap' \in [Servers -> [last : 0..MaxLog, log : Logs]]
    BY <1>2, <1>5 DEF TypeOK
  <2> QED BY <1>1, <1>3, <1>5, <2>1, TurnTInv
<1>6. err[s] \in BOOLEAN
  BY <1>2 DEF TypeOK
<1> QED BY Zenon, <1>4, <1>5, <1>6 DEF CallFails

LEMMA CloseType ==
  ASSUME TInv, NEW s \in Servers, Close(s)
  PROVE  TInv'
<1>1. pc[s] \in Calls => Request(s) \in [srv : Servers, op : Calls, msg : Msgs, log : Logs]
  BY DEF Request, TInv, TypeOK
<1>2. Request(s).op = "check" => Request(s).msg \in Entry
  BY DEF Request, TInv
<1>3. UNCHANGED <<conf, raftVars, srvVars, testVars, one, odd>>
  BY DEF Close
<1>4. /\ kills' \in 0..MaxKills /\ proc' \in [Servers -> {"up", "closing", "down"}]
      /\ lost' \in BOOLEAN
  <2>1. kills' \in 0..MaxKills
    BY DEF Close, TInv, TypeOK
  <2>2. proc' \in [Servers -> {"up", "closing", "down"}]
    BY DEF Close, TInv, TypeOK
  <2>3. lost' \in BOOLEAN
    BY Zenon DEF Close
  <2> QED BY <2>1, <2>2, <2>3
<1>5. stale' = stale \/ (pc[s] \in Calls /\ stale' = stale \cup {Request(s)})
  BY DEF Close
<1>6. /\ stale' \subseteq [srv : Servers, op : Calls, msg : Msgs, log : Logs]
      /\ \A r \in stale' : r.op = "check" => r.msg \in Entry
  BY <1>1, <1>2, <1>5 DEF TInv, TypeOK
<1> QED BY Zenon, <1>3, <1>4, <1>6 DEF TInv, TypeOK, raftVars, srvVars, testVars

LEMMA KillType ==
  ASSUME TInv, NEW s \in Servers, Kill(s)
  PROVE  TInv'
<1>1. Turn(s, FALSE)
  BY Zenon DEF Kill
<1>2. /\ pc' \in [Servers -> Calls \cup {"read"}]
      /\ msg' \in [Servers -> Msgs] /\ err' \in [Servers -> BOOLEAN]
      /\ \A t \in Servers : pc'[t] = "check" => msg'[t] \in Entry
  BY Zenon, <1>1, TurnType
<1>3. /\ log' \in [Servers -> Logs] /\ lastApplied' \in [Servers -> 0..MaxLog]
      /\ proc' \in [Servers -> {"up", "closing", "down"}]
  BY NoLogType DEF Kill, TInv, TypeOK
<1>4. UNCHANGED <<conf, raftVars, testVars, one, stale, lost, kills, odd>>
  BY DEF Kill
<1> QED BY Zenon, <1>2, <1>3, <1>4 DEF TInv, TypeOK, raftVars, testVars

LEMMA RestartType ==
  ASSUME TInv, NEW s \in Servers, Restart(s)
  PROVE  TInv'
<1>1. snap[s] \in [last : 0..MaxLog, log : Logs]
  BY DEF TInv, TypeOK
<1>2. logs' \in [Servers -> Logs] /\ reported' \subseteq Index \X Cmds /\ applyErr' \in [Servers -> BOOLEAN]
  BY Zenon, <1>1, IngestType DEF Restart, IngestAtStart, testVars, TInv, TypeOK
<1> QED BY Zenon, <1>1, <1>2 DEF Restart, TInv, TypeOK

LEMMA TestType ==
  ASSUME TInv, Commit \/ OneStart \/ OneWait \/ OneRetry
  PROVE  TInv'
<1>1. CASE Commit
  <2>1. committed' \in Seq(Cmds) /\ Len(committed') <= MaxLog
    BY <1>1 DEF Commit, TInv, TypeOK
  <2> QED BY SMTT(30), <1>1, <2>1 DEF Commit, TInv, TypeOK, srvVars, testVars
<1>2. ASSUME NEW c \in Cmds, Start(c) PROVE TInv'
  <2>1. one' \in [pc : {"call", "wait", "fatal"}, cmd : Cmds \cup {None}, index : 0..MaxLog]
        /\ one'.cmd \in Cmds
    BY <1>2 DEF Start, Index
  <2> QED BY SMTT(30), <1>2, <2>1 DEF Start, TInv, TypeOK, srvVars, testVars
<1>3. CASE OneStart
  BY <1>2, <1>3 DEF OneStart
<1>4. CASE OneWait
  <2>1. one' \in [pc : {"call", "wait", "fatal"}, cmd : Cmds \cup {None}, index : 0..MaxLog]
        /\ one'.pc # "wait"
    <3>1. one \in [pc : {"call", "wait", "fatal"}, cmd : Cmds \cup {None}, index : 0..MaxLog]
      BY DEF TInv, TypeOK
    <3>2. one' = [one EXCEPT !.pc = "fatal"] \/ one' = [pc |-> "call", cmd |-> None, index |-> 0]
      BY <1>4 DEF OneWait
    <3> QED BY <3>1, <3>2
  <2> QED BY SMTT(30), <1>4, <2>1 DEF OneWait, TInv, TypeOK, raftVars, srvVars, testVars
<1>5. CASE OneRetry
  <2>1. one.cmd \in Cmds
    BY <1>5 DEF TInv, OneRetry
  <2> QED BY <1>2, <1>5, <2>1 DEF OneRetry
<1> QED BY <1>1, <1>3, <1>4, <1>5

LEMMA NextTInv == TInv /\ [Next]_vars => TInv'
<1> SUFFICES ASSUME TInv, [Next]_vars PROVE TInv'
  OBVIOUS
<1>1. CASE UNCHANGED vars
  BY SMTT(30), <1>1 DEF TInv, TypeOK, vars, raftVars, srvVars, testVars
<1>2. CASE Commit \/ OneStart \/ OneWait \/ OneRetry
  BY <1>2, TestType
<1>3. ASSUME NEW s \in Servers, Running(s) \/ Close(s) \/ Kill(s) \/ Restart(s) PROVE TInv'
  BY <1>3, ReceiveType, ReceiveSnapType, CallType, CallFailsType, CloseType, KillType, RestartType
     DEF Running
<1>4. ASSUME NEW r \in stale, StaleCall(r) PROVE TInv'
  BY <1>4, StaleCallType
<1> QED BY <1>1, <1>2, <1>3, <1>4 DEF Next

\* Every server's state is kept in functions on Servers.
LEMMA Domains ==
  ASSUME TypeOK
  PROVE  /\ DOMAIN delivered = Servers /\ DOMAIN snap = Servers /\ DOMAIN proc = Servers
         /\ DOMAIN pc = Servers /\ DOMAIN msg = Servers /\ DOMAIN err = Servers
         /\ DOMAIN log = Servers /\ DOMAIN lastApplied = Servers
         /\ DOMAIN logs = Servers /\ DOMAIN applyErr = Servers
BY DEF TypeOK

LEMMA TInvAlways == Spec => []TInv
BY InitTInv, NextTInv, PTL DEF Spec

(***************************************************************************)
(* What the tester has been told of a correct Raft group is what Raft has  *)
(* committed.                                                              *)
(***************************************************************************)
Agrees(c, l) == \A i \in Index : l[i] # None => (i <= Len(c) /\ l[i] = c[i])
MsgAgrees(c, m) == m.index <= Len(c) /\ m.cmd = c[m.index]

\* Every log in the system, and every entry under way, agrees with Raft's.
AInv ==
  Correct =>
    /\ \A s \in Servers : /\ Agrees(committed, snap[s].log) /\ Agrees(committed, log[s])
                          /\ Agrees(committed, logs[s])
                          /\ pc[s] = "check" => MsgAgrees(committed, msg[s])
    /\ \A r \in stale : /\ Agrees(committed, r.log)
                        /\ r.op = "check" => MsgAgrees(committed, r.msg)

LEMMA AgreesEntry ==
  ASSUME NEW c, NEW l \in Logs, Agrees(c, l), NEW m \in Entry, MsgAgrees(c, m)
  PROVE  Agrees(c, [l EXCEPT ![m.index] = m.cmd])
BY DEF Agrees, MsgAgrees, Entry, Logs

LEMMA AgreesNoLog == ASSUME NEW c PROVE Agrees(c, NoLog)
BY DEF Agrees, NoLog

\* What is committed stays committed.
LEMMA AgreesGrows ==
  ASSUME NEW c \in Seq(Cmds), NEW x \in Cmds
  PROVE  /\ \A l : Agrees(c, l) => Agrees(Append(c, x), l)
         /\ \A m \in Entry : MsgAgrees(c, m) => MsgAgrees(Append(c, x), m)
<1>1. Len(Append(c, x)) = Len(c) + 1 /\ \A i \in 1..Len(c) : Append(c, x)[i] = c[i]
  OBVIOUS
<1>2. Len(c) \in Nat
  OBVIOUS
<1>3. \A i \in Index : i <= Len(c) => i \in 1..Len(c) /\ i <= Len(Append(c, x))
  BY <1>1, <1>2 DEF Index
<1>4. ASSUME NEW l, Agrees(c, l) PROVE Agrees(Append(c, x), l)
  BY <1>1, <1>3, <1>4 DEF Agrees
<1>5. ASSUME NEW m \in Entry, MsgAgrees(c, m) PROVE MsgAgrees(Append(c, x), m)
  BY <1>1, <1>3, <1>5 DEF MsgAgrees, Entry
<1> QED BY <1>4, <1>5

LEMMA InitAInv == Init => AInv
BY AgreesNoLog DEF Init, AInv, NoSnap

LEMMA RecordAgrees ==
  ASSUME TypeOK, NEW s \in Servers, NEW m \in Entry, Record(s, m), MsgAgrees(committed, m),
         \A t \in Servers : Agrees(committed, snap[t].log) /\ Agrees(committed, log[t])
  PROVE  \A t \in Servers : Agrees(committed, snap'[t].log) /\ Agrees(committed, log'[t])
<1> DEFINE l == [log[s] EXCEPT ![m.index] = m.cmd]
           k == [j \in Index |-> IF j <= m.index THEN l[j] ELSE None]
<1>1. Agrees(committed, l)
  BY Zenon, AgreesEntry DEF TypeOK
<1>2. Agrees(committed, k)
  BY <1>1 DEF Agrees
<1> HIDE DEF l
<1>3. CASE conf.snapshot
  <2>1. log' = [log EXCEPT ![s] = l] /\ Snapshot(s, m, l)
    BY <1>3 DEF Record, l
  <2>2. snap' = snap \/ snap' = [snap EXCEPT ![s] = [last |-> m.index, log |-> k]]
    BY <2>1 DEF Snapshot
  <2> HIDE DEF k
  <2> QED BY <1>1, <1>2, <2>1, <2>2, Domains
<1>4. CASE ~conf.snapshot
  BY <1>4 DEF Record
<1> QED BY <1>3, <1>4

LEMMA ServerAInv ==
  ASSUME TInv, AInv, NEW s \in Servers, Running(s) \/ Close(s) \/ Kill(s) \/ Restart(s)
  PROVE  AInv'
<1> SUFFICES ASSUME Correct' PROVE AInv'
  BY DEF AInv
<1>1. conf' = conf /\ committed' = committed
  BY Zenon DEF Running, Receive, ReceiveSnap, Call, CallFails, Close, Kill, Restart, raftVars
<1>2. Correct /\ TypeOK
  BY <1>1 DEF Correct, TInv
<1>3. /\ \A t \in Servers : /\ Agrees(committed, snap[t].log) /\ Agrees(committed, log[t])
                            /\ Agrees(committed, logs[t])
                            /\ pc[t] = "check" => MsgAgrees(committed, msg[t])
      /\ \A r \in stale : Agrees(committed, r.log) /\ (r.op = "check" => MsgAgrees(committed, r.msg))
  BY Zenon, <1>2 DEF AInv
<1> SUFFICES
      /\ \A t \in Servers : /\ Agrees(committed, snap'[t].log) /\ Agrees(committed, log'[t])
                            /\ Agrees(committed, logs'[t])
                            /\ pc'[t] = "check" => MsgAgrees(committed, msg'[t])
      /\ \A r \in stale' : Agrees(committed, r.log) /\ (r.op = "check" => MsgAgrees(committed, r.msg))
  BY Zenon, <1>1 DEF AInv
<1>4. CASE Receive(s)
  <2>1. PICK m \in Due(s) :
          \/ Record(s, m) /\ Turn(s, TRUE)
          \/ /\ pc' = [pc EXCEPT ![s] = "check"] /\ msg' = [msg EXCEPT ![s] = m]
             /\ UNCHANGED <<log, snap>>
    BY Zenon, <1>2, <1>4 DEF Receive, Correct
  <2>2. m \in Entry /\ MsgAgrees(committed, m)
    BY SMTT(30), Zenon, <1>2, DueType DEF MsgAgrees
  <2>3. UNCHANGED <<logs, stale>>
    BY <1>4 DEF Receive, testVars
  <2>4. CASE Record(s, m) /\ Turn(s, TRUE)
    <3>1. \A t \in Servers : Agrees(committed, snap'[t].log) /\ Agrees(committed, log'[t])
      BY SMTT(30), Zenon, <1>2, <1>3, <2>2, <2>4, RecordAgrees
    <3>2. \A t \in Servers : pc'[t] = "check" => pc[t] = "check" /\ msg'[t] = msg[t]
      BY SMTT(30), Zenon, <1>2, <2>4, Domains DEF Turn
    <3> QED BY SMTT(30), Zenon, <1>3, <2>3, <3>1, <3>2
  <2>5. CASE /\ pc' = [pc EXCEPT ![s] = "check"] /\ msg' = [msg EXCEPT ![s] = m]
             /\ UNCHANGED <<log, snap>>
    BY <1>2, <1>3, <2>2, <2>3, <2>5, Domains
  <2> QED BY Zenon, <2>1, <2>4, <2>5
<1>5. CASE ReceiveSnap(s)
  <2>1. PICK t \in Servers : /\ log' = [log EXCEPT ![s] = snap[t].log]
                             /\ snap' = [snap EXCEPT ![s] = snap[t]]
    BY Zenon, <1>2, <1>5 DEF ReceiveSnap, Correct
  <2>2. pc' = [pc EXCEPT ![s] = "ingest"] /\ UNCHANGED <<msg, logs, stale>>
    BY <1>5 DEF ReceiveSnap, testVars
  <2> QED BY <1>2, <1>3, <2>1, <2>2, Domains
<1>6. ASSUME NEW e, Turn(s, e)
      PROVE  \A t \in Servers : pc'[t] = "check" => pc[t] = "check" /\ msg'[t] = msg[t]
  BY Zenon, <1>2, <1>6, Domains DEF Turn
<1>7. CASE Call(s)
  <2>1. stale' = stale /\ \E e : Turn(s, e)
    BY Zenon, <1>7 DEF Call
  <2>2. CASE pc[s] = "check" /\ CheckLogs(s, msg[s]) /\ Record(s, msg[s])
    <3>1. msg[s] \in Entry /\ MsgAgrees(committed, msg[s])
      BY SMTT(30), Zenon, <1>3, <2>2 DEF TInv
    <3>2. \A t \in Servers : Agrees(committed, snap'[t].log) /\ Agrees(committed, log'[t])
      BY <1>2, <1>3, <2>2, <3>1, RecordAgrees
    <3>3. logs' = [logs EXCEPT ![s] = [logs[s] EXCEPT ![msg[s].index] = msg[s].cmd]]
      BY <1>2, <2>2, <3>1 DEF CheckLogs, TypeOK, Logs
    <3>4. Agrees(committed, [logs[s] EXCEPT ![msg[s].index] = msg[s].cmd])
      BY Zenon, <1>2, <1>3, <3>1, AgreesEntry DEF TypeOK
    <3>5. \A t \in Servers : Agrees(committed, logs'[t])
      BY SMTT(30), Zenon, <1>2, <1>3, <3>3, <3>4, Domains
    <3> QED BY SMTT(30), Zenon, <1>3, <1>6, <2>1, <3>2, <3>5
  <2>3. CASE IngestLog(s, log[s]) /\ UNCHANGED <<log, snap>>
    BY <1>2, <1>3, <1>6, <2>1, <2>3, Domains DEF IngestLog
  <2>4. CASE ApplyErr(s) /\ UNCHANGED <<log, snap>>
    BY <1>3, <1>6, <2>1, <2>4 DEF ApplyErr
  <2> QED BY Zenon, <1>7, <2>2, <2>3, <2>4 DEF Call
<1>8. CASE CallFails(s)
  <2>1. UNCHANGED <<stale, logs>> /\ \E e : Turn(s, e)
    BY Zenon, <1>8 DEF CallFails, testVars
  <2>2. CASE pc[s] = "check" /\ Record(s, msg[s])
    <3>1. msg[s] \in Entry /\ MsgAgrees(committed, msg[s])
      BY <1>3, <2>2 DEF TInv
    <3>2. \A t \in Servers : Agrees(committed, snap'[t].log) /\ Agrees(committed, log'[t])
      BY SMTT(30), Zenon, <1>2, <1>3, <2>2, <3>1, RecordAgrees
    <3> QED BY Zenon, <1>3, <1>6, <2>1, <3>2
  <2>3. CASE UNCHANGED <<log, snap>>
    BY <1>3, <1>6, <2>1, <2>3
  <2> QED BY Zenon, <1>8, <2>2, <2>3 DEF CallFails
<1>9. CASE Close(s)
  <2>1. UNCHANGED <<snap, log, logs, pc, msg>>
    BY SMTT(30), Zenon, <1>9 DEF Close, raftVars, srvVars, testVars
  <2>2. Agrees(committed, Request(s).log)
        /\ (Request(s).op = "check" => MsgAgrees(committed, Request(s).msg))
    BY SMTT(30), Zenon, <1>3 DEF Request
  <2>3. stale' = stale \/ stale' = stale \cup {Request(s)}
    BY <1>9 DEF Close
  <2> QED BY <1>3, <2>1, <2>2, <2>3
<1>10. CASE Kill(s)
  <2>1. log' = [log EXCEPT ![s] = NoLog] /\ Turn(s, FALSE) /\ UNCHANGED <<snap, logs, stale>>
    BY Zenon, <1>10 DEF Kill, raftVars, testVars
  <2> QED BY Zenon, <1>2, <1>3, <1>6, <2>1, AgreesNoLog, Domains
<1>11. CASE Restart(s)
  <2>1. log' = [log EXCEPT ![s] = snap[s].log] /\ UNCHANGED <<snap, pc, msg, stale>>
    BY <1>11 DEF Restart
  <2>2. logs' = logs \/ logs' = [logs EXCEPT ![s] = snap[s].log]
    BY SMTT(30), Zenon, <1>11 DEF Restart, IngestAtStart, IngestLog, testVars
  <2> QED BY SMTT(30), Zenon, <1>2, <1>3, <2>1, <2>2, Domains
<1> QED BY Zenon, <1>4, <1>5, <1>7, <1>8, <1>9, <1>10, <1>11 DEF Running

LEMMA StaleCallAInv ==
  ASSUME TInv, AInv, NEW r \in stale, StaleCall(r)
  PROVE  AInv'
<1> SUFFICES ASSUME Correct' PROVE AInv'
  BY DEF AInv
<1>1. UNCHANGED <<conf, committed, snap, log, pc, msg>> /\ stale' \subseteq stale
  BY DEF StaleCall, raftVars, srvVars
<1>2. Correct /\ TypeOK
  BY <1>1 DEF Correct, TInv
<1>3. \A t \in Servers : Agrees(committed, logs'[t])
  <2>1. /\ \A t \in Servers : Agrees(committed, logs[t])
        /\ Agrees(committed, r.log) /\ r.srv \in Servers /\ r.log \in Logs
    BY <1>2 DEF TypeOK, AInv
  <2>2. CASE r.op = "check" /\ CheckLogs(r.srv, r.msg)
    <3>1. r.msg \in Entry /\ MsgAgrees(committed, r.msg)
      BY SMTT(30), Zenon, <1>2, <2>2 DEF TInv, AInv
    <3>2. logs' = [logs EXCEPT ![r.srv] = [logs[r.srv] EXCEPT ![r.msg.index] = r.msg.cmd]]
      BY <1>2, <2>1, <2>2, <3>1 DEF CheckLogs, TypeOK, Logs
    <3>3. Agrees(committed, [logs[r.srv] EXCEPT ![r.msg.index] = r.msg.cmd])
      BY Zenon, <1>2, <2>1, <3>1, AgreesEntry DEF TypeOK
    <3> QED BY <1>2, <2>1, <3>2, <3>3, Domains
  <2>3. CASE IngestLog(r.srv, r.log)
    BY Zenon, <1>2, <2>1, <2>3, Domains DEF IngestLog
  <2>4. CASE ApplyErr(r.srv)
    BY <2>1, <2>4 DEF ApplyErr
  <2> QED BY <2>2, <2>3, <2>4 DEF StaleCall
<1> QED BY <1>1, <1>2, <1>3 DEF AInv

LEMMA TestAInv ==
  ASSUME TInv, AInv, Commit \/ OneStart \/ OneWait \/ OneRetry \/ UNCHANGED vars
  PROVE  AInv'
<1>1. CASE Commit
  <2>1. PICK c \in Cmds : committed' = Append(committed, c)
    BY <1>1 DEF Commit, TInv, TypeOK
  <2>2. UNCHANGED <<conf, snap, log, logs, pc, msg, stale>>
    BY <1>1 DEF Commit, srvVars, testVars
  <2>3. committed \in Seq(Cmds)
    BY DEF TInv, TypeOK
  <2>4. \A l : Agrees(committed, l) => Agrees(committed', l)
    BY <2>1, <2>3, AgreesGrows
  <2>5. \A m \in Entry : MsgAgrees(committed, m) => MsgAgrees(committed', m)
    BY <2>1, <2>3, AgreesGrows
  <2> QED BY <2>2, <2>4, <2>5 DEF AInv, Correct, TInv
<1>2. CASE OneStart \/ OneWait \/ OneRetry \/ UNCHANGED vars
  <2>1. UNCHANGED <<conf, committed, snap, log, logs, pc, msg, stale>>
    BY <1>2 DEF OneStart, OneWait, OneRetry, Start, vars, raftVars, srvVars, testVars
  <2> QED BY <2>1 DEF AInv, Correct
<1> QED BY SMTT(30), Zenon, <1>1, <1>2

LEMMA AInvAlways == Spec => []AInv
<1>1. TInv /\ AInv /\ [Next]_vars => AInv'
  BY ServerAInv, StaleCallAInv, TestAInv DEF Next
<1> QED BY TInvAlways, InitAInv, <1>1, PTL DEF Spec

\* What the tester knows of a correct group is what Raft has committed, for any
\* number of servers, entries, snapshots, kills and late calls.
THEOREM TruthfulAlways == Spec => []Truthful
<1>1. AInv => Truthful
  BY DEF AInv, Truthful, Agrees
<1> QED BY AInvAlways, <1>1, PTL

\* one() returns an index only if Raft has committed the command there, for any
\* number of servers and however many of them it asks for.
THEOREM OneIsCommittedAlways == Spec => OneIsCommitted
<1>1. ASSUME TInv, AInv, Next, one.pc = "wait", one'.pc = "call", Correct
      PROVE  one.index <= Len(committed) /\ committed[one.index] = one.cmd
  <2>1. OneWait
    <3>1. CASE OneStart \/ OneRetry
      BY <1>1, <3>1 DEF OneStart, OneRetry, Start
    <3>2. CASE UNCHANGED one
      BY <1>1, <3>2
    <3> QED BY Zenon, <1>1, <3>1, <3>2 DEF Next, Commit, Running, Receive, ReceiveSnap, Call, CallFails,
                                           Close, Kill, Restart, StaleCall
  <2>2. Agreed
    <3>1. one' = [one EXCEPT !.pc = "fatal"] => one'.pc = "fatal"
      BY DEF TInv, TypeOK
    <3> QED BY <1>1, <2>1, <3>1 DEF OneWait
  <2>3. PICK s \in Servers : logs[s][one.index] = one.cmd /\ logs[s][one.index] # None
    <3>1. Holders(one.index) # {}
      BY <2>2, FS_EmptySet DEF Agreed
    <3> QED BY <2>2, <3>1 DEF Agreed, Holders
  <2>4. one.index \in Index
    BY <1>1 DEF TInv
  <2> QED BY <1>1, <2>3, <2>4 DEF AInv, Agrees
<1>2. TInv /\ AInv /\ [Next]_vars =>
        [(one.pc = "wait" /\ one'.pc = "call" /\ Correct) =>
           one.index <= Len(committed) /\ committed[one.index] = one.cmd]_vars
  BY <1>1
<1> QED BY TInvAlways, AInvAlways, <1>2, PTL DEF Spec, OneIsCommitted

(***************************************************************************)
(* A correct Raft group never fails the test.                              *)
(***************************************************************************)
Full(l, n) == \A i \in Index : i <= n => l[i] # None

\* How far the applier's turns have got.
Seen(s) == IF pc[s] = "check" THEN delivered[s] - 1 ELSE delivered[s]

\* A server has no error to report while it can; its snapshot, its log and what
\* the tester has of it have no gaps below what Raft has delivered.
SrvOk(s) ==
  /\ ~applyErr[s] /\ ~err[s]
  /\ pc[s] = "report" => proc[s] = "closing"
  /\ proc[s] = "down" => pc[s] = "read"
  /\ ~conf.snapshot => pc[s] # "ingest" /\ snap[s].last = 0
  /\ conf.snapshot => Full(snap[s].log, snap[s].last)
  /\ pc[s] = "check" => msg[s].index = delivered[s]
  /\ (conf.snapshot /\ proc[s] # "down") => Full(log[s], Seen(s)) /\ lastApplied[s] = Seen(s)
  /\ (proc[s] = "up" /\ pc[s] # "ingest") => Full(logs[s], Seen(s))

\* A late call reports no error and, where it could take entries away, runs
\* while its server is down.
CallOk(r) ==
  /\ r.op # "report"
  /\ conf.snapshot => proc[r.srv] # "up"
  /\ ~conf.snapshot => r.op # "ingest"

FInv ==
  Settled => /\ one.pc # "fatal"
             /\ \A s \in Servers : SrvOk(s)
             /\ \A r \in stale : CallOk(r)

LEMMA InitFInv == Init => FInv
BY SMTT(30), Zenon DEF Init, FInv, SrvOk, Seen, Full, NoSnap, Index

\* A step that leaves a server alone.
LEMMA Elsewhere ==
  ASSUME NEW t \in Servers, SrvOk(t), conf' = conf,
         applyErr'[t] = applyErr[t], err'[t] = err[t], pc'[t] = pc[t], proc'[t] = proc[t],
         snap'[t] = snap[t], msg'[t] = msg[t], delivered'[t] = delivered[t], log'[t] = log[t],
         lastApplied'[t] = lastApplied[t], logs'[t] = logs[t]
  PROVE  SrvOk(t)'
BY DEF SrvOk, Seen, Full

LEMMA TurnElsewhere ==
  ASSUME TypeOK, NEW s \in Servers, NEW e, Turn(s, e)
  PROVE  /\ \A t \in Servers \ {s} : pc'[t] = pc[t] /\ msg'[t] = msg[t] /\ err'[t] = err[t]
         /\ pc'[s] = IF e THEN "report" ELSE "read"
         /\ ~err'[s]
BY DEF Turn, TypeOK

LEMMA RecordElsewhere ==
  ASSUME TypeOK, NEW s \in Servers, NEW m, Record(s, m), NEW t \in Servers \ {s}
  PROVE  log'[t] = log[t] /\ lastApplied'[t] = lastApplied[t] /\ snap'[t] = snap[t]
<1>1. \A l : Snapshot(s, m, l) => snap'[t] = snap[t]
  BY DEF Snapshot, TypeOK
<1>2. CASE conf.snapshot
  BY <1>1, <1>2, Domains DEF Record
<1>3. CASE ~conf.snapshot
  BY <1>3 DEF Record
<1> QED BY SMTT(30), Zenon, <1>2, <1>3

\* The next entry leaves no gap, in the log or in the snapshot made of it.
LEMMA RecordFull ==
  ASSUME TypeOK, conf.snapshot, NEW s \in Servers, NEW m \in Entry, Record(s, m),
         Full(log[s], m.index - 1), Full(snap[s].log, snap[s].last)
  PROVE  /\ Full(log'[s], m.index) /\ lastApplied'[s] = m.index
         /\ Full(snap'[s].log, snap'[s].last)
<1> DEFINE l == [log[s] EXCEPT ![m.index] = m.cmd]
           k == [j \in Index |-> IF j <= m.index THEN l[j] ELSE None]
<1>1. Full(l, m.index)
  BY DEF Full, TypeOK, Logs, Entry, Index
<1>2. Full(k, m.index)
  BY <1>1 DEF Full
<1> HIDE DEF l
<1>3. log' = [log EXCEPT ![s] = l] /\ lastApplied' = [lastApplied EXCEPT ![s] = m.index]
      /\ Snapshot(s, m, l)
  BY DEF Record, l
<1>4. snap' = snap \/ snap' = [snap EXCEPT ![s] = [last |-> m.index, log |-> k]]
  BY SMTT(30), Zenon, <1>3 DEF Snapshot
<1> HIDE DEF k
<1>5. Full(snap'[s].log, snap'[s].last)
  BY SMTT(30), Zenon, <1>2, <1>4, Domains
<1> QED BY <1>1, <1>3, <1>5, Domains

LEMMA ReceiveFInv ==
  ASSUME TInv, FInv, NEW s \in Servers, Receive(s), Settled
  PROVE  FInv'
<1>1. TypeOK /\ one.pc # "fatal" /\ (\A t \in Servers : SrvOk(t)) /\ \A r \in stale : CallOk(r)
  BY SMTT(30), Zenon DEF TInv, FInv
<1>2. /\ UNCHANGED <<conf, proc, one, stale, logs, applyErr>>
      /\ pc[s] = "read" /\ proc[s] # "down"
  BY DEF Receive, testVars
<1>3. PICK m \in Due(s) :
        /\ delivered' = [delivered EXCEPT ![s] = m.index]
        /\ \/ conf.snapshot /\ m.index # lastApplied[s] + 1
           \/ /\ pc' = [pc EXCEPT ![s] = "check"] /\ msg' = [msg EXCEPT ![s] = m]
              /\ UNCHANGED <<err, log, lastApplied, snap>>
  BY Zenon DEF Receive, Settled, Correct
<1>4. m \in Entry /\ m.index = delivered[s] + 1
  BY <1>1, DueType
<1>5. /\ pc' = [pc EXCEPT ![s] = "check"] /\ msg' = [msg EXCEPT ![s] = m]
      /\ UNCHANGED <<err, log, lastApplied, snap>>
  <2>1. conf.snapshot => lastApplied[s] = delivered[s]
    BY SMTT(30), Zenon, <1>1, <1>2 DEF SrvOk, Seen
  <2> QED BY <1>3, <1>4, <2>1
<1>6. ASSUME NEW t \in Servers, t # s PROVE SrvOk(t)'
  BY SMTT(30), Zenon, <1>1, <1>2, <1>3, <1>5, <1>6, Elsewhere, Domains
<1>7. SrvOk(s)'
  <2>1. pc'[s] = "check" /\ msg'[s] = m /\ delivered'[s] = m.index
    BY SMTT(30), Zenon, <1>1, <1>3, <1>5, Domains
  <2>2. Seen(s)' = Seen(s)
    BY SMTT(30), Zenon, <1>1, <1>2, <1>4, <2>1 DEF TypeOK, Seen
  <2> QED BY <1>1, <1>2, <1>5, <2>1, <2>2 DEF SrvOk
<1> QED BY SMTT(30), Zenon, <1>1, <1>2, <1>6, <1>7 DEF FInv, CallOk

LEMMA ReceiveSnapFInv ==
  ASSUME TInv, FInv, NEW s \in Servers, ReceiveSnap(s), Settled
  PROVE  FInv'
<1>1. TypeOK /\ one.pc # "fatal" /\ (\A t \in Servers : SrvOk(t)) /\ \A r \in stale : CallOk(r)
  BY DEF TInv, FInv
<1>2. /\ UNCHANGED <<conf, proc, one, stale, logs, applyErr, msg>>
      /\ pc' = [pc EXCEPT ![s] = "ingest"]
      /\ pc[s] = "read" /\ proc[s] # "down" /\ conf.snapshot
  BY DEF ReceiveSnap, testVars
<1>3. PICK u \in Servers :
        /\ log' = [log EXCEPT ![s] = snap[u].log]
        /\ lastApplied' = [lastApplied EXCEPT ![s] = snap[u].last]
        /\ snap' = [snap EXCEPT ![s] = snap[u]]
        /\ delivered' = [delivered EXCEPT ![s] = snap[u].last]
        /\ UNCHANGED err
  BY Zenon DEF ReceiveSnap, Settled, Correct
<1>4. ASSUME NEW t \in Servers, t # s PROVE SrvOk(t)'
  BY SMTT(30), Zenon, <1>1, <1>2, <1>3, <1>4, Elsewhere, Domains
<1>5. SrvOk(s)'
  <2>1. Full(snap[u].log, snap[u].last)
    BY Zenon, <1>1, <1>2 DEF SrvOk
  <2>2. /\ log'[s] = snap[u].log /\ lastApplied'[s] = snap[u].last /\ snap'[s] = snap[u]
        /\ delivered'[s] = snap[u].last /\ pc'[s] = "ingest"
    BY <1>1, <1>2, <1>3, Domains
  <2> QED BY <1>1, <1>2, <1>3, <2>1, <2>2 DEF SrvOk, Seen
<1> QED BY <1>1, <1>2, <1>4, <1>5 DEF FInv, CallOk

\* The tester finds nothing wrong with the next entry of a correct server.
LEMMA NoCheckErr ==
  ASSUME TInv, AInv, Settled, NEW s \in Servers, pc[s] = "check", proc[s] = "up", SrvOk(s)
  PROVE  ~CheckErr(s, msg[s])
<1>1. msg[s] \in Entry /\ MsgAgrees(committed, msg[s]) /\ \A t \in Servers : Agrees(committed, logs[t])
  BY Zenon DEF TInv, AInv, Settled
<1>2. ~Differs(msg[s])
  BY SMTT(30), Zenon, <1>1 DEF Differs, Agrees, MsgAgrees, Entry
<1>3. msg[s].index > 1 => PrevOk(s, msg[s])
  <2>1. Full(logs[s], msg[s].index - 1)
    BY DEF SrvOk, Seen
  <2>2. msg[s].index > 1 => msg[s].index - 1 \in Index
    BY <1>1 DEF Entry, Index
  <2> QED BY <2>1, <2>2 DEF Full, PrevOk, Index
<1> QED BY <1>2, <1>3 DEF CheckErr

LEMMA CallFInv ==
  ASSUME TInv, AInv, FInv, NEW s \in Servers, Call(s), Settled
  PROVE  FInv'
<1>1. TypeOK /\ one.pc # "fatal" /\ (\A t \in Servers : SrvOk(t)) /\ \A r \in stale : CallOk(r)
  BY DEF TInv, FInv
<1>2. UNCHANGED <<conf, proc, one, stale, delivered>> /\ proc[s] = "up"
  BY Zenon DEF Call
<1> SUFFICES \A t \in Servers : SrvOk(t)'
  BY <1>1, <1>2 DEF FInv, CallOk
<1>3. CASE pc[s] = "check" /\ CheckLogs(s, msg[s]) /\ Record(s, msg[s]) /\ Turn(s, CheckErr(s, msg[s]))
  <2> DEFINE m == msg[s]
  <2>1. m \in Entry /\ m.index = delivered[s] /\ Full(logs[s], m.index - 1)
    BY Zenon, <1>1, <1>2, <1>3 DEF TInv, SrvOk, Seen
  <2>2. /\ pc'[s] = "read" /\ ~err'[s]
        /\ \A t \in Servers \ {s} : pc'[t] = pc[t] /\ msg'[t] = msg[t] /\ err'[t] = err[t]
    BY Zenon, <1>1, <1>2, <1>3, NoCheckErr, TurnElsewhere
  <2>3. applyErr' = applyErr /\ logs' = [logs EXCEPT ![s] = [logs[s] EXCEPT ![m.index] = m.cmd]]
    BY Zenon, <1>1, <1>3, <2>1 DEF CheckLogs, TypeOK, Logs
  <2>4. ASSUME NEW t \in Servers, t # s PROVE SrvOk(t)'
    <3>1. log'[t] = log[t] /\ lastApplied'[t] = lastApplied[t] /\ snap'[t] = snap[t]
      BY Zenon, <1>1, <1>3, <2>4, RecordElsewhere
    <3> QED BY <1>1, <1>2, <2>2, <2>3, <2>4, <3>1, Elsewhere, Domains
  <2>5. Full(logs'[s], m.index)
    BY SMTT(30), Zenon, <1>1, <2>1, <2>3 DEF Full, TypeOK, Logs, Entry, Index
  <2>6. conf.snapshot => /\ Full(log'[s], m.index) /\ lastApplied'[s] = m.index
                         /\ Full(snap'[s].log, snap'[s].last)
    BY <1>1, <1>2, <1>3, <2>1, RecordFull DEF SrvOk, Seen
  <2>7. ~conf.snapshot => snap' = snap
    BY SMTT(30), Zenon, <1>3 DEF Record
  <2>8. SrvOk(s)'
    BY <1>1, <1>2, <2>1, <2>2, <2>3, <2>5, <2>6, <2>7 DEF SrvOk, Seen
  <2> QED BY <2>4, <2>8
<1>4. CASE /\ pc[s] = "ingest" /\ IngestLog(s, log[s]) /\ Turn(s, err[s])
           /\ UNCHANGED <<log, lastApplied, snap>>
  <2>1. conf.snapshot /\ ~err[s]
    BY SMTT(30), Zenon, <1>1, <1>4 DEF SrvOk
  <2>2. /\ pc'[s] = "read" /\ ~err'[s]
        /\ \A t \in Servers \ {s} : pc'[t] = pc[t] /\ msg'[t] = msg[t] /\ err'[t] = err[t]
    BY <1>1, <1>4, <2>1, TurnElsewhere
  <2>3. applyErr' = applyErr /\ logs' = [logs EXCEPT ![s] = log[s]]
    BY <1>4 DEF IngestLog
  <2>4. ASSUME NEW t \in Servers, t # s PROVE SrvOk(t)'
    BY Zenon, <1>1, <1>2, <1>4, <2>2, <2>3, <2>4, Elsewhere, Domains
  <2>5. Seen(s)' = Seen(s) /\ logs'[s] = log[s]
    BY Zenon, <1>1, <1>2, <1>4, <2>2, <2>3, Domains DEF Seen
  <2>6. SrvOk(s)'
    BY Zenon, <1>1, <1>2, <1>4, <2>1, <2>2, <2>3, <2>5 DEF SrvOk
  <2> QED BY SMTT(30), Zenon, <2>4, <2>6
<1>5. pc[s] # "report"
  BY <1>1, <1>2 DEF SrvOk
<1> QED BY Zenon, <1>3, <1>4, <1>5 DEF Call

LEMMA CallFailsFInv ==
  ASSUME TInv, FInv, NEW s \in Servers, CallFails(s), Settled
  PROVE  FInv'
<1>1. TypeOK /\ one.pc # "fatal" /\ (\A t \in Servers : SrvOk(t)) /\ \A r \in stale : CallOk(r)
  BY DEF TInv, FInv
<1>2. UNCHANGED <<conf, proc, one, stale, delivered, logs, applyErr>> /\ proc[s] = "closing"
  BY Zenon DEF CallFails, testVars
<1> SUFFICES \A t \in Servers : SrvOk(t)'
  BY Zenon, <1>1, <1>2 DEF FInv, CallOk
<1>3. CASE pc[s] = "check" /\ Record(s, msg[s]) /\ Turn(s, TRUE)
  <2>1. msg[s] \in Entry /\ msg[s].index = delivered[s]
    BY Zenon, <1>1, <1>3 DEF TInv, SrvOk
  <2>2. /\ pc'[s] = "report" /\ ~err'[s]
        /\ \A t \in Servers \ {s} : pc'[t] = pc[t] /\ msg'[t] = msg[t] /\ err'[t] = err[t]
    BY Zenon, <1>1, <1>3, TurnElsewhere
  <2>3. ASSUME NEW t \in Servers, t # s PROVE SrvOk(t)'
    <3>1. log'[t] = log[t] /\ lastApplied'[t] = lastApplied[t] /\ snap'[t] = snap[t]
      BY Zenon, <1>1, <1>3, <2>3, RecordElsewhere
    <3> QED BY Zenon, <1>1, <1>2, <2>2, <2>3, <3>1, Elsewhere
  <2>4. conf.snapshot => /\ Full(log'[s], delivered[s]) /\ lastApplied'[s] = delivered[s]
                         /\ Full(snap'[s].log, snap'[s].last)
    BY Zenon, <1>1, <1>2, <1>3, <2>1, RecordFull DEF SrvOk, Seen
  <2>5. ~conf.snapshot => snap' = snap
    BY <1>3 DEF Record
  <2>6. SrvOk(s)'
    BY Zenon, <1>1, <1>2, <2>2, <2>4, <2>5 DEF SrvOk, Seen
  <2> QED BY <2>3, <2>6
<1>4. ASSUME Turn(s, FALSE), pc[s] # "check", UNCHANGED <<log, lastApplied, snap>>
      PROVE  \A t \in Servers : SrvOk(t)'
  <2>1. /\ pc'[s] = "read" /\ ~err'[s]
        /\ \A t \in Servers \ {s} : pc'[t] = pc[t] /\ msg'[t] = msg[t] /\ err'[t] = err[t]
    BY Zenon, <1>1, <1>4, TurnElsewhere
  <2>2. ASSUME NEW t \in Servers, t # s PROVE SrvOk(t)'
    BY Zenon, <1>1, <1>2, <1>4, <2>1, <2>2, Elsewhere
  <2>3. SrvOk(s)'
    BY Zenon, <1>1, <1>2, <1>4, <2>1 DEF SrvOk, Seen
  <2> QED BY <2>2, <2>3
<1>5. err[s] = FALSE
  BY <1>1 DEF TypeOK, SrvOk
<1> QED BY Zenon, <1>3, <1>4, <1>5 DEF CallFails

LEMMA CloseFInv ==
  ASSUME TInv, FInv, NEW s \in Servers, Close(s), Settled
  PROVE  FInv'
<1>1. TypeOK /\ one.pc # "fatal" /\ (\A t \in Servers : SrvOk(t)) /\ \A r \in stale : CallOk(r)
  BY Zenon DEF TInv, FInv
<1>2. /\ UNCHANGED <<conf, one, delivered, snap, pc, msg, err, log, lastApplied, logs, applyErr>>
      /\ proc' = [proc EXCEPT ![s] = "closing"] /\ proc[s] = "up"
  BY Zenon DEF Close, raftVars, srvVars, testVars
<1>3. ASSUME NEW t \in Servers, t # s PROVE SrvOk(t)'
  BY <1>1, <1>2, <1>3, Elsewhere, Domains
<1>4. SrvOk(s)'
  BY Zenon, <1>1, <1>2, Domains DEF SrvOk, Seen
<1>5. \A r \in stale' : CallOk(r)'
  <2>1. stale' = stale \/ stale' = stale \cup {Request(s)}
    BY DEF Close
  <2>2. \A r \in stale : CallOk(r)'
    BY SMTT(30), Zenon, <1>1, <1>2, Domains DEF CallOk
  <2>3. CallOk(Request(s))'
    <3>1. Request(s).srv = s /\ Request(s).op = pc[s] /\ UNCHANGED Request(s)
      BY Zenon, <1>2 DEF Request
    <3> QED BY <1>1, <1>2, <3>1 DEF TypeOK, CallOk, SrvOk
  <2>4. UNCHANGED Request(s)
    BY Zenon, <1>2 DEF Request
  <2> QED BY <2>1, <2>2, <2>3, <2>4
<1> QED BY SMTT(30), Zenon, <1>1, <1>2, <1>3, <1>4, <1>5 DEF FInv

LEMMA KillFInv ==
  ASSUME TInv, FInv, NEW s \in Servers, Kill(s), Settled
  PROVE  FInv'
<1>1. TypeOK /\ one.pc # "fatal" /\ (\A t \in Servers : SrvOk(t)) /\ \A r \in stale : CallOk(r)
  BY DEF TInv, FInv
<1>2. /\ UNCHANGED <<conf, one, stale, delivered, snap, logs, applyErr>>
      /\ proc' = [proc EXCEPT ![s] = "down"] /\ log' = [log EXCEPT ![s] = NoLog]
      /\ lastApplied' = [lastApplied EXCEPT ![s] = 0]
  BY DEF Kill, raftVars, testVars
<1>3. /\ pc'[s] = "read" /\ ~err'[s]
      /\ \A t \in Servers \ {s} : pc'[t] = pc[t] /\ msg'[t] = msg[t] /\ err'[t] = err[t]
  BY Zenon, <1>1, TurnElsewhere DEF Kill
<1>4. ASSUME NEW t \in Servers, t # s PROVE SrvOk(t)'
  BY Zenon, <1>1, <1>2, <1>3, <1>4, Elsewhere, Domains
<1>5. SrvOk(s)'
  BY Zenon, <1>1, <1>2, <1>3, Domains DEF SrvOk
<1>6. \A r \in stale' : CallOk(r)'
  BY <1>1, <1>2 DEF TypeOK, CallOk
<1> QED BY <1>1, <1>2, <1>4, <1>5, <1>6 DEF FInv

LEMMA RestartFInv ==
  ASSUME TInv, FInv, NEW s \in Servers, Restart(s), Settled
  PROVE  FInv'
<1>1. TypeOK /\ one.pc # "fatal" /\ (\A t \in Servers : SrvOk(t)) /\ \A r \in stale : CallOk(r)
  BY Zenon DEF TInv, FInv
<1>2. /\ UNCHANGED <<conf, one, stale, snap, pc, msg, err>> /\ proc[s] = "down"
      /\ proc' = [proc EXCEPT ![s] = "up"] /\ log' = [log EXCEPT ![s] = snap[s].log]
      /\ lastApplied' = [lastApplied EXCEPT ![s] = snap[s].last]
      /\ delivered' = [delivered EXCEPT ![s] = snap[s].last]
  BY Zenon DEF Restart
<1>3. /\ applyErr' = applyErr
      /\ logs' = IF snap[s].last > 0 THEN [logs EXCEPT ![s] = snap[s].log] ELSE logs
  BY SMTT(30), Zenon DEF Restart, IngestAtStart, IngestLog, testVars
<1>4. ASSUME NEW t \in Servers, t # s PROVE SrvOk(t)'
  BY <1>1, <1>2, <1>3, <1>4, Elsewhere, Domains
<1>5. SrvOk(s)'
  <2>1. pc'[s] = "read"
    BY Zenon, <1>1, <1>2 DEF SrvOk
  <2>2. Seen(s)' = snap[s].last
    BY SMTT(30), Zenon, <1>1, <1>2, <2>1, Domains DEF Seen
  <2>3. Full(logs'[s], snap[s].last)
    <3>1. CASE snap[s].last > 0
      <4>1. ~conf.snapshot => snap[s].last = 0
        BY Zenon, <1>1 DEF SrvOk
      <4>2. conf.snapshot
        BY <3>1, <4>1
      <4>3. Full(snap[s].log, snap[s].last)
        BY Zenon, <1>1, <4>2 DEF SrvOk
      <4>4. logs'[s] = snap[s].log
        BY SMTT(30), Zenon, <1>1, <1>3, <3>1, Domains
      <4> QED BY <4>3, <4>4
    <3>2. CASE ~(snap[s].last > 0)
      BY SMTT(30), Zenon, <1>1, <3>2 DEF Full, Index, TypeOK
    <3> QED BY <3>1, <3>2
  <2>4. log'[s] = snap[s].log /\ lastApplied'[s] = snap[s].last
    BY <1>1, <1>2, Domains
  <2> QED BY Zenon, <1>1, <1>2, <1>3, <2>1, <2>2, <2>3, <2>4 DEF SrvOk
<1>6. \A r \in stale' : CallOk(r)'
  <2>1. conf.snapshot => \A r \in stale : r.srv # s
    BY DEF Restart, Settled
  <2> QED BY SMTT(30), Zenon, <1>1, <1>2, <2>1, Domains DEF CallOk
<1> QED BY <1>1, <1>2, <1>4, <1>5, <1>6 DEF FInv

\* A late call leaves no gap: without snapshots it adds an entry, with them its
\* server is not up.
LEMMA StaleCallFInv ==
  ASSUME TInv, FInv, NEW r \in stale, StaleCall(r), Settled
  PROVE  FInv'
<1>1. TypeOK /\ one.pc # "fatal" /\ (\A t \in Servers : SrvOk(t)) /\ \A q \in stale : CallOk(q)
  BY DEF TInv, FInv
<1>2. /\ UNCHANGED <<conf, one, proc, delivered, snap, pc, msg, err, log, lastApplied>>
      /\ stale' \subseteq stale
  BY DEF StaleCall, raftVars, srvVars
<1>3. r.srv \in Servers /\ CallOk(r)
  BY <1>1 DEF TypeOK
<1>4. applyErr' = applyErr
  BY <1>3 DEF StaleCall, CallOk, CheckLogs, IngestLog
<1>5. ASSUME NEW t \in Servers, proc[t] = "up" PROVE \A i \in Index : logs[t][i] # None => logs'[t][i] # None
  <2>1. CASE CheckLogs(r.srv, r.msg) /\ r.op = "check"
    <3>1. r.msg \in Entry
      BY <2>1 DEF TInv
    <3> QED BY SMTT(30), Zenon, <1>1, <2>1, <3>1 DEF CheckLogs, TypeOK, Logs, Entry
  <2>2. CASE IngestLog(r.srv, r.log) /\ r.op = "ingest"
    <3>1. t # r.srv
      BY <1>3, <1>5, <2>2 DEF CallOk
    <3>2. logs' = [logs EXCEPT ![r.srv] = r.log]
      BY <2>2 DEF IngestLog
    <3>3. logs'[t] = logs[t]
      BY <1>1, <3>1, <3>2, Domains
    <3> QED BY <3>3
  <2>3. r.op # "report"
    BY <1>3 DEF CallOk
  <2> QED BY Zenon, <2>1, <2>2, <2>3 DEF StaleCall
<1>6. ASSUME NEW t \in Servers PROVE SrvOk(t)'
  <2>1. Seen(t)' = Seen(t)
    BY SMTT(30), Zenon, <1>2 DEF Seen
  <2>2. (proc[t] = "up" /\ pc[t] # "ingest") => Full(logs'[t], Seen(t))
    BY <1>1, <1>5 DEF SrvOk, Full
  <2> QED BY Zenon, <1>1, <1>2, <1>4, <2>1, <2>2 DEF SrvOk
<1>7. \A q \in stale' : CallOk(q)'
  BY Zenon, <1>1, <1>2 DEF CallOk
<1> QED BY <1>1, <1>2, <1>6, <1>7 DEF FInv

LEMMA TestFInv ==
  ASSUME TInv, AInv, FInv, Settled, Commit \/ OneStart \/ OneWait \/ OneRetry \/ UNCHANGED vars
  PROVE  FInv'
<1>1. one.pc # "fatal" /\ (\A t \in Servers : SrvOk(t)) /\ \A r \in stale : CallOk(r)
  BY DEF FInv
<1>2. UNCHANGED <<conf, proc, delivered, snap, pc, msg, err, log, lastApplied, logs, applyErr, stale>>
  BY DEF Commit, OneStart, OneWait, OneRetry, Start, vars, raftVars, srvVars, testVars
<1>3. one'.pc # "fatal"
  <2>1. CASE OneWait
    <3>1. ~NCommittedFatal(one.index)
      <4>1. \A t \in Servers : Agrees(committed, logs[t]) /\ ~applyErr[t]
        BY <1>1 DEF AInv, Settled, SrvOk
      <4>2. one.index \in Index
        BY SMTT(30), Zenon, <2>1 DEF TInv, OneWait
      <4> QED BY SMTT(30), Zenon, <4>1, <4>2 DEF NCommittedFatal, Holders, Agrees
    <3> QED BY SMTT(30), Zenon, <2>1, <3>1 DEF OneWait
  <2>2. CASE OneStart \/ OneRetry
    BY <2>2 DEF OneStart, OneRetry, Start
  <2>3. CASE Commit \/ UNCHANGED vars
    BY <1>1, <2>3 DEF Commit, vars
  <2> QED BY <2>1, <2>2, <2>3
<1>4. ASSUME NEW t \in Servers PROVE SrvOk(t)'
  BY <1>1, <1>2, Elsewhere
<1> QED BY Zenon, <1>1, <1>2, <1>3, <1>4 DEF FInv, CallOk

\* A correct group never fails a test, for any number of servers, entries, kills
\* and restarts and any snapshot interval.
THEOREM NoFalseAlarmAlways == Spec => []NoFalseAlarm
<1>1. TInv /\ AInv /\ FInv /\ [Next]_vars => FInv'
  <2> SUFFICES ASSUME TInv, AInv, FInv, [Next]_vars, Settled' PROVE FInv'
    BY DEF FInv
  <2>1. conf' = conf
    BY Zenon DEF Next, Running, Commit, OneStart, OneWait, OneRetry, Start, Receive, ReceiveSnap, Call,
           CallFails, Close, Kill, Restart, StaleCall, vars
  <2>2. Settled
    BY <2>1 DEF Settled, Correct
  <2> QED BY <2>2, ReceiveFInv, ReceiveSnapFInv, CallFInv, CallFailsFInv, CloseFInv, KillFInv,
             RestartFInv, StaleCallFInv, TestFInv DEF Next, Running
<1>2. FInv => NoFalseAlarm
  BY DEF FInv, NoFalseAlarm, SrvOk
<1> QED BY TInvAlways, AInvAlways, InitFInv, <1>1, <1>2, PTL DEF Spec

=============================================================================
