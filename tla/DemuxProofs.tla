----------------------------- MODULE DemuxProofs -----------------------------
(***************************************************************************)
(* Demux never forgets a caller, and implements RpcChannel, for any number *)
(* of callers, calls and messages in the sockets.                          *)
(***************************************************************************)
EXTENDS Demux, TLAPS

USE DemuxAssumption, Zenon

Labels == {"idle", "tag", "put", "lock", "write", "wait"}
Tagged == {"put", "lock", "write", "wait"}    \* the call has a tag
Entered == {"lock", "write", "wait"}          \* the call is in the callmap
ReaderType ==
  [st : {"read", "deliver", "list", "drain", "done"}, ch : Callers \cup {"none"},
   rep : Result, out : SUBSET Nat]

\* The types, and what the program counter of a caller says of its call.
TInv ==
  /\ TypeOK
  /\ \A c \in Callers : pc[c] # "idle" => n[c] # 0
  /\ \A c \in Callers : tag[c] < nextTag /\ (pc[c] \in Tagged => tag[c] # 0)
  /\ nextTag # 0
  /\ reader.st = "deliver" => reader.ch \in Callers

(***************************************************************************)
(* The types, in the groups of variables that change together.             *)
(***************************************************************************)
CallerType ==
  /\ nextTag \in Nat \ {0} /\ mu \in Callers \cup {"free"}
  /\ pc \in [Callers -> Labels] /\ tag \in [Callers -> Nat]
  /\ n \in [Callers -> 0..MaxCalls] /\ result \in [Callers -> Result]
  /\ \A c \in Callers : pc[c] # "idle" => n[c] # 0
  /\ \A c \in Callers : tag[c] < nextTag /\ (pc[c] \in Tagged => tag[c] # 0)
MapType ==
  /\ DOMAIN calls \subseteq 1..(nextTag - 1) /\ \A t \in DOMAIN calls : calls[t] \in Callers
  /\ closed \in BOOLEAN
HandType == reader \in ReaderType /\ (reader.st = "deliver" => reader.ch \in Callers)
SocketType ==
  /\ closing \in {"no", "trans", "map", "closed"} /\ open \in BOOLEAN /\ fatal \in BOOLEAN
  /\ requests \in Seq(Msg) /\ Len(requests) <= BufLen
  /\ replies \in Seq(Msg) /\ Len(replies) <= BufLen
SrvType ==
  /\ srv \in {"up", "stopped", "killed"} /\ served \in [Ids -> Nat]
  /\ handlers \subseteq [msg : Msg, done : BOOLEAN]

LEMMA TParts == TInv => CallerType /\ MapType /\ HandType /\ SocketType /\ SrvType
<1> SUFFICES ASSUME TInv PROVE CallerType /\ MapType /\ HandType /\ SocketType /\ SrvType
  OBVIOUS
<1>1. CallerType
  BY DEF TInv, TypeOK, CallerType, Labels
<1>2. MapType /\ HandType
  BY DEF TInv, TypeOK, MapType, HandType, ReaderType
<1>3. SocketType /\ SrvType
  BY DEF TInv, TypeOK, SocketType, SrvType
<1> QED BY <1>1, <1>2, <1>3

LEMMA WholeTInv == CallerType /\ MapType /\ HandType /\ SocketType /\ SrvType => TInv
<1> SUFFICES ASSUME CallerType, MapType, HandType, SocketType, SrvType PROVE TInv
  OBVIOUS
<1>1. nextTag \in Nat
  BY DEF CallerType
<1>2. TypeOK
  BY <1>1 DEF CallerType, MapType, HandType, SocketType, SrvType, TypeOK, Labels, ReaderType
<1> QED BY <1>2 DEF TInv, CallerType, HandType

LEMMA NextWholeTInv == CallerType' /\ MapType' /\ HandType' /\ SocketType' /\ SrvType' => TInv'
BY WholeTInv, PTL

LEMMA EmptyBuffer == <<>> \in Seq(Msg) /\ Len(<<>>) <= BufLen
BY DemuxAssumption, SMT

LEMMA InitTInv == Init => TInv
<1> SUFFICES ASSUME Init PROVE TInv
  OBVIOUS
<1>1. Failure \in Result
  BY DEF Result
<1>2. CallerType
  BY <1>1, SMT DEF Init, CallerType, Labels, Tagged
<1>3. calls = <<>> /\ closed = FALSE
  BY DEF Init
<1>4. MapType
  <2>1. DOMAIN calls = {}
    BY <1>3, SMT
  <2> QED BY <1>3, <2>1 DEF MapType
<1>5. HandType
  BY <1>1 DEF Init, HandType, ReaderType
<1>6. requests = <<>> /\ replies = <<>> /\ closing = "no" /\ open \in BOOLEAN /\ fatal \in BOOLEAN
  BY DEF Init
<1>7. SocketType
  BY <1>6, EmptyBuffer DEF SocketType
<1>8. SrvType
  BY DEF Init, SrvType
<1> QED BY <1>2, <1>4, <1>5, <1>7, <1>8, WholeTInv

LEMMA SendReceiveTInv ==
  ASSUME TInv, NEW c \in Callers, Invoke(c) \/ SendReceive(c)
  PROVE  TInv'
<1>0. CallerType /\ MapType /\ HandType /\ SocketType /\ SrvType
  BY TParts
<1>1. UNCHANGED <<closed, reader, closing, replies, open, fatal, srv, handlers, served>>
  BY DEF Invoke, SendReceive, TakeTag, Put, Lock, Write, WriteError, server
<1>2. HandType' /\ SrvType'
  BY <1>0, <1>1 DEF HandType, SrvType
<1>3. CASE Invoke(c)
  <2>1. /\ n' = [n EXCEPT ![c] = @ + 1] /\ n[c] < MaxCalls /\ pc' = [pc EXCEPT ![c] = "tag"]
        /\ UNCHANGED <<nextTag, mu, tag, result, calls, requests>>
    BY <1>3 DEF Invoke, Goto
  <2>2. CallerType'
    BY <1>0, <2>1, SMT DEF CallerType, Labels, Tagged
  <2> QED BY <1>0, <1>1, <1>2, <2>1, <2>2, NextWholeTInv DEF MapType, SocketType
<1>4. CASE TakeTag(c)
  <2>1. /\ tag' = [tag EXCEPT ![c] = nextTag] /\ nextTag' = nextTag + 1 /\ pc[c] = "tag"
        /\ pc' = [pc EXCEPT ![c] = "put"] /\ UNCHANGED <<mu, n, result, calls, requests>>
    BY <1>4 DEF TakeTag, Taken, Goto
  <2>2. CallerType'
    BY <1>0, <2>1, SMT DEF CallerType, Labels, Tagged
  <2>3. MapType'
    BY <1>0, <1>1, <2>1, SMT DEF MapType, CallerType
  <2> QED BY <1>0, <1>1, <1>2, <2>1, <2>2, <2>3, NextWholeTInv DEF SocketType
<1>5. CASE Put(c)
  <2>1. UNCHANGED <<nextTag, mu, tag, n, requests>> /\ pc[c] = "put"
    BY <1>5 DEF Put
  <2>2. CASE Refuses
    <3>1. calls' = calls /\ pc' = [pc EXCEPT ![c] = "idle"] /\ result' = [result EXCEPT ![c] = Failure]
      BY <1>5, <2>2 DEF Put, Finish, Goto
    <3>2. CallerType'
      BY <1>0, <2>1, <3>1 DEF CallerType, Labels, Tagged, Result
    <3> QED BY <1>0, <1>1, <1>2, <2>1, <3>1, <3>2, NextWholeTInv DEF MapType, SocketType
  <2>3. CASE ~Refuses
    <3>1. /\ DOMAIN calls' = DOMAIN calls \cup {tag[c]}
          /\ \A t \in DOMAIN calls' : calls'[t] = IF t = tag[c] THEN c ELSE calls[t]
          /\ pc' = [pc EXCEPT ![c] = "lock"] /\ result' = result
      BY <1>5, <2>3 DEF Put, Goto
    <3>2. CallerType'
      BY <1>0, <2>1, <3>1 DEF CallerType, Labels, Tagged
    <3>3. tag[c] \in 1..(nextTag - 1)
      BY <1>0, <2>1, SMT DEF CallerType, Tagged
    <3>4. MapType'
      BY <1>0, <1>1, <2>1, <3>1, <3>3 DEF MapType
    <3> QED BY <1>0, <1>1, <1>2, <2>1, <3>2, <3>4, NextWholeTInv DEF SocketType
  <2> QED BY <2>2, <2>3
<1>6. CASE Lock(c) \/ WriteError(c)
  <2>1. /\ mu' \in Callers \cup {"free"} /\ pc[c] \in {"lock", "write"}
        /\ pc' = [pc EXCEPT ![c] = "write"] \/ pc' = [pc EXCEPT ![c] = "wait"]
        /\ UNCHANGED <<nextTag, tag, n, result, calls, requests>>
    BY <1>6 DEF Lock, WriteError, Goto
  <2>2. CallerType'
    BY <1>0, <2>1 DEF CallerType, Labels, Tagged
  <2> QED BY <1>0, <1>1, <1>2, <2>1, <2>2, NextWholeTInv DEF MapType, SocketType
<1>7. CASE Write(c)
  <2>1. /\ mu' = "free" /\ pc[c] = "write" /\ pc' = [pc EXCEPT ![c] = "wait"]
        /\ requests' = Append(requests, [tag |-> tag[c], id |-> IdOf(c)]) /\ Len(requests) < BufLen
        /\ UNCHANGED <<nextTag, tag, n, result, calls>>
    BY <1>7 DEF Write, Goto
  <2>2. CallerType'
    BY <1>0, <2>1 DEF CallerType, Labels, Tagged
  <2>3. [tag |-> tag[c], id |-> IdOf(c)] \in Msg
    BY <1>0, <2>1, SMT DEF CallerType, Msg, IdOf, Ids
  <2>4. requests' \in Seq(Msg) /\ Len(requests') <= BufLen
    BY <1>0, <2>1, <2>3, SMT DEF SocketType
  <2> QED BY <1>0, <1>1, <1>2, <2>1, <2>2, <2>4, NextWholeTInv DEF MapType, SocketType
<1> QED BY <1>3, <1>4, <1>5, <1>6, <1>7 DEF SendReceive

LEMMA ReplyToTInv ==
  ASSUME TInv, NEW t \in Nat, NEW rep \in Result, NEW out \in SUBSET Nat, ReplyTo(t, rep, out),
         UNCHANGED closed
  PROVE  /\ CallerType' /\ MapType' /\ HandType' /\ SrvType' /\ fatal' \in BOOLEAN
         /\ UNCHANGED <<closing, requests, open>>
<1>0. CallerType /\ MapType /\ HandType /\ SocketType /\ SrvType
  BY TParts
<1>1. UNCHANGED <<nextTag, mu, pc, tag, n, result, closing, requests, open, srv, handlers, served>>
  BY DEF ReplyTo, server
<1>2. CallerType' /\ SrvType'
  BY <1>0, <1>1 DEF CallerType, SrvType
<1>3. CASE t \in DOMAIN calls
  <2>1. calls[t] \in Callers /\ fatal \in BOOLEAN
    BY <1>0, <1>3 DEF MapType, SocketType
  <2>2. /\ reader' = [st |-> "deliver", ch |-> calls[t], rep |-> rep, out |-> out]
        /\ calls' = [u \in DOMAIN calls \ {t} |-> calls[u]] /\ fatal' = fatal
    BY <1>3 DEF ReplyTo, RemoveTag
  <2>3. MapType'
    BY <1>0, <1>1, <2>2 DEF MapType
  <2>4. HandType'
    BY <2>1, <2>2 DEF HandType, ReaderType
  <2> QED BY <1>1, <1>2, <2>1, <2>2, <2>3, <2>4
<1>4. CASE t \notin DOMAIN calls
  <2>1. fatal' = TRUE /\ calls' = calls /\ reader' = reader
    BY <1>4 DEF ReplyTo
  <2> QED BY <1>0, <1>1, <1>2, <2>1 DEF MapType, HandType
<1> QED BY <1>3, <1>4

LEMMA ReaderTInv == ASSUME TInv, Reader PROVE TInv'
<1>0. CallerType /\ MapType /\ HandType /\ SocketType /\ SrvType
  BY TParts
<1>1. CASE Read
  <2> DEFINE t == Head(replies).tag
             rep == [ok |-> TRUE, id |-> Head(replies).id]
  <2>1. replies # <<>> /\ replies' = Tail(replies) /\ closed' = closed /\ ReplyTo(t, rep, {})
    BY <1>1 DEF Read
  <2>2. Head(replies) \in Msg /\ Tail(replies) \in Seq(Msg) /\ Len(Tail(replies)) <= BufLen
    BY <1>0, <2>1, SMT DEF SocketType
  <2>3. t \in Nat /\ rep \in Result /\ {} \in SUBSET Nat
    BY <2>2 DEF Msg, Result
  <2> HIDE DEF t, rep
  <2>4. CallerType' /\ MapType' /\ HandType' /\ SrvType' /\ fatal' \in BOOLEAN
        /\ UNCHANGED <<closing, requests, open>>
    BY <2>1, <2>3, ReplyToTInv
  <2>5. SocketType'
    BY <1>0, <2>1, <2>2, <2>4 DEF SocketType
  <2> QED BY <2>4, <2>5, NextWholeTInv
<1>2. CASE ReadError \/ Outstanding \/ (Drain /\ reader.out = {})
  <2>1. /\ UNCHANGED <<nextTag, mu, calls, pc, tag, n, result, closing, requests, replies, open, srv, handlers,
                       served, fatal>>
        /\ closed' = TRUE \/ closed' = closed
        /\ \/ reader' = [reader EXCEPT !.st = "list"]
           \/ reader' = [reader EXCEPT !.st = "drain", !.out = DOMAIN calls]
           \/ reader' = [reader EXCEPT !.st = "done"]
    BY <1>2 DEF ReadError, Outstanding, Drain, client, server
  <2>2. DOMAIN calls \in SUBSET Nat
    BY <1>0, SMT DEF MapType, CallerType
  <2>3. HandType'
    <3>1. reader \in ReaderType
      BY <1>0 DEF HandType
    <3>2. \A st \in {"list", "done"} : [reader EXCEPT !.st = st] \in ReaderType /\ [reader EXCEPT !.st = st].st = st
      BY <3>1 DEF ReaderType
    <3>3. /\ [reader EXCEPT !.st = "drain", !.out = DOMAIN calls] \in ReaderType
          /\ [reader EXCEPT !.st = "drain", !.out = DOMAIN calls].st = "drain"
      BY <2>2, <3>1 DEF ReaderType
    <3> QED BY <2>1, <3>2, <3>3 DEF HandType
  <2>4. MapType'
    BY <1>0, <2>1 DEF MapType
  <2>5. CallerType' /\ SocketType' /\ SrvType'
    BY <1>0, <2>1 DEF CallerType, SocketType, SrvType
  <2> QED BY <2>3, <2>4, <2>5, NextWholeTInv
<1>3. CASE Drain /\ reader.out # {}
  <2>1. PICK t \in reader.out : ReplyTo(t, Failure, reader.out \ {t}) /\ closed' = closed /\ replies' = replies
    BY <1>3 DEF Drain
  <2>2. t \in Nat /\ Failure \in Result /\ reader.out \ {t} \in SUBSET Nat
    BY <1>0 DEF Result, HandType, ReaderType
  <2>3. CallerType' /\ MapType' /\ HandType' /\ SrvType' /\ fatal' \in BOOLEAN
        /\ UNCHANGED <<closing, requests, open>>
    BY <2>1, <2>2, ReplyToTInv
  <2>4. SocketType'
    BY <1>0, <2>1, <2>3 DEF SocketType
  <2> QED BY <2>3, <2>4, NextWholeTInv
<1>4. CASE Deliver
  <2>1. /\ reader.ch \in Callers /\ pc' = [pc EXCEPT ![reader.ch] = "idle"]
        /\ result' = [result EXCEPT ![reader.ch] = reader.rep]
        /\ reader' = [st |-> IF reader.rep.ok THEN "read" ELSE "drain",
                      ch |-> "none", rep |-> Failure, out |-> reader.out]
        /\ UNCHANGED <<nextTag, mu, calls, closed, tag, n, closing, requests, replies, open, srv, handlers,
                       served, fatal>>
    BY <1>0, <1>4 DEF Deliver, Finish, Goto, server, HandType
  <2>2. reader.rep \in Result /\ reader.out \in SUBSET Nat /\ Failure \in Result
    BY <1>0 DEF HandType, ReaderType, Result
  <2>3. CallerType'
    BY <1>0, <2>1, <2>2 DEF CallerType, Labels, Tagged
  <2>4. HandType'
    BY <2>1, <2>2 DEF HandType, ReaderType
  <2>5. MapType' /\ SocketType' /\ SrvType'
    BY <1>0, <2>1 DEF MapType, SocketType, SrvType
  <2> QED BY <2>3, <2>4, <2>5, NextWholeTInv
<1> QED BY <1>1, <1>2, <1>3, <1>4 DEF Reader

LEMMA ServerTInv ==
  ASSUME TInv, Close \/ CloseTrans \/ CloseMap \/ SrvReader \/ Handlers \/ KillServer
  PROVE  TInv'
<1>0. CallerType /\ MapType /\ HandType /\ SocketType /\ SrvType
  BY TParts
<1>1. /\ UNCHANGED <<nextTag, mu, calls, pc, tag, n, result, reader, fatal>>
      /\ closed' = TRUE \/ closed' = closed
  BY DEF Close, CloseTrans, CloseMap, SrvReader, SrvRead, SrvReadError, Handlers, ServeRequest,
         WriteReply, KillServer, client, server
<1>2. CallerType' /\ MapType' /\ HandType'
  BY <1>0, <1>1 DEF CallerType, MapType, HandType
<1>3. CASE Close \/ CloseTrans \/ CloseMap
  <2>1. /\ UNCHANGED <<requests, replies, srv, handlers, served>>
        /\ closing' \in {"no", "trans", "map", "closed"} /\ (open' = open \/ open' = FALSE)
    BY <1>3 DEF Close, CloseTrans, CloseMap, client, server
  <2> QED BY <1>0, <1>1, <1>2, <2>1, NextWholeTInv DEF SocketType, SrvType
<1>4. CASE SrvRead
  <2>1. /\ requests # <<>> /\ requests' = Tail(requests)
        /\ handlers' = handlers \cup {[msg |-> Head(requests), done |-> FALSE]}
        /\ UNCHANGED <<closing, replies, open, srv, served>>
    BY <1>4 DEF SrvRead
  <2>2. Head(requests) \in Msg /\ Tail(requests) \in Seq(Msg) /\ Len(Tail(requests)) <= BufLen
    BY <1>0, <2>1, SMT DEF SocketType
  <2>3. [msg |-> Head(requests), done |-> FALSE] \in [msg : Msg, done : BOOLEAN]
    BY ONLY <2>2
  <2> QED BY <1>0, <1>1, <1>2, <2>1, <2>2, <2>3, NextWholeTInv DEF SocketType, SrvType
<1>5. CASE SrvReadError \/ KillServer
  <2>1. /\ UNCHANGED <<closing, replies, open, served>> /\ srv' \in {"stopped", "killed"}
        /\ handlers' = handlers \/ handlers' = {}
        /\ requests' = requests \/ requests' = <<>>
    BY <1>5 DEF SrvReadError, KillServer
  <2>2. CASE requests' = requests
    BY <1>0, <1>1, <1>2, <2>1, <2>2, NextWholeTInv DEF SocketType, SrvType
  <2>3. CASE requests' = <<>>
    BY <1>0, <1>1, <1>2, <2>1, <2>3, EmptyBuffer, NextWholeTInv DEF SocketType, SrvType
  <2> QED BY <2>1, <2>2, <2>3
<1>6. CASE Handlers
  <2>1. PICK h \in handlers : ServeRequest(h) \/ WriteReply(h)
    BY <1>6 DEF Handlers
  <2>2. h \in [msg : Msg, done : BOOLEAN] /\ h.msg \in Msg /\ h.msg.id \in Ids
    BY <1>0 DEF SrvType, Msg
  <2>3. CASE ServeRequest(h)
    <3>1. /\ handlers' = (handlers \ {h}) \cup {[h EXCEPT !.done = TRUE]}
          /\ served' = [served EXCEPT ![h.msg.id] = @ + 1]
          /\ UNCHANGED <<closing, requests, replies, open, srv>>
      BY <2>3 DEF ServeRequest
    <3>2. [h EXCEPT !.done = TRUE] \in [msg : Msg, done : BOOLEAN]
      BY ONLY <2>2
    <3>3. served' \in [Ids -> Nat]
      BY <1>0, <2>2, <3>1, SMT DEF SrvType
    <3>4. handlers' \subseteq [msg : Msg, done : BOOLEAN]
      BY <1>0, <3>1, <3>2 DEF SrvType
    <3>5. SrvType'
      BY <1>0, <3>1, <3>3, <3>4 DEF SrvType
    <3> QED BY <1>0, <1>1, <1>2, <3>1, <3>5, NextWholeTInv DEF SocketType
  <2>4. CASE WriteReply(h)
    <3>1. /\ \/ replies' = replies
             \/ Len(replies) < BufLen /\ replies' = Append(replies, h.msg)
          /\ handlers' = handlers \ {h} /\ UNCHANGED <<closing, requests, open, srv, served>>
      BY <2>4 DEF WriteReply, ReplyMsg
    <3>2. replies' \in Seq(Msg) /\ Len(replies') <= BufLen
      BY <1>0, <2>2, <3>1, SMT DEF SocketType
    <3> QED BY <1>0, <1>1, <1>2, <3>1, <3>2, NextWholeTInv DEF SocketType, SrvType
  <2> QED BY <2>1, <2>3, <2>4
<1> QED BY <1>3, <1>4, <1>5, <1>6 DEF SrvReader

LEMMA NextTInv == TInv /\ [Next]_vars => TInv'
<1> SUFFICES ASSUME TInv, [Next]_vars PROVE TInv'
  OBVIOUS
<1>1. CASE \E c \in Callers : Invoke(c) \/ SendReceive(c)
  BY <1>1, SendReceiveTInv
<1>2. CASE Reader
  BY <1>2, ReaderTInv
<1>3. CASE Close \/ CloseTrans \/ CloseMap \/ SrvReader \/ Handlers \/ KillServer
  BY <1>3, ServerTInv
<1>4. CASE UNCHANGED vars
  BY <1>4, SMT DEF TInv, TypeOK, vars, client, server
<1> QED BY <1>1, <1>2, <1>3, <1>4 DEF Next

(***************************************************************************)
(* The callmap and the reader.  A call that has been entered is either in  *)
(* the map under its own tag or in the reader's hands, and nothing else is *)
(* in the map.  Once the reader goes through the outstanding calls the map *)
(* is closed, so that it can go through a list taken once.                 *)
(***************************************************************************)
Failing == reader.st = "drain" \/ (reader.st = "deliver" /\ ~reader.rep.ok)

MapInv ==
  /\ \A c \in Callers : pc[c] \in Entered =>
       \/ reader.st = "deliver" /\ reader.ch = c
       \/ /\ tag[c] \in DOMAIN calls /\ calls[tag[c]] = c
          /\ reader.st # "done"
          /\ Failing => tag[c] \in reader.out
  /\ \A t \in DOMAIN calls : tag[calls[t]] = t /\ pc[calls[t]] \in Entered
  /\ \A c, d \in Callers : c # d /\ tag[c] # 0 => tag[c] # tag[d]
  /\ reader.st = "deliver" => pc[reader.ch] \in Entered /\ tag[reader.ch] \notin DOMAIN calls
  /\ reader.st \in {"list", "done"} \/ Failing => closed
  /\ Failing => reader.out \subseteq DOMAIN calls

(***************************************************************************)
(* The messages in flight.  No two of them belong to the same call, and    *)
(* while the reader reads replies each of them has its entry in the map.   *)
(***************************************************************************)
Elements(s) == {s[i] : i \in 1..Len(s)}
Sent == Elements(requests)
Serving == {h.msg : h \in handlers}
Answers == Elements(replies)
InFlight == Sent \cup Serving \cup Answers

\* The request of call id has been given to WriteCall, or the call is over.
Written(id) ==
  \/ id[2] < n[id[1]]
  \/ id[2] = n[id[1]] /\ pc[id[1]] \in {"wait", "idle"}

Unlike(m, k) == m.id # k.id /\ m.tag # k.tag

Reading == reader.st = "read" \/ (reader.st = "deliver" /\ reader.rep.ok)

\* Each message in flight belongs to a written call and carries its tag.
FlightInv ==
  \A m \in InFlight :
    /\ m.tag < nextTag /\ Written(m.id)
    /\ \A c \in Callers : pc[c] \in Tagged /\ tag[c] = m.tag => m.id = IdOf(c)
    /\ Reading => m.tag \in DOMAIN calls

\* A call is served between its request and its reply.
ServedInv ==
  /\ \A id \in Ids : ~Written(id) => served[id] = 0
  /\ \A m \in Sent : served[m.id] = 0
  /\ \A h \in handlers : served[h.msg.id] = IF h.done THEN 1 ELSE 0
  /\ \A m \in Answers : served[m.id] = 1

\* The reply in the reader's hands answers the call of the caller it is for.
HandedInv ==
  reader.st = "deliver" /\ reader.rep.ok =>
    /\ reader.rep.id = IdOf(reader.ch) /\ served[reader.rep.id] = 1
    /\ pc[reader.ch] = "wait"

MsgInv == FlightInv /\ ServedInv /\ HandedInv

UniqueInv ==
  /\ \A i, j \in 1..Len(requests) : i # j => Unlike(requests[i], requests[j])
  /\ \A i, j \in 1..Len(replies) : i # j => Unlike(replies[i], replies[j])
  /\ \A h, g \in handlers : h # g => Unlike(h.msg, g.msg)
  /\ \A m \in Sent, k \in Serving : Unlike(m, k)
  /\ \A m \in Sent, k \in Answers : Unlike(m, k)
  /\ \A m \in Serving, k \in Answers : Unlike(m, k)

\* log.Fatalf in reply() is never reached: the server answers no tag that is
\* not in the callmap, and the reader goes through no tag twice.
NoFatal == ~fatal

LEMMA InitInv == Init => MapInv /\ MsgInv /\ UniqueInv /\ NoFatal
<1> SUFFICES ASSUME Init PROVE MapInv /\ MsgInv /\ UniqueInv /\ NoFatal
  OBVIOUS
<1> USE DEF Init
<1>1. DOMAIN calls = {} /\ ~Failing
  BY SMT DEF Failing
<1>2. MapInv
  BY <1>1 DEF MapInv, Entered
<1>3. Sent = {} /\ Serving = {} /\ Answers = {}
  BY SMT DEF Sent, Serving, Answers, Elements
<1>4. MsgInv
  BY <1>3 DEF MsgInv, FlightInv, ServedInv, HandedInv, InFlight
<1>5. UniqueInv
  BY <1>3, SMT DEF UniqueInv
<1> QED BY <1>2, <1>4, <1>5 DEF NoFatal

LEMMA SendReceiveMap ==
  ASSUME TInv, MapInv, NEW c \in Callers, Invoke(c) \/ SendReceive(c)
  PROVE  MapInv'
<1>t. CallerType /\ MapType
  BY TParts
<1> USE <1>t DEF CallerType, MapType, Tagged, Entered, Goto
<1>1. CASE Invoke(c)
  BY <1>1, SMT DEF Invoke, MapInv, Failing
<1>2. CASE TakeTag(c)
  BY <1>2, SMT DEF TakeTag, Taken, MapInv, Failing
<1>3. CASE Put(c)
  <2>1. CASE Refuses
    <3>1. /\ calls' = calls /\ pc' = [pc EXCEPT ![c] = "idle"]
          /\ UNCHANGED <<tag, closed, reader>>
      BY <1>3, <2>1 DEF Put, Finish
    <3> QED BY <1>3, <3>1, SMT DEF Put, MapInv, Failing
  <2>2. CASE ~Refuses
    <3>1. /\ DOMAIN calls' = DOMAIN calls \cup {tag[c]}
          /\ \A t \in DOMAIN calls' : calls'[t] = IF t = tag[c] THEN c ELSE calls[t]
          /\ pc' = [pc EXCEPT ![c] = "lock"] /\ pc[c] = "put"
          /\ UNCHANGED <<tag, closed, reader>>
      BY <1>3, <2>2, SMT DEF Put
    <3>2. ~closed /\ reader.st \notin {"list", "done"} /\ ~Failing
      BY <2>2 DEF Refuses, MapInv
    <3>3. tag[c] # 0
      BY <3>1
    <3>4. reader.st = "deliver" => reader.ch \in Callers /\ tag[reader.ch] # tag[c]
      BY <3>1, <3>3, TParts DEF MapInv, HandType
    <3> QED BY <3>1, <3>2, <3>3, <3>4, SMT DEF MapInv, Failing
  <2> QED BY <2>1, <2>2
<1>4. CASE Lock(c)
  BY <1>4, SMT DEF Lock, MapInv, Failing
<1>5. CASE Write(c) \/ WriteError(c)
  <2>1. /\ pc[c] = "write" /\ pc' = [pc EXCEPT ![c] = "wait"]
        /\ UNCHANGED <<tag, calls, closed, reader>>
    BY <1>5 DEF Write, WriteError
  <2> QED BY <2>1, SMT DEF MapInv, Failing
<1> QED BY <1>1, <1>2, <1>3, <1>4, <1>5 DEF SendReceive

\* reply(t, rep) for a tag in the map hands the channel of its caller, and of
\* nobody else, to the reader.
LEMMA ReplyToMap ==
  ASSUME TInv, MapInv, NEW t \in DOMAIN calls, NEW rep \in Result, NEW out \in SUBSET Nat,
         ReplyTo(t, rep, out), UNCHANGED closed,
         reader.st # "deliver", ~rep.ok => closed /\ reader.st = "drain" /\ out = reader.out \ {t}
  PROVE  MapInv'
<1>t. CallerType /\ MapType
  BY TParts
<1> USE <1>t DEF CallerType, MapType, Entered
<1>1. /\ reader' = [st |-> "deliver", ch |-> calls[t], rep |-> rep, out |-> out]
      /\ calls' = [u \in DOMAIN calls \ {t} |-> calls[u]]
      /\ UNCHANGED <<pc, tag, closed>>
  BY DEF ReplyTo, RemoveTag
<1>2. calls[t] \in Callers /\ tag[calls[t]] = t /\ pc[calls[t]] \in Entered
  BY DEF MapInv
<1>3. Failing' <=> ~rep.ok
  BY <1>1 DEF Failing
<1>4. ~rep.ok => Failing /\ closed /\ out = reader.out \ {t}
  BY DEF Failing
<1>5. reader'.st = "deliver" /\ reader'.ch = calls[t] /\ reader'.out = out
  BY <1>1
<1>6. \A c \in Callers : pc'[c] \in Entered /\ c # calls[t] =>
        tag'[c] \in DOMAIN calls' /\ calls'[tag'[c]] = c /\ (Failing' => tag'[c] \in reader'.out)
  <2> SUFFICES ASSUME NEW c \in Callers, pc[c] \in Entered, c # calls[t]
               PROVE  /\ tag[c] \in DOMAIN calls' /\ calls'[tag[c]] = c
                      /\ Failing' => tag[c] \in reader'.out
    BY <1>1
  <2>1. tag[c] \in DOMAIN calls /\ calls[tag[c]] = c /\ (Failing => tag[c] \in reader.out)
    BY DEF MapInv
  <2>2. tag[c] # t
    BY <2>1
  <2> QED BY <1>1, <1>3, <1>4, <1>5, <2>1, <2>2
<1>7. \A u \in DOMAIN calls' : tag'[calls'[u]] = u /\ pc'[calls'[u]] \in Entered
  BY <1>1 DEF MapInv
<1>8. Failing' => reader'.out \subseteq DOMAIN calls'
  BY <1>1, <1>3, <1>4, <1>5 DEF MapInv
<1>9. pc'[reader'.ch] \in Entered /\ tag'[reader'.ch] \notin DOMAIN calls'
  BY <1>1, <1>2, <1>5
<1>10. \A c, d \in Callers : c # d /\ tag'[c] # 0 => tag'[c] # tag'[d]
  BY <1>1 DEF MapInv
<1>11. reader'.st \notin {"list", "done"} /\ (Failing' => closed')
  BY <1>1, <1>3, <1>4, <1>5, SMT
<1> QED BY <1>5, <1>6, <1>7, <1>8, <1>9, <1>10, <1>11 DEF MapInv

LEMMA ReaderMap ==
  ASSUME TInv, MapInv, Reader, Reading => \A i \in 1..Len(replies) : replies[i].tag \in DOMAIN calls
  PROVE  MapInv' /\ fatal' = fatal
<1>t. CallerType /\ MapType /\ HandType /\ SocketType
  BY TParts
<1> USE <1>t DEF CallerType, MapType, HandType, SocketType, ReaderType, Entered
<1>1. CASE Read
  <2> DEFINE m == Head(replies)
             rep == [ok |-> TRUE, id |-> m.id]
  <2>1. m = replies[1] /\ 1 \in 1..Len(replies) /\ m \in Msg
    BY <1>1, SMT DEF Read
  <2>2. m.tag \in DOMAIN calls /\ rep \in Result /\ reader.st = "read"
    BY <1>1, <2>1 DEF Read, Reading, Msg, Result
  <2>3. ReplyTo(m.tag, rep, {}) /\ UNCHANGED closed
    BY <1>1 DEF Read
  <2>4. MapInv'
    <3>1. rep.ok
      OBVIOUS
    <3> HIDE DEF rep, m
    <3> QED BY <2>2, <2>3, <3>1, ReplyToMap, SMT
  <2> QED BY <2>2, <2>3, <2>4 DEF ReplyTo
<1>2. CASE ReadError
  <2>1. /\ reader' = [reader EXCEPT !.st = "list"] /\ reader.st = "read"
        /\ closed' = TRUE /\ UNCHANGED <<pc, tag, calls, fatal>>
    BY <1>2 DEF ReadError
  <2>2. reader'.st = "list" /\ ~Failing'
    BY <2>1 DEF Failing
  <2> QED BY <2>1, <2>2, SMT DEF MapInv
<1>3. CASE Outstanding
  <2>1. /\ reader' = [reader EXCEPT !.st = "drain", !.out = DOMAIN calls] /\ reader.st = "list"
        /\ UNCHANGED <<pc, tag, calls, fatal, closed>>
    BY <1>3 DEF Outstanding, client
  <2>2. reader'.st = "drain" /\ reader'.out = DOMAIN calls /\ closed
    BY <2>1 DEF MapInv
  <2> QED BY <2>1, <2>2, SMT DEF MapInv, Failing
<1>4. CASE Drain
  <2>0. reader.st = "drain" /\ Failing /\ closed
    BY <1>4 DEF Drain, Failing, MapInv
  <2>1. CASE reader.out = {}
    <3>1. /\ reader' = [reader EXCEPT !.st = "done"]
          /\ UNCHANGED <<pc, tag, calls, fatal, closed>>
      BY <1>4, <2>1 DEF Drain, client
    <3>2. reader'.st = "done" /\ ~Failing'
      BY <3>1 DEF Failing
    <3> QED BY <2>0, <2>1, <3>1, <3>2, SMT DEF MapInv
  <2>2. CASE reader.out # {}
    <3>1. PICK t \in reader.out : ReplyTo(t, Failure, reader.out \ {t}) /\ UNCHANGED closed
      BY <1>4, <2>2 DEF Drain
    <3>2. t \in DOMAIN calls /\ Failure \in Result /\ reader.out \ {t} \in SUBSET Nat
      BY <2>0 DEF Result, MapInv
    <3>3. MapInv'
      BY <2>0, <3>1, <3>2, ReplyToMap DEF Failure
    <3> QED BY <3>1, <3>2, <3>3 DEF ReplyTo
  <2> QED BY <2>1, <2>2
<1>5. CASE Deliver
  <2>1. /\ pc' = [pc EXCEPT ![reader.ch] = "idle"] /\ reader.st = "deliver" /\ reader.ch \in Callers
        /\ reader' = [st |-> IF reader.rep.ok THEN "read" ELSE "drain",
                      ch |-> "none", rep |-> Failure, out |-> reader.out]
        /\ UNCHANGED <<tag, calls, closed, fatal>>
    BY <1>5 DEF Deliver, Finish, Goto
  <2>2. /\ reader'.st = IF reader.rep.ok THEN "read" ELSE "drain"
        /\ reader'.out = reader.out /\ Failing' = Failing
    BY <2>1 DEF Failing
  <2> QED BY <2>1, <2>2, SMT DEF MapInv
<1> QED BY <1>1, <1>2, <1>3, <1>4, <1>5 DEF Reader

LEMMA AppendElements ==
  ASSUME NEW S, NEW s \in Seq(S), NEW e \in S
  PROVE  Elements(Append(s, e)) = Elements(s) \cup {e}
<1>1. Len(Append(s, e)) = Len(s) + 1 /\ Len(s) \in Nat
  BY SMT
<1>2. \A i \in 1..Len(s) : Append(s, e)[i] = s[i]
  BY SMT
<1>3. Append(s, e)[Len(s) + 1] = e
  BY SMT
<1> QED BY <1>1, <1>2, <1>3, SMT DEF Elements

LEMMA TailElements ==
  ASSUME NEW S, NEW s \in Seq(S), s # <<>>
  PROVE  /\ Elements(Tail(s)) \cup {Head(s)} = Elements(s)
         /\ Head(s) = s[1] /\ 1 \in 1..Len(s)
         /\ \A i \in 1..Len(Tail(s)) : Tail(s)[i] = s[i + 1] /\ i + 1 \in 1..Len(s)
<1>1. Len(Tail(s)) = Len(s) - 1 /\ Len(s) \in Nat \ {0}
  BY SMT
<1>2. \A i \in 1..Len(Tail(s)) : Tail(s)[i] = s[i + 1] /\ i + 1 \in 1..Len(s)
  BY <1>1, SMT
<1>3. Head(s) = s[1] /\ 1 \in 1..Len(s)
  BY <1>1, SMT
<1>4. \A i \in 1..Len(s) : i = 1 \/ (i - 1 \in 1..Len(Tail(s)) /\ Tail(s)[i - 1] = s[i])
  BY <1>1, <1>2, SMT
<1> QED BY <1>2, <1>3, <1>4, SMT DEF Elements

LEMMA FlightTypes ==
  ASSUME TInv
  PROVE  InFlight \subseteq Msg /\ Sent \subseteq Msg /\ Answers \subseteq Msg /\ Serving \subseteq Msg
BY SMT DEF TInv, TypeOK, InFlight, Sent, Serving, Answers, Elements

LEMMA SendReceiveMsg ==
  ASSUME TInv, MapInv, MsgInv, NEW c \in Callers, Invoke(c) \/ SendReceive(c)
  PROVE  MsgInv'
<1>t. CallerType /\ SocketType
  BY TParts
<1> USE <1>t DEF CallerType, SocketType, Tagged, Entered, Goto, IdOf
<1>0. UNCHANGED <<replies, reader, handlers, served>>
  BY DEF Invoke, SendReceive, TakeTag, Put, Lock, Write, WriteError, server
<1>1. CASE Invoke(c)
  <2>1. /\ pc[c] = "idle" /\ n' = [n EXCEPT ![c] = @ + 1] /\ pc' = [pc EXCEPT ![c] = "tag"]
        /\ UNCHANGED <<nextTag, calls, tag, requests>>
    BY <1>1 DEF Invoke
  <2>2. \A id \in Ids : Written(id) <=> Written(id)'
    BY <2>1, SMT DEF Written, Ids
  <2>3. InFlight \subseteq Msg /\ Sent \subseteq Msg
    BY FlightTypes
  <2>4. InFlight' = InFlight /\ Sent' = Sent /\ Answers' = Answers
    BY <1>0, <2>1 DEF InFlight, Sent, Serving, Answers
  <2>5. Reading' <=> Reading
    BY <1>0 DEF Reading
  <2>6. FlightInv'
    BY <1>0, <2>1, <2>2, <2>3, <2>4, <2>5 DEF MsgInv, FlightInv, Msg
  <2>7. ServedInv'
    BY <1>0, <2>2, <2>4 DEF MsgInv, ServedInv
  <2>8. HandedInv'
    BY <1>0, <2>1, SMT DEF MsgInv, HandedInv
  <2> QED BY <2>6, <2>7, <2>8 DEF MsgInv
<1>2. CASE TakeTag(c) \/ Put(c) \/ Lock(c) \/ WriteError(c)
  <2>1. /\ \/ pc[c] = "tag" /\ pc' = [pc EXCEPT ![c] = "put"]
              /\ tag' = [tag EXCEPT ![c] = nextTag] /\ nextTag' = nextTag + 1
           \/ /\ pc[c] \in Tagged /\ tag' = tag /\ nextTag' = nextTag
              /\ pc[c] \in {"put", "lock", "write"}
              /\ \E l \in {"idle", "lock", "write", "wait"} : pc' = [pc EXCEPT ![c] = l]
        /\ DOMAIN calls \subseteq DOMAIN calls'
        /\ UNCHANGED <<n, requests>>
    BY <1>2, SMT DEF TakeTag, Taken, Put, Finish, Lock, WriteError
  <2>2. \A id \in Ids : Written(id) => Written(id)'
    BY <2>1 DEF Written, Ids
  <2>3. InFlight \subseteq Msg /\ Sent \subseteq Msg
    BY FlightTypes
  <2>4. InFlight' = InFlight /\ Sent' = Sent /\ Answers' = Answers
    BY <1>0, <2>1 DEF InFlight, Sent, Serving, Answers
  <2>5. Reading' <=> Reading
    BY <1>0 DEF Reading
  <2>6. FlightInv'
    <3> SUFFICES ASSUME NEW m \in InFlight
                 PROVE  /\ m.tag < nextTag' /\ Written(m.id)'
                        /\ \A d \in Callers : pc'[d] \in Tagged /\ tag'[d] = m.tag => m.id = IdOf(d)'
                        /\ Reading' => m.tag \in DOMAIN calls'
      BY <2>4 DEF FlightInv
    <3>1. /\ m \in Msg /\ m.tag < nextTag /\ Written(m.id)
          /\ \A d \in Callers : pc[d] \in Tagged /\ tag[d] = m.tag => m.id = IdOf(d)
          /\ Reading => m.tag \in DOMAIN calls
      BY <2>3 DEF MsgInv, FlightInv
    <3>2. m.tag < nextTag' /\ Written(m.id)' /\ (Reading' => m.tag \in DOMAIN calls')
      BY <2>1, <2>2, <2>5, <3>1, SMT DEF Msg
    <3>3. \A d \in Callers : pc'[d] \in Tagged /\ tag'[d] = m.tag => m.id = IdOf(d)'
      <4>1. \A d \in Callers : pc'[d] \in Tagged /\ tag'[d] = m.tag => pc[d] \in Tagged /\ tag[d] = m.tag
        BY <2>1, <3>1, SMT DEF Msg
      <4> QED BY <2>1, <3>1, <4>1
    <3> QED BY <3>2, <3>3
  <2>7. ServedInv'
    BY <1>0, <2>2, <2>4 DEF MsgInv, ServedInv
  <2>8. HandedInv'
    <3>1. reader.st = "deliver" => reader.ch \in Callers
      BY TParts DEF HandType
    <3> QED BY <1>0, <2>1, <3>1 DEF MsgInv, HandedInv
  <2> QED BY <2>6, <2>7, <2>8 DEF MsgInv
<1>3. CASE Write(c)
  <2> DEFINE m == [tag |-> tag[c], id |-> IdOf(c)]
  <2>1. /\ pc[c] = "write" /\ pc' = [pc EXCEPT ![c] = "wait"]
        /\ requests' = Append(requests, m) /\ UNCHANGED <<n, nextTag, calls, tag>>
    BY <1>3 DEF Write
  <2>2. \A id \in Ids : Written(id) => Written(id)'
    BY <2>1 DEF Written, Ids
  <2>3. InFlight \subseteq Msg /\ Sent \subseteq Msg
    BY FlightTypes
  <2>4. Sent' = Sent \cup {m}
    <3>1. m \in Msg
      BY <2>1, SMT DEF Msg, Ids
    <3> HIDE DEF m
    <3>2. Elements(Append(requests, m)) = Elements(requests) \cup {m}
      BY <3>1, AppendElements
    <3> QED BY <2>1, <3>2 DEF Sent
  <2>5. InFlight' = InFlight \cup {m} /\ Answers' = Answers
    BY <1>0, <2>4 DEF InFlight, Serving, Answers
  <2>6. Reading' <=> Reading
    BY <1>0 DEF Reading
  <2>7. IdOf(c) \in Ids /\ ~Written(IdOf(c)) /\ Written(IdOf(c))'
    <3>1. n[c] \in 1..MaxCalls /\ pc'[c] = "wait"
      BY <2>1, SMT
    <3>2. IdOf(c) \in Ids /\ IdOf(c)[1] = c /\ IdOf(c)[2] = n[c] /\ IdOf(c)' = IdOf(c)
      BY ONLY <2>1, <3>1, c \in Callers DEF Ids, IdOf
    <3> HIDE DEF IdOf, CallerType, SocketType
    <3> QED BY <2>1, <3>1, <3>2, SMT DEF Written
  <2>8. tag[c] < nextTag /\ (Reading => tag[c] \in DOMAIN calls)
    BY <2>1 DEF MapInv, MsgInv, HandedInv, Reading, Failing
  <2>9. \A d \in Callers : tag[d] = tag[c] => d = c
    BY <2>1 DEF MapInv
  <2>10. FlightInv'
    <3>1. \A k \in InFlight : FlightInv => Written(k.id)' /\ (Reading' => k.tag \in DOMAIN calls')
      BY <2>1, <2>2, <2>3, <2>6 DEF FlightInv, Msg
    <3>2. \A k \in InFlight, d \in Callers : pc'[d] \in Tagged /\ tag'[d] = k.tag => k.id = IdOf(d)'
      BY <2>1 DEF MsgInv, FlightInv
    <3>3. \A d \in Callers : pc'[d] \in Tagged /\ tag'[d] = m.tag => m.id = IdOf(d)'
      BY <2>1, <2>9
    <3>4. m.tag < nextTag' /\ Written(m.id)' /\ (Reading' => m.tag \in DOMAIN calls')
      BY <2>1, <2>6, <2>7, <2>8
    <3>5. \A k \in InFlight : k.tag < nextTag'
      BY <2>1 DEF MsgInv, FlightInv
    <3>6. FlightInv /\ m' = m
      BY <2>1 DEF MsgInv
    <3> HIDE DEF m, TInv
    <3> SUFFICES ASSUME NEW k \in InFlight \cup {m}
                 PROVE  /\ k.tag < nextTag' /\ Written(k.id)'
                        /\ \A d \in Callers : pc'[d] \in Tagged /\ tag'[d] = k.tag => k.id = IdOf(d)'
                        /\ Reading' => k.tag \in DOMAIN calls'
      BY <2>5 DEF FlightInv
    <3>7. CASE k = m
      BY <3>3, <3>4, <3>6, <3>7
    <3>8. CASE k \in InFlight
      BY ONLY <3>1, <3>2, <3>5, <3>6, <3>8
    <3> QED BY <3>7, <3>8
  <2>11. ServedInv'
    <3>1. \A id \in Ids : ~Written(id)' => served'[id] = 0
      BY <1>0, <2>2 DEF MsgInv, ServedInv
    <3>2. \A k \in Sent' : served'[k.id] = 0
      <4>1. served[m.id] = 0
        BY <2>7 DEF MsgInv, ServedInv
      <4> HIDE DEF m
      <4> QED BY <1>0, <2>4, <4>1 DEF MsgInv, ServedInv
    <3> QED BY <1>0, <2>5, <3>1, <3>2 DEF MsgInv, ServedInv
  <2>12. HandedInv'
    BY <1>0, <2>1, SMT DEF MsgInv, HandedInv
  <2> QED BY <2>10, <2>11, <2>12 DEF MsgInv
<1> QED BY <1>1, <1>2, <1>3 DEF SendReceive

LEMMA SendReceiveUnique ==
  ASSUME TInv, MapInv, MsgInv, UniqueInv, NEW c \in Callers, Invoke(c) \/ SendReceive(c)
  PROVE  UniqueInv'
<1>t. CallerType /\ SocketType
  BY TParts
<1> USE <1>t DEF CallerType, SocketType, Tagged, Entered, Goto, IdOf
<1>0. UNCHANGED <<replies, reader, handlers, served>>
  BY DEF Invoke, SendReceive, TakeTag, Put, Lock, Write, WriteError, server
<1>1. CASE ~Write(c)
  <2>1. requests' = requests
    BY <1>1 DEF Invoke, SendReceive, TakeTag, Put, Lock, WriteError
  <2>2. Sent' = Sent /\ Serving' = Serving /\ Answers' = Answers
    BY <1>0, <2>1 DEF Sent, Serving, Answers
  <2> HIDE DEF TInv
  <2> QED BY <1>0, <2>1, <2>2 DEF UniqueInv
<1>2. CASE Write(c)
  <2> DEFINE m == [tag |-> tag[c], id |-> IdOf(c)]
  <2>1. pc[c] = "write" /\ requests' = Append(requests, m)
    BY <1>2 DEF Write
  <2>2. IdOf(c) \in Ids /\ ~Written(IdOf(c))
    <3>1. n[c] \in 1..MaxCalls
      BY <2>1, SMT
    <3>2. IdOf(c) \in Ids /\ IdOf(c)[1] = c /\ IdOf(c)[2] = n[c]
      BY ONLY <3>1, c \in Callers DEF Ids, IdOf
    <3> HIDE DEF IdOf, CallerType, SocketType
    <3> QED BY <2>1, <3>1, <3>2, SMT DEF Written
  <2>3. \A k \in InFlight : Unlike(m, k) /\ Unlike(k, m)
    <3>1. \A k \in InFlight : k.tag = tag[c] => k.id = IdOf(c)
      BY <2>1 DEF MsgInv, FlightInv
    <3>2. \A k \in InFlight : k.id # IdOf(c)
      BY <2>2 DEF MsgInv, FlightInv
    <3> QED BY ONLY <3>1, <3>2 DEF Unlike
  <2>4. Sent' = Sent \cup {m} /\ Serving' = Serving /\ Answers' = Answers
    <3>1. m \in Msg
      BY <2>1, <2>2 DEF Msg
    <3> HIDE DEF m
    <3>2. Elements(Append(requests, m)) = Elements(requests) \cup {m}
      BY <3>1, AppendElements
    <3> QED BY <1>0, <2>1, <3>2 DEF Sent, Serving, Answers
  <2>5. \A i \in 1..Len(requests) : requests[i] \in InFlight
    BY DEF InFlight, Sent, Elements
  <2>6. /\ \A i, j \in 1..Len(requests') : i # j => Unlike(requests'[i], requests'[j])
    <3>1. m \in Msg
      BY <2>1, <2>2 DEF Msg
    <3>2. /\ Len(requests') = Len(requests) + 1 /\ requests'[Len(requests) + 1] = m
          /\ \A i \in 1..Len(requests) : requests'[i] = requests[i]
      BY <2>1, <3>1, SMT
    <3> HIDE DEF m
    <3>3. \A i \in 1..Len(requests') : i \in 1..Len(requests) \/ i = Len(requests) + 1
      BY <3>2, SMT
    <3> HIDE DEF TInv
    <3> QED BY <2>3, <2>5, <3>2, <3>3 DEF UniqueInv
  <2>7. UniqueInv /\ \A k \in Serving \cup Answers : Unlike(m, k)
    <3> HIDE DEF m, TInv
    <3> QED BY <2>3 DEF InFlight
  <2> HIDE DEF m, TInv
  <2> QED BY <1>0, <2>4, <2>6, <2>7 DEF UniqueInv
<1> QED BY <1>1, <1>2

LEMMA ReadMsg ==
  ASSUME TInv, MapInv, MsgInv, UniqueInv, Read
  PROVE  MsgInv' /\ UniqueInv'
<1> DEFINE m == Head(replies)
<1>1. /\ replies \in Seq(Msg) /\ replies # <<>> /\ replies' = Tail(replies) /\ reader.st = "read"
      /\ ReplyTo(m.tag, [ok |-> TRUE, id |-> m.id], {})
  BY DEF Read, TInv, TypeOK
<1>2. /\ Answers = Answers' \cup {m} /\ m = replies[1] /\ 1 \in 1..Len(replies)
      /\ \A i \in 1..Len(replies') : replies'[i] = replies[i + 1] /\ i + 1 \in 1..Len(replies)
  BY <1>1, TailElements DEF Answers
<1>3. UNCHANGED <<nextTag, pc, tag, n, requests, handlers, served>>
  BY <1>1 DEF ReplyTo, server
<1>4. m \in InFlight /\ m \in Msg /\ m \in Answers
  BY <1>2, FlightTypes DEF InFlight
<1>5. Reading /\ m.tag \in DOMAIN calls /\ Written(m.id) /\ served[m.id] = 1
  BY <1>1, <1>4 DEF Reading, MsgInv, FlightInv, ServedInv
<1>6. /\ reader' = [st |-> "deliver", ch |-> calls[m.tag], rep |-> [ok |-> TRUE, id |-> m.id], out |-> {}]
      /\ DOMAIN calls' = DOMAIN calls \ {m.tag}
  BY <1>1, <1>5 DEF ReplyTo, RemoveTag
<1>7. calls[m.tag] \in Callers /\ tag[calls[m.tag]] = m.tag /\ pc[calls[m.tag]] \in Entered
  BY <1>5 DEF MapInv, TInv, TypeOK
<1>8. m.id = IdOf(calls[m.tag]) /\ pc[calls[m.tag]] = "wait"
  <2>1. m.id = IdOf(calls[m.tag])
    BY <1>4, <1>7 DEF MsgInv, FlightInv, Tagged, Entered
  <2> DEFINE c == calls[m.tag]
  <2>2. n[c] \in Nat /\ c \in Callers /\ pc[c] \in Entered
    BY <1>7, SMT DEF TInv, TypeOK
  <2>3. m.id[1] = c /\ m.id[2] = n[c]
    BY <2>1, SMT DEF IdOf
  <2>4. m.id[2] < n[c] \/ pc[c] \in {"wait", "idle"}
    BY <1>5, <2>3 DEF Written
  <2> HIDE DEF c, m
  <2> QED BY <2>1, <2>2, <2>3, <2>4, SMT DEF Entered, c
<1>9. Sent' = Sent /\ Serving' = Serving
  BY <1>3 DEF Sent, Serving
<1>10. \A k \in InFlight' : k \in InFlight /\ k.tag # m.tag
  <2>1. \A k \in Answers' : k.tag # m.tag
    BY <1>2, SMT DEF Answers, Elements, UniqueInv, Unlike
  <2>2. \A k \in Sent \cup Serving : k.tag # m.tag
    BY <1>4 DEF UniqueInv, Unlike
  <2> QED BY <1>2, <1>9, <2>1, <2>2 DEF InFlight
<1> HIDE DEF m
<1>11. FlightInv'
  <2>1. \A id : Written(id) => Written(id)'
    BY <1>3 DEF Written
  <2> QED BY <1>3, <1>5, <1>6, <1>10, <2>1 DEF MsgInv, FlightInv, IdOf
<1>12. ServedInv'
  BY <1>2, <1>3, <1>9 DEF MsgInv, ServedInv, Written
<1>13. HandedInv'
  BY <1>3, <1>5, <1>6, <1>8 DEF HandedInv, IdOf
<1>14. \A i, j \in 1..Len(replies') : i # j => Unlike(replies'[i], replies'[j])
  <2> SUFFICES ASSUME NEW i \in 1..Len(replies'), NEW j \in 1..Len(replies'), i # j
               PROVE  Unlike(replies'[i], replies'[j])
    OBVIOUS
  <2>1. i + 1 # j + 1
    BY SMT
  <2> QED BY <1>2, <2>1 DEF UniqueInv
<1>15. UniqueInv'
  BY <1>2, <1>3, <1>9, <1>14, SMT DEF UniqueInv, Unlike
<1> QED BY <1>11, <1>12, <1>13, <1>15 DEF MsgInv

LEMMA ReaderMsg ==
  ASSUME TInv, MapInv, MsgInv, UniqueInv, Reader
  PROVE  MsgInv' /\ UniqueInv'
<1>1. CASE Read
  BY <1>1, ReadMsg
<1>2. CASE ReadError \/ Outstanding \/ Drain
  <2>1. /\ UNCHANGED <<nextTag, pc, tag, n, requests, replies, handlers, served>>
        /\ reader.st # "deliver" /\ reader.st # "done"
        /\ \/ reader' = [reader EXCEPT !.st = "list"] \/ reader' = [reader EXCEPT !.st = "done"]
           \/ reader' = [reader EXCEPT !.st = "drain", !.out = DOMAIN calls]
           \/ reader' = reader /\ reader.st = "drain"
           \/ reader'.rep.ok = FALSE /\ reader'.st = "deliver"
    BY <1>2, SMT DEF ReadError, Outstanding, Drain, ReplyTo, client, server, Failure
  <2>2. ~Reading' /\ ~(reader'.st = "deliver" /\ reader'.rep.ok)
    BY <2>1 DEF Reading, TInv, TypeOK
  <2>3. Sent' = Sent /\ Serving' = Serving /\ Answers' = Answers /\ InFlight' = InFlight
    BY <2>1 DEF Sent, Serving, Answers, InFlight
  <2>4. FlightInv'
    BY <2>1, <2>2, <2>3 DEF MsgInv, FlightInv, Written, IdOf
  <2>5. ServedInv'
    BY <2>1, <2>3 DEF MsgInv, ServedInv, Written
  <2>6. HandedInv'
    BY <2>2 DEF HandedInv
  <2>7. UniqueInv'
    BY <2>1, <2>3, SMT DEF UniqueInv, Unlike
  <2> QED BY <2>4, <2>5, <2>6, <2>7 DEF MsgInv
<1>3. CASE Deliver
  <2>1. /\ reader.st = "deliver" /\ reader.ch \in Callers /\ pc[reader.ch] = "wait"
        /\ pc' = [pc EXCEPT ![reader.ch] = "idle"]
        /\ reader' = [st |-> IF reader.rep.ok THEN "read" ELSE "drain",
                      ch |-> "none", rep |-> Failure, out |-> reader.out]
        /\ UNCHANGED <<nextTag, calls, tag, n, requests, replies, handlers, served>>
    BY <1>3 DEF Deliver, Finish, Goto, server, TInv
  <2>2. (Reading' => Reading) /\ reader'.st # "deliver"
    BY <2>1 DEF Reading
  <2>3. Sent' = Sent /\ Serving' = Serving /\ Answers' = Answers /\ InFlight' = InFlight
    BY <2>1 DEF Sent, Serving, Answers, InFlight
  <2>4. \A id \in Ids : Written(id) <=> Written(id)'
    BY <2>1 DEF Written, Ids, TInv, TypeOK
  <2>5. \A c \in Callers : pc'[c] \in Tagged => pc[c] \in Tagged
    BY <2>1 DEF Tagged, TInv, TypeOK
  <2>6. FlightInv'
    BY <2>1, <2>2, <2>3, <2>4, <2>5, FlightTypes DEF MsgInv, FlightInv, IdOf, Msg
  <2>7. ServedInv'
    BY <2>1, <2>3, <2>4 DEF MsgInv, ServedInv
  <2>8. HandedInv'
    BY <2>2 DEF HandedInv
  <2>9. UniqueInv'
    BY <2>1, <2>3, SMT DEF UniqueInv, Unlike
  <2> QED BY <2>6, <2>7, <2>8, <2>9 DEF MsgInv
<1> QED BY <1>1, <1>2, <1>3 DEF Reader

LEMMA ResultId == \A res \in Result : res.ok => res = [ok |-> TRUE, id |-> res.id] /\ res.id \in Ids
<1> SUFFICES ASSUME NEW res \in Result, res.ok PROVE res = [ok |-> TRUE, id |-> res.id] /\ res.id \in Ids
  OBVIOUS
<1>1. res # Failure
  BY SMT DEF Failure
<1>2. res \in [ok : {TRUE}, id : Ids]
  BY <1>1 DEF Result
<1> QED BY ONLY <1>2

LEMMA ServerMsg ==
  ASSUME TInv, MapInv, MsgInv, UniqueInv,
         Close \/ CloseTrans \/ CloseMap \/ SrvReader \/ Handlers \/ KillServer
  PROVE  MapInv' /\ MsgInv' /\ UniqueInv' /\ fatal' = fatal
<1>0. /\ UNCHANGED <<nextTag, calls, pc, tag, n, reader, fatal>>
      /\ closed => closed'
  BY SMT DEF Close, CloseTrans, CloseMap, SrvReader, SrvRead, SrvReadError, Handlers, ServeRequest,
         WriteReply, KillServer, client, server
<1>1. MapInv'
  BY <1>0 DEF MapInv, Failing
<1>2. /\ Reading' <=> Reading
      /\ \A id : Written(id)' <=> Written(id)
      /\ \A c : IdOf(c)' = IdOf(c)
  BY <1>0 DEF Reading, Written, IdOf
<1>3. InFlight' \subseteq InFlight => FlightInv'
  BY <1>0, <1>2 DEF MsgInv, FlightInv
<1>4. (reader.st = "deliver" /\ reader.rep.ok => served'[reader.rep.id] = 1) => HandedInv'
  BY <1>0, <1>2 DEF MsgInv, HandedInv
<1>5. CASE Close \/ CloseTrans \/ CloseMap \/ SrvReadError
  <2>1. UNCHANGED <<requests, replies, handlers, served>>
    BY <1>5 DEF Close, CloseTrans, CloseMap, SrvReadError, server
  <2>2. Sent' = Sent /\ Serving' = Serving /\ Answers' = Answers /\ InFlight' = InFlight
    BY <2>1 DEF Sent, Serving, Answers, InFlight
  <2>3. FlightInv' /\ HandedInv'
    BY <1>3, <1>4, <2>1, <2>2 DEF MsgInv, HandedInv
  <2>4. ServedInv'
    BY <1>2, <2>1, <2>2 DEF MsgInv, ServedInv
  <2>5. UniqueInv'
    BY <2>1, <2>2, SMT DEF UniqueInv, Unlike
  <2> QED BY <1>0, <1>1, <2>3, <2>4, <2>5 DEF MsgInv
<1>6. CASE KillServer
  <2>1. requests' = <<>> /\ handlers' = {} /\ UNCHANGED <<replies, served>>
    BY <1>6 DEF KillServer
  <2>2. Sent' = {} /\ Serving' = {} /\ Answers' = Answers /\ Len(requests') = 0
    BY <2>1, SMT DEF Sent, Serving, Answers, Elements
  <2>3. FlightInv' /\ HandedInv'
    BY <1>3, <1>4, <2>1, <2>2 DEF MsgInv, HandedInv, InFlight
  <2>4. ServedInv'
    BY <1>2, <2>1, <2>2 DEF MsgInv, ServedInv
  <2>5. UniqueInv'
    BY <2>1, <2>2, SMT DEF UniqueInv, Unlike
  <2> QED BY <1>0, <1>1, <2>3, <2>4, <2>5 DEF MsgInv
<1>7. CASE SrvRead
  <2> DEFINE m == Head(requests)
             g == [msg |-> m, done |-> FALSE]
  <2>1. /\ requests # <<>> /\ requests' = Tail(requests) /\ handlers' = handlers \cup {g}
        /\ UNCHANGED <<replies, served>> /\ requests \in Seq(Msg)
    BY <1>7 DEF SrvRead, TInv, TypeOK
  <2>2. /\ Sent = Sent' \cup {m} /\ m = requests[1] /\ 1 \in 1..Len(requests)
        /\ \A i \in 1..Len(requests') : requests'[i] = requests[i + 1] /\ i + 1 \in 1..Len(requests)
    BY <2>1, TailElements DEF Sent
  <2>3. g.msg = m /\ g.done = FALSE /\ m \in Sent
    BY <2>2
  <2> HIDE DEF m, g
  <2>4. Serving' = Serving \cup {m} /\ Answers' = Answers
    BY <2>1, <2>3 DEF Serving, Answers
  <2>5. FlightInv' /\ HandedInv'
    BY <1>3, <1>4, <2>1, <2>2, <2>4 DEF MsgInv, HandedInv, InFlight
  <2>6. ServedInv'
    <3>1. \A k \in Sent' \cup Answers' : k \in Sent' => k \in Sent
      BY <2>2
    <3>2. served[m.id] = 0
      BY <2>3 DEF MsgInv, ServedInv
    <3> QED BY <1>2, <2>1, <2>2, <2>3, <2>4, <3>1, <3>2 DEF MsgInv, ServedInv
  <2>7. \A k \in Sent' : Unlike(k, m) /\ Unlike(m, k)
    <3> SUFFICES ASSUME NEW i \in 1..Len(requests') PROVE Unlike(requests'[i], m) /\ Unlike(m, requests'[i])
      BY DEF Sent, Elements
    <3>1. i + 1 # 1
      BY SMT
    <3> QED BY <2>2, <3>1 DEF UniqueInv
  <2>8. \A i, j \in 1..Len(requests') : i # j => Unlike(requests'[i], requests'[j])
    <3> SUFFICES ASSUME NEW i \in 1..Len(requests'), NEW j \in 1..Len(requests'), i # j
                 PROVE  Unlike(requests'[i], requests'[j])
      OBVIOUS
    <3>1. i + 1 # j + 1
      BY SMT
    <3> QED BY <2>2, <3>1 DEF UniqueInv
  <2>9. \A h \in handlers : Unlike(h.msg, m) /\ Unlike(m, h.msg)
    BY <2>3 DEF UniqueInv, Serving, Unlike
  <2>10. \A h, f \in handlers' : h # f => Unlike(h.msg, f.msg)
    BY <2>1, <2>3, <2>9 DEF UniqueInv
  <2>11. UniqueInv'
    <3>1. \A k \in Sent', l \in Serving' : Unlike(k, l)
      BY <2>2, <2>4, <2>7 DEF UniqueInv
    <3>2. \A k \in Serving', l \in Answers' : Unlike(k, l)
      BY <2>3, <2>4 DEF UniqueInv
    <3> QED BY <2>1, <2>2, <2>4, <2>8, <2>10, <3>1, <3>2, SMT DEF UniqueInv, Unlike
  <2> QED BY <1>0, <1>1, <2>5, <2>6, <2>11 DEF MsgInv
<1>8. CASE Handlers
  <2>1. PICK h \in handlers : ServeRequest(h) \/ WriteReply(h)
    BY <1>8 DEF Handlers
  <2>2. h \in [msg : Msg, done : BOOLEAN] /\ h.msg \in Msg /\ h.msg.id \in Ids /\ h.msg \in Serving
    BY DEF TInv, TypeOK, Msg, Serving
  <2>3. CASE ServeRequest(h)
    <3> DEFINE g == [h EXCEPT !.done = TRUE]
    <3>1. /\ ~h.done /\ handlers' = (handlers \ {h}) \cup {g}
          /\ served' = [served EXCEPT ![h.msg.id] = @ + 1]
          /\ UNCHANGED <<requests, replies>>
      BY <2>3 DEF ServeRequest
    <3>2. g.msg = h.msg /\ g.done = TRUE /\ served[h.msg.id] = 0
      BY <2>2, <3>1 DEF MsgInv, ServedInv
    <3> HIDE DEF g
    <3>3. Sent' = Sent /\ Answers' = Answers /\ Serving' = Serving
      BY <3>1, <3>2 DEF Sent, Answers, Serving
    <3>4. served'[h.msg.id] = 1 /\ \A id \in Ids : id # h.msg.id => served'[id] = served[id]
      BY <2>2, <3>1, <3>2, SMT DEF TInv, TypeOK
    <3>5. FlightInv'
      BY <1>3, <3>3 DEF InFlight
    <3>6. HandedInv'
      <4>1. reader.st = "deliver" /\ reader.rep.ok => reader.rep.id \in Ids /\ served[reader.rep.id] = 1
        <5>1. reader.rep \in Result
          BY TParts DEF HandType, ReaderType
        <5> QED BY <5>1, ResultId DEF MsgInv, HandedInv
      <4> QED BY <1>4, <3>2, <3>4, <4>1
    <3>7. ServedInv'
      <4>1. \A id \in Ids : ~Written(id)' => id # h.msg.id /\ served[id] = 0
        BY <1>2, <2>2 DEF MsgInv, FlightInv, ServedInv, InFlight
      <4>2. \A k \in Sent \cup Answers : k.id # h.msg.id /\ k.id \in Ids
        BY <2>2, FlightTypes DEF UniqueInv, Unlike, Msg
      <4>3. \A f \in handlers : f # h => f.msg.id # h.msg.id /\ f.msg.id \in Ids
        BY <2>2, FlightTypes, SMT DEF UniqueInv, Unlike, Msg, Serving
      <4>4. \A id \in Ids : ~Written(id)' => served'[id] = 0
        BY <3>4, <4>1
      <4>5. (\A k \in Sent' : served'[k.id] = 0) /\ (\A k \in Answers' : served'[k.id] = 1)
        BY <3>3, <3>4, <4>2 DEF MsgInv, ServedInv
      <4>6. \A f \in handlers' : served'[f.msg.id] = IF f.done THEN 1 ELSE 0
        BY <3>1, <3>2, <3>4, <4>3 DEF MsgInv, ServedInv
      <4> QED BY <4>4, <4>5, <4>6 DEF ServedInv
    <3>8. UniqueInv'
      <4>1. \A f \in handlers : f # h => Unlike(f.msg, h.msg) /\ Unlike(h.msg, f.msg)
        BY DEF UniqueInv
      <4>2. \A e, f \in handlers' : e # f => Unlike(e.msg, f.msg)
        BY <3>1, <3>2, <4>1 DEF UniqueInv
      <4> QED BY <3>1, <3>3, <4>2, SMT DEF UniqueInv, Unlike
    <3> QED BY <1>0, <1>1, <3>5, <3>6, <3>7, <3>8 DEF MsgInv
  <2>4. CASE WriteReply(h)
    <3>1. /\ h.done /\ handlers' = handlers \ {h} /\ UNCHANGED <<requests, served>>
          /\ replies' = replies \/ replies' = Append(replies, h.msg)
          /\ replies \in Seq(Msg)
      BY <2>4 DEF WriteReply, ReplyMsg, TInv, TypeOK
    <3>2. Sent' = Sent /\ Serving' \subseteq Serving /\ Answers \subseteq Answers'
          /\ Answers' \subseteq Answers \cup {h.msg}
      <4>1. Elements(Append(replies, h.msg)) = Elements(replies) \cup {h.msg}
        BY <2>2, <3>1, AppendElements, SMT
      <4>2. Answers' = Answers \/ Answers' = Answers \cup {h.msg}
        BY <3>1, <4>1 DEF Answers
      <4> QED BY <3>1, <4>2 DEF Sent, Serving
    <3>3. FlightInv' /\ HandedInv'
      BY <1>3, <1>4, <2>2, <3>1, <3>2 DEF MsgInv, HandedInv, InFlight
    <3>4. ServedInv'
      BY <1>2, <2>2, <3>1, <3>2 DEF MsgInv, ServedInv
    <3>5. \A f \in handlers' : Unlike(f.msg, h.msg) /\ Unlike(h.msg, f.msg)
      BY <3>1 DEF UniqueInv
    <3>6. \A k \in Sent \cup Answers : Unlike(k, h.msg) /\ Unlike(h.msg, k)
      BY <2>2 DEF UniqueInv, Unlike
    <3>7. \A i, j \in 1..Len(replies') : i # j => Unlike(replies'[i], replies'[j])
      <4>1. CASE replies' = replies
        BY <4>1 DEF UniqueInv
      <4>2. CASE replies' = Append(replies, h.msg)
        <5>1. /\ Len(replies') = Len(replies) + 1 /\ replies'[Len(replies) + 1] = h.msg
              /\ \A i \in 1..Len(replies) : replies'[i] = replies[i] /\ replies[i] \in Answers
          BY <2>2, <3>1, <4>2, SMT DEF Answers, Elements
        <5>2. \A i \in 1..Len(replies') : i \in 1..Len(replies) \/ i = Len(replies) + 1
          BY <3>1, <5>1, SMT
        <5> QED BY <3>6, <5>1, <5>2 DEF UniqueInv
      <4> QED BY <3>1, <4>1, <4>2
    <3>8. \A k \in Serving', l \in Answers' : Unlike(k, l)
      BY <3>2, <3>5 DEF UniqueInv, Serving
    <3>9. UniqueInv'
      BY <3>1, <3>2, <3>6, <3>7, <3>8, SMT DEF UniqueInv, Unlike
    <3> QED BY <1>0, <1>1, <3>3, <3>4, <3>9 DEF MsgInv
  <2> QED BY <2>1, <2>3, <2>4
<1> QED BY <1>5, <1>6, <1>7, <1>8 DEF SrvReader

(***************************************************************************)
(* The inductive invariant, and what follows from it.                      *)
(***************************************************************************)
Inv == TInv /\ MapInv /\ MsgInv /\ UniqueInv /\ NoFatal

LEMMA NextInv == Inv /\ [Next]_vars => Inv'
<1> SUFFICES ASSUME Inv, [Next]_vars PROVE Inv'
  OBVIOUS
<1>0. TInv /\ MapInv /\ MsgInv /\ UniqueInv /\ NoFatal
  BY DEF Inv
<1>1. TInv'
  BY <1>0, NextTInv
<1>2. CASE \E c \in Callers : Invoke(c) \/ SendReceive(c)
  <2>1. PICK c \in Callers : Invoke(c) \/ SendReceive(c)
    BY <1>2
  <2>2. fatal' = fatal
    BY <2>1 DEF Invoke, SendReceive, TakeTag, Put, Lock, Write, WriteError
  <2> QED BY <1>0, <1>1, <2>1, <2>2, SendReceiveMap, SendReceiveMsg, SendReceiveUnique DEF Inv, NoFatal
<1>3. CASE Reader
  <2>1. Reading => \A i \in 1..Len(replies) : replies[i].tag \in DOMAIN calls
    BY <1>0 DEF MsgInv, FlightInv, InFlight, Answers, Elements
  <2> QED BY <1>0, <1>1, <1>3, <2>1, ReaderMap, ReaderMsg, SMT DEF Inv, NoFatal
<1>4. CASE Close \/ CloseTrans \/ CloseMap \/ SrvReader \/ Handlers \/ KillServer
  BY <1>0, <1>1, <1>4, ServerMsg, SMT DEF Inv, NoFatal
<1>5. CASE UNCHANGED vars
  <2>1. UNCHANGED <<requests, replies, handlers, served, nextTag, calls, closed, pc, tag, n, reader, fatal>>
    BY <1>5 DEF vars, client, server
  <2>2. Sent' = Sent /\ Serving' = Serving /\ Answers' = Answers /\ InFlight' = InFlight
    BY <2>1 DEF Sent, Serving, Answers, InFlight
  <2>3. MapInv' /\ NoFatal'
    BY <1>0, <2>1 DEF MapInv, Failing, NoFatal
  <2>4. FlightInv'
    BY <1>0, <2>1, <2>2 DEF MsgInv, FlightInv, Written, Reading, IdOf
  <2>5. ServedInv' /\ HandedInv'
    BY <1>0, <2>1, <2>2 DEF MsgInv, ServedInv, HandedInv, Written, IdOf
  <2>6. UniqueInv'
    BY <1>0, <2>1, <2>2, SMT DEF UniqueInv, Unlike
  <2> QED BY <1>1, <2>3, <2>4, <2>5, <2>6 DEF Inv, MsgInv
<1> QED BY <1>2, <1>3, <1>4, <1>5 DEF Next

LEMMA SpecInv == Spec => []Inv
<1>1. Init => Inv
  BY InitTInv, InitInv DEF Inv
<1> QED BY <1>1, NextInv, PTL DEF Spec

\* No caller of SendReceive waits on a channel that nobody will send to,
\* however put, Close and the reader's last round interleave.
THEOREM DemuxForgetsNobody == Spec => []NobodyForgotten
<1>1. Inv => NobodyForgotten
  BY DEF Inv, MapInv, NobodyForgotten, Entered, Failing
<1> QED BY <1>1, SpecInv, PTL

\* reply() never takes its log.Fatalf branch, neither for a reply that came
\* over the socket nor for a tag of the list that outstanding() returned.
THEOREM DemuxNeverFatal == Spec => []NoFatal
<1>1. Inv => NoFatal
  BY DEF Inv
<1> QED BY <1>1, SpecInv, PTL

LEMMA InitChannel == Init => Channel!Init
BY SMT DEF Init, Channel!Init, Ids, Channel!Ids, Failure, Channel!NoResult

LEMMA StepChannel == Inv /\ [Next]_vars => [Channel!Next]_Channel!vars
<1> SUFFICES ASSUME Inv, [Next]_vars PROVE [Channel!Next]_Channel!vars
  OBVIOUS
<1> DEFINE W == {c \in Callers : pc[c] # "idle"}
<1>0. CallerType /\ HandType /\ SrvType /\ MsgInv
  BY TParts DEF Inv
<1>1. ASSUME pc' = pc, UNCHANGED <<n, served, result>> PROVE UNCHANGED Channel!vars
  BY <1>1 DEF Channel!vars
<1>2. ASSUME NEW c \in Callers, pc[c] # "idle", NEW l \in Labels \ {"idle"},
             pc' = [pc EXCEPT ![c] = l], UNCHANGED <<n, served, result>>
      PROVE  UNCHANGED Channel!vars
  <2>1. W' = W
    BY <1>0, <1>2 DEF CallerType, Labels
  <2> QED BY <1>2, <2>1 DEF Channel!vars
<1>3. ASSUME NEW c \in Callers, pc[c] # "idle", pc' = [pc EXCEPT ![c] = "idle"]
      PROVE  c \in W /\ W' = W \ {c}
  BY <1>0, <1>3 DEF CallerType
<1>4. ASSUME NEW c \in Callers, Invoke(c) PROVE Channel!Next
  <2>1. /\ pc[c] = "idle" /\ n[c] < MaxCalls /\ n' = [n EXCEPT ![c] = @ + 1]
        /\ pc' = [pc EXCEPT ![c] = "tag"] /\ UNCHANGED <<served, result>>
    BY <1>4 DEF Invoke, Goto, server
  <2>2. c \notin W /\ W' = W \cup {c}
    BY <1>0, <2>1 DEF CallerType
  <2>3. Channel!Invoke(c)
    BY <2>1, <2>2 DEF Channel!Invoke
  <2> QED BY <2>3 DEF Channel!Next
<1>5. ASSUME NEW c \in Callers, SendReceive(c) PROVE [Channel!Next]_Channel!vars
  <2>1. UNCHANGED <<n, served>>
    BY <1>5 DEF SendReceive, TakeTag, Put, Lock, Write, WriteError, server
  <2>2. CASE Put(c) /\ Refuses
    <3>1. /\ pc[c] # "idle" /\ pc' = [pc EXCEPT ![c] = "idle"]
          /\ result' = [result EXCEPT ![c] = Failure]
      BY <2>2 DEF Put, Finish, Goto
    <3>2. c \in W /\ W' = W \ {c}
      BY <1>3, <3>1
    <3>3. Channel!ReturnError(c)
      BY <2>1, <3>1, <3>2 DEF Channel!ReturnError, Channel!NoResult, Failure
    <3> QED BY <3>3 DEF Channel!Next
  <2>3. CASE ~(Put(c) /\ Refuses)
    <3>1. pc[c] # "idle" /\ result' = result
      BY <1>5, <2>3 DEF SendReceive, TakeTag, Put, Lock, Write, WriteError
    <3>2. PICK l \in {"put", "lock", "write", "wait"} : pc' = [pc EXCEPT ![c] = l]
      BY <1>5, <2>3 DEF SendReceive, TakeTag, Put, Lock, Write, WriteError, Goto
    <3>3. l \in Labels \ {"idle"}
      BY DEF Labels
    <3> HIDE DEF W
    <3> QED BY <1>2, <2>1, <3>1, <3>2, <3>3
  <2> QED BY <2>2, <2>3
<1>6. ASSUME Reader PROVE [Channel!Next]_Channel!vars
  <2>1. CASE Deliver
    <3>0. PICK c \in Callers : c = reader.ch
      BY <1>0, <2>1 DEF Deliver, HandType
    <3>1. /\ c = reader.ch /\ reader.st = "deliver" /\ pc[c] # "idle"
          /\ pc' = [pc EXCEPT ![c] = "idle"] /\ result' = [result EXCEPT ![c] = reader.rep]
          /\ UNCHANGED <<n, served>>
      BY <3>0, <2>1 DEF Deliver, Finish, Goto, server
    <3>2. c \in W /\ W' = W \ {c}
      BY <1>3, <3>1
    <3>3. reader.rep \in Result
      BY <1>0 DEF HandType, ReaderType
    <3>4. CASE reader.rep = Failure
      <4>1. Channel!ReturnError(c)
        BY <3>1, <3>2, <3>4 DEF Channel!ReturnError, Channel!NoResult, Failure
      <4> QED BY <3>1, <4>1 DEF Channel!Next
    <3>5. CASE reader.rep \in [ok : {TRUE}, id : Ids]
      <4>1. reader.rep.ok /\ reader.rep = [ok |-> TRUE, id |-> reader.rep.id]
        BY ONLY <3>5
      <4>2. reader.rep.id = <<c, n[c]>> /\ served[<<c, n[c]>>] = 1
        BY <1>0, <3>1, <4>1 DEF MsgInv, HandedInv, IdOf
      <4>3. result' = [result EXCEPT ![c] = [ok |-> TRUE, id |-> <<c, n[c]>>]]
        BY ONLY <3>1, <4>1, <4>2
      <4>4. Channel!ReturnReply(c)
        BY <3>1, <3>2, <4>2, <4>3 DEF Channel!ReturnReply
      <4> QED BY <3>1, <4>4 DEF Channel!Next
    <3> QED BY <3>3, <3>4, <3>5 DEF Result
  <2>2. CASE ~Deliver
    <3>1. pc' = pc /\ UNCHANGED <<n, served, result>>
      BY <1>6, <2>2 DEF Reader, Read, ReadError, Outstanding, Drain, ReplyTo, client, server
    <3> QED BY <1>1, <3>1
  <2> QED BY <2>1, <2>2
<1>7. ASSUME Handlers PROVE [Channel!Next]_Channel!vars
  <2>1. PICK h \in handlers : ServeRequest(h) \/ WriteReply(h)
    BY <1>7 DEF Handlers
  <2>2. CASE ServeRequest(h)
    <3> DEFINE id == h.msg.id
    <3>1. ~h.done /\ served' = [served EXCEPT ![id] = @ + 1] /\ UNCHANGED <<pc, n, result>>
      BY <2>2 DEF ServeRequest, client
    <3>2. id \in Ids /\ h.msg \in InFlight
      BY <1>0 DEF SrvType, Msg, InFlight, Serving
    <3>3. served[id] = 0 /\ id[2] <= n[id[1]]
      <4>1. served[id] = 0 /\ Written(id)
        BY <1>0, <3>1, <3>2 DEF MsgInv, ServedInv, FlightInv
      <4>2. id[1] \in Callers /\ id[2] \in Nat /\ n[id[1]] \in Nat
        BY <1>0, <3>2, SMT DEF Ids, CallerType
      <4> QED BY <4>1, <4>2, SMT DEF Written
    <3>4. served' = [served EXCEPT ![id] = 1] /\ W' = W
      <4> HIDE DEF id
      <4> QED BY ONLY <3>1, <3>3, SMT
    <3> HIDE DEF id, W
    <3>5. id \in Channel!Ids
      BY <3>2 DEF Channel!Ids, Ids
    <3>6. Channel!Serve(id)
      BY <3>1, <3>3, <3>4 DEF Channel!Serve, W
    <3> QED BY <3>5, <3>6 DEF Channel!Next
  <2>3. CASE WriteReply(h)
    <3>1. pc' = pc /\ UNCHANGED <<n, served, result>>
      BY <2>3 DEF WriteReply, client
    <3> QED BY <1>1, <3>1
  <2> QED BY <2>1, <2>2, <2>3
<1>8. ASSUME Close \/ CloseTrans \/ CloseMap \/ SrvReader \/ KillServer \/ UNCHANGED vars
      PROVE  UNCHANGED Channel!vars
  <2>1. pc' = pc /\ UNCHANGED <<n, served, result>>
    BY <1>8 DEF Close, CloseTrans, CloseMap, SrvReader, SrvRead, SrvReadError, KillServer, vars,
                client, server
  <2> QED BY <1>1, <2>1
<1> QED BY <1>4, <1>5, <1>6, <1>7, <1>8 DEF Next

\* A call returns the server's reply to this very call or an error, and the
\* server serves it at most once: the tags, the callmap and the two sockets
\* implement RpcChannel.
THEOREM DemuxImplementsChannel == Spec => ImplementsChannel
BY InitChannel, StepChannel, SpecInv, PTL DEF Spec, ImplementsChannel, Channel!Spec
=============================================================================
