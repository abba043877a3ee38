-------------------------------- MODULE Demux --------------------------------
(***************************************************************************)
(* The demux package under the socket RPCs of tester and daemons: callers  *)
(* share one connection, a tag matches each reply with its request         *)
(* (dmxclnt.go, callmap.go), and the server answers out of order from one  *)
(* goroutine per request (dmxsrv.go).  The connection is closed by Close,  *)
(* or because the server's process is killed.                              *)
(*                                                                         *)
(* WriteCall frames a message under the lock of its side, so the socket is *)
(* two bounded sequences of messages: a writer blocks while the peer's     *)
(* buffer is full (transport.go).                                          *)
(***************************************************************************)
EXTENDS Naturals, FiniteSets, Sequences

CONSTANTS
  Callers,    \* goroutines that call RPCClnt.RPC
  MaxCalls,   \* bound: calls per caller
  BufLen      \* messages that fit into the socket in one direction

ASSUME DemuxAssumption == MaxCalls \in Nat /\ BufLen \in Nat \ {0}

VARIABLES
  nextTag,    \* DemuxClnt.nextTag
  mu,         \* the caller that holds DemuxClnt.mu over WriteCall, or "free"
  calls,      \* callMap.calls: the caller whose channel waits for a tag
  closed,     \* callMap.closed
  pc,         \* where each caller is in SendReceive
  tag,        \* the tag of its call
  reader,     \* the client's reader goroutine
  closing,    \* where Close is
  requests,   \* the socket, towards the server
  replies,    \* the socket, towards the client
  open,       \* the client has not closed its connection
  srv,        \* the server's reader goroutine: "up", "stopped", or "killed"
  handlers,   \* the server's goroutines: messages being served or answered
  fatal,      \* the process has exited in log.Fatalf
  \* History:
  n,          \* n[c]: number of c's current or last call
  served,     \* how often ServeRequest has run for a call
  result      \* what each caller's last call returned

client == <<nextTag, mu, calls, closed, pc, tag, n, result>>
server == <<srv, handlers, served>>
vars == <<client, reader, closing, requests, replies, open, server, fatal>>

(***************************************************************************)
(* Types.  A message carries a tag and a call, which stands for the bytes  *)
(* of the request and for those of the reply computed from it.             *)
(***************************************************************************)
Ids == Callers \X (1..MaxCalls)
Msg == [tag : Nat, id : Ids]
Failure == [ok |-> FALSE, id |-> <<>>]
Result == {Failure} \cup [ok : {TRUE}, id : Ids]
IdOf(c) == <<c, n[c]>>

TypeOK ==
  /\ nextTag \in Nat /\ mu \in Callers \cup {"free"}
  /\ DOMAIN calls \subseteq 1..(nextTag - 1) /\ \A t \in DOMAIN calls : calls[t] \in Callers
  /\ closed \in BOOLEAN /\ open \in BOOLEAN /\ fatal \in BOOLEAN
  /\ pc \in [Callers -> {"idle", "tag", "put", "lock", "write", "wait"}]
  /\ tag \in [Callers -> Nat]
  /\ reader \in [st : {"read", "deliver", "list", "drain", "done"}, ch : Callers \cup {"none"},
                 rep : Result, out : SUBSET Nat]
  /\ closing \in {"no", "trans", "map", "closed"}
  /\ requests \in Seq(Msg) /\ Len(requests) <= BufLen
  /\ replies \in Seq(Msg) /\ Len(replies) <= BufLen
  /\ srv \in {"up", "stopped", "killed"}
  /\ handlers \subseteq [msg : Msg, done : BOOLEAN]
  /\ n \in [Callers -> 0..MaxCalls] /\ served \in [Ids -> Nat]
  /\ result \in [Callers -> Result]

\* NewDemuxClnt has sent the InitMsg, under tag 0, and NewDemuxSrv read it.
Init ==
  /\ nextTag = 1 /\ mu = "free" /\ calls = <<>> /\ closed = FALSE
  /\ pc = [c \in Callers |-> "idle"] /\ tag = [c \in Callers |-> 0]
  /\ reader = [st |-> "read", ch |-> "none", rep |-> Failure, out |-> {}]
  /\ closing = "no" /\ requests = <<>> /\ replies = <<>> /\ open = TRUE
  /\ srv = "up" /\ handlers = {} /\ fatal = FALSE
  /\ n = [c \in Callers |-> 0] /\ served = [id \in Ids |-> 0] /\ result = [c \in Callers |-> Failure]

Goto(c, label) == pc' = [pc EXCEPT ![c] = label]
RemoveTag(t) == [u \in DOMAIN calls \ {t} |-> calls[u]]

(***************************************************************************)
(* SendReceive.                                                            *)
(***************************************************************************)
Invoke(c) ==
  /\ pc[c] = "idle" /\ n[c] < MaxCalls
  /\ n' = [n EXCEPT ![c] = @ + 1]
  /\ Goto(c, "tag")
  /\ UNCHANGED <<nextTag, mu, calls, closed, tag, result, reader, closing, requests, replies,
                 open, server, fatal>>

Taken == nextTag

\* tag() locks mu, too: nobody gets a tag while a request is written.
TakeTag(c) ==
  /\ pc[c] = "tag" /\ mu = "free"
  /\ tag' = [tag EXCEPT ![c] = Taken]
  /\ nextTag' = nextTag + 1
  /\ Goto(c, "put")
  /\ UNCHANGED <<mu, calls, closed, n, result, reader, closing, requests, replies, open, server,
                 fatal>>

Finish(c, res) ==
  /\ Goto(c, "idle")
  /\ result' = [result EXCEPT ![c] = res]

\* Mutant: put does not look at closed.
RefusesNothing == FALSE

Refuses == closed

Put(c) ==
  /\ pc[c] = "put"
  /\ IF Refuses
     THEN Finish(c, Failure) /\ UNCHANGED calls
     ELSE /\ calls' = [t \in DOMAIN calls \cup {tag[c]} |-> IF t = tag[c] THEN c ELSE calls[t]]
          /\ Goto(c, "lock") /\ UNCHANGED result
  /\ UNCHANGED <<nextTag, mu, closed, tag, n, reader, closing, requests, replies, open, server,
                 fatal>>

Lock(c) ==
  /\ pc[c] = "lock" /\ mu = "free"
  /\ mu' = c
  /\ Goto(c, "write")
  /\ UNCHANGED <<nextTag, calls, closed, tag, n, result, reader, closing, requests, replies, open,
                 server, fatal>>

Write(c) ==
  /\ pc[c] = "write" /\ open /\ srv # "killed" /\ Len(requests) < BufLen
  /\ requests' = Append(requests, [tag |-> tag[c], id |-> IdOf(c)])
  /\ mu' = "free"
  /\ Goto(c, "wait")
  /\ UNCHANGED <<nextTag, calls, closed, tag, n, result, reader, closing, replies, open, server,
                 fatal>>

\* Mutant: the caller returns at once when its request cannot be written.
WriteErrorReturns(c) ==
  /\ pc[c] = "write" /\ (~open \/ srv = "killed")
  /\ mu' = "free"
  /\ Finish(c, Failure)
  /\ UNCHANGED <<nextTag, calls, closed, tag, n, reader, closing, requests, replies, open,
                 server, fatal>>

\* The error is ignored: the reader will answer.
WriteError(c) ==
  /\ pc[c] = "write" /\ (~open \/ srv = "killed")
  /\ mu' = "free"
  /\ Goto(c, "wait")
  /\ UNCHANGED <<nextTag, calls, closed, tag, n, result, reader, closing, requests, replies, open,
                 server, fatal>>

(***************************************************************************)
(* The client's reader.                                                    *)
(***************************************************************************)
\* reply(t, ...): take t's channel out of the callmap, or log.Fatalf.
ReplyTo(t, rep, out) ==
  /\ IF t \in DOMAIN calls
     THEN /\ reader' = [st |-> "deliver", ch |-> calls[t], rep |-> rep, out |-> out]
          /\ calls' = RemoveTag(t) /\ UNCHANGED fatal
     ELSE fatal' = TRUE /\ UNCHANGED <<calls, reader>>
  /\ UNCHANGED <<nextTag, mu, pc, tag, n, result, closing, requests, open, server>>

\* What rdr has buffered is read even when the connection is closed by now.
Read ==
  /\ reader.st = "read" /\ replies # <<>>
  /\ ReplyTo(Head(replies).tag, [ok |-> TRUE, id |-> Head(replies).id], {})
  /\ replies' = Tail(replies)
  /\ UNCHANGED closed

ReadError ==
  /\ reader.st = "read"
  /\ ~open \/ (srv = "killed" /\ replies = <<>>)
  /\ closed' = TRUE
  /\ reader' = [reader EXCEPT !.st = "list"]
  /\ UNCHANGED <<nextTag, mu, calls, pc, tag, n, result, closing, requests, replies, open, server,
                 fatal>>

Outstanding ==
  /\ reader.st = "list"
  /\ reader' = [reader EXCEPT !.st = "drain", !.out = DOMAIN calls]
  /\ UNCHANGED <<client, closing, requests, replies, open, server, fatal>>

Drain ==
  /\ reader.st = "drain"
  /\ IF reader.out = {}
     THEN /\ reader' = [reader EXCEPT !.st = "done"]
          /\ UNCHANGED <<client, closing, requests, open, server, fatal>>
     ELSE \E t \in reader.out : ReplyTo(t, Failure, reader.out \ {t}) /\ UNCHANGED closed
  /\ UNCHANGED replies

\* ch <- reply meets rep := <-ch.
Deliver ==
  /\ reader.st = "deliver" /\ pc[reader.ch] = "wait"
  /\ Finish(reader.ch, reader.rep)
  /\ reader' = [st |-> IF reader.rep.ok THEN "read" ELSE "drain",
                ch |-> "none", rep |-> Failure, out |-> reader.out]
  /\ UNCHANGED <<nextTag, mu, calls, closed, tag, n, closing, requests, replies, open, server,
                 fatal>>

(***************************************************************************)
(* Close, which CheckpointPersister calls while callers wait.              *)
(***************************************************************************)
Close ==
  /\ closing = "no"
  /\ closing' = IF closed THEN "closed" ELSE "trans"
  /\ UNCHANGED <<client, reader, requests, replies, open, server, fatal>>

CloseTrans ==
  /\ closing = "trans"
  /\ closing' = "map"
  /\ open' = FALSE
  /\ UNCHANGED <<client, reader, requests, replies, server, fatal>>

CloseMap ==
  /\ closing = "map"
  /\ closing' = "closed"
  /\ closed' = TRUE
  /\ UNCHANGED <<nextTag, mu, calls, pc, tag, n, result, reader, requests, replies, open, server,
                 fatal>>

(***************************************************************************)
(* The server.                                                             *)
(***************************************************************************)
SrvRead ==
  /\ srv = "up" /\ requests # <<>>
  /\ handlers' = handlers \cup {[msg |-> Head(requests), done |-> FALSE]}
  /\ requests' = Tail(requests)
  /\ UNCHANGED <<client, reader, closing, replies, open, srv, served, fatal>>

\* EOF, or an error when the client closed with replies unread.
SrvReadError ==
  /\ srv = "up" /\ ~open
  /\ requests = <<>> \/ replies # <<>>
  /\ srv' = "stopped"
  /\ UNCHANGED <<client, reader, closing, requests, replies, open, handlers, served, fatal>>

ServeRequest(h) ==
  /\ ~h.done
  /\ handlers' = (handlers \ {h}) \cup {[h EXCEPT !.done = TRUE]}
  /\ served' = [served EXCEPT ![h.msg.id] = @ + 1]
  /\ UNCHANGED <<client, reader, closing, requests, replies, open, srv, fatal>>

\* Mutant: the reply goes out under the tag of another request in progress.
ReplyMsgMixed(h) == [h.msg EXCEPT !.tag = (CHOOSE g \in handlers : TRUE).msg.tag]

ReplyMsg(h) == h.msg

\* WriteCall blocks, with DemuxSrv.mu, until the reply fits or fails.
WriteReply(h) ==
  /\ h.done
  /\ IF open THEN Len(replies) < BufLen /\ replies' = Append(replies, ReplyMsg(h))
     ELSE UNCHANGED replies
  /\ handlers' = handlers \ {h}
  /\ UNCHANGED <<client, reader, closing, requests, open, srv, served, fatal>>

\* The tester kills the daemon.
KillServer ==
  /\ srv # "killed"
  /\ srv' = "killed"
  /\ handlers' = {} /\ requests' = <<>>
  /\ UNCHANGED <<client, reader, closing, replies, open, served, fatal>>

SendReceive(c) == TakeTag(c) \/ Put(c) \/ Lock(c) \/ Write(c) \/ WriteError(c)
Reader == Read \/ ReadError \/ Outstanding \/ Drain \/ Deliver
SrvReader == SrvRead \/ SrvReadError
Handlers == \E h \in handlers : ServeRequest(h) \/ WriteReply(h)

Next ==
  /\ ~fatal
  /\ \/ \E c \in Callers : Invoke(c) \/ SendReceive(c)
     \/ Reader \/ Close \/ CloseTrans \/ CloseMap
     \/ SrvReader \/ Handlers \/ KillServer

Spec == Init /\ [][Next]_vars

\* Goroutines run, and the handlers of the server return.  Nobody need close
\* the connection or kill the server.
FairSpec ==
  /\ Spec
  /\ \A c \in Callers : WF_vars(SendReceive(c))
  /\ WF_vars(Reader) /\ WF_vars(CloseTrans \/ CloseMap)
  /\ WF_vars(SrvReader) /\ WF_vars(Handlers)

(***************************************************************************)
(* Properties.                                                             *)
(***************************************************************************)
\* The channel of an outstanding call is in the callmap, or in the reader's
\* hands, or the call is not entered yet: no caller waits on a channel that
\* nobody will send to (SendReceive, callMap.put, reader).
NobodyForgotten ==
  \A c \in Callers :
    pc[c] \in {"lock", "write", "wait"} =>
      \/ reader.st = "deliver" /\ reader.ch = c
      \/ /\ tag[c] \in DOMAIN calls /\ calls[tag[c]] = c
         /\ reader.st # "done"
         /\ reader.st = "drain" => tag[c] \in reader.out

\* However calls, Close and the end of the server's process interleave, every
\* call of SendReceive returns.
CallersReturn == \A c \in Callers : pc[c] # "idle" ~> pc[c] = "idle"

Channel == INSTANCE RpcChannel WITH waiting <- {c \in Callers : pc[c] # "idle"}

\* The callers see what RpcChannel promises: a call returns the reply to this
\* very call or an error, and the server serves it at most once.
ImplementsChannel == Channel!Spec

=============================================================================
