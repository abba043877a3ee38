--------------------------- MODULE KVServiceProofs ---------------------------
(***************************************************************************)
(* KVService implements VersionedKV, for any number of Clerks, keys,       *)
(* values and calls, as long as no Clerk both loses its connection while a *)
(* handler runs and names versions the server never had.                   *)
(***************************************************************************)
EXTENDS KVService, TLAPS

USE KVServiceAssumption, Zenon

CallType == GetCall \cup PutCall
RpcType == [st : {"none", "accepted", "running", "replied", "sent"}, reply : Reply]

LEMMA CallTypes ==
  /\ NoCall \notin CallType
  /\ NoCall.op = "none"
  /\ \A cl \in GetCall : cl.op = "Get" /\ cl.key \in Keys
  /\ \A cl \in PutCall : cl.op = "Put" /\ cl.key \in Keys /\ cl.value \in Values /\ cl.version \in Nat
BY DEF NoCall, CallType, GetCall, PutCall

LEMMA ReplyTypes ==
  /\ \A err \in Errs : ErrReply(err) \in Reply
  /\ NoReply \in Reply /\ NoRpc \in RpcType
  /\ \A e \in Entry \cup {NoEntry} : GetReply(e) \in Reply
<1>1. \A err \in Errs : ErrReply(err) \in Reply
  BY DEF ErrReply, Reply
<1>2. NoReply \in Reply /\ NoRpc \in RpcType
  BY <1>1 DEF NoReply, NoRpc, RpcType, Errs
<1>3. \A e \in Entry \cup {NoEntry} : GetReply(e) \in Reply
  BY <1>1 DEF GetReply, Entry, Reply, Errs
<1> QED BY <1>1, <1>2, <1>3

LEMMA PutTypes ==
  ASSUME NEW e \in Entry \cup {NoEntry}, NEW version \in Nat, NEW value \in Values
  PROVE  /\ PutErr(e, version) \in {"OK", "ErrVersion", "ErrNoKey"}
         /\ PutEntry(e, value) \in Entry /\ Version(e) \in Nat
         /\ PutErr(e, version) = "OK" <=> Version(e) = version
         /\ PutErr(e, version) = "ErrNoKey" <=> e = NoEntry /\ version # 0
         /\ Version(PutEntry(e, value)) = Version(e) + 1 /\ PutEntry(e, value) # NoEntry
<1>1. CASE e = NoEntry
  <2>1. PutEntry(e, value) \in Entry /\ PutEntry(e, value) # NoEntry /\ PutEntry(e, value).version = 1
    BY <1>1, SMT DEF PutEntry, Entry
  <2> QED BY <1>1, <2>1, SMT DEF PutErr, Version
<1>2. CASE e \in Entry /\ e # NoEntry
  <2>1. /\ PutEntry(e, value) \in Entry /\ PutEntry(e, value) # NoEntry
        /\ PutEntry(e, value).version = e.version + 1 /\ e.version \in Nat
    BY <1>2, SMT DEF PutEntry, Entry
  <2> QED BY <1>2, <2>1 DEF PutErr, Version
<1> QED BY <1>1, <1>2

LEMMA InitType == Init => TypeOK
<1> SUFFICES ASSUME Init PROVE TypeOK
  OBVIOUS
<1>1. opQ \in Seq(Handler) /\ Len(opQ) = 0 /\ handlers \in Seq(Handler) /\ Len(handlers) = 0
  BY SMT DEF Init
<1>2. enabled \in [Clients -> BOOLEAN]
  BY DEF Init
<1>3. /\ kv \in [Keys -> Entry \cup {NoEntry}] /\ call \in [Clients -> CallType \cup {NoCall}]
      /\ i \in [Clients -> 0..2] /\ n \in [Clients -> 0..MaxOps]
  BY SMT DEF Init
<1>4. rpc \in [Clients -> RpcType] /\ out \in [Clients -> Reply] /\ answer \in [Clients -> Reply]
  BY ReplyTypes DEF Init
<1>5. log \in [Keys -> Seq(CallId)]
  BY SMT DEF Init
<1> QED BY <1>1, <1>2, <1>3, <1>4, <1>5, SMT DEF TypeOK, CallType, RpcType

\* What Enqueue leaves of handlers.
RemoveAt(s, j) == SubSeq(s, 1, j - 1) \o SubSeq(s, j + 1, Len(s))

\* RemoveAt keeps the other elements, in their order.
LEMMA RemoveAtSeq ==
  ASSUME NEW S, NEW s \in Seq(S), NEW j \in 1..Len(s)
  PROVE  /\ RemoveAt(s, j) \in Seq(S) /\ Len(RemoveAt(s, j)) = Len(s) - 1
         /\ \A k \in 1..(Len(s) - 1) : RemoveAt(s, j)[k] = s[IF k < j THEN k ELSE k + 1]
<1> DEFINE a == SubSeq(s, 1, j - 1)
           b == SubSeq(s, j + 1, Len(s))
<1>1. a \in Seq(S) /\ Len(a) = j - 1 /\ \A k \in 1..(j - 1) : a[k] = s[k]
  BY SMT
<1>2. b \in Seq(S) /\ Len(b) = Len(s) - j /\ \A k \in 1..(Len(s) - j) : b[k] = s[k + j]
  BY SMT
<1> HIDE DEF a, b
<1>3. /\ a \o b \in Seq(S) /\ Len(a \o b) = Len(a) + Len(b)
      /\ \A k \in 1..(Len(a) + Len(b)) : (a \o b)[k] = IF k <= Len(a) THEN a[k] ELSE b[k - Len(a)]
  <2>1. a \in Seq(S) /\ b \in Seq(S)
    BY <1>1, <1>2
  <2> QED BY ONLY <2>1, SMT
<1>4. \A k \in 1..(Len(s) - 1) : (a \o b)[k] = s[IF k < j THEN k ELSE k + 1]
  <2> SUFFICES ASSUME NEW k \in 1..(Len(s) - 1) PROVE (a \o b)[k] = s[IF k < j THEN k ELSE k + 1]
    OBVIOUS
  <2>1. k \in 1..(Len(a) + Len(b)) /\ Len(s) \in Nat
    BY <1>1, <1>2, SMT
  <2>2. (a \o b)[k] = IF k <= j - 1 THEN a[k] ELSE b[k - (j - 1)]
    BY <1>1, <1>3, <2>1
  <2>3. CASE k < j
    BY <1>1, <2>2, <2>3, SMT
  <2>4. CASE k >= j
    <3>1. k - (j - 1) \in 1..(Len(s) - j)
      BY <2>1, <2>4, SMT
    <3> QED BY <1>2, <2>2, <2>4, <3>1, SMT
  <2> QED BY <2>1, <2>3, <2>4, SMT
<1>5. RemoveAt(s, j) = a \o b
  BY DEF RemoveAt, a, b
<1>6. Len(a) + Len(b) = Len(s) - 1
  BY <1>1, <1>2, SMT
<1> QED BY <1>3, <1>4, <1>5, <1>6

LEMMA SetSt ==
  ASSUME NEW r \in [Clients -> RpcType], NEW c \in Clients,
         NEW st \in {"none", "accepted", "running", "replied", "sent"}
  PROVE  /\ [r EXCEPT ![c].st = st] \in [Clients -> RpcType]
         /\ [r EXCEPT ![c].st = st][c].st = st /\ [r EXCEPT ![c].st = st][c].reply = r[c].reply
         /\ \A d \in Clients \ {c} : [r EXCEPT ![c].st = st][d] = r[d]
<1>1. r[c] \in RpcType
  OBVIOUS
<1> DEFINE x == [r[c] EXCEPT !.st = st]
<1>2. x \in RpcType /\ x.st = st /\ x.reply = r[c].reply
  BY <1>1 DEF RpcType
<1>3. [r EXCEPT ![c].st = st] = [r EXCEPT ![c] = x]
  OBVIOUS
<1> HIDE DEF x
<1> QED BY <1>2, <1>3

LEMMA ClerkType ==
  ASSUME TypeOK, NEW c \in Clients,
         \/ Get(c) \/ Put(c) \/ Send(c) \/ SendDisabled(c) \/ DropRequest(c) \/ LoseReply(c)
         \/ SendReply(c) \/ Disconnect(c) \/ Connect(c) \/ Deliver(c)
  PROVE  TypeOK'
<1>1. CASE Get(c) \/ Put(c)
  <2>1. PICK op \in CallType : Invoke(c, op)
    <3>1. CASE Get(c)
      BY <3>1 DEF Get, CallType, GetCall
    <3>2. CASE Put(c)
      <4>1. PICK k \in Keys, value \in Values \ {EmptyValue} :
              \E version \in 0..(IF AnyVersion THEN MaxVersion ELSE Version(kv[k])) :
                Invoke(c, [op |-> "Put", key |-> k, value |-> value, version |-> version])
        BY <3>2 DEF Put
      <4>2. PICK version \in 0..(IF AnyVersion THEN MaxVersion ELSE Version(kv[k])) :
              Invoke(c, [op |-> "Put", key |-> k, value |-> value, version |-> version])
        BY <4>1
      <4>3. version \in Nat
        BY <4>2, SMT
      <4>4. [op |-> "Put", key |-> k, value |-> value, version |-> version] \in CallType
        BY <4>3 DEF CallType, PutCall
      <4> QED BY <4>2, <4>4
    <3> QED BY <1>1, <3>1, <3>2
  <2>2. call' \in [Clients -> CallType \cup {NoCall}] /\ i' \in [Clients -> 0..2]
    BY <2>1, SMT DEF Invoke, TypeOK, CallType
  <2>3. out' \in [Clients -> Reply]
    BY <2>1, ReplyTypes DEF Invoke, TypeOK
  <2>4. n' \in [Clients -> 0..MaxOps]
    BY <2>1, SMT DEF Invoke, TypeOK
  <2> QED BY <2>1, <2>2, <2>3, <2>4 DEF Invoke, TypeOK, CallType
<1>2. CASE Send(c) \/ SendDisabled(c)
  <2>1. i' \in [Clients -> 0..2]
    <3>1. i \in [Clients -> 0..2] /\ (IF i[c] = 2 THEN 2 ELSE i[c] + 1) \in 0..2
      <4>1. i \in [Clients -> 0..2] /\ i[c] \in 0..2
        BY DEF TypeOK
      <4> QED BY ONLY <4>1, SMT
    <3>2. i' = [i EXCEPT ![c] = IF i[c] = 2 THEN 2 ELSE i[c] + 1]
      BY <1>2 DEF Send, SendDisabled, CountAttempt
    <3> QED BY <3>1, <3>2
  <2>2. rpc' = rpc \/ rpc' = [rpc EXCEPT ![c].st = "accepted"]
    BY <1>2 DEF Send, SendDisabled
  <2>3. rpc' \in [Clients -> RpcType]
    <3>1. rpc \in [Clients -> RpcType]
      BY DEF TypeOK, RpcType
    <3>2. [rpc EXCEPT ![c].st = "accepted"] \in [Clients -> RpcType]
      BY <3>1, SetSt
    <3> QED BY <2>2, <3>1, <3>2
  <2> QED BY <1>2, <2>1, <2>3 DEF Send, SendDisabled, TypeOK, RpcType
<1>3. CASE DropRequest(c) \/ LoseReply(c)
  <2>1. rpc' \in [Clients -> RpcType]
    BY <1>3, ReplyTypes DEF DropRequest, LoseReply, CallFails, TypeOK, RpcType
  <2> QED BY <1>3, <2>1 DEF DropRequest, LoseReply, TypeOK, RpcType
<1>4. CASE SendReply(c)
  <2>1. rpc' \in [Clients -> RpcType]
    <3>1. rpc \in [Clients -> RpcType]
      BY DEF TypeOK, RpcType
    <3> QED BY <1>4, <3>1, SetSt DEF SendReply
  <2> QED BY <1>4, <2>1 DEF SendReply, TypeOK, RpcType
<1>5. CASE Disconnect(c) \/ Connect(c)
  <2>1. enabled' \in [Clients -> BOOLEAN]
    BY <1>5 DEF Disconnect, Connect, TypeOK
  <2> QED BY <1>5, <2>1 DEF Disconnect, Connect, TypeOK
<1>6. CASE Deliver(c)
  <2>1. rpc[c].reply \in Reply /\ ClerkErr(c, rpc[c].reply.err) \in Errs
    BY DEF TypeOK, Reply, ClerkErr, Errs
  <2>2. out' \in [Clients -> Reply]
    BY <1>6, <2>1 DEF Deliver, TypeOK, Reply
  <2>3. /\ rpc' \in [Clients -> RpcType] /\ answer' \in [Clients -> Reply]
    BY <1>6, ReplyTypes DEF Deliver, TypeOK, RpcType
  <2>4. call' \in [Clients -> CallType \cup {NoCall}]
    BY <1>6 DEF Deliver, TypeOK, CallType
  <2> QED BY <1>6, <2>2, <2>3, <2>4 DEF Deliver, TypeOK, RpcType, CallType
<1> QED BY <1>1, <1>2, <1>3, <1>4, <1>5, <1>6

LEMMA HandlerType ==
  ASSUME TypeOK, \A c \in Clients : rpc[c].st # "none" => call[c] # NoCall,
         (\E c \in Clients : Dispatch(c) \/ Abandon(c)) \/ Enqueue
  PROVE  TypeOK'
<1>1. ASSUME NEW c \in Clients, Dispatch(c) PROVE TypeOK'
  <2> DEFINE h == [id |-> [clnt |-> c, n |-> n[c]], live |-> TRUE, call |-> call[c]]
  <2>1. call[c] \in CallType /\ n[c] \in Nat
    BY <1>1, SMT DEF Dispatch, TypeOK, CallType
  <2>2. h \in Handler
    BY <2>1 DEF Handler, CallId, CallType
  <2>3. handlers' = Append(handlers, h) /\ rpc' = [rpc EXCEPT ![c].st = "running"]
        /\ Len(handlers) < MaxHandlers
    BY <1>1 DEF Dispatch
  <2> HIDE DEF h
  <2>4. handlers' \in Seq(Handler) /\ Len(handlers') <= MaxHandlers
    BY <2>2, <2>3, SMT DEF TypeOK
  <2>5. rpc' \in [Clients -> RpcType]
    <3>1. rpc \in [Clients -> RpcType]
      BY DEF TypeOK, RpcType
    <3> QED BY <2>3, <3>1, SetSt
  <2> QED BY <1>1, <2>4, <2>5 DEF Dispatch, TypeOK, RpcType
<1>2. ASSUME NEW c \in Clients, Abandon(c) PROVE TypeOK'
  <2>1. ASSUME NEW s \in Seq(Handler)
        PROVE  Disown(c, s) \in Seq(Handler) /\ Len(Disown(c, s)) = Len(s)
    <3>1. DOMAIN s = 1..Len(s) /\ Len(s) \in Nat /\ \A j \in 1..Len(s) : s[j] \in Handler
      BY SMT
    <3>2. \A j \in 1..Len(s) : [s[j] EXCEPT !.live = FALSE] \in Handler
      BY <3>1 DEF Handler
    <3>3. Disown(c, s) \in [1..Len(s) -> Handler]
      BY <3>1, <3>2 DEF Disown
    <3> QED BY <3>1, <3>3, SMT
  <2>2. /\ handlers' \in Seq(Handler) /\ Len(handlers') <= MaxHandlers
        /\ opQ' \in Seq(Handler) /\ Len(opQ') <= QueueCap
    BY <1>2, <2>1 DEF Abandon, TypeOK
  <2>3. rpc' \in [Clients -> RpcType]
    BY <1>2, ReplyTypes DEF Abandon, CallFails, TypeOK, RpcType
  <2> QED BY <1>2, <2>2, <2>3 DEF Abandon, TypeOK, RpcType
<1>3. ASSUME Enqueue PROVE TypeOK'
  <2>1. PICK j \in DOMAIN handlers :
          /\ Len(opQ) < QueueCap /\ opQ' = Append(opQ, handlers[j]) /\ handlers' = RemoveAt(handlers, j)
    BY <1>3 DEF Enqueue, RemoveAt
  <2>2. handlers \in Seq(Handler) /\ j \in 1..Len(handlers) /\ handlers[j] \in Handler
    BY SMT DEF TypeOK
  <2>3. opQ' \in Seq(Handler) /\ Len(opQ') <= QueueCap
    BY <2>1, <2>2, SMT DEF TypeOK
  <2>4. handlers' \in Seq(Handler) /\ Len(handlers') <= MaxHandlers
    BY <2>1, <2>2, RemoveAtSeq, SMT DEF TypeOK
  <2> QED BY <1>3, <2>3, <2>4 DEF Enqueue, TypeOK
<1> QED BY <1>1, <1>2, <1>3

LEMMA ServeType == ASSUME TypeOK, ServeGet \/ ServePut PROVE TypeOK'
<1> DEFINE h == Head(opQ)
<1>1. /\ h \in Handler /\ opQ' = Tail(opQ) /\ Tail(opQ) \in Seq(Handler) /\ Len(Tail(opQ)) <= QueueCap
  <2>1. opQ # << >> /\ opQ' = Tail(opQ)
    BY DEF ServeGet, ServePut
  <2>2. opQ \in Seq(Handler) /\ Len(opQ) <= QueueCap
    BY DEF TypeOK
  <2> QED BY <2>1, <2>2, SMT
<1>2. h.id.clnt \in Clients /\ h.id \in CallId /\ h.call \in CallType /\ h.call.key \in Keys
  BY <1>1 DEF Handler, CallId, CallType, GetCall, PutCall
<1>3. kv[h.call.key] \in Entry \cup {NoEntry}
  BY <1>2 DEF TypeOK
<1> HIDE DEF h
<1>4. ASSUME NEW reply \in Reply, Answer(h, reply), Note(h, reply)
      PROVE  rpc' \in [Clients -> RpcType] /\ answer' \in [Clients -> Reply]
  <2>1. rpc' \in [Clients -> RpcType]
    BY <1>2, <1>4 DEF Answer, TypeOK, RpcType
  <2>2. answer' \in [Clients -> Reply]
    BY <1>2, <1>4 DEF Note, TypeOK
  <2> QED BY <2>1, <2>2
<1>5. CASE ServeGet
  <2>1. Answer(h, GetReply(kv[h.call.key])) /\ Note(h, GetReply(kv[h.call.key]))
    BY <1>5 DEF ServeGet, h
  <2>2. rpc' \in [Clients -> RpcType] /\ answer' \in [Clients -> Reply]
    BY <1>3, <1>4, <2>1, ReplyTypes
  <2> QED BY <1>1, <1>5, <2>2 DEF ServeGet, TypeOK, RpcType
<1>6. CASE ServePut
  <2> DEFINE k == h.call.key
             err == PutErr(kv[k], h.call.version)
  <2>1. /\ h.call.op = "Put"
        /\ kv' = IF err = "OK" THEN [kv EXCEPT ![k] = PutEntry(@, h.call.value)] ELSE kv
        /\ log' = IF err = "OK" THEN [log EXCEPT ![k] = Append(@, h.id)] ELSE log
        /\ Answer(h, ErrReply(err)) /\ Note(h, ErrReply(err))
    BY <1>6 DEF ServePut, h
  <2>2. h.call.value \in Values /\ h.call.version \in Nat
    BY <1>2, <2>1 DEF CallType, GetCall, PutCall
  <2>3. err \in Errs /\ PutEntry(kv[k], h.call.value) \in Entry
    BY <1>3, <2>2, PutTypes DEF Errs
  <2> HIDE DEF k, err
  <2>4. rpc' \in [Clients -> RpcType] /\ answer' \in [Clients -> Reply]
    BY <1>4, <2>1, <2>3, ReplyTypes
  <2>5. k \in Keys
    BY <1>2 DEF k
  <2>6. kv' \in [Keys -> Entry \cup {NoEntry}]
    BY <2>1, <2>3, <2>5 DEF TypeOK
  <2>7. log' \in [Keys -> Seq(CallId)]
    BY <1>2, <2>1, <2>5, SMT DEF TypeOK
  <2> QED BY <1>1, <1>6, <2>4, <2>6, <2>7 DEF ServePut, TypeOK, RpcType
<1> QED BY <1>5, <1>6

(***************************************************************************)
(* The invariant.                                                          *)
(***************************************************************************)
Elements(s) == {s[j] : j \in 1..Len(s)}
Waiting == Elements(handlers) \cup Elements(opQ)

\* h belongs to the call its Clerk is in.
Current(h) == h.id.n = n[h.id.clnt] /\ call[h.id.clnt] # NoCall

\* Every handler belongs to a call of its Clerk; the one processReq waits for
\* belongs to the current call.
HandlerInv ==
  \A h \in Waiting :
    /\ h.id.n <= n[h.id.clnt]
    /\ Current(h) => h.call = call[h.id.clnt]
    /\ h.live => Current(h) /\ rpc[h.id.clnt].st = "running"
    /\ Unstable = {} => h.live

Apart(h, g) == h.live /\ g.live => h.id.clnt # g.id.clnt

\* processReq waits for one handler of a Clerk at most.
LiveInv ==
  /\ \A j, k \in 1..Len(opQ) : j # k => Apart(opQ[j], opQ[k])
  /\ \A j, k \in 1..Len(handlers) : j # k => Apart(handlers[j], handlers[k])
  /\ \A h \in Elements(handlers), g \in Elements(opQ) : Apart(h, g)

Performed(c) == Id(c, n[c]) \in Written(call[c].key)

\* A Put that is over, or has been performed, asks for a version that is gone.
StoreInv ==
  /\ \A k \in Keys : kv[k] # NoEntry => kv[k].version # 0
  /\ \A k \in Keys : \A id \in Written(k) : id.n <= n[id.clnt]
  /\ \A h \in Waiting : h.call.op = "Put" /\ ~Current(h) => h.call.version < Version(kv[h.call.key])
  /\ \A c \in Clients : call[c].op = "Put" =>
       /\ Performed(c) => call[c].version < Version(kv[call[c].key])
       /\ ~AnyVersion => call[c].version <= Version(kv[call[c].key])

NoneOf(c) == \A h \in Waiting : Current(h) => h.id.clnt # c
AllLive(c) == \A h \in Waiting : Current(h) /\ h.id.clnt = c => h.live

\* What the reply on its way to a Clerk says of its call.
ReplyInv(c) ==
  LET reply == rpc[c].reply IN
  /\ call[c].op = "Get" => reply = answer[c] /\ reply.err \in {"OK", "ErrNoKey"}
  /\ call[c].op = "Put" =>
       /\ reply.err \in {"OK", "ErrVersion", "ErrNoKey"} /\ reply = ErrReply(reply.err)
       /\ reply.err = "OK" => Performed(c)
       /\ reply.err # "OK" => answer[c] = reply
       /\ reply.err = "ErrVersion" /\ i[c] # 2 => ~Performed(c) /\ NoneOf(c)
       /\ reply.err = "ErrVersion" /\ ~AnyVersion => call[c].version < Version(kv[call[c].key])
       /\ reply.err = "ErrNoKey" => ~Performed(c) /\ NoneOf(c) /\ AnyVersion

\* The first request of a call is not answered yet, nor given up.
FirstTry(c) == i[c] = 0 \/ (i[c] = 1 /\ rpc[c].st \in {"accepted", "running"})

ClerkOK(c) ==
  /\ rpc[c].st # "none" => call[c] # NoCall /\ i[c] # 0
  /\ rpc[c].st \in {"replied", "sent"} => ReplyInv(c)
  /\ call[c].op = "Put" /\ FirstTry(c) => ~Performed(c) /\ AllLive(c)
  /\ Unstable = {} => enabled[c]

ClerkInv == \A c \in Clients : ClerkOK(c)

Inv == TypeOK /\ HandlerInv /\ LiveInv /\ StoreInv /\ ClerkInv

LEMMA InitInv == Init => Inv
<1> SUFFICES ASSUME Init PROVE Inv
  OBVIOUS
<1>1. TypeOK
  BY InitType
<1>2. Waiting = {} /\ Len(opQ) = 0 /\ Len(handlers) = 0 /\ Elements(opQ) = {}
  BY SMT DEF Init, Waiting, Elements
<1>3. HandlerInv /\ LiveInv
  BY <1>2, SMT DEF HandlerInv, LiveInv
<1>4. \A k \in Keys : Written(k) = {} /\ kv[k] = NoEntry
  BY SMT DEF Init, Written, Range
<1>5. \A c \in Clients : call[c].op = "none" /\ rpc[c].st = "none" /\ enabled[c]
  BY DEF Init, NoCall, NoRpc
<1>6. StoreInv
  BY <1>2, <1>4, <1>5 DEF StoreInv
<1>7. ClerkInv
  BY <1>5 DEF ClerkInv, ClerkOK
<1> QED BY <1>1, <1>3, <1>6, <1>7 DEF Inv

LEMMA WaitingType ==
  ASSUME TypeOK
  PROVE  \A h \in Waiting :
           /\ h \in Handler /\ h.id.clnt \in Clients /\ h.id.n \in Nat /\ h.call \in CallType
           /\ h.call.key \in Keys /\ h.id = Id(h.id.clnt, h.id.n)
           /\ h.call.op = "Put" => h.call.version \in Nat /\ h.call.value \in Values
<1>1. \A h \in Waiting : h \in Handler
  BY SMT DEF TypeOK, Waiting, Elements
<1>2. \A h \in Handler : h.id.clnt \in Clients /\ h.id.n \in Nat /\ h.call \in CallType
                         /\ h.id = Id(h.id.clnt, h.id.n)
  BY DEF Handler, CallId, CallType, Id
<1>3. \A cl \in CallType : cl.key \in Keys /\ (cl.op = "Put" => cl.version \in Nat /\ cl.value \in Values)
  BY DEF CallType, GetCall, PutCall
<1> QED BY <1>1, <1>2, <1>3

\* A Clerk that a step does not touch.
LEMMA Untouched ==
  ASSUME NEW d \in Clients, ClerkOK(d), TypeOK,
         rpc'[d] = rpc[d], call'[d] = call[d], i'[d] = i[d], answer'[d] = answer[d],
         enabled'[d] = enabled[d],
         call[d].op = "Put" => (Performed(d)' <=> Performed(d)),
         NoneOf(d) => NoneOf(d)', AllLive(d) => AllLive(d)',
         \A k \in Keys : Version(kv'[k]) \in Nat /\ Version(kv[k]) <= Version(kv'[k])
  PROVE  ClerkOK(d)'
<1>1. FirstTry(d)' <=> FirstTry(d)
  BY DEF FirstTry
<1>2. call[d].op = "Put" => call[d].version \in Nat /\ call[d].key \in Keys
  BY CallTypes DEF TypeOK, GetCall, PutCall, NoCall
<1>3. \A k \in Keys : Version(kv[k]) \in Nat
  BY DEF TypeOK, Version, Entry
<1>4. ReplyInv(d) => ReplyInv(d)'
  <2>1. call[d].op = "Put" /\ call[d].version < Version(kv[call[d].key])
          => call[d].version < Version(kv'[call[d].key])
    BY <1>2, <1>3, SMT
  <2> QED BY <2>1 DEF ReplyInv
<1> QED BY <1>1, <1>4 DEF ClerkOK

LEMMA VersionType == TypeOK => \A k \in Keys : Version(kv[k]) \in Nat
BY DEF TypeOK, Version, Entry

\* Steps of a Clerk's loop, and of the network, that leave calls, handlers and
\* the store alone.
LEMMA QuietInv ==
  ASSUME Inv, TypeOK', NEW c \in Clients,
         \/ Send(c) \/ SendDisabled(c) \/ DropRequest(c) \/ LoseReply(c) \/ SendReply(c)
         \/ Disconnect(c) \/ Connect(c)
  PROVE  Inv'
<1>0. TypeOK /\ HandlerInv /\ LiveInv /\ StoreInv /\ ClerkInv /\ ClerkOK(c)
  BY DEF Inv, ClerkInv
<1>1. UNCHANGED <<kv, opQ, handlers, call, out, n, log, answer>>
  BY DEF Send, SendDisabled, DropRequest, LoseReply, SendReply, Disconnect, Connect
<1>2. /\ Waiting' = Waiting /\ \A h : Current(h)' <=> Current(h)
      /\ \A d : Performed(d)' <=> Performed(d)
      /\ \A k : Written(k)' = Written(k)
  BY <1>1 DEF Waiting, Current, Performed, Written, Id
<1>3. \A d : (NoneOf(d)' <=> NoneOf(d)) /\ (AllLive(d)' <=> AllLive(d))
  BY <1>2 DEF NoneOf, AllLive
<1>4. /\ rpc \in [Clients -> RpcType] /\ i \in [Clients -> 0..2] /\ enabled \in [Clients -> BOOLEAN]
  BY <1>0 DEF TypeOK, RpcType
<1>5. \A d \in Clients \ {c} : rpc'[d] = rpc[d] /\ i'[d] = i[d] /\ enabled'[d] = enabled[d]
  BY <1>4, SetSt, SMT DEF Send, SendDisabled, DropRequest, LoseReply, SendReply, Disconnect, Connect,
                     CountAttempt, CallFails
<1>6. \/ Disconnect(c) /\ rpc' = rpc /\ i' = i
      \/ Connect(c) /\ rpc' = rpc /\ i' = i
      \/ rpc[c].st = "none" /\ rpc' = rpc /\ i'[c] # 0 /\ enabled' = enabled
      \/ /\ rpc[c].st = "none" /\ rpc'[c].st = "accepted" /\ enabled' = enabled /\ call[c] # NoCall
         /\ i'[c] = IF i[c] = 2 THEN 2 ELSE i[c] + 1
      \/ rpc[c].st \in {"accepted", "replied"} /\ rpc'[c].st = "none" /\ i' = i /\ enabled' = enabled
      \/ /\ rpc[c].st = "replied" /\ rpc'[c].st = "sent" /\ rpc'[c].reply = rpc[c].reply
         /\ i' = i /\ enabled' = enabled
  <2>1. ASSUME Send(c) \/ SendDisabled(c) PROVE i'[c] = IF i[c] = 2 THEN 2 ELSE i[c] + 1
    BY <1>4, <2>1 DEF Send, SendDisabled, CountAttempt
  <2>2. i[c] \in 0..2
    BY <1>4
  <2>3. CASE Send(c)
    BY <1>4, <2>1, <2>3, SetSt DEF Send
  <2>4. CASE SendDisabled(c)
    BY <2>1, <2>2, <2>4, SMT DEF SendDisabled
  <2>5. CASE DropRequest(c) \/ LoseReply(c)
    BY <1>4, <2>5, SMT DEF DropRequest, LoseReply, CallFails, NoRpc
  <2>6. CASE SendReply(c)
    BY <1>4, <2>6, SetSt DEF SendReply
  <2> QED BY <2>3, <2>4, <2>5, <2>6 DEF Disconnect, Connect
<1>7. HandlerInv'
  <2>1. rpc[c].st = "running" => rpc'[c].st = "running"
    BY <1>6
  <2>2. \A d \in Clients : rpc[d].st = "running" => rpc'[d].st = "running"
    BY <1>5, <2>1
  <2>3. \A h \in Waiting : h.id.clnt \in Clients
    BY <1>0, WaitingType
  <2> QED BY <1>0, <1>1, <1>2, <2>2, <2>3 DEF HandlerInv
<1>8. LiveInv'
  BY <1>0, <1>1, SMT DEF LiveInv, Elements
<1>9. StoreInv'
  BY <1>0, <1>1, <1>2 DEF StoreInv
<1>10. ClerkOK(c)'
  <2>1. Unstable = {} => enabled'[c]
    BY <1>0, <1>4, <1>6 DEF ClerkOK, Disconnect, Connect
  <2>2. rpc'[c].st # "none" => call'[c] # NoCall /\ i'[c] # 0
    BY <1>0, <1>1, <1>4, <1>6, SMT DEF ClerkOK
  <2>3. rpc'[c].st \in {"replied", "sent"} => ReplyInv(c)'
    BY <1>0, <1>1, <1>2, <1>3, <1>6 DEF ClerkOK, ReplyInv
  <2>4. FirstTry(c)' => FirstTry(c)
    BY <1>4, <1>6, SMT DEF FirstTry
  <2> QED BY <1>0, <1>1, <1>2, <1>3, <2>1, <2>2, <2>3, <2>4 DEF ClerkOK
<1>11. ClerkInv'
  <2>1. \A k \in Keys : Version(kv'[k]) \in Nat /\ Version(kv[k]) <= Version(kv'[k])
    BY <1>0, <1>1, VersionType, SMT
  <2>2. \A d \in Clients \ {c} : ClerkOK(d)'
    BY <1>0, <1>1, <1>2, <1>3, <1>5, <2>1, Untouched DEF ClerkInv
  <2> QED BY <1>10, <2>2 DEF ClerkInv
<1> QED BY <1>7, <1>8, <1>9, <1>11 DEF Inv

LEMMA InvokeInv ==
  ASSUME Inv, TypeOK', NEW c \in Clients, NEW op \in CallType, Invoke(c, op),
         op.op = "Put" /\ ~AnyVersion => op.version <= Version(kv[op.key])
  PROVE  Inv'
<1>0. TypeOK /\ HandlerInv /\ LiveInv /\ StoreInv /\ ClerkInv /\ ClerkOK(c)
  BY DEF Inv, ClerkInv
<1>1. /\ call[c] = NoCall /\ UNCHANGED <<kv, opQ, handlers, enabled, rpc, log, answer>>
      /\ call' = [call EXCEPT ![c] = op] /\ i' = [i EXCEPT ![c] = 0] /\ n' = [n EXCEPT ![c] = @ + 1]
  BY DEF Invoke
<1>2. /\ n[c] \in Nat /\ n'[c] = n[c] + 1 /\ i'[c] = 0 /\ call'[c] = op /\ op # NoCall
      /\ \A d \in Clients \ {c} : n'[d] = n[d] /\ i'[d] = i[d] /\ call'[d] = call[d]
  BY <1>0, <1>1, CallTypes, SMT DEF TypeOK
<1>3. rpc[c].st = "none"
  BY <1>0, <1>1 DEF ClerkOK
<1>4. /\ Waiting' = Waiting
      /\ \A h \in Waiting : h.id.clnt = c => ~Current(h) /\ ~Current(h)' /\ ~h.live
      /\ \A h \in Waiting : h.id.clnt # c => (Current(h)' <=> Current(h))
  <2>1. Waiting' = Waiting
    BY <1>1 DEF Waiting
  <2>2. ASSUME NEW h \in Waiting PROVE h.id.clnt = c => ~Current(h) /\ ~Current(h)' /\ ~h.live
    BY <1>0, <1>1, <1>2, WaitingType, SMT DEF HandlerInv, Current
  <2>3. \A h \in Waiting : h.id.clnt # c => (Current(h)' <=> Current(h))
    BY <1>0, <1>2, WaitingType DEF Current
  <2> QED BY <2>1, <2>2, <2>3
<1>5. \A k : Written(k)' = Written(k)
  BY <1>1 DEF Written
<1>6. ~Performed(c)'
  <2>1. op.key \in Keys
    BY DEF CallType, GetCall, PutCall
  <2>2. Id(c, n'[c]) \notin Written(op.key)
    BY <1>0, <1>2, <2>1, SMT DEF StoreInv, Id
  <2> QED BY <1>2, <1>5, <2>2 DEF Performed, Id
<1>7. \A d \in Clients \ {c} : Performed(d)' <=> Performed(d)
  BY <1>2, <1>5 DEF Performed, Id
<1>8. \A d \in Clients : (NoneOf(d) => NoneOf(d)') /\ (AllLive(d) => AllLive(d)')
  BY <1>4 DEF NoneOf, AllLive
<1>9. HandlerInv'
  <2> SUFFICES ASSUME NEW h \in Waiting
               PROVE  /\ h.id.n <= n'[h.id.clnt]
                      /\ Current(h)' => h.call = call'[h.id.clnt]
                      /\ h.live => Current(h)' /\ rpc'[h.id.clnt].st = "running"
                      /\ Unstable = {} => h.live
    BY <1>4 DEF HandlerInv
  <2>1. CASE h.id.clnt = c
    BY <1>0, <1>2, <1>4, <2>1, WaitingType, SMT DEF HandlerInv
  <2>2. CASE h.id.clnt # c
    BY <1>0, <1>1, <1>2, <1>4, <2>2, WaitingType DEF HandlerInv
  <2> QED BY <2>1, <2>2
<1>10. LiveInv'
  BY <1>0, <1>1, SMT DEF LiveInv, Elements
<1>11. StoreInv'
  <2>1. \A k \in Keys : kv'[k] # NoEntry => kv'[k].version # 0
    BY <1>0, <1>1 DEF StoreInv
  <2>2. \A k \in Keys : \A id \in Written(k)' : id.n <= n'[id.clnt]
    <3> SUFFICES ASSUME NEW k \in Keys, NEW id \in Written(k) PROVE id.n <= n'[id.clnt]
      BY <1>5
    <3>1. id \in CallId
      BY <1>0, SMT DEF TypeOK, Written, Range
    <3>2. id.n <= n[id.clnt] /\ id.clnt \in Clients /\ id.n \in Nat
      BY <1>0, <3>1 DEF StoreInv, CallId
    <3> QED BY <1>2, <3>2, SMT
  <2>3. \A h \in Waiting' : h.call.op = "Put" /\ ~Current(h)' => h.call.version < Version(kv'[h.call.key])
    BY <1>0, <1>1, <1>4 DEF StoreInv
  <2>4. \A d \in Clients : call'[d].op = "Put" =>
          /\ Performed(d)' => call'[d].version < Version(kv'[call'[d].key])
          /\ ~AnyVersion => call'[d].version <= Version(kv'[call'[d].key])
    BY <1>0, <1>1, <1>2, <1>6, <1>7 DEF StoreInv
  <2> QED BY <2>1, <2>2, <2>3, <2>4 DEF StoreInv
<1>12. ClerkOK(c)'
  <2>1. AllLive(c)'
    BY <1>4 DEF AllLive
  <2> QED BY <1>0, <1>1, <1>3, <1>6, <2>1 DEF ClerkOK
<1>13. ClerkInv'
  <2>1. \A k \in Keys : Version(kv'[k]) \in Nat /\ Version(kv[k]) <= Version(kv'[k])
    BY <1>0, <1>1, VersionType, SMT
  <2>2. ASSUME NEW d \in Clients \ {c} PROVE ClerkOK(d)'
    <3>1. ClerkOK(d) /\ rpc'[d] = rpc[d] /\ answer'[d] = answer[d] /\ enabled'[d] = enabled[d]
      BY <1>0, <1>1 DEF ClerkInv
    <3> QED BY <1>0, <1>2, <1>7, <1>8, <2>1, <3>1, Untouched
  <2> QED BY <1>12, <2>2 DEF ClerkInv
<1> QED BY <1>9, <1>10, <1>11, <1>13 DEF Inv

\* The two cases in which no handler of an earlier call can write.
NoStrayWrites == Unstable = {} \/ ~AnyVersion

LEMMA DeliverInv ==
  ASSUME NoStrayWrites, Inv, TypeOK', NEW c \in Clients, Deliver(c)
  PROVE  Inv'
<1>0. TypeOK /\ HandlerInv /\ LiveInv /\ StoreInv /\ ClerkInv /\ ClerkOK(c)
  BY DEF Inv, ClerkInv
<1>1. /\ rpc[c].st = "sent" /\ call' = [call EXCEPT ![c] = NoCall] /\ rpc' = [rpc EXCEPT ![c] = NoRpc]
      /\ answer' = [answer EXCEPT ![c] = NoReply]
      /\ UNCHANGED <<kv, opQ, handlers, enabled, i, n, log>>
  BY DEF Deliver
<1>2. /\ call'[c] = NoCall /\ rpc'[c].st = "none" /\ NoCall.op = "none"
      /\ \A d \in Clients \ {c} : call'[d] = call[d] /\ rpc'[d] = rpc[d] /\ answer'[d] = answer[d]
  BY <1>0, <1>1, CallTypes DEF TypeOK, NoRpc
<1>3. call[c] # NoCall /\ ReplyInv(c)
  BY <1>0, <1>1 DEF ClerkOK
<1>4. /\ Waiting' = Waiting
      /\ \A h \in Waiting : h.id.clnt = c => ~Current(h)' /\ ~h.live
      /\ \A h \in Waiting : h.id.clnt # c => (Current(h)' <=> Current(h))
  <2>1. Waiting' = Waiting
    BY <1>1 DEF Waiting
  <2>2. \A h \in Waiting : h.id.clnt = c => ~Current(h)' /\ ~h.live
    BY <1>0, <1>1, <1>2 DEF HandlerInv, Current
  <2>3. \A h \in Waiting : h.id.clnt # c => (Current(h)' <=> Current(h))
    BY <1>0, <1>1, <1>2, WaitingType DEF Current
  <2> QED BY <2>1, <2>2, <2>3
<1>5. \A k : Written(k)' = Written(k)
  BY <1>1 DEF Written
<1>6. \A d \in Clients \ {c} : Performed(d)' <=> Performed(d)
  BY <1>1, <1>2, <1>5 DEF Performed, Id
<1>7. \A d \in Clients : (NoneOf(d) => NoneOf(d)') /\ (AllLive(d) => AllLive(d)')
  BY <1>4 DEF NoneOf, AllLive
<1>8. HandlerInv'
  <2> SUFFICES ASSUME NEW h \in Waiting
               PROVE  /\ h.id.n <= n'[h.id.clnt]
                      /\ Current(h)' => h.call = call'[h.id.clnt]
                      /\ h.live => Current(h)' /\ rpc'[h.id.clnt].st = "running"
                      /\ Unstable = {} => h.live
    BY <1>4 DEF HandlerInv
  <2>1. CASE h.id.clnt = c
    BY <1>0, <1>1, <1>4, <2>1 DEF HandlerInv
  <2>2. CASE h.id.clnt # c
    BY <1>0, <1>1, <1>2, <1>4, <2>2, WaitingType, SMT DEF HandlerInv
  <2> QED BY <2>1, <2>2
<1>9. LiveInv'
  <2>1. opQ' = opQ /\ handlers' = handlers
    BY <1>1
  <2>2. LiveInv
    BY <1>0
  <2>3. \A j, k \in 1..Len(opQ') : j # k => Apart(opQ'[j], opQ'[k])
    BY <2>1, <2>2 DEF LiveInv
  <2>4. \A j, k \in 1..Len(handlers') : j # k => Apart(handlers'[j], handlers'[k])
    BY <2>1, <2>2 DEF LiveInv
  <2>5. \A h \in Elements(handlers'), g \in Elements(opQ') : Apart(h, g)
    BY <2>1, <2>2 DEF LiveInv
  <2>6. /\ (\A j, k \in 1..Len(opQ) : j # k => Apart(opQ[j], opQ[k]))'
        /\ (\A j, k \in 1..Len(handlers) : j # k => Apart(handlers[j], handlers[k]))'
        /\ (\A h \in Elements(handlers), g \in Elements(opQ) : Apart(h, g))'
    BY <2>3, <2>4, <2>5 DEF Elements, Apart
  <2> QED BY <2>6 DEF LiveInv
<1>10. call[c].op = "Put" /\ ~NoneOf(c) => call[c].version < Version(kv[call[c].key])
  <2> SUFFICES ASSUME call[c].op = "Put", ~NoneOf(c) PROVE call[c].version < Version(kv[call[c].key])
    OBVIOUS
  <2>1. Unstable # {}
    BY <1>0, <1>1 DEF NoneOf, HandlerInv
  <2>2. rpc[c].reply.err # "ErrNoKey" /\ rpc[c].reply.err \in {"OK", "ErrVersion", "ErrNoKey"}
    BY <1>3 DEF ReplyInv
  <2> QED BY <1>0, <1>3, <2>1, <2>2 DEF ReplyInv, StoreInv, NoStrayWrites
<1>11. StoreInv'
  <2>1. \A h \in Waiting' : h.call.op = "Put" /\ ~Current(h)' => h.call.version < Version(kv'[h.call.key])
    <3> SUFFICES ASSUME NEW h \in Waiting, h.call.op = "Put", ~Current(h)'
                 PROVE  h.call.version < Version(kv[h.call.key])
      BY <1>1, <1>4
    <3>1. CASE ~Current(h)
      BY <1>0, <3>1 DEF StoreInv
    <3>2. CASE Current(h)
      <4>1. h.id.clnt = c
        BY <1>4, <3>2
      <4>2. h.call = call[c] /\ ~NoneOf(c)
        BY <1>0, <3>2, <4>1 DEF HandlerInv, NoneOf
      <4> QED BY <1>10, <4>2
    <3> QED BY <3>1, <3>2
  <2>2. \A d \in Clients : call'[d].op = "Put" =>
          /\ Performed(d)' => call'[d].version < Version(kv'[call'[d].key])
          /\ ~AnyVersion => call'[d].version <= Version(kv'[call'[d].key])
    BY <1>0, <1>1, <1>2, <1>6 DEF StoreInv
  <2> QED BY <1>0, <1>1, <1>5, <2>1, <2>2 DEF StoreInv
<1>12. ClerkInv'
  <2>1. \A k \in Keys : Version(kv'[k]) \in Nat /\ Version(kv[k]) <= Version(kv'[k])
    BY <1>0, <1>1, VersionType, SMT
  <2>2. ASSUME NEW d \in Clients \ {c} PROVE ClerkOK(d)'
    <3>1. ClerkOK(d) /\ i'[d] = i[d] /\ enabled'[d] = enabled[d]
      BY <1>0, <1>1 DEF ClerkInv
    <3> QED BY <1>0, <1>2, <1>6, <1>7, <2>1, <3>1, Untouched
  <2>3. ClerkOK(c)'
    BY <1>0, <1>1, <1>2 DEF ClerkOK
  <2> QED BY <2>2, <2>3 DEF ClerkInv
<1> QED BY <1>8, <1>9, <1>11, <1>12 DEF Inv

LEMMA AppendElements ==
  ASSUME NEW S, NEW s \in Seq(S), NEW e \in S
  PROVE  Elements(Append(s, e)) = Elements(s) \cup {e}
<1>1. Len(Append(s, e)) = Len(s) + 1 /\ Len(s) \in Nat
  BY SMT
<1>2. \A j \in 1..Len(s) : Append(s, e)[j] = s[j]
  BY SMT
<1>3. Append(s, e)[Len(s) + 1] = e
  BY SMT
<1> QED BY <1>1, <1>2, <1>3, SMT DEF Elements

LEMMA DispatchInv ==
  ASSUME Inv, TypeOK', NEW c \in Clients, Dispatch(c)
  PROVE  Inv'
<1>0. TypeOK /\ HandlerInv /\ LiveInv /\ StoreInv /\ ClerkInv /\ ClerkOK(c)
  BY DEF Inv, ClerkInv
<1> DEFINE h == [id |-> [clnt |-> c, n |-> n[c]], live |-> TRUE, call |-> call[c]]
<1>1. /\ rpc[c].st = "accepted" /\ handlers' = Append(handlers, h)
      /\ rpc' = [rpc EXCEPT ![c].st = "running"]
      /\ UNCHANGED <<kv, opQ, enabled, call, i, out, n, log, answer>>
  BY DEF Dispatch
<1>2. h.id.clnt = c /\ h.id.n = n[c] /\ h.live /\ h.call = call[c] /\ n[c] \in Nat
  BY <1>0, SMT DEF TypeOK
<1>3. call[c] # NoCall /\ i[c] # 0
  BY <1>0, <1>1 DEF ClerkOK
<1>4. h \in Handler
  BY <1>0, <1>3, SMT DEF TypeOK, Handler, CallId
<1> HIDE DEF h
<1>5. /\ rpc'[c].st = "running" /\ \A d \in Clients \ {c} : rpc'[d] = rpc[d]
  BY <1>0, <1>1, SetSt, SMT DEF TypeOK, RpcType
<1>6. Elements(handlers') = Elements(handlers) \cup {h} /\ Elements(opQ') = Elements(opQ)
  BY <1>0, <1>1, <1>4, AppendElements, SMT DEF TypeOK
<1>7. Waiting' = Waiting \cup {h}
  BY <1>6 DEF Waiting
<1>8. (\A g : Current(g)' <=> Current(g)) /\ Current(h)
  BY <1>1, <1>2, <1>3 DEF Current
<1>9. /\ \A d : Performed(d)' <=> Performed(d)
      /\ \A k : Written(k)' = Written(k)
  BY <1>1 DEF Performed, Written, Id
<1>10. \A g \in Waiting : g.live => g.id.clnt # c
  BY <1>0, <1>1 DEF HandlerInv
<1>11. HandlerInv'
  BY <1>0, <1>1, <1>2, <1>5, <1>7, <1>8, <1>10, WaitingType, SMT DEF HandlerInv
<1>12. LiveInv'
  <2>1. \A g \in Waiting : Apart(g, h) /\ Apart(h, g)
    BY <1>2, <1>10 DEF Apart
  <2>2. \A j, k \in 1..Len(handlers') : j # k => Apart(handlers'[j], handlers'[k])
    <3>1. /\ Len(handlers') = Len(handlers) + 1 /\ handlers'[Len(handlers) + 1] = h
          /\ \A j \in 1..Len(handlers) : handlers'[j] = handlers[j] /\ handlers[j] \in Waiting
      BY <1>0, <1>1, <1>4, SMT DEF TypeOK, Waiting, Elements
    <3>2. \A j \in 1..Len(handlers') : j \in 1..Len(handlers) \/ j = Len(handlers) + 1
      BY <1>0, <3>1, SMT DEF TypeOK
    <3> QED BY <1>0, <2>1, <3>1, <3>2 DEF LiveInv
  <2>3. \A f \in Elements(handlers)', g \in Elements(opQ)' : Apart(f, g)
    BY <1>0, <1>6, <2>1 DEF LiveInv, Waiting
  <2> QED BY <1>0, <1>1, <2>2, <2>3 DEF LiveInv
<1>13. StoreInv'
  BY <1>0, <1>1, <1>7, <1>8, <1>9 DEF StoreInv
<1>14. ClerkInv'
  <2>1. \A k \in Keys : Version(kv'[k]) \in Nat /\ Version(kv[k]) <= Version(kv'[k])
    BY <1>0, <1>1, VersionType, SMT
  <2>2. ASSUME NEW d \in Clients \ {c} PROVE ClerkOK(d)'
    <3>1. ClerkOK(d) /\ UNCHANGED <<i, call, answer, enabled>>
      BY <1>0, <1>1 DEF ClerkInv
    <3>2. (NoneOf(d) => NoneOf(d)') /\ (AllLive(d) => AllLive(d)')
      BY <1>2, <1>7, <1>8 DEF NoneOf, AllLive
    <3> QED BY <1>0, <1>5, <1>9, <2>1, <3>1, <3>2, Untouched
  <2>3. ClerkOK(c)'
    <3>1. AllLive(c) => AllLive(c)'
      BY <1>2, <1>7, <1>8 DEF AllLive
    <3>2. FirstTry(c)' => FirstTry(c)
      BY <1>1 DEF FirstTry
    <3> QED BY <1>0, <1>1, <1>3, <1>5, <1>9, <3>1, <3>2 DEF ClerkOK
  <2> QED BY <2>2, <2>3 DEF ClerkInv
<1> QED BY <1>11, <1>12, <1>13, <1>14 DEF Inv

\* Disown changes nothing but live.
LEMMA DisownSeq ==
  ASSUME NEW c \in Clients, NEW s \in Seq(Handler)
  PROVE  /\ Len(Disown(c, s)) = Len(s)
         /\ \A j \in 1..Len(s) : /\ Disown(c, s)[j].id = s[j].id /\ Disown(c, s)[j].call = s[j].call
                                 /\ Disown(c, s)[j].live => s[j].live /\ s[j].id.clnt # c
                                 /\ s[j].id.clnt # c => Disown(c, s)[j].live = s[j].live
<1>1. DOMAIN s = 1..Len(s) /\ Len(s) \in Nat /\ \A j \in 1..Len(s) : s[j] \in Handler
  BY SMT
<1>2. \A h \in Handler : /\ [h EXCEPT !.live = FALSE].id = h.id /\ [h EXCEPT !.live = FALSE].call = h.call
                         /\ [h EXCEPT !.live = FALSE].live = FALSE
  BY DEF Handler
<1>3. /\ DOMAIN Disown(c, s) = 1..Len(s)
      /\ \A j \in 1..Len(s) : Disown(c, s)[j] = IF s[j].id.clnt = c THEN [s[j] EXCEPT !.live = FALSE] ELSE s[j]
  BY <1>1 DEF Disown
<1>4. Disown(c, s) \in Seq(Handler)
  <2>1. \A h \in Handler : [h EXCEPT !.live = FALSE] \in Handler
    BY DEF Handler
  <2>2. Disown(c, s) \in [1..Len(s) -> Handler]
    BY <1>1, <2>1 DEF Disown
  <2> QED BY <1>1, <2>2, SMT
<1>5. Len(Disown(c, s)) = Len(s)
  BY <1>1, <1>3, <1>4, SMT
<1> QED BY <1>1, <1>2, <1>3, <1>5

LEMMA AbandonInv ==
  ASSUME Inv, TypeOK', NEW c \in Clients, Abandon(c)
  PROVE  Inv'
<1>0. TypeOK /\ HandlerInv /\ LiveInv /\ StoreInv /\ ClerkInv /\ ClerkOK(c)
  BY DEF Inv, ClerkInv
<1>1. /\ rpc[c].st = "running" /\ ~enabled[c] /\ handlers' = Disown(c, handlers) /\ opQ' = Disown(c, opQ)
      /\ rpc' = [rpc EXCEPT ![c] = NoRpc]
      /\ UNCHANGED <<kv, enabled, call, i, out, n, log, answer>>
      /\ handlers \in Seq(Handler) /\ opQ \in Seq(Handler)
  BY <1>0 DEF Abandon, CallFails, TypeOK
<1>2. /\ rpc'[c].st = "none" /\ \A d \in Clients \ {c} : rpc'[d] = rpc[d]
  BY <1>0, <1>1 DEF TypeOK, NoRpc
<1>3. call[c] # NoCall /\ i[c] # 0 /\ Unstable # {}
  BY <1>0, <1>1 DEF ClerkOK
<1>4. ASSUME NEW s \in Seq(Handler), NEW g \in Elements(Disown(c, s))
      PROVE  \E h \in Elements(s) : /\ g.id = h.id /\ g.call = h.call
                                    /\ g.live => h.live /\ h.id.clnt # c
                                    /\ h.id.clnt # c => g.live = h.live
  <2>1. PICK j \in 1..Len(s) : g = Disown(c, s)[j]
    BY DisownSeq, SMT DEF Elements
  <2>2. s[j] \in Elements(s)
    BY DEF Elements
  <2> QED BY <2>1, <2>2, DisownSeq
<1>5. \A g \in Waiting' : \E h \in Waiting : /\ g.id = h.id /\ g.call = h.call
                                             /\ g.live => h.live /\ h.id.clnt # c
                                             /\ h.id.clnt # c => g.live = h.live
  BY <1>1, <1>4, SMT DEF Waiting
<1>6. /\ \A g : Current(g)' <=> Current(g)
      /\ \A g, h : g.id = h.id => (Current(g) <=> Current(h))
      /\ \A d : Performed(d)' <=> Performed(d)
      /\ \A k : Written(k)' = Written(k)
  BY <1>1 DEF Current, Performed, Written, Id
<1>7. HandlerInv'
  <2> SUFFICES ASSUME NEW g \in Waiting'
               PROVE  /\ g.id.n <= n[g.id.clnt]
                      /\ Current(g) => g.call = call[g.id.clnt]
                      /\ g.live => Current(g) /\ rpc'[g.id.clnt].st = "running"
    BY <1>1, <1>3, <1>6 DEF HandlerInv
  <2>1. PICK h \in Waiting : g.id = h.id /\ g.call = h.call /\ (g.live => h.live /\ h.id.clnt # c)
    BY <1>5
  <2>2. h.id.clnt \in Clients
    BY <1>0, WaitingType
  <2> QED BY <1>0, <1>2, <1>6, <2>1, <2>2, SMT DEF HandlerInv
<1>8. LiveInv'
  <2>1. ASSUME NEW s \in Seq(Handler), \A j, k \in 1..Len(s) : j # k => Apart(s[j], s[k])
        PROVE  \A j, k \in 1..Len(Disown(c, s)) : j # k => Apart(Disown(c, s)[j], Disown(c, s)[k])
    BY <2>1, DisownSeq, SMT DEF Apart
  <2>2. \A f \in Elements(handlers)', g \in Elements(opQ)' : Apart(f, g)
    <3> SUFFICES ASSUME NEW f \in Elements(handlers)', NEW g \in Elements(opQ)' PROVE Apart(f, g)
      OBVIOUS
    <3>1. PICK e \in Elements(handlers) : f.id = e.id /\ (f.live => e.live)
      BY <1>1, <1>4, SMT
    <3>2. PICK h \in Elements(opQ) : g.id = h.id /\ (g.live => h.live)
      BY <1>1, <1>4, SMT
    <3> QED BY <1>0, <3>1, <3>2 DEF LiveInv, Apart
  <2> QED BY <1>0, <1>1, <2>1, <2>2 DEF LiveInv
<1>9. StoreInv'
  <2>1. \A g \in Waiting' : g.call.op = "Put" /\ ~Current(g)' => g.call.version < Version(kv'[g.call.key])
    <3> SUFFICES ASSUME NEW g \in Waiting', g.call.op = "Put", ~Current(g)
                 PROVE  g.call.version < Version(kv[g.call.key])
      BY <1>1, <1>6
    <3>1. PICK h \in Waiting : g.id = h.id /\ g.call = h.call
      BY <1>5
    <3> QED BY <1>0, <1>6, <3>1 DEF StoreInv
  <2> QED BY <1>0, <1>1, <1>6, <2>1 DEF StoreInv
<1>10. ClerkInv'
  <2>1. \A k \in Keys : Version(kv'[k]) \in Nat /\ Version(kv[k]) <= Version(kv'[k])
    BY <1>0, <1>1, VersionType, SMT
  <2>2. ASSUME NEW d \in Clients \ {c} PROVE ClerkOK(d)'
    <3>1. ClerkOK(d) /\ UNCHANGED <<i, call, answer, enabled>>
      BY <1>0, <1>1 DEF ClerkInv
    <3>2. NoneOf(d) => NoneOf(d)'
      BY <1>5, <1>6 DEF NoneOf
    <3>3. AllLive(d) => AllLive(d)'
      BY <1>5, <1>6 DEF AllLive
    <3> QED BY <1>0, <1>2, <1>6, <2>1, <3>1, <3>2, <3>3, Untouched
  <2>3. ClerkOK(c)'
    BY <1>0, <1>1, <1>2, <1>3 DEF ClerkOK, FirstTry
  <2> QED BY <2>2, <2>3 DEF ClerkInv
<1> QED BY <1>7, <1>8, <1>9, <1>10 DEF Inv

\* RemoveAt drops one element; every other one has a place of its own.
LEMMA RemoveAtElements ==
  ASSUME NEW S, NEW s \in Seq(S), NEW j \in 1..Len(s)
  PROVE  /\ Elements(s) = Elements(RemoveAt(s, j)) \cup {s[j]}
         /\ \A k \in 1..Len(RemoveAt(s, j)) :
              \E m \in 1..Len(s) : m # j /\ RemoveAt(s, j)[k] = s[m] /\ m = IF k < j THEN k ELSE k + 1
<1> DEFINE r == RemoveAt(s, j)
<1>1. /\ Len(r) = Len(s) - 1 /\ Len(s) \in Nat
      /\ \A k \in 1..(Len(s) - 1) : r[k] = s[IF k < j THEN k ELSE k + 1]
  <2>1. Len(s) \in Nat
    BY SMT
  <2> QED BY <2>1, RemoveAtSeq
<1> HIDE DEF r
<1>2. \A k \in 1..Len(r) : \E m \in 1..Len(s) : m # j /\ r[k] = s[m] /\ m = IF k < j THEN k ELSE k + 1
  BY <1>1, SMT
<1>3. \A m \in 1..Len(s) : m # j => \E k \in 1..Len(r) : r[k] = s[m]
  <2> SUFFICES ASSUME NEW m \in 1..Len(s), m # j PROVE \E k \in 1..Len(r) : r[k] = s[m]
    OBVIOUS
  <2>1. CASE m < j
    <3>1. m \in 1..Len(r) /\ r[m] = s[m]
      BY <1>1, <2>1, SMT
    <3> QED BY <3>1
  <2>2. CASE m > j
    <3>1. m - 1 \in 1..Len(r) /\ r[m - 1] = s[m]
      BY <1>1, <2>2, SMT
    <3> QED BY <3>1
  <2> QED BY <2>1, <2>2, SMT
<1>4. Elements(s) = Elements(r) \cup {s[j]}
  <2>1. \A x \in Elements(s) : x \in Elements(r) \cup {s[j]}
    BY <1>3 DEF Elements
  <2>2. \A x \in Elements(r) \cup {s[j]} : x \in Elements(s)
    BY <1>2, SMT DEF Elements
  <2> QED BY <2>1, <2>2
<1> QED BY <1>2, <1>4 DEF r

LEMMA EnqueueInv == ASSUME Inv, TypeOK', Enqueue PROVE Inv'
<1>0. TypeOK /\ HandlerInv /\ LiveInv /\ StoreInv /\ ClerkInv
  BY DEF Inv
<1>1. PICK j \in 1..Len(handlers) :
        /\ opQ' = Append(opQ, handlers[j]) /\ handlers' = RemoveAt(handlers, j)
        /\ UNCHANGED <<kv, enabled, call, i, rpc, out, n, log, answer>>
  <2>1. DOMAIN handlers = 1..Len(handlers)
    BY <1>0, SMT DEF TypeOK
  <2> QED BY <2>1 DEF Enqueue, RemoveAt
<1> DEFINE h == handlers[j]
<1>2. opQ \in Seq(Handler) /\ handlers \in Seq(Handler) /\ h \in Handler /\ h \in Elements(handlers)
  BY <1>0, SMT DEF TypeOK, Elements
<1>3. Elements(handlers) = Elements(handlers') \cup {h} /\ Elements(opQ') = Elements(opQ) \cup {h}
  BY <1>1, <1>2, RemoveAtElements, AppendElements, SMT
<1>4. /\ Waiting' = Waiting /\ \A g : Current(g)' <=> Current(g)
      /\ \A d : Performed(d)' <=> Performed(d)
      /\ \A k : Written(k)' = Written(k)
  BY <1>1, <1>3 DEF Waiting, Current, Performed, Written, Id
<1>5. HandlerInv'
  BY <1>0, <1>1, <1>4 DEF HandlerInv
<1>6. LiveInv'
  <2>1. \A g \in Elements(opQ) : Apart(h, g) /\ Apart(g, h)
    BY <1>0, <1>2 DEF LiveInv, Apart
  <2>2. \A k \in 1..Len(handlers') : \E m \in 1..Len(handlers) :
          m # j /\ handlers'[k] = handlers[m] /\ m = IF k < j THEN k ELSE k + 1
    BY <1>1, <1>2, RemoveAtElements, SMT
  <2>3. \A k, l \in 1..Len(handlers') : k # l => Apart(handlers'[k], handlers'[l])
    <3> SUFFICES ASSUME NEW k \in 1..Len(handlers'), NEW l \in 1..Len(handlers'), k # l
                 PROVE  Apart(handlers'[k], handlers'[l])
      OBVIOUS
    <3>1. PICK m \in 1..Len(handlers) : handlers'[k] = handlers[m] /\ m = IF k < j THEN k ELSE k + 1
      BY <2>2
    <3>2. PICK p \in 1..Len(handlers) : handlers'[l] = handlers[p] /\ p = IF l < j THEN l ELSE l + 1
      BY <2>2
    <3>3. m # p
      BY <3>1, <3>2, SMT
    <3> QED BY <1>0, <3>1, <3>2, <3>3 DEF LiveInv
  <2>4. \A f \in Elements(handlers') : Apart(f, h)
    <3> SUFFICES ASSUME NEW k \in 1..Len(handlers') PROVE Apart(handlers'[k], h)
      BY DEF Elements
    <3> QED BY <1>0, <2>2 DEF LiveInv
  <2> HIDE DEF h
  <2>5. \A f \in Elements(handlers'), g \in Elements(opQ') : Apart(f, g)
    BY <1>0, <1>3, <2>4 DEF LiveInv
  <2>6. \A k, l \in 1..Len(opQ') : k # l => Apart(opQ'[k], opQ'[l])
    <3>1. /\ Len(opQ') = Len(opQ) + 1 /\ opQ'[Len(opQ) + 1] = h
          /\ \A k \in 1..Len(opQ) : opQ'[k] = opQ[k] /\ opQ[k] \in Elements(opQ)
      BY <1>1, <1>2, SMT DEF Elements, h
    <3>2. \A k \in 1..Len(opQ') : k \in 1..Len(opQ) \/ k = Len(opQ) + 1
      BY <1>2, <3>1, SMT
    <3> QED BY <1>0, <2>1, <3>1, <3>2 DEF LiveInv
  <2> QED BY <2>3, <2>5, <2>6 DEF LiveInv, Elements
<1>7. StoreInv'
  BY <1>0, <1>1, <1>4 DEF StoreInv
<1>8. ClerkInv'
  <2>1. \A d \in Clients : ClerkOK(d) <=> ClerkOK(d)'
    BY <1>1, <1>4, SMT DEF ClerkOK, ReplyInv, NoneOf, AllLive, FirstTry
  <2> QED BY <1>0, <2>1 DEF ClerkInv
<1> QED BY <1>5, <1>6, <1>7, <1>8 DEF Inv

LEMMA TailSeq ==
  ASSUME NEW S, NEW s \in Seq(S), s # << >>
  PROVE  /\ Head(s) = s[1] /\ 1 \in 1..Len(s) /\ Head(s) \in S
         /\ \A k \in 1..Len(Tail(s)) : Tail(s)[k] = s[k + 1] /\ k + 1 \in 1..Len(s) /\ k + 1 # 1
         /\ Elements(s) = Elements(Tail(s)) \cup {Head(s)}
<1>1. Len(Tail(s)) = Len(s) - 1 /\ Len(s) \in Nat \ {0}
  BY SMT
<1>2. \A k \in 1..Len(Tail(s)) : Tail(s)[k] = s[k + 1] /\ k + 1 \in 1..Len(s) /\ k + 1 # 1
  BY <1>1, SMT
<1>3. Head(s) = s[1] /\ 1 \in 1..Len(s) /\ Head(s) \in S
  BY <1>1, SMT
<1>4. \A k \in 1..Len(s) : k = 1 \/ (k - 1 \in 1..Len(Tail(s)) /\ Tail(s)[k - 1] = s[k])
  BY <1>1, <1>2, SMT
<1>5. \A x \in Elements(s) : x \in Elements(Tail(s)) \cup {Head(s)}
  <2> SUFFICES ASSUME NEW k \in 1..Len(s) PROVE s[k] \in Elements(Tail(s)) \cup {Head(s)}
    BY DEF Elements
  <2>1. CASE k = 1
    BY <1>3, <2>1
  <2>2. CASE k # 1
    <3>1. k - 1 \in 1..Len(Tail(s)) /\ Tail(s)[k - 1] = s[k]
      BY <1>4, <2>2
    <3> QED BY <3>1 DEF Elements
  <2> QED BY <2>1, <2>2
<1>6. \A x \in Elements(Tail(s)) \cup {Head(s)} : x \in Elements(s)
  BY <1>2, <1>3, SMT DEF Elements
<1> QED BY <1>2, <1>3, <1>5, <1>6

\* The server goroutine takes one operation off opQ.
LEMMA PopLive ==
  ASSUME TypeOK, LiveInv, opQ # << >>, opQ' = Tail(opQ), handlers' = handlers
  PROVE  /\ Head(opQ) \in Waiting /\ Waiting = Waiting' \cup {Head(opQ)}
         /\ \A g \in Waiting' : Apart(Head(opQ), g)
         /\ LiveInv'
<1>1. opQ \in Seq(Handler)
  BY DEF TypeOK
<1>2. /\ Head(opQ) = opQ[1] /\ 1 \in 1..Len(opQ)
      /\ \A k \in 1..Len(opQ') : opQ'[k] = opQ[k + 1] /\ k + 1 \in 1..Len(opQ) /\ k + 1 # 1
      /\ Elements(opQ) = Elements(opQ') \cup {Head(opQ)}
  BY <1>1, TailSeq
<1>3. Head(opQ) \in Waiting /\ Waiting = Waiting' \cup {Head(opQ)}
  BY <1>2 DEF Waiting
<1>4. \A g \in Elements(opQ') : Apart(Head(opQ), g)
  BY <1>2, SMT DEF LiveInv, Elements
<1>5. \A g \in Elements(handlers) : Apart(Head(opQ), g)
  BY <1>2 DEF LiveInv, Apart
<1>6. \A j, k \in 1..Len(opQ') : j # k => Apart(opQ'[j], opQ'[k])
  <2> SUFFICES ASSUME NEW j \in 1..Len(opQ'), NEW k \in 1..Len(opQ'), j # k
               PROVE  Apart(opQ'[j], opQ'[k])
    OBVIOUS
  <2>1. j + 1 # k + 1
    BY SMT
  <2> QED BY <1>2, <2>1 DEF LiveInv
<1>7. \A h \in Elements(handlers), g \in Elements(opQ') : Apart(h, g)
  BY <1>2 DEF LiveInv
<1>8. LiveInv'
  BY <1>6, <1>7 DEF LiveInv, Elements
<1> QED BY <1>3, <1>4, <1>5, <1>8 DEF Waiting

\* What the server's answer to the handler h does to the Clerks.
LEMMA AnswerInv ==
  ASSUME TypeOK, HandlerInv, NEW h \in Waiting, NEW reply, Answer(h, reply), Note(h, reply),
         Waiting' \subseteq Waiting, \A g \in Waiting' : Apart(h, g), UNCHANGED <<call, n, i>>
  PROVE  /\ HandlerInv' /\ h.id.clnt \in Clients
         /\ \A d \in Clients \ {h.id.clnt} : rpc'[d] = rpc[d] /\ answer'[d] = answer[d]
         /\ ~h.live => rpc' = rpc /\ answer' = answer
         /\ h.live => /\ rpc'[h.id.clnt].st = "replied" /\ rpc'[h.id.clnt].reply = reply
                      /\ (h.call.op = "Get" \/ reply.err # "OK") => answer'[h.id.clnt] = reply
         /\ \A g \in Waiting' : Current(g)' <=> Current(g)
         /\ \A d : (NoneOf(d) => NoneOf(d)') /\ (AllLive(d) => AllLive(d)')
<1>1. h.id.clnt \in Clients /\ rpc \in [Clients -> RpcType] /\ answer \in [Clients -> Reply]
  BY WaitingType DEF TypeOK, RpcType
<1>2. /\ \A d \in Clients \ {h.id.clnt} : rpc'[d] = rpc[d] /\ answer'[d] = answer[d]
      /\ ~h.live => rpc' = rpc /\ answer' = answer
  BY <1>1 DEF Answer, Note
<1>3. h.live => /\ rpc'[h.id.clnt].st = "replied" /\ rpc'[h.id.clnt].reply = reply
                /\ (h.call.op = "Get" \/ reply.err # "OK") => answer'[h.id.clnt] = reply
  BY <1>1 DEF Answer, Note
<1>4. \A g : Current(g)' <=> Current(g)
  BY DEF Current
<1>5. \A d : (NoneOf(d) => NoneOf(d)') /\ (AllLive(d) => AllLive(d)')
  BY <1>4 DEF NoneOf, AllLive
<1>6. HandlerInv'
  <2> SUFFICES ASSUME NEW g \in Waiting'
               PROVE  /\ g.id.n <= n[g.id.clnt]
                      /\ Current(g) => g.call = call[g.id.clnt]
                      /\ g.live => Current(g) /\ rpc'[g.id.clnt].st = "running"
                      /\ Unstable = {} => g.live
    BY <1>4 DEF HandlerInv
  <2>1. g.live => rpc'[g.id.clnt] = rpc[g.id.clnt]
    BY <1>2, WaitingType DEF Apart
  <2> QED BY <2>1 DEF HandlerInv
<1> QED BY <1>1, <1>2, <1>3, <1>4, <1>5, <1>6

LEMMA ServeGetInv == ASSUME Inv, TypeOK', ServeGet PROVE Inv'
<1>0. TypeOK /\ HandlerInv /\ LiveInv /\ StoreInv /\ ClerkInv
  BY DEF Inv
<1> DEFINE h == Head(opQ)
           reply == GetReply(kv[h.call.key])
<1>1. /\ opQ # << >> /\ opQ' = Tail(opQ) /\ h.call.op = "Get" /\ Answer(h, reply) /\ Note(h, reply)
      /\ UNCHANGED <<kv, handlers, enabled, call, i, out, n, log>>
  BY DEF ServeGet
<1>2. /\ h \in Waiting /\ Waiting = Waiting' \cup {h} /\ \A g \in Waiting' : Apart(h, g)
      /\ LiveInv'
  BY <1>0, <1>1, PopLive
<1>3. reply.err \in {"OK", "ErrNoKey"}
  BY DEF GetReply, ErrReply
<1> HIDE DEF h, reply
<1>c. PICK c \in Clients : c = h.id.clnt
  BY <1>0, <1>2, WaitingType
<1>4. /\ HandlerInv'
      /\ \A d \in Clients \ {c} : rpc'[d] = rpc[d] /\ answer'[d] = answer[d]
      /\ ~h.live => rpc' = rpc /\ answer' = answer
      /\ h.live => rpc'[c].st = "replied" /\ rpc'[c].reply = reply /\ answer'[c] = reply
      /\ \A g \in Waiting' : Current(g)' <=> Current(g)
      /\ \A d : (NoneOf(d) => NoneOf(d)') /\ (AllLive(d) => AllLive(d)')
  BY <1>0, <1>1, <1>2, <1>c, AnswerInv
<1>5. /\ \A d : Performed(d)' <=> Performed(d)
      /\ \A k : Written(k)' = Written(k)
  BY <1>1 DEF Performed, Written, Id
<1>6. StoreInv'
  BY <1>0, <1>1, <1>2, <1>4, <1>5 DEF StoreInv
<1>7. \A k \in Keys : Version(kv'[k]) \in Nat /\ Version(kv[k]) <= Version(kv'[k])
  BY <1>0, <1>1, VersionType, SMT
<1>8. ASSUME NEW d \in Clients, d # c \/ ~h.live PROVE ClerkOK(d)'
  <2>1. ClerkOK(d) /\ UNCHANGED <<i, call, enabled>> /\ rpc'[d] = rpc[d] /\ answer'[d] = answer[d]
    BY <1>0, <1>1, <1>4, <1>8 DEF ClerkInv
  <2> QED BY <1>0, <1>4, <1>5, <1>7, <2>1, Untouched
<1>9. ASSUME h.live PROVE ClerkOK(c)'
  <2>1. call[c] = h.call /\ rpc[c].st = "running"
    BY <1>0, <1>2, <1>9, <1>c DEF HandlerInv
  <2>2. ClerkOK(c) /\ call[c] # NoCall /\ i[c] # 0
    BY <1>0, <1>4, <2>1 DEF ClerkInv, ClerkOK
  <2>3. ReplyInv(c)'
    BY <1>1, <1>3, <1>4, <1>9, <2>1 DEF ReplyInv
  <2> QED BY <1>1, <1>4, <1>9, <2>1, <2>2, <2>3 DEF ClerkOK
<1>10. ClerkInv'
  BY <1>4, <1>8, <1>9 DEF ClerkInv
<1> QED BY <1>2, <1>4, <1>6, <1>10 DEF Inv

\* The two outcomes of a Put at the server, for the handler h of Clerk c.
LEMMA ServePutStore ==
  ASSUME TypeOK, StoreInv, HandlerInv, NEW h \in Waiting, h.call.op = "Put",
         NEW err, err = PutErr(kv[h.call.key], h.call.version),
         kv' = (IF err = "OK" THEN [kv EXCEPT ![h.call.key] = PutEntry(@, h.call.value)] ELSE kv),
         log' = (IF err = "OK" THEN [log EXCEPT ![h.call.key] = Append(@, h.id)] ELSE log),
         UNCHANGED <<call, n>>
  PROVE  /\ err \in {"OK", "ErrVersion", "ErrNoKey"}
         /\ err = "OK" <=> Version(kv[h.call.key]) = h.call.version
         /\ err = "ErrNoKey" => Version(kv[h.call.key]) = 0 /\ h.call.version # 0
         /\ err = "OK" => Current(h) /\ h.call = call[h.id.clnt]
         /\ \A k \in Keys : Version(kv'[k]) \in Nat /\ Version(kv[k]) <= Version(kv'[k])
         /\ \A k \in Keys : Written(k)' = IF err = "OK" /\ k = h.call.key THEN Written(k) \cup {h.id}
                                          ELSE Written(k)
         /\ err = "OK" => h.call.version < Version(kv'[h.call.key])
         /\ \A k \in Keys : kv'[k] # NoEntry => kv'[k].version # 0
<1> DEFINE k == h.call.key
<1>1. /\ h.id.clnt \in Clients /\ h.id.n \in Nat /\ k \in Keys /\ h.call.version \in Nat
      /\ h.call.value \in Values /\ kv[k] \in Entry \cup {NoEntry} /\ h.id \in CallId
  BY WaitingType DEF TypeOK, Handler
<1>2. /\ err \in {"OK", "ErrVersion", "ErrNoKey"}
      /\ err = "OK" <=> Version(kv[k]) = h.call.version
      /\ err = "ErrNoKey" => Version(kv[k]) = 0 /\ h.call.version # 0
      /\ Version(kv[k]) \in Nat
      /\ Version(PutEntry(kv[k], h.call.value)) = Version(kv[k]) + 1
      /\ PutEntry(kv[k], h.call.value) # NoEntry
  BY <1>1, PutTypes, SMT DEF Version
<1>3. PutEntry(kv[k], h.call.value).version # 0
  BY <1>2, SMT DEF Version
<1>4. err = "OK" => Current(h) /\ h.call = call[h.id.clnt]
  BY <1>1, <1>2, SMT DEF StoreInv, HandlerInv
<1>5. /\ \A l \in Keys \ {k} : kv'[l] = kv[l] /\ log'[l] = log[l]
      /\ err = "OK" => kv'[k] = PutEntry(kv[k], h.call.value) /\ log'[k] = Append(log[k], h.id)
      /\ err # "OK" => kv' = kv /\ log' = log
  BY <1>1 DEF TypeOK
<1> HIDE DEF k
<1>6. \A l \in Keys : Version(kv[l]) \in Nat
  BY VersionType
<1>7. \A l \in Keys : Version(kv'[l]) \in Nat /\ Version(kv[l]) <= Version(kv'[l])
  BY <1>1, <1>2, <1>5, <1>6, SMT
<1>8. err = "OK" => Version(kv'[k]) = Version(kv[k]) + 1
  BY <1>2, <1>5
<1>9. \A l \in Keys : kv'[l] # NoEntry => kv'[l].version # 0
  BY <1>3, <1>5 DEF StoreInv
<1>10. err = "OK" => Written(k)' = Written(k) \cup {h.id}
  <2> SUFFICES ASSUME err = "OK" PROVE Range(Append(log[k], h.id)) = Range(log[k]) \cup {h.id}
    BY <1>5 DEF Written
  <2>1. log[k] \in Seq(CallId)
    BY <1>1 DEF TypeOK
  <2>2. /\ DOMAIN Append(log[k], h.id) = 1..(Len(log[k]) + 1) /\ DOMAIN log[k] = 1..Len(log[k])
        /\ Len(log[k]) \in Nat /\ Append(log[k], h.id)[Len(log[k]) + 1] = h.id
        /\ \A j \in 1..Len(log[k]) : Append(log[k], h.id)[j] = log[k][j]
    BY <1>1, <2>1, SMT
  <2>3. \A x \in Range(Append(log[k], h.id)) : x \in Range(log[k]) \cup {h.id}
    <3> SUFFICES ASSUME NEW j \in 1..(Len(log[k]) + 1)
                 PROVE  Append(log[k], h.id)[j] \in Range(log[k]) \cup {h.id}
      BY <2>2 DEF Range
    <3>1. CASE j = Len(log[k]) + 1
      BY <2>2, <3>1
    <3>2. CASE j # Len(log[k]) + 1
      <4>1. j \in 1..Len(log[k])
        BY <2>2, <3>2, SMT
      <4> QED BY <2>2, <4>1 DEF Range
    <3> QED BY <3>1, <3>2
  <2>4. \A x \in Range(log[k]) \cup {h.id} : x \in Range(Append(log[k], h.id))
    <3>1. h.id \in Range(Append(log[k], h.id))
      BY <2>2, SMT DEF Range
    <3>2. ASSUME NEW j \in 1..Len(log[k]) PROVE log[k][j] \in Range(Append(log[k], h.id))
      <4>1. j \in 1..(Len(log[k]) + 1)
        BY <2>2, SMT
      <4> QED BY <2>2, <4>1 DEF Range
    <3> QED BY <2>2, <3>1, <3>2, SMT DEF Range
  <2> QED BY <2>3, <2>4
<1>11. \A l \in Keys : Written(l)' = IF err = "OK" /\ l = k THEN Written(l) \cup {h.id} ELSE Written(l)
  <2>1. \A l \in Keys : l # k => Written(l)' = Written(l)
    BY <1>5 DEF Written
  <2>2. err # "OK" => \A l \in Keys : Written(l)' = Written(l)
    BY <1>5 DEF Written
  <2>3. \A l \in Keys : err = "OK" /\ l = k => Written(l)' = Written(l) \cup {h.id}
    BY <1>10 DEF k
  <2> QED BY <2>1, <2>2, <2>3
<1>12. err = "OK" => h.call.version < Version(kv'[k])
  BY <1>1, <1>2, <1>8, SMT
<1> QED BY <1>2, <1>4, <1>7, <1>9, <1>11, <1>12 DEF k

\* Which Puts count as performed once the server has dealt with that of h.
PutWrites(h, err) ==
  \A k \in Keys : Written(k)' = IF err = "OK" /\ k = h.call.key THEN Written(k) \cup {h.id} ELSE Written(k)

LEMMA PerformedByPut ==
  ASSUME TypeOK, NEW h \in Waiting, NEW c \in Clients, c = h.id.clnt, NEW err, call' = call, n' = n,
         err = "OK" => Current(h) /\ h.call = call[c],
         PutWrites(h, err), NEW d \in Clients, call[d].op = "Put"
  PROVE  /\ d # c \/ err # "OK" => (Performed(d)' <=> Performed(d))
         /\ err = "OK" /\ d = c => Performed(d)'
<1>1. call[d].key \in Keys
  BY CallTypes, SMT DEF TypeOK, GetCall, PutCall, NoCall
<1>2. h.id = Id(c, h.id.n)
  BY WaitingType
<1>3. /\ d # c => Id(d, n[d]) # h.id
      /\ err = "OK" /\ d = c => h.id = Id(d, n[d]) /\ h.call = call[d]
  BY <1>2, SMT DEF Id, Current
<1>4. Performed(d)' <=> Id(d, n[d]) \in Written(call[d].key)'
  BY DEF Performed, Id
<1> QED BY <1>1, <1>3, <1>4 DEF Performed, PutWrites

LEMMA ServePutStoreInv ==
  ASSUME TypeOK, StoreInv, HandlerInv, NEW h \in Waiting, NEW err, UNCHANGED <<call, n>>,
         Waiting' \subseteq Waiting, \A g \in Waiting' : Current(g)' <=> Current(g),
         \A k \in Keys : Version(kv'[k]) \in Nat /\ Version(kv[k]) <= Version(kv'[k]),
         \A k \in Keys : kv'[k] # NoEntry => kv'[k].version # 0,
         \A k \in Keys : Written(k)' = IF err = "OK" /\ k = h.call.key THEN Written(k) \cup {h.id}
                                       ELSE Written(k),
         \A d \in Clients : call[d].op = "Put" /\ Performed(d)' /\ ~Performed(d) =>
                              call[d].version < Version(kv'[call[d].key])
  PROVE  StoreInv'
<1>1. \A k \in Keys : Version(kv[k]) \in Nat
  BY VersionType
<1>2. \A d \in Clients : call[d].op = "Put" => call[d].key \in Keys /\ call[d].version \in Nat
  BY CallTypes DEF TypeOK, GetCall, PutCall, NoCall
<1>3. \A k \in Keys : \A id \in Written(k)' : id.n <= n'[id.clnt]
  BY DEF StoreInv, HandlerInv
<1>4. \A g \in Waiting' : g.call.op = "Put" /\ ~Current(g)' => g.call.version < Version(kv'[g.call.key])
  <2> SUFFICES ASSUME NEW g \in Waiting', g.call.op = "Put", ~Current(g)
               PROVE  g.call.version < Version(kv'[g.call.key])
    OBVIOUS
  <2>1. g.call.key \in Keys /\ g.call.version \in Nat /\ g.call.version < Version(kv[g.call.key])
    BY WaitingType DEF StoreInv
  <2> QED BY <1>1, <2>1, SMT
<1>5. \A d \in Clients : call[d].op = "Put" =>
        /\ Performed(d)' => call[d].version < Version(kv'[call[d].key])
        /\ ~AnyVersion => call[d].version <= Version(kv'[call[d].key])
  BY <1>1, <1>2, SMT DEF StoreInv
<1> QED BY <1>3, <1>4, <1>5 DEF StoreInv

\* The Clerk whose Put is answered.
LEMMA ServePutLive ==
  ASSUME NoStrayWrites, Inv, NEW h \in Waiting, NEW c \in Clients, c = h.id.clnt, h.live, h.call.op = "Put",
         NEW err \in {"OK", "ErrVersion", "ErrNoKey"},
         err = "OK" <=> Version(kv[h.call.key]) = h.call.version,
         err = "ErrNoKey" => Version(kv[h.call.key]) = 0 /\ h.call.version # 0,
         \A k \in Keys : Version(kv'[k]) \in Nat /\ Version(kv[k]) <= Version(kv'[k]),
         err = "OK" => Performed(c)', err # "OK" => (Performed(c)' <=> Performed(c)),
         AllLive(c) => NoneOf(c)', UNCHANGED <<call, i, enabled>>,
         rpc'[c].st = "replied", rpc'[c].reply = ErrReply(err), err # "OK" => answer'[c] = ErrReply(err)
  PROVE  ClerkOK(c)'
<1>0. TypeOK /\ HandlerInv /\ StoreInv /\ ClerkOK(c)
  BY DEF Inv, ClerkInv
<1>1. Current(h) /\ call[c] = h.call /\ call[c].op = "Put" /\ rpc[c].st = "running"
  BY <1>0 DEF HandlerInv
<1>2. call[c] # NoCall /\ i[c] # 0 /\ i[c] \in 0..2
  BY <1>0, <1>1 DEF ClerkOK, TypeOK
<1>3. /\ call[c].key \in Keys /\ call[c].version \in Nat
      /\ Version(kv[call[c].key]) \in Nat /\ Version(kv'[call[c].key]) \in Nat
      /\ Version(kv[call[c].key]) <= Version(kv'[call[c].key])
  <2>1. call[c].key \in Keys /\ call[c].version \in Nat
    BY <1>0, <1>1, WaitingType
  <2> QED BY <1>0, <2>1, VersionType
<1>4. /\ Performed(c) => call[c].version < Version(kv[call[c].key])
      /\ ~AnyVersion => call[c].version <= Version(kv[call[c].key])
  BY <1>0, <1>1 DEF StoreInv
<1>5. err = "ErrVersion" /\ i[c] # 2 => ~Performed(c)' /\ NoneOf(c)'
  <2> SUFFICES ASSUME err = "ErrVersion", i[c] # 2 PROVE ~Performed(c)' /\ NoneOf(c)'
    OBVIOUS
  <2>1. FirstTry(c)
    BY <1>1, <1>2, SMT DEF FirstTry
  <2> QED BY <1>0, <1>1, <2>1 DEF ClerkOK
<1>6. err = "ErrVersion" /\ ~AnyVersion => call[c].version < Version(kv'[call[c].key])
  BY <1>1, <1>3, <1>4, SMT
<1>7. err = "ErrNoKey" => ~Performed(c)' /\ NoneOf(c)' /\ AnyVersion
  <2> SUFFICES ASSUME err = "ErrNoKey" PROVE ~Performed(c)' /\ NoneOf(c)' /\ AnyVersion
    OBVIOUS
  <2>1. ~Performed(c) /\ AnyVersion
    BY <1>1, <1>3, <1>4, SMT
  <2>2. AllLive(c)
    BY <1>0, <2>1 DEF NoStrayWrites, HandlerInv, AllLive
  <2> QED BY <2>1, <2>2
<1>8. ErrReply(err).err = err
  BY DEF ErrReply
<1>9. ReplyInv(c)'
  BY <1>1, <1>5, <1>6, <1>7, <1>8 DEF ReplyInv
<1>10. ~FirstTry(c)'
  BY <1>2 DEF FirstTry
<1> QED BY <1>0, <1>1, <1>2, <1>9, <1>10 DEF ClerkOK

\* The Clerk that has given up the try whose Put is installed.
LEMMA ServePutStray ==
  ASSUME Inv, NEW h \in Waiting, NEW c \in Clients, c = h.id.clnt, ~h.live, h.call.op = "Put",
         Current(h), h.call = call[c], UNCHANGED <<call, i, enabled, rpc, answer>>, Performed(c)',
         call[c].version < Version(kv'[call[c].key])
  PROVE  ClerkOK(c)'
<1>1. ClerkOK(c) /\ ~NoneOf(c) /\ ~AllLive(c) /\ call[c].op = "Put"
  BY DEF Inv, NoneOf, AllLive, ClerkInv
<1>2. ~FirstTry(c)' /\ ~FirstTry(c)
  BY <1>1 DEF ClerkOK, FirstTry
<1>3. ReplyInv(c) => ReplyInv(c)'
  BY <1>1 DEF ReplyInv
<1> QED BY <1>1, <1>2, <1>3 DEF ClerkOK

LEMMA ServePutInv == ASSUME NoStrayWrites, Inv, TypeOK', ServePut PROVE Inv'
<1>0. TypeOK /\ HandlerInv /\ LiveInv /\ StoreInv /\ ClerkInv
  BY DEF Inv
<1>1. PICK h \in Waiting : h = Head(opQ)
  BY <1>0, PopLive DEF ServePut
<1> DEFINE err0 == PutErr(kv[h.call.key], h.call.version)
<1>e. PICK err \in {err0} : TRUE
  OBVIOUS
<1>2. /\ opQ # << >> /\ opQ' = Tail(opQ) /\ h.call.op = "Put"
      /\ kv' = (IF err = "OK" THEN [kv EXCEPT ![h.call.key] = PutEntry(@, h.call.value)] ELSE kv)
      /\ log' = (IF err = "OK" THEN [log EXCEPT ![h.call.key] = Append(@, h.id)] ELSE log)
      /\ Answer(h, ErrReply(err)) /\ Note(h, ErrReply(err))
      /\ UNCHANGED <<handlers, enabled, call, i, out, n>>
  BY <1>1, <1>e DEF ServePut
<1>3. Waiting = Waiting' \cup {h} /\ (\A g \in Waiting' : Apart(h, g)) /\ LiveInv'
  BY <1>0, <1>1, <1>2, PopLive
<1>4. /\ err \in {"OK", "ErrVersion", "ErrNoKey"}
      /\ err = "OK" <=> Version(kv[h.call.key]) = h.call.version
      /\ err = "ErrNoKey" => Version(kv[h.call.key]) = 0 /\ h.call.version # 0
      /\ err = "OK" => Current(h) /\ h.call = call[h.id.clnt]
      /\ \A k \in Keys : Version(kv'[k]) \in Nat /\ Version(kv[k]) <= Version(kv'[k])
      /\ \A k \in Keys : Written(k)' = IF err = "OK" /\ k = h.call.key THEN Written(k) \cup {h.id}
                                       ELSE Written(k)
      /\ err = "OK" => h.call.version < Version(kv'[h.call.key])
      /\ \A k \in Keys : kv'[k] # NoEntry => kv'[k].version # 0
  BY <1>0, <1>2, <1>e, ServePutStore
<1> HIDE DEF err0
<1>m. \A k \in Keys : Version(kv'[k]) \in Nat /\ Version(kv[k]) <= Version(kv'[k])
  BY <1>4
<1>w. \A k \in Keys : Written(k)' = IF err = "OK" /\ k = h.call.key THEN Written(k) \cup {h.id}
                                    ELSE Written(k)
  BY <1>4
<1>c. PICK c \in Clients : c = h.id.clnt
  BY <1>0, WaitingType
<1>o. err = "OK" => Current(h) /\ h.call = call[c] /\ call[c].version < Version(kv'[call[c].key])
  BY <1>4, <1>c
<1>u. UNCHANGED <<call, n, i, enabled>>
  BY <1>2
<1>5. ErrReply(err).err = err
  BY DEF ErrReply
<1>6. /\ HandlerInv'
      /\ \A d \in Clients \ {c} : rpc'[d] = rpc[d] /\ answer'[d] = answer[d]
      /\ ~h.live => rpc' = rpc /\ answer' = answer
      /\ h.live => /\ rpc'[c].st = "replied" /\ rpc'[c].reply = ErrReply(err)
                   /\ err # "OK" => answer'[c] = ErrReply(err)
      /\ \A g \in Waiting' : Current(g)' <=> Current(g)
      /\ \A d : (NoneOf(d) => NoneOf(d)') /\ (AllLive(d) => AllLive(d)')
  BY <1>0, <1>2, <1>3, <1>5, <1>c, AnswerInv
<1>7. ASSUME NEW d \in Clients, call[d].op = "Put"
      PROVE  /\ d # c \/ err # "OK" => (Performed(d)' <=> Performed(d))
             /\ err = "OK" /\ d = c => Performed(d)'
  <2>1. TypeOK /\ call' = call /\ n' = n /\ h \in Waiting /\ c = h.id.clnt
    BY <1>0, <1>c, <1>u
  <2>2. err = "OK" => Current(h) /\ h.call = call[c]
    BY <1>o
  <2>3. PutWrites(h, err)
    BY <1>w DEF PutWrites
  <2> QED BY <1>7, <2>1, <2>2, <2>3, PerformedByPut
<1>8. StoreInv'
  <2>1. \A d \in Clients : call[d].op = "Put" /\ Performed(d)' /\ ~Performed(d) =>
                             call[d].version < Version(kv'[call[d].key])
    BY <1>7, <1>o
  <2>2. \A k \in Keys : kv'[k] # NoEntry => kv'[k].version # 0
    BY <1>4
  <2>3. Waiting' \subseteq Waiting /\ \A g \in Waiting' : Current(g)' <=> Current(g)
    BY <1>3, <1>6
  <2> QED BY <1>0, <1>m, <1>u, <1>w, <2>1, <2>2, <2>3, ServePutStoreInv
<1>9. ASSUME NEW d \in Clients, d # c \/ (~h.live /\ err # "OK") PROVE ClerkOK(d)'
  <2>1. ClerkOK(d) /\ rpc'[d] = rpc[d] /\ answer'[d] = answer[d]
    BY <1>0, <1>6, <1>9 DEF ClerkInv
  <2>2. call[d].op = "Put" => (Performed(d)' <=> Performed(d))
    BY <1>7, <1>9
  <2>3. (NoneOf(d) => NoneOf(d)') /\ (AllLive(d) => AllLive(d)')
    BY <1>6
  <2> QED BY <1>0, <1>m, <1>u, <2>1, <2>2, <2>3, Untouched
<1>10. ASSUME ~h.live, err = "OK" PROVE ClerkOK(c)'
  <2>1. rpc' = rpc /\ answer' = answer
    BY <1>6, <1>10
  <2>2. Performed(c)' /\ h.call.op = "Put"
    BY <1>2, <1>7, <1>10, <1>o
  <2> QED BY <1>10, <1>c, <1>o, <1>u, <2>1, <2>2, ServePutStray
<1>11. ASSUME h.live PROVE ClerkOK(c)'
  <2>1. /\ rpc'[c].st = "replied" /\ rpc'[c].reply = ErrReply(err)
        /\ err # "OK" => answer'[c] = ErrReply(err)
    BY <1>6, <1>11
  <2>2. AllLive(c) => NoneOf(c)'
    BY <1>3, <1>6, <1>11, <1>c DEF AllLive, NoneOf, Apart
  <2>3. h.call.op = "Put" /\ call[c].op = "Put"
    BY <1>0, <1>2, <1>11, <1>c DEF HandlerInv
  <2>4. (err = "OK" => Performed(c)') /\ (err # "OK" => (Performed(c)' <=> Performed(c)))
    BY <1>7, <2>3
  <2>5. /\ err \in {"OK", "ErrVersion", "ErrNoKey"}
        /\ err = "OK" <=> Version(kv[h.call.key]) = h.call.version
        /\ err = "ErrNoKey" => Version(kv[h.call.key]) = 0 /\ h.call.version # 0
    BY <1>4
  <2> QED BY <1>11, <1>c, <1>m, <1>u, <2>1, <2>2, <2>3, <2>4, <2>5, ServePutLive
<1>12. ClerkInv'
  BY <1>9, <1>10, <1>11 DEF ClerkInv
<1> QED BY <1>3, <1>6, <1>8, <1>12 DEF Inv

LEMMA NextInv == NoStrayWrites /\ Inv /\ [Next]_vars => Inv'
<1> SUFFICES ASSUME NoStrayWrites, Inv, [Next]_vars PROVE Inv'
  OBVIOUS
<1>0. TypeOK /\ ClerkInv
  BY DEF Inv
<1>1. ASSUME NEW c \in Clients, Get(c) PROVE Inv'
  <2>1. PICK k \in Keys : Invoke(c, [op |-> "Get", key |-> k])
    BY <1>1 DEF Get
  <2> DEFINE op == [op |-> "Get", key |-> k]
  <2>2. op \in CallType /\ op.op # "Put"
    BY DEF CallType, GetCall
  <2>3. TypeOK'
    BY <1>0, <1>1, ClerkType
  <2> HIDE DEF op
  <2> QED BY <2>1, <2>2, <2>3, InvokeInv DEF op
<1>2. ASSUME NEW c \in Clients, Put(c) PROVE Inv'
  <2>1. PICK k \in Keys, value \in Values \ {EmptyValue} :
          \E version \in 0..(IF AnyVersion THEN MaxVersion ELSE Version(kv[k])) :
            Invoke(c, [op |-> "Put", key |-> k, value |-> value, version |-> version])
    BY <1>2 DEF Put
  <2>2. PICK version \in 0..(IF AnyVersion THEN MaxVersion ELSE Version(kv[k])) :
          Invoke(c, [op |-> "Put", key |-> k, value |-> value, version |-> version])
    BY <2>1
  <2> DEFINE op == [op |-> "Put", key |-> k, value |-> value, version |-> version]
  <2>3. op \in CallType /\ op.key = k /\ op.version = version
    BY SMT DEF CallType, PutCall
  <2>4. ~AnyVersion => version <= Version(kv[k])
    BY <1>0, VersionType, SMT
  <2>5. TypeOK'
    BY <1>0, <1>2, ClerkType
  <2> HIDE DEF op
  <2> QED BY <2>2, <2>3, <2>4, <2>5, InvokeInv DEF op
<1>3. ASSUME NEW c \in Clients,
             \/ Send(c) \/ SendDisabled(c) \/ DropRequest(c) \/ LoseReply(c) \/ SendReply(c)
             \/ Disconnect(c) \/ Connect(c)
      PROVE  Inv'
  BY <1>0, <1>3, ClerkType, QuietInv
<1>4. ASSUME NEW c \in Clients, Deliver(c) PROVE Inv'
  BY <1>0, <1>4, ClerkType, DeliverInv
<1>5. \A c \in Clients : rpc[c].st # "none" => call[c] # NoCall
  BY <1>0 DEF ClerkInv, ClerkOK
<1>6. ASSUME NEW c \in Clients, Dispatch(c) \/ Abandon(c) PROVE Inv'
  <2>1. TypeOK'
    BY <1>0, <1>5, <1>6, HandlerType
  <2> QED BY <1>6, <2>1, DispatchInv, AbandonInv
<1>7. CASE Enqueue
  BY <1>0, <1>5, <1>7, HandlerType, EnqueueInv
<1>8. CASE ServeGet \/ ServePut
  BY <1>0, <1>8, ServeType, ServeGetInv, ServePutInv
<1>9. CASE UNCHANGED vars
  <2>1. UNCHANGED <<kv, opQ, handlers, enabled, call, i, rpc, out, n, log, answer>>
    BY <1>9 DEF vars
  <2>2. /\ Waiting' = Waiting /\ \A h : Current(h)' <=> Current(h)
        /\ \A d : Performed(d)' <=> Performed(d)
        /\ \A k : Written(k)' = Written(k)
    BY <2>1 DEF Waiting, Current, Performed, Written, Id
  <2>3. TypeOK' /\ HandlerInv' /\ LiveInv' /\ StoreInv'
    BY <2>1, <2>2, SMT DEF Inv, TypeOK, HandlerInv, LiveInv, StoreInv, Elements
  <2>4. \A d \in Clients : ClerkOK(d) <=> ClerkOK(d)'
    BY <2>1, <2>2, SMT DEF ClerkOK, ReplyInv, NoneOf, AllLive, FirstTry
  <2> QED BY <1>0, <2>3, <2>4 DEF Inv, ClerkInv
<1> QED BY <1>1, <1>2, <1>3, <1>4, <1>6, <1>7, <1>8, <1>9 DEF Next, Finished

(***************************************************************************)
(* The refinement.                                                         *)
(***************************************************************************)
LEMMA SameTypes ==
  /\ VKV!NoCall = NoCall /\ VKV!NoReply = NoReply /\ VKV!Errs = Errs
  /\ VKV!GetCall = GetCall /\ VKV!PutCall = PutCall
  /\ \A err : VKV!ErrReply(err) = ErrReply(err)
BY DEF VKV!NoCall, NoCall, VKV!NoReply, NoReply, VKV!Errs, Errs, VKV!GetCall, GetCall, VKV!PutCall, PutCall,
       VKV!ErrReply, ErrReply

LEMMA RegAt ==
  ASSUME Inv, NEW k \in Keys
  PROVE  /\ RegView[k].version = Version(kv[k]) /\ Version(kv[k]) \in Nat
         /\ kv[k] \in Entry \cup {NoEntry}
         /\ kv[k] = NoEntry => RegView[k] = [value |-> EmptyValue, version |-> 0]
         /\ kv[k] # NoEntry => RegView[k] = kv[k]
         /\ Version(kv[k]) = 0 <=> kv[k] = NoEntry
<1>1. kv[k] \in Entry \cup {NoEntry} /\ (kv[k] # NoEntry => kv[k].version # 0)
  BY DEF Inv, TypeOK, StoreInv
<1>2. /\ kv[k] = NoEntry => RegView[k] = [value |-> EmptyValue, version |-> 0]
      /\ kv[k] # NoEntry => RegView[k] = kv[k]
  BY DEF RegView
<1>3. kv[k] # NoEntry => kv[k].version \in Nat
  BY <1>1 DEF Entry
<1>4. RegView[k].version = Version(kv[k])
  BY <1>2, SMT DEF Version
<1> QED BY <1>1, <1>2, <1>3, <1>4 DEF Version

LEMMA InitView == Init => VKV!kvInit
<1> SUFFICES ASSUME Init PROVE VKV!kvInit
  OBVIOUS
<1>1. RegView = [k \in Keys |-> VKV!InitEntry]
  BY DEF Init, RegView, VKV!InitEntry
<1>2. \A c \in Clients : call[c].op # "Put"
  BY CallTypes DEF Init
<1>3. PerformedView = [c \in Clients |-> FALSE]
  BY <1>2 DEF PerformedView
<1> QED BY <1>1, <1>3, SameTypes DEF Init, VKV!kvInit

\* Nothing the abstract state is made of changes.
LEMMA QuietView ==
  ASSUME UNCHANGED <<kv, call, out, n, log, answer>>
  PROVE  UNCHANGED VKV!kvVars
<1>1. RegView' = RegView
  BY DEF RegView
<1>2. PerformedView' = PerformedView
  BY DEF PerformedView, Written, Id
<1> QED BY <1>1, <1>2 DEF VKV!kvVars

\* PerformedView changes for one Clerk.
LEMMA PerformedAt ==
  ASSUME NEW c \in Clients, NEW b \in BOOLEAN,
         (call'[c].op = "Put" /\ Performed(c)') <=> b,
         \A d \in Clients \ {c} : (call'[d].op = "Put" /\ Performed(d)') <=> (call[d].op = "Put" /\ Performed(d))
  PROVE  PerformedView' = [PerformedView EXCEPT ![c] = b]
<1>1. /\ PerformedView = [d \in Clients |-> call[d].op = "Put" /\ Performed(d)]
      /\ PerformedView' = [d \in Clients |-> call'[d].op = "Put" /\ Performed(d)']
  BY DEF PerformedView, Performed
<1>2. \A d \in Clients : PerformedView'[d] = [PerformedView EXCEPT ![c] = b][d]
  <2> SUFFICES ASSUME NEW d \in Clients PROVE PerformedView'[d] = [PerformedView EXCEPT ![c] = b][d]
    OBVIOUS
  <2>1. CASE d = c
    BY <1>1, <2>1
  <2>2. CASE d # c
    BY <1>1, <2>2
  <2> QED BY <2>1, <2>2
<1>3. DOMAIN PerformedView' = Clients /\ DOMAIN [PerformedView EXCEPT ![c] = b] = Clients
  BY <1>1
<1>4. PerformedView' = [d \in Clients |-> PerformedView'[d]]
  BY <1>1
<1> QED BY <1>1, <1>2, <1>3

LEMMA InvokeView ==
  ASSUME Inv, Inv', NEW c \in Clients, NEW op \in CallType, Invoke(c, op)
  PROVE  VKV!Start(c)
<1>1. /\ call[c] = NoCall /\ UNCHANGED <<kv, log, answer>> /\ call' = [call EXCEPT ![c] = op]
      /\ i' = [i EXCEPT ![c] = 0] /\ n' = [n EXCEPT ![c] = @ + 1] /\ out' = [out EXCEPT ![c] = NoReply]
  BY DEF Invoke
<1>2. /\ call'[c] = op /\ i'[c] = 0
      /\ \A d \in Clients \ {c} : call'[d] = call[d] /\ n'[d] = n[d]
  BY <1>1 DEF Inv, TypeOK
<1>3. ~(call'[c].op = "Put" /\ Performed(c)')
  BY <1>2 DEF Inv, ClerkInv, ClerkOK, FirstTry
<1>4. \A d \in Clients \ {c} : Performed(d)' <=> Performed(d)
  BY <1>1, <1>2 DEF Performed, Written, Id
<1>5. PerformedView' = [PerformedView EXCEPT ![c] = FALSE]
  BY <1>2, <1>3, <1>4, PerformedAt
<1>6. PerformedView' = PerformedView
  <2>1. call[c].op # "Put"
    BY <1>1, CallTypes
  <2>2. PerformedView = [d \in Clients |-> call[d].op = "Put" /\ Performed(d)]
    BY DEF PerformedView, Performed
  <2>3. PerformedView[c] = FALSE
    BY <2>1, <2>2
  <2>4. [PerformedView EXCEPT ![c] = FALSE] = PerformedView
    BY <2>2, <2>3
  <2> QED BY <1>5, <2>4
<1>7. RegView' = RegView
  BY <1>1 DEF RegView
<1>8. VKV!Invoke(c, op)
  BY <1>1, <1>6, <1>7, SameTypes DEF VKV!Invoke
<1> QED BY <1>2, <1>8, SameTypes DEF VKV!Start, CallType

LEMMA ServeGetView ==
  ASSUME Inv, ServeGet
  PROVE  (\E c \in Clients : VKV!Read(c)) \/ UNCHANGED VKV!kvVars
<1>0. TypeOK /\ HandlerInv /\ LiveInv
  BY DEF Inv
<1>1. PICK h \in Waiting : h = Head(opQ)
  BY <1>0, PopLive DEF ServeGet
<1>2. /\ h.call.op = "Get" /\ Note(h, GetReply(kv[h.call.key]))
      /\ UNCHANGED <<kv, call, out, n, log>>
  BY <1>1 DEF ServeGet
<1>3. CASE ~h.live
  <2>1. answer' = answer
    BY <1>2, <1>3 DEF Note
  <2> QED BY <1>2, <2>1, QuietView
<1>4. CASE h.live
  <2>1. PICK c \in Clients : c = h.id.clnt
    BY <1>0, WaitingType
  <2>2. call[c] = h.call /\ call[c].key \in Keys
    BY <1>0, <1>4, <2>1, WaitingType DEF HandlerInv
  <2>3. answer' = [answer EXCEPT ![c] = GetReply(kv[call[c].key])]
    BY <1>2, <1>4, <2>1, <2>2 DEF Note
  <2>4. GetReply(kv[call[c].key]) = VKV!ReadReply(RegView[call[c].key])
    <3> DEFINE k == call[c].key
    <3>1. CASE kv[k] = NoEntry
      BY <2>2, <3>1, RegAt, SMT DEF GetReply, ErrReply, VKV!ReadReply
    <3>2. CASE kv[k] # NoEntry
      BY <2>2, <3>2, RegAt DEF GetReply, VKV!ReadReply, Version
    <3> QED BY <3>1, <3>2
  <2>5. UNCHANGED <<RegView, PerformedView>>
    BY <1>2 DEF RegView, PerformedView, Written, Id
  <2>6. VKV!Read(c)
    BY <1>2, <2>2, <2>3, <2>4, <2>5 DEF VKV!Read
  <2> QED BY <2>6
<1> QED BY <1>3, <1>4

LEMMA ServePutView ==
  ASSUME Inv, ServePut
  PROVE  (\E c \in Clients : VKV!Perform(c) \/ VKV!Refuse(c)) \/ UNCHANGED VKV!kvVars
<1>0. TypeOK /\ HandlerInv /\ LiveInv /\ StoreInv
  BY DEF Inv
<1>1. PICK h \in Waiting : h = Head(opQ)
  BY <1>0, PopLive DEF ServePut
<1> DEFINE err0 == PutErr(kv[h.call.key], h.call.version)
<1>e. PICK err \in {err0} : TRUE
  OBVIOUS
<1>2. /\ h.call.op = "Put" /\ Note(h, ErrReply(err))
      /\ kv' = (IF err = "OK" THEN [kv EXCEPT ![h.call.key] = PutEntry(@, h.call.value)] ELSE kv)
      /\ log' = (IF err = "OK" THEN [log EXCEPT ![h.call.key] = Append(@, h.id)] ELSE log)
      /\ UNCHANGED <<call, out, n>>
  BY <1>1, <1>e DEF ServePut
<1>3. /\ err \in {"OK", "ErrVersion", "ErrNoKey"}
      /\ err = "OK" <=> Version(kv[h.call.key]) = h.call.version
      /\ err = "OK" => Current(h) /\ h.call = call[h.id.clnt]
      /\ \A k \in Keys : Written(k)' = IF err = "OK" /\ k = h.call.key THEN Written(k) \cup {h.id}
                                       ELSE Written(k)
  BY <1>0, <1>2, <1>e, ServePutStore
<1>4. /\ h.call.key \in Keys /\ h.call.version \in Nat /\ h.call.value \in Values
      /\ h.id = Id(h.id.clnt, h.id.n)
  BY <1>0, <1>2, WaitingType
<1>c. PICK c \in Clients : c = h.id.clnt
  BY <1>0, WaitingType
<1>5. err = "ErrNoKey" <=> kv[h.call.key] = NoEntry /\ h.call.version # 0
  BY <1>4, <1>e, PutTypes, RegAt, SMT
<1>6. ErrReply(err).err = err
  BY DEF ErrReply
<1> HIDE DEF err0
<1>7. CASE err # "OK" /\ ~h.live
  <2>1. UNCHANGED <<kv, log, answer>>
    BY <1>2, <1>7 DEF Note
  <2> QED BY <1>2, <2>1, QuietView
<1>8. CASE err # "OK" /\ h.live
  <2>1. call[c] = h.call
    BY <1>0, <1>8, <1>c DEF HandlerInv
  <2>2. answer' = [answer EXCEPT ![c] = ErrReply(err)] /\ kv' = kv /\ log' = log
    BY <1>2, <1>6, <1>8, <1>c DEF Note
  <2>3. RegView[call[c].key].version # call[c].version
    BY <1>3, <1>4, <1>8, <2>1, RegAt, SMT
  <2>4. err = VKV!Refusal(RegView[call[c].key])
    <3>1. /\ RegView[call[c].key].version = Version(kv[h.call.key])
          /\ Version(kv[h.call.key]) = 0 <=> kv[h.call.key] = NoEntry
      BY <1>4, <2>1, RegAt
    <3> QED BY <1>3, <1>5, <1>8, <3>1 DEF VKV!Refusal
  <2>5. UNCHANGED <<RegView, PerformedView>>
    BY <1>2, <2>2 DEF RegView, PerformedView, Written, Id
  <2>6. VKV!Refuse(c)
    BY <1>2, <2>1, <2>2, <2>3, <2>4, <2>5, SameTypes DEF VKV!Refuse
  <2> QED BY <2>6
<1>9. CASE err = "OK"
  <2>1. call[c] = h.call /\ h.id = Id(c, n[c])
    BY <1>3, <1>4, <1>9, <1>c DEF Current
  <2>2. answer' = answer
    BY <1>2, <1>6, <1>9 DEF Note
  <2>3. RegView[call[c].key].version = call[c].version
    BY <1>3, <1>4, <1>9, <2>1, RegAt
  <2>4. RegView' = [RegView EXCEPT ![call[c].key] = VKV!PutEntry(@, call[c].value)]
    <3> DEFINE k == h.call.key
    <3>1. kv' = [kv EXCEPT ![k] = PutEntry(kv[k], h.call.value)] /\ kv \in [Keys -> Entry \cup {NoEntry}]
      BY <1>0, <1>2, <1>9 DEF TypeOK
    <3>2. PutEntry(kv[k], h.call.value) # NoEntry
      BY <1>4, <3>1, PutTypes
    <3>3. PutEntry(kv[k], h.call.value) = VKV!PutEntry(RegView[k], h.call.value)
      BY <1>4, RegAt, SMT DEF PutEntry, VKV!PutEntry, Version
    <3>4. \A l \in Keys : RegView'[l] = IF l = k THEN PutEntry(kv[k], h.call.value) ELSE RegView[l]
      BY <1>4, <3>1, <3>2 DEF RegView
    <3>5. RegView' = [l \in Keys |-> IF l = k THEN PutEntry(kv[k], h.call.value) ELSE RegView[l]]
      BY <3>4 DEF RegView
    <3> QED BY <1>4, <2>1, <3>3, <3>5, SMT DEF RegView
  <2>5. PerformedView' = [PerformedView EXCEPT ![c] = TRUE]
    <3>1. Performed(c)'
      BY <1>2, <1>3, <1>4, <1>9, <2>1 DEF Performed, Id
    <3>2. ASSUME NEW d \in Clients \ {c}, call[d].op = "Put" PROVE Performed(d)' <=> Performed(d)
      <4>1. Id(d, n[d]) # h.id /\ call'[d] = call[d] /\ n'[d] = n[d]
        BY <1>2, <2>1, SMT DEF Id
      <4>2. call[d].key \in Keys
        BY <1>0, <3>2, SMT DEF TypeOK, GetCall, PutCall, NoCall
      <4> QED BY <1>3, <4>1, <4>2 DEF Performed, Id
    <3> QED BY <1>2, <2>1, <3>1, <3>2, PerformedAt
  <2>6. VKV!Perform(c)
    BY <1>2, <2>1, <2>2, <2>3, <2>4, <2>5 DEF VKV!Perform
  <2> QED BY <2>6
<1> QED BY <1>7, <1>8, <1>9

LEMMA DeliverView == ASSUME Inv, NEW c \in Clients, Deliver(c) PROVE VKV!Finish(c)
<1>0. TypeOK /\ ClerkOK(c)
  BY DEF Inv, ClerkInv
<1> DEFINE err == ClerkErr(c, rpc[c].reply.err)
           reply == [rpc[c].reply EXCEPT !.err = err]
<1>1. /\ rpc[c].st = "sent" /\ call' = [call EXCEPT ![c] = NoCall] /\ out' = [out EXCEPT ![c] = reply]
      /\ answer' = [answer EXCEPT ![c] = NoReply] /\ UNCHANGED <<kv, n, log>>
  BY DEF Deliver
<1>2. ReplyInv(c) /\ call[c] # NoCall /\ rpc[c].reply \in Reply /\ i[c] \in 0..2
  BY <1>0, <1>1 DEF ClerkOK, TypeOK
<1>3. call[c].op \in {"Get", "Put"}
  BY <1>0, <1>2 DEF TypeOK, GetCall, PutCall
<1>4. RegView' = RegView
  BY <1>1 DEF RegView
<1>5. PerformedView' = [PerformedView EXCEPT ![c] = FALSE]
  <2>1. call'[c].op # "Put" /\ \A d \in Clients \ {c} : call'[d] = call[d]
    BY <1>0, <1>1, CallTypes DEF TypeOK
  <2>2. \A d \in Clients \ {c} : Performed(d)' <=> Performed(d)
    BY <1>1, <2>1 DEF Performed, Written, Id
  <2> QED BY <2>1, <2>2, PerformedAt
<1>6. PerformedView[c] <=> call[c].op = "Put" /\ Performed(c)
  BY DEF PerformedView, Performed
<1>7. ASSUME NEW res, res = reply,
             \/ call[c].op = "Get" /\ answer[c] # NoReply /\ res = answer[c]
             \/ call[c].op = "Put" /\ VKV!PutResult(c, res.err) /\ res = ErrReply(res.err) /\ res.err \in Errs
      PROVE  VKV!Finish(c)
  <2>1. VKV!Return(c, res)
    BY <1>1, <1>4, <1>5, <1>7, SameTypes DEF VKV!Return
  <2>2. res \in VKV!Returns(c)
    BY <1>7, SameTypes DEF VKV!Returns
  <2> QED BY <2>1, <2>2 DEF VKV!Finish
<1>8. CASE call[c].op = "Get"
  <2>1. err = rpc[c].reply.err
    BY <1>8 DEF ClerkErr
  <2>2. rpc[c].reply = answer[c] /\ rpc[c].reply.err \in {"OK", "ErrNoKey"}
    BY <1>2, <1>8 DEF ReplyInv
  <2>3. reply = answer[c]
    BY <1>2, <2>1, <2>2 DEF Reply
  <2>4. answer[c] # NoReply
    BY <2>2, SMT DEF NoReply, ErrReply
  <2> HIDE DEF reply
  <2> QED BY <1>7, <1>8, <2>3, <2>4
<1>9. CASE call[c].op = "Put"
  <2> DEFINE got == rpc[c].reply.err
  <2>1. got \in {"OK", "ErrVersion", "ErrNoKey"} /\ rpc[c].reply = ErrReply(got)
    BY <1>2, <1>9 DEF ReplyInv
  <2>2. err = IF got = "ErrVersion" /\ i[c] > 1 THEN "ErrMaybe" ELSE got
    BY <1>9 DEF ClerkErr
  <2>3. reply = ErrReply(err) /\ reply.err = err
    <3> HIDE DEF err
    <3> QED BY <2>1, SMT DEF ErrReply
  <2>4. err \in Errs
    BY <2>1, <2>2 DEF Errs
  <2>5. got # "OK" => answer[c].err = got
    BY <1>2, <1>9 DEF ReplyInv
  <2>6. /\ got = "OK" => Performed(c)
        /\ got = "ErrVersion" /\ i[c] # 2 => ~Performed(c)
        /\ got = "ErrNoKey" => ~Performed(c)
    BY <1>2, <1>9 DEF ReplyInv
  <2> HIDE DEF err, got
  <2>7. VKV!PutResult(c, err)
    BY <1>2, <1>6, <1>9, <2>1, <2>2, <2>5, <2>6, SMT DEF VKV!PutResult
  <2> HIDE DEF reply
  <2> QED BY <1>7, <1>9, <2>3, <2>4, <2>7
<1> QED BY <1>3, <1>8, <1>9

LEMMA StepView ==
  ASSUME Inv, Inv', [Next]_vars
  PROVE  [VKV!kvNext]_VKV!kvVars
<1>1. ASSUME NEW c \in Clients, Get(c) \/ Put(c) PROVE VKV!kvNext
  <2>1. PICK op \in CallType : Invoke(c, op)
    <3>1. CASE Get(c)
      BY <3>1 DEF Get, CallType, GetCall
    <3>2. CASE Put(c)
      <4>1. PICK k \in Keys, value \in Values \ {EmptyValue} :
              \E version \in 0..(IF AnyVersion THEN MaxVersion ELSE Version(kv[k])) :
                Invoke(c, [op |-> "Put", key |-> k, value |-> value, version |-> version])
        BY <3>2 DEF Put
      <4>2. PICK version \in 0..(IF AnyVersion THEN MaxVersion ELSE Version(kv[k])) :
              Invoke(c, [op |-> "Put", key |-> k, value |-> value, version |-> version])
        BY <4>1
      <4>3. version \in Nat
        BY <4>2, SMT
      <4>4. [op |-> "Put", key |-> k, value |-> value, version |-> version] \in CallType
        BY <4>3 DEF CallType, PutCall
      <4> QED BY <4>2, <4>4
    <3> QED BY <1>1, <3>1, <3>2
  <2>2. VKV!Start(c)
    BY <2>1, InvokeView
  <2> QED BY <2>2 DEF VKV!kvNext
<1>2. ASSUME NEW c \in Clients,
             \/ Send(c) \/ SendDisabled(c) \/ DropRequest(c) \/ Dispatch(c) \/ Abandon(c) \/ LoseReply(c)
             \/ SendReply(c) \/ Disconnect(c) \/ Connect(c)
      PROVE  UNCHANGED VKV!kvVars
  <2>1. UNCHANGED <<kv, call, out, n, log, answer>>
    BY <1>2 DEF Send, SendDisabled, DropRequest, Dispatch, Abandon, LoseReply, SendReply, Disconnect, Connect
  <2> QED BY <2>1, QuietView
<1>3. ASSUME NEW c \in Clients, Deliver(c) PROVE VKV!kvNext
  <2>1. VKV!Finish(c)
    BY <1>3, DeliverView
  <2> QED BY <2>1 DEF VKV!kvNext
<1>4. CASE Enqueue \/ UNCHANGED vars
  <2>1. UNCHANGED <<kv, call, out, n, log, answer>>
    BY <1>4 DEF Enqueue, vars
  <2> QED BY <2>1, QuietView
<1>5. CASE ServeGet
  <2>1. (\E c \in Clients : VKV!Serve(c)) \/ UNCHANGED VKV!kvVars
    BY <1>5, ServeGetView DEF VKV!Serve
  <2> QED BY <2>1 DEF VKV!kvNext
<1>6. CASE ServePut
  <2>1. (\E c \in Clients : VKV!Serve(c)) \/ UNCHANGED VKV!kvVars
    BY <1>6, ServePutView DEF VKV!Serve
  <2> QED BY <2>1 DEF VKV!kvNext
<1> QED BY <1>1, <1>2, <1>3, <1>4, <1>5, <1>6 DEF Next, Finished

\* Get and Put are linearizable against the versioned register, for any number
\* of Clerks, keys and calls: a Put takes effect at most once and while it is
\* pending, OK means it did, ErrVersion and ErrNoKey mean it never will.  The
\* network may drop requests and replies, and either handlers outlive their
\* call (an end is disabled while it runs) or applications make versions up.
THEOREM KVServiceLinearizable == ASSUME NoStrayWrites PROVE Spec => Linearizable
<1>1. Inv /\ [Next]_vars => Inv'
  BY NextInv
<1>2. Inv /\ Inv' /\ [Next]_vars => [VKV!kvNext]_VKV!kvVars
  BY StepView
<1> QED BY <1>1, <1>2, InitInv, InitView, PTL DEF Spec, Linearizable, VKV!kvSpec
=============================================================================
