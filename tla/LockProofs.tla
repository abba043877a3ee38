----------------------------- MODULE LockProofs -----------------------------
(***************************************************************************)
(* The safety properties of Lock, for any number of clients and any number *)
(* of calls.                                                               *)
(***************************************************************************)
EXTENDS Lock, TLAPS

USE EmptyValueAssumption, LockAssumption

\* Facts about the shape of calls and replies.
LEMMA Shapes ==
  /\ LockName \in Keys
  /\ \A c \in Clients : c \in Values
  /\ \A err \in Errs : ErrReply(err) \in Reply /\ ErrReply(err).err = err
  /\ NoReply \in Reply /\ NoReply.err = "none"
  /\ NoCall \in Call /\ NoCall.op = "none"
  /\ [op |-> "Get", key |-> LockName] \in Call
  /\ \A v \in Values, ver \in Nat :
       [op |-> "Put", key |-> LockName, value |-> v, version |-> ver] \in Call
  /\ \A cl \in Call : cl.op \in {"Get", "Put"} => cl.key = LockName
  /\ \A cl \in Call : cl.op = "Put" => cl.value \in Values /\ cl.version \in Nat
  /\ \A cl \in Call : cl.op \in {"none", "Get", "Put"}
BY DEF Errs, ErrReply, Reply, NoReply, NoCall, Call, GetCall, PutCall

LEMMA ReadReplyType == \A e \in Entry : ReadReply(e) \in Reply
BY DEF Entry, ReadReply, Reply, Errs

LEMMA PutEntryType == \A e \in Entry, v \in Values : PutEntry(e, v) \in Entry
BY DEF Entry, PutEntry

\* A call of the Clerk's Get or Put keeps the types.
LEMMA InvokeType ==
  ASSUME NEW c \in Clients, NEW op \in Call, kvTypeOK, Invoke(c, op)
  PROVE  kvTypeOK'
BY Shapes DEF kvTypeOK, Invoke

LEMMA ClerkType ==
  ASSUME NEW c \in Clients, kvTypeOK, Serve(c) \/ Finish(c)
  PROVE  kvTypeOK'
<1>0. LockName \in Keys
  BY Shapes
<1>1. CASE Read(c)
  BY <1>0, <1>1, Shapes, ReadReplyType DEF kvTypeOK, Read
<1>2. CASE Perform(c)
  BY <1>0, <1>2, Shapes, PutEntryType DEF kvTypeOK, Perform
<1>3. CASE Refuse(c)
  <2>1. Refusal(reg[call[c].key]) \in Errs
    BY DEF Refusal, Errs
  <2> QED BY <1>3, <2>1, Shapes DEF kvTypeOK, Refuse
<1>4. CASE Finish(c)
  <2>1. PICK reply \in Returns(c) : Return(c, reply)
    BY <1>4 DEF Finish
  <2>2. reply \in Reply
    BY Shapes DEF Returns, kvTypeOK
  <2> QED BY <2>1, <2>2, Shapes DEF Return, kvTypeOK
<1> QED BY <1>1, <1>2, <1>3, <1>4 DEF Serve

\* Every value a variable of Lock takes has its type.
THEOREM TypeCorrect == Spec => []TypeOK
<1>1. Init => TypeOK
  <2> SUFFICES ASSUME Init PROVE TypeOK
    OBVIOUS
  <2>1. InitEntry \in Entry
    BY DEF InitEntry, Entry
  <2>2. kvTypeOK
    BY <2>1, Shapes DEF Init, kvInit, kvTypeOK
  <2> QED BY <2>2 DEF Init, TypeOK, Locs
<1>2. TypeOK /\ [Next]_vars => TypeOK'
  <2> SUFFICES ASSUME TypeOK, [Next]_vars PROVE TypeOK'
    OBVIOUS
  <2>1. ASSUME NEW c \in Clients, NEW loc \in Locs, Goto(c, loc) PROVE pc' \in [Clients -> Locs]
    BY <2>1 DEF Goto, TypeOK
  <2>2. ASSUME NEW c \in Clients, GetLock(c) PROVE kvTypeOK'
    BY <2>2, InvokeType, Shapes DEF GetLock, TypeOK
  <2>3. ASSUME NEW c \in Clients, NEW v \in Values, PutLock(c, v, out[c].version) PROVE kvTypeOK'
    <3>1. out[c].version \in Nat
      BY DEF TypeOK, kvTypeOK, Reply
    <3> QED BY <2>3, <3>1, InvokeType, Shapes DEF PutLock, TypeOK
  <2>4. UNCHANGED kvVars => kvTypeOK'
    BY DEF kvVars, kvTypeOK, TypeOK
  <2>5. ASSUME NEW c \in Clients, Acquire(c) PROVE TypeOK'
    BY <2>1, <2>2, <2>5 DEF Acquire, TypeOK, Locs, Acquiring
  <2>6. ASSUME NEW c \in Clients, Release(c) PROVE TypeOK'
    BY <2>1, <2>2, <2>6 DEF Release, TypeOK, Locs, Releasing
  <2>7. ASSUME NEW c \in Clients, LockStep(c) PROVE TypeOK'
    <3>1. c \in Values
      BY Shapes
    <3>2. acquires' = acquires
      BY <2>7 DEF LockStep, AcquireGet, AcquirePut, AcquireCheck, ReleaseGet, ReleasePut, ReleaseCheck
    <3>3. \E loc \in Locs : Goto(c, loc)
      BY <2>7 DEF LockStep, AcquireGet, AcquirePut, AcquireCheck, AcquireAgain,
                  ReleaseGet, ReleasePut, ReleaseCheck, Locs, Acquiring, Releasing
    <3>4. \/ GetLock(c)
          \/ \E v \in Values : PutLock(c, v, out[c].version)
          \/ UNCHANGED kvVars
      BY <2>7, <3>1 DEF LockStep, AcquireGet, AcquirePut, AcquireCheck, AcquireAgain,
                        ReleaseGet, ReleasePut, ReleaseCheck
    <3> QED BY <2>1, <2>2, <2>3, <2>4, <3>2, <3>3, <3>4 DEF TypeOK
  <2>8. ASSUME NEW c \in Clients, ClerkStep(c) PROVE TypeOK'
    BY <2>8, ClerkType DEF ClerkStep, TypeOK
  <2>9. CASE UNCHANGED vars
    BY <2>4, <2>9 DEF vars, TypeOK
  <2> QED BY <2>5, <2>6, <2>7, <2>8, <2>9 DEF Next
<1> QED BY <1>1, <1>2, PTL DEF Spec
-----------------------------------------------------------------------------
(***************************************************************************)
(* What a step of one client means for the others.                         *)
(***************************************************************************)
\* The state of client d that ClientInv looks at, apart from the register.
SameClient(d) ==
  /\ pc'[d] = pc[d] /\ call'[d] = call[d] /\ performed'[d] = performed[d]
  /\ answer'[d] = answer[d] /\ out'[d] = out[d]

\* A step that touches neither d nor the register.
LEMMA Untouched ==
  ASSUME NEW d \in Clients, ClientInv(d), SameClient(d), reg' = reg
  PROVE  ClientInv(d)'
BY DEF SameClient, ClientInv, NoCallInv, GetInv, GoodRead, AcquirePutInv, ReleasePutInv,
       LockEntry, Owner

\* A Put of somebody else, which neither takes the lock from d nor gives it to d.
LEMMA OtherPut ==
  ASSUME NEW d \in Clients, TypeOK, TypeOK', ClientInv(d), SameClient(d),
         LockEntry'.version = LockEntry.version + 1, Owner # d, Owner' # d
  PROVE  ClientInv(d)'
<1> USE DEF SameClient, LockEntry, Owner
<1>0. LockEntry.version \in Nat /\ out[d].version \in Nat /\ answer[d].version \in Nat
  BY Shapes DEF TypeOK, kvTypeOK, Entry, Reply
<1>1. ASSUME NEW r \in Reply, GoodRead(d, r), r.version \in Nat PROVE GoodRead(d, r)'
  BY <1>0, <1>1 DEF GoodRead
<1>2. GetInv(d) => GetInv(d)'
  <2>1. out[d] \in Reply /\ answer[d] \in Reply
    BY DEF TypeOK, kvTypeOK
  <2>2. GoodRead(d, out[d]) => GoodRead(d, out[d])'
    BY <1>0, <1>1, <2>1 DEF GoodRead
  <2>3. GoodRead(d, answer[d]) => GoodRead(d, answer[d])'
    BY <1>0, <1>1, <2>1 DEF GoodRead
  <2> QED BY <2>2, <2>3 DEF GetInv
<1>3. AcquirePutInv(d) => AcquirePutInv(d)'
  <2>1. call[d].op = "Put" => call[d].version \in Nat
    BY Shapes DEF TypeOK, kvTypeOK
  <2> QED BY <1>0, <2>1 DEF AcquirePutInv, NoCallInv
<1>4. ReleasePutInv(d) => ReleasePutInv(d)'
  <2>1. call[d].op = "Put" => call[d].version \in Nat
    BY Shapes DEF TypeOK, kvTypeOK
  <2> QED BY <1>0, <2>1 DEF ReleasePutInv, NoCallInv
<1> QED BY <1>0, <1>2, <1>3, <1>4 DEF ClientInv, NoCallInv

\* A step of c that is not a Perform leaves the register alone, and a step of
\* c leaves the other clients alone.
LEMMA Locality ==
  ASSUME NEW c \in Clients, TypeOK,
         Acquire(c) \/ Release(c) \/ LockStep(c) \/ ClerkStep(c)
  PROVE  /\ \A d \in Clients \ {c} : SameClient(d)
         /\ reg' # reg => Perform(c)
<1>1. ASSUME NEW loc, Goto(c, loc) PROVE \A d \in Clients \ {c} : pc'[d] = pc[d]
  BY <1>1 DEF Goto, TypeOK
<1>2. ASSUME NEW op, Invoke(c, op)
      PROVE  /\ reg' = reg
             /\ \A d \in Clients \ {c} : /\ call'[d] = call[d] /\ performed'[d] = performed[d]
                                         /\ answer'[d] = answer[d] /\ out'[d] = out[d]
  BY <1>2 DEF Invoke, TypeOK, kvTypeOK
<1>3. CASE Acquire(c) \/ Release(c)
  BY <1>1, <1>2, <1>3 DEF Acquire, Release, GetLock, SameClient
<1>4. CASE LockStep(c)
  <2>1. \E loc : Goto(c, loc)
    BY <1>4 DEF LockStep, AcquireGet, AcquirePut, AcquireCheck, AcquireAgain,
                ReleaseGet, ReleasePut, ReleaseCheck
  <2>2. (\E op : Invoke(c, op)) \/ UNCHANGED kvVars
    BY <1>4 DEF LockStep, AcquireGet, AcquirePut, AcquireCheck, AcquireAgain,
                ReleaseGet, ReleasePut, ReleaseCheck, GetLock, PutLock
  <2> QED BY <1>1, <1>2, <2>1, <2>2 DEF SameClient, kvVars
<1>5. CASE ClerkStep(c)
  BY <1>5 DEF ClerkStep, Serve, Read, Perform, Refuse, Finish, Return, SameClient, TypeOK, kvTypeOK
<1> QED BY <1>3, <1>4, <1>5

\* A Put that takes effect gives a free lock to its sender, or frees the lock
\* its sender has.
LEMMA PerformEffect ==
  ASSUME NEW c \in Clients, TypeOK, TypeOK', ClientInv(c), Perform(c)
  PROVE  /\ LockEntry'.version = LockEntry.version + 1
         /\ \/ pc[c] = "acqPut" /\ Owner = EmptyValue /\ Owner' = c
            \/ pc[c] = "relPut" /\ Owner = c /\ Owner' = EmptyValue
<1>1. call[c].key = LockName /\ call[c].op = "Put"
  BY SMTT(30), Zenon, Shapes DEF Perform, TypeOK, kvTypeOK
<1>2. LockEntry' = [value |-> call[c].value, version |-> LockEntry.version + 1]
  BY <1>1, Shapes DEF Perform, LockEntry, PutEntry, TypeOK, kvTypeOK
<1>3. LockEntry.version = call[c].version /\ LockEntry.version \in Nat
  BY <1>1, Shapes DEF Perform, LockEntry, TypeOK, kvTypeOK, Entry
<1>4. pc[c] \in {"acqPut", "relPut"}
  BY <1>1, Shapes DEF ClientInv, NoCallInv, GetInv, TypeOK, Locs, Acquiring, Releasing
<1>5. CASE pc[c] = "acqPut"
  BY <1>1, <1>2, <1>3, <1>5, Shapes DEF ClientInv, AcquirePutInv, NoCallInv, Owner
<1>6. CASE pc[c] = "relPut"
  BY <1>1, <1>2, <1>3, <1>6, Shapes DEF ClientInv, ReleasePutInv, NoCallInv, Owner
<1> QED BY <1>2, <1>4, <1>5, <1>6

\* A Get that starts when no call is pending.
LEMMA StartGet ==
  ASSUME NEW c \in Clients, TypeOK, NoCallInv(c), GetLock(c)
  PROVE  /\ GetInv(c)' /\ reg' = reg
         /\ out'[c].err # "ErrNoKey" /\ answer'[c].err # "ErrNoKey"
BY Shapes DEF TypeOK, kvTypeOK, NoCallInv, GetLock, Invoke, GetInv

-----------------------------------------------------------------------------
(***************************************************************************)
(* What a step means for the client that takes it.                         *)
(***************************************************************************)
LEMMA OwnCall ==
  ASSUME NEW c \in Clients, TypeOK, TypeOK', LockInv, Acquire(c) \/ Release(c)
  PROVE  ClientInv(c)'
<1>1. NoCallInv(c)
  BY DEF Acquire, Release, LockInv, ClientInv
<1>2. GetLock(c) /\ pc'[c] \in {"acqGet", "relGet"}
  BY DEF Acquire, Release, Goto, TypeOK
<1> QED BY <1>1, <1>2, StartGet DEF ClientInv

LEMMA OwnAcquireStep ==
  ASSUME NEW c \in Clients, TypeOK, TypeOK', LockInv,
         AcquireGet(c) \/ AcquirePut(c) \/ AcquireCheck(c)
  PROVE  ClientInv(c)'
<1> USE DEF Returned, LockInv
<1>0. ClientInv(c) /\ (\A loc : Goto(c, loc) => pc'[c] = loc)
  BY SMTT(30), Zenon DEF Goto, TypeOK
<1>1. NoCallInv(c) /\ call[c] = NoCall
  BY SMTT(30), Zenon, <1>0, Shapes DEF ClientInv, AcquireGet, AcquirePut, AcquireCheck, GetInv, AcquirePutInv, NoCallInv
<1>2. AcquireAgain(c) => ClientInv(c)'
  BY <1>0, <1>1, StartGet DEF AcquireAgain, ClientInv
<1>3. ASSUME Owner = c, Goto(c, "held"), UNCHANGED kvVars PROVE ClientInv(c)'
  BY <1>0, <1>1, <1>3 DEF ClientInv, NoCallInv, kvVars, Owner, LockEntry
<1>4. CASE AcquireGet(c)
  <2>1. GoodRead(c, out[c])
    BY <1>0, <1>1, <1>4, Shapes DEF AcquireGet, ClientInv, GetInv, NoCallInv
  <2>2. ASSUME Unowned(out[c]), PutLock(c, c, out[c].version), Goto(c, "acqPut")
        PROVE  ClientInv(c)'
    <3>1. out[c].version \in Nat /\ LockEntry.version \in Nat
      BY Shapes DEF TypeOK, kvTypeOK, Reply, LockEntry, Entry
    <3>2. /\ call'[c] = [op |-> "Put", key |-> LockName, value |-> c, version |-> out[c].version]
          /\ reg' = reg /\ performed'[c] = FALSE /\ answer'[c] = NoReply
      BY <1>1, <2>2 DEF PutLock, Invoke, NoCallInv, TypeOK, kvTypeOK
    <3>3. Owner # c /\ (out[c].version = LockEntry.version => Owner = EmptyValue)
      BY <2>1, <2>2, <3>1 DEF GoodRead, Unowned
    <3>4. /\ call'[c].op = "Put" /\ call'[c].value = c
          /\ call'[c].version = out[c].version /\ answer'[c].err = "none"
      BY <3>2, Shapes
    <3>5. LockEntry' = LockEntry /\ Owner' = Owner /\ out[c].version <= LockEntry.version
      BY <2>1, <3>2 DEF GoodRead, Owner, LockEntry
    <3>6. AcquirePutInv(c)'
      BY <3>1, <3>2, <3>3, <3>4, <3>5 DEF AcquirePutInv
    <3> QED BY <1>0, <2>2, <3>6 DEF ClientInv
  <2> QED BY SMTT(30), Zenon, <1>2, <1>3, <1>4, <2>1, <2>2 DEF AcquireGet, GoodRead
<1>5. CASE AcquirePut(c)
  <2>1. /\ out[c].err \in {"OK", "ErrVersion", "ErrMaybe"}
        /\ out[c].err = "OK" => Owner = c
        /\ out[c].err = "ErrMaybe" => LockEntry.version > 0
    BY <1>0, <1>1, <1>5, Shapes DEF AcquirePut, ClientInv, AcquirePutInv
  <2>2. ASSUME out[c].err = "ErrMaybe", GetLock(c), Goto(c, "acqCheck") PROVE ClientInv(c)'
    BY <1>0, <1>1, <2>1, <2>2, StartGet DEF ClientInv, LockEntry
  <2> QED BY SMTT(30), Zenon, <1>2, <1>3, <1>5, <2>1, <2>2 DEF AcquirePut
<1>6. CASE AcquireCheck(c)
  <2>1. GoodRead(c, out[c]) /\ out[c].err # "ErrNoKey"
    BY <1>0, <1>1, <1>6, Shapes DEF AcquireCheck, ClientInv, GetInv, NoCallInv
  <2> QED BY SMTT(30), Zenon, <1>2, <1>3, <1>6, <2>1 DEF AcquireCheck, GoodRead
<1> QED BY <1>4, <1>5, <1>6

LEMMA OwnReleaseStep ==
  ASSUME NEW c \in Clients, TypeOK, TypeOK', LockInv,
         ReleaseGet(c) \/ ReleasePut(c) \/ ReleaseCheck(c)
  PROVE  ClientInv(c)'
<1> USE DEF Returned, LockInv
<1>0. ClientInv(c) /\ (\A loc : Goto(c, loc) => pc'[c] = loc)
  BY SMTT(30), Zenon DEF Goto, TypeOK
<1>1. NoCallInv(c) /\ call[c] = NoCall
  BY <1>0, Shapes DEF ClientInv, ReleaseGet, ReleasePut, ReleaseCheck, GetInv, ReleasePutInv, NoCallInv
<1>2. ASSUME Owner # c, Goto(c, "idle"), UNCHANGED kvVars PROVE ClientInv(c)'
  BY Zenon, <1>0, <1>1, <1>2 DEF ClientInv, NoCallInv, kvVars, Owner, LockEntry
<1>3. CASE ReleaseGet(c)
  <2>1. GoodRead(c, out[c])
    BY <1>0, <1>1, <1>3, Shapes DEF ReleaseGet, ClientInv, GetInv, NoCallInv
  <2>2. Unowned(out[c]) \/ out[c].value # c => Owner # c
    BY <2>1 DEF GoodRead, Unowned
  <2>3. ASSUME ~Unowned(out[c]), out[c].value = c,
               PutLock(c, EmptyValue, out[c].version), Goto(c, "relPut")
        PROVE  ClientInv(c)'
    <3>1. out[c].version \in Nat /\ LockEntry.version \in Nat
      BY Shapes DEF TypeOK, kvTypeOK, Reply, LockEntry, Entry
    <3>2. /\ call'[c] = [op |-> "Put", key |-> LockName, value |-> EmptyValue, version |-> out[c].version]
          /\ reg' = reg /\ performed'[c] = FALSE /\ answer'[c] = NoReply
      BY <1>1, <2>3 DEF PutLock, Invoke, NoCallInv, TypeOK, kvTypeOK
    <3>3. Owner = c /\ out[c].version = LockEntry.version
      BY <2>1, <2>3 DEF GoodRead
    <3>4. /\ call'[c].op = "Put" /\ call'[c].value = EmptyValue
          /\ call'[c].version = out[c].version /\ answer'[c].err = "none"
      BY <3>2, Shapes
    <3>5. LockEntry' = LockEntry /\ Owner' = Owner
      BY <3>2 DEF Owner, LockEntry
    <3>6. ReleasePutInv(c)'
      BY <3>2, <3>3, <3>4, <3>5 DEF ReleasePutInv
    <3> QED BY <1>0, <2>3, <3>6 DEF ClientInv
  <2> QED BY SMTT(30), Zenon, <1>2, <1>3, <2>2, <2>3 DEF ReleaseGet
<1>4. CASE ReleasePut(c)
  <2>1. out[c].err \in {"OK", "ErrMaybe"} /\ Owner # c /\ LockEntry.version > 0
    BY SMTT(30), Zenon, <1>0, <1>1, <1>4, Shapes DEF ReleasePut, ClientInv, ReleasePutInv
  <2>2. ASSUME GetLock(c), Goto(c, "relCheck") PROVE ClientInv(c)'
    BY <1>0, <1>1, <2>1, <2>2, StartGet DEF ClientInv, LockEntry, Owner
  <2> QED BY SMTT(30), Zenon, <1>2, <1>4, <2>1, <2>2 DEF ReleasePut
<1>5. CASE ReleaseCheck(c)
  <2>1. out[c].err # "ErrNoKey" /\ Owner # c
    BY <1>0, <1>5 DEF ReleaseCheck, ClientInv
  <2>2. ASSUME GetLock(c), Goto(c, "relGet") PROVE ClientInv(c)'
    BY <1>0, <1>1, <2>2, StartGet DEF ClientInv
  <2> QED BY <1>2, <1>5, <2>1, <2>2 DEF ReleaseCheck
<1> QED BY <1>3, <1>4, <1>5

LEMMA OwnClerkStep ==
  ASSUME NEW c \in Clients, TypeOK, TypeOK', LockInv, ClerkStep(c)
  PROVE  ClientInv(c)'
<1>0. /\ ClientInv(c) /\ pc'[c] = pc[c] /\ pc[c] \in Locs
      /\ LockEntry.version \in Nat /\ call[c] \in Call
      /\ LockEntry.version = 0 => Owner = EmptyValue
  BY SMTT(30), Zenon, Shapes DEF LockInv, ClerkStep, TypeOK, kvTypeOK, LockEntry, Entry
<1>1. CASE Read(c)
  <2>1. call[c].key = LockName /\ call[c].op = "Get"
    BY <1>0, <1>1, Shapes DEF Read
  <2>2. /\ answer'[c] = ReadReply(LockEntry)
        /\ reg' = reg /\ call' = call /\ performed' = performed /\ out' = out
    BY <1>1, <2>1 DEF Read, TypeOK, kvTypeOK, LockEntry
  <2>3. GoodRead(c, ReadReply(LockEntry))
    BY <1>0 DEF GoodRead, ReadReply, Owner
  <2>4. pc[c] \in {"acqGet", "acqCheck", "relGet", "relCheck"} /\ GetInv(c)
    BY SMTT(30), Zenon, <1>0, <2>1, Shapes DEF ClientInv, NoCallInv, AcquirePutInv, ReleasePutInv, Locs, Acquiring, Releasing
  <2>5. GetInv(c)'
    BY <2>1, <2>2, <2>3, <2>4, Shapes DEF GetInv, GoodRead, Owner, LockEntry
  <2>6. LockEntry.version > 0 => answer'[c].err # "ErrNoKey"
    BY SMTT(30), Zenon, <1>0, <2>2 DEF ReadReply
  <2> QED BY <1>0, <2>2, <2>4, <2>5, <2>6 DEF ClientInv, Owner, LockEntry
<1>2. CASE Perform(c)
  <2>1. /\ LockEntry'.version = LockEntry.version + 1
        /\ \/ pc[c] = "acqPut" /\ Owner = EmptyValue /\ Owner' = c
           \/ pc[c] = "relPut" /\ Owner = c /\ Owner' = EmptyValue
    BY <1>0, <1>2, PerformEffect
  <2>2. /\ call[c].op = "Put" /\ call[c].version = LockEntry.version
        /\ call' = call /\ performed'[c] = TRUE /\ answer' = answer
    BY <1>0, <1>2, Shapes DEF Perform, TypeOK, kvTypeOK, LockEntry
  <2>3. ASSUME pc[c] = "acqPut" PROVE AcquirePutInv(c)'
    <3>1. Owner' = c /\ call[c].op # "none"
      BY <2>1, <2>2, <2>3
    <3>2. call[c].value = c /\ answer[c].err \in {"none", "ErrVersion"}
      BY <1>0, <2>3, <3>1, Shapes DEF ClientInv, AcquirePutInv, NoCallInv
    <3>3. call[c].version < LockEntry'.version
      BY <1>0, <2>1, <2>2
    <3> QED BY <1>0, <2>1, <2>2, <3>1, <3>2, <3>3 DEF AcquirePutInv
  <2>4. ASSUME pc[c] = "relPut" PROVE ReleasePutInv(c)'
    <3>1. Owner' # c /\ call[c].op # "none"
      BY <2>1, <2>2, <2>4, LockAssumption, EmptyValueAssumption
    <3>2. call[c].value = EmptyValue /\ answer[c].err \in {"none", "ErrVersion"}
      BY <1>0, <2>4, <3>1, Shapes DEF ClientInv, ReleasePutInv, NoCallInv
    <3>3. call[c].version < LockEntry'.version
      BY SMTT(30), Zenon, <1>0, <2>1, <2>2
    <3> QED BY <2>2, <3>1, <3>2, <3>3 DEF ReleasePutInv
  <2> QED BY <1>0, <2>1, <2>3, <2>4 DEF ClientInv
<1>3. CASE Refuse(c)
  <2>1. call[c].key = LockName /\ call[c].op = "Put" /\ LockEntry.version # call[c].version
    BY <1>0, <1>3, Shapes DEF Refuse, LockEntry
  <2>2. /\ answer'[c] = ErrReply(Refusal(LockEntry))
        /\ reg' = reg /\ call' = call /\ performed' = performed
    BY SMTT(30), Zenon, <1>3, <2>1 DEF Refuse, TypeOK, kvTypeOK, LockEntry
  <2>3. pc[c] \in {"acqPut", "relPut"} /\ call[c].version \in Nat
    BY <1>0, <2>1, Shapes DEF ClientInv, NoCallInv, GetInv, Locs, Acquiring, Releasing
  <2>4. ~NoCallInv(c) /\ LockEntry.version \in Nat
    BY <1>0, <2>1, Shapes DEF NoCallInv
  <2>5. /\ pc[c] = "acqPut" => AcquirePutInv(c)
        /\ pc[c] = "relPut" => ReleasePutInv(c)
    BY <1>0 DEF ClientInv
  <2>6. call[c].version < LockEntry.version
    <3>1. CASE pc[c] = "acqPut"
      <4>1. call[c].version <= LockEntry.version
        BY <2>4, <2>5, <3>1 DEF AcquirePutInv
      <4> QED BY <2>1, <2>3, <2>4, <4>1
    <3>2. CASE pc[c] = "relPut"
      BY <2>1, <2>4, <2>5, <3>2 DEF ReleasePutInv
    <3> QED BY <2>3, <3>1, <3>2
  <2>7. answer'[c].err = "ErrVersion"
    <3>1. Refusal(LockEntry) = "ErrVersion"
      BY <2>3, <2>4, <2>6 DEF Refusal
    <3> QED BY <2>2, <3>1, Shapes DEF Errs
  <2>8. LockEntry' = LockEntry /\ Owner' = Owner
    BY <2>2 DEF Owner, LockEntry
  <2>9. pc[c] = "acqPut" => AcquirePutInv(c)'
    BY SMTT(30), Zenon, <2>2, <2>4, <2>5, <2>6, <2>7, <2>8 DEF AcquirePutInv
  <2>10. ASSUME pc[c] = "relPut" PROVE ReleasePutInv(c)'
    <3>1. performed[c]
      BY <2>1, <2>4, <2>5, <2>10 DEF ReleasePutInv
    <3> QED BY <2>2, <2>4, <2>5, <2>7, <2>8, <2>10, <3>1 DEF ReleasePutInv
  <2> QED BY SMTT(30), Zenon, <1>0, <2>3, <2>9, <2>10 DEF ClientInv
<1>4. CASE Finish(c)
  <2>1. PICK reply \in Returns(c) : Return(c, reply)
    BY <1>4 DEF Finish
  <2>2. /\ out'[c] = reply /\ call'[c] = NoCall /\ reg' = reg
        /\ performed'[c] = FALSE /\ answer'[c] = NoReply
    BY <2>1 DEF Return, TypeOK, kvTypeOK
  <2>3. NoCallInv(c)'
    BY SMTT(30), Zenon, <2>2 DEF NoCallInv
  <2>4. CASE call[c].op = "Get"
    <3>1. reply = answer[c] /\ answer[c] # NoReply
      BY <2>1, <2>4 DEF Return
    <3>2. pc[c] \in {"acqGet", "acqCheck", "relGet", "relCheck"} /\ GetInv(c)
      BY Zenon, <1>0, <2>4, Shapes DEF ClientInv, NoCallInv, AcquirePutInv, ReleasePutInv, Locs, Acquiring, Releasing
    <3>3. GoodRead(c, reply)
      BY Zenon, <2>4, <3>1, <3>2, Shapes DEF GetInv
    <3>4. GetInv(c)'
      <4>1. LockEntry' = LockEntry /\ Owner' = Owner
        BY Zenon, <2>2 DEF Owner, LockEntry
      <4>2. GoodRead(c, out[c])'
        BY Zenon, <2>2, <3>3, <4>1 DEF GoodRead
      <4> QED BY Zenon, <2>2, <4>2 DEF GetInv
    <3> QED BY <1>0, <2>2, <3>1, <3>2, <3>4, Shapes DEF ClientInv, Owner, LockEntry
  <2>5. CASE call[c].op = "Put"
    <3>1. PutResult(c, reply.err)
      BY SMTT(30), Zenon, <2>1, <2>5 DEF Return
    <3>2. pc[c] \in {"acqPut", "relPut"} /\ call[c].version \in Nat
      BY <1>0, <2>5, Shapes DEF ClientInv, NoCallInv, GetInv, Locs, Acquiring, Releasing
    <3>3. LockEntry' = LockEntry /\ Owner' = Owner /\ ~NoCallInv(c) /\ LockEntry.version \in Nat
      BY <1>0, <2>2, <2>5, Shapes DEF NoCallInv, Owner, LockEntry
    <3>4. ASSUME pc[c] = "acqPut" PROVE AcquirePutInv(c)'
      <4>1. /\ answer[c].err \in {"none", "ErrVersion"}
            /\ answer[c].err = "ErrVersion" => call[c].version < LockEntry.version
            /\ performed[c] => Owner = c /\ call[c].version < LockEntry.version
        BY <1>0, <3>3, <3>4 DEF ClientInv, AcquirePutInv
      <4>2. /\ reply.err \in {"OK", "ErrVersion", "ErrMaybe"}
            /\ reply.err = "OK" => Owner = c
            /\ reply.err = "ErrMaybe" => LockEntry.version > 0
        BY <3>1, <3>2, <3>3, <4>1 DEF PutResult
      <4> QED BY SMTT(30), Zenon, <2>2, <2>3, <3>3, <4>2 DEF AcquirePutInv
    <3>5. ASSUME pc[c] = "relPut" PROVE ReleasePutInv(c)'
      <4>1. /\ answer[c].err \in {"none", "ErrVersion"}
            /\ performed[c] => Owner # c /\ call[c].version < LockEntry.version
            /\ ~performed[c] => answer[c].err = "none"
        BY <1>0, <3>3, <3>5 DEF ClientInv, ReleasePutInv
      <4>2. /\ reply.err \in {"OK", "ErrMaybe"}
            /\ Owner # c /\ LockEntry.version > 0
        BY <3>1, <3>2, <3>3, <4>1 DEF PutResult
      <4> QED BY <2>2, <2>3, <3>3, <4>2 DEF ReleasePutInv
    <3> QED BY Zenon, <1>0, <3>2, <3>4, <3>5 DEF ClientInv
  <2> QED BY <2>1, <2>4, <2>5 DEF Return
<1> QED BY <1>1, <1>2, <1>3, <1>4 DEF ClerkStep, Serve

-----------------------------------------------------------------------------
LEMMA LockInvStep == TypeOK /\ TypeOK' /\ LockInv /\ [Next]_vars => LockInv'
<1> SUFFICES ASSUME TypeOK, TypeOK', LockInv, [Next]_vars PROVE LockInv'
  OBVIOUS
<1>1. ASSUME NEW c \in Clients, Acquire(c) \/ Release(c) \/ LockStep(c) \/ ClerkStep(c)
      PROVE  LockInv'
  <2>1. ClientInv(c)'
    BY <1>1, OwnCall, OwnAcquireStep, OwnReleaseStep, OwnClerkStep DEF LockStep
  <2>2. /\ \A d \in Clients \ {c} : SameClient(d)
        /\ reg' # reg => Perform(c)
    BY <1>1, Locality
  <2>3. CASE reg' = reg
    <3>1. \A d \in Clients \ {c} : ClientInv(d)'
      BY <2>2, <2>3, Untouched DEF LockInv
    <3> QED BY <2>1, <2>3, <3>1 DEF LockInv, LockEntry, Owner
  <2>4. CASE Perform(c)
    <3>1. /\ LockEntry'.version = LockEntry.version + 1
          /\ Owner \in {EmptyValue, c} /\ Owner' \in {EmptyValue, c}
      BY <2>4, PerformEffect DEF LockInv
    <3>2. LockEntry.version \in Nat
      BY Shapes DEF TypeOK, kvTypeOK, LockEntry, Entry
    <3>3. \A d \in Clients \ {c} : ClientInv(d)'
      BY <2>2, <3>1, OtherPut DEF LockInv
    <3> QED BY <2>1, <3>1, <3>2, <3>3 DEF LockInv
  <2> QED BY <2>2, <2>3, <2>4
<1>2. CASE UNCHANGED vars
  <2>1. \A d \in Clients : SameClient(d) /\ reg' = reg
    BY <1>2 DEF vars, kvVars, SameClient
  <2>2. \A d \in Clients : ClientInv(d)'
    BY <2>1, Untouched DEF LockInv
  <2> QED BY <1>2, <2>2 DEF LockInv, vars, kvVars, LockEntry, Owner
<1> QED BY <1>1, <1>2 DEF Next

\* What every client believes about the lock agrees with the server: the
\* strengthening from which the lock's safety properties follow.
THEOREM LockInvariant == Spec => []LockInv
<1>1. Init => LockInv
  <2> SUFFICES ASSUME Init PROVE LockInv
    OBVIOUS
  <2>1. LockEntry.version = 0 /\ Owner = EmptyValue
    BY Shapes DEF Init, kvInit, InitEntry, LockEntry, Owner
  <2>2. ASSUME NEW c \in Clients PROVE ClientInv(c)
    BY <2>1 DEF Init, kvInit, ClientInv, NoCallInv
  <2> QED BY <2>1, <2>2 DEF LockInv
<1> QED BY <1>1, LockInvStep, TypeCorrect, PTL DEF Spec

\* Two clients never both hold the lock (lock_test.go:85).
THEOREM MutualExclusionHolds == Spec => []MutualExclusion
<1>1. LockInv => MutualExclusion
  BY DEF LockInv, ClientInv, MutualExclusion
<1> QED BY <1>1, LockInvariant, PTL

\* A client whose Release has returned does not own the lock.
THEOREM ReleaseReleasesHolds == Spec => []ReleaseReleases
<1>1. LockInv => ReleaseReleases
  BY DEF LockInv, ClientInv, ReleaseReleases
<1> QED BY <1>1, LockInvariant, PTL

\* The panics of lock.go are unreachable.
THEOREM NoPanicHolds == Spec => []NoPanic
<1>1. LockInv => NoPanic
  BY DEF LockInv, ClientInv, NoPanic
<1> QED BY <1>1, LockInvariant, PTL

\* The owner changes only from nobody to an acquiring client, and from a
\* releasing client to nobody.
THEOREM HandOverHolds == Spec => HandOver
<1> DEFINE Change ==
      Owner' # Owner =>
        \E c \in Clients :
          \/ Owner = EmptyValue /\ Owner' = c /\ pc[c] = "acqPut"
          \/ Owner = c /\ Owner' = EmptyValue /\ pc[c] = "relPut"
<1>1. TypeOK /\ TypeOK' /\ LockInv /\ [Next]_vars => [Change]_vars
  <2> SUFFICES ASSUME TypeOK, TypeOK', LockInv, Next, Owner' # Owner PROVE Change
    OBVIOUS
  <2>1. PICK c \in Clients : Acquire(c) \/ Release(c) \/ LockStep(c) \/ ClerkStep(c)
    BY DEF Next
  <2>2. Perform(c)
    BY <2>1, Locality DEF Owner, LockEntry
  <2> QED BY <2>2, PerformEffect DEF LockInv
<1> QED BY <1>1, LockInvariant, TypeCorrect, PTL DEF Spec, HandOver
=============================================================================
