-------------------------------- MODULE Lock --------------------------------
(***************************************************************************)
(* The spinlock of kvsrv1/lock: Acquire and Release built on Get and       *)
(* conditional Put of a Clerk.  The Clerk is the one VersionedKV           *)
(* specifies, which KVService implements; the only key is the lock's name, *)
(* and its value is the id of the owner or "".                             *)
(*                                                                         *)
(* A client's position in the code is pc: the call it is waiting for, or   *)
(* has just been given the result of (call[c] = NoCall, result in out[c]). *)
(***************************************************************************)
EXTENDS VersionedKV

CONSTANTS
  LockName,   \* Lock.name
  MaxAcquires \* bound: calls of Acquire per client

ASSUME LockAssumption ==
  /\ Keys = {LockName}
  /\ Values = Clients \cup {EmptyValue}   \* Lock.id of each client, or ""
  /\ EmptyValue \notin Clients
  /\ MaxAcquires \in Nat

VARIABLES
  pc,        \* [Clients -> Locs]
  acquires   \* [Clients -> Nat], calls of Acquire made so far

vars == <<kvVars, pc, acquires>>

Acquiring == {"acqGet", "acqPut", "acqCheck"}
Releasing == {"relGet", "relPut", "relCheck"}
\* "idle": the last call was Release, or there was none; "held": the last call
\* was Acquire, which has returned; "panic": the program has stopped.
Locs == {"idle", "held", "panic"} \cup Acquiring \cup Releasing

TypeOK ==
  /\ kvTypeOK
  /\ pc \in [Clients -> Locs]
  /\ acquires \in [Clients -> 0..MaxAcquires]

Init ==
  /\ kvInit
  /\ pc = [c \in Clients |-> "idle"]
  /\ acquires = [c \in Clients |-> 0]

(***************************************************************************)
(* Moves of one client.                                                    *)
(***************************************************************************)
Goto(c, loc) == pc' = [pc EXCEPT ![c] = loc]

GetLock(c) == Invoke(c, [op |-> "Get", key |-> LockName])
PutLock(c, id, version) ==
  Invoke(c, [op |-> "Put", key |-> LockName, value |-> id, version |-> version])

\* The Clerk call that pc[c] waits for has returned, with this reply.
Returned(c, loc) == pc[c] = loc /\ call[c] = NoCall
\* Mutant: a released lock is not taken for a free one.
UnownedNever(reply) == reply.err = "ErrNoKey"

Unowned(reply) == reply.err = "ErrNoKey" \/ reply.value = EmptyValue

\* The Clerk works on the pending call; the Lock waits.
ClerkStep(c) == (Serve(c) \/ Finish(c)) /\ UNCHANGED <<pc, acquires>>

(***************************************************************************)
(* Acquire.                                                                *)
(***************************************************************************)
Acquire(c) ==
  /\ pc[c] \in {"idle", "held"}
  /\ acquires[c] < MaxAcquires
  /\ acquires' = [acquires EXCEPT ![c] = @ + 1]
  /\ GetLock(c) /\ Goto(c, "acqGet")

\* The loop starts over ("spin").
AcquireAgain(c) == GetLock(c) /\ Goto(c, "acqGet")

\* Mutant: a client that has the lock already waits for itself.
AcquireGetSpins(c) ==
  /\ Returned(c, "acqGet")
  /\ \/ Unowned(out[c]) /\ PutLock(c, c, out[c].version) /\ Goto(c, "acqPut")
     \/ ~Unowned(out[c]) /\ AcquireAgain(c)
  /\ UNCHANGED acquires

AcquireGet(c) ==
  /\ Returned(c, "acqGet")
  /\ \/ /\ Unowned(out[c])
        /\ PutLock(c, c, out[c].version) /\ Goto(c, "acqPut")
     \/ /\ ~Unowned(out[c]) /\ out[c].value = c
        /\ Goto(c, "held") /\ UNCHANGED kvVars
     \/ /\ ~Unowned(out[c]) /\ out[c].value # c
        /\ AcquireAgain(c)
  /\ UNCHANGED acquires

\* Mutant: ErrMaybe is taken for OK.
AcquirePutTrusting(c) ==
  /\ Returned(c, "acqPut")
  /\ \/ out[c].err \in {"OK", "ErrMaybe"} /\ Goto(c, "held") /\ UNCHANGED kvVars
     \/ out[c].err = "ErrVersion" /\ AcquireAgain(c)
     \/ out[c].err = "ErrNoKey" /\ Goto(c, "panic") /\ UNCHANGED kvVars
  /\ UNCHANGED acquires

AcquirePut(c) ==
  /\ Returned(c, "acqPut")
  /\ \/ out[c].err = "OK" /\ Goto(c, "held") /\ UNCHANGED kvVars
     \/ out[c].err = "ErrVersion" /\ AcquireAgain(c)
     \/ out[c].err = "ErrMaybe" /\ GetLock(c) /\ Goto(c, "acqCheck")
     \/ out[c].err = "ErrNoKey" /\ Goto(c, "panic") /\ UNCHANGED kvVars
  /\ UNCHANGED acquires

AcquireCheck(c) ==
  /\ Returned(c, "acqCheck")
  /\ \/ out[c].err = "ErrNoKey" /\ Goto(c, "panic") /\ UNCHANGED kvVars
     \/ out[c].err # "ErrNoKey" /\ out[c].value = c /\ Goto(c, "held") /\ UNCHANGED kvVars
     \/ out[c].err # "ErrNoKey" /\ out[c].value # c /\ AcquireAgain(c)
  /\ UNCHANGED acquires

(***************************************************************************)
(* Release.                                                                *)
(***************************************************************************)
Release(c) ==
  /\ pc[c] \in {"idle", "held"}
  /\ GetLock(c) /\ Goto(c, "relGet")
  /\ UNCHANGED acquires

\* Mutant: the lock is released whoever has it.
ReleaseGetAnybody(c) ==
  /\ Returned(c, "relGet")
  /\ \/ Unowned(out[c]) /\ Goto(c, "idle") /\ UNCHANGED kvVars
     \/ /\ ~Unowned(out[c])
        /\ PutLock(c, EmptyValue, out[c].version) /\ Goto(c, "relPut")
  /\ UNCHANGED acquires

\* Mutant: Release waits until the lock is its own.
ReleaseGetWaits(c) ==
  /\ Returned(c, "relGet")
  /\ \/ /\ Unowned(out[c]) \/ out[c].value # c
        /\ GetLock(c) /\ Goto(c, "relGet")
     \/ /\ ~Unowned(out[c]) /\ out[c].value = c
        /\ PutLock(c, EmptyValue, out[c].version) /\ Goto(c, "relPut")
  /\ UNCHANGED acquires

ReleaseGet(c) ==
  /\ Returned(c, "relGet")
  /\ \/ /\ Unowned(out[c]) \/ out[c].value # c
        /\ Goto(c, "idle") /\ UNCHANGED kvVars
     \/ /\ ~Unowned(out[c]) /\ out[c].value = c
        /\ PutLock(c, EmptyValue, out[c].version) /\ Goto(c, "relPut")
  /\ UNCHANGED acquires

ReleasePut(c) ==
  /\ Returned(c, "relPut")
  /\ \/ out[c].err = "OK" /\ Goto(c, "idle") /\ UNCHANGED kvVars
     \/ out[c].err = "ErrMaybe" /\ GetLock(c) /\ Goto(c, "relCheck")
     \/ out[c].err \in {"ErrVersion", "ErrNoKey"} /\ Goto(c, "panic") /\ UNCHANGED kvVars
  /\ UNCHANGED acquires

ReleaseCheck(c) ==
  /\ Returned(c, "relCheck")
  /\ \/ out[c].err = "ErrNoKey" /\ Goto(c, "panic") /\ UNCHANGED kvVars
     \/ out[c].err # "ErrNoKey" /\ out[c].value # EmptyValue /\ GetLock(c) /\ Goto(c, "relGet")
     \/ out[c].err # "ErrNoKey" /\ out[c].value = EmptyValue /\ Goto(c, "idle") /\ UNCHANGED kvVars
  /\ UNCHANGED acquires

LockStep(c) ==
  \/ AcquireGet(c) \/ AcquirePut(c) \/ AcquireCheck(c)
  \/ ReleaseGet(c) \/ ReleasePut(c) \/ ReleaseCheck(c)

Next ==
  \E c \in Clients : Acquire(c) \/ Release(c) \/ LockStep(c) \/ ClerkStep(c)

Spec == Init /\ [][Next]_vars

(***************************************************************************)
(* Every client that is inside Acquire or Release keeps running, its Clerk *)
(* answers (KVService!CallsReturn), and a client that has the lock         *)
(* releases it in the end.                                                 *)
(***************************************************************************)
Fairness ==
  \A c \in Clients :
    /\ WF_vars(LockStep(c))
    /\ WF_vars(Serve(c) /\ UNCHANGED <<pc, acquires>>)
    /\ WF_vars(Finish(c) /\ UNCHANGED <<pc, acquires>>)
    /\ WF_vars(pc[c] = "held" /\ Release(c))

FairSpec == Spec /\ Fairness
-----------------------------------------------------------------------------
(***************************************************************************)
(* Properties.                                                             *)
(***************************************************************************)
LockEntry == reg[LockName]
Owner == LockEntry.value

\* Two clients never both have the lock between Acquire's return and Release
\* (lock_test.go:85, "two clients acquired lock"), whatever the Clerk answers.
MutualExclusion ==
  \A c, d \in Clients : pc[c] = "held" /\ pc[d] = "held" => c = d

\* When Release has returned, its caller does not own the lock, even when the
\* reply to the releasing Put was lost (lock.go:107-120): a lock that is owned
\* by somebody who no longer knows it would block everyone for ever.
ReleaseReleases == \A c \in Clients : pc[c] = "idle" => Owner # c

\* None of the panics of Acquire and Release can be reached, in particular
\* "put should always be OK as we own the lock, nobody else should be able to
\* modify the version number" (lock.go:100-106).
NoPanic == \A c \in Clients : pc[c] # "panic"

\* The lock is taken only when it is free and given up only by its owner: no
\* stale Put, delayed since an earlier Acquire or Release, changes the owner.
HandOver ==
  [][Owner' # Owner =>
       \E c \in Clients :
         \/ Owner = EmptyValue /\ Owner' = c /\ pc[c] = "acqPut"
         \/ Owner = c /\ Owner' = EmptyValue /\ pc[c] = "relPut"]_vars

\* Release returns, also when it has to look again after ErrMaybe.
ReleaseReturns == \A c \in Clients : pc[c] \in Releasing ~> pc[c] = "idle"

\* A client whose Put made it the owner gets to know: it comes to hold the
\* lock, or gives it up; the lock is not lost after a lost reply.
OwnerLearns == \A c \in Clients : Owner = c ~> (pc[c] = "held" \/ Owner # c)

\* While clients try to acquire the lock, one of them gets it (a spinlock
\* promises no more: which one is not determined).
SomebodyAcquires ==
  (\E c \in Clients : pc[c] \in Acquiring) ~> (\E c \in Clients : pc[c] = "held")
-----------------------------------------------------------------------------
(***************************************************************************)
(* The inductive invariant.  A version determines the value that was       *)
(* stored with it, so a Put that names the current version was made by a   *)
(* client that has read the current value; and while a client waits for    *)
(* the result of a Get, nobody else makes it the owner or takes the lock   *)
(* from it.                                                                *)
(***************************************************************************)
\* A reply to c's pending or finished Get.
GoodRead(c, r) ==
  /\ r.err \in {"OK", "ErrNoKey"}
  /\ r.err = "ErrNoKey" <=> r.version = 0
  /\ r.err = "ErrNoKey" => r.value = EmptyValue
  /\ r.version <= LockEntry.version
  /\ r.version = LockEntry.version => r.value = Owner
  /\ r.value = c <=> Owner = c
  /\ Owner = c => r.version = LockEntry.version

GetInv(c) ==
  /\ ~performed[c]
  /\ \/ call[c] = [op |-> "Get", key |-> LockName] /\ (answer[c] = NoReply \/ GoodRead(c, answer[c]))
     \/ call[c] = NoCall /\ answer[c] = NoReply /\ GoodRead(c, out[c])

NoCallInv(c) == call[c] = NoCall /\ ~performed[c] /\ answer[c] = NoReply

AcquirePutInv(c) ==
  \/ /\ call[c].op = "Put" /\ call[c].value = c
     /\ call[c].version <= LockEntry.version
     /\ answer[c].err \in {"none", "ErrVersion"}
     /\ answer[c].err = "ErrVersion" => call[c].version < LockEntry.version
     /\ performed[c] => Owner = c /\ call[c].version < LockEntry.version
     /\ ~performed[c] => Owner # c /\ (call[c].version = LockEntry.version => Owner = EmptyValue)
  \/ /\ NoCallInv(c)
     /\ out[c].err \in {"OK", "ErrVersion", "ErrMaybe"}
     /\ out[c].err = "OK" => Owner = c
     /\ out[c].err = "ErrMaybe" => LockEntry.version > 0

ReleasePutInv(c) ==
  \/ /\ call[c].op = "Put" /\ call[c].value = EmptyValue
     /\ answer[c].err \in {"none", "ErrVersion"}
     /\ performed[c] => Owner # c /\ call[c].version < LockEntry.version
     /\ ~performed[c] => /\ answer[c].err = "none"
                         /\ Owner = c /\ call[c].version = LockEntry.version
  \/ /\ NoCallInv(c)
     /\ out[c].err \in {"OK", "ErrMaybe"}
     /\ Owner # c /\ LockEntry.version > 0

ClientInv(c) ==
  /\ pc[c] = "idle" => NoCallInv(c) /\ Owner # c
  /\ pc[c] = "held" => NoCallInv(c) /\ Owner = c
  /\ pc[c] \in {"acqGet", "acqCheck", "relGet", "relCheck"} => GetInv(c)
  /\ pc[c] \in {"acqCheck", "relCheck"} => LockEntry.version > 0
  /\ pc[c] \in {"acqCheck", "relCheck"} => out[c].err # "ErrNoKey" /\ answer[c].err # "ErrNoKey"
  /\ pc[c] = "relCheck" => Owner # c
  /\ pc[c] = "acqPut" => AcquirePutInv(c)
  /\ pc[c] = "relPut" => ReleasePutInv(c)
  /\ pc[c] # "panic"

\* Every client's view of the lock agrees with the server.
LockInv ==
  /\ LockEntry.version = 0 => Owner = EmptyValue
  /\ \A c \in Clients : ClientInv(c)
=============================================================================
