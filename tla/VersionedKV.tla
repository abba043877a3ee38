----------------------------- MODULE VersionedKV -----------------------------
(***************************************************************************)
(* What a Clerk of kvsrv1 promises its application, whatever the network   *)
(* does in between: a register per key, read by Get and written by a Put   *)
(* that names the version it replaces.  The register is the state of       *)
(* KvModel (models1/kv.go), against which the tests check every recorded   *)
(* history for linearizability; an absent key is version 0, as there.      *)
(*                                                                         *)
(* A call may be answered several times while it is pending, because the   *)
(* Clerk resends; it takes effect at most once, and between its invocation *)
(* and its return.  Only the last answer reaches the application.          *)
(***************************************************************************)
EXTENDS Naturals

CONSTANTS
  Clients,     \* the Clerks, one pending call each
  Keys,
  Values,
  EmptyValue   \* the value of KvModel's initial state, ""

ASSUME EmptyValueAssumption == EmptyValue \in Values

VARIABLES
  reg,        \* [Keys -> Entry], KvState of every key
  call,       \* [Clients -> Call], the pending call of each Clerk
  performed,  \* [Clients -> BOOLEAN], the pending Put has been installed
  answer,     \* [Clients -> Reply], the last answer to the pending call
  out         \* [Clients -> Reply], what the last finished call returned

kvVars == <<reg, call, performed, answer, out>>

(***************************************************************************)
(* Types.                                                                  *)
(***************************************************************************)
Entry == [value : Values, version : Nat]

GetCall == [op : {"Get"}, key : Keys]
PutCall == [op : {"Put"}, key : Keys, value : Values, version : Nat]
NoCall == [op |-> "none"]
Call == GetCall \cup PutCall \cup {NoCall}

Errs == {"none", "OK", "ErrNoKey", "ErrVersion", "ErrMaybe"}
Reply == [err : Errs, value : Values, version : Nat]

ErrReply(err) == [err |-> err, value |-> EmptyValue, version |-> 0]
NoReply == ErrReply("none")

kvTypeOK ==
  /\ reg \in [Keys -> Entry]
  /\ call \in [Clients -> Call]
  /\ performed \in [Clients -> BOOLEAN]
  /\ answer \in [Clients -> Reply]
  /\ out \in [Clients -> Reply]

(***************************************************************************)
(* The sequential register (KvModel.Step).                                 *)
(***************************************************************************)
InitEntry == [value |-> EmptyValue, version |-> 0]

ReadReply(e) ==
  [err |-> IF e.version = 0 THEN "ErrNoKey" ELSE "OK",
   value |-> e.value, version |-> e.version]

PutEntry(e, value) == [value |-> value, version |-> e.version + 1]

Refusal(e) == IF e.version = 0 THEN "ErrNoKey" ELSE "ErrVersion"

(***************************************************************************)
(* Actions.                                                                *)
(***************************************************************************)
kvInit ==
  /\ reg = [k \in Keys |-> InitEntry]
  /\ call = [c \in Clients |-> NoCall]
  /\ performed = [c \in Clients |-> FALSE]
  /\ answer = [c \in Clients |-> NoReply]
  /\ out = [c \in Clients |-> NoReply]

Invoke(c, op) ==
  /\ call[c] = NoCall
  /\ call' = [call EXCEPT ![c] = op]
  /\ out' = [out EXCEPT ![c] = NoReply]
  /\ UNCHANGED <<reg, performed, answer>>

Read(c) ==
  /\ call[c].op = "Get"
  /\ answer' = [answer EXCEPT ![c] = ReadReply(reg[call[c].key])]
  /\ UNCHANGED <<reg, call, performed, out>>

Perform(c) ==
  /\ call[c].op = "Put"
  /\ reg[call[c].key].version = call[c].version
  /\ reg' = [reg EXCEPT ![call[c].key] = PutEntry(@, call[c].value)]
  /\ performed' = [performed EXCEPT ![c] = TRUE]
  /\ UNCHANGED <<call, answer, out>>

Refuse(c) ==
  /\ call[c].op = "Put"
  /\ reg[call[c].key].version # call[c].version
  /\ answer' = [answer EXCEPT ![c] = ErrReply(Refusal(reg[call[c].key]))]
  /\ UNCHANGED <<reg, call, performed, out>>

\* The results a pending Put may be given.
PutResult(c, err) ==
  \/ err = "OK" /\ performed[c]
  \/ err = "ErrMaybe" /\ answer[c].err = "ErrVersion"
  \/ err = "ErrVersion" /\ answer[c].err = "ErrVersion" /\ ~performed[c]
  \/ err = "ErrNoKey" /\ answer[c].err = "ErrNoKey" /\ ~performed[c]

Return(c, reply) ==
  /\ \/ call[c].op = "Get" /\ answer[c] # NoReply /\ reply = answer[c]
     \/ call[c].op = "Put" /\ PutResult(c, reply.err) /\ reply = ErrReply(reply.err)
  /\ out' = [out EXCEPT ![c] = reply]
  /\ call' = [call EXCEPT ![c] = NoCall]
  /\ performed' = [performed EXCEPT ![c] = FALSE]
  /\ answer' = [answer EXCEPT ![c] = NoReply]
  /\ UNCHANGED reg

\* The replies Return can choose from; a finite set, for TLC.
Returns(c) == {answer[c]} \cup {ErrReply(err) : err \in Errs}

\* Any call may be started; the primed value names it, so that the set of all
\* calls is never enumerated.
Start(c) == call'[c] \in GetCall \cup PutCall /\ Invoke(c, call'[c])
Serve(c) == Read(c) \/ Perform(c) \/ Refuse(c)
Finish(c) == \E reply \in Returns(c) : Return(c, reply)

kvNext ==
  \E c \in Clients :
    Start(c) \/ Serve(c) \/ Finish(c)

kvSpec == kvInit /\ [][kvNext]_kvVars
=============================================================================
