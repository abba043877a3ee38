-------------------------------- MODULE Clnts --------------------------------
(***************************************************************************)
(* The client side of the tester (tester1/clnts.go): every Clerk has a     *)
(* Clnt, which makes its end to a server at the first call, and which the  *)
(* test may restrict, cut off, reconnect and delete while other goroutines *)
(* call through it.  The ends live in the labrpc Network.                  *)
(*                                                                         *)
(* Each operation holds Clnt.mu, or Clnts.mu and then Clnt.mu, from its    *)
(* start to its end.  A Clnt has one end per server, so <<c, s>> names it. *)
(***************************************************************************)
CONSTANTS
  Clerks,    \* the Clnts a test makes, one per Clerk
  Servers    \* ServerName of every server

VARIABLES
  clerks,    \* keys of Clnts.clerks
  cleaned,   \* Clnts.clerks is nil
  srvs,      \* Clnt.srvs; nil is Servers, as allowedL takes it
  ends,      \* Clnt.ends of all Clnts
  netEnds,   \* Network.ends
  enabled,   \* the ends whose Network.enabled is true
  fatal,     \* log.Fatalf or a panic has ended the tester
  \* History, never read by the code above:
  most,      \* most[c]: the servers c has been allowed since it was last cut off
  least,     \* least[c]: the servers c has been connected to
  stray      \* ends made by a Clnt that was deleted before

clntVars == <<clerks, cleaned, srvs, ends, netEnds, enabled, fatal, most, least, stray>>

clntTypeOK ==
  /\ clerks \subseteq Clerks
  /\ cleaned \in BOOLEAN /\ fatal \in BOOLEAN
  /\ srvs \in [Clerks -> SUBSET Servers]
  /\ ends \subseteq Clerks \X Servers
  /\ netEnds \subseteq ends /\ enabled \subseteq ends /\ stray \subseteq ends
  /\ most \in [Clerks -> SUBSET Servers]
  /\ least \in [Clerks -> SUBSET Servers]

\* makeClnts, after a MakeClient for each of S.
clntInit(S) ==
  /\ clerks = S /\ cleaned = FALSE /\ fatal = FALSE
  /\ srvs = [c \in Clerks |-> IF c \in S THEN Servers ELSE {}]
  /\ most = srvs /\ least = srvs
  /\ ends = {} /\ netEnds = {} /\ enabled = {} /\ stray = {}

EndsOf(c) == {e \in ends : e[1] = c}
Remember(c, m, l) ==
  /\ most' = [most EXCEPT ![c] = m]
  /\ least' = [least EXCEPT ![c] = l]

\* Network.MakeEnd of a name that is new, Network.DeleteEnd of each of gone, one
\* that is not there being fatal, and Network.Enable, which does not ask.
NetMakeEnd(e) == netEnds' = netEnds \cup {e}
NetDeleteEnds(gone) ==
  /\ netEnds' = netEnds \ gone
  /\ enabled' = enabled \ gone
  /\ fatal' = ~(gone \subseteq netEnds)
Enable(es, on) == enabled' = IF on THEN enabled \cup es ELSE enabled \ es

\* Clnt.srvs allows a connection to s.
allowed(c, s) == s \in srvs[c]

\* A write to the nil map panics.
MakeClientTo(c, to) ==
  /\ fatal' = cleaned
  /\ clerks' = IF cleaned THEN clerks ELSE clerks \cup {c}
  /\ srvs' = [srvs EXCEPT ![c] = to]
  /\ Remember(c, to, to)
  /\ UNCHANGED <<cleaned, ends, netEnds, enabled, stray>>

MakeClient(c) == MakeClientTo(c, Servers)

\* Mutant: a new end is enabled whatever srvs says.
makeEndEnabled(c, s) ==
  /\ <<c, s>> \notin ends
  /\ ends' = ends \cup {<<c, s>>}
  /\ NetMakeEnd(<<c, s>>) /\ Enable({<<c, s>>}, TRUE)
  /\ stray' = IF c \in clerks THEN stray ELSE stray \cup {<<c, s>>}
  /\ UNCHANGED <<clerks, cleaned, srvs, fatal, most, least>>

\* Clnt.Call makes the end it needs, if it has none yet.
makeEnd(c, s) ==
  /\ <<c, s>> \notin ends
  /\ ends' = ends \cup {<<c, s>>}
  /\ NetMakeEnd(<<c, s>>) /\ Enable({<<c, s>>}, allowed(c, s))
  /\ stray' = IF c \in clerks THEN stray ELSE stray \cup {<<c, s>>}
  /\ UNCHANGED <<clerks, cleaned, srvs, fatal, most, least>>

\* Mutant: ends made later are not thought of.
ConnectAllEnds(c) ==
  /\ Enable(EndsOf(c), TRUE)
  /\ Remember(c, Servers, Servers)
  /\ UNCHANGED <<clerks, cleaned, srvs, ends, netEnds, fatal, stray>>

ConnectAll(c) ==
  /\ Enable(EndsOf(c), TRUE)
  /\ srvs' = [srvs EXCEPT ![c] = Servers]
  /\ Remember(c, Servers, Servers)
  /\ UNCHANGED <<clerks, cleaned, ends, netEnds, fatal, stray>>

\* Ends to other servers stay as they are.
ConnectTo(c, to) ==
  /\ srvs' = [srvs EXCEPT ![c] = to]
  /\ Enable({e \in EndsOf(c) : e[2] \in to}, TRUE)
  /\ Remember(c, most[c] \cup to, to)
  /\ UNCHANGED <<clerks, cleaned, ends, netEnds, fatal, stray>>

Disconnect(c, s) ==
  /\ Enable(EndsOf(c) \cap {<<c, s>>}, FALSE)
  /\ Remember(c, most[c], least[c] \ {s})
  /\ UNCHANGED <<clerks, cleaned, srvs, ends, netEnds, fatal, stray>>

DisconnectAll(c) ==
  /\ Enable(EndsOf(c), FALSE)
  /\ srvs' = [srvs EXCEPT ![c] = {}]
  /\ Remember(c, {}, {})
  /\ UNCHANGED <<clerks, cleaned, ends, netEnds, fatal, stray>>

\* Clnt.remove of every Clnt of S.
remove(S) ==
  LET gone == UNION {EndsOf(c) : c \in S}
  IN  NetDeleteEnds(gone)

\* Mutant: the Clnt stays in the map.
DeleteClientKept(c) ==
  /\ IF c \in clerks THEN remove({c}) ELSE UNCHANGED <<netEnds, enabled, fatal>>
  /\ UNCHANGED <<clerks, cleaned, srvs, ends, most, least, stray>>

DeleteClient(c) ==
  /\ IF c \in clerks THEN remove({c}) ELSE UNCHANGED <<netEnds, enabled, fatal>>
  /\ clerks' = clerks \ {c}
  /\ UNCHANGED <<cleaned, srvs, ends, most, least, stray>>

\* Mutant: the Clnts are forgotten, but not removed.
cleanupForgets ==
  /\ clerks' = {} /\ cleaned' = TRUE
  /\ UNCHANGED <<srvs, ends, netEnds, enabled, fatal, most, least, stray>>

cleanup ==
  /\ remove(clerks)
  /\ clerks' = {} /\ cleaned' = TRUE
  /\ UNCHANGED <<srvs, ends, most, least, stray>>

(***************************************************************************)
(* Properties.                                                             *)
(***************************************************************************)
\* A Clnt reaches only servers it was allowed: after DisconnectAll, and after
\* MakeClientTo for the others, no end is enabled, whether it was made before
\* or is made later, until the test connects the Clnt (clnts.go:23-24,152-153).
Confined == \A e \in enabled \cap netEnds : e[2] \in most[e[1]]

\* And it reaches those it was last connected to: the ends it has made, and
\* each end it makes later, until it is cut off or deleted.
Reaching == \A e \in netEnds : e[2] \in least[e[1]] => e \in enabled

\* No end is deleted twice, and no Clnt is added after cleanup, whichever of
\* DeleteClient and cleanup comes first (labrpc.go:423, clnts.go:169).
NoFatal == ~fatal
=============================================================================
