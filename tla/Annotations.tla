----------------------------- MODULE Annotations -----------------------------
(***************************************************************************)
(* The annotations a test collects for the picture of its run              *)
(* (tester1/annotation.go): what the network and the servers suffered, the *)
(* checks and their outcome, and what the server processes post by RPC     *)
(* (annotator.go).  The picture is drawn by CheckPorcupine, with the       *)
(* clients' operations, or without them by cleanup: at the end of a test,  *)
(* when a Raft server reports an apply error, or on SIGINT.                *)
(*                                                                         *)
(* Tests run one after the other and share the global annotation object.   *)
(* Four kinds of goroutine use it: the test, the Partitioner, the handlers *)
(* of the servers' RPCs, and the one that waits for SIGINT.  A timestamp   *)
(* is the clock, which moves whenever an annotation takes one.             *)
(***************************************************************************)
EXTENDS Naturals, Sequences

CONSTANTS
  Servers,     \* the servers of a test, 0..nservers-1
  Labs,        \* test programs: subset of {"kvsrv", "raft", "rsm", "kvraft"}
  Handlers,    \* bound: the RPCs that report an apply error at one time
  VisEnable,   \* values of VIS_ENABLE: subset of {"never", "unset", "always"}
  MaxTests,    \* bound: tests of the program
  MaxTime      \* bound: the last timestamp at which a test still annotates

ASSUME AnnotationsAssumption ==
  /\ Labs \subseteq {"kvsrv", "raft", "rsm", "kvraft"}
  /\ VisEnable \subseteq {"never", "unset", "always"}
  /\ MaxTests \in Nat /\ MaxTime \in Nat

VARIABLES
  enable,       \* VIS_ENABLE of this run
  lab,          \* the test program
  now,          \* the last timestamp taken
  annotations,  \* Annotation.annotations
  continuous,   \* Annotation.continuous[TAG_PARTITION], the only tag in use
  finalized,    \* Annotation.finalized
  connected, crashed, ckbegin,   \* of FrameworkInfo
  pc,           \* where the test's goroutine is
  draw,         \* for each goroutine that draws: how far it is, and what it draws
  part,         \* a Partitioner is running
  asked,        \* a server's GetAnnotatorTimestamp, for its next interval
  vis,          \* the picture in the file VIS_FILE; without VIS_FILE every
                \* picture has a file of its own and none is replaced
  \* History, never read by the code above:
  test,         \* the test, see Tests
  real,         \* the faults the test has caused and told
  was           \* was[t]: real at time t

anVars == <<annotations, continuous, finalized>>
fiVars == <<connected, crashed, ckbegin>>
vars == <<enable, lab, now, anVars, fiVars, pc, draw, part, asked, vis, test, real, was>>

(***************************************************************************)
(* Types.  A fault is shown as the servers on their own, those that have   *)
(* crashed, and for AnnotateTwoPartitions its second side.                 *)
(***************************************************************************)
Fault(conn, crash) == [apart |-> (Servers \ conn) \ crash, crash |-> crash, side |-> {}]
TwoSides(p2) == [apart |-> {}, crash |-> {}, side |-> {p2}]
NoFault == Fault(Servers, {})
Faults == [apart : SUBSET Servers, crash : SUBSET Servers, side : SUBSET SUBSET Servers]

\* By whom: the test's checks and remarks, its faults, or a server.
Annotation == [tag : {"tester", "fault", "server"}, start : Nat, end : Nat, what : Faults]
NoCont == [start |-> 0, what |-> NoFault]
NoVis == [test |-> 0, ops |-> FALSE]

\* Who draws: the test, the goroutine of captureSignal, handlers of ApplyErrRPC.
Drawers == {"test", "signal"} \cup Handlers
Drawing(at, pic) == [at |-> at, pic |-> pic]
Idle == Drawing("idle", NoVis)

\* The test's number; whether it called AnnotateTest; it failed; it said that its
\* annotations are final, and CheckPorcupine opened no file since; a picture got
\* lost, as its file could not be opened or written; one with operations was drawn,
\* with no interrupt under way; no goroutine of an earlier test was left when it
\* began; its annotations were not cleared; and since when it runs.
Tests == [n : 0..MaxTests, annotated : BOOLEAN, failed : BOOLEAN, flagged : BOOLEAN,
          lost : BOOLEAN, drawn : BOOLEAN, clean : BOOLEAN, whole : BOOLEAN, since : 0..now]
NewTest(n, annotated, clean, since) ==
  [n |-> n, annotated |-> annotated, failed |-> FALSE, flagged |-> FALSE, lost |-> FALSE,
   drawn |-> FALSE, clean |-> clean, whole |-> TRUE, since |-> since]

TypeOK ==
  /\ enable \in VisEnable /\ lab \in Labs /\ now \in Nat
  /\ annotations \subseteq Annotation /\ \A a \in annotations : a.start <= a.end /\ a.end <= now
  /\ continuous \in [start : 0..now, what : Faults]
  /\ finalized \in BOOLEAN /\ part \in BOOLEAN
  /\ connected \subseteq Servers /\ crashed \subseteq Servers /\ ckbegin \in 0..now
  /\ pc \in {"between", "made", "running", "illegal", "legal", "ended"}
  /\ draw \in [Drawers -> [at : {"idle", "check", "finalize", "open", "write", "visualize",
                                 "exit", "exited"},
                           pic : [test : 0..MaxTests, ops : BOOLEAN]]]
  /\ asked \in 0..now
  /\ vis \in [test : 0..MaxTests, ops : BOOLEAN]
  /\ test \in Tests
  /\ real \in Faults /\ was \in Seq(Faults) /\ Len(was) = now

Init ==
  /\ enable \in VisEnable /\ lab \in Labs /\ now = 0
  /\ annotations = {} /\ continuous = NoCont /\ finalized = FALSE
  /\ connected = Servers /\ crashed = {} /\ ckbegin = 0
  /\ pc = "between" /\ part = FALSE /\ asked = 0 /\ vis = NoVis
  /\ draw = [g \in Drawers |-> IF g = "signal" THEN Drawing("check", NoVis) ELSE Idle]
  /\ test = NewTest(0, FALSE, TRUE, 0) /\ real = NoFault /\ was = << >>

(***************************************************************************)
(* The operations of Annotation, each under its mutex.                     *)
(***************************************************************************)
Tick == now' = now + 1 /\ was' = Append(was, real')
NoTick == UNCHANGED <<now, was>>

Shown(tag, start, what) == [tag |-> tag, start |-> start, end |-> now + 1, what |-> what]

annotateIntervalColor(tag, start) ==
  /\ annotations' = annotations \cup {Shown(tag, start, NoFault)}
  /\ Tick /\ UNCHANGED <<continuous, finalized>>

annotatePointColor(tag) ==
  /\ annotations' = annotations \cup {Shown(tag, now + 1, NoFault)}
  /\ Tick /\ UNCHANGED <<continuous, finalized>>

\* Mutant: the previous annotation goes on.
annotateContinuousColorKept(what) ==
  /\ annotations' = IF continuous = NoCont THEN annotations
                    ELSE annotations \cup {Shown("fault", continuous.start, continuous.what)}
  /\ continuous' = [start |-> IF continuous = NoCont THEN now + 1 ELSE continuous.start,
                    what |-> what]
  /\ Tick /\ UNCHANGED finalized

annotateContinuousColor(what) ==
  /\ annotations' = IF continuous = NoCont THEN annotations
                    ELSE annotations \cup {Shown("fault", continuous.start, continuous.what)}
  /\ continuous' = [start |-> now + 1, what |-> what]
  /\ Tick /\ UNCHANGED finalized

\* With nothing to end, an empty annotation that starts at 0 is added.
annotateContinuousEnd ==
  /\ annotations' = annotations \cup {Shown("fault", continuous.start, continuous.what)}
  /\ continuous' = NoCont
  /\ Tick /\ UNCHANGED finalized

clear == annotations' = {} /\ continuous' = NoCont /\ finalized' = FALSE

\* What finalize returns: the ongoing annotation ends now, in the copy.
finalize ==
  /\ finalized' = TRUE
  /\ UNCHANGED <<annotations, continuous>>

(***************************************************************************)
(* The test's goroutine.                                                   *)
(***************************************************************************)
Alive == draw["signal"].at # "exited"
Running == Alive /\ pc = "running"
Others == UNCHANGED <<enable, lab, part, asked>>
NoFinfo == UNCHANGED fiVars
SamePlace == UNCHANGED <<pc, draw, vis, test>>

\* Nothing of an earlier test is left.
NoZombies == ~part /\ draw["signal"].at = "check" /\ \A h \in Handlers : draw[h] = Idle

\* Tests of kvsrv1 do not call AnnotateTest.
PlainTest ==
  /\ Alive /\ pc = "between" /\ test.n < MaxTests /\ lab = "kvsrv"
  /\ pc' = "running"
  /\ test' = NewTest(test.n + 1, FALSE, NoZombies, now)
  /\ UNCHANGED <<anVars, draw, vis, real>> /\ NoTick /\ NoFinfo /\ Others

mkFrameworkInfo == connected' = Servers /\ crashed' = {} /\ ckbegin' = 0

\* AnnotateTest, first the framework info, then the annotations.
AnnotateTestInfo ==
  /\ Alive /\ pc = "between" /\ test.n < MaxTests /\ lab # "kvsrv"
  /\ mkFrameworkInfo
  /\ pc' = "made"
  /\ UNCHANGED <<anVars, draw, vis, test, real>> /\ NoTick /\ Others

AnnotateTest ==
  /\ Alive /\ pc = "made"
  /\ annotations' = {Shown("tester", now + 1, NoFault)}
  /\ continuous' = NoCont /\ finalized' = FALSE
  /\ pc' = "running"
  /\ test' = NewTest(test.n + 1, TRUE, NoZombies, now + 1)
  /\ real' = NoFault
  /\ UNCHANGED <<draw, vis>> /\ Tick /\ NoFinfo /\ Others

CanAnnotate == Running /\ test.annotated /\ now < MaxTime

AnnotateInfo ==
  /\ CanAnnotate
  /\ UNCHANGED real /\ annotatePointColor("tester")
  /\ NoFinfo /\ SamePlace /\ Others

AnnotateCheckerBegin ==
  /\ CanAnnotate
  /\ ckbegin' = now + 1
  /\ UNCHANGED <<anVars, connected, crashed, real>> /\ Tick /\ SamePlace /\ Others

\* The begin timestamp is reset in a copy only, and so serves the next end too.
AnnotateCheckerEnd ==
  /\ CanAnnotate
  /\ UNCHANGED real
  /\ IF ckbegin = 0 THEN annotatePointColor("tester") ELSE annotateIntervalColor("tester", ckbegin)
  /\ NoFinfo /\ SamePlace /\ Others

(***************************************************************************)
(* Faults.  A test uses AnnotateConnection, AnnotateShutdown and           *)
(* AnnotateRestart, or AnnotateTwoPartitions until AnnotateClearFailure,   *)
(* never the former during the latter.  Not every program uses them all.   *)
(***************************************************************************)
annotateFault(conn, crash) ==
  IF conn = Servers /\ crash = {} THEN annotateContinuousEnd
  ELSE annotateContinuousColor(Fault(conn, crash))

Unchanged == UNCHANGED anVars /\ NoTick
OneByOne == CanAnnotate /\ real.side = {} /\ ~part

AnnotateConnection(conn) ==
  /\ OneByOne /\ lab \in {"raft", "rsm"}
  /\ connected' = conn
  /\ real' = Fault(conn, crashed)
  /\ IF conn = connected THEN Unchanged ELSE annotateFault(conn, crashed)
  /\ UNCHANGED <<crashed, ckbegin>> /\ SamePlace /\ Others

AnnotateShutdown(S) ==
  /\ OneByOne
  /\ crashed' = crashed \cup S
  /\ real' = Fault(connected, crashed \cup S)
  /\ IF S \subseteq crashed THEN Unchanged ELSE annotateFault(connected, crashed \cup S)
  /\ UNCHANGED <<connected, ckbegin>> /\ SamePlace /\ Others

AnnotateRestart(S) ==
  /\ OneByOne
  /\ crashed' = crashed \ S
  /\ real' = Fault(connected, crashed \ S)
  /\ IF S \cap crashed = {} THEN Unchanged ELSE annotateFault(connected, crashed \ S)
  /\ UNCHANGED <<connected, ckbegin>> /\ SamePlace /\ Others

\* By the test itself, before which nothing else was wrong, or by the Partitioner.
AnnotateTwoPartitions(p2) ==
  /\ \/ CanAnnotate /\ lab \in {"rsm", "kvraft"} /\ ~part /\ (real = NoFault \/ real.side # {})
     \/ Alive /\ part /\ now < MaxTime
  /\ real' = TwoSides(p2)
  /\ annotateContinuousColor(TwoSides(p2))
  /\ NoFinfo /\ SamePlace /\ Others

AnnotateClearFailure ==
  /\ CanAnnotate /\ lab \in {"rsm", "kvraft"} /\ ~part
  /\ connected' = Servers /\ crashed' = {}
  /\ real' = NoFault
  /\ annotateContinuousEnd
  /\ UNCHANGED ckbegin /\ SamePlace /\ Others

\* go Partitioner, and the exchange that ends it.
SetPartitioner ==
  /\ Running /\ lab = "kvraft" /\ test.clean /\ (part \/ real = NoFault)
  /\ part' = ~part
  /\ UNCHANGED <<anVars, real, enable, lab, asked>> /\ NoTick /\ NoFinfo /\ SamePlace

(***************************************************************************)
(* Posts of the server processes, which may outlive their test.            *)
(***************************************************************************)
\* GetAnnotatorTimestamp returns 0 when the RPC fails.  Raft servers time their
\* snapshots.
GetAnnotatorTimestamp ==
  /\ Alive /\ now < MaxTime /\ test.n > 0 /\ lab = "raft"
  /\ UNCHANGED real
  /\ \/ asked' = 0 /\ NoTick
     \/ asked' = now + 1 /\ Tick
  /\ UNCHANGED <<anVars, enable, lab, part>> /\ NoFinfo /\ SamePlace

PostAnnotatorInfoInterval ==
  /\ Alive /\ now < MaxTime /\ test.n > 0 /\ lab = "raft"
  /\ UNCHANGED real /\ annotateIntervalColor("server", asked)
  /\ NoFinfo /\ SamePlace /\ Others

PostAnnotatorPoint ==
  /\ Alive /\ now < MaxTime /\ test.n > 0
  /\ UNCHANGED real /\ annotatePointColor("server")
  /\ NoFinfo /\ SamePlace /\ Others

(***************************************************************************)
(* cleanup, by whichever goroutine calls it: its check, finalize, opening  *)
(* the file, which empties it, and writing it are steps of their own.      *)
(***************************************************************************)
Picture(ops) == [test |-> test.n, ops |-> ops]

Leave(g) ==
  /\ draw' = [draw EXCEPT ![g] = IF g = "signal" THEN Drawing("exit", NoVis) ELSE Idle]
  /\ pc' = IF g = "test" THEN "between" ELSE pc
Go(g, at, pic) == draw' = [draw EXCEPT ![g] = Drawing(at, pic)] /\ UNCHANGED pc

DrawOnly == UNCHANGED real /\ NoTick /\ NoFinfo /\ Others
Lost == [test EXCEPT !.lost = TRUE]

\* Mutant: a picture is drawn whether or not there is one already.
NoPictureRedrawn(failed) == enable = "never" \/ (~failed /\ enable # "always")

\* cleanup needs no picture.
NoPicture(failed) == enable = "never" \/ (~failed /\ enable # "always") \/ finalized

cleanupCheck(g) ==
  /\ Alive /\ draw[g].at = "check"
  /\ IF NoPicture(g = "test" => test.failed)
       THEN clear /\ Leave(g) /\ test' = [test EXCEPT !.whole = FALSE]
       ELSE Go(g, "finalize", NoVis) /\ UNCHANGED <<anVars, test>>
  /\ UNCHANGED vis /\ DrawOnly

cleanupFinalize(g) ==
  /\ Alive /\ draw[g].at = "finalize"
  /\ finalize
  /\ IF annotations = {} /\ continuous = NoCont THEN Leave(g) ELSE Go(g, "open", Picture(FALSE))
  /\ UNCHANGED <<vis, test>> /\ DrawOnly

cleanupOpen(g) ==
  /\ Alive /\ draw[g].at = "open"
  /\ \/ vis' = NoVis /\ Go(g, "write", draw[g].pic) /\ UNCHANGED test
     \/ Leave(g) /\ test' = Lost /\ UNCHANGED vis
  /\ UNCHANGED anVars /\ DrawOnly

\* The file is no picture if Visualize fails, or if two goroutines write at once.
cleanupWrite(g) ==
  /\ Alive /\ draw[g].at = "write"
  /\ \/ vis' = draw[g].pic /\ UNCHANGED test
     \/ vis' = NoVis /\ test' = Lost
  /\ Leave(g)
  /\ UNCHANGED anVars /\ DrawOnly

cleanup(g) == cleanupCheck(g) \/ cleanupFinalize(g) \/ cleanupOpen(g) \/ cleanupWrite(g)

\* captureSignal: after the cleanup on SIGINT.
Exit ==
  /\ draw["signal"].at = "exit"
  /\ Go("signal", "exited", NoVis)
  /\ UNCHANGED <<anVars, vis, test>> /\ DrawOnly

\* ApplyErrRPC of a Raft server: AnnotateCheckerFailureBeforeExit annotates and
\* calls cleanup, but nothing exits: the test goes on.
ApplyErr(h) ==
  /\ Alive /\ lab = "raft" /\ test.n > 0 /\ now < MaxTime /\ draw[h] = Idle
  /\ UNCHANGED real
  /\ IF ckbegin = 0 THEN annotatePointColor("tester") ELSE annotateIntervalColor("tester", ckbegin)
  /\ Go(h, "check", NoVis)
  /\ UNCHANGED <<vis, test>> /\ NoFinfo /\ Others

(***************************************************************************)
(* The end of a test.                                                      *)
(***************************************************************************)
\* The last of several calls of CheckPorcupine follows.
SetAnnotationFinalized ==
  /\ Running /\ lab = "kvraft"
  /\ finalized' = TRUE
  /\ test' = [test EXCEPT !.flagged = TRUE]
  /\ UNCHANGED <<annotations, continuous, pc, draw, vis>> /\ DrawOnly

\* t.Fatal, or the end of the test; Config.Cleanup is deferred.
Ended == pc' = "ended" /\ draw' = [draw EXCEPT !["test"] = Drawing("check", NoVis)]

EndTest ==
  /\ Running /\ Ended
  /\ \E failed \in BOOLEAN : test' = [test EXCEPT !.failed = failed]
  /\ UNCHANGED <<anVars, vis>> /\ DrawOnly

Checking == Running /\ lab \in {"kvsrv", "kvraft"}
Opened == [test EXCEPT !.flagged = FALSE, !.drawn = FALSE]

\* Mutant: FinalizeAnnotations before the file is opened.
CheckPorcupineEarly ==
  /\ Checking
  /\ \/ vis' = NoVis /\ enable # "never"
        /\ pc' = "illegal" /\ test' = Opened /\ UNCHANGED <<anVars, draw>>
     \/ vis' = NoVis /\ enable = "never" /\ Ended /\ test' = [test EXCEPT !.failed = TRUE]
        /\ UNCHANGED anVars
     \/ UNCHANGED vis /\ Ended /\ test' = [test EXCEPT !.failed = TRUE] /\ finalize
  /\ DrawOnly

\* The history is not linearizable.  The file is opened, even if VIS_ENABLE is
\* never.  If it cannot be, or if it is, t.Fatal follows with nothing drawn.
CheckPorcupineIllegal ==
  /\ Checking
  /\ \/ vis' = NoVis /\ enable # "never" /\ pc' = "illegal" /\ test' = Opened /\ UNCHANGED draw
     \/ vis' = NoVis /\ enable = "never" /\ Ended /\ test' = [test EXCEPT !.failed = TRUE]
     \/ UNCHANGED vis /\ Ended /\ test' = [test EXCEPT !.failed = TRUE]
  /\ UNCHANGED anVars /\ DrawOnly

\* It is, or the check timed out: a picture if one is always wanted and this
\* check is the test's last.  Nothing happens if the file cannot be opened.
CheckPorcupineLegal ==
  /\ Checking /\ enable = "always" /\ finalized
  /\ vis' = NoVis /\ pc' = "legal" /\ test' = Opened
  /\ UNCHANGED <<anVars, draw>> /\ DrawOnly

FinalizeAnnotations ==
  /\ Alive /\ pc \in {"illegal", "legal"} /\ draw["test"] = Idle
  /\ finalize
  /\ Go("test", "visualize", Picture(TRUE))
  /\ UNCHANGED <<vis, test>> /\ DrawOnly

\* Then t.Fatal if the history is not linearizable.
Visualize ==
  /\ Alive /\ draw["test"].at = "visualize"
  /\ \E ok \in BOOLEAN :
       /\ vis' = IF ok THEN draw["test"].pic ELSE NoVis
       /\ test' = [test EXCEPT !.lost = @ \/ ~ok, !.failed = pc = "illegal",
                               !.drawn = ok /\ draw["signal"].at = "check"]
  /\ IF pc = "illegal" THEN Ended
     ELSE pc' = "running" /\ draw' = [draw EXCEPT !["test"] = Idle]
  /\ UNCHANGED anVars /\ DrawOnly

Next ==
  \/ PlainTest \/ AnnotateTestInfo \/ AnnotateTest \/ AnnotateInfo
  \/ AnnotateCheckerBegin \/ AnnotateCheckerEnd
  \/ \E S \in SUBSET Servers :
       \/ AnnotateConnection(S) \/ AnnotateShutdown(S) \/ AnnotateRestart(S)
       \/ AnnotateTwoPartitions(S)
  \/ AnnotateClearFailure \/ SetPartitioner
  \/ GetAnnotatorTimestamp \/ PostAnnotatorInfoInterval \/ PostAnnotatorPoint
  \/ SetAnnotationFinalized \/ EndTest
  \/ CheckPorcupineIllegal \/ CheckPorcupineLegal \/ FinalizeAnnotations \/ Visualize
  \/ \E g \in Drawers : cleanup(g)
  \/ \E h \in Handlers : ApplyErr(h)
  \/ Exit

Spec == Init /\ [][Next]_vars

(***************************************************************************)
(* Properties.                                                             *)
(***************************************************************************)
\* The fault annotations a picture drawn now would show at time t, but for
\* the empty ones of annotateContinuousEnd.
FaultsAt(t) ==
  {a.what : a \in {b \in annotations : b.tag = "fault" /\ b.start \in 1..t /\ t < b.end}}
  \cup (IF continuous.start \in 1..t THEN {continuous.what} ELSE {})

Expected(f) == IF f = NoFault THEN {} ELSE {f}

\* At every moment of a test its annotations show the faults there were, each
\* once and no other, now and in the past: AnnotateConnection and the others
\* return early only if nothing changes, a new fault ends the one before it,
\* and the last repair ends the last.  Two exceptions: a goroutine of an earlier
\* test that still runs (annotation.go:50-52), and a cleanup that clears the
\* annotations of a running test, which the second apply error does: the first
\* has finalized them, and no exit follows as the name of
\* AnnotateCheckerFailureBeforeExit has it.
TimelineTrue ==
  pc = "running" /\ test.annotated /\ test.clean /\ test.whole /\ Alive =>
    /\ \A t \in test.since..now : FaultsAt(t) = Expected(was[t])
    /\ FaultsAt(now) = Expected(real)

\* "[T]he vis file containing client operations ... won't be overridden by that
\* without client operations (generated at cleanup time)" (porcupine.go:181-183):
\* once CheckPorcupine has drawn it, it stays the test's picture, whether the
\* test ends or is interrupted.  It is lost to an interrupt in two cases: when that
\* had found the annotations not yet finalized as it was drawn, and when they have
\* been cleared since, by Cleanup or by the interrupt, and then a server or the
\* Partitioner annotates again.
OpsKept ==
  /\ test.drawn
  /\ test.whole \/ draw["signal"].at = "check" \/ (annotations = {} /\ continuous = NoCont)
  => vis = Picture(TRUE)

\* A goroutine has finalized the annotations, or emptied the file, and has not
\* written its picture.
Busy == pc \in {"illegal", "legal"} \/ \E g \in Drawers : draw[g].at \in {"open", "write"}

\* A test that calls AnnotateTest and fails, or is interrupted, leaves a picture
\* of itself behind, whoever of CheckPorcupine, Cleanup, SIGINT and apply errors
\* draws it and in whatever order they look at finalized, set it and write.  If
\* CheckPorcupine cannot open the file Cleanup tries again.  It need not if
\* VIS_ENABLE is never; if cleanup cannot open the file or a write fails; if the
\* test has declared its annotations finalized before CheckPorcupine drew them
\* (kvraft_test.go:67); if something of an earlier test was still running; and
\* nothing is said while some goroutine draws, so not if the process exits then:
\* an interrupt that finds the annotations finalized does not wait for the
\* picture, although "CheckPorcupine has already produced a vis file"
\* (annotation.go:514).
FailureShown ==
  /\ (pc = "between" /\ test.failed) \/ (~Alive /\ pc \in {"running", "ended"})
  /\ test.annotated /\ test.clean /\ ~test.flagged /\ ~test.lost /\ enable # "never" /\ ~Busy
  => vis.test = test.n
=============================================================================
