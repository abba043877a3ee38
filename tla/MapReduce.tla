----------------------------- MODULE MapReduce -----------------------------
(***************************************************************************)
(* The coordinator of mr (coordinator.go), its workers (worker.go) and the *)
(* files they share.  The processes are                                    *)
(*   - the coordinator's main loop mapReduce,                              *)
(*   - one RPC handler per worker (ReqTask or CompleteTask),               *)
(*   - one timer goroutine per task handed out,                            *)
(*   - the workers.                                                        *)
(* The two channels are bounded queues.  A step that does not block while  *)
(* it holds mu is atomic; mapReduce keeps mu for writing while it queues   *)
(* the reduce tasks ("spawn"), and a timer keeps it for reading while it   *)
(* waits for room in the queue (senders).                                  *)
(***************************************************************************)
EXTENDS Integers, Sequences, FiniteSets

CONSTANTS
  Workers,        \* worker processes; a restarted worker is another process
  nMap,           \* number of input files
  nReduce,
  TaskCap,        \* capacity of taskQueue, 128 in the code
  CompletionCap,  \* capacity of completionQueue, 128 in the code
  Lateness,       \* whether attempts may take longer than workerTimeout
  MaxFaults,      \* bound on crashes, failed attempts and stray completions
  Strays          \* completions that come from elsewhere than Worker

ASSUME MapReduceAssumption ==
  /\ IsFiniteSet(Workers)
  /\ nMap \in Nat /\ nReduce \in Nat \ {0}
  /\ TaskCap \in Nat \ {0} /\ CompletionCap \in Nat \ {0}
  /\ nMap <= TaskCap       \* MakeCoordinator queues every map task at once
  /\ Lateness \in SUBSET BOOLEAN
  /\ MaxFaults \in Nat
  /\ Strays \subseteq [task : [type : STRING, tid : Int], files : Nat]

VARIABLES
  coordinatorState,  \* "Map", "Reduce" or "Done"
  mapTaskState,      \* [MapTids -> [done, file]]
  reduceTaskState,   \* [ReduceTids -> [done, files]]
  taskQueue,
  completionQueue,
  mrPc,              \* where mapReduce is
  result,            \* the completion mapReduce is working on
  incomplete,        \* incompleteMapTasks, incompleteReduceTasks
  spawned,           \* how many reduce tasks mapReduce has queued
  timers,            \* [Tasks -> Nat], sleeping timer goroutines
  senders,           \* [Tasks -> Nat], timer goroutines waiting to send
  handler,           \* [Workers -> Handler], the RPC in progress
  up,                \* the coordinator process has not exited
  pc,                \* where a worker is
  job,               \* the attempt a worker is making
  torn,              \* the intermediate files created and not fully written
  output,            \* [ReduceTids -> [whole, maps, skips]], the files mr-out-r
  late,              \* attempts may outlive workerTimeout, in this behaviour
  faults             \* counts faults and stray completions

coordinatorVars == <<coordinatorState, mapTaskState, reduceTaskState>>
queueVars == <<taskQueue, completionQueue>>
loopVars == <<mrPc, result, incomplete, spawned>>
timerVars == <<timers, senders>>
workerVars == <<pc, job>>
fileVars == <<torn, output>>
vars == <<coordinatorVars, queueVars, loopVars, timerVars, handler, up,
          workerVars, fileVars, late, faults>>

(***************************************************************************)
(* Types.                                                                  *)
(***************************************************************************)
MapTids == 0 .. nMap - 1
ReduceTids == 0 .. nReduce - 1
Task(type, tid) == [type |-> type, tid |-> tid]
Tasks == [type : {"Map"}, tid : MapTids] \cup [type : {"Reduce"}, tid : ReduceTids]
NoTask == Task("none", 0)

\* An attempt of map task m writes one file per reducer, under a name of its
\* own; <<m, attempt>> stands for them, attempt 0 for none.
Files == MapTids \X (Nat \ {0})

\* CompleteTaskArgs: files is the attempt whose files the message lists, or 0
\* when it does not list one per reducer.
Completion(task, files) == [task |-> task, files |-> files]
NoResult == Completion(NoTask, 0)

Idle == [op |-> "none"]
Waiting == [op |-> "ReqTask"]
Got(t) == [op |-> "got", task |-> t]
Completing(args) == [op |-> "CompleteTask", args |-> args]

\* What a worker works from: the task of a ReqTaskReply and, for a reducer, its files.
JobOf(t, files) == [task |-> t, attempt |-> 0, files |-> files, alone |-> TRUE, skips |-> FALSE]
NoJob == JobOf(NoTask, {})
\* mr-out-r when it does not exist, is empty or breaks off.
Partial == [whole |-> FALSE, maps |-> {}, skips |-> FALSE]
Working == {"map", "mapWrite", "reduce", "reduceCreate", "reduceWrite"}
Pcs == Working \cup {"idle", "asking", "reporting", "exited", "crashed"}
Completions == [task : Tasks, files : Nat] \cup Strays \cup {NoResult}
Handlers == {Idle, Waiting} \cup {Got(t) : t \in Tasks} \cup [op : {"CompleteTask"}, args : Completions]

TypeOK ==
  /\ coordinatorState \in {"Map", "Reduce", "Done"}
  /\ mapTaskState \in [MapTids -> [done : BOOLEAN, file : Nat]]
  /\ reduceTaskState \in [ReduceTids -> [done : BOOLEAN, files : SUBSET Files]]
  /\ taskQueue \in Seq(Tasks) /\ Len(taskQueue) <= TaskCap
  /\ completionQueue \in Seq(Completions) /\ Len(completionQueue) <= CompletionCap
  /\ mrPc \in {"mapRecv", "requeue", "mapRecord", "spawn", "reduceRecv", "reduceRecord", "end"}
  /\ result \in Completions
  /\ incomplete \in Nat /\ spawned \in 0..nReduce
  /\ timers \in [Tasks -> Nat] /\ senders \in [Tasks -> Nat]
  /\ handler \in [Workers -> Handlers]
  /\ up \in BOOLEAN
  /\ pc \in [Workers -> Pcs]
  /\ job \in [Workers -> [task : Tasks \cup {NoTask}, attempt : Nat,
                          files : SUBSET Files, alone : BOOLEAN, skips : BOOLEAN]]
  /\ torn \subseteq Files
  /\ output \in [ReduceTids -> [whole : BOOLEAN, maps : SUBSET MapTids, skips : BOOLEAN]]
  /\ late \in Lateness
  /\ faults \in 0..MaxFaults

\* MakeCoordinator.
Init ==
  /\ coordinatorState = "Map"
  /\ mapTaskState = [m \in MapTids |-> [done |-> FALSE, file |-> 0]]
  /\ reduceTaskState = [r \in ReduceTids |-> [done |-> FALSE, files |-> {}]]
  /\ taskQueue = [i \in 1..nMap |-> Task("Map", i - 1)]
  /\ completionQueue = <<>>
  /\ mrPc = "mapRecv" /\ result = NoResult
  /\ incomplete = nMap /\ spawned = 0
  /\ timers = [t \in Tasks |-> 0] /\ senders = [t \in Tasks |-> 0]
  /\ handler = [w \in Workers |-> Idle]
  /\ up = TRUE
  /\ pc = [w \in Workers |-> "idle"]
  /\ job = [w \in Workers |-> NoJob]
  /\ torn = {}
  /\ output = [r \in ReduceTids |-> Partial]
  /\ late \in Lateness
  /\ faults = 0

(***************************************************************************)
(* The RWMutex mu.  A timer that waits to send holds it for reading; a     *)
(* writer that waits for it lets no new reader pass.                       *)
(***************************************************************************)
Readers == \E t \in Tasks : senders[t] > 0
WriterWaits ==
  \/ mrPc \in {"mapRecord", "reduceRecord"}
  \/ mrPc \in {"mapRecv", "reduceRecv"} /\ incomplete = 0
\* Mutant: the reduce tasks are queued without the lock.
CanRLockAlways == ~(WriterWaits /\ Readers)

CanRLock == mrPc # "spawn" /\ ~(WriterWaits /\ Readers)
CanLock == ~Readers

\* Whether t is recorded as done.
TaskDone(t) ==
  IF t.type = "Map" THEN mapTaskState[t.tid].done ELSE reduceTaskState[t.tid].done

TaskRoom == Len(taskQueue) < TaskCap

(***************************************************************************)
(* ReqTask.                                                                *)
(***************************************************************************)
\* The answer reaches the worker, unless that has crashed.
Reply(w, loc, j) ==
  /\ handler' = [handler EXCEPT ![w] = Idle]
  /\ IF pc[w] = "crashed"
       THEN UNCHANGED workerVars
       ELSE pc' = [pc EXCEPT ![w] = loc] /\ job' = [job EXCEPT ![w] = j]

Dequeue(w) ==
  /\ up /\ handler[w] = Waiting
  /\ taskQueue # <<>>
  /\ handler' = [handler EXCEPT ![w] = Got(Head(taskQueue))]
  /\ taskQueue' = Tail(taskQueue)
  /\ UNCHANGED <<coordinatorVars, completionQueue, loopVars, timerVars, up, workerVars,
                 fileVars, faults, late>>

\* No task for reqTaskTimeout: TaskTypeSleep, after which the worker asks again.
ReqTimeout(w) ==
  /\ up /\ handler[w] = Waiting
  /\ taskQueue = <<>>
  /\ Reply(w, "idle", NoJob)
  /\ UNCHANGED <<coordinatorVars, queueVars, loopVars, timerVars, up, fileVars, faults, late>>

Hand(w, t) ==
  IF t.type = "Map"
    THEN Reply(w, "map", JobOf(t, {}))
    ELSE Reply(w, "reduce", JobOf(t, reduceTaskState[t.tid].files))

\* Mutant: no timer for the task.
ReqAnswerNoTimer(w) ==
  /\ up /\ handler[w].op = "got"
  /\ CanRLock
  /\ LET t == handler[w].task IN
       IF t.type # coordinatorState THEN Reply(w, "idle", NoJob) ELSE Hand(w, t)
  /\ UNCHANGED <<coordinatorVars, queueVars, loopVars, timerVars, up, fileVars, faults, late>>

ReqAnswer(w) ==
  /\ up /\ handler[w].op = "got"
  /\ CanRLock
  /\ LET t == handler[w].task IN
       \/ /\ t.type # coordinatorState   \* out of sync: the task is dropped
          /\ Reply(w, "idle", NoJob)
          /\ UNCHANGED timers
       \/ /\ t.type = coordinatorState
          /\ Hand(w, t)
          /\ timers' = [timers EXCEPT ![t] = @ + 1]
  /\ UNCHANGED <<coordinatorVars, queueVars, loopVars, senders, up, fileVars, faults, late>>

(***************************************************************************)
(* The timer goroutine of a task that was handed out.                      *)
(***************************************************************************)
\* An attempt at t is under way, or its completion is.
UnderWay(t) ==
  \/ \E w \in Workers : pc[w] \in Working \cup {"reporting"} /\ job[w].task = t
  \/ \E w \in Workers : handler[w].op = "CompleteTask" /\ handler[w].args.task = t
  \/ \E i \in DOMAIN completionQueue : completionQueue[i].task = t
  \/ result.task = t

\* Mutant: the timer is not a timer but a ticker.
WakeAgain(t) ==
  /\ up /\ timers[t] > 0
  /\ late \/ ~UnderWay(t)
  /\ CanRLock
  /\ UNCHANGED timers

Wake(t) ==
  /\ up /\ timers[t] > 0
  /\ late \/ ~UnderWay(t)
  /\ CanRLock
  /\ timers' = [timers EXCEPT ![t] = @ - 1]

StillWanted(t) == t.type = coordinatorState /\ ~TaskDone(t)

TimerFires(t) ==
  /\ Wake(t)
  /\ \/ ~StillWanted(t) /\ UNCHANGED <<taskQueue, senders>>
     \/ /\ StillWanted(t) /\ TaskRoom
        /\ taskQueue' = Append(taskQueue, t) /\ UNCHANGED senders
     \/ /\ StillWanted(t) /\ ~TaskRoom
        /\ senders' = [senders EXCEPT ![t] = @ + 1] /\ UNCHANGED taskQueue
  /\ UNCHANGED <<coordinatorVars, completionQueue, loopVars, handler, up, workerVars,
                 fileVars, faults, late>>

\* Room in the queue: the timer sends, and gives up its read lock.
TimerSends(t) ==
  /\ up /\ senders[t] > 0 /\ TaskRoom
  /\ taskQueue' = Append(taskQueue, t)
  /\ senders' = [senders EXCEPT ![t] = @ - 1]
  /\ UNCHANGED <<coordinatorVars, completionQueue, loopVars, timers, handler, up, workerVars,
                 fileVars, faults, late>>

(***************************************************************************)
(* CompleteTask.                                                           *)
(***************************************************************************)
CompleteTask(w) ==
  /\ up /\ handler[w].op = "CompleteTask"
  /\ Len(completionQueue) < CompletionCap
  /\ completionQueue' = Append(completionQueue, handler[w].args)
  /\ Reply(w, "idle", NoJob)
  /\ UNCHANGED <<coordinatorVars, taskQueue, loopVars, timerVars, up, fileVars, faults, late>>

\* A completion that no Worker of this job sends: CompleteTask takes any.
StrayCompletion ==
  /\ up /\ faults < MaxFaults
  /\ Len(completionQueue) < CompletionCap
  /\ \E args \in Strays : completionQueue' = Append(completionQueue, args)
  /\ faults' = faults + 1
  /\ UNCHANGED <<coordinatorVars, taskQueue, loopVars, timerVars, handler, up, workerVars,
                 fileVars, late>>

(***************************************************************************)
(* mapReduce.                                                              *)
(***************************************************************************)
Receive(pcs) ==
  /\ up /\ mrPc \in pcs /\ incomplete > 0
  /\ completionQueue # <<>>
  /\ completionQueue' = Tail(completionQueue)
  /\ UNCHANGED <<coordinatorVars, taskQueue, incomplete, spawned, timerVars, handler, up,
                 workerVars, fileVars, faults, late>>

\* Mutant: the number of files is not looked at.
MapRecvUnchecked ==
  /\ Receive({"mapRecv"})
  /\ LET args == Head(completionQueue)
         wanted == args.task.type = "Map" /\ args.task.tid \in MapTids
     IN \/ ~wanted /\ UNCHANGED <<mrPc, result>>
        \/ wanted /\ mrPc' = "mapRecord" /\ result' = args

MapRecv ==
  /\ Receive({"mapRecv"})
  /\ LET args == Head(completionQueue)
         wanted == args.task.type = "Map" /\ args.task.tid \in MapTids
     IN \/ ~wanted /\ UNCHANGED <<mrPc, result>>
        \/ wanted /\ args.files = 0 /\ mrPc' = "requeue" /\ result' = args
        \/ wanted /\ args.files # 0 /\ mrPc' = "mapRecord" /\ result' = args

\* A completion without one file per reducer: the task is queued again.
Requeue ==
  /\ up /\ mrPc = "requeue" /\ TaskRoom
  /\ taskQueue' = Append(taskQueue, result.task)
  /\ mrPc' = "mapRecv" /\ result' = NoResult
  /\ UNCHANGED <<coordinatorVars, completionQueue, incomplete, spawned, timerVars, handler, up,
                 workerVars, fileVars, faults, late>>

\* Mutant: the last completion wins, though only the first is counted.
MapRecordLast ==
  /\ up /\ mrPc = "mapRecord" /\ CanLock
  /\ LET m == result.task.tid IN
       /\ mapTaskState' = [mapTaskState EXCEPT ![m] = [done |-> TRUE, file |-> result.files]]
       /\ incomplete' = IF mapTaskState[m].done THEN incomplete ELSE incomplete - 1
  /\ mrPc' = "mapRecv" /\ result' = NoResult
  /\ UNCHANGED <<coordinatorState, reduceTaskState, queueVars, spawned, timerVars, handler, up,
                 workerVars, fileVars, faults, late>>

MapRecord ==
  /\ up /\ mrPc = "mapRecord" /\ CanLock
  /\ LET m == result.task.tid IN
       \/ mapTaskState[m].done /\ UNCHANGED <<mapTaskState, incomplete>>
       \/ /\ ~mapTaskState[m].done
          /\ mapTaskState' = [mapTaskState EXCEPT ![m] = [done |-> TRUE, file |-> result.files]]
          /\ incomplete' = incomplete - 1
  /\ mrPc' = "mapRecv" /\ result' = NoResult
  /\ UNCHANGED <<coordinatorState, reduceTaskState, queueVars, spawned, timerVars, handler, up,
                 workerVars, fileVars, faults, late>>

\* Mutant: the reduce phase starts with one map task missing.
SpawnBeginsEarly ==
  /\ up /\ mrPc = "mapRecv" /\ incomplete <= 1 /\ CanLock
  /\ mrPc' = "spawn" /\ incomplete' = nReduce
  /\ UNCHANGED <<coordinatorVars, queueVars, result, spawned, timerVars, handler, up,
                 workerVars, fileVars, faults, late>>

\* All map tasks are done: mapReduce takes the lock and keeps it.
SpawnBegins ==
  /\ up /\ mrPc = "mapRecv" /\ incomplete = 0 /\ CanLock
  /\ mrPc' = "spawn" /\ incomplete' = nReduce
  /\ UNCHANGED <<coordinatorVars, queueVars, result, spawned, timerVars, handler, up,
                 workerVars, fileVars, faults, late>>

SpawnReduce ==
  /\ up /\ mrPc = "spawn" /\ spawned < nReduce /\ TaskRoom
  /\ taskQueue' = Append(taskQueue, Task("Reduce", spawned))
  /\ spawned' = spawned + 1
  /\ UNCHANGED <<coordinatorVars, completionQueue, mrPc, result, incomplete, timerVars, handler,
                 up, workerVars, fileVars, faults, late>>

MapFiles == {<<m, mapTaskState[m].file>> : m \in MapTids}

SpawnEnds ==
  /\ up /\ mrPc = "spawn" /\ spawned = nReduce
  /\ reduceTaskState' = [r \in ReduceTids |->
                           [reduceTaskState[r] EXCEPT !.files = @ \cup MapFiles]]
  /\ coordinatorState' = "Reduce"
  /\ mrPc' = "reduceRecv"
  /\ UNCHANGED <<mapTaskState, queueVars, result, incomplete, spawned, timerVars, handler, up,
                 workerVars, fileVars, faults, late>>

ReduceRecv ==
  /\ Receive({"reduceRecv"})
  /\ LET args == Head(completionQueue)
         wanted == args.task.type = "Reduce" /\ args.task.tid \in ReduceTids
     IN \/ ~wanted /\ UNCHANGED <<mrPc, result>>
        \/ wanted /\ mrPc' = "reduceRecord" /\ result' = args

ReduceRecord ==
  /\ up /\ mrPc = "reduceRecord" /\ CanLock
  /\ LET r == result.task.tid IN
       \/ reduceTaskState[r].done /\ UNCHANGED <<reduceTaskState, incomplete>>
       \/ /\ ~reduceTaskState[r].done
          /\ reduceTaskState' = [reduceTaskState EXCEPT ![r].done = TRUE]
          /\ incomplete' = incomplete - 1
  /\ mrPc' = "reduceRecv" /\ result' = NoResult
  /\ UNCHANGED <<coordinatorState, mapTaskState, queueVars, spawned, timerVars, handler, up,
                 workerVars, fileVars, faults, late>>

\* Mutant: the job is called done with one reduce task missing.
MarkDoneEarly ==
  /\ up /\ mrPc = "reduceRecv" /\ incomplete <= 1 /\ CanLock
  /\ coordinatorState' = "Done"
  /\ mrPc' = "end"
  /\ UNCHANGED <<mapTaskState, reduceTaskState, queueVars, result, incomplete, spawned, timerVars,
                 handler, up, workerVars, fileVars, faults, late>>

MarkDone ==
  /\ up /\ mrPc = "reduceRecv" /\ incomplete = 0 /\ CanLock
  /\ coordinatorState' = "Done"
  /\ mrPc' = "end"
  /\ UNCHANGED <<mapTaskState, reduceTaskState, queueVars, result, incomplete, spawned, timerVars,
                 handler, up, workerVars, fileVars, faults, late>>

\* main has seen Done() and leaves; queues, goroutines and RPCs end with it.
Exit ==
  /\ up /\ coordinatorState = "Done"
  /\ up' = FALSE
  /\ handler' = [w \in Workers |-> Idle]
  /\ taskQueue' = <<>> /\ completionQueue' = <<>>
  /\ timers' = [t \in Tasks |-> 0] /\ senders' = [t \in Tasks |-> 0]
  /\ UNCHANGED <<coordinatorVars, loopVars, workerVars, fileVars, faults, late>>

(***************************************************************************)
(* Worker.                                                                 *)
(***************************************************************************)
Move(w, loc, j) == pc' = [pc EXCEPT ![w] = loc] /\ job' = [job EXCEPT ![w] = j]

\* The steps of a worker leave the coordinator alone, but for its RPCs.
Outside == UNCHANGED <<coordinatorVars, queueVars, loopVars, timerVars, up, late>>

\* An RPC: a goroutine of the coordinator runs it, if there is one.
Call(w, h) == handler' = IF up THEN [handler EXCEPT ![w] = h] ELSE handler

CallReqTask(w) ==
  /\ pc[w] = "idle"
  /\ Call(w, Waiting) /\ Move(w, "asking", NoJob)
  /\ Outside /\ UNCHANGED <<fileVars, faults>>

\* Mutant: the worker asks again when the coordinator does not answer.
CallFailsRetries(w) ==
  /\ pc[w] \in {"asking", "reporting"} /\ ~up
  /\ Move(w, "idle", NoJob)
  /\ Outside /\ UNCHANGED <<handler, fileVars, faults>>

\* The call cannot be made, or fails: the coordinator is gone.
CallFails(w) ==
  /\ pc[w] \in {"asking", "reporting"} /\ ~up
  /\ Move(w, "exited", NoJob)
  /\ Outside /\ UNCHANGED <<handler, fileVars, faults>>

CallCompleteTask(w, files) ==
  /\ Call(w, Completing(Completion(job[w].task, files)))
  /\ Move(w, "reporting", JobOf(job[w].task, {}))

\* The attempts at m whose files somebody still refers to.
Referenced(m) ==
  {mapTaskState[m].file} \cup {job[w].attempt : w \in {v \in Workers : job[v].task = Task("Map", m)}}
  \cup {args.files : args \in {a \in {result} \cup {completionQueue[i] : i \in DOMAIN completionQueue}
                                   \cup {handler[w].args : w \in {v \in Workers : handler[v].op = "CompleteTask"}} :
                               a.task = Task("Map", m)}}

\* Mutant: the name is made of the task numbers only.
UniqueNameFixed(m) == 1

\* generateUniqueIntermediateFilename: a name nobody uses.  Names of files that
\* nobody refers to are used again, which keeps the set of names finite.
UniqueName(m) ==
  CHOOSE n \in 1 .. 2 * Cardinality(Workers) + CompletionCap + 3 : n \notin Referenced(m)

\* doMap creates the files ...
MapCreate(w) ==
  /\ pc[w] = "map"
  /\ LET m == job[w].task.tid
         n == UniqueName(m)
     IN /\ Move(w, "mapWrite", [job[w] EXCEPT !.attempt = n])
        /\ torn' = torn \cup {<<m, n>>}
  /\ Outside /\ UNCHANGED <<handler, output, faults>>

\* ... computes and writes them, and the worker reports.
MapWrite(w) ==
  /\ pc[w] = "mapWrite"
  /\ torn' = torn \ {<<job[w].task.tid, job[w].attempt>>}
  /\ CallCompleteTask(w, job[w].attempt)
  /\ Outside /\ UNCHANGED <<output, faults>>

\* The reducer skips the files it cannot read, a file with no name among them;
\* half a file is not JSON, and fails the attempt.
ReduceRead(w) ==
  /\ pc[w] = "reduce"
  /\ LET named == {f \in job[w].files : f[2] # 0}
     IN  \E read \in SUBSET named :
           /\ faults' = IF read = named THEN faults ELSE faults + 1
           /\ faults' <= MaxFaults
           /\ IF read \cap torn = {}
                THEN Move(w, "reduceCreate", [JobOf(job[w].task, read) EXCEPT !.skips = read # named])
                ELSE Move(w, "idle", NoJob)
  /\ Outside /\ UNCHANGED <<handler, fileVars>>

\* The other workers that have mr-out-r open.
OtherWriters(w) ==
  {v \in Workers \ {w} : pc[v] = "reduceWrite" /\ job[v].task = job[w].task}

\* os.Create: the file is emptied, also under the hands of another writer.
ReduceCreate(w) ==
  /\ pc[w] = "reduceCreate"
  /\ pc' = [pc EXCEPT ![w] = "reduceWrite"]
  /\ job' = [v \in Workers |->
               IF v \in OtherWriters(w) THEN [job[v] EXCEPT !.alone = FALSE]
               ELSE IF v = w THEN [job[v] EXCEPT !.alone = OtherWriters(w) = {}]
               ELSE job[v]]
  /\ output' = [output EXCEPT ![job[w].task.tid] = Partial]
  /\ Outside /\ UNCHANGED <<handler, torn, faults>>

\* What mr-out-r is when w has written its last line.  Two writers that share
\* the file write at offsets of their own, each in its own order of the keys.
Written(w) ==
  {[whole |-> TRUE, maps |-> {f[1] : f \in job[w].files}, skips |-> job[w].skips]}
  \cup IF job[w].alone THEN {} ELSE {Partial}

ReduceWrite(w) ==
  /\ pc[w] = "reduceWrite"
  /\ \E o \in Written(w) : output' = [output EXCEPT ![job[w].task.tid] = o]
  /\ CallCompleteTask(w, 0)
  /\ Outside /\ UNCHANGED <<torn, faults>>

\* An error of readFile, doMap or doReduce: the worker goes on to the next task.
AttemptFails(w) ==
  /\ pc[w] \in Working \ {"reduceWrite"}
  /\ faults < MaxFaults /\ faults' = faults + 1
  /\ Move(w, "idle", NoJob)
  /\ Outside /\ UNCHANGED <<handler, fileVars>>

\* The process ends; an RPC it has sent is carried out all the same.  One
\* worker is left.
Crash(w) ==
  /\ pc[w] \in Working \cup {"asking", "reporting"}
  /\ \E v \in Workers \ {w} : pc[v] # "crashed"
  /\ faults < MaxFaults /\ faults' = faults + 1
  /\ Move(w, "crashed", NoJob)
  /\ \/ UNCHANGED output
     \/ /\ pc[w] = "reduceWrite"   \* having written some lines
        /\ output' = [output EXCEPT ![job[w].task.tid] = Partial]
  /\ Outside /\ UNCHANGED <<handler, torn>>

\* Everything has ended.
Finished ==
  /\ ~up /\ \A w \in Workers : pc[w] \in {"exited", "crashed"}
  /\ UNCHANGED vars
-----------------------------------------------------------------------------
MainLoop ==
  \/ MapRecv \/ Requeue \/ MapRecord \/ SpawnBegins \/ SpawnReduce \/ SpawnEnds
  \/ ReduceRecv \/ ReduceRecord \/ MarkDone

HandlerStep(w) == Dequeue(w) \/ ReqTimeout(w) \/ ReqAnswer(w) \/ CompleteTask(w)

WorkerStep(w) ==
  \/ CallReqTask(w) \/ CallFails(w) \/ MapCreate(w) \/ MapWrite(w)
  \/ ReduceRead(w) \/ ReduceCreate(w) \/ ReduceWrite(w)

Next ==
  \/ MainLoop \/ StrayCompletion \/ Exit \/ Finished
  \/ \E t \in Tasks : TimerFires(t) \/ TimerSends(t)
  \/ \E w \in Workers : HandlerStep(w) \/ WorkerStep(w) \/ AttemptFails(w) \/ Crash(w)

Spec == Init /\ [][Next]_vars

(***************************************************************************)
(* Every goroutine and every process that has not crashed keeps running;   *)
(* nothing makes an attempt fail or a stray completion arrive.             *)
(***************************************************************************)
Fairness ==
  /\ WF_vars(MainLoop) /\ WF_vars(Exit)
  /\ \A t \in Tasks : WF_vars(TimerFires(t)) /\ WF_vars(TimerSends(t))
  /\ \A w \in Workers : WF_vars(HandlerStep(w)) /\ WF_vars(WorkerStep(w))

FairSpec == Spec /\ Fairness
-----------------------------------------------------------------------------
(***************************************************************************)
(* Properties.                                                             *)
(***************************************************************************)
\* How many times t is in circulation: queued, taken by a handler, or with a
\* timer that will look at it again.
Tokens(t) ==
  Cardinality({i \in DOMAIN taskQueue : taskQueue[i] = t})
  + Cardinality({w \in Workers : handler[w] = Got(t)})
  + timers[t] + senders[t]

\* A task the current phase still needs is never lost, whoever crashes and
\* whatever ReqTask drops as out of sync (coordinator.go:69, 113).
NoTaskLost == up => \A t \in Tasks : StillWanted(t) => Tokens(t) > 0

\* A task is in circulation at most once: retries do not multiply.
NoDuplicateTask == \A t \in Tasks : Tokens(t) <= 1

\* A reducer gets one output of every map task, none of them half written,
\* also when late attempts at the same map tasks are still writing
\* (worker.go:36, "avoid collisions on the same filesystem with other mappers
\* potentially retrying").
ReduceInputsWhole ==
  \A w \in Workers :
    pc[w] = "reduce" =>
      /\ \A m \in MapTids : Cardinality({f \in job[w].files : f[1] = m}) = 1
      /\ job[w].files \cap torn = {}

\* When the job is done, every output file is there and whole
\* (mr_test.go:114, "a process has exited. this means that the output should be
\* finalized").
OutputFinal ==
  coordinatorState = "Done" => \A r \in ReduceTids : output[r].whole

\* OutputFinal holds where no attempt outlives workerTimeout, whichever worker
\* crashes and whatever else is reported (coordinator.go:99-118).
OutputFinalTimely == late \/ OutputFinal

\* An output file that is whole has the data of every map task, unless the
\* reducer failed to read a file and went on without it (worker.go:98-106).
OutputComplete ==
  \A r \in ReduceTids :
    output[r].whole /\ ~output[r].skips => output[r].maps = MapTids

\* As long as one worker lives the job gets done, whoever crashes or reports
\* nonsense, unless stale tasks fill taskQueue for good: mapReduce then waits for
\* room while it holds mu, or for mu that a waiting timer holds
\* (coordinator.go:117, 256-262).
JobFinishes == <>(coordinatorState = "Done" \/ []~TaskRoom)

\* All workers exit once the job is done: none asks for ever (worker.go:55-62).
WorkersExit == coordinatorState = "Done" ~> \A w \in Workers : pc[w] \in {"exited", "crashed"}

\* The coordinator does what MapReduceJob says.
Reduced == {r \in ReduceTids : reduceTaskState[r].done}
Job == INSTANCE MapReduceJob WITH
  phase <- coordinatorState,
  accepted <- [m \in MapTids |-> mapTaskState[m].file],
  inputs <- [r \in ReduceTids |-> reduceTaskState[r].files],
  reduced <- Reduced
ImplementsJob == Job!jobSpec
=============================================================================
