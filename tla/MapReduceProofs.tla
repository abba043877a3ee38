-------------------------- MODULE MapReduceProofs --------------------------
(***************************************************************************)
(* Theorems about MapReduce, for any workers, numbers of tasks, capacities *)
(* and bounds.                                                             *)
(***************************************************************************)
EXTENDS MapReduce, FiniteSetTheorems, TLAPS

USE MapReduceAssumption, Zenon

(***************************************************************************)
(* Types.                                                                  *)
(***************************************************************************)
MapTasks == {t \in Tasks : t.type = "Map"}
ReduceTasks == {t \in Tasks : t.type = "Reduce"}
Jobs == [task : Tasks \cup {NoTask}, attempt : Nat, files : SUBSET Files, alone : BOOLEAN, skips : BOOLEAN]
Outputs == [whole : BOOLEAN, maps : SUBSET MapTids, skips : BOOLEAN]

LEMMA TaskTypes ==
  /\ \A m \in MapTids : Task("Map", m) \in Tasks /\ m \in Nat
  /\ \A r \in ReduceTids : Task("Reduce", r) \in Tasks /\ r \in Nat
  /\ \A t \in Tasks : \/ t.type = "Map" /\ t.tid \in MapTids
                      \/ t.type = "Reduce" /\ t.tid \in ReduceTids
  /\ \A t \in Tasks : t = Task(t.type, t.tid)
  /\ NoTask \notin Tasks /\ NoTask.type = "none"
BY SMT DEF Task, Tasks, NoTask, MapTids, ReduceTids

LEMMA StrayTypes ==
  \A args \in Completions :
    /\ args.files \in Nat
    /\ args.task.type = "Map" /\ args.task.tid \in MapTids => args.task \in Tasks
    /\ args.task.type = "Reduce" /\ args.task.tid \in ReduceTids => args.task \in Tasks
<1> SUFFICES ASSUME NEW args \in Completions
             PROVE  /\ args.files \in Nat
                    /\ args.task.type = "Map" /\ args.task.tid \in MapTids => args.task \in Tasks
                    /\ args.task.type = "Reduce" /\ args.task.tid \in ReduceTids => args.task \in Tasks
  OBVIOUS
<1>1. CASE args \in [task : Tasks, files : Nat]
  BY <1>1, SMT
<1>2. CASE args \in Strays
  <2>1. args \in [task : [type : STRING, tid : Int], files : Nat]
    BY <1>2
  <2> QED BY <2>1, SMT DEF Tasks
<1>3. CASE args = NoResult
  BY <1>3, TaskTypes, SMT DEF NoResult, Completion, NoTask, Task
<1> QED BY <1>1, <1>2, <1>3 DEF Completions

LEMMA CompletionTypes ==
  /\ \A t \in Tasks, f \in Nat : Completion(t, f) \in Completions
  /\ \A t, f : Completion(t, f).task = t /\ Completion(t, f).files = f
  /\ NoResult \in Completions /\ NoResult.task = NoTask
BY SMT DEF Completion, Completions, NoResult

LEMMA HandlerTypes ==
  /\ Idle \in Handlers /\ Waiting \in Handlers
  /\ Idle.op = "none" /\ Waiting.op = "ReqTask"
  /\ \A t : Got(t).op = "got" /\ Got(t).task = t
  /\ \A t \in Tasks : Got(t) \in Handlers
  /\ \A a : Completing(a).op = "CompleteTask" /\ Completing(a).args = a
  /\ \A a \in Completions : Completing(a) \in Handlers
<1>1. Idle \in Handlers /\ Waiting \in Handlers /\ \A t \in Tasks : Got(t) \in Handlers
  BY DEF Handlers
<1>2. \A a \in Completions : Completing(a) \in Handlers
  <2>1. \A a \in Completions : Completing(a) \in [op : {"CompleteTask"}, args : Completions]
    BY SMT DEF Completing
  <2> QED BY <2>1 DEF Handlers
<1>3. /\ Idle.op = "none" /\ Waiting.op = "ReqTask"
      /\ \A t : Got(t).op = "got" /\ Got(t).task = t
      /\ \A a : Completing(a).op = "CompleteTask" /\ Completing(a).args = a
  BY SMT DEF Idle, Waiting, Got, Completing
<1> QED BY <1>1, <1>2, <1>3

LEMMA HandlerCases ==
  ASSUME NEW h \in Handlers
  PROVE  /\ h.op = "got" => h.task \in Tasks /\ h = Got(h.task)
         /\ h.op = "CompleteTask" => h.args \in Completions /\ h = Completing(h.args)
         /\ h.op = "ReqTask" => h = Waiting
         /\ h.op \in {"none", "ReqTask", "got", "CompleteTask"}
<1>1. CASE h \in {Idle, Waiting}
  BY <1>1, SMT DEF Idle, Waiting
<1>2. CASE h \in {Got(t) : t \in Tasks}
  BY <1>2, SMT DEF Got
<1>3. CASE h \in [op : {"CompleteTask"}, args : Completions]
  BY <1>3, SMT DEF Completing
<1> QED BY <1>1, <1>2, <1>3 DEF Handlers

LEMMA JobTypes ==
  /\ \A t \in Tasks \cup {NoTask}, f \in SUBSET Files : JobOf(t, f) \in Jobs
  /\ \A t, f : /\ JobOf(t, f).task = t /\ JobOf(t, f).files = f
               /\ JobOf(t, f).attempt = 0 /\ JobOf(t, f).alone /\ ~JobOf(t, f).skips
  /\ NoJob \in Jobs /\ NoJob.task = NoTask /\ NoJob.attempt = 0
  /\ Partial \in Outputs /\ ~Partial.whole
<1>1. {} \in SUBSET Files /\ {} \in SUBSET MapTids
  OBVIOUS
<1>2. \A t \in Tasks \cup {NoTask}, f \in SUBSET Files : JobOf(t, f) \in Jobs
  BY SMT DEF JobOf, Jobs
<1>3. \A t, f : /\ JobOf(t, f).task = t /\ JobOf(t, f).files = f
                /\ JobOf(t, f).attempt = 0 /\ JobOf(t, f).alone /\ ~JobOf(t, f).skips
  BY SMT DEF JobOf
<1>4. Partial \in Outputs /\ ~Partial.whole
  BY <1>1, SMT DEF Partial, Outputs
<1> QED BY <1>1, <1>2, <1>3, <1>4 DEF NoJob

LEMMA JobUpdates ==
  ASSUME NEW j \in Jobs
  PROVE  /\ \A k \in Nat : [j EXCEPT !.attempt = k] \in Jobs
         /\ \A k : [j EXCEPT !.attempt = k].task = j.task /\ [j EXCEPT !.attempt = k].attempt = k
         /\ \A b \in BOOLEAN : [j EXCEPT !.alone = b] \in Jobs
         /\ \A b : [j EXCEPT !.alone = b].task = j.task /\ [j EXCEPT !.alone = b].files = j.files
                 /\ [j EXCEPT !.alone = b].skips = j.skips
                 /\ [j EXCEPT !.alone = b].attempt = j.attempt /\ [j EXCEPT !.alone = b].alone = b
         /\ \A b \in BOOLEAN : [j EXCEPT !.skips = b] \in Jobs
         /\ \A b : [j EXCEPT !.skips = b].task = j.task /\ [j EXCEPT !.skips = b].files = j.files
                 /\ [j EXCEPT !.skips = b].skips = b /\ [j EXCEPT !.skips = b].attempt = j.attempt
<1>1. \A k \in Nat : [j EXCEPT !.attempt = k] \in Jobs
  BY SMT DEF Jobs
<1>2. \A k : [j EXCEPT !.attempt = k].task = j.task /\ [j EXCEPT !.attempt = k].attempt = k
  BY SMT DEF Jobs
<1>3. \A b \in BOOLEAN : [j EXCEPT !.alone = b] \in Jobs
  BY SMT DEF Jobs
<1>4. \A b : [j EXCEPT !.alone = b].task = j.task /\ [j EXCEPT !.alone = b].files = j.files
            /\ [j EXCEPT !.alone = b].skips = j.skips
            /\ [j EXCEPT !.alone = b].attempt = j.attempt /\ [j EXCEPT !.alone = b].alone = b
  BY SMT DEF Jobs
<1>5. \A b \in BOOLEAN : [j EXCEPT !.skips = b] \in Jobs
  BY SMT DEF Jobs
<1>6. \A b : [j EXCEPT !.skips = b].task = j.task /\ [j EXCEPT !.skips = b].files = j.files
            /\ [j EXCEPT !.skips = b].skips = b /\ [j EXCEPT !.skips = b].attempt = j.attempt
  BY SMT DEF Jobs
<1> QED BY <1>1, <1>2, <1>3, <1>4, <1>5, <1>6

LEMMA TypeParts ==
  TypeOK <=>
    /\ coordinatorState \in {"Map", "Reduce", "Done"}
    /\ mapTaskState \in [MapTids -> [done : BOOLEAN, file : Nat]]
    /\ reduceTaskState \in [ReduceTids -> [done : BOOLEAN, files : SUBSET Files]]
    /\ taskQueue \in Seq(Tasks) /\ Len(taskQueue) <= TaskCap
    /\ completionQueue \in Seq(Completions) /\ Len(completionQueue) <= CompletionCap
    /\ mrPc \in {"mapRecv", "requeue", "mapRecord", "spawn", "reduceRecv", "reduceRecord", "end"}
    /\ result \in Completions
    /\ incomplete \in Nat /\ spawned \in 0..nReduce
    /\ timers \in [Tasks -> Nat] /\ senders \in [Tasks -> Nat]
    /\ handler \in [Workers -> Handlers]
    /\ up \in BOOLEAN
    /\ pc \in [Workers -> Pcs]
    /\ job \in [Workers -> Jobs]
    /\ torn \subseteq Files
    /\ output \in [ReduceTids -> Outputs]
    /\ late \in Lateness
    /\ faults \in 0..MaxFaults
BY DEF TypeOK, Jobs, Outputs

(***************************************************************************)
(* What mapReduce counts, and where it is.                                 *)
(***************************************************************************)
MapLeft == {m \in MapTids : ~mapTaskState[m].done}
ReduceLeft == {r \in ReduceTids : ~reduceTaskState[r].done}
InMap == mrPc \in {"mapRecv", "requeue", "mapRecord"}

LoopInv ==
  /\ \A m \in MapTids : mapTaskState[m].done <=> mapTaskState[m].file # 0
  /\ coordinatorState = "Map" => \A r \in ReduceTids : ~reduceTaskState[r].done /\ reduceTaskState[r].files = {}
  /\ coordinatorState # "Map" => \A r \in ReduceTids : reduceTaskState[r].files = MapFiles
  /\ InMap => coordinatorState = "Map" /\ spawned = 0 /\ incomplete = Cardinality(MapLeft)
  /\ ~InMap => MapLeft = {}
  /\ mrPc = "spawn" => coordinatorState = "Map" /\ incomplete = nReduce
  /\ mrPc \in {"reduceRecv", "reduceRecord"} =>
       coordinatorState = "Reduce" /\ spawned = nReduce /\ incomplete = Cardinality(ReduceLeft)
  /\ mrPc = "end" => coordinatorState = "Done" /\ ReduceLeft = {}
  /\ mrPc \in {"requeue", "mapRecord"} => result.task \in MapTasks
  /\ mrPc = "mapRecord" => result.files # 0
  /\ mrPc = "reduceRecord" => result.task \in ReduceTasks

LEMMA LeftFinite ==
  /\ IsFiniteSet(MapTids) /\ IsFiniteSet(ReduceTids)
  /\ IsFiniteSet(MapLeft) /\ IsFiniteSet(ReduceLeft)
  /\ Cardinality(MapTids) = nMap /\ Cardinality(ReduceTids) = nReduce
<1>1. IsFiniteSet(MapTids) /\ Cardinality(MapTids) = nMap
  <2>1. 0 \in Int /\ nMap - 1 \in Int /\ (IF 0 > nMap - 1 THEN 0 ELSE (nMap - 1) - 0 + 1) = nMap
    BY SMT
  <2> QED BY <2>1, FS_Interval DEF MapTids
<1>2. IsFiniteSet(ReduceTids) /\ Cardinality(ReduceTids) = nReduce
  <2>1. 0 \in Int /\ nReduce - 1 \in Int /\ (IF 0 > nReduce - 1 THEN 0 ELSE (nReduce - 1) - 0 + 1) = nReduce
    BY SMT
  <2> QED BY <2>1, FS_Interval DEF ReduceTids
<1>3. MapLeft \subseteq MapTids /\ ReduceLeft \subseteq ReduceTids
  BY DEF MapLeft, ReduceLeft
<1> QED BY <1>1, <1>2, <1>3, FS_Subset

LEMMA Counting ==
  ASSUME NEW S, IsFiniteSet(S)
  PROVE  /\ Cardinality(S) \in Nat
         /\ Cardinality(S) = 0 <=> S = {}
         /\ \A x \in S : Cardinality(S) > 0 /\ Cardinality(S \ {x}) = Cardinality(S) - 1
<1>1. Cardinality(S) \in Nat /\ (Cardinality(S) = 0 <=> S = {})
  BY FS_CardinalityType, FS_EmptySet
<1>2. ASSUME NEW x \in S PROVE Cardinality(S) > 0 /\ Cardinality(S \ {x}) = Cardinality(S) - 1
  <2>1. Cardinality(S) # 0
    BY <1>1
  <2>2. Cardinality(S \ {x}) = Cardinality(S) - 1
    BY FS_RemoveElement
  <2> QED BY <1>1, <2>1, <2>2, SMT
<1> QED BY <1>1, <1>2

LEMMA ReplyType ==
  ASSUME TypeOK, NEW w \in Workers, NEW loc \in Pcs, NEW j \in Jobs, Reply(w, loc, j)
  PROVE  handler' \in [Workers -> Handlers] /\ pc' \in [Workers -> Pcs] /\ job' \in [Workers -> Jobs]
<1>1. handler \in [Workers -> Handlers] /\ pc \in [Workers -> Pcs] /\ job \in [Workers -> Jobs]
  BY TypeParts
<1>2. handler' = [handler EXCEPT ![w] = Idle]
  BY DEF Reply
<1>3. handler' \in [Workers -> Handlers]
  BY <1>1, <1>2, HandlerTypes
<1>4. CASE pc[w] = "crashed"
  BY <1>1, <1>3, <1>4 DEF Reply, workerVars
<1>5. CASE pc[w] # "crashed"
  BY <1>1, <1>3, <1>5 DEF Reply
<1> QED BY <1>4, <1>5

LEMMA MoveType ==
  ASSUME TypeOK, NEW w \in Workers, NEW loc \in Pcs, NEW j \in Jobs, Move(w, loc, j)
  PROVE  pc' \in [Workers -> Pcs] /\ job' \in [Workers -> Jobs]
BY TypeParts DEF Move

LEMMA CallType ==
  ASSUME TypeOK, NEW w \in Workers, NEW h \in Handlers, Call(w, h)
  PROVE  handler' \in [Workers -> Handlers]
<1>1. handler \in [Workers -> Handlers]
  BY TypeParts
<1>2. CASE up
  BY <1>1, <1>2 DEF Call
<1>3. CASE ~up
  BY <1>1, <1>3 DEF Call
<1> QED BY <1>2, <1>3

LEMMA QueueTypes ==
  ASSUME NEW S, NEW q \in Seq(S), NEW cap \in Nat
  PROVE  /\ Len(q) \in Nat
         /\ \A x \in S : Append(q, x) \in Seq(S)
         /\ \A x \in S : Len(q) < cap => Len(Append(q, x)) <= cap
         /\ q # << >> /\ Len(q) <= cap => Tail(q) \in Seq(S) /\ Len(Tail(q)) <= cap /\ Head(q) \in S
         /\ << >> \in Seq(S) /\ Len(<< >>) = 0
BY SMT

LEMMA InitType == Init => TypeOK
<1> SUFFICES ASSUME Init PROVE TypeOK
  OBVIOUS
<1>1. mapTaskState \in [MapTids -> [done : BOOLEAN, file : Nat]]
  <2>1. [done |-> FALSE, file |-> 0] \in [done : BOOLEAN, file : Nat]
    BY SMT
  <2> QED BY <2>1 DEF Init
<1>2. reduceTaskState \in [ReduceTids -> [done : BOOLEAN, files : SUBSET Files]]
  <2>1. {} \in SUBSET Files
    OBVIOUS
  <2>2. [done |-> FALSE, files |-> {}] \in [done : BOOLEAN, files : SUBSET Files]
    BY <2>1, SMT
  <2> QED BY <2>2 DEF Init
<1>3. taskQueue \in Seq(Tasks) /\ Len(taskQueue) <= TaskCap
  <2>1. \A i \in 1..nMap : Task("Map", i - 1) \in Tasks
    <3>1. \A i \in 1..nMap : i - 1 \in MapTids
      BY SMT DEF MapTids
    <3> QED BY <3>1, TaskTypes
  <2>2. taskQueue = [i \in 1..nMap |-> Task("Map", i - 1)]
    BY DEF Init
  <2> QED BY <2>1, <2>2, SMT
<1>4. completionQueue \in Seq(Completions) /\ Len(completionQueue) <= CompletionCap
  BY SMT DEF Init
<1>5. incomplete \in Nat /\ spawned \in 0..nReduce /\ faults \in 0..MaxFaults
  BY SMT DEF Init
<1>6. timers \in [Tasks -> Nat] /\ senders \in [Tasks -> Nat]
  <2>1. 0 \in Nat
    BY SMT
  <2> QED BY <2>1 DEF Init
<1>7. /\ handler \in [Workers -> Handlers] /\ result \in Completions
      /\ pc \in [Workers -> Pcs] /\ job \in [Workers -> Jobs]
      /\ output \in [ReduceTids -> Outputs]
  BY HandlerTypes, CompletionTypes, JobTypes DEF Init, Pcs
<1>8. /\ coordinatorState \in {"Map", "Reduce", "Done"} /\ up \in BOOLEAN /\ torn \subseteq Files
      /\ mrPc \in {"mapRecv", "requeue", "mapRecord", "spawn", "reduceRecv", "reduceRecord", "end"}
      /\ late \in Lateness
  BY DEF Init
<1> QED BY <1>1, <1>2, <1>3, <1>4, <1>5, <1>6, <1>7, <1>8, TypeParts

CoordinatorType ==
  /\ coordinatorState \in {"Map", "Reduce", "Done"}
  /\ mapTaskState \in [MapTids -> [done : BOOLEAN, file : Nat]]
  /\ reduceTaskState \in [ReduceTids -> [done : BOOLEAN, files : SUBSET Files]]
TasksType == taskQueue \in Seq(Tasks) /\ Len(taskQueue) <= TaskCap
CompletionsType == completionQueue \in Seq(Completions) /\ Len(completionQueue) <= CompletionCap
LoopType ==
  /\ mrPc \in {"mapRecv", "requeue", "mapRecord", "spawn", "reduceRecv", "reduceRecord", "end"}
  /\ result \in Completions /\ incomplete \in Nat /\ spawned \in 0..nReduce
TimerType == timers \in [Tasks -> Nat] /\ senders \in [Tasks -> Nat]
HandlerType == handler \in [Workers -> Handlers]
WorkerType == pc \in [Workers -> Pcs] /\ job \in [Workers -> Jobs]
FileType == torn \subseteq Files /\ output \in [ReduceTids -> Outputs]
OtherType == up \in BOOLEAN /\ late \in Lateness /\ faults \in 0..MaxFaults

LEMMA TypeGroups ==
  TypeOK <=> /\ CoordinatorType /\ TasksType /\ CompletionsType /\ LoopType /\ TimerType
             /\ HandlerType /\ WorkerType /\ FileType /\ OtherType
BY TypeParts DEF CoordinatorType, TasksType, CompletionsType, LoopType, TimerType,
                 HandlerType, WorkerType, FileType, OtherType

LEMMA TypeGroupsNext ==
  TypeOK' <=> /\ CoordinatorType' /\ TasksType' /\ CompletionsType' /\ LoopType' /\ TimerType'
              /\ HandlerType' /\ WorkerType' /\ FileType' /\ OtherType'
BY TypeGroups, PTL

LEMMA Unchanged ==
  /\ UNCHANGED coordinatorVars /\ CoordinatorType => CoordinatorType'
  /\ UNCHANGED taskQueue /\ TasksType => TasksType'
  /\ UNCHANGED completionQueue /\ CompletionsType => CompletionsType'
  /\ UNCHANGED loopVars /\ LoopType => LoopType'
  /\ UNCHANGED timerVars /\ TimerType => TimerType'
  /\ UNCHANGED handler /\ HandlerType => HandlerType'
  /\ UNCHANGED workerVars /\ WorkerType => WorkerType'
  /\ UNCHANGED fileVars /\ FileType => FileType'
  /\ UNCHANGED <<up, late, faults>> /\ OtherType => OtherType'
BY DEF coordinatorVars, loopVars, timerVars, workerVars, fileVars, CoordinatorType, TasksType,
       CompletionsType, LoopType, TimerType, HandlerType, WorkerType, FileType, OtherType

LEMMA HandlerTypeStep ==
  ASSUME TypeOK, NEW w \in Workers, HandlerStep(w)
  PROVE  TypeOK'
<1>0. /\ CoordinatorType /\ TasksType /\ CompletionsType /\ LoopType /\ TimerType
      /\ HandlerType /\ WorkerType /\ FileType /\ OtherType
  BY TypeGroups
<1>p. "idle" \in Pcs /\ "map" \in Pcs /\ "reduce" \in Pcs
  BY DEF Pcs, Working
<1>1. CASE Dequeue(w)
  <2>1. taskQueue' = Tail(taskQueue) /\ taskQueue # << >>
        /\ handler' = [handler EXCEPT ![w] = Got(Head(taskQueue))]
        /\ UNCHANGED coordinatorVars /\ UNCHANGED completionQueue /\ UNCHANGED loopVars
        /\ UNCHANGED timerVars /\ UNCHANGED workerVars /\ UNCHANGED fileVars
        /\ UNCHANGED <<up, late, faults>>
    BY <1>1 DEF Dequeue
  <2>2. TasksType' /\ Head(taskQueue) \in Tasks
    BY <1>0, <2>1, QueueTypes DEF TasksType
  <2>3. HandlerType'
    BY <1>0, <2>1, <2>2, HandlerTypes DEF HandlerType
  <2> QED BY <1>0, <2>1, <2>2, <2>3, Unchanged, TypeGroupsNext
<1>2. CASE ReqTimeout(w)
  <2>1. Reply(w, "idle", NoJob)
        /\ UNCHANGED coordinatorVars /\ UNCHANGED taskQueue /\ UNCHANGED completionQueue /\ UNCHANGED loopVars
        /\ UNCHANGED timerVars /\ UNCHANGED fileVars /\ UNCHANGED <<up, late, faults>>
    BY <1>2 DEF ReqTimeout, queueVars
  <2>2. HandlerType' /\ WorkerType'
    BY <1>p, <2>1, ReplyType, JobTypes DEF HandlerType, WorkerType
  <2> QED BY <1>0, <2>1, <2>2, Unchanged, TypeGroupsNext
<1>3. CASE ReqAnswer(w)
  <2>1. /\ UNCHANGED coordinatorVars /\ UNCHANGED taskQueue /\ UNCHANGED completionQueue /\ UNCHANGED loopVars
        /\ UNCHANGED senders /\ UNCHANGED fileVars /\ UNCHANGED <<up, late, faults>>
        /\ handler[w].op = "got"
    BY <1>3 DEF ReqAnswer, queueVars
  <2>t. PICK t \in Tasks : t = handler[w].task
    BY <1>0, <2>1, HandlerCases DEF HandlerType
  <2>2. CASE Reply(w, "idle", NoJob) /\ UNCHANGED timers
    <3>1. HandlerType' /\ WorkerType'
      BY <1>p, <2>2, ReplyType, JobTypes DEF HandlerType, WorkerType
    <3>2. TimerType'
      BY <1>0, <2>1, <2>2 DEF TimerType
    <3> QED BY <1>0, <2>1, <3>1, <3>2, Unchanged, TypeGroupsNext
  <2>3. CASE Hand(w, t) /\ timers' = [timers EXCEPT ![t] = @ + 1]
    <3>1. TimerType'
      BY <1>0, <2>1, <2>3, SMT DEF TimerType
    <3>2. {} \in SUBSET Files
      OBVIOUS
    <3>3. CASE t.type = "Map"
      <4>1. Reply(w, "map", JobOf(t, {}))
        BY <2>3, <3>3 DEF Hand
      <4>2. JobOf(t, {}) \in Jobs
        BY <3>2, JobTypes
      <4>3. HandlerType' /\ WorkerType'
        BY <1>p, <4>1, <4>2, ReplyType DEF HandlerType, WorkerType
      <4> QED BY <1>0, <2>1, <3>1, <4>3, Unchanged, TypeGroupsNext
    <3>4. CASE t.type # "Map"
      <4>1. Reply(w, "reduce", JobOf(t, reduceTaskState[t.tid].files))
        BY <2>3, <3>4 DEF Hand
      <4>2. t.tid \in ReduceTids
        BY <3>4, TaskTypes
      <4>3. reduceTaskState[t.tid].files \in SUBSET Files
        BY <1>0, <4>2, SMT DEF CoordinatorType
      <4>4. JobOf(t, reduceTaskState[t.tid].files) \in Jobs
        BY <4>3, JobTypes
      <4>5. HandlerType' /\ WorkerType'
        BY <1>p, <4>1, <4>4, ReplyType DEF HandlerType, WorkerType
      <4> QED BY <1>0, <2>1, <3>1, <4>5, Unchanged, TypeGroupsNext
    <3> QED BY <3>3, <3>4
  <2> QED BY <1>3, <2>t, <2>2, <2>3 DEF ReqAnswer
<1>4. CASE CompleteTask(w)
  <2>1. /\ Reply(w, "idle", NoJob) /\ handler[w].op = "CompleteTask"
        /\ Len(completionQueue) < CompletionCap /\ completionQueue' = Append(completionQueue, handler[w].args)
        /\ UNCHANGED coordinatorVars /\ UNCHANGED taskQueue /\ UNCHANGED loopVars
        /\ UNCHANGED timerVars /\ UNCHANGED fileVars /\ UNCHANGED <<up, late, faults>>
    BY <1>4 DEF CompleteTask
  <2>2. HandlerType' /\ WorkerType'
    BY <1>p, <2>1, ReplyType, JobTypes DEF HandlerType, WorkerType
  <2>3. handler[w].args \in Completions
    BY <1>0, <2>1, HandlerCases DEF HandlerType
  <2>4. CompletionsType'
    <3>1. CompletionCap \in Nat
      BY SMT
    <3> QED BY <1>0, <2>1, <2>3, <3>1, QueueTypes DEF CompletionsType
  <2> QED BY <1>0, <2>1, <2>2, <2>4, Unchanged, TypeGroupsNext
<1> QED BY <1>1, <1>2, <1>3, <1>4 DEF HandlerStep

LEMMA TimerTypeStep ==
  ASSUME TypeOK, NEW t \in Tasks, TimerFires(t) \/ TimerSends(t)
  PROVE  TypeOK'
<1>0. /\ CoordinatorType /\ TasksType /\ CompletionsType /\ LoopType /\ TimerType
      /\ HandlerType /\ WorkerType /\ FileType /\ OtherType
  BY TypeGroups
<1>1. /\ UNCHANGED coordinatorVars /\ UNCHANGED completionQueue /\ UNCHANGED loopVars /\ UNCHANGED handler
      /\ UNCHANGED workerVars /\ UNCHANGED fileVars /\ UNCHANGED <<up, late, faults>>
  BY DEF TimerFires, TimerSends
<1>2. \/ UNCHANGED taskQueue
      \/ taskQueue' = Append(taskQueue, t) /\ Len(taskQueue) < TaskCap
  BY DEF TimerFires, TimerSends, TaskRoom
<1>3. TasksType'
  <2>1. TaskCap \in Nat
    BY SMT
  <2>2. CASE UNCHANGED taskQueue
    BY <1>0, <2>2, Unchanged
  <2>3. CASE taskQueue' = Append(taskQueue, t) /\ Len(taskQueue) < TaskCap
    BY <1>0, <2>1, <2>3, QueueTypes DEF TasksType
  <2> QED BY <1>2, <2>2, <2>3
<1>4. /\ \/ timers' = timers
         \/ timers[t] > 0 /\ timers' = [timers EXCEPT ![t] = @ - 1]
      /\ \/ senders' = senders
         \/ senders' = [senders EXCEPT ![t] = @ + 1]
         \/ senders[t] > 0 /\ senders' = [senders EXCEPT ![t] = @ - 1]
  <2>1. CASE TimerFires(t)
    BY <2>1 DEF TimerFires, Wake
  <2>2. CASE TimerSends(t)
    <3>1. senders[t] > 0 /\ senders' = [senders EXCEPT ![t] = @ - 1] /\ timers' = timers
      BY <2>2 DEF TimerSends
    <3> QED BY <3>1
  <2> QED BY <2>1, <2>2
<1>5. TimerType'
  BY <1>0, <1>4, SMT DEF TimerType
<1> QED BY <1>0, <1>1, <1>3, <1>5, Unchanged, TypeGroupsNext

LEMMA StrayTypeStep == ASSUME TypeOK, StrayCompletion PROVE TypeOK'
<1>0. /\ CoordinatorType /\ TasksType /\ CompletionsType /\ LoopType /\ TimerType
      /\ HandlerType /\ WorkerType /\ FileType /\ OtherType
  BY TypeGroups
<1>1. /\ UNCHANGED coordinatorVars /\ UNCHANGED taskQueue /\ UNCHANGED loopVars /\ UNCHANGED timerVars
      /\ UNCHANGED handler /\ UNCHANGED workerVars /\ UNCHANGED fileVars /\ UNCHANGED <<up, late>>
      /\ faults < MaxFaults /\ faults' = faults + 1 /\ Len(completionQueue) < CompletionCap
  BY DEF StrayCompletion
<1>2. PICK args \in Strays : completionQueue' = Append(completionQueue, args)
  BY DEF StrayCompletion
<1>3. CompletionsType'
  <2>1. CompletionCap \in Nat /\ args \in Completions
    BY SMT DEF Completions
  <2> QED BY <1>0, <1>1, <1>2, <2>1, QueueTypes DEF CompletionsType
<1>4. OtherType'
  <2>1. faults' \in 0..MaxFaults
    BY <1>0, <1>1, SMT DEF OtherType
  <2> QED BY <1>0, <1>1, <2>1 DEF OtherType
<1> QED BY <1>0, <1>1, <1>3, <1>4, Unchanged, TypeGroupsNext

LEMMA LoopTypeStep == ASSUME TypeOK, LoopInv, MainLoop PROVE TypeOK'
<1>0. /\ CoordinatorType /\ TasksType /\ CompletionsType /\ LoopType /\ TimerType
      /\ HandlerType /\ WorkerType /\ FileType /\ OtherType
  BY TypeGroups
<1>1. /\ UNCHANGED timerVars /\ UNCHANGED handler /\ UNCHANGED workerVars /\ UNCHANGED fileVars
      /\ UNCHANGED <<up, late, faults>>
  BY DEF MainLoop, MapRecv, Requeue, MapRecord, SpawnBegins, SpawnReduce, SpawnEnds, ReduceRecv,
         ReduceRecord, MarkDone, Receive
<1>2. TimerType' /\ HandlerType' /\ WorkerType' /\ FileType' /\ OtherType'
  BY <1>0, <1>1, Unchanged
<1>c. TaskCap \in Nat /\ CompletionCap \in Nat /\ NoResult \in Completions
  BY CompletionTypes, SMT
<1>3. CASE MapRecv \/ ReduceRecv
  <2>1. /\ completionQueue # << >> /\ completionQueue' = Tail(completionQueue)
        /\ UNCHANGED coordinatorVars /\ UNCHANGED taskQueue /\ incomplete' = incomplete /\ spawned' = spawned
    BY <1>3 DEF MapRecv, ReduceRecv, Receive
  <2>2. CompletionsType' /\ Head(completionQueue) \in Completions
    BY <1>0, <1>c, <2>1, QueueTypes DEF CompletionsType
  <2>3. (mrPc' = mrPc \/ mrPc' \in {"requeue", "mapRecord", "reduceRecord"})
        /\ (result' = result \/ result' = Head(completionQueue))
    BY <1>3 DEF MapRecv, ReduceRecv
  <2>4. LoopType'
    BY <1>0, <2>1, <2>2, <2>3 DEF LoopType
  <2> QED BY <1>0, <1>2, <2>1, <2>2, <2>4, Unchanged, TypeGroupsNext
<1>4. CASE Requeue
  <2>1. /\ mrPc = "requeue" /\ Len(taskQueue) < TaskCap /\ taskQueue' = Append(taskQueue, result.task)
        /\ mrPc' = "mapRecv" /\ result' = NoResult /\ incomplete' = incomplete /\ spawned' = spawned
        /\ UNCHANGED coordinatorVars /\ UNCHANGED completionQueue
    BY <1>4 DEF Requeue, TaskRoom
  <2>2. result.task \in Tasks
    BY <2>1 DEF LoopInv, MapTasks
  <2>3. TasksType'
    BY <1>0, <1>c, <2>1, <2>2, QueueTypes DEF TasksType
  <2>4. LoopType'
    BY <1>0, <1>c, <2>1 DEF LoopType
  <2> QED BY <1>0, <1>2, <2>1, <2>3, <2>4, Unchanged, TypeGroupsNext
<1>5. CASE MapRecord
  <2>1. /\ mrPc = "mapRecord" /\ mrPc' = "mapRecv" /\ result' = NoResult /\ spawned' = spawned
        /\ UNCHANGED taskQueue /\ UNCHANGED completionQueue
        /\ coordinatorState' = coordinatorState /\ reduceTaskState' = reduceTaskState
    BY <1>5 DEF MapRecord, queueVars
  <2>m. PICK m \in MapTids : m = result.task.tid
    BY <2>1, TaskTypes DEF LoopInv, MapTasks
  <2>2. CASE mapTaskState' = mapTaskState /\ incomplete' = incomplete
    <3>1. CoordinatorType' /\ LoopType'
      BY <1>0, <1>c, <2>1, <2>2 DEF CoordinatorType, LoopType
    <3> QED BY <1>0, <1>2, <2>1, <3>1, Unchanged, TypeGroupsNext
  <2>3. CASE /\ ~mapTaskState[m].done
             /\ mapTaskState' = [mapTaskState EXCEPT ![m] = [done |-> TRUE, file |-> result.files]]
             /\ incomplete' = incomplete - 1
    <3>1. result.files \in Nat
      BY <1>0, StrayTypes DEF LoopType
    <3>2. [done |-> TRUE, file |-> result.files] \in [done : BOOLEAN, file : Nat]
      BY <3>1, SMT
    <3>3. CoordinatorType'
      BY <1>0, <2>1, <2>3, <3>2 DEF CoordinatorType
    <3>4. incomplete = Cardinality(MapLeft) /\ m \in MapLeft
      BY <2>1, <2>3 DEF LoopInv, InMap, MapLeft
    <3>5. incomplete' \in Nat
      <4>1. Cardinality(MapLeft) \in Nat /\ Cardinality(MapLeft) > 0
        BY <3>4, LeftFinite, Counting
      <4> QED BY <2>3, <3>4, <4>1, SMT
    <3>6. LoopType'
      BY <1>0, <1>c, <2>1, <3>5 DEF LoopType
    <3> QED BY <1>0, <1>2, <2>1, <3>3, <3>6, Unchanged, TypeGroupsNext
  <2> QED BY <1>5, <2>m, <2>2, <2>3 DEF MapRecord
<1>6. CASE SpawnBegins \/ MarkDone
  <2>1. /\ mrPc' \in {"spawn", "end"} /\ incomplete' \in {nReduce, incomplete}
        /\ result' = result /\ spawned' = spawned
        /\ UNCHANGED taskQueue /\ UNCHANGED completionQueue
        /\ coordinatorState' \in {"Done", coordinatorState} /\ UNCHANGED <<mapTaskState, reduceTaskState>>
    BY <1>6 DEF SpawnBegins, MarkDone, queueVars, coordinatorVars
  <2>2. nReduce \in Nat
    BY SMT
  <2>3. CoordinatorType' /\ LoopType'
    BY <1>0, <2>1, <2>2 DEF CoordinatorType, LoopType
  <2> QED BY <1>0, <1>2, <2>1, <2>3, Unchanged, TypeGroupsNext
<1>7. CASE SpawnReduce
  <2>1. /\ spawned < nReduce /\ Len(taskQueue) < TaskCap
        /\ taskQueue' = Append(taskQueue, Task("Reduce", spawned))
        /\ spawned' = spawned + 1 /\ mrPc' = mrPc /\ result' = result /\ incomplete' = incomplete
        /\ UNCHANGED coordinatorVars /\ UNCHANGED completionQueue
    BY <1>7 DEF SpawnReduce, TaskRoom
  <2>2. spawned \in ReduceTids /\ spawned' \in 0..nReduce
    BY <1>0, <2>1, SMT DEF LoopType, ReduceTids
  <2>3. TasksType'
    BY <1>0, <1>c, <2>1, <2>2, TaskTypes, QueueTypes DEF TasksType
  <2>4. LoopType'
    BY <1>0, <2>1, <2>2 DEF LoopType
  <2> QED BY <1>0, <1>2, <2>1, <2>3, <2>4, Unchanged, TypeGroupsNext
<1>8. CASE SpawnEnds
  <2>1. /\ reduceTaskState' = [r \in ReduceTids |->
                                [reduceTaskState[r] EXCEPT !.files = @ \cup MapFiles]]
        /\ coordinatorState' = "Reduce" /\ mrPc' = "reduceRecv" /\ mapTaskState' = mapTaskState
        /\ result' = result /\ incomplete' = incomplete /\ spawned' = spawned
        /\ UNCHANGED taskQueue /\ UNCHANGED completionQueue
        /\ mrPc = "spawn"
    BY <1>8 DEF SpawnEnds, queueVars
  <2>2. MapFiles \subseteq Files
    <3>1. MapLeft = {}
      BY <2>1 DEF LoopInv, InMap
    <3>2. ASSUME NEW m \in MapTids PROVE mapTaskState[m].file \in Nat \ {0}
      <4>1. mapTaskState[m].file # 0
        BY <3>1 DEF LoopInv, MapLeft
      <4> QED BY <1>0, <4>1, SMT DEF CoordinatorType
    <3> QED BY <3>2, SMT DEF MapFiles, Files
  <2>3. ASSUME NEW r \in ReduceTids
        PROVE  [reduceTaskState[r] EXCEPT !.files = @ \cup MapFiles] \in [done : BOOLEAN, files : SUBSET Files]
    <3>1. reduceTaskState[r] \in [done : BOOLEAN, files : SUBSET Files]
      BY <1>0 DEF CoordinatorType
    <3>2. reduceTaskState[r].files \cup MapFiles \in SUBSET Files
      BY <2>2, <3>1
    <3> QED BY <3>1, <3>2
  <2>4. CoordinatorType' /\ LoopType'
    BY <1>0, <2>1, <2>3 DEF CoordinatorType, LoopType
  <2> QED BY <1>0, <1>2, <2>1, <2>4, Unchanged, TypeGroupsNext
<1>9. CASE ReduceRecord
  <2>1. /\ mrPc = "reduceRecord" /\ mrPc' = "reduceRecv" /\ result' = NoResult /\ spawned' = spawned
        /\ UNCHANGED taskQueue /\ UNCHANGED completionQueue
        /\ coordinatorState' = coordinatorState /\ mapTaskState' = mapTaskState
    BY <1>9 DEF ReduceRecord, queueVars
  <2>r. PICK r \in ReduceTids : r = result.task.tid
    BY <2>1, TaskTypes DEF LoopInv, ReduceTasks
  <2>2. CASE reduceTaskState' = reduceTaskState /\ incomplete' = incomplete
    <3>1. CoordinatorType' /\ LoopType'
      BY <1>0, <1>c, <2>1, <2>2 DEF CoordinatorType, LoopType
    <3> QED BY <1>0, <1>2, <2>1, <3>1, Unchanged, TypeGroupsNext
  <2>3. CASE /\ ~reduceTaskState[r].done
             /\ reduceTaskState' = [reduceTaskState EXCEPT ![r].done = TRUE]
             /\ incomplete' = incomplete - 1
    <3>1. reduceTaskState' \in [ReduceTids -> [done : BOOLEAN, files : SUBSET Files]]
      <4>1. reduceTaskState[r] \in [done : BOOLEAN, files : SUBSET Files]
        BY <1>0 DEF CoordinatorType
      <4>2. [reduceTaskState[r] EXCEPT !.done = TRUE] \in [done : BOOLEAN, files : SUBSET Files]
        BY <4>1
      <4> QED BY <1>0, <2>3, <4>2 DEF CoordinatorType
    <3>2. CoordinatorType'
      BY <1>0, <2>1, <3>1 DEF CoordinatorType
    <3>3. incomplete = Cardinality(ReduceLeft) /\ r \in ReduceLeft
      BY <2>1, <2>3 DEF LoopInv, ReduceLeft
    <3>4. incomplete' \in Nat
      <4>1. Cardinality(ReduceLeft) \in Nat /\ Cardinality(ReduceLeft) > 0
        BY <3>3, LeftFinite, Counting
      <4> QED BY <2>3, <3>3, <4>1, SMT
    <3>5. LoopType'
      BY <1>0, <1>c, <2>1, <3>4 DEF LoopType
    <3> QED BY <1>0, <1>2, <2>1, <3>2, <3>5, Unchanged, TypeGroupsNext
  <2> QED BY <1>9, <2>r, <2>2, <2>3 DEF ReduceRecord
<1> QED BY <1>3, <1>4, <1>5, <1>6, <1>7, <1>8, <1>9 DEF MainLoop

LEMMA UnionBound ==
  ASSUME NEW S, NEW T, IsFiniteSet(S), IsFiniteSet(T)
  PROVE  IsFiniteSet(S \cup T) /\ Cardinality(S \cup T) <= Cardinality(S) + Cardinality(T)
<1>1. /\ IsFiniteSet(S \cup T) /\ IsFiniteSet(S \cap T)
      /\ Cardinality(S \cup T) = Cardinality(S) + Cardinality(T) - Cardinality(S \cap T)
  BY FS_Union, FS_Intersection
<1>2. Cardinality(S) \in Nat /\ Cardinality(T) \in Nat /\ Cardinality(S \cap T) \in Nat
  BY <1>1, FS_CardinalityType
<1> QED BY <1>1, <1>2, SMT

LEMMA ExitTypeStep == ASSUME TypeOK, Exit PROVE TypeOK'
<1>0. /\ CoordinatorType /\ TasksType /\ CompletionsType /\ LoopType /\ TimerType
      /\ HandlerType /\ WorkerType /\ FileType /\ OtherType
  BY TypeGroups
<1>1. /\ UNCHANGED coordinatorVars /\ UNCHANGED loopVars /\ UNCHANGED workerVars /\ UNCHANGED fileVars
      /\ UNCHANGED <<faults, late>> /\ up' = FALSE
      /\ handler' = [w \in Workers |-> Idle] /\ taskQueue' = << >> /\ completionQueue' = << >>
      /\ timers' = [t \in Tasks |-> 0] /\ senders' = [t \in Tasks |-> 0]
  BY DEF Exit
<1>2. HandlerType' /\ OtherType'
  BY <1>0, <1>1, HandlerTypes DEF HandlerType, OtherType
<1>3. TasksType' /\ CompletionsType' /\ TimerType'
  BY <1>1, SMT DEF TasksType, CompletionsType, TimerType
<1> QED BY <1>0, <1>1, <1>2, <1>3, Unchanged, TypeGroupsNext

LEMMA OutsideTypes ==
  ASSUME TypeOK, Outside, HandlerType', WorkerType', FileType', faults' \in 0..MaxFaults
  PROVE  TypeOK'
<1>0. /\ CoordinatorType /\ TasksType /\ CompletionsType /\ LoopType /\ TimerType
      /\ HandlerType /\ WorkerType /\ FileType /\ OtherType
  BY TypeGroups
<1>1. /\ UNCHANGED coordinatorVars /\ UNCHANGED taskQueue /\ UNCHANGED completionQueue /\ UNCHANGED loopVars
      /\ UNCHANGED timerVars /\ up' = up /\ late' = late
  BY DEF Outside, queueVars
<1>2. OtherType'
  BY <1>0, <1>1 DEF OtherType
<1> QED BY <1>0, <1>1, <1>2, Unchanged, TypeGroupsNext

LEMMA ImageBound ==
  ASSUME NEW f, NEW S, IsFiniteSet(S)
  PROVE  IsFiniteSet({f[x] : x \in S}) /\ Cardinality({f[x] : x \in S}) <= Cardinality(S)
<1>1. [x \in S |-> f[x]] \in Surjection(S, {f[x] : x \in S})
  BY DEF Surjection
<1> QED BY <1>1, FS_Surjection

\* The names in use are fewer than the names there are.
LEMMA UniqueNameFree ==
  ASSUME TypeOK, NEW m \in MapTids
  PROVE  UniqueName(m) \in Nat \ {0} /\ UniqueName(m) \notin Referenced(m)
<1> DEFINE Names == 1 .. 2 * Cardinality(Workers) + CompletionCap + 3
           A == {mapTaskState[m].file}
           W1 == {v \in Workers : job[v].task = Task("Map", m)}
           B == {job[w].attempt : w \in W1}
           Q == {completionQueue[i] : i \in DOMAIN completionQueue}
           W2 == {v \in Workers : handler[v].op = "CompleteTask"}
           H == {handler[w].args : w \in W2}
           all == {result} \cup Q \cup H
           mine == {a \in all : a.task = Task("Map", m)}
           C == {args.files : args \in mine}
<1>1. Referenced(m) = A \cup B \cup C
  BY DEF Referenced
<1>w. Cardinality(Workers) \in Nat /\ CompletionCap \in Nat
  BY FS_CardinalityType, SMT
<1>2. IsFiniteSet(A) /\ Cardinality(A) = 1
  BY FS_Singleton
<1>3. IsFiniteSet(B) /\ Cardinality(B) \in Nat /\ Cardinality(B) <= Cardinality(Workers)
  <2>1. IsFiniteSet(W1) /\ Cardinality(W1) <= Cardinality(Workers)
    BY FS_Subset
  <2>2. PICK f : f = [w \in W1 |-> job[w].attempt]
    OBVIOUS
  <2>3. B = {f[w] : w \in W1}
    BY <2>2
  <2>4. IsFiniteSet(B) /\ Cardinality(B) <= Cardinality(W1)
    BY <2>1, <2>3, ImageBound
  <2> QED BY <1>w, <2>1, <2>4, FS_CardinalityType, SMT
<1>4. IsFiniteSet(Q) /\ Cardinality(Q) \in Nat /\ Cardinality(Q) <= CompletionCap
  <2>1. DOMAIN completionQueue = 1..Len(completionQueue) /\ Len(completionQueue) \in Nat
        /\ Len(completionQueue) <= CompletionCap
    BY TypeParts, SMT
  <2>2. IsFiniteSet(DOMAIN completionQueue) /\ Cardinality(DOMAIN completionQueue) = Len(completionQueue)
    <3>1. PICK k \in Nat : k = Len(completionQueue)
      BY <2>1
    <3>2. 1 \in Int /\ k \in Int /\ (IF 1 > k THEN 0 ELSE k - 1 + 1) = k
      BY <3>1, SMT
    <3> QED BY <2>1, <3>1, <3>2, FS_Interval
  <2>3. IsFiniteSet(Q) /\ Cardinality(Q) <= Cardinality(DOMAIN completionQueue)
    BY <2>2, ImageBound
  <2> QED BY <1>w, <2>1, <2>2, <2>3, FS_CardinalityType, SMT
<1>5. IsFiniteSet(H) /\ Cardinality(H) \in Nat /\ Cardinality(H) <= Cardinality(Workers)
  <2>1. IsFiniteSet(W2) /\ Cardinality(W2) <= Cardinality(Workers)
    BY FS_Subset
  <2>2. PICK f : f = [w \in W2 |-> handler[w].args]
    OBVIOUS
  <2>3. H = {f[w] : w \in W2}
    BY <2>2
  <2>4. IsFiniteSet(H) /\ Cardinality(H) <= Cardinality(W2)
    BY <2>1, <2>3, ImageBound
  <2> QED BY <1>w, <2>1, <2>4, FS_CardinalityType, SMT
<1>6. IsFiniteSet(C) /\ Cardinality(C) \in Nat /\ Cardinality(C) <= 1 + CompletionCap + Cardinality(Workers)
  <2>1. IsFiniteSet({result}) /\ Cardinality({result}) = 1
    BY FS_Singleton
  <2>2. IsFiniteSet({result} \cup Q) /\ Cardinality({result} \cup Q) <= 1 + Cardinality(Q)
    BY <1>4, <2>1, UnionBound
  <2>3. IsFiniteSet(all) /\ Cardinality(all) <= Cardinality({result} \cup Q) + Cardinality(H)
    BY <1>5, <2>2, UnionBound
  <2>4. IsFiniteSet(mine) /\ Cardinality(mine) <= Cardinality(all)
    BY <2>3, FS_Subset
  <2>5. IsFiniteSet(C) /\ Cardinality(C) <= Cardinality(mine)
    <3>1. PICK f : f = [args \in mine |-> args.files]
      OBVIOUS
    <3>2. C = {f[args] : args \in mine}
      BY <3>1
    <3> QED BY <2>4, <3>2, ImageBound
  <2>6. /\ Cardinality(C) \in Nat /\ Cardinality(mine) \in Nat /\ Cardinality(all) \in Nat
        /\ Cardinality({result} \cup Q) \in Nat
    BY <2>2, <2>3, <2>4, <2>5, FS_CardinalityType
  <2> QED BY <1>w, <1>4, <1>5, <2>2, <2>3, <2>4, <2>5, <2>6, SMT
<1>7. /\ IsFiniteSet(Referenced(m)) /\ Cardinality(Referenced(m)) \in Nat
      /\ Cardinality(Referenced(m)) < 2 * Cardinality(Workers) + CompletionCap + 3
  <2>1. IsFiniteSet(A \cup B) /\ Cardinality(A \cup B) <= 1 + Cardinality(B)
    BY <1>2, <1>3, UnionBound
  <2>2. IsFiniteSet(A \cup B \cup C) /\ Cardinality(A \cup B \cup C) <= Cardinality(A \cup B) + Cardinality(C)
    BY <1>6, <2>1, UnionBound
  <2>3. Cardinality(A \cup B) \in Nat /\ Cardinality(A \cup B \cup C) \in Nat
    BY <2>1, <2>2, FS_CardinalityType
  <2> QED BY <1>w, <1>1, <1>3, <1>6, <2>1, <2>2, <2>3, SMT
<1>8. IsFiniteSet(Names) /\ Cardinality(Names) = 2 * Cardinality(Workers) + CompletionCap + 3
  <2>1. PICK k \in Nat : k = 2 * Cardinality(Workers) + CompletionCap + 3 /\ k > 0
    BY <1>w, SMT
  <2>2. 1 \in Int /\ k \in Int /\ (IF 1 > k THEN 0 ELSE k - 1 + 1) = k
    BY <2>1, SMT
  <2>3. IsFiniteSet(1..k) /\ Cardinality(1..k) = k
    BY <2>2, FS_Interval
  <2> QED BY <2>1, <2>3
<1>9. \E n \in Names : n \notin Referenced(m)
  <2> SUFFICES ASSUME Names \subseteq Referenced(m) PROVE FALSE
    OBVIOUS
  <2>1. Cardinality(Names) <= Cardinality(Referenced(m))
    BY <1>7, FS_Subset
  <2> HIDE DEF Names
  <2> QED BY <1>w, <1>7, <1>8, <2>1, SMT
<1>10. UniqueName(m) \in Names /\ UniqueName(m) \notin Referenced(m)
  BY <1>9 DEF UniqueName
<1>11. Names \subseteq Nat \ {0}
  BY <1>w, SMT
<1> QED BY <1>10, <1>11

LEMMA WorkerTypeStep ==
  ASSUME TypeOK, NEW w \in Workers, WorkerStep(w) \/ AttemptFails(w) \/ Crash(w),
         pc[w] = "map" => job[w].task \in MapTasks,
         pc[w] \in {"reduce", "reduceCreate", "reduceWrite"} => job[w].task \in ReduceTasks,
         pc[w] = "mapWrite" => job[w].task \in MapTasks
  PROVE  TypeOK'
<1>0. /\ CoordinatorType /\ TasksType /\ CompletionsType /\ LoopType /\ TimerType
      /\ HandlerType /\ WorkerType /\ FileType /\ OtherType
  BY TypeGroups
<1>p. \A l \in {"idle", "asking", "mapWrite", "reduceCreate", "reduceWrite", "reporting", "exited", "crashed"} : l \in Pcs
  BY DEF Pcs, Working
<1>j. job[w] \in Jobs
  BY <1>0 DEF WorkerType
<1>f. faults \in 0..MaxFaults
  BY <1>0 DEF OtherType
<1>e. {} \in SUBSET Files
  OBVIOUS
<1>1. CASE CallReqTask(w)
  <2>1. Call(w, Waiting) /\ Move(w, "asking", NoJob) /\ Outside /\ UNCHANGED fileVars /\ faults' = faults
    BY <1>1 DEF CallReqTask
  <2>2. HandlerType' /\ WorkerType'
    BY <1>p, <2>1, CallType, MoveType, HandlerTypes, JobTypes DEF HandlerType, WorkerType
  <2> QED BY <1>0, <1>f, <2>1, <2>2, Unchanged, OutsideTypes
<1>2. CASE CallFails(w)
  <2>1. Move(w, "exited", NoJob) /\ Outside /\ UNCHANGED handler /\ UNCHANGED fileVars /\ faults' = faults
    BY <1>2 DEF CallFails
  <2>2. WorkerType'
    BY <1>p, <2>1, MoveType, JobTypes DEF WorkerType
  <2> QED BY <1>0, <1>f, <2>1, <2>2, Unchanged, OutsideTypes
<1>3. CASE MapCreate(w)
  <2>1. pc[w] = "map" /\ Outside /\ UNCHANGED handler /\ output' = output /\ faults' = faults
    BY <1>3 DEF MapCreate
  <2>m. PICK m \in MapTids : m = job[w].task.tid
    BY <2>1, TaskTypes DEF MapTasks
  <2>2. /\ Move(w, "mapWrite", [job[w] EXCEPT !.attempt = UniqueName(m)])
        /\ torn' = torn \cup {<<m, UniqueName(m)>>}
    BY <1>3, <2>m DEF MapCreate
  <2>3. UniqueName(m) \in Nat \ {0}
    BY UniqueNameFree
  <2>4. [job[w] EXCEPT !.attempt = UniqueName(m)] \in Jobs
    BY <1>j, <2>3, JobUpdates
  <2>5. WorkerType'
    BY <1>p, <2>2, <2>4, MoveType DEF WorkerType
  <2>6. <<m, UniqueName(m)>> \in Files
    BY <2>3 DEF Files
  <2>7. FileType'
    BY <1>0, <2>1, <2>2, <2>6 DEF FileType
  <2> QED BY <1>0, <1>f, <2>1, <2>5, <2>7, Unchanged, OutsideTypes
<1>c. ASSUME NEW f \in Nat, CallCompleteTask(w, f), job[w].task \in Tasks PROVE HandlerType' /\ WorkerType'
  <2>1. Call(w, Completing(Completion(job[w].task, f))) /\ Move(w, "reporting", JobOf(job[w].task, {}))
    BY <1>c DEF CallCompleteTask
  <2>2. Completing(Completion(job[w].task, f)) \in Handlers /\ JobOf(job[w].task, {}) \in Jobs
    BY <1>c, <1>e, CompletionTypes, HandlerTypes, JobTypes
  <2>3. HandlerType'
    BY <2>1, <2>2, CallType DEF HandlerType
  <2>4. WorkerType'
    BY <1>p, <2>1, <2>2, MoveType DEF WorkerType
  <2> QED BY <2>3, <2>4
<1>4. CASE MapWrite(w)
  <2>1. /\ pc[w] = "mapWrite" /\ Outside /\ output' = output /\ faults' = faults
        /\ CallCompleteTask(w, job[w].attempt) /\ torn' \subseteq torn
    BY <1>4 DEF MapWrite
  <2>2. job[w].attempt \in Nat /\ job[w].task \in Tasks
    <3>1. job[w].attempt \in Nat
      BY <1>j, SMT DEF Jobs
    <3> QED BY <2>1, <3>1 DEF MapTasks
  <2>3. HandlerType' /\ WorkerType'
    BY <1>c, <2>1, <2>2
  <2>4. FileType'
    BY <1>0, <2>1 DEF FileType
  <2> QED BY <1>f, <2>1, <2>3, <2>4, OutsideTypes
<1>5. CASE ReduceRead(w)
  <2>1. pc[w] = "reduce" /\ Outside /\ UNCHANGED handler /\ UNCHANGED fileVars
    BY <1>5 DEF ReduceRead
  <2>2. PICK read \in SUBSET {f \in job[w].files : f[2] # 0} :
           /\ faults' = IF read = {f \in job[w].files : f[2] # 0} THEN faults ELSE faults + 1
           /\ faults' <= MaxFaults
           /\ IF read \cap torn = {}
                THEN Move(w, "reduceCreate", [JobOf(job[w].task, read) EXCEPT
                                                !.skips = read # {f \in job[w].files : f[2] # 0}])
                ELSE Move(w, "idle", NoJob)
    BY <1>5 DEF ReduceRead
  <2>3. job[w].files \in SUBSET Files
    BY <1>j, SMT DEF Jobs
  <2>4. read \in SUBSET Files
    BY <2>2, <2>3
  <2>5. job[w].task \in Tasks
    BY <2>1 DEF ReduceTasks
  <2>6. JobOf(job[w].task, read) \in Jobs
    BY <2>4, <2>5, JobTypes
  <2>7. PICK b \in BOOLEAN : b <=> read # {f \in job[w].files : f[2] # 0}
    OBVIOUS
  <2>8. [JobOf(job[w].task, read) EXCEPT !.skips = read # {f \in job[w].files : f[2] # 0}] \in Jobs
    <3>1. (read # {f \in job[w].files : f[2] # 0}) \in BOOLEAN
      OBVIOUS
    <3> QED BY <2>6, <3>1, JobUpdates
  <2>9. WorkerType'
    BY <1>p, <2>2, <2>8, MoveType, JobTypes DEF WorkerType
  <2>10. faults' \in 0..MaxFaults
    <3>1. faults' = faults \/ faults' = faults + 1
      BY <2>2
    <3> QED BY <1>f, <2>2, <3>1, SMT
  <2> QED BY <1>0, <2>1, <2>9, <2>10, Unchanged, OutsideTypes
<1>6. CASE ReduceCreate(w)
  <2>1. /\ pc[w] = "reduceCreate" /\ Outside /\ UNCHANGED handler /\ torn' = torn /\ faults' = faults
        /\ pc' = [pc EXCEPT ![w] = "reduceWrite"]
        /\ output' = [output EXCEPT ![job[w].task.tid] = Partial]
        /\ job' = [v \in Workers |->
                     IF v \in OtherWriters(w) THEN [job[v] EXCEPT !.alone = FALSE]
                     ELSE IF v = w THEN [job[v] EXCEPT !.alone = OtherWriters(w) = {}]
                     ELSE job[v]]
    BY <1>6 DEF ReduceCreate
  <2>2. FileType'
    BY <1>0, <2>1, JobTypes DEF FileType
  <2>3. ASSUME NEW v \in Workers PROVE job'[v] \in Jobs
    <3>1. job[v] \in Jobs /\ FALSE \in BOOLEAN /\ (OtherWriters(w) = {}) \in BOOLEAN
      BY <1>0 DEF WorkerType
    <3>2. [job[v] EXCEPT !.alone = FALSE] \in Jobs /\ [job[v] EXCEPT !.alone = OtherWriters(w) = {}] \in Jobs
      BY <3>1, JobUpdates
    <3> QED BY <2>1, <3>1, <3>2
  <2>4. job' \in [Workers -> Jobs]
    BY <2>1, <2>3
  <2>5. WorkerType'
    BY <1>0, <1>p, <2>1, <2>4 DEF WorkerType
  <2> QED BY <1>0, <1>f, <2>1, <2>2, <2>5, Unchanged, OutsideTypes
<1>7. CASE ReduceWrite(w)
  <2>1. /\ pc[w] = "reduceWrite" /\ Outside /\ torn' = torn /\ faults' = faults
        /\ CallCompleteTask(w, 0)
    BY <1>7 DEF ReduceWrite
  <2>2. PICK o \in Written(w) : output' = [output EXCEPT ![job[w].task.tid] = o]
    BY <1>7 DEF ReduceWrite
  <2>3. Written(w) \subseteq Outputs
    <3>1. \A f \in job[w].files : f[1] \in MapTids
      <4>1. job[w].files \in SUBSET Files
        BY <1>j, SMT DEF Jobs
      <4> QED BY <4>1, SMT DEF Files
    <3>2. {f[1] : f \in job[w].files} \in SUBSET MapTids
      BY <3>1
    <3>3. job[w].skips \in BOOLEAN
      BY <1>j, SMT DEF Jobs
    <3>4. [whole |-> TRUE, maps |-> {f[1] : f \in job[w].files}, skips |-> job[w].skips] \in Outputs
      BY <3>2, <3>3, SMT DEF Outputs
    <3> QED BY <3>4, JobTypes DEF Written
  <2>4. FileType'
    BY <1>0, <2>1, <2>2, <2>3 DEF FileType
  <2>5. job[w].task \in Tasks /\ 0 \in Nat
    BY <2>1, SMT DEF ReduceTasks
  <2>6. HandlerType' /\ WorkerType'
    BY <1>c, <2>1, <2>5
  <2> QED BY <1>f, <2>1, <2>4, <2>6, OutsideTypes
<1>8. CASE AttemptFails(w)
  <2>1. /\ Outside /\ UNCHANGED handler /\ UNCHANGED fileVars /\ faults < MaxFaults /\ faults' = faults + 1
        /\ Move(w, "idle", NoJob)
    BY <1>8 DEF AttemptFails
  <2>2. WorkerType'
    BY <1>p, <2>1, MoveType, JobTypes DEF WorkerType
  <2>3. faults' \in 0..MaxFaults
    BY <1>f, <2>1, SMT
  <2> QED BY <1>0, <2>1, <2>2, <2>3, Unchanged, OutsideTypes
<1>9. CASE Crash(w)
  <2>1. /\ Outside /\ UNCHANGED handler /\ torn' = torn /\ faults < MaxFaults /\ faults' = faults + 1
        /\ Move(w, "crashed", NoJob)
        /\ output' = output \/ output' = [output EXCEPT ![job[w].task.tid] = Partial]
    BY <1>9 DEF Crash
  <2>2. WorkerType'
    BY <1>p, <2>1, MoveType, JobTypes DEF WorkerType
  <2>3. faults' \in 0..MaxFaults
    BY <1>f, <2>1, SMT
  <2>4. FileType'
    BY <1>0, <2>1, JobTypes DEF FileType
  <2> QED BY <1>0, <2>1, <2>2, <2>3, <2>4, Unchanged, OutsideTypes
<1> QED BY <1>1, <1>2, <1>3, <1>4, <1>5, <1>6, <1>7, <1>8, <1>9 DEF WorkerStep

LEMMA RecordedDone ==
  ASSUME CoordinatorType, NEW r \in ReduceTids, reduceTaskState' = [reduceTaskState EXCEPT ![r].done = TRUE]
  PROVE  /\ \A k \in ReduceTids \ {r} : reduceTaskState'[k] = reduceTaskState[k]
         /\ reduceTaskState'[r].done /\ reduceTaskState'[r].files = reduceTaskState[r].files
<1>1. \A k \in ReduceTids \ {r} : reduceTaskState'[k] = reduceTaskState[k]
  BY DEF CoordinatorType
<1>2. reduceTaskState'[r] = [reduceTaskState[r] EXCEPT !.done = TRUE]
  BY DEF CoordinatorType
<1>3. PICK x, y : reduceTaskState[r] = [done |-> x, files |-> y]
  BY SMT DEF CoordinatorType
<1>4. reduceTaskState'[r].done = TRUE /\ reduceTaskState'[r].files = y /\ reduceTaskState[r].files = y
  BY <1>2, <1>3, SMT
<1> QED BY <1>1, <1>4

LEMMA LoopUnchanged ==
  ASSUME LoopInv, UNCHANGED <<coordinatorVars, loopVars>>
  PROVE  LoopInv'
BY DEF LoopInv, InMap, MapLeft, ReduceLeft, MapFiles, coordinatorVars, loopVars

LEMMA LoopParts ==
  ASSUME TypeOK, LoopInv
  PROVE  /\ ~InMap => \A m \in MapTids : mapTaskState[m].done /\ mapTaskState[m].file # 0
         /\ coordinatorState # "Map" => ~InMap /\ mrPc # "spawn"
         /\ coordinatorState = "Map" /\ mrPc # "spawn" => InMap
         /\ coordinatorState = "Done" => mrPc = "end" /\ \A r \in ReduceTids : reduceTaskState[r].done
         /\ coordinatorState = "Reduce" => spawned = nReduce
<1>1. mrPc \in {"mapRecv", "requeue", "mapRecord", "spawn", "reduceRecv", "reduceRecord", "end"}
  BY TypeParts
<1>2. /\ ~InMap => \A m \in MapTids : mapTaskState[m].done /\ mapTaskState[m].file # 0
      /\ coordinatorState # "Map" => ~InMap /\ mrPc # "spawn"
  BY DEF LoopInv, MapLeft
<1>3. coordinatorState = "Map" /\ mrPc # "spawn" => InMap
  BY <1>1 DEF LoopInv, InMap
<1>4. coordinatorState = "Done" => mrPc = "end" /\ ReduceLeft = {}
  BY <1>1 DEF LoopInv, InMap
<1>5. coordinatorState = "Reduce" => spawned = nReduce
  BY <1>1 DEF LoopInv, InMap
<1> QED BY <1>2, <1>3, <1>4, <1>5 DEF ReduceLeft

LEMMA LoopStep == ASSUME TypeOK, LoopInv, MainLoop PROVE LoopInv'
<1>0. CoordinatorType /\ LoopType
  BY TypeGroups
<1>1. CASE MapRecv
  <2>1. /\ mrPc = "mapRecv" /\ UNCHANGED coordinatorVars /\ incomplete' = incomplete /\ spawned' = spawned
        /\ completionQueue # << >>
    BY <1>1 DEF MapRecv, Receive
  <2>2. PICK args \in Completions : args = Head(completionQueue)
    BY <2>1, TypeParts, QueueTypes
  <2>3. \/ mrPc' = mrPc /\ result' = result
        \/ /\ mrPc' \in {"requeue", "mapRecord"} /\ result' = args
           /\ args.task.type = "Map" /\ args.task.tid \in MapTids
           /\ mrPc' = "mapRecord" => args.files # 0
    BY <1>1, <2>2 DEF MapRecv
  <2>4. CASE mrPc' = mrPc /\ result' = result
    BY <2>1, <2>4, LoopUnchanged DEF loopVars
  <2>5. CASE /\ mrPc' \in {"requeue", "mapRecord"} /\ result' = args
             /\ args.task.type = "Map" /\ args.task.tid \in MapTids
             /\ mrPc' = "mapRecord" => args.files # 0
    <3>1. args.task \in MapTasks
      BY <2>2, <2>5, StrayTypes DEF MapTasks
    <3>2. MapLeft' = MapLeft /\ ReduceLeft' = ReduceLeft /\ MapFiles' = MapFiles
      BY <2>1 DEF MapLeft, ReduceLeft, MapFiles, coordinatorVars
    <3> QED BY <2>1, <2>5, <3>1, <3>2 DEF LoopInv, InMap, coordinatorVars
  <2> QED BY <2>3, <2>4, <2>5
<1>2. CASE Requeue
  <2>1. /\ mrPc = "requeue" /\ UNCHANGED coordinatorVars /\ incomplete' = incomplete /\ spawned' = spawned
        /\ mrPc' = "mapRecv"
    BY <1>2 DEF Requeue
  <2>2. MapLeft' = MapLeft /\ ReduceLeft' = ReduceLeft /\ MapFiles' = MapFiles
    BY <2>1 DEF MapLeft, ReduceLeft, MapFiles, coordinatorVars
  <2> QED BY <2>1, <2>2 DEF LoopInv, InMap, coordinatorVars
<1>3. CASE MapRecord
  <2>1. /\ mrPc = "mapRecord" /\ mrPc' = "mapRecv" /\ spawned' = spawned
        /\ coordinatorState' = coordinatorState /\ reduceTaskState' = reduceTaskState
        /\ coordinatorState = "Map"
    BY <1>3 DEF MapRecord, LoopInv, InMap
  <2>m. PICK m \in MapTids : m = result.task.tid
    BY <2>1, TaskTypes DEF LoopInv, MapTasks
  <2>2. CASE mapTaskState' = mapTaskState /\ incomplete' = incomplete
    <3>1. MapLeft' = MapLeft /\ ReduceLeft' = ReduceLeft /\ MapFiles' = MapFiles
      BY <2>1, <2>2 DEF MapLeft, ReduceLeft, MapFiles
    <3> QED BY <2>1, <2>2, <3>1 DEF LoopInv, InMap
  <2>3. CASE /\ ~mapTaskState[m].done
             /\ mapTaskState' = [mapTaskState EXCEPT ![m] = [done |-> TRUE, file |-> result.files]]
             /\ incomplete' = incomplete - 1
    <3>1. /\ \A k \in MapTids \ {m} : mapTaskState'[k] = mapTaskState[k]
          /\ mapTaskState'[m].done /\ mapTaskState'[m].file = result.files
      BY <1>0, <2>3, SMT DEF CoordinatorType
    <3>2. MapLeft' = MapLeft \ {m} /\ m \in MapLeft
      BY <2>3, <3>1 DEF MapLeft
    <3>3. incomplete' = Cardinality(MapLeft')
      BY <2>1, <2>3, <3>2, LeftFinite, Counting DEF LoopInv, InMap
    <3>4. \A k \in MapTids : mapTaskState'[k].done <=> mapTaskState'[k].file # 0
      BY <2>1, <3>1 DEF LoopInv
    <3> QED BY <2>1, <3>3, <3>4 DEF LoopInv, InMap
  <2> QED BY <1>3, <2>m, <2>2, <2>3 DEF MapRecord
<1>4. CASE SpawnBegins
  <2>1. /\ mrPc = "mapRecv" /\ incomplete = 0 /\ mrPc' = "spawn" /\ incomplete' = nReduce
        /\ UNCHANGED coordinatorVars
    BY <1>4 DEF SpawnBegins
  <2>2. MapLeft' = MapLeft /\ ReduceLeft' = ReduceLeft /\ MapFiles' = MapFiles
    BY <2>1 DEF MapLeft, ReduceLeft, MapFiles, coordinatorVars
  <2>3. MapLeft = {}
    BY <2>1, LeftFinite, Counting DEF LoopInv, InMap
  <2> QED BY <2>1, <2>2, <2>3 DEF LoopInv, InMap, coordinatorVars
<1>5. CASE SpawnReduce
  <2>1. /\ mrPc = "spawn" /\ mrPc' = mrPc /\ incomplete' = incomplete
        /\ UNCHANGED coordinatorVars
    BY <1>5 DEF SpawnReduce
  <2>2. MapLeft' = MapLeft /\ ReduceLeft' = ReduceLeft /\ MapFiles' = MapFiles
    BY <2>1 DEF MapLeft, ReduceLeft, MapFiles, coordinatorVars
  <2> QED BY <2>1, <2>2 DEF LoopInv, InMap, coordinatorVars
<1>6. CASE SpawnEnds
  <2>1. /\ reduceTaskState' = [r \in ReduceTids |->
                                [reduceTaskState[r] EXCEPT !.files = @ \cup MapFiles]]
        /\ coordinatorState' = "Reduce" /\ mrPc' = "reduceRecv" /\ mapTaskState' = mapTaskState
        /\ incomplete' = incomplete /\ spawned' = spawned /\ spawned = nReduce /\ mrPc = "spawn"
    BY <1>6 DEF SpawnEnds
  <2>2. MapLeft' = MapLeft /\ MapFiles' = MapFiles
    BY <2>1 DEF MapLeft, MapFiles
  <2>3. ASSUME NEW r \in ReduceTids PROVE ~reduceTaskState'[r].done /\ reduceTaskState'[r].files = MapFiles
    <3>1. /\ reduceTaskState[r] \in [done : BOOLEAN, files : SUBSET Files]
          /\ ~reduceTaskState[r].done /\ reduceTaskState[r].files = {}
      BY <1>0, <2>1 DEF CoordinatorType, LoopInv
    <3>2. reduceTaskState'[r] = [reduceTaskState[r] EXCEPT !.files = @ \cup MapFiles]
      BY <2>1
    <3>3. PICK x, y : reduceTaskState[r] = [done |-> x, files |-> y]
      <4>1. reduceTaskState[r] = [done |-> reduceTaskState[r].done, files |-> reduceTaskState[r].files]
        BY <3>1, SMT
      <4> QED BY <4>1
    <3>4. reduceTaskState'[r].done = x /\ reduceTaskState'[r].files = y \cup MapFiles
      BY <3>2, <3>3, SMT
    <3>5. ~x /\ y = {}
      BY <3>1, <3>3, SMT
    <3> QED BY <3>4, <3>5
  <2>4. ReduceLeft' = ReduceTids
    BY <2>3 DEF ReduceLeft
  <2>5. incomplete' = Cardinality(ReduceLeft')
    BY <2>1, <2>4, LeftFinite DEF LoopInv
  <2> QED BY <2>1, <2>2, <2>3, <2>5 DEF LoopInv, InMap
<1>7. CASE ReduceRecv
  <2>1. /\ mrPc = "reduceRecv" /\ UNCHANGED coordinatorVars /\ incomplete' = incomplete /\ spawned' = spawned
        /\ completionQueue # << >>
    BY <1>7 DEF ReduceRecv, Receive
  <2>2. PICK args \in Completions : args = Head(completionQueue)
    BY <2>1, TypeParts, QueueTypes
  <2>3. \/ mrPc' = mrPc /\ result' = result
        \/ /\ mrPc' = "reduceRecord" /\ result' = args
           /\ args.task.type = "Reduce" /\ args.task.tid \in ReduceTids
    BY <1>7, <2>2 DEF ReduceRecv
  <2>4. CASE mrPc' = mrPc /\ result' = result
    BY <2>1, <2>4, LoopUnchanged DEF loopVars
  <2>5. CASE /\ mrPc' = "reduceRecord" /\ result' = args
             /\ args.task.type = "Reduce" /\ args.task.tid \in ReduceTids
    <3>1. args.task \in ReduceTasks
      BY <2>2, <2>5, StrayTypes DEF ReduceTasks
    <3>2. MapLeft' = MapLeft /\ ReduceLeft' = ReduceLeft /\ MapFiles' = MapFiles
      BY <2>1 DEF MapLeft, ReduceLeft, MapFiles, coordinatorVars
    <3> QED BY <2>1, <2>5, <3>1, <3>2 DEF LoopInv, InMap, coordinatorVars
  <2> QED BY <2>3, <2>4, <2>5
<1>8. CASE ReduceRecord
  <2>1. /\ mrPc = "reduceRecord" /\ mrPc' = "reduceRecv" /\ spawned' = spawned
        /\ coordinatorState' = coordinatorState /\ mapTaskState' = mapTaskState
        /\ coordinatorState = "Reduce"
    BY <1>8 DEF ReduceRecord, LoopInv
  <2>r. PICK r \in ReduceTids : r = result.task.tid
    BY <2>1, TaskTypes DEF LoopInv, ReduceTasks
  <2>2. MapLeft' = MapLeft /\ MapFiles' = MapFiles
    BY <2>1 DEF MapLeft, MapFiles
  <2>3. CASE reduceTaskState' = reduceTaskState /\ incomplete' = incomplete
    <3>1. ReduceLeft' = ReduceLeft
      BY <2>3 DEF ReduceLeft
    <3> QED BY <2>1, <2>2, <2>3, <3>1 DEF LoopInv, InMap
  <2>4. CASE /\ ~reduceTaskState[r].done
             /\ reduceTaskState' = [reduceTaskState EXCEPT ![r].done = TRUE]
             /\ incomplete' = incomplete - 1
    <3>1. /\ \A k \in ReduceTids \ {r} : reduceTaskState'[k] = reduceTaskState[k]
          /\ reduceTaskState'[r].done /\ reduceTaskState'[r].files = reduceTaskState[r].files
      BY <1>0, <2>4, RecordedDone
    <3>2. ReduceLeft' = ReduceLeft \ {r} /\ r \in ReduceLeft
      BY <2>4, <3>1 DEF ReduceLeft
    <3>3. incomplete' = Cardinality(ReduceLeft')
      BY <2>1, <2>4, <3>2, LeftFinite, Counting DEF LoopInv
    <3>4. \A k \in ReduceTids : reduceTaskState'[k].files = MapFiles'
      BY <2>1, <2>2, <3>1 DEF LoopInv
    <3> QED BY <2>1, <2>2, <3>3, <3>4 DEF LoopInv, InMap
  <2> QED BY <1>8, <2>r, <2>3, <2>4 DEF ReduceRecord
<1>9. CASE MarkDone
  <2>1. /\ mrPc = "reduceRecv" /\ incomplete = 0 /\ mrPc' = "end" /\ coordinatorState' = "Done"
        /\ UNCHANGED <<mapTaskState, reduceTaskState>> /\ spawned' = spawned
    BY <1>9 DEF MarkDone
  <2>2. MapLeft' = MapLeft /\ ReduceLeft' = ReduceLeft /\ MapFiles' = MapFiles
    BY <2>1 DEF MapLeft, ReduceLeft, MapFiles
  <2>3. ReduceLeft = {}
    BY <2>1, LeftFinite, Counting DEF LoopInv
  <2> QED BY <2>1, <2>2, <2>3 DEF LoopInv, InMap
<1> QED BY <1>1, <1>2, <1>3, <1>4, <1>5, <1>6, <1>7, <1>8, <1>9 DEF MainLoop

(***************************************************************************)
(* What the steps of handlers and workers change.                          *)
(***************************************************************************)
LEMMA ReplyEffect ==
  ASSUME TypeOK, NEW w \in Workers, NEW loc, NEW j, Reply(w, loc, j)
  PROVE  /\ handler'[w] = Idle
         /\ pc[w] = "crashed" => pc'[w] = "crashed" /\ job'[w] = job[w]
         /\ pc[w] # "crashed" => pc'[w] = loc /\ job'[w] = j
         /\ \A v \in Workers \ {w} : handler'[v] = handler[v] /\ pc'[v] = pc[v] /\ job'[v] = job[v]
BY TypeGroups DEF HandlerType, WorkerType, Reply, workerVars

LEMMA MoveEffect ==
  ASSUME TypeOK, NEW w \in Workers, NEW loc, NEW j, Move(w, loc, j)
  PROVE  /\ pc'[w] = loc /\ job'[w] = j
         /\ \A v \in Workers \ {w} : pc'[v] = pc[v] /\ job'[v] = job[v]
BY TypeGroups DEF WorkerType, Move

LEMMA CallEffect ==
  ASSUME TypeOK, NEW w \in Workers, NEW h, Call(w, h)
  PROVE  /\ up => handler'[w] = h
         /\ ~up => handler' = handler
         /\ \A v \in Workers \ {w} : handler'[v] = handler[v]
BY TypeGroups DEF HandlerType, Call

LEMMA CreateEffect ==
  ASSUME TypeOK, NEW w \in Workers, ReduceCreate(w)
  PROVE  /\ pc'[w] = "reduceWrite" /\ \A v \in Workers \ {w} : pc'[v] = pc[v]
         /\ \A v \in Workers : /\ job'[v].task = job[v].task /\ job'[v].files = job[v].files
                               /\ job'[v].skips = job[v].skips /\ job'[v].attempt = job[v].attempt
         /\ job'[w].alone <=> OtherWriters(w) = {}
         /\ \A v \in Workers \ {w} : v \notin OtherWriters(w) => job'[v] = job[v]
<1>0. pc \in [Workers -> Pcs] /\ job \in [Workers -> Jobs]
  BY TypeParts
<1>1. /\ pc' = [pc EXCEPT ![w] = "reduceWrite"]
      /\ job' = [v \in Workers |->
                   IF v \in OtherWriters(w) THEN [job[v] EXCEPT !.alone = FALSE]
                   ELSE IF v = w THEN [job[v] EXCEPT !.alone = OtherWriters(w) = {}]
                   ELSE job[v]]
  BY DEF ReduceCreate
<1>2. w \notin OtherWriters(w)
  BY DEF OtherWriters
<1>3. job'[w] = [job[w] EXCEPT !.alone = OtherWriters(w) = {}]
  BY <1>1, <1>2
<1>j. \A v \in Workers : job[v] \in Jobs
  BY <1>0
<1>4. job'[w].alone <=> OtherWriters(w) = {}
  <2>1. job'[w].alone = (OtherWriters(w) = {})
    BY <1>j, <1>3, SMT DEF Jobs
  <2> QED BY <2>1
<1>5. ASSUME NEW v \in Workers
      PROVE  /\ job'[v].task = job[v].task /\ job'[v].files = job[v].files
             /\ job'[v].skips = job[v].skips /\ job'[v].attempt = job[v].attempt
             /\ v # w /\ v \notin OtherWriters(w) => job'[v] = job[v]
  <2>1. CASE v \in OtherWriters(w)
    <3>1. job'[v] = [job[v] EXCEPT !.alone = FALSE]
      BY <1>1, <2>1
    <3> QED BY <1>j, <2>1, <3>1, SMT DEF Jobs, OtherWriters
  <2>2. CASE v \notin OtherWriters(w) /\ v # w
    BY <1>1, <2>2
  <2>3. CASE v = w
    BY <1>j, <1>3, <2>3, SMT DEF Jobs
  <2> QED BY <2>1, <2>2, <2>3
<1> QED BY <1>0, <1>1, <1>4, <1>5

(***************************************************************************)
(* Which RPC a worker waits for and which task it works on.                *)
(***************************************************************************)
Mapping == {"map", "mapWrite"}
Reducing == {"reduce", "reduceCreate", "reduceWrite"}

WorkOK(w) ==
  /\ handler[w].op \in {"ReqTask", "got"} => pc[w] \in {"asking", "crashed"}
  /\ handler[w].op = "CompleteTask" => pc[w] \in {"reporting", "crashed"}
  /\ ~up => handler[w] = Idle
  /\ pc[w] \in Mapping => job[w].task \in MapTasks
  /\ pc[w] \in Reducing => job[w].task \in ReduceTasks
  /\ pc[w] = "reporting" => job[w].task \in Tasks
WorkInv == \A w \in Workers : WorkOK(w)

LEMMA WorkOthers ==
  ASSUME WorkInv, NEW w \in Workers, up' = up,
         \A v \in Workers \ {w} : handler'[v] = handler[v] /\ pc'[v] = pc[v] /\ job'[v] = job[v],
         WorkOK(w)'
  PROVE  WorkInv'
<1>1. ASSUME NEW v \in Workers \ {w} PROVE WorkOK(v)'
  BY DEF WorkInv, WorkOK
<1> QED BY <1>1 DEF WorkInv

LEMMA WorkReply ==
  ASSUME TypeOK, WorkInv, NEW w \in Workers, NEW loc, NEW j, Reply(w, loc, j), up, up' = up,
         \/ loc = "idle"
         \/ loc = "map" /\ j.task \in MapTasks
         \/ loc = "reduce" /\ j.task \in ReduceTasks
  PROVE  WorkInv'
<1>1. /\ handler'[w] = Idle
      /\ pc[w] = "crashed" => pc'[w] = "crashed" /\ job'[w] = job[w]
      /\ pc[w] # "crashed" => pc'[w] = loc /\ job'[w] = j
      /\ \A v \in Workers \ {w} : handler'[v] = handler[v] /\ pc'[v] = pc[v] /\ job'[v] = job[v]
  BY ReplyEffect
<1>2. WorkOK(w)'
  BY <1>1, HandlerTypes DEF WorkOK, Mapping, Reducing
<1> QED BY <1>1, <1>2, WorkOthers

LEMMA WorkMove ==
  ASSUME TypeOK, WorkInv, NEW w \in Workers, NEW loc, NEW j, Move(w, loc, j), up' = up,
         \A v \in Workers \ {w} : handler'[v] = handler[v],
         \/ handler' = handler /\ loc = "crashed"
         \/ handler' = handler /\ pc[w] \in Working /\ loc = "idle"
         \/ handler' = handler /\ pc[w] = "map" /\ loc = "mapWrite" /\ j.task \in MapTasks
         \/ handler' = handler /\ pc[w] = "reduce" /\ loc = "reduceCreate" /\ j.task \in ReduceTasks
         \/ handler' = handler /\ ~up /\ loc = "exited"
         \/ Call(w, Waiting) /\ loc = "asking"
         \/ \E a : Call(w, Completing(a)) /\ loc = "reporting" /\ j.task \in Tasks
  PROVE  WorkInv'
<1>1. /\ pc'[w] = loc /\ job'[w] = j
      /\ \A v \in Workers \ {w} : pc'[v] = pc[v] /\ job'[v] = job[v]
  BY MoveEffect
<1>2. WorkOK(w)
  BY DEF WorkInv
<1>h. handler[w] \in Handlers
  BY TypeParts
<1>3. CASE handler' = handler
  <2> SUFFICES WorkOK(w)'
    BY <1>1, <1>3, WorkOthers
  <2>1. CASE loc = "crashed"
    BY <1>1, <1>2, <1>3, <2>1 DEF WorkOK, Mapping, Reducing
  <2>2. CASE pc[w] \in Working /\ loc \in {"idle", "mapWrite", "reduceCreate"}
             /\ (loc = "mapWrite" => j.task \in MapTasks) /\ (loc = "reduceCreate" => j.task \in ReduceTasks)
    <3>1. handler[w].op \notin {"ReqTask", "got", "CompleteTask"}
      BY <1>2, <2>2 DEF WorkOK, Working
    <3> QED BY <1>1, <1>2, <1>3, <2>2, <3>1 DEF WorkOK, Mapping, Reducing
  <2>3. CASE ~up /\ loc = "exited"
    BY <1>1, <1>2, <1>3, <2>3, HandlerTypes DEF WorkOK, Mapping, Reducing
  <2>4. CASE Call(w, Waiting) /\ loc = "asking"
    <3>1. handler'[w] = Waiting \/ ~up
      BY <2>4, CallEffect
    <3> QED BY <1>1, <1>2, <1>3, <2>4, <3>1, HandlerTypes DEF WorkOK, Mapping, Reducing
  <2>5. CASE \E a : Call(w, Completing(a)) /\ loc = "reporting" /\ j.task \in Tasks
    <3>1. PICK a : Call(w, Completing(a)) /\ loc = "reporting" /\ j.task \in Tasks
      BY <2>5
    <3>2. handler'[w] = Completing(a) \/ ~up
      BY <3>1, CallEffect
    <3> QED BY <1>1, <1>2, <1>3, <3>1, <3>2, HandlerTypes DEF WorkOK, Mapping, Reducing
  <2> QED BY <2>1, <2>2, <2>3, <2>4, <2>5 DEF Working
<1>4. CASE up /\ Call(w, Waiting) /\ loc = "asking"
  <2>1. handler'[w] = Waiting
    BY <1>4, CallEffect
  <2>2. WorkOK(w)'
    BY <1>1, <1>4, <2>1, HandlerTypes DEF WorkOK, Mapping, Reducing
  <2> QED BY <1>1, <2>2, WorkOthers
<1>5. CASE up /\ \E a : Call(w, Completing(a)) /\ loc = "reporting" /\ j.task \in Tasks
  <2>1. PICK a : Call(w, Completing(a)) /\ loc = "reporting" /\ j.task \in Tasks
    BY <1>5
  <2>2. handler'[w] = Completing(a)
    BY <1>5, <2>1, CallEffect
  <2>3. WorkOK(w)'
    BY <1>1, <1>5, <2>1, <2>2, HandlerTypes DEF WorkOK, Mapping, Reducing
  <2> QED BY <1>1, <2>3, WorkOthers
<1>6. CASE ~up /\ handler' # handler
  BY <1>6, CallEffect
<1> QED BY <1>3, <1>4, <1>5, <1>6

LEMMA WorkUnchanged == ASSUME WorkInv, UNCHANGED <<handler, up, workerVars>> PROVE WorkInv'
BY DEF WorkInv, WorkOK, workerVars

LEMMA WorkHandler ==
  ASSUME TypeOK, WorkInv, NEW w \in Workers, HandlerStep(w)
  PROVE  WorkInv'
<1>1. CASE Dequeue(w)
  <2>1. /\ handler[w] = Waiting /\ handler' = [handler EXCEPT ![w] = Got(Head(taskQueue))]
        /\ UNCHANGED <<up, workerVars>>
    BY <1>1 DEF Dequeue
  <2>2. /\ handler'[w] = Got(Head(taskQueue))
        /\ \A v \in Workers \ {w} : handler'[v] = handler[v]
    BY <2>1, TypeGroups DEF HandlerType
  <2>3. WorkOK(w)'
    BY <2>1, <2>2, HandlerTypes DEF WorkInv, WorkOK, workerVars
  <2> QED BY <2>1, <2>2, <2>3, WorkOthers DEF workerVars
<1>2. CASE ReqTimeout(w)
  BY <1>2, WorkReply DEF ReqTimeout
<1>3. CASE ReqAnswer(w)
  <2>1. up /\ up' = up /\ handler[w].op = "got"
    BY <1>3 DEF ReqAnswer
  <2>2. PICK t \in Tasks : t = handler[w].task
    BY <2>1, TypeGroups, HandlerCases DEF HandlerType
  <2>3. CASE Reply(w, "idle", NoJob)
    BY <2>1, <2>3, WorkReply
  <2>4. CASE Hand(w, t)
    <3>1. CASE t.type = "Map"
      <4>1. Reply(w, "map", JobOf(t, {})) /\ t \in MapTasks
        BY <2>4, <3>1 DEF Hand, MapTasks
      <4>2. JobOf(t, {}).task \in MapTasks
        <5>1. JobOf(t, {}).task = t
          BY JobTypes
        <5> QED BY <4>1, <5>1
      <4> QED BY <2>1, <4>1, <4>2, WorkReply
    <3>2. CASE t.type # "Map"
      <4>1. Reply(w, "reduce", JobOf(t, reduceTaskState[t.tid].files)) /\ t \in ReduceTasks
        BY <2>4, <3>2, TaskTypes DEF Hand, ReduceTasks
      <4>2. JobOf(t, reduceTaskState[t.tid].files).task \in ReduceTasks
        <5>1. JobOf(t, reduceTaskState[t.tid].files).task = t
          BY JobTypes
        <5> QED BY <4>1, <5>1
      <4> QED BY <2>1, <4>1, <4>2, WorkReply
    <3> QED BY <3>1, <3>2
  <2> QED BY <1>3, <2>2, <2>3, <2>4 DEF ReqAnswer
<1>4. CASE CompleteTask(w)
  BY <1>4, WorkReply DEF CompleteTask
<1> QED BY <1>1, <1>2, <1>3, <1>4 DEF HandlerStep

LEMMA WorkWorker ==
  ASSUME TypeOK, WorkInv, NEW w \in Workers, WorkerStep(w) \/ AttemptFails(w) \/ Crash(w)
  PROVE  WorkInv'
<1>0. WorkOK(w) /\ up' = up
  BY DEF WorkInv, WorkerStep, CallReqTask, CallFails, MapCreate, MapWrite, ReduceRead, ReduceCreate,
         ReduceWrite, AttemptFails, Crash, Outside
<1>j. job[w] \in Jobs
  BY TypeParts
<1>1. CASE CallReqTask(w)
  <2>1. Call(w, Waiting) /\ Move(w, "asking", NoJob)
    BY <1>1 DEF CallReqTask
  <2>2. \A v \in Workers \ {w} : handler'[v] = handler[v]
    BY <2>1, CallEffect
  <2> QED BY <1>0, <2>1, <2>2, WorkMove
<1>2. CASE CallFails(w)
  BY <1>0, <1>2, WorkMove DEF CallFails
<1>3. CASE MapCreate(w)
  <2>1. PICK k : Move(w, "mapWrite", [job[w] EXCEPT !.attempt = k])
    BY <1>3 DEF MapCreate
  <2>2. pc[w] = "map" /\ handler' = handler /\ job[w].task \in MapTasks
    BY <1>0, <1>3 DEF MapCreate, WorkOK, Mapping
  <2>3. [job[w] EXCEPT !.attempt = k].task \in MapTasks
    BY <1>j, <2>2, JobUpdates
  <2> QED BY <1>0, <2>1, <2>2, <2>3, WorkMove
<1>c. ASSUME NEW f, CallCompleteTask(w, f), job[w].task \in Tasks PROVE WorkInv'
  <2>1. /\ Call(w, Completing(Completion(job[w].task, f)))
        /\ Move(w, "reporting", JobOf(job[w].task, {}))
    BY <1>c DEF CallCompleteTask
  <2>2. JobOf(job[w].task, {}).task \in Tasks
    BY <1>c, JobTypes
  <2>3. \A v \in Workers \ {w} : handler'[v] = handler[v]
    BY <2>1, CallEffect
  <2> QED BY <1>0, <2>1, <2>2, <2>3, WorkMove
<1>4. CASE MapWrite(w) \/ ReduceWrite(w)
  <2>1. PICK f : CallCompleteTask(w, f)
    BY <1>4 DEF MapWrite, ReduceWrite
  <2>2. job[w].task \in Tasks
    BY <1>0, <1>4 DEF MapWrite, ReduceWrite, WorkOK, Mapping, Reducing, MapTasks, ReduceTasks
  <2> QED BY <1>c, <2>1, <2>2
<1>5. CASE ReduceRead(w)
  <2>1. pc[w] = "reduce" /\ handler' = handler
    BY <1>5 DEF ReduceRead
  <2>2. PICK read \in SUBSET job[w].files, b \in BOOLEAN :
          \/ Move(w, "reduceCreate", [JobOf(job[w].task, read) EXCEPT !.skips = b])
          \/ Move(w, "idle", NoJob)
    <3>1. PICK read \in SUBSET {f \in job[w].files : f[2] # 0} :
            \/ Move(w, "reduceCreate", [JobOf(job[w].task, read) EXCEPT
                                          !.skips = read # {f \in job[w].files : f[2] # 0}])
            \/ Move(w, "idle", NoJob)
      BY <1>5 DEF ReduceRead
    <3> WITNESS read \in SUBSET job[w].files
    <3> WITNESS (read # {f \in job[w].files : f[2] # 0}) \in BOOLEAN
    <3> QED BY <3>1
  <2>3. job[w].task \in ReduceTasks /\ job[w].task \in Tasks /\ read \in SUBSET Files
    <3>1. job[w].files \in SUBSET Files
      BY <1>j, SMT DEF Jobs
    <3> QED BY <1>0, <2>1, <3>1 DEF WorkOK, Reducing, ReduceTasks
  <2>4. JobOf(job[w].task, read) \in Jobs /\ JobOf(job[w].task, read).task = job[w].task
    BY <2>3, JobTypes
  <2>5. [JobOf(job[w].task, read) EXCEPT !.skips = b].task \in ReduceTasks
    <3>1. [JobOf(job[w].task, read) EXCEPT !.skips = b].task = JobOf(job[w].task, read).task
      BY <2>4, JobUpdates
    <3> QED BY <2>3, <2>4, <3>1
  <2>6. "reduce" \in Working
    BY DEF Working
  <2> QED BY <1>0, <2>1, <2>2, <2>5, <2>6, WorkMove
<1>6. CASE ReduceCreate(w)
  <2>1. /\ pc'[w] = "reduceWrite" /\ \A v \in Workers \ {w} : pc'[v] = pc[v]
        /\ \A v \in Workers : job'[v].task = job[v].task
        /\ handler' = handler /\ pc[w] = "reduceCreate"
    BY <1>6, CreateEffect DEF ReduceCreate
  <2>2. ASSUME NEW v \in Workers PROVE WorkOK(v)'
    <3>1. CASE v = w
      BY <1>0, <2>1, <3>1 DEF WorkOK, Mapping, Reducing
    <3>2. CASE v # w
      BY <1>0, <2>1, <3>2 DEF WorkInv, WorkOK
    <3> QED BY <3>1, <3>2
  <2> QED BY <2>2 DEF WorkInv
<1>7. CASE AttemptFails(w)
  BY <1>0, <1>7, WorkMove DEF AttemptFails
<1>8. CASE Crash(w)
  BY <1>0, <1>8, WorkMove DEF Crash
<1> QED BY <1>1, <1>2, <1>3, <1>4, <1>5, <1>6, <1>7, <1>8 DEF WorkerStep

LEMMA WorkStep == ASSUME TypeOK, WorkInv, Next PROVE WorkInv'
<1>1. CASE MainLoop \/ StrayCompletion \/ Finished \/ \E t \in Tasks : TimerFires(t) \/ TimerSends(t)
  <2>1. UNCHANGED <<handler, up, workerVars>>
    BY <1>1 DEF MainLoop, MapRecv, Requeue, MapRecord, SpawnBegins, SpawnReduce, SpawnEnds, ReduceRecv,
                ReduceRecord, MarkDone, Receive, StrayCompletion, Finished, vars, TimerFires, TimerSends
  <2> QED BY <2>1, WorkUnchanged
<1>2. CASE Exit
  <2>1. handler' = [w \in Workers |-> Idle] /\ UNCHANGED workerVars
    BY <1>2 DEF Exit
  <2>2. ASSUME NEW w \in Workers PROVE WorkOK(w)'
    BY <2>1, HandlerTypes DEF WorkInv, WorkOK, workerVars
  <2> QED BY <2>2 DEF WorkInv
<1>3. CASE \E w \in Workers : HandlerStep(w)
  BY <1>3, WorkHandler
<1>4. CASE \E w \in Workers : WorkerStep(w) \/ AttemptFails(w) \/ Crash(w)
  BY <1>4, WorkWorker
<1> QED BY <1>1, <1>2, <1>3, <1>4 DEF Next

(***************************************************************************)
(* Tasks in circulation.                                                   *)
(***************************************************************************)
In(q, x) == \E k \in 1..Len(q) : q[k] = x
Distinct(q) == \A j, k \in 1..Len(q) : q[j] = q[k] => j = k

LEMMA InAppend ==
  ASSUME NEW S, NEW q \in Seq(S), NEW x \in S
  PROVE  /\ \A y : In(Append(q, x), y) <=> In(q, y) \/ y = x
         /\ Distinct(q) /\ ~In(q, x) => Distinct(Append(q, x))
<1>1. /\ Len(Append(q, x)) = Len(q) + 1 /\ Append(q, x)[Len(q) + 1] = x /\ Len(q) \in Nat
      /\ \A k \in 1..Len(q) : Append(q, x)[k] = q[k]
  BY SMT
<1>2. 1..(Len(q) + 1) = 1..Len(q) \cup {Len(q) + 1}
  BY <1>1, SMT
<1>3. ASSUME NEW y PROVE In(Append(q, x), y) <=> In(q, y) \/ y = x
  BY <1>1, <1>2 DEF In
<1>4. ASSUME Distinct(q), ~In(q, x) PROVE Distinct(Append(q, x))
  BY <1>1, <1>2, <1>4, SMT DEF In, Distinct
<1> QED BY <1>3, <1>4

LEMMA InTail ==
  ASSUME NEW S, NEW q \in Seq(S), q # << >>
  PROVE  /\ \A y : In(q, y) <=> In(Tail(q), y) \/ y = Head(q)
         /\ Distinct(q) => Distinct(Tail(q)) /\ ~In(Tail(q), Head(q))
<1>1. /\ Len(Tail(q)) = Len(q) - 1 /\ Len(q) \in Nat \ {0} /\ q[1] = Head(q)
      /\ \A k \in 1..(Len(q) - 1) : Tail(q)[k] = q[k + 1]
  BY SMT
<1>2. /\ \A k \in 1..(Len(q) - 1) : k + 1 \in 1..Len(q) /\ k + 1 # 1
      /\ \A k \in 1..Len(q) : k = 1 \/ \E j \in 1..(Len(q) - 1) : k = j + 1
      /\ \A j, k \in 1..(Len(q) - 1) : j + 1 = k + 1 => j = k
      /\ 1 \in 1..Len(q)
  <2>1. \A k \in 1..Len(q) : k # 1 => k - 1 \in 1..(Len(q) - 1) /\ k = (k - 1) + 1
    BY <1>1, SMT
  <2>2. /\ \A k \in 1..(Len(q) - 1) : k + 1 \in 1..Len(q) /\ k + 1 # 1
        /\ \A j, k \in 1..(Len(q) - 1) : j + 1 = k + 1 => j = k
        /\ 1 \in 1..Len(q)
    BY <1>1, SMT
  <2> QED BY <2>1, <2>2
<1>3. ASSUME NEW y PROVE In(q, y) <=> In(Tail(q), y) \/ y = Head(q)
  <2>1. ASSUME NEW k \in 1..Len(q), q[k] = y, y # Head(q) PROVE In(Tail(q), y)
    <3>1. PICK j \in 1..(Len(q) - 1) : k = j + 1
      BY <1>1, <1>2, <2>1
    <3>2. Tail(q)[j] = y /\ j \in 1..Len(Tail(q))
      BY <1>1, <2>1, <3>1
    <3> QED BY <3>2 DEF In
  <2>2. ASSUME NEW j \in 1..Len(Tail(q)), Tail(q)[j] = y PROVE In(q, y)
    <3>1. j \in 1..(Len(q) - 1)
      BY <1>1
    <3>2. j + 1 \in 1..Len(q) /\ q[j + 1] = y
      BY <1>1, <1>2, <2>2, <3>1
    <3> QED BY <3>2 DEF In
  <2>3. In(q, Head(q))
    BY <1>1, <1>2 DEF In
  <2> QED BY <2>1, <2>2, <2>3 DEF In
<1>4. ASSUME Distinct(q) PROVE Distinct(Tail(q)) /\ ~In(Tail(q), Head(q))
  BY <1>1, <1>2, <1>4, SMT DEF In, Distinct
<1> QED BY <1>3, <1>4

Queued(t) == In(taskQueue, t)
Held(t) == \E w \in Workers : handler[w] = Got(t)
Circulates(t) == Queued(t) \/ Held(t) \/ timers[t] > 0 \/ senders[t] > 0
Needed(t) == ~TaskDone(t) /\ (t.type = "Map" \/ t.tid < spawned)

\* The tasks that must be in circulation, those of the next phase included.
NeededInv == up => \A t \in Tasks : Needed(t) => Circulates(t)

LEMMA QueueUnchanged == taskQueue' = taskQueue => \A t : Queued(t)' <=> Queued(t)
BY DEF Queued

LEMMA HeldUnchanged == handler' = handler => \A t : Held(t)' <=> Held(t)
BY DEF Held

LEMMA HeldOthers ==
  ASSUME NEW w \in Workers, \A v \in Workers \ {w} : handler'[v] = handler[v],
         handler[w].op # "got", handler'[w].op # "got"
  PROVE  \A t : Held(t)' <=> Held(t)
<1>1. ASSUME NEW t PROVE handler[w] # Got(t) /\ handler'[w] # Got(t)
  BY HandlerTypes
<1> QED BY <1>1 DEF Held

LEMMA NeededKept ==
  ASSUME NeededInv, up' => up, \A t \in Tasks : Needed(t)' => Needed(t),
         \A t \in Tasks : Needed(t) /\ Circulates(t) => Circulates(t)'
  PROVE  NeededInv'
BY DEF NeededInv

LEMMA TaskDoneUnchanged == UNCHANGED coordinatorVars => \A t : TaskDone(t)' <=> TaskDone(t)
BY DEF TaskDone, coordinatorVars

LEMMA NeededUnchanged ==
  UNCHANGED coordinatorVars /\ spawned' = spawned => \A t : Needed(t)' <=> Needed(t)
BY TaskDoneUnchanged DEF Needed

LEMMA NeededHandler ==
  ASSUME TypeOK, LoopInv, NeededInv, NEW w \in Workers, HandlerStep(w)
  PROVE  NeededInv'
<1>0. /\ UNCHANGED coordinatorVars /\ spawned' = spawned /\ up' = up /\ senders' = senders
  BY DEF HandlerStep, Dequeue, ReqTimeout, ReqAnswer, CompleteTask, loopVars, timerVars
<1>1. \A t \in Tasks : Needed(t)' <=> Needed(t)
  BY <1>0, NeededUnchanged
<1>q. taskQueue \in Seq(Tasks)
  BY TypeParts
<1>2. CASE Dequeue(w)
  <2>1. /\ handler[w] = Waiting /\ handler' = [handler EXCEPT ![w] = Got(Head(taskQueue))]
        /\ taskQueue # << >> /\ taskQueue' = Tail(taskQueue) /\ timers' = timers
    BY <1>2 DEF Dequeue, timerVars
  <2>2. /\ handler'[w] = Got(Head(taskQueue))
        /\ \A v \in Workers \ {w} : handler'[v] = handler[v]
    BY <2>1, TypeGroups DEF HandlerType
  <2>3. \A t : Queued(t) => Queued(t)' \/ t = Head(taskQueue)
    BY <1>q, <2>1, InTail DEF Queued
  <2>4. \A t : Held(t) \/ t = Head(taskQueue) => Held(t)'
    <3>1. \A t : handler[w] # Got(t)
      BY <2>1, HandlerTypes
    <3> QED BY <2>2, <3>1 DEF Held
  <2>5. \A t : Circulates(t) => Circulates(t)'
    BY <1>0, <2>1, <2>3, <2>4 DEF Circulates
  <2> QED BY <1>0, <1>1, <2>5, NeededKept
<1>3. CASE ReqTimeout(w) \/ CompleteTask(w)
  <2>1. /\ taskQueue' = taskQueue /\ timers' = timers /\ handler[w].op # "got"
        /\ Reply(w, "idle", NoJob)
    BY <1>3, HandlerTypes DEF ReqTimeout, CompleteTask, queueVars, timerVars
  <2>2. handler'[w] = Idle /\ \A v \in Workers \ {w} : handler'[v] = handler[v]
    BY <2>1, ReplyEffect
  <2>3. \A t : Held(t)' <=> Held(t)
    BY <2>1, <2>2, HandlerTypes, HeldOthers
  <2>4. \A t : Circulates(t) => Circulates(t)'
    BY <1>0, <2>1, <2>3, QueueUnchanged DEF Circulates
  <2> QED BY <1>0, <1>1, <2>4, NeededKept
<1>4. CASE ReqAnswer(w)
  <2>1. taskQueue' = taskQueue /\ handler[w].op = "got" /\ mrPc # "spawn"
    BY <1>4 DEF ReqAnswer, queueVars, CanRLock
  <2>2. PICK t \in Tasks : t = handler[w].task /\ handler[w] = Got(t)
    BY <2>1, TypeGroups, HandlerCases DEF HandlerType
  <2>3. PICK loc, j : Reply(w, loc, j)
    BY <1>4 DEF ReqAnswer, Hand
  <2>4. handler'[w] = Idle /\ \A v \in Workers \ {w} : handler'[v] = handler[v]
    BY <2>3, ReplyEffect
  <2>5. \A u \in Tasks \ {t} : Held(u) => Held(u)'
    <3>1. \A u \in Tasks \ {t} : handler[w] # Got(u)
      BY <2>2, HandlerTypes
    <3> QED BY <2>4, <3>1 DEF Held
  <2>6. CASE t.type # coordinatorState /\ timers' = timers
    <3>1. ~Needed(t)
      <4>1. CASE t.type = "Map"
        BY <2>6, <4>1, LoopParts, TaskTypes DEF Needed, TaskDone
      <4>2. CASE t.type = "Reduce" /\ coordinatorState = "Done"
        BY <4>2, LoopParts, TaskTypes DEF Needed, TaskDone
      <4>3. CASE t.type = "Reduce" /\ coordinatorState = "Map"
        <5>1. spawned = 0
          BY <2>1, <4>3, LoopParts DEF LoopInv
        <5>2. t.tid \in Nat
          BY <4>3, TaskTypes
        <5>3. ~(t.tid < 0)
          BY <5>2, SMT
        <5> QED BY <4>3, <5>1, <5>3 DEF Needed
      <4> QED BY <2>6, <4>1, <4>2, <4>3, TypeParts, TaskTypes
    <3>2. \A u \in Tasks : Needed(u) /\ Circulates(u) => Circulates(u)'
      BY <1>0, <2>1, <2>5, <2>6, <3>1, QueueUnchanged DEF Circulates
    <3> QED BY <1>0, <1>1, <3>2, NeededKept
  <2>7. CASE timers' = [timers EXCEPT ![t] = @ + 1]
    <3>1. timers'[t] > 0 /\ \A u \in Tasks \ {t} : timers'[u] = timers[u]
      BY <2>7, TypeParts, SMT
    <3>2. \A u \in Tasks : Needed(u) /\ Circulates(u) => Circulates(u)'
      BY <1>0, <2>1, <2>5, <3>1, QueueUnchanged DEF Circulates
    <3> QED BY <1>0, <1>1, <3>2, NeededKept
  <2> QED BY <1>4, <2>2, <2>6, <2>7 DEF ReqAnswer
<1> QED BY <1>2, <1>3, <1>4 DEF HandlerStep

LEMMA NeededTimer ==
  ASSUME TypeOK, LoopInv, NeededInv, NEW t \in Tasks, TimerFires(t) \/ TimerSends(t)
  PROVE  NeededInv'
<1>0. UNCHANGED coordinatorVars /\ spawned' = spawned /\ up' = up /\ handler' = handler
  BY DEF TimerFires, TimerSends, loopVars
<1>1. \A u \in Tasks : Needed(u)' <=> Needed(u)
  BY <1>0, NeededUnchanged
<1>q. taskQueue \in Seq(Tasks) /\ timers \in [Tasks -> Nat] /\ senders \in [Tasks -> Nat]
  BY TypeParts
<1>2. CASE TimerFires(t)
  <2>1. timers' = [timers EXCEPT ![t] = @ - 1] /\ mrPc # "spawn"
    BY <1>2 DEF TimerFires, Wake, CanRLock
  <2>2. \A u \in Tasks \ {t} : timers'[u] = timers[u]
    BY <1>q, <2>1
  <2>3. CASE ~StillWanted(t) /\ UNCHANGED <<taskQueue, senders>>
    <3>1. ~Needed(t)
      <4>1. CASE t.type = coordinatorState
        BY <2>3, <4>1 DEF StillWanted, Needed
      <4>2. CASE t.type # coordinatorState /\ t.type = "Map"
        BY <4>2, LoopParts, TaskTypes DEF Needed, TaskDone
      <4>3. CASE t.type = "Reduce" /\ coordinatorState = "Done"
        BY <4>3, LoopParts, TaskTypes DEF Needed, TaskDone
      <4>4. CASE t.type = "Reduce" /\ coordinatorState = "Map"
        <5>1. spawned = 0
          BY <2>1, <4>4, LoopParts DEF LoopInv
        <5>2. t.tid \in Nat
          BY <4>4, TaskTypes
        <5>3. ~(t.tid < 0)
          BY <5>2, SMT
        <5> QED BY <4>4, <5>1, <5>3 DEF Needed
      <4> QED BY <4>1, <4>2, <4>3, <4>4, TypeParts, TaskTypes
    <3>2. \A u \in Tasks : Needed(u) /\ Circulates(u) => Circulates(u)'
      BY <1>0, <2>2, <2>3, <3>1, QueueUnchanged, HeldUnchanged DEF Circulates
    <3> QED BY <1>0, <1>1, <3>2, NeededKept
  <2>4. CASE taskQueue' = Append(taskQueue, t) /\ UNCHANGED senders
    <3>1. \A u : Queued(u)' <=> Queued(u) \/ u = t
      BY <1>q, <2>4, InAppend DEF Queued
    <3>2. \A u \in Tasks : Needed(u) /\ Circulates(u) => Circulates(u)'
      BY <1>0, <2>2, <2>4, <3>1, HeldUnchanged DEF Circulates
    <3> QED BY <1>0, <1>1, <3>2, NeededKept
  <2>5. CASE senders' = [senders EXCEPT ![t] = @ + 1] /\ UNCHANGED taskQueue
    <3>1. senders'[t] > 0 /\ \A u \in Tasks \ {t} : senders'[u] = senders[u]
      BY <1>q, <2>5, SMT
    <3>2. \A u \in Tasks : Needed(u) /\ Circulates(u) => Circulates(u)'
      BY <1>0, <2>2, <2>5, <3>1, QueueUnchanged, HeldUnchanged DEF Circulates
    <3> QED BY <1>0, <1>1, <3>2, NeededKept
  <2> QED BY <1>2, <2>3, <2>4, <2>5 DEF TimerFires
<1>3. CASE TimerSends(t)
  <2>1. taskQueue' = Append(taskQueue, t) /\ senders' = [senders EXCEPT ![t] = @ - 1] /\ timers' = timers
    BY <1>3 DEF TimerSends
  <2>2. \A u : Queued(u)' <=> Queued(u) \/ u = t
    BY <1>q, <2>1, InAppend DEF Queued
  <2>3. \A u \in Tasks \ {t} : senders'[u] = senders[u]
    BY <1>q, <2>1
  <2>4. \A u \in Tasks : Needed(u) /\ Circulates(u) => Circulates(u)'
    BY <1>0, <2>1, <2>2, <2>3, HeldUnchanged DEF Circulates
  <2> QED BY <1>0, <1>1, <2>4, NeededKept
<1> QED BY <1>2, <1>3

LEMMA NeededLoop ==
  ASSUME TypeOK, LoopInv, NeededInv, MainLoop
  PROVE  NeededInv'
<1>0. up' = up /\ handler' = handler /\ timers' = timers /\ senders' = senders
  BY DEF MainLoop, MapRecv, Requeue, MapRecord, SpawnBegins, SpawnReduce, SpawnEnds, ReduceRecv,
         ReduceRecord, MarkDone, Receive, timerVars
<1>q. taskQueue \in Seq(Tasks)
  BY TypeParts
<1>1. ASSUME taskQueue' = taskQueue, spawned' = spawned, \A t \in Tasks : TaskDone(t) => TaskDone(t)'
      PROVE  NeededInv'
  <2>1. \A t \in Tasks : Needed(t)' => Needed(t)
    BY <1>1 DEF Needed
  <2>2. \A t \in Tasks : Circulates(t)' <=> Circulates(t)
    BY <1>0, <1>1, QueueUnchanged, HeldUnchanged DEF Circulates
  <2> QED BY <1>0, <2>1, <2>2, NeededKept
<1>2. CASE MapRecv \/ ReduceRecv \/ SpawnBegins
  <2>1. taskQueue' = taskQueue /\ spawned' = spawned /\ UNCHANGED coordinatorVars
    BY <1>2 DEF MapRecv, ReduceRecv, SpawnBegins, Receive, queueVars
  <2> QED BY <1>1, <2>1, TaskDoneUnchanged
<1>3. CASE Requeue
  <2>1. taskQueue' = Append(taskQueue, result.task) /\ spawned' = spawned /\ UNCHANGED coordinatorVars
        /\ result.task \in Tasks
    BY <1>3 DEF Requeue, LoopInv, MapTasks
  <2>2. \A t : Queued(t) => Queued(t)'
    <3>1. PICK x \in Tasks : taskQueue' = Append(taskQueue, x)
      BY <2>1
    <3> QED BY <1>q, <3>1, InAppend DEF Queued
  <2>3. \A t \in Tasks : Circulates(t) => Circulates(t)'
    BY <1>0, <2>2, HeldUnchanged DEF Circulates
  <2> QED BY <1>0, <2>1, <2>3, NeededUnchanged, NeededKept
<1>4. CASE SpawnReduce
  <2>1. /\ taskQueue' = Append(taskQueue, Task("Reduce", spawned)) /\ spawned' = spawned + 1
        /\ spawned < nReduce /\ UNCHANGED coordinatorVars
    BY <1>4 DEF SpawnReduce
  <2>2. spawned \in ReduceTids /\ spawned \in Nat
    BY <2>1, TypeParts, SMT DEF ReduceTids
  <2>3. \A t : Queued(t)' <=> Queued(t) \/ t = Task("Reduce", spawned)
    <3>1. PICK x \in Tasks : x = Task("Reduce", spawned)
      BY <2>2, TaskTypes
    <3>2. taskQueue' = Append(taskQueue, x)
      BY <2>1, <3>1
    <3>3. \A t : In(taskQueue', t) <=> In(taskQueue, t) \/ t = x
      BY <1>q, <3>2, InAppend
    <3> QED BY <3>1, <3>3 DEF Queued
  <2>4. ASSUME NEW t \in Tasks, Needed(t)', t # Task("Reduce", spawned) PROVE Needed(t)
    <3>1. ~TaskDone(t) /\ (t.type = "Map" \/ t.tid < spawned + 1)
      BY <2>1, <2>4, TaskDoneUnchanged DEF Needed
    <3>2. CASE t.type = "Map"
      BY <3>1, <3>2 DEF Needed
    <3>3. CASE t.type = "Reduce" /\ t.tid < spawned + 1
      <4>1. t.tid # spawned /\ t.tid \in Nat
        BY <2>4, <3>3, TaskTypes
      <4>2. t.tid < spawned
        BY <2>2, <3>3, <4>1, SMT
      <4> QED BY <3>1, <4>2 DEF Needed
    <3> QED BY <3>1, <3>2, <3>3, TaskTypes
  <2>5. ASSUME up', NEW t \in Tasks, Needed(t)' PROVE Circulates(t)'
    <3>1. CASE t = Task("Reduce", spawned)
      BY <2>3, <3>1 DEF Circulates
    <3>2. CASE t # Task("Reduce", spawned)
      <4>1. Circulates(t)
        BY <1>0, <2>4, <2>5, <3>2 DEF NeededInv
      <4> QED BY <1>0, <2>3, <4>1, HeldUnchanged DEF Circulates
    <3> QED BY <3>1, <3>2
  <2> QED BY <2>5 DEF NeededInv
<1>5. CASE MapRecord
  <2>1. /\ mrPc = "mapRecord" /\ spawned' = spawned /\ taskQueue' = taskQueue
        /\ reduceTaskState' = reduceTaskState
    BY <1>5 DEF MapRecord, queueVars
  <2>m. PICK m \in MapTids : m = result.task.tid
    BY <2>1, TaskTypes DEF LoopInv, MapTasks
  <2>2. \/ mapTaskState' = mapTaskState
        \/ mapTaskState' = [mapTaskState EXCEPT ![m] = [done |-> TRUE, file |-> result.files]]
    BY <1>5, <2>m DEF MapRecord
  <2>3. \A k \in MapTids : mapTaskState[k].done => mapTaskState'[k].done
    <3>1. CASE mapTaskState' = mapTaskState
      BY <3>1
    <3>2. CASE mapTaskState' = [mapTaskState EXCEPT ![m] = [done |-> TRUE, file |-> result.files]]
      BY <3>2, TypeParts, SMT
    <3> QED BY <2>2, <3>1, <3>2
  <2>4. \A t \in Tasks : TaskDone(t) => TaskDone(t)'
    BY <2>1, <2>3, TaskTypes DEF TaskDone
  <2> QED BY <1>1, <2>1, <2>4
<1>6. CASE SpawnEnds
  <2>1. taskQueue' = taskQueue /\ spawned' = spawned /\ mapTaskState' = mapTaskState /\ mrPc = "spawn"
    BY <1>6 DEF SpawnEnds, queueVars
  <2>2. \A r \in ReduceTids : ~reduceTaskState[r].done
    BY <2>1 DEF LoopInv
  <2>3. \A t \in Tasks : TaskDone(t) => TaskDone(t)'
    BY <2>1, <2>2, TaskTypes DEF TaskDone
  <2> QED BY <1>1, <2>1, <2>3
<1>7. CASE ReduceRecord
  <2>1. /\ mrPc = "reduceRecord" /\ spawned' = spawned /\ taskQueue' = taskQueue
        /\ mapTaskState' = mapTaskState
    BY <1>7 DEF ReduceRecord, queueVars
  <2>r. PICK r \in ReduceTids : r = result.task.tid
    BY <2>1, TaskTypes DEF LoopInv, ReduceTasks
  <2>2. \/ reduceTaskState' = reduceTaskState
        \/ reduceTaskState' = [reduceTaskState EXCEPT ![r].done = TRUE]
    BY <1>7, <2>r DEF ReduceRecord
  <2>3. \A k \in ReduceTids : reduceTaskState[k].done => reduceTaskState'[k].done
    BY <2>2, TypeGroups, RecordedDone
  <2>4. \A t \in Tasks : TaskDone(t) => TaskDone(t)'
    BY <2>1, <2>3, TaskTypes DEF TaskDone
  <2> QED BY <1>1, <2>1, <2>4
<1>8. CASE MarkDone
  <2>1. taskQueue' = taskQueue /\ spawned' = spawned /\ UNCHANGED <<mapTaskState, reduceTaskState>>
    BY <1>8 DEF MarkDone, queueVars
  <2>2. \A t \in Tasks : TaskDone(t) => TaskDone(t)'
    BY <2>1 DEF TaskDone
  <2> QED BY <1>1, <2>1, <2>2
<1> QED BY <1>2, <1>3, <1>4, <1>5, <1>6, <1>7, <1>8 DEF MainLoop

LEMMA NeededWorker ==
  ASSUME TypeOK, WorkInv, NeededInv, NEW w \in Workers, WorkerStep(w) \/ AttemptFails(w) \/ Crash(w)
  PROVE  NeededInv' /\ (\A t : Held(t)' <=> Held(t))
<1>0. Outside
  BY DEF WorkerStep, CallReqTask, CallFails, MapCreate, MapWrite, ReduceRead, ReduceCreate,
         ReduceWrite, AttemptFails, Crash
<1>1. /\ UNCHANGED coordinatorVars /\ taskQueue' = taskQueue /\ spawned' = spawned /\ timers' = timers
      /\ senders' = senders /\ up' = up
  BY <1>0 DEF Outside, queueVars, loopVars, timerVars
<1>2. \/ handler' = handler
      \/ \E h : Call(w, h) /\ h.op # "got" /\ pc[w] \in {"idle", "mapWrite", "reduceWrite"}
  <2>1. CASE CallReqTask(w)
    BY <2>1, HandlerTypes DEF CallReqTask
  <2>2. CASE MapWrite(w) \/ ReduceWrite(w)
    BY <2>2, HandlerTypes DEF MapWrite, ReduceWrite, CallCompleteTask
  <2>3. CASE CallFails(w) \/ MapCreate(w) \/ ReduceRead(w) \/ ReduceCreate(w) \/ AttemptFails(w) \/ Crash(w)
    BY <2>3 DEF CallFails, MapCreate, ReduceRead, ReduceCreate, AttemptFails, Crash
  <2> QED BY <2>1, <2>2, <2>3 DEF WorkerStep
<1>3. \A t : Held(t)' <=> Held(t)
  <2>1. CASE handler' = handler
    BY <2>1, HeldUnchanged
  <2>2. CASE handler' # handler
    <3>1. PICK h : Call(w, h) /\ h.op # "got" /\ pc[w] \in {"idle", "mapWrite", "reduceWrite"}
      BY <1>2, <2>2
    <3>2. up /\ handler'[w] = h /\ \A v \in Workers \ {w} : handler'[v] = handler[v]
      BY <2>2, <3>1, CallEffect
    <3>3. handler[w].op # "got"
      BY <3>1 DEF WorkInv, WorkOK
    <3> QED BY <3>1, <3>2, <3>3, HeldOthers
  <2> QED BY <2>1, <2>2
<1>4. \A t \in Tasks : Circulates(t) => Circulates(t)'
  BY <1>1, <1>3, QueueUnchanged DEF Circulates
<1> QED BY <1>1, <1>3, <1>4, NeededUnchanged, NeededKept

(***************************************************************************)
(* The inductive invariant that holds whatever completions are received.   *)
(***************************************************************************)
BaseInv == TypeOK /\ LoopInv /\ WorkInv /\ NeededInv

LEMMA InitLoop == Init => LoopInv
<1> SUFFICES ASSUME Init PROVE LoopInv
  OBVIOUS
<1>1. \A m \in MapTids : ~mapTaskState[m].done /\ mapTaskState[m].file = 0
  BY SMT DEF Init
<1>2. \A r \in ReduceTids : ~reduceTaskState[r].done /\ reduceTaskState[r].files = {}
  BY SMT DEF Init
<1>3. MapLeft = MapTids
  BY <1>1 DEF MapLeft
<1>4. mrPc = "mapRecv" /\ coordinatorState = "Map" /\ incomplete = nMap /\ spawned = 0
  BY DEF Init
<1> QED BY <1>1, <1>2, <1>3, <1>4, LeftFinite DEF LoopInv, InMap

LEMMA InitNeeded == Init => NeededInv
<1> SUFFICES ASSUME Init, NEW t \in Tasks, Needed(t) PROVE Circulates(t)
  BY DEF NeededInv
<1>1. t.type = "Map"
  <2>1. spawned = 0
    BY DEF Init
  <2>2. t.type = "Reduce" => t.tid \in Nat
    BY TaskTypes
  <2>3. t.type = "Reduce" => ~(t.tid < 0)
    BY <2>2, SMT
  <2> QED BY <2>1, <2>3, TaskTypes DEF Needed
<1>2. t = Task("Map", t.tid) /\ t.tid \in MapTids
  BY <1>1, TaskTypes
<1>3. PICK k \in 1..nMap : k - 1 = t.tid
  <2>1. t.tid + 1 \in 1..nMap /\ (t.tid + 1) - 1 = t.tid
    BY <1>2, SMT DEF MapTids
  <2> QED BY <2>1
<1>4. taskQueue[k] = t /\ k \in 1..Len(taskQueue)
  <2>1. taskQueue = [i \in 1..nMap |-> Task("Map", i - 1)]
    BY DEF Init
  <2>2. taskQueue[k] = Task("Map", k - 1)
    BY <2>1
  <2>3. Len(taskQueue) = nMap
    BY <2>1, SMT
  <2> QED BY <1>2, <1>3, <2>2, <2>3
<1> QED BY <1>4 DEF Circulates, Queued, In

LEMMA InitWork == Init => WorkInv
<1> SUFFICES ASSUME Init, NEW w \in Workers PROVE WorkOK(w)
  BY DEF WorkInv
<1>1. handler[w] = Idle /\ pc[w] = "idle"
  BY DEF Init
<1> QED BY <1>1, HandlerTypes DEF WorkOK, Mapping, Reducing

LEMMA BaseUnchanged == ASSUME BaseInv, UNCHANGED vars PROVE BaseInv'
<1>1. /\ UNCHANGED coordinatorVars /\ UNCHANGED taskQueue /\ UNCHANGED completionQueue /\ UNCHANGED loopVars
      /\ UNCHANGED timerVars /\ UNCHANGED handler /\ UNCHANGED workerVars /\ UNCHANGED fileVars
      /\ UNCHANGED <<up, late, faults>> /\ UNCHANGED <<handler, up, workerVars>>
      /\ UNCHANGED <<coordinatorVars, loopVars>> /\ spawned' = spawned /\ timers' = timers /\ senders' = senders
      /\ handler' = handler /\ up' = up
  BY DEF vars, queueVars, loopVars, timerVars
<1>2. TypeOK'
  BY <1>1, TypeGroups, TypeGroupsNext, Unchanged DEF BaseInv
<1>3. \A t \in Tasks : Circulates(t) => Circulates(t)'
  BY <1>1, QueueUnchanged, HeldUnchanged DEF Circulates
<1>4. NeededInv'
  <2>1. \A t \in Tasks : Needed(t)' => Needed(t)
    BY <1>1, NeededUnchanged
  <2>2. NeededInv /\ (up' => up)
    BY DEF BaseInv, vars
  <2> QED BY <1>3, <2>1, <2>2, NeededKept
<1> QED BY <1>1, <1>2, <1>4, LoopUnchanged, WorkUnchanged DEF BaseInv

LEMMA BaseStep == ASSUME BaseInv, Next PROVE BaseInv'
<1>0. TypeOK /\ LoopInv /\ WorkInv /\ NeededInv
  BY DEF BaseInv
<1>1. CASE MainLoop
  BY <1>0, <1>1, LoopTypeStep, LoopStep, NeededLoop, WorkStep DEF BaseInv
<1>2. CASE StrayCompletion
  <2>1. /\ UNCHANGED <<coordinatorVars, loopVars>> /\ UNCHANGED coordinatorVars /\ spawned' = spawned
        /\ up' = up /\ taskQueue' = taskQueue
        /\ timers' = timers /\ senders' = senders /\ handler' = handler
    BY <1>2 DEF StrayCompletion, loopVars, timerVars
  <2>2. \A t \in Tasks : Circulates(t) => Circulates(t)'
    BY <2>1, QueueUnchanged, HeldUnchanged DEF Circulates
  <2>3. NeededInv'
    BY <1>0, <2>1, <2>2, NeededUnchanged, NeededKept
  <2> QED BY <1>0, <1>2, <2>1, <2>3, StrayTypeStep, LoopUnchanged, WorkStep DEF BaseInv
<1>3. CASE Exit
  <2>1. UNCHANGED <<coordinatorVars, loopVars>> /\ ~up'
    BY <1>3 DEF Exit
  <2>2. NeededInv'
    BY <2>1 DEF NeededInv
  <2> QED BY <1>0, <1>3, <2>1, <2>2, ExitTypeStep, LoopUnchanged, WorkStep DEF BaseInv
<1>4. CASE \E t \in Tasks : TimerFires(t) \/ TimerSends(t)
  <2>1. UNCHANGED <<coordinatorVars, loopVars>>
    BY <1>4 DEF TimerFires, TimerSends
  <2> QED BY <1>0, <1>4, <2>1, TimerTypeStep, LoopUnchanged, WorkStep, NeededTimer DEF BaseInv
<1>5. CASE \E w \in Workers : HandlerStep(w)
  <2>1. UNCHANGED <<coordinatorVars, loopVars>>
    BY <1>5 DEF HandlerStep, Dequeue, ReqTimeout, ReqAnswer, CompleteTask
  <2> QED BY <1>0, <1>5, <2>1, HandlerTypeStep, LoopUnchanged, WorkStep, NeededHandler DEF BaseInv
<1>6. CASE \E w \in Workers : WorkerStep(w) \/ AttemptFails(w) \/ Crash(w)
  <2>1. PICK w \in Workers : WorkerStep(w) \/ AttemptFails(w) \/ Crash(w)
    BY <1>6
  <2>2. Outside
    BY <2>1 DEF WorkerStep, CallReqTask, CallFails, MapCreate, MapWrite, ReduceRead, ReduceCreate,
                ReduceWrite, AttemptFails, Crash
  <2>3. UNCHANGED <<coordinatorVars, loopVars>>
    BY <2>2 DEF Outside
  <2>4. TypeOK'
    BY <1>0, <2>1, WorkerTypeStep DEF WorkInv, WorkOK, Mapping, Reducing
  <2> QED BY <1>0, <2>1, <2>3, <2>4, LoopUnchanged, WorkStep, NeededWorker DEF BaseInv
<1>7. CASE UNCHANGED vars
  BY <1>7, BaseUnchanged
<1> QED BY <1>1, <1>2, <1>3, <1>4, <1>5, <1>6, <1>7 DEF Next, Finished

LEMMA SpawnKeepsDone ==
  ASSUME TypeOK, LoopInv, SpawnEnds
  PROVE  \A r \in ReduceTids : ~reduceTaskState'[r].done
<1>1. ReduceLeft' = ReduceTids
  <2>1. /\ mrPc' = "reduceRecv" /\ incomplete' = incomplete /\ incomplete = nReduce
    BY DEF SpawnEnds, LoopInv
  <2>2. LoopInv'
    BY LoopStep DEF MainLoop
  <2>3. Cardinality(ReduceLeft') = nReduce /\ ReduceLeft' \subseteq ReduceTids
    BY <2>1, <2>2 DEF LoopInv, ReduceLeft
  <2> QED BY <2>3, LeftFinite, FS_Subset
<1> QED BY <1>1 DEF ReduceLeft

LEMMA InitBase == Init => BaseInv
BY InitType, InitLoop, InitWork, InitNeeded DEF BaseInv

LEMMA SpecBase == Spec => []BaseInv
<1>1. BaseInv /\ [Next]_vars => BaseInv'
  BY BaseStep, BaseUnchanged
<1> QED BY <1>1, InitBase, PTL DEF Spec

LEMMA SomeToken ==
  ASSUME TypeOK, NEW t \in Tasks, Circulates(t)
  PROVE  Tokens(t) > 0
<1> DEFINE Q == {i \in DOMAIN taskQueue : taskQueue[i] = t}
           H == {w \in Workers : handler[w] = Got(t)}
<1>1. DOMAIN taskQueue = 1..Len(taskQueue) /\ Len(taskQueue) \in Nat
  BY TypeParts, SMT
<1>2. IsFiniteSet(Q)
  <2>1. IsFiniteSet(1..Len(taskQueue))
    <3>1. 1 \in Int /\ Len(taskQueue) \in Int
      BY <1>1, SMT
    <3> QED BY <3>1, FS_Interval
  <2> QED BY <1>1, <2>1, FS_Subset
<1>3. IsFiniteSet(H)
  BY FS_Subset
<1>4. Cardinality(Q) \in Nat /\ Cardinality(H) \in Nat /\ timers[t] \in Nat /\ senders[t] \in Nat
  BY <1>2, <1>3, FS_CardinalityType, TypeParts
<1>5. Tokens(t) = Cardinality(Q) + Cardinality(H) + timers[t] + senders[t]
  BY DEF Tokens
<1>6. Queued(t) => Cardinality(Q) > 0
  <2>1. Queued(t) => \E x : x \in Q
    BY <1>1 DEF Queued, In
  <2> HIDE DEF Q
  <2> QED BY <1>2, <2>1, Counting
<1>7. Held(t) => Cardinality(H) > 0
  <2>1. Held(t) => \E x : x \in H
    BY DEF Held
  <2> HIDE DEF H
  <2> QED BY <1>3, <2>1, Counting
<1>8. Cardinality(Q) > 0 \/ Cardinality(H) > 0 \/ timers[t] > 0 \/ senders[t] > 0
  BY <1>6, <1>7 DEF Circulates
<1> HIDE DEF Q, H
<1> QED BY <1>4, <1>5, <1>8, SMT

\* NoTaskLost (coordinator.go:69, 113): a task the phase still needs is queued,
\* held by a handler or watched by a timer, for any number of workers and tasks,
\* any queue capacities and whatever completions are received.
THEOREM NoTaskIsLost == Spec => []NoTaskLost
<1>1. BaseInv => NoTaskLost
  <2> SUFFICES ASSUME BaseInv, up, NEW t \in Tasks, StillWanted(t) PROVE Tokens(t) > 0
    BY DEF NoTaskLost
  <2>1. TypeOK /\ LoopInv /\ NeededInv
    BY DEF BaseInv
  <2>2. Needed(t)
    <3>1. t.type = coordinatorState /\ ~TaskDone(t)
      BY DEF StillWanted
    <3>2. CASE t.type = "Map"
      BY <3>1, <3>2 DEF Needed
    <3>3. CASE t.type = "Reduce"
      <4>1. spawned = nReduce /\ t.tid \in ReduceTids
        BY <2>1, <3>1, <3>3, LoopParts, TaskTypes
      <4>2. t.tid < spawned
        BY <4>1, SMT DEF ReduceTids
      <4> QED BY <3>1, <4>2 DEF Needed
    <3> QED BY <3>2, <3>3, TaskTypes
  <2>3. Circulates(t)
    BY <2>1, <2>2 DEF NeededInv
  <2> QED BY <2>1, <2>3, SomeToken
<1> QED BY <1>1, SpecBase, PTL

(***************************************************************************)
(* The coordinator does what MapReduceJob says.                            *)
(***************************************************************************)
LEMMA JobUnchanged == UNCHANGED coordinatorVars => UNCHANGED Job!jobVars
BY DEF coordinatorVars, Job!jobVars, Reduced

LEMMA InitJob == Init => Job!jobInit
<1> SUFFICES ASSUME Init PROVE Job!jobInit
  OBVIOUS
<1>1. coordinatorState = "Map"
  BY DEF Init
<1>2. \A m \in MapTids : mapTaskState[m].file = 0
  BY SMT DEF Init
<1>3. \A r \in ReduceTids : ~reduceTaskState[r].done /\ reduceTaskState[r].files = {}
  BY SMT DEF Init
<1> QED BY <1>1, <1>2, <1>3 DEF Job!jobInit, Reduced

LEMMA StepJob == ASSUME BaseInv, Next PROVE Job!jobNext \/ UNCHANGED Job!jobVars
<1>0. TypeOK /\ LoopInv /\ CoordinatorType
  BY TypeGroups DEF BaseInv
<1>1. CASE MapRecord
  <2>1. /\ mrPc = "mapRecord" /\ coordinatorState' = coordinatorState /\ reduceTaskState' = reduceTaskState
        /\ coordinatorState = "Map"
    BY <1>0, <1>1 DEF MapRecord, LoopInv, InMap
  <2>m. PICK m \in MapTids : m = result.task.tid
    BY <1>0, <2>1, TaskTypes DEF LoopInv, MapTasks
  <2>2. CASE mapTaskState' = mapTaskState
    BY <2>1, <2>2, JobUnchanged DEF coordinatorVars
  <2>3. CASE /\ ~mapTaskState[m].done
             /\ mapTaskState' = [mapTaskState EXCEPT ![m] = [done |-> TRUE, file |-> result.files]]
    <3>1. /\ \A k \in MapTids \ {m} : mapTaskState'[k] = mapTaskState[k]
          /\ mapTaskState'[m].file = result.files
      BY <1>0, <2>3, SMT DEF CoordinatorType
    <3>2. result.files \in Nat \ {0} /\ mapTaskState[m].file = 0
      BY <1>0, <2>1, <2>3, TypeParts, StrayTypes DEF LoopInv
    <3> DEFINE acc == [k \in MapTids |-> mapTaskState[k].file]
               next == [k \in MapTids |-> mapTaskState'[k].file]
    <3>3. next = [acc EXCEPT ![m] = next[m]] /\ acc[m] = 0 /\ next[m] \in Nat \ {0}
      BY <3>1, <3>2
    <3>4. Reduced' = Reduced /\ [r \in ReduceTids |-> reduceTaskState[r].files]'
                                  = [r \in ReduceTids |-> reduceTaskState[r].files]
      BY <2>1 DEF Reduced
    <3>5. Job!AcceptMap(m)
      BY <2>1, <3>3, <3>4 DEF Job!AcceptMap
    <3> QED BY <3>5 DEF Job!jobNext
  <2> QED BY <1>1, <2>m, <2>2, <2>3 DEF MapRecord
<1>2. CASE SpawnEnds
  <2>1. /\ reduceTaskState' = [r \in ReduceTids |->
                                [reduceTaskState[r] EXCEPT !.files = @ \cup MapFiles]]
        /\ coordinatorState' = "Reduce" /\ mapTaskState' = mapTaskState
        /\ mrPc = "spawn" /\ coordinatorState = "Map"
    BY <1>0, <1>2 DEF SpawnEnds, LoopInv
  <2>2. LoopInv' /\ MapFiles' = MapFiles
    BY <1>0, <1>2, <2>1, LoopStep DEF MainLoop, MapFiles
  <2>3. /\ \A r \in ReduceTids : ~reduceTaskState[r].done
        /\ \A m \in MapTids : mapTaskState[m].file # 0
    BY <1>0, <2>1, LoopParts DEF LoopInv, InMap
  <2>4. \A r \in ReduceTids : reduceTaskState'[r].files = MapFiles
    BY <2>1, <2>2 DEF LoopInv
  <2>5. \A r \in ReduceTids : ~reduceTaskState'[r].done
    BY <1>0, <1>2, SpawnKeepsDone
  <2>6. Reduced' = Reduced
    BY <2>3, <2>5 DEF Reduced
  <2>7. MapFiles = {<<m, [k \in MapTids |-> mapTaskState[k].file][m]>> : m \in MapTids}
    BY DEF MapFiles
  <2>8. Job!StartReduce
    BY <2>1, <2>3, <2>4, <2>6, <2>7 DEF Job!StartReduce
  <2> QED BY <2>8 DEF Job!jobNext
<1>3. CASE ReduceRecord
  <2>1. /\ mrPc = "reduceRecord" /\ coordinatorState' = coordinatorState /\ mapTaskState' = mapTaskState
        /\ coordinatorState = "Reduce"
    BY <1>0, <1>3 DEF ReduceRecord, LoopInv
  <2>r. PICK r \in ReduceTids : r = result.task.tid
    BY <1>0, <2>1, TaskTypes DEF LoopInv, ReduceTasks
  <2>2. CASE reduceTaskState' = reduceTaskState
    BY <2>1, <2>2, JobUnchanged DEF coordinatorVars
  <2>3. CASE ~reduceTaskState[r].done /\ reduceTaskState' = [reduceTaskState EXCEPT ![r].done = TRUE]
    <3>1. /\ \A k \in ReduceTids \ {r} : reduceTaskState'[k] = reduceTaskState[k]
          /\ reduceTaskState'[r].done /\ reduceTaskState'[r].files = reduceTaskState[r].files
      BY <1>0, <2>3, RecordedDone
    <3>2. Reduced' = Reduced \cup {r} /\ r \notin Reduced
      BY <2>3, <3>1 DEF Reduced
    <3>3. /\ [k \in ReduceTids |-> reduceTaskState'[k].files] = [k \in ReduceTids |-> reduceTaskState[k].files]
          /\ [m \in MapTids |-> mapTaskState'[m].file] = [m \in MapTids |-> mapTaskState[m].file]
      BY <2>1, <3>1
    <3>4. Job!AcceptReduce(r)
      BY <2>1, <3>2, <3>3 DEF Job!AcceptReduce
    <3> QED BY <3>4 DEF Job!jobNext
  <2> QED BY <1>3, <2>r, <2>2, <2>3 DEF ReduceRecord
<1>4. CASE MarkDone
  <2>1. /\ mrPc = "reduceRecv" /\ incomplete = 0 /\ coordinatorState' = "Done"
        /\ UNCHANGED <<mapTaskState, reduceTaskState>> /\ coordinatorState = "Reduce"
    BY <1>0, <1>4 DEF MarkDone, LoopInv
  <2>2. ReduceLeft = {}
    BY <1>0, <2>1, LeftFinite, Counting DEF LoopInv
  <2>3. Reduced = ReduceTids /\ Reduced' = Reduced
    BY <2>1, <2>2 DEF Reduced, ReduceLeft
  <2>4. Job!FinishJob
    BY <2>1, <2>3 DEF Job!FinishJob
  <2> QED BY <2>4 DEF Job!jobNext
<1>5. CASE UNCHANGED coordinatorVars
  BY <1>5, JobUnchanged
<1>6. CASE /\ ~MapRecord /\ ~SpawnEnds /\ ~ReduceRecord /\ ~MarkDone
  <2>1. UNCHANGED coordinatorVars
    <3>1. CASE MainLoop
      BY <1>6, <3>1 DEF MainLoop, MapRecv, Requeue, SpawnBegins, SpawnReduce, ReduceRecv, Receive
    <3>2. CASE StrayCompletion \/ Exit \/ Finished \/ \E t \in Tasks : TimerFires(t) \/ TimerSends(t)
      BY <3>2 DEF StrayCompletion, Exit, Finished, vars, TimerFires, TimerSends
    <3>3. CASE \E w \in Workers : HandlerStep(w)
      BY <3>3 DEF HandlerStep, Dequeue, ReqTimeout, ReqAnswer, CompleteTask
    <3>4. CASE \E w \in Workers : WorkerStep(w) \/ AttemptFails(w) \/ Crash(w)
      BY <3>4 DEF WorkerStep, CallReqTask, CallFails, MapCreate, MapWrite, ReduceRead, ReduceCreate,
                  ReduceWrite, AttemptFails, Crash, Outside
    <3> QED BY <3>1, <3>2, <3>3, <3>4 DEF Next
  <2> QED BY <1>5, <2>1
<1> QED BY <1>1, <1>2, <1>3, <1>4, <1>6

\* ImplementsJob: the coordinator accepts one completion of every task, gives the
\* reducers what the accepted map attempts wrote, and ends when every reduce task
\* is done (coordinator.go:129-237), for any number of workers and tasks and
\* whatever completions are received.
THEOREM CoordinatorImplementsJob == Spec => ImplementsJob
<1>1. BaseInv /\ [Next]_vars => [Job!jobNext]_(Job!jobVars)
  <2>1. CASE BaseInv /\ Next
    BY <2>1, StepJob
  <2>2. CASE UNCHANGED vars
    <3>1. UNCHANGED coordinatorVars
      BY <2>2 DEF vars
    <3> QED BY <3>1, JobUnchanged
  <2> QED BY <2>1, <2>2
<1> QED BY <1>1, InitJob, SpecBase, PTL DEF Spec, ImplementsJob, Job!jobSpec

(***************************************************************************)
(* What reducers read and write.                                           *)
(***************************************************************************)
ReadOK(w) ==
  /\ pc[w] = "reduce" => job[w].files = MapFiles /\ coordinatorState # "Map"
  /\ pc[w] \in {"reduceCreate", "reduceWrite"} /\ ~job[w].skips => {f[1] : f \in job[w].files} = MapTids
ReadInv == (\A w \in Workers : ReadOK(w)) /\ OutputComplete

LEMMA ReadOthers ==
  ASSUME ReadInv, NEW w \in Workers, coordinatorState' = coordinatorState, mapTaskState' = mapTaskState,
         \A v \in Workers \ {w} : /\ pc'[v] = pc[v] /\ job'[v].files = job[v].files
                                  /\ job'[v].skips = job[v].skips,
         ReadOK(w)', OutputComplete'
  PROVE  ReadInv'
<1>1. MapFiles' = MapFiles
  BY DEF MapFiles
<1>2. ASSUME NEW v \in Workers \ {w} PROVE ReadOK(v)'
  BY <1>1 DEF ReadInv, ReadOK
<1> QED BY <1>2 DEF ReadInv

LEMMA OutputSet ==
  ASSUME TypeOK, OutputComplete, NEW r \in ReduceTids, NEW o, output' = [output EXCEPT ![r] = o],
         o.whole /\ ~o.skips => o.maps = MapTids
  PROVE  OutputComplete'
<1>1. output'[r] = o /\ \A k \in ReduceTids \ {r} : output'[k] = output[k]
  BY TypeParts
<1> QED BY <1>1 DEF OutputComplete

LEMMA MapFilesAll ==
  ASSUME TypeOK, LoopInv, ~InMap
  PROVE  /\ {f \in MapFiles : f[2] # 0} = MapFiles
         /\ {f[1] : f \in MapFiles} = MapTids
         /\ \A m \in MapTids : Cardinality({f \in MapFiles : f[1] = m}) = 1
<1>1. \A m \in MapTids : mapTaskState[m].file # 0
  BY LoopParts
<1>2. \A m, k : <<m, k>>[1] = m /\ <<m, k>>[2] = k
  BY SMT
<1>m. \A f \in MapFiles : \E m \in MapTids : f = <<m, mapTaskState[m].file>> /\ f[1] = m /\ f[2] # 0
  <2>1. \A m \in MapTids : <<m, mapTaskState[m].file>>[1] = m /\ <<m, mapTaskState[m].file>>[2] # 0
    BY <1>1, <1>2
  <2> QED BY <2>1 DEF MapFiles
<1>n. \A m \in MapTids : <<m, mapTaskState[m].file>> \in MapFiles
  BY DEF MapFiles
<1>3. {f \in MapFiles : f[2] # 0} = MapFiles
  BY <1>m
<1>4. {f[1] : f \in MapFiles} = MapTids
  <2>1. \A f \in MapFiles : f[1] \in MapTids
    BY <1>m
  <2>2. \A m \in MapTids : \E f \in MapFiles : f[1] = m
    BY <1>2, <1>n
  <2> QED BY <2>1, <2>2
<1>5. ASSUME NEW m \in MapTids PROVE Cardinality({f \in MapFiles : f[1] = m}) = 1
  <2>1. {f \in MapFiles : f[1] = m} = {<<m, mapTaskState[m].file>>}
    <3>1. <<m, mapTaskState[m].file>>[1] = m
      BY <1>2
    <3> QED BY <1>m, <1>n, <3>1
  <2> QED BY <2>1, FS_Singleton
<1> QED BY <1>3, <1>4, <1>5

LEMMA ReadReply ==
  ASSUME TypeOK, ReadInv, NEW w \in Workers, NEW loc, NEW j, Reply(w, loc, j),
         coordinatorState' = coordinatorState, mapTaskState' = mapTaskState, output' = output,
         loc \notin Reducing \/ (loc = "reduce" /\ j.files = MapFiles /\ coordinatorState # "Map")
  PROVE  ReadInv'
<1>1. /\ pc[w] = "crashed" => pc'[w] = "crashed"
      /\ pc[w] # "crashed" => pc'[w] = loc /\ job'[w] = j
      /\ \A v \in Workers \ {w} : pc'[v] = pc[v] /\ job'[v] = job[v]
  BY ReplyEffect
<1>2. ReadOK(w)'
  BY <1>1 DEF ReadOK, MapFiles, Reducing
<1>3. OutputComplete'
  BY DEF ReadInv, OutputComplete
<1> QED BY <1>1, <1>2, <1>3, ReadOthers

LEMMA ReadHandler ==
  ASSUME BaseInv, ReadInv, NEW w \in Workers, HandlerStep(w)
  PROVE  ReadInv'
<1>0. TypeOK /\ LoopInv /\ coordinatorState' = coordinatorState /\ mapTaskState' = mapTaskState /\ output' = output
  BY DEF BaseInv, HandlerStep, Dequeue, ReqTimeout, ReqAnswer, CompleteTask, coordinatorVars, fileVars
<1>1. CASE Dequeue(w)
  <2>1. pc' = pc /\ job' = job
    BY <1>1 DEF Dequeue, workerVars
  <2> QED BY <1>0, <2>1 DEF ReadInv, ReadOK, MapFiles, OutputComplete
<1>2. CASE Reply(w, "idle", NoJob)
  BY <1>0, <1>2, ReadReply DEF Reducing
<1>3. CASE ReqAnswer(w) /\ ~Reply(w, "idle", NoJob)
  <2>1. handler[w].op = "got"
    BY <1>3 DEF ReqAnswer
  <2>2. PICK t \in Tasks : t = handler[w].task
    BY <1>0, <2>1, TypeGroups, HandlerCases DEF HandlerType
  <2>3. t.type = coordinatorState /\ Hand(w, t)
    BY <1>3, <2>2 DEF ReqAnswer
  <2>4. CASE t.type = "Map"
    <3>1. Reply(w, "map", JobOf(t, {}))
      BY <2>3, <2>4 DEF Hand
    <3> QED BY <1>0, <3>1, ReadReply DEF Reducing
  <2>5. CASE t.type = "Reduce"
    <3>1. Reply(w, "reduce", JobOf(t, reduceTaskState[t.tid].files)) /\ t.tid \in ReduceTids
      BY <2>3, <2>5, TaskTypes DEF Hand
    <3>2. coordinatorState # "Map" /\ reduceTaskState[t.tid].files = MapFiles
      BY <1>0, <2>3, <2>5, <3>1 DEF LoopInv
    <3>3. JobOf(t, reduceTaskState[t.tid].files).files = reduceTaskState[t.tid].files
      BY JobTypes
    <3>4. JobOf(t, reduceTaskState[t.tid].files).files = MapFiles
      BY <3>2, <3>3
    <3> QED BY <1>0, <3>1, <3>2, <3>4, ReadReply
  <2> QED BY <2>4, <2>5, TaskTypes
<1> QED BY <1>1, <1>2, <1>3 DEF HandlerStep, ReqTimeout, CompleteTask

LEMMA ReadWorker ==
  ASSUME BaseInv, ReadInv, NEW w \in Workers, WorkerStep(w) \/ AttemptFails(w) \/ Crash(w)
  PROVE  ReadInv'
<1>0. /\ TypeOK /\ LoopInv /\ WorkOK(w) /\ ReadOK(w) /\ OutputComplete
      /\ coordinatorState' = coordinatorState /\ mapTaskState' = mapTaskState
  BY DEF BaseInv, WorkInv, ReadInv, WorkerStep, CallReqTask, CallFails, MapCreate, MapWrite, ReduceRead,
         ReduceCreate, ReduceWrite, AttemptFails, Crash, Outside, coordinatorVars
<1>1. ASSUME NEW loc, NEW j, Move(w, loc, j), OutputComplete',
             \/ loc \notin Reducing
             \/ loc = "reduceCreate" /\ (j.skips \/ {f[1] : f \in j.files} = MapTids)
      PROVE  ReadInv'
  <2>1. pc'[w] = loc /\ job'[w] = j /\ \A v \in Workers \ {w} : pc'[v] = pc[v] /\ job'[v] = job[v]
    BY <1>0, <1>1, MoveEffect
  <2>2. ReadOK(w)'
    BY <1>1, <2>1 DEF ReadOK, Reducing
  <2> QED BY <1>0, <1>1, <2>1, <2>2, ReadOthers
<1>2. CASE CallReqTask(w) \/ CallFails(w) \/ MapCreate(w) \/ MapWrite(w) \/ AttemptFails(w)
  <2>1. output' = output
    BY <1>2 DEF CallReqTask, CallFails, MapCreate, MapWrite, AttemptFails, fileVars
  <2>2. OutputComplete'
    BY <1>0, <2>1 DEF OutputComplete
  <2>3. PICK loc, j : Move(w, loc, j) /\ loc \notin Reducing
    <3>0. \A l \in {"asking", "exited", "mapWrite", "reporting", "idle"} : l \notin Reducing
      BY DEF Reducing
    <3>1. CASE CallReqTask(w)
      BY <3>0, <3>1 DEF CallReqTask
    <3>2. CASE CallFails(w)
      BY <3>0, <3>2 DEF CallFails
    <3>3. CASE MapCreate(w)
      BY <3>0, <3>3 DEF MapCreate
    <3>4. CASE MapWrite(w)
      BY <3>0, <3>4 DEF MapWrite, CallCompleteTask
    <3>5. CASE AttemptFails(w)
      BY <3>0, <3>5 DEF AttemptFails
    <3> QED BY <1>2, <3>1, <3>2, <3>3, <3>4, <3>5
  <2> QED BY <1>1, <2>2, <2>3
<1>3. CASE Crash(w)
  <2>1. Move(w, "crashed", NoJob)
    BY <1>3 DEF Crash
  <2>2. OutputComplete'
    <3>1. CASE output' = output
      BY <1>0, <3>1 DEF OutputComplete
    <3>2. CASE pc[w] = "reduceWrite" /\ output' = [output EXCEPT ![job[w].task.tid] = Partial]
      <4>1. job[w].task.tid \in ReduceTids
        BY <1>0, <3>2, TaskTypes DEF WorkOK, Reducing, ReduceTasks
      <4> QED BY <1>0, <3>2, <4>1, JobTypes, OutputSet
    <3> QED BY <1>3, <3>1, <3>2 DEF Crash
  <2> QED BY <1>1, <2>1, <2>2 DEF Reducing
<1>4. CASE ReduceRead(w)
  <2>1. pc[w] = "reduce" /\ output' = output
    BY <1>4 DEF ReduceRead, fileVars
  <2>2. OutputComplete'
    BY <1>0, <2>1 DEF OutputComplete
  <2>3. /\ job[w].files = MapFiles /\ {f \in MapFiles : f[2] # 0} = MapFiles
        /\ {f[1] : f \in MapFiles} = MapTids
    BY <1>0, <2>1, LoopParts, MapFilesAll DEF ReadOK
  <2>4. {f \in job[w].files : f[2] # 0} = MapFiles
    BY <2>3
  <2>5. PICK read \in SUBSET MapFiles :
          IF read \cap torn = {}
            THEN Move(w, "reduceCreate", [JobOf(job[w].task, read) EXCEPT !.skips = read # MapFiles])
            ELSE Move(w, "idle", NoJob)
    BY <1>4, <2>4 DEF ReduceRead
  <2>6. CASE Move(w, "idle", NoJob)
    BY <1>1, <2>2, <2>6 DEF Reducing
  <2>7. CASE Move(w, "reduceCreate", [JobOf(job[w].task, read) EXCEPT !.skips = read # MapFiles])
    <3>1. PICK j : j = [JobOf(job[w].task, read) EXCEPT !.skips = read # MapFiles]
      OBVIOUS
    <3>2. j.files = read /\ (j.skips <=> read # MapFiles)
      <4>1. j.files = read /\ j.skips = (read # MapFiles)
        BY <3>1, SMT DEF JobOf
      <4> QED BY <4>1
    <3>3. j.skips \/ {f[1] : f \in j.files} = MapTids
      BY <2>3, <3>2
    <3>4. Move(w, "reduceCreate", j)
      BY <2>7, <3>1
    <3> QED BY <1>1, <2>2, <3>3, <3>4
  <2> QED BY <2>5, <2>6, <2>7
<1>5. CASE ReduceCreate(w)
  <2>1. pc[w] = "reduceCreate" /\ output' = [output EXCEPT ![job[w].task.tid] = Partial]
    BY <1>5 DEF ReduceCreate
  <2>2. job[w].task.tid \in ReduceTids
    BY <1>0, <2>1, TaskTypes DEF WorkOK, Reducing, ReduceTasks
  <2>3. OutputComplete'
    BY <1>0, <2>1, <2>2, JobTypes, OutputSet
  <2>4. /\ pc'[w] = "reduceWrite" /\ \A v \in Workers \ {w} : pc'[v] = pc[v]
        /\ \A v \in Workers : job'[v].files = job[v].files /\ job'[v].skips = job[v].skips
    BY <1>0, <1>5, CreateEffect
  <2>5. ReadOK(w)'
    BY <1>0, <2>1, <2>4 DEF ReadOK
  <2> QED BY <1>0, <2>3, <2>4, <2>5, ReadOthers
<1>6. CASE ReduceWrite(w)
  <2>1. pc[w] = "reduceWrite" /\ Move(w, "reporting", JobOf(job[w].task, {}))
    BY <1>6 DEF ReduceWrite, CallCompleteTask
  <2>2. PICK o \in Written(w) : output' = [output EXCEPT ![job[w].task.tid] = o]
    BY <1>6 DEF ReduceWrite
  <2>3. job[w].task.tid \in ReduceTids
    BY <1>0, <2>1, TaskTypes DEF WorkOK, Reducing, ReduceTasks
  <2>4. o.whole /\ ~o.skips => o.maps = MapTids
    <3>1. \/ o = Partial
          \/ o = [whole |-> TRUE, maps |-> {f[1] : f \in job[w].files}, skips |-> job[w].skips]
      BY <2>2 DEF Written
    <3>2. CASE o = Partial
      BY <3>2, JobTypes
    <3>3. CASE o = [whole |-> TRUE, maps |-> {f[1] : f \in job[w].files}, skips |-> job[w].skips]
      <4>1. o.maps = {f[1] : f \in job[w].files} /\ o.skips = job[w].skips
        BY <3>3, SMT
      <4> QED BY <1>0, <2>1, <4>1 DEF ReadOK
    <3> QED BY <3>1, <3>2, <3>3
  <2>5. OutputComplete'
    BY <1>0, <2>2, <2>3, <2>4, OutputSet
  <2> QED BY <1>1, <2>1, <2>5 DEF Reducing
<1> QED BY <1>2, <1>3, <1>4, <1>5, <1>6 DEF WorkerStep

LEMMA ReadStep == ASSUME BaseInv, ReadInv, Next PROVE ReadInv'
<1>0. TypeOK /\ LoopInv
  BY DEF BaseInv
<1>s. ASSUME pc' = pc, job' = job, output' = output, mapTaskState' = mapTaskState,
             coordinatorState # "Map" => coordinatorState' # "Map"
      PROVE  ReadInv'
  BY <1>s DEF ReadInv, ReadOK, MapFiles, OutputComplete
<1>1. CASE StrayCompletion \/ Exit \/ Finished \/ \E t \in Tasks : TimerFires(t) \/ TimerSends(t)
  <2>1. pc' = pc /\ job' = job /\ output' = output /\ mapTaskState' = mapTaskState
        /\ coordinatorState' = coordinatorState
    BY <1>1 DEF StrayCompletion, Exit, Finished, vars, TimerFires, TimerSends, coordinatorVars, workerVars, fileVars
  <2> QED BY <1>s, <2>1
<1>2. CASE MainLoop /\ ~MapRecord
  <2>1. pc' = pc /\ job' = job /\ output' = output /\ mapTaskState' = mapTaskState
    BY <1>2 DEF MainLoop, MapRecv, Requeue, SpawnBegins, SpawnReduce, SpawnEnds, ReduceRecv, ReduceRecord,
                MarkDone, Receive, coordinatorVars, workerVars, fileVars
  <2>2. coordinatorState # "Map" => coordinatorState' # "Map"
    BY <1>2 DEF MainLoop, MapRecv, Requeue, SpawnBegins, SpawnReduce, SpawnEnds, ReduceRecv, ReduceRecord,
                MarkDone, Receive, coordinatorVars
  <2> QED BY <1>s, <2>1, <2>2
<1>3. CASE MapRecord
  <2>1. pc' = pc /\ job' = job /\ output' = output /\ mrPc = "mapRecord"
    BY <1>3 DEF MapRecord, workerVars, fileVars
  <2>2. coordinatorState = "Map"
    BY <1>0, <2>1 DEF LoopInv, InMap
  <2>3. ASSUME NEW w \in Workers PROVE ReadOK(w)'
    BY <2>1, <2>2 DEF ReadInv, ReadOK
  <2>4. OutputComplete'
    BY <2>1 DEF ReadInv, OutputComplete
  <2> QED BY <2>3, <2>4 DEF ReadInv
<1>4. CASE \E w \in Workers : HandlerStep(w)
  BY <1>4, ReadHandler
<1>5. CASE \E w \in Workers : WorkerStep(w) \/ AttemptFails(w) \/ Crash(w)
  BY <1>5, ReadWorker
<1> QED BY <1>1, <1>2, <1>3, <1>4, <1>5 DEF Next

LEMMA InitRead == Init => ReadInv
<1> SUFFICES ASSUME Init PROVE ReadInv
  OBVIOUS
<1>1. \A w \in Workers : pc[w] = "idle"
  BY DEF Init
<1>2. \A r \in ReduceTids : output[r] = Partial
  BY DEF Init
<1> QED BY <1>1, <1>2, JobTypes DEF ReadInv, ReadOK, OutputComplete

LEMMA ReadUnchanged == ASSUME ReadInv, UNCHANGED vars PROVE ReadInv'
BY DEF ReadInv, ReadOK, MapFiles, OutputComplete, vars, coordinatorVars, workerVars, fileVars

LEMMA SpecRead == Spec => []ReadInv
<1>1. BaseInv /\ ReadInv /\ [Next]_vars => ReadInv'
  BY ReadStep, ReadUnchanged
<1> QED BY <1>1, InitRead, SpecBase, PTL DEF Spec

\* OutputComplete (worker.go:98-106): an output file that is whole, and whose
\* reducer could read every file it was given, has the data of every map task,
\* whoever crashes, is late or reports anything.
THEOREM OutputIsComplete == Spec => []OutputComplete
<1>1. ReadInv => OutputComplete
  BY DEF ReadInv
<1> QED BY <1>1, SpecRead, PTL

(***************************************************************************)
(* The intermediate files.  Nobody but a worker completes a task of the    *)
(* job: a completion from elsewhere is of a task there is none of.         *)
(***************************************************************************)
NoForgery == \A args \in Strays : args.task \notin Tasks

\* A completion on its way to mapReduce.
Carried(c) == c = result \/ In(completionQueue, c) \/ \E w \in Workers : handler[w] = Completing(c)

LEMMA CarriedReply ==
  ASSUME TypeOK, NEW w \in Workers, NEW loc, NEW j, Reply(w, loc, j), result' = result,
         completionQueue' = completionQueue
  PROVE  \A c : Carried(c)' => Carried(c)
<1>1. handler'[w] = Idle /\ \A v \in Workers \ {w} : handler'[v] = handler[v]
  BY ReplyEffect
<1>2. \A c : handler'[w] # Completing(c)
  BY <1>1, HandlerTypes
<1> QED BY <1>1, <1>2 DEF Carried

LEMMA CarriedHandler ==
  ASSUME TypeOK, NEW w \in Workers, HandlerStep(w)
  PROVE  \A c : Carried(c)' => Carried(c)
<1>1. CASE Dequeue(w)
  <2>1. /\ handler' = [handler EXCEPT ![w] = Got(Head(taskQueue))]
        /\ completionQueue' = completionQueue /\ result' = result
    BY <1>1 DEF Dequeue, loopVars
  <2>2. /\ handler'[w] = Got(Head(taskQueue)) /\ \A v \in Workers \ {w} : handler'[v] = handler[v]
    BY <2>1, TypeGroups DEF HandlerType
  <2>3. \A c : handler'[w] # Completing(c)
    <3>1. handler'[w].op = "got"
      BY <2>2, HandlerTypes
    <3> QED BY <3>1, HandlerTypes
  <2> QED BY <2>1, <2>2, <2>3 DEF Carried
<1>2. CASE ReqTimeout(w) \/ ReqAnswer(w)
  <2>1. completionQueue' = completionQueue /\ result' = result
    BY <1>2 DEF ReqTimeout, ReqAnswer, queueVars, loopVars
  <2>2. PICK loc, j : Reply(w, loc, j)
    BY <1>2 DEF ReqTimeout, ReqAnswer, Hand
  <2> QED BY <2>1, <2>2, CarriedReply
<1>3. CASE CompleteTask(w)
  <2>1. /\ Reply(w, "idle", NoJob) /\ handler[w].op = "CompleteTask" /\ result' = result
        /\ completionQueue' = Append(completionQueue, handler[w].args)
    BY <1>3 DEF CompleteTask, loopVars
  <2>2. PICK a \in Completions : a = handler[w].args /\ handler[w] = Completing(a)
    BY <2>1, TypeGroups, HandlerCases DEF HandlerType
  <2>3. handler'[w] = Idle /\ \A v \in Workers \ {w} : handler'[v] = handler[v]
    BY <2>1, ReplyEffect
  <2>4. \A c : handler'[w] # Completing(c)
    BY <2>3, HandlerTypes
  <2>5. completionQueue \in Seq(Completions) /\ completionQueue' = Append(completionQueue, a)
    BY <2>1, <2>2, TypeParts
  <2>6. \A c : In(completionQueue', c) <=> In(completionQueue, c) \/ c = a
    BY <2>5, InAppend
  <2> QED BY <2>1, <2>2, <2>3, <2>4, <2>6 DEF Carried
<1> QED BY <1>1, <1>2, <1>3 DEF HandlerStep

LEMMA CarriedLoop ==
  ASSUME TypeOK, MainLoop
  PROVE  /\ \A c : Carried(c)' => Carried(c) \/ c = NoResult
         /\ Carried(result)
<1>0. handler' = handler
  BY DEF MainLoop, MapRecv, Requeue, MapRecord, SpawnBegins, SpawnReduce, SpawnEnds, ReduceRecv,
         ReduceRecord, MarkDone, Receive
<1>1. CASE MapRecv \/ ReduceRecv
  <2>1. /\ completionQueue # << >> /\ completionQueue' = Tail(completionQueue)
        /\ result' = result \/ result' = Head(completionQueue)
    BY <1>1 DEF MapRecv, ReduceRecv, Receive
  <2>2. completionQueue \in Seq(Completions)
    BY TypeParts
  <2>3. \A c : In(completionQueue, c) <=> In(completionQueue', c) \/ c = Head(completionQueue)
    BY <2>1, <2>2, InTail
  <2> QED BY <1>0, <2>1, <2>3 DEF Carried
<1>2. CASE ~MapRecv /\ ~ReduceRecv
  <2>1. completionQueue' = completionQueue /\ (result' = result \/ result' = NoResult)
    BY <1>2 DEF MainLoop, Requeue, MapRecord, SpawnBegins, SpawnReduce, SpawnEnds, ReduceRecord, MarkDone, queueVars
  <2> QED BY <1>0, <2>1 DEF Carried
<1> QED BY <1>1, <1>2

LEMMA CarriedMove ==
  ASSUME TypeOK, NEW w \in Workers, Outside, handler' = handler \/ Call(w, Waiting)
  PROVE  \A c : Carried(c)' => Carried(c)
<1>0. completionQueue' = completionQueue /\ result' = result
  BY DEF Outside, queueVars, loopVars
<1>1. CASE handler' = handler
  BY <1>0, <1>1 DEF Carried
<1>2. CASE handler' # handler
  <2>1. handler'[w] = Waiting /\ \A v \in Workers \ {w} : handler'[v] = handler[v]
    BY <1>2, CallEffect
  <2>2. \A c : handler'[w] # Completing(c)
    BY <2>1, HandlerTypes
  <2> QED BY <1>0, <2>1, <2>2 DEF Carried
<1> QED BY <1>1, <1>2

LEMMA CarriedCall ==
  ASSUME TypeOK, NEW w \in Workers, Outside, NEW f, CallCompleteTask(w, f)
  PROVE  \A c : Carried(c)' => Carried(c) \/ (up /\ c = Completion(job[w].task, f))
<1>0. completionQueue' = completionQueue /\ result' = result
  BY DEF Outside, queueVars, loopVars
<1>1. Call(w, Completing(Completion(job[w].task, f)))
  BY DEF CallCompleteTask
<1>2. CASE ~up
  <2>1. handler' = handler
    BY <1>1, <1>2, CallEffect
  <2> QED BY <1>0, <2>1 DEF Carried
<1>3. CASE up
  <2>0. PICK a : a = Completion(job[w].task, f)
    OBVIOUS
  <2>1. handler'[w] = Completing(a) /\ \A v \in Workers \ {w} : handler'[v] = handler[v]
    BY <1>1, <1>3, <2>0, CallEffect
  <2>2. \A c : handler'[w] = Completing(c) => c = a
    BY <2>1, SMT DEF Completing
  <2>3. \A c : Carried(c)' => Carried(c) \/ c = a
    BY <1>0, <2>1, <2>2 DEF Carried
  <2> QED BY <1>3, <2>0, <2>3
<1> QED BY <1>2, <1>3

LEMMA CarriedExit ==
  ASSUME Exit PROVE \A c : Carried(c)' => Carried(c)
<1>1. handler' = [w \in Workers |-> Idle] /\ completionQueue' = << >> /\ result' = result
  BY DEF Exit, loopVars
<1>2. \A c : ~In(completionQueue', c)
  BY <1>1, SMT DEF In
<1>3. \A w \in Workers : \A c : handler'[w] # Completing(c)
  BY <1>1, HandlerTypes
<1> QED BY <1>1, <1>2, <1>3 DEF Carried

LEMMA CarriedStray ==
  ASSUME TypeOK, StrayCompletion PROVE \A c : Carried(c)' => Carried(c) \/ c \in Strays
<1>1. handler' = handler /\ result' = result
  BY DEF StrayCompletion, loopVars
<1>2. PICK a \in Strays : completionQueue' = Append(completionQueue, a)
  BY DEF StrayCompletion
<1>3. completionQueue \in Seq(Completions) /\ a \in Completions
  BY TypeParts DEF Completions
<1>4. \A c : In(completionQueue', c) <=> In(completionQueue, c) \/ c = a
  BY <1>2, <1>3, InAppend
<1> QED BY <1>1, <1>4 DEF Carried

\* The files of a recorded or reported map attempt are whole.
TornInv ==
  /\ mrPc # "requeue"
  /\ \A m \in MapTids : <<m, mapTaskState[m].file>> \notin torn
  /\ \A c : Carried(c) /\ c.task \in MapTasks => c.files # 0 /\ <<c.task.tid, c.files>> \notin torn
  /\ \A w \in Workers : pc[w] = "mapWrite" => job[w].attempt # 0

LEMMA TornKept ==
  ASSUME TornInv, mrPc' # "requeue", mapTaskState' = mapTaskState, torn' \subseteq torn,
         \A c : Carried(c)' => Carried(c) \/ c.task \notin MapTasks,
         \A w \in Workers : pc'[w] = "mapWrite" => job'[w].attempt # 0
  PROVE  TornInv'
BY DEF TornInv

LEMMA TornHandler ==
  ASSUME TypeOK, TornInv, NEW w \in Workers, HandlerStep(w)
  PROVE  TornInv'
<1>1. mrPc' = mrPc /\ mapTaskState' = mapTaskState /\ torn' = torn
  BY DEF HandlerStep, Dequeue, ReqTimeout, ReqAnswer, CompleteTask, loopVars, coordinatorVars, fileVars
<1>2. ASSUME NEW v \in Workers, pc'[v] = "mapWrite" PROVE job'[v].attempt # 0
  <2>1. CASE pc' = pc /\ job' = job
    BY <1>2, <2>1 DEF TornInv
  <2>2. CASE ~(pc' = pc /\ job' = job)
    <3>0. "idle" # "mapWrite" /\ "map" # "mapWrite" /\ "reduce" # "mapWrite"
      OBVIOUS
    <3>1. PICK loc, j : Reply(w, loc, j) /\ loc # "mapWrite"
      BY <2>2, <3>0 DEF HandlerStep, Dequeue, workerVars, ReqTimeout, ReqAnswer, Hand, CompleteTask
    <3>2. /\ pc[w] = "crashed" => pc'[w] = "crashed"
          /\ pc[w] # "crashed" => pc'[w] = loc
          /\ \A u \in Workers \ {w} : pc'[u] = pc[u] /\ job'[u] = job[u]
      BY <3>1, ReplyEffect
    <3>3. v # w
      BY <1>2, <3>1, <3>2
    <3> QED BY <1>2, <3>2, <3>3 DEF TornInv
  <2> QED BY <2>1, <2>2
<1>3. mrPc' # "requeue"
  BY <1>1 DEF TornInv
<1>4. \A c : Carried(c)' => Carried(c)
  BY CarriedHandler
<1> QED BY <1>1, <1>2, <1>3, <1>4, TornKept

LEMMA TornLoop ==
  ASSUME TypeOK, LoopInv, TornInv, MainLoop
  PROVE  TornInv'
<1>0. pc' = pc /\ job' = job /\ torn' = torn
  BY DEF MainLoop, MapRecv, Requeue, MapRecord, SpawnBegins, SpawnReduce, SpawnEnds, ReduceRecv,
         ReduceRecord, MarkDone, Receive, workerVars, fileVars
<1>1. \A w \in Workers : pc'[w] = "mapWrite" => job'[w].attempt # 0
  BY <1>0 DEF TornInv
<1>2. \A c : Carried(c)' => Carried(c) \/ c.task \notin MapTasks
  <2>1. NoResult.task \notin MapTasks
    BY TaskTypes, CompletionTypes DEF MapTasks
  <2> QED BY <2>1, CarriedLoop
<1>3. CASE MapRecv
  <2>1. completionQueue # << >> /\ mapTaskState' = mapTaskState /\ mrPc = "mapRecv"
    BY <1>3 DEF MapRecv, Receive, coordinatorVars
  <2>2. PICK args \in Completions : args = Head(completionQueue)
    BY <2>1, TypeParts, QueueTypes
  <2>3. Carried(args)
    <3>1. In(completionQueue, Head(completionQueue))
      BY <2>1, TypeParts, InTail
    <3> QED BY <2>2, <3>1 DEF Carried
  <2>4. args.task.type = "Map" /\ args.task.tid \in MapTids => args.files # 0
    BY <2>3, StrayTypes DEF TornInv, MapTasks
  <2>5. mrPc' # "requeue"
    <3>1. mrPc' = mrPc \/ mrPc' = "mapRecord"
      BY <1>3, <2>2, <2>4 DEF MapRecv
    <3> QED BY <2>1, <3>1
  <2> QED BY <1>0, <1>1, <1>2, <2>1, <2>5, TornKept
<1>4. CASE MapRecord
  <2>1. mrPc = "mapRecord" /\ mrPc' = "mapRecv"
    BY <1>4 DEF MapRecord
  <2>m. PICK m \in MapTids : m = result.task.tid
    BY <2>1, TaskTypes DEF LoopInv, MapTasks
  <2>2. \/ mapTaskState' = mapTaskState
        \/ mapTaskState' = [mapTaskState EXCEPT ![m] = [done |-> TRUE, file |-> result.files]]
    BY <1>4, <2>m DEF MapRecord
  <2>3. CASE mapTaskState' = mapTaskState
    BY <1>0, <1>1, <1>2, <2>1, <2>3, TornKept
  <2>4. CASE mapTaskState' = [mapTaskState EXCEPT ![m] = [done |-> TRUE, file |-> result.files]]
    <3>1. /\ \A k \in MapTids \ {m} : mapTaskState'[k] = mapTaskState[k]
          /\ mapTaskState'[m].file = result.files
      BY <2>4, TypeParts, SMT
    <3>2. <<m, result.files>> \notin torn
      <4>1. result.task \in MapTasks
        BY <2>1 DEF LoopInv
      <4>2. Carried(result)
        BY DEF Carried
      <4> QED BY <2>m, <4>1, <4>2 DEF TornInv
    <3>3. \A k \in MapTids : <<k, mapTaskState'[k].file>> \notin torn
      BY <3>1, <3>2 DEF TornInv
    <3> QED BY <1>0, <1>1, <1>2, <2>1, <3>3 DEF TornInv
  <2> QED BY <2>2, <2>3, <2>4
<1>5. CASE ~MapRecv /\ ~MapRecord
  <2>1. mapTaskState' = mapTaskState
    BY <1>5 DEF MainLoop, Requeue, SpawnBegins, SpawnReduce, SpawnEnds, ReduceRecv, ReduceRecord, MarkDone,
                Receive, coordinatorVars
  <2>2. mrPc' # "requeue"
    <3>1. mrPc' = mrPc \/ mrPc' \in {"mapRecv", "spawn", "reduceRecv", "reduceRecord", "end"}
      BY <1>5 DEF MainLoop, Requeue, SpawnBegins, SpawnReduce, SpawnEnds, ReduceRecv, ReduceRecord, MarkDone
    <3> QED BY <3>1 DEF TornInv
  <2> QED BY <1>0, <1>1, <1>2, <2>1, <2>2, TornKept
<1> QED BY <1>3, <1>4, <1>5

LEMMA CarriedReferenced ==
  ASSUME TypeOK, NEW c, Carried(c), NEW m \in MapTids, c.task \in MapTasks, c.task.tid = m
  PROVE  c.files \in Referenced(m)
<1>1. c.task = Task("Map", m)
  BY TaskTypes DEF MapTasks
<1>2. c = result \/ (\E i \in DOMAIN completionQueue : completionQueue[i] = c)
                 \/ \E v \in Workers : handler[v].op = "CompleteTask" /\ handler[v].args = c
  <2>1. In(completionQueue, c) => \E i \in DOMAIN completionQueue : completionQueue[i] = c
    <3>1. DOMAIN completionQueue = 1..Len(completionQueue)
      BY TypeParts, SMT
    <3> QED BY <3>1 DEF In
  <2>2. \A v \in Workers : handler[v] = Completing(c) => handler[v].op = "CompleteTask" /\ handler[v].args = c
    BY HandlerTypes
  <2> QED BY <2>1, <2>2 DEF Carried
<1> QED BY <1>1, <1>2 DEF Referenced

LEMMA TornWorker ==
  ASSUME TypeOK, WorkInv, TornInv, NEW w \in Workers, WorkerStep(w) \/ AttemptFails(w) \/ Crash(w)
  PROVE  TornInv'
<1>o. Outside
  BY DEF WorkerStep, CallReqTask, CallFails, MapCreate, MapWrite, ReduceRead, ReduceCreate,
         ReduceWrite, AttemptFails, Crash
<1>0. mrPc' = mrPc /\ mapTaskState' = mapTaskState /\ mrPc' # "requeue"
  BY <1>o DEF Outside, loopVars, coordinatorVars, TornInv
<1>w. WorkOK(w)
  BY DEF WorkInv
<1>1. ASSUME NEW loc, NEW j, Move(w, loc, j), loc # "mapWrite", torn' \subseteq torn,
             \A c : Carried(c)' => Carried(c) \/ c.task \notin MapTasks
      PROVE  TornInv'
  <2>1. pc'[w] = loc /\ \A v \in Workers \ {w} : pc'[v] = pc[v] /\ job'[v] = job[v]
    BY <1>1, MoveEffect
  <2>2. \A v \in Workers : pc'[v] = "mapWrite" => job'[v].attempt # 0
    BY <1>1, <2>1 DEF TornInv
  <2> QED BY <1>0, <1>1, <2>2, TornKept
<1>2. CASE CallReqTask(w) \/ CallFails(w) \/ ReduceRead(w) \/ AttemptFails(w) \/ Crash(w)
  <2>1. torn' = torn
    BY <1>2 DEF CallReqTask, CallFails, ReduceRead, AttemptFails, Crash, fileVars
  <2>2. handler' = handler \/ Call(w, Waiting)
    BY <1>2 DEF CallReqTask, CallFails, ReduceRead, AttemptFails, Crash
  <2>3. PICK loc, j : Move(w, loc, j) /\ loc # "mapWrite"
    <3>0. \A l \in {"asking", "exited", "reduceCreate", "idle", "crashed"} : l # "mapWrite"
      OBVIOUS
    <3>1. CASE CallReqTask(w)
      BY <3>0, <3>1 DEF CallReqTask
    <3>2. CASE CallFails(w)
      BY <3>0, <3>2 DEF CallFails
    <3>3. CASE ReduceRead(w)
      BY <3>0, <3>3 DEF ReduceRead
    <3>4. CASE AttemptFails(w)
      BY <3>0, <3>4 DEF AttemptFails
    <3>5. CASE Crash(w)
      BY <3>0, <3>5 DEF Crash
    <3> QED BY <1>2, <3>1, <3>2, <3>3, <3>4, <3>5
  <2>4. \A c : Carried(c)' => Carried(c)
    BY <1>o, <2>2, CarriedMove
  <2> QED BY <1>1, <2>1, <2>3, <2>4
<1>3. CASE ReduceCreate(w)
  <2>1. torn' = torn /\ handler' = handler
    BY <1>3 DEF ReduceCreate
  <2>2. /\ pc'[w] = "reduceWrite" /\ \A v \in Workers \ {w} : pc'[v] = pc[v]
        /\ \A v \in Workers : job'[v].attempt = job[v].attempt
    BY <1>3, CreateEffect
  <2>3. \A v \in Workers : pc'[v] = "mapWrite" => job'[v].attempt # 0
    BY <2>2 DEF TornInv
  <2>4. \A c : Carried(c)' => Carried(c)
    BY <1>o, <2>1, CarriedMove
  <2> QED BY <1>0, <2>1, <2>3, <2>4, TornKept
<1>4. CASE ReduceWrite(w)
  <2>1. pc[w] = "reduceWrite" /\ torn' = torn /\ CallCompleteTask(w, 0)
    BY <1>4 DEF ReduceWrite
  <2>2. job[w].task \notin MapTasks
    BY <1>w, <2>1 DEF WorkOK, Reducing, MapTasks, ReduceTasks
  <2>3. \A c : Carried(c)' => Carried(c) \/ c = Completion(job[w].task, 0)
    BY <1>o, <2>1, CarriedCall
  <2>4. \A c : Carried(c)' => Carried(c) \/ c.task \notin MapTasks
    <3>1. Completion(job[w].task, 0).task \notin MapTasks
      BY <2>2, CompletionTypes
    <3> QED BY <2>3, <3>1
  <2>5. Move(w, "reporting", JobOf(job[w].task, {}))
    BY <2>1 DEF CallCompleteTask
  <2> QED BY <1>1, <2>1, <2>4, <2>5
<1>5. CASE MapWrite(w)
  <2>1. /\ pc[w] = "mapWrite" /\ CallCompleteTask(w, job[w].attempt)
        /\ torn' = torn \ {<<job[w].task.tid, job[w].attempt>>}
    BY <1>5 DEF MapWrite
  <2>2. Move(w, "reporting", JobOf(job[w].task, {}))
    BY <2>1 DEF CallCompleteTask
  <2>3. pc'[w] = "reporting" /\ \A v \in Workers \ {w} : pc'[v] = pc[v] /\ job'[v] = job[v]
    BY <2>2, MoveEffect
  <2>4. \A v \in Workers : pc'[v] = "mapWrite" => job'[v].attempt # 0
    BY <2>3 DEF TornInv
  <2>5. \A c : Carried(c)' => Carried(c) \/ c = Completion(job[w].task, job[w].attempt)
    BY <1>o, <2>1, CarriedCall
  <2>6. ASSUME NEW c, Carried(c)', c.task \in MapTasks PROVE c.files # 0 /\ <<c.task.tid, c.files>> \notin torn'
    <3>1. CASE Carried(c)
      BY <2>1, <2>6, <3>1 DEF TornInv
    <3>2. CASE c = Completion(job[w].task, job[w].attempt)
      <4>1. c.task = job[w].task /\ c.files = job[w].attempt
        BY <3>2, CompletionTypes
      <4> QED BY <2>1, <4>1 DEF TornInv
    <3> QED BY <2>5, <2>6, <3>1, <3>2
  <2>7. \A m \in MapTids : <<m, mapTaskState'[m].file>> \notin torn'
    BY <1>0, <2>1 DEF TornInv
  <2> QED BY <1>0, <2>4, <2>6, <2>7 DEF TornInv
<1>6. CASE MapCreate(w)
  <2>1. pc[w] = "map" /\ handler' = handler
    BY <1>6 DEF MapCreate
  <2>t. job[w].task \in MapTasks /\ job[w] \in Jobs
    BY <1>w, <2>1, TypeParts DEF WorkOK, Mapping
  <2>m. PICK m \in MapTids : m = job[w].task.tid
    BY <2>t, TaskTypes DEF MapTasks
  <2>n. PICK n : n = UniqueName(m)
    OBVIOUS
  <2>2. Move(w, "mapWrite", [job[w] EXCEPT !.attempt = n]) /\ torn' = torn \cup {<<m, n>>}
    BY <1>6, <2>m, <2>n DEF MapCreate
  <2>3. n # 0 /\ n \notin Referenced(m)
    BY <2>n, UniqueNameFree
  <2>4. pc'[w] = "mapWrite" /\ job'[w].attempt = n /\ \A v \in Workers \ {w} : pc'[v] = pc[v] /\ job'[v] = job[v]
    <3>0. PICK j : j = [job[w] EXCEPT !.attempt = n]
      OBVIOUS
    <3>1. j.attempt = n
      BY <2>t, <3>0, SMT DEF Jobs
    <3>2. Move(w, "mapWrite", j)
      BY <2>2, <3>0
    <3>3. /\ pc'[w] = "mapWrite" /\ job'[w] = j
          /\ \A v \in Workers \ {w} : pc'[v] = pc[v] /\ job'[v] = job[v]
      BY <3>2, MoveEffect
    <3> QED BY <3>1, <3>3
  <2>5. \A v \in Workers : pc'[v] = "mapWrite" => job'[v].attempt # 0
    BY <2>3, <2>4 DEF TornInv
  <2>6. \A c : Carried(c)' => Carried(c)
    BY <1>o, <2>1, CarriedMove
  <2>7. \A k, x : <<k, x>> = <<m, n>> => k = m /\ x = n
    BY SMT
  <2>8. ASSUME NEW k \in MapTids PROVE <<k, mapTaskState'[k].file>> \notin torn'
    <3>1. k = m => mapTaskState[k].file # n
      BY <2>3 DEF Referenced
    <3> QED BY <1>0, <2>2, <2>7, <3>1 DEF TornInv
  <2>9. ASSUME NEW c, Carried(c)', c.task \in MapTasks PROVE c.files # 0 /\ <<c.task.tid, c.files>> \notin torn'
    <3>1. Carried(c)
      BY <2>6, <2>9
    <3>2. c.files # 0 /\ <<c.task.tid, c.files>> \notin torn
      BY <2>9, <3>1 DEF TornInv
    <3>3. c.task.tid = m => c.files \in Referenced(m)
      BY <2>9, <3>1, CarriedReferenced
    <3> QED BY <2>2, <2>3, <2>7, <3>2, <3>3
  <2> QED BY <1>0, <2>5, <2>8, <2>9 DEF TornInv
<1> QED BY <1>2, <1>3, <1>4, <1>5, <1>6 DEF WorkerStep

LEMMA TornStep == ASSUME NoForgery, BaseInv, TornInv, Next PROVE TornInv'
<1>0. TypeOK /\ LoopInv /\ WorkInv
  BY DEF BaseInv
<1>1. CASE StrayCompletion \/ Exit \/ Finished \/ \E t \in Tasks : TimerFires(t) \/ TimerSends(t)
  <2>1. pc' = pc /\ job' = job /\ torn' = torn /\ mapTaskState' = mapTaskState /\ mrPc' = mrPc
    BY <1>1 DEF StrayCompletion, Exit, Finished, vars, TimerFires, TimerSends, coordinatorVars, workerVars,
                fileVars, loopVars
  <2>2. \A c : Carried(c)' => Carried(c) \/ c.task \notin MapTasks
    <3>1. CASE StrayCompletion
      <4>1. \A c \in Strays : c.task \notin MapTasks
        BY DEF NoForgery, MapTasks
      <4> QED BY <1>0, <3>1, <4>1, CarriedStray
    <3>2. CASE Exit
      BY <3>2, CarriedExit
    <3>3. CASE Finished \/ \E t \in Tasks : TimerFires(t) \/ TimerSends(t)
      <4>1. handler' = handler /\ completionQueue' = completionQueue /\ result' = result
        BY <3>3 DEF Finished, vars, TimerFires, TimerSends, loopVars, queueVars
      <4> QED BY <4>1 DEF Carried
    <3> QED BY <1>1, <3>1, <3>2, <3>3
  <2>3. mrPc' # "requeue" /\ \A w \in Workers : pc'[w] = "mapWrite" => job'[w].attempt # 0
    BY <2>1 DEF TornInv
  <2> QED BY <2>1, <2>2, <2>3, TornKept
<1>2. CASE MainLoop
  BY <1>0, <1>2, TornLoop
<1>3. CASE \E w \in Workers : HandlerStep(w)
  BY <1>0, <1>3, TornHandler
<1>4. CASE \E w \in Workers : WorkerStep(w) \/ AttemptFails(w) \/ Crash(w)
  BY <1>0, <1>4, TornWorker
<1> QED BY <1>1, <1>2, <1>3, <1>4 DEF Next

LEMMA InitTorn == Init => TornInv
<1> SUFFICES ASSUME Init PROVE TornInv
  OBVIOUS
<1>1. mrPc = "mapRecv" /\ torn = {} /\ result = NoResult /\ completionQueue = << >>
  BY DEF Init
<1>2. \A w \in Workers : pc[w] = "idle" /\ handler[w] = Idle
  BY DEF Init
<1>3. \A c : Carried(c) => c = NoResult
  <2>1. \A c : ~In(completionQueue, c)
    BY <1>1, SMT DEF In
  <2>2. \A c : \A w \in Workers : handler[w] # Completing(c)
    BY <1>2, HandlerTypes
  <2> QED BY <1>1, <2>1, <2>2 DEF Carried
<1>4. NoResult.task \notin MapTasks
  BY TaskTypes, CompletionTypes DEF MapTasks
<1> QED BY <1>1, <1>2, <1>3, <1>4 DEF TornInv

LEMMA TornUnchanged == ASSUME TornInv, UNCHANGED vars PROVE TornInv'
BY DEF TornInv, Carried, vars, coordinatorVars, workerVars, fileVars, loopVars, queueVars

LEMMA SpecTorn == ASSUME NoForgery PROVE Spec => []TornInv
<1>1. BaseInv /\ TornInv /\ [Next]_vars => TornInv'
  BY TornStep, TornUnchanged
<1> QED BY <1>1, InitTorn, SpecBase, PTL DEF Spec

\* ReduceInputsWhole (worker.go:36): a reducer gets the files of one attempt at
\* every map task, and none is half written, however many attempts at the same
\* task are under way and whoever crashes.
THEOREM ReduceInputsAreWhole == ASSUME NoForgery PROVE Spec => []ReduceInputsWhole
<1>1. BaseInv /\ ReadInv /\ TornInv => ReduceInputsWhole
  <2> SUFFICES ASSUME BaseInv, ReadInv, TornInv, NEW w \in Workers, pc[w] = "reduce"
               PROVE  /\ \A m \in MapTids : Cardinality({f \in job[w].files : f[1] = m}) = 1
                      /\ job[w].files \cap torn = {}
    BY DEF ReduceInputsWhole
  <2>1. job[w].files = MapFiles /\ TypeOK /\ LoopInv /\ ~InMap
    <3>1. TypeOK /\ LoopInv /\ ReadOK(w)
      BY DEF BaseInv, ReadInv
    <3> QED BY <3>1, LoopParts DEF ReadOK
  <2>2. \A m \in MapTids : Cardinality({f \in MapFiles : f[1] = m}) = 1
    BY <2>1, MapFilesAll
  <2>3. MapFiles \cap torn = {}
    BY DEF TornInv, MapFiles
  <2> QED BY <2>1, <2>2, <2>3
<1> QED BY <1>1, SpecBase, SpecRead, SpecTorn, PTL

(***************************************************************************)
(* A task is in one place at most: the queue, the hands of one handler,    *)
(* one sleeping timer or one that waits to send.                           *)
(***************************************************************************)
TokenOK(t) ==
  /\ timers[t] \in {0, 1} /\ senders[t] \in {0, 1}
  /\ timers[t] = 1 => senders[t] = 0
  /\ Queued(t) => ~Held(t)
  /\ Queued(t) \/ Held(t) => timers[t] = 0 /\ senders[t] = 0
  /\ t.type = "Map" \/ t.tid < spawned \/ ~Circulates(t)
OneHolder == \A v, w \in Workers : handler[v].op = "got" /\ handler[v] = handler[w] => v = w
TokenInv == Distinct(taskQueue) /\ OneHolder /\ \A t \in Tasks : TokenOK(t)

LEMMA TokenOthers ==
  ASSUME TokenInv, NEW t \in Tasks, \A u \in Tasks : u.tid < spawned => u.tid < spawned',
         \A u \in Tasks \ {t} : /\ Queued(u)' <=> Queued(u)
                                /\ Held(u)' <=> Held(u)
                                /\ timers'[u] = timers[u] /\ senders'[u] = senders[u],
         TokenOK(t)', Distinct(taskQueue)', OneHolder'
  PROVE  TokenInv'
<1>1. ASSUME NEW u \in Tasks \ {t} PROVE TokenOK(u)'
  BY <1>1 DEF TokenInv, TokenOK, Circulates
<1> QED BY <1>1 DEF TokenInv

LEMMA TokenKept ==
  ASSUME TokenInv, spawned' = spawned, Distinct(taskQueue)', OneHolder',
         \A u : (Queued(u)' <=> Queued(u)) /\ (Held(u)' <=> Held(u)),
         timers' = timers, senders' = senders
  PROVE  TokenInv'
<1>1. ASSUME NEW u \in Tasks PROVE TokenOK(u)'
  BY DEF TokenInv, TokenOK, Circulates
<1> QED BY <1>1 DEF TokenInv

LEMMA OneHolderKept ==
  ASSUME OneHolder, NEW w \in Workers, \A v \in Workers \ {w} : handler'[v] = handler[v], handler'[w].op # "got"
  PROVE  OneHolder'
BY DEF OneHolder

LEMMA TokenHandler ==
  ASSUME TypeOK, TokenInv, NEW w \in Workers, HandlerStep(w)
  PROVE  TokenInv'
<1>0. spawned' = spawned /\ senders' = senders /\ OneHolder /\ Distinct(taskQueue)
  BY DEF HandlerStep, Dequeue, ReqTimeout, ReqAnswer, CompleteTask, loopVars, timerVars, TokenInv
<1>s. \A u \in Tasks : u.tid < spawned => u.tid < spawned'
  BY <1>0
<1>q. taskQueue \in Seq(Tasks)
  BY TypeParts
<1>1. CASE Dequeue(w)
  <2>1. /\ handler[w] = Waiting /\ handler' = [handler EXCEPT ![w] = Got(Head(taskQueue))]
        /\ taskQueue # << >> /\ taskQueue' = Tail(taskQueue) /\ timers' = timers
    BY <1>1 DEF Dequeue, timerVars
  <2>t. PICK t \in Tasks : t = Head(taskQueue)
    BY <2>1, TypeParts, QueueTypes
  <2>2. handler'[w] = Got(t) /\ \A v \in Workers \ {w} : handler'[v] = handler[v]
    BY <2>1, <2>t, TypeGroups DEF HandlerType
  <2>3. (\A u : In(taskQueue, u) <=> In(taskQueue', u) \/ u = t) /\ Distinct(taskQueue') /\ ~In(taskQueue', t)
    BY <1>0, <1>q, <2>1, <2>t, InTail
  <2>4. Queued(t) /\ ~Queued(t)' /\ \A u \in Tasks \ {t} : Queued(u)' <=> Queued(u)
    BY <2>3 DEF Queued
  <2>5. ~Held(t) /\ timers[t] = 0 /\ senders[t] = 0 /\ (t.type = "Map" \/ t.tid < spawned)
    BY <2>4 DEF TokenInv, TokenOK, Circulates
  <2>6. \A u \in Tasks \ {t} : Held(u)' <=> Held(u)
    <3>1. \A u : handler[w] # Got(u)
      BY <2>1, HandlerTypes
    <3>2. \A u \in Tasks \ {t} : handler'[w] # Got(u)
      <4>1. handler'[w].task = t
        BY <2>2, HandlerTypes
      <4> QED BY <4>1, HandlerTypes
    <3> QED BY <2>2, <3>1, <3>2 DEF Held
  <2>7. OneHolder'
    <3>1. \A v \in Workers : handler[v] # Got(t)
      BY <2>5 DEF Held
    <3> QED BY <1>0, <2>2, <3>1 DEF OneHolder
  <2>8. TokenOK(t)'
    <3>1. timers'[t] = 0 /\ senders'[t] = 0
      BY <1>0, <2>1, <2>5
    <3> QED BY <1>0, <2>4, <2>5, <3>1 DEF TokenOK
  <2>9. \A u \in Tasks \ {t} : timers'[u] = timers[u] /\ senders'[u] = senders[u]
    BY <1>0, <2>1
  <2> QED BY <1>s, <2>3, <2>4, <2>6, <2>7, <2>8, <2>9, TokenOthers
<1>2. CASE ReqTimeout(w) \/ CompleteTask(w)
  <2>1. /\ taskQueue' = taskQueue /\ timers' = timers /\ handler[w].op # "got"
        /\ Reply(w, "idle", NoJob)
    BY <1>2, HandlerTypes DEF ReqTimeout, CompleteTask, queueVars, timerVars
  <2>2. handler'[w] = Idle /\ \A v \in Workers \ {w} : handler'[v] = handler[v]
    BY <2>1, ReplyEffect
  <2>3. \A t : Held(t)' <=> Held(t)
    BY <2>1, <2>2, HandlerTypes, HeldOthers
  <2>4. handler'[w].op # "got"
    BY <2>2, HandlerTypes
  <2>5. OneHolder'
    BY <1>0, <2>2, <2>4, OneHolderKept
  <2> QED BY <1>0, <2>1, <2>3, <2>5, QueueUnchanged, TokenKept
<1>3. CASE ReqAnswer(w)
  <2>1. taskQueue' = taskQueue /\ handler[w].op = "got"
    BY <1>3 DEF ReqAnswer, queueVars
  <2>2. PICK t \in Tasks : t = handler[w].task /\ handler[w] = Got(t)
    BY <2>1, TypeGroups, HandlerCases DEF HandlerType
  <2>3. PICK loc, j : Reply(w, loc, j)
    BY <1>3 DEF ReqAnswer, Hand
  <2>4. handler'[w] = Idle /\ \A v \in Workers \ {w} : handler'[v] = handler[v]
    BY <2>3, ReplyEffect
  <2>5. handler'[w].op # "got" /\ \A u : handler'[w] # Got(u)
    BY <2>4, HandlerTypes
  <2>6. OneHolder'
    BY <1>0, <2>4, <2>5, OneHolderKept
  <2>7. \A u \in Tasks \ {t} : Held(u)' <=> Held(u)
    <3>1. \A u \in Tasks \ {t} : handler[w] # Got(u)
      BY <2>2, HandlerTypes
    <3> QED BY <2>4, <2>5, <3>1 DEF Held
  <2>8. Held(t) /\ ~Held(t)'
    <3>1. \A v \in Workers \ {w} : handler[v] # Got(t)
      BY <1>0, <2>1, <2>2 DEF OneHolder
    <3> QED BY <2>2, <2>4, <2>5, <3>1 DEF Held
  <2>9. ~Queued(t) /\ timers[t] = 0 /\ senders[t] = 0 /\ (t.type = "Map" \/ t.tid < spawned)
    BY <2>8 DEF TokenInv, TokenOK, Circulates
  <2>10. (timers' = timers \/ timers' = [timers EXCEPT ![t] = @ + 1]) /\ timers \in [Tasks -> Nat]
    BY <1>3, <2>2, TypeParts DEF ReqAnswer
  <2>11. timers'[t] \in {0, 1} /\ \A u \in Tasks \ {t} : timers'[u] = timers[u]
    <3>1. CASE timers' = timers
      BY <2>9, <3>1
    <3>2. CASE timers' = [timers EXCEPT ![t] = @ + 1]
      BY <2>9, <2>10, <3>2, SMT
    <3> QED BY <2>10, <3>1, <3>2
  <2>12. \A u : Queued(u)' <=> Queued(u)
    BY <2>1, QueueUnchanged
  <2>13. TokenOK(t)'
    <3>1. senders'[t] = 0 /\ ~Queued(t)'
      BY <1>0, <2>9, <2>12
    <3> QED BY <1>0, <2>8, <2>9, <2>11, <3>1 DEF TokenOK
  <2>14. Distinct(taskQueue')
    BY <1>0, <2>1
  <2> QED BY <1>0, <1>s, <2>6, <2>7, <2>11, <2>12, <2>13, <2>14, TokenOthers
<1> QED BY <1>1, <1>2, <1>3 DEF HandlerStep

LEMMA TokenTimer ==
  ASSUME TypeOK, TokenInv, NEW t \in Tasks, TimerFires(t) \/ TimerSends(t)
  PROVE  TokenInv'
<1>0. /\ spawned' = spawned /\ handler' = handler /\ OneHolder /\ Distinct(taskQueue)
      /\ taskQueue \in Seq(Tasks) /\ timers \in [Tasks -> Nat] /\ senders \in [Tasks -> Nat]
  BY TypeParts DEF TimerFires, TimerSends, loopVars, TokenInv
<1>s. \A u \in Tasks : u.tid < spawned => u.tid < spawned'
  BY <1>0
<1>h. OneHolder' /\ \A u : Held(u)' <=> Held(u)
  BY <1>0, HeldUnchanged DEF OneHolder
<1>z. 0 # 1 /\ 0 + 1 = 1 /\ 1 - 1 = 0 /\ ~(0 > 0)
  BY SMT
<1>1. CASE TimerFires(t)
  <2>1. timers[t] > 0 /\ timers' = [timers EXCEPT ![t] = @ - 1]
    BY <1>1 DEF TimerFires, Wake
  <2>2. timers[t] = 1 /\ senders[t] = 0 /\ ~Queued(t) /\ ~Held(t) /\ (t.type = "Map" \/ t.tid < spawned)
    BY <1>z, <2>1 DEF TokenInv, TokenOK, Circulates
  <2>3. timers'[t] = 0 /\ \A u \in Tasks \ {t} : timers'[u] = timers[u]
    BY <1>0, <1>z, <2>1, <2>2
  <2>4. CASE UNCHANGED <<taskQueue, senders>>
    <3>1. (\A u : Queued(u)' <=> Queued(u)) /\ senders'[t] = 0
      BY <2>2, <2>4, QueueUnchanged
    <3>2. TokenOK(t)'
      BY <1>0, <1>h, <1>z, <2>2, <2>3, <3>1 DEF TokenOK
    <3>3. Distinct(taskQueue') /\ senders' = senders
      BY <1>0, <2>4
    <3> QED BY <1>s, <1>h, <2>3, <3>1, <3>2, <3>3, TokenOthers
  <2>5. CASE taskQueue' = Append(taskQueue, t) /\ UNCHANGED senders
    <3>1. (\A u : Queued(u)' <=> Queued(u) \/ u = t) /\ Distinct(taskQueue')
      BY <1>0, <2>2, <2>5, InAppend DEF Queued
    <3>2. TokenOK(t)'
      <4>1. senders'[t] = 0 /\ ~Held(t)'
        BY <1>h, <2>2, <2>5
      <4> QED BY <1>0, <1>z, <2>2, <2>3, <4>1 DEF TokenOK
    <3> QED BY <1>s, <1>h, <2>3, <2>5, <3>1, <3>2, TokenOthers
  <2>6. CASE senders' = [senders EXCEPT ![t] = @ + 1] /\ UNCHANGED taskQueue
    <3>1. senders'[t] = 1 /\ \A u \in Tasks \ {t} : senders'[u] = senders[u]
      BY <1>0, <1>z, <2>2, <2>6
    <3>2. (\A u : Queued(u)' <=> Queued(u)) /\ Distinct(taskQueue')
      BY <1>0, <2>6, QueueUnchanged
    <3>3. TokenOK(t)'
      BY <1>0, <1>h, <1>z, <2>2, <2>3, <3>1, <3>2 DEF TokenOK
    <3> QED BY <1>s, <1>h, <2>3, <3>1, <3>2, <3>3, TokenOthers
  <2> QED BY <1>1, <2>4, <2>5, <2>6 DEF TimerFires
<1>2. CASE TimerSends(t)
  <2>1. /\ taskQueue' = Append(taskQueue, t) /\ senders' = [senders EXCEPT ![t] = @ - 1]
        /\ timers' = timers /\ senders[t] > 0
    BY <1>2 DEF TimerSends
  <2>2. senders[t] = 1 /\ timers[t] = 0 /\ ~Queued(t) /\ ~Held(t) /\ (t.type = "Map" \/ t.tid < spawned)
    BY <1>z, <2>1 DEF TokenInv, TokenOK, Circulates
  <2>3. senders'[t] = 0 /\ \A u \in Tasks \ {t} : senders'[u] = senders[u]
    BY <1>0, <1>z, <2>1, <2>2
  <2>4. (\A u : Queued(u)' <=> Queued(u) \/ u = t) /\ Distinct(taskQueue')
    BY <1>0, <2>1, <2>2, InAppend DEF Queued
  <2>5. TokenOK(t)'
    <3>1. timers'[t] = 0 /\ ~Held(t)'
      BY <1>h, <2>1, <2>2
    <3> QED BY <1>0, <1>z, <2>2, <2>3, <3>1 DEF TokenOK
  <2> QED BY <1>s, <1>h, <2>1, <2>3, <2>4, <2>5, TokenOthers
<1> QED BY <1>1, <1>2

LEMMA WorkerCalls ==
  ASSUME TypeOK, WorkInv, NEW w \in Workers, WorkerStep(w) \/ AttemptFails(w) \/ Crash(w)
  PROVE  \/ handler' = handler
         \/ handler'[w].op # "got" /\ \A v \in Workers \ {w} : handler'[v] = handler[v]
<1>1. handler' = handler \/ \E h : Call(w, h) /\ h.op # "got"
  <2>1. CASE CallReqTask(w)
    BY <2>1, HandlerTypes DEF CallReqTask
  <2>2. CASE MapWrite(w) \/ ReduceWrite(w)
    BY <2>2, HandlerTypes DEF MapWrite, ReduceWrite, CallCompleteTask
  <2>3. CASE CallFails(w) \/ MapCreate(w) \/ ReduceRead(w) \/ ReduceCreate(w) \/ AttemptFails(w) \/ Crash(w)
    BY <2>3 DEF CallFails, MapCreate, ReduceRead, ReduceCreate, AttemptFails, Crash
  <2> QED BY <2>1, <2>2, <2>3 DEF WorkerStep
<1> QED BY <1>1, CallEffect

LEMMA TokenWorker ==
  ASSUME BaseInv, TokenInv, NEW w \in Workers, WorkerStep(w) \/ AttemptFails(w) \/ Crash(w)
  PROVE  TokenInv'
<1>0. TypeOK /\ WorkInv /\ NeededInv /\ OneHolder /\ Distinct(taskQueue)
  BY DEF BaseInv, TokenInv
<1>1. Outside
  BY DEF WorkerStep, CallReqTask, CallFails, MapCreate, MapWrite, ReduceRead, ReduceCreate,
         ReduceWrite, AttemptFails, Crash
<1>2. taskQueue' = taskQueue /\ spawned' = spawned /\ timers' = timers /\ senders' = senders
  BY <1>1 DEF Outside, queueVars, loopVars, timerVars
<1>3. \A t : Held(t)' <=> Held(t)
  BY <1>0, NeededWorker
<1>4. OneHolder'
  <2>1. CASE handler' = handler
    BY <1>0, <2>1 DEF OneHolder
  <2>2. CASE handler' # handler
    BY <1>0, <2>2, WorkerCalls, OneHolderKept
  <2> QED BY <2>1, <2>2
<1>5. Distinct(taskQueue')
  BY <1>0, <1>2
<1> QED BY <1>2, <1>3, <1>4, <1>5, QueueUnchanged, TokenKept

LEMMA TokenLoop ==
  ASSUME TypeOK, TornInv, TokenInv, MainLoop
  PROVE  TokenInv'
<1>0. /\ handler' = handler /\ timers' = timers /\ senders' = senders /\ OneHolder /\ Distinct(taskQueue)
      /\ taskQueue \in Seq(Tasks)
  BY TypeParts DEF MainLoop, MapRecv, Requeue, MapRecord, SpawnBegins, SpawnReduce, SpawnEnds, ReduceRecv,
         ReduceRecord, MarkDone, Receive, timerVars, TokenInv
<1>h. OneHolder' /\ \A u : Held(u)' <=> Held(u)
  BY <1>0, HeldUnchanged DEF OneHolder
<1>1. CASE taskQueue' = taskQueue /\ spawned' = spawned
  BY <1>0, <1>1, <1>h, QueueUnchanged, TokenKept
<1>2. CASE SpawnReduce
  <2>1. taskQueue' = Append(taskQueue, Task("Reduce", spawned)) /\ spawned' = spawned + 1 /\ spawned < nReduce
    BY <1>2 DEF SpawnReduce
  <2>2. spawned \in ReduceTids /\ spawned \in Nat
    BY <2>1, TypeParts, SMT DEF ReduceTids
  <2>3. PICK t \in Tasks : t = Task("Reduce", spawned) /\ t.type = "Reduce" /\ t.tid = spawned
    <3>1. Task("Reduce", spawned).type = "Reduce" /\ Task("Reduce", spawned).tid = spawned
      BY SMT DEF Task
    <3> QED BY <2>2, <3>1, TaskTypes
  <2>4. ~(t.tid < spawned) /\ t.tid < spawned'
    BY <2>1, <2>2, <2>3, SMT
  <2>5. ~Circulates(t) /\ timers[t] \in {0, 1} /\ senders[t] \in {0, 1}
    BY <2>3, <2>4 DEF TokenInv, TokenOK
  <2>6. ~Queued(t) /\ ~Held(t) /\ timers[t] = 0 /\ senders[t] = 0
    <3>1. 1 > 0
      BY SMT
    <3> QED BY <2>5, <3>1 DEF Circulates
  <2>7. (\A u : Queued(u)' <=> Queued(u) \/ u = t) /\ Distinct(taskQueue')
    <3>1. taskQueue' = Append(taskQueue, t)
      BY <2>1, <2>3
    <3> QED BY <1>0, <2>6, <3>1, InAppend DEF Queued
  <2>8. TokenOK(t)'
    <3>1. timers'[t] = 0 /\ senders'[t] = 0 /\ ~Held(t)'
      BY <1>0, <1>h, <2>6
    <3> QED BY <2>4, <3>1 DEF TokenOK
  <2>9. \A u \in Tasks : u.tid < spawned => u.tid < spawned'
    <3>1. \A u \in Tasks : u.tid \in Nat
      BY TaskTypes
    <3> QED BY <2>1, <2>2, <3>1, SMT
  <2> QED BY <1>0, <1>h, <2>7, <2>8, <2>9, TokenOthers
<1>3. CASE ~SpawnReduce
  <2>1. ~Requeue
    BY DEF Requeue, TornInv
  <2>2. taskQueue' = taskQueue /\ spawned' = spawned
    BY <1>3, <2>1 DEF MainLoop, MapRecv, MapRecord, SpawnBegins, SpawnEnds, ReduceRecv, ReduceRecord, MarkDone,
                     Receive, queueVars
  <2> QED BY <1>1, <2>2
<1> QED BY <1>2, <1>3

LEMMA TokenExit ==
  ASSUME TokenInv, Exit
  PROVE  TokenInv'
<1>1. /\ handler' = [w \in Workers |-> Idle] /\ taskQueue' = << >> /\ spawned' = spawned
      /\ timers' = [t \in Tasks |-> 0] /\ senders' = [t \in Tasks |-> 0]
  BY DEF Exit, loopVars
<1>2. Distinct(taskQueue') /\ \A t : ~Queued(t)'
  BY <1>1, SMT DEF Distinct, Queued, In
<1>3. \A w \in Workers : handler'[w].op # "got" /\ \A t : handler'[w] # Got(t)
  BY <1>1, HandlerTypes
<1>4. OneHolder' /\ \A t : ~Held(t)'
  BY <1>3 DEF OneHolder, Held
<1>5. ASSUME NEW t \in Tasks PROVE TokenOK(t)'
  <2>1. timers'[t] = 0 /\ senders'[t] = 0
    BY <1>1
  <2>2. ~(0 > 0)
    BY SMT
  <2> QED BY <1>2, <1>4, <2>1, <2>2 DEF TokenOK, Circulates
<1> QED BY <1>2, <1>4, <1>5 DEF TokenInv

LEMMA TokenStep == ASSUME BaseInv, TornInv, TokenInv, Next PROVE TokenInv'
<1>0. TypeOK
  BY DEF BaseInv
<1>1. CASE StrayCompletion \/ Finished
  <2>1. handler' = handler /\ taskQueue' = taskQueue /\ spawned' = spawned /\ timers' = timers /\ senders' = senders
    BY <1>1 DEF StrayCompletion, Finished, vars, loopVars, timerVars, queueVars
  <2>2. OneHolder' /\ Distinct(taskQueue')
    BY <2>1 DEF TokenInv, OneHolder
  <2> QED BY <2>1, <2>2, QueueUnchanged, HeldUnchanged, TokenKept
<1>2. CASE MainLoop
  BY <1>0, <1>2, TokenLoop
<1>3. CASE Exit
  BY <1>3, TokenExit
<1>4. CASE \E t \in Tasks : TimerFires(t) \/ TimerSends(t)
  BY <1>0, <1>4, TokenTimer
<1>5. CASE \E w \in Workers : HandlerStep(w)
  BY <1>0, <1>5, TokenHandler
<1>6. CASE \E w \in Workers : WorkerStep(w) \/ AttemptFails(w) \/ Crash(w)
  BY <1>6, TokenWorker
<1> QED BY <1>1, <1>2, <1>3, <1>4, <1>5, <1>6 DEF Next

LEMMA InitToken == Init => TokenInv
<1> SUFFICES ASSUME Init PROVE TokenInv
  OBVIOUS
<1>1. \A w \in Workers : handler[w] = Idle
  BY DEF Init
<1>2. \A w \in Workers : handler[w].op # "got" /\ \A t : handler[w] # Got(t)
  BY <1>1, HandlerTypes
<1>3. OneHolder /\ \A t : ~Held(t)
  BY <1>2 DEF OneHolder, Held
<1>4. taskQueue = [i \in 1..nMap |-> Task("Map", i - 1)] /\ Len(taskQueue) = nMap
  <2>1. taskQueue = [i \in 1..nMap |-> Task("Map", i - 1)]
    BY DEF Init
  <2> QED BY <2>1, SMT
<1>5. \A i \in 1..nMap : taskQueue[i] = Task("Map", i - 1) /\ taskQueue[i].type = "Map" /\ taskQueue[i].tid = i - 1
  <2>1. \A k : Task("Map", k).type = "Map" /\ Task("Map", k).tid = k
    BY SMT DEF Task
  <2> QED BY <1>4, <2>1
<1>6. Distinct(taskQueue)
  <2>1. ASSUME NEW i \in 1..nMap, NEW j \in 1..nMap, taskQueue[i] = taskQueue[j] PROVE i = j
    <3>1. taskQueue[i].tid = i - 1 /\ taskQueue[j].tid = j - 1
      BY <1>5
    <3>2. i - 1 = j - 1
      BY <2>1, <3>1
    <3> QED BY <3>2, SMT
  <2> QED BY <1>4, <2>1 DEF Distinct
<1>7. \A t : Queued(t) => t.type = "Map"
  BY <1>4, <1>5 DEF Queued, In
<1>8. ASSUME NEW t \in Tasks PROVE TokenOK(t)
  <2>1. timers[t] = 0 /\ senders[t] = 0
    BY DEF Init
  <2>2. ~(0 > 0)
    BY SMT
  <2> QED BY <1>3, <1>7, <2>1, <2>2 DEF TokenOK, Circulates
<1> QED BY <1>3, <1>6, <1>8 DEF TokenInv

LEMMA TokenUnchanged == ASSUME TokenInv, UNCHANGED vars PROVE TokenInv'
<1>1. handler' = handler /\ taskQueue' = taskQueue /\ spawned' = spawned /\ timers' = timers /\ senders' = senders
  BY DEF vars, loopVars, timerVars, queueVars
<1>2. OneHolder' /\ Distinct(taskQueue')
  BY <1>1 DEF TokenInv, OneHolder
<1> QED BY <1>1, <1>2, QueueUnchanged, HeldUnchanged, TokenKept

LEMMA SpecToken == ASSUME NoForgery PROVE Spec => []TokenInv
<1>1. BaseInv /\ TornInv /\ TokenInv /\ [Next]_vars => TokenInv'
  BY TokenStep, TokenUnchanged
<1> QED BY <1>1, InitToken, SpecBase, SpecTorn, PTL DEF Spec

LEMMA AtMostOne ==
  ASSUME NEW S, IsFiniteSet(S), \A x, y \in S : x = y
  PROVE  Cardinality(S) \in {0, 1} /\ (S = {} => Cardinality(S) = 0)
<1>1. CASE S = {}
  BY <1>1, FS_EmptySet
<1>2. CASE S # {}
  <2>1. PICK x : x \in S
    BY <1>2
  <2>2. S = {x}
    BY <2>1
  <2> QED BY <1>2, <2>2, FS_Singleton
<1> QED BY <1>1, <1>2

\* NoDuplicateTask (coordinator.go:99-118): a task is queued, held by a handler
\* or watched by a timer once at most, so retries do not multiply, for any number
\* of workers and tasks and any queue capacities.
THEOREM NoTaskIsDuplicated == ASSUME NoForgery PROVE Spec => []NoDuplicateTask
<1>1. TypeOK /\ TokenInv => NoDuplicateTask
  <2> SUFFICES ASSUME TypeOK, TokenInv, NEW t \in Tasks PROVE Tokens(t) <= 1
    BY DEF NoDuplicateTask
  <2> DEFINE Q == {i \in DOMAIN taskQueue : taskQueue[i] = t}
             H == {w \in Workers : handler[w] = Got(t)}
  <2>1. DOMAIN taskQueue = 1..Len(taskQueue) /\ Len(taskQueue) \in Nat
    BY TypeParts, SMT
  <2>2. IsFiniteSet(Q)
    <3>1. IsFiniteSet(1..Len(taskQueue))
      <4>1. 1 \in Int /\ Len(taskQueue) \in Int
        BY <2>1, SMT
      <4> QED BY <4>1, FS_Interval
    <3> QED BY <2>1, <3>1, FS_Subset
  <2>3. IsFiniteSet(H)
    BY FS_Subset
  <2>4. (\A x, y \in Q : x = y) /\ (~Queued(t) => Q = {})
    BY <2>1 DEF TokenInv, Distinct, Queued, In
  <2>5. (\A x, y \in H : x = y) /\ (~Held(t) => H = {})
    <3>1. \A x, y \in H : handler[x].op = "got" /\ handler[x] = handler[y]
      BY HandlerTypes
    <3>2. \A x, y \in H : x \in Workers /\ y \in Workers
      OBVIOUS
    <3>3. \A x, y \in H : x = y
      BY <3>1, <3>2 DEF TokenInv, OneHolder
    <3> QED BY <3>3 DEF Held
  <2>6. Tokens(t) = Cardinality(Q) + Cardinality(H) + timers[t] + senders[t]
    BY DEF Tokens
  <2> HIDE DEF Q, H
  <2>7. Cardinality(Q) \in {0, 1} /\ (~Queued(t) => Cardinality(Q) = 0)
    BY <2>2, <2>4, AtMostOne
  <2>8. Cardinality(H) \in {0, 1} /\ (~Held(t) => Cardinality(H) = 0)
    BY <2>3, <2>5, AtMostOne
  <2>9. TokenOK(t)
    BY DEF TokenInv
  <2> QED BY <2>6, <2>7, <2>8, <2>9, SMT DEF TokenOK
<1>2. BaseInv => TypeOK
  BY DEF BaseInv
<1> QED BY <1>1, <1>2, SpecBase, SpecToken, PTL

(***************************************************************************)
(* Where no attempt outlives workerTimeout.                                *)
(***************************************************************************)
AtWork(w) == pc[w] \in Working \cup {"reporting"}
Busy(t) == (\E w \in Workers : AtWork(w) /\ job[w].task = t) \/ \E c : Carried(c) /\ c.task = t
Settled(t) == output[t.tid].whole /\ \A w \in Workers : ~(pc[w] \in Reducing /\ job[w].task = t)

\* A task that is worked on or reported has a timer that sleeps.
TimedOK == up => \A t \in Tasks : Busy(t) => timers[t] = 1
\* Nobody else works on a worker's task.
AloneOK ==
  /\ \A v, w \in Workers : AtWork(v) /\ AtWork(w) /\ job[v].task = job[w].task => v = w
  /\ \A w \in Workers : pc[w] = "reduceWrite" => job[w].alone
\* What is reported or recorded stays written.
ReportedOK == \A c : Carried(c) /\ c.task \in ReduceTasks => Settled(c.task)
DoneOK == \A t \in ReduceTasks : TaskDone(t) => Settled(t) /\ ~Queued(t) /\ ~Held(t) /\ senders[t] = 0
TimelyInv == TimedOK /\ AloneOK /\ ReportedOK /\ DoneOK

LEMMA BusyUnderWay == ASSUME TypeOK, NEW t, Busy(t) PROVE UnderWay(t)
<1>1. CASE \E w \in Workers : AtWork(w) /\ job[w].task = t
  BY <1>1 DEF AtWork, UnderWay
<1>2. CASE \E c : Carried(c) /\ c.task = t
  <2>1. PICK c : Carried(c) /\ c.task = t
    BY <1>2
  <2>2. In(completionQueue, c) => \E i \in DOMAIN completionQueue : completionQueue[i] = c
    <3>1. DOMAIN completionQueue = 1..Len(completionQueue)
      BY TypeParts, SMT
    <3> QED BY <3>1 DEF In
  <2>3. \A v \in Workers : handler[v] = Completing(c) => handler[v].op = "CompleteTask" /\ handler[v].args = c
    BY HandlerTypes
  <2> QED BY <2>1, <2>2, <2>3 DEF Carried, UnderWay
<1> QED BY <1>1, <1>2 DEF Busy

LEMMA TimelyStill ==
  ASSUME TimelyInv, pc' = pc, job' = job, output' = output,
         \A c : Carried(c)' => Carried(c) \/ c.task \notin Tasks,
         up' => up, \A t \in Tasks : up' /\ Busy(t) /\ timers[t] = 1 => timers'[t] = 1, DoneOK'
  PROVE  TimelyInv'
<1>1. \A t \in Tasks : Busy(t)' => Busy(t)
  BY DEF Busy, AtWork
<1>2. TimedOK'
  BY <1>1 DEF TimelyInv, TimedOK
<1>3. AloneOK'
  BY DEF TimelyInv, AloneOK, AtWork
<1>4. \A t : Settled(t) => Settled(t)'
  BY DEF Settled
<1>5. ReportedOK'
  BY <1>4 DEF TimelyInv, ReportedOK, ReduceTasks
<1> QED BY <1>2, <1>3, <1>5 DEF TimelyInv

LEMMA SettledStill ==
  ASSUME pc' = pc, job' = job, output' = output
  PROVE  \A t : Settled(t) => Settled(t)'
BY DEF Settled

LEMMA TimelyLoop ==
  ASSUME TypeOK, LoopInv, TornInv, TokenInv, TimelyInv, MainLoop
  PROVE  TimelyInv'
<1>0. /\ pc' = pc /\ job' = job /\ output' = output /\ timers' = timers /\ senders' = senders
      /\ handler' = handler /\ up' = up /\ up
  BY DEF MainLoop, MapRecv, Requeue, MapRecord, SpawnBegins, SpawnReduce, SpawnEnds, ReduceRecv,
         ReduceRecord, MarkDone, Receive, timerVars, workerVars, fileVars
<1>c. \A c : Carried(c)' => Carried(c) \/ c.task \notin Tasks
  <2>1. NoResult.task \notin Tasks
    BY TaskTypes, CompletionTypes
  <2> QED BY <2>1, CarriedLoop
<1>s. \A t : Settled(t) => Settled(t)'
  BY <1>0, SettledStill
<1>h. \A t : Held(t)' <=> Held(t)
  BY <1>0, HeldUnchanged
<1>q. ASSUME NEW t \in ReduceTasks, TaskDone(t), Queued(t)' => Queued(t)
      PROVE  Settled(t)' /\ ~Queued(t)' /\ ~Held(t)' /\ senders'[t] = 0
  BY <1>0, <1>s, <1>h, <1>q DEF TimelyInv, DoneOK
<1>1. CASE SpawnReduce
  <2>1. mrPc = "spawn" /\ reduceTaskState' = reduceTaskState
    BY <1>1 DEF SpawnReduce, coordinatorVars
  <2>2. \A r \in ReduceTids : ~reduceTaskState[r].done
    BY <2>1 DEF LoopInv
  <2>3. \A t \in ReduceTasks : ~TaskDone(t)'
    BY <2>1, <2>2, TaskTypes DEF TaskDone, ReduceTasks
  <2>4. DoneOK'
    BY <2>3 DEF DoneOK
  <2> QED BY <1>0, <1>c, <2>4, TimelyStill
<1>2. CASE ~SpawnReduce
  <2>1. ~Requeue
    BY DEF Requeue, TornInv
  <2>2. taskQueue' = taskQueue
    BY <1>2, <2>1 DEF MainLoop, MapRecv, MapRecord, SpawnBegins, SpawnEnds, ReduceRecv, ReduceRecord, MarkDone,
                     Receive, queueVars
  <2>3. \A t : Queued(t)' <=> Queued(t)
    BY <2>2, QueueUnchanged
  <2>4. ASSUME \A t \in ReduceTasks : TaskDone(t)' => TaskDone(t) PROVE DoneOK'
    BY <1>q, <2>3, <2>4 DEF DoneOK
  <2>5. CASE ReduceRecord
    <3>1. mrPc = "reduceRecord"
      BY <2>5 DEF ReduceRecord
    <3>2. result.task \in ReduceTasks
      BY <3>1 DEF LoopInv
    <3>t. PICK t \in ReduceTasks : t = result.task
      BY <3>2
    <3>r. PICK r \in ReduceTids : r = t.tid
      BY TaskTypes DEF ReduceTasks
    <3>3. \/ reduceTaskState' = reduceTaskState
          \/ reduceTaskState' = [reduceTaskState EXCEPT ![r].done = TRUE]
      BY <2>5, <3>t, <3>r DEF ReduceRecord
    <3>4. \A k \in ReduceTids \ {r} : reduceTaskState'[k] = reduceTaskState[k]
      BY <3>3, TypeGroups, RecordedDone
    <3>5. \A u \in ReduceTasks \ {t} : TaskDone(u)' => TaskDone(u)
      <4>1. ASSUME NEW u \in ReduceTasks, u # t PROVE u.tid \in ReduceTids \ {r} /\ u.type = "Reduce"
        <5>1. u.type = "Reduce" /\ t.type = "Reduce" /\ u.tid \in ReduceTids
          BY TaskTypes DEF ReduceTasks
        <5>2. u = Task(u.type, u.tid) /\ t = Task(t.type, t.tid)
          BY TaskTypes DEF ReduceTasks
        <5>3. u.tid # r
          BY <3>r, <4>1, <5>1, <5>2
        <5> QED BY <5>1, <5>3
      <4> QED BY <3>4, <4>1 DEF TaskDone
    <3>6. Carried(result) /\ t \in Tasks
      BY DEF Carried, ReduceTasks
    <3>7. Settled(t) /\ timers[t] = 1
      BY <1>0, <3>t, <3>6 DEF TimelyInv, ReportedOK, TimedOK, Busy
    <3>8. ~Queued(t) /\ ~Held(t) /\ senders[t] = 0
      <4>1. 0 # 1
        BY SMT
      <4> QED BY <3>6, <3>7, <4>1 DEF TokenInv, TokenOK
    <3>9. Settled(t)' /\ ~Queued(t)' /\ ~Held(t)' /\ senders'[t] = 0
      BY <1>0, <1>s, <1>h, <2>3, <3>7, <3>8
    <3>10. DoneOK'
      BY <1>q, <2>3, <3>5, <3>9 DEF DoneOK
    <3> QED BY <1>0, <1>c, <3>10, TimelyStill
  <2>6. CASE SpawnEnds
    <3>1. \A r \in ReduceTids : ~reduceTaskState'[r].done
      BY <2>6, SpawnKeepsDone
    <3>2. \A t \in ReduceTasks : ~TaskDone(t)'
      BY <3>1, TaskTypes DEF TaskDone, ReduceTasks
    <3>3. DoneOK'
      BY <3>2 DEF DoneOK
    <3> QED BY <1>0, <1>c, <3>3, TimelyStill
  <2>7. CASE ~ReduceRecord /\ ~SpawnEnds
    <3>1. reduceTaskState' = reduceTaskState
      BY <1>2, <2>1, <2>7 DEF MainLoop, MapRecv, MapRecord, SpawnBegins, ReduceRecv, MarkDone, Receive,
                              coordinatorVars
    <3>2. \A t \in ReduceTasks : TaskDone(t)' => TaskDone(t)
      BY <3>1 DEF TaskDone, ReduceTasks
    <3> QED BY <1>0, <1>c, <2>4, <3>2, TimelyStill
  <2> QED BY <2>5, <2>6, <2>7
<1> QED BY <1>1, <1>2

LEMMA TimelyTimer ==
  ASSUME TypeOK, ~late, TimelyInv, NEW t \in Tasks, TimerFires(t) \/ TimerSends(t)
  PROVE  TimelyInv'
<1>0. /\ pc' = pc /\ job' = job /\ output' = output /\ up' = up /\ handler' = handler
      /\ completionQueue' = completionQueue /\ result' = result /\ UNCHANGED coordinatorVars
  BY DEF TimerFires, TimerSends, workerVars, fileVars, loopVars
<1>c. \A c : Carried(c)' => Carried(c) \/ c.task \notin Tasks
  BY <1>0 DEF Carried
<1>s. \A u : Settled(u) => Settled(u)'
  BY <1>0, SettledStill
<1>h. \A u : Held(u)' <=> Held(u)
  BY <1>0, HeldUnchanged
<1>d. \A u : TaskDone(u)' <=> TaskDone(u)
  BY <1>0, TaskDoneUnchanged
<1>t. /\ taskQueue \in Seq(Tasks) /\ timers \in [Tasks -> Nat] /\ senders \in [Tasks -> Nat]
  BY TypeParts
<1>1. ASSUME t \in ReduceTasks => ~TaskDone(t),
             \A u \in Tasks \ {t} : (Queued(u)' <=> Queued(u)) /\ senders'[u] = senders[u]
      PROVE  DoneOK'
  <2>1. \A u \in ReduceTasks : u \in Tasks
    BY DEF ReduceTasks
  <2> QED BY <1>s, <1>h, <1>d, <1>1, <2>1 DEF TimelyInv, DoneOK
<1>2. CASE TimerFires(t)
  <2>1. /\ timers' = [timers EXCEPT ![t] = @ - 1] /\ ~UnderWay(t)
    BY <1>2 DEF TimerFires, Wake
  <2>2. ~Busy(t)
    BY <2>1, BusyUnderWay
  <2>3. \A u \in Tasks : up' /\ Busy(u) /\ timers[u] = 1 => timers'[u] = 1
    BY <1>t, <2>1, <2>2
  <2>4. CASE UNCHANGED <<taskQueue, senders>>
    <3>1. \A u : Queued(u)' <=> Queued(u)
      BY <2>4, QueueUnchanged
    <3>2. DoneOK'
      BY <1>s, <1>h, <1>d, <2>4, <3>1 DEF TimelyInv, DoneOK
    <3> QED BY <1>0, <1>c, <2>3, <3>2, TimelyStill
  <2>5. CASE StillWanted(t) /\ taskQueue' = Append(taskQueue, t) /\ UNCHANGED senders
    <3>1. \A u : Queued(u)' <=> Queued(u) \/ u = t
      BY <1>t, <2>5, InAppend DEF Queued
    <3>2. ~TaskDone(t)
      BY <2>5 DEF StillWanted
    <3>3. DoneOK'
      BY <1>1, <2>5, <3>1, <3>2
    <3> QED BY <1>0, <1>c, <2>3, <3>3, TimelyStill
  <2>6. CASE StillWanted(t) /\ senders' = [senders EXCEPT ![t] = @ + 1] /\ UNCHANGED taskQueue
    <3>1. (\A u : Queued(u)' <=> Queued(u)) /\ \A u \in Tasks \ {t} : senders'[u] = senders[u]
      BY <1>t, <2>6, QueueUnchanged
    <3>2. ~TaskDone(t)
      BY <2>6 DEF StillWanted
    <3>3. DoneOK'
      BY <1>1, <3>1, <3>2
    <3> QED BY <1>0, <1>c, <2>3, <3>3, TimelyStill
  <2> QED BY <1>2, <2>4, <2>5, <2>6 DEF TimerFires
<1>3. CASE TimerSends(t)
  <2>1. /\ taskQueue' = Append(taskQueue, t) /\ senders' = [senders EXCEPT ![t] = @ - 1]
        /\ timers' = timers /\ senders[t] > 0
    BY <1>3 DEF TimerSends
  <2>2. (\A u : Queued(u)' <=> Queued(u) \/ u = t) /\ \A u \in Tasks \ {t} : senders'[u] = senders[u]
    BY <1>t, <2>1, InAppend DEF Queued
  <2>3. t \in ReduceTasks => ~TaskDone(t)
    <3>1. ~(0 > 0)
      BY SMT
    <3> QED BY <2>1, <3>1 DEF TimelyInv, DoneOK
  <2>4. DoneOK'
    BY <1>1, <2>2, <2>3
  <2>5. \A u \in Tasks : up' /\ Busy(u) /\ timers[u] = 1 => timers'[u] = 1
    BY <2>1
  <2> QED BY <1>0, <1>c, <2>4, <2>5, TimelyStill
<1> QED BY <1>2, <1>3

LEMMA SettledMove ==
  ASSUME WorkInv, NEW w \in Workers, NEW t \in ReduceTasks, Settled(t),
         \A v \in Workers \ {w} : pc'[v] = pc[v] /\ job'[v].task = job[v].task,
         pc'[w] \in Reducing => pc[w] \in Reducing /\ job'[w].task = job[w].task,
         \A r \in ReduceTids : \/ output'[r] = output[r]
                               \/ output'[r].whole
                               \/ pc[w] \in Reducing /\ r = job[w].task.tid
  PROVE  Settled(t)'
<1>1. \A v \in Workers : ~(pc'[v] \in Reducing /\ job'[v].task = t)
  BY DEF Settled
<1>2. t.tid \in ReduceTids /\ t = Task("Reduce", t.tid)
  BY TaskTypes DEF ReduceTasks
<1>3. ~(pc[w] \in Reducing /\ t.tid = job[w].task.tid)
  <2>1. ASSUME pc[w] \in Reducing, t.tid = job[w].task.tid PROVE FALSE
    <3>1. job[w].task \in ReduceTasks
      BY <2>1 DEF WorkInv, WorkOK
    <3>2. job[w].task = Task("Reduce", t.tid)
      BY <2>1, <3>1, TaskTypes DEF ReduceTasks
    <3> QED BY <1>2, <2>1, <3>2 DEF Settled
  <2> QED BY <2>1
<1>4. output'[t.tid].whole
  BY <1>2, <1>3 DEF Settled
<1> QED BY <1>1, <1>4 DEF Settled

\* A worker goes on with its task, reports it or leaves it.
LEMMA TimelyMove ==
  ASSUME WorkInv, TimelyInv, NEW w \in Workers, up' => up, timers' = timers, DoneOK',
         \A v \in Workers \ {w} : pc'[v] = pc[v] /\ job'[v] = job[v],
         AtWork(w)' => AtWork(w) /\ job'[w].task = job[w].task,
         pc'[w] \in Reducing => pc[w] \in Reducing,
         pc'[w] = "reduceWrite" => job'[w].alone,
         \A r \in ReduceTids : \/ output'[r] = output[r]
                               \/ output'[r].whole
                               \/ pc[w] \in Reducing /\ r = job[w].task.tid,
         \A c : Carried(c)' => \/ Carried(c)
                               \/ AtWork(w) /\ c.task = job[w].task /\ (c.task \in ReduceTasks => Settled(c.task)')
  PROVE  TimelyInv'
<1>1. \A t \in Tasks : Busy(t)' => Busy(t)
  <2>1. ASSUME NEW t \in Tasks, NEW v \in Workers, AtWork(v)', job'[v].task = t PROVE Busy(t)
    BY <2>1 DEF Busy, AtWork
  <2>2. ASSUME NEW t \in Tasks, NEW c, Carried(c)', c.task = t PROVE Busy(t)
    BY <2>2 DEF Busy
  <2> QED BY <2>1, <2>2 DEF Busy
<1>2. TimedOK'
  BY <1>1 DEF TimelyInv, TimedOK
<1>3. AloneOK'
  <2>1. ASSUME NEW v \in Workers, NEW u \in Workers, AtWork(v)', AtWork(u)', job'[v].task = job'[u].task PROVE v = u
    <3>1. AtWork(v) /\ job'[v].task = job[v].task
      BY <2>1 DEF AtWork
    <3>2. AtWork(u) /\ job'[u].task = job[u].task
      BY <2>1 DEF AtWork
    <3> QED BY <2>1, <3>1, <3>2 DEF TimelyInv, AloneOK
  <2>2. \A v \in Workers : pc'[v] = "reduceWrite" => job'[v].alone
    BY DEF TimelyInv, AloneOK
  <2> QED BY <2>1, <2>2 DEF AloneOK
<1>4. ASSUME NEW t \in ReduceTasks, Settled(t) PROVE Settled(t)'
  <2>1. pc'[w] \in Reducing => pc[w] \in Reducing /\ job'[w].task = job[w].task
    BY DEF AtWork, Working, Reducing
  <2> QED BY <1>4, <2>1, SettledMove
<1>5. ReportedOK'
  BY <1>4 DEF TimelyInv, ReportedOK
<1> QED BY <1>2, <1>3, <1>5 DEF TimelyInv

LEMMA TimelyOutside ==
  ASSUME WorkInv, TimelyInv, NEW w \in Workers, Outside, \A t : Held(t)' <=> Held(t),
         \A v \in Workers \ {w} : pc'[v] = pc[v] /\ job'[v] = job[v],
         AtWork(w)' => AtWork(w) /\ job'[w].task = job[w].task,
         pc'[w] \in Reducing => pc[w] \in Reducing,
         pc'[w] = "reduceWrite" => job'[w].alone,
         \A r \in ReduceTids : \/ output'[r] = output[r]
                               \/ output'[r].whole
                               \/ pc[w] \in Reducing /\ r = job[w].task.tid,
         \A c : Carried(c)' => \/ Carried(c)
                               \/ AtWork(w) /\ c.task = job[w].task /\ (c.task \in ReduceTasks => Settled(c.task)')
  PROVE  TimelyInv'
<1>1. up' = up /\ timers' = timers /\ senders' = senders /\ taskQueue' = taskQueue /\ UNCHANGED coordinatorVars
  BY DEF Outside, queueVars, timerVars
<1>2. pc'[w] \in Reducing => pc[w] \in Reducing /\ job'[w].task = job[w].task
  BY DEF AtWork, Working, Reducing
<1>3. \A t \in ReduceTasks : Settled(t) => Settled(t)'
  BY <1>2, SettledMove
<1>4. DoneOK'
  <2>1. \A t : (TaskDone(t)' <=> TaskDone(t)) /\ (Queued(t)' <=> Queued(t))
    BY <1>1, TaskDoneUnchanged, QueueUnchanged
  <2> QED BY <1>1, <1>3, <2>1 DEF TimelyInv, DoneOK
<1> QED BY <1>1, <1>4, TimelyMove

LEMMA TimelyWorker ==
  ASSUME BaseInv, TimelyInv, NEW w \in Workers, WorkerStep(w) \/ AttemptFails(w) \/ Crash(w)
  PROVE  TimelyInv'
<1>0. TypeOK /\ WorkInv /\ NeededInv /\ WorkOK(w) /\ AloneOK
  BY DEF BaseInv, WorkInv, TimelyInv
<1>o. Outside
  BY DEF WorkerStep, CallReqTask, CallFails, MapCreate, MapWrite, ReduceRead, ReduceCreate,
         ReduceWrite, AttemptFails, Crash
<1>h. \A t : Held(t)' <=> Held(t)
  BY <1>0, NeededWorker
<1>1. ASSUME NEW loc, NEW j, Move(w, loc, j), loc \notin Working \cup {"reporting"},
             handler' = handler \/ Call(w, Waiting),
             \A r \in ReduceTids : output'[r] = output[r] \/ (pc[w] \in Reducing /\ r = job[w].task.tid)
      PROVE  TimelyInv'
  <2>1. pc'[w] = loc /\ \A v \in Workers \ {w} : pc'[v] = pc[v] /\ job'[v] = job[v]
    BY <1>0, <1>1, MoveEffect
  <2>2. ~AtWork(w)' /\ pc'[w] \notin Reducing /\ pc'[w] # "reduceWrite"
    BY <1>1, <2>1 DEF AtWork, Working, Reducing
  <2>3. \A c : Carried(c)' => Carried(c)
    BY <1>0, <1>o, <1>1, CarriedMove
  <2> QED BY <1>0, <1>o, <1>h, <1>1, <2>1, <2>2, <2>3, TimelyOutside
<1>2. CASE CallReqTask(w) \/ CallFails(w) \/ AttemptFails(w)
  <2>1. output' = output /\ (handler' = handler \/ Call(w, Waiting))
    BY <1>2 DEF CallReqTask, CallFails, AttemptFails, fileVars
  <2>2. PICK loc, j : Move(w, loc, j) /\ loc \notin Working \cup {"reporting"}
    <3>0. \A l \in {"asking", "exited", "idle"} : l \notin Working \cup {"reporting"}
      BY DEF Working
    <3> QED BY <1>2, <3>0 DEF CallReqTask, CallFails, AttemptFails
  <2> QED BY <1>1, <2>1, <2>2
<1>3. CASE Crash(w)
  <2>1. Move(w, "crashed", NoJob) /\ handler' = handler
    BY <1>3 DEF Crash
  <2>2. \A r \in ReduceTids : output'[r] = output[r] \/ (pc[w] \in Reducing /\ r = job[w].task.tid)
    <3>1. CASE output' = output
      BY <3>1
    <3>2. CASE pc[w] = "reduceWrite" /\ output' = [output EXCEPT ![job[w].task.tid] = Partial]
      <4>1. output \in [ReduceTids -> Outputs]
        BY <1>0, TypeParts
      <4> QED BY <3>2, <4>1 DEF Reducing
    <3> QED BY <1>3, <3>1, <3>2 DEF Crash
  <2> QED BY <1>1, <2>1, <2>2 DEF Working
<1>4. CASE MapCreate(w)
  <2>1. pc[w] = "map" /\ handler' = handler /\ output' = output
    BY <1>4 DEF MapCreate
  <2>2. PICK n : Move(w, "mapWrite", [job[w] EXCEPT !.attempt = n])
    BY <1>4 DEF MapCreate
  <2>3. job[w] \in Jobs
    BY <1>0, TypeParts
  <2>4. PICK j : j = [job[w] EXCEPT !.attempt = n]
    OBVIOUS
  <2>5. j.task = job[w].task
    BY <2>3, <2>4, SMT DEF Jobs
  <2>6. Move(w, "mapWrite", j)
    BY <2>2, <2>4
  <2>7. pc'[w] = "mapWrite" /\ job'[w] = j /\ \A v \in Workers \ {w} : pc'[v] = pc[v] /\ job'[v] = job[v]
    BY <1>0, <2>6, MoveEffect
  <2>8. AtWork(w) /\ job'[w].task = job[w].task /\ pc'[w] \notin Reducing /\ pc'[w] # "reduceWrite"
    BY <2>1, <2>5, <2>7 DEF AtWork, Working, Reducing
  <2>9. \A c : Carried(c)' => Carried(c)
    BY <1>0, <1>o, <2>1, CarriedMove
  <2> QED BY <1>0, <1>o, <1>h, <2>1, <2>7, <2>8, <2>9, TimelyOutside
<1>5. CASE MapWrite(w)
  <2>1. pc[w] = "mapWrite" /\ output' = output /\ CallCompleteTask(w, job[w].attempt)
    BY <1>5 DEF MapWrite
  <2>2. Move(w, "reporting", JobOf(job[w].task, {}))
    BY <2>1 DEF CallCompleteTask
  <2>3. /\ pc'[w] = "reporting" /\ job'[w] = JobOf(job[w].task, {})
        /\ \A v \in Workers \ {w} : pc'[v] = pc[v] /\ job'[v] = job[v]
    BY <1>0, <2>2, MoveEffect
  <2>j. JobOf(job[w].task, {}).task = job[w].task
    BY JobTypes
  <2>4. AtWork(w) /\ job'[w].task = job[w].task /\ pc'[w] \notin Reducing /\ pc'[w] # "reduceWrite"
    BY <2>1, <2>3, <2>j DEF AtWork, Working, Reducing
  <2>5. job[w].task \notin ReduceTasks
    BY <1>0, <2>1 DEF WorkOK, Mapping, MapTasks, ReduceTasks
  <2>6. \A c : Carried(c)' => Carried(c) \/ c = Completion(job[w].task, job[w].attempt)
    BY <1>0, <1>o, <2>1, CarriedCall
  <2>7. Completion(job[w].task, job[w].attempt).task = job[w].task
    BY CompletionTypes
  <2>8. \A c : Carried(c)' => \/ Carried(c)
                              \/ AtWork(w) /\ c.task = job[w].task /\ (c.task \in ReduceTasks => Settled(c.task)')
    BY <2>4, <2>5, <2>6, <2>7
  <2> QED BY <1>0, <1>o, <1>h, <2>1, <2>3, <2>4, <2>8, TimelyOutside
<1>6. CASE ReduceRead(w)
  <2>1. pc[w] = "reduce" /\ output' = output /\ handler' = handler
    BY <1>6 DEF ReduceRead, fileVars
  <2>2. CASE Move(w, "idle", NoJob)
    BY <1>1, <2>1, <2>2 DEF Working
  <2>3. CASE ~Move(w, "idle", NoJob)
    <3>1. PICK read, b : Move(w, "reduceCreate", [JobOf(job[w].task, read) EXCEPT !.skips = b])
      BY <1>6, <2>3 DEF ReduceRead
    <3>2. PICK j : j = [JobOf(job[w].task, read) EXCEPT !.skips = b]
      OBVIOUS
    <3>3. j.task = job[w].task
      BY <3>2, SMT DEF JobOf
    <3>4. Move(w, "reduceCreate", j)
      BY <3>1, <3>2
    <3>5. pc'[w] = "reduceCreate" /\ job'[w] = j /\ \A v \in Workers \ {w} : pc'[v] = pc[v] /\ job'[v] = job[v]
      BY <1>0, <3>4, MoveEffect
    <3>6. AtWork(w) /\ job'[w].task = job[w].task /\ pc[w] \in Reducing /\ pc'[w] # "reduceWrite"
      BY <2>1, <3>3, <3>5 DEF AtWork, Working, Reducing
    <3>7. \A c : Carried(c)' => Carried(c)
      BY <1>0, <1>o, <2>1, CarriedMove
    <3> QED BY <1>0, <1>o, <1>h, <2>1, <3>5, <3>6, <3>7, TimelyOutside
  <2> QED BY <2>2, <2>3
<1>7. CASE ReduceCreate(w)
  <2>1. pc[w] = "reduceCreate" /\ output' = [output EXCEPT ![job[w].task.tid] = Partial] /\ handler' = handler
    BY <1>7 DEF ReduceCreate
  <2>2. AtWork(w) /\ pc[w] \in Reducing
    BY <2>1 DEF AtWork, Working, Reducing
  <2>3. OtherWriters(w) = {}
    <3>1. \A v \in Workers : pc[v] = "reduceWrite" => AtWork(v)
      BY DEF AtWork, Working
    <3> QED BY <1>0, <2>2, <3>1 DEF OtherWriters, AloneOK
  <2>4. /\ pc'[w] = "reduceWrite" /\ job'[w].alone /\ job'[w].task = job[w].task
        /\ \A v \in Workers \ {w} : pc'[v] = pc[v] /\ job'[v] = job[v]
    BY <1>0, <1>7, <2>3, CreateEffect
  <2>5. \A r \in ReduceTids : output'[r] = output[r] \/ r = job[w].task.tid
    <3>1. output \in [ReduceTids -> Outputs]
      BY <1>0, TypeParts
    <3> QED BY <2>1, <3>1
  <2>6. \A c : Carried(c)' => Carried(c)
    BY <1>0, <1>o, <2>1, CarriedMove
  <2> QED BY <1>0, <1>o, <1>h, <2>2, <2>4, <2>5, <2>6, TimelyOutside
<1>8. CASE ReduceWrite(w)
  <2>1. pc[w] = "reduceWrite" /\ CallCompleteTask(w, 0) /\ Move(w, "reporting", JobOf(job[w].task, {}))
    BY <1>8 DEF ReduceWrite, CallCompleteTask
  <2>2. AtWork(w) /\ pc[w] \in Reducing /\ job[w].alone
    BY <1>0, <2>1 DEF AtWork, Working, Reducing, AloneOK
  <2>3. /\ pc'[w] = "reporting" /\ job'[w] = JobOf(job[w].task, {})
        /\ \A v \in Workers \ {w} : pc'[v] = pc[v] /\ job'[v] = job[v]
    BY <1>0, <2>1, MoveEffect
  <2>j. JobOf(job[w].task, {}).task = job[w].task
    BY JobTypes
  <2>4. job'[w].task = job[w].task /\ pc'[w] \notin Reducing /\ pc'[w] # "reduceWrite"
    BY <2>3, <2>j DEF Reducing
  <2>t. PICK t : t = job[w].task
    OBVIOUS
  <2>r. PICK r \in ReduceTids : r = job[w].task.tid
    BY <1>0, <2>2, TaskTypes DEF WorkOK, ReduceTasks
  <2>5. output'[r].whole
    <3>1. PICK o \in Written(w) : output' = [output EXCEPT ![r] = o]
      BY <1>8, <2>r DEF ReduceWrite
    <3>2. o = [whole |-> TRUE, maps |-> {f[1] : f \in job[w].files}, skips |-> job[w].skips]
      BY <2>2 DEF Written
    <3>3. o.whole
      BY <3>2, SMT
    <3>4. output'[r] = o
      BY <1>0, <3>1, TypeParts
    <3> QED BY <3>3, <3>4
  <2>6. \A k \in ReduceTids : output'[k] = output[k] \/ output'[k].whole
    <3>1. PICK o \in Written(w) : output' = [output EXCEPT ![r] = o]
      BY <1>8, <2>r DEF ReduceWrite
    <3>2. \A k \in ReduceTids \ {r} : output'[k] = output[k]
      BY <1>0, <3>1, TypeParts
    <3> QED BY <2>5, <3>2
  <2>7. Settled(t)'
    <3>1. \A v \in Workers : ~(pc'[v] \in Reducing /\ job'[v].task = t)
      <4>1. \A v \in Workers : pc[v] \in Reducing => AtWork(v)
        BY DEF AtWork, Working, Reducing
      <4> QED BY <1>0, <2>2, <2>3, <2>4, <2>t, <4>1 DEF AloneOK
    <3> QED BY <2>r, <2>t, <2>5, <3>1 DEF Settled
  <2>8. \A c : Carried(c)' => Carried(c) \/ c = Completion(job[w].task, 0)
    BY <1>0, <1>o, <2>1, CarriedCall
  <2>9. Completion(job[w].task, 0).task = t
    BY <2>t, CompletionTypes
  <2>10. \A c : Carried(c)' => \/ Carried(c)
                               \/ AtWork(w) /\ c.task = job[w].task /\ (c.task \in ReduceTasks => Settled(c.task)')
    BY <2>2, <2>t, <2>7, <2>8, <2>9
  <2> QED BY <1>0, <1>o, <1>h, <2>2, <2>3, <2>4, <2>6, <2>10, TimelyOutside
<1> QED BY <1>2, <1>3, <1>4, <1>5, <1>6, <1>7, <1>8 DEF WorkerStep

\* A worker is told to ask again, or that its completion has arrived.
LEMMA TimelyReply ==
  ASSUME TypeOK, WorkInv, TimelyInv, NEW w \in Workers, Reply(w, "idle", NoJob), up' = up, timers' = timers,
         UNCHANGED coordinatorVars, taskQueue' = taskQueue, senders' = senders, output' = output,
         \A c : Carried(c)' => Carried(c)
  PROVE  TimelyInv'
<1>1. /\ handler'[w] = Idle /\ pc'[w] \in {"idle", "crashed"}
      /\ \A v \in Workers \ {w} : handler'[v] = handler[v] /\ pc'[v] = pc[v] /\ job'[v] = job[v]
  BY ReplyEffect
<1>2. ~AtWork(w)' /\ pc'[w] \notin Reducing /\ pc'[w] # "reduceWrite"
  BY <1>1 DEF AtWork, Working, Reducing
<1>3. \A t \in ReduceTasks : Settled(t) => Settled(t)'
  BY <1>1, <1>2, SettledMove
<1>4. \A t : Held(t)' => Held(t)
  <2>1. \A t : handler'[w] # Got(t)
    BY <1>1, HandlerTypes
  <2> QED BY <1>1, <2>1 DEF Held
<1>5. DoneOK'
  <2>1. \A t : (TaskDone(t)' <=> TaskDone(t)) /\ (Queued(t)' <=> Queued(t))
    BY TaskDoneUnchanged, QueueUnchanged
  <2> QED BY <1>3, <1>4, <2>1 DEF TimelyInv, DoneOK
<1> QED BY <1>1, <1>2, <1>5, TimelyMove

\* A task is handed out: nobody works on it or has reported it.
LEMMA TimelyHand ==
  ASSUME TypeOK, WorkInv, TokenInv, TimelyInv, NEW w \in Workers, NEW t \in Tasks, handler[w] = Got(t),
         NEW loc \in {"map", "reduce"}, NEW j, j.task = t, Reply(w, loc, j), up, up' = up,
         timers' = [timers EXCEPT ![t] = @ + 1], UNCHANGED coordinatorVars, taskQueue' = taskQueue,
         senders' = senders, output' = output, \A c : Carried(c)' => Carried(c)
  PROVE  TimelyInv'
<1>1. /\ handler'[w] = Idle
      /\ pc[w] = "crashed" => pc'[w] = "crashed" /\ job'[w] = job[w]
      /\ pc[w] # "crashed" => pc'[w] = loc /\ job'[w] = j
      /\ \A v \in Workers \ {w} : handler'[v] = handler[v] /\ pc'[v] = pc[v] /\ job'[v] = job[v]
  BY ReplyEffect
<1>2. Held(t) /\ timers[t] = 0
  BY DEF Held, TokenInv, TokenOK
<1>3. ~Busy(t)
  <2>1. 0 # 1
    BY SMT
  <2> QED BY <1>2, <2>1 DEF TimelyInv, TimedOK
<1>4. timers'[t] = 1 /\ \A u \in Tasks \ {t} : timers'[u] = timers[u]
  BY <1>2, TypeParts, SMT
<1>5. AtWork(w)' => job'[w].task = t
  BY <1>1 DEF AtWork, Working
<1>6. pc'[w] \in Reducing => job'[w].task = t
  BY <1>5 DEF AtWork, Working, Reducing
<1>7. pc'[w] # "reduceWrite"
  BY <1>1
<1>8. \A u \in Tasks \ {t} : Busy(u)' => Busy(u)
  <2>1. ASSUME NEW u \in Tasks \ {t}, NEW v \in Workers, AtWork(v)', job'[v].task = u PROVE Busy(u)
    <3>1. v # w
      BY <1>5, <2>1
    <3> QED BY <1>1, <2>1, <3>1 DEF Busy, AtWork
  <2> QED BY <2>1 DEF Busy
<1>9. TimedOK'
  BY <1>4, <1>8 DEF TimelyInv, TimedOK
<1>10. AloneOK'
  <2>0. \A v \in Workers \ {w} : (AtWork(v)' <=> AtWork(v)) /\ job'[v].task = job[v].task
    BY <1>1 DEF AtWork
  <2>1. \A v \in Workers \ {w} : AtWork(v) => job[v].task # t
    BY <1>3 DEF Busy
  <2>2. ASSUME NEW v \in Workers, NEW u \in Workers, AtWork(v)', AtWork(u)', job'[v].task = job'[u].task PROVE v = u
    BY <1>5, <2>0, <2>1, <2>2 DEF TimelyInv, AloneOK
  <2>3. \A v \in Workers : pc'[v] = "reduceWrite" => job'[v].alone
    BY <1>1, <1>7 DEF TimelyInv, AloneOK
  <2> QED BY <2>2, <2>3 DEF AloneOK
<1>11. \A u \in ReduceTasks \ {t} : Settled(u) => Settled(u)'
  BY <1>1, <1>6 DEF Settled
<1>12. ReportedOK'
  <2>1. \A c : Carried(c) => c.task # t
    BY <1>3 DEF Busy
  <2> QED BY <1>11, <2>1 DEF TimelyInv, ReportedOK
<1>13. DoneOK'
  <2>1. \A u : (TaskDone(u)' <=> TaskDone(u)) /\ (Queued(u)' <=> Queued(u))
    BY TaskDoneUnchanged, QueueUnchanged
  <2>2. \A u : Held(u)' => Held(u)
    <3>1. \A u : handler'[w] # Got(u)
      BY <1>1, HandlerTypes
    <3> QED BY <1>1, <3>1 DEF Held
  <2>3. \A u \in ReduceTasks : TaskDone(u) => u # t
    BY <1>2 DEF TimelyInv, DoneOK
  <2> QED BY <1>11, <2>1, <2>2, <2>3 DEF TimelyInv, DoneOK
<1> QED BY <1>9, <1>10, <1>12, <1>13 DEF TimelyInv

LEMMA TimelyHandler ==
  ASSUME TypeOK, WorkInv, TokenInv, TimelyInv, NEW w \in Workers, HandlerStep(w)
  PROVE  TimelyInv'
<1>0. /\ up /\ up' = up /\ senders' = senders /\ output' = output /\ UNCHANGED coordinatorVars
  BY DEF HandlerStep, Dequeue, ReqTimeout, ReqAnswer, CompleteTask, timerVars, fileVars
<1>c. \A c : Carried(c)' => Carried(c)
  BY CarriedHandler
<1>1. CASE Dequeue(w)
  <2>1. /\ handler' = [handler EXCEPT ![w] = Got(Head(taskQueue))] /\ pc' = pc /\ job' = job
        /\ taskQueue # << >> /\ taskQueue' = Tail(taskQueue) /\ timers' = timers
    BY <1>1 DEF Dequeue, timerVars, workerVars
  <2>t. PICK t \in Tasks : t = Head(taskQueue)
    BY <2>1, TypeParts, QueueTypes
  <2>2. handler'[w] = Got(t) /\ \A v \in Workers \ {w} : handler'[v] = handler[v]
    BY <2>1, <2>t, TypeGroups DEF HandlerType
  <2>3. \A u : In(taskQueue, u) <=> In(taskQueue', u) \/ u = t
    BY <2>1, <2>t, TypeParts, InTail
  <2>4. Queued(t) /\ \A u : Queued(u)' => Queued(u)
    BY <2>3 DEF Queued
  <2>5. \A u : Held(u)' => Held(u) \/ u = t
    <3>1. \A u : handler'[w] = Got(u) => u = t
      <4>1. handler'[w].task = t
        BY <2>2, HandlerTypes
      <4> QED BY <4>1, HandlerTypes
    <3> QED BY <2>2, <3>1 DEF Held
  <2>6. DoneOK'
    <3>1. \A u : (TaskDone(u)' <=> TaskDone(u)) /\ (Settled(u) => Settled(u)')
      BY <1>0, <2>1, TaskDoneUnchanged, SettledStill
    <3> QED BY <1>0, <2>4, <2>5, <3>1 DEF TimelyInv, DoneOK
  <2> QED BY <1>0, <1>c, <2>1, <2>6, TimelyStill
<1>2. CASE ReqTimeout(w) \/ CompleteTask(w)
  <2>1. taskQueue' = taskQueue /\ timers' = timers /\ Reply(w, "idle", NoJob)
    BY <1>2 DEF ReqTimeout, CompleteTask, queueVars, timerVars
  <2> QED BY <1>0, <1>c, <2>1, TimelyReply
<1>3. CASE ReqAnswer(w)
  <2>1. taskQueue' = taskQueue /\ handler[w].op = "got"
    BY <1>3 DEF ReqAnswer, queueVars
  <2>2. PICK t \in Tasks : t = handler[w].task /\ handler[w] = Got(t)
    BY <2>1, TypeGroups, HandlerCases DEF HandlerType
  <2>3. CASE Reply(w, "idle", NoJob) /\ timers' = timers
    BY <1>0, <1>c, <2>1, <2>3, TimelyReply
  <2>4. CASE Hand(w, t) /\ timers' = [timers EXCEPT ![t] = @ + 1]
    <3>0. \E loc \in {"map", "reduce"} : \E f : Reply(w, loc, JobOf(t, f))
      BY <2>4 DEF Hand
    <3>1. PICK loc \in {"map", "reduce"} : \E f : Reply(w, loc, JobOf(t, f))
      BY <3>0
    <3>a. PICK f : Reply(w, loc, JobOf(t, f))
      BY <3>1
    <3>2. PICK j : j = JobOf(t, f)
      OBVIOUS
    <3>3. j.task = t
      BY <3>2, JobTypes
    <3>4. Reply(w, loc, j)
      BY <3>a, <3>2
    <3> QED BY <1>0, <1>c, <2>1, <2>2, <2>4, <3>3, <3>4, TimelyHand
  <2> QED BY <1>3, <2>2, <2>3, <2>4 DEF ReqAnswer
<1> QED BY <1>1, <1>2, <1>3 DEF HandlerStep

LEMMA TimelyStep == ASSUME NoForgery, BaseInv, TornInv, TokenInv, ~late, TimelyInv, Next PROVE TimelyInv'
<1>0. TypeOK /\ LoopInv /\ WorkInv
  BY DEF BaseInv
<1>1. CASE MainLoop
  BY <1>0, <1>1, TimelyLoop
<1>2. CASE StrayCompletion \/ Finished
  <2>1. /\ pc' = pc /\ job' = job /\ output' = output /\ up' = up /\ timers' = timers /\ senders' = senders
        /\ handler' = handler /\ taskQueue' = taskQueue /\ UNCHANGED coordinatorVars
    BY <1>2 DEF StrayCompletion, Finished, vars, workerVars, fileVars, timerVars, queueVars
  <2>2. \A c : Carried(c)' => Carried(c) \/ c.task \notin Tasks
    <3>1. CASE StrayCompletion
      BY <1>0, <3>1, CarriedStray DEF NoForgery
    <3>2. CASE Finished
      BY <3>2 DEF Carried, Finished, vars, loopVars, queueVars
    <3> QED BY <1>2, <3>1, <3>2
  <2>3. DoneOK'
    <3>1. \A u : /\ TaskDone(u)' <=> TaskDone(u)
                 /\ Queued(u)' <=> Queued(u)
                 /\ Held(u)' <=> Held(u)
                 /\ Settled(u) => Settled(u)'
      BY <2>1, TaskDoneUnchanged, QueueUnchanged, HeldUnchanged, SettledStill
    <3> QED BY <2>1, <3>1 DEF TimelyInv, DoneOK
  <2> QED BY <2>1, <2>2, <2>3, TimelyStill
<1>3. CASE Exit
  <2>1. /\ pc' = pc /\ job' = job /\ output' = output /\ ~up' /\ senders' = [t \in Tasks |-> 0]
        /\ handler' = [w \in Workers |-> Idle] /\ taskQueue' = << >> /\ UNCHANGED coordinatorVars
    BY <1>3 DEF Exit, workerVars, fileVars
  <2>2. \A t : ~Queued(t)'
    BY <2>1, SMT DEF Queued, In
  <2>3. \A t : ~Held(t)'
    <3>1. \A w \in Workers : \A t : handler'[w] # Got(t)
      BY <2>1, HandlerTypes
    <3> QED BY <3>1 DEF Held
  <2>4. DoneOK'
    <3>1. \A u : (TaskDone(u)' <=> TaskDone(u)) /\ (Settled(u) => Settled(u)')
      BY <2>1, TaskDoneUnchanged, SettledStill
    <3>2. \A u \in ReduceTasks : senders'[u] = 0
      BY <2>1 DEF ReduceTasks
    <3> QED BY <2>2, <2>3, <3>1, <3>2 DEF TimelyInv, DoneOK
  <2> QED BY <1>3, <2>1, <2>4, CarriedExit, TimelyStill
<1>4. CASE \E t \in Tasks : TimerFires(t) \/ TimerSends(t)
  BY <1>0, <1>4, TimelyTimer
<1>5. CASE \E w \in Workers : HandlerStep(w)
  BY <1>0, <1>5, TimelyHandler
<1>6. CASE \E w \in Workers : WorkerStep(w) \/ AttemptFails(w) \/ Crash(w)
  BY <1>6, TimelyWorker
<1> QED BY <1>1, <1>2, <1>3, <1>4, <1>5, <1>6 DEF Next

LEMMA LateForGood == Next \/ UNCHANGED vars => late' = late
BY DEF Next, MainLoop, MapRecv, Requeue, MapRecord, SpawnBegins, SpawnReduce, SpawnEnds, ReduceRecv, ReduceRecord,
       MarkDone, Receive, StrayCompletion, Exit, Finished, TimerFires, TimerSends, HandlerStep, Dequeue, ReqTimeout,
       ReqAnswer, CompleteTask, WorkerStep, CallReqTask, CallFails, MapCreate, MapWrite, ReduceRead, ReduceCreate,
       ReduceWrite, AttemptFails, Crash, Outside, vars

LEMMA InitTimely == Init => TimelyInv
<1> SUFFICES ASSUME Init PROVE TimelyInv
  OBVIOUS
<1>1. \A w \in Workers : pc[w] = "idle" /\ handler[w] = Idle
  BY DEF Init
<1>2. \A w \in Workers : ~AtWork(w) /\ pc[w] \notin Reducing
  BY <1>1 DEF AtWork, Working, Reducing
<1>3. \A c : Carried(c) => c.task \notin Tasks
  <2>0. result = NoResult /\ completionQueue = << >>
    BY DEF Init
  <2>1. \A c : ~In(completionQueue, c)
    BY <2>0, SMT DEF In
  <2>2. \A c : \A w \in Workers : handler[w] # Completing(c)
    BY <1>1, HandlerTypes
  <2>3. NoResult.task \notin Tasks
    BY TaskTypes, CompletionTypes
  <2> QED BY <2>0, <2>1, <2>2, <2>3 DEF Carried
<1>4. TimedOK /\ AloneOK /\ ReportedOK
  <2>1. TimedOK
    BY <1>2, <1>3 DEF TimedOK, Busy
  <2>2. AloneOK
    BY <1>1, <1>2 DEF AloneOK
  <2>3. ReportedOK
    BY <1>3 DEF ReportedOK, ReduceTasks
  <2> QED BY <2>1, <2>2, <2>3
<1>5. DoneOK
  <2>1. \A r \in ReduceTids : ~reduceTaskState[r].done
    BY SMT DEF Init
  <2>2. \A t \in ReduceTasks : ~TaskDone(t)
    BY <2>1, TaskTypes DEF TaskDone, ReduceTasks
  <2> QED BY <2>2 DEF DoneOK
<1> QED BY <1>4, <1>5 DEF TimelyInv

LEMMA TimelyUnchanged == ASSUME TimelyInv, UNCHANGED vars PROVE TimelyInv'
<1>1. /\ pc' = pc /\ job' = job /\ output' = output /\ up' = up /\ timers' = timers /\ senders' = senders
      /\ handler' = handler /\ taskQueue' = taskQueue /\ UNCHANGED coordinatorVars
      /\ completionQueue' = completionQueue /\ result' = result
  BY DEF vars, workerVars, fileVars, timerVars, queueVars, loopVars
<1>2. \A c : Carried(c)' => Carried(c)
  BY <1>1 DEF Carried
<1>3. DoneOK'
  <2>1. \A u : /\ TaskDone(u)' <=> TaskDone(u)
               /\ Queued(u)' <=> Queued(u)
               /\ Held(u)' <=> Held(u)
               /\ Settled(u) => Settled(u)'
    BY <1>1, TaskDoneUnchanged, QueueUnchanged, HeldUnchanged, SettledStill
  <2> QED BY <1>1, <2>1 DEF TimelyInv, DoneOK
<1> QED BY <1>1, <1>2, <1>3, TimelyStill

LEMMA SpecTimely == ASSUME NoForgery PROVE Spec => [](late \/ TimelyInv)
<1>1. BaseInv /\ TornInv /\ TokenInv /\ (late \/ TimelyInv) /\ [Next]_vars => (late \/ TimelyInv)'
  BY TimelyStep, TimelyUnchanged, LateForGood
<1>2. Init => late \/ TimelyInv
  BY InitTimely
<1> QED BY <1>1, <1>2, SpecBase, SpecTorn, SpecToken, PTL DEF Spec

\* OutputFinalTimely (mr_test.go:114; coordinator.go:99-118): where no attempt
\* outlives workerTimeout, every output file is whole once the coordinator says
\* that the job is done, and stays so, whichever workers
\* crash and whatever attempts fail.
THEOREM OutputIsFinal == ASSUME NoForgery PROVE Spec => []OutputFinalTimely
<1>1. BaseInv /\ (late \/ TimelyInv) => OutputFinalTimely
  <2> SUFFICES ASSUME BaseInv, TimelyInv, coordinatorState = "Done", NEW r \in ReduceTids
               PROVE  output[r].whole
    BY DEF OutputFinalTimely, OutputFinal
  <2>1. reduceTaskState[r].done
    BY LoopParts DEF BaseInv
  <2>2. PICK t \in ReduceTasks : t.tid = r /\ t.type = "Reduce"
    <3>1. Task("Reduce", r).type = "Reduce" /\ Task("Reduce", r).tid = r
      BY SMT DEF Task
    <3> QED BY <3>1, TaskTypes DEF ReduceTasks
  <2>3. TaskDone(t)
    BY <2>1, <2>2 DEF TaskDone
  <2> QED BY <2>2, <2>3 DEF TimelyInv, DoneOK, Settled
<1> QED BY <1>1, SpecBase, SpecTimely, PTL
=============================================================================
