------------------------- MODULE PoolManagerProofs -------------------------
(***************************************************************************)
(* The C++ thread pool manager for any number of submitters, threads, Task *)
(* objects and calls.  Whatever times out, wakes up for nothing or fails:  *)
(* Task objects are never lost or in two places, the queue overruns by at  *)
(* most one task per other submitter, and every variable keeps its type.   *)
(* While nothing of that kind happens: no task is lost or run twice, and   *)
(* undefined behaviour waits for a thread that starts too late.            *)
(***************************************************************************)
EXTENDS PoolManager, DistinctSequences

(* Where the dispatcher has a task.                                        *)
Holding == {"run", "get", "await", "nonempty", "hand", "save"}
DispatcherPlaces == Holding \cup {"none", "lock", "drain", "drained", "wait", "exited"}

TaskTypes ==
  /\ taskList \in Seq(TaskObjects) /\ idleList \in Seq(TaskObjects)
  /\ taskHeap \subseteq TaskObjects
  /\ spc \in [Submitters -> {"idle", "alloc", "push", "kick"}]
  /\ snode \in [Submitters -> TaskObjects \cup {NULL}]
  /\ dnode \in TaskObjects \cup {NULL} /\ dpc \in DispatcherPlaces
  /\ opc = "init" => dpc = "none"

(* Submitters and dispatcher hold an object just between taking and giving *)
(* it; the lists and the holders share none, and nothing else is allocated. *)
TaskPlaces ==
  /\ IsInjective(taskList) /\ IsInjective(idleList)
  /\ \A s \in Submitters : snode[s] # NULL <=> spc[s] = "push"
  /\ dnode # NULL <=> dpc \in Holding
  /\ Range(taskList) \cap Range(idleList) = {}
  /\ \A s \in Submitters :
       /\ snode[s] \notin Range(taskList) \cup Range(idleList)
       /\ snode[s] # NULL => snode[s] # dnode
  /\ \A s, r \in Submitters : snode[s] # NULL /\ snode[s] = snode[r] => s = r
  /\ dnode \notin Range(taskList) \cup Range(idleList)
  /\ \A n \in TaskObjects :
       n \in taskHeap <=> \/ n \in Range(taskList) \/ n \in Range(idleList)
                          \/ n = dnode \/ \E s \in Submitters : snode[s] = n

(* Calls of AddTask past the test of the size and before the insertion.    *)
Inserting == {s \in Submitters : spc[s] \in {"alloc", "push"}}

Overrun == Len(taskList) + Cardinality(Inserting) <= PoolSize + Cardinality(Submitters) - 1

TaskInv == TaskTypes /\ TaskPlaces /\ Overrun

USE ManagerAssumption DEF ManagerAssumption
-----------------------------------------------------------------------------
LEMMA InsertingCount ==
  ASSUME NEW S \in SUBSET Submitters, NEW s \in Submitters
  PROVE  /\ Cardinality(S) \in Nat /\ Cardinality(S) <= Cardinality(Submitters)
         /\ Cardinality(Submitters) \in Nat
         /\ s \in S => Cardinality(S \ {s}) = Cardinality(S) - 1
<1>1. IsFiniteSet(S) /\ Cardinality(S) <= Cardinality(Submitters)
  BY FS_Subset
<1> QED
  BY <1>1, FS_RemoveElement, FS_CardinalityType

(* A step that moves no Task object.                                       *)
LEMMA TasksStay ==
  ASSUME TaskInv, UNCHANGED <<taskList, idleList, taskHeap, spc, snode, dnode>>,
         dpc' \in DispatcherPlaces, dpc' \in Holding <=> dpc \in Holding,
         opc' = "init" => dpc' = "none"
  PROVE  TaskInv'
<1>1. TaskTypes'
  BY DEF TaskInv, TaskTypes
<1>2. TaskPlaces'
  BY DEF TaskInv, TaskPlaces
<1>3. Overrun'
  BY DEF TaskInv, Overrun, Inserting
<1> QED
  BY <1>1, <1>2, <1>3 DEF TaskInv

LEMMA TasksStart == Init => TaskInv
<1> SUFFICES ASSUME Init
             PROVE  TaskInv
  OBVIOUS
<1>1. TaskTypes
  BY EmptyDistinct DEF Init, TaskTypes, DispatcherPlaces
<1>2. TaskPlaces
  BY EmptyDistinct DEF Init, TaskPlaces, Holding
<1>3. Overrun
  <2>1. Inserting = {}
    BY DEF Init, Inserting
  <2>2. Cardinality(Inserting) = 0 /\ Cardinality(Submitters) \in Nat /\ Len(taskList) = 0
    BY <2>1, FS_EmptySet, FS_CardinalityType DEF Init
  <2> QED
    BY <2>2 DEF Overrun
<1> QED
  BY <1>1, <1>2, <1>3 DEF TaskInv

-----------------------------------------------------------------------------
(* The actions that move a Task object, one lemma each.                    *)

LEMMA AddTaskStep ==
  ASSUME TaskInv, NEW s \in Submitters, AddTask(s)
  PROVE  TaskInv'
<1>1. /\ spc[s] = "idle" /\ spc' = [spc EXCEPT ![s] = "alloc"] /\ Len(taskList) < PoolSize
      /\ UNCHANGED <<taskList, idleList, taskHeap, snode, dnode, dpc, opc>>
  BY DEF AddTask, RoomInTaskPool, taskVars, dispVars, ownerVars
<1>2. TaskTypes'
  BY <1>1 DEF TaskInv, TaskTypes
<1>3. \A r \in Submitters : spc'[r] = "push" <=> spc[r] = "push"
  BY <1>1 DEF TaskInv, TaskTypes
<1>4. TaskPlaces'
  BY <1>1, <1>3 DEF TaskInv, TaskPlaces
<1>5. Overrun'
  <2>1. Inserting' \in SUBSET Submitters
    BY DEF Inserting
  <2>2. /\ Cardinality(Inserting') \in Nat /\ Cardinality(Submitters) \in Nat
        /\ Cardinality(Inserting') <= Cardinality(Submitters)
    BY <2>1, InsertingCount
  <2>3. Len(taskList') <= PoolSize - 1 /\ Len(taskList') \in Nat
    BY <1>1 DEF TaskInv, TaskTypes
  <2> QED
    BY <2>2, <2>3 DEF Overrun
<1> QED
  BY <1>2, <1>4, <1>5 DEF TaskInv

LEMMA FillTaskStep ==
  ASSUME TaskInv, NEW s \in Submitters, FillTask(s)
  PROVE  TaskInv'
<1> USE DEF TaskInv
<1>1. /\ spc[s] = "alloc" /\ spc' = [spc EXCEPT ![s] = "push"] /\ idleList' = SpareTaken
      /\ UNCHANGED <<taskList, dnode, dpc, opc>>
  BY DEF FillTask, dispVars, ownerVars
<1>2. PICK n : /\ \/ idleList # <<>> /\ n = Head(idleList)
                  \/ idleList = <<>> /\ n \in TaskObjects \ taskHeap
               /\ snode' = [snode EXCEPT ![s] = n] /\ taskHeap' = taskHeap \cup {n}
  <2>1. CASE idleList # <<>>
    BY <2>1 DEF FillTask
  <2>2. CASE idleList = <<>>
    BY <2>2 DEF FillTask
  <2> QED
    BY <2>1, <2>2
<1>3. /\ n \in TaskObjects /\ idleList' \in Seq(TaskObjects) /\ IsInjective(idleList')
      /\ Range(idleList') = Range(idleList) \ {n} /\ n \notin Range(taskList) /\ n # dnode
      /\ \A r \in Submitters : snode[r] # n
      /\ n \in taskHeap => n \in Range(idleList)
  <2>1. CASE idleList # <<>>
    BY <1>1, <1>2, <2>1, TailOfDistinct DEF SpareTaken, TaskTypes, TaskPlaces
  <2>2. CASE idleList = <<>>
    <3>1. n \in TaskObjects \ taskHeap /\ idleList' = <<>>
      BY <1>1, <1>2, <2>2 DEF SpareTaken
    <3> QED
      BY <2>2, <3>1, EmptyDistinct DEF TaskTypes, TaskPlaces
  <2> QED
    BY <2>1, <2>2
<1>4. TaskTypes'
  BY <1>1, <1>2, <1>3 DEF TaskTypes
<1>5. \A r \in Submitters : /\ snode'[r] = IF r = s THEN n ELSE snode[r]
                            /\ spc'[r] = IF r = s THEN "push" ELSE spc[r]
  BY <1>1, <1>2 DEF TaskTypes
<1>6. snode[s] = NULL /\ n # NULL
  BY <1>1, <1>3 DEF TaskPlaces
<1>7. TaskPlaces'
  <2>1. \A r \in Submitters :
          /\ snode'[r] # NULL <=> spc'[r] = "push"
          /\ snode'[r] \notin Range(taskList') \cup Range(idleList')
          /\ snode'[r] # NULL => snode'[r] # dnode'
    BY <1>1, <1>3, <1>5, <1>6 DEF TaskPlaces
  <2>2. \A r, q \in Submitters : snode'[r] # NULL /\ snode'[r] = snode'[q] => r = q
    BY <1>3, <1>5 DEF TaskPlaces
  <2>3. ASSUME NEW m \in TaskObjects
        PROVE  m \in taskHeap' <=> \/ m \in Range(taskList') \/ m \in Range(idleList')
                                   \/ m = dnode' \/ \E r \in Submitters : snode'[r] = m
    <3>1. CASE m = n
      BY <1>2, <1>5, <3>1
    <3>2. CASE m # n
      <4>1. m \in taskHeap' <=> m \in taskHeap
        BY <1>2, <3>2
      <4>2. (\E r \in Submitters : snode'[r] = m) <=> (\E r \in Submitters : snode[r] = m)
        BY <1>3, <1>5, <1>6, <3>2
      <4> QED
        BY <1>1, <1>3, <3>2, <4>1, <4>2 DEF TaskPlaces
    <3> QED
      BY <3>1, <3>2
  <2> QED
    BY <1>1, <1>3, <2>1, <2>2, <2>3 DEF TaskPlaces
<1>8. Overrun'
  <2>1. Inserting' = Inserting
    BY <1>1, <1>5 DEF Inserting
  <2> QED
    BY <1>1, <2>1 DEF Overrun
<1> QED
  BY <1>4, <1>7, <1>8

LEMMA PushTaskStep ==
  ASSUME TaskInv, NEW s \in Submitters, PushTask(s)
  PROVE  TaskInv'
<1> USE DEF TaskInv
<1> DEFINE n == snode[s]
<1>1. /\ spc[s] = "push" /\ spc' = [spc EXCEPT ![s] = "kick"]
      /\ taskList' = Append(taskList, n) /\ snode' = [snode EXCEPT ![s] = NULL]
      /\ UNCHANGED <<idleList, taskHeap, dnode, dpc, opc>>
  BY DEF PushTask, dispVars, ownerVars
<1>2. n \in TaskObjects /\ n \notin Range(taskList) /\ n \notin Range(idleList) /\ n # dnode
  BY <1>1 DEF TaskTypes, TaskPlaces
<1>3. /\ taskList' \in Seq(TaskObjects) /\ Len(taskList') = Len(taskList) + 1
      /\ IsInjective(taskList') /\ Range(taskList') = Range(taskList) \cup {n}
  BY <1>1, <1>2, AppendToDistinct DEF TaskTypes, TaskPlaces
<1>4. \A r \in Submitters : /\ snode'[r] = IF r = s THEN NULL ELSE snode[r]
                            /\ spc'[r] = IF r = s THEN "kick" ELSE spc[r]
  BY <1>1 DEF TaskTypes
<1>5. TaskTypes'
  BY <1>1, <1>3 DEF TaskTypes
<1>6. \A r \in Submitters : r # s => snode[r] # n
  BY <1>1 DEF TaskPlaces
<1>7. TaskPlaces'
  <2>1. \A r \in Submitters :
          /\ snode'[r] # NULL <=> spc'[r] = "push"
          /\ snode'[r] \notin Range(taskList') \cup Range(idleList')
          /\ snode'[r] # NULL => snode'[r] # dnode'
    <3> SUFFICES ASSUME NEW r \in Submitters
                 PROVE  /\ snode'[r] # NULL <=> spc'[r] = "push"
                        /\ snode'[r] \notin Range(taskList') \cup Range(idleList')
                        /\ snode'[r] # NULL => snode'[r] # dnode'
      OBVIOUS
    <3>1. CASE r = s
      <4>1. NULL \notin Range(taskList') /\ NULL \notin Range(idleList)
        BY <1>3, <1>5 DEF Range, TaskTypes
      <4> QED
        BY <1>1, <1>4, <3>1, <4>1
    <3>2. CASE r # s
      BY <1>1, <1>3, <1>4, <1>6, <3>2 DEF TaskPlaces
    <3> QED
      BY <3>1, <3>2
  <2>2. \A r, q \in Submitters : snode'[r] # NULL /\ snode'[r] = snode'[q] => r = q
    BY <1>4 DEF TaskPlaces
  <2>3. ASSUME NEW m \in TaskObjects
        PROVE  m \in taskHeap' <=> \/ m \in Range(taskList') \/ m \in Range(idleList')
                                   \/ m = dnode' \/ \E r \in Submitters : snode'[r] = m
    <3>1. CASE m = n
      BY <1>1, <1>3, <3>1 DEF TaskPlaces
    <3>2. CASE m # n
      <4>1. (\E r \in Submitters : snode'[r] = m) <=> (\E r \in Submitters : snode[r] = m)
        BY <1>4, <3>2
      <4> QED
        BY <1>1, <1>3, <3>2, <4>1 DEF TaskPlaces
    <3> QED
      BY <3>1, <3>2
  <2> QED
    BY <1>1, <1>2, <1>3, <2>1, <2>2, <2>3 DEF TaskPlaces
<1>8. Overrun'
  <2>1. Inserting' = Inserting \ {s} /\ s \in Inserting /\ Inserting \in SUBSET Submitters
    BY <1>1, <1>4 DEF Inserting
  <2>2. /\ Cardinality(Inserting') = Cardinality(Inserting) - 1
        /\ Cardinality(Inserting) \in Nat /\ Cardinality(Submitters) \in Nat
    BY <2>1, InsertingCount
  <2>3. Len(taskList) \in Nat
    BY DEF TaskTypes
  <2> QED
    BY <1>3, <2>2, <2>3 DEF Overrun
<1> QED
  BY <1>5, <1>7, <1>8

LEMMA KickStep ==
  ASSUME TaskInv, NEW s \in Submitters, Kick(s)
  PROVE  TaskInv'
<1> USE DEF TaskInv
<1>1. /\ spc[s] = "kick" /\ spc' = [spc EXCEPT ![s] = "idle"]
      /\ dpc' = dpc \/ (dpc = "wait" /\ dpc' = "lock")
      /\ UNCHANGED <<taskList, idleList, taskHeap, snode, dnode, opc>>
  BY DEF Kick, SignalTask, taskVars, ownerVars
<1>2. TaskTypes'
  BY <1>1 DEF TaskTypes, DispatcherPlaces
<1>3. /\ \A r \in Submitters : spc'[r] = IF r = s THEN "idle" ELSE spc[r]
      /\ dpc' \in Holding <=> dpc \in Holding
  BY <1>1 DEF TaskTypes, Holding
<1>4. TaskPlaces'
  BY <1>1, <1>3 DEF TaskPlaces
<1>5. Inserting' = Inserting
  BY <1>1, <1>3 DEF Inserting
<1>6. Overrun'
  BY <1>1, <1>5 DEF Overrun
<1> QED
  BY <1>2, <1>4, <1>6

LEMMA CheckIdleTaskStep ==
  ASSUME TaskInv, CheckIdleTask
  PROVE  TaskInv'
<1> USE DEF TaskInv
<1>1. PICK k \in 0 .. Len(idleList) :
        /\ idleList' = SubSeq(idleList, 1, k)
        /\ taskHeap' = taskHeap \ {idleList[i] : i \in k + 1 .. Len(idleList)}
  BY DEF CheckIdleTask
<1>2. UNCHANGED <<taskList, spc, snode, dnode, dpc, opc>>
  BY DEF CheckIdleTask, submitVars, dispVars, ownerVars
<1> DEFINE gone == {idleList[i] : i \in k + 1 .. Len(idleList)}
<1>3. /\ idleList' \in Seq(TaskObjects) /\ IsInjective(idleList')
      /\ Range(idleList') = Range(idleList) \ gone
  BY <1>1, PrefixOfDistinct DEF TaskTypes, TaskPlaces
<1>4. gone \subseteq Range(idleList)
  BY <1>1 DEF TaskTypes, Range
<1>5. taskHeap' = taskHeap \ gone
  BY <1>1
<1> HIDE DEF gone
<1>6. TaskTypes'
  BY <1>2, <1>3, <1>5 DEF TaskTypes
<1>7. TaskPlaces'
  BY <1>2, <1>3, <1>4, <1>5 DEF TaskPlaces
<1>8. Overrun'
  BY <1>2 DEF Overrun, Inserting
<1> QED
  BY <1>6, <1>7, <1>8

LEMMA GetTaskStep ==
  ASSUME TaskInv, GetTask
  PROVE  TaskInv'
<1> USE DEF TaskInv
<1>1. /\ dpc = "drain" /\ dnode = NULL
      /\ UNCHANGED <<idleList, taskHeap, spc, snode, opc>>
  BY DEF GetTask, TaskPlaces, Holding, submitVars, ownerVars
<1>2. CASE taskList = <<>>
  <2>1. dpc' = "drained" /\ UNCHANGED <<taskList, dnode>>
    BY <1>2 DEF GetTask
  <2> QED
    BY <1>1, <2>1, TasksStay DEF DispatcherPlaces, Holding, TaskTypes
<1>3. CASE taskList # <<>>
  <2> DEFINE n == Head(taskList)
  <2>1. dpc' = "run" /\ dnode' = n /\ taskList' = Tail(taskList)
    BY <1>3 DEF GetTask
  <2>2. /\ n \in Range(taskList) /\ n \in TaskObjects
        /\ taskList' \in Seq(TaskObjects) /\ Len(taskList') = Len(taskList) - 1
        /\ IsInjective(taskList') /\ Range(taskList') = Range(taskList) \ {n}
    BY <1>3, <2>1, TailOfDistinct DEF TaskTypes, TaskPlaces
  <2> HIDE DEF n
  <2>3. TaskTypes'
    BY <1>1, <2>1, <2>2 DEF TaskTypes, DispatcherPlaces, Holding
  <2>4. n # NULL /\ n \notin Range(idleList) /\ \A s \in Submitters : snode[s] # n
    BY <2>2 DEF TaskPlaces
  <2>5. TaskPlaces'
    BY <1>1, <2>1, <2>2, <2>4 DEF TaskPlaces, Holding
  <2>6. Overrun'
    <3>1. Inserting' = Inserting
      BY <1>1 DEF Inserting
    <3>2. Len(taskList) \in Nat /\ Cardinality(Inserting) \in Nat /\ Cardinality(Submitters) \in Nat
      BY FS_Subset, FS_CardinalityType DEF TaskTypes, Inserting
    <3> QED
      BY <2>2, <3>1, <3>2 DEF Overrun
  <2> QED
    BY <2>3, <2>5, <2>6
<1> QED
  BY <1>2, <1>3

LEMMA SaveIdleTaskStep ==
  ASSUME TaskInv, SaveIdleTask
  PROVE  TaskInv'
<1> USE DEF TaskInv
<1>1. /\ dpc = "save" /\ dpc' = "drain" /\ dnode' = NULL /\ idleList' = <<dnode>> \o idleList
      /\ UNCHANGED <<taskList, taskHeap, spc, snode, opc>>
  BY DEF SaveIdleTask, submitVars, ownerVars
<1>2. /\ dnode \in TaskObjects /\ dnode \notin Range(taskList) /\ dnode \notin Range(idleList)
      /\ \A s \in Submitters : snode[s] # dnode
  BY <1>1 DEF TaskTypes, TaskPlaces, Holding
<1>3. /\ idleList' \in Seq(TaskObjects) /\ IsInjective(idleList')
      /\ Range(idleList') = Range(idleList) \cup {dnode}
  BY <1>1, <1>2, ConsToDistinct DEF TaskTypes, TaskPlaces
<1>4. TaskTypes'
  BY <1>1, <1>3 DEF TaskTypes, DispatcherPlaces
<1>5. NULL \notin Range(taskList) /\ NULL \notin Range(idleList')
  BY <1>3 DEF Range, TaskTypes
<1>6. TaskPlaces'
  BY <1>1, <1>2, <1>3, <1>5 DEF TaskPlaces, Holding
<1>7. Overrun'
  BY <1>1 DEF Overrun, Inserting
<1> QED
  BY <1>4, <1>6, <1>7

-----------------------------------------------------------------------------
(* All others leave the Task objects where they are.                       *)

LEMMA DispatcherStep ==
  ASSUME TaskInv, Dispatcher
  PROVE  TaskInv'
<1>1. CASE GetTask
  BY <1>1, GetTaskStep
<1>2. CASE SaveIdleTask
  BY <1>2, SaveIdleTaskStep
<1>3. CASE LockTask \/ CheckStop \/ TaskCondTimeout \/ RunTask \/ GetThread \/ GetThreadAwake
           \/ HandTask
  <2>1. UNCHANGED <<taskList, idleList, taskHeap, spc, snode, dnode, opc>>
    BY <1>3 DEF LockTask, CheckStop, TaskCondTimeout, RunTask, GetThread, GetThreadAwake,
                HandTask, taskVars, submitVars, ownerVars
  <2>2. \/ dpc = "lock" /\ dpc' = "drain"
        \/ dpc = "drained" /\ dpc' \in {"exited", "wait"}
        \/ dpc = "wait" /\ dpc' = "lock"
        \/ dpc \in {"run", "get", "nonempty", "hand"}
             /\ dpc' \in {"get", "await", "nonempty", "hand", "save"}
    BY <1>3 DEF LockTask, CheckStop, TaskCondTimeout, RunTask, GetThread, GetThreadAwake,
                HandTask, TakeFront, TaskWaitOver
  <2> QED
    BY <2>1, <2>2, TasksStay DEF DispatcherPlaces, Holding, TaskInv, TaskTypes
<1> QED
  BY <1>1, <1>2, <1>3 DEF Dispatcher

LEMMA OwnerStep ==
  ASSUME TaskInv, Owner
  PROVE  TaskInv'
<1>1. CASE InitPool \/ StopTaskPool \/ StopThreadPool \/ TerminalCheck \/ SendSignal \/ Destroyed
  <2>1. /\ UNCHANGED <<taskList, idleList, taskHeap, spc, snode, dnode, dpc>>
        /\ opc' = "init" => opc = "init"
    BY <1>1 DEF InitPool, StopTaskPool, StopThreadPool, TerminalCheck, SendSignal, Destroyed,
                taskVars, submitVars, dispVars
  <2> QED
    BY <2>1, TasksStay DEF TaskInv, TaskTypes
<1>2. CASE InitDone
  <2>1. /\ UNCHANGED <<taskList, idleList, taskHeap, spc, snode, dnode>> /\ dpc = "none"
        /\ (opc' = "use" /\ dpc' = "lock") \/ UNCHANGED <<opc, dpc>>
    BY <1>2 DEF InitDone, taskVars, submitVars, TaskInv, TaskTypes
  <2> QED
    BY <2>1, TasksStay DEF TaskInv, TaskTypes, DispatcherPlaces, Holding
<1>3. CASE StopDispatcher
  <2>1. /\ UNCHANGED <<taskList, idleList, taskHeap, spc, snode, dnode>>
        /\ opc' = "join" /\ (dpc' = dpc \/ (dpc = "wait" /\ dpc' = "lock"))
    BY <1>3 DEF StopDispatcher, SignalTask, taskVars, submitVars
  <2> QED
    BY <2>1, TasksStay DEF TaskInv, TaskTypes, DispatcherPlaces, Holding
<1> QED
  BY <1>1, <1>2, <1>3 DEF Owner

LEMMA PoolThreadStep ==
  ASSUME TaskInv, NEW t \in Threads, PoolThread(t)
  PROVE  TaskInv'
<1>1. UNCHANGED <<taskList, idleList, taskHeap, spc, snode, dnode, opc>>
  BY DEF PoolThread, IncreaseTotalNum, RunSlot, CheckPoolStop, SaveIdleThread, ExitThread,
         taskVars, submitVars, dispVars, ownerVars
<1>2. dpc' = dpc \/ (dpc = "await" /\ dpc' = "nonempty")
  BY DEF PoolThread, IncreaseTotalNum, RunSlot, CheckPoolStop, SaveIdleThread, ExitThread,
         dispVars
<1> QED
  BY <1>1, <1>2, TasksStay DEF TaskInv, TaskTypes, DispatcherPlaces, Holding

LEMMA EnvironmentStep ==
  ASSUME TaskInv, Environment
  PROVE  TaskInv'
<1>1. ASSUME NEW s \in Submitters, AddTask(s)
      PROVE  TaskInv'
  BY <1>1, AddTaskStep
<1>2. CASE StopAll \/ SpuriousEmptyCond \/ UseAfterDelete
           \/ \E t \in Threads : IdleTimeout(t) \/ SpuriousWake(t)
  <2>1. /\ UNCHANGED <<taskList, idleList, taskHeap, spc, snode, dnode>>
        /\ opc' = "init" => opc = "init"
        /\ dpc' = dpc \/ (dpc = "await" /\ dpc' = "nonempty")
    BY <1>2 DEF StopAll, SpuriousEmptyCond, UseAfterDelete, IdleTimeout, SpuriousWake,
                taskVars, submitVars, dispVars, ownerVars
  <2> QED
    BY <2>1, TasksStay DEF TaskInv, TaskTypes, DispatcherPlaces, Holding
<1> QED
  BY <1>1, <1>2 DEF Environment

LEMMA TasksStep == TaskInv /\ [Next]_vars => TaskInv'
<1> SUFFICES ASSUME TaskInv, [Next]_vars
             PROVE  TaskInv'
  OBVIOUS
<1>1. CASE Environment
  BY <1>1, EnvironmentStep
<1>2. CASE Owner
  BY <1>2, OwnerStep
<1>3. CASE Dispatcher
  BY <1>3, DispatcherStep
<1>4. CASE CheckIdleTask
  BY <1>4, CheckIdleTaskStep
<1>5. ASSUME NEW s \in Submitters, Submitter(s)
      PROVE  TaskInv'
  BY <1>5, FillTaskStep, PushTaskStep, KickStep DEF Submitter
<1>6. ASSUME NEW t \in Threads, PoolThread(t)
      PROVE  TaskInv'
  BY <1>6, PoolThreadStep
<1>7. CASE UNCHANGED vars
  <2>1. UNCHANGED <<taskList, idleList, taskHeap, spc, snode, dnode, dpc, opc>>
    BY <1>7 DEF vars, taskVars, submitVars, dispVars, ownerVars
  <2> QED
    BY <2>1, TasksStay DEF TaskInv, TaskTypes
<1> QED
  BY <1>1, <1>2, <1>3, <1>4, <1>5, <1>6, <1>7 DEF Next

LEMMA TasksInvariant == Spec => []TaskInv
BY TasksStart, TasksStep, PTL DEF Spec

-----------------------------------------------------------------------------
(* However many submitters pass the test of the size before one of them    *)
(* inserts its task, the queue holds at most one task too many per other   *)
(* submitter.                                                              *)
THEOREM QueueNearlyBounded == Spec => []QueueOverrun
<1>1. TaskInv => QueueOverrun
  <2> SUFFICES ASSUME TaskInv
               PROVE  QueueOverrun
    OBVIOUS
  <2>1. Len(taskList) \in Nat /\ Cardinality(Inserting) \in Nat /\ Cardinality(Submitters) \in Nat
    BY FS_Subset, FS_CardinalityType DEF TaskInv, TaskTypes, Inserting
  <2> QED
    BY <2>1 DEF TaskInv, Overrun, QueueOverrun
<1> QED
  BY <1>1, TasksInvariant, PTL

(* A Task object is queued, spare, with one submitter or with the          *)
(* dispatcher, and in one of these places once: none is lost, and          *)
(* CheckIdleTask never deletes one that is in use.                         *)
THEOREM TaskObjectsOwned == Spec => []TaskObjectOwned
<1>1. TaskInv => TaskObjectOwned
  <2> SUFFICES ASSUME TaskInv, NEW n \in TaskObjects
               PROVE  Cardinality({i \in DOMAIN taskList : taskList[i] = n})
                      + Cardinality({i \in DOMAIN idleList : idleList[i] = n})
                      + Cardinality({s \in Submitters : snode[s] = n})
                      + (IF dnode = n THEN 1 ELSE 0)
                      = (IF n \in taskHeap THEN 1 ELSE 0)
    BY DEF TaskObjectOwned
  <2> USE DEF TaskInv
  <2> DEFINE holders == {s \in Submitters : snode[s] = n}
  <2>1. /\ Cardinality({i \in DOMAIN taskList : taskList[i] = n})
             = IF n \in Range(taskList) THEN 1 ELSE 0
        /\ Cardinality({i \in DOMAIN idleList : idleList[i] = n})
             = IF n \in Range(idleList) THEN 1 ELSE 0
    BY OccursOnce DEF TaskTypes, TaskPlaces
  <2>2. Cardinality(holders) = IF \E s \in Submitters : snode[s] = n THEN 1 ELSE 0
    <3>1. CASE \E s \in Submitters : snode[s] = n
      <4>1. PICK s \in Submitters : snode[s] = n
        BY <3>1
      <4>2. holders = {s}
        BY <4>1 DEF TaskPlaces
      <4> QED
        BY <3>1, <4>2, FS_Singleton
    <3>2. CASE ~\E s \in Submitters : snode[s] = n
      <4>1. holders = {}
        BY <3>2
      <4> QED
        BY <3>2, <4>1, FS_EmptySet
    <3> QED
      BY <3>1, <3>2
  <2>3. /\ n \in taskHeap <=> \/ n \in Range(taskList) \/ n \in Range(idleList)
                              \/ n = dnode \/ \E s \in Submitters : snode[s] = n
        /\ ~(n \in Range(taskList) /\ n \in Range(idleList))
        /\ n = dnode => n \notin Range(taskList) /\ n \notin Range(idleList)
        /\ (\E s \in Submitters : snode[s] = n) =>
             n \notin Range(taskList) /\ n \notin Range(idleList) /\ n # dnode
    BY DEF TaskPlaces
  <2> HIDE DEF holders
  <2>4. Cardinality({i \in DOMAIN taskList : taskList[i] = n})
        + Cardinality({i \in DOMAIN idleList : idleList[i] = n})
        + Cardinality(holders) + (IF dnode = n THEN 1 ELSE 0)
        = (IF n \in taskHeap THEN 1 ELSE 0)
    BY <2>1, <2>2, <2>3
  <2> QED
    BY <2>4 DEF holders
<1> QED
  BY <1>1, TasksInvariant, PTL
-----------------------------------------------------------------------------
(* The pool threads, the calls and the owner.                              *)

(* The threads that have counted themselves, and calls of AddTask.         *)
Counted == {t \in Threads : tpc[t] \notin {"none", "start", "dead"}}
Allocating == {s \in Submitters : spc[s] = "alloc"}

(* The types of the rest of the state, with what they rest on: the pool    *)
(* counts its threads, and every call that was let in has a number left.   *)
ThreadTypes ==
  /\ threads \in Seq(Threads) /\ totalNum = Cardinality(Counted)
  /\ tpc \in [Threads -> {"none", "start", "top", "check", "saving", "waiting", "exit", "dead"}]
  /\ slot \in [Threads -> 0 .. MaxRuns] /\ done \in Seq(1 .. MaxRuns)
  /\ dthread \in Threads \cup {NULL} /\ (dpc = "hand" => dthread \in Threads)

CallTypes ==
  /\ content \in [TaskObjects -> 0 .. MaxRuns]
  /\ accepted \in Nat /\ accepted + Cardinality(Allocating) <= MaxRuns

OwnerTypes ==
  /\ idlePc \in {"wait", "exited"} /\ taskStop \in BOOLEAN
  /\ termPc \in {"none", "check", "signal", "done"} /\ termNext \in Nat \ {0}
  /\ opc \in {"init", "use", "wake", "join", "idle_join", "terminal", "destroyed"}
  /\ created \in 0 .. PoolPre /\ managerStop \in BOOLEAN /\ poolStop \in BOOLEAN
  /\ timeouts \in Nat /\ spurious \in Nat /\ fails \in Nat /\ undefined \in BOOLEAN

ManagerTypes == ThreadTypes /\ CallTypes /\ OwnerTypes

(* The order in which the owner ends the others.                           *)
OwnerPlace ==
  /\ opc \notin {"init", "use"} => \A s \in Submitters : spc[s] = "idle"
  /\ opc \in {"idle_join", "terminal", "destroyed"} => dpc = "exited"
  /\ poolStop <=> opc \in {"terminal", "destroyed"}
  /\ termPc # "none" <=> poolStop
  /\ opc = "destroyed" => termPc = "done"

TypedInv == TaskInv /\ ManagerTypes /\ OwnerPlace

(* The threads of the list wait, each in it once, until SendSignal wakes   *)
(* them for the last time.                                                 *)
IdleThreads ==
  /\ IsInjective(threads)
  /\ \A t \in Range(threads) :
       tpc[t] = "waiting" \/ (poolStop /\ tpc[t] \in {"top", "check", "exit"})
  /\ \A t \in Threads : tpc[t] = "exit" => poolStop
  /\ dpc = "hand" => tpc[dthread] = "waiting" /\ dthread \notin Range(threads)
  /\ dpc = "nonempty" => threads # <<>>

(* A thread that is not on its way to a task or from one has none.         *)
EmptySlots ==
  /\ \A t \in Threads : tpc[t] \in {"none", "start", "saving", "waiting"} => slot[t] = 0
  /\ termPc = "done" =>
       \A t \in Threads : Alive(t) => slot[t] = 0 /\ tpc[t] \in {"start", "top", "check", "exit"}

(* Task objects whose task has not been handed over.                       *)
Unhanded ==
  {n \in TaskObjects : n \in Range(taskList) \/ n \in Filling \/ (n = dnode /\ dpc # "save")}

(* Each accepted task has one place; no two places have the same task.     *)
Numbered ==
  /\ \A n \in Unhanded : content[n] \in 1 .. accepted
  /\ \A n, m \in Unhanded : content[n] = content[m] => n = m
  /\ \A t \in Threads : Assigned(t) => slot[t] \in 1 .. accepted
  /\ \A t, u \in Threads : Assigned(t) /\ Assigned(u) /\ slot[t] = slot[u] => t = u
  /\ IsInjective(done) /\ Range(done) \subseteq 1 .. accepted
  /\ \A n \in Unhanded : \A t \in Threads : Assigned(t) => content[n] # slot[t]
  /\ \A n \in Unhanded : content[n] \notin Range(done)
  /\ \A t \in Threads : Assigned(t) => slot[t] \notin Range(done)
  /\ \A k \in 1 .. accepted :
       \/ \E n \in Unhanded : content[n] = k
       \/ \E t \in Threads : Assigned(t) /\ slot[t] = k
       \/ k \in Range(done)

Sound == undefined => opc = "destroyed"

Healthy == ~Disturbed => IdleThreads /\ EmptySlots /\ Numbered /\ Sound

ManagerInv == TypedInv /\ Healthy

-----------------------------------------------------------------------------
(* Types.                                                                  *)

LEMMA CountedStays ==
  ASSUME ThreadTypes, NEW t \in Threads,
         NEW l \in {"none", "start", "top", "check", "saving", "waiting", "exit", "dead"},
         tpc' = [tpc EXCEPT ![t] = l],
         tpc[t] \in {"none", "start", "dead"} <=> l \in {"none", "start", "dead"}
  PROVE  /\ Counted' = Counted
         /\ tpc' \in [Threads -> {"none", "start", "top", "check", "saving", "waiting", "exit",
                                  "dead"}]
BY DEF ThreadTypes, Counted

LEMMA CountedMoves ==
  ASSUME NEW t \in Threads
  PROVE  /\ Cardinality(Counted) \in Nat /\ Cardinality(Threads) \in Nat
         /\ Cardinality(Counted) <= Cardinality(Threads)
         /\ t \notin Counted => Cardinality(Counted \cup {t}) = Cardinality(Counted) + 1
         /\ t \in Counted => Cardinality(Counted \ {t}) = Cardinality(Counted) - 1
<1>1. IsFiniteSet(Counted) /\ Cardinality(Counted) <= Cardinality(Threads)
  BY FS_Subset DEF Counted
<1> QED
  BY <1>1, FS_AddElement, FS_RemoveElement, FS_CardinalityType

LEMMA AllocatingMoves ==
  ASSUME NEW s \in Submitters
  PROVE  /\ Cardinality(Allocating) \in Nat
         /\ s \notin Allocating => Cardinality(Allocating \cup {s}) = Cardinality(Allocating) + 1
         /\ s \in Allocating => Cardinality(Allocating \ {s}) = Cardinality(Allocating) - 1
<1>1. IsFiniteSet(Allocating)
  BY FS_Subset DEF Allocating
<1> QED
  BY <1>1, FS_AddElement, FS_RemoveElement, FS_CardinalityType

LEMMA RemovalOf ==
  ASSUME threads \in Seq(Threads), NEW t
  PROVE  /\ RemoveThread(t) \in Seq(Threads) /\ Range(RemoveThread(t)) = Range(threads) \ {t}
         /\ IsInjective(threads) => IsInjective(RemoveThread(t))
<1> DEFINE kept == CHOOSE g : g = [i \in 0 .. Len(threads) |->
                     IF i = 0 THEN <<>>
                     ELSE IF threads[i] = t THEN g[i - 1] ELSE Append(g[i - 1], threads[i])]
<1>1. KeptFrom(threads, t, kept, Len(threads))
  <2>1. \E g : KeptFrom(threads, t, g, Len(threads))
    <3>1. Len(threads) \in Nat
      OBVIOUS
    <3> QED
      BY <3>1, KeptExists
  <2> QED
    BY <2>1 DEF KeptFrom
<1>2. RemoveThread(t) = kept[Len(threads)]
  BY DEF RemoveThread
<1> HIDE DEF kept
<1> QED
  BY <1>1, <1>2, KeptElements

(* What a thread does to itself.                                           *)
LEMMA ThreadKeepsTypes ==
  ASSUME TaskInv, ThreadTypes, NEW t \in Threads,
         PoolThread(t) \/ IdleTimeout(t) \/ SpuriousWake(t)
  PROVE  ThreadTypes'
<1>1. UNCHANGED dthread /\ (dpc' = "hand" => dpc = "hand")
  BY DEF PoolThread, IncreaseTotalNum, RunSlot, CheckPoolStop, SaveIdleThread, ExitThread,
         IdleTimeout, SpuriousWake, dispVars
<1>2. CASE IncreaseTotalNum(t)
  <2>1. tpc[t] = "start" /\ tpc' = [tpc EXCEPT ![t] = "top"] /\ totalNum' = totalNum + 1
        /\ UNCHANGED <<threads, slot, done>>
    BY <1>2 DEF IncreaseTotalNum
  <2>2. t \notin Counted /\ Counted' = Counted \cup {t}
    BY <2>1 DEF Counted, ThreadTypes
  <2>3. totalNum' = Cardinality(Counted')
    BY <2>1, <2>2, CountedMoves DEF ThreadTypes
  <2> QED
    BY <1>1, <2>1, <2>3 DEF ThreadTypes
<1>3. CASE RunSlot(t)
  <2>1. tpc[t] = "top" /\ tpc' = [tpc EXCEPT ![t] = "check"]
        /\ done' = (IF slot[t] # 0 THEN Append(done, slot[t]) ELSE done)
        /\ UNCHANGED <<threads, totalNum, slot>>
    BY <1>3 DEF RunSlot, poolVars
  <2>2. done' \in Seq(1 .. MaxRuns)
    <3>1. done \in Seq(1 .. MaxRuns) /\ slot[t] \in 0 .. MaxRuns
      BY DEF ThreadTypes
    <3>2. CASE slot[t] = 0
      BY <2>1, <3>1, <3>2
    <3>3. CASE slot[t] # 0
      <4>1. slot[t] \in 1 .. MaxRuns /\ done' = Append(done, slot[t])
        BY <2>1, <3>1, <3>3
      <4> QED
        BY <3>1, <4>1
    <3> QED
      BY <3>2, <3>3
  <2>3. Counted' = Counted
        /\ tpc' \in [Threads -> {"none", "start", "top", "check", "saving", "waiting", "exit",
                                 "dead"}]
    BY <2>1, CountedStays
  <2> QED
    BY <1>1, <2>1, <2>2, <2>3 DEF ThreadTypes
<1>4. CASE CheckPoolStop(t)
  <2>1. /\ tpc[t] = "check" /\ UNCHANGED <<threads, totalNum, done>>
        /\ \/ tpc' = [tpc EXCEPT ![t] = "exit"] /\ slot' = slot
           \/ tpc' = [tpc EXCEPT ![t] = "saving"] /\ slot' = [slot EXCEPT ![t] = 0]
    BY <1>4 DEF CheckPoolStop, ClearSlot, poolVars
  <2>2. slot' \in [Threads -> 0 .. MaxRuns]
    <3>1. slot \in [Threads -> 0 .. MaxRuns] /\ 0 \in 0 .. MaxRuns
      BY DEF ThreadTypes
    <3>2. slot' = slot \/ slot' = [slot EXCEPT ![t] = 0]
      BY <2>1
    <3> QED
      BY <3>1, <3>2
  <2>3. Counted' = Counted
        /\ tpc' \in [Threads -> {"none", "start", "top", "check", "saving", "waiting", "exit",
                                 "dead"}]
    BY <2>1, CountedStays
  <2> QED
    BY <1>1, <2>1, <2>2, <2>3 DEF ThreadTypes
<1>5. CASE SaveIdleThread(t)
  <2>1. tpc[t] = "saving" /\ tpc' = [tpc EXCEPT ![t] = "waiting"] /\ threads' = <<t>> \o threads
        /\ UNCHANGED <<totalNum, slot, done>>
    BY <1>5 DEF SaveIdleThread
  <2>2. threads' \in Seq(Threads)
    BY <2>1 DEF ThreadTypes
  <2> QED
    BY <1>1, <2>1, <2>2, CountedStays DEF ThreadTypes
<1>6. CASE ExitThread(t)
  <2>1. tpc[t] = "exit" /\ tpc' = [tpc EXCEPT ![t] = "dead"] /\ totalNum' = totalNum - 1
        /\ threads' = RemoveThread(t) /\ UNCHANGED <<slot, done>>
    BY <1>6 DEF ExitThread
  <2>2. t \in Counted /\ Counted' = Counted \ {t}
    BY <2>1 DEF Counted, ThreadTypes
  <2>3. totalNum' = Cardinality(Counted')
    BY <2>1, <2>2, CountedMoves DEF ThreadTypes
  <2>4. threads' \in Seq(Threads)
    BY <2>1, RemovalOf DEF ThreadTypes
  <2> QED
    BY <1>1, <2>1, <2>3, <2>4 DEF ThreadTypes
<1>7. CASE IdleTimeout(t) \/ SpuriousWake(t)
  <2>1. PICK l \in {"exit", "top"} : tpc[t] = "waiting" /\ tpc' = [tpc EXCEPT ![t] = l]
        /\ UNCHANGED <<threads, totalNum, slot, done>>
    BY <1>7 DEF IdleTimeout, SpuriousWake, poolVars
  <2> QED
    BY <1>1, <2>1, CountedStays DEF ThreadTypes
<1> QED
  BY <1>2, <1>3, <1>4, <1>5, <1>6, <1>7 DEF PoolThread

LEMMA CreateKeepsCount ==
  ASSUME ThreadTypes, CreateThread
  PROVE  /\ \/ tpc' = tpc
            \/ \E t \in Threads : tpc[t] = "none" /\ tpc' = [tpc EXCEPT ![t] = "start"]
         /\ Counted' = Counted
         /\ tpc' \in [Threads -> {"none", "start", "top", "check", "saving", "waiting", "exit",
                                  "dead"}]
<1>1. CASE Fresh # {} /\ tpc' = [tpc EXCEPT ![CHOOSE t \in Fresh : TRUE] = "start"]
  <2>1. PICK t \in Fresh : tpc' = [tpc EXCEPT ![t] = "start"]
    BY <1>1
  <2>2. t \in Threads /\ tpc[t] = "none"
    BY DEF Fresh
  <2>3. Counted' = Counted
    BY <2>1, <2>2, CountedStays
  <2>4. tpc' \in [Threads -> {"none", "start", "top", "check", "saving", "waiting", "exit",
                              "dead"}]
    BY <2>1, <2>2, CountedStays
  <2> QED
    BY <2>1, <2>2, <2>3, <2>4
<1>2. CASE tpc' = tpc
  BY <1>2 DEF ThreadTypes, Counted
<1> QED
  BY <1>1, <1>2 DEF CreateThread

LEMMA WakeKeepsCount ==
  ASSUME ThreadTypes, NEW t \in Threads, Wake(t)
  PROVE  /\ Counted' = Counted
         /\ tpc' \in [Threads -> {"none", "start", "top", "check", "saving", "waiting", "exit",
                                  "dead"}]
<1>1. tpc' = [tpc EXCEPT ![t] = IF tpc[t] = "waiting" THEN "top" ELSE tpc[t]]
  BY DEF Wake
<1>2. CASE tpc[t] = "waiting"
  <2>1. tpc' = [tpc EXCEPT ![t] = "top"]
    BY <1>1, <1>2
  <2> QED
    BY <1>2, <2>1, CountedStays
<1>3. CASE tpc[t] # "waiting"
  <2>1. tpc' = tpc
    BY <1>1, <1>3 DEF ThreadTypes
  <2> QED
    BY <2>1 DEF ThreadTypes, Counted
<1> QED
  BY <1>2, <1>3

LEMMA DispatcherKeepsTypes ==
  ASSUME TaskInv, ThreadTypes, CallTypes, Dispatcher \/ SpuriousEmptyCond
  PROVE  ThreadTypes'
<1>1. CASE LockTask \/ GetTask \/ CheckStop \/ TaskCondTimeout \/ SaveIdleTask \/ SpuriousEmptyCond
  <2>1. UNCHANGED <<threads, totalNum, tpc, slot, done, dthread>> /\ dpc' # "hand"
    BY <1>1 DEF LockTask, GetTask, CheckStop, TaskCondTimeout, SaveIdleTask, SpuriousEmptyCond,
                poolVars, threadVars, dispVars
  <2> QED
    BY <2>1 DEF ThreadTypes, Counted
<1>2. CASE RunTask
  <2>1. /\ UNCHANGED <<threads, totalNum, slot, done, dthread>> /\ dpc' # "hand"
        /\ CreateThread \/ UNCHANGED tpc
    BY <1>2 DEF RunTask, poolVars
  <2>2. CASE CreateThread
    BY <2>1, <2>2, CreateKeepsCount DEF ThreadTypes
  <2>3. CASE UNCHANGED tpc
    BY <2>1, <2>3 DEF ThreadTypes, Counted
  <2> QED
    BY <2>1, <2>2, <2>3
<1>3. CASE GetThread \/ GetThreadAwake
  <2>1. UNCHANGED <<totalNum, tpc, slot, done>>
    BY <1>3 DEF GetThread, GetThreadAwake, threadVars
  <2>2. \/ threads # <<>> /\ dthread' = Head(threads) /\ threads' = Tail(threads)
        \/ UNCHANGED <<dthread, threads>> /\ (dpc' # "hand" \/ UNCHANGED dpc)
    BY <1>3 DEF GetThread, GetThreadAwake, TakeFront
  <2>3. CASE threads # <<>> /\ dthread' = Head(threads) /\ threads' = Tail(threads)
    <3>1. dthread' \in Threads /\ threads' \in Seq(Threads)
      BY <2>3 DEF ThreadTypes
    <3> QED
      BY <2>1, <3>1 DEF ThreadTypes, Counted
  <2>4. CASE UNCHANGED <<dthread, threads>> /\ (dpc' # "hand" \/ UNCHANGED dpc)
    BY <2>1, <2>4 DEF ThreadTypes, Counted
  <2> QED
    BY <2>2, <2>3, <2>4
<1>4. CASE HandTask
  <2>1. /\ dpc = "hand" /\ dthread \in Threads /\ dnode \in TaskObjects
        /\ UNCHANGED <<threads, totalNum, done>>
    BY <1>4 DEF HandTask, poolVars, ThreadTypes, TaskInv, TaskTypes, TaskPlaces, Holding
  <2>2. CASE UNCHANGED <<tpc, slot, dpc, dthread>>
    BY <2>1, <2>2 DEF ThreadTypes, Counted
  <2>3. CASE /\ slot' = [slot EXCEPT ![dthread] = content[dnode]]
             /\ Wake(dthread) /\ dpc' = "save" /\ dthread' = NULL
    <3>1. slot' \in [Threads -> 0 .. MaxRuns]
      BY <2>1, <2>3 DEF ThreadTypes, CallTypes
    <3> QED
      BY <2>1, <2>3, <3>1, WakeKeepsCount DEF ThreadTypes
  <2> QED
    BY <1>4, <2>2, <2>3 DEF HandTask
<1> QED
  BY <1>1, <1>2, <1>3, <1>4 DEF Dispatcher

LEMMA OwnerKeepsTypes ==
  ASSUME TaskInv, ThreadTypes, OwnerTypes, Owner
  PROVE  ThreadTypes'
<1>1. CASE InitPool
  <2>1. UNCHANGED <<threads, totalNum, slot, done, dthread, dpc>> /\ CreateThread
    BY <1>1 DEF InitPool, poolVars, dispVars
  <2> QED
    BY <2>1, CreateKeepsCount DEF ThreadTypes
<1>2. CASE SendSignal
  <2>1. UNCHANGED <<threads, totalNum, slot, done, dthread, dpc>>
    BY <1>2 DEF SendSignal, poolVars, dispVars
  <2>2. CASE termNext <= Len(threads)
    <3>1. termNext \in 1 .. Len(threads)
      BY <2>2 DEF OwnerTypes, ThreadTypes
    <3>2. threads[termNext] \in Threads /\ Wake(threads[termNext])
      BY <1>2, <2>2, <3>1 DEF SendSignal, ThreadTypes
    <3> QED
      BY <2>1, <3>2, WakeKeepsCount DEF ThreadTypes
  <2>3. CASE UNCHANGED tpc
    BY <2>1, <2>3 DEF ThreadTypes, Counted
  <2> QED
    BY <1>2, <2>2, <2>3 DEF SendSignal
<1>3. CASE InitDone \/ StopDispatcher \/ StopTaskPool \/ StopThreadPool \/ TerminalCheck \/ Destroyed
  <2>1. UNCHANGED <<threads, totalNum, tpc, slot, done, dthread>> /\ (dpc' = "hand" => dpc = "hand")
    BY <1>3 DEF InitDone, StopDispatcher, SignalTask, StopTaskPool, StopThreadPool, TerminalCheck,
                Destroyed, poolVars, threadVars, dispVars
  <2> QED
    BY <2>1 DEF ThreadTypes, Counted
<1> QED
  BY <1>1, <1>2, <1>3 DEF Owner

LEMMA SubmitterKeepsTypes ==
  ASSUME TaskInv, CallTypes, NEW s \in Submitters, AddTask(s) \/ Submitter(s)
  PROVE  CallTypes'
<1>1. spc \in [Submitters -> {"idle", "alloc", "push", "kick"}]
  BY DEF TaskInv, TaskTypes
<1>2. CASE AddTask(s)
  <2>1. /\ spc[s] = "idle" /\ spc' = [spc EXCEPT ![s] = "alloc"]
        /\ accepted + Cardinality(Allocating) < MaxRuns
        /\ UNCHANGED <<content, accepted>>
    BY <1>2 DEF AddTask, Adding, Allocating, taskVars
  <2>2. s \notin Allocating /\ Allocating' = Allocating \cup {s}
    BY <1>1, <2>1 DEF Allocating
  <2>3. Cardinality(Allocating') = Cardinality(Allocating) + 1 /\ Cardinality(Allocating) \in Nat
    BY <2>2, AllocatingMoves
  <2>4. accepted \in Nat /\ MaxRuns \in Nat
    BY DEF CallTypes
  <2>5. accepted' + Cardinality(Allocating') <= MaxRuns
    BY <2>1, <2>3, <2>4
  <2> QED
    BY <2>1, <2>5 DEF CallTypes
<1>3. CASE FillTask(s)
  <2>1. /\ spc[s] = "alloc" /\ spc' = [spc EXCEPT ![s] = "push"] /\ accepted' = accepted + 1
        /\ \E n : content' = [content EXCEPT ![n] = accepted + 1]
    BY <1>3 DEF FillTask
  <2>2. s \in Allocating /\ Allocating' = Allocating \ {s}
    BY <1>1, <2>1 DEF Allocating
  <2>3. Cardinality(Allocating') = Cardinality(Allocating) - 1 /\ Cardinality(Allocating) \in Nat
        /\ Cardinality(Allocating') \in Nat
    <3>1. IsFiniteSet(Allocating')
      BY <2>2, FS_Subset DEF Allocating
    <3> QED
      BY <2>2, <3>1, AllocatingMoves, FS_CardinalityType
  <2>4. accepted \in Nat /\ MaxRuns \in Nat /\ accepted + Cardinality(Allocating) <= MaxRuns
    BY DEF CallTypes
  <2>5. accepted + 1 \in 0 .. MaxRuns /\ accepted' \in Nat
        /\ accepted' + Cardinality(Allocating') <= MaxRuns
    BY <2>1, <2>3, <2>4
  <2>6. content' \in [TaskObjects -> 0 .. MaxRuns]
    BY <2>1, <2>5 DEF CallTypes
  <2> QED
    BY <2>5, <2>6 DEF CallTypes
<1>4. CASE PushTask(s) \/ Kick(s)
  <2>1. /\ UNCHANGED <<content, accepted>>
        /\ \E l \in {"kick", "idle"} : spc[s] # "alloc" /\ spc' = [spc EXCEPT ![s] = l]
    BY <1>4 DEF PushTask, Kick, taskVars
  <2>2. Allocating' = Allocating
    BY <1>1, <2>1 DEF Allocating
  <2> QED
    BY <2>1, <2>2 DEF CallTypes
<1> QED
  BY <1>2, <1>3, <1>4 DEF Submitter

(* Only these steps move what the others count on.                         *)
LEMMA OthersKeepCalls ==
  ASSUME CallTypes, UNCHANGED <<content, accepted, spc>>
  PROVE  CallTypes'
BY DEF CallTypes, Allocating

LEMMA CallsStep ==
  ASSUME TaskInv, CallTypes, [Next]_vars
  PROVE  CallTypes'
<1>1. ASSUME NEW s \in Submitters, AddTask(s) \/ Submitter(s)
      PROVE  CallTypes'
  BY <1>1, SubmitterKeepsTypes
<1>2. CASE SaveIdleTask
  <2>1. content' = [content EXCEPT ![dnode] = 0] /\ UNCHANGED <<accepted, spc>>
    BY <1>2 DEF SaveIdleTask, submitVars
  <2>2. content' \in [TaskObjects -> 0 .. MaxRuns]
    <3>1. content \in [TaskObjects -> 0 .. MaxRuns] /\ 0 \in 0 .. MaxRuns
      BY DEF CallTypes
    <3> QED
      BY <2>1, <3>1
  <2> QED
    BY <2>1, <2>2 DEF CallTypes, Allocating
<1>3. CASE LockTask \/ GetTask \/ CheckStop \/ TaskCondTimeout \/ RunTask \/ GetThread
           \/ GetThreadAwake \/ HandTask
  <2>1. UNCHANGED <<content, accepted, spc>>
    BY <1>3 DEF LockTask, GetTask, CheckStop, TaskCondTimeout, RunTask, GetThread,
                GetThreadAwake, HandTask, taskVars, submitVars
  <2> QED
    BY <2>1, OthersKeepCalls
<1>4. CASE CheckIdleTask \/ Owner \/ StopAll \/ SpuriousEmptyCond \/ UseAfterDelete
  <2>1. UNCHANGED <<content, accepted, spc>>
    BY <1>4 DEF CheckIdleTask, Owner, InitPool, InitDone, StopDispatcher, StopTaskPool,
                StopThreadPool, TerminalCheck, SendSignal, Destroyed, StopAll, SpuriousEmptyCond,
                UseAfterDelete, taskVars, submitVars
  <2> QED
    BY <2>1, OthersKeepCalls
<1>5. ASSUME NEW t \in Threads, PoolThread(t) \/ IdleTimeout(t) \/ SpuriousWake(t)
      PROVE  CallTypes'
  <2>1. UNCHANGED <<content, accepted, spc>>
    BY <1>5 DEF PoolThread, IncreaseTotalNum, RunSlot, CheckPoolStop, SaveIdleThread, ExitThread,
                IdleTimeout, SpuriousWake, taskVars, submitVars
  <2> QED
    BY <2>1, OthersKeepCalls
<1>6. CASE UNCHANGED vars
  BY <1>6, OthersKeepCalls DEF vars, taskVars, submitVars
<1> QED
  BY <1>1, <1>2, <1>3, <1>4, <1>5, <1>6 DEF Next, Environment, Dispatcher

LEMMA OthersKeepThreads ==
  ASSUME ThreadTypes, UNCHANGED <<threads, totalNum, tpc, slot, done, dthread>>,
         dpc' = "hand" => dpc = "hand"
  PROVE  ThreadTypes'
BY DEF ThreadTypes, Counted

LEMMA ThreadsStep ==
  ASSUME TaskInv, ManagerTypes, [Next]_vars
  PROVE  ThreadTypes'
<1> USE DEF ManagerTypes
<1>1. ASSUME NEW t \in Threads, PoolThread(t) \/ IdleTimeout(t) \/ SpuriousWake(t)
      PROVE  ThreadTypes'
  BY <1>1, ThreadKeepsTypes
<1>2. CASE Dispatcher \/ SpuriousEmptyCond
  BY <1>2, DispatcherKeepsTypes
<1>3. CASE Owner
  BY <1>3, OwnerKeepsTypes
<1>4. CASE StopAll \/ UseAfterDelete \/ CheckIdleTask \/ UNCHANGED vars
  BY <1>4, OthersKeepThreads DEF StopAll, UseAfterDelete, CheckIdleTask, vars, poolVars, threadVars,
                                 dispVars
<1>5. ASSUME NEW s \in Submitters, AddTask(s) \/ Submitter(s)
      PROVE  ThreadTypes'
  <2>1. UNCHANGED <<threads, totalNum, tpc, slot, done, dthread>> /\ (dpc' = "hand" => dpc = "hand")
    BY <1>5 DEF AddTask, Submitter, FillTask, PushTask, Kick, SignalTask, poolVars, threadVars,
                dispVars
  <2> QED
    BY <2>1, OthersKeepThreads
<1> QED
  BY <1>1, <1>2, <1>3, <1>4, <1>5 DEF Next, Environment

(* The order of the owner's steps, with their types.                       *)
OwnerState ==
  <<idlePc, taskStop, termPc, termNext, opc, created, managerStop, poolStop, timeouts, spurious,
    fails, undefined>>

LEMMA OwnerStays ==
  ASSUME OwnerTypes, OwnerPlace, UNCHANGED OwnerState,
         dpc = "exited" => dpc' = "exited",
         opc \notin {"init", "use"} => \A s \in Submitters : spc[s] = "idle" => spc'[s] = "idle"
  PROVE  OwnerTypes' /\ OwnerPlace'
BY DEF OwnerTypes, OwnerPlace, OwnerState

LEMMA FaultCounts ==
  ASSUME OwnerTypes
  PROVE  timeouts + 1 \in Nat /\ spurious + 1 \in Nat /\ fails + 1 \in Nat
BY DEF OwnerTypes

LEMMA OwnerMoves ==
  ASSUME OwnerTypes, OwnerPlace, Owner
  PROVE  OwnerTypes' /\ OwnerPlace'
<1>1. CASE InitPool
  <2>1. /\ opc = "init" /\ created < PoolPre /\ created' = created + 1
        /\ UNCHANGED <<idlePc, taskStop, termPc, termNext, opc, managerStop, poolStop, timeouts,
                       spurious, undefined, spc, dpc>>
        /\ fails' = fails \/ fails' = fails + 1
    BY <1>1 DEF InitPool, CreateThread, idleVars, submitVars, dispVars
  <2>2. created' \in 0 .. PoolPre /\ fails' \in Nat
    <3>1. created \in 0 .. PoolPre /\ PoolPre \in Nat
      BY DEF OwnerTypes
    <3>2. created' \in 0 .. PoolPre
      BY <2>1, <3>1
    <3> QED
      BY <2>1, <3>2, FaultCounts DEF OwnerTypes
  <2> QED
    BY <2>1, <2>2 DEF OwnerTypes, OwnerPlace
<1>2. CASE InitDone
  <2>1. /\ opc = "init"
        /\ UNCHANGED <<idlePc, taskStop, termPc, termNext, created, managerStop, poolStop,
                       timeouts, spurious, fails, spc>>
        /\ (opc' = "use" /\ UNCHANGED undefined) \/ (undefined' = TRUE /\ opc' = opc)
    BY <1>2 DEF InitDone, idleVars, submitVars
  <2> QED
    BY <2>1 DEF OwnerTypes, OwnerPlace
<1>3. CASE StopDispatcher
  <2>1. /\ opc = "wake" /\ opc' = "join"
        /\ UNCHANGED <<idlePc, taskStop, termPc, termNext, created, managerStop, poolStop,
                       timeouts, spurious, fails, undefined, spc>>
    BY <1>3 DEF StopDispatcher, idleVars, submitVars, faultVars
  <2> QED
    BY <2>1 DEF OwnerTypes, OwnerPlace
<1>4. CASE StopTaskPool \/ StopThreadPool \/ Destroyed
  <2>1. /\ UNCHANGED <<idlePc, termNext, created, managerStop, timeouts, spurious, fails,
                       undefined, spc, dpc>>
        /\ \/ /\ opc = "join" /\ dpc = "exited" /\ opc' = "idle_join" /\ taskStop' = TRUE
              /\ UNCHANGED <<termPc, poolStop>>
           \/ /\ opc = "idle_join" /\ opc' = "terminal" /\ poolStop' = TRUE /\ termPc' = "check"
              /\ UNCHANGED taskStop
           \/ /\ opc = "terminal" /\ termPc = "done" /\ opc' = "destroyed"
              /\ UNCHANGED <<termPc, poolStop, taskStop>>
    BY <1>4 DEF StopTaskPool, StopThreadPool, Destroyed, DispatcherJoined, idleVars, submitVars,
                dispVars, faultVars
  <2>2. OwnerTypes'
    BY <2>1 DEF OwnerTypes
  <2>3. CASE opc = "join" /\ dpc = "exited" /\ opc' = "idle_join" /\ UNCHANGED <<termPc, poolStop>>
    BY <2>1, <2>2, <2>3 DEF OwnerPlace
  <2>4. CASE opc = "idle_join" /\ opc' = "terminal" /\ poolStop' = TRUE /\ termPc' = "check"
    BY <2>1, <2>2, <2>4 DEF OwnerPlace
  <2>5. CASE opc = "terminal" /\ termPc = "done" /\ opc' = "destroyed"
             /\ UNCHANGED <<termPc, poolStop>>
    BY <2>1, <2>2, <2>5 DEF OwnerPlace
  <2> QED
    BY <2>1, <2>3, <2>4, <2>5
<1>5. CASE TerminalCheck \/ SendSignal
  <2>1. /\ termPc \in {"check", "signal"} /\ termPc' \in {"check", "signal", "done"}
        /\ termNext' \in {termNext, 1, termNext + 1}
        /\ UNCHANGED <<idlePc, taskStop, opc, created, managerStop, poolStop, timeouts, spurious,
                       fails, undefined, spc, dpc>>
    BY <1>5 DEF TerminalCheck, SendSignal, idleVars, submitVars, dispVars, faultVars
  <2>2. termNext' \in Nat \ {0}
    BY <2>1 DEF OwnerTypes
  <2> QED
    BY <2>1, <2>2 DEF OwnerTypes, OwnerPlace
<1> QED
  BY <1>1, <1>2, <1>3, <1>4, <1>5 DEF Owner

LEMMA OwnerOrder ==
  ASSUME TaskInv, OwnerTypes, OwnerPlace, [Next]_vars
  PROVE  OwnerTypes' /\ OwnerPlace'
<1>1. CASE Owner
  BY <1>1, OwnerMoves
<1>2. CASE CheckIdleTask
  <2>1. /\ UNCHANGED <<taskStop, termPc, termNext, opc, created, managerStop, poolStop, timeouts,
                       spurious, fails, undefined, spc, dpc>>
        /\ idlePc' \in {"exited", "wait"}
    BY <1>2 DEF CheckIdleTask, ownerVars, submitVars, dispVars, faultVars
  <2> QED
    BY <2>1 DEF OwnerTypes, OwnerPlace
<1>7. CASE StopAll
  <2>1. /\ UNCHANGED <<idlePc, taskStop, termPc, termNext, created, poolStop, timeouts, spurious,
                       fails, undefined, spc, dpc>>
        /\ opc = "use" /\ opc' = "wake" /\ managerStop' = TRUE
        /\ \A s \in Submitters : spc[s] = "idle"
    BY <1>7 DEF StopAll, idleVars, submitVars, dispVars, faultVars
  <2>2. OwnerTypes'
    BY <2>1 DEF OwnerTypes
  <2> QED
    BY <2>1, <2>2 DEF OwnerPlace
<1>3. CASE Dispatcher \/ SpuriousEmptyCond \/ UseAfterDelete
  <2>1. /\ UNCHANGED <<idlePc, taskStop, termPc, termNext, opc, created, managerStop, poolStop,
                       timeouts, spc>>
        /\ dpc = "exited" => dpc' = "exited"
    BY <1>3 DEF Dispatcher, LockTask, GetTask, CheckStop, TaskCondTimeout, RunTask, GetThread,
                GetThreadAwake, HandTask, SaveIdleTask, SpuriousEmptyCond, UseAfterDelete,
                TaskWaitOver, ownerVars, idleVars, submitVars, dispVars, faultVars
  <2>2. /\ fails' \in {fails, fails + 1} /\ spurious' \in {spurious, spurious + 1}
        /\ undefined' \in {TRUE, undefined}
    BY <1>3 DEF Dispatcher, LockTask, GetTask, CheckStop, TaskCondTimeout, RunTask, CreateThread,
                GetThread, GetThreadAwake, HandTask, TakeFront, SaveIdleTask, SpuriousEmptyCond,
                UseAfterDelete, faultVars
  <2>3. fails' \in Nat /\ spurious' \in Nat /\ undefined' \in BOOLEAN
    BY <2>2, FaultCounts DEF OwnerTypes
  <2> QED
    BY <2>1, <2>3 DEF OwnerTypes, OwnerPlace
<1>4. ASSUME NEW t \in Threads, PoolThread(t) \/ IdleTimeout(t) \/ SpuriousWake(t)
      PROVE  OwnerTypes' /\ OwnerPlace'
  <2>1. /\ UNCHANGED <<idlePc, taskStop, termPc, termNext, opc, created, managerStop, poolStop,
                       fails, undefined, spc>>
        /\ dpc = "exited" => dpc' = "exited"
        /\ timeouts' \in {timeouts, timeouts + 1} /\ spurious' \in {spurious, spurious + 1}
    BY <1>4 DEF PoolThread, IncreaseTotalNum, RunSlot, CheckPoolStop, SaveIdleThread, ExitThread,
                IdleTimeout, SpuriousWake, ownerVars, idleVars, submitVars, dispVars, faultVars
  <2>2. timeouts' \in Nat /\ spurious' \in Nat
    BY <2>1, FaultCounts DEF OwnerTypes
  <2> QED
    BY <2>1, <2>2 DEF OwnerTypes, OwnerPlace
<1>5. ASSUME NEW s \in Submitters, AddTask(s) \/ Submitter(s)
      PROVE  OwnerTypes' /\ OwnerPlace'
  <2>1. UNCHANGED OwnerState /\ (dpc = "exited" => dpc' = "exited")
    BY <1>5 DEF AddTask, Submitter, FillTask, PushTask, Kick, SignalTask, OwnerState, ownerVars,
                idleVars, dispVars, faultVars
  <2>2. /\ opc = "use" \/ spc[s] # "idle"
        /\ \E l \in {"idle", "alloc", "push", "kick"} : spc' = [spc EXCEPT ![s] = l]
    BY <1>5 DEF AddTask, Submitter, FillTask, PushTask, Kick
  <2>3. opc \notin {"init", "use"} => \A r \in Submitters : spc[r] = "idle" => spc'[r] = "idle"
    BY <2>2 DEF TaskInv, TaskTypes
  <2> QED
    BY <2>1, <2>3, OwnerStays
<1>6. CASE UNCHANGED vars
  <2>1. UNCHANGED OwnerState /\ UNCHANGED <<dpc, spc>>
    BY <1>6 DEF vars, OwnerState, ownerVars, idleVars, dispVars, faultVars, submitVars
  <2> QED
    BY <2>1, OwnerStays
<1> QED
  BY <1>1, <1>2, <1>3, <1>4, <1>5, <1>6, <1>7 DEF Next, Environment

LEMMA ManagerTypesStart == Init => ManagerTypes /\ OwnerPlace
<1> SUFFICES ASSUME Init
             PROVE  ManagerTypes /\ OwnerPlace
  OBVIOUS
<1>1. Counted = {} /\ Allocating = {}
  BY DEF Init, Counted, Allocating
<1>2. Cardinality(Counted) = 0 /\ Cardinality(Allocating) = 0
  BY <1>1, FS_EmptySet
<1>3. 0 \in 0 .. MaxRuns /\ 0 \in 0 .. PoolPre /\ 0 + 0 <= MaxRuns
  OBVIOUS
<1>4. ThreadTypes
  <2>1. threads = <<>> /\ done = <<>> /\ totalNum = Cardinality(Counted)
    BY <1>2 DEF Init
  <2>2. threads \in Seq(Threads) /\ done \in Seq(1 .. MaxRuns)
    BY <2>1, EmptyDistinct
  <2>3. slot \in [Threads -> 0 .. MaxRuns]
    BY <1>3 DEF Init
  <2>4. /\ tpc = [t \in Threads |-> "none"] /\ dthread = NULL /\ dpc = "none"
    BY DEF Init
  <2> QED
    BY <2>1, <2>2, <2>3, <2>4 DEF ThreadTypes
<1>5. CallTypes
  BY <1>2, <1>3 DEF Init, CallTypes
<1>6. OwnerTypes
  <2>1. created \in 0 .. PoolPre /\ termNext \in Nat \ {0}
    BY <1>3 DEF Init
  <2> QED
    BY <2>1 DEF Init, OwnerTypes
<1>7. OwnerPlace
  BY DEF Init, OwnerPlace
<1> QED
  BY <1>4, <1>5, <1>6, <1>7 DEF ManagerTypes

LEMMA TypedInvariant == Spec => []TypedInv
<1>1. Init => TypedInv
  BY TasksStart, ManagerTypesStart DEF TypedInv
<1>2. TypedInv /\ [Next]_vars => TypedInv'
  BY TasksStep, CallsStep, ThreadsStep, OwnerOrder DEF TypedInv, ManagerTypes
<1> QED
  BY <1>1, <1>2, PTL DEF Spec

(* Every variable of the manager and its pools keeps a value of its type,  *)
(* whatever times out, wakes up for nothing or fails; what a submitter and *)
(* the dispatcher have of Task objects is allocated.                       *)
THEOREM ManagerTypesHold == Spec => []TypeOK
<1>1. TypedInv => TypeOK
  <2> SUFFICES ASSUME TypedInv
               PROVE  TypeOK
    OBVIOUS
  <2>1. snode \in [Submitters -> taskHeap \cup {NULL}] /\ dnode \in taskHeap \cup {NULL}
    BY DEF TypedInv, TaskInv, TaskTypes, TaskPlaces
  <2>2. accepted \in 0 .. MaxRuns
    <3>1. IsFiniteSet(Allocating)
      BY FS_Subset DEF Allocating
    <3>2. Cardinality(Allocating) \in Nat /\ accepted \in Nat /\ MaxRuns \in Nat
          /\ accepted + Cardinality(Allocating) <= MaxRuns
      BY <3>1, FS_CardinalityType DEF TypedInv, ManagerTypes, CallTypes
    <3> QED
      BY <3>2
  <2>3. totalNum \in 0 .. Cardinality(Threads)
    <3>1. IsFiniteSet(Counted) /\ Cardinality(Counted) <= Cardinality(Threads)
      BY FS_Subset DEF Counted
    <3>2. totalNum = Cardinality(Counted)
      BY DEF TypedInv, ManagerTypes, ThreadTypes
    <3> QED
      BY <3>1, <3>2, FS_CardinalityType
  <2>4. ThreadTypes /\ CallTypes /\ OwnerTypes /\ TaskTypes
    BY DEF TypedInv, ManagerTypes, TaskInv
  <2> QED
    BY <2>1, <2>2, <2>3, <2>4
       DEF ThreadTypes, CallTypes, OwnerTypes, TaskTypes, TypeOK, DispatcherPlaces, Holding
<1> QED
  BY <1>1, TypedInvariant, PTL

-----------------------------------------------------------------------------
(* Without faults.                                                         *)

LEMMA FaultsGrow ==
  ASSUME [Next]_vars
  PROVE  /\ timeouts' \in {timeouts, timeouts + 1} /\ spurious' \in {spurious, spurious + 1}
         /\ fails' \in {fails, fails + 1}
<1>1. CASE Dispatcher
  BY <1>1 DEF Dispatcher, LockTask, GetTask, CheckStop, TaskCondTimeout, RunTask, CreateThread,
              GetThread, GetThreadAwake, HandTask, SaveIdleTask, faultVars
<1>2. CASE Owner \/ CheckIdleTask
  BY <1>2 DEF Owner, InitPool, CreateThread, InitDone, StopDispatcher, StopTaskPool,
              StopThreadPool, TerminalCheck, SendSignal, Destroyed, CheckIdleTask, faultVars
<1>3. CASE StopAll \/ SpuriousEmptyCond \/ UseAfterDelete \/ UNCHANGED vars
  BY <1>3 DEF StopAll, SpuriousEmptyCond, UseAfterDelete, vars, faultVars
<1>4. ASSUME NEW s \in Submitters, AddTask(s) \/ Submitter(s)
      PROVE  UNCHANGED <<timeouts, spurious, fails>>
  BY <1>4 DEF AddTask, Submitter, FillTask, PushTask, Kick, faultVars
<1>5. ASSUME NEW t \in Threads, PoolThread(t) \/ IdleTimeout(t) \/ SpuriousWake(t)
      PROVE  /\ timeouts' \in {timeouts, timeouts + 1} /\ spurious' \in {spurious, spurious + 1}
             /\ UNCHANGED fails
  BY <1>5 DEF PoolThread, IncreaseTotalNum, RunSlot, CheckPoolStop, SaveIdleThread, ExitThread,
              IdleTimeout, SpuriousWake, faultVars
<1> QED
  BY <1>1, <1>2, <1>3, <1>4, <1>5 DEF Next, Environment

LEMMA NoFaultSoFar ==
  ASSUME TypedInv, [Next]_vars, ~Disturbed'
  PROVE  /\ ~Disturbed /\ timeouts = 0 /\ spurious = 0 /\ fails = 0
         /\ timeouts' = 0 /\ spurious' = 0 /\ fails' = 0
<1>1. OwnerTypes /\ OwnerTypes'
  BY OwnerOrder DEF TypedInv, ManagerTypes
<1>2. timeouts' = 0 /\ spurious' = 0 /\ fails' = 0
  <2>1. timeouts' \in Nat /\ spurious' \in Nat /\ fails' \in Nat
    BY <1>1 DEF OwnerTypes
  <2>2. (timeouts' + spurious') + fails' = 0
    BY DEF Disturbed, Faults
  <2>3. \A a, b, c \in Nat : (a + b) + c = 0 => a = 0 /\ b = 0 /\ c = 0
    OBVIOUS
  <2> QED
    BY <2>1, <2>2, <2>3
<1>3. timeouts \in Nat /\ spurious \in Nat /\ fails \in Nat
  BY <1>1 DEF OwnerTypes
<1>4. timeouts = 0 /\ spurious = 0 /\ fails = 0
  BY <1>2, <1>3, FaultsGrow
<1> QED
  BY <1>2, <1>4 DEF Disturbed, Faults

LEMMA CreatedAfresh ==
  ASSUME ThreadTypes, CreateThread, fails = 0, fails' = 0
  PROVE  \E t \in Threads : tpc[t] = "none" /\ tpc' = [tpc EXCEPT ![t] = "start"]
<1>1. Fresh # {} /\ tpc' = [tpc EXCEPT ![CHOOSE t \in Fresh : TRUE] = "start"]
  BY DEF CreateThread
<1>2. PICK t \in Fresh : tpc' = [tpc EXCEPT ![t] = "start"]
  BY <1>1
<1> QED
  BY <1>2 DEF Fresh

LEMMA WokenIs ==
  ASSUME ThreadTypes, NEW t \in Threads, Wake(t)
  PROVE  /\ tpc'[t] = IF tpc[t] = "waiting" THEN "top" ELSE tpc[t]
         /\ \A u \in Threads \ {t} : tpc'[u] = tpc[u]
BY DEF ThreadTypes, Wake

-----------------------------------------------------------------------------
(* The list of idle threads.                                               *)

LEMMA IdleStay ==
  ASSUME IdleThreads, UNCHANGED <<threads, tpc, dthread>>, poolStop => poolStop',
         dpc' = "hand" => dpc = "hand", dpc' = "nonempty" => dpc = "nonempty"
  PROVE  IdleThreads'
BY DEF IdleThreads

(* A thread that is neither in the list nor about to be woken moves.       *)
LEMMA IdleApart ==
  ASSUME IdleThreads, ThreadTypes, NEW t \in Threads, NEW l \in {"start", "top", "check", "saving"},
         tpc[t] # "waiting", t \in Range(threads) => poolStop /\ l \in {"top", "check"},
         tpc' = [tpc EXCEPT ![t] = l], UNCHANGED <<threads, dthread, dpc, poolStop>>
  PROVE  IdleThreads'
<1>1. tpc'[t] = l /\ \A u \in Threads \ {t} : tpc'[u] = tpc[u]
  BY DEF ThreadTypes
<1>2. Range(threads) \subseteq Threads /\ (dpc = "hand" => dthread \in Threads)
  BY DEF ThreadTypes, Range
<1>3. \A u \in Range(threads) :
        tpc'[u] = "waiting" \/ (poolStop /\ tpc'[u] \in {"top", "check", "exit"})
  BY <1>1, <1>2 DEF IdleThreads
<1>4. \A u \in Threads : tpc'[u] = "exit" => poolStop
  BY <1>1 DEF IdleThreads
<1>5. dpc = "hand" => tpc'[dthread] = "waiting"
  BY <1>1, <1>2 DEF IdleThreads
<1> QED
  BY <1>3, <1>4, <1>5 DEF IdleThreads

LEMMA DispatcherKeepsIdle ==
  ASSUME TypedInv, IdleThreads, Dispatcher, fails = 0, fails' = 0
  PROVE  IdleThreads'
<1> USE DEF TypedInv, ManagerTypes
<1>1. CASE LockTask \/ GetTask \/ CheckStop \/ TaskCondTimeout \/ SaveIdleTask
  <2>1. UNCHANGED <<threads, tpc, dthread, poolStop>> /\ dpc' \notin {"hand", "nonempty"}
    BY <1>1 DEF LockTask, GetTask, CheckStop, TaskCondTimeout, SaveIdleTask, poolVars, threadVars,
                dispVars, ownerVars
  <2> QED
    BY <2>1, IdleStay
<1>2. CASE RunTask
  <2>1. /\ UNCHANGED <<threads, dthread, poolStop>> /\ dpc = "run" /\ dpc' = "get"
        /\ CreateThread \/ UNCHANGED tpc
    BY <1>2 DEF RunTask, poolVars, ownerVars
  <2>2. CASE CreateThread
    <3>1. PICK t \in Threads : tpc[t] = "none" /\ tpc' = [tpc EXCEPT ![t] = "start"]
      BY <2>2, CreatedAfresh
    <3>2. t \notin Range(threads)
      BY <3>1 DEF IdleThreads
    <3>3. tpc'[t] = "start" /\ \A u \in Threads \ {t} : tpc'[u] = tpc[u]
      BY <3>1 DEF ThreadTypes
    <3>4. Range(threads) \subseteq Threads
      BY DEF ThreadTypes, Range
    <3>5. \A u \in Range(threads) : tpc'[u] = tpc[u]
      BY <3>2, <3>3, <3>4
    <3>6. \A u \in Threads : tpc'[u] = "exit" => poolStop
      BY <3>3 DEF IdleThreads
    <3> QED
      BY <2>1, <3>5, <3>6 DEF IdleThreads
  <2>3. CASE UNCHANGED tpc
    BY <2>1, <2>3, IdleStay
  <2> QED
    BY <2>1, <2>2, <2>3
<1>3. CASE GetThread \/ GetThreadAwake
  <2>1. /\ UNCHANGED <<tpc, poolStop>> /\ dpc # "exited"
        /\ \/ /\ threads # <<>> /\ dthread' = Head(threads) /\ threads' = Tail(threads)
              /\ dpc' = "hand"
           \/ UNCHANGED <<dthread, threads>> /\ (dpc' = "await" \/ dpc' = dpc)
    BY <1>3 DEF GetThread, GetThreadAwake, TakeFront, threadVars, ownerVars
  <2>2. CASE /\ threads # <<>> /\ dthread' = Head(threads) /\ threads' = Tail(threads)
             /\ dpc' = "hand"
    <3>1. /\ dthread' \in Range(threads) /\ IsInjective(threads')
          /\ Range(threads') = Range(threads) \ {dthread'}
      BY <2>2, TailOfDistinct DEF IdleThreads, ThreadTypes
    <3>2. ~poolStop
      BY <2>1 DEF OwnerPlace
    <3>3. tpc[dthread'] = "waiting"
      BY <3>1, <3>2 DEF IdleThreads
    <3> QED
      BY <2>1, <2>2, <3>1, <3>3 DEF IdleThreads
  <2>3. CASE UNCHANGED <<dthread, threads>> /\ (dpc' = "await" \/ dpc' = dpc)
    BY <2>1, <2>3, IdleStay
  <2> QED
    BY <2>1, <2>2, <2>3
<1>4. CASE HandTask
  <2>1. dpc = "hand" /\ dthread \in Threads /\ tpc[dthread] = "waiting"
        /\ dthread \notin Range(threads)
    BY <1>4 DEF HandTask, IdleThreads, ThreadTypes
  <2>2. /\ Wake(dthread) /\ dpc' = "save" /\ UNCHANGED <<threads, poolStop>>
    BY <1>4, <2>1 DEF HandTask, poolVars, ownerVars
  <2>3. tpc'[dthread] = "top" /\ \A u \in Threads \ {dthread} : tpc'[u] = tpc[u]
    BY <2>1, <2>2, WokenIs
  <2>4. \A u \in Range(threads) : tpc'[u] = tpc[u]
    <3>1. Range(threads) \subseteq Threads
      BY DEF ThreadTypes, Range
    <3> QED
      BY <2>1, <2>3, <3>1
  <2>5. \A u \in Threads : tpc'[u] = "exit" => poolStop
    BY <2>3 DEF IdleThreads
  <2> QED
    BY <2>2, <2>4, <2>5 DEF IdleThreads
<1> QED
  BY <1>1, <1>2, <1>3, <1>4 DEF Dispatcher

LEMMA ThreadKeepsIdle ==
  ASSUME TypedInv, IdleThreads, NEW t \in Threads, PoolThread(t)
  PROVE  IdleThreads'
<1> USE DEF TypedInv, ManagerTypes
<1>1. CASE IncreaseTotalNum(t) \/ RunSlot(t)
  <2>1. /\ \E l \in {"top", "check"} : tpc' = [tpc EXCEPT ![t] = l]
        /\ tpc[t] \in {"start", "top"}
        /\ UNCHANGED <<threads, dthread, dpc, poolStop>>
    BY <1>1 DEF IncreaseTotalNum, RunSlot, poolVars, dispVars, ownerVars
  <2>2. t \in Range(threads) => poolStop
    BY <2>1 DEF IdleThreads
  <2> QED
    BY <2>1, <2>2, IdleApart
<1>2. CASE CheckPoolStop(t) /\ ~poolStop
  <2>1. /\ tpc[t] = "check" /\ tpc' = [tpc EXCEPT ![t] = "saving"]
        /\ UNCHANGED <<threads, dthread, dpc, poolStop>>
    BY <1>2 DEF CheckPoolStop, poolVars, dispVars, ownerVars
  <2>2. t \notin Range(threads)
    BY <1>2, <2>1 DEF IdleThreads
  <2> QED
    BY <2>1, <2>2, IdleApart
<1>3. CASE CheckPoolStop(t) /\ poolStop
  <2>1. /\ tpc[t] = "check" /\ tpc' = [tpc EXCEPT ![t] = "exit"] /\ poolStop
        /\ UNCHANGED <<threads, dthread, dpc, poolStop>>
    BY <1>3 DEF CheckPoolStop, poolVars, dispVars, ownerVars
  <2>2. tpc'[t] = "exit" /\ \A u \in Threads \ {t} : tpc'[u] = tpc[u]
    BY <2>1 DEF ThreadTypes
  <2>3. Range(threads) \subseteq Threads /\ dpc = "exited"
    BY <2>1 DEF ThreadTypes, Range, OwnerPlace
  <2>4. \A u \in Range(threads) : tpc'[u] = tpc[u] \/ tpc'[u] = "exit"
    BY <2>2, <2>3
  <2> QED
    BY <2>1, <2>3, <2>4 DEF IdleThreads
<1>4. CASE SaveIdleThread(t)
  <2>1. /\ tpc[t] = "saving" /\ tpc' = [tpc EXCEPT ![t] = "waiting"]
        /\ threads' = <<t>> \o threads /\ dpc' \in {dpc, "nonempty"}
        /\ UNCHANGED <<dthread, poolStop>>
    BY <1>4 DEF SaveIdleThread, ownerVars
  <2>2. t \notin Range(threads)
    BY <2>1 DEF IdleThreads
  <2>3. IsInjective(threads') /\ Range(threads') = Range(threads) \cup {t} /\ threads' # <<>>
    <3>1. threads \in Seq(Threads)
      BY DEF ThreadTypes
    <3>2. IsInjective(threads') /\ Range(threads') = Range(threads) \cup {t}
      BY <2>1, <2>2, <3>1, ConsToDistinct DEF IdleThreads
    <3>3. threads' # <<>>
      BY <2>1, <3>1
    <3> QED
      BY <3>2, <3>3
  <2>4. tpc'[t] = "waiting" /\ \A u \in Threads \ {t} : tpc'[u] = tpc[u]
    BY <2>1 DEF ThreadTypes
  <2>5. Range(threads) \subseteq Threads /\ (dpc = "hand" => dthread \in Threads)
    BY DEF ThreadTypes, Range
  <2>6. \A u \in Range(threads') :
          tpc'[u] = "waiting" \/ (poolStop /\ tpc'[u] \in {"top", "check", "exit"})
    BY <2>2, <2>3, <2>4, <2>5 DEF IdleThreads
  <2>7. \A u \in Threads : tpc'[u] = "exit" => poolStop
    BY <2>4 DEF IdleThreads
  <2>8. dpc = "hand" => dthread # t /\ tpc'[dthread] = "waiting" /\ dthread \notin Range(threads')
    BY <2>1, <2>3, <2>4, <2>5 DEF IdleThreads
  <2> QED
    BY <2>1, <2>3, <2>6, <2>7, <2>8 DEF IdleThreads
<1>5. CASE ExitThread(t)
  <2>1. /\ tpc[t] = "exit" /\ tpc' = [tpc EXCEPT ![t] = "dead"] /\ threads' = RemoveThread(t)
        /\ UNCHANGED <<dthread, dpc, poolStop>>
    BY <1>5 DEF ExitThread, dispVars, ownerVars
  <2>2. poolStop /\ dpc = "exited"
    BY <2>1 DEF IdleThreads, OwnerPlace
  <2>3. IsInjective(threads') /\ Range(threads') = Range(threads) \ {t}
    BY <2>1, RemovalOf DEF IdleThreads, ThreadTypes
  <2>4. tpc'[t] = "dead" /\ \A u \in Threads \ {t} : tpc'[u] = tpc[u]
    BY <2>1 DEF ThreadTypes
  <2>5. Range(threads) \subseteq Threads
    BY DEF ThreadTypes, Range
  <2>6. \A u \in Range(threads') : u \in Range(threads) /\ tpc'[u] = tpc[u]
    BY <2>3, <2>4, <2>5
  <2> QED
    BY <2>1, <2>2, <2>3, <2>6 DEF IdleThreads
<1> QED
  BY <1>1, <1>2, <1>3, <1>4, <1>5 DEF PoolThread

LEMMA OwnerKeepsIdle ==
  ASSUME TypedInv, IdleThreads, Owner, fails = 0, fails' = 0
  PROVE  IdleThreads'
<1> USE DEF TypedInv, ManagerTypes
<1>1. CASE InitPool
  <2>1. CreateThread /\ UNCHANGED <<threads, dthread, dpc, poolStop>>
    BY <1>1 DEF InitPool, poolVars, dispVars
  <2>2. PICK t \in Threads : tpc[t] = "none" /\ tpc' = [tpc EXCEPT ![t] = "start"]
    BY <2>1, CreatedAfresh
  <2>3. t \notin Range(threads)
    BY <2>2 DEF IdleThreads
  <2> QED
    BY <2>1, <2>2, <2>3, IdleApart
<1>2. CASE SendSignal
  <2>1. UNCHANGED <<threads, dthread, dpc, poolStop>> /\ poolStop /\ dpc = "exited"
    BY <1>2 DEF SendSignal, poolVars, dispVars, OwnerPlace
  <2>2. CASE termNext <= Len(threads)
    <3>1. termNext \in 1 .. Len(threads)
      BY <2>2 DEF OwnerTypes, ThreadTypes
    <3>2. threads[termNext] \in Threads /\ Wake(threads[termNext])
      BY <1>2, <2>2, <3>1 DEF SendSignal, ThreadTypes
    <3>3. \A u \in Threads : tpc'[u] = tpc[u] \/ tpc'[u] = "top"
      BY <3>2, WokenIs
    <3>4. Range(threads) \subseteq Threads
      BY DEF ThreadTypes, Range
    <3> QED
      BY <2>1, <3>3, <3>4 DEF IdleThreads
  <2>3. CASE UNCHANGED tpc
    BY <2>1, <2>3, IdleStay
  <2> QED
    BY <1>2, <2>2, <2>3 DEF SendSignal
<1>3. CASE InitDone \/ StopDispatcher \/ StopTaskPool \/ StopThreadPool \/ TerminalCheck \/ Destroyed
  <2>1. /\ UNCHANGED <<threads, tpc, dthread>> /\ (poolStop => poolStop')
        /\ dpc' = dpc \/ dpc' = "lock"
    BY <1>3 DEF InitDone, StopDispatcher, SignalTask, StopTaskPool, StopThreadPool, TerminalCheck,
                Destroyed, poolVars, threadVars, dispVars
  <2> QED
    BY <2>1, IdleStay
<1> QED
  BY <1>1, <1>2, <1>3 DEF Owner

LEMMA IdleStep ==
  ASSUME TypedInv, IdleThreads, [Next]_vars, ~Disturbed'
  PROVE  IdleThreads'
<1>1. CASE Dispatcher \/ Owner
  BY <1>1, NoFaultSoFar, DispatcherKeepsIdle, OwnerKeepsIdle
<1>2. ASSUME NEW t \in Threads, PoolThread(t)
      PROVE  IdleThreads'
  BY <1>2, ThreadKeepsIdle
<1>3. ASSUME SpuriousEmptyCond \/ \E t \in Threads : IdleTimeout(t) \/ SpuriousWake(t)
      PROVE  FALSE
  BY <1>3, NoFaultSoFar DEF SpuriousEmptyCond, IdleTimeout, SpuriousWake
<1>4. CASE StopAll \/ UseAfterDelete \/ CheckIdleTask \/ UNCHANGED vars
  <2>1. UNCHANGED <<threads, tpc, dthread, poolStop, dpc>>
    BY <1>4 DEF StopAll, UseAfterDelete, CheckIdleTask, vars, poolVars, threadVars, dispVars,
                ownerVars
  <2> QED
    BY <2>1, IdleStay
<1>5. ASSUME NEW s \in Submitters, AddTask(s) \/ Submitter(s)
      PROVE  IdleThreads'
  <2>1. UNCHANGED <<threads, tpc, dthread, poolStop>> /\ (dpc' = dpc \/ dpc' = "lock")
    BY <1>5 DEF AddTask, Submitter, FillTask, PushTask, Kick, SignalTask, poolVars, threadVars,
                dispVars, ownerVars
  <2> QED
    BY <2>1, IdleStay
<1> QED
  BY <1>1, <1>2, <1>3, <1>4, <1>5 DEF Next, Environment

-----------------------------------------------------------------------------
(* Threads without a task.                                                 *)

LEMMA EmptyStays ==
  ASSUME EmptySlots, UNCHANGED <<tpc, slot>>, termPc' = termPc \/ termPc' # "done"
  PROVE  EmptySlots'
BY DEF EmptySlots, Alive

LEMMA EmptyMoves ==
  ASSUME ThreadTypes, EmptySlots, NEW t \in Threads, NEW l, NEW v,
         \A u \in Threads : tpc'[u] = IF u = t THEN l ELSE tpc[u],
         \A u \in Threads : slot'[u] = IF u = t THEN v ELSE slot[u],
         l \in {"none", "start", "saving", "waiting"} => v = 0,
         termPc' = "done" =>
           termPc = "done" /\ (l = "dead" \/ (v = 0 /\ l \in {"start", "top", "check", "exit"}))
  PROVE  EmptySlots'
<1>1. \A u \in Threads : tpc'[u] \in {"none", "start", "saving", "waiting"} => slot'[u] = 0
  BY DEF EmptySlots
<1>2. ASSUME termPc' = "done", NEW u \in Threads, tpc'[u] \notin {"none", "dead"}
      PROVE  slot'[u] = 0 /\ tpc'[u] \in {"start", "top", "check", "exit"}
  <2>1. CASE u = t
    BY <1>2, <2>1
  <2>2. CASE u # t
    BY <1>2, <2>2 DEF EmptySlots, Alive
  <2> QED
    BY <2>1, <2>2
<1> QED
  BY <1>1, <1>2 DEF EmptySlots, Alive

LEMMA EmptyCreated ==
  ASSUME ThreadTypes, EmptySlots, CreateThread, fails = 0, fails' = 0, UNCHANGED <<slot, termPc>>
  PROVE  EmptySlots'
<1>1. PICK t \in Threads : tpc[t] = "none" /\ tpc' = [tpc EXCEPT ![t] = "start"]
  BY CreatedAfresh
<1>2. slot[t] = 0
  BY <1>1 DEF EmptySlots
<1>3. /\ \A u \in Threads : tpc'[u] = IF u = t THEN "start" ELSE tpc[u]
      /\ \A u \in Threads : slot'[u] = IF u = t THEN 0 ELSE slot[u]
  BY <1>1, <1>2 DEF ThreadTypes
<1> QED
  BY <1>3, EmptyMoves

LEMMA ThreadKeepsEmpty ==
  ASSUME TypedInv, IdleThreads, EmptySlots, NEW t \in Threads, PoolThread(t)
  PROVE  EmptySlots'
<1> USE DEF TypedInv, ManagerTypes
<1>1. termPc' = termPc /\ poolStop' = poolStop /\ (termPc = "done" => poolStop)
  BY DEF PoolThread, IncreaseTotalNum, RunSlot, CheckPoolStop, SaveIdleThread, ExitThread,
         ownerVars, OwnerPlace
<1>2. PICK l, v : /\ tpc' = [tpc EXCEPT ![t] = l] /\ slot' = [slot EXCEPT ![t] = v]
                  /\ \/ tpc[t] = "start" /\ l = "top" /\ v = slot[t]
                     \/ tpc[t] = "top" /\ l = "check" /\ v = slot[t]
                     \/ tpc[t] = "check" /\ poolStop /\ l = "exit" /\ v = slot[t]
                     \/ tpc[t] = "check" /\ ~poolStop /\ l = "saving" /\ v = 0
                     \/ tpc[t] = "saving" /\ l = "waiting" /\ v = slot[t]
                     \/ tpc[t] = "exit" /\ l = "dead" /\ v = slot[t]
  <2>1. slot = [slot EXCEPT ![t] = slot[t]]
    BY DEF ThreadTypes
  <2>2. CASE IncreaseTotalNum(t) \/ RunSlot(t) \/ SaveIdleThread(t) \/ ExitThread(t)
    <3>1. slot' = slot
      BY <2>2 DEF IncreaseTotalNum, RunSlot, SaveIdleThread, ExitThread
    <3> QED
      BY <2>1, <2>2, <3>1 DEF IncreaseTotalNum, RunSlot, SaveIdleThread, ExitThread
  <2>3. CASE CheckPoolStop(t)
    BY <2>1, <2>3 DEF CheckPoolStop, ClearSlot
  <2> QED
    BY <2>2, <2>3 DEF PoolThread
<1>3. /\ \A u \in Threads : tpc'[u] = IF u = t THEN l ELSE tpc[u]
      /\ \A u \in Threads : slot'[u] = IF u = t THEN v ELSE slot[u]
  BY <1>2 DEF ThreadTypes
<1>4. l \in {"none", "start", "saving", "waiting"} => v = 0
  BY <1>2 DEF EmptySlots
<1>5. ASSUME termPc = "done"
      PROVE  l = "dead" \/ (v = 0 /\ l \in {"start", "top", "check", "exit"})
  <2>1. tpc[t] \notin {"none", "dead"}
    BY <1>2
  <2>2. slot[t] = 0 /\ tpc[t] \in {"start", "top", "check", "exit"}
    BY <1>5, <2>1 DEF EmptySlots, Alive
  <2>3. tpc[t] = "check" => l = "exit" /\ v = slot[t]
    <3>1. poolStop
      BY <1>1, <1>5
    <3> QED
      BY <1>2, <3>1
  <2>4. tpc[t] # "check" => l \in {"top", "check", "dead"} /\ v = slot[t]
    BY <1>2, <2>2
  <2> QED
    BY <2>2, <2>3, <2>4
<1> QED
  BY <1>1, <1>3, <1>4, <1>5, EmptyMoves

LEMMA DispatcherKeepsEmpty ==
  ASSUME TypedInv, IdleThreads, EmptySlots, Dispatcher, fails = 0, fails' = 0
  PROVE  EmptySlots'
<1> USE DEF TypedInv, ManagerTypes
<1>1. termPc' = termPc
  BY DEF Dispatcher, LockTask, GetTask, CheckStop, TaskCondTimeout, RunTask, GetThread,
         GetThreadAwake, HandTask, SaveIdleTask, ownerVars
<1>2. CASE HandTask
  <2>1. dpc = "hand" /\ dthread \in Threads /\ tpc[dthread] = "waiting"
    BY <1>2 DEF HandTask, IdleThreads, ThreadTypes
  <2>2. Wake(dthread) /\ slot' = [slot EXCEPT ![dthread] = content[dnode]]
    BY <1>2, <2>1 DEF HandTask
  <2>3. tpc'[dthread] = "top" /\ \A u \in Threads \ {dthread} : tpc'[u] = tpc[u]
    BY <2>1, <2>2, WokenIs
  <2>4. \A u \in Threads : slot'[u] = IF u = dthread THEN content[dnode] ELSE slot[u]
    BY <2>2 DEF ThreadTypes
  <2>5. termPc # "done"
    BY <2>1 DEF OwnerPlace
  <2> QED
    BY <1>1, <2>1, <2>3, <2>4, <2>5, EmptyMoves
<1>3. CASE RunTask
  <2>1. UNCHANGED slot /\ (CreateThread \/ UNCHANGED tpc)
    BY <1>3 DEF RunTask
  <2> QED
    BY <1>1, <2>1, EmptyCreated, EmptyStays
<1>4. CASE ~HandTask /\ ~RunTask
  <2>1. UNCHANGED <<tpc, slot>>
    BY <1>4 DEF Dispatcher, LockTask, GetTask, CheckStop, TaskCondTimeout, GetThread,
                GetThreadAwake, SaveIdleTask, threadVars
  <2> QED
    BY <1>1, <2>1, EmptyStays
<1> QED
  BY <1>2, <1>3, <1>4

LEMMA NoneCounted ==
  ASSUME ThreadTypes, totalNum <= 0
  PROVE  \A t \in Threads : tpc[t] \in {"none", "start", "dead"}
<1>1. IsFiniteSet(Counted)
  BY FS_Subset DEF Counted
<1>2. Cardinality(Counted) \in Nat /\ (Cardinality(Counted) = 0 <=> Counted = {})
  BY <1>1, FS_CardinalityType, FS_EmptySet
<1>3. Cardinality(Counted) = 0
  <2>1. Cardinality(Counted) <= 0
    BY DEF ThreadTypes
  <2> QED
    BY <1>2, <2>1
<1> QED
  BY <1>2, <1>3 DEF Counted

LEMMA OwnerKeepsEmpty ==
  ASSUME TypedInv, EmptySlots, Owner, fails = 0, fails' = 0
  PROVE  EmptySlots'
<1> USE DEF TypedInv, ManagerTypes
<1>1. CASE InitPool
  <2>1. CreateThread /\ UNCHANGED <<slot, termPc>>
    BY <1>1 DEF InitPool
  <2> QED
    BY <2>1, EmptyCreated
<1>2. CASE SendSignal
  <2>1. UNCHANGED slot /\ termPc' \in {"check", "signal"}
    BY <1>2 DEF SendSignal
  <2>2. CASE termNext <= Len(threads)
    <3>1. termNext \in 1 .. Len(threads)
      BY <2>2 DEF OwnerTypes, ThreadTypes
    <3>2. threads[termNext] \in Threads /\ Wake(threads[termNext])
      BY <1>2, <2>2, <3>1 DEF SendSignal, ThreadTypes
    <3>3. \A u \in Threads : tpc'[u] = tpc[u] \/ tpc'[u] = "top"
      BY <3>2, WokenIs
    <3> QED
      BY <2>1, <3>3 DEF EmptySlots
  <2>3. CASE UNCHANGED tpc
    BY <2>1, <2>3, EmptyStays
  <2> QED
    BY <1>2, <2>2, <2>3 DEF SendSignal
<1>3. CASE TerminalCheck
  <2>1. UNCHANGED <<tpc, slot>> /\ (termPc' = "done" => totalNum <= 0)
    BY <1>3 DEF TerminalCheck, AllExited, threadVars
  <2>2. CASE termPc' = "done"
    <3>1. \A t \in Threads : tpc[t] \in {"none", "start", "dead"}
      BY <2>1, <2>2, NoneCounted
    <3> QED
      BY <2>1, <3>1 DEF EmptySlots, Alive
  <2>3. CASE termPc' # "done"
    BY <2>1, <2>3, EmptyStays
  <2> QED
    BY <2>2, <2>3
<1>4. CASE InitDone \/ StopDispatcher \/ StopTaskPool \/ StopThreadPool \/ Destroyed
  <2>1. UNCHANGED <<tpc, slot>> /\ (termPc' = termPc \/ termPc' = "check")
    BY <1>4 DEF InitDone, StopDispatcher, StopTaskPool, StopThreadPool, Destroyed, threadVars
  <2> QED
    BY <2>1, EmptyStays
<1> QED
  BY <1>1, <1>2, <1>3, <1>4 DEF Owner

LEMMA EmptyStep ==
  ASSUME TypedInv, IdleThreads, EmptySlots, [Next]_vars, ~Disturbed'
  PROVE  EmptySlots'
<1>1. CASE Dispatcher \/ Owner
  BY <1>1, NoFaultSoFar, DispatcherKeepsEmpty, OwnerKeepsEmpty
<1>2. ASSUME NEW t \in Threads, PoolThread(t)
      PROVE  EmptySlots'
  BY <1>2, ThreadKeepsEmpty
<1>3. ASSUME SpuriousEmptyCond \/ \E t \in Threads : IdleTimeout(t) \/ SpuriousWake(t)
      PROVE  FALSE
  BY <1>3, NoFaultSoFar DEF SpuriousEmptyCond, IdleTimeout, SpuriousWake
<1>4. CASE StopAll \/ UseAfterDelete \/ CheckIdleTask \/ UNCHANGED vars
  <2>1. UNCHANGED <<tpc, slot, termPc>>
    BY <1>4 DEF StopAll, UseAfterDelete, CheckIdleTask, vars, threadVars, ownerVars
  <2> QED
    BY <2>1, EmptyStays
<1>5. ASSUME NEW s \in Submitters, AddTask(s) \/ Submitter(s)
      PROVE  EmptySlots'
  <2>1. UNCHANGED <<tpc, slot, termPc>>
    BY <1>5 DEF AddTask, Submitter, FillTask, PushTask, Kick, threadVars, ownerVars
  <2> QED
    BY <2>1, EmptyStays
<1> QED
  BY <1>1, <1>2, <1>3, <1>4, <1>5 DEF Next, Environment

(* Undefined behaviour.                                                    *)
LEMMA OwnerLast ==
  ASSUME [Next]_vars, opc = "destroyed"
  PROVE  opc' = "destroyed"
<1>1. CASE Dispatcher \/ CheckIdleTask
  BY <1>1 DEF Dispatcher, LockTask, GetTask, CheckStop, TaskCondTimeout, RunTask, GetThread,
              GetThreadAwake, HandTask, SaveIdleTask, CheckIdleTask, ownerVars
<1>2. CASE Owner
  BY <1>2 DEF Owner, InitPool, InitDone, StopDispatcher, StopTaskPool, StopThreadPool,
              TerminalCheck, SendSignal, Destroyed
<1>3. CASE StopAll \/ SpuriousEmptyCond \/ UseAfterDelete \/ UNCHANGED vars
  BY <1>3 DEF StopAll, SpuriousEmptyCond, UseAfterDelete, vars, ownerVars
<1>4. ASSUME NEW s \in Submitters, AddTask(s) \/ Submitter(s)
      PROVE  opc' = "destroyed"
  BY <1>4 DEF AddTask, Submitter, FillTask, PushTask, Kick, ownerVars
<1>5. ASSUME NEW t \in Threads, PoolThread(t) \/ IdleTimeout(t) \/ SpuriousWake(t)
      PROVE  opc' = "destroyed"
  BY <1>5 DEF PoolThread, IncreaseTotalNum, RunSlot, CheckPoolStop, SaveIdleThread, ExitThread,
              IdleTimeout, SpuriousWake, ownerVars
<1> QED
  BY <1>1, <1>2, <1>3, <1>4, <1>5 DEF Next, Environment

LEMMA SoundStep ==
  ASSUME TypedInv, IdleThreads, Sound, [Next]_vars, ~Disturbed'
  PROVE  Sound'
<1> USE DEF TypedInv, ManagerTypes
<1>1. opc = "destroyed" => opc' = "destroyed"
  BY OwnerLast
<1>2. undefined' => undefined \/ opc' = "destroyed"
  <2>1. CASE Dispatcher
    <3>1. CASE HandTask
      BY <3>1 DEF HandTask, IdleThreads
    <3>2. CASE GetThreadAwake
      BY <3>2 DEF GetThreadAwake, TakeFront, IdleThreads
    <3>3. CASE ~HandTask /\ ~GetThreadAwake
      BY <2>1, <3>3 DEF Dispatcher, LockTask, GetTask, CheckStop, TaskCondTimeout, RunTask,
                        GetThread, TakeFront, SaveIdleTask, faultVars
    <3> QED
      BY <3>1, <3>2, <3>3
  <2>2. CASE Owner
    BY <2>2, NoFaultSoFar DEF Owner, InitPool, InitDone, StopDispatcher, StopTaskPool,
                StopThreadPool, TerminalCheck, SendSignal, Destroyed, faultVars
  <2>3. CASE StopAll \/ SpuriousEmptyCond \/ CheckIdleTask \/ UNCHANGED vars
    BY <2>3 DEF StopAll, SpuriousEmptyCond, CheckIdleTask, vars, faultVars
  <2>4. CASE UseAfterDelete
    BY <2>4 DEF UseAfterDelete, ownerVars
  <2>5. ASSUME NEW s \in Submitters, AddTask(s) \/ Submitter(s)
        PROVE  undefined' = undefined
    BY <2>5 DEF AddTask, Submitter, FillTask, PushTask, Kick, faultVars
  <2>6. ASSUME NEW t \in Threads, PoolThread(t) \/ IdleTimeout(t) \/ SpuriousWake(t)
        PROVE  undefined' = undefined
    BY <2>6 DEF PoolThread, IncreaseTotalNum, RunSlot, CheckPoolStop, SaveIdleThread, ExitThread,
                IdleTimeout, SpuriousWake, faultVars
  <2> QED
    BY <2>1, <2>2, <2>3, <2>4, <2>5, <2>6 DEF Next, Environment
<1> QED
  BY <1>1, <1>2 DEF Sound

-----------------------------------------------------------------------------
(* One place for each task.                                                *)

HandedStay ==
  \A t \in Threads :
    /\ tpc'[t] = "top" /\ slot'[t] # 0 <=> tpc[t] = "top" /\ slot[t] # 0
    /\ tpc[t] = "top" /\ slot[t] # 0 => slot'[t] = slot[t]

(* A step that touches neither tasks nor the threads that have one.        *)
Aside ==
  /\ UNCHANGED <<taskList, snode, dnode, content, accepted, done>> /\ HandedStay
  /\ dnode = NULL \/ (dpc' = "save" <=> dpc = "save")

LEMMA NumberedStays ==
  ASSUME Numbered, Unhanded' = Unhanded, \A n \in Unhanded : content'[n] = content[n],
         HandedStay, UNCHANGED <<accepted, done>>
  PROVE  Numbered'
<1>1. /\ \A n \in Unhanded' : content'[n] \in 1 .. accepted'
      /\ \A n, m \in Unhanded' : content'[n] = content'[m] => n = m
      /\ \A n \in Unhanded' : content'[n] \notin Range(done')
      /\ IsInjective(done') /\ Range(done') \subseteq 1 .. accepted'
  BY DEF Numbered
<1>2. /\ \A t \in Threads : Assigned(t)' => slot'[t] \in 1 .. accepted'
      /\ \A t, u \in Threads : Assigned(t)' /\ Assigned(u)' /\ slot'[t] = slot'[u] => t = u
      /\ \A n \in Unhanded' : \A t \in Threads : Assigned(t)' => content'[n] # slot'[t]
      /\ \A t \in Threads : Assigned(t)' => slot'[t] \notin Range(done')
  BY DEF Numbered, HandedStay, Assigned
<1>3. \A k \in 1 .. accepted' :
        \/ \E n \in Unhanded' : content'[n] = k
        \/ \E t \in Threads : Assigned(t)' /\ slot'[t] = k
        \/ k \in Range(done')
  BY DEF Numbered, HandedStay, Assigned
<1> QED
  BY <1>1, <1>2, <1>3 DEF Numbered

LEMMA NumberedFill ==
  ASSUME Numbered, accepted \in Nat, NEW n, n \notin Unhanded, Unhanded' = Unhanded \cup {n},
         content'[n] = accepted + 1, \A m \in Unhanded : content'[m] = content[m],
         accepted' = accepted + 1, UNCHANGED <<tpc, slot, done>>
  PROVE  Numbered'
<1>1. 1 .. accepted' = (1 .. accepted) \cup {accepted + 1} /\ accepted + 1 \notin 1 .. accepted
  OBVIOUS
<1>2. /\ \A m \in Unhanded' : content'[m] \in 1 .. accepted'
      /\ \A m, p \in Unhanded' : content'[m] = content'[p] => m = p
      /\ \A m \in Unhanded' : content'[m] \notin Range(done')
      /\ IsInjective(done') /\ Range(done') \subseteq 1 .. accepted'
  BY <1>1 DEF Numbered
<1>3. /\ \A t \in Threads : Assigned(t)' => slot'[t] \in 1 .. accepted'
      /\ \A t, u \in Threads : Assigned(t)' /\ Assigned(u)' /\ slot'[t] = slot'[u] => t = u
      /\ \A m \in Unhanded' : \A t \in Threads : Assigned(t)' => content'[m] # slot'[t]
      /\ \A t \in Threads : Assigned(t)' => slot'[t] \notin Range(done')
  BY <1>1 DEF Numbered, Assigned
<1>4. \A k \in 1 .. accepted' :
        \/ \E m \in Unhanded' : content'[m] = k
        \/ \E t \in Threads : Assigned(t)' /\ slot'[t] = k
        \/ k \in Range(done')
  BY <1>1 DEF Numbered, Assigned
<1> QED
  BY <1>2, <1>3, <1>4 DEF Numbered

LEMMA NumberedHand ==
  ASSUME Numbered, NEW n \in Unhanded, NEW t \in Threads, 0 \notin 1 .. accepted,
         Unhanded' = Unhanded \ {n}, UNCHANGED <<content, accepted, done>>,
         ~(tpc[t] = "top"), tpc'[t] = "top", slot'[t] = content[n],
         \A u \in Threads \ {t} : tpc'[u] = tpc[u] /\ slot'[u] = slot[u]
  PROVE  Numbered'
<1>1. content[n] \in 1 .. accepted /\ content[n] # 0
  BY DEF Numbered
<1>2. /\ \A m \in Unhanded' : content'[m] \in 1 .. accepted'
      /\ \A m, p \in Unhanded' : content'[m] = content'[p] => m = p
      /\ \A m \in Unhanded' : content'[m] \notin Range(done')
      /\ IsInjective(done') /\ Range(done') \subseteq 1 .. accepted'
  BY DEF Numbered
<1>3. \A u \in Threads : tpc'[u] = "top" /\ slot'[u] # 0 =>
        (u = t /\ slot'[u] = content[n]) \/ (u # t /\ Assigned(u) /\ slot'[u] = slot[u])
  BY DEF Assigned
<1>4. /\ \A u \in Threads : Assigned(u)' => slot'[u] \in 1 .. accepted'
      /\ \A u, v \in Threads : Assigned(u)' /\ Assigned(v)' /\ slot'[u] = slot'[v] => u = v
      /\ \A m \in Unhanded' : \A u \in Threads : Assigned(u)' => content'[m] # slot'[u]
      /\ \A u \in Threads : Assigned(u)' => slot'[u] \notin Range(done')
  <2>1. \A u \in Threads : tpc'[u] = "top" /\ slot'[u] # 0 => slot'[u] \in 1 .. accepted
    BY <1>1, <1>3 DEF Numbered
  <2>2. \A u, v \in Threads :
          /\ tpc'[u] = "top" /\ slot'[u] # 0 /\ tpc'[v] = "top" /\ slot'[v] # 0
          /\ slot'[u] = slot'[v]
          => u = v
    BY <1>3 DEF Numbered
  <2>3. \A m \in Unhanded \ {n} : \A u \in Threads :
          tpc'[u] = "top" /\ slot'[u] # 0 => content[m] # slot'[u]
    BY <1>3 DEF Numbered
  <2>4. \A u \in Threads : tpc'[u] = "top" /\ slot'[u] # 0 => slot'[u] \notin Range(done)
    BY <1>3 DEF Numbered
  <2> QED
    BY <2>1, <2>2, <2>3, <2>4 DEF Assigned
<1>5. \A k \in 1 .. accepted :
        \/ \E m \in Unhanded' : content'[m] = k
        \/ \E u \in Threads : tpc'[u] = "top" /\ slot'[u] # 0 /\ slot'[u] = k
        \/ k \in Range(done)
  <2> SUFFICES ASSUME NEW k \in 1 .. accepted, k \notin Range(done)
               PROVE  \/ \E m \in Unhanded' : content'[m] = k
                      \/ \E u \in Threads : tpc'[u] = "top" /\ slot'[u] # 0 /\ slot'[u] = k
    OBVIOUS
  <2>1. CASE \E m \in Unhanded : content[m] = k
    BY <1>1, <2>1
  <2>2. CASE \E u \in Threads : Assigned(u) /\ slot[u] = k
    BY <2>2 DEF Assigned
  <2> QED
    BY <2>1, <2>2 DEF Numbered
<1> QED
  BY <1>2, <1>4, <1>5 DEF Numbered, Assigned

LEMMA NumberedRun ==
  ASSUME Numbered, NEW t \in Threads, Assigned(t), Unhanded' = Unhanded,
         UNCHANGED <<content, accepted, slot>>, tpc'[t] # "top",
         \A u \in Threads \ {t} : tpc'[u] = tpc[u],
         IsInjective(done'), Range(done') = Range(done) \cup {slot[t]}
  PROVE  Numbered'
<1>1. \A u \in Threads : tpc'[u] = "top" /\ slot'[u] # 0 <=> u # t /\ Assigned(u)
  BY DEF Assigned
<1>2. /\ \A m \in Unhanded' : content'[m] \in 1 .. accepted'
      /\ \A m, p \in Unhanded' : content'[m] = content'[p] => m = p
      /\ \A m \in Unhanded' : content'[m] \notin Range(done')
      /\ Range(done') \subseteq 1 .. accepted'
  BY DEF Numbered
<1>3. /\ \A u \in Threads : (u # t /\ Assigned(u)) => slot[u] \in 1 .. accepted
      /\ \A u, v \in Threads :
           (u # t /\ Assigned(u)) /\ (v # t /\ Assigned(v)) /\ slot[u] = slot[v] => u = v
      /\ \A m \in Unhanded : \A u \in Threads : (u # t /\ Assigned(u)) => content[m] # slot[u]
      /\ \A u \in Threads : (u # t /\ Assigned(u)) => slot[u] \notin Range(done')
  BY DEF Numbered
<1>4. \A k \in 1 .. accepted :
        \/ \E m \in Unhanded : content[m] = k
        \/ \E u \in Threads : (u # t /\ Assigned(u)) /\ slot[u] = k
        \/ k \in Range(done')
  BY DEF Numbered
<1>5. /\ \A u \in Threads : Assigned(u)' => slot'[u] \in 1 .. accepted'
      /\ \A u, v \in Threads : Assigned(u)' /\ Assigned(v)' /\ slot'[u] = slot'[v] => u = v
      /\ \A m \in Unhanded' : \A u \in Threads : Assigned(u)' => content'[m] # slot'[u]
      /\ \A u \in Threads : Assigned(u)' => slot'[u] \notin Range(done')
      /\ \A k \in 1 .. accepted' :
           \/ \E m \in Unhanded' : content'[m] = k
           \/ \E u \in Threads : Assigned(u)' /\ slot'[u] = k
           \/ k \in Range(done')
  <2>1. \A u \in Threads : (tpc[u] = "top" /\ slot[u] # 0)' <=> u # t /\ Assigned(u)
    BY <1>1
  <2> QED
    BY <1>1, <1>3, <1>4 DEF Assigned
<1> QED
  BY <1>2, <1>5 DEF Numbered

LEMMA AsideKeepsNumbers ==
  ASSUME Numbered, Aside
  PROVE  Numbered'
<1>1. Filling' = Filling
  BY DEF Aside, Filling
<1>2. Unhanded' = Unhanded
  BY <1>1 DEF Aside, Unhanded
<1> QED
  BY <1>2, NumberedStays DEF Aside

LEMMA SlotsAside ==
  ASSUME UNCHANGED <<tpc, slot>>
  PROVE  HandedStay
BY DEF HandedStay

(* A thread that moves and has no task, before or after.                   *)
LEMMA EmptyAside ==
  ASSUME ThreadTypes, NEW t \in Threads, NEW l, NEW v,
         tpc' = [tpc EXCEPT ![t] = l], slot' = [slot EXCEPT ![t] = v],
         tpc[t] # "top" \/ slot[t] = 0, l # "top" \/ v = 0
  PROVE  HandedStay
<1>1. /\ tpc'[t] = l /\ \A u \in Threads \ {t} : tpc'[u] = tpc[u]
      /\ slot'[t] = v /\ \A u \in Threads \ {t} : slot'[u] = slot[u]
  BY DEF ThreadTypes
<1> QED
  BY <1>1 DEF HandedStay

(* The object FillTask takes was spare or is new.                          *)
LEMMA FilledObject ==
  ASSUME TaskTypes, TaskPlaces, NEW s \in Submitters, FillTask(s)
  PROVE  \E n \in TaskObjects :
           /\ n \notin Range(taskList) /\ n # dnode /\ n # NULL
           /\ \A r \in Submitters : snode[r] # n
           /\ snode' = [snode EXCEPT ![s] = n] /\ content' = [content EXCEPT ![n] = accepted + 1]
<1>1. PICK n : /\ \/ idleList # <<>> /\ n = Head(idleList)
                  \/ idleList = <<>> /\ n \in TaskObjects \ taskHeap
               /\ snode' = [snode EXCEPT ![s] = n]
               /\ content' = [content EXCEPT ![n] = accepted + 1]
  <2>1. CASE idleList # <<>>
    BY <2>1 DEF FillTask
  <2>2. CASE idleList = <<>>
    BY <2>2 DEF FillTask
  <2> QED
    BY <2>1, <2>2
<1>2. /\ n \in TaskObjects /\ n \notin Range(taskList) /\ n # dnode /\ n # NULL
      /\ \A r \in Submitters : snode[r] # n
  <2>1. CASE idleList # <<>>
    BY <1>1, <2>1, TailOfDistinct DEF TaskTypes, TaskPlaces
  <2>2. CASE idleList = <<>>
    BY <1>1, <2>2 DEF TaskTypes, TaskPlaces
  <2> QED
    BY <2>1, <2>2
<1> QED
  BY <1>1, <1>2

LEMMA FillKeepsNumbers ==
  ASSUME TypedInv, Numbered, NEW s \in Submitters, FillTask(s)
  PROVE  Numbered'
<1> USE DEF TypedInv, TaskInv, ManagerTypes
<1>1. /\ spc[s] = "alloc" /\ accepted' = accepted + 1 /\ accepted \in Nat
      /\ UNCHANGED <<taskList, dnode, dpc, tpc, slot, done>>
  BY DEF FillTask, dispVars, threadVars, CallTypes
<1>3. PICK n \in TaskObjects :
        /\ n \notin Range(taskList) /\ n # dnode /\ n # NULL
        /\ \A r \in Submitters : snode[r] # n
        /\ snode' = [snode EXCEPT ![s] = n] /\ content' = [content EXCEPT ![n] = accepted + 1]
  BY FilledObject
<1>4. snode[s] = NULL /\ \A r \in Submitters : snode'[r] = IF r = s THEN n ELSE snode[r]
  BY <1>1, <1>3 DEF TaskTypes, TaskPlaces
<1>5. Filling' = Filling \cup {n}
  BY <1>3, <1>4 DEF Filling
<1>6. n \notin Unhanded /\ Unhanded' = Unhanded \cup {n}
  BY <1>1, <1>3, <1>5 DEF Unhanded, Filling
<1>7. content'[n] = accepted + 1 /\ \A m \in Unhanded : content'[m] = content[m]
  BY <1>3, <1>6 DEF CallTypes, Unhanded
<1> QED
  BY <1>1, <1>6, <1>7, NumberedFill

LEMMA PushKeepsNumbers ==
  ASSUME TypedInv, Numbered, NEW s \in Submitters, PushTask(s)
  PROVE  Numbered'
<1> USE DEF TypedInv, TaskInv, ManagerTypes
<1>1. /\ spc[s] = "push" /\ taskList' = Append(taskList, snode[s])
      /\ snode' = [snode EXCEPT ![s] = NULL]
      /\ UNCHANGED <<dnode, dpc, content, accepted, tpc, slot, done>>
  BY DEF PushTask, dispVars, threadVars
<1>2. snode[s] \in TaskObjects
  BY <1>1 DEF TaskTypes, TaskPlaces
<1>3. Range(taskList') = Range(taskList) \cup {snode[s]}
  BY <1>1, <1>2, AppendRange DEF TaskTypes
<1>4. \A r \in Submitters : snode'[r] = IF r = s THEN NULL ELSE snode[r]
  BY <1>1 DEF TaskTypes
<1>5. Filling = Filling' \cup {snode[s]}
  BY <1>2, <1>4 DEF Filling
<1>6. Unhanded' = Unhanded
  BY <1>1, <1>3, <1>5 DEF Unhanded
<1> QED
  BY <1>1, <1>6, SlotsAside, NumberedStays

LEMMA DispatcherAside ==
  ASSUME TypedInv, Dispatcher, fails = 0, fails' = 0, ~HandTask, ~SaveIdleTask,
         ~(GetTask /\ taskList # <<>>)
  PROVE  Aside
<1> USE DEF TypedInv, TaskInv, ManagerTypes, Aside
<1>1. CASE LockTask \/ CheckStop \/ TaskCondTimeout
  <2>1. UNCHANGED <<taskList, snode, dnode, content, accepted, done, tpc, slot>>
        /\ dpc \in {"lock", "drained", "wait"} /\ dpc' # "save"
    BY <1>1 DEF LockTask, CheckStop, TaskCondTimeout, TaskWaitOver, taskVars, submitVars,
                threadVars
  <2> QED
    BY <2>1, SlotsAside
<1>2. CASE GetTask
  <2>1. dpc = "drain" /\ dnode = NULL
        /\ UNCHANGED <<snode, content, accepted, done, tpc, slot>>
    BY <1>2 DEF GetTask, submitVars, threadVars, TaskTypes, TaskPlaces, Holding
  <2>2. UNCHANGED <<taskList, dnode>>
    BY <1>2 DEF GetTask
  <2> QED
    BY <2>1, <2>2, SlotsAside
<1>3. CASE RunTask
  <2>1. UNCHANGED <<taskList, snode, dnode, content, accepted, done, slot>>
        /\ dpc = "run" /\ dpc' = "get" /\ (CreateThread \/ UNCHANGED tpc)
    BY <1>3 DEF RunTask, taskVars, submitVars
  <2>2. HandedStay
    <3>1. CASE UNCHANGED tpc
      BY <2>1, <3>1, SlotsAside
    <3>2. CASE CreateThread
      <4>1. PICK t \in Threads : tpc[t] = "none" /\ tpc' = [tpc EXCEPT ![t] = "start"]
        BY <3>2, CreatedAfresh
      <4>2. slot' = [slot EXCEPT ![t] = slot[t]]
        BY <2>1 DEF ThreadTypes
      <4> QED
        BY <4>1, <4>2, EmptyAside
    <3> QED
      BY <2>1, <3>1, <3>2
  <2> QED
    BY <2>1, <2>2
<1>4. CASE GetThread \/ GetThreadAwake
  <2>1. UNCHANGED <<taskList, snode, dnode, content, accepted, done, tpc, slot>>
        /\ dpc \in {"get", "nonempty"} /\ dpc' \in {"await", "hand", "nonempty"}
    BY <1>4 DEF GetThread, GetThreadAwake, TakeFront, taskVars, submitVars, threadVars
  <2> QED
    BY <2>1, SlotsAside
<1> QED
  BY <1>1, <1>2, <1>3, <1>4 DEF Dispatcher

LEMMA DispatcherKeepsNumbers ==
  ASSUME TypedInv, IdleThreads, Numbered, Dispatcher, fails = 0, fails' = 0
  PROVE  Numbered'
<1> USE DEF TypedInv, TaskInv, ManagerTypes
<1>1. CASE GetTask /\ taskList # <<>>
  <2>1. dpc = "drain" /\ dnode = NULL
        /\ UNCHANGED <<snode, content, accepted, done, tpc, slot>>
    BY <1>1 DEF GetTask, submitVars, threadVars, TaskTypes, TaskPlaces, Holding
  <2>2. dpc' = "run" /\ dnode' = Head(taskList) /\ taskList' = Tail(taskList)
    BY <1>1 DEF GetTask
  <2>3. Head(taskList) \in Range(taskList)
        /\ Range(taskList') = Range(taskList) \ {Head(taskList)}
    BY <1>1, <2>2, TailOfDistinct DEF TaskTypes, TaskPlaces
  <2>4. Filling' = Filling /\ NULL \notin TaskObjects
    BY <2>1 DEF Filling
  <2>5. Unhanded' = Unhanded
    BY <2>1, <2>2, <2>3, <2>4 DEF Unhanded
  <2> QED
    BY <2>1, <2>5, SlotsAside, NumberedStays
<1>2. CASE HandTask
  <2>1. /\ dpc = "hand" /\ dthread \in Threads /\ tpc[dthread] = "waiting"
        /\ dnode \in TaskObjects /\ UNCHANGED <<taskList, snode, dnode, content, accepted, done>>
    BY <1>2 DEF HandTask, IdleThreads, ThreadTypes, TaskTypes, TaskPlaces, Holding, taskVars,
                submitVars
  <2>2. Wake(dthread) /\ slot' = [slot EXCEPT ![dthread] = content[dnode]] /\ dpc' = "save"
    BY <1>2, <2>1 DEF HandTask
  <2>3. tpc'[dthread] = "top" /\ \A u \in Threads \ {dthread} : tpc'[u] = tpc[u]
    BY <2>1, <2>2, WokenIs
  <2>4. slot'[dthread] = content[dnode] /\ \A u \in Threads \ {dthread} : slot'[u] = slot[u]
    BY <2>1, <2>2 DEF ThreadTypes
  <2>5. Filling' = Filling /\ dnode \notin Range(taskList) /\ dnode \notin Filling
    BY <2>1 DEF Filling, TaskPlaces
  <2>6. dnode \in Unhanded /\ Unhanded' = Unhanded \ {dnode}
    BY <2>1, <2>2, <2>5 DEF Unhanded
  <2>7. 0 \notin 1 .. accepted
    OBVIOUS
  <2> QED
    BY <2>1, <2>3, <2>4, <2>6, <2>7, NumberedHand
<1>3. CASE SaveIdleTask
  <2>1. /\ dpc = "save" /\ dpc' = "drain" /\ dnode' = NULL
        /\ content' = [content EXCEPT ![dnode] = 0]
        /\ UNCHANGED <<taskList, snode, accepted, done, tpc, slot>>
    BY <1>3 DEF SaveIdleTask, submitVars, threadVars
  <2>2. Filling' = Filling /\ NULL \notin TaskObjects /\ dnode \notin Range(taskList)
        /\ dnode \notin Filling
    BY <2>1 DEF Filling, TaskPlaces, TaskTypes
  <2>3. Unhanded' = Unhanded /\ dnode \notin Unhanded
    BY <2>1, <2>2 DEF Unhanded
  <2>4. \A n \in Unhanded : content'[n] = content[n]
    BY <2>1, <2>3 DEF CallTypes, Unhanded
  <2> QED
    BY <2>1, <2>3, <2>4, SlotsAside, NumberedStays
<1> QED
  BY <1>1, <1>2, <1>3, DispatcherAside, AsideKeepsNumbers

LEMMA ThreadAside ==
  ASSUME TypedInv, EmptySlots, NEW t \in Threads, PoolThread(t), ~(RunSlot(t) /\ slot[t] # 0)
  PROVE  Aside
<1> USE DEF TypedInv, ManagerTypes
<1>1. UNCHANGED <<taskList, snode, dnode, content, accepted>>
      /\ (dpc' = "save" <=> dpc = "save")
  BY DEF PoolThread, IncreaseTotalNum, RunSlot, CheckPoolStop, SaveIdleThread, ExitThread,
         taskVars, submitVars, dispVars
<1>2. slot = [slot EXCEPT ![t] = slot[t]]
  BY DEF ThreadTypes
<1>3. done' = done
  BY DEF PoolThread, IncreaseTotalNum, RunSlot, CheckPoolStop, SaveIdleThread, ExitThread
<1>4. CASE IncreaseTotalNum(t)
  <2>1. tpc[t] = "start" /\ tpc' = [tpc EXCEPT ![t] = "top"] /\ slot' = slot
    BY <1>4 DEF IncreaseTotalNum
  <2>2. slot[t] = 0
    BY <2>1 DEF EmptySlots
  <2>3. HandedStay
    BY <1>2, <2>1, <2>2, EmptyAside
  <2> QED
    BY <1>1, <1>3, <2>3 DEF Aside
<1>5. CASE RunSlot(t)
  <2>1. slot[t] = 0 /\ tpc' = [tpc EXCEPT ![t] = "check"] /\ slot' = slot
    BY <1>5 DEF RunSlot
  <2>2. HandedStay
    BY <1>2, <2>1, EmptyAside
  <2> QED
    BY <1>1, <1>3, <2>2 DEF Aside
<1>6. CASE CheckPoolStop(t) \/ SaveIdleThread(t) \/ ExitThread(t)
  <2>1. PICK l, v : /\ tpc' = [tpc EXCEPT ![t] = l] /\ slot' = [slot EXCEPT ![t] = v]
                    /\ tpc[t] # "top" /\ l # "top"
    BY <1>2, <1>6 DEF CheckPoolStop, ClearSlot, SaveIdleThread, ExitThread
  <2>2. HandedStay
    BY <2>1, EmptyAside
  <2> QED
    BY <1>1, <1>3, <2>2 DEF Aside
<1> QED
  BY <1>4, <1>5, <1>6 DEF PoolThread

LEMMA ThreadKeepsNumbers ==
  ASSUME TypedInv, EmptySlots, Numbered, NEW t \in Threads, PoolThread(t)
  PROVE  Numbered'
<1> USE DEF TypedInv, ManagerTypes
<1>1. CASE RunSlot(t) /\ slot[t] # 0
  <2>1. /\ tpc[t] = "top" /\ tpc' = [tpc EXCEPT ![t] = "check"] /\ slot' = slot
        /\ done' = Append(done, slot[t])
        /\ UNCHANGED <<taskList, snode, dnode, dpc, content, accepted>>
    BY <1>1 DEF RunSlot, taskVars, submitVars, dispVars
  <2>2. Assigned(t) /\ slot[t] \notin Range(done)
    BY <1>1, <2>1 DEF Assigned, Numbered
  <2>3. slot[t] \in 1 .. MaxRuns /\ done \in Seq(1 .. MaxRuns) /\ IsInjective(done)
    BY <1>1 DEF ThreadTypes, Numbered
  <2>4. IsInjective(done') /\ Range(done') = Range(done) \cup {slot[t]}
    BY <2>1, <2>2, <2>3, AppendToDistinct
  <2>5. tpc'[t] # "top" /\ \A u \in Threads \ {t} : tpc'[u] = tpc[u]
    BY <2>1 DEF ThreadTypes
  <2>6. Filling' = Filling
    BY <2>1 DEF Filling
  <2>7. Unhanded' = Unhanded
    BY <2>1, <2>6 DEF Unhanded
  <2> QED
    BY <2>1, <2>2, <2>4, <2>5, <2>7, NumberedRun
<1>2. CASE ~(RunSlot(t) /\ slot[t] # 0)
  BY <1>2, ThreadAside, AsideKeepsNumbers
<1> QED
  BY <1>1, <1>2

LEMMA OwnerAside ==
  ASSUME TypedInv, EmptySlots, Owner, fails = 0, fails' = 0
  PROVE  Aside
<1> USE DEF TypedInv, TaskInv, ManagerTypes
<1>1. UNCHANGED <<taskList, snode, dnode, content, accepted, slot, done>>
  BY DEF Owner, InitPool, InitDone, StopDispatcher, StopTaskPool, StopThreadPool, TerminalCheck,
         SendSignal, Destroyed, taskVars, submitVars, dispVars, threadVars
<1>2. dnode = NULL \/ (dpc' = "save" <=> dpc = "save")
  <2>1. CASE InitDone
    BY <2>1 DEF InitDone, TaskTypes, TaskPlaces, Holding
  <2>2. CASE ~InitDone
    BY <2>2 DEF Owner, InitPool, StopDispatcher, SignalTask, StopTaskPool, StopThreadPool,
                TerminalCheck, SendSignal, Destroyed, dispVars
  <2> QED
    BY <2>1, <2>2
<1>3. HandedStay
  <2>1. CASE InitPool
    <3>1. PICK t \in Threads : tpc[t] = "none" /\ tpc' = [tpc EXCEPT ![t] = "start"]
      BY <2>1, CreatedAfresh DEF InitPool
    <3>2. slot' = [slot EXCEPT ![t] = slot[t]]
      BY <1>1 DEF ThreadTypes
    <3> QED
      BY <3>1, <3>2, EmptyAside
  <2>2. CASE SendSignal /\ termNext <= Len(threads)
    <3>1. termNext \in 1 .. Len(threads)
      BY <2>2 DEF OwnerTypes, ThreadTypes
    <3>2. threads[termNext] \in Threads /\ Wake(threads[termNext])
      BY <2>2, <3>1 DEF SendSignal, ThreadTypes
    <3>3. \A u \in Threads : tpc'[u] = tpc[u] \/ (tpc[u] = "waiting" /\ tpc'[u] = "top")
      BY <3>2, WokenIs
    <3>4. \A u \in Threads : tpc[u] = "waiting" => slot[u] = 0
      BY DEF EmptySlots
    <3> QED
      BY <1>1, <3>3, <3>4 DEF HandedStay
  <2>3. CASE ~InitPool /\ ~(SendSignal /\ termNext <= Len(threads))
    <3>1. UNCHANGED tpc
      BY <2>3 DEF Owner, InitDone, StopDispatcher, StopTaskPool, StopThreadPool, TerminalCheck,
                  SendSignal, Destroyed, threadVars
    <3> QED
      BY <1>1, <3>1, SlotsAside
  <2> QED
    BY <2>1, <2>2, <2>3
<1> QED
  BY <1>1, <1>2, <1>3 DEF Aside

(* What is left of Next: the callers, the idle thread, and a stutter.      *)
Elsewhere ==
  \/ StopAll \/ UseAfterDelete \/ CheckIdleTask \/ UNCHANGED vars
  \/ \E s \in Submitters : AddTask(s) \/ Kick(s)

LEMMA OthersAside ==
  ASSUME Elsewhere
  PROVE  Aside
<1>1. UNCHANGED <<taskList, snode, dnode, content, accepted, done, tpc, slot>>
      /\ (dpc' = dpc \/ (dpc = "wait" /\ dpc' = "lock"))
  BY DEF Elsewhere, StopAll, UseAfterDelete, CheckIdleTask, vars, taskVars, submitVars, dispVars,
         threadVars, AddTask, Kick, SignalTask
<1> QED
  BY <1>1, SlotsAside DEF Aside

LEMMA NumberedStep ==
  ASSUME TypedInv, IdleThreads, EmptySlots, Numbered, [Next]_vars, ~Disturbed'
  PROVE  Numbered'
<1>1. CASE Dispatcher \/ Owner
  BY <1>1, NoFaultSoFar, DispatcherKeepsNumbers, OwnerAside, AsideKeepsNumbers
<1>2. ASSUME NEW t \in Threads, PoolThread(t)
      PROVE  Numbered'
  BY <1>2, ThreadKeepsNumbers
<1>3. ASSUME SpuriousEmptyCond \/ \E t \in Threads : IdleTimeout(t) \/ SpuriousWake(t)
      PROVE  FALSE
  BY <1>3, NoFaultSoFar DEF SpuriousEmptyCond, IdleTimeout, SpuriousWake
<1>4. CASE Elsewhere
  BY <1>4, OthersAside, AsideKeepsNumbers
<1>5. ASSUME NEW s \in Submitters, FillTask(s) \/ PushTask(s)
      PROVE  Numbered'
  BY <1>5, FillKeepsNumbers, PushKeepsNumbers
<1> QED
  BY <1>1, <1>2, <1>3, <1>4, <1>5 DEF Next, Environment, Submitter, Elsewhere

LEMMA HealthyStart == Init => Healthy
<1> SUFFICES ASSUME Init
             PROVE  IdleThreads /\ EmptySlots /\ Numbered /\ Sound
  BY DEF Healthy
<1>1. /\ threads = <<>> /\ done = <<>> /\ taskList = <<>> /\ accepted = 0 /\ dpc = "none"
      /\ dnode = NULL /\ termPc = "none" /\ undefined = FALSE
      /\ \A t \in Threads : tpc[t] = "none" /\ slot[t] = 0
      /\ \A s \in Submitters : snode[s] = NULL
  BY DEF Init
<1>2. /\ IsInjective(threads) /\ Range(threads) = {} /\ IsInjective(done) /\ Range(done) = {}
      /\ Range(taskList) = {}
  BY <1>1, EmptyDistinct
<1>3. IdleThreads /\ EmptySlots /\ Sound
  BY <1>1, <1>2 DEF IdleThreads, EmptySlots, Sound
<1>4. Unhanded = {}
  BY <1>1, <1>2 DEF Unhanded, Filling
<1>5. Numbered
  BY <1>1, <1>2, <1>4 DEF Numbered, Assigned
<1> QED
  BY <1>3, <1>5

LEMMA HealthyStep == TypedInv /\ Healthy /\ [Next]_vars => Healthy'
<1> SUFFICES ASSUME TypedInv, Healthy, [Next]_vars, ~Disturbed'
             PROVE  IdleThreads' /\ EmptySlots' /\ Numbered' /\ Sound'
  BY DEF Healthy
<1>1. IdleThreads /\ EmptySlots /\ Numbered /\ Sound
  BY NoFaultSoFar DEF Healthy
<1> QED
  BY <1>1, IdleStep, EmptyStep, NumberedStep, SoundStep

LEMMA ManagerInvariant == Spec => []ManagerInv
<1>1. Init => ManagerInv
  BY TasksStart, ManagerTypesStart, HealthyStart DEF TypedInv, ManagerInv
<1>2. ManagerInv /\ [Next]_vars => ManagerInv'
  BY TasksStep, CallsStep, ThreadsStep, OwnerOrder, HealthyStep
     DEF TypedInv, ManagerTypes, ManagerInv
<1> QED
  BY <1>1, <1>2, PTL DEF Spec

LEMMA PlacesOfTask ==
  ASSUME NEW k
  PROVE  /\ Unassigned(k) <=> \E n \in Unhanded : content[n] = k
         /\ Run(k) <=> k \in Range(done)
BY DEF Unassigned, Unhanded, Queued, Run, Range

(* While no pool thread timed out, woke up for nothing or could not be     *)
(* created, each accepted task is in one place: with a submitter, queued,  *)
(* with the dispatcher, handed to one thread, or run once (AddTask,        *)
(* TaskThread, ThreadPool::Run and WapperFun together).                    *)
THEOREM TasksAreKept == Spec => []TaskKept
<1>1. ManagerInv => TaskKept
  <2> SUFFICES ASSUME TypedInv, Numbered, NEW k \in 1 .. accepted
               PROVE  /\ Cardinality({i \in DOMAIN done : done[i] = k}) <= 1
                      /\ Unassigned(k) \/ Given(k) \/ Run(k)
                      /\ ~(Unassigned(k) /\ (Given(k) \/ Run(k))) /\ ~(Given(k) /\ Run(k))
    BY DEF ManagerInv, Healthy, TaskKept
  <2>1. Cardinality({i \in DOMAIN done : done[i] = k}) <= 1
    <3>1. done \in Seq(1 .. MaxRuns) /\ IsInjective(done)
      BY DEF TypedInv, ManagerTypes, ThreadTypes, Numbered
    <3>2. Cardinality({i \in DOMAIN done : done[i] = k}) = IF k \in Range(done) THEN 1 ELSE 0
      BY <3>1, OccursOnce
    <3> QED
      BY <3>2
  <2>2. Unassigned(k) \/ Given(k) \/ Run(k)
    BY PlacesOfTask DEF Numbered, Given
  <2>3. ~(Unassigned(k) /\ (Given(k) \/ Run(k))) /\ ~(Given(k) /\ Run(k))
    BY PlacesOfTask DEF Numbered, Given
  <2> QED
    BY <2>1, <2>2, <2>3
<1> QED
  BY <1>1, ManagerInvariant, PTL

(* Undefined behaviour needs such a disturbance or a thread that had not   *)
(* counted itself when TerminalCheck read m_totalNum: no other is alive    *)
(* when the pool is deleted, and that one has no task.                     *)
THEOREM FaultsHaveCause == Spec => []FaultsNeedCause
<1>1. ManagerInv => FaultsNeedCause
  BY DEF ManagerInv, TypedInv, OwnerPlace, Healthy, Sound, EmptySlots, FaultsNeedCause
<1> QED
  BY <1>1, ManagerInvariant, PTL

(* Whatever the dispatcher took from the task pool has been run when the   *)
(* destructor of the manager returns, if nothing of that kind happened.    *)
THEOREM TakenTasksAreRun == Spec => []TakenTasksRun
<1>1. ManagerInv => TakenTasksRun
  <2> SUFFICES ASSUME TypedInv, EmptySlots, Numbered, opc = "destroyed", NEW k \in 1 .. accepted
               PROVE  Run(k) \/ \E n \in TaskObjects : Queued(n) /\ content[n] = k
    BY DEF ManagerInv, Healthy, TakenTasksRun
  <2>1. dnode = NULL /\ \A s \in Submitters : snode[s] = NULL
    BY DEF TypedInv, OwnerPlace, TaskInv, TaskPlaces, Holding
  <2>2. \A t \in Threads : ~Assigned(t)
    BY DEF TypedInv, OwnerPlace, EmptySlots, Alive, Assigned
  <2>3. \A n \in Unhanded : Queued(n)
    BY <2>1 DEF Unhanded, Filling, Queued, Range
  <2>4. k \in Range(done) \/ \E n \in Unhanded : content[n] = k
    BY <2>2 DEF Numbered
  <2> QED
    BY <2>3, <2>4, PlacesOfTask DEF Unhanded
<1> QED
  BY <1>1, ManagerInvariant, PTL

-----------------------------------------------------------------------------
(* Nobody waits for nobody.  A waiting thread is in the list or about to   *)
(* be woken; the dispatcher waits in GetThreadRun while the list is empty, *)
(* and then there is a pool thread.                                        *)
Waits ==
  /\ \A t \in Threads : tpc[t] = "waiting" => t \in Range(threads) \/ (dpc = "hand" /\ t = dthread)
  /\ dpc = "await" => threads = <<>>
  /\ dpc \in {"get", "await"} => \E t \in Threads : Alive(t)

(* The dispatcher is created when InitPool has returned.                   *)
Unborn == opc = "init" => dpc = "none"

LEMMA UnbornStep == Unborn /\ [Next]_vars => Unborn'
<1> SUFFICES ASSUME Unborn, [Next]_vars PROVE Unborn'
  OBVIOUS
<1> USE DEF Unborn
<1>1. CASE Owner
  BY <1>1 DEF Owner, InitPool, InitDone, StopDispatcher, StopTaskPool, StopThreadPool,
              TerminalCheck, SendSignal, Destroyed, dispVars
<1>2. CASE Dispatcher
  BY <1>2 DEF Dispatcher, LockTask, GetTask, CheckStop, TaskCondTimeout, TaskWaitOver, RunTask,
              GetThread, GetThreadAwake, HandTask, SaveIdleTask, ownerVars
<1>3. CASE Environment
  BY <1>3 DEF Environment, StopAll, SpuriousEmptyCond, UseAfterDelete, AddTask, IdleTimeout,
              SpuriousWake, ownerVars, dispVars
<1>4. ASSUME NEW s \in Submitters, Submitter(s) PROVE Unborn'
  BY <1>4 DEF Submitter, FillTask, PushTask, Kick, SignalTask, ownerVars, dispVars
<1>5. ASSUME NEW t \in Threads, PoolThread(t) PROVE Unborn'
  BY <1>5 DEF PoolThread, IncreaseTotalNum, RunSlot, CheckPoolStop, SaveIdleThread, ExitThread,
              ownerVars, dispVars
<1>6. CASE CheckIdleTask \/ UNCHANGED vars
  BY <1>6 DEF CheckIdleTask, vars, ownerVars, dispVars
<1> QED
  BY <1>1, <1>2, <1>3, <1>4, <1>5, <1>6 DEF Next

LEMMA WaitsStay ==
  ASSUME Waits, UNCHANGED <<threads, tpc, dthread>>,
         dpc' = dpc \/ (dpc' \notin {"get", "await", "hand"} /\ dpc # "hand")
  PROVE  Waits'
BY DEF Waits, Alive

(* Threads move outside the list, and nobody starts to wait or leaves.     *)
LEMMA WaitsApart ==
  ASSUME Waits, UNCHANGED <<threads, dthread, dpc>>,
         \A t \in Threads : tpc'[t] = tpc[t] \/ tpc'[t] \notin {"none", "waiting", "dead"}
  PROVE  Waits'
BY DEF Waits, Alive

LEMMA DispatcherKeepsWaits ==
  ASSUME TypedInv, IdleThreads, Waits, Dispatcher, fails = 0, fails' = 0
  PROVE  Waits'
<1> USE DEF TypedInv, ManagerTypes
<1>1. CASE LockTask \/ GetTask \/ CheckStop \/ TaskCondTimeout \/ SaveIdleTask
  <2>1. /\ UNCHANGED <<threads, tpc, dthread>>
        /\ dpc' \notin {"get", "await", "hand"} /\ dpc # "hand"
    BY <1>1 DEF LockTask, GetTask, CheckStop, TaskCondTimeout, TaskWaitOver, SaveIdleTask,
                poolVars, threadVars, dispVars
  <2> QED
    BY <2>1, WaitsStay
<1>2. CASE RunTask /\ NeedsThread
  <2>1. /\ UNCHANGED <<threads, dthread>> /\ dpc = "run" /\ dpc' = "get" /\ CreateThread
    BY <1>2 DEF RunTask, poolVars
  <2>2. PICK t \in Threads : tpc[t] = "none" /\ tpc' = [tpc EXCEPT ![t] = "start"]
    BY <2>1, CreatedAfresh
  <2>3. tpc'[t] = "start" /\ \A u \in Threads \ {t} : tpc'[u] = tpc[u]
    BY <2>2 DEF ThreadTypes
  <2>4. Alive(t)'
    BY <2>3 DEF Alive
  <2> QED
    BY <2>1, <2>3, <2>4 DEF Waits
<1>3. CASE RunTask /\ ~NeedsThread
  <2>1. UNCHANGED <<threads, dthread, tpc>> /\ dpc = "run" /\ dpc' = "get"
    BY <1>3 DEF RunTask, poolVars
  <2>2. \E t \in Threads : Alive(t)
    <3>1. CASE threads # <<>>
      <4>1. threads[1] \in Range(threads) /\ threads[1] \in Threads
        BY <3>1 DEF ThreadTypes, Range
      <4> QED
        BY <4>1 DEF IdleThreads, Alive
    <3>2. CASE threads = <<>>
      <4>1. totalNum = Cardinality(Counted) /\ ~(totalNum < PoolMax)
        BY <1>3, <3>2 DEF NeedsThread, ThreadTypes
      <4>2. Counted # {}
        <5>1. PoolMax \in Nat \ {0}
          BY ManagerAssumption DEF ManagerAssumption
        <5>2. CASE Counted = {}
          <6>1. Cardinality(Counted) = 0
            BY <5>2, FS_EmptySet
          <6> QED
            BY <4>1, <5>1, <6>1
        <5> QED
          BY <5>2
      <4> QED
        BY <4>2 DEF Counted, Alive
    <3> QED
      BY <3>1, <3>2
  <2> QED
    BY <2>1, <2>2 DEF Waits, Alive
<1>4. CASE GetThread \/ GetThreadAwake
  <2>1. CASE /\ threads # <<>> /\ dthread' = Head(threads) /\ threads' = Tail(threads)
             /\ dpc' = "hand" /\ UNCHANGED tpc /\ dpc # "hand"
    <3>1. Range(threads') = Range(threads) \ {dthread'}
      BY <2>1, TailOfDistinct DEF IdleThreads, ThreadTypes
    <3> QED
      BY <2>1, <3>1 DEF Waits
  <2>2. CASE UNCHANGED <<dthread, threads, tpc>> /\ dpc = "get" /\ dpc' = "await" /\ threads = <<>>
    BY <2>2 DEF Waits, Alive
  <2>3. CASE UNCHANGED <<dthread, threads, tpc, dpc>>
    BY <2>3, WaitsStay
  <2> QED
    BY <1>4, <2>1, <2>2, <2>3 DEF GetThread, GetThreadAwake, TakeFront, threadVars
<1>5. CASE HandTask
  <2>1. dpc = "hand" /\ dthread \in Threads /\ tpc[dthread] = "waiting"
    BY <1>5 DEF HandTask, IdleThreads, ThreadTypes
  <2>2. Wake(dthread) /\ dpc' = "save" /\ UNCHANGED threads
    BY <1>5, <2>1 DEF HandTask, poolVars
  <2>3. tpc'[dthread] = "top" /\ \A u \in Threads \ {dthread} : tpc'[u] = tpc[u]
    BY <2>1, <2>2, WokenIs
  <2> QED
    BY <2>1, <2>2, <2>3 DEF Waits
<1> QED
  BY <1>1, <1>2, <1>3, <1>4, <1>5 DEF Dispatcher

LEMMA ThreadKeepsWaits ==
  ASSUME TypedInv, IdleThreads, Waits, NEW t \in Threads, PoolThread(t)
  PROVE  Waits'
<1> USE DEF TypedInv, ManagerTypes
<1>1. CASE IncreaseTotalNum(t) \/ RunSlot(t) \/ CheckPoolStop(t)
  <2>1. /\ \E l \in {"top", "check", "saving", "exit"} : tpc' = [tpc EXCEPT ![t] = l]
        /\ UNCHANGED <<threads, dthread, dpc>>
    BY <1>1 DEF IncreaseTotalNum, RunSlot, CheckPoolStop, poolVars, dispVars
  <2>2. \A u \in Threads : tpc'[u] = tpc[u] \/ tpc'[u] \in {"top", "check", "saving", "exit"}
    BY <2>1 DEF ThreadTypes
  <2> QED
    BY <2>1, <2>2, WaitsApart
<1>2. CASE SaveIdleThread(t)
  <2>1. /\ tpc' = [tpc EXCEPT ![t] = "waiting"] /\ threads' = <<t>> \o threads
        /\ UNCHANGED dthread /\ threads \in Seq(Threads)
        /\ dpc' = IF threads = <<>> /\ dpc = "await" THEN "nonempty" ELSE dpc
    BY <1>2 DEF SaveIdleThread, ThreadTypes
  <2>2. t \notin Range(threads)
    BY <1>2 DEF SaveIdleThread, IdleThreads
  <2>3. Range(threads') = Range(threads) \cup {t}
    BY <2>1, <2>2, ConsToDistinct DEF IdleThreads
  <2>4. tpc'[t] = "waiting" /\ \A u \in Threads \ {t} : tpc'[u] = tpc[u]
    BY <2>1 DEF ThreadTypes
  <2>5. \A u \in Threads : tpc'[u] = "waiting" => u \in Range(threads') \/ (dpc' = "hand" /\ u = dthread)
    BY <2>1, <2>3, <2>4 DEF Waits
  <2>6. dpc' # "await" /\ (dpc' = "get" => \E u \in Threads : Alive(u)')
    BY <2>1, <2>4 DEF Waits, Alive
  <2> QED
    BY <2>1, <2>5, <2>6 DEF Waits
<1>3. CASE ExitThread(t)
  <2>1. /\ tpc[t] = "exit" /\ tpc' = [tpc EXCEPT ![t] = "dead"] /\ threads' = RemoveThread(t)
        /\ UNCHANGED <<dthread, dpc>>
    BY <1>3 DEF ExitThread, dispVars
  <2>2. dpc = "exited"
    BY <2>1 DEF IdleThreads, OwnerPlace
  <2>3. Range(threads') = Range(threads) \ {t}
    BY <2>1, RemovalOf DEF ThreadTypes
  <2>4. tpc'[t] = "dead" /\ \A u \in Threads \ {t} : tpc'[u] = tpc[u]
    BY <2>1 DEF ThreadTypes
  <2> QED
    BY <2>1, <2>2, <2>3, <2>4 DEF Waits
<1> QED
  BY <1>1, <1>2, <1>3 DEF PoolThread

LEMMA OwnerKeepsWaits ==
  ASSUME TypedInv, IdleThreads, Waits, Unborn, Owner, fails = 0, fails' = 0
  PROVE  Waits'
<1> USE DEF TypedInv, ManagerTypes
<1>1. CASE InitPool
  <2>1. CreateThread /\ UNCHANGED <<threads, dthread, dpc>>
    BY <1>1 DEF InitPool, poolVars, dispVars
  <2>2. PICK t \in Threads : tpc[t] = "none" /\ tpc' = [tpc EXCEPT ![t] = "start"]
    BY <2>1, CreatedAfresh
  <2>3. \A u \in Threads : tpc'[u] = tpc[u] \/ tpc'[u] = "start"
    BY <2>2 DEF ThreadTypes
  <2> QED
    BY <2>1, <2>3, WaitsApart
<1>2. CASE SendSignal
  <2>1. UNCHANGED <<threads, dthread, dpc>>
    BY <1>2 DEF SendSignal, poolVars, dispVars
  <2>2. CASE termNext <= Len(threads)
    <3>1. termNext \in 1 .. Len(threads)
      BY <2>2 DEF OwnerTypes, ThreadTypes
    <3>2. threads[termNext] \in Threads /\ Wake(threads[termNext])
      BY <1>2, <2>2, <3>1 DEF SendSignal, ThreadTypes
    <3>3. \A u \in Threads : tpc'[u] = tpc[u] \/ tpc'[u] = "top"
      BY <3>2, WokenIs
    <3> QED
      BY <2>1, <3>3, WaitsApart
  <2>3. CASE UNCHANGED tpc
    BY <2>1, <2>3, WaitsStay
  <2> QED
    BY <1>2, <2>2, <2>3 DEF SendSignal
<1>3. CASE InitDone \/ StopDispatcher \/ StopTaskPool \/ StopThreadPool \/ TerminalCheck \/ Destroyed
  <2>1. /\ UNCHANGED <<threads, tpc, dthread>>
        /\ dpc' = dpc \/ (dpc' = "lock" /\ dpc # "hand")
    BY <1>3 DEF InitDone, StopDispatcher, SignalTask, StopTaskPool, StopThreadPool, TerminalCheck,
                Destroyed, poolVars, threadVars, dispVars, Unborn
  <2> QED
    BY <2>1, WaitsStay
<1> QED
  BY <1>1, <1>2, <1>3 DEF Owner

LEMMA WaitsStep ==
  ASSUME TypedInv, IdleThreads, Waits, Unborn, [Next]_vars, ~Disturbed'
  PROVE  Waits'
<1>1. CASE Dispatcher \/ Owner
  BY <1>1, NoFaultSoFar, DispatcherKeepsWaits, OwnerKeepsWaits
<1>2. ASSUME NEW t \in Threads, PoolThread(t)
      PROVE  Waits'
  BY <1>2, ThreadKeepsWaits
<1>3. ASSUME SpuriousEmptyCond \/ \E t \in Threads : IdleTimeout(t) \/ SpuriousWake(t)
      PROVE  FALSE
  BY <1>3, NoFaultSoFar DEF SpuriousEmptyCond, IdleTimeout, SpuriousWake
<1>4. CASE StopAll \/ UseAfterDelete \/ CheckIdleTask \/ UNCHANGED vars
  <2>1. UNCHANGED <<threads, tpc, dthread, dpc>>
    BY <1>4 DEF StopAll, UseAfterDelete, CheckIdleTask, vars, poolVars, threadVars, dispVars
  <2> QED
    BY <2>1, WaitsStay
<1>5. ASSUME NEW s \in Submitters, AddTask(s) \/ Submitter(s)
      PROVE  Waits'
  <2>1. UNCHANGED <<threads, tpc, dthread>> /\ (dpc' = dpc \/ (dpc' = "lock" /\ dpc = "wait"))
    BY <1>5 DEF AddTask, Submitter, FillTask, PushTask, Kick, SignalTask, poolVars, threadVars,
                dispVars
  <2> QED
    BY <2>1, WaitsStay
<1> QED
  BY <1>1, <1>2, <1>3, <1>4, <1>5 DEF Next, Environment

LEMMA WaitsStart == Init => Waits /\ Unborn
BY DEF Init, Waits, Unborn

(* The waits of the pool that another thread must end: GetThreadRun's for  *)
(* a thread, a pool thread's for its signal, and one for a mutex that is   *)
(* held while another mutex is taken.                                      *)
EveryWaitHasAWaker ==
  ~Disturbed =>
    /\ dpc = "await" =>
         \E t \in Threads : /\ tpc[t] \in {"start", "top", "check", "saving"}
                            /\ PoolMutexFree /\ opc # "destroyed"
    /\ \A t \in Threads :
         tpc[t] = "waiting" => t \in Range(threads) \/ (dpc = "hand" /\ t = dthread)
    /\ dpc = "hand" => ThreadMutexFree(dthread)
    /\ \A i \in DOMAIN threads : ThreadMutexFree(threads[i])

(* EveryWaitHasAWaker, the safety half of StopReturns: without a fault the *)
(* dispatcher waits in GetThreadRun only while a pool thread is on its way *)
(* to the list and can go on, no thread waits that is not in the list or   *)
(* about to be woken, and SendSignal and Run never meet a thread that      *)
(* holds its own mutex while it takes the pool's.                          *)
THEOREM UndisturbedPoolNeverSticks == Spec => []EveryWaitHasAWaker
<1>1. Init => Waits /\ Unborn
  BY WaitsStart
<1>2. ManagerInv /\ (~Disturbed => Waits) /\ Unborn /\ [Next]_vars => (~Disturbed => Waits)'
  <2> SUFFICES ASSUME ManagerInv, ~Disturbed => Waits, Unborn, [Next]_vars, ~Disturbed'
               PROVE  Waits'
    OBVIOUS
  <2>1. ~Disturbed /\ TypedInv
    BY NoFaultSoFar DEF ManagerInv
  <2> QED
    BY <2>1, WaitsStep DEF ManagerInv, Healthy
<1>3. ManagerInv /\ (~Disturbed => Waits) => EveryWaitHasAWaker
  <2> SUFFICES ASSUME TypedInv, IdleThreads, Waits
               PROVE  /\ dpc = "await" =>
                           \E t \in Threads : /\ tpc[t] \in {"start", "top", "check", "saving"}
                                              /\ PoolMutexFree /\ opc # "destroyed"
                      /\ dpc = "hand" => ThreadMutexFree(dthread)
                      /\ \A i \in DOMAIN threads : ThreadMutexFree(threads[i])
    BY DEF ManagerInv, Healthy, EveryWaitHasAWaker, Waits
  <2>1. ASSUME dpc = "await"
        PROVE  \E t \in Threads : /\ tpc[t] \in {"start", "top", "check", "saving"}
                                  /\ PoolMutexFree /\ opc # "destroyed"
    <3>1. ~poolStop /\ termPc = "none" /\ opc # "destroyed"
      BY <2>1 DEF TypedInv, OwnerPlace
    <3>2. PICK t \in Threads : Alive(t)
      BY <2>1 DEF Waits
    <3>3. tpc[t] # "waiting"
      <4>1. Range(threads) = {}
        BY <2>1 DEF Waits, Range
      <4> QED
        BY <2>1, <4>1 DEF Waits
    <3>4. tpc[t] \in {"none", "start", "top", "check", "saving", "waiting", "exit", "dead"}
          /\ tpc[t] # "exit"
      BY <3>1 DEF TypedInv, ManagerTypes, ThreadTypes, IdleThreads
    <3> QED
      BY <3>1, <3>2, <3>3, <3>4 DEF Alive, PoolMutexFree
  <2>2. dpc = "hand" => ThreadMutexFree(dthread)
    BY DEF IdleThreads, ThreadMutexFree
  <2>3. ASSUME NEW i \in DOMAIN threads PROVE ThreadMutexFree(threads[i])
    BY DEF IdleThreads, ThreadMutexFree, Range
  <2> QED
    BY <2>1, <2>2, <2>3
<1> QED
  BY <1>1, <1>2, <1>3, UnbornStep, ManagerInvariant, PTL DEF Spec

-----------------------------------------------------------------------------
(* TaskService: each step of the pool is one of its steps or a stutter.    *)

LEMMA TakenAre ==
  \A k : k \in Taken <=> \/ dnode # NULL /\ dpc # "save" /\ k = content[dnode]
                        \/ \E t \in Threads : Assigned(t) /\ k = slot[t]
BY DEF Taken

LEMMA QueueStays ==
  ASSUME taskList \in Seq(TaskObjects), UNCHANGED taskList,
         \A n \in Range(taskList) : content'[n] = content[n]
  PROVE  QueuedTasks' = QueuedTasks
<1>1. \A i \in DOMAIN taskList : content'[taskList[i]] = content[taskList[i]]
  BY DEF Range
<1> QED
  BY <1>1 DEF QueuedTasks

LEMMA TakenStay ==
  ASSUME HandedStay, UNCHANGED <<dnode, content>>, dnode = NULL \/ (dpc' = "save" <=> dpc = "save")
  PROVE  Taken' = Taken
<1>1. \A t \in Threads : (Assigned(t))' <=> Assigned(t)
  BY DEF HandedStay, Assigned
<1>2. \A t \in Threads : Assigned(t) => slot'[t] = slot[t]
  BY DEF HandedStay, Assigned
<1> QED
  BY <1>1, <1>2 DEF Taken

LEMMA AsideStutters ==
  ASSUME Aside, opc' = "destroyed" <=> opc = "destroyed"
  PROVE  UNCHANGED TS!vars
<1>1. Taken' = Taken
  BY TakenStay DEF Aside
<1>2. Entering' = Entering /\ QueuedTasks' = QueuedTasks
  BY DEF Aside, Entering, Filling, QueuedTasks
<1> QED
  BY <1>1, <1>2 DEF Aside, TS!vars

LEMMA FillAccepts ==
  ASSUME TypedInv, NEW s \in Submitters, FillTask(s)
  PROVE  TS!Accept
<1> USE DEF TypedInv, TaskInv, ManagerTypes
<1>1. /\ spc[s] = "alloc" /\ accepted' = accepted + 1
      /\ UNCHANGED <<taskList, dnode, dpc, tpc, slot, done, opc>>
  BY DEF FillTask, dispVars, threadVars, ownerVars
<1>2. PICK n \in TaskObjects :
        /\ n \notin Range(taskList) /\ n # dnode /\ n # NULL
        /\ \A r \in Submitters : snode[r] # n
        /\ snode' = [snode EXCEPT ![s] = n] /\ content' = [content EXCEPT ![n] = accepted + 1]
  BY FilledObject
<1>3. snode[s] = NULL /\ \A r \in Submitters : snode'[r] = IF r = s THEN n ELSE snode[r]
  BY <1>1, <1>2 DEF TaskTypes, TaskPlaces
<1>4. content'[n] = accepted + 1 /\ \A m \in TaskObjects \ {n} : content'[m] = content[m]
  BY <1>2 DEF CallTypes
<1>5. Filling' = Filling \cup {n} /\ Filling \subseteq TaskObjects /\ n \notin Filling
  BY <1>2, <1>3 DEF Filling, TaskTypes
<1>6. Entering' = Entering \cup {accepted'}
  BY <1>1, <1>4, <1>5 DEF Entering
<1>7. QueuedTasks' = QueuedTasks
  <2>1. Range(taskList) \subseteq TaskObjects
    BY DEF TaskTypes, Range
  <2> QED
    BY <1>1, <1>2, <1>4, <2>1, QueueStays DEF TaskTypes
<1>8. Taken' = Taken
  <2>1. dnode # NULL => content'[dnode] = content[dnode]
    BY <1>2, <1>4 DEF TaskTypes
  <2> QED
    BY <1>1, <2>1 DEF Taken, Assigned
<1>9. opc # "destroyed"
  BY <1>1 DEF OwnerPlace
<1> QED
  BY <1>1, <1>6, <1>7, <1>8, <1>9 DEF TS!Accept

LEMMA PushEnters ==
  ASSUME TypedInv, Numbered, NEW s \in Submitters, PushTask(s)
  PROVE  TS!Enter
<1> USE DEF TypedInv, TaskInv, ManagerTypes
<1>1. /\ spc[s] = "push" /\ taskList' = Append(taskList, snode[s])
      /\ snode' = [snode EXCEPT ![s] = NULL]
      /\ UNCHANGED <<dnode, dpc, content, accepted, tpc, slot, done, opc>>
  BY DEF PushTask, dispVars, threadVars, ownerVars
<1>2. snode[s] \in TaskObjects /\ snode[s] \in Filling
  BY <1>1 DEF TaskTypes, TaskPlaces, Filling
<1>3. \A r \in Submitters : snode'[r] = IF r = s THEN NULL ELSE snode[r]
  BY <1>1 DEF TaskTypes
<1>4. Filling' = Filling \ {snode[s]}
  BY <1>2, <1>3 DEF Filling, TaskPlaces
<1>5. \A n \in Filling : content[n] = content[snode[s]] => n = snode[s]
  <2>1. Filling \subseteq Unhanded
    BY DEF Filling, Unhanded, TaskTypes
  <2> QED
    BY <1>2, <2>1 DEF Numbered
<1>6. content[snode[s]] \in Entering /\ Entering' = Entering \ {content[snode[s]]}
  BY <1>1, <1>2, <1>4, <1>5 DEF Entering
<1>7. QueuedTasks' = Append(QueuedTasks, content[snode[s]])
  BY <1>1, <1>2, MappedAppend DEF QueuedTasks, TaskTypes, Mapped
<1>8. Taken' = Taken
  BY <1>1 DEF Taken, Assigned
<1>9. opc # "destroyed"
  BY <1>1 DEF OwnerPlace
<1> QED
  BY <1>1, <1>6, <1>7, <1>8, <1>9 DEF TS!Enter

LEMMA GetAssigns ==
  ASSUME TypedInv, GetTask, taskList # <<>>
  PROVE  TS!Assign
<1> USE DEF TypedInv, TaskInv, ManagerTypes
<1>1. /\ dpc = "drain" /\ dpc' = "run" /\ dnode' = Head(taskList) /\ taskList' = Tail(taskList)
      /\ UNCHANGED <<content, snode, accepted, tpc, slot, done, opc>>
  BY DEF GetTask, submitVars, threadVars, ownerVars
<1>2. dnode = NULL /\ Head(taskList) \in TaskObjects /\ Head(taskList) # NULL
  BY <1>1, TailOfDistinct DEF TaskTypes, TaskPlaces, Holding
<1>3. /\ QueuedTasks # <<>> /\ Head(QueuedTasks) = content[Head(taskList)]
      /\ QueuedTasks' = Tail(QueuedTasks)
  BY <1>1, MappedTail DEF QueuedTasks, TaskTypes, Mapped
<1>4. Taken' = Taken \cup {content[Head(taskList)]}
  BY <1>1, <1>2 DEF Taken, Assigned
<1>5. Entering' = Entering
  BY <1>1 DEF Entering, Filling
<1>6. opc # "destroyed"
  BY <1>1 DEF OwnerPlace
<1> QED
  BY <1>1, <1>3, <1>4, <1>5, <1>6 DEF TS!Assign

LEMMA HandStutters ==
  ASSUME TypedInv, IdleThreads, Numbered, HandTask
  PROVE  UNCHANGED TS!vars
<1> USE DEF TypedInv, TaskInv, ManagerTypes
<1>1. /\ dpc = "hand" /\ dthread \in Threads /\ tpc[dthread] = "waiting" /\ dnode \in TaskObjects
      /\ UNCHANGED <<taskList, snode, dnode, content, accepted, done, opc>>
  BY DEF HandTask, IdleThreads, ThreadTypes, TaskTypes, TaskPlaces, Holding, taskVars,
         submitVars, ownerVars
<1>2. Wake(dthread) /\ slot' = [slot EXCEPT ![dthread] = content[dnode]] /\ dpc' = "save"
  BY <1>1 DEF HandTask
<1>3. tpc'[dthread] = "top" /\ \A u \in Threads \ {dthread} : tpc'[u] = tpc[u]
  BY <1>1, <1>2, WokenIs
<1>4. slot'[dthread] = content[dnode] /\ \A u \in Threads \ {dthread} : slot'[u] = slot[u]
  BY <1>1, <1>2 DEF ThreadTypes
<1>5. content[dnode] # 0 /\ dnode # NULL
  BY <1>1 DEF Numbered, Unhanded
<1>6. \A t \in Threads : (Assigned(t))' <=> t = dthread \/ Assigned(t)
  BY <1>3, <1>4, <1>5 DEF Assigned
<1>7. ~Assigned(dthread)
  BY <1>1 DEF Assigned
<1>8. Taken' = Taken
  <2>1. \A k : k \in Taken <=> \/ k = content[dnode]
                              \/ \E t \in Threads : Assigned(t) /\ k = slot[t]
    BY <1>1, <1>5, TakenAre
  <2>2. \A k : k \in Taken' <=> \E t \in Threads : (Assigned(t))' /\ k = slot'[t]
    BY <1>1, <1>2 DEF Taken
  <2>3. \A k : (\E t \in Threads : (Assigned(t))' /\ k = slot'[t])
               <=> \/ k = content[dnode]
                   \/ \E t \in Threads : Assigned(t) /\ k = slot[t]
    BY <1>1, <1>4, <1>6, <1>7
  <2> QED
    BY <2>1, <2>2, <2>3
<1>9. Entering' = Entering /\ QueuedTasks' = QueuedTasks
  BY <1>1 DEF Entering, Filling, QueuedTasks
<1> QED
  BY <1>1, <1>8, <1>9 DEF TS!vars

LEMMA SaveStutters ==
  ASSUME TypedInv, SaveIdleTask
  PROVE  UNCHANGED TS!vars
<1> USE DEF TypedInv, TaskInv, ManagerTypes
<1>1. /\ dpc = "save" /\ dnode' = NULL /\ content' = [content EXCEPT ![dnode] = 0]
      /\ UNCHANGED <<taskList, snode, accepted, done, tpc, slot, opc>>
  BY DEF SaveIdleTask, submitVars, threadVars, ownerVars
<1>2. dnode \notin Range(taskList) /\ dnode \notin Filling
  BY DEF Filling, TaskPlaces
<1>3. \A n \in TaskObjects \ {dnode} : content'[n] = content[n]
  BY <1>1 DEF CallTypes
<1>4. Range(taskList) \subseteq TaskObjects /\ Filling \subseteq TaskObjects
  BY DEF TaskTypes, Range, Filling
<1>5. QueuedTasks' = QueuedTasks
  BY <1>1, <1>2, <1>3, <1>4, QueueStays DEF TaskTypes
<1>6. Entering' = Entering
  <2>1. Filling' = Filling
    BY <1>1 DEF Filling
  <2> QED
    BY <1>2, <1>3, <1>4, <2>1 DEF Entering
<1>7. Taken' = Taken
  BY <1>1 DEF Taken, Assigned
<1> QED
  BY <1>1, <1>5, <1>6, <1>7 DEF TS!vars

LEMMA SlotRuns ==
  ASSUME TypedInv, Numbered, NEW t \in Threads, RunSlot(t), slot[t] # 0, opc # "destroyed"
  PROVE  TS!Run
<1> USE DEF TypedInv, TaskInv, ManagerTypes
<1>1. /\ tpc[t] = "top" /\ tpc' = [tpc EXCEPT ![t] = "check"] /\ slot' = slot
      /\ done' = Append(done, slot[t])
      /\ UNCHANGED <<taskList, snode, dnode, dpc, content, accepted, opc>>
  BY DEF RunSlot, taskVars, submitVars, dispVars, ownerVars
<1>2. Assigned(t)
  BY <1>1 DEF Assigned
<1>3. \A u \in Threads : (Assigned(u))' <=> u # t /\ Assigned(u)
  BY <1>1 DEF ThreadTypes, Assigned
<1>4. \A u \in Threads : u # t /\ Assigned(u) => slot[u] # slot[t]
  BY <1>2 DEF Numbered
<1>5. dnode # NULL /\ dpc # "save" => content[dnode] # slot[t]
  BY <1>2 DEF Numbered, Unhanded, TaskTypes
<1>6. slot[t] \in Taken /\ Taken' = Taken \ {slot[t]}
  <2>1. slot[t] \in Taken
    BY <1>2, TakenAre
  <2>2. \A k : k \in Taken' <=> \/ dnode # NULL /\ dpc # "save" /\ k = content[dnode]
                               \/ \E u \in Threads : (Assigned(u))' /\ k = slot[u]
    BY <1>1 DEF Taken
  <2>3. \A k : k \in Taken' <=> k \in Taken /\ k # slot[t]
    BY <1>3, <1>4, <1>5, <2>2, TakenAre
  <2> QED
    BY <2>1, <2>3
<1>7. Entering' = Entering /\ QueuedTasks' = QueuedTasks
  BY <1>1 DEF Entering, Filling, QueuedTasks
<1> QED
  BY <1>1, <1>6, <1>7 DEF TS!Run

LEMMA DestroyedDestroys ==
  ASSUME TypedInv, EmptySlots, Destroyed
  PROVE  TS!Destroy
<1> USE DEF TypedInv, TaskInv
<1>1. /\ opc = "terminal" /\ opc' = "destroyed" /\ termPc = "done"
      /\ UNCHANGED <<taskList, snode, dnode, dpc, content, accepted, tpc, slot, done>>
  BY DEF Destroyed, taskVars, submitVars, dispVars, threadVars
<1>2. dnode = NULL /\ Filling = {}
  BY <1>1 DEF OwnerPlace, TaskPlaces, Holding, Filling
<1>3. \A t \in Threads : ~Assigned(t)
  BY <1>1 DEF EmptySlots, Alive, Assigned
<1>4. Taken = {} /\ Entering = {}
  BY <1>2, <1>3 DEF Taken, Entering
<1>5. Taken' = Taken /\ Entering' = Entering /\ QueuedTasks' = QueuedTasks
  BY <1>1 DEF Taken, Assigned, Entering, Filling, QueuedTasks
<1> QED
  BY <1>1, <1>4, <1>5 DEF TS!Destroy

LEMMA DestroyedOnlyOnce ==
  ASSUME [Next]_vars, ~Destroyed
  PROVE  opc' = "destroyed" <=> opc = "destroyed"
<1>1. CASE Dispatcher \/ CheckIdleTask
  BY <1>1 DEF Dispatcher, LockTask, GetTask, CheckStop, TaskCondTimeout, RunTask, GetThread,
              GetThreadAwake, HandTask, SaveIdleTask, CheckIdleTask, ownerVars
<1>2. CASE Owner
  BY <1>2 DEF Owner, InitPool, InitDone, StopDispatcher, StopTaskPool, StopThreadPool,
              TerminalCheck, SendSignal
<1>3. CASE StopAll \/ SpuriousEmptyCond \/ UseAfterDelete \/ UNCHANGED vars
  BY <1>3 DEF StopAll, SpuriousEmptyCond, UseAfterDelete, vars, ownerVars
<1>4. ASSUME NEW s \in Submitters, AddTask(s) \/ Submitter(s)
      PROVE  opc' = opc
  BY <1>4 DEF AddTask, Submitter, FillTask, PushTask, Kick, ownerVars
<1>5. ASSUME NEW t \in Threads, PoolThread(t) \/ IdleTimeout(t) \/ SpuriousWake(t)
      PROVE  opc' = opc
  BY <1>5 DEF PoolThread, IncreaseTotalNum, RunSlot, CheckPoolStop, SaveIdleThread, ExitThread,
              IdleTimeout, SpuriousWake, ownerVars
<1> QED
  BY <1>1, <1>2, <1>3, <1>4, <1>5 DEF Next, Environment

LEMMA StepServes ==
  ASSUME ManagerInv, ~Disturbed, ~Disturbed', [Next]_vars
  PROVE  [TS!Next]_(TS!vars)
<1>0. TypedInv /\ IdleThreads /\ EmptySlots /\ Numbered
  BY DEF ManagerInv, Healthy
<1> USE DEF TS!Next
<1>1. CASE Destroyed
  BY <1>0, <1>1, DestroyedDestroys
<1>2. CASE ~Destroyed /\ Owner
  BY <1>0, <1>2, NoFaultSoFar, OwnerAside, AsideStutters, DestroyedOnlyOnce
<1>3. CASE ~Destroyed /\ Dispatcher
  <2>1. CASE GetTask /\ taskList # <<>>
    BY <1>0, <2>1, GetAssigns
  <2>2. CASE HandTask \/ SaveIdleTask
    BY <1>0, <2>2, HandStutters, SaveStutters
  <2>3. CASE ~(GetTask /\ taskList # <<>>) /\ ~HandTask /\ ~SaveIdleTask
    BY <1>0, <1>3, <2>3, NoFaultSoFar, DispatcherAside, AsideStutters, DestroyedOnlyOnce
  <2> QED
    BY <2>1, <2>2, <2>3
<1>4. ASSUME ~Destroyed, NEW t \in Threads, PoolThread(t)
      PROVE  [TS!Next]_(TS!vars)
  <2>1. CASE RunSlot(t) /\ slot[t] # 0
    BY <1>0, <1>4, <2>1, SlotRuns DEF PoolThread
  <2>2. CASE ~(RunSlot(t) /\ slot[t] # 0)
    BY <1>0, <1>4, <2>2, ThreadAside, AsideStutters, DestroyedOnlyOnce
  <2> QED
    BY <2>1, <2>2
<1>5. ASSUME SpuriousEmptyCond \/ \E t \in Threads : IdleTimeout(t) \/ SpuriousWake(t)
      PROVE  FALSE
  BY <1>0, <1>5, NoFaultSoFar DEF SpuriousEmptyCond, IdleTimeout, SpuriousWake
<1>6. CASE ~Destroyed /\ Elsewhere
  BY <1>6, OthersAside, AsideStutters, DestroyedOnlyOnce
<1>7. ASSUME NEW s \in Submitters, FillTask(s) \/ PushTask(s)
      PROVE  [TS!Next]_(TS!vars)
  BY <1>0, <1>7, FillAccepts, PushEnters
<1> QED
  BY <1>1, <1>2, <1>3, <1>4, <1>5, <1>6, <1>7 DEF Next, Environment, Submitter, Elsewhere

LEMMA StartServes == Init => TS!Init
<1> SUFFICES ASSUME Init PROVE TS!Init
  OBVIOUS
<1>1. Filling = {} /\ \A t \in Threads : ~Assigned(t)
  BY DEF Init, Filling, Assigned
<1>2. Entering = {} /\ QueuedTasks = <<>> /\ Taken = {}
  BY <1>1 DEF Init, Entering, QueuedTasks, Taken
<1> QED
  BY <1>2 DEF Init, TS!Init

(* ImplementsTaskService: as long as no pool thread times out, wakes up    *)
(* for nothing or cannot be created, the manager with both of its pools    *)
(* dispatches tasks in the order of the list, has each one run once by one *)
(* thread, and its destructor waits for those the dispatcher took, for any *)
(* number of submitters, threads, Task objects and calls.                  *)
THEOREM UndisturbedPoolServes == Spec /\ []~Disturbed => ImplementsTaskService
BY ManagerInvariant, StartServes, StepServes, PTL DEF Spec, ImplementsTaskService, TS!Spec
=============================================================================
