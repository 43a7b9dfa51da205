---------------------------- MODULE PoolManager ----------------------------
(***************************************************************************)
(* The C++ pool: ThreadPoolManager with its TaskPool and its ThreadPool.   *)
(* Submitters queue tasks; the dispatcher (TaskThread) hands each one to a *)
(* pool thread (WapperFun); an idle thread (CheckIdleTask) deletes spare   *)
(* Task objects; the owner constructs and destroys the manager, and while  *)
(* it is destroyed a TerminalCheck thread wakes the pool threads.          *)
(*                                                                         *)
(* A critical section on one mutex is one step.  Two mutexes are held over *)
(* several steps and appear in guards: m_mutex_task by the dispatcher, and *)
(* a thread's own mutex by that thread while it waits for the pool's mutex *)
(* in SaveIdleThread, or the pool's by SendSignal while it waits for a     *)
(* thread's.  m_runMutex is left out: the dispatcher is its only user.     *)
(*                                                                         *)
(* `undefined` is set where the C++ code has undefined behaviour: it locks *)
(* a deleted thread's mutex, takes the front of an empty list, or joins a  *)
(* dispatcher that was never created.  Nothing happens after that.         *)
(***************************************************************************)
EXTENDS Integers, Sequences, FiniteSets

CONSTANTS
  Submitters,     (* program threads that call ThreadPoolManager::Run      *)
  Threads,        (* Thread objects CreateThread can allocate              *)
  TaskObjects,    (* Task objects `new Task` can return                    *)
  NULL,
  PoolSize,       (* m_poolSize of the task pool                           *)
  PoolMax,        (* m_poolMax of the thread pool                          *)
  PoolPre,        (* threads InitPool creates                              *)
  MaxRuns,        (* bound: accepted calls of Run                          *)
  MaxFaults       (* bound: time-outs of idle pool threads, spurious       *)
                  (* wake-ups and failed calls of pthread_create           *)

ASSUME ManagerAssumption ==
  /\ IsFiniteSet(Submitters) /\ IsFiniteSet(Threads) /\ IsFiniteSet(TaskObjects)
  /\ NULL \notin Threads /\ NULL \notin TaskObjects
  /\ PoolSize \in Nat \ {0} /\ PoolMax \in Nat \ {0} /\ PoolPre \in 0 .. PoolMax
  /\ MaxRuns \in Nat /\ MaxFaults \in Nat

VARIABLES
  taskList, idleList, taskHeap,   (* TaskPool: queued, spare, allocated    *)
  content,                        (* per Task object: its task, 0 if none  *)
  spc, snode,                     (* per submitter: where it is, its Task  *)
  idlePc, taskStop,               (* CheckIdleTask, TaskPool::m_bStop      *)
  dpc, dnode, dthread,            (* the dispatcher and its locals         *)
  threads, totalNum, poolStop,    (* ThreadPool: m_threads, m_totalNum     *)
  tpc, slot,                      (* per thread: where it is, task.data    *)
  termPc, termNext,               (* TerminalCheck and its iterator        *)
  opc, created, managerStop,      (* the owner; InitPool's loop; m_bStop   *)
  accepted, done,                 (* history: accepted calls, tasks run    *)
  timeouts, spurious, fails,      (* history: how often each one happened  *)
  undefined

taskVars   == <<taskList, idleList, taskHeap, content>>
submitVars == <<spc, snode, accepted>>
idleVars   == <<idlePc, taskStop>>
dispVars   == <<dpc, dnode, dthread>>
poolVars   == <<threads, totalNum>>
threadVars == <<tpc, slot, done>>
ownerVars  == <<termPc, termNext, opc, created, managerStop, poolStop>>
faultVars  == <<timeouts, spurious, fails, undefined>>
vars == <<taskVars, submitVars, idleVars, dispVars, poolVars, threadVars, ownerVars, faultVars>>

(* Who holds the mutexes that are kept across steps.                       *)
TaskMutexFree == dpc \in {"none", "lock", "wait", "exited"}
PoolMutexFree == termPc # "signal"
ThreadMutexFree(t) == tpc[t] # "saving"

Fresh == {t \in Threads : tpc[t] = "none"}
Faults == timeouts + spurious + fails

-----------------------------------------------------------------------------
(* ThreadPoolManager::Init has built both pools; InitPool's loop is next.  *)
Init ==
  /\ taskList = <<>> /\ idleList = <<>> /\ taskHeap = {}
  /\ content = [n \in TaskObjects |-> 0]
  /\ spc = [s \in Submitters |-> "idle"] /\ snode = [s \in Submitters |-> NULL]
  /\ idlePc = "wait" /\ taskStop = FALSE
  /\ dpc = "none" /\ dnode = NULL /\ dthread = NULL
  /\ threads = <<>> /\ totalNum = 0 /\ poolStop = FALSE
  /\ tpc = [t \in Threads |-> "none"] /\ slot = [t \in Threads |-> 0]
  /\ termPc = "none" /\ termNext = 1
  /\ opc = "init" /\ created = 0 /\ managerStop = FALSE
  /\ accepted = 0 /\ done = <<>>
  /\ timeouts = 0 /\ spurious = 0 /\ fails = 0 /\ undefined = FALSE

(* CreateThread: `new` may return any object, they are interchangeable; the *)
(* thread exists and has not started.  Or pthread_create fails.            *)
CreateThread ==
  \/ /\ Fresh # {}
     /\ tpc' = [tpc EXCEPT ![CHOOSE t \in Fresh : TRUE] = "start"]
     /\ UNCHANGED fails
  \/ /\ Faults < MaxFaults
     /\ fails' = fails + 1
     /\ UNCHANGED tpc

(* One iteration of InitPool's loop.                                       *)
InitPool ==
  /\ ~undefined /\ opc = "init" /\ created < PoolPre
  /\ CreateThread
  /\ created' = created + 1
  /\ UNCHANGED <<taskVars, submitVars, idleVars, dispVars, poolVars, slot, done, termPc,
                 termNext, opc, managerStop, poolStop, timeouts, spurious, undefined>>

(* The dispatcher is created; after a failed InitPool it is not, and main  *)
(* destroys the manager, which joins a thread id that was never set.       *)
InitDone ==
  /\ ~undefined /\ opc = "init" /\ created = PoolPre
  /\ IF fails = 0
     THEN opc' = "use" /\ dpc' = "lock" /\ UNCHANGED undefined
     ELSE undefined' = TRUE /\ UNCHANGED <<opc, dpc>>
  /\ UNCHANGED <<taskVars, submitVars, idleVars, dnode, dthread, poolVars, threadVars, termPc,
                 termNext, created, managerStop, poolStop, timeouts, spurious, fails>>

-----------------------------------------------------------------------------
(* ThreadPoolManager::Run and TaskPool::AddTask.                           *)

Adding == Cardinality({s \in Submitters : spc[s] = "alloc"})

(* The size is compared under the lock, which is given back before the     *)
(* task is added.  A full task pool or a stopped manager refuses the call  *)
(* and changes nothing.                                                    *)
AddUnbounded == TRUE
RoomInTaskPool == Len(taskList) < PoolSize

AddTask(s) ==
  /\ ~undefined /\ opc = "use" /\ ~managerStop
  /\ spc[s] = "idle" /\ accepted + Adding < MaxRuns
  /\ RoomInTaskPool
  /\ spc' = [spc EXCEPT ![s] = "alloc"]
  /\ UNCHANGED <<taskVars, snode, accepted, idleVars, dispVars, poolVars, threadVars,
                 ownerVars, faultVars>>

(* GetIdleTask, a spare object from the front, or a new one; then filled.  *)
SpareKept == idleList
SpareTaken == IF idleList = <<>> THEN idleList ELSE Tail(idleList)

FillTask(s) ==
  /\ ~undefined /\ spc[s] = "alloc"
  /\ idleList # <<>> \/ TaskObjects \ taskHeap # {}
  /\ LET n == IF idleList # <<>> THEN Head(idleList)
              ELSE CHOOSE m \in TaskObjects \ taskHeap : TRUE
     IN /\ snode' = [snode EXCEPT ![s] = n]
        /\ taskHeap' = taskHeap \cup {n}
        /\ content' = [content EXCEPT ![n] = accepted + 1]
  /\ idleList' = SpareTaken
  /\ accepted' = accepted + 1
  /\ spc' = [spc EXCEPT ![s] = "push"]
  /\ UNCHANGED <<taskList, idleVars, dispVars, poolVars, threadVars, ownerVars, faultVars>>

PushTask(s) ==
  /\ ~undefined /\ spc[s] = "push"
  /\ taskList' = Append(taskList, snode[s])
  /\ snode' = [snode EXCEPT ![s] = NULL]
  /\ spc' = [spc EXCEPT ![s] = "kick"]
  /\ UNCHANGED <<idleList, taskHeap, content, accepted, idleVars, dispVars, poolVars,
                 threadVars, ownerVars, faultVars>>

(* trylock, signal, unlock: nothing happens when the dispatcher is busy.   *)
SignalTask == dpc' = IF dpc = "wait" THEN "lock" ELSE dpc

Kick(s) ==
  /\ ~undefined /\ spc[s] = "kick"
  /\ SignalTask
  /\ spc' = [spc EXCEPT ![s] = "idle"]
  /\ UNCHANGED <<taskVars, snode, accepted, idleVars, dnode, dthread, poolVars, threadVars,
                 ownerVars, faultVars>>

-----------------------------------------------------------------------------
(* TaskPool::CheckIdleTask.                                                *)

(* One round of its loop, after CHECK_IDLE_TASK_INTERVAL or a signal.      *)
(* RemoveIdleTask deletes from the back the objects that have been spare   *)
(* long enough; the front is the youngest, so they are a suffix.           *)
CheckIdleTask ==
  /\ ~undefined /\ idlePc = "wait"
  /\ \E k \in 0 .. Len(idleList) :
       /\ idleList' = SubSeq(idleList, 1, k)
       /\ taskHeap' = taskHeap \ {idleList[i] : i \in k + 1 .. Len(idleList)}
  /\ idlePc' = IF taskStop THEN "exited" ELSE "wait"
  /\ UNCHANGED <<taskList, content, submitVars, taskStop, dispVars, poolVars, threadVars,
                 ownerVars, faultVars>>

-----------------------------------------------------------------------------
(* ThreadPoolManager::TaskThread, ThreadPool::Run and GetThreadRun.        *)

LockTask ==
  /\ ~undefined /\ dpc = "lock"
  /\ dpc' = "drain"
  /\ UNCHANGED <<taskVars, submitVars, idleVars, dnode, dthread, poolVars, threadVars,
                 ownerVars, faultVars>>

GetTask ==
  /\ ~undefined /\ dpc = "drain"
  /\ IF taskList = <<>>
     THEN dpc' = "drained" /\ UNCHANGED <<taskList, dnode>>
     ELSE /\ dpc' = "run"
          /\ dnode' = Head(taskList)
          /\ taskList' = Tail(taskList)
  /\ UNCHANGED <<idleList, taskHeap, content, submitVars, idleVars, dthread, poolVars,
                 threadVars, ownerVars, faultVars>>

(* The stop flag is read after GetTask found nothing.                      *)
CheckStop ==
  /\ ~undefined /\ dpc = "drained"
  /\ dpc' = IF managerStop THEN "exited" ELSE "wait"
  /\ UNCHANGED <<taskVars, submitVars, idleVars, dnode, dthread, poolVars, threadVars,
                 ownerVars, faultVars>>

(* TaskCondWait times out after 60 s.                                      *)
NoTimeout == FALSE
TaskWaitOver == dpc = "wait"

TaskCondTimeout ==
  /\ ~undefined /\ TaskWaitOver
  /\ dpc' = "lock"
  /\ UNCHANGED <<taskVars, submitVars, idleVars, dnode, dthread, poolVars, threadVars,
                 ownerVars, faultVars>>

(* Run reads m_totalNum and m_threads without m_mutex.  Its -1 is ignored  *)
(* by the dispatcher: the task is dropped.                                 *)
NeedsThread == totalNum < PoolMax /\ threads = <<>>

RunTask ==
  /\ ~undefined /\ dpc = "run"
  /\ IF NeedsThread
     THEN CreateThread /\ dpc' = IF fails' = fails THEN "get" ELSE "save"
     ELSE dpc' = "get" /\ UNCHANGED <<tpc, fails>>
  /\ UNCHANGED <<taskVars, submitVars, idleVars, dnode, dthread, poolVars, slot, done,
                 ownerVars, timeouts, spurious, undefined>>

TakeFront ==
  /\ dthread' = Head(threads)
  /\ threads' = Tail(threads)
  /\ dpc' = "hand"
  /\ UNCHANGED undefined

(* GetThreadRun under m_mutex: an `if`, so the wait is entered once.       *)
GetThread ==
  /\ ~undefined /\ dpc = "get" /\ PoolMutexFree
  /\ IF threads = <<>>
     THEN dpc' = "await" /\ UNCHANGED <<dthread, threads, undefined>>
     ELSE TakeFront
  /\ UNCHANGED <<taskVars, submitVars, idleVars, dnode, totalNum, threadVars, ownerVars,
                 timeouts, spurious, fails>>

SpuriousEmptyCond ==
  /\ ~undefined /\ dpc = "await" /\ Faults < MaxFaults
  /\ dpc' = "nonempty"
  /\ spurious' = spurious + 1
  /\ UNCHANGED <<taskVars, submitVars, idleVars, dnode, dthread, poolVars, threadVars,
                 ownerVars, timeouts, fails, undefined>>

(* After the wait the list is not looked at again before its front is.     *)
GetThreadAwake ==
  /\ ~undefined /\ dpc = "nonempty" /\ PoolMutexFree
  /\ IF threads # <<>>
     THEN TakeFront
     ELSE undefined' = TRUE /\ UNCHANGED <<dthread, threads, dpc>>
  /\ UNCHANGED <<taskVars, submitVars, idleVars, dnode, totalNum, threadVars, ownerVars,
                 timeouts, spurious, fails>>

(* Under the thread's own mutex; a thread that is not waiting misses the   *)
(* signal.                                                                 *)
WakeNobody(t) == tpc' = tpc
Wake(t) == tpc' = [tpc EXCEPT ![t] = IF @ = "waiting" THEN "top" ELSE @]

HandTask ==
  /\ ~undefined /\ dpc = "hand"
  /\ \/ /\ tpc[dthread] = "dead"
        /\ undefined' = TRUE
        /\ UNCHANGED <<tpc, slot, dpc, dthread>>
     \/ /\ tpc[dthread] # "dead" /\ ThreadMutexFree(dthread)
        /\ slot' = [slot EXCEPT ![dthread] = content[dnode]]
        /\ Wake(dthread)
        /\ dpc' = "save" /\ dthread' = NULL
        /\ UNCHANGED undefined
  /\ UNCHANGED <<taskVars, submitVars, idleVars, dnode, poolVars, done, ownerVars, timeouts,
                 spurious, fails>>

SaveIdleTask ==
  /\ ~undefined /\ dpc = "save"
  /\ idleList' = <<dnode>> \o idleList
  /\ content' = [content EXCEPT ![dnode] = 0]
  /\ dnode' = NULL /\ dpc' = "drain"
  /\ UNCHANGED <<taskList, taskHeap, submitVars, idleVars, dthread, poolVars, threadVars,
                 ownerVars, faultVars>>

-----------------------------------------------------------------------------
(* ThreadPool::WapperFun, one pool thread.                                 *)

IncreaseTotalNum(t) ==
  /\ ~undefined /\ tpc[t] = "start" /\ PoolMutexFree
  /\ totalNum' = totalNum + 1
  /\ tpc' = [tpc EXCEPT ![t] = "top"]
  /\ UNCHANGED <<taskVars, submitVars, idleVars, dispVars, threads, slot, done, ownerVars,
                 faultVars>>

(* thread->task.fun, if there is one.                                      *)
RunSlot(t) ==
  /\ ~undefined /\ tpc[t] = "top"
  /\ done' = IF slot[t] # 0 THEN Append(done, slot[t]) ELSE done
  /\ tpc' = [tpc EXCEPT ![t] = "check"]
  /\ UNCHANGED <<taskVars, submitVars, idleVars, dispVars, poolVars, slot, ownerVars, faultVars>>

(* GetStop; a thread that stays locks its own mutex and clears its task.   *)
KeepSlot(t) == slot
ClearSlot(t) == [slot EXCEPT ![t] = 0]

CheckPoolStop(t) ==
  /\ ~undefined /\ tpc[t] = "check"
  /\ IF poolStop
     THEN tpc' = [tpc EXCEPT ![t] = "exit"] /\ UNCHANGED slot
     ELSE tpc' = [tpc EXCEPT ![t] = "saving"] /\ slot' = ClearSlot(t)
  /\ UNCHANGED <<taskVars, submitVars, idleVars, dispVars, poolVars, done, ownerVars, faultVars>>

(* SaveIdleThread under m_mutex, then the timed wait, which gives the      *)
(* thread's own mutex back.                                                *)
SaveIdleThread(t) ==
  /\ ~undefined /\ tpc[t] = "saving" /\ PoolMutexFree
  /\ dpc' = IF threads = <<>> /\ dpc = "await" THEN "nonempty" ELSE dpc
  /\ threads' = <<t>> \o threads
  /\ tpc' = [tpc EXCEPT ![t] = "waiting"]
  /\ UNCHANGED <<taskVars, submitVars, idleVars, dnode, dthread, totalNum, slot, done,
                 ownerVars, faultVars>>

(* ETIMEDOUT: the thread leaves, and never looks at its task again.        *)
IdleTimeout(t) ==
  /\ ~undefined /\ tpc[t] = "waiting" /\ Faults < MaxFaults
  /\ tpc' = [tpc EXCEPT ![t] = "exit"]
  /\ timeouts' = timeouts + 1
  /\ UNCHANGED <<taskVars, submitVars, idleVars, dispVars, poolVars, slot, done, ownerVars,
                 spurious, fails, undefined>>

SpuriousWake(t) ==
  /\ ~undefined /\ tpc[t] = "waiting" /\ Faults < MaxFaults
  /\ tpc' = [tpc EXCEPT ![t] = "top"]
  /\ spurious' = spurious + 1
  /\ UNCHANGED <<taskVars, submitVars, idleVars, dispVars, poolVars, slot, done, ownerVars,
                 timeouts, fails, undefined>>

(* list::remove takes out every occurrence.                                *)
RemoveThread(t) ==
  LET kept[i \in 0 .. Len(threads)] ==
        IF i = 0 THEN <<>>
        ELSE IF threads[i] = t THEN kept[i - 1] ELSE Append(kept[i - 1], threads[i])
  IN  kept[Len(threads)]

(* DecreaseTotalNum, RemoveThread and delete, under m_mutex.               *)
ExitThread(t) ==
  /\ ~undefined /\ tpc[t] = "exit" /\ PoolMutexFree
  /\ totalNum' = totalNum - 1
  /\ threads' = RemoveThread(t)
  /\ tpc' = [tpc EXCEPT ![t] = "dead"]
  /\ UNCHANGED <<taskVars, submitVars, idleVars, dispVars, slot, done, ownerVars, faultVars>>

-----------------------------------------------------------------------------
(* ThreadPoolManager::StopAll and what it calls, in the owner's thread.    *)

(* A manager must not be destroyed while another thread is inside Run.     *)
StopAll ==
  /\ ~undefined /\ opc = "use" /\ \A s \in Submitters : spc[s] = "idle"
  /\ managerStop' = TRUE
  /\ opc' = "wake"
  /\ UNCHANGED <<taskVars, submitVars, idleVars, dispVars, poolVars, threadVars, termPc,
                 termNext, created, poolStop, faultVars>>

(* LockTask, signal, UnlockTask.                                           *)
StopDispatcher ==
  /\ ~undefined /\ opc = "wake" /\ TaskMutexFree
  /\ SignalTask
  /\ opc' = "join"
  /\ UNCHANGED <<taskVars, submitVars, idleVars, dnode, dthread, poolVars, threadVars, termPc,
                 termNext, created, managerStop, poolStop, faultVars>>

JoinSkipped == TRUE
DispatcherJoined == dpc = "exited"

(* The dispatcher is joined; TaskPool::StopPool sets its flag.  Its signal *)
(* only cuts the idle thread's timed wait short.                           *)
StopTaskPool ==
  /\ ~undefined /\ opc = "join" /\ DispatcherJoined
  /\ taskStop' = TRUE
  /\ opc' = "idle_join"
  /\ UNCHANGED <<taskVars, submitVars, idlePc, dispVars, poolVars, threadVars, termPc,
                 termNext, created, managerStop, poolStop, faultVars>>

(* The idle thread is joined; ThreadPool::StopPool creates TerminalCheck.  *)
StopThreadPool ==
  /\ ~undefined /\ opc = "idle_join" /\ idlePc = "exited"
  /\ poolStop' = TRUE
  /\ termPc' = "check"
  /\ opc' = "terminal"
  /\ UNCHANGED <<taskVars, submitVars, idleVars, dispVars, poolVars, threadVars, termNext,
                 created, managerStop, faultVars>>

AllExitedAtOnce == TRUE
AllExited == totalNum <= 0

TerminalCheck ==
  /\ ~undefined /\ termPc = "check"
  /\ IF AllExited THEN termPc' = "done" /\ UNCHANGED termNext
                  ELSE termPc' = "signal" /\ termNext' = 1
  /\ UNCHANGED <<taskVars, submitVars, idleVars, dispVars, poolVars, threadVars, opc, created,
                 managerStop, poolStop, faultVars>>

(* One iteration of SendSignal, which keeps m_mutex over its loop.         *)
SendSignal ==
  /\ ~undefined /\ termPc = "signal"
  /\ IF termNext <= Len(threads)
     THEN /\ ThreadMutexFree(threads[termNext])
          /\ Wake(threads[termNext])
          /\ termNext' = termNext + 1
          /\ UNCHANGED termPc
     ELSE termPc' = "check" /\ UNCHANGED <<tpc, termNext>>
  /\ UNCHANGED <<taskVars, submitVars, idleVars, dispVars, poolVars, slot, done, opc, created,
                 managerStop, poolStop, faultVars>>

(* TerminalCheck is joined and both pools are deleted.                     *)
Destroyed ==
  /\ ~undefined /\ opc = "terminal" /\ termPc = "done"
  /\ opc' = "destroyed"
  /\ UNCHANGED <<taskVars, submitVars, idleVars, dispVars, poolVars, threadVars, termPc,
                 termNext, created, managerStop, poolStop, faultVars>>

-----------------------------------------------------------------------------
Submitter(s) == FillTask(s) \/ PushTask(s) \/ Kick(s)

Dispatcher ==
  \/ LockTask \/ GetTask \/ CheckStop \/ TaskCondTimeout \/ RunTask
  \/ GetThread \/ GetThreadAwake \/ HandTask \/ SaveIdleTask

(* A thread that is still there when the pool has been deleted uses it.    *)
UseAfterDelete ==
  /\ ~undefined /\ opc = "destroyed"
  /\ \E t \in Threads : tpc[t] \notin {"none", "dead"}
  /\ undefined' = TRUE
  /\ UNCHANGED <<taskVars, submitVars, idleVars, dispVars, poolVars, threadVars, ownerVars,
                 timeouts, spurious, fails>>

PoolThread(t) ==
  /\ opc # "destroyed"
  /\ \/ IncreaseTotalNum(t) \/ RunSlot(t) \/ CheckPoolStop(t)
     \/ SaveIdleThread(t) \/ ExitThread(t)

Owner ==
  \/ InitPool \/ InitDone \/ StopDispatcher \/ StopTaskPool
  \/ StopThreadPool \/ TerminalCheck \/ SendSignal \/ Destroyed

Environment ==
  \/ StopAll \/ SpuriousEmptyCond \/ UseAfterDelete
  \/ \E s \in Submitters : AddTask(s)
  \/ \E t \in Threads : IdleTimeout(t) \/ SpuriousWake(t)

Next ==
  \/ Environment \/ Owner \/ Dispatcher \/ CheckIdleTask
  \/ \E s \in Submitters : Submitter(s)
  \/ \E t \in Threads : PoolThread(t)

Spec == Init /\ [][Next]_vars

(* Every thread that can run does; a timed wait ends.  The pool's mutex is *)
(* free again and again, so a thread that waits for it gets it.            *)
Fairness ==
  /\ WF_vars(Owner) /\ WF_vars(CheckIdleTask) /\ SF_vars(Dispatcher)
  /\ \A s \in Submitters : WF_vars(Submitter(s))
  /\ \A t \in Threads : SF_vars(PoolThread(t))

FairSpec == Spec /\ Fairness

-----------------------------------------------------------------------------
(* Nothing has happened that the pool threads do not expect.               *)
Disturbed == Faults # 0

Alive(t) == tpc[t] \notin {"none", "dead"}

Queued(n) == \E i \in DOMAIN taskList : taskList[i] = n
Spare(n)  == \E i \in DOMAIN idleList : idleList[i] = n
Filling   == {snode[s] : s \in Submitters} \ {NULL}

(* A thread holds a task from the hand-over until it has run it.           *)
Assigned(t) == tpc[t] = "top" /\ slot[t] # 0
Given(k) == \E t \in Threads : Assigned(t) /\ slot[t] = k
Run(k) == \E i \in DOMAIN done : done[i] = k
Unassigned(k) ==
  \E n \in TaskObjects :
    content[n] = k /\ (Queued(n) \/ n \in Filling \/ (n = dnode /\ dpc # "save"))

(* Every variable holds a value of its C++ type, and a thread or a Task    *)
(* object that a local names has been allocated.                           *)
TypeOK ==
  /\ taskList \in Seq(TaskObjects) /\ idleList \in Seq(TaskObjects)
  /\ taskHeap \subseteq TaskObjects
  /\ content \in [TaskObjects -> 0 .. MaxRuns]
  /\ spc \in [Submitters -> {"idle", "alloc", "push", "kick"}]
  /\ snode \in [Submitters -> taskHeap \cup {NULL}]
  /\ idlePc \in {"wait", "exited"} /\ taskStop \in BOOLEAN
  /\ dpc \in {"none", "lock", "drain", "drained", "wait", "run", "get", "await", "nonempty",
              "hand", "save", "exited"}
  /\ dnode \in taskHeap \cup {NULL} /\ dthread \in Threads \cup {NULL}
  /\ threads \in Seq(Threads) /\ totalNum \in 0 .. Cardinality(Threads)
  /\ tpc \in [Threads -> {"none", "start", "top", "check", "saving", "waiting", "exit", "dead"}]
  /\ slot \in [Threads -> 0 .. MaxRuns]
  /\ termPc \in {"none", "check", "signal", "done"} /\ termNext \in Nat
  /\ opc \in {"init", "use", "wake", "join", "idle_join", "terminal", "destroyed"}
  /\ created \in 0 .. PoolPre /\ managerStop \in BOOLEAN /\ poolStop \in BOOLEAN
  /\ accepted \in 0 .. MaxRuns /\ done \in Seq(1 .. MaxRuns)
  /\ timeouts \in Nat /\ spurious \in Nat /\ fails \in Nat /\ undefined \in BOOLEAN

(* Each Task object is in exactly one place: queued once, spare once, with *)
(* one submitter or with the dispatcher.  So CheckIdleTask never deletes   *)
(* an object that is in use, and none is lost (taskpool.cpp).              *)
TaskObjectOwned ==
  /\ \A n \in TaskObjects :
       /\ Cardinality({i \in DOMAIN taskList : taskList[i] = n})
          + Cardinality({i \in DOMAIN idleList : idleList[i] = n})
          + Cardinality({s \in Submitters : snode[s] = n})
          + (IF dnode = n THEN 1 ELSE 0)
          = (IF n \in taskHeap THEN 1 ELSE 0)

(* The size test of AddTask and the insertion are two critical sections:   *)
(* the task pool holds at most one task per other submitter too many.      *)
QueueOverrun == Len(taskList) <= PoolSize + Cardinality(Submitters) - 1

(* While no pool thread timed out, woke up for nothing or could not be     *)
(* created, every accepted task is in one place: with a submitter, queued, *)
(* with the dispatcher, handed to one thread, or run once.                 *)
TaskKept ==
  ~Disturbed =>
    /\ \A k \in 1 .. accepted :
         /\ Cardinality({i \in DOMAIN done : done[i] = k}) <= 1
         /\ Unassigned(k) \/ Given(k) \/ Run(k)
         /\ ~(Unassigned(k) /\ (Given(k) \/ Run(k))) /\ ~(Given(k) /\ Run(k))

(* Undefined behaviour needs such a disturbance, or a thread that had not  *)
(* counted itself in m_totalNum when TerminalCheck looked: no other thread *)
(* is alive when the pool is deleted, and that one has no task.            *)
FaultsNeedCause ==
  /\ undefined => Disturbed \/ opc = "destroyed"
  /\ opc = "destroyed" /\ ~Disturbed =>
       \A t \in Threads : Alive(t) => slot[t] = 0 /\ tpc[t] \in {"start", "top", "check", "exit"}

(* Whatever the dispatcher took from the task pool has been run when the   *)
(* manager is destroyed, unless it was dropped for one of those reasons.   *)
TakenTasksRun ==
  opc = "destroyed" /\ ~Disturbed =>
    \A k \in 1 .. accepted : Run(k) \/ \E n \in TaskObjects : Queued(n) /\ content[n] = k

(* "it exits only when all tasks in the task pool have been executed"      *)
(* (threadpoolmanager.h:9), even if every thread behaves.                  *)
AllTasksRun == opc = "destroyed" /\ ~Disturbed => \A k \in 1 .. accepted : Run(k)

(* Every accepted task is run in the end unless the manager is destroyed,  *)
(* although the dispatcher can miss its signal: its wait is a timed one.   *)
AcceptedRuns ==
  \A k \in 1 .. MaxRuns : (accepted = k) ~> (Disturbed \/ managerStop \/ Run(k))

(* Destroying the manager returns: no thread is left waiting for another.  *)
(* A fault can undo that: a thread that times out leaves the dispatcher    *)
(* waiting for a thread to come back, and one that woke up for nothing can *)
(* meet SendSignal in SaveIdleThread, each holding the mutex the other     *)
(* needs.                                                                  *)
StopReturns == (opc = "wake") ~> (opc = "destroyed" \/ Disturbed)
-----------------------------------------------------------------------------
(* The pool implements TaskService.  A task is in the queue when PushTask  *)
(* has listed its object, with the dispatcher until HandTask has given it  *)
(* to a thread, and with that thread until it has run it.                  *)
Entering    == {content[n] : n \in Filling}
QueuedTasks == [i \in DOMAIN taskList |-> content[taskList[i]]]
Taken ==
  (IF dnode # NULL /\ dpc # "save" THEN {content[dnode]} ELSE {})
  \cup {slot[t] : t \in {u \in Threads : Assigned(u)}}

TS == INSTANCE TaskService WITH
        entering <- Entering, queue <- QueuedTasks, assigned <- Taken, ran <- done,
        destroyed <- opc = "destroyed"

(* Without a disturbance every behaviour of the pool is one of TaskService:*)
(* tasks are dispatched in the order of taskpool.cpp's list, each is run   *)
(* once, and destroying the manager waits for those the dispatcher took.   *)
ImplementsTaskService == TS!Spec
=============================================================================
