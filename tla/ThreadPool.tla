----------------------------- MODULE ThreadPool -----------------------------
(***************************************************************************)
(* The worker pool of the epoll server (thread_pool.c): a doubly linked    *)
(* job list guarded by one global mutex, a counting semaphore that should  *)
(* count the listed jobs, worker threads, and the main thread, the only    *)
(* caller of thpool_add_work, delete_timeout_job and thpool_destroy.       *)
(*                                                                         *)
(* A critical section that touches only state the mutex guards is a single *)
(* step.  The mutex is a variable because two code paths keep it across    *)
(* steps: the loop of delete_timeout_job, and a worker whose removelast    *)
(* fails, which returns without unlocking.                                 *)
(*                                                                         *)
(* A freed node keeps its contents until malloc hands it out again, as     *)
(* glibc does with a chunk of this size.  Dereferencing NULL or freeing a  *)
(* node twice ends the process: `crashed`, after which nothing happens.    *)
(***************************************************************************)
EXTENDS Integers, Sequences, FiniteSets

CONSTANTS
  Workers,   (* thread indices 0 .. threadsN-1                             *)
  Main,      (* the main thread, as a holder of the mutex                  *)
  Jobs,      (* heap nodes malloc can return for a thpool_job_t            *)
  NULL,
  TimeOut,   (* the time_out argument of delete_timeout_job                *)
  MaxTime,   (* bound: the clock stops here                                *)
  MaxAdds    (* bound: calls of thpool_add_work                            *)

ASSUME PoolAssumption ==
  /\ IsFiniteSet(Workers)
  /\ NULL \notin Jobs
  /\ Main \notin Workers /\ NULL \notin Workers /\ Main # NULL
  /\ TimeOut \in Nat /\ MaxTime \in Nat /\ MaxAdds \in Nat

VARIABLES
  keepalive, mutex, sem,       (* globals of thread_pool.c, queueSem       *)
  head, tail, jobN,            (* thpool_jobqueue                          *)
  heap,                        (* nodes malloc'd and not freed             *)
  prev, next, arg, addTime,    (* fields of each node                      *)
  pc, job,                     (* per worker: where it is, its job_p       *)
  mpc, newjob, curjob, now,    (* main: where it is, its locals            *)
  clock, crashed,
  (* History, read by no action: what the list holds from the oldest job   *)
  (* to the newest, the arguments the job function was run with, in order, *)
  (* and how many jobs delete_timeout_job set out to free.                 *)
  order, started, evicted,
  added                        (* calls of thpool_add_work so far          *)

queueVars == <<head, tail, jobN, prev, next, order>>
nodeVars  == <<heap, arg, addTime>>
mainVars  == <<mpc, newjob, curjob, now, added, evicted>>
workVars  == <<pc, job, started>>
ctlVars   == <<keepalive, mutex, sem, clock, crashed>>
vars == <<queueVars, nodeVars, mainVars, workVars, ctlVars>>

MainAt(l)  == ~crashed /\ mpc = l
At(w, l)   == ~crashed /\ pc[w] = l
Go(w, l)   == pc' = [pc EXCEPT ![w] = l]

-----------------------------------------------------------------------------
(* thpool_init: an empty list, semaphore 0, every worker at its loop head. *)
Init ==
  /\ keepalive = TRUE /\ mutex = NULL /\ sem = 0
  /\ head = NULL /\ tail = NULL /\ jobN = 0
  /\ heap = {}
  /\ prev = [j \in Jobs |-> NULL] /\ next = [j \in Jobs |-> NULL]
  /\ arg = [j \in Jobs |-> 0] /\ addTime = [j \in Jobs |-> 0]
  /\ pc = [w \in Workers |-> "check"] /\ job = [w \in Workers |-> NULL]
  /\ mpc = "idle" /\ newjob = NULL /\ curjob = NULL /\ now = 0
  /\ clock = 0 /\ crashed = FALSE
  /\ order = <<>> /\ started = <<>> /\ evicted = 0 /\ added = 0

Tick ==
  /\ ~crashed /\ clock < MaxTime
  /\ clock' = clock + 1
  /\ UNCHANGED <<queueVars, nodeVars, mainVars, workVars,
                 keepalive, mutex, sem, crashed>>

Crash ==
  /\ crashed' = TRUE
  /\ UNCHANGED <<queueVars, nodeVars, workVars, keepalive, mutex, sem, clock,
                 mpc, newjob, curjob, now, added>>

-----------------------------------------------------------------------------
(* Main: thpool_add_work and thpool_jobqueue_add.                          *)

(* Reads the time, allocates and fills the node; no lock is held.          *)
AddWork ==
  /\ MainAt("idle") /\ added < MaxAdds
  /\ \E j \in Jobs \ heap :
       /\ heap' = heap \cup {j}
       /\ newjob' = j
       /\ arg' = [arg EXCEPT ![j] = added + 1]
       /\ addTime' = [addTime EXCEPT ![j] = clock]
  /\ added' = added + 1
  /\ mpc' = "add"
  /\ UNCHANGED <<queueVars, workVars, ctlVars, curjob, now, evicted>>

(* sem_post of thpool_jobqueue_add, inside the critical section.           *)
SemPostFirstOnly == IF jobN = 0 THEN sem + 1 ELSE sem
SemPost == sem + 1

(* thpool_jobqueue_add under the mutex: the new job becomes the head.      *)
JobQueueAdd ==
  /\ MainAt("add") /\ mutex = NULL
  /\ IF jobN = 0
     THEN /\ tail' = newjob
          /\ prev' = [prev EXCEPT ![newjob] = NULL]
          /\ next' = [next EXCEPT ![newjob] = NULL]
     ELSE /\ prev' = [prev EXCEPT ![newjob] = NULL, ![head] = newjob]
          /\ next' = [next EXCEPT ![newjob] = head]
          /\ UNCHANGED tail
  /\ head' = newjob
  /\ jobN' = jobN + 1
  /\ sem' = SemPost
  /\ order' = Append(order, newjob)
  /\ newjob' = NULL /\ mpc' = "idle"
  /\ UNCHANGED <<nodeVars, workVars, keepalive, mutex, clock, crashed,
                 curjob, now, added, evicted>>

-----------------------------------------------------------------------------
(* Main: delete_timeout_job.                                               *)

(* curjob is read, and the time taken, BEFORE the mutex is locked.         *)
DeleteRead ==
  /\ MainAt("idle")
  /\ curjob' = tail /\ now' = clock
  /\ mpc' = "del_lock"
  /\ UNCHANGED <<queueVars, nodeVars, workVars, ctlVars, newjob, added, evicted>>

DeleteLock ==
  /\ MainAt("del_lock") /\ mutex = NULL
  /\ mutex' = Main
  /\ mpc' = "del_loop"
  /\ UNCHANGED <<queueVars, nodeVars, workVars, keepalive, sem, clock, crashed,
                 newjob, curjob, now, added, evicted>>

CurjobTimedOut ==
  jobN # 0 /\ curjob # NULL /\ now - addTime[curjob] > TimeOut

(* Unlinks the tail by overwriting it with curjob->prev, and frees curjob. *)
UnlinkCurjob ==
  /\ curjob \in heap
  /\ tail' = prev[curjob] /\ curjob' = prev[curjob]
  /\ heap' = heap \ {curjob}
  /\ jobN' = jobN - 1
  /\ order' = Tail(order)
  /\ UNCHANGED <<head, prev, next, arg, addTime>>

(* One iteration that deletes.  The semaphore is not taken down with jobN. *)
DeleteOne ==
  /\ MainAt("del_loop") /\ CurjobTimedOut
  /\ evicted' = evicted + 1
  /\ \/ /\ UnlinkCurjob
        /\ UNCHANGED <<workVars, ctlVars, mpc, newjob, now, added>>
     \/ curjob \notin heap /\ Crash                        (* double free *)

DeleteDone ==
  /\ MainAt("del_loop") /\ ~CurjobTimedOut
  /\ mutex' = NULL
  /\ mpc' = "idle" /\ curjob' = NULL
  /\ UNCHANGED <<queueVars, nodeVars, workVars, keepalive, sem, clock, crashed,
                 newjob, now, added, evicted>>

-----------------------------------------------------------------------------
(* Main: thpool_destroy and thpool_jobqueue_empty.                         *)

DestroyStop ==
  /\ MainAt("idle")
  /\ keepalive' = FALSE
  /\ mpc' = "post"
  /\ UNCHANGED <<queueVars, nodeVars, workVars, mutex, sem, clock, crashed,
                 newjob, curjob, now, added, evicted>>

(* One token per thread and one more; sem_post never blocks and nothing    *)
(* else reads the count, so the posts are one step.                        *)
ShutdownTokensShort == Cardinality(Workers) - 1
ShutdownTokens == Cardinality(Workers) + 1

DestroyPost ==
  /\ MainAt("post")
  /\ sem' = sem + ShutdownTokens
  /\ mpc' = "join"
  /\ UNCHANGED <<queueVars, nodeVars, workVars, keepalive, mutex, clock, crashed,
                 newjob, curjob, now, added, evicted>>

DestroyJoin ==
  /\ MainAt("join")
  /\ \A w \in Workers : pc[w] = "exited"
  /\ curjob' = tail
  /\ mpc' = "empty"
  /\ UNCHANGED <<queueVars, nodeVars, workVars, ctlVars, newjob, now, added, evicted>>

(* One iteration of thpool_jobqueue_empty; curjob may be NULL or freed if  *)
(* jobN and the chain disagree.                                            *)
EmptyOne ==
  /\ MainAt("empty") /\ jobN # 0
  /\ \/ /\ UnlinkCurjob
        /\ UNCHANGED <<workVars, ctlVars, mpc, newjob, now, added, evicted>>
     \/ curjob \notin heap /\ Crash /\ UNCHANGED evicted

EmptyDone ==
  /\ MainAt("empty") /\ jobN = 0
  /\ head' = NULL /\ tail' = NULL
  /\ curjob' = NULL /\ mpc' = "done"
  /\ UNCHANGED <<jobN, prev, next, order, nodeVars, workVars, ctlVars,
                 newjob, now, added, evicted>>

-----------------------------------------------------------------------------
(* Workers: thpool_thread_do.                                              *)

(* while (thpool_keepalive == 1)                                           *)
Check(w) ==
  /\ At(w, "check")
  /\ Go(w, IF keepalive THEN "wait" ELSE "exited")
  /\ UNCHANGED <<queueVars, nodeVars, mainVars, ctlVars, job, started>>

(* An error of sem_wait would end the process; the handlers are installed  *)
(* with signal(), after which a wait that was interrupted is restarted.    *)
SemWait(w) ==
  /\ At(w, "wait") /\ sem > 0
  /\ sem' = sem - 1
  /\ Go(w, "awake")
  /\ UNCHANGED <<queueVars, nodeVars, mainVars, job, started,
                 keepalive, mutex, clock, crashed>>

(* if (thpool_keepalive), read again after the wait.                       *)
AwakeUnchecked(w) == Go(w, "take")
AwakeChecked(w) == Go(w, IF keepalive THEN "take" ELSE "exited")

Awake(w) ==
  /\ At(w, "awake")
  /\ AwakeChecked(w)
  /\ UNCHANGED <<queueVars, nodeVars, mainVars, ctlVars, job, started>>

(* The peeked job is the tail, the oldest.                                 *)
PeekHead == head
Peek == tail

(* thpool_jobqueue_removelast: the list loses its tail.                    *)
UnlinkLastKeepsNext ==
  /\ IF jobN = 1 THEN head' = NULL /\ tail' = NULL
                 ELSE tail' = prev[tail] /\ UNCHANGED head
  /\ UNCHANGED next
UnlinkLast ==
  IF jobN = 1
  THEN head' = NULL /\ tail' = NULL /\ UNCHANGED next
  ELSE /\ next' = [next EXCEPT ![prev[tail]] = NULL]
       /\ tail' = prev[tail]
       /\ UNCHANGED head

RemoveLastUncounted ==
  UnlinkLast /\ order' = Tail(order) /\ UNCHANGED <<prev, jobN>>
RemoveLast ==
  /\ UnlinkLast
  /\ jobN' = jobN - 1
  /\ order' = Tail(order)
  /\ UNCHANGED prev

Take(w) ==
  /\ At(w, "take") /\ mutex = NULL
  /\ tail # NULL /\ jobN # 0 /\ (jobN > 1 => prev[tail] # NULL)
  /\ job' = [job EXCEPT ![w] = Peek]
  /\ RemoveLast
  /\ Go(w, "run")
  /\ UNCHANGED <<nodeVars, mainVars, ctlVars, started>>

(* removelast finds jobN = 0: the thread returns and keeps the mutex.      *)
TakeFails(w) ==
  /\ At(w, "take") /\ mutex = NULL
  /\ tail # NULL /\ jobN = 0
  /\ mutex' = w
  /\ Go(w, "exited")
  /\ UNCHANGED <<queueVars, nodeVars, mainVars, job, started,
                 keepalive, sem, clock, crashed>>

(* job_p->function through a NULL tail, or prev->next through a NULL prev. *)
TakeCrashes(w) ==
  /\ At(w, "take") /\ mutex = NULL
  /\ tail = NULL \/ (jobN > 1 /\ prev[tail] = NULL)
  /\ Crash /\ UNCHANGED evicted

Run(w) ==
  /\ At(w, "run")
  /\ started' = Append(started, arg[job[w]])
  /\ Go(w, "free")
  /\ UNCHANGED <<queueVars, nodeVars, mainVars, ctlVars, job>>

Free(w) ==
  /\ At(w, "free")
  /\ \/ /\ job[w] \in heap
        /\ heap' = heap \ {job[w]}
        /\ job' = [job EXCEPT ![w] = NULL]
        /\ Go(w, "check")
        /\ UNCHANGED <<queueVars, arg, addTime, mainVars, ctlVars, started>>
     \/ job[w] \notin heap /\ Crash /\ UNCHANGED evicted   (* double free *)

-----------------------------------------------------------------------------
Worker(w) ==
  \/ Check(w) \/ SemWait(w) \/ Awake(w) \/ Take(w) \/ TakeFails(w)
  \/ TakeCrashes(w) \/ Run(w) \/ Free(w)

(* What main does once it has entered a call.                              *)
MainBusy ==
  \/ JobQueueAdd \/ DeleteLock \/ DeleteOne \/ DeleteDone
  \/ DestroyPost \/ DestroyJoin \/ EmptyOne \/ EmptyDone

MainIdle == AddWork \/ DeleteRead \/ DestroyStop

(* The pool is destroyed; main goes on to exit.                            *)
Terminated == MainAt("done") /\ UNCHANGED vars

Next == Tick \/ MainIdle \/ MainBusy \/ (\E w \in Workers : Worker(w)) \/ Terminated

Spec == Init /\ [][Next]_vars

(* A thread that can run does run.  A thread waiting for the mutex gets it *)
(* if it is free again and again: main takes it at most once a minute in   *)
(* delete_timeout_job and otherwise for a few instructions.                *)
Fairness ==
  /\ WF_vars(MainBusy)
  /\ \A w \in Workers : WF_vars(Worker(w)) /\ SF_vars(Take(w))

FairSpec == Spec /\ Fairness
-----------------------------------------------------------------------------
(* Jobs in the list, and jobs some worker is running or about to free.     *)
Listed == {order[i] : i \in DOMAIN order}
Holders == {w \in Workers : pc[w] \in {"run", "free"}}
Held == {job[w] : w \in Holders}

(* Workers that took a token and have not yet taken a job for it.          *)
Takers == {w \in Workers : pc[w] = "take"}
Claimers == {w \in Workers : pc[w] \in {"awake", "take"}}
Claiming == Cardinality(Claimers)
Taking == Cardinality(Takers)

(* Workers that returned from thpool_thread_do with the mutex locked.      *)
Wedged == IF mutex \in Workers THEN 1 ELSE 0

(* Every variable of thread_pool.c holds a value of its C type, and the    *)
(* history variable lists as many jobs as jobN counts.                     *)
QueueTypes ==
  /\ jobN \in Nat
  /\ head \in Jobs \cup {NULL} /\ tail \in Jobs \cup {NULL}
  /\ heap \subseteq Jobs
  /\ prev \in [Jobs -> Jobs \cup {NULL}] /\ next \in [Jobs -> Jobs \cup {NULL}]
  /\ arg \in [Jobs -> Nat] /\ addTime \in [Jobs -> Nat]

ThreadTypes ==
  /\ keepalive \in BOOLEAN /\ crashed \in BOOLEAN
  /\ mutex \in Workers \cup {Main, NULL} /\ sem \in Nat
  /\ pc \in [Workers -> {"check", "wait", "awake", "take", "run", "free", "exited"}]
  /\ job \in [Workers -> Jobs \cup {NULL}]
  /\ mpc \in {"idle", "add", "del_lock", "del_loop", "post", "join", "empty", "done"}
  /\ newjob \in Jobs \cup {NULL} /\ curjob \in Jobs \cup {NULL}
  /\ now \in Nat /\ clock \in Nat

HistoryTypes ==
  /\ order \in Seq(Jobs) /\ Len(order) = jobN
  /\ started \in Seq(Nat)
  /\ evicted \in Nat /\ added \in Nat

TypeOK == QueueTypes /\ ThreadTypes /\ HistoryTypes

(* While the pool runs, the tokens in the semaphore and those in the hands *)
(* of workers that have no job yet are the listed jobs plus the jobs       *)
(* delete_timeout_job removed: every deletion leaves one token too many.   *)
(* A worker that returned with the mutex locked used up one of them.       *)
SemaphoreLedger ==
  keepalive /\ ~crashed =>
    sem + Claiming + Wedged = jobN + evicted

(* The prev links lead from tail through the jobs of order, oldest first.  *)
LinkedForward ==
  /\ tail = IF order = <<>> THEN NULL ELSE order[1]
  /\ \A i \in DOMAIN order :
       prev[order[i]] = IF i = Len(order) THEN NULL ELSE order[i + 1]

(* head and the next links lead back through the same jobs.                *)
LinkedBack ==
  /\ head = IF order = <<>> THEN NULL ELSE order[Len(order)]
  /\ \A i \in DOMAIN order :
       next[order[i]] = IF i = 1 THEN NULL ELSE order[i - 1]

(* Until delete_timeout_job removes a job, the two chains hold exactly the *)
(* jobs that were added and not yet taken, in the order they were added;   *)
(* thpool_jobqueue_empty needs the chain from tail only, and leaves head   *)
(* and next behind.                                                        *)
QueueWellFormed ==
  evicted = 0 => LinkedForward /\ (mpc # "empty" => LinkedBack)

(* Jobs that main has filled in and not yet listed.                        *)
Submitting == IF mpc = "add" THEN {newjob} ELSE {}

OneOwnerEach ==
  /\ heap = Listed \cup Held \cup Submitting
  /\ Listed \cap Held = {} /\ Submitting \cap (Listed \cup Held) = {}
  /\ \A i, k \in DOMAIN order : order[i] = order[k] => i = k
  /\ \A v, w \in Holders : job[v] = job[w] => v = w

(* Until delete_timeout_job removes a job, every allocated job has exactly *)
(* one owner: the list (once), one worker, or main about to list it.  So   *)
(* no job runs after its memory was freed, none is run by two workers, and *)
(* none leaks.                                                             *)
JobOwnership == evicted = 0 => OneOwnerEach

(* The process can only end with a fault, and the pool can only be wedged  *)
(* by a worker that returned holding the mutex, after delete_timeout_job   *)
(* set out to remove a job.                                                *)
FaultsNeedEviction ==
  crashed \/ mutex \in Workers => evicted # 0

(* "used to serialize queue access" (thread_pool.c:20): inside the lock,   *)
(* delete_timeout_job works on the tail the list has now.                  *)
SerializedTail == mpc = "del_loop" => curjob = tail

(* A submitted job is run, unless the pool is being destroyed.             *)
EveryJobRuns ==
  \A t \in 1 .. MaxAdds :
    (added = t /\ mpc = "idle") ~> (~keepalive \/ \E i \in DOMAIN started : started[i] = t)

(* thpool_destroy returns: every worker leaves, whatever it was doing.     *)
DestroyReturns == (mpc = "post") ~> (mpc = "done")

-----------------------------------------------------------------------------
(* The pool implements WorkQueue: a job is submitted when it is listed and *)
(* finished when its memory is freed.                                      *)
Submitted == IF mpc = "add" THEN added - 1 ELSE added
Waiting   == [i \in DOMAIN order |-> arg[order[i]]]
Active    == {arg[j] : j \in Held}

WQ == INSTANCE WorkQueue WITH
        submitted <- Submitted, waiting <- Waiting, active <- Active,
        open <- keepalive

(* Without deletions every behaviour of the pool is one of WorkQueue.      *)
ImplementsWorkQueue == WQ!Spec
=============================================================================
