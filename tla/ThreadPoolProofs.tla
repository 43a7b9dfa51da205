-------------------------- MODULE ThreadPoolProofs --------------------------
(***************************************************************************)
(* What holds of the worker pool for every number of workers, nodes,       *)
(* submissions, and every time-out: its variables keep their types, the    *)
(* semaphore's ledger is exact, nobody waits for a token that will not     *)
(* come, until the first eviction the pool is sound, and where no job can  *)
(* outlive the time-out it is a WorkQueue.                                 *)
(***************************************************************************)
EXTENDS ThreadPool, FiniteSetTheorems, SequenceTheorems, TLAPS

(* The values a thread's locals have where it uses them.                   *)
LocalsOK ==
  /\ mpc = "add" => newjob \in Jobs
  /\ \A w \in Workers : pc[w] \in {"run", "free"} => job[w] \in Jobs

TypeInv == TypeOK /\ LocalsOK

(* Main holds the mutex in the loop of delete_timeout_job, and is past the *)
(* first assignment of thpool_destroy when the pool is told to stop.       *)
MainPlace ==
  /\ mpc = "del_loop" => mutex = Main
  /\ mpc \in {"post", "join", "empty", "done"} => ~keepalive

LedgerInv == TypeInv /\ MainPlace /\ SemaphoreLedger

USE PoolAssumption DEF PoolAssumption
-----------------------------------------------------------------------------
LEMMA TailOfList ==
  ASSUME NEW s \in Seq(Jobs), Len(s) # 0
  PROVE  Tail(s) \in Seq(Jobs) /\ Len(Tail(s)) = Len(s) - 1 /\ Len(s) - 1 \in Nat
OBVIOUS

(* Writing a link of any node, or of none, leaves links in the list.       *)
LEMMA LinkWrite ==
  ASSUME NEW f \in [Jobs -> Jobs \cup {NULL}], NEW i, NEW v \in Jobs \cup {NULL}
  PROVE  [f EXCEPT ![i] = v] \in [Jobs -> Jobs \cup {NULL}]
OBVIOUS

LEMMA TypeInit == Init => TypeInv
<1> SUFFICES ASSUME Init PROVE TypeInv
  OBVIOUS
<1> USE DEF Init
<1>1. QueueTypes
  BY DEF QueueTypes
<1>2. ThreadTypes
  BY DEF ThreadTypes
<1>3. HistoryTypes
  BY DEF HistoryTypes
<1>4. LocalsOK
  BY DEF LocalsOK
<1> QED
  BY <1>1, <1>2, <1>3, <1>4 DEF TypeInv, TypeOK

(* What a step leaves alone keeps its type.                                *)
LEMMA QueueTypesKept ==
  ASSUME QueueTypes, UNCHANGED queueVars, UNCHANGED nodeVars
  PROVE  QueueTypes'
BY DEF QueueTypes, queueVars, nodeVars

LEMMA HistoryTypesKept ==
  ASSUME HistoryTypes, UNCHANGED <<order, jobN, started, evicted, added>>
  PROVE  HistoryTypes'
BY DEF HistoryTypes

LEMMA TypeStep == TypeInv /\ [Next]_vars => TypeInv'
<1> SUFFICES ASSUME QueueTypes, ThreadTypes, HistoryTypes, LocalsOK, [Next]_vars
             PROVE  QueueTypes' /\ ThreadTypes' /\ HistoryTypes' /\ LocalsOK'
  BY DEF TypeInv, TypeOK
<1> USE DEF LocalsOK, MainAt, At, Go, Crash
<1> USE DEF queueVars, nodeVars, mainVars, workVars, ctlVars
<1>1. CASE Tick
  <2>1. ThreadTypes' /\ LocalsOK'
    BY <1>1 DEF Tick, ThreadTypes
  <2> QED
    BY <1>1, <2>1, QueueTypesKept, HistoryTypesKept DEF Tick
<1>2. CASE AddWork
  <2>1. QueueTypes'
    BY <1>2 DEF AddWork, QueueTypes, ThreadTypes, HistoryTypes
  <2>2. ThreadTypes' /\ LocalsOK'
    BY <1>2 DEF AddWork, ThreadTypes
  <2>3. HistoryTypes'
    BY <1>2 DEF AddWork, HistoryTypes
  <2> QED
    BY <2>1, <2>2, <2>3
<1>3. CASE JobQueueAdd
  <2>1. newjob \in Jobs
    BY <1>3 DEF JobQueueAdd
  <2>2. HistoryTypes' /\ jobN' \in Nat
    BY <1>3, <2>1 DEF JobQueueAdd, HistoryTypes, QueueTypes
  <2>3. /\ prev' \in [Jobs -> Jobs \cup {NULL}]
        /\ next' \in [Jobs -> Jobs \cup {NULL}]
    <3>1. CASE jobN = 0
      BY <1>3, <2>1, <3>1, LinkWrite DEF JobQueueAdd, QueueTypes
    <3>2. CASE jobN # 0
      <4>1. prev' \in [Jobs -> Jobs \cup {NULL}]
        <5> DEFINE p == [prev EXCEPT ![newjob] = NULL]
        <5>1. p \in [Jobs -> Jobs \cup {NULL}]
          BY LinkWrite DEF QueueTypes
        <5>2. prev' = [p EXCEPT ![head] = newjob]
          BY <1>3, <3>2 DEF JobQueueAdd
        <5> HIDE DEF p
        <5> QED
          BY <2>1, <5>1, <5>2, LinkWrite
      <4>2. next' = [next EXCEPT ![newjob] = head]
        BY <1>3, <3>2 DEF JobQueueAdd
      <4>3. next' \in [Jobs -> Jobs \cup {NULL}]
        BY <4>2, LinkWrite DEF QueueTypes
      <4> QED
        BY <4>1, <4>3
    <3> QED
      BY <3>1, <3>2
  <2>4. QueueTypes'
    BY <1>3, <2>1, <2>2, <2>3 DEF JobQueueAdd, QueueTypes
  <2>5. ThreadTypes' /\ LocalsOK'
    BY <1>3 DEF JobQueueAdd, SemPost, ThreadTypes
  <2> QED
    BY <2>2, <2>4, <2>5
<1>4. CASE DeleteRead \/ DeleteLock \/ DeleteDone
  <2>1. ThreadTypes' /\ LocalsOK'
    BY <1>4 DEF DeleteRead, DeleteLock, DeleteDone, ThreadTypes, QueueTypes
  <2> QED
    BY <1>4, <2>1, QueueTypesKept, HistoryTypesKept DEF DeleteRead, DeleteLock, DeleteDone
<1>5. ASSUME UnlinkCurjob, jobN # 0, UNCHANGED <<started, added>>, evicted' \in Nat,
             UNCHANGED <<workVars, ctlVars, mpc, newjob, now>>
      PROVE  QueueTypes' /\ ThreadTypes' /\ HistoryTypes' /\ LocalsOK'
  <2>1. HistoryTypes' /\ jobN' \in Nat
    BY <1>5, TailOfList DEF UnlinkCurjob, HistoryTypes, QueueTypes
  <2>2. prev[curjob] \in Jobs \cup {NULL}
    BY <1>5 DEF UnlinkCurjob, QueueTypes
  <2>3. QueueTypes'
    BY <1>5, <2>1, <2>2 DEF UnlinkCurjob, QueueTypes
  <2>4. ThreadTypes' /\ LocalsOK'
    BY <1>5, <2>2 DEF UnlinkCurjob, ThreadTypes
  <2> QED
    BY <2>1, <2>3, <2>4
<1>6. CASE DeleteOne
  <2>1. evicted' \in Nat /\ jobN # 0
    BY <1>6 DEF DeleteOne, CurjobTimedOut, HistoryTypes
  <2>2. CASE Crash
    <3>1. HistoryTypes'
      BY <2>1, <2>2 DEF HistoryTypes
    <3>2. ThreadTypes' /\ LocalsOK'
      BY <2>2 DEF ThreadTypes
    <3> QED
      BY <2>2, <3>1, <3>2, QueueTypesKept
  <2> QED
    BY <1>5, <1>6, <2>1, <2>2 DEF DeleteOne
<1>7. CASE DestroyStop \/ DestroyJoin
  <2>1. ThreadTypes' /\ LocalsOK'
    BY <1>7 DEF DestroyStop, DestroyJoin, ThreadTypes, QueueTypes
  <2> QED
    BY <1>7, <2>1, QueueTypesKept, HistoryTypesKept DEF DestroyStop, DestroyJoin
<1>8. CASE DestroyPost
  <2>1. ShutdownTokens \in Nat
    BY FS_CardinalityType DEF ShutdownTokens
  <2>2. ThreadTypes' /\ LocalsOK'
    BY <1>8, <2>1 DEF DestroyPost, ThreadTypes
  <2> QED
    BY <1>8, <2>2, QueueTypesKept, HistoryTypesKept DEF DestroyPost
<1>9. ASSUME Crash, UNCHANGED evicted
      PROVE  QueueTypes' /\ ThreadTypes' /\ HistoryTypes' /\ LocalsOK'
  <2>1. ThreadTypes' /\ LocalsOK'
    BY <1>9 DEF ThreadTypes
  <2> QED
    BY <1>9, <2>1, QueueTypesKept, HistoryTypesKept
<1>10. CASE EmptyOne
  <2>1. evicted \in Nat /\ jobN # 0
    BY <1>10 DEF EmptyOne, HistoryTypes
  <2> QED
    BY <1>5, <1>9, <1>10, <2>1 DEF EmptyOne
<1>11. CASE EmptyDone
  <2>1. QueueTypes'
    BY <1>11 DEF EmptyDone, QueueTypes
  <2>2. ThreadTypes' /\ LocalsOK'
    BY <1>11 DEF EmptyDone, ThreadTypes
  <2> QED
    BY <1>11, <2>1, <2>2, HistoryTypesKept DEF EmptyDone
<1>12. ASSUME NEW w \in Workers, Worker(w)
       PROVE  QueueTypes' /\ ThreadTypes' /\ HistoryTypes' /\ LocalsOK'
  <2>1. CASE Check(w) \/ SemWait(w) \/ Awake(w)
    <3>1. ThreadTypes' /\ LocalsOK'
      BY <2>1 DEF Check, SemWait, Awake, AwakeChecked, ThreadTypes
    <3> QED
      BY <2>1, <3>1, QueueTypesKept, HistoryTypesKept DEF Check, SemWait, Awake
  <2>2. CASE Take(w)
    <3>1. HistoryTypes' /\ jobN' \in Nat
      BY <2>2, TailOfList DEF Take, RemoveLast, HistoryTypes, QueueTypes
    <3>2. tail \in Jobs
      BY <2>2 DEF Take, QueueTypes
    <3>3. /\ next' \in [Jobs -> Jobs \cup {NULL}]
          /\ head' \in Jobs \cup {NULL} /\ tail' \in Jobs \cup {NULL}
      <4>1. CASE jobN = 1
        BY <2>2, <4>1 DEF Take, RemoveLast, UnlinkLast, QueueTypes
      <4>2. CASE jobN # 1
        <5>1. next' = [next EXCEPT ![prev[tail]] = NULL] /\ tail' = prev[tail] /\ head' = head
          BY <2>2, <4>2 DEF Take, RemoveLast, UnlinkLast
        <5>2. next' \in [Jobs -> Jobs \cup {NULL}]
          BY <5>1, LinkWrite DEF QueueTypes
        <5> QED
          BY <3>2, <5>1, <5>2 DEF QueueTypes
      <4> QED
        BY <4>1, <4>2
    <3>4. QueueTypes'
      BY <2>2, <3>1, <3>3 DEF Take, RemoveLast, QueueTypes
    <3>5. ThreadTypes' /\ LocalsOK'
      BY <2>2, <3>2 DEF Take, Peek, ThreadTypes
    <3> QED
      BY <3>1, <3>4, <3>5
  <2>3. CASE TakeFails(w)
    <3>1. ThreadTypes' /\ LocalsOK'
      BY <2>3 DEF TakeFails, ThreadTypes
    <3> QED
      BY <2>3, <3>1, QueueTypesKept, HistoryTypesKept DEF TakeFails
  <2>4. CASE TakeCrashes(w)
    BY <1>9, <2>4 DEF TakeCrashes
  <2>5. CASE Run(w)
    <3>1. HistoryTypes'
      <4>1. arg[job[w]] \in Nat
        BY <2>5 DEF Run, QueueTypes
      <4> QED
        BY <2>5, <4>1 DEF Run, HistoryTypes
    <3>2. ThreadTypes' /\ LocalsOK'
      BY <2>5 DEF Run, ThreadTypes
    <3> QED
      BY <2>5, <3>1, <3>2, QueueTypesKept DEF Run
  <2>6. CASE Free(w)
    <3>1. CASE Crash /\ UNCHANGED evicted
      BY <1>9, <3>1
    <3>2. CASE ~Crash
      <4>1. QueueTypes'
        BY <2>6, <3>2 DEF Free, QueueTypes
      <4>2. ThreadTypes' /\ LocalsOK'
        BY <2>6, <3>2 DEF Free, ThreadTypes
      <4> QED
        BY <2>6, <3>2, <4>1, <4>2, HistoryTypesKept DEF Free
    <3> QED
      BY <2>6, <3>1, <3>2 DEF Free
  <2> QED
    BY <1>12, <2>1, <2>2, <2>3, <2>4, <2>5, <2>6 DEF Worker
<1>13. CASE UNCHANGED vars
  <2>1. ThreadTypes' /\ LocalsOK'
    BY <1>13 DEF vars, ThreadTypes
  <2> QED
    BY <1>13, <2>1, QueueTypesKept, HistoryTypesKept DEF vars
<1> QED
  BY <1>1, <1>2, <1>3, <1>4, <1>6, <1>7, <1>8, <1>10, <1>11, <1>12, <1>13
     DEF Next, MainIdle, MainBusy, Terminated

(* The C variables of thread_pool.c keep their types, and the list's ghost *)
(* has as many elements as jobN counts.                                    *)
THEOREM TypeCorrect == Spec => []TypeOK
<1>1. TypeInv => TypeOK
  BY DEF TypeInv
<1> QED
  BY <1>1, TypeInit, TypeStep, PTL DEF Spec

-----------------------------------------------------------------------------
LEMMA PlaceInit == Init => MainPlace
BY DEF Init, MainPlace

LEMMA PlaceStep == TypeInv /\ MainPlace /\ [Next]_vars => MainPlace'
<1> SUFFICES ASSUME TypeInv, MainPlace, [Next]_vars PROVE MainPlace'
  OBVIOUS
<1> USE DEF MainPlace, MainAt, At, Crash
<1> USE DEF queueVars, nodeVars, mainVars, workVars, ctlVars
<1>1. CASE Tick \/ MainIdle
  BY <1>1 DEF Tick, MainIdle, AddWork, DeleteRead, DestroyStop
<1>2. CASE MainBusy
  BY <1>2 DEF MainBusy, JobQueueAdd, DeleteLock, DeleteOne, DeleteDone,
              DestroyPost, DestroyJoin, EmptyOne, EmptyDone
<1>3. ASSUME NEW w \in Workers, Worker(w) PROVE MainPlace'
  BY <1>3 DEF Worker, Check, SemWait, Awake, Take, TakeFails, TakeCrashes, Run, Free
<1>4. CASE UNCHANGED vars
  BY <1>4 DEF vars
<1> QED
  BY <1>1, <1>2, <1>3, <1>4 DEF Next, Terminated

-----------------------------------------------------------------------------
LEMMA ClaimersFinite == IsFiniteSet(Claimers) /\ Claiming \in Nat
BY FS_Subset, FS_CardinalityType DEF Claimers, Claiming

(* A worker that moves on enters or leaves Claimers alone.                 *)
LEMMA ClaimersGrow ==
  ASSUME NEW w \in Workers, TypeInv, pc[w] \notin {"awake", "take"},
         Go(w, "awake")
  PROVE  Claiming' = Claiming + 1
<1>1. Claimers' = Claimers \cup {w} /\ w \notin Claimers
  BY DEF Claimers, Go, TypeInv, TypeOK, QueueTypes, ThreadTypes
<1> QED
  BY <1>1, ClaimersFinite, FS_AddElement DEF Claiming

LEMMA ClaimersShrink ==
  ASSUME NEW w \in Workers, NEW l, TypeInv, pc[w] = "take",
         Go(w, l), l \notin {"awake", "take"}
  PROVE  Claiming' = Claiming - 1
<1>1. Claimers' = Claimers \ {w} /\ w \in Claimers
  BY DEF Claimers, Go, TypeInv, TypeOK, QueueTypes, ThreadTypes
<1> QED
  BY <1>1, ClaimersFinite, FS_RemoveElement DEF Claiming

LEMMA ClaimersKept ==
  ASSUME NEW w \in Workers, NEW l, TypeInv,
         pc[w] \in {"awake", "take"} <=> l \in {"awake", "take"},
         Go(w, l)
  PROVE  Claiming' = Claiming
<1>1. Claimers' = Claimers
  BY DEF Claimers, Go, TypeInv, TypeOK, QueueTypes, ThreadTypes
<1> QED
  BY <1>1 DEF Claiming

LEMMA LedgerInit == Init => SemaphoreLedger
<1> SUFFICES ASSUME Init PROVE SemaphoreLedger
  OBVIOUS
<1>1. Claimers = {}
  BY DEF Init, Claimers
<1>2. Claiming = 0
  BY <1>1, FS_EmptySet DEF Claiming
<1> QED
  BY <1>2 DEF Init, SemaphoreLedger, Wedged

LEMMA LedgerStep ==
  TypeInv /\ MainPlace /\ SemaphoreLedger /\ [Next]_vars => SemaphoreLedger'
<1> SUFFICES ASSUME TypeInv, MainPlace, SemaphoreLedger, [Next]_vars,
                    keepalive', ~crashed'
             PROVE  SemaphoreLedger'
  BY DEF SemaphoreLedger
<1> USE DEF MainAt, At, Crash
<1> USE DEF queueVars, nodeVars, mainVars, workVars, ctlVars
<1>0. /\ sem \in Nat /\ jobN \in Nat /\ evicted \in Nat
      /\ Claiming \in Nat /\ Wedged \in Nat
  BY ClaimersFinite DEF Wedged, TypeInv, TypeOK, QueueTypes, ThreadTypes, HistoryTypes
<1>1. keepalive /\ ~crashed
  <2>1. CASE Tick \/ MainIdle
    BY <2>1 DEF Tick, MainIdle, AddWork, DeleteRead, DestroyStop
  <2>2. CASE MainBusy
    BY <2>2 DEF MainBusy, JobQueueAdd, DeleteLock, DeleteOne, DeleteDone,
                DestroyPost, DestroyJoin, EmptyOne, EmptyDone
  <2>3. ASSUME NEW w \in Workers, Worker(w) PROVE keepalive /\ ~crashed
    BY <2>3 DEF Worker, Check, SemWait, Awake, Take, TakeFails, TakeCrashes,
                Run, Free
  <2>4. CASE UNCHANGED vars
    BY <2>4 DEF vars
  <2> QED
    BY <2>1, <2>2, <2>3, <2>4 DEF Next, Terminated
<1>2. sem + Claiming + Wedged = jobN + evicted
  BY <1>1 DEF SemaphoreLedger
<1>3. SUFFICES sem' + Claiming' + Wedged' = jobN' + evicted'
  BY DEF SemaphoreLedger
<1>4. UNCHANGED pc => Claiming' = Claiming
  BY DEF Claimers, Claiming
<1>5. UNCHANGED mutex => UNCHANGED Wedged
  BY DEF Wedged
<1>6. CASE Tick \/ MainIdle
  BY <1>6, <1>2, <1>4, <1>5 DEF Tick, MainIdle, AddWork, DeleteRead, DestroyStop
<1>7. CASE JobQueueAdd
  <2>1. /\ sem' = sem + 1 /\ jobN' = jobN + 1 /\ evicted' = evicted
        /\ UNCHANGED <<pc, mutex>>
    BY <1>7 DEF JobQueueAdd, SemPost
  <2>2. Claiming' = Claiming /\ Wedged' = Wedged
    BY <2>1, <1>4, <1>5
  <2> QED
    BY <2>1, <2>2, <1>0, <1>2
<1>8. CASE DeleteLock
  BY <1>8, <1>2, <1>4 DEF DeleteLock, Wedged
<1>9. CASE DeleteOne
  <2>1. /\ evicted' = evicted + 1 /\ jobN' = jobN - 1
        /\ UNCHANGED <<sem, pc, mutex>>
    BY <1>9 DEF DeleteOne, UnlinkCurjob
  <2> QED
    BY <2>1, <1>0, <1>2, <1>4, <1>5
<1>10. CASE DeleteDone
  BY <1>10, <1>2, <1>4 DEF DeleteDone, Wedged, MainPlace
<1>11. CASE DestroyPost \/ DestroyJoin \/ EmptyOne \/ EmptyDone
  BY <1>11, <1>1 DEF DestroyPost, DestroyJoin, EmptyOne, EmptyDone, MainPlace
<1>12. ASSUME NEW w \in Workers, Worker(w)
       PROVE  sem' + Claiming' + Wedged' = jobN' + evicted'
  <2>1. CASE Check(w)
    BY <2>1, <1>1, <1>2, <1>5, ClaimersKept DEF Check
  <2>2. CASE SemWait(w)
    BY <2>2, <1>0, <1>2, <1>5, ClaimersGrow DEF SemWait
  <2>3. CASE Awake(w)
    BY <2>3, <1>1, <1>2, <1>5, ClaimersKept DEF Awake, AwakeChecked
  <2>4. CASE Take(w)
    BY <2>4, <1>0, <1>2, <1>5, ClaimersShrink DEF Take, RemoveLast
  <2>5. CASE TakeFails(w)
    BY <2>5, <1>0, <1>2, ClaimersShrink DEF TakeFails, Wedged
  <2>6. CASE TakeCrashes(w)
    BY <2>6 DEF TakeCrashes
  <2>7. CASE Run(w)
    BY <2>7, <1>2, <1>5, ClaimersKept DEF Run
  <2>8. CASE Free(w)
    BY <2>8, <1>2, <1>5, ClaimersKept DEF Free
  <2> QED
    BY <1>12, <2>1, <2>2, <2>3, <2>4, <2>5, <2>6, <2>7, <2>8 DEF Worker
<1>13. CASE UNCHANGED vars
  BY <1>13, <1>2, <1>4, <1>5 DEF vars
<1> QED
  BY <1>6, <1>7, <1>8, <1>9, <1>10, <1>11, <1>12, <1>13
     DEF Next, MainBusy, Terminated

(* However many workers, jobs and deletions there are, the semaphore stays *)
(* above the list by exactly the jobs delete_timeout_job removed.          *)
THEOREM LedgerExact == Spec => []SemaphoreLedger
<1>1. Init => LedgerInv
  BY TypeInit, PlaceInit, LedgerInit DEF LedgerInv
<1>2. LedgerInv /\ [Next]_vars => LedgerInv'
  BY TypeStep, PlaceStep, LedgerStep DEF LedgerInv
<1>3. LedgerInv => SemaphoreLedger
  BY DEF LedgerInv
<1> QED
  BY <1>1, <1>2, <1>3, PTL DEF Spec
-----------------------------------------------------------------------------
(* Until delete_timeout_job removes its first job the worker pool is       *)
(* sound: the list is well linked, every job has one owner, nothing        *)
(* crashes and no worker leaves with the mutex.  The invariant that        *)
(* carries the argument adds that there are never more workers on their    *)
(* way to a job than jobs: while the pool runs the semaphore's ledger says *)
(* so, and afterwards no worker sets out any more.                         *)

Faultless == ~crashed /\ mutex \notin Workers

(* thpool_jobqueue_empty starts at the tail, with every worker gone.       *)
LastCall ==
  /\ mpc = "empty" => curjob = tail
  /\ mpc \in {"empty", "done"} => \A w \in Workers : pc[w] = "exited"

Health ==
  evicted = 0 =>
    /\ Faultless /\ LastCall /\ Taking <= jobN
    /\ LinkedForward /\ (mpc # "empty" => LinkedBack)
    /\ OneOwnerEach

HealthInv == LedgerInv /\ Health

-----------------------------------------------------------------------------
(* Sequences, the way the list uses them.                                  *)
LEMMA TailElements ==
  ASSUME NEW s \in Seq(Jobs), Len(s) # 0
  PROVE  /\ DOMAIN s = 1 .. Len(s) /\ DOMAIN Tail(s) = 1 .. Len(s) - 1
         /\ Len(Tail(s)) = Len(s) - 1
         /\ \A i \in 1 .. Len(s) - 1 : Tail(s)[i] = s[i + 1]
OBVIOUS

LEMMA TailEmpty ==
  ASSUME NEW s \in Seq(Jobs), Len(s) # 0
  PROVE  Tail(s) = <<>> <=> Len(s) = 1
<1> DEFINE t == Tail(s)
<1>1. t \in Seq(Jobs) /\ Len(t) = Len(s) - 1 /\ Len(s) \in Nat
  BY TailOfList
<1> HIDE DEF t
<1>2. t = <<>> <=> Len(t) = 0
  BY <1>1, EmptySeq
<1>3. t = <<>> <=> Len(s) = 1
  BY <1>1, <1>2
<1> QED
  BY <1>3 DEF t

LEMMA AppendElements ==
  ASSUME NEW s \in Seq(Jobs), NEW j \in Jobs
  PROVE  /\ DOMAIN s = 1 .. Len(s) /\ DOMAIN Append(s, j) = 1 .. Len(s) + 1
         /\ Len(Append(s, j)) = Len(s) + 1
         /\ \A i \in 1 .. Len(s) : Append(s, j)[i] = s[i]
         /\ Append(s, j)[Len(s) + 1] = j
OBVIOUS

LEMMA ListEmpty ==
  ASSUME TypeInv
  PROVE  /\ DOMAIN order = 1 .. jobN /\ jobN \in Nat
         /\ order = <<>> <=> jobN = 0
<1>1. order \in Seq(Jobs) /\ Len(order) = jobN /\ jobN \in Nat
  BY DEF TypeInv, TypeOK, HistoryTypes, QueueTypes, ThreadTypes
<1>2. order = <<>> <=> Len(order) = 0
  BY <1>1, EmptySeq
<1> QED
  BY <1>1, <1>2

LEMMA ElementsAreJobs == ASSUME TypeInv PROVE \A i \in DOMAIN order : order[i] \in Jobs
BY DEF TypeInv, TypeOK, HistoryTypes

(* Nothing lowers the count of deletions.                                  *)
LEMMA EvictedGrows == TypeInv /\ [Next]_vars /\ evicted' = 0 => evicted = 0
<1> SUFFICES ASSUME TypeInv, [Next]_vars, evicted' = 0 PROVE evicted = 0
  OBVIOUS
<1> USE DEF Crash, queueVars, nodeVars, mainVars, workVars, ctlVars
<1>1. CASE Tick \/ MainIdle
  BY <1>1 DEF Tick, MainIdle, AddWork, DeleteRead, DestroyStop
<1>2. CASE DeleteOne
  BY <1>2 DEF DeleteOne, TypeInv, TypeOK, HistoryTypes
<1>3. CASE MainBusy /\ ~DeleteOne
  BY <1>3 DEF MainBusy, JobQueueAdd, DeleteLock, DeleteDone, DestroyPost,
              DestroyJoin, EmptyOne, EmptyDone
<1>4. ASSUME NEW w \in Workers, Worker(w) PROVE evicted = 0
  BY <1>4 DEF Worker, Check, SemWait, Awake, Take, TakeFails, TakeCrashes, Run, Free
<1>5. CASE UNCHANGED vars
  BY <1>5 DEF vars
<1> QED
  BY <1>1, <1>2, <1>3, <1>4, <1>5 DEF Next, Terminated

-----------------------------------------------------------------------------
(* The links.                                                              *)
LEMMA LinksAdd ==
  ASSUME TypeInv, LinkedForward, LinkedBack, OneOwnerEach, JobQueueAdd
  PROVE  LinkedForward' /\ LinkedBack'
<1> DEFINE n == jobN
<1>1. /\ order' = Append(order, newjob) /\ newjob \in Jobs /\ head' = newjob
      /\ order \in Seq(Jobs) /\ Len(order) = n /\ n \in Nat
      /\ prev \in [Jobs -> Jobs \cup {NULL}] /\ next \in [Jobs -> Jobs \cup {NULL}]
  BY DEF JobQueueAdd, MainAt, TypeInv, TypeOK, HistoryTypes, QueueTypes, ThreadTypes, LocalsOK
<1>2. /\ DOMAIN order = 1 .. n /\ DOMAIN order' = 1 .. n + 1 /\ Len(order') = n + 1
      /\ \A i \in 1 .. n : order'[i] = order[i]
      /\ order'[n + 1] = newjob
  BY <1>1, AppendElements
<1>3. \A i \in 1 .. n : order[i] \in Jobs /\ order[i] # newjob
  <2>1. newjob \notin Listed
    BY DEF OneOwnerEach, Submitting, JobQueueAdd, MainAt
  <2> QED
    BY <1>1, <1>2, <2>1 DEF Listed
<1>4. order' # <<>>
  BY <1>1, <1>2
<1>5. CASE jobN = 0
  <2>1. tail' = newjob /\ prev'[newjob] = NULL /\ next'[newjob] = NULL
    BY <1>1, <1>5 DEF JobQueueAdd
  <2> QED
    BY <1>2, <1>4, <1>5, <2>1, <1>1 DEF LinkedForward, LinkedBack
<1>6. CASE jobN # 0
  <2>1. order # <<>> /\ head = order[n] /\ tail = order[1]
    BY <1>1, <1>6 DEF LinkedBack, LinkedForward
  <2>2. /\ tail' = tail
        /\ \A j \in Jobs : prev'[j] = IF j = head THEN newjob
                                       ELSE IF j = newjob THEN NULL ELSE prev[j]
        /\ \A j \in Jobs : next'[j] = IF j = newjob THEN head ELSE next[j]
    BY <1>1, <1>6 DEF JobQueueAdd
  <2>3. \A i \in 1 .. n : order[i] = head => i = n
    BY <2>1, <1>1, <1>2, <1>6 DEF OneOwnerEach
  <2>4. tail' = order'[1] /\ head' = order'[n + 1]
    BY <2>1, <2>2, <1>1, <1>2, <1>6
  <2>5. \A i \in 1 .. n + 1 :
          prev'[order'[i]] = IF i = n + 1 THEN NULL ELSE order'[i + 1]
    <3> TAKE i \in 1 .. n + 1
    <3>1. CASE i = n + 1
      BY <3>1, <1>1, <1>2, <1>3, <1>6, <2>1, <2>2
    <3>2. CASE i = n
      BY <3>2, <1>1, <1>2, <1>3, <1>6, <2>1, <2>2
    <3>3. CASE i < n
      <4>1. prev[order[i]] = order[i + 1] /\ order'[i] = order[i] /\ order'[i + 1] = order[i + 1]
        BY <3>3, <1>1, <1>2 DEF LinkedForward
      <4> QED
        BY <4>1, <3>3, <1>1, <1>2, <1>3, <2>2, <2>3
    <3> QED
      BY <1>1, <3>1, <3>2, <3>3
  <2>6. \A i \in 1 .. n + 1 :
          next'[order'[i]] = IF i = 1 THEN NULL ELSE order'[i - 1]
    <3> TAKE i \in 1 .. n + 1
    <3>1. CASE i = n + 1
      BY <3>1, <1>1, <1>2, <1>6, <2>1, <2>2
    <3>2. CASE i < n + 1
      BY <3>2, <1>1, <1>2, <1>3, <2>2 DEF LinkedBack
    <3> QED
      BY <1>1, <3>1, <3>2
  <2> QED
    BY <1>2, <1>4, <2>4, <2>5, <2>6 DEF LinkedForward, LinkedBack
<1> QED
  BY <1>5, <1>6

(* Taking the tail: the second oldest job becomes the tail.                *)
LEMMA LinksTake ==
  ASSUME TypeInv, LinkedForward, LinkedBack, OneOwnerEach, NEW w \in Workers, Take(w)
  PROVE  LinkedForward' /\ LinkedBack'
<1> DEFINE n == jobN
<1>1. /\ order' = Tail(order) /\ order \in Seq(Jobs) /\ Len(order) = n /\ n \in Nat
      /\ n # 0 /\ prev' = prev /\ next \in [Jobs -> Jobs \cup {NULL}]
  BY DEF Take, RemoveLast, TypeInv, TypeOK, HistoryTypes, QueueTypes, ThreadTypes
<1>2. /\ DOMAIN order = 1 .. n /\ DOMAIN order' = 1 .. n - 1 /\ Len(order') = n - 1
      /\ \A i \in 1 .. n - 1 : order'[i] = order[i + 1]
  BY <1>1, TailElements
<1>3. order # <<>> /\ tail = order[1] /\ head = order[n]
  BY <1>1 DEF LinkedForward, LinkedBack
<1>4. \A i \in 1 .. n - 1 : prev'[order'[i]] = IF i = n - 1 THEN NULL ELSE order'[i + 1]
  BY <1>1, <1>2 DEF LinkedForward
<1>5. CASE n = 1
  <2>1. head' = NULL /\ tail' = NULL /\ order' = <<>>
    BY <1>1, <1>2, <1>5 DEF Take, RemoveLast, UnlinkLast
  <2> QED
    BY <2>1, <1>1, <1>2, <1>5 DEF LinkedForward, LinkedBack
<1>6. CASE n > 1
  <2>1. prev[tail] = order[2]
    BY <1>1, <1>2, <1>3, <1>6 DEF LinkedForward
  <2>2. next' = [next EXCEPT ![order[2]] = NULL] /\ tail' = order[2] /\ head' = head
    BY <1>6, <2>1 DEF Take, RemoveLast, UnlinkLast
  <2>3. order' # <<>> /\ tail' = order'[1] /\ head' = order'[n - 1]
    <3>1. order'[1] = order[2] /\ order'[n - 1] = order[n]
      BY <1>1, <1>2, <1>6
    <3>2. order' # <<>>
      BY <1>1, <1>6, TailEmpty
    <3> QED
      BY <3>1, <3>2, <1>3, <2>2
  <2>4. \A i \in 1 .. n : order[i] \in Jobs /\ (order[i] = order[2] => i = 2)
    BY <1>1, <1>2, <1>6 DEF OneOwnerEach
  <2>5. \A i \in 1 .. n - 1 : next'[order'[i]] = IF i = 1 THEN NULL ELSE order'[i - 1]
    <3> TAKE i \in 1 .. n - 1
    <3>1. CASE i = 1
      BY <3>1, <1>1, <1>2, <1>6, <2>2, <2>4
    <3>2. CASE i # 1
      <4>1. next[order[i + 1]] = order[i] /\ order'[i] = order[i + 1] /\ order'[i - 1] = order[i]
        BY <3>2, <1>1, <1>2 DEF LinkedBack
      <4> QED
        BY <4>1, <3>2, <1>1, <2>2, <2>4
    <3> QED
      BY <3>1, <3>2
  <2> QED
    BY <1>2, <1>4, <2>3, <2>5 DEF LinkedForward, LinkedBack
<1> QED
  BY <1>1, <1>5, <1>6

(* thpool_jobqueue_empty drops the tail and keeps the chain from it.       *)
LEMMA LinksEmpty ==
  ASSUME TypeInv, LinkedForward, jobN # 0, curjob = tail, UnlinkCurjob
  PROVE  LinkedForward'
<1> DEFINE n == jobN
<1>1. /\ order' = Tail(order) /\ order \in Seq(Jobs) /\ Len(order) = n /\ n \in Nat
      /\ n # 0 /\ prev' = prev /\ tail' = prev[tail]
  BY DEF UnlinkCurjob, TypeInv, TypeOK, HistoryTypes, QueueTypes, ThreadTypes
<1>2. /\ DOMAIN order = 1 .. n /\ DOMAIN order' = 1 .. n - 1 /\ Len(order') = n - 1
      /\ \A i \in 1 .. n - 1 : order'[i] = order[i + 1]
  BY <1>1, TailElements
<1>3. order # <<>> /\ tail = order[1]
  BY <1>1 DEF LinkedForward
<1>4. \A i \in 1 .. n - 1 : prev'[order'[i]] = IF i = n - 1 THEN NULL ELSE order'[i + 1]
  BY <1>1, <1>2 DEF LinkedForward
<1>5. tail' = IF n = 1 THEN NULL ELSE order'[1]
  BY <1>1, <1>2, <1>3 DEF LinkedForward
<1>6. order' = <<>> <=> n = 1
  BY <1>1, TailEmpty
<1> QED
  BY <1>2, <1>4, <1>5, <1>6 DEF LinkedForward

-----------------------------------------------------------------------------
(* The owners.                                                             *)
LEMMA ListGrows ==
  ASSUME TypeInv, OneOwnerEach, newjob \in Jobs \ Listed, order' = Append(order, newjob)
  PROVE  /\ Listed' = Listed \cup {newjob}
         /\ (\A i, k \in DOMAIN order : order[i] = order[k] => i = k)'
<1> DEFINE n == Len(order)
<1>1. /\ DOMAIN order = 1 .. n /\ DOMAIN order' = 1 .. n + 1 /\ n \in Nat
      /\ \A i \in 1 .. n : order'[i] = order[i]
      /\ order'[n + 1] = newjob
  BY AppendElements DEF TypeInv, TypeOK, HistoryTypes
<1>2. \A i \in 1 .. n : order[i] # newjob
  BY <1>1 DEF Listed
<1> HIDE DEF n
<1>3. Listed' = Listed \cup {newjob}
  BY <1>1 DEF Listed
<1>4. ASSUME NEW i \in 1 .. n + 1, NEW k \in 1 .. n + 1, order'[i] = order'[k]
      PROVE  i = k
  BY <1>1, <1>2, <1>4 DEF OneOwnerEach
<1> QED
  BY <1>1, <1>3, <1>4

LEMMA ListShrinks ==
  ASSUME TypeInv, OneOwnerEach, jobN # 0, order' = Tail(order)
  PROVE  /\ order[1] \in Listed /\ Listed' = Listed \ {order[1]}
         /\ (\A i, k \in DOMAIN order : order[i] = order[k] => i = k)'
<1> DEFINE n == jobN
<1>1. /\ DOMAIN order = 1 .. n /\ DOMAIN order' = 1 .. n - 1 /\ n \in Nat /\ n # 0
      /\ \A i \in 1 .. n - 1 : order'[i] = order[i + 1]
  BY TailElements DEF TypeInv, TypeOK, HistoryTypes, QueueTypes, ThreadTypes
<1>2. \A i \in 1 .. n, k \in 1 .. n : order[i] = order[k] => i = k
  BY <1>1 DEF OneOwnerEach
<1> HIDE DEF n
<1>3. order[1] \in Listed
  BY <1>1 DEF Listed
<1>4. ASSUME NEW x \in Listed' PROVE x \in Listed \ {order[1]}
  BY <1>1, <1>2 DEF Listed
<1>5. ASSUME NEW x \in Listed \ {order[1]} PROVE x \in Listed'
  <2>1. PICK i \in 1 .. n : x = order[i]
    BY <1>1 DEF Listed
  <2>2. i - 1 \in 1 .. n - 1 /\ order'[i - 1] = x
    BY <2>1, <1>1
  <2> QED
    BY <2>2, <1>1 DEF Listed
<1>6. ASSUME NEW i \in 1 .. n - 1, NEW k \in 1 .. n - 1, order'[i] = order'[k]
      PROVE  i = k
  <2>1. i + 1 \in 1 .. n /\ k + 1 \in 1 .. n /\ order[i + 1] = order[k + 1]
    BY <1>1, <1>6
  <2> QED
    BY <2>1, <1>2
<1> QED
  BY <1>1, <1>3, <1>4, <1>5, <1>6

(* A worker's move that leaves it as much the holder of a job as it was.   *)
LEMMA HoldersKept ==
  ASSUME NEW w \in Workers, NEW l, TypeInv, UNCHANGED job, Go(w, l),
         pc[w] \in {"run", "free"} <=> l \in {"run", "free"}
  PROVE  Holders' = Holders /\ Held' = Held
BY DEF Holders, Held, Go, TypeInv, TypeOK, QueueTypes, ThreadTypes

LEMMA OwnersKept ==
  ASSUME OneOwnerEach, UNCHANGED <<heap, order, job>>, Holders' = Holders,
         Submitting' = Submitting
  PROVE  OneOwnerEach'
<1>1. Listed' = Listed /\ Held' = Held
  BY DEF Listed, Held
<1> QED
  BY <1>1 DEF OneOwnerEach

LEMMA OwnersTake ==
  ASSUME TypeInv, OneOwnerEach, LinkedForward, NEW w \in Workers, Take(w)
  PROVE  OneOwnerEach'
<1>1. /\ UNCHANGED <<heap, mpc, newjob>> /\ order' = Tail(order) /\ jobN # 0
      /\ job' = [job EXCEPT ![w] = tail] /\ Go(w, "run") /\ pc[w] = "take"
  BY DEF Take, RemoveLast, Peek, At, nodeVars, mainVars
<1>2. /\ order[1] \in Listed /\ Listed' = Listed \ {order[1]}
      /\ (\A i, k \in DOMAIN order : order[i] = order[k] => i = k)'
  BY <1>1, ListShrinks
<1>3. tail = order[1]
  BY <1>1, ListEmpty DEF LinkedForward
<1>4. Holders' = Holders \cup {w} /\ w \notin Holders
  BY <1>1 DEF Holders, Go, TypeInv, TypeOK, QueueTypes, ThreadTypes
<1>5. /\ \A v \in Holders : job'[v] = job[v]
      /\ job'[w] = tail
  BY <1>1, <1>4 DEF TypeInv, TypeOK, QueueTypes, ThreadTypes, Holders
<1>6. Held' = Held \cup {tail}
  BY <1>4, <1>5 DEF Held
<1>7. \A v \in Holders : job[v] # tail
  BY <1>2, <1>3 DEF OneOwnerEach, Held
<1>8. Submitting' = Submitting
  BY <1>1 DEF Submitting
<1>9. (heap = Listed \cup Held \cup Submitting)'
  BY <1>1, <1>2, <1>3, <1>6, <1>8 DEF OneOwnerEach
<1>10. (Listed \cap Held = {} /\ Submitting \cap (Listed \cup Held) = {})'
  BY <1>2, <1>3, <1>6, <1>8 DEF OneOwnerEach
<1>11. (\A u, v \in Holders : job[u] = job[v] => u = v)'
  BY <1>4, <1>5, <1>7 DEF OneOwnerEach
<1> QED
  BY <1>2, <1>9, <1>10, <1>11 DEF OneOwnerEach

LEMMA OwnersFree ==
  ASSUME TypeInv, OneOwnerEach, NEW w \in Workers, Free(w)
  PROVE  job[w] \in heap /\ OneOwnerEach'
<1>1. w \in Holders
  BY DEF Free, At, Holders
<1>2. job[w] \in Held /\ job[w] \in heap
  BY <1>1 DEF Held, OneOwnerEach
<1>3. /\ UNCHANGED <<order, mpc, newjob>> /\ heap' = heap \ {job[w]}
      /\ job' = [job EXCEPT ![w] = NULL] /\ Go(w, "check")
  BY <1>2 DEF Free, queueVars, mainVars
<1>4. Holders' = Holders \ {w}
  BY <1>3 DEF Holders, Go, TypeInv, TypeOK, QueueTypes, ThreadTypes
<1>5. \A v \in Holders \ {w} : job'[v] = job[v] /\ job[v] # job[w]
  BY <1>1, <1>3 DEF TypeInv, TypeOK, QueueTypes, ThreadTypes, Holders, OneOwnerEach
<1>6. Held' = Held \ {job[w]}
  BY <1>4, <1>5 DEF Held
<1>7. Listed' = Listed /\ Submitting' = Submitting
  BY <1>3 DEF Listed, Submitting
<1>8. (heap = Listed \cup Held \cup Submitting)'
  BY <1>2, <1>3, <1>6, <1>7 DEF OneOwnerEach
<1>9. (Listed \cap Held = {} /\ Submitting \cap (Listed \cup Held) = {})'
  BY <1>6, <1>7 DEF OneOwnerEach
<1>10. (\A u, v \in Holders : job[u] = job[v] => u = v)'
  BY <1>4, <1>5 DEF OneOwnerEach
<1>11. (\A i, k \in DOMAIN order : order[i] = order[k] => i = k)'
  BY <1>3 DEF OneOwnerEach
<1> QED
  BY <1>2, <1>8, <1>9, <1>10, <1>11 DEF OneOwnerEach

LEMMA OwnersEmpty ==
  ASSUME TypeInv, OneOwnerEach, LinkedForward, curjob = tail, EmptyOne
  PROVE  UnlinkCurjob /\ OneOwnerEach'
<1>1. jobN # 0 /\ mpc = "empty" /\ UNCHANGED <<pc, job, mpc>>
  BY DEF EmptyOne, MainAt, UnlinkCurjob, Crash, workVars
<1>2. tail = order[1]
  BY <1>1, ListEmpty DEF LinkedForward
<1>3. tail \in Listed
  BY <1>1, <1>2, ListEmpty DEF Listed
<1>4. UnlinkCurjob
  BY <1>3 DEF EmptyOne, OneOwnerEach
<1>5. /\ Listed' = Listed \ {tail}
      /\ (\A i, k \in DOMAIN order : order[i] = order[k] => i = k)'
  BY <1>1, <1>2, <1>4, ListShrinks DEF UnlinkCurjob
<1>6. Held' = Held /\ Holders' = Holders /\ Submitting = {} /\ Submitting' = {}
  BY <1>1 DEF Held, Holders, Submitting
<1> QED
  BY <1>1, <1>3, <1>4, <1>5, <1>6 DEF OneOwnerEach, UnlinkCurjob

LEMMA OwnersAdd ==
  ASSUME TypeInv, OneOwnerEach, AddWork \/ JobQueueAdd
  PROVE  OneOwnerEach'
<1>1. Holders' = Holders /\ Held' = Held
  BY DEF AddWork, JobQueueAdd, Holders, Held, workVars
<1>2. CASE AddWork
  <2>1. PICK j \in Jobs \ heap : heap' = heap \cup {j} /\ newjob' = j
    BY <1>2 DEF AddWork
  <2>2. Submitting = {} /\ Submitting' = {j}
    BY <1>2, <2>1 DEF AddWork, MainAt, Submitting
  <2>3. UNCHANGED <<order, job>> /\ Listed' = Listed
    BY <1>2 DEF AddWork, queueVars, workVars, Listed
  <2> QED
    BY <1>1, <2>1, <2>2, <2>3 DEF OneOwnerEach
<1>3. CASE JobQueueAdd
  <2>1. Submitting = {newjob} /\ Submitting' = {} /\ newjob \in Jobs
    BY <1>3 DEF JobQueueAdd, MainAt, Submitting, TypeInv, LocalsOK
  <2>2. newjob \notin Listed /\ newjob \notin Held
    BY <2>1 DEF OneOwnerEach
  <2>3. /\ Listed' = Listed \cup {newjob} /\ UNCHANGED <<heap, job>>
        /\ (\A i, k \in DOMAIN order : order[i] = order[k] => i = k)'
    BY <1>3, <2>1, <2>2, ListGrows DEF JobQueueAdd, nodeVars, workVars
  <2> QED
    BY <1>1, <2>1, <2>2, <2>3 DEF OneOwnerEach
<1> QED
  BY <1>2, <1>3

-----------------------------------------------------------------------------
(* Workers on their way to a job.                                          *)
LEMMA TakersFinite ==
  /\ IsFiniteSet(Takers) /\ Taking \in Nat
  /\ Taking <= Claiming
  /\ Taking = 0 <=> Takers = {}
<1>1. Takers \subseteq Claimers
  BY DEF Takers, Claimers
<1> QED
  BY <1>1, ClaimersFinite, FS_Subset, FS_CardinalityType, FS_EmptySet
     DEF Taking, Claiming

LEMMA TakersLeave ==
  ASSUME NEW w \in Workers, NEW l, TypeInv, pc[w] = "take", Go(w, l), l # "take"
  PROVE  Taking' = Taking - 1
<1>1. Takers' = Takers \ {w} /\ w \in Takers
  BY DEF Takers, Go, TypeInv, TypeOK, QueueTypes, ThreadTypes
<1> QED
  BY <1>1, TakersFinite, FS_RemoveElement DEF Taking

LEMMA TakersKept ==
  ASSUME NEW w \in Workers, NEW l, TypeInv, pc[w] # "take", Go(w, l), l # "take"
  PROVE  Taking' = Taking
<1>1. Takers' = Takers
  BY DEF Takers, Go, TypeInv, TypeOK, QueueTypes, ThreadTypes
<1> QED
  BY <1>1 DEF Taking

(* The ledger: while the pool runs there is a job for every taker.         *)
LEMMA TakersHaveJobs == LedgerInv /\ evicted = 0 /\ Faultless /\ keepalive => Taking <= jobN
<1> SUFFICES ASSUME LedgerInv, evicted = 0, Faultless, keepalive PROVE Taking <= jobN
  OBVIOUS
<1>1. sem + Claiming + Wedged = jobN + evicted /\ Wedged = 0
  BY DEF LedgerInv, SemaphoreLedger, Faultless, Wedged
<1>2. /\ sem \in Nat /\ jobN \in Nat /\ Claiming \in Nat
      /\ Taking \in Nat /\ Taking <= Claiming
  BY ClaimersFinite, TakersFinite DEF LedgerInv, TypeInv, TypeOK, QueueTypes, ThreadTypes
<1> QED
  BY <1>1, <1>2

-----------------------------------------------------------------------------
(* The steps.                                                              *)
LEMMA FaultlessStep ==
  ASSUME HealthInv, evicted = 0, [Next]_vars, evicted' = 0
  PROVE  Faultless'
<1> USE DEF Faultless
<1>0. /\ TypeInv /\ Faultless /\ LastCall /\ Taking <= jobN /\ LinkedForward
      /\ OneOwnerEach
  BY DEF HealthInv, LedgerInv, Health
<1>1. tail = IF jobN = 0 THEN NULL ELSE order[1]
  BY <1>0, ListEmpty DEF LinkedForward
<1>2. jobN # 0 => order[1] \in Jobs /\ order[1] \in heap
  BY <1>0, ListEmpty, ElementsAreJobs DEF OneOwnerEach, Listed
<1>3. CASE Tick \/ MainIdle
  BY <1>0, <1>3 DEF Tick, MainIdle, AddWork, DeleteRead, DestroyStop, ctlVars
<1>4. CASE MainBusy
  <2>1. CASE DeleteOne
    BY <2>1 DEF DeleteOne
  <2>2. CASE EmptyOne
    BY <1>0, <1>1, <1>2, <2>2 DEF EmptyOne, MainAt, LastCall, ctlVars
  <2>3. CASE JobQueueAdd \/ DeleteLock \/ DeleteDone \/ DestroyPost
             \/ DestroyJoin \/ EmptyDone
    BY <1>0, <2>3 DEF JobQueueAdd, DeleteLock, DeleteDone, DestroyPost,
                      DestroyJoin, EmptyDone, ctlVars
  <2> QED
    BY <1>4, <2>1, <2>2, <2>3 DEF MainBusy
<1>5. ASSUME NEW w \in Workers, Worker(w) PROVE Faultless'
  <2>1. CASE Check(w) \/ SemWait(w) \/ Awake(w) \/ Take(w) \/ Run(w)
    BY <1>0, <2>1 DEF Check, SemWait, Awake, Take, Run, ctlVars
  <2>2. CASE TakeFails(w)
    BY <1>1, <2>2 DEF TakeFails
  <2>3. CASE TakeCrashes(w)
    <3>1. w \in Takers
      BY <2>3 DEF TakeCrashes, At, Takers
    <3>2. jobN # 0 /\ jobN \in Nat
      BY <1>0, <3>1, TakersFinite, ListEmpty
    <3>3. tail = order[1] /\ tail # NULL
      BY <1>1, <1>2, <3>2
    <3>4. ASSUME jobN > 1 PROVE prev[tail] # NULL
      <4>1. prev[order[1]] = order[2] /\ order[2] \in Jobs
        BY <1>0, <3>2, <3>4, ListEmpty, ElementsAreJobs
           DEF LinkedForward, TypeInv, TypeOK, HistoryTypes
      <4> QED
        BY <3>3, <4>1
    <3> QED
      BY <2>3, <3>3, <3>4 DEF TakeCrashes
  <2>4. CASE Free(w)
    BY <1>0, <2>4, OwnersFree DEF Free, ctlVars
  <2> QED
    BY <1>5, <2>1, <2>2, <2>3, <2>4 DEF Worker
<1>6. CASE UNCHANGED vars
  BY <1>0, <1>6 DEF vars, ctlVars
<1> QED
  BY <1>3, <1>4, <1>5, <1>6 DEF Next, Terminated

LEMMA LastCallStep ==
  ASSUME HealthInv, evicted = 0, [Next]_vars
  PROVE  LastCall'
<1>0. TypeInv /\ LastCall
  BY DEF HealthInv, LedgerInv, Health
<1> USE DEF LastCall, MainAt, queueVars, mainVars, workVars
<1>1. CASE Tick \/ MainIdle
  BY <1>0, <1>1 DEF Tick, MainIdle, AddWork, DeleteRead, DestroyStop
<1>2. CASE MainBusy
  BY <1>0, <1>2 DEF MainBusy, JobQueueAdd, DeleteLock, DeleteOne, DeleteDone,
     DestroyPost, DestroyJoin, EmptyOne, EmptyDone, UnlinkCurjob, Crash
<1>3. ASSUME NEW w \in Workers, Worker(w) PROVE LastCall'
  <2>1. pc[w] # "exited"
    BY <1>3 DEF Worker, Check, SemWait, Awake, Take, TakeFails, TakeCrashes,
                Run, Free, At
  <2>2. UNCHANGED mpc
    BY <1>3 DEF Worker, Check, SemWait, Awake, Take, TakeFails, TakeCrashes,
                Run, Free, Crash
  <2> QED
    BY <1>0, <2>1, <2>2
<1>4. CASE UNCHANGED vars
  BY <1>0, <1>4 DEF vars
<1> QED
  BY <1>1, <1>2, <1>3, <1>4 DEF Next, Terminated

LEMMA TakingStep ==
  ASSUME HealthInv, LedgerInv', evicted = 0, [Next]_vars, evicted' = 0
  PROVE  Taking' <= jobN'
<1>0. TypeInv /\ LastCall /\ Taking <= jobN /\ TypeInv'
  BY DEF HealthInv, LedgerInv, Health
<1>1. Taking \in Nat /\ jobN \in Nat /\ jobN' \in Nat
  BY <1>0, TakersFinite DEF TypeInv, TypeOK, QueueTypes, ThreadTypes
<1>2. CASE keepalive'
  <2>1. (LedgerInv /\ evicted = 0 /\ Faultless /\ keepalive => Taking <= jobN)'
    BY TakersHaveJobs, PTL
  <2> QED
    BY <1>2, <2>1, FaultlessStep
<1>3. UNCHANGED pc => Taking' = Taking
  BY DEF Taking, Takers
<1> USE DEF queueVars, mainVars, workVars, ctlVars
<1>4. CASE Tick \/ MainIdle
  BY <1>0, <1>3, <1>4 DEF Tick, MainIdle, AddWork, DeleteRead, DestroyStop
<1>5. CASE MainBusy
  <2>1. CASE EmptyOne
    <3>1. Takers = {} /\ UNCHANGED pc
      BY <1>0, <2>1 DEF EmptyOne, MainAt, LastCall, Takers, Crash
    <3> QED
      BY <1>1, <1>3, <3>1, TakersFinite
  <2>2. CASE JobQueueAdd
    BY <1>0, <1>1, <1>3, <2>2 DEF JobQueueAdd
  <2>3. CASE DeleteOne
    BY <2>3 DEF DeleteOne
  <2>4. CASE DeleteLock \/ DeleteDone \/ DestroyPost \/ DestroyJoin \/ EmptyDone
    BY <1>0, <1>3, <2>4 DEF DeleteLock, DeleteDone, DestroyPost, DestroyJoin, EmptyDone
  <2> QED
    BY <1>5, <2>1, <2>2, <2>3, <2>4 DEF MainBusy
<1>6. ASSUME ~keepalive', NEW w \in Workers, Worker(w) PROVE Taking' <= jobN'
  <2>1. CASE Check(w) \/ SemWait(w) \/ Awake(w) \/ Run(w)
    BY <1>0, <1>6, <2>1, TakersKept DEF Check, SemWait, Awake, AwakeChecked, Run, At
  <2>2. CASE Take(w)
    BY <1>0, <1>1, <2>2, TakersLeave DEF Take, RemoveLast, At
  <2>3. CASE TakeFails(w) \/ TakeCrashes(w)
    BY <2>3, FaultlessStep DEF TakeFails, TakeCrashes, Crash, Faultless
  <2>4. CASE Free(w)
    BY <1>0, <2>4, TakersKept, FaultlessStep DEF Free, At, Crash, Faultless
  <2> QED
    BY <1>6, <2>1, <2>2, <2>3, <2>4 DEF Worker
<1>7. CASE UNCHANGED vars
  BY <1>0, <1>3, <1>7 DEF vars
<1> QED
  BY <1>2, <1>4, <1>5, <1>6, <1>7 DEF Next, Terminated

LEMMA LinksStep ==
  ASSUME HealthInv, evicted = 0, [Next]_vars, evicted' = 0
  PROVE  LinkedForward' /\ (mpc' # "empty" => LinkedBack')
<1>0. /\ TypeInv /\ LastCall /\ LinkedForward /\ (mpc # "empty" => LinkedBack)
      /\ OneOwnerEach
  BY DEF HealthInv, LedgerInv, Health
<1>1. ASSUME UNCHANGED queueVars, mpc = "empty" => mpc' = "empty"
      PROVE  LinkedForward' /\ (mpc' # "empty" => LinkedBack')
  BY <1>0, <1>1 DEF LinkedForward, LinkedBack, queueVars
<1> USE DEF MainAt, mainVars
<1>2. CASE Tick \/ MainIdle
  BY <1>1, <1>2 DEF Tick, MainIdle, AddWork, DeleteRead, DestroyStop
<1>3. CASE MainBusy
  <2>1. CASE JobQueueAdd
    BY <1>0, <2>1, LinksAdd DEF JobQueueAdd
  <2>2. CASE DeleteOne
    BY <2>2 DEF DeleteOne
  <2>3. CASE EmptyOne
    <3>1. UnlinkCurjob /\ jobN # 0 /\ curjob = tail
      BY <1>0, <2>3, OwnersEmpty DEF EmptyOne, LastCall
    <3>2. mpc' = "empty"
      BY <2>3 DEF EmptyOne, Crash
    <3> QED
      BY <1>0, <3>1, <3>2, LinksEmpty
  <2>4. CASE EmptyDone
    <3>1. order = <<>> /\ order' = <<>>
      BY <1>0, <2>4, ListEmpty DEF EmptyDone
    <3> QED
      BY <2>4, <3>1 DEF EmptyDone, LinkedForward, LinkedBack
  <2>5. CASE DeleteLock \/ DeleteDone \/ DestroyPost \/ DestroyJoin
    BY <1>1, <2>5 DEF DeleteLock, DeleteDone, DestroyPost, DestroyJoin
  <2> QED
    BY <1>3, <2>1, <2>2, <2>3, <2>4, <2>5 DEF MainBusy
<1>4. ASSUME NEW w \in Workers, Worker(w)
      PROVE  LinkedForward' /\ (mpc' # "empty" => LinkedBack')
  <2>1. CASE Take(w)
    <3>1. mpc # "empty"
      BY <1>0, <2>1 DEF LastCall, Take, At
    <3> QED
      BY <1>0, <2>1, <3>1, LinksTake
  <2>2. CASE ~Take(w)
    BY <1>1, <1>4, <2>2 DEF Worker, Check, SemWait, Awake, TakeFails, TakeCrashes,
                            Run, Free, Crash
  <2> QED
    BY <2>1, <2>2
<1>5. CASE UNCHANGED vars
  BY <1>1, <1>5 DEF vars
<1> QED
  BY <1>2, <1>3, <1>4, <1>5 DEF Next, Terminated

LEMMA OwnersStep ==
  ASSUME HealthInv, evicted = 0, [Next]_vars, evicted' = 0
  PROVE  OneOwnerEach'
<1>0. TypeInv /\ LastCall /\ LinkedForward /\ OneOwnerEach
  BY DEF HealthInv, LedgerInv, Health
<1>1. ASSUME UNCHANGED <<heap, order, job, pc>>, Submitting' = Submitting
      PROVE  OneOwnerEach'
  BY <1>0, <1>1, OwnersKept DEF Holders
<1> USE DEF MainAt, Submitting, queueVars, nodeVars, mainVars, workVars
<1>2. CASE Tick \/ MainIdle
  BY <1>0, <1>1, <1>2, OwnersAdd DEF Tick, MainIdle, DeleteRead, DestroyStop
<1>3. CASE MainBusy
  <2>1. CASE JobQueueAdd
    BY <1>0, <2>1, OwnersAdd
  <2>2. CASE DeleteOne
    BY <2>2 DEF DeleteOne
  <2>3. CASE EmptyOne
    BY <1>0, <2>3, OwnersEmpty DEF EmptyOne, LastCall
  <2>4. CASE DeleteLock \/ DeleteDone \/ DestroyPost \/ DestroyJoin \/ EmptyDone
    BY <1>1, <2>4 DEF DeleteLock, DeleteDone, DestroyPost, DestroyJoin, EmptyDone
  <2> QED
    BY <1>3, <2>1, <2>2, <2>3, <2>4 DEF MainBusy
<1>4. ASSUME NEW w \in Workers, Worker(w) PROVE OneOwnerEach'
  <2>1. CASE Take(w)
    BY <1>0, <2>1, OwnersTake
  <2>2. CASE Free(w)
    BY <1>0, <2>2, OwnersFree
  <2>3. CASE Check(w) \/ SemWait(w) \/ Awake(w) \/ Run(w)
    <3>1. UNCHANGED <<heap, order, job, mpc, newjob>>
      BY <2>3 DEF Check, SemWait, Awake, Run
    <3>2. Holders' = Holders
      BY <1>0, <2>3, <3>1, HoldersKept DEF Check, SemWait, Awake, AwakeChecked, Run, At
    <3> QED
      BY <1>0, <3>1, <3>2, OwnersKept
  <2>4. CASE TakeFails(w) \/ TakeCrashes(w)
    BY <2>4, FaultlessStep DEF TakeFails, TakeCrashes, Crash, Faultless
  <2> QED
    BY <1>4, <2>1, <2>2, <2>3, <2>4 DEF Worker
<1>5. CASE UNCHANGED vars
  BY <1>1, <1>5 DEF vars
<1> QED
  BY <1>2, <1>3, <1>4, <1>5 DEF Next, Terminated

-----------------------------------------------------------------------------
LEMMA HealthInit == Init => HealthInv
<1> SUFFICES ASSUME Init PROVE HealthInv
  OBVIOUS
<1>1. LedgerInv
  BY TypeInit, PlaceInit, LedgerInit DEF LedgerInv
<1>2. Faultless /\ LastCall
  BY DEF Init, Faultless, LastCall
<1>3. Taking <= jobN
  <2>1. Takers = {}
    BY DEF Init, Takers
  <2> QED
    BY <2>1, TakersFinite DEF Init
<1>4. LinkedForward /\ LinkedBack
  BY DEF Init, LinkedForward, LinkedBack
<1>5. OneOwnerEach
  <2>1. Listed = {} /\ Holders = {} /\ Held = {} /\ Submitting = {}
    BY DEF Init, Listed, Holders, Held, Submitting
  <2> QED
    BY <2>1 DEF Init, OneOwnerEach
<1> QED
  BY <1>1, <1>2, <1>3, <1>4, <1>5 DEF HealthInv, Health

LEMMA HealthStep == HealthInv /\ [Next]_vars => HealthInv'
<1> SUFFICES ASSUME HealthInv, [Next]_vars PROVE HealthInv'
  OBVIOUS
<1>1. LedgerInv'
  BY TypeStep, PlaceStep, LedgerStep DEF HealthInv, LedgerInv
<1>2. ASSUME evicted' = 0
      PROVE  /\ Faultless' /\ LastCall' /\ Taking' <= jobN'
             /\ LinkedForward' /\ (mpc' # "empty" => LinkedBack')
             /\ OneOwnerEach'
  <2>1. evicted = 0
    BY <1>2, EvictedGrows DEF HealthInv, LedgerInv
  <2> QED
    BY <1>1, <1>2, <2>1, FaultlessStep, LastCallStep, TakingStep, LinksStep, OwnersStep
<1> QED
  BY <1>1, <1>2 DEF HealthInv, Health

LEMMA HealthAlways == Spec => []HealthInv
BY HealthInit, HealthStep, PTL DEF Spec

(* The list of the thread pool: until the first deletion its two chains    *)
(* hold the waiting jobs in submission order (thpool_jobqueue_add,         *)
(* thpool_jobqueue_removelast, thpool_jobqueue_empty).                     *)
THEOREM QueueStaysLinked == Spec => []QueueWellFormed
<1>1. HealthInv => QueueWellFormed
  BY DEF HealthInv, Health, QueueWellFormed
<1> QED
  BY <1>1, HealthAlways, PTL

(* Until the first deletion every allocated job has one owner: it is never *)
(* run after being freed, run twice, or leaked.                            *)
THEOREM JobsAreOwned == Spec => []JobOwnership
<1>1. HealthInv => JobOwnership
  BY DEF HealthInv, Health, JobOwnership
<1> QED
  BY <1>1, HealthAlways, PTL

(* The pool crashes, or a worker leaves with the mutex, only after         *)
(* delete_timeout_job removed a job: never from add, take, run and destroy *)
(* alone, in whatever order the threads do them.                           *)
THEOREM FaultsComeFromEviction == Spec => []FaultsNeedEviction
<1>1. HealthInv => FaultsNeedEviction
  BY DEF HealthInv, Health, Faultless, FaultsNeedEviction
<1> QED
  BY <1>1, HealthAlways, PTL
-----------------------------------------------------------------------------
(* While thpool_destroy joins, the semaphore has a token for every worker  *)
(* that still waits on it, and only the other loop of main has the mutex.  *)
Sleepers == {w \in Workers : pc[w] = "wait"}

JoinInv ==
  /\ mutex = Main => mpc = "del_loop"
  /\ mpc = "join" => Cardinality(Sleepers) <= sem

LEMMA SleepersFinite ==
  /\ IsFiniteSet(Sleepers) /\ Cardinality(Sleepers) \in Nat
  /\ Cardinality(Sleepers) <= Cardinality(Workers) /\ Cardinality(Workers) \in Nat
BY FS_Subset, FS_CardinalityType DEF Sleepers

LEMMA SleepersLess ==
  ASSUME UNCHANGED sem, Sleepers' \subseteq Sleepers, sem \in Nat,
         Cardinality(Sleepers) <= sem
  PROVE  Cardinality(Sleepers)' <= sem'
<1>1. /\ Cardinality(Sleepers') \in Nat /\ Cardinality(Sleepers') <= Cardinality(Sleepers)
  BY SleepersFinite, FS_Subset, FS_CardinalityType
<1> QED
  BY <1>1, SleepersFinite

LEMMA JoinStep == LedgerInv /\ JoinInv /\ [Next]_vars => JoinInv'
<1> SUFFICES ASSUME LedgerInv, JoinInv, [Next]_vars
             PROVE  JoinInv'
  OBVIOUS
<1>0. /\ sem \in Nat /\ mutex \in Workers \cup {Main, NULL}
      /\ pc \in [Workers -> {"check", "wait", "awake", "take", "run", "free", "exited"}]
      /\ (mpc = "join" => ~keepalive)
  BY DEF LedgerInv, TypeInv, TypeOK, ThreadTypes, MainPlace
<1> USE DEF MainAt, At, Crash, mainVars, workVars, ctlVars
<1>1. CASE Tick \/ MainIdle
  <2>1. /\ mutex' = mutex /\ (mpc = "del_loop" => mpc' = "del_loop")
        /\ (mpc' = "join" => mpc = "join") /\ UNCHANGED <<pc, sem>>
    BY <1>1 DEF Tick, MainIdle, AddWork, DeleteRead, DestroyStop
  <2> QED
    BY <2>1 DEF JoinInv, Sleepers
<1>2. CASE DestroyPost
  <2>1. sem' = sem + Cardinality(Workers) + 1 /\ mutex' = mutex /\ pc' = pc /\ mpc = "post"
    BY <1>0, <1>2, SleepersFinite DEF DestroyPost, ShutdownTokens
  <2>2. Cardinality(Sleepers)' <= sem'
    <3>1. Sleepers' = Sleepers
      BY <2>1 DEF Sleepers
    <3> QED
      BY <1>0, <2>1, <3>1, SleepersFinite
  <2> QED
    BY <2>1, <2>2 DEF JoinInv
<1>3. CASE MainBusy /\ ~DestroyPost
  <2>1. mutex' = Main => mpc' = "del_loop"
    BY <1>3 DEF MainBusy, JobQueueAdd, DeleteLock, DeleteOne, DeleteDone, DestroyJoin,
                EmptyOne, EmptyDone, JoinInv
  <2>2. mpc' # "join"
    BY <1>3 DEF MainBusy, JobQueueAdd, DeleteLock, DeleteOne, DeleteDone, DestroyJoin,
                EmptyOne, EmptyDone
  <2> QED
    BY <2>1, <2>2 DEF JoinInv
<1>4. ASSUME NEW w \in Workers, Worker(w)
      PROVE  JoinInv'
  <2>1. mpc' = mpc
    BY <1>4 DEF Worker, Check, SemWait, Awake, Take, TakeFails, TakeCrashes, Run, Free
  <2>2. mutex' = Main => mutex = Main
    BY <1>4 DEF Worker, Check, SemWait, Awake, Take, TakeFails, TakeCrashes, Run, Free
  <2>3. ASSUME mpc = "join" PROVE Cardinality(Sleepers)' <= sem'
    <3>1. CASE SemWait(w)
      <4>1. sem' = sem - 1 /\ Sleepers' = Sleepers \ {w} /\ w \in Sleepers
        BY <1>0, <3>1 DEF SemWait, Go, Sleepers
      <4>2. Cardinality(Sleepers') = Cardinality(Sleepers) - 1
        BY <4>1, SleepersFinite, FS_RemoveElement
      <4> QED
        BY <1>0, <2>3, <4>1, <4>2, SleepersFinite DEF JoinInv
    <3>2. CASE ~SemWait(w)
      <4>1. sem' = sem
        BY <1>4, <3>2 DEF Worker, Check, Awake, Take, TakeFails, TakeCrashes, Run, Free
      <4>2. \A x \in Workers : pc'[x] = "wait" => pc[x] = "wait"
        BY <1>0, <1>4, <2>3, <3>2
           DEF Worker, Check, Awake, AwakeChecked, Take, TakeFails, TakeCrashes, Run, Free, Go
      <4> QED
        BY <1>0, <2>3, <4>1, <4>2, SleepersLess DEF JoinInv, Sleepers
    <3> QED
      BY <3>1, <3>2
  <2> QED
    BY <2>1, <2>2, <2>3 DEF JoinInv
<1>5. CASE UNCHANGED vars
  BY <1>5 DEF vars, JoinInv, Sleepers
<1> QED
  BY <1>1, <1>2, <1>3, <1>4, <1>5 DEF Next, Terminated

(* What a worker that has not returned needs to go on.                     *)
CanGo(w) == (pc[w] = "wait" => sem # 0) /\ (pc[w] = "take" => mutex = NULL)

NobodyLeftAsleep ==
  Faultless =>
    /\ mpc = "join" => \A w \in Workers : pc[w] = "exited" \/ CanGo(w)
    /\ keepalive /\ jobN # 0 => sem # 0 \/ Claimers # {}

(* NobodyLeftAsleep, the safety half of DestroyReturns and EveryJobRuns:   *)
(* unless the process crashed or a worker left with the mutex,             *)
(* thpool_destroy never joins a worker that waits for a token or for the   *)
(* mutex in vain, and a listed job has a token or a worker on its way, for *)
(* any number of workers and deletions.                                    *)
THEOREM NobodyIsLeftAsleep == Spec => []NobodyLeftAsleep
<1>1. Init => JoinInv
  BY DEF Init, JoinInv
<1>2. LedgerInv /\ JoinInv => NobodyLeftAsleep
  <2> SUFFICES ASSUME LedgerInv, JoinInv, Faultless
               PROVE  /\ mpc = "join" => \A w \in Workers : pc[w] = "exited" \/ CanGo(w)
                      /\ keepalive /\ jobN # 0 => sem # 0 \/ Claimers # {}
    BY DEF NobodyLeftAsleep
  <2>0. /\ sem \in Nat /\ jobN \in Nat /\ evicted \in Nat
        /\ mutex \in {Main, NULL} /\ ~crashed
    BY DEF LedgerInv, TypeInv, TypeOK, QueueTypes, ThreadTypes, HistoryTypes, Faultless
  <2>1. ASSUME mpc = "join", NEW w \in Workers PROVE CanGo(w)
    <3>1. mutex = NULL
      BY <2>0, <2>1 DEF JoinInv
    <3>2. ASSUME pc[w] = "wait" PROVE sem # 0
      <4>1. w \in Sleepers /\ Cardinality(Sleepers) <= sem
        BY <2>1, <3>2 DEF Sleepers, JoinInv
      <4>2. Cardinality(Sleepers) # 0
        BY <4>1, SleepersFinite, FS_EmptySet
      <4> QED
        BY <2>0, <4>1, <4>2, SleepersFinite
    <3> QED
      BY <3>1, <3>2 DEF CanGo
  <2>2. ASSUME keepalive, jobN # 0, Claimers = {} PROVE sem # 0
    <3>1. Claiming = 0 /\ Wedged = 0
      BY <2>2, FS_EmptySet DEF Claiming, Wedged, Faultless
    <3>2. sem + Claiming + Wedged = jobN + evicted
      BY <2>0, <2>2 DEF LedgerInv, SemaphoreLedger
    <3> QED
      BY <2>0, <2>2, <3>1, <3>2
  <2> QED
    BY <2>1, <2>2
<1> QED
  BY <1>1, <1>2, JoinStep, HealthAlways, PTL DEF Spec, HealthInv
-----------------------------------------------------------------------------
(* As long as no job can outlive the time-out, the worker pool is a        *)
(* WorkQueue, for every number of workers, nodes and submissions.          *)


(* Nothing is younger than the clock.                                      *)
InTime == clock <= MaxTime /\ now <= MaxTime

(* A live node carries the number of its own submission.                   *)
Numbered ==
  /\ \A j \in heap : arg[j] \in 1 .. added
  /\ \A j, k \in heap : arg[j] = arg[k] => j = k
  /\ mpc = "add" => arg[newjob] = added

(* Main submits and deletes before it stops the pool, never after.         *)
OpenWhileServing == mpc \in {"idle", "add", "del_lock", "del_loop"} => keepalive

RefinementInv ==
  HealthInv /\ evicted = 0 /\ InTime /\ Numbered /\ OpenWhileServing

-----------------------------------------------------------------------------
LEMMA InTimeStep ==
  ASSUME HealthInv, InTime, [Next]_vars
  PROVE  InTime'
<1>0. clock \in Nat /\ now \in Nat
  BY DEF HealthInv, LedgerInv, TypeInv, TypeOK, ThreadTypes
<1> USE DEF InTime, mainVars, ctlVars
<1>1. CASE Tick \/ MainIdle
  BY <1>0, <1>1 DEF Tick, MainIdle, AddWork, DeleteRead, DestroyStop
<1>2. CASE MainBusy
  BY <1>2 DEF MainBusy, JobQueueAdd, DeleteLock, DeleteOne, DeleteDone,
     DestroyPost, DestroyJoin, EmptyOne, EmptyDone, Crash
<1>3. ASSUME NEW w \in Workers, Worker(w) PROVE InTime'
  BY <1>3 DEF Worker, Check, SemWait, Awake, Take, TakeFails, TakeCrashes,
     Run, Free, Crash
<1>4. CASE UNCHANGED vars
  BY <1>4 DEF vars
<1> QED
  BY <1>1, <1>2, <1>3, <1>4 DEF Next, Terminated

LEMMA OpenStep ==
  ASSUME OpenWhileServing, [Next]_vars
  PROVE  OpenWhileServing'
<1> USE DEF OpenWhileServing, MainAt, mainVars, ctlVars
<1>1. CASE Tick \/ MainIdle
  BY <1>1 DEF Tick, MainIdle, AddWork, DeleteRead, DestroyStop
<1>2. CASE MainBusy
  BY <1>2 DEF MainBusy, JobQueueAdd, DeleteLock, DeleteOne, DeleteDone,
     DestroyPost, DestroyJoin, EmptyOne, EmptyDone, Crash
<1>3. ASSUME NEW w \in Workers, Worker(w) PROVE OpenWhileServing'
  BY <1>3 DEF Worker, Check, SemWait, Awake, Take, TakeFails, TakeCrashes,
     Run, Free, Crash
<1>4. CASE UNCHANGED vars
  BY <1>4 DEF vars
<1> QED
  BY <1>1, <1>2, <1>3, <1>4 DEF Next, Terminated

(* No job is too old: the loop of delete_timeout_job deletes nothing.      *)
LEMMA NothingTimesOut ==
  ASSUME HealthInv, InTime, MaxTime <= TimeOut
  PROVE  ~CurjobTimedOut
<1>1. /\ now \in Nat /\ curjob \in Jobs \cup {NULL}
      /\ addTime \in [Jobs -> Nat]
  BY DEF HealthInv, LedgerInv, TypeInv, TypeOK, ThreadTypes, QueueTypes
<1>2. ASSUME curjob # NULL PROVE ~(now - addTime[curjob] > TimeOut)
  <2>1. addTime[curjob] \in Nat
    BY <1>1, <1>2
  <2> QED
    BY <1>1, <2>1 DEF InTime
<1> QED
  BY <1>2 DEF CurjobTimedOut

LEMMA NothingEvicted ==
  ASSUME HealthInv, InTime, MaxTime <= TimeOut, evicted = 0, [Next]_vars
  PROVE  evicted' = 0
<1> USE DEF mainVars
<1>1. CASE Tick \/ MainIdle
  BY <1>1 DEF Tick, MainIdle, AddWork, DeleteRead, DestroyStop
<1>2. CASE MainBusy
  BY <1>2, NothingTimesOut DEF MainBusy, JobQueueAdd, DeleteLock, DeleteOne,
     DeleteDone, DestroyPost, DestroyJoin, EmptyOne, EmptyDone
<1>3. ASSUME NEW w \in Workers, Worker(w) PROVE evicted' = 0
  BY <1>3 DEF Worker, Check, SemWait, Awake, Take, TakeFails, TakeCrashes, Run, Free
<1>4. CASE UNCHANGED vars
  BY <1>4 DEF vars
<1> QED
  BY <1>1, <1>2, <1>3, <1>4 DEF Next, Terminated

LEMMA NumberedStep ==
  ASSUME HealthInv, Numbered, [Next]_vars
  PROVE  Numbered'
<1>0. added \in Nat /\ arg \in [Jobs -> Nat] /\ heap \subseteq Jobs
  BY DEF HealthInv, LedgerInv, TypeInv, TypeOK, QueueTypes, HistoryTypes
<1> USE DEF MainAt, queueVars, nodeVars, mainVars
<1>1. CASE AddWork
  <2>1. PICK j \in Jobs \ heap :
          /\ heap' = heap \cup {j} /\ newjob' = j
          /\ arg' = [arg EXCEPT ![j] = added + 1]
    BY <1>1 DEF AddWork
  <2>2. added' = added + 1
    BY <1>1 DEF AddWork
  <2>3. arg'[j] = added + 1 /\ \A k \in heap : arg'[k] = arg[k] /\ arg[k] \in 1 .. added
    BY <1>0, <2>1 DEF Numbered
  <2>4. \A k \in heap' : arg'[k] \in 1 .. added'
    BY <1>0, <2>1, <2>2, <2>3
  <2>5. \A i, k \in heap' : arg'[i] = arg'[k] => i = k
    BY <1>0, <2>1, <2>3 DEF Numbered
  <2> QED
    BY <2>1, <2>2, <2>3, <2>4, <2>5 DEF Numbered
<1>2. ASSUME heap' \subseteq heap, UNCHANGED <<arg, added>>,
             mpc' = "add" => mpc = "add" /\ newjob' = newjob
      PROVE  Numbered'
  BY <1>2 DEF Numbered
<1>3. CASE Tick \/ DeleteRead \/ DestroyStop
  BY <1>2, <1>3 DEF Tick, DeleteRead, DestroyStop
<1>4. CASE MainBusy
  BY <1>2, <1>4 DEF MainBusy, JobQueueAdd, DeleteLock, DeleteOne, DeleteDone,
     DestroyPost, DestroyJoin, EmptyOne, EmptyDone, UnlinkCurjob, Crash
<1>5. ASSUME NEW w \in Workers, Worker(w) PROVE Numbered'
  BY <1>2, <1>5 DEF Worker, Check, SemWait, Awake, Take, TakeFails, TakeCrashes,
     Run, Free, Crash
<1>6. CASE UNCHANGED vars
  BY <1>2, <1>6 DEF vars
<1> QED
  BY <1>1, <1>3, <1>4, <1>5, <1>6 DEF Next, MainIdle, Terminated

LEMMA RefinementInit == Init => RefinementInv
<1> SUFFICES ASSUME Init PROVE RefinementInv
  OBVIOUS
<1>1. HealthInv
  BY HealthInit
<1>2. InTime /\ Numbered /\ OpenWhileServing /\ evicted = 0
  BY DEF Init, InTime, Numbered, OpenWhileServing
<1> QED
  BY <1>1, <1>2 DEF RefinementInv

LEMMA RefinementStep ==
  MaxTime <= TimeOut /\ RefinementInv /\ [Next]_vars => RefinementInv'
<1> SUFFICES ASSUME MaxTime <= TimeOut, RefinementInv, [Next]_vars PROVE RefinementInv'
  OBVIOUS
<1> QED
  BY HealthStep, InTimeStep, OpenStep, NothingEvicted, NumberedStep DEF RefinementInv

-----------------------------------------------------------------------------
(* The three things a caller of the pool knows, and what changes them.     *)
LEMMA WaitingElements ==
  ASSUME HealthInv
  PROVE  /\ DOMAIN order = 1 .. jobN /\ jobN \in Nat
         /\ Waiting \in Seq(Nat) /\ Len(Waiting) = jobN
         /\ \A i \in 1 .. jobN : Waiting[i] = arg[order[i]]
<1>1. TypeInv /\ arg \in [Jobs -> Nat]
  BY DEF HealthInv, LedgerInv, TypeInv, TypeOK, QueueTypes
<1>2. DOMAIN order = 1 .. jobN /\ jobN \in Nat /\ \A i \in DOMAIN order : order[i] \in Jobs
  BY <1>1, ListEmpty, ElementsAreJobs
<1>3. Waiting = [i \in 1 .. jobN |-> arg[order[i]]]
  BY <1>2 DEF Waiting
<1>4. \A i \in 1 .. jobN : arg[order[i]] \in Nat
  BY <1>1, <1>2
<1> QED
  BY <1>2, <1>3, <1>4

LEMMA WaitingKept ==
  ASSUME UNCHANGED order, \A j \in Listed : arg'[j] = arg[j]
  PROVE  Waiting' = Waiting
BY DEF Waiting, Listed

LEMMA ActiveKept ==
  ASSUME UNCHANGED job, Holders' = Holders, \A j \in Held : arg'[j] = arg[j]
  PROVE  Active' = Active
<1>1. Held' = Held
  BY DEF Held
<1> QED
  BY <1>1 DEF Active

LEMMA AddSubmits ==
  ASSUME RefinementInv, HealthInv', JobQueueAdd
  PROVE  WQ!Submit
<1>1. /\ mpc = "add" /\ mpc' = "idle" /\ UNCHANGED <<arg, job, pc, added, keepalive>>
      /\ order' = Append(order, newjob) /\ keepalive /\ arg[newjob] = added
      /\ added \in Nat /\ newjob \in Jobs /\ order \in Seq(Jobs) /\ Len(order) = jobN
      /\ jobN' = jobN + 1
  BY DEF JobQueueAdd, MainAt, nodeVars, workVars, RefinementInv, OpenWhileServing, Numbered,
         HealthInv, LedgerInv, TypeInv, LocalsOK, TypeOK, HistoryTypes
<1>2. Submitted' = Submitted + 1 /\ Submitted' = added
  BY <1>1 DEF Submitted
<1>3. Active' = Active
  BY <1>1, ActiveKept DEF Holders
<1>4. Waiting' = Append(Waiting, Submitted')
  <2> DEFINE n == jobN
             v == Waiting
             u == Waiting'
  <2>1. /\ n \in Nat /\ v \in Seq(Nat) /\ Len(v) = n
        /\ \A i \in 1 .. n : v[i] = arg[order[i]]
    BY WaitingElements DEF RefinementInv
  <2>2. (HealthInv => /\ DOMAIN order = 1 .. jobN /\ jobN \in Nat
                      /\ Waiting \in Seq(Nat) /\ Len(Waiting) = jobN
                      /\ \A i \in 1 .. jobN : Waiting[i] = arg[order[i]])'
    BY WaitingElements, PTL
  <2>3. /\ u \in Seq(Nat) /\ Len(u) = n + 1
        /\ \A i \in 1 .. n + 1 : u[i] = arg[order'[i]]
    BY <1>1, <2>2
  <2>4. /\ \A i \in 1 .. n : order'[i] = order[i]
        /\ order'[n + 1] = newjob
    BY <1>1, AppendElements
  <2>5. /\ \A i \in 1 .. n : u[i] = v[i]
        /\ u[n + 1] = added
    BY <1>1, <2>1, <2>3, <2>4
  <2> HIDE DEF n, v, u
  <2>6. u = Append(v, added)
    BY <1>1, <2>1, <2>3, <2>5
  <2> QED
    BY <1>2, <2>6 DEF u, v
<1> QED
  BY <1>1, <1>2, <1>3, <1>4 DEF WQ!Submit

(* Losing the tail, at the front of the queue callers know.                *)
LEMMA WaitingShrinks ==
  ASSUME HealthInv, HealthInv', jobN # 0, order' = Tail(order), jobN' = jobN - 1,
         UNCHANGED arg
  PROVE  /\ Waiting # <<>> /\ Waiting' = Tail(Waiting)
         /\ Head(Waiting) = arg[order[1]]
<1> DEFINE n == jobN
           v == Waiting
           u == Waiting'
<1>1. /\ n \in Nat /\ n # 0 /\ v \in Seq(Nat) /\ Len(v) = n
      /\ \A i \in 1 .. n : v[i] = arg[order[i]]
  BY WaitingElements
<1>2. (HealthInv => /\ DOMAIN order = 1 .. jobN /\ jobN \in Nat
                    /\ Waiting \in Seq(Nat) /\ Len(Waiting) = jobN
                    /\ \A i \in 1 .. jobN : Waiting[i] = arg[order[i]])'
  BY WaitingElements, PTL
<1>3. /\ u \in Seq(Nat) /\ Len(u) = n - 1
      /\ \A i \in 1 .. n - 1 : u[i] = arg[order'[i]]
  BY <1>2
<1>4. \A i \in 1 .. n - 1 : order'[i] = order[i + 1]
  BY TailElements DEF HealthInv, LedgerInv, TypeInv, TypeOK, HistoryTypes
<1>5. ASSUME NEW i \in 1 .. n - 1 PROVE u[i] = v[i + 1]
  <2>1. i + 1 \in 1 .. n
    BY <1>1
  <2>2. v[i + 1] = arg[order[i + 1]] /\ u[i] = arg[order'[i]]
    BY <1>1, <1>3, <2>1
  <2> QED
    BY <1>4, <2>2
<1>6. v[1] = arg[order[1]]
  BY <1>1
<1> HIDE DEF n, v, u
<1>7. u = Tail(v)
  <2>1. \A i \in 1 .. n - 1 : u[i] = v[i + 1]
    BY <1>5
  <2>2. /\ Tail(v) \in Seq(Nat) /\ Len(Tail(v)) = n - 1
        /\ \A i \in 1 .. n - 1 : Tail(v)[i] = v[i + 1]
    BY <1>1
  <2> QED
    BY <1>1, <1>3, <2>1, <2>2, SeqEqual
<1>8. v # <<>> /\ Head(v) = v[1]
  BY <1>1
<1> QED
  BY <1>6, <1>7, <1>8 DEF u, v

LEMMA TakeClaims ==
  ASSUME RefinementInv, HealthInv', NEW w \in Workers, Take(w)
  PROVE  WQ!Claim
<1>1. /\ UNCHANGED <<arg, mpc, added, keepalive>> /\ jobN # 0
      /\ order' = Tail(order) /\ jobN' = jobN - 1
      /\ job' = [job EXCEPT ![w] = tail] /\ Go(w, "run") /\ pc[w] = "take"
  BY DEF Take, RemoveLast, Peek, At, nodeVars, mainVars, ctlVars
<1>2. Waiting # <<>> /\ Waiting' = Tail(Waiting) /\ Head(Waiting) = arg[order[1]]
  BY <1>1, WaitingShrinks DEF RefinementInv
<1>3. tail = order[1]
  BY <1>1, ListEmpty DEF RefinementInv, HealthInv, LedgerInv, Health, LinkedForward
<1>4. Holders' = Holders \cup {w} /\ w \notin Holders
  BY <1>1 DEF Holders, Go, RefinementInv, HealthInv, LedgerInv, TypeInv, TypeOK, ThreadTypes
<1>5. job'[w] = tail /\ \A v \in Holders : job'[v] = job[v]
  BY <1>1, <1>4 DEF RefinementInv, HealthInv, LedgerInv, TypeInv, TypeOK, ThreadTypes, Holders
<1>6. Held' = Held \cup {tail}
  BY <1>4, <1>5 DEF Held
<1>7. Active' = Active \cup {Head(Waiting)}
  BY <1>1, <1>2, <1>3, <1>6 DEF Active
<1>8. Submitted' = Submitted
  BY <1>1 DEF Submitted
<1> QED
  BY <1>1, <1>2, <1>7, <1>8 DEF WQ!Claim

LEMMA FreeFinishes ==
  ASSUME RefinementInv, NEW w \in Workers, Free(w)
  PROVE  WQ!Finish
<1>0. TypeInv /\ OneOwnerEach /\ Numbered
  BY DEF RefinementInv, HealthInv, LedgerInv, Health
<1>1. w \in Holders /\ job[w] \in heap
  BY <1>0, OwnersFree DEF Free, At, Holders
<1>2. /\ UNCHANGED <<order, arg, mpc, added, keepalive>>
      /\ job' = [job EXCEPT ![w] = NULL] /\ Go(w, "check")
  BY <1>1 DEF Free, queueVars, mainVars, ctlVars
<1>3. Holders' = Holders \ {w}
  BY <1>2 DEF Holders, Go, TypeInv, TypeOK, ThreadTypes, RefinementInv, HealthInv, LedgerInv
<1>4. \A v \in Holders \ {w} : job'[v] = job[v] /\ job[v] # job[w]
  BY <1>0, <1>1, <1>2 DEF TypeInv, TypeOK, ThreadTypes, Holders, OneOwnerEach
<1>5. Held' = Held \ {job[w]} /\ job[w] \in Held
  BY <1>1, <1>3, <1>4 DEF Held
<1>6. \A j \in Held : arg[j] = arg[job[w]] => j = job[w]
  BY <1>0, <1>1 DEF Numbered, OneOwnerEach
<1>7. Active' = Active \ {arg[job[w]]} /\ arg[job[w]] \in Active
  BY <1>2, <1>5, <1>6 DEF Active
<1>8. Submitted' = Submitted /\ Waiting' = Waiting
  BY <1>2, WaitingKept DEF Submitted
<1> QED
  BY <1>2, <1>7, <1>8 DEF WQ!Finish

LEMMA EmptyDrops ==
  ASSUME RefinementInv, HealthInv', EmptyOne
  PROVE  WQ!Drop
<1>0. /\ TypeInv /\ OneOwnerEach /\ LinkedForward /\ LastCall /\ mpc = "empty"
      /\ MainPlace
  BY DEF RefinementInv, HealthInv, LedgerInv, Health, EmptyOne, MainAt
<1>1. jobN # 0 /\ UnlinkCurjob
  BY <1>0, OwnersEmpty DEF EmptyOne, LastCall
<1>2. /\ UNCHANGED <<arg, added, mpc, keepalive, pc, job>> /\ ~keepalive
      /\ order' = Tail(order) /\ jobN' = jobN - 1
  BY <1>0, <1>1 DEF UnlinkCurjob, EmptyOne, Crash, MainPlace, workVars, ctlVars, nodeVars
<1>3. Waiting # <<>> /\ Waiting' = Tail(Waiting)
  BY <1>1, <1>2, WaitingShrinks DEF RefinementInv
<1>4. Holders = {}
  BY <1>0 DEF LastCall, Holders
<1>5. Active = {} /\ Active' = Active
  BY <1>2, <1>4 DEF Active, Held, Holders
<1>6. Submitted' = Submitted
  BY <1>2 DEF Submitted
<1> QED
  BY <1>2, <1>3, <1>5, <1>6 DEF WQ!Drop

-----------------------------------------------------------------------------
LEMMA AddWorkStutters ==
  ASSUME RefinementInv, AddWork
  PROVE  UNCHANGED WQ!vars
<1>0. added \in Nat /\ OneOwnerEach /\ arg \in [Jobs -> Nat] /\ heap \subseteq Jobs
  BY DEF RefinementInv, HealthInv, LedgerInv, TypeInv, TypeOK, QueueTypes, HistoryTypes, Health
<1>1. PICK j \in Jobs \ heap : arg' = [arg EXCEPT ![j] = added + 1]
  BY DEF AddWork
<1>2. \A k \in Listed \cup Held : arg'[k] = arg[k]
  BY <1>0, <1>1 DEF OneOwnerEach
<1>3. Waiting' = Waiting
  BY <1>2, WaitingKept DEF AddWork, queueVars
<1>4. Active' = Active
  BY <1>2, ActiveKept DEF AddWork, workVars, Holders
<1>5. Submitted' = Submitted /\ UNCHANGED keepalive
  BY <1>0 DEF AddWork, MainAt, Submitted, ctlVars
<1> QED
  BY <1>3, <1>4, <1>5 DEF WQ!vars

LEMMA FrameStutters ==
  ASSUME UNCHANGED <<order, arg, job, added, keepalive>>, Holders' = Holders,
         mpc' = "add" <=> mpc = "add"
  PROVE  UNCHANGED WQ!vars
<1>1. Waiting' = Waiting /\ Active' = Active
  BY WaitingKept, ActiveKept
<1>2. Submitted' = Submitted
  BY DEF Submitted
<1> QED
  BY <1>1, <1>2 DEF WQ!vars

LEMMA StepRefines ==
  ASSUME MaxTime <= TimeOut, RefinementInv, RefinementInv', [Next]_vars
  PROVE  [WQ!Next]_(WQ!vars)
<1>0. HealthInv /\ HealthInv' /\ TypeInv /\ Faultless' /\ ~CurjobTimedOut
  BY NothingTimesOut DEF RefinementInv, HealthInv, LedgerInv, Health
<1> USE DEF queueVars, nodeVars, mainVars, workVars, ctlVars
<1>1. UNCHANGED pc => Holders' = Holders
  BY DEF Holders
<1>2. CASE AddWork
  BY <1>2, AddWorkStutters
<1>3. CASE DestroyStop
  <2>1. Waiting' = Waiting /\ Active' = Active /\ Submitted' = Submitted
    BY <1>1, <1>3, WaitingKept, ActiveKept DEF DestroyStop, MainAt, Submitted
  <2>2. keepalive' = FALSE
    BY <1>3 DEF DestroyStop
  <2>3. WQ!Close
    BY <2>1, <2>2 DEF WQ!Close
  <2> QED
    BY <2>3 DEF WQ!Next
<1>4. CASE Tick \/ DeleteRead
  BY <1>1, <1>4, FrameStutters DEF Tick, DeleteRead, MainAt
<1>5. CASE MainBusy
  <2>1. CASE JobQueueAdd
    BY <1>0, <2>1, AddSubmits DEF WQ!Next
  <2>2. CASE EmptyOne
    BY <1>0, <2>2, EmptyDrops DEF WQ!Next
  <2>3. CASE DeleteOne
    BY <1>0, <2>3 DEF DeleteOne
  <2>4. CASE DeleteLock \/ DeleteDone \/ DestroyPost \/ DestroyJoin \/ EmptyDone
    BY <1>1, <2>4, FrameStutters
       DEF DeleteLock, DeleteDone, DestroyPost, DestroyJoin, EmptyDone, MainAt
  <2> QED
    BY <1>5, <2>1, <2>2, <2>3, <2>4 DEF MainBusy
<1>6. ASSUME NEW w \in Workers, Worker(w) PROVE [WQ!Next]_(WQ!vars)
  <2>1. CASE Take(w)
    BY <1>0, <2>1, TakeClaims DEF WQ!Next
  <2>2. CASE Free(w)
    BY <2>2, FreeFinishes DEF WQ!Next
  <2>3. CASE Check(w) \/ SemWait(w) \/ Awake(w) \/ Run(w)
    <3>1. UNCHANGED <<order, arg, job, added, keepalive, mpc>>
      BY <2>3 DEF Check, SemWait, Awake, Run
    <3>2. Holders' = Holders
      BY <1>0, <2>3, <3>1, HoldersKept DEF Check, SemWait, Awake, AwakeChecked, Run, At
    <3> QED
      BY <3>1, <3>2, FrameStutters
  <2>4. CASE TakeFails(w) \/ TakeCrashes(w)
    BY <1>0, <2>4 DEF TakeFails, TakeCrashes, Crash, Faultless
  <2> QED
    BY <1>6, <2>1, <2>2, <2>3, <2>4 DEF Worker
<1>7. CASE UNCHANGED vars
  BY <1>1, <1>7, FrameStutters DEF vars
<1> QED
  BY <1>2, <1>3, <1>4, <1>5, <1>6, <1>7 DEF Next, MainIdle, Terminated

LEMMA InitRefines == Init => WQ!Init
<1> SUFFICES ASSUME Init PROVE WQ!Init
  OBVIOUS
<1>1. Holders = {} /\ Held = {}
  BY DEF Init, Holders, Held
<1>2. Waiting = <<>>
  BY DEF Init, Waiting
<1> QED
  BY <1>1, <1>2 DEF Init, WQ!Init, Submitted, Active

(* While no job can outlive the time-out thread_pool.c is a FIFO queue of  *)
(* jobs, each claimed by one thread and finished once, and dropped only    *)
(* after thpool_destroy with no thread at work.                            *)
THEOREM PoolIsWorkQueue ==
  ASSUME MaxTime <= TimeOut
  PROVE  Spec => ImplementsWorkQueue
<1>1. RefinementInv /\ [Next]_vars => RefinementInv'
  BY RefinementStep
<1>2. RefinementInv /\ RefinementInv' /\ [Next]_vars => [WQ!Next]_(WQ!vars)
  BY StepRefines
<1> QED
  BY RefinementInit, InitRefines, <1>1, <1>2, PTL DEF Spec, ImplementsWorkQueue, WQ!Spec
=============================================================================
