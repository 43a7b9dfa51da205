-------------------------- MODULE GNetServerProofs --------------------------
(***************************************************************************)
(* What holds of the epoll server for every size of its table, any number  *)
(* of descriptors, workers and clients, and any time-out.  The argument    *)
(* follows each descriptor from hand to hand: accept thread, epoll, main,  *)
(* queue, worker.                                                          *)
(***************************************************************************)
EXTENDS GNetServer, FiniteSetTheorems, WellFoundedInduction, TLAPS

Accepting == apc \in {"slot", "init", "add"}
Holding   == mpc \in {"match", "recv", "lost", "unknown", "close"}
Sweeping  == mpc \in {"age", "drop", "dropclose"}
Busy(w)   == wpc[w] \notin {"idle", "exited"}

(* The values locals have where they are used.  The slot that the accept   *)
(* thread found stays free, since no other thread fills one.               *)
Locals ==
  /\ Accepting => connect_fd # -1
  /\ apc = "init" => free_index # -1 /\ slotFd[free_index] = -1
  /\ mpc \in {"join", "done"} => exit_flag
  /\ Sweeping => index # MAX_EVENTS
  /\ Sweeping \/ Holding => fd_temp # -1
  /\ \A w \in Workers : Busy(w) => wjob[w] \in Jobs

TypeInv == TypeOK /\ Locals

USE ServerAssumption DEF ServerAssumption
-----------------------------------------------------------------------------
LEMMA LowestIsIn ==
  ASSUME NEW S \in SUBSET Nat, S # {}
  PROVE  Lowest(S) \in S
<1>1. PICK x \in S : \A y \in S : ~(<<y, x>> \in OpToRel(<, Nat))
  BY NatLessThanWellFounded, WFMin
<1>2. \A y \in S : ~(y < x)
  BY <1>1 DEF OpToRel
<1>3. \A y \in S : x <= y
  BY <1>2
<1> QED
  BY <1>3 DEF Lowest

(* Scans of the table and of the descriptors.                              *)
LEMMA ScanFinds ==
  /\ \A S \in SUBSET Slots : Lowest(S) \in Slots \cup {-1} /\ (S # {} => Lowest(S) \in S)
  /\ \A S \in SUBSET Fds : Lowest(S) \in Fds \cup {-1} /\ (S # {} => Lowest(S) \in S)
<1>1. Slots \subseteq Nat /\ Fds \subseteq Nat
  BY DEF Slots, Fds
<1>2. Lowest({}) = -1
  BY DEF Lowest
<1>3. \A S \in SUBSET Nat : S # {} => Lowest(S) \in S
  BY LowestIsIn
<1> QED
  BY <1>1, <1>2, <1>3

LEMMA NoFd == -1 \notin Fds /\ -1 \notin Slots /\ MAX_EVENTS \notin Slots
BY DEF Fds, Slots

LEMMA AgedJobsCount ==
  ASSUME TypeOK
  PROVE  Cardinality(AgedJobs) \in 0 .. Len(jobs)
<1>1. AgedJobs \in SUBSET (1 .. Len(jobs)) /\ Len(jobs) \in Nat
  BY DEF AgedJobs, TypeOK
<1>2. IsFiniteSet(1 .. Len(jobs)) /\ Cardinality(1 .. Len(jobs)) = Len(jobs)
  BY <1>1, FS_Interval
<1>3. IsFiniteSet(AgedJobs) /\ Cardinality(AgedJobs) <= Len(jobs)
  BY <1>1, <1>2, FS_Subset
<1> QED
  BY <1>1, <1>3, FS_CardinalityType

LEMMA TypesStart == Init => TypeInv
<1> SUFFICES ASSUME Init PROVE TypeInv
  OBVIOUS
<1>1. 0 \in 0 .. MaxTime /\ 0 \in 0 .. MAX_EVENTS
  OBVIOUS
<1>2. jobs \in Seq(Jobs)
  BY DEF Init
<1>3. wjob \in [Workers -> Jobs \cup {<<>>}]
  BY DEF Init
<1>4. replies \in [Conns \X Conns -> Nat]
  BY DEF Init
<1>5. {exit_flag, keepalive, undisturbed} \subseteq BOOLEAN
  BY DEF Init
<1>6. slotFd \in [Slots -> Fds \cup {-1}] /\ slotTime \in [Slots -> 0 .. MaxTime]
  BY <1>1 DEF Init
<1>7. wpc \in [Workers -> {"idle", "send", "match", "count", "free", "close", "exited"}]
  BY DEF Init
<1>8. TypeOK
  BY <1>1, <1>2, <1>3, <1>4, <1>5, <1>6, <1>7 DEF Init, TypeOK
<1>9. Locals
  BY DEF Init, Locals, Accepting, Holding, Sweeping, Busy
<1> QED
  BY <1>8, <1>9 DEF TypeInv

LEMMA EnvironmentTypes ==
  ASSUME TypeInv, Environment
  PROVE  TypeInv'
<1> USE DEF TypeInv, TypeOK, Locals, Accepting, Holding, Sweeping, Busy,
            kernelVars, tableVars, acceptVars, mainVars, poolVars, envVars
<1>1. CASE Tick
  BY <1>1 DEF Tick
<1>2. CASE Ask
  BY <1>2 DEF Ask
<1>3. CASE Sigterm
  BY <1>3 DEF Sigterm
<1> QED
  BY <1>1, <1>2, <1>3 DEF Environment

LEMMA AcceptTypes ==
  ASSUME TypeInv, Accept \/ AcceptThread
  PROVE  TypeInv'
<1> USE ScanFinds, NoFd DEF TypeInv, TypeOK, Locals, Accepting, Holding, Sweeping, Busy,
            kernelVars, tableVars, acceptVars, mainVars, poolVars, envVars, AcceptAt,
            closesocket
<1>1. CASE Accept
  BY <1>1 DEF Accept, Open
<1>2. CASE AcceptCap
  BY <1>2 DEF AcceptCap
<1>3. CASE AcceptFails
  BY <1>3 DEF AcceptFails
<1>4. CASE FindSlot
  <2>1. free_index' \in {i \in Slots : slotFd[i] = -1}
    BY <1>4 DEF FindSlot, get_epoll_connect_free_event_index, Lowest
  <2> QED
    BY <1>4, <2>1 DEF FindSlot
<1>5. CASE Refuse
  BY <1>5 DEF Refuse
<1>6. CASE InitSlot
  BY <1>6 DEF InitSlot
<1>7. CASE EpollAdd
  BY <1>7 DEF EpollAdd
<1>8. CASE EpollAddFails
  BY <1>8 DEF EpollAddFails, GiveUp
<1>9. CASE CountUp
  BY <1>9 DEF CountUp, connect_total_count_opration
<1> QED
  BY <1>1, <1>2, <1>3, <1>4, <1>5, <1>6, <1>7, <1>8, <1>9 DEF AcceptThread

(* A slot that is freed holds -1 afterwards, and no other changes.         *)
LEMMA FreeTypes ==
  ASSUME TypeOK, NEW i \in Slots \cup {-1}, free_event_by_index(i)
  PROVE  /\ slotFd' \in [Slots -> Fds \cup {-1}]
         /\ \A k \in Slots : slotFd'[k] = IF k = i THEN -1 ELSE slotFd[k]
BY NoFd DEF TypeOK, free_event_by_index

LEMMA MainTypes ==
  ASSUME TypeInv, MainThread
  PROVE  TypeInv'
<1> USE ScanFinds, NoFd DEF TypeInv, TypeOK, Locals, Accepting, Holding, Sweeping, Busy,
            kernelVars, tableVars, acceptVars, mainVars, poolVars, envVars,
            closesocket, connect_total_count_opration
<1>1. CASE LoopTop
  BY <1>1 DEF LoopTop, AtLoopTop
<1>2. CASE SweepRead
  <2>1. index \in Slots /\ index + 1 \in 0 .. MAX_EVENTS
    BY <1>2 DEF SweepRead, Slots
  <2>2. slotFd[index] \in Fds \cup {-1}
    BY <2>1
  <2> QED
    BY <1>2, <2>1, <2>2 DEF SweepRead
<1>3. CASE SweepAge
  BY <1>3 DEF SweepAge
<1>4. CASE SweepFree
  <2>1. index \in Slots
    BY <1>4 DEF SweepFree, Slots
  <2>2. /\ slotFd' \in [Slots -> Fds \cup {-1}]
        /\ \A k \in Slots : slotFd'[k] = IF k = index THEN -1 ELSE slotFd[k]
    BY <1>4, <2>1, FreeTypes DEF SweepFree
  <2> QED
    BY <1>4, <2>2 DEF SweepFree
<1>5. CASE SweepClose
  BY <1>5 DEF SweepClose
<1>6. CASE SweepJobs
  <2>1. Cardinality(AgedJobs) \in 0 .. Len(jobs)
    BY AgedJobsCount
  <2>2. jobs' \in Seq(Jobs) /\ total' \in Int
    BY <1>6, <2>1 DEF SweepJobs
  <2>3. /\ undisturbed' \in BOOLEAN /\ mpc' = "wait" /\ index' = 0 /\ now' = 0
        /\ UNCHANGED <<eventTime, fd_temp, event_index, events, kernelVars, tableVars, acceptVars,
                       wpc, wjob, wslot, replies, keepalive, envVars>>
    BY <1>6 DEF SweepJobs
  <2> QED
    BY <2>2, <2>3
<1>7. CASE EpollWait
  BY <1>7 DEF EpollWait
<1>8. CASE EventDel
  BY <1>8 DEF EventDel, Unwatch
<1>9. CASE EventsOver
  BY <1>9 DEF EventsOver
<1>10. CASE EventMatch
  BY <1>10 DEF EventMatch, get_matched_event_index_by_fd
<1>11. CASE EventRecv
  <2>1. jobs' \in Seq(Jobs)
    BY <1>11 DEF EventRecv, Open, Jobs
  <2> QED
    BY <1>11, <2>1 DEF EventRecv
<1>12. CASE EventRecvFails
  <2>1. /\ slotFd' \in [Slots -> Fds \cup {-1}]
        /\ \A k \in Slots : slotFd'[k] = IF k = event_index THEN -1 ELSE slotFd[k]
    BY <1>12, FreeTypes DEF EventRecvFails
  <2> QED
    BY <1>12, <2>1 DEF EventRecvFails
<1>13. CASE EventUnknown
  <2> DEFINE i == get_matched_event_index_by_fd(fd_temp)
  <2>1. i \in Slots \cup {-1}
    BY DEF get_matched_event_index_by_fd
  <2>2. /\ slotFd' \in [Slots -> Fds \cup {-1}]
        /\ \A k \in Slots : slotFd'[k] = IF k = i THEN -1 ELSE slotFd[k]
    BY <1>13, <2>1, FreeTypes DEF EventUnknown
  <2> QED
    BY <1>13, <2>2 DEF EventUnknown, CountUnknown
<1>14. CASE EventLost
  BY <1>14 DEF EventLost
<1>15. CASE EventClose
  BY <1>15 DEF EventClose, CloseEvent
<1>16. CASE LeaveLoop
  BY <1>16 DEF LeaveLoop
<1>17. CASE Join
  <2>1. jobs' \in Seq(Jobs)
    BY <1>17 DEF Join
  <2> QED
    BY <1>17, <2>1 DEF Join
<1> QED
  BY <1>1, <1>2, <1>3, <1>4, <1>5, <1>6, <1>7, <1>8, <1>9, <1>10, <1>11, <1>12, <1>13,
     <1>14, <1>15, <1>16, <1>17 DEF MainThread

LEMMA WorkerTypes ==
  ASSUME TypeInv, NEW w \in Workers, Worker(w)
  PROVE  TypeInv'
<1> USE ScanFinds, NoFd DEF TypeInv, TypeOK, Locals, Accepting, Holding, Sweeping, Busy,
            kernelVars, tableVars, acceptVars, mainVars, poolVars, envVars,
            closesocket, connect_total_count_opration, Go
<1>1. CASE TakeJob(w)
  <2>1. Head(jobs) \in Jobs /\ Tail(jobs) \in Seq(Jobs)
    BY <1>1 DEF TakeJob
  <2> QED
    BY <1>1, <2>1 DEF TakeJob, PopJob
<1>2. CASE Send(w)
  <2>1. CASE wjob[w].fd \in Open
    <3>1. wjob[w].conn \in Conns /\ fdConn[wjob[w].fd] \in Conns
      <4>1. wjob[w] \in Jobs
        BY <1>2 DEF Send
      <4>2. wjob[w].conn \in Conns /\ wjob[w].fd \in Fds
        BY <4>1 DEF Jobs
      <4>3. fdConn[wjob[w].fd] # NoConn
        BY <2>1 DEF Open
      <4> QED
        BY <4>2, <4>3
    <3>2. replies' \in [Conns \X Conns -> Nat]
      BY <1>2, <2>1, <3>1 DEF Send
    <3>3. /\ wpc[w] = "send" /\ wpc' = [wpc EXCEPT ![w] = "match"]
          /\ UNCHANGED <<jobs, wjob, wslot, keepalive, kernelVars, tableVars, total, acceptVars,
                         mainVars, envVars, undisturbed>>
      BY <1>2 DEF Send
    <3> QED
      BY <3>2, <3>3
  <2>2. CASE wjob[w].fd \notin Open
    BY <1>2, <2>2 DEF Send
  <2> QED
    BY <2>1, <2>2
<1>3. CASE MatchSlot(w)
  BY <1>3 DEF MatchSlot, get_matched_event_index_by_fd
<1>4. CASE CountDown(w)
  BY <1>4 DEF CountDown
<1>5. CASE FreeSlot(w)
  <2>1. /\ slotFd' \in [Slots -> Fds \cup {-1}]
        /\ \A k \in Slots : slotFd'[k] = IF k = wslot[w] THEN -1 ELSE slotFd[k]
    BY <1>5, FreeTypes DEF FreeSlot, FreeOwnSlot
  <2> QED
    BY <1>5, <2>1 DEF FreeSlot
<1>6. CASE CloseConn(w)
  <2>1. /\ wpc' \in [Workers -> {"idle", "send", "match", "count", "free", "close", "exited"}]
        /\ wpc'[w] \in {"idle", "exited"} /\ \A x \in Workers \ {w} : wpc'[x] = wpc[x]
    BY <1>6 DEF CloseConn
  <2>2. /\ wjob' \in [Workers -> Jobs \cup {<<>>}]
        /\ \A x \in Workers \ {w} : wjob'[x] = wjob[x]
    BY <1>6 DEF CloseConn
  <2>3. /\ fdConn' \in [Fds -> Conns \cup {NoConn}] /\ registered' \subseteq Fds
        /\ UNCHANGED <<jobs, wslot, replies, keepalive, tableVars, total, acceptVars,
                       mainVars, envVars, undisturbed>>
    BY <1>6 DEF CloseConn
  <2>4. TypeOK'
    BY <2>1, <2>2, <2>3
  <2>5. Locals'
    BY <2>1, <2>2, <2>3
  <2> QED
    BY <2>4, <2>5
<1>7. CASE Leave(w)
  BY <1>7 DEF Leave
<1> QED
  BY <1>1, <1>2, <1>3, <1>4, <1>5, <1>6, <1>7 DEF Worker

LEMMA TypesStep == TypeInv /\ [Next]_vars => TypeInv'
<1> SUFFICES ASSUME TypeInv, [Next]_vars PROVE TypeInv'
  OBVIOUS
<1>1. CASE UNCHANGED vars
  BY <1>1 DEF TypeInv, TypeOK, Locals, Accepting, Holding, Sweeping, Busy, vars,
              kernelVars, tableVars, acceptVars, mainVars, poolVars, envVars
<1> QED
  BY <1>1, EnvironmentTypes, AcceptTypes, MainTypes, WorkerTypes DEF Next, Terminated

(* TypeOK of g_net_update.c and epoll_connect.c: every variable keeps to   *)
(* the values of its C type.                                               *)
THEOREM Types == Spec => []TypeOK
<1>1. Spec => []TypeInv
  BY TypesStart, TypesStep, PTL DEF Spec
<1> QED
  BY <1>1, PTL DEF TypeInv
-----------------------------------------------------------------------------
(* Who holds descriptor f.                                                 *)
AcceptFd(f) == Accepting /\ connect_fd = f
JobFd(f)    == \E i \in DOMAIN jobs : jobs[i].fd = f
WorkerFd(f) == \E w \in Workers : Busy(w) /\ wjob[w].fd = f
Placed(f)   == AcceptFd(f) \/ f \in registered \/ Handling(f) \/ JobFd(f) \/ WorkerFd(f)

(* At most one party holds a descriptor, and until SIGTERM some party      *)
(* holds it exactly while it is open.                                      *)
Apart ==
  \A f \in Fds :
    /\ AcceptFd(f) => /\ f \notin registered \cup events
                      /\ ~Handling(f) /\ ~JobFd(f) /\ ~WorkerFd(f)
    /\ f \in registered \cup events => ~Handling(f) /\ ~JobFd(f) /\ ~WorkerFd(f)
    /\ Handling(f) => ~JobFd(f) /\ ~WorkerFd(f)
    /\ JobFd(f) => ~WorkerFd(f)
    /\ ~exit_flag => (f \in Open <=> Placed(f))

Once ==
  /\ \A i, k \in DOMAIN jobs : jobs[i].fd = jobs[k].fd => i = k
  /\ \A w, x \in Workers : Busy(w) /\ Busy(x) /\ wjob[w].fd = wjob[x].fd => w = x

(* What epoll watches and has reported.  SIGTERM closes sockets behind it. *)
Waiting ==
  /\ registered \subseteq Open
  /\ events \cap Open \subseteq registered
  /\ events \subseteq registered \/ exit_flag
  /\ mpc # "event" /\ ~Holding => events = {}
  /\ mpc = "dropclose" => fd_temp \in registered \/ (exit_flag /\ fd_temp \notin Open)

Own == Apart /\ Once /\ Waiting

(* The sweep, in this step, drops nobody that is not waiting in epoll.     *)
Gentle == (SweepFree => fd_temp \in registered) /\ (SweepJobs => AgedJobs = {})

(* A step that hands no descriptor on and closes none.                     *)
LEMMA OwnFrame ==
  ASSUME Own, \A f \in Fds : (AcceptFd(f)' <=> AcceptFd(f)) /\ (Handling(f)' <=> Handling(f)),
         jobs' = jobs, \A w \in Workers : Busy(w)' <=> Busy(w),
         UNCHANGED <<exit_flag, fdConn, registered, events>>,
         \A w \in Workers : Busy(w) => wjob'[w] = wjob[w],
         (mpc # "event" /\ ~Holding => events = {})',
         (mpc = "dropclose" => fd_temp \in registered \/ (exit_flag /\ fd_temp \notin Open))'
  PROVE  Own'
<1>1. (\A f \in Fds : JobFd(f)' <=> JobFd(f)) /\ Open' = Open
  BY DEF JobFd, Open
<1>2. \A f \in Fds : WorkerFd(f)' <=> WorkerFd(f)
  BY DEF WorkerFd
<1>3. Apart'
  BY <1>1, <1>2 DEF Own, Apart, Placed
<1>4. Once'
  BY DEF Own, Once
<1> QED
  BY <1>1, <1>3, <1>4 DEF Own, Waiting

(* What closing a descriptor leaves of the open ones.                      *)
LEMMA CloseOpen ==
  ASSUME TypeInv, NEW f \in Fds, closesocket(f)
  PROVE  /\ Open' = Open \ {f} /\ registered' = registered \ {f}
         /\ \A g \in Fds : fdConn'[g] = IF g = f THEN NoConn ELSE fdConn[g]
BY DEF closesocket, TypeInv, TypeOK, Open

(* accept opens a descriptor that was closed.                              *)
LEMMA AcceptOpens ==
  ASSUME TypeInv, Accept
  PROVE  /\ connect_fd' \in Fds \ Open
         /\ Open' = Open \cup {connect_fd'} /\ registered' = registered
         /\ \E c \in Conns \ accepted :
              /\ accepted' = accepted \cup {c}
              /\ \A f \in Fds : fdConn'[f] = IF f = connect_fd' THEN c ELSE fdConn[f]
<1>1. connect_fd' \in Fds \ Open
  <2>1. connect_fd' = Lowest(Fds \ Open) /\ connect_fd' # -1
    BY DEF Accept
  <2>2. Lowest({}) = -1
    BY DEF Lowest
  <2> QED
    BY <2>1, <2>2, ScanFinds
<1>2. PICK c \in Conns \ accepted : /\ accepted' = accepted \cup {c}
                                   /\ fdConn' = [fdConn EXCEPT ![connect_fd'] = c]
  BY DEF Accept
<1>3. \A f \in Fds : fdConn'[f] = IF f = connect_fd' THEN c ELSE fdConn[f]
  BY <1>2 DEF TypeInv, TypeOK
<1>4. c # NoConn /\ registered' = registered
  BY DEF Accept
<1> QED
  BY <1>1, <1>2, <1>3, <1>4 DEF Open

LEMMA OwnEnvironment ==
  ASSUME TypeInv, Own, Environment
  PROVE  Own'
<1> USE DEF kernelVars, tableVars, acceptVars, mainVars, poolVars, envVars
<1>1. CASE Tick \/ Ask
  <2>1. UNCHANGED <<exit_flag, fdConn, registered, events, jobs, wjob, wpc, mpc, fd_temp,
                    apc, connect_fd>>
    BY <1>1 DEF Tick, Ask
  <2> QED
    BY <2>1, OwnFrame DEF AcceptFd, Accepting, Handling, Busy, Own, Waiting, Holding, Open
<1>2. CASE Sigterm
  <2>1. UNCHANGED <<events, jobs, wjob, wpc, mpc, fd_temp, apc, connect_fd>> /\ exit_flag'
    BY <1>2 DEF Sigterm
  <2>2. PICK closed : /\ Open' = Open \ closed /\ registered' = registered \ closed
    BY <1>2 DEF Sigterm, Open, TypeInv, TypeOK
  <2>3. \A f \in Fds : (AcceptFd(f)' <=> AcceptFd(f)) /\ (Handling(f)' <=> Handling(f))
                       /\ (JobFd(f)' <=> JobFd(f)) /\ (WorkerFd(f)' <=> WorkerFd(f))
    BY <2>1 DEF AcceptFd, Accepting, Handling, JobFd, WorkerFd, Busy
  <2>4. Apart'
    BY <2>1, <2>2, <2>3 DEF Own, Apart
  <2>5. Once'
    BY <2>1 DEF Own, Once, Busy
  <2>6. Waiting'
    BY <2>1, <2>2 DEF Own, Waiting, Holding
  <2> QED
    BY <2>4, <2>5, <2>6 DEF Own
<1> QED
  BY <1>1, <1>2 DEF Environment

LEMMA OwnAccept ==
  ASSUME TypeInv, Own, Accept \/ AcceptThread
  PROVE  Own'
<1> USE DEF kernelVars, tableVars, acceptVars, mainVars, poolVars, envVars, AcceptAt
<1>1. UNCHANGED <<exit_flag, events, jobs, wjob, wpc, mpc, fd_temp>>
  BY DEF Accept, AcceptThread, AcceptCap, AcceptFails, FindSlot, Refuse, InitSlot,
         EpollAdd, EpollAddFails, CountUp
<1>2. \A f \in Fds : (Handling(f)' <=> Handling(f)) /\ (JobFd(f)' <=> JobFd(f))
                     /\ (WorkerFd(f)' <=> WorkerFd(f))
  BY <1>1 DEF Handling, JobFd, WorkerFd, Busy
<1>3. Once' /\ (Holding' <=> Holding)
  BY <1>1 DEF Own, Once, Busy, Holding
<1>4. CASE Accept
  <2>1. connect_fd' \in Fds \ Open
    BY <1>4, AcceptOpens
  <2>2. Open' = Open \cup {connect_fd'} /\ registered' = registered
    BY <1>4, AcceptOpens
  <2>3. \A f \in Fds : ~AcceptFd(f) /\ (AcceptFd(f)' <=> f = connect_fd')
    BY <1>4 DEF Accept, AcceptFd, Accepting
  <2>4. ~exit_flag
    BY <1>4 DEF Accept
  <2>5. connect_fd' \notin registered \cup events /\ ~Placed(connect_fd')
    BY <2>1, <2>4 DEF Own, Waiting, Apart
  <2>6. Apart'
    BY <1>1, <1>2, <2>1, <2>2, <2>3, <2>4, <2>5 DEF Own, Apart, Placed
  <2>7. Waiting'
    BY <1>1, <1>3, <2>2, <2>4 DEF Own, Waiting
  <2> QED
    BY <1>3, <2>6, <2>7 DEF Own
<1>5. CASE AcceptCap \/ AcceptFails \/ FindSlot \/ InitSlot \/ CountUp
  <2>1. UNCHANGED <<fdConn, registered>>
    BY <1>5 DEF AcceptCap, AcceptFails, FindSlot, InitSlot, CountUp
  <2>2. \A f \in Fds : AcceptFd(f)' <=> AcceptFd(f)
    BY <1>5 DEF AcceptCap, AcceptFails, FindSlot, InitSlot, CountUp, AcceptFd, Accepting
  <2> QED
    BY <1>1, <1>2, <1>3, <2>1, <2>2, OwnFrame DEF Busy, Own, Waiting, Open
<1>6. CASE Refuse \/ EpollAddFails
  <2>1. connect_fd \in Fds /\ closesocket(connect_fd) /\ AcceptFd(connect_fd)
    BY <1>6 DEF Refuse, EpollAddFails, GiveUp, TypeInv, TypeOK, Locals, Accepting, AcceptFd
  <2>2. \A f \in Fds : ~AcceptFd(f)' /\ (AcceptFd(f) => f = connect_fd)
    BY <1>6 DEF Refuse, EpollAddFails, AcceptFd, Accepting
  <2>3. Open' = Open \ {connect_fd} /\ registered' = registered
    BY <2>1, CloseOpen DEF Own, Apart
  <2>4. Apart'
    BY <1>1, <1>2, <2>1, <2>2, <2>3 DEF Own, Apart, Placed
  <2>5. Waiting'
    BY <1>1, <1>3, <2>1, <2>3 DEF Own, Waiting, Apart
  <2> QED
    BY <1>3, <2>4, <2>5 DEF Own
<1>7. CASE EpollAdd
  <2>1. connect_fd \in Open /\ connect_fd \in Fds /\ AcceptFd(connect_fd)
    BY <1>7 DEF EpollAdd, AcceptFd, Accepting, Open
  <2>2. \A f \in Fds : ~AcceptFd(f)' /\ (AcceptFd(f) => f = connect_fd)
    BY <1>7 DEF EpollAdd, AcceptFd, Accepting
  <2>3. Open' = Open /\ registered' = registered \cup {connect_fd}
    BY <1>7 DEF EpollAdd, Open
  <2>4. Apart'
    BY <1>1, <1>2, <2>1, <2>2, <2>3 DEF Own, Apart, Placed
  <2>5. Waiting'
    BY <1>1, <1>3, <2>1, <2>3 DEF Own, Waiting, Apart
  <2> QED
    BY <1>3, <2>4, <2>5 DEF Own
<1> QED
  BY <1>4, <1>5, <1>6, <1>7 DEF AcceptThread

LEMMA OwnMain ==
  ASSUME TypeInv, Own, MainThread, Gentle
  PROVE  Own'
<1> USE DEF kernelVars, tableVars, acceptVars, mainVars, poolVars, envVars
<1>1. UNCHANGED <<exit_flag, apc, connect_fd, wpc, wjob>>
  BY DEF MainThread, LoopTop, SweepRead, SweepAge, SweepFree, SweepClose, SweepJobs,
         EpollWait, EventDel, EventsOver, EventMatch, EventRecv, EventRecvFails,
         EventUnknown, EventLost, EventClose, LeaveLoop, Join
<1>2. \A f \in Fds : (AcceptFd(f)' <=> AcceptFd(f)) /\ (WorkerFd(f)' <=> WorkerFd(f))
  BY <1>1 DEF AcceptFd, Accepting, WorkerFd, Busy
<1>3. (\A w \in Workers : Busy(w)' <=> Busy(w)) /\ \A w \in Workers : wjob'[w] = wjob[w]
  BY <1>1 DEF Busy
<1>4. CASE \/ LoopTop \/ SweepRead \/ SweepAge \/ SweepFree \/ EventsOver \/ EventMatch
           \/ EventRecvFails \/ EventUnknown \/ EventLost \/ LeaveLoop
  <2>1. UNCHANGED <<fdConn, registered, jobs, events>>
    BY <1>4 DEF LoopTop, SweepRead, SweepAge, SweepFree, EventsOver, EventMatch,
                EventRecvFails, EventUnknown, EventLost, LeaveLoop
  <2>2. \A f \in Fds : Handling(f)' <=> Handling(f)
    <3>1. CASE SweepRead \/ SweepAge \/ LoopTop
      BY <3>1 DEF SweepRead, SweepAge, LoopTop, AtLoopTop, Handling
    <3>2. CASE \/ SweepFree \/ EventsOver \/ EventMatch \/ EventRecvFails
               \/ EventUnknown \/ EventLost \/ LeaveLoop
      BY <3>2 DEF SweepFree, EventsOver, EventMatch, EventRecvFails, EventUnknown,
                  EventLost, LeaveLoop, Handling
    <3> QED
      BY <1>4, <3>1, <3>2
  <2>3. (mpc # "event" /\ ~Holding => events = {})'
    <3>1. mpc' # "event" /\ ~Holding' => EventsOver \/ (mpc # "event" /\ ~Holding)
      BY <1>4 DEF LoopTop, AtLoopTop, SweepRead, SweepAge, SweepFree, EventsOver,
            EventMatch, EventRecvFails, EventUnknown, EventLost, LeaveLoop, Holding
    <3>2. EventsOver => events = {}
      BY DEF EventsOver
    <3> QED
      BY <2>1, <3>1, <3>2 DEF Own, Waiting
  <2>4. mpc' = "dropclose" => SweepFree /\ fd_temp' = fd_temp
    BY <1>4 DEF LoopTop, SweepRead, SweepAge, SweepFree, EventsOver, EventMatch,
                EventRecvFails, EventUnknown, EventLost, LeaveLoop
  <2>5. (mpc = "dropclose" => fd_temp \in registered \/ (exit_flag /\ fd_temp \notin Open))'
    BY <2>1, <2>4 DEF Gentle
  <2> QED
    BY <1>1, <1>2, <1>3, <2>1, <2>2, <2>3, <2>5, OwnFrame
<1>5. CASE SweepClose
  <2>1. /\ fd_temp \in Fds /\ closesocket(fd_temp) /\ mpc = "dropclose" /\ mpc' = "sweep"
        /\ UNCHANGED <<jobs, events>>
    BY <1>5 DEF SweepClose, TypeInv, TypeOK, Locals, Sweeping
  <2>2. Open' = Open \ {fd_temp} /\ registered' = registered \ {fd_temp}
    BY <2>1, CloseOpen
  <2>3. \A f \in Fds : ~Handling(f) /\ ~Handling(f)' /\ (JobFd(f)' <=> JobFd(f))
    BY <2>1 DEF Handling, JobFd
  <2>4. events = {}
    BY <2>1 DEF Own, Waiting, Holding
  <2>5. Apart'
    BY <1>1, <1>2, <2>1, <2>2, <2>3, <2>4 DEF Own, Apart, Placed, Waiting
  <2>6. Once'
    BY <1>3, <2>1 DEF Own, Once
  <2>7. Waiting'
    BY <2>1, <2>2, <2>4 DEF Own, Waiting
  <2> QED
    BY <2>5, <2>6, <2>7 DEF Own
<1>6. CASE SweepJobs
  <2>1. AgedJobs = {} /\ Cardinality({}) = 0 /\ Len(jobs) \in Nat
    BY <1>6, FS_EmptySet DEF Gentle, TypeInv, TypeOK
  <2>2. jobs' = jobs
    BY <1>6, <2>1 DEF SweepJobs, TypeInv, TypeOK
  <2>3. UNCHANGED <<fdConn, registered, events>> /\ mpc = "sweep" /\ mpc' = "wait"
    BY <1>6 DEF SweepJobs
  <2> QED
    BY <1>1, <1>2, <1>3, <2>2, <2>3, OwnFrame DEF Handling, Holding, Own, Waiting
<1>7. CASE EpollWait
  <2>1. /\ UNCHANGED <<fdConn, registered, jobs>> /\ mpc = "wait" /\ mpc' = "event"
        /\ events' \subseteq registered
    BY <1>7 DEF EpollWait
  <2>2. /\ Open' = Open /\ (Holding' <=> Holding)
        /\ \A f \in Fds : ~Handling(f) /\ ~Handling(f)' /\ (JobFd(f)' <=> JobFd(f))
    BY <2>1 DEF Handling, JobFd, Open, Holding
  <2>3. Apart'
    BY <1>1, <1>2, <2>1, <2>2 DEF Own, Apart, Placed
  <2>4. Once'
    BY <1>3, <2>1 DEF Own, Once
  <2>5. Waiting'
    BY <2>1, <2>2 DEF Own, Waiting
  <2> QED
    BY <2>3, <2>4, <2>5 DEF Own
<1>8. CASE EventDel
  <2>1. PICK f \in events : /\ fd_temp' = f /\ events' = events \ {f}
                            /\ registered' = registered \ {f}
    BY <1>8 DEF EventDel, Unwatch
  <2>2. UNCHANGED <<fdConn, jobs>> /\ mpc = "event" /\ mpc' \in {"match", "unknown"}
    BY <1>8 DEF EventDel
  <2>3. /\ Open' = Open /\ Holding' /\ f \in Fds
        /\ \A g \in Fds : ~Handling(g) /\ (Handling(g)' <=> g = f) /\ (JobFd(g)' <=> JobFd(g))
    BY <2>1, <2>2 DEF Handling, JobFd, Open, Holding, TypeInv, TypeOK
  <2>4. ~AcceptFd(f) /\ ~JobFd(f) /\ ~WorkerFd(f)
    BY <2>3 DEF Own, Apart
  <2>5. Apart'
    BY <1>1, <1>2, <2>1, <2>3, <2>4 DEF Own, Apart, Placed, Waiting
  <2>6. Once'
    BY <1>3, <2>2 DEF Own, Once
  <2>7. Waiting'
    BY <1>1, <2>1, <2>2, <2>3 DEF Own, Waiting
  <2> QED
    BY <2>5, <2>6, <2>7 DEF Own
<1>9. CASE EventRecv
  <2>1. /\ UNCHANGED <<fdConn, registered, events>> /\ mpc = "recv" /\ mpc' = "event"
        /\ fd_temp \in Fds /\ Handling(fd_temp)
    BY <1>9 DEF EventRecv, Open, Handling
  <2>2. /\ Len(jobs') = Len(jobs) + 1 /\ Len(jobs) \in Nat
        /\ DOMAIN jobs = 1 .. Len(jobs) /\ DOMAIN jobs' = 1 .. Len(jobs')
        /\ jobs'[Len(jobs')].fd = fd_temp /\ \A i \in DOMAIN jobs : jobs'[i] = jobs[i]
    BY <1>9 DEF EventRecv, TypeInv, TypeOK
  <2>3. /\ Open' = Open
        /\ \A g \in Fds : (Handling(g) => g = fd_temp) /\ ~Handling(g)'
    BY <2>1 DEF Handling, Open
  <2>4. \A g \in Fds : JobFd(g)' <=> JobFd(g) \/ g = fd_temp
    BY <2>2 DEF JobFd
  <2>5. Apart'
    BY <1>1, <1>2, <2>1, <2>3, <2>4 DEF Own, Apart, Placed
  <2>6. ~JobFd(fd_temp)
    BY <2>1 DEF Own, Apart
  <2>7. Once'
    BY <1>3, <2>2, <2>6 DEF Own, Once, JobFd
  <2>8. Waiting'
    BY <1>1, <2>1, <2>3 DEF Own, Waiting
  <2> QED
    BY <2>5, <2>7, <2>8 DEF Own
<1>10. CASE EventClose
  <2>1. /\ fd_temp \in Fds /\ closesocket(fd_temp) /\ mpc = "close" /\ mpc' = "event"
        /\ UNCHANGED <<jobs, events>> /\ Handling(fd_temp)
    BY <1>10 DEF EventClose, CloseEvent, TypeInv, TypeOK, Locals, Holding, Handling
  <2>2. Open' = Open \ {fd_temp} /\ registered' = registered \ {fd_temp}
    BY <2>1, CloseOpen
  <2>3. \A f \in Fds : (Handling(f) => f = fd_temp) /\ ~Handling(f)' /\ (JobFd(f)' <=> JobFd(f))
    BY <2>1 DEF Handling, JobFd
  <2>4. Apart'
    BY <1>1, <1>2, <2>1, <2>2, <2>3 DEF Own, Apart, Placed
  <2>5. Once'
    BY <1>3, <2>1 DEF Own, Once
  <2>6. Waiting'
    BY <1>1, <2>1, <2>2 DEF Own, Waiting, Apart
  <2> QED
    BY <2>4, <2>5, <2>6 DEF Own
<1>11. CASE Join
  <2>1. /\ UNCHANGED <<fdConn, registered, events>> /\ mpc = "join" /\ mpc' = "done"
        /\ jobs' = <<>> /\ exit_flag
    BY <1>11 DEF Join, TypeInv, Locals
  <2>2. /\ Open' = Open /\ (Holding' <=> Holding)
        /\ \A f \in Fds : ~Handling(f) /\ ~Handling(f)' /\ ~JobFd(f)'
    BY <2>1 DEF Handling, JobFd, Open, Holding
  <2>3. Apart'
    BY <1>1, <1>2, <2>1, <2>2 DEF Own, Apart
  <2>4. Once'
    BY <1>3, <2>1 DEF Own, Once
  <2>5. Waiting'
    BY <1>1, <2>1, <2>2 DEF Own, Waiting
  <2> QED
    BY <2>3, <2>4, <2>5 DEF Own
<1> QED
  BY <1>4, <1>5, <1>6, <1>7, <1>8, <1>9, <1>10, <1>11 DEF MainThread

LEMMA OwnWorker ==
  ASSUME TypeInv, Own, NEW w \in Workers, Worker(w)
  PROVE  Own'
<1> USE DEF kernelVars, tableVars, acceptVars, mainVars, poolVars, envVars
<1>1. UNCHANGED <<exit_flag, apc, connect_fd, mpc, fd_temp, events>>
  BY DEF Worker, TakeJob, Send, MatchSlot, CountDown, FreeSlot, CloseConn, Leave
<1>2. (Holding' <=> Holding)
      /\ \A f \in Fds : (AcceptFd(f)' <=> AcceptFd(f)) /\ (Handling(f)' <=> Handling(f))
  BY <1>1 DEF AcceptFd, Accepting, Handling, Holding
<1>3. CASE TakeJob(w)
  <2> DEFINE f == jobs[1].fd
  <2>1. UNCHANGED <<fdConn, registered>> /\ Open' = Open
    BY <1>3 DEF TakeJob, Open
  <2>2. /\ Len(jobs) \in Nat \ {0} /\ Len(jobs') = Len(jobs) - 1
        /\ DOMAIN jobs = 1 .. Len(jobs) /\ DOMAIN jobs' = 1 .. Len(jobs')
        /\ \A i \in DOMAIN jobs' : i + 1 \in DOMAIN jobs /\ jobs'[i] = jobs[i + 1]
        /\ \A i \in DOMAIN jobs : i = 1 \/ i - 1 \in DOMAIN jobs'
    BY <1>3 DEF TakeJob, PopJob, TypeInv, TypeOK
  <2>3. /\ ~Busy(w) /\ Busy(w)' /\ wjob'[w].fd = f
        /\ \A x \in Workers \ {w} : (Busy(x)' <=> Busy(x)) /\ wjob'[x] = wjob[x]
    BY <1>3 DEF TakeJob, Go, Busy, TypeInv, TypeOK
  <2>4. f \in Fds /\ JobFd(f)
    <3>1. 1 \in DOMAIN jobs /\ jobs[1] \in Jobs
      BY <2>2 DEF TypeInv, TypeOK
    <3> QED
      BY <3>1 DEF Jobs, JobFd
  <2>5. \A i \in DOMAIN jobs' : jobs'[i].fd # f
    <3>1. \A i \in DOMAIN jobs' : i + 1 \in DOMAIN jobs /\ i + 1 # 1 /\ 1 \in DOMAIN jobs
      BY <2>2
    <3> QED
      BY <2>2, <3>1 DEF Own, Once
  <2>6. \A g \in Fds : JobFd(g)' <=> JobFd(g) /\ g # f
    <3>1. \A g \in Fds : JobFd(g)' => JobFd(g) /\ g # f
      BY <2>2, <2>5 DEF JobFd
    <3>2. ASSUME NEW g \in Fds, JobFd(g), g # f PROVE JobFd(g)'
      <4>1. PICK i \in DOMAIN jobs : jobs[i].fd = g
        BY <3>2 DEF JobFd
      <4>2. i # 1 /\ i - 1 \in DOMAIN jobs' /\ jobs'[i - 1] = jobs[i]
        BY <2>2, <3>2, <4>1
      <4> QED
        BY <4>1, <4>2 DEF JobFd
    <3> QED
      BY <3>1, <3>2
  <2>7. \A g \in Fds : WorkerFd(g)' <=> WorkerFd(g) \/ g = f
    BY <2>3 DEF WorkerFd
  <2>8. ~WorkerFd(f)
    BY <2>4 DEF Own, Apart
  <2> HIDE DEF f
  <2>9. Apart'
    BY <1>1, <1>2, <2>1, <2>4, <2>6, <2>7 DEF Own, Apart, Placed
  <2>10. Once'
    <3>1. \A i, k \in DOMAIN jobs' : jobs'[i].fd = jobs'[k].fd => i + 1 = k + 1
      BY <2>2 DEF Own, Once
    <3>3. \A i, k \in DOMAIN jobs' : i + 1 = k + 1 => i = k
      BY <2>2
    <3>2. \A x, y \in Workers : Busy(x)' /\ Busy(y)' /\ wjob'[x].fd = wjob'[y].fd => x = y
      BY <2>3, <2>8 DEF Own, Once, WorkerFd
    <3> QED
      BY <3>1, <3>2, <3>3 DEF Once
  <2>11. Waiting'
    BY <1>1, <1>2, <2>1 DEF Own, Waiting
  <2> QED
    BY <2>9, <2>10, <2>11 DEF Own
<1>4. CASE Send(w) \/ MatchSlot(w) \/ CountDown(w) \/ FreeSlot(w) \/ Leave(w)
  <2>1. UNCHANGED <<fdConn, registered, jobs, wjob>>
    BY <1>4 DEF Send, MatchSlot, CountDown, FreeSlot, Leave
  <2>2. \A x \in Workers : Busy(x)' <=> Busy(x)
    BY <1>4 DEF Send, MatchSlot, CountDown, FreeSlot, Leave, Go, Busy, TypeInv, TypeOK
  <2> QED
    BY <1>1, <1>2, <2>1, <2>2, OwnFrame DEF Own, Waiting, Open
<1>5. CASE CloseConn(w)
  <2> DEFINE f == wjob[w].fd
  <2>1. f \in Fds /\ closesocket(f) /\ Busy(w) /\ jobs' = jobs
    BY <1>5 DEF CloseConn, Busy, TypeInv, Locals, Jobs
  <2>2. Open' = Open \ {f} /\ registered' = registered \ {f}
    BY <2>1, CloseOpen
  <2>3. ~Busy(w)' /\ \A x \in Workers \ {w} : (Busy(x)' <=> Busy(x)) /\ wjob'[x] = wjob[x]
    BY <1>5 DEF CloseConn, Go, Busy, TypeInv, TypeOK
  <2>4. WorkerFd(f) /\ \A x \in Workers \ {w} : Busy(x) => wjob[x].fd # f
    BY <2>1 DEF WorkerFd, Own, Once
  <2>5. \A g \in Fds : (JobFd(g)' <=> JobFd(g)) /\ (WorkerFd(g)' <=> WorkerFd(g) /\ g # f)
    BY <2>1, <2>3, <2>4 DEF JobFd, WorkerFd
  <2> HIDE DEF f
  <2>6. Apart'
    BY <1>1, <1>2, <2>1, <2>2, <2>4, <2>5 DEF Own, Apart, Placed
  <2>7. Once'
    BY <2>1, <2>3 DEF Own, Once
  <2>8. Waiting'
    BY <1>1, <1>2, <2>1, <2>2, <2>4 DEF Own, Waiting, Apart
  <2> QED
    BY <2>6, <2>7, <2>8 DEF Own
<1> QED
  BY <1>3, <1>4, <1>5 DEF Worker

LEMMA OwnStart == Init => Own
<1> SUFFICES ASSUME Init PROVE Own
  OBVIOUS
<1>1. Open = {} /\ registered = {} /\ events = {} /\ DOMAIN jobs = {}
  BY DEF Init, Open
<1>2. \A w \in Workers : ~Busy(w)
  BY DEF Init, Busy
<1>3. apc = "cap" /\ mpc = "loop"
  BY DEF Init
<1>4. \A f \in Fds : ~AcceptFd(f) /\ ~Handling(f) /\ ~JobFd(f) /\ ~WorkerFd(f)
  BY <1>1, <1>2, <1>3 DEF AcceptFd, Accepting, Handling, JobFd, WorkerFd
<1> QED
  BY <1>1, <1>2, <1>3, <1>4 DEF Own, Apart, Placed, Once, Waiting

LEMMA OwnStep ==
  ASSUME TypeInv, Own, [Next]_vars, Gentle
  PROVE  Own'
<1>1. CASE UNCHANGED vars
  <2>1. UNCHANGED <<exit_flag, fdConn, registered, events, jobs, wjob, wpc, mpc, fd_temp,
                    apc, connect_fd>>
    BY <1>1 DEF vars, kernelVars, acceptVars, mainVars, poolVars, envVars
  <2> QED
    BY <2>1, OwnFrame DEF AcceptFd, Accepting, Handling, Busy, Own, Waiting, Holding, Open
<1> QED
  BY <1>1, OwnEnvironment, OwnAccept, OwnMain, OwnWorker DEF Next, Terminated

(* While undisturbed still holds no step has dropped a live connection.    *)
LEMMA StaysGentle ==
  ASSUME TypeInv, [Next]_vars, undisturbed'
  PROVE  undisturbed /\ Gentle
<1> USE DEF kernelVars, tableVars, acceptVars, mainVars, poolVars, envVars
<1>1. ASSUME SweepFree PROVE undisturbed /\ fd_temp \in registered
  BY <1>1 DEF SweepFree
<1>2. ASSUME SweepJobs PROVE undisturbed /\ AgedJobs = {}
  <2>1. Cardinality(AgedJobs) = 0 /\ undisturbed
    BY <1>2 DEF SweepJobs
  <2>2. AgedJobs \subseteq 1 .. Len(jobs) /\ Len(jobs) \in Nat
    BY DEF AgedJobs, TypeInv, TypeOK
  <2>3. IsFiniteSet(AgedJobs)
    <3>1. IsFiniteSet(1 .. Len(jobs))
      BY <2>2, FS_Interval
    <3> QED
      BY <2>2, <3>1, FS_Subset
  <2> QED
    BY <2>1, <2>3, FS_EmptySet
<1> SUFFICES undisturbed
  BY <1>1, <1>2 DEF Gentle
<1>3. CASE Environment \/ UNCHANGED vars
  BY <1>3 DEF Environment, Tick, Ask, Sigterm, vars
<1>4. CASE Accept \/ AcceptThread
  BY <1>4 DEF Accept, AcceptThread, AcceptCap, AcceptFails, FindSlot, Refuse, InitSlot,
              EpollAdd, EpollAddFails, CountUp
<1>5. CASE MainThread
  BY <1>1, <1>2, <1>5
     DEF MainThread, LoopTop, SweepRead, SweepAge, SweepClose, EpollWait, EventDel,
         EventsOver, EventMatch, EventRecv, EventRecvFails, EventUnknown, EventLost,
         EventClose, LeaveLoop, Join
<1>6. CASE \E w \in Workers : Worker(w)
  BY <1>6 DEF Worker, TakeJob, Send, MatchSlot, CountDown, FreeSlot, CloseConn, Leave
<1> QED
  BY <1>3, <1>4, <1>5, <1>6 DEF Next, Terminated

LEMMA OwnHolds == Spec => [](TypeInv /\ (undisturbed => Own))
<1>1. Init => TypeInv /\ (undisturbed => Own)
  BY TypesStart, OwnStart
<1>2. TypeInv /\ (undisturbed => Own) /\ [Next]_vars => (TypeInv /\ (undisturbed => Own))'
  BY TypesStep, OwnStep, StaysGentle
<1> QED
  BY <1>1, <1>2, PTL DEF Spec

(* A set with at most one member, which it has exactly when P.             *)
LEMMA AtMostOne ==
  ASSUME NEW S, NEW P, P \in BOOLEAN, P <=> S # {}, \A x, y \in S : x = y
  PROVE  Cardinality(S) = One(P) /\ IsFiniteSet(S)
<1>1. CASE S = {}
  BY <1>1, FS_EmptySet DEF One
<1>2. CASE S # {}
  <2>1. PICK x \in S : S = {x}
    BY <1>2
  <2> QED
    BY <1>2, <2>1, FS_Singleton DEF One
<1> QED
  BY <1>1, <1>2

(* Nothing is closed twice, nothing leaks: of every open descriptor there  *)
(* is exactly one party that will close it, of a closed one none.          *)
THEOREM Ownership == Spec => []OneOwner
<1>1. ASSUME TypeInv, Calm => Own PROVE OneOwner
  <2> SUFFICES ASSUME Calm, NEW f \in Fds
               PROVE  Owners(f) = One(f \in Open)
    BY DEF OneOwner
  <2>1. Own
    BY <1>1
  <2>2. Cardinality(JobsOn(f)) = One(JobFd(f))
    <3>1. (JobFd(f) <=> JobsOn(f) # {}) /\ JobFd(f) \in BOOLEAN
      BY DEF JobFd, JobsOn
    <3>2. \A i, k \in JobsOn(f) : i = k
      BY <2>1 DEF JobsOn, Own, Once
    <3> QED
      BY <3>1, <3>2, AtMostOne
  <2>3. Cardinality(WorkersOn(f)) = One(WorkerFd(f))
    <3>1. (WorkerFd(f) <=> WorkersOn(f) # {}) /\ WorkerFd(f) \in BOOLEAN
      BY DEF WorkerFd, WorkersOn, Busy
    <3>2. \A w, x \in WorkersOn(f) : w = x
      BY <2>1 DEF WorkersOn, Own, Once, Busy
    <3> QED
      BY <3>1, <3>2, AtMostOne
  <2>4. Owners(f) = One(AcceptFd(f)) + One(f \in registered) + One(Handling(f))
                      + One(JobFd(f)) + One(WorkerFd(f))
    BY <2>2, <2>3 DEF Owners, AcceptFd, Accepting
  <2>5. /\ f \in Open <=> AcceptFd(f) \/ f \in registered \/ Handling(f) \/ JobFd(f) \/ WorkerFd(f)
        /\ AcceptFd(f) => f \notin registered /\ ~Handling(f) /\ ~JobFd(f) /\ ~WorkerFd(f)
        /\ f \in registered => ~Handling(f) /\ ~JobFd(f) /\ ~WorkerFd(f)
        /\ Handling(f) => ~JobFd(f) /\ ~WorkerFd(f)
        /\ JobFd(f) => ~WorkerFd(f)
    BY <2>1 DEF Own, Apart, Placed, Calm
  <2> QED
    BY <2>4, <2>5 DEF One
<1> QED
  BY <1>1, OwnHolds, PTL DEF Calm

-----------------------------------------------------------------------------
(* What is left of the room under the cap: every connection counted, about *)
(* to be counted, or counted down and not yet closed, is an open one.      *)
Freed  == {w \in Workers : wpc[w] \in {"free", "close"}}
Coming == Accepting /\ connect_fd \in Open

Cap ==
  ~exit_flag =>
    total + One(apc = "count") + One(mpc = "close") + Cardinality(Freed) + One(Coming)
      <= Cardinality(Open)

LEMMA FiniteParts ==
  ASSUME TypeOK, NEW S, S \in SUBSET Fds \/ S \in SUBSET Workers
  PROVE  /\ IsFiniteSet(S) /\ Cardinality(S) \in Nat
         /\ \A x : /\ Cardinality(S \cup {x}) = Cardinality(S) + One(x \notin S)
                   /\ Cardinality(S \ {x}) = Cardinality(S) - One(x \in S)
<1>1. IsFiniteSet(Fds) /\ IsFiniteSet(Workers)
  BY FS_Interval DEF Fds
<1>2. IsFiniteSet(S)
  BY <1>1, FS_Subset
<1> QED
  BY <1>2, FS_AddElement, FS_RemoveElement, FS_CardinalityType DEF One

LEMMA CapStep == TypeInv /\ Cap /\ [Next]_vars => Cap'
<1> SUFFICES ASSUME TypeInv, Cap, [Next]_vars, ~exit_flag'
             PROVE  Cap'
  BY DEF Cap
<1> USE DEF kernelVars, tableVars, acceptVars, mainVars, poolVars, envVars, AcceptAt,
            connect_total_count_opration
<1>1. TypeOK /\ Open \subseteq Fds /\ Freed \subseteq Workers /\ total \in Int
  BY DEF TypeInv, TypeOK, Open, Freed
<1>2. /\ Cardinality(Open) \in Nat /\ Cardinality(Freed) \in Nat
      /\ \A x : /\ Cardinality(Open \cup {x}) = Cardinality(Open) + One(x \notin Open)
                /\ Cardinality(Open \ {x}) = Cardinality(Open) - One(x \in Open)
                /\ Cardinality(Freed \cup {x}) = Cardinality(Freed) + One(x \notin Freed)
                /\ Cardinality(Freed \ {x}) = Cardinality(Freed) - One(x \in Freed)
  BY <1>1, FiniteParts
<1>3. {One(apc = "count"), One(mpc = "close"), One(Coming), One(apc' = "count"),
       One(mpc' = "close"), One(Coming')} \subseteq Int
  BY DEF One
<1>4. CASE UNCHANGED vars
  BY <1>4 DEF vars, Cap, Freed, Coming, Accepting, Open
<1>5. CASE Environment
  <2>1. ~exit_flag /\ UNCHANGED <<fdConn, total, apc, connect_fd, mpc, wpc>>
    BY <1>5 DEF Environment, Tick, Ask, Sigterm
  <2> QED
    BY <2>1 DEF Cap, Freed, Coming, Accepting, Open
<1>6. CASE Accept \/ AcceptThread
  <2>1. ~exit_flag /\ UNCHANGED <<mpc, wpc>>
    BY <1>6 DEF Accept, AcceptThread, AcceptCap, AcceptFails, FindSlot, Refuse,
                InitSlot, EpollAdd, EpollAddFails, CountUp
  <2>2. Freed' = Freed
    BY <2>1 DEF Freed
  <2>3. CASE Accept
    <3>1. connect_fd' \in Fds \ Open /\ Open' = Open \cup {connect_fd'}
      BY <2>3, AcceptOpens
    <3>2. UNCHANGED total /\ ~Coming /\ apc # "count" /\ apc' # "count"
      BY <2>3 DEF Accept, Coming, Accepting
    <3>3. Cardinality(Open') = Cardinality(Open) + 1
      BY <1>2, <3>1 DEF One
    <3> QED
      BY <1>1, <1>2, <1>3, <2>1, <2>2, <3>2, <3>3 DEF Cap, One
  <2>4. CASE AcceptCap \/ AcceptFails \/ FindSlot \/ InitSlot \/ EpollAdd \/ CountUp
    <3>1. Open' = Open
      BY <2>4 DEF AcceptCap, AcceptFails, FindSlot, InitSlot, EpollAdd, CountUp, Open
    <3>2. total' + One(apc' = "count") + One(Coming') = total + One(apc = "count") + One(Coming)
      BY <1>1, <2>4, <3>1 DEF AcceptCap, AcceptFails, FindSlot, InitSlot, EpollAdd, CountUp,
                              One, Coming, Accepting
    <3>3. total' \in Int
      BY <1>1, <2>4 DEF AcceptCap, AcceptFails, FindSlot, InitSlot, EpollAdd, CountUp
    <3> QED
      BY <1>1, <1>2, <1>3, <2>1, <2>2, <3>1, <3>2, <3>3 DEF Cap
  <2>5. CASE Refuse \/ EpollAddFails
    <3>1. connect_fd \in Fds /\ closesocket(connect_fd)
      BY <2>5 DEF Refuse, EpollAddFails, GiveUp, TypeInv, TypeOK, Locals, Accepting
    <3>2. Open' = Open \ {connect_fd}
      BY <3>1, CloseOpen
    <3>3. /\ UNCHANGED total /\ ~Coming' /\ (Coming <=> connect_fd \in Open)
          /\ apc # "count" /\ apc' # "count"
      BY <2>5 DEF Refuse, EpollAddFails, GiveUp, Coming, Accepting
    <3>4. Cardinality(Open') = Cardinality(Open) - One(connect_fd \in Open)
      BY <1>2, <3>2
    <3> QED
      BY <1>1, <1>2, <1>3, <2>1, <2>2, <3>3, <3>4 DEF Cap, One
  <2> QED
    BY <1>6, <2>3, <2>4, <2>5 DEF AcceptThread
<1>7. CASE MainThread
  <2>1. ~exit_flag /\ UNCHANGED <<apc, connect_fd, wpc>>
    BY <1>7 DEF MainThread, LoopTop, SweepRead, SweepAge, SweepFree, SweepClose, SweepJobs,
           EpollWait, EventDel, EventsOver, EventMatch, EventRecv, EventRecvFails,
           EventUnknown, EventLost, EventClose, LeaveLoop, Join
  <2>2. Freed' = Freed
    BY <2>1 DEF Freed
  <2>3. CASE SweepClose \/ EventClose
    <3>1. fd_temp \in Fds /\ closesocket(fd_temp)
      BY <2>3 DEF SweepClose, EventClose, CloseEvent, TypeInv, TypeOK, Locals, Sweeping, Holding
    <3>2. Open' = Open \ {fd_temp}
      BY <3>1, CloseOpen
    <3>3. One(Coming') <= One(Coming)
      BY <2>1, <3>2 DEF Coming, Accepting, One
    <3>4. total' + One(mpc' = "close") = total + One(mpc = "close") - 1 /\ total' \in Int
      BY <1>1, <2>3 DEF SweepClose, EventClose, One
    <3>5. Cardinality(Open') >= Cardinality(Open) - 1 /\ Cardinality(Open') \in Int
      BY <1>2, <3>2 DEF One
    <3> QED
      BY <1>1, <1>2, <1>3, <2>1, <2>2, <3>3, <3>4, <3>5 DEF Cap
  <2>4. CASE ~(SweepClose \/ EventClose)
    <3>1. Open' = Open
      BY <1>7, <2>4
         DEF MainThread, LoopTop, SweepRead, SweepAge, SweepFree, SweepJobs,
             EpollWait, EventDel, EventsOver, EventMatch, EventRecv, EventRecvFails,
             EventUnknown, EventLost, LeaveLoop, Join, Open
    <3>2. Cardinality(AgedJobs) \in Nat
      BY <1>1, AgedJobsCount DEF TypeOK
    <3>3. total' + One(mpc' = "close") <= total + One(mpc = "close") /\ total' \in Int
      BY <1>1, <1>7, <2>4, <3>2
         DEF MainThread, LoopTop, SweepRead, SweepAge, SweepFree, SweepJobs,
             EpollWait, EventDel, EventsOver, EventMatch, EventRecv, EventRecvFails,
             EventUnknown, EventLost, LeaveLoop, Join, CountUnknown, One
    <3>4. One(Coming') = One(Coming)
      BY <2>1, <3>1 DEF Coming, Accepting
    <3> QED
      BY <1>1, <1>2, <1>3, <2>1, <2>2, <3>1, <3>3, <3>4 DEF Cap
  <2> QED
    BY <2>3, <2>4
<1>8. CASE \E w \in Workers : Worker(w)
  <2> PICK w \in Workers : Worker(w)
    BY <1>8
  <2>1. ~exit_flag /\ UNCHANGED <<apc, connect_fd, mpc>>
    BY DEF Worker, TakeJob, Send, MatchSlot, CountDown, FreeSlot, CloseConn, Leave
  <2>2. CASE CloseConn(w)
    <3>1. wjob[w].fd \in Fds /\ closesocket(wjob[w].fd) /\ UNCHANGED total
      BY <2>2 DEF CloseConn, TypeInv, Locals, Busy, Jobs
    <3>2. Open' = Open \ {wjob[w].fd}
      BY <3>1, CloseOpen
    <3>3. Coming' => Coming
      BY <2>1, <3>2 DEF Coming, Accepting
    <3>4. w \in Freed /\ Freed' = Freed \ {w}
      BY <2>2 DEF CloseConn, Go, Freed, TypeInv, TypeOK
    <3>5. Cardinality(Freed') = Cardinality(Freed) - 1
      BY <1>2, <3>4 DEF One
    <3>6. Cardinality(Open') >= Cardinality(Open) - 1 /\ Cardinality(Open') \in Int
      BY <1>2, <3>2 DEF One
    <3> QED
      BY <1>1, <1>2, <1>3, <2>1, <3>1, <3>3, <3>5, <3>6 DEF Cap, One
  <2>3. CASE CountDown(w)
    <3>1. Open' = Open /\ total' = total - 1
      BY <2>3 DEF CountDown, Open
    <3>2. Freed' = Freed \cup {w}
      BY <2>3 DEF CountDown, Go, Freed, TypeInv, TypeOK
    <3>3. Cardinality(Freed') <= Cardinality(Freed) + 1 /\ Cardinality(Freed') \in Int
      BY <1>2, <3>2 DEF One
    <3>4. Coming' <=> Coming
      BY <2>1, <3>1 DEF Coming, Accepting
    <3> QED
      BY <1>1, <1>2, <1>3, <2>1, <3>1, <3>3, <3>4 DEF Cap, One
  <2>4. CASE TakeJob(w) \/ Send(w) \/ MatchSlot(w) \/ FreeSlot(w) \/ Leave(w)
    <3>1. Open' = Open /\ UNCHANGED total
      BY <2>4 DEF TakeJob, Send, MatchSlot, FreeSlot, Leave, Open
    <3>2. Freed' = Freed
      BY <2>4 DEF TakeJob, Send, MatchSlot, FreeSlot, Leave, Go, Freed, TypeInv, TypeOK
    <3>3. Coming' <=> Coming
      BY <2>1, <3>1 DEF Coming, Accepting
    <3> QED
      BY <2>1, <3>1, <3>2, <3>3 DEF Cap, One
  <2> QED
    BY <2>2, <2>3, <2>4 DEF Worker
<1> QED
  BY <1>4, <1>5, <1>6, <1>7, <1>8 DEF Next, Terminated

(* The counter the accept thread compares with the cap never exceeds the   *)
(* number of open connections, in spite of every failure and of the sweep. *)
THEOREM CapLeavesRoom == Spec => []CapNeverStarves
<1>1. Init => Cap
  <2> SUFFICES ASSUME Init PROVE Cap
    OBVIOUS
  <2>1. Open = {} /\ Freed = {} /\ ~Coming
    BY DEF Init, Open, Freed, Coming, Accepting
  <2> QED
    BY <2>1, FS_EmptySet DEF Init, Cap, One
<1>2. TypeInv /\ Cap => CapNeverStarves
  <2> SUFFICES ASSUME TypeInv, Cap, ~exit_flag PROVE total <= Cardinality(Open)
    BY DEF CapNeverStarves
  <2>1. Cardinality(Freed) \in Nat /\ Cardinality(Open) \in Nat /\ total \in Int
    BY FiniteParts DEF TypeInv, TypeOK, Open, Freed
  <2> QED
    BY <2>1 DEF Cap, One
<1> QED
  BY <1>1, <1>2, CapStep, TypesStart, TypesStep, PTL DEF Spec

-----------------------------------------------------------------------------
(* The counter, in a step of a server whose connections are all where      *)
(* Own says and that no signal has stopped.                                *)
Reading == mpc \in {"match", "recv", "lost", "unknown"}
Answering == {w \in Workers : wpc[w] \in {"send", "match", "count"}}

CountInv == total + One(apc = "count") = Counted

(* Before SIGTERM, and while undisturbed: no step undoes either.          *)
LEMMA StaysCalm ==
  ASSUME TypeInv, [Next]_vars, Calm'
  PROVE  Calm /\ Gentle
<1> USE DEF kernelVars, tableVars, acceptVars, mainVars, poolVars, envVars
<1>1. undisturbed /\ Gentle
  BY StaysGentle DEF Calm
<1> SUFFICES ~exit_flag
  BY <1>1 DEF Calm
<1>2. CASE Environment \/ UNCHANGED vars
  BY <1>2 DEF Environment, Tick, Ask, Sigterm, vars, Calm
<1>3. CASE Accept \/ AcceptThread
  BY <1>3 DEF Accept, AcceptThread, AcceptCap, AcceptFails, FindSlot, Refuse, InitSlot,
              EpollAdd, EpollAddFails, CountUp, Calm
<1>4. CASE MainThread
  BY <1>4 DEF MainThread, LoopTop, SweepRead, SweepAge, SweepFree, SweepClose, SweepJobs,
     EpollWait, EventDel, EventsOver, EventMatch, EventRecv, EventRecvFails, EventUnknown,
     EventLost, EventClose, LeaveLoop, Join, Calm
<1>5. CASE \E w \in Workers : Worker(w)
  BY <1>5 DEF Worker, TakeJob, Send, MatchSlot, CountDown, FreeSlot, CloseConn, Leave, Calm
<1> QED
  BY <1>2, <1>3, <1>4, <1>5 DEF Next, Terminated

LEMMA CountStep ==
  ASSUME TypeInv, Own, CountInv, [Next]_vars, Calm'
  PROVE  CountInv'
<1> USE DEF kernelVars, tableVars, acceptVars, mainVars, poolVars, envVars, AcceptAt,
            connect_total_count_opration
<1>1. TypeOK /\ registered \subseteq Fds /\ Answering \subseteq Workers /\ total \in Int
      /\ Len(jobs) \in Nat
  BY DEF TypeInv, TypeOK, Answering
<1>2. /\ Cardinality(registered) \in Nat /\ Cardinality(Answering) \in Nat
      /\ \A x : /\ Cardinality(registered \cup {x}) = Cardinality(registered) + One(x \notin registered)
                /\ Cardinality(registered \ {x}) = Cardinality(registered) - One(x \in registered)
                /\ Cardinality(Answering \cup {x}) = Cardinality(Answering) + One(x \notin Answering)
                /\ Cardinality(Answering \ {x}) = Cardinality(Answering) - One(x \in Answering)
  BY <1>1, FiniteParts
<1>3. {One(apc = "count"), One(Reading), One(apc' = "count"), One(Reading'), total, Len(jobs),
       Cardinality(registered), Cardinality(Answering)} \subseteq Int
  BY <1>1, <1>2 DEF One
<1>4. Counted = Cardinality(registered) + One(Reading) + Len(jobs) + Cardinality(Answering)
  BY DEF Counted, Reading, Answering
<1>5. Counted' = Cardinality(registered') + One(Reading') + Len(jobs') + Cardinality(Answering')
  BY DEF Counted, Reading, Answering
<1>6. ~exit_flag /\ Gentle
  BY StaysCalm DEF Calm
<1>7. CASE Environment \/ UNCHANGED vars
  <2>1. UNCHANGED <<registered, total, apc, mpc, jobs, wpc>>
    BY <1>6, <1>7 DEF Calm, Environment, Tick, Ask, Sigterm, vars
  <2> QED
    BY <2>1 DEF CountInv, Counted
<1>8. CASE Accept \/ AcceptThread
  <2>1. UNCHANGED <<mpc, jobs, wpc>>
    BY <1>8 DEF Accept, AcceptThread, AcceptCap, AcceptFails, FindSlot, Refuse,
                InitSlot, EpollAdd, EpollAddFails, CountUp
  <2>2. One(Reading') = One(Reading) /\ Answering' = Answering /\ jobs' = jobs
    BY <2>1 DEF Reading, Answering
  <2>3. CASE Accept \/ AcceptCap \/ AcceptFails \/ FindSlot \/ InitSlot \/ CountUp
    <3>1. total' + One(apc' = "count") = total + One(apc = "count")
      BY <1>1, <2>3 DEF Accept, AcceptCap, AcceptFails, FindSlot, InitSlot, CountUp, One
    <3>2. registered' = registered
      BY <2>3 DEF Accept, AcceptCap, AcceptFails, FindSlot, InitSlot, CountUp
    <3> QED
      BY <2>1, <3>1, <3>2 DEF CountInv, Counted
  <2>4. CASE Refuse
    <3>1. AcceptFd(connect_fd) /\ connect_fd \in Fds
      BY <2>4 DEF Refuse, AcceptFd, Accepting, TypeInv, TypeOK, Locals
    <3>2. registered' = registered
      BY <2>4, <3>1 DEF Refuse, closesocket, Own, Apart
    <3>3. total' + One(apc' = "count") = total + One(apc = "count")
      BY <2>4 DEF Refuse, One
    <3> QED
      BY <2>1, <3>2, <3>3 DEF CountInv, Counted
  <2>5. CASE EpollAdd
    <3>1. AcceptFd(connect_fd) /\ connect_fd \in Fds
      BY <2>5 DEF EpollAdd, AcceptFd, Accepting, Open
    <3>2. registered' = registered \cup {connect_fd} /\ connect_fd \notin registered
      BY <2>5, <3>1 DEF EpollAdd, Own, Apart
    <3>3. Cardinality(registered') = Cardinality(registered) + 1
      BY <1>2, <3>2 DEF One
    <3>4. total' + One(apc' = "count") = total + One(apc = "count") + 1
      BY <1>1, <2>5 DEF EpollAdd, One
    <3> QED
      BY <1>3, <1>4, <1>5, <2>2, <3>3, <3>4 DEF CountInv
  <2> QED
    BY <1>8, <2>3, <2>4, <2>5 DEF AcceptThread, EpollAddFails, Calm
<1>9. CASE MainThread
  <2>1. UNCHANGED <<apc, wpc>>
    BY <1>9 DEF MainThread, LoopTop, SweepRead, SweepAge, SweepFree, SweepClose, SweepJobs,
           EpollWait, EventDel, EventsOver, EventMatch, EventRecv, EventRecvFails,
           EventUnknown, EventLost, EventClose, LeaveLoop, Join
  <2>2. Answering' = Answering /\ One(apc' = "count") = One(apc = "count")
    BY <2>1 DEF Answering
  <2>3. CASE LoopTop \/ SweepRead \/ SweepAge \/ SweepFree \/ EpollWait \/ EventsOver
             \/ EventMatch \/ LeaveLoop
    <3>1. UNCHANGED <<registered, total, jobs>>
      BY <2>3 DEF LoopTop, SweepRead, SweepAge, SweepFree, EpollWait, EventsOver,
                  EventMatch, LeaveLoop
    <3>2. Reading' <=> Reading
      BY <2>3 DEF LoopTop, AtLoopTop, SweepRead, SweepAge, SweepFree, EpollWait, EventsOver,
                  EventMatch, LeaveLoop, Reading
    <3> QED
      BY <1>4, <1>5, <2>1, <2>2, <3>1, <3>2 DEF CountInv
  <2>4. CASE SweepClose
    <3>1. fd_temp \in registered /\ ~Reading /\ ~Reading'
      BY <1>6, <2>4 DEF SweepClose, Own, Waiting, Reading
    <3>2. registered' = registered \ {fd_temp} /\ total' = total - 1 /\ jobs' = jobs
      BY <2>4 DEF SweepClose, closesocket
    <3>3. Cardinality(registered') = Cardinality(registered) - 1 /\ One(Reading') = One(Reading)
      BY <1>2, <3>1, <3>2 DEF One
    <3>4. Counted' = Counted - 1
      BY <1>3, <1>4, <1>5, <2>2, <3>2, <3>3
    <3> QED
      BY <1>3, <2>2, <3>2, <3>4 DEF CountInv
  <2>5. CASE SweepJobs
    <3>1. AgedJobs = {} /\ Cardinality({}) = 0
      BY <1>6, <2>5, FS_EmptySet DEF Gentle
    <3>2. jobs' = jobs /\ total' = total /\ registered' = registered /\ (Reading' <=> Reading)
      BY <1>1, <2>5, <3>1 DEF SweepJobs, Reading, TypeOK
    <3> QED
      BY <1>4, <1>5, <2>1, <2>2, <3>2 DEF CountInv
  <2>6. CASE EventDel
    <3>1. PICK f \in events : registered' = registered \ {f}
      BY <2>6 DEF EventDel, Unwatch
    <3>2. f \in registered
      BY <1>6 DEF Own, Waiting, EventDel
    <3>3. UNCHANGED <<total, jobs>> /\ One(Reading) = 0 /\ One(Reading') = 1
      BY <2>6 DEF EventDel, Reading, One
    <3>4. Cardinality(registered') = Cardinality(registered) - 1
      BY <1>2, <3>1, <3>2 DEF One
    <3> QED
      BY <1>3, <1>4, <1>5, <2>2, <3>3, <3>4 DEF CountInv
  <2>7. CASE EventRecv
    <3>1. UNCHANGED <<registered, total>> /\ Len(jobs') = Len(jobs) + 1
      BY <2>7 DEF EventRecv, TypeInv, TypeOK
    <3>2. One(Reading) = 1 /\ One(Reading') = 0
      BY <2>7 DEF EventRecv, Reading, One
    <3> QED
      BY <1>3, <1>4, <1>5, <2>2, <3>1, <3>2 DEF CountInv
  <2>8. CASE EventRecvFails \/ EventUnknown \/ EventLost
    <3>1. UNCHANGED <<registered, jobs>> /\ total' = total - 1
      BY <2>8 DEF EventRecvFails, EventUnknown, EventLost, CountUnknown
    <3>2. One(Reading) = 1 /\ One(Reading') = 0
      BY <2>8 DEF EventRecvFails, EventUnknown, EventLost, Reading, One
    <3> QED
      BY <1>3, <1>4, <1>5, <2>2, <3>1, <3>2 DEF CountInv
  <2>9. CASE EventClose
    <3>1. Handling(fd_temp) /\ fd_temp \in Fds
      BY <2>9 DEF EventClose, Handling, TypeInv, TypeOK, Locals, Holding
    <3>2. registered' = registered
      BY <2>9, <3>1 DEF EventClose, CloseEvent, closesocket, Own, Apart
    <3>3. UNCHANGED <<total, jobs>> /\ One(Reading') = One(Reading)
      BY <2>9 DEF EventClose, Reading
    <3> QED
      BY <1>4, <1>5, <2>2, <3>2, <3>3 DEF CountInv
  <2>10. CASE Join
    BY <1>6, <2>10 DEF Join, TypeInv, Locals
  <2> QED
    BY <1>9, <2>3, <2>4, <2>5, <2>6, <2>7, <2>8, <2>9, <2>10 DEF MainThread
<1>10. CASE \E w \in Workers : Worker(w)
  <2> PICK w \in Workers : Worker(w)
    BY <1>10
  <2>1. UNCHANGED <<apc, mpc>>
    BY DEF Worker, TakeJob, Send, MatchSlot, CountDown, FreeSlot, CloseConn, Leave
  <2>6. One(Reading') = One(Reading) /\ One(apc' = "count") = One(apc = "count")
    BY <2>1 DEF Reading
  <2>2. CASE TakeJob(w)
    <3>1. UNCHANGED <<registered, total>> /\ Len(jobs') = Len(jobs) - 1
      BY <2>2 DEF TakeJob, PopJob, TypeInv, TypeOK
    <3>2. w \notin Answering /\ Answering' = Answering \cup {w}
      BY <2>2 DEF TakeJob, Go, Answering, TypeInv, TypeOK
    <3>3. Cardinality(Answering') = Cardinality(Answering) + 1
      BY <1>2, <3>2 DEF One
    <3> QED
      BY <1>3, <1>4, <1>5, <2>6, <3>1, <3>3 DEF CountInv
  <2>3. CASE CountDown(w)
    <3>1. UNCHANGED <<registered, jobs>> /\ total' = total - 1
      BY <2>3 DEF CountDown
    <3>2. w \in Answering /\ Answering' = Answering \ {w}
      BY <2>3 DEF CountDown, Go, Answering, TypeInv, TypeOK
    <3>3. Cardinality(Answering') = Cardinality(Answering) - 1
      BY <1>2, <3>2 DEF One
    <3> QED
      BY <1>3, <1>4, <1>5, <2>6, <3>1, <3>3 DEF CountInv
  <2>4. CASE Send(w) \/ MatchSlot(w) \/ FreeSlot(w) \/ Leave(w)
    <3>1. UNCHANGED <<registered, jobs, total>> /\ Answering' = Answering
      BY <2>4 DEF Send, MatchSlot, FreeSlot, Leave, Go, Answering, TypeInv, TypeOK
    <3> QED
      BY <1>4, <1>5, <2>1, <3>1 DEF CountInv, Reading
  <2>5. CASE CloseConn(w)
    <3>1. WorkerFd(wjob[w].fd) /\ wjob[w].fd \in Fds
      BY <2>5 DEF CloseConn, WorkerFd, Busy, TypeInv, Locals, Jobs
    <3>2. UNCHANGED <<registered, jobs, total>> /\ Answering' = Answering
      BY <2>5, <3>1 DEF CloseConn, closesocket, Go, Own, Apart, Answering, TypeInv, TypeOK
    <3> QED
      BY <1>4, <1>5, <2>1, <3>2 DEF CountInv, Reading
  <2> QED
    BY <2>2, <2>3, <2>4, <2>5 DEF Worker
<1> QED
  BY <1>7, <1>8, <1>9, <1>10 DEF Next, Terminated

-----------------------------------------------------------------------------
(* The table, of a server whose connections are all where Own says.  A     *)
(* connection is missing from it only before its slot is filled or after   *)
(* it has been freed.                                                      *)
InHand(f) == apc \in {"slot", "init"} /\ connect_fd = f

Table ==
  /\ \A f \in Fds : (\E i \in Slots : slotFd[i] = f)
                      <=> f \in Open /\ ~Closing(f) /\ ~InHand(f)
  /\ \A i, k \in Slots : slotFd[i] # -1 /\ slotFd[i] = slotFd[k] => i = k

(* The indices that workers and main have found still name that slot.      *)
Found ==
  /\ \A w \in Workers : wpc[w] \in {"count", "free"} =>
       wslot[w] \in Slots /\ slotFd[wslot[w]] = wjob[w].fd
  /\ mpc = "recv" => event_index \in Slots /\ slotFd[event_index] = fd_temp
  /\ mpc # "lost"

Listed == Table /\ Found

(* Who is in the way of nobody: a descriptor that a job's worker has not   *)
(* closed, or main is handling, is in the table.                           *)
LEMMA HeldIsListed ==
  ASSUME TypeInv, Own, Listed, ~exit_flag, NEW f \in Fds,
         \/ mpc \in {"match", "unknown"} /\ fd_temp = f
         \/ \E w \in Workers : wpc[w] \in {"send", "match"} /\ wjob[w].fd = f
  PROVE  get_matched_event_index_by_fd(f) \in Slots
         /\ slotFd[get_matched_event_index_by_fd(f)] = f
<1>1. Handling(f) \/ WorkerFd(f)
  BY DEF Handling, WorkerFd, Busy
<1>2. f \in Open /\ ~InHand(f) /\ f \notin registered
  BY <1>1 DEF Own, Apart, Placed, InHand, AcceptFd, Accepting
<1>3. ~(mpc \in {"close", "dropclose"} /\ fd_temp = f)
  <2>1. CASE mpc = "dropclose"
    BY <1>2, <2>1 DEF Own, Waiting
  <2>2. CASE mpc = "close" /\ fd_temp = f
    BY <2>2 DEF Own, Apart, Handling, WorkerFd, Busy
  <2> QED
    BY <2>1, <2>2
<1>4. \A w \in Workers : wpc[w] = "close" => wjob[w].fd # f
  BY <1>1 DEF Own, Apart, Once, Handling, WorkerFd, Busy
<1>5. ~Closing(f)
  BY <1>3, <1>4 DEF Closing, WorkersOn
<1>6. {i \in Slots : slotFd[i] = f} # {}
  BY <1>2, <1>5 DEF Listed, Table
<1> QED
  BY <1>6, ScanFinds DEF get_matched_event_index_by_fd

(* Freeing a slot whose connection is about to be closed.                  *)
LEMMA TableFree ==
  ASSUME TypeInv, Table, NEW i \in Slots, slotFd[i] # -1, free_event_by_index(i),
         UNCHANGED <<fdConn, apc, connect_fd>>,
         \A f \in Fds : Closing(f)' <=> Closing(f) \/ f = slotFd[i]
  PROVE  Table'
<1>1. \A k \in Slots : slotFd'[k] = IF k = i THEN -1 ELSE slotFd[k]
  BY FreeTypes DEF TypeInv
<1>2. Open' = Open /\ Open \subseteq Fds /\ \A f \in Fds : InHand(f)' <=> InHand(f)
  BY DEF Open, InHand
<1>3. slotFd[i] \in Fds
  BY DEF TypeInv, TypeOK
<1>4. ASSUME NEW f \in Fds
      PROVE  (\E k \in Slots : slotFd'[k] = f) <=> (\E k \in Slots : slotFd[k] = f) /\ f # slotFd[i]
  BY <1>1, NoFd DEF Table
<1>5. \A k, m \in Slots : slotFd'[k] # -1 /\ slotFd'[k] = slotFd'[m] => k = m
  BY <1>1 DEF Table
<1> QED
  BY <1>2, <1>4, <1>5 DEF Table

(* A close of a connection whose slot is empty already.                    *)
LEMMA TableClose ==
  ASSUME TypeInv, Table, NEW f \in Fds, Closing(f) \/ InHand(f), closesocket(f), slotFd' = slotFd,
         \A g \in Fds \ {f} : (Closing(g)' <=> Closing(g)) /\ (InHand(g)' <=> InHand(g))
  PROVE  Table'
<1>1. Open' = Open \ {f}
  BY CloseOpen
<1> QED
  BY <1>1 DEF Table

(* A step that neither fills nor frees a slot, opens nor closes a socket.  *)
LEMMA TableFrame ==
  ASSUME Table, UNCHANGED <<slotFd, fdConn>>,
         \A f \in Fds : (Closing(f)' <=> Closing(f)) /\ (InHand(f)' <=> InHand(f))
  PROVE  Table'
BY DEF Table, Open

LEMMA ListedAccept ==
  ASSUME TypeInv, Own, Listed, Accept \/ AcceptThread, Calm, Calm'
  PROVE  Listed'
<1> USE DEF kernelVars, tableVars, acceptVars, mainVars, poolVars, envVars, AcceptAt
<1>1. UNCHANGED <<mpc, fd_temp, event_index, wpc, wjob, wslot, exit_flag>>
  BY DEF Accept, AcceptThread, AcceptCap, AcceptFails, FindSlot, Refuse, InitSlot,
         EpollAdd, EpollAddFails, CountUp
<1>8. ~exit_flag
  BY DEF Calm
<1>2. \A f \in Fds : Closing(f)' <=> Closing(f)
  BY <1>1 DEF Closing, WorkersOn
<1>3. ASSUME slotFd' = slotFd PROVE Found'
  BY <1>1, <1>3 DEF Listed, Found
<1>4. CASE Accept
  <2>1. connect_fd' \in Fds \ Open /\ Open' = Open \cup {connect_fd'} /\ slotFd' = slotFd
    BY <1>4, AcceptOpens DEF Accept
  <2>2. \A f \in Fds : ~InHand(f) /\ (InHand(f)' <=> f = connect_fd')
    BY <1>4 DEF Accept, InHand
  <2>3. Table'
    BY <1>2, <2>1, <2>2 DEF Listed, Table
  <2> QED
    BY <1>3, <2>1, <2>3 DEF Listed
<1>5. CASE AcceptCap \/ AcceptFails \/ FindSlot \/ EpollAdd \/ CountUp
  <2>1. /\ UNCHANGED <<slotFd, fdConn>>
        /\ \A f \in Fds : InHand(f)' <=> InHand(f)
    BY <1>5 DEF AcceptCap, AcceptFails, FindSlot, EpollAdd, CountUp, InHand
  <2> QED
    BY <1>2, <1>3, <2>1, TableFrame DEF Listed
<1>6. CASE Refuse
  <2>1. connect_fd \in Fds /\ closesocket(connect_fd) /\ slotFd' = slotFd
    BY <1>6 DEF Refuse, TypeInv, TypeOK, Locals, Accepting
  <2>2. InHand(connect_fd) /\ \A f \in Fds \ {connect_fd} : InHand(f)' <=> InHand(f)
    BY <1>6 DEF Refuse, InHand
  <2> QED
    BY <1>2, <1>3, <2>1, <2>2, TableClose DEF Listed
<1>7. CASE InitSlot
  <2>1. /\ free_index \in Slots /\ slotFd[free_index] = -1 /\ connect_fd \in Fds
        /\ AcceptFd(connect_fd)
    BY <1>7 DEF InitSlot, TypeInv, TypeOK, Locals, Accepting, AcceptFd
  <2>2. \A i \in Slots : slotFd'[i] = IF i = free_index THEN connect_fd ELSE slotFd[i]
    BY <1>7 DEF InitSlot, TypeInv, TypeOK
  <2>3. Open' = Open /\ \A f \in Fds : (InHand(f) <=> f = connect_fd) /\ ~InHand(f)'
    BY <1>7 DEF InitSlot, InHand, Open
  <2>4. connect_fd \in Open /\ ~Closing(connect_fd)
    <3>1. connect_fd \in Open /\ connect_fd \notin registered
      BY <1>8, <2>1 DEF Own, Apart, Placed
    <3>2. ~Handling(connect_fd) /\ ~WorkerFd(connect_fd)
      BY <2>1 DEF Own, Apart
    <3> QED
      BY <1>1, <3>1, <3>2 DEF Own, Waiting, Closing, WorkersOn, Handling, WorkerFd, Busy
  <2>5. \A f \in Fds : (\E i \in Slots : slotFd'[i] = f)
                         <=> (\E i \in Slots : slotFd[i] = f) \/ f = connect_fd
    BY <2>1, <2>2, NoFd
  <2>6. \A i, k \in Slots : slotFd'[i] # -1 /\ slotFd'[i] = slotFd'[k] => i = k
    BY <2>1, <2>2, <2>3 DEF Listed, Table
  <2>7. Table'
    BY <1>2, <2>3, <2>4, <2>5, <2>6 DEF Listed, Table
  <2>8. Found'
    <3>1. \A w \in Workers : wpc[w] \in {"count", "free"} => wjob[w].fd # -1
      BY NoFd DEF TypeInv, Locals, Busy, Jobs
    <3>2. mpc = "recv" => fd_temp # -1
      BY DEF TypeInv, Locals, Holding
    <3> QED
      BY <1>1, <2>1, <2>2, <3>1, <3>2 DEF Listed, Found
  <2> QED
    BY <2>7, <2>8 DEF Listed
<1> QED
  BY <1>4, <1>5, <1>6, <1>7 DEF AcceptThread, EpollAddFails, Calm

LEMMA ListedMain ==
  ASSUME TypeInv, Own, Listed, MainThread, Gentle, Calm, Calm'
  PROVE  Listed'
<1> USE DEF kernelVars, tableVars, acceptVars, mainVars, poolVars, envVars
<1>1. UNCHANGED <<apc, connect_fd, wpc, wjob, wslot, exit_flag>>
  BY DEF MainThread, LoopTop, SweepRead, SweepAge, SweepFree, SweepClose, SweepJobs,
         EpollWait, EventDel, EventsOver, EventMatch, EventRecv, EventRecvFails,
         EventUnknown, EventLost, EventClose, LeaveLoop, Join
<1>12. ~exit_flag
  BY DEF Calm
<1>2. \A f \in Fds : InHand(f)' <=> InHand(f)
  BY <1>1 DEF InHand
<1>3. \A f \in Fds : Closing(f) <=> (mpc \in {"close", "dropclose"} /\ fd_temp = f)
                                    \/ \E w \in Workers : wpc[w] = "close" /\ wjob[w].fd = f
  BY DEF Closing, WorkersOn
<1>4. \A f \in Fds : Closing(f)' <=> (mpc' \in {"close", "dropclose"} /\ fd_temp' = f)
                                    \/ \E w \in Workers : wpc[w] = "close" /\ wjob[w].fd = f
  BY <1>1 DEF Closing, WorkersOn
<1>5. CASE LoopTop \/ SweepRead \/ SweepAge \/ SweepJobs \/ EpollWait \/ EventDel
           \/ EventsOver \/ EventMatch \/ EventRecv \/ LeaveLoop \/ Join
  <2>1. UNCHANGED <<slotFd, fdConn>>
    BY <1>5 DEF LoopTop, SweepRead, SweepAge, SweepJobs, EpollWait, EventDel, EventsOver,
                EventMatch, EventRecv, LeaveLoop, Join
  <2>2. mpc \notin {"close", "dropclose"} /\ mpc' \notin {"close", "dropclose"}
    BY <1>5 DEF LoopTop, AtLoopTop, SweepRead, SweepAge, SweepJobs, EpollWait, EventDel,
                EventsOver, EventMatch, EventRecv, LeaveLoop, Join
  <2>3. Table'
    BY <1>2, <1>3, <1>4, <2>1, <2>2, TableFrame DEF Listed
  <2>4. mpc' \in {"recv", "lost"} => EventMatch
    BY <1>5 DEF LoopTop, AtLoopTop, SweepRead, SweepAge, SweepJobs, EpollWait, EventDel,
                EventsOver, EventMatch, EventRecv, LeaveLoop, Join
  <2>5. CASE EventMatch
    <3>1. fd_temp \in Fds /\ mpc = "match" /\ fd_temp' = fd_temp
      BY <2>5 DEF EventMatch, TypeInv, TypeOK, Locals, Holding
    <3>2. event_index' \in Slots /\ slotFd[event_index'] = fd_temp
      BY <1>12, <2>5, <3>1, HeldIsListed DEF EventMatch
    <3>3. mpc' = "recv"
      BY <2>5, <3>2 DEF EventMatch, Slots
    <3> QED
      BY <1>1, <2>1, <2>3, <3>1, <3>2, <3>3 DEF Listed, Found
  <2> QED
    BY <1>1, <2>1, <2>3, <2>4, <2>5 DEF Listed, Found
<1>6. CASE SweepClose \/ EventClose
  <2>1. /\ fd_temp \in Fds /\ closesocket(fd_temp) /\ slotFd' = slotFd
        /\ mpc \in {"close", "dropclose"} /\ mpc' \in {"sweep", "event"}
    BY <1>6 DEF SweepClose, EventClose, CloseEvent, TypeInv, TypeOK, Locals, Sweeping, Holding
  <2>2. Closing(fd_temp) /\ \A f \in Fds \ {fd_temp} : Closing(f)' <=> Closing(f)
    BY <1>3, <1>4, <2>1
  <2>3. Table'
    BY <1>2, <2>1, <2>2, TableClose DEF Listed
  <2> QED
    BY <1>1, <2>1, <2>3 DEF Listed, Found
<1>7. ASSUME SweepFree \/ EventRecvFails \/ EventUnknown, NEW i \in Slots,
             slotFd[i] = fd_temp, fd_temp \in Fds, free_event_by_index(i),
             fd_temp \in registered \/ Handling(fd_temp)
      PROVE  Listed'
  <2>1. /\ UNCHANGED <<fdConn, fd_temp>> /\ mpc \notin {"close", "dropclose"}
        /\ mpc' \in {"close", "dropclose"}
    BY <1>7 DEF SweepFree, EventRecvFails, EventUnknown
  <2>2. \A f \in Fds : Closing(f)' <=> Closing(f) \/ f = slotFd[i]
    BY <1>3, <1>4, <1>7, <2>1
  <2>3. Table'
    BY <1>1, <1>7, <2>1, <2>2, NoFd, TableFree DEF Listed
  <2>4. \A k \in Slots : slotFd'[k] = IF k = i THEN -1 ELSE slotFd[k]
    BY <1>7, FreeTypes DEF TypeInv
  <2>5. ~WorkerFd(fd_temp)
    BY <1>7 DEF Own, Apart
  <2>6. ASSUME NEW w \in Workers, wpc[w] \in {"count", "free"}
        PROVE  wslot[w] \in Slots /\ slotFd'[wslot[w]] = wjob[w].fd
    <3>1. wslot[w] \in Slots /\ slotFd[wslot[w]] = wjob[w].fd
      BY <2>6 DEF Listed, Found
    <3>2. wjob[w].fd # fd_temp
      BY <2>5, <2>6 DEF WorkerFd, Busy
    <3> QED
      BY <1>7, <2>4, <3>1, <3>2
  <2> QED
    BY <1>1, <2>1, <2>3, <2>6 DEF Listed, Found
<1>8. CASE SweepFree
  <2>1. fd_temp \in registered /\ fd_temp \in Fds /\ index \in Slots
    BY <1>8 DEF Gentle, SweepFree, TypeInv, TypeOK, Locals, Sweeping, Slots
  <2>2. slotFd[index] = fd_temp /\ free_event_by_index(index)
    BY <1>8 DEF SweepFree, Calm
  <2> QED
    BY <1>7, <1>8, <2>1, <2>2
<1>9. CASE EventRecvFails
  <2>1. fd_temp \in Fds /\ Handling(fd_temp) /\ event_index \in Slots
        /\ slotFd[event_index] = fd_temp /\ free_event_by_index(event_index)
    BY <1>9 DEF EventRecvFails, TypeInv, TypeOK, Locals, Holding, Handling, Listed, Found
  <2> QED
    BY <1>7, <1>9, <2>1
<1>10. CASE EventUnknown
  <2> DEFINE i == get_matched_event_index_by_fd(fd_temp)
  <2>1. fd_temp \in Fds /\ Handling(fd_temp) /\ mpc = "unknown" /\ free_event_by_index(i)
    BY <1>10 DEF EventUnknown, TypeInv, TypeOK, Locals, Holding, Handling
  <2>2. i \in Slots /\ slotFd[i] = fd_temp
    BY <1>12, <2>1, HeldIsListed
  <2> QED
    BY <1>7, <1>10, <2>1, <2>2
<1>11. CASE EventLost
  BY <1>11 DEF EventLost, Listed, Found
<1> QED
  BY <1>5, <1>6, <1>8, <1>9, <1>10, <1>11 DEF MainThread

LEMMA ListedWorker ==
  ASSUME TypeInv, Own, Listed, NEW w \in Workers, Worker(w), Calm, Calm'
  PROVE  Listed'
<1> USE DEF kernelVars, tableVars, acceptVars, mainVars, poolVars, envVars
<1>1. UNCHANGED <<apc, connect_fd, mpc, fd_temp, event_index, exit_flag>>
  BY DEF Worker, TakeJob, Send, MatchSlot, CountDown, FreeSlot, CloseConn, Leave
<1>12. ~exit_flag
  BY DEF Calm
<1>2. \A f \in Fds : InHand(f)' <=> InHand(f)
  BY <1>1 DEF InHand
<1>3. \A f \in Fds : Closing(f) <=> (mpc \in {"close", "dropclose"} /\ fd_temp = f)
                                    \/ \E x \in Workers : wpc[x] = "close" /\ wjob[x].fd = f
  BY DEF Closing, WorkersOn
<1>4. \A f \in Fds : Closing(f)' <=> (mpc \in {"close", "dropclose"} /\ fd_temp = f)
                                    \/ \E x \in Workers : wpc'[x] = "close" /\ wjob'[x].fd = f
  BY <1>1 DEF Closing, WorkersOn
<1>5. CASE TakeJob(w) \/ Send(w) \/ MatchSlot(w) \/ CountDown(w) \/ Leave(w)
  <2>1. UNCHANGED <<slotFd, fdConn>>
    BY <1>5 DEF TakeJob, Send, MatchSlot, CountDown, Leave
  <2>2. /\ wpc[w] # "close" /\ wpc'[w] # "close"
        /\ \A x \in Workers \ {w} : wpc'[x] = wpc[x] /\ wjob'[x] = wjob[x] /\ wslot'[x] = wslot[x]
    BY <1>5 DEF TakeJob, Send, MatchSlot, CountDown, Leave, Go, TypeInv, TypeOK
  <2>3. Table'
    BY <1>2, <1>3, <1>4, <2>1, <2>2, TableFrame DEF Listed
  <2>4. wpc'[w] \in {"count", "free"} => wslot'[w] \in Slots /\ slotFd[wslot'[w]] = wjob'[w].fd
    <3>1. CASE TakeJob(w) \/ Send(w) \/ Leave(w)
      BY <3>1 DEF TakeJob, Send, Leave, Go, TypeInv, TypeOK
    <3>2. CASE CountDown(w)
      BY <3>2 DEF CountDown, Go, TypeInv, TypeOK, Listed, Found
    <3>3. CASE MatchSlot(w)
      <4>1. wjob[w].fd \in Fds /\ wpc[w] = "match" /\ wjob' = wjob
        BY <3>3 DEF MatchSlot, TypeInv, Locals, Busy, Jobs
      <4>2. wslot'[w] = get_matched_event_index_by_fd(wjob[w].fd)
        BY <3>3 DEF MatchSlot, TypeInv, TypeOK
      <4> QED
        BY <1>12, <4>1, <4>2, HeldIsListed
    <3> QED
      BY <1>5, <3>1, <3>2, <3>3
  <2> QED
    BY <1>1, <2>1, <2>2, <2>3, <2>4 DEF Listed, Found
<1>6. CASE FreeSlot(w)
  <2> DEFINE i == wslot[w]
  <2>1. /\ i \in Slots /\ slotFd[i] = wjob[w].fd /\ wjob[w].fd \in Fds
        /\ free_event_by_index(i)
    BY <1>6 DEF FreeSlot, FreeOwnSlot, Listed, Found, TypeInv, Locals, Busy, Jobs
  <2>2. /\ UNCHANGED <<fdConn, wjob>> /\ wpc[w] # "close" /\ wpc'[w] = "close"
        /\ \A x \in Workers \ {w} : wpc'[x] = wpc[x] /\ wslot'[x] = wslot[x]
    BY <1>6 DEF FreeSlot, Go, TypeInv, TypeOK
  <2>3. \A f \in Fds : Closing(f)' <=> Closing(f) \/ f = slotFd[i]
    BY <1>3, <1>4, <2>1, <2>2
  <2>4. slotFd[i] # -1
    BY <2>1, NoFd
  <2>5. \A k \in Slots : slotFd'[k] = IF k = i THEN -1 ELSE slotFd[k]
    BY <2>1, FreeTypes DEF TypeInv
  <2> HIDE DEF i
  <2>6. Table'
    BY <1>1, <2>1, <2>2, <2>3, <2>4, TableFree DEF Listed
  <2>7. WorkerFd(slotFd[i]) /\ \A x \in Workers \ {w} : Busy(x) => wjob[x].fd # slotFd[i]
    BY <1>6, <2>1 DEF FreeSlot, WorkerFd, Busy, Own, Once
  <2>8. ASSUME NEW x \in Workers, wpc'[x] \in {"count", "free"}
        PROVE  wslot'[x] \in Slots /\ slotFd'[wslot'[x]] = wjob[x].fd
    <3>1. x # w /\ wpc[x] \in {"count", "free"} /\ wslot'[x] = wslot[x]
      BY <2>2, <2>8
    <3>2. wslot[x] \in Slots /\ slotFd[wslot[x]] = wjob[x].fd
      BY <3>1 DEF Listed, Found
    <3>3. wjob[x].fd # slotFd[i]
      BY <2>7, <3>1 DEF Busy
    <3> QED
      BY <2>5, <3>1, <3>2, <3>3
  <2>9. mpc = "recv" => event_index \in Slots /\ slotFd'[event_index] = fd_temp
    <3> SUFFICES ASSUME mpc = "recv" PROVE event_index \in Slots /\ slotFd'[event_index] = fd_temp
      OBVIOUS
    <3>1. event_index \in Slots /\ slotFd[event_index] = fd_temp
      BY DEF Listed, Found
    <3>2. fd_temp # slotFd[i]
      BY <2>1, <2>7 DEF Own, Apart, Handling
    <3> QED
      BY <2>5, <3>1, <3>2
  <2> QED
    BY <1>1, <2>2, <2>6, <2>8, <2>9 DEF Listed, Found
<1>7. CASE CloseConn(w)
  <2> DEFINE f == wjob[w].fd
  <2>1. f \in Fds /\ closesocket(f) /\ UNCHANGED <<slotFd, wslot>> /\ wpc[w] = "close"
    BY <1>7 DEF CloseConn, TypeInv, Locals, Busy, Jobs
  <2>2. /\ wpc'[w] \in {"idle", "exited"}
        /\ \A x \in Workers \ {w} : wpc'[x] = wpc[x] /\ wjob'[x] = wjob[x]
    BY <1>7 DEF CloseConn, Go, TypeInv, TypeOK
  <2>3. Closing(f) /\ \A g \in Fds \ {f} : Closing(g)' <=> Closing(g)
    BY <1>3, <1>4, <2>1, <2>2
  <2>4. Table'
    BY <1>2, <2>1, <2>3, TableClose DEF Listed
  <2> QED
    BY <1>1, <2>1, <2>2, <2>4 DEF Listed, Found
<1> QED
  BY <1>5, <1>6, <1>7 DEF Worker

CalmInv == Calm => CountInv /\ Listed

LEMMA CalmHolds == Spec => [](TypeInv /\ (undisturbed => Own) /\ CalmInv)
<1>1. Init => CalmInv
  <2> SUFFICES ASSUME Init PROVE CountInv /\ Listed
    BY DEF CalmInv
  <2>1. /\ Open = {} /\ registered = {} /\ Len(jobs) = 0 /\ apc = "cap" /\ mpc = "loop"
        /\ total = 0 /\ \A i \in Slots : slotFd[i] = -1
    BY DEF Init, Open
  <2>2. \A w \in Workers : wpc[w] = "idle"
    BY DEF Init
  <2>3. {w \in Workers : wpc[w] \in {"send", "match", "count"}} = {}
    BY <2>2
  <2>4. CountInv
    <3>1. Cardinality(registered) = 0 /\ One(mpc \in {"match", "recv", "lost", "unknown"}) = 0
      BY <2>1, FS_EmptySet DEF One
    <3>2. Cardinality({w \in Workers : wpc[w] \in {"send", "match", "count"}}) = 0
      BY <2>3, FS_EmptySet
    <3>3. Counted = 0
      BY <2>1, <3>1, <3>2 DEF Counted
    <3>4. One(apc = "count") = 0
      BY <2>1 DEF One
    <3> QED
      BY <2>1, <3>3, <3>4 DEF CountInv
  <2>5. Listed
    BY <2>1, <2>2, NoFd DEF Listed, Table, Found
  <2> QED
    BY <2>4, <2>5
<1>2. TypeInv /\ (undisturbed => Own) /\ CalmInv /\ [Next]_vars => CalmInv'
  <2> SUFFICES ASSUME TypeInv, undisturbed => Own, CalmInv, [Next]_vars, Calm'
               PROVE  (CountInv /\ Listed)'
    BY DEF CalmInv
  <2>1. Calm /\ Gentle
    BY StaysCalm
  <2>2. Own /\ CountInv /\ Listed
    BY <2>1 DEF Calm, CalmInv
  <2>3. CountInv'
    BY <2>2, CountStep
  <2>4. CASE Environment \/ UNCHANGED vars
    <3>1. UNCHANGED <<slotFd, fdConn, apc, connect_fd, mpc, fd_temp, event_index, wpc, wjob, wslot>>
      BY <2>4 DEF Environment, Tick, Ask, Sigterm, Calm, vars, kernelVars, tableVars,
                  acceptVars, mainVars, poolVars, envVars
    <3>2. \A f \in Fds : (Closing(f)' <=> Closing(f)) /\ (InHand(f)' <=> InHand(f))
      BY <3>1 DEF Closing, WorkersOn, InHand
    <3>3. Table'
      BY <2>2, <3>1, <3>2, TableFrame DEF Listed
    <3> QED
      BY <2>2, <2>3, <3>1, <3>3 DEF Listed, Found
  <2> QED
    BY <2>1, <2>2, <2>3, <2>4, ListedAccept, ListedMain, ListedWorker DEF Next, Terminated
<1> QED
  BY <1>1, <1>2, OwnHolds, PTL DEF Spec

(* current_connected_total, with the increment the accept thread still     *)
(* owes, is the number of connections waiting, read, queued and answered.  *)
THEOREM CounterIsExact == Spec => []CounterExact
<1>1. CalmInv => CounterExact
  BY DEF CalmInv, CountInv, CounterExact
<1> QED
  BY <1>1, CalmHolds, PTL

(* The table lists every open connection exactly once, from before epoll   *)
(* watches it until just before it is closed, and nothing else.            *)
THEOREM TableIsExact == Spec => []TableExact
<1>1. ASSUME TypeInv, CalmInv PROVE TableExact
  <2> SUFFICES ASSUME Calm, NEW f \in Fds
               PROVE  Cardinality({i \in Slots : slotFd[i] = f}) =
                        One(f \in Open /\ ~Closing(f) /\ ~InHand(f))
    BY DEF TableExact, InHand
  <2> DEFINE S == {i \in Slots : slotFd[i] = f}
  <2>1. Table
    BY <1>1 DEF CalmInv, Listed
  <2>2. f \in Open /\ ~Closing(f) /\ ~InHand(f) <=> S # {}
    BY <2>1 DEF Table
  <2>3. \A i, k \in S : i = k
    BY <2>1, NoFd DEF Table
  <2>4. (f \in Open /\ ~Closing(f) /\ ~InHand(f)) \in BOOLEAN
    OBVIOUS
  <2> QED
    BY <2>2, <2>3, <2>4, AtMostOne
<1> QED
  BY <1>1, CalmHolds, PTL
-----------------------------------------------------------------------------
(* A job's descriptor refers to the connection whose request was read from *)
(* it, or is closed: it never refers to a later one.                       *)
Asker ==
  /\ \A i \in DOMAIN jobs : fdConn[jobs[i].fd] \in {jobs[i].conn, NoConn}
  /\ \A w \in Workers : Busy(w) => fdConn[wjob[w].fd] \in {wjob[w].conn, NoConn}

LEMMA AskerStep ==
  ASSUME TypeInv, Own, Asker, [Next]_vars, Gentle
  PROVE  Asker'
<1> USE DEF kernelVars, tableVars, acceptVars, mainVars, poolVars, envVars, AcceptAt
<1>1. /\ \A i \in DOMAIN jobs : jobs[i].fd \in Fds
      /\ \A w \in Workers : Busy(w) => wjob[w].fd \in Fds
  <2>1. \A i \in DOMAIN jobs : jobs[i] \in Jobs
    BY DEF TypeInv, TypeOK
  <2> QED
    BY <2>1 DEF TypeInv, Locals, Jobs
<1>2. ASSUME UNCHANGED <<jobs, wjob, wpc>>,
             \A f \in Fds : fdConn'[f] \in {fdConn[f], NoConn} \/ (~JobFd(f) /\ ~WorkerFd(f))
      PROVE  Asker'
  BY <1>1, <1>2 DEF Asker, Busy, JobFd, WorkerFd
<1>3. ASSUME NEW f \in Fds, closesocket(f)
      PROVE  \A g \in Fds : fdConn'[g] \in {fdConn[g], NoConn}
  BY <1>3, CloseOpen
<1>4. CASE Environment \/ UNCHANGED vars
  <2>1. \A f \in Fds : fdConn'[f] \in {fdConn[f], NoConn}
    BY <1>4 DEF Environment, Tick, Ask, Sigterm, vars
  <2>2. UNCHANGED <<jobs, wjob, wpc>>
    BY <1>4 DEF Environment, Tick, Ask, Sigterm, vars
  <2> QED
    BY <1>2, <2>1, <2>2
<1>5. CASE Accept
  <2>1. connect_fd' \notin Open /\ connect_fd' \in Fds /\ UNCHANGED <<jobs, wjob, wpc>> /\ ~exit_flag
    BY <1>5, AcceptOpens DEF Accept
  <2>2. ~JobFd(connect_fd') /\ ~WorkerFd(connect_fd')
    BY <2>1 DEF Own, Apart, Placed
  <2>3. \A f \in Fds : f # connect_fd' => fdConn'[f] = fdConn[f]
    BY <1>5, AcceptOpens
  <2> HIDE <1>5
  <2>4. \A f \in Fds : fdConn'[f] \in {fdConn[f], NoConn} \/ (~JobFd(f) /\ ~WorkerFd(f))
    BY <2>2, <2>3
  <2> QED
    BY <1>2, <2>1, <2>4
<1>6. CASE AcceptThread
  <2>1. UNCHANGED <<jobs, wjob, wpc>>
    BY <1>6 DEF AcceptThread, AcceptCap, AcceptFails, FindSlot, Refuse, InitSlot,
                EpollAdd, EpollAddFails, CountUp
  <2>2. CASE Refuse \/ EpollAddFails
    <3>1. connect_fd \in Fds /\ closesocket(connect_fd)
      BY <2>2 DEF Refuse, EpollAddFails, GiveUp, TypeInv, TypeOK, Locals, Accepting
    <3> QED
      BY <1>2, <1>3, <2>1, <3>1
  <2>3. CASE ~(Refuse \/ EpollAddFails)
    <3>1. fdConn' = fdConn
      BY <1>6, <2>3 DEF AcceptThread, AcceptCap, AcceptFails, FindSlot, InitSlot,
                        EpollAdd, CountUp
    <3> QED
      BY <1>2, <2>1, <3>1
  <2> QED
    BY <2>2, <2>3
<1>7. CASE MainThread
  <2>1. UNCHANGED <<wjob, wpc>>
    BY <1>7 DEF MainThread, LoopTop, SweepRead, SweepAge, SweepFree, SweepClose, SweepJobs,
           EpollWait, EventDel, EventsOver, EventMatch, EventRecv, EventRecvFails,
           EventUnknown, EventLost, EventClose, LeaveLoop, Join
  <2>2. CASE SweepClose \/ EventClose
    <3>1. fd_temp \in Fds /\ closesocket(fd_temp) /\ jobs' = jobs
      BY <2>2 DEF SweepClose, EventClose, CloseEvent, TypeInv, TypeOK, Locals, Sweeping, Holding
    <3> QED
      BY <1>2, <1>3, <2>1, <3>1
  <2>3. CASE EventRecv
    <3>1. /\ Len(jobs) \in Nat /\ DOMAIN jobs = 1 .. Len(jobs) /\ DOMAIN jobs' = 1 .. Len(jobs) + 1
          /\ \A i \in DOMAIN jobs : jobs'[i] = jobs[i]
          /\ jobs'[Len(jobs) + 1].fd = fd_temp
          /\ jobs'[Len(jobs) + 1].conn = fdConn[fd_temp]
          /\ fdConn' = fdConn
      BY <2>3 DEF EventRecv, TypeInv, TypeOK
    <3>2. \A i \in DOMAIN jobs' : i \in DOMAIN jobs \/ i = Len(jobs) + 1
      BY <3>1
    <3> QED
      BY <2>1, <3>1, <3>2 DEF Asker, Busy
  <2>4. CASE SweepJobs
    <3>1. AgedJobs = {} /\ Cardinality({}) = 0
      BY <2>4, FS_EmptySet DEF Gentle
    <3>2. jobs' = jobs /\ fdConn' = fdConn
      BY <2>4, <3>1 DEF SweepJobs, TypeInv, TypeOK
    <3> QED
      BY <1>2, <2>1, <3>2
  <2>5. CASE Join
    <3>1. jobs' = <<>> /\ fdConn' = fdConn
      BY <2>5 DEF Join
    <3> QED
      BY <2>1, <3>1 DEF Asker, Busy
  <2>6. CASE ~(SweepClose \/ EventClose \/ EventRecv \/ SweepJobs \/ Join)
    <3>1. UNCHANGED <<fdConn, jobs>>
      BY <1>7, <2>6 DEF MainThread, LoopTop, SweepRead, SweepAge, SweepFree,
           EpollWait, EventDel, EventsOver, EventMatch, EventRecvFails,
           EventUnknown, EventLost, LeaveLoop
    <3> QED
      BY <1>2, <2>1, <3>1
  <2> QED
    BY <2>2, <2>3, <2>4, <2>5, <2>6
<1>8. CASE \E w \in Workers : Worker(w)
  <2> PICK w \in Workers : Worker(w)
    BY <1>8
  <2>1. CASE TakeJob(w)
    <3>1. /\ fdConn' = fdConn /\ 1 \in DOMAIN jobs
          /\ \A i \in DOMAIN jobs' : i + 1 \in DOMAIN jobs /\ jobs'[i] = jobs[i + 1]
      BY <2>1 DEF TakeJob, PopJob, TypeInv, TypeOK
    <3>2. /\ wjob'[w] = jobs[1]
          /\ \A x \in Workers \ {w} : (Busy(x)' <=> Busy(x)) /\ wjob'[x] = wjob[x]
      BY <2>1 DEF TakeJob, Go, Busy, TypeInv, TypeOK
    <3> QED
      BY <3>1, <3>2 DEF Asker
  <2>2. CASE CloseConn(w)
    <3>1. wjob[w].fd \in Fds /\ closesocket(wjob[w].fd) /\ jobs' = jobs
      BY <2>2 DEF CloseConn, TypeInv, Locals, Busy, Jobs
    <3>2. ~Busy(w)' /\ \A x \in Workers \ {w} : (Busy(x)' <=> Busy(x)) /\ wjob'[x] = wjob[x]
      BY <2>2 DEF CloseConn, Go, Busy, TypeInv, TypeOK
    <3>3. \A g \in Fds : fdConn'[g] \in {fdConn[g], NoConn}
      BY <1>3, <3>1
    <3> QED
      BY <1>1, <3>1, <3>2, <3>3 DEF Asker
  <2>3. CASE Send(w) \/ MatchSlot(w) \/ CountDown(w) \/ FreeSlot(w) \/ Leave(w)
    <3>1. UNCHANGED <<fdConn, jobs, wjob>>
      BY <2>3 DEF Send, MatchSlot, CountDown, FreeSlot, Leave
    <3>2. \A x \in Workers : Busy(x)' <=> Busy(x)
      BY <2>3 DEF Send, MatchSlot, CountDown, FreeSlot, Leave, Go, Busy, TypeInv, TypeOK
    <3> QED
      BY <3>1, <3>2 DEF Asker
  <2> QED
    BY <2>1, <2>2, <2>3 DEF Worker
<1> QED
  BY <1>4, <1>5, <1>6, <1>7, <1>8 DEF Next, Terminated

-----------------------------------------------------------------------------
(* Requests read whose reply is not sent yet; descriptors whose request    *)
(* has not been queued.                                                    *)
Unsent(c) == \/ \E i \in DOMAIN jobs : jobs[i].conn = c
             \/ \E w \in Workers : wpc[w] = "send" /\ wjob[w].conn = c
Held(f)   == AcceptFd(f) \/ f \in registered \/ Handling(f)

(* A connection has one descriptor, and one request on its way at most.    *)
OneRequest ==
  /\ \A f, g \in Fds : fdConn[f] # NoConn /\ fdConn[f] = fdConn[g] => f = g
  /\ \A i, k \in DOMAIN jobs : jobs[i].conn = jobs[k].conn => i = k
  /\ \A w, x \in Workers : wpc[w] = "send" /\ wpc[x] = "send" /\ wjob[w].conn = wjob[x].conn
                             => w = x
  /\ \A w \in Workers, i \in DOMAIN jobs : wpc[w] = "send" => wjob[w].conn # jobs[i].conn

(* Who has no reply yet.                                                   *)
Unanswered ==
  /\ \A f \in Fds : fdConn[f] # NoConn => fdConn[f] \in accepted
  /\ \A c \in Conns : replies[<<c, c>>] # 0 => c \in accepted
  /\ \A c \in Conns : Unsent(c) => c \in accepted \cap asked /\ replies[<<c, c>>] = 0
  /\ \A f \in Fds, c \in Conns : Held(f) /\ fdConn[f] = c => replies[<<c, c>>] = 0 /\ ~Unsent(c)

Serving == OneRequest /\ Unanswered

(* Sockets only close, and no request is read, taken or answered.          *)
Quiet ==
  /\ \A f \in Fds : fdConn'[f] \in {fdConn[f], NoConn}
  /\ UNCHANGED <<jobs, replies, accepted>> /\ asked \subseteq asked'
  /\ \A w \in Workers : (wpc'[w] = "send" <=> wpc[w] = "send")
                        /\ (wpc[w] = "send" => wjob'[w] = wjob[w])
  /\ \A f \in Fds : Held(f)' /\ fdConn'[f] # NoConn => Held(f)

LEMMA ServingQuiet ==
  ASSUME TypeInv, Serving, Quiet
  PROVE  Serving'
<1>1. \A c \in Conns : Unsent(c)' <=> Unsent(c)
  BY DEF Quiet, Unsent
<1>2. OneRequest'
  BY DEF Quiet, Serving, OneRequest
<1>3. NoConn \notin Conns /\ replies' = replies /\ accepted' = accepted
  BY DEF Quiet
<1>4. Unanswered'
  BY <1>1, <1>3 DEF Quiet, Serving, Unanswered
<1> QED
  BY <1>2, <1>4 DEF Serving

LEMMA QuietEnvironment ==
  ASSUME TypeInv, Environment \/ UNCHANGED vars
  PROVE  Quiet
<1>1. UNCHANGED <<jobs, wjob, wpc, replies, accepted, apc, connect_fd, mpc, fd_temp>>
  BY DEF Environment, Tick, Ask, Sigterm, vars, kernelVars, acceptVars, mainVars, poolVars, envVars
<1>2. \A f \in Fds : fdConn'[f] \in {fdConn[f], NoConn}
  BY DEF Environment, Tick, Ask, Sigterm, vars, kernelVars
<1>3. asked \subseteq asked' /\ registered' \subseteq registered
  BY DEF Environment, Tick, Ask, Sigterm, vars, kernelVars, envVars
<1> QED
  BY <1>1, <1>2, <1>3 DEF Quiet, Held, AcceptFd, Accepting, Handling

LEMMA QuietAccept ==
  ASSUME TypeInv, AcceptThread
  PROVE  Quiet
<1> USE DEF kernelVars, tableVars, acceptVars, mainVars, poolVars, envVars, AcceptAt
<1>1. UNCHANGED <<jobs, wjob, wpc, replies, accepted, mpc, fd_temp, asked>>
  BY DEF AcceptThread, AcceptCap, AcceptFails, FindSlot, Refuse, InitSlot, EpollAdd,
         EpollAddFails, CountUp
<1>2. CASE Refuse \/ EpollAddFails
  <2>1. connect_fd \in Fds /\ closesocket(connect_fd)
    BY <1>2 DEF Refuse, EpollAddFails, GiveUp, TypeInv, TypeOK, Locals, Accepting
  <2>2. \A f \in Fds : ~AcceptFd(f)'
    BY <1>2 DEF Refuse, EpollAddFails, AcceptFd, Accepting
  <2>3. registered' \subseteq registered /\ \A f \in Fds : fdConn'[f] \in {fdConn[f], NoConn}
    BY <2>1, CloseOpen
  <2> QED
    BY <1>1, <2>2, <2>3 DEF Quiet, Held, Handling
<1>3. CASE EpollAdd
  <2>1. fdConn' = fdConn /\ connect_fd \in Fds /\ registered' = registered \cup {connect_fd}
        /\ AcceptFd(connect_fd)
    BY <1>3 DEF EpollAdd, Open, AcceptFd, Accepting
  <2>2. \A f \in Fds : ~AcceptFd(f)'
    BY <1>3 DEF EpollAdd, AcceptFd, Accepting
  <2> QED
    BY <1>1, <2>1, <2>2 DEF Quiet, Held, Handling
<1>4. CASE AcceptCap \/ AcceptFails \/ FindSlot \/ InitSlot \/ CountUp
  <2>1. fdConn' = fdConn /\ registered' = registered
    BY <1>4 DEF AcceptCap, AcceptFails, FindSlot, InitSlot, CountUp
  <2>2. \A f \in Fds : AcceptFd(f)' => AcceptFd(f)
    BY <1>4 DEF AcceptCap, AcceptFails, FindSlot, InitSlot, CountUp, AcceptFd, Accepting
  <2> QED
    BY <1>1, <2>1, <2>2 DEF Quiet, Held, Handling
<1> QED
  BY <1>2, <1>3, <1>4 DEF AcceptThread

LEMMA QuietMain ==
  ASSUME TypeInv, Own, MainThread, Gentle, ~EventRecv, ~Join
  PROVE  Quiet
<1> USE DEF kernelVars, tableVars, acceptVars, mainVars, poolVars, envVars
<1>1. UNCHANGED <<wjob, wpc, replies, accepted, apc, connect_fd, asked>>
  BY DEF MainThread, LoopTop, SweepRead, SweepAge, SweepFree, SweepClose, SweepJobs,
         EpollWait, EventDel, EventsOver, EventMatch, EventRecvFails,
         EventUnknown, EventLost, EventClose, LeaveLoop
<1>2. \A f \in Fds : AcceptFd(f)' <=> AcceptFd(f)
  BY <1>1 DEF AcceptFd, Accepting
<1>3. CASE SweepClose \/ EventClose
  <2>1. fd_temp \in Fds /\ closesocket(fd_temp) /\ jobs' = jobs /\ mpc' \in {"sweep", "event"}
    BY <1>3 DEF SweepClose, EventClose, CloseEvent, TypeInv, TypeOK, Locals, Sweeping, Holding
  <2>2. registered' \subseteq registered /\ \A f \in Fds : fdConn'[f] \in {fdConn[f], NoConn}
    BY <2>1, CloseOpen
  <2> QED
    BY <1>1, <1>2, <2>1, <2>2 DEF Quiet, Held, Handling
<1>4. CASE SweepJobs
  <2>1. AgedJobs = {} /\ Cardinality({}) = 0
    BY <1>4, FS_EmptySet DEF Gentle
  <2>2. jobs' = jobs /\ UNCHANGED <<fdConn, registered>> /\ mpc' = "wait"
    BY <1>4, <2>1 DEF SweepJobs, TypeInv, TypeOK
  <2> QED
    BY <1>1, <1>2, <2>2 DEF Quiet, Held, Handling
<1>5. CASE EventDel
  <2>1. PICK f \in events : fd_temp' = f /\ registered' = registered \ {f}
    BY <1>5 DEF EventDel, Unwatch
  <2>2. UNCHANGED <<fdConn, jobs>>
    BY <1>5 DEF EventDel
  <2>3. fdConn[f] = NoConn \/ f \in registered
    BY DEF Own, Waiting, Open, TypeInv, TypeOK
  <2> QED
    BY <1>1, <1>2, <2>1, <2>2, <2>3 DEF Quiet, Held, Handling
<1>6. CASE \/ LoopTop \/ SweepRead \/ SweepAge \/ SweepFree \/ EpollWait \/ EventsOver
           \/ LeaveLoop
  <2>1. UNCHANGED <<fdConn, registered, jobs>>
    BY <1>6 DEF LoopTop, SweepRead, SweepAge, SweepFree, EpollWait, EventsOver, LeaveLoop
  <2>2. mpc' \notin {"match", "recv", "lost", "unknown", "close"}
    BY <1>6 DEF LoopTop, AtLoopTop, SweepRead, SweepAge, SweepFree, EpollWait, EventsOver, LeaveLoop
  <2> QED
    BY <1>1, <1>2, <2>1, <2>2 DEF Quiet, Held, Handling
<1>7. CASE EventMatch \/ EventRecvFails \/ EventUnknown \/ EventLost
  <2>1. UNCHANGED <<fdConn, registered, jobs>>
    BY <1>7 DEF EventMatch, EventRecvFails, EventUnknown, EventLost
  <2>2. \A f \in Fds : Handling(f)' => Handling(f)
    BY <1>7 DEF EventMatch, EventRecvFails, EventUnknown, EventLost, Handling
  <2> QED
    BY <1>1, <1>2, <2>1, <2>2 DEF Quiet, Held
<1> QED
  BY <1>3, <1>4, <1>5, <1>6, <1>7 DEF MainThread

LEMMA QuietWorker ==
  ASSUME TypeInv, NEW w \in Workers,
         MatchSlot(w) \/ CountDown(w) \/ FreeSlot(w) \/ CloseConn(w) \/ Leave(w)
  PROVE  Quiet
<1> USE DEF kernelVars, tableVars, acceptVars, mainVars, poolVars, envVars
<1>1. UNCHANGED <<jobs, replies, accepted, apc, connect_fd, mpc, fd_temp, asked>>
  BY DEF MatchSlot, CountDown, FreeSlot, CloseConn, Leave
<1>2. \A x \in Workers : (wpc'[x] = "send" <=> wpc[x] = "send")
                         /\ (wpc[x] = "send" => wjob'[x] = wjob[x])
  BY DEF MatchSlot, CountDown, FreeSlot, CloseConn, Leave, Go, TypeInv, TypeOK
<1>3. registered' \subseteq registered /\ \A f \in Fds : fdConn'[f] \in {fdConn[f], NoConn}
  <2>1. CASE CloseConn(w)
    <3>1. wjob[w].fd \in Fds /\ closesocket(wjob[w].fd)
      BY <2>1 DEF CloseConn, TypeInv, Locals, Busy, Jobs
    <3> QED
      BY <3>1, CloseOpen
  <2>2. CASE MatchSlot(w) \/ CountDown(w) \/ FreeSlot(w) \/ Leave(w)
    BY <2>2 DEF MatchSlot, CountDown, FreeSlot, Leave
  <2> QED
    BY <2>1, <2>2
<1> QED
  BY <1>1, <1>2, <1>3 DEF Quiet, Held, AcceptFd, Accepting, Handling

LEMMA ServingAccept ==
  ASSUME TypeInv, Serving, Accept
  PROVE  Serving'
<1> USE DEF kernelVars, tableVars, acceptVars, mainVars, poolVars, envVars, AcceptAt
<1>1. PICK c \in Conns \ accepted :
        /\ accepted' = accepted \cup {c}
        /\ \A f \in Fds : fdConn'[f] = IF f = connect_fd' THEN c ELSE fdConn[f]
  BY AcceptOpens
<1>2. UNCHANGED <<jobs, wjob, wpc, replies, asked, registered, mpc, fd_temp>>
  BY DEF Accept
<1>3. \A d \in Conns : Unsent(d)' <=> Unsent(d)
  BY <1>2 DEF Unsent
<1>4. \A f \in Fds : Held(f)' <=> Held(f) \/ f = connect_fd'
  <2>1. \A f \in Fds : ~AcceptFd(f) /\ (AcceptFd(f)' <=> f = connect_fd')
    BY DEF Accept, AcceptFd, Accepting
  <2> QED
    BY <1>2, <2>1 DEF Held, Handling
<1>5. replies[<<c, c>>] = 0 /\ ~Unsent(c) /\ \A f \in Fds : fdConn[f] # c
  BY NoConn \notin Conns DEF Serving, Unanswered
<1>6. OneRequest'
  BY <1>1, <1>2, <1>5 DEF Serving, OneRequest
<1>7. \A f \in Fds, d \in Conns : Held(f)' /\ fdConn'[f] = d => replies'[<<d, d>>] = 0 /\ ~Unsent(d)'
  BY <1>1, <1>2, <1>3, <1>4, <1>5 DEF Serving, Unanswered
<1>8. \A f \in Fds : fdConn'[f] # NoConn => fdConn'[f] \in accepted'
  BY <1>1 DEF Serving, Unanswered
<1>9. \A d \in Conns : replies'[<<d, d>>] # 0 => d \in accepted'
  BY <1>1, <1>2 DEF Serving, Unanswered
<1>10. \A d \in Conns : Unsent(d)' => d \in accepted' \cap asked' /\ replies'[<<d, d>>] = 0
  BY <1>1, <1>2, <1>3 DEF Serving, Unanswered
<1> QED
  BY <1>6, <1>7, <1>8, <1>9, <1>10 DEF Serving, Unanswered

LEMMA ServingRead ==
  ASSUME TypeInv, Own, Serving, EventRecv \/ Join
  PROVE  Serving'
<1> USE DEF kernelVars, tableVars, acceptVars, mainVars, poolVars, envVars
<1>1. UNCHANGED <<fdConn, registered, wjob, wpc, replies, accepted, asked, apc, connect_fd>>
  BY DEF EventRecv, Join
<1>2. \A f \in Fds : Held(f)' => Held(f) /\ ~Handling(f)
  <2>1. \A f \in Fds : ~Handling(f)'
    BY DEF EventRecv, Join, Handling
  <2>2. \A f \in Fds : Held(f)' => AcceptFd(f) \/ f \in registered
    BY <1>1, <2>1 DEF Held, AcceptFd, Accepting
  <2> QED
    BY <2>2 DEF Held, Own, Apart
<1>3. CASE Join
  <2>1. DOMAIN jobs' = {}
    BY <1>3 DEF Join
  <2>2. \A c \in Conns : Unsent(c)' => Unsent(c)
    BY <1>1, <2>1 DEF Unsent
  <2> QED
    BY <1>1, <1>2, <2>1, <2>2 DEF Serving, OneRequest, Unanswered
<1>4. CASE EventRecv
  <2> DEFINE c == fdConn[fd_temp]
  <2>1. /\ Len(jobs) \in Nat /\ DOMAIN jobs = 1 .. Len(jobs) /\ DOMAIN jobs' = 1 .. Len(jobs) + 1
        /\ \A i \in DOMAIN jobs : jobs'[i] = jobs[i]
        /\ jobs'[Len(jobs) + 1].conn = c
    BY <1>4 DEF EventRecv, TypeInv, TypeOK
  <2>2. \A i \in DOMAIN jobs' : i \in DOMAIN jobs \/ i = Len(jobs) + 1
    BY <2>1
  <2>3. fd_temp \in Fds /\ Handling(fd_temp) /\ c \in Conns \cap asked /\ c # NoConn
    BY <1>4 DEF EventRecv, Open, Handling, TypeInv, TypeOK
  <2> HIDE DEF c
  <2>4. c \in accepted /\ replies[<<c, c>>] = 0 /\ ~Unsent(c)
    BY <2>3 DEF Serving, Unanswered, Held, c
  <2>5. \A d \in Conns : Unsent(d)' <=> Unsent(d) \/ d = c
    BY <1>1, <2>1, <2>2 DEF Unsent
  <2>6. \A f \in Fds : Held(f)' => fdConn[f] # c
    BY <1>2, <2>3 DEF Serving, OneRequest, c
  <2>7. OneRequest'
    BY <1>1, <2>1, <2>2, <2>4 DEF Serving, OneRequest, Unsent
  <2>8. Unanswered'
    BY <1>1, <1>2, <2>3, <2>4, <2>5, <2>6 DEF Serving, Unanswered
  <2> QED
    BY <2>7, <2>8 DEF Serving
<1> QED
  BY <1>3, <1>4

LEMMA ServingTake ==
  ASSUME TypeInv, Serving, NEW w \in Workers, TakeJob(w)
  PROVE  Serving'
<1> USE DEF kernelVars, tableVars, acceptVars, mainVars, poolVars, envVars
<1>1. UNCHANGED <<fdConn, registered, replies, accepted, asked, apc, connect_fd, mpc, fd_temp>>
  BY DEF TakeJob
<1>2. \A f \in Fds : Held(f)' <=> Held(f)
  BY <1>1 DEF Held, AcceptFd, Accepting, Handling
<1>3. /\ Len(jobs) \in Nat \ {0} /\ DOMAIN jobs = 1 .. Len(jobs)
      /\ DOMAIN jobs' = 1 .. Len(jobs) - 1
      /\ \A i \in DOMAIN jobs' : jobs'[i] = jobs[i + 1]
  BY DEF TakeJob, PopJob, TypeInv, TypeOK
<1>4. /\ 1 \in DOMAIN jobs /\ \A i \in DOMAIN jobs' : i + 1 \in DOMAIN jobs /\ i + 1 # 1
      /\ \A i \in DOMAIN jobs : i = 1 \/ (i - 1 \in DOMAIN jobs' /\ jobs'[i - 1] = jobs[i])
  BY <1>3
<1>5. /\ wpc[w] # "send" /\ wpc'[w] = "send" /\ wjob'[w] = jobs[1]
      /\ \A x \in Workers \ {w} : wpc'[x] = wpc[x] /\ wjob'[x] = wjob[x]
  BY DEF TakeJob, Go, TypeInv, TypeOK
<1>6. ASSUME NEW c \in Conns, Unsent(c)' PROVE Unsent(c)
  <2>1. CASE \E i \in DOMAIN jobs' : jobs'[i].conn = c
    BY <1>3, <1>4, <2>1 DEF Unsent
  <2>2. CASE \E x \in Workers : wpc'[x] = "send" /\ wjob'[x].conn = c
    BY <1>4, <1>5, <2>2 DEF Unsent
  <2> QED
    BY <1>6, <2>1, <2>2 DEF Unsent
<1>7. \A i, k \in DOMAIN jobs' : jobs'[i].conn = jobs'[k].conn => i = k
  <2>1. \A i, k \in DOMAIN jobs' : jobs'[i].conn = jobs'[k].conn => i + 1 = k + 1
    BY <1>3, <1>4 DEF Serving, OneRequest
  <2>2. \A i, k \in DOMAIN jobs' : i + 1 = k + 1 => i = k
    BY <1>3
  <2> QED
    BY <2>1, <2>2
<1>8. \A x, y \in Workers : wpc'[x] = "send" /\ wpc'[y] = "send" /\ wjob'[x].conn = wjob'[y].conn
                              => x = y
  BY <1>4, <1>5 DEF Serving, OneRequest
<1>9. \A x \in Workers, i \in DOMAIN jobs' : wpc'[x] = "send" => wjob'[x].conn # jobs'[i].conn
  BY <1>3, <1>4, <1>5 DEF Serving, OneRequest
<1>10. OneRequest'
  BY <1>1, <1>7, <1>8, <1>9 DEF Serving, OneRequest
<1>11. Unanswered'
  BY <1>1, <1>2, <1>6 DEF Serving, Unanswered
<1> QED
  BY <1>10, <1>11 DEF Serving

(* What a reply finds: the connection of the job, waiting for its first.   *)
LEMMA SendsFirst ==
  ASSUME TypeInv, Asker, Serving, NEW w \in Workers, Send(w)
  PROVE  /\ wjob[w].conn \in asked /\ wjob[w].fd \in Fds
         /\ replies' = replies \/
              /\ fdConn[wjob[w].fd] = wjob[w].conn
              /\ replies[<<wjob[w].conn, wjob[w].conn>>] = 0
              /\ replies' = [replies EXCEPT ![<<wjob[w].conn, wjob[w].conn>>] = 1]
<1>1. wpc[w] = "send" /\ wjob[w] \in Jobs
  BY DEF Send, TypeInv, Locals, Busy
<1>2. wjob[w].conn \in Conns /\ wjob[w].fd \in Fds
  BY <1>1 DEF Jobs
<1>3. wjob[w].conn \in asked /\ replies[<<wjob[w].conn, wjob[w].conn>>] = 0
  BY <1>1, <1>2 DEF Serving, Unanswered, Unsent
<1>4. CASE wjob[w].fd \in Open
  <2>1. fdConn[wjob[w].fd] = wjob[w].conn
    BY <1>1, <1>4 DEF Asker, Busy, Open
  <2>2. replies' = [replies EXCEPT ![<<wjob[w].conn, wjob[w].conn>>] = @ + 1]
    BY <1>4, <2>1 DEF Send
  <2> QED
    BY <1>2, <1>3, <2>1, <2>2 DEF TypeInv, TypeOK
<1>5. CASE wjob[w].fd \notin Open
  BY <1>2, <1>3, <1>5 DEF Send
<1> QED
  BY <1>4, <1>5

LEMMA ServingSend ==
  ASSUME TypeInv, Asker, Serving, NEW w \in Workers, Send(w)
  PROVE  Serving'
<1> PICK c \in Conns : c = wjob[w].conn
  BY DEF Send, TypeInv, Locals, Busy, Jobs
<1> USE DEF kernelVars, tableVars, acceptVars, mainVars, poolVars, envVars
<1>1. UNCHANGED <<fdConn, registered, jobs, wjob, accepted, asked, apc, connect_fd, mpc, fd_temp>>
  BY DEF Send
<1>2. \A f \in Fds : Held(f)' <=> Held(f)
  BY <1>1 DEF Held, AcceptFd, Accepting, Handling
<1>3. /\ wpc[w] = "send" /\ wpc'[w] = "match" /\ \A x \in Workers \ {w} : wpc'[x] = wpc[x]
  BY DEF Send, Go, TypeInv, TypeOK
<1>4. \A d \in Conns : d # c => replies'[<<d, d>>] = replies[<<d, d>>]
  <2>1. replies' = replies \/ replies' = [replies EXCEPT ![<<c, c>>] = 1]
    BY SendsFirst
  <2> QED
    BY <2>1 DEF TypeInv, TypeOK
<1>5. Unsent(c)
  BY <1>3 DEF Unsent
<1>6. \A d \in Conns : Unsent(d)' => Unsent(d) /\ d # c
  <2>1. \A d \in Conns : Unsent(d)' => Unsent(d)
    BY <1>1, <1>3 DEF Unsent
  <2>2. ~Unsent(c)'
    BY <1>1, <1>3 DEF Unsent, Serving, OneRequest
  <2> QED
    BY <2>1, <2>2
<1>7. OneRequest'
  BY <1>1, <1>3 DEF Serving, OneRequest
<1>8. \A f \in Fds : fdConn'[f] # NoConn => fdConn'[f] \in accepted'
  BY <1>1 DEF Serving, Unanswered
<1>9. \A d \in Conns : replies'[<<d, d>>] # 0 => d \in accepted'
  BY <1>1, <1>3, <1>4, <1>5 DEF Serving, Unanswered
<1>10. \A d \in Conns : Unsent(d)' => d \in accepted' \cap asked' /\ replies'[<<d, d>>] = 0
  BY <1>1, <1>4, <1>6 DEF Serving, Unanswered
<1>11. \A f \in Fds, d \in Conns : Held(f)' /\ fdConn'[f] = d => replies'[<<d, d>>] = 0 /\ ~Unsent(d)'
  BY <1>1, <1>2, <1>4, <1>5, <1>6 DEF Serving, Unanswered
<1> QED
  BY <1>7, <1>8, <1>9, <1>10, <1>11 DEF Serving, Unanswered

LEMMA ServingStep ==
  ASSUME TypeInv, Own, Asker, Serving, [Next]_vars, Gentle
  PROVE  Serving'
<1>1. CASE Environment \/ UNCHANGED vars
  BY <1>1, QuietEnvironment, ServingQuiet
<1>2. CASE AcceptThread
  BY <1>2, QuietAccept, ServingQuiet
<1>3. CASE MainThread
  BY <1>3, QuietMain, ServingQuiet, ServingRead
<1>4. ASSUME NEW w \in Workers, Worker(w) PROVE Serving'
  BY <1>4, QuietWorker, ServingQuiet, ServingTake, ServingSend DEF Worker
<1> QED
  BY <1>1, <1>2, <1>3, <1>4, ServingAccept DEF Next, Terminated

LEMMA ServingStart == Init => Asker /\ Serving
<1> SUFFICES ASSUME Init PROVE Asker /\ Serving
  OBVIOUS
<1>1. /\ DOMAIN jobs = {} /\ \A w \in Workers : wpc[w] = "idle"
      /\ \A f \in Fds : fdConn[f] = NoConn
      /\ \A c \in Conns : replies[<<c, c>>] = 0
  BY DEF Init
<1>2. \A c \in Conns : ~Unsent(c)
  BY <1>1 DEF Unsent
<1> QED
  BY <1>1, <1>2, NoConn \notin Conns DEF Asker, Busy, Serving, OneRequest, Unanswered

(* send_buffer_to_fd, done with a descriptor kept since the request was    *)
(* read, reaches the client that asked and no other, and reaches it once.  *)
THEOREM RepliesReachAskers == Spec => []ReplyToAsker
<1> DEFINE Replied == \A c, d \in Conns : replies[<<c, d>>] <= One(c = d)
           Inv     == undisturbed => Asker /\ Serving /\ Replied
<1>1. Init => Inv
  BY ServingStart DEF Init, One
<1>2. TypeInv /\ (undisturbed => Own) /\ Inv /\ [Next]_vars => Inv'
  <2> SUFFICES ASSUME TypeInv, undisturbed => Own, Inv, [Next]_vars, undisturbed'
               PROVE  (Asker /\ Serving /\ Replied)'
    OBVIOUS
  <2>1. undisturbed /\ Gentle
    BY StaysGentle
  <2>2. Asker' /\ Serving'
    BY <2>1, AskerStep, ServingStep
  <2>3. CASE \E w \in Workers : Send(w)
    <3> PICK w \in Workers : Send(w)
      BY <2>3
    <3> PICK c \in Conns : c = wjob[w].conn
      BY DEF Send, TypeInv, Locals, Busy, Jobs
    <3>1. replies' = replies \/ replies' = [replies EXCEPT ![<<c, c>>] = 1]
      BY <2>1, SendsFirst
    <3>2. replies \in [Conns \X Conns -> Nat] /\ Replied
      BY <2>1 DEF TypeInv, TypeOK
    <3>3. ASSUME NEW a \in Conns, NEW b \in Conns
          PROVE  replies'[<<a, b>>] <= One(a = b)
      <4>1. CASE replies' = replies
        BY <3>2, <4>1
      <4>2. CASE /\ replies' = [replies EXCEPT ![<<c, c>>] = 1]
                 /\ <<a, b>> = <<c, c>>
        BY <3>2, <4>2 DEF One
      <4>3. CASE /\ replies' = [replies EXCEPT ![<<c, c>>] = 1]
                 /\ <<a, b>> # <<c, c>>
        BY <3>2, <4>3
      <4> QED
        BY <3>1, <4>1, <4>2, <4>3
    <3>4. Replied'
      BY <3>3 DEF One
    <3> QED
      BY <2>2, <3>4
  <2>4. CASE ~\E w \in Workers : Send(w)
    <3>1. replies' = replies
      BY <2>4 DEF Next, Terminated, Environment, Tick, Ask, Sigterm, Accept, AcceptThread,
           AcceptCap, AcceptFails, FindSlot, Refuse, InitSlot, EpollAdd, EpollAddFails, CountUp,
           MainThread, LoopTop, SweepRead, SweepAge, SweepFree, SweepClose, SweepJobs,
           EpollWait, EventDel, EventsOver, EventMatch, EventRecv, EventRecvFails,
           EventUnknown, EventLost, EventClose, LeaveLoop, Join, Worker, TakeJob,
           MatchSlot, CountDown, FreeSlot, CloseConn, Leave, vars, poolVars
    <3> QED
      BY <2>1, <2>2, <3>1
  <2> QED
    BY <2>3, <2>4
<1>3. Inv => ReplyToAsker
  BY DEF ReplyToAsker
<1> QED
  BY <1>1, <1>2, <1>3, OwnHolds, PTL DEF Spec

(* The phase of a connection as its client sees it.                        *)
Reachable(c) == \E f \in Fds : fdConn[f] = c
Phase == [c \in Conns |-> IF c \notin accepted THEN "away"
                          ELSE IF Reachable(c) THEN "open" ELSE "closed"]

LEMMA PhaseMaps ==
  /\ CS!Init <=> Phase = [c \in Conns |-> "away"] /\ asked = {}
                 /\ replies = [r \in Conns \X Conns |-> 0]
  /\ \A c \in Conns : CS!Accept(c) <=>
       Phase[c] = "away" /\ Phase' = [Phase EXCEPT ![c] = "open"] /\ UNCHANGED <<asked, replies>>
  /\ \A c \in Conns : CS!Speak(c) <=>
       c \notin asked /\ asked' = asked \cup {c} /\ UNCHANGED <<Phase, replies>>
  /\ \A c \in Conns : CS!Reply(c) <=>
       /\ Phase[c] = "open" /\ c \in asked /\ replies[<<c, c>>] = 0
       /\ replies' = [replies EXCEPT ![<<c, c>>] = 1]
       /\ UNCHANGED <<Phase, asked>>
  /\ CS!Close <=>
       /\ \E S \in SUBSET {c \in Conns : Phase[c] = "open"} :
            Phase' = [c \in Conns |-> IF c \in S THEN "closed" ELSE Phase[c]]
       /\ UNCHANGED <<asked, replies>>
BY DEF CS!Init, CS!Accept, CS!Speak, CS!Reply, CS!Close, Phase, Reachable

(* Whatever only closes sockets closes connections, or nothing.            *)
LEMMA CloseMaps ==
  ASSUME TypeInv, Serving, UNCHANGED <<asked, replies, accepted>>,
         \A f \in Fds : fdConn'[f] \in {fdConn[f], NoConn}
  PROVE  CS!Close
<1> DEFINE S == {c \in Conns : Phase[c] = "open" /\ ~Reachable(c)'}
<1>1. \A c \in Conns : Reachable(c)' => Reachable(c)
  BY NoConn \notin Conns DEF Reachable
<1>2. \A c \in Conns : Phase'[c] = IF c \in S THEN "closed" ELSE Phase[c]
  BY <1>1 DEF Phase
<1>3. Phase' = [c \in Conns |-> IF c \in S THEN "closed" ELSE Phase[c]]
  BY <1>2 DEF Phase
<1>4. S \in SUBSET {c \in Conns : Phase[c] = "open"}
  OBVIOUS
<1> HIDE DEF S
<1> QED
  BY <1>3, <1>4, PhaseMaps

LEMMA ServiceStep ==
  ASSUME TypeInv, Own, Asker, Serving, [Next]_vars, Gentle
  PROVE  CS!Next
<1> USE DEF kernelVars, tableVars, acceptVars, mainVars, poolVars, envVars
<1>1. Quiet /\ asked' = asked => CS!Next
  BY CloseMaps DEF Quiet, CS!Next
<1>2. CASE Ask
  <2>1. PICK c \in Conns \ asked : asked' = asked \cup {c}
    BY <1>2 DEF Ask
  <2>2. UNCHANGED <<fdConn, accepted, replies>>
    BY <1>2 DEF Ask
  <2>3. Phase' = Phase
    BY <2>2 DEF Phase, Reachable
  <2>4. CS!Speak(c)
    BY <2>1, <2>2, <2>3, PhaseMaps
  <2> QED
    BY <2>4 DEF CS!Next
<1>3. CASE Tick \/ Sigterm \/ UNCHANGED vars
  <2>1. Quiet
    BY <1>3, QuietEnvironment DEF Environment
  <2>2. asked' = asked
    BY <1>3 DEF Tick, Sigterm, vars
  <2> QED
    BY <1>1, <2>1, <2>2
<1>4. CASE AcceptThread
  <2>1. asked' = asked
    BY <1>4 DEF AcceptThread, AcceptCap, AcceptFails, FindSlot, Refuse, InitSlot, EpollAdd,
           EpollAddFails, CountUp
  <2> QED
    BY <1>1, <1>4, <2>1, QuietAccept
<1>5. CASE Accept
  <2>1. PICK c \in Conns \ accepted :
          /\ accepted' = accepted \cup {c}
          /\ \A f \in Fds : fdConn'[f] = IF f = connect_fd' THEN c ELSE fdConn[f]
    BY <1>5, AcceptOpens
  <2>2. connect_fd' \in Fds \ Open
    BY <1>5, AcceptOpens
  <2>3. fdConn[connect_fd'] = NoConn
    BY <2>2 DEF Open
  <2>4. UNCHANGED <<asked, replies>>
    BY <1>5 DEF Accept
  <2>5. Reachable(c)' /\ \A d \in Conns \ {c} : Reachable(d)' <=> Reachable(d)
    BY <2>1, <2>2, <2>3, NoConn \notin Conns DEF Reachable
  <2>6. Phase[c] = "away" /\ Phase' = [Phase EXCEPT ![c] = "open"]
    BY <2>1, <2>5 DEF Phase
  <2>7. CS!Accept(c)
    BY <2>4, <2>6, PhaseMaps
  <2> QED
    BY <2>7 DEF CS!Next
<1>6. CASE MainThread
  <2>1. UNCHANGED <<asked, replies, accepted>>
    BY <1>6 DEF MainThread, LoopTop, SweepRead, SweepAge, SweepFree, SweepClose, SweepJobs,
           EpollWait, EventDel, EventsOver, EventMatch, EventRecv, EventRecvFails,
           EventUnknown, EventLost, EventClose, LeaveLoop, Join
  <2>2. CASE EventRecv \/ Join
    <3>1. fdConn' = fdConn
      BY <2>2 DEF EventRecv, Join
    <3> QED
      BY <2>1, <3>1, CloseMaps DEF CS!Next
  <2>3. CASE ~EventRecv /\ ~Join
    BY <1>1, <1>6, <2>1, <2>3, QuietMain
  <2> QED
    BY <2>2, <2>3
<1>7. ASSUME NEW w \in Workers, Worker(w) PROVE CS!Next
  <2>1. UNCHANGED <<asked, accepted>>
    BY <1>7 DEF Worker, TakeJob, Send, MatchSlot, CountDown, FreeSlot, CloseConn, Leave
  <2>2. CASE TakeJob(w)
    <3>1. UNCHANGED <<fdConn, replies>>
      BY <2>2 DEF TakeJob
    <3> QED
      BY <2>1, <3>1, CloseMaps DEF CS!Next
  <2>3. CASE Send(w)
    <3>1. fdConn' = fdConn
      BY <2>3 DEF Send
    <3>2. PICK c \in Conns : c = wjob[w].conn
      BY <2>3 DEF Send, TypeInv, Locals, Busy, Jobs
    <3>3. CASE replies' = replies
      BY <2>1, <3>1, <3>3, CloseMaps DEF CS!Next
    <3>4. CASE replies' # replies
      <4>1. /\ c \in asked /\ replies[<<c, c>>] = 0 /\ fdConn[wjob[w].fd] = c /\ wjob[w].fd \in Fds
            /\ replies' = [replies EXCEPT ![<<c, c>>] = 1]
        BY <2>3, <3>2, <3>4, SendsFirst
      <4>2. c \in accepted
        BY <4>1, NoConn \notin Conns DEF Serving, Unanswered
      <4>3. Phase[c] = "open" /\ Phase' = Phase
        BY <2>1, <3>1, <4>1, <4>2 DEF Phase, Reachable
      <4>4. CS!Reply(c)
        BY <2>1, <4>1, <4>3, PhaseMaps
      <4> QED
        BY <4>4 DEF CS!Next
    <3> QED
      BY <3>3, <3>4
  <2>4. CASE MatchSlot(w) \/ CountDown(w) \/ FreeSlot(w) \/ CloseConn(w) \/ Leave(w)
    BY <1>1, <2>1, <2>4, QuietWorker
  <2> QED
    BY <1>7, <2>2, <2>3, <2>4 DEF Worker
<1> QED
  BY <1>2, <1>3, <1>4, <1>5, <1>6, <1>7 DEF Next, Environment, Terminated

(* As long as the sweep of the once-a-minute time-out finds connections    *)
(* only where epoll is waiting for them, every client gets what it is      *)
(* promised: at most one reply, to its own request, while it is connected. *)
THEOREM GentleServerServes == Spec /\ [][Gentle]_vars => ImplementsConnectionService
<1> DEFINE Inv == TypeInv /\ Own /\ Asker /\ Serving
<1>1. Init => Inv
  BY TypesStart, OwnStart, ServingStart
<1>2. Inv /\ [Next]_vars /\ [Gentle]_vars => Inv' /\ [CS!Next]_(CS!vars)
  <2> SUFFICES ASSUME Inv, [Next]_vars, [Gentle]_vars PROVE Inv' /\ CS!Next
    OBVIOUS
  <2>1. Gentle
    <3>1. CASE UNCHANGED vars
      BY <3>1 DEF Gentle, SweepFree, SweepJobs, vars, mainVars
    <3> QED
      BY <3>1
  <2> QED
    BY <2>1, TypesStep, OwnStep, AskerStep, ServingStep, ServiceStep
<1>3. Init => CS!Init
  <2> SUFFICES ASSUME Init PROVE CS!Init
    OBVIOUS
  <2>1. Phase = [c \in Conns |-> "away"]
    BY DEF Init, Phase
  <2> QED
    BY <2>1, PhaseMaps DEF Init
<1> HIDE DEF Inv
<1> QED
  BY <1>1, <1>2, <1>3, PTL DEF Spec, ImplementsConnectionService, CS!Spec

(* Nothing is swept before the clock has passed the time-out.              *)
LEMMA NothingAges ==
  ASSUME MaxTime <= TimeOut
  PROVE  Spec => [][Gentle]_vars
<1> DEFINE Early == mpc \notin {"drop", "dropclose"}
<1>1. Init => Early
  BY DEF Init
<1>2. TypeInv /\ Early /\ [Next]_vars => Early'
  <2> SUFFICES ASSUME TypeInv, Early, [Next]_vars, mpc' # mpc PROVE Early'
    OBVIOUS
  <2>1. MainThread
    BY DEF Next, Terminated, Environment, Tick, Ask, Sigterm, Accept, AcceptThread, AcceptCap,
       AcceptFails, FindSlot, Refuse, InitSlot, EpollAdd, EpollAddFails, CountUp, Worker,
       TakeJob, Send, MatchSlot, CountDown, FreeSlot, CloseConn, Leave, vars, mainVars
  <2>2. CASE SweepAge
    <3>1. now \in 0 .. MaxTime /\ slotTime[index] \in 0 .. MaxTime
      BY <2>2 DEF SweepAge, TypeInv, TypeOK, Locals, Sweeping, Slots
    <3>2. ~(now - slotTime[index] > TimeOut)
      BY <3>1
    <3> QED
      BY <2>2, <3>2 DEF SweepAge
  <2>3. CASE ~SweepAge
    BY <2>1, <2>3 DEF MainThread, LoopTop, AtLoopTop, SweepRead, SweepFree, SweepClose,
           SweepJobs, EpollWait, EventDel, EventsOver, EventMatch, EventRecv,
           EventRecvFails, EventUnknown, EventLost, EventClose, LeaveLoop, Join
  <2> QED
    BY <2>2, <2>3
<1>3. TypeInv /\ Early => Gentle
  <2> SUFFICES ASSUME TypeInv, Early PROVE Gentle
    OBVIOUS
  <2>1. ~SweepFree
    BY DEF SweepFree
  <2>2. \A i \in DOMAIN jobs : clock \in 0 .. MaxTime /\ jobs[i].added \in 0 .. MaxTime
    <3>1. \A i \in DOMAIN jobs : jobs[i] \in Jobs
      BY DEF TypeInv, TypeOK
    <3> QED
      BY <3>1 DEF TypeInv, TypeOK, Jobs
  <2>3. \A i \in DOMAIN jobs : i \in 1 .. i /\ ~(clock - jobs[i].added > TimeOut)
    BY <2>2 DEF TypeInv, TypeOK
  <2>4. AgedJobs = {}
    BY <2>3 DEF AgedJobs
  <2> QED
    BY <2>1, <2>4 DEF Gentle
<1>4. TypeInv /\ Early => [Gentle]_vars
  BY <1>3
<1> HIDE DEF Early
<1> QED
  BY <1>1, <1>2, <1>4, TypesStart, TypesStep, PTL DEF Spec

(* The server of a run shorter than the time-out is a ConnectionService.   *)
THEOREM ServerServes ==
  ASSUME MaxTime <= TimeOut
  PROVE  Spec => ImplementsConnectionService
BY NothingAges, GentleServerServes, PTL
=============================================================================
