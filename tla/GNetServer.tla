----------------------------- MODULE GNetServer -----------------------------
(***************************************************************************)
(* The epoll server around the pool: g_net_update.c and epoll_connect.c.   *)
(* The accept thread fills a table of connections and registers each with  *)
(* epoll; the main thread waits for events, reads one request per          *)
(* connection and queues a job; the workers reply, free the table slot and *)
(* close the socket.  Once a minute main sweeps connections and jobs that  *)
(* are too old.  The three parties share the table, the counter            *)
(* current_connected_total and the descriptor numbers of the process.      *)
(*                                                                         *)
(* A step is one access to state another thread reads or writes; a scan of *)
(* the table is one step, since only the accept thread fills slots.  The   *)
(* pool is the FIFO of WorkQueue plus delete_timeout_job; what that        *)
(* function does to the pool itself is the subject of ThreadPool.  A local *)
(* variable is reset where its value is used for the last time.            *)
(***************************************************************************)
EXTENDS Integers, Sequences, FiniteSets

CONSTANTS
  MAX_EVENTS,   (* slots of the table, and the cap on connections          *)
  MAX_FDS,      (* descriptors left to clients under RLIMIT_NOFILE         *)
  Workers,      (* threads of the pool                                     *)
  Conns,        (* TCP connections clients make, one request each          *)
  NoConn,
  TimeOut,      (* SERVER_TIMEOUT                                          *)
  MaxTime       (* bound: the clock stops here                             *)

ASSUME ServerAssumption ==
  /\ MAX_EVENTS \in Nat \ {0} /\ MAX_FDS \in Nat \ {0}
  /\ IsFiniteSet(Workers) /\ IsFiniteSet(Conns) /\ NoConn \notin Conns
  /\ TimeOut \in Nat \ {0} /\ MaxTime \in Nat

Slots == 0 .. MAX_EVENTS - 1
Fds   == 0 .. MAX_FDS - 1

VARIABLES
  clock, exit_flag, keepalive,
  (* Kernel: the connection each descriptor refers to, the interest list   *)
  (* of epoll_fd, clients with a request or a hang-up to be read.          *)
  fdConn, registered, asked,
  slotFd, slotTime,               (* epoll_connect_client                  *)
  total,                          (* current_connected_total               *)
  apc, connect_fd, free_index,    (* accept_thread                         *)
  mpc, now, eventTime, index, fd_temp, event_index, events,        (* main *)
  jobs, wpc, wjob, wslot,         (* the pool's queue and its workers      *)
  (* History: the connections accepted; how often a reply to the request   *)
  (* of c reached d, at <<c, d>>; and whether main swept only connections  *)
  (* that were waiting in epoll and every EPOLL_CTL_ADD succeeded.         *)
  accepted, replies, undisturbed

kernelVars == <<fdConn, registered>>
tableVars  == <<slotFd, slotTime>>
acceptVars == <<apc, connect_fd, free_index, accepted>>
mainVars   == <<mpc, now, eventTime, index, fd_temp, event_index, events>>
poolVars   == <<jobs, wpc, wjob, wslot, replies, keepalive>>
envVars    == <<clock, exit_flag, asked>>
vars == <<kernelVars, tableVars, total, acceptVars, mainVars, poolVars, envVars,
          undisturbed>>

Init ==
  /\ clock = 0 /\ exit_flag = FALSE /\ keepalive = TRUE
  /\ fdConn = [f \in Fds |-> NoConn] /\ registered = {} /\ asked = {}
  /\ slotFd = [i \in Slots |-> -1] /\ slotTime = [i \in Slots |-> 0]
  /\ total = 0
  /\ apc = "cap" /\ connect_fd = -1 /\ free_index = -1
  /\ mpc = "loop" /\ now = 0 /\ eventTime = 0 /\ index = 0
  /\ fd_temp = -1 /\ event_index = -1 /\ events = {}
  /\ jobs = <<>> /\ wpc = [w \in Workers |-> "idle"]
  /\ wjob = [w \in Workers |-> <<>>] /\ wslot = [w \in Workers |-> -1]
  /\ accepted = {} /\ undisturbed = TRUE
  /\ replies = [r \in Conns \X Conns |-> 0]

-----------------------------------------------------------------------------
(* The table: a scan from slot 0, and -1 when nothing matches.             *)
Lowest(S) == IF S = {} THEN -1 ELSE CHOOSE i \in S : \A k \in S : i <= k
get_epoll_connect_free_event_index == Lowest({i \in Slots : slotFd[i] = -1})
MatchPastEnd(f) ==
  LET S == {i \in Slots : slotFd[i] = f} IN IF S = {} THEN MAX_EVENTS ELSE Lowest(S)
get_matched_event_index_by_fd(f) == Lowest({i \in Slots : slotFd[i] = f})
free_event_by_index(i) ==
  slotFd' = IF i \in Slots THEN [slotFd EXCEPT ![i] = -1] ELSE slotFd

(* connect_total_count_opration(add_or_subract, value)                     *)
connect_total_count_opration(add, value) ==
  total' = IF add THEN total + value ELSE total - value

(* EPOLL_CTL_DEL.                                                          *)
UnwatchNothing(f) == UNCHANGED registered
Unwatch(f) == registered' = registered \ {f}

(* close of a client's descriptor; epoll forgets a closed descriptor.      *)
closesocket(f) ==
  /\ fdConn' = [fdConn EXCEPT ![f] = NoConn]
  /\ registered' = registered \ {f}

Open == {f \in Fds : fdConn[f] # NoConn}

-----------------------------------------------------------------------------
(* Environment.                                                            *)
Running == mpc # "done"

Tick ==
  /\ Running /\ clock < MaxTime /\ clock' = clock + 1
  /\ UNCHANGED <<kernelVars, tableVars, total, acceptVars, mainVars, poolVars,
                 exit_flag, asked, undisturbed>>

(* A client sends its request or hangs up: its socket becomes readable.    *)
Ask ==
  /\ Running /\ \E c \in Conns \ asked : asked' = asked \cup {c}
  /\ UNCHANGED <<kernelVars, tableVars, total, acceptVars, mainVars, poolVars,
                 clock, exit_flag, undisturbed>>

(* signal_handler_reboot on SIGTERM: the listening socket and the socket   *)
(* in every slot are closed; the slots and the counter stay as they are.   *)
Sigterm ==
  /\ Running /\ ~exit_flag /\ exit_flag' = TRUE
  /\ LET open == {slotFd[i] : i \in Slots} IN
       /\ fdConn' = [f \in Fds |-> IF f \in open THEN NoConn ELSE fdConn[f]]
       /\ registered' = registered \ open
  /\ UNCHANGED <<tableVars, total, acceptVars, mainVars, poolVars,
                 clock, asked, undisturbed>>

-----------------------------------------------------------------------------
(* accept_thread.                                                          *)
AcceptAt(l) == apc = l /\ Running

(* The loop's condition, and its test of the counter against the cap; over *)
(* the cap the thread sleeps and comes back here.                          *)
AcceptCap ==
  /\ AcceptAt("cap")
  /\ \/ exit_flag /\ apc' = "exited"
     \/ ~exit_flag /\ total < MAX_EVENTS /\ apc' = "accept"
  /\ UNCHANGED <<kernelVars, tableVars, total, connect_fd, free_index, accepted,
                 mainVars, poolVars, envVars, undisturbed>>

(* accept gives the lowest free descriptor to the next connection.         *)
Accept ==
  /\ AcceptAt("accept") /\ ~exit_flag
  /\ \E c \in Conns \ accepted :
       /\ accepted' = accepted \cup {c}
       /\ connect_fd' = Lowest(Fds \ Open)
       /\ connect_fd' # -1
       /\ fdConn' = [fdConn EXCEPT ![connect_fd'] = c]
  /\ apc' = "slot"
  /\ UNCHANGED <<registered, tableVars, total, free_index, mainVars, poolVars,
                 envVars, undisturbed>>

(* accept fails: no descriptor is left, or the listening socket is closed. *)
AcceptFails ==
  /\ AcceptAt("accept")
  /\ exit_flag \/ Open = Fds
  /\ apc' = "cap"
  /\ UNCHANGED <<kernelVars, tableVars, total, connect_fd, free_index, accepted,
                 mainVars, poolVars, envVars, undisturbed>>

FindSlot ==
  /\ AcceptAt("slot")
  /\ free_index' = get_epoll_connect_free_event_index
  /\ free_index' # -1
  /\ apc' = "init"
  /\ UNCHANGED <<kernelVars, tableVars, total, connect_fd, accepted,
                 mainVars, poolVars, envVars, undisturbed>>

(* No slot is free, or fcntl or setsockopt fails.                          *)
Refuse ==
  /\ \/ AcceptAt("slot") /\ get_epoll_connect_free_event_index = -1
     \/ AcceptAt("init")
  /\ closesocket(connect_fd)
  /\ connect_fd' = -1 /\ free_index' = -1 /\ apc' = "cap"
  /\ UNCHANGED <<tableVars, total, accepted, mainVars, poolVars, envVars,
                 undisturbed>>

InitSlot ==
  /\ AcceptAt("init")
  /\ slotFd' = [slotFd EXCEPT ![free_index] = connect_fd]
  /\ slotTime' = [slotTime EXCEPT ![free_index] = clock]
  /\ apc' = "add" /\ free_index' = -1
  /\ UNCHANGED <<kernelVars, total, connect_fd, accepted,
                 mainVars, poolVars, envVars, undisturbed>>

EpollAdd ==
  /\ AcceptAt("add")
  /\ connect_fd \in Open
  /\ registered' = registered \cup {connect_fd}
  /\ apc' = "count" /\ connect_fd' = -1
  /\ UNCHANGED <<fdConn, tableVars, total, free_index, accepted,
                 mainVars, poolVars, envVars, undisturbed>>

(* EPOLL_CTL_ADD fails: the socket is closed, its slot is not freed.       *)
GiveUpCounted == closesocket(connect_fd) /\ total' = total + 1
GiveUp == closesocket(connect_fd) /\ UNCHANGED total

EpollAddFails ==
  /\ AcceptAt("add")
  /\ GiveUp
  /\ connect_fd' = -1 /\ apc' = "cap"
  /\ undisturbed' = FALSE
  /\ UNCHANGED <<tableVars, free_index, accepted, mainVars, poolVars, envVars>>

CountUp ==
  /\ AcceptAt("count")
  /\ connect_total_count_opration(TRUE, 1)
  /\ apc' = "cap"
  /\ UNCHANGED <<kernelVars, tableVars, connect_fd, free_index, accepted,
                 mainVars, poolVars, envVars, undisturbed>>

-----------------------------------------------------------------------------
(* main: the top of the loop and the sweep.                                *)

AtLoopTopForever == mpc = "loop"
AtLoopTop == mpc = "loop" /\ ~exit_flag    (* while (!exit_flag)           *)

LoopTop ==
  /\ AtLoopTop
  /\ IF clock - eventTime >= TimeOut
     THEN now' = clock /\ eventTime' = clock /\ mpc' = "sweep"
     ELSE mpc' = "wait" /\ UNCHANGED <<now, eventTime>>
  /\ UNCHANGED <<index, fd_temp, event_index, events, kernelVars, tableVars, total,
                 acceptVars, poolVars, envVars, undisturbed>>

SweepRead ==
  /\ mpc = "sweep" /\ index < MAX_EVENTS
  /\ fd_temp' = slotFd[index]
  /\ IF fd_temp' # -1 THEN mpc' = "age" /\ UNCHANGED index
                      ELSE index' = index + 1 /\ UNCHANGED mpc
  /\ UNCHANGED <<now, eventTime, event_index, events, kernelVars, tableVars, total,
                 acceptVars, poolVars, envVars, undisturbed>>

SweepAge ==
  /\ mpc = "age"
  /\ IF now - slotTime[index] > TimeOut
     THEN mpc' = "drop" /\ UNCHANGED <<index, fd_temp>>
     ELSE mpc' = "sweep" /\ index' = index + 1 /\ fd_temp' = -1
  /\ UNCHANGED <<now, eventTime, event_index, events, kernelVars, tableVars,
                 total, acceptVars, poolVars, envVars, undisturbed>>

(* The sweep disturbs a connection that is not waiting in epoll.           *)
SweepFree ==
  /\ mpc = "drop"
  /\ free_event_by_index(index)
  /\ undisturbed' = (undisturbed /\ slotFd[index] = fd_temp /\ fd_temp \in registered)
  /\ mpc' = "dropclose"
  /\ UNCHANGED <<slotTime, now, eventTime, index, fd_temp, event_index, events,
                 kernelVars, total, acceptVars, poolVars, envVars>>

(* EPOLL_CTL_DEL, whose failure is only logged, the counter, the close.    *)
SweepClose ==
  /\ mpc = "dropclose"
  /\ closesocket(fd_temp)
  /\ connect_total_count_opration(FALSE, 1)
  /\ mpc' = "sweep" /\ index' = index + 1 /\ fd_temp' = -1
  /\ UNCHANGED <<now, eventTime, event_index, events, tableVars,
                 acceptVars, poolVars, envVars, undisturbed>>

(* delete_timeout_job: the oldest jobs, and the counter once more for each.*)
AgedJobs == {i \in DOMAIN jobs : \A k \in 1 .. i : clock - jobs[k].added > TimeOut}

SweepJobs ==
  /\ mpc = "sweep" /\ index = MAX_EVENTS
  /\ LET n == Cardinality(AgedJobs) IN
       /\ jobs' = SubSeq(jobs, n + 1, Len(jobs))
       /\ connect_total_count_opration(FALSE, n)
       /\ undisturbed' = (undisturbed /\ n = 0)
  /\ mpc' = "wait" /\ index' = 0 /\ now' = 0
  /\ UNCHANGED <<eventTime, fd_temp, event_index, events, kernelVars,
                 tableVars, acceptVars, wpc, wjob, wslot, replies, keepalive, envVars>>

-----------------------------------------------------------------------------
(* main: epoll_wait and the events it returned.                            *)

(* Every ready descriptor; none when the signal interrupts the call.       *)
EpollWait ==
  /\ mpc = "wait"
  /\ \/ events' = {f \in registered : fdConn[f] \in asked}
     \/ exit_flag /\ events' = {}
  /\ mpc' = "event"
  /\ UNCHANGED <<now, eventTime, index, fd_temp, event_index, kernelVars, tableVars,
                 total, acceptVars, poolVars, envVars, undisturbed>>

(* EPOLL_CTL_DEL comes first; its failure changes nothing that is used. An *)
(* event without EPOLLIN goes to the branch "Unknown error!".              *)
EventDel ==
  /\ mpc = "event"
  /\ \E f \in events :
       /\ fd_temp' = f
       /\ events' = events \ {f}
       /\ Unwatch(f)
  /\ mpc' \in {"match", "unknown"}
  /\ UNCHANGED <<fdConn, now, eventTime, index, event_index, tableVars,
                 total, acceptVars, poolVars, envVars, undisturbed>>

EventsOver ==
  /\ mpc = "event" /\ events = {}
  /\ mpc' = "loop"
  /\ UNCHANGED <<now, eventTime, index, fd_temp, event_index, events, kernelVars,
                 tableVars, total, acceptVars, poolVars, envVars, undisturbed>>

EventMatch ==
  /\ mpc = "match"
  /\ event_index' = get_matched_event_index_by_fd(fd_temp)
  /\ mpc' = IF event_index' < 0 THEN "lost" ELSE "recv"
  /\ UNCHANGED <<now, eventTime, index, fd_temp, events, kernelVars, tableVars,
                 total, acceptVars, poolVars, envVars, undisturbed>>

(* The request is read and its job queued.  recv_buffer_from_fd also       *)
(* succeeds with no data when the client hung up.  Requests are shorter    *)
(* than 64 bytes: dumpInfo, called next, prints two characters per byte    *)
(* into a local buffer of 128.                                             *)
EventRecv ==
  /\ mpc = "recv"
  /\ fd_temp \in Open /\ fdConn[fd_temp] \in asked
  /\ jobs' = Append(jobs, [fd |-> fd_temp, conn |-> fdConn[fd_temp], added |-> clock])
  /\ mpc' = "event" /\ fd_temp' = -1 /\ event_index' = -1
  /\ UNCHANGED <<now, eventTime, index, events, kernelVars, tableVars,
                 total, acceptVars, wpc, wjob, wslot, replies, keepalive, envVars,
                 undisturbed>>

(* recv fails, or fills the buffer.                                        *)
EventRecvFails ==
  /\ mpc = "recv"
  /\ connect_total_count_opration(FALSE, 1)
  /\ free_event_by_index(event_index)
  /\ mpc' = "close" /\ event_index' = -1
  /\ UNCHANGED <<now, eventTime, index, fd_temp, events, kernelVars,
                 slotTime, acceptVars, poolVars, envVars, undisturbed>>

CountUnknownNot == UNCHANGED total
CountUnknown == connect_total_count_opration(FALSE, 1)

EventUnknown ==
  /\ mpc = "unknown"
  /\ CountUnknown
  /\ free_event_by_index(get_matched_event_index_by_fd(fd_temp))
  /\ mpc' = "close"
  /\ UNCHANGED <<now, eventTime, index, fd_temp, event_index, events, kernelVars,
                 slotTime, acceptVars, poolVars, envVars, undisturbed>>

(* "not find matched fd": counted down and closed.                         *)
EventLost ==
  /\ mpc = "lost"
  /\ connect_total_count_opration(FALSE, 1)
  /\ mpc' = "close" /\ event_index' = -1
  /\ UNCHANGED <<now, eventTime, index, fd_temp, events, kernelVars,
                 tableVars, acceptVars, poolVars, envVars, undisturbed>>

CloseEventNot == UNCHANGED <<fdConn, registered>>
CloseEvent == closesocket(fd_temp)

EventClose ==
  /\ mpc = "close"
  /\ CloseEvent
  /\ mpc' = "event" /\ fd_temp' = -1
  /\ UNCHANGED <<now, eventTime, index, event_index, events, tableVars, total,
                 acceptVars, poolVars, envVars, undisturbed>>

(* Out of the loop: thpool_destroy stops the workers, joins them and drops *)
(* the jobs that still wait; then the process exits.                       *)
LeaveLoop ==
  /\ mpc = "loop" /\ exit_flag
  /\ keepalive' = FALSE
  /\ mpc' = "join"
  /\ UNCHANGED <<now, eventTime, index, fd_temp, event_index, events, kernelVars,
                 tableVars, total, acceptVars, jobs, wpc, wjob, wslot, replies,
                 envVars, undisturbed>>

Join ==
  /\ mpc = "join" /\ \A w \in Workers : wpc[w] = "exited"
  /\ jobs' = <<>>
  /\ mpc' = "done"
  /\ UNCHANGED <<now, eventTime, index, fd_temp, event_index, events, kernelVars,
                 tableVars, total, acceptVars, wpc, wjob, wslot, replies, keepalive,
                 envVars, undisturbed>>

-----------------------------------------------------------------------------
(* Workers: respons_stb_info.                                              *)
Go(w, l) == wpc' = [wpc EXCEPT ![w] = l]

PeekJob == jobs' = jobs
PopJob == jobs' = Tail(jobs)

(* From the test of thpool_keepalive to the job.  A worker that passed the *)
(* test before the pool was stopped still takes one.                       *)
TakeJob(w) ==
  /\ wpc[w] = "idle" /\ jobs # <<>>
  /\ wjob' = [wjob EXCEPT ![w] = Head(jobs)]
  /\ PopJob
  /\ Go(w, "send")
  /\ UNCHANGED <<wslot, replies, keepalive, kernelVars, tableVars, total, acceptVars,
                 mainVars, envVars, undisturbed>>

(* send_buffer_to_fd writes to whatever the descriptor refers to by now.   *)
Send(w) ==
  /\ wpc[w] = "send"
  /\ replies' = IF wjob[w].fd \in Open
                THEN [replies EXCEPT ![<<wjob[w].conn, fdConn[wjob[w].fd]>>] = @ + 1]
                ELSE replies
  /\ Go(w, "match")
  /\ UNCHANGED <<jobs, wjob, wslot, keepalive, kernelVars, tableVars, total, acceptVars,
                 mainVars, envVars, undisturbed>>

MatchSlot(w) ==
  /\ wpc[w] = "match"
  /\ wslot' = [wslot EXCEPT ![w] = get_matched_event_index_by_fd(wjob[w].fd)]
  /\ Go(w, "count")
  /\ UNCHANGED <<jobs, wjob, replies, keepalive, kernelVars, tableVars, total, acceptVars,
                 mainVars, envVars, undisturbed>>

CountDown(w) ==
  /\ wpc[w] = "count"
  /\ connect_total_count_opration(FALSE, 1)
  /\ Go(w, "free")
  /\ UNCHANGED <<jobs, wjob, wslot, replies, keepalive, kernelVars, tableVars, acceptVars,
                 mainVars, envVars, undisturbed>>

FreeOwnSlotNot(w) == UNCHANGED slotFd
FreeOwnSlot(w) == free_event_by_index(wslot[w])

FreeSlot(w) ==
  /\ wpc[w] = "free"
  /\ FreeOwnSlot(w)
  /\ wslot' = [wslot EXCEPT ![w] = -1]
  /\ Go(w, "close")
  /\ UNCHANGED <<jobs, wjob, replies, keepalive, kernelVars, slotTime, total,
                 acceptVars, mainVars, envVars, undisturbed>>

CloseConn(w) ==
  /\ wpc[w] = "close"
  /\ closesocket(wjob[w].fd)
  /\ wjob' = [wjob EXCEPT ![w] = <<>>]
  /\ Go(w, IF keepalive THEN "idle" ELSE "exited")
  /\ UNCHANGED <<jobs, wslot, replies, keepalive, tableVars, total, acceptVars, mainVars,
                 envVars, undisturbed>>

(* A stopped worker, woken by thpool_destroy, leaves thpool_thread_do.     *)
Leave(w) ==
  /\ wpc[w] = "idle" /\ ~keepalive
  /\ Go(w, "exited")
  /\ UNCHANGED <<jobs, wjob, wslot, replies, keepalive, kernelVars, tableVars, total,
                 acceptVars, mainVars, envVars, undisturbed>>

-----------------------------------------------------------------------------
AcceptThread ==
  \/ AcceptCap \/ AcceptFails \/ FindSlot \/ Refuse \/ InitSlot
  \/ EpollAdd \/ EpollAddFails \/ CountUp
MainThread ==
  \/ LoopTop \/ SweepRead \/ SweepAge \/ SweepFree \/ SweepClose \/ SweepJobs
  \/ EpollWait \/ EventDel \/ EventsOver \/ EventMatch \/ EventRecv
  \/ EventRecvFails \/ EventUnknown \/ EventLost \/ EventClose
  \/ LeaveLoop \/ Join
Worker(w) ==
  \/ TakeJob(w) \/ Send(w) \/ MatchSlot(w) \/ CountDown(w) \/ FreeSlot(w)
  \/ CloseConn(w) \/ Leave(w)

Environment == Tick \/ Ask \/ Sigterm

Terminated == mpc = "done" /\ UNCHANGED vars

Next ==
  \/ Environment \/ Accept \/ AcceptThread \/ MainThread
  \/ \E w \in Workers : Worker(w)
  \/ Terminated

Spec == Init /\ [][Next]_vars

(* Threads are scheduled; clients may come, ask and go as they like.       *)
Fairness ==
  /\ WF_vars(AcceptThread) /\ WF_vars(MainThread)
  /\ \A w \in Workers : WF_vars(Worker(w))

FairSpec == Spec /\ Fairness
-----------------------------------------------------------------------------
One(P) == IF P THEN 1 ELSE 0

(* Who may close descriptor f: the accept thread until it is registered,   *)
(* epoll on behalf of main, main between EPOLL_CTL_DEL and the end of the  *)
(* event, a job that waits, a worker.                                      *)
Handling(f) == mpc \in {"match", "recv", "lost", "unknown", "close"} /\ fd_temp = f
JobsOn(f)    == {i \in DOMAIN jobs : jobs[i].fd = f}
WorkersOn(f) == {w \in Workers : wpc[w] \notin {"idle", "exited"} /\ wjob[w].fd = f}
Owners(f) ==
  One(apc \in {"slot", "init", "add"} /\ connect_fd = f) + One(f \in registered)
    + One(Handling(f)) + Cardinality(JobsOn(f)) + Cardinality(WorkersOn(f))

(* Descriptors that have, or have had, their slot freed before the close.  *)
Closing(f) ==
  \/ mpc \in {"close", "dropclose"} /\ fd_temp = f
  \/ \E w \in WorkersOn(f) : wpc[w] = "close"

(* Connections still to be counted down: each has one place to be.         *)
Counted ==
  Cardinality(registered) + One(mpc \in {"match", "recv", "lost", "unknown"})
    + Len(jobs) + Cardinality({w \in Workers : wpc[w] \in {"send", "match", "count"}})

Calm == undisturbed /\ ~exit_flag

Jobs == [fd : Fds, conn : Conns, added : 0 .. MaxTime]

(* Every variable holds a value of its C type.                             *)
TypeOK ==
  /\ clock \in 0 .. MaxTime /\ {exit_flag, keepalive, undisturbed} \subseteq BOOLEAN
  /\ fdConn \in [Fds -> Conns \cup {NoConn}]
  /\ registered \subseteq Fds /\ events \subseteq Fds
  /\ asked \subseteq Conns /\ accepted \subseteq Conns
  /\ slotFd \in [Slots -> Fds \cup {-1}] /\ slotTime \in [Slots -> 0 .. MaxTime]
  /\ total \in Int
  /\ apc \in {"cap", "accept", "slot", "init", "add", "count", "exited"}
  /\ connect_fd \in Fds \cup {-1} /\ free_index \in Slots \cup {-1}
  /\ mpc \in {"loop", "sweep", "age", "drop", "dropclose", "wait", "event", "match",
              "recv", "lost", "unknown", "close", "join", "done"}
  /\ {now, eventTime} \subseteq 0 .. MaxTime /\ index \in 0 .. MAX_EVENTS
  /\ fd_temp \in Fds \cup {-1} /\ event_index \in Slots \cup {-1}
  /\ jobs \in Seq(Jobs)
  /\ wpc \in [Workers -> {"idle", "send", "match", "count", "free", "close",
                        "exited"}]
  /\ wjob \in [Workers -> Jobs \cup {<<>>}] /\ wslot \in [Workers -> Slots \cup {-1}]
  /\ replies \in [Conns \X Conns -> Nat]

(* While only connections waiting in epoll are swept, every open           *)
(* descriptor has exactly one party that will close it, and no closed one  *)
(* has any: nothing is closed twice, nothing leaks, and no stale number    *)
(* reaches a connection that reuses it.                                    *)
OneOwner == Calm => \A f \in Fds : Owners(f) = One(f \in Open)

(* Under the same condition the table lists each open connection once,     *)
(* from before it is registered until just before it is closed, and no     *)
(* other number: so main always finds the descriptor of an event, and the  *)
(* slot a worker frees is its own.                                         *)
TableExact ==
  Calm => \A f \in Fds :
    Cardinality({i \in Slots : slotFd[i] = f}) =
      One(/\ f \in Open /\ ~Closing(f)
          /\ ~(apc \in {"slot", "init"} /\ connect_fd = f))

(* Under the same condition current_connected_total, with the increment    *)
(* the accept thread has pending, is the number of counted connections.    *)
CounterExact == Calm => total + One(apc = "count") = Counted

(* Under the same condition every reply goes to the client that asked, and *)
(* it gets one at most.                                                    *)
ReplyToAsker ==
  undisturbed => \A c, d \in Conns : replies[<<c, d>>] <= One(c = d)

(* Whatever is swept or fails, the counter never runs ahead of the open    *)
(* connections, so the cap never stops the accept thread for good.         *)
CapNeverStarves == ~exit_flag => total <= Cardinality(Open)

(* "as it must be in events[]" (g_net_update.c:550).                       *)
EventIsInTable == ~exit_flag => mpc # "lost"

(* "the connections number" (g_net_update.c:25), at a moment when no       *)
(* thread is part way through a connection.                                *)
TotalIsConnections ==
  /\ ~exit_flag /\ apc \in {"cap", "accept"} /\ mpc \in {"loop", "wait"}
  /\ jobs = <<>> /\ \A w \in Workers : wpc[w] = "idle"
  => total = Cardinality(Open)

(* A connection whose client has spoken or hung up is closed in the end.   *)
EveryAskerServed ==
  \A c \in Conns :
    (c \in accepted \cap asked) ~> (mpc = "done" \/ \A f \in Fds : fdConn[f] # c)

(* SIGTERM ends the process, whatever the threads were doing.              *)
SigtermStops == exit_flag ~> (mpc = "done")

-----------------------------------------------------------------------------
CS == INSTANCE ConnectionService WITH
        phase  <- [c \in Conns |-> IF c \notin accepted THEN "away"
                                  ELSE IF \E f \in Fds : fdConn[f] = c THEN "open"
                                  ELSE "closed"],
        spoken <- asked

(* While nothing outlives the time-out the server is a ConnectionService.  *)
ImplementsConnectionService == CS!Spec
=============================================================================
