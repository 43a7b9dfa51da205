# Formal models of epoll_utils

TLA+ models of the programs of this repository, TLC configurations that check
them on small instances, and proofs, checked by TLAPS, of what holds for
instances of every size. Paths below are relative to `src/`; `server/` stands for
`Linux_C _epoll/server/`.

1. [The system](#1-the-system): components, state, interactions, what is hard
2. [The modules](#2-the-modules): which module models which code, and how
3. [The runs](#3-the-runs): what each shows, its bounds, the fairness it assumes
4. [Disagreements found](#4-disagreements-found)
5. [The proofs](#5-the-proofs)
6. [Not modelled](#6-not-modelled)
7. [What is left](#7-what-is-left)

## 1. The system

The repository holds four independent bodies of code: an epoll server in C with
its load generator, a thread pool in C++, a MySQL connection pool in C++, and the
sample programs of a textbook on network programming.

### 1.1 The epoll server (`server/`)

A front end for set-top boxes. A client connects, sends one request, gets one
reply, and is disconnected. Three kinds of threads share the process:

| component | state | operations | shared with |
|---|---|---|---|
| worker pool, `thread_pool.c` | job list (`head`, `tail`, `jobN`, `prev`/`next` in each node), semaphore `queueSem`, one global `mutex`, flag `thpool_keepalive` | `thpool_add_work`, `thpool_thread_do` (peek, remove last, run, free), `delete_timeout_job`, `thpool_destroy` | main submits, deletes old jobs and destroys; workers take |
| connection table, `epoll_connect.c` | 2000 slots: descriptor or -1, connect time, a mutex per slot | `init_epoll_connect_by_index`, scans for a free slot or for a descriptor, `free_event_by_index` | accept thread fills; main and workers free |
| accept thread, `g_net_update.c:115` | `connect_fd`, index of the slot | cap test, accept, fill a slot, `EPOLL_CTL_ADD`, count up | table, counter, epoll |
| main, `g_net_update.c:393` | loop variables, `events[]`, time of the last sweep | sweep of old connections and jobs; `epoll_wait`; per event `EPOLL_CTL_DEL`, look-up, `recv`, submit | table, counter, epoll, pool |
| job, `respons_stb_info` | its copy of the request and the descriptor **number** | send the reply, look up the slot, count down, free the slot, close | table, counter, descriptors |
| `current_connected_total` | one integer with a mutex | add or subtract | accept thread, main, workers |
| SIGTERM, `signal_handler_reboot` | `exit_flag` | close the listening socket and the socket in every slot | everybody |
| log, `log.c` | file handle, line count, last line, a mutex | `log_string` with rotation, `log_close` | every thread and the signal handler |
| SQL pool, `sql_pool.c`, used by `database_process.c` | connections with a mutex and a state each | get by `trylock`, reconnect, ping, query, release, destroy | workers (compiled out of the reactor at this commit) |
| configuration, `config_info.c`, `file_operations.c` | one structure | read once before the threads start | read only |

What makes it correct. *Pool*: each job is run once, in order, and freed once;
the semaphore tells workers of jobs that exist; destroying it terminates.
*Table and counter*: the table lists the open connections, each once; the counter
is their number. *Descriptors*: a number is closed by whoever is responsible for the connection
it was accepted for, and a reply goes to the client that asked. *Service*:
a client that speaks is served or disconnected; SIGTERM ends the process.

What makes it hard. The descriptor number of a connection lives in five places (slot, epoll,
main's `events[]`, job, worker) and the kernel reuses it as soon as one of them
closes it. Once a minute main closes connections and deletes jobs without asking
who else is working on them. The pool's `delete_timeout_job` reads the list
before it takes the lock and does not take the semaphore down. Registration,
counting and slot handling are separate steps of three threads.

### 1.2 The other programs

| component | state | hard behaviour | what would make it correct |
|---|---|---|---|
| `thread_pool/taskpool.cpp` | task list with a size, list of spare `Task`s, a thread that trims the spare list | `AddTask` tests the size in one critical section and pushes in another | no task lost or used while spare; size bounded by `m_poolSize` for one caller |
| `thread_pool/threadpool.cpp` | list of idle threads, `m_totalNum`, a condition per thread, `m_emptyCond` | `GetThreadRun` waits with `if`; an idle time-out races an assignment; `SaveIdleThread` and `SendSignal` take two mutexes in opposite orders; `StopPool` polls until all threads left | each task given to one live thread; stop terminates |
| `thread_pool/threadpoolmanager.cpp` | dispatcher thread, `m_cond_task`, stop flag | a submission signals only if `trylock` succeeds, so only the 60 s timed wait finds some tasks; stop while tasks wait | every accepted task runs |
| `mysql_connect_pool/connection_pool.cpp` | idle list, `curSize`, one mutex | `curSize` changes on some paths only; `DestoryConnPool` sets it to 0 while connections are lent | connections lent and idle never exceed `maxSize` |
| `tcpip_network_programming/` | 60 sample programs; state that outlives a call only in the chat and HTTP servers (a thread per client, one local of main shared by all), the select and epoll servers (descriptor sets), the forking servers (child processes, SIGCHLD), and the pairs of a client and a server that agree on where a message ends | removal from the array while another thread broadcasts; a descriptor reused while events wait; edge-triggered reads that must drain; zombies when several children exit at once; both sides of a connection waiting | messages reach the connected clients only; every client gets back what it sent; all children are reaped; both sides of a pair end |
| `Linux_C _epoll/client_test/` | load generator: `connect_total`, two threads | both add to the total without a lock | the total is the number of answers |

All components, and every hazard at its line, are in `PROJECT.json`.

## 2. The modules

| module | models | role |
|---|---|---|
| `WorkQueue` | what callers of the pool rely on | abstract specification: FIFO, each job claimed once, dropped only after close |
| `ThreadPool` | `thread_pool.c` | detailed; refines `WorkQueue` |
| `ConnectionService` | what clients of the server rely on | abstract specification |
| `GNetServer` | `g_net_update.c`, `epoll_connect.c`, with the pool as a FIFO | detailed; refines `ConnectionService` |
| `SocketIO` | the byte loops of `g_net_update.c` | detail that `GNetServer` leaves out |
| `SqlPool` | `sql_pool.c`, `database_process.c` | |
| `ServerLog` | `log.c`, the signal handler, the end of main | |
| `LoadGenerator` | `client_test` | |
| `TaskService` | what a program is promised by the C++ pool while no fault happens | abstract specification |
| `PoolManager` | `threadpoolmanager.cpp`, `taskpool.cpp`, `threadpool.cpp` | the whole C++ pool, its three parts composed; refines `TaskService` |
| `ConnPool` | `connection_pool.cpp` | |
| `EchoServers` | the select and the three epoll servers | one module, `echoKind` says which |
| `ForkServers` | the two forking servers | `forkKind` |
| `ThreadServers` | the chat and the HTTP server | `threadKind` |
| `StreamPairs` | eleven client and server programs, six pairs | `pair` |
| `MCThreadPool`, `MCGNetServer` | — | symmetry sets for TLC |
| `MCPrograms` | — | the nine parts that need no run of their own, side by side |
| `ThreadPoolProofs` | — | proofs about `ThreadPool`, its refinement included (section 5) |
| `GNetServerProofs` | — | about `GNetServer`, its refinement included |
| `PoolManagerProofs` | — | about `PoolManager`, its refinement included |
| `ServerPartsProofs` | — | about `SqlPool`, `ServerLog`, `SocketIO`, `LoadGenerator` |
| `ConnPoolProofs` | — | about `ConnPool` |
| `SampleProofs` | — | about `EchoServers`, `ForkServers`, `ThreadServers`, `StreamPairs` |
| `ProgramProofs` | — | about `MCPrograms`: what is proved of a part holds of all parts side by side |
| `DistinctSequences` | — | lemmas about lists without repetitions, for `PoolManagerProofs`, `ConnPoolProofs`, `SampleProofs` |

### 2.1 `ThreadPool`

One action per critical section, and one per access outside of them. `pc[w]`
is the place of a worker in `thpool_thread_do`: `check` (the `while`), `wait`
(`sem_wait`), `awake` (the second test of `thpool_keepalive`), `take`, `run`,
`free`, `exited`. `mpc` is main's place in the call it makes: `idle`; `add` after
the node is filled in; `del_lock`, `del_loop` in `delete_timeout_job`; `post`,
`join`, `empty`, `done` in `thpool_destroy`.

* A critical section is one step; `mutex` is still a variable, because the loop of
  `delete_timeout_job` holds it over steps and because a worker whose
  `thpool_jobqueue_removelast` fails returns **without unlocking** (`TakeFails`).
* The heap is explicit (`heap`): `malloc` returns any node that is not in use, a
  freed node keeps its contents until then (glibc writes its free-list links over the
  first two words of a chunk; this reads them as unchanged, one of the outcomes
  such a read can have). A dereferenced NULL and a second `free` set
  `crashed`, after which nothing happens.
* `DeleteRead` is separate from `DeleteLock`: the code initialises `curjob` and
  `now` above `pthread_mutex_lock`.
* History, read by no action: `order` (jobs in the list, oldest first),
  `started`, `evicted` (jobs deleted), `added`. The links are checked against `order`.

### 2.2 `GNetServer`

The steps of the accept thread (`apc`), main (`mpc`) and the workers (`wpc`) are
accesses to what another thread can see: the table, the counter, epoll, the
descriptors, the job queue. `fdConn` is the kernel's descriptor table; `accept`
returns the lowest free number, so numbers are reused as on Linux. `registered`
is epoll's interest list, from which a closed descriptor vanishes. `slotFd` and
`slotTime` are the table.

* A table scan is one step. Only the accept thread fills slots, and the scans for a free slot
  are its own; a scan for a descriptor can only be overtaken by that slot being freed.
* The signal handler is one step: it runs on one thread while the others are at
  any of their steps.
* `undisturbed` is history: it stays TRUE while the sweep takes only connections
  that are waiting in epoll, deletes no job, and every `EPOLL_CTL_ADD` succeeds.
  What holds only under it is stated under it, so that the invariant shows which
  operations break the server's accounts; what holds always (`CapNeverStarves`)
  is stated without.
* The pool is the FIFO of `WorkQueue` with `delete_timeout_job` removing aged
  jobs from its front. What that function does to the pool's own structures is the subject of
  `ThreadPool`. A worker that passed its test of `thpool_keepalive` can take one
  more job after the pool was stopped.
* Failures: no descriptor left, no free slot, `fcntl`/`setsockopt`,
  `EPOLL_CTL_ADD`, `recv`, an event that is not `EPOLLIN`, an interrupted
  `epoll_wait`. A hang-up is a readable socket, and reading 0 bytes counts as a
  request, as in the code.
* A local variable whose value is used for the last time is reset, which merges
  states that differ in dead values only.

### 2.3 `PoolManager`

One module for the three C++ classes, because every hazard lies between two of
them. A submitter (`spc`) goes through `Run`: `AddTask` (the test of the size),
`FillTask` (a spare or a new `Task`), `PushTask`, `Kick` (`trylock`, signal). The
dispatcher (`dpc`) is `TaskThread` with `ThreadPool::Run` and `GetThreadRun`; a
pool thread (`tpc[t]`) is `WapperFun`; `opc` is the owner in the constructor and in
`StopAll`; `termPc` is the `TerminalCheck` thread that `StopPool` creates.

* A critical section on one mutex is one step. Kept over steps, and therefore in
  guards: `m_mutex_task` (`TaskMutexFree`), the pool's mutex in `SendSignal`
  (`PoolMutexFree`), a thread's own mutex in `SaveIdleThread` (`ThreadMutexFree`).
  The two last ones are taken in opposite orders, so the model can deadlock there
  as the code can. `m_runMutex` has one user and is left out.
* `undefined` marks undefined behaviour: the front of an empty list
  (`threadpool.cpp:119` waits with `if`), a mutex of a deleted thread, a join of a
  dispatcher that was never created, a thread that outlives the pool.
* `timeouts`, `spurious` and `fails` count idle time-outs, wake-ups without a signal
  and failed `pthread_create`. They are what it takes to lose a task; properties
  that hold only without them say `~Disturbed`.
* Correct use is assumed in one place: no other thread is in `Run` when the owner
  destroys the manager (`StopAll`).

### 2.4 The smaller modules

* `SqlPool`: `create_connect`, called with the node's mutex held, initialises that
  mutex again; `reinits` counts it. `used` is written and never read, and
  `check_sql_sock_normal` is never called: both are left out.
* `ConnPool`: all operations run under one lock, so each is one step. The lock is
  never initialised; the initial state `hung` is the outcome in which its memory
  looks like a lock that is held.
* `ServerLog`: a line is its text. The handler runs in some thread and takes the
  same mutex, the file is `open`, `closed` or `null`. The parent's log after `fork`
  is left out. `logUndefined` is a use of a file that is not open.
* `SocketIO`: a byte is its offset in the reply; `n -= nwrite` with -1 moves the
  offset back. A hang-up counts as a request of 0 bytes and a request that fills the buffer
  drops the connection, as in the code.
* `LoadGenerator`: an addition to `connect_total` is a read and a store.
* `EchoServers`: `batch` are the events a call of `select` or `epoll_wait` reported
  and the loop has not handled. A read that fills the buffer of the `lt` server
  writes its terminating zero behind it (`overrun`). The sockets of the `et` server
  stay blocking, because `fcntl` is called without `F_SETFL`; it waits in `read`
  until the client ends. Echoing standard input is not modelled, its end of file is.
* `ForkServers`: SIGCHLD is one pending bit; the handler reaps one child. The
  logger process of the pipe server reads a fixed number of times and leaves.
* `ThreadServers`: the thread gets a pointer to main's local, which the next
  `accept` overwrites (`overtaken`). The removal loop of the chat server is
  translated as it is (section 4). A thread of the HTTP server opens its two streams, reads
  the line, parses it, and rejects it or serves the file (`OpenStreams`, `ReadLine`, `Parse`,
  `Reject`, `Serve`, `Finish`). A request is one of four kinds; `plain` is a name without
  an extension, whose parsing ends the process. A client may leave at any time; a line
  that was never read is then any line. `strtok` keeps its place in one static variable, so
  threads that parse at the same time may get each other's name (`mixed`). The file
  that was sent is never closed (`"opened"`), nor is the connection after a missing file, so the
  descriptors run out: `accept`, `dup` and `fopen` without a descriptor are steps
  (`HttpAcceptFails`, `WriteToNull`, the first half of `Serve`).
* `StreamPairs`: a stream is a sequence of units; a read takes any part of what is
  there. `file_client.c:55` reads into `message` and stores `buf`, which it never
  filled: the content of the file is a `junk` unit, and `Delivered` promises its
  length only. `echo_stdio_server` sends its last line once more at the end of the
  stream (`EchoEnd`); its client has left by then. A result (4 bytes) or a line is
  one unit, and no socket is reset.

### 2.5 Abstract specifications

`ThreadPool!ImplementsWorkQueue` maps the list to the numbers of its jobs, the
workers' jobs to `active` and `thpool_keepalive` to `open`.
`GNetServer!ImplementsConnectionService` maps each connection to away, open or
closed by `accepted` and `fdConn`; `replies` is the same in both.
`PoolManager!ImplementsTaskService` maps the tasks with submitters between `FillTask` and
`PushTask` to `entering`, `taskList` to `queue` (the tasks its objects hold), the task the
dispatcher holds and those in the slots of pool threads to `assigned`, `done` to `ran`, and the
end of the manager's destructor to `destroyed`.

## 3. The runs

| run | instance | states | shows |
|---|---|---|---|
| `pool_safety` | 2 workers, 3 nodes, 3 submissions, time-out 0, clock 0..1 | 71,000 | types; `SemaphoreLedger`; until the first deletion `QueueWellFormed`, `JobOwnership`; `FaultsNeedEviction` |
| `pool_service` | 2 workers, 2 nodes, 3 submissions, no job outlives the time-out | 73,000 | `ImplementsWorkQueue`, `EveryJobRuns`, `DestroyReturns` |
| `pool_stale_tail` | as `pool_safety` | — | violates `SerializedTail` |
| `server_safety` | 2 slots, 2 descriptors, 2 workers, 2 connections, time-out 1, clock 0..2 | 981,000 | types; `OneOwner`, `TableExact`, `CounterExact`, `ReplyToAsker` (one reply at most, to the client that asked) while undisturbed; `CapNeverStarves` always |
| `server_service` | 1 slot, 2 descriptors, 2 workers, 2 connections, nothing outlives the time-out | 106,000 | `ImplementsConnectionService`, `EveryAskerServed`, `SigtermStops` |
| `server_lost_event` | as `server_safety` | — | violates `EventIsInTable` |
| `server_drift` | as `server_safety` | — | violates `TotalIsConnections` |
| `manager_safety` | 2 submitters, 2 pool threads, 3 Task objects, 3 calls of `Run`, `m_poolSize` 1, `m_poolMax` 1, 1 fault | 2,865,000 | types; `TaskObjectOwned`, `QueueOverrun` always; `TaskKept`, `FaultsNeedCause` without a fault |
| `manager_service` | 2 submitters, 2 pool threads, 2 calls, no fault, no thread at the start | 18,000 | `ImplementsTaskService`, `AcceptedRuns`, `StopReturns` |
| `manager_lost_task` | 1 submitter, 1 thread, 1 call, no fault | — | violates `AllTasksRun` |
| `programs` | nine parts, one after the other, bounds below | 565,000 | the properties of section 3.1 |
| `chat_leaver` | 2 clients | — | violates `LeaverRemoved` |

### 3.1 The run `programs`

`MCPrograms!MCInit` chooses one part, and only that one moves; the others keep one fixed
initial state. Each property is about the part it names.

| part | bounds | properties |
|---|---|---|
| `SqlPool` | 2 threads, 2 nodes, 1 failure | `SqlNodeUse`: two threads have one connection only after `create_connect` initialised a mutex that was held, and only then, or during destruction, is a missing one pinged |
| `ConnPool` | 3 connections, `maxSize` 2 | `ConnLedger`: `curSize` counts the idle and the lent connections and stays within `maxSize` |
| `ServerLog` | main and 1 worker, 2 levels, 2 texts, rotation after 3 lines, 1 failed `fopen` | `LogLines`: no repeated line, no overlong file; `LogFaultsNeedCause`: a closed file is used only by a worker after main closed it or after a failed `fopen`; `SigtermHandled`: the signal ends in `exit_flag`, or in a thread waiting for itself |
| `SocketIO` | reads of 2, a reply of 3 bytes, 2 EAGAINs | `ReplyInOrder`: partial writes keep the order, and each EAGAIN makes exactly one byte too many go out |
| `LoadGenerator` | 1 + 3 calls | `TotalIsAnswers`: the total never exceeds the answers and equals them until two additions overlap |
| `EchoServers` | 2 clients, 2 descriptors, a buffer of 2 units, 2 units each | `EchoExact`: each gets its own back in order, although descriptors are reused within a batch; `EchoServed`: and in the end, unless the ET server waits for another client |
| `ForkServers` | 2 clients and the logger, a pipe of 1 write, 2 messages each, 1 failed `fork` | `ZombieLedger`: one zombie per signal in progress and one per signal that coalesced; `ClientsReleased`: each connection is closed by both processes, unless `fork` failed or the pipe is full for good |
| `ThreadServers` | 2 clients, 4 descriptors, of which the HTTP server inherits any number, 4 kinds of requests | `ChatTableExact`: until a thread is overtaken or a client leaves from the middle, the table is the clients in the chat. `HttpAnswersOwn`: until a thread is overtaken, the HTTP server dies only of the causes `HttpCrashCause` lists, each client is answered once, with what it asked unless `strtok` was shared or no descriptor was left for its file, and only a missing file leaves its connection open |
| `StreamPairs` | buffer 2, TCP room 3, 4 units typed | `PairsFinish`: both sides end and everything arrived |

**Why these bounds.** *Pool.* Three nodes make the list pass through none, one, two and
three jobs, which are all the cases of `thpool_jobqueue_add` and
`thpool_jobqueue_removelast` and one more; three submissions with two nodes make
`malloc` reuse a node; two workers hold two jobs while main is in between. Two
clock values separate a job that is too old from one that is not. The proofs of
section 5 remove these bounds for every invariant of every passing run and for the three
refinements. *Server.* Two
connections are the one that is disturbed and the one that inherits its
descriptor or its slot; two workers let a reply be under way on each. Clock values
0..2 with time-out 1 let a connection become too old while its job is queued or
running, and let the sweep happen once or twice. One slot with two descriptors
(`server_service`) reaches the cap and the refusal when no slot is free, which
two slots never reach: the accept thread can pass the cap test before it counts up.
*Manager.* Two submitters race for the one place of the queue, three calls make a
`Task` object go round the spare list and come back, two thread objects let one
thread die and another take over, and one fault reaches every consequence of a
fault: a task given to a thread that left, a dispatcher waiting for a thread that
will not come, the lock order.
*Programs.* Each part has two of whatever can interfere with its like, and one
of each failure; buffers are larger than one unit and smaller than what is sent,
so that reads fill them, leave a rest and end exactly at the end. Three clients of
`ThreadServers` are too many for the run; that the HTTP server may begin with some of its four
descriptors in use lets two clients meet every shortage that many clients would bring about.

**Fairness and why the code justifies it.** Every thread that can run is
eventually scheduled: weak fairness of main inside a call, of each worker, of the
accept thread. `Take` of the pool has strong fairness: a worker waiting for the mutex
gets it if it is free again and again; main holds it for a few instructions per
submission, and once a minute in `delete_timeout_job`. In `PoolManager` the timed
waits of the dispatcher (60 s) and of `CheckIdleTask` end, submitters inside a call
and the owner proceed, and the dispatcher and the pool threads have strong fairness for
the same reason as `Take`: the mutexes they wait for are held briefly and are free again
and again. In `programs` the threads and processes that the liveness
properties are about (log, echo and forking servers, pairs) proceed inside a call, and
the thread a signal interrupted gets `log_mutex` (strong fairness of `SigLock`).
A child or a server gets what arrived; the user of a `StreamPairs`
client may stop typing at any time, and `PairsFinish` therefore begins at what was typed.
Nothing is assumed of
clients (`Ask`, `Accept`), of the signal (`Sigterm`), of time (`Tick`), or of main
calling the pool. `EveryJobRuns` therefore allows that main stops the pool instead.

**Why some properties have conditions.** A property with a condition states
what exactly it takes to break the promise, and a mutant shows that
the condition is no excuse for anything else. The liveness and refinement runs keep
the clock within the time-out. `pool_safety` and `server_safety`, whose clocks run
past it, show what is left then: the ledger stays exact but tokens outnumber jobs, so a worker can
find no job, and the descriptor accounts fail as described in section 4.

**Deadlock** is checked except where the system may stop: in `pool_safety` and
`pool_stale_tail` (a crashed process, or one in which a worker left with the mutex),
in the three runs of `PoolManager` (a destroyed manager, or undefined behaviour), in
`programs` and `chat_leaver` (all clients are done, or one of the stops the properties
name: a signal handler waiting for its own thread, a full pipe, undefined behaviour).
`StopReturns`, `PairsFinish` and `ClientsReleased` say which stops are allowed.

Every property of a passing run has a mutant in `PROJECT.json`: a definition of the
model replaced by a plausible mistake (a token posted only for the first job, one
token too few at shutdown, the head peeked instead of the tail, a missing reset,
a look-up that returns the past-the-end index ...), for which TLC finds the
property violated.

## 4. Disagreements found

* **`delete_timeout_job` reads the tail before locking** (`server/thread_pool.c:270`,
  lock at 275; the mutex is "used to serialize queue access", line 20). A worker that
  takes the tail in between leaves main with a job that is running or freed, which main
  frees again if it is old enough. Run `pool_stale_tail`.
* **An event whose descriptor is not in the table** (`server/g_net_update.c:550`: "as it must be
  in events[]"). A worker looks up its slot, the sweep frees the slot and closes
  the connection, the accept thread gives the slot to a new connection, the worker
  frees it. Run `server_lost_event`.
* **`current_connected_total` is not "the connections number"**
  (`server/g_net_update.c:25`): a connection that fails to register keeps its slot and is counted down
  by the sweep without having been counted; a connection swept while its job waits is
  counted down twice. Run `server_drift`. The error is one-sided:
  `CapNeverStarves` shows that the counter never exceeds the connections, so the cap
  lets in too many and never stops accepting for good.
* **"It exits only when all tasks in the task pool have been executed"**
  (`thread_pool/threadpoolmanager.h:9`, in Chinese). The dispatcher finds the queue empty,
  then reads the stop flag; a task that `Run` accepted in between stays in the queue and is
  deleted with it (`threadpoolmanager.cpp:109`, 121, 150). Run `manager_lost_task`.
  `TakenTasksRun`, proved (`TakenTasksAreRun`), and `ImplementsTaskService` show that without a
  fault every other task has been run by then.
* **"remove disconnencted client"** (`tcpip_network_programming/chat_pthread_server.c:107`):
  the loop below counts up before it copies, so the leaver's entry stays and the one behind
  it is overwritten, unless the leaver is the last. Run `chat_leaver`.

Met while modelling, and part of the models without a run of their own:

* `file_client.c:55` stores a buffer it never filled; `echo_epoll_ET_server.c:135` never makes
  its sockets non-blocking; the lock of `connection_pool.cpp` is never initialised.
* A `pthread_create` that fails in `ThreadPool::Run` drops the task; more threads than
  `m_poolMax` can exist, since a thread counts itself only when it starts. `taskpool.h:29`
  calls `maxSize` the maximum number of tasks ("最大任务数"), but `Run` looks at the length and pushes
  in two critical sections, so that submitters that race overrun it, by one each at
  most (`QueueOverrun`).
* `http_server.c:146` copies from NULL when the name has no extension, as in
  `GET / HTTP/1.1`: the server dies. Line 89 ignores the result of `fgets`, so a client that
  leaves without a request has the thread parse a buffer that was never filled.
* `strtok` at `http_server.c:97`, 98, 145 and 146 is shared by the threads: a client can be
  answered with the file another one asked for, or the server dies as above.
* `http_server.c:121` opens a file that is never closed, and the return behind it leaves the
  connection open. When no descriptor is left, `dup` or `accept` fails unnoticed and the server
  dies of a NULL stream, and a file that exists is answered as missing.
* Any write of that server to a client that has left may end it with SIGPIPE.

Not part of the models: `dumpInfo` (`g_net_update.c:346-350`), called for every request
(line 568), overflows its buffer of 128 characters when a request has 64 bytes or more.

## 5. The proofs

Each theorem holds for every value of the constants that satisfies the module's one
assumption (finite sets of threads, natural bounds, distinct values); a passing run
evaluates each assumption.

| theorem | statement |
|---|---|
| `ThreadPoolProofs!TypeCorrect` | `Spec => []TypeOK` |
| `ThreadPoolProofs!LedgerExact` | `Spec => []SemaphoreLedger` |
| `ThreadPoolProofs!QueueStaysLinked` | `Spec => []QueueWellFormed` |
| `ThreadPoolProofs!JobsAreOwned` | `Spec => []JobOwnership` |
| `ThreadPoolProofs!FaultsComeFromEviction` | `Spec => []FaultsNeedEviction` |
| `ThreadPoolProofs!PoolIsWorkQueue` | `MaxTime <= TimeOut` gives `Spec => ImplementsWorkQueue` |
| `ThreadPoolProofs!NobodyIsLeftAsleep` | `Spec => []NobodyLeftAsleep` |
| `GNetServerProofs!Types` | `Spec => []TypeOK` |
| `GNetServerProofs!Ownership` | `Spec => []OneOwner` |
| `GNetServerProofs!CapLeavesRoom` | `Spec => []CapNeverStarves` |
| `GNetServerProofs!CounterIsExact` | `Spec => []CounterExact` |
| `GNetServerProofs!TableIsExact` | `Spec => []TableExact` |
| `GNetServerProofs!RepliesReachAskers` | `Spec => []ReplyToAsker` |
| `GNetServerProofs!GentleServerServes` | `Spec /\ [][Gentle]_vars => ImplementsConnectionService` |
| `GNetServerProofs!ServerServes` | `MaxTime <= TimeOut` gives `Spec => ImplementsConnectionService` |
| `PoolManagerProofs!ManagerTypesHold` | `Spec => []TypeOK` |
| `PoolManagerProofs!TaskObjectsOwned` | `Spec => []TaskObjectOwned` |
| `PoolManagerProofs!QueueNearlyBounded` | `Spec => []QueueOverrun` |
| `PoolManagerProofs!TasksAreKept` | `Spec => []TaskKept` |
| `PoolManagerProofs!FaultsHaveCause` | `Spec => []FaultsNeedCause` |
| `PoolManagerProofs!TakenTasksAreRun` | `Spec => []TakenTasksRun` |
| `PoolManagerProofs!UndisturbedPoolServes` | `Spec /\ []~Disturbed => ImplementsTaskService` |
| `PoolManagerProofs!UndisturbedPoolNeverSticks` | `Spec => []EveryWaitHasAWaker` |
| `ConnPoolProofs!ConnectionsCounted` | `ConnSpec => []ConnLedger` |
| `ConnPoolProofs!NoPlaceIsLost` | `ConnSpec => FullMeansLent`, an action property |
| `ServerPartsProofs!NodesSharedByReinit` | `SqlSpec => []SqlNodeUse` |
| `ServerPartsProofs!LinesNeverRepeat` | `LogSpec => []LogLines` |
| `ServerPartsProofs!LogMisusedOnlyLate` | `LogSpec => []LogFaultsNeedCause` |
| `ServerPartsProofs!ReplyLeavesInOrder` | `IOSpec => []ReplyInOrder` |
| `ServerPartsProofs!TotalNeverExceedsAnswers` | `LoadSpec => []TotalIsAnswers` |
| `SampleProofs!ZombiesAccounted` | `ForkSpec => []ZombieLedger` |
| `SampleProofs!EchoIsExact` | `EchoSpec => []EchoExact` |
| `SampleProofs!ChatTableIsExact` | `ThreadSpec => []ChatTableExact` |
| `SampleProofs!HttpClientsGetTheirs` | `ThreadSpec => []HttpAnswersOwn` |
| `SampleProofs!ForkTypesHold` | `ForkSpec => []ForkTypes` |
| `SampleProofs!EchoTypesHold` | `EchoSpec => []EchoTypes` |
| `SampleProofs!StreamTypesHold` | `StreamSpec => []StreamTypes` |
| `SampleProofs!EchoesComeInOrder` | `StreamSpec => []EchoedSoFar` |
| `SampleProofs!PairsEndDelivered` | `StreamSpec => []EndsDelivered` |
| `SampleProofs!PairsNeverStick` | `StreamSpec => []SomebodyGoes` |
| `ProgramProofs!ProgramTypesHold` | `MCSpec => []ProgramTypes` |
| `ProgramProofs!ProgramsAreSafe` | `MCSpec => [](...)`, the ten safety invariants of section 3.1 |

The first seven are about `ThreadPool!Spec` for any finite set of workers, any set
of nodes (also an infinite one), any time-out (the refinement excepted), any number of
submissions and any bound of the clock.

**Types.** `TypeOK` is not inductive: a worker's `job` and main's `newjob` may be
NULL, but not where they are used. `TypeInv` adds that (`LocalsOK`).

**The ledger.** `sem + Claiming + Wedged = jobN + evicted` while the pool runs: every token is in
the semaphore, in the hands of a worker that has not taken its job yet, or used up
by a worker that found none; every job is listed or was deleted. The step proof
follows one worker in or out of `Claimers` (`ClaimersGrow`, `ClaimersShrink`,
`ClaimersKept`, from the library's cardinality theorems). `MainPlace` is needed
to know that `DeleteDone` releases main's own lock and that nothing
after `thpool_destroy` began counts.

**The healthy pool.** None of `QueueStaysLinked`, `JobsAreOwned` and
`FaultsComeFromEviction` can be proved on its own. A worker's `removelast` is safe because there is a job for it; that comes
from the ledger while the pool runs (`TakersHaveJobs`), and once
`thpool_keepalive` is 0 from the fact that no worker sets out for a job any more
while the ones that did each take one of the jobs that are there. That the tail it
unlinks is a live node comes from ownership; that ownership
survives a take needs the list to have no node twice and the tail to be its first
element; and the links survive an addition because the new node is
not in the list, which is ownership again. `thpool_jobqueue_empty` reads the chain without the
lock: `LastCall` says that every worker has left by then and that its `curjob` is the
tail. The inductive invariant `HealthInv` is `LedgerInv` with all of these under
`evicted = 0`, and the proof has a lemma per conjunct with a case per action.
`pool_safety` model-checks the three invariants it implies.

**The refinement.** With `MaxTime <= TimeOut` (the clock cannot pass the time-out, as in
`pool_service`) `CurjobTimedOut` is never true, so `evicted` stays 0 and `HealthInv`
holds without its condition. `RefinementInv` adds that each live node carries the
number of its own submission, no two the same (`Numbered`: freeing one job
finishes one job of the queue), and that main submits only while the pool is
open. `JobQueueAdd` is then `Submit`, `Take` is `Claim`, `Free` is `Finish`,
`DestroyStop` is `Close`, `EmptyOne` is `Drop` (no worker has a job then, by
`LastCall`), and every other step stutters.

**The pool: nobody left asleep.** `DestroyReturns` and `EveryJobRuns` are liveness properties; what
must not happen for them to fail is a state in which everybody waits. `NobodyLeftAsleep` excludes
these: while `thpool_destroy` joins, a worker that has not returned finds a token or the free
mutex, and a listed job has a token or a worker that is on its way. The second follows from
the ledger. The first needs `JoinInv`: while main joins there are at least as many tokens
as workers at `sem_wait` (main posts one per worker, and a token is used only by a worker that
leaves the wait), and main holds the mutex over a step only in the loop of `delete_timeout_job`.
It holds under any deletions, but not after a fault (`Faultless`), because a worker that returns
with the mutex locks everybody out.

**The server: who has a descriptor.** `OneOwner` follows from `Own`, which says where
each descriptor is: with the accept thread, in epoll, in main's hands, in a job or with
a worker, in at most one of these, and until SIGTERM in one exactly if it is open
(`Apart`, `Once`). What is reported and not handled yet is still watched
(`Waiting`). Each step hands one descriptor on or closes one, so the step proof names who had it
before and who has it after; `OwnFrame` does the steps that move nothing. `Own` is
preserved by every step that is `Gentle`: the sweep frees the slot of a connection
that waits in epoll, and deletes no job. A step that leaves `undisturbed` TRUE is one
(`StaysGentle`), so the invariant is `undisturbed => Own`; the refinement theorem
assumes `Gentle` steps, which allow an `EPOLL_CTL_ADD` to fail.

**The server: its accounts.** `TableExact` is `Listed`: a slot has a number exactly while
its connection is open, filled in and not about to be closed, and the index that a worker or main
found still names that slot, since whoever frees it owns the descriptor. With that the look-ups
succeed (`HeldIsListed`), and `CounterExact` is one more or one less on each side of each step.
`CapNeverStarves` needs none of this and no condition: `Cap` adds to the counter the
connections about to be counted (accept thread) and those counted down and not closed
yet (sweep, workers), and says that all of these are at most the open ones. A sweep that counts
down twice makes the left side smaller only.

**The server: its service.** `Asker` says that the descriptor of a job belongs to
the connection it was read from or to nobody, because it cannot be accepted again before
its one owner has closed it. `Serving` adds that a connection has one descriptor and one
request under way at most, and no reply while it has one, which is why `ReplyToAsker` can
promise one reply at most. `Ask` is then `Speak` of
`ConnectionService`, a successful send `Reply`, a close (or SIGTERM, which closes several) `Close`,
and all other steps stutter. `ServerServes` replaces the hypothesis about the steps by one about a
constant: a clock that cannot pass the time-out sweeps nobody (`NothingAges`).

**The Task objects.** `TaskInv` says of each allocated object where it is, without
counting: the two lists repeat nothing and share nothing, a submitter has one
exactly in `push`, the dispatcher in the steps of `Holding`. Only five actions move
an object; the others preserve it by one lemma (`TasksStay`), except `AddTask` and `Kick`,
which change who is inserting. `CheckIdleTask` deletes a suffix of
the spare list, so what it deletes is nowhere else. The count in `TaskObjectOwned` is
derived at the end. The queue's bound is not inductive: `Overrun` adds the submitters
between the test and the insertion to the length of the queue. What list
operations do to lists without repetitions is `DistinctSequences`, which
`ConnPoolProofs` uses too.

**The connection pool.** `ConnInv` is `ConnLedger` with the types; the number of lent
connections follows each loan and release (`LentCount`). `NoPlaceIsLost` is the action
property that a caller is refused only while `maxSize` connections are lent.
No run checks it separately; it is proved.

**The tasks.** `TypedInv` holds whatever fails: `m_totalNum` is the number of threads that
counted themselves, and the owner ends submitters, dispatcher and threads in this order
(`OwnerPlace`). What holds while no thread timed out, woke up for nothing or
could not be created (`Healthy`) has four parts that need each other. `IdleThreads`: the
threads of the idle list wait, each in it once, and the one the dispatcher took from
the list still waits for it. `EmptySlots`: a waiting thread has no task, so that none is overwritten; and
when `TerminalCheck` is done nobody has one. `Numbered`: each accepted task is in one Task
object, with one thread or in `done`, and no two places have the same. `Sound`: nothing
undefined has happened before the manager is gone. `TaskKept`, `FaultsNeedCause`
and `TakenTasksRun` follow from these. When a task moves, its new place had none before;
`TaskPlaces` says so for the objects, and is proved without any condition.

**The C++ pool's service.** `TaskService` needs no order of acceptance, only the order of the
queue. `FillTask` is its `Accept`, `PushTask` its `Enter`, `GetTask` its `Assign`, `RunSlot` its
`Run` and the end of the destructor its `Destroy`; all other steps stutter, `HandTask` too, since the
task moves from the dispatcher's hands to a thread's slot and both are `assigned`. That each
of these moves takes a task from one place and puts it in no second one is `Numbered`; that
`Destroy` finds nothing assigned is `OwnerPlace` with `EmptySlots`. The condition `[]~Disturbed`
cannot be dropped: a fault can lose a task that was assigned (`Disturbed` is what `manager_safety`'s one
fault causes).

**The C++ pool: no wait without a waker.** `Waits` says that a waiting thread is in the idle
list or about to be woken, that the dispatcher waits only while the list is empty, and
that there is a thread whenever it is about to wait. The last part is what the `if` of
`GetThreadRun` rests on: a new thread is created, or one is alive and must come to
the list. With the empty list no thread is at its signal, so the living one is on a way
that ends in the list. `Unborn`, which says that there is no dispatcher before `InitPool`
returned, closes the induction.

**The SQL pool.** `SqlInv` counts the threads on a node: one if its mutex is held and
one more per initialisation of a held mutex. `SqlHealth` says that a
node marked as connected has a handle until its mutex is initialised again or the pool
is destroyed; without it the second half of `SqlNodeUse` is not inductive.

**The log.** `LogInv` says that the file ends with `lastLog`, or is empty just after
it was started anew, so that the comparison with `lastLog` keeps equal lines apart; that it
has at most one line more than the count; and that a handle is closed only by main and NULL
only after a failed `fopen`. `LockHealth` gives the mutex one holder, a
signal handler on the holder's thread counted.

**The byte loops and the load generator.** What has left the server is, in `ReplyInOrder`, the
reply up to the number of bytes that are counted as sent; `IOInv` bounds what is left
by the reply and the number of EAGAINs, each of which moves the pointer back by one. `LoadInv` is the
usual one of an unlocked counter: a value that was read is at most what the counter
could be, which makes the total at most the answers, and equal to them until two additions
overlap.

**The forking servers.** `ForkHealth` says that the parent forks for a connection that
has no child yet, so that no process starts twice; that a handler in progress finds a
zombie to reap is the ledger itself. An end of a child then either
sets the pending signal or finds it set and coalesces.

**The echo servers.** `EchoInv` has three parts. `Streams`: what a client has in the
socket is the end of what it sent, and what it got back is the beginning. `Registered`: a
connection has one descriptor. `Reported`: an event of the current round that has not been handled is
about a descriptor that still belongs to the connection it was reported for and is still
ready, and there is one per descriptor. The last part is what a closed and reused
descriptor would break; it holds because a descriptor is closed only while its
own event is handled, and every other descriptor of the round is open, so that `accept` cannot return it.

**The servers with a thread per client.** `ThreadPlaces` says that a client is accepted
once and its thread created by main's next steps, so that `sock_client` is the newest client's
until the next `accept`. `Counting` makes `count_client` the number of clients in the
chat whatever was removed, so that no removal meets an empty table. `TableRows` and `AnswerRow`, the
first for the chat and the second for each HTTP connection, say which descriptors lead to a
client at each step of its thread (`FdsOf`): one until its thread has closed it, or, for HTTP,
none, one, two (one when `dup` failed), one, none (one after a missing file). The table is then
exactly the descriptors of the clients in the chat, and no HTTP thread can meet a descriptor
that another one has closed. `OwnRow` follows the line: the client asked once, and what its thread holds
in `reqLine` is what it asked unless the thread is `mixed` or the client left. Every step
that ends the process leaves one of the causes behind, and a dead process takes no step, so
the cause stays.

**The pairs.** `StreamInv` describes, for each kind of pair, what is on its way in terms of what was
sent: the bytes in a socket, in a buffer and in a reader's hands are consecutive parts (`Part`) of
what the peer wrote, so no enumeration of the cuts is needed. With the places (who has ended after
what) this gives the order of the echoes at any time and delivery at the end. `SomebodyGoes` is
the rest of `PairsFinish` that is no matter of fairness: in every state in which a pair is not
over and no user is asked to type, a process has something to read, sees the end of the
stream, or has room to write. Its three disjuncts repeat the guards of the actions; they were compared
with `ENABLED` of these actions by TLC, because the prover does not know `ENABLED`. It is the property
that fails if one side waits for an end of the stream that the other one never sends.

**The programs side by side.** A step of `MCSpec` is a step of one part and a stutter of the others
(`EveryPartSteps`), so every behaviour of `MCSpec` is a behaviour of each part, and the
theorems about the parts hold of it. `ProgramTypes` and the other invariants the run checks
follow.

**Only model-checked:**

* Liveness and the properties that need fairness (`EveryJobRuns`, `DestroyReturns`,
  `EveryAskerServed`, `SigtermStops`, `AcceptedRuns`, `StopReturns`, `PairsFinish`,
  `SigtermHandled`, `EchoServed`, `ClientsReleased`), which are out of the prover's reach.
* The other half of `DestroyReturns`, `EveryJobRuns`, `StopReturns` and `PairsFinish` is proved:
  no state is reached in which nobody who could end the wait can go on (`NobodyLeftAsleep`,
  `EveryWaitHasAWaker`, `SomebodyGoes`, `EndsDelivered`).
* That the promises fail where the five violation runs show it.

The prover has no induction over data, so no theorem says what a recursive definition computes.
Where a proof needs a least element or a step from n to n + 1, it takes it from the
well-foundedness of `<` on the natural numbers, for a set (`SetInduction` of
`DistinctSequences`).

## 6. Not modelled

* In `GNetServer` the byte loops succeed or fail as a whole; `SocketIO` has their steps.
* `malloc` failing in `thpool_add_work`: main ignores its result, so the connection
  would be left without an owner until the sweep. Listed as a hazard.
* Start-up: `fork`, `setsid`, limits, socket options, the configuration parser.
  They run once, before there is a second thread.
* The per-slot mutexes: each protects the two or three writes to one record, and
  the unlocked reads are reads of one word, so a slot's write is one step.
* `socket_status` and the client address of a slot are written and never tested.
* The configuration (`config_info.c`, `file_operations.c`): a parser that runs once in
  one thread and keeps nothing but its result.
* Of the samples, those that call one socket, process or conversion function each and
  keep no state from one call to the next, and the UDP pairs, which answer one
  datagram at a time. `CLIENT_MAX` of the chat server is not reached, the method and the name of
  an HTTP request fit their buffers (10 and 30 bytes), `pthread_create` succeeds in the samples,
  clients of the echo servers end by shutting down their sending side
  and never reset their connection.
* An `accept` of the HTTP server that fails is taken to end it at once. A later `accept` could
  overwrite the -1 before the thread has read it; that thread would be overtaken, and nothing is
  promised of it. What a connection that was reset loses counts as received.
* Requests to `GNetServer` of 64 bytes or more (`dumpInfo`, section 4), and errors of
  `sem_wait`, which would end the process.
* In `GNetServer` the SIGTERM handler is one step; that it can wait for its own thread is in
  `ServerLog`.
* What is undefined in C or C++ is not followed beyond the step that does it:
  the model stops there (`crashed`, `undefined`, `logUndefined`, `killed`), or takes every outcome of a
  single read (`junk`, `hung`).

## 7. What is left

The modules of the first plan are written; a composition of `GNetServer` with the
detailed `ThreadPool` was given up, since the product of their states is too large and
`PoolIsWorkQueue` already justifies the FIFO. What would add most:

1. An allocation failure in `thpool_add_work` (the hazard without a property).
2. Liveness of the parts by hand-made ranking arguments: no installed backend handles `ENABLED`, so
   these would remain outside the machine-checked part.
3. A safety half for the other liveness properties (`EveryAskerServed`, `SigtermStops`,
   `EchoServed`, `ClientsReleased`), as `NobodyLeftAsleep` is for the pool's.
