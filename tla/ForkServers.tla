---------------------------- MODULE ForkServers ----------------------------
(***************************************************************************)
(* The echo servers with a process per client: echo_concurrency_server.c   *)
(* ("echo") and echo_concur_pipe_server.c ("pipe"), whose children also    *)
(* write what they read into a pipe; a logger process, the first child,    *)
(* reads the pipe three times and exits.  A client shuts down its sending  *)
(* side when it is done and goes on reading.                               *)
(*                                                                         *)
(* SIGCHLD is one pending bit; its handler calls waitpid once.  The signal *)
(* also ends an accept, which is then called again.                        *)
(***************************************************************************)
EXTENDS Integers, FiniteSets

CONSTANTS
  ForkClients,
  PipeCapacity,   (* writes the pipe holds                                 *)
  LoggerReads,    (* three                                                 *)
  MaxForkSends,   (* bound: messages each client sends                     *)
  MaxForkFails    (* bound: failed calls of fork                           *)

ASSUME ForkAssumption ==
  /\ IsFiniteSet(ForkClients) /\ "logger" \notin ForkClients
  /\ PipeCapacity \in Nat \ {0} /\ LoggerReads \in Nat \ {0}
  /\ MaxForkSends \in Nat /\ MaxForkFails \in Nat

Processes == ForkClients \cup {"logger"}

VARIABLES
  forkKind,
  forkClient,     (* per client: "away", "backlog", "connected", "done"    *)
  toChild,        (* messages sent and not yet read                        *)
  sendsLeft,
  parentConn,     (* the connection of the parent's current iteration      *)
  parentFds,      (* connections the parent has a descriptor of            *)
  childPc,        (* per process: "none", "read", "pipe", "zombie", "reaped" *)
  pipeLen, loggerLeft,
  sigPending, inHandler,
  coalesced,      (* history: SIGCHLDs that found one pending              *)
  forkFailed      (* history: clients fork failed for                      *)

forkVars == <<forkKind, forkClient, toChild, sendsLeft, parentConn, parentFds, childPc,
              pipeLen, loggerLeft, sigPending, inHandler, coalesced, forkFailed>>

peerVars == <<forkKind, forkClient, toChild, sendsLeft>>
pipeVars == <<pipeLen, loggerLeft>>
sigVars  == <<sigPending, inHandler, coalesced>>

NoConn == "none"

(* The pipe server forks its logger first.                                 *)
ForkInit ==
  /\ forkKind \in {"echo", "pipe"}
  /\ forkClient = [c \in ForkClients |-> "away"]
  /\ toChild = [c \in ForkClients |-> 0] /\ sendsLeft = [c \in ForkClients |-> MaxForkSends]
  /\ parentConn = NoConn /\ parentFds = {}
  /\ childPc = [p \in Processes |->
                  IF p = "logger" /\ forkKind = "pipe" THEN "read" ELSE "none"]
  /\ pipeLen = 0 /\ loggerLeft = LoggerReads
  /\ sigPending = FALSE /\ inHandler = FALSE /\ coalesced = 0 /\ forkFailed = {}

Becomes(p, l) == childPc' = [childPc EXCEPT ![p] = l]

-----------------------------------------------------------------------------
(* The clients.                                                            *)

ForkConnect(c) ==
  /\ forkClient[c] = "away"
  /\ forkClient' = [forkClient EXCEPT ![c] = "backlog"]
  /\ UNCHANGED <<forkKind, toChild, sendsLeft, parentConn, parentFds, childPc, pipeVars,
                 sigVars, forkFailed>>

ForkSend(c) ==
  /\ forkClient[c] = "connected" /\ sendsLeft[c] > 0
  /\ sendsLeft' = [sendsLeft EXCEPT ![c] = @ - 1]
  /\ toChild' = [toChild EXCEPT ![c] = @ + 1]
  /\ UNCHANGED <<forkKind, forkClient, parentConn, parentFds, childPc, pipeVars, sigVars,
                 forkFailed>>

ForkDone(c) ==
  /\ forkClient[c] = "connected"
  /\ forkClient' = [forkClient EXCEPT ![c] = "done"]
  /\ UNCHANGED <<forkKind, toChild, sendsLeft, parentConn, parentFds, childPc, pipeVars,
                 sigVars, forkFailed>>

-----------------------------------------------------------------------------
(* The parent, when it is not in the handler.                              *)

ForkAccept(c) ==
  /\ ~inHandler /\ parentConn = NoConn /\ forkClient[c] = "backlog"
  /\ forkClient' = [forkClient EXCEPT ![c] = "connected"]
  /\ parentConn' = c /\ parentFds' = parentFds \cup {c}
  /\ UNCHANGED <<forkKind, toChild, sendsLeft, childPc, pipeVars, sigVars, forkFailed>>

(* After a failed fork the loop goes on and keeps the descriptor.          *)
KeepFd(c) == parentFds
CloseOwn(c) == parentFds \ {c}

Fork ==
  /\ ~inHandler /\ parentConn # NoConn
  /\ \/ /\ Becomes(parentConn, "read")
        /\ parentFds' = CloseOwn(parentConn)
        /\ UNCHANGED forkFailed
     \/ /\ Cardinality(forkFailed) < MaxForkFails
        /\ forkFailed' = forkFailed \cup {parentConn}
        /\ UNCHANGED <<childPc, parentFds>>
  /\ parentConn' = NoConn
  /\ UNCHANGED <<peerVars, pipeVars, sigVars>>

(* read_childproc: the pending bit is cleared, then one zombie is reaped.  *)
SigChld ==
  /\ sigPending /\ ~inHandler
  /\ sigPending' = FALSE /\ inHandler' = TRUE
  /\ UNCHANGED <<peerVars, parentConn, parentFds, childPc, pipeVars, coalesced, forkFailed>>

Zombies == {p \in Processes : childPc[p] = "zombie"}

Waitpid ==
  /\ inHandler
  /\ IF Zombies = {} THEN UNCHANGED childPc ELSE \E p \in Zombies : Becomes(p, "reaped")
  /\ inHandler' = FALSE
  /\ UNCHANGED <<peerVars, parentConn, parentFds, pipeVars, sigPending, coalesced, forkFailed>>

-----------------------------------------------------------------------------
(* The children.                                                           *)

(* A second SIGCHLD finds the first one pending and is lost.               *)
LoseSigchld == UNCHANGED <<sigPending, coalesced>>
RaiseSigchld ==
  /\ sigPending' = TRUE
  /\ coalesced' = IF sigPending THEN coalesced + 1 ELSE coalesced

Exit(p) ==
  /\ Becomes(p, "zombie")
  /\ RaiseSigchld
  /\ UNCHANGED inHandler

ChildEcho(c) ==
  /\ childPc[c] = "read" /\ toChild[c] > 0
  /\ toChild' = [toChild EXCEPT ![c] = @ - 1]
  /\ IF forkKind = "pipe" THEN Becomes(c, "pipe") ELSE UNCHANGED childPc
  /\ UNCHANGED <<forkKind, forkClient, sendsLeft, parentConn, parentFds, pipeVars, sigVars,
                 forkFailed>>

(* A full pipe makes the child wait: the parent keeps it open and never    *)
(* reads it.                                                               *)
ChildLog(c) ==
  /\ childPc[c] = "pipe" /\ pipeLen < PipeCapacity
  /\ pipeLen' = pipeLen + 1
  /\ Becomes(c, "read")
  /\ UNCHANGED <<peerVars, parentConn, parentFds, loggerLeft, sigVars, forkFailed>>

ChildEnd(c) ==
  /\ childPc[c] = "read" /\ toChild[c] = 0 /\ forkClient[c] = "done"
  /\ Exit(c)
  /\ UNCHANGED <<peerVars, parentConn, parentFds, pipeVars, forkFailed>>

(* One read takes at most a buffer of what is in the pipe.                 *)
LoggerRead ==
  /\ childPc["logger"] = "read" /\ pipeLen > 0
  /\ \E k \in 1 .. pipeLen : pipeLen' = pipeLen - k
  /\ loggerLeft' = loggerLeft - 1
  /\ IF loggerLeft = 1 THEN Exit("logger") ELSE UNCHANGED <<childPc, sigVars>>
  /\ UNCHANGED <<peerVars, parentConn, parentFds, forkFailed>>

Child(c) == ChildEcho(c) \/ ChildLog(c) \/ ChildEnd(c)
Parent == Fork \/ SigChld \/ Waitpid \/ \E c \in ForkClients : ForkAccept(c)

ForkNext ==
  \/ Parent \/ LoggerRead
  \/ \E c \in ForkClients : ForkConnect(c) \/ ForkSend(c) \/ ForkDone(c) \/ Child(c)

ForkSpec == ForkInit /\ [][ForkNext]_forkVars

(* Every process runs when it can; no client has to do anything.           *)
ForkFairness ==
  /\ WF_forkVars(Parent) /\ WF_forkVars(LoggerRead)
  /\ \A c \in ForkClients : WF_forkVars(Child(c))

-----------------------------------------------------------------------------
ForkTypes ==
  /\ forkKind \in {"echo", "pipe"}
  /\ forkClient \in [ForkClients -> {"away", "backlog", "connected", "done"}]
  /\ toChild \in [ForkClients -> Nat] /\ sendsLeft \in [ForkClients -> 0 .. MaxForkSends]
  /\ parentConn \in ForkClients \cup {NoConn} /\ parentFds \subseteq ForkClients
  /\ childPc \in [Processes -> {"none", "read", "pipe", "zombie", "reaped"}]
  /\ pipeLen \in 0 .. PipeCapacity /\ loggerLeft \in 0 .. LoggerReads
  /\ sigPending \in BOOLEAN /\ inHandler \in BOOLEAN /\ coalesced \in Nat

(* Zombies: one per signal that is pending or being handled, and one for   *)
(* ever per signal that found another pending.  No waitpid is wasted.      *)
ZombieLedger ==
  Cardinality(Zombies) =
    (IF sigPending THEN 1 ELSE 0) + (IF inHandler THEN 1 ELSE 0) + coalesced

(* The server's end of c's connection is open in some process.             *)
Held(c) == c \in parentFds \/ childPc[c] \in {"read", "pipe"}

PipeDead == childPc["logger"] \in {"zombie", "reaped"} /\ pipeLen = PipeCapacity

(* A client that is done sees the end of its connection, which both        *)
(* processes have to close, unless fork failed for it or the logger has    *)
(* left the pipe full.                                                     *)
ClientsReleased ==
  \A c \in ForkClients :
    forkClient[c] = "done" ~> (~Held(c) \/ c \in forkFailed \/ PipeDead)
=============================================================================
