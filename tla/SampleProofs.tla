---------------------------- MODULE SampleProofs ----------------------------
(***************************************************************************)
(* What holds of the network programming samples for every value of their  *)
(* constants: the forking servers, the single-threaded echo servers, and   *)
(* the servers with a thread per client, and the pairs of a client and a   *)
(* server.                                                                 *)
(***************************************************************************)
EXTENDS ForkServers, EchoServers, ThreadServers, StreamPairs, DistinctSequences,
        FiniteSetTheorems, SequenceTheorems, WellFoundedInduction, TLAPS

-----------------------------------------------------------------------------
(* The ledger of zombies of the forking servers, for any number of clients *)
(* and any schedule of exits and signals: exactly the SIGCHLDs that found  *)
(* one pending leave a zombie for ever.                                    *)

(* A connection that has not been handed to a child has none, and the      *)
(* parent's next fork is for a connection without a child.                 *)
ForkHealth ==
  /\ childPc \in [Processes -> {"none", "read", "pipe", "zombie", "reaped"}]
  /\ parentConn \in ForkClients \cup {NoConn}
  /\ sigPending \in BOOLEAN /\ inHandler \in BOOLEAN /\ coalesced \in Nat
  /\ \A c \in ForkClients : forkClient[c] \in {"away", "backlog"} => childPc[c] = "none"
  /\ forkClient \in [ForkClients -> {"away", "backlog", "connected", "done"}]
  /\ parentConn # NoConn =>
       childPc[parentConn] = "none" /\ forkClient[parentConn] \in {"connected", "done"}

ForkInv == ForkHealth /\ ZombieLedger

(* What the ledger owes to signals.                                        *)
Pending  == IF sigPending THEN 1 ELSE 0
Handling == IF inHandler THEN 1 ELSE 0

USE ForkAssumption DEF ForkAssumption
-----------------------------------------------------------------------------
LEMMA ZombieCount ==
  ASSUME NEW S \in SUBSET Processes, NEW p \in Processes
  PROVE  /\ Cardinality(S) \in Nat
         /\ p \notin S => Cardinality(S \cup {p}) = Cardinality(S) + 1
         /\ p \in S => Cardinality(S \ {p}) = Cardinality(S) - 1
<1>1. IsFiniteSet(Processes)
  BY FS_AddElement DEF Processes
<1>2. IsFiniteSet(S)
  BY <1>1, FS_Subset
<1> QED
  BY <1>2, FS_AddElement, FS_RemoveElement, FS_CardinalityType

LEMMA LedgerIs ==
  ZombieLedger <=> Cardinality(Zombies) = Pending + Handling + coalesced
BY Zenon DEF ZombieLedger, Pending, Handling

(* A process that was running exits: one zombie more, and either the       *)
(* signal becomes pending or one is lost.                                  *)
LEMMA ExitKeepsLedger ==
  ASSUME ForkInv, NEW p \in Processes, childPc[p] = "read", Exit(p)
  PROVE  ZombieLedger'
<1>1. Zombies' = Zombies \cup {p} /\ p \notin Zombies /\ Zombies \in SUBSET Processes
  BY DEF Zombies, Exit, Becomes, ForkInv, ForkHealth
<1>2. Cardinality(Zombies') = Cardinality(Zombies) + 1 /\ Cardinality(Zombies) \in Nat
  BY <1>1, ZombieCount
<1>3. Cardinality(Zombies) = Pending + Handling + coalesced
  BY LedgerIs DEF ForkInv
<1>4. Handling' = Handling /\ Handling \in Nat /\ Pending \in Nat
  BY DEF Exit, Handling, Pending
<1>5. Pending' = 1 /\ coalesced' = coalesced + Pending
  <2>1. CASE sigPending
    BY <2>1 DEF Exit, RaiseSigchld, Pending
  <2>2. CASE ~sigPending
    BY <2>2 DEF Exit, RaiseSigchld, Pending, ForkInv, ForkHealth
  <2> QED
    BY <2>1, <2>2
<1>6. coalesced \in Nat
  BY DEF ForkInv, ForkHealth
<1>7. Cardinality(Zombies') = Pending' + Handling' + coalesced'
  BY <1>2, <1>3, <1>4, <1>5, <1>6
<1> QED
  BY <1>7, Zenon DEF ZombieLedger, Pending, Handling

(* A step that makes no zombie and sends no signal.                        *)
LEMMA OthersKeepLedger ==
  ASSUME ForkInv, UNCHANGED sigVars,
         \A p \in Processes : childPc'[p] = "zombie" <=> childPc[p] = "zombie"
  PROVE  ZombieLedger'
<1>1. Zombies' = Zombies
  BY DEF Zombies
<1> QED
  BY <1>1, Zenon DEF ForkInv, ZombieLedger, sigVars

-----------------------------------------------------------------------------
LEMMA ForkStart == ForkInit => ForkInv
<1> SUFFICES ASSUME ForkInit
             PROVE  ForkInv
  OBVIOUS
<1>1. ForkHealth
  BY DEF ForkInit, ForkHealth, Processes, NoConn
<1>2. Zombies = {}
  BY DEF Zombies, ForkInit
<1>3. Cardinality(Zombies) = 0 /\ Pending = 0 /\ Handling = 0 /\ coalesced = 0
  BY <1>2, FS_EmptySet DEF ForkInit, Pending, Handling
<1>4. ZombieLedger
  BY <1>3, LedgerIs
<1> QED
  BY <1>1, <1>4 DEF ForkInv

(* One step per action; the ledger changes in Exit, SigChld and Waitpid.   *)
LEMMA ForkStep == ForkInv /\ [ForkNext]_forkVars => ForkInv'
<1> SUFFICES ASSUME ForkInv, [ForkNext]_forkVars
             PROVE  ForkInv'
  OBVIOUS
<1> USE DEF ForkInv
<1>1. ASSUME NEW c \in ForkClients, ForkConnect(c) \/ ForkSend(c) \/ ForkDone(c)
      PROVE  ForkInv'
  <2>1. /\ UNCHANGED <<parentConn, childPc, sigVars>>
        /\ forkClient' \in [ForkClients -> {"away", "backlog", "connected", "done"}]
        /\ \A d \in ForkClients :
             forkClient'[d] \in {"away", "backlog"} => forkClient[d] \in {"away", "backlog"}
    BY <1>1 DEF ForkConnect, ForkSend, ForkDone, ForkHealth, sigVars
  <2>2. ForkHealth'
    BY <2>1 DEF ForkHealth, sigVars
  <2> QED
    BY <2>1, <2>2, OthersKeepLedger
<1>2. ASSUME NEW c \in ForkClients, ForkAccept(c)
      PROVE  ForkInv'
  <2>1. ForkHealth'
    BY <1>2 DEF ForkAccept, ForkHealth, sigVars
  <2> QED
    BY <1>2, <2>1, OthersKeepLedger DEF ForkAccept
<1>3. CASE Fork
  <2>1. /\ parentConn \in ForkClients /\ parentConn \in Processes
        /\ childPc[parentConn] = "none" /\ forkClient[parentConn] \in {"connected", "done"}
        /\ parentConn' = NoConn /\ UNCHANGED <<forkClient, sigVars>>
        /\ childPc' = childPc \/ childPc' = [childPc EXCEPT ![parentConn] = "read"]
    BY <1>3 DEF Fork, Becomes, ForkHealth, Processes, peerVars
  <2>2. ForkHealth'
    BY <2>1 DEF ForkHealth, sigVars, Processes
  <2>3. \A p \in Processes : childPc'[p] = "zombie" <=> childPc[p] = "zombie"
    BY <2>1 DEF ForkHealth
  <2> QED
    BY <2>1, <2>2, <2>3, OthersKeepLedger
<1>4. CASE SigChld
  <2>1. ForkHealth' /\ UNCHANGED <<childPc, coalesced>>
    BY <1>4 DEF SigChld, ForkHealth, peerVars
  <2>2. Zombies' = Zombies
    BY <2>1 DEF Zombies
  <2>3. Pending' + Handling' = Pending + Handling /\ Pending + Handling \in Nat
    BY <1>4 DEF SigChld, Pending, Handling
  <2>4. Cardinality(Zombies') = Pending' + Handling' + coalesced'
    BY <2>1, <2>2, <2>3, LedgerIs
  <2> QED
    BY <2>1, <2>4, Zenon DEF ZombieLedger, Pending, Handling
<1>5. CASE Waitpid
  <2>1. /\ inHandler /\ inHandler' = FALSE
        /\ UNCHANGED <<peerVars, parentConn, sigPending, coalesced>>
        /\ IF Zombies = {} THEN UNCHANGED childPc ELSE \E p \in Zombies : Becomes(p, "reaped")
    BY <1>5 DEF Waitpid
  <2>2. /\ Cardinality(Zombies) = Pending + Handling + coalesced
        /\ Zombies \in SUBSET Processes
        /\ Handling = 1 /\ Pending \in Nat /\ coalesced \in Nat
        /\ Handling' = 0 /\ Pending' = Pending /\ coalesced' = coalesced
    BY <2>1, LedgerIs DEF Zombies, Handling, Pending, ForkHealth
  <2>3. Zombies # {}
    BY <2>2, FS_EmptySet
  <2>4. PICK p \in Zombies : childPc' = [childPc EXCEPT ![p] = "reaped"]
    BY <2>1, <2>3 DEF Becomes
  <2>5. p \in Processes /\ childPc[p] = "zombie"
    BY <2>4 DEF Zombies
  <2>6. ForkHealth'
    BY <2>1, <2>4, <2>5 DEF ForkHealth, peerVars, Processes
  <2>7. Zombies' = Zombies \ {p}
    BY <2>4, <2>5 DEF Zombies, ForkHealth
  <2>8. Cardinality(Zombies') = Cardinality(Zombies) - 1
    BY <2>2, <2>4, <2>5, <2>7, ZombieCount
  <2>9. Cardinality(Zombies') = Pending' + Handling' + coalesced'
    BY <2>2, <2>8
  <2> QED
    BY <2>6, <2>9, Zenon DEF ZombieLedger, Pending, Handling
<1>6. ASSUME NEW c \in ForkClients, ChildEcho(c) \/ ChildLog(c)
      PROVE  ForkInv'
  <2>1. /\ c \in Processes /\ UNCHANGED <<forkClient, parentConn, sigVars>>
        /\ childPc[c] \in {"read", "pipe"}
        /\ childPc' = childPc \/ \E l \in {"read", "pipe"} : childPc' = [childPc EXCEPT ![c] = l]
    BY <1>6 DEF ChildEcho, ChildLog, Becomes, Processes, peerVars
  <2>2. ForkHealth'
    BY <2>1 DEF ForkHealth, sigVars, Processes
  <2>3. \A p \in Processes : childPc'[p] = "zombie" <=> childPc[p] = "zombie"
    BY <2>1 DEF ForkHealth
  <2> QED
    BY <2>1, <2>2, <2>3, OthersKeepLedger
<1>7. ASSUME NEW p \in Processes, childPc[p] = "read", Exit(p),
             UNCHANGED <<forkClient, parentConn>>
      PROVE  ForkInv'
  <2>1. coalesced' \in Nat /\ sigPending' \in BOOLEAN /\ inHandler' \in BOOLEAN
    BY <1>7 DEF Exit, RaiseSigchld, ForkHealth
  <2>2. childPc' = [childPc EXCEPT ![p] = "zombie"]
    BY <1>7 DEF Exit, Becomes
  <2>3. ForkHealth'
    BY <1>7, <2>1, <2>2 DEF ForkHealth, Processes
  <2> QED
    BY <1>7, <2>3, ExitKeepsLedger
<1>8. ASSUME NEW c \in ForkClients, ChildEnd(c)
      PROVE  ForkInv'
  BY <1>7, <1>8 DEF ChildEnd, Processes, peerVars
<1>9. CASE LoggerRead
  <2>1. CASE loggerLeft = 1
    BY <1>7, <1>9, <2>1 DEF LoggerRead, Processes, peerVars
  <2>2. CASE loggerLeft # 1
    <3>1. UNCHANGED <<forkClient, parentConn, childPc, sigVars>>
      BY <1>9, <2>2 DEF LoggerRead, peerVars
    <3>2. ForkHealth'
      BY <3>1 DEF ForkHealth, sigVars
    <3> QED
      BY <3>1, <3>2, OthersKeepLedger
  <2> QED
    BY <2>1, <2>2
<1>10. CASE UNCHANGED forkVars
  <2>1. UNCHANGED <<forkClient, parentConn, childPc, sigVars>>
    BY <1>10 DEF forkVars, sigVars
  <2>2. ForkHealth'
    BY <2>1 DEF ForkHealth, sigVars
  <2> QED
    BY <2>1, <2>2, OthersKeepLedger
<1> QED
  BY <1>1, <1>2, <1>3, <1>4, <1>5, <1>6, <1>8, <1>9, <1>10 DEF ForkNext, Parent, Child

-----------------------------------------------------------------------------
(* Every zombie is owed to a signal that is pending or being handled, or   *)
(* to one that found another pending and was lost: no waitpid is wasted,   *)
(* and nothing else keeps a child from being reaped.                       *)
THEOREM ZombiesAccounted == ForkSpec => []ZombieLedger
<1>1. ForkInv => ZombieLedger
  BY DEF ForkInv
<1> QED
  BY <1>1, ForkStart, ForkStep, PTL DEF ForkSpec

(* The types of the forking servers.  The logger exits with its last read. *)
ForkPlaces == ForkTypes /\ (childPc["logger"] = "read" => loggerLeft \in 1 .. LoggerReads)

LEMMA ForkPlacesStart == ForkInit => ForkPlaces
<1> SUFFICES ASSUME ForkInit
             PROVE  ForkPlaces
  OBVIOUS
<1>1. childPc \in [Processes -> {"none", "read", "pipe", "zombie", "reaped"}]
  BY DEF ForkInit
<1>2. /\ forkKind \in {"echo", "pipe"}
      /\ forkClient \in [ForkClients -> {"away", "backlog", "connected", "done"}]
      /\ toChild \in [ForkClients -> Nat] /\ sendsLeft \in [ForkClients -> 0 .. MaxForkSends]
      /\ parentConn \in ForkClients \cup {NoConn} /\ parentFds \subseteq ForkClients
      /\ pipeLen \in 0 .. PipeCapacity /\ loggerLeft \in 1 .. LoggerReads
  BY DEF ForkInit
<1>3. sigPending \in BOOLEAN /\ inHandler \in BOOLEAN /\ coalesced \in Nat
  BY DEF ForkInit
<1> QED
  BY <1>1, <1>2, <1>3 DEF ForkPlaces, ForkTypes

(* What the clients and the parent do.                                     *)
LEMMA ForkParentKeepsPlaces ==
  ASSUME ForkPlaces,
         Parent \/ \E c \in ForkClients : ForkConnect(c) \/ ForkSend(c) \/ ForkDone(c)
  PROVE  ForkPlaces'
<1> USE DEF ForkPlaces, ForkTypes
<1>1. ASSUME NEW c \in ForkClients, ForkConnect(c) \/ ForkSend(c) \/ ForkDone(c)
      PROVE  ForkPlaces'
  <2>1. CASE ForkConnect(c)
    BY <2>1 DEF ForkConnect, pipeVars, sigVars
  <2>2. CASE ForkSend(c)
    <3>1. toChild' \in [ForkClients -> Nat] /\ sendsLeft' \in [ForkClients -> 0 .. MaxForkSends]
      BY <2>2 DEF ForkSend
    <3> QED
      BY <2>2, <3>1 DEF ForkSend, pipeVars, sigVars
  <2>3. CASE ForkDone(c)
    BY <2>3 DEF ForkDone, pipeVars, sigVars
  <2> QED
    BY <1>1, <2>1, <2>2, <2>3
<1>2. ASSUME NEW c \in ForkClients, ForkAccept(c)
      PROVE  ForkPlaces'
  BY <1>2 DEF ForkAccept, pipeVars, sigVars
<1>3. CASE Fork
  <2>1. parentConn \in ForkClients /\ parentConn # "logger" /\ parentConn \in Processes
    BY <1>3 DEF Fork, Processes
  <2>2. /\ childPc' \in [Processes -> {"none", "read", "pipe", "zombie", "reaped"}]
        /\ childPc'["logger"] = childPc["logger"]
    <3>1. CASE Becomes(parentConn, "read")
      BY <2>1, <3>1 DEF Becomes
    <3>2. CASE UNCHANGED childPc
      BY <3>2
    <3> QED
      BY <1>3, <3>1, <3>2 DEF Fork
  <2>3. parentFds' \subseteq ForkClients /\ parentConn' = NoConn
    BY <1>3 DEF Fork, CloseOwn
  <2>4. UNCHANGED <<peerVars, pipeVars, sigVars>>
    BY <1>3 DEF Fork
  <2> QED
    BY <2>2, <2>3, <2>4 DEF peerVars, pipeVars, sigVars
<1>4. CASE SigChld
  BY <1>4 DEF SigChld, peerVars, pipeVars
<1>5. CASE Waitpid
  <2>1. /\ childPc' \in [Processes -> {"none", "read", "pipe", "zombie", "reaped"}]
        /\ childPc'["logger"] = "read" => childPc["logger"] = "read"
    <3>1. CASE Zombies = {}
      BY <1>5, <3>1 DEF Waitpid
    <3>2. CASE Zombies # {}
      <4>1. PICK p \in Zombies : Becomes(p, "reaped")
        BY <1>5, <3>2 DEF Waitpid
      <4>2. p \in Processes /\ "logger" \in Processes
        BY DEF Zombies, Processes
      <4> QED
        BY <4>1, <4>2 DEF Becomes
    <3> QED
      BY <3>1, <3>2
  <2>2. UNCHANGED <<peerVars, parentConn, parentFds, pipeVars, sigPending, coalesced>>
        /\ inHandler' = FALSE
    BY <1>5 DEF Waitpid
  <2> QED
    BY <2>1, <2>2 DEF peerVars, pipeVars
<1> QED
  BY <1>1, <1>2, <1>3, <1>4, <1>5 DEF Parent

(* What a child or the logger does.                                        *)
LEMMA ForkChildKeepsPlaces ==
  ASSUME ForkPlaces, LoggerRead \/ \E c \in ForkClients : Child(c)
  PROVE  ForkPlaces'
<1> USE DEF ForkPlaces, ForkTypes
<1>1. ASSUME NEW p \in Processes, Exit(p)
      PROVE  /\ childPc' \in [Processes -> {"none", "read", "pipe", "zombie", "reaped"}]
             /\ \A q \in Processes : childPc'[q] = IF q = p THEN "zombie" ELSE childPc[q]
             /\ sigPending' \in BOOLEAN /\ inHandler' \in BOOLEAN /\ coalesced' \in Nat
  <2>1. sigPending' = TRUE /\ coalesced' \in Nat /\ inHandler' = inHandler
    BY <1>1 DEF Exit, RaiseSigchld
  <2> QED
    BY <1>1, <2>1 DEF Exit, Becomes
<1>2. "logger" \in Processes /\ ForkClients \subseteq Processes
  BY DEF Processes
<1>3. ASSUME NEW c \in ForkClients, Child(c)
      PROVE  ForkPlaces'
  <2>1. c \in Processes /\ c # "logger"
    BY <1>2
  <2>2. CASE ChildEcho(c)
    <3>1. /\ childPc' \in [Processes -> {"none", "read", "pipe", "zombie", "reaped"}]
          /\ childPc'["logger"] = childPc["logger"]
      BY <1>2, <2>1, <2>2 DEF ChildEcho, Becomes
    <3>2. toChild' \in [ForkClients -> Nat]
      BY <2>2 DEF ChildEcho
    <3> QED
      BY <2>2, <3>1, <3>2 DEF ChildEcho, pipeVars, sigVars
  <2>3. CASE ChildLog(c)
    <3>1. /\ childPc' \in [Processes -> {"none", "read", "pipe", "zombie", "reaped"}]
          /\ childPc'["logger"] = childPc["logger"]
      BY <1>2, <2>1, <2>3 DEF ChildLog, Becomes
    <3>2. pipeLen' \in 0 .. PipeCapacity
      BY <2>3 DEF ChildLog
    <3> QED
      BY <2>3, <3>1, <3>2 DEF ChildLog, peerVars, sigVars
  <2>4. CASE ChildEnd(c)
    <3>1. Exit(c) /\ UNCHANGED <<peerVars, parentConn, parentFds, pipeVars>>
      BY <2>4 DEF ChildEnd
    <3> QED
      BY <1>1, <1>2, <2>1, <3>1 DEF peerVars, pipeVars
  <2> QED
    BY <1>3, <2>2, <2>3, <2>4 DEF Child
<1>4. CASE LoggerRead
  <2>1. childPc["logger"] = "read" /\ loggerLeft \in 1 .. LoggerReads
        /\ UNCHANGED <<peerVars, parentConn, parentFds>>
    BY <1>4 DEF LoggerRead
  <2>2. pipeLen' \in 0 .. PipeCapacity /\ loggerLeft' = loggerLeft - 1
        /\ loggerLeft' \in 0 .. LoggerReads
    BY <1>4, <2>1 DEF LoggerRead
  <2>3. CASE loggerLeft = 1
    <3>1. Exit("logger")
      BY <1>4, <2>3 DEF LoggerRead
    <3> QED
      BY <1>1, <1>2, <2>1, <2>2, <3>1 DEF peerVars
  <2>4. CASE loggerLeft # 1
    <3>1. UNCHANGED <<childPc, sigVars>> /\ loggerLeft' \in 1 .. LoggerReads
      BY <1>4, <2>1, <2>2, <2>4 DEF LoggerRead
    <3> QED
      BY <2>1, <2>2, <3>1 DEF peerVars, sigVars
  <2> QED
    BY <2>3, <2>4
<1> QED
  BY <1>3, <1>4

(* ForkTypes: among others, the pipe never holds more than it can and the  *)
(* logger reads it at most LoggerReads times.                              *)
THEOREM ForkTypesHold == ForkSpec => []ForkTypes
<1>1. ForkPlaces /\ [ForkNext]_forkVars => ForkPlaces'
  <2> SUFFICES ASSUME ForkPlaces, [ForkNext]_forkVars
               PROVE  ForkPlaces'
    OBVIOUS
  <2>1. CASE UNCHANGED forkVars
    BY <2>1 DEF ForkPlaces, ForkTypes, forkVars
  <2>2. CASE ForkNext
    BY <2>2, ForkParentKeepsPlaces, ForkChildKeepsPlaces DEF ForkNext
  <2> QED
    BY <2>1, <2>2
<1>2. ForkPlaces => ForkTypes
  BY DEF ForkPlaces
<1> QED
  BY <1>1, <1>2, ForkPlacesStart, PTL DEF ForkSpec

HIDE ForkAssumption DEF ForkAssumption

-----------------------------------------------------------------------------
(* The single-threaded echo servers.  What has arrived and is unread are   *)
(* the last units sent; a connection has one descriptor; and what a round  *)
(* reported stays true until it is handled, one event per descriptor.      *)
UnitsOf(c) == {<<c, i>> : i \in Nat}
Echoed(c, n) == [i \in 1 .. n |-> <<c, i>>]

Streams ==
  /\ sentUnits \in [EchoClients -> Nat]
  /\ inbox \in [EchoClients -> Seq(Nat)] /\ DOMAIN gotBack = EchoClients
  /\ \A c \in EchoClients :
       /\ Len(inbox[c]) <= sentUnits[c]
       /\ \A i \in 1 .. Len(inbox[c]) : inbox[c][i] = sentUnits[c] - Len(inbox[c]) + i
       /\ c \notin overrun => gotBack[c] = Echoed(c, sentUnits[c] - Len(inbox[c]))

Registered ==
  /\ echoClient \in [EchoClients -> {"away", "backlog", "accepted"}]
  /\ fdConn \in [EchoFds -> EchoClients \cup {"stdin", "none"}]
  /\ \A f \in EchoFds : fdConn[f] \in EchoClients => echoClient[fdConn[f]] = "accepted"
  /\ \A f, g \in EchoFds : fdConn[f] = fdConn[g] /\ fdConn[f] # "none" => f = g

Reported ==
  /\ \A e \in batch :
       e.fd # ServerFd =>
         e.fd \in EchoFds /\ fdConn[e.fd] = e.conn /\ ReadyToRead(e.conn)
  /\ \A d, e \in batch : d.fd = e.fd => d = e
  /\ echoPc = "reading" =>
       /\ echoKind = "et" /\ readFd \in EchoFds /\ fdConn[readFd] \in EchoClients
       /\ \A e \in batch : e.fd # readFd

EchoInv == Streams /\ Registered /\ Reported

-----------------------------------------------------------------------------
LEMMA ConcatElement ==
  ASSUME NEW S, NEW s \in Seq(S), NEW t \in Seq(S), NEW m \in Nat, Len(s) = m,
         NEW i \in 1 .. Len(t)
  PROVE  (s \o t)[m + i] = t[i]
OBVIOUS

LEMMA JoinLength ==
  ASSUME NEW D, NEW s \in Seq(D), NEW t \in Seq(D)
  PROVE  s \o t \in Seq(D) /\ Len(s \o t) = Len(s) + Len(t)
OBVIOUS

LEMMA EchoedGrows ==
  ASSUME NEW c, NEW m \in Nat, NEW t \in Seq(UnitsOf(c)),
         \A i \in 1 .. Len(t) : t[i] = <<c, m + i>>
  PROVE  Echoed(c, m) \o t = Echoed(c, m + Len(t))
<1> DEFINE k == Len(t)
<1>k. k \in Nat /\ Len(t) = k /\ \A i \in 1 .. k : t[i] = <<c, m + i>>
  OBVIOUS
<1> HIDE DEF k
<1> SUFFICES Echoed(c, m) \o t = Echoed(c, m + k)
  BY DEF k
<1> USE <1>k
<1> DEFINE e == Echoed(c, m)
<1>1. e \in Seq(UnitsOf(c)) /\ Len(e) = m /\ \A i \in 1 .. m : e[i] = <<c, i>>
  <2>1. \A i \in 1 .. m : i \in Nat
    OBVIOUS
  <2> QED
    BY <2>1 DEF Echoed, UnitsOf
<1> HIDE DEF e
<1> DEFINE g == e \o t
<1>2. /\ g \in Seq(UnitsOf(c)) /\ Len(g) = m + k
      /\ \A i \in 1 .. m : g[i] = e[i]
      /\ \A i \in 1 .. k : g[m + i] = t[i]
  <2>1. g \in Seq(UnitsOf(c)) /\ Len(g) = m + k
    BY <1>1, JoinLength, Zenon
  <2>2. \A i \in 1 .. m : g[i] = e[i]
    BY <1>1
  <2>3. \A i \in 1 .. k : g[m + i] = t[i]
    BY <1>1, ConcatElement
  <2> QED
    BY <2>1, <2>2, <2>3, Zenon
<1> HIDE DEF g
<1>3. ASSUME NEW i \in 1 .. m + k PROVE g[i] = <<c, i>>
  <2>1. CASE i <= m
    BY <1>1, <1>2, <2>1
  <2>2. CASE i > m
    <3>1. i - m \in 1 .. k /\ m + (i - m) = i
      BY <2>2
    <3>2. g[m + (i - m)] = t[i - m] /\ t[i - m] = <<c, m + (i - m)>>
      BY <1>2, <3>1
    <3> QED
      BY <3>1, <3>2
  <2> QED
    BY <2>1, <2>2
<1>4. g = Echoed(c, m + k)
  <2>1. g = [i \in 1 .. m + k |-> g[i]]
    BY <1>2, LenProperties
  <2>2. Echoed(c, m + k) = [i \in 1 .. m + k |-> g[i]]
    BY <1>3 DEF Echoed
  <2> QED
    BY <2>1, <2>2
<1> QED
  BY <1>4 DEF g, e

(* What is left unread when the first k units go back.                     *)
LEMMA ChunkGoesBack ==
  ASSUME NEW m \in Nat, NEW s \in Seq(Nat), NEW k \in Nat, k <= Len(s),
         \A i \in 1 .. Len(s) : s[i] = m + i
  PROVE  /\ SubSeq(s, k + 1, Len(s)) \in Seq(Nat)
         /\ Len(SubSeq(s, k + 1, Len(s))) = Len(s) - k
         /\ \A i \in 1 .. Len(s) - k : SubSeq(s, k + 1, Len(s))[i] = m + k + i
<1> DEFINE r == SubSeq(s, k + 1, Len(s))
<1>1. /\ r \in Seq(Nat) /\ Len(r) = Len(s) - k
      /\ \A i \in 1 .. Len(s) - k : r[i] = s[k + i]
  OBVIOUS
<1> HIDE DEF r
<1>2. \A i \in 1 .. Len(s) - k : r[i] = m + k + i
  <2> SUFFICES ASSUME NEW i \in 1 .. Len(s) - k PROVE r[i] = m + k + i
    OBVIOUS
  <2>1. k + i \in 1 .. Len(s)
    OBVIOUS
  <2>2. r[i] = s[k + i] /\ s[k + i] = m + (k + i)
    BY <1>1, <2>1
  <2>3. m + (k + i) = m + k + i
    OBVIOUS
  <2> QED
    BY <2>2, <2>3
<1> QED
  BY <1>1, <1>2 DEF r

USE EchoAssumption DEF EchoAssumption

LEMMA EchoStart == EchoInit => EchoInv
<1> SUFFICES ASSUME EchoInit PROVE EchoInv
  OBVIOUS
<1>1. Streams
  <2>1. /\ sentUnits = [c \in EchoClients |-> 0] /\ inbox = [c \in EchoClients |-> <<>>]
        /\ gotBack = [c \in EchoClients |-> <<>>]
    BY DEF EchoInit
  <2>2. \A c : Echoed(c, 0) = <<>>
    BY DEF Echoed
  <2> QED
    BY <2>1, <2>2 DEF Streams
<1>2. Registered
  BY DEF EchoInit, Registered
<1>3. batch = {} /\ echoPc = "wait"
  BY DEF EchoInit
<1> QED
  BY <1>1, <1>2, <1>3 DEF EchoInv, Reported

LEMMA EchoOnceStreams ==
  ASSUME Streams, NEW c \in EchoClients, EchoOnce(c), UNCHANGED sentUnits
  PROVE  Streams' /\ \A d \in EchoClients \ {c} : inbox'[d] = inbox[d]
<1> DEFINE k == Min({Len(inbox[c]), EchoBuff})
<1>1. k \in 0 .. Len(inbox[c])
  <2>1. Len(inbox[c]) \in Nat /\ EchoBuff \in Nat
    BY DEF Streams
  <2>2. k \in {Len(inbox[c]), EchoBuff} /\ \A y \in {Len(inbox[c]), EchoBuff} : k <= y
    <3>1. \E x \in {Len(inbox[c]), EchoBuff} : \A y \in {Len(inbox[c]), EchoBuff} : x <= y
      BY <2>1
    <3> QED
      BY <3>1 DEF Min
  <2> QED
    BY <2>1, <2>2
<1> HIDE DEF k
<1> DEFINE chunk == [i \in 1 .. k |-> <<c, inbox[c][i]>>]
<1>2. /\ inbox' = [inbox EXCEPT ![c] = SubSeq(@, k + 1, Len(@))]
      /\ \/ gotBack' = [gotBack EXCEPT ![c] = @ \o chunk] /\ UNCHANGED overrun
         \/ overrun' = overrun \cup {c} /\ UNCHANGED gotBack
  BY DEF EchoOnce, k
<1> DEFINE s == inbox[c]
           m == sentUnits[c] - Len(inbox[c])
           r == SubSeq(s, k + 1, Len(s))
<1>3. /\ m \in Nat /\ s \in Seq(Nat) /\ Len(s) \in Nat /\ sentUnits[c] = m + Len(s)
      /\ \A i \in 1 .. Len(s) : s[i] = m + i
      /\ c \notin overrun => gotBack[c] = Echoed(c, m)
  BY DEF Streams
<1> HIDE DEF m, s
<1>4. k \in Nat /\ k <= Len(s)
  BY <1>1, <1>3 DEF s
<1>5. chunk \in Seq(UnitsOf(c)) /\ Len(chunk) = k /\ \A i \in 1 .. k : chunk[i] = <<c, s[i]>>
  <2>1. \A i \in 1 .. k : <<c, s[i]>> \in UnitsOf(c)
    BY <1>3, <1>4 DEF UnitsOf
  <2> QED
    BY <1>4, <2>1 DEF s
<1> HIDE DEF chunk
<1>6. /\ r \in Seq(Nat) /\ Len(r) = Len(s) - k
      /\ \A i \in 1 .. Len(s) - k : r[i] = m + k + i
      /\ Echoed(c, m) \o chunk = Echoed(c, m + k)
  <2>1. m \in Nat /\ s \in Seq(Nat) /\ \A i \in 1 .. Len(s) : s[i] = m + i
    BY <1>3
  <2> QED
    <3>1. SubSeq(s, k + 1, Len(s)) \in Seq(Nat) /\ Len(SubSeq(s, k + 1, Len(s))) = Len(s) - k
      BY <1>4, <2>1, ChunkGoesBack
    <3>2. \A i \in 1 .. Len(s) - k : SubSeq(s, k + 1, Len(s))[i] = m + k + i
      BY <1>4, <2>1, ChunkGoesBack
    <3>3. Echoed(c, m) \o chunk = Echoed(c, m + k)
      <4>1. \A i \in 1 .. k : chunk[i] = <<c, m + i>>
        <5>1. \A i \in 1 .. k : i \in 1 .. Len(s)
          BY <1>3, <1>4
        <5> QED
          BY <1>5, <2>1, <5>1, Zenon
      <4>2. m \in Nat /\ k \in Nat /\ chunk \in Seq(UnitsOf(c)) /\ Len(chunk) = k
        BY <1>4, <1>5, <2>1
      <4>3. \A i \in 1 .. Len(chunk) : chunk[i] = <<c, m + i>>
        BY <4>1, <4>2
      <4>4. Echoed(c, m) \o chunk = Echoed(c, m + Len(chunk))
        BY <4>2, <4>3, EchoedGrows, Zenon
      <4> QED
        BY <4>2, <4>4
    <3> QED
      BY <3>1, <3>2, <3>3, Zenon
<1> HIDE DEF r
<1>7. inbox'[c] = r /\ inbox' \in [EchoClients -> Seq(Nat)]
      /\ \A d \in EchoClients \ {c} : inbox'[d] = inbox[d]
  BY <1>2, <1>6 DEF Streams, r, s
<1>8. /\ DOMAIN gotBack' = EchoClients
      /\ \A d \in EchoClients \ {c} : gotBack'[d] = gotBack[d]
      /\ c \notin overrun' => c \notin overrun /\ gotBack'[c] = gotBack[c] \o chunk
      /\ \A d \in EchoClients \ {c} : d \in overrun' <=> d \in overrun
  BY <1>2 DEF Streams
<1>9. /\ Len(r) \in Nat /\ Len(r) <= sentUnits[c] /\ sentUnits[c] - Len(r) = m + k
      /\ 1 .. Len(r) = 1 .. Len(s) - k
  <2>1. m \in Nat /\ Len(s) \in Nat /\ sentUnits[c] = m + Len(s)
    BY <1>3
  <2>2. Len(r) = Len(s) - k
    BY <1>6
  <2> QED
    BY <1>4, <2>1, <2>2
<1>10. c \notin overrun' => gotBack'[c] = Echoed(c, m + k)
  <2>1. c \notin overrun' => gotBack'[c] = gotBack[c] \o chunk /\ gotBack[c] = Echoed(c, m)
    BY <1>3, <1>8, Zenon
  <2>2. Echoed(c, m) \o chunk = Echoed(c, m + k)
    BY <1>6
  <2> QED
    BY <2>1, <2>2, Zenon
<1>11. ASSUME NEW d \in EchoClients
       PROVE  /\ Len(inbox'[d]) <= sentUnits'[d]
              /\ \A i \in 1 .. Len(inbox'[d]) :
                   inbox'[d][i] = sentUnits'[d] - Len(inbox'[d]) + i
              /\ d \notin overrun' => gotBack'[d] = Echoed(d, sentUnits'[d] - Len(inbox'[d]))
  <2>1. CASE d = c
    <3>1. \A i \in 1 .. Len(r) : r[i] = sentUnits[c] - Len(r) + i
      BY <1>6, <1>9
    <3> QED
      BY <2>1, <3>1, <1>7, <1>9, <1>10
  <2>2. CASE d # c
    <3>1. /\ inbox'[d] = inbox[d] /\ gotBack'[d] = gotBack[d] /\ sentUnits' = sentUnits
          /\ d \notin overrun' => d \notin overrun
      <4>1. d \in EchoClients \ {c}
        BY <2>2
      <4> QED
        BY <4>1, <1>7, <1>8, Zenon
    <3>2. /\ Len(inbox[d]) <= sentUnits[d]
          /\ \A i \in 1 .. Len(inbox[d]) : inbox[d][i] = sentUnits[d] - Len(inbox[d]) + i
          /\ d \notin overrun => gotBack[d] = Echoed(d, sentUnits[d] - Len(inbox[d]))
      BY DEF Streams
    <3> QED
      BY <3>1, <3>2
  <2> QED
    BY <2>1, <2>2
<1>12. Streams'
  BY <1>7, <1>8, <1>11 DEF Streams
<1> QED
  BY <1>7, <1>12

-----------------------------------------------------------------------------
LEMMA MinIsIn ==
  ASSUME NEW S \in SUBSET Nat, S # {}
  PROVE  Min(S) \in S
<1>1. PICK x \in S : \A y \in S : ~(<<y, x>> \in OpToRel(<, Nat))
  BY NatLessThanWellFounded, WFMin
<1>2. \A y \in S : ~(y < x)
  BY <1>1 DEF OpToRel
<1>3. \A y \in S : x <= y
  BY <1>2
<1> QED
  BY <1>3 DEF Min

LEMMA StreamsStay ==
  ASSUME Streams, UNCHANGED <<sentUnits, inbox, gotBack, overrun>>
  PROVE  Streams'
BY DEF Streams

LEMMA RegisteredStay ==
  ASSUME Registered, UNCHANGED <<echoClient, fdConn>>
  PROVE  Registered'
BY DEF Registered

LEMMA ReadyStays ==
  ASSUME UNCHANGED <<echoKind, inbox, shutWr, stdinEof>>, NEW x, ReadyToRead(x)
  PROVE  ReadyToRead(x)'
BY DEF ReadyToRead

(* What a client does makes nothing unready.                               *)
LEMMA ReportedStay ==
  ASSUME Reported, UNCHANGED <<echoKind, fdConn, echoPc, batch, readFd>>,
         \A e \in batch : e.fd # ServerFd /\ ReadyToRead(e.conn) => ReadyToRead(e.conn)'
  PROVE  Reported'
BY DEF Reported

(* A round goes on with fewer events, about connections that stay.         *)
LEMMA RoundGoes ==
  ASSUME Reported, NEW e \in batch, batch' = batch \ {e}, echoPc' \in {"wait", "batch"},
         \A d \in batch : d.fd \in EchoFds /\ d.fd # e.fd /\ fdConn[d.fd] = d.conn
                            /\ ReadyToRead(d.conn)
                       => fdConn'[d.fd] = d.conn /\ ReadyToRead(d.conn)'
  PROVE  Reported'
BY DEF Reported

LEMMA ReadyConn ==
  ASSUME NEW x, ReadyToRead(x)
  PROVE  x # "none" /\ (x = "stdin" => echoKind = "select")
BY DEF ReadyToRead

LEMMA AfterIs == \A rest : AfterEvent(rest) \in {"wait", "batch"}
BY DEF AfterEvent

LEMMA ClientStep ==
  ASSUME EchoInv, NEW c, EndStdin \/ (c \in EchoClients /\ (EchoConnect(c) \/ EchoSend(c) \/ EchoShut(c)))
  PROVE  EchoInv'
<1> USE DEF EchoInv, serverVars
<1>1. CASE c \in EchoClients /\ EchoConnect(c)
  <2>1. Registered'
    BY <1>1 DEF EchoConnect, Registered
  <2>2. Streams'
    BY <1>1, StreamsStay DEF EchoConnect
  <2>3. UNCHANGED <<echoKind, inbox, shutWr, stdinEof, fdConn, echoPc, batch, readFd>>
    BY <1>1 DEF EchoConnect
  <2>4. Reported'
    BY <2>3, ReadyStays, ReportedStay
  <2> QED
    BY <2>1, <2>2, <2>4
<1>2. CASE c \in EchoClients /\ EchoSend(c)
  <2>1. /\ sentUnits' = [sentUnits EXCEPT ![c] = @ + 1]
        /\ inbox' = [inbox EXCEPT ![c] = Append(@, sentUnits'[c])]
        /\ UNCHANGED <<echoKind, echoClient, shutWr, gotBack, stdinEof, fdConn, echoPc, batch,
                       readFd, overrun>>
    BY <1>2 DEF EchoSend
  <2>2. Streams'
    <3>1. sentUnits'[c] = sentUnits[c] + 1 /\ inbox'[c] = Append(inbox[c], sentUnits[c] + 1)
      BY <1>2, <2>1 DEF Streams
    <3>2. /\ sentUnits[c] \in Nat /\ inbox[c] \in Seq(Nat) /\ Len(inbox[c]) <= sentUnits[c]
          /\ \A i \in 1 .. Len(inbox[c]) : inbox[c][i] = sentUnits[c] - Len(inbox[c]) + i
      BY <1>2 DEF Streams
    <3>3. /\ inbox'[c] \in Seq(Nat) /\ Len(inbox'[c]) = Len(inbox[c]) + 1
          /\ \A i \in 1 .. Len(inbox[c]) : inbox'[c][i] = inbox[c][i]
          /\ inbox'[c][Len(inbox[c]) + 1] = sentUnits[c] + 1
      BY <3>1, <3>2
    <3>4. \A i \in 1 .. Len(inbox'[c]) : inbox'[c][i] = sentUnits'[c] - Len(inbox'[c]) + i
      BY <3>1, <3>2, <3>3
    <3>5. sentUnits' \in [EchoClients -> Nat] /\ inbox' \in [EchoClients -> Seq(Nat)]
      BY <2>1, <3>1, <3>2, <3>3 DEF Streams
    <3>6. /\ Len(inbox'[c]) <= sentUnits'[c]
          /\ sentUnits'[c] - Len(inbox'[c]) = sentUnits[c] - Len(inbox[c])
      BY <3>1, <3>2, <3>3
    <3>7. \A d \in EchoClients \ {c} : sentUnits'[d] = sentUnits[d] /\ inbox'[d] = inbox[d]
      BY <2>1 DEF Streams
    <3>8. ASSUME NEW d \in EchoClients
          PROVE  /\ Len(inbox'[d]) <= sentUnits'[d]
                 /\ \A i \in 1 .. Len(inbox'[d]) :
                      inbox'[d][i] = sentUnits'[d] - Len(inbox'[d]) + i
                 /\ d \notin overrun' => gotBack'[d] = Echoed(d, sentUnits'[d] - Len(inbox'[d]))
      <4>1. CASE d = c
        BY <2>1, <3>4, <3>6, <4>1 DEF Streams
      <4>2. CASE d # c
        <5>1. sentUnits'[d] = sentUnits[d] /\ inbox'[d] = inbox[d]
          BY <3>7, <4>2
        <5> QED
          BY <2>1, <5>1 DEF Streams
      <4> QED
        BY <4>1, <4>2
    <3>9. DOMAIN gotBack' = EchoClients
      BY <2>1 DEF Streams
    <3> QED
      BY <3>5, <3>8, <3>9 DEF Streams
  <2>3. ASSUME NEW x, ReadyToRead(x) PROVE ReadyToRead(x)'
    <3>1. inbox'[x] # <<>> \/ inbox'[x] = inbox[x]
      <4>1. CASE x = c
        <5>1. inbox[c] \in Seq(Nat) /\ sentUnits'[c] \in Nat /\ inbox'[c] = Append(inbox[c], sentUnits'[c])
          BY <1>2, <2>1 DEF Streams
        <5> QED
          BY <4>1, <5>1
      <4>2. CASE x # c
        BY <2>1, <4>2 DEF Streams
      <4> QED
        BY <4>1, <4>2
    <3> QED
      BY <2>1, <2>3, <3>1 DEF ReadyToRead
  <2>4. Registered' /\ Reported'
    BY <2>1, <2>3, RegisteredStay, ReportedStay
  <2> QED
    BY <2>2, <2>4
<1>3. CASE c \in EchoClients /\ EchoShut(c)
  <2>1. /\ shutWr' = [shutWr EXCEPT ![c] = TRUE]
        /\ UNCHANGED <<echoKind, echoClient, sentUnits, inbox, gotBack, stdinEof, fdConn, echoPc,
                       batch, readFd, overrun>>
    BY <1>3 DEF EchoShut
  <2>2. ASSUME NEW x, ReadyToRead(x) PROVE ReadyToRead(x)'
    <3>1. shutWr[x] => shutWr'[x]
      BY <2>1
    <3> QED
      BY <2>1, <2>2, <3>1 DEF ReadyToRead
  <2> QED
    BY <2>1, <2>2, StreamsStay, RegisteredStay, ReportedStay
<1>4. CASE EndStdin
  <2>1. /\ stdinEof'
        /\ UNCHANGED <<echoKind, echoClient, sentUnits, shutWr, inbox, gotBack, fdConn, echoPc,
                       batch, readFd, overrun>>
    BY <1>4 DEF EndStdin
  <2>2. ASSUME NEW x, ReadyToRead(x) PROVE ReadyToRead(x)'
    BY <2>1, <2>2 DEF ReadyToRead
  <2> QED
    BY <2>1, <2>2, StreamsStay, RegisteredStay, ReportedStay
<1> QED
  BY <1>1, <1>2, <1>3, <1>4

-----------------------------------------------------------------------------
LEMMA EventsAre ==
  ASSUME NEW e \in Events
  PROVE  \/ e.fd = ServerFd
         \/ /\ e.fd \in EchoFds /\ e.conn = fdConn[e.fd] /\ ReadyToRead(e.conn)
            /\ e = [fd |-> e.fd, conn |-> fdConn[e.fd]]
<1>1. CASE e \in IF Backlog = {} THEN {} ELSE {[fd |-> ServerFd, conn |-> "none"]}
  BY <1>1
<1>2. CASE \E f \in {g \in EchoFds : ReadyToRead(fdConn[g])} : e = [fd |-> f, conn |-> fdConn[f]]
  <2>1. PICK f \in EchoFds : ReadyToRead(fdConn[f]) /\ e = [fd |-> f, conn |-> fdConn[f]]
    BY <1>2
  <2>2. e.fd = f /\ e.conn = fdConn[f]
    BY <2>1
  <2> QED
    BY <2>1, <2>2
<1> QED
  BY <1>1, <1>2 DEF Events

LEMMA WaitKeeps ==
  ASSUME EchoInv, WaitEvents
  PROVE  EchoInv'
<1> USE DEF EchoInv
<1>1. /\ batch' = Events /\ echoPc' = "batch"
      /\ UNCHANGED <<echoKind, sentUnits, shutWr, stdinEof, echoClient, inbox, gotBack, fdConn,
                     readFd, overrun>>
  BY DEF WaitEvents, clientVars
<1>2. Streams' /\ Registered'
  BY <1>1, StreamsStay, RegisteredStay
<1>3. ASSUME NEW e \in batch', e.fd # ServerFd
      PROVE  e.fd \in EchoFds /\ fdConn'[e.fd] = e.conn /\ ReadyToRead(e.conn)'
  <2>1. e.fd \in EchoFds /\ fdConn[e.fd] = e.conn /\ ReadyToRead(e.conn)
    BY <1>1, <1>3, EventsAre
  <2> QED
    BY <1>1, <2>1, ReadyStays
<1>4. ASSUME NEW d \in batch', NEW e \in batch', d.fd = e.fd
      PROVE  d = e
  <2>1. ServerFd \notin EchoFds
    BY DEF ServerFd
  <2>2. CASE d.fd = ServerFd
    <3>1. ASSUME NEW x \in Events, x.fd = ServerFd
          PROVE  x = [fd |-> ServerFd, conn |-> "none"]
      <4>1. CASE \E f \in EchoFds : x = [fd |-> f, conn |-> fdConn[f]]
        BY <2>1, <3>1, <4>1
      <4>2. CASE x \in IF Backlog = {} THEN {} ELSE {[fd |-> ServerFd, conn |-> "none"]}
        BY <4>2
      <4> QED
        BY <4>1, <4>2 DEF Events
    <3> QED
      BY <1>1, <1>4, <2>2, <3>1
  <2>3. CASE d.fd # ServerFd
    BY <1>1, <1>4, <2>3, EventsAre
  <2> QED
    BY <2>2, <2>3
<1>5. Reported'
  BY <1>1, <1>3, <1>4 DEF Reported
<1> QED
  BY <1>2, <1>5

(* A new connection takes a descriptor no event of the round is about.     *)
LEMMA AcceptKeeps ==
  ASSUME EchoInv, NEW e \in batch, AcceptEvent(e)
  PROVE  EchoInv'
<1> USE DEF EchoInv
<1>1. /\ e.fd = ServerFd /\ echoPc = "batch"
      /\ UNCHANGED <<echoKind, sentUnits, shutWr, stdinEof, inbox, gotBack, readFd, overrun>>
  BY DEF AcceptEvent, NextEvent, clientVars
<1>2. Streams'
  BY <1>1, StreamsStay
<1>3. CASE FreeFds # {}
  <2> DEFINE f0 == Min(FreeFds)
  <2>1. PICK c \in Backlog :
          /\ echoClient' = [echoClient EXCEPT ![c] = "accepted"]
          /\ fdConn' = [fdConn EXCEPT ![f0] = c]
    BY <1>3 DEF AcceptEvent
  <2>2. batch' = batch \ {e} /\ echoPc' \in {"wait", "batch"}
    BY <1>3, AfterIs DEF AcceptEvent, Handled, Without
  <2>3. f0 \in EchoFds /\ fdConn[f0] = "none"
    <3>1. FreeFds \in SUBSET Nat
      BY DEF FreeFds
    <3>2. f0 \in FreeFds
      BY <1>3, <3>1, MinIsIn
    <3> QED
      BY <3>2 DEF FreeFds
  <2> HIDE DEF f0
  <2>4. c \in EchoClients /\ echoClient[c] = "backlog"
    BY DEF Backlog
  <2>5. Registered'
    <3>1. \A f \in EchoFds : fdConn[f] # c
      BY <2>4 DEF Registered
    <3>2. /\ fdConn'[f0] = c
          /\ \A f \in EchoFds \ {f0} : fdConn'[f] = fdConn[f]
          /\ fdConn' \in [EchoFds -> EchoClients \cup {"stdin", "none"}]
      BY <2>1, <2>3, <2>4 DEF Registered
    <3>3. /\ echoClient'[c] = "accepted"
          /\ \A d \in EchoClients \ {c} : echoClient'[d] = echoClient[d]
          /\ echoClient' \in [EchoClients -> {"away", "backlog", "accepted"}]
      BY <2>1, <2>4 DEF Registered
    <3>4. \A f \in EchoFds : fdConn'[f] \in EchoClients => echoClient'[fdConn'[f]] = "accepted"
      BY <3>1, <3>2, <3>3 DEF Registered
    <3>5. \A f, g \in EchoFds : fdConn'[f] = fdConn'[g] /\ fdConn'[f] # "none" => f = g
      BY <3>1, <3>2 DEF Registered
    <3> QED
      BY <3>2, <3>3, <3>4, <3>5 DEF Registered
  <2>6. ASSUME NEW d \in batch, d.fd \in EchoFds, fdConn[d.fd] = d.conn, ReadyToRead(d.conn)
        PROVE  fdConn'[d.fd] = d.conn /\ ReadyToRead(d.conn)'
    <3>1. d.conn # "none" /\ ReadyToRead(d.conn)'
      BY <1>1, <2>6, ReadyConn, ReadyStays
    <3>2. d.fd # f0
      BY <2>3, <2>6, <3>1
    <3>3. fdConn'[d.fd] = fdConn[d.fd]
      BY <2>1, <2>6, <3>2 DEF Registered
    <3> QED
      BY <2>6, <3>1, <3>3
  <2>7. Reported'
    BY <2>2, <2>6, RoundGoes
  <2> QED
    BY <1>2, <2>5, <2>7
<1>4. CASE FreeFds = {}
  <2>1. UNCHANGED <<echoClient, fdConn>>
    BY <1>4 DEF AcceptEvent
  <2>2. \/ echoPc' = "exited" /\ batch' = {}
        \/ batch' = batch \ {e} /\ echoPc' \in {"wait", "batch"}
    BY <1>4, AfterIs DEF AcceptEvent, Handled, Without
  <2>3. CASE echoPc' = "exited" /\ batch' = {}
    BY <1>2, <2>1, <2>3, RegisteredStay DEF Reported
  <2>4. CASE batch' = batch \ {e} /\ echoPc' \in {"wait", "batch"}
    <3>1. ASSUME NEW d \in batch, fdConn[d.fd] = d.conn, ReadyToRead(d.conn)
          PROVE  fdConn'[d.fd] = d.conn /\ ReadyToRead(d.conn)'
      BY <1>1, <2>1, <3>1, ReadyStays
    <3>2. Reported'
      BY <2>4, <3>1, RoundGoes
    <3> QED
      BY <1>2, <2>1, <3>2, RegisteredStay
  <2> QED
    BY <2>2, <2>3, <2>4
<1> QED
  BY <1>3, <1>4

(* Closing a descriptor, and reading from one, leave the others as they    *)
(* are, because a connection has one descriptor.                           *)
LEMMA CloseKeeps ==
  ASSUME Registered, NEW f \in EchoFds, CloseFd(f), UNCHANGED echoClient
  PROVE  Registered' /\ \A g \in EchoFds \ {f} : fdConn'[g] = fdConn[g]
<1>1. /\ fdConn' \in [EchoFds -> EchoClients \cup {"stdin", "none"}]
      /\ fdConn'[f] = "none" /\ \A g \in EchoFds \ {f} : fdConn'[g] = fdConn[g]
  BY DEF CloseFd, Registered
<1>2. "none" \notin EchoClients
  OBVIOUS
<1>3. \A g \in EchoFds : fdConn'[g] \in EchoClients => echoClient'[fdConn'[g]] = "accepted"
  BY <1>1, <1>2 DEF Registered
<1>4. \A g, h \in EchoFds : fdConn'[g] = fdConn'[h] /\ fdConn'[g] # "none" => g = h
  BY <1>1 DEF Registered
<1> QED
  BY <1>1, <1>3, <1>4 DEF Registered

LEMMA OthersReady ==
  ASSUME NEW c \in EchoClients, UNCHANGED <<echoKind, shutWr, stdinEof>>,
         \A d \in EchoClients \ {c} : inbox'[d] = inbox[d],
         NEW x \in EchoClients \cup {"stdin", "none"}, x # c, ReadyToRead(x)
  PROVE  ReadyToRead(x)'
<1>1. CASE x = "stdin"
  BY <1>1 DEF ReadyToRead
<1>2. CASE x # "stdin"
  <2>1. x # "none"
    BY ReadyConn
  <2>2. inbox'[x] = inbox[x]
    BY <1>2, <2>1
  <2> QED
    BY <1>2, <2>2 DEF ReadyToRead
<1> QED
  BY <1>1, <1>2

LEMMA ReadKeeps ==
  ASSUME EchoInv, NEW e \in batch, ReadEvent(e)
  PROVE  EchoInv'
<1> USE DEF EchoInv
<1>1. /\ e.fd # ServerFd /\ echoPc = "batch" /\ batch' = batch \ {e}
      /\ echoPc' \in {"wait", "batch"}
      /\ UNCHANGED <<echoKind, sentUnits, shutWr, stdinEof, echoClient, readFd>>
  BY AfterIs DEF ReadEvent, NextEvent, Handled, Without, clientVars
<1>2. e.fd \in EchoFds /\ fdConn[e.fd] = e.conn /\ ReadyToRead(e.conn)
  BY <1>1 DEF Reported
<1>3. CASE CloseFd(e.fd) /\ UNCHANGED <<inbox, gotBack, overrun>>
  <2>1. Streams'
    BY <1>1, <1>3, StreamsStay
  <2>2. Registered' /\ \A g \in EchoFds \ {e.fd} : fdConn'[g] = fdConn[g]
    BY <1>1, <1>2, <1>3, CloseKeeps
  <2>3. ASSUME NEW d \in batch, d.fd \in EchoFds, d.fd # e.fd, fdConn[d.fd] = d.conn,
               ReadyToRead(d.conn)
        PROVE  fdConn'[d.fd] = d.conn /\ ReadyToRead(d.conn)'
    BY <1>1, <1>3, <2>2, <2>3, ReadyStays
  <2>4. Reported'
    BY <1>1, <2>3, RoundGoes
  <2> QED
    BY <2>1, <2>2, <2>4
<1>4. CASE fdConn[e.fd] # "stdin" /\ EchoOnce(fdConn[e.fd]) /\ UNCHANGED fdConn
  <2> DEFINE c == fdConn[e.fd]
  <2>1. c \in EchoClients
    BY <1>2, <1>4, ReadyConn DEF Registered
  <2>2. Streams' /\ \A d \in EchoClients \ {c} : inbox'[d] = inbox[d]
    BY <1>1, <1>4, <2>1, EchoOnceStreams
  <2>3. Registered'
    BY <1>1, <1>4, RegisteredStay
  <2>4. ASSUME NEW d \in batch, d.fd \in EchoFds, d.fd # e.fd, fdConn[d.fd] = d.conn,
               ReadyToRead(d.conn)
        PROVE  fdConn'[d.fd] = d.conn /\ ReadyToRead(d.conn)'
    <3>1. d.conn # c /\ d.conn \in EchoClients \cup {"stdin", "none"}
      BY <1>2, <2>1, <2>4, ReadyConn DEF Registered
    <3>2. ReadyToRead(d.conn)'
      BY <1>1, <2>1, <2>2, <2>4, <3>1, OthersReady
    <3> QED
      BY <1>4, <2>4, <3>2
  <2>5. Reported'
    BY <1>1, <2>4, RoundGoes
  <2> QED
    BY <2>2, <2>3, <2>5
<1> QED
  BY <1>3, <1>4 DEF ReadEvent

LEMMA EdgeKeeps ==
  ASSUME EchoInv, NEW e \in batch, EdgeEvent(e)
  PROVE  EchoInv'
<1> USE DEF EchoInv
<1>1. /\ e.fd # ServerFd /\ echoKind = "et" /\ readFd' = e.fd /\ batch' = batch \ {e}
      /\ UNCHANGED <<echoKind, sentUnits, shutWr, stdinEof, echoClient, inbox, gotBack, fdConn,
                     overrun>>
  BY DEF EdgeEvent, NextEvent, Without, clientVars
<1>2. Streams' /\ Registered'
  BY <1>1, StreamsStay, RegisteredStay
<1>3. e.fd \in EchoFds /\ fdConn[e.fd] = e.conn /\ ReadyToRead(e.conn)
  BY <1>1 DEF Reported
<1>4. fdConn[e.fd] \in EchoClients
  <2>1. e.conn # "none" /\ e.conn # "stdin"
    BY <1>1, <1>3, ReadyConn, Zenon
  <2>2. fdConn[e.fd] \in EchoClients \cup {"stdin", "none"}
    BY <1>3 DEF Registered
  <2> QED
    BY <1>3, <2>1, <2>2
<1>5. \A d \in batch' : d.fd # ServerFd =>
        d.fd \in EchoFds /\ fdConn'[d.fd] = d.conn /\ ReadyToRead(d.conn)'
  <2>1. \A d \in batch : d.fd # ServerFd =>
          d.fd \in EchoFds /\ fdConn[d.fd] = d.conn /\ ReadyToRead(d.conn)
    BY DEF Reported
  <2> QED
    BY <1>1, <2>1, ReadyStays
<1>6. \A d \in batch' : d.fd # e.fd
  BY <1>1 DEF Reported
<1>7. \A d, x \in batch' : d.fd = x.fd => d = x
  BY <1>1 DEF Reported
<1>8. Reported'
  BY <1>1, <1>3, <1>4, <1>5, <1>6, <1>7 DEF Reported
<1> QED
  BY <1>2, <1>8

(* The inner loop of the ET server: events of the other descriptors of the *)
(* round stay reported while it reads its own.                             *)
LEMMA InnerLoopKeeps ==
  ASSUME EchoInv, ReadMore \/ ReadEnd
  PROVE  EchoInv'
<1> USE DEF EchoInv
<1> DEFINE c == fdConn[readFd]
<1>1. /\ echoPc = "reading" /\ readFd \in EchoFds /\ c \in EchoClients /\ echoKind = "et"
      /\ \A d \in batch : d.fd # readFd
      /\ UNCHANGED <<echoKind, sentUnits, shutWr, stdinEof, echoClient, batch>>
  BY DEF ReadMore, ReadEnd, clientVars, Reported
<1>2. \A d \in batch : d.fd # ServerFd =>
        d.fd \in EchoFds /\ fdConn[d.fd] = d.conn /\ ReadyToRead(d.conn)
  BY DEF Reported
<1>3. CASE ReadMore
  <2>1. EchoOnce(c) /\ UNCHANGED <<fdConn, echoPc, readFd>>
    BY <1>3 DEF ReadMore
  <2>2. Streams' /\ \A d \in EchoClients \ {c} : inbox'[d] = inbox[d]
    BY <1>1, <2>1, EchoOnceStreams
  <2>3. Registered'
    BY <1>1, <2>1, RegisteredStay
  <2>4. ASSUME NEW d \in batch, d.fd # ServerFd
        PROVE  d.fd \in EchoFds /\ fdConn'[d.fd] = d.conn /\ ReadyToRead(d.conn)'
    <3>1. d.fd \in EchoFds /\ fdConn[d.fd] = d.conn /\ ReadyToRead(d.conn) /\ d.fd # readFd
      BY <1>1, <1>2, <2>4
    <3>2. d.conn # c /\ d.conn \in EchoClients \cup {"stdin", "none"}
      BY <1>1, <3>1, ReadyConn DEF Registered
    <3>3. ReadyToRead(d.conn)'
      BY <1>1, <2>2, <3>1, <3>2, OthersReady
    <3> QED
      BY <2>1, <3>1, <3>3
  <2>5. Reported'
    BY <1>1, <2>1, <2>4 DEF Reported
  <2> QED
    BY <2>2, <2>3, <2>5
<1>4. CASE ReadEnd
  <2>1. CloseFd(readFd) /\ echoPc' \in {"wait", "batch"} /\ UNCHANGED <<inbox, gotBack, overrun>>
    BY <1>4, AfterIs DEF ReadEnd
  <2>2. Streams'
    BY <1>1, <2>1, StreamsStay
  <2>3. Registered' /\ \A g \in EchoFds \ {readFd} : fdConn'[g] = fdConn[g]
    BY <1>1, <2>1, CloseKeeps
  <2>4. ASSUME NEW d \in batch, d.fd # ServerFd
        PROVE  d.fd \in EchoFds /\ fdConn'[d.fd] = d.conn /\ ReadyToRead(d.conn)'
    BY <1>1, <1>2, <2>1, <2>3, <2>4, ReadyStays
  <2>5. Reported'
    BY <1>1, <2>1, <2>4 DEF Reported
  <2> QED
    BY <2>2, <2>3, <2>5
<1> QED
  BY <1>3, <1>4

LEMMA EchoStep == EchoInv /\ [EchoNext]_echoVars => EchoInv'
<1> SUFFICES ASSUME EchoInv, [EchoNext]_echoVars PROVE EchoInv'
  OBVIOUS
<1>1. CASE UNCHANGED echoVars
  BY <1>1, ReadyStays, StreamsStay, RegisteredStay DEF EchoInv, echoVars, Reported
<1>2. CASE EndStdin
  BY <1>2, ClientStep
<1>3. CASE \E c \in EchoClients : EchoConnect(c) \/ EchoSend(c) \/ EchoShut(c)
  BY <1>3, ClientStep
<1>4. CASE EchoServer
  BY <1>4, WaitKeeps, AcceptKeeps, ReadKeeps, EdgeKeeps, InnerLoopKeeps DEF EchoServer
<1> QED
  BY <1>1, <1>2, <1>3, <1>4 DEF EchoNext

(* EchoExact: every client of a single-threaded echo server gets back what *)
(* it sent, in order and from nobody else, and no event is handled for a   *)
(* connection it was not reported for, whatever closes and accepts come    *)
(* between the report and the handling.                                    *)
THEOREM EchoIsExact == EchoSpec => []EchoExact
<1>1. EchoInv => EchoExact
  <2> SUFFICES ASSUME EchoInv PROVE EchoExact
    OBVIOUS
  <2>1. \A e \in batch : e.fd # ServerFd => fdConn[e.fd] = e.conn /\ ReadyToRead(fdConn[e.fd])
    BY DEF EchoInv, Reported
  <2>2. \A c \in EchoClients \ overrun : gotBack[c] = Echoed(c, sentUnits[c] - Len(inbox[c]))
    BY DEF EchoInv, Streams
  <2> QED
    BY <2>1, <2>2 DEF EchoExact, Echoed
<1> QED
  BY <1>1, EchoStart, EchoStep, PTL DEF EchoSpec

(* The types of the single-threaded servers.                               *)
LEMMA EchoTypesStep ==
  ASSUME EchoInv, EchoTypes, [EchoNext]_echoVars
  PROVE  EchoTypes'
<1> USE DEF EchoTypes
<1>1. CASE UNCHANGED echoVars
  BY <1>1 DEF echoVars
<1>2. CASE EndStdin
  BY <1>2 DEF EndStdin, serverVars
<1>3. ASSUME NEW c \in EchoClients, EchoConnect(c) \/ EchoSend(c) \/ EchoShut(c)
      PROVE  EchoTypes'
  <2>1. CASE EchoConnect(c)
    BY <2>1 DEF EchoConnect, serverVars
  <2>2. CASE EchoSend(c)
    <3>1. sentUnits' \in [EchoClients -> 0 .. MaxEcho]
      BY <2>2 DEF EchoSend
    <3> QED
      BY <2>2, <3>1 DEF EchoSend, serverVars
  <2>3. CASE EchoShut(c)
    BY <2>3 DEF EchoShut, serverVars
  <2> QED
    BY <1>3, <2>1, <2>2, <2>3
<1>4. CASE WaitEvents
  BY <1>4 DEF WaitEvents, clientVars
<1>5. CASE ReadMore
  <2>1. /\ readFd \in EchoFds /\ fdConn[readFd] \in EchoClients
    BY <1>5 DEF ReadMore, EchoInv, Reported
  <2>2. overrun' \subseteq EchoClients
    BY <1>5, <2>1 DEF ReadMore, EchoOnce
  <2> QED
    BY <1>5, <2>2 DEF ReadMore, clientVars
<1>6. CASE ReadEnd
  <2>1. fdConn' = [fdConn EXCEPT ![readFd] = "none"] /\ readFd' = ServerFd
        /\ echoPc' \in {"wait", "batch"}
    BY <1>6, AfterIs DEF ReadEnd, CloseFd
  <2> QED
    BY <1>6, <2>1 DEF ReadEnd, clientVars
<1>7. ASSUME NEW e \in batch, AcceptEvent(e)
      PROVE  EchoTypes'
  <2>1. UNCHANGED <<clientVars, readFd, overrun>>
    BY <1>7 DEF AcceptEvent
  <2>2. CASE FreeFds # {}
    <3>1. PICK c \in Backlog :
            /\ echoClient' = [echoClient EXCEPT ![c] = "accepted"]
            /\ fdConn' = [fdConn EXCEPT ![Min(FreeFds)] = c]
      BY <1>7, <2>2 DEF AcceptEvent
    <3>2. c \in EchoClients /\ echoPc' \in {"wait", "batch"}
      BY <1>7, <2>2, AfterIs DEF AcceptEvent, Handled, Backlog
    <3> QED
      BY <2>1, <3>1, <3>2 DEF clientVars
  <2>3. CASE FreeFds = {}
    <3>1. UNCHANGED <<echoClient, fdConn>> /\ echoPc' \in {"wait", "batch", "exited"}
      BY <1>7, <2>3, AfterIs DEF AcceptEvent, Handled
    <3> QED
      BY <2>1, <3>1 DEF clientVars
  <2> QED
    BY <2>2, <2>3
<1>8. ASSUME NEW e \in batch, ReadEvent(e)
      PROVE  EchoTypes'
  <2>1. /\ e.fd \in EchoFds /\ fdConn[e.fd] \in EchoClients \cup {"stdin"}
        /\ echoPc' \in {"wait", "batch"} /\ UNCHANGED <<clientVars, echoClient, readFd>>
    BY <1>8, AfterIs DEF ReadEvent, Handled, EchoInv, Reported
  <2>2. CASE CloseFd(e.fd) /\ UNCHANGED <<inbox, gotBack, overrun>>
    BY <2>1, <2>2 DEF CloseFd, clientVars
  <2>3. CASE fdConn[e.fd] # "stdin" /\ EchoOnce(fdConn[e.fd]) /\ UNCHANGED fdConn
    <3>1. overrun' \subseteq EchoClients
      BY <2>1, <2>3 DEF EchoOnce
    <3> QED
      BY <2>1, <2>3, <3>1 DEF clientVars
  <2> QED
    BY <1>8, <2>2, <2>3 DEF ReadEvent
<1>9. ASSUME NEW e \in batch, EdgeEvent(e)
      PROVE  EchoTypes'
  <2>1. e.fd \in EchoFds
    BY <1>9 DEF EdgeEvent, EchoInv, Reported
  <2> QED
    BY <1>9, <2>1 DEF EdgeEvent, clientVars
<1> QED
  BY <1>1, <1>2, <1>3, <1>4, <1>5, <1>6, <1>7, <1>8, <1>9 DEF EchoNext, EchoServer

(* EchoTypes: the server reads from descriptors it was given, and only     *)
(* clients lose units to an overrun.                                       *)
THEOREM EchoTypesHold == EchoSpec => []EchoTypes
<1>1. EchoInit => EchoTypes
  BY DEF EchoInit, EchoTypes
<1>2. EchoInv /\ EchoTypes /\ [EchoNext]_echoVars => EchoTypes'
  BY EchoTypesStep
<1> QED
  BY <1>1, <1>2, EchoStart, EchoStep, PTL DEF EchoSpec

-----------------------------------------------------------------------------
(* The servers with a thread per client, for any number of clients and     *)
(* descriptors.  The table of the chat and the answers of the HTTP server  *)
(* both rest on which descriptors lead to a client.                        *)

(* The descriptors at whose other end a client is.                         *)
FdsOf(c) == {f \in ThreadFds : fdPeer[f] = c}

(* An HTTP client sends one request.                                       *)
AskedOnce(c) ==
  /\ request[c] # "message" /\ asked[c] # "message"
  /\ saysLeft[c] = IF asked[c] = "none" THEN 1 ELSE 0
  /\ asked[c] = "none" => request[c] = "none"

(* Where main and the threads are: each client is accepted once, and its   *)
(* thread created once, by the step that follows.                          *)
ThreadPlaces ==
  /\ ThreadTypes
  /\ saysLeft \in [ThreadClients -> Nat]
  /\ answered = [c \in ThreadClients |-> answered[c]]
  /\ newest \in ThreadClients \cup {"none"}
  /\ joined \in Nat /\ removed \in Nat
  /\ threadKind = "chat" =>
       \A c \in ThreadClients : handlerPc[c] \in {"none", "start", "loop", "close", "gone"}
  /\ threadKind = "http" =>
       /\ mainPc # "register"
       /\ \A c \in ThreadClients :
            /\ handlerPc[c] \in {"none", "start", "open", "request", "parse", "reject", "serve",
                                 "finish", "gone"}
            /\ AskedOnce(c)
  /\ mainPc # "accept" =>
       /\ newest \in ThreadClients /\ sockClient \in ThreadFds /\ handlerPc[newest] = "none"
       /\ peerState[newest] \in {"connected", "left"}
  /\ \A c \in ThreadClients :
       IF peerState[c] \in {"away", "backlog"} THEN handlerPc[c] = "none"
       ELSE handlerPc[c] = "none" => mainPc # "accept" /\ newest = c
  /\ \A c \in ThreadClients :
       /\ peerState[c] \in {"connected", "left"} => sockClient \in ThreadFds
       /\ handlerPc[c] \in {"loop", "close", "open", "request", "parse", "reject"} =>
            handlerFd[c] \in ThreadFds

(* count_client counts the clients in the chat, whatever is in the table.  *)
Counting ==
  threadKind = "chat" =>
    /\ Len(chatTable) = joined - removed
    /\ Len(chatTable) = Cardinality(Present)

(* What the table rests on: a client has one descriptor from accept until  *)
(* its thread has closed it, and the thread has this one.                  *)
TableRows ==
  /\ IsInjective(chatTable)
  /\ \A f, g \in ThreadFds : fdPeer[f] = fdPeer[g] /\ fdPeer[f] # "none" => f = g
  /\ \A f \in ThreadFds : fdPeer[f] \in Present <=> f \in Range(chatTable)
  /\ \A c \in Present : FdsOf(c) # {}
  /\ \A c \in ThreadClients :
       /\ handlerPc[c] \in {"loop", "close"} => handlerFd[c] \in FdsOf(c)
       /\ newest = c /\ (mainPc # "accept" \/ handlerPc[c] = "start") => sockClient \in FdsOf(c)
       /\ peerState[c] \in {"away", "backlog"} \/ handlerPc[c] = "gone" => FdsOf(c) = {}

ChatRows == threadKind = "chat" /\ ~overtaken /\ ~midLeft => TableRows

(* The same for the two descriptors of an HTTP connection, and how far its *)
(* answer is.                                                              *)
Early == {"none", "start", "open", "request"}

AnswerRow(c) ==
  /\ peerState[c] \in {"away", "backlog"} => FdsOf(c) = {}
  /\ newest = c /\ (mainPc # "accept" \/ handlerPc[c] = "start") => FdsOf(c) = {sockClient}
  /\ handlerPc[c] \in {"none", "start", "open"} => writeFd[c] = NoFd
  /\ handlerPc[c] = "open" => FdsOf(c) = {handlerFd[c]}
  /\ handlerPc[c] \in {"request", "parse", "reject"} =>
       IF writeFd[c] = NoFd THEN FdsOf(c) = {handlerFd[c]}
       ELSE handlerFd[c] # writeFd[c] /\ FdsOf(c) = {handlerFd[c], writeFd[c]}
  /\ handlerPc[c] = "serve" => FdsOf(c) = {writeFd[c]} \ {NoFd}
  /\ handlerPc[c] = "finish" => writeFd[c] # NoFd /\ FdsOf(c) = {writeFd[c]}
  /\ handlerPc[c] \notin {"finish", "gone"} => answered[c] = {}
  /\ handlerPc[c] = "finish" => \E r \in {"bad", "file"} : answered[c] = {r}
  /\ handlerPc[c] = "gone" =>
       \E r \in {"bad", "file", "missing"} :
         answered[c] = {r} /\ (r = "missing" <=> FdsOf(c) # {})

(* What the client asked is what its thread reads, keeps and answers.      *)
OwnRow(c) ==
  /\ asked[c] = "none" => handlerPc[c] \in Early \/ peerState[c] = "left"
  /\ handlerPc[c] = "reject" => reqLine[c] = "bad"
  /\ handlerPc[c] = "serve" => reqLine[c] \in {"file", "missing"}
  /\ asked[c] # "none" /\ c \notin mixed =>
       /\ handlerPc[c] \in Early => request[c] = asked[c]
       /\ handlerPc[c] \in {"parse", "reject", "serve"} => reqLine[c] = asked[c]
       /\ handlerPc[c] \in {"finish", "gone"} =>
            \/ answered[c] = {asked[c]}
            \/ asked[c] = "file" /\ answered[c] = {"missing"}

HttpRows ==
  threadKind = "http" /\ ~overtaken =>
    /\ killed => HttpCrashCause
    /\ \A c \in ThreadClients : AnswerRow(c) /\ OwnRow(c)

ThreadInv == ThreadPlaces /\ Counting /\ ChatRows /\ HttpRows

USE ThreadAssumption DEF ThreadAssumption
-----------------------------------------------------------------------------
LEMMA ShiftLast ==
  ASSUME NEW D, NEW table \in Seq(D), table # <<>>, IsInjective(table), NEW fd, fd = table[Len(table)]
  PROVE  ShiftTable(table, fd) = SubSeq(table, 1, Len(table) - 1)
<1>1. Len(table) \in Nat \ {0} /\ DOMAIN table = 1 .. Len(table)
  OBVIOUS
<1>2. {i \in 1 .. Len(table) - 1 : table[i] = fd} = {}
  BY <1>1 DEF IsInjective
<1> QED
  BY <1>2 DEF ShiftTable, Front

LEMMA ShiftLength ==
  ASSUME NEW D, NEW table \in Seq(D), table # <<>>, NEW fd
  PROVE  ShiftTable(table, fd) \in Seq(D) /\ Len(ShiftTable(table, fd)) = Len(table) - 1
<1> DEFINE places == {i \in 1 .. Len(table) - 1 : table[i] = fd}
<1>1. Len(table) \in Nat \ {0} /\ DOMAIN table = 1 .. Len(table)
  OBVIOUS
<1>2. Front(table) \in Seq(D) /\ Len(Front(table)) = Len(table) - 1
  BY <1>1 DEF Front
<1>3. ASSUME NEW i \in 1 .. Len(table) - 1
      PROVE  RemoveAt(table, i + 1) \in Seq(D) /\ Len(RemoveAt(table, i + 1)) = Len(table) - 1
  <2> DEFINE s == SubSeq(table, 1, i)
             r == SubSeq(table, i + 2, Len(table))
  <2>1. s \in Seq(D) /\ Len(s) = i
    BY <1>1
  <2>2. r \in Seq(D) /\ Len(r) = Len(table) - 1 - i
    <3>1. i + 2 \in Int /\ Len(table) \in Int /\ \A j \in i + 2 .. Len(table) : table[j] \in D
      BY <1>1
    <3>2. r \in Seq(D) /\ Len(r) = IF i + 2 <= Len(table) THEN Len(table) - (i + 2) + 1 ELSE 0
      BY <3>1, SubSeqProperties
    <3>3. i \in Int /\ i + 1 <= Len(table)
      BY <1>1
    <3> HIDE DEF r
    <3>4. \A n, j \in Int : j + 1 <= n => (IF j + 2 <= n THEN n - (j + 2) + 1 ELSE 0) = n - 1 - j
      OBVIOUS
    <3> QED
      BY <3>1, <3>2, <3>3, <3>4
  <2> HIDE DEF s, r
  <2>3. s \o r \in Seq(D) /\ Len(s \o r) = Len(table) - 1
    <3>1. s \o r \in Seq(D) /\ Len(s \o r) = Len(s) + Len(r)
      BY <2>1, <2>2, ConcatProperties
    <3> QED
      BY <1>1, <2>1, <2>2, <3>1
  <2>4. (i + 1) - 1 = i /\ (i + 1) + 1 = i + 2
    OBVIOUS
  <2> QED
    BY <2>3, <2>4 DEF RemoveAt, s, r
<1>4. CASE places # {}
  <2>1. places \in SUBSET Nat
    OBVIOUS
  <2>2. Min(places) \in 1 .. Len(table) - 1
    BY <1>4, <2>1, MinIsIn
  <2> QED
    BY <1>3, <1>4, <2>2 DEF ShiftTable
<1>5. CASE places = {}
  BY <1>2, <1>5 DEF ShiftTable
<1> QED
  BY <1>4, <1>5

LEMMA LowestIsFree ==
  ASSUME FreeFd # {}
  PROVE  LowestFd \in ThreadFds /\ fdPeer[LowestFd] = "none"
<1>1. FreeFd \in SUBSET Nat
  BY DEF FreeFd
<1>2. \E f \in FreeFd : \A g \in FreeFd : f <= g
  <2>1. PICK x \in FreeFd : \A y \in FreeFd : ~(<<y, x>> \in OpToRel(<, Nat))
    BY <1>1, NatLessThanWellFounded, WFMin
  <2>2. \A y \in FreeFd : ~(y < x)
    BY <1>1, <2>1 DEF OpToRel
  <2> QED
    BY <1>1, <2>2
<1>3. LowestFd \in FreeFd
  BY <1>2 DEF LowestFd
<1> QED
  BY <1>3 DEF FreeFd

-----------------------------------------------------------------------------
LEMMA ThreadStart == ThreadInit => ThreadInv
<1> SUFFICES ASSUME ThreadInit
             PROVE  ThreadInv
  OBVIOUS
<1>1. ThreadPlaces
  <2>1. chatTable \in Seq(ThreadFds)
    BY EmptyDistinct DEF ThreadInit
  <2>2. fdPeer \in [ThreadFds -> ThreadClients \cup {"none", "opened"}]
    BY DEF ThreadInit
  <2>3. saysLeft \in [ThreadClients -> Nat]
    BY DEF ThreadInit
  <2>4. ThreadTypes
    BY <2>1, <2>2 DEF ThreadInit, ThreadTypes
  <2> QED
    BY <2>3, <2>4 DEF ThreadInit, ThreadPlaces, AskedOnce
<1>2. Present = {} /\ \A c \in ThreadClients : FdsOf(c) = {}
  <2>1. \A f \in ThreadFds : fdPeer[f] \in {"none", "opened"}
    BY DEF ThreadInit
  <2> QED
    BY <2>1 DEF ThreadInit, Present, FdsOf
<1>3. Counting
  <2>1. Cardinality(Present) = 0 /\ Len(chatTable) = 0 /\ joined - removed = 0
    BY <1>2, FS_EmptySet DEF ThreadInit
  <2> QED
    BY <2>1 DEF Counting
<1>4. ChatRows
  <2>1. ASSUME threadKind = "chat"
        PROVE  \A f \in ThreadFds : fdPeer[f] = "none"
    BY <2>1 DEF ThreadInit
  <2> QED
    BY <1>2, <2>1, EmptyDistinct DEF ThreadInit, ChatRows, TableRows, Present
<1>5. HttpRows
  BY <1>2 DEF ThreadInit, HttpRows, AnswerRow, OwnRow, Early
<1> QED
  BY <1>1, <1>3, <1>4, <1>5 DEF ThreadInv

(* Where main and the threads are.                                         *)
LEMMA PeersKeepPlaces ==
  ASSUME ThreadPlaces, NEW c \in ThreadClients, PeerConnects(c) \/ PeerSays(c) \/ PeerLeaves(c)
  PROVE  ThreadPlaces'
<1>1. UNCHANGED <<threadKind, fdPeer, mainPc, sockClient, newest, chatTable, joined, removed,
                  handlerPc, handlerFd, writeFd, reqLine, mixed, answered, killed>>
  BY DEF PeerConnects, PeerSays, PeerLeaves, mainVars, tableVars, localVars
<1>2. /\ request' \in [ThreadClients -> RequestKinds \cup {"none", "message"}]
      /\ asked' \in [ThreadClients -> RequestKinds \cup {"none", "message"}]
      /\ saysLeft' \in [ThreadClients -> Nat]
      /\ threadKind = "http" => \A d \in ThreadClients : AskedOnce(d)'
  <2>1. CASE PeerSays(c)
    <3>1. PICK r : /\ request' = [request EXCEPT ![c] = r] /\ asked' = [asked EXCEPT ![c] = r]
                   /\ r \in (IF threadKind = "chat" THEN {"message"} ELSE Requests)
      BY <2>1 DEF PeerSays
    <3>2. r \in RequestKinds \cup {"none", "message"} /\ r # "none"
      BY <3>1 DEF RequestKinds
    <3>3. threadKind = "http" => r # "message"
      BY <3>1 DEF RequestKinds
    <3>4. saysLeft' = [saysLeft EXCEPT ![c] = @ - 1] /\ saysLeft[c] > 0
      BY <2>1 DEF PeerSays
    <3>5. saysLeft' \in [ThreadClients -> Nat] /\ saysLeft'[c] = saysLeft[c] - 1
          /\ \A d \in ThreadClients \ {c} : saysLeft'[d] = saysLeft[d]
      BY <3>4 DEF ThreadPlaces
    <3>6. request'[c] = r /\ asked'[c] = r
          /\ \A d \in ThreadClients \ {c} : request'[d] = request[d] /\ asked'[d] = asked[d]
      BY <3>1 DEF ThreadPlaces, ThreadTypes
    <3>7. ASSUME threadKind = "http", NEW d \in ThreadClients
          PROVE  AskedOnce(d)'
      <4>1. AskedOnce(d)
        BY <3>7 DEF ThreadPlaces
      <4>2. CASE d = c
        BY <3>2, <3>3, <3>4, <3>5, <3>6, <3>7, <4>1, <4>2 DEF AskedOnce
      <4>3. CASE d # c
        BY <3>5, <3>6, <4>1, <4>3 DEF AskedOnce
      <4> QED
        BY <4>2, <4>3
    <3> QED
      BY <3>1, <3>2, <3>5, <3>7 DEF ThreadPlaces, ThreadTypes
  <2>2. CASE ~PeerSays(c)
    <3>1. UNCHANGED <<request, asked, saysLeft>>
      BY <2>2 DEF PeerConnects, PeerLeaves
    <3> QED
      BY <3>1 DEF ThreadPlaces, ThreadTypes, AskedOnce
  <2> QED
    BY <2>1, <2>2
<1>3. /\ peerState' \in [ThreadClients -> {"away", "backlog", "connected", "left"}]
      /\ \A d \in ThreadClients : peerState'[d] \in {"away", "backlog"} <=>
                                  peerState[d] \in {"away", "backlog"}
  <2>1. CASE PeerSays(c)
    BY <2>1 DEF PeerSays, ThreadPlaces, ThreadTypes
  <2>2. CASE PeerConnects(c) \/ PeerLeaves(c)
    <3>1. PICK l : /\ peerState' = [peerState EXCEPT ![c] = l]
                   /\ \/ peerState[c] = "away" /\ l = "backlog"
                      \/ peerState[c] = "connected" /\ l = "left"
      BY <2>2 DEF PeerConnects, PeerLeaves
    <3> QED
      BY <3>1 DEF ThreadPlaces, ThreadTypes
  <2> QED
    BY <2>1, <2>2
<1>4. ThreadTypes'
  BY <1>1, <1>2, <1>3 DEF ThreadPlaces, ThreadTypes
<1>5. \A d \in ThreadClients :
        peerState'[d] \in {"connected", "left"} <=> peerState[d] \in {"connected", "left"}
  <2>1. peerState \in [ThreadClients -> {"away", "backlog", "connected", "left"}]
    BY DEF ThreadPlaces, ThreadTypes
  <2> QED
    BY <1>3, <2>1
<1>6. /\ mainPc' # "accept" =>
           /\ newest' \in ThreadClients /\ sockClient' \in ThreadFds /\ handlerPc'[newest'] = "none"
           /\ peerState'[newest'] \in {"connected", "left"}
      /\ \A d \in ThreadClients :
           IF peerState'[d] \in {"away", "backlog"} THEN handlerPc'[d] = "none"
           ELSE handlerPc'[d] = "none" => mainPc' # "accept" /\ newest' = d
      /\ \A d \in ThreadClients :
           peerState'[d] \in {"connected", "left"} => sockClient' \in ThreadFds
  BY <1>1, <1>3, <1>5 DEF ThreadPlaces
<1> QED
  BY <1>1, <1>2, <1>4, <1>6 DEF ThreadPlaces

LEMMA MainKeepsPlaces ==
  ASSUME ThreadPlaces,
         \/ HttpAcceptFails \/ Register \/ CreateHandler
         \/ \E c \in ThreadClients : ThreadAccept(c)
  PROVE  ThreadPlaces'
<1>1. /\ UNCHANGED <<request, asked, saysLeft, reqLine, mixed>> /\ killed' \in BOOLEAN
      /\ threadKind' = threadKind
      /\ threadKind = "http" => \A c \in ThreadClients : AskedOnce(c)'
  <2>1. /\ UNCHANGED <<request, asked, saysLeft, reqLine, mixed>> /\ killed' \in BOOLEAN
        /\ threadKind' = threadKind
    BY DEF HttpAcceptFails, Register, CreateHandler, ThreadAccept, ThreadPlaces, ThreadTypes, peers,
           localVars
  <2> QED
    BY <2>1 DEF ThreadPlaces, AskedOnce
<1>2. CASE HttpAcceptFails
  <2>1. UNCHANGED <<peerState, fdPeer, mainPc, sockClient, newest, chatTable, joined, removed,
                    handlerPc, handlerFd, writeFd, answered>>
    BY <1>2 DEF HttpAcceptFails, peers, mainVars, tableVars, localVars
  <2>2. ThreadTypes'
    BY <1>1, <2>1 DEF ThreadPlaces, ThreadTypes
  <2> QED
    BY <1>1, <2>1, <2>2 DEF ThreadPlaces
<1>3. CASE Register
  <2>1. /\ mainPc = "register" /\ mainPc' = "create" /\ chatTable' = Append(chatTable, sockClient)
        /\ joined' = joined + 1
        /\ UNCHANGED <<threadKind, peerState, fdPeer, sockClient, newest, removed,
                       handlerPc, handlerFd, writeFd, answered>>
    BY <1>3 DEF Register, peers, localVars
  <2>2. chatTable' \in Seq(ThreadFds)
    BY <2>1, AppendRange DEF ThreadPlaces, ThreadTypes
  <2>3. ThreadTypes'
    BY <1>1, <2>1, <2>2 DEF ThreadPlaces, ThreadTypes
  <2> QED
    BY <1>1, <2>1, <2>3 DEF ThreadPlaces
<1>4. CASE CreateHandler
  <2>1. /\ mainPc = "create" /\ mainPc' = "accept"
        /\ handlerPc' = [handlerPc EXCEPT ![newest] = "start"]
        /\ UNCHANGED <<threadKind, peerState, fdPeer, sockClient, newest, chatTable,
                       joined, removed, handlerFd, writeFd, answered>>
    BY <1>4 DEF CreateHandler, GoesTo, peers, tableVars, localVars
  <2>2. /\ newest \in ThreadClients /\ peerState[newest] \in {"connected", "left"}
        /\ handlerPc'[newest] = "start"
        /\ \A d \in ThreadClients \ {newest} : handlerPc'[d] = handlerPc[d]
    BY <2>1 DEF ThreadPlaces, ThreadTypes
  <2>3. ThreadTypes'
    BY <1>1, <2>1, <2>2 DEF ThreadPlaces, ThreadTypes
  <2> QED
    BY <1>1, <2>1, <2>2, <2>3 DEF ThreadPlaces
<1>5. ASSUME NEW c \in ThreadClients, ThreadAccept(c)
      PROVE  ThreadPlaces'
  <2>1. /\ mainPc = "accept" /\ mainPc' \in {"register", "create"} /\ peerState[c] = "backlog"
        /\ threadKind = "http" => mainPc' # "register"
        /\ peerState' = [peerState EXCEPT ![c] = "connected"] /\ newest' = c
        /\ fdPeer' = [fdPeer EXCEPT ![LowestFd] = c] /\ sockClient' = LowestFd
        /\ UNCHANGED <<threadKind, chatTable, joined, removed, handlerPc, handlerFd,
                       writeFd, answered>>
    BY <1>5 DEF ThreadAccept, tableVars, localVars
  <2>2. LowestFd \in ThreadFds
    BY <1>5, LowestIsFree DEF ThreadAccept
  <2>3. /\ peerState'[c] = "connected" /\ handlerPc[c] = "none"
        /\ \A d \in ThreadClients \ {c} : peerState'[d] = peerState[d]
    BY <2>1 DEF ThreadPlaces, ThreadTypes
  <2>4. ThreadTypes'
    BY <1>1, <2>1, <2>2 DEF ThreadPlaces, ThreadTypes
  <2> QED
    BY <1>1, <2>1, <2>2, <2>3, <2>4 DEF ThreadPlaces
<1> QED
  BY <1>2, <1>3, <1>4, <1>5

(* What a step of a thread does to the places of the others: nothing.      *)
LEMMA HandlerMoves ==
  ASSUME ThreadPlaces, NEW c \in ThreadClients, Handler(c)
  PROVE  \/ handlerPc' = handlerPc
         \/ \E l : /\ handlerPc[c] # "none"
                   /\ handlerPc' = [handlerPc EXCEPT ![c] = l]
                   /\ threadKind = "chat" => l \in {"loop", "close", "gone"}
                   /\ threadKind = "http" =>
                        l \in {"open", "request", "parse", "reject", "serve", "finish", "gone"}
<1>1. CASE ReadArgument(c)
  BY <1>1 DEF ReadArgument, At, GoesTo, ThreadPlaces, ThreadTypes
<1>2. CASE SendMsg(c) \/ RemoveClient(c) \/ WriteToNull(c)
  BY <1>2 DEF SendMsg, RemoveClient, WriteToNull, At, GoesTo
<1>3. CASE CloseClient(c) \/ Finish(c)
  BY <1>3 DEF CloseClient, Finish, At, GoesTo
<1>4. CASE OpenStreams(c) \/ ReadLine(c)
  <2>1. handlerPc[c] \in {"open", "request"} /\ threadKind # "chat"
    BY <1>4 DEF OpenStreams, ReadLine, At, ThreadPlaces
  <2>2. \/ handlerPc' = handlerPc
        \/ \E l \in {"request", "parse", "reject"} : handlerPc' = [handlerPc EXCEPT ![c] = l]
    BY <1>4 DEF OpenStreams, ReadLine, GoesTo
  <2> QED
    BY <2>1, <2>2
<1>5. CASE Parse(c) \/ Reject(c) \/ Serve(c)
  <2>1. handlerPc[c] \in {"parse", "reject", "serve"} /\ threadKind # "chat"
    BY <1>5 DEF Parse, Reject, Serve, At, ThreadPlaces
  <2>2. \/ handlerPc' = handlerPc
        \/ \E l \in {"reject", "serve", "finish", "gone"} :
             handlerPc' = [handlerPc EXCEPT ![c] = l]
    BY <1>5 DEF Parse, Reject, Serve, GoesTo
  <2> QED
    BY <2>1, <2>2
<1> QED
  BY <1>1, <1>2, <1>3, <1>4, <1>5 DEF Handler

(* The descriptors and what is at their other ends.                        *)
LEMMA HandlerKeepsFds ==
  ASSUME ThreadPlaces, NEW c \in ThreadClients, Handler(c)
  PROVE  /\ fdPeer' \in [ThreadFds -> ThreadClients \cup {"none", "opened"}]
         /\ handlerFd' \in [ThreadClients -> ThreadFds \cup {NoFd}]
         /\ writeFd' \in [ThreadClients -> ThreadFds \cup {NoFd}]
<1>1. CASE ReadArgument(c)
  BY <1>1 DEF ReadArgument, ThreadPlaces, ThreadTypes
<1>2. CASE SendMsg(c) \/ RemoveClient(c) \/ ReadLine(c) \/ WriteToNull(c)
  <2>1. UNCHANGED <<fdPeer, handlerFd, writeFd>>
    BY <1>2 DEF SendMsg, RemoveClient, ReadLine, WriteToNull, localVars
  <2> QED
    BY <2>1 DEF ThreadPlaces, ThreadTypes
<1>3. CASE CloseClient(c) \/ Parse(c) \/ Reject(c) \/ Finish(c)
  <2>1. \/ fdPeer' = fdPeer
        \/ \E S : fdPeer' = [f \in ThreadFds |-> IF f \in S THEN "none" ELSE fdPeer[f]]
    BY <1>3 DEF CloseClient, Parse, Reject, Finish, Closing
  <2>2. /\ handlerFd' = [handlerFd EXCEPT ![c] = NoFd] \/ handlerFd' = handlerFd
        /\ writeFd' = [writeFd EXCEPT ![c] = NoFd] \/ writeFd' = writeFd
    BY <1>3 DEF CloseClient, Parse, Reject, Finish
  <2>3. fdPeer' \in [ThreadFds -> ThreadClients \cup {"none", "opened"}]
    BY <2>1 DEF ThreadPlaces, ThreadTypes
  <2>4. handlerFd \in [ThreadClients -> ThreadFds \cup {NoFd}]
        /\ writeFd \in [ThreadClients -> ThreadFds \cup {NoFd}]
    BY DEF ThreadPlaces, ThreadTypes
  <2> QED
    BY <2>2, <2>3, <2>4
<1>4. CASE OpenStreams(c)
  <2>1. CASE UNCHANGED <<fdPeer, writeFd>>
    BY <1>4, <2>1 DEF OpenStreams, ThreadPlaces, ThreadTypes
  <2>2. CASE /\ FreeFd # {}
             /\ fdPeer' = [fdPeer EXCEPT ![LowestFd] = PeerOf(c)]
             /\ \E w \in {NoFd, LowestFd} : writeFd' = [writeFd EXCEPT ![c] = w]
    <3>1. handlerFd[c] \in ThreadFds
      BY <1>4 DEF OpenStreams, At, ThreadPlaces
    <3>2. PeerOf(c) \in ThreadClients \cup {"none", "opened"} /\ LowestFd \in ThreadFds
      BY <2>2, <3>1, LowestIsFree DEF PeerOf, ThreadPlaces, ThreadTypes
    <3> QED
      BY <1>4, <2>2, <3>2 DEF OpenStreams, ThreadPlaces, ThreadTypes
  <2> QED
    BY <1>4, <2>1, <2>2 DEF OpenStreams
<1>5. CASE Serve(c)
  <2>1. UNCHANGED <<handlerFd, writeFd>>
    BY <1>5 DEF Serve, localVars
  <2>2. \/ fdPeer' = fdPeer
        \/ FreeFd # {} /\ fdPeer' = [fdPeer EXCEPT ![LowestFd] = "opened"]
    BY <1>5 DEF Serve
  <2>3. fdPeer' \in [ThreadFds -> ThreadClients \cup {"none", "opened"}]
    BY <2>2, LowestIsFree DEF ThreadPlaces, ThreadTypes
  <2> QED
    BY <2>1, <2>3 DEF ThreadPlaces, ThreadTypes
<1> QED
  BY <1>1, <1>2, <1>3, <1>4, <1>5 DEF Handler

(* The lines, and what the clients ask and get.                            *)
LEMMA HandlerKeepsLines ==
  ASSUME ThreadPlaces, NEW c \in ThreadClients, Handler(c)
  PROVE  /\ request' \in [ThreadClients -> RequestKinds \cup {"none", "message"}]
         /\ \A d \in ThreadClients : request'[d] \in {request[d], "none"}
         /\ reqLine' \in [ThreadClients -> RequestKinds \cup {"none"}]
         /\ mixed' \subseteq ThreadClients /\ killed' \in BOOLEAN
         /\ UNCHANGED <<asked, saysLeft>>
         /\ answered' = [d \in ThreadClients |-> answered'[d]]
<1>0. /\ request \in [ThreadClients -> RequestKinds \cup {"none", "message"}]
      /\ reqLine \in [ThreadClients -> RequestKinds \cup {"none"}]
      /\ mixed \subseteq ThreadClients /\ killed \in BOOLEAN
      /\ answered = [d \in ThreadClients |-> answered[d]]
  BY DEF ThreadPlaces, ThreadTypes
<1>1. CASE \/ ReadArgument(c) \/ RemoveClient(c) \/ CloseClient(c) \/ OpenStreams(c)
           \/ WriteToNull(c) \/ Finish(c)
  <2>1. UNCHANGED <<request, asked, saysLeft, reqLine, mixed, answered>>
    BY <1>1 DEF ReadArgument, RemoveClient, CloseClient, OpenStreams, WriteToNull, Finish, peers,
                localVars
  <2>2. killed' \in {killed, TRUE}
    BY <1>1 DEF ReadArgument, RemoveClient, CloseClient, OpenStreams, WriteToNull, Finish
  <2>3. killed' \in BOOLEAN
    BY <1>0, <2>2
  <2> QED
    BY <1>0, <2>1, <2>3
<1>2. CASE SendMsg(c)
  <2>1. /\ request' = [request EXCEPT ![PeerOf(c)] = "none"]
        /\ killed' = (Gone \cap lastWrite # {}) /\ UNCHANGED <<asked, saysLeft, reqLine, mixed>>
        /\ answered' = [d \in ThreadClients |->
                          IF d \in Audience THEN answered[d] \cup {PeerOf(c)} ELSE answered[d]]
    BY <1>2 DEF SendMsg, localVars
  <2>2. answered' = [d \in ThreadClients |-> answered'[d]] /\ killed' \in BOOLEAN
    BY <2>1
  <2>3. /\ request' \in [ThreadClients -> RequestKinds \cup {"none", "message"}]
        /\ \A d \in ThreadClients : request'[d] \in {request[d], "none"}
    BY <1>0, <2>1
  <2> QED
    BY <1>0, <2>1, <2>2, <2>3
<1>3. CASE ReadLine(c)
  <2>1. PICK line \in RequestKinds : reqLine' = [reqLine EXCEPT ![c] = line]
    <3>1. PICK line \in LineRead(c) : reqLine' = [reqLine EXCEPT ![c] = line]
      BY <1>3 DEF ReadLine
    <3>2. threadKind = "http"
      BY <1>3 DEF ReadLine, At, ThreadPlaces, ThreadTypes
    <3>3. PeerOf(c) \in ThreadClients => request[PeerOf(c)] \in RequestKinds \cup {"none"}
      BY <3>2 DEF ThreadPlaces, ThreadTypes, AskedOnce
    <3>4. line \in RequestKinds
      BY <3>1, <3>3 DEF LineRead
    <3> QED
      BY <3>1, <3>4
  <2>2. /\ request' = [d \in ThreadClients |-> IF d = PeerOf(c) THEN "none" ELSE request[d]]
        /\ UNCHANGED <<asked, saysLeft, answered, killed>>
    BY <1>3 DEF ReadLine
  <2>3. mixed' \subseteq ThreadClients
    <3>1. mixed \subseteq ThreadClients /\ Parsing \subseteq ThreadClients
      BY <1>0 DEF Parsing
    <3>2. mixed' = mixed \/ mixed' = mixed \cup {} \/ mixed' = mixed \cup (Parsing \cup {c})
      BY <1>3 DEF ReadLine
    <3> QED
      BY <3>1, <3>2
  <2>4. /\ request' \in [ThreadClients -> RequestKinds \cup {"none", "message"}]
        /\ \A d \in ThreadClients : request'[d] \in {request[d], "none"}
    BY <1>0, <2>2
  <2>5. reqLine' \in [ThreadClients -> RequestKinds \cup {"none"}]
    BY <1>0, <2>1
  <2> QED
    BY <1>0, <2>2, <2>3, <2>4, <2>5
<1>4. CASE Parse(c)
  <2>1. UNCHANGED <<request, asked, saysLeft, mixed, answered>>
    BY <1>4 DEF Parse, peers
  <2>2. /\ killed' \in {killed, TRUE}
        /\ \/ reqLine' = reqLine
           \/ \E line \in {"bad", "file", "missing"} : reqLine' = [reqLine EXCEPT ![c] = line]
    BY <1>4 DEF Parse
  <2>3. reqLine' \in [ThreadClients -> RequestKinds \cup {"none"}]
    <3>1. {"bad", "file", "missing"} \subseteq RequestKinds
      BY DEF RequestKinds
    <3>2. CASE reqLine' = reqLine
      BY <1>0, <3>2
    <3>3. ASSUME NEW line \in {"bad", "file", "missing"}, reqLine' = [reqLine EXCEPT ![c] = line]
          PROVE  reqLine' \in [ThreadClients -> RequestKinds \cup {"none"}]
      BY <1>0, <3>1, <3>3
    <3> QED
      BY <2>2, <3>2, <3>3
  <2>4. killed' \in BOOLEAN
    BY <1>0, <2>2
  <2> QED
    BY <1>0, <2>1, <2>3, <2>4
<1>5. CASE Reject(c) \/ Serve(c)
  <2>1. UNCHANGED <<request, asked, saysLeft, reqLine, mixed>>
    BY <1>5 DEF Reject, Serve, peers, localVars
  <2>2. PICK line : Writes(c, line)
    BY <1>5 DEF Reject, Serve
  <2>3. killed' \in BOOLEAN /\ answered' = [d \in ThreadClients |-> answered'[d]]
    BY <2>2 DEF Writes
  <2> QED
    BY <1>0, <2>1, <2>3
<1> QED
  BY <1>1, <1>2, <1>3, <1>4, <1>5 DEF Handler

LEMMA HandlerKeepsPlaces ==
  ASSUME ThreadPlaces, NEW c \in ThreadClients, Handler(c), RemoveClient(c) => chatTable # <<>>
  PROVE  ThreadPlaces'
<1>1. UNCHANGED <<threadKind, peerState, mainPc, sockClient, newest, joined>>
  BY DEF Handler, ReadArgument, SendMsg, RemoveClient, CloseClient, OpenStreams, ReadLine, Parse,
         WriteToNull, Reject, Serve, Finish, peers, mainVars, tableVars
<1>2. /\ handlerPc' \in [ThreadClients -> {"none", "start", "loop", "close", "open", "request",
                                           "parse", "reject", "serve", "finish", "gone"}]
      /\ \A d \in ThreadClients : handlerPc'[d] = "none" <=> handlerPc[d] = "none"
      /\ threadKind = "chat" =>
           \A d \in ThreadClients : handlerPc'[d] \in {"none", "start", "loop", "close", "gone"}
      /\ threadKind = "http" =>
           \A d \in ThreadClients :
             handlerPc'[d] \in {"none", "start", "open", "request", "parse", "reject", "serve",
                                "finish", "gone"}
  <2>1. CASE handlerPc' = handlerPc
    BY <2>1 DEF ThreadPlaces, ThreadTypes
  <2>2. CASE handlerPc' # handlerPc
    <3>1. PICK l : /\ handlerPc[c] # "none" /\ handlerPc' = [handlerPc EXCEPT ![c] = l]
                   /\ threadKind = "chat" => l \in {"loop", "close", "gone"}
                   /\ threadKind = "http" =>
                        l \in {"open", "request", "parse", "reject", "serve", "finish", "gone"}
      BY <2>2, HandlerMoves
    <3>2. l \in {"loop", "close", "open", "request", "parse", "reject", "serve", "finish", "gone"}
      BY <3>1 DEF ThreadPlaces, ThreadTypes
    <3>3. handlerPc'[c] = l /\ \A d \in ThreadClients \ {c} : handlerPc'[d] = handlerPc[d]
      BY <3>1 DEF ThreadPlaces, ThreadTypes
    <3>4. handlerPc' \in [ThreadClients -> {"none", "start", "loop", "close", "open", "request",
                                            "parse", "reject", "serve", "finish", "gone"}]
      BY <3>1, <3>2 DEF ThreadPlaces, ThreadTypes
    <3> QED
      BY <3>1, <3>2, <3>3, <3>4 DEF ThreadPlaces
  <2> QED
    BY <2>1, <2>2
<1>3. chatTable' \in Seq(ThreadFds) /\ removed' \in Nat
  <2>1. CASE ~RemoveClient(c)
    <3>1. UNCHANGED <<chatTable, removed>>
      BY <2>1 DEF Handler, ReadArgument, SendMsg, CloseClient, OpenStreams, ReadLine, Parse,
                  WriteToNull, Reject, Serve, Finish, tableVars
    <3> QED
      BY <3>1 DEF ThreadPlaces, ThreadTypes
  <2>2. CASE RemoveClient(c)
    <3>1. chatTable' = ShiftTable(chatTable, handlerFd[c]) /\ removed' = removed + 1
      BY <2>2 DEF RemoveClient
    <3>2. chatTable' \in Seq(ThreadFds)
      BY <2>2, <3>1, ShiftLength DEF ThreadPlaces, ThreadTypes
    <3> QED
      BY <3>1, <3>2 DEF ThreadPlaces
  <2> QED
    BY <2>1, <2>2
<1>4. \A d \in ThreadClients :
        handlerPc'[d] \in {"loop", "close", "open", "request", "parse", "reject"} =>
          handlerFd'[d] \in ThreadFds
  <2>1. CASE ReadArgument(c)
    <3>1. /\ handlerPc[c] = "start" /\ handlerFd' = [handlerFd EXCEPT ![c] = sockClient]
          /\ \E l : handlerPc' = [handlerPc EXCEPT ![c] = l]
      BY <2>1 DEF ReadArgument, At, GoesTo
    <3>2. sockClient \in ThreadFds
      BY <3>1 DEF ThreadPlaces, ThreadTypes
    <3> QED
      BY <3>1, <3>2 DEF ThreadPlaces, ThreadTypes
  <2>2. CASE /\ handlerFd' = handlerFd
             /\ \/ handlerPc' = handlerPc
                \/ \E l : /\ handlerPc[c] \in {"loop", "open", "request", "parse"}
                          /\ handlerPc' = [handlerPc EXCEPT ![c] = l]
    BY <2>2 DEF ThreadPlaces, ThreadTypes
  <2>3. CASE /\ handlerFd' = [handlerFd EXCEPT ![c] = NoFd] \/ handlerFd' = handlerFd
             /\ \E l \in {"serve", "finish", "gone"} : handlerPc' = [handlerPc EXCEPT ![c] = l]
    <3>1. \A d \in ThreadClients \ {c} : handlerFd'[d] = handlerFd[d]
      BY <2>3 DEF ThreadPlaces, ThreadTypes
    <3> QED
      BY <2>3, <3>1 DEF ThreadPlaces, ThreadTypes
  <2>4. CASE \/ SendMsg(c) \/ RemoveClient(c) \/ OpenStreams(c) \/ ReadLine(c) \/ WriteToNull(c)
    BY <2>2, <2>4 DEF SendMsg, RemoveClient, OpenStreams, ReadLine, WriteToNull, At, GoesTo,
                      localVars
  <2>5. CASE CloseClient(c) \/ Reject(c) \/ Serve(c) \/ Finish(c)
    BY <2>3, <2>5 DEF CloseClient, Reject, Serve, Finish, GoesTo, localVars
  <2>6. CASE Parse(c)
    BY <2>2, <2>3, <2>6 DEF Parse, At, GoesTo
  <2> QED
    BY <2>1, <2>4, <2>5, <2>6 DEF Handler
<1>5. ThreadTypes'
  <2>1. /\ fdPeer' \in [ThreadFds -> ThreadClients \cup {"none", "opened"}]
        /\ handlerFd' \in [ThreadClients -> ThreadFds \cup {NoFd}]
        /\ writeFd' \in [ThreadClients -> ThreadFds \cup {NoFd}]
    BY HandlerKeepsFds
  <2>2. /\ request' \in [ThreadClients -> RequestKinds \cup {"none", "message"}]
        /\ reqLine' \in [ThreadClients -> RequestKinds \cup {"none"}]
        /\ mixed' \subseteq ThreadClients /\ killed' \in BOOLEAN /\ asked' = asked
    BY HandlerKeepsLines
  <2> QED
    BY <1>1, <1>2, <1>3, <2>1, <2>2 DEF ThreadPlaces, ThreadTypes
<1>6. threadKind = "http" => \A d \in ThreadClients : AskedOnce(d)'
  BY HandlerKeepsLines DEF ThreadPlaces, AskedOnce
<1> QED
  BY <1>1, <1>2, <1>3, <1>4, <1>5, <1>6, HandlerKeepsLines DEF ThreadPlaces

(* The length of the table of the chat.                                    *)
LEMMA PresentCount ==
  ASSUME NEW c \in ThreadClients
  PROVE  /\ Cardinality(Present) \in Nat
         /\ c \notin Present => Cardinality(Present \cup {c}) = Cardinality(Present) + 1
         /\ c \in Present => Cardinality(Present \ {c}) = Cardinality(Present) - 1
         /\ c \in Present => Cardinality(Present) # 0
<1>1. IsFiniteSet(Present)
  BY FS_Subset DEF Present
<1> QED
  BY <1>1, FS_AddElement, FS_RemoveElement, FS_CardinalityType, FS_EmptySet

LEMMA TableNotEmpty ==
  ASSUME ThreadPlaces, Counting, NEW c \in ThreadClients, RemoveClient(c)
  PROVE  chatTable # <<>> /\ c \in Present
<1>1. threadKind = "chat" /\ c \in Present
  BY DEF RemoveClient, At, Present
<1>2. Len(chatTable) # 0
  BY <1>1, PresentCount DEF Counting
<1> QED
  BY <1>1, <1>2

LEMMA CountingStays ==
  ASSUME Counting, threadKind = "chat" => Present' = Present,
         UNCHANGED <<threadKind, chatTable, joined, removed>>
  PROVE  Counting'
BY DEF Counting

LEMMA CountingStep ==
  ASSUME ThreadPlaces, Counting, [ThreadNext]_threadServerVars
  PROVE  Counting'
<1>1. CASE Register
  <2>1. /\ mainPc = "register" /\ mainPc' = "create" /\ chatTable' = Append(chatTable, sockClient)
        /\ joined' = joined + 1 /\ UNCHANGED <<threadKind, newest, removed, handlerPc>>
    BY <1>1 DEF Register, peers
  <2>2. CASE threadKind = "chat"
    <3>1. newest \in ThreadClients /\ newest \notin Present /\ Present' = Present \cup {newest}
      BY <2>1 DEF ThreadPlaces, Present
    <3>2. Cardinality(Present') = Cardinality(Present) + 1 /\ Cardinality(Present) \in Nat
      BY <3>1, PresentCount
    <3>3. Len(chatTable') = Len(chatTable) + 1
      BY <2>1 DEF ThreadPlaces, ThreadTypes
    <3> QED
      BY <2>1, <2>2, <3>2, <3>3 DEF Counting, ThreadPlaces
  <2>3. CASE threadKind # "chat"
    BY <2>1, <2>3 DEF Counting
  <2> QED
    BY <2>2, <2>3
<1>2. CASE CreateHandler
  <2>1. /\ mainPc = "create" /\ mainPc' = "accept"
        /\ handlerPc' = [handlerPc EXCEPT ![newest] = "start"]
        /\ UNCHANGED <<threadKind, newest, chatTable, joined, removed>>
    BY <1>2 DEF CreateHandler, GoesTo, peers, tableVars
  <2>2. newest \in ThreadClients
    BY <2>1 DEF ThreadPlaces
  <2>3. Present' = Present
    BY <2>1, <2>2 DEF ThreadPlaces, ThreadTypes, Present
  <2> QED
    BY <2>1, <2>3, CountingStays
<1>3. ASSUME NEW c \in ThreadClients, ThreadAccept(c)
      PROVE  Counting'
  <2>1. /\ mainPc = "accept" /\ (threadKind = "chat" => mainPc' = "register")
        /\ UNCHANGED <<threadKind, chatTable, joined, removed, handlerPc>>
    BY <1>3 DEF ThreadAccept, tableVars
  <2>2. threadKind = "chat" => Present' = Present
    BY <2>1 DEF Present
  <2> QED
    BY <2>1, <2>2, CountingStays
<1>4. ASSUME NEW c \in ThreadClients, RemoveClient(c)
      PROVE  Counting'
  <2>1. /\ handlerPc[c] = "loop" /\ handlerPc' = [handlerPc EXCEPT ![c] = "close"]
        /\ chatTable' = ShiftTable(chatTable, handlerFd[c]) /\ removed' = removed + 1
        /\ UNCHANGED <<threadKind, mainPc, newest, joined>> /\ threadKind = "chat"
    BY <1>4 DEF RemoveClient, At, GoesTo, peers, mainVars
  <2>2. c \in Present /\ chatTable # <<>>
    BY <1>4, TableNotEmpty
  <2>3. Present' = Present \ {c}
    BY <2>1 DEF ThreadPlaces, ThreadTypes, Present
  <2>4. Len(chatTable') = Len(chatTable) - 1
    BY <2>1, <2>2, ShiftLength DEF ThreadPlaces, ThreadTypes
  <2>5. Cardinality(Present') = Cardinality(Present) - 1 /\ Cardinality(Present) \in Nat
    BY <2>2, <2>3, PresentCount
  <2> QED
    BY <2>1, <2>4, <2>5 DEF Counting, ThreadPlaces
<1>5. ASSUME NEW c \in ThreadClients, Handler(c), ~RemoveClient(c)
      PROVE  Counting'
  <2>1. UNCHANGED <<threadKind, mainPc, newest, chatTable, joined, removed>>
    BY <1>5 DEF Handler, ReadArgument, SendMsg, CloseClient, OpenStreams, ReadLine, Parse,
                WriteToNull, Reject, Serve, Finish, peers, mainVars, tableVars
  <2>2. threadKind = "chat" =>
          \/ handlerPc' = handlerPc
          \/ /\ handlerPc[c] = "start"
             /\ handlerPc' = [handlerPc EXCEPT ![c] = "loop"]
          \/ /\ handlerPc[c] = "close"
             /\ handlerPc' = [handlerPc EXCEPT ![c] = "gone"]
    BY <1>5 DEF Handler, ReadArgument, SendMsg, CloseClient, OpenStreams, ReadLine, Parse,
                WriteToNull, Reject, Serve, Finish, At, GoesTo, ThreadPlaces
  <2>3. threadKind = "chat" => Present' = Present
    BY <2>1, <2>2 DEF Present, ThreadPlaces, ThreadTypes
  <2> QED
    BY <2>1, <2>3, CountingStays
<1>6. CASE HttpAcceptFails
           \/ \E c \in ThreadClients : PeerConnects(c) \/ PeerSays(c) \/ PeerLeaves(c)
  <2>1. UNCHANGED <<threadKind, mainPc, newest, chatTable, joined, removed, handlerPc>>
    BY <1>6 DEF HttpAcceptFails, PeerConnects, PeerSays, PeerLeaves, peers, mainVars, tableVars
  <2>2. Present' = Present
    BY <2>1 DEF Present
  <2> QED
    BY <2>1, <2>2, CountingStays
<1>7. CASE UNCHANGED threadServerVars
  <2>1. UNCHANGED <<threadKind, mainPc, newest, chatTable, joined, removed, handlerPc>>
    BY <1>7 DEF threadServerVars, peers, mainVars, tableVars
  <2>2. Present' = Present
    BY <2>1 DEF Present
  <2> QED
    BY <2>1, <2>2, CountingStays
<1> QED
  BY <1>1, <1>2, <1>3, <1>4, <1>5, <1>6, <1>7 DEF ThreadNext

LEMMA PlacesStep ==
  ASSUME ThreadPlaces, Counting, [ThreadNext]_threadServerVars
  PROVE  ThreadPlaces'
<1>1. CASE UNCHANGED threadServerVars
  BY <1>1 DEF threadServerVars, peers, mainVars, tableVars, localVars, ThreadPlaces, ThreadTypes,
              AskedOnce
<1>2. CASE ThreadNext
  BY <1>2, PeersKeepPlaces, MainKeepsPlaces, HandlerKeepsPlaces, TableNotEmpty DEF ThreadNext
<1> QED
  BY <1>1, <1>2

(* The table of the chat, entry by entry.                                  *)
LEMMA HistoryGrows ==
  ASSUME [ThreadNext]_threadServerVars, ThreadPlaces
  PROVE  /\ threadKind' = threadKind
         /\ ~overtaken' => ~overtaken
         /\ ~midLeft' => ~midLeft
<1>1. CASE HttpAcceptFails \/ Register \/ CreateHandler \/ UNCHANGED threadServerVars
  BY <1>1 DEF HttpAcceptFails, Register, CreateHandler, threadServerVars, peers, tableVars
<1>2. ASSUME NEW c \in ThreadClients, PeerConnects(c) \/ PeerSays(c) \/ PeerLeaves(c)
                                      \/ ThreadAccept(c)
      PROVE  UNCHANGED <<threadKind, overtaken, midLeft>>
  BY <1>2 DEF PeerConnects, PeerSays, PeerLeaves, ThreadAccept, tableVars
<1>3. ASSUME NEW c \in ThreadClients, Handler(c)
      PROVE  /\ threadKind' = threadKind
             /\ ~overtaken' => ~overtaken
             /\ ~midLeft' => ~midLeft
  <2>1. threadKind' = threadKind
    BY <1>3 DEF Handler, ReadArgument, SendMsg, RemoveClient, CloseClient, OpenStreams, ReadLine,
                Parse, WriteToNull, Reject, Serve, Finish, peers
  <2>2. ~overtaken' => ~overtaken
    <3>1. CASE ReadArgument(c)
      BY <3>1, Zenon DEF ReadArgument
    <3>2. CASE ~ReadArgument(c)
      BY <1>3, <3>2 DEF Handler, SendMsg, RemoveClient, CloseClient, OpenStreams, ReadLine, Parse,
                        WriteToNull, Reject, Serve, Finish
    <3> QED
      BY <3>1, <3>2
  <2>3. ~midLeft' => ~midLeft
    <3>1. CASE RemoveClient(c)
      BY <3>1, Zenon DEF RemoveClient
    <3>2. CASE ~RemoveClient(c)
      BY <1>3, <3>2 DEF Handler, ReadArgument, SendMsg, CloseClient, OpenStreams, ReadLine, Parse,
                        WriteToNull, Reject, Serve, Finish, tableVars
    <3> QED
      BY <3>1, <3>2
  <2> QED
    BY <2>1, <2>2, <2>3
<1> QED
  BY <1>1, <1>2, <1>3 DEF ThreadNext

LEMMA RowsStay ==
  ASSUME TableRows,
         UNCHANGED <<chatTable, fdPeer, newest, sockClient, mainPc, handlerPc, handlerFd>>,
         \A c \in ThreadClients :
           peerState'[c] \in {"away", "backlog"} => peerState[c] \in {"away", "backlog"}
  PROVE  TableRows'
<1>1. Present' = Present
  BY DEF Present
<1>2. \A d : FdsOf(d)' = FdsOf(d)
  BY DEF FdsOf
<1> QED
  BY <1>1, <1>2 DEF TableRows

LEMMA AcceptKeepsRows ==
  ASSUME ThreadPlaces, TableRows, threadKind = "chat", NEW c \in ThreadClients, ThreadAccept(c)
  PROVE  TableRows'
<1> DEFINE f0 == LowestFd
<1>1. /\ mainPc = "accept" /\ mainPc' = "register" /\ peerState[c] = "backlog"
      /\ peerState' = [peerState EXCEPT ![c] = "connected"] /\ newest' = c
      /\ fdPeer' = [fdPeer EXCEPT ![f0] = c] /\ sockClient' = f0
      /\ UNCHANGED <<chatTable, handlerPc, handlerFd>>
  BY DEF ThreadAccept, tableVars, localVars
<1>2. f0 \in ThreadFds /\ fdPeer[f0] = "none"
  BY LowestIsFree DEF ThreadAccept
<1> HIDE DEF f0
<1>3. handlerPc[c] = "none" /\ FdsOf(c) = {}
  BY <1>1 DEF ThreadPlaces, TableRows
<1>4. Present' = Present /\ c \notin Present /\ "none" \notin Present
  BY <1>1, <1>3 DEF Present
<1>5. fdPeer'[f0] = c /\ \A f \in ThreadFds \ {f0} : fdPeer'[f] = fdPeer[f]
  BY <1>1, <1>2 DEF ThreadPlaces, ThreadTypes
<1>6. \A d \in ThreadClients \ {c} : FdsOf(d)' = FdsOf(d) /\ peerState'[d] = peerState[d]
  BY <1>1, <1>2, <1>5 DEF FdsOf, ThreadPlaces, ThreadTypes
<1>7. \A f, g \in ThreadFds : fdPeer'[f] = fdPeer'[g] /\ fdPeer'[f] # "none" => f = g
  BY <1>3, <1>5 DEF TableRows, FdsOf
<1>8. \A f \in ThreadFds : fdPeer'[f] \in Present <=> f \in Range(chatTable)
  BY <1>2, <1>4, <1>5 DEF TableRows
<1>9. f0 \in FdsOf(c)'
  BY <1>2, <1>5 DEF FdsOf
<1>10. Present \subseteq ThreadClients /\ peerState'[c] = "connected"
  BY <1>1 DEF Present, ThreadPlaces, ThreadTypes
<1>11. \A d \in Present' : FdsOf(d)' # {}
  BY <1>4, <1>6, <1>10 DEF TableRows
<1>12. ASSUME NEW d \in ThreadClients
       PROVE  /\ handlerPc'[d] \in {"loop", "close"} => handlerFd'[d] \in FdsOf(d)'
              /\ newest' = d /\ (mainPc' # "accept" \/ handlerPc'[d] = "start") =>
                   sockClient' \in FdsOf(d)'
              /\ peerState'[d] \in {"away", "backlog"} \/ handlerPc'[d] = "gone" => FdsOf(d)' = {}
  <2>1. CASE d = c
    BY <1>1, <1>3, <1>9, <1>10, <2>1
  <2>2. CASE d # c
    BY <1>1, <1>6, <2>2 DEF TableRows
  <2> QED
    BY <2>1, <2>2
<1> QED
  BY <1>1, <1>4, <1>7, <1>8, <1>11, <1>12 DEF TableRows

LEMMA MainKeepsRows ==
  ASSUME ThreadPlaces, TableRows, threadKind = "chat", Register \/ CreateHandler
  PROVE  TableRows'
<1>1. /\ newest \in ThreadClients /\ sockClient \in ThreadFds /\ handlerPc[newest] = "none"
      /\ fdPeer[sockClient] = newest /\ mainPc # "accept"
  BY DEF Register, CreateHandler, ThreadPlaces, TableRows, FdsOf
<1>2. CASE Register
  <2>1. /\ mainPc = "register" /\ mainPc' = "create" /\ chatTable' = Append(chatTable, sockClient)
        /\ UNCHANGED <<peerState, fdPeer, sockClient, newest, handlerPc, handlerFd>>
    BY <1>2 DEF Register, peers, localVars
  <2>2. newest \notin Present /\ Present' = Present \cup {newest}
    BY <1>1, <2>1 DEF Present
  <2>3. sockClient \notin Range(chatTable)
    BY <1>1, <2>2 DEF TableRows
  <2>4. IsInjective(chatTable') /\ Range(chatTable') = Range(chatTable) \cup {sockClient}
    BY <1>1, <2>1, <2>3, AppendToDistinct DEF ThreadPlaces, ThreadTypes, TableRows
  <2>5. \A f \in ThreadFds : fdPeer'[f] \in Present' <=> f \in Range(chatTable')
    BY <1>1, <2>1, <2>2, <2>4 DEF TableRows
  <2>6. sockClient \in FdsOf(newest)
    BY <1>1 DEF FdsOf
  <2>7. \A d : FdsOf(d)' = FdsOf(d)
    BY <2>1 DEF FdsOf
  <2> QED
    BY <1>1, <2>1, <2>2, <2>4, <2>5, <2>6, <2>7 DEF TableRows
<1>3. CASE CreateHandler
  <2>1. /\ mainPc = "create" /\ mainPc' = "accept"
        /\ handlerPc' = [handlerPc EXCEPT ![newest] = "start"]
        /\ UNCHANGED <<peerState, fdPeer, sockClient, newest, chatTable, handlerFd>>
    BY <1>3 DEF CreateHandler, GoesTo, peers, tableVars, localVars
  <2>2. handlerPc'[newest] = "start"
        /\ \A d \in ThreadClients \ {newest} : handlerPc'[d] = handlerPc[d]
    BY <1>1, <2>1 DEF ThreadPlaces, ThreadTypes
  <2>3. Present' = Present
    BY <1>1, <2>1, <2>2 DEF Present
  <2>4. \A d : FdsOf(d)' = FdsOf(d)
    BY <2>1 DEF FdsOf
  <2>5. peerState[newest] \notin {"away", "backlog"}
    BY <1>1 DEF ThreadPlaces
  <2> QED
    BY <1>1, <2>1, <2>2, <2>3, <2>4, <2>5 DEF TableRows
<1> QED
  BY <1>2, <1>3

LEMMA RemovalKeepsRows ==
  ASSUME ThreadPlaces, Counting, TableRows, NEW c \in ThreadClients, RemoveClient(c), ~midLeft'
  PROVE  TableRows'
<1>1. /\ handlerPc[c] = "loop" /\ handlerPc' = [handlerPc EXCEPT ![c] = "close"]
      /\ chatTable' = ShiftTable(chatTable, handlerFd[c])
      /\ UNCHANGED <<peerState, fdPeer, mainPc, newest, sockClient, handlerFd>>
      /\ handlerFd[c] = chatTable[Len(chatTable)]
  BY DEF RemoveClient, At, GoesTo, Last, peers, mainVars, localVars
<1>2. chatTable # <<>> /\ c \in Present
  BY TableNotEmpty
<1>3. chatTable \in Seq(ThreadFds) /\ IsInjective(chatTable) /\ Len(chatTable) \in Nat \ {0}
  BY <1>2 DEF ThreadPlaces, ThreadTypes, TableRows
<1>4. chatTable' = SubSeq(chatTable, 1, Len(chatTable) - 1)
  BY <1>1, <1>2, <1>3, ShiftLast
<1>5. IsInjective(chatTable') /\ Range(chatTable') = Range(chatTable) \ {handlerFd[c]}
  <2>1. Len(chatTable) - 1 \in 0 .. Len(chatTable)
        /\ (Len(chatTable) - 1) + 1 .. Len(chatTable) = {Len(chatTable)}
    BY <1>3
  <2>2. /\ IsInjective(chatTable')
        /\ Range(chatTable') =
             Range(chatTable) \ {chatTable[i] : i \in (Len(chatTable) - 1) + 1 .. Len(chatTable)}
    BY <1>3, <1>4, <2>1, PrefixOfDistinct
  <2> QED
    BY <1>1, <2>1, <2>2
<1>6. handlerPc'[c] = "close" /\ \A d \in ThreadClients \ {c} : handlerPc'[d] = handlerPc[d]
  BY <1>1 DEF ThreadPlaces, ThreadTypes
<1>7. Present' = Present \ {c}
  <2>1. c = newest => mainPc # "create"
    BY <1>1 DEF ThreadPlaces
  <2> QED
    BY <1>1, <1>6, <2>1 DEF Present
<1>8. handlerFd[c] \in ThreadFds /\ fdPeer[handlerFd[c]] = c
  BY <1>1 DEF TableRows, FdsOf
<1>9. \A f \in ThreadFds : fdPeer[f] = c <=> f = handlerFd[c]
  BY <1>8 DEF TableRows, ThreadPlaces, ThreadTypes
<1>10. \A f \in ThreadFds : fdPeer'[f] \in Present' <=> f \in Range(chatTable')
  BY <1>1, <1>5, <1>7, <1>9 DEF TableRows
<1>11. \A d : FdsOf(d)' = FdsOf(d)
  BY <1>1 DEF FdsOf
<1>12. ASSUME NEW d \in ThreadClients
       PROVE  /\ handlerPc'[d] \in {"loop", "close"} => handlerFd'[d] \in FdsOf(d)'
              /\ newest' = d /\ (mainPc' # "accept" \/ handlerPc'[d] = "start") =>
                   sockClient' \in FdsOf(d)'
              /\ peerState'[d] \in {"away", "backlog"} \/ handlerPc'[d] = "gone" => FdsOf(d)' = {}
  BY <1>1, <1>6, <1>11 DEF TableRows
<1> QED
  BY <1>1, <1>5, <1>7, <1>10, <1>11, <1>12 DEF TableRows

LEMMA CloseKeepsRows ==
  ASSUME ThreadPlaces, TableRows, NEW c \in ThreadClients, CloseClient(c)
  PROVE  TableRows'
<1>1. /\ handlerPc[c] = "close" /\ handlerPc' = [handlerPc EXCEPT ![c] = "gone"]
      /\ fdPeer' = [f \in ThreadFds |-> IF f \in {handlerFd[c]} THEN "none" ELSE fdPeer[f]]
      /\ handlerFd' = [handlerFd EXCEPT ![c] = NoFd]
      /\ UNCHANGED <<peerState, mainPc, newest, sockClient, chatTable>>
  BY DEF CloseClient, At, GoesTo, Closing, peers, mainVars, tableVars
<1>2. /\ handlerPc'[c] = "gone"
      /\ \A d \in ThreadClients \ {c} : handlerPc'[d] = handlerPc[d] /\ handlerFd'[d] = handlerFd[d]
  BY <1>1 DEF ThreadPlaces, ThreadTypes
<1>3. handlerFd[c] \in ThreadFds /\ fdPeer[handlerFd[c]] = c
  BY <1>1 DEF TableRows, FdsOf
<1>4. c # "none" /\ \A f \in ThreadFds : fdPeer'[f] = IF fdPeer[f] = c THEN "none" ELSE fdPeer[f]
  BY <1>1, <1>3 DEF TableRows
<1>5. c = newest => mainPc = "accept"
  BY <1>1 DEF ThreadPlaces
<1>6. Present' = Present /\ c \notin Present /\ "none" \notin Present
        /\ Present \subseteq ThreadClients
  BY <1>1, <1>2, <1>5 DEF Present
<1>7. FdsOf(c)' = {} /\ \A d \in ThreadClients \ {c} : FdsOf(d)' = FdsOf(d)
  BY <1>4 DEF FdsOf
<1>8. \A f, g \in ThreadFds : fdPeer'[f] = fdPeer'[g] /\ fdPeer'[f] # "none" => f = g
  BY <1>4 DEF TableRows
<1>9. \A f \in ThreadFds : fdPeer'[f] \in Present' <=> f \in Range(chatTable')
  BY <1>1, <1>4, <1>6 DEF TableRows
<1>10. ASSUME NEW d \in ThreadClients
       PROVE  /\ handlerPc'[d] \in {"loop", "close"} => handlerFd'[d] \in FdsOf(d)'
              /\ newest' = d /\ (mainPc' # "accept" \/ handlerPc'[d] = "start") =>
                   sockClient' \in FdsOf(d)'
              /\ peerState'[d] \in {"away", "backlog"} \/ handlerPc'[d] = "gone" => FdsOf(d)' = {}
  <2>1. CASE d = c
    BY <1>1, <1>2, <1>5, <1>7, <2>1
  <2>2. CASE d # c
    BY <1>1, <1>2, <1>7, <2>2 DEF TableRows
  <2> QED
    BY <2>1, <2>2
<1>11. \A d \in Present' : FdsOf(d)' # {}
  BY <1>6, <1>7 DEF TableRows
<1> QED
  BY <1>1, <1>8, <1>9, <1>10, <1>11 DEF TableRows

LEMMA ReadKeepsRows ==
  ASSUME ThreadPlaces, TableRows, threadKind = "chat", NEW c \in ThreadClients, ReadArgument(c),
         ~overtaken'
  PROVE  TableRows'
<1>1. /\ handlerPc[c] = "start" /\ handlerPc' = [handlerPc EXCEPT ![c] = "loop"] /\ newest = c
      /\ handlerFd' = [handlerFd EXCEPT ![c] = sockClient]
      /\ UNCHANGED <<peerState, fdPeer, mainPc, newest, sockClient, chatTable>>
  BY DEF ReadArgument, At, GoesTo, peers, mainVars, tableVars
<1>2. /\ handlerPc'[c] = "loop" /\ handlerFd'[c] = sockClient
      /\ \A d \in ThreadClients \ {c} : handlerPc'[d] = handlerPc[d] /\ handlerFd'[d] = handlerFd[d]
  BY <1>1 DEF ThreadPlaces, ThreadTypes
<1>3. Present' = Present
  BY <1>1, <1>2 DEF Present
<1>4. \A d : FdsOf(d)' = FdsOf(d)
  BY <1>1 DEF FdsOf
<1>5. sockClient \in FdsOf(c)
  BY <1>1 DEF TableRows
<1>6. ASSUME NEW d \in ThreadClients
      PROVE  /\ handlerPc'[d] \in {"loop", "close"} => handlerFd'[d] \in FdsOf(d)'
             /\ newest' = d /\ (mainPc' # "accept" \/ handlerPc'[d] = "start") =>
                  sockClient' \in FdsOf(d)'
             /\ peerState'[d] \in {"away", "backlog"} \/ handlerPc'[d] = "gone" => FdsOf(d)' = {}
  <2>1. CASE d = c
    BY <1>1, <1>2, <1>4, <1>5, <2>1 DEF ThreadPlaces, ThreadTypes
  <2>2. CASE d # c
    BY <1>1, <1>2, <1>4, <2>2 DEF TableRows
  <2> QED
    BY <2>1, <2>2
<1> QED
  BY <1>1, <1>3, <1>4, <1>6 DEF TableRows

LEMMA ChatRowsStep ==
  ASSUME ThreadPlaces, Counting, ChatRows, [ThreadNext]_threadServerVars
  PROVE  ChatRows'
<1> SUFFICES ASSUME threadKind' = "chat", ~overtaken', ~midLeft'
             PROVE  TableRows'
  BY DEF ChatRows
<1>1. TableRows /\ threadKind = "chat"
  BY HistoryGrows DEF ChatRows
<1>2. ASSUME NEW c \in ThreadClients,
             PeerConnects(c) \/ PeerSays(c) \/ PeerLeaves(c) \/ SendMsg(c)
      PROVE  TableRows'
  <2>1. UNCHANGED <<chatTable, fdPeer, newest, sockClient, mainPc, handlerPc, handlerFd>>
    BY <1>2 DEF PeerConnects, PeerSays, PeerLeaves, SendMsg, mainVars, tableVars, localVars
  <2>2. peerState' = peerState \/ (peerState[c] \in {"away", "connected"}
                                   /\ \E l : /\ peerState' = [peerState EXCEPT ![c] = l]
                                             /\ l = "backlog" => peerState[c] = "away"
                                             /\ l \in {"backlog", "left"})
    BY <1>2 DEF PeerConnects, PeerSays, PeerLeaves, SendMsg
  <2>3. \A d \in ThreadClients :
          peerState'[d] \in {"away", "backlog"} => peerState[d] \in {"away", "backlog"}
    BY <2>2 DEF ThreadPlaces, ThreadTypes
  <2> QED
    BY <1>1, <2>1, <2>3, RowsStay
<1>3. CASE UNCHANGED threadServerVars
  BY <1>1, <1>3, RowsStay DEF threadServerVars, peers, mainVars, tableVars, localVars
<1>4. ASSUME NEW c \in ThreadClients, \/ OpenStreams(c) \/ ReadLine(c) \/ Parse(c)
                                      \/ WriteToNull(c) \/ Reject(c) \/ Serve(c) \/ Finish(c)
      PROVE  FALSE
  <2>1. handlerPc[c] \in {"open", "request", "parse", "reject", "serve", "finish"}
    BY <1>4 DEF OpenStreams, ReadLine, Parse, WriteToNull, Reject, Serve, Finish, At
  <2> QED
    BY <1>1, <2>1 DEF ThreadPlaces
<1>5. ~HttpAcceptFails
  BY <1>1 DEF HttpAcceptFails
<1> QED
  BY <1>1, <1>2, <1>3, <1>4, <1>5, AcceptKeepsRows, MainKeepsRows, RemovalKeepsRows, CloseKeepsRows,
     ReadKeepsRows DEF ThreadNext, Handler

(* The HTTP connections, one at a time.                                    *)
LEMMA FdsStay ==
  ASSUME NEW d, \A f \in ThreadFds : fdPeer'[f] = d <=> fdPeer[f] = d
  PROVE  FdsOf(d)' = FdsOf(d)
BY DEF FdsOf

LEMMA RowStays ==
  ASSUME NEW d \in ThreadClients, AnswerRow(d), FdsOf(d)' = FdsOf(d),
         handlerPc'[d] = handlerPc[d], handlerFd'[d] = handlerFd[d], writeFd'[d] = writeFd[d],
         answered'[d] = answered[d],
         peerState'[d] \in {"away", "backlog"} => peerState[d] \in {"away", "backlog"},
         newest' = d /\ (mainPc' # "accept" \/ handlerPc[d] = "start") =>
           newest = d /\ (mainPc # "accept" \/ handlerPc[d] = "start") /\ sockClient' = sockClient
  PROVE  AnswerRow(d)'
  BY DEF AnswerRow

LEMMA OwnStays ==
  ASSUME NEW d \in ThreadClients, OwnRow(d), handlerPc'[d] = handlerPc[d],
         asked'[d] = asked[d], request'[d] = request[d], reqLine'[d] = reqLine[d],
         answered'[d] = answered[d], d \in mixed => d \in mixed',
         peerState[d] = "left" => peerState'[d] = "left"
  PROVE  OwnRow(d)'
  BY DEF OwnRow

LEMMA PeersKeepAnswers ==
  ASSUME ThreadPlaces, \A c \in ThreadClients : AnswerRow(c),
         \/ UNCHANGED threadServerVars
         \/ \E c \in ThreadClients : PeerConnects(c) \/ PeerSays(c) \/ PeerLeaves(c)
  PROVE  \A c \in ThreadClients : AnswerRow(c)'
<1>1. UNCHANGED <<fdPeer, mainPc, sockClient, newest, handlerPc, handlerFd, writeFd, answered>>
  BY DEF PeerConnects, PeerSays, PeerLeaves, threadServerVars, mainVars, localVars
<1>2. \A d \in ThreadClients :
        peerState'[d] \in {"away", "backlog"} => peerState[d] \in {"away", "backlog"}
  <2>1. CASE peerState' = peerState
    BY <2>1
  <2>2. CASE peerState' # peerState
    <3>1. PICK c \in ThreadClients :
            \/ peerState[c] = "away" /\ peerState' = [peerState EXCEPT ![c] = "backlog"]
            \/ peerState' = [peerState EXCEPT ![c] = "left"]
      BY <2>2 DEF PeerConnects, PeerSays, PeerLeaves, threadServerVars, peers
    <3> QED
      BY <3>1 DEF ThreadPlaces, ThreadTypes
  <2> QED
    BY <2>1, <2>2
<1>3. \A d : FdsOf(d)' = FdsOf(d)
  BY <1>1 DEF FdsOf
<1> QED
  BY <1>1, <1>2, <1>3, RowStays

LEMMA PeersKeepOwn ==
  ASSUME ThreadPlaces, threadKind = "http", \A d \in ThreadClients : OwnRow(d),
         NEW c \in ThreadClients, PeerConnects(c) \/ PeerSays(c) \/ PeerLeaves(c)
  PROVE  \A d \in ThreadClients : OwnRow(d)'
<1>1. UNCHANGED <<handlerPc, reqLine, mixed, answered>>
  BY DEF PeerConnects, PeerSays, PeerLeaves, localVars
<1>2. CASE PeerConnects(c) \/ PeerLeaves(c)
  <2>1. /\ UNCHANGED <<request, asked>> /\ peerState[c] # "left"
        /\ \E l : peerState' = [peerState EXCEPT ![c] = l]
    BY <1>2 DEF PeerConnects, PeerLeaves
  <2>2. \A d \in ThreadClients : peerState[d] = "left" => peerState'[d] = "left"
    BY <2>1 DEF ThreadPlaces, ThreadTypes
  <2> QED
    BY <1>1, <2>1, <2>2, OwnStays
<1>3. CASE PeerSays(c)
  <2>1. PICK r : /\ request' = [request EXCEPT ![c] = r] /\ asked' = [asked EXCEPT ![c] = r]
                 /\ peerState[c] = "connected" /\ saysLeft[c] > 0 /\ peerState' = peerState
                 /\ r \in Requests
    BY <1>3 DEF PeerSays
  <2>2. r # "none"
    BY <2>1 DEF RequestKinds
  <2>3. /\ request'[c] = r /\ asked'[c] = r
        /\ \A d \in ThreadClients \ {c} : request'[d] = request[d] /\ asked'[d] = asked[d]
    BY <2>1 DEF ThreadPlaces, ThreadTypes
  <2>4. asked[c] = "none"
    BY <2>1 DEF ThreadPlaces, AskedOnce
  <2>5. handlerPc[c] \in Early
    BY <2>1, <2>4 DEF OwnRow
  <2>6. OwnRow(c)'
    BY <1>1, <2>2, <2>3, <2>5 DEF OwnRow, Early
  <2>7. \A d \in ThreadClients \ {c} : OwnRow(d)'
    BY <1>1, <2>1, <2>3, OwnStays
  <2> QED
    BY <2>6, <2>7
<1> QED
  BY <1>2, <1>3

LEMMA MainKeepsAnswers ==
  ASSUME ThreadPlaces, threadKind = "http", \A c \in ThreadClients : AnswerRow(c),
         CreateHandler \/ \E c \in ThreadClients : ThreadAccept(c)
  PROVE  \A c \in ThreadClients : AnswerRow(c)'
<1>1. CASE CreateHandler
  <2>1. /\ mainPc = "create" /\ mainPc' = "accept"
        /\ handlerPc' = [handlerPc EXCEPT ![newest] = "start"]
        /\ UNCHANGED <<peerState, fdPeer, sockClient, newest, handlerFd, writeFd, answered>>
    BY <1>1 DEF CreateHandler, GoesTo, peers, localVars
  <2>2. /\ newest \in ThreadClients /\ handlerPc[newest] = "none" /\ handlerPc'[newest] = "start"
        /\ peerState[newest] \in {"connected", "left"}
        /\ \A d \in ThreadClients \ {newest} : handlerPc'[d] = handlerPc[d]
    BY <2>1 DEF ThreadPlaces, ThreadTypes
  <2>3. \A d : FdsOf(d)' = FdsOf(d)
    BY <2>1 DEF FdsOf
  <2>4. ASSUME NEW d \in ThreadClients, d = newest
        PROVE  AnswerRow(d)'
    <3>1. handlerPc'[d] = "start" /\ handlerPc[d] = "none" /\ FdsOf(d)' = FdsOf(d)
      BY <2>2, <2>3, <2>4
    <3>2. peerState'[d] \in {"connected", "left"}
      BY <2>1, <2>2, <2>4
    <3> QED
      BY <2>1, <2>4, <3>1, <3>2 DEF AnswerRow
  <2>5. ASSUME NEW d \in ThreadClients, d # newest
        PROVE  AnswerRow(d)'
    <3>1. /\ handlerPc'[d] = handlerPc[d] /\ FdsOf(d)' = FdsOf(d) /\ newest' # d
          /\ AnswerRow(d)
      BY <2>1, <2>2, <2>3, <2>5
    <3>2. UNCHANGED <<peerState, handlerFd, writeFd, answered>>
      BY <2>1
    <3> QED
      BY <3>1, <3>2 DEF AnswerRow
  <2> QED
    BY <2>4, <2>5
<1>2. ASSUME NEW c \in ThreadClients, ThreadAccept(c)
      PROVE  \A d \in ThreadClients : AnswerRow(d)'
  <2> DEFINE f0 == LowestFd
  <2>1. /\ mainPc = "accept" /\ mainPc' = "create" /\ peerState[c] = "backlog"
        /\ peerState' = [peerState EXCEPT ![c] = "connected"] /\ newest' = c
        /\ fdPeer' = [fdPeer EXCEPT ![f0] = c] /\ sockClient' = f0
        /\ UNCHANGED <<handlerPc, handlerFd, writeFd, answered>>
    BY <1>2 DEF ThreadAccept, localVars
  <2>2. f0 \in ThreadFds /\ fdPeer[f0] = "none"
    BY <1>2, LowestIsFree DEF ThreadAccept
  <2> HIDE DEF f0
  <2>3. handlerPc[c] = "none" /\ FdsOf(c) = {}
    BY <2>1 DEF ThreadPlaces, AnswerRow
  <2>4. fdPeer'[f0] = c /\ \A f \in ThreadFds \ {f0} : fdPeer'[f] = fdPeer[f]
    BY <2>1, <2>2 DEF ThreadPlaces, ThreadTypes
  <2>5. FdsOf(c)' = {f0}
    <3>1. \A f \in ThreadFds : fdPeer[f] # c
      BY <2>3 DEF FdsOf
    <3>2. \A f \in ThreadFds : fdPeer'[f] = c <=> f = f0
      BY <2>4, <3>1
    <3> QED
      BY <2>2, <3>2 DEF FdsOf
  <2>6. \A d \in ThreadClients \ {c} : FdsOf(d)' = FdsOf(d) /\ peerState'[d] = peerState[d]
    BY <2>1, <2>2, <2>4 DEF FdsOf, ThreadPlaces, ThreadTypes
  <2>7. AnswerRow(c)'
    <3>1. peerState'[c] = "connected"
      BY <2>1 DEF ThreadPlaces, ThreadTypes
    <3> QED
      BY <2>1, <2>3, <2>5, <3>1 DEF AnswerRow
  <2>8. \A d \in ThreadClients \ {c} : AnswerRow(d)'
    BY <2>1, <2>6, RowStays
  <2> QED
    BY <2>7, <2>8
<1> QED
  BY <1>1, <1>2

LEMMA MainKeepsOwn ==
  ASSUME ThreadPlaces, \A d \in ThreadClients : OwnRow(d),
         CreateHandler \/ \E c \in ThreadClients : ThreadAccept(c)
  PROVE  \A d \in ThreadClients : OwnRow(d)'
<1>1. UNCHANGED <<request, asked, reqLine, mixed, answered>>
  BY DEF CreateHandler, ThreadAccept, peers, localVars
<1>2. CASE CreateHandler
  <2>1. /\ mainPc = "create" /\ handlerPc' = [handlerPc EXCEPT ![newest] = "start"]
        /\ UNCHANGED <<peerState, newest>>
    BY <1>2 DEF CreateHandler, GoesTo, peers
  <2>2. /\ newest \in ThreadClients /\ handlerPc[newest] = "none" /\ handlerPc'[newest] = "start"
        /\ \A d \in ThreadClients \ {newest} : handlerPc'[d] = handlerPc[d]
    BY <2>1 DEF ThreadPlaces, ThreadTypes
  <2>3. ASSUME NEW d \in ThreadClients, d = newest
        PROVE  OwnRow(d)'
    <3>1. OwnRow(d) /\ handlerPc[d] = "none" /\ handlerPc'[d] = "start"
      BY <2>2, <2>3
    <3> QED
      BY <1>1, <2>1, <3>1 DEF OwnRow, Early
  <2>4. \A d \in ThreadClients \ {newest} : OwnRow(d)'
    BY <1>1, <2>1, <2>2, OwnStays
  <2> QED
    BY <2>3, <2>4
<1>3. ASSUME NEW c \in ThreadClients, ThreadAccept(c)
      PROVE  \A d \in ThreadClients : OwnRow(d)'
  <2>1. /\ handlerPc' = handlerPc /\ peerState[c] = "backlog"
        /\ peerState' = [peerState EXCEPT ![c] = "connected"]
    BY <1>3 DEF ThreadAccept
  <2>2. \A d \in ThreadClients : peerState[d] = "left" => peerState'[d] = "left"
    BY <2>1 DEF ThreadPlaces, ThreadTypes
  <2> QED
    BY <1>1, <2>1, <2>2, OwnStays
<1> QED
  BY <1>2, <1>3

LEMMA ReadKeepsAnswers ==
  ASSUME ThreadPlaces, threadKind = "http", \A d \in ThreadClients : AnswerRow(d) /\ OwnRow(d),
         NEW c \in ThreadClients, ReadArgument(c), ~overtaken'
  PROVE  \A d \in ThreadClients : AnswerRow(d)' /\ OwnRow(d)'
<1>1. /\ handlerPc[c] = "start" /\ handlerPc' = [handlerPc EXCEPT ![c] = "open"] /\ newest = c
      /\ handlerFd' = [handlerFd EXCEPT ![c] = sockClient]
      /\ UNCHANGED <<peerState, request, asked, fdPeer, mainPc, newest, sockClient, writeFd,
                     reqLine, mixed, answered>>
  BY DEF ReadArgument, At, GoesTo, peers, mainVars
<1>2. /\ handlerPc'[c] = "open" /\ handlerFd'[c] = sockClient
      /\ \A d \in ThreadClients \ {c} : handlerPc'[d] = handlerPc[d] /\ handlerFd'[d] = handlerFd[d]
  BY <1>1 DEF ThreadPlaces, ThreadTypes
<1>3. \A d : FdsOf(d)' = FdsOf(d)
  BY <1>1 DEF FdsOf
<1>4. mainPc = "accept" /\ peerState[c] \notin {"away", "backlog"}
  BY <1>1 DEF ThreadPlaces
<1>5. AnswerRow(c)'
  BY <1>1, <1>2, <1>3, <1>4 DEF AnswerRow
<1>6. OwnRow(c)'
  BY <1>1, <1>2 DEF OwnRow, Early
<1>7. \A d \in ThreadClients \ {c} : AnswerRow(d)' /\ OwnRow(d)'
  BY <1>1, <1>2, <1>3, RowStays, OwnStays
<1> QED
  BY <1>5, <1>6, <1>7

LEMMA OpenKeepsAnswers ==
  ASSUME ThreadPlaces, \A d \in ThreadClients : AnswerRow(d) /\ OwnRow(d), NEW c \in ThreadClients,
         OpenStreams(c)
  PROVE  killed' = killed /\ \A d \in ThreadClients : AnswerRow(d)' /\ OwnRow(d)'
<1>1. /\ handlerPc[c] = "open"
      /\ UNCHANGED <<peerState, request, asked, mainPc, newest, sockClient, handlerFd, reqLine,
                     mixed, answered>>
  BY DEF OpenStreams, At, peers, mainVars
<1>2. FdsOf(c) = {handlerFd[c]} /\ handlerFd[c] \in ThreadFds /\ writeFd[c] = NoFd
  BY <1>1 DEF AnswerRow, ThreadPlaces
<1>3. PeerOf(c) = c /\ c # "none" /\ c # "opened"
  BY <1>2 DEF PeerOf, FdsOf
<1>4. /\ handlerPc' = [handlerPc EXCEPT ![c] = "request"] /\ killed' = killed
      /\ FreeFd = {} => UNCHANGED <<fdPeer, writeFd>>
      /\ FreeFd # {} => /\ fdPeer' = [fdPeer EXCEPT ![LowestFd] = c]
                        /\ writeFd' = [writeFd EXCEPT ![c] = LowestFd]
  BY <1>3 DEF OpenStreams, GoesTo
<1>5. /\ handlerPc'[c] = "request"
      /\ \A d \in ThreadClients \ {c} : handlerPc'[d] = handlerPc[d]
  BY <1>4 DEF ThreadPlaces, ThreadTypes
<1>6. peerState[c] \notin {"away", "backlog"} /\ (newest = c => mainPc = "accept")
  BY <1>1 DEF ThreadPlaces
<1>7. answered'[c] = {}
  BY <1>1 DEF AnswerRow
<1>8. OwnRow(c)' /\ \A d \in ThreadClients \ {c} : OwnRow(d)'
  <2>1. OwnRow(c)'
    BY <1>1, <1>5 DEF OwnRow, Early
  <2> QED
    BY <1>1, <1>5, <2>1, OwnStays
<1>9. CASE FreeFd = {}
  <2>1. UNCHANGED <<fdPeer, writeFd>>
    BY <1>4, <1>9
  <2>2. \A d : FdsOf(d)' = FdsOf(d)
    BY <2>1 DEF FdsOf
  <2>3. AnswerRow(c)'
    BY <1>1, <1>2, <1>5, <1>6, <1>7, <2>1, <2>2 DEF AnswerRow
  <2>4. \A d \in ThreadClients \ {c} : AnswerRow(d)'
    BY <1>1, <1>5, <2>1, <2>2, RowStays
  <2> QED
    BY <1>4, <1>8, <2>3, <2>4
<1>10. CASE FreeFd # {}
  <2> DEFINE f0 == LowestFd
  <2>1. f0 \in ThreadFds /\ fdPeer[f0] = "none"
    BY <1>10, LowestIsFree
  <2>2. fdPeer' = [fdPeer EXCEPT ![f0] = c] /\ writeFd' = [writeFd EXCEPT ![c] = f0]
    BY <1>4, <1>10
  <2> HIDE DEF f0
  <2>3. fdPeer'[f0] = c /\ \A f \in ThreadFds \ {f0} : fdPeer'[f] = fdPeer[f]
    BY <2>1, <2>2 DEF ThreadPlaces, ThreadTypes
  <2>4. f0 # handlerFd[c] /\ FdsOf(c)' = {handlerFd[c], f0} /\ f0 # NoFd
    <3>1. \A f \in ThreadFds : fdPeer[f] = c <=> f = handlerFd[c]
      BY <1>2 DEF FdsOf
    <3>2. f0 # handlerFd[c]
      BY <1>3, <2>1, <3>1
    <3>3. \A f \in ThreadFds : fdPeer'[f] = c <=> f \in {handlerFd[c], f0}
      BY <2>3, <3>1
    <3>4. f0 # NoFd
      BY <2>1 DEF NoFd
    <3> QED
      BY <1>2, <2>1, <3>2, <3>3, <3>4 DEF FdsOf
  <2>5. \A d \in ThreadClients \ {c} : FdsOf(d)' = FdsOf(d)
    BY <2>1, <2>3 DEF FdsOf
  <2>6. /\ writeFd'[c] = f0
        /\ \A d \in ThreadClients \ {c} : writeFd'[d] = writeFd[d]
    BY <2>2 DEF ThreadPlaces, ThreadTypes
  <2>7. AnswerRow(c)'
    <3>1. handlerFd'[c] # writeFd'[c] /\ FdsOf(c)' = {handlerFd'[c], writeFd'[c]}
          /\ writeFd'[c] # NoFd
      BY <1>1, <2>4, <2>6
    <3> QED
      BY <1>1, <1>5, <1>6, <1>7, <3>1 DEF AnswerRow
  <2>8. \A d \in ThreadClients \ {c} : AnswerRow(d)'
    BY <1>1, <1>5, <2>5, <2>6, RowStays
  <2> QED
    BY <1>4, <1>8, <2>7, <2>8
<1> QED
  BY <1>9, <1>10

LEMMA ReadLineKeepsAnswers ==
  ASSUME ThreadPlaces, threadKind = "http", \A d \in ThreadClients : AnswerRow(d) /\ OwnRow(d),
         NEW c \in ThreadClients, ReadLine(c)
  PROVE  \A d \in ThreadClients : AnswerRow(d)' /\ OwnRow(d)'
<1>1. /\ handlerPc[c] = "request"
      /\ UNCHANGED <<peerState, asked, fdPeer, mainPc, newest, sockClient, handlerFd, writeFd,
                     answered>>
      /\ request' = [d \in ThreadClients |-> IF d = PeerOf(c) THEN "none" ELSE request[d]]
  BY DEF ReadLine, At, mainVars
<1>2. handlerFd[c] \in ThreadFds /\ PeerOf(c) = c
  <2>1. handlerFd[c] \in ThreadFds
    BY <1>1 DEF ThreadPlaces
  <2>2. handlerFd[c] \in FdsOf(c)
    BY <1>1 DEF AnswerRow
  <2> QED
    BY <2>1, <2>2 DEF PeerOf, FdsOf
<1>3. PICK line \in LineRead(c) :
        /\ reqLine' = [reqLine EXCEPT ![c] = line]
        /\ \/ line = "bad" /\ handlerPc' = [handlerPc EXCEPT ![c] = "reject"] /\ mixed' = mixed
           \/ /\ handlerPc' = [handlerPc EXCEPT ![c] = "parse"]
              /\ mixed' = mixed \cup IF Parsing = {} THEN {} ELSE Parsing \cup {c}
  BY DEF ReadLine, GoesTo
<1>4. mixed \subseteq mixed'
  BY <1>3
<1>5. /\ reqLine'[c] = line /\ handlerPc'[c] \in {"reject", "parse"}
      /\ handlerPc'[c] = "reject" => line = "bad"
      /\ \A d \in ThreadClients \ {c} :
           /\ reqLine'[d] = reqLine[d] /\ handlerPc'[d] = handlerPc[d] /\ request'[d] = request[d]
  <2>1. \A d \in ThreadClients \ {c} : request'[d] = request[d]
    BY <1>1, <1>2
  <2>2. \/ /\ handlerPc'[c] = "reject" /\ line = "bad"
           /\ \A d \in ThreadClients \ {c} : handlerPc'[d] = handlerPc[d]
        \/ /\ handlerPc'[c] = "parse"
           /\ \A d \in ThreadClients \ {c} : handlerPc'[d] = handlerPc[d]
    BY <1>3 DEF ThreadPlaces, ThreadTypes
  <2>3. reqLine'[c] = line /\ \A d \in ThreadClients \ {c} : reqLine'[d] = reqLine[d]
    BY <1>3 DEF ThreadPlaces, ThreadTypes
  <2> QED
    BY <2>1, <2>2, <2>3
<1>6. \A d : FdsOf(d)' = FdsOf(d)
  BY <1>1 DEF FdsOf
<1>7. peerState[c] \notin {"away", "backlog"} /\ (newest = c => mainPc = "accept")
  BY <1>1 DEF ThreadPlaces
<1>8. AnswerRow(c)'
  BY <1>1, <1>5, <1>6, <1>7 DEF AnswerRow
<1>9. OwnRow(c)'
  <2>1. CASE asked[c] = "none"
    <3>1. request[c] = "none"
      BY <2>1 DEF ThreadPlaces, AskedOnce
    <3>2. peerState[c] = "left"
      BY <1>2, <1>3, <3>1 DEF LineRead
    <3> QED
      BY <1>1, <1>5, <2>1, <3>2 DEF OwnRow, Early
  <2>2. CASE asked[c] # "none" /\ c \in mixed'
    BY <1>1, <1>5, <2>2 DEF OwnRow, Early
  <2>3. CASE asked[c] # "none" /\ c \notin mixed'
    <3>1. c \notin mixed
      BY <1>4, <2>3
    <3>2. request[c] = asked[c]
      BY <1>1, <2>3, <3>1 DEF OwnRow, Early
    <3>3. line = asked[c]
      BY <1>2, <1>3, <2>3, <3>2 DEF LineRead
    <3> QED
      BY <1>1, <1>5, <2>3, <3>3 DEF OwnRow, Early
  <2> QED
    BY <2>1, <2>2, <2>3
<1>10. \A d \in ThreadClients \ {c} : AnswerRow(d)'
  BY <1>1, <1>5, <1>6, RowStays
<1>11. \A d \in ThreadClients \ {c} : OwnRow(d)'
  BY <1>1, <1>4, <1>5, OwnStays
<1> QED
  BY <1>8, <1>9, <1>10, <1>11

(* What closing a client's descriptors does to FdsOf.                      *)
LEMMA ClosingOwn ==
  ASSUME NEW c \in ThreadClients, NEW g \in FdsOf(c),
         fdPeer' = [f \in ThreadFds |-> IF f \in {g} THEN "none" ELSE fdPeer[f]]
  PROVE  /\ FdsOf(c)' = FdsOf(c) \ {g}
         /\ \A d \in ThreadClients \ {c} : FdsOf(d)' = FdsOf(d)
<1>1. g \in ThreadFds /\ fdPeer[g] = c /\ c # "none"
  BY DEF FdsOf
<1>2. \A f \in ThreadFds : fdPeer'[f] = IF f = g THEN "none" ELSE fdPeer[f]
  OBVIOUS
<1>3. \A d \in ThreadClients \ {c} : \A f \in ThreadFds : fdPeer'[f] = d <=> fdPeer[f] = d
  BY <1>1, <1>2
<1>4. FdsOf(c)' = FdsOf(c) \ {g}
  BY <1>1, <1>2 DEF FdsOf
<1> QED
  BY <1>3, <1>4, FdsStay

LEMMA ParseKeepsAnswers ==
  ASSUME ThreadPlaces, ~killed, \A d \in ThreadClients : AnswerRow(d) /\ OwnRow(d),
         NEW c \in ThreadClients, Parse(c)
  PROVE  (killed' => HttpCrashCause') /\ \A d \in ThreadClients : AnswerRow(d)' /\ OwnRow(d)'
<1>1. /\ handlerPc[c] = "parse"
      /\ UNCHANGED <<peerState, request, asked, mainPc, newest, sockClient, writeFd, mixed,
                     answered>>
  BY DEF Parse, At, peers, mainVars
<1>2. handlerFd[c] \in FdsOf(c)
  BY <1>1 DEF AnswerRow
<1>3. PICK line \in Parsed(c) :
        \/ /\ line = "plain" /\ killed' = TRUE
           /\ UNCHANGED <<fdPeer, handlerPc, handlerFd, reqLine>>
        \/ /\ line = "bad" /\ reqLine' = [reqLine EXCEPT ![c] = line]
           /\ handlerPc' = [handlerPc EXCEPT ![c] = "reject"]
           /\ UNCHANGED <<fdPeer, handlerFd, killed>>
        \/ /\ line \in {"file", "missing"} /\ reqLine' = [reqLine EXCEPT ![c] = line]
           /\ fdPeer' = [f \in ThreadFds |-> IF f \in {handlerFd[c]} THEN "none" ELSE fdPeer[f]]
           /\ handlerFd' = [handlerFd EXCEPT ![c] = NoFd]
           /\ handlerPc' = [handlerPc EXCEPT ![c] = "serve"]
           /\ UNCHANGED killed
  BY DEF Parse, GoesTo, Closing
<1>4. asked[c] # "none" /\ c \notin mixed => line = asked[c]
  BY <1>1, <1>3 DEF Parsed, OwnRow
<1>5. peerState[c] \notin {"away", "backlog"} /\ (newest = c => mainPc = "accept")
  BY <1>1 DEF ThreadPlaces
<1>6. asked[c] = "none" => peerState[c] = "left"
  BY <1>1 DEF OwnRow, Early
<1>7. CASE line = "plain"
  <2>1. killed' = TRUE /\ UNCHANGED <<fdPeer, handlerPc, handlerFd, reqLine>>
    BY <1>3, <1>7
  <2>2. asked[c] = "plain" \/ peerState[c] = "left" \/ c \in mixed
    BY <1>4, <1>6, <1>7
  <2>3. HttpCrashCause'
    BY <1>1, <2>1, <2>2 DEF HttpCrashCause
  <2>4. \A d : FdsOf(d)' = FdsOf(d)
    BY <2>1 DEF FdsOf
  <2>5. \A d \in ThreadClients : AnswerRow(d)'
    BY <1>1, <2>1, <2>4, RowStays
  <2>6. \A d \in ThreadClients : OwnRow(d)'
    BY <1>1, <2>1, OwnStays
  <2> QED
    BY <2>3, <2>5, <2>6
<1>8. CASE line = "bad"
  <2>1. /\ reqLine' = [reqLine EXCEPT ![c] = "bad"]
        /\ handlerPc' = [handlerPc EXCEPT ![c] = "reject"]
        /\ UNCHANGED <<fdPeer, handlerFd, killed>>
    BY <1>3, <1>8
  <2>2. /\ reqLine'[c] = "bad" /\ handlerPc'[c] = "reject"
        /\ \A d \in ThreadClients \ {c} : reqLine'[d] = reqLine[d] /\ handlerPc'[d] = handlerPc[d]
    BY <2>1 DEF ThreadPlaces, ThreadTypes
  <2>3. \A d : FdsOf(d)' = FdsOf(d)
    BY <2>1 DEF FdsOf
  <2>4. AnswerRow(c)'
    BY <1>1, <1>5, <2>1, <2>2, <2>3 DEF AnswerRow
  <2>5. OwnRow(c)'
    BY <1>1, <1>4, <1>6, <1>8, <2>2 DEF OwnRow, Early
  <2>6. \A d \in ThreadClients \ {c} : AnswerRow(d)'
    BY <1>1, <2>1, <2>2, <2>3, RowStays
  <2>7. \A d \in ThreadClients \ {c} : OwnRow(d)'
    BY <1>1, <2>2, OwnStays
  <2> QED
    BY <2>1, <2>4, <2>5, <2>6, <2>7
<1>9. CASE line \in {"file", "missing"}
  <2>1. /\ reqLine' = [reqLine EXCEPT ![c] = line] /\ killed' = killed
        /\ fdPeer' = [f \in ThreadFds |-> IF f \in {handlerFd[c]} THEN "none" ELSE fdPeer[f]]
        /\ handlerFd' = [handlerFd EXCEPT ![c] = NoFd]
        /\ handlerPc' = [handlerPc EXCEPT ![c] = "serve"]
    BY <1>3, <1>9
  <2>2. /\ reqLine'[c] = line /\ handlerPc'[c] = "serve"
        /\ \A d \in ThreadClients \ {c} : reqLine'[d] = reqLine[d] /\ handlerPc'[d] = handlerPc[d]
                                          /\ handlerFd'[d] = handlerFd[d]
    BY <2>1 DEF ThreadPlaces, ThreadTypes
  <2>3. /\ FdsOf(c)' = FdsOf(c) \ {handlerFd[c]}
        /\ \A d \in ThreadClients \ {c} : FdsOf(d)' = FdsOf(d)
    BY <1>2, <2>1, ClosingOwn
  <2>4. FdsOf(c)' = {writeFd[c]} \ {NoFd}
    <3>1. handlerFd[c] # NoFd
      BY <1>2 DEF FdsOf, NoFd
    <3>2. CASE writeFd[c] = NoFd
      <4>1. FdsOf(c) = {handlerFd[c]}
        BY <1>1, <3>2 DEF AnswerRow
      <4> QED
        BY <2>3, <3>2, <4>1
    <3>3. CASE writeFd[c] # NoFd
      <4>1. handlerFd[c] # writeFd[c] /\ FdsOf(c) = {handlerFd[c], writeFd[c]}
        BY <1>1, <3>3 DEF AnswerRow
      <4> QED
        BY <2>3, <3>3, <4>1
    <3> QED
      BY <3>2, <3>3
  <2>5. AnswerRow(c)'
    <3>1. answered[c] = {}
      BY <1>1 DEF AnswerRow
    <3> QED
      BY <1>1, <1>5, <2>2, <2>4, <3>1 DEF AnswerRow
  <2>6. OwnRow(c)'
    BY <1>1, <1>4, <1>6, <1>9, <2>2 DEF OwnRow, Early
  <2>7. \A d \in ThreadClients \ {c} : AnswerRow(d)'
    BY <1>1, <2>2, <2>3, RowStays
  <2>8. \A d \in ThreadClients \ {c} : OwnRow(d)'
    BY <1>1, <2>2, OwnStays
  <2> QED
    BY <2>1, <2>5, <2>6, <2>7, <2>8
<1> QED
  BY <1>3, <1>7, <1>8, <1>9

(* What is written to write_fp goes to the thread's own client.            *)
LEMMA WritesOwn ==
  ASSUME ThreadPlaces, NEW c \in ThreadClients, writeFd[c] \in FdsOf(c), NEW line, Writes(c, line)
  PROVE  /\ answered'[c] = answered[c] \cup {line}
         /\ \A d \in ThreadClients \ {c} : answered'[d] = answered[d]
         /\ killed' => peerState[c] = "left"
<1>1. fdPeer[writeFd[c]] = c
  BY DEF FdsOf
<1>2. answered' = [d \in ThreadClients |-> IF d = c THEN answered[d] \cup {line} ELSE answered[d]]
  BY <1>1 DEF Writes
<1>3. killed' => peerState[c] = "left"
  BY <1>1 DEF Writes
<1> QED
  BY <1>2, <1>3

LEMMA RejectKeepsAnswers ==
  ASSUME ThreadPlaces, \A d \in ThreadClients : AnswerRow(d) /\ OwnRow(d), NEW c \in ThreadClients,
         Reject(c)
  PROVE  (killed' => HttpCrashCause') /\ \A d \in ThreadClients : AnswerRow(d)' /\ OwnRow(d)'
<1>1. /\ handlerPc[c] = "reject" /\ writeFd[c] # NoFd /\ Writes(c, "bad")
      /\ handlerPc' = [handlerPc EXCEPT ![c] = "finish"]
      /\ fdPeer' = [f \in ThreadFds |-> IF f \in {handlerFd[c]} THEN "none" ELSE fdPeer[f]]
      /\ handlerFd' = [handlerFd EXCEPT ![c] = NoFd]
      /\ UNCHANGED <<peerState, request, asked, mainPc, newest, sockClient, writeFd, reqLine,
                     mixed>>
  BY DEF Reject, At, GoesTo, Closing, peers, mainVars
<1>2. /\ FdsOf(c) = {handlerFd[c], writeFd[c]} /\ handlerFd[c] # writeFd[c] /\ answered[c] = {}
      /\ handlerFd[c] \in FdsOf(c) /\ writeFd[c] \in FdsOf(c)
  BY <1>1 DEF AnswerRow
<1>3. /\ FdsOf(c)' = {writeFd[c]}
      /\ \A d \in ThreadClients \ {c} : FdsOf(d)' = FdsOf(d)
  <2>1. /\ FdsOf(c)' = FdsOf(c) \ {handlerFd[c]}
        /\ \A d \in ThreadClients \ {c} : FdsOf(d)' = FdsOf(d)
    BY <1>1, <1>2, ClosingOwn
  <2> QED
    BY <1>2, <2>1
<1>4. /\ answered'[c] = {"bad"} /\ (killed' => peerState[c] = "left")
      /\ \A d \in ThreadClients \ {c} : answered'[d] = answered[d]
  BY <1>1, <1>2, WritesOwn
<1>5. /\ handlerPc'[c] = "finish"
      /\ \A d \in ThreadClients \ {c} : handlerPc'[d] = handlerPc[d] /\ handlerFd'[d] = handlerFd[d]
  BY <1>1 DEF ThreadPlaces, ThreadTypes
<1>6. peerState[c] \notin {"away", "backlog"} /\ (newest = c => mainPc = "accept")
  BY <1>1 DEF ThreadPlaces
<1>7. AnswerRow(c)'
  BY <1>1, <1>3, <1>4, <1>5, <1>6 DEF AnswerRow
<1>8. OwnRow(c)'
  <2>1. reqLine[c] = "bad" /\ (asked[c] = "none" => peerState[c] = "left")
        /\ (asked[c] # "none" /\ c \notin mixed => asked[c] = "bad")
    BY <1>1 DEF OwnRow, Early
  <2> QED
    BY <1>1, <1>4, <1>5, <2>1 DEF OwnRow, Early
<1>9. \A d \in ThreadClients \ {c} : AnswerRow(d)'
  BY <1>1, <1>3, <1>4, <1>5, RowStays
<1>10. \A d \in ThreadClients \ {c} : OwnRow(d)'
  BY <1>1, <1>4, <1>5, OwnStays
<1>11. killed' => HttpCrashCause'
  BY <1>1, <1>4, <1>5 DEF HttpCrashCause
<1> QED
  BY <1>7, <1>8, <1>9, <1>10, <1>11

LEMMA ServeKeepsAnswers ==
  ASSUME ThreadPlaces, \A d \in ThreadClients : AnswerRow(d) /\ OwnRow(d), NEW c \in ThreadClients,
         Serve(c)
  PROVE  (killed' => HttpCrashCause') /\ \A d \in ThreadClients : AnswerRow(d)' /\ OwnRow(d)'
<1>1. /\ handlerPc[c] = "serve" /\ writeFd[c] # NoFd
      /\ UNCHANGED <<peerState, request, asked, mainPc, newest, sockClient, handlerFd, writeFd,
                     reqLine, mixed>>
  BY DEF Serve, At, peers, mainVars, localVars
<1>2. PICK line \in {"missing", "file"} :
        /\ Writes(c, line)
        /\ line = "missing" => /\ reqLine[c] = "missing" \/ FreeFd = {}
                               /\ handlerPc' = [handlerPc EXCEPT ![c] = "gone"]
                               /\ fdPeer' = fdPeer
        /\ line = "file" => /\ reqLine[c] = "file" /\ FreeFd # {}
                            /\ handlerPc' = [handlerPc EXCEPT ![c] = "finish"]
                            /\ fdPeer' = [fdPeer EXCEPT ![LowestFd] = "opened"]
  <2>1. CASE /\ reqLine[c] = "missing" \/ FreeFd = {}
             /\ Writes(c, "missing") /\ GoesTo(c, "gone") /\ UNCHANGED fdPeer
    BY <2>1 DEF GoesTo
  <2>2. CASE /\ reqLine[c] = "file" /\ FreeFd # {}
             /\ fdPeer' = [fdPeer EXCEPT ![LowestFd] = "opened"]
             /\ Writes(c, "file") /\ GoesTo(c, "finish")
    BY <2>2 DEF GoesTo
  <2> QED
    BY <2>1, <2>2 DEF Serve
<1>3. FdsOf(c) = {writeFd[c]} /\ answered[c] = {} /\ writeFd[c] \in FdsOf(c)
  BY <1>1 DEF AnswerRow
<1>4. /\ answered'[c] = {line} /\ (killed' => peerState[c] = "left")
      /\ \A d \in ThreadClients \ {c} : answered'[d] = answered[d]
  BY <1>2, <1>3, WritesOwn
<1>5. \A d \in ThreadClients : FdsOf(d)' = FdsOf(d)
  <2>1. CASE line = "missing"
    BY <1>2, <2>1 DEF FdsOf
  <2>2. CASE line = "file"
    <3> DEFINE f0 == LowestFd
    <3>1. f0 \in ThreadFds /\ fdPeer[f0] = "none" /\ fdPeer' = [fdPeer EXCEPT ![f0] = "opened"]
      BY <1>2, <2>2, LowestIsFree
    <3> HIDE DEF f0
    <3>2. \A d \in ThreadClients : \A f \in ThreadFds : fdPeer'[f] = d <=> fdPeer[f] = d
      BY <3>1 DEF ThreadPlaces, ThreadTypes
    <3> QED
      BY <3>2, FdsStay
  <2> QED
    BY <2>1, <2>2
<1>6. /\ handlerPc'[c] = IF line = "missing" THEN "gone" ELSE "finish"
      /\ \A d \in ThreadClients \ {c} : handlerPc'[d] = handlerPc[d]
  BY <1>2 DEF ThreadPlaces, ThreadTypes
<1>7. peerState[c] \notin {"away", "backlog"} /\ (newest = c => mainPc = "accept")
  BY <1>1 DEF ThreadPlaces
<1>8. AnswerRow(c)'
  <2>1. FdsOf(c)' = {writeFd'[c]} /\ writeFd'[c] # NoFd
    BY <1>1, <1>3, <1>5
  <2>2. CASE line = "missing"
    BY <1>1, <1>4, <1>6, <1>7, <2>1, <2>2 DEF AnswerRow
  <2>3. CASE line = "file"
    BY <1>1, <1>4, <1>6, <1>7, <2>1, <2>3 DEF AnswerRow
  <2> QED
    BY <2>2, <2>3
<1>9. OwnRow(c)'
  <2>1. /\ reqLine[c] \in {"file", "missing"} /\ (asked[c] = "none" => peerState[c] = "left")
        /\ (asked[c] # "none" /\ c \notin mixed => reqLine[c] = asked[c])
    BY <1>1 DEF OwnRow, Early
  <2>2. asked[c] # "none" /\ c \notin mixed =>
          \/ answered'[c] = {asked[c]}
          \/ asked[c] = "file" /\ answered'[c] = {"missing"}
    BY <1>2, <1>4, <2>1
  <2> QED
    BY <1>1, <1>6, <2>1, <2>2 DEF OwnRow, Early
<1>10. \A d \in ThreadClients \ {c} : AnswerRow(d)'
  BY <1>1, <1>4, <1>5, <1>6, RowStays
<1>11. \A d \in ThreadClients \ {c} : OwnRow(d)'
  BY <1>1, <1>4, <1>6, OwnStays
<1>12. killed' => HttpCrashCause'
  BY <1>1, <1>4, <1>6 DEF HttpCrashCause
<1> QED
  BY <1>8, <1>9, <1>10, <1>11, <1>12

LEMMA FinishKeepsAnswers ==
  ASSUME ThreadPlaces, \A d \in ThreadClients : AnswerRow(d) /\ OwnRow(d), NEW c \in ThreadClients,
         Finish(c)
  PROVE  \A d \in ThreadClients : AnswerRow(d)' /\ OwnRow(d)'
<1>1. /\ handlerPc[c] = "finish" /\ handlerPc' = [handlerPc EXCEPT ![c] = "gone"]
      /\ fdPeer' = [f \in ThreadFds |-> IF f \in {writeFd[c]} THEN "none" ELSE fdPeer[f]]
      /\ writeFd' = [writeFd EXCEPT ![c] = NoFd]
      /\ UNCHANGED <<peerState, request, asked, mainPc, newest, sockClient, handlerFd, reqLine,
                     mixed, answered>>
  BY DEF Finish, At, GoesTo, Closing, WriteEnd, peers, mainVars
<1>2. /\ FdsOf(c) = {writeFd[c]} /\ writeFd[c] \in FdsOf(c)
      /\ \E r \in {"bad", "file"} : answered[c] = {r}
  BY <1>1 DEF AnswerRow
<1>3. /\ handlerPc'[c] = "gone"
      /\ \A d \in ThreadClients \ {c} : handlerPc'[d] = handlerPc[d] /\ writeFd'[d] = writeFd[d]
  BY <1>1 DEF ThreadPlaces, ThreadTypes
<1>4. FdsOf(c)' = {} /\ \A d \in ThreadClients \ {c} : FdsOf(d)' = FdsOf(d)
  <2>1. /\ FdsOf(c)' = FdsOf(c) \ {writeFd[c]}
        /\ \A d \in ThreadClients \ {c} : FdsOf(d)' = FdsOf(d)
    BY <1>1, <1>2, ClosingOwn
  <2> QED
    BY <1>2, <2>1
<1>5. AnswerRow(c)'
  <2>1. newest = c => mainPc = "accept"
    BY <1>1 DEF ThreadPlaces
  <2> QED
    BY <1>1, <1>2, <1>3, <1>4, <2>1 DEF AnswerRow
<1>6. OwnRow(c)'
  BY <1>1, <1>3 DEF OwnRow, Early
<1>7. \A d \in ThreadClients \ {c} : AnswerRow(d)' /\ OwnRow(d)'
  BY <1>1, <1>3, <1>4, RowStays, OwnStays
<1> QED
  BY <1>5, <1>6, <1>7

(* A process that has died takes no step.                                  *)
LEMMA NothingAfterDeath ==
  ASSUME killed, ThreadNext
  PROVE  FALSE
BY DEF ThreadNext, HttpAcceptFails, Register, CreateHandler, PeerConnects, PeerSays, PeerLeaves,
       ThreadAccept, Handler, ReadArgument, SendMsg, RemoveClient, CloseClient, OpenStreams,
       ReadLine, Parse, WriteToNull, Reject, Serve, Finish, At

LEMMA HttpRowsStep ==
  ASSUME ThreadPlaces, HttpRows, [ThreadNext]_threadServerVars
  PROVE  HttpRows'
<1> SUFFICES ASSUME threadKind' = "http", ~overtaken'
             PROVE  /\ killed' => HttpCrashCause'
                    /\ \A c \in ThreadClients : AnswerRow(c)' /\ OwnRow(c)'
  BY DEF HttpRows
<1>1. /\ threadKind = "http" /\ (killed => HttpCrashCause)
      /\ \A c \in ThreadClients : AnswerRow(c) /\ OwnRow(c)
  BY HistoryGrows DEF HttpRows
<1>2. CASE UNCHANGED threadServerVars
  <2>1. /\ UNCHANGED <<peerState, request, asked, fdPeer, mainPc, handlerPc, writeFd, reqLine,
                       mixed, answered, killed>>
    BY <1>2 DEF threadServerVars, peers, mainVars, localVars
  <2>2. killed' => HttpCrashCause'
    BY <1>1, <2>1 DEF HttpCrashCause, FreeFd
  <2>3. \A c \in ThreadClients : OwnRow(c)'
    BY <1>1, <2>1, OwnStays
  <2> QED
    BY <1>1, <1>2, <2>2, <2>3, PeersKeepAnswers
<1>3. CASE ThreadNext
  <2>1. ~killed
    BY <1>3, NothingAfterDeath
  <2>2. ASSUME NEW c \in ThreadClients, SendMsg(c) \/ RemoveClient(c) \/ CloseClient(c)
        PROVE  FALSE
    BY <1>1, <2>2 DEF SendMsg, RemoveClient, CloseClient, At, ThreadPlaces
  <2>3. ~Register
    BY <1>1 DEF Register, ThreadPlaces
  <2>4. ASSUME NEW c \in ThreadClients, PeerConnects(c) \/ PeerSays(c) \/ PeerLeaves(c)
        PROVE  ~killed' /\ \A d \in ThreadClients : AnswerRow(d)' /\ OwnRow(d)'
    <3>1. killed' = killed
      BY <2>4 DEF PeerConnects, PeerSays, PeerLeaves
    <3> QED
      BY <1>1, <2>1, <2>4, <3>1, PeersKeepAnswers, PeersKeepOwn
  <2>5. CASE CreateHandler \/ \E c \in ThreadClients : ThreadAccept(c)
    <3>1. killed' = killed
      BY <2>5 DEF CreateHandler, ThreadAccept
    <3> QED
      BY <1>1, <2>1, <2>5, <3>1, MainKeepsAnswers, MainKeepsOwn
  <2>6. CASE HttpAcceptFails \/ \E c \in ThreadClients : WriteToNull(c)
    <3>1. UNCHANGED <<peerState, request, asked, fdPeer, mainPc, newest, sockClient, handlerPc,
                      handlerFd, writeFd, reqLine, mixed, answered>>
      BY <2>6 DEF HttpAcceptFails, WriteToNull, peers, mainVars, localVars
    <3>2. \A d : FdsOf(d)' = FdsOf(d)
      BY <3>1 DEF FdsOf
    <3>3. \A d \in ThreadClients : AnswerRow(d)'
      BY <1>1, <3>1, <3>2, RowStays
    <3>4. \A d \in ThreadClients : OwnRow(d)'
      BY <1>1, <3>1, OwnStays
    <3>5. HttpCrashCause
      BY <2>6 DEF HttpAcceptFails, WriteToNull, At, HttpCrashCause
    <3>6. HttpCrashCause'
      BY <3>1, <3>5 DEF HttpCrashCause, FreeFd
    <3> QED
      BY <3>3, <3>4, <3>6
  <2>7. ASSUME NEW c \in ThreadClients, ReadArgument(c) \/ ReadLine(c) \/ Finish(c)
        PROVE  ~killed' /\ \A d \in ThreadClients : AnswerRow(d)' /\ OwnRow(d)'
    <3>1. killed' = killed
      BY <2>7 DEF ReadArgument, ReadLine, Finish
    <3> QED
      BY <1>1, <2>1, <2>7, <3>1, ReadKeepsAnswers, ReadLineKeepsAnswers, FinishKeepsAnswers
  <2>8. ASSUME NEW c \in ThreadClients, OpenStreams(c) \/ Parse(c) \/ Reject(c) \/ Serve(c)
        PROVE  /\ killed' => HttpCrashCause'
               /\ \A d \in ThreadClients : AnswerRow(d)' /\ OwnRow(d)'
    BY <1>1, <2>1, <2>8, OpenKeepsAnswers, ParseKeepsAnswers, RejectKeepsAnswers, ServeKeepsAnswers
  <2> QED
    BY <1>3, <2>2, <2>3, <2>4, <2>5, <2>6, <2>7, <2>8 DEF ThreadNext, Handler
<1> QED
  BY <1>2, <1>3

LEMMA ThreadInvariant == ThreadSpec => []ThreadInv
<1>1. ThreadInv /\ [ThreadNext]_threadServerVars => ThreadInv'
  BY PlacesStep, CountingStep, ChatRowsStep, HttpRowsStep DEF ThreadInv
<1> QED
  BY ThreadStart, <1>1, PTL DEF ThreadSpec

(* ChatTableExact: whatever the threads do, count_client is what was       *)
(* registered and not removed; and as long as no thread was overtaken and  *)
(* only the last entry was ever removed, socks_client is the descriptors   *)
(* of the clients in the chat, each once (chat_pthread_server.c), for any  *)
(* number of clients, descriptors and messages.                            *)
THEOREM ChatTableIsExact == ThreadSpec => []ChatTableExact
<1>1. ThreadInv => ChatTableExact
  <2> SUFFICES ASSUME ThreadInv, threadKind = "chat", ~overtaken, ~midLeft
               PROVE  IsInjective(chatTable) /\ {fdPeer[f] : f \in Range(chatTable)} = Present
    BY DEF ThreadInv, Counting, ChatTableExact
  <2>1. TableRows
    BY DEF ThreadInv, ChatRows
  <2>2. Range(chatTable) \subseteq ThreadFds
    BY RangeOfSeq DEF ThreadInv, ThreadPlaces, ThreadTypes
  <2>3. \A f \in Range(chatTable) : fdPeer[f] \in Present
    BY <2>1, <2>2 DEF TableRows
  <2>4. ASSUME NEW c \in Present
        PROVE  \E f \in Range(chatTable) : fdPeer[f] = c
    <3>1. c \in ThreadClients /\ FdsOf(c) # {}
      BY <2>1 DEF TableRows, Present
    <3>2. PICK f \in ThreadFds : fdPeer[f] = c
      BY <3>1 DEF FdsOf
    <3>3. fdPeer[f] \in Present
      BY <2>4, <3>2
    <3> QED
      BY <2>1, <3>2, <3>3 DEF TableRows
  <2> QED
    BY <2>1, <2>3, <2>4 DEF TableRows
<1> QED
  BY ThreadInvariant, <1>1, PTL

(* HttpAnswersOwn: unless a thread was overtaken, the process dies only of *)
(* what HttpCrashCause lists, and each client whose thread is gone got one *)
(* answer, to what it asked unless two threads were in strtok at once, and *)
(* is closed except after a missing file (http_server.c), for any number   *)
(* of clients, requests and descriptors.                                   *)
THEOREM HttpClientsGetTheirs == ThreadSpec => []HttpAnswersOwn
<1>1. ThreadInv => HttpAnswersOwn
  <2> SUFFICES ASSUME ThreadInv, threadKind = "http", ~overtaken
               PROVE  HttpAnswersOwn
    BY DEF HttpAnswersOwn
  <2>1. (killed => HttpCrashCause) /\ \A c \in ThreadClients : AnswerRow(c) /\ OwnRow(c)
    BY DEF ThreadInv, HttpRows
  <2>2. ASSUME NEW c \in ThreadClients, handlerPc[c] = "gone"
        PROVE  /\ Cardinality(answered[c]) = 1
               /\ (\E f \in ThreadFds : fdPeer[f] = c) <=> "missing" \in answered[c]
    <3>1. PICK r \in {"bad", "file", "missing"} :
            answered[c] = {r} /\ (r = "missing" <=> FdsOf(c) # {})
      BY <2>1, <2>2 DEF AnswerRow
    <3>2. Cardinality({r}) = 1
      BY FS_Singleton
    <3>3. FdsOf(c) # {} <=> \E f \in ThreadFds : fdPeer[f] = c
      BY DEF FdsOf
    <3> QED
      BY <3>1, <3>2, <3>3
  <2>3. ASSUME NEW c \in ThreadClients, handlerPc[c] = "gone", asked[c] # "none", c \notin mixed
        PROVE  \/ answered[c] = {asked[c]}
               \/ asked[c] = "file" /\ answered[c] = {"missing"}
    BY <2>1, <2>3 DEF OwnRow
  <2>4. ASSUME NEW c \in ThreadClients, handlerPc[c] \notin {"finish", "gone"}
        PROVE  answered[c] = {}
    BY <2>1, <2>4 DEF AnswerRow
  <2> QED
    BY <2>1, <2>2, <2>3, <2>4 DEF HttpAnswersOwn
<1> QED
  BY ThreadInvariant, <1>1, PTL

HIDE ThreadAssumption DEF ThreadAssumption

-----------------------------------------------------------------------------
(* The pairs of a client and a server that share one connection, for every *)
(* size of the buffers and of what TCP holds, and anything the user types. *)

(* s is what stands in r behind the first m.                               *)
Part(s, r, m) == \A i \in 1 .. Len(s) : s[i] = r[m + i]

(* The units of a stream, and what echo_cal_client writes after the count. *)
InOrder == [i \in Nat |-> i]
Request == [i \in Nat |-> IF i <= want THEN i ELSE "operator"]
Written == Nat \cup {"operator", "junk", "thanks"}

InHand == IF spc = "write" THEN message ELSE <<>>
Total  == IF pair = "file" THEN want ELSE 3
FullRequest == Units(1, want) \o <<"operator">>

StreamPlaces ==
  /\ pair \in Echoes \cup Sends \cup {"calc"}
  /\ cpc \in {"type", "read", "done"} /\ rpc \in {"read", "done"}
  /\ pair # "fork" => rpc = "done"
  /\ up \in Seq(Written) /\ message \in Seq(Written)
  /\ upEnd \in BOOLEAN /\ downEnd \in BOOLEAN
  /\ sent \in Nat /\ want \in 0 .. MaxTyped /\ operandCount \in 0 .. MaxTyped

(* The echo pairs: until echo_stdio_server has ended, what was written is  *)
(* with the client, on its way back, with the server or on its way there.  *)
EchoFlow ==
  /\ Part(got, InOrder, 0)
  /\ ~(pair = "stdio" /\ spc = "done") =>
       /\ Part(down, InOrder, Len(got))
       /\ Part(InHand, InOrder, Len(got) + Len(down))
       /\ Part(up, InOrder, Len(got) + Len(down) + Len(InHand))
       /\ sent = Len(got) + Len(down) + Len(InHand) + Len(up)

(* Nobody stops before the other side has: the client of "echo" and of     *)
(* "stdio" reads until it has back what it wrote and then types, and the   *)
(* reading process of "fork" ends after the server.                        *)
EchoPlaces ==
  /\ got \in Seq(Written) /\ down \in Seq(Written)
  /\ spc \in {"read", "write", "done"} /\ sent <= MaxTyped
  /\ Len(up) <= StreamRoom /\ Len(down) <= StreamRoom
  /\ Len(message) <= StreamBuff /\ (pair = "stdio" => Len(message) <= 1)
  /\ upEnd <=> cpc = "done"
  /\ downEnd <=> spc = "done"
  /\ spc = "done" => upEnd /\ up = <<>>
  /\ pair # "fork" => want = sent /\ (IF cpc = "read" THEN Len(got) < sent ELSE Len(got) = sent)
  /\ pair = "fork" => cpc # "read" /\ (rpc = "done" => down = <<>> /\ spc = "done")

(* The calculator: the request is in the stream and with the server, once, *)
(* and the answer was calculated from all of it.                           *)
CalcPlaces ==
  /\ spc \in {"read", "collect", "done"} /\ sent = 0 /\ Len(up) <= want + 2
  /\ cpc = "type" => up = <<>> /\ spc = "read"
  /\ spc = "read" => message = <<>>
  /\ cpc = "read" /\ spc = "read" =>
       up # <<>> /\ Head(up) = want /\ Len(up) = want + 2 /\ Part(Tail(up), Request, 0)
  /\ spc = "collect" =>
       /\ operandCount = want /\ Len(message) + Len(up) = want + 1
       /\ Part(message, Request, 0) /\ Part(up, Request, Len(message))
  /\ spc # "done" => down = <<>> /\ got = <<>> /\ cpc # "done"
  /\ spc = "done" => IF cpc = "done" THEN got = <<FullRequest>> /\ down = <<>>
                                     ELSE got = <<>> /\ down = <<FullRequest>>

(* The servers that speak first.                                           *)
SendPlaces ==
  /\ got \in Seq(Written) /\ down \in Seq(Written)
  /\ cpc \in {"read", "done"} /\ spc \in {"send", "shut", "read", "done"}
  /\ Len(up) <= 1 /\ Len(down) <= StreamRoom
  /\ sent = Len(got) + Len(down) /\ sent <= Total /\ (spc # "send" => sent = Total)
  /\ pair = "hello" => Part(got, InOrder, 0) /\ Part(down, InOrder, Len(got))
  /\ downEnd <=> spc \in {"read", "done"}
  /\ cpc = "read" => up = <<>> /\ ~upEnd
  /\ cpc = "done" => down = <<>> /\ downEnd
  /\ cpc = "done" /\ spc = "read" => up = <<"thanks">>
  /\ spc = "done" => cpc = "done" /\ message = <<"thanks">>

StreamInv ==
  /\ StreamPlaces
  /\ pair \in Echoes => EchoFlow /\ EchoPlaces
  /\ pair = "calc" => CalcPlaces
  /\ pair \in Sends => SendPlaces

-----------------------------------------------------------------------------
LEMMA PartCut ==
  ASSUME NEW D, NEW s \in Seq(D), NEW r, NEW m \in Nat, NEW n \in 0 .. Len(s), Part(s, r, m)
  PROVE  /\ First(s, n) \in Seq(D) /\ Len(First(s, n)) = n /\ Part(First(s, n), r, m)
         /\ After(s, n) \in Seq(D) /\ Len(After(s, n)) = Len(s) - n
         /\ Part(After(s, n), r, m + n)
<1>1. /\ First(s, n) \in Seq(D) /\ Len(First(s, n)) = n
      /\ \A i \in 1 .. n : First(s, n)[i] = s[i]
  BY DEF First
<1>2. /\ After(s, n) \in Seq(D) /\ Len(After(s, n)) = Len(s) - n
      /\ \A i \in 1 .. Len(s) - n : After(s, n)[i] = s[n + i]
  BY DEF After
<1>3. Part(First(s, n), r, m)
  <2>1. \A i \in 1 .. n : i \in 1 .. Len(s) /\ First(s, n)[i] = s[i]
    BY <1>1
  <2>2. \A i \in 1 .. n : First(s, n)[i] = r[m + i]
    BY <2>1 DEF Part
  <2> QED
    BY <1>1, <2>2 DEF Part
<1>4. ASSUME NEW i \in 1 .. Len(s) - n
      PROVE  After(s, n)[i] = r[m + n + i]
  <2>1. n + i \in 1 .. Len(s) /\ m + (n + i) = m + n + i
    OBVIOUS
  <2>2. s[n + i] = r[m + (n + i)]
    BY <2>1 DEF Part
  <2> QED
    BY <1>2, <2>1, <2>2
<1> QED
  BY <1>1, <1>2, <1>3, <1>4 DEF Part

LEMMA PartJoin ==
  ASSUME NEW D, NEW s \in Seq(D), NEW t \in Seq(D), NEW r, NEW m \in Nat,
         Part(s, r, m), Part(t, r, m + Len(s))
  PROVE  /\ s \o t \in Seq(D) /\ Len(s \o t) = Len(s) + Len(t)
         /\ Part(s \o t, r, m)
<1>1. /\ s \o t \in Seq(D) /\ Len(s \o t) = Len(s) + Len(t)
      /\ \A i \in 1 .. Len(s) : (s \o t)[i] = s[i]
      /\ \A i \in Len(s) + 1 .. Len(s) + Len(t) : (s \o t)[i] = t[i - Len(s)]
  OBVIOUS
<1>2. ASSUME NEW i \in 1 .. Len(s) + Len(t)
      PROVE  (s \o t)[i] = r[m + i]
  <2>1. CASE i <= Len(s)
    BY <1>1, <2>1 DEF Part
  <2>2. CASE i > Len(s)
    <3>1. i - Len(s) \in 1 .. Len(t) /\ m + Len(s) + (i - Len(s)) = m + i
      BY <2>2
    <3>2. t[i - Len(s)] = r[m + Len(s) + (i - Len(s))]
      BY <3>1 DEF Part
    <3> QED
      BY <1>1, <2>2, <3>1, <3>2
  <2> QED
    BY <2>1, <2>2
<1> QED
  BY <1>1, <1>2 DEF Part

LEMMA UnitsPart ==
  ASSUME NEW m \in Nat, NEW k \in Nat
  PROVE  /\ Units(m + 1, m + k) \in Seq(Written) /\ Len(Units(m + 1, m + k)) = k
         /\ Part(Units(m + 1, m + k), InOrder, m)
<1>1. (m + k) - (m + 1) + 1 = k
  OBVIOUS
<1>2. Units(m + 1, m + k) = [i \in 1 .. k |-> (m + 1) + i - 1]
  BY <1>1 DEF Units
<1>3. \A i \in 1 .. k : (m + 1) + i - 1 = m + i /\ m + i \in Nat
  OBVIOUS
<1>4. Units(m + 1, m + k) \in Seq(Written) /\ Len(Units(m + 1, m + k)) = k
  BY <1>2, <1>3 DEF Written
<1>5. \A i \in 1 .. k : Units(m + 1, m + k)[i] = InOrder[m + i]
  BY <1>2, <1>3 DEF InOrder
<1> QED
  BY <1>4, <1>5 DEF Part

LEMMA NothingWritten == <<>> \in Seq(Written) /\ Len(<<>>) = 0
OBVIOUS

LEMMA NothingIsPart ==
  ASSUME NEW r, NEW m
  PROVE  Part(<<>>, r, m)
BY DEF Part

(* What is in order from the first unit on is all of them.                 *)
LEMMA AllUnits ==
  ASSUME NEW s \in Seq(Written), Part(s, InOrder, 0)
  PROVE  s = Units(1, Len(s))
<1>1. \A i \in 1 .. Len(s) : s[i] = i
  <2> SUFFICES ASSUME NEW i \in 1 .. Len(s)
               PROVE  s[i] = i
    OBVIOUS
  <2>1. s[i] = InOrder[0 + i] /\ 0 + i = i /\ i \in Nat
    BY DEF Part
  <2> QED
    BY <2>1 DEF InOrder
<1>2. Units(1, Len(s)) = [i \in 1 .. Len(s) |-> i]
  BY DEF Units
<1>3. s = [i \in 1 .. Len(s) |-> s[i]]
  OBVIOUS
<1> QED
  BY <1>1, <1>2, <1>3

(* The calculator's request, and the answer to it.                         *)
LEMMA RequestIs ==
  ASSUME NEW n \in Nat, n = want
  PROVE  /\ FullRequest \in Seq(Written) /\ Len(FullRequest) = n + 1
         /\ Part(FullRequest, Request, 0)
         /\ \A s \in Seq(Written) : Part(s, Request, 0) /\ Len(s) = n + 1 => s = FullRequest
<1>1. Units(1, n) \in Seq(Written) /\ Len(Units(1, n)) = n
      /\ \A i \in 1 .. n : Units(1, n)[i] = i
  BY DEF Units, Written
<1>2. "operator" \in Written /\ FullRequest = Append(Units(1, n), "operator")
  <2>1. Units(1, n) \o <<"operator">> = Append(Units(1, n), "operator")
    <3> DEFINE u == Units(1, n)
    <3>1. u \in Seq(Written) /\ "operator" \in Written
      BY <1>1 DEF Written
    <3> HIDE DEF u
    <3> QED
      BY <3>1
  <2> QED
    BY <2>1 DEF Written, FullRequest
<1>3. /\ FullRequest \in Seq(Written) /\ Len(FullRequest) = n + 1
      /\ \A i \in 1 .. n : FullRequest[i] = i
      /\ FullRequest[n + 1] = "operator"
  BY <1>1, <1>2
<1>4. \A i \in 1 .. n + 1 : Request[0 + i] = IF i <= n THEN i ELSE "operator"
  BY DEF Request
<1>5. \A i \in 1 .. n + 1 : FullRequest[i] = Request[0 + i]
  BY <1>3, <1>4
<1>6. ASSUME NEW s \in Seq(Written), Part(s, Request, 0), Len(s) = n + 1
      PROVE  s = FullRequest
  <2>1. \A i \in 1 .. n + 1 : s[i] = FullRequest[i]
    BY <1>5, <1>6 DEF Part
  <2> QED
    BY <1>3, <1>6, <2>1
<1> QED
  BY <1>3, <1>5, <1>6 DEF Part

USE StreamAssumption DEF StreamAssumption
-----------------------------------------------------------------------------
LEMMA StreamStart == StreamInit => StreamInv
<1> SUFFICES ASSUME StreamInit
             PROVE  StreamInv
  OBVIOUS
<1>1. StreamPlaces
  <2>1. up \in Seq(Written) /\ message \in Seq(Written)
    BY NothingWritten DEF StreamInit
  <2>2. upEnd \in BOOLEAN /\ downEnd \in BOOLEAN
    BY DEF StreamInit
  <2>3. sent \in Nat /\ want \in 0 .. MaxTyped /\ operandCount \in 0 .. MaxTyped
    BY DEF StreamInit
  <2>4. /\ pair \in Echoes \cup Sends \cup {"calc"}
        /\ cpc \in {"type", "read", "done"} /\ rpc \in {"read", "done"}
        /\ pair # "fork" => rpc = "done"
    BY DEF StreamInit
  <2> QED
    BY <2>1, <2>2, <2>3, <2>4 DEF StreamPlaces
<1>2. pair \in Echoes => EchoFlow /\ EchoPlaces
  <2>1. Len(<<>>) = 0 /\ InHand = <<>>
    BY DEF InHand, StreamInit, Echoes, Sends
  <2> QED
    BY <2>1, NothingWritten, NothingIsPart DEF StreamInit, EchoFlow, EchoPlaces, Echoes, Sends
<1>3. pair = "calc" => CalcPlaces
  BY DEF StreamInit, CalcPlaces, Sends
<1>4. pair \in Sends => SendPlaces
  BY NothingWritten, NothingIsPart DEF StreamInit, SendPlaces, Sends, Total
<1> QED
  BY <1>1, <1>2, <1>3, <1>4 DEF StreamInv

-----------------------------------------------------------------------------
(* The echo pairs.                                                         *)

LEMMA EchoOnly ==
  ASSUME pair' \in Echoes, StreamPlaces', EchoFlow', EchoPlaces'
  PROVE  StreamInv'
BY DEF StreamInv, Echoes, Sends

LEMMA EchoTypesMessage ==
  ASSUME StreamInv, TypeMessage
  PROVE  StreamInv'
<1>1. /\ pair \in Echoes /\ cpc = "type" /\ spc # "done"
      /\ UNCHANGED <<pair, down, upEnd, downEnd, rpc, spc, got, message, operandCount>>
      /\ StreamPlaces /\ EchoFlow /\ EchoPlaces
  BY DEF TypeMessage, StreamInv, EchoPlaces
<1>2. PICK n \in 1 .. (IF pair = "stdio" THEN 1 ELSE StreamBuff) :
        /\ sent + n <= MaxTyped /\ Len(up) + n <= StreamRoom
        /\ up' = up \o Units(sent + 1, sent + n)
        /\ sent' = sent + n
  BY DEF TypeMessage
<1>3. n \in Nat \ {0} /\ sent \in Nat /\ up \in Seq(Written) /\ Len(up) \in Nat
      /\ got \in Seq(Written) /\ down \in Seq(Written) /\ InHand \in Seq(Written)
      /\ Len(got) \in Nat /\ Len(down) \in Nat /\ Len(InHand) \in Nat
  BY <1>1 DEF StreamPlaces, EchoPlaces, InHand
<1>4. /\ Units(sent + 1, sent + n) \in Seq(Written) /\ Len(Units(sent + 1, sent + n)) = n
      /\ Part(Units(sent + 1, sent + n), InOrder, sent)
  BY <1>3, UnitsPart
<1>5. /\ Part(up, InOrder, Len(got) + Len(down) + Len(InHand))
      /\ sent = Len(got) + Len(down) + Len(InHand) + Len(up)
  BY <1>1 DEF EchoFlow
<1>6. /\ up' \in Seq(Written) /\ Len(up') = Len(up) + n
      /\ Part(up', InOrder, Len(got) + Len(down) + Len(InHand))
  <2> DEFINE before == Len(got) + Len(down) + Len(InHand)
  <2>1. before \in Nat /\ before + Len(up) = sent /\ Part(up, InOrder, before)
    BY <1>3, <1>5
  <2> HIDE DEF before
  <2>2. Part(Units(sent + 1, sent + n), InOrder, before + Len(up))
    BY <1>4, <2>1
  <2>3. /\ up \o Units(sent + 1, sent + n) \in Seq(Written)
        /\ Len(up \o Units(sent + 1, sent + n)) = Len(up) + Len(Units(sent + 1, sent + n))
        /\ Part(up \o Units(sent + 1, sent + n), InOrder, before)
    BY <1>3, <1>4, <2>1, <2>2, PartJoin
  <2>4. up' \in Seq(Written) /\ Len(up') = Len(up) + n /\ Part(up', InOrder, before)
    BY <1>2, <1>4, <2>3
  <2> QED
    BY <2>4 DEF before
<1>7. InHand' = InHand
  BY <1>1 DEF InHand
<1>8. EchoFlow'
  <2>1. sent' = Len(got') + Len(down') + Len(InHand') + Len(up')
    <3>1. Len(got') = Len(got) /\ Len(down') = Len(down) /\ Len(InHand') = Len(InHand)
      BY <1>1, <1>7
    <3>2. sent' = sent + n /\ Len(up') = Len(up) + n
      BY <1>2, <1>6
    <3> QED
      BY <1>3, <1>5, <3>1, <3>2
  <2>2. /\ Part(got', InOrder, 0) /\ Part(down', InOrder, Len(got'))
        /\ Part(InHand', InOrder, Len(got') + Len(down'))
    BY <1>1, <1>7 DEF EchoFlow
  <2>3. Part(up', InOrder, Len(got') + Len(down') + Len(InHand'))
    BY <1>1, <1>6, <1>7
  <2> QED
    BY <2>1, <2>2, <2>3 DEF EchoFlow
<1>9. cpc' \in {"type", "read"} /\ (pair = "fork" => cpc' = "type" /\ want' = want)
      /\ (pair # "fork" => cpc' = "read" /\ want' = sent')
  BY <1>1 DEF TypeMessage
<1>10. StreamPlaces'
  BY <1>1, <1>2, <1>3, <1>6, <1>9 DEF StreamPlaces
<1>11. EchoPlaces'
  BY <1>1, <1>2, <1>3, <1>6, <1>9 DEF EchoPlaces
<1> QED
  BY <1>1, <1>8, <1>10, <1>11, EchoOnly

(* The client's read of n units.                                           *)
LEMMA EchoComesBack ==
  ASSUME StreamInv, pair \in Echoes, ~(pair = "stdio" /\ spc = "done"),
         NEW n \in 1 .. Len(down),
         got' = got \o First(down, n), down' = After(down, n),
         UNCHANGED <<pair, up, spc, sent, message>>
  PROVE  /\ EchoFlow' /\ got' \in Seq(Written) /\ down' \in Seq(Written)
         /\ Len(down') = Len(down) - n /\ Len(got') = Len(got) + n /\ Len(got') <= sent
         /\ Len(got) \in Nat
<1>1. StreamPlaces /\ EchoFlow /\ EchoPlaces
  BY DEF StreamInv
<1>2. /\ sent \in Nat /\ up \in Seq(Written) /\ Len(up) \in Nat
      /\ got \in Seq(Written) /\ down \in Seq(Written) /\ InHand \in Seq(Written)
      /\ Len(got) \in Nat /\ Len(down) \in Nat /\ Len(InHand) \in Nat
  BY <1>1 DEF StreamPlaces, EchoPlaces, InHand
<1>3. /\ Part(got, InOrder, 0) /\ Part(down, InOrder, Len(got))
      /\ Part(InHand, InOrder, Len(got) + Len(down))
      /\ Part(up, InOrder, Len(got) + Len(down) + Len(InHand))
      /\ sent = Len(got) + Len(down) + Len(InHand) + Len(up)
  BY <1>1 DEF EchoFlow
<1>4. /\ First(down, n) \in Seq(Written) /\ Len(First(down, n)) = n
      /\ Part(First(down, n), InOrder, Len(got))
      /\ down' \in Seq(Written) /\ Len(down') = Len(down) - n
      /\ Part(down', InOrder, Len(got) + n)
  <2>1. /\ n \in 0 .. Len(down) /\ Part(down, InOrder, Len(got))
        /\ down \in Seq(Written) /\ Len(got) \in Nat
    BY <1>2, <1>3
  <2> QED
    <3>1. /\ First(down, n) \in Seq(Written) /\ Len(First(down, n)) = n
          /\ Part(First(down, n), InOrder, Len(got))
          /\ After(down, n) \in Seq(Written) /\ Len(After(down, n)) = Len(down) - n
          /\ Part(After(down, n), InOrder, Len(got) + n)
      BY <2>1, PartCut
    <3> QED
      BY <3>1
<1>5. 0 + Len(got) = Len(got) /\ n \in Nat
  BY <1>2
<1>6. got' \in Seq(Written) /\ Len(got') = Len(got) + n /\ Part(got', InOrder, 0)
  <2>1. Part(First(down, n), InOrder, 0 + Len(got)) /\ got \in Seq(Written)
    BY <1>2, <1>4, <1>5
  <2>2. /\ got \o First(down, n) \in Seq(Written)
        /\ Len(got \o First(down, n)) = Len(got) + Len(First(down, n))
        /\ Part(got \o First(down, n), InOrder, 0)
    BY <1>3, <1>4, <2>1, PartJoin
  <2> QED
    BY <1>4, <2>2
<1>7. InHand' = InHand
  BY DEF InHand
<1>8. Len(got') + Len(down') = Len(got) + Len(down)
  BY <1>2, <1>4, <1>5, <1>6
<1>9. EchoFlow'
  <2>1. Part(down', InOrder, Len(got'))
    BY <1>4, <1>6
  <2>2. Part(InHand', InOrder, Len(got') + Len(down'))
    BY <1>3, <1>7, <1>8
  <2>3. Part(up', InOrder, Len(got') + Len(down') + Len(InHand'))
    BY <1>3, <1>7, <1>8
  <2>4. sent' = Len(got') + Len(down') + Len(InHand') + Len(up')
    BY <1>3, <1>7, <1>8
  <2> QED
    BY <1>6, <2>1, <2>2, <2>3, <2>4 DEF EchoFlow
<1> QED
  BY <1>2, <1>3, <1>4, <1>5, <1>6, <1>9

LEMMA EchoIsRead ==
  ASSUME StreamInv, ReadEcho
  PROVE  StreamInv'
<1>1. /\ pair \in {"echo", "stdio"} /\ pair \in Echoes /\ cpc = "read"
      /\ cpc' = (IF Len(got') >= want THEN "type" ELSE "read")
      /\ UNCHANGED <<pair, up, upEnd, downEnd, rpc, spc, sent, want, message, operandCount>>
      /\ StreamPlaces /\ EchoFlow /\ EchoPlaces
  BY DEF ReadEcho, StreamInv, Echoes
<1>2. PICK n \in 1 .. Len(down) : got' = got \o First(down, n) /\ down' = After(down, n)
  BY DEF ReadEcho, ReadSizes
<1>3. spc # "done"
  BY <1>1 DEF EchoPlaces
<1>4. /\ EchoFlow' /\ got' \in Seq(Written) /\ down' \in Seq(Written)
      /\ Len(down') = Len(down) - n /\ Len(got') <= sent /\ Len(got') \in Nat
  BY <1>1, <1>2, <1>3, EchoComesBack
<1>5. (cpc' = "read" /\ Len(got') < sent) \/ (cpc' = "type" /\ Len(got') = sent)
  <2>1. want = sent /\ sent \in Nat
    BY <1>1 DEF EchoPlaces, StreamPlaces
  <2> QED
    BY <1>1, <1>4, <2>1
<1>6. StreamPlaces'
  BY <1>1, <1>5 DEF StreamPlaces
<1>7. EchoPlaces'
  BY <1>1, <1>3, <1>4, <1>5 DEF EchoPlaces
<1> QED
  BY <1>1, <1>4, <1>6, <1>7, EchoOnly

LEMMA EchoQuits ==
  ASSUME StreamInv, Quit
  PROVE  StreamInv'
<1>1. /\ pair \in Echoes /\ cpc = "type" /\ cpc' = "done" /\ upEnd' = TRUE
      /\ UNCHANGED <<pair, up, down, downEnd, rpc, spc, sent, want, got, message, operandCount>>
      /\ StreamPlaces /\ EchoFlow /\ EchoPlaces
  BY DEF Quit, EndOfStream, StreamInv
<1>2. InHand' = InHand
  BY <1>1 DEF InHand
<1>3. StreamPlaces' /\ EchoFlow'
  BY <1>1, <1>2 DEF StreamPlaces, EchoFlow
<1>4. EchoPlaces'
  BY <1>1 DEF EchoPlaces
<1> QED
  BY <1>1, <1>3, <1>4, EchoOnly

LEMMA RoutineReads ==
  ASSUME StreamInv, ReadRoutine
  PROVE  StreamInv'
<1>1. /\ pair = "fork" /\ pair \in Echoes /\ rpc = "read"
      /\ UNCHANGED <<pair, up, downEnd, cpc, spc, sent, want, message, operandCount>>
      /\ StreamPlaces /\ EchoFlow /\ EchoPlaces
  BY DEF ReadRoutine, StreamInv, Echoes
<1>2. CASE (\E n \in ReadSizes(down) : got' = got \o First(down, n) /\ down' = After(down, n))
           /\ UNCHANGED <<rpc, upEnd>>
  <2>1. PICK n \in 1 .. Len(down) : got' = got \o First(down, n) /\ down' = After(down, n)
    BY <1>2 DEF ReadSizes
  <2>2. /\ EchoFlow' /\ got' \in Seq(Written) /\ down' \in Seq(Written)
        /\ Len(down') = Len(down) - n
    BY <1>1, <2>1, EchoComesBack
  <2>3. StreamPlaces'
    BY <1>1, <1>2 DEF StreamPlaces
  <2>4. Len(down') <= StreamRoom
    BY <1>1, <2>1, <2>2 DEF EchoPlaces
  <2>5. EchoPlaces'
    BY <1>1, <1>2, <2>2, <2>4 DEF EchoPlaces
  <2> QED
    BY <1>1, <2>2, <2>3, <2>5, EchoOnly
<1>3. CASE /\ down = <<>> /\ downEnd
           /\ rpc' = "done"
           /\ upEnd' = (upEnd \/ cpc = "done")
           /\ UNCHANGED <<down, got>>
  <2>1. InHand' = InHand
    BY <1>1 DEF InHand
  <2>2. upEnd' \in BOOLEAN /\ (upEnd => upEnd') /\ (upEnd' <=> cpc = "done")
    BY <1>1, <1>3 DEF EchoPlaces
  <2>3. StreamPlaces'
    BY <1>1, <1>3, <2>2 DEF StreamPlaces
  <2>4. EchoFlow'
    BY <1>1, <1>3, <2>1 DEF EchoFlow
  <2>5. EchoPlaces'
    BY <1>1, <1>3, <2>2 DEF EchoPlaces
  <2> QED
    BY <1>1, <2>3, <2>4, <2>5, EchoOnly
<1> QED
  BY <1>2, <1>3 DEF ReadRoutine

LEMMA EchoServerReads ==
  ASSUME StreamInv, EchoRead
  PROVE  StreamInv'
<1>1. /\ pair \in Echoes /\ spc = "read" /\ spc' = "write"
      /\ UNCHANGED <<pair, down, upEnd, downEnd, cpc, rpc, sent, want, got, operandCount>>
      /\ StreamPlaces /\ EchoFlow /\ EchoPlaces
  BY DEF EchoRead, StreamInv
<1>2. PICK n \in ReadSizes(up) : message' = First(up, n) /\ up' = After(up, n)
  BY DEF EchoRead
<1>3. /\ n \in 0 .. Len(up) /\ n \in 1 .. Len(up)
      /\ n <= StreamBuff /\ (pair = "stdio" => n <= 1)
      /\ up \in Seq(Written) /\ Len(up) \in Nat /\ Len(got) \in Nat /\ Len(down) \in Nat
  BY <1>1, <1>2 DEF ReadSizes, StreamPlaces, EchoPlaces, StreamAssumption
<1>4. InHand = <<>> /\ Len(InHand) = 0 /\ InHand' = message'
  BY <1>1 DEF InHand
<1>5. /\ Part(got, InOrder, 0) /\ Part(down, InOrder, Len(got))
      /\ Part(up, InOrder, Len(got) + Len(down))
      /\ sent = Len(got) + Len(down) + Len(up)
  <2>1. /\ Part(up, InOrder, Len(got) + Len(down) + Len(InHand))
        /\ Len(got) + Len(down) + Len(InHand) = Len(got) + Len(down)
        /\ sent = Len(got) + Len(down) + Len(InHand) + Len(up)
    BY <1>1, <1>3, <1>4 DEF EchoFlow
  <2> QED
    BY <1>1, <1>3, <2>1 DEF EchoFlow
<1>6. /\ message' \in Seq(Written) /\ Len(message') = n
      /\ Part(message', InOrder, Len(got) + Len(down))
      /\ up' \in Seq(Written) /\ Len(up') = Len(up) - n
      /\ Part(up', InOrder, Len(got) + Len(down) + n)
  <2> DEFINE before == Len(got) + Len(down)
  <2>1. before \in Nat /\ Part(up, InOrder, before)
    BY <1>3, <1>5
  <2> HIDE DEF before
  <2>2. /\ First(up, n) \in Seq(Written) /\ Len(First(up, n)) = n
        /\ Part(First(up, n), InOrder, before)
        /\ After(up, n) \in Seq(Written) /\ Len(After(up, n)) = Len(up) - n
        /\ Part(After(up, n), InOrder, before + n)
    BY <1>3, <2>1, PartCut
  <2> QED
    BY <1>2, <2>2 DEF before
<1>7. EchoFlow'
  <2>1. sent' = Len(got') + Len(down') + Len(InHand') + Len(up')
    BY <1>1, <1>3, <1>4, <1>5, <1>6
  <2>2. /\ Part(got', InOrder, 0) /\ Part(down', InOrder, Len(got'))
        /\ Part(InHand', InOrder, Len(got') + Len(down'))
        /\ Part(up', InOrder, Len(got') + Len(down') + Len(InHand'))
    BY <1>1, <1>4, <1>5, <1>6
  <2> QED
    BY <2>1, <2>2 DEF EchoFlow
<1>8. StreamPlaces'
  BY <1>1, <1>6 DEF StreamPlaces
<1>9. EchoPlaces'
  BY <1>1, <1>3, <1>6 DEF EchoPlaces
<1> QED
  BY <1>1, <1>7, <1>8, <1>9, EchoOnly

LEMMA EchoServerWrites ==
  ASSUME StreamInv, EchoWrite
  PROVE  StreamInv'
<1>1. /\ pair \in Echoes /\ spc = "write" /\ spc' = "read" /\ down' = down \o message
      /\ Len(down) + Len(message) <= StreamRoom
      /\ UNCHANGED <<pair, up, upEnd, downEnd, cpc, rpc, sent, want, got, message, operandCount>>
      /\ StreamPlaces /\ EchoFlow /\ EchoPlaces
  BY DEF EchoWrite, StreamInv
<1>2. /\ up \in Seq(Written) /\ Len(up) \in Nat /\ Len(got) \in Nat /\ Len(down) \in Nat
      /\ message \in Seq(Written) /\ Len(message) \in Nat /\ down \in Seq(Written)
  BY <1>1 DEF StreamPlaces, EchoPlaces
<1>3. InHand = message /\ InHand' = <<>> /\ Len(InHand') = 0
  BY <1>1 DEF InHand
<1>4. /\ Part(got, InOrder, 0) /\ Part(down, InOrder, Len(got))
      /\ Part(message, InOrder, Len(got) + Len(down))
      /\ Part(up, InOrder, Len(got) + Len(down) + Len(message))
      /\ sent = Len(got) + Len(down) + Len(message) + Len(up)
  BY <1>1, <1>3 DEF EchoFlow
<1>5. /\ down' \in Seq(Written) /\ Len(down') = Len(down) + Len(message)
      /\ Part(down', InOrder, Len(got))
  BY <1>1, <1>2, <1>4, PartJoin
<1>6. Len(got) + Len(down') + 0 = Len(got) + Len(down) + Len(message)
  BY <1>2, <1>5
<1>7. EchoFlow'
  <2>1. Part(InHand', InOrder, Len(got) + Len(down'))
    BY <1>3 DEF Part
  <2>2. Part(up', InOrder, Len(got') + Len(down') + Len(InHand'))
    BY <1>1, <1>3, <1>4, <1>6
  <2>3. sent' = Len(got') + Len(down') + Len(InHand') + Len(up')
    BY <1>1, <1>3, <1>4, <1>6
  <2> QED
    BY <1>1, <1>4, <1>5, <2>1, <2>2, <2>3 DEF EchoFlow
<1>8. StreamPlaces'
  BY <1>1 DEF StreamPlaces
<1>9. EchoPlaces'
  BY <1>1, <1>5 DEF EchoPlaces
<1> QED
  BY <1>1, <1>7, <1>8, <1>9, EchoOnly

(* echo_stdio_server writes a line too many to a client that is gone.      *)
LEMMA EchoServerEnds ==
  ASSUME StreamInv, EchoEnd
  PROVE  StreamInv'
<1>1. /\ pair \in Echoes /\ spc = "read" /\ spc' = "done" /\ up = <<>> /\ upEnd /\ downEnd' = TRUE
      /\ down' = IF pair = "stdio" THEN down \o message ELSE down
      /\ UNCHANGED <<pair, up, upEnd, cpc, rpc, sent, want, got, message, operandCount>>
      /\ StreamPlaces /\ EchoFlow /\ EchoPlaces
  BY DEF EchoEnd, StreamInv
<1>2. /\ Len(up) = 0 /\ Len(got) \in Nat /\ Len(down) \in Nat
      /\ message \in Seq(Written) /\ Len(message) \in Nat /\ down \in Seq(Written)
  BY <1>1 DEF StreamPlaces, EchoPlaces
<1>3. InHand = <<>> /\ InHand' = <<>> /\ Len(InHand) = 0
  BY <1>1 DEF InHand
<1>4. EchoFlow'
  BY <1>1, <1>3 DEF EchoFlow
<1>5. StreamPlaces'
  BY <1>1 DEF StreamPlaces
<1>6. cpc = "done"
  BY <1>1 DEF EchoPlaces
<1>7. pair = "stdio" => Len(down) = 0 /\ Len(message) <= 1
  BY <1>1, <1>2, <1>3, <1>6 DEF EchoPlaces, EchoFlow
<1>8. down' \in Seq(Written) /\ Len(down') <= StreamRoom
  BY <1>1, <1>2, <1>7 DEF EchoPlaces
<1>9. EchoPlaces'
  BY <1>1, <1>6, <1>8 DEF EchoPlaces
<1> QED
  BY <1>1, <1>4, <1>5, <1>9, EchoOnly

-----------------------------------------------------------------------------
(* The calculator.                                                         *)

LEMMA CalcOnly ==
  ASSUME pair' = "calc", StreamPlaces', CalcPlaces'
  PROVE  StreamInv'
BY DEF StreamInv, Echoes, Sends

LEMMA RequestStays ==
  ASSUME want' = want
  PROVE  Request' = Request /\ FullRequest' = FullRequest
BY DEF Request, FullRequest

LEMMA OperandsAreTyped ==
  ASSUME StreamInv, TypeOperands
  PROVE  StreamInv'
<1>1. /\ pair = "calc" /\ cpc = "type" /\ cpc' = "read"
      /\ UNCHANGED <<pair, down, upEnd, downEnd, rpc, spc, sent, got, message, operandCount>>
      /\ StreamPlaces /\ CalcPlaces
  BY DEF TypeOperands, StreamInv
<1>2. PICK n \in 1 .. MaxTyped : want' = n /\ up' = <<n>> \o Units(1, n) \o <<"operator">>
  BY DEF TypeOperands
<1>3. n \in Nat \ {0} /\ want' \in 0 .. MaxTyped
  BY <1>2
<1>4. /\ FullRequest' \in Seq(Written) /\ Len(FullRequest') = n + 1
      /\ Part(FullRequest', Request', 0)
      /\ FullRequest' = Units(1, n) \o <<"operator">>
  <2>1. Request' = [i \in Nat |-> IF i <= n THEN i ELSE "operator"]
    BY <1>2 DEF Request
  <2>2. FullRequest' = Units(1, n) \o <<"operator">>
    BY <1>2 DEF FullRequest
  <2>3. Units(1, n) \in Seq(Written) /\ Len(Units(1, n)) = n /\ \A i \in 1 .. n : Units(1, n)[i] = i
    BY <1>3 DEF Units, Written
  <2> DEFINE u == Units(1, n)
             a == u \o <<"operator">>
  <2> HIDE DEF u
  <2>4. u \in Seq(Written) /\ Len(u) = n /\ (\A i \in 1 .. n : u[i] = i) /\ "operator" \in Written
    BY <2>3 DEF u, Written
  <2>5. /\ a \in Seq(Written) /\ Len(a) = n + 1 /\ (\A i \in 1 .. n : a[i] = i)
        /\ a[n + 1] = "operator"
    BY <1>3, <2>4
  <2> HIDE DEF a
  <2>6. \A i \in 1 .. n + 1 : a[i] = Request'[0 + i]
    BY <1>3, <2>1, <2>5
  <2>7. FullRequest' = a
    BY <2>2 DEF a, u
  <2> QED
    BY <2>2, <2>5, <2>6, <2>7 DEF Part
<1>5. /\ up' \in Seq(Written) /\ up' # <<>> /\ Len(up') = n + 2
      /\ Head(up') = n /\ Tail(up') = FullRequest'
  <2>1. up' = <<n>> \o FullRequest'
    <3> DEFINE u == Units(1, n)
    <3>1. u \in Seq(Written) /\ "operator" \in Written /\ n \in Written
      BY <1>3 DEF Units, Written
    <3> HIDE DEF u
    <3>2. <<n>> \o u \o <<"operator">> = <<n>> \o (u \o <<"operator">>)
      BY <3>1
    <3> QED
      BY <1>2, <1>4, <3>2 DEF u
  <2>2. n \in Written
    BY <1>3 DEF Written
  <2> DEFINE a == FullRequest'
  <2>3. a \in Seq(Written) /\ Len(a) = n + 1 /\ up' = <<n>> \o a
    BY <1>4, <2>1
  <2> HIDE DEF a
  <2>4. up' \in Seq(Written) /\ up' # <<>> /\ Head(up') = n /\ Tail(up') = a /\ Len(up') = n + 2
    BY <1>3, <2>2, <2>3
  <2> QED
    BY <2>4 DEF a
<1>6. spc = "read" /\ message = <<>> /\ down = <<>> /\ got = <<>>
  BY <1>1 DEF CalcPlaces
<1>7. StreamPlaces'
  BY <1>1, <1>3, <1>5 DEF StreamPlaces
<1>8. /\ cpc' = "read" /\ spc' = "read" /\ sent' = 0 /\ message' = <<>> /\ down' = <<>>
      /\ got' = <<>> /\ up' # <<>> /\ Head(up') = want' /\ Len(up') = want' + 2
      /\ Len(up') <= want' + 2 /\ Part(Tail(up'), Request', 0)
  <2>1. sent = 0
    BY <1>1 DEF CalcPlaces
  <2>2. Part(Tail(up'), Request', 0)
    BY <1>4, <1>5
  <2>3. up' # <<>> /\ Head(up') = want' /\ Len(up') = want' + 2 /\ want' \in Nat
    BY <1>2, <1>5
  <2>4. Len(up') <= want' + 2
    <3>1. up' \in Seq(Written) /\ Len(up') \in Nat
      BY <1>5
    <3> QED
      BY <1>2, <1>3, <1>5, <3>1
  <2>5. cpc' = "read" /\ spc' = "read" /\ message' = <<>> /\ down' = <<>> /\ got' = <<>>
    BY <1>1, <1>6
  <2>6. sent' = 0
    BY <1>1, <2>1
  <2> QED
    BY <2>2, <2>3, <2>4, <2>5, <2>6
<1>9. CalcPlaces'
  BY <1>8 DEF CalcPlaces
<1> QED
  BY <1>1, <1>7, <1>9, CalcOnly

LEMMA ResultIsRead ==
  ASSUME StreamInv, ReadResult
  PROVE  StreamInv'
<1>1. /\ pair = "calc" /\ cpc = "read" /\ down # <<>> /\ got' = down /\ down' = <<>>
      /\ cpc' = "done" /\ upEnd' = TRUE
      /\ UNCHANGED <<pair, up, downEnd, rpc, spc, sent, want, message, operandCount>>
      /\ StreamPlaces /\ CalcPlaces
  BY DEF ReadResult, StreamInv
<1>2. spc = "done" /\ got' = <<FullRequest>> /\ FullRequest' = FullRequest
  BY <1>1, RequestStays DEF CalcPlaces
<1>3. StreamPlaces'
  BY <1>1 DEF StreamPlaces
<1>4. CalcPlaces'
  BY <1>1, <1>2 DEF CalcPlaces
<1> QED
  BY <1>1, <1>3, <1>4, CalcOnly

LEMMA CountIsRead ==
  ASSUME StreamInv, CalcCount
  PROVE  StreamInv'
<1>1. /\ pair = "calc" /\ spc = "read" /\ up # <<>> /\ operandCount' = Head(up)
      /\ up' = Tail(up) /\ spc' = "collect"
      /\ UNCHANGED <<pair, down, upEnd, downEnd, cpc, rpc, sent, want, got, message>>
      /\ StreamPlaces /\ CalcPlaces
  BY DEF CalcCount, StreamInv
<1>2. /\ cpc = "read" /\ Head(up) = want /\ Len(up) = want + 2 /\ Part(Tail(up), Request, 0)
      /\ message = <<>> /\ down = <<>> /\ got = <<>>
  BY <1>1 DEF CalcPlaces, StreamPlaces
<1>3. /\ up' \in Seq(Written) /\ Len(up') = want + 1 /\ Request' = Request
      /\ want \in 0 .. MaxTyped /\ want \in Nat
  BY <1>1, <1>2, RequestStays DEF StreamPlaces
<1>4. Len(message) = 0 /\ Part(message, Request, 0) /\ Part(up', Request, Len(message))
  BY <1>1, <1>2, NothingIsPart
<1>5. StreamPlaces'
  BY <1>1, <1>2, <1>3 DEF StreamPlaces
<1>6. CalcPlaces'
  BY <1>1, <1>2, <1>3, <1>4 DEF CalcPlaces
<1> QED
  BY <1>1, <1>5, <1>6, CalcOnly

LEMMA OperandsAreRead ==
  ASSUME StreamInv, CalcRead
  PROVE  StreamInv'
<1>1. /\ pair = "calc" /\ spc = "collect"
      /\ UNCHANGED <<pair, down, upEnd, downEnd, cpc, rpc, spc, sent, want, got, operandCount>>
      /\ StreamPlaces /\ CalcPlaces
  BY DEF CalcRead, StreamInv
<1>2. PICK n \in 1 .. Len(up) : message' = message \o First(up, n) /\ up' = After(up, n)
  BY DEF CalcRead, ReadSizes
<1>3. /\ operandCount = want /\ Len(message) + Len(up) = want + 1 /\ want \in Nat
      /\ Part(message, Request, 0) /\ Part(up, Request, Len(message))
      /\ message \in Seq(Written) /\ up \in Seq(Written)
      /\ Len(message) \in Nat /\ Len(up) \in Nat /\ n \in 0 .. Len(up) /\ n \in Nat
  BY <1>1, <1>2 DEF CalcPlaces, StreamPlaces
<1>4. /\ First(up, n) \in Seq(Written) /\ Len(First(up, n)) = n
      /\ Part(First(up, n), Request, Len(message))
      /\ After(up, n) \in Seq(Written) /\ Len(After(up, n)) = Len(up) - n
      /\ Part(After(up, n), Request, Len(message) + n)
  BY <1>3, PartCut
<1>5. 0 + Len(message) = Len(message)
  BY <1>3
<1>6. message' \in Seq(Written) /\ Len(message') = Len(message) + n /\ Part(message', Request, 0)
  <2>1. Part(First(up, n), Request, 0 + Len(message))
    BY <1>4, <1>5
  <2>2. /\ message \o First(up, n) \in Seq(Written)
        /\ Len(message \o First(up, n)) = Len(message) + Len(First(up, n))
        /\ Part(message \o First(up, n), Request, 0)
    BY <1>3, <1>4, <2>1, PartJoin
  <2> QED
    BY <1>2, <1>4, <2>2
<1>7. /\ up' \in Seq(Written) /\ Len(message') + Len(up') = want + 1
      /\ Part(up', Request, Len(message')) /\ Request' = Request /\ Len(up') <= want + 2
  <2>1. up' \in Seq(Written) /\ Len(up') = Len(up) - n /\ Part(up', Request, Len(message'))
    BY <1>2, <1>4, <1>6
  <2>2. Len(message') + Len(up') = want + 1 /\ Len(up') <= want + 2
    <3>1. /\ Len(message) \in Nat /\ Len(up) \in Nat /\ want \in Nat /\ n \in 0 .. Len(up)
          /\ Len(message) + Len(up) = want + 1
      BY <1>3
    <3>2. Len(message') = Len(message) + n /\ Len(up') = Len(up) - n
      BY <1>6, <2>1
    <3> QED
      BY <3>1, <3>2
  <2> QED
    BY <1>1, <2>1, <2>2, RequestStays
<1>8. StreamPlaces'
  BY <1>1, <1>6, <1>7 DEF StreamPlaces
<1>9. CalcPlaces'
  BY <1>1, <1>3, <1>6, <1>7 DEF CalcPlaces
<1> QED
  BY <1>1, <1>8, <1>9, CalcOnly

LEMMA ResultIsCalculated ==
  ASSUME StreamInv, Calculate
  PROVE  StreamInv'
<1>1. /\ pair = "calc" /\ spc = "collect" /\ Len(message) >= operandCount + 1
      /\ down' = <<First(message, operandCount + 1)>> /\ downEnd' = TRUE /\ spc' = "done"
      /\ UNCHANGED <<pair, up, upEnd, cpc, rpc, sent, want, got, message, operandCount>>
      /\ StreamPlaces /\ CalcPlaces
  BY DEF Calculate, StreamInv
<1>2. /\ operandCount = want /\ Len(message) + Len(up) = want + 1 /\ want \in Nat
      /\ Part(message, Request, 0) /\ message \in Seq(Written) /\ up \in Seq(Written)
      /\ cpc \notin {"done", "type"} /\ got = <<>>
  BY <1>1 DEF CalcPlaces, StreamPlaces
<1>3. Len(message) = want + 1 /\ Len(up) = 0
  BY <1>1, <1>2
<1>4. First(message, operandCount + 1) = message
  BY <1>2, <1>3 DEF First
<1>5. message = FullRequest
  BY <1>2, <1>3, RequestIs
<1>6. down' = <<FullRequest'>> /\ cpc = "read"
  BY <1>1, <1>2, <1>4, <1>5, RequestStays DEF StreamPlaces
<1>7. StreamPlaces'
  BY <1>1 DEF StreamPlaces
<1>8. CalcPlaces'
  BY <1>1, <1>2, <1>3, <1>6 DEF CalcPlaces
<1> QED
  BY <1>1, <1>7, <1>8, CalcOnly

-----------------------------------------------------------------------------
(* The servers that speak first.                                           *)

LEMMA SendOnly ==
  ASSUME pair' \in Sends, StreamPlaces', SendPlaces'
  PROVE  StreamInv'
BY DEF StreamInv, Echoes, Sends

LEMMA ClientReadsToEnd ==
  ASSUME StreamInv, ReadToEnd
  PROVE  StreamInv'
<1>1. /\ pair \in Sends /\ cpc = "read"
      /\ UNCHANGED <<pair, downEnd, rpc, spc, sent, want, message, operandCount>>
      /\ StreamPlaces /\ SendPlaces
  BY DEF ReadToEnd, StreamInv
<1>2. /\ got \in Seq(Written) /\ down \in Seq(Written) /\ Len(got) \in Nat /\ Len(down) \in Nat
      /\ sent = Len(got) + Len(down) /\ up = <<>> /\ Total' = Total
  BY <1>1 DEF SendPlaces, Total
<1>3. CASE (\E n \in ReadSizes(down) :
              got' = got \o Stored(First(down, n)) /\ down' = After(down, n))
           /\ UNCHANGED <<cpc, up, upEnd>>
  <2>1. PICK n \in 1 .. Len(down) : got' = got \o Stored(First(down, n)) /\ down' = After(down, n)
    BY <1>3 DEF ReadSizes
  <2>2. /\ First(down, n) \in Seq(Written) /\ Len(First(down, n)) = n
        /\ down' \in Seq(Written) /\ Len(down') = Len(down) - n /\ n \in Nat
    BY <1>2, <2>1 DEF First, After
  <2> DEFINE read == Stored(First(down, n))
  <2>3. read \in Seq(Written) /\ Len(read) = n
    BY <2>2 DEF Stored, Written
  <2>4. got' \in Seq(Written) /\ Len(got') = Len(got) + n
    <3> HIDE DEF read
    <3>1. got \in Seq(Written) /\ read \in Seq(Written) /\ Len(read) = n
      BY <1>2, <2>3
    <3>2. got \o read \in Seq(Written) /\ Len(got \o read) = Len(got) + Len(read)
      BY <3>1, JoinLength
    <3>3. got' = got \o read
      BY <2>1 DEF read
    <3> QED
      BY <3>1, <3>2, <3>3
  <2>5. pair = "hello" => Part(got', InOrder, 0) /\ Part(down', InOrder, Len(got'))
    <3> SUFFICES ASSUME pair = "hello"
                 PROVE  Part(got', InOrder, 0) /\ Part(down', InOrder, Len(got'))
      OBVIOUS
    <3>1. Part(got, InOrder, 0) /\ Part(down, InOrder, Len(got)) /\ n \in 0 .. Len(down)
      BY <1>1, <2>1, <2>2 DEF SendPlaces
    <3>2. Part(First(down, n), InOrder, Len(got)) /\ Part(After(down, n), InOrder, Len(got) + n)
      BY <1>2, <3>1, PartCut
    <3>3. got' = got \o First(down, n) /\ 0 + Len(got) = Len(got)
      BY <1>2, <2>1 DEF Stored
    <3>4. Part(got', InOrder, 0)
      BY <1>2, <2>2, <3>1, <3>2, <3>3, PartJoin
    <3> QED
      BY <2>1, <2>4, <3>2, <3>4
  <2>6. StreamPlaces'
    BY <1>1, <1>3 DEF StreamPlaces
  <2>7. sent' = Len(got') + Len(down') /\ Len(down') <= StreamRoom
    BY <1>1, <1>2, <2>2, <2>4 DEF SendPlaces
  <2>8. SendPlaces'
    BY <1>1, <1>2, <1>3, <2>2, <2>4, <2>5, <2>7 DEF SendPlaces
  <2> QED
    BY <1>1, <2>6, <2>8, SendOnly
<1>4. CASE /\ down = <<>> /\ downEnd
           /\ up' = <<"thanks">> /\ upEnd' = TRUE
           /\ cpc' = "done"
           /\ UNCHANGED <<down, got>>
  <2>1. up' \in Seq(Written) /\ Len(up') = 1
    BY <1>4 DEF Written
  <2>2. StreamPlaces'
    BY <1>1, <1>4, <2>1 DEF StreamPlaces
  <2>3. SendPlaces'
    BY <1>1, <1>2, <1>4, <2>1 DEF SendPlaces
  <2> QED
    BY <1>1, <2>2, <2>3, SendOnly
<1> QED
  BY <1>3, <1>4 DEF ReadToEnd

LEMMA ServerSends ==
  ASSUME StreamInv, SendRest
  PROVE  StreamInv'
<1> DEFINE n == IF pair = "file" /\ Total - sent >= StreamBuff THEN StreamBuff ELSE Total - sent
<1>1. /\ pair \in Sends /\ spc = "send" /\ Len(down) + n <= StreamRoom
      /\ down' = down \o Units(sent + 1, sent + n) /\ sent' = sent + n
      /\ spc' = IF pair = "file" /\ n = StreamBuff THEN "send" ELSE "shut"
      /\ UNCHANGED <<pair, up, upEnd, downEnd, cpc, rpc, want, got, message, operandCount>>
      /\ StreamPlaces /\ SendPlaces
  BY DEF SendRest, StreamInv, Total
<1>2. /\ got \in Seq(Written) /\ down \in Seq(Written) /\ Len(got) \in Nat /\ Len(down) \in Nat
      /\ sent = Len(got) + Len(down) /\ sent <= Total /\ sent \in Nat /\ Total \in Nat
      /\ ~downEnd /\ cpc = "read" /\ Total' = Total
  BY <1>1 DEF SendPlaces, StreamPlaces, Total
<1>3. /\ n \in Nat /\ sent + n <= Total
      /\ ~(pair = "file" /\ n = StreamBuff) => sent + n = Total
  <2>1. sent \in Nat /\ Total \in Nat /\ sent <= Total /\ StreamBuff \in Nat
    BY <1>2
  <2>2. CASE pair = "file" /\ Total - sent >= StreamBuff
    <3>1. n = StreamBuff
      BY <2>2
    <3> QED
      BY <2>1, <2>2, <3>1
  <2>3. CASE ~(pair = "file" /\ Total - sent >= StreamBuff)
    <3>1. n = Total - sent
      BY <2>3
    <3> QED
      BY <2>1, <3>1
  <2> QED
    BY <2>2, <2>3
<1> HIDE DEF n
<1>4. /\ Units(sent + 1, sent + n) \in Seq(Written) /\ Len(Units(sent + 1, sent + n)) = n
      /\ Part(Units(sent + 1, sent + n), InOrder, sent)
  BY <1>2, <1>3, UnitsPart
<1>5. down' \in Seq(Written) /\ Len(down') = Len(down) + n
  <2> DEFINE u == Units(sent + 1, sent + n)
  <2>1. u \in Seq(Written) /\ Len(u) = n /\ down' = down \o u /\ down \in Seq(Written)
    BY <1>1, <1>2, <1>4
  <2> HIDE DEF u
  <2>2. down \o u \in Seq(Written) /\ Len(down \o u) = Len(down) + Len(u)
    BY <2>1, JoinLength
  <2> QED
    BY <2>1, <2>2
<1>6. pair = "hello" => Part(got, InOrder, 0) /\ Part(down', InOrder, Len(got))
  <2> SUFFICES ASSUME pair = "hello"
               PROVE  Part(got, InOrder, 0) /\ Part(down', InOrder, Len(got))
    OBVIOUS
  <2>1. Part(got, InOrder, 0) /\ Part(down, InOrder, Len(got))
    BY <1>1 DEF SendPlaces
  <2> QED
    BY <1>1, <1>2, <1>4, <2>1, PartJoin
<1>7. StreamPlaces'
  BY <1>1, <1>2, <1>3 DEF StreamPlaces
<1>8. sent' = Len(got') + Len(down') /\ sent' <= Total' /\ (spc' # "send" => sent' = Total')
  <2>1. Len(got') = Len(got) /\ sent' = sent + n
    BY <1>1
  <2>2. sent' = Len(got') + Len(down')
    BY <1>2, <1>3, <1>5, <2>1
  <2>3. spc' # "send" => sent' = Total'
    BY <1>1, <1>2, <1>3
  <2> QED
    BY <1>2, <1>3, <2>1, <2>2, <2>3
<1>9. SendPlaces'
  BY <1>1, <1>2, <1>5, <1>6, <1>8 DEF SendPlaces
<1> QED
  BY <1>1, <1>7, <1>9, SendOnly

LEMMA ServerHalfCloses ==
  ASSUME StreamInv, HalfClose
  PROVE  StreamInv'
<1>1. /\ pair \in Sends /\ spc = "shut" /\ downEnd' = TRUE /\ spc' = "read"
      /\ UNCHANGED <<pair, up, down, upEnd, cpc, rpc, sent, want, got, message, operandCount>>
      /\ StreamPlaces /\ SendPlaces
  BY DEF HalfClose, StreamInv
<1>2. Total' = Total /\ cpc = "read"
  BY <1>1 DEF Total, SendPlaces
<1>3. StreamPlaces'
  BY <1>1 DEF StreamPlaces
<1>4. SendPlaces'
  BY <1>1, <1>2 DEF SendPlaces
<1> QED
  BY <1>1, <1>3, <1>4, SendOnly

LEMMA ThanksAreRead ==
  ASSUME StreamInv, ReadThanks
  PROVE  StreamInv'
<1>1. /\ pair \in Sends /\ spc = "read" /\ (up # <<>> \/ upEnd) /\ message' = up /\ up' = <<>>
      /\ spc' = "done"
      /\ UNCHANGED <<pair, down, upEnd, downEnd, cpc, rpc, sent, want, got, operandCount>>
      /\ StreamPlaces /\ SendPlaces
  BY DEF ReadThanks, StreamInv
<1>2. Total' = Total /\ cpc = "done" /\ up = <<"thanks">>
  BY <1>1 DEF Total, SendPlaces
<1>3. StreamPlaces'
  BY <1>1, NothingWritten DEF StreamPlaces
<1>4. SendPlaces'
  BY <1>1, <1>2, NothingWritten DEF SendPlaces
<1> QED
  BY <1>1, <1>3, <1>4, SendOnly

-----------------------------------------------------------------------------
LEMMA StreamStays ==
  ASSUME StreamInv, UNCHANGED streamVars
  PROVE  StreamInv'
<1>1. /\ UNCHANGED <<pair, up, down, upEnd, downEnd, cpc, rpc, spc, sent, want, operandCount, got,
                     message>>
  BY DEF streamVars
<1>2. InHand' = InHand /\ Total' = Total /\ Request' = Request /\ FullRequest' = FullRequest
  BY <1>1 DEF InHand, Total, Request, FullRequest
<1>3. StreamPlaces' <=> StreamPlaces
  BY <1>1 DEF StreamPlaces
<1>4. (EchoFlow' <=> EchoFlow) /\ (EchoPlaces' <=> EchoPlaces)
  BY <1>1, <1>2 DEF EchoFlow, EchoPlaces
<1>5. CalcPlaces' <=> CalcPlaces
  BY <1>1, <1>2 DEF CalcPlaces
<1>6. SendPlaces' <=> SendPlaces
  BY <1>1, <1>2 DEF SendPlaces
<1> QED
  BY <1>1, <1>3, <1>4, <1>5, <1>6 DEF StreamInv

LEMMA StreamStep == StreamInv /\ [StreamNext]_streamVars => StreamInv'
<1> SUFFICES ASSUME StreamInv, [StreamNext]_streamVars
             PROVE  StreamInv'
  OBVIOUS
<1>1. CASE User
  BY <1>1, EchoTypesMessage, EchoQuits, OperandsAreTyped DEF User
<1>2. CASE StreamClient
  BY <1>2, EchoIsRead, ResultIsRead, ClientReadsToEnd DEF StreamClient
<1>3. CASE ReadRoutine
  BY <1>3, RoutineReads
<1>4. CASE StreamServer
  <2>1. CASE EchoRead \/ EchoWrite \/ EchoEnd
    BY <2>1, EchoServerReads, EchoServerWrites, EchoServerEnds
  <2>2. CASE CalcCount \/ CalcRead \/ Calculate
    BY <2>2, CountIsRead, OperandsAreRead, ResultIsCalculated
  <2>3. CASE SendRest \/ HalfClose \/ ReadThanks
    BY <2>3, ServerSends, ServerHalfCloses, ThanksAreRead
  <2> QED
    BY <1>4, <2>1, <2>2, <2>3 DEF StreamServer
<1>5. CASE UNCHANGED streamVars
  BY <1>5, StreamStays
<1> QED
  BY <1>1, <1>2, <1>3, <1>4, <1>5 DEF StreamNext

LEMMA StreamInvariant == StreamSpec => []StreamInv
BY StreamStart, StreamStep, PTL DEF StreamSpec

(* StreamTypes: among others, how much a stream ever holds, which is what  *)
(* TCP takes, the calculator's request, or the line that echo_stdio_server *)
(* writes again.                                                           *)
THEOREM StreamTypesHold == StreamSpec => []StreamTypes
<1>1. StreamInv => StreamTypes
  <2> SUFFICES ASSUME StreamInv
               PROVE  StreamTypes
    OBVIOUS
  <2>1. StreamPlaces /\ Len(up) \in Nat
    BY DEF StreamInv, StreamPlaces
  <2>2. CASE pair \in Echoes
    <3>1. EchoPlaces
      BY <2>2 DEF StreamInv
    <3>2. Len(down) \in Nat
      BY <3>1 DEF EchoPlaces
    <3> QED
      BY <2>1, <3>1, <3>2 DEF StreamTypes, EchoPlaces, StreamPlaces
  <2>3. CASE pair = "calc"
    <3>1. CalcPlaces /\ want \in 0 .. MaxTyped
      BY <2>1, <2>3 DEF StreamInv, StreamPlaces
    <3>2. Len(down) <= 1
      <4>1. down = <<>> \/ down = <<FullRequest>>
        BY <3>1 DEF CalcPlaces
      <4>2. CASE down = <<>>
        BY <4>2
      <4>3. CASE down = <<FullRequest>>
        <5>1. \A a : Len(<<a>>) = 1
          OBVIOUS
        <5> QED
          BY <4>3, <5>1
      <4> QED
        BY <4>1, <4>2, <4>3
    <3> QED
      BY <2>1, <3>1, <3>2 DEF StreamTypes, CalcPlaces, StreamPlaces
  <2>4. CASE pair \in Sends
    <3>1. SendPlaces /\ want \in 0 .. MaxTyped
      BY <2>1, <2>4 DEF StreamInv, StreamPlaces
    <3>2. Len(down) \in Nat /\ sent <= MaxTyped + 3
      BY <2>1, <3>1 DEF SendPlaces, Total, StreamPlaces
    <3> QED
      BY <2>1, <3>1, <3>2 DEF StreamTypes, SendPlaces, StreamPlaces
  <2> QED
    BY <2>1, <2>2, <2>3, <2>4 DEF StreamPlaces
<1> QED
  BY <1>1, StreamInvariant, PTL

(* What the user of an echo client has seen is the beginning of what was   *)
(* written.                                                                *)
EchoedSoFar == pair \in Echoes => got = Units(1, Len(got)) /\ Len(got) <= sent

(* EchoedSoFar: nothing is lost, repeated or out of order on the way of    *)
(* the echo clients' messages to echo_server or echo_stdio_server and      *)
(* back, at any time and however reads and writes cut the streams.         *)
THEOREM EchoesComeInOrder == StreamSpec => []EchoedSoFar
<1>1. StreamInv => EchoedSoFar
  <2> SUFFICES ASSUME StreamInv, pair \in Echoes
               PROVE  got = Units(1, Len(got)) /\ Len(got) <= sent
    BY DEF EchoedSoFar
  <2>1. StreamPlaces /\ EchoFlow /\ EchoPlaces
    BY DEF StreamInv
  <2>2. /\ got \in Seq(Written) /\ down \in Seq(Written) /\ InHand \in Seq(Written)
        /\ up \in Seq(Written) /\ Len(got) \in Nat /\ Len(down) \in Nat /\ Len(InHand) \in Nat
        /\ Len(up) \in Nat /\ sent \in Nat
    BY <2>1 DEF StreamPlaces, EchoPlaces, InHand
  <2>3. got = Units(1, Len(got))
    BY <2>1, <2>2, AllUnits DEF EchoFlow
  <2>4. Len(got) <= sent
    <3>1. CASE pair = "stdio" /\ spc = "done"
      <4>1. Len(got) = sent
        BY <2>1, <3>1 DEF EchoPlaces
      <4> QED
        BY <2>2, <4>1
    <3>2. CASE ~(pair = "stdio" /\ spc = "done")
      <4>1. sent = Len(got) + Len(down) + Len(InHand) + Len(up)
        BY <2>1, <3>2 DEF EchoFlow
      <4> QED
        BY <2>2, <4>1
    <3> QED
      BY <3>1, <3>2
  <2> QED
    BY <2>3, <2>4
<1> QED
  BY <1>1, StreamInvariant, PTL

(* When all processes of a pair have ended, everything has arrived.        *)
EndsDelivered == cpc = "done" /\ rpc = "done" /\ spc = "done" => Delivered

(* EndsDelivered, the safety half of PairsFinish: none of the six clients  *)
(* stops before it has all there is to come (all echoes, the result of the *)
(* whole request, the whole file), and no server before its client has.    *)
THEOREM PairsEndDelivered == StreamSpec => []EndsDelivered
<1>1. StreamInv => EndsDelivered
  <2> SUFFICES ASSUME StreamInv, cpc = "done", rpc = "done", spc = "done"
               PROVE  Delivered
    BY DEF EndsDelivered
  <2>1. StreamPlaces
    BY DEF StreamInv
  <2>2. CASE pair \in Echoes
    <3>1. EchoFlow /\ EchoPlaces /\ InHand = <<>> /\ Len(InHand) = 0
      BY <2>2 DEF StreamInv, InHand
    <3>2. /\ got \in Seq(Written) /\ Part(got, InOrder, 0) /\ Len(got) \in Nat
          /\ up = <<>> /\ Len(up) = 0
      BY <3>1 DEF EchoFlow, EchoPlaces
    <3>3. Len(got) = sent
      <4>1. CASE pair = "fork"
        <5>1. down = <<>> /\ Len(down) = 0
          BY <3>1, <4>1 DEF EchoPlaces
        <5>2. sent = Len(got) + Len(down) + Len(InHand) + Len(up)
          BY <3>1, <4>1 DEF EchoFlow
        <5> QED
          BY <3>1, <3>2, <5>1, <5>2
      <4>2. CASE pair # "fork"
        BY <3>1, <4>2 DEF EchoPlaces
      <4> QED
        BY <4>1, <4>2
    <3>4. got = Units(1, sent)
      BY <3>2, <3>3, AllUnits
    <3> QED
      BY <2>2, <3>4 DEF Delivered, Echoes
  <2>3. CASE pair = "calc"
    <3>1. got = <<FullRequest>>
      BY <2>3 DEF StreamInv, CalcPlaces
    <3> QED
      BY <2>3, <3>1 DEF Delivered, Echoes, FullRequest
  <2>4. CASE pair \in Sends
    <3>1. /\ got \in Seq(Written) /\ down = <<>> /\ Len(down) = 0 /\ sent = Len(got) + Len(down)
          /\ sent = Total /\ message = <<"thanks">> /\ Len(got) \in Nat
          /\ (pair = "hello" => Part(got, InOrder, 0))
      BY <2>4 DEF StreamInv, SendPlaces
    <3>2. Len(got) = Total
      BY <3>1
    <3>3. CASE pair = "file"
      BY <3>1, <3>2, <3>3 DEF Delivered, Echoes, Total
    <3>4. CASE pair = "hello"
      <4>1. got = Units(1, 3)
        BY <3>1, <3>2, <3>4, AllUnits DEF Total
      <4> QED
        BY <3>1, <3>4, <4>1 DEF Delivered, Echoes
    <3> QED
      BY <2>4, <3>3, <3>4 DEF Sends
  <2> QED
    BY <2>1, <2>2, <2>3, <2>4 DEF StreamPlaces
<1> QED
  BY <1>1, StreamInvariant, PTL

(* Who can go on, by the conditions of the actions: there is something to  *)
(* read, the end of the stream, or room for what is to be written.         *)
ClientGoes ==
  /\ cpc = "read"
  /\ down # <<>> \/ (pair \in Sends /\ downEnd)

RoutineGoes == pair = "fork" /\ rpc = "read" /\ (down # <<>> \/ downEnd)

NextBuffer == IF pair = "file" /\ Total - sent >= StreamBuff THEN StreamBuff ELSE Total - sent

ServerGoes ==
  \/ pair \in Echoes /\ spc = "read" /\ (up # <<>> \/ upEnd)
  \/ pair \in Echoes /\ spc = "write" /\ Len(down) + Len(message) <= StreamRoom
  \/ pair = "calc" /\ spc = "read" /\ up # <<>>
  \/ pair = "calc" /\ spc = "collect" /\ (up # <<>> \/ Len(message) >= operandCount + 1)
  \/ pair \in Sends /\ spc = "send" /\ Len(down) + NextBuffer <= StreamRoom
  \/ spc = "shut"
  \/ pair \in Sends /\ spc = "read" /\ (up # <<>> \/ upEnd)

(* Not all processes of a pair wait for each other.                        *)
SomebodyGoes == cpc = "type" \/ ClientGoes \/ RoutineGoes \/ ServerGoes \/ PairOver

LEMMA EchoGoesOn ==
  ASSUME StreamInv, pair \in Echoes, cpc # "type"
  PROVE  ClientGoes \/ RoutineGoes \/ ServerGoes \/ (cpc = "done" /\ rpc = "done" /\ spc = "done")
<1>1. StreamPlaces /\ EchoFlow /\ EchoPlaces
  BY DEF StreamInv
<1>2. /\ cpc \in {"read", "done"} /\ rpc \in {"read", "done"} /\ spc \in {"read", "write", "done"}
      /\ down \in Seq(Written) /\ up \in Seq(Written) /\ message \in Seq(Written)
      /\ got \in Seq(Written) /\ sent \in Nat
      /\ Len(got) \in Nat /\ Len(up) \in Nat /\ Len(message) \in Nat
  BY <1>1 DEF StreamPlaces, EchoPlaces
<1>3. CASE spc = "write"
  <2>1. CASE down = <<>>
    <3>1. Len(down) = 0 /\ Len(message) <= StreamBuff
      BY <1>1, <2>1 DEF EchoPlaces
    <3>2. Len(down) + Len(message) <= StreamRoom
      BY <1>2, <3>1
    <3> QED
      BY <1>3, <3>2 DEF ServerGoes
  <2>2. CASE down # <<>> /\ pair = "fork"
    BY <1>1, <1>2, <1>3, <2>2 DEF RoutineGoes, EchoPlaces
  <2>3. CASE down # <<>> /\ pair # "fork" /\ cpc = "read"
    BY <2>3 DEF ClientGoes
  <2>4. CASE down # <<>> /\ pair # "fork" /\ cpc = "done"
    <3>1. Len(got) = sent /\ sent = Len(got) + Len(down) + Len(InHand) + Len(up)
      BY <1>1, <1>3, <2>4 DEF EchoPlaces, EchoFlow
    <3>2. Len(down) \in Nat \ {0} /\ Len(InHand) \in Nat
      BY <1>2, <2>4 DEF InHand
    <3> QED
      BY <1>2, <3>1, <3>2
  <2> QED
    BY <1>2, <2>1, <2>2, <2>3, <2>4
<1>4. CASE spc = "read" /\ cpc = "done"
  <2>1. upEnd
    BY <1>1, <1>4 DEF EchoPlaces
  <2> QED
    BY <1>4, <2>1 DEF ServerGoes
<1>5. CASE spc = "read" /\ cpc = "read" /\ down = <<>>
  <2>1. /\ pair # "fork" /\ Len(got) < sent /\ Len(down) = 0 /\ Len(InHand) = 0
        /\ sent = Len(got) + Len(down) + Len(InHand) + Len(up)
    BY <1>1, <1>5 DEF EchoPlaces, EchoFlow, InHand
  <2>2. up # <<>>
    BY <1>2, <2>1
  <2> QED
    BY <1>5, <2>2 DEF ServerGoes
<1>6. CASE cpc = "read" /\ down # <<>>
  BY <1>6 DEF ClientGoes
<1>7. CASE spc = "done"
  <2>1. cpc = "done" /\ downEnd
    BY <1>1, <1>7 DEF EchoPlaces
  <2>2. CASE rpc = "read"
    BY <1>1, <2>1, <2>2 DEF RoutineGoes, StreamPlaces
  <2> QED
    BY <1>2, <1>7, <2>1, <2>2
<1> QED
  BY <1>2, <1>3, <1>4, <1>5, <1>6, <1>7

LEMMA CalcGoesOn ==
  ASSUME StreamInv, pair = "calc", cpc # "type"
  PROVE  ClientGoes \/ ServerGoes \/ (cpc = "done" /\ rpc = "done" /\ spc = "done")
<1>1. StreamPlaces /\ CalcPlaces
  BY DEF StreamInv
<1>2. /\ cpc \in {"read", "done"} /\ rpc = "done" /\ spc \in {"read", "collect", "done"}
      /\ up \in Seq(Written) /\ message \in Seq(Written) /\ want \in Nat
      /\ Len(up) \in Nat /\ Len(message) \in Nat
  BY <1>1 DEF StreamPlaces, CalcPlaces
<1>3. CASE spc = "read"
  BY <1>1, <1>2, <1>3 DEF CalcPlaces, ServerGoes
<1>4. CASE spc = "collect"
  <2>1. operandCount = want /\ Len(message) + Len(up) = want + 1
    BY <1>1, <1>4 DEF CalcPlaces
  <2>2. up # <<>> \/ Len(message) >= operandCount + 1
    BY <1>2, <2>1
  <2> QED
    BY <1>4, <2>2 DEF ServerGoes
<1>5. CASE spc = "done" /\ cpc = "read"
  <2>1. down # <<>>
    BY <1>1, <1>5 DEF CalcPlaces
  <2> QED
    BY <1>5, <2>1 DEF ClientGoes
<1> QED
  BY <1>2, <1>3, <1>4, <1>5

LEMMA SendGoesOn ==
  ASSUME StreamInv, pair \in Sends
  PROVE  ClientGoes \/ ServerGoes \/ (cpc = "done" /\ rpc = "done" /\ spc = "done")
<1>1. StreamPlaces /\ SendPlaces
  BY DEF StreamInv
<1>2. /\ cpc \in {"read", "done"} /\ rpc = "done" /\ spc \in {"send", "shut", "read", "done"}
      /\ pair \in {"file", "hello"} /\ sent \in Nat /\ want \in Nat /\ sent <= Total
  BY <1>1 DEF StreamPlaces, SendPlaces, Sends
<1>3. CASE cpc = "read" /\ (down # <<>> \/ downEnd)
  BY <1>3 DEF ClientGoes
<1>4. CASE down = <<>> /\ ~downEnd
  <2>1. CASE spc = "send"
    <3>1. Len(down) = 0
      BY <1>4
    <3>2. NextBuffer \in Nat /\ NextBuffer <= StreamRoom
      BY <1>2 DEF NextBuffer, Total
    <3> QED
      BY <2>1, <3>1, <3>2 DEF ServerGoes
  <2>2. CASE spc = "shut"
    BY <2>2 DEF ServerGoes
  <2> QED
    BY <1>1, <1>2, <1>4, <2>1, <2>2 DEF SendPlaces
<1>5. CASE cpc = "done"
  <2>1. spc \in {"read", "done"} /\ (spc = "read" => up = <<"thanks">>)
    BY <1>1, <1>5 DEF SendPlaces
  <2> QED
    BY <1>2, <1>5, <2>1 DEF ServerGoes
<1> QED
  BY <1>2, <1>3, <1>4, <1>5

(* SomebodyGoes: for every size of the buffers and of what TCP holds, a    *)
(* pair that is not over never has all its processes waiting in read or    *)
(* write for each other: no read too few, no stream left open by a second  *)
(* holder of the descriptor, no two full buffers.                          *)
THEOREM PairsNeverStick == StreamSpec => []SomebodyGoes
<1>1. StreamInv /\ EndsDelivered => SomebodyGoes
  <2> SUFFICES ASSUME StreamInv, EndsDelivered, cpc # "type"
               PROVE  ClientGoes \/ RoutineGoes \/ ServerGoes \/ PairOver
    BY DEF SomebodyGoes
  <2>1. ClientGoes \/ RoutineGoes \/ ServerGoes \/ (cpc = "done" /\ rpc = "done" /\ spc = "done")
    <3>1. pair \in Echoes \/ pair = "calc" \/ pair \in Sends
      BY DEF StreamInv, StreamPlaces
    <3> QED
      BY <3>1, EchoGoesOn, CalcGoesOn, SendGoesOn
  <2> QED
    BY <2>1 DEF PairOver, EndsDelivered
<1> QED
  BY <1>1, StreamInvariant, PairsEndDelivered, PTL
=============================================================================
