---------------------------- MODULE EchoServers ----------------------------
(***************************************************************************)
(* The echo servers that serve all clients from one thread:                *)
(* echo_select_server.c ("select"), echo_epoll_server.c and                *)
(* echo_epoll_LT_server.c ("lt"), echo_epoll_ET_server.c ("et").           *)
(*                                                                         *)
(* Descriptor 3 is the listening socket; 0 is stdin, which the select      *)
(* server watches and closes at its end of file, so that accept can return *)
(* 0.  set_nonblocking_mod calls fcntl without F_SETFL, so no socket is    *)
(* non-blocking and the ET server reads a client until its end of file; an *)
(* edge and a level are then the same for it.  A client may shut down its  *)
(* sending side and goes on reading; none resets its connection.           *)
(***************************************************************************)
EXTENDS Integers, Sequences, FiniteSets, FiniteSetsExt

CONSTANTS
  EchoClients,
  EchoFds,        (* descriptors that accept can return, 0 among them      *)
  EchoBuff,       (* BUFF_SIZE, in the units clients send                  *)
  MaxEcho         (* bound: units each client sends                        *)

ASSUME EchoAssumption ==
  /\ IsFiniteSet(EchoFds) /\ 0 \in EchoFds /\ EchoFds \subseteq Nat \ {1, 2, 3}
  /\ EchoBuff \in Nat \ {0} /\ MaxEcho \in Nat
  /\ EchoClients \cap {"stdin", "none"} = {}

ServerFd == 3

VARIABLES
  echoKind,
  echoClient,     (* per client: "away", "backlog" or "accepted"           *)
  sentUnits, shutWr,           (* per client: units sent, end of file sent *)
  inbox,          (* per client: units sent and not yet read               *)
  gotBack,        (* per client: <<client, unit>> in order of arrival      *)
  fdConn,         (* who is at the other end of each descriptor            *)
  stdinEof,
  echoPc,         (* "wait", "batch", "reading" or "exited"                *)
  batch,          (* events reported and not yet handled                   *)
  readFd,         (* the descriptor the inner loop of the ET server reads  *)
  overrun         (* clients that lost units to the byte after the buffer  *)

echoVars == <<echoKind, echoClient, sentUnits, shutWr, inbox, gotBack, fdConn, stdinEof,
              echoPc, batch, readFd, overrun>>

EchoInit ==
  /\ echoKind \in {"select", "lt", "et"}
  /\ echoClient = [c \in EchoClients |-> "away"]
  /\ sentUnits = [c \in EchoClients |-> 0] /\ shutWr = [c \in EchoClients |-> FALSE]
  /\ inbox = [c \in EchoClients |-> <<>>] /\ gotBack = [c \in EchoClients |-> <<>>]
  /\ fdConn = [f \in EchoFds |-> IF f = 0 THEN "stdin" ELSE "none"] /\ stdinEof = FALSE
  /\ echoPc = "wait" /\ batch = {} /\ readFd = ServerFd /\ overrun = {}

serverVars == <<fdConn, echoPc, batch, readFd, overrun>>

-----------------------------------------------------------------------------
(* The clients, and the terminal.                                          *)

EchoConnect(c) ==
  /\ echoClient[c] = "away"
  /\ echoClient' = [echoClient EXCEPT ![c] = "backlog"]
  /\ UNCHANGED <<echoKind, sentUnits, shutWr, inbox, gotBack, stdinEof, serverVars>>

EchoSend(c) ==
  /\ echoClient[c] # "away" /\ ~shutWr[c] /\ sentUnits[c] < MaxEcho
  /\ sentUnits' = [sentUnits EXCEPT ![c] = @ + 1]
  /\ inbox' = [inbox EXCEPT ![c] = Append(@, sentUnits'[c])]
  /\ UNCHANGED <<echoKind, echoClient, shutWr, gotBack, stdinEof, serverVars>>

EchoShut(c) ==
  /\ echoClient[c] # "away" /\ ~shutWr[c]
  /\ shutWr' = [shutWr EXCEPT ![c] = TRUE]
  /\ UNCHANGED <<echoKind, echoClient, sentUnits, inbox, gotBack, stdinEof, serverVars>>

EndStdin ==
  /\ ~stdinEof
  /\ stdinEof' = TRUE
  /\ UNCHANGED <<echoKind, echoClient, sentUnits, shutWr, inbox, gotBack, serverVars>>

-----------------------------------------------------------------------------
(* The server.                                                             *)

clientVars == <<echoKind, sentUnits, shutWr, stdinEof>>

AtEnd(conn) == IF conn = "stdin" THEN stdinEof ELSE inbox[conn] = <<>> /\ shutWr[conn]

ReadyToRead(conn) ==
  IF conn = "stdin" THEN echoKind = "select" /\ stdinEof
                    ELSE conn # "none" /\ (inbox[conn] # <<>> \/ shutWr[conn])

Backlog == {c \in EchoClients : echoClient[c] = "backlog"}

Events ==
  {[fd |-> f, conn |-> fdConn[f]] : f \in {g \in EchoFds : ReadyToRead(fdConn[g])}}
    \cup (IF Backlog = {} THEN {} ELSE {[fd |-> ServerFd, conn |-> "none"]})

(* select or epoll_wait; the time-out of select changes nothing.           *)
WaitEvents ==
  /\ echoPc = "wait" /\ Events # {}
  /\ batch' = Events
  /\ echoPc' = "batch"
  /\ UNCHANGED <<clientVars, echoClient, inbox, gotBack, fdConn, readFd, overrun>>

(* The select server goes through the descriptors in ascending order.      *)
NextEvent(e) ==
  /\ echoPc = "batch" /\ e \in batch
  /\ echoKind = "select" => \A other \in batch : e.fd <= other.fd

Kept(e) == batch
Without(e) == batch \ {e}

(* After the last event of a round the server waits again.                 *)
RoundGoesOn(rest) == "batch"
AfterEvent(rest) == IF rest = {} THEN "wait" ELSE "batch"

Handled(e) ==
  /\ batch' = Without(e)
  /\ echoPc' = AfterEvent(batch')

FreeFds == {f \in EchoFds : fdConn[f] = "none"}

(* accept and registration, with the lowest free descriptor.  Without one  *)
(* the select server exits and the others go on.                           *)
AcceptEvent(e) ==
  /\ NextEvent(e) /\ e.fd = ServerFd
  /\ IF FreeFds # {}
     THEN /\ \E c \in Backlog :
               /\ echoClient' = [echoClient EXCEPT ![c] = "accepted"]
               /\ fdConn' = [fdConn EXCEPT ![Min(FreeFds)] = c]
          /\ Handled(e)
     ELSE /\ UNCHANGED <<echoClient, fdConn>>
          /\ IF echoKind = "select"
             THEN echoPc' = "exited" /\ batch' = {}
             ELSE Handled(e)
  /\ UNCHANGED <<clientVars, inbox, gotBack, readFd, overrun>>

(* read and write of one buffer.  After a full buffer the zero written     *)
(* behind it (buff[str_len] = 0) falls on padding, or on str_len.          *)
EchoOnce(c) ==
  LET k     == Min({Len(inbox[c]), EchoBuff})
      chunk == [i \in 1 .. k |-> <<c, inbox[c][i]>>]
  IN  /\ inbox' = [inbox EXCEPT ![c] = SubSeq(@, k + 1, Len(@))]
      /\ \/ gotBack' = [gotBack EXCEPT ![c] = @ \o chunk] /\ UNCHANGED overrun
         \/ k = EchoBuff /\ overrun' = overrun \cup {c} /\ UNCHANGED gotBack

CloseFd(f) == fdConn' = [fdConn EXCEPT ![f] = "none"]

ReadEvent(e) ==
  /\ NextEvent(e) /\ e.fd # ServerFd /\ echoKind # "et" /\ fdConn[e.fd] # "none"
  /\ \/ AtEnd(fdConn[e.fd]) /\ CloseFd(e.fd) /\ UNCHANGED <<inbox, gotBack, overrun>>
     \/ fdConn[e.fd] # "stdin" /\ inbox[fdConn[e.fd]] # <<>> /\ EchoOnce(fdConn[e.fd])
        /\ UNCHANGED fdConn
  /\ Handled(e)
  /\ UNCHANGED <<clientVars, echoClient, readFd>>

(* The inner loop of the ET server; its read waits for the client.         *)
EdgeEvent(e) ==
  /\ NextEvent(e) /\ e.fd # ServerFd /\ echoKind = "et"
  /\ readFd' = e.fd /\ batch' = Without(e)
  /\ echoPc' = "reading"
  /\ UNCHANGED <<clientVars, echoClient, inbox, gotBack, fdConn, overrun>>

ReadMore ==
  /\ echoPc = "reading" /\ inbox[fdConn[readFd]] # <<>>
  /\ EchoOnce(fdConn[readFd])
  /\ UNCHANGED <<clientVars, echoClient, fdConn, echoPc, batch, readFd>>

ReadEnd ==
  /\ echoPc = "reading" /\ AtEnd(fdConn[readFd])
  /\ CloseFd(readFd)
  /\ readFd' = ServerFd
  /\ echoPc' = AfterEvent(batch)
  /\ UNCHANGED <<clientVars, echoClient, inbox, gotBack, batch, overrun>>

EchoServer ==
  \/ WaitEvents \/ ReadMore \/ ReadEnd
  \/ \E e \in batch : AcceptEvent(e) \/ ReadEvent(e) \/ EdgeEvent(e)

EchoNext ==
  \/ EchoServer \/ EndStdin
  \/ \E c \in EchoClients : EchoConnect(c) \/ EchoSend(c) \/ EchoShut(c)

EchoSpec == EchoInit /\ [][EchoNext]_echoVars

(* The server runs when it can; no client has to do anything.              *)
EchoFairness == WF_echoVars(EchoServer)

-----------------------------------------------------------------------------
EchoTypes ==
  /\ echoKind \in {"select", "lt", "et"}
  /\ echoClient \in [EchoClients -> {"away", "backlog", "accepted"}]
  /\ sentUnits \in [EchoClients -> 0 .. MaxEcho] /\ shutWr \in [EchoClients -> BOOLEAN]
  /\ fdConn \in [EchoFds -> EchoClients \cup {"stdin", "none"}]
  /\ echoPc \in {"wait", "batch", "reading", "exited"}
  /\ readFd \in EchoFds \cup {ServerFd} /\ overrun \subseteq EchoClients

(* Every client gets back what it sent, in order, and nothing of others,   *)
(* although descriptors are closed and reused while events of the same     *)
(* batch wait: no event is handled for another connection than the one it  *)
(* was reported for, and its read never waits.                             *)
EchoExact ==
  /\ \A e \in batch :
       e.fd # ServerFd => fdConn[e.fd] = e.conn /\ ReadyToRead(fdConn[e.fd])
  /\ \A c \in EchoClients \ overrun :
       gotBack[c] = [i \in 1 .. sentUnits[c] - Len(inbox[c]) |-> <<c, i>>]

(* The server waits for another client in the middle of a round.           *)
WaitsForOther(c) == echoPc = "reading" /\ fdConn[readFd] # c

(* An accepted client that sends is echoed, whatever the others do, except *)
(* by the ET server, which may wait in read for another client.            *)
EchoServed ==
  \A c \in EchoClients :
    (echoClient[c] = "accepted" /\ inbox[c] # <<>>)
      ~> (inbox[c] = <<>> \/ echoPc = "exited" \/ WaitsForOther(c))
=============================================================================
