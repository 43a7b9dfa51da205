--------------------------- MODULE ThreadServers ---------------------------
(***************************************************************************)
(* The servers with a detached thread per client: chat_pthread_server.c    *)
(* ("chat"), which sends what a client says to every client in             *)
(* socks_client, and http_server.c ("http"), which answers one request.    *)
(* Both pass the new thread a pointer to main's local sock_client, which   *)
(* main overwrites at its next accept.                                     *)
(*                                                                         *)
(* A critical section on the chat server's mutex is one step.  CLIENT_MAX  *)
(* is not reached.  The names in a request fit the buffers of the handler; *)
(* that a name has an extension is not assumed, nor that a client sends    *)
(* anything before it leaves, nor that there is a free descriptor for the  *)
(* HTTP server.                                                            *)
(***************************************************************************)
EXTENDS Integers, Sequences, FiniteSets, SequencesExt

CONSTANTS
  ThreadClients,  (* a client connects once                                *)
  ThreadFds,      (* descriptors that accept and dup can return            *)
  Requests,       (* what HTTP clients ask                                 *)
  MaxSays         (* bound: messages a chat client sends                   *)

(* Not HTTP or not GET; a file that can be opened and one that cannot; and *)
(* a name without an extension (as in GET / HTTP/1.1), whatever the method.*)
RequestKinds == {"bad", "file", "missing", "plain"}

ASSUME ThreadAssumption ==
  /\ IsFiniteSet(ThreadClients) /\ IsFiniteSet(ThreadFds) /\ ThreadFds \subseteq Nat
  /\ Requests \subseteq RequestKinds /\ MaxSays \in Nat
  /\ "none" \notin ThreadClients /\ "opened" \notin ThreadClients

VARIABLES
  threadKind,
  peerState,      (* per client: "away", "backlog", "connected", "left"    *)
  request,        (* per client: unread request or message, "none" without *)
  saysLeft,
  asked,          (* history: per client, what it asked                    *)
  fdPeer,         (* the client at the other end of each descriptor, or    *)
                  (* "opened" for a file                                   *)
  mainPc, sockClient, newest,  (* main: step, its local, and for whom      *)
  chatTable,      (* socks_client[0 .. count_client - 1]                   *)
  handlerPc,      (* per client: its thread's step                         *)
  handlerFd, writeFd,          (* ... its sock_client, and the dup of it   *)
  reqLine,        (* ... its req_line, then its method and file_name       *)
  mixed,          (* threads that used strtok while another one did        *)
  lastWrite,      (* clients that got a write after they had left          *)
  answered,       (* history: per client, what it was sent                 *)
  joined, removed, midLeft, overtaken,         (* history                  *)
  killed          (* SIGPIPE, or a NULL pointer used                       *)

tableVars == <<chatTable, joined, removed, midLeft>>
localVars == <<handlerFd, writeFd, reqLine, mixed>>
mainVars  == <<mainPc, sockClient, newest>>
peers     == <<threadKind, peerState, request, saysLeft, asked>>
threadServerVars ==
  <<peers, fdPeer, mainVars, tableVars, handlerPc, localVars, lastWrite, answered, overtaken,
    killed>>

NoFd == -1

(* The HTTP server may inherit open files, with the lowest numbers, so     *)
(* that fewer descriptors are left to it.                                  *)
ThreadInit ==
  /\ threadKind \in {"chat", "http"}
  /\ peerState = [c \in ThreadClients |-> "away"] /\ request = [c \in ThreadClients |-> "none"]
  /\ saysLeft = [c \in ThreadClients |-> IF threadKind = "chat" THEN MaxSays ELSE 1]
  /\ asked = [c \in ThreadClients |-> "none"]
  /\ \E n \in {0} \cup ThreadFds :
       /\ threadKind = "chat" => n = 0
       /\ fdPeer = [f \in ThreadFds |-> IF f < n THEN "opened" ELSE "none"]
  /\ mainPc = "accept" /\ sockClient = NoFd /\ newest = "none"
  /\ chatTable = <<>> /\ joined = 0 /\ removed = 0 /\ midLeft = FALSE
  /\ handlerPc = [c \in ThreadClients |-> "none"]
  /\ handlerFd = [c \in ThreadClients |-> NoFd] /\ writeFd = [c \in ThreadClients |-> NoFd]
  /\ reqLine = [c \in ThreadClients |-> "none"] /\ mixed = {}
  /\ lastWrite = {} /\ answered = [c \in ThreadClients |-> {}]
  /\ overtaken = FALSE /\ killed = FALSE

FreeFd == {f \in ThreadFds : fdPeer[f] = "none"}
LowestFd == CHOOSE f \in FreeFd : \A g \in FreeFd : f <= g

At(c, l) == ~killed /\ handlerPc[c] = l
GoesTo(c, l) == handlerPc' = [handlerPc EXCEPT ![c] = l]
Closing(fds) == fdPeer' = [f \in ThreadFds |-> IF f \in fds THEN "none" ELSE fdPeer[f]]

-----------------------------------------------------------------------------
(* The clients, as long as the server runs.                                *)

PeerConnects(c) ==
  /\ ~killed /\ peerState[c] = "away"
  /\ peerState' = [peerState EXCEPT ![c] = "backlog"]
  /\ UNCHANGED <<threadKind, request, saysLeft, asked, fdPeer, mainVars, tableVars, handlerPc,
                 localVars, lastWrite, answered, overtaken, killed>>

PeerSays(c) ==
  /\ ~killed /\ peerState[c] = "connected" /\ request[c] = "none" /\ saysLeft[c] > 0
  /\ \E r \in (IF threadKind = "chat" THEN {"message"} ELSE Requests) :
       /\ request' = [request EXCEPT ![c] = r]
       /\ asked' = [asked EXCEPT ![c] = r]
  /\ saysLeft' = [saysLeft EXCEPT ![c] = @ - 1]
  /\ UNCHANGED <<threadKind, peerState, fdPeer, mainVars, tableVars, handlerPc, localVars,
                 lastWrite, answered, overtaken, killed>>

(* A client closes its socket, before or after it has said something.      *)
PeerLeaves(c) ==
  /\ ~killed /\ peerState[c] = "connected"
  /\ peerState' = [peerState EXCEPT ![c] = "left"]
  /\ UNCHANGED <<threadKind, request, saysLeft, asked, fdPeer, mainVars, tableVars, handlerPc,
                 localVars, lastWrite, answered, overtaken, killed>>

-----------------------------------------------------------------------------
(* main.                                                                   *)

ThreadAccept(c) ==
  /\ ~killed /\ mainPc = "accept" /\ peerState[c] = "backlog" /\ FreeFd # {}
  /\ peerState' = [peerState EXCEPT ![c] = "connected"]
  /\ fdPeer' = [fdPeer EXCEPT ![LowestFd] = c]
  /\ sockClient' = LowestFd /\ newest' = c
  /\ mainPc' = IF threadKind = "chat" THEN "register" ELSE "create"
  /\ UNCHANGED <<threadKind, request, saysLeft, asked, tableVars, handlerPc, localVars, lastWrite,
                 answered, overtaken, killed>>

(* accept has no descriptor left and returns -1, which main passes on like *)
(* any other: the thread created with it crashes in fgets(NULL).           *)
HttpAcceptFails ==
  /\ ~killed /\ threadKind = "http" /\ mainPc = "accept" /\ FreeFd = {}
  /\ \E c \in ThreadClients : peerState[c] = "backlog"
  /\ killed' = TRUE
  /\ UNCHANGED <<peers, fdPeer, mainVars, tableVars, handlerPc, localVars, lastWrite, answered,
                 overtaken>>

Register ==
  /\ ~killed /\ mainPc = "register"
  /\ chatTable' = Append(chatTable, sockClient) /\ joined' = joined + 1
  /\ mainPc' = "create"
  /\ UNCHANGED <<peers, fdPeer, sockClient, newest, removed, midLeft, handlerPc, localVars,
                 lastWrite, answered, overtaken, killed>>

CreateHandler ==
  /\ ~killed /\ mainPc = "create"
  /\ GoesTo(newest, "start")
  /\ mainPc' = "accept"
  /\ UNCHANGED <<peers, fdPeer, sockClient, newest, tableVars, localVars, lastWrite, answered,
                 overtaken, killed>>

-----------------------------------------------------------------------------
(* A thread, named after the client it was created for.                    *)

(* sock_client = *(int * )arg, which may be a later client's by now.       *)
ReadArgument(c) ==
  /\ At(c, "start")
  /\ handlerFd' = [handlerFd EXCEPT ![c] = sockClient]
  /\ overtaken' = (overtaken \/ newest # c)
  /\ GoesTo(c, IF threadKind = "chat" THEN "loop" ELSE "open")
  /\ UNCHANGED <<peers, fdPeer, mainVars, tableVars, writeFd, reqLine, mixed, lastWrite,
                 answered, killed>>

(* The client at the other end of the descriptor that the thread reads.    *)
PeerOf(c) == fdPeer[handlerFd[c]]

(* send_msg, under the mutex: the second write to a client that has left   *)
(* raises SIGPIPE; a write to a closed descriptor does nothing.            *)
Audience == {fdPeer[f] : f \in Range(chatTable)} \ {"none"}
Gone == {d \in Audience : peerState[d] = "left"}

SendMsg(c) ==
  /\ threadKind = "chat" /\ At(c, "loop") /\ PeerOf(c) # "none"
  /\ request[PeerOf(c)] = "message"
  /\ request' = [request EXCEPT ![PeerOf(c)] = "none"]
  /\ answered' = [d \in ThreadClients |->
                    IF d \in Audience THEN answered[d] \cup {PeerOf(c)} ELSE answered[d]]
  /\ lastWrite' = lastWrite \cup Gone
  /\ killed' = (Gone \cap lastWrite # {})
  /\ UNCHANGED <<threadKind, peerState, saysLeft, asked, fdPeer, mainVars, tableVars, handlerPc,
                 localVars, overtaken>>

(* End of file or an error: the table is searched for the descriptor and   *)
(* shifted down from the entry AFTER it (the loop increments i first), so  *)
(* the entry stays and the next one goes, unless it is the last.           *)
ShiftNothing(table, fd) == table
ShiftTable(table, fd) ==
  LET places == {i \in 1 .. Len(table) - 1 : table[i] = fd}
  IN  IF places # {} THEN RemoveAt(table, Min(places) + 1) ELSE Front(table)

RemoveClient(c) ==
  /\ threadKind = "chat" /\ At(c, "loop")
  /\ PeerOf(c) # "none" => peerState[PeerOf(c)] = "left" /\ request[PeerOf(c)] = "none"
  /\ chatTable' = ShiftTable(chatTable, handlerFd[c])
  /\ removed' = removed + 1
  /\ midLeft' = (midLeft \/ handlerFd[c] # Last(chatTable))
  /\ GoesTo(c, "close")
  /\ UNCHANGED <<peers, fdPeer, mainVars, joined, localVars, lastWrite, answered, overtaken,
                 killed>>

CloseClient(c) ==
  /\ At(c, "close")
  /\ Closing({handlerFd[c]})
  /\ handlerFd' = [handlerFd EXCEPT ![c] = NoFd]
  /\ GoesTo(c, "gone")
  /\ UNCHANGED <<peers, mainVars, tableVars, writeFd, reqLine, mixed, lastWrite, answered,
                 overtaken, killed>>

(* fdopen, dup, fdopen; on a descriptor that another thread has closed the *)
(* first returns NULL and fgets crashes.  When dup has no descriptor left, *)
(* or cannot be opened for writing, write_fp is NULL.                      *)
OpenStreams(c) ==
  /\ At(c, "open")
  /\ IF PeerOf(c) = "none"
     THEN killed' = TRUE /\ UNCHANGED <<fdPeer, writeFd, handlerPc>>
     ELSE /\ IF FreeFd = {}
             THEN UNCHANGED <<fdPeer, writeFd>>
             ELSE /\ fdPeer' = [fdPeer EXCEPT ![LowestFd] = PeerOf(c)]
                  /\ writeFd' = [writeFd EXCEPT ![c] =
                                    IF PeerOf(c) = "opened" THEN NoFd ELSE LowestFd]
          /\ GoesTo(c, "request")
          /\ UNCHANGED killed
  /\ UNCHANGED <<peers, mainVars, tableVars, handlerFd, reqLine, mixed, lastWrite, answered,
                 overtaken>>

(* What fgets leaves in req_line: the request, or anything when the client *)
(* has left without one (NULL is not looked at) or is not at the other end.*)
LineRead(c) ==
  IF PeerOf(c) \notin ThreadClients THEN RequestKinds
  ELSE IF request[PeerOf(c)] # "none" THEN {request[PeerOf(c)]}
  ELSE IF peerState[PeerOf(c)] = "left" THEN RequestKinds ELSE {}

(* The threads between their first strtok and their last, which keep their *)
(* place in one static variable.                                           *)
Parsing == {d \in ThreadClients : handlerPc[d] = "parse"}

(* The line is read and searched for "HTTP/".                              *)
ReadLine(c) ==
  /\ At(c, "request")
  /\ \E line \in LineRead(c) :
       /\ reqLine' = [reqLine EXCEPT ![c] = line]
       /\ \/ line = "bad" /\ GoesTo(c, "reject") /\ UNCHANGED mixed
          \/ /\ GoesTo(c, "parse")
             /\ mixed' = mixed \cup IF Parsing = {} THEN {} ELSE Parsing \cup {c}
  /\ request' = [d \in ThreadClients |-> IF d = PeerOf(c) THEN "none" ELSE request[d]]
  /\ UNCHANGED <<threadKind, peerState, saysLeft, asked, fdPeer, mainVars, tableVars, handlerFd,
                 writeFd, lastWrite, answered, overtaken, killed>>

(* The method is the thread's own; the name is what the static variable    *)
(* yields: another thread's, or none.                                      *)
Parsed(c) ==
  IF c \notin mixed THEN {reqLine[c]}
  ELSE {line \in RequestKinds : /\ reqLine[c] = "bad" => line \in {"bad", "plain"}
                                /\ reqLine[c] \in {"file", "missing"} => line # "bad"}

(* strtok twice and content_type, which copies from NULL when the name has *)
(* no extension; then the method is looked at, and read_fp closed for GET. *)
Parse(c) ==
  /\ At(c, "parse")
  /\ \E line \in Parsed(c) :
       \/ /\ line = "plain"
          /\ killed' = TRUE
          /\ UNCHANGED <<fdPeer, handlerPc, handlerFd, reqLine>>
       \/ /\ line = "bad"
          /\ reqLine' = [reqLine EXCEPT ![c] = line]
          /\ GoesTo(c, "reject")
          /\ UNCHANGED <<fdPeer, handlerFd, killed>>
       \/ /\ line \in {"file", "missing"}
          /\ reqLine' = [reqLine EXCEPT ![c] = line]
          /\ Closing({handlerFd[c]})
          /\ handlerFd' = [handlerFd EXCEPT ![c] = NoFd]
          /\ GoesTo(c, "serve")
          /\ UNCHANGED killed
  /\ UNCHANGED <<peers, mainVars, tableVars, writeFd, mixed, lastWrite, answered, overtaken>>

(* send_error or send_data would write to write_fp, which is NULL.         *)
WriteToNull(c) ==
  /\ At(c, "reject") \/ At(c, "serve")
  /\ writeFd[c] = NoFd
  /\ killed' = TRUE
  /\ UNCHANGED <<peers, fdPeer, mainVars, tableVars, handlerPc, localVars, lastWrite, answered,
                 overtaken>>

(* The writes reach the client behind write_fp; when it has left they may  *)
(* raise SIGPIPE.                                                          *)
Writes(c, line) ==
  LET reader == fdPeer[writeFd[c]] IN
  /\ answered' = [d \in ThreadClients |->
                    IF d = reader THEN answered[d] \cup {line} ELSE answered[d]]
  /\ killed' \in {FALSE} \cup {d = reader /\ peerState[d] = "left" : d \in ThreadClients}

(* send_error; read_fp is closed, and write_fp next.                       *)
Reject(c) ==
  /\ At(c, "reject") /\ writeFd[c] # NoFd
  /\ Writes(c, "bad")
  /\ Closing({handlerFd[c]})
  /\ handlerFd' = [handlerFd EXCEPT ![c] = NoFd]
  /\ GoesTo(c, "finish")
  /\ UNCHANGED <<peers, mainVars, tableVars, writeFd, reqLine, mixed, lastWrite, overtaken>>

(* send_data: a file that cannot be opened, for want of a descriptor too,  *)
(* is an error after which write_fp stays open; one that is sent is never  *)
(* closed.                                                                 *)
Serve(c) ==
  /\ At(c, "serve") /\ writeFd[c] # NoFd
  /\ \/ /\ reqLine[c] = "missing" \/ FreeFd = {}
        /\ Writes(c, "missing")
        /\ GoesTo(c, "gone")
        /\ UNCHANGED fdPeer
     \/ /\ reqLine[c] = "file" /\ FreeFd # {}
        /\ fdPeer' = [fdPeer EXCEPT ![LowestFd] = "opened"]
        /\ Writes(c, "file")
        /\ GoesTo(c, "finish")
  /\ UNCHANGED <<peers, mainVars, tableVars, localVars, lastWrite, overtaken>>

(* write_fp is closed, except after a missing file.                        *)
NotClosed(c) == {}
WriteEnd(c) == {writeFd[c]}

Finish(c) ==
  /\ At(c, "finish")
  /\ Closing(WriteEnd(c))
  /\ writeFd' = [writeFd EXCEPT ![c] = NoFd]
  /\ GoesTo(c, "gone")
  /\ UNCHANGED <<peers, mainVars, tableVars, handlerFd, reqLine, mixed, lastWrite, answered,
                 overtaken, killed>>

Handler(c) ==
  \/ ReadArgument(c) \/ SendMsg(c) \/ RemoveClient(c) \/ CloseClient(c)
  \/ OpenStreams(c) \/ ReadLine(c) \/ Parse(c) \/ WriteToNull(c) \/ Reject(c)
  \/ Serve(c) \/ Finish(c)

ThreadNext ==
  \/ HttpAcceptFails \/ Register \/ CreateHandler
  \/ \E c \in ThreadClients :
       PeerConnects(c) \/ PeerSays(c) \/ PeerLeaves(c) \/ ThreadAccept(c) \/ Handler(c)

ThreadSpec == ThreadInit /\ [][ThreadNext]_threadServerVars

-----------------------------------------------------------------------------
ThreadTypes ==
  /\ threadKind \in {"chat", "http"}
  /\ peerState \in [ThreadClients -> {"away", "backlog", "connected", "left"}]
  /\ request \in [ThreadClients -> RequestKinds \cup {"none", "message"}]
  /\ asked \in [ThreadClients -> RequestKinds \cup {"none", "message"}]
  /\ fdPeer \in [ThreadFds -> ThreadClients \cup {"none", "opened"}]
  /\ mainPc \in {"accept", "register", "create"} /\ sockClient \in ThreadFds \cup {NoFd}
  /\ chatTable \in Seq(ThreadFds)
  /\ handlerPc \in [ThreadClients -> {"none", "start", "loop", "close", "open", "request",
                                      "parse", "reject", "serve", "finish", "gone"}]
  /\ handlerFd \in [ThreadClients -> ThreadFds \cup {NoFd}]
  /\ writeFd \in [ThreadClients -> ThreadFds \cup {NoFd}]
  /\ reqLine \in [ThreadClients -> RequestKinds \cup {"none"}] /\ mixed \subseteq ThreadClients
  /\ killed \in BOOLEAN

(* The clients in the chat: registered and not yet removed.                *)
Present ==
  {c \in ThreadClients :
     \/ handlerPc[c] \in {"start", "loop"}
     \/ c = newest /\ mainPc = "create"}

(* count_client never loses count.  As long as every thread got its own    *)
(* client and only the last entry of the table was removed, the table is   *)
(* the descriptors of the clients in the chat, each once, so that nobody   *)
(* is written to twice, after leaving it or not at all.                    *)
ChatTableExact ==
  threadKind = "chat" =>
    /\ Len(chatTable) = joined - removed
    /\ ~overtaken /\ ~midLeft =>
         /\ IsInjective(chatTable)
         /\ {fdPeer[f] : f \in Range(chatTable)} = Present

(* What the HTTP server can die of: accept without a descriptor (each      *)
(* missing and each served file keeps one for ever), a name without an     *)
(* extension, an early leaver's line, a name mixed up by strtok, dup       *)
(* without a descriptor, and SIGPIPE.                                      *)
HttpCrashCause ==
  \/ mainPc = "accept" /\ FreeFd = {}
  \/ \E c \in ThreadClients :
       \/ /\ handlerPc[c] = "parse"
          /\ asked[c] = "plain" \/ peerState[c] = "left" \/ c \in mixed
       \/ handlerPc[c] \in {"reject", "serve"} /\ writeFd[c] = NoFd
       \/ handlerPc[c] \in {"finish", "gone"} /\ peerState[c] = "left"

(* Unless a thread was overtaken, the HTTP server dies of nothing else; a  *)
(* client is answered once, by what it asked unless strtok was shared (or  *)
(* fopen had no descriptor for its file); and its connection is closed     *)
(* when the thread is gone, except after a missing file: send_data then    *)
(* returns without fclose (http_server.c:122) and the client waits on.     *)
HttpAnswersOwn ==
  threadKind = "http" /\ ~overtaken =>
    /\ killed => HttpCrashCause
    /\ \A c \in ThreadClients :
         /\ handlerPc[c] \notin {"finish", "gone"} => answered[c] = {}
         /\ handlerPc[c] = "gone" =>
              /\ Cardinality(answered[c]) = 1
              /\ asked[c] # "none" /\ c \notin mixed =>
                   \/ answered[c] = {asked[c]}
                   \/ asked[c] = "file" /\ answered[c] = {"missing"}
              /\ (\E f \in ThreadFds : fdPeer[f] = c) <=> "missing" \in answered[c]

(* "remove disconnencted client" (chat_pthread_server.c:107): no entry of  *)
(* the table belongs to a client whose thread has closed it.               *)
LeaverRemoved ==
  threadKind = "chat" /\ ~overtaken => \A f \in Range(chatTable) : fdPeer[f] # "none"
=============================================================================
