----------------------------- MODULE MCPrograms -----------------------------
(***************************************************************************)
(* The programs and parts that are too small for a run of their own, side  *)
(* by side: Init chooses one, and only that one moves.                     *)
(***************************************************************************)
EXTENDS SqlPool, ConnPool, ServerLog, SocketIO, LoadGenerator, EchoServers, ForkServers,
        ThreadServers, StreamPairs

VARIABLE program

programVars ==
  <<program, sqlVars, connVars, logVars, ioVars, loadVars, echoVars, forkVars,
    threadServerVars, streamVars>>

(* Where a part that is not chosen stands still.                           *)
Unchosen ==
  /\ program # "sql_pool" => \A n \in SqlNodes : sqlSock[n]
  /\ program # "conn_pool" => poolPc = "hung"
  /\ program # "log" => logLevel = CHOOSE l \in LogLevels : TRUE
  /\ program # "socket_io" => available = 0
  /\ program # "echo" => echoKind = "lt"
  /\ program # "fork" => forkKind = "echo"
  /\ program # "thread" => threadKind = "chat"
  /\ program # "stream" => pair = "echo"

MCInit ==
  /\ program \in {"sql_pool", "conn_pool", "log", "socket_io", "load", "echo", "fork", "thread",
                  "stream"}
  /\ SqlInit /\ ConnInit /\ LogInit /\ IOInit /\ LoadInit /\ EchoInit /\ ForkInit /\ ThreadInit
  /\ StreamInit /\ Unchosen

notSql    == <<connVars, logVars, ioVars, loadVars, echoVars, forkVars, threadServerVars,
               streamVars>>
notConn   == <<sqlVars, logVars, ioVars, loadVars, echoVars, forkVars, threadServerVars,
               streamVars>>
notLog    == <<sqlVars, connVars, ioVars, loadVars, echoVars, forkVars, threadServerVars,
               streamVars>>
notIO     == <<sqlVars, connVars, logVars, loadVars, echoVars, forkVars, threadServerVars,
               streamVars>>
notLoad   == <<sqlVars, connVars, logVars, ioVars, echoVars, forkVars, threadServerVars,
               streamVars>>
notEcho   == <<sqlVars, connVars, logVars, ioVars, loadVars, forkVars, threadServerVars,
               streamVars>>
notFork   == <<sqlVars, connVars, logVars, ioVars, loadVars, echoVars, threadServerVars,
               streamVars>>
notThread == <<sqlVars, connVars, logVars, ioVars, loadVars, echoVars, forkVars, streamVars>>
notStream == <<sqlVars, connVars, logVars, ioVars, loadVars, echoVars, forkVars,
               threadServerVars>>

MCSql    == program = "sql_pool" /\ SqlNext /\ UNCHANGED <<program, notSql>>
MCConn   == program = "conn_pool" /\ ConnNext /\ UNCHANGED <<program, notConn>>
MCLog    == program = "log" /\ LogNext /\ UNCHANGED <<program, notLog>>
MCIO     == program = "socket_io" /\ IONext /\ UNCHANGED <<program, notIO>>
MCLoad   == program = "load" /\ LoadNext /\ UNCHANGED <<program, notLoad>>
MCEcho   == program = "echo" /\ EchoNext /\ UNCHANGED <<program, notEcho>>
MCFork   == program = "fork" /\ ForkNext /\ UNCHANGED <<program, notFork>>
MCThread == program = "thread" /\ ThreadNext /\ UNCHANGED <<program, notThread>>
MCStream == program = "stream" /\ StreamNext /\ UNCHANGED <<program, notStream>>

MCNext == MCSql \/ MCConn \/ MCLog \/ MCIO \/ MCLoad \/ MCEcho \/ MCFork \/ MCThread
          \/ MCStream

(* The fairness of the parts with a liveness property.                     *)
MCFairness == LogFairness /\ EchoFairness /\ ForkFairness /\ StreamFairness

MCSpec == MCInit /\ [][MCNext]_programVars /\ MCFairness

ProgramTypes ==
  /\ SqlTypes /\ ConnTypes /\ LogTypes /\ IOTypes /\ LoadTypes /\ EchoTypes /\ ForkTypes
  /\ ThreadTypes /\ StreamTypes
=============================================================================
