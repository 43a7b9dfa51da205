----------------------------- MODULE ServerLog -----------------------------
(***************************************************************************)
(* The log of the epoll server (log.c): every thread writes lines under    *)
(* log_mutex; a line is skipped when it equals the last one written or is  *)
(* below the configured level; the file is started anew every              *)
(* MAX_LOG_LINE_NUM calls.  The handler of SIGTERM logs too, in whatever   *)
(* thread the signal interrupts, and sets exit_flag; main then closes the  *)
(* log before it joins the workers.                                        *)
(*                                                                         *)
(* It starts when log_init has written LOG START and the level is set;     *)
(* before that only main runs.  A line is its text, without time stamp.    *)
(***************************************************************************)
EXTENDS Integers, Sequences

CONSTANTS
  LogWorkers,     (* the threads that log besides main                     *)
  LogLevels,      (* levels of lines and of the configuration file         *)
  LogTexts,       (* texts of lines, besides LOG START and the like        *)
  MaxLogLines,    (* MAX_LOG_LINE_NUM                                      *)
  MaxLogFails     (* bound: failed calls of fopen when the file is rotated *)

ASSUME LogAssumption ==
  /\ LogWorkers \cap {"main", "nobody"} = {} /\ LogLevels \subseteq 0 .. 3
  /\ MaxLogLines \in Nat \ {0, 1} /\ MaxLogFails \in Nat

LogThreads == LogWorkers \cup {"main"}

Fatal == 3
Indispensable == 4

VARIABLES
  logMode,        (* main: "run", "closing", "fclose", "closed", "ended"   *)
  logHandle,      (* log_file_handle: "open", "closed" or "null"           *)
  logLevel, logCount, lastLog,
  logFile,        (* the lines in the file                                 *)
  logPc, logLine, (* per thread: inside log_string or not, and its line    *)
  logHolder,      (* who holds log_mutex                                   *)
  sigPc, sigThread,            (* the handler and the thread it runs in    *)
  logFails, logUndefined       (* history; use of a closed or NULL file    *)

logVars == <<logMode, logHandle, logLevel, logCount, lastLog, logFile, logPc, logLine,
             logHolder, sigPc, sigThread, logFails, logUndefined>>

NoLine == [level |-> Indispensable, str |-> ""]

LogInit ==
  /\ logMode = "run" /\ logHandle = "open" /\ logLevel \in LogLevels
  /\ logCount = 1 /\ lastLog = "LOG START" /\ logFile = <<"LOG START">>
  /\ logPc = [t \in LogThreads |-> "out"] /\ logLine = [t \in LogThreads |-> NoLine]
  /\ logHolder = "nobody" /\ sigPc = "none" /\ sigThread = "nobody"
  /\ logFails = 0 /\ logUndefined = FALSE

Interrupted(t) == sigThread = t /\ sigPc \in {"lock", "write"}
Runs(t) == ~logUndefined /\ ~Interrupted(t)

-----------------------------------------------------------------------------
(* log_string.                                                             *)

LockedAnyway(t) == logHolder' = t
Locked(t) == logHolder = "nobody" /\ logHolder' = t

AnyLine(line) == TRUE
NewLine(line) == line.str # lastLog

Needed(line) == NewLine(line) /\ (logLevel <= line.level \/ line.level = Indispensable)

NeverFull == FALSE
Full == logCount + 1 >= MaxLogLines

(* The file the line goes to: a new one every MaxLogLines calls.           *)
Rotate(handle) ==
  \/ ~Full /\ handle = logHandle /\ UNCHANGED logFails
  \/ Full /\ handle = "open" /\ UNCHANGED logFails
  \/ Full /\ handle = "null" /\ logFails < MaxLogFails /\ logFails' = logFails + 1

(* fclose and fflush of a closed file, fclose of none, a line for none.    *)
Misused(handle, line) ==
  \/ logHandle = "closed"
  \/ logHandle = "null" /\ Full
  \/ handle = "null" /\ Needed(line)

NoUnlock == logHolder' = logHolder
Unlock == logHolder' = "nobody"

(* Everything log_string does under the mutex, and the unlock.             *)
WriteLine(line) ==
  \E handle \in {"open", "closed", "null"} :
    /\ Rotate(handle)
    /\ logHandle' = handle
    /\ logUndefined' = Misused(handle, line)
    /\ logCount' = IF Full THEN 0 ELSE logCount + 1
    /\ logFile' = (IF Full THEN <<>> ELSE logFile) \o (IF Needed(line) THEN <<line.str>> ELSE <<>>)
    /\ lastLog' = IF Needed(line) THEN line.str ELSE lastLog
    /\ Unlock

Calls(t, line) ==
  /\ Runs(t) /\ logPc[t] = "out" /\ Locked(t)
  /\ logPc' = [logPc EXCEPT ![t] = "in"] /\ logLine' = [logLine EXCEPT ![t] = line]
  /\ UNCHANGED <<logMode, logHandle, logLevel, logCount, lastLog, logFile, sigPc, sigThread,
                 logFails, logUndefined>>

LogString(t) ==
  /\ logMode # "ended" /\ (t = "main" => logMode = "run")
  /\ \E line \in [level : LogLevels, str : LogTexts] : Calls(t, line)

LogWrite(t) ==
  /\ Runs(t) /\ logPc[t] = "in"
  /\ WriteLine(logLine[t])
  /\ logPc' = [logPc EXCEPT ![t] = "out"] /\ logLine' = [logLine EXCEPT ![t] = NoLine]
  /\ logMode' = IF t = "main" /\ logMode = "closing" THEN "fclose" ELSE logMode
  /\ UNCHANGED <<logLevel, sigPc, sigThread>>

-----------------------------------------------------------------------------
(* signal_handler_reboot, in the thread that SIGTERM interrupts.           *)

SigDeliver(t) ==
  /\ ~logUndefined /\ sigPc = "none" /\ logMode = "run"
  /\ sigPc' = "lock" /\ sigThread' = t
  /\ UNCHANGED <<logMode, logHandle, logLevel, logCount, lastLog, logFile, logPc, logLine,
                 logHolder, logFails, logUndefined>>

(* When its own thread holds log_mutex this never happens.                 *)
SigLock ==
  /\ ~logUndefined /\ sigPc = "lock" /\ Locked(sigThread)
  /\ sigPc' = "write"
  /\ UNCHANGED <<logMode, logHandle, logLevel, logCount, lastLog, logFile, logPc, logLine,
                 sigThread, logFails, logUndefined>>

SigWrite ==
  /\ ~logUndefined /\ sigPc = "write"
  /\ WriteLine([level |-> Fatal, str |-> "SIGTERM"])
  /\ sigPc' = "exit_flag"
  /\ UNCHANGED <<logMode, logLevel, logPc, logLine, sigThread>>

-----------------------------------------------------------------------------
(* main: log_close, then thpool_destroy joins the workers.                 *)

LogEnd ==
  /\ Runs("main") /\ logMode = "run" /\ logPc["main"] = "out" /\ sigPc = "exit_flag"
  /\ logMode' = IF logHandle = "null" THEN "closed" ELSE "closing"
  /\ UNCHANGED <<logHandle, logLevel, logCount, lastLog, logFile, logPc, logLine, logHolder,
                 sigPc, sigThread, logFails, logUndefined>>

LogEndLine ==
  /\ logMode = "closing"
  /\ Calls("main", [level |-> Indispensable, str |-> "LOG END"])

(* fclose without the mutex; log_file_handle keeps its value.  A worker    *)
(* that is inside log_string, or comes later, uses a closed file.          *)
LogClose ==
  /\ Runs("main") /\ logMode = "fclose"
  /\ logMode' = "closed" /\ logHandle' = "closed"
  /\ logUndefined' = (logHandle = "null")
  /\ UNCHANGED <<logLevel, logCount, lastLog, logFile, logPc, logLine, logHolder, sigPc,
                 sigThread, logFails>>

JoinWorkers ==
  /\ Runs("main") /\ logMode = "closed" /\ \A t \in LogWorkers : logPc[t] = "out"
  /\ logMode' = "ended"
  /\ UNCHANGED <<logHandle, logLevel, logCount, lastLog, logFile, logPc, logLine, logHolder,
                 sigPc, sigThread, logFails, logUndefined>>

LogNext ==
  \/ SigLock \/ SigWrite \/ LogEnd \/ LogEndLine \/ LogClose \/ JoinWorkers
  \/ \E t \in LogThreads : LogString(t) \/ LogWrite(t) \/ SigDeliver(t)

LogSpec == LogInit /\ [][LogNext]_logVars

(* Threads that can run do; the mutex is free again and again, and who     *)
(* waits for it gets it.                                                   *)
LogFairness ==
  /\ SF_logVars(SigLock) /\ WF_logVars(SigWrite)
  /\ \A t \in LogThreads : WF_logVars(LogWrite(t))

-----------------------------------------------------------------------------
LogTypes ==
  /\ logMode \in {"run", "closing", "fclose", "closed", "ended"}
  /\ logHandle \in {"open", "closed", "null"} /\ logLevel \in LogLevels
  /\ logCount \in 0 .. MaxLogLines - 1
  /\ logPc \in [LogThreads -> {"out", "in"}]
  /\ logHolder \in LogThreads \cup {"nobody"}
  /\ sigPc \in {"none", "lock", "write", "exit_flag"}
  /\ sigThread \in LogThreads \cup {"nobody"}

(* "only log the string in case it is different then the last one"         *)
(* (log.c:76): whichever threads write, no line follows its equal, and the *)
(* file never has more than MAX_LOG_LINE_NUM lines.                        *)
LogLines ==
  /\ \A i \in 1 .. Len(logFile) - 1 : logFile[i] # logFile[i + 1]
  /\ Len(logFile) <= MaxLogLines

(* One thread at a time is inside log_string, its signal handler counted;  *)
(* the file is misused only by a worker after main has closed it           *)
(* (g_net_update.c:610, 621), or when it could not be opened again.        *)
LogFaultsNeedCause ==
  /\ \A t \in LogThreads : logPc[t] = "in" => logHolder = t
  /\ sigPc = "write" => logHolder = sigThread /\ logPc[sigThread] = "out"
  /\ logUndefined => logFails > 0 \/ logMode \in {"closed", "ended"}

(* The handler finds log_mutex held by the thread it runs in.              *)
SelfDeadlock == sigPc = "lock" /\ logHolder = sigThread

(* SIGTERM sets exit_flag, whatever the other threads log meanwhile, unless *)
(* it interrupted a thread inside log_string, which then waits for itself. *)
SigtermHandled ==
  sigPc = "lock" ~> (sigPc = "exit_flag" \/ SelfDeadlock \/ logUndefined)
=============================================================================
