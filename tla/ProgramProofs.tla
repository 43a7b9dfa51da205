--------------------------- MODULE ProgramProofs ---------------------------
(***************************************************************************)
(* The parts side by side (MCPrograms): every behaviour of the whole is a  *)
(* behaviour of each part, so what is proved of a part on its own is true  *)
(* of the specification the run checks, for every value of the constants.  *)
(***************************************************************************)
EXTENDS MCPrograms, ConnPoolProofs, ServerPartsProofs, SampleProofs

(* Each part takes one of its own steps or stands still.                   *)
AtMostOneMoves ==
  /\ [SqlNext]_sqlVars
  /\ [ConnNext]_connVars
  /\ [LogNext]_logVars
  /\ [IONext]_ioVars
  /\ [LoadNext]_loadVars
  /\ [EchoNext]_echoVars
  /\ [ForkNext]_forkVars
  /\ [ThreadNext]_threadServerVars
  /\ [StreamNext]_streamVars

LEMMA EveryPartStarts ==
  MCInit => /\ SqlInit /\ ConnInit /\ LogInit /\ IOInit /\ LoadInit /\ EchoInit /\ ForkInit
            /\ ThreadInit /\ StreamInit
BY DEF MCInit

LEMMA EveryPartSteps == [MCNext]_programVars => AtMostOneMoves
<1> SUFFICES ASSUME [MCNext]_programVars PROVE AtMostOneMoves
  OBVIOUS
<1> USE DEF AtMostOneMoves
<1>1. CASE MCSql
  BY <1>1 DEF MCSql, notSql
<1>2. CASE MCConn
  BY <1>2 DEF MCConn, notConn
<1>3. CASE MCLog
  BY <1>3 DEF MCLog, notLog
<1>4. CASE MCIO
  BY <1>4 DEF MCIO, notIO
<1>5. CASE MCLoad
  BY <1>5 DEF MCLoad, notLoad
<1>6. CASE MCEcho
  BY <1>6 DEF MCEcho, notEcho
<1>7. CASE MCFork
  BY <1>7 DEF MCFork, notFork
<1>8. CASE MCThread
  BY <1>8 DEF MCThread, notThread
<1>9. CASE MCStream
  BY <1>9 DEF MCStream, notStream
<1>10. CASE UNCHANGED programVars
  BY <1>10 DEF programVars
<1> QED
  BY <1>1, <1>2, <1>3, <1>4, <1>5, <1>6, <1>7, <1>8, <1>9, <1>10 DEF MCNext

LEMMA EveryPartIsItself ==
  MCSpec => /\ SqlSpec /\ ConnSpec /\ LogSpec /\ IOSpec /\ LoadSpec /\ EchoSpec /\ ForkSpec
            /\ ThreadSpec /\ StreamSpec
<1>1. AtMostOneMoves => /\ [SqlNext]_sqlVars
                        /\ [ConnNext]_connVars
                        /\ [LogNext]_logVars
                        /\ [IONext]_ioVars
                        /\ [LoadNext]_loadVars
                        /\ [EchoNext]_echoVars
                        /\ [ForkNext]_forkVars
                        /\ [ThreadNext]_threadServerVars
                        /\ [StreamNext]_streamVars
  BY DEF AtMostOneMoves
<1> QED
  BY EveryPartStarts, EveryPartSteps, <1>1, PTL
     DEF MCSpec, SqlSpec, ConnSpec, LogSpec, IOSpec, LoadSpec, EchoSpec, ForkSpec, ThreadSpec,
         StreamSpec

(* ProgramTypes: whatever is interleaved and fails, the variables of       *)
(* sql_pool.c, connection_pool.cpp, log.c, the byte loops of               *)
(* g_net_update.c, the load generator and the samples keep their types and *)
(* bounds: no count below zero or above its limit, no stream or pipe       *)
(* beyond what it holds, for every number of clients and buffer size.      *)
THEOREM ProgramTypesHold == MCSpec => []ProgramTypes
<1>1. SqlInv => SqlTypes
  BY DEF SqlInv
<1>2. ConnInv => ConnTypes
  BY DEF ConnInv
<1>3. LogInv => LogTypes
  BY DEF LogInv
<1>4. IOInv => IOTypes
  BY DEF IOInv
<1>5. LoadInv => LoadTypes
  BY DEF LoadInv
<1>6. ThreadInv => ThreadTypes
  BY DEF ThreadInv, ThreadPlaces
<1>7. IOSpec => []IOTypes
  BY <1>4, IOStart, IOStep, PTL DEF IOSpec
<1>8. LoadSpec => []LoadTypes
  BY <1>5, LoadStart, LoadStep, PTL DEF LoadSpec
<1>9. /\ SqlTypes /\ ConnTypes /\ LogTypes /\ IOTypes /\ LoadTypes /\ EchoTypes /\ ForkTypes
      /\ ThreadTypes /\ StreamTypes
      => ProgramTypes
  BY DEF ProgramTypes
<1> QED
  BY <1>1, <1>2, <1>3, <1>6, <1>7, <1>8, <1>9, EveryPartIsItself, SqlInvariant, ConnInvariant,
     LogInvariant, EchoTypesHold, ForkTypesHold, ThreadInvariant, StreamTypesHold, PTL

(* What is proved of each part on its own and the run Programs checks of   *)
(* the whole: nodes, connections, log lines, replies, the total, echoes,   *)
(* zombies, the chat table and HTTP answers are as they should be in every *)
(* state of every choice of the part that moves.                           *)
THEOREM ProgramsAreSafe ==
  MCSpec => [](/\ SqlNodeUse /\ ConnLedger /\ LogLines /\ LogFaultsNeedCause /\ ReplyInOrder
               /\ TotalIsAnswers /\ EchoExact /\ ZombieLedger /\ ChatTableExact
               /\ HttpAnswersOwn)
BY EveryPartIsItself, NodesSharedByReinit, ConnectionsCounted, LinesNeverRepeat,
   LogMisusedOnlyLate, ReplyLeavesInOrder, TotalNeverExceedsAnswers, EchoIsExact,
   ZombiesAccounted, ChatTableIsExact, HttpClientsGetTheirs, PTL
=============================================================================
