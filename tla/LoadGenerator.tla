---------------------------- MODULE LoadGenerator ----------------------------
(***************************************************************************)
(* The load generator (simulation_stb_connect_to_g_net.c): main and the    *)
(* thread it creates call simulation_stb_connect_to_g_net; main once, the  *)
(* thread 200 times.  Both add to connect_total without a lock; no call    *)
(* closes its socket.  The server accepts, answers or closes, or does not. *)
(***************************************************************************)
EXTENDS Integers, FiniteSets

CONSTANT LoadCalls      (* calls of the created thread                     *)

ASSUME LoadAssumption == LoadCalls \in Nat

Loaders == {"main", "accept_thread"}

VARIABLES
  loadPc,         (* "idle", "recv", "add", "store"                        *)
  callsLeft, connectTotal,
  totalRead,      (* the value of connect_total a thread is adding to      *)
  loadSockets,    (* history: sockets opened, and never closed             *)
  answers,        (* history: calls that received an answer                *)
  overlapped      (* history: a thread stored over the other's addition    *)

loadVars == <<loadPc, callsLeft, connectTotal, totalRead, loadSockets, answers, overlapped>>

LoadInit ==
  /\ loadPc = [t \in Loaders |-> "idle"]
  /\ callsLeft = [t \in Loaders |-> IF t = "main" THEN 1 ELSE LoadCalls]
  /\ connectTotal = 0 /\ totalRead = [t \in Loaders |-> 0]
  /\ loadSockets = 0 /\ answers = 0 /\ overlapped = FALSE

LoadGoes(t, l) == loadPc' = [loadPc EXCEPT ![t] = l]

(* socket, connect and write; each of the last two may fail.               *)
LoadConnect(t) ==
  /\ loadPc[t] = "idle" /\ callsLeft[t] > 0
  /\ callsLeft' = [callsLeft EXCEPT ![t] = @ - 1]
  /\ loadSockets' = loadSockets + 1
  /\ LoadGoes(t, "recv") \/ LoadGoes(t, "idle")
  /\ UNCHANGED <<connectTotal, totalRead, answers, overlapped>>

(* recv returns an answer, or nothing.                                     *)
NoAnswerToo == {"add"}
AfterNoAnswer == {"idle"}

LoadRecv(t) ==
  /\ loadPc[t] = "recv"
  /\ \/ LoadGoes(t, "add") /\ answers' = answers + 1
     \/ \E l \in AfterNoAnswer : LoadGoes(t, l) /\ UNCHANGED answers
  /\ UNCHANGED <<callsLeft, connectTotal, totalRead, loadSockets, overlapped>>

(* connect_total++ is a load and a store.                                  *)
LoadTotal(t) ==
  /\ loadPc[t] = "add"
  /\ totalRead' = [totalRead EXCEPT ![t] = connectTotal]
  /\ LoadGoes(t, "store")
  /\ UNCHANGED <<callsLeft, connectTotal, loadSockets, answers, overlapped>>

StoreTotal(t) ==
  /\ loadPc[t] = "store"
  /\ overlapped' = (overlapped \/ totalRead[t] # connectTotal)
  /\ connectTotal' = totalRead[t] + 1
  /\ totalRead' = [totalRead EXCEPT ![t] = 0]
  /\ LoadGoes(t, "idle")
  /\ UNCHANGED <<callsLeft, loadSockets, answers>>

Loader(t) == LoadConnect(t) \/ LoadRecv(t) \/ LoadTotal(t) \/ StoreTotal(t)

LoadNext == \E t \in Loaders : Loader(t)

LoadSpec == LoadInit /\ [][LoadNext]_loadVars

-----------------------------------------------------------------------------
LoadTypes ==
  /\ loadPc \in [Loaders -> {"idle", "recv", "add", "store"}]
  /\ callsLeft \in [Loaders -> 0 .. LoadCalls + 1]
  /\ connectTotal \in Nat /\ totalRead \in [Loaders -> Nat]
  /\ loadSockets \in Nat /\ answers \in Nat /\ overlapped \in BOOLEAN

Adding(t) == loadPc[t] \in {"add", "store"}

(* connect_total never counts a call without an answer, and counts every   *)
(* one until the additions of the two threads overlap.                     *)
TotalIsAnswers ==
  LET added == answers - Cardinality({t \in Loaders : Adding(t)})
  IN  connectTotal <= added /\ (~overlapped => connectTotal = added)
=============================================================================
