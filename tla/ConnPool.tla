------------------------------ MODULE ConnPool ------------------------------
(***************************************************************************)
(* The MySQL connection pool (connection_pool.cpp): a list of idle         *)
(* connections, a count of all connections, and one lock over every        *)
(* operation, so that an operation is one step.  The database server may   *)
(* close any connection and may refuse a new one.                          *)
(*                                                                         *)
(* The constructor never initialises the lock: whatever its memory holds   *)
(* is taken for a lock, a free one or one that InitConnection waits for.   *)
(***************************************************************************)
EXTENDS Integers, Sequences, FiniteSets, Functions

CONSTANTS
  Conns,          (* connection objects driver->connect can return         *)
  ConnMax         (* maxSize                                               *)

ASSUME ConnAssumption == IsFiniteSet(Conns) /\ ConnMax \in Nat

VARIABLES
  poolPc,         (* "ready", "hung" on its lock, or "destroyed"           *)
  connList, curSize,
  lent,           (* connections that GetConnection returned, not released *)
  closedConns,    (* isClosed()                                            *)
  getResult       (* what the last GetConnection returned                  *)

connVars == <<poolPc, connList, curSize, lent, closedConns, getResult>>

Unused == Conns \ (Range(connList) \cup lent)

(* The constructor and InitConnection: any of the maxSize / 2 connections  *)
(* may have failed.                                                        *)
ConnInit ==
  /\ \/ /\ poolPc = "ready"
        /\ \E k \in 0 .. ConnMax \div 2 : connList \in {s \in [1 .. k -> Conns] : IsInjective(s)}
     \/ poolPc = "hung" /\ connList = <<>>
  /\ curSize = Len(connList)
  /\ lent = {} /\ closedConns = {} /\ getResult = "none"

(* CreateConnection succeeded with c, which the caller gets.               *)
Lend(c) ==
  /\ lent' = lent \cup {c}
  /\ getResult' = "lent"

(* The front of the list is still connected.                               *)
GetIdle ==
  /\ poolPc = "ready" /\ connList # <<>> /\ Head(connList) \notin closedConns
  /\ connList' = Tail(connList)
  /\ Lend(Head(connList))
  /\ UNCHANGED <<poolPc, curSize, closedConns>>

(* It is not: it is deleted and another one is made, or there is one less. *)
CountKept == curSize
CountLess == curSize - 1

GetReplaced ==
  /\ poolPc = "ready" /\ connList # <<>> /\ Head(connList) \in closedConns
  /\ connList' = Tail(connList)
  /\ closedConns' = closedConns \ {Head(connList)}
  /\ \/ \E c \in Unused \cup {Head(connList)} : Lend(c) /\ UNCHANGED curSize
     \/ curSize' = CountLess /\ getResult' = "failed" /\ UNCHANGED lent
  /\ UNCHANGED poolPc

GetNew ==
  /\ poolPc = "ready" /\ connList = <<>> /\ curSize < ConnMax
  /\ \/ \E c \in Unused : Lend(c) /\ curSize' = curSize + 1
     \/ getResult' = "failed" /\ UNCHANGED <<lent, curSize>>
  /\ UNCHANGED <<poolPc, connList, closedConns>>

GetFull ==
  /\ poolPc = "ready" /\ connList = <<>> /\ curSize >= ConnMax
  /\ getResult' = "full"
  /\ UNCHANGED <<poolPc, connList, curSize, lent, closedConns>>

(* ReleaseConnection; every borrower gives a connection back once.         *)
StillLent(c) == lent
Returned(c) == lent \ {c}

ReleaseConnection(c) ==
  /\ poolPc = "ready" /\ c \in lent
  /\ connList' = Append(connList, c)
  /\ lent' = Returned(c)
  /\ UNCHANGED <<poolPc, curSize, closedConns, getResult>>

ServerCloses(c) ==
  /\ poolPc = "ready" /\ c \in Range(connList) \cup lent
  /\ closedConns' = closedConns \cup {c}
  /\ UNCHANGED <<poolPc, connList, curSize, lent, getResult>>

(* The destructor: idle connections are closed, lent ones are forgotten.   *)
DestoryConnPool ==
  /\ poolPc = "ready"
  /\ poolPc' = "destroyed"
  /\ connList' = <<>> /\ curSize' = 0
  /\ closedConns' = closedConns \cap lent
  /\ UNCHANGED <<lent, getResult>>

ConnNext ==
  \/ GetIdle \/ GetReplaced \/ GetNew \/ GetFull \/ DestoryConnPool
  \/ \E c \in Conns : ReleaseConnection(c) \/ ServerCloses(c)

ConnSpec == ConnInit /\ [][ConnNext]_connVars

-----------------------------------------------------------------------------
ConnTypes ==
  /\ poolPc \in {"ready", "hung", "destroyed"}
  /\ connList \in Seq(Conns) /\ curSize \in Nat
  /\ lent \subseteq Conns /\ closedConns \subseteq Conns
  /\ getResult \in {"none", "lent", "failed", "full"}

(* curSize is raised and lowered on different paths: it counts exactly the *)
(* idle and the lent connections and never exceeds maxSize; a connection   *)
(* is idle once or lent once, never both.                                  *)
ConnLedger ==
  /\ IsInjective(connList) /\ Range(connList) \cap lent = {}
  /\ poolPc = "ready" => curSize = Len(connList) + Cardinality(lent)
  /\ curSize <= ConnMax

(* A caller is turned away for lack of room only while maxSize connections *)
(* are lent: failed and replaced connections never use up places for good. *)
FullMeansLent == [][GetFull => Cardinality(lent) = ConnMax]_connVars
=============================================================================
