--------------------------- MODULE ConnPoolProofs ---------------------------
(***************************************************************************)
(* The ledger of the MySQL connection pool for every maxSize and every     *)
(* finite set of connection objects: curSize is exact on every path, and a *)
(* caller is turned away only when maxSize connections are lent.           *)
(***************************************************************************)
EXTENDS ConnPool, DistinctSequences

(* The pool is not used before it is ready; after that nothing is left in  *)
(* the list of a destroyed one.                                            *)
ConnInv == ConnTypes /\ ConnLedger

USE ConnAssumption DEF ConnAssumption
-----------------------------------------------------------------------------
(* One connection more, or one less, is lent.                              *)
LEMMA LentCount ==
  ASSUME NEW S \in SUBSET Conns, NEW c \in Conns
  PROVE  /\ Cardinality(S) \in Nat
         /\ c \notin S => Cardinality(S \cup {c}) = Cardinality(S) + 1
         /\ c \in S => Cardinality(S \ {c}) = Cardinality(S) - 1
<1>1. IsFiniteSet(S)
  BY FS_Subset
<1> QED
  BY <1>1, FS_AddElement, FS_RemoveElement, FS_CardinalityType

-----------------------------------------------------------------------------
LEMMA ConnStart == ConnInit => ConnInv
<1> SUFFICES ASSUME ConnInit
             PROVE  ConnInv
  OBVIOUS
<1>1. /\ connList \in Seq(Conns) /\ IsInjective(connList) /\ Len(connList) <= ConnMax
      /\ poolPc \in {"ready", "hung"}
  <2>1. CASE poolPc = "hung"
    BY <2>1, EmptyDistinct DEF ConnInit
  <2>2. CASE poolPc = "ready"
    <3>1. PICK k \in 0 .. ConnMax \div 2 : connList \in [1 .. k -> Conns] /\ IsInjective(connList)
      BY <2>2 DEF ConnInit
    <3>2. ConnMax \div 2 <= ConnMax /\ ConnMax \div 2 \in Nat
      OBVIOUS
    <3>3. connList \in Seq(Conns) /\ Len(connList) = k
      BY <3>1, <3>2
    <3> QED
      BY <2>2, <3>1, <3>2, <3>3
  <2> QED
    BY <2>1, <2>2 DEF ConnInit
<1>2. lent = {} /\ closedConns = {} /\ curSize = Len(connList) /\ getResult = "none"
  BY DEF ConnInit
<1>3. curSize \in Nat /\ Cardinality(lent) = 0
  BY <1>1, <1>2, FS_EmptySet
<1> QED
  BY <1>1, <1>2, <1>3 DEF ConnInv, ConnTypes, ConnLedger

(* One step per operation: the list, what is lent, and curSize change      *)
(* together.                                                               *)
LEMMA ConnStep == ConnInv /\ [ConnNext]_connVars => ConnInv'
<1> SUFFICES ASSUME ConnInv, [ConnNext]_connVars
             PROVE  ConnInv'
  OBVIOUS
<1> USE DEF ConnInv
<1>0. Cardinality(lent) \in Nat /\ Len(connList) \in Nat
  <2>1. IsFiniteSet(lent)
    BY FS_Subset DEF ConnTypes
  <2> QED
    BY <2>1, FS_CardinalityType DEF ConnTypes
<1>1. CASE GetIdle
  <2> DEFINE c == Head(connList)
  <2>1. /\ poolPc = "ready" /\ connList # <<>> /\ connList' = Tail(connList)
        /\ lent' = lent \cup {c} /\ getResult' = "lent"
        /\ UNCHANGED <<poolPc, curSize, closedConns>>
    BY <1>1 DEF GetIdle, Lend
  <2>2. /\ c \in Range(connList) /\ c \in Conns
        /\ connList' \in Seq(Conns) /\ Len(connList') = Len(connList) - 1
        /\ IsInjective(connList') /\ Range(connList') = Range(connList) \ {c}
    BY <2>1, TailOfDistinct DEF ConnTypes, ConnLedger
  <2>3. c \notin lent /\ Cardinality(lent') = Cardinality(lent) + 1
    BY <2>1, <2>2, LentCount DEF ConnTypes, ConnLedger
  <2> HIDE DEF c
  <2>4. ConnTypes'
    BY <2>1, <2>2 DEF ConnTypes
  <2> QED
    BY <1>0, <2>1, <2>2, <2>3, <2>4 DEF ConnLedger
<1>2. CASE GetReplaced
  <2> DEFINE h == Head(connList)
  <2>1. /\ poolPc = "ready" /\ connList # <<>> /\ connList' = Tail(connList)
        /\ closedConns' = closedConns \ {h} /\ UNCHANGED poolPc
    BY <1>2 DEF GetReplaced
  <2>2. /\ h \in Range(connList) /\ h \in Conns
        /\ connList' \in Seq(Conns) /\ Len(connList') = Len(connList) - 1
        /\ IsInjective(connList') /\ Range(connList') = Range(connList) \ {h}
    BY <2>1, TailOfDistinct DEF ConnTypes, ConnLedger
  <2>3. h \notin lent
    BY <2>2 DEF ConnLedger
  <2>4. ASSUME NEW c \in Unused \cup {h}, Lend(c), UNCHANGED curSize
        PROVE  ConnTypes' /\ ConnLedger'
    <3>1. /\ c \in Conns /\ c \notin lent /\ c \notin Range(connList')
          /\ lent' = lent \cup {c} /\ getResult' = "lent"
      BY <2>2, <2>3, <2>4 DEF Unused, Lend
    <3>2. Cardinality(lent') = Cardinality(lent) + 1
      BY <3>1, LentCount DEF ConnTypes
    <3> HIDE DEF h
    <3>3. ConnTypes'
      BY <2>1, <2>2, <2>4, <3>1 DEF ConnTypes
    <3> QED
      BY <1>0, <2>1, <2>2, <2>4, <3>1, <3>2, <3>3 DEF ConnLedger
  <2>5. CASE curSize' = CountLess /\ getResult' = "failed" /\ UNCHANGED lent
    <3> HIDE DEF h
    <3>1. curSize = Len(connList) + Cardinality(lent) /\ Len(connList) # 0
      BY <2>1, <2>2 DEF ConnLedger, ConnTypes
    <3>2. curSize' = Len(connList') + Cardinality(lent') /\ curSize' \in Nat /\ curSize' <= ConnMax
      BY <1>0, <2>2, <2>5, <3>1 DEF CountLess, ConnLedger, ConnTypes
    <3>3. ConnTypes'
      BY <2>1, <2>2, <2>5, <3>2 DEF ConnTypes
    <3>4. Range(connList') \cap lent' = {}
      BY <2>2, <2>5 DEF ConnLedger
    <3> QED
      BY <2>2, <3>2, <3>3, <3>4 DEF ConnLedger
  <2> QED
    BY <1>2, <2>4, <2>5 DEF GetReplaced
<1>3. CASE GetNew
  <2>1. poolPc = "ready" /\ connList = <<>> /\ curSize < ConnMax
        /\ UNCHANGED <<poolPc, connList, closedConns>>
    BY <1>3 DEF GetNew
  <2>2. ASSUME NEW c \in Unused, Lend(c), curSize' = curSize + 1
        PROVE  ConnTypes' /\ ConnLedger'
    <3>1. /\ c \in Conns /\ c \notin lent /\ c \notin Range(connList)
          /\ lent' = lent \cup {c} /\ getResult' = "lent"
      BY <2>2 DEF Unused, Lend
    <3>2. Cardinality(lent') = Cardinality(lent) + 1
      BY <3>1, LentCount DEF ConnTypes
    <3>3. ConnTypes'
      BY <2>1, <2>2, <3>1 DEF ConnTypes
    <3> QED
      BY <1>0, <2>1, <2>2, <3>1, <3>2, <3>3 DEF ConnLedger, ConnTypes
  <2>3. CASE getResult' = "failed" /\ UNCHANGED <<lent, curSize>>
    BY <2>1, <2>3 DEF ConnTypes, ConnLedger
  <2> QED
    BY <1>3, <2>2, <2>3 DEF GetNew
<1>4. CASE GetFull
  BY <1>4 DEF GetFull, ConnTypes, ConnLedger
<1>5. CASE DestoryConnPool
  <2>1. /\ poolPc' = "destroyed" /\ connList' = <<>> /\ curSize' = 0
        /\ closedConns' \subseteq Conns /\ UNCHANGED <<lent, getResult>>
    BY <1>5 DEF DestoryConnPool, ConnTypes
  <2> QED
    BY <2>1, EmptyDistinct DEF ConnTypes, ConnLedger
<1>6. ASSUME NEW c \in Conns, ReleaseConnection(c)
      PROVE  ConnInv'
  <2>1. /\ poolPc = "ready" /\ c \in lent /\ connList' = Append(connList, c)
        /\ lent' = lent \ {c} /\ UNCHANGED <<poolPc, curSize, closedConns, getResult>>
    BY <1>6 DEF ReleaseConnection, Returned
  <2>2. c \notin Range(connList)
    BY <2>1 DEF ConnLedger
  <2>3. /\ connList' \in Seq(Conns) /\ Len(connList') = Len(connList) + 1
        /\ IsInjective(connList') /\ Range(connList') = Range(connList) \cup {c}
    BY <2>1, <2>2, AppendToDistinct DEF ConnTypes, ConnLedger
  <2>4. Cardinality(lent') = Cardinality(lent) - 1
    BY <2>1, LentCount DEF ConnTypes
  <2>5. ConnTypes'
    BY <2>1, <2>3 DEF ConnTypes
  <2> QED
    BY <1>0, <2>1, <2>3, <2>4, <2>5 DEF ConnLedger
<1>7. ASSUME NEW c \in Conns, ServerCloses(c)
      PROVE  ConnInv'
  BY <1>7 DEF ServerCloses, ConnTypes, ConnLedger
<1>8. CASE UNCHANGED connVars
  BY <1>8 DEF connVars, ConnTypes, ConnLedger
<1> QED
  BY <1>1, <1>2, <1>3, <1>4, <1>5, <1>6, <1>7, <1>8 DEF ConnNext

LEMMA ConnInvariant == ConnSpec => []ConnInv
BY ConnStart, ConnStep, PTL DEF ConnSpec

-----------------------------------------------------------------------------
(* Whatever fails, is closed by the server or is released in any order,    *)
(* curSize counts the idle and the lent connections, never exceeds         *)
(* maxSize, and no connection is both idle and lent or idle twice.         *)
THEOREM ConnectionsCounted == ConnSpec => []ConnLedger
BY ConnInvariant, PTL DEF ConnInv

(* GetConnection gives up for lack of room only while maxSize connections  *)
(* are lent: no failure uses up a place for good.                          *)
THEOREM NoPlaceIsLost == ConnSpec => FullMeansLent
<1>1. ConnInv /\ GetFull => Cardinality(lent) = ConnMax
  <2> SUFFICES ASSUME ConnInv, GetFull
               PROVE  Cardinality(lent) = ConnMax
    OBVIOUS
  <2>1. IsFiniteSet(lent) /\ Cardinality(lent) \in Nat
    BY FS_Subset, FS_CardinalityType DEF ConnInv, ConnTypes
  <2> QED
    BY <2>1, EmptyDistinct DEF ConnInv, ConnTypes, ConnLedger, GetFull
<1> QED
  BY <1>1, ConnInvariant, PTL DEF ConnSpec, FullMeansLent
=============================================================================
