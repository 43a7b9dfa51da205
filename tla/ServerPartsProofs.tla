------------------------- MODULE ServerPartsProofs --------------------------
(***************************************************************************)
(* What holds of the smaller parts of the epoll server for every value of  *)
(* their constants: the SQL pool, the log, the byte loops and the load     *)
(* generator.                                                              *)
(***************************************************************************)
EXTENDS SqlPool, ServerLog, SocketIO, LoadGenerator, FiniteSetTheorems, SequenceTheorems, TLAPS

-----------------------------------------------------------------------------
(* The SQL pool for any number of threads, nodes, failures and times that  *)
(* create_connect initialises a mutex: what can put two threads on a node, *)
(* and what can make one ping a node without a handle.                     *)
Using == {"reconnect", "connect", "ping", "query"}

(* A thread on a node has not looked past the last one; connects only      *)
(* after it initialised the mutex; and until the pool is destroyed a node  *)
(* whose mutex was never initialised again has a handle when it says so.   *)
SqlHealth ==
  /\ sqlState \in [SqlNodes -> {"conn", "disconn"}] /\ sqlSock \in [SqlNodes -> BOOLEAN]
  /\ destroyIndex \in -1 .. PoolNumber - 1
  /\ \A u \in SqlUsers :
       /\ userPc[u] \in Using => loopIndex[u] < PoolNumber
       /\ userPc[u] = "connect" => reinits[Index(u)] >= 1
       /\ userPc[u] = "ping" /\ reinits[Index(u)] = 0 /\ destroyIndex = -1
            => sqlSock[Index(u)]
  /\ destroyIndex = -1 =>
       \A n \in SqlNodes : reinits[n] = 0 /\ sqlState[n] = "conn" => sqlSock[n]

SqlInv == SqlTypes /\ SqlHealth /\ NodeSharing /\ NullPingNeedsSharing

USE SqlAssumption DEF SqlAssumption

LEMMA IndexIsNode ==
  ASSUME SqlTypes, NEW u \in SqlUsers
  PROVE  Index(u) \in SqlNodes
<1>1. startIndex[u] + loopIndex[u] \in Nat
  BY DEF SqlTypes, SqlNodes
<1> QED
  BY <1>1 DEF Index, SqlNodes

(* One thread more, or one less, is on a node.                             *)
LEMMA UserCount ==
  ASSUME NEW S \in SUBSET SqlUsers, NEW u \in SqlUsers
  PROVE  /\ Cardinality(S) \in Nat
         /\ u \notin S => Cardinality(S \cup {u}) = Cardinality(S) + 1
         /\ u \in S => Cardinality(S \ {u}) = Cardinality(S) - 1
<1>1. IsFiniteSet(S)
  BY FS_Subset
<1> QED
  BY <1>1, FS_AddElement, FS_RemoveElement, FS_CardinalityType

(* The thread u makes a step: nobody else's place or node changes.         *)
OnlyMoves(u) ==
  /\ userPc' \in [SqlUsers -> {"idle", "scan"} \cup Using]
  /\ \A w \in SqlUsers \ {u} : userPc'[w] = userPc[w] /\ Index(w)' = Index(w)

LEMMA StaysOn ==
  ASSUME SqlTypes, NEW u \in SqlUsers, OnlyMoves(u),
         userPc[u] \in Using <=> userPc'[u] \in Using,
         userPc[u] \in Using => Index(u)' = Index(u)
  PROVE  \A n \in SqlNodes : UsersOf(n)' = UsersOf(n)
BY DEF OnlyMoves, UsersOf, Using

LEMMA Enters ==
  ASSUME SqlTypes, NEW u \in SqlUsers, OnlyMoves(u),
         userPc[u] \notin Using, userPc'[u] \in Using, Index(u)' = Index(u)
  PROVE  \A n \in SqlNodes :
           /\ u \notin UsersOf(n)
           /\ UsersOf(n)' = IF n = Index(u) THEN UsersOf(n) \cup {u} ELSE UsersOf(n)
BY DEF OnlyMoves, UsersOf, Using

LEMMA Leaves ==
  ASSUME SqlTypes, NEW u \in SqlUsers, OnlyMoves(u),
         userPc[u] \in Using, userPc'[u] \notin Using
  PROVE  \A n \in SqlNodes :
           UsersOf(n)' = IF n = Index(u) THEN UsersOf(n) \ {u} ELSE UsersOf(n)
BY DEF OnlyMoves, UsersOf, Using

-----------------------------------------------------------------------------
LEMMA SqlStart == SqlInit => SqlInv
<1> SUFFICES ASSUME SqlInit
             PROVE  SqlInv
  OBVIOUS
<1>1. SqlTypes
  BY DEF SqlInit, SqlTypes, SqlNodes
<1>2. SqlHealth
  <2>1. \A n \in SqlNodes : sqlSock[n] \in BOOLEAN /\ (sqlState[n] = "conn" => sqlSock[n])
    BY Zenon DEF SqlInit
  <2>2. /\ sqlState \in [SqlNodes -> {"conn", "disconn"}]
        /\ sqlSock = [n \in SqlNodes |-> sqlSock[n]]
        /\ destroyIndex \in -1 .. PoolNumber - 1
    BY DEF SqlInit
  <2>3. sqlSock \in [SqlNodes -> BOOLEAN]
    BY <2>1, <2>2, Zenon
  <2>4. \A u \in SqlUsers : userPc[u] \notin Using
    BY DEF SqlInit, Using
  <2> QED
    BY <2>1, <2>2, <2>3, <2>4, Zenon DEF SqlHealth, Using
<1>3. NodeSharing
  <2> SUFFICES ASSUME NEW n \in SqlNodes
               PROVE  Cardinality(UsersOf(n)) <= (IF sqlLock[n] THEN 1 ELSE 0) + reinits[n]
    BY DEF NodeSharing
  <2>1. UsersOf(n) = {}
    BY DEF UsersOf, SqlInit
  <2>2. Cardinality(UsersOf(n)) = 0
    BY <2>1, FS_EmptySet
  <2>3. reinits[n] = 0
    BY DEF SqlInit
  <2> QED
    BY <2>2, <2>3
<1> QED
  BY <1>1, <1>2, <1>3 DEF SqlInv, NullPingNeedsSharing, SqlInit

(* What a thread is allowed to add to its node's ledger: nothing while it  *)
(* stays on it, the mutex when it enters, and it takes one off when it     *)
(* leaves and unlocks.                                                     *)
LEMMA SharingKept ==
  ASSUME SqlTypes, SqlTypes', NodeSharing, NEW u \in SqlUsers,
         \A n \in SqlNodes :
           \/ /\ UsersOf(n)' = UsersOf(n)
              /\ sqlLock'[n] = sqlLock[n] /\ reinits'[n] = reinits[n]
           \/ /\ UsersOf(n)' = UsersOf(n)
              /\ ~sqlLock'[n] /\ reinits'[n] = reinits[n] + 1
           \/ /\ u \notin UsersOf(n) /\ UsersOf(n)' = UsersOf(n) \cup {u}
              /\ ~sqlLock[n] /\ sqlLock'[n] /\ reinits'[n] = reinits[n]
           \/ /\ u \in UsersOf(n) /\ UsersOf(n)' = UsersOf(n) \ {u}
              /\ ~sqlLock'[n] /\ reinits'[n] = reinits[n]
  PROVE  NodeSharing'
<1> SUFFICES ASSUME NEW n \in SqlNodes
             PROVE  Cardinality(UsersOf(n)') <= (IF sqlLock'[n] THEN 1 ELSE 0) + reinits'[n]
  BY DEF NodeSharing
<1> DEFINE S == UsersOf(n)
           T == UsersOf(n)'
<1>1. S \in SUBSET SqlUsers
  BY DEF UsersOf
<1>2. Cardinality(S) <= (IF sqlLock[n] THEN 1 ELSE 0) + reinits[n]
  BY DEF NodeSharing
<1>3. \/ /\ T = S /\ sqlLock'[n] = sqlLock[n] /\ reinits'[n] = reinits[n]
      \/ /\ T = S /\ ~sqlLock'[n] /\ reinits'[n] = reinits[n] + 1
      \/ /\ u \notin S /\ T = S \cup {u} /\ ~sqlLock[n] /\ sqlLock'[n] /\ reinits'[n] = reinits[n]
      \/ /\ u \in S /\ T = S \ {u} /\ ~sqlLock'[n] /\ reinits'[n] = reinits[n]
  OBVIOUS
<1>4. sqlLock[n] \in BOOLEAN /\ reinits[n] \in Nat
  BY DEF SqlTypes
<1> HIDE DEF S, T
<1>5. Cardinality(T) <= (IF sqlLock'[n] THEN 1 ELSE 0) + reinits'[n]
  <2> DEFINE before == IF sqlLock[n] THEN 1 ELSE 0
             after  == IF sqlLock'[n] THEN 1 ELSE 0
  <2>1. \/ T = S /\ after = before /\ reinits'[n] = reinits[n]
        \/ T = S /\ after = 0 /\ reinits'[n] = reinits[n] + 1
        \/ u \notin S /\ T = S \cup {u} /\ before = 0 /\ after = 1 /\ reinits'[n] = reinits[n]
        \/ u \in S /\ T = S \ {u} /\ after = 0 /\ reinits'[n] = reinits[n]
    BY <1>3
  <2>2. before \in 0 .. 1
    OBVIOUS
  <2>3. Cardinality(S) <= before + reinits[n]
    BY <1>2
  <2> HIDE DEF before, after
  <2>4. Cardinality(T) <= after + reinits'[n]
    <3>1. /\ Cardinality(S) \in Nat /\ reinits[n] \in Nat
          /\ u \notin S => Cardinality(S \cup {u}) = Cardinality(S) + 1
          /\ u \in S => Cardinality(S \ {u}) = Cardinality(S) - 1
      BY <1>1, <1>4, UserCount
    <3>2. CASE T = S /\ after = before /\ reinits'[n] = reinits[n]
      BY <2>3, <3>2
    <3>3. CASE T = S /\ after = 0 /\ reinits'[n] = reinits[n] + 1
      BY <2>2, <2>3, <3>1, <3>3
    <3>4. CASE u \notin S /\ T = S \cup {u} /\ before = 0 /\ after = 1 /\ reinits'[n] = reinits[n]
      BY <2>3, <3>1, <3>4
    <3>5. CASE u \in S /\ T = S \ {u} /\ after = 0 /\ reinits'[n] = reinits[n]
      BY <2>2, <2>3, <3>1, <3>5
    <3> QED
      BY <2>1, <3>2, <3>3, <3>4, <3>5
  <2> QED
    BY <2>4, Zenon DEF after
<1> QED
  BY <1>5 DEF T

(* One step per action of a thread.                                        *)
LEMMA SqlStep == SqlInv /\ [SqlNext]_sqlVars => SqlInv'
<1> SUFFICES ASSUME SqlInv, [SqlNext]_sqlVars
             PROVE  SqlInv'
  OBVIOUS
<1> USE DEF SqlInv
<1>1. ASSUME NEW u \in SqlUsers, StartScan(u)
      PROVE  SqlInv'
  <2>1. SqlTypes'
    BY <1>1 DEF StartScan, UserAt, UserGoes, SqlTypes
  <2>2. OnlyMoves(u) /\ userPc[u] \notin Using /\ userPc'[u] \notin Using
    BY <1>1 DEF StartScan, UserAt, UserGoes, SqlTypes, OnlyMoves, Index, Using
  <2>3. \A n \in SqlNodes : UsersOf(n)' = UsersOf(n)
    BY <2>2, StaysOn
  <2>4. NodeSharing'
    BY <1>1, <2>3 DEF NodeSharing, StartScan
  <2>5. SqlHealth' /\ NullPingNeedsSharing'
    BY <1>1, <2>2 DEF StartScan, SqlHealth, OnlyMoves, UserAt, NullPingNeedsSharing, Using
  <2> QED
    BY <2>1, <2>4, <2>5
<1>2. ASSUME NEW u \in SqlUsers, TryLock(u)
      PROVE  SqlInv'
  <2>0. Index(u) \in SqlNodes
    BY IndexIsNode
  <2>1. CASE Taken(u)
    <3>1. /\ loopIndex' = [loopIndex EXCEPT ![u] = @ + 1] /\ loopIndex[u] < PoolNumber
          /\ UNCHANGED <<sqlLock, userPc, sqlState, sqlSock, startIndex, destroyIndex, reinits,
                         sqlFails, sqlCrashed>>
          /\ userPc[u] = "scan" /\ ~sqlCrashed
      BY <1>2, <2>1 DEF TryLock, UserAt
    <3>2. SqlTypes'
      BY <3>1 DEF SqlTypes
    <3>3. OnlyMoves(u) /\ userPc[u] \notin Using /\ userPc'[u] \notin Using
      BY <3>1 DEF SqlTypes, OnlyMoves, Index, Using
    <3>4. \A n \in SqlNodes : UsersOf(n)' = UsersOf(n)
      BY <3>3, StaysOn
    <3>5. NodeSharing'
      BY <3>1, <3>4 DEF NodeSharing
    <3>6. SqlHealth' /\ NullPingNeedsSharing'
      BY <3>1, <3>3 DEF SqlHealth, OnlyMoves, NullPingNeedsSharing, Using, SqlTypes
    <3> QED
      BY <3>2, <3>5, <3>6
  <2>2. CASE ~Taken(u)
    <3>1. /\ ~sqlLock[Index(u)] /\ sqlLock' = [sqlLock EXCEPT ![Index(u)] = TRUE]
          /\ userPc' = [userPc EXCEPT
                          ![u] = IF sqlState[Index(u)] = "disconn" THEN "reconnect" ELSE "ping"]
          /\ UNCHANGED <<loopIndex, sqlState, sqlSock, startIndex, destroyIndex, reinits,
                         sqlFails, sqlCrashed>>
          /\ userPc[u] = "scan" /\ ~sqlCrashed /\ loopIndex[u] < PoolNumber
      BY <1>2, <2>2 DEF TryLock, UserAt, UserGoes, Taken
    <3>2. SqlTypes'
      BY <2>0, <3>1 DEF SqlTypes
    <3>3. /\ OnlyMoves(u) /\ userPc[u] \notin Using /\ userPc'[u] \in Using
          /\ Index(u)' = Index(u)
      BY <3>1 DEF SqlTypes, OnlyMoves, Index, Using
    <3>4. \A n \in SqlNodes :
            /\ u \notin UsersOf(n)
            /\ UsersOf(n)' = IF n = Index(u) THEN UsersOf(n) \cup {u} ELSE UsersOf(n)
      BY <3>3, Enters
    <3>5. NodeSharing'
      BY <2>0, <3>1, <3>2, <3>4, SharingKept DEF SqlTypes
    <3>6. SqlHealth'
      <4>1. /\ userPc'[u] # "connect"
            /\ userPc'[u] = "ping" => sqlState[Index(u)] = "conn"
        BY <2>0, <3>1 DEF SqlTypes, SqlHealth
      <4> QED
        BY <2>0, <3>1, <3>3, <4>1 DEF SqlHealth, OnlyMoves
    <3> QED
      BY <3>1, <3>2, <3>5, <3>6 DEF NullPingNeedsSharing
  <2> QED
    BY <2>1, <2>2
<1>3. ASSUME NEW u \in SqlUsers, NoConnect(u)
      PROVE  SqlInv'
  <2>1. SqlTypes'
    BY <1>3 DEF NoConnect, UserReturns, UserAt, UserGoes, SqlTypes, SqlNodes
  <2>2. OnlyMoves(u) /\ userPc[u] \notin Using /\ userPc'[u] \notin Using
    BY <1>3 DEF NoConnect, UserReturns, UserAt, UserGoes, SqlTypes, OnlyMoves, Index, Using
  <2>3. \A n \in SqlNodes : UsersOf(n)' = UsersOf(n)
    BY <2>2, StaysOn
  <2>4. NodeSharing'
    BY <1>3, <2>3 DEF NodeSharing, NoConnect
  <2>5. SqlHealth' /\ NullPingNeedsSharing'
    <3>1. \A w \in SqlUsers \ {u} : loopIndex'[w] = loopIndex[w]
      BY <1>3 DEF NoConnect, UserReturns, SqlTypes
    <3> QED
      BY <1>3, <2>2, <3>1 DEF NoConnect, SqlHealth, OnlyMoves, UserAt, NullPingNeedsSharing, Using
  <2> QED
    BY <2>1, <2>4, <2>5
<1>4. ASSUME NEW u \in SqlUsers, userPc[u] \in Using, ~sqlCrashed,
             GiveBack(u), UNCHANGED <<startIndex, destroyIndex, reinits, sqlCrashed>>,
             \/ UNCHANGED sqlSock /\ sqlState' \in {sqlState, [sqlState EXCEPT ![Index(u)] = "disconn"]}
             \/ /\ sqlSock' = [sqlSock EXCEPT ![Index(u)] = FALSE]
                /\ sqlState' = [sqlState EXCEPT ![Index(u)] = "disconn"]
                /\ userPc[u] = "connect"
      PROVE  SqlInv'
  <2>0. Index(u) \in SqlNodes
    BY IndexIsNode
  <2>1. /\ sqlLock' = [sqlLock EXCEPT ![Index(u)] = FALSE]
        /\ loopIndex' = [loopIndex EXCEPT ![u] = @ + 1] /\ loopIndex[u] < PoolNumber
        /\ userPc' = [userPc EXCEPT ![u] = "scan"]
    BY <1>4 DEF GiveBack, ReleaseSock, UserGoes, SqlHealth
  <2>2. SqlTypes'
    BY <1>4, <2>0, <2>1 DEF SqlTypes
  <2>3. OnlyMoves(u) /\ userPc'[u] \notin Using
    BY <1>4, <2>1 DEF SqlTypes, OnlyMoves, Index, Using
  <2>4. \A n \in SqlNodes :
          UsersOf(n)' = IF n = Index(u) THEN UsersOf(n) \ {u} ELSE UsersOf(n)
    BY <1>4, <2>3, Leaves
  <2>5. u \in UsersOf(Index(u))
    BY <1>4 DEF UsersOf, Using
  <2>6. NodeSharing'
    BY <1>4, <2>0, <2>1, <2>2, <2>4, <2>5, SharingKept DEF SqlTypes
  <2>7. SqlHealth'
    <3>1. \A w \in SqlUsers \ {u} : loopIndex'[w] = loopIndex[w] /\ Index(w) \in SqlNodes
      BY <2>1, IndexIsNode DEF SqlTypes
    <3>2. /\ sqlState' \in [SqlNodes -> {"conn", "disconn"}]
          /\ sqlSock' \in [SqlNodes -> BOOLEAN]
      BY <1>4, <2>0 DEF SqlHealth
    <3>3. \A n \in SqlNodes :
            /\ sqlState'[n] = "conn" => sqlState[n] = "conn"
            /\ sqlSock'[n] = sqlSock[n] \/ (n = Index(u) /\ reinits[n] >= 1)
      BY <1>4, <2>0 DEF SqlHealth
    <3>4. \A n \in SqlNodes : reinits'[n] = reinits[n] /\ reinits[n] \in Nat
      BY <1>4 DEF SqlTypes
    <3>5. ASSUME destroyIndex' = -1, NEW n \in SqlNodes, reinits'[n] = 0, sqlState'[n] = "conn"
          PROVE  sqlSock'[n]
      BY <1>4, <3>3, <3>4, <3>5 DEF SqlHealth
    <3>6. ASSUME NEW w \in SqlUsers
          PROVE  /\ userPc'[w] \in Using => loopIndex'[w] < PoolNumber
                 /\ userPc'[w] = "connect" => reinits'[Index(w)'] >= 1
                 /\ userPc'[w] = "ping" /\ reinits'[Index(w)'] = 0 /\ destroyIndex' = -1
                      => sqlSock'[Index(w)']
      BY <1>4, <2>3, <3>1, <3>3, <3>4, <3>6 DEF SqlHealth, OnlyMoves, Using
    <3> QED
      BY <1>4, <3>2, <3>5, <3>6 DEF SqlHealth
  <2> QED
    BY <1>4, <2>2, <2>6, <2>7 DEF NullPingNeedsSharing
<1>5. ASSUME NEW u \in SqlUsers, Reinit(u)
      PROVE  SqlInv'
  <2>0. Index(u) \in SqlNodes
    BY IndexIsNode
  <2>1. CASE GiveBack(u) /\ UNCHANGED reinits
    BY <1>4, <1>5, <2>1 DEF Reinit, UserAt, Using
  <2>2. CASE /\ sqlLock' = InitMutex(Index(u))
             /\ reinits' = [reinits EXCEPT ![Index(u)] = @ + 1]
             /\ UserGoes(u, "connect")
             /\ UNCHANGED <<loopIndex, sqlFails>>
    <3>1. /\ UNCHANGED <<sqlState, sqlSock, startIndex, loopIndex, destroyIndex, sqlCrashed>>
          /\ userPc[u] = "reconnect" /\ ~sqlCrashed
          /\ userPc' = [userPc EXCEPT ![u] = "connect"]
          /\ sqlLock' = [sqlLock EXCEPT ![Index(u)] = FALSE]
          /\ reinits' = [reinits EXCEPT ![Index(u)] = @ + 1]
      BY <1>5, <2>2 DEF Reinit, UserAt, UserGoes, InitMutex
    <3>2. SqlTypes'
      BY <2>0, <3>1 DEF SqlTypes
    <3>3. /\ OnlyMoves(u) /\ userPc[u] \in Using /\ userPc'[u] \in Using
          /\ Index(u)' = Index(u) /\ userPc'[u] = "connect"
      BY <3>1 DEF SqlTypes, OnlyMoves, Index, Using
    <3>4. \A n \in SqlNodes : UsersOf(n)' = UsersOf(n)
      BY <3>3, StaysOn
    <3>5. NodeSharing'
      BY <2>0, <3>1, <3>2, <3>4, SharingKept DEF SqlTypes
    <3>6. \A n \in SqlNodes : /\ reinits[n] \in Nat
                              /\ reinits'[n] = IF n = Index(u) THEN reinits[n] + 1 ELSE reinits[n]
      BY <2>0, <3>1 DEF SqlTypes
    <3>7. \A w \in SqlUsers : Index(w) \in SqlNodes
      BY IndexIsNode
    <3>8. SqlHealth'
      BY <3>1, <3>3, <3>6, <3>7 DEF SqlHealth, OnlyMoves, Using
    <3> QED
      BY <3>1, <3>2, <3>5, <3>8 DEF NullPingNeedsSharing
  <2> QED
    BY <1>5, <2>1, <2>2 DEF Reinit
<1>6. ASSUME NEW u \in SqlUsers, Connect(u)
      PROVE  SqlInv'
  <2>0. Index(u) \in SqlNodes
    BY IndexIsNode
  <2>1. CASE GiveBack(u) /\ sqlSock' = [sqlSock EXCEPT ![Index(u)] = FALSE]
             /\ sqlState' = [sqlState EXCEPT ![Index(u)] = "disconn"]
    BY <1>4, <1>6, <2>1 DEF Connect, UserAt, Using
  <2>2. CASE /\ sqlSock' = [sqlSock EXCEPT ![Index(u)] = TRUE]
             /\ sqlState' = [sqlState EXCEPT ![Index(u)] = "conn"]
             /\ UserGoes(u, "ping")
             /\ UNCHANGED <<sqlLock, loopIndex, sqlFails>>
    <3>1. /\ UNCHANGED <<sqlLock, startIndex, loopIndex, destroyIndex, reinits, sqlCrashed>>
          /\ userPc[u] = "connect" /\ ~sqlCrashed
          /\ userPc' = [userPc EXCEPT ![u] = "ping"]
      BY <1>6, <2>2 DEF Connect, UserAt, UserGoes
    <3>2. SqlTypes'
      BY <3>1 DEF SqlTypes
    <3>3. /\ OnlyMoves(u) /\ userPc[u] \in Using /\ userPc'[u] \in Using
          /\ Index(u)' = Index(u) /\ userPc'[u] = "ping"
      BY <3>1 DEF SqlTypes, OnlyMoves, Index, Using
    <3>4. \A n \in SqlNodes : UsersOf(n)' = UsersOf(n)
      BY <3>3, StaysOn
    <3>5. NodeSharing'
      BY <3>1, <3>4 DEF NodeSharing
    <3>6. /\ sqlState' \in [SqlNodes -> {"conn", "disconn"}]
          /\ sqlSock' \in [SqlNodes -> BOOLEAN]
          /\ \A n \in SqlNodes :
               sqlSock'[n] = (sqlSock[n] \/ n = Index(u))
               /\ (sqlState'[n] = "conn" => sqlState[n] = "conn" \/ n = Index(u))
      BY <2>0, <2>2 DEF SqlHealth
    <3>7. \A w \in SqlUsers : Index(w) \in SqlNodes
      BY IndexIsNode
    <3>8. SqlHealth'
      BY <3>1, <3>3, <3>6, <3>7 DEF SqlHealth, OnlyMoves, Using
    <3> QED
      BY <3>1, <3>2, <3>5, <3>8 DEF NullPingNeedsSharing
  <2> QED
    BY <1>6, <2>1, <2>2 DEF Connect
<1>7. ASSUME NEW u \in SqlUsers, Ping(u)
      PROVE  SqlInv'
  <2>1. CASE GiveBack(u) /\ sqlState' = [sqlState EXCEPT ![Index(u)] = "disconn"]
    BY <1>4, <1>7, <2>1 DEF Ping, UserAt, Using
  <2>2. CASE UserGoes(u, "query") /\ UNCHANGED <<sqlLock, sqlState, loopIndex, sqlFails>>
    <3>1. /\ UNCHANGED <<sqlLock, sqlState, sqlSock, startIndex, loopIndex, destroyIndex,
                         reinits, sqlCrashed>>
          /\ userPc[u] = "ping" /\ ~sqlCrashed
          /\ userPc' = [userPc EXCEPT ![u] = "query"]
      BY <1>7, <2>2 DEF Ping, UserAt, UserGoes
    <3>2. SqlTypes'
      BY <3>1 DEF SqlTypes
    <3>3. /\ OnlyMoves(u) /\ userPc[u] \in Using /\ userPc'[u] \in Using
          /\ Index(u)' = Index(u) /\ userPc'[u] = "query"
      BY <3>1 DEF SqlTypes, OnlyMoves, Index, Using
    <3>4. \A n \in SqlNodes : UsersOf(n)' = UsersOf(n)
      BY <3>3, StaysOn
    <3>5. NodeSharing'
      BY <3>1, <3>4 DEF NodeSharing
    <3>6. SqlHealth'
      BY <3>1, <3>3 DEF SqlHealth, OnlyMoves, Using
    <3> QED
      BY <3>1, <3>2, <3>5, <3>6 DEF NullPingNeedsSharing
  <2> QED
    BY <1>7, <2>1, <2>2 DEF Ping
<1>8. ASSUME NEW u \in SqlUsers, PingNull(u)
      PROVE  SqlInv'
  <2>1. /\ userPc[u] = "ping" /\ ~sqlSock[Index(u)] /\ Index(u) \in SqlNodes
        /\ UNCHANGED <<sqlLock, sqlState, sqlSock, userPc, startIndex, loopIndex, destroyIndex,
                       reinits, sqlFails>>
    BY <1>8, IndexIsNode DEF PingNull, UserAt
  <2>2. SqlTypes' /\ SqlHealth' /\ NodeSharing'
    BY <2>1 DEF SqlTypes, SqlHealth, NodeSharing, UsersOf, Index
  <2>3. destroyIndex >= 0 \/ reinits[Index(u)] >= 1
    BY <2>1 DEF SqlHealth, SqlTypes
  <2>4. NullPingNeedsSharing'
    BY <2>1, <2>3 DEF NullPingNeedsSharing, Index
  <2> QED
    BY <2>2, <2>4
<1>9. ASSUME NEW u \in SqlUsers, Query(u)
      PROVE  SqlInv'
  <2>0. Index(u) \in SqlNodes
    BY IndexIsNode
  <2>1. /\ sqlLock' = [sqlLock EXCEPT ![Index(u)] = FALSE]
        /\ userPc[u] = "query" /\ ~sqlCrashed
        /\ userPc' = [userPc EXCEPT ![u] = "idle"]
        /\ startIndex' = [startIndex EXCEPT ![u] = 0]
        /\ loopIndex' = [loopIndex EXCEPT ![u] = 0]
        /\ UNCHANGED <<sqlState, sqlSock, destroyIndex, reinits, sqlFails, sqlCrashed>>
    BY <1>9 DEF Query, UserAt, UserReturns, UserGoes, ReleaseSock
  <2>2. SqlTypes'
    BY <2>0, <2>1 DEF SqlTypes, SqlNodes
  <2>3. OnlyMoves(u) /\ userPc[u] \in Using /\ userPc'[u] \notin Using
    BY <2>1 DEF SqlTypes, OnlyMoves, Index, Using
  <2>4. \A n \in SqlNodes :
          UsersOf(n)' = IF n = Index(u) THEN UsersOf(n) \ {u} ELSE UsersOf(n)
    BY <2>3, Leaves
  <2>5. u \in UsersOf(Index(u))
    BY <2>1 DEF UsersOf
  <2>6. NodeSharing'
    BY <2>0, <2>1, <2>2, <2>4, <2>5, SharingKept DEF SqlTypes
  <2>7. SqlHealth'
    <3>1. \A w \in SqlUsers \ {u} : loopIndex'[w] = loopIndex[w]
      BY <2>1 DEF SqlTypes
    <3> QED
      BY <2>1, <2>3, <3>1 DEF SqlHealth, OnlyMoves, Using
  <2> QED
    BY <2>1, <2>2, <2>6, <2>7 DEF NullPingNeedsSharing
<1>10. CASE DestroyNode
  <2>1. /\ ~sqlCrashed /\ destroyIndex' = destroyIndex + 1 /\ destroyIndex < PoolNumber - 1
        /\ sqlSock' = [sqlSock EXCEPT ![destroyIndex'] = FALSE]
        /\ sqlState' = [sqlState EXCEPT ![destroyIndex'] = "disconn"]
        /\ UNCHANGED <<sqlLock, userPc, startIndex, loopIndex, reinits, sqlFails, sqlCrashed>>
    BY <1>10 DEF DestroyNode
  <2>2. destroyIndex' \in SqlNodes /\ destroyIndex' # -1
    BY <2>1 DEF SqlHealth, SqlNodes
  <2>3. SqlTypes' /\ NodeSharing'
    BY <2>1 DEF SqlTypes, NodeSharing, UsersOf, Index
  <2>4. SqlHealth'
    BY <2>1, <2>2 DEF SqlHealth, SqlNodes, Index
  <2> QED
    BY <2>1, <2>3, <2>4 DEF NullPingNeedsSharing
<1>11. CASE UNCHANGED sqlVars
  BY <1>11 DEF sqlVars, SqlTypes, SqlHealth, NodeSharing, NullPingNeedsSharing, UsersOf, Index
<1> QED
  BY <1>1, <1>2, <1>3, <1>5, <1>6, <1>7, <1>8, <1>9, <1>10, <1>11 DEF SqlNext, SqlUser

LEMMA SqlInvariant == SqlSpec => []SqlInv
BY SqlStart, SqlStep, PTL DEF SqlSpec

-----------------------------------------------------------------------------
(* Two threads are on one node only after create_connect initialised a     *)
(* mutex that was held, one more for each time it did; and a node without  *)
(* a handle is pinged only then or while the pool is destroyed.            *)
THEOREM NodesSharedByReinit == SqlSpec => []SqlNodeUse
<1>1. SqlInv => SqlNodeUse
  BY DEF SqlInv, SqlNodeUse
<1> QED
  BY <1>1, SqlInvariant, PTL

-----------------------------------------------------------------------------
(* The log.  The file ends with the last line written and has one line at  *)
(* most for each call since it was started; a handle is invalid only       *)
(* after main closed it or fopen failed.                                   *)
LogStrings == LogTexts \cup {"LOG START", "LOG END", "SIGTERM", ""}
LogRecords == [level : LogLevels \cup {Fatal, Indispensable}, str : LogStrings]

FileHealth ==
  /\ logFile \in Seq(LogStrings) /\ lastLog \in LogStrings /\ Len(logFile) <= logCount + 1
  /\ logFile # <<>> => logFile[Len(logFile)] = lastLog
  /\ LogLines

HandleHealth ==
  /\ logHandle = "closed" => logMode \in {"closed", "ended"}
  /\ logHandle = "null" => logFails > 0
  /\ logFails \in Nat
  /\ logUndefined => logFails > 0 \/ logMode \in {"closed", "ended"}

LockHealth ==
  /\ \A t \in LogThreads : logPc[t] = "in" => logHolder = t
  /\ sigPc = "write" => logHolder = sigThread /\ logPc[sigThread] = "out"
  /\ sigPc # "none" => sigThread \in LogThreads
  /\ logLine \in [LogThreads -> LogRecords]

LogInv == LogTypes /\ FileHealth /\ HandleHealth /\ LockHealth

HIDE SqlAssumption DEF SqlAssumption
USE LogAssumption DEF LogAssumption

LEMMA LogBounds ==
  /\ MaxLogLines \in Nat /\ MaxLogLines >= 2
  /\ "nobody" \notin LogThreads /\ "main" \in LogThreads
<1>1. MaxLogLines \in Nat \ {0, 1}
  BY Zenon
<1> QED
  BY <1>1 DEF LogThreads

LEMMA OneLine ==
  ASSUME NEW S, NEW x \in S
  PROVE  <<x>> \in Seq(S) /\ Len(<<x>>) = 1 /\ <<x>>[1] = x
OBVIOUS

LEMMA LogStart == LogInit => LogInv
<1> SUFFICES ASSUME LogInit PROVE LogInv
  OBVIOUS
<1>1. /\ logMode = "run" /\ logHandle = "open" /\ logLevel \in LogLevels
      /\ logHolder = "nobody" /\ sigPc = "none" /\ sigThread = "nobody"
      /\ logPc = [t \in LogThreads |-> "out"] /\ logLine = [t \in LogThreads |-> NoLine]
  BY DEF LogInit
<1>2. logCount = 1 /\ logFails = 0
  BY DEF LogInit
<1>3. logFile = <<"LOG START">> /\ lastLog = "LOG START"
  BY DEF LogInit
<1>4. LogTypes
  <2>1. logCount \in 0 .. MaxLogLines - 1
    BY <1>2, LogBounds
  <2>2. logPc \in [LogThreads -> {"out", "in"}]
    BY <1>1
  <2> QED
    BY <1>1, <2>1, <2>2 DEF LogTypes
<1>5. FileHealth
  <2>1. "LOG START" \in LogStrings
    BY DEF LogStrings
  <2>2. logFile \in Seq(LogStrings) /\ logFile[1] = lastLog /\ lastLog \in LogStrings
    BY <1>3, <2>1, OneLine
  <2>3. Len(logFile) = 1
    BY <1>3, <2>1, OneLine
  <2>4. Len(logFile) <= logCount + 1 /\ Len(logFile) <= MaxLogLines
    BY <1>2, <2>3, LogBounds
  <2>5. \A i \in 1 .. Len(logFile) - 1 : logFile[i] # logFile[i + 1]
    BY <2>3
  <2> QED
    BY <2>2, <2>3, <2>4, <2>5 DEF FileHealth, LogLines
<1>6. HandleHealth
  <2>1. ~logUndefined
    BY DEF LogInit
  <2> QED
    BY <1>1, <1>2, <2>1 DEF HandleHealth
<1>7. LockHealth
  <2>1. NoLine \in LogRecords
    BY DEF LogRecords, NoLine, LogStrings
  <2> QED
    BY <1>1, <2>1 DEF LockHealth
<1> QED
  BY <1>4, <1>5, <1>6, <1>7 DEF LogInv

(* A line of text goes behind the last one, unless it repeats it.          *)
LEMMA LineAppended ==
  ASSUME NEW S, NEW f \in Seq(S), NEW x \in S, NEW last,
         f # <<>> => f[Len(f)] = last, x # last,
         \A i \in 1 .. Len(f) - 1 : f[i] # f[i + 1]
  PROVE  LET g == f \o <<x>>
         IN  /\ g \in Seq(S) /\ Len(g) = Len(f) + 1 /\ g[Len(g)] = x
             /\ \A i \in 1 .. Len(g) - 1 : g[i] # g[i + 1]
<1> DEFINE g == f \o <<x>>
<1>1. /\ g \in Seq(S) /\ Len(g) = Len(f) + 1 /\ Len(f) \in Nat /\ g[Len(f) + 1] = x
      /\ \A i \in 1 .. Len(f) : g[i] = f[i]
  OBVIOUS
<1>2. ASSUME NEW i \in 1 .. Len(f) PROVE g[i] # g[i + 1]
  <2>1. CASE i = Len(f)
    BY <1>1, <2>1
  <2>2. CASE i \in 1 .. Len(f) - 1
    BY <1>1, <2>2
  <2> QED
    BY <1>1, <2>1, <2>2
<1> QED
  BY <1>1, <1>2

LEMMA WriteKeepsFile ==
  ASSUME LogInv, NEW line \in LogRecords, WriteLine(line)
  PROVE  FileHealth' /\ logCount' \in 0 .. MaxLogLines - 1
<1>1. /\ logCount' = IF Full THEN 0 ELSE logCount + 1
      /\ logFile' = (IF Full THEN <<>> ELSE logFile) \o (IF Needed(line) THEN <<line.str>> ELSE <<>>)
      /\ lastLog' = IF Needed(line) THEN line.str ELSE lastLog
  BY DEF WriteLine
<1> DEFINE old == IF Full THEN <<>> ELSE logFile
<1>2. /\ old \in Seq(LogStrings) /\ Len(old) <= logCount' /\ Len(old) \in Nat
      /\ logCount' \in 0 .. MaxLogLines - 1
      /\ old # <<>> => old[Len(old)] = lastLog
      /\ \A i \in 1 .. Len(old) - 1 : old[i] # old[i + 1]
  <2>1. CASE Full
    BY <1>1, <2>1
  <2>2. CASE ~Full
    BY <1>1, <2>2 DEF LogInv, FileHealth, LogLines, LogTypes, Full
  <2> QED
    BY <2>1, <2>2
<1> HIDE DEF old
<1>3. CASE Needed(line)
  <2>1. line.str \in LogStrings /\ line.str # lastLog
    BY <1>3 DEF Needed, NewLine, LogRecords
  <2>2. logFile' = old \o <<line.str>> /\ lastLog' = line.str
    BY <1>1, <1>3 DEF old
  <2>3. /\ logFile' \in Seq(LogStrings) /\ Len(logFile') = Len(old) + 1
        /\ logFile'[Len(logFile')] = line.str
        /\ \A i \in 1 .. Len(logFile') - 1 : logFile'[i] # logFile'[i + 1]
    BY <1>2, <2>1, <2>2, LineAppended
  <2> QED
    BY <1>2, <2>1, <2>2, <2>3 DEF FileHealth, LogLines
<1>4. CASE ~Needed(line)
  <2>1. logFile' = old /\ lastLog' = lastLog
    BY <1>1, <1>2, <1>4 DEF old
  <2> QED
    BY <1>2, <2>1 DEF FileHealth, LogLines, LogInv
<1> QED
  BY <1>3, <1>4

LEMMA WriteKeepsHandle ==
  ASSUME LogInv, NEW line \in LogRecords, WriteLine(line),
         logMode' = logMode \/ logMode \notin {"closed", "ended"}
  PROVE  HandleHealth' /\ logHandle' \in {"open", "closed", "null"}
<1>1. PICK handle \in {"open", "closed", "null"} :
        Rotate(handle) /\ logHandle' = handle /\ logUndefined' = Misused(handle, line)
  BY DEF WriteLine
<1>2. /\ logFails \in Nat /\ logFails' \in Nat /\ logFails' >= logFails
      /\ logHandle' = "null" => logHandle = "null" \/ logFails' > 0
      /\ logHandle' = "closed" => logHandle = "closed"
  BY <1>1 DEF Rotate, LogInv, HandleHealth
<1>3. logUndefined' => logHandle \in {"closed", "null"} \/ logHandle' = "null"
  BY <1>1 DEF Misused
<1>4. logHandle = "closed" => logMode' \in {"closed", "ended"}
  BY DEF LogInv, HandleHealth
<1>5. logHandle = "null" => logFails > 0
  BY DEF LogInv, HandleHealth
<1> QED
  BY <1>1, <1>2, <1>3, <1>4, <1>5 DEF HandleHealth

LEMMA LogStep == LogInv /\ [LogNext]_logVars => LogInv'
<1> SUFFICES ASSUME LogInv, [LogNext]_logVars PROVE LogInv'
  OBVIOUS
<1>0. /\ LogTypes /\ FileHealth /\ HandleHealth /\ LockHealth
      /\ "nobody" \notin LogThreads /\ "main" \in LogThreads
  BY DEF LogInv, LogThreads
<1>1. ASSUME NEW t \in LogThreads, NEW line \in LogRecords, Calls(t, line)
      PROVE  LogInv'
  <2>1. /\ logPc[t] = "out" /\ logHolder = "nobody" /\ logHolder' = t
        /\ logPc' = [logPc EXCEPT ![t] = "in"] /\ logLine' = [logLine EXCEPT ![t] = line]
        /\ UNCHANGED <<logMode, logHandle, logLevel, logCount, lastLog, logFile, sigPc, sigThread,
                       logFails, logUndefined>>
    BY <1>1 DEF Calls, Locked
  <2>2. LogTypes' /\ LockHealth'
    BY <1>0, <2>1 DEF LogTypes, LockHealth
  <2>3. FileHealth' /\ HandleHealth'
    BY <1>0, <2>1 DEF FileHealth, LogLines, HandleHealth
  <2> QED
    BY <2>2, <2>3 DEF LogInv
<1>2. ASSUME NEW t \in LogThreads, LogString(t) PROVE LogInv'
  <2>1. PICK line \in [level : LogLevels, str : LogTexts] : Calls(t, line)
    BY <1>2 DEF LogString
  <2>2. line \in LogRecords
    BY DEF LogRecords, LogStrings
  <2> QED
    BY <1>1, <2>1, <2>2
<1>3. CASE LogEndLine
  <2>1. [level |-> Indispensable, str |-> "LOG END"] \in LogRecords
    BY DEF LogRecords, LogStrings
  <2> QED
    BY <1>0, <1>1, <1>3, <2>1 DEF LogEndLine
<1>4. ASSUME NEW t \in LogThreads, LogWrite(t) PROVE LogInv'
  <2>1. /\ logPc[t] = "in" /\ WriteLine(logLine[t]) /\ logHolder' = "nobody"
        /\ logPc' = [logPc EXCEPT ![t] = "out"] /\ logLine' = [logLine EXCEPT ![t] = NoLine]
        /\ logMode' = IF t = "main" /\ logMode = "closing" THEN "fclose" ELSE logMode
        /\ UNCHANGED <<logLevel, sigPc, sigThread>>
    BY <1>4 DEF LogWrite, WriteLine, Unlock
  <2>2. logLine[t] \in LogRecords /\ NoLine \in LogRecords
    BY <1>0 DEF LockHealth, NoLine, LogRecords, LogStrings
  <2>3. FileHealth' /\ logCount' \in 0 .. MaxLogLines - 1
    BY <2>1, <2>2, WriteKeepsFile
  <2>4. HandleHealth' /\ logHandle' \in {"open", "closed", "null"}
    BY <2>1, <2>2, WriteKeepsHandle
  <2>5. LockHealth'
    BY <1>0, <2>1, <2>2 DEF LockHealth, LogTypes
  <2>6. LogTypes'
    BY <1>0, <2>1, <2>3, <2>4 DEF LogTypes
  <2> QED
    BY <2>3, <2>4, <2>5, <2>6 DEF LogInv
<1>5. ASSUME NEW t \in LogThreads, SigDeliver(t) PROVE LogInv'
  BY <1>0, <1>5 DEF SigDeliver, LogInv, LogTypes, LockHealth, FileHealth, LogLines, HandleHealth
<1>6. CASE SigLock
  BY <1>0, <1>6 DEF SigLock, Locked, LogInv, LogTypes, LockHealth, FileHealth, LogLines,
     HandleHealth
<1>7. CASE SigWrite
  <2> DEFINE line == [level |-> Fatal, str |-> "SIGTERM"]
  <2>1. /\ sigPc = "write" /\ WriteLine(line) /\ logHolder' = "nobody" /\ sigPc' = "exit_flag"
        /\ UNCHANGED <<logMode, logLevel, logPc, logLine, sigThread>>
    BY <1>7 DEF SigWrite, WriteLine, Unlock
  <2>2. line \in LogRecords
    BY DEF LogRecords, LogStrings
  <2> HIDE DEF line
  <2>3. FileHealth' /\ logCount' \in 0 .. MaxLogLines - 1
    BY <2>1, <2>2, WriteKeepsFile
  <2>4. HandleHealth' /\ logHandle' \in {"open", "closed", "null"}
    BY <2>1, <2>2, WriteKeepsHandle
  <2>5. LockHealth'
    BY <1>0, <2>1 DEF LockHealth, LogTypes
  <2>6. LogTypes'
    BY <1>0, <2>1, <2>3, <2>4 DEF LogTypes
  <2> QED
    BY <2>3, <2>4, <2>5, <2>6 DEF LogInv
<1>8. CASE LogEnd
  BY <1>0, <1>8 DEF LogEnd, LogInv, LogTypes, LockHealth, FileHealth, LogLines, HandleHealth
<1>9. CASE LogClose
  BY <1>0, <1>9 DEF LogClose, LogInv, LogTypes, LockHealth, FileHealth, LogLines, HandleHealth
<1>10. CASE JoinWorkers
  BY <1>0, <1>10 DEF JoinWorkers, LogInv, LogTypes, LockHealth, FileHealth, LogLines,
     HandleHealth
<1>11. CASE UNCHANGED logVars
  BY <1>0, <1>11 DEF logVars, LogInv, LogTypes, LockHealth, FileHealth, LogLines, HandleHealth
<1> QED
  BY <1>2, <1>3, <1>4, <1>5, <1>6, <1>7, <1>8, <1>9, <1>10, <1>11 DEF LogNext

LEMMA LogInvariant == LogSpec => []LogInv
BY LogStart, LogStep, PTL DEF LogSpec

(* However many threads write, at whatever levels, and wherever the file   *)
(* is started anew: no line follows its equal, and the file never has more *)
(* than MAX_LOG_LINE_NUM lines.                                            *)
THEOREM LinesNeverRepeat == LogSpec => []LogLines
<1>1. LogInv => LogLines
  BY DEF LogInv, FileHealth
<1> QED
  BY <1>1, LogInvariant, PTL

(* One thread or handler at a time is inside log_string; only a worker     *)
(* that is late, or a file that could not be opened, misuses the handle.   *)
THEOREM LogMisusedOnlyLate == LogSpec => []LogFaultsNeedCause
<1>1. LogInv => LogFaultsNeedCause
  BY DEF LogInv, HandleHealth, LockHealth, LogFaultsNeedCause
<1> QED
  BY <1>1, LogInvariant, PTL

-----------------------------------------------------------------------------
(* The byte loops.  What is left to send is never negative, and grows only *)
(* by the EAGAINs.                                                         *)
IOInv == IOTypes /\ ReplyInOrder /\ leftToSend <= ReplyLength + agains


HIDE LogAssumption DEF LogAssumption
USE IOAssumption DEF IOAssumption

LEMMA IOStart == IOInit => IOInv
BY DEF IOInit, IOInv, IOTypes, ReplyInOrder, Offset

(* What one write of k bytes appends.                                      *)
LEMMA WrittenPart ==
  ASSUME NEW s \in Seq(Int), NEW o \in Int, NEW k \in Nat, NEW t,
         t = s \o [i \in 1 .. k |-> o + i - 1]
  PROVE  /\ t \in Seq(Int) /\ Len(t) = Len(s) + k /\ DOMAIN t = 1 .. Len(s) + k
         /\ DOMAIN s = 1 .. Len(s) /\ Len(s) \in Nat
         /\ \A i \in 1 .. Len(s) : t[i] = s[i]
         /\ \A i \in 1 .. k : t[Len(s) + i] = o + i - 1
<1> DEFINE u == [i \in 1 .. k |-> o + i - 1]
<1>1. u \in Seq(Int) /\ Len(u) = k /\ \A i \in 1 .. k : u[i] = o + i - 1
  <2>1. \A i \in 1 .. k : o + i - 1 \in Int
    OBVIOUS
  <2> QED
    BY <2>1
<1> HIDE DEF u
<1>2. t = s \o u
  BY DEF u
<1>3. t \in Seq(Int) /\ Len(t) = Len(s) + k /\ DOMAIN t = 1 .. Len(s) + k
  <2>1. t \in Seq(Int) /\ Len(t) = Len(s) + k
    BY <1>1, <1>2
  <2> QED
    BY <2>1, LenProperties
<1>4. \A i \in 1 .. Len(s) : t[i] = s[i]
  BY <1>1, <1>2
<1>5. \A i \in 1 .. k : t[Len(s) + i] = u[i]
  BY <1>1, <1>2, LenProperties
<1> QED
  BY <1>1, <1>3, <1>4, <1>5, LenProperties

LEMMA IOStep == IOInv /\ [IONext]_ioVars => IOInv'
<1> SUFFICES ASSUME IOInv, [IONext]_ioVars PROVE IOInv'
  OBVIOUS
<1> USE DEF IOTypes
<1>1. CASE WriteSome
  <2>1. PICK k \in 1 .. leftToSend :
          /\ onWire' = onWire \o [i \in 1 .. k |-> Offset + i - 1]
          /\ leftToSend' = leftToSend - k
    BY <1>1 DEF WriteSome, LeftAfter
  <2>2. ioPc = "send" /\ UNCHANGED <<ioPc, available, agains>>
    BY <1>1 DEF WriteSome, Sending
  <2>3. k \in Nat /\ k >= 1 /\ Offset \in Int /\ Offset' = Offset + k /\ agains \in Nat
    BY <2>1 DEF Offset, IOInv
  <2>4. /\ onWire' \in Seq(Int) /\ Len(onWire') = Len(onWire) + k
        /\ DOMAIN onWire' = 1 .. Len(onWire) + k
        /\ DOMAIN onWire = 1 .. Len(onWire) /\ Len(onWire) \in Nat
        /\ \A i \in 1 .. Len(onWire) : onWire'[i] = onWire[i]
        /\ \A i \in 1 .. k : onWire'[Len(onWire) + i] = Offset + i - 1
    BY <2>1, <2>3, WrittenPart DEF IOInv
  <2>5. /\ Len(onWire) = Offset + agains /\ 0 .. Offset - 1 \subseteq Range(onWire)
        /\ agains = 0 => \A i \in 1 .. Len(onWire) : onWire[i] = i - 1
    BY <2>4 DEF IOInv, ReplyInOrder
  <2>6. 0 .. Offset' - 1 \subseteq Range(onWire')
    <3> SUFFICES ASSUME NEW b \in 0 .. Offset + k - 1
                 PROVE  \E i \in 1 .. Len(onWire) + k : onWire'[i] = b
      <4>1. Range(onWire') = {onWire'[i] : i \in 1 .. Len(onWire) + k}
        BY <2>4, Zenon DEF Range
      <4> QED
        BY <2>3, <4>1
    <3>1. CASE b <= Offset - 1
      <4>1. b \in Range(onWire)
        BY <3>1, <2>3, <2>5
      <4>2. PICK i \in 1 .. Len(onWire) : onWire[i] = b
        BY <4>1, <2>4 DEF Range
      <4> QED
        BY <4>2, <2>3, <2>4
    <3>2. CASE b > Offset - 1
      <4>1. b - Offset + 1 \in 1 .. k
        BY <3>2, <2>3
      <4>2. onWire'[Len(onWire) + (b - Offset + 1)] = Offset + (b - Offset + 1) - 1
        BY <4>1, <2>4
      <4>3. Offset + (b - Offset + 1) - 1 = b
        BY <2>3
      <4> QED
        BY <4>1, <4>2, <4>3, <2>3, <2>4
    <3> QED
      BY <3>1, <3>2, <2>3
  <2>7. agains = 0 => \A i \in 1 .. Len(onWire) + k : onWire'[i] = i - 1
    <3> SUFFICES ASSUME agains = 0, NEW i \in 1 .. Len(onWire) + k PROVE onWire'[i] = i - 1
      OBVIOUS
    <3>1. CASE i <= Len(onWire)
      BY <3>1, <2>4, <2>5
    <3>2. CASE i > Len(onWire)
      <4>1. i - Len(onWire) \in 1 .. k
        BY <3>2, <2>3, <2>4
      <4>2. onWire'[Len(onWire) + (i - Len(onWire))] = Offset + (i - Len(onWire)) - 1
        BY <4>1, <2>4
      <4>3. Len(onWire) + (i - Len(onWire)) = i /\ Len(onWire) = Offset
        BY <2>3, <2>4, <2>5
      <4> QED
        BY <4>2, <4>3, <2>3, <2>4
    <3> QED
      BY <3>1, <3>2, <2>4
  <2>8. ReplyInOrder'
    BY <2>2, <2>3, <2>4, <2>5, <2>6, <2>7 DEF ReplyInOrder
  <2> QED
    BY <2>1, <2>2, <2>3, <2>4, <2>8 DEF IOInv
<1>2. CASE RecvBuffer
  BY <1>2 DEF IOInv, ReplyInOrder, Offset, RecvBuffer
<1>3. CASE WriteAgain
  <2>1. /\ agains' = agains + 1 /\ leftToSend' = leftToSend + 1 /\ agains < MaxAgain
        /\ ioPc = "send" /\ UNCHANGED <<ioPc, available, onWire>>
    BY <1>3 DEF WriteAgain, Sending, LeftAfter, IOInv
  <2>2. Offset' = Offset - 1 /\ Offset \in Int /\ agains \in Nat
    BY <2>1 DEF Offset, IOInv
  <2>3. ReplyInOrder'
    BY <2>1, <2>2 DEF ReplyInOrder, IOInv
  <2> QED
    BY <2>1, <2>3 DEF IOInv
<1>4. CASE WriteFails
  BY <1>4 DEF IOInv, ReplyInOrder, Offset, WriteFails
<1>5. CASE SendReturns
  <2>1. Offset = ReplyLength /\ ioPc' = "returned"
        /\ UNCHANGED <<available, leftToSend, onWire, agains>>
    BY <1>5 DEF IOInv, SendReturns, Offset
  <2> QED
    BY <2>1 DEF IOInv, ReplyInOrder, Offset
<1>6. CASE UNCHANGED ioVars
  BY <1>6 DEF ioVars, IOInv, ReplyInOrder, Offset
<1> QED
  BY <1>1, <1>2, <1>3, <1>4, <1>5, <1>6 DEF IONext

(* For every request, reply and read size and any partial writes the peer  *)
(* gets the reply in order; each EAGAIN repeats a byte or sends the one    *)
(* before the buffer.                                                      *)
THEOREM ReplyLeavesInOrder == IOSpec => []ReplyInOrder
<1>1. IOInv => ReplyInOrder
  BY DEF IOInv
<1> QED
  BY <1>1, IOStart, IOStep, PTL DEF IOSpec

-----------------------------------------------------------------------------
(* The load generator.  What is counted or about to be is what has been    *)
(* answered; a value read is never more than the count could be.           *)
Adders == {t \in Loaders : Adding(t)}
Added == answers - Cardinality(Adders)

Counted == connectTotal <= Added /\ (~overlapped => connectTotal = Added)

LoadInv ==
  /\ LoadTypes /\ Counted
  /\ \A t \in Loaders : loadPc[t] = "store" => totalRead[t] <= Added

One(t) == IF Adding(t) THEN 1 ELSE 0
AddedIs == Added = answers - One("main") - One("accept_thread")

HIDE IOAssumption DEF IOAssumption
USE LoadAssumption DEF LoadAssumption

LEMMA AddersAre == LoadTypes => AddedIs
<1> SUFFICES ASSUME LoadTypes PROVE AddedIs
  OBVIOUS
<1> USE DEF One
<1>1. Adders = (IF Adding("main") THEN {"main"} ELSE {})
                 \cup (IF Adding("accept_thread") THEN {"accept_thread"} ELSE {})
  BY DEF Adders, Loaders
<1>2. /\ Cardinality({}) = 0 /\ Cardinality({"main"}) = 1
      /\ Cardinality({"accept_thread"}) = 1
      /\ Cardinality({"main"} \cup {"accept_thread"}) = 2
  <2>1. IsFiniteSet({"main"}) /\ "accept_thread" \notin {"main"}
    BY FS_Singleton
  <2>2. Cardinality({"main"} \cup {"accept_thread"}) = Cardinality({"main"}) + 1
    BY <2>1, FS_AddElement
  <2>3. Cardinality({"main"}) = 1 /\ Cardinality({"accept_thread"}) = 1
    BY FS_Singleton
  <2>4. Cardinality({}) = 0
    BY FS_EmptySet
  <2> QED
    BY <2>2, <2>3, <2>4
<1>3. Cardinality(Adders) = (IF Adding("main") THEN 1 ELSE 0)
                             + (IF Adding("accept_thread") THEN 1 ELSE 0)
  <2>1. CASE Adding("main") /\ Adding("accept_thread")
    BY <2>1, <1>1, <1>2
  <2>2. CASE Adding("main") /\ ~Adding("accept_thread")
    <3>1. Adders = {"main"}
      BY <2>2, <1>1
    <3> QED
      BY <3>1, <2>2, <1>2
  <2>3. CASE ~Adding("main") /\ Adding("accept_thread")
    <3>1. Adders = {"accept_thread"}
      BY <2>3, <1>1
    <3> QED
      BY <3>1, <2>3, <1>2
  <2>4. CASE ~Adding("main") /\ ~Adding("accept_thread")
    <3>1. Adders = {}
      BY <2>4, <1>1
    <3> QED
      BY <3>1, <2>4, <1>2
  <2> QED
    BY <2>1, <2>2, <2>3, <2>4
<1> QED
  BY <1>3 DEF AddedIs, Added, LoadTypes

LEMMA AddersAreNext == LoadTypes' => AddedIs'
BY AddersAre, PTL

LEMMA LoadStart == LoadInit => LoadInv
<1> SUFFICES ASSUME LoadInit PROVE LoadInv
  OBVIOUS
<1>1. LoadTypes
  <2>1. callsLeft \in [Loaders -> 0 .. LoadCalls + 1]
    BY DEF LoadInit
  <2>2. totalRead \in [Loaders -> Nat] /\ loadPc \in [Loaders -> {"idle", "recv", "add", "store"}]
    BY DEF LoadInit
  <2> QED
    BY <2>1, <2>2 DEF LoadInit, LoadTypes
<1>2. Added = 0
  BY <1>1, AddersAre DEF LoadInit, AddedIs, One, Adding, Loaders
<1>3. connectTotal = 0 /\ \A t \in Loaders : loadPc[t] = "idle"
  BY DEF LoadInit
<1>4. connectTotal <= Added /\ connectTotal = Added
  BY <1>2, <1>3
<1>5. \A t \in Loaders : loadPc[t] # "store"
  BY <1>3
<1> QED
  BY <1>1, <1>4, <1>5, Zenon DEF LoadInv, Counted

LEMMA LoadStep == LoadInv /\ [LoadNext]_loadVars => LoadInv'
<1> SUFFICES ASSUME LoadInv, [LoadNext]_loadVars PROVE LoadInv'
  OBVIOUS
<1>0. LoadTypes /\ AddedIs /\ Added \in Int
  BY AddersAre DEF LoadInv, LoadTypes, AddedIs, One
<1> USE DEF Loaders, LoadGoes, One, Adding
<1>1. ASSUME NEW t \in Loaders, LoadConnect(t) PROVE LoadInv'
  <2>1. LoadTypes'
    BY <1>0, <1>1 DEF LoadConnect, LoadTypes
  <2>2. One("main")' = One("main") /\ One("accept_thread")' = One("accept_thread")
    BY <1>0, <1>1 DEF LoadConnect, LoadTypes
  <2>3. Added' = Added
    BY <1>0, <1>1, <2>1, <2>2, AddersAreNext DEF AddedIs, LoadConnect
  <2> QED
    BY <1>0, <1>1, <2>1, <2>3 DEF LoadInv, Counted, LoadConnect, LoadTypes
<1>2. ASSUME NEW t \in Loaders, LoadRecv(t) PROVE LoadInv'
  <2>1. LoadTypes' /\ Added' = Added
    BY <1>0, <1>2, AddersAreNext DEF LoadRecv, AfterNoAnswer, AddedIs, LoadTypes
  <2> QED
    BY <1>0, <1>2, <2>1 DEF LoadInv, Counted, LoadRecv, LoadTypes, AfterNoAnswer
<1>3. ASSUME NEW t \in Loaders, LoadTotal(t) PROVE LoadInv'
  <2>1. LoadTypes'
    BY <1>0, <1>3 DEF LoadTotal, LoadTypes
  <2>2. Added' = Added
    BY <1>0, <1>3, <2>1, AddersAreNext DEF LoadTotal, AddedIs, LoadTypes
  <2> QED
    BY <1>0, <1>3, <2>1, <2>2 DEF LoadInv, Counted, LoadTotal, LoadTypes
<1>4. ASSUME NEW t \in Loaders, StoreTotal(t) PROVE LoadInv'
  <2>1. LoadTypes'
    BY <1>0, <1>4 DEF StoreTotal, LoadTypes
  <2>2. Added' = Added + 1
    BY <1>0, <1>4, <2>1, AddersAreNext DEF StoreTotal, AddedIs, LoadTypes
  <2>3. ~overlapped' => ~overlapped /\ totalRead[t] = connectTotal
    BY <1>4, Zenon DEF StoreTotal
  <2>4. connectTotal' = totalRead[t] + 1 /\ totalRead[t] <= Added /\ totalRead[t] \in Nat
    BY <1>0, <1>4 DEF LoadInv, StoreTotal, LoadTypes
  <2>5. Counted'
    BY <1>0, <2>2, <2>3, <2>4 DEF LoadInv, Counted
  <2>6. \A u \in Loaders : loadPc'[u] = "store" => totalRead'[u] <= Added'
    BY <1>0, <1>4, <2>2 DEF LoadInv, StoreTotal, LoadTypes
  <2> QED
    BY <2>1, <2>5, <2>6 DEF LoadInv
<1>5. CASE UNCHANGED loadVars
  <2>1. LoadTypes' /\ Added' = Added
    BY <1>0, <1>5 DEF loadVars, LoadTypes, Added, Adders
  <2> QED
    BY <1>5, <2>1 DEF LoadInv, Counted, loadVars
<1> QED
  BY <1>1, <1>2, <1>3, <1>4, <1>5 DEF LoadNext, Loader

(* However many calls the created thread makes, connect_total is the       *)
(* number of answers until the two additions overlap, and never more.      *)
THEOREM TotalNeverExceedsAnswers == LoadSpec => []TotalIsAnswers
<1>1. LoadInv => TotalIsAnswers
  <2>1. Counted => TotalIsAnswers
    BY Zenon DEF TotalIsAnswers, Counted, Added, Adders
  <2> QED
    BY <2>1 DEF LoadInv
<1> QED
  BY <1>1, LoadStart, LoadStep, PTL DEF LoadSpec
=============================================================================
