------------------------------ MODULE SqlPool ------------------------------
(***************************************************************************)
(* The database connection pool of the epoll server (sql_pool.c) and its   *)
(* user, get_upgrade_count_from_database (database_process.c).  Each node  *)
(* has a mutex; a thread scans the nodes from a random one with trylock.   *)
(* create_connect, called by a thread that holds the mutex of a            *)
(* disconnected node, initialises that mutex again.  sql_pool_destroy, in  *)
(* the main thread or a signal handler, takes no mutex at all.             *)
(*                                                                         *)
(* The `used` flag is written and never read, so it is left out.           *)
(***************************************************************************)
EXTENDS Integers, FiniteSets

CONSTANTS
  SqlUsers,       (* threads that query the database                       *)
  PoolNumber,     (* pool_number: nodes that sql_pool_create filled        *)
  MaxSqlFails     (* bound: failed connects and pings after the start      *)

ASSUME SqlAssumption ==
  IsFiniteSet(SqlUsers) /\ PoolNumber \in Nat \ {0} /\ MaxSqlFails \in Nat

SqlNodes == 0 .. PoolNumber - 1

VARIABLES
  sqlLock, sqlState, sqlSock,  (* per node: mutex held, DB_CONN, mysql_sock *)
  userPc, startIndex, loopIndex,               (* per user: its locals     *)
  destroyIndex,                (* sql_pool_destroy's loop                  *)
  reinits, sqlFails,           (* history: mutexes initialised again       *)
  sqlCrashed                   (* mysql_ping(NULL)                         *)

sqlVars == <<sqlLock, sqlState, sqlSock, userPc, startIndex, loopIndex, destroyIndex,
             reinits, sqlFails, sqlCrashed>>

Index(u) == (startIndex[u] + loopIndex[u]) % PoolNumber

(* sql_pool_create: a node whose first connect failed stays disconnected.  *)
SqlInit ==
  /\ sqlLock = [n \in SqlNodes |-> FALSE]
  /\ sqlState \in [SqlNodes -> {"conn", "disconn"}]
  /\ sqlSock = [n \in SqlNodes |-> sqlState[n] = "conn"]
  /\ userPc = [u \in SqlUsers |-> "idle"]
  /\ startIndex = [u \in SqlUsers |-> 0] /\ loopIndex = [u \in SqlUsers |-> 0]
  /\ destroyIndex = -1
  /\ reinits = [n \in SqlNodes |-> 0] /\ sqlFails = 0 /\ sqlCrashed = FALSE

UserAt(u, l) == ~sqlCrashed /\ userPc[u] = l
UserGoes(u, l) == userPc' = [userPc EXCEPT ![u] = l]

(* The call returns, and its locals with it.                               *)
UserReturns(u) ==
  /\ UserGoes(u, "idle")
  /\ startIndex' = [startIndex EXCEPT ![u] = 0]
  /\ loopIndex' = [loopIndex EXCEPT ![u] = 0]

-----------------------------------------------------------------------------
(* get_db_connect_from_pool.                                               *)

StartScan(u) ==
  /\ UserAt(u, "idle")
  /\ \E i \in SqlNodes : startIndex' = [startIndex EXCEPT ![u] = i]
  /\ UserGoes(u, "scan")
  /\ UNCHANGED <<sqlLock, sqlState, sqlSock, loopIndex, destroyIndex, reinits, sqlFails,
                 sqlCrashed>>

NeverTaken(u) == FALSE
Taken(u) == sqlLock[Index(u)]

TryLock(u) ==
  /\ UserAt(u, "scan") /\ loopIndex[u] < PoolNumber
  /\ IF Taken(u)
     THEN loopIndex' = [loopIndex EXCEPT ![u] = @ + 1] /\ UNCHANGED <<sqlLock, userPc>>
     ELSE /\ sqlLock' = [sqlLock EXCEPT ![Index(u)] = TRUE]
          /\ UserGoes(u, IF sqlState[Index(u)] = "disconn" THEN "reconnect" ELSE "ping")
          /\ UNCHANGED loopIndex
  /\ UNCHANGED <<sqlState, sqlSock, startIndex, destroyIndex, reinits, sqlFails, sqlCrashed>>

(* No node was free and reachable: NULL.                                   *)
NoConnect(u) ==
  /\ UserAt(u, "scan") /\ loopIndex[u] = PoolNumber
  /\ UserReturns(u)
  /\ UNCHANGED <<sqlLock, sqlState, sqlSock, destroyIndex, reinits, sqlFails, sqlCrashed>>

(* release_sock_to_sql_pool unlocks whoever holds the mutex by now.        *)
ReleaseSock(u) == [sqlLock EXCEPT ![Index(u)] = FALSE]

(* The node is given back and the scan goes on, or the thread keeps it.    *)
GiveBack(u) ==
  /\ sqlLock' = ReleaseSock(u)
  /\ loopIndex' = [loopIndex EXCEPT ![u] = @ + 1]
  /\ UserGoes(u, "scan")

SqlFail == sqlFails < MaxSqlFails /\ sqlFails' = sqlFails + 1

(* create_connect up to pthread_mutex_init of the mutex this thread holds, *)
(* unless mysql_init fails first.                                          *)
InitMutex(n) == [sqlLock EXCEPT ![n] = FALSE]

Reinit(u) ==
  /\ UserAt(u, "reconnect")
  /\ \/ /\ sqlLock' = InitMutex(Index(u))
        /\ reinits' = [reinits EXCEPT ![Index(u)] = @ + 1]
        /\ UserGoes(u, "connect")
        /\ UNCHANGED <<loopIndex, sqlFails>>
     \/ SqlFail /\ GiveBack(u) /\ UNCHANGED reinits
  /\ UNCHANGED <<sqlState, sqlSock, startIndex, destroyIndex, sqlCrashed>>

(* mysql_real_connect.                                                     *)
Connect(u) ==
  /\ UserAt(u, "connect")
  /\ \/ /\ sqlSock' = [sqlSock EXCEPT ![Index(u)] = TRUE]
        /\ sqlState' = [sqlState EXCEPT ![Index(u)] = "conn"]
        /\ UserGoes(u, "ping")
        /\ UNCHANGED <<sqlLock, loopIndex, sqlFails>>
     \/ /\ SqlFail
        /\ sqlSock' = [sqlSock EXCEPT ![Index(u)] = FALSE]
        /\ sqlState' = [sqlState EXCEPT ![Index(u)] = "disconn"]
        /\ GiveBack(u)
  /\ UNCHANGED <<startIndex, destroyIndex, reinits, sqlCrashed>>

Ping(u) ==
  /\ UserAt(u, "ping") /\ sqlSock[Index(u)]
  /\ \/ /\ UserGoes(u, "query")
        /\ UNCHANGED <<sqlLock, sqlState, loopIndex, sqlFails>>
     \/ /\ SqlFail
        /\ sqlState' = [sqlState EXCEPT ![Index(u)] = "disconn"]
        /\ GiveBack(u)
  /\ UNCHANGED <<sqlSock, startIndex, destroyIndex, reinits, sqlCrashed>>

PingNull(u) ==
  /\ UserAt(u, "ping") /\ ~sqlSock[Index(u)]
  /\ sqlCrashed' = TRUE
  /\ UNCHANGED <<sqlLock, sqlState, sqlSock, userPc, startIndex, loopIndex, destroyIndex,
                 reinits, sqlFails>>

(* The query, whatever it returns, and the release on every path.          *)
Query(u) ==
  /\ UserAt(u, "query")
  /\ sqlLock' = ReleaseSock(u)
  /\ UserReturns(u)
  /\ UNCHANGED <<sqlState, sqlSock, destroyIndex, reinits, sqlFails, sqlCrashed>>

-----------------------------------------------------------------------------
(* sql_pool_destroy: one node at a time, used or not.                      *)
DestroyNode ==
  /\ ~sqlCrashed /\ destroyIndex < PoolNumber - 1
  /\ destroyIndex' = destroyIndex + 1
  /\ sqlSock' = [sqlSock EXCEPT ![destroyIndex'] = FALSE]
  /\ sqlState' = [sqlState EXCEPT ![destroyIndex'] = "disconn"]
  /\ UNCHANGED <<sqlLock, userPc, startIndex, loopIndex, reinits, sqlFails, sqlCrashed>>

SqlUser(u) ==
  \/ StartScan(u) \/ TryLock(u) \/ NoConnect(u) \/ Reinit(u) \/ Connect(u)
  \/ Ping(u) \/ PingNull(u) \/ Query(u)

SqlNext == DestroyNode \/ \E u \in SqlUsers : SqlUser(u)

SqlSpec == SqlInit /\ [][SqlNext]_sqlVars

-----------------------------------------------------------------------------
(* Threads between a successful trylock of node n and their unlock.        *)
UsersOf(n) ==
  {u \in SqlUsers : userPc[u] \in {"reconnect", "connect", "ping", "query"} /\ Index(u) = n}

SqlTypes ==
  /\ sqlLock \in [SqlNodes -> BOOLEAN]
  /\ userPc \in [SqlUsers -> {"idle", "scan", "reconnect", "connect", "ping", "query"}]
  /\ startIndex \in [SqlUsers -> SqlNodes] /\ loopIndex \in [SqlUsers -> 0 .. PoolNumber]
  /\ reinits \in [SqlNodes -> Nat]

(* One thread at a time is on a node, and one more for every time          *)
(* create_connect initialised its mutex while it was held (sql_pool.c:40): *)
(* nothing else lets a second thread onto a MYSQL handle.                  *)
NodeSharing ==
  \A n \in SqlNodes :
    Cardinality(UsersOf(n)) <= (IF sqlLock[n] THEN 1 ELSE 0) + reinits[n]

(* A thread pings a node without a handle only after the pool was being    *)
(* destroyed or two threads had been let onto that node.                   *)
NullPingNeedsSharing ==
  sqlCrashed =>
    \/ destroyIndex >= 0
    \/ \E u \in SqlUsers : userPc[u] = "ping" /\ reinits[Index(u)] >= 1

(* Both together: what can go wrong with a connection, and its two causes. *)
SqlNodeUse == NodeSharing /\ NullPingNeedsSharing
=============================================================================
