------------------------- MODULE ConnectionService --------------------------
(***************************************************************************)
(* What a client of the epoll server is promised: its connection is        *)
(* accepted, it gets at most one reply, only while the connection is open  *)
(* and after it sent something, no reply to another client's request       *)
(* reaches it, and a closed connection stays closed.                       *)
(***************************************************************************)
EXTENDS Naturals

CONSTANT Conns

VARIABLES phase,    (* "away", "open" or "closed"                          *)
          spoken,   (* clients that sent a request or hung up              *)
          replies   (* replies[c, d]: replies to c's request that d got    *)

vars == <<phase, spoken, replies>>

Init ==
  /\ phase = [c \in Conns |-> "away"]
  /\ spoken = {}
  /\ replies = [r \in Conns \X Conns |-> 0]

Accept(c) ==
  /\ phase[c] = "away"
  /\ phase' = [phase EXCEPT ![c] = "open"]
  /\ UNCHANGED <<spoken, replies>>

Speak(c) ==
  /\ c \notin spoken
  /\ spoken' = spoken \cup {c}
  /\ UNCHANGED <<phase, replies>>

Reply(c) ==
  /\ phase[c] = "open" /\ c \in spoken /\ replies[<<c, c>>] = 0
  /\ replies' = [replies EXCEPT ![<<c, c>>] = 1]
  /\ UNCHANGED <<phase, spoken>>

(* One connection when it is done with, many at the end of the server.     *)
Close ==
  /\ \E S \in SUBSET {c \in Conns : phase[c] = "open"} :
       phase' = [c \in Conns |-> IF c \in S THEN "closed" ELSE phase[c]]
  /\ UNCHANGED <<spoken, replies>>

Next == Close \/ \E c \in Conns : Accept(c) \/ Speak(c) \/ Reply(c)

Spec == Init /\ [][Next]_vars
=============================================================================
