----------------------------- MODULE WorkQueue ------------------------------
(***************************************************************************)
(* What a caller of the pool is promised: a submitted job waits its turn,  *)
(* is claimed in the order of submission by exactly one thread, and is     *)
(* finished; after the pool is closed jobs that still wait are dropped,    *)
(* but only once no thread is running a job.  Jobs are known by the number *)
(* of their submission.                                                    *)
(***************************************************************************)
EXTENDS Integers, Sequences

VARIABLES submitted, waiting, active, open

vars == <<submitted, waiting, active, open>>

Init == submitted = 0 /\ waiting = <<>> /\ active = {} /\ open = TRUE

Submit ==
  /\ open
  /\ submitted' = submitted + 1
  /\ waiting' = Append(waiting, submitted')
  /\ UNCHANGED <<active, open>>

Claim ==
  /\ waiting # <<>>
  /\ active' = active \cup {Head(waiting)}
  /\ waiting' = Tail(waiting)
  /\ UNCHANGED <<submitted, open>>

Finish ==
  /\ \E t \in active : active' = active \ {t}
  /\ UNCHANGED <<submitted, waiting, open>>

Close ==
  /\ open' = FALSE
  /\ UNCHANGED <<submitted, waiting, active>>

Drop ==
  /\ ~open /\ active = {} /\ waiting # <<>>
  /\ waiting' = Tail(waiting)
  /\ UNCHANGED <<submitted, active, open>>

Next == Submit \/ Claim \/ Finish \/ Close \/ Drop

Spec == Init /\ [][Next]_vars
=============================================================================
