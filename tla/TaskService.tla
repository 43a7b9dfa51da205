---------------------------- MODULE TaskService -----------------------------
(***************************************************************************)
(* What a program is promised by the C++ pool as long as no pool thread    *)
(* times out, wakes up for nothing or cannot be created: an accepted task  *)
(* enters the queue, tasks leave the queue in its order, each one for one  *)
(* thread, and are run once; when the manager is destroyed no task is on   *)
(* its way to a thread, and nothing happens afterwards.  A task that is    *)
(* still queued then is never run.  Tasks are known by the number of their *)
(* acceptance; with several submitters that is not the order of the queue. *)
(***************************************************************************)
EXTENDS Integers, Sequences

VARIABLES
  accepted,    (* how many tasks were accepted                             *)
  entering,    (* accepted, not yet in the queue                           *)
  queue,
  assigned,    (* taken from the queue for a thread, not yet run           *)
  ran,         (* in the order in which they were run                      *)
  destroyed

vars == <<accepted, entering, queue, assigned, ran, destroyed>>

Init ==
  /\ accepted = 0 /\ entering = {} /\ queue = <<>> /\ assigned = {} /\ ran = <<>>
  /\ destroyed = FALSE

Accept ==
  /\ ~destroyed
  /\ accepted' = accepted + 1
  /\ entering' = entering \cup {accepted'}
  /\ UNCHANGED <<queue, assigned, ran, destroyed>>

Enter ==
  /\ ~destroyed
  /\ \E k \in entering : entering' = entering \ {k} /\ queue' = Append(queue, k)
  /\ UNCHANGED <<accepted, assigned, ran, destroyed>>

Assign ==
  /\ ~destroyed /\ queue # <<>>
  /\ assigned' = assigned \cup {Head(queue)}
  /\ queue' = Tail(queue)
  /\ UNCHANGED <<accepted, entering, ran, destroyed>>

Run ==
  /\ ~destroyed
  /\ \E k \in assigned : assigned' = assigned \ {k} /\ ran' = Append(ran, k)
  /\ UNCHANGED <<accepted, entering, queue, destroyed>>

Destroy ==
  /\ ~destroyed /\ entering = {} /\ assigned = {}
  /\ destroyed' = TRUE
  /\ UNCHANGED <<accepted, entering, queue, assigned, ran>>

Next == Accept \/ Enter \/ Assign \/ Run \/ Destroy

Spec == Init /\ [][Next]_vars
=============================================================================
