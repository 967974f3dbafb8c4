------------------------------- MODULE RequestQueue -------------------------------
(*******************************************************************************)
(* What a manager promises its caller: a request that was submitted waits for  *)
(* its turn, runs, finishes and is delivered, each exactly once.  Requests     *)
(* start in the order of submission, may finish in any order, and are          *)
(* delivered together with all that have finished, in that order.              *)
(* SessionManager implements it.                                               *)
(*******************************************************************************)
EXTENDS Integers, SequencesExt

CONSTANT Ids     \* the requests

VARIABLES waiting, running, finished, delivered

vars == <<waiting, running, finished, delivered>>

Known == ToSet(waiting) \cup ToSet(running) \cup ToSet(finished) \cup ToSet(delivered)

Init == waiting = <<>> /\ running = <<>> /\ finished = <<>> /\ delivered = <<>>

Submit(id) ==
  /\ id \notin Known
  /\ waiting' = Append(waiting, id)
  /\ UNCHANGED <<running, finished, delivered>>

Start ==
  /\ waiting # <<>>
  /\ waiting' = Tail(waiting)
  /\ running' = Append(running, Head(waiting))
  /\ UNCHANGED <<finished, delivered>>

Finish(i) ==
  /\ running' = RemoveAt(running, i)
  /\ finished' = Append(finished, running[i])
  /\ UNCHANGED <<waiting, delivered>>

Deliver ==
  /\ finished # <<>>
  /\ delivered' = delivered \o finished
  /\ finished' = <<>>
  /\ UNCHANGED <<waiting, running>>

Next ==
  \/ \E id \in Ids : Submit(id)
  \/ Start
  \/ \E i \in DOMAIN running : Finish(i)
  \/ Deliver

Spec == Init /\ [][Next]_vars

================================================================================
