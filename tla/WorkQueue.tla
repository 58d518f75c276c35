------------------------------ MODULE WorkQueue ------------------------------
(***************************************************************************)
(* What a queue of tasks promises whoever publishes to it: a task is in one *)
(* place at a time, it is taken off the queue for good only after a handler *)
(* has finished it, and thrown away only if a handler broke on it. It may   *)
(* be finished more than once.                                              *)
(***************************************************************************)
CONSTANT Messages

VARIABLES
  place,     \* "ready", "unacked", "acked" or "rejected"
  finished,  \* messages some handler has returned from without an error
  broken     \* messages some handler has panicked on

vars == <<place, finished, broken>>

Init ==
  /\ place = [m \in Messages |-> "ready"]
  /\ finished = {}
  /\ broken = {}

Take(m) ==
  /\ place[m] = "ready"
  /\ place' = [place EXCEPT ![m] = "unacked"]
  /\ UNCHANGED <<finished, broken>>

(* A connection that ends gives back everything it held. *)
Return(S) ==
  /\ \A m \in S : place[m] = "unacked"
  /\ place' = [m \in Messages |-> IF m \in S THEN "ready" ELSE place[m]]
  /\ UNCHANGED <<finished, broken>>

Finish(m) == finished' = finished \union {m} /\ UNCHANGED <<place, broken>>

Break(m) == broken' = broken \union {m} /\ UNCHANGED <<place, finished>>

Complete(m) ==
  /\ place[m] = "unacked" /\ m \in finished
  /\ place' = [place EXCEPT ![m] = "acked"]
  /\ UNCHANGED <<finished, broken>>

Discard(m) ==
  /\ place[m] = "unacked" /\ m \in broken
  /\ place' = [place EXCEPT ![m] = "rejected"]
  /\ UNCHANGED <<finished, broken>>

Next ==
  \/ \E m \in Messages : Take(m) \/ Finish(m) \/ Break(m) \/ Complete(m) \/ Discard(m)
  \/ \E S \in SUBSET Messages : Return(S)

Spec == Init /\ [][Next]_vars
=============================================================================
