-------------------------- MODULE UpdateProtocol --------------------------
(***************************************************************************)
(* What Temporal expects of a workflow worker for every update it hands    *)
(* over: the callbacks of an update (bindings.UpdateCallbacks) are called  *)
(* in a legal order - exactly one verdict, Accept or Reject, and Complete  *)
(* at most once and only after Accept.  Abstract: it says nothing about    *)
(* queues, the PHP worker, or when a call is made.                         *)
(***************************************************************************)
CONSTANT UpdateIDs

VARIABLE stage      \* the stage each update has reached

Stages == {"none", "received", "accepted", "rejected", "completed"}

Init == stage = [u \in UpdateIDs |-> "none"]

Move(u, from, to) ==
    /\ stage[u] = from
    /\ stage' = [stage EXCEPT ![u] = to]

Receive(u)  == Move(u, "none", "received")
Accept(u)   == Move(u, "received", "accepted")
Reject(u)   == Move(u, "received", "rejected")
Complete(u) == Move(u, "accepted", "completed")

Next == \E u \in UpdateIDs : Receive(u) \/ Accept(u) \/ Reject(u) \/ Complete(u)

Spec == Init /\ [][Next]_stage
=============================================================================
