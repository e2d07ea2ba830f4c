---------------------------- MODULE IDRegistry ----------------------------
(***************************************************************************)
(* registry.IDRegistry (src/registry/registry.go): for each child workflow *)
(* whether its execution is known, and who waits to hear of it.            *)
(*                                                                         *)
(* `known' maps the id of an ExecuteChildWorkflow command to "unknown", to *)
(* "ok" (the child started) or to "err" (it could not be started);         *)
(* `waiting' maps it to the GetChildWorkflowExecution command that listens *)
(* or to 0.  One entry per child: a second Listen replaces the first.      *)
(***************************************************************************)
EXTENDS Naturals

Outcomes == {"unknown", "ok", "err"}

(* Listen stores the listener before it looks the child up ...             *)
ListenersAfterListen(waiting, child, listener) == [waiting EXCEPT ![child] = listener]

(* ... and calls it at once when the child is known.                       *)
ListenCallsAlways(known, child) == TRUE

ListenCalls(known, child) == known[child] # "unknown"

(* Push stores the entry before it looks the listener up ...               *)
IdsAfterPush(known, child, outcome) == [known EXCEPT ![child] = outcome]

(* ... and calls the listener when there is one.                           *)
PushCallsNobody(waiting, child) == FALSE

PushCalls(waiting, child) == waiting[child] # 0
=============================================================================
