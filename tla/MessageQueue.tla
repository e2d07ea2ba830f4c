--------------------------- MODULE MessageQueue ---------------------------
(***************************************************************************)
(* queue.MessageQueue (src/queue/queue.go): the messages a workflow        *)
(* process has for its PHP worker and has not exchanged with it yet.  The  *)
(* mutex of the Go type makes each operation atomic; here a queue is a     *)
(* sequence and an operation maps a queue to a queue.                      *)
(*                                                                         *)
(* A message is a host command or an answer to a command of the worker.    *)
(* Payloads, headers and the sequence number of a host command are left    *)
(* out: nothing in the host reads them again.                              *)
(***************************************************************************)
EXTENDS Naturals, Sequences

HostCommands == {"StartWorkflow", "InvokeSignal", "CancelWorkflow", "InvokeUpdate"}
Answers == {"response", "error"}

(* What a message is about: `id' the worker's command an answer is for, or *)
(* the number of a signal; `upd' the update of an InvokeUpdate.            *)
HostMessage(type, n, u) == [type |-> type, id |-> n, upd |-> u]

PushCommandInFront(q, type, n, u) == <<HostMessage(type, n, u)>> \o q

PushCommand(q, type, n, u) == Append(q, HostMessage(type, n, u))

AnswerUntyped(id, ok, u) == HostMessage(IF ok THEN "response" ELSE "", id, u)

Answer(id, ok, u) == HostMessage(IF ok THEN "response" ELSE "error", id, u)

PushResponse(q, id, u) == Append(q, Answer(id, TRUE, u))

PushError(q, id, u) == Append(q, Answer(id, FALSE, u))

FlushNothing(q) == q

Flush(q) == << >>
=============================================================================
