-------------------------- MODULE WorkflowProcess --------------------------
(***************************************************************************)
(* One workflow execution as the RoadRunner side runs it: the type         *)
(* Workflow of src/aggregatedpool/workflow.go and handler.go, together     *)
(* with the queue, the canceller and the id registry it owns.              *)
(*                                                                         *)
(* Three parties meet here.                                                *)
(*   - The HOST, the code under src/: variables pc .. completeCb.          *)
(*   - The ENVIRONMENT (external): the Temporal Go SDK, which applies      *)
(*     history events by calling the host's handlers, starts workflow      *)
(*     tasks, and answers the host's requests later, or inside the call.   *)
(*     It calls a workflow from one goroutine at a time and applies events *)
(*     only between tasks, so the handlers interleave at the granularity   *)
(*     of the actions below.                                               *)
(*   - The WORKER (external): the PHP process that runs the workflow code. *)
(*     It is only talked to by flushQueue: it gets the queue, and replies  *)
(*     with a batch of commands.                                           *)
(*                                                                         *)
(* A workflow task, OnWorkflowTaskStarted, is the sequence of actions from *)
(* TaskStarted to EndTask (or to a panic); pc says how far it is.          *)
(***************************************************************************)
EXTENDS Naturals, Sequences, FiniteSets, MessageQueue, Canceller, IDRegistry

CONSTANTS
    MaxCmds,        \* bound: messages the worker sends in one execution
    MaxBatch,       \* bound: messages in one reply of the worker
    MaxSignals,     \* bound: signals the environment delivers
    Kinds,          \* the kinds of message the worker sends
    SyncKinds,      \* the requests the environment may answer inside the call
    UpdateIDs,      \* the updates the environment delivers
    UpdateNames,    \* the names they have
    NameOf,         \* the name of each update
    NoUpdate,       \* the empty update id, ""
    MayCancel,      \* may the cancellation of the workflow be requested?
    MayReplay       \* may the execution begin with a replay of its history?

(* The requests that are answered through createCallback or                *)
(* createLocalActivityCallback when the environment has a result.          *)
Cancellable == {"ExecuteActivity", "ExecuteLocalActivity", "NewTimer", "ExecuteChildWorkflow"}
External == {"SignalExternalWorkflow", "CancelExternalWorkflow"}
Requests == Cancellable \cup External

Upserts == {"UpsertWorkflowSearchAttributes", "UpsertWorkflowTypedSearchAttributes", "UpsertMemo"}
Finishing == {"CompleteWorkflow", "ContinueAsNew"}
(* A worker error, an "undefined response" of the worker and a command the *)
(* switch of handleMessage has no case for.                                *)
Fatal == {"Panic", "UndefinedResponse", "Undefined"}
UpdateKinds == {"UpdateValidated", "UpdateCompleted"}
(* "Response" is the worker's answer to a host command: not a command.     *)
AllKinds == Requests \cup Upserts \cup Finishing \cup Fatal \cup UpdateKinds
              \cup {"GetChildWorkflowExecution", "GetVersion", "SideEffect", "Cancel", "Response"}

ASSUME BoundsAssumption == MaxCmds \in Nat /\ MaxBatch \in Nat /\ MaxSignals \in Nat
ASSUME KindsAssumption == Kinds \subseteq AllKinds /\ SyncKinds \subseteq Requests
ASSUME NameAssumption == NameOf \in [UpdateIDs -> UpdateNames]
ASSUME NoUpdateAssumption == NoUpdate \notin UpdateIDs
ASSUME SwitchAssumption == MayCancel \in BOOLEAN /\ MayReplay \in BOOLEAN

CmdIDs == 1 .. MaxCmds

VARIABLES
    (* The host. *)
    pc,             \* where the goroutine of the workflow is
    mq,             \* wp.mq: messages for the worker
    pipeline,       \* wp.pipeline: ids of the worker's messages to handle
    callbacks,      \* wp.callbacks: results to pass on in the next task
    canceller,      \* wp.canceller: the keys of the map
    ids,            \* wp.ids.ids: child executions
    listeners,      \* wp.ids.listeners: who waits for them
    updatesQueue,   \* wp.updatesQueue: names with updates to handle
    validateCb,     \* wp.updateValidateCb: its keys
    completeCb,     \* wp.updateCompleteCb: its keys
    (* The environment. *)
    pending,        \* requests it has not answered
    unstarted,      \* children it has not started
    settled,        \* requests it answered inside the call
    asked,          \* requests it was asked to cancel
    buffered,       \* updates queued by QueueUpdate, for each name
    upd,            \* how far each update is
    arrived,        \* the updates in the order they were delivered
    replaying,      \* env.IsReplaying()
    completed,      \* env.Complete was called
    woken,          \* an event was applied since the last task
    signals,        \* number of signals delivered
    cancelled,      \* cancellation of the workflow was requested
    (* The worker. *)
    issued,         \* every message it sent; the position is the id
    reply,          \* ids of the reply it is composing
    delivered,      \* every message the host exchanged with it
    validated,      \* updates it accepted
    destroyed       \* it got DestroyWorkflow

registryVars == <<ids, listeners>>
requestVars == <<pending, unstarted, settled, asked>>
updateVars == <<updatesQueue, validateCb, completeCb, buffered, upd, arrived>>
eventVars == <<replaying, completed, woken, signals, cancelled>>
workerVars == <<issued, reply, delivered, validated, destroyed>>
vars == <<pc, mq, pipeline, callbacks, canceller, registryVars, requestVars,
          updateVars, eventVars, workerVars>>

-----------------------------------------------------------------------------
(* Types.                                                                  *)

(* OnWorkflowTaskStarted is at its callbacks, its updates or its pipeline  *)
(* loop; "exec" and "execSideEffect" are a flushQueue that waits for the   *)
(* worker, called from the task or from the callback of a side effect.     *)
InExec == {"exec", "execSideEffect"}
InLoop == {"callbacks", "updates", "pipeline"} \cup InExec
Places == {"new", "idle", "panicked", "closed"} \cup InLoop

(* "buffered": delivered, its closure in the environment's queue;          *)
(* "scheduled": the closure ran; "illegal": a callback of the environment  *)
(* was called at a stage at which it must not be.                          *)
Stages == {"none", "buffered", "scheduled", "accepted", "rejected", "completed", "illegal"}

Message == [type : HostCommands \cup Answers, id : Nat, upd : UpdateIDs \cup {NoUpdate}]

(* internal.Message as it comes from the worker: the child a               *)
(* GetChildWorkflowExecution names, the update an UpdateValidated or       *)
(* UpdateCompleted names, the commands a Cancel names, a Failure or none.  *)
WorkerMessage == [cmd : AllKinds, child : 0 .. MaxCmds,
                  upd : UpdateIDs \cup {NoUpdate},
                  cmds : SUBSET CmdIDs, failed : BOOLEAN]

Result == [id : CmdIDs, ok : BOOLEAN]

HostTypeOK ==
    /\ pc \in Places
    /\ mq \in Seq(Message)
    /\ pipeline \in Seq(CmdIDs)
    /\ callbacks \in Seq(Result)
    /\ canceller \subseteq CmdIDs
    /\ ids \in [CmdIDs -> Outcomes]
    /\ listeners \in [CmdIDs -> 0 .. MaxCmds]
    /\ updatesQueue \subseteq UpdateNames
    /\ validateCb \subseteq UpdateIDs
    /\ completeCb \subseteq UpdateIDs

EnvTypeOK ==
    /\ pending \subseteq CmdIDs
    /\ unstarted \subseteq CmdIDs
    /\ settled \subseteq CmdIDs
    /\ asked \subseteq CmdIDs
    /\ buffered \in [UpdateNames -> Seq(UpdateIDs)]
    /\ upd \in [UpdateIDs -> Stages]
    /\ arrived \in Seq(UpdateIDs)
    /\ replaying \in BOOLEAN
    /\ completed \in BOOLEAN
    /\ woken \in BOOLEAN
    /\ signals \in 0 .. MaxSignals
    /\ cancelled \in BOOLEAN

WorkerTypeOK ==
    /\ issued \in Seq(WorkerMessage)
    /\ Len(issued) <= MaxCmds
    /\ reply \in Seq(CmdIDs)
    /\ delivered \in Seq(Message)
    /\ validated \subseteq UpdateIDs
    /\ destroyed \in BOOLEAN

TypeOK == HostTypeOK /\ EnvTypeOK /\ WorkerTypeOK

-----------------------------------------------------------------------------
(* NewWorkflowDefinition: a fresh definition, nothing executed yet.        *)
Init ==
    /\ pc = "new"
    /\ mq = << >> /\ pipeline = << >> /\ callbacks = << >>
    /\ canceller = {}
    /\ ids = [c \in CmdIDs |-> "unknown"]
    /\ listeners = [c \in CmdIDs |-> 0]
    /\ updatesQueue = {} /\ validateCb = {} /\ completeCb = {}
    /\ pending = {} /\ unstarted = {} /\ settled = {} /\ asked = {}
    /\ buffered = [n \in UpdateNames |-> << >>]
    /\ upd = [u \in UpdateIDs |-> "none"]
    /\ arrived = << >>
    /\ replaying \in {FALSE, MayReplay}
    /\ completed = FALSE /\ woken = FALSE
    /\ signals = 0 /\ cancelled = FALSE
    /\ issued = << >> /\ reply = << >> /\ delivered = << >>
    /\ validated = {} /\ destroyed = FALSE

(* Execute: queue StartWorkflow.  It runs once per definition; the fields  *)
(* it resets are still as Init has them.                                   *)
Execute ==
    /\ pc = "new"
    /\ pc' = "idle"
    /\ mq' = PushCommand(mq, "StartWorkflow", 0, NoUpdate)
    /\ woken' = TRUE
    /\ UNCHANGED <<pipeline, callbacks, canceller, registryVars, requestVars,
                   updateVars, replaying, completed, signals, cancelled,
                   workerVars>>

-----------------------------------------------------------------------------
(* Events the environment applies between two tasks.                       *)

Event == pc = "idle" /\ ~completed /\ woken' = TRUE

handleSignal ==
    /\ Event
    /\ signals < MaxSignals
    /\ signals' = signals + 1
    /\ mq' = PushCommand(mq, "InvokeSignal", signals', NoUpdate)
    /\ UNCHANGED <<pc, pipeline, callbacks, canceller, registryVars, requestVars,
                   updateVars, replaying, completed, cancelled, workerVars>>

handleCancel ==
    /\ Event
    /\ MayCancel /\ ~cancelled
    /\ cancelled' = TRUE
    /\ mq' = PushCommand(mq, "CancelWorkflow", 0, NoUpdate)
    /\ UNCHANGED <<pc, pipeline, callbacks, canceller, registryVars, requestVars,
                   updateVars, replaying, completed, signals, workerVars>>

(* An update is announced: remember its name, queue its closure.           *)
handleUpdate(u) ==
    /\ Event
    /\ upd[u] = "none"
    /\ upd' = [upd EXCEPT ![u] = "buffered"]
    /\ updatesQueue' = updatesQueue \cup {NameOf[u]}
    /\ buffered' = [buffered EXCEPT ![NameOf[u]] = Append(@, u)]
    /\ arrived' = Append(arrived, u)
    /\ UNCHANGED <<pc, mq, pipeline, callbacks, canceller, registryVars,
                   requestVars, validateCb, completeCb, replaying, completed,
                   signals, cancelled, workerVars>>

(* createCallback, outside the loop: a result waits for the next task.     *)
AddOnlyCallback(id, ok) == callbacks' = <<[id |-> id, ok |-> ok]>>
AddCallback(id, ok) == callbacks' = Append(callbacks, [id |-> id, ok |-> ok])

(* The environment has the result of a request.                            *)
Resolve(c, ok) ==
    /\ Event
    /\ c \in pending \ unstarted
    /\ pending' = pending \ {c}
    /\ AddCallback(c, ok)
    /\ UNCHANGED <<pc, mq, pipeline, canceller, registryVars, unstarted, settled,
                   asked, updateVars, replaying, completed, signals, cancelled,
                   workerVars>>

(* The started handler of ExecuteChildWorkflow: Push into the registry,    *)
(* whose listener is a GetChildWorkflowExecution of the worker.            *)
ChildStarted(c) ==
    /\ Event
    /\ c \in unstarted
    /\ unstarted' = unstarted \ {c}
    /\ ids' = IdsAfterPush(ids, c, "ok")
    /\ IF PushCalls(listeners, c)
         THEN AddCallback(listeners[c], TRUE)
         ELSE UNCHANGED callbacks
    /\ UNCHANGED <<pc, mq, pipeline, canceller, listeners, pending, settled,
                   asked, updateVars, replaying, completed, signals, cancelled,
                   workerVars>>

(* The child could not be started (or was cancelled before): the started   *)
(* handler gets the error, then the result handler does.                   *)
ChildStartFailed(c) ==
    /\ Event
    /\ c \in unstarted
    /\ unstarted' = unstarted \ {c}
    /\ pending' = pending \ {c}
    /\ ids' = IdsAfterPush(ids, c, "err")
    /\ LET told == IF PushCalls(listeners, c)
                     THEN Append(callbacks, [id |-> listeners[c], ok |-> FALSE])
                     ELSE callbacks
       IN  callbacks' = Append(told, [id |-> c, ok |-> FALSE])
    /\ UNCHANGED <<pc, mq, pipeline, canceller, listeners, settled, asked,
                   updateVars, replaying, completed, signals, cancelled,
                   workerVars>>

(* The replay has caught up with the history.                              *)
ReplayEnds ==
    /\ pc = "idle" /\ replaying
    /\ replaying' = FALSE
    /\ UNCHANGED <<pc, mq, pipeline, callbacks, canceller, registryVars,
                   requestVars, updateVars, completed, woken, signals, cancelled,
                   workerVars>>

-----------------------------------------------------------------------------
(* OnWorkflowTaskStarted.                                                  *)

TaskStarted ==
    /\ pc = "idle" /\ woken /\ ~completed
    /\ pc' = "callbacks"
    /\ woken' = FALSE
    /\ UNCHANGED <<mq, pipeline, callbacks, canceller, registryVars, requestVars,
                   updateVars, replaying, completed, signals, cancelled,
                   workerVars>>

(* The callbacks that have run are dropped (wp.callbacks = nil).           *)
CallbacksKept(run) == run
CallbacksLeft(run) == << >>

(* Run the callbacks: each discards its canceller and queues its answer.   *)
RunCallbacks ==
    /\ pc = "callbacks"
    /\ pc' = "updates"
    /\ mq' = mq \o [i \in 1 .. Len(callbacks) |->
                      Answer(callbacks[i].id, callbacks[i].ok, NoUpdate)]
    /\ canceller' = {c \in canceller : \A i \in 1 .. Len(callbacks) :
                                         c \in Discard(canceller, callbacks[i].id)}
    /\ callbacks' = CallbacksLeft(callbacks)
    /\ UNCHANGED <<pipeline, registryVars, requestVars, updateVars, eventVars,
                   workerVars>>

(* The names that still have updates to handle after those of n.           *)
NamesForgotten(names, n) == {}
NamesLeft(names, n) == names \ {n}

(* env.HandleQueuedUpdates for one name: every closure queued under it     *)
(* registers both callbacks of its update and queues InvokeUpdate.  The    *)
(* names come in the order of a Go map, that is, in any order.             *)
HandleQueuedUpdates(n) ==
    /\ pc = "updates"
    /\ n \in updatesQueue
    /\ LET queued == buffered[n]
           us == {queued[i] : i \in 1 .. Len(queued)}
       IN  /\ validateCb' = validateCb \cup us
           /\ completeCb' = completeCb \cup us
           /\ mq' = mq \o [i \in 1 .. Len(queued) |-> HostMessage("InvokeUpdate", 0, queued[i])]
           /\ upd' = [u \in UpdateIDs |-> IF u \in us THEN "scheduled" ELSE upd[u]]
    /\ buffered' = [buffered EXCEPT ![n] = << >>]
    /\ updatesQueue' = NamesLeft(updatesQueue, n)
    /\ UNCHANGED <<pc, pipeline, callbacks, canceller, registryVars, requestVars,
                   arrived, eventVars, workerVars>>

(* The first half of flushQueue: nothing to do, or the messages go to the  *)
(* worker and the host waits at `exec'.                                    *)
Exchange(q, exec) == pc' = IF q = << >> THEN "pipeline" ELSE exec

(* All names are done: the first flush of the task.                        *)
FlushTask ==
    /\ pc = "updates"
    /\ updatesQueue = {}
    /\ Exchange(mq, "exec")
    /\ UNCHANGED <<mq, pipeline, callbacks, canceller, registryVars, requestVars,
                   updateVars, eventVars, workerVars>>

-----------------------------------------------------------------------------
(* The worker composes a reply.  It is well behaved: ids are fresh, and    *)
(* what a message names exists.                                            *)

InvokedUpdates ==
    {m.upd : m \in {delivered[i] : i \in 1 .. Len(delivered)} \cup
                   {mq[i] : i \in 1 .. Len(mq)}} \ {NoUpdate}

IssuedAs(kinds) == {c \in 1 .. Len(issued) : issued[c].cmd \in kinds}

(* A message of the worker with the one field its kind uses.               *)
Sent(k, child, u, cmds, failed) ==
    [cmd |-> k, child |-> child, upd |-> u, cmds |-> cmds, failed |-> failed]

WorkerSends(m) ==
    /\ pc \in InExec
    /\ Len(reply) < MaxBatch
    /\ Len(issued) < MaxCmds
    /\ m.cmd \in Kinds
    /\ issued' = Append(issued, m)
    /\ reply' = Append(reply, Len(issued'))
    /\ validated' = IF m.cmd = "UpdateValidated" /\ ~m.failed
                      THEN validated \cup ({m.upd} \ {NoUpdate})
                      ELSE validated
    /\ UNCHANGED <<pc, mq, pipeline, callbacks, canceller, registryVars,
                   requestVars, updateVars, eventVars, delivered, destroyed>>

(* What the worker may send next.  It asks once for the execution of a     *)
(* child it has started, cancels up to two of its requests at once, and    *)
(* completes an update only after it has accepted it; it may repeat itself *)
(* about an update, and forget its id.  During a replay it does not        *)
(* validate, so it refuses nothing.                                        *)
Worker ==
    \/ \E k \in Requests \cup Upserts \cup Finishing \cup Fatal
                  \cup {"GetVersion", "SideEffect", "Response"} :
         WorkerSends(Sent(k, 0, NoUpdate, {}, FALSE))
    \/ \E c \in IssuedAs({"ExecuteChildWorkflow"}) :
         /\ \A i \in 1 .. Len(issued) : issued[i].child # c
         /\ WorkerSends(Sent("GetChildWorkflowExecution", c, NoUpdate, {}, FALSE))
    \/ \E a, b \in IssuedAs(Cancellable) :
         WorkerSends(Sent("Cancel", 0, NoUpdate, {a, b}, FALSE))
    \/ \E u \in InvokedUpdates \cup {NoUpdate} :
         \/ WorkerSends(Sent("UpdateValidated", 0, u, {}, FALSE))
         \/ ~replaying /\ WorkerSends(Sent("UpdateValidated", 0, u, {}, TRUE))
    \/ \E u \in validated \cup {NoUpdate} :
         WorkerSends(Sent("UpdateCompleted", 0, u, {}, FALSE))

(* The second half of flushQueue: the worker has answered, the queue is    *)
(* emptied and the reply joins the pipeline ...                            *)
ExecReturns ==
    /\ pc \in InExec
    /\ pc' = "pipeline"
    /\ mq' = Flush(mq)
    /\ pipeline' = pipeline \o reply
    /\ reply' = << >>
    /\ delivered' = delivered \o mq
    /\ UNCHANGED <<callbacks, canceller, registryVars, requestVars, updateVars,
                   eventVars, issued, validated, destroyed>>

(* ... or encoding, the pool, the worker or decoding failed: the queue     *)
(* keeps its messages and the task panics.  A panic in the callback of a   *)
(* side effect passes the line that drops the pipeline.  `delivered' holds *)
(* the exchanges that ended: whatever the worker saw of this one is not    *)
(* sent again, as only Close follows and it drops the queue.               *)
ExecFails ==
    /\ pc \in InExec
    /\ pc' = "panicked"
    /\ pipeline' = IF pc = "execSideEffect" THEN pipeline ELSE << >>
    /\ reply' = << >>
    /\ UNCHANGED <<mq, callbacks, canceller, registryVars, requestVars,
                   updateVars, eventVars, issued, delivered, validated,
                   destroyed>>

-----------------------------------------------------------------------------
(* The pipeline loop and the cases of handleMessage.                       *)

(* The first message of the pipeline is `id', one of `kinds'.              *)
Handling(id, kinds) ==
    /\ pc = "pipeline"
    /\ pipeline # << >>
    /\ id = Head(pipeline)
    /\ id \in IssuedAs(kinds)

Handled == pc' = pc /\ pipeline' = Tail(pipeline)

(* handleMessage returned an error, or the worker's response was undefined *)
Panics == pc' = "panicked" /\ pipeline' = << >>

(* The environment takes a request.  It answers later, or inside the call  *)
(* (a timer of no length, a request it refuses): then the callback runs in *)
(* the loop and the answer joins the queue without a flush.                *)
Takes(id) ==
    \/ /\ pending' = pending \cup {id}
       /\ UNCHANGED <<mq, settled>>
    \/ /\ issued[id].cmd \in SyncKinds
       /\ settled' = settled \cup {id}
       /\ \E ok \in BOOLEAN : mq' = Append(mq, Answer(id, ok, NoUpdate))
       /\ UNCHANGED pending

(* Activities, local activities, timers and requests to other workflows;   *)
(* the last are not cancellable, and nothing is registered for them.       *)
(* Register comes after the call, also when the callback has already run   *)
(* and discarded the id.                                                   *)
HandleRequest(id) ==
    /\ Handling(id, Requests \ {"ExecuteChildWorkflow"})
    /\ Handled
    /\ Takes(id)
    /\ canceller' = IF issued[id].cmd \in Cancellable
                      THEN Register(canceller, id)
                      ELSE canceller
    /\ UNCHANGED <<callbacks, registryVars, unstarted, asked, updateVars,
                   eventVars, workerVars>>

HandleExecuteChildWorkflow(id) ==
    /\ Handling(id, {"ExecuteChildWorkflow"})
    /\ Handled
    /\ \/ /\ pending' = pending \cup {id}
          /\ unstarted' = unstarted \cup {id}
          /\ UNCHANGED <<mq, ids, settled>>
       \/ /\ "ExecuteChildWorkflow" \in SyncKinds
          /\ settled' = settled \cup {id}
          /\ ids' = IdsAfterPush(ids, id, "err")
          /\ mq' = PushError(mq, id, NoUpdate)
          /\ UNCHANGED <<pending, unstarted>>
    /\ canceller' = Register(canceller, id)
    /\ UNCHANGED <<callbacks, listeners, asked, updateVars, eventVars,
                   workerVars>>

(* Listen: a child that is known is answered at once, in the loop.  The    *)
(* listener panics when its two strings do not convert; they always do.    *)
HandleGetChildWorkflowExecution(id) ==
    /\ Handling(id, {"GetChildWorkflowExecution"})
    /\ Handled
    /\ LET child == issued[id].child
       IN  /\ listeners' = ListenersAfterListen(listeners, child, id)
           /\ IF ListenCalls(ids, child)
                THEN /\ mq' = Append(mq, Answer(id, ids[child] = "ok", NoUpdate))
                     /\ canceller' = Discard(canceller, id)
                ELSE UNCHANGED <<mq, canceller>>
    /\ UNCHANGED <<callbacks, ids, requestVars, updateVars, eventVars,
                   workerVars>>

(* The answer is queued and flushed; converting the version may fail.      *)
HandleGetVersion(id) ==
    /\ Handling(id, {"GetVersion"})
    /\ \/ /\ mq' = PushResponse(mq, id, NoUpdate)
          /\ Exchange(mq', "exec")
          /\ pipeline' = Tail(pipeline)
       \/ /\ Panics
          /\ UNCHANGED mq
    /\ UNCHANGED <<callbacks, canceller, registryVars, requestVars, updateVars,
                   eventVars, workerVars>>

(* createContinuableCallback, called by the environment inside SideEffect: *)
(* an answer is flushed from within the callback, an error only queued.    *)
HandleSideEffect(id) ==
    /\ Handling(id, {"SideEffect"})
    /\ \/ /\ mq' = PushResponse(mq, id, NoUpdate)
          /\ Exchange(mq', "execSideEffect")
       \/ /\ mq' = PushError(mq, id, NoUpdate)
          /\ UNCHANGED pc
    /\ pipeline' = Tail(pipeline)
    /\ canceller' = Discard(canceller, id)
    /\ UNCHANGED <<callbacks, registryVars, requestVars, updateVars, eventVars,
                   workerVars>>

HandleFinishing(id) ==
    /\ Handling(id, Finishing)
    /\ Handled
    /\ mq' = PushResponse(mq, id, NoUpdate)
    /\ completed' = TRUE
    /\ UNCHANGED <<callbacks, canceller, registryVars, requestVars, updateVars,
                   replaying, woken, signals, cancelled, workerVars>>

(* What is not answered.  The environment may refuse an upsert, a typed    *)
(* attribute may not parse, and a Panic that carries no failure is no      *)
(* error.                                                                  *)
HandleUnanswered(id) ==
    /\ \/ Handling(id, Upserts \cup {"Response", "Panic"}) /\ Handled
       \/ Handling(id, Upserts \cup Fatal) /\ Panics
    /\ UNCHANGED <<mq, callbacks, canceller, registryVars, requestVars,
                   updateVars, eventVars, workerVars>>

(* Any sequence, without repetition, of elements of S.                     *)
Orders(S) == {s \in UNION {[1 .. n -> S] : n \in 0 .. Cardinality(S)} :
                \A i, j \in DOMAIN s : s[i] = s[j] => i = j}

(* Cancel: run the registered closures of the named commands.  The         *)
(* environment may answer a pending request inside the closure, with an    *)
(* error; those answers precede the answer to the Cancel itself.           *)
HandleCancel(id) ==
    /\ Handling(id, {"Cancel"})
    /\ LET cmds == issued[id].cmds
           run == Cancelled(canceller, cmds)
       IN  \E now \in Orders(run \cap (pending \ unstarted)) :
             /\ asked' = asked \cup run
             /\ canceller' = CancelRemaining(canceller, cmds)
             /\ pending' = pending \ {now[i] : i \in DOMAIN now}
             /\ mq' = PushResponse(mq \o [i \in DOMAIN now |-> Answer(now[i], FALSE, NoUpdate)],
                                   id, NoUpdate)
    /\ Exchange(mq', "exec")
    /\ pipeline' = Tail(pipeline)
    /\ UNCHANGED <<callbacks, registryVars, unstarted, settled, updateVars,
                   eventVars, workerVars>>

EndTask ==
    /\ pc = "pipeline"
    /\ pipeline = << >>
    /\ pc' = "idle"
    /\ UNCHANGED <<mq, pipeline, callbacks, canceller, registryVars, requestVars,
                   updateVars, eventVars, workerVars>>

-----------------------------------------------------------------------------
(* Updates: the worker's verdict and its result.                           *)

(* A callback of the environment moves an update on; at any other stage    *)
(* than `from' the call is one the environment does not expect.            *)
Calls(u, from, to) == upd' = [upd EXCEPT ![u] = IF @ = from THEN to ELSE "illegal"]

(* The closure in updateValidateCb: before acceptance the only alternative *)
(* is to reject, and a replay only ever accepts.                           *)
Verdict(u, failed) ==
    Calls(u, "scheduled", IF ~replaying /\ failed THEN "rejected" ELSE "accepted")

(* The two callbacks after the verdict.                                    *)
ValidateKept(cbs, u) == cbs
ValidateLeft(cbs, u) == cbs \ {u}
CompleteKept(cbs, u, failed) == cbs
CompleteLeft(cbs, u, failed) == IF failed THEN cbs \ {u} ELSE cbs

(* No id is an error, an unknown id is only logged.                        *)
HandleUpdateValidated(id) ==
    /\ Handling(id, {"UpdateValidated"})
    /\ LET u == issued[id].upd
           failed == issued[id].failed
       IN  \/ /\ u = NoUpdate
              /\ Panics
              /\ UNCHANGED <<validateCb, completeCb, upd>>
           \/ /\ u \in UpdateIDs \ validateCb
              /\ Handled
              /\ UNCHANGED <<validateCb, completeCb, upd>>
           \/ /\ u \in validateCb
              /\ Handled
              /\ Verdict(u, failed)
              /\ validateCb' = ValidateLeft(validateCb, u)
              /\ completeCb' = CompleteLeft(completeCb, u, failed)
    /\ UNCHANGED <<mq, callbacks, canceller, registryVars, requestVars,
                   updatesQueue, buffered, arrived, eventVars, workerVars>>

HandleUpdateCompleted(id) ==
    /\ Handling(id, {"UpdateCompleted"})
    /\ LET u == issued[id].upd
       IN  \/ /\ u = NoUpdate
              /\ Panics
              /\ UNCHANGED <<completeCb, upd>>
           \/ /\ u \in UpdateIDs \ completeCb
              /\ Handled
              /\ UNCHANGED <<completeCb, upd>>
           \/ /\ u \in completeCb
              /\ Handled
              /\ Calls(u, "accepted", "completed")
              /\ completeCb' = completeCb \ {u}
    /\ UNCHANGED <<mq, callbacks, canceller, registryVars, requestVars,
                   updatesQueue, validateCb, buffered, arrived, eventVars,
                   workerVars>>

-----------------------------------------------------------------------------
(* DestroyWorkflow, sent on its own and not through the queue: the worker  *)
(* gets it, or encoding, the pool or the worker failed.                    *)
runCommand == destroyed' \in BOOLEAN

(* Close: the execution is evicted, finished or has panicked.  Updates     *)
(* still buffered are drained: their closures run and queue InvokeUpdate;  *)
(* then DestroyWorkflow is sent on its own, its outcome is ignored, and    *)
(* the queue is flushed.                                                   *)
Close ==
    /\ pc \in {"idle", "panicked"}
    /\ pc' = "closed"
    /\ LET drained == {u \in UpdateIDs : upd[u] = "buffered"}
       IN  /\ upd' = [u \in UpdateIDs |-> IF u \in drained THEN "scheduled" ELSE upd[u]]
           /\ validateCb' = validateCb \cup drained
    /\ buffered' = [n \in UpdateNames |-> << >>]
    /\ updatesQueue' = {}
    /\ completeCb' = {}
    /\ runCommand
    /\ mq' = Flush(mq)
    /\ UNCHANGED <<pipeline, callbacks, canceller, registryVars, requestVars,
                   arrived, eventVars, issued, reply, delivered, validated>>

(* A closed execution is never used again.                                 *)
Closed == pc = "closed" /\ UNCHANGED vars

Events ==
    \/ handleSignal \/ handleCancel \/ ReplayEnds
    \/ \E u \in UpdateIDs : handleUpdate(u)
    \/ \E c \in CmdIDs : \/ \E ok \in BOOLEAN : Resolve(c, ok)
                         \/ ChildStarted(c)
                         \/ ChildStartFailed(c)

HandleMessage(id) ==
    \/ HandleRequest(id)
    \/ HandleExecuteChildWorkflow(id) \/ HandleGetChildWorkflowExecution(id)
    \/ HandleGetVersion(id) \/ HandleSideEffect(id) \/ HandleCancel(id)
    \/ HandleUpdateValidated(id) \/ HandleUpdateCompleted(id)
    \/ HandleFinishing(id) \/ HandleUnanswered(id)

Task ==
    \/ TaskStarted \/ RunCallbacks
    \/ \E n \in UpdateNames : HandleQueuedUpdates(n)
    \/ FlushTask \/ ExecReturns \/ ExecFails
    \/ \E id \in CmdIDs : HandleMessage(id)
    \/ EndTask

Next ==
    \/ Execute \/ Events \/ Task \/ Worker
    \/ Close \/ Closed

Spec == Init /\ [][Next]_vars

(* Fairness.  The SDK starts a task for every event it has applied, and a  *)
(* task runs to its end: the host's own steps need nobody, and an exchange *)
(* with the worker ends, in a reply or in an error.  Events and the        *)
(* eviction of an idle execution may never come.                           *)
FairSpec == Spec /\ WF_vars(Task)

-----------------------------------------------------------------------------
(* Properties.                                                             *)

(* Everything the worker has been or will be told, in order.               *)
Conversation == delivered \o mq

(* The worker waits for one answer to each of its requests: whatever the   *)
(* order of results, synchronous answers, cancels and failed exchanges, no *)
(* request is ever answered a second time (createCallback, wp.callbacks,   *)
(* the listeners of the registry).                                         *)
Unrepeated(q) ==
    \A i, j \in 1 .. Len(q) :
        q[i].type \in Answers /\ q[j].type \in Answers /\ q[i].id = q[j].id => i = j
AnsweredOnce == Unrepeated(Conversation)

(* A request the host has taken is never forgotten: until the execution    *)
(* panics or is closed the environment owes its result, or a listener is   *)
(* registered for it, or its answer is queued or delivered.                *)
Heads == {pipeline[i] : i \in 1 .. Len(pipeline)} \cup {reply[i] : i \in 1 .. Len(reply)}
Waiting == {listeners[c] : c \in {d \in CmdIDs : ids[d] = "unknown"}} \ {0}
Due == {callbacks[i].id : i \in 1 .. Len(callbacks)}
AnswerIds(q) == {q[i].id : i \in {j \in 1 .. Len(q) : q[j].type \in Answers}}
Answered == Due \cup AnswerIds(Conversation)

NoRequestForgotten ==
    pc \notin {"panicked", "closed"} =>
        \A c \in IssuedAs(Requests \cup {"GetChildWorkflowExecution"}) :
            c \in Heads \cup pending \cup Waiting \cup Answered

(* The worker hears of the workflow before anything else, and of every     *)
(* signal exactly once and in the order of the history, until the          *)
(* execution is closed (Execute, handleSignal, flushQueue).                *)
Signalled == {i \in 1 .. Len(Conversation) : Conversation[i].type = "InvokeSignal"}
StartThenSignalsInOrder ==
    pc \notin {"new", "closed"} =>
        /\ Conversation # << >> /\ Conversation[1].type = "StartWorkflow"
        /\ \A i \in Signalled : Conversation[i].id \in 1 .. signals
        /\ \A i, j \in Signalled : i < j => Conversation[i].id < Conversation[j].id
        /\ \A k \in 1 .. signals : \E i \in Signalled : Conversation[i].id = k

(* Before a task handles the first message of the worker, everything that  *)
(* happened since the last task has been handed over: no callback, no      *)
(* buffered update and no host command is left behind.                     *)
TaskHandsOverEverything ==
    pc = "pipeline" =>
        /\ callbacks = << >>
        /\ \A n \in UpdateNames : buffered[n] = << >>
        /\ \A i \in 1 .. Len(mq) : mq[i].type \in Answers

(* A Cancel of the worker finds every request that is still running: the   *)
(* canceller holds a closure for each that was not asked to cancel yet,    *)
(* and besides those only the ones that were answered inside the call, or  *)
(* whose result the next task will pass on.                                *)
CancellerTracksPending ==
    pc \notin {"panicked", "closed"} =>
        /\ \A c \in pending : issued[c].cmd \in Cancellable => c \in canceller \cup asked
        /\ canceller \subseteq pending \cup settled \cup Due

(* No update is stranded in the environment's queue: as long as a name has *)
(* buffered updates the next task knows it must handle that name.          *)
NoUpdateStranded ==
    pc # "closed" => \A n \in UpdateNames : buffered[n] # << >> => n \in updatesQueue

(* Updates of one name reach the worker in the order they were delivered,  *)
(* each once, although the names are walked in the order of a Go map.      *)
Invocations == {i \in 1 .. Len(Conversation) : Conversation[i].type = "InvokeUpdate"}
Arrived(u) == \E i \in 1 .. Len(arrived) : arrived[i] = u
Before(u, w) == \E i, j \in 1 .. Len(arrived) : i < j /\ arrived[i] = u /\ arrived[j] = w
Buffered(u) == \E i \in 1 .. Len(buffered[NameOf[u]]) : buffered[NameOf[u]][i] = u
SameName(i, j) == NameOf[Conversation[i].upd] = NameOf[Conversation[j].upd]

InvokedInOrder ==
    \A i, j \in Invocations :
        i < j /\ SameName(i, j) => Before(Conversation[i].upd, Conversation[j].upd)
InvokedBeforeBuffered ==
    \A i \in Invocations :
        LET queued == buffered[NameOf[Conversation[i].upd]]
        IN  \A k \in 1 .. Len(queued) : Before(Conversation[i].upd, queued[k])
BufferedInOrder ==
    \A n \in UpdateNames : \A j, k \in 1 .. Len(buffered[n]) :
        j < k => Before(buffered[n][j], buffered[n][k])
ArrivedAreThere ==
    /\ \A i \in Invocations : Arrived(Conversation[i].upd)
    /\ \A n \in UpdateNames : \A i \in 1 .. Len(buffered[n]) :
         NameOf[buffered[n][i]] = n /\ Arrived(buffered[n][i])
    /\ \A u \in UpdateIDs :
         Arrived(u) => Buffered(u) \/ \E i \in Invocations : Conversation[i].upd = u

UpdatesInOrder ==
    pc # "closed" =>
        /\ \A i, j \in 1 .. Len(arrived) : arrived[i] = arrived[j] => i = j
        /\ InvokedInOrder
        /\ InvokedBeforeBuffered
        /\ BufferedInOrder
        /\ ArrivedAreThere

(* An accepted update can still be completed: its completion callback      *)
(* lives exactly from the invocation to the completion or the rejection.   *)
AcceptedCanComplete ==
    pc # "closed" =>
        \A u \in UpdateIDs : upd[u] \in {"scheduled", "accepted"} <=> u \in completeCb

(* The host implements the update protocol of Temporal: the environment's  *)
(* callbacks are called in a legal order whatever the worker repeats.      *)
Stage == [u \in UpdateIDs |->
            IF upd[u] \in {"buffered", "scheduled"} THEN "received" ELSE upd[u]]
UP == INSTANCE UpdateProtocol WITH stage <- Stage
UpdatesFollowProtocol == UP!Spec

(* Why the protocol is kept: the invariant that is inductive.              *)

(* The worker's messages are handled in the order it sent them.            *)
HandledInOrder ==
    /\ \A i, j \in 1 .. Len(pipeline) : i < j => pipeline[i] < pipeline[j]
    /\ \A i, j \in 1 .. Len(reply) : i < j => reply[i] < reply[j]
    /\ \A i \in 1 .. Len(pipeline), j \in 1 .. Len(reply) : pipeline[i] < reply[j]
    /\ \A c \in Heads : c <= Len(issued)

(* The callbacks of an update exist only at the stages that allow them.    *)
CallbacksAtStage ==
    /\ \A n \in UpdateNames : \A i \in 1 .. Len(buffered[n]) :
         upd[buffered[n][i]] = "buffered" /\ NameOf[buffered[n][i]] = n
    /\ \A u \in validateCb : upd[u] = "scheduled"
    /\ \A u \in completeCb : u \in validateCb \/ upd[u] = "accepted"

(* The worker only knows of updates whose closure has run.                 *)
Invoked(u) == upd[u] \notin {"none", "buffered"}
Told(q) == \A i \in 1 .. Len(q) : q[i].upd # NoUpdate => Invoked(q[i].upd)
KnowsInvoked ==
    /\ Told(mq)
    /\ Told(delivered)
    /\ \A u \in validated : Invoked(u)
    /\ \A c \in IssuedAs({"UpdateCompleted"}) :
         issued[c].upd # NoUpdate => issued[c].upd \in validated

(* The verdict of an update is on its way before its completion is.        *)
About(c, kind, u) == issued[c].cmd = kind /\ issued[c].upd = u
VerdictFirst ==
    pc \notin {"panicked", "closed"} =>
        \A u \in validateCb :
            /\ u \in validated => \E v \in Heads : About(v, "UpdateValidated", u)
            /\ \A c \in Heads : About(c, "UpdateCompleted", u)
                 => \E v \in Heads : v < c /\ About(v, "UpdateValidated", u)

(* A completion that the worker sends is never handled before the verdict  *)
(* on the same update, however replies, side effects and failures fall:    *)
(* together with the bookkeeping it rests on this is what keeps the calls  *)
(* of handleMessage into UpdateCallbacks legal.                            *)
UpdateInvariant == HandledInOrder /\ CallbacksAtStage /\ KnowsInvoked /\ VerdictFirst

(* Why a request is answered once and never forgotten.                     *)

(* A request is with one party at a time: on its way to the host, with the *)
(* environment, with the listener of a child, due in the next task, or     *)
(* answered.                                                               *)
OneOwner ==
    /\ AnsweredOnce
    /\ \A i, j \in 1 .. Len(callbacks) : callbacks[i].id = callbacks[j].id => i = j
    /\ Heads \cap (pending \cup Waiting \cup Answered) = {}
    /\ pending \cap (Waiting \cup Answered) = {}
    /\ Waiting \cap Answered = {}
    /\ Due \cap AnswerIds(Conversation) = {}
    /\ pending \cup Answered \subseteq 1 .. Len(issued)

(* A child is asked for once, after the command that starts it.            *)
AskedOnce ==
    /\ \A g \in IssuedAs({"GetChildWorkflowExecution"}) : issued[g].child # 0
    /\ \A g \in 1 .. Len(issued) : issued[g].child # 0 =>
         /\ issued[g].child < g
         /\ \A h \in 1 .. Len(issued) : issued[h].child = issued[g].child => h = g

(* A listener is the request that asked for the child, and was handled     *)
(* before everything that is still to be handled.                          *)
ListenersAsked ==
    \A c \in CmdIDs : listeners[c] # 0 =>
        /\ listeners[c] \in 1 .. Len(issued)
        /\ issued[listeners[c]].child = c
        /\ \A h \in Heads : listeners[c] < h

(* A child that is known has been asked of the environment, which has      *)
(* nothing to say of one it has not started.                               *)
KnownChildren ==
    /\ unstarted \subseteq pending
    /\ \A c \in CmdIDs : ids[c] # "unknown" => c \notin Heads \cup unstarted /\ c <= Len(issued)

(* However results, synchronous answers, listeners, cancels and failed     *)
(* exchanges fall, each request of the worker has one owner, and a         *)
(* listener cannot be replaced while it waits (createCallback, Listen,     *)
(* Push): what AnsweredOnce and NoRequestForgotten rest on.                *)
RequestInvariant == OneOwner /\ AskedOnce /\ ListenersAsked /\ KnownChildren

(* Why a task hands over everything: what is left at each place of it.     *)
TaskInvariant ==
    /\ pc \in {"updates", "pipeline"} \cup InExec => callbacks = << >>
    /\ pc \in {"pipeline"} \cup InExec => updatesQueue = {}
    /\ pc = "pipeline" => \A i \in 1 .. Len(mq) : mq[i].type \in Answers
    /\ pc = "new" => mq = << >> /\ delivered = << >> /\ signals = 0

(* Why an accepted update can be completed: a closure that ran has left    *)
(* both callbacks, and during a replay no verdict refuses.                 *)
CallbackInvariant ==
    /\ pc # "closed" => \A u \in UpdateIDs :
         /\ upd[u] = "scheduled" => u \in validateCb \cap completeCb
         /\ upd[u] = "accepted" => u \in completeCb
    /\ replaying => \A c \in 1 .. Len(issued) : ~issued[c].failed

(* What has arrived is known to the environment, so it arrives once.       *)
ArrivalInvariant ==
    \A i \in 1 .. Len(arrived) : upd[arrived[i]] # "none"

-----------------------------------------------------------------------------
(* Liveness, under FairSpec.                                               *)

Over == pc \in {"panicked", "closed"}

(* A result that came while no task was running reaches the worker.        *)
ResultsReachWorker ==
    \A c \in CmdIDs :
        (\E i \in 1 .. Len(callbacks) : callbacks[i].id = c)
          ~> (Over \/ \E i \in 1 .. Len(delivered) :
                         delivered[i].type \in Answers /\ delivered[i].id = c)

(* A delivered update reaches the worker.                                  *)
UpdatesReachWorker ==
    \A u \in UpdateIDs :
        upd[u] = "buffered"
          ~> (Over \/ \E i \in 1 .. Len(delivered) : delivered[i].upd = u)

-----------------------------------------------------------------------------
(* Statements of the repository that the code does not keep.               *)

(* src/registry/registry.go:9: the registry is "used to gain access to     *)
(* child workflow ids after they become available via callback result".    *)
(* So a request for the execution of a child that is known is answered.    *)
KnownChildReachesWorker ==
    \A g \in CmdIDs :
        (/\ g \in IssuedAs({"GetChildWorkflowExecution"}) /\ g \notin Heads
         /\ ids[issued[g].child] # "unknown")
          ~> (Over \/ completed
              \/ \E i \in 1 .. Len(delivered) :
                    delivered[i].type \in Answers /\ delivered[i].id = g)

(* src/aggregatedpool/workflow.go:364: "when closing workflow, we should   *)
(* drain(execute) unhandled updates".  So no update is left whose closure  *)
(* ran and which the worker never heard of.                                *)
DrainedUpdatesExecuted ==
    pc = "closed" =>
        \A u \in UpdateIDs : upd[u] = "scheduled"
            => \E i \in 1 .. Len(delivered) : delivered[i].upd = u
=============================================================================
