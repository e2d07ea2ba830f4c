----------------------- MODULE WorkflowProcess_proofs -----------------------
(***************************************************************************)
(* Theorems about WorkflowProcess, for every value of its constants.       *)
(***************************************************************************)
EXTENDS WorkflowProcess, FiniteSetTheorems, TLAPS

-----------------------------------------------------------------------------
(* Sequences.                                                              *)

(* A function on 1 .. n is a sequence.                                     *)
LEMMA FunctionIsSeq ==
    ASSUME NEW S, NEW n \in Nat, NEW f \in [1 .. n -> S]
    PROVE  f \in Seq(S)
  OBVIOUS

(* Concatenation keeps the element type.                                   *)
LEMMA ConcatType ==
    ASSUME NEW S, NEW s \in Seq(S), NEW t \in Seq(S)
    PROVE  s \o t \in Seq(S)
  OBVIOUS

(* So does Tail of a sequence that is not empty, whose head is an element. *)
LEMMA HeadTailType ==
    ASSUME NEW S, NEW s \in Seq(S), s # << >>
    PROVE  Head(s) \in S /\ Tail(s) \in Seq(S)
  OBVIOUS

(* The answers a Cancel gets at once, in whatever order they come.         *)
LEMMA OrdersAreSequences ==
    ASSUME NEW S \in SUBSET CmdIDs, NEW s \in Orders(S)
    PROVE  s \in Seq(S) /\ \A i \in DOMAIN s : s[i] \in S
<1>1. IsFiniteSet(S)
  <2>1. IsFiniteSet(CmdIDs)
    BY FS_Interval, BoundsAssumption DEF CmdIDs
  <2> QED
    BY <2>1, FS_Subset
<1>2. Cardinality(S) \in Nat
  BY <1>1, FS_CardinalityType
<1>3. PICK n \in 0 .. Cardinality(S) : s \in [1 .. n -> S]
  BY DEF Orders
<1>4. n \in Nat
  BY <1>2, <1>3
<1> QED
  BY <1>3, <1>4, FunctionIsSeq

-----------------------------------------------------------------------------
(* Messages.                                                               *)

(* What the queue's operations build are messages.                         *)
LEMMA MessageTypes ==
    /\ \A t \in HostCommands, n \in Nat, u \in UpdateIDs \cup {NoUpdate} :
         HostMessage(t, n, u) \in Message
    /\ \A n \in Nat, ok \in BOOLEAN : Answer(n, ok, NoUpdate) \in Message
  BY DEF HostMessage, Answer, Message, Answers

(* Queueing messages gives a queue.                                        *)
LEMMA QueueTypes ==
    ASSUME NEW q \in Seq(Message), NEW id \in CmdIDs
    PROVE  /\ PushResponse(q, id, NoUpdate) \in Seq(Message)
           /\ PushError(q, id, NoUpdate) \in Seq(Message)
           /\ \A ok \in BOOLEAN : Append(q, Answer(id, ok, NoUpdate)) \in Seq(Message)
<1>1. id \in Nat
  BY DEF CmdIDs
<1>2. ASSUME NEW ok \in BOOLEAN PROVE Append(q, Answer(id, ok, NoUpdate)) \in Seq(Message)
  <2>1. PICK a \in Message : a = Answer(id, ok, NoUpdate)
    BY <1>1, MessageTypes, Zenon
  <2>2. Append(q, a) \in Seq(Message)
    OBVIOUS
  <2> QED
    BY <2>1, <2>2, Zenon
<1>3. TRUE \in BOOLEAN /\ FALSE \in BOOLEAN
  OBVIOUS
<1> QED
  BY <1>2, <1>3, Zenon DEF PushResponse, PushError

(* A result for the worker.                                                *)
LEMMA ResultType ==
    ASSUME NEW id \in CmdIDs, NEW ok \in BOOLEAN
    PROVE  [id |-> id, ok |-> ok] \in Result
  BY DEF Result

(* The message at the head of the pipeline.                                *)
LEMMA HandlingFacts ==
    ASSUME TypeOK, NEW id, NEW kinds, Handling(id, kinds)
    PROVE  /\ pc = "pipeline"
           /\ id \in CmdIDs
           /\ issued[id] \in WorkerMessage
           /\ issued[id].cmd \in kinds
           /\ Tail(pipeline) \in Seq(CmdIDs)
<1>1. id \in CmdIDs /\ Tail(pipeline) \in Seq(CmdIDs)
  BY HeadTailType DEF TypeOK, HostTypeOK, Handling
<1>2. id \in 1 .. Len(issued) /\ issued[id].cmd \in kinds /\ pc = "pipeline"
  BY DEF Handling, IssuedAs
<1>3. issued[id] \in WorkerMessage
  BY <1>2 DEF TypeOK, WorkerTypeOK
<1> QED
  BY <1>1, <1>2, <1>3

(* A message that names only an update its sender has heard of, or none.   *)
Known(m) ==
    /\ m \in WorkerMessage
    /\ m.cmd = "UpdateValidated" => m.upd \in InvokedUpdates \cup {NoUpdate}
    /\ m.cmd = "UpdateCompleted" => m.upd \in validated \cup {NoUpdate}

(* A message with fields of the right types is one.                        *)
LEMMA SentKnown ==
    ASSUME NEW k \in AllKinds, NEW c \in 0 .. MaxCmds, NEW u \in UpdateIDs \cup {NoUpdate},
           NEW S \in SUBSET CmdIDs, NEW f \in BOOLEAN,
           k = "UpdateValidated" => u \in InvokedUpdates \cup {NoUpdate},
           k = "UpdateCompleted" => u \in validated \cup {NoUpdate}
    PROVE  Known(Sent(k, c, u, S, f))
<1>1. Sent(k, c, u, S, f) \in WorkerMessage
  BY DEF Sent, WorkerMessage
<1>2. Sent(k, c, u, S, f).cmd = k /\ Sent(k, c, u, S, f).upd = u
  BY DEF Sent
<1> QED
  BY <1>1, <1>2 DEF Known

(* A step of the worker sends one.                                         *)
LEMMA WorkerSendsMessage ==
    ASSUME TypeOK, Worker
    PROVE  \E m \in WorkerMessage : WorkerSends(m) /\ Known(m)
<1>1. InvokedUpdates \subseteq UpdateIDs
  <2>1. \A x \in Message : x.upd \in UpdateIDs \cup {NoUpdate}
    BY DEF Message
  <2>2. \A i \in 1 .. Len(delivered) : delivered[i] \in Message
    BY DEF TypeOK, WorkerTypeOK
  <2>3. \A i \in 1 .. Len(mq) : mq[i] \in Message
    BY DEF TypeOK, HostTypeOK
  <2> QED
    BY <2>1, <2>2, <2>3, Zenon DEF InvokedUpdates
<1>2. \A kinds : IssuedAs(kinds) \subseteq CmdIDs
  BY BoundsAssumption DEF IssuedAs, CmdIDs, TypeOK, WorkerTypeOK
<1>3. CmdIDs \subseteq 0 .. MaxCmds /\ 0 \in 0 .. MaxCmds
  BY BoundsAssumption DEF CmdIDs
<1>4. validated \subseteq UpdateIDs
  BY DEF TypeOK, WorkerTypeOK
<1>5. /\ Requests \cup Upserts \cup Finishing \cup Fatal
           \cup {"GetVersion", "SideEffect", "Response"} \subseteq AllKinds
      /\ {"GetChildWorkflowExecution", "Cancel", "UpdateValidated", "UpdateCompleted"}
           \subseteq AllKinds
  BY DEF AllKinds, UpdateKinds
<1>6. \/ \E k \in AllKinds : WorkerSends(Sent(k, 0, NoUpdate, {}, FALSE))
      \/ \E c \in CmdIDs : WorkerSends(Sent("GetChildWorkflowExecution", c, NoUpdate, {}, FALSE))
      \/ \E a, b \in CmdIDs : WorkerSends(Sent("Cancel", 0, NoUpdate, {a, b}, FALSE))
      \/ \E u \in InvokedUpdates \cup {NoUpdate} :
            \/ WorkerSends(Sent("UpdateValidated", 0, u, {}, FALSE))
            \/ WorkerSends(Sent("UpdateValidated", 0, u, {}, TRUE))
      \/ \E u \in validated \cup {NoUpdate} :
            WorkerSends(Sent("UpdateCompleted", 0, u, {}, FALSE))
  BY <1>1, <1>2, <1>4, <1>5, Zenon DEF Worker
<1>7. /\ \A k \in AllKinds : Known(Sent(k, 0, NoUpdate, {}, FALSE))
      /\ \A c \in CmdIDs : Known(Sent("GetChildWorkflowExecution", c, NoUpdate, {}, FALSE))
      /\ \A a, b \in CmdIDs : Known(Sent("Cancel", 0, NoUpdate, {a, b}, FALSE))
  BY <1>3, <1>5, SentKnown
<1>8. \A u \in InvokedUpdates \cup {NoUpdate} :
        /\ Known(Sent("UpdateValidated", 0, u, {}, FALSE))
        /\ Known(Sent("UpdateValidated", 0, u, {}, TRUE))
  BY <1>1, <1>3, <1>5, SentKnown
<1>9. \A u \in validated \cup {NoUpdate} : Known(Sent("UpdateCompleted", 0, u, {}, FALSE))
  BY <1>3, <1>4, <1>5, SentKnown
<1>10. \A m : Known(m) => m \in WorkerMessage
  BY DEF Known
<1> QED
  BY <1>6, <1>7, <1>8, <1>9, <1>10, Zenon

-----------------------------------------------------------------------------
(* Types.                                                                  *)

(* A fresh definition is well typed.                                       *)
LEMMA TypeInit == Init => TypeOK
<1> SUFFICES ASSUME Init PROVE TypeOK
  OBVIOUS
<1>1. HostTypeOK
  BY BoundsAssumption DEF Init, HostTypeOK, Places, Outcomes, CmdIDs
<1>2. replaying \in BOOLEAN
  BY SwitchAssumption, Zenon DEF Init
<1>3. /\ completed \in BOOLEAN /\ woken \in BOOLEAN
      /\ cancelled \in BOOLEAN /\ destroyed \in BOOLEAN
  BY Zenon DEF Init
<1>4. /\ pending \subseteq CmdIDs /\ unstarted \subseteq CmdIDs
      /\ settled \subseteq CmdIDs /\ asked \subseteq CmdIDs
      /\ signals \in 0 .. MaxSignals
  BY BoundsAssumption DEF Init
<1>5. /\ buffered \in [UpdateNames -> Seq(UpdateIDs)]
      /\ upd \in [UpdateIDs -> Stages] /\ arrived \in Seq(UpdateIDs)
  BY DEF Init, Stages
<1>6. EnvTypeOK
  BY <1>2, <1>3, <1>4, <1>5, Zenon DEF EnvTypeOK
<1>7. /\ issued \in Seq(WorkerMessage) /\ Len(issued) <= MaxCmds
      /\ reply \in Seq(CmdIDs) /\ delivered \in Seq(Message)
      /\ validated \subseteq UpdateIDs
  BY BoundsAssumption DEF Init
<1>8. WorkerTypeOK
  BY <1>3, <1>7, Zenon DEF WorkerTypeOK
<1> QED
  BY <1>1, <1>6, <1>8 DEF TypeOK

(* The type invariant is inductive, action by action.                      *)
LEMMA TypeStep == TypeOK /\ [Next]_vars => TypeOK'
<1> SUFFICES ASSUME TypeOK, [Next]_vars PROVE TypeOK'
  OBVIOUS
<1> USE DEF TypeOK, HostTypeOK, EnvTypeOK, WorkerTypeOK
<1>1. CASE Execute
  BY <1>1, MessageTypes DEF Execute, PushCommand, HostCommands, Places, registryVars, requestVars, updateVars, eventVars, workerVars
<1>2. CASE handleSignal
  <2>1. HostMessage("InvokeSignal", signals', NoUpdate) \in Message
    BY <1>2, MessageTypes, BoundsAssumption DEF handleSignal, HostCommands
  <2> QED
    BY <1>2, <2>1, BoundsAssumption DEF handleSignal, Event, PushCommand, registryVars, requestVars, updateVars, eventVars, workerVars
<1>3. CASE handleCancel
  BY <1>3, MessageTypes DEF handleCancel, Event, PushCommand, HostCommands, registryVars, requestVars, updateVars, eventVars, workerVars
<1>4. CASE ReplayEnds
  BY <1>4 DEF ReplayEnds, registryVars, requestVars, updateVars, eventVars, workerVars
<1>5. ASSUME NEW u \in UpdateIDs, handleUpdate(u) PROVE TypeOK'
  <2>1. NameOf[u] \in UpdateNames
    BY NameAssumption
  <2>2. updatesQueue' \subseteq UpdateNames
    BY <1>5, <2>1 DEF handleUpdate
  <2>3. upd' \in [UpdateIDs -> Stages]
    BY <1>5 DEF handleUpdate, Stages
  <2>4. arrived' \in Seq(UpdateIDs)
    BY <1>5 DEF handleUpdate
  <2>5. buffered' \in [UpdateNames -> Seq(UpdateIDs)]
    BY <1>5, <2>1 DEF handleUpdate
  <2> QED
    BY <1>5, <2>2, <2>3, <2>4, <2>5 DEF handleUpdate, Event, registryVars, requestVars, updateVars, eventVars, workerVars
<1>6. ASSUME NEW c \in CmdIDs, NEW ok \in BOOLEAN, Resolve(c, ok) PROVE TypeOK'
  <2>1. callbacks' \in Seq(Result)
    BY <1>6, ResultType DEF Resolve, AddCallback
  <2> QED
    BY <1>6, <2>1 DEF Resolve, Event, registryVars, requestVars, updateVars, eventVars, workerVars
<1>7. ASSUME NEW c \in CmdIDs, ChildStarted(c) PROVE TypeOK'
  <2>1. PushCalls(listeners, c) => listeners[c] \in CmdIDs
    BY BoundsAssumption DEF PushCalls, CmdIDs
  <2>2. callbacks' \in Seq(Result)
    <3>1. CASE PushCalls(listeners, c)
      <4>1. callbacks' = Append(callbacks, [id |-> listeners[c], ok |-> TRUE])
        BY <1>7, <3>1, Zenon DEF ChildStarted, AddCallback
      <4>2. [id |-> listeners[c], ok |-> TRUE] \in Result
        BY <2>1, <3>1, ResultType
      <4> QED
        BY <4>1, <4>2
    <3>2. CASE ~PushCalls(listeners, c)
      BY <1>7, <3>2, Zenon DEF ChildStarted
    <3> QED
      BY <3>1, <3>2
  <2>3. ids' \in [CmdIDs -> Outcomes]
    BY <1>7 DEF ChildStarted, IdsAfterPush, Outcomes
  <2> QED
    BY <1>7, <2>2, <2>3 DEF ChildStarted, Event, registryVars, requestVars, updateVars, eventVars, workerVars
<1>8. ASSUME NEW c \in CmdIDs, ChildStartFailed(c) PROVE TypeOK'
  <2>1. PushCalls(listeners, c) => listeners[c] \in CmdIDs
    BY BoundsAssumption DEF PushCalls, CmdIDs
  <2>2. callbacks' \in Seq(Result)
    <3>1. [id |-> c, ok |-> FALSE] \in Result
      BY ResultType
    <3>2. CASE PushCalls(listeners, c)
      <4>1. callbacks' = Append(Append(callbacks, [id |-> listeners[c], ok |-> FALSE]),
                                [id |-> c, ok |-> FALSE])
        BY <1>8, <3>2, Zenon DEF ChildStartFailed
      <4>2. [id |-> listeners[c], ok |-> FALSE] \in Result
        BY <2>1, <3>2, ResultType
      <4> QED
        BY <3>1, <4>1, <4>2
    <3>3. CASE ~PushCalls(listeners, c)
      <4>1. callbacks' = Append(callbacks, [id |-> c, ok |-> FALSE])
        BY <1>8, <3>3, Zenon DEF ChildStartFailed
      <4> QED
        BY <3>1, <4>1
    <3> QED
      BY <3>2, <3>3
  <2>3. ids' \in [CmdIDs -> Outcomes]
    BY <1>8 DEF ChildStartFailed, IdsAfterPush, Outcomes
  <2> QED
    BY <1>8, <2>2, <2>3 DEF ChildStartFailed, Event, registryVars, requestVars, updateVars, eventVars, workerVars
<1>9. CASE TaskStarted
  BY <1>9 DEF TaskStarted, Places, InLoop, registryVars, requestVars, updateVars, eventVars, workerVars
<1>10. CASE RunCallbacks
  <2>1. \A i \in 1 .. Len(callbacks) :
          Answer(callbacks[i].id, callbacks[i].ok, NoUpdate) \in Message
    <3>1. ASSUME NEW r \in Result PROVE Answer(r.id, r.ok, NoUpdate) \in Message
      <4>1. r.id \in Nat /\ r.ok \in BOOLEAN
        BY DEF Result, CmdIDs
      <4> QED
        BY <4>1, MessageTypes
    <3> QED
      BY <3>1
  <2>2. [i \in 1 .. Len(callbacks) |->
           Answer(callbacks[i].id, callbacks[i].ok, NoUpdate)] \in Seq(Message)
    BY <2>1, FunctionIsSeq
  <2>3. mq' \in Seq(Message)
    BY <1>10, <2>2, ConcatType DEF RunCallbacks
  <2> QED
    BY <1>10, <2>3 DEF RunCallbacks, CallbacksLeft, Places, InLoop, registryVars, requestVars, updateVars, eventVars, workerVars
<1>11. ASSUME NEW n \in UpdateNames, HandleQueuedUpdates(n) PROVE TypeOK'
  <2> DEFINE queued == buffered[n]
             us == {queued[i] : i \in 1 .. Len(queued)}
  <2>1. queued \in Seq(UpdateIDs) /\ us \subseteq UpdateIDs
    OBVIOUS
  <2>2. [i \in 1 .. Len(queued) |-> HostMessage("InvokeUpdate", 0, queued[i])] \in Seq(Message)
    <3>1. \A i \in 1 .. Len(queued) : HostMessage("InvokeUpdate", 0, queued[i]) \in Message
      BY <2>1, MessageTypes DEF HostCommands
    <3> QED
      BY <2>1, <3>1, FunctionIsSeq
  <2>3. mq' \in Seq(Message)
    BY <1>11, <2>2, ConcatType DEF HandleQueuedUpdates
  <2>4. upd' \in [UpdateIDs -> Stages]
    BY <1>11 DEF HandleQueuedUpdates, Stages
  <2>5. validateCb' \subseteq UpdateIDs /\ completeCb' \subseteq UpdateIDs
    BY <1>11, <2>1 DEF HandleQueuedUpdates
  <2> QED
    BY <1>11, <2>3, <2>4, <2>5 DEF HandleQueuedUpdates, NamesLeft, registryVars, requestVars, updateVars, eventVars, workerVars
<1>12. CASE FlushTask
  BY <1>12 DEF FlushTask, Exchange, Places, InLoop, InExec, registryVars, requestVars, updateVars, eventVars, workerVars
<1>13. CASE Worker
  <2>1. PICK m \in WorkerMessage : WorkerSends(m)
    BY <1>13, WorkerSendsMessage
  <2>2. issued' \in Seq(WorkerMessage) /\ Len(issued') = Len(issued) + 1
    BY <2>1 DEF WorkerSends
  <2>3. Len(issued') \in CmdIDs
    BY <2>1, <2>2, BoundsAssumption DEF WorkerSends, CmdIDs
  <2>4. reply' \in Seq(CmdIDs)
    BY <2>1, <2>3 DEF WorkerSends
  <2>5. m.upd \in UpdateIDs \cup {NoUpdate}
    BY DEF WorkerMessage
  <2>6. validated' \subseteq UpdateIDs
    BY <2>1, <2>5 DEF WorkerSends
  <2> QED
    BY <2>1, <2>2, <2>3, <2>4, <2>6 DEF WorkerSends, CmdIDs, registryVars, requestVars, updateVars, eventVars, workerVars
<1>14. CASE ExecReturns
  BY <1>14, ConcatType DEF ExecReturns, Flush, Places, InLoop, registryVars, requestVars, updateVars, eventVars, workerVars
<1>15. CASE ExecFails
  BY <1>15 DEF ExecFails, Places, registryVars, requestVars, updateVars, eventVars, workerVars
<1>16. ASSUME NEW id \in CmdIDs, HandleMessage(id) PROVE TypeOK'
  <2>1. CASE HandleRequest(id)
    <3>1. Tail(pipeline) \in Seq(CmdIDs)
      BY <2>1, HandlingFacts DEF HandleRequest
    <3>2. mq' \in Seq(Message) /\ pending' \subseteq CmdIDs /\ settled' \subseteq CmdIDs
      BY <1>16, <2>1, QueueTypes DEF HandleRequest, Takes
    <3>3. canceller' \subseteq CmdIDs
      BY <1>16, <2>1 DEF HandleRequest, Register, Discard
    <3> QED
      BY <2>1, <3>1, <3>2, <3>3 DEF HandleRequest, Handled, registryVars, requestVars, updateVars, eventVars, workerVars
  <2>2. CASE HandleExecuteChildWorkflow(id)
    <3>1. Tail(pipeline) \in Seq(CmdIDs)
      BY <2>2, HandlingFacts DEF HandleExecuteChildWorkflow
    <3>2. mq' \in Seq(Message)
      BY <1>16, <2>2, QueueTypes DEF HandleExecuteChildWorkflow
    <3>4. ids' \in [CmdIDs -> Outcomes]
      <4>1. IdsAfterPush(ids, id, "err") \in [CmdIDs -> Outcomes]
        BY <1>16 DEF IdsAfterPush, Outcomes
      <4> QED
        BY <2>2, <4>1 DEF HandleExecuteChildWorkflow
    <3>5. pending' \subseteq CmdIDs /\ unstarted' \subseteq CmdIDs /\ settled' \subseteq CmdIDs
      BY <1>16, <2>2 DEF HandleExecuteChildWorkflow
    <3>3. canceller' \subseteq CmdIDs
      BY <1>16, <2>2 DEF HandleExecuteChildWorkflow, Register
    <3> QED
      BY <2>2, <3>1, <3>2, <3>3, <3>4, <3>5 DEF HandleExecuteChildWorkflow, Handled, registryVars, requestVars, updateVars, eventVars, workerVars
  <2>3. CASE HandleGetChildWorkflowExecution(id)
    <3>1. Tail(pipeline) \in Seq(CmdIDs) /\ issued[id].child \in 0 .. MaxCmds
      BY <2>3, HandlingFacts DEF HandleGetChildWorkflowExecution, WorkerMessage
    <3>2. mq' \in Seq(Message) /\ canceller' \subseteq CmdIDs
      BY <1>16, <2>3, QueueTypes DEF HandleGetChildWorkflowExecution, Discard
    <3>3. id \in 0 .. MaxCmds
      BY BoundsAssumption DEF CmdIDs
    <3>4. listeners' \in [CmdIDs -> 0 .. MaxCmds]
      BY <2>3, <3>3 DEF HandleGetChildWorkflowExecution, ListenersAfterListen
    <3> QED
      BY <2>3, <3>1, <3>2, <3>4 DEF HandleGetChildWorkflowExecution, Handled, registryVars, requestVars, updateVars, eventVars, workerVars
  <2>4. CASE HandleGetVersion(id)
    <3>1. Tail(pipeline) \in Seq(CmdIDs)
      BY <2>4, HandlingFacts DEF HandleGetVersion
    <3>2. mq' \in Seq(Message)
      BY <1>16, <2>4, QueueTypes DEF HandleGetVersion
    <3>3. pc' \in Places /\ pipeline' \in Seq(CmdIDs)
      <4>1. CASE Panics
        BY <4>1 DEF Panics, Places
      <4>2. CASE Exchange(mq', "exec") /\ pipeline' = Tail(pipeline)
        BY <3>1, <4>2 DEF Exchange, Places, InLoop, InExec
      <4> QED
        BY <2>4, <4>1, <4>2, Zenon DEF HandleGetVersion
    <3> QED
      BY <2>4, <3>2, <3>3 DEF HandleGetVersion, registryVars, requestVars, updateVars, eventVars, workerVars
  <2>5. CASE HandleSideEffect(id)
    <3>1. Tail(pipeline) \in Seq(CmdIDs)
      BY <2>5, HandlingFacts DEF HandleSideEffect
    <3>2. mq' \in Seq(Message) /\ canceller' \subseteq CmdIDs
      BY <1>16, <2>5, QueueTypes DEF HandleSideEffect, Discard
    <3>3. pc' \in Places
      BY <2>5 DEF HandleSideEffect, Exchange, Places, InLoop, InExec
    <3> QED
      BY <2>5, <3>1, <3>2, <3>3 DEF HandleSideEffect, registryVars, requestVars, updateVars, eventVars, workerVars
  <2>6. CASE HandleCancel(id)
    <3> DEFINE run == Cancelled(canceller, issued[id].cmds)
    <3>1. Tail(pipeline) \in Seq(CmdIDs)
      BY <2>6, HandlingFacts DEF HandleCancel
    <3>2. run \subseteq CmdIDs
      BY DEF Cancelled
    <3>3. PICK now \in Orders(run \cap (pending \ unstarted)) :
            mq' = PushResponse(mq \o [i \in DOMAIN now |-> Answer(now[i], FALSE, NoUpdate)],
                               id, NoUpdate)
      BY <2>6 DEF HandleCancel
    <3>4. now \in Seq(CmdIDs) /\ \A i \in DOMAIN now : now[i] \in CmdIDs
      <4>1. run \cap (pending \ unstarted) \in SUBSET CmdIDs
        BY <3>2
      <4>2. /\ now \in Seq(run \cap (pending \ unstarted))
            /\ \A i \in DOMAIN now : now[i] \in run \cap (pending \ unstarted)
        BY <4>1, OrdersAreSequences, Zenon
      <4> QED
        BY <4>1, <4>2
    <3>5. [i \in DOMAIN now |-> Answer(now[i], FALSE, NoUpdate)] \in Seq(Message)
      <4>1. \A i \in DOMAIN now : Answer(now[i], FALSE, NoUpdate) \in Message
        <5>1. \A c \in CmdIDs : c \in Nat
          BY DEF CmdIDs
        <5>2. FALSE \in BOOLEAN
          OBVIOUS
        <5> QED
          BY <3>4, <5>1, <5>2, MessageTypes, Zenon
      <4>2. DOMAIN now = 1 .. Len(now) /\ Len(now) \in Nat
        BY <3>4
      <4> QED
        BY <4>1, <4>2, FunctionIsSeq
    <3>6. mq' \in Seq(Message)
      BY <3>3, <3>5, ConcatType, QueueTypes
    <3>7. /\ asked' \subseteq CmdIDs /\ canceller' \subseteq CmdIDs
          /\ pending' \subseteq CmdIDs
      BY <2>6, <3>2 DEF HandleCancel, CancelRemaining
    <3>8. pc' \in Places
      BY <2>6 DEF HandleCancel, Exchange, Places, InLoop, InExec
    <3> QED
      BY <2>6, <3>1, <3>6, <3>7, <3>8 DEF HandleCancel, registryVars, requestVars, updateVars, eventVars, workerVars
  <2>7. CASE HandleUpdateValidated(id)
    <3>1. pc' \in Places /\ pipeline' \in Seq(CmdIDs)
      <4>1. pc = "pipeline" /\ Tail(pipeline) \in Seq(CmdIDs)
        BY <2>7, HandlingFacts DEF HandleUpdateValidated
      <4>2. CASE Handled
        BY <4>1, <4>2 DEF Handled
      <4>3. CASE Panics
        BY <4>3 DEF Panics, Places
      <4> QED
        BY <2>7, <4>2, <4>3, Zenon DEF HandleUpdateValidated
    <3>2. upd' \in [UpdateIDs -> Stages]
      BY <2>7 DEF HandleUpdateValidated, Verdict, Calls, Stages
    <3>3. validateCb' \subseteq UpdateIDs /\ completeCb' \subseteq UpdateIDs
      BY <2>7 DEF HandleUpdateValidated, ValidateLeft, CompleteLeft
    <3> QED
      BY <2>7, <3>1, <3>2, <3>3 DEF HandleUpdateValidated, registryVars, requestVars, updateVars, eventVars, workerVars
  <2>8. CASE HandleUpdateCompleted(id)
    <3>1. pc' \in Places /\ pipeline' \in Seq(CmdIDs)
      <4>1. pc = "pipeline" /\ Tail(pipeline) \in Seq(CmdIDs)
        BY <2>8, HandlingFacts DEF HandleUpdateCompleted
      <4>2. CASE Handled
        BY <4>1, <4>2 DEF Handled
      <4>3. CASE Panics
        BY <4>3 DEF Panics, Places
      <4> QED
        BY <2>8, <4>2, <4>3, Zenon DEF HandleUpdateCompleted
    <3>2. upd' \in [UpdateIDs -> Stages] /\ completeCb' \subseteq UpdateIDs
      BY <2>8 DEF HandleUpdateCompleted, Calls, Stages
    <3> QED
      BY <2>8, <3>1, <3>2 DEF HandleUpdateCompleted, registryVars, requestVars, updateVars, eventVars, workerVars
  <2>9. CASE HandleFinishing(id)
    <3>1. Tail(pipeline) \in Seq(CmdIDs)
      BY <2>9, HandlingFacts DEF HandleFinishing
    <3>2. mq' \in Seq(Message)
      BY <1>16, <2>9, QueueTypes DEF HandleFinishing
    <3> QED
      BY <2>9, <3>1, <3>2 DEF HandleFinishing, Handled, registryVars, requestVars, updateVars, eventVars, workerVars
  <2>10. CASE HandleUnanswered(id)
    <3>1. pc' \in Places /\ pipeline' \in Seq(CmdIDs)
      <4>1. pc = "pipeline" /\ Tail(pipeline) \in Seq(CmdIDs)
        BY <2>10, HandlingFacts DEF HandleUnanswered
      <4>2. CASE Handled
        BY <4>1, <4>2 DEF Handled
      <4>3. CASE Panics
        BY <4>3 DEF Panics, Places
      <4> QED
        BY <2>10, <4>2, <4>3, Zenon DEF HandleUnanswered
    <3> QED
      BY <2>10, <3>1 DEF HandleUnanswered, registryVars, requestVars, updateVars, eventVars, workerVars
  <2> QED
    BY <1>16, <2>1, <2>2, <2>3, <2>4, <2>5, <2>6, <2>7, <2>8, <2>9, <2>10 DEF HandleMessage
<1>17. CASE EndTask
  BY <1>17 DEF EndTask, Places, registryVars, requestVars, updateVars, eventVars, workerVars
<1>18. CASE Close
  BY <1>18 DEF Close, runCommand, Flush, Places, Stages, registryVars, requestVars, updateVars, eventVars, workerVars
<1>19. CASE UNCHANGED vars
  BY <1>19 DEF vars, registryVars, requestVars, updateVars, eventVars, workerVars
<1> QED
  BY <1>1, <1>2, <1>3, <1>4, <1>5, <1>6, <1>7, <1>8, <1>9, <1>10, <1>11, <1>12, <1>13,
     <1>14, <1>15, <1>16, <1>17, <1>18, <1>19 DEF Next, Events, Task, Closed

(* Every variable of the workflow process keeps its type: in particular    *)
(* the pipeline only holds ids of messages the worker has sent, and every  *)
(* message queued for the worker is well formed, whatever the constants.   *)
THEOREM TypeCorrect == Spec => []TypeOK
  BY TypeInit, TypeStep, PTL DEF Spec
=============================================================================
