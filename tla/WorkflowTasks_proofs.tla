------------------------ MODULE WorkflowTasks_proofs ------------------------
(***************************************************************************)
(* What a task hands over, for every value of the constants: the worker    *)
(* hears of the start, the signals and the updates in the order of the     *)
(* history, nothing that happened before a task is left behind in it, and  *)
(* an update that was accepted can be completed.                           *)
(***************************************************************************)
EXTENDS WorkflowUpdates_proofs

-----------------------------------------------------------------------------
(* The conversation with the worker only grows at its end.                 *)

(* A step tells the worker, sooner or later, the messages of t.            *)
Says(t) == delivered' = delivered /\ mq' = mq \o t

AnswerMessage == {m \in Message : m.type \in Answers}

(* An answer is a message of that kind.                                    *)
LEMMA AnswerIsAnswer ==
    ASSUME NEW n \in Nat, NEW ok \in BOOLEAN
    PROVE  Answer(n, ok, NoUpdate) \in AnswerMessage /\ Answer(n, ok, NoUpdate).id = n
<1>1. Answer(n, ok, NoUpdate) \in Message
  BY MessageTypes
<1>2. Answer(n, ok, NoUpdate).type \in Answers /\ Answer(n, ok, NoUpdate).id = n
  BY DEF Answer, HostMessage, Answers
<1> QED
  BY <1>1, <1>2 DEF AnswerMessage

(* One message more.                                                       *)
LEMMA SaysOne ==
    ASSUME TypeOK, delivered' = delivered, NEW m \in Message, mq' = Append(mq, m)
    PROVE  Says(<<m>>)
  BY AppendIsConcat DEF Says, TypeOK, HostTypeOK

(* Nothing more.                                                           *)
LEMMA SaysNothing ==
    ASSUME TypeOK, UNCHANGED <<delivered, mq>>
    PROVE  Says(<< >>) /\ << >> \in Seq(AnswerMessage)
  BY ConcatEmptySeq DEF Says, TypeOK, HostTypeOK

(* One answer more.                                                        *)
LEMMA SaysAnswer ==
    ASSUME TypeOK, delivered' = delivered, NEW n \in Nat, NEW ok \in BOOLEAN,
           mq' = Append(mq, Answer(n, ok, NoUpdate))
    PROVE  \E t \in Seq(AnswerMessage) : Says(t)
<1> DEFINE m == Answer(n, ok, NoUpdate)
<1>1. m \in AnswerMessage /\ mq' = Append(mq, m)
  BY AnswerIsAnswer
<1> HIDE DEF m
<1>2. m \in Message /\ <<m>> \in Seq(AnswerMessage)
  BY <1>1 DEF AnswerMessage
<1> QED
  BY <1>1, <1>2, SaysOne

(* What is said extends the conversation at its end.                       *)
LEMMA SaysExtends ==
    ASSUME TypeOK, NEW t \in Seq(Message), Says(t)
    PROVE  Conversation' = Conversation \o t
<1>1. mq \in Seq(Message) /\ delivered \in Seq(Message)
  BY DEF TypeOK, HostTypeOK, WorkerTypeOK
<1>2. (delivered \o mq) \o t = delivered \o (mq \o t)
  BY <1>1, ConcatAssociative
<1> QED
  BY <1>2 DEF Says, Conversation

(* An exchange moves the conversation on, and changes nothing of it.       *)
LEMMA ExchangeKeeps ==
    ASSUME TypeOK, ExecReturns
    PROVE  Conversation' = Conversation
<1>1. delivered' = delivered \o mq /\ mq' = << >>
  BY DEF ExecReturns, Flush
<1>2. delivered \o mq \in Seq(Message)
  BY ConcatType DEF TypeOK, HostTypeOK, WorkerTypeOK
<1> QED
  BY <1>1, <1>2, ConcatEmptySeq DEF Conversation

(* The conversation is a sequence of messages.                             *)
LEMMA ConversationType ==
    ASSUME TypeOK
    PROVE  Conversation \in Seq(Message)
  BY ConcatType DEF Conversation, TypeOK, HostTypeOK, WorkerTypeOK

-----------------------------------------------------------------------------
(* What each step says.                                                    *)

(* The callbacks of a task answer, one by one.                             *)
LEMMA CallbacksSay ==
    ASSUME TypeOK, RunCallbacks
    PROVE  \E t \in Seq(AnswerMessage) :
             /\ Says(t) /\ Len(t) = Len(callbacks)
             /\ \A i \in 1 .. Len(t) : t[i].id = callbacks[i].id
<1> DEFINE t == [i \in 1 .. Len(callbacks) |->
                   Answer(callbacks[i].id, callbacks[i].ok, NoUpdate)]
<1>1. Len(callbacks) \in Nat /\ \A i \in 1 .. Len(callbacks) : callbacks[i] \in Result
  BY DEF TypeOK, HostTypeOK
<1>2. \A i \in 1 .. Len(callbacks) : callbacks[i].id \in Nat /\ callbacks[i].ok \in BOOLEAN
  BY <1>1 DEF Result, CmdIDs
<1>3. \A i \in 1 .. Len(callbacks) : t[i] \in AnswerMessage /\ t[i].id = callbacks[i].id
  BY <1>2, AnswerIsAnswer
<1>4. t \in Seq(AnswerMessage) /\ Len(t) = Len(callbacks)
  <2>1. t \in [1 .. Len(callbacks) -> AnswerMessage]
    BY <1>3
  <2> HIDE DEF t
  <2> QED
    BY <1>1, <2>1, FunctionIsSeq
<1>5. Says(t)
  BY DEF Says, RunCallbacks, workerVars
<1> HIDE DEF t
<1> QED
  BY <1>3, <1>4, <1>5

(* A Cancel answers the requests that end at once, then itself.            *)
LEMMA CancelSays ==
    ASSUME TypeOK, NEW id \in CmdIDs, HandleCancel(id)
    PROVE  \E now \in Orders(Cancelled(canceller, issued[id].cmds) \cap (pending \ unstarted)) :
           \E t \in Seq(AnswerMessage) :
             /\ pending' = pending \ {now[i] : i \in 1 .. Len(now)}
             /\ now \in Seq(CmdIDs) /\ Len(t) = Len(now)
             /\ \A i \in 1 .. Len(now) : t[i].id = now[i]
             /\ Says(Append(t, Answer(id, TRUE, NoUpdate)))
<1> DEFINE S == Cancelled(canceller, issued[id].cmds) \cap (pending \ unstarted)
<1>1. PICK now \in Orders(S) :
        /\ pending' = pending \ {now[i] : i \in DOMAIN now}
        /\ mq' = PushResponse(mq \o [i \in DOMAIN now |-> Answer(now[i], FALSE, NoUpdate)],
                              id, NoUpdate)
  BY DEF HandleCancel
<1> DEFINE t == [i \in 1 .. Len(now) |-> Answer(now[i], FALSE, NoUpdate)]
           last == Answer(id, TRUE, NoUpdate)
<1>2. S \in SUBSET CmdIDs
  BY DEF Cancelled, TypeOK, HostTypeOK
<1>3. now \in Seq(S)
  BY <1>2, OrdersAreSequences, Zenon
<1>4. DOMAIN now = 1 .. Len(now) /\ Len(now) \in Nat /\ now \in Seq(CmdIDs)
  BY <1>2, <1>3, SeqMonotonic
<1>5. \A i \in 1 .. Len(now) : now[i] \in Nat
  <2>1. \A i \in 1 .. Len(now) : now[i] \in CmdIDs
    BY <1>4
  <2> QED
    BY <2>1 DEF CmdIDs
<1>6. \A i \in 1 .. Len(now) : t[i] \in AnswerMessage /\ t[i].id = now[i]
  <2>1. FALSE \in BOOLEAN
    OBVIOUS
  <2>2. \A i \in 1 .. Len(now) : /\ Answer(now[i], FALSE, NoUpdate) \in AnswerMessage
                                 /\ Answer(now[i], FALSE, NoUpdate).id = now[i]
    BY <1>5, <2>1, AnswerIsAnswer, Zenon
  <2> QED
    BY <2>2
<1>7. t \in Seq(AnswerMessage) /\ Len(t) = Len(now)
  <2>1. t \in [1 .. Len(now) -> AnswerMessage]
    BY <1>6
  <2> HIDE DEF t
  <2> QED
    BY <1>4, <2>1, FunctionIsSeq
<1>8. mq' = Append(mq \o t, last)
  BY <1>1, <1>4, Zenon DEF PushResponse
<1>9. last \in AnswerMessage
  <2>1. id \in Nat /\ TRUE \in BOOLEAN
    BY DEF CmdIDs
  <2> QED
    BY <2>1, AnswerIsAnswer, Zenon
<1>10. t \in Seq(Message) /\ last \in Message /\ mq \in Seq(Message)
  <2>1. AnswerMessage \subseteq Message
    BY DEF AnswerMessage
  <2> QED
    BY <1>7, <1>9, <2>1, SeqMonotonic DEF TypeOK, HostTypeOK
<1> HIDE DEF t, last
<1>11. mq' = mq \o Append(t, last)
  <2>1. <<last>> \in Seq(Message) /\ mq \o t \in Seq(Message)
    BY <1>10, ConcatType
  <2>2. mq' = (mq \o t) \o <<last>> /\ Append(t, last) = t \o <<last>>
    BY <1>8, <1>10, <2>1, AppendIsConcat
  <2> QED
    BY <1>10, <2>1, <2>2, ConcatAssociative
<1>12. delivered' = delivered
  BY DEF HandleCancel, workerVars
<1>13. Says(Append(t, last))
  BY <1>11, <1>12 DEF Says
<1> QED
  BY <1>1, <1>4, <1>6, <1>7, <1>13 DEF last

(* The worker's messages are only ever answered.                           *)
LEMMA MessageSays ==
    ASSUME TypeOK, NEW id \in CmdIDs, HandleMessage(id)
    PROVE  \E t \in Seq(AnswerMessage) : Says(t)
<1>1. id \in Nat /\ TRUE \in BOOLEAN /\ FALSE \in BOOLEAN
  BY DEF CmdIDs
<1>2. delivered' = delivered
  BY DEF HandleMessage, HandleRequest, HandleExecuteChildWorkflow,
       HandleGetChildWorkflowExecution, HandleGetVersion, HandleSideEffect, HandleCancel,
       HandleUpdateValidated, HandleUpdateCompleted, HandleFinishing, HandleUnanswered, workerVars
<1>3. ASSUME mq' = mq PROVE \E t \in Seq(AnswerMessage) : Says(t)
  BY <1>2, <1>3, SaysNothing
<1>4. ASSUME NEW ok \in BOOLEAN, mq' = Append(mq, Answer(id, ok, NoUpdate))
      PROVE  \E t \in Seq(AnswerMessage) : Says(t)
  BY <1>1, <1>2, <1>4, SaysAnswer
<1>5. CASE HandleRequest(id)
  BY <1>3, <1>4, <1>5, Zenon DEF HandleRequest, Takes
<1>6. CASE HandleExecuteChildWorkflow(id)
  BY <1>1, <1>3, <1>4, <1>6, Zenon DEF HandleExecuteChildWorkflow, PushError
<1>7. CASE HandleGetChildWorkflowExecution(id)
  <2>1. (ids[issued[id].child] = "ok") \in BOOLEAN
    OBVIOUS
  <2> QED
    BY <1>3, <1>4, <1>7, <2>1, Zenon DEF HandleGetChildWorkflowExecution
<1>8. CASE HandleGetVersion(id) \/ HandleFinishing(id)
  BY <1>1, <1>3, <1>4, <1>8, Zenon DEF HandleGetVersion, HandleFinishing, PushResponse
<1>9. CASE HandleSideEffect(id)
  BY <1>1, <1>4, <1>9, Zenon DEF HandleSideEffect, PushResponse, PushError
<1>10. CASE HandleUpdateValidated(id) \/ HandleUpdateCompleted(id) \/ HandleUnanswered(id)
  BY <1>3, <1>10 DEF HandleUpdateValidated, HandleUpdateCompleted, HandleUnanswered
<1>11. CASE HandleCancel(id)
  <2>1. PICK t \in Seq(AnswerMessage) : Says(Append(t, Answer(id, TRUE, NoUpdate)))
    BY <1>11, CancelSays
  <2>2. PICK a \in AnswerMessage : a = Answer(id, TRUE, NoUpdate)
    BY <1>1, AnswerIsAnswer
  <2>3. Append(t, a) \in Seq(AnswerMessage)
    OBVIOUS
  <2> QED
    BY <2>1, <2>2, <2>3
<1> QED
  BY <1>5, <1>6, <1>7, <1>8, <1>9, <1>10, <1>11 DEF HandleMessage

(* Every step that does not only answer, or move the conversation on.      *)
LEMMA SayingSteps ==
    ASSUME TypeOK, [Next]_vars
    PROVE  \/ Close \/ ExecReturns
           \/ Execute /\ Says(<<HostMessage("StartWorkflow", 0, NoUpdate)>>)
           \/ handleSignal /\ Says(<<HostMessage("InvokeSignal", signals + 1, NoUpdate)>>)
           \/ handleCancel /\ Says(<<HostMessage("CancelWorkflow", 0, NoUpdate)>>)
           \/ \E n \in UpdateNames : HandleQueuedUpdates(n)
           \/ /\ UNCHANGED signals /\ pc # "new"
              /\ \E t \in Seq(AnswerMessage) : Says(t)
           \/ UNCHANGED vars
<1> DEFINE Quiet == /\ UNCHANGED signals /\ pc # "new"
                       /\ \E t \in Seq(AnswerMessage) : Says(t)
<1>1. ASSUME UNCHANGED <<delivered, mq, signals>>, pc # "new" PROVE Quiet
  BY <1>1, SaysNothing
<1>2. CASE Execute
  <2>1. HostMessage("StartWorkflow", 0, NoUpdate) \in Message
    BY MessageTypes DEF HostCommands
  <2>2. mq' = Append(mq, HostMessage("StartWorkflow", 0, NoUpdate)) /\ delivered' = delivered
    BY <1>2 DEF Execute, PushCommand, workerVars
  <2> QED
    BY <1>2, <2>1, <2>2, SaysOne
<1>3. CASE handleSignal
  <2>1. signals \in Nat
    BY BoundsAssumption DEF TypeOK, EnvTypeOK
  <2>2. HostMessage("InvokeSignal", signals + 1, NoUpdate) \in Message
    BY <2>1, MessageTypes DEF HostCommands
  <2>3. mq' = Append(mq, HostMessage("InvokeSignal", signals + 1, NoUpdate)) /\ delivered' = delivered
    BY <1>3 DEF handleSignal, PushCommand, workerVars
  <2> QED
    BY <1>3, <2>2, <2>3, SaysOne
<1>4. CASE handleCancel
  <2>1. HostMessage("CancelWorkflow", 0, NoUpdate) \in Message
    BY MessageTypes DEF HostCommands
  <2>2. mq' = Append(mq, HostMessage("CancelWorkflow", 0, NoUpdate)) /\ delivered' = delivered
    BY <1>4 DEF handleCancel, PushCommand, workerVars
  <2> QED
    BY <1>4, <2>1, <2>2, SaysOne
<1>5. ASSUME ReplayEnds \/ TaskStarted \/ FlushTask \/ EndTask \/ ExecFails PROVE Quiet
  BY <1>1, <1>5 DEF ReplayEnds, TaskStarted, FlushTask, EndTask, ExecFails, InExec,
       eventVars, workerVars
<1>6. ASSUME NEW u \in UpdateIDs, handleUpdate(u) PROVE Quiet
  BY <1>1, <1>6 DEF handleUpdate, Event, workerVars
<1>7. ASSUME NEW c \in CmdIDs, (\E ok \in BOOLEAN : Resolve(c, ok)) \/ ChildStarted(c) \/ ChildStartFailed(c)
      PROVE  Quiet
  BY <1>1, <1>7 DEF Resolve, ChildStarted, ChildStartFailed, Event, workerVars
<1>8. ASSUME RunCallbacks PROVE Quiet
  <2>1. UNCHANGED signals /\ pc # "new"
    BY <1>8 DEF RunCallbacks, eventVars
  <2> QED
    BY <1>8, <2>1, CallbacksSay
<1>9. ASSUME Worker PROVE Quiet
  <2>1. ASSUME NEW m, WorkerSends(m) PROVE UNCHANGED <<delivered, mq, signals>> /\ pc # "new"
    BY <2>1 DEF WorkerSends, InExec, eventVars
  <2>2. UNCHANGED <<delivered, mq, signals>> /\ pc # "new"
    BY <1>9, <2>1, Zenon DEF Worker
  <2> QED
    BY <1>1, <2>2
<1>10. ASSUME NEW id \in CmdIDs, HandleMessage(id) PROVE Quiet
  <2>1. UNCHANGED signals /\ pc # "new"
    BY <1>10 DEF HandleMessage, HandleRequest, HandleExecuteChildWorkflow,
         HandleGetChildWorkflowExecution, HandleGetVersion, HandleSideEffect, HandleCancel,
         HandleUpdateValidated, HandleUpdateCompleted, HandleFinishing, HandleUnanswered,
         Handling, eventVars
  <2> QED
    BY <1>10, <2>1, MessageSays
<1> HIDE DEF Quiet
<1>11. \/ Close \/ ExecReturns \/ Execute \/ handleSignal \/ handleCancel
       \/ \E n \in UpdateNames : HandleQueuedUpdates(n)
       \/ Quiet \/ UNCHANGED vars
  BY <1>5, <1>6, <1>7, <1>8, <1>9, <1>10 DEF Next, Task, Events, Closed
<1> QED
  BY <1>2, <1>3, <1>4, <1>11 DEF Quiet

(* A closed execution stays closed.                                        *)
LEMMA ClosedStays ==
    ASSUME [Next]_vars, pc = "closed"
    PROVE  pc' = "closed"
<1>1. CASE UNCHANGED vars
  BY <1>1 DEF vars
<1>2. CASE Execute \/ Close \/ Events
  BY <1>2 DEF Execute, Close, Events, Event, handleSignal, handleCancel, ReplayEnds, handleUpdate,
       Resolve, ChildStarted, ChildStartFailed
<1>3. CASE TaskStarted \/ RunCallbacks \/ FlushTask \/ EndTask \/ ExecReturns \/ ExecFails
  BY <1>3 DEF TaskStarted, RunCallbacks, FlushTask, EndTask, ExecReturns, ExecFails, InExec
<1>4. ASSUME NEW n \in UpdateNames, HandleQueuedUpdates(n) PROVE FALSE
  BY <1>4 DEF HandleQueuedUpdates
<1>5. CASE Worker
  <2>1. ASSUME NEW m, WorkerSends(m) PROVE FALSE
    BY <2>1 DEF WorkerSends, InExec
  <2> QED
    BY <1>5, <2>1, Zenon DEF Worker
<1>6. ASSUME NEW id \in CmdIDs, HandleMessage(id) PROVE FALSE
  BY <1>6 DEF HandleMessage, HandleRequest, HandleExecuteChildWorkflow,
       HandleGetChildWorkflowExecution, HandleGetVersion, HandleSideEffect, HandleCancel,
       HandleUpdateValidated, HandleUpdateCompleted, HandleFinishing, HandleUnanswered, Handling
<1> QED
  BY <1>1, <1>2, <1>3, <1>4, <1>5, <1>6 DEF Next, Task, Closed

(* The updates of one name, said in the order of their queue.              *)
LEMMA UpdatesSay ==
    ASSUME TypeOK, NEW n \in UpdateNames, HandleQueuedUpdates(n)
    PROVE  \E t \in Seq(Message) :
             /\ Says(t) /\ Len(t) = Len(buffered[n])
             /\ \A i \in 1 .. Len(t) : t[i].type = "InvokeUpdate" /\ t[i].upd = buffered[n][i]
<1> DEFINE queued == buffered[n]
           t == [i \in 1 .. Len(queued) |-> HostMessage("InvokeUpdate", 0, queued[i])]
<1>1. queued \in Seq(UpdateIDs) /\ Len(queued) \in Nat
  BY DEF TypeOK, EnvTypeOK
<1>2. Says(t)
  BY DEF Says, HandleQueuedUpdates, workerVars
<1>3. \A i \in 1 .. Len(queued) : t[i] \in Message
  BY <1>1, MessageTypes DEF HostCommands
<1>4. \A i \in 1 .. Len(queued) : t[i].type = "InvokeUpdate" /\ t[i].upd = queued[i]
  BY DEF HostMessage
<1>5. t \in Seq(Message) /\ Len(t) = Len(queued)
  <2>1. t \in [1 .. Len(queued) -> Message]
    BY <1>3
  <2> HIDE DEF t, queued
  <2> QED
    BY <1>1, <2>1, FunctionIsSeq
<1> HIDE DEF t
<1> QED
  BY <1>2, <1>4, <1>5

-----------------------------------------------------------------------------
(* The start and the signals.                                              *)

(* The positions of a longer conversation.                                 *)
LEMMA Extended ==
    ASSUME NEW q \in Seq(Message), NEW t \in Seq(Message)
    PROVE  /\ q \o t \in Seq(Message)
           /\ Len(q) \in Nat /\ Len(t) \in Nat /\ Len(q \o t) = Len(q) + Len(t)
           /\ \A i \in 1 .. Len(q) : (q \o t)[i] = q[i] /\ i \in 1 .. Len(q \o t)
           /\ \A i \in 1 .. Len(t) : (q \o t)[Len(q) + i] = t[i] /\ Len(q) + i \in 1 .. Len(q \o t)
           /\ \A i \in 1 .. Len(q \o t) :
                i \in 1 .. Len(q) \/ (i - Len(q) \in 1 .. Len(t) /\ (q \o t)[i] = t[i - Len(q)])
  OBVIOUS

(* A step that says nothing of a signal keeps the order of the signals.    *)
LEMMA SignalsStay ==
    ASSUME TypeOK, StartThenSignalsInOrder, pc \notin {"new", "closed"}, UNCHANGED signals,
           NEW t \in Seq(Message), Says(t), \A i \in 1 .. Len(t) : t[i].type # "InvokeSignal"
    PROVE  StartThenSignalsInOrder'
<1> DEFINE q == Conversation
           p == Conversation'
<1>1. p = q \o t /\ q \in Seq(Message)
  BY SaysExtends, ConversationType
<1>2. q # << >> /\ q[1].type = "StartWorkflow"
  BY DEF StartThenSignalsInOrder
<1>3. /\ \A i \in Signalled : q[i].id \in 1 .. signals
      /\ \A i, j \in Signalled : i < j => q[i].id < q[j].id
      /\ \A k \in 1 .. signals : \E i \in Signalled : q[i].id = k
  BY DEF StartThenSignalsInOrder
<1>4. Signalled = {i \in 1 .. Len(q) : q[i].type = "InvokeSignal"}
  BY DEF Signalled
<1>5. Signalled' = {i \in 1 .. Len(p) : p[i].type = "InvokeSignal"}
  BY DEF Signalled
<1> HIDE DEF q, p
<1>6. Signalled' = Signalled /\ \A i \in Signalled : p[i] = q[i]
  BY <1>1, <1>4, <1>5, Extended
<1>7. p # << >> /\ p[1].type = "StartWorkflow"
  <2>1. 1 \in 1 .. Len(q)
    BY <1>1, <1>2
  <2> QED
    BY <1>1, <1>2, <2>1, Extended
<1> QED
  BY <1>3, <1>6, <1>7 DEF StartThenSignalsInOrder, p

(* A signal comes after all signals before it.                             *)
LEMMA SignalJoins ==
    ASSUME TypeOK, StartThenSignalsInOrder, pc \notin {"new", "closed"}, signals' = signals + 1,
           Says(<<HostMessage("InvokeSignal", signals + 1, NoUpdate)>>)
    PROVE  StartThenSignalsInOrder'
<1> DEFINE q == Conversation
           p == Conversation'
           m == HostMessage("InvokeSignal", signals + 1, NoUpdate)
           t == <<m>>
<1>1. signals \in Nat
  BY BoundsAssumption DEF TypeOK, EnvTypeOK
<1>2. m \in Message
  BY <1>1, MessageTypes DEF HostCommands
<1>3. m.type = "InvokeSignal" /\ m.id = signals + 1
  BY DEF HostMessage
<1> HIDE DEF m
<1>4. t \in Seq(Message) /\ Len(t) = 1 /\ t[1] = m
  BY <1>2
<1>5. Says(t)
  BY DEF m
<1> HIDE DEF t
<1>6. p = q \o t /\ q \in Seq(Message)
  BY <1>4, <1>5, SaysExtends, ConversationType
<1>7. q # << >> /\ q[1].type = "StartWorkflow"
  BY DEF StartThenSignalsInOrder
<1>8. /\ \A i \in Signalled : q[i].id \in 1 .. signals
      /\ \A i, j \in Signalled : i < j => q[i].id < q[j].id
      /\ \A k \in 1 .. signals : \E i \in Signalled : q[i].id = k
  BY DEF StartThenSignalsInOrder
<1>9. /\ Signalled = {i \in 1 .. Len(q) : q[i].type = "InvokeSignal"}
      /\ Signalled' = {i \in 1 .. Len(p) : p[i].type = "InvokeSignal"}
  BY DEF Signalled
<1> HIDE DEF q, p
<1> DEFINE new == Len(q) + 1
<1>10. /\ Len(q) \in Nat /\ Len(p) = new /\ p[new] = m
       /\ \A i \in 1 .. Len(q) : p[i] = q[i]
  <2>1. 1 \in 1 .. Len(t)
    BY <1>4
  <2>2. /\ Len(q) \in Nat /\ Len(q \o t) = Len(q) + Len(t)
        /\ \A i \in 1 .. Len(q) : (q \o t)[i] = q[i]
        /\ \A i \in 1 .. Len(t) : (q \o t)[Len(q) + i] = t[i]
    BY <1>4, <1>6, Extended
  <2> QED
    BY <1>4, <1>6, <2>1, <2>2
<1>11. Signalled' = Signalled \cup {new}
  BY <1>3, <1>9, <1>10
<1>12. \A i \in Signalled : i \in Nat /\ i < new /\ p[i] = q[i]
  BY <1>9, <1>10
<1>13. p # << >> /\ p[1].type = "StartWorkflow"
  <2>1. 1 \in 1 .. Len(q)
    BY <1>6, <1>7
  <2> QED
    BY <1>6, <1>7, <1>10, <2>1
<1>14. \A i \in Signalled' : p[i].id \in 1 .. signals'
  BY <1>1, <1>3, <1>8, <1>10, <1>11, <1>12
<1>15. \A i, j \in Signalled' : i < j => p[i].id < p[j].id
  <2> SUFFICES ASSUME NEW i \in Signalled', NEW j \in Signalled', i < j PROVE p[i].id < p[j].id
    OBVIOUS
  <2>1. i \in Signalled
    BY <1>10, <1>11, <1>12
  <2>2. CASE j \in Signalled
    BY <1>8, <1>12, <2>1, <2>2
  <2>3. CASE j = new
    BY <1>1, <1>3, <1>8, <1>10, <1>12, <2>1, <2>3
  <2> QED
    BY <1>11, <2>2, <2>3
<1>16. \A k \in 1 .. signals' : \E i \in Signalled' : p[i].id = k
  <2> SUFFICES ASSUME NEW k \in 1 .. signals' PROVE \E i \in Signalled' : p[i].id = k
    OBVIOUS
  <2>1. CASE k \in 1 .. signals
    BY <1>8, <1>11, <1>12, <2>1
  <2>2. CASE k = signals + 1
    BY <1>3, <1>10, <1>11, <2>2
  <2> QED
    BY <1>1, <2>1, <2>2
<1> QED
  BY <1>13, <1>14, <1>15, <1>16 DEF StartThenSignalsInOrder, p

(* Every step keeps the worker's view of the history in order.             *)
LEMMA SignalStep ==
    ASSUME TypeOK, TaskInvariant, StartThenSignalsInOrder, [Next]_vars
    PROVE  StartThenSignalsInOrder'
<1> SUFFICES ASSUME pc' \notin {"new", "closed"} PROVE StartThenSignalsInOrder'
  BY DEF StartThenSignalsInOrder
<1>1. pc # "closed" /\ ~Close
  BY ClosedStays DEF Close
<1>2. AnswerMessage \subseteq Message /\ \A m \in AnswerMessage : m.type # "InvokeSignal"
  BY DEF AnswerMessage, Answers
<1>3. CASE UNCHANGED vars
  BY <1>3 DEF StartThenSignalsInOrder, Signalled, Conversation, vars, eventVars, workerVars
<1>4. CASE ExecReturns
  <2>1. Conversation' = Conversation /\ UNCHANGED signals /\ pc # "new"
    BY <1>4, ExchangeKeeps DEF ExecReturns, eventVars, InExec
  <2>2. Signalled' = Signalled
    BY <2>1 DEF Signalled
  <2> QED
    BY <1>1, <2>1, <2>2 DEF StartThenSignalsInOrder
<1>5. CASE Execute /\ Says(<<HostMessage("StartWorkflow", 0, NoUpdate)>>)
  <2> DEFINE m == HostMessage("StartWorkflow", 0, NoUpdate)
  <2>1. mq = << >> /\ delivered = << >> /\ signals = 0 /\ signals' = 0
    BY <1>5 DEF TaskInvariant, Execute
  <2>2. Conversation' = << >> \o (<< >> \o <<m>>)
    BY <1>5, <2>1 DEF Conversation, Says
  <2>3. m.type = "StartWorkflow"
    BY DEF HostMessage
  <2> HIDE DEF m
  <2>4. Conversation' = <<m>>
    BY <2>2
  <2>5. Signalled' = {}
    BY <2>3, <2>4 DEF Signalled
  <2> QED
    BY <2>1, <2>3, <2>4, <2>5 DEF StartThenSignalsInOrder
<1>6. CASE handleSignal /\ Says(<<HostMessage("InvokeSignal", signals + 1, NoUpdate)>>)
  <2>1. signals' = signals + 1 /\ pc # "new"
    BY <1>6 DEF handleSignal, Event
  <2> QED
    BY <1>1, <1>6, <2>1, SignalJoins
<1>7. CASE handleCancel /\ Says(<<HostMessage("CancelWorkflow", 0, NoUpdate)>>)
  <2> DEFINE m == HostMessage("CancelWorkflow", 0, NoUpdate)
             t == <<m>>
  <2>1. m \in Message /\ m.type # "InvokeSignal"
    <3>1. m \in Message
      BY MessageTypes DEF HostCommands
    <3> QED
      BY <3>1 DEF HostMessage
  <2>2. UNCHANGED signals /\ pc # "new" /\ Says(t)
    BY <1>7 DEF handleCancel, Event
  <2> HIDE DEF m
  <2>3. t \in Seq(Message) /\ \A i \in 1 .. Len(t) : t[i].type # "InvokeSignal"
    BY <2>1
  <2> HIDE DEF t
  <2> QED
    BY <1>1, <2>2, <2>3, SignalsStay
<1>8. ASSUME NEW n \in UpdateNames, HandleQueuedUpdates(n) PROVE StartThenSignalsInOrder'
  <2>1. UNCHANGED signals /\ pc # "new"
    BY <1>8 DEF HandleQueuedUpdates, eventVars
  <2>2. PICK t \in Seq(Message) : Says(t) /\ \A i \in 1 .. Len(t) : t[i].type = "InvokeUpdate"
    BY <1>8, UpdatesSay
  <2> QED
    BY <1>1, <2>1, <2>2, SignalsStay
<1>9. ASSUME UNCHANGED signals, pc # "new", NEW t \in Seq(AnswerMessage), Says(t)
      PROVE  StartThenSignalsInOrder'
  <2>1. t \in Seq(Message) /\ \A i \in 1 .. Len(t) : t[i].type # "InvokeSignal"
    <3>1. \A i \in 1 .. Len(t) : t[i] \in AnswerMessage
      OBVIOUS
    <3> QED
      BY <1>2, <3>1, SeqMonotonic
  <2> QED
    BY <1>1, <1>9, <2>1, SignalsStay
<1> QED
  BY <1>1, <1>3, <1>4, <1>5, <1>6, <1>7, <1>8, <1>9, SayingSteps

-----------------------------------------------------------------------------
(* What is left at each place of a task.                                   *)

(* An answer joins a queue of answers.                                     *)
LEMMA AnswersStay ==
    ASSUME TypeOK, \A i \in 1 .. Len(mq) : mq[i].type \in Answers,
           NEW t \in Seq(AnswerMessage), Says(t)
    PROVE  \A i \in 1 .. Len(mq') : mq'[i].type \in Answers
<1>1. mq \in Seq(Message) /\ mq' = mq \o t
  BY DEF TypeOK, HostTypeOK, Says
<1>2. \A i \in 1 .. Len(t) : t[i].type \in Answers
  BY DEF AnswerMessage
<1> QED
  BY <1>1, <1>2, ConcatElements

(* Handling a message leaves the callbacks and the queued names alone, and *)
(* ends the execution or keeps it in the loop.                             *)
LEMMA HandlingStays ==
    ASSUME NEW id \in CmdIDs, HandleMessage(id)
    PROVE  /\ UNCHANGED <<callbacks, updatesQueue>>
           /\ pc = "pipeline" /\ pc' \in {"pipeline", "panicked"} \cup InExec
  BY DEF HandleMessage, HandleRequest, HandleExecuteChildWorkflow,
       HandleGetChildWorkflowExecution, HandleGetVersion, HandleSideEffect, HandleCancel,
       HandleUpdateValidated, HandleUpdateCompleted, HandleFinishing, HandleUnanswered,
       Handling, Handled, Panics, Exchange, InExec, updateVars

(* TaskInvariant is inductive.                                             *)
LEMMA TaskStep ==
    ASSUME TypeOK, TaskInvariant, [Next]_vars
    PROVE  TaskInvariant'
<1>1. CASE UNCHANGED vars
  BY <1>1 DEF TaskInvariant, vars, updateVars, eventVars, workerVars
<1>2. CASE Execute \/ Close \/ ExecFails \/ EndTask \/ TaskStarted
  BY <1>2 DEF TaskInvariant, Execute, Close, ExecFails, EndTask, TaskStarted, InExec
<1>3. CASE Events
  BY <1>3 DEF TaskInvariant, Events, Event, handleSignal, handleCancel, ReplayEnds, handleUpdate,
       Resolve, ChildStarted, ChildStartFailed, InExec
<1>4. CASE RunCallbacks
  BY <1>4 DEF TaskInvariant, RunCallbacks, CallbacksLeft, InExec
<1>5. ASSUME NEW n \in UpdateNames, HandleQueuedUpdates(n) PROVE TaskInvariant'
  BY <1>5 DEF TaskInvariant, HandleQueuedUpdates, InExec
<1>6. CASE FlushTask
  BY <1>6 DEF TaskInvariant, FlushTask, Exchange, InExec, updateVars
<1>7. CASE Worker
  <2>1. ASSUME NEW m, WorkerSends(m) PROVE TaskInvariant'
    BY <2>1 DEF TaskInvariant, WorkerSends, InExec, updateVars
  <2> QED
    BY <1>7, <2>1, Zenon DEF Worker
<1>8. CASE ExecReturns
  BY <1>8 DEF TaskInvariant, ExecReturns, Flush, InExec, updateVars
<1>9. ASSUME NEW id \in CmdIDs, HandleMessage(id) PROVE TaskInvariant'
  <2>1. /\ UNCHANGED <<callbacks, updatesQueue>>
        /\ pc = "pipeline" /\ pc' \in {"pipeline", "panicked"} \cup InExec
    BY <1>9, HandlingStays
  <2>2. PICK t \in Seq(AnswerMessage) : Says(t)
    BY <1>9, MessageSays
  <2>3. \A i \in 1 .. Len(mq') : mq'[i].type \in Answers
    BY <2>1, <2>2, AnswersStay DEF TaskInvariant
  <2> QED
    BY <2>1, <2>3 DEF TaskInvariant, InExec
<1> QED
  BY <1>1, <1>2, <1>3, <1>4, <1>5, <1>6, <1>7, <1>8, <1>9 DEF Next, Task, Closed

(* So is NoUpdateStranded: a name is forgotten only when its updates are   *)
(* handled.                                                                *)
LEMMA StrandedStep ==
    ASSUME TypeOK, NoUpdateStranded, [Next]_vars
    PROVE  NoUpdateStranded'
<1> SUFFICES ASSUME pc' # "closed", NEW k \in UpdateNames, buffered'[k] # << >>
             PROVE  k \in updatesQueue'
  BY DEF NoUpdateStranded
<1>1. pc # "closed" /\ ~Close
  BY ClosedStays DEF Close
<1>2. buffered \in [UpdateNames -> Seq(UpdateIDs)]
  BY DEF TypeOK, EnvTypeOK
<1>3. CASE UNCHANGED <<updatesQueue, buffered>>
  BY <1>1, <1>3 DEF NoUpdateStranded
<1>4. ASSUME NEW u \in UpdateIDs, handleUpdate(u) PROVE k \in updatesQueue'
  BY <1>1, <1>2, <1>4 DEF NoUpdateStranded, handleUpdate
<1>5. ASSUME NEW n \in UpdateNames, HandleQueuedUpdates(n) PROVE k \in updatesQueue'
  BY <1>1, <1>2, <1>5 DEF NoUpdateStranded, HandleQueuedUpdates, NamesLeft
<1>6. ASSUME NEW id \in CmdIDs, HandleUpdateValidated(id) \/ HandleUpdateCompleted(id)
      PROVE  UNCHANGED <<updatesQueue, buffered>>
  BY <1>6 DEF HandleUpdateValidated, HandleUpdateCompleted
<1> QED
  BY <1>1, <1>3, <1>4, <1>5, <1>6, UpdateSteps

-----------------------------------------------------------------------------
(* The theorems.                                                           *)

(* A fresh definition has handed over everything there is.                 *)
LEMMA TasksInit ==
    ASSUME Init
    PROVE  TaskInvariant /\ NoUpdateStranded /\ StartThenSignalsInOrder
  BY DEF Init, TaskInvariant, NoUpdateStranded, StartThenSignalsInOrder, InExec

(* The start, the signals and the places of a task together.               *)
LEMMA TasksInvariant == Spec => [](TypeOK /\ TaskInvariant /\ NoUpdateStranded)
<1>1. Init => TypeOK /\ TaskInvariant /\ NoUpdateStranded
  BY TypeInit, TasksInit
<1>2. TypeOK /\ TaskInvariant /\ NoUpdateStranded /\ [Next]_vars
        => (TypeOK /\ TaskInvariant /\ NoUpdateStranded)'
  BY TypeStep, TaskStep, StrandedStep
<1> QED
  BY <1>1, <1>2, PTL DEF Spec

(* No update is stranded in the environment's queue between handleUpdate   *)
(* and the task that must handle its name, whatever names and updates come.*)
THEOREM NoUpdateIsStranded == Spec => []NoUpdateStranded
  BY TasksInvariant, PTL

(* When OnWorkflowTaskStarted turns to the worker's first message, every   *)
(* callback, buffered update and host command has been handed over.        *)
THEOREM TasksHandOverEverything == Spec => []TaskHandsOverEverything
<1>1. TypeOK /\ TaskInvariant /\ NoUpdateStranded => TaskHandsOverEverything
  BY DEF TaskInvariant, NoUpdateStranded, TaskHandsOverEverything
<1> QED
  BY <1>1, TasksInvariant, PTL

(* The worker hears of the start first and then of every signal once and   *)
(* in order, however tasks, answers and failed exchanges interleave.       *)
THEOREM SignalsArriveInOrder == Spec => []StartThenSignalsInOrder
<1>1. Init => StartThenSignalsInOrder
  BY TasksInit
<1>2. TypeOK /\ TaskInvariant /\ StartThenSignalsInOrder /\ [Next]_vars
        => StartThenSignalsInOrder'
  BY SignalStep
<1> QED
  BY <1>1, <1>2, TasksInvariant, PTL DEF Spec

-----------------------------------------------------------------------------
(* Accepted updates.                                                       *)

(* The worker refuses nothing during a replay.                             *)
LEMMA RefusesOnlyLive ==
    ASSUME TypeOK, Worker
    PROVE  \E m \in WorkerMessage : WorkerSends(m) /\ (replaying => ~m.failed)
<1>1. PICK m \in WorkerMessage : WorkerSends(m)
  BY WorkerSendsMessage
<1>2. issued \in Seq(WorkerMessage)
  BY DEF TypeOK, WorkerTypeOK
<1>3. ASSUME NEW x, WorkerSends(x) PROVE x = m
  <2>1. Append(issued, x) = Append(issued, m)
    BY <1>1, <1>3, Zenon DEF WorkerSends
  <2>2. /\ Append(issued, x)[Len(issued) + 1] = x
        /\ Append(issued, m)[Len(issued) + 1] = m
    BY <1>2
  <2> QED
    BY <2>1, <2>2
<1>4. \A k, c, u, cs : ~Sent(k, c, u, cs, FALSE).failed
  BY DEF Sent
<1>5. \/ \E k, c, u, cs : WorkerSends(Sent(k, c, u, cs, FALSE))
      \/ ~replaying
  BY Zenon DEF Worker
<1> QED
  BY <1>1, <1>3, <1>4, <1>5, Zenon

(* A replay ends once.                                                     *)
LEMMA ReplayOnlyEnds ==
    ASSUME [Next]_vars, replaying'
    PROVE  replaying
<1>1. CASE UNCHANGED vars
  BY <1>1, Zenon DEF vars, eventVars
<1>2. CASE Execute \/ Close \/ Events
  BY <1>2, Zenon DEF Execute, Close, Events, handleSignal, handleCancel, ReplayEnds, handleUpdate,
       Resolve, ChildStarted, ChildStartFailed, eventVars
<1>3. CASE TaskStarted \/ RunCallbacks \/ FlushTask \/ EndTask \/ ExecReturns \/ ExecFails
  BY <1>3, Zenon DEF TaskStarted, RunCallbacks, FlushTask, EndTask, ExecReturns, ExecFails, eventVars
<1>4. ASSUME NEW n \in UpdateNames, HandleQueuedUpdates(n) PROVE replaying
  BY <1>4, Zenon DEF HandleQueuedUpdates, eventVars
<1>5. CASE Worker
  <2>1. ASSUME NEW m, WorkerSends(m) PROVE replaying
    BY <2>1, Zenon DEF WorkerSends, eventVars
  <2> QED
    BY <1>5, <2>1, Zenon DEF Worker
<1>6. ASSUME NEW id \in CmdIDs, HandleMessage(id) PROVE replaying
  BY <1>6, Zenon DEF HandleMessage, HandleRequest, HandleExecuteChildWorkflow,
       HandleGetChildWorkflowExecution, HandleGetVersion, HandleSideEffect, HandleCancel,
       HandleUpdateValidated, HandleUpdateCompleted, HandleFinishing, HandleUnanswered, eventVars
<1> QED
  BY <1>1, <1>2, <1>3, <1>4, <1>5, <1>6 DEF Next, Task, Closed

(* So no verdict that reaches the host during a replay refuses.            *)
LEMMA RefusalStep ==
    ASSUME TypeOK, replaying => \A c \in 1 .. Len(issued) : ~issued[c].failed, [Next]_vars
    PROVE  replaying' => \A c \in 1 .. Len(issued') : ~issued'[c].failed
<1> SUFFICES ASSUME replaying' PROVE \A c \in 1 .. Len(issued') : ~issued'[c].failed
  OBVIOUS
<1>1. \A c \in 1 .. Len(issued) : ~issued[c].failed
  BY ReplayOnlyEnds
<1>2. CASE issued' = issued
  BY <1>1, <1>2
<1>3. CASE Worker
  <2>1. PICK m \in WorkerMessage : WorkerSends(m) /\ ~m.failed
    BY <1>3, RefusesOnlyLive, ReplayOnlyEnds
  <2>2. issued' = Append(issued, m) /\ issued \in Seq(WorkerMessage)
    BY <2>1 DEF WorkerSends, TypeOK, WorkerTypeOK
  <2> QED
    BY <1>1, <2>1, <2>2, AppendElements
<1> QED
  BY <1>2, <1>3, QueueSteps DEF ExecReturns, ExecFails

(* CallbackInvariant is inductive: the verdict drops the completion        *)
(* callback only of an update it rejects.                                  *)
LEMMA CallbackStep ==
    ASSUME TypeOK, UpdateInvariant, CallbackInvariant, [Next]_vars
    PROVE  CallbackInvariant'
<1>1. /\ upd \in [UpdateIDs -> Stages] /\ buffered \in [UpdateNames -> Seq(UpdateIDs)]
      /\ validateCb \subseteq UpdateIDs /\ completeCb \subseteq UpdateIDs
  BY DEF TypeOK, EnvTypeOK, HostTypeOK
<1>2. CallbacksAtStage
  BY DEF UpdateInvariant
<1>3. replaying' => \A c \in 1 .. Len(issued') : ~issued'[c].failed
  BY RefusalStep DEF CallbackInvariant
<1> SUFFICES ASSUME pc' # "closed", NEW w \in UpdateIDs
             PROVE  /\ upd'[w] = "scheduled" => w \in validateCb' \cap completeCb'
                    /\ upd'[w] = "accepted" => w \in completeCb'
  BY <1>3 DEF CallbackInvariant
<1> DEFINE Goal == /\ upd'[w] = "scheduled" => w \in validateCb' \cap completeCb'
                   /\ upd'[w] = "accepted" => w \in completeCb'
<1>4. pc # "closed" /\ ~Close
  BY ClosedStays DEF Close
<1>5. /\ upd[w] = "scheduled" => w \in validateCb \cap completeCb
      /\ upd[w] = "accepted" => w \in completeCb
  BY <1>4 DEF CallbackInvariant
<1>6. CASE UNCHANGED <<upd, validateCb, completeCb>>
  BY <1>5, <1>6
<1>7. ASSUME NEW u \in UpdateIDs, handleUpdate(u) PROVE Goal
  BY <1>1, <1>5, <1>7 DEF handleUpdate
<1>8. ASSUME NEW n \in UpdateNames, HandleQueuedUpdates(n) PROVE Goal
  BY <1>1, <1>5, <1>8 DEF HandleQueuedUpdates
<1>9. ASSUME NEW id \in CmdIDs, HandleUpdateValidated(id) PROVE Goal
  <2> DEFINE u == issued[id].upd
             failed == issued[id].failed
  <2>1. CASE UNCHANGED <<upd, validateCb, completeCb>>
    BY <1>6, <2>1
  <2>2. CASE /\ u \in validateCb /\ Verdict(u, failed)
             /\ validateCb' = ValidateLeft(validateCb, u)
             /\ completeCb' = CompleteLeft(completeCb, u, failed)
    <3>1. upd[u] = "scheduled" /\ u \in UpdateIDs
      BY <1>1, <1>2, <2>2 DEF CallbacksAtStage
    <3>2. upd' = [upd EXCEPT ![u] = IF ~replaying /\ failed THEN "rejected" ELSE "accepted"]
      BY <1>1, <2>2, <3>1 DEF Verdict, Calls
    <3>3. CASE w # u
      <4>1. upd'[w] = upd[w]
        BY <1>1, <3>2, <3>3
      <4>2. (w \in validateCb => w \in validateCb') /\ (w \in completeCb => w \in completeCb')
        BY <2>2, <3>3 DEF ValidateLeft, CompleteLeft
      <4> QED
        BY <1>5, <4>1, <4>2
    <3>4. CASE w = u /\ failed
      <4>1. ~replaying
        <5>1. id \in 1 .. Len(issued)
          BY <1>9 DEF HandleUpdateValidated, Handling, IssuedAs
        <5> QED
          BY <3>4, <5>1 DEF CallbackInvariant
      <4>2. upd'[w] = "rejected"
        BY <1>1, <3>2, <3>4, <4>1
      <4> QED
        BY <4>2
    <3>5. CASE w = u /\ ~failed
      <4>1. upd'[w] = "accepted"
        BY <1>1, <3>2, <3>5
      <4>2. completeCb' = completeCb
        BY <2>2, <3>5 DEF CompleteLeft
      <4> QED
        BY <1>5, <3>1, <3>5, <4>1, <4>2
    <3> QED
      BY <3>3, <3>4, <3>5
  <2> QED
    BY <1>9, <2>1, <2>2, Zenon DEF HandleUpdateValidated
<1>10. ASSUME NEW id \in CmdIDs, HandleUpdateCompleted(id) PROVE Goal
  <2> DEFINE u == issued[id].upd
  <2>1. validateCb' = validateCb
    BY <1>10 DEF HandleUpdateCompleted
  <2>2. CASE UNCHANGED <<upd, completeCb>>
    BY <1>6, <2>1, <2>2
  <2>3. CASE u \in completeCb /\ Calls(u, "accepted", "completed") /\ completeCb' = completeCb \ {u}
    <3>1. u \notin validateCb
      BY <1>10, CompletionAfterVerdict DEF HandleUpdateCompleted, UpdateInvariant
    <3>2. upd[u] = "accepted" /\ u \in UpdateIDs
      BY <1>1, <1>2, <2>3, <3>1 DEF CallbacksAtStage
    <3>3. upd'[u] = "completed" /\ (w # u => upd'[w] = upd[w])
      BY <1>1, <2>3, <3>2 DEF Calls
    <3> QED
      BY <1>5, <2>1, <2>3, <3>3
  <2> QED
    BY <1>10, <2>2, <2>3, Zenon DEF HandleUpdateCompleted
<1> QED
  BY <1>4, <1>6, <1>7, <1>8, <1>9, <1>10, UpdateSteps

(* An update that the worker accepted keeps its completion callback until  *)
(* it is completed, and no other update has one, whatever the worker       *)
(* repeats and however a replay ends.                                      *)
THEOREM AcceptedUpdatesCanComplete == Spec => []AcceptedCanComplete
<1>1. Init => CallbackInvariant
  BY DEF Init, CallbackInvariant
<1>2. TypeOK /\ UpdateInvariant /\ CallbackInvariant /\ [Next]_vars => CallbackInvariant'
  BY CallbackStep
<1>3. TypeOK /\ UpdateInvariant /\ CallbackInvariant => AcceptedCanComplete
  <2> SUFFICES ASSUME TypeOK, CallbacksAtStage, CallbackInvariant, pc # "closed", NEW u \in UpdateIDs
               PROVE  upd[u] \in {"scheduled", "accepted"} <=> u \in completeCb
    BY DEF UpdateInvariant, AcceptedCanComplete
  <2> QED
    BY DEF CallbacksAtStage, CallbackInvariant
<1> QED
  BY <1>1, <1>2, <1>3, TypeCorrect, UpdatesKeptInOrder, PTL DEF Spec

-----------------------------------------------------------------------------
(* The order of updates.                                                   *)

(* Only HandleQueuedUpdates invokes updates.                               *)
LEMMA InvocationsStay ==
    ASSUME TypeOK, [Next]_vars, ~Close,
           ~\E n \in UpdateNames : HandleQueuedUpdates(n)
    PROVE  Invocations' = Invocations /\ \A i \in Invocations : Conversation'[i] = Conversation[i]
<1> DEFINE q == Conversation
           p == Conversation'
<1>1. /\ Invocations = {i \in 1 .. Len(q) : q[i].type = "InvokeUpdate"}
      /\ Invocations' = {i \in 1 .. Len(p) : p[i].type = "InvokeUpdate"}
  BY DEF Invocations
<1>2. ASSUME p = q PROVE Invocations' = Invocations /\ \A i \in Invocations : p[i] = q[i]
  BY <1>1, <1>2
<1>3. ASSUME NEW t \in Seq(Message), Says(t), \A i \in 1 .. Len(t) : t[i].type # "InvokeUpdate"
      PROVE  Invocations' = Invocations /\ \A i \in Invocations : p[i] = q[i]
  <2>1. p = q \o t /\ q \in Seq(Message)
    BY <1>3, SaysExtends, ConversationType
  <2> HIDE DEF p, q
  <2> QED
    BY <1>1, <1>3, <2>1, Extended
<1>4. ASSUME NEW k \in HostCommands \ {"InvokeUpdate"}, NEW n \in Nat,
             Says(<<HostMessage(k, n, NoUpdate)>>)
      PROVE  Invocations' = Invocations /\ \A i \in Invocations : p[i] = q[i]
  <2> DEFINE m == HostMessage(k, n, NoUpdate)
             t == <<m>>
  <2>1. m \in Message /\ m.type # "InvokeUpdate"
    <3>1. m \in Message
      BY MessageTypes
    <3> QED
      BY <3>1 DEF HostMessage
  <2>2. Says(t)
    BY <1>4
  <2> HIDE DEF m
  <2>3. t \in Seq(Message) /\ \A i \in 1 .. Len(t) : t[i].type # "InvokeUpdate"
    BY <2>1
  <2> HIDE DEF t
  <2> QED
    BY <1>3, <2>2, <2>3
<1>5. CASE UNCHANGED vars
  BY <1>2, <1>5 DEF vars, workerVars, Conversation
<1>6. CASE ExecReturns
  BY <1>2, <1>6, ExchangeKeeps
<1>7. ASSUME NEW t \in Seq(AnswerMessage), Says(t)
      PROVE  Invocations' = Invocations /\ \A i \in Invocations : p[i] = q[i]
  <2>1. AnswerMessage \subseteq Message /\ \A m \in AnswerMessage : m.type # "InvokeUpdate"
    BY DEF AnswerMessage, Answers
  <2>2. \A i \in 1 .. Len(t) : t[i] \in AnswerMessage
    OBVIOUS
  <2>3. t \in Seq(Message) /\ \A i \in 1 .. Len(t) : t[i].type # "InvokeUpdate"
    BY <2>1, <2>2, SeqMonotonic
  <2> QED
    BY <1>3, <1>7, <2>3
<1>8. signals + 1 \in Nat /\ 0 \in Nat
  BY BoundsAssumption DEF TypeOK, EnvTypeOK
<1>9. {"StartWorkflow", "InvokeSignal", "CancelWorkflow"} \subseteq HostCommands \ {"InvokeUpdate"}
  BY DEF HostCommands
<1> HIDE DEF p, q
<1>10. Invocations' = Invocations /\ \A i \in Invocations : p[i] = q[i]
  BY <1>4, <1>5, <1>6, <1>7, <1>8, <1>9, SayingSteps DEF p, q
<1> QED
  BY <1>10 DEF p, q

(* A step that moves no update keeps their order.                          *)
LEMMA OrderStays ==
    ASSUME UpdatesInOrder, pc # "closed", UNCHANGED <<arrived, buffered>>,
           Invocations' = Invocations, \A i \in Invocations : Conversation'[i] = Conversation[i]
    PROVE  UpdatesInOrder'
<1>1. /\ InvokedInOrder /\ InvokedBeforeBuffered /\ BufferedInOrder /\ ArrivedAreThere
      /\ \A i, j \in 1 .. Len(arrived) : arrived[i] = arrived[j] => i = j
  BY DEF UpdatesInOrder
<1>2. \A x, y : Before(x, y)' <=> Before(x, y)
  BY DEF Before
<1>3. \A x : (Arrived(x)' <=> Arrived(x)) /\ (Buffered(x)' <=> Buffered(x))
  BY DEF Arrived, Buffered
<1>4. InvokedInOrder'
  BY <1>1, <1>2 DEF InvokedInOrder, SameName
<1>5. InvokedBeforeBuffered'
  BY <1>1, <1>2 DEF InvokedBeforeBuffered
<1>6. BufferedInOrder'
  BY <1>1, <1>2 DEF BufferedInOrder
<1>7. ArrivedAreThere'
  BY <1>1, <1>3 DEF ArrivedAreThere
<1> QED
  BY <1>1, <1>4, <1>5, <1>6, <1>7 DEF UpdatesInOrder

(* What is invoked or queued has arrived, so it is an update.              *)
LEMMA ThereAreUpdates ==
    ASSUME TypeOK, ArrivedAreThere, NEW i \in Invocations
    PROVE  /\ Conversation[i].upd \in UpdateIDs
           /\ NameOf[Conversation[i].upd] \in UpdateNames
<1>1. arrived \in Seq(UpdateIDs)
  BY DEF TypeOK, EnvTypeOK
<1>2. Arrived(Conversation[i].upd)
  BY DEF ArrivedAreThere
<1>3. Conversation[i].upd \in UpdateIDs
  BY <1>1, <1>2 DEF Arrived
<1> QED
  BY <1>3, NameAssumption

(* An update arrives: after all others, and at the end of its queue.       *)
LEMMA ArrivalStep ==
    ASSUME TypeOK, UpdatesInOrder, ArrivalInvariant, NEW u \in UpdateIDs, handleUpdate(u),
           Invocations' = Invocations, \A i \in Invocations : Conversation'[i] = Conversation[i]
    PROVE  UpdatesInOrder'
<1> DEFINE name == NameOf[u]
           BeforeNow(x, y) == \E i, j \in 1 .. Len(arrived') : i < j /\ arrived'[i] = x /\ arrived'[j] = y
           ArrivedNow(x) == \E i \in 1 .. Len(arrived') : arrived'[i] = x
<1>1. /\ arrived \in Seq(UpdateIDs) /\ buffered \in [UpdateNames -> Seq(UpdateIDs)]
      /\ name \in UpdateNames
  BY NameAssumption DEF TypeOK, EnvTypeOK
<1>2. /\ InvokedInOrder /\ InvokedBeforeBuffered /\ BufferedInOrder /\ ArrivedAreThere
      /\ \A i, j \in 1 .. Len(arrived) : arrived[i] = arrived[j] => i = j
  BY DEF UpdatesInOrder, handleUpdate, Event
<1>3. ~Arrived(u)
  BY DEF handleUpdate, ArrivalInvariant, Arrived
<1>4. /\ arrived' = Append(arrived, u)
      /\ Len(arrived) \in Nat /\ Len(arrived') = Len(arrived) + 1 /\ arrived'[Len(arrived) + 1] = u
      /\ \A i \in 1 .. Len(arrived) : arrived'[i] = arrived[i]
  BY <1>1 DEF handleUpdate
<1>5. ASSUME NEW n \in UpdateNames
      PROVE  /\ n # name => buffered'[n] = buffered[n]
             /\ n = name => buffered'[n] = Append(buffered[n], u)
             /\ buffered[n] \in Seq(UpdateIDs)
  BY <1>1 DEF handleUpdate
<1>6. \A x, y : Before(x, y) => BeforeNow(x, y)
  BY <1>4 DEF Before
<1>7. \A x : Arrived(x) => BeforeNow(x, u) /\ ArrivedNow(x)
  BY <1>4 DEF Before, Arrived
<1>8. \A x : ArrivedNow(x) => Arrived(x) \/ x = u
  BY <1>4 DEF Arrived
<1>9. ArrivedNow(u)
  BY <1>4
<1>10. ASSUME NEW n \in UpdateNames, NEW k \in 1 .. Len(buffered'[n])
       PROVE  \/ k \in 1 .. Len(buffered[n]) /\ buffered'[n][k] = buffered[n][k]
              \/ n = name /\ k = Len(buffered[n]) + 1 /\ buffered'[n][k] = u
  BY <1>5
<1>11. ASSUME NEW n \in UpdateNames, NEW k \in 1 .. Len(buffered[n])
       PROVE  k \in 1 .. Len(buffered'[n]) /\ buffered'[n][k] = buffered[n][k]
  BY <1>5
<1>17. /\ \A x, y : Before(x, y)' <=> BeforeNow(x, y)
       /\ \A x : Arrived(x)' <=> ArrivedNow(x)
  BY DEF Before, Arrived
<1> HIDE DEF BeforeNow, ArrivedNow
<1>12. InvokedInOrder'
  BY <1>2, <1>6, <1>17 DEF InvokedInOrder, SameName
<1>13. InvokedBeforeBuffered'
  <2> SUFFICES ASSUME NEW i \in Invocations,
                      NEW k \in 1 .. Len(buffered'[NameOf[Conversation[i].upd]])
               PROVE  BeforeNow(Conversation[i].upd, buffered'[NameOf[Conversation[i].upd]][k])
    BY <1>17 DEF InvokedBeforeBuffered
  <2>1. NameOf[Conversation[i].upd] \in UpdateNames /\ Arrived(Conversation[i].upd)
    BY <1>2, ThereAreUpdates DEF ArrivedAreThere
  <2> QED
    BY <1>2, <1>6, <1>7, <1>10, <2>1 DEF InvokedBeforeBuffered
<1>14. BufferedInOrder'
  <2> SUFFICES ASSUME NEW n \in UpdateNames, NEW j \in 1 .. Len(buffered'[n]),
                      NEW k \in 1 .. Len(buffered'[n]), j < k
               PROVE  BeforeNow(buffered'[n][j], buffered'[n][k])
    BY <1>17 DEF BufferedInOrder
  <2>1. Len(buffered[n]) \in Nat
    BY <1>5
  <2>2. j \in 1 .. Len(buffered[n]) /\ buffered'[n][j] = buffered[n][j]
    <3>1. k \in 1 .. Len(buffered[n]) + 1
      BY <1>10, <2>1
    <3> QED
      BY <1>10, <2>1, <3>1
  <2>3. CASE k \in 1 .. Len(buffered[n]) /\ buffered'[n][k] = buffered[n][k]
    BY <1>2, <1>6, <2>2, <2>3 DEF BufferedInOrder
  <2>4. CASE buffered'[n][k] = u
    BY <1>2, <1>7, <2>2, <2>4 DEF ArrivedAreThere
  <2> QED
    BY <1>10, <2>3, <2>4
<1>15. ArrivedAreThere'
  <2>1. \A i \in Invocations' : ArrivedNow(Conversation[i].upd)
    BY <1>2, <1>7 DEF ArrivedAreThere
  <2>2. ASSUME NEW n \in UpdateNames, NEW i \in 1 .. Len(buffered'[n])
        PROVE  NameOf[buffered'[n][i]] = n /\ ArrivedNow(buffered'[n][i])
    BY <1>2, <1>7, <1>9, <1>10 DEF ArrivedAreThere
  <2>3. ASSUME NEW w \in UpdateIDs, ArrivedNow(w)
        PROVE  Buffered(w)' \/ \E i \in Invocations' : Conversation'[i].upd = w
    <3>0. NameOf[w] \in UpdateNames
      BY NameAssumption
    <3>1. CASE w = u
      <4>1. Len(buffered[name]) + 1 \in 1 .. Len(buffered'[name])
            /\ buffered'[name][Len(buffered[name]) + 1] = u
        BY <1>1, <1>5
      <4> QED
        BY <3>1, <4>1 DEF Buffered
    <3>2. CASE Arrived(w) /\ Buffered(w)
      BY <1>11, <3>0, <3>2 DEF Buffered
    <3>3. CASE Arrived(w) /\ ~Buffered(w)
      BY <1>2, <3>3 DEF ArrivedAreThere
    <3> QED
      BY <1>8, <2>3, <3>1, <3>2, <3>3
  <2> QED
    BY <1>17, <2>1, <2>2, <2>3 DEF ArrivedAreThere
<1>16. \A i, j \in 1 .. Len(arrived') : arrived'[i] = arrived'[j] => i = j
  BY <1>2, <1>3, <1>4 DEF Arrived
<1> QED
  BY <1>12, <1>13, <1>14, <1>15, <1>16 DEF UpdatesInOrder

(* The updates of one name are invoked: they come after those of that name *)
(* that were invoked before, and none of that name is left behind.         *)
LEMMA InvocationStep ==
    ASSUME TypeOK, UpdatesInOrder, NEW n \in UpdateNames, HandleQueuedUpdates(n)
    PROVE  UpdatesInOrder'
<1> DEFINE q == Conversation
           p == Conversation'
           queued == buffered[n]
           d == Len(q)
<1>1. /\ arrived \in Seq(UpdateIDs) /\ buffered \in [UpdateNames -> Seq(UpdateIDs)]
      /\ queued \in Seq(UpdateIDs)
  BY DEF TypeOK, EnvTypeOK
<1>2. /\ InvokedInOrder /\ InvokedBeforeBuffered /\ BufferedInOrder /\ ArrivedAreThere
      /\ \A i, j \in 1 .. Len(arrived) : arrived[i] = arrived[j] => i = j
  BY DEF UpdatesInOrder, HandleQueuedUpdates
<1>3. PICK t \in Seq(Message) :
        /\ Says(t) /\ Len(t) = Len(queued)
        /\ \A i \in 1 .. Len(t) : t[i].type = "InvokeUpdate" /\ t[i].upd = queued[i]
  BY UpdatesSay
<1>4. p = q \o t /\ q \in Seq(Message)
  BY <1>3, SaysExtends, ConversationType
<1>5. /\ arrived' = arrived /\ buffered'[n] = << >>
      /\ \A k \in UpdateNames : k # n => buffered'[k] = buffered[k]
  BY <1>1 DEF HandleQueuedUpdates
<1>6. /\ Invocations = {i \in 1 .. Len(q) : q[i].type = "InvokeUpdate"}
      /\ Invocations' = {i \in 1 .. Len(p) : p[i].type = "InvokeUpdate"}
  BY DEF Invocations
<1>7. /\ \A x, y : Before(x, y)' <=> Before(x, y)
      /\ \A x : Arrived(x)' <=> Arrived(x)
  BY <1>5 DEF Before, Arrived
<1>8. \A i \in 1 .. Len(queued) : queued[i] \in UpdateIDs /\ NameOf[queued[i]] = n /\ Arrived(queued[i])
  BY <1>1, <1>2 DEF ArrivedAreThere
<1> HIDE DEF p, q
<1>9. d \in Nat /\ Len(queued) \in Nat
  BY <1>1, <1>4
<1>10. \A i \in Invocations : i \in 1 .. d /\ i \in Invocations' /\ p[i] = q[i]
  BY <1>4, <1>6, Extended
<1>11. \A k \in 1 .. Len(queued) : d + k \in Invocations' /\ p[d + k].upd = queued[k]
  BY <1>3, <1>4, <1>6, Extended
<1>12. \A i \in Invocations' :
         \/ i \in Invocations /\ p[i] = q[i]
         \/ i > d /\ i - d \in 1 .. Len(queued) /\ p[i].upd = queued[i - d]
  BY <1>3, <1>4, <1>6, <1>9, Extended
<1>13. InvokedInOrder'
  <2> SUFFICES ASSUME NEW i \in Invocations', NEW j \in Invocations', i < j,
                      NameOf[p[i].upd] = NameOf[p[j].upd]
               PROVE  Before(p[i].upd, p[j].upd)
    BY <1>7 DEF InvokedInOrder, SameName, p
  <2>0. i \in Nat /\ j \in Nat
    BY <1>6
  <2>1. CASE i \in Invocations /\ p[i] = q[i] /\ j \in Invocations /\ p[j] = q[j]
    BY <1>2, <2>1 DEF InvokedInOrder, SameName, q
  <2>2. CASE /\ i \in Invocations /\ p[i] = q[i]
             /\ j > d /\ j - d \in 1 .. Len(queued) /\ p[j].upd = queued[j - d]
    <3>1. NameOf[q[i].upd] = n
      BY <1>8, <2>2
    <3> QED
      BY <1>2, <2>2, <3>1 DEF InvokedBeforeBuffered, q
  <2>3. CASE /\ i > d /\ i - d \in 1 .. Len(queued) /\ p[i].upd = queued[i - d]
             /\ j > d /\ j - d \in 1 .. Len(queued) /\ p[j].upd = queued[j - d]
    <3>1. i - d < j - d
      BY <1>9, <2>0
    <3> QED
      BY <1>2, <2>3, <3>1 DEF BufferedInOrder
  <2>4. ~(i > d /\ j \in Invocations)
    BY <1>9, <1>10, <2>0
  <2> QED
    BY <1>12, <2>1, <2>2, <2>3, <2>4
<1>14. InvokedBeforeBuffered'
  <2> SUFFICES ASSUME NEW i \in Invocations', NEW k \in 1 .. Len(buffered'[NameOf[p[i].upd]])
               PROVE  Before(p[i].upd, buffered'[NameOf[p[i].upd]][k])
    BY <1>7 DEF InvokedBeforeBuffered, p
  <2>1. CASE i \in Invocations /\ p[i] = q[i]
    <3>1. NameOf[q[i].upd] \in UpdateNames
      BY <1>2, <2>1, ThereAreUpdates DEF q
    <3>2. NameOf[q[i].upd] # n
      BY <1>5, <2>1
    <3> QED
      BY <1>2, <1>5, <2>1, <3>1, <3>2 DEF InvokedBeforeBuffered, q
  <2>2. CASE i - d \in 1 .. Len(queued) /\ p[i].upd = queued[i - d]
    <3>1. NameOf[p[i].upd] = n
      BY <1>8, <2>2
    <3> QED
      BY <1>5, <3>1
  <2> QED
    BY <1>12, <2>1, <2>2
<1>15. BufferedInOrder'
  <2> SUFFICES ASSUME NEW m \in UpdateNames, NEW j \in 1 .. Len(buffered'[m]),
                      NEW k \in 1 .. Len(buffered'[m]), j < k
               PROVE  Before(buffered'[m][j], buffered'[m][k])
    BY <1>7 DEF BufferedInOrder
  <2>1. m # n
    BY <1>5
  <2> QED
    BY <1>2, <1>5, <2>1 DEF BufferedInOrder
<1>16. ArrivedAreThere'
  <2>1. \A i \in Invocations' : Arrived(p[i].upd)
    BY <1>2, <1>8, <1>12 DEF ArrivedAreThere, q
  <2>2. ASSUME NEW m \in UpdateNames, NEW i \in 1 .. Len(buffered'[m])
        PROVE  NameOf[buffered'[m][i]] = m /\ Arrived(buffered'[m][i])
    <3>1. m # n
      BY <1>5, <2>2
    <3> QED
      BY <1>2, <1>5, <2>2, <3>1 DEF ArrivedAreThere
  <2>3. ASSUME NEW w \in UpdateIDs, Arrived(w)
        PROVE  Buffered(w)' \/ \E i \in Invocations' : p[i].upd = w
    <3>0. NameOf[w] \in UpdateNames
      BY NameAssumption
    <3>1. CASE Buffered(w) /\ NameOf[w] = n
      BY <1>11, <3>1 DEF Buffered
    <3>2. CASE Buffered(w) /\ NameOf[w] # n
      BY <1>5, <3>0, <3>2 DEF Buffered
    <3>3. CASE \E i \in Invocations : q[i].upd = w
      BY <1>10, <3>3
    <3> QED
      BY <1>2, <2>3, <3>1, <3>2, <3>3 DEF ArrivedAreThere, q
  <2> QED
    BY <1>7, <2>1, <2>2, <2>3 DEF ArrivedAreThere, p
<1> QED
  BY <1>2, <1>5, <1>13, <1>14, <1>15, <1>16 DEF UpdatesInOrder

(* An update that has arrived is known to the environment for good.        *)
LEMMA KnownStep ==
    ASSUME TypeOK, ArrivalInvariant, [Next]_vars
    PROVE  ArrivalInvariant'
<1>1. upd \in [UpdateIDs -> Stages] /\ arrived \in Seq(UpdateIDs)
  BY DEF TypeOK, EnvTypeOK
<1>2. ASSUME NEW u \in UpdateIDs, handleUpdate(u) PROVE ArrivalInvariant'
  <2>1. /\ arrived' = Append(arrived, u) /\ upd'[u] # "none"
        /\ \A w \in UpdateIDs : w # u => upd'[w] = upd[w]
    BY <1>1, <1>2 DEF handleUpdate
  <2>2. ASSUME NEW i \in 1 .. Len(arrived') PROVE upd'[arrived'[i]] # "none"
    <3>1. CASE i \in 1 .. Len(arrived) /\ arrived'[i] = arrived[i]
      <4>1. arrived[i] \in UpdateIDs /\ upd[arrived[i]] # "none"
        BY <1>1, <3>1 DEF ArrivalInvariant
      <4> QED
        BY <2>1, <3>1, <4>1
    <3>2. CASE arrived'[i] = u
      BY <2>1, <3>2
    <3> QED
      BY <1>1, <2>1, <2>2, <3>1, <3>2, AppendElements
  <2> QED
    BY <2>2 DEF ArrivalInvariant
<1>3. ASSUME arrived' = arrived, \A w \in UpdateIDs : upd[w] # "none" => upd'[w] # "none"
      PROVE  ArrivalInvariant'
  <2>1. \A i \in 1 .. Len(arrived) : arrived[i] \in UpdateIDs
    BY <1>1
  <2> QED
    BY <1>3, <2>1 DEF ArrivalInvariant
<1>4. CASE UNCHANGED <<arrived, upd>>
  BY <1>3, <1>4
<1>5. ASSUME NEW n \in UpdateNames, HandleQueuedUpdates(n) PROVE ArrivalInvariant'
  <2>1. arrived' = arrived /\ \A w \in UpdateIDs : upd[w] # "none" => upd'[w] # "none"
    BY <1>1, <1>5 DEF HandleQueuedUpdates
  <2> QED
    BY <1>3, <2>1
<1>6. ASSUME NEW w, NEW from, NEW to \in {"rejected", "accepted", "completed"}, Calls(w, from, to),
             arrived' = arrived
      PROVE  ArrivalInvariant'
  <2>1. \A v \in UpdateIDs : upd[v] # "none" => upd'[v] # "none"
    BY <1>1, <1>6 DEF Calls
  <2> QED
    BY <1>3, <1>6, <2>1
<1>7. ASSUME NEW id \in CmdIDs, HandleUpdateValidated(id) PROVE ArrivalInvariant'
  <2>1. arrived' = arrived /\ (UNCHANGED upd \/ Verdict(issued[id].upd, issued[id].failed))
    BY <1>7 DEF HandleUpdateValidated
  <2> QED
    BY <1>4, <1>6, <2>1 DEF Verdict
<1>8. ASSUME NEW id \in CmdIDs, HandleUpdateCompleted(id) PROVE ArrivalInvariant'
  <2>1. arrived' = arrived /\ (UNCHANGED upd \/ Calls(issued[id].upd, "accepted", "completed"))
    BY <1>8 DEF HandleUpdateCompleted
  <2> QED
    BY <1>4, <1>6, <2>1
<1>9. CASE Close
  <2>1. arrived' = arrived /\ \A w \in UpdateIDs : upd[w] # "none" => upd'[w] # "none"
    BY <1>1, <1>9 DEF Close
  <2> QED
    BY <1>3, <2>1
<1> QED
  BY <1>2, <1>4, <1>5, <1>7, <1>8, <1>9, UpdateSteps

(* Every step keeps the updates of a name in order.                        *)
LEMMA UpdateOrderStep ==
    ASSUME TypeOK, ArrivalInvariant, UpdatesInOrder, [Next]_vars
    PROVE  UpdatesInOrder'
<1> SUFFICES ASSUME pc' # "closed" PROVE UpdatesInOrder'
  BY DEF UpdatesInOrder
<1>1. pc # "closed" /\ ~Close
  BY ClosedStays DEF Close
<1>2. CASE \E n \in UpdateNames : HandleQueuedUpdates(n)
  BY <1>2, InvocationStep
<1>3. CASE ~\E n \in UpdateNames : HandleQueuedUpdates(n)
  <2>1. Invocations' = Invocations /\ \A i \in Invocations : Conversation'[i] = Conversation[i]
    BY <1>1, <1>3, InvocationsStay
  <2>2. CASE \E u \in UpdateIDs : handleUpdate(u)
    BY <2>1, <2>2, ArrivalStep
  <2>3. CASE UNCHANGED <<arrived, buffered>>
    BY <1>1, <2>1, <2>3, OrderStays
  <2>4. ASSUME NEW id \in CmdIDs, HandleUpdateValidated(id) \/ HandleUpdateCompleted(id)
        PROVE  UNCHANGED <<arrived, buffered>>
    BY <2>4 DEF HandleUpdateValidated, HandleUpdateCompleted
  <2> QED
    BY <1>1, <1>3, <2>2, <2>3, <2>4, UpdateSteps
<1> QED
  BY <1>2, <1>3

(* Updates of one name reach the worker once and in the order of their     *)
(* arrival, although HandleQueuedUpdates walks the names in any order, and *)
(* what has arrived is with the worker or still queued.                    *)
THEOREM UpdatesArriveInOrder == Spec => []UpdatesInOrder
<1>1. Init => ArrivalInvariant /\ UpdatesInOrder
  <2> SUFFICES ASSUME Init PROVE ArrivalInvariant /\ UpdatesInOrder
    OBVIOUS
  <2>1. /\ arrived = << >> /\ Conversation = << >> \o << >>
        /\ \A n \in UpdateNames : buffered[n] = << >>
    BY DEF Init, Conversation
  <2>2. Invocations = {} /\ \A u : ~Arrived(u)
    BY <2>1 DEF Invocations, Arrived
  <2> QED
    BY <2>1, <2>2 DEF ArrivalInvariant, UpdatesInOrder, InvokedInOrder, InvokedBeforeBuffered,
       BufferedInOrder, ArrivedAreThere
<1>2. TypeOK /\ ArrivalInvariant /\ [Next]_vars => ArrivalInvariant'
  BY KnownStep
<1>3. TypeOK /\ ArrivalInvariant /\ UpdatesInOrder /\ [Next]_vars => UpdatesInOrder'
  BY UpdateOrderStep
<1> QED
  BY <1>1, <1>2, <1>3, TypeCorrect, PTL DEF Spec
=============================================================================
