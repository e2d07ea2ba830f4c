----------------------- MODULE WorkflowUpdates_proofs -----------------------
(***************************************************************************)
(* The workflow process implements the update protocol, for every value of *)
(* the constants: UpdateInvariant is inductive, and under it every step is *)
(* a step of UpdateProtocol or changes nothing that UpdateProtocol sees.   *)
(***************************************************************************)
EXTENDS WorkflowProcess_proofs, SequenceTheorems

-----------------------------------------------------------------------------
(* Sequences.                                                              *)

(* The elements of a sequence after Append, whatever is appended.          *)
LEMMA AppendElements ==
    ASSUME NEW S, NEW s \in Seq(S), NEW x,
           NEW i \in 1 .. Len(Append(s, x))
    PROVE  (i \in 1 .. Len(s) /\ Append(s, x)[i] = s[i]) \/ Append(s, x)[i] = x
<1> DEFINE T == S \cup {x}
<1>1. s \in Seq(T) /\ x \in T
  BY SeqMonotonic
<1> HIDE DEF T
<1> QED
  BY <1>1

(* The elements of a concatenation, whatever the second sequence holds.    *)
LEMMA ConcatElements ==
    ASSUME NEW S, NEW s \in Seq(S), NEW U, NEW t \in Seq(U),
           NEW i \in 1 .. Len(s \o t)
    PROVE  \/ i \in 1 .. Len(s) /\ (s \o t)[i] = s[i]
           \/ i - Len(s) \in 1 .. Len(t) /\ (s \o t)[i] = t[i - Len(s)]
<1> DEFINE T == S \cup U
<1>1. s \in Seq(T) /\ t \in Seq(T)
  BY SeqMonotonic
<1> HIDE DEF T
<1> QED
  BY <1>1

-----------------------------------------------------------------------------
(* How the steps move the worker's messages.                               *)

(* Every step leaves the messages alone, takes the first one, drops them   *)
(* all in a panic, or is a step of the exchange with the worker.           *)
LEMMA QueueSteps ==
    ASSUME [Next]_vars
    PROVE  \/ UNCHANGED <<pipeline, reply, issued, validated>>
           \/ /\ pipeline # << >> /\ pipeline' = Tail(pipeline)
              /\ UNCHANGED <<reply, issued, validated>>
              /\ \/ \E id \in CmdIDs : HandleUpdateValidated(id)
                 \/ issued[Head(pipeline)].cmd # "UpdateValidated"
           \/ /\ pipeline' = << >> /\ pc' = "panicked"
              /\ UNCHANGED <<reply, issued, validated>>
           \/ Worker \/ ExecReturns \/ ExecFails
<1>1. CASE UNCHANGED vars
  BY <1>1 DEF vars, workerVars
<1>2. CASE Execute \/ Close \/ TaskStarted \/ RunCallbacks \/ FlushTask \/ EndTask
  BY <1>2 DEF Execute, Close, TaskStarted, RunCallbacks, FlushTask, EndTask, workerVars
<1>3. CASE Events
  BY <1>3 DEF Events, handleSignal, handleCancel, ReplayEnds, handleUpdate, Resolve,
       ChildStarted, ChildStartFailed, workerVars
<1>4. ASSUME NEW n \in UpdateNames, HandleQueuedUpdates(n) 
      PROVE  UNCHANGED <<pipeline, reply, issued, validated>>
  BY <1>4 DEF HandleQueuedUpdates, workerVars
<1>5. ASSUME NEW id \in CmdIDs, HandleMessage(id)
      PROVE  /\ UNCHANGED <<reply, issued, validated>>
             /\ pipeline # << >>
             /\ pipeline' = Tail(pipeline) \/ (pipeline' = << >> /\ pc' = "panicked")
             /\ HandleUpdateValidated(id) \/ issued[Head(pipeline)].cmd # "UpdateValidated"
  <2>1. CASE HandleRequest(id) \/ HandleExecuteChildWorkflow(id) \/ HandleGetChildWorkflowExecution(id)
    BY <2>1 DEF HandleRequest, HandleExecuteChildWorkflow, HandleGetChildWorkflowExecution,
         Handling, Handled, IssuedAs, Requests, Cancellable, External, workerVars
  <2>2. CASE HandleGetVersion(id) \/ HandleSideEffect(id) \/ HandleCancel(id)
    BY <2>2 DEF HandleGetVersion, HandleSideEffect, HandleCancel, Handling, Panics,
         IssuedAs, workerVars
  <2>3. CASE HandleUpdateValidated(id)
    BY <2>3 DEF HandleUpdateValidated, Handling, Handled, Panics, workerVars
  <2>4. CASE HandleUpdateCompleted(id)
    BY <2>4 DEF HandleUpdateCompleted, Handling, Handled, Panics, IssuedAs, workerVars
  <2>5. CASE HandleFinishing(id) \/ HandleUnanswered(id)
    BY <2>5 DEF HandleFinishing, HandleUnanswered, Handling, Handled, Panics, IssuedAs,
         Finishing, Upserts, Fatal, workerVars
  <2> QED
    BY <1>5, <2>1, <2>2, <2>3, <2>4, <2>5 DEF HandleMessage
<1> QED
  BY <1>1, <1>2, <1>3, <1>4, <1>5 DEF Next, Task, Closed

(* Taking the first message: it is the one that was sent first.            *)
LEMMA TakeFirst ==
    ASSUME TypeOK, HandledInOrder,
           pipeline # << >>, pipeline' = Tail(pipeline), UNCHANGED <<reply, issued>>
    PROVE  /\ HandledInOrder'
           /\ Heads' = Heads \ {Head(pipeline)}
           /\ Head(pipeline) \in Heads
           /\ \A c \in Heads : Head(pipeline) <= c
<1>1. /\ pipeline \in Seq(CmdIDs) /\ reply \in Seq(CmdIDs) /\ CmdIDs \subseteq Nat
      /\ \A i \in 1 .. Len(pipeline) : pipeline[i] \in Nat
      /\ \A i \in 1 .. Len(reply) : reply[i] \in Nat
  <2>1. pipeline \in Seq(CmdIDs) /\ reply \in Seq(CmdIDs)
    BY DEF TypeOK, HostTypeOK, WorkerTypeOK
  <2>2. CmdIDs \subseteq Nat
    BY DEF CmdIDs
  <2>3. /\ \A i \in 1 .. Len(pipeline) : pipeline[i] \in CmdIDs
        /\ \A i \in 1 .. Len(reply) : reply[i] \in CmdIDs
    BY <2>1
  <2> QED
    BY <2>1, <2>2, <2>3
<1>2. /\ Len(pipeline) \in Nat /\ Len(pipeline) >= 1 /\ Head(pipeline) = pipeline[1]
      /\ Len(pipeline') = Len(pipeline) - 1
      /\ \A i \in 1 .. Len(pipeline') : i + 1 \in 1 .. Len(pipeline) /\ pipeline'[i] = pipeline[i + 1]
  BY <1>1
<1>3. \A c \in Heads : c = pipeline[1] \/ pipeline[1] < c
  <2>1. \A i \in 1 .. Len(pipeline) : i = 1 \/ pipeline[1] < pipeline[i]
    BY <1>2 DEF HandledInOrder
  <2>2. \A i \in 1 .. Len(reply) : pipeline[1] < reply[i]
    BY <1>2 DEF HandledInOrder
  <2> QED
    BY <2>1, <2>2 DEF Heads
<1>7. pipeline[1] \in Nat /\ \A c \in Heads : c \in Nat
  BY <1>1, <1>2 DEF Heads
<1>4. Heads' = Heads \ {pipeline[1]}
  <2>1. ASSUME NEW c \in Heads' PROVE c \in Heads /\ c # pipeline[1]
    <3>1. CASE \E i \in 1 .. Len(pipeline') : c = pipeline'[i]
      <4>1. PICK i \in 1 .. Len(pipeline') : c = pipeline'[i]
        BY <3>1
      <4>2. /\ i + 1 \in 1 .. Len(pipeline) /\ c = pipeline[i + 1]
            /\ i \in 1 .. Len(pipeline) - 1
        BY <1>2, <4>1
      <4>3. c \in Heads
        BY <4>2 DEF Heads
      <4>4. pipeline[1] < pipeline[i + 1]
        BY <1>2, <4>2 DEF HandledInOrder
      <4> QED  BY <1>7, <4>2, <4>3, <4>4
    <3>2. CASE \E i \in 1 .. Len(reply') : c = reply'[i]
      <4>1. PICK i \in 1 .. Len(reply) : c = reply[i]
        BY <1>1, <3>2
      <4>2. c \in Heads
        BY <4>1 DEF Heads
      <4>3. pipeline[1] < reply[i]
        BY <1>2, <4>1 DEF HandledInOrder
      <4> QED  BY <1>7, <4>1, <4>2, <4>3
    <3> QED  BY <2>1, <3>1, <3>2 DEF Heads
  <2>2. ASSUME NEW c \in Heads, c # pipeline[1] PROVE c \in Heads'
    <3>1. CASE \E i \in 1 .. Len(pipeline) : c = pipeline[i]
      <4>1. PICK i \in 1 .. Len(pipeline) : c = pipeline[i]
        BY <3>1
      <4>2. i - 1 \in 1 .. Len(pipeline') /\ pipeline'[i - 1] = c
        BY <1>2, <2>2, <4>1
      <4> QED
        BY <4>2 DEF Heads
    <3>2. CASE \E i \in 1 .. Len(reply) : c = reply[i]
      BY <3>2 DEF Heads
    <3> QED
      BY <2>2, <3>1, <3>2 DEF Heads
  <2> QED
    BY <2>1, <2>2
<1>5. HandledInOrder'
  <2>1. \A i, j \in 1 .. Len(pipeline') : i < j => pipeline'[i] < pipeline'[j]
    BY <1>2 DEF HandledInOrder
  <2>2. \A i \in 1 .. Len(pipeline'), j \in 1 .. Len(reply) : pipeline'[i] < reply[j]
    BY <1>2 DEF HandledInOrder
  <2> QED
    BY <1>4, <2>1, <2>2 DEF HandledInOrder
<1>6. pipeline[1] \in Heads
  BY <1>2 DEF Heads
<1> QED
  BY <1>2, <1>3, <1>4, <1>5, <1>6, <1>7

(* The worker sends one more message: it joins at the end.                 *)
LEMMA SendLast ==
    ASSUME TypeOK, HandledInOrder, NEW m \in WorkerMessage, WorkerSends(m)
    PROVE  /\ HandledInOrder'
           /\ Len(issued) + 1 \notin Heads
           /\ Heads' = Heads \cup {Len(issued) + 1}
           /\ Len(issued') = Len(issued) + 1 /\ issued'[Len(issued) + 1] = m
           /\ \A c \in 1 .. Len(issued) : issued'[c] = issued[c]
           /\ Heads \subseteq 1 .. Len(issued)
<1> DEFINE new == Len(issued) + 1
<1>1. /\ issued \in Seq(WorkerMessage) /\ reply \in Seq(CmdIDs) /\ pipeline \in Seq(CmdIDs)
  BY DEF TypeOK, HostTypeOK, WorkerTypeOK
<1>2. /\ \A i \in 1 .. Len(pipeline) : pipeline[i] \in CmdIDs
      /\ \A i \in 1 .. Len(reply) : reply[i] \in CmdIDs
  BY <1>1
<1>3. \A c \in Heads : c \in Nat /\ 1 <= c /\ c <= Len(issued)
  BY <1>2 DEF HandledInOrder, Heads, CmdIDs
<1>4. Len(issued) \in Nat /\ Heads \subseteq 1 .. Len(issued) /\ new \notin Heads
  BY <1>1, <1>3
<1>5. /\ Len(issued') = new /\ issued'[new] = m
      /\ \A c \in 1 .. Len(issued) : issued'[c] = issued[c]
  BY <1>1 DEF WorkerSends
<1>6. reply' = Append(reply, new) /\ pipeline' = pipeline
  BY <1>5 DEF WorkerSends
<1>7. /\ Len(reply') = Len(reply) + 1 /\ Len(reply) \in Nat /\ reply'[Len(reply) + 1] = new
      /\ \A i \in 1 .. Len(reply) : reply'[i] = reply[i]
  BY <1>1, <1>6
<1>8. Heads' = Heads \cup {new}
  <2>1. ASSUME NEW c \in Heads' PROVE c \in Heads \cup {new}
    BY <1>6, <1>7, <2>1 DEF Heads
  <2>2. Heads \subseteq Heads' /\ new \in Heads'
    BY <1>6, <1>7 DEF Heads
  <2> QED
    BY <2>1, <2>2
<1>9. HandledInOrder'
  <2>0. \A c \in Heads : c < new
    BY <1>3, <1>4
  <2>1. \A i \in 1 .. Len(reply) : reply[i] < new
    <3>1. \A i \in 1 .. Len(reply) : reply[i] \in Heads
      BY DEF Heads
    <3> QED
      BY <2>0, <3>1
  <2>2. \A i \in 1 .. Len(pipeline) : pipeline[i] < new
    <3>1. \A i \in 1 .. Len(pipeline) : pipeline[i] \in Heads
      BY DEF Heads
    <3> QED
      BY <2>0, <3>1
  <2>3. \A i, j \in 1 .. Len(reply') : i < j => reply'[i] < reply'[j]
    BY <1>7, <2>1 DEF HandledInOrder
  <2>4. \A i \in 1 .. Len(pipeline'), j \in 1 .. Len(reply') : pipeline'[i] < reply'[j]
    BY <1>6, <1>7, <2>2 DEF HandledInOrder
  <2>5. \A c \in Heads' : c <= Len(issued')
    BY <1>3, <1>4, <1>5, <1>8
  <2> QED
    BY <1>6, <2>3, <2>4, <2>5 DEF HandledInOrder
<1> QED
  BY <1>4, <1>5, <1>8, <1>9

(* The reply joins the pipeline: the same messages in the same order.      *)
LEMMA ReplyJoins ==
    ASSUME TypeOK, HandledInOrder, ExecReturns
    PROVE  HandledInOrder' /\ Heads' = Heads
<1>1. pipeline \in Seq(CmdIDs) /\ reply \in Seq(CmdIDs)
  BY DEF TypeOK, HostTypeOK, WorkerTypeOK
<1>2. pipeline' = pipeline \o reply /\ reply' = << >> /\ issued' = issued
  BY DEF ExecReturns
<1> DEFINE p == Len(pipeline)
           r == Len(reply)
<1>3. /\ p \in Nat /\ r \in Nat /\ Len(pipeline') = p + r
      /\ \A i \in 1 .. p : pipeline'[i] = pipeline[i]
      /\ \A i \in 1 .. r : pipeline'[p + i] = reply[i]
      /\ \A i \in 1 .. p + r : i \in 1 .. p \/ (i - p \in 1 .. r /\ pipeline'[i] = reply[i - p])
  BY <1>1, <1>2
<1>4. Heads' = Heads
  <2>1. ASSUME NEW c \in Heads' PROVE c \in Heads
    <3>1. PICK i \in 1 .. p + r : c = pipeline'[i]
      BY <1>2, <1>3, <2>1 DEF Heads
    <3> QED
      BY <1>3, <3>1 DEF Heads
  <2>2. ASSUME NEW c \in Heads PROVE c \in Heads'
    <3>1. CASE \E i \in 1 .. p : c = pipeline[i]
      BY <1>3, <3>1 DEF Heads
    <3>2. CASE \E i \in 1 .. r : c = reply[i]
      <4>1. PICK i \in 1 .. r : c = reply[i]
        BY <3>2
      <4>2. p + i \in 1 .. Len(pipeline') /\ pipeline'[p + i] = c
        BY <1>3, <4>1
      <4> QED
        BY <4>2 DEF Heads
    <3> QED
      BY <2>2, <3>1, <3>2 DEF Heads
  <2> QED
    BY <2>1, <2>2
<1>5. ASSUME NEW i \in 1 .. p + r, NEW j \in 1 .. p + r, i < j
      PROVE  pipeline'[i] < pipeline'[j]
  <2>1. CASE j \in 1 .. p
    BY <1>3, <1>5, <2>1 DEF HandledInOrder
  <2>2. CASE i \in 1 .. p /\ j \notin 1 .. p
    BY <1>3, <1>5, <2>2 DEF HandledInOrder
  <2>3. CASE i \notin 1 .. p /\ j \notin 1 .. p
    <3>1. /\ i - p \in 1 .. r /\ j - p \in 1 .. r /\ i - p < j - p
          /\ pipeline'[i] = reply[i - p] /\ pipeline'[j] = reply[j - p]
      BY <1>3, <1>5, <2>3
    <3>2. reply[i - p] < reply[j - p]
      BY <3>1 DEF HandledInOrder
    <3> QED
      BY <3>1, <3>2
  <2> QED
    BY <1>3, <1>5, <2>1, <2>2, <2>3
<1> QED
  BY <1>2, <1>3, <1>4, <1>5 DEF HandledInOrder

(* A failed exchange, or a panic, drops messages.                          *)
LEMMA DropMessages ==
    ASSUME TypeOK, HandledInOrder, issued' = issued,
           pipeline' = pipeline \/ pipeline' = << >>, reply' = reply \/ reply' = << >>
    PROVE  HandledInOrder'
<1>1. Heads' \subseteq Heads
  BY DEF Heads
<1> QED
  BY <1>1 DEF HandledInOrder

(* No step, of the host or of the worker, reorders the worker's messages.  *)
LEMMA OrderStep ==
    ASSUME TypeOK, HandledInOrder, [Next]_vars
    PROVE  HandledInOrder'
<1>1. CASE UNCHANGED <<pipeline, reply, issued>>
  BY <1>1, DropMessages
<1>2. CASE pipeline # << >> /\ pipeline' = Tail(pipeline) /\ UNCHANGED <<reply, issued>>
  BY <1>2, TakeFirst
<1>3. CASE pipeline' = << >> /\ UNCHANGED <<reply, issued>>
  BY <1>3, DropMessages
<1>4. CASE Worker
  BY <1>4, WorkerSendsMessage, SendLast
<1>5. CASE ExecReturns
  BY <1>5, ReplyJoins
<1>6. CASE ExecFails
  BY <1>6, DropMessages DEF ExecFails
<1> QED
  BY <1>1, <1>2, <1>3, <1>4, <1>5, <1>6, QueueSteps

-----------------------------------------------------------------------------
(* How the steps move the updates.                                         *)

(* Five handlers touch the updates and their callbacks, no other step.     *)
LEMMA UpdateSteps ==
    ASSUME [Next]_vars
    PROVE  \/ UNCHANGED <<updatesQueue, arrived, buffered, upd, validateCb, completeCb>>
           \/ \E u \in UpdateIDs : handleUpdate(u)
           \/ \E n \in UpdateNames : HandleQueuedUpdates(n)
           \/ \E id \in CmdIDs : HandleUpdateValidated(id) \/ HandleUpdateCompleted(id)
           \/ Close
<1>1. CASE UNCHANGED vars
  BY <1>1 DEF vars, updateVars
<1>2. CASE Execute \/ TaskStarted \/ RunCallbacks \/ FlushTask \/ EndTask
  BY <1>2 DEF Execute, TaskStarted, RunCallbacks, FlushTask, EndTask, updateVars
<1>3. CASE handleSignal \/ handleCancel \/ ReplayEnds
  BY <1>3 DEF handleSignal, handleCancel, ReplayEnds, updateVars
<1>4. ASSUME NEW c \in CmdIDs, (\E ok \in BOOLEAN : Resolve(c, ok)) \/ ChildStarted(c) \/ ChildStartFailed(c)
      PROVE  UNCHANGED <<updatesQueue, arrived, buffered, upd, validateCb, completeCb>>
  BY <1>4 DEF Resolve, ChildStarted, ChildStartFailed, updateVars
<1>5. ASSUME NEW m, WorkerSends(m)
      PROVE  UNCHANGED <<updatesQueue, arrived, buffered, upd, validateCb, completeCb>>
  BY <1>5 DEF WorkerSends, updateVars
<1>6. CASE Worker
  BY <1>5, <1>6, Zenon DEF Worker
<1>7. CASE ExecReturns \/ ExecFails
  BY <1>7 DEF ExecReturns, ExecFails, updateVars
<1>8. ASSUME NEW id \in CmdIDs, HandleMessage(id),
             ~HandleUpdateValidated(id), ~HandleUpdateCompleted(id)
      PROVE  UNCHANGED <<updatesQueue, arrived, buffered, upd, validateCb, completeCb>>
  BY <1>8 DEF HandleMessage, HandleRequest, HandleExecuteChildWorkflow,
       HandleGetChildWorkflowExecution, HandleGetVersion, HandleSideEffect, HandleCancel,
       HandleFinishing, HandleUnanswered, updateVars
<1> QED
  BY <1>1, <1>2, <1>3, <1>4, <1>6, <1>7, <1>8 DEF Next, Task, Events, Closed

(* An update the worker may know of stays one.                             *)
LEMMA InvokedStays ==
    ASSUME TypeOK, [Next]_vars, NEW u \in UpdateIDs, Invoked(u)
    PROVE  Invoked(u)'
<1>1. upd \in [UpdateIDs -> Stages]
  BY DEF TypeOK, EnvTypeOK
<1>2. CASE UNCHANGED upd
  BY <1>2 DEF Invoked
<1>3. ASSUME NEW w \in UpdateIDs, handleUpdate(w) PROVE Invoked(u)'
  BY <1>1, <1>3 DEF Invoked, handleUpdate
<1>4. ASSUME NEW n \in UpdateNames, HandleQueuedUpdates(n) PROVE Invoked(u)'
  BY <1>1, <1>4 DEF Invoked, HandleQueuedUpdates
<1>5. ASSUME NEW w, NEW from, NEW to \in {"rejected", "accepted", "completed"}, Calls(w, from, to)
      PROVE  Invoked(u)'
  BY <1>1, <1>5 DEF Invoked, Calls
<1>6. ASSUME NEW id \in CmdIDs, HandleUpdateValidated(id) PROVE Invoked(u)'
  <2>1. UNCHANGED upd \/ Verdict(issued[id].upd, issued[id].failed)
    BY <1>6 DEF HandleUpdateValidated
  <2> QED
    BY <1>2, <1>5, <2>1 DEF Verdict
<1>7. ASSUME NEW id \in CmdIDs, HandleUpdateCompleted(id) PROVE Invoked(u)'
  <2>1. UNCHANGED upd \/ Calls(issued[id].upd, "accepted", "completed")
    BY <1>7 DEF HandleUpdateCompleted
  <2> QED
    BY <1>2, <1>5, <2>1
<1>8. CASE Close
  BY <1>1, <1>8 DEF Invoked, Close
<1> QED
  BY <1>2, <1>3, <1>4, <1>6, <1>7, <1>8, UpdateSteps

(* A completion that reaches the host finds no verdict outstanding.        *)
LEMMA CompletionAfterVerdict ==
    ASSUME TypeOK, HandledInOrder, VerdictFirst,
           NEW id \in CmdIDs, Handling(id, {"UpdateCompleted"})
    PROVE  issued[id].upd \notin validateCb
<1>1. pc = "pipeline" /\ pipeline # << >> /\ id = Head(pipeline) /\ issued[id].cmd = "UpdateCompleted"
  BY DEF Handling, IssuedAs
<1>2. pipeline \in Seq(CmdIDs) /\ reply \in Seq(CmdIDs)
  BY DEF TypeOK, HostTypeOK, WorkerTypeOK
<1>3. id = pipeline[1] /\ 1 \in 1 .. Len(pipeline) /\ id \in Nat
  BY <1>1, <1>2 DEF CmdIDs
<1>4. id \in Heads
  BY <1>3 DEF Heads
<1>5. ASSUME NEW v \in Heads, v < id PROVE FALSE
  <2>1. CASE \E i \in 1 .. Len(pipeline) : v = pipeline[i]
    <3>1. PICK i \in 1 .. Len(pipeline) : v = pipeline[i]
      BY <2>1
    <3>2. i = 1 \/ id < v
      BY <1>3, <3>1 DEF HandledInOrder
    <3>3. v \in CmdIDs
      BY <1>2, <3>1
    <3>4. v \in Nat
      BY <3>3 DEF CmdIDs
    <3> QED
      BY <1>3, <1>5, <3>1, <3>2, <3>4
  <2>2. CASE \E i \in 1 .. Len(reply) : v = reply[i]
    <3>1. id < v
      BY <1>3, <2>2 DEF HandledInOrder
    <3>2. v \in CmdIDs
      BY <1>2, <2>2
    <3>3. v \in Nat
      BY <3>2 DEF CmdIDs
    <3> QED
      BY <1>3, <1>5, <3>1, <3>3
  <2> QED
    BY <2>1, <2>2 DEF Heads
<1> QED
  BY <1>1, <1>4, <1>5 DEF VerdictFirst, About

(* Every step keeps the callbacks of an update at the stages that allow    *)
(* them: here a completion must find the verdict already given.            *)
LEMMA StageStep ==
    ASSUME TypeOK, UpdateInvariant, [Next]_vars
    PROVE  CallbacksAtStage'
<1>1. /\ upd \in [UpdateIDs -> Stages] /\ buffered \in [UpdateNames -> Seq(UpdateIDs)]
      /\ validateCb \subseteq UpdateIDs /\ completeCb \subseteq UpdateIDs
  BY DEF TypeOK, EnvTypeOK, HostTypeOK
<1>2. CallbacksAtStage
  BY DEF UpdateInvariant
<1>3. CASE UNCHANGED <<updatesQueue, arrived, buffered, upd, validateCb, completeCb>>
  BY <1>2, <1>3 DEF CallbacksAtStage
<1>4. ASSUME NEW u \in UpdateIDs, handleUpdate(u) PROVE CallbacksAtStage'
  <2>1. NameOf[u] \in UpdateNames
    BY NameAssumption
  <2>2. /\ upd[u] = "none" /\ upd'[u] = "buffered"
        /\ \A w \in UpdateIDs : w # u => upd'[w] = upd[w]
        /\ validateCb' = validateCb /\ completeCb' = completeCb
    BY <1>1, <1>4 DEF handleUpdate
  <2>3. /\ \A n \in UpdateNames : n # NameOf[u] => buffered'[n] = buffered[n]
        /\ buffered'[NameOf[u]] = Append(buffered[NameOf[u]], u)
    BY <1>1, <1>4, <2>1 DEF handleUpdate
  <2>4. ASSUME NEW n \in UpdateNames, NEW i \in 1 .. Len(buffered'[n])
        PROVE  upd'[buffered'[n][i]] = "buffered" /\ NameOf[buffered'[n][i]] = n
    <3>1. buffered[n] \in Seq(UpdateIDs)
      BY <1>1
    <3>2. \/ buffered'[n][i] = u /\ n = NameOf[u]
          \/ i \in 1 .. Len(buffered[n]) /\ buffered'[n][i] = buffered[n][i]
      BY <2>3, <2>4, <3>1
    <3> QED
      BY <1>2, <2>2, <3>1, <3>2 DEF CallbacksAtStage
  <2> QED
    BY <1>1, <1>2, <2>2, <2>4 DEF CallbacksAtStage
<1>5. ASSUME NEW n \in UpdateNames, HandleQueuedUpdates(n) PROVE CallbacksAtStage'
  <2> DEFINE us == {buffered[n][i] : i \in 1 .. Len(buffered[n])}
  <2>1. /\ upd' = [u \in UpdateIDs |-> IF u \in us THEN "scheduled" ELSE upd[u]]
        /\ validateCb' = validateCb \cup us /\ completeCb' = completeCb \cup us
    BY <1>5 DEF HandleQueuedUpdates
  <2>2. /\ buffered'[n] = << >>
        /\ \A k \in UpdateNames : k # n => buffered'[k] = buffered[k]
    BY <1>1, <1>5 DEF HandleQueuedUpdates
  <2>3. us \subseteq UpdateIDs /\ \A u \in us : upd[u] = "buffered" /\ NameOf[u] = n
    BY <1>1, <1>2 DEF CallbacksAtStage
  <2>4. ASSUME NEW k \in UpdateNames, NEW i \in 1 .. Len(buffered'[k])
        PROVE  upd'[buffered'[k][i]] = "buffered" /\ NameOf[buffered'[k][i]] = k
    <3>1. k # n
      BY <2>2
    <3>2. buffered'[k][i] = buffered[k][i] /\ i \in 1 .. Len(buffered[k]) /\ buffered[k] \in Seq(UpdateIDs)
      BY <1>1, <2>2, <3>1
    <3>3. buffered[k][i] \in UpdateIDs /\ NameOf[buffered[k][i]] = k /\ upd[buffered[k][i]] = "buffered"
      BY <1>2, <3>2 DEF CallbacksAtStage
    <3> QED
      BY <2>1, <2>3, <3>1, <3>2, <3>3
  <2>5. \A u \in validateCb' : upd'[u] = "scheduled"
    BY <1>1, <1>2, <2>1, <2>3 DEF CallbacksAtStage
  <2>6. \A u \in completeCb' : u \in validateCb' \/ upd'[u] = "accepted"
    BY <1>1, <1>2, <2>1, <2>3 DEF CallbacksAtStage
  <2> QED
    BY <2>4, <2>5, <2>6 DEF CallbacksAtStage
<1>6. ASSUME NEW id \in CmdIDs, HandleUpdateValidated(id) PROVE CallbacksAtStage'
  <2> DEFINE u == issued[id].upd
  <2>1. CASE u \notin validateCb \/ UNCHANGED <<upd, validateCb, completeCb>>
    BY <1>3, <1>6, <2>1 DEF HandleUpdateValidated
  <2>2. CASE u \in validateCb /\ Verdict(u, issued[id].failed)
    <3>1. upd[u] = "scheduled" /\ u \in UpdateIDs
      BY <1>1, <1>2, <2>2 DEF CallbacksAtStage
    <3>2. upd' = [upd EXCEPT ![u] = IF ~replaying /\ issued[id].failed
                                      THEN "rejected" ELSE "accepted"]
      BY <1>1, <2>2, <3>1 DEF Verdict, Calls
    <3>3. /\ validateCb' = validateCb \ {u}
          /\ completeCb' \subseteq completeCb
          /\ issued[id].failed => u \notin completeCb'
          /\ buffered' = buffered
      <4>1. u # NoUpdate
        BY <3>1, NoUpdateAssumption
      <4>2. /\ validateCb' = ValidateLeft(validateCb, u)
            /\ completeCb' = CompleteLeft(completeCb, u, issued[id].failed)
            /\ buffered' = buffered
        BY <1>6, <2>2, <4>1, Zenon DEF HandleUpdateValidated
      <4> QED
        BY <4>2 DEF ValidateLeft, CompleteLeft
    <3>4. /\ \A w \in UpdateIDs : w # u => upd'[w] = upd[w]
          /\ u \in completeCb' => upd'[u] = "accepted"
      <4>1. CASE issued[id].failed
        BY <1>1, <3>1, <3>2, <3>3, <4>1
      <4>2. CASE ~issued[id].failed
        BY <1>1, <3>1, <3>2, <4>2
      <4> QED
        BY <4>1, <4>2
    <3>5. \A n \in UpdateNames : \A i \in 1 .. Len(buffered[n]) :
            buffered[n][i] \in UpdateIDs /\ buffered[n][i] # u
      BY <1>1, <1>2, <3>1 DEF CallbacksAtStage
    <3> QED
      BY <1>1, <1>2, <3>3, <3>4, <3>5 DEF CallbacksAtStage
  <2> QED
    BY <1>6, <2>1, <2>2 DEF HandleUpdateValidated
<1>7. ASSUME NEW id \in CmdIDs, HandleUpdateCompleted(id) PROVE CallbacksAtStage'
  <2> DEFINE u == issued[id].upd
  <2>1. CASE UNCHANGED <<upd, completeCb>>
    BY <1>3, <1>7, <2>1 DEF HandleUpdateCompleted
  <2>2. CASE u \in completeCb /\ Calls(u, "accepted", "completed") /\ completeCb' = completeCb \ {u}
    <3>1. u \notin validateCb
      BY <1>7, CompletionAfterVerdict DEF HandleUpdateCompleted, UpdateInvariant
    <3>2. upd[u] = "accepted" /\ u \in UpdateIDs
      BY <1>1, <1>2, <2>2, <3>1 DEF CallbacksAtStage
    <3>3. \A w \in UpdateIDs : w # u => upd'[w] = upd[w]
      BY <1>1, <2>2 DEF Calls
    <3>4. buffered' = buffered /\ validateCb' = validateCb
      BY <1>7 DEF HandleUpdateCompleted
    <3>5. \A n \in UpdateNames : \A i \in 1 .. Len(buffered[n]) :
            buffered[n][i] \in UpdateIDs /\ buffered[n][i] # u
      BY <1>1, <1>2, <3>2 DEF CallbacksAtStage
    <3> QED
      BY <1>1, <1>2, <2>2, <3>1, <3>3, <3>4, <3>5 DEF CallbacksAtStage
  <2> QED
    BY <1>7, <2>1, <2>2 DEF HandleUpdateCompleted
<1>8. CASE Close
  <2>1. /\ \A n \in UpdateNames : buffered'[n] = << >>
        /\ completeCb' = {}
    BY <1>8 DEF Close
  <2>2. \A u \in validateCb' : upd'[u] = "scheduled"
    BY <1>1, <1>2, <1>8 DEF Close, CallbacksAtStage
  <2> QED
    BY <2>1, <2>2 DEF CallbacksAtStage
<1> QED
  BY <1>3, <1>4, <1>5, <1>6, <1>7, <1>8, UpdateSteps

-----------------------------------------------------------------------------
(* What the worker knows.                                                  *)

(* An answer is about no update.                                           *)
LEMMA SilentAnswers ==
    \A n \in Nat, ok \in BOOLEAN : Answer(n, ok, NoUpdate) \in {m \in Message : m.upd = NoUpdate}
<1> SUFFICES ASSUME NEW n \in Nat, NEW ok \in BOOLEAN
             PROVE  Answer(n, ok, NoUpdate) \in {m \in Message : m.upd = NoUpdate}
  OBVIOUS
<1>1. Answer(n, ok, NoUpdate) \in Message
  BY MessageTypes
<1>2. Answer(n, ok, NoUpdate).upd = NoUpdate
  BY DEF Answer, HostMessage
<1> QED
  BY <1>1, <1>2

(* Queueing answers says nothing about updates.                            *)
LEMMA ConcatSilent ==
    ASSUME NEW q \in Seq(Message), NEW t \in Seq({m \in Message : m.upd = NoUpdate}),
           NEW i \in 1 .. Len(q \o t)
    PROVE  (q \o t)[i].upd = NoUpdate \/ (i \in 1 .. Len(q) /\ (q \o t)[i] = q[i])
<1>1. \A j \in 1 .. Len(t) : t[j].upd = NoUpdate
  OBVIOUS
<1> QED
  BY <1>1, ConcatElements

(* Of the steps only HandleQueuedUpdates queues messages about updates.    *)
LEMMA MessageSteps ==
    ASSUME TypeOK, [Next]_vars
    PROVE  \/ \E n \in UpdateNames : HandleQueuedUpdates(n)
           \/ \A i \in 1 .. Len(mq') :
                mq'[i].upd = NoUpdate \/ (i \in 1 .. Len(mq) /\ mq'[i] = mq[i])
<1> DEFINE Silent == \A i \in 1 .. Len(mq') :
                mq'[i].upd = NoUpdate \/ (i \in 1 .. Len(mq) /\ mq'[i] = mq[i])
<1>1. mq \in Seq(Message)
  BY DEF TypeOK, HostTypeOK
<1>2. ASSUME mq' = mq \/ mq' = << >> PROVE Silent
  BY <1>2
<1>3. ASSUME NEW t, NEW k, mq' = Append(mq, HostMessage(t, k, NoUpdate)) PROVE Silent
  <2>1. HostMessage(t, k, NoUpdate).upd = NoUpdate
    BY DEF HostMessage
  <2> QED
    BY <1>1, <1>3, <2>1, AppendElements
<1>4. CASE UNCHANGED vars
  BY <1>2, <1>4 DEF vars
<1>5. CASE Execute \/ handleSignal \/ handleCancel
  BY <1>3, <1>5 DEF Execute, handleSignal, handleCancel, PushCommand
<1>6. CASE Close \/ TaskStarted \/ FlushTask \/ EndTask \/ ExecReturns \/ ExecFails \/ ReplayEnds
  BY <1>2, <1>6 DEF Close, Flush, TaskStarted, FlushTask, EndTask, ExecReturns, ExecFails, ReplayEnds
<1>7. CASE Events
  BY <1>2, <1>5, <1>6, <1>7 DEF Events, handleUpdate, Resolve, ChildStarted, ChildStartFailed
<1>8. CASE Worker
  <2>1. ASSUME NEW m, WorkerSends(m) PROVE mq' = mq
    BY <2>1 DEF WorkerSends
  <2> QED
    BY <1>2, <1>8, <2>1, Zenon DEF Worker
<1>9. CASE RunCallbacks
  <2> DEFINE told == [i \in 1 .. Len(callbacks) |->
                        Answer(callbacks[i].id, callbacks[i].ok, NoUpdate)]
  <2>1. Len(callbacks) \in Nat /\ mq' = mq \o told
    BY <1>9 DEF RunCallbacks, TypeOK, HostTypeOK
  <2>2. \A i \in 1 .. Len(callbacks) : told[i] \in {m \in Message : m.upd = NoUpdate}
    <3>1. ASSUME NEW r \in Result
          PROVE  Answer(r.id, r.ok, NoUpdate) \in {m \in Message : m.upd = NoUpdate}
      <4>1. r.id \in Nat /\ r.ok \in BOOLEAN
        BY DEF Result, CmdIDs
      <4> QED
        BY <4>1, SilentAnswers
    <3>2. \A i \in 1 .. Len(callbacks) : callbacks[i] \in Result
      BY DEF TypeOK, HostTypeOK
    <3> QED
      BY <3>1, <3>2
  <2>3. told \in Seq({m \in Message : m.upd = NoUpdate})
    BY <2>1, <2>2, FunctionIsSeq
  <2> HIDE DEF told
  <2> QED
    BY <1>1, <2>1, <2>3, ConcatSilent
<1>10. ASSUME NEW id \in CmdIDs, HandleMessage(id) PROVE Silent
  <2>1. CASE HandleRequest(id)
    <3>1. mq' = mq \/ \E ok \in BOOLEAN : mq' = Append(mq, Answer(id, ok, NoUpdate))
      BY <2>1, Zenon DEF HandleRequest, Takes
    <3> QED
      BY <1>2, <1>3, <3>1, Zenon DEF Answer
  <2>2. CASE HandleExecuteChildWorkflow(id)
    BY <1>2, <1>3, <2>2, Zenon DEF HandleExecuteChildWorkflow, PushError, Answer
  <2>3. CASE HandleGetChildWorkflowExecution(id)
    BY <1>2, <1>3, <2>3, Zenon DEF HandleGetChildWorkflowExecution, Answer
  <2>4. CASE HandleGetVersion(id)
    BY <1>2, <1>3, <2>4, Zenon DEF HandleGetVersion, PushResponse, Answer
  <2>5. CASE HandleSideEffect(id)
    BY <1>2, <1>3, <2>5, Zenon DEF HandleSideEffect, PushResponse, PushError, Answer
  <2>6. CASE HandleCancel(id)
    <3> DEFINE S == Cancelled(canceller, issued[id].cmds) \cap (pending \ unstarted)
    <3>1. PICK now \in Orders(S) :
            mq' = PushResponse(mq \o [i \in DOMAIN now |-> Answer(now[i], FALSE, NoUpdate)],
                               id, NoUpdate)
      BY <2>6 DEF HandleCancel
    <3> DEFINE told == [i \in DOMAIN now |-> Answer(now[i], FALSE, NoUpdate)]
    <3>2. S \in SUBSET CmdIDs
      BY DEF Cancelled, TypeOK, HostTypeOK
    <3>3. now \in Seq(S)
      BY <3>2, OrdersAreSequences, Zenon
    <3>4. DOMAIN now = 1 .. Len(now) /\ Len(now) \in Nat
      BY <3>3
    <3>5. \A i \in 1 .. Len(now) : told[i] \in {m \in Message : m.upd = NoUpdate}
      <4>1. FALSE \in BOOLEAN
        OBVIOUS
      <4>2. \A i \in 1 .. Len(now) : now[i] \in Nat
        BY <3>2, <3>3 DEF CmdIDs
      <4>3. \A i \in 1 .. Len(now) :
              Answer(now[i], FALSE, NoUpdate) \in {m \in Message : m.upd = NoUpdate}
        BY <4>1, <4>2, SilentAnswers, Zenon
      <4> QED
        BY <3>4, <4>3
    <3>6. told \in Seq({m \in Message : m.upd = NoUpdate})
      BY <3>4, <3>5, FunctionIsSeq
    <3>7. mq' = Append(mq \o told, Answer(id, TRUE, NoUpdate))
      BY <3>1 DEF PushResponse
    <3>8. Answer(id, TRUE, NoUpdate).upd = NoUpdate
      BY DEF Answer, HostMessage
    <3> DEFINE last == Answer(id, TRUE, NoUpdate)
    <3>12. last.upd = NoUpdate /\ mq' = Append(mq \o told, last)
      BY <3>7, <3>8
    <3> HIDE DEF told, last
    <3>9. mq \o told \in Seq(Message)
      <4>1. told \in Seq(Message)
        BY <3>6, SeqMonotonic
      <4> QED
        BY <1>1, <4>1, ConcatType
    <3>10. \A i \in 1 .. Len(mq \o told) :
             (mq \o told)[i].upd = NoUpdate \/ (i \in 1 .. Len(mq) /\ (mq \o told)[i] = mq[i])
      BY <1>1, <3>6, ConcatSilent
    <3>11. \A i \in 1 .. Len(mq') : \/ i \in 1 .. Len(mq \o told) /\ mq'[i] = (mq \o told)[i]
                                   \/ mq'[i] = last
      BY <3>9, <3>12, AppendElements
    <3> QED
      BY <3>10, <3>11, <3>12
  <2>7. CASE HandleUpdateValidated(id) \/ HandleUpdateCompleted(id) \/ HandleUnanswered(id)
    BY <1>2, <2>7 DEF HandleUpdateValidated, HandleUpdateCompleted, HandleUnanswered
  <2>8. CASE HandleFinishing(id)
    BY <1>2, <1>3, <2>8, Zenon DEF HandleFinishing, PushResponse, Answer
  <2> QED
    BY <1>10, <2>1, <2>2, <2>3, <2>4, <2>5, <2>6, <2>7, <2>8 DEF HandleMessage
<1> QED
  BY <1>4, <1>5, <1>6, <1>7, <1>8, <1>9, <1>10 DEF Next, Task, Closed

(* The worker sends only what it knows.                                    *)
LEMMA WorkerSendsKnown ==
    ASSUME TypeOK, KnowsInvoked, Worker
    PROVE  \E m \in WorkerMessage :
             /\ WorkerSends(m)
             /\ m.cmd = "UpdateValidated" /\ m.upd # NoUpdate => Invoked(m.upd)
             /\ m.cmd = "UpdateCompleted" /\ m.upd # NoUpdate => m.upd \in validated
<1>1. PICK m \in WorkerMessage : WorkerSends(m) /\ Known(m)
  BY WorkerSendsMessage
<1>2. \A u \in InvokedUpdates : Invoked(u)
  BY DEF InvokedUpdates, KnowsInvoked, Told
<1> QED
  BY <1>1, <1>2 DEF Known

(* Only an exchange delivers, and it delivers the queue.                   *)
LEMMA DeliveredSteps ==
    ASSUME [Next]_vars
    PROVE  delivered' = delivered \/ delivered' = delivered \o mq
<1>1. CASE UNCHANGED vars
  BY <1>1 DEF vars, workerVars
<1>2. CASE Execute \/ Close \/ Events
  BY <1>2 DEF Execute, Close, Events, handleSignal, handleCancel, ReplayEnds, handleUpdate,
       Resolve, ChildStarted, ChildStartFailed, workerVars
<1>3. CASE TaskStarted \/ RunCallbacks \/ FlushTask \/ EndTask \/ ExecReturns \/ ExecFails
  BY <1>3 DEF TaskStarted, RunCallbacks, FlushTask, EndTask, ExecReturns, ExecFails, workerVars
<1>4. ASSUME NEW n \in UpdateNames, HandleQueuedUpdates(n) PROVE delivered' = delivered
  BY <1>4 DEF HandleQueuedUpdates, workerVars
<1>5. CASE Worker
  <2>1. ASSUME NEW m, WorkerSends(m) PROVE delivered' = delivered
    BY <2>1 DEF WorkerSends
  <2> QED
    BY <1>5, <2>1, Zenon DEF Worker
<1>6. ASSUME NEW id \in CmdIDs, HandleMessage(id) PROVE delivered' = delivered
  BY <1>6 DEF HandleMessage, HandleRequest, HandleExecuteChildWorkflow,
       HandleGetChildWorkflowExecution, HandleGetVersion, HandleSideEffect, HandleCancel,
       HandleUpdateValidated, HandleUpdateCompleted, HandleFinishing, HandleUnanswered, workerVars
<1> QED
  BY <1>1, <1>2, <1>3, <1>4, <1>5, <1>6 DEF Next, Task, Closed

(* Every step keeps the worker ignorant of updates whose closure has not   *)
(* run.                                                                    *)
LEMMA KnowsStep ==
    ASSUME TypeOK, UpdateInvariant, [Next]_vars
    PROVE  KnowsInvoked'
<1> DEFINE Stays(u) == upd'[u] \notin {"none", "buffered"}
<1>1. KnowsInvoked
  BY DEF UpdateInvariant
<1>2. /\ mq \in Seq(Message) /\ delivered \in Seq(Message) /\ validated \subseteq UpdateIDs
      /\ issued \in Seq(WorkerMessage) /\ buffered \in [UpdateNames -> Seq(UpdateIDs)]
  BY DEF TypeOK, HostTypeOK, WorkerTypeOK, EnvTypeOK
<1>3. \A u \in UpdateIDs : Invoked(u) => Stays(u)
  BY InvokedStays DEF Invoked
<1> HIDE DEF Stays
<1>4. ASSUME NEW q \in Seq(Message), Told(q), NEW i \in 1 .. Len(q), q[i].upd # NoUpdate
      PROVE  Stays(q[i].upd)
  <2>1. q[i] \in Message
    BY <1>4
  <2>2. q[i].upd \in UpdateIDs
    BY <1>4, <2>1 DEF Message
  <2> QED
    BY <1>3, <1>4, <2>2 DEF Told
<1>5. \A i \in 1 .. Len(mq') : mq'[i].upd = NoUpdate \/ Stays(mq'[i].upd)
  <2>1. ASSUME NEW n \in UpdateNames, HandleQueuedUpdates(n), NEW i \in 1 .. Len(mq')
        PROVE  mq'[i].upd = NoUpdate \/ Stays(mq'[i].upd)
    <3> DEFINE queued == buffered[n]
               told == [k \in 1 .. Len(queued) |-> HostMessage("InvokeUpdate", 0, queued[k])]
    <3>1. queued \in Seq(UpdateIDs) /\ Len(queued) \in Nat
      BY <1>2
    <3>2. mq' = mq \o told
      BY <2>1 DEF HandleQueuedUpdates
    <3>3. \A k \in 1 .. Len(queued) : Stays(queued[k])
      <4>1. \A k \in 1 .. Len(queued) : queued[k] \in UpdateIDs
        BY <3>1
      <4>2. \A k \in 1 .. Len(queued) : upd'[queued[k]] = "scheduled"
        BY <2>1, <4>1 DEF HandleQueuedUpdates
      <4> QED
        BY <4>2 DEF Stays
    <3>4. \A k \in 1 .. Len(queued) : HostMessage("InvokeUpdate", 0, queued[k]) \in Message
      BY <3>1, MessageTypes DEF HostCommands
    <3>5. told \in Seq(Message)
      BY <3>1, <3>4, FunctionIsSeq
    <3>6. Len(told) = Len(queued) /\ \A k \in 1 .. Len(queued) : told[k].upd = queued[k]
      BY <3>1 DEF HostMessage
    <3> HIDE DEF told, queued
    <3>7. CASE i \in 1 .. Len(mq) /\ mq'[i] = mq[i]
      BY <1>1, <1>2, <1>4, <3>7 DEF KnowsInvoked
    <3>8. CASE i - Len(mq) \in 1 .. Len(told) /\ mq'[i] = told[i - Len(mq)]
      BY <3>3, <3>6, <3>8
    <3> QED
      BY <1>2, <2>1, <3>2, <3>5, <3>7, <3>8, ConcatElements
  <2>2. CASE \A i \in 1 .. Len(mq') :
               mq'[i].upd = NoUpdate \/ (i \in 1 .. Len(mq) /\ mq'[i] = mq[i])
    BY <1>1, <1>2, <1>4, <2>2 DEF KnowsInvoked
  <2> QED
    BY <2>1, <2>2, MessageSteps
<1>6. delivered' = delivered \/ delivered' = delivered \o mq
  BY DeliveredSteps
<1>7. \A i \in 1 .. Len(delivered') : delivered'[i].upd = NoUpdate \/ Stays(delivered'[i].upd)
  <2>1. CASE delivered' = delivered
    BY <1>1, <1>2, <1>4, <2>1 DEF KnowsInvoked
  <2>2. ASSUME delivered' = delivered \o mq, NEW i \in 1 .. Len(delivered')
        PROVE  delivered'[i].upd = NoUpdate \/ Stays(delivered'[i].upd)
    <3>1. CASE i \in 1 .. Len(delivered) /\ delivered'[i] = delivered[i]
      BY <1>1, <1>2, <1>4, <3>1 DEF KnowsInvoked
    <3>2. CASE i - Len(delivered) \in 1 .. Len(mq) /\ delivered'[i] = mq[i - Len(delivered)]
      BY <1>1, <1>2, <1>4, <3>2 DEF KnowsInvoked
    <3> QED
      BY <1>2, <2>2, <3>1, <3>2, ConcatElements
  <2> QED
    BY <1>6, <2>1, <2>2
<1>8. \A u \in validated : Stays(u)
  BY <1>1, <1>2, <1>3 DEF KnowsInvoked
<1>11. Told(mq)' /\ Told(delivered)'
  BY <1>5, <1>7 DEF Told, Invoked, Stays
<1>9. CASE Worker
  <2>1. PICK m \in WorkerMessage :
             /\ WorkerSends(m)
             /\ m.cmd = "UpdateValidated" /\ m.upd # NoUpdate => Invoked(m.upd)
             /\ m.cmd = "UpdateCompleted" /\ m.upd # NoUpdate => m.upd \in validated
    BY <1>1, <1>9, WorkerSendsKnown
  <2>2. m.upd \in UpdateIDs \cup {NoUpdate}
    BY DEF WorkerMessage
  <2>3. \A u \in validated' : u \in validated \/ (u \in UpdateIDs /\ Invoked(u))
    BY <2>1, <2>2 DEF WorkerSends
  <2>4. \A u \in validated' : Stays(u)
    BY <1>3, <1>8, <2>3
  <2>5. validated \subseteq validated'
    BY <2>1 DEF WorkerSends
  <2>6. /\ Len(issued') = Len(issued) + 1 /\ Len(issued) \in Nat
        /\ issued'[Len(issued) + 1] = m
        /\ \A c \in 1 .. Len(issued) : issued'[c] = issued[c]
    BY <1>2, <2>1 DEF WorkerSends
  <2>7. ASSUME NEW c \in IssuedAs({"UpdateCompleted"})', issued'[c].upd # NoUpdate
        PROVE  issued'[c].upd \in validated'
    <3>1. CASE c \in 1 .. Len(issued)
      BY <1>1, <2>5, <2>6, <2>7, <3>1 DEF IssuedAs, KnowsInvoked
    <3>2. CASE c = Len(issued) + 1
      BY <2>1, <2>5, <2>6, <2>7, <3>2 DEF IssuedAs
    <3> QED
      BY <2>6, <3>1, <3>2 DEF IssuedAs
  <2> QED
    BY <1>11, <2>4, <2>7 DEF KnowsInvoked, Invoked, Stays
<1>10. CASE UNCHANGED <<issued, validated>>
  BY <1>1, <1>8, <1>10, <1>11 DEF KnowsInvoked, Invoked, Stays, IssuedAs
<1> QED
  BY <1>9, <1>10, QueueSteps DEF ExecReturns, ExecFails

-----------------------------------------------------------------------------
(* The verdict comes first.                                                *)

(* A process that has panicked or is closed stays so.                      *)
LEMMA OverStays ==
    ASSUME [Next]_vars, pc \in {"panicked", "closed"}
    PROVE  pc' \in {"panicked", "closed"}
<1>1. CASE UNCHANGED vars
  BY <1>1 DEF vars
<1>2. CASE Execute \/ Close \/ Events
  BY <1>2 DEF Execute, Close, Events, Event, handleSignal, handleCancel, ReplayEnds, handleUpdate,
       Resolve, ChildStarted, ChildStartFailed
<1>3. CASE TaskStarted \/ RunCallbacks \/ FlushTask \/ EndTask \/ ExecReturns \/ ExecFails
  BY <1>3 DEF TaskStarted, RunCallbacks, FlushTask, EndTask, ExecReturns, ExecFails, InExec
<1>4. ASSUME NEW n \in UpdateNames, HandleQueuedUpdates(n) PROVE FALSE
  BY <1>4 DEF HandleQueuedUpdates
<1>5. CASE Worker
  <2>1. ASSUME NEW m, WorkerSends(m) PROVE FALSE
    BY <2>1 DEF WorkerSends, InExec
  <2> QED
    BY <1>5, <2>1, Zenon DEF Worker
<1>6. ASSUME NEW id \in CmdIDs, HandleMessage(id) PROVE FALSE
  BY <1>6 DEF HandleMessage, HandleRequest, HandleExecuteChildWorkflow,
       HandleGetChildWorkflowExecution, HandleGetVersion, HandleSideEffect, HandleCancel,
       HandleUpdateValidated, HandleUpdateCompleted, HandleFinishing, HandleUnanswered, Handling
<1> QED
  BY <1>1, <1>2, <1>3, <1>4, <1>5, <1>6 DEF Next, Task, Closed

(* Every step keeps the verdict on an update ahead of its completion: the  *)
(* worker sends it first, and messages are handled in that order.          *)
LEMMA VerdictStep ==
    ASSUME TypeOK, UpdateInvariant, [Next]_vars
    PROVE  VerdictFirst'
<1> SUFFICES ASSUME pc' \notin {"panicked", "closed"}, NEW u \in validateCb'
             PROVE  /\ u \in validated' => \E v \in Heads' : About(v, "UpdateValidated", u)'
                    /\ \A c \in Heads' : About(c, "UpdateCompleted", u)'
                          => \E v \in Heads' : v < c /\ About(v, "UpdateValidated", u)'
  BY DEF VerdictFirst, About
<1>1. TypeOK /\ HandledInOrder /\ CallbacksAtStage /\ KnowsInvoked /\ VerdictFirst
  BY DEF UpdateInvariant
<1>2. pc \notin {"panicked", "closed"}
  BY OverStays
<1>3. /\ validateCb \subseteq UpdateIDs /\ upd \in [UpdateIDs -> Stages]
      /\ buffered \in [UpdateNames -> Seq(UpdateIDs)] /\ issued \in Seq(WorkerMessage)
  BY DEF TypeOK, HostTypeOK, EnvTypeOK, WorkerTypeOK
<1>4. u \in UpdateIDs /\ u # NoUpdate
  BY TypeStep, NoUpdateAssumption DEF TypeOK, HostTypeOK
<1>5. Heads \subseteq 1 .. Len(issued)
  <2>1. pipeline \in Seq(CmdIDs) /\ reply \in Seq(CmdIDs)
    BY DEF TypeOK, HostTypeOK, WorkerTypeOK
  <2>2. Heads \subseteq CmdIDs
    BY <2>1 DEF Heads
  <2> QED
    BY <1>1, <1>3, <2>2 DEF HandledInOrder, CmdIDs
<1>6. ASSUME u \notin validateCb
      PROVE  \E n \in UpdateNames : HandleQueuedUpdates(n) /\ upd[u] = "buffered"
  <2>1. ASSUME NEW n \in UpdateNames, HandleQueuedUpdates(n) PROVE upd[u] = "buffered"
    <3>1. PICK i \in 1 .. Len(buffered[n]) : u = buffered[n][i]
      BY <1>6, <2>1 DEF HandleQueuedUpdates
    <3> QED
      BY <1>1, <3>1 DEF CallbacksAtStage
  <2>2. ASSUME NEW w \in UpdateIDs, handleUpdate(w) PROVE FALSE
    BY <1>6, <2>2 DEF handleUpdate
  <2>3. ASSUME NEW id \in CmdIDs, HandleUpdateValidated(id) PROVE FALSE
    BY <1>6, <2>3 DEF HandleUpdateValidated, ValidateLeft
  <2>4. ASSUME NEW id \in CmdIDs, HandleUpdateCompleted(id) PROVE FALSE
    BY <1>6, <2>4 DEF HandleUpdateCompleted
  <2>5. ~Close
    BY DEF Close
  <2> QED
    BY <1>6, <2>1, <2>2, <2>3, <2>4, <2>5, UpdateSteps
(* An update whose closure runs now is one the worker has not heard of.    *)
<1>7. ASSUME u \notin validateCb
      PROVE  u \notin validated /\ \A c \in Heads : ~About(c, "UpdateCompleted", u)
  <2>1. upd[u] = "buffered"
    BY <1>6, <1>7
  <2>2. u \notin validated
    BY <1>1, <2>1 DEF KnowsInvoked, Invoked
  <2>3. ASSUME NEW c \in Heads, About(c, "UpdateCompleted", u) PROVE FALSE
    <3>1. c \in IssuedAs({"UpdateCompleted"})
      BY <1>5, <2>3 DEF IssuedAs, About
    <3> QED
      BY <1>1, <1>4, <2>2, <2>3, <3>1 DEF KnowsInvoked, About
  <2> QED
    BY <2>2, <2>3
<1>8. CASE UNCHANGED <<pipeline, reply, issued, validated>>
  <2>1. Heads' = Heads
    BY <1>8 DEF Heads
  <2> QED
    BY <1>1, <1>2, <1>7, <1>8, <2>1 DEF VerdictFirst, About
<1>9. CASE /\ pipeline # << >> /\ pipeline' = Tail(pipeline)
           /\ UNCHANGED <<reply, issued, validated>>
           /\ \/ \E id \in CmdIDs : HandleUpdateValidated(id)
              \/ issued[Head(pipeline)].cmd # "UpdateValidated"
  <2>1. Heads' = Heads \ {Head(pipeline)}
    BY <1>1, <1>9, TakeFirst
  <2>2. CASE u \notin validateCb
    BY <1>7, <1>9, <2>1, <2>2 DEF About
  <2>3. CASE u \in validateCb
    <3>1. ~About(Head(pipeline), "UpdateValidated", u)
      <4>1. ASSUME NEW id \in CmdIDs, HandleUpdateValidated(id), issued[Head(pipeline)].upd = u
            PROVE  FALSE
        <5>1. issued[id].upd = u
          BY <4>1 DEF HandleUpdateValidated, Handling
        <5>2. validateCb' = ValidateLeft(validateCb, u)
          BY <1>4, <2>3, <4>1, <5>1, Zenon DEF HandleUpdateValidated
        <5> QED
          BY <5>2 DEF ValidateLeft
      <4> QED
        BY <1>9, <4>1 DEF About
    <3>2. \A v \in Heads : About(v, "UpdateValidated", u) => v \in Heads'
      BY <2>1, <3>1
    <3> QED
      BY <1>1, <1>2, <1>9, <2>1, <2>3, <3>2 DEF VerdictFirst, About
  <2> QED
    BY <2>2, <2>3
<1>10. CASE Worker
  <2>1. PICK m \in WorkerMessage :
             /\ WorkerSends(m)
             /\ m.cmd = "UpdateValidated" /\ m.upd # NoUpdate => Invoked(m.upd)
             /\ m.cmd = "UpdateCompleted" /\ m.upd # NoUpdate => m.upd \in validated
    BY <1>1, <1>10, WorkerSendsKnown
  <2> DEFINE new == Len(issued) + 1
  <2>2. /\ Heads' = Heads \cup {new} /\ issued'[new] = m
        /\ \A c \in Heads : issued'[c] = issued[c] /\ c < new
    BY <1>1, <1>3, <1>5, <2>1, SendLast
  <2> HIDE DEF new
  <2>3. u \in validateCb
    BY <2>1 DEF WorkerSends, updateVars
  <2>4. u \in validated' => u \in validated \/ (m.cmd = "UpdateValidated" /\ m.upd = u)
    BY <2>1 DEF WorkerSends
  <2>5. u \in validated => \E v \in Heads : v < new /\ About(v, "UpdateValidated", u)'
    BY <1>1, <1>2, <2>2, <2>3 DEF VerdictFirst, About
  <2>6. u \in validated' => \E v \in Heads' : About(v, "UpdateValidated", u)'
    BY <2>2, <2>4, <2>5 DEF About
  <2>7. ASSUME NEW c \in Heads', About(c, "UpdateCompleted", u)'
        PROVE  \E v \in Heads' : v < c /\ About(v, "UpdateValidated", u)'
    <3>1. CASE c \in Heads
      BY <1>1, <1>2, <2>2, <2>3, <2>7, <3>1 DEF VerdictFirst, About
    <3>2. CASE c = new
      BY <1>4, <2>1, <2>2, <2>5, <2>7, <3>2 DEF About
    <3> QED
      BY <2>2, <3>1, <3>2
  <2> QED
    BY <2>6, <2>7
<1>11. CASE ExecReturns
  <2>1. Heads' = Heads /\ issued' = issued /\ validated' = validated /\ validateCb' = validateCb
    BY <1>1, <1>11, ReplyJoins DEF ExecReturns, updateVars
  <2> QED
    BY <1>1, <1>2, <2>1 DEF VerdictFirst, About
<1>12. CASE ExecFails
  BY <1>12 DEF ExecFails
<1> QED
  BY <1>8, <1>9, <1>10, <1>11, <1>12, QueueSteps

-----------------------------------------------------------------------------
(* The invariant and the refinement.                                       *)

(* A fresh definition has no updates and no messages.                      *)
LEMMA UpdateInvariantInit == Init => UpdateInvariant
<1> SUFFICES ASSUME Init PROVE UpdateInvariant
  OBVIOUS
<1>1. Heads = {} /\ HandledInOrder
  BY DEF Init, Heads, HandledInOrder
<1>2. CallbacksAtStage
  BY DEF Init, CallbacksAtStage
<1>3. KnowsInvoked
  BY DEF Init, KnowsInvoked, Told, IssuedAs
<1>4. VerdictFirst
  BY DEF Init, VerdictFirst
<1> QED
  BY <1>1, <1>2, <1>3, <1>4 DEF UpdateInvariant

(* The four parts together are inductive, relative to the types.           *)
LEMMA UpdateInvariantStep ==
    TypeOK /\ UpdateInvariant /\ [Next]_vars => UpdateInvariant'
  BY OrderStep, StageStep, KnowsStep, VerdictStep DEF UpdateInvariant

(* Whatever the worker repeats, however its replies are cut into batches   *)
(* and wherever an exchange fails, the host handles the verdict on an      *)
(* update before its completion and holds an update's callbacks only at    *)
(* the stages that allow them (handleUpdate, handleMessage).               *)
THEOREM UpdatesKeptInOrder == Spec => []UpdateInvariant
<1>1. Init => TypeOK /\ UpdateInvariant
  BY TypeInit, UpdateInvariantInit
<1>2. TypeOK /\ UpdateInvariant /\ [Next]_vars => (TypeOK /\ UpdateInvariant)'
  BY TypeStep, UpdateInvariantStep
<1> QED
  BY <1>1, <1>2, PTL DEF Spec

(* Under the invariant a step moves at most one update, and legally.       *)
LEMMA ProtocolStep ==
    ASSUME TypeOK, UpdateInvariant, [Next]_vars
    PROVE  [UP!Next]_Stage
<1>1. /\ upd \in [UpdateIDs -> Stages] /\ upd' \in [UpdateIDs -> Stages]
      /\ validateCb \subseteq UpdateIDs /\ completeCb \subseteq UpdateIDs
      /\ buffered \in [UpdateNames -> Seq(UpdateIDs)]
  BY TypeStep DEF TypeOK, HostTypeOK, EnvTypeOK
<1>2. CallbacksAtStage
  BY DEF UpdateInvariant
<1>3. ASSUME \A w \in UpdateIDs : upd'[w] = upd[w] \/ (upd[w] = "buffered" /\ upd'[w] = "scheduled")
      PROVE  Stage' = Stage
  BY <1>3 DEF Stage
<1>4. ASSUME NEW u \in UpdateIDs, \A w \in UpdateIDs : w # u => upd'[w] = upd[w]
      PROVE  Stage' = [Stage EXCEPT ![u] = Stage'[u]]
  BY <1>4 DEF Stage
<1>5. CASE UNCHANGED upd
  BY <1>5 DEF Stage
<1>6. ASSUME NEW u \in UpdateIDs, handleUpdate(u) PROVE UP!Next
  <2>1. /\ upd[u] = "none" /\ upd'[u] = "buffered"
        /\ \A w \in UpdateIDs : w # u => upd'[w] = upd[w]
    BY <1>1, <1>6 DEF handleUpdate
  <2>2. Stage[u] = "none" /\ Stage'[u] = "received"
    BY <2>1 DEF Stage
  <2>3. UP!Receive(u)
    BY <1>4, <2>1, <2>2 DEF UP!Receive, UP!Move
  <2> QED
    BY <2>3 DEF UP!Next
<1>7. ASSUME NEW n \in UpdateNames, HandleQueuedUpdates(n) PROVE Stage' = Stage
  <2> DEFINE us == {buffered[n][i] : i \in 1 .. Len(buffered[n])}
  <2>1. upd' = [u \in UpdateIDs |-> IF u \in us THEN "scheduled" ELSE upd[u]]
    BY <1>7 DEF HandleQueuedUpdates
  <2>2. \A u \in us : upd[u] = "buffered"
    BY <1>2 DEF CallbacksAtStage
  <2> QED
    BY <1>3, <2>1, <2>2
<1>8. ASSUME NEW id \in CmdIDs, HandleUpdateValidated(id) PROVE UP!Next \/ Stage' = Stage
  <2> DEFINE u == issued[id].upd
  <2>1. CASE u \in validateCb /\ Verdict(u, issued[id].failed)
    <3>1. u \in UpdateIDs /\ upd[u] = "scheduled"
      BY <1>1, <1>2, <2>1 DEF CallbacksAtStage
    <3>2. /\ upd'[u] \in {"rejected", "accepted"}
          /\ \A w \in UpdateIDs : w # u => upd'[w] = upd[w]
      BY <1>1, <2>1, <3>1 DEF Verdict, Calls
    <3>3. Stage[u] = "received" /\ Stage'[u] = upd'[u]
      BY <3>1, <3>2 DEF Stage
    <3>4. UP!Accept(u) \/ UP!Reject(u)
      BY <1>4, <3>1, <3>2, <3>3 DEF UP!Accept, UP!Reject, UP!Move
    <3> QED
      BY <3>1, <3>4 DEF UP!Next
  <2>2. CASE UNCHANGED upd
    BY <2>2 DEF Stage
  <2> QED
    BY <1>8, <2>1, <2>2 DEF HandleUpdateValidated
<1>9. ASSUME NEW id \in CmdIDs, HandleUpdateCompleted(id) PROVE UP!Next \/ Stage' = Stage
  <2> DEFINE u == issued[id].upd
  <2>1. CASE u \in completeCb /\ Calls(u, "accepted", "completed")
    <3>1. u \notin validateCb
      BY <1>9, CompletionAfterVerdict DEF HandleUpdateCompleted, UpdateInvariant
    <3>2. u \in UpdateIDs /\ upd[u] = "accepted"
      BY <1>1, <1>2, <2>1, <3>1 DEF CallbacksAtStage
    <3>3. /\ upd'[u] = "completed"
          /\ \A w \in UpdateIDs : w # u => upd'[w] = upd[w]
      BY <1>1, <2>1, <3>2 DEF Calls
    <3>4. Stage[u] = "accepted" /\ Stage'[u] = "completed"
      BY <3>2, <3>3 DEF Stage
    <3>5. UP!Complete(u)
      BY <1>4, <3>2, <3>3, <3>4 DEF UP!Complete, UP!Move
    <3> QED
      BY <3>2, <3>5 DEF UP!Next
  <2>2. CASE UNCHANGED upd
    BY <2>2 DEF Stage
  <2> QED
    BY <1>9, <2>1, <2>2 DEF HandleUpdateCompleted
<1>10. CASE Close
  <2>1. \A w \in UpdateIDs : upd'[w] = upd[w] \/ (upd[w] = "buffered" /\ upd'[w] = "scheduled")
    BY <1>10 DEF Close
  <2> QED
    BY <1>3, <2>1
<1> QED
  BY <1>5, <1>6, <1>7, <1>8, <1>9, <1>10, UpdateSteps

(* The host implements Temporal's update protocol: one verdict per update, *)
(* a completion only after acceptance and at most once, for any number of  *)
(* updates, names and messages of the worker.                              *)
THEOREM ProtocolImplemented == Spec => UpdatesFollowProtocol
<1>1. Init => UP!Init
  BY DEF Init, UP!Init, Stage
<1>2. Spec => []TypeOK /\ []UpdateInvariant
  BY TypeCorrect, UpdatesKeptInOrder
<1>3. TypeOK /\ UpdateInvariant /\ [Next]_vars => [UP!Next]_Stage
  BY ProtocolStep
<1> QED
  BY <1>1, <1>2, <1>3, PTL DEF Spec, UP!Spec, UpdatesFollowProtocol
=============================================================================
