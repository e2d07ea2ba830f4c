----------------------- MODULE WorkflowRequests_proofs -----------------------
(***************************************************************************)
(* Requests of the worker, for every value of the constants: each has one  *)
(* owner at a time (RequestInvariant), so none is answered twice, none is  *)
(* forgotten, and a Cancel finds those that are still running.             *)
(***************************************************************************)
EXTENDS WorkflowTasks_proofs

-----------------------------------------------------------------------------
(* The answers of a conversation.                                          *)

Heard == AnswerIds(Conversation)

(* The answers of a longer conversation are those of its two parts.        *)
LEMMA AnswersJoin ==
    ASSUME NEW q \in Seq(Message), NEW t \in Seq(Message)
    PROVE  AnswerIds(q \o t) = AnswerIds(q) \cup AnswerIds(t)
<1>1. ASSUME NEW x \in AnswerIds(q \o t) PROVE x \in AnswerIds(q) \cup AnswerIds(t)
  <2>1. PICK i \in 1 .. Len(q \o t) : (q \o t)[i].type \in Answers /\ x = (q \o t)[i].id
    BY DEF AnswerIds
  <2> QED
    BY <2>1, Extended DEF AnswerIds
<1>2. ASSUME NEW x \in AnswerIds(q) PROVE x \in AnswerIds(q \o t)
  <2>1. PICK i \in 1 .. Len(q) : q[i].type \in Answers /\ x = q[i].id
    BY DEF AnswerIds
  <2> QED
    BY <2>1, Extended DEF AnswerIds
<1>3. ASSUME NEW x \in AnswerIds(t) PROVE x \in AnswerIds(q \o t)
  <2>1. PICK i \in 1 .. Len(t) : t[i].type \in Answers /\ x = t[i].id
    BY DEF AnswerIds
  <2>2. Len(q) + i \in 1 .. Len(q \o t) /\ (q \o t)[Len(q) + i] = t[i]
    BY Extended
  <2> QED
    BY <2>1, <2>2 DEF AnswerIds
<1> QED
  BY <1>1, <1>2, <1>3

(* Two parts that repeat nothing and answer different requests make a      *)
(* whole that repeats nothing.                                             *)
LEMMA UnrepeatedJoin ==
    ASSUME NEW q \in Seq(Message), NEW t \in Seq(Message),
           Unrepeated(q), Unrepeated(t), AnswerIds(q) \cap AnswerIds(t) = {}
    PROVE  Unrepeated(q \o t)
<1> SUFFICES ASSUME NEW i \in 1 .. Len(q \o t), NEW j \in 1 .. Len(q \o t),
                    (q \o t)[i].type \in Answers, (q \o t)[j].type \in Answers,
                    (q \o t)[i].id = (q \o t)[j].id
             PROVE  i = j
  BY DEF Unrepeated
<1> DEFINE n == Len(q)
           First(k) == k \in 1 .. n /\ (q \o t)[k] = q[k]
           Second(k) == k - n \in 1 .. Len(t) /\ (q \o t)[k] = t[k - n]
<1>1. n \in Nat /\ i \in Nat /\ j \in Nat
  BY Extended
<1>2. (First(i) \/ Second(i)) /\ (First(j) \/ Second(j))
  BY Extended
<1>3. \A k \in 1 .. n : q[k].type \in Answers => q[k].id \in AnswerIds(q)
  BY DEF AnswerIds
<1>4. \A k \in 1 .. Len(t) : t[k].type \in Answers => t[k].id \in AnswerIds(t)
  BY DEF AnswerIds
<1>5. CASE First(i) /\ First(j)
  BY <1>5 DEF Unrepeated
<1>6. CASE Second(i) /\ Second(j)
  <2>1. i - n = j - n
    BY <1>6 DEF Unrepeated
  <2> QED
    BY <1>1, <2>1
<1>7. CASE First(i) /\ Second(j)
  BY <1>3, <1>4, <1>7
<1>8. CASE Second(i) /\ First(j)
  BY <1>3, <1>4, <1>8
<1> QED
  BY <1>2, <1>5, <1>6, <1>7, <1>8

(* Host commands answer nothing.                                           *)
LEMMA CommandsAnswerNothing ==
    ASSUME NEW t \in Seq(Message), \A i \in 1 .. Len(t) : t[i].type \notin Answers
    PROVE  AnswerIds(t) = {} /\ Unrepeated(t)
  BY DEF AnswerIds, Unrepeated

(* A sequence of answers to different requests repeats nothing.            *)
LEMMA AnswersTo ==
    ASSUME NEW t \in Seq(AnswerMessage), NEW s, Len(s) = Len(t),
           \A i \in 1 .. Len(t) : t[i].id = s[i],
           \A i, j \in 1 .. Len(t) : s[i] = s[j] => i = j
    PROVE  t \in Seq(Message) /\ Unrepeated(t) /\ AnswerIds(t) = {s[i] : i \in 1 .. Len(t)}
<1>1. AnswerMessage \subseteq Message /\ \A m \in AnswerMessage : m.type \in Answers
  BY DEF AnswerMessage
<1>2. t \in Seq(Message)
  BY <1>1, SeqMonotonic
<1>3. \A i \in 1 .. Len(t) : t[i].type \in Answers
  BY <1>1
<1> QED
  BY <1>2, <1>3 DEF AnswerIds, Unrepeated

(* A step that says t, without a second answer to anything.                *)
LEMMA HeardGrows ==
    ASSUME TypeOK, AnsweredOnce, NEW t \in Seq(Message), Says(t), Unrepeated(t),
           Heard \cap AnswerIds(t) = {}
    PROVE  AnsweredOnce' /\ Heard' = Heard \cup AnswerIds(t)
<1>1. Conversation' = Conversation \o t /\ Conversation \in Seq(Message)
  BY SaysExtends, ConversationType
<1>2. AnswerIds(Conversation \o t) = AnswerIds(Conversation) \cup AnswerIds(t)
  BY <1>1, AnswersJoin
<1>3. Unrepeated(Conversation \o t)
  BY <1>1, UnrepeatedJoin DEF Heard, AnsweredOnce
<1>4. AnsweredOnce' = Unrepeated(Conversation') /\ Heard' = AnswerIds(Conversation')
  BY DEF AnsweredOnce, Heard, Unrepeated, AnswerIds
<1> QED
  BY <1>1, <1>2, <1>3, <1>4 DEF Heard

(* A step that answers one request that was not answered before.           *)
LEMMA HeardOne ==
    ASSUME TypeOK, AnsweredOnce, NEW n \in CmdIDs, NEW ok \in BOOLEAN, n \notin Heard,
           delivered' = delivered, mq' = Append(mq, Answer(n, ok, NoUpdate))
    PROVE  AnsweredOnce' /\ Heard' = Heard \cup {n}
<1> DEFINE m == Answer(n, ok, NoUpdate)
           t == <<m>>
           s == <<n>>
<1>1. m \in AnswerMessage /\ m.id = n
  BY AnswerIsAnswer DEF CmdIDs
<1>2. mq' = Append(mq, m)
  OBVIOUS
<1> HIDE DEF m
<1>3. m \in Message /\ t \in Seq(AnswerMessage) /\ Len(t) = 1 /\ t[1] = m
  BY <1>1 DEF AnswerMessage
<1>4. Says(t)
  BY <1>2, <1>3, SaysOne
<1>5. Len(s) = 1 /\ s[1] = n
  OBVIOUS
<1> HIDE DEF t, s
<1>6. /\ Len(s) = Len(t) /\ \A i \in 1 .. Len(t) : t[i].id = s[i]
      /\ \A i, j \in 1 .. Len(t) : s[i] = s[j] => i = j
  BY <1>1, <1>3, <1>5
<1>7. t \in Seq(Message) /\ Unrepeated(t) /\ AnswerIds(t) = {s[i] : i \in 1 .. Len(t)}
  BY <1>3, <1>6, AnswersTo
<1>8. AnswerIds(t) = {n}
  BY <1>3, <1>5, <1>7
<1> QED
  BY <1>4, <1>7, <1>8, HeardGrows

(* A step that says nothing, or only moves the conversation on.            *)
LEMMA HeardStays ==
    ASSUME AnsweredOnce, Conversation' = Conversation
    PROVE  AnsweredOnce' /\ Heard' = Heard
  BY DEF AnsweredOnce, Heard, Unrepeated, AnswerIds

-----------------------------------------------------------------------------
(* What each step does to the owners of requests.                          *)

Owned == <<canceller, callbacks, ids, listeners, pending, unstarted, settled, asked, issued>>

(* The steps that have nothing to do with requests.                        *)
Plain ==
    \/ UNCHANGED vars
    \/ Execute \/ handleSignal \/ handleCancel \/ ReplayEnds
    \/ \E u \in UpdateIDs : handleUpdate(u)
    \/ TaskStarted \/ FlushTask \/ ExecReturns \/ EndTask
    \/ \E n \in UpdateNames : HandleQueuedUpdates(n)

LEMMA PlainSteps ==
    ASSUME TypeOK, HandledInOrder, AnsweredOnce, [Next]_vars, Plain
    PROVE  UNCHANGED Owned /\ Heads' = Heads /\ AnsweredOnce' /\ Heard' = Heard
<1>1. UNCHANGED Owned
  BY DEF Plain, Owned, Execute, handleSignal, handleCancel, ReplayEnds, handleUpdate, TaskStarted,
       FlushTask, ExecReturns, EndTask, HandleQueuedUpdates, vars, registryVars, requestVars, workerVars
<1>2. Heads' = Heads
  <2>1. CASE ExecReturns
    BY <2>1, ReplyJoins
  <2>2. CASE ~ExecReturns
    <3>1. UNCHANGED <<pipeline, reply>>
      BY <2>2 DEF Plain, Execute, handleSignal, handleCancel, ReplayEnds, handleUpdate, TaskStarted,
           FlushTask, EndTask, HandleQueuedUpdates, vars, workerVars
    <3> QED
      BY <3>1 DEF Heads
  <2> QED
    BY <2>1, <2>2
<1>3. ASSUME NEW t \in Seq(Message), Says(t), \A i \in 1 .. Len(t) : t[i].type \notin Answers
      PROVE  AnsweredOnce' /\ Heard' = Heard
  <2>1. AnswerIds(t) = {} /\ Unrepeated(t)
    BY <1>3, CommandsAnswerNothing
  <2>2. AnsweredOnce' /\ Heard' = Heard \cup AnswerIds(t)
    BY <1>3, <2>1, HeardGrows
  <2> QED
    BY <2>1, <2>2
<1>4. ASSUME NEW k \in HostCommands, NEW n \in Nat, Says(<<HostMessage(k, n, NoUpdate)>>)
      PROVE  AnsweredOnce' /\ Heard' = Heard
  <2> DEFINE m == HostMessage(k, n, NoUpdate)
             t == <<m>>
  <2>1. m \in Message /\ m.type \notin Answers
    <3>1. m \in Message
      BY MessageTypes
    <3> QED
      BY <3>1 DEF HostMessage, HostCommands, Answers
  <2>2. Says(t)
    BY <1>4
  <2> HIDE DEF m
  <2>3. t \in Seq(Message) /\ \A i \in 1 .. Len(t) : t[i].type \notin Answers
    BY <2>1
  <2> HIDE DEF t
  <2> QED
    BY <1>3, <2>2, <2>3
<1>5. AnsweredOnce' /\ Heard' = Heard
  <2>1. CASE UNCHANGED vars
    BY <2>1, HeardStays DEF vars, workerVars, Conversation
  <2>2. CASE ExecReturns
    BY <2>2, ExchangeKeeps, HeardStays
  <2>3. CASE ReplayEnds \/ TaskStarted \/ FlushTask \/ EndTask \/ \E u \in UpdateIDs : handleUpdate(u)
    BY <2>3, HeardStays DEF ReplayEnds, TaskStarted, FlushTask, EndTask, handleUpdate, workerVars,
         Conversation
  <2>4. ASSUME NEW n \in UpdateNames, HandleQueuedUpdates(n) PROVE AnsweredOnce' /\ Heard' = Heard
    <3>1. PICK t \in Seq(Message) : Says(t) /\ \A i \in 1 .. Len(t) : t[i].type = "InvokeUpdate"
      BY <2>4, UpdatesSay
    <3> QED
      BY <1>3, <3>1 DEF Answers
  <2>5. signals + 1 \in Nat /\ 0 \in Nat
    BY BoundsAssumption DEF TypeOK, EnvTypeOK
  <2>6. {"StartWorkflow", "InvokeSignal", "CancelWorkflow"} \subseteq HostCommands
    BY DEF HostCommands
  <2>7. ASSUME NEW k \in HostCommands, NEW n \in Nat, delivered' = delivered,
               mq' = PushCommand(mq, k, n, NoUpdate)
        PROVE  AnsweredOnce' /\ Heard' = Heard
    <3>1. HostMessage(k, n, NoUpdate) \in Message
      BY MessageTypes
    <3> QED
      BY <1>4, <2>7, <3>1, SaysOne DEF PushCommand
  <2>8. CASE Execute
    BY <2>5, <2>6, <2>7, <2>8 DEF Execute, workerVars
  <2>9. CASE handleSignal
    BY <2>5, <2>6, <2>7, <2>9 DEF handleSignal, workerVars
  <2>10. CASE handleCancel
    BY <2>5, <2>6, <2>7, <2>10 DEF handleCancel, workerVars
  <2> QED
    BY <2>1, <2>2, <2>3, <2>4, <2>8, <2>9, <2>10 DEF Plain
<1> QED
  BY <1>1, <1>2, <1>5

(* A message that does not end the execution leaves the pipeline; it was   *)
(* its first.                                                              *)
LEMMA HandleFacts ==
    ASSUME TypeOK, HandledInOrder, NEW id \in CmdIDs, HandleMessage(id)
    PROVE  /\ id \in 1 .. Len(issued) /\ id \in Heads /\ \A h \in Heads : id <= h
           /\ UNCHANGED <<callbacks, issued, delivered>>
           /\ \/ Heads' = Heads \ {id}
              \/ /\ pc' = "panicked" /\ Heads' \subseteq Heads
                 /\ UNCHANGED Owned /\ mq' = mq
<1>1. id = Head(pipeline) /\ pipeline # << >> /\ id \in 1 .. Len(issued)
  BY DEF HandleMessage, HandleRequest, HandleExecuteChildWorkflow,
       HandleGetChildWorkflowExecution, HandleGetVersion, HandleSideEffect, HandleCancel,
       HandleUpdateValidated, HandleUpdateCompleted, HandleFinishing, HandleUnanswered,
       Handling, IssuedAs
<1>2. UNCHANGED <<callbacks, issued, delivered, reply>>
  BY DEF HandleMessage, HandleRequest, HandleExecuteChildWorkflow,
       HandleGetChildWorkflowExecution, HandleGetVersion, HandleSideEffect, HandleCancel,
       HandleUpdateValidated, HandleUpdateCompleted, HandleFinishing, HandleUnanswered, workerVars
<1>3. \/ pipeline' = Tail(pipeline)
      \/ pipeline' = << >> /\ pc' = "panicked" /\ UNCHANGED Owned /\ mq' = mq
  BY DEF HandleMessage, HandleRequest, HandleExecuteChildWorkflow,
       HandleGetChildWorkflowExecution, HandleGetVersion, HandleSideEffect, HandleCancel,
       HandleUpdateValidated, HandleUpdateCompleted, HandleFinishing, HandleUnanswered,
       Handled, Panics, Owned, registryVars, requestVars, workerVars
<1>4. pipeline \in Seq(CmdIDs) /\ reply \in Seq(CmdIDs)
  BY DEF TypeOK, HostTypeOK, WorkerTypeOK
<1>5. id \in Heads
  BY <1>1, <1>4 DEF Heads
<1>6. \A h \in Heads : id <= h
  <2>1. id = pipeline[1] /\ 1 \in 1 .. Len(pipeline) /\ Len(pipeline) \in Nat
    BY <1>1, <1>4
  <2>2. /\ \A i \in 1 .. Len(pipeline) : i = 1 \/ pipeline[1] < pipeline[i]
        /\ \A i \in 1 .. Len(reply) : pipeline[1] < reply[i]
    BY <2>1 DEF HandledInOrder
  <2>3. \A h \in Heads : h \in CmdIDs
    BY <1>4 DEF Heads
  <2>4. \A h \in Heads : h = id \/ id < h
    BY <2>1, <2>2 DEF Heads
  <2>5. id \in Nat /\ \A c \in CmdIDs : c \in Nat
    BY DEF CmdIDs
  <2>6. ASSUME NEW h \in Heads PROVE id <= h
    <3>1. h \in Nat
      BY <2>3, <2>5
    <3> QED
      BY <2>4, <2>5, <3>1
  <2> QED
    BY <2>6
<1>7. CASE pipeline' = Tail(pipeline)
  <2>1. Heads' = Heads \ {id}
    BY <1>1, <1>2, <1>7, TakeFirst
  <2> QED
    BY <1>1, <1>2, <1>5, <1>6, <2>1
<1>8. CASE pipeline' = << >> /\ pc' = "panicked" /\ UNCHANGED Owned /\ mq' = mq
  <2>1. Heads' \subseteq Heads
    BY <1>2, <1>8 DEF Heads
  <2> QED
    BY <1>1, <1>2, <1>5, <1>6, <1>8, <2>1
<1> QED
  BY <1>3, <1>7, <1>8

(* An end of the execution drops messages, and answers nothing.            *)
LEMMA Dropping ==
    ASSUME TypeOK, AnsweredOnce, ExecFails \/ Close
    PROVE  /\ UNCHANGED Owned /\ Heads' \subseteq Heads /\ pc' \in {"panicked", "closed"}
           /\ AnsweredOnce' /\ Heard' \subseteq Heard
<1>1. UNCHANGED Owned /\ Heads' \subseteq Heads /\ pc' \in {"panicked", "closed"}
  BY DEF ExecFails, Close, Heads, Owned, registryVars, requestVars, workerVars
<1>2. CASE ExecFails
  BY <1>1, <1>2, HeardStays DEF ExecFails, Conversation
<1>3. CASE Close
  <2>1. mq \in Seq(Message) /\ delivered \in Seq(Message)
    BY DEF TypeOK, HostTypeOK, WorkerTypeOK
  <2>2. Conversation' = delivered
    BY <1>3, <2>1, ConcatEmptySeq DEF Close, Flush, Conversation
  <2>3. AnswerIds(delivered) \subseteq Heard
    BY <2>1, AnswersJoin DEF Heard, Conversation
  <2>4. Unrepeated(delivered)
    <3>1. Unrepeated(delivered \o mq)
      BY DEF AnsweredOnce, Conversation
    <3>2. \A i \in 1 .. Len(delivered) : (delivered \o mq)[i] = delivered[i] /\ i \in 1 .. Len(delivered \o mq)
      BY <2>1, Extended
    <3> QED
      BY <3>1, <3>2 DEF Unrepeated
  <2>5. AnsweredOnce' = Unrepeated(Conversation') /\ Heard' = AnswerIds(Conversation')
    BY DEF AnsweredOnce, Heard, Unrepeated, AnswerIds
  <2> QED
    BY <1>1, <2>2, <2>3, <2>4, <2>5
<1> QED
  BY <1>2, <1>3

-----------------------------------------------------------------------------
(* Requests change their owners.                                           *)

(* Results due in the next task are those of different requests.           *)
Distinct(r) == \A i, j \in 1 .. Len(r) : r[i].id = r[j].id => i = j

(* What OneOwner says, owner by owner.                                     *)
LEMMA OwnersApart ==
    OneOwner <=> /\ AnsweredOnce /\ Distinct(callbacks)
                 /\ Heads \cap (pending \cup Waiting \cup Due \cup Heard) = {}
                 /\ pending \cap (Waiting \cup Due \cup Heard) = {}
                 /\ Waiting \cap (Due \cup Heard) = {}
                 /\ Due \cap Heard = {}
                 /\ pending \cup Due \cup Heard \subseteq 1 .. Len(issued)
  BY DEF OneOwner, Distinct, Answered, Heard

(* Who owns a request was sent one.                                        *)
LEMMA OwnersIssued ==
    ASSUME TypeOK, HandledInOrder, ListenersAsked
    PROVE  Heads \subseteq 1 .. Len(issued) /\ Waiting \subseteq 1 .. Len(issued)
<1>1. pipeline \in Seq(CmdIDs) /\ reply \in Seq(CmdIDs) /\ Len(issued) \in Nat
  BY DEF TypeOK, HostTypeOK, WorkerTypeOK
<1>2. Heads \subseteq CmdIDs
  BY <1>1 DEF Heads
<1>3. Heads \subseteq 1 .. Len(issued)
  BY <1>1, <1>2 DEF HandledInOrder, CmdIDs
<1> QED
  BY <1>3 DEF ListenersAsked, Waiting

(* A step in which requests move on, from the pipeline to some owner or    *)
(* from one owner to another, and no request to two.                       *)
LEMMA OwnersMove ==
    ASSUME TypeOK, HandledInOrder, OneOwner, ListenersAsked, issued' = issued,
           Heads' \subseteq Heads, AnsweredOnce', Distinct(callbacks)',
           pending' \cup Waiting' \cup Due' \cup Heard'
             \subseteq (Heads \ Heads') \cup pending \cup Waiting \cup Due \cup Heard,
           pending' \cap (Waiting' \cup Due' \cup Heard') = {},
           Waiting' \cap (Due' \cup Heard') = {},
           Due' \cap Heard' = {}
    PROVE  OneOwner'
<1>1. /\ Heads \cap (pending \cup Waiting \cup Due \cup Heard) = {}
      /\ pending \cup Due \cup Heard \subseteq 1 .. Len(issued)
  BY OwnersApart
<1>2. Heads \subseteq 1 .. Len(issued) /\ Waiting \subseteq 1 .. Len(issued)
  BY OwnersIssued
<1>3. Heads' \cap (pending' \cup Waiting' \cup Due' \cup Heard') = {}
  BY <1>1
<1>4. pending' \cup Due' \cup Heard' \subseteq 1 .. Len(issued')
  BY <1>1, <1>2
<1>5. Answered' = Due' \cup Heard'
  BY DEF Answered, Heard
<1>6. /\ Heads' \cap (pending' \cup Waiting' \cup Answered') = {}
      /\ pending' \cap (Waiting' \cup Answered') = {}
      /\ Waiting' \cap Answered' = {}
      /\ pending' \cup Answered' \subseteq 1 .. Len(issued')
  BY <1>3, <1>4, <1>5
<1>7. Due' \cap AnswerIds(Conversation)' = {}
  BY DEF Heard
<1> QED
  BY <1>6, <1>7 DEF OneOwner, Distinct

(* A step that leaves the registry and the worker's messages alone.        *)
LEMMA RegistryStays ==
    ASSUME AskedOnce, ListenersAsked, UNCHANGED <<ids, listeners, issued>>, Heads' \subseteq Heads
    PROVE  AskedOnce' /\ ListenersAsked' /\ Waiting' = Waiting
  BY DEF AskedOnce, ListenersAsked, Waiting, IssuedAs

(* A step that drops messages or does nothing.                             *)
LEMMA OwnersStay ==
    ASSUME TypeOK, HandledInOrder, RequestInvariant, UNCHANGED Owned,
           Heads' \subseteq Heads, AnsweredOnce', Heard' \subseteq Heard
    PROVE  RequestInvariant' /\ Waiting' = Waiting /\ Due' = Due
<1>1. /\ UNCHANGED <<callbacks, ids, listeners, pending, unstarted, issued>>
      /\ OneOwner /\ AskedOnce /\ ListenersAsked /\ KnownChildren
  BY DEF Owned, RequestInvariant
<1>2. AskedOnce' /\ ListenersAsked' /\ Waiting' = Waiting
  BY <1>1, RegistryStays
<1>3. Due' = Due /\ Distinct(callbacks)'
  BY <1>1, OwnersApart DEF Due, Distinct
<1>4. OneOwner'
  BY <1>1, <1>2, <1>3, OwnersApart, OwnersMove
<1>5. KnownChildren'
  BY <1>1 DEF KnownChildren
<1> QED
  BY <1>2, <1>3, <1>4, <1>5 DEF RequestInvariant

(* One more result is due.                                                 *)
LEMMA DueGrows ==
    ASSUME NEW r \in Seq(Result), NEW x \in Result, Distinct(r),
           x.id \notin {r[i].id : i \in 1 .. Len(r)}
    PROVE  /\ Distinct(Append(r, x))
           /\ {Append(r, x)[i].id : i \in 1 .. Len(Append(r, x))}
                = {r[i].id : i \in 1 .. Len(r)} \cup {x.id}
<1> DEFINE a == Append(r, x)
           n == Len(r) + 1
<1>1. /\ Len(r) \in Nat /\ Len(a) = n /\ a[n] = x
      /\ \A i \in 1 .. Len(r) : a[i] = r[i]
  OBVIOUS
<1> HIDE DEF a
<1>2. Distinct(a)
  BY <1>1 DEF Distinct
<1>3. {a[i].id : i \in 1 .. Len(a)} = {r[i].id : i \in 1 .. Len(r)} \cup {x.id}
  <2>1. n \in 1 .. Len(a) /\ \A i \in 1 .. Len(a) : i = n \/ i \in 1 .. Len(r)
    BY <1>1
  <2>2. \A i \in 1 .. Len(r) : i \in 1 .. Len(a)
    BY <1>1
  <2> QED
    BY <1>1, <2>1, <2>2
<1> QED
  BY <1>2, <1>3 DEF a

-----------------------------------------------------------------------------
(* Results.                                                                *)

(* A child becomes known: its listener waits no longer, the others do.     *)
LEMMA ChildKnown ==
    ASSUME TypeOK, ListenersAsked, NEW c \in CmdIDs, ids[c] = "unknown",
           NEW out \in {"ok", "err"}, ids' = IdsAfterPush(ids, c, out), listeners' = listeners
    PROVE  /\ Waiting' = Waiting \ {listeners[c]}
           /\ listeners[c] # 0 => listeners[c] \in Waiting
           /\ ids'[c] # "unknown" /\ \A d \in CmdIDs : d # c => ids'[d] = ids[d]
<1>1. ids \in [CmdIDs -> Outcomes] /\ listeners \in [CmdIDs -> 0 .. MaxCmds]
  BY DEF TypeOK, HostTypeOK
<1>2. ids'[c] # "unknown" /\ \A d \in CmdIDs : d # c => ids'[d] = ids[d]
  BY <1>1 DEF IdsAfterPush
<1>3. \A d \in CmdIDs : d # c /\ listeners[d] # 0 => listeners[d] # listeners[c]
  BY DEF ListenersAsked
<1>4. ASSUME NEW x \in Waiting' PROVE x \in Waiting \ {listeners[c]}
  BY <1>2, <1>3 DEF Waiting
<1>5. ASSUME NEW x \in Waiting, x # listeners[c] PROVE x \in Waiting'
  <2>1. PICK d \in CmdIDs : ids[d] = "unknown" /\ x = listeners[d] /\ x # 0
    BY DEF Waiting
  <2> QED
    BY <1>2, <1>5, <2>1 DEF Waiting
<1> QED
  BY <1>2, <1>4, <1>5 DEF Waiting

(* The environment has a result, or news of a child: the request, and the  *)
(* one that listens, are due in the next task.                             *)
LEMMA ResultSteps ==
    ASSUME TypeOK, HandledInOrder, RequestInvariant, NEW c \in CmdIDs,
           (\E ok \in BOOLEAN : Resolve(c, ok)) \/ ChildStarted(c) \/ ChildStartFailed(c)
    PROVE  /\ RequestInvariant'
           /\ UNCHANGED <<canceller, settled, asked, issued>> /\ Heads' = Heads /\ Heard' = Heard
           /\ pending' \subseteq pending /\ Due \subseteq Due'
           /\ pending \subseteq pending' \cup Due' /\ Waiting \subseteq Waiting' \cup Due'
<1>1. /\ OneOwner /\ AskedOnce /\ ListenersAsked /\ KnownChildren
      /\ callbacks \in Seq(Result) /\ listeners \in [CmdIDs -> 0 .. MaxCmds]
      /\ Distinct(callbacks)
  BY OwnersApart DEF RequestInvariant, TypeOK, HostTypeOK
<1>2. /\ UNCHANGED <<canceller, settled, asked, issued, listeners, pipeline, reply, delivered, mq>>
  BY DEF Resolve, ChildStarted, ChildStartFailed, registryVars, requestVars, workerVars
<1>3. Heads' = Heads
  BY <1>2 DEF Heads
<1>4. AnsweredOnce' /\ Heard' = Heard
  BY <1>1, <1>2, HeardStays, OwnersApart DEF Conversation
<1>5. ASSUME NEW x \in CmdIDs, NEW ok \in BOOLEAN, x \notin Due,
             callbacks' = Append(callbacks, [id |-> x, ok |-> ok])
      PROVE  Distinct(callbacks)' /\ Due' = Due \cup {x}
  <2> DEFINE r == [id |-> x, ok |-> ok]
  <2>1. r \in Result /\ r.id = x
    BY ResultType
  <2>2. callbacks' = Append(callbacks, r)
    BY <1>5
  <2> HIDE DEF r
  <2>3. x \notin {callbacks[i].id : i \in 1 .. Len(callbacks)}
    BY <1>5 DEF Due
  <2>4. /\ Distinct(Append(callbacks, r))
        /\ {Append(callbacks, r)[i].id : i \in 1 .. Len(Append(callbacks, r))}
             = {callbacks[i].id : i \in 1 .. Len(callbacks)} \cup {r.id}
    BY <1>1, <2>1, <2>3, DueGrows
  <2> QED
    BY <2>1, <2>2, <2>4 DEF Due, Distinct
<1>6. ASSUME NEW ok \in BOOLEAN, Resolve(c, ok)
      PROVE  /\ RequestInvariant' /\ pending' \subseteq pending /\ Due \subseteq Due'
             /\ pending \subseteq pending' \cup Due' /\ Waiting \subseteq Waiting' \cup Due'
  <2>1. c \in pending /\ c \notin unstarted /\ pending' = pending \ {c}
    BY <1>6 DEF Resolve
  <2>2. UNCHANGED <<ids, unstarted>>
    BY <1>6 DEF Resolve, registryVars
  <2>3. c \notin Due
    BY <1>1, <2>1, OwnersApart
  <2>4. Distinct(callbacks)' /\ Due' = Due \cup {c}
    BY <1>5, <1>6, <2>3 DEF Resolve, AddCallback
  <2>5. AskedOnce' /\ ListenersAsked' /\ Waiting' = Waiting
    BY <1>1, <1>2, <1>3, <2>2, RegistryStays
  <2>6. OneOwner'
    BY <1>1, <1>2, <1>3, <1>4, <2>1, <2>4, <2>5, OwnersApart, OwnersMove
  <2>7. KnownChildren'
    BY <1>1, <1>2, <1>3, <2>1, <2>2 DEF KnownChildren
  <2> QED
    BY <2>1, <2>4, <2>5, <2>6, <2>7 DEF RequestInvariant
<1>7. ASSUME c \in unstarted
      PROVE  /\ c \in pending /\ ids[c] = "unknown" /\ c \notin Due /\ c \notin Heads /\ c \notin Waiting
             /\ c <= Len(issued)
             /\ listeners[c] # 0 => listeners[c] \in CmdIDs /\ listeners[c] \in Waiting
                                   /\ listeners[c] # c /\ listeners[c] \notin Due
  <2>1. c \in pending /\ ids[c] = "unknown"
    BY <1>1, <1>7 DEF KnownChildren
  <2>2. c \notin Due /\ c \notin Heads /\ c \notin Waiting /\ c \in 1 .. Len(issued)
    BY <1>1, <2>1, OwnersApart
  <2>3. ASSUME listeners[c] # 0 PROVE listeners[c] \in CmdIDs /\ listeners[c] \in Waiting
    <3>1. listeners[c] \in CmdIDs
      BY <1>1, <2>3, BoundsAssumption DEF CmdIDs
    <3> QED
      BY <2>1, <2>3, <3>1 DEF Waiting
  <2>4. Waiting \cap Due = {}
    BY <1>1, OwnersApart
  <2> QED
    BY <2>1, <2>2, <2>3, <2>4
<1>8. ASSUME ChildStarted(c)
      PROVE  /\ RequestInvariant' /\ pending' \subseteq pending /\ Due \subseteq Due'
             /\ pending \subseteq pending' \cup Due' /\ Waiting \subseteq Waiting' \cup Due'
  <2>1. /\ c \in unstarted /\ unstarted' = unstarted \ {c} /\ pending' = pending
        /\ ids' = IdsAfterPush(ids, c, "ok")
    BY <1>8 DEF ChildStarted
  <2>2. /\ Waiting' = Waiting \ {listeners[c]}
        /\ ids'[c] # "unknown" /\ \A d \in CmdIDs : d # c => ids'[d] = ids[d]
    BY <1>1, <1>2, <1>7, <2>1, ChildKnown
  <2>3. /\ Distinct(callbacks)'
        /\ listeners[c] = 0 => Due' = Due
        /\ listeners[c] # 0 => Due' = Due \cup {listeners[c]}
    <3>1. CASE listeners[c] # 0
      <4>1. callbacks' = Append(callbacks, [id |-> listeners[c], ok |-> TRUE])
        BY <1>8, <3>1, Zenon DEF ChildStarted, PushCalls, AddCallback
      <4>2. TRUE \in BOOLEAN
        OBVIOUS
      <4> QED
        BY <1>5, <1>7, <2>1, <3>1, <4>1, <4>2
    <3>2. CASE listeners[c] = 0
      <4>1. callbacks' = callbacks
        BY <1>8, <3>2, Zenon DEF ChildStarted, PushCalls
      <4> QED
        BY <1>1, <3>2, <4>1 DEF Due, Distinct
    <3> QED
      BY <3>1, <3>2
  <2>4. AskedOnce' /\ ListenersAsked'
    BY <1>1, <1>2, <1>3 DEF AskedOnce, ListenersAsked, IssuedAs
  <2>5. OneOwner'
    BY <1>1, <1>2, <1>3, <1>4, <1>7, <2>1, <2>2, <2>3, OwnersApart, OwnersMove
  <2>6. KnownChildren'
    BY <1>1, <1>2, <1>3, <1>7, <2>1, <2>2 DEF KnownChildren
  <2>7. 0 \notin Waiting
    BY DEF Waiting
  <2> QED
    BY <1>7, <2>1, <2>2, <2>3, <2>4, <2>5, <2>6, <2>7 DEF RequestInvariant
<1>9. ASSUME ChildStartFailed(c)
      PROVE  /\ RequestInvariant' /\ pending' \subseteq pending /\ Due \subseteq Due'
             /\ pending \subseteq pending' \cup Due' /\ Waiting \subseteq Waiting' \cup Due'
  <2>1. /\ c \in unstarted /\ unstarted' = unstarted \ {c} /\ pending' = pending \ {c}
        /\ ids' = IdsAfterPush(ids, c, "err")
    BY <1>9 DEF ChildStartFailed
  <2>2. /\ Waiting' = Waiting \ {listeners[c]}
        /\ ids'[c] # "unknown" /\ \A d \in CmdIDs : d # c => ids'[d] = ids[d]
    BY <1>1, <1>2, <1>7, <2>1, ChildKnown
  <2>3. /\ Distinct(callbacks)'
        /\ listeners[c] = 0 => Due' = Due \cup {c}
        /\ listeners[c] # 0 => Due' = Due \cup {listeners[c], c}
    <3>0. FALSE \in BOOLEAN
      OBVIOUS
    <3>1. CASE listeners[c] # 0
      <4> DEFINE r == [id |-> listeners[c], ok |-> FALSE]
                 x == [id |-> c, ok |-> FALSE]
                 told == Append(callbacks, r)
      <4>1. callbacks' = Append(told, x)
        BY <1>9, <3>1, Zenon DEF ChildStartFailed, PushCalls
      <4>2. r \in Result /\ r.id = listeners[c] /\ x \in Result /\ x.id = c
        BY <1>7, <2>1, <3>1, ResultType
      <4> HIDE DEF r, x
      <4>3. listeners[c] \notin {callbacks[i].id : i \in 1 .. Len(callbacks)}
        BY <1>7, <2>1, <3>1 DEF Due
      <4>4. Distinct(told) /\ {told[i].id : i \in 1 .. Len(told)} = Due \cup {listeners[c]}
        BY <1>1, <4>2, <4>3, DueGrows DEF Due
      <4>5. told \in Seq(Result)
        BY <1>1, <4>2
      <4> HIDE DEF told
      <4>6. c \notin {told[i].id : i \in 1 .. Len(told)}
        BY <1>7, <2>1, <3>1, <4>4
      <4>7. /\ Distinct(Append(told, x))
            /\ {Append(told, x)[i].id : i \in 1 .. Len(Append(told, x))}
                 = {told[i].id : i \in 1 .. Len(told)} \cup {x.id}
        BY <4>2, <4>4, <4>5, <4>6, DueGrows
      <4>8. Due' = {callbacks'[i].id : i \in 1 .. Len(callbacks')} /\ Distinct(callbacks)' = Distinct(callbacks')
        BY DEF Due, Distinct
      <4> QED
        BY <3>1, <4>1, <4>2, <4>4, <4>7, <4>8
    <3>2. CASE listeners[c] = 0
      <4>1. callbacks' = Append(callbacks, [id |-> c, ok |-> FALSE])
        BY <1>9, <3>2, Zenon DEF ChildStartFailed, PushCalls
      <4> QED
        BY <1>5, <1>7, <2>1, <3>0, <3>2, <4>1
    <3> QED
      BY <3>1, <3>2
  <2>4. AskedOnce' /\ ListenersAsked'
    BY <1>1, <1>2, <1>3 DEF AskedOnce, ListenersAsked, IssuedAs
  <2>5. OneOwner'
    BY <1>1, <1>2, <1>3, <1>4, <1>7, <2>1, <2>2, <2>3, OwnersApart, OwnersMove
  <2>6. KnownChildren'
    BY <1>1, <1>2, <1>3, <1>7, <2>1, <2>2 DEF KnownChildren
  <2>7. 0 \notin Waiting
    BY DEF Waiting
  <2> QED
    BY <1>7, <2>1, <2>2, <2>3, <2>4, <2>5, <2>6, <2>7 DEF RequestInvariant
<1> QED
  BY <1>2, <1>3, <1>4, <1>6, <1>8, <1>9

-----------------------------------------------------------------------------
(* The callbacks of a task.                                                *)

Owners == Heads \cup pending \cup Waiting \cup Due \cup Heard

(* What was due is answered, and can no longer be cancelled.               *)
LEMMA CallbacksMove ==
    ASSUME TypeOK, HandledInOrder, RequestInvariant, RunCallbacks
    PROVE  /\ RequestInvariant' /\ Owners' = Owners
           /\ UNCHANGED <<pending, settled, asked, issued>> /\ canceller' = canceller \ Due
<1>1. /\ OneOwner /\ AskedOnce /\ ListenersAsked /\ KnownChildren
      /\ callbacks \in Seq(Result) /\ Distinct(callbacks) /\ AnsweredOnce /\ Due \cap Heard = {}
  BY OwnersApart DEF RequestInvariant, TypeOK, HostTypeOK
<1>2. UNCHANGED <<pending, unstarted, settled, asked, issued, ids, listeners, pipeline, reply>>
  BY DEF RunCallbacks, registryVars, requestVars, workerVars
<1>3. Heads' = Heads
  BY <1>2 DEF Heads
<1>4. Due' = {} /\ Distinct(callbacks)'
  <2>1. callbacks' = << >>
    BY DEF RunCallbacks, CallbacksLeft
  <2> QED
    BY <2>1 DEF Due, Distinct
<1>5. canceller' = canceller \ Due
  BY DEF RunCallbacks, Discard, Due
<1>6. PICK t \in Seq(AnswerMessage) :
        Says(t) /\ Len(t) = Len(callbacks) /\ \A i \in 1 .. Len(t) : t[i].id = callbacks[i].id
  BY CallbacksSay
<1> DEFINE s == [i \in 1 .. Len(callbacks) |-> callbacks[i].id]
<1>7. Len(s) = Len(t) /\ \A i \in 1 .. Len(t) : s[i] = callbacks[i].id
  BY <1>1, <1>6
<1> HIDE DEF s
<1>8. \A i, j \in 1 .. Len(t) : s[i] = s[j] => i = j
  BY <1>1, <1>6, <1>7 DEF Distinct
<1>9. t \in Seq(Message) /\ Unrepeated(t) /\ AnswerIds(t) = {s[i] : i \in 1 .. Len(t)}
  BY <1>6, <1>7, <1>8, AnswersTo
<1>10. AnswerIds(t) = Due
  BY <1>6, <1>7, <1>9 DEF Due
<1>11. AnsweredOnce' /\ Heard' = Heard \cup Due
  BY <1>1, <1>6, <1>9, <1>10, HeardGrows
<1>12. AskedOnce' /\ ListenersAsked' /\ Waiting' = Waiting
  BY <1>1, <1>2, <1>3, RegistryStays
<1>13. OneOwner'
  BY <1>1, <1>2, <1>3, <1>4, <1>11, <1>12, OwnersApart, OwnersMove
<1>14. KnownChildren'
  BY <1>1, <1>2, <1>3 DEF KnownChildren
<1> QED
  BY <1>2, <1>3, <1>4, <1>5, <1>11, <1>12, <1>13, <1>14 DEF RequestInvariant, Owners

-----------------------------------------------------------------------------
(* The worker's messages.                                                  *)

(* A message asks for a child that was started and not asked for before,   *)
(* or for none.                                                            *)
AsksOnce(m) ==
    /\ m.cmd = "GetChildWorkflowExecution" => m.child # 0
    /\ m.child # 0 => /\ m.child \in 1 .. Len(issued)
                      /\ \A i \in 1 .. Len(issued) : issued[i].child # m.child

(* The worker sends such messages.                                         *)
LEMMA WorkerAsksOnce ==
    ASSUME TypeOK, Worker
    PROVE  \E m \in WorkerMessage : WorkerSends(m) /\ AsksOnce(m)
<1>1. PICK m \in WorkerMessage : WorkerSends(m)
  BY WorkerSendsMessage
<1>2. issued \in Seq(WorkerMessage)
  BY DEF TypeOK, WorkerTypeOK
<1>3. ASSUME NEW x, WorkerSends(x) PROVE x = m
  <2>1. Append(issued, x) = Append(issued, m)
    BY <1>1, <1>3, Zenon DEF WorkerSends
  <2>2. /\ Append(issued, x)[Len(issued) + 1] = x
        /\ Append(issued, m)[Len(issued) + 1] = m
    BY <1>2
  <2> QED
    BY <2>1, <2>2
<1>4. \A k, u, S, f : k # "GetChildWorkflowExecution" => AsksOnce(Sent(k, 0, u, S, f))
  BY DEF AsksOnce, Sent
<1>5. ASSUME NEW c \in IssuedAs({"ExecuteChildWorkflow"}),
             \A i \in 1 .. Len(issued) : issued[i].child # c
      PROVE  AsksOnce(Sent("GetChildWorkflowExecution", c, NoUpdate, {}, FALSE))
  <2>1. c \in 1 .. Len(issued) /\ Len(issued) \in Nat
    BY <1>2 DEF IssuedAs
  <2> QED
    BY <1>5, <2>1 DEF AsksOnce, Sent
<1>6. "GetChildWorkflowExecution" \notin
         Requests \cup Upserts \cup Finishing \cup Fatal \cup {"GetVersion", "SideEffect", "Response"}
  BY DEF Requests, Cancellable, External, Upserts, Finishing, Fatal
<1>7. \/ \E k, u, S, f : k # "GetChildWorkflowExecution" /\ WorkerSends(Sent(k, 0, u, S, f))
      \/ \E c \in IssuedAs({"ExecuteChildWorkflow"}) :
            /\ \A i \in 1 .. Len(issued) : issued[i].child # c
            /\ WorkerSends(Sent("GetChildWorkflowExecution", c, NoUpdate, {}, FALSE))
  <2>1. /\ "Cancel" # "GetChildWorkflowExecution"
        /\ "UpdateValidated" # "GetChildWorkflowExecution"
        /\ "UpdateCompleted" # "GetChildWorkflowExecution"
    OBVIOUS
  <2> QED
    BY <1>6, <2>1, Zenon DEF Worker
<1> QED
  BY <1>1, <1>3, <1>4, <1>5, <1>7, Zenon

(* A message more is on its way to the host, and nobody else has it.       *)
LEMMA WorkerMoves ==
    ASSUME TypeOK, HandledInOrder, RequestInvariant, Worker
    PROVE  /\ RequestInvariant' /\ Owners' = Owners \cup {Len(issued) + 1}
           /\ Len(issued') = Len(issued) + 1 /\ \A c \in 1 .. Len(issued) : issued'[c] = issued[c]
           /\ UNCHANGED <<canceller, callbacks, pending, settled, asked>> /\ pc' = pc
<1>1. PICK m \in WorkerMessage : WorkerSends(m) /\ AsksOnce(m)
  BY WorkerAsksOnce
<1> DEFINE n == Len(issued) + 1
<1>2. /\ HandledInOrder' /\ n \notin Heads /\ Heads' = Heads \cup {n}
      /\ Len(issued') = n /\ issued'[n] = m /\ \A c \in 1 .. Len(issued) : issued'[c] = issued[c]
      /\ Heads \subseteq 1 .. Len(issued)
  BY <1>1, SendLast
<1>3. Len(issued) \in Nat /\ issued \in Seq(WorkerMessage)
  BY DEF TypeOK, WorkerTypeOK
<1>4. UNCHANGED <<canceller, callbacks, ids, listeners, pending, unstarted, settled, asked,
                  mq, delivered, pc>>
  BY <1>1, Zenon DEF WorkerSends, registryVars, requestVars
<1>5. OneOwner /\ AskedOnce /\ ListenersAsked /\ KnownChildren
  BY DEF RequestInvariant
<1>6. Waiting' = Waiting /\ Due' = Due /\ Distinct(callbacks)' = Distinct(callbacks)
  BY <1>4 DEF Waiting, Due, Distinct
<1>7. AnsweredOnce' /\ Heard' = Heard
  BY <1>4, <1>5, HeardStays, OwnersApart DEF Conversation
<1>8. /\ Heads \subseteq 1 .. Len(issued) /\ Waiting \subseteq 1 .. Len(issued)
      /\ pending \cup Due \cup Heard \subseteq 1 .. Len(issued)
  BY <1>5, OwnersIssued, OwnersApart
<1>9. n \notin pending \cup Waiting \cup Due \cup Heard /\ 1 .. Len(issued) \subseteq 1 .. Len(issued')
  BY <1>2, <1>3, <1>8
<1>10. OneOwner'
  <2>1. Answered' = Due' \cup Heard' /\ AnswerIds(Conversation)' = Heard'
    BY DEF Answered, Heard
  <2>2. /\ Distinct(callbacks)
        /\ Heads \cap (pending \cup Waiting \cup Due \cup Heard) = {}
        /\ pending \cap (Waiting \cup Due \cup Heard) = {}
        /\ Waiting \cap (Due \cup Heard) = {}
        /\ Due \cap Heard = {}
    BY <1>5, OwnersApart
  <2>3. /\ Heads' \cap (pending' \cup Waiting' \cup Answered') = {}
        /\ pending' \cap (Waiting' \cup Answered') = {}
        /\ Waiting' \cap Answered' = {}
        /\ Due' \cap AnswerIds(Conversation)' = {}
        /\ pending' \cup Answered' \subseteq 1 .. Len(issued')
    BY <1>2, <1>4, <1>6, <1>7, <1>8, <1>9, <2>1, <2>2
  <2>4. \A i, j \in 1 .. Len(callbacks') : callbacks'[i].id = callbacks'[j].id => i = j
    BY <1>6, <2>2 DEF Distinct
  <2> QED
    BY <1>7, <2>3, <2>4 DEF OneOwner
<1>11. \A g \in 1 .. Len(issued') : g = n \/ g \in 1 .. Len(issued)
  BY <1>2, <1>3
<1>12. \A g \in 1 .. Len(issued) : g < n /\ g # n
  BY <1>3
<1>13. AskedOnce'
  <2>1. \A g \in 1 .. Len(issued) : issued[g].cmd = "GetChildWorkflowExecution" => issued[g].child # 0
    BY <1>5 DEF AskedOnce, IssuedAs
  <2>2. ASSUME NEW g \in IssuedAs({"GetChildWorkflowExecution"})' PROVE issued'[g].child # 0
    <3>1. g \in 1 .. Len(issued') /\ issued'[g].cmd = "GetChildWorkflowExecution"
      BY DEF IssuedAs
    <3> QED
      BY <1>1, <1>2, <1>11, <2>1, <3>1 DEF AsksOnce
  <2>3. ASSUME NEW g \in 1 .. Len(issued'), issued'[g].child # 0
        PROVE  /\ issued'[g].child < g
               /\ \A h \in 1 .. Len(issued') : issued'[h].child = issued'[g].child => h = g
    <3>1. CASE g = n
      <4>1. m.child # 0 /\ m.child \in 1 .. Len(issued) /\ \A i \in 1 .. Len(issued) : issued[i].child # m.child
        BY <1>1, <1>2, <2>3, <3>1 DEF AsksOnce
      <4> QED
        BY <1>2, <1>11, <1>12, <3>1, <4>1
    <3>2. CASE g \in 1 .. Len(issued)
      <4>1. /\ issued[g].child < g
            /\ \A h \in 1 .. Len(issued) : issued[h].child = issued[g].child => h = g
        BY <1>2, <1>5, <2>3, <3>2 DEF AskedOnce
      <4>2. issued'[n].child # issued[g].child
        BY <1>1, <1>2, <2>3, <3>2 DEF AsksOnce
      <4> QED
        BY <1>2, <1>11, <3>2, <4>1, <4>2
    <3> QED
      BY <1>11, <3>1, <3>2
  <2> QED
    BY <2>2, <2>3 DEF AskedOnce
<1>14. ListenersAsked'
  <2> SUFFICES ASSUME NEW c \in CmdIDs, listeners[c] # 0
               PROVE  /\ listeners[c] \in 1 .. Len(issued')
                      /\ issued'[listeners[c]].child = c
                      /\ \A h \in Heads' : listeners[c] < h
    BY <1>4 DEF ListenersAsked
  <2>1. /\ listeners[c] \in 1 .. Len(issued) /\ issued[listeners[c]].child = c
        /\ \A h \in Heads : listeners[c] < h
    BY <1>5 DEF ListenersAsked
  <2> QED
    BY <1>2, <1>9, <1>12, <2>1
<1>15. KnownChildren'
  <2>1. \A c \in CmdIDs : c \in Nat
    BY DEF CmdIDs
  <2> QED
    BY <1>2, <1>3, <1>4, <1>5, <2>1 DEF KnownChildren
<1> QED
  BY <1>2, <1>4, <1>6, <1>7, <1>10, <1>13, <1>14, <1>15 DEF RequestInvariant, Owners
-----------------------------------------------------------------------------
(* The message at the head of the pipeline changes its owner.              *)

(* The message `id' leaves the pipeline; nothing new is due.               *)
Leaves(id) == id \in Heads /\ Heads' = Heads \ {id} /\ UNCHANGED <<callbacks, issued, delivered>>

(* It is answered at once.                                                 *)
LEMMA AnswerMoves ==
    ASSUME TypeOK, HandledInOrder, RequestInvariant, NEW id \in CmdIDs, Leaves(id),
           UNCHANGED <<ids, listeners, pending, unstarted>>, NEW ok \in BOOLEAN,
           mq' = Append(mq, Answer(id, ok, NoUpdate))
    PROVE  RequestInvariant' /\ Owners' = Owners /\ Due' = Due
<1>1. /\ OneOwner /\ AskedOnce /\ ListenersAsked /\ KnownChildren
      /\ id \in Heads /\ Heads' = Heads \ {id} /\ UNCHANGED <<callbacks, issued, delivered>>
  BY DEF RequestInvariant, Leaves
<1>2. AnsweredOnce /\ id \notin pending \cup Waiting \cup Due \cup Heard
  BY <1>1, OwnersApart
<1>3. AnsweredOnce' /\ Heard' = Heard \cup {id}
  BY <1>1, <1>2, HeardOne
<1>4. AskedOnce' /\ ListenersAsked' /\ Waiting' = Waiting
  BY <1>1, RegistryStays
<1>5. Due' = Due /\ Distinct(callbacks)'
  BY <1>1, OwnersApart DEF Due, Distinct
<1>6. OneOwner'
  BY <1>1, <1>2, <1>3, <1>4, <1>5, OwnersApart, OwnersMove
<1>7. KnownChildren'
  BY <1>1 DEF KnownChildren
<1> QED
  BY <1>1, <1>3, <1>4, <1>5, <1>6, <1>7 DEF RequestInvariant, Owners

(* The environment takes it, and answers later; a child has not started.   *)
LEMMA PendingMoves ==
    ASSUME TypeOK, HandledInOrder, RequestInvariant, NEW id \in CmdIDs, Leaves(id),
           UNCHANGED <<ids, listeners, mq>>, pending' = pending \cup {id},
           unstarted' = unstarted \/ unstarted' = unstarted \cup {id}
    PROVE  RequestInvariant' /\ Owners' = Owners /\ Due' = Due
<1>1. /\ OneOwner /\ AskedOnce /\ ListenersAsked /\ KnownChildren
      /\ id \in Heads /\ Heads' = Heads \ {id} /\ UNCHANGED <<callbacks, issued, delivered>>
  BY DEF RequestInvariant, Leaves
<1>2. AnsweredOnce /\ id \notin pending \cup Waiting \cup Due \cup Heard
  BY <1>1, OwnersApart
<1>3. AnsweredOnce' /\ Heard' = Heard
  BY <1>1, <1>2, HeardStays DEF Conversation
<1>4. AskedOnce' /\ ListenersAsked' /\ Waiting' = Waiting
  BY <1>1, RegistryStays
<1>5. Due' = Due /\ Distinct(callbacks)'
  BY <1>1, OwnersApart DEF Due, Distinct
<1>6. OneOwner'
  BY <1>1, <1>2, <1>3, <1>4, <1>5, OwnersApart, OwnersMove
<1>7. KnownChildren'
  BY <1>1 DEF KnownChildren
<1> QED
  BY <1>1, <1>3, <1>4, <1>5, <1>6, <1>7 DEF RequestInvariant, Owners

(* It asks for nothing.                                                    *)
LEMMA SilentMoves ==
    ASSUME TypeOK, HandledInOrder, RequestInvariant, NEW id \in CmdIDs, Leaves(id),
           UNCHANGED <<ids, listeners, mq, pending, unstarted>>
    PROVE  RequestInvariant' /\ Owners \ {id} \subseteq Owners' /\ Due' = Due
<1>1. /\ OneOwner /\ AskedOnce /\ ListenersAsked /\ KnownChildren
      /\ id \in Heads /\ Heads' = Heads \ {id} /\ UNCHANGED <<callbacks, issued, delivered>>
  BY DEF RequestInvariant, Leaves
<1>2. AnsweredOnce' /\ Heard' = Heard
  BY <1>1, OwnersApart, HeardStays DEF Conversation
<1>3. AskedOnce' /\ ListenersAsked' /\ Waiting' = Waiting
  BY <1>1, RegistryStays
<1>4. Due' = Due /\ Distinct(callbacks)'
  BY <1>1, OwnersApart DEF Due, Distinct
<1>5. OneOwner'
  BY <1>1, <1>2, <1>3, <1>4, OwnersApart, OwnersMove
<1>6. KnownChildren'
  BY <1>1 DEF KnownChildren
<1> QED
  BY <1>1, <1>2, <1>3, <1>4, <1>5, <1>6 DEF RequestInvariant, Owners

(* A child that is still to be handled has no listener: it was asked for   *)
(* by a later message.                                                     *)
LEMMA NoEarlyListener ==
    ASSUME TypeOK, HandledInOrder, AskedOnce, ListenersAsked, NEW id \in CmdIDs, id \in Heads
    PROVE  listeners[id] = 0
<1> SUFFICES ASSUME listeners[id] # 0 PROVE FALSE
  OBVIOUS
<1> DEFINE g == listeners[id]
<1>1. g \in 1 .. Len(issued) /\ issued[g].child = id /\ g < id
  BY DEF ListenersAsked
<1>2. id # 0 /\ id \in Nat /\ g \in Nat
  BY <1>1 DEF CmdIDs, TypeOK, WorkerTypeOK
<1>3. issued[g].child < g
  BY <1>1, <1>2 DEF AskedOnce
<1> QED
  BY <1>1, <1>2, <1>3

(* A child the environment refuses is known at once, and answered.         *)
LEMMA RefusedChildMoves ==
    ASSUME TypeOK, HandledInOrder, RequestInvariant, NEW id \in CmdIDs, Leaves(id),
           UNCHANGED <<listeners, pending, unstarted>>, ids' = IdsAfterPush(ids, id, "err"),
           mq' = PushError(mq, id, NoUpdate)
    PROVE  RequestInvariant' /\ Owners' = Owners /\ Due' = Due
<1>1. /\ OneOwner /\ AskedOnce /\ ListenersAsked /\ KnownChildren
      /\ id \in Heads /\ Heads' = Heads \ {id} /\ UNCHANGED <<callbacks, issued, delivered>>
  BY DEF RequestInvariant, Leaves
<1>2. AnsweredOnce /\ id \notin pending \cup Waiting \cup Due \cup Heard
  BY <1>1, OwnersApart
<1>3. AnsweredOnce' /\ Heard' = Heard \cup {id}
  <2>1. mq' = Append(mq, Answer(id, FALSE, NoUpdate)) /\ FALSE \in BOOLEAN
    BY DEF PushError
  <2> QED
    BY <1>1, <1>2, <2>1, HeardOne
<1>4. ids[id] = "unknown" /\ listeners[id] = 0
  BY <1>1, NoEarlyListener DEF KnownChildren
<1>5. /\ Waiting' = Waiting \ {0}
      /\ ids'[id] # "unknown" /\ \A d \in CmdIDs : d # id => ids'[d] = ids[d]
  <2>1. /\ Waiting' = Waiting \ {listeners[id]}
        /\ ids'[id] # "unknown" /\ \A d \in CmdIDs : d # id => ids'[d] = ids[d]
    BY <1>1, <1>4, ChildKnown
  <2> QED
    BY <1>4, <2>1
<1>6. Waiting' = Waiting
  BY <1>5 DEF Waiting
<1>7. AskedOnce' /\ ListenersAsked'
  BY <1>1 DEF AskedOnce, ListenersAsked, IssuedAs
<1>8. Due' = Due /\ Distinct(callbacks)'
  BY <1>1, OwnersApart DEF Due, Distinct
<1>9. OneOwner'
  BY <1>1, <1>2, <1>3, <1>6, <1>8, OwnersApart, OwnersMove
<1>10. KnownChildren'
  <2>1. id <= Len(issued) /\ id \notin unstarted
    <3>1. Heads \subseteq 1 .. Len(issued) /\ Len(issued) \in Nat
      BY <1>1, OwnersIssued DEF TypeOK, WorkerTypeOK
    <3> QED
      BY <1>1, <1>2, <3>1 DEF KnownChildren
  <2> QED
    BY <1>1, <1>5, <2>1 DEF KnownChildren
<1> QED
  BY <1>1, <1>3, <1>6, <1>7, <1>8, <1>9, <1>10 DEF RequestInvariant, Owners

(* Listen: the request is answered when the child is known, and waits for  *)
(* it when it is not; it replaces nobody.                                  *)
LEMMA ListenMoves ==
    ASSUME TypeOK, HandledInOrder, RequestInvariant, NEW id \in CmdIDs, Leaves(id),
           HandleGetChildWorkflowExecution(id)
    PROVE  RequestInvariant' /\ Owners' = Owners /\ Due' = Due
<1> DEFINE child == issued[id].child
<1>1. /\ OneOwner /\ AskedOnce /\ ListenersAsked /\ KnownChildren
      /\ id \in Heads /\ Heads' = Heads \ {id} /\ UNCHANGED <<callbacks, issued, delivered>>
      /\ listeners \in [CmdIDs -> 0 .. MaxCmds]
  BY DEF RequestInvariant, Leaves, TypeOK, HostTypeOK
<1>2. /\ UNCHANGED <<ids, pending, unstarted>>
      /\ listeners' = [listeners EXCEPT ![child] = id]
  BY Zenon DEF HandleGetChildWorkflowExecution, requestVars, ListenersAfterListen
<1>3. AnsweredOnce /\ id \notin pending \cup Waiting \cup Due \cup Heard
  BY <1>1, OwnersApart
<1>4. Heads \subseteq 1 .. Len(issued) /\ Len(issued) \in Nat /\ Len(issued) <= MaxCmds
      /\ Heads \subseteq Nat /\ id # 0
  BY <1>1, OwnersIssued DEF TypeOK, WorkerTypeOK, CmdIDs
<1>5. child # 0 /\ id \in 1 .. Len(issued) /\ issued[id] \in WorkerMessage
  BY <1>1 DEF HandleGetChildWorkflowExecution, Handling, IssuedAs, AskedOnce, TypeOK, WorkerTypeOK
<1>6. /\ child \in CmdIDs /\ child < id
      /\ \A h \in 1 .. Len(issued) : issued[h].child = child => h = id
  <2>1. child < id /\ \A h \in 1 .. Len(issued) : issued[h].child = child => h = id
    BY <1>1, <1>5 DEF AskedOnce
  <2>2. child \in 0 .. MaxCmds
    BY <1>5 DEF WorkerMessage
  <2> QED
    BY <1>5, <2>1, <2>2, BoundsAssumption DEF CmdIDs
<1>7. listeners[child] = 0
  <2> SUFFICES ASSUME listeners[child] # 0 PROVE FALSE
    OBVIOUS
  <2> HIDE DEF child
  <2>1. /\ listeners[child] \in 1 .. Len(issued) /\ issued[listeners[child]].child = child
        /\ \A h \in Heads : listeners[child] < h
    BY <1>1, <1>6 DEF ListenersAsked
  <2>2. listeners[child] = id /\ id \in Nat
    BY <1>1, <1>4, <1>6, <2>1
  <2> QED
    BY <1>1, <2>1, <2>2
<1>8. listeners'[child] = id /\ \A d \in CmdIDs : d # child => listeners'[d] = listeners[d]
  BY <1>1, <1>2, <1>6
<1> HIDE DEF child
<1>9. Due' = Due /\ Distinct(callbacks)'
  BY <1>1, OwnersApart DEF Due, Distinct
<1>10. AskedOnce'
  BY <1>1 DEF AskedOnce, IssuedAs
<1>11. ListenersAsked'
  <2> SUFFICES ASSUME NEW c \in CmdIDs, listeners'[c] # 0
               PROVE  /\ listeners'[c] \in 1 .. Len(issued)
                      /\ issued[listeners'[c]].child = c
                      /\ \A h \in Heads' : listeners'[c] < h
    BY <1>1 DEF ListenersAsked
  <2>1. CASE c = child
    <3>1. \A h \in Heads : id <= h
      BY HandleFacts DEF HandleMessage
    <3>2. ASSUME NEW h \in Heads' PROVE id < h
      <4>1. h \in Heads /\ h # id /\ h \in Nat /\ id \in Nat
        BY <1>1, <1>4
      <4> QED
        BY <3>1, <4>1
    <3> QED
      BY <1>5, <1>8, <2>1, <3>2 DEF child
  <2>2. CASE c # child
    BY <1>1, <1>8, <2>2 DEF ListenersAsked
  <2> QED
    BY <2>1, <2>2
<1>12. KnownChildren'
  BY <1>1, <1>2 DEF KnownChildren
<1>13. CASE ids[child] = "unknown"
  <2>1. mq' = mq
    BY <1>13, Zenon DEF HandleGetChildWorkflowExecution, ListenCalls, child
  <2>2. AnsweredOnce' /\ Heard' = Heard
    BY <1>1, <1>3, <2>1, HeardStays DEF Conversation
  <2>3. Waiting' = Waiting \cup {id}
    <3>1. ASSUME NEW x \in Waiting' PROVE x \in Waiting \cup {id}
      BY <1>2, <1>8 DEF Waiting
    <3>2. ASSUME NEW x \in Waiting PROVE x \in Waiting'
      <4>1. PICK d \in CmdIDs : ids[d] = "unknown" /\ x = listeners[d] /\ x # 0
        BY DEF Waiting
      <4> QED
        BY <1>2, <1>7, <1>8, <4>1 DEF Waiting
    <3>3. id \in Waiting'
      BY <1>2, <1>4, <1>6, <1>8, <1>13 DEF Waiting
    <3> QED
      BY <3>1, <3>2, <3>3
  <2>4. OneOwner'
    BY <1>1, <1>2, <1>3, <1>9, <2>2, <2>3, OwnersApart, OwnersMove
  <2> QED
    BY <1>1, <1>2, <1>9, <1>10, <1>11, <1>12, <2>2, <2>3, <2>4 DEF RequestInvariant, Owners
<1>14. CASE ids[child] # "unknown"
  <2>1. mq' = Append(mq, Answer(id, ids[child] = "ok", NoUpdate))
    BY <1>14, Zenon DEF HandleGetChildWorkflowExecution, ListenCalls, child
  <2>2. AnsweredOnce' /\ Heard' = Heard \cup {id}
    <3> DEFINE ok == ids[child] = "ok"
    <3>1. ok \in BOOLEAN
      OBVIOUS
    <3>2. mq' = Append(mq, Answer(id, ok, NoUpdate))
      BY <2>1
    <3> HIDE DEF ok
    <3> QED
      BY <1>1, <1>3, <3>1, <3>2, HeardOne
  <2>3. Waiting' = Waiting
    BY <1>2, <1>8, <1>14 DEF Waiting
  <2>4. OneOwner'
    BY <1>1, <1>2, <1>3, <1>9, <2>2, <2>3, OwnersApart, OwnersMove
  <2> QED
    BY <1>1, <1>2, <1>9, <1>10, <1>11, <1>12, <2>2, <2>3, <2>4 DEF RequestInvariant, Owners
<1> QED
  BY <1>13, <1>14
(* Cancel: the requests that end at once are answered, and no longer the   *)
(* environment's; then the Cancel itself is.                               *)
LEMMA CancelMoves ==
    ASSUME TypeOK, HandledInOrder, RequestInvariant, NEW id \in CmdIDs, Leaves(id), HandleCancel(id)
    PROVE  /\ RequestInvariant' /\ Owners' = Owners /\ Due' = Due
           /\ pending' \subseteq pending /\ pending \ issued[id].cmds \subseteq pending'
<1>1. /\ OneOwner /\ AskedOnce /\ ListenersAsked /\ KnownChildren
      /\ id \in Heads /\ Heads' = Heads \ {id} /\ UNCHANGED <<callbacks, issued, delivered>>
  BY DEF RequestInvariant, Leaves
<1>2. UNCHANGED <<ids, listeners, unstarted>>
  BY DEF HandleCancel, registryVars
<1>3. /\ AnsweredOnce /\ id \notin pending \cup Waiting \cup Due \cup Heard
      /\ pending \cap (Waiting \cup Due \cup Heard) = {}
  BY <1>1, OwnersApart
<1> DEFINE S == Cancelled(canceller, issued[id].cmds) \cap (pending \ unstarted)
<1>4. PICK now \in Orders(S), t \in Seq(AnswerMessage) :
        /\ pending' = pending \ {now[i] : i \in 1 .. Len(now)}
        /\ now \in Seq(CmdIDs) /\ Len(t) = Len(now)
        /\ \A i \in 1 .. Len(now) : t[i].id = now[i]
        /\ Says(Append(t, Answer(id, TRUE, NoUpdate)))
  BY CancelSays
<1> DEFINE gone == {now[i] : i \in 1 .. Len(now)}
           last == Answer(id, TRUE, NoUpdate)
<1>5. S \in SUBSET CmdIDs /\ S \subseteq pending \ unstarted /\ S \subseteq issued[id].cmds
  BY DEF Cancelled, TypeOK, EnvTypeOK
<1>6. now \in Seq(S) /\ \A i, j \in 1 .. Len(now) : now[i] = now[j] => i = j
  <2>1. now \in Seq(S)
    BY <1>5, OrdersAreSequences, Zenon
  <2>2. \A i, j \in DOMAIN now : now[i] = now[j] => i = j
    BY DEF Orders
  <2> QED
    BY <1>4, <2>1, <2>2
<1>7. gone \subseteq S
  BY <1>6
<1>8. last \in AnswerMessage /\ last.id = id
  <2>1. id \in Nat /\ TRUE \in BOOLEAN
    BY DEF CmdIDs
  <2> QED
    BY <2>1, AnswerIsAnswer, Zenon
<1> HIDE DEF last, S
<1> DEFINE r == Append(t, last)
           s == Append(now, id)
<1>9. r \in Seq(AnswerMessage) /\ Says(r)
  <2>1. Append(t, last) \in Seq(AnswerMessage)
    BY <1>4, <1>8
  <2>2. Says(Append(t, last))
    BY <1>4, Zenon DEF last
  <2> QED
    BY <2>1, <2>2
<1>10. /\ Len(now) \in Nat /\ Len(r) = Len(now) + 1 /\ Len(s) = Len(r)
       /\ \A i \in 1 .. Len(now) : s[i] = now[i] /\ r[i] = t[i]
       /\ s[Len(now) + 1] = id /\ r[Len(now) + 1] = last
  BY <1>4, <1>8
<1> HIDE DEF r, s
<1>11. \A i \in 1 .. Len(r) : i = Len(now) + 1 \/ i \in 1 .. Len(now)
  BY <1>10
<1>12. \A i \in 1 .. Len(r) : r[i].id = s[i]
  BY <1>4, <1>8, <1>10, <1>11
<1>13. \A i \in 1 .. Len(now) : now[i] # id
  BY <1>3, <1>5, <1>7
<1>14. \A i, j \in 1 .. Len(r) : s[i] = s[j] => i = j
  BY <1>6, <1>10, <1>11, <1>13
<1>15. r \in Seq(Message) /\ Unrepeated(r) /\ AnswerIds(r) = {s[i] : i \in 1 .. Len(r)}
  BY <1>9, <1>10, <1>12, <1>14, AnswersTo
<1>16. {s[i] : i \in 1 .. Len(r)} = gone \cup {id}
  <2>1. Len(now) + 1 \in 1 .. Len(r) /\ 1 .. Len(now) \subseteq 1 .. Len(r)
    BY <1>10
  <2> QED
    BY <1>10, <1>11, <2>1
<1> HIDE DEF gone
<1>17. AnsweredOnce' /\ Heard' = Heard \cup gone \cup {id}
  <2>1. Heard \cap AnswerIds(r) = {}
    BY <1>3, <1>5, <1>7, <1>15, <1>16
  <2>2. AnsweredOnce' /\ Heard' = Heard \cup AnswerIds(r)
    BY <1>3, <1>9, <1>15, <2>1, HeardGrows
  <2> QED
    BY <1>15, <1>16, <2>2
<1>18. AskedOnce' /\ ListenersAsked' /\ Waiting' = Waiting
  BY <1>1, <1>2, RegistryStays
<1>19. Due' = Due /\ Distinct(callbacks)'
  BY <1>1, OwnersApart DEF Due, Distinct
<1>20. pending' = pending \ gone /\ gone \subseteq pending \ unstarted /\ gone \subseteq issued[id].cmds
  BY <1>4, <1>5, <1>7 DEF gone
<1>21. OneOwner'
  BY <1>1, <1>3, <1>17, <1>18, <1>19, <1>20, OwnersApart, OwnersMove
<1>22. KnownChildren'
  BY <1>1, <1>2, <1>20 DEF KnownChildren
<1> QED
  BY <1>1, <1>17, <1>18, <1>19, <1>20, <1>21, <1>22 DEF RequestInvariant, Owners

-----------------------------------------------------------------------------
(* RequestInvariant, the owners and the canceller together.                *)

Asking == Requests \cup {"GetChildWorkflowExecution"}

(* What CancellerTracksPending says, also of an execution that is over.    *)
Tracked ==
    /\ \A c \in pending : issued[c].cmd \in Cancellable => c \in canceller \cup asked
    /\ canceller \subseteq pending \cup settled \cup Due

(* Handling a message gives it its one owner; a request gets one.          *)
LEMMA HandleMoves ==
    ASSUME TypeOK, HandledInOrder, RequestInvariant, Tracked, NEW id \in CmdIDs, HandleMessage(id)
    PROVE  /\ RequestInvariant' /\ Tracked'
           /\ pc' # "panicked" => /\ Owners \ {id} \subseteq Owners'
                                  /\ issued[id].cmd \in Asking => Owners \subseteq Owners'
<1> DEFINE Goal == /\ RequestInvariant' /\ Tracked'
                   /\ pc' # "panicked" => /\ Owners \ {id} \subseteq Owners'
                                          /\ issued[id].cmd \in Asking => Owners \subseteq Owners'
<1>1. /\ id \in 1 .. Len(issued) /\ id \in Heads
      /\ UNCHANGED <<callbacks, issued, delivered>>
      /\ \/ Heads' = Heads \ {id}
         \/ /\ pc' = "panicked" /\ Heads' \subseteq Heads
            /\ UNCHANGED Owned /\ mq' = mq
  BY HandleFacts
<1>2. id \notin pending /\ AnsweredOnce
  BY <1>1, OwnersApart DEF RequestInvariant
<1>3. CASE /\ pc' = "panicked" /\ Heads' \subseteq Heads
           /\ UNCHANGED Owned /\ mq' = mq
  <2>1. AnsweredOnce' /\ Heard' = Heard
    BY <1>1, <1>2, <1>3, HeardStays DEF Conversation
  <2>2. RequestInvariant' /\ Due' = Due
    BY <1>3, <2>1, OwnersStay
  <2> QED
    BY <1>3, <2>2 DEF Owned, Tracked
<1>4. CASE Heads' = Heads \ {id}
  <2>1. Leaves(id)
    BY <1>1, <1>4 DEF Leaves
  <2>2. ASSUME NEW ok \in BOOLEAN, mq' = Append(mq, Answer(id, ok, NoUpdate)),
               UNCHANGED <<ids, listeners, pending, unstarted>>
        PROVE  RequestInvariant' /\ Owners' = Owners /\ Due' = Due
    BY <2>1, <2>2, AnswerMoves
  <2>3. TRUE \in BOOLEAN /\ FALSE \in BOOLEAN
    OBVIOUS
  <2>4. CASE HandleRequest(id)
    <3>1. /\ UNCHANGED <<ids, listeners, unstarted, asked>>
          /\ canceller' = canceller \/ canceller' = canceller \cup {id}
          /\ issued[id].cmd \in Cancellable => canceller' = canceller \cup {id}
      BY <2>4 DEF HandleRequest, registryVars, Register
    <3>2. CASE pending' = pending \cup {id} /\ mq' = mq /\ settled' = settled
      <4>1. RequestInvariant' /\ Owners' = Owners /\ Due' = Due
        BY <2>1, <3>1, <3>2, PendingMoves
      <4> QED
        BY <1>1, <3>1, <3>2, <4>1 DEF Tracked
    <3>3. ASSUME pending' = pending, settled' = settled \cup {id}, NEW ok \in BOOLEAN,
                 mq' = Append(mq, Answer(id, ok, NoUpdate))
          PROVE  Goal
      <4>1. RequestInvariant' /\ Owners' = Owners /\ Due' = Due
        BY <2>2, <3>1, <3>3
      <4> QED
        BY <1>1, <3>1, <3>3, <4>1 DEF Tracked
    <3> QED
      BY <2>4, <3>2, <3>3 DEF HandleRequest, Takes
  <2>5. CASE HandleExecuteChildWorkflow(id)
    <3>1. UNCHANGED <<listeners, asked>> /\ canceller' = canceller \cup {id}
      BY <2>5 DEF HandleExecuteChildWorkflow, Register
    <3>2. CASE /\ pending' = pending \cup {id} /\ unstarted' = unstarted \cup {id}
               /\ UNCHANGED <<mq, ids, settled>>
      <4>1. RequestInvariant' /\ Owners' = Owners /\ Due' = Due
        BY <2>1, <3>1, <3>2, PendingMoves
      <4> QED
        BY <1>1, <3>1, <3>2, <4>1 DEF Tracked
    <3>3. CASE /\ settled' = settled \cup {id} /\ ids' = IdsAfterPush(ids, id, "err")
               /\ mq' = PushError(mq, id, NoUpdate) /\ UNCHANGED <<pending, unstarted>>
      <4>1. RequestInvariant' /\ Owners' = Owners /\ Due' = Due
        BY <2>1, <3>1, <3>3, RefusedChildMoves
      <4> QED
        BY <1>1, <3>1, <3>3, <4>1 DEF Tracked
    <3> QED
      BY <2>5, <3>2, <3>3 DEF HandleExecuteChildWorkflow
  <2>6. CASE HandleGetChildWorkflowExecution(id)
    <3>1. RequestInvariant' /\ Owners' = Owners /\ Due' = Due
      BY <2>1, <2>6, ListenMoves
    <3>2. UNCHANGED <<pending, settled, asked>> /\ (canceller' = canceller \/ canceller' = canceller \ {id})
      BY <2>6 DEF HandleGetChildWorkflowExecution, requestVars, Discard
    <3> QED
      BY <1>1, <1>2, <3>1, <3>2 DEF Tracked
  <2>7. CASE HandleGetVersion(id) \/ HandleSideEffect(id) \/ HandleFinishing(id)
    <3>1. /\ UNCHANGED <<ids, listeners, pending, unstarted, settled, asked>>
          /\ canceller' = canceller \/ canceller' = canceller \ {id}
      BY <2>7 DEF HandleGetVersion, HandleSideEffect, HandleFinishing, registryVars, requestVars, Discard
    <3>2. issued[id].cmd \notin Asking
      BY <2>7 DEF HandleGetVersion, HandleSideEffect, HandleFinishing, Handling, IssuedAs,
           Asking, Requests, Cancellable, External, Finishing
    <3>3. \/ mq' = Append(mq, Answer(id, TRUE, NoUpdate))
          \/ mq' = Append(mq, Answer(id, FALSE, NoUpdate))
          \/ mq' = mq
      BY <2>7 DEF HandleGetVersion, HandleSideEffect, HandleFinishing, PushResponse, PushError
    <3>4. RequestInvariant' /\ Owners \ {id} \subseteq Owners' /\ Due' = Due
      BY <2>1, <2>2, <2>3, <3>1, <3>3, SilentMoves
    <3> QED
      BY <1>1, <1>2, <3>1, <3>2, <3>4 DEF Tracked
  <2>8. CASE HandleCancel(id)
    <3>1. /\ RequestInvariant' /\ Owners' = Owners /\ Due' = Due
          /\ pending' \subseteq pending /\ pending \ issued[id].cmds \subseteq pending'
      BY <2>1, <2>8, CancelMoves
    <3>2. /\ settled' = settled /\ asked' = asked \cup (issued[id].cmds \cap canceller)
          /\ canceller' = canceller \ issued[id].cmds
      BY <2>8 DEF HandleCancel, Cancelled, CancelRemaining
    <3> QED
      BY <1>1, <3>1, <3>2 DEF Tracked
  <2>9. CASE HandleUpdateValidated(id) \/ HandleUpdateCompleted(id) \/ HandleUnanswered(id)
    <3>1. UNCHANGED <<ids, listeners, pending, unstarted, settled, asked, canceller, mq>>
      BY <2>9 DEF HandleUpdateValidated, HandleUpdateCompleted, HandleUnanswered, registryVars, requestVars
    <3>2. issued[id].cmd \notin Asking
      BY <2>9 DEF HandleUpdateValidated, HandleUpdateCompleted, HandleUnanswered, Handling, IssuedAs,
           Asking, Requests, Cancellable, External, Upserts, Fatal
    <3>3. RequestInvariant' /\ Owners \ {id} \subseteq Owners' /\ Due' = Due
      BY <2>1, <3>1, SilentMoves
    <3> QED
      BY <1>1, <3>1, <3>2, <3>3 DEF Tracked
  <2> QED
    BY <2>4, <2>5, <2>6, <2>7, <2>8, <2>9 DEF HandleMessage
<1> QED
  BY <1>1, <1>3, <1>4

(* Every step keeps the owners, until the execution is over.               *)
LEMMA RequestStep ==
    ASSUME TypeOK, HandledInOrder, RequestInvariant, Tracked, NoRequestForgotten, [Next]_vars
    PROVE  RequestInvariant' /\ Tracked' /\ NoRequestForgotten'
<1> DEFINE Goal == RequestInvariant' /\ Tracked' /\ NoRequestForgotten'
           Live == pc \notin {"panicked", "closed"}
<1>1. Live' => Live
  BY OverStays
<1>2. \A c \in IssuedAs(Asking) : Live => c \in Owners
  BY DEF NoRequestForgotten, Owners, Answered, Heard, Asking
<1>3. (\A c \in IssuedAs(Asking)' : Live' => c \in Owners') => NoRequestForgotten'
  BY DEF NoRequestForgotten, Owners, Answered, Heard, Asking
<1>4. ASSUME issued' = issued PROVE IssuedAs(Asking)' = IssuedAs(Asking)
  BY <1>4 DEF IssuedAs
<1>5. AnsweredOnce
  BY OwnersApart DEF RequestInvariant
<1>6. CASE Plain
  <2>1. UNCHANGED Owned /\ Heads' = Heads /\ AnsweredOnce' /\ Heard' = Heard
    BY <1>5, <1>6, PlainSteps
  <2>2. RequestInvariant' /\ Waiting' = Waiting /\ Due' = Due
    BY <2>1, OwnersStay
  <2> QED
    BY <1>1, <1>2, <1>3, <1>4, <2>1, <2>2 DEF Owned, Owners, Tracked
<1>7. CASE ExecFails \/ Close
  <2>1. /\ UNCHANGED Owned /\ Heads' \subseteq Heads /\ pc' \in {"panicked", "closed"}
        /\ AnsweredOnce' /\ Heard' \subseteq Heard
    BY <1>5, <1>7, Dropping
  <2>2. RequestInvariant' /\ Waiting' = Waiting /\ Due' = Due
    BY <2>1, OwnersStay
  <2> QED
    BY <2>1, <2>2 DEF Owned, Tracked, NoRequestForgotten
<1>8. ASSUME NEW c \in CmdIDs,
             (\E ok \in BOOLEAN : Resolve(c, ok)) \/ ChildStarted(c) \/ ChildStartFailed(c)
      PROVE  Goal
  <2>1. /\ RequestInvariant'
        /\ UNCHANGED <<canceller, settled, asked, issued>> /\ Heads' = Heads /\ Heard' = Heard
        /\ pending' \subseteq pending /\ Due \subseteq Due'
        /\ pending \subseteq pending' \cup Due' /\ Waiting \subseteq Waiting' \cup Due'
    BY <1>8, ResultSteps
  <2>2. Owners \subseteq Owners'
    BY <2>1 DEF Owners
  <2>3. Tracked'
    BY <2>1 DEF Tracked
  <2> QED
    BY <1>1, <1>2, <1>3, <1>4, <2>1, <2>2, <2>3
<1>9. CASE RunCallbacks
  <2>1. /\ RequestInvariant' /\ Owners' = Owners
        /\ UNCHANGED <<pending, settled, asked, issued>> /\ canceller' = canceller \ Due
    BY <1>9, CallbacksMove
  <2>2. pending \cap Due = {}
    BY OwnersApart DEF RequestInvariant
  <2>3. Tracked'
    BY <2>1, <2>2 DEF Tracked
  <2> QED
    BY <1>1, <1>2, <1>3, <1>4, <2>1, <2>3
<1>10. CASE Worker
  <2>1. /\ RequestInvariant' /\ Owners' = Owners \cup {Len(issued) + 1}
        /\ Len(issued') = Len(issued) + 1 /\ \A c \in 1 .. Len(issued) : issued'[c] = issued[c]
        /\ UNCHANGED <<canceller, callbacks, pending, settled, asked>> /\ pc' = pc
    BY <1>10, WorkerMoves
  <2>2. Len(issued) \in Nat /\ pending \subseteq 1 .. Len(issued)
    BY OwnersApart DEF RequestInvariant, TypeOK, WorkerTypeOK
  <2>3. Due' = Due
    BY <2>1 DEF Due
  <2>4. Tracked'
    BY <2>1, <2>2, <2>3 DEF Tracked
  <2>5. ASSUME NEW c \in IssuedAs(Asking)', Live' PROVE c \in Owners'
    <3>1. c \in 1 .. Len(issued') /\ issued'[c].cmd \in Asking
      BY DEF IssuedAs
    <3>2. c = Len(issued) + 1 \/ c \in 1 .. Len(issued)
      BY <2>1, <2>2, <3>1
    <3>3. c \in 1 .. Len(issued) => c \in IssuedAs(Asking)
      BY <2>1, <3>1 DEF IssuedAs
    <3> QED
      BY <1>1, <1>2, <2>1, <2>5, <3>2, <3>3
  <2> QED
    BY <1>3, <2>1, <2>4, <2>5
<1>11. ASSUME NEW id \in CmdIDs, HandleMessage(id) PROVE Goal
  <2>1. /\ RequestInvariant' /\ Tracked'
        /\ pc' # "panicked" => /\ Owners \ {id} \subseteq Owners'
                               /\ issued[id].cmd \in Asking => Owners \subseteq Owners'
    BY <1>11, HandleMoves
  <2>2. issued' = issued
    BY <1>11, HandleFacts
  <2>3. \A c \in IssuedAs(Asking) : issued[c].cmd \in Asking
    BY DEF IssuedAs
  <2>4. ASSUME NEW c \in IssuedAs(Asking)', Live' PROVE c \in Owners'
    BY <1>1, <1>2, <1>4, <2>1, <2>2, <2>3, <2>4
  <2> QED
    BY <1>3, <2>1, <2>4
<1> QED
  BY <1>6, <1>7, <1>8, <1>9, <1>10, <1>11 DEF Next, Task, Events, Plain, Closed

(* Nobody owns a request before the first task.                            *)
LEMMA RequestsInit == Init => RequestInvariant /\ Tracked /\ NoRequestForgotten
<1> SUFFICES ASSUME Init PROVE RequestInvariant /\ Tracked /\ NoRequestForgotten
  OBVIOUS
<1>1. Conversation = << >>
  BY DEF Init, Conversation
<1>2. Heads = {} /\ Due = {} /\ Heard = {} /\ Waiting = {} /\ AnsweredOnce /\ Distinct(callbacks)
  BY <1>1 DEF Init, Heads, Due, Heard, Waiting, AnsweredOnce, Unrepeated, AnswerIds, Distinct
<1>3. OneOwner
  BY <1>2, OwnersApart DEF Init
<1>4. AskedOnce /\ ListenersAsked /\ KnownChildren
  BY DEF Init, AskedOnce, ListenersAsked, KnownChildren, IssuedAs
<1> QED
  BY <1>2, <1>3, <1>4 DEF RequestInvariant, Tracked, NoRequestForgotten, IssuedAs, Init

(* The induction behind the theorems.                                      *)
LEMMA RequestsKept == Spec => [](RequestInvariant /\ Tracked /\ NoRequestForgotten)
<1>1. Init => RequestInvariant /\ Tracked /\ NoRequestForgotten
  BY RequestsInit
<1>2. ASSUME TypeOK, UpdateInvariant, RequestInvariant, Tracked, NoRequestForgotten, [Next]_vars
      PROVE  (RequestInvariant /\ Tracked /\ NoRequestForgotten)'
  BY <1>2, RequestStep DEF UpdateInvariant
<1> QED
  BY <1>1, <1>2, TypeCorrect, UpdatesKeptInOrder, PTL DEF Spec

(* Each request of the worker has one owner at a time, whatever results,   *)
(* synchronous answers, children, cancels and failed exchanges come        *)
(* (createCallback, handleMessage, the registry's Listen and Push).        *)
THEOREM RequestsHaveOneOwner == Spec => []RequestInvariant
  BY RequestsKept, PTL

(* So no request is answered twice, not even by a late result of one that  *)
(* was cancelled or answered inside the call.                              *)
THEOREM AnswersNotRepeated == Spec => []AnsweredOnce
<1>1. RequestInvariant => AnsweredOnce
  BY DEF RequestInvariant, OneOwner
<1> QED
  BY <1>1, RequestsHaveOneOwner, PTL

(* A request that handleMessage has taken is never dropped: somebody owes  *)
(* its answer, or the worker has it, until the execution panics or closes. *)
THEOREM RequestsNotForgotten == Spec => []NoRequestForgotten
  BY RequestsKept, PTL

(* A Cancel of the worker finds every running request: Register, Discard   *)
(* and the removal in Cancel keep the canceller's keys at the requests     *)
(* that are running, or whose end it has not yet been told.                *)
THEOREM CancelFindsPending == Spec => []CancellerTracksPending
<1>1. Tracked => CancellerTracksPending
  BY DEF Tracked, CancellerTracksPending
<1> QED
  BY <1>1, RequestsKept, PTL
=============================================================================
