# A TLA+ verification of roadrunner-temporal

RoadRunner's Temporal plugin lets workflows and activities written in PHP run on
the Temporal Go SDK.  The plugin registers one generic workflow definition with
the SDK; every call the SDK makes on it is turned into messages for a PHP
process, and every command the PHP process sends back is turned into a call into
the SDK.  The project models that translation, the activities and the RPC service
beside it and the life of the plugin around them, checks them with TLC on small
instances, and proves the central results with TLAPS for every value of the
constants.

## 1. Inventory

| Part | State | Operations | What makes it hard |
|---|---|---|---|
| Workflow process (`aggregatedpool/workflow.go`, `handler.go`) | message queue, pipeline of the worker's commands, callbacks waiting for the next task, canceller, child registry, update queue and callbacks, `inLoop` | `Execute`, `handleSignal`, `handleCancel`, `handleUpdate`, `handleQuery`, result callbacks, `OnWorkflowTaskStarted`, `handleMessage`, `flushQueue`, `Close` | results come between tasks or inside a call; a side effect flushes from inside a handler; an exchange fails halfway; the worker repeats itself |
| Message queue (`queue/queue.go`) | a slice | push command, response, error; flush | what a failed exchange leaves behind |
| Canceller (`canceller/canceller.go`) | map of closures | `Register`, `Discard`, `Cancel` | `Register` runs after a callback that may already have run |
| Child id registry (`registry/registry.go`) | known executions, listeners | `Listen`, `Push` | either order; a child that cannot start |
| Plugin (`plugin.go`, `internal.go`) | two pools, a generation of Temporal workers, the pid of the workflow worker, client, mutex, event and stop channels | `Serve`, event goroutine, `Reset`, `ResetAP`, `Stop` | all of them race; each may fail midway; the workflow worker dies at any time |
| Worker info (`info.go`, `aggregatedpool/workers.go`) | none | ask the worker what to register, make Temporal workers | a failing exchange |
| Activities (`aggregatedpool/activity.go`, `local_activity.go`) | map of running activities | `execute`, `ExecuteLA`, `GetActivityContext` | heartbeats race with the end of the attempt, with resets and with `Serve`; an attempt fails before it reaches the pool |
| RPC (`rpc.go`) | the API key, files it writes | heartbeats, names, download, three replays, API key | calls before the client is dialed, during a reset, and on one file at a time |
| Status, workers manager (`status.go`, `workers_manager.go`) | none | `Status`, `Ready`, `AddWorker`, `RemoveWorker` | they read pools that may be nil; one waits with the mutex read-locked |
| Codec, command protocol (`internal/codec/proto`, `internal/protocol.go`) | none | frames, names of commands, typed search attributes | a batch half decoded; values that do not survive JSON |
| Data converter | none | proxies payloads | an argument that stays nil |
| Config, TLS, metrics, interceptor, logger | configuration | set-up | nothing that a model reaches |

Interaction.  The SDK calls a workflow definition from one goroutine at a time.
It applies history events (signals, cancellation, updates, results) between two
workflow tasks, then calls `OnWorkflowTaskStarted`.  That call runs the waiting
callbacks, hands over the updates, exchanges the queue with the PHP worker, and
works off the reply; a handler may exchange again and so lengthen the pipeline.
All executions share one PHP process, the workflow worker, which holds their
state in memory.  When it dies the pool replaces it and announces the pid on an
event bus; the plugin then stops its Temporal workers, purges the SDK's sticky
cache, and starts a new generation.

An activity is a goroutine of the SDK that stores its context under its task
token and hands a payload to the activity pool.  The PHP worker that gets it
calls back through RPC to record heartbeats, and learns of a cancellation or a
pause from the answer.  Heartbeats, health checks and the workers manager take
the plugin's mutex for reading; `Serve`, `Reset`, `ResetAP` and `Stop` take it for
writing, and hold it while they allocate, dial, and wait for busy workers.

The hazards of this code, each at its line, and the properties that would catch
it, are in `PROJECT.json`.

## 2. Modules

| Module | Models | Lines that correspond |
|---|---|---|
| `MessageQueue`, `Canceller`, `IDRegistry` | the three data structures, as operators on a sequence, a set and two functions | the whole of each Go file |
| `WorkflowProcess` | one execution: host, environment (SDK) and PHP worker; extends the three above | `workflow.go`, `handler.go` |
| `UpdateProtocol` | abstract: the order in which `bindings.UpdateCallbacks` may be called | external |
| `PluginLifecycle` | `Serve`, event goroutine, RPC reset and `Stop` under the mutex | `plugin.go`, `internal.go` |
| `Codec` | frames, messages, names of commands, as operators | `internal/codec/proto/proto.go`, `internal/protocol.go` |
| `ActivityPool` | attempts of activities and local activities, heartbeats, resets, workers manager, health checks; extends `Codec` | `activity.go`, `local_activity.go`, `rpc.go`, `status.go`, `workers_manager.go`, `plugin.go` (`ResetAP`) |
| `Wire` | worker info and typed search attributes on their way to the worker and back; extends `Codec` | `info.go`, `workflow.go`, `handler.go` |
| `ReplayService` | the other RPC calls beside `Serve` and resets | `rpc.go`, `internal.go` |
| `MCWorkflowProcess`, `MCPluginLifecycle`, `MCActivityPool`, `MCWire`, `MCReplayService` | small instances | |
| `WorkflowProcess_proofs`, `WorkflowUpdates_proofs`, `WorkflowTasks_proofs`, `WorkflowRequests_proofs` | theorems about one execution: its types; the update protocol; what tasks hand over and in which order; the worker's requests | |
| `PluginLifecycle_proofs`, `ActivityPool_proofs`, `ReplayService_proofs`, `Wire_proofs` | theorems about the other components | |

### WorkflowProcess

The first ten variables are the fields of the Go type (`callbacks` is
`wp.callbacks`, `validateCb` the keys of `wp.updateValidateCb`, and so on); `pc`
says where the goroutine is, and stands for `inLoop` too, which is 1 exactly in
the places `InLoop`.  The next group is what the SDK keeps; the last what the PHP
worker has sent and received.  A message of the worker is identified by its
position in `issued`; `pipeline` and `reply` are sequences of such ids.

One action per handler or step: `Execute`, `handleSignal`, `handleCancel`,
`handleUpdate`; `Resolve`, `ChildStarted`, `ChildStartFailed` for the callbacks
of `createCallback` outside the loop; `TaskStarted`, `RunCallbacks`,
`HandleQueuedUpdates`, `FlushTask` and `EndTask` for `OnWorkflowTaskStarted`;
`ExecReturns` and `ExecFails` for the end of an exchange; one `Handle...` action
per case, or group of cases that treat the state alike, of `handleMessage`; and
`Close`.  A task is split at the points where the worker runs, because the worker
composes its reply there, step by step.

The environment may answer a request inside the call (`SyncKinds`: a timer of no
length, a request it refuses), later, or inside the closure that cancels it.  The
worker is well behaved in what it names (fresh ids, requests and updates that
exist) and in asking once for a child; it completes an update only after it
accepted it, and refuses nothing during a replay, as the PHP SDK does.  It may
repeat a verdict or a completion, complete what it also refused, leave an update
id out, or send an error, an undefined response or an unknown command.

Left out: payloads, headers and parameters (passed on), the sequence numbers of
host commands, search-attribute values (an upsert is accepted or fails), metrics,
logs, and queries and stack traces, which exchange a message of their own and
change nothing in the host.

### PluginLifecycle

`pc` gives each thread (`serve`, the event goroutine `loop`, `stop`, RPC callers)
its place, `mu` the holder of `p.mu`.  `assigned`, `held`, `wwPID`, `client`,
`stopCh` are the fields of the plugin; `actPool`, `wfPool`, `ww`, `bus`,
`running` and `cached` are outside it.  A Temporal worker is a pair of generation
and number, so that workers nobody refers to any more stay visible.  `broken`
holds generations whose start failed midway.  `Unlock` is that of Go's
`sync.RWMutex`: it does not know its owner, and of a free mutex it is fatal
(`crashed`), which matters for the second unlock in `Stop`.

`Serve` and `Reset` ask the workflow pool twice for its workers, for their number
(`CheckAllocated`) and for the pid of the first (`ReadPID`).  A worker that dies in
between makes the second a panic, as does a reset through the nil pool of a `Serve`
that has not succeeded; a panic ends the process like the fatal unlock (`Alive`).

The pools, the bus and the SDK's workers are external.  A worker that dies is
replaced first and announced second; a destroyed pool lists nobody.  `p.events` has
room for one event (`plugin.go:140`), and what the bus does with a second one while
the goroutine is busy in a reset is not to be seen in the repository.  So `Publish`
allows both: such an event waits, or it is lost, which `dropped` records.

### ActivityPool

`stage` is where each attempt is inside `execute` or how it ended, `running` the
keys of `Activity.running` (a task token is new for each attempt, so the attempt
stands for it), `ctx` its context.  `heartbeat` is where the RPC of its worker is:
`called`, `checked` (after `getActDef`), `found` (after `GetActivityContext`),
`compared` (after the look at `context.Cause`), or its answer.  The goroutine of a
heartbeat lives on when the worker that sent it is killed (`Orphaned`).  The mutex
is that of Go: a waiting writer (`waiting`) keeps new readers out; sections that
only read and do not block are one action under `CanRLock`; `RemoveWorker`, which
blocks, is two.  `Serve` is under way initially, with Temporal workers that poll
already: that is how `initPool` orders it (`internal.go:98-113`).

Two ways for an attempt to end leave its context in the map, and the model has
both, as the stages `unsent` and `panic`: a message that cannot be encoded (`activity.go:104`), and an append to nil
arguments (`activity.go:93`), which happens when an activity without input is
retried after a heartbeat with details, because the data converter leaves the
argument nil.

The replies of a worker are a small set with one member for each way the code
treats them; they go through `Decode` of `Codec`.

### Wire and Codec

A message is a record, a body a frame of messages, nothing, or bytes that are no
frame.  `Decode` returns the messages before the first that does not parse
together with the error, as the code does.  `KnownNames` and `Named` are the two
switches of `protocol.go`.

`ToEntry` and `FromEntry` are the two switches over the types of search
attributes, in `Execute` and in `handleMessage`.  What is between them is modelled
by what it does to a value: a JSON number is read as a float64 (`Double`, rounding
to even beyond `MaxExact`, which stands for 2^53), a time is formatted without its
fraction, a list without words becomes a nil slice, which JSON writes as null.

### ReplayService

Each RPC call is a goroutine with a place `pc`.  A history is the number of its
events, the file of the callers' save path the length of the history written at
its beginning and the length of all it holds, so that a write over something
longer is seen.  `os.Create`, the request for the history, each event of its
iteration and the write are separate steps, as are the two looks at the definition
and the replay.  `upto` is how long the history was when it was asked for, `hist`
how much of it the call has; `sole` names the download that no other has overlapped
since it opened the file.  A call that uses the client before it
is dialed ends the process (`crashed`).

## 3. Runs

| Run | Distinct states | Shows |
|---|---|---|
| `Requests` | 1 159 308 | every request is answered at most once and none is forgotten; the workflow's start and its signals reach the worker in order, each once; a task hands over everything before it handles a message; the canceller covers what is running |
| `Children` | 2 130 880 | the same for child workflows, whose start, failure, result and cancel race with the request for their execution; the inductive invariant `RequestInvariant` |
| `Updates` | 620 024 | no update is stranded or overtaken; an accepted one can be completed; the process refines `UpdateProtocol`; the inductive invariant `UpdateInvariant` |
| `TaskLiveness` | 143 263 | results and updates reach the worker |
| `Lifecycle` | 128 414 | one generation polls; critical sections exclude each other, in spite of the early and double unlock of `Stop`; none polls after `Stop`; the cache is fresh when all is quiet; `Stop` and the goroutine end; stale executions are purged or the failure is reported; freshness and purging hold unless the bus lost the event of the very pid that is watched for |
| `Activities` | 86 628 | the running map is exactly the attempts under way and those that broke off before `Exec`; a living worker is never told it is unknown; probes never meet the nil pools of a `Serve` under way; resets end, heartbeats are answered, and a worker learns that its activity was canceled or paused |
| `Wire` | 29 979 | every typed attribute survives the way to the worker and back with its type, and with its value unless it is one of three kinds named below; a bad reply or a bad time changes nothing |
| `Replays` | 86 511 | what is answered OK is the whole history, never the part before an error; a download that no other has overlapped leaves a file that parses; calls are answered; only calls before the dial are fatal |
| `KnownChild` | violation | see below |
| `DrainedUpdates` | violation | see below |
| `EarlyDeath` | violation | see below |
| `InterruptedServe` | violation | see below |

Bounds.  Three messages of the worker in batches of two are what it takes for a
request, its cancel, and a side effect whose reply overtakes the rest of the
batch; four for two children and their executions.  Three updates of two names
have two that must stay in order and one that may overtake them; the same run has
side effects, whose reply joins a pipeline that is being worked off.  Two signals
have an order.  Two deaths of the workflow worker let the second fall into the
reset for the first; two Temporal workers let a start fail midway; one RPC caller
and the event goroutine are two resets.  One activity and one local activity
compete for the one worker the pool starts with; `AddWorker` may make it two; one
reset is enough to wait for a worker that waits for the mutex, and one
`RemoveWorker` at a time to keep it from the mutex (the theorems hold for any
number of activities, resets and workers).  Two keys let a good attribute stand
beside a bad one, `MaxExact` = 8 leaves integers on both sides of it and both ways
of rounding; two replies let what was set be sent again.  Two calls on one file
and a history of two lengths let a write meet a longer file.  Each run picks the kinds of message that
interact; every action occurs in some run, and of the kinds an action treats
alike at least one does.  There is no symmetry reduction: the
runs are small, and liveness forbids it.

Deadlock is checked for `WorkflowProcess`, where a closed execution stutters
explicitly, and for `ActivityPool`, `Wire` and `ReplayService`.  It is not for
`PluginLifecycle`: a stopped plugin stops.

Fairness.  `FairSpec` of `WorkflowProcess` assumes that the SDK starts a task
after events it has applied, that the host's own steps go on, and that an
exchange ends in a reply or an error (the pool's `Exec` returns when the worker
dies).  Nothing is assumed of events or of eviction.  In `PluginLifecycle` every
goroutine that can go on does; waiting for the mutex needs strong fairness, which
`sync.RWMutex` gives by handing itself over in order; the pool replaces a dead
worker.  Nobody has to call `Reset` or `Stop`.  In `ActivityPool` and
`ReplayService` the same holds of goroutines and of the mutex (a leaving writer of
`sync.RWMutex` lets the waiting readers in first); contexts with a deadline expire
(30 seconds for a reset, a minute for a history); a PHP worker that runs an
activity returns or sends another heartbeat, without which `EndIsTold` could not
hold, since the answer to a heartbeat is the only way it is told.  `Exec`, the
server and the callers owe nothing.

### Where the code departs from what the repository says

* `KnownChild`: a request for the execution of a child that is already known is
  answered inside the task loop, and no flush follows (`handler.go:586`).  The
  answer waits for an event that has nothing to do with it.
* `DrainedUpdates`: "when closing workflow, we should drain(execute) unhandled
  updates" (`workflow.go:364`), but what the drained updates queue is discarded
  at the end of `Close`.
* `EarlyDeath`: a workflow worker that dies between the start of the Temporal
  workers and the subscription in `Serve` is never noticed (`plugin.go:182`).
* `InterruptedServe`: a `Serve` that fails midway leaves pools and Temporal
  workers that `Stop`, which provides for an interrupted `Serve`
  (`plugin.go:260`), cannot reach.

### What else the models show of the code

These are consequences of the code that nothing in the repository contradicts, so
no run states them as a violation:

* A pause that falls between the look at `context.Cause` (`rpc.go:81`) and the
  `select` (`rpc.go:89`) is reported as a cancellation.
* A heartbeat of a worker whose pool is being reset waits for the mutex the reset
  holds while the reset waits for that worker; only the 30 seconds end it, and the
  worker is killed (`plugin.go:321`).
* Replay calls before the client is dialed dereference a nil interface in the
  goroutine of the RPC (`rpc.go:147`); probes after a `Serve` that failed meet nil
  pools (`status.go:22`), and so do resets by RPC (`plugin.go:346`).
* A reset panics when the workflow worker dies between its two looks at the pool
  (`plugin.go:346` and `350`), and so does `Serve` (`internal.go:68` and `74`).
* If the event bus loses events for a full channel, a workflow worker that dies
  while an event waits in `p.events` may go unnoticed until the next reset
  (`plugin.go:140`).  `QuietMeansFresh` and `StaleIsPurged` say that the loss of any
  other event does no harm.
* An activity whose message cannot be encoded, or whose arguments are nil on a retry
  with heartbeat details, stays in the running map (`activity.go:104`, `93`).
* A request answered inside the call keeps its closure in the canceller
  (`handler.go:205`); a `Cancel` that runs it brings no second answer.
* Three kinds of search attribute change when a worker sends them back as it was
  told them: integers beyond 2^53, times with a fraction, and the empty list,
  which becomes a nil one.
* A download empties the file before it fetches, so a failed one destroys the
  older history (`rpc.go:224`); two at once may write over each other.

## 4. Proofs

The assumptions are those the modules name: bounds are naturals, sets that have
to be are disjoint, `Free` is nobody.  All theorems hold for all such values.

### Workflow process

* `TypeCorrect`: `Spec => []TypeOK`.  `TypeOK` is inductive as it stands.  Its
  substance is that ids in the pipeline, the callbacks, the registry and the
  canceller are ids of messages, and that queues only ever hold well-formed
  messages, through every concatenation and every order of synchronous answers.
* `UpdatesKeptInOrder`: `Spec => []UpdateInvariant`.
* `ProtocolImplemented`: `Spec => UpdatesFollowProtocol`, the refinement of
  `UpdateProtocol`.

That the protocol is kept is not inductive.  The dangerous step is
`HandleUpdateCompleted`: it looks only at `completeCb`, which is filled together
with `validateCb`, so a completion handled before the verdict would call
`Complete` on an update that was not accepted.  What prevents it is spread over
the system, and is the invariant's four parts:

1. `HandledInOrder`: ids grow along the pipeline and on into the reply, so the
   worker's messages are handled in the order it sent them, also when a side
   effect appends a second reply or an exchange fails.
2. `CallbacksAtStage`: a validation callback exists only for an update whose
   closure has run and which has no verdict; a completion callback only beside
   it, or after acceptance.
3. `KnowsInvoked`: the worker knows only of updates whose closure has run, and
   completes only what it accepted.
4. `VerdictFirst`: while the validation callback exists, an acceptance the
   worker has sent is still on its way, and ahead of any completion of it.

From 1 and 4 the completion at the head of the pipeline finds no validation
callback of its update (`CompletionAfterVerdict`), so by 2 the update is
accepted.  Part 4 holds until the execution panics, when the pipeline is dropped
and nothing is handled any more (`OverStays`).  Each part has a lemma that every
step keeps it (`OrderStep`, `StageStep`, `KnowsStep`, `VerdictStep`), over lemmas
that say which actions touch which part of the state (`QueueSteps`,
`UpdateSteps`, `MessageSteps`, `DeliveredSteps`).  `ProtocolStep` maps each step
to a step of `UpdateProtocol` or to a stutter.

Tasks (`WorkflowTasks_proofs`): `NoUpdateIsStranded`, `TasksHandOverEverything`,
`SignalsArriveInOrder`, `AcceptedUpdatesCanComplete`, `UpdatesArriveInOrder`.
None of the five is inductive by itself.  `TaskInvariant` says what is left at
each place of a task: no callback once the updates are being handed over, no name
in the queue of names once the exchange begins, nothing but answers in the message
queue once it ends.  `CallbackInvariant` says that an update whose closure ran has
both callbacks until its verdict, and that the messages a worker sent during a
replay refuse nothing.  Without the second half an acceptance that arrives
together with a failure would delete the completion callback
(`handler.go:275`).  `ArrivalInvariant` makes each update arrive once.  The orders
are stated over positions in `Conversation`, what the worker has received followed
by what waits for it, so that a flush changes nothing and a push appends; a failed
exchange, which keeps the queue, is then no special case.

Requests (`WorkflowRequests_proofs`): `RequestsHaveOneOwner`, `AnswersNotRepeated`,
`RequestsNotForgotten`, `CancelFindsPending`.  That nothing is answered twice is
not inductive: a result that is pushed is a second answer if the request was
already answered elsewhere.  `RequestInvariant` therefore accounts for every
request:

1. `OneOwner`: it is on its way to the host, with the environment, with the
   listener of a child, due in the next task, or answered, and only one of them.
2. `AskedOnce`: a child is asked for by one request, which follows the command that
   starts it.
3. `ListenersAsked`: a listener is that request, and older than anything in the
   pipeline; so `Listen` never replaces a listener that waits.
4. `KnownChildren`: a child whose outcome is known has left the pipeline and is not
   one the environment has still to start; so `Push` comes once.

`CancelFindsPending` has one more, `Tracked`: the property itself, also while the
execution is panicked, since a panic leaves the canceller as it is.

### Plugin lifecycle

`LifeTypeCorrect`, `LockHolds`, `OneGenerationPolls` and `StopIsFinal` prove
`TypeOK`, `OnlyStopTearsLock`, `OneGeneration` and `StoppedStaysStopped`.  The
inductive invariant `LifeInvariant` needs more than mutual exclusion, because
`Stop` gives the mutex up while a reset may be waiting for it, and may unlock it
twice:

1. `Counted`: a pool that is up has had a worker, and one that misses its worker has
   a death left (types need it).
2. `Places`: which places each thread can be at; `Serve` is over before `Stop`
   begins, and a reset gets past its first look at the pool only if the pools are
   assigned, which `Stop` destroys.
3. `Exclusive`: until `Stop` unlocks, who is inside holds the mutex; afterwards a
   reset may be inside beside `Stop`, but without a workflow worker it gets no
   further than its first step.
4. `Owned`: a Temporal worker that polls belongs to `p.temporal.workers`, to the
   generation being started, or to a broken one, and while one is being started
   `p.temporal.workers` is nil.
5. `StoppedStaysStopped` itself.

`QuietIsFresh` proves `QuietMeansFresh` for the lifecycles in which no workflow
worker dies before `Serve` has subscribed (`~EarlyDeath`); without that hypothesis
it is false, which is what the run `EarlyDeath` shows.  `FreshInvariant` is the
account of every death:

1. `WatchesOrHears`: while the goroutine may be idle, the pid it watches for is the
   living worker's, or its death is in the events it has still to read, or the
   event was lost (`DeathMissed`), the one exception of the theorem.  A death
   during a reset is covered because the reset looks the pid up after it purged,
   and the event of the new pid can only come later.
2. `NothingMissed`: until `Serve` returns there is nothing to announce.
3. `PurgedFirst`: no execution in the cache is older than the pid that is watched
   for, and between the purge and the look-up nobody polls.

### Activity pool

`PoolTypeCorrect`, `RunningMapExact`, `LivingAlwaysFound` and `ProbesWait`.
`RunningIsInFlight` is an equation: both what is under way is in the map, and what
was handed to the pool leaves it whatever the end.  It is nearly inductive; that a living worker is found needs in
addition `LockInv` (`Serve` holds the mutex exactly while it is under way, so a
definition is missing only after it failed; who removes a worker keeps resets out)
and `NoEarlyHeartbeat` (an attempt that
never had a worker has no heartbeat, so an answer belongs to the attempt).

### RPC service

`CallsTypeCorrect`, `OKMeansWhole`, `DownloadsParse`, and the action property
`LostBeforeDialOnly`.  `CallsInvariant` adds that a served plugin is dialed
(`ServedDialed`), that a call has no answer before it is done (`Unanswered`), that
no call gets past the iteration with less than it asked for (`Fetched`), and that
the file is empty while the only download has it open (`EmptyUntilSaved`), which is
why a write leaves nothing of an older, longer history behind it.

### Wire

`WireTypes`, `AttributesRoundTrip` and the action property `RepliesAllOrNothing`.
`AttrInvariant` says which shapes attributes (`Shaped`) and entries (`Carried`)
keep through both conversions, and that no execution starts with a nil list.  The
lemma `BackAgain` is the round trip of one attribute of any shape, `SetIsShaped`
and `ToldIsCarried` are the two halves of the invariant.  `DecodesWhole` and
`DecodeRefuses` say of batches of any length that `Decode` returns them whole or
fails, wherever the message that cannot be parsed stands.

The loop that collects the words of a list (`Words`) is a recursive function.  What
it computes is proved by induction over a set, `BoundedInduction`, from the
library's theorem that a set of naturals has a least element: first that a
function with the rounds of the loop exists (`RoundsExist`), so that the one `Words`
names has them too (`WordsOfLoop`), then that the list holds only words
(`WordsAreWords`) and is the array itself if that does (`WordsOfWords`).

### Only model-checked

The liveness properties (`ResultsReachWorker`, `UpdatesReachWorker`, `StopEnds`,
`LoopEnds`, `StaleIsPurged`, `ResetsEnd`, `HeartbeatsAnswered`, `EndIsTold`,
`CallsAnswered`) and the four violations.  Liveness needs fairness, and with it
ENABLED, which the prover cannot reach.  Every invariant and every action property
of the passing runs is the subject of a theorem.

## 5. Not modelled, and the plan

Not modelled, each with its reason in `PROJECT.json`: the set-up of metrics,
configuration and TLS, which run once before anything else and keep no state that
changes; the interceptor and the logger, which adapt interfaces; queries and stack
traces, `Workers` and `Collects`, which change nothing in the host; the parameters
of commands, which are copied into the SDK's structures.

Left, in this order:

1. An abstract request/response specification (each request: sent, owed, answered)
   and `WorkflowProcess` shown to implement it; `RequestInvariant` is the invariant
   that proof needs.
2. A composition of `PluginLifecycle` with executions: a reset between two tasks,
   the purge closing them, their replay by a new worker.

## 6. Running it

`tlc -config Requests.cfg MCWorkflowProcess` and likewise for the other
configurations of `PROJECT.json`; `tlapm WorkflowUpdates_proofs.tla` and likewise
for the other modules of proofs.
