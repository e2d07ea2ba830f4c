-------------------------- MODULE PluginLifecycle --------------------------
(***************************************************************************)
(* The plugin itself (src/plugin.go, src/internal.go): Serve builds two    *)
(* pools of PHP workers and a generation of Temporal workers, a goroutine  *)
(* watches for PHP workers that stop and resets the plugin, a user resets  *)
(* it through the resetter's RPC, and Stop tears everything down.          *)
(*                                                                         *)
(* All of them work under the mutex p.mu; what interleaves with a critical *)
(* section are the processes outside: the workflow worker that dies and is *)
(* replaced by its pool, and the Temporal workers, which poll and fill the *)
(* sticky cache with executions that live in the memory of the workflow    *)
(* worker of that moment.                                                  *)
(*                                                                         *)
(* External, modelled from how src/ uses it: the pools (a worker that dies *)
(* is replaced, then its pid is announced; a destroyed pool lists nobody), *)
(* the event bus (a subscriber gets events in order; one that finds the    *)
(* subscriber's channel full may be kept back or lost) and the SDK's       *)
(* workers.                                                                *)
(***************************************************************************)
EXTENDS Naturals, Sequences

CONSTANTS
    Callers,        \* RPC calls of Reset
    NumWorkers,     \* Temporal workers of a generation, one per task queue
    MaxDeaths,      \* bound: deaths of the workflow worker
    MaxActDeaths,   \* bound: deaths of activity workers
    EarlyDeath,     \* may the workflow worker die before Serve subscribes?
    Free            \* nobody holds the mutex

ASSUME CountsAssumption == NumWorkers \in Nat /\ MaxDeaths \in Nat /\ MaxActDeaths \in Nat
ASSUME EarlyAssumption == EarlyDeath \in BOOLEAN
ASSUME CallersAssumption == Callers \cap {"serve", "loop", "stop"} = {}
ASSUME FreeAssumption == Free \notin Callers \cup {"serve", "loop", "stop"}

Resetters == Callers \cup {"loop"}
Threads == Resetters \cup {"serve", "stop"}
Pids == 1 .. MaxDeaths + 1
(* An event is the pid of a stopped worker; 0 is some activity worker.     *)
Activity == 0

VARIABLES
    mu,             \* p.mu: its holder
    pc,             \* where each thread is
    work,           \* the generation a thread is starting
    assigned,       \* p.actP and p.wfP are set
    held,           \* p.temporal.workers: a generation, 0 for nil
    wwPID,          \* p.wwPID
    client,         \* p.temporal.client
    stopCh,         \* messages in p.stopCh
    reported,       \* an error is in the channel Serve returned
    crashed,        \* the runtime found an unlock of an unlocked mutex
    (* Outside. *)
    actPool,        \* the activity pool, ...
    wfPool,         \* ... the workflow pool,
    ww,             \* the pid of the workflow worker, ...
    wwUp,           \* ... which the pool lists
    actDeaths,      \* activity workers that died
    subscribed,     \* the bus passes events on
    bus,            \* events not yet received: the first in p.events
    dropped,        \* events lost, as p.events was full
    generations,    \* generations of Temporal workers made so far
    running,        \* Temporal workers that poll: <<generation, number>>
    broken,         \* generations whose start failed midway
    cached          \* workflow workers with executions in the sticky cache

lockVars == <<mu, crashed>>
poolVars == <<actPool, wfPool>>
wwVars == <<ww, wwUp, actDeaths>>
busVars == <<subscribed, bus, dropped>>
workerVars == <<generations, running, broken, work>>
vars == <<lockVars, poolVars, wwVars, busVars, workerVars, pc, assigned, held, wwPID,
          client, stopCh, reported, cached>>

(* The places of a thread under the mutex, and the others.                 *)
Critical == {"wfPool", "alloc", "pid", "actReset", "info", "start", "signal", "destroy",
             "workers", "tally", "client"}
Locations == Critical \cup {"none", "idle", "called", "reset", "select", "resetAP", "returned",
                            "panicked"}

TypeOK ==
    /\ mu \in Threads \cup {Free}
    /\ pc \in [Threads -> Locations]
    /\ work \in [Threads -> Nat]
    /\ held \in Nat /\ generations \in Nat
    /\ wwPID \in 0 .. MaxDeaths + 1 /\ ww \in 0 .. MaxDeaths + 1
    /\ client \in {"nil", "open", "closed"}
    /\ stopCh \in Nat
    /\ assigned \in BOOLEAN /\ reported \in BOOLEAN /\ crashed \in BOOLEAN
    /\ wwUp \in BOOLEAN /\ subscribed \in BOOLEAN
    /\ actPool \in {"none", "up", "destroyed"} /\ wfPool \in {"none", "up", "destroyed"}
    /\ actDeaths \in 0 .. MaxActDeaths
    /\ bus \in Seq(Pids \cup {Activity})
    /\ dropped \subseteq Pids \cup {Activity}
    /\ running \subseteq Nat \X Nat
    /\ broken \subseteq Nat
    /\ cached \subseteq Pids

Init ==
    /\ mu = Free /\ crashed = FALSE
    /\ pc = [t \in Threads |-> CASE t = "serve" -> "called"
                                 [] t = "loop"  -> "none"
                                 [] OTHER       -> "idle"]
    /\ work = [t \in Threads |-> 0]
    /\ assigned = FALSE /\ held = 0 /\ wwPID = 0 /\ client = "nil"
    /\ stopCh = 0 /\ reported = FALSE
    /\ actPool = "none" /\ wfPool = "none"
    /\ ww = 0 /\ wwUp = FALSE /\ actDeaths = 0
    /\ subscribed = FALSE /\ bus = << >> /\ dropped = {}
    /\ generations = 0 /\ running = {} /\ broken = {}
    /\ cached = {}

-----------------------------------------------------------------------------
(* A fatal error or a panic takes the whole process: nobody recovers.      *)
Alive == ~crashed /\ \A u \in Threads : pc[u] # "panicked"

At(t, place) == Alive /\ pc[t] = place
Goto(t, place) == pc' = [pc EXCEPT ![t] = place]

LockAnyway(t) == mu' = t /\ UNCHANGED crashed
Lock(t) == mu = Free /\ mu' = t /\ UNCHANGED crashed

(* sync.RWMutex does not know its owner: Unlock releases whoever holds it, *)
(* and of a free mutex it is a fatal error.                                *)
Unlock == mu' = Free /\ crashed' = (mu = Free)

(* The Temporal workers left after those of p.temporal.workers stopped.    *)
StopNone(gen) == running
StopHeld(gen) == {w \in running : w[1] # gen}

(* len(p.wfP.Workers()) < 1 fails.                                         *)
AlwaysListed(pool) == TRUE
Listed(pool) == pool = "up" /\ wwUp

(* worker.PurgeStickyWorkflowCache                                         *)
NoPurge(c) == c
Purge(c) == {}

-----------------------------------------------------------------------------
(* Serve and initPool.  An error leaves what was built where it is: the    *)
(* fields are assigned at the very end.                                    *)

ServeFails ==
    /\ reported' = TRUE
    /\ Goto("serve", "returned")

ServeActivityPool ==
    /\ At("serve", "called") /\ mu = Free
    /\ \/ /\ Lock("serve")
          /\ actPool' = "up"
          /\ Goto("serve", "wfPool")
          /\ UNCHANGED reported
       \/ /\ ServeFails
          /\ UNCHANGED <<lockVars, actPool>>
    /\ UNCHANGED <<wfPool, wwVars, busVars, workerVars, assigned, held, wwPID, client,
                   stopCh, cached>>

ServeWorkflowPool ==
    /\ At("serve", "wfPool")
    /\ \/ /\ wfPool' = "up" /\ ww' = 1 /\ wwUp' = TRUE
          /\ Goto("serve", "alloc")
          /\ UNCHANGED <<reported, lockVars>>
       \/ /\ ServeFails /\ Unlock
          /\ UNCHANGED <<wfPool, ww, wwUp>>
    /\ UNCHANGED <<actPool, actDeaths, busVars, workerVars, assigned, held, wwPID, client,
                   stopCh, cached>>

(* A thread gives up: Serve and the goroutine report it, RPC answers it.   *)
GivesUp(t) ==
    /\ Unlock
    /\ reported' = (reported \/ t \notin Callers)
    /\ Goto(t, "returned")

Panics(t) == Goto(t, "panicked") /\ UNCHANGED <<lockVars, reported>>

(* Serve and Reset ask the pool twice for its workers: whether it has one, *)
(* and the pid of the first.  Reset asks through p.wfP, which is nil until *)
(* a Serve has succeeded: a panic, as is the index when the worker died    *)
(* between the two.                                                        *)
HasPool(t) == t = "serve" \/ assigned

CheckAllocated(t) ==
    /\ At(t, "alloc")
    /\ \/ /\ HasPool(t) /\ Listed(wfPool)
          /\ Goto(t, "pid")
          /\ UNCHANGED <<lockVars, reported>>
       \/ HasPool(t) /\ ~Listed(wfPool) /\ GivesUp(t)
       \/ ~HasPool(t) /\ Panics(t)
    /\ UNCHANGED <<poolVars, wwVars, busVars, workerVars, assigned, held, wwPID, client,
                   stopCh, cached>>

(* The pid that will be looked for in the events from now on.              *)
OldPID == wwPID
NextPID == ww + 1
CurrentPID == ww

ReadPID(t) ==
    /\ At(t, "pid")
    /\ \/ /\ Listed(wfPool)
          /\ wwPID' = CurrentPID
          /\ Goto(t, IF t = "serve" THEN "info" ELSE "actReset")
          /\ UNCHANGED <<lockVars, reported>>
       \/ /\ ~Listed(wfPool)
          /\ Panics(t)
          /\ UNCHANGED wwPID
    /\ UNCHANGED <<poolVars, wwVars, busVars, workerVars, assigned, held, client, stopCh,
                   cached>>

(* The workflow worker is asked what to register: only a listed one can    *)
(* answer.                                                                 *)
WorkerInfo == Listed(wfPool)

(* Serve, unlike Reset, then dials Temporal.                               *)
initTemporalClient(t) == client' = IF t = "serve" THEN "open" ELSE client

(* A new generation of Temporal workers, made and not yet started.         *)
TemporalWorkers(t) ==
    /\ generations' = generations + 1
    /\ work' = [work EXCEPT ![t] = generations']

(* The three calls succeed, or one of them fails.                          *)
GetInfo(t) ==
    /\ At(t, "info")
    /\ \/ /\ WorkerInfo
          /\ initTemporalClient(t)
          /\ TemporalWorkers(t)
          /\ Goto(t, "start")
          /\ UNCHANGED <<lockVars, reported>>
       \/ /\ GivesUp(t)
          /\ UNCHANGED <<generations, work, client>>
    /\ UNCHANGED <<poolVars, wwVars, busVars, running, broken, assigned, held, wwPID,
                   stopCh, cached>>

(* Start one more; when it fails those already started keep polling.       *)
StartWorker(t) ==
    /\ At(t, "start")
    /\ \E n \in 1 .. NumWorkers :
         /\ \A k \in 1 .. NumWorkers : <<work[t], k>> \in running <=> k < n
         /\ \/ /\ running' = running \cup {<<work[t], n>>}
               /\ UNCHANGED <<lockVars, reported, pc, broken>>
            \/ /\ GivesUp(t)
               /\ broken' = broken \cup {work[t]}
               /\ UNCHANGED running
    /\ UNCHANGED <<poolVars, wwVars, busVars, generations, work, assigned, held, wwPID,
                   client, stopCh, cached>>

AllStarted(t) ==
    /\ At(t, "start")
    /\ \A k \in 1 .. NumWorkers : <<work[t], k>> \in running

(* The fields are set; subscribe and start the goroutine, or report that   *)
(* subscribing failed.                                                     *)
ServeDone ==
    /\ AllStarted("serve")
    /\ assigned' = TRUE
    /\ held' = work["serve"]
    /\ Unlock
    /\ \/ /\ subscribed' = TRUE
          /\ pc' = [pc EXCEPT !["serve"] = "returned", !["loop"] = "select"]
          /\ UNCHANGED reported
       \/ /\ ServeFails
          /\ UNCHANGED subscribed
    /\ UNCHANGED <<poolVars, wwVars, bus, dropped, workerVars, wwPID, client, stopCh, cached>>

-----------------------------------------------------------------------------
(* Reset, called by the goroutine or through RPC: also before Serve, and   *)
(* after one that failed.                                                  *)

ResetCalled(t) ==
    /\ t \in Callers /\ At(t, "idle")
    /\ Goto(t, "reset")
    /\ UNCHANGED <<lockVars, poolVars, wwVars, busVars, workerVars, assigned, held, wwPID,
                   client, stopCh, reported, cached>>

ResetBegins(t) ==
    /\ At(t, "reset")
    /\ Lock(t)
    /\ running' = StopHeld(held)
    /\ held' = 0
    /\ cached' = Purge(cached)
    /\ Goto(t, "alloc")
    /\ UNCHANGED <<poolVars, wwVars, busVars, generations, broken, work, assigned, wwPID,
                   client, stopCh, reported>>

ResetActivities(t) ==
    /\ At(t, "actReset")
    /\ \/ Goto(t, "info") /\ UNCHANGED <<lockVars, reported>>
       \/ GivesUp(t)
    /\ UNCHANGED <<poolVars, wwVars, busVars, workerVars, assigned, held, wwPID, client,
                   stopCh, cached>>

ResetDone(t) ==
    /\ t \in Resetters
    /\ AllStarted(t)
    /\ held' = work[t]
    /\ Unlock
    /\ Goto(t, IF t = "loop" THEN "select" ELSE "returned")
    /\ UNCHANGED <<poolVars, wwVars, busVars, workerVars, assigned, wwPID, client, stopCh,
                   reported, cached>>

-----------------------------------------------------------------------------
(* The goroutine of Serve.                                                 *)

(* An event is received and its message searched for p.wwPID, without the  *)
(* mutex.  The digits may also be part of another pid: a full reset for    *)
(* nothing.                                                                *)
LoopReceives ==
    /\ At("loop", "select")
    /\ bus # << >>
    /\ bus' = Tail(bus)
    /\ \/ Goto("loop", "reset")
       \/ Head(bus) # wwPID /\ Goto("loop", "resetAP")
    /\ UNCHANGED <<lockVars, poolVars, wwVars, subscribed, dropped, workerVars, assigned, held,
                   wwPID, client, stopCh, reported, cached>>

LoopStops ==
    /\ At("loop", "select")
    /\ stopCh > 0
    /\ stopCh' = stopCh - 1
    /\ Goto("loop", "returned")
    /\ UNCHANGED <<lockVars, poolVars, wwVars, busVars, workerVars, assigned, held, wwPID,
                   client, reported, cached>>

(* ResetAP, under the mutex from the first line to the last.               *)
ResetAP ==
    /\ At("loop", "resetAP")
    /\ mu = Free
    /\ \/ Goto("loop", "select") /\ UNCHANGED reported
       \/ Goto("loop", "returned") /\ reported' = TRUE
    /\ UNCHANGED <<lockVars, poolVars, wwVars, busVars, workerVars, assigned, held, wwPID,
                   client, stopCh, cached>>

-----------------------------------------------------------------------------
(* Stop: its goroutine.  A Stop whose context expires returns earlier and  *)
(* leaves the goroutine running.                                           *)

StopBegins ==
    /\ At("stop", "idle") /\ At("serve", "returned")
    /\ Lock("stop")
    /\ subscribed' = FALSE
    /\ Goto("stop", "signal")
    /\ UNCHANGED <<poolVars, wwVars, bus, dropped, workerVars, assigned, held, wwPID, client,
                   stopCh, reported, cached>>

(* p.stopCh has room for one message; without a buffer the goroutine would *)
(* have to be in its select.                                               *)
Unbuffered == pc["loop"] = "select"
Room == stopCh < 1
NotSent == stopCh
Sent == stopCh + 1

StopSignals ==
    /\ At("stop", "signal")
    /\ Room
    /\ stopCh' = Sent
    /\ Goto("stop", "destroy")
    /\ UNCHANGED <<lockVars, poolVars, wwVars, busVars, workerVars, assigned, held, wwPID,
                   client, reported, cached>>

StopDestroys ==
    /\ At("stop", "destroy")
    /\ IF assigned
         THEN actPool' = "destroyed" /\ wfPool' = "destroyed" /\ wwUp' = FALSE
         ELSE UNCHANGED <<poolVars, wwUp>>
    /\ Goto("stop", "workers")
    /\ UNCHANGED <<lockVars, ww, actDeaths, busVars, workerVars, assigned, held, wwPID,
                   client, stopCh, reported, cached>>

StopWorkers ==
    /\ At("stop", "workers")
    /\ running' = StopHeld(held)
    /\ Goto("stop", "tally")
    /\ UNCHANGED <<lockVars, poolVars, wwVars, busVars, generations, broken, work, assigned,
                   held, wwPID, client, stopCh, reported, cached>>

(* Closing the metrics may fail, and then the mutex is unlocked here and   *)
(* once more by the deferred Unlock.                                       *)
StopTally ==
    /\ At("stop", "tally")
    /\ UNCHANGED lockVars \/ Unlock
    /\ Goto("stop", "client")
    /\ UNCHANGED <<poolVars, wwVars, busVars, workerVars, assigned, held, wwPID, client,
                   stopCh, reported, cached>>

StopDone ==
    /\ At("stop", "client")
    /\ client' = IF client = "open" THEN "closed" ELSE client
    /\ Unlock
    /\ Goto("stop", "returned")
    /\ UNCHANGED <<poolVars, wwVars, busVars, workerVars, assigned, held, wwPID, stopCh,
                   reported, cached>>

-----------------------------------------------------------------------------
(* Outside.                                                                *)

(* p.events has room for one event.  The bus may keep an event back until  *)
(* there is room, or lose it: the choice covers both.                      *)
EventsRoom == 1

Publish(ev) ==
    \/ /\ bus' = IF subscribed THEN Append(bus, ev) ELSE bus
       /\ UNCHANGED dropped
    \/ /\ subscribed /\ Len(bus) >= EventsRoom
       /\ dropped' = dropped \cup {ev}
       /\ UNCHANGED bus

WorkflowWorkerDies ==
    /\ Alive
    /\ wwUp /\ ww <= MaxDeaths
    /\ EarlyDeath \/ subscribed
    /\ wwUp' = FALSE
    /\ UNCHANGED <<lockVars, poolVars, ww, actDeaths, busVars, workerVars, pc, assigned,
                   held, wwPID, client, stopCh, reported, cached>>

(* The pool replaces it and announces the pid of the one that stopped.     *)
WorkflowWorkerReplaced ==
    /\ Alive
    /\ wfPool = "up" /\ ~wwUp
    /\ ww' = ww + 1
    /\ wwUp' = TRUE
    /\ Publish(ww)
    /\ UNCHANGED <<lockVars, poolVars, actDeaths, subscribed, workerVars, pc, assigned,
                   held, wwPID, client, stopCh, reported, cached>>

ActivityWorkerDies ==
    /\ Alive
    /\ actPool = "up" /\ actDeaths < MaxActDeaths
    /\ actDeaths' = actDeaths + 1
    /\ Publish(Activity)
    /\ UNCHANGED <<lockVars, poolVars, ww, wwUp, subscribed, workerVars, pc, assigned,
                   held, wwPID, client, stopCh, reported, cached>>

(* A Temporal worker runs a workflow task: the execution enters the cache. *)
Polls ==
    /\ Alive
    /\ running # {} /\ Listed(wfPool)
    /\ cached' = cached \cup {ww}
    /\ UNCHANGED <<lockVars, poolVars, wwVars, busVars, workerVars, pc, assigned, held,
                   wwPID, client, stopCh, reported>>

Outside == WorkflowWorkerDies \/ WorkflowWorkerReplaced \/ ActivityWorkerDies \/ Polls

Serving == \/ ServeActivityPool \/ ServeWorkflowPool \/ ServeDone
           \/ CheckAllocated("serve") \/ ReadPID("serve")
           \/ GetInfo("serve") \/ StartWorker("serve")

Resetting(t) == \/ ResetBegins(t) \/ CheckAllocated(t) \/ ReadPID(t) \/ ResetActivities(t)
                \/ GetInfo(t) \/ StartWorker(t) \/ ResetDone(t)

Looping == LoopReceives \/ LoopStops \/ ResetAP

Stopping == StopSignals \/ StopDestroys \/ StopWorkers \/ StopTally \/ StopDone

Next ==
    \/ Serving \/ Looping \/ StopBegins \/ Stopping \/ Outside
    \/ \E t \in Resetters : ResetCalled(t) \/ Resetting(t)

(* Every goroutine that can go on does, a mutex is not withheld for ever   *)
(* from one that waits for it (sync.RWMutex hands it over in order), and   *)
(* the pool replaces a worker that died.  Nobody has to call Reset or Stop. *)
Fairness ==
    /\ WF_vars(Serving)
    /\ SF_vars(Looping \/ Resetting("loop"))
    /\ \A t \in Callers : SF_vars(Resetting(t))
    /\ SF_vars(Stopping)
    /\ WF_vars(WorkflowWorkerReplaced)

Spec == Init /\ [][Next]_vars /\ Fairness

-----------------------------------------------------------------------------
(* Properties.                                                             *)

(* Two generations never poll side by side, but for workers whose start    *)
(* was interrupted: Reset stops the old generation before it starts its    *)
(* own, whoever else resets or stops the plugin in between.                *)
OneGeneration ==
    \A v, w \in running : v[1] \notin broken /\ w[1] \notin broken => v[1] = w[1]

(* Once Stop has stopped the Temporal workers none ever polls again, but   *)
(* for those of an interrupted start: a Reset that was waiting for the     *)
(* mutex finds no workflow worker and starts nothing.                      *)
StoppedStaysStopped ==
    pc["stop"] \in {"tally", "client", "returned"} => \A w \in running : w[1] \in broken

(* Threads in their critical sections.                                     *)
Inside == {t \in Threads : pc[t] \in Critical}

(* The mutex that Stop gives up too early, and then unlocks once more,     *)
(* does no harm to the plugin but the crash: until Stop has torn down all  *)
(* that a reset would need the critical sections exclude each other, and a *)
(* reset that gets in beside Stop gets no further than its first step.     *)
OnlyStopTearsLock ==
    LET torn == pc["stop"] \in {"client", "returned"}
    IN  /\ \A t, u \in Inside : t = u \/ torn
        /\ crashed => torn
        /\ torn => \A t \in Inside \ {"stop"} : pc[t] = "alloc"

(* When all is quiet - every event handled, nobody resetting - the sticky  *)
(* cache holds executions of the live workflow worker only, and the plugin *)
(* watches for the pid of that worker, whatever else was lost, unless it   *)
(* was the announcement of the very pid it watches for, behind another     *)
(* event in p.events: any later reset makes up for that.  (Unless workers  *)
(* of an interrupted start poll on: nobody stops them before the cache is  *)
(* purged.)                                                                *)
Quiet ==
    /\ At("loop", "select") /\ subscribed /\ bus = << >>
    /\ mu = Free /\ wwUp /\ broken = {}

DeathMissed == wwPID \in dropped

QuietMeansFresh == Quiet => (cached \subseteq {ww} /\ wwPID = ww) \/ DeathMissed

(* Why all is fresh then: the invariant that is inductive.                 *)

(* A pid that is watched for in vain has been announced, or its event was  *)
(* lost, unless the goroutine is on its way to look at the pool again.     *)
Watching == {"select", "resetAP", "actReset", "info", "start"}
Announced(q, pid) == \E i \in 1 .. Len(q) : q[i] = pid
WatchesOrHears ==
    subscribed /\ pc["loop"] \in Watching =>
        wwPID = ww \/ Announced(bus, wwPID) \/ DeathMissed

(* Serve leaves nothing to announce, if no worker dies before it returns.  *)
NothingMissed ==
    pc["serve"] # "returned" =>
        /\ ~subscribed /\ bus = << >> /\ (wfPool = "up" => wwUp)
        /\ wwPID = ww \/ pc["serve"] \in {"alloc", "pid", "panicked"}
        /\ pc["serve"] \in {"called", "wfPool"} => ww = 0

(* The cache is purged before the pid is looked up, and nobody polls in    *)
(* between: what is cached is no older than the pid that is watched for.   *)
PurgedFirst ==
    /\ wwPID <= ww
    /\ broken = {} =>
         /\ \A p \in cached : wwPID <= p /\ p <= ww
         /\ pc["serve"] \in {"called", "wfPool", "alloc", "pid"} => cached = {}
         /\ (\E t \in Resetters : pc[t] \in {"alloc", "pid"}) => cached = {}

FreshInvariant == WatchesOrHears /\ NothingMissed /\ PurgedFirst

(* A Stop that has begun ends: nobody it waits for waits for its mutex.    *)
StopEnds == pc["stop"] = "signal" ~> (pc["stop"] = "returned" \/ ~Alive)

(* The goroutine of Serve does not outlive the plugin.                     *)
LoopEnds == pc["stop"] = "returned" ~> (pc["loop"] \in {"none", "returned"} \/ ~Alive)

(* Executions of a dead workflow worker leave the cache, or the plugin     *)
(* reports that it cannot recover, is being stopped, has Temporal workers  *)
(* that it does not know, or lost the announcement of the death behind     *)
(* another event.                                                          *)
StaleIsPurged ==
    ~(cached \subseteq {ww})
      ~> (cached \subseteq {ww} \/ reported \/ ~subscribed \/ ~Alive \/ broken # {} \/ DeathMissed)

-----------------------------------------------------------------------------
(* Statements of the repository that the code does not keep.               *)

(* src/tests/general/disaster_test.go:46, of a killed workflow worker: the *)
(* plugin "must fully recover with new worker".  So no execution of a dead *)
(* worker is left in the cache, whenever the worker was killed.            *)
RecoversWithNewWorker == Quiet => cached \subseteq {ww}

(* src/plugin.go:260: Stop provides for the "case if the Serve func was    *)
(* interrupted".  So nothing that Serve built outlives Stop.               *)
StopReleasesEverything ==
    pc["stop"] = "returned" => running = {} /\ actPool # "up" /\ wfPool # "up"
=============================================================================
