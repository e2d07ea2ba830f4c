----------------------- MODULE PluginLifecycle_proofs -----------------------
(***************************************************************************)
(* Proofs about PluginLifecycle, for any number of RPC resets, Temporal    *)
(* workers and deaths: types, how far the mutex that Stop gives up twice   *)
(* can be trusted, that one generation of Temporal workers polls at a      *)
(* time, and that none is started once Stop has stopped them.              *)
(***************************************************************************)
EXTENDS PluginLifecycle, TLAPS

(* Where each thread can be, and what it found there: Stop comes after     *)
(* Serve, and a reset gets past its first look at the pool only after a    *)
(* Serve that succeeded, on pools that Stop destroys.                      *)
ServePlaces == {"called", "wfPool", "alloc", "pid", "info", "start", "returned", "panicked"}
StopPlaces == {"idle", "signal", "destroy", "workers", "tally", "client", "returned"}
ResetPlaces == {"reset", "alloc", "pid", "actReset", "info", "start", "returned", "panicked"}

Places ==
    /\ pc["serve"] \in ServePlaces
    /\ pc["stop"] \in StopPlaces
    /\ pc["loop"] \in ResetPlaces \cup {"none", "select", "resetAP"}
    /\ \A t \in Callers : pc[t] \in ResetPlaces \cup {"idle"}
    /\ pc["stop"] # "idle" => pc["serve"] = "returned"
    /\ assigned => pc["serve"] = "returned"
    /\ pc["loop"] # "none" => assigned
    /\ \A t \in Callers : pc[t] \in {"idle", "reset", "alloc", "panicked"} \/ assigned
    /\ assigned /\ pc["stop"] \in {"workers", "tally", "client", "returned"}
         => wfPool = "destroyed"

(* Until Stop unlocks, who is inside holds the mutex.  Then a reset may be *)
(* inside beside Stop, but without a workflow worker it gets nowhere.      *)
Torn == pc["stop"] \in {"client", "returned"}

Exclusive ==
    /\ ~Torn => ~crashed /\ \A t \in Inside : mu = t
    /\ Torn => \A t \in Inside \ {"stop"} : pc[t] = "alloc"

(* A Temporal worker belongs to p.temporal.workers, or to the generation   *)
(* that is being started, or to one whose start failed.  While one is      *)
(* being started p.temporal.workers is nil.                                *)
Owned ==
    /\ ~assigned => held = 0
    /\ \A w \in running : w[1] # 0
    /\ \A t \in Inside : t # "stop" => held = 0
    /\ \A t \in Threads : pc[t] = "start" => work[t] # 0
    /\ \A w \in running :
         \/ w[1] \in broken
         \/ w[1] = held
         \/ \E t \in Threads : pc[t] = "start" /\ work[t] = w[1]

(* A pool that is up has had a worker, and one that misses its worker has  *)
(* a death left to replace.                                                *)
Counted == wfPool = "up" => ww > 0 /\ (~wwUp => ww <= MaxDeaths)

LifeInvariant == TypeOK /\ Counted /\ Places /\ Exclusive /\ Owned /\ StoppedStaysStopped

(* The threads are different.                                              *)
LEMMA ThreadsAre ==
    /\ "serve" \in Threads /\ "stop" \in Threads /\ "loop" \in Threads
    /\ Resetters \subseteq Threads /\ Callers \subseteq Resetters /\ "loop" \in Resetters
    /\ \A t \in Resetters : t # "stop" /\ t # "serve"
    /\ \A t \in Callers : t # "loop"
    /\ \A t \in Threads : t # Free
  BY CallersAssumption, FreeAssumption DEF Threads, Resetters

(* Sequences of events stay so when one is sent or received.               *)
LEMMA SeqKept ==
    ASSUME NEW S, NEW q \in Seq(S)
    PROVE  /\ \A e \in S : Append(q, e) \in Seq(S)
           /\ q # << >> => Tail(q) \in Seq(S)
  OBVIOUS

(* A thread other than Stop that is past the first step of its critical    *)
(* section is alone.                                                       *)
LEMMA Alone ==
    ASSUME LifeInvariant, NEW t \in Threads, t # "stop",
           pc[t] \in {"wfPool", "pid", "actReset", "info", "start"}
    PROVE  ~Torn /\ ~crashed /\ mu = t /\ Inside = {t} /\ held = 0
<1>1. t \in Inside
  BY DEF Inside, Critical
<1>2. ~Torn
  BY <1>1 DEF LifeInvariant, Exclusive
<1>. QED
  BY <1>1, <1>2 DEF LifeInvariant, Exclusive, Owned

(* It goes on inside, ...                                                  *)
LEMMA GoesOn ==
    ASSUME LifeInvariant, NEW t \in Threads, t # "stop",
           pc[t] \in {"wfPool", "pid", "actReset", "info", "start"}, UNCHANGED lockVars,
           NEW p \in {"wfPool", "alloc", "pid", "actReset", "info", "start"}, pc' = [pc EXCEPT ![t] = p]
    PROVE  Inside' = {t} /\ Exclusive'
<1>1. ~Torn /\ ~crashed /\ mu = t /\ Inside = {t}
  BY Alone
<1>2. Inside' = {t} /\ ~Torn'
  BY <1>1 DEF LifeInvariant, TypeOK, Inside, Critical, Torn
<1>. QED
  BY <1>1, <1>2 DEF Exclusive, lockVars

(* ... or leaves and unlocks.                                              *)
LEMMA Leaves ==
    ASSUME LifeInvariant, NEW t \in Threads, t # "stop",
           pc[t] \in {"wfPool", "pid", "actReset", "info", "start"}, Unlock,
           NEW p \in {"returned", "select"}, pc' = [pc EXCEPT ![t] = p]
    PROVE  Inside' = {} /\ crashed' = FALSE /\ Exclusive'
<1>1. ~Torn /\ ~crashed /\ mu = t /\ Inside = {t}
  BY Alone
<1>2. crashed' = FALSE
  BY <1>1, ThreadsAre DEF Unlock
<1>3. Inside' = {} /\ ~Torn'
  BY <1>1 DEF LifeInvariant, TypeOK, Inside, Critical, Torn
<1>. QED
  BY <1>2, <1>3 DEF Exclusive

(* A thread locks the mutex.                                               *)
LEMMA Enters ==
    ASSUME LifeInvariant, NEW t \in Threads, Lock(t), ~Torn,
           NEW p \in {"wfPool", "alloc", "signal"}, pc' = [pc EXCEPT ![t] = p]
    PROVE  Inside = {} /\ Inside' = {t} /\ Exclusive'
<1>1. Inside = {} /\ ~crashed
  BY ThreadsAre DEF LifeInvariant, Exclusive, Lock, Inside
<1>2. Inside' = {t} /\ ~Torn'
  BY <1>1 DEF LifeInvariant, TypeOK, Inside, Critical, Torn
<1>. QED
  BY <1>1, <1>2 DEF Exclusive, Lock

LEMMA InitLife == Init => LifeInvariant
<1>. SUFFICES ASSUME Init PROVE LifeInvariant
  OBVIOUS
<1>1. TypeOK
  <2>1. pc \in [Threads -> Locations]
    BY DEF Init, Locations
  <2>2. bus \in Seq(Pids \cup {Activity}) /\ work \in [Threads -> Nat]
    BY DEF Init
  <2>3. held \in Nat /\ generations \in Nat /\ stopCh \in Nat
    BY DEF Init
  <2>4. /\ wwPID \in 0 .. MaxDeaths + 1 /\ ww \in 0 .. MaxDeaths + 1
        /\ actDeaths \in 0 .. MaxActDeaths
    BY CountsAssumption DEF Init
  <2>. QED
    BY <2>1, <2>2, <2>3, <2>4 DEF Init, TypeOK
<1>2. Counted /\ Places
  BY ThreadsAre DEF Init, Counted, Places, ServePlaces, StopPlaces, ResetPlaces
<1>3. Exclusive /\ Owned /\ StoppedStaysStopped
  BY ThreadsAre DEF Init, Exclusive, Torn, Inside, Critical, Owned, StoppedStaysStopped
<1>. QED
  BY <1>1, <1>2, <1>3 DEF LifeInvariant


(* A thread other than Stop moves from one place outside to another.       *)
LEMMA StaysOut ==
    ASSUME LifeInvariant, NEW t \in Threads, t # "stop", pc[t] \notin Critical,
           UNCHANGED lockVars, NEW p, p \notin Critical, pc' = [pc EXCEPT ![t] = p]
    PROVE  Inside' = Inside /\ Exclusive'
<1>1. Inside' = Inside
  BY DEF LifeInvariant, TypeOK, Inside
<1>2. Torn' = Torn
  BY ThreadsAre DEF LifeInvariant, TypeOK, Torn
<1>3. \A u \in Inside : pc'[u] = pc[u]
  BY DEF LifeInvariant, TypeOK, Inside
<1>. QED
  BY <1>1, <1>2, <1>3 DEF LifeInvariant, Exclusive, lockVars

(* What polls stays accounted for when nothing is started or stopped.      *)
LEMMA StaysOwned ==
    ASSUME LifeInvariant, UNCHANGED <<running, broken, held, work>>,
           assigned => assigned',
           \A t \in Threads : pc'[t] = "start" <=> pc[t] = "start",
           \A t \in Inside' : t # "stop" => held = 0
    PROVE  Owned'
  BY DEF LifeInvariant, Owned

(* The types of the program counters.                                      *)
LEMMA MoveTyped ==
    ASSUME LifeInvariant, NEW t \in Threads, NEW p \in Locations, pc' = [pc EXCEPT ![t] = p]
    PROVE  /\ pc' \in [Threads -> Locations]
           /\ pc'[t] = p
           /\ \A u \in Threads : u # t => pc'[u] = pc[u]
  BY DEF LifeInvariant, TypeOK

(* Serve.                                                                  *)
LEMMA ServeActivityPoolKeeps ==
    ASSUME LifeInvariant, ServeActivityPool
    PROVE  LifeInvariant'
<1>. USE DEF LifeInvariant
<1>0. /\ pc["serve"] = "called" /\ pc["stop"] = "idle" /\ ~assigned /\ ~Torn /\ held = 0
      /\ UNCHANGED <<wfPool, wwVars, busVars, workerVars, assigned, held, wwPID, client,
                     stopCh, cached>>
  BY DEF ServeActivityPool, At, Places, Torn, Owned
<1>1. PICK p \in {"wfPool", "returned"} :
        /\ pc' = [pc EXCEPT !["serve"] = p]
        /\ IF p = "wfPool" THEN Lock("serve") ELSE UNCHANGED lockVars
  BY DEF ServeActivityPool, ServeFails, Goto
<1>2. /\ pc' \in [Threads -> Locations] /\ pc'["serve"] = p
      /\ \A u \in Threads : u # "serve" => pc'[u] = pc[u]
  BY <1>1, MoveTyped, ThreadsAre DEF Locations, Critical
<1>3. Exclusive' /\ \A t \in Inside' : held = 0
  BY <1>0, <1>1, Enters, StaysOut, ThreadsAre DEF Critical, Owned, Exclusive, Torn, Inside
<1>4. TypeOK' /\ Counted'
  <2>1. mu' \in Threads \cup {Free} /\ actPool' \in {"none", "up", "destroyed"}
    BY <1>1, ThreadsAre DEF ServeActivityPool, Lock, lockVars, TypeOK
  <2>2. crashed' \in BOOLEAN /\ reported' \in BOOLEAN
    BY DEF ServeActivityPool, ServeFails, Lock, lockVars, TypeOK
  <2>. QED
    BY <1>0, <1>2, <2>1, <2>2 DEF wwVars, busVars, workerVars, TypeOK, Counted
<1>5. Places'
  BY <1>0, <1>1, <1>2, ThreadsAre DEF Places, ServePlaces
<1>6. Owned' /\ StoppedStaysStopped'
  BY <1>0, <1>1, <1>2, <1>3, StaysOwned, ThreadsAre DEF workerVars, StoppedStaysStopped
<1>. QED
  BY <1>3, <1>4, <1>5, <1>6

LEMMA ServeWorkflowPoolKeeps ==
    ASSUME LifeInvariant, ServeWorkflowPool
    PROVE  LifeInvariant'
<1>. USE DEF LifeInvariant
<1>0. /\ pc["serve"] = "wfPool" /\ pc["stop"] = "idle" /\ ~assigned /\ held = 0
      /\ UNCHANGED <<actPool, actDeaths, busVars, workerVars, assigned, held, wwPID, client,
                     stopCh, cached>>
  BY DEF ServeWorkflowPool, At, Places, Owned
<1>1. PICK p \in {"alloc", "returned"} :
        /\ pc' = [pc EXCEPT !["serve"] = p]
        /\ IF p = "alloc" THEN UNCHANGED lockVars ELSE Unlock
  BY DEF ServeWorkflowPool, ServeFails, Goto
<1>2. /\ pc' \in [Threads -> Locations] /\ pc'["serve"] = p
      /\ \A u \in Threads : u # "serve" => pc'[u] = pc[u]
  BY <1>1, MoveTyped, ThreadsAre DEF Locations, Critical
<1>3. Exclusive' /\ crashed' = FALSE
  BY <1>0, <1>1, Alone, GoesOn, Leaves, ThreadsAre DEF lockVars, TypeOK
<1>4. TypeOK' /\ Counted'
  <2>1. mu' \in Threads \cup {Free} /\ reported' \in BOOLEAN
    BY <1>1 DEF ServeWorkflowPool, ServeFails, Unlock, lockVars, TypeOK
  <2>2. \/ wfPool' = "up" /\ ww' = 1 /\ wwUp' = TRUE
        \/ UNCHANGED <<wfPool, ww, wwUp>>
    BY DEF ServeWorkflowPool
  <2>3. ww' \in 0 .. MaxDeaths + 1
    BY <2>2, CountsAssumption DEF TypeOK
  <2>4. wwUp' \in BOOLEAN /\ wfPool' \in {"none", "up", "destroyed"}
    BY <2>2 DEF TypeOK
  <2>5. Counted'
    <3>1. CASE ww' = 1 /\ wwUp' = TRUE
      BY <3>1 DEF Counted
    <3>2. CASE UNCHANGED <<wfPool, ww, wwUp>>
      BY <3>2 DEF Counted
    <3>. QED
      BY <2>2, <3>1, <3>2
  <2>. QED
    BY <1>0, <1>2, <1>3, <2>1, <2>3, <2>4, <2>5 DEF busVars, workerVars, TypeOK
<1>5. Places'
  BY <1>0, <1>1, <1>2, ThreadsAre DEF Places, ServePlaces
<1>6. Owned' /\ StoppedStaysStopped'
  BY <1>0, <1>1, <1>2, StaysOwned, ThreadsAre DEF workerVars, StoppedStaysStopped
<1>. QED
  BY <1>3, <1>4, <1>5, <1>6

LEMMA ServeDoneKeeps ==
    ASSUME LifeInvariant, ServeDone
    PROVE  LifeInvariant'
<1>. USE DEF LifeInvariant
<1>0. /\ pc["serve"] = "start" /\ pc["stop"] = "idle" /\ pc["loop"] = "none"
      /\ assigned' = TRUE /\ held' = work["serve"] /\ Unlock
      /\ UNCHANGED <<poolVars, wwVars, bus, dropped, workerVars, wwPID, client, stopCh, cached>>
  <2>1. /\ pc["serve"] = "start" /\ assigned' = TRUE /\ held' = work["serve"] /\ Unlock
        /\ UNCHANGED <<poolVars, wwVars, bus, dropped, workerVars, wwPID, client, stopCh, cached>>
    BY DEF ServeDone, AllStarted, At
  <2>2. ~assigned /\ pc["stop"] = "idle"
    BY <2>1 DEF Places
  <2>3. pc["loop"] = "none"
    BY <2>2 DEF Places
  <2>. QED
    BY <2>1, <2>2, <2>3
<1>1. PICK p \in {"select", "none"} :
        pc' = [pc EXCEPT !["serve"] = "returned", !["loop"] = p]
  <2>1. pc = [pc EXCEPT !["loop"] = "none"]
    BY <1>0, ThreadsAre DEF TypeOK
  <2>. QED
    BY <2>1, ThreadsAre DEF ServeDone, ServeFails, Goto, TypeOK
<1>2. /\ pc' \in [Threads -> Locations] /\ pc'["serve"] = "returned" /\ pc'["loop"] = p
      /\ \A u \in Threads : u # "serve" /\ u # "loop" => pc'[u] = pc[u]
  BY <1>1, ThreadsAre DEF Locations, TypeOK
<1>3. Inside = {"serve"} /\ mu = "serve" /\ ~crashed
  BY <1>0, Alone, ThreadsAre
<1>4. Inside' = {} /\ crashed' = FALSE /\ Exclusive'
  BY <1>0, <1>2, <1>3, ThreadsAre DEF Inside, Critical, Unlock, Exclusive, Torn
<1>5. TypeOK' /\ Counted'
  <2>1. subscribed' \in BOOLEAN /\ reported' \in BOOLEAN
    BY DEF ServeDone, ServeFails, TypeOK
  <2>2. held' \in Nat /\ mu' \in Threads \cup {Free}
    BY <1>0, ThreadsAre DEF TypeOK, Unlock
  <2>. QED
    BY <1>0, <1>2, <1>4, <2>1, <2>2 DEF poolVars, wwVars, workerVars, TypeOK, Counted
<1>6. Places'
  BY <1>0, <1>2, ThreadsAre DEF Places, ServePlaces, StopPlaces, ResetPlaces
<1>7. Owned'
  <2>1. \A t \in Threads : pc[t] = "start" => t = "serve"
    BY <1>3 DEF Inside, Critical
  <2>. QED
    BY <1>0, <1>3, <1>4, <2>1 DEF Owned, workerVars, Inside, Critical
<1>8. StoppedStaysStopped'
  BY <1>0, <1>2, ThreadsAre DEF StoppedStaysStopped
<1>. QED
  BY <1>4, <1>5, <1>6, <1>7, <1>8

(* What Serve and Reset have in common.                                    *)
LEMMA GetInfoKeeps ==
    ASSUME LifeInvariant, NEW t \in Resetters \cup {"serve"}, GetInfo(t)
    PROVE  LifeInvariant'
<1>. USE DEF LifeInvariant
<1>0. /\ t \in Threads /\ t # "stop" /\ pc[t] = "info"
      /\ UNCHANGED <<poolVars, wwVars, busVars, running, broken, assigned, held, wwPID,
                     stopCh, cached>>
  BY ThreadsAre DEF GetInfo, At
<1>1. PICK p \in {"start", "returned"} :
        /\ pc' = [pc EXCEPT ![t] = p]
        /\ IF p = "start"
             THEN UNCHANGED <<lockVars, reported>> /\ initTemporalClient(t) /\ TemporalWorkers(t)
             ELSE GivesUp(t) /\ UNCHANGED <<generations, work, client>>
  BY DEF GetInfo, GivesUp, Goto
<1>2. /\ pc' \in [Threads -> Locations] /\ pc'[t] = p
      /\ \A u \in Threads : u # t => pc'[u] = pc[u]
  BY <1>0, <1>1, MoveTyped DEF Locations, Critical
<1>3. ~Torn /\ ~crashed /\ Inside = {t} /\ held = 0
  BY <1>0, Alone
<1>4. Exclusive' /\ Inside' \subseteq {t} /\ crashed' = FALSE
  <2>1. CASE p = "start"
    BY <1>0, <1>1, <1>3, <2>1, GoesOn DEF lockVars, TypeOK
  <2>2. CASE p = "returned"
    BY <1>0, <1>1, <2>2, Leaves DEF GivesUp
  <2>. QED
    BY <2>1, <2>2
<1>5. TypeOK' /\ Counted'
  <2>1. mu' \in Threads \cup {Free} /\ client' \in {"nil", "open", "closed"}
    BY <1>1 DEF GivesUp, Unlock, lockVars, initTemporalClient, TypeOK
  <2>2. generations' \in Nat /\ work' \in [Threads -> Nat]
    BY <1>1 DEF TemporalWorkers, TypeOK
  <2>3. reported' \in BOOLEAN
    BY <1>1 DEF GivesUp, TypeOK
  <2>. QED
    BY <1>0, <1>2, <1>4, <2>1, <2>2, <2>3 DEF poolVars, wwVars, busVars, TypeOK, Counted
<1>6. Places'
  BY <1>0, <1>2, ThreadsAre DEF Places, ServePlaces, StopPlaces, ResetPlaces, poolVars
<1>7. Owned'
  <2>1. \A u \in Threads : pc[u] # "start"
    BY <1>0, <1>3 DEF Inside, Critical
  <2>2. \A u \in Threads : pc'[u] = "start" => u = t /\ p = "start"
    BY <1>2, <2>1
  <2>3. p = "start" => work'[t] # 0
    BY <1>0, <1>1 DEF TemporalWorkers, TypeOK
  <2>. QED
    BY <1>0, <1>3, <2>1, <2>2, <2>3 DEF Owned
<1>8. StoppedStaysStopped'
  BY <1>0, <1>2, ThreadsAre DEF StoppedStaysStopped
<1>. QED
  BY <1>4, <1>5, <1>6, <1>7, <1>8

LEMMA StartWorkerKeeps ==
    ASSUME LifeInvariant, NEW t \in Resetters \cup {"serve"}, StartWorker(t)
    PROVE  LifeInvariant'
<1>. USE DEF LifeInvariant
<1>0. /\ t \in Threads /\ t # "stop" /\ pc[t] = "start"
      /\ UNCHANGED <<poolVars, wwVars, busVars, generations, work, assigned, held, wwPID,
                     client, stopCh, cached>>
  BY ThreadsAre DEF StartWorker, At
<1>1. ~Torn /\ ~crashed /\ Inside = {t} /\ held = 0
  BY <1>0, Alone
<1>2. pc["stop"] \notin {"tally", "client", "returned"}
  BY <1>0, <1>1, ThreadsAre DEF Inside, Critical, Torn
<1>3. CASE \E n \in 1 .. NumWorkers : /\ running' = running \cup {<<work[t], n>>}
                                      /\ UNCHANGED <<lockVars, reported, pc, broken>>
  <2>1. Inside' = Inside
    BY <1>3 DEF Inside
  <2>2. TypeOK' /\ Counted'
    <3>1. running' \subseteq Nat \X Nat
      BY <1>0, <1>3, CountsAssumption DEF TypeOK
    <3>. QED
      BY <1>0, <1>3, <3>1 DEF lockVars, poolVars, wwVars, busVars, TypeOK, Counted
  <2>3. Places'
    BY <1>0, <1>3 DEF Places, poolVars
  <2>4. Exclusive' /\ StoppedStaysStopped'
    BY <1>2, <1>3, <2>1 DEF Exclusive, Torn, lockVars, StoppedStaysStopped
  <2>5. Owned'
    BY <1>0, <1>3, <2>1 DEF Owned
  <2>. QED
    BY <2>2, <2>3, <2>4, <2>5
<1>4. CASE GivesUp(t) /\ broken' = broken \cup {work[t]} /\ running' = running
  <2>1. /\ pc' \in [Threads -> Locations] /\ pc'[t] = "returned"
        /\ \A u \in Threads : u # t => pc'[u] = pc[u]
    BY <1>0, <1>4, MoveTyped DEF Locations, GivesUp, Goto
  <2>2. Inside' = {} /\ crashed' = FALSE /\ Exclusive'
    BY <1>0, <1>4, Leaves DEF GivesUp, Goto
  <2>3. TypeOK' /\ Counted'
    <3>1. mu' \in Threads \cup {Free} /\ reported' \in BOOLEAN
      BY <1>4 DEF GivesUp, Unlock, TypeOK
    <3>2. broken' \subseteq Nat
      BY <1>0, <1>4 DEF TypeOK
    <3>. QED
      BY <1>0, <1>4, <2>1, <2>2, <3>1, <3>2 DEF poolVars, wwVars, busVars, TypeOK, Counted
  <2>4. Places'
    BY <1>0, <2>1, ThreadsAre DEF Places, ServePlaces, StopPlaces, ResetPlaces, poolVars
  <2>5. Owned' /\ StoppedStaysStopped'
    <3>1. \A u \in Threads : pc[u] = "start" => u = t
      BY <1>1 DEF Inside, Critical
    <3>2. \A u \in Threads : pc'[u] # "start"
      BY <2>1, <3>1
    <3>. QED
      BY <1>0, <1>2, <1>4, <2>1, <2>2, <3>1, <3>2, ThreadsAre DEF Owned, StoppedStaysStopped
  <2>. QED
    BY <2>2, <2>3, <2>4, <2>5
<1>. QED
  BY <1>3, <1>4 DEF StartWorker

LEMMA CheckAllocatedKeeps ==
    ASSUME LifeInvariant, NEW t \in Resetters \cup {"serve"}, CheckAllocated(t)
    PROVE  LifeInvariant'
<1>. USE DEF LifeInvariant
<1>0. /\ t \in Threads /\ t # "stop" /\ pc[t] = "alloc" /\ t \in Inside
      /\ ~crashed /\ held = 0
      /\ UNCHANGED <<poolVars, wwVars, busVars, workerVars, assigned, held, wwPID, client,
                     stopCh, cached>>
  BY ThreadsAre DEF CheckAllocated, At, Alive, Inside, Critical, Owned
<1>1. PICK p \in {"pid", "returned", "panicked"} :
        /\ pc' = [pc EXCEPT ![t] = p]
        /\ p # "panicked" => HasPool(t)
        /\ p = "pid" => Listed(wfPool)
        /\ IF p = "returned" THEN GivesUp(t) ELSE UNCHANGED <<lockVars, reported>>
  BY DEF CheckAllocated, GivesUp, Panics, Goto
<1>2. /\ pc' \in [Threads -> Locations] /\ pc'[t] = p
      /\ \A u \in Threads : u # t => pc'[u] = pc[u]
  BY <1>0, <1>1, MoveTyped DEF Locations, Critical
<1>3. \A u \in Inside' : u \in Inside
  BY <1>0, <1>2 DEF Inside
<1>4. Exclusive'
  <2>1. CASE p = "pid"
    <3>1. ~Torn
      BY <1>0, <1>1, <2>1 DEF HasPool, Listed, Places, Torn
    <3>. QED
      BY <1>0, <1>1, <1>2, <1>3, <2>1, <3>1, ThreadsAre DEF Exclusive, Torn, lockVars
  <2>2. CASE p # "pid" /\ Torn
    <3>1. Torn'
      BY <1>0, <1>2, <2>2, ThreadsAre DEF Torn
    <3>2. t \notin Inside'
      BY <1>1, <1>2, <2>2 DEF Inside, Critical
    <3>3. \A u \in Inside' : pc'[u] = pc[u]
      BY <1>2, <3>2 DEF Inside
    <3>. QED
      BY <1>3, <2>2, <3>1, <3>3 DEF Exclusive
  <2>3. CASE p # "pid" /\ ~Torn
    <3>1. mu = t /\ Inside = {t} /\ crashed' = FALSE
      BY <1>0, <1>1, <2>3, ThreadsAre DEF Exclusive, GivesUp, Unlock, lockVars, TypeOK
    <3>2. Inside' = {} /\ ~Torn'
      BY <1>0, <1>1, <1>2, <1>3, <2>3, <3>1, ThreadsAre DEF Inside, Critical, Torn
    <3>. QED
      BY <3>1, <3>2 DEF Exclusive
  <2>. QED
    BY <2>1, <2>2, <2>3
<1>5. TypeOK' /\ Counted'
  <2>1. mu' \in Threads \cup {Free}
    BY <1>1 DEF GivesUp, Unlock, lockVars, TypeOK
  <2>2. crashed' \in BOOLEAN /\ reported' \in BOOLEAN
    BY <1>1 DEF GivesUp, Unlock, lockVars, TypeOK
  <2>. QED
    BY <1>0, <1>2, <2>1, <2>2 DEF poolVars, wwVars, busVars, workerVars, TypeOK, Counted
<1>6. Places'
  BY <1>0, <1>1, <1>2, ThreadsAre
     DEF HasPool, Places, ServePlaces, StopPlaces, ResetPlaces, poolVars, Resetters
<1>7. Owned' /\ StoppedStaysStopped'
  BY <1>0, <1>1, <1>2, <1>3, StaysOwned, ThreadsAre DEF workerVars, StoppedStaysStopped
<1>. QED
  BY <1>4, <1>5, <1>6, <1>7

LEMMA ReadPIDKeeps ==
    ASSUME LifeInvariant, NEW t \in Resetters \cup {"serve"}, ReadPID(t)
    PROVE  LifeInvariant'
<1>. USE DEF LifeInvariant
<1>0. /\ t \in Threads /\ t # "stop" /\ pc[t] = "pid"
      /\ UNCHANGED <<poolVars, wwVars, busVars, workerVars, assigned, held, client, stopCh,
                     cached, lockVars, reported>>
      /\ wwPID' \in {wwPID, ww}
  BY ThreadsAre DEF ReadPID, Panics, CurrentPID, At
<1>1. PICK p \in {"info", "actReset", "panicked"} :
        /\ pc' = [pc EXCEPT ![t] = p]
        /\ t = "serve" => p # "actReset"
  BY DEF ReadPID, Panics, Goto
<1>2. /\ pc' \in [Threads -> Locations] /\ pc'[t] = p
      /\ \A u \in Threads : u # t => pc'[u] = pc[u]
  BY <1>0, <1>1, MoveTyped DEF Locations, Critical
<1>3. ~Torn /\ ~crashed /\ mu = t /\ Inside = {t} /\ held = 0
  BY <1>0, Alone
<1>4. Exclusive' /\ Inside' \subseteq {t}
  BY <1>0, <1>1, <1>2, <1>3, ThreadsAre DEF Exclusive, Inside, Torn, lockVars
<1>5. TypeOK' /\ Counted'
  <2>1. wwPID' \in 0 .. MaxDeaths + 1
    BY <1>0 DEF TypeOK
  <2>. QED
    BY <1>0, <1>2, <2>1 DEF lockVars, poolVars, wwVars, busVars, workerVars, TypeOK, Counted
<1>6. Places'
  BY <1>0, <1>1, <1>2, ThreadsAre
     DEF Places, ServePlaces, StopPlaces, ResetPlaces, poolVars, Resetters
<1>7. Owned' /\ StoppedStaysStopped'
  BY <1>0, <1>1, <1>2, <1>3, <1>4, StaysOwned, ThreadsAre DEF workerVars, StoppedStaysStopped
<1>. QED
  BY <1>4, <1>5, <1>6, <1>7

(* Reset.                                                                  *)
LEMMA ResetBeginsKeeps ==
    ASSUME LifeInvariant, NEW t \in Resetters, ResetBegins(t)
    PROVE  LifeInvariant'
<1>. USE DEF LifeInvariant
<1>0. /\ t \in Threads /\ t # "stop" /\ t # "serve" /\ pc[t] = "reset" /\ ~crashed /\ Lock(t)
      /\ running' = StopHeld(held) /\ held' = 0 /\ cached' = {}
      /\ pc' = [pc EXCEPT ![t] = "alloc"]
      /\ UNCHANGED <<poolVars, wwVars, busVars, generations, broken, work, assigned, wwPID,
                     client, stopCh, reported>>
  BY ThreadsAre DEF ResetBegins, At, Alive, Goto, Purge
<1>1. /\ pc' \in [Threads -> Locations] /\ pc'[t] = "alloc"
      /\ \A u \in Threads : u # t => pc'[u] = pc[u]
  BY <1>0, MoveTyped DEF Locations, Critical
<1>2. Exclusive'
  <2>1. CASE ~Torn
    BY <1>0, <2>1, Enters
  <2>2. CASE Torn
    BY <1>1, <1>0, <2>2, ThreadsAre DEF Exclusive, Torn, Inside
  <2>. QED
    BY <2>1, <2>2
<1>3. running' \subseteq running /\ \A w \in running' : w[1] # held
  BY <1>0 DEF StopHeld
<1>4. TypeOK' /\ Counted'
  <2>1. mu' \in Threads \cup {Free} /\ running' \subseteq Nat \X Nat /\ held' \in Nat
    BY <1>0, <1>3 DEF Lock, TypeOK
  <2>. QED
    BY <1>0, <1>1, <2>1 DEF Lock, poolVars, wwVars, busVars, TypeOK, Counted
<1>5. Places'
  BY <1>0, <1>1, ThreadsAre DEF Places, ServePlaces, StopPlaces, ResetPlaces, poolVars
<1>6. Owned' /\ StoppedStaysStopped'
  BY <1>0, <1>1, <1>3, ThreadsAre DEF Owned, StoppedStaysStopped
<1>. QED
  BY <1>2, <1>4, <1>5, <1>6

LEMMA ResetActivitiesKeeps ==
    ASSUME LifeInvariant, NEW t \in Resetters, ResetActivities(t)
    PROVE  LifeInvariant'
<1>. USE DEF LifeInvariant
<1>0. /\ t \in Threads /\ t # "stop" /\ t # "serve" /\ pc[t] = "actReset"
      /\ UNCHANGED <<poolVars, wwVars, busVars, workerVars, assigned, held, wwPID, client,
                     stopCh, cached>>
  BY ThreadsAre DEF ResetActivities, At
<1>1. PICK p \in {"info", "returned"} :
        /\ pc' = [pc EXCEPT ![t] = p]
        /\ IF p = "info" THEN UNCHANGED <<lockVars, reported>> ELSE GivesUp(t)
  BY DEF ResetActivities, GivesUp, Goto
<1>2. /\ pc' \in [Threads -> Locations] /\ pc'[t] = p
      /\ \A u \in Threads : u # t => pc'[u] = pc[u]
  BY <1>0, <1>1, MoveTyped DEF Locations, Critical
<1>3. ~crashed /\ held = 0
  BY <1>0, Alone
<1>4. Exclusive' /\ crashed' = FALSE
  <2>1. CASE p = "info"
    BY <1>0, <1>1, <1>3, <2>1, GoesOn DEF lockVars, TypeOK
  <2>2. CASE p = "returned"
    BY <1>0, <1>1, <2>2, Leaves DEF GivesUp
  <2>. QED
    BY <2>1, <2>2
<1>5. TypeOK' /\ Counted'
  <2>1. mu' \in Threads \cup {Free}
    BY <1>1 DEF GivesUp, Unlock, lockVars, TypeOK
  <2>2. reported' \in BOOLEAN
    BY <1>1 DEF GivesUp, TypeOK
  <2>. QED
    BY <1>0, <1>2, <1>4, <2>1, <2>2 DEF poolVars, wwVars, busVars, workerVars, TypeOK, Counted
<1>6. Places'
  BY <1>0, <1>2, ThreadsAre DEF Places, ServePlaces, StopPlaces, ResetPlaces, poolVars
<1>7. Owned' /\ StoppedStaysStopped'
  BY <1>0, <1>2, <1>3, StaysOwned, ThreadsAre DEF workerVars, StoppedStaysStopped
<1>. QED
  BY <1>4, <1>5, <1>6, <1>7

LEMMA ResetDoneKeeps ==
    ASSUME LifeInvariant, NEW t \in Resetters, ResetDone(t)
    PROVE  LifeInvariant'
<1>. USE DEF LifeInvariant
<1>0. /\ t \in Threads /\ t # "stop" /\ t # "serve" /\ pc[t] = "start" /\ Unlock
      /\ held' = work[t]
      /\ UNCHANGED <<poolVars, wwVars, busVars, workerVars, assigned, wwPID, client, stopCh,
                     reported, cached>>
  BY ThreadsAre DEF ResetDone, AllStarted, At
<1>1. PICK p \in {"select", "returned"} :
        pc' = [pc EXCEPT ![t] = p] /\ (p = "select" => t = "loop")
  BY DEF ResetDone, Goto
<1>2. /\ pc' \in [Threads -> Locations] /\ pc'[t] = p
      /\ \A u \in Threads : u # t => pc'[u] = pc[u]
  BY <1>0, <1>1, MoveTyped DEF Locations
<1>3. ~Torn /\ Inside = {t} /\ held = 0
  BY <1>0, Alone
<1>4. Inside' = {} /\ crashed' = FALSE /\ Exclusive'
  BY <1>0, <1>1, Leaves
<1>5. TypeOK' /\ Counted'
  <2>1. mu' \in Threads \cup {Free} /\ held' \in Nat
    BY <1>0 DEF Unlock, TypeOK
  <2>. QED
    BY <1>0, <1>2, <1>4, <2>1 DEF poolVars, wwVars, busVars, workerVars, TypeOK, Counted
<1>6. Places'
  BY <1>0, <1>1, <1>2, ThreadsAre DEF Places, ServePlaces, StopPlaces, ResetPlaces, poolVars
<1>7. Owned'
  <2>1. \A u \in Threads : pc[u] = "start" => u = t
    BY <1>3 DEF Inside, Critical
  <2>2. assigned
    BY <1>0 DEF Places, Resetters
  <2>. QED
    BY <1>0, <1>2, <1>3, <1>4, <2>1, <2>2 DEF Owned, workerVars
<1>8. StoppedStaysStopped'
  BY <1>0, <1>2, ThreadsAre DEF StoppedStaysStopped, workerVars
<1>. QED
  BY <1>4, <1>5, <1>6, <1>7, <1>8

(* Steps of resets and of the goroutine that leave the mutex as it is.     *)
LEMMA OutsideTheLock ==
    ASSUME LifeInvariant,
           \/ \E t \in Resetters : ResetCalled(t)
           \/ LoopReceives \/ LoopStops \/ ResetAP
    PROVE  LifeInvariant'
<1>. USE DEF LifeInvariant
<1>1. PICK t \in Resetters, p \in {"reset", "resetAP", "select", "returned"} :
        /\ pc' = [pc EXCEPT ![t] = p] /\ pc[t] \in {"idle", "select", "resetAP"}
        /\ p \in {"resetAP", "select"} => t = "loop"
        /\ pc[t] = "idle" => p = "reset" /\ t \in Callers
  BY ThreadsAre DEF ResetCalled, LoopReceives, LoopStops, ResetAP, At, Goto
<1>2. UNCHANGED <<lockVars, poolVars, wwVars, subscribed, dropped, workerVars, assigned, held,
                  wwPID, client, cached>>
  BY DEF ResetCalled, LoopReceives, LoopStops, ResetAP, busVars
<1>3. /\ t \in Threads /\ t # "stop" /\ t # "serve"
      /\ pc' \in [Threads -> Locations] /\ pc'[t] = p
      /\ \A u \in Threads : u # t => pc'[u] = pc[u]
  BY <1>1, MoveTyped, ThreadsAre DEF Locations
<1>4. Inside' = Inside /\ Exclusive'
  BY <1>1, <1>2, <1>3, StaysOut DEF Critical
<1>5. TypeOK' /\ Counted'
  <2>1. bus' \in Seq(Pids \cup {Activity})
    <3>1. bus' = bus \/ (bus # << >> /\ bus' = Tail(bus))
      BY DEF ResetCalled, LoopReceives, LoopStops, ResetAP, busVars
    <3>. QED
      BY <3>1, SeqKept DEF TypeOK
  <2>2. stopCh' \in Nat
    BY DEF ResetCalled, LoopReceives, LoopStops, ResetAP, TypeOK
  <2>3. reported' \in BOOLEAN
    BY DEF ResetCalled, LoopReceives, LoopStops, ResetAP, TypeOK
  <2>. QED
    BY <1>2, <1>3, <2>1, <2>2, <2>3 DEF lockVars, poolVars, wwVars, workerVars, TypeOK, Counted
<1>6. Places'
  BY <1>1, <1>2, <1>3, ThreadsAre DEF Places, ServePlaces, StopPlaces, ResetPlaces, poolVars
<1>7. Owned' /\ StoppedStaysStopped'
  <2>1. \A u \in Inside' : u # "stop" => held = 0
    BY <1>4 DEF Owned
  <2>2. \A u \in Threads : pc'[u] = "start" <=> pc[u] = "start"
    BY <1>1, <1>3
  <2>3. Owned'
    BY <1>2, <2>1, <2>2, StaysOwned DEF workerVars
  <2>. QED
    BY <1>2, <1>3, <2>3, ThreadsAre DEF workerVars, StoppedStaysStopped
<1>. QED
  BY <1>4, <1>5, <1>6, <1>7

(* Stop, which nobody resets beside until it unlocks.                      *)
LEMMA StopKeeps ==
    ASSUME LifeInvariant, StopBegins \/ Stopping
    PROVE  LifeInvariant'
<1>. USE DEF LifeInvariant
<1>1. PICK p \in {"signal", "destroy", "workers", "tally", "client", "returned"} :
        pc' = [pc EXCEPT !["stop"] = p]
  BY DEF StopBegins, Stopping, StopSignals, StopDestroys, StopWorkers, StopTally, StopDone, Goto
<1>2. /\ pc' \in [Threads -> Locations] /\ pc'["stop"] = p
      /\ \A u \in Threads : u # "stop" => pc'[u] = pc[u]
  BY <1>1, MoveTyped, ThreadsAre DEF Locations, Critical
<1>3. UNCHANGED <<generations, broken, work, assigned, held, wwPID, reported, cached, ww,
                  actDeaths, bus, dropped>>
  BY DEF StopBegins, Stopping, StopSignals, StopDestroys, StopWorkers, StopTally, StopDone,
     workerVars, wwVars, busVars
<1>4. /\ \A u \in Inside' : u # "stop" => u \in Inside /\ pc'[u] = pc[u]
      /\ \A u \in Threads : pc'[u] = "start" <=> pc[u] = "start"
  <2>1. pc["stop"] # "start"
    BY DEF Places, StopPlaces
  <2>. QED
    BY <1>1, <1>2, <2>1 DEF Inside
<1>5. CASE StopBegins
  <2>1. /\ pc["stop"] = "idle" /\ pc["serve"] = "returned" /\ p = "signal"
        /\ Lock("stop") /\ subscribed' = FALSE
        /\ UNCHANGED <<poolVars, wwVars, running, client, stopCh>>
    BY <1>1, <1>2, <1>5, ThreadsAre DEF StopBegins, At, Goto, workerVars, TypeOK
  <2>2. Exclusive'
    BY <1>1, <2>1, Enters, ThreadsAre DEF Torn
  <2>3. TypeOK' /\ Counted'
    BY <1>2, <1>3, <2>1, ThreadsAre DEF Lock, poolVars, wwVars, TypeOK, Counted
  <2>4. Places'
    BY <1>2, <1>3, <2>1, ThreadsAre DEF Places, StopPlaces, poolVars
  <2>5. Owned' /\ StoppedStaysStopped'
    BY <1>2, <1>3, <1>4, <2>1, StaysOwned DEF Owned, StoppedStaysStopped
  <2>. QED
    BY <2>2, <2>3, <2>4, <2>5
<1>6. ASSUME Stopping, pc["stop"] \in {"signal", "destroy", "workers", "tally"}
      PROVE  pc["serve"] = "returned" /\ ~Torn /\ ~crashed /\ mu = "stop" /\ Inside = {"stop"}
  BY <1>6, ThreadsAre DEF Places, Torn, Exclusive, Inside, Critical
<1>7. CASE StopSignals
  <2>1. /\ pc["stop"] = "signal" /\ p = "destroy" /\ stopCh' = stopCh + 1
        /\ UNCHANGED <<lockVars, poolVars, wwVars, subscribed, running, client>>
    BY <1>1, <1>2, <1>7, ThreadsAre DEF StopSignals, Sent, At, Goto, workerVars, busVars, TypeOK
  <2>2. Exclusive'
    BY <1>2, <1>4, <1>6, <1>7, <2>1 DEF Stopping, Exclusive, Torn, lockVars
  <2>3. TypeOK' /\ Counted'
    BY <1>2, <1>3, <2>1 DEF lockVars, poolVars, wwVars, TypeOK, Counted
  <2>4. Places'
    BY <1>2, <1>3, <2>1, ThreadsAre DEF Places, StopPlaces, poolVars
  <2>5. Owned' /\ StoppedStaysStopped'
    BY <1>2, <1>3, <1>4, <2>1, StaysOwned DEF Owned, StoppedStaysStopped
  <2>. QED
    BY <2>2, <2>3, <2>4, <2>5
<1>8. CASE StopDestroys
  <2>1. /\ pc["stop"] = "destroy" /\ p = "workers"
        /\ UNCHANGED <<lockVars, subscribed, running, client, stopCh>>
        /\ \/ assigned /\ actPool' = "destroyed" /\ wfPool' = "destroyed" /\ wwUp' = FALSE
           \/ ~assigned /\ UNCHANGED <<poolVars, wwUp>>
    BY <1>1, <1>2, <1>8, ThreadsAre DEF StopDestroys, At, Goto, workerVars, busVars, TypeOK
  <2>2. Exclusive'
    BY <1>2, <1>4, <1>6, <1>8, <2>1 DEF Stopping, Exclusive, Torn, lockVars
  <2>3. TypeOK' /\ Counted'
    BY <1>2, <1>3, <2>1 DEF lockVars, poolVars, TypeOK, Counted
  <2>4. Places'
    BY <1>2, <1>3, <2>1, ThreadsAre DEF Places, StopPlaces
  <2>5. Owned' /\ StoppedStaysStopped'
    BY <1>2, <1>3, <1>4, <2>1, StaysOwned DEF Owned, StoppedStaysStopped
  <2>. QED
    BY <2>2, <2>3, <2>4, <2>5
<1>9. CASE StopWorkers
  <2>1. /\ pc["stop"] = "workers" /\ p = "tally" /\ running' = {w \in running : w[1] # held}
        /\ UNCHANGED <<lockVars, poolVars, wwVars, subscribed, client, stopCh>>
    BY <1>1, <1>2, <1>9, ThreadsAre DEF StopWorkers, StopHeld, At, Goto, busVars, TypeOK
  <2>2. Exclusive' /\ Inside = {"stop"}
    BY <1>2, <1>4, <1>6, <1>9, <2>1 DEF Stopping, Exclusive, Torn, lockVars
  <2>3. TypeOK' /\ Counted'
    BY <1>2, <1>3, <2>1 DEF lockVars, poolVars, wwVars, TypeOK, Counted
  <2>4. Places'
    BY <1>2, <1>3, <2>1, ThreadsAre DEF Places, StopPlaces, poolVars
  <2>5. Owned' /\ StoppedStaysStopped'
    <3>1. \A u \in Threads : pc[u] # "start"
      BY <2>1, <2>2 DEF Inside, Critical
    <3>2. \A w \in running' : w \in running /\ w[1] \in broken
      BY <2>1, <3>1 DEF Owned
    <3>. QED
      BY <1>3, <1>4, <3>1, <3>2 DEF Owned, StoppedStaysStopped
  <2>. QED
    BY <2>2, <2>3, <2>4, <2>5
<1>10. CASE StopTally
  <2>1. /\ pc["stop"] = "tally" /\ p = "client" /\ (UNCHANGED lockVars \/ Unlock)
        /\ UNCHANGED <<poolVars, wwVars, subscribed, running, client, stopCh>>
    BY <1>1, <1>2, <1>10, ThreadsAre DEF StopTally, At, Goto, workerVars, busVars, TypeOK
  <2>2. Exclusive'
    BY <1>2, <1>4, <1>6, <1>10, <2>1 DEF Stopping, Exclusive, Torn
  <2>3. TypeOK' /\ Counted'
    <3>1. mu' \in Threads \cup {Free} /\ crashed' \in BOOLEAN
      BY <2>1 DEF Unlock, lockVars, TypeOK
    <3>. QED
      BY <1>2, <1>3, <2>1, <3>1 DEF poolVars, wwVars, TypeOK, Counted
  <2>4. Places'
    BY <1>2, <1>3, <2>1, ThreadsAre DEF Places, StopPlaces, poolVars
  <2>5. Owned' /\ StoppedStaysStopped'
    BY <1>2, <1>3, <1>4, <2>1, StaysOwned DEF Owned, StoppedStaysStopped
  <2>. QED
    BY <2>2, <2>3, <2>4, <2>5
<1>11. CASE StopDone
  <2>1. /\ pc["stop"] = "client" /\ p = "returned" /\ Unlock
        /\ client' \in {client, "closed"}
        /\ UNCHANGED <<poolVars, wwVars, subscribed, running, stopCh>>
    BY <1>1, <1>2, <1>11, ThreadsAre DEF StopDone, At, Goto, workerVars, busVars, TypeOK
  <2>2. Exclusive'
    BY <1>2, <1>4, <2>1 DEF Exclusive, Torn
  <2>3. TypeOK' /\ Counted'
    <3>1. mu' \in Threads \cup {Free} /\ crashed' \in BOOLEAN
      BY <2>1 DEF Unlock, TypeOK
    <3>. QED
      BY <1>2, <1>3, <2>1, <3>1 DEF poolVars, wwVars, TypeOK, Counted
  <2>4. Places'
    BY <1>2, <1>3, <2>1, ThreadsAre DEF Places, StopPlaces, poolVars
  <2>5. Owned' /\ StoppedStaysStopped'
    BY <1>2, <1>3, <1>4, <2>1, StaysOwned DEF Owned, StoppedStaysStopped
  <2>. QED
    BY <2>2, <2>3, <2>4, <2>5
<1>. QED
  BY <1>5, <1>7, <1>8, <1>9, <1>10, <1>11 DEF Stopping

(* Deaths, replacements and polls.                                         *)
LEMMA OutsideKeeps ==
    ASSUME LifeInvariant, Outside
    PROVE  LifeInvariant'
<1>. USE DEF LifeInvariant
<1>0. UNCHANGED <<lockVars, poolVars, subscribed, workerVars, pc, assigned, held, wwPID,
                  client, stopCh, reported>>
  BY DEF Outside, WorkflowWorkerDies, WorkflowWorkerReplaced, ActivityWorkerDies, Polls, busVars
<1>1. Places' /\ Exclusive' /\ Owned' /\ StoppedStaysStopped'
  BY <1>0 DEF lockVars, poolVars, workerVars, Places, Exclusive, Torn, Inside, Owned,
     StoppedStaysStopped
<1>2. /\ ww' \in 0 .. MaxDeaths + 1 /\ actDeaths' \in 0 .. MaxActDeaths /\ wwUp' \in BOOLEAN
      /\ Counted'
  <2>1. CASE WorkflowWorkerDies
    BY <1>0, <2>1 DEF WorkflowWorkerDies, poolVars, TypeOK, Counted
  <2>2. CASE WorkflowWorkerReplaced
    BY <1>0, <2>2, CountsAssumption DEF WorkflowWorkerReplaced, poolVars, TypeOK, Counted
  <2>3. CASE ActivityWorkerDies
    BY <1>0, <2>3, CountsAssumption DEF ActivityWorkerDies, poolVars, TypeOK, Counted
  <2>4. CASE Polls
    BY <1>0, <2>4 DEF Polls, poolVars, wwVars, TypeOK, Counted
  <2>. QED
    BY <2>1, <2>2, <2>3, <2>4 DEF Outside
<1>3. bus' \in Seq(Pids \cup {Activity}) /\ dropped' \subseteq Pids \cup {Activity}
  <2>1. wfPool = "up" => ww \in Pids
    BY CountsAssumption DEF Counted, Pids, TypeOK
  <2>2. UNCHANGED <<bus, dropped>> \/ \E ev \in Pids \cup {Activity} : Publish(ev)
    BY <2>1 DEF Outside, WorkflowWorkerDies, WorkflowWorkerReplaced, ActivityWorkerDies, Polls,
       busVars
  <2>3. ASSUME NEW ev \in Pids \cup {Activity}, Publish(ev)
        PROVE  /\ bus' = bus \/ bus' = Append(bus, ev)
               /\ dropped' \subseteq Pids \cup {Activity}
    BY <2>3 DEF Publish, TypeOK
  <2>4. CASE UNCHANGED <<bus, dropped>>
    BY <2>4 DEF TypeOK
  <2>5. CASE \E ev \in Pids \cup {Activity} : Publish(ev)
    <3>1. PICK ev \in Pids \cup {Activity} : Publish(ev)
      BY <2>5
    <3>2. bus \in Seq(Pids \cup {Activity}) /\ Append(bus, ev) \in Seq(Pids \cup {Activity})
      BY <3>1, SeqKept DEF TypeOK
    <3>. QED
      BY <2>3, <3>1, <3>2
  <2>. QED
    BY <2>2, <2>4, <2>5
<1>4. cached' \subseteq Pids
  <2>1. wfPool = "up" => ww \in Pids
    BY CountsAssumption DEF Counted, Pids, TypeOK
  <2>. QED
    BY <2>1 DEF Outside, WorkflowWorkerDies, WorkflowWorkerReplaced, ActivityWorkerDies, Polls,
       Listed, TypeOK
<1>5. TypeOK'
  BY <1>0, <1>2, <1>3, <1>4 DEF lockVars, poolVars, workerVars, TypeOK
<1>. QED
  BY <1>1, <1>2, <1>5

LEMMA LifePreserved == LifeInvariant /\ [Next]_vars => LifeInvariant'
<1>. SUFFICES ASSUME LifeInvariant, [Next]_vars PROVE LifeInvariant'
  OBVIOUS
<1>1. CASE UNCHANGED vars
  BY <1>1 DEF vars, lockVars, poolVars, wwVars, busVars, workerVars, LifeInvariant, TypeOK,
     Counted, Places, Exclusive, Torn, Inside, Owned, StoppedStaysStopped
<1>. QED
  BY <1>1, ServeActivityPoolKeeps, ServeWorkflowPoolKeeps, ServeDoneKeeps, GetInfoKeeps,
     StartWorkerKeeps, ResetBeginsKeeps, CheckAllocatedKeeps, ReadPIDKeeps, ResetActivitiesKeeps,
     ResetDoneKeeps, OutsideTheLock, StopKeeps, OutsideKeeps
     DEF Next, Serving, Looping, Resetting

(* Every action keeps the types: no more workers than deaths account for,  *)
(* and only pids that were given out in the events and in the cache.       *)
THEOREM LifeTypeCorrect == Spec => []TypeOK
<1>1. LifeInvariant => TypeOK
  BY DEF LifeInvariant
<1>. QED
  BY InitLife, LifePreserved, <1>1, PTL DEF Spec

(* Critical sections exclude each other until Stop has torn down all that  *)
(* a reset would need.                                                     *)
THEOREM LockHolds == Spec => []OnlyStopTearsLock
<1>1. LifeInvariant => OnlyStopTearsLock
  BY DEF LifeInvariant, Exclusive, Torn, OnlyStopTearsLock
<1>. QED
  BY InitLife, LifePreserved, <1>1, PTL DEF Spec

(* At most one generation of Temporal workers polls, but for interrupted   *)
(* starts.                                                                 *)
THEOREM OneGenerationPolls == Spec => []OneGeneration
<1>1. LifeInvariant => OneGeneration
  <2>. SUFFICES ASSUME LifeInvariant, NEW v \in running, NEW w \in running,
                       v[1] \notin broken, w[1] \notin broken
                PROVE  v[1] = w[1]
    BY DEF OneGeneration
  <2>. USE DEF LifeInvariant
  <2>1. \A t \in Threads : pc[t] = "start" => t \in Inside /\ held = 0 /\ mu = t
    BY Alone DEF Places, StopPlaces
  <2>2. CASE \E t \in Threads : pc[t] = "start"
    BY <2>1, <2>2 DEF Owned
  <2>3. CASE ~\E t \in Threads : pc[t] = "start"
    BY <2>3 DEF Owned
  <2>. QED
    BY <2>2, <2>3
<1>. QED
  BY InitLife, LifePreserved, <1>1, PTL DEF Spec

(* After Stop has stopped the Temporal workers only those of interrupted   *)
(* starts poll.                                                            *)
THEOREM StopIsFinal == Spec => []StoppedStaysStopped
<1>1. LifeInvariant => StoppedStaysStopped
  BY DEF LifeInvariant
<1>. QED
  BY InitLife, LifePreserved, <1>1, PTL DEF Spec

-----------------------------------------------------------------------------
(* A fresh cache.                                                          *)

(* While a reset or Serve has yet to look up the pid, no Temporal worker   *)
(* polls but for interrupted starts.                                       *)
LEMMA NobodyPolls ==
    ASSUME LifeInvariant, broken = {},
           pc["serve"] \in {"called", "wfPool", "alloc", "pid"} \/ \E t \in Resetters : pc[t] \in {"alloc", "pid"}
    PROVE  running = {}
<1>. SUFFICES ASSUME NEW w \in running PROVE FALSE
  OBVIOUS
<1>. USE DEF LifeInvariant
<1>1. held = 0
  <2>1. CASE pc["serve"] \in {"called", "wfPool", "alloc", "pid"}
    BY <2>1 DEF Places, Owned
  <2>2. CASE \E t \in Resetters : pc[t] \in {"alloc", "pid"}
    BY <2>2, ThreadsAre DEF Owned, Inside, Critical
  <2>. QED
    BY <2>1, <2>2
<1>2. PICK u \in Threads : pc[u] = "start" /\ work[u] = w[1]
  BY <1>1 DEF Owned
<1>3. u # "stop" /\ u \in Resetters \cup {"serve"}
  BY <1>2 DEF Places, StopPlaces, Threads
<1>4. Inside = {u}
  BY <1>2, <1>3, Alone
<1>5. CASE pc["serve"] \in {"called", "wfPool", "alloc", "pid"}
  <2>1. CASE u = "serve"
    BY <1>2, <1>5, <2>1
  <2>2. CASE u \in Resetters
    BY <1>2, <1>5, <2>2 DEF Places, Resetters
  <2>. QED
    BY <1>3, <2>1, <2>2
<1>6. CASE \E t \in Resetters : pc[t] \in {"alloc", "pid"}
  BY <1>2, <1>4, <1>6, ThreadsAre DEF Inside, Critical
<1>. QED
  BY <1>5, <1>6

(* An event that is sent or received leaves the others announced.          *)
LEMMA StaysAnnounced ==
    ASSUME NEW S, NEW q \in Seq(S), NEW pid, Announced(q, pid)
    PROVE  /\ \A e \in S : Announced(Append(q, e), pid)
           /\ q # << >> /\ (Head(q) = pid \/ Announced(Tail(q), pid))
<1>1. PICK i \in 1 .. Len(q) : q[i] = pid
  BY DEF Announced
<1>2. ASSUME NEW e \in S PROVE Announced(Append(q, e), pid)
  BY <1>1 DEF Announced
<1>3. q # << >>
  BY <1>1
<1>4. ASSUME Head(q) # pid PROVE Announced(Tail(q), pid)
  <2>1. i # 1 /\ i - 1 \in 1 .. Len(Tail(q))
    BY <1>1, <1>3, <1>4
  <2>2. Tail(q)[i - 1] = pid
    BY <1>1, <1>3, <2>1
  <2>. QED
    BY <2>1, <2>2 DEF Announced
<1>. QED
  BY <1>2, <1>3, <1>4

(* An event that is sent is announced.                                     *)
LEMMA AnnouncesLast ==
    ASSUME NEW S, NEW q \in Seq(S), NEW e \in S
    PROVE  Announced(Append(q, e), e)
<1>1. Len(q) + 1 \in 1 .. Len(Append(q, e)) /\ Append(q, e)[Len(q) + 1] = e
  OBVIOUS
<1>. QED
  BY <1>1 DEF Announced

(* Steps that touch neither pids nor events nor the cache, and take no     *)
(* thread where a fresh cache is needed.                                   *)
LEMMA StaysFresh ==
    ASSUME LifeInvariant, FreshInvariant,
           UNCHANGED <<wwPID, ww, bus, dropped, cached>>, subscribed' => subscribed, broken \subseteq broken',
           (wfPool' = wfPool /\ wwUp' = wwUp) \/ pc'["serve"] = "returned",
           pc'["loop"] \in Watching => pc["loop"] \in Watching,
           pc'["serve"] # "returned" => pc["serve"] # "returned",
           pc'["serve"] \in {"called", "wfPool", "alloc", "pid"} => pc["serve"] \in {"called", "wfPool", "alloc", "pid"},
           pc'["serve"] \in {"called", "wfPool"} => pc["serve"] \in {"called", "wfPool"},
           pc["serve"] \in {"alloc", "pid", "panicked"} =>
               pc'["serve"] \in {"alloc", "pid", "panicked", "returned"},
           \A t \in Resetters : pc'[t] \in {"alloc", "pid"} => pc[t] \in {"alloc", "pid"}
    PROVE  FreshInvariant'
<1>1. WatchesOrHears'
  BY DEF FreshInvariant, WatchesOrHears, DeathMissed, Announced
<1>2. NothingMissed'
  BY DEF FreshInvariant, NothingMissed
<1>3. PurgedFirst'
  <2>1. broken' = {} => broken = {}
    OBVIOUS
  <2>. QED
    BY <2>1 DEF FreshInvariant, PurgedFirst
<1>. QED
  BY <1>1, <1>2, <1>3 DEF FreshInvariant
(* Serve builds the pool and subscribes: nothing is old yet.               *)
LEMMA ServingFresh ==
    ASSUME LifeInvariant, FreshInvariant, ServeActivityPool \/ ServeWorkflowPool \/ ServeDone
    PROVE  FreshInvariant'
<1>. USE ThreadsAre DEF LifeInvariant
<1>0. pc \in [Threads -> Locations]
  BY DEF TypeOK
<1>1. CASE ServeActivityPool
  <2>1. \E p \in {"wfPool", "returned"} : pc' = [pc EXCEPT !["serve"] = p]
    BY <1>1 DEF ServeActivityPool, ServeFails, Goto
  <2>2. UNCHANGED <<wwPID, ww, wwUp, wfPool, bus, dropped, subscribed, cached, broken>> /\ pc["serve"] = "called"
    BY <1>1 DEF ServeActivityPool, At, wwVars, busVars, workerVars
  <2>. QED
    BY <1>0, <2>1, <2>2, StaysFresh
<1>2. CASE ServeWorkflowPool
  <2>1. UNCHANGED <<wwPID, bus, dropped, subscribed, cached, broken>> /\ pc["serve"] = "wfPool"
    BY <1>2 DEF ServeWorkflowPool, At, busVars, workerVars
  <2>2. CASE wfPool' = "up" /\ ww' = 1 /\ wwUp' = TRUE /\ Goto("serve", "alloc")
    <3>1. /\ pc'["serve"] = "alloc" /\ \A t \in Threads : t # "serve" => pc'[t] = pc[t]
      BY <1>0, <2>2 DEF Goto
    <3>2. NothingMissed' /\ wwPID = 0 /\ ww = 0 /\ ~subscribed
      BY <2>1, <2>2, <3>1 DEF FreshInvariant, NothingMissed
    <3>3. WatchesOrHears'
      BY <2>1, <3>2 DEF WatchesOrHears
    <3>4. PurgedFirst'
      <4>1. broken = {} => cached = {}
        BY <2>1 DEF FreshInvariant, PurgedFirst
      <4>. QED
        BY <2>1, <2>2, <3>2, <4>1 DEF PurgedFirst
    <3>. QED
      BY <3>2, <3>3, <3>4 DEF FreshInvariant
  <2>3. CASE ServeFails /\ UNCHANGED <<wfPool, ww, wwUp>>
    BY <1>0, <2>1, <2>3, StaysFresh DEF ServeFails, Goto
  <2>. QED
    BY <1>2, <2>2, <2>3 DEF ServeWorkflowPool
<1>3. CASE ServeDone
  <2>1. UNCHANGED <<wfPool, wwPID, ww, wwUp, bus, dropped, cached, broken>> /\ pc["serve"] = "start"
    BY <1>3 DEF ServeDone, AllStarted, At, poolVars, wwVars, workerVars
  <2>2. CASE subscribed' = TRUE /\ pc' = [pc EXCEPT !["serve"] = "returned", !["loop"] = "select"]
    <3>1. /\ pc'["serve"] = "returned" /\ pc'["loop"] = "select"
          /\ \A t \in Threads : t # "serve" /\ t # "loop" => pc'[t] = pc[t]
      BY <1>0, <2>2
    <3>2. NothingMissed'
      BY <3>1 DEF NothingMissed
    <3>3. wwPID = ww
      BY <2>1 DEF FreshInvariant, NothingMissed
    <3>4. WatchesOrHears'
      BY <2>1, <3>3 DEF WatchesOrHears
    <3>5. PurgedFirst'
      BY <2>1, <3>1 DEF FreshInvariant, PurgedFirst
    <3>. QED
      BY <3>2, <3>4, <3>5 DEF FreshInvariant
  <2>3. CASE ServeFails /\ UNCHANGED subscribed
    BY <1>0, <2>1, <2>3, StaysFresh DEF ServeFails, Goto
  <2>. QED
    BY <1>3, <2>2, <2>3 DEF ServeDone
<1>. QED
  BY <1>1, <1>2, <1>3

(* Reset purges first, ...                                                 *)
LEMMA PurgingFresh ==
    ASSUME LifeInvariant, FreshInvariant, NEW t \in Resetters, ResetBegins(t)
    PROVE  FreshInvariant'
<1>. USE ThreadsAre DEF LifeInvariant
<1>0. pc \in [Threads -> Locations]
  BY DEF TypeOK
<1>1. /\ UNCHANGED <<wfPool, wwPID, ww, wwUp, bus, dropped, subscribed, broken>>
      /\ cached' = {} /\ pc' = [pc EXCEPT ![t] = "alloc"]
  BY DEF ResetBegins, Goto, Purge, poolVars, wwVars, busVars
<1>2. NothingMissed'
  BY <1>0, <1>1 DEF FreshInvariant, NothingMissed
<1>3. WatchesOrHears'
  BY <1>0, <1>1 DEF FreshInvariant, WatchesOrHears, DeathMissed, Watching, Announced
<1>4. PurgedFirst'
  BY <1>1 DEF FreshInvariant, PurgedFirst
<1>. QED
  BY <1>2, <1>3, <1>4 DEF FreshInvariant

(* ... and then it looks up the pid, as Serve does.                        *)
LEMMA LookingUpFresh ==
    ASSUME LifeInvariant, FreshInvariant, NEW t \in Resetters \cup {"serve"},
           CheckAllocated(t) \/ ReadPID(t)
    PROVE  FreshInvariant'
<1>. USE ThreadsAre DEF LifeInvariant
<1>0. pc \in [Threads -> Locations] /\ t \in Threads
  BY DEF TypeOK
<1>1. /\ UNCHANGED <<wfPool, ww, wwUp, bus, dropped, subscribed, broken, cached>>
      /\ pc[t] \in {"alloc", "pid"}
  BY DEF CheckAllocated, ReadPID, At, poolVars, wwVars, busVars, workerVars
<1>2. \/ wwPID' = ww /\ \E p \in {"info", "actReset"} : pc' = [pc EXCEPT ![t] = p]
      \/ wwPID' = wwPID /\ \E p \in {"pid", "returned", "panicked"} : pc' = [pc EXCEPT ![t] = p]
  BY DEF CheckAllocated, ReadPID, GivesUp, Panics, CurrentPID, Goto
<1>3. CASE wwPID' = ww /\ \E p \in {"info", "actReset"} : pc' = [pc EXCEPT ![t] = p]
  <2>1. broken = {} => cached = {}
    BY <1>1 DEF FreshInvariant, PurgedFirst
  <2>2. NothingMissed'
    BY <1>0, <1>1, <1>3 DEF FreshInvariant, NothingMissed
  <2>3. WatchesOrHears'
    BY <1>1, <1>3 DEF WatchesOrHears
  <2>4. PurgedFirst'
    <3>1. ww \in Nat
      BY CountsAssumption DEF TypeOK
    <3>. QED
      BY <1>1, <1>3, <2>1, <3>1 DEF PurgedFirst
  <2>. QED
    BY <2>2, <2>3, <2>4 DEF FreshInvariant
<1>4. CASE wwPID' = wwPID /\ \E p \in {"pid", "returned", "panicked"} : pc' = [pc EXCEPT ![t] = p]
  <2>1. /\ pc'["loop"] \in Watching => pc["loop"] \in Watching
        /\ \A u \in Resetters : pc'[u] \in {"alloc", "pid"} => pc[u] \in {"alloc", "pid"}
        /\ pc'["serve"] = pc["serve"]
             \/ (pc["serve"] \in {"alloc", "pid"} /\ pc'["serve"] \in {"pid", "returned", "panicked"})
    BY <1>0, <1>1, <1>4 DEF Watching
  <2>. QED
    BY <1>1, <1>4, <2>1, StaysFresh
<1>. QED
  BY <1>2, <1>3, <1>4

(* The goroutine takes the event of the pid it watches for as a reason to  *)
(* reset, and the others leave that one where it is.                       *)
LEMMA ReceivingFresh ==
    ASSUME LifeInvariant, FreshInvariant, LoopReceives
    PROVE  FreshInvariant'
<1>. USE ThreadsAre DEF LifeInvariant
<1>0. pc \in [Threads -> Locations]
  BY DEF TypeOK
<1>1. /\ UNCHANGED <<wfPool, wwPID, ww, wwUp, dropped, subscribed, cached, broken>>
      /\ pc["loop"] = "select" /\ bus # << >> /\ bus' = Tail(bus)
  BY DEF LoopReceives, At, poolVars, wwVars, workerVars
<1>2. /\ \A t \in Threads : t # "loop" => pc'[t] = pc[t]
      /\ pc'["loop"] = "reset" \/ (pc'["loop"] = "resetAP" /\ Head(bus) # wwPID)
  BY <1>0 DEF LoopReceives, Goto
<1>3. NothingMissed'
  BY <1>1, <1>2 DEF FreshInvariant, NothingMissed
<1>4. WatchesOrHears'
  <2>. SUFFICES ASSUME subscribed, pc'["loop"] \in Watching, wwPID # ww, ~DeathMissed
                PROVE  Announced(bus', wwPID)
    BY <1>1 DEF WatchesOrHears, DeathMissed, Announced
  <2>1. Head(bus) # wwPID
    BY <1>2 DEF Watching
  <2>2. Announced(bus, wwPID)
    BY <1>1 DEF FreshInvariant, WatchesOrHears, Watching
  <2>. QED
    BY <1>1, <2>1, <2>2, StaysAnnounced DEF TypeOK
<1>5. PurgedFirst'
  <2>1. \A t \in Resetters : pc'[t] \in {"alloc", "pid"} => pc[t] \in {"alloc", "pid"}
    BY <1>2
  <2>. QED
    BY <1>1, <1>2, <2>1 DEF FreshInvariant, PurgedFirst
<1>. QED
  BY <1>3, <1>4, <1>5 DEF FreshInvariant

(* Workers die, are replaced and announced; the others poll.               *)
LEMMA OutsideFresh ==
    ASSUME LifeInvariant, FreshInvariant, Outside, ~EarlyDeath
    PROVE  FreshInvariant'
<1>. USE ThreadsAre DEF LifeInvariant
<1>0. /\ UNCHANGED <<pc, wfPool, wwPID, subscribed, broken>>
      /\ ww \in Nat /\ wwPID \in Nat
  BY CountsAssumption DEF Outside, WorkflowWorkerDies, WorkflowWorkerReplaced, ActivityWorkerDies, Polls,
     poolVars, busVars, workerVars, TypeOK
<1>1. CASE WorkflowWorkerDies
  <2>1. subscribed /\ UNCHANGED <<ww, bus, dropped, cached>>
    BY <1>1 DEF WorkflowWorkerDies, busVars
  <2>2. pc["serve"] = "returned"
    BY <2>1 DEF FreshInvariant, NothingMissed
  <2>. QED
    BY <1>0, <2>1, <2>2, StaysFresh
<1>2. CASE WorkflowWorkerReplaced
  <2>1. wfPool = "up" /\ ~wwUp /\ ww' = ww + 1 /\ cached' = cached
    BY <1>2 DEF WorkflowWorkerReplaced
  <2>2. NothingMissed'
    BY <1>0, <2>1 DEF FreshInvariant, NothingMissed
  <2>3. WatchesOrHears'
    <3>. SUFFICES ASSUME subscribed, pc["loop"] \in Watching
                  PROVE  Announced(bus', wwPID) \/ wwPID \in dropped'
      BY <1>0 DEF WatchesOrHears, DeathMissed, Announced
    <3>1. ww \in Pids
      BY <1>0, <2>1, CountsAssumption DEF Counted, Pids, TypeOK
    <3>2. wwPID = ww \/ Announced(bus, wwPID) \/ wwPID \in dropped
      BY DEF FreshInvariant, WatchesOrHears, DeathMissed
    <3>3. CASE bus' = Append(bus, ww) /\ dropped' = dropped
      BY <3>1, <3>2, <3>3, AnnouncesLast, StaysAnnounced DEF TypeOK
    <3>4. CASE bus' = bus /\ dropped' = dropped \cup {ww}
      BY <3>2, <3>4 DEF Announced
    <3>. QED
      BY <1>2, <3>3, <3>4 DEF WorkflowWorkerReplaced, Publish
  <2>4. PurgedFirst'
    <3>1. \A p \in cached : p \in Nat
      BY DEF TypeOK, Pids
    <3>2. wwPID <= ww + 1 /\ \A p \in Nat : p <= ww => p <= ww + 1
      BY <1>0 DEF FreshInvariant, PurgedFirst
    <3>. QED
      BY <1>0, <2>1, <3>1, <3>2 DEF FreshInvariant, PurgedFirst
  <2>. QED
    BY <2>2, <2>3, <2>4 DEF FreshInvariant
<1>3. CASE ActivityWorkerDies
  <2>1. /\ UNCHANGED <<ww, wwUp, cached>>
        /\ bus' = bus \/ (bus' = Append(bus, Activity) /\ subscribed)
        /\ dropped \subseteq dropped'
    BY <1>3 DEF ActivityWorkerDies, Publish
  <2>2. NothingMissed'
    BY <1>0, <2>1 DEF FreshInvariant, NothingMissed
  <2>3. Announced(bus, wwPID) => Announced(bus', wwPID)
    <3>1. bus \in Seq(Pids \cup {Activity}) /\ Activity \in Pids \cup {Activity}
      BY DEF TypeOK
    <3>2. Announced(bus, wwPID) => Announced(Append(bus, Activity), wwPID)
      BY <3>1, StaysAnnounced
    <3>. QED
      BY <2>1, <3>2 DEF Announced
  <2>4. WatchesOrHears'
    BY <1>0, <2>1, <2>3 DEF FreshInvariant, WatchesOrHears, DeathMissed, Announced
  <2>5. PurgedFirst'
    BY <1>0, <2>1 DEF FreshInvariant, PurgedFirst
  <2>. QED
    BY <2>2, <2>4, <2>5 DEF FreshInvariant
<1>4. CASE Polls
  <2>1. UNCHANGED <<ww, wwUp, bus, dropped>> /\ running # {} /\ cached' = cached \cup {ww}
    BY <1>4 DEF Polls, wwVars, busVars
  <2>2. NothingMissed'
    BY <1>0, <2>1 DEF FreshInvariant, NothingMissed
  <2>3. WatchesOrHears'
    BY <1>0, <2>1 DEF FreshInvariant, WatchesOrHears, DeathMissed, Announced
  <2>4. PurgedFirst'
    BY <1>0, <2>1, NobodyPolls DEF FreshInvariant, PurgedFirst
  <2>. QED
    BY <2>2, <2>3, <2>4 DEF FreshInvariant
<1>. QED
  BY <1>1, <1>2, <1>3, <1>4 DEF Outside

(* The other steps have no part in it.                                     *)
LEMMA FreshPreserved ==
    ASSUME LifeInvariant, FreshInvariant, [Next]_vars, ~EarlyDeath
    PROVE  FreshInvariant'
<1>. USE ThreadsAre DEF LifeInvariant
<1>0. pc \in [Threads -> Locations]
  BY DEF TypeOK
<1>1. CASE UNCHANGED vars
  BY <1>1, StaysFresh DEF vars, poolVars, wwVars, busVars, workerVars
<1>2. ASSUME NEW t \in Resetters \cup {"serve"}, GetInfo(t) \/ StartWorker(t) PROVE FreshInvariant'
  <2>1. /\ UNCHANGED <<wfPool, wwPID, ww, wwUp, bus, dropped, subscribed, cached>> /\ broken \subseteq broken'
        /\ pc[t] \in {"info", "start"} /\ t \in Threads
    BY <1>2 DEF GetInfo, StartWorker, At, poolVars, wwVars, busVars
  <2>2. pc' = pc \/ \E p \in {"start", "returned"} : pc' = [pc EXCEPT ![t] = p]
    BY <1>2 DEF GetInfo, StartWorker, GivesUp, Goto
  <2>3. /\ pc'["loop"] \in Watching => pc["loop"] \in Watching
        /\ \A u \in Resetters : pc'[u] \in {"alloc", "pid"} => pc[u] \in {"alloc", "pid"}
        /\ pc'["serve"] # "returned" => pc["serve"] # "returned"
        /\ pc'["serve"] = pc["serve"]
             \/ (pc["serve"] \in {"info", "start"} /\ pc'["serve"] \in {"start", "returned"})
    BY <1>0, <2>1, <2>2 DEF Watching, Places, ServePlaces
  <2>. QED
    BY <2>1, <2>3, StaysFresh
<1>3. ASSUME NEW t \in Resetters, ResetCalled(t) \/ ResetActivities(t) \/ ResetDone(t)
      PROVE  FreshInvariant'
  <2>1. /\ UNCHANGED <<wfPool, wwPID, ww, wwUp, bus, dropped, subscribed, cached, broken>>
        /\ pc[t] = "idle" \/ pc[t] \in {"actReset", "start"}
    BY <1>3 DEF ResetCalled, ResetActivities, ResetDone, AllStarted, At, poolVars, wwVars, busVars, workerVars
  <2>2. \E p \in {"reset", "info", "select", "returned"} :
           /\ pc' = [pc EXCEPT ![t] = p]
           /\ p \in Watching => pc[t] \in Watching
    BY <1>3 DEF ResetCalled, ResetActivities, ResetDone, AllStarted, At, GivesUp, Goto, Watching
  <2>3. /\ pc'["loop"] \in Watching => pc["loop"] \in Watching
        /\ \A u \in Resetters : pc'[u] \in {"alloc", "pid"} => pc[u] \in {"alloc", "pid"}
        /\ pc'["serve"] = pc["serve"]
    BY <1>0, <2>2
  <2>. QED
    BY <2>1, <2>3, StaysFresh
<1>4. CASE LoopStops \/ ResetAP
  <2>1. UNCHANGED <<wfPool, wwPID, ww, wwUp, bus, dropped, subscribed, cached, broken>>
    BY <1>4 DEF LoopStops, ResetAP, poolVars, wwVars, busVars, workerVars
  <2>2. pc["loop"] \in Watching /\ \E p \in {"select", "returned"} : pc' = [pc EXCEPT !["loop"] = p]
    BY <1>4 DEF LoopStops, ResetAP, At, Goto, Watching
  <2>. QED
    BY <1>0, <2>1, <2>2, StaysFresh
<1>5. CASE StopBegins \/ Stopping
  <2>1. /\ UNCHANGED <<wwPID, ww, bus, dropped, cached, broken>> /\ (subscribed' => subscribed)
        /\ \E p \in StopPlaces : pc' = [pc EXCEPT !["stop"] = p]
    BY <1>5 DEF StopBegins, Stopping, StopSignals, StopDestroys, StopWorkers, StopTally, StopDone, Goto,
         wwVars, busVars, workerVars, StopPlaces
  <2>2. pc["serve"] = "returned"
    BY <1>5 DEF StopBegins, Stopping, StopSignals, StopDestroys, StopWorkers, StopTally, StopDone, At, Places
  <2>3. pc'["serve"] = "returned" /\ pc'["loop"] = pc["loop"] /\ \A u \in Resetters : pc'[u] = pc[u]
    BY <1>0, <2>1, <2>2
  <2>. QED
    BY <2>1, <2>2, <2>3, StaysFresh
<1>. QED
  BY <1>1, <1>2, <1>3, <1>4, <1>5, ServingFresh, PurgingFresh, LookingUpFresh,
     ReceivingFresh, OutsideFresh
     DEF Next, Serving, Looping, Resetting

(* If no workflow worker dies before Serve subscribes, then whatever       *)
(* deaths, resets by RPC, failed resets, late and lost events come:        *)
(* whenever the goroutine has nothing to do, the sticky cache holds        *)
(* executions of the live workflow worker only, and p.wwPID is its pid     *)
(* (plugin.go:182-222, Reset).  The one exception is the announcement of   *)
(* that very pid lost as p.events was full (plugin.go:140).                *)
THEOREM QuietIsFresh == ~EarlyDeath => (Spec => []QuietMeansFresh)
<1>1. Init => FreshInvariant
  <2>. SUFFICES ASSUME Init PROVE FreshInvariant
    OBVIOUS
  <2>. QED
    BY ThreadsAre DEF Init, FreshInvariant, WatchesOrHears, NothingMissed, PurgedFirst, Watching
<1>2. LifeInvariant /\ FreshInvariant => QuietMeansFresh
  <2>. SUFFICES ASSUME LifeInvariant, FreshInvariant, Quiet, ~DeathMissed
                PROVE  cached \subseteq {ww} /\ wwPID = ww
    BY DEF QuietMeansFresh
  <2>1. ~Announced(bus, wwPID)
    BY DEF Announced, Quiet
  <2>2. wwPID = ww
    BY <2>1 DEF Quiet, At, FreshInvariant, WatchesOrHears, Watching
  <2>3. ww \in Nat /\ \A p \in cached : p \in Nat
    BY CountsAssumption DEF LifeInvariant, TypeOK, Pids
  <2>4. \A p \in cached : ww <= p /\ p <= ww
    BY <2>2 DEF FreshInvariant, PurgedFirst, Quiet
  <2>. QED
    BY <2>2, <2>3, <2>4
<1>3. ASSUME ~EarlyDeath PROVE Spec => []QuietMeansFresh
  <2>1. LifeInvariant /\ FreshInvariant /\ [Next]_vars => FreshInvariant'
    BY <1>3, FreshPreserved
  <2>. QED
    BY <1>1, <1>2, <2>1, InitLife, LifePreserved, PTL DEF Spec
<1>. QED
  BY <1>3
=============================================================================
