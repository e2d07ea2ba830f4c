------------------------ MODULE ActivityPool_proofs ------------------------
(***************************************************************************)
(* Proofs about ActivityPool, for any attempts, resets and workers: its    *)
(* types, what the map of running activities holds, and what heartbeats    *)
(* and health checks may be told.                                          *)
(***************************************************************************)
EXTENDS ActivityPool, TLAPS

(* Serve is under way as long as it holds the mutex; whoever takes a       *)
(* worker away keeps resets out, and there is a worker to take.            *)
LockInv ==
    /\ serve = "starting" <=> writer = "serve"
    /\ remove = "taking" => writer = Free /\ size > 0

(* Before an attempt has a worker there is no heartbeat of it.             *)
NoEarlyHeartbeat ==
    \A a \in Attempts : stage[a] \in {"idle", "stored", "queued"} => heartbeat[a] = "none"

PoolInvariant ==
    /\ TypeOK
    /\ LockInv
    /\ NoEarlyHeartbeat
    /\ RunningIsInFlight
    /\ LivingIsFound
    /\ ProbeWaitsForServe

(* Whatever a worker replies, `execute' ends in one of four ways.          *)
LEMMA OutcomeOf ==
    ASSUME NEW reply
    PROVE  Outcome(reply) \in {"result", "failure", "pending", "error"}
  BY DEF Outcome

LEMMA CodeIs ==
    ASSUME NEW kind, NEW wf
    PROVE  CodeFor(kind, wf) \in {"ok", "unavailable"}
  BY DEF CodeFor

LEMMA InitPool == Init => PoolInvariant
<1>. SUFFICES ASSUME Init PROVE PoolInvariant
  OBVIOUS
<1>1. TypeOK
  BY WorkersAssumption DEF Init, TypeOK
<1>2. LockInv /\ NoEarlyHeartbeat
  BY DEF Init, LockInv, NoEarlyHeartbeat
<1>3. RunningIsInFlight /\ LivingIsFound /\ ProbeWaitsForServe
  BY DEF Init, RunningIsInFlight, InFlight, Leaked, LivingIsFound, ProbeWaitsForServe, Attempts
<1>. QED
  BY <1>1, <1>2, <1>3 DEF PoolInvariant

(* Steps that leave the attempts alone: Serve, resets but for the killing, *)
(* the workers manager and the health checks.                              *)
LEMMA PluginStep ==
    ASSUME PoolInvariant,
           \/ \E how \in {"served", "failed"} : ServeEnds(how)
           \/ \E r \in Resetters : ResetCalled(r) \/ ResetLocks(r) \/ ResetEnds(r)
           \/ AddWorker \/ RemoveWorker \/ RemoveEnds \/ Probe \/ AnswerProbe
    PROVE  PoolInvariant'
<1>. USE DEF PoolInvariant
<1>1. ASSUME NEW how \in {"served", "failed"}, ServeEnds(how)
      PROVE  PoolInvariant'
  BY <1>1, ResettersAssumption DEF ServeEnds, attemptVars, TypeOK, LockInv, NoEarlyHeartbeat,
     RunningIsInFlight, InFlight, Leaked, LivingIsFound, ProbeWaitsForServe
<1>2. ASSUME NEW r \in Resetters, ResetCalled(r)
      PROVE  PoolInvariant'
  BY <1>2 DEF ResetCalled, attemptVars, TypeOK, LockInv, NoEarlyHeartbeat,
     RunningIsInFlight, InFlight, Leaked, LivingIsFound, ProbeWaitsForServe
<1>3. ASSUME NEW r \in Resetters, ResetLocks(r)
      PROVE  PoolInvariant'
  BY <1>3, ResettersAssumption DEF ResetLocks, CanLock, attemptVars, TypeOK, LockInv,
     NoEarlyHeartbeat, RunningIsInFlight, InFlight, Leaked, LivingIsFound, ProbeWaitsForServe
<1>4. ASSUME NEW r \in Resetters, ResetEnds(r)
      PROVE  PoolInvariant'
  BY <1>4, ResettersAssumption, WorkersAssumption DEF ResetEnds, attemptVars, TypeOK, LockInv,
     NoEarlyHeartbeat, RunningIsInFlight, InFlight, Leaked, LivingIsFound, ProbeWaitsForServe
<1>5. CASE AddWorker
  BY <1>5, WorkersAssumption DEF AddWorker, lockVars, attemptVars, TypeOK, LockInv,
     NoEarlyHeartbeat, RunningIsInFlight, InFlight, Leaked, LivingIsFound, ProbeWaitsForServe
<1>6. CASE RemoveWorker
  BY <1>6 DEF RemoveWorker, CanRLock, attemptVars, TypeOK, LockInv,
     NoEarlyHeartbeat, RunningIsInFlight, InFlight, Leaked, LivingIsFound, ProbeWaitsForServe
<1>7. CASE RemoveEnds
  BY <1>7, WorkersAssumption DEF RemoveEnds, attemptVars, TypeOK, LockInv,
     NoEarlyHeartbeat, RunningIsInFlight, InFlight, Leaked, LivingIsFound, ProbeWaitsForServe
<1>8. CASE Probe
  BY <1>8 DEF Probe, lockVars, attemptVars, TypeOK, LockInv, NoEarlyHeartbeat,
     RunningIsInFlight, InFlight, Leaked, LivingIsFound, ProbeWaitsForServe
<1>9. CASE AnswerProbe
  <2>1. \/ probe' \in {"ok", "unavailable"}
        \/ probe' = "panic" /\ serve = "failed"
    BY <1>9, CodeIs, ResettersAssumption DEF AnswerProbe, CanRLock, TypeOK, LockInv
  <2>. QED
    BY <1>9, <2>1 DEF AnswerProbe, lockVars, attemptVars, TypeOK, ProbeAnswers, LockInv,
       NoEarlyHeartbeat, RunningIsInFlight, InFlight, Leaked, LivingIsFound, ProbeWaitsForServe
<1>. QED
  BY <1>1, <1>2, <1>3, <1>4, <1>5, <1>6, <1>7, <1>8, <1>9

(* The steps of an attempt.                                                *)
LEMMA AttemptStep ==
    ASSUME PoolInvariant, NEW a \in Attempts,
           Execute(a) \/ Prepare(a) \/ ExecuteLA(a) \/ Take(a) \/ Finish(a) \/ ExecFails(a)
             \/ Return(a)
    PROVE  PoolInvariant'
<1>. USE DEF PoolInvariant
<1>0. UNCHANGED <<disabled, serve, lockVars, probe, size, ctx>>
  BY DEF Execute, Prepare, ExecuteLA, Take, Finish, ExecFails, Return
<1>1. CASE Execute(a)
  BY <1>0, <1>1 DEF Execute, Moves, lockVars, TypeOK, Outcomes, LockInv,
     NoEarlyHeartbeat, RunningIsInFlight, InFlight, Leaked, LivingIsFound, ProbeWaitsForServe, Attempts
<1>2. CASE Prepare(a)
  <2>1. /\ stage[a] = "stored"
        /\ \E to \in {"panic", "unsent", "queued"} : stage' = [stage EXCEPT ![a] = to]
        /\ UNCHANGED <<running, result, heartbeat>>
    BY <1>2 DEF Prepare, Moves
  <2>. QED
    BY <1>0, <2>1 DEF lockVars, TypeOK, Outcomes, LockInv, NoEarlyHeartbeat,
       RunningIsInFlight, InFlight, Leaked, LivingIsFound, ProbeWaitsForServe, Attempts
<1>3. CASE ExecuteLA(a)
  BY <1>0, <1>3, DisjointAssumption DEF ExecuteLA, Moves, lockVars, TypeOK, Outcomes, LockInv,
     NoEarlyHeartbeat, RunningIsInFlight, InFlight, Leaked, LivingIsFound, ProbeWaitsForServe, Attempts
<1>4. CASE Take(a)
  BY <1>0, <1>4 DEF Take, Moves, lockVars, TypeOK, LockInv,
     NoEarlyHeartbeat, RunningIsInFlight, InFlight, Leaked, LivingIsFound, ProbeWaitsForServe, Attempts
<1>5. CASE Finish(a)
  BY <1>0, <1>5 DEF Finish, Moves, lockVars, TypeOK, LockInv,
     NoEarlyHeartbeat, RunningIsInFlight, InFlight, Leaked, LivingIsFound, ProbeWaitsForServe, Attempts
<1>6. CASE ExecFails(a)
  <2>1. /\ stage[a] \in {"queued", "busy"} /\ stage' = [stage EXCEPT ![a] = "back"]
        /\ result' = [result EXCEPT ![a] = "error"]
        /\ \E h \in {"none"} \cup InCall : heartbeat' = [heartbeat EXCEPT ![a] = h]
        /\ running' = running
    BY <1>6 DEF ExecFails, Moves, Orphaned
  <2>. QED
    BY <1>0, <2>1 DEF lockVars, TypeOK, LockInv, NoEarlyHeartbeat,
       RunningIsInFlight, InFlight, Leaked, LivingIsFound, ProbeWaitsForServe, Attempts
<1>7. CASE Return(a)
  <2>1. /\ stage[a] = "back"
        /\ running' = running \ {a}
        /\ \E to \in {"result", "failure", "pending", "error"} :
             stage' = [stage EXCEPT ![a] = to]
        /\ result' = [result EXCEPT ![a] = "none"]
        /\ heartbeat' = heartbeat
    BY <1>7, OutcomeOf DEF Return, Forget, Moves
  <2>. QED
    BY <1>0, <2>1 DEF lockVars, TypeOK, Outcomes, LockInv, NoEarlyHeartbeat,
       RunningIsInFlight, InFlight, Leaked, LivingIsFound, ProbeWaitsForServe, Attempts
<1>. QED
  BY <1>1, <1>2, <1>3, <1>4, <1>5, <1>6, <1>7

(* A reset kills the workers that do not come back in time.                *)
LEMMA KillStep ==
    ASSUME PoolInvariant, NEW r \in Resetters, ResetExpires(r)
    PROVE  PoolInvariant'
<1>. USE DEF PoolInvariant
<1>1. /\ \A a \in Attempts : IF stage[a] = "busy" THEN stage'[a] = "back" ELSE stage'[a] = stage[a]
      /\ \A a \in Attempts : heartbeat'[a] \in {"none"} \cup InCall
      /\ \A a \in Attempts : heartbeat[a] = "none" => heartbeat'[a] = "none"
      /\ UNCHANGED <<disabled, serve, lockVars, probe, size, running, ctx>>
  BY DEF ResetExpires, Busy, Orphaned, InCall
<1>2. TypeOK'
  BY <1>1 DEF ResetExpires, Orphaned, lockVars, TypeOK, Busy
<1>3. LockInv' /\ NoEarlyHeartbeat' /\ ProbeWaitsForServe'
  BY <1>1 DEF lockVars, LockInv, NoEarlyHeartbeat, ProbeWaitsForServe
<1>4. RunningIsInFlight' /\ LivingIsFound'
  BY <1>1 DEF RunningIsInFlight, InFlight, Leaked, LivingIsFound, InCall, TypeOK, Attempts
<1>. QED
  BY <1>2, <1>3, <1>4

(* A heartbeat is told that its activity is unknown, or refused, only when *)
(* its worker is gone or Serve has failed.                                 *)
LEMMA HeartbeatStepKeeps ==
    ASSUME PoolInvariant, NEW a \in Attempts,
           RecordActivityHeartbeat(a) \/ HeartbeatStep(a)
    PROVE  PoolInvariant'
<1>. USE DEF PoolInvariant
<1>0. HeartbeatOnly
  BY DEF RecordActivityHeartbeat, HeartbeatStep, CheckDefinition, GetActivityContext,
     CompareCause, AnswerHeartbeat
<1>1. /\ stage[a] \notin {"idle", "stored", "queued"}
      /\ \E to \in {"none"} \cup InCall \cup HeartbeatAnswers :
           /\ heartbeat' = [heartbeat EXCEPT ![a] = to]
           /\ stage[a] = "busy" /\ to = "unknown" => a \notin running
           /\ stage[a] = "busy" /\ to = "refused" => serve = "failed"
  <2>1. CASE RecordActivityHeartbeat(a)
    BY <2>1 DEF RecordActivityHeartbeat, Goes, InCall, HeartbeatAnswers
  <2>2. CASE CheckDefinition(a)
    <3>1. serve # "served" => serve = "failed"
      BY <2>2, ResettersAssumption DEF CheckDefinition, CanRLock, LockInv, TypeOK
    <3>. QED
      BY <2>2, <3>1 DEF CheckDefinition, Goes, Answers, InCall, HeartbeatAnswers,
         NoEarlyHeartbeat
  <2>3. CASE GetActivityContext(a)
    BY <2>3 DEF GetActivityContext, Goes, Answers, InCall, HeartbeatAnswers, NoEarlyHeartbeat
  <2>4. CASE CompareCause(a)
    BY <2>4 DEF CompareCause, Goes, Answers, InCall, HeartbeatAnswers, NoEarlyHeartbeat
  <2>5. CASE AnswerHeartbeat(a)
    <3>1. SelectDone(a) \in {"live", "canceled"}
      BY DEF SelectDone
    <3>. QED
      BY <2>5, <3>1 DEF AnswerHeartbeat, Goes, Answers, InCall, HeartbeatAnswers,
         NoEarlyHeartbeat
  <2>. QED
    BY <2>1, <2>2, <2>3, <2>4, <2>5 DEF HeartbeatStep
<1>2. TypeOK' /\ LockInv' /\ ProbeWaitsForServe' /\ RunningIsInFlight'
  BY <1>0, <1>1 DEF HeartbeatOnly, lockVars, TypeOK, LockInv, ProbeWaitsForServe,
     RunningIsInFlight, InFlight, Leaked
<1>3. NoEarlyHeartbeat' /\ LivingIsFound'
  BY <1>0, <1>1 DEF HeartbeatOnly, TypeOK, NoEarlyHeartbeat, LivingIsFound, RunningIsInFlight,
     InFlight, Leaked, Attempts
<1>. QED
  BY <1>2, <1>3

LEMMA PoolPreserved == PoolInvariant /\ [Next]_vars => PoolInvariant'
<1>. SUFFICES ASSUME PoolInvariant, [Next]_vars PROVE PoolInvariant'
  OBVIOUS
<1>1. CASE UNCHANGED vars
  BY <1>1 DEF vars, lockVars, attemptVars, PoolInvariant, TypeOK, LockInv, NoEarlyHeartbeat,
     RunningIsInFlight, InFlight, Leaked, LivingIsFound, ProbeWaitsForServe
<1>2. ASSUME NEW a \in Attempts, NEW cause \in {"canceled", "paused"}, ContextEnds(a, cause)
      PROVE  PoolInvariant'
  BY <1>2 DEF ContextEnds, lockVars, PoolInvariant, TypeOK, LockInv, NoEarlyHeartbeat,
     RunningIsInFlight, InFlight, Leaked, LivingIsFound, ProbeWaitsForServe
<1>. QED
  BY <1>1, <1>2, PluginStep, AttemptStep, KillStep, HeartbeatStepKeeps
     DEF Next, Attempt, Resetting

(* Every action keeps the types: the pool never holds fewer workers than   *)
(* none or more than its bound, and nothing but an activity enters the map *)
(* of running activities.                                                  *)
THEOREM PoolTypeCorrect == Spec => []TypeOK
<1>1. PoolInvariant => TypeOK
  BY DEF PoolInvariant
<1>. QED
  BY InitPool, PoolPreserved, <1>1, PTL DEF Spec

(* The map of running activities holds exactly the attempts that are under *)
(* way and those that broke off between the storing of their context and   *)
(* Exec (activity.go:93-104): both Deletes after Exec (activity.go:110,    *)
(* 114) are needed, and no reset, kill or cancellation gets around them.   *)
THEOREM RunningMapExact == Spec => []RunningIsInFlight
<1>1. PoolInvariant => RunningIsInFlight
  BY DEF PoolInvariant
<1>. QED
  BY InitPool, PoolPreserved, <1>1, PTL DEF Spec

(* The worker of a living activity is never told that it is unknown, nor   *)
(* turned away while the plugin starts or resets.                          *)
THEOREM LivingAlwaysFound == Spec => []LivingIsFound
<1>1. PoolInvariant => LivingIsFound
  BY DEF PoolInvariant
<1>. QED
  BY InitPool, PoolPreserved, <1>1, PTL DEF Spec

(* A health check meets the nil pools of a failed Serve only.              *)
THEOREM ProbesWait == Spec => []ProbeWaitsForServe
<1>1. PoolInvariant => ProbeWaitsForServe
  BY DEF PoolInvariant
<1>. QED
  BY InitPool, PoolPreserved, <1>1, PTL DEF Spec
=============================================================================
