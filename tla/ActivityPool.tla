---------------------------- MODULE ActivityPool ----------------------------
(***************************************************************************)
(* Activities (src/aggregatedpool/activity.go), local activities           *)
(* (local_activity.go), the heartbeats of the PHP workers that run them    *)
(* (src/rpc.go), and what else competes with them for the pool and for the *)
(* mutex of the plugin: resets of the pool, AddWorker and RemoveWorker     *)
(* (src/workers_manager.go), Status and Ready (src/status.go).             *)
(*                                                                         *)
(* An attempt of an activity is a goroutine of the SDK inside `execute'.   *)
(* It keeps its context in the map `running' under its task token, which   *)
(* is new for every attempt: a token stands for its attempt here.  While a *)
(* PHP worker runs the attempt the worker may record heartbeats through    *)
(* RPC, one at a time; each is a goroutine of its own, which lives on when *)
(* the worker is killed.                                                   *)
(*                                                                         *)
(* External, modelled from how src/ uses it: the pool (a worker runs one   *)
(* payload at a time; Exec may fail at any moment; a Reset hands out no    *)
(* worker, waits for the busy ones and kills them when its context         *)
(* expires), sync.RWMutex (a waiting writer keeps new readers out), the    *)
(* SDK's contexts and the PHP worker.                                      *)
(***************************************************************************)
EXTENDS Naturals, Sequences, FiniteSets, Codec

CONSTANTS
    Activities,     \* attempts of activities
    Locals,         \* executions of local activities
    Resetters,      \* calls of ResetAP or Reset
    NumWorkers,     \* workers the pool starts with
    MaxWorkers,     \* bound: AddWorker stops here
    Free            \* nobody holds the mutex for writing

ASSUME DisjointAssumption == Activities \cap Locals = {}
ASSUME WorkersAssumption ==
    NumWorkers \in Nat /\ MaxWorkers \in Nat /\ NumWorkers <= MaxWorkers
ASSUME ResettersAssumption == Free \notin Resetters /\ "serve" \notin Resetters \cup {Free}

Attempts == Activities \cup Locals

VARIABLES
    disabled,       \* config.DisableActivityWorkers
    serve,          \* Serve: "starting", "served" or "failed"
    writer,         \* p.mu: who holds it for writing, ...
    waiting,        \* ... the resets that wait for it,
    remove,         \* RemoveWorker: "idle", or "taking" a worker with p.mu read-locked
    resets,         \* the resets that have begun
    probe,          \* Status or Ready: asked, or how it was answered
    size,           \* workers of the pool
    running,        \* Activity.running: its keys
    stage,          \* where each attempt is, or how it ended
    result,         \* what Exec returned to an attempt: a reply or an error
    ctx,            \* the context of each attempt
    heartbeat       \* the heartbeat of each attempt: where it is, or its answer

lockVars == <<writer, waiting, remove, resets>>
attemptVars == <<running, stage, result, ctx, heartbeat>>
vars == <<disabled, serve, lockVars, probe, size, attemptVars>>

-----------------------------------------------------------------------------
(* How an attempt ends: "unsent" and "panic" before its message was handed *)
(* to the pool, with the context stored.                                   *)
Outcomes == {"result", "failure", "pending", "error", "unsent", "panic"}
InCall == {"called", "checked", "found", "compared"}
HeartbeatAnswers == {"live", "canceled", "paused", "unknown", "refused", "malformed"}
ProbeAnswers == {"ok", "unavailable", "panic"}

TypeOK ==
    /\ disabled \in BOOLEAN
    /\ serve \in {"starting", "served", "failed"}
    /\ writer \in Resetters \cup {"serve", Free}
    /\ waiting \subseteq resets /\ resets \subseteq Resetters
    /\ remove \in {"idle", "taking"}
    /\ probe \in {"none", "asked"} \cup ProbeAnswers
    /\ size \in 0 .. MaxWorkers
    /\ running \subseteq Activities
    /\ stage \in [Attempts -> {"idle", "stored", "queued", "busy", "back"} \cup Outcomes]
    /\ result \in [Attempts -> {"none", "reply", "error"}]
    /\ ctx \in [Attempts -> {"live", "canceled", "paused"}]
    /\ heartbeat \in [Attempts -> {"none"} \cup InCall \cup HeartbeatAnswers]

(* Serve holds the mutex; its first Temporal worker already polls.         *)
Init ==
    /\ disabled \in BOOLEAN
    /\ serve = "starting" /\ writer = "serve" /\ waiting = {} /\ resets = {}
    /\ remove = "idle" /\ probe = "none"
    /\ size = IF disabled THEN 0 ELSE NumWorkers
    /\ running = {}
    /\ stage = [a \in Attempts |-> "idle"]
    /\ result = [a \in Attempts |-> "none"]
    /\ ctx = [a \in Attempts |-> "live"]
    /\ heartbeat = [a \in Attempts |-> "none"]

-----------------------------------------------------------------------------
(* The mutex.  A section that only reads and does not block is one action, *)
(* enabled when it could read-lock.                                        *)
WithoutRLock == TRUE
CanRLock == writer = Free /\ waiting = {}
CanLock == writer = Free /\ remove = "idle"

(* Serve ends: with the definitions and the pools in place, or with an     *)
(* error and without them.                                                 *)
ServeEnds(how) ==
    /\ serve = "starting"
    /\ serve' = how
    /\ writer' = Free
    /\ UNCHANGED <<disabled, waiting, remove, resets, probe, size, attemptVars>>

-----------------------------------------------------------------------------
(* Attempts.                                                               *)

Busy == {a \in Attempts : stage[a] = "busy"}
Moves(a, to) == stage' = [stage EXCEPT ![a] = to]

(* execute: the context is stored, unless the details of an earlier        *)
(* heartbeat cannot be read.  Nothing is registered when the activity      *)
(* workers are disabled.                                                   *)
Execute(a) ==
    /\ a \in Activities /\ stage[a] = "idle" /\ ~disabled
    /\ \/ running' = running \cup {a} /\ Moves(a, "stored")
       \/ Moves(a, "error") /\ UNCHANGED running
    /\ UNCHANGED <<disabled, serve, lockVars, probe, size, result, ctx, heartbeat>>

(* The details of the last heartbeat are appended to the arguments.  The   *)
(* data converter hands over a nil pointer for an activity without input:  *)
(* appending to it panics (the SDK recovers).                              *)
AppendPanics(noInput, details) == noInput /\ details

(* Then the message is encoded.  Neither a panic nor an error forgets the  *)
(* context.                                                                *)
Prepare(a) ==
    /\ stage[a] = "stored"
    /\ \E noInput, details \in BOOLEAN :
         IF AppendPanics(noInput, details)
           THEN Moves(a, "panic")
           ELSE Moves(a, "unsent") \/ Moves(a, "queued")
    /\ UNCHANGED <<disabled, serve, lockVars, probe, size, running, result, ctx, heartbeat>>

StoreLA(a) ==
    /\ a \in Locals /\ stage[a] = "idle"
    /\ Moves(a, "queued")
    /\ running' = running \cup {a}
    /\ UNCHANGED <<disabled, serve, lockVars, probe, size, result, ctx, heartbeat>>

(* ExecuteLA: a token of its own, which is stored nowhere.                 *)
ExecuteLA(a) ==
    /\ a \in Locals /\ stage[a] = "idle"
    /\ Moves(a, "queued") \/ Moves(a, "error")
    /\ UNCHANGED <<disabled, serve, lockVars, probe, size, running, result, ctx, heartbeat>>

(* The pool has a free worker, and no reset drains it.                     *)
FreeWorker == Cardinality(Busy) < size /\ writer \notin Resetters

Take(a) ==
    /\ stage[a] = "queued"
    /\ FreeWorker
    /\ Moves(a, "busy")
    /\ UNCHANGED <<disabled, serve, lockVars, probe, size, running, result, ctx, heartbeat>>

(* Replies of a worker: "none" is an empty channel, "stream" a frame with  *)
(* the flag STREAM, "error" a failed exchange, "reply" a body to decode.   *)
doNotCompleteOnReturn == "doNotCompleteOnReturn"
Ok == Msg(1, NoCommand, NoOptions, TRUE, NoFailure, <<"result">>)
Bodies ==
    {EmptyBody, Garbage, Body(<<Ok>>), Body(<<Ok, Ok>>),
     Body(<<Msg(1, NoCommand, NoOptions, TRUE, "failed", << >>)>>),
     Body(<<Msg(1, NoCommand, NoOptions, TRUE, doNotCompleteOnReturn, << >>)>>),
     Body(<<Msg(1, "NoSuchCommand", NoOptions, TRUE, NoFailure, << >>)>>)}
Replies == {[flag |-> f, body |-> EmptyBody] : f \in {"error", "stream", "none"}}
             \cup {[flag |-> "reply", body |-> b] : b \in Bodies}

(* What `execute' makes of the reply.                                      *)
Outcome(reply) ==
    LET out == Decode(reply.body)
    IN  IF reply.flag # "reply" \/ out.err \/ Len(out.messages) # 1 THEN "error"
        ELSE IF out.messages[1].failure = NoFailure THEN "result"
        ELSE IF out.messages[1].failure = doNotCompleteOnReturn THEN "pending"
        ELSE "failure"

(* The worker answers: not while it waits for the answer to a heartbeat.   *)
Finish(a) ==
    /\ stage[a] = "busy" /\ heartbeat[a] \notin InCall
    /\ Moves(a, "back")
    /\ result' = [result EXCEPT ![a] = "reply"]
    /\ heartbeat' = [heartbeat EXCEPT ![a] = "none"]
    /\ UNCHANGED <<disabled, serve, lockVars, probe, size, running, ctx>>

(* A heartbeat that is under way goes on without the worker that sent it.  *)
Orphaned(hb) == [a \in Attempts |-> IF hb[a] \in InCall THEN hb[a] ELSE "none"]

(* Exec fails, before or after the worker has the payload: no worker in    *)
(* time, the worker died or was killed.                                    *)
ExecFails(a) ==
    /\ stage[a] \in {"queued", "busy"}
    /\ Moves(a, "back")
    /\ result' = [result EXCEPT ![a] = "error"]
    /\ heartbeat' = [heartbeat EXCEPT ![a] = Orphaned(heartbeat)[a]]
    /\ UNCHANGED <<disabled, serve, lockVars, probe, size, running, ctx>>

(* Back from Exec, `execute' forgets the context and looks at the reply.   *)
KeepFailed(r, a) == IF result[a] = "error" THEN r ELSE r \ {a}
Forget(r, a) == r \ {a}

Return(a) ==
    /\ stage[a] = "back"
    /\ running' = Forget(running, a)
    /\ \/ result[a] = "reply" /\ \E reply \in Replies : Moves(a, Outcome(reply))
       \/ result[a] = "error" /\ Moves(a, "error")
    /\ result' = [result EXCEPT ![a] = "none"]
    /\ UNCHANGED <<disabled, serve, lockVars, probe, size, ctx, heartbeat>>

(* The SDK ends the context: a cancellation or a pause from the server, a  *)
(* timeout, a stopped Temporal worker, or the end of the attempt.  Nobody  *)
(* looks at the context of a local activity.                               *)
ContextEnds(a, cause) ==
    /\ a \in Activities /\ stage[a] # "idle" /\ ctx[a] = "live"
    /\ ctx' = [ctx EXCEPT ![a] = cause]
    /\ UNCHANGED <<disabled, serve, lockVars, probe, size, running, stage, result, heartbeat>>

-----------------------------------------------------------------------------
(* RecordActivityHeartbeat.                                                *)

Goes(a, to) == heartbeat' = [heartbeat EXCEPT ![a] = to]

(* Nobody reads the answer when the worker is gone.                        *)
Answers(a, how) == Goes(a, IF stage[a] = "busy" THEN how ELSE "none")

HeartbeatOnly == UNCHANGED <<disabled, serve, lockVars, probe, size, running, stage, result, ctx>>

RecordActivityHeartbeat(a) ==
    /\ stage[a] = "busy" /\ heartbeat[a] \notin InCall
    /\ Goes(a, "called") \/ Goes(a, "malformed")
    /\ HeartbeatOnly

DefinitionUnlocked(a) ==
    /\ heartbeat[a] = "called"
    /\ \/ serve = "served" /\ Goes(a, "checked")
       \/ serve # "served" /\ Answers(a, "refused")
    /\ HeartbeatOnly

(* getActDef, which read-locks.                                            *)
CheckDefinition(a) ==
    /\ heartbeat[a] = "called" /\ CanRLock
    /\ \/ serve = "served" /\ Goes(a, "checked")
       \/ serve # "served" /\ Answers(a, "refused")
    /\ HeartbeatOnly

(* GetActivityContext, read-locked once more.                              *)
GetActivityContext(a) ==
    /\ heartbeat[a] = "checked" /\ CanRLock
    /\ \/ a \in running /\ Goes(a, "found")
       \/ a \notin running /\ Answers(a, "unknown")
    /\ HeartbeatOnly

(* The heartbeat is recorded, then the cause of the context compared ...   *)
CompareCause(a) ==
    /\ heartbeat[a] = "found"
    /\ \/ ctx[a] = "paused" /\ Answers(a, "paused")
       \/ ctx[a] # "paused" /\ Goes(a, "compared")
    /\ HeartbeatOnly

(* ... and only then is the context asked whether it is done.              *)
IgnoreDone(a) == "live"
SelectDone(a) == IF ctx[a] = "live" THEN "live" ELSE "canceled"

AnswerHeartbeat(a) ==
    /\ heartbeat[a] = "compared"
    /\ Answers(a, SelectDone(a))
    /\ HeartbeatOnly

-----------------------------------------------------------------------------
(* The activity pool is reset, by ResetAP or by Reset.                     *)

ResetCalled(r) ==
    /\ r \in Resetters \ resets /\ serve = "served"
    /\ resets' = resets \cup {r}
    /\ waiting' = waiting \cup {r}
    /\ UNCHANGED <<disabled, serve, writer, remove, probe, size, attemptVars>>

ResetLocks(r) ==
    /\ r \in waiting /\ CanLock
    /\ writer' = r
    /\ waiting' = waiting \ {r}
    /\ UNCHANGED <<disabled, serve, remove, resets, probe, size, attemptVars>>

(* Its 30 seconds are over: the busy workers are killed.                   *)
NeverExpires(r) == FALSE
ResetExpires(r) ==
    /\ writer = r /\ r \in Resetters /\ Busy # {}
    /\ stage' = [a \in Attempts |-> IF a \in Busy THEN "back" ELSE stage[a]]
    /\ result' = [a \in Attempts |-> IF a \in Busy THEN "error" ELSE result[a]]
    /\ heartbeat' = Orphaned(heartbeat)
    /\ UNCHANGED <<disabled, serve, lockVars, probe, size, running, ctx>>

ResetKeepsLock(r) ==
    /\ writer = r /\ r \in Resetters /\ Busy = {}
    /\ size' \in {size, 0}
    /\ UNCHANGED <<disabled, serve, lockVars, probe, attemptVars>>

(* All workers are stopped: new ones are allocated, or that fails.         *)
ResetEnds(r) ==
    /\ writer = r /\ r \in Resetters /\ Busy = {}
    /\ writer' = Free
    /\ size' \in {size, 0}
    /\ UNCHANGED <<disabled, serve, waiting, remove, resets, probe, attemptVars>>

-----------------------------------------------------------------------------
(* The workers manager.                                                    *)

AddWorker ==
    /\ serve = "served" /\ CanRLock /\ size < MaxWorkers
    /\ size' = size + 1
    /\ UNCHANGED <<disabled, serve, lockVars, probe, attemptVars>>

(* RemoveWorker keeps the mutex read-locked while it waits for a worker.   *)
RemoveWorker ==
    /\ serve = "served" /\ CanRLock /\ remove = "idle" /\ size > 0
    /\ remove' = "taking"
    /\ UNCHANGED <<disabled, serve, writer, waiting, resets, probe, size, attemptVars>>

(* It gets one, or its context expires.                                    *)
RemoveEnds ==
    /\ remove = "taking"
    /\ remove' = "idle"
    /\ size' = size \/ (FreeWorker /\ size' = size - 1)
    /\ UNCHANGED <<disabled, serve, writer, waiting, resets, probe, attemptVars>>

-----------------------------------------------------------------------------
(* Health checks.  With the activity workers disabled it is the workflow   *)
(* worker that is looked at, and when that is not well the empty activity  *)
(* pool.  `wf': the workflow worker is listed and in the state asked for.  *)
CodeFor(kind, wf) ==
    LET well == IF kind = "status" THEN size > 0 ELSE Cardinality(Busy) < size
    IN  IF (disabled /\ wf) \/ well THEN "ok" ELSE "unavailable"

Probe ==
    /\ probe # "asked"
    /\ probe' = "asked"
    /\ UNCHANGED <<disabled, serve, lockVars, size, attemptVars>>

(* The pools are nil interfaces until Serve has succeeded.                 *)
AnswerProbe ==
    /\ probe = "asked" /\ CanRLock
    /\ \/ /\ serve = "served"
          /\ \E kind \in {"status", "ready"}, wf \in BOOLEAN : probe' = CodeFor(kind, wf)
       \/ serve # "served" /\ probe' = "panic"
    /\ UNCHANGED <<disabled, serve, lockVars, size, attemptVars>>

-----------------------------------------------------------------------------
Attempt(a) == Prepare(a) \/ Return(a)
HeartbeatStep(a) ==
    CheckDefinition(a) \/ GetActivityContext(a) \/ CompareCause(a) \/ AnswerHeartbeat(a)
Resetting(r) == ResetLocks(r) \/ ResetExpires(r) \/ ResetEnds(r)

Next ==
    \/ \E how \in {"served", "failed"} : ServeEnds(how)
    \/ \E a \in Attempts :
         \/ Execute(a) \/ ExecuteLA(a) \/ Take(a) \/ Finish(a) \/ ExecFails(a) \/ Attempt(a)
         \/ \E cause \in {"canceled", "paused"} : ContextEnds(a, cause)
         \/ RecordActivityHeartbeat(a) \/ HeartbeatStep(a)
    \/ \E r \in Resetters : ResetCalled(r) \/ Resetting(r)
    \/ AddWorker \/ RemoveWorker \/ RemoveEnds
    \/ Probe \/ AnswerProbe

(* Goroutines that can go on do.  A reader or writer that waits for the    *)
(* mutex gets it in the end: sync.RWMutex lets the waiting readers in when *)
(* a writer leaves, and no new ones when a writer waits.  Contexts with a  *)
(* deadline expire.  A PHP worker returns or sends its next heartbeat.     *)
(* Exec, the server, and whoever calls the plugin owe nothing.             *)
Fairness ==
    /\ WF_vars(\E how \in {"served", "failed"} : ServeEnds(how))
    /\ \A a \in Attempts :
         /\ WF_vars(Attempt(a))
         /\ SF_vars(HeartbeatStep(a))
         /\ WF_vars(RecordActivityHeartbeat(a) \/ Finish(a))
    /\ \A r \in Resetters : SF_vars(Resetting(r))
    /\ WF_vars(RemoveEnds)
    /\ SF_vars(AnswerProbe)

Spec == Init /\ [][Next]_vars /\ Fairness

-----------------------------------------------------------------------------
(* Properties.                                                             *)

InFlight == {a \in Activities : stage[a] \in {"stored", "queued", "busy", "back"}}

(* Attempts whose context is stored and never forgotten.                   *)
Leaked == {a \in Activities : stage[a] \in {"unsent", "panic"}}

(* The map of running activities holds the attempts that are under way and *)
(* those that broke off between the storing of their context and Exec, and *)
(* no others: whatever becomes of the worker, of a reset, of the context   *)
(* or of the reply, an attempt that was handed to the pool leaves the map, *)
(* with a result or with an error.                                         *)
RunningIsInFlight == running = InFlight \cup Leaked

(* A worker that runs an activity is never told that its activity is not   *)
(* running, nor that there is no activity definition - even while Serve,   *)
(* whose Temporal workers poll before it is done, or a reset is under way. *)
(* Only a Serve that failed leaves workers behind that are turned away.    *)
LivingIsFound ==
    \A a \in Activities : stage[a] = "busy" =>
        /\ heartbeat[a] # "unknown"
        /\ heartbeat[a] = "refused" => serve = "failed"

(* A health check never meets the nil pools of a Serve that is under way.  *)
ProbeWaitsForServe == probe = "panic" => serve = "failed"

(* A reset of the pool comes to an end, although the worker it waits for   *)
(* may wait, in a heartbeat, for the mutex the reset holds, and although   *)
(* RemoveWorker may wait for a worker with the mutex read-locked.          *)
ResetsEnd == \A r \in Resetters : r \in resets ~> (r \notin waiting /\ writer # r)

(* Every heartbeat is answered.                                            *)
HeartbeatsAnswered == \A a \in Attempts : heartbeat[a] \in InCall ~> heartbeat[a] \notin InCall

(* A worker whose activity is canceled or paused, and which goes on        *)
(* sending heartbeats, gets to know, unless the plugin failed to start.    *)
EndIsTold ==
    \A a \in Activities :
        (stage[a] = "busy" /\ ctx[a] # "live")
          ~> (stage[a] # "busy" \/ heartbeat[a] \in {"canceled", "paused"} \/ serve = "failed")
=============================================================================
