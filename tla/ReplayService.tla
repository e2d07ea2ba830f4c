--------------------------- MODULE ReplayService ---------------------------
(***************************************************************************)
(* The other calls of the plugin's RPC service (src/rpc.go): replays of a  *)
(* workflow from the server's history, from a downloaded file and from a   *)
(* history in the request, the download itself, the lists of names and the *)
(* API key.  Each call is a goroutine.  They run beside one another and    *)
(* beside Serve, which dials Temporal and sets the definitions under the   *)
(* mutex; the calls read p.temporal.client without the mutex and the       *)
(* definitions with it.  Callers that name the same file share it.         *)
(*                                                                         *)
(* A history is the number of its events.  A file is the length of the     *)
(* history written at its beginning and the length of all there is: it     *)
(* parses when they are the same and not zero.                             *)
(*                                                                         *)
(* External, modelled from how src/ uses it: Serve and resets but for what *)
(* the calls see of them, the Temporal server, the file system and the     *)
(* SDK's replayer.                                                         *)
(***************************************************************************)
EXTENDS Naturals, FiniteSets

CONSTANTS
    Callers,        \* RPC calls
    Kinds,          \* which methods they may call
    MaxEvents       \* bound: events of the workflow's history

ASSUME EventsAssumption == MaxEvents \in Nat \ {0}
ASSUME KindsAssumption ==
    Kinds \subseteq {"ReplayWorkflow", "DownloadWorkflowHistory", "ReplayFromJSON",
                     "ReplayWorkflowHistory", "GetNames"}

VARIABLES
    serve,          \* "init", "starting", "served" or "failed"
    client,         \* p.temporal.client is set
    locked,         \* p.mu is held for writing, by Serve or by a reset
    apiKey,         \* who stored p.apiKey: nobody, the worker's flags, RPC
    events,         \* the workflow's history at the server
    file,           \* the file of the callers' save path
    pc,             \* where each call is
    kind,           \* its method
    upto,           \* the history at the server when it asked for it
    hist,           \* the history it has fetched
    status,         \* its answer
    replayed,       \* how many events it has replayed
    sole,           \* downloads with the file to themselves since they opened it
    crashed         \* a nil client was dereferenced: the process is gone

pluginVars == <<serve, client, locked, apiKey, crashed>>
callVars == <<pc, kind, upto, hist, status, replayed, sole>>
vars == <<pluginVars, events, file, callVars>>

Statuses == {"none", "OK", "InvalidArgument", "Internal", "FailedPrecondition"}

TypeOK ==
    /\ serve \in {"init", "starting", "served", "failed"}
    /\ client \in BOOLEAN /\ locked \in BOOLEAN /\ crashed \in BOOLEAN
    /\ apiKey \in {"none", "flags", "rpc"}
    /\ events \in 1 .. MaxEvents
    /\ file \in [whole : 0 .. MaxEvents, size : 0 .. MaxEvents]
    /\ pc \in [Callers -> {"idle", "called", "open", "iterating", "fetched", "defined",
                           "registered", "done"}]
    /\ kind \in [Callers -> Kinds \cup {"none"}]
    /\ upto \in [Callers -> 0 .. MaxEvents] /\ hist \in [Callers -> 0 .. MaxEvents]
    /\ status \in [Callers -> Statuses]
    /\ replayed \in [Callers -> 0 .. MaxEvents]
    /\ sole \subseteq Callers

(* The file may be there from an earlier download.                         *)
Init ==
    /\ serve = "init" /\ client = FALSE /\ locked = FALSE /\ apiKey = "none" /\ crashed = FALSE
    /\ events = 1
    /\ \E n \in 0 .. MaxEvents : file = [whole |-> n, size |-> n]
    /\ pc = [c \in Callers |-> "idle"]
    /\ kind = [c \in Callers |-> "none"]
    /\ upto = [c \in Callers |-> 0] /\ hist = [c \in Callers |-> 0]
    /\ status = [c \in Callers |-> "none"]
    /\ replayed = [c \in Callers |-> 0]
    /\ sole = {}

-----------------------------------------------------------------------------
(* The plugin and the server.                                              *)

ServeBegins ==
    /\ serve = "init" /\ ~locked
    /\ serve' = "starting" /\ locked' = TRUE
    /\ UNCHANGED <<client, apiKey, events, file, callVars, crashed>>

(* initTemporalClient: a key among the flags of the worker replaces the    *)
(* key, then the client is dialed.  Serve ends when that fails.            *)
initTemporalClient ==
    /\ serve = "starting" /\ ~client
    /\ apiKey' \in {apiKey, "flags"}
    /\ \/ client' = TRUE /\ UNCHANGED <<serve, locked>>
       \/ serve' = "failed" /\ locked' = FALSE /\ UNCHANGED client
    /\ UNCHANGED <<events, file, callVars, crashed>>

ServedUndialed ==
    /\ serve = "starting"
    /\ serve' \in {"served", "failed"}
    /\ locked' = FALSE
    /\ UNCHANGED <<client, apiKey, events, file, callVars, crashed>>

ServeEnds ==
    /\ serve = "starting"
    /\ \/ client /\ serve' = "served"
       \/ serve' = "failed"
    /\ locked' = FALSE
    /\ UNCHANGED <<client, apiKey, events, file, callVars, crashed>>

(* Somebody resets the plugin.                                             *)
ResetBegins ==
    /\ serve = "served" /\ ~locked
    /\ locked' = TRUE
    /\ UNCHANGED <<serve, client, apiKey, events, file, callVars, crashed>>

ResetKeepsLock ==
    /\ serve = "served" /\ locked
    /\ UNCHANGED vars

ResetEnds ==
    /\ serve = "served" /\ locked
    /\ locked' = FALSE
    /\ UNCHANGED <<serve, client, apiKey, events, file, callVars, crashed>>

EventAdded ==
    /\ events < MaxEvents
    /\ events' = events + 1
    /\ UNCHANGED <<pluginVars, file, callVars>>

UpdateAPIKey ==
    /\ apiKey' = "rpc"
    /\ UNCHANGED <<serve, client, locked, crashed, events, file, callVars>>

-----------------------------------------------------------------------------
(* The calls.                                                              *)

Goto(c, place) == pc' = [pc EXCEPT ![c] = place]

Answer(c, how) ==
    /\ status' = [status EXCEPT ![c] = how]
    /\ Goto(c, "done")

(* A method is called; a request without what it needs is answered.        *)
Call(c, k) ==
    /\ pc[c] = "idle"
    /\ kind' = [kind EXCEPT ![c] = k]
    /\ \/ Goto(c, "called") /\ UNCHANGED status
       \/ k \notin {"ReplayWorkflowHistory", "GetNames"} /\ Answer(c, "InvalidArgument")
       \/ k = "ReplayWorkflowHistory" /\ Answer(c, "FailedPrecondition")
    /\ UNCHANGED <<pluginVars, events, file, upto, hist, replayed, sole>>

(* Downloads that have the file open.                                      *)
Writers == {c \in Callers : kind[c] = "DownloadWorkflowHistory"
                              /\ pc[c] \in {"open", "iterating", "fetched"}}

(* os.Create empties the file before anything has been fetched.            *)
Opened(f) == f
Truncated(f) == [whole |-> 0, size |-> 0]

CreateFile(c) ==
    /\ kind[c] = "DownloadWorkflowHistory" /\ pc[c] = "called"
    /\ \/ /\ file' = Truncated(file) /\ Goto(c, "open") /\ UNCHANGED status
          /\ sole' = IF Writers = {} THEN {c} ELSE {}
       \/ Answer(c, "Internal") /\ UNCHANGED <<file, sole>>
    /\ UNCHANGED <<pluginVars, events, kind, upto, hist, replayed>>

(* The history is asked for as it is now.  The client may be nil.          *)
Fetches(c) == \/ kind[c] = "ReplayWorkflow" /\ pc[c] = "called"
              \/ kind[c] = "DownloadWorkflowHistory" /\ pc[c] = "open"

GetWorkflowHistory(c) ==
    /\ Fetches(c)
    /\ \/ ~client /\ crashed' = TRUE /\ UNCHANGED <<pc, upto>>
       \/ /\ client /\ UNCHANGED crashed
          /\ upto' = [upto EXCEPT ![c] = events]
          /\ Goto(c, "iterating")
    /\ UNCHANGED <<serve, client, locked, apiKey, events, file, kind, hist, status, replayed, sole>>

(* The iteration, which may fail at any event or take too long.            *)
StopsIterating(c) == Goto(c, "fetched") /\ UNCHANGED status
IterationError(c) == Answer(c, "Internal")

IterateHistory(c) ==
    /\ pc[c] = "iterating"
    /\ \/ /\ hist[c] < upto[c]
          /\ hist' = [hist EXCEPT ![c] = @ + 1]
          /\ UNCHANGED <<pc, status>>
       \/ hist[c] < upto[c] /\ IterationError(c) /\ UNCHANGED hist
       \/ hist[c] = upto[c] /\ Goto(c, "fetched") /\ UNCHANGED <<hist, status>>
    /\ UNCHANGED <<pluginVars, events, file, kind, upto, replayed, sole>>

(* A write at the beginning of what may have grown meanwhile.              *)
Larger(m, n) == IF m < n THEN n ELSE m
Appended(f, n) == [whole |-> n, size |-> f.size + n]
Written(f, n) == [whole |-> n, size |-> Larger(f.size, n)]
PartlyWritten(f) == [whole |-> 0, size |-> Larger(f.size, 1)]

SaveHistory(c) ==
    /\ kind[c] = "DownloadWorkflowHistory" /\ pc[c] = "fetched"
    /\ \/ file' = Written(file, hist[c]) /\ Answer(c, "OK")
       \/ file' \in {file, PartlyWritten(file)} /\ Answer(c, "Internal")
    /\ UNCHANGED <<pluginVars, events, kind, upto, hist, replayed, sole>>

(* getWfDef, read-locked: there is a definition once Serve has succeeded.  *)
CanRLock == ~locked

GetWfDef(c) ==
    /\ \/ kind[c] = "ReplayWorkflow" /\ pc[c] = "fetched"
       \/ kind[c] \in {"ReplayFromJSON", "ReplayWorkflowHistory"} /\ pc[c] = "called"
    /\ CanRLock
    /\ \/ serve = "served" /\ Goto(c, "defined") /\ UNCHANGED status
       \/ serve # "served" /\ Answer(c, "FailedPrecondition")
    /\ UNCHANGED <<pluginVars, events, file, kind, upto, hist, replayed, sole>>

(* getWfDef once more, for the replayer: what is set stays set.            *)
RegisterWorkflow(c) ==
    /\ pc[c] = "defined" /\ CanRLock
    /\ Goto(c, "registered")
    /\ UNCHANGED <<pluginVars, events, file, kind, upto, hist, status, replayed, sole>>

(* What a replay has to replay: the history fetched, the one of the        *)
(* request, or of the file all or the part up to the last event asked for. *)
(* A file that does not parse is an error.                                 *)
Parses(f) == f.whole > 0 /\ f.whole = f.size

Given(c) ==
    CASE kind[c] = "ReplayWorkflow" -> {hist[c]}
      [] kind[c] = "ReplayWorkflowHistory" -> {1}
      [] OTHER -> IF Parses(file) THEN 1 .. file.whole ELSE {}

Replay(c) ==
    /\ pc[c] = "registered"
    /\ \/ /\ \E n \in Given(c) : replayed' = [replayed EXCEPT ![c] = n]
          /\ Answer(c, "OK")
       \/ Answer(c, "FailedPrecondition") /\ UNCHANGED replayed
    /\ UNCHANGED <<pluginVars, events, file, kind, upto, hist, sole>>

(* GetActivityNames and GetWorkflowNames.                                  *)
GetNames(c) ==
    /\ kind[c] = "GetNames" /\ pc[c] = "called" /\ CanRLock
    /\ Answer(c, "OK")
    /\ UNCHANGED <<pluginVars, events, file, kind, upto, hist, replayed, sole>>

-----------------------------------------------------------------------------
CallStep(c) == CreateFile(c) \/ GetWorkflowHistory(c) \/ IterateHistory(c) \/ SaveHistory(c)
                 \/ GetWfDef(c) \/ RegisterWorkflow(c) \/ Replay(c) \/ GetNames(c)
Serving == initTemporalClient \/ ServeEnds

Running == ServeBegins \/ Serving \/ ResetBegins \/ ResetEnds \/ EventAdded \/ UpdateAPIKey
             \/ \E c \in Callers : CallStep(c) \/ \E k \in Kinds : Call(c, k)

Gone == crashed /\ UNCHANGED vars

Next == (~crashed /\ Running) \/ Gone

(* Goroutines go on; Serve and a reset give the mutex back, and who waits  *)
(* to read-lock it gets in between two of them.  Temporal answers or the   *)
(* minute of the call's context is over.                                   *)
Fairness ==
    /\ WF_vars(~crashed /\ ServeEnds)
    /\ WF_vars(~crashed /\ ResetEnds)
    /\ \A c \in Callers : SF_vars(~crashed /\ CallStep(c))

Spec == Init /\ [][Next]_vars /\ Fairness

-----------------------------------------------------------------------------
(* Properties.                                                             *)

(* What a call that is answered OK has replayed or saved is the whole      *)
(* history that the server had when it was asked, however long fetching it *)
(* took and however the history grew meanwhile: never the part before the  *)
(* event at which the iteration broke off.                                 *)
OKIsWhole ==
    \A c \in Callers : status[c] = "OK" =>
        /\ kind[c] = "ReplayWorkflow" => replayed[c] = upto[c]
        /\ kind[c] = "DownloadWorkflowHistory" => hist[c] = upto[c]

(* A download answered OK leaves a file that parses and holds the history  *)
(* it fetched, be there an older and longer file, what earlier downloads   *)
(* left, failed ones too, or replays that read the file meanwhile - if no  *)
(* other download has had the file open since this one opened it.          *)
SavedParses ==
    \A c \in sole : status[c] = "OK" => Parses(file) /\ file.whole = hist[c]

(* The process is only lost to calls that came before Temporal was dialed. *)
CrashedBeforeDial == [][crashed' /\ ~crashed => ~client /\ serve # "served"]_vars

(* Every call is answered, also one that comes while Serve or a reset      *)
(* holds the mutex - unless the process is lost.                           *)
CallsAnswered == \A c \in Callers : pc[c] = "called" ~> (pc[c] = "done" \/ crashed)
=============================================================================
