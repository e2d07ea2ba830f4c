------------------------ MODULE ReplayService_proofs ------------------------
(***************************************************************************)
(* Proofs about ReplayService, for any callers and histories of any        *)
(* length: types, what a call that succeeds has fetched, what a            *)
(* download leaves in its file, and when the process is lost.              *)
(***************************************************************************)
EXTENDS ReplayService, TLAPS

(* Serve succeeds with a client only.                                      *)
ServedDialed == serve = "served" => client

(* A call has no answer before it is done.                                 *)
Unanswered == \A c \in Callers : pc[c] # "done" => status[c] = "none"

(* The iteration goes up to what the server had, which is an event at      *)
(* least, and a call gets past it with no less.  Only replays ask for a    *)
(* definition.                                                             *)
Replays == {"ReplayWorkflow", "ReplayFromJSON", "ReplayWorkflowHistory"}
Fetched ==
    \A c \in Callers :
        /\ pc[c] \in {"idle", "called", "open"} => hist[c] = 0
        /\ pc[c] = "iterating" => upto[c] > 0 /\ hist[c] <= upto[c]
        /\ pc[c] = "fetched" => upto[c] > 0 /\ hist[c] = upto[c]
        /\ pc[c] \in {"defined", "registered"} =>
             /\ kind[c] \in Replays
             /\ kind[c] = "ReplayWorkflow" => upto[c] > 0 /\ hist[c] = upto[c]

(* What a download has emptied stays empty while it is the only one.       *)
EmptyUntilSaved ==
    \A c \in sole :
        /\ kind[c] = "DownloadWorkflowHistory"
        /\ pc[c] \in {"open", "iterating", "fetched", "done"}
        /\ Writers \subseteq {c}
        /\ pc[c] # "done" => file = [whole |-> 0, size |-> 0]

CallsInvariant ==
    /\ TypeOK
    /\ ServedDialed
    /\ Unanswered
    /\ Fetched
    /\ EmptyUntilSaved
    /\ OKIsWhole
    /\ SavedParses

LEMMA InitCalls == Init => CallsInvariant
<1>. SUFFICES ASSUME Init PROVE CallsInvariant
  OBVIOUS
<1>1. client \in BOOLEAN /\ locked \in BOOLEAN /\ crashed \in BOOLEAN
  BY DEF Init
<1>2. events \in 1 .. MaxEvents
  BY EventsAssumption DEF Init
<1>3. file \in [whole : 0 .. MaxEvents, size : 0 .. MaxEvents]
  BY EventsAssumption DEF Init
<1>4. /\ upto \in [Callers -> 0 .. MaxEvents] /\ hist \in [Callers -> 0 .. MaxEvents]
      /\ replayed \in [Callers -> 0 .. MaxEvents]
  BY EventsAssumption DEF Init
<1>5. TypeOK
  BY <1>1, <1>2, <1>3, <1>4 DEF Init, TypeOK, Statuses
<1>6. ServedDialed /\ Unanswered /\ Fetched /\ EmptyUntilSaved
  BY DEF Init, ServedDialed, Unanswered, Fetched, EmptyUntilSaved
<1>7. OKIsWhole /\ SavedParses
  BY DEF Init, OKIsWhole, SavedParses
<1>. QED
  BY <1>5, <1>6, <1>7 DEF CallsInvariant

(* The plugin and the server leave the calls and the file alone.           *)
LEMMA PluginStep ==
    ASSUME CallsInvariant,
           ServeBegins \/ Serving \/ ResetBegins \/ ResetEnds \/ EventAdded \/ UpdateAPIKey
    PROVE  CallsInvariant'
<1>. USE DEF CallsInvariant
<1>1. UNCHANGED <<file, callVars>>
  BY DEF ServeBegins, Serving, initTemporalClient, ServeEnds, ResetBegins, ResetEnds,
     EventAdded, UpdateAPIKey
<1>2. TypeOK'
  <2>1. events' \in 1 .. MaxEvents
    BY EventsAssumption DEF ServeBegins, Serving, initTemporalClient, ServeEnds, ResetBegins,
       ResetEnds, EventAdded, UpdateAPIKey, TypeOK
  <2>2. /\ serve' \in {"init", "starting", "served", "failed"}
        /\ apiKey' \in {"none", "flags", "rpc"}
    BY DEF ServeBegins, Serving, initTemporalClient, ServeEnds, ResetBegins,
       ResetEnds, EventAdded, UpdateAPIKey, pluginVars, TypeOK
  <2>3. client' \in BOOLEAN /\ locked' \in BOOLEAN /\ crashed' \in BOOLEAN
    BY DEF ServeBegins, Serving, initTemporalClient, ServeEnds, ResetBegins,
       ResetEnds, EventAdded, UpdateAPIKey, pluginVars, TypeOK
  <2>. QED
    BY <1>1, <2>1, <2>2, <2>3 DEF callVars, TypeOK
<1>3. ServedDialed'
  BY DEF ServeBegins, Serving, initTemporalClient, ServeEnds, ResetBegins,
     ResetEnds, EventAdded, UpdateAPIKey, pluginVars, ServedDialed
<1>4. Unanswered' /\ Fetched' /\ EmptyUntilSaved' /\ OKIsWhole' /\ SavedParses'
  BY <1>1 DEF callVars, Unanswered, Fetched, EmptyUntilSaved, OKIsWhole, SavedParses, Writers, Parses
<1>. QED
  BY <1>2, <1>3, <1>4

(* Steps of a call that leave the file alone leave to a download that has  *)
(* it for itself what it had.                                              *)
LEMMA StaysSole ==
    ASSUME CallsInvariant, NEW c \in Callers, UNCHANGED <<file, sole>>,
           \A d \in Callers : d # c => UNCHANGED <<pc[d], kind[d], hist[d], status[d]>>,
           c \in Writers' => c \in Writers,
           c \in sole => /\ kind'[c] = kind[c] /\ pc[c] # "done"
                         /\ pc'[c] \in {"open", "iterating", "fetched", "done"}
                         /\ status'[c] # "OK"
    PROVE  EmptyUntilSaved' /\ SavedParses'
<1>. USE DEF CallsInvariant
<1>1. Writers' \subseteq Writers
  BY DEF Writers
<1>2. EmptyUntilSaved'
  BY <1>1 DEF EmptyUntilSaved, TypeOK
<1>3. SavedParses'
  BY DEF SavedParses, Parses, TypeOK
<1>. QED
  BY <1>2, <1>3

(* The steps of a call that do not touch the file.                         *)
LEMMA QuietCallStep ==
    ASSUME CallsInvariant, NEW c \in Callers,
           \/ \E k \in Kinds : Call(c, k)
           \/ GetWorkflowHistory(c) \/ IterateHistory(c) \/ GetWfDef(c) \/ RegisterWorkflow(c)
           \/ Replay(c) \/ GetNames(c)
    PROVE  CallsInvariant'
<1>. USE DEF CallsInvariant
<1>1. ASSUME NEW k \in Kinds, Call(c, k)
      PROVE  CallsInvariant'
  <2>1. TypeOK' /\ ServedDialed' /\ Unanswered' /\ Fetched'
    BY <1>1 DEF Call, Goto, Answer, pluginVars, TypeOK, Statuses, ServedDialed, Unanswered, Fetched
  <2>2. OKIsWhole'
    BY <1>1 DEF Call, Goto, Answer, TypeOK, OKIsWhole, Unanswered
  <2>3. c \notin sole /\ c \notin Writers'
    <3>1. pc[c] = "idle" /\ pc'[c] \in {"called", "done"}
      BY <1>1 DEF Call, Goto, Answer, TypeOK
    <3>. QED
      BY <3>1 DEF Writers, EmptyUntilSaved
  <2>4. EmptyUntilSaved' /\ SavedParses'
    <3>1. \A d \in Callers : d # c => UNCHANGED <<pc[d], kind[d], hist[d], status[d]>>
      BY <1>1 DEF Call, Goto, Answer, TypeOK
    <3>2. UNCHANGED <<file, sole>>
      BY <1>1 DEF Call
    <3>. QED
      BY <2>3, <3>1, <3>2, StaysSole
  <2>. QED
    BY <2>1, <2>2, <2>4
<1>2. CASE GetWorkflowHistory(c)
  <2>1. crashed' \in BOOLEAN
    BY <1>2 DEF GetWorkflowHistory, TypeOK
  <2>2. upto' \in [Callers -> 0 .. MaxEvents]
    BY <1>2, EventsAssumption DEF GetWorkflowHistory, TypeOK
  <2>3. TypeOK' /\ ServedDialed'
    BY <1>2, <2>1, <2>2 DEF GetWorkflowHistory, Goto, TypeOK, ServedDialed
  <2>4. Unanswered' /\ Fetched' /\ OKIsWhole'
    BY <1>2, EventsAssumption
       DEF GetWorkflowHistory, Fetches, Goto, TypeOK, Unanswered, Fetched, OKIsWhole
  <2>5. EmptyUntilSaved' /\ SavedParses'
    <3>1. /\ \A d \in Callers : d # c => UNCHANGED <<pc[d], kind[d], hist[d], status[d]>>
          /\ UNCHANGED <<file, sole, kind, status>>
          /\ pc'[c] \in {pc[c], "iterating"}
      BY <1>2 DEF GetWorkflowHistory, Goto, TypeOK
    <3>2. c \in Writers' => c \in Writers
      BY <1>2, <3>1 DEF GetWorkflowHistory, Fetches, Writers
    <3>3. c \in sole => pc[c] = "open"
      BY <1>2 DEF GetWorkflowHistory, Fetches, EmptyUntilSaved
    <3>4. c \in sole => pc'[c] \in {"open", "iterating"} /\ pc[c] # "done" /\ status'[c] # "OK"
      BY <3>1, <3>3 DEF Unanswered
    <3>. QED
      BY <3>1, <3>2, <3>4, StaysSole
  <2>. QED
    BY <2>3, <2>4, <2>5
<1>3. CASE IterateHistory(c)
  <2>1. hist[c] \in Nat /\ upto[c] \in 0 .. MaxEvents
    BY EventsAssumption DEF TypeOK
  <2>2. hist' \in [Callers -> 0 .. MaxEvents]
    BY <1>3, <2>1, EventsAssumption DEF IterateHistory, TypeOK
  <2>3. TypeOK' /\ ServedDialed' /\ Unanswered'
    BY <1>3, <2>2 DEF IterateHistory, IterationError, Goto, Answer, pluginVars, TypeOK, Statuses,
       ServedDialed, Unanswered
  <2>4. Fetched' /\ OKIsWhole'
    BY <1>3, <2>1 DEF IterateHistory, IterationError, Goto, Answer, TypeOK, Fetched, OKIsWhole,
       Unanswered
  <2>5. EmptyUntilSaved' /\ SavedParses'
    BY <1>3, StaysSole DEF IterateHistory, IterationError, Goto, Answer, TypeOK, Writers, Unanswered
  <2>. QED
    BY <2>3, <2>4, <2>5
<1>4. CASE GetWfDef(c)
  <2>1. TypeOK' /\ ServedDialed' /\ Unanswered' /\ Fetched' /\ OKIsWhole'
    BY <1>4 DEF GetWfDef, Goto, Answer, pluginVars, TypeOK, Statuses, ServedDialed,
       Unanswered, Fetched, Replays, OKIsWhole
  <2>2. c \notin sole
    BY <1>4 DEF GetWfDef, EmptyUntilSaved
  <2>3. EmptyUntilSaved' /\ SavedParses'
    BY <1>4, <2>2, StaysSole DEF GetWfDef, Goto, Answer, TypeOK, Writers
  <2>. QED
    BY <2>1, <2>3
<1>5. CASE RegisterWorkflow(c)
  <2>1. TypeOK' /\ ServedDialed' /\ Unanswered' /\ Fetched' /\ OKIsWhole'
    BY <1>5 DEF RegisterWorkflow, Goto, pluginVars, TypeOK, ServedDialed,
       Unanswered, Fetched, Replays, OKIsWhole
  <2>2. c \notin sole
    BY <1>5 DEF RegisterWorkflow, EmptyUntilSaved
  <2>3. EmptyUntilSaved' /\ SavedParses'
    BY <1>5, <2>2, StaysSole DEF RegisterWorkflow, Goto, TypeOK, Writers
  <2>. QED
    BY <2>1, <2>3
<1>6. CASE Replay(c)
  <2>0. kind[c] \in Replays
    BY <1>6 DEF Replay, Fetched
  <2>1. \A n \in Given(c) : n \in 1 .. MaxEvents /\ (kind[c] = "ReplayWorkflow" => n = upto[c])
    <3>1. CASE kind[c] = "ReplayWorkflow"
      BY <3>1, <1>6 DEF Replay, Given, TypeOK, Fetched
    <3>2. CASE kind[c] = "ReplayWorkflowHistory"
      BY <3>2, EventsAssumption DEF Given
    <3>3. CASE kind[c] = "ReplayFromJSON"
      <4>1. file.whole \in 0 .. MaxEvents
        BY DEF TypeOK
      <4>2. Given(c) \subseteq 1 .. file.whole
        BY <3>3 DEF Given
      <4>. QED
        BY <3>3, <4>1, <4>2, EventsAssumption
    <3>. QED
      BY <2>0, <3>1, <3>2, <3>3 DEF Replays
  <2>2. replayed' \in [Callers -> 0 .. MaxEvents]
    BY <1>6, <2>1 DEF Replay, TypeOK
  <2>3. TypeOK' /\ ServedDialed' /\ Unanswered' /\ Fetched'
    BY <1>6, <2>2 DEF Replay, Goto, Answer, pluginVars, TypeOK, Statuses, ServedDialed,
       Unanswered, Fetched, Replays
  <2>4. OKIsWhole'
    BY <1>6, <2>0, <2>1 DEF Replay, Goto, Answer, OKIsWhole, TypeOK, Replays
  <2>5. c \notin sole
    BY <1>6 DEF Replay, EmptyUntilSaved
  <2>6. EmptyUntilSaved' /\ SavedParses'
    BY <1>6, <2>5, StaysSole DEF Replay, Goto, Answer, TypeOK, Writers
  <2>. QED
    BY <2>3, <2>4, <2>6
<1>7. CASE GetNames(c)
  <2>1. TypeOK' /\ ServedDialed' /\ Unanswered' /\ Fetched' /\ OKIsWhole'
    BY <1>7 DEF GetNames, Goto, Answer, pluginVars, TypeOK, Statuses, ServedDialed,
       Unanswered, Fetched, Replays, OKIsWhole
  <2>2. c \notin sole
    BY <1>7 DEF GetNames, EmptyUntilSaved
  <2>3. EmptyUntilSaved' /\ SavedParses'
    BY <1>7, <2>2, StaysSole DEF GetNames, Goto, Answer, TypeOK, Writers
  <2>. QED
    BY <2>1, <2>3
<1>. QED
  BY <1>1, <1>2, <1>3, <1>4, <1>5, <1>6, <1>7

(* The steps of a download that touch the file.                            *)
LEMMA FileStep ==
    ASSUME CallsInvariant, NEW c \in Callers, CreateFile(c) \/ SaveHistory(c)
    PROVE  CallsInvariant'
<1>. USE DEF CallsInvariant
<1>1. CASE CreateFile(c)
  <2>1. sole' \subseteq Callers
    BY <1>1 DEF CreateFile, TypeOK
  <2>2. TypeOK'
    BY <1>1, <2>1, EventsAssumption
       DEF CreateFile, Truncated, Goto, Answer, pluginVars, TypeOK, Statuses
  <2>3. ServedDialed' /\ Unanswered' /\ Fetched' /\ OKIsWhole'
    BY <1>1 DEF CreateFile, Goto, Answer, pluginVars, TypeOK, ServedDialed, Unanswered,
       Fetched, Replays, OKIsWhole
  <2>4. CASE UNCHANGED <<file, sole>> /\ Answer(c, "Internal")
    <3>1. c \notin sole /\ c \notin Writers'
      BY <1>1, <2>4 DEF CreateFile, EmptyUntilSaved, Writers, Answer, Goto, TypeOK
    <3>2. EmptyUntilSaved' /\ SavedParses'
      BY <1>1, <2>4, <3>1, StaysSole DEF CreateFile, Goto, Answer, TypeOK
    <3>. QED
      BY <2>2, <2>3, <3>2
  <2>5. CASE /\ file' = Truncated(file) /\ Goto(c, "open") /\ status' = status
             /\ sole' = IF Writers = {} THEN {c} ELSE {}
    <3>1. Writers' \subseteq Writers \cup {c}
      BY <1>1, <2>5 DEF CreateFile, Writers, Goto, TypeOK
    <3>2. kind[c] = "DownloadWorkflowHistory" /\ kind' = kind /\ status[c] # "OK"
      BY <1>1 DEF CreateFile, Unanswered
    <3>3. EmptyUntilSaved'
      BY <2>5, <3>1, <3>2 DEF EmptyUntilSaved, Goto, Truncated, TypeOK
    <3>4. SavedParses'
      BY <2>5, <3>2 DEF SavedParses
    <3>. QED
      BY <2>2, <2>3, <3>3, <3>4
  <2>. QED
    BY <1>1, <2>4, <2>5 DEF CreateFile
<1>2. CASE SaveHistory(c)
  <2>0. /\ hist[c] \in 1 .. MaxEvents /\ hist[c] = upto[c]
        /\ file.size \in 0 .. MaxEvents /\ file.whole \in 0 .. MaxEvents
        /\ c \in Writers
    BY <1>2 DEF SaveHistory, TypeOK, Fetched, Writers
  <2>1. file' \in [whole : 0 .. MaxEvents, size : 0 .. MaxEvents]
    <3>1. Larger(file.size, hist[c]) \in 0 .. MaxEvents /\ Larger(file.size, 1) \in 0 .. MaxEvents
      BY <2>0, EventsAssumption DEF Larger
    <3>2. file \in [whole : 0 .. MaxEvents, size : 0 .. MaxEvents]
      BY DEF TypeOK
    <3>. QED
      BY <1>2, <2>0, <3>1, <3>2, EventsAssumption DEF SaveHistory, Written, PartlyWritten
  <2>2. TypeOK'
    BY <1>2, <2>1 DEF SaveHistory, Goto, Answer, pluginVars, TypeOK, Statuses
  <2>3. ServedDialed' /\ Unanswered' /\ Fetched' /\ OKIsWhole'
    BY <1>2, <2>0 DEF SaveHistory, Goto, Answer, pluginVars, TypeOK, ServedDialed, Unanswered,
       Fetched, Replays, OKIsWhole
  <2>4. \A d \in sole : d = c
    BY <2>0 DEF EmptyUntilSaved
  <2>5. EmptyUntilSaved'
    <3>1. Writers' \subseteq Writers
      BY <1>2 DEF SaveHistory, Answer, Goto, Writers, TypeOK
    <3>. QED
      BY <1>2, <2>4, <3>1 DEF EmptyUntilSaved, SaveHistory, Goto, Answer, TypeOK
  <2>6. SavedParses'
    <3>. SUFFICES ASSUME c \in sole, status'[c] = "OK"
                  PROVE  Parses(file') /\ file'.whole = hist'[c]
      BY <1>2, <2>4 DEF SaveHistory, SavedParses, Parses
    <3>1. file = [whole |-> 0, size |-> 0]
      BY <1>2 DEF SaveHistory, EmptyUntilSaved
    <3>2. file' = Written(file, hist[c])
      BY <1>2 DEF SaveHistory, Answer, TypeOK
    <3>3. Larger(0, hist[c]) = hist[c]
      BY <2>0 DEF Larger
    <3>. QED
      BY <1>2, <2>0, <3>1, <3>2, <3>3 DEF SaveHistory, Written, Parses
  <2>. QED
    BY <2>2, <2>3, <2>5, <2>6
<1>. QED
  BY <1>1, <1>2

LEMMA CallsPreserved == CallsInvariant /\ [Next]_vars => CallsInvariant'
<1>. SUFFICES ASSUME CallsInvariant, [Next]_vars PROVE CallsInvariant'
  OBVIOUS
<1>1. CASE UNCHANGED vars
  BY <1>1 DEF vars, pluginVars, callVars, CallsInvariant, TypeOK, ServedDialed, Unanswered,
     Fetched, EmptyUntilSaved, OKIsWhole, SavedParses, Writers, Parses
<1>. QED
  BY <1>1, PluginStep, QuietCallStep, FileStep DEF Next, Running, Gone, CallStep

(* Every action keeps the types, for histories and files of any length.    *)
THEOREM CallsTypeCorrect == Spec => []TypeOK
<1>1. CallsInvariant => TypeOK
  BY DEF CallsInvariant
<1>. QED
  BY InitCalls, CallsPreserved, <1>1, PTL DEF Spec

(* A replay or a download answered OK has dealt with every event that the  *)
(* server had when it was asked (rpc.go:150-162, 246-260): an iteration    *)
(* that breaks off ends the call with an error.                            *)
THEOREM OKMeansWhole == Spec => []OKIsWhole
<1>1. CallsInvariant => OKIsWhole
  BY DEF CallsInvariant
<1>. QED
  BY InitCalls, CallsPreserved, <1>1, PTL DEF Spec

(* A download leaves exactly the history it fetched, whatever calls came   *)
(* before and whatever replays run beside it, if no other download has had *)
(* the file open since (rpc.go:224, 274).                                  *)
THEOREM DownloadsParse == Spec => []SavedParses
<1>1. CallsInvariant => SavedParses
  BY DEF CallsInvariant
<1>. QED
  BY InitCalls, CallsPreserved, <1>1, PTL DEF Spec

(* A nil client is met only before Temporal was dialed, never once Serve   *)
(* has succeeded.                                                          *)
THEOREM LostBeforeDialOnly == Spec => CrashedBeforeDial
<1>1. CallsInvariant /\ [Next]_vars => [crashed' /\ ~crashed => ~client /\ serve # "served"]_vars
  BY DEF CallsInvariant, ServedDialed, TypeOK, Next, Running, Gone, Serving, CallStep, ServeBegins,
     initTemporalClient, ServeEnds, ResetBegins, ResetEnds, EventAdded, UpdateAPIKey,
     CreateFile, GetWorkflowHistory, IterateHistory, SaveHistory, GetWfDef, RegisterWorkflow, Replay,
     GetNames, Call, pluginVars, vars
<1>. QED
  BY InitCalls, CallsPreserved, <1>1, PTL DEF Spec, CrashedBeforeDial
=============================================================================
