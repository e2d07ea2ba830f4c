------------------------------- MODULE Codec -------------------------------
(***************************************************************************)
(* The protocol buffers codec between RoadRunner and its PHP workers       *)
(* (src/internal/codec/proto/proto.go) and the names of the commands       *)
(* (src/internal/protocol.go).  Pure operators: a message is a record, the *)
(* body of a payload is a frame of messages, an empty body or bytes that   *)
(* are no frame.  What a command carries, its options, is for the modules  *)
(* that use the codec to say; here they only parse or do not.              *)
(***************************************************************************)
EXTENDS Naturals, Sequences

(* The empty name: a message that is no command is an answer.              *)
NoCommand == "none"

(* CommandName: the types the host can name in a message to a worker.      *)
Named ==
    {"GetWorkerInfo", "StartWorkflow", "InvokeSignal", "InvokeQuery", "DestroyWorkflow",
     "CancelWorkflow", "GetStackTrace", "InvokeActivity", "ExecuteActivity",
     "InvokeLocalActivity", "ExecuteLocalActivity", "ExecuteChildWorkflow",
     "GetChildWorkflowExecution", "NewTimer", "GetVersion", "SideEffect",
     "CompleteWorkflow", "UpdateCompleted", "UpdateValidated", "ContinueAsNew",
     "UpsertWorkflowSearchAttributes", "UpsertWorkflowTypedSearchAttributes",
     "SignalExternalWorkflow", "CancelExternalWorkflow", "Cancel", "Panic",
     "UpsertMemo", "InvokeUpdate"}

(* InitCommand: the names it finds a type for.  A local activity is only   *)
(* ever invoked by the host, an undefined response only sent by a worker.  *)
KnownNames == (Named \ {"InvokeLocalActivity"}) \cup {"UndefinedResponse"}

(* internal.Message, without its header.  `parses' says whether the        *)
(* options are, or can be written as, JSON of the command's type.          *)
Msg(id, command, options, parses, failure, payloads) ==
    [id |-> id, command |-> command, options |-> options, parses |-> parses,
     failure |-> failure, payloads |-> payloads]

(* A message without a failure, and one whose command takes no options.     *)
NoFailure == "none"
NoOptions == "none"

(* payload.Payload.Body.                                                   *)
EmptyBody == [frame |-> TRUE, messages |-> << >>]
Garbage == [frame |-> FALSE, messages |-> << >>]
Body(messages) == [frame |-> TRUE, messages |-> messages]

-----------------------------------------------------------------------------
(* packMessage succeeds.                                                   *)
packable(msg) == msg.command # NoCommand => msg.command \in Named /\ msg.parses

(* A batch is sent as a whole or, when one message cannot be packed, not   *)
(* at all.                                                                 *)
Encode(msgs) ==
    IF \A i \in DOMAIN msgs : packable(msgs[i])
      THEN [err |-> FALSE, body |-> Body(msgs)]
      ELSE [err |-> TRUE, body |-> EmptyBody]

(* parseMessage succeeds.                                                  *)
AnyName(f) == f.command # NoCommand => f.parses
parseable(f) == f.command # NoCommand => f.command \in KnownNames /\ f.parses

(* The number of leading messages that parse: Decode appends them to the   *)
(* caller's slice before it meets the first that does not.                 *)
Leading(messages) ==
    CHOOSE n \in 0 .. Len(messages) :
        /\ \A i \in 1 .. n : parseable(messages[i])
        /\ n < Len(messages) => ~parseable(messages[n + 1])

Decode(body) ==
    LET n == Leading(body.messages)
    IN  [err |-> ~body.frame \/ n < Len(body.messages),
         messages |-> SubSeq(body.messages, 1, n)]

(* DecodeWorkerInfo: one message, with the id 0 by convention; `payloads'  *)
(* is the sequence of worker infos it carries, each of them readable.      *)
Unreadable == "unreadable"
Refused == [err |-> TRUE, info |-> << >>]

DecodeWorkerInfo(body) ==
    LET out == Decode(body)
    IN  IF out.err \/ Len(out.messages) # 1 THEN Refused
        ELSE IF out.messages[1].id # 0 THEN Refused
        ELSE IF \E i \in DOMAIN out.messages[1].payloads :
                  out.messages[1].payloads[i] = Unreadable THEN Refused
        ELSE [err |-> FALSE, info |-> out.messages[1].payloads]
=============================================================================
