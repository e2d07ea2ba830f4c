-------------------------------- MODULE Wire --------------------------------
(***************************************************************************)
(* What crosses the wire between the host and its workflow worker: the     *)
(* worker info it is asked for first (src/info.go), the typed search       *)
(* attributes it is told with StartWorkflow (src/aggregatedpool/           *)
(* workflow.go) and those it upserts (handler.go).  The attributes travel  *)
(* as JSON, so each type is converted twice; the module says what the      *)
(* conversions do to a value.                                              *)
(*                                                                         *)
(* A value is a sequence of numbers: <<0>> or <<1>> a bool, <<n>> the      *)
(* int64 n, <<h>> the float64 h/2, <<second, fraction>> a time, <<w, ...>> *)
(* a list of words, <<form, n, fraction>> a text - a numeral, an RFC 3339  *)
(* time, or neither.                                                       *)
(*                                                                         *)
(* External: the worker, the SDK's attributes of an execution.             *)
(***************************************************************************)
EXTENDS Naturals, Sequences, Codec

CONSTANTS
    Keys,           \* names of search attributes
    MaxExact,       \* 2^53: the int64s up to here are float64s
    MaxUpserts      \* bound: replies of the worker

ASSUME MaxExactAssumption == MaxExact \in Nat /\ MaxExact % 4 = 0
ASSUME UpsertsAssumption == MaxUpserts \in Nat

VARIABLES
    stage,          \* "boot", "ready", "running" or "failed"
    attrs,          \* the typed search attributes of the execution
    told,           \* what the worker was told of them
    batch,          \* what is wrong with the worker's last reply, or "ok"
    upserts         \* replies so far

vars == <<stage, attrs, told, batch, upserts>>

-----------------------------------------------------------------------------
Plain == 0
Numeral == 1
RFC3339 == 2
NotAWord == 0       \* an element of a JSON array that is no string

Absent == [type |-> "none", value |-> << >>]
Attr(type, value) == [type |-> type, value |-> value]
NilList == Attr("keyword_list", <<NotAWord>>)       \* a nil []string

Json(kind, v) == [kind |-> kind, v |-> v]
Null == Json("null", << >>)
Entry(type, op, value) == [type |-> type, op |-> op, value |-> value]
NoOp == "none"      \* the key "operation" is missing
NoEntry == Entry("none", NoOp, Null)

(* The float64 nearest to the int64 n, for n below 2 * MaxExact: beyond    *)
(* MaxExact only even numbers, and ties go to the multiple of four.        *)
Double(n) ==
    IF n <= MaxExact \/ n % 2 = 0 THEN n
    ELSE IF n % 4 = 1 THEN n - 1 ELSE n + 1

(* time.Time.Format(time.RFC3339) drops the fraction of the second,        *)
(* time.Parse reads one.                                                   *)
FormatNumber(t) == <<Numeral, t[1], 0>>
FormatTime(t) == <<RFC3339, t[1], 0>>
ParseTime(text) == <<text[2], text[3]>>

(* Execute: an attribute as StartWorkflow carries it.                      *)
ToEntry(a) ==
    CASE a.type = "bool" -> Entry("bool", NoOp, Json("bool", a.value))
      [] a.type = "int64" -> Entry("int64", NoOp, Json("number", <<2 * a.value[1]>>))
      [] a.type = "float64" -> Entry("float64", NoOp, Json("number", a.value))
      [] a.type \in {"string", "keyword"} -> Entry(a.type, NoOp, Json("string", a.value))
      [] a.type = "datetime" -> Entry("datetime", NoOp, Json("string", FormatTime(a.value)))
      [] a = NilList -> Entry("keyword_list", NoOp, Null)
      [] a.type = "keyword_list" /\ a # NilList ->
            Entry("keyword_list", NoOp, Json("array", a.value))
      [] OTHER -> NoEntry

(* handleMessage, UpsertWorkflowTypedSearchAttributes: what becomes of one *)
(* entry.  A JSON number is a float64, whatever it is meant to be.         *)
Skip == [do |-> "skip", attr |-> Absent]
Fail == [do |-> "fail", attr |-> Absent]
Unset == [do |-> "unset", attr |-> Absent]
Set(type, value) == [do |-> "set", attr |-> Attr(type, value)]

IsWord(w) == w # NotAWord

FromInt(json) ==
    CASE json.kind = "number" -> Set("int64", <<Double(json.v[1] \div 2)>>)
      [] json.kind = "string" /\ json.v[1] = Numeral -> Set("int64", <<json.v[2]>>)
      [] OTHER -> Skip

(* The list is appended to, word by word: without words it stays nil.      *)
AppendWord(list, w) == IF IsWord(w) THEN Append(list, w) ELSE list

Words(array) ==
    LET res[i \in 0 .. Len(array)] ==
          IF i = 0 THEN << >> ELSE AppendWord(res[i - 1], array[i])
    IN  res[Len(array)]

FromList(json) ==
    LET words == Words(json.v)
    IN  IF json.kind # "array" THEN Skip
        ELSE IF words = << >> THEN [do |-> "set", attr |-> NilList]
        ELSE Set("keyword_list", words)

FromTime(json) ==
    IF json.kind # "string" THEN Skip
    ELSE IF json.v[1] = RFC3339 THEN Set("datetime", ParseTime(json.v))
    ELSE Fail

ValueKind == [bool |-> "bool", float64 |-> "number", string |-> "string", keyword |-> "string"]

ValueTypes == {"bool", "float64", "int64", "keyword", "keyword_list", "string", "datetime"}

FromEntry(e) ==
    IF e.type \notin ValueTypes THEN Skip
    ELSE IF e.op = "unset" THEN Unset
    ELSE IF e.value.kind = "null" THEN Skip
    ELSE CASE e.type = "int64" -> FromInt(e.value)
           [] e.type = "datetime" -> FromTime(e.value)
           [] e.type = "keyword_list" -> FromList(e.value)
           [] OTHER -> IF e.value.kind = ValueKind[e.type] THEN Set(e.type, e.value.v) ELSE Skip

(* The whole command: an error of one entry is one of the command, and     *)
(* then nothing is upserted.                                               *)
Upserted(sa, entries) ==
    [k \in Keys |->
        LET u == FromEntry(entries[k])
        IN  CASE u.do = "set" -> u.attr [] u.do = "unset" -> Absent [] OTHER -> sa[k]]

CommandFails(entries) == \E k \in Keys : FromEntry(entries[k]).do = "fail"

(* The environment is called when there is something to set or unset.      *)
AnythingToUpsert(entries) == \E k \in Keys : FromEntry(entries[k]).do \in {"set", "unset"}

-----------------------------------------------------------------------------
(* Small sets of inputs: attributes of the server, entries of the worker.  *)
Texts == {<<Plain, 1, 0>>, <<Numeral, MaxExact + 1, 0>>, <<RFC3339, 1, 1>>}
Ints == {1, MaxExact, MaxExact + 1, MaxExact + 3}
AttrSet ==
    {Attr("bool", <<b>>) : b \in {0, 1}} \cup {Attr("int64", <<n>>) : n \in Ints}
      \cup {Attr("float64", <<h>>) : h \in {1, 2}}
      \cup {Attr(t, text) : t \in {"string", "keyword"}, text \in Texts}
      \cup {Attr("datetime", <<1, f>>) : f \in {0, 1}}
      \cup {Attr("keyword_list", l) : l \in {<< >>, <<1, 2>>}}

JsonSet ==
    {Null, Json("bool", <<1>>), Json("array", <<1, NotAWord, 2>>), Json("array", << >>)}
      \cup {Json("number", <<h>>) : h \in {1} \cup {2 * n : n \in Ints}}
      \cup {Json("string", text) : text \in Texts}
EntrySet ==
    {Entry(t, "set", j) : j \in JsonSet, t \in ValueTypes \cup {"other"}}
      \cup {Entry(t, "unset", Null) : t \in {"bool", "datetime", "other"}}
BadTime(e) == e.type = "datetime" /\ e.op = "set" /\ e.value.kind = "string" /\ e.value.v[1] # RFC3339
Few == {NoEntry, Entry("bool", "set", Json("bool", <<1>>)),
        Entry("datetime", "set", Json("string", <<Plain, 1, 0>>))}

InfoBodies ==
    {EmptyBody, Garbage}
      \cup {Body(<<Msg(id, NoCommand, NoOptions, TRUE, NoFailure, infos)>>) :
              id \in {0, 1}, infos \in {<< >>, <<"default">>, <<"default", Unreadable>>}}

-----------------------------------------------------------------------------
Init ==
    /\ stage = "boot" /\ batch = "ok" /\ upserts = 0
    /\ \E k \in Keys, a \in AttrSet \cup {Absent} :
         attrs = [j \in Keys |-> IF j = k THEN a ELSE Absent]
    /\ told = [k \in Keys |-> NoEntry]

(* WorkerInfo: the exchange fails, or the worker answers.  initPool        *)
(* refuses an answer without infos.                                        *)
FetchWorkerInfo ==
    /\ stage = "boot"
    /\ \/ stage' = "failed"
       \/ \E body \in InfoBodies :
            LET out == DecodeWorkerInfo(body)
            IN  stage' = IF out.err \/ out.info = << >> THEN "failed" ELSE "ready"
    /\ UNCHANGED <<attrs, told, batch, upserts>>

StartWithoutValues ==
    /\ stage = "ready" /\ stage' = "running"
    /\ told' = [k \in Keys |-> Entry(attrs[k].type, NoOp, Null)]
    /\ UNCHANGED <<attrs, batch, upserts>>

(* Execute: the attributes go out with StartWorkflow.                      *)
StartWorkflow ==
    /\ stage = "ready"
    /\ LET entries == [k \in Keys |-> ToEntry(attrs[k])]
           out == Encode(<<Msg(1, "StartWorkflow", entries, TRUE, NoFailure, << >>)>>)
       IN  /\ stage' = IF out.err THEN "failed" ELSE "running"
           /\ told' = IF out.err THEN told ELSE out.body.messages[1].options
    /\ UNCHANGED <<attrs, batch, upserts>>

(* The reply of the worker is decoded as a whole, then its upsert handled; *)
(* the environment may refuse it.                                          *)
Handle(messages) ==
    LET out == Decode(Body(messages))
        entries == out.messages[1].options
    IN  \/ /\ ~out.err /\ ~CommandFails(entries)
           /\ attrs' = Upserted(attrs, entries)
           /\ UNCHANGED stage
        \/ /\ out.err \/ CommandFails(entries) \/ AnythingToUpsert(entries)
           /\ stage' = "failed"
           /\ UNCHANGED attrs

Upsert(entries) == Msg(2, "UpsertWorkflowTypedSearchAttributes", entries, TRUE, NoFailure, << >>)

(* What follows the upsert in the reply: nothing, or a message the host    *)
(* does not know or cannot read.                                           *)
Tails == [ok |-> << >>,
          unknown |-> <<Msg(3, "NoSuchCommand", NoOptions, TRUE, NoFailure, << >>)>>,
          unread |-> <<Msg(3, "NewTimer", NoOptions, FALSE, NoFailure, << >>)>>]

Reply(entries, tail) ==
    /\ stage = "running" /\ upserts < MaxUpserts
    /\ upserts' = upserts + 1
    /\ batch' = IF \E k \in Keys : BadTime(entries[k]) THEN "badtime" ELSE tail
    /\ Handle(<<Upsert(entries)>> \o Tails[tail])
    /\ UNCHANGED told

AnyReply ==
    \E k \in Keys, e \in EntrySet, f \in Few, tail \in DOMAIN Tails :
        Reply([j \in Keys |-> IF j = k THEN e ELSE f], tail)

(* The worker sends back, as they are, the attributes it was told.         *)
Echo == Reply([k \in Keys |-> [told[k] EXCEPT !.op = "set"]], "ok")

Done ==
    /\ stage = "failed" \/ upserts = MaxUpserts
    /\ UNCHANGED vars

Next == FetchWorkerInfo \/ StartWorkflow \/ AnyReply \/ Echo \/ Done

Spec == Init /\ [][Next]_vars

-----------------------------------------------------------------------------
(* Properties.                                                             *)

TypeOK ==
    /\ stage \in {"boot", "ready", "running", "failed"}
    /\ \A k \in Keys : attrs[k].type \in ValueTypes \cup {"none"}
    /\ \A k \in Keys : told[k].type = "none" \/ told[k].value.kind # "null"
    /\ batch \in {"ok", "unknown", "unread", "badtime"}
    /\ upserts \in 0 .. MaxUpserts

(* What both conversions together preserve: an int64 a float64 can hold, a *)
(* time without fraction, a list with words, and every value of the other  *)
(* types.                                                                  *)
Portable(a) ==
    /\ a.type = "keyword_list" => a.value # << >>
    /\ a.type = "int64" => a.value[1] <= MaxExact
    /\ a.type = "datetime" => a.value[2] = 0

(* A worker that sends an attribute back as it was told it sets it: to the *)
(* value it has, if that is portable, and always with its type.  So the    *)
(* two switches over the types, in workflow.go and in handler.go, agree,   *)
(* but for the nil list an empty one has become: that is told as null and  *)
(* not set.                                                                *)
RoundTrips ==
    \A k \in Keys : attrs[k] \notin {Absent, NilList} =>
        LET u == FromEntry(ToEntry(attrs[k]))
        IN  /\ u.do = "set" /\ u.attr.type = attrs[k].type
            /\ Portable(attrs[k]) => u.attr = attrs[k]

(* What both conversions keep of the shape of a value: an attribute is     *)
(* always one the server could hold, an entry one JSON could carry, and no *)
(* execution starts with a nil list.  TypeOK and RoundTrips rest on it.    *)
Shaped(a) ==
    /\ a = Attr(a.type, a.value)
    /\ a.type = "none" => a = Absent
    /\ a.type \in {"int64", "float64"} => a.value \in Seq(Nat) /\ Len(a.value) = 1
    /\ a.type \in {"string", "keyword"} => a.value \in Seq(Nat) /\ Len(a.value) = 3
    /\ a.type = "datetime" => a.value \in Seq(Nat) /\ Len(a.value) = 2
    /\ a.type = "keyword_list" => a = NilList \/ a.value \in Seq(Nat \ {NotAWord})

Carried(e) ==
    /\ e = Entry(e.type, e.op, e.value)
    /\ e.value.kind = "number" => e.value.v \in Seq(Nat) /\ Len(e.value.v) = 1
    /\ e.value.kind = "string" => e.value.v \in Seq(Nat) /\ Len(e.value.v) = 3
    /\ e.value.kind = "array" => e.value.v \in Seq(Nat)

AttrInvariant ==
    /\ attrs = [k \in Keys |-> attrs[k]] /\ told = [k \in Keys |-> told[k]]
    /\ \A k \in Keys : Shaped(attrs[k]) /\ Carried(told[k])
    /\ stage \in {"boot", "ready"} => \A k \in Keys : attrs[k] # NilList

(* Nothing takes effect of a reply with one message that cannot be         *)
(* decoded, be it behind an upsert that is well formed, and no attribute   *)
(* is set by an upsert with one time that cannot be parsed, in whatever    *)
(* order the entries are walked.                                           *)
AllOrNothing == [][batch' # "ok" => attrs' = attrs]_vars
=============================================================================
