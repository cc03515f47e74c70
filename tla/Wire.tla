-------------------------------- MODULE Wire --------------------------------
(***************************************************************************)
(* What crosses the wire: dotted names and routing keys, the envelopes     *)
(* (internal/wire), the custom types in their payloads (customtypes.go),   *)
(* the integers in message headers (headers.go), and what an error looks   *)
(* like to a caller (errors.go).                                           *)
(*                                                                         *)
(* A dotted name is the sequence of its words: the empty string is <<"">>. *)
(* An encoded message is the sequence of its fields. A payload is a tree   *)
(* of messages: its type, whether it is a bigint of more than 32 bytes,    *)
(* and its messages in fields, lists and maps. A text is the set of the    *)
(* pieces it quotes. An error is a tree: its kind, its name, its code, its *)
(* own text and the errors it wraps.                                       *)
(***************************************************************************)
EXTENDS Integers, SequencesExt

CONSTANTS
    MaxInt32, MaxInt64,  \* the widths of Go's integers, scaled down
    Fields               \* payload types: the types of their fields, elements and map values

ASSUME WireAssumption == MaxInt32 \in Nat /\ MaxInt64 \in Nat /\ MaxInt32 < MaxInt64

Dot(name, word) == Append(name, word)

\* splitMethodName: service and method are split at the last dot, and neither
\* may be empty.
Splits(name) == Len(name) >= 2 /\ Last(name) # "" /\ Front(name) # <<"">>

-----------------------------------------------------------------------------
(***************************************************************************)
(* Envelopes.                                                              *)
(***************************************************************************)
Field(num, v) == [num |-> num, typ |-> "bytes", utf8 |-> TRUE, v |-> v]

\* The bytes end inside a field.
Cut == [num |-> 0, typ |-> "cut", utf8 |-> TRUE, v |-> ""]

\* walk over fields 1..max, those in strs being strings.
WellFormed(b, max, strs) ==
    \A i \in DOMAIN b :
        /\ b[i].typ # "cut"
        /\ b[i].num \in 1..max => b[i].typ = "bytes"
        /\ b[i].num \in strs => b[i].utf8

\* The last occurrence of a field wins.
Get(b, num, default) ==
    LET vs == SelectSeq(b, LAMBDA f : f.num = num) IN IF vs = <<>> THEN default ELSE Last(vs).v

AppendRequest(method, actor, data) ==
    <<Field(1, method)>> \o (IF actor = "" THEN <<>> ELSE <<Field(2, actor)>>) \o <<Field(3, data)>>

RequestDecodes(b) == WellFormed(b, 3, {1, 2})

NoData == [type |-> "Empty", wide |-> FALSE, kids |-> <<>>]

DecodeRequest(b) ==
    [method |-> Get(b, 1, <<"">>), actor |-> Get(b, 2, ""), data |-> Get(b, 3, NoData)]

AppendResult(method, data) == <<Field(1, <<Field(1, method), Field(2, data)>>)>>

AppendError(method, e) ==
    <<Field(2, <<Field(1, method), Field(2, e.text), Field(3, e.code)>>)>>

\* Occurrences of an embedded message merge.
Merged(b, num) ==
    LET fs == SelectSeq(b, LAMBDA f : f.num = num) IN FlattenSeq([i \in DOMAIN fs |-> fs[i].v])

Has(b, num) == \E i \in DOMAIN b : b[i].num = num

\* When both members are present the error wins.
DecodeResponse(b) ==
    LET res == Merged(b, 1)
        er == Merged(b, 2)
        readable == WellFormed(b, 2, {}) /\ WellFormed(res, 2, {1}) /\ WellFormed(er, 3, {1, 2, 3})
    IN  CASE ~readable \/ ~(Has(b, 1) \/ Has(b, 2)) -> [kind |-> "malformed"]
          [] readable /\ Has(b, 2) ->
               [kind |-> "error", text |-> Get(er, 2, {}), code |-> Get(er, 3, "")]
          [] OTHER -> [kind |-> "result", method |-> Get(res, 1, <<"">>), data |-> Get(res, 2, NoData)]

-----------------------------------------------------------------------------
(***************************************************************************)
(* Custom types.                                                           *)
(***************************************************************************)
\* Mutant: a type counts only if a bigint is one of its own fields.
ReachesBigintShallow(type) == type = "Bigint" \/ "Bigint" \in Fields[type]

\* The walk stops at a type it has passed: a cycle adds nothing.
RECURSIVE ReachesBigintWalk(_, _)
ReachesBigintWalk(type, visiting) ==
    \/ type = "Bigint"
    \/ type \notin visiting /\ \E f \in Fields[type] : ReachesBigintWalk(f, visiting \cup {type})

ReachesBigint(type) == ReachesBigintWalk(type, {})

RECURSIVE CheckMessage(_)
CheckMessage(v) ==
    IF v.type = "Bigint" THEN ~v.wide
    ELSE \A i \in DOMAIN v.kids : ReachesBigint(v.kids[i].type) => CheckMessage(v.kids[i])

CheckCustomTypes(v) == ReachesBigint(v.type) => CheckMessage(v)

\* marshal refuses a value that no peer would decode; unmarshal refuses one that
\* another port sent, and bytes that are no such message.
Marshals(v) == CheckCustomTypes(v)
Unmarshals(v) == v.type # "junk" /\ CheckCustomTypes(v)

-----------------------------------------------------------------------------
(***************************************************************************)
(* Header integers: a value with its AMQP type; "whole" is FALSE for a     *)
(* fraction and for text that is no number.                                *)
(***************************************************************************)
Absent == [typ |-> "nil", n |-> 0, whole |-> TRUE]

\* The integers headerInt may read; none when it reports the value unreadable.
\* A float of 2^63 passes floatInt's comparison, since math.MaxInt64 rounds up
\* to it, and converting it is left to the machine.
HeaderInt(h) ==
    CASE h.typ \in {"int8", "int16", "int32", "int64", "uint8", "uint16", "uint32"} -> {h.n}
      [] h.typ = "uint64" -> IF h.n > MaxInt64 THEN {} ELSE {h.n}
      [] h.typ \in {"float32", "float64"} ->
           IF ~h.whole \/ h.n < -MaxInt64 - 1 \/ h.n > MaxInt64 + 1 THEN {}
           ELSE IF h.n = MaxInt64 + 1 THEN {MaxInt64, -MaxInt64 - 1} ELSE {h.n}
      [] h.typ \in {"string", "bytes"} ->
           IF ~h.whole \/ h.n < -MaxInt64 - 1 \/ h.n > MaxInt64 THEN {} ELSE {h.n}
      [] OTHER -> {}

IntHeader(n) ==
    [typ |-> IF n \in (-MaxInt32 - 1)..MaxInt32 THEN "int32" ELSE "int64",
     n |-> n, whole |-> TRUE]

\* Mutant: only the width this port writes is understood.
RetryCountNarrow(h) == IF h.typ = "int32" THEN {h.n} ELSE {0}

\* retryCount: anything unreadable counts as zero.
RetryCount(h) ==
    IF HeaderInt(h) = {} THEN {0}
    ELSE {IF n < 0 THEN 0 ELSE IF n > MaxInt32 THEN MaxInt32 ELSE n : n \in HeaderInt(h)}

-----------------------------------------------------------------------------
(***************************************************************************)
(* Errors.                                                                 *)
(***************************************************************************)
\* An error and all it wraps, in the order errors.As and ErrorCode visit them.
RECURSIVE Chain(_)
Chain(e) == <<e>> \o FlattenSeq([i \in DOMAIN e.wraps |-> Chain(e.wraps[i])])

OfKind(e, kind) == SelectSeq(Chain(e), LAMBDA x : x.kind = kind)

\* The codes of the library's own errors.
SentinelCode(e) ==
    LET codes == [ErrRPCTimeout |-> "RPC_TIMEOUT", ErrNotReady |-> "NOT_READY",
                  ErrPublishNacked |-> "PUBLISH_NACKED", ErrUnroutable |-> "UNROUTABLE",
                  ErrPublishConfirmTimeout |-> "PUBLISH_CONFIRM_TIMEOUT",
                  ErrChannelClosed |-> "CHANNEL_CLOSED"]
    IN  IF e \in DOMAIN codes THEN codes[e] ELSE ""

\* A publish of the handler's own that failed. Its text quotes where it was going.
PublishError(e) ==
    LET named == {"ErrPublishNacked", "ErrUnroutable", "ErrPublishConfirmTimeout", "ErrChannelClosed"}
    IN  [kind |-> "other", name |-> IF e \in named THEN e ELSE "PublishError",
         code |-> SentinelCode(e), text |-> {"secret"},
         wraps |-> <<[kind |-> "other", name |-> "Error", code |-> SentinelCode(e),
                      text |-> {}, wraps |-> <<>>]>>]

Answer(code, text) == [code |-> code, text |-> text]

\* asAnswerable: what the caller is answered with, or nothing.
AsAnswerable(e) ==
    LET handled == OfKind(e, "handled")  remote == OfKind(e, "remote")
    IN  IF handled # <<>> THEN {Answer(Head(handled).code, Head(handled).text)}
        ELSE IF remote # <<>> /\ Head(remote).code \notin {"", "INTERNAL_ERROR", "PROCESSING_TIMEOUT"}
             THEN {Answer(Head(remote).code, Head(remote).text)} ELSE {}

\* ErrorCode: the first code in the chain, "" if there is none.
ErrorCode(e) ==
    LET coded == SelectSeq(Chain(e), LAMBDA x : x.code # "")
    IN  IF coded = <<>> THEN "" ELSE Head(coded).code

\* err.Error(): a wrapper quotes what it wraps.
ErrorText(e) == UNION {Chain(e)[i].text : i \in DOMAIN Chain(e)}

RECURSIVE InnermostNamed(_)
InnermostNamed(e) ==
    IF e.name # "Error" \/ Len(e.wraps) # 1 THEN e ELSE InnermostNamed(e.wraps[1])

\* The text of the x-last-error header.
\* Mutant: the error is quoted.
SafeErrorSummaryQuotes(e) == {e.name} \cup ErrorText(e)

SafeErrorSummary(e) ==
    LET handled == OfKind(e, "handled")
    IN  IF handled # <<>> THEN {"HandledError", Head(handled).code} \cup Head(handled).text
        ELSE {InnermostNamed(e).name, ErrorCode(e)} \ {""}

\* Mutant: a handled error crosses only when it is not wrapped.
SanitizeForCallerOutermost(e, expose) ==
    CASE e.kind = "handled" -> Answer(e.code, e.text)
      [] e.kind = "timeout" -> Answer("PROCESSING_TIMEOUT", e.text)
      [] OTHER -> IF expose THEN Answer(ErrorCode(e), ErrorText(e))
                  ELSE Answer("INTERNAL_ERROR", {"internal service error"})

SanitizeForCaller(e, expose) ==
    CASE AsAnswerable(e) # {} -> CHOOSE a \in AsAnswerable(e) : TRUE
      [] AsAnswerable(e) = {} /\ OfKind(e, "timeout") # <<>> ->
           Answer("PROCESSING_TIMEOUT", Head(OfKind(e, "timeout")).text)
      [] OTHER -> IF expose THEN Answer(ErrorCode(e), ErrorText(e))
                  ELSE Answer("INTERNAL_ERROR", {"internal service error"})
=============================================================================
