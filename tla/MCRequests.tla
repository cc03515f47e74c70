---------------------------- MODULE MCRequests ----------------------------
(***************************************************************************)
(* A contract with a unary and a streaming method, served under its own    *)
(* name and under an instance name, beside another port's service.         *)
(***************************************************************************)
EXTENDS Requests

Calc == <<"pkg", "Calc">>
Store == <<"pkg", "Store">>
MCSchema == Calc :> ("add" :> "unary" @@ "sub" :> "unary" @@ "watch" :> "server" @@ "feed" :> "client")
            @@ Store :> ("add" :> "unary")

\* Payloads: a list of nodes, each with a next node and a bigint; a flat one; junk.
MCFields == [List |-> {"Node"}, Node |-> {"Node", "Bigint"}, Flat |-> {}, Empty |-> {}, Bigint |-> {}]
Value(type, kids) == [type |-> type, wide |-> FALSE, kids |-> kids]
Bigint(wide) == [type |-> "Bigint", wide |-> wide, kids |-> <<>>]
List(wide) == Value("List", <<Value("Node", <<Value("Node", <<Bigint(wide)>>), Bigint(FALSE)>>)>>)
Req == Value("Flat", <<>>)
Sum == List(FALSE)
Wide == List(TRUE)
Junk == Value("junk", <<>>)

Options == [service |-> Calc, instance |-> "", unary |-> {"add"}, streams |-> {"watch"},
            concurrency |-> 1, eventConcurrency |-> 1, retries |-> 2, delay |-> 1, ttl |-> 0,
            eventRetries |-> 0, eventDelay |-> 0, timeout |-> 0, priority |-> "unset",
            earlyAck |-> FALSE, expose |-> FALSE, dynamic |-> FALSE, peer |-> FALSE]
Peer == [Options EXCEPT !.service = Store, !.streams = {}, !.peer = TRUE]
P1 == [Options EXCEPT !.instance = "p1", !.retries = 1, !.dynamic = TRUE]

MCDeployments ==
    {[calc |-> o, p1 |-> P1] :
        o \in {Options, [Options EXCEPT !.expose = TRUE], [Options EXCEPT !.earlyAck = TRUE],
               [Options EXCEPT !.retries = 0, !.priority = "some", !.unary = {"add", "sub"}]}}
    \cup {[calc |-> o, peer |-> Peer] :
        o \in {Options, [Options EXCEPT !.instance = "a.b"], [Options EXCEPT !.priority = "zero"],
               [Options EXCEPT !.priority = "some", !.earlyAck = TRUE],
               [Options EXCEPT !.delay = 0], [Options EXCEPT !.concurrency = 0],
               [Options EXCEPT !.unary = {"add", "watch"}],
               [Options EXCEPT !.unary = {"add", "mul"}, !.dynamic = TRUE],
               [Options EXCEPT !.streams = {"feed"}], [Options EXCEPT !.service = <<"pkg">>]}}

Base == [via |-> "client", name |-> Calc, instance |-> "", method |-> "add", stream |-> FALSE,
         type |-> Dot(Calc, "add"), data |-> Req, actor |-> "", id |-> "", timeout |-> 0,
         noReply |-> FALSE]
Clients ==
    {Base, [Base EXCEPT !.instance = "p1", !.actor = "ann"], [Base EXCEPT !.instance = "a.b"],
     [Base EXCEPT !.method = "sub"], [Base EXCEPT !.method = "watch"], [Base EXCEPT !.data = Wide],
     [Base EXCEPT !.id = "blank"], [Base EXCEPT !.id = "mine"], [Base EXCEPT !.timeout = -1],
     [Base EXCEPT !.noReply = TRUE], [Base EXCEPT !.name = Store]}
Dynamics ==
    {[c EXCEPT !.via = "dynamic"] :
        c \in {Base, [Base EXCEPT !.name = Dot(Calc, "p1")], [Base EXCEPT !.name = <<"other">>],
               [Base EXCEPT !.method = "mul"], [Base EXCEPT !.method = "watch"],
               [Base EXCEPT !.method = "watch", !.stream = TRUE, !.type = Dot(Calc, "watch")],
               [Base EXCEPT !.type = Dot(Calc, "sub")]}}

Key == Dot(<<"REQUEST">> \o Calc, "add")
KeyP1 == Dot(<<"REQUEST">> \o Calc \o <<"p1">>, "add")
Raw == [via |-> "peer", key |-> Key, exchange |-> "bus", cc |-> {}, id |-> "", noReply |-> FALSE,
        body |-> AppendRequest(Dot(Calc, "add"), "", Req), retry |-> Absent, first |-> Absent,
        expires |-> FALSE]
Bodies ==
    {<<Field(1, Dot(Calc, "add")), [Field(9, "new") EXCEPT !.typ = "varint"]>>,
     <<Field(1, Dot(Store, "add")), Field(1, Dot(Calc, "add"))>>,
     <<Field(1, Dot(Calc, "add")), Cut>>,
     <<[Field(1, Dot(Calc, "add")) EXCEPT !.typ = "varint"]>>,
     <<Field(1, Dot(Calc, "add")), [Field(2, "ann") EXCEPT !.utf8 = FALSE]>>,
     <<Field(1, Dot(Calc, "sub"))>>, <<Field(1, Dot(Store, "add"))>>, <<Field(1, <<"add">>)>>, <<>>,
     AppendRequest(Dot(Calc, "add"), "", Wide), AppendRequest(Dot(Calc, "add"), "", Junk)}
Counts ==
    {[typ |-> t, n |-> n, whole |-> TRUE] : t \in {"string", "float64"},
                                            n \in {-1, 1, MaxInt32 + 1, MaxInt64 + 1}}
    \cup {[typ |-> "uint64", n |-> MaxInt64 + 1, whole |-> TRUE],
          [typ |-> "float64", n |-> 1, whole |-> FALSE], [typ |-> "bool", n |-> 1, whole |-> TRUE]}
Peers ==
    {[Raw EXCEPT !.body = b] : b \in Bodies} \cup {[Raw EXCEPT !.retry = h] : h \in Counts}
    \cup {[Raw EXCEPT !.first = [typ |-> "string", n |-> n, whole |-> TRUE]] : n \in {0, MaxInt64}}
    \cup {[Raw EXCEPT !.expires = TRUE], [Raw EXCEPT !.key = Calc, !.exchange = ""],
          [Raw EXCEPT !.cc = {KeyP1}], [Raw EXCEPT !.key = KeyP1, !.cc = {Key}],
          [Raw EXCEPT !.key = <<"">>, !.cc = {Key}], [Raw EXCEPT !.key = <<"">>, !.cc = {Key}, !.body = <<Cut>>]}
MCCalls == Clients \cup Dynamics \cup Peers

Handled == Error("handled", "HandledError", "NO_STOCK", {"msg"}, <<>>)
Wrap(es) == Error("other", "Error", "", {"secret"}, es)
Remote(code) == Error("remote", "RemoteError", code, {"far"}, <<>>)
Coded == Error("other", "PathError", "EIO", {"secret"}, <<>>)
MCOutcomes ==
    {[kind |-> "ok", data |-> d] : d \in {Sum, Wide}}
    \cup {[kind |-> k] : k \in {"panic", "overrun"}}
    \cup {[kind |-> "err", err |-> e] :
            e \in {Handled, Wrap(<<Handled>>), Wrap(<<Coded, Handled>>), Wrap(<<Coded>>),
                   Wrap(<<Remote("NO_STOCK")>>), Remote(""), Remote("INTERNAL_ERROR"),
                   PublishError("ErrPublishConfirmTimeout"), Wrap(<<PublishError("canceled")>>),
                   Wrap(<<Error("unimplemented", "Error", "", {}, <<>>)>>)}}

MCPeerReplies ==
    LET ok == AppendResult(Dot(Store, "add"), Sum)
        bad == AppendError(Dot(Store, "add"), Answer("NO_STOCK", {"far"}))
    IN  {ok, bad, ok \o bad, bad \o ok, <<>>, Append(ok, Cut), AppendResult(Dot(Store, "sub"), Sum),
         AppendResult(Dot(Store, "add"), Junk),
         <<Field(1, <<Field(1, Dot(Store, "add"))>>), Field(1, <<Field(2, Sum)>>)>>}
=============================================================================
