------------------------------ MODULE MCBroker ------------------------------
(***************************************************************************)
(* Broker with a durable work queue whose messages expire or are rejected  *)
(* into a topic exchange, and an exclusive priority queue bound to it.     *)
(***************************************************************************)
EXTENDS Broker

CONSTANTS a, b, n1, n2

MCConnOf == [c \in {a, b} |-> IF c = a THEN n1 ELSE n2]

\* The two clients may be exchanged, each with its channel.
Clients == {[x \in {a, b, n1, n2} |-> x],
            [x \in {a, b, n1, n2} |-> CASE x = a -> b [] x = b -> a [] x = n1 -> n2 [] x = n2 -> n1]}

MCQueues ==
    [q \in {"work", "own"} |->
        [durable     |-> q = "work",
         autoDelete  |-> q = "own",
         exclusive   |-> q = "own",
         ttl         |-> q = "work",
         dlx         |-> IF q = "work" THEN "dlx" ELSE "none",
         dlxKey      |-> <<>>,
         maxPriority |-> IF q = "own" THEN 1 ELSE 0]]

MCExchanges == [e \in {"dlx"} |-> [kind |-> "topic", durable |-> FALSE]]

MCBindKeys == {<<"#">>}

ToWork == [ex |-> "", key |-> <<"work">>, mandatory |-> TRUE, persistent |-> TRUE, priority |-> 0]
ToDlx == [ex |-> "dlx", key |-> <<"a">>, mandatory |-> TRUE, persistent |-> FALSE, priority |-> 1]
Mode(auto, excl) == [autoAck |-> auto, exclusive |-> excl]

\* A publisher with every confirm policy; two workers on a declared work queue;
\* a client that declares the topology itself.
Publisher == [does |-> {"publish", "hangup"}, channels |-> 1, modes |-> {}, prefetches |-> {}, sends |-> {ToWork, ToDlx},
              cons |-> 0, pubs |-> 2, declared |-> TRUE]
Workers == [does |-> {"consume"}, channels |-> 2, modes |-> {Mode(FALSE, FALSE)}, prefetches |-> {1},
            sends |-> {ToWork}, cons |-> 2, pubs |-> 2, declared |-> TRUE]
Declarer == [does |-> {"declare", "consume", "hangup"}, channels |-> 2, modes |-> {Mode(TRUE, TRUE)}, prefetches |-> {},
             sends |-> {ToWork, ToDlx}, cons |-> 1, pubs |-> 1, declared |-> TRUE]

MCProfiles == {Publisher, Workers, Declarer}
=============================================================================
