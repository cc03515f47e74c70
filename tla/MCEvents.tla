------------------------------ MODULE MCEvents ------------------------------
(***************************************************************************)
(* A service's durable listener with retries, a private listener, and one  *)
(* that NewEventListener refuses.                                          *)
(***************************************************************************)
EXTENDS Events, TLC

CONSTANTS svcL, ownL, badL, s1, s2, s3, e1

MCOn == s1 :> svcL @@ s2 :> svcL @@ s3 :> ownL
MCPlans == {s1 :> <<"x", "*">> @@ s2 :> w[1] @@ s3 :> <<"#">> @@ e1 :> w[2] :
              w \in {<<<<"#", "y">>, "whole">>, <<<<"x", "*">>, "garbled">>, <<<<"*", "#">>, "unknown">>,
                     <<<<"*", "#">>, "noise">>, <<<<"*", "#">>, "refused">>,
                     <<<<"#">>, "keyless">>}}
MCTopics == UNION {[1..n -> {"x", "y"}] : n \in 1..3}
MCTopicOf == e1 :> <<"x", "y">>
MCTypeOf == s1 :> "T" @@ s2 :> "U" @@ e1 :> "T"
=============================================================================
