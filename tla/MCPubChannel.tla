---------------------------- MODULE MCPubChannel ----------------------------
(***************************************************************************)
(* PubChannel with two publications, in two scenes.                        *)
(***************************************************************************)
EXTENDS PubChannel, TLC

CONSTANTS p1, p2, d1, d2

\* Every publication has an identity of its own.
DistinctIdents == p1 :> d1 @@ p2 :> d2

\* Both publications in flight, one nacked or its queue come or gone; both after one
\* slot, one of them giving up.
TwoScenes ==
    {[slots |-> 2, bound |-> {d1}, volatile |-> {d2}, cancellable |-> {}, refusable |-> {p2}],
     [slots |-> 1, bound |-> {d1}, volatile |-> {}, cancellable |-> {p2}, refusable |-> {}]}
=============================================================================
