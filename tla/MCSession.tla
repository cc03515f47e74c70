----------------------------- MODULE MCSession -----------------------------
(***************************************************************************)
(* Session with a consumer or a dispatcher alone, and with both.           *)
(***************************************************************************)
EXTENDS Session

CONSTANTS c1, c2

Scene(C, R, n, f, early, partial) ==
    [comps |-> C, repliers |-> R, retries |-> n, faults |-> f,
     early |-> early, partial |-> partial]

\* Alone, without limit to the reconnections; together, with one.
MCScenes ==
    {Scene({c1}, R, 0, 2, FALSE, FALSE) : R \in {{}, {c1}}}
    \cup {Scene({c1}, R, 2, 2, TRUE, TRUE) : R \in {{}, {c1}}}
    \cup {Scene({c1, c2}, {c2}, 1, 1, TRUE, TRUE)}
PartialScenes == {Scene({c1}, {}, 0, 2, FALSE, TRUE)}
=============================================================================
