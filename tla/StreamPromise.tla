--------------------------- MODULE StreamPromise ---------------------------
(***************************************************************************)
(* What a streaming call promises its caller (client.go:116-123): the      *)
(* responses in order and once each, then one verdict, which is a clean    *)
(* end or the handler's error only after all of the handler's responses.   *)
(***************************************************************************)
EXTENDS Naturals, Sequences

CONSTANTS
    Calls,  \* the streaming calls
    Errors  \* the verdicts that may cut a stream short

VARIABLES
    plan,    \* what each handler produces: plan[c].n responses, then nil or an error
    yielded, \* the responses each caller's loop has been given
    verdict  \* how each caller's loop ended

Init ==
    /\ yielded = [c \in Calls |-> <<>>]
    /\ verdict = [c \in Calls |-> "none"]

Yields(c) ==
    /\ verdict[c] = "none" /\ Len(yielded[c]) < plan[c].n
    /\ yielded' = [yielded EXCEPT ![c] = Append(@, Len(@) + 1)]
    /\ UNCHANGED verdict

Ends(c) ==
    /\ verdict[c] = "none" /\ Len(yielded[c]) = plan[c].n
    /\ verdict' = [verdict EXCEPT ![c] = IF plan[c].ok THEN "clean" ELSE "remote"]
    /\ UNCHANGED yielded

Fails(c) ==
    /\ verdict[c] = "none"
    /\ \E e \in Errors : verdict' = [verdict EXCEPT ![c] = e]
    /\ UNCHANGED yielded

Next == UNCHANGED plan /\ \E c \in Calls : Yields(c) \/ Ends(c) \/ Fails(c)

Spec == Init /\ [][Next]_<<plan, yielded, verdict>>
=============================================================================
