---------------------------- MODULE MCDispatcher ----------------------------
(***************************************************************************)
(* Dispatcher with one caller, and the goroutines that serve or fail it.   *)
(***************************************************************************)
EXTENDS Dispatcher

CONSTANT c1

MCScenes ==
    {[faults |-> 2, closing |-> FALSE, late |-> FALSE],
     [faults |-> 2, closing |-> FALSE, late |-> TRUE],
     [faults |-> 1, closing |-> TRUE, late |-> TRUE],
     [faults |-> 1, closing |-> TRUE, late |-> FALSE]}
=============================================================================
