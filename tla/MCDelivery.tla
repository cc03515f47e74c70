----------------------------- MODULE MCDelivery -----------------------------
(***************************************************************************)
(* Delivery with two delivery tags and one message, in every mode.         *)
(***************************************************************************)
EXTENDS Delivery

CONSTANTS m1, t1, t2
=============================================================================
