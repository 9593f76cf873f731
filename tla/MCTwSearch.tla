------------------------------ MODULE MCTwSearch ------------------------------
(* A small ring and a short time for TwSearch. *)
EXTENDS TwSearch

\* At least two units of time between adjustments; 1 of 2 is the target.
SmallParams == [target |-> 1, minRate |-> 1, maxRate |-> 3, rateAtMax |-> 4, minTime |-> 2]
=============================================================================
