-------------------------------- MODULE Tally --------------------------------
(***************************************************************************)
(* The sum of the balances f[a] over a finite set, defined as the number   *)
(* of unit coins the holders have, so that facts about finite sets are     *)
(* facts about sums.                                                       *)
(***************************************************************************)
EXTENDS Integers, FiniteSets

CoinsOf(a, n) == {a} \X (1 .. n)

Coins(f) == UNION {CoinsOf(a, f[a]) : a \in DOMAIN f}

Total(f) == Cardinality(Coins(f))
=============================================================================
