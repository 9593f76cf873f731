--------------------------- MODULE AccountPositions ---------------------------
(***************************************************************************)
(* What the pool's storage of account positions promises: every account    *)
(* has a position for every asset there will ever be, none at first, and a *)
(* message replaces the positions it works on and no others.  AssetListing *)
(* implements this with vectors that grow, until it mixes entries up.      *)
(***************************************************************************)
EXTENDS Naturals

CONSTANTS
  Accounts,
  MaxAssets,   \* bound on the number of assets
  Entries,     \* the positions an account can have
  None

Ids == 0 .. MaxAssets - 1

VARIABLES
  listed,     \* the number of registered assets
  positions,  \* account -> asset id -> entry or None
  put,        \* what the last message has written: <<account, id>> -> entry
  mixed       \* entries have been mixed up

positionVars == <<listed, positions, put, mixed>>

InitPositions ==
  /\ listed = 0
  /\ positions = [a \in Accounts |-> [i \in Ids |-> None]]
  /\ put = [w \in {} |-> None]
  /\ mixed = FALSE

\* A message writes positions in registered assets.
Message ==
  /\ \E W \in SUBSET (Accounts \X (0 .. listed - 1)) : put' \in [W -> Entries]
  /\ positions' = [a \in Accounts |-> [i \in Ids |->
                     IF <<a, i>> \in DOMAIN put' THEN put'[<<a, i>>] ELSE positions[a][i]]]
  /\ UNCHANGED <<listed, mixed>>

\* The next asset is registered.
List ==
  /\ listed' = listed + 1
  /\ UNCHANGED <<positions, put, mixed>>

\* Once entries have been mixed up nothing is promised.
Mixed == mixed'

NextPositions == Message \/ List \/ Mixed

SpecPositions == InitPositions /\ [][NextPositions]_positionVars
=============================================================================
