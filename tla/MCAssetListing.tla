---------------------------- MODULE MCAssetListing ----------------------------
(* Small instances of AssetListing. *)
EXTENDS AssetListing, TLC

CONSTANTS r

\* A rule without content, and one for the second asset.
SomeMarketRules == {<<None>>, <<None, r>>}

\* Accounts, tokens and entries are only compared with each other.
Alike == Permutations(Accounts) \cup Permutations(Underlyings) \cup Permutations(Entries)
=============================================================================
