----------------------------- MODULE AssetListing -----------------------------
(***************************************************************************)
(* How the pool's storage grows when assets are registered: the ids of the *)
(* assets, the market rules and, for every account, the vector of its      *)
(* entries, whose index is the asset's id.                                 *)
(*                                                                         *)
(* A vector is made when the account is first written to, with an entry    *)
(* for each asset known by then, and lengthened when it is written to      *)
(* again.  Transfers write one of the two vectors with Vec::insert, which  *)
(* makes it longer by one.  What the entries hold is in LendingPool; here  *)
(* a message puts any entries in place of those it works on.               *)
(***************************************************************************)
EXTENDS Naturals, Sequences, FiniteSets

CONSTANTS
  Accounts,
  Underlyings,   \* addresses of tokens that may be registered
  MaxAssets,     \* bound on the number of assets
  Entries,       \* AccountReserveData
  AssetRules,    \* AssetRules that are valid
  MarketRules,   \* the market rules an admin adds
  MaxRules,      \* bound on the number of market rules
  MaxLength,     \* bound on the length of a vector that is inserted into
  None

ASSUME ListingAssumption ==
  /\ MaxAssets \in Nat /\ MaxRules \in Nat /\ MaxLength \in Nat
  /\ None \notin Entries /\ None \notin AssetRules /\ None \notin Nat
  /\ None \notin Seq(Entries \cup {None})
  /\ MarketRules \subseteq Seq(AssetRules \cup {None})

VARIABLES
  assets,   \* id_to_asset, as a sequence; next_asset_id is its length
  idOf,     \* asset_to_id; None for tokens that are not registered
  rules,    \* market_rules; rule id k is rules[k + 1]
  vectors,  \* account_reserve_datas; None before the first write
  put,      \* history: what the last message was to write
  mixed     \* history: a message has mixed entries up

listingVars == <<assets, idOf, rules, vectors, put, mixed>>

InitListing ==
  /\ assets = <<>>
  /\ idOf = [x \in Underlyings |-> None]
  /\ rules = <<>>
  /\ vectors = [a \in Accounts |-> None]
  /\ put = [w \in {} |-> None]
  /\ mixed = FALSE

\* The ids of the registered assets.
Known == 0 .. Len(assets) - 1

-----------------------------------------------------------------------------
(* reading and writing a vector *)

\* The entry at an index, None behind the end.
At(v, i) == IF v # None /\ i < Len(v) THEN v[i + 1] ELSE None

\* Mutant: a vector that is too short is made anew.
Renewed(v) ==
  IF v # None /\ Len(v) >= Len(assets) THEN v
  ELSE [k \in 1 .. Len(assets) |-> None]

\* get_account_datas: at least as long as there are assets.
Resized(v) ==
  IF v # None /\ Len(v) >= Len(assets) THEN v
  ELSE [k \in 1 .. Len(assets) |-> At(v, k - 1)]

\* Entries written in place.
Written(v, es) ==
  [k \in DOMAIN v |-> IF k - 1 \in DOMAIN es THEN es[k - 1] ELSE v[k]]

\* Vec::insert
InsertedAt(v, i, e) ==
  [k \in 1 .. Len(v) + 1 |-> IF k <= i THEN v[k] ELSE IF k = i + 1 THEN e ELSE v[k - 1]]

\* An insertion at i does no more than to write at i.
Harmless(v, i) == \A k \in 1 .. Len(v) : k > i => v[k] = None

-----------------------------------------------------------------------------
(* messages of users *)

\* account_for_account_actions: the entries are written back as a whole.
Work(a, es) ==
  /\ DOMAIN es \subseteq Known
  /\ vectors' = [vectors EXCEPT ![a] = Written(Resized(vectors[a]), es)]
  /\ put' = [w \in {a} \X DOMAIN es |-> es[w[2]]]
  /\ UNCHANGED <<assets, idOf, rules, mixed>>

\* account_for_liquidate: the liquidated account's vector, then the caller's.
Liquidate(l, a, rp, tk, paid, taken, given) ==
  LET own == Resized(vectors[a]) IN
  /\ rp \in Known /\ tk \in Known
  /\ At(own, rp) # None /\ At(own, tk) # None
  /\ vectors' = [vectors EXCEPT
       ![a] = Written(own, [i \in {rp, tk} |-> IF i = tk THEN taken ELSE paid]),
       ![l] = Written(Resized(vectors[l]), [i \in {tk} |-> given])]
  /\ put' = [w \in {<<a, rp>>, <<a, tk>>, <<l, tk>>} |->
               IF w = <<l, tk>> THEN given ELSE IF w = <<a, tk>> THEN taken ELSE paid]
  /\ mixed' = (mixed \/ l = a)
  /\ UNCHANGED <<assets, idOf, rules>>

\* account_for_deposit_transfer_from_to: the sender's vector is read as it is
\* stored, the recipient's is inserted into.
TransferDeposit(f, t, i, out, in) ==
  /\ i \in Known
  /\ At(vectors[f], i) # None
  /\ Len(Resized(vectors[t])) < MaxLength
  /\ vectors' = [vectors EXCEPT ![t] = InsertedAt(Resized(vectors[t]), i, in),
                                ![f] = Written(vectors[f], [j \in {i} |-> out])]
  /\ put' = [w \in {<<f, i>>, <<t, i>>} |-> IF w = <<f, i>> THEN out ELSE in]
  /\ mixed' = (mixed \/ f = t \/ ~Harmless(Resized(vectors[t]), i))
  /\ UNCHANGED <<assets, idOf, rules>>

\* account_for_debt_transfer_from_to: the recipient's vector is read as it is
\* stored, and must be long enough; the sender's is inserted into.
TransferDebt(f, t, i, out, in) ==
  /\ i \in Known
  /\ vectors[t] # None /\ i < Len(vectors[t])
  /\ Len(Resized(vectors[f])) < MaxLength
  /\ vectors' = [vectors EXCEPT ![f] = InsertedAt(Resized(vectors[f]), i, out),
                                ![t] = Written(vectors[t], [j \in {i} |-> in])]
  /\ put' = [w \in {<<f, i>>, <<t, i>>} |-> IF w = <<f, i>> THEN out ELSE in]
  /\ mixed' = (mixed \/ f = t \/ ~Harmless(Resized(vectors[f]), i))
  /\ UNCHANGED <<assets, idOf, rules>>

-----------------------------------------------------------------------------
(* messages of admins *)

\* Mutant: the rule is pushed to the end without filling it up first.
RuleAppended(rule, i, r) == Append(rule, r)

\* The rule with r for asset i, filled up with None before it.
RuleWith(rule, i, r) ==
  [k \in 1 .. (IF Len(rule) > i THEN Len(rule) ELSE i + 1) |->
     IF k = i + 1 THEN r ELSE IF k <= Len(rule) THEN rule[k] ELSE None]

\* Mutant: a token can be registered again.
RegisterAgain(x, r) ==
  /\ Len(assets) < MaxAssets
  /\ Len(rules) > 0
  /\ idOf' = [idOf EXCEPT ![x] = Len(assets)]
  /\ assets' = Append(assets, x)
  /\ rules' = [rules EXCEPT ![1] = RuleWith(rules[1], Len(assets), r)]
  /\ UNCHANGED <<vectors, put, mixed>>

\* register_asset: the new asset comes with its rule in market rule 0.
RegisterAsset(x, r) ==
  /\ idOf[x] = None
  /\ Len(assets) < MaxAssets
  /\ Len(rules) > 0
  /\ idOf' = [idOf EXCEPT ![x] = Len(assets)]
  /\ assets' = Append(assets, x)
  /\ rules' = [rules EXCEPT ![1] = RuleWith(rules[1], Len(assets), r)]
  /\ UNCHANGED <<vectors, put, mixed>>

\* Mutant: no event is sent of a rule for an asset that is not registered.
AddAnyMarketRule(rule) ==
  /\ Len(rules) < MaxRules
  /\ rules' = Append(rules, rule)
  /\ UNCHANGED <<assets, idOf, vectors, put, mixed>>

\* add_market_rule: the event of each asset's rule looks the asset up, which
\* panics when it is not registered.
AddMarketRule(rule) ==
  /\ Len(rules) < MaxRules
  /\ \A k \in DOMAIN rule : rule[k] # None => k <= Len(assets)
  /\ rules' = Append(rules, rule)
  /\ UNCHANGED <<assets, idOf, vectors, put, mixed>>

ModifyAssetRule(k, x, r) ==
  /\ idOf[x] # None
  /\ k < Len(rules)
  /\ rules' = [rules EXCEPT ![k + 1] = RuleWith(@, idOf[x], r)]
  /\ UNCHANGED <<assets, idOf, vectors, put, mixed>>

-----------------------------------------------------------------------------
UserNext ==
  \/ \E a \in Accounts, I \in SUBSET Known : \E es \in [I -> Entries] : Work(a, es)
  \/ \E l, a \in Accounts, rp, tk \in Known, paid, taken, given \in Entries :
       Liquidate(l, a, rp, tk, paid, taken, given)
  \/ \E f, t \in Accounts, i \in Known, out, in \in Entries : TransferDeposit(f, t, i, out, in)
  \/ \E f, t \in Accounts, i \in Known, out, in \in Entries : TransferDebt(f, t, i, out, in)

ListingNext ==
  \/ \E x \in Underlyings, r \in AssetRules : RegisterAsset(x, r)
  \/ \E rule \in MarketRules : AddMarketRule(rule)
  \/ \E k \in 0 .. MaxRules - 1, x \in Underlyings, r \in AssetRules : ModifyAssetRule(k, x, r)

NextListing == UserNext \/ ListingNext

SpecListing == InitListing /\ [][NextListing]_listingVars

-----------------------------------------------------------------------------
(* Properties *)

EntryVectors == Seq(Entries \cup {None})

\* Types.  asset_to_id and id_to_asset are inverse to each other
\* ("iterating over all assets => id_to_asset exists", storage/mod.rs:1501).
ListingTypeOK ==
  /\ assets \in Seq(Underlyings)
  /\ idOf \in [Underlyings -> Nat \cup {None}]
  /\ \A x \in Underlyings : idOf[x] # None => idOf[x] \in Known /\ assets[idOf[x] + 1] = x
  /\ \A k \in DOMAIN assets : idOf[assets[k]] = k - 1
  /\ rules \in Seq(Seq(AssetRules \cup {None}))
  /\ vectors \in [Accounts -> EntryVectors \cup {None}]
  /\ \E W \in SUBSET (Accounts \X Known) : put \in [W -> Entries]
  /\ mixed \in BOOLEAN

\* Market rule 0, which an account is under unless it chooses another, exists
\* as soon as there is an asset to use and has a rule for every asset
\* ("account used market rule => market rule exists", storage/mod.rs:1568).
BaseRuleComplete ==
  /\ assets # <<>> => rules # <<>>
  /\ \A i \in Known : i < Len(rules[1]) /\ rules[1][i + 1] # None

\* Nothing is stored ahead of time for an asset that is still to be
\* registered, so that it starts with no positions and with no rule but its
\* own in market rule 0: no rule mentions it, and unless entries have been
\* mixed up no account's vector has an entry for it.
NothingAhead ==
  /\ \A k \in DOMAIN rules : \A i \in DOMAIN rules[k] : rules[k][i] # None => i <= Len(assets)
  /\ ~mixed => \A a \in Accounts :
       vectors[a] # None =>
         \A k \in 1 .. Len(vectors[a]) : vectors[a][k] # None => k <= Len(assets)

Positions ==
  INSTANCE AccountPositions WITH
    listed <- Len(assets),
    positions <- [a \in Accounts |-> [i \in 0 .. MaxAssets - 1 |-> At(vectors[a], i)]]

\* However the vectors grow, and whenever an account's was made, a message
\* replaces just the entries it works on, in the account and for the asset it
\* means, until one mixes entries up: it inserts before an entry that is
\* already there, or works on two copies of one account's vector.
PositionsReplaced == Positions!SpecPositions
=============================================================================
