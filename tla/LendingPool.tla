----------------------------- MODULE LendingPool -----------------------------
(***************************************************************************)
(* The lending pool contract: reserves, account positions and account      *)
(* configs, and the messages that change them.                             *)
(*                                                                         *)
(* The chain executes one message at a time and rolls a failing one back,  *)
(* so a message is one action, disabled exactly when the code returns an   *)
(* error or panics.  Between messages block time passes and the price feed *)
(* changes.  Who may ask for what (allowances of the abacus tokens, roles  *)
(* of the admins) is left out: the constants list the requests made.  The  *)
(* snapshot of the utilization that every message takes of a reserve it    *)
(* works on is in TwUtilization: only adjust_rate_at_target reads it.      *)
(***************************************************************************)
EXTENDS LendingPower, Sequences

CONSTANTS
  Accounts,           \* users of the pool
  NumAssets,          \* registered assets have the ids 0 .. NumAssets - 1
  Supply,             \* per asset: total supply of the underlying PSP22
  FeeReduction,       \* per account: what the fee reduction provider answers
  InitialModel,       \* per asset: interest rate model, None for a stablecoin
  InitialFees,        \* per asset: [deposit, debt]
  InitialLimits,      \* per asset: reserve restrictions
  InitialPrice,       \* per asset
  InitialRules,       \* rule id -> asset -> AssetRules or None
  \* What the environment asks for.
  Requests,           \* <<account, [op, asset, amount]>>
  MultiRequests,      \* <<account, <<[op, asset, amount], [...]>> >>
  DepositTransfers,   \* <<from, to, asset, amount>> through the aToken
  DebtTransfers,      \* <<from, to, asset, amount>> through the vToken
  Liquidations,       \* <<liquidator, liquidated, repaid, taken, amount>>
  CollateralSwitches, \* <<account, asset, on or off>>
  RuleChoices,        \* <<account, rule id>>
  Adjustments,        \* <<asset, rate at target>>, computed by TwUtilization
  Admin,              \* the calls of the admins, a record of sets
  Prices,             \* per asset: the prices the feed may move to
  MaxTime,            \* bound on block time
  MaxRules            \* bound on the number of market rules

Assets == 0 .. NumAssets - 1

Operations == {"Deposit", "Withdraw", "Borrow", "Repay"}
ActionState == [op : Operations, asset : Assets, amount : Nat]

LimitState == [maxDeposit : Nat, maxDebt : Nat, minCollateral : Nat, minDebt : Nat]
ModelState == [target : Nat, rateAtTarget : Nat, rateAtMax : Nat]
FeesState  == [deposit : 0 .. E6, debt : Nat]
CutState   == [deposit : 0 .. E6, debt : 0 .. E6]
MarketRule == [Assets -> AssetRules \cup {None}]

ASSUME PoolAssumption ==
  /\ IsFiniteSet(Accounts)
  /\ NumAssets \in Nat \ {0}
  /\ Supply \in [Assets -> U128]
  /\ DecimalMultiplier \in [Assets -> Nat \ {0}] /\ E10 \in Nat \ {0}
  /\ FeeReduction \in [Accounts -> CutState]
  /\ InitialModel \in [Assets -> ModelState \cup {None}] /\ None \notin ModelState
  /\ InitialFees \in [Assets -> FeesState]
  /\ InitialLimits \in [Assets -> LimitState]
  /\ InitialPrice \in [Assets -> Nat]
  /\ InitialRules \in Seq(MarketRule) /\ InitialRules # <<>>
  /\ MaxTime \in Nat /\ MaxRules \in Nat

ASSUME RequestAssumption ==
  /\ Requests \subseteq Accounts \X ActionState
  /\ MultiRequests \subseteq Accounts \X (ActionState \X ActionState)
  /\ DepositTransfers \subseteq Accounts \X Accounts \X Assets \X Nat
  /\ DebtTransfers \subseteq Accounts \X Accounts \X Assets \X Nat
  /\ Liquidations \subseteq Accounts \X Accounts \X Assets \X Assets \X Nat
  /\ CollateralSwitches \subseteq Accounts \X Assets \X BOOLEAN
  /\ RuleChoices \subseteq Accounts \X Nat
  /\ Adjustments \subseteq Assets \X Nat
  /\ Prices \in [Assets -> SUBSET Nat]

ASSUME AdminAssumption ==
  /\ Admin.active \subseteq Assets \X BOOLEAN
  /\ Admin.frozen \subseteq Assets \X BOOLEAN
  /\ Admin.limits \subseteq Assets \X LimitState
  /\ Admin.model \subseteq Assets \X ModelState
  /\ Admin.fees \subseteq Assets \X FeesState
  /\ Admin.stableRate \subseteq Assets \X Nat
  /\ Admin.newRule \subseteq MarketRule
  /\ Admin.assetRule \subseteq Nat \X Assets \X AssetRules
  /\ Admin.income \subseteq Seq(Assets)

VARIABLES
  now,      \* block timestamp
  reserve,  \* asset -> ReserveState
  data,     \* account -> asset -> PositionState    (account_reserve_datas)
  config,   \* account -> ConfigState               (account_configs)
  limits,   \* asset -> restrictions
  model,    \* asset -> interest rate model or None
  rules,    \* market rules; rule id k is rules[k + 1]
  price,    \* asset -> price, kept by the price feed
  vault     \* asset -> the pool's balance of the underlying; for a
            \* stablecoin, the amount in circulation the pool has minted

book  == <<reserve, data, config, vault>>
setup == <<limits, model, rules>>
vars  == <<now, book, setup, price>>

Init ==
  /\ now = 0
  /\ reserve = [i \in Assets |-> NewReserve(0, InitialFees[i].deposit, InitialFees[i].debt)]
  /\ data = [a \in Accounts |-> [i \in Assets |-> NoPosition]]
  /\ config = [a \in Accounts |->
                [deposits |-> {}, collaterals |-> {}, borrows |-> {}, rule |-> 0]]
  /\ limits = InitialLimits
  /\ model = InitialModel
  /\ rules = InitialRules
  /\ price = InitialPrice
  /\ vault = [i \in Assets |-> 0]

-----------------------------------------------------------------------------
(* Pieces of the messages *)

\* account_for_reserve_action opens with the index update and closes with
\* the new rates.
Open(r, d, c) ==
  Try(Context(r, d, c), CanUpdate(r, now), Context(Updated(r, now), d, c))

Close(x, i) ==
  Try(x, CanRerate(x.r, model[i]), [x EXCEPT !.r = Rerated(x.r, model[i])])

\* _transfer_in and _transfer_out: a stablecoin is burned and minted, any
\* other asset moves to and from the pool's balance.  The transfer fails
\* when the amount is not there.
Received(i, v, n) == IF model[i] = None THEN v - n ELSE v + n
Sent(i, v, n)     == IF model[i] = None THEN v + n ELSE v - n
Possible(i, v)    == v \in 0 .. Supply[i]

\* The market rule of a config.
RuleOf(c) == rules[c.rule + 1]

\* ensure_collateralized_* for account a with these reserves, entries, config.
Backed(a, rs, ds, c) == Collateralized(rs, ds, c, price, RuleOf(c), FeeReduction[a])

\* Vec::insert at i: the entry that was there and those behind it move up.
\* What moves past the last registered asset is not read by any message.
Inserted(ds, i, d) ==
  [j \in Assets |-> IF j < i THEN ds[j] ELSE IF j = i THEN d ELSE ds[j - 1]]

-----------------------------------------------------------------------------
(* deposit, withdraw, borrow, repay, multi_op *)

\* The state account_for_account_actions works on; `check' is
\* must_check_collateralization.
Session(a) ==
  [ok |-> TRUE, check |-> FALSE, reserve |-> reserve, data |-> data[a],
   config |-> config[a], vault |-> vault]

\* One operation on an opened context.
Account(x, act, cut) ==
  LET i == act.asset IN
  CASE act.op = "Deposit"  -> AccountForDeposit(x, i, act.amount, cut, limits[i])
    [] act.op = "Withdraw" -> AccountForWithdraw(x, i, act.amount, TRUE, cut, limits[i])
    [] act.op = "Borrow"   -> AccountForBorrow(x, i, act.amount, cut, limits[i])
    [] act.op = "Repay"    -> AccountForRepay(x, i, act.amount, TRUE, cut, limits[i])

\* The vault once the operation's amount has been transferred.
VaultAfter(v, x, act, cut) ==
  CASE act.op = "Deposit"  -> Received(act.asset, v, act.amount)
    [] act.op = "Withdraw" -> Sent(act.asset, v, WithdrawnAmount(x, act.amount, TRUE, cut))
    [] act.op = "Borrow"   -> Sent(act.asset, v, act.amount)
    [] act.op = "Repay"    -> Received(act.asset, v, RepaidAmount(x, act.amount, TRUE, cut))

\* Mutant: only a borrow asks for the check.
MustCheckBorrow(s, act) == s.check \/ act.op = "Borrow"

MustCheck(s, act) ==
  \/ s.check
  \/ act.op = "Borrow"
  \/ act.op = "Withdraw" /\ act.asset \in s.config.collaterals

\* Mutant: a transfer that fails is ignored.
AfterUnpaid(s, act, y, v) ==
  [s EXCEPT !.ok = @ /\ y.ok,
            !.check = MustCheck(s, act),
            !.reserve[act.asset] = y.r,
            !.data[act.asset] = y.d,
            !.config = y.c,
            !.vault[act.asset] = v]

\* The state once `act' has led to the context y and the vault v.
After(s, act, y, v) ==
  [ok      |-> s.ok /\ y.ok /\ Possible(act.asset, v),
   check   |-> MustCheck(s, act),
   reserve |-> [s.reserve EXCEPT ![act.asset] = y.r],
   data    |-> [s.data EXCEPT ![act.asset] = y.d],
   config  |-> y.c,
   vault   |-> [s.vault EXCEPT ![act.asset] = v]]

Step(s, a, act) ==
  LET i == act.asset
      x == Open(s.reserve[i], s.data[i], s.config)
  IN  After(s, act, Close(Account(x, act, FeeReduction[a]), i),
            VaultAfter(s.vault[i], x, act, FeeReduction[a]))

\* The end of account_for_account_actions.
Commit(s, a) ==
  /\ s.ok
  /\ s.check => Backed(a, s.reserve, s.data, s.config)
  /\ reserve' = s.reserve
  /\ data' = [data EXCEPT ![a] = s.data]
  /\ config' = [config EXCEPT ![a] = s.config]
  /\ vault' = s.vault
  /\ UNCHANGED <<now, setup, price>>

\* deposit, withdraw, borrow or repay on behalf of a.
Operate(a, act) == act.amount # 0 /\ Commit(Step(Session(a), a, act), a)

\* multi_op with two operations; amounts may be zero here.
MultiOp(a, acts) == Commit(Step(Step(Session(a), a, acts[1]), a, acts[2]), a)

-----------------------------------------------------------------------------
(* liquidate *)

\* ensure_collateralized_by_account returns an error, of any kind; a panic in it
\* rolls the liquidation back.
Liquidatable(a) ==
  /\ ~Backed(a, reserve, data[a], config[a])
  /\ ~Panics(reserve, data[a], config[a], price, RuleOf(config[a]), FeeReduction[a])

\* What l is given of a's deposit in tk for what it has paid, `wanted' if there is
\* as much; rs, ds and c are the reserves and a's entries and config after the
\* repayment.
Seize(l, a, tk, wanted, paid, rs, ds, c) ==
  LET cut   == FeeReduction[a]
      y     == Open(rs[tk], ds[tk], c)
      taken == WithdrawnAmount(y, wanted, TRUE, cut)
      out   == AccountForWithdraw(y, tk, wanted, TRUE, cut, limits[tk])
      in    == Close(AccountForDeposit([out EXCEPT !.d = data[l][tk], !.c = config[l]],
                                       tk, taken, FeeReduction[l], limits[tk]), tk)
  IN  /\ in.ok
      /\ ReceivedFits(taken, paid)
      /\ reserve' = [rs EXCEPT ![tk] = in.r]
      /\ data' = [data EXCEPT ![a] = [ds EXCEPT ![tk] = out.d],
                              ![l] = [data[l] EXCEPT ![tk] = in.d]]
      /\ config' = [config EXCEPT ![a] = out.c, ![l] = in.c]

\* What l repays of a's debt in asset rp, up to n, and takes of its deposit.
AccountForLiquidate(l, a, rp, tk, n) ==
  LET cut    == FeeReduction[a]
      x      == Open(reserve[rp], data[a][rp], config[a])
      paid   == RepaidAmount(x, n, TRUE, cut)
      repaid == Close(AccountForRepay(x, rp, n, TRUE, cut, limits[rp]), rp)
      v      == Received(rp, vault[rp], paid)
  IN  /\ data[a][rp].debt # 0
      /\ repaid.ok
      /\ tk \in config[a].collaterals
      /\ CanPriceTake(rp, tk, price, RuleOf(config[a]))
      /\ TakeFits(paid, rp, tk, price, RuleOf(config[a]))
      /\ paid # 0
      /\ Possible(rp, v)
      /\ Seize(l, a, tk, AmountToTake(paid, rp, tk, price, RuleOf(config[a])), paid,
               [reserve EXCEPT ![rp] = repaid.r], [data[a] EXCEPT ![rp] = repaid.d], repaid.c)
      /\ vault' = [vault EXCEPT ![rp] = v]

\* The minimum that l may ask to receive only refuses more, so it is left out.
Liquidate(l, a, rp, tk, n) ==
  /\ Liquidatable(a)
  /\ AccountForLiquidate(l, a, rp, tk, n)
  /\ UNCHANGED <<now, setup, price>>

-----------------------------------------------------------------------------
(* transfers of aTokens and vTokens *)

\* ReserveAction::DepositTransfer: the sender's context once n is out, and the
\* recipient's, on the same reserve, once it is in.
DepositOut(f, i, n) ==
  AccountForWithdraw(Open(reserve[i], data[f][i], config[f]), i, n, FALSE, FeeReduction[f], limits[i])

DepositIn(out, t, i, n) ==
  Close(AccountForDeposit([out EXCEPT !.d = data[t][i], !.c = config[t]],
                          i, n, FeeReduction[t], limits[i]), i)

\* What is checked and written then.  The recipient's vector is written with
\* Vec::insert, then the sender's.
PassDeposit(f, t, i, out, in) ==
  LET rs == [reserve EXCEPT ![i] = in.r]
      ds == [data[f] EXCEPT ![i] = out.d]
  IN  /\ in.ok
      /\ i = 0 /\ i \in out.c.collaterals => Backed(f, rs, ds, out.c)
      /\ reserve' = rs
      /\ data' = [data EXCEPT ![t] = Inserted(data[t], i, in.d), ![f] = ds]
      /\ config' = [config EXCEPT ![f] = out.c, ![t] = in.c]

TransferDeposit(f, t, i, n) ==
  LET out == DepositOut(f, i, n)
  IN  /\ n # 0
      /\ PassDeposit(f, t, i, out, DepositIn(out, t, i, n))
      /\ Backed(f, reserve', data'[f], config'[f])
      /\ UNCHANGED <<now, setup, price, vault>>

\* ReserveAction::DebtTransfer, in the same way.
DebtOut(f, i, n) ==
  AccountForRepay(Open(reserve[i], data[f][i], config[f]), i, n, FALSE, FeeReduction[f], limits[i])

DebtIn(out, t, i, n) ==
  Close(AccountForBorrow([out EXCEPT !.d = data[t][i], !.c = config[t]],
                         i, n, FeeReduction[t], limits[i]), i)

\* Here the sender's vector is written with Vec::insert, then the
\* recipient's, who must already have a vector.
PassDebt(f, t, i, out, in) ==
  LET rs == [reserve EXCEPT ![i] = in.r]
      ds == [data[t] EXCEPT ![i] = in.d]
  IN  /\ \E j \in Assets : data[t][j] # NoPosition
      /\ in.ok
      /\ Backed(t, rs, ds, in.c)
      /\ reserve' = rs
      /\ data' = [data EXCEPT ![f] = Inserted(data[f], i, out.d), ![t] = ds]
      /\ config' = [config EXCEPT ![t] = in.c, ![f] = out.c]

TransferDebt(f, t, i, n) ==
  LET out == DebtOut(f, i, n)
  IN  /\ n # 0
      /\ PassDebt(f, t, i, out, DebtIn(out, t, i, n))
      /\ Backed(t, reserve', data'[t], config'[t])
      /\ UNCHANGED <<now, setup, price, vault>>

-----------------------------------------------------------------------------
(* the account's own settings *)

\* Mutant: no check when a collateral is switched off.
SetAsCollateralUnchecked(a, i, on) ==
  LET rule == RuleOf(config[a])[i] IN
  /\ rule # None
  /\ on => rule.collateral \notin {None, 0} /\ DepositCanBack(data[a][i], limits[i])
  /\ config' = [config EXCEPT ![a].collaterals = IF on THEN @ \cup {i} ELSE @ \ {i}]
  /\ UNCHANGED <<now, reserve, data, vault, setup, price>>

SetAsCollateral(a, i, on) ==
  LET rule == RuleOf(config[a])[i] IN
  /\ rule # None
  /\ on => rule.collateral \notin {None, 0} /\ DepositCanBack(data[a][i], limits[i])
  /\ config' = [config EXCEPT ![a].collaterals = IF on THEN @ \cup {i} ELSE @ \ {i}]
  /\ ~on => Backed(a, reserve, data[a], config'[a])
  /\ UNCHANGED <<now, reserve, data, vault, setup, price>>

\* Mutant: no check under the new rule.
ChooseMarketRuleUnchecked(a, k) ==
  /\ k < Len(rules)
  /\ config' = [config EXCEPT ![a].rule = k]
  /\ UNCHANGED <<now, reserve, data, vault, setup, price>>

ChooseMarketRule(a, k) ==
  /\ k < Len(rules)
  /\ config' = [config EXCEPT ![a].rule = k]
  /\ Backed(a, reserve, data[a], config'[a])
  /\ UNCHANGED <<now, reserve, data, vault, setup, price>>

-----------------------------------------------------------------------------
(* maintenance and administration of a reserve *)

AccumulateInterest(i) ==
  /\ CanUpdate(reserve[i], now)
  /\ CanRerate(Updated(reserve[i], now), model[i])
  /\ reserve' = [reserve EXCEPT ![i] = Rerated(Updated(reserve[i], now), model[i])]
  /\ UNCHANGED <<now, data, config, vault, setup, price>>

\* adjust_rate_at_target; which rate and when is the business of TwUtilization.
\* The reserve's rates stay until the next message that works on it.
AdjustRateAtTarget(i, rate) ==
  /\ model[i] # None
  /\ model' = [model EXCEPT ![i].rateAtTarget = rate]
  /\ UNCHANGED <<now, book, limits, rules, price>>

SetReserveIsActive(i, active) ==
  /\ reserve[i].active # active
  /\ reserve' = [reserve EXCEPT ![i].active = active]
  /\ UNCHANGED <<now, data, config, vault, setup, price>>

\* ReserveData::set_is_frozen compares `frozen' and assigns `activated'.
SetReserveIsFrozen(i, freeze) ==
  /\ reserve[i].frozen # freeze
  /\ reserve' = [reserve EXCEPT ![i].active = freeze]
  /\ UNCHANGED <<now, data, config, vault, setup, price>>

SetReserveRestrictions(i, lim) ==
  /\ limits' = [limits EXCEPT ![i] = lim]
  /\ UNCHANGED <<now, book, model, rules, price>>

SetInterestRateModel(i, m) ==
  /\ model[i] # None
  /\ CanUpdate(reserve[i], now)
  /\ CanRerate(Updated(reserve[i], now), m)
  /\ reserve' = [reserve EXCEPT ![i] = Rerated(Updated(reserve[i], now), m)]
  /\ model' = [model EXCEPT ![i] = m]
  /\ UNCHANGED <<now, data, config, vault, limits, rules, price>>

\* ReserveFees::new starts with no fee earned; the indexes are not updated.
SetReserveFees(i, fees) ==
  /\ model[i] # None
  /\ fees.deposit <= E6
  /\ reserve' = [reserve EXCEPT ![i].depositFee = fees.deposit,
                                 ![i].debtFee = fees.debt,
                                 ![i].earnedFee = 0]
  /\ UNCHANGED <<now, data, config, vault, setup, price>>

\* The indexes are not updated here either.
SetStablecoinDebtRate(i, rate) ==
  /\ model[i] = None
  /\ reserve' = [reserve EXCEPT ![i].debtRate = rate]
  /\ UNCHANGED <<now, data, config, vault, setup, price>>

AddMarketRule(rule) ==
  /\ Len(rules) < MaxRules
  /\ \A i \in Assets : rule[i] # None => ValidNewRule(rule[i], None)
  /\ rules' = Append(rules, rule)
  /\ UNCHANGED <<now, book, limits, model, price>>

\* account_for_asset_rule_change reads the old rule after overwriting it.
ModifyAssetRule(k, i, rule) ==
  /\ k < Len(rules)
  /\ rules' = [rules EXCEPT ![k + 1][i] = rule]
  /\ ValidNewRule(rule, rules'[k + 1][i])
  /\ UNCHANGED <<now, book, limits, model, price>>

\* The income of the k-th asset asked for; asked for twice, it is gone.
Income(assets, k) ==
  IF \E j \in 1 .. k - 1 : assets[j] = assets[k] THEN 0
  ELSE reserve[assets[k]].earnedFee

\* take_while stops at the first asset without income.
PaidIncome(assets) ==
  {assets[k] : k \in {n \in DOMAIN assets : \A j \in 1 .. n : Income(assets, j) > 0}}

\* Mutant: the fee stays booked.
EarnedFeeKept(r) == r

\* ReserveFees::take_earned_fee
EarnedFeeTaken(r) == [r EXCEPT !.earnedFee = 0]

TakeProtocolIncome(assets) ==
  LET paid == PaidIncome(assets)
  IN  /\ \A i \in paid : Possible(i, Sent(i, vault[i], reserve[i].earnedFee))
      /\ reserve' = [i \in Assets |-> IF \E k \in DOMAIN assets : assets[k] = i
                                      THEN EarnedFeeTaken(reserve[i])
                                      ELSE reserve[i]]
      /\ vault' = [i \in Assets |-> IF i \in paid
                                    THEN Sent(i, vault[i], reserve[i].earnedFee)
                                    ELSE vault[i]]
      /\ UNCHANGED <<now, data, config, setup, price>>

-----------------------------------------------------------------------------
(* the environment *)

Tick ==
  /\ now < MaxTime
  /\ now' = now + 1
  /\ UNCHANGED <<book, setup, price>>

ChangePrice(i, p) ==
  /\ price' = [price EXCEPT ![i] = p]
  /\ UNCHANGED <<now, book, setup>>

-----------------------------------------------------------------------------
ClientNext ==
  \/ \E q \in Requests : Operate(q[1], q[2])
  \/ \E q \in MultiRequests : MultiOp(q[1], q[2])
  \/ \E q \in DepositTransfers : TransferDeposit(q[1], q[2], q[3], q[4])
  \/ \E q \in DebtTransfers : TransferDebt(q[1], q[2], q[3], q[4])
  \/ \E q \in Liquidations : Liquidate(q[1], q[2], q[3], q[4], q[5])
  \/ \E q \in CollateralSwitches : SetAsCollateral(q[1], q[2], q[3])
  \/ \E q \in RuleChoices : ChooseMarketRule(q[1], q[2])
  \/ \E i \in Assets : AccumulateInterest(i)
  \/ \E q \in Adjustments : AdjustRateAtTarget(q[1], q[2])

AdminNext ==
  \/ \E q \in Admin.active : SetReserveIsActive(q[1], q[2])
  \/ \E q \in Admin.frozen : SetReserveIsFrozen(q[1], q[2])
  \/ \E q \in Admin.limits : SetReserveRestrictions(q[1], q[2])
  \/ \E q \in Admin.model : SetInterestRateModel(q[1], q[2])
  \/ \E q \in Admin.fees : SetReserveFees(q[1], q[2])
  \/ \E q \in Admin.stableRate : SetStablecoinDebtRate(q[1], q[2])
  \/ \E rule \in Admin.newRule : AddMarketRule(rule)
  \/ \E q \in Admin.assetRule : ModifyAssetRule(q[1], q[2], q[3])
  \/ \E assets \in Admin.income : TakeProtocolIncome(assets)

WorldNext ==
  \/ Tick
  \/ \E i \in Assets : \E p \in Prices[i] : ChangePrice(i, p)

Next == ClientNext \/ AdminNext \/ WorldNext

Spec == Init /\ [][Next]_vars

-----------------------------------------------------------------------------
(* Properties *)

\* Types.  The indexes of the chosen market rules point at rules that exist
\* ("account used market rule => market rule exists", storage/mod.rs:1568).
TypeOK ==
  /\ now \in Nat
  /\ reserve \in [Assets -> ReserveState]
  /\ data \in [Accounts -> [Assets -> PositionState]]
  /\ config \in [Accounts -> ConfigState(Assets, Nat)]
  /\ limits \in [Assets -> LimitState]
  /\ model \in [Assets -> ModelState \cup {None}]
  /\ rules \in Seq(MarketRule)
  /\ \A a \in Accounts : config[a].rule < Len(rules)
  /\ price \in [Assets -> Nat]
  /\ vault \in [Assets -> Int]
  /\ \A i \in Assets : vault[i] \in 0 .. Supply[i]

\* reserve_data.rs:109 and 132 rely on it: the total deposit is the sum of
\* the account deposits, the total debt the sum of the account debts.
DepositsOf(i) == [a \in Accounts |-> data[a][i].deposit]
DebtsOf(i)    == [a \in Accounts |-> data[a][i].debt]

LedgerBalanced ==
  \A i \in Assets :
    /\ Total(DepositsOf(i)) = reserve[i].totalDeposit
    /\ Total(DebtsOf(i)) = reserve[i].totalDebt

\* The bitmaps the collateralization check reads instead of the balances
\* miss no debt and no deposit.
BitmapsCover ==
  \A a \in Accounts : \A i \in Assets :
    /\ data[a][i].deposit # 0 => i \in config[a].deposits
    /\ data[a][i].debt # 0 => i \in config[a].borrows

\* reserve_restrictions.rs:17 and 21: a collateral is never below the minimal
\* collateral, a debt never below the minimal debt, as long as the
\* restrictions stay the same.
MinimumsKept ==
  \A a \in Accounts : \A i \in Assets :
    /\ i \in config[a].collaterals => DepositCanBack(data[a][i], limits[i])
    /\ DebtLargeEnough(data[a][i], limits[i])

\* Every unit of a stablecoin that is in circulation, deposited or earned by
\* the protocol is owed to the pool by a borrower: the pool mints nothing
\* without a debt behind it.
StablecoinBacked ==
  \A i \in Assets : model[i] = None =>
    vault[i] + reserve[i].totalDeposit + reserve[i].earnedFee <= reserve[i].totalDebt

\* The numbers that repaying all of a's debt computes fit: the indexes, the
\* interest due to a, and the rates once its debt is gone.  They do not always:
\* an adjustment stores a rate without trying it, and interest_rate_math.rs:22
\* then fails on it at the utilization that the other debts leave.
RepaymentFits(a, i) ==
  LET x == Open(reserve[i], data[a][i], config[a])
      y == Accumulate(x, FeeReduction[a])
  IN  x.ok /\ y.ok /\ CanRerate([y.r EXCEPT !.totalDebt = @ - y.d.debt], model[i])

\* Nothing else stands in the way of a debtor who repays everything into an
\* active reserve: not a minimal debt set since (reserve_restrictions.rs:84), not
\* a limit the reserve exceeds by now, not a freeze, not the subtraction from the
\* total debt (reserve_data.rs:132), whatever interest has come on top.
Repayable ==
  \A a \in Accounts : \A i \in Assets :
    reserve[i].active /\ data[a][i].debt # 0 /\ RepaymentFits(a, i) =>
      Close(AccountForRepay(Open(reserve[i], data[a][i], config[a]),
                            i, U128Max, TRUE, FeeReduction[a], limits[i]), i).ok

\* Interest promised to depositors never exceeds what borrowers are charged,
\* per unit of time, on the recorded totals: no message changes the totals
\* and leaves the old rates.
InterestFunded ==
  \A i \in Assets :
    reserve[i].depositRate * reserve[i].totalDeposit
      <= reserve[i].debtRate * reserve[i].totalDebt

\* The collateralization of account a with every index brought up to now.
FreshlyBacked(a, rs, ds, c) ==
  Backed(a, [i \in Assets |-> Updated(rs[i], now)], ds, c)

\* The numbers of the check fit, with the interest due on what counts for account
\* a; where they do not, the check returns an error or panics.
CheckFits(a, rs, ds, c) ==
  RuleCovers(ds, c, RuleOf(c)) =>
    NumbersFit([i \in Assets |-> Updated(rs[i], now)], ds, c, price, RuleOf(c), FeeReduction[a])

Liquidated(a) ==
  \E q \in Liquidations : q[2] = a /\ Liquidate(q[1], q[2], q[3], q[4], q[5])

\* No client message takes the backing away from an account, neither the one
\* it is made for nor a bystander: an account that was collateralized stays
\* so, by the updated indexes or, for the account that was checked, by the
\* stored ones that the check reads.  (Clients change no time, price or rule.)
\* Two things can: a liquidation, which is decided by the stored indexes, and
\* amounts so large that the check's numbers no longer fit.
BackingPreserved ==
  [][\A a \in Accounts :
       /\ FreshlyBacked(a, reserve, data[a], config[a])
       /\ ~FreshlyBacked(a, reserve', data'[a], config'[a])
       /\ ~Backed(a, reserve', data'[a], config'[a])
       => \/ Liquidated(a)
          \/ ~CheckFits(a, reserve', data'[a], config'[a])
          \/ ~ClientNext]_vars

\* What the pool holds or is owed of asset i, less what it owes and has earned.
Net(i) ==
  reserve[i].totalDebt - reserve[i].totalDeposit - reserve[i].earnedFee
    + (IF model[i] = None THEN -vault[i] ELSE vault[i])

\* The accounts whose interest on asset i a step accumulates.
Accruing(i) == {a \in Accounts : \/ data'[a][i].depositIndex # data[a][i].depositIndex
                                 \/ data'[a][i].debtIndex # data[a][i].debtIndex}

\* The sum of the accounts' interest on asset i, before any fee, that the
\* reserve r has not added to their positions yet.
DebtsGrow(i, r, ds, accounts)    == Total([a \in accounts |-> DebtGrowth(r, ds[a][i])])
DepositsGrow(i, r, ds, accounts) == Total([a \in accounts |-> DepositGrowth(r, ds[a][i])])

\* An admin's call that empties the fee book and pays nothing: SetReserveFees,
\* and TakeProtocolIncome of an asset named behind one without income.
IncomeDropped(i) == reserve'[i].earnedFee = 0 /\ vault'[i] = vault[i]

\* Every message keeps double entry books: what is transferred, deposited,
\* owed and booked as a fee cancels out, so that the pool's net position moves
\* by the interest charged to the accounts that accumulate it, less the
\* interest paid to them, whatever the fees and the fee reductions are.  Only
\* an admin can drop income from the books.
BooksBalance ==
  [][\A i \in Assets :
       LET grown == Updated(reserve[i], now)
       IN  \/ Net(i)' - Net(i) = DebtsGrow(i, grown, data, Accruing(i))
                                  - DepositsGrow(i, grown, data, Accruing(i))
           \/ AdminNext /\ IncomeDropped(i)]_vars

\* Nobody's position in a reserve changes while the reserve is inactive
\* (reserve_data.rs:21, "are any actions allowed?"): a message that works on two
\* reserves, a pair of operations or a liquidation, finds each of them active or
\* does nothing, and one on another reserve does not touch this one.  (The
\* Vec::insert of a transfer does, when entries are behind the one it inserts;
\* the transfers here are of the last asset.)
InactiveIsClosed ==
  [][\A i \in Assets : ~reserve[i].active =>
       \A a \in Accounts : data'[a][i] = data[a][i]]_vars

\* A position's indexes never run ahead of its reserve's, so that no interest
\* is skipped when it accumulates the next time.
PositionsFollowIndexes ==
  \A a \in Accounts : \A i \in Assets :
    /\ data[a][i].depositIndex <= reserve[i].depositIndex
    /\ data[a][i].debtIndex <= reserve[i].debtIndex

-----------------------------------------------------------------------------
(* What docs and comments say and the code does not do *)

\* lending_pool_manage.rs:118, "true if reserve should be frozen": freezing a
\* reserve freezes it.
FreezeTakesEffect ==
  [][\A i \in Assets : SetReserveIsFrozen(i, TRUE) => reserve'[i].frozen]_vars

\* asset_rules.rs:27, "that Some is not overriten by None": a coefficient that
\* accounts may depend on is not taken out of a rule.
CoefficientsStay ==
  [][\A k \in DOMAIN rules : \A i \in Assets :
       rules[k][i] # None =>
         /\ rules[k][i].collateral # None => rules'[k][i].collateral # None
         /\ rules[k][i].borrow # None => rules'[k][i].borrow # None]_vars

\* lending_pool_manage.rs:215, "takes income from all registered assets": the
\* income that leaves the books of an asset is paid out.  (SetReserveFees lets
\* it disappear as well.)
IncomeIsPaid ==
  [][\A i \in Assets : reserve'[i].earnedFee < reserve[i].earnedFee =>
       vault'[i] = Sent(i, vault[i], reserve[i].earnedFee - reserve'[i].earnedFee)]_vars
=============================================================================
