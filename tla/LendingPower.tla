---------------------------- MODULE LendingPower ----------------------------
(***************************************************************************)
(* The collateralization check: what an account's collaterals let it owe,  *)
(* under the market rule it has chosen, the prices of the price feed and   *)
(* the indexes as they are STORED, which may lag behind the block's time.  *)
(***************************************************************************)
EXTENDS Reserve, Tally

CONSTANTS
  DecimalMultiplier,   \* per asset: ten to the power of its decimals
  E10                  \* from the scale of prices to that of values  (10^10)

\* A coefficient is a number or None.
Coefficient == Nat \cup {None}

\* AssetRules of one asset in a market rule.
AssetRules == [collateral : Coefficient, borrow : Coefficient, penalty : Coefficient]

\* AssetRules::validate_new_rule; an absent old rule is None.
ValidNewRule(new, old) ==
  /\ old # None =>
       /\ old.collateral # None => new.collateral # None
       /\ old.borrow # None => new.borrow # None
  /\ new.penalty # None

Value(i, amount, price) == MulDivDown(amount, price[i], DecimalMultiplier[i] * E10)

CollateralPower(i, d, price, rule) ==
  MulDivDown(Value(i, d.deposit, price), rule[i].collateral, E8)

DebtPower(i, d, price, rule) ==
  MulDivDown(Value(i, d.debt, price), rule[i].borrow, E8)

\* The assets that count for an account with config c and entries ds.
Collaterals(ds, c) == {i \in c.deposits \cap c.collaterals : ds[i] # NoPosition}
Debts(ds, c)       == {i \in c.borrows : ds[i] # NoPosition}

\* The entry with the interest of the stored indexes; the reserve's totals stay.
Accrued(i, rs, ds, cut) == Accrue(rs[i], ds[i], cut)

TotalCollateralPower(rs, ds, c, price, rule, cut) ==
  Total([i \in Collaterals(ds, c) |-> CollateralPower(i, Accrued(i, rs, ds, cut), price, rule)])

TotalDebtPower(rs, ds, c, price, rule, cut) ==
  Total([i \in Debts(ds, c) |-> DebtPower(i, Accrued(i, rs, ds, cut), price, rule)])

\* The rule has a coefficient for all that counts.
RuleCovers(ds, c, rule) ==
  /\ \A i \in Collaterals(ds, c) : rule[i] # None /\ rule[i].collateral # None
  /\ \A i \in Debts(ds, c) : rule[i] # None /\ rule[i].borrow # None

\* Every number calculate_lending_power_e6 computes is within its width.
NumbersFit(rs, ds, c, price, rule, cut) ==
  /\ \A i \in Collaterals(ds, c) \cup Debts(ds, c) : CanAccrue(rs[i], ds[i], cut)
  /\ \A i \in Collaterals(ds, c) :
       /\ Value(i, Accrued(i, rs, ds, cut).deposit, price) \in U128
       /\ CollateralPower(i, Accrued(i, rs, ds, cut), price, rule) \in U128
  /\ \A i \in Debts(ds, c) :
       /\ Value(i, Accrued(i, rs, ds, cut).debt, price) \in U128
       /\ DebtPower(i, Accrued(i, rs, ds, cut), price, rule) \in U128
  /\ TotalCollateralPower(rs, ds, c, price, rule, cut) \in U128
  /\ TotalDebtPower(rs, ds, c, price, rule, cut) \in U128

\* calculate_lending_power_e6 neither returns an error nor panics.
Assessable(rs, ds, c, price, rule, cut) ==
  RuleCovers(ds, c, rule) /\ NumbersFit(rs, ds, c, price, rule, cut)

\* ensure_collateralized returns Ok.
Collateralized(rs, ds, c, price, rule, cut) ==
  /\ Assessable(rs, ds, c, price, rule, cut)
  /\ TotalCollateralPower(rs, ds, c, price, rule, cut)
       >= TotalDebtPower(rs, ds, c, price, rule, cut)

\* The config with the deposits below m and the debts below n only.
Before(c, m, n) ==
  [c EXCEPT !.deposits = {i \in @ : i < m}, !.borrows = {i \in @ : i < n}]

\* calculate_asset_amount_value_e8 panics on a value that does not fit, unless
\* the loop over the assets has returned an error before it comes to that.
Panics(rs, ds, c, price, rule, cut) ==
  \/ \E i \in Collaterals(ds, c) :
       /\ Assessable(rs, ds, Before(c, i, i), price, rule, cut)
       /\ CanAccrue(rs[i], ds[i], cut)
       /\ Value(i, Accrued(i, rs, ds, cut).deposit, price) \notin U128
  \/ \E i \in Debts(ds, c) :
       /\ Assessable(rs, ds, Before(c, i + 1, i), price, rule, cut)
       /\ CanAccrue(rs[i], ds[i], cut)
       /\ Value(i, Accrued(i, rs, ds, cut).debt, price) \notin U128

-----------------------------------------------------------------------------
(* Liquidation *)

\* get_penalty panics without a rule or a penalty; a zero price divides by
\* zero.  Either rolls the liquidation back.
CanPriceTake(repay, take, price, rule) ==
  /\ rule[repay] # None /\ rule[repay].penalty # None
  /\ rule[take] # None /\ rule[take].penalty # None
  /\ price[take] # 0

\* calculate_amount_to_take: the value repaid, plus both penalties, in units
\* of the asset taken.
AmountToTake(n, repay, take, price, rule) ==
  MulDivDown(n * price[repay] * DecimalMultiplier[take],
             rule[repay].penalty + rule[take].penalty + E6,
             price[take] * DecimalMultiplier[repay] * E6)

\* It panics when a product leaves 256 bits, and returns an error when the
\* amount leaves its width.
TakeFits(n, repay, take, price, rule) ==
  /\ n * price[repay] * DecimalMultiplier[take]
       * (rule[repay].penalty + rule[take].penalty + E6) \in U256
  /\ price[take] * DecimalMultiplier[repay] * E6 \in U256
  /\ AmountToTake(n, repay, take, price, rule) \in U128

\* liquidate computes what is received for one unit repaid, to compare it with
\* the least that the liquidator asks for; an overflow is an error.
ReceivedFits(taken, paid) == MulDivDown(taken, E18, paid) \in U128
=============================================================================
