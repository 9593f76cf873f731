------------------------------- MODULE Reserve -------------------------------
(***************************************************************************)
(* One reserve of the lending pool and one account's position in it.       *)
(*                                                                         *)
(* The operators are the methods of ReserveData, ReserveIndexes,           *)
(* ReserveFees, ReserveRestrictions and AccountReserveData, and the        *)
(* account_for_* helpers of LendingPoolStorage that string them together.  *)
(* A helper that works on the reserve, the account's data and the          *)
(* account's config takes and returns a context                            *)
(*                                                                         *)
(*     x = [ok, r, d, c]                                                   *)
(*                                                                         *)
(* of the reserve r, the data d and the config c.  x.ok is FALSE once a    *)
(* step has returned an error: the message then rolls back, so nothing     *)
(* after that matters.                                                     *)
(***************************************************************************)
EXTENDS FixedPoint

CONSTANT None   \* Option::None

ASSUME NoneAssumption == None \notin Int

\* ReserveData and ReserveIndexesAndFees of one asset.
ReserveState ==
  [active : BOOLEAN, frozen : BOOLEAN,
   totalDeposit : U128, depositRate : Nat,
   totalDebt : U128, debtRate : Nat,
   depositIndex : U128, debtIndex : U128, updated : Nat,
   depositFee : Nat, debtFee : Nat, earnedFee : U128]

\* AccountReserveData of one account and one asset.
PositionState ==
  [deposit : U128, debt : U128, depositIndex : U128, debtIndex : U128]

\* AccountReserveData::default().  A missing entry of the account's vector
\* reads the same: an entry is only ever stored after interest has been
\* accumulated on it, which sets both of its indexes to at least E18.
NoPosition == [deposit |-> 0, debt |-> 0, depositIndex |-> 0, debtIndex |-> 0]

\* AccountConfig; each bitmap is the set of its asset ids.
ConfigState(assets, rules) ==
  [deposits : SUBSET assets, collaterals : SUBSET assets,
   borrows : SUBSET assets, rule : rules]

\* ReserveData::default() with ReserveIndexesAndFees::new(now, fees).
NewReserve(now, depositFee, debtFee) ==
  [active |-> TRUE, frozen |-> FALSE,
   totalDeposit |-> 0, depositRate |-> 0, totalDebt |-> 0, debtRate |-> 0,
   depositIndex |-> E18, debtIndex |-> E18, updated |-> now,
   depositFee |-> depositFee, debtFee |-> debtFee, earnedFee |-> 0]

-----------------------------------------------------------------------------
(* Indexes and interest rates *)

DepositMultiplier(r, now) ==
  IF r.depositRate # 0 /\ r.totalDeposit # 0
  THEN E18 + r.depositRate * (now - r.updated) ELSE E18

DebtMultiplier(r, now) ==
  IF r.debtRate # 0 /\ r.totalDebt # 0
  THEN E18 + r.debtRate * (now - r.updated) ELSE E18

\* ReserveIndexes::update: what depositors earn is rounded down, what
\* borrowers owe is rounded up.
Updated(r, now) ==
  IF now = r.updated THEN r
  ELSE [r EXCEPT !.depositIndex = MulDivDown(@, DepositMultiplier(r, now), E18),
                 !.debtIndex = MulDivUp(@, DebtMultiplier(r, now), E18),
                 !.updated = now]

\* The update returns an error when an index leaves its width.
CanUpdate(r, now) ==
  /\ now >= r.updated
  /\ Updated(r, now).depositIndex \in U128
  /\ Updated(r, now).debtIndex \in U128

Utilization(r) ==
  IF r.totalDeposit = 0 THEN E6 ELSE MulDivDown(r.totalDebt, E6, r.totalDeposit)

\* The step of the debt rate above the target utilization.
StepAboveTarget(u, m) ==
  MulDivUp(u - m.target, Monus(m.rateAtMax, m.rateAtTarget), Monus(E6, m.target))

DebtRateAt(u, m) ==
  IF u = 0 THEN 0
  ELSE IF u <= m.target THEN MulDivUp(u, m.rateAtTarget, m.target)
  ELSE m.rateAtTarget + StepAboveTarget(u, m)

\* The rates that do not fit return an error, as does a target of 100% once
\* the utilization is above it (a division by zero).
CanRate(u, m) ==
  /\ u \in U32
  /\ IF u <= m.target THEN DebtRateAt(u, m) \in U32
     ELSE m.target < E6 /\ StepAboveTarget(u, m) \in U32 /\ DebtRateAt(u, m) \in U64

\* Mutant: the rate of the depositors is rounded up.
GenerouslyRerated(r, m) ==
  IF m = None THEN r
  ELSE IF r.totalDebt = 0 THEN [r EXCEPT !.debtRate = 0, !.depositRate = 0]
  ELSE LET rate == DebtRateAt(Utilization(r), m)
       IN  [r EXCEPT !.debtRate = rate,
                     !.depositRate = MulDivUp(r.totalDebt, rate, r.totalDeposit)]

\* ReserveData::recalculate_current_rates; a reserve without a model (a
\* stablecoin) keeps its rates.
Rerated(r, m) ==
  IF m = None THEN r
  ELSE IF r.totalDebt = 0 THEN [r EXCEPT !.debtRate = 0, !.depositRate = 0]
  ELSE LET rate == DebtRateAt(Utilization(r), m)
       IN  [r EXCEPT !.debtRate = rate,
                     !.depositRate = MulDivDown(r.totalDebt, rate, r.totalDeposit)]

CanRerate(r, m) ==
  m # None /\ r.totalDebt # 0 =>
    CanRate(Utilization(r), m) /\ Rerated(r, m).depositRate \in U64

-----------------------------------------------------------------------------
(* Contexts *)

Context(r, d, c) == [ok |-> TRUE, r |-> r, d |-> d, c |-> c]

Fail(x) == [x EXCEPT !.ok = FALSE]

\* An error stops the sequence of steps: the next one is not evaluated.
Try(x, guard, y) == IF x.ok /\ guard THEN y ELSE Fail(x)

-----------------------------------------------------------------------------
(* Interest of one position *)

DepositGrowth(r, d) ==
  IF d.deposit # 0 /\ d.depositIndex # 0 /\ d.depositIndex < r.depositIndex
  THEN MulDivDown(d.deposit, r.depositIndex, d.depositIndex) - d.deposit ELSE 0

DebtGrowth(r, d) ==
  IF d.debt # 0 /\ d.debtIndex # 0 /\ d.debtIndex < r.debtIndex
  THEN MulDivUp(d.debt, r.debtIndex, d.debtIndex) - d.debt ELSE 0

\* The protocol's fee on an interest, after the account's fee reduction.
FeeOn(interest, fee, reduction) ==
  MulDivUp(MulDivUp(interest, fee, E6), E6 - reduction, E6)

DepositFeeOf(r, d, cut) == FeeOn(DepositGrowth(r, d), r.depositFee, cut.deposit)
DebtFeeOf(r, d, cut)    == FeeOn(DebtGrowth(r, d), r.debtFee, cut.debt)

\* Mutant: the depositor does not pay the fee the protocol books.
FeelessDepositInterest(r, d, cut) == DepositGrowth(r, d)

\* What accumulate_account_interest adds to the deposit and to the debt.
DepositInterest(r, d, cut) == DepositGrowth(r, d) - DepositFeeOf(r, d, cut)
DebtInterest(r, d, cut)    == DebtGrowth(r, d) + DebtFeeOf(r, d, cut)

UpToDate(r, d) == d.depositIndex >= r.depositIndex /\ d.debtIndex >= r.debtIndex

\* accumulate_account_interest: the position with its interest, and when it
\* returns no error.
Accrue(r, d, cut) ==
  IF UpToDate(r, d) THEN d
  ELSE [deposit |-> d.deposit + DepositInterest(r, d, cut),
        debt |-> d.debt + DebtInterest(r, d, cut),
        depositIndex |-> r.depositIndex, debtIndex |-> r.debtIndex]

CanAccrue(r, d, cut) ==
  UpToDate(r, d) \/
    /\ d.deposit + DepositGrowth(r, d) \in U128 /\ d.debt + DebtGrowth(r, d) \in U128
    /\ MulDivUp(DepositGrowth(r, d), r.depositFee, E6) \in U128
    /\ MulDivUp(DebtGrowth(r, d), r.debtFee, E6) \in U128
    /\ DepositInterest(r, d, cut) \in U128 /\ DebtInterest(r, d, cut) \in U128
    /\ Accrue(r, d, cut).deposit \in U128 /\ Accrue(r, d, cut).debt \in U128
    /\ r.earnedFee + DepositFeeOf(r, d, cut) + DebtFeeOf(r, d, cut) \in U128

\* Mutant: the interest reaches the account and not the totals.
AccumulateOnAccountOnly(x, cut) == [x EXCEPT !.d = Accrue(x.r, x.d, cut)]

\* Mutant: the position gets the two indexes swapped.
AccumulateSwapped(x, cut) ==
  IF UpToDate(x.r, x.d) THEN x
  ELSE [x EXCEPT !.d.depositIndex = x.r.debtIndex,
                 !.d.debtIndex = x.r.depositIndex]

\* accumulate_account_interest, then ReserveData::add_interests.
Accumulate(x, cut) ==
  LET y == [x EXCEPT
              !.d = Accrue(x.r, x.d, cut),
              !.r.totalDeposit = @ + DepositInterest(x.r, x.d, cut),
              !.r.totalDebt = @ + DebtInterest(x.r, x.d, cut),
              !.r.earnedFee = @ + DepositFeeOf(x.r, x.d, cut) + DebtFeeOf(x.r, x.d, cut)]
  IN  IF UpToDate(x.r, x.d) THEN x
      ELSE Try(x, /\ CanAccrue(x.r, x.d, cut)
                  /\ y.r.totalDeposit \in U128 /\ y.r.totalDebt \in U128, y)

-----------------------------------------------------------------------------
(* Balances and bitmaps *)

\* increase_account_deposit
IncreaseDeposit(x, i, n) ==
  Try(x, x.d.deposit + n \in U128 /\ x.r.totalDeposit + n \in U128,
      [x EXCEPT !.c.deposits = @ \cup {i}, !.d.deposit = @ + n, !.r.totalDeposit = @ + n])

\* Mutant: the subtractions are not checked.
DecreaseDepositUnchecked(x, i, n, lim) ==
  [x EXCEPT !.d.deposit = @ - n, !.r.totalDeposit = @ - n]

\* decrease_account_deposit: an emptied deposit leaves the deposits, and one
\* below the minimal collateral stops being a collateral.
DecreaseDeposit(x, i, n, lim) ==
  Try(x, x.d.deposit - n \in U128 /\ x.r.totalDeposit - n \in U128,
      [x EXCEPT !.c.deposits = IF n = x.d.deposit THEN @ \ {i} ELSE @,
                !.c.collaterals = IF x.d.deposit - n < lim.minCollateral
                                  THEN @ \ {i} ELSE @,
                !.d.deposit = @ - n, !.r.totalDeposit = @ - n])

\* increase_account_debt
IncreaseDebt(x, i, n) ==
  Try(x, x.d.debt + n \in U128 /\ x.r.totalDebt + n \in U128,
      [x EXCEPT !.c.borrows = @ \cup {i}, !.d.debt = @ + n, !.r.totalDebt = @ + n])

\* Mutant: the total debt is not lowered.
DecreaseDebtOfAccountOnly(x, i, n) ==
  Try(x, x.d.debt - n \in U128,
      [x EXCEPT !.c.borrows = IF n = x.d.debt THEN @ \ {i} ELSE @, !.d.debt = @ - n])

\* Mutant: any repayment clears the bit.
DecreaseDebtAndBit(x, i, n) ==
  Try(x, x.d.debt - n \in U128 /\ x.r.totalDebt - n \in U128,
      [x EXCEPT !.c.borrows = @ \ {i}, !.d.debt = @ - n, !.r.totalDebt = @ - n])

\* decrease_account_debt
DecreaseDebt(x, i, n) ==
  Try(x, x.d.debt - n \in U128 /\ x.r.totalDebt - n \in U128,
      [x EXCEPT !.c.borrows = IF n = x.d.debt THEN @ \ {i} ELSE @,
                !.d.debt = @ - n, !.r.totalDebt = @ - n])

\* ReserveRestrictions; a limit of None is U128Max, which no total exceeds.
DepositLimitKept(x, lim) == x.r.totalDeposit <= lim.maxDeposit
DebtLimitKept(x, lim)    == x.r.totalDebt <= lim.maxDebt
DebtLargeEnough(d, lim)  == d.debt = 0 \/ d.debt >= lim.minDebt
DepositCanBack(d, lim)   == d.deposit >= lim.minCollateral

-----------------------------------------------------------------------------
(* account_for_deposit, _withdraw, _borrow, _repay on asset i.  cut is the  *)
(* account's fee reduction, lim the reserve's restrictions.                 *)

AccountForDeposit(x, i, n, cut, lim) ==
  LET y == IncreaseDeposit(Accumulate(x, cut), i, n)
  IN  Try(y, x.r.active /\ ~x.r.frozen /\ DepositLimitKept(y, lim), y)

\* With `clamp' (can_mutate_amount) a larger amount means "all of it".
WithdrawnAmount(x, n, clamp, cut) ==
  IF clamp THEN Least(n, Accumulate(x, cut).d.deposit) ELSE n

AccountForWithdraw(x, i, n, clamp, cut, lim) ==
  LET y == DecreaseDeposit(Accumulate(x, cut), i,
                           WithdrawnAmount(x, n, clamp, cut), lim)
  IN  Try(y, x.r.active /\ x.d.deposit # 0, y)

AccountForBorrow(x, i, n, cut, lim) ==
  LET y == IncreaseDebt(Accumulate(x, cut), i, n)
  IN  Try(y, /\ x.r.active /\ ~x.r.frozen
             /\ DebtLargeEnough(y.d, lim) /\ DebtLimitKept(y, lim), y)

\* Mutant: clamped to the debt before the interest on it.
RepaidAmountOld(x, n, clamp, cut) ==
  IF clamp THEN Least(n, x.d.debt) ELSE n

RepaidAmount(x, n, clamp, cut) ==
  IF clamp THEN Least(n, Accumulate(x, cut).d.debt) ELSE n

\* Mutant: no check of the debt that is left.
AccountForAnyRepay(x, i, n, clamp, cut, lim) ==
  LET y == DecreaseDebt(Accumulate(x, cut), i, RepaidAmount(x, n, clamp, cut))
  IN  Try(y, x.r.active /\ Accumulate(x, cut).d.debt # 0, y)

\* Mutant: no check that the reserve is active.
AccountForInactiveRepay(x, i, n, clamp, cut, lim) ==
  LET y == DecreaseDebt(Accumulate(x, cut), i, RepaidAmount(x, n, clamp, cut))
  IN  Try(y, Accumulate(x, cut).d.debt # 0 /\ DebtLargeEnough(y.d, lim), y)

AccountForRepay(x, i, n, clamp, cut, lim) ==
  LET y == DecreaseDebt(Accumulate(x, cut), i, RepaidAmount(x, n, clamp, cut))
  IN  Try(y, /\ x.r.active /\ Accumulate(x, cut).d.debt # 0
             /\ DebtLargeEnough(y.d, lim), y)
=============================================================================
