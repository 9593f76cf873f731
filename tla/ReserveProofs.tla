---------------------------- MODULE ReserveProofs ----------------------------
(***************************************************************************)
(* Facts about the steps of Reserve: each takes a context of the right     *)
(* types to one, and moves a reserve's totals by what it moves the         *)
(* account's balances.                                                     *)
(***************************************************************************)
EXTENDS Reserve, TLAPS

\* The contexts of accounts whose bitmaps hold assets of A and whose market
\* rule is one of R.
Contexts(A, R) ==
  [ok : BOOLEAN, r : ReserveState, d : PositionState, c : ConfigState(A, R)]

\* Going from x to y, what the reserve holds for everybody but this account
\* stays the same, and an error is not forgotten.
Keeps(x, y) ==
  /\ y.r.totalDeposit - y.d.deposit = x.r.totalDeposit - x.d.deposit
  /\ y.r.totalDebt - y.d.debt = x.r.totalDebt - x.d.debt
  /\ y.ok => x.ok

\* Try, when the step it tries is good.
LEMMA TryGood ==
  ASSUME NEW A, NEW R, NEW x \in Contexts(A, R), NEW y, NEW guard,
         x.ok /\ guard => y \in Contexts(A, R) /\ Keeps(x, y)
  PROVE  /\ Try(x, guard, y) \in Contexts(A, R)
         /\ Keeps(x, Try(x, guard, y))
         /\ Try(x, guard, y).ok => x.ok /\ guard /\ y.ok /\ Try(x, guard, y) = y
<1>1. CASE x.ok /\ guard
  BY <1>1 DEF Try
<1>2. CASE ~(x.ok /\ guard)
  <2>1. Try(x, guard, y) = Fail(x)
    BY <1>2 DEF Try
  <2>2. Fail(x) \in Contexts(A, R) /\ Keeps(x, Fail(x)) /\ ~Fail(x).ok
    BY DEF Fail, Contexts, Keeps
  <2>3. QED
    BY <2>1, <2>2
<1>3. QED
  BY <1>1, <1>2

LEMMA KeepsTransitive ==
  ASSUME NEW x, NEW y, NEW z, Keeps(x, y), Keeps(y, z)
  PROVE  Keeps(x, z)
BY DEF Keeps

\* What a position that can accrue is left with.
LEMMA AccrueFits ==
  ASSUME NEW r, NEW d, NEW cut, ~UpToDate(r, d), CanAccrue(r, d, cut)
  PROVE  /\ DepositInterest(r, d, cut) \in U128 /\ DebtInterest(r, d, cut) \in U128
         /\ d.deposit + DepositInterest(r, d, cut) \in U128
         /\ d.debt + DebtInterest(r, d, cut) \in U128
         /\ r.earnedFee + DepositFeeOf(r, d, cut) + DebtFeeOf(r, d, cut) \in U128
BY DEF CanAccrue, Accrue

LEMMA AccumulateTries ==
  ASSUME NEW x, NEW cut, ~UpToDate(x.r, x.d)
  PROVE  LET di == DepositInterest(x.r, x.d, cut)
             bi == DebtInterest(x.r, x.d, cut)
             y  == [x EXCEPT
                      !.d = [deposit |-> x.d.deposit + di, debt |-> x.d.debt + bi,
                             depositIndex |-> x.r.depositIndex, debtIndex |-> x.r.debtIndex],
                      !.r.totalDeposit = @ + di, !.r.totalDebt = @ + bi,
                      !.r.earnedFee = @ + DepositFeeOf(x.r, x.d, cut) + DebtFeeOf(x.r, x.d, cut)]
         IN  Accumulate(x, cut) = Try(x, /\ CanAccrue(x.r, x.d, cut)
                                         /\ y.r.totalDeposit \in U128 /\ y.r.totalDebt \in U128, y)
BY DEF Accumulate, Accrue

LEMMA AccumulateGood ==
  ASSUME NEW A, NEW R, NEW x \in Contexts(A, R), NEW cut
  PROVE  Accumulate(x, cut) \in Contexts(A, R) /\ Keeps(x, Accumulate(x, cut))
<1> DEFINE di == DepositInterest(x.r, x.d, cut)
           bi == DebtInterest(x.r, x.d, cut)
           y == [x EXCEPT
                  !.d = [deposit |-> x.d.deposit + di, debt |-> x.d.debt + bi,
                         depositIndex |-> x.r.depositIndex, debtIndex |-> x.r.debtIndex],
                  !.r.totalDeposit = @ + di, !.r.totalDebt = @ + bi,
                  !.r.earnedFee = @ + DepositFeeOf(x.r, x.d, cut) + DebtFeeOf(x.r, x.d, cut)]
           guard == /\ CanAccrue(x.r, x.d, cut)
                    /\ y.r.totalDeposit \in U128 /\ y.r.totalDebt \in U128
<1>1. CASE UpToDate(x.r, x.d)
  <2>1. Accumulate(x, cut) = x
    BY <1>1 DEF Accumulate
  <2>2. QED
    BY <2>1 DEF Keeps
<1>2. CASE ~UpToDate(x.r, x.d)
  <2>1. Accumulate(x, cut) = Try(x, guard, y)
    BY <1>2, AccumulateTries
  <2>2. ASSUME guard PROVE y \in Contexts(A, R) /\ Keeps(x, y)
    <3>1. /\ di \in U128 /\ bi \in U128
          /\ x.d.deposit + di \in U128 /\ x.d.debt + bi \in U128
          /\ x.r.earnedFee + DepositFeeOf(x.r, x.d, cut) + DebtFeeOf(x.r, x.d, cut) \in U128
      BY <1>2, <2>2, AccrueFits
    <3> HIDE DEF di, bi
    <3>2. y \in Contexts(A, R)
      BY <2>2, <3>1 DEF Contexts, ReserveState, PositionState
    <3>3. /\ y.ok = x.ok
          /\ y.d.deposit = x.d.deposit + di /\ y.r.totalDeposit = x.r.totalDeposit + di
          /\ y.d.debt = x.d.debt + bi /\ y.r.totalDebt = x.r.totalDebt + bi
      BY DEF Contexts, ReserveState, PositionState
    <3>4. /\ di \in Int /\ bi \in Int
          /\ x.d.deposit \in Int /\ x.r.totalDeposit \in Int
          /\ x.d.debt \in Int /\ x.r.totalDebt \in Int
      BY <3>1 DEF Contexts, ReserveState, PositionState, U128
    <3>5. Keeps(x, y)
      <4> HIDE DEF y, guard
      <4>1. QED
        BY <3>3, <3>4 DEF Keeps
    <3>6. QED
      BY <3>2, <3>5
  <2>3. QED
    <3> HIDE DEF y, guard
    <3>1. QED
      BY <2>1, <2>2, TryGood
<1>3. QED
  BY <1>1, <1>2

LEMMA IncreaseDepositGood ==
  ASSUME NEW A, NEW R, NEW x \in Contexts(A, R), NEW i \in A, NEW n \in Int
  PROVE  IncreaseDeposit(x, i, n) \in Contexts(A, R) /\ Keeps(x, IncreaseDeposit(x, i, n))
<1> DEFINE y == [x EXCEPT !.c.deposits = @ \cup {i}, !.d.deposit = @ + n, !.r.totalDeposit = @ + n]
           guard == x.d.deposit + n \in U128 /\ x.r.totalDeposit + n \in U128
<1>1. ASSUME guard PROVE y \in Contexts(A, R) /\ Keeps(x, y)
  <2>1. y \in Contexts(A, R)
    BY <1>1 DEF Contexts, ReserveState, PositionState, ConfigState
  <2>2. Keeps(x, y)
    BY <1>1, ScaleAssumption DEF Contexts, ReserveState, PositionState, U128, Keeps
  <2>3. QED
    BY <2>1, <2>2
<1>2. IncreaseDeposit(x, i, n) = Try(x, guard, y)
  BY DEF IncreaseDeposit
<1> HIDE DEF y, guard
<1>3. QED
  BY <1>1, <1>2, TryGood
LEMMA DecreaseDepositGood ==
  ASSUME NEW A, NEW R, NEW x \in Contexts(A, R), NEW i \in A, NEW n \in Int, NEW lim
  PROVE  /\ DecreaseDeposit(x, i, n, lim) \in Contexts(A, R)
         /\ Keeps(x, DecreaseDeposit(x, i, n, lim))
<1> DEFINE deposits == IF n = x.d.deposit THEN x.c.deposits \ {i} ELSE x.c.deposits
           collaterals == IF x.d.deposit - n < lim.minCollateral
                          THEN x.c.collaterals \ {i} ELSE x.c.collaterals
           y == [x EXCEPT !.c.deposits = deposits, !.c.collaterals = collaterals,
                          !.d.deposit = @ - n, !.r.totalDeposit = @ - n]
           guard == x.d.deposit - n \in U128 /\ x.r.totalDeposit - n \in U128
<1>1. ASSUME guard PROVE y \in Contexts(A, R) /\ Keeps(x, y)
  <2>0. deposits \in SUBSET A /\ collaterals \in SUBSET A
    BY DEF Contexts, ConfigState
  <2> HIDE DEF deposits, collaterals
  <2>1. y \in Contexts(A, R)
    BY <1>1, <2>0 DEF Contexts, ReserveState, PositionState, ConfigState
  <2>2. Keeps(x, y)
    BY <1>1, ScaleAssumption DEF Contexts, ReserveState, PositionState, U128, Keeps
  <2>3. QED
    BY <2>1, <2>2
<1>2. DecreaseDeposit(x, i, n, lim) = Try(x, guard, y)
  BY DEF DecreaseDeposit
<1> HIDE DEF y, guard
<1>3. QED
  BY <1>1, <1>2, TryGood

LEMMA IncreaseDebtGood ==
  ASSUME NEW A, NEW R, NEW x \in Contexts(A, R), NEW i \in A, NEW n \in Int
  PROVE  /\ IncreaseDebt(x, i, n) \in Contexts(A, R)
         /\ Keeps(x, IncreaseDebt(x, i, n))
<1> DEFINE y == [x EXCEPT !.c.borrows = @ \cup {i}, !.d.debt = @ + n, !.r.totalDebt = @ + n]
           guard == x.d.debt + n \in U128 /\ x.r.totalDebt + n \in U128
<1>1. ASSUME guard PROVE y \in Contexts(A, R) /\ Keeps(x, y)
  <2>1. y \in Contexts(A, R)
    BY <1>1 DEF Contexts, ReserveState, PositionState, ConfigState
  <2>2. Keeps(x, y)
    BY <1>1, ScaleAssumption DEF Contexts, ReserveState, PositionState, U128, Keeps
  <2>3. QED
    BY <2>1, <2>2
<1>2. IncreaseDebt(x, i, n) = Try(x, guard, y)
  BY DEF IncreaseDebt
<1> HIDE DEF y, guard
<1>3. QED
  BY <1>1, <1>2, TryGood

LEMMA DecreaseDebtGood ==
  ASSUME NEW A, NEW R, NEW x \in Contexts(A, R), NEW i \in A, NEW n \in Int
  PROVE  /\ DecreaseDebt(x, i, n) \in Contexts(A, R)
         /\ Keeps(x, DecreaseDebt(x, i, n))
<1> DEFINE y == [x EXCEPT !.c.borrows = IF n = x.d.debt THEN @ \ {i} ELSE @,
                          !.d.debt = @ - n, !.r.totalDebt = @ - n]
           guard == x.d.debt - n \in U128 /\ x.r.totalDebt - n \in U128
<1>1. ASSUME guard PROVE y \in Contexts(A, R) /\ Keeps(x, y)
  <2>1. y \in Contexts(A, R)
    <3>1. x.r \in ReserveState /\ x.d \in PositionState /\ x.c \in ConfigState(A, R)
      BY DEF Contexts
    <3>2. [x.r EXCEPT !.totalDebt = @ - n] \in ReserveState
      BY <1>1, <3>1 DEF ReserveState
    <3>3. [x.d EXCEPT !.debt = @ - n] \in PositionState
      BY <1>1, <3>1 DEF PositionState
    <3>4. [x.c EXCEPT !.borrows = IF n = x.d.debt THEN @ \ {i} ELSE @] \in ConfigState(A, R)
      BY <3>1 DEF ConfigState
    <3>5. QED
      BY <3>2, <3>3, <3>4 DEF Contexts
  <2>2. /\ x.r.totalDebt \in Nat /\ x.d.debt \in Nat
        /\ x.r.totalDeposit \in Nat /\ x.d.deposit \in Nat
    BY ScaleAssumption DEF Contexts, ReserveState, PositionState, U128
  <2>3. /\ y.r.totalDebt = x.r.totalDebt - n /\ y.d.debt = x.d.debt - n
        /\ y.r.totalDeposit = x.r.totalDeposit /\ y.d.deposit = x.d.deposit
        /\ y.ok = x.ok
    BY DEF Contexts, ReserveState, PositionState
  <2> HIDE DEF y
  <2>4. Keeps(x, y)
    BY <2>2, <2>3 DEF Keeps
  <2>5. QED
    BY <2>1, <2>4
<1>2. DecreaseDebt(x, i, n) = Try(x, guard, y)
  BY DEF DecreaseDebt
<1> HIDE DEF y, guard
<1>3. QED
  BY <1>1, <1>2, TryGood

-----------------------------------------------------------------------------
\* The amounts the clamps let through are numbers.
LEMMA AmountsAreNumbers ==
  ASSUME NEW A, NEW R, NEW x \in Contexts(A, R), NEW n \in Int, NEW clamp, NEW cut
  PROVE  WithdrawnAmount(x, n, clamp, cut) \in Int /\ RepaidAmount(x, n, clamp, cut) \in Int
<1>1. Accumulate(x, cut) \in Contexts(A, R)
  BY AccumulateGood
<1>2. Accumulate(x, cut).d.deposit \in Int /\ Accumulate(x, cut).d.debt \in Int
  BY <1>1 DEF Contexts, PositionState, U128
<1>3. QED
  BY <1>2 DEF WithdrawnAmount, RepaidAmount, Least

LEMMA AccountForDepositGood ==
  ASSUME NEW A, NEW R, NEW x \in Contexts(A, R), NEW i \in A, NEW n \in Int, NEW cut, NEW lim
  PROVE  /\ AccountForDeposit(x, i, n, cut, lim) \in Contexts(A, R)
         /\ Keeps(x, AccountForDeposit(x, i, n, cut, lim))
<1> DEFINE z == Accumulate(x, cut)
           y == IncreaseDeposit(z, i, n)
<1>1. z \in Contexts(A, R) /\ Keeps(x, z)
  BY AccumulateGood
<1>2. y \in Contexts(A, R) /\ Keeps(z, y)
  BY <1>1, IncreaseDepositGood
<1>3. \E guard : AccountForDeposit(x, i, n, cut, lim) = Try(y, guard, y)
  BY DEF AccountForDeposit
<1> HIDE DEF y, z
<1>4. Keeps(y, y)
  BY DEF Keeps
<1>5. Keeps(x, y)
  BY <1>1, <1>2, KeepsTransitive
<1>6. \A guard : Try(y, guard, y) \in Contexts(A, R) /\ Keeps(y, Try(y, guard, y))
  BY <1>2, <1>4, TryGood
<1>7. QED
  BY <1>3, <1>5, <1>6, KeepsTransitive

LEMMA AccountForBorrowGood ==
  ASSUME NEW A, NEW R, NEW x \in Contexts(A, R), NEW i \in A, NEW n \in Int, NEW cut, NEW lim
  PROVE  /\ AccountForBorrow(x, i, n, cut, lim) \in Contexts(A, R)
         /\ Keeps(x, AccountForBorrow(x, i, n, cut, lim))
<1> DEFINE z == Accumulate(x, cut)
           y == IncreaseDebt(z, i, n)
<1>1. z \in Contexts(A, R) /\ Keeps(x, z)
  BY AccumulateGood
<1>2. y \in Contexts(A, R) /\ Keeps(z, y)
  BY <1>1, IncreaseDebtGood
<1>3. \E guard : AccountForBorrow(x, i, n, cut, lim) = Try(y, guard, y)
  BY DEF AccountForBorrow
<1> HIDE DEF y, z
<1>4. Keeps(y, y)
  BY DEF Keeps
<1>5. Keeps(x, y)
  BY <1>1, <1>2, KeepsTransitive
<1>6. \A guard : Try(y, guard, y) \in Contexts(A, R) /\ Keeps(y, Try(y, guard, y))
  BY <1>2, <1>4, TryGood
<1>7. QED
  BY <1>3, <1>5, <1>6, KeepsTransitive

LEMMA AccountForWithdrawGood ==
  ASSUME NEW A, NEW R, NEW x \in Contexts(A, R), NEW i \in A, NEW n \in Int, 
         NEW clamp, NEW cut, NEW lim
  PROVE  /\ AccountForWithdraw(x, i, n, clamp, cut, lim) \in Contexts(A, R)
         /\ Keeps(x, AccountForWithdraw(x, i, n, clamp, cut, lim))
<1> DEFINE z == Accumulate(x, cut)
           y == DecreaseDeposit(z, i, WithdrawnAmount(x, n, clamp, cut), lim)
<1>1. z \in Contexts(A, R) /\ Keeps(x, z)
  BY AccumulateGood
<1>2. WithdrawnAmount(x, n, clamp, cut) \in Int
  BY AmountsAreNumbers
<1>3. y \in Contexts(A, R) /\ Keeps(z, y)
  BY <1>1, <1>2, DecreaseDepositGood
<1>4. \E guard : AccountForWithdraw(x, i, n, clamp, cut, lim) = Try(y, guard, y)
  BY DEF AccountForWithdraw
<1> HIDE DEF y, z
<1>5. Keeps(y, y)
  BY DEF Keeps
<1>6. Keeps(x, y)
  BY <1>1, <1>3, KeepsTransitive
<1>7. \A guard : Try(y, guard, y) \in Contexts(A, R) /\ Keeps(y, Try(y, guard, y))
  BY <1>3, <1>5, TryGood
<1>8. QED
  BY <1>4, <1>6, <1>7, KeepsTransitive

LEMMA AccountForRepayGood ==
  ASSUME NEW A, NEW R, NEW x \in Contexts(A, R), NEW i \in A, NEW n \in Int, 
         NEW clamp, NEW cut, NEW lim
  PROVE  /\ AccountForRepay(x, i, n, clamp, cut, lim) \in Contexts(A, R)
         /\ Keeps(x, AccountForRepay(x, i, n, clamp, cut, lim))
<1> DEFINE z == Accumulate(x, cut)
           y == DecreaseDebt(z, i, RepaidAmount(x, n, clamp, cut))
<1>1. z \in Contexts(A, R) /\ Keeps(x, z)
  BY AccumulateGood
<1>2. RepaidAmount(x, n, clamp, cut) \in Int
  BY AmountsAreNumbers
<1>3. y \in Contexts(A, R) /\ Keeps(z, y)
  BY <1>1, <1>2, DecreaseDebtGood
<1>4. \E guard : AccountForRepay(x, i, n, clamp, cut, lim) = Try(y, guard, y)
  BY DEF AccountForRepay
<1> HIDE DEF y, z
<1>5. Keeps(y, y)
  BY DEF Keeps
<1>6. Keeps(x, y)
  BY <1>1, <1>3, KeepsTransitive
<1>7. \A guard : Try(y, guard, y) \in Contexts(A, R) /\ Keeps(y, Try(y, guard, y))
  BY <1>3, <1>5, TryGood
<1>8. QED
  BY <1>4, <1>6, <1>7, KeepsTransitive

-----------------------------------------------------------------------------
\* Updating the indexes and the rates leaves the totals alone.
LEMMA UpdatedGood ==
  ASSUME NEW r \in ReserveState, NEW now \in Nat, CanUpdate(r, now)
  PROVE  /\ Updated(r, now) \in ReserveState
         /\ Updated(r, now).totalDeposit = r.totalDeposit
         /\ Updated(r, now).totalDebt = r.totalDebt
<1>1. CASE now = r.updated
  BY <1>1 DEF Updated
<1>2. CASE now # r.updated
  <2> DEFINE di == MulDivDown(r.depositIndex, DepositMultiplier(r, now), E18)
             bi == MulDivUp(r.debtIndex, DebtMultiplier(r, now), E18)
  <2>1. Updated(r, now) = [r EXCEPT !.depositIndex = di, !.debtIndex = bi, !.updated = now]
    BY <1>2 DEF Updated
  <2> HIDE DEF di, bi
  <2>2. di \in U128 /\ bi \in U128
    BY <2>1 DEF CanUpdate, ReserveState
  <2>3. QED
    BY <2>1, <2>2 DEF ReserveState
<1>3. QED
  BY <1>1, <1>2

LEMMA ReratedGood ==
  ASSUME NEW r \in ReserveState, NEW m, CanRerate(r, m)
  PROVE  /\ Rerated(r, m) \in ReserveState
         /\ Rerated(r, m).totalDeposit = r.totalDeposit
         /\ Rerated(r, m).totalDebt = r.totalDebt
<1>1. CASE m = None
  BY <1>1 DEF Rerated
<1>2. CASE m # None /\ r.totalDebt = 0
  BY <1>2 DEF Rerated, ReserveState
<1>3. CASE m # None /\ r.totalDebt # 0
  <2> DEFINE rate == DebtRateAt(Utilization(r), m)
             paid == MulDivDown(r.totalDebt, rate, r.totalDeposit)
  <2>1. Rerated(r, m) = [r EXCEPT !.debtRate = rate, !.depositRate = paid]
    BY <1>3 DEF Rerated
  <2>2. rate \in Nat
    BY <1>3, ScaleAssumption DEF CanRerate, CanRate, U32, U64
  <2> HIDE DEF rate, paid
  <2>3. paid \in Nat
    BY <1>3, <2>1, ScaleAssumption DEF CanRerate, U64, ReserveState
  <2>4. QED
    BY <2>1, <2>2, <2>3 DEF ReserveState
<1>4. QED
  BY <1>1, <1>2, <1>3
=============================================================================
