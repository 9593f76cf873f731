---------------------------- MODULE PositionProofs ----------------------------
(***************************************************************************)
(* What no message does to anybody's position, for every instance of the   *)
(* lending pool: leave a balance outside the bitmaps, set a position's     *)
(* indexes ahead of its reserve's, leave a collateral or a debt below its  *)
(* minimum, or touch a position of an inactive reserve.                    *)
(*                                                                         *)
(* All four follow from one relation, Moved, between the state of one      *)
(* position before and after: opening, each account_for_* helper and       *)
(* closing are Moved, and Moved is transitive, so that a message is Moved  *)
(* for every account and asset, those it works on and the bystanders.      *)
(***************************************************************************)
EXTENDS LendingPoolProofs

\* BitmapsCover and PositionsFollowIndexes for one position d in the reserve
\* r of asset i, of an account with config c; the position of a borrower is
\* not the one of an account that was never there.
SoundAt(r, d, c, i) ==
  /\ r.depositIndex > 0
  /\ i \in c.borrows => d.depositIndex > 0
  /\ d.deposit # 0 => i \in c.deposits
  /\ d.debt # 0 => i \in c.borrows
  /\ d.depositIndex <= r.depositIndex
  /\ d.debtIndex <= r.debtIndex

\* MinimumsKept for the position.
MinimalAt(d, c, lim, i) ==
  /\ i \in c.collaterals => DepositCanBack(d, lim)
  /\ DebtLargeEnough(d, lim)

\* Behind a collateral there is something.
FilledAt(d, c, lim, i) ==
  i \in c.collaterals /\ lim.minCollateral > 0 => d.deposit > 0

\* The indexes of the reserve do not go back.
Advances(r0, r1) ==
  /\ r0.depositIndex <= r1.depositIndex
  /\ r0.debtIndex <= r1.debtIndex

\* The bitmaps agree on the assets other than i.
Beside(c0, c1, i) ==
  \A j \in Assets \ {i} :
    /\ j \in c1.deposits <=> j \in c0.deposits
    /\ j \in c1.collaterals <=> j \in c0.collaterals
    /\ j \in c1.borrows <=> j \in c0.borrows

\* What the pool may do to a position.
Moved(r0, d0, c0, r1, d1, c1, lim, i) ==
  /\ Advances(r0, r1)
  /\ r1.active = r0.active
  /\ SoundAt(r0, d0, c0, i) => SoundAt(r1, d1, c1, i)
  /\ MinimalAt(d0, c0, lim, i) => MinimalAt(d1, c1, lim, i)
  /\ FilledAt(d0, c0, lim, i) => FilledAt(d1, c1, lim, i)
  /\ ~r0.active => d1 = d0

\* The same of two contexts, the second of which touches only asset i.
Works(x, y, lim, i) ==
  /\ Moved(x.r, x.d, x.c, y.r, y.d, y.c, lim, i)
  /\ Beside(x.c, y.c, i)

Ctxs == Contexts(Assets, RuleIds)

-----------------------------------------------------------------------------
(* The relation *)

LEMMA ReserveNumbers ==
  ASSUME NEW r \in ReserveState
  PROVE  /\ r.depositIndex \in Nat /\ r.debtIndex \in Nat /\ r.active \in BOOLEAN
         /\ r.totalDeposit \in Nat /\ r.totalDebt \in Nat
BY ScaleAssumption DEF ReserveState, U128

LEMMA PositionNumbers ==
  ASSUME NEW d \in PositionState
  PROVE  /\ d.deposit \in Nat /\ d.debt \in Nat
         /\ d.depositIndex \in Nat /\ d.debtIndex \in Nat
BY ScaleAssumption DEF PositionState, U128

LEMMA AdvancesTransitive ==
  ASSUME NEW r0 \in ReserveState, NEW r1 \in ReserveState, NEW r2 \in ReserveState,
         Advances(r0, r1), Advances(r1, r2)
  PROVE  Advances(r0, r2)
BY ReserveNumbers DEF Advances

LEMMA MovedTransitive ==
  ASSUME NEW r0 \in ReserveState, NEW r1 \in ReserveState, NEW r2 \in ReserveState,
         NEW d0, NEW d1, NEW d2, NEW c0, NEW c1, NEW c2, NEW lim, NEW i,
         Moved(r0, d0, c0, r1, d1, c1, lim, i), Moved(r1, d1, c1, r2, d2, c2, lim, i)
  PROVE  Moved(r0, d0, c0, r2, d2, c2, lim, i)
BY AdvancesTransitive, Zenon DEF Moved

\* A position nobody touches while the indexes of its reserve advance.
LEMMA Waits ==
  ASSUME NEW r0 \in ReserveState, NEW r1 \in ReserveState, NEW d \in PositionState,
         NEW c0, NEW c1, NEW lim, NEW i,
         Advances(r0, r1), r1.active = r0.active,
         i \in c1.deposits <=> i \in c0.deposits,
         i \in c1.collaterals <=> i \in c0.collaterals,
         i \in c1.borrows <=> i \in c0.borrows
  PROVE  Moved(r0, d, c0, r1, d, c1, lim, i)
<1>1. SoundAt(r0, d, c0, i) => SoundAt(r1, d, c1, i)
  BY ReserveNumbers, PositionNumbers DEF Advances, SoundAt
<1>2. MinimalAt(d, c0, lim, i) => MinimalAt(d, c1, lim, i)
  BY DEF MinimalAt
<1>3. FilledAt(d, c0, lim, i) => FilledAt(d, c1, lim, i)
  BY DEF FilledAt
<1>4. QED
  BY <1>1, <1>2, <1>3 DEF Moved

LEMMA Stays ==
  ASSUME NEW r \in ReserveState
  PROVE  Advances(r, r)
BY ReserveNumbers DEF Advances

LEMMA WorksTransitive ==
  ASSUME NEW x \in Ctxs, NEW y \in Ctxs, NEW z \in Ctxs, NEW lim, NEW i,
         Works(x, y, lim, i), Works(y, z, lim, i)
  PROVE  Works(x, z, lim, i)
<1>1. x.r \in ReserveState /\ y.r \in ReserveState /\ z.r \in ReserveState
  BY DEF Ctxs, Contexts
<1>2. Moved(x.r, x.d, x.c, z.r, z.d, z.c, lim, i)
  BY <1>1, MovedTransitive DEF Works
<1>3. Beside(x.c, z.c, i)
  BY DEF Works, Beside
<1>4. QED
  BY <1>2, <1>3 DEF Works

\* What a context that succeeded came from.
LEMMA TrySucceeded ==
  ASSUME NEW A, NEW R, NEW x \in Contexts(A, R), NEW guard, NEW y, Try(x, guard, y).ok
  PROVE  x.ok /\ guard /\ Try(x, guard, y) = y
<1>1. CASE x.ok /\ guard
  BY <1>1 DEF Try
<1>2. CASE ~(x.ok /\ guard)
  BY <1>2 DEF Try, Fail, Contexts
<1>3. QED
  BY <1>1, <1>2

-----------------------------------------------------------------------------
(* Opening and closing *)

LEMMA Quotient ==
  ASSUME NEW x \in Nat, NEW e \in Nat \ {0}, NEW p \in Nat, x * e <= p
  PROVE  x <= p \div e
<1> DEFINE q == p \div e
<1>1. q \in Nat /\ p < (q + 1) * e
  BY Z3
<1> HIDE DEF q
<1>2. ASSUME q < x PROVE FALSE
  <2>1. q + 1 <= x
    BY <1>1, <1>2
  <2>2. (q + 1) * e <= x * e
    BY <1>1, <2>1
  <2>3. x * e \in Nat /\ (q + 1) * e \in Nat
    BY <1>1
  <2>4. QED
    BY <1>1, <2>2, <2>3
<1>3. QED
  BY <1>1, <1>2 DEF q

LEMMA IndexGrows ==
  ASSUME NEW x \in Nat, NEW k \in Nat
  PROVE  x <= MulDivDown(x, E18 + k, E18) /\ x <= MulDivUp(x, E18 + k, E18)
<1> DEFINE p == x * (E18 + k)
<1>1. E18 \in Nat \ {0}
  BY ScaleAssumption
<1>2. x * E18 \in Nat /\ x * k \in Nat /\ p = x * E18 + x * k
  BY <1>1
<1>3. p \in Nat /\ x * E18 <= p
  BY <1>2
<1> HIDE DEF p
<1>4. x <= p \div E18 /\ p \div E18 \in Nat
  BY <1>1, <1>3, Quotient
<1>5. QED
  BY <1>1, <1>4 DEF MulDivDown, MulDivUp, p

LEMMA UpdatedAdvances ==
  ASSUME NEW r \in ReserveState, NEW t \in Nat, CanUpdate(r, t)
  PROVE  Advances(r, Updated(r, t)) /\ Updated(r, t).active = r.active
<1>1. CASE t = r.updated
  BY <1>1, Stays DEF Updated
<1>2. CASE t # r.updated
  <2> DEFINE k1 == DepositMultiplier(r, t) - E18
             k2 == DebtMultiplier(r, t) - E18
             di == MulDivDown(r.depositIndex, DepositMultiplier(r, t), E18)
             bi == MulDivUp(r.debtIndex, DebtMultiplier(r, t), E18)
  <2>1. Updated(r, t) = [r EXCEPT !.depositIndex = di, !.debtIndex = bi, !.updated = t]
    BY <1>2 DEF Updated
  <2>2. /\ E18 \in Nat /\ r.depositRate \in Nat /\ r.debtRate \in Nat
        /\ t - r.updated \in Nat
    BY ScaleAssumption DEF ReserveState, CanUpdate
  <2>3. r.depositRate * (t - r.updated) \in Nat /\ r.debtRate * (t - r.updated) \in Nat
    BY <2>2
  <2>4. k1 \in Nat /\ DepositMultiplier(r, t) = E18 + k1
    BY <2>2, <2>3 DEF DepositMultiplier
  <2>5. k2 \in Nat /\ DebtMultiplier(r, t) = E18 + k2
    BY <2>2, <2>3 DEF DebtMultiplier
  <2>6. r.depositIndex <= di /\ r.debtIndex <= bi
    <3> HIDE DEF k1, k2
    <3>1. QED
      BY <2>4, <2>5, ReserveNumbers, IndexGrows
  <2> HIDE DEF di, bi
  <2>7. /\ Updated(r, t).depositIndex = di /\ Updated(r, t).debtIndex = bi
        /\ Updated(r, t).active = r.active
    BY <2>1 DEF ReserveState
  <2>8. QED
    BY <2>6, <2>7 DEF Advances
<1>3. QED
  BY <1>1, <1>2

LEMMA RatesAdvance ==
  ASSUME NEW r \in ReserveState, NEW m
  PROVE  Advances(r, Rerated(r, m)) /\ Rerated(r, m).active = r.active
<1>1. /\ Rerated(r, m).depositIndex = r.depositIndex
      /\ Rerated(r, m).debtIndex = r.debtIndex
      /\ Rerated(r, m).active = r.active
  BY DEF Rerated, ReserveState
<1>2. QED
  BY <1>1, Stays DEF Advances

LEMMA OpenWorks ==
  ASSUME now \in Nat, NEW r \in ReserveState, NEW d \in PositionState,
         NEW c \in ConfigState(Assets, RuleIds), Open(r, d, c).ok, NEW lim, NEW i
  PROVE  /\ Works(Context(r, d, c), Open(r, d, c), lim, i)
         /\ Open(r, d, c).d = d /\ Open(r, d, c).c = c
<1> DEFINE x == Context(r, d, c)
           y == Context(Updated(r, now), d, c)
<1>1. x \in Ctxs /\ x.r = r /\ x.d = d /\ x.c = c
  BY DEF Context, Contexts, Ctxs
<1>2. Open(r, d, c) = Try(x, CanUpdate(r, now), y)
  BY DEF Open
<1>3. y.r = Updated(r, now) /\ y.d = d /\ y.c = c
  BY DEF Context
<1> HIDE DEF x, y
<1>4. CanUpdate(r, now) /\ Open(r, d, c) = y
  BY <1>1, <1>2, TrySucceeded DEF Ctxs
<1>5. /\ Advances(r, Updated(r, now)) /\ Updated(r, now).active = r.active
      /\ Updated(r, now) \in ReserveState
  BY <1>4, UpdatedAdvances, UpdatedGood
<1>6. Moved(r, d, c, Updated(r, now), d, c, lim, i)
  BY <1>5, Waits
<1>7. QED
  BY <1>1, <1>3, <1>4, <1>6 DEF Works, Beside, x

LEMMA CloseWorks ==
  ASSUME NEW x \in Ctxs, NEW i \in Assets, Close(x, i).ok, NEW lim, NEW j
  PROVE  Works(x, Close(x, i), lim, j) /\ x.ok
<1> DEFINE r == Rerated(x.r, model[i])
           y == [x EXCEPT !.r = r]
<1>1. x.r \in ReserveState /\ x.d \in PositionState
  BY DEF Ctxs, Contexts
<1>2. Close(x, i) = Try(x, CanRerate(x.r, model[i]), y)
  BY DEF Close
<1>3. x.ok /\ CanRerate(x.r, model[i]) /\ Close(x, i) = y
  <2> HIDE DEF y
  <2>1. QED
    BY <1>2, TrySucceeded DEF Ctxs
<1>4. r \in ReserveState /\ Advances(x.r, r) /\ r.active = x.r.active
  BY <1>1, <1>3, RatesAdvance, ReratedGood
<1> HIDE DEF r
<1>5. y.r = r /\ y.d = x.d /\ y.c = x.c
  BY DEF Ctxs, Contexts
<1>6. Moved(x.r, x.d, x.c, r, x.d, x.c, lim, j)
  BY <1>1, <1>4, Waits
<1> HIDE DEF y
<1>7. QED
  BY <1>3, <1>5, <1>6 DEF Works, Beside

-----------------------------------------------------------------------------
(* The helpers *)

\* Nothing owed or owned, no fee.
LEMMA NoFeeOnNothing ==
  ASSUME NEW fee \in Nat, NEW reduction \in 0 .. E6
  PROVE  FeeOn(0, fee, reduction) = 0
<1>1. E6 \in Nat \ {0}
  BY ScaleAssumption
<1>2. 0 * fee = 0 /\ 0 * (E6 - reduction) = 0 /\ 0 \div E6 = 0 /\ 0 % E6 = 0
  BY <1>1
<1>3. \A k \in {fee, E6 - reduction} : MulDivUp(0, k, E6) = 0
  BY <1>1, <1>2 DEF MulDivUp
<1>4. QED
  BY <1>3 DEF FeeOn

LEMMA NoInterestOnNothing ==
  ASSUME NEW r \in ReserveState, NEW d \in PositionState, NEW cut \in CutState
  PROVE  /\ d.deposit = 0 => DepositInterest(r, d, cut) = 0
         /\ d.debt = 0 => DebtInterest(r, d, cut) = 0
<1>1. r.depositFee \in Nat /\ r.debtFee \in Nat
  BY DEF ReserveState
<1>2. cut.deposit \in 0 .. E6 /\ cut.debt \in 0 .. E6
  BY DEF CutState
<1>3. FeeOn(0, r.depositFee, cut.deposit) = 0 /\ FeeOn(0, r.debtFee, cut.debt) = 0
  BY <1>1, <1>2, NoFeeOnNothing
<1>4. QED
  BY <1>3 DEF DepositInterest, DebtInterest, DepositFeeOf, DebtFeeOf, DepositGrowth, DebtGrowth

\* Interest makes a position grow, one of nothing stays nothing, and the
\* position's indexes catch up with the reserve's.
Ages(x, y) ==
  /\ y.c = x.c
  /\ y.r.active = x.r.active
  /\ y.r.depositIndex = x.r.depositIndex /\ y.r.debtIndex = x.r.debtIndex
  /\ y.d.deposit >= x.d.deposit /\ y.d.debt >= x.d.debt
  /\ x.d.deposit = 0 => y.d.deposit = 0
  /\ x.d.debt = 0 => y.d.debt = 0
  /\ y.d.depositIndex >= x.r.depositIndex
  /\ \/ y.d.depositIndex = x.d.depositIndex /\ y.d.debtIndex = x.d.debtIndex
     \/ y.d.depositIndex = x.r.depositIndex /\ y.d.debtIndex = x.r.debtIndex

LEMMA AccumulateAges ==
  ASSUME NEW x \in Ctxs, NEW cut \in CutState, Accumulate(x, cut).ok
  PROVE  Ages(x, Accumulate(x, cut)) /\ x.ok
<1> DEFINE di == DepositInterest(x.r, x.d, cut)
           bi == DebtInterest(x.r, x.d, cut)
           y == [x EXCEPT
                  !.d = [deposit |-> x.d.deposit + di, debt |-> x.d.debt + bi,
                         depositIndex |-> x.r.depositIndex, debtIndex |-> x.r.debtIndex],
                  !.r.totalDeposit = @ + di, !.r.totalDebt = @ + bi,
                  !.r.earnedFee = @ + DepositFeeOf(x.r, x.d, cut) + DebtFeeOf(x.r, x.d, cut)]
           guard == /\ CanAccrue(x.r, x.d, cut)
                    /\ y.r.totalDeposit \in U128 /\ y.r.totalDebt \in U128
<1>1. /\ x.r \in ReserveState /\ x.d \in PositionState
      /\ x.d.deposit \in Nat /\ x.d.debt \in Nat
  BY PositionNumbers DEF Ctxs, Contexts
<1>2. CASE UpToDate(x.r, x.d)
  <2>1. Accumulate(x, cut) = x
    BY <1>2 DEF Accumulate
  <2>2. QED
    BY <1>1, <1>2, <2>1 DEF Ages, UpToDate
<1>3. CASE ~UpToDate(x.r, x.d)
  <2>1. Accumulate(x, cut) = Try(x, guard, y)
    BY <1>3, AccumulateTries
  <2>2. x.ok /\ guard /\ Accumulate(x, cut) = y
    <3> HIDE DEF guard, y
    <3>1. QED
      BY <2>1, TrySucceeded DEF Ctxs
  <2>3. di \in Nat /\ bi \in Nat
    BY <1>3, <2>2, AccrueFits, ScaleAssumption DEF U128
  <2>4. (x.d.deposit = 0 => di = 0) /\ (x.d.debt = 0 => bi = 0)
    BY <1>1, NoInterestOnNothing
  <2> HIDE DEF di, bi, guard
  <2>5. /\ y.d = [deposit |-> x.d.deposit + di, debt |-> x.d.debt + bi,
                  depositIndex |-> x.r.depositIndex, debtIndex |-> x.r.debtIndex]
        /\ y.c = x.c /\ y.r.active = x.r.active
        /\ y.r.depositIndex = x.r.depositIndex /\ y.r.debtIndex = x.r.debtIndex
    BY DEF Ctxs, Contexts, ReserveState
  <2>6. /\ y.d.deposit = x.d.deposit + di /\ y.d.debt = x.d.debt + bi
        /\ y.d.depositIndex = x.r.depositIndex /\ y.d.debtIndex = x.r.debtIndex
    BY <2>5
  <2> HIDE DEF y
  <2>7. QED
    BY <1>1, <2>2, <2>3, <2>4, <2>5, <2>6, ReserveNumbers DEF Ages
<1>4. QED
  BY <1>2, <1>3

\* From z, the aged x, to y a balance of asset i moved, with its bit.
LEMMA BalanceWorks ==
  ASSUME NEW x \in Ctxs, NEW z \in Ctxs, NEW y \in Ctxs, NEW lim, NEW i,
         Ages(x, z), x.r.active, Beside(z.c, y.c, i),
         y.r.active = z.r.active,
         y.r.depositIndex = z.r.depositIndex, y.r.debtIndex = z.r.debtIndex,
         y.d.depositIndex = z.d.depositIndex, y.d.debtIndex = z.d.debtIndex,
         (z.d.deposit # 0 => i \in z.c.deposits) => (y.d.deposit # 0 => i \in y.c.deposits),
         (z.d.debt # 0 => i \in z.c.borrows) => (y.d.debt # 0 => i \in y.c.borrows),
         MinimalAt(x.d, x.c, lim, i) => MinimalAt(y.d, y.c, lim, i),
         FilledAt(x.d, x.c, lim, i) => FilledAt(y.d, y.c, lim, i)
  PROVE  Works(x, y, lim, i)
<1>1. x.r \in ReserveState /\ y.r \in ReserveState /\ x.d \in PositionState
  BY DEF Ctxs, Contexts
<1>2. Advances(x.r, y.r)
  BY <1>1, ReserveNumbers DEF Ages, Advances
<1>3. SoundAt(x.r, x.d, x.c, i) => SoundAt(y.r, y.d, y.c, i)
  <2>1. SoundAt(x.r, x.d, x.c, i) =>
          y.r.depositIndex > 0 /\ (i \in y.c.borrows => y.d.depositIndex > 0)
    BY <1>1, ReserveNumbers, PositionNumbers DEF Ages, SoundAt, Ctxs, Contexts
  <2>2. SoundAt(x.r, x.d, x.c, i) => /\ y.d.deposit # 0 => i \in y.c.deposits
                                     /\ y.d.debt # 0 => i \in y.c.borrows
    BY DEF Ages, SoundAt
  <2>3. SoundAt(x.r, x.d, x.c, i) => /\ y.d.depositIndex <= y.r.depositIndex
                                     /\ y.d.debtIndex <= y.r.debtIndex
    BY <1>1, ReserveNumbers DEF Ages, SoundAt
  <2>4. QED
    BY <2>1, <2>2, <2>3 DEF SoundAt
<1>4. Moved(x.r, x.d, x.c, y.r, y.d, y.c, lim, i)
  BY <1>2, <1>3 DEF Moved, Ages
<1>5. QED
  BY <1>4 DEF Works, Ages

LEMMA AccountForDepositWorks ==
  ASSUME NEW x \in Ctxs, NEW i \in Assets, NEW n \in Nat, NEW cut \in CutState,
         NEW lim \in LimitState, AccountForDeposit(x, i, n, cut, lim).ok
  PROVE  Works(x, AccountForDeposit(x, i, n, cut, lim), lim, i) /\ x.ok
<1> DEFINE z == Accumulate(x, cut)
           y == [z EXCEPT !.c.deposits = @ \cup {i}, !.d.deposit = @ + n, !.r.totalDeposit = @ + n]
           w == IncreaseDeposit(z, i, n)
           g == z.d.deposit + n \in U128 /\ z.r.totalDeposit + n \in U128
           h == x.r.active /\ ~x.r.frozen /\ DepositLimitKept(w, lim)
<1>1. z \in Ctxs /\ w \in Ctxs
  BY AccumulateGood, IncreaseDepositGood DEF Ctxs
<1>2. AccountForDeposit(x, i, n, cut, lim) = Try(w, h, w) /\ w = Try(z, g, y)
  BY DEF AccountForDeposit, IncreaseDeposit
<1>3. y.d.deposit = z.d.deposit + n /\ y.d.debt = z.d.debt
  BY <1>1 DEF Ctxs, Contexts, PositionState
<1>4. /\ y.r.active = z.r.active
      /\ y.r.depositIndex = z.r.depositIndex /\ y.r.debtIndex = z.r.debtIndex
      /\ y.d.depositIndex = z.d.depositIndex /\ y.d.debtIndex = z.d.debtIndex
      /\ i \in y.c.deposits /\ y.c.borrows = z.c.borrows
      /\ y.c.collaterals = z.c.collaterals /\ Beside(z.c, y.c, i)
  BY <1>1 DEF Ctxs, Contexts, PositionState, ReserveState, ConfigState, Beside
<1> HIDE DEF y, w, g, h
<1>5. w.ok /\ h /\ AccountForDeposit(x, i, n, cut, lim) = w
  BY <1>1, <1>2, TrySucceeded DEF Ctxs
<1>6. z.ok /\ w = y
  BY <1>1, <1>2, <1>5, TrySucceeded DEF Ctxs
<1>7. Ages(x, z) /\ x.ok
  BY <1>6, AccumulateAges
<1>8. x.r.active
  BY <1>5 DEF h
<1>9. x.d \in PositionState /\ z.d \in PositionState
  BY <1>1 DEF Ctxs, Contexts
<1> HIDE DEF z
<1>10. MinimalAt(x.d, x.c, lim, i) => MinimalAt(y.d, y.c, lim, i)
  <2>1. lim.minCollateral \in Nat /\ lim.minDebt \in Nat
    BY DEF LimitState
  <2>2. y.d.deposit >= x.d.deposit /\ y.d.debt >= x.d.debt /\ (x.d.debt = 0 => y.d.debt = 0)
    BY <1>3, <1>7, <1>9, PositionNumbers DEF Ages
  <2>3. y.d.deposit \in Nat /\ y.d.debt \in Nat
    BY <1>3, <1>9, PositionNumbers
  <2>4. QED
    BY <1>4, <1>7, <1>9, <2>1, <2>2, <2>3, PositionNumbers
       DEF MinimalAt, DepositCanBack, DebtLargeEnough, Ages
<1>11. FilledAt(x.d, x.c, lim, i) => FilledAt(y.d, y.c, lim, i)
  BY <1>3, <1>4, <1>7, <1>9, PositionNumbers DEF FilledAt, Ages
<1>12. QED
  BY <1>1, <1>3, <1>4, <1>5, <1>6, <1>7, <1>8, <1>10, <1>11, BalanceWorks

LEMMA AccountForBorrowWorks ==
  ASSUME NEW x \in Ctxs, NEW i \in Assets, NEW n \in Nat, NEW cut \in CutState,
         NEW lim \in LimitState, AccountForBorrow(x, i, n, cut, lim).ok
  PROVE  Works(x, AccountForBorrow(x, i, n, cut, lim), lim, i) /\ x.ok
<1> DEFINE z == Accumulate(x, cut)
           y == [z EXCEPT !.c.borrows = @ \cup {i}, !.d.debt = @ + n, !.r.totalDebt = @ + n]
           w == IncreaseDebt(z, i, n)
           g == z.d.debt + n \in U128 /\ z.r.totalDebt + n \in U128
           h == /\ x.r.active /\ ~x.r.frozen
                /\ DebtLargeEnough(w.d, lim) /\ DebtLimitKept(w, lim)
<1>1. z \in Ctxs /\ w \in Ctxs
  BY AccumulateGood, IncreaseDebtGood DEF Ctxs
<1>2. AccountForBorrow(x, i, n, cut, lim) = Try(w, h, w) /\ w = Try(z, g, y)
  BY DEF AccountForBorrow, IncreaseDebt
<1>3. /\ y.r.active = z.r.active /\ y.d.deposit = z.d.deposit
      /\ y.r.depositIndex = z.r.depositIndex /\ y.r.debtIndex = z.r.debtIndex
      /\ y.d.depositIndex = z.d.depositIndex /\ y.d.debtIndex = z.d.debtIndex
      /\ i \in y.c.borrows /\ y.c.deposits = z.c.deposits
      /\ y.c.collaterals = z.c.collaterals /\ Beside(z.c, y.c, i)
  BY <1>1 DEF Ctxs, Contexts, PositionState, ReserveState, ConfigState, Beside
<1> HIDE DEF y, w, g, h
<1>4. w.ok /\ h /\ AccountForBorrow(x, i, n, cut, lim) = w
  BY <1>1, <1>2, TrySucceeded DEF Ctxs
<1>5. z.ok /\ w = y
  BY <1>1, <1>2, <1>4, TrySucceeded DEF Ctxs
<1>6. Ages(x, z) /\ x.ok
  BY <1>5, AccumulateAges
<1>7. x.r.active /\ DebtLargeEnough(y.d, lim)
  BY <1>4, <1>5 DEF h
<1>8. x.d \in PositionState /\ z.d \in PositionState
  BY <1>1 DEF Ctxs, Contexts
<1> HIDE DEF z
<1>9. MinimalAt(x.d, x.c, lim, i) => MinimalAt(y.d, y.c, lim, i)
  <2>1. lim.minCollateral \in Nat
    BY DEF LimitState
  <2>2. QED
    BY <1>3, <1>6, <1>7, <1>8, <2>1, PositionNumbers DEF MinimalAt, DepositCanBack, Ages
<1>10. FilledAt(x.d, x.c, lim, i) => FilledAt(y.d, y.c, lim, i)
  BY <1>3, <1>6, <1>8, PositionNumbers DEF FilledAt, Ages
<1>11. QED
  BY <1>1, <1>3, <1>4, <1>5, <1>6, <1>7, <1>9, <1>10, BalanceWorks

LEMMA AccountForRepayWorks ==
  ASSUME NEW x \in Ctxs, NEW i \in Assets, NEW n \in Nat, NEW clamp, NEW cut \in CutState,
         NEW lim \in LimitState, AccountForRepay(x, i, n, clamp, cut, lim).ok
  PROVE  Works(x, AccountForRepay(x, i, n, clamp, cut, lim), lim, i) /\ x.ok
<1> DEFINE z == Accumulate(x, cut)
           m == RepaidAmount(x, n, clamp, cut)
           bits == IF m = z.d.debt THEN z.c.borrows \ {i} ELSE z.c.borrows
           y == [z EXCEPT !.c.borrows = bits, !.d.debt = @ - m, !.r.totalDebt = @ - m]
           w == DecreaseDebt(z, i, m)
           g == z.d.debt - m \in U128 /\ z.r.totalDebt - m \in U128
           h == x.r.active /\ z.d.debt # 0 /\ DebtLargeEnough(w.d, lim)
<1>1. z \in Ctxs /\ m \in Int /\ w \in Ctxs
  BY AccumulateGood, AmountsAreNumbers, DecreaseDebtGood DEF Ctxs
<1>2. AccountForRepay(x, i, n, clamp, cut, lim) = Try(w, h, w) /\ w = Try(z, g, y)
  BY DEF AccountForRepay, DecreaseDebt
<1> HIDE DEF m
<1>3. y.d.debt = z.d.debt - m /\ y.c.borrows = bits
  BY <1>1 DEF Ctxs, Contexts, PositionState, ConfigState
<1>4. /\ y.r.active = z.r.active /\ y.d.deposit = z.d.deposit
      /\ y.r.depositIndex = z.r.depositIndex /\ y.r.debtIndex = z.r.debtIndex
      /\ y.d.depositIndex = z.d.depositIndex /\ y.d.debtIndex = z.d.debtIndex
      /\ y.c.deposits = z.c.deposits
      /\ y.c.collaterals = z.c.collaterals /\ Beside(z.c, y.c, i)
  BY <1>1 DEF Ctxs, Contexts, PositionState, ReserveState, ConfigState, Beside
<1> HIDE DEF y, w, g, h
<1>5. w.ok /\ h /\ AccountForRepay(x, i, n, clamp, cut, lim) = w
  BY <1>1, <1>2, TrySucceeded DEF Ctxs
<1>6. z.ok /\ w = y
  BY <1>1, <1>2, <1>5, TrySucceeded DEF Ctxs
<1>7. Ages(x, z) /\ x.ok
  BY <1>6, AccumulateAges
<1>8. x.r.active /\ z.d.debt # 0 /\ DebtLargeEnough(y.d, lim)
  BY <1>5, <1>6 DEF h
<1>9. x.d \in PositionState /\ z.d \in PositionState
  BY <1>1 DEF Ctxs, Contexts
<1> HIDE DEF z
<1>10. MinimalAt(x.d, x.c, lim, i) => MinimalAt(y.d, y.c, lim, i)
  <2>1. lim.minCollateral \in Nat
    BY DEF LimitState
  <2>2. QED
    BY <1>4, <1>7, <1>8, <1>9, <2>1, PositionNumbers DEF MinimalAt, DepositCanBack, Ages
<1>11. (z.d.debt # 0 => i \in z.c.borrows) => (y.d.debt # 0 => i \in y.c.borrows)
  <2>1. z.d.debt \in Nat
    BY <1>9, PositionNumbers
  <2>2. ASSUME y.d.debt # 0 PROVE m # z.d.debt
    BY <1>1, <1>3, <2>1, <2>2
  <2>3. QED
    BY <1>3, <1>8, <2>2 DEF bits
<1>12. FilledAt(x.d, x.c, lim, i) => FilledAt(y.d, y.c, lim, i)
  BY <1>4, <1>7, <1>9, PositionNumbers DEF FilledAt, Ages
<1>13. QED
  BY <1>1, <1>4, <1>5, <1>6, <1>7, <1>8, <1>10, <1>11, <1>12, BalanceWorks

LEMMA AccountForWithdrawWorks ==
  ASSUME NEW x \in Ctxs, NEW i \in Assets, NEW n \in Nat, NEW clamp, NEW cut \in CutState,
         NEW lim \in LimitState, AccountForWithdraw(x, i, n, clamp, cut, lim).ok
  PROVE  Works(x, AccountForWithdraw(x, i, n, clamp, cut, lim), lim, i) /\ x.ok
<1> DEFINE z == Accumulate(x, cut)
           m == WithdrawnAmount(x, n, clamp, cut)
           bits == IF m = z.d.deposit THEN z.c.deposits \ {i} ELSE z.c.deposits
           backing == IF z.d.deposit - m < lim.minCollateral
                      THEN z.c.collaterals \ {i} ELSE z.c.collaterals
           y == [z EXCEPT !.c.deposits = bits, !.c.collaterals = backing,
                          !.d.deposit = @ - m, !.r.totalDeposit = @ - m]
           w == DecreaseDeposit(z, i, m, lim)
           g == z.d.deposit - m \in U128 /\ z.r.totalDeposit - m \in U128
           h == x.r.active /\ x.d.deposit # 0
<1>1. z \in Ctxs /\ m \in Int /\ w \in Ctxs
  BY AccumulateGood, AmountsAreNumbers, DecreaseDepositGood DEF Ctxs
<1>2. AccountForWithdraw(x, i, n, clamp, cut, lim) = Try(w, h, w) /\ w = Try(z, g, y)
  BY DEF AccountForWithdraw, DecreaseDeposit
<1> HIDE DEF m
<1>3. y.d.deposit = z.d.deposit - m /\ y.c.deposits = bits /\ y.c.collaterals = backing
  BY <1>1 DEF Ctxs, Contexts, PositionState, ConfigState
<1>4. /\ y.r.active = z.r.active /\ y.d.debt = z.d.debt
      /\ y.r.depositIndex = z.r.depositIndex /\ y.r.debtIndex = z.r.debtIndex
      /\ y.d.depositIndex = z.d.depositIndex /\ y.d.debtIndex = z.d.debtIndex
      /\ y.c.borrows = z.c.borrows /\ Beside(z.c, y.c, i)
  BY <1>1 DEF Ctxs, Contexts, PositionState, ReserveState, ConfigState, Beside
<1> HIDE DEF y, w, g, h
<1>5. w.ok /\ h /\ AccountForWithdraw(x, i, n, clamp, cut, lim) = w
  BY <1>1, <1>2, TrySucceeded DEF Ctxs
<1>6. z.ok /\ w = y
  BY <1>1, <1>2, <1>5, TrySucceeded DEF Ctxs
<1>7. Ages(x, z) /\ x.ok
  BY <1>6, AccumulateAges
<1>8. x.r.active /\ x.d.deposit # 0
  BY <1>5 DEF h
<1>9. x.d \in PositionState /\ z.d \in PositionState
  BY <1>1 DEF Ctxs, Contexts
<1> HIDE DEF z
<1>10. MinimalAt(x.d, x.c, lim, i) => MinimalAt(y.d, y.c, lim, i)
  <2>1. lim.minCollateral \in Nat /\ lim.minDebt \in Nat
    BY DEF LimitState
  <2>2. i \in y.c.collaterals => DepositCanBack(y.d, lim)
    BY <1>1, <1>3, <1>9, <2>1, PositionNumbers DEF DepositCanBack
  <2>3. DebtLargeEnough(x.d, lim) => DebtLargeEnough(y.d, lim)
    BY <1>4, <1>7, <1>9, <2>1, PositionNumbers DEF DebtLargeEnough, Ages
  <2>4. QED
    BY <2>2, <2>3 DEF MinimalAt
<1>11. (z.d.deposit # 0 => i \in z.c.deposits) => (y.d.deposit # 0 => i \in y.c.deposits)
  <2>1. z.d.deposit \in Nat /\ z.d.deposit # 0
    BY <1>7, <1>8, <1>9, PositionNumbers DEF Ages
  <2>2. ASSUME y.d.deposit # 0 PROVE m # z.d.deposit
    BY <1>1, <1>3, <2>1, <2>2
  <2>3. QED
    BY <1>3, <2>1, <2>2 DEF bits
<1>12. FilledAt(x.d, x.c, lim, i) => FilledAt(y.d, y.c, lim, i)
  <2>1. lim.minCollateral \in Nat
    BY DEF LimitState
  <2>2. QED
    BY <1>1, <1>3, <1>9, <2>1, PositionNumbers DEF FilledAt
<1>13. QED
  BY <1>1, <1>4, <1>5, <1>6, <1>7, <1>8, <1>10, <1>11, <1>12, BalanceWorks

-----------------------------------------------------------------------------
(* A session *)

\* A position after some steps of its account's session, or after a message.
MovedFrom(a, j, r, d, c) == Moved(reserve[j], data[a][j], config[a], r, d, c, limits[j], j)

SessionMoved(s, a) == \A j \in Assets : MovedFrom(a, j, s.reserve[j], s.data[j], s.config)

LEMMA AccountWorks ==
  ASSUME NEW x \in Ctxs, NEW act \in ActionState, NEW cut \in CutState,
         limits[act.asset] \in LimitState, Account(x, act, cut).ok
  PROVE  Works(x, Account(x, act, cut), limits[act.asset], act.asset) /\ x.ok
<1> DEFINE i == act.asset  n == act.amount  lim == limits[act.asset]
<1>1. i \in Assets /\ n \in Nat /\ act.op \in Operations
  BY DEF ActionState
<1>2. ASSUME NEW clamp
      PROVE  /\ AccountForWithdraw(x, i, n, clamp, cut, lim).ok
                  => Works(x, AccountForWithdraw(x, i, n, clamp, cut, lim), lim, i) /\ x.ok
             /\ AccountForRepay(x, i, n, clamp, cut, lim).ok
                  => Works(x, AccountForRepay(x, i, n, clamp, cut, lim), lim, i) /\ x.ok
  BY <1>1, AccountForWithdrawWorks, AccountForRepayWorks
<1>3. /\ AccountForWithdraw(x, i, n, TRUE, cut, lim).ok
           => Works(x, AccountForWithdraw(x, i, n, TRUE, cut, lim), lim, i) /\ x.ok
      /\ AccountForRepay(x, i, n, TRUE, cut, lim).ok
           => Works(x, AccountForRepay(x, i, n, TRUE, cut, lim), lim, i) /\ x.ok
  BY <1>2, Zenon
<1>4. /\ AccountForDeposit(x, i, n, cut, lim).ok
           => Works(x, AccountForDeposit(x, i, n, cut, lim), lim, i) /\ x.ok
      /\ AccountForBorrow(x, i, n, cut, lim).ok
           => Works(x, AccountForBorrow(x, i, n, cut, lim), lim, i) /\ x.ok
  BY <1>1, AccountForDepositWorks, AccountForBorrowWorks
<1>5. \/ Account(x, act, cut) = AccountForDeposit(x, i, n, cut, lim)
      \/ Account(x, act, cut) = AccountForWithdraw(x, i, n, TRUE, cut, lim)
      \/ Account(x, act, cut) = AccountForBorrow(x, i, n, cut, lim)
      \/ Account(x, act, cut) = AccountForRepay(x, i, n, TRUE, cut, lim)
  BY <1>1 DEF Account, Operations
<1>6. QED
  BY <1>3, <1>4, <1>5

LEMMA StepMoved ==
  ASSUME TypeOK, NEW a \in Accounts, NEW s, SessionOK(s, a), NEW act \in ActionState,
         s.ok => SessionMoved(s, a), Step(s, a, act).ok
  PROVE  SessionMoved(Step(s, a, act), a)
<1> DEFINE i == act.asset
           c0 == Context(s.reserve[i], s.data[i], s.config)
           x == Open(s.reserve[i], s.data[i], s.config)
           z == Account(x, act, FeeReduction[a])
           y == Close(z, i)
           t == Step(s, a, act)
<1>1. /\ i \in Assets /\ s.reserve[i] \in ReserveState /\ s.data[i] \in PositionState
      /\ s.config \in ConfigState(Assets, RuleIds) /\ now \in Nat
      /\ s.reserve \in [Assets -> ReserveState] /\ s.data \in [Assets -> PositionState]
      /\ limits[i] \in LimitState /\ FeeReduction[a] \in CutState
  BY PoolAssumption DEF ActionState, SessionOK, TypeOK
<1>2. x \in Ctxs /\ z \in Ctxs /\ y \in Ctxs
  BY <1>1, OpenGood, AccountGood, CloseGood DEF Ctxs
<1>3. /\ s.ok /\ y.ok /\ t.reserve = [s.reserve EXCEPT ![i] = y.r]
      /\ t.data = [s.data EXCEPT ![i] = y.d] /\ t.config = y.c
  BY DEF Step, After
<1>4. c0 \in Ctxs /\ c0.r = s.reserve[i] /\ c0.d = s.data[i] /\ c0.c = s.config
  BY <1>1 DEF Ctxs, Contexts, Context
<1> HIDE DEF t, y
<1>5. Works(z, y, limits[i], i) /\ z.ok
  BY <1>1, <1>2, <1>3, CloseWorks DEF y
<1> HIDE DEF z
<1>6. Works(x, z, limits[i], i) /\ x.ok
  BY <1>1, <1>2, <1>5, AccountWorks DEF z
<1> HIDE DEF x
<1>7. Works(c0, x, limits[i], i)
  BY <1>1, <1>6, OpenWorks DEF x
<1> HIDE DEF c0
<1>8. Works(c0, y, limits[i], i)
  BY <1>2, <1>4, <1>5, <1>6, <1>7, WorksTransitive
<1>9. ASSUME NEW j \in Assets
      PROVE  MovedFrom(a, j, t.reserve[j], t.data[j], t.config)
  <2>1. reserve[j] \in ReserveState /\ s.reserve[j] \in ReserveState /\ s.data[j] \in PositionState
    BY <1>1 DEF TypeOK
  <2>2. t.reserve[j] \in ReserveState
    BY <1>1, <1>2, <1>3 DEF Ctxs, Contexts
  <2>3. Moved(s.reserve[j], s.data[j], s.config, t.reserve[j], t.data[j], t.config, limits[j], j)
    <3>1. CASE j = i
      BY <1>1, <1>3, <1>4, <1>8, <3>1 DEF Works
    <3>2. CASE j # i
      <4>1. t.reserve[j] = s.reserve[j] /\ t.data[j] = s.data[j]
        BY <1>1, <1>3, <3>2
      <4>2. Beside(s.config, t.config, i)
        BY <1>3, <1>4, <1>8 DEF Works
      <4>3. QED
        BY <2>1, <3>2, <4>1, <4>2, Stays, Waits DEF Beside
    <3>3. QED
      BY <3>1, <3>2
  <2>4. MovedFrom(a, j, s.reserve[j], s.data[j], s.config)
    BY <1>3 DEF SessionMoved
  <2>5. QED
    BY <2>1, <2>2, <2>3, <2>4, MovedTransitive DEF MovedFrom
<1>10. QED
  BY <1>9 DEF SessionMoved, t

-----------------------------------------------------------------------------
(* Messages of one account *)

\* Every position is moved as the pool may move it.
Steady ==
  \A b \in Accounts : \A j \in Assets :
    MovedFrom(b, j, reserve'[j], data'[b][j], config'[b])

\* A position of a bystander: its reserve may go on.
LEMMA BystanderMoved ==
  ASSUME TypeOK, TypeOK', NEW b \in Accounts, NEW j \in Assets,
         Advances(reserve[j], reserve'[j]), reserve'[j].active = reserve[j].active,
         data'[b] = data[b], config'[b] = config[b]
  PROVE  MovedFrom(b, j, reserve'[j], data'[b][j], config'[b])
<1>1. reserve[j] \in ReserveState /\ reserve'[j] \in ReserveState /\ data[b][j] \in PositionState
  BY DEF TypeOK
<1>2. QED
  BY <1>1, Waits DEF MovedFrom

LEMMA SessionStarts ==
  ASSUME TypeOK, NEW a \in Accounts
  PROVE  SessionMoved(Session(a), a)
<1> SUFFICES ASSUME NEW j \in Assets
             PROVE  MovedFrom(a, j, reserve[j], data[a][j], config[a])
  BY DEF SessionMoved, Session
<1>1. reserve[j] \in ReserveState /\ data[a][j] \in PositionState
  BY DEF TypeOK
<1>2. QED
  BY <1>1, Stays, Waits DEF MovedFrom

LEMMA CommitSteady ==
  ASSUME TypeOK, TypeOK', NEW a \in Accounts, NEW s, SessionOK(s, a), SessionMoved(s, a),
         Commit(s, a)
  PROVE  Steady
<1>1. /\ reserve' = s.reserve /\ data' = [data EXCEPT ![a] = s.data]
      /\ config' = [config EXCEPT ![a] = s.config]
  BY DEF Commit
<1> SUFFICES ASSUME NEW b \in Accounts, NEW j \in Assets
             PROVE  MovedFrom(b, j, reserve'[j], data'[b][j], config'[b])
  BY DEF Steady
<1>2. MovedFrom(a, j, s.reserve[j], s.data[j], s.config)
  BY DEF SessionMoved
<1>3. CASE b = a
  BY <1>1, <1>2, <1>3 DEF TypeOK
<1>4. CASE b # a
  <2>1. data'[b] = data[b] /\ config'[b] = config[b]
    BY <1>1, <1>4 DEF TypeOK
  <2>2. Advances(reserve[j], reserve'[j]) /\ reserve'[j].active = reserve[j].active
    BY <1>1, <1>2 DEF MovedFrom, Moved
  <2>3. QED
    BY <2>1, <2>2, BystanderMoved
<1>5. QED
  BY <1>3, <1>4

LEMMA OperateSteady ==
  ASSUME TypeOK, TypeOK', NEW a \in Accounts, NEW act \in ActionState, Operate(a, act)
  PROVE  Steady
<1> DEFINE s == Step(Session(a), a, act)
<1>1. Commit(s, a) /\ s.ok
  BY DEF Operate, Commit
<1>2. SessionOK(s, a)
  BY SessionGood, StepGood
<1>3. SessionMoved(s, a)
  BY <1>1, SessionGood, SessionStarts, StepMoved
<1> HIDE DEF s
<1>4. QED
  BY <1>1, <1>2, <1>3, CommitSteady

LEMMA MultiOpSteady ==
  ASSUME TypeOK, TypeOK', NEW a \in Accounts, NEW acts \in ActionState \X ActionState,
         MultiOp(a, acts)
  PROVE  Steady
<1> DEFINE s1 == Step(Session(a), a, acts[1])
           s2 == Step(s1, a, acts[2])
<1>1. acts[1] \in ActionState /\ acts[2] \in ActionState
  OBVIOUS
<1>2. Commit(s2, a) /\ s2.ok
  BY DEF MultiOp, Commit
<1>3. SessionOK(s1, a) /\ (s1.ok => SessionMoved(s1, a))
  BY <1>1, SessionGood, StepGood, SessionStarts, StepMoved
<1> HIDE DEF s1
<1>4. SessionOK(s2, a) /\ SessionMoved(s2, a)
  BY <1>1, <1>2, <1>3, StepGood, StepMoved
<1> HIDE DEF s2
<1>5. QED
  BY <1>2, <1>4, CommitSteady

-----------------------------------------------------------------------------
(* Messages of two accounts *)

\* One asset of a session or of the first half of a liquidation.
LEMMA OneAssetMoved ==
  ASSUME TypeOK, NEW a \in Accounts, NEW i \in Assets, NEW y \in Ctxs,
         Works(Context(reserve[i], data[a][i], config[a]), y, limits[i], i), NEW j \in Assets
  PROVE  MovedFrom(a, j, [reserve EXCEPT ![i] = y.r][j], [data[a] EXCEPT ![i] = y.d][j], y.c)
<1>1. /\ reserve \in [Assets -> ReserveState] /\ data[a] \in [Assets -> PositionState]
      /\ reserve[j] \in ReserveState /\ data[a][j] \in PositionState
  BY DEF TypeOK
<1>2. /\ Moved(reserve[i], data[a][i], config[a], y.r, y.d, y.c, limits[i], i)
      /\ Beside(config[a], y.c, i)
  BY DEF Works, Context
<1>3. CASE j = i
  BY <1>1, <1>2, <1>3 DEF MovedFrom
<1>4. CASE j # i
  BY <1>1, <1>2, <1>4, Stays, Waits DEF MovedFrom, Beside
<1>5. QED
  BY <1>3, <1>4

\* Account f's position in asset i goes from its state in rs, ds, c to out;
\* from there on the same reserve, account t's goes to in.
Passes(f, t, i, rs, ds, c, out, in) ==
  /\ \A j \in Assets : MovedFrom(f, j, rs[j], ds[j], c)
  /\ Moved(rs[i], ds[i], c, out.r, out.d, out.c, limits[i], i)
  /\ Beside(c, out.c, i)
  /\ Moved(out.r, data[t][i], config[t], in.r, in.d, in.c, limits[i], i)
  /\ Beside(config[t], in.c, i)
  /\ reserve' = [rs EXCEPT ![i] = in.r]
  /\ data'[f] = [ds EXCEPT ![i] = out.d]
  /\ data'[t] = [data[t] EXCEPT ![i] = in.d]
  /\ config'[f] = out.c
  /\ config'[t] = in.c
  /\ \A b \in Accounts \ {f, t} : data'[b] = data[b] /\ config'[b] = config[b]

LEMMA TwoPartySteady ==
  ASSUME TypeOK, TypeOK', NEW f \in Accounts, NEW t \in Accounts, f # t, NEW i \in Assets,
         NEW rs \in [Assets -> ReserveState], NEW ds \in [Assets -> PositionState], NEW c,
         NEW out \in Ctxs, NEW in \in Ctxs, Passes(f, t, i, rs, ds, c, out, in)
  PROVE  Steady
<1>1. /\ \A j \in Assets : MovedFrom(f, j, rs[j], ds[j], c)
      /\ Moved(rs[i], ds[i], c, out.r, out.d, out.c, limits[i], i)
      /\ Beside(c, out.c, i)
      /\ Moved(out.r, data[t][i], config[t], in.r, in.d, in.c, limits[i], i)
      /\ Beside(config[t], in.c, i)
      /\ reserve' = [rs EXCEPT ![i] = in.r]
      /\ data'[f] = [ds EXCEPT ![i] = out.d] /\ data'[t] = [data[t] EXCEPT ![i] = in.d]
      /\ config'[f] = out.c /\ config'[t] = in.c
      /\ \A b \in Accounts \ {f, t} : data'[b] = data[b] /\ config'[b] = config[b]
  BY DEF Passes
<1> SUFFICES ASSUME NEW b \in Accounts, NEW j \in Assets
             PROVE  MovedFrom(b, j, reserve'[j], data'[b][j], config'[b])
  BY DEF Steady
<1>2. /\ reserve[j] \in ReserveState /\ reserve'[j] \in ReserveState /\ rs[j] \in ReserveState
      /\ rs[i] \in ReserveState /\ reserve[i] \in ReserveState
      /\ out.r \in ReserveState /\ in.r \in ReserveState
      /\ out.d \in PositionState /\ in.d \in PositionState /\ ds[j] \in PositionState
      /\ data[t] \in [Assets -> PositionState] /\ data[t][j] \in PositionState
      /\ data[t][i] \in PositionState
  BY DEF TypeOK, Ctxs, Contexts
<1>3. /\ reserve'[i] = in.r /\ data'[f][i] = out.d /\ data'[t][i] = in.d
      /\ j # i => reserve'[j] = rs[j] /\ data'[f][j] = ds[j] /\ data'[t][j] = data[t][j]
  BY <1>1, <1>2
<1>4. Advances(reserve[j], rs[j]) /\ rs[j].active = reserve[j].active
  BY <1>1 DEF MovedFrom, Moved
<1>5. /\ Advances(rs[i], out.r) /\ out.r.active = rs[i].active
      /\ Advances(out.r, in.r) /\ in.r.active = out.r.active
  BY <1>1 DEF Moved
<1>6. Advances(rs[j], reserve'[j]) /\ reserve'[j].active = rs[j].active
  <2>1. CASE j = i
    BY <1>2, <1>3, <1>5, <2>1, AdvancesTransitive
  <2>2. CASE j # i
    BY <1>2, <1>3, <2>2, Stays
  <2>3. QED
    BY <2>1, <2>2
<1>7. Advances(reserve[j], reserve'[j]) /\ reserve'[j].active = reserve[j].active
  BY <1>2, <1>4, <1>6, AdvancesTransitive
<1>8. CASE b = f
  <2>1. Moved(reserve[j], data[f][j], config[f], rs[j], ds[j], c, limits[j], j)
    BY <1>1 DEF MovedFrom
  <2>2. Moved(rs[j], ds[j], c, reserve'[j], data'[f][j], out.c, limits[j], j)
    <3>1. CASE j = i
      <4>1. Moved(out.r, out.d, out.c, in.r, out.d, out.c, limits[i], i)
        BY <1>2, <1>5, Waits
      <4>2. Moved(rs[i], ds[i], c, in.r, out.d, out.c, limits[i], i)
        BY <1>1, <1>2, <4>1, MovedTransitive
      <4>3. QED
        BY <1>3, <3>1, <4>2
    <3>2. CASE j # i
      <4>1. Moved(rs[j], ds[j], c, rs[j], ds[j], out.c, limits[j], j)
        BY <1>1, <1>2, <3>2, Stays, Waits DEF Beside
      <4>2. QED
        BY <1>3, <3>2, <4>1
    <3>3. QED
      BY <3>1, <3>2
  <2>3. Moved(reserve[j], data[f][j], config[f], reserve'[j], data'[f][j], out.c, limits[j], j)
    BY <1>2, <2>1, <2>2, MovedTransitive
  <2>4. QED
    BY <1>1, <1>8, <2>3 DEF MovedFrom
<1>9. CASE b = t
  <2>1. CASE j = i
    <3>1. Advances(reserve[i], out.r) /\ out.r.active = reserve[i].active
      BY <1>2, <1>4, <1>5, <2>1, AdvancesTransitive
    <3>2. Moved(reserve[i], data[t][i], config[t], out.r, data[t][i], config[t], limits[i], i)
      BY <1>2, <3>1, Waits
    <3>3. Moved(reserve[i], data[t][i], config[t], in.r, in.d, in.c, limits[i], i)
      BY <1>1, <1>2, <3>2, MovedTransitive
    <3>4. QED
      BY <1>1, <1>3, <1>9, <2>1, <3>3 DEF MovedFrom
  <2>2. CASE j # i
    <3>1. Moved(reserve[j], data[t][j], config[t], reserve'[j], data[t][j], in.c, limits[j], j)
      BY <1>1, <1>2, <1>7, <2>2, Waits DEF Beside
    <3>2. QED
      BY <1>1, <1>3, <1>9, <2>2, <3>1 DEF MovedFrom
  <2>3. QED
    BY <2>1, <2>2
<1>10. CASE b \notin {f, t}
  BY <1>1, <1>7, <1>10, BystanderMoved
<1>11. QED
  BY <1>8, <1>9, <1>10

\* The types of what is stored about account a and asset i.
LEMMA StoredTyped ==
  ASSUME TypeOK, NEW a \in Accounts, NEW i \in Assets
  PROVE  /\ config[a] \in ConfigState(Assets, RuleIds)
         /\ data[a] \in [Assets -> PositionState] /\ data[a][i] \in PositionState
         /\ reserve \in [Assets -> ReserveState] /\ reserve[i] \in ReserveState
         /\ now \in Nat /\ limits[i] \in LimitState /\ FeeReduction[a] \in CutState
         /\ price \in [Assets -> Nat] /\ vault[i] \in Int
<1>1. config[a] \in ConfigState(Assets, RuleIds)
  BY ConfigsTyped
<1>2. data[a] \in [Assets -> PositionState] /\ data[a][i] \in PositionState
  BY DEF TypeOK
<1>3. limits[i] \in LimitState /\ FeeReduction[a] \in CutState
  BY PoolAssumption DEF TypeOK
<1>4. /\ reserve \in [Assets -> ReserveState] /\ reserve[i] \in ReserveState
      /\ now \in Nat /\ price \in [Assets -> Nat] /\ vault[i] \in Int
  BY DEF TypeOK
<1>5. QED
  BY <1>1, <1>2, <1>3, <1>4

LEMMA TransferDepositSteady ==
  ASSUME TypeOK, TypeOK', NEW f \in Accounts, NEW t \in Accounts, f # t, NEW i \in Assets,
         i = NumAssets - 1, NEW n \in Nat, TransferDeposit(f, t, i, n)
  PROVE  Steady
<1> DEFINE c0  == Context(reserve[i], data[f][i], config[f])
           x   == Open(reserve[i], data[f][i], config[f])
           out == AccountForWithdraw(x, i, n, FALSE, FeeReduction[f], limits[i])
           mid == [out EXCEPT !.d = data[t][i], !.c = config[t]]
           acc == AccountForDeposit(mid, i, n, FeeReduction[t], limits[i])
           in  == Close(acc, i)
<1>1. /\ config[f] \in ConfigState(Assets, RuleIds) /\ config[t] \in ConfigState(Assets, RuleIds)
      /\ data[f] \in [Assets -> PositionState] /\ data[t] \in [Assets -> PositionState]
      /\ data[f][i] \in PositionState /\ data[t][i] \in PositionState
      /\ reserve \in [Assets -> ReserveState] /\ reserve[i] \in ReserveState
      /\ now \in Nat /\ n \in Int
      /\ limits[i] \in LimitState /\ FeeReduction[f] \in CutState /\ FeeReduction[t] \in CutState
  <2>1. /\ config[f] \in ConfigState(Assets, RuleIds)
        /\ data[f] \in [Assets -> PositionState] /\ data[f][i] \in PositionState
        /\ reserve \in [Assets -> ReserveState] /\ reserve[i] \in ReserveState
        /\ now \in Nat /\ limits[i] \in LimitState /\ FeeReduction[f] \in CutState
    BY StoredTyped, Zenon
  <2>2. /\ config[t] \in ConfigState(Assets, RuleIds)
        /\ data[t] \in [Assets -> PositionState] /\ data[t][i] \in PositionState
        /\ FeeReduction[t] \in CutState
    BY StoredTyped, Zenon
  <2>3. n \in Int
    OBVIOUS
  <2>4. QED
    BY <2>1, <2>2, <2>3, Zenon
<1>2. x \in Ctxs
  BY <1>1, OpenGood DEF Ctxs
<1>3. ASSUME NEW clamp
      PROVE  LET w == AccountForWithdraw(x, i, n, clamp, FeeReduction[f], limits[i])
             IN  /\ w \in Ctxs
                 /\ w.ok => Works(x, w, limits[i], i) /\ x.ok
  BY <1>1, <1>2, AccountForWithdrawGood, AccountForWithdrawWorks DEF Ctxs
<1>4. out \in Ctxs /\ (out.ok => Works(x, out, limits[i], i) /\ x.ok)
  BY <1>3, Zenon
<1>5. /\ in.ok /\ reserve' = [reserve EXCEPT ![i] = in.r]
      /\ data' = [data EXCEPT ![t] = Inserted(data[t], i, in.d), ![f] = [data[f] EXCEPT ![i] = out.d]]
      /\ config' = [config EXCEPT ![f] = out.c, ![t] = in.c]
  BY DEF TransferDeposit, PassDeposit, DepositOut, DepositIn
<1> HIDE DEF out
<1>6. mid \in Ctxs /\ mid.ok = out.ok /\ mid.r = out.r /\ mid.d = data[t][i] /\ mid.c = config[t]
  BY <1>1, <1>4 DEF Ctxs, Contexts
<1> HIDE DEF mid
<1>7. acc \in Ctxs
  BY <1>1, <1>6, AccountForDepositGood DEF Ctxs
<1>8. in \in Ctxs
  BY <1>7, CloseGood DEF Ctxs
<1> HIDE DEF in
<1>9. Works(acc, in, limits[i], i) /\ acc.ok
  BY <1>5, <1>7, CloseWorks DEF in
<1>10. Works(mid, acc, limits[i], i) /\ mid.ok
  BY <1>1, <1>6, <1>9, AccountForDepositWorks
<1> HIDE DEF acc, x
<1>11. Works(mid, in, limits[i], i)
  BY <1>6, <1>7, <1>8, <1>9, <1>10, WorksTransitive
<1>12. Works(c0, x, limits[i], i)
  BY <1>1, <1>4, <1>6, <1>10, OpenWorks DEF x
<1>13. c0 \in Ctxs /\ c0.r = reserve[i] /\ c0.d = data[f][i] /\ c0.c = config[f]
  BY <1>1 DEF Ctxs, Contexts, Context
<1> HIDE DEF c0
<1>14. Works(c0, out, limits[i], i)
  BY <1>2, <1>4, <1>6, <1>10, <1>12, <1>13, WorksTransitive
<1>15. out.d \in PositionState /\ in.d \in PositionState
  BY <1>4, <1>8 DEF Ctxs, Contexts
<1>16. /\ data'[f] = [data[f] EXCEPT ![i] = out.d] /\ data'[t] = [data[t] EXCEPT ![i] = in.d]
       /\ config'[f] = out.c /\ config'[t] = in.c
       /\ \A b \in Accounts \ {f, t} : data'[b] = data[b] /\ config'[b] = config[b]
  <2>1. Inserted(data[t], i, in.d) = [data[t] EXCEPT ![i] = in.d]
    BY <1>1, <1>15, InsertedTyped
  <2>2. DOMAIN data = Accounts /\ DOMAIN config = Accounts
    BY DEF TypeOK
  <2>3. QED
    BY <1>5, <2>1, <2>2
<1>17. \A j \in Assets : MovedFrom(f, j, reserve[j], data[f][j], config[f])
  BY SessionStarts DEF SessionMoved, Session
<1>18. /\ Moved(reserve[i], data[f][i], config[f], out.r, out.d, out.c, limits[i], i)
       /\ Beside(config[f], out.c, i)
       /\ Moved(out.r, data[t][i], config[t], in.r, in.d, in.c, limits[i], i)
       /\ Beside(config[t], in.c, i)
  BY <1>6, <1>11, <1>13, <1>14 DEF Works
<1>19. QED
  <2>1. /\ reserve \in [Assets -> ReserveState] /\ data[f] \in [Assets -> PositionState]
        /\ out \in Ctxs /\ in \in Ctxs
    BY <1>1, <1>4, <1>8
  <2>2. Passes(f, t, i, reserve, data[f], config[f], out, in)
    BY <1>5, <1>16, <1>17, <1>18 DEF Passes
  <2>3. QED
    BY <2>1, <2>2, TwoPartySteady

LEMMA TransferDebtSteady ==
  ASSUME TypeOK, TypeOK', NEW f \in Accounts, NEW t \in Accounts, f # t, NEW i \in Assets,
         i = NumAssets - 1, NEW n \in Nat, TransferDebt(f, t, i, n)
  PROVE  Steady
<1> DEFINE c0  == Context(reserve[i], data[f][i], config[f])
           x   == Open(reserve[i], data[f][i], config[f])
           out == AccountForRepay(x, i, n, FALSE, FeeReduction[f], limits[i])
           mid == [out EXCEPT !.d = data[t][i], !.c = config[t]]
           acc == AccountForBorrow(mid, i, n, FeeReduction[t], limits[i])
           in  == Close(acc, i)
<1>1. /\ config[f] \in ConfigState(Assets, RuleIds) /\ config[t] \in ConfigState(Assets, RuleIds)
      /\ data[f] \in [Assets -> PositionState] /\ data[t] \in [Assets -> PositionState]
      /\ data[f][i] \in PositionState /\ data[t][i] \in PositionState
      /\ reserve \in [Assets -> ReserveState] /\ reserve[i] \in ReserveState
      /\ now \in Nat /\ n \in Int
      /\ limits[i] \in LimitState /\ FeeReduction[f] \in CutState /\ FeeReduction[t] \in CutState
  <2>1. /\ config[f] \in ConfigState(Assets, RuleIds)
        /\ data[f] \in [Assets -> PositionState] /\ data[f][i] \in PositionState
        /\ reserve \in [Assets -> ReserveState] /\ reserve[i] \in ReserveState
        /\ now \in Nat /\ limits[i] \in LimitState /\ FeeReduction[f] \in CutState
    BY StoredTyped, Zenon
  <2>2. /\ config[t] \in ConfigState(Assets, RuleIds)
        /\ data[t] \in [Assets -> PositionState] /\ data[t][i] \in PositionState
        /\ FeeReduction[t] \in CutState
    BY StoredTyped, Zenon
  <2>3. n \in Int
    OBVIOUS
  <2>4. QED
    BY <2>1, <2>2, <2>3, Zenon
<1>2. x \in Ctxs
  BY <1>1, OpenGood DEF Ctxs
<1>3. ASSUME NEW clamp
      PROVE  LET w == AccountForRepay(x, i, n, clamp, FeeReduction[f], limits[i])
             IN  /\ w \in Ctxs
                 /\ w.ok => Works(x, w, limits[i], i) /\ x.ok
  BY <1>1, <1>2, AccountForRepayGood, AccountForRepayWorks DEF Ctxs
<1>4. out \in Ctxs /\ (out.ok => Works(x, out, limits[i], i) /\ x.ok)
  BY <1>3, Zenon
<1>5. /\ in.ok /\ reserve' = [reserve EXCEPT ![i] = in.r]
      /\ data' = [data EXCEPT ![f] = Inserted(data[f], i, out.d), ![t] = [data[t] EXCEPT ![i] = in.d]]
      /\ config' = [config EXCEPT ![t] = in.c, ![f] = out.c]
  BY DEF TransferDebt, PassDebt, DebtOut, DebtIn
<1> HIDE DEF out
<1>6. mid \in Ctxs /\ mid.ok = out.ok /\ mid.r = out.r /\ mid.d = data[t][i] /\ mid.c = config[t]
  BY <1>1, <1>4 DEF Ctxs, Contexts
<1> HIDE DEF mid
<1>7. acc \in Ctxs
  BY <1>1, <1>6, AccountForBorrowGood DEF Ctxs
<1>8. in \in Ctxs
  BY <1>7, CloseGood DEF Ctxs
<1> HIDE DEF in
<1>9. Works(acc, in, limits[i], i) /\ acc.ok
  BY <1>5, <1>7, CloseWorks DEF in
<1>10. Works(mid, acc, limits[i], i) /\ mid.ok
  BY <1>1, <1>6, <1>9, AccountForBorrowWorks
<1> HIDE DEF acc, x
<1>11. Works(mid, in, limits[i], i)
  BY <1>6, <1>7, <1>8, <1>9, <1>10, WorksTransitive
<1>12. Works(c0, x, limits[i], i)
  BY <1>1, <1>4, <1>6, <1>10, OpenWorks DEF x
<1>13. c0 \in Ctxs /\ c0.r = reserve[i] /\ c0.d = data[f][i] /\ c0.c = config[f]
  BY <1>1 DEF Ctxs, Contexts, Context
<1> HIDE DEF c0
<1>14. Works(c0, out, limits[i], i)
  BY <1>2, <1>4, <1>6, <1>10, <1>12, <1>13, WorksTransitive
<1>15. out.d \in PositionState /\ in.d \in PositionState
  BY <1>4, <1>8 DEF Ctxs, Contexts
<1>16. /\ data'[f] = [data[f] EXCEPT ![i] = out.d] /\ data'[t] = [data[t] EXCEPT ![i] = in.d]
       /\ config'[f] = out.c /\ config'[t] = in.c
       /\ \A b \in Accounts \ {f, t} : data'[b] = data[b] /\ config'[b] = config[b]
  <2>1. Inserted(data[f], i, out.d) = [data[f] EXCEPT ![i] = out.d]
    BY <1>1, <1>15, InsertedTyped
  <2>2. DOMAIN data = Accounts /\ DOMAIN config = Accounts
    BY DEF TypeOK
  <2>3. QED
    BY <1>5, <2>1, <2>2
<1>17. \A j \in Assets : MovedFrom(f, j, reserve[j], data[f][j], config[f])
  BY SessionStarts DEF SessionMoved, Session
<1>18. /\ Moved(reserve[i], data[f][i], config[f], out.r, out.d, out.c, limits[i], i)
       /\ Beside(config[f], out.c, i)
       /\ Moved(out.r, data[t][i], config[t], in.r, in.d, in.c, limits[i], i)
       /\ Beside(config[t], in.c, i)
  BY <1>6, <1>11, <1>13, <1>14 DEF Works
<1>19. QED
  <2>1. /\ reserve \in [Assets -> ReserveState] /\ data[f] \in [Assets -> PositionState]
        /\ out \in Ctxs /\ in \in Ctxs
    BY <1>1, <1>4, <1>8
  <2>2. Passes(f, t, i, reserve, data[f], config[f], out, in)
    BY <1>5, <1>16, <1>17, <1>18 DEF Passes
  <2>3. QED
    BY <2>1, <2>2, TwoPartySteady

\* The clamps let only natural numbers through.
LEMMA AmountsAreNatural ==
  ASSUME NEW x \in Ctxs, NEW n \in Nat, NEW clamp, NEW cut
  PROVE  WithdrawnAmount(x, n, clamp, cut) \in Nat /\ RepaidAmount(x, n, clamp, cut) \in Nat
<1>1. Accumulate(x, cut) \in Ctxs
  BY AccumulateGood DEF Ctxs
<1>2. Accumulate(x, cut).d.deposit \in Nat /\ Accumulate(x, cut).d.debt \in Nat
  BY <1>1, PositionNumbers DEF Ctxs, Contexts
<1>3. QED
  BY <1>2 DEF WithdrawnAmount, RepaidAmount, Least

LEMMA LiquidateSteady ==
  ASSUME TypeOK, TypeOK', NEW l \in Accounts, NEW a \in Accounts, l # a,
         NEW rp \in Assets, NEW tk \in Assets, NEW n \in Nat, Liquidate(l, a, rp, tk, n)
  PROVE  Steady
<1> DEFINE cut    == FeeReduction[a]
           c0     == Context(reserve[rp], data[a][rp], config[a])
           x      == Open(reserve[rp], data[a][rp], config[a])
           paid   == RepaidAmount(x, n, TRUE, cut)
           acc    == AccountForRepay(x, rp, n, TRUE, cut, limits[rp])
           repaid == Close(acc, rp)
           rs     == [reserve EXCEPT ![rp] = repaid.r]
           ds     == [data[a] EXCEPT ![rp] = repaid.d]
           wanted == AmountToTake(paid, rp, tk, price, RuleOf(config[a]))
           c1     == Context(rs[tk], ds[tk], repaid.c)
           y      == Open(rs[tk], ds[tk], repaid.c)
           taken  == WithdrawnAmount(y, wanted, TRUE, cut)
           out    == AccountForWithdraw(y, tk, wanted, TRUE, cut, limits[tk])
           mid    == [out EXCEPT !.d = data[l][tk], !.c = config[l]]
           dep    == AccountForDeposit(mid, tk, taken, FeeReduction[l], limits[tk])
           in     == Close(dep, tk)
<1>1. /\ config[a] \in ConfigState(Assets, RuleIds) /\ config[l] \in ConfigState(Assets, RuleIds)
      /\ data[a] \in [Assets -> PositionState] /\ data[l] \in [Assets -> PositionState]
      /\ data[a][rp] \in PositionState /\ data[l][tk] \in PositionState
      /\ reserve[rp] \in ReserveState /\ now \in Nat /\ n \in Int
      /\ reserve \in [Assets -> ReserveState] /\ price \in [Assets -> Nat]
  <2>1. /\ config[a] \in ConfigState(Assets, RuleIds)
        /\ data[a] \in [Assets -> PositionState] /\ data[a][rp] \in PositionState
        /\ reserve \in [Assets -> ReserveState] /\ reserve[rp] \in ReserveState
        /\ now \in Nat /\ price \in [Assets -> Nat]
    BY StoredTyped, Zenon
  <2>2. /\ config[l] \in ConfigState(Assets, RuleIds)
        /\ data[l] \in [Assets -> PositionState] /\ data[l][tk] \in PositionState
    BY StoredTyped, Zenon
  <2>3. n \in Int
    OBVIOUS
  <2>4. QED
    BY <2>1, <2>2, <2>3, Zenon
<1>2. /\ limits[rp] \in LimitState /\ limits[tk] \in LimitState
      /\ cut \in CutState /\ FeeReduction[l] \in CutState
  BY PoolAssumption DEF TypeOK
<1>3. RuleOf(config[a]) \in MarketRule
  <2>1. rules \in Seq(MarketRule) /\ config[a].rule < Len(rules)
    BY DEF TypeOK
  <2>2. config[a].rule \in Nat
    BY <1>1 DEF RuleIds, ConfigState
  <2>3. QED
    BY <2>1, <2>2 DEF RuleOf
<1>4. x \in Ctxs
  BY <1>1, OpenGood DEF Ctxs
<1>5. ASSUME NEW clamp
      PROVE  LET w == AccountForRepay(x, rp, n, clamp, cut, limits[rp])
             IN  /\ w \in Ctxs /\ RepaidAmount(x, n, clamp, cut) \in Nat
                 /\ w.ok => Works(x, w, limits[rp], rp) /\ x.ok
  BY <1>1, <1>2, <1>4, AccountForRepayGood, AccountForRepayWorks, AmountsAreNatural DEF Ctxs
<1>6. acc \in Ctxs /\ paid \in Nat /\ (acc.ok => Works(x, acc, limits[rp], rp) /\ x.ok)
  BY <1>5, Zenon
<1>7. /\ repaid.ok /\ in.ok
      /\ CanPriceTake(rp, tk, price, RuleOf(config[a]))
      /\ reserve' = [rs EXCEPT ![tk] = in.r]
      /\ data' = [data EXCEPT ![a] = [ds EXCEPT ![tk] = out.d],
                              ![l] = [data[l] EXCEPT ![tk] = in.d]]
      /\ config' = [config EXCEPT ![a] = out.c, ![l] = in.c]
  BY DEF Liquidate, AccountForLiquidate, Seize
<1> HIDE DEF paid, acc
<1>8. wanted \in Nat
  BY <1>1, <1>3, <1>6, <1>7, AmountToTakeTyped
<1>9. repaid \in Ctxs
  BY <1>6, CloseGood DEF Ctxs
<1> HIDE DEF repaid, wanted
<1>10. Works(acc, repaid, limits[rp], rp) /\ acc.ok
  BY <1>6, <1>7, CloseWorks DEF repaid
<1> HIDE DEF x
<1>11. Works(c0, x, limits[rp], rp)
  BY <1>1, <1>6, <1>10, OpenWorks DEF x
<1>12. c0 \in Ctxs
  BY <1>1 DEF Ctxs, Contexts, Context
<1> HIDE DEF c0
<1>13. Works(c0, repaid, limits[rp], rp)
  BY <1>4, <1>6, <1>9, <1>10, <1>11, <1>12, WorksTransitive
<1>14. \A j \in Assets : MovedFrom(a, j, rs[j], ds[j], repaid.c)
  BY <1>9, <1>13, OneAssetMoved DEF c0
<1>15. repaid.r \in ReserveState /\ repaid.d \in PositionState /\ repaid.c \in ConfigState(Assets, RuleIds)
  BY <1>9 DEF Ctxs, Contexts
<1>16. /\ rs \in [Assets -> ReserveState] /\ ds \in [Assets -> PositionState]
       /\ rs[tk] \in ReserveState /\ ds[tk] \in PositionState
  BY <1>1, <1>15
<1> HIDE DEF rs, ds
<1>17. y \in Ctxs
  BY <1>1, <1>15, <1>16, OpenGood DEF Ctxs
<1>18. ASSUME NEW clamp
       PROVE  LET w == AccountForWithdraw(y, tk, wanted, clamp, cut, limits[tk])
              IN  /\ w \in Ctxs /\ WithdrawnAmount(y, wanted, clamp, cut) \in Nat
                  /\ w.ok => Works(y, w, limits[tk], tk) /\ y.ok
  <2>1. wanted \in Int
    BY <1>8
  <2>2. QED
    BY <1>2, <1>8, <1>17, <2>1, AccountForWithdrawGood, AccountForWithdrawWorks, AmountsAreNatural
       DEF Ctxs
<1>19. out \in Ctxs /\ taken \in Nat /\ (out.ok => Works(y, out, limits[tk], tk) /\ y.ok)
  BY <1>18, Zenon
<1> HIDE DEF out, taken
<1>20. mid \in Ctxs /\ mid.ok = out.ok /\ mid.r = out.r /\ mid.d = data[l][tk] /\ mid.c = config[l]
  BY <1>1, <1>19 DEF Ctxs, Contexts
<1> HIDE DEF mid
<1>21. dep \in Ctxs
  <2>1. taken \in Int
    BY <1>19
  <2>2. QED
    BY <1>20, <2>1, AccountForDepositGood DEF Ctxs
<1>22. in \in Ctxs
  BY <1>21, CloseGood DEF Ctxs
<1> HIDE DEF in
<1>23. Works(dep, in, limits[tk], tk) /\ dep.ok
  BY <1>7, <1>21, CloseWorks DEF in
<1>24. Works(mid, dep, limits[tk], tk) /\ mid.ok
  BY <1>2, <1>19, <1>20, <1>23, AccountForDepositWorks
<1> HIDE DEF dep, y
<1>25. Works(mid, in, limits[tk], tk)
  BY <1>20, <1>21, <1>22, <1>23, <1>24, WorksTransitive
<1>26. Works(c1, y, limits[tk], tk)
  BY <1>1, <1>15, <1>16, <1>19, <1>20, <1>24, OpenWorks DEF y
<1>27. c1 \in Ctxs /\ c1.r = rs[tk] /\ c1.d = ds[tk] /\ c1.c = repaid.c
  BY <1>15, <1>16 DEF Ctxs, Contexts, Context
<1> HIDE DEF c1
<1>28. Works(c1, out, limits[tk], tk)
  BY <1>17, <1>19, <1>20, <1>24, <1>26, <1>27, WorksTransitive
<1>29. /\ data'[a] = [ds EXCEPT ![tk] = out.d] /\ data'[l] = [data[l] EXCEPT ![tk] = in.d]
       /\ config'[a] = out.c /\ config'[l] = in.c
       /\ \A b \in Accounts \ {a, l} : data'[b] = data[b] /\ config'[b] = config[b]
  <2>1. DOMAIN data = Accounts /\ DOMAIN config = Accounts
    BY DEF TypeOK
  <2>2. QED
    BY <1>7, <2>1
<1>30. Passes(a, l, tk, rs, ds, repaid.c, out, in)
  <2>1. /\ Moved(rs[tk], ds[tk], repaid.c, out.r, out.d, out.c, limits[tk], tk)
        /\ Beside(repaid.c, out.c, tk)
        /\ Moved(out.r, data[l][tk], config[l], in.r, in.d, in.c, limits[tk], tk)
        /\ Beside(config[l], in.c, tk)
    BY <1>20, <1>25, <1>27, <1>28 DEF Works
  <2>2. QED
    BY <1>7, <1>14, <1>29, <2>1 DEF Passes
<1>31. QED
  BY <1>16, <1>19, <1>22, <1>30, TwoPartySteady

-----------------------------------------------------------------------------
(* The account's own settings, and everything that touches no position *)

LEMMA SetAsCollateralSteady ==
  ASSUME TypeOK, TypeOK', NEW a \in Accounts, NEW i \in Assets, NEW on,
         SetAsCollateral(a, i, on)
  PROVE  Steady
<1> SUFFICES ASSUME NEW b \in Accounts, NEW j \in Assets
             PROVE  MovedFrom(b, j, reserve'[j], data'[b][j], config'[b])
  BY DEF Steady
<1> DEFINE backing == IF on THEN config[a].collaterals \cup {i} ELSE config[a].collaterals \ {i}
<1>1. /\ config' = [config EXCEPT ![a].collaterals = backing]
      /\ data' = data /\ reserve' = reserve
      /\ on => DepositCanBack(data[a][i], limits[i])
  BY DEF SetAsCollateral
<1>2. reserve[j] \in ReserveState /\ data[b][j] \in PositionState /\ Advances(reserve[j], reserve[j])
  BY Stays DEF TypeOK
<1>3. CASE b # a
  BY <1>1, <1>2, <1>3, BystanderMoved DEF TypeOK
<1>4. CASE b = a
  <2>1. /\ config'[a].deposits = config[a].deposits /\ config'[a].borrows = config[a].borrows
        /\ config'[a].collaterals = backing
    BY <1>1 DEF TypeOK, ConfigState
  <2>2. j \in backing => j \in config[a].collaterals \/ (on /\ j = i)
    OBVIOUS
  <2> HIDE DEF backing
  <2>3. SoundAt(reserve[j], data[a][j], config[a], j) => SoundAt(reserve[j], data[a][j], config'[a], j)
    BY <2>1 DEF SoundAt
  <2>4. MinimalAt(data[a][j], config[a], limits[j], j) => MinimalAt(data[a][j], config'[a], limits[j], j)
    BY <1>1, <2>1, <2>2 DEF MinimalAt
  <2>5. FilledAt(data[a][j], config[a], limits[j], j) => FilledAt(data[a][j], config'[a], limits[j], j)
    BY <1>1, <1>2, <1>4, <2>1, <2>2, PositionNumbers DEF FilledAt, DepositCanBack, TypeOK, LimitState
  <2>6. QED
    BY <1>1, <1>2, <1>4, <2>3, <2>4, <2>5 DEF MovedFrom, Moved
<1>5. QED
  BY <1>3, <1>4

LEMMA ChooseMarketRuleSteady ==
  ASSUME TypeOK, TypeOK', NEW a \in Accounts, NEW k, ChooseMarketRule(a, k)
  PROVE  Steady
<1> SUFFICES ASSUME NEW b \in Accounts, NEW j \in Assets
             PROVE  MovedFrom(b, j, reserve'[j], data'[b][j], config'[b])
  BY DEF Steady
<1>1. config' = [config EXCEPT ![a].rule = k] /\ data' = data /\ reserve' = reserve
  BY DEF ChooseMarketRule
<1>2. reserve[j] \in ReserveState /\ data[b][j] \in PositionState /\ Advances(reserve[j], reserve[j])
  BY Stays DEF TypeOK
<1>3. /\ config'[b].deposits = config[b].deposits /\ config'[b].borrows = config[b].borrows
      /\ config'[b].collaterals = config[b].collaterals
  BY <1>1 DEF TypeOK, ConfigState
<1>4. QED
  BY <1>1, <1>2, <1>3, Waits DEF MovedFrom

\* Nobody's position or bitmaps change.
Settled ==
  /\ UNCHANGED <<data, config>>
  /\ \A j \in Assets : Advances(reserve[j], reserve'[j])

\* No reserve is opened or closed to all actions.
Activity == \A j \in Assets : reserve'[j].active = reserve[j].active

\* One reserve goes on or is set otherwise.
LEMMA OneReserveSettled ==
  ASSUME TypeOK, NEW i \in Assets, NEW r, reserve' = [reserve EXCEPT ![i] = r],
         Advances(reserve[i], r), UNCHANGED <<data, config>>
  PROVE  Settled
<1>1. \A j \in Assets : reserve[j] \in ReserveState /\ (j # i => reserve'[j] = reserve[j])
  BY DEF TypeOK
<1>2. reserve'[i] = r
  BY DEF TypeOK
<1>3. QED
  BY <1>1, <1>2, Stays DEF Settled

LEMMA RefreshedSettled ==
  ASSUME TypeOK, NEW i \in Assets, NEW m, CanUpdate(reserve[i], now),
         CanRerate(Updated(reserve[i], now), m),
         reserve' = [reserve EXCEPT ![i] = Rerated(Updated(reserve[i], now), m)],
         UNCHANGED <<data, config>>
  PROVE  Settled /\ Activity
<1> DEFINE r == Updated(reserve[i], now)
<1>1. reserve[i] \in ReserveState /\ now \in Nat
  BY DEF TypeOK
<1>2. r \in ReserveState /\ Advances(reserve[i], r)
  BY <1>1, UpdatedGood, UpdatedAdvances
<1>3. r.active = reserve[i].active
  BY <1>1 DEF Updated, ReserveState
<1> HIDE DEF r
<1>4. Rerated(r, m) \in ReserveState /\ Advances(r, Rerated(r, m))
  BY <1>2, ReratedGood, RatesAdvance DEF r
<1>5. Rerated(r, m).active = r.active
  BY <1>2 DEF Rerated, ReserveState
<1>6. Advances(reserve[i], Rerated(r, m))
  BY <1>1, <1>2, <1>4, AdvancesTransitive
<1>7. Settled
  BY <1>6, OneReserveSettled DEF r
<1>8. Activity
  BY <1>3, <1>5 DEF Activity, TypeOK, r
<1>9. QED
  BY <1>7, <1>8

LEMMA SetReserveSettled ==
  ASSUME TypeOK, NEW i \in Assets, NEW on, NEW fees, NEW rate,
         \/ SetReserveIsActive(i, on)
         \/ SetReserveIsFrozen(i, on)
         \/ SetReserveFees(i, fees)
         \/ SetStablecoinDebtRate(i, rate)
  PROVE  Settled
<1> DEFINE r1 == [reserve[i] EXCEPT !.active = on]
           r2 == [reserve[i] EXCEPT !.depositFee = fees.deposit, !.debtFee = fees.debt, !.earnedFee = 0]
           r3 == [reserve[i] EXCEPT !.debtRate = rate]
<1>1. reserve[i] \in ReserveState
  BY DEF TypeOK
<1>2. \A r \in {r1, r2, r3} : r.depositIndex = reserve[i].depositIndex /\ r.debtIndex = reserve[i].debtIndex
  BY <1>1 DEF ReserveState
<1>3. ASSUME NEW r \in {r1, r2, r3} PROVE Advances(reserve[i], r)
  <2> HIDE DEF r1, r2, r3
  <2>1. r.depositIndex = reserve[i].depositIndex /\ r.debtIndex = reserve[i].debtIndex
    BY <1>2
  <2>2. QED
    BY <1>1, <2>1, ReserveNumbers DEF Advances
<1>4. (\E r \in {r1, r2, r3} : reserve' = [reserve EXCEPT ![i] = r]) /\ UNCHANGED <<data, config>>
  BY DEF TypeOK, SetReserveIsActive, SetReserveIsFrozen, SetReserveFees, SetStablecoinDebtRate
<1> HIDE DEF r1, r2, r3
<1>5. QED
  BY <1>3, <1>4, OneReserveSettled

\* The reserves stay as they are, or lose the fee they have earned.
LEMMA ReservesKeptSettled ==
  ASSUME TypeOK, UNCHANGED <<data, config>>,
         \A j \in Assets : reserve'[j] \in {reserve[j], EarnedFeeTaken(reserve[j])}
  PROVE  Settled
<1> SUFFICES ASSUME NEW j \in Assets PROVE Advances(reserve[j], reserve'[j])
  BY DEF Settled
<1>1. reserve[j] \in ReserveState
  BY DEF TypeOK
<1>2. /\ EarnedFeeTaken(reserve[j]).depositIndex = reserve[j].depositIndex
      /\ EarnedFeeTaken(reserve[j]).debtIndex = reserve[j].debtIndex
  BY <1>1 DEF EarnedFeeTaken, ReserveState
<1>3. QED
  BY <1>1, <1>2, ReserveNumbers DEF Advances

-----------------------------------------------------------------------------
(* Every step *)

LEMMA ClientPositions ==
  ASSUME SafeRequests, TypeOK, TypeOK', ClientNext
  PROVE  (Steady \/ (Settled /\ Activity)) /\ limits' = limits
<1>1. ASSUME NEW q \in Requests, Operate(q[1], q[2])
      PROVE  Steady /\ limits' = limits
  <2>1. q[1] \in Accounts /\ q[2] \in ActionState
    BY RequestAssumption
  <2>2. Steady
    BY <1>1, <2>1, OperateSteady
  <2>3. QED
    BY <1>1, <2>2 DEF Operate, Commit, setup
<1>2. ASSUME NEW q \in MultiRequests, MultiOp(q[1], q[2])
      PROVE  Steady /\ limits' = limits
  <2>1. q[1] \in Accounts /\ q[2] \in ActionState \X ActionState
    BY RequestAssumption
  <2>2. Steady
    BY <1>2, <2>1, MultiOpSteady
  <2>3. QED
    BY <1>2, <2>2 DEF MultiOp, Commit, setup
<1>3. ASSUME NEW q \in DepositTransfers, TransferDeposit(q[1], q[2], q[3], q[4])
      PROVE  Steady /\ limits' = limits
  <2>1. /\ q[1] \in Accounts /\ q[2] \in Accounts /\ q[3] \in Assets /\ q[4] \in Nat
        /\ q[1] # q[2] /\ q[3] = NumAssets - 1
    BY RequestAssumption DEF SafeRequests
  <2>2. Steady
    BY <1>3, <2>1, TransferDepositSteady
  <2>3. QED
    BY <1>3, <2>2 DEF TransferDeposit, setup
<1>4. ASSUME NEW q \in DebtTransfers, TransferDebt(q[1], q[2], q[3], q[4])
      PROVE  Steady /\ limits' = limits
  <2>1. /\ q[1] \in Accounts /\ q[2] \in Accounts /\ q[3] \in Assets /\ q[4] \in Nat
        /\ q[1] # q[2] /\ q[3] = NumAssets - 1
    BY RequestAssumption DEF SafeRequests
  <2>2. Steady
    BY <1>4, <2>1, TransferDebtSteady
  <2>3. QED
    BY <1>4, <2>2 DEF TransferDebt, setup
<1>5. ASSUME NEW q \in Liquidations, Liquidate(q[1], q[2], q[3], q[4], q[5])
      PROVE  Steady /\ limits' = limits
  <2>1. /\ q[1] \in Accounts /\ q[2] \in Accounts /\ q[3] \in Assets /\ q[4] \in Assets
        /\ q[5] \in Nat /\ q[1] # q[2]
    BY RequestAssumption DEF SafeRequests
  <2>2. Steady
    BY <1>5, <2>1, LiquidateSteady
  <2>3. QED
    BY <1>5, <2>2 DEF Liquidate, setup
<1>6. ASSUME NEW q \in CollateralSwitches, SetAsCollateral(q[1], q[2], q[3])
      PROVE  Steady /\ limits' = limits
  <2>1. q[1] \in Accounts /\ q[2] \in Assets
    BY RequestAssumption
  <2>2. Steady
    BY <1>6, <2>1, SetAsCollateralSteady
  <2>3. QED
    BY <1>6, <2>2 DEF SetAsCollateral, setup
<1>7. ASSUME NEW q \in RuleChoices, ChooseMarketRule(q[1], q[2])
      PROVE  Steady /\ limits' = limits
  <2>1. q[1] \in Accounts
    BY RequestAssumption
  <2>2. Steady
    BY <1>7, <2>1, ChooseMarketRuleSteady
  <2>3. QED
    BY <1>7, <2>2 DEF ChooseMarketRule, setup
<1>8. ASSUME NEW i \in Assets, AccumulateInterest(i)
      PROVE  Settled /\ Activity /\ limits' = limits
  BY <1>8, RefreshedSettled DEF AccumulateInterest, setup
<1>9. ASSUME NEW q \in Adjustments, AdjustRateAtTarget(q[1], q[2])
      PROVE  Settled /\ Activity /\ limits' = limits
  BY <1>9, ReservesKeptSettled DEF AdjustRateAtTarget, book, Activity
<1>10. QED
  BY <1>1, <1>2, <1>3, <1>4, <1>5, <1>6, <1>7, <1>8, <1>9 DEF ClientNext

LEMMA AdminPositions ==
  ASSUME TypeOK, AdminNext
  PROVE  Settled /\ (limits' = limits \/ \E q \in Admin.limits : SetReserveRestrictions(q[1], q[2]))
<1>1. ASSUME NEW q \in Admin.active, SetReserveIsActive(q[1], q[2]) PROVE Settled /\ limits' = limits
  BY <1>1, AdminAssumption, SetReserveSettled DEF SetReserveIsActive, setup
<1>2. ASSUME NEW q \in Admin.frozen, SetReserveIsFrozen(q[1], q[2]) PROVE Settled /\ limits' = limits
  BY <1>2, AdminAssumption, SetReserveSettled DEF SetReserveIsFrozen, setup
<1>3. ASSUME NEW q \in Admin.limits, SetReserveRestrictions(q[1], q[2]) PROVE Settled
  BY <1>3, ReservesKeptSettled DEF SetReserveRestrictions, book
<1>4. ASSUME NEW q \in Admin.model, SetInterestRateModel(q[1], q[2]) PROVE Settled /\ limits' = limits
  BY <1>4, AdminAssumption, RefreshedSettled DEF SetInterestRateModel
<1>5. ASSUME NEW q \in Admin.fees, SetReserveFees(q[1], q[2]) PROVE Settled /\ limits' = limits
  BY <1>5, AdminAssumption, SetReserveSettled DEF SetReserveFees, setup
<1>6. ASSUME NEW q \in Admin.stableRate, SetStablecoinDebtRate(q[1], q[2]) PROVE Settled /\ limits' = limits
  BY <1>6, AdminAssumption, SetReserveSettled DEF SetStablecoinDebtRate, setup
<1>7. ASSUME NEW rule \in Admin.newRule, AddMarketRule(rule) PROVE Settled /\ limits' = limits
  BY <1>7, ReservesKeptSettled DEF AddMarketRule, book
<1>8. ASSUME NEW q \in Admin.assetRule, ModifyAssetRule(q[1], q[2], q[3]) PROVE Settled /\ limits' = limits
  BY <1>8, ReservesKeptSettled DEF ModifyAssetRule, book
<1>9. ASSUME NEW assets \in Admin.income, TakeProtocolIncome(assets) PROVE Settled /\ limits' = limits
  BY <1>9, ReservesKeptSettled DEF TakeProtocolIncome, setup
<1>10. QED
  BY <1>1, <1>2, <1>3, <1>4, <1>5, <1>6, <1>7, <1>8, <1>9 DEF AdminNext

LEMMA PositionStep ==
  ASSUME SafeRequests, TypeOK, [Next]_vars
  PROVE  /\ TypeOK' /\ (Steady \/ Settled)
         /\ limits' = limits \/ \E q \in Admin.limits : SetReserveRestrictions(q[1], q[2])
<1>1. TypeOK'
  BY NextGood
<1>2. CASE ClientNext
  BY <1>1, <1>2, ClientPositions
<1>3. CASE AdminNext
  BY <1>1, <1>3, AdminPositions
<1>4. CASE WorldNext \/ UNCHANGED vars
  <2>1. UNCHANGED <<reserve, data, config, limits>>
    BY <1>4 DEF WorldNext, Tick, ChangePrice, vars, book, setup
  <2>2. QED
    BY <1>1, <2>1, ReservesKeptSettled
<1>5. QED
  BY <1>2, <1>3, <1>4 DEF Next

-----------------------------------------------------------------------------
(* The theorems *)

\* The inductive invariant: every position is sound.
AllSound ==
  \A b \in Accounts : \A j \in Assets : SoundAt(reserve[j], data[b][j], config[b], j)

AllMinimal ==
  \A b \in Accounts : \A j \in Assets : MinimalAt(data[b][j], config[b], limits[j], j)

\* Nobody sets the minimal collateral of an asset to zero: with a minimum of
\* zero, account_reserve_data.rs:72 leaves an emptied deposit a collateral.
PositiveMinimums ==
  /\ \A i \in Assets : InitialLimits[i].minCollateral > 0
  /\ \A q \in Admin.limits : q[2].minCollateral > 0

\* With such minimums an asset that is a collateral is a deposit.
AllFilled ==
  \A j \in Assets :
    /\ limits[j].minCollateral > 0
    /\ \A b \in Accounts : j \in config[b].collaterals => data[b][j].deposit > 0

LEMMA InitPositions ==
  ASSUME Init
  PROVE  AllSound /\ AllMinimal /\ (PositiveMinimums => AllFilled)
<1>1. ASSUME NEW b \in Accounts, NEW j \in Assets
      PROVE  /\ data[b][j] = NoPosition /\ config[b].collaterals = {}
             /\ config[b].borrows = {}
             /\ reserve[j].depositIndex = E18 /\ reserve[j].debtIndex = E18
  BY DEF Init, NewReserve
<1>2. E18 \in Nat \ {0}
  BY ScaleAssumption
<1>3. AllSound /\ AllMinimal
  BY <1>1, <1>2 DEF AllSound, AllMinimal, SoundAt, MinimalAt, NoPosition, DebtLargeEnough
<1>4. PositiveMinimums => AllFilled
  BY <1>1 DEF PositiveMinimums, AllFilled, Init
<1>5. QED
  BY <1>3, <1>4

LEMMA SoundStep ==
  ASSUME SafeRequests, TypeOK, AllSound, [Next]_vars
  PROVE  TypeOK' /\ AllSound'
<1>1. TypeOK' /\ (Steady \/ Settled)
  BY PositionStep
<1>2. ASSUME NEW b \in Accounts, NEW j \in Assets
      PROVE  SoundAt(reserve'[j], data'[b][j], config'[b], j)
  <2>1. SoundAt(reserve[j], data[b][j], config[b], j)
    BY DEF AllSound
  <2>2. CASE Steady
    BY <2>1, <2>2 DEF Steady, MovedFrom, Moved
  <2>3. CASE Settled
    <3>1. reserve[j] \in ReserveState /\ reserve'[j] \in ReserveState /\ data[b][j] \in PositionState
      BY <1>1 DEF TypeOK
    <3>2. QED
      BY <2>1, <2>3, <3>1, ReserveNumbers, PositionNumbers DEF Settled, SoundAt, Advances
  <2>4. QED
    BY <1>1, <2>2, <2>3
<1>3. QED
  BY <1>1, <1>2 DEF AllSound

LEMMA MinimalStep ==
  ASSUME SafeRequests, Admin.limits = {}, TypeOK, AllMinimal, [Next]_vars
  PROVE  TypeOK' /\ AllMinimal'
<1>1. TypeOK' /\ (Steady \/ Settled) /\ limits' = limits
  BY PositionStep
<1>2. ASSUME NEW b \in Accounts, NEW j \in Assets
      PROVE  MinimalAt(data'[b][j], config'[b], limits'[j], j)
  <2>1. MinimalAt(data[b][j], config[b], limits[j], j)
    BY DEF AllMinimal
  <2>2. QED
    BY <1>1, <2>1 DEF Steady, MovedFrom, Moved, Settled
<1>3. QED
  BY <1>1, <1>2 DEF AllMinimal

LEMMA FilledStep ==
  ASSUME SafeRequests, PositiveMinimums, TypeOK, AllFilled, [Next]_vars
  PROVE  TypeOK' /\ AllFilled'
<1>1. /\ TypeOK' /\ (Steady \/ Settled)
      /\ limits' = limits \/ \E q \in Admin.limits : SetReserveRestrictions(q[1], q[2])
  BY PositionStep
<1>2. \A j \in Assets : limits'[j].minCollateral > 0
  BY <1>1 DEF SetReserveRestrictions, PositiveMinimums, AllFilled, TypeOK
<1>3. ASSUME NEW b \in Accounts, NEW j \in Assets, j \in config'[b].collaterals
      PROVE  data'[b][j].deposit > 0
  <2>1. FilledAt(data[b][j], config[b], limits[j], j) /\ limits[j].minCollateral > 0
    BY DEF AllFilled, FilledAt
  <2>2. CASE Steady
    <3>1. FilledAt(data'[b][j], config'[b], limits[j], j)
      BY <2>1, <2>2 DEF Steady, MovedFrom, Moved
    <3>2. QED
      BY <1>3, <2>1, <3>1 DEF FilledAt
  <2>3. CASE Settled
    BY <1>3, <2>3 DEF Settled, AllFilled
  <2>4. QED
    BY <1>1, <2>2, <2>3
<1>4. QED
  BY <1>1, <1>2, <1>3 DEF AllFilled

\* The bitmaps that the collateralization check reads in place of the balances
\* miss no deposit and no debt, for any number of accounts and assets and
\* whatever the admins do, as long as the requests are safe.
THEOREM BitmapsComplete ==
  ASSUME SafeRequests
  PROVE  Spec => []BitmapsCover
<1>1. Init => TypeOK /\ AllSound
  BY InitGood, InitPositions
<1>2. TypeOK /\ AllSound /\ [Next]_vars => (TypeOK /\ AllSound)'
  BY SoundStep
<1>3. AllSound => BitmapsCover
  BY DEF AllSound, BitmapsCover, SoundAt
<1>4. QED
  BY <1>1, <1>2, <1>3, PTL DEF Spec

\* A position's indexes never run ahead of its reserve's, so that its next
\* accumulation skips no interest.
THEOREM IndexesFollowed ==
  ASSUME SafeRequests
  PROVE  Spec => []PositionsFollowIndexes
<1>1. Init => TypeOK /\ AllSound
  BY InitGood, InitPositions
<1>2. TypeOK /\ AllSound /\ [Next]_vars => (TypeOK /\ AllSound)'
  BY SoundStep
<1>3. AllSound => PositionsFollowIndexes
  BY DEF AllSound, PositionsFollowIndexes, SoundAt
<1>4. QED
  BY <1>1, <1>2, <1>3, PTL DEF Spec

\* No message leaves a collateral below the minimal collateral or a debt below
\* the minimal debt (reserve_restrictions.rs:17 and 21), while the
\* restrictions stay as they were set at first.
THEOREM MinimumsHold ==
  ASSUME SafeRequests, Admin.limits = {}
  PROVE  Spec => []MinimumsKept
<1>1. Init => TypeOK /\ AllMinimal
  BY InitGood, InitPositions
<1>2. TypeOK /\ AllMinimal /\ [Next]_vars => (TypeOK /\ AllMinimal)'
  BY MinimalStep
<1>3. AllMinimal => MinimumsKept
  BY DEF AllMinimal, MinimumsKept, MinimalAt
<1>4. QED
  BY <1>1, <1>2, <1>3, PTL DEF Spec

\* No message, whatever combination of reserves it works on, changes anybody's
\* position in a reserve that is inactive.
THEOREM InactiveStaysClosed ==
  ASSUME SafeRequests
  PROVE  Spec => InactiveIsClosed
<1>1. TypeOK /\ [Next]_vars =>
        [\A i \in Assets : ~reserve[i].active =>
           \A a \in Accounts : data'[a][i] = data[a][i]]_vars
  <2> SUFFICES ASSUME TypeOK, [Next]_vars, NEW i \in Assets, ~reserve[i].active, NEW a \in Accounts
               PROVE  data'[a][i] = data[a][i]
    OBVIOUS
  <2>1. Steady \/ Settled
    BY PositionStep
  <2>2. QED
    BY <2>1 DEF Steady, Settled, MovedFrom, Moved
<1>2. QED
  BY <1>1, TypeCorrect, PTL DEF Spec, InactiveIsClosed
=============================================================================
