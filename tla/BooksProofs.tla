------------------------------ MODULE BooksProofs ------------------------------
(***************************************************************************)
(* Double entry bookkeeping, for every instance of the lending pool: what  *)
(* a message transfers, deposits, owes and books as a fee cancels out, and *)
(* every account it works on is brought the amounts of the message and the *)
(* interest due to it, and gains no bit it did not ask for.                *)
(***************************************************************************)
EXTENDS PositionProofs

\* What borrowers owe beyond the deposits and the fees.
Margin(r) == r.totalDebt - r.totalDeposit - r.earnedFee

LEMMA MarginNumbers ==
  ASSUME NEW r \in ReserveState
  PROVE  r.totalDebt \in Nat /\ r.totalDeposit \in Nat /\ r.earnedFee \in Nat /\ Margin(r) \in Int
BY ScaleAssumption DEF ReserveState, U128, Margin

\* Interest is never negative.
LEMMA Ratio ==
  ASSUME NEW n \in Nat, NEW x \in Nat, NEW e \in Nat \ {0}, e < x
  PROVE  MulDivDown(n, x, e) - n \in Nat /\ MulDivUp(n, x, e) - n \in Nat
<1> DEFINE p == n * x
           k == x - e
<1>1. k \in Nat /\ x = e + k
  OBVIOUS
<1>2. n * e \in Nat /\ n * k \in Nat /\ n * (e + k) = n * e + n * k
  BY <1>1
<1>3. p \in Nat /\ n * e <= p
  BY <1>1, <1>2
<1> HIDE DEF p
<1>4. n <= p \div e /\ p \div e \in Nat
  BY <1>3, Quotient
<1>5. QED
  BY <1>4 DEF MulDivDown, MulDivUp, p

LEMMA GrowthNatural ==
  ASSUME NEW r, r.depositIndex \in Nat, r.debtIndex \in Nat, NEW d \in PositionState
  PROVE  DepositGrowth(r, d) \in Nat /\ DebtGrowth(r, d) \in Nat
<1>1. /\ d.deposit \in Nat /\ d.debt \in Nat
      /\ d.depositIndex \in Nat /\ d.debtIndex \in Nat
  BY PositionNumbers
<1>2. DepositGrowth(r, d) \in Nat
  BY <1>1, Ratio DEF DepositGrowth
<1>3. DebtGrowth(r, d) \in Nat
  BY <1>1, Ratio DEF DebtGrowth
<1>4. QED
  BY <1>2, <1>3

LEMMA FeeNatural ==
  ASSUME NEW n \in Nat, NEW fee \in Nat, NEW reduction \in 0 .. E6
  PROVE  FeeOn(n, fee, reduction) \in Nat
<1>1. E6 \in Nat \ {0} /\ E6 - reduction \in Nat
  BY ScaleAssumption
<1>2. ASSUME NEW a \in Nat, NEW b \in Nat PROVE MulDivUp(a, b, E6) \in Nat
  <2> DEFINE q == a * b
  <2>1. q \in Nat
    OBVIOUS
  <2>2. MulDivUp(a, b, E6) = (q \div E6) + (IF q % E6 = 0 THEN 0 ELSE 1)
    BY <1>1 DEF MulDivUp
  <2> HIDE DEF q
  <2>3. (q \div E6) + (IF q % E6 = 0 THEN 0 ELSE 1) \in Nat
    BY <1>1, <2>1
  <2>4. QED
    BY <2>2, <2>3
<1>3. MulDivUp(n, fee, E6) \in Nat
  BY <1>2
<1>4. QED
  BY <1>1, <1>2, <1>3 DEF FeeOn

-----------------------------------------------------------------------------
(* What a message takes from a position and adds to it, beside interest *)

\* Two reserves that give a position the same interest.
Alike(r0, r1) ==
  /\ r1.depositIndex = r0.depositIndex /\ r1.debtIndex = r0.debtIndex
  /\ r1.depositFee = r0.depositFee /\ r1.debtFee = r0.debtFee
  /\ r1.updated = r0.updated

\* From d in the reserve r to e: its interest, and besides dn on the deposit
\* and bn on the debt.  Interest does not come without new indexes.
Nets(r, d, e, cut, dn, bn) ==
  /\ DepositInterest(r, d, cut) \in Int /\ DebtInterest(r, d, cut) \in Int
  /\ e.deposit = d.deposit + DepositInterest(r, d, cut) + dn
  /\ e.debt = d.debt + DebtInterest(r, d, cut) + bn
  /\ e.depositIndex = d.depositIndex /\ e.debtIndex = d.debtIndex =>
       DepositInterest(r, d, cut) = 0 /\ DebtInterest(r, d, cut) = 0

\* The fees on a position's interest.
FeesOf(r, d, cut) == DepositFeeOf(r, d, cut) + DebtFeeOf(r, d, cut)

\* The same of two contexts of one asset; the fees on the interest are booked.
Brings(x, y, cut, dn, bn) ==
  /\ Nets(x.r, x.d, y.d, cut, dn, bn)
  /\ y.r.earnedFee = x.r.earnedFee + FeesOf(x.r, x.d, cut)
  /\ Alike(x.r, y.r) /\ UpToDate(y.r, y.d)

LEMMA NothingDue ==
  ASSUME NEW r \in ReserveState, NEW d \in PositionState, NEW cut \in CutState, UpToDate(r, d)
  PROVE  /\ DepositGrowth(r, d) = 0 /\ DebtGrowth(r, d) = 0
         /\ DepositInterest(r, d, cut) = 0 /\ DebtInterest(r, d, cut) = 0
         /\ FeesOf(r, d, cut) = 0
<1>1. DepositGrowth(r, d) = 0 /\ DebtGrowth(r, d) = 0
  BY ReserveNumbers, PositionNumbers DEF UpToDate, DepositGrowth, DebtGrowth
<1>2. r.depositFee \in Nat /\ r.debtFee \in Nat /\ cut.deposit \in 0 .. E6 /\ cut.debt \in 0 .. E6
  BY DEF ReserveState, CutState
<1>3. FeeOn(0, r.depositFee, cut.deposit) = 0 /\ FeeOn(0, r.debtFee, cut.debt) = 0
  BY <1>2, NoFeeOnNothing
<1>4. QED
  BY <1>1, <1>3 DEF DepositInterest, DebtInterest, DepositFeeOf, DebtFeeOf, FeesOf

LEMMA FeesNatural ==
  ASSUME NEW r \in ReserveState, NEW d \in PositionState, NEW cut \in CutState
  PROVE  DepositFeeOf(r, d, cut) \in Nat /\ DebtFeeOf(r, d, cut) \in Nat
<1>1. DepositGrowth(r, d) \in Nat /\ DebtGrowth(r, d) \in Nat
  BY ReserveNumbers, GrowthNatural
<1>2. /\ r.depositFee \in Nat /\ r.debtFee \in Nat
      /\ cut.deposit \in 0 .. E6 /\ cut.debt \in 0 .. E6
  BY DEF ReserveState, CutState
<1>3. QED
  BY <1>1, <1>2, FeeNatural DEF DepositFeeOf, DebtFeeOf

LEMMA AccumulateBrings ==
  ASSUME NEW x \in Ctxs, NEW cut \in CutState, Accumulate(x, cut).ok
  PROVE  Brings(x, Accumulate(x, cut), cut, 0, 0)
<1> DEFINE di == DepositInterest(x.r, x.d, cut)
           bi == DebtInterest(x.r, x.d, cut)
           y == [x EXCEPT
                  !.d = [deposit |-> x.d.deposit + di, debt |-> x.d.debt + bi,
                         depositIndex |-> x.r.depositIndex, debtIndex |-> x.r.debtIndex],
                  !.r.totalDeposit = @ + di, !.r.totalDebt = @ + bi,
                  !.r.earnedFee = @ + DepositFeeOf(x.r, x.d, cut) + DebtFeeOf(x.r, x.d, cut)]
           guard == /\ CanAccrue(x.r, x.d, cut)
                    /\ y.r.totalDeposit \in U128 /\ y.r.totalDebt \in U128
<1>1. x.r \in ReserveState /\ x.d \in PositionState
  BY DEF Ctxs, Contexts
<1>2. /\ x.r.depositIndex \in Nat /\ x.r.debtIndex \in Nat
      /\ x.d.deposit \in Nat /\ x.d.debt \in Nat /\ x.r.earnedFee \in Nat
  BY <1>1, ReserveNumbers, PositionNumbers, MarginNumbers
<1>3. CASE UpToDate(x.r, x.d)
  <2>1. Accumulate(x, cut) = x
    BY <1>3 DEF Accumulate
  <2>2. di = 0 /\ bi = 0 /\ FeesOf(x.r, x.d, cut) = 0
    BY <1>1, <1>3, NothingDue
  <2>3. QED
    BY <1>2, <1>3, <2>1, <2>2 DEF Brings, Nets, Alike
<1>4. CASE ~UpToDate(x.r, x.d)
  <2>1. Accumulate(x, cut) = Try(x, guard, y)
    BY <1>4, AccumulateTries
  <2>2. guard /\ Accumulate(x, cut) = y
    <3> HIDE DEF guard, y
    <3>1. QED
      BY <2>1, TrySucceeded DEF Ctxs
  <2>3. di \in Int /\ bi \in Int
    BY <1>4, <2>2, AccrueFits, ScaleAssumption DEF U128
  <2> HIDE DEF guard, di, bi
  <2>4. y.d = [deposit |-> x.d.deposit + di, debt |-> x.d.debt + bi,
               depositIndex |-> x.r.depositIndex, debtIndex |-> x.r.debtIndex]
    BY DEF Ctxs, Contexts
  <2>5. /\ Alike(x.r, y.r)
        /\ y.r.earnedFee = x.r.earnedFee + DepositFeeOf(x.r, x.d, cut) + DebtFeeOf(x.r, x.d, cut)
    BY <1>1 DEF Ctxs, Contexts, ReserveState, Alike
  <2> HIDE DEF y
  <2>6. /\ y.d.deposit = x.d.deposit + di /\ y.d.debt = x.d.debt + bi
        /\ y.d.depositIndex = x.r.depositIndex /\ y.d.debtIndex = x.r.debtIndex
    BY <2>4
  <2>7. UpToDate(y.r, y.d)
    BY <1>2, <2>5, <2>6 DEF UpToDate, Alike
  <2>8. ~(y.d.depositIndex = x.d.depositIndex /\ y.d.debtIndex = x.d.debtIndex)
    BY <1>2, <1>4, <2>6 DEF UpToDate
  <2>9. x.d.deposit + di + 0 = x.d.deposit + di /\ x.d.debt + bi + 0 = x.d.debt + bi
    BY <1>2, <2>3
  <2>10. y.r.earnedFee = x.r.earnedFee + FeesOf(x.r, x.d, cut)
    BY <1>1, <1>2, <2>5, FeesNatural DEF FeesOf
  <2>11. QED
    BY <2>2, <2>3, <2>5, <2>6, <2>7, <2>8, <2>9, <2>10 DEF Brings, Nets, di, bi
<1>5. QED
  BY <1>3, <1>4

\* After the interest a balance moves.
LEMMA BalanceBrings ==
  ASSUME NEW x \in Ctxs, NEW z \in Ctxs, NEW y \in Ctxs, NEW cut, NEW dn \in Int, NEW bn \in Int,
         Brings(x, z, cut, 0, 0), Alike(z.r, y.r), y.r.earnedFee = z.r.earnedFee,
         y.d.deposit = z.d.deposit + dn, y.d.debt = z.d.debt + bn,
         y.d.depositIndex = z.d.depositIndex, y.d.debtIndex = z.d.debtIndex
  PROVE  Brings(x, y, cut, dn, bn)
<1> DEFINE di == DepositInterest(x.r, x.d, cut)
           bi == DebtInterest(x.r, x.d, cut)
<1>1. x.d.deposit \in Int /\ x.d.debt \in Int
  BY PositionNumbers DEF Ctxs, Contexts
<1>2. /\ di \in Int /\ bi \in Int
      /\ z.d.deposit = x.d.deposit + di + 0 /\ z.d.debt = x.d.debt + bi + 0
      /\ (z.d.depositIndex = x.d.depositIndex /\ z.d.debtIndex = x.d.debtIndex) =>
            (di = 0 /\ bi = 0)
      /\ Alike(x.r, z.r) /\ UpToDate(z.r, z.d)
  BY DEF Brings, Nets
<1> HIDE DEF di, bi
<1>3. y.d.deposit = x.d.deposit + di + dn /\ y.d.debt = x.d.debt + bi + bn
  BY <1>1, <1>2
<1>4. /\ Alike(x.r, y.r) /\ UpToDate(y.r, y.d)
      /\ y.r.earnedFee = x.r.earnedFee + FeesOf(x.r, x.d, cut)
  BY <1>2 DEF Brings, Alike, UpToDate
<1>5. QED
  BY <1>2, <1>3, <1>4 DEF Brings, Nets, di, bi

LEMMA DepositBrings ==
  ASSUME NEW x \in Ctxs, NEW i \in Assets, NEW n \in Nat, NEW cut \in CutState,
         NEW lim, AccountForDeposit(x, i, n, cut, lim).ok
  PROVE  Brings(x, AccountForDeposit(x, i, n, cut, lim), cut, n, 0)
<1> DEFINE z == Accumulate(x, cut)
           y == [z EXCEPT !.c.deposits = @ \cup {i}, !.d.deposit = @ + n, !.r.totalDeposit = @ + n]
           w == IncreaseDeposit(z, i, n)
           g == z.d.deposit + n \in U128 /\ z.r.totalDeposit + n \in U128
           h == x.r.active /\ ~x.r.frozen /\ DepositLimitKept(w, lim)
<1>1. z \in Ctxs /\ w \in Ctxs
  BY AccumulateGood, IncreaseDepositGood DEF Ctxs
<1>2. AccountForDeposit(x, i, n, cut, lim) = Try(w, h, w) /\ w = Try(z, g, y)
  BY DEF AccountForDeposit, IncreaseDeposit
<1>3. y.d.deposit = z.d.deposit + n /\ y.d.debt = z.d.debt
  BY <1>1 DEF Ctxs, Contexts, PositionState
<1>4. y.d.depositIndex = z.d.depositIndex /\ y.d.debtIndex = z.d.debtIndex
  BY <1>1 DEF Ctxs, Contexts, PositionState
<1>5. Alike(z.r, y.r) /\ y.r.earnedFee = z.r.earnedFee
  BY <1>1 DEF Ctxs, Contexts, ReserveState, Alike
<1> HIDE DEF y, w, g, h
<1>6. w.ok /\ AccountForDeposit(x, i, n, cut, lim) = w
  BY <1>1, <1>2, TrySucceeded DEF Ctxs
<1>7. z.ok /\ w = y
  BY <1>1, <1>2, <1>6, TrySucceeded DEF Ctxs
<1>8. Brings(x, z, cut, 0, 0)
  BY <1>7, AccumulateBrings
<1>9. z.d.debt \in Nat
  BY <1>1, PositionNumbers DEF Ctxs, Contexts
<1> HIDE DEF z
<1>10. y.d.debt = z.d.debt + 0
  BY <1>3, <1>9
<1>11. QED
  BY <1>1, <1>3, <1>4, <1>5, <1>6, <1>7, <1>8, <1>10, BalanceBrings

LEMMA BorrowBrings ==
  ASSUME NEW x \in Ctxs, NEW i \in Assets, NEW n \in Nat, NEW cut \in CutState,
         NEW lim, AccountForBorrow(x, i, n, cut, lim).ok
  PROVE  Brings(x, AccountForBorrow(x, i, n, cut, lim), cut, 0, n)
<1> DEFINE z == Accumulate(x, cut)
           y == [z EXCEPT !.c.borrows = @ \cup {i}, !.d.debt = @ + n, !.r.totalDebt = @ + n]
           w == IncreaseDebt(z, i, n)
           g == z.d.debt + n \in U128 /\ z.r.totalDebt + n \in U128
           h == /\ x.r.active /\ ~x.r.frozen
                /\ DebtLargeEnough(w.d, lim) /\ DebtLimitKept(w, lim)
<1>1. z \in Ctxs /\ w \in Ctxs
  BY AccumulateGood, IncreaseDebtGood DEF Ctxs
<1>2. AccountForBorrow(x, i, n, cut, lim) = Try(w, h, w) /\ w = Try(z, g, y)
  BY DEF AccountForBorrow, IncreaseDebt
<1>3. y.d.debt = z.d.debt + n /\ y.d.deposit = z.d.deposit
  BY <1>1 DEF Ctxs, Contexts, PositionState
<1>4. y.d.depositIndex = z.d.depositIndex /\ y.d.debtIndex = z.d.debtIndex
  BY <1>1 DEF Ctxs, Contexts, PositionState
<1>5. Alike(z.r, y.r) /\ y.r.earnedFee = z.r.earnedFee
  BY <1>1 DEF Ctxs, Contexts, ReserveState, Alike
<1> HIDE DEF y, w, g, h
<1>6. w.ok /\ AccountForBorrow(x, i, n, cut, lim) = w
  BY <1>1, <1>2, TrySucceeded DEF Ctxs
<1>7. z.ok /\ w = y
  BY <1>1, <1>2, <1>6, TrySucceeded DEF Ctxs
<1>8. Brings(x, z, cut, 0, 0)
  BY <1>7, AccumulateBrings
<1>9. z.d.deposit \in Nat
  BY <1>1, PositionNumbers DEF Ctxs, Contexts
<1> HIDE DEF z
<1>10. y.d.deposit = z.d.deposit + 0
  BY <1>3, <1>9
<1>11. QED
  BY <1>1, <1>3, <1>4, <1>5, <1>6, <1>7, <1>8, <1>10, BalanceBrings

LEMMA RepayBrings ==
  ASSUME NEW x \in Ctxs, NEW i \in Assets, NEW n \in Nat, NEW clamp, NEW cut \in CutState,
         NEW lim, AccountForRepay(x, i, n, clamp, cut, lim).ok
  PROVE  Brings(x, AccountForRepay(x, i, n, clamp, cut, lim), cut,
                0, -RepaidAmount(x, n, clamp, cut))
<1> DEFINE z == Accumulate(x, cut)
           m == RepaidAmount(x, n, clamp, cut)
           bits == IF m = z.d.debt THEN z.c.borrows \ {i} ELSE z.c.borrows
           y == [z EXCEPT !.c.borrows = bits, !.d.debt = @ - m, !.r.totalDebt = @ - m]
           w == DecreaseDebt(z, i, m)
           g == z.d.debt - m \in U128 /\ z.r.totalDebt - m \in U128
           h == x.r.active /\ z.d.debt # 0 /\ DebtLargeEnough(w.d, lim)
<1>1. z \in Ctxs /\ m \in Int /\ w \in Ctxs
  BY AccumulateGood, AmountsAreNumbers, DecreaseDebtGood DEF Ctxs
<1>2. AccountForRepay(x, i, n, clamp, cut, lim) = Try(w, h, w) /\ w = Try(z, g, y)
  BY DEF AccountForRepay, DecreaseDebt
<1> HIDE DEF m
<1>3. y.d.debt = z.d.debt - m /\ y.d.deposit = z.d.deposit
  BY <1>1 DEF Ctxs, Contexts, PositionState
<1>4. y.d.depositIndex = z.d.depositIndex /\ y.d.debtIndex = z.d.debtIndex
  BY <1>1 DEF Ctxs, Contexts, PositionState
<1>5. Alike(z.r, y.r) /\ y.r.earnedFee = z.r.earnedFee
  BY <1>1 DEF Ctxs, Contexts, ReserveState, Alike
<1> HIDE DEF y, w, g, h
<1>6. w.ok /\ AccountForRepay(x, i, n, clamp, cut, lim) = w
  BY <1>1, <1>2, TrySucceeded DEF Ctxs
<1>7. z.ok /\ w = y
  BY <1>1, <1>2, <1>6, TrySucceeded DEF Ctxs
<1>8. Brings(x, z, cut, 0, 0)
  BY <1>7, AccumulateBrings
<1>9. z.d.debt \in Nat /\ z.d.deposit \in Nat
  BY <1>1, PositionNumbers DEF Ctxs, Contexts
<1> HIDE DEF z
<1>10. y.d.debt = z.d.debt + (-m) /\ y.d.deposit = z.d.deposit + 0 /\ -m \in Int
  BY <1>1, <1>3, <1>9
<1>11. Brings(x, y, cut, 0, -m)
  BY <1>1, <1>4, <1>5, <1>7, <1>8, <1>10, BalanceBrings
<1>12. QED
  BY <1>6, <1>7, <1>11 DEF m

LEMMA WithdrawBrings ==
  ASSUME NEW x \in Ctxs, NEW i \in Assets, NEW n \in Nat, NEW clamp, NEW cut \in CutState,
         NEW lim, AccountForWithdraw(x, i, n, clamp, cut, lim).ok
  PROVE  Brings(x, AccountForWithdraw(x, i, n, clamp, cut, lim), cut,
                -WithdrawnAmount(x, n, clamp, cut), 0)
<1> DEFINE z == Accumulate(x, cut)
           m == WithdrawnAmount(x, n, clamp, cut)
           bits == IF m = z.d.deposit THEN z.c.deposits \ {i} ELSE z.c.deposits
           backing == IF z.d.deposit - m < lim.minCollateral
                      THEN z.c.collaterals \ {i} ELSE z.c.collaterals
           y == [z EXCEPT !.c.deposits = bits, !.c.collaterals = backing,
                          !.d.deposit = @ - m, !.r.totalDeposit = @ - m]
           w == DecreaseDeposit(z, i, m, lim)
           g == z.d.deposit - m \in U128 /\ z.r.totalDeposit - m \in U128
           h == x.r.active /\ x.d.deposit # 0
<1>1. z \in Ctxs /\ m \in Int /\ w \in Ctxs
  BY AccumulateGood, AmountsAreNumbers, DecreaseDepositGood DEF Ctxs
<1>2. AccountForWithdraw(x, i, n, clamp, cut, lim) = Try(w, h, w) /\ w = Try(z, g, y)
  BY DEF AccountForWithdraw, DecreaseDeposit
<1> HIDE DEF m
<1>3. y.d.deposit = z.d.deposit - m /\ y.d.debt = z.d.debt
  BY <1>1 DEF Ctxs, Contexts, PositionState
<1>4. y.d.depositIndex = z.d.depositIndex /\ y.d.debtIndex = z.d.debtIndex
  BY <1>1 DEF Ctxs, Contexts, PositionState
<1>5. Alike(z.r, y.r) /\ y.r.earnedFee = z.r.earnedFee
  BY <1>1 DEF Ctxs, Contexts, ReserveState, Alike
<1> HIDE DEF y, w, g, h
<1>6. w.ok /\ AccountForWithdraw(x, i, n, clamp, cut, lim) = w
  BY <1>1, <1>2, TrySucceeded DEF Ctxs
<1>7. z.ok /\ w = y
  BY <1>1, <1>2, <1>6, TrySucceeded DEF Ctxs
<1>8. Brings(x, z, cut, 0, 0)
  BY <1>7, AccumulateBrings
<1>9. z.d.debt \in Nat /\ z.d.deposit \in Nat
  BY <1>1, PositionNumbers DEF Ctxs, Contexts
<1> HIDE DEF z
<1>10. y.d.deposit = z.d.deposit + (-m) /\ y.d.debt = z.d.debt + 0 /\ -m \in Int
  BY <1>1, <1>3, <1>9
<1>11. Brings(x, y, cut, -m, 0)
  BY <1>1, <1>4, <1>5, <1>7, <1>8, <1>10, BalanceBrings
<1>12. QED
  BY <1>6, <1>7, <1>11 DEF m

\* Opening makes the reserve the one interest is counted by; closing changes
\* rates only.
LEMMA OpenSucceeded ==
  ASSUME now \in Nat, NEW r \in ReserveState, NEW d \in PositionState,
         NEW c \in ConfigState(Assets, RuleIds), Open(r, d, c).ok
  PROVE  /\ Open(r, d, c) = Context(Updated(r, now), d, c)
         /\ Updated(r, now).updated = now
<1> DEFINE x == Context(r, d, c)
           y == Context(Updated(r, now), d, c)
<1>1. x \in Ctxs
  BY DEF Context, Ctxs, Contexts
<1>2. Open(r, d, c) = Try(x, CanUpdate(r, now), y)
  BY DEF Open
<1> HIDE DEF x, y
<1>3. Open(r, d, c) = y
  BY <1>1, <1>2, TrySucceeded DEF Ctxs
<1>4. Updated(r, now).updated = now
  BY DEF Updated, ReserveState
<1>5. QED
  BY <1>3, <1>4 DEF y

LEMMA CloseBrings ==
  ASSUME NEW x \in Ctxs, NEW i \in Assets, Close(x, i).ok
  PROVE  /\ x.ok /\ Close(x, i).d = x.d /\ Close(x, i).c = x.c
         /\ Alike(x.r, Close(x, i).r)
<1> DEFINE r == Rerated(x.r, model[i])
           y == [x EXCEPT !.r = r]
<1>1. Close(x, i) = Try(x, CanRerate(x.r, model[i]), y)
  BY DEF Close
<1>2. x.r \in ReserveState
  BY DEF Ctxs, Contexts
<1>3. Alike(x.r, r)
  BY <1>2 DEF Rerated, Alike, ReserveState
<1> HIDE DEF r
<1>4. y.r = r /\ y.d = x.d /\ y.c = x.c
  BY DEF Ctxs, Contexts
<1> HIDE DEF y
<1>5. x.ok /\ Close(x, i) = y
  BY <1>1, TrySucceeded DEF Ctxs
<1>6. QED
  BY <1>3, <1>4, <1>5

LEMMA AlikeNets ==
  ASSUME NEW r0, NEW r1, Alike(r0, r1), NEW d, NEW e, NEW cut, NEW dn, NEW bn,
         Nets(r1, d, e, cut, dn, bn)
  PROVE  Nets(r0, d, e, cut, dn, bn)
<1>1. DepositGrowth(r1, d) = DepositGrowth(r0, d) /\ DebtGrowth(r1, d) = DebtGrowth(r0, d)
  BY DEF Alike, DepositGrowth, DebtGrowth
<1>2. /\ DepositInterest(r1, d, cut) = DepositInterest(r0, d, cut)
      /\ DebtInterest(r1, d, cut) = DebtInterest(r0, d, cut)
  BY <1>1 DEF Alike, DepositInterest, DebtInterest, DepositFeeOf, DebtFeeOf
<1>3. QED
  BY <1>2 DEF Nets

\* The message brings account a dn of deposit and bn of debt of asset i.
BringsTo(a, i, dn, bn) ==
  Nets(Updated(reserve[i], now), data[a][i], data'[a][i], FeeReduction[a], dn, bn)
LEMMA AccountBrings ==
  ASSUME NEW x \in Ctxs, NEW act \in ActionState, NEW cut \in CutState,
         Account(x, act, cut).ok
  PROVE  LET y == Account(x, act, cut)
             n == act.amount
         IN  /\ act.op = "Deposit"  => Brings(x, y, cut, n, 0)
             /\ act.op = "Withdraw" => Brings(x, y, cut, -WithdrawnAmount(x, n, TRUE, cut), 0)
             /\ act.op = "Borrow"   => Brings(x, y, cut, 0, n)
             /\ act.op = "Repay"    => Brings(x, y, cut, 0, -RepaidAmount(x, n, TRUE, cut))
<1> DEFINE i == act.asset  n == act.amount  lim == limits[act.asset]
<1>1. i \in Assets /\ n \in Nat
  BY DEF ActionState
<1>2. ASSUME NEW clamp
      PROVE  /\ AccountForWithdraw(x, i, n, clamp, cut, lim).ok
                  => Brings(x, AccountForWithdraw(x, i, n, clamp, cut, lim), cut,
                            -WithdrawnAmount(x, n, clamp, cut), 0)
             /\ AccountForRepay(x, i, n, clamp, cut, lim).ok
                  => Brings(x, AccountForRepay(x, i, n, clamp, cut, lim), cut,
                            0, -RepaidAmount(x, n, clamp, cut))
  BY <1>1, WithdrawBrings, RepayBrings
<1>3. /\ AccountForWithdraw(x, i, n, TRUE, cut, lim).ok
           => Brings(x, AccountForWithdraw(x, i, n, TRUE, cut, lim), cut,
                     -WithdrawnAmount(x, n, TRUE, cut), 0)
      /\ AccountForRepay(x, i, n, TRUE, cut, lim).ok
           => Brings(x, AccountForRepay(x, i, n, TRUE, cut, lim), cut,
                     0, -RepaidAmount(x, n, TRUE, cut))
  BY <1>2, Zenon
<1>4. /\ AccountForDeposit(x, i, n, cut, lim).ok
           => Brings(x, AccountForDeposit(x, i, n, cut, lim), cut, n, 0)
      /\ AccountForBorrow(x, i, n, cut, lim).ok
           => Brings(x, AccountForBorrow(x, i, n, cut, lim), cut, 0, n)
  BY <1>1, DepositBrings, BorrowBrings
<1>5. /\ act.op = "Deposit" => Account(x, act, cut) = AccountForDeposit(x, i, n, cut, lim)
      /\ act.op = "Withdraw" => Account(x, act, cut) = AccountForWithdraw(x, i, n, TRUE, cut, lim)
      /\ act.op = "Borrow" => Account(x, act, cut) = AccountForBorrow(x, i, n, cut, lim)
      /\ act.op = "Repay" => Account(x, act, cut) = AccountForRepay(x, i, n, TRUE, cut, lim)
  BY DEF Account
<1>6. QED
  BY <1>3, <1>4, <1>5

-----------------------------------------------------------------------------
(* What a message does to the bitmaps *)

\* A config that backs no less and owes no more.
Relieves(c0, c1) ==
  /\ c1.rule = c0.rule
  /\ c1.collaterals = c0.collaterals
  /\ c1.borrows \subseteq c0.borrows

LEMMA DepositBits ==
  ASSUME NEW x \in Ctxs, NEW i \in Assets, NEW n \in Nat, NEW cut \in CutState,
         NEW lim, AccountForDeposit(x, i, n, cut, lim).ok
  PROVE  Relieves(x.c, AccountForDeposit(x, i, n, cut, lim).c)
<1> DEFINE z == Accumulate(x, cut)
           y == [z EXCEPT !.c.deposits = @ \cup {i}, !.d.deposit = @ + n, !.r.totalDeposit = @ + n]
           w == IncreaseDeposit(z, i, n)
           g == z.d.deposit + n \in U128 /\ z.r.totalDeposit + n \in U128
           h == x.r.active /\ ~x.r.frozen /\ DepositLimitKept(w, lim)
<1>1. z \in Ctxs /\ w \in Ctxs
  BY AccumulateGood, IncreaseDepositGood DEF Ctxs
<1>2. AccountForDeposit(x, i, n, cut, lim) = Try(w, h, w) /\ w = Try(z, g, y)
  BY DEF AccountForDeposit, IncreaseDeposit
<1>3. /\ y.c.rule = z.c.rule /\ y.c.collaterals = z.c.collaterals /\ y.c.borrows = z.c.borrows
  BY <1>1 DEF Ctxs, Contexts, ConfigState
<1> HIDE DEF y, w, g, h
<1>4. w.ok /\ AccountForDeposit(x, i, n, cut, lim) = w
  BY <1>1, <1>2, TrySucceeded DEF Ctxs
<1>5. z.ok /\ w = y
  BY <1>1, <1>2, <1>4, TrySucceeded DEF Ctxs
<1>6. z.c = x.c
  BY <1>5, AccumulateAges DEF Ages
<1>7. QED
  BY <1>3, <1>4, <1>5, <1>6 DEF Relieves

LEMMA RepayBits ==
  ASSUME NEW x \in Ctxs, NEW i \in Assets, NEW n \in Nat, NEW clamp, NEW cut \in CutState,
         NEW lim, AccountForRepay(x, i, n, clamp, cut, lim).ok
  PROVE  Relieves(x.c, AccountForRepay(x, i, n, clamp, cut, lim).c)
<1> DEFINE z == Accumulate(x, cut)
           m == RepaidAmount(x, n, clamp, cut)
           bits == IF m = z.d.debt THEN z.c.borrows \ {i} ELSE z.c.borrows
           y == [z EXCEPT !.c.borrows = bits, !.d.debt = @ - m, !.r.totalDebt = @ - m]
           w == DecreaseDebt(z, i, m)
           g == z.d.debt - m \in U128 /\ z.r.totalDebt - m \in U128
           h == x.r.active /\ z.d.debt # 0 /\ DebtLargeEnough(w.d, lim)
<1>1. z \in Ctxs /\ m \in Int /\ w \in Ctxs
  BY AccumulateGood, AmountsAreNumbers, DecreaseDebtGood DEF Ctxs
<1>2. AccountForRepay(x, i, n, clamp, cut, lim) = Try(w, h, w) /\ w = Try(z, g, y)
  BY DEF AccountForRepay, DecreaseDebt
<1> HIDE DEF m
<1>3. y.c.rule = z.c.rule /\ y.c.collaterals = z.c.collaterals /\ y.c.borrows \subseteq z.c.borrows
  BY <1>1 DEF Ctxs, Contexts, ConfigState
<1> HIDE DEF y, w, g, h
<1>4. w.ok /\ AccountForRepay(x, i, n, clamp, cut, lim) = w
  BY <1>1, <1>2, TrySucceeded DEF Ctxs
<1>5. z.ok /\ w = y
  BY <1>1, <1>2, <1>4, TrySucceeded DEF Ctxs
<1>6. z.c = x.c
  BY <1>5, AccumulateAges DEF Ages
<1>7. QED
  BY <1>3, <1>4, <1>5, <1>6 DEF Relieves

\* A deposit that is no collateral backs nothing.
LEMMA WithdrawBits ==
  ASSUME NEW x \in Ctxs, NEW i \in Assets, NEW n \in Nat, NEW clamp, NEW cut \in CutState,
         NEW lim, AccountForWithdraw(x, i, n, clamp, cut, lim).ok, i \notin x.c.collaterals
  PROVE  Relieves(x.c, AccountForWithdraw(x, i, n, clamp, cut, lim).c)
<1> DEFINE z == Accumulate(x, cut)
           m == WithdrawnAmount(x, n, clamp, cut)
           bits == IF m = z.d.deposit THEN z.c.deposits \ {i} ELSE z.c.deposits
           backing == IF z.d.deposit - m < lim.minCollateral
                      THEN z.c.collaterals \ {i} ELSE z.c.collaterals
           y == [z EXCEPT !.c.deposits = bits, !.c.collaterals = backing,
                          !.d.deposit = @ - m, !.r.totalDeposit = @ - m]
           w == DecreaseDeposit(z, i, m, lim)
           g == z.d.deposit - m \in U128 /\ z.r.totalDeposit - m \in U128
           h == x.r.active /\ x.d.deposit # 0
<1>1. z \in Ctxs /\ m \in Int /\ w \in Ctxs
  BY AccumulateGood, AmountsAreNumbers, DecreaseDepositGood DEF Ctxs
<1>2. AccountForWithdraw(x, i, n, clamp, cut, lim) = Try(w, h, w) /\ w = Try(z, g, y)
  BY DEF AccountForWithdraw, DecreaseDeposit
<1> HIDE DEF m
<1>3. y.c.rule = z.c.rule /\ y.c.borrows = z.c.borrows /\ y.c.collaterals = backing
  BY <1>1 DEF Ctxs, Contexts, ConfigState
<1> HIDE DEF y, w, g, h
<1>4. w.ok /\ AccountForWithdraw(x, i, n, clamp, cut, lim) = w
  BY <1>1, <1>2, TrySucceeded DEF Ctxs
<1>5. z.ok /\ w = y
  BY <1>1, <1>2, <1>4, TrySucceeded DEF Ctxs
<1>6. z.c = x.c
  BY <1>5, AccumulateAges DEF Ages
<1>7. QED
  BY <1>3, <1>4, <1>5, <1>6 DEF Relieves

-----------------------------------------------------------------------------
(* What a message leaves as it is *)

\* What the pool has of asset i with v in its vault.
Holding(i, v) == IF model[i] = None THEN -v ELSE v

\* What the pool has, h, or is owed of an asset, less what it owes and has
\* earned, with the interest due on position d.
Standing(r, h, d) ==
  Margin(r) + h + DebtGrowth(Updated(r, now), d) - DepositGrowth(Updated(r, now), d)

\* From the reserve r0, the holding h0 and the position d0 to r1, h1 and d1
\* the standing is the same; interest comes by the same indexes, and to a
\* position that changes all that is due.
Neutral(r0, h0, d0, r1, h1, d1) ==
  /\ r1 = r0 \/ r1.updated = now
  /\ Alike(Updated(r0, now), Updated(r1, now))
  /\ d1 = d0 \/ UpToDate(Updated(r1, now), d1)
  /\ Standing(r1, h1, d1) = Standing(r0, h0, d0)

LEMMA NeutralSame ==
  ASSUME NEW r, NEW h, NEW d
  PROVE  Neutral(r, h, d, r, h, d)
BY DEF Neutral, Alike

LEMMA NeutralTransitive ==
  ASSUME NEW r0, NEW h0, NEW d0, NEW r1, NEW h1, NEW d1, NEW r2, NEW h2, NEW d2,
         Neutral(r0, h0, d0, r1, h1, d1), Neutral(r1, h1, d1, r2, h2, d2)
  PROVE  Neutral(r0, h0, d0, r2, h2, d2)
<1>1. /\ r2 = r0 \/ r2.updated = now
      /\ Standing(r2, h2, d2) = Standing(r0, h0, d0)
  BY DEF Neutral
<1>2. Alike(Updated(r0, now), Updated(r2, now))
  BY DEF Neutral, Alike
<1>3. d2 = d0 \/ UpToDate(Updated(r2, now), d2)
  BY DEF Neutral, Alike, UpToDate
<1>4. QED
  BY <1>1, <1>2, <1>3 DEF Neutral

\* Interest comes by the indexes.
LEMMA AlikeGrowth ==
  ASSUME NEW r0, NEW r1, Alike(r0, r1), NEW d
  PROVE  DepositGrowth(r1, d) = DepositGrowth(r0, d) /\ DebtGrowth(r1, d) = DebtGrowth(r0, d)
BY DEF Alike, DepositGrowth, DebtGrowth

LEMMA UpdatedBooks ==
  ASSUME NEW r \in ReserveState, NEW t
  PROVE  /\ Updated(r, t).updated = t
         /\ Updated(r, t).totalDebt = r.totalDebt
         /\ Updated(r, t).totalDeposit = r.totalDeposit
         /\ Updated(r, t).earnedFee = r.earnedFee
BY DEF Updated, ReserveState

\* Opening a reserve.
LEMMA UpdateNeutral ==
  ASSUME NEW r \in ReserveState, NEW h, NEW d
  PROVE  Neutral(r, h, d, Updated(r, now), h, d)
<1> DEFINE u == Updated(r, now)
<1>1. u.updated = now /\ Margin(u) = Margin(r)
  BY UpdatedBooks DEF Margin
<1> HIDE DEF u
<1>2. Updated(u, now) = u
  BY <1>1 DEF Updated
<1>3. QED
  BY <1>1, <1>2 DEF Neutral, Standing, Alike, u

\* An account_for_* step that brings dn of deposit and bn of debt, with the
\* transfer that goes with it.
LEMMA BringsNeutral ==
  ASSUME NEW x \in Ctxs, NEW y \in Ctxs, NEW cut \in CutState, NEW dn \in Int, NEW bn \in Int,
         x.r.updated = now, Brings(x, y, cut, dn, bn), Keeps(x, y),
         NEW h0 \in Int, NEW h1 \in Int, h1 = h0 + dn - bn
  PROVE  Neutral(x.r, h0, x.d, y.r, h1, y.d)
<1> DEFINE gd == DepositGrowth(x.r, x.d)
           gb == DebtGrowth(x.r, x.d)
           fd == DepositFeeOf(x.r, x.d, cut)
           fb == DebtFeeOf(x.r, x.d, cut)
<1>1. /\ x.r \in ReserveState /\ x.d \in PositionState
      /\ y.r \in ReserveState /\ y.d \in PositionState
  BY DEF Ctxs, Contexts
<1>2. gd \in Nat /\ gb \in Nat
  BY <1>1, ReserveNumbers, GrowthNatural
<1>3. fd \in Nat /\ fb \in Nat
  <2>1. /\ x.r.depositFee \in Nat /\ x.r.debtFee \in Nat
        /\ cut.deposit \in 0 .. E6 /\ cut.debt \in 0 .. E6
    BY <1>1 DEF ReserveState, CutState
  <2> HIDE DEF gd, gb
  <2>2. QED
    BY <1>2, <2>1, FeeNatural DEF DepositFeeOf, DebtFeeOf, gd, gb
<1>4. /\ y.d.deposit = x.d.deposit + (gd - fd) + dn
      /\ y.d.debt = x.d.debt + (gb + fb) + bn
      /\ y.r.earnedFee = x.r.earnedFee + (fd + fb)
  BY DEF Brings, Nets, FeesOf, DepositInterest, DebtInterest
<1>5. /\ y.r.totalDeposit - y.d.deposit = x.r.totalDeposit - x.d.deposit
      /\ y.r.totalDebt - y.d.debt = x.r.totalDebt - x.d.debt
  BY DEF Keeps
<1>6. Updated(x.r, now) = x.r /\ Updated(y.r, now) = y.r /\ y.r.updated = now
  BY DEF Brings, Alike, Updated
<1>7. DepositGrowth(y.r, y.d) = 0 /\ DebtGrowth(y.r, y.d) = 0
  BY <1>1, NothingDue DEF Brings
<1> HIDE DEF gd, gb, fd, fb
<1>8. Margin(y.r) + h1 = Margin(x.r) + h0 + gb - gd
  BY <1>1, <1>2, <1>3, <1>4, <1>5, MarginNumbers, PositionNumbers DEF Margin
<1>9. Margin(y.r) \in Int
  BY <1>1, MarginNumbers
<1>10. Standing(y.r, h1, y.d) = Standing(x.r, h0, x.d)
  <2>1. Standing(x.r, h0, x.d) = Margin(x.r) + h0 + gb - gd
    BY <1>6 DEF Standing, gb, gd
  <2>2. Standing(y.r, h1, y.d) = Margin(y.r) + h1 + 0 - 0
    BY <1>6, <1>7 DEF Standing
  <2>3. QED
    BY <1>8, <1>9, <2>1, <2>2
<1>11. QED
  BY <1>6, <1>10 DEF Neutral, Brings

\* Closing a reserve changes its rates, which are for the time to come.
LEMMA RerateNeutral ==
  ASSUME NEW r \in ReserveState, r.updated = now, NEW m, NEW h, NEW d
  PROVE  Neutral(r, h, d, Rerated(r, m), h, d)
<1> DEFINE s == Rerated(r, m)
<1>1. Alike(r, s) /\ Margin(s) = Margin(r)
  BY DEF Rerated, Alike, ReserveState, Margin
<1> HIDE DEF s
<1>2. Updated(r, now) = r /\ Updated(s, now) = s /\ s.updated = now
  BY <1>1 DEF Alike, Updated
<1>3. Standing(s, h, d) = Standing(r, h, d)
  BY <1>1, <1>2, AlikeGrowth DEF Standing
<1>4. QED
  BY <1>1, <1>2, <1>3 DEF Neutral, s

LEMMA CloseNeutral ==
  ASSUME NEW x \in Ctxs, NEW i \in Assets, Close(x, i).ok, x.r.updated = now, NEW h
  PROVE  Neutral(x.r, h, x.d, Close(x, i).r, h, Close(x, i).d)
<1> DEFINE y == [x EXCEPT !.r = Rerated(x.r, model[i])]
<1>1. Close(x, i) = Try(x, CanRerate(x.r, model[i]), y)
  BY DEF Close
<1>2. y.r = Rerated(x.r, model[i]) /\ y.d = x.d
  BY DEF Ctxs, Contexts
<1> HIDE DEF y
<1>3. Close(x, i) = y
  BY <1>1, TrySucceeded DEF Ctxs
<1>4. x.r \in ReserveState
  BY DEF Ctxs, Contexts
<1>5. QED
  BY <1>2, <1>3, <1>4, RerateNeutral

-----------------------------------------------------------------------------
(* The books of the whole pool *)

\* The reserves are brought up to now, never further.
Dated == \A i \in Assets : reserve[i].updated <= now

\* What the pool has, is owed and owes, with all interest that is due on the
\* positions ds of all accounts.
FullStanding(i, r, h, ds) ==
  Margin(r) + h + DebtsGrow(i, Updated(r, now), ds, Accounts)
                - DepositsGrow(i, Updated(r, now), ds, Accounts)

\* From the reserve r0 of asset i, the holding h0 and the positions ds0.
Square(i, r0, h0, ds0, r1, h1, ds1) ==
  /\ r1 = r0 \/ r1.updated = now
  /\ Alike(Updated(r0, now), Updated(r1, now))
  /\ \A a \in Accounts : ds1[a][i] = ds0[a][i] \/ UpToDate(Updated(r1, now), ds1[a][i])
  /\ FullStanding(i, r1, h1, ds1) = FullStanding(i, r0, h0, ds0)

Squares ==
  \A i \in Assets : Square(i, reserve[i], Holding(i, vault[i]), data,
                           reserve'[i], Holding(i, vault'[i]), data')

Data == [Accounts -> [Assets -> PositionState]]

LEMMA IndexesNatural ==
  ASSUME NEW r \in ReserveState, now \in Nat, r.updated <= now
  PROVE  Updated(r, now).depositIndex \in Nat /\ Updated(r, now).debtIndex \in Nat
<1>1. /\ r.depositIndex \in Nat /\ r.debtIndex \in Nat /\ r.updated \in Nat
      /\ r.depositRate \in Nat /\ r.debtRate \in Nat /\ E18 \in Nat \ {0}
  BY ReserveNumbers, ScaleAssumption DEF ReserveState
<1>2. CASE now = r.updated
  BY <1>1, <1>2 DEF Updated
<1>3. CASE now # r.updated
  <2> DEFINE di == MulDivDown(r.depositIndex, DepositMultiplier(r, now), E18)
             bi == MulDivUp(r.debtIndex, DebtMultiplier(r, now), E18)
  <2>1. Updated(r, now) = [r EXCEPT !.depositIndex = di, !.debtIndex = bi, !.updated = now]
    BY <1>3 DEF Updated
  <2>2. now - r.updated \in Nat
    BY <1>1
  <2>3. r.depositRate * (now - r.updated) \in Nat /\ r.debtRate * (now - r.updated) \in Nat
    BY <1>1, <2>2
  <2>4. DepositMultiplier(r, now) \in Nat /\ DebtMultiplier(r, now) \in Nat
    BY <1>1, <2>3 DEF DepositMultiplier, DebtMultiplier
  <2>5. ASSUME NEW x \in Nat, NEW m \in Nat
        PROVE  MulDivDown(x, m, E18) \in Nat /\ MulDivUp(x, m, E18) \in Nat
    <3> DEFINE p == x * m
    <3>1. p \in Nat
      OBVIOUS
    <3> HIDE DEF p
    <3>2. p \div E18 \in Nat
      BY <1>1, <3>1
    <3>3. QED
      BY <1>1, <3>2 DEF MulDivDown, MulDivUp, p
  <2>6. di \in Nat /\ bi \in Nat
    BY <1>1, <2>4, <2>5
  <2> HIDE DEF di, bi
  <2>7. QED
    BY <2>1, <2>6 DEF ReserveState
<1>4. QED
  BY <1>2, <1>3

\* The sums of the interest due, once account a's position in asset i is e and
\* nobody else's has changed.
LEMMA GrowthAfterOne ==
  ASSUME NEW i \in Assets, NEW r, r.depositIndex \in Nat, r.debtIndex \in Nat,
         NEW ds0 \in Data, NEW ds1 \in Data, NEW a \in Accounts,
         \A b \in Accounts \ {a} : ds1[b][i] = ds0[b][i]
  PROVE  /\ DebtsGrow(i, r, ds0, Accounts) \in Nat /\ DepositsGrow(i, r, ds0, Accounts) \in Nat
         /\ DebtsGrow(i, r, ds1, Accounts) = DebtsGrow(i, r, ds0, Accounts)
              - DebtGrowth(r, ds0[a][i]) + DebtGrowth(r, ds1[a][i])
         /\ DepositsGrow(i, r, ds1, Accounts) = DepositsGrow(i, r, ds0, Accounts)
              - DepositGrowth(r, ds0[a][i]) + DepositGrowth(r, ds1[a][i])
<1> DEFINE f0 == [b \in Accounts |-> DebtGrowth(r, ds0[b][i])]
           f1 == [b \in Accounts |-> DebtGrowth(r, ds1[b][i])]
           g0 == [b \in Accounts |-> DepositGrowth(r, ds0[b][i])]
           g1 == [b \in Accounts |-> DepositGrowth(r, ds1[b][i])]
<1>1. \A b \in Accounts : ds0[b][i] \in PositionState /\ ds1[b][i] \in PositionState
  BY DEF Data
<1>2. f0 \in [Accounts -> Nat] /\ f1 \in [Accounts -> Nat]
  BY <1>1, GrowthNatural
<1>3. g0 \in [Accounts -> Nat] /\ g1 \in [Accounts -> Nat]
  BY <1>1, GrowthNatural
<1>4. \A b \in Accounts \ {a} : f1[b] = f0[b] /\ g1[b] = g0[b]
  OBVIOUS
<1>5. /\ f0[a] = DebtGrowth(r, ds0[a][i]) /\ f1[a] = DebtGrowth(r, ds1[a][i])
      /\ g0[a] = DepositGrowth(r, ds0[a][i]) /\ g1[a] = DepositGrowth(r, ds1[a][i])
  OBVIOUS
<1>6. /\ DebtsGrow(i, r, ds0, Accounts) = Total(f0) /\ DebtsGrow(i, r, ds1, Accounts) = Total(f1)
      /\ DepositsGrow(i, r, ds0, Accounts) = Total(g0) /\ DepositsGrow(i, r, ds1, Accounts) = Total(g1)
  BY DEF DebtsGrow, DepositsGrow
<1>7. IsFiniteSet(Accounts)
  BY PoolAssumption
<1> HIDE DEF f0, f1, g0, g1
<1>8. Total(f1) = Total(f0) - f0[a] + f1[a] /\ Total(g1) = Total(g0) - g0[a] + g1[a]
  BY <1>2, <1>3, <1>4, <1>7, TotalAfterOne
<1>9. Total(f0) \in Nat /\ Total(g0) \in Nat
  BY <1>2, <1>3, <1>7, TotalIsNumber
<1>10. QED
  BY <1>5, <1>6, <1>8, <1>9

LEMMA AlikeSums ==
  ASSUME NEW i, NEW r0, NEW r1, Alike(r0, r1), NEW ds, NEW A
  PROVE  /\ DebtsGrow(i, r1, ds, A) = DebtsGrow(i, r0, ds, A)
         /\ DepositsGrow(i, r1, ds, A) = DepositsGrow(i, r0, ds, A)
BY AlikeGrowth DEF DebtsGrow, DepositsGrow

\* One account moves.
LEMMA OneSquare ==
  ASSUME now \in Nat, NEW i \in Assets, NEW r0 \in ReserveState, r0.updated <= now,
         NEW r1 \in ReserveState,
         NEW h0 \in Int, NEW h1 \in Int, NEW ds0 \in Data, NEW ds1 \in Data, NEW a \in Accounts,
         Neutral(r0, h0, ds0[a][i], r1, h1, ds1[a][i]),
         \A b \in Accounts \ {a} : ds1[b][i] = ds0[b][i]
  PROVE  Square(i, r0, h0, ds0, r1, h1, ds1)
<1> DEFINE u == Updated(r0, now)
           v == Updated(r1, now)
<1>1. u.depositIndex \in Nat /\ u.debtIndex \in Nat
  BY IndexesNatural
<1>2. Alike(u, v)
  BY DEF Neutral
<1> DEFINE B0 == DebtsGrow(i, u, ds0, Accounts)  B1 == DebtsGrow(i, u, ds1, Accounts)
           D0 == DepositsGrow(i, u, ds0, Accounts)  D1 == DepositsGrow(i, u, ds1, Accounts)
           b0 == DebtGrowth(u, ds0[a][i])  b1 == DebtGrowth(u, ds1[a][i])
           d0 == DepositGrowth(u, ds0[a][i])  d1 == DepositGrowth(u, ds1[a][i])
<1>3. /\ Standing(r0, h0, ds0[a][i]) = Margin(r0) + h0 + b0 - d0
      /\ Standing(r1, h1, ds1[a][i]) = Margin(r1) + h1 + b1 - d1
  BY <1>2, AlikeGrowth DEF Standing
<1>4. /\ FullStanding(i, r0, h0, ds0) = Margin(r0) + h0 + B0 - D0
      /\ FullStanding(i, r1, h1, ds1) = Margin(r1) + h1 + B1 - D1
  BY <1>2, AlikeSums DEF FullStanding
<1>5. ds0[a][i] \in PositionState /\ ds1[a][i] \in PositionState
  BY DEF Data
<1> HIDE DEF u, v
<1>6. b0 \in Nat /\ b1 \in Nat /\ d0 \in Nat /\ d1 \in Nat
  BY <1>1, <1>5, GrowthNatural
<1>7. B0 \in Nat /\ D0 \in Nat /\ B1 = B0 - b0 + b1 /\ D1 = D0 - d0 + d1
  BY <1>1, GrowthAfterOne
<1>8. Standing(r1, h1, ds1[a][i]) = Standing(r0, h0, ds0[a][i])
  BY DEF Neutral
<1> HIDE DEF B0, B1, D0, D1, b0, b1, d0, d1
<1>9. FullStanding(i, r1, h1, ds1) = FullStanding(i, r0, h0, ds0)
  BY <1>3, <1>4, <1>6, <1>7, <1>8, MarginNumbers
<1>10. \A b \in Accounts : ds1[b][i] = ds0[b][i] \/ UpToDate(Updated(r1, now), ds1[b][i])
  BY DEF Neutral
<1>11. QED
  BY <1>9, <1>10 DEF Square, Neutral

LEMMA SquareTransitive ==
  ASSUME NEW i, NEW r0, NEW h0, NEW ds0, NEW r1, NEW h1, NEW ds1, NEW r2, NEW h2, NEW ds2,
         Square(i, r0, h0, ds0, r1, h1, ds1), Square(i, r1, h1, ds1, r2, h2, ds2)
  PROVE  Square(i, r0, h0, ds0, r2, h2, ds2)
<1>1. Alike(Updated(r0, now), Updated(r2, now)) /\ Alike(Updated(r1, now), Updated(r2, now))
  BY DEF Square, Alike
<1>2. ASSUME NEW a \in Accounts PROVE ds2[a][i] = ds0[a][i] \/ UpToDate(Updated(r2, now), ds2[a][i])
  <2>1. ds2[a][i] = ds1[a][i] \/ UpToDate(Updated(r2, now), ds2[a][i])
    BY DEF Square
  <2>2. ds1[a][i] = ds0[a][i] \/ UpToDate(Updated(r1, now), ds1[a][i])
    BY DEF Square
  <2>3. UpToDate(Updated(r1, now), ds1[a][i]) => UpToDate(Updated(r2, now), ds1[a][i])
    BY <1>1 DEF Alike, UpToDate
  <2>4. QED
    BY <2>1, <2>2, <2>3
<1>3. QED
  BY <1>1, <1>2 DEF Square

-----------------------------------------------------------------------------
(* deposit, withdraw, borrow, repay, multi_op *)

LEMMA HoldingMoves ==
  ASSUME NEW i, NEW v \in Int, NEW n \in Int
  PROVE  /\ Holding(i, v) \in Int /\ Received(i, v, n) \in Int /\ Sent(i, v, n) \in Int
         /\ Holding(i, Received(i, v, n)) = Holding(i, v) + n
         /\ Holding(i, Sent(i, v, n)) = Holding(i, v) - n
         /\ Received(i, Sent(i, v, n), n) = v /\ Sent(i, Received(i, v, n), n) = v
BY DEF Holding, Received, Sent

LEMMA DepositNeutral ==
  ASSUME NEW x \in Ctxs, x.r.updated = now, NEW i \in Assets, NEW n \in Nat,
         NEW cut \in CutState, NEW lim, NEW v \in Int, AccountForDeposit(x, i, n, cut, lim).ok
  PROVE  LET y == AccountForDeposit(x, i, n, cut, lim)
         IN  Neutral(x.r, Holding(i, v), x.d, y.r, Holding(i, Received(i, v, n)), y.d)
<1> DEFINE y == AccountForDeposit(x, i, n, cut, lim)
<1>1. y \in Ctxs /\ Keeps(x, y) /\ n \in Int
  BY AccountForDepositGood DEF Ctxs
<1>2. Brings(x, y, cut, n, 0)
  BY DepositBrings
<1>3. /\ Holding(i, v) \in Int /\ Holding(i, Received(i, v, n)) \in Int
      /\ Holding(i, Received(i, v, n)) = Holding(i, v) + n - 0
  BY <1>1, HoldingMoves
<1> HIDE DEF y
<1>4. Neutral(x.r, Holding(i, v), x.d, y.r, Holding(i, Received(i, v, n)), y.d)
  BY <1>1, <1>2, <1>3, BringsNeutral
<1>5. QED
  BY <1>4 DEF y

LEMMA BorrowNeutral ==
  ASSUME NEW x \in Ctxs, x.r.updated = now, NEW i \in Assets, NEW n \in Nat,
         NEW cut \in CutState, NEW lim, NEW v \in Int, AccountForBorrow(x, i, n, cut, lim).ok
  PROVE  LET y == AccountForBorrow(x, i, n, cut, lim)
         IN  Neutral(x.r, Holding(i, v), x.d, y.r, Holding(i, Sent(i, v, n)), y.d)
<1> DEFINE y == AccountForBorrow(x, i, n, cut, lim)
<1>1. y \in Ctxs /\ Keeps(x, y) /\ n \in Int
  BY AccountForBorrowGood DEF Ctxs
<1>2. Brings(x, y, cut, 0, n)
  BY BorrowBrings
<1>3. /\ Holding(i, v) \in Int /\ Holding(i, Sent(i, v, n)) \in Int
      /\ Holding(i, Sent(i, v, n)) = Holding(i, v) + 0 - n
  BY <1>1, HoldingMoves
<1> HIDE DEF y
<1>4. Neutral(x.r, Holding(i, v), x.d, y.r, Holding(i, Sent(i, v, n)), y.d)
  BY <1>1, <1>2, <1>3, BringsNeutral
<1>5. QED
  BY <1>4 DEF y

LEMMA WithdrawNeutral ==
  ASSUME NEW x \in Ctxs, x.r.updated = now, NEW i \in Assets, NEW n \in Nat, NEW clamp,
         NEW cut \in CutState, NEW lim, NEW v \in Int,
         AccountForWithdraw(x, i, n, clamp, cut, lim).ok
  PROVE  LET y == AccountForWithdraw(x, i, n, clamp, cut, lim)
             m == WithdrawnAmount(x, n, clamp, cut)
         IN  Neutral(x.r, Holding(i, v), x.d, y.r, Holding(i, Sent(i, v, m)), y.d)
<1> DEFINE y == AccountForWithdraw(x, i, n, clamp, cut, lim)
           m == WithdrawnAmount(x, n, clamp, cut)
<1>1. y \in Ctxs /\ Keeps(x, y) /\ m \in Int /\ -m \in Int
  BY AccountForWithdrawGood, AmountsAreNatural DEF Ctxs
<1>2. Brings(x, y, cut, -m, 0)
  BY WithdrawBrings
<1> HIDE DEF y, m
<1>3. /\ Holding(i, v) \in Int /\ Holding(i, Sent(i, v, m)) \in Int
      /\ Holding(i, Sent(i, v, m)) = Holding(i, v) + (-m) - 0
  BY <1>1, HoldingMoves
<1>4. Neutral(x.r, Holding(i, v), x.d, y.r, Holding(i, Sent(i, v, m)), y.d)
  BY <1>1, <1>2, <1>3, BringsNeutral
<1>5. QED
  BY <1>4 DEF y, m

LEMMA RepayNeutral ==
  ASSUME NEW x \in Ctxs, x.r.updated = now, NEW i \in Assets, NEW n \in Nat, NEW clamp,
         NEW cut \in CutState, NEW lim, NEW v \in Int,
         AccountForRepay(x, i, n, clamp, cut, lim).ok
  PROVE  LET y == AccountForRepay(x, i, n, clamp, cut, lim)
             m == RepaidAmount(x, n, clamp, cut)
         IN  Neutral(x.r, Holding(i, v), x.d, y.r, Holding(i, Received(i, v, m)), y.d)
<1> DEFINE y == AccountForRepay(x, i, n, clamp, cut, lim)
           m == RepaidAmount(x, n, clamp, cut)
<1>1. y \in Ctxs /\ Keeps(x, y) /\ m \in Int /\ -m \in Int
  BY AccountForRepayGood, AmountsAreNatural DEF Ctxs
<1>2. Brings(x, y, cut, 0, -m)
  BY RepayBrings
<1> HIDE DEF y, m
<1>3. /\ Holding(i, v) \in Int /\ Holding(i, Received(i, v, m)) \in Int
      /\ Holding(i, Received(i, v, m)) = Holding(i, v) + 0 - (-m)
  BY <1>1, HoldingMoves
<1>4. Neutral(x.r, Holding(i, v), x.d, y.r, Holding(i, Received(i, v, m)), y.d)
  BY <1>1, <1>2, <1>3, BringsNeutral
<1>5. QED
  BY <1>4 DEF y, m

LEMMA AccountNeutral ==
  ASSUME NEW x \in Ctxs, x.r.updated = now, NEW act \in ActionState, NEW cut \in CutState,
         NEW v \in Int, Account(x, act, cut).ok
  PROVE  LET y == Account(x, act, cut)
         IN  Neutral(x.r, Holding(act.asset, v), x.d,
                     y.r, Holding(act.asset, VaultAfter(v, x, act, cut)), y.d)
<1> DEFINE i == act.asset  n == act.amount  lim == limits[act.asset]
           y == Account(x, act, cut)
           w == VaultAfter(v, x, act, cut)
<1>1. i \in Assets /\ n \in Nat /\ act.op \in Operations
  BY DEF ActionState
<1>2. CASE act.op = "Deposit"
  <2>1. y = AccountForDeposit(x, i, n, cut, lim) /\ w = Received(i, v, n)
    BY <1>2 DEF Account, VaultAfter
  <2>2. QED
    BY <1>1, <2>1, DepositNeutral
<1>3. CASE act.op = "Borrow"
  <2>1. y = AccountForBorrow(x, i, n, cut, lim) /\ w = Sent(i, v, n)
    BY <1>3 DEF Account, VaultAfter
  <2>2. QED
    BY <1>1, <2>1, BorrowNeutral
<1>4. CASE act.op = "Withdraw"
  <2>1. /\ y = AccountForWithdraw(x, i, n, TRUE, cut, lim)
        /\ w = Sent(i, v, WithdrawnAmount(x, n, TRUE, cut))
    BY <1>4 DEF Account, VaultAfter
  <2>2. ASSUME NEW clamp, AccountForWithdraw(x, i, n, clamp, cut, lim).ok
        PROVE  Neutral(x.r, Holding(i, v), x.d, AccountForWithdraw(x, i, n, clamp, cut, lim).r,
                       Holding(i, Sent(i, v, WithdrawnAmount(x, n, clamp, cut))),
                       AccountForWithdraw(x, i, n, clamp, cut, lim).d)
    BY <1>1, <2>2, WithdrawNeutral
  <2>3. QED
    BY <2>1, <2>2, Zenon
<1>5. CASE act.op = "Repay"
  <2>1. /\ y = AccountForRepay(x, i, n, TRUE, cut, lim)
        /\ w = Received(i, v, RepaidAmount(x, n, TRUE, cut))
    BY <1>5 DEF Account, VaultAfter
  <2>2. ASSUME NEW clamp, AccountForRepay(x, i, n, clamp, cut, lim).ok
        PROVE  Neutral(x.r, Holding(i, v), x.d, AccountForRepay(x, i, n, clamp, cut, lim).r,
                       Holding(i, Received(i, v, RepaidAmount(x, n, clamp, cut))),
                       AccountForRepay(x, i, n, clamp, cut, lim).d)
    BY <1>1, <2>2, RepayNeutral
  <2>3. QED
    BY <2>1, <2>2, Zenon
<1>6. QED
  BY <1>1, <1>2, <1>3, <1>4, <1>5 DEF Operations

\* The session of account a has kept the books.
SessionNeutral(s, a) ==
  \A i \in Assets : Neutral(reserve[i], Holding(i, vault[i]), data[a][i],
                            s.reserve[i], Holding(i, s.vault[i]), s.data[i])

LEMMA StepNeutral ==
  ASSUME TypeOK, NEW a \in Accounts, NEW s, SessionOK(s, a), NEW act \in ActionState,
         s.ok => SessionNeutral(s, a), Step(s, a, act).ok
  PROVE  SessionNeutral(Step(s, a, act), a)
<1> DEFINE i == act.asset
           cut == FeeReduction[a]
           x == Open(s.reserve[i], s.data[i], s.config)
           z == Account(x, act, cut)
           y == Close(z, i)
           v == VaultAfter(s.vault[i], x, act, cut)
           t == Step(s, a, act)
<1>1. /\ i \in Assets /\ s.reserve[i] \in ReserveState /\ s.data[i] \in PositionState
      /\ s.config \in ConfigState(Assets, RuleIds) /\ now \in Nat
      /\ s.reserve \in [Assets -> ReserveState] /\ s.data \in [Assets -> PositionState]
      /\ limits[i] \in LimitState /\ FeeReduction[a] \in CutState
  BY PoolAssumption DEF ActionState, SessionOK, TypeOK
<1>2. x \in Ctxs /\ z \in Ctxs /\ y \in Ctxs
  BY <1>1, OpenGood, AccountGood, CloseGood DEF Ctxs
<1>3. /\ s.ok /\ y.ok /\ t.reserve = [s.reserve EXCEPT ![i] = y.r]
      /\ t.data = [s.data EXCEPT ![i] = y.d] /\ t.vault = [s.vault EXCEPT ![i] = v]
  BY DEF Step, After
<1>4. SessionNeutral(s, a) /\ s.vault \in [Assets -> Int] /\ s.vault[i] \in Int
  BY <1>1, <1>3 DEF SessionOK, VaultOK
<1>5. z.ok /\ x.ok
  <2>1. z.ok
    <3> HIDE DEF z
    <3>1. QED
      BY <1>1, <1>2, <1>3, CloseBrings
  <2>2. QED
    <3> HIDE DEF x
    <3>1. QED
      BY <1>1, <1>2, <2>1, AccountWorks
<1> DEFINE h == Holding(i, s.vault[i])  k == Holding(i, v)
<1>6. Neutral(s.reserve[i], h, s.data[i], y.r, k, y.d)
  <2>1. x.r = Updated(s.reserve[i], now) /\ x.d = s.data[i] /\ x.r.updated = now
    BY <1>1, <1>5, OpenSucceeded DEF Context
  <2>2. Neutral(s.reserve[i], h, s.data[i], x.r, h, x.d)
    <3> HIDE DEF x, h
    <3>1. QED
      BY <1>1, <2>1, UpdateNeutral
  <2> HIDE DEF x
  <2>3. Neutral(x.r, h, x.d, z.r, k, z.d)
    BY <1>1, <1>2, <1>4, <1>5, <2>1, AccountNeutral
  <2>4. z.r.updated = now
    BY <2>1, <2>3 DEF Neutral
  <2> HIDE DEF z, h, k
  <2>5. Neutral(z.r, k, z.d, y.r, k, y.d)
    BY <1>1, <1>2, <1>3, <2>4, CloseNeutral
  <2> HIDE DEF y
  <2>6. QED
    BY <2>2, <2>3, <2>5, NeutralTransitive
<1> HIDE DEF y, v, t, h, k
<1>7. ASSUME NEW j \in Assets
      PROVE  Neutral(reserve[j], Holding(j, vault[j]), data[a][j],
                     t.reserve[j], Holding(j, t.vault[j]), t.data[j])
  <2>0. Neutral(reserve[j], Holding(j, vault[j]), data[a][j],
                s.reserve[j], Holding(j, s.vault[j]), s.data[j])
    BY <1>4 DEF SessionNeutral
  <2>1. CASE j = i
    <3>1. t.reserve[j] = y.r /\ t.data[j] = y.d /\ Holding(j, t.vault[j]) = k
      BY <1>1, <1>3, <1>4, <2>1 DEF k
    <3>2. Neutral(reserve[j], Holding(j, vault[j]), data[a][j], s.reserve[j], h, s.data[j])
      BY <2>0, <2>1 DEF h
    <3>3. QED
      BY <1>6, <2>1, <3>1, <3>2, NeutralTransitive
  <2>2. CASE j # i
    BY <1>1, <1>3, <1>4, <2>0, <2>2
  <2>3. QED
    BY <2>1, <2>2
<1>8. QED
  BY <1>7 DEF SessionNeutral, t

LEMMA BooksTyped ==
  ASSUME TypeOK
  PROVE  /\ now \in Nat /\ data \in Data /\ vault \in [Assets -> Int]
         /\ reserve \in [Assets -> ReserveState]
BY DEF TypeOK, Data

\* A message for account a alone.
LEMMA CommitSquares ==
  ASSUME TypeOK, TypeOK', Dated, NEW a \in Accounts, NEW s, SessionNeutral(s, a), Commit(s, a)
  PROVE  Squares
<1>1. /\ reserve' = s.reserve /\ vault' = s.vault
      /\ data' = [data EXCEPT ![a] = s.data]
  BY DEF Commit
<1>2. /\ now \in Nat /\ data \in Data /\ data' \in Data
      /\ reserve \in [Assets -> ReserveState] /\ reserve' \in [Assets -> ReserveState]
      /\ vault \in [Assets -> Int] /\ vault' \in [Assets -> Int]
  BY BooksTyped DEF TypeOK, Data
<1>3. data'[a] = s.data /\ \A b \in Accounts \ {a} : data'[b] = data[b]
  BY <1>1, <1>2 DEF Data
<1>4. ASSUME NEW i \in Assets
      PROVE  Square(i, reserve[i], Holding(i, vault[i]), data,
                    reserve'[i], Holding(i, vault'[i]), data')
  <2> DEFINE h == Holding(i, vault[i])  k == Holding(i, vault'[i])
  <2>1. Neutral(reserve[i], h, data[a][i], reserve'[i], k, data'[a][i])
    BY <1>1, <1>3 DEF SessionNeutral
  <2>2. h \in Int /\ k \in Int
    BY <1>2 DEF Holding
  <2>3. reserve[i] \in ReserveState /\ reserve'[i] \in ReserveState /\ reserve[i].updated <= now
    BY <1>2 DEF Dated
  <2> HIDE DEF h, k
  <2>4. Square(i, reserve[i], h, data, reserve'[i], k, data')
    BY <1>2, <1>3, <2>1, <2>2, <2>3, OneSquare
  <2>5. QED
    BY <2>4 DEF h, k
<1>5. QED
  BY <1>4 DEF Squares

LEMMA SessionStartsNeutral ==
  ASSUME NEW a
  PROVE  SessionNeutral(Session(a), a)
BY NeutralSame DEF SessionNeutral, Session

LEMMA OperateSquares ==
  ASSUME TypeOK, TypeOK', Dated, NEW a \in Accounts, NEW act \in ActionState, Operate(a, act)
  PROVE  Squares
<1> DEFINE s == Step(Session(a), a, act)
<1>1. Commit(s, a) /\ s.ok
  BY DEF Operate, Commit
<1>2. SessionNeutral(s, a)
  BY <1>1, SessionGood, SessionStartsNeutral, StepNeutral
<1> HIDE DEF s
<1>3. QED
  BY <1>1, <1>2, CommitSquares

LEMMA MultiOpSquares ==
  ASSUME TypeOK, TypeOK', Dated, NEW a \in Accounts, NEW acts \in ActionState \X ActionState,
         MultiOp(a, acts)
  PROVE  Squares
<1> DEFINE s1 == Step(Session(a), a, acts[1])
           s2 == Step(s1, a, acts[2])
<1>1. acts[1] \in ActionState /\ acts[2] \in ActionState
  OBVIOUS
<1>2. Commit(s2, a) /\ s2.ok
  BY DEF MultiOp, Commit
<1>3. SessionOK(s1, a) /\ (s1.ok => SessionNeutral(s1, a))
  BY <1>1, SessionGood, StepGood, SessionStartsNeutral, StepNeutral
<1> HIDE DEF s1
<1>4. SessionNeutral(s2, a)
  BY <1>1, <1>2, <1>3, StepNeutral
<1> HIDE DEF s2
<1>5. QED
  BY <1>2, <1>4, CommitSquares

-----------------------------------------------------------------------------
(* Messages of two accounts *)

\* Account f moves first, to the reserve r, the holding h and the position d of
\* asset i; then account t does.
Through(f, t, i, r, h, d) ==
  /\ r \in ReserveState /\ h \in Int /\ d \in PositionState
  /\ r.updated <= now
  /\ Neutral(reserve[i], Holding(i, vault[i]), data[f][i], r, h, d)
  /\ Neutral(r, h, data[t][i], reserve'[i], Holding(i, vault'[i]), data'[t][i])
  /\ data'[f][i] = d

LEMMA ThroughSquare ==
  ASSUME TypeOK, TypeOK', Dated, NEW f \in Accounts, NEW t \in Accounts, f # t, NEW i \in Assets,
         NEW r, NEW h, NEW d, Through(f, t, i, r, h, d),
         \A b \in Accounts \ {f, t} : data'[b][i] = data[b][i]
  PROVE  Square(i, reserve[i], Holding(i, vault[i]), data,
                reserve'[i], Holding(i, vault'[i]), data')
<1> DEFINE ds == [data EXCEPT ![f][i] = d]
           h0 == Holding(i, vault[i])
           h1 == Holding(i, vault'[i])
<1>1. /\ now \in Nat /\ data \in Data /\ data' \in Data
      /\ reserve[i] \in ReserveState /\ reserve'[i] \in ReserveState /\ reserve[i].updated <= now
      /\ vault[i] \in Int /\ vault'[i] \in Int
  BY BooksTyped DEF TypeOK, Data, Dated
<1>2. h0 \in Int /\ h1 \in Int
  BY <1>1 DEF Holding
<1>3. ds \in Data
  BY <1>1 DEF Through, Data
<1>4. ds[f][i] = d /\ \A b \in Accounts \ {f} : ds[b][i] = data[b][i]
  BY <1>1 DEF Data
<1>5. \A b \in Accounts \ {t} : data'[b][i] = ds[b][i]
  BY <1>4 DEF Through
<1> HIDE DEF ds, h0, h1
<1>6. /\ Neutral(reserve[i], h0, data[f][i], r, h, ds[f][i])
      /\ Neutral(r, h, ds[t][i], reserve'[i], h1, data'[t][i])
      /\ r \in ReserveState /\ h \in Int /\ r.updated <= now
  BY <1>4 DEF Through, h0, h1
<1>7. Square(i, reserve[i], h0, data, r, h, ds)
  BY <1>1, <1>2, <1>3, <1>4, <1>6, OneSquare
<1>8. Square(i, r, h, ds, reserve'[i], h1, data')
  BY <1>1, <1>2, <1>3, <1>5, <1>6, OneSquare
<1>9. Square(i, reserve[i], h0, data, reserve'[i], h1, data')
  BY <1>7, <1>8, SquareTransitive
<1>10. QED
  BY <1>9 DEF h0, h1

LEMMA TransferDepositBrings ==
  ASSUME TypeOK, NEW f \in Accounts, NEW t \in Accounts, f # t, NEW i \in Assets,
         i = NumAssets - 1, NEW n \in Nat, TransferDeposit(f, t, i, n)
  PROVE  /\ BringsTo(f, i, -n, 0) /\ BringsTo(t, i, n, 0)
         /\ \A j \in Assets \ {i} : data'[f][j] = data[f][j] /\ data'[t][j] = data[t][j]
         /\ \A b \in Accounts \ {f, t} : data'[b] = data[b]
         /\ \E r, h, d : Through(f, t, i, r, h, d)
         /\ \A j \in Assets \ {i} : reserve'[j] = reserve[j]
         /\ vault' = vault
         /\ Relieves(config[t], config'[t])
         /\ \A b \in Accounts \ {f, t} : config'[b] = config[b]
<1> DEFINE x   == Open(reserve[i], data[f][i], config[f])
           out == AccountForWithdraw(x, i, n, FALSE, FeeReduction[f], limits[i])
           mid == [out EXCEPT !.d = data[t][i], !.c = config[t]]
           acc == AccountForDeposit(mid, i, n, FeeReduction[t], limits[i])
           in  == Close(acc, i)
           h0  == Holding(i, vault[i])
           h1  == Holding(i, Sent(i, vault[i], n))
<1>1. /\ config[f] \in ConfigState(Assets, RuleIds)
      /\ data[f] \in [Assets -> PositionState] /\ data[f][i] \in PositionState
      /\ reserve[i] \in ReserveState /\ now \in Nat /\ FeeReduction[f] \in CutState
  BY StoredTyped, Zenon
<1>2. /\ config[t] \in ConfigState(Assets, RuleIds)
      /\ data[t] \in [Assets -> PositionState] /\ data[t][i] \in PositionState
      /\ FeeReduction[t] \in CutState
  BY StoredTyped, Zenon
<1>3. x \in Ctxs /\ n \in Int
  BY <1>1, OpenGood DEF Ctxs
<1>4. ASSUME NEW clamp
      PROVE  LET w == AccountForWithdraw(x, i, n, clamp, FeeReduction[f], limits[i])
             IN  /\ w \in Ctxs
                 /\ w.ok => /\ x.ok
                            /\ Brings(x, w, FeeReduction[f], -WithdrawnAmount(x, n, clamp, FeeReduction[f]), 0)
                            /\ x.r.updated = now =>
                                 Neutral(x.r, h0, x.d, w.r,
                                         Holding(i, Sent(i, vault[i], WithdrawnAmount(x, n, clamp, FeeReduction[f]))), w.d)
  <2>1. limits[i] \in LimitState /\ vault[i] \in Int
    BY DEF TypeOK
  <2>2. QED
    BY <1>1, <1>3, <2>1, AccountForWithdrawGood, AccountForWithdrawWorks, WithdrawBrings,
       WithdrawNeutral DEF Ctxs
<1>5. WithdrawnAmount(x, n, FALSE, FeeReduction[f]) = n
  BY DEF WithdrawnAmount
<1>6. /\ out \in Ctxs
      /\ out.ok => /\ Brings(x, out, FeeReduction[f], -n, 0) /\ x.ok
                   /\ x.r.updated = now => Neutral(x.r, h0, x.d, out.r, h1, out.d)
  BY <1>4, <1>5, Zenon
<1>7. /\ in.ok /\ vault' = vault /\ reserve' = [reserve EXCEPT ![i] = in.r]
      /\ data' = [data EXCEPT ![t] = Inserted(data[t], i, in.d), ![f] = [data[f] EXCEPT ![i] = out.d]]
  BY DEF TransferDeposit, PassDeposit, DepositOut, DepositIn
<1>8. config' = [config EXCEPT ![f] = out.c, ![t] = in.c] /\ DOMAIN config = Accounts
  BY DEF TransferDeposit, PassDeposit, DepositOut, DepositIn, TypeOK
<1> HIDE DEF out
<1>9. mid \in Ctxs /\ mid.ok = out.ok /\ mid.r = out.r /\ mid.d = data[t][i]
      /\ mid.c = config[t]
  BY <1>2, <1>6 DEF Ctxs, Contexts
<1> HIDE DEF mid
<1>10. acc \in Ctxs
  BY <1>3, <1>9, AccountForDepositGood DEF Ctxs
<1>11. in \in Ctxs
  BY <1>10, CloseGood DEF Ctxs
<1> HIDE DEF in
<1>12. acc.ok /\ in.d = acc.d /\ in.c = acc.c
  BY <1>7, <1>10, CloseBrings DEF in
<1>13. Brings(mid, acc, FeeReduction[t], n, 0)
  BY <1>2, <1>9, <1>12, DepositBrings
<1>14. Relieves(config[t], acc.c)
  BY <1>2, <1>9, <1>12, DepositBits
<1>15. mid.ok
  <2>1. limits[i] \in LimitState
    BY DEF TypeOK
  <2>2. QED
    BY <1>2, <1>9, <1>12, <2>1, AccountForDepositWorks
<1>16. x.ok /\ Brings(x, out, FeeReduction[f], -n, 0)
  BY <1>6, <1>9, <1>15
<1>17. x.r = Updated(reserve[i], now) /\ x.d = data[f][i] /\ x.r.updated = now
  BY <1>1, <1>16, OpenSucceeded DEF Context
<1>18. vault[i] \in Int /\ Sent(i, vault[i], n) \in Int /\ h1 \in Int
       /\ Received(i, Sent(i, vault[i], n), n) = vault[i]
  BY <1>1, <1>3, StoredTyped, HoldingMoves
<1>19. mid.r.updated = now
  BY <1>9, <1>16, <1>17 DEF Brings, Alike
<1>20. Neutral(mid.r, h1, mid.d, acc.r, h0, acc.d)
  BY <1>2, <1>9, <1>12, <1>18, <1>19, DepositNeutral
<1> HIDE DEF acc, x, h0, h1
<1>21. acc.r.updated = now
  BY <1>19, <1>20 DEF Neutral
<1>22. Neutral(acc.r, h0, acc.d, in.r, h0, in.d)
  BY <1>7, <1>10, <1>21, CloseNeutral DEF in
<1>23. Neutral(mid.r, h1, data[t][i], in.r, h0, in.d)
  BY <1>9, <1>20, <1>22, NeutralTransitive
<1>24. Neutral(reserve[i], h0, data[f][i], out.r, h1, out.d)
  <2>1. Neutral(reserve[i], h0, data[f][i], x.r, h0, x.d)
    BY <1>1, <1>17, UpdateNeutral
  <2>2. Neutral(x.r, h0, x.d, out.r, h1, out.d)
    BY <1>6, <1>9, <1>15, <1>17
  <2>3. QED
    BY <2>1, <2>2, NeutralTransitive
<1>25. Nets(Updated(reserve[i], now), data[f][i], out.d, FeeReduction[f], -n, 0)
       /\ Alike(Updated(reserve[i], now), out.r)
  BY <1>16, <1>17 DEF Brings
<1>26. Nets(Updated(reserve[i], now), data[t][i], in.d, FeeReduction[t], n, 0)
  BY <1>9, <1>12, <1>13, <1>25, AlikeNets DEF Brings
<1>27. /\ data'[f] = [data[f] EXCEPT ![i] = out.d] /\ data'[t] = [data[t] EXCEPT ![i] = in.d]
       /\ \A b \in Accounts \ {f, t} : data'[b] = data[b]
  <2>1. in.d \in PositionState
    BY <1>11 DEF Ctxs, Contexts
  <2>2. Inserted(data[t], i, in.d) = [data[t] EXCEPT ![i] = in.d]
    BY <1>2, <2>1, InsertedTyped
  <2>3. DOMAIN data = Accounts
    BY DEF TypeOK
  <2>4. QED
    BY <1>7, <2>2, <2>3
<1>28. /\ data'[f][i] = out.d /\ data'[t][i] = in.d
       /\ \A j \in Assets \ {i} : data'[f][j] = data[f][j] /\ data'[t][j] = data[t][j]
  BY <1>1, <1>2, <1>27
<1>29. \E r, h, d : Through(f, t, i, r, h, d)
  <2>1. out.r \in ReserveState /\ out.d \in PositionState /\ out.r.updated = now
    BY <1>6, <1>9, <1>19 DEF Ctxs, Contexts
  <2>2. reserve'[i] = in.r /\ Holding(i, vault'[i]) = h0 /\ Holding(i, vault[i]) = h0
    BY <1>7 DEF h0, TypeOK
  <2>3. Through(f, t, i, out.r, h1, out.d)
    BY <1>1, <1>9, <1>28, <1>18, <1>23, <1>24, <2>1, <2>2 DEF Through
  <2>4. QED
    BY <2>3
<1>30. \A j \in Assets \ {i} : reserve'[j] = reserve[j]
  BY <1>1, <1>7
<1>31. Relieves(config[t], config'[t]) /\ \A b \in Accounts \ {f, t} : config'[b] = config[b]
  BY <1>12, <1>8, <1>14
<1>32. QED
  BY <1>7, <1>25, <1>26, <1>27, <1>28, <1>29, <1>30, <1>31 DEF BringsTo

LEMMA TransferDebtBrings ==
  ASSUME TypeOK, NEW f \in Accounts, NEW t \in Accounts, f # t, NEW i \in Assets,
         i = NumAssets - 1, NEW n \in Nat, TransferDebt(f, t, i, n)
  PROVE  /\ BringsTo(f, i, 0, -n) /\ BringsTo(t, i, 0, n)
         /\ \A j \in Assets \ {i} : data'[f][j] = data[f][j] /\ data'[t][j] = data[t][j]
         /\ \A b \in Accounts \ {f, t} : data'[b] = data[b]
         /\ \E r, h, d : Through(f, t, i, r, h, d)
         /\ \A j \in Assets \ {i} : reserve'[j] = reserve[j]
         /\ vault' = vault
         /\ Relieves(config[f], config'[f])
         /\ \A b \in Accounts \ {f, t} : config'[b] = config[b]
<1> DEFINE x   == Open(reserve[i], data[f][i], config[f])
           out == AccountForRepay(x, i, n, FALSE, FeeReduction[f], limits[i])
           mid == [out EXCEPT !.d = data[t][i], !.c = config[t]]
           acc == AccountForBorrow(mid, i, n, FeeReduction[t], limits[i])
           in  == Close(acc, i)
           h0  == Holding(i, vault[i])
           h1  == Holding(i, Received(i, vault[i], n))
<1>1. /\ config[f] \in ConfigState(Assets, RuleIds)
      /\ data[f] \in [Assets -> PositionState] /\ data[f][i] \in PositionState
      /\ reserve[i] \in ReserveState /\ now \in Nat /\ FeeReduction[f] \in CutState
  BY StoredTyped, Zenon
<1>2. /\ config[t] \in ConfigState(Assets, RuleIds)
      /\ data[t] \in [Assets -> PositionState] /\ data[t][i] \in PositionState
      /\ FeeReduction[t] \in CutState
  BY StoredTyped, Zenon
<1>3. x \in Ctxs /\ n \in Int
  BY <1>1, OpenGood DEF Ctxs
<1>4. ASSUME NEW clamp
      PROVE  LET w == AccountForRepay(x, i, n, clamp, FeeReduction[f], limits[i])
             IN  /\ w \in Ctxs
                 /\ w.ok => /\ x.ok
                            /\ Brings(x, w, FeeReduction[f], 0, -RepaidAmount(x, n, clamp, FeeReduction[f]))
                            /\ Relieves(x.c, w.c)
                            /\ x.r.updated = now =>
                                 Neutral(x.r, h0, x.d, w.r,
                                         Holding(i, Received(i, vault[i], RepaidAmount(x, n, clamp, FeeReduction[f]))), w.d)
  <2>1. limits[i] \in LimitState /\ vault[i] \in Int
    BY DEF TypeOK
  <2>2. QED
    BY <1>1, <1>3, <2>1, AccountForRepayGood, AccountForRepayWorks, RepayBrings,
       RepayBits, RepayNeutral DEF Ctxs
<1>5. RepaidAmount(x, n, FALSE, FeeReduction[f]) = n
  BY DEF RepaidAmount
<1>6. /\ out \in Ctxs
      /\ out.ok => /\ Brings(x, out, FeeReduction[f], 0, -n) /\ x.ok /\ Relieves(x.c, out.c)
                   /\ x.r.updated = now => Neutral(x.r, h0, x.d, out.r, h1, out.d)
  BY <1>4, <1>5, Zenon
<1>7. /\ in.ok /\ vault' = vault /\ reserve' = [reserve EXCEPT ![i] = in.r]
      /\ data' = [data EXCEPT ![f] = Inserted(data[f], i, out.d), ![t] = [data[t] EXCEPT ![i] = in.d]]
  BY DEF TransferDebt, PassDebt, DebtOut, DebtIn
<1>8. config' = [config EXCEPT ![t] = in.c, ![f] = out.c] /\ DOMAIN config = Accounts
  BY DEF TransferDebt, PassDebt, DebtOut, DebtIn, TypeOK
<1> HIDE DEF out
<1>9. mid \in Ctxs /\ mid.ok = out.ok /\ mid.r = out.r /\ mid.d = data[t][i]
  BY <1>2, <1>6 DEF Ctxs, Contexts
<1> HIDE DEF mid
<1>10. acc \in Ctxs
  BY <1>3, <1>9, AccountForBorrowGood DEF Ctxs
<1>11. in \in Ctxs
  BY <1>10, CloseGood DEF Ctxs
<1> HIDE DEF in
<1>12. acc.ok /\ in.d = acc.d
  BY <1>7, <1>10, CloseBrings DEF in
<1>13. Brings(mid, acc, FeeReduction[t], 0, n)
  BY <1>2, <1>9, <1>12, BorrowBrings
<1>14. mid.ok
  <2>1. limits[i] \in LimitState
    BY DEF TypeOK
  <2>2. QED
    BY <1>2, <1>9, <1>12, <2>1, AccountForBorrowWorks
<1>15. x.ok /\ Brings(x, out, FeeReduction[f], 0, -n) /\ Relieves(x.c, out.c)
  BY <1>6, <1>9, <1>14
<1>16. /\ x.r = Updated(reserve[i], now) /\ x.d = data[f][i] /\ x.r.updated = now
       /\ x.c = config[f]
  BY <1>1, <1>15, OpenSucceeded DEF Context
<1>17. vault[i] \in Int /\ Received(i, vault[i], n) \in Int /\ h1 \in Int
       /\ Sent(i, Received(i, vault[i], n), n) = vault[i]
  BY <1>1, <1>3, StoredTyped, HoldingMoves
<1>18. mid.r.updated = now
  BY <1>9, <1>15, <1>16 DEF Brings, Alike
<1>19. Neutral(mid.r, h1, mid.d, acc.r, h0, acc.d)
  BY <1>2, <1>9, <1>12, <1>17, <1>18, BorrowNeutral
<1> HIDE DEF acc, x, h0, h1
<1>20. acc.r.updated = now
  BY <1>18, <1>19 DEF Neutral
<1>21. Neutral(acc.r, h0, acc.d, in.r, h0, in.d)
  BY <1>7, <1>10, <1>20, CloseNeutral DEF in
<1>22. Neutral(mid.r, h1, data[t][i], in.r, h0, in.d)
  BY <1>9, <1>19, <1>21, NeutralTransitive
<1>23. Neutral(reserve[i], h0, data[f][i], out.r, h1, out.d)
  <2>1. Neutral(reserve[i], h0, data[f][i], x.r, h0, x.d)
    BY <1>1, <1>16, UpdateNeutral
  <2>2. Neutral(x.r, h0, x.d, out.r, h1, out.d)
    BY <1>6, <1>9, <1>14, <1>16
  <2>3. QED
    BY <2>1, <2>2, NeutralTransitive
<1>24. Nets(Updated(reserve[i], now), data[f][i], out.d, FeeReduction[f], 0, -n)
       /\ Alike(Updated(reserve[i], now), out.r)
  BY <1>15, <1>16 DEF Brings
<1>25. Nets(Updated(reserve[i], now), data[t][i], in.d, FeeReduction[t], 0, n)
  BY <1>9, <1>12, <1>13, <1>24, AlikeNets DEF Brings
<1>26. /\ data'[f] = [data[f] EXCEPT ![i] = out.d] /\ data'[t] = [data[t] EXCEPT ![i] = in.d]
       /\ \A b \in Accounts \ {f, t} : data'[b] = data[b]
  <2>1. out.d \in PositionState
    BY <1>6 DEF Ctxs, Contexts
  <2>2. Inserted(data[f], i, out.d) = [data[f] EXCEPT ![i] = out.d]
    BY <1>1, <2>1, InsertedTyped
  <2>3. DOMAIN data = Accounts
    BY DEF TypeOK
  <2>4. QED
    BY <1>7, <2>2, <2>3
<1>27. /\ data'[f][i] = out.d /\ data'[t][i] = in.d
       /\ \A j \in Assets \ {i} : data'[f][j] = data[f][j] /\ data'[t][j] = data[t][j]
  BY <1>1, <1>2, <1>26
<1>28. \E r, h, d : Through(f, t, i, r, h, d)
  <2>1. out.r \in ReserveState /\ out.d \in PositionState /\ out.r.updated = now
    BY <1>6, <1>9, <1>18 DEF Ctxs, Contexts
  <2>2. reserve'[i] = in.r /\ Holding(i, vault'[i]) = h0 /\ Holding(i, vault[i]) = h0
    BY <1>7 DEF h0, TypeOK
  <2>3. Through(f, t, i, out.r, h1, out.d)
    BY <1>1, <1>9, <1>27, <1>17, <1>22, <1>23, <2>1, <2>2 DEF Through
  <2>4. QED
    BY <2>3
<1>29. \A j \in Assets \ {i} : reserve'[j] = reserve[j]
  BY <1>1, <1>7
<1>30. Relieves(config[f], config'[f]) /\ \A b \in Accounts \ {f, t} : config'[b] = config[b]
  BY <1>15, <1>16, <1>8
<1>31. QED
  BY <1>7, <1>24, <1>25, <1>26, <1>27, <1>28, <1>29, <1>30 DEF BringsTo

\* A reserve in which nothing happens.
LEMMA SquareSame ==
  ASSUME NEW i, NEW r, NEW h, NEW ds0, NEW ds1, \A a \in Accounts : ds1[a][i] = ds0[a][i]
  PROVE  Square(i, r, h, ds0, r, h, ds1)
<1>1. /\ DebtsGrow(i, Updated(r, now), ds1, Accounts) = DebtsGrow(i, Updated(r, now), ds0, Accounts)
      /\ DepositsGrow(i, Updated(r, now), ds1, Accounts)
           = DepositsGrow(i, Updated(r, now), ds0, Accounts)
  BY DEF DebtsGrow, DepositsGrow
<1>2. FullStanding(i, r, h, ds1) = FullStanding(i, r, h, ds0)
  BY <1>1 DEF FullStanding
<1>3. QED
  BY <1>2 DEF Square, Alike

\* Account f passes something of asset i on to account t.
LEMMA TransferSquares ==
  ASSUME TypeOK, TypeOK', Dated, NEW f \in Accounts, NEW t \in Accounts, f # t, NEW i \in Assets,
         \E r, h, d : Through(f, t, i, r, h, d),
         \A j \in Assets \ {i} : data'[f][j] = data[f][j] /\ data'[t][j] = data[t][j],
         \A b \in Accounts \ {f, t} : data'[b] = data[b],
         \A j \in Assets \ {i} : reserve'[j] = reserve[j] /\ vault'[j] = vault[j]
  PROVE  Squares
<1>1. ASSUME NEW j \in Assets, j = i
      PROVE  Square(j, reserve[j], Holding(j, vault[j]), data,
                    reserve'[j], Holding(j, vault'[j]), data')
  BY <1>1, ThroughSquare
<1>2. ASSUME NEW j \in Assets, j # i
      PROVE  Square(j, reserve[j], Holding(j, vault[j]), data,
                    reserve'[j], Holding(j, vault'[j]), data')
  <2>1. \A a \in Accounts : data'[a][j] = data[a][j]
    BY <1>2
  <2>2. reserve'[j] = reserve[j] /\ vault'[j] = vault[j]
    BY <1>2
  <2>3. QED
    BY <2>1, <2>2, SquareSame
<1>3. QED
  BY <1>1, <1>2 DEF Squares

LEMMA TransferDepositSquares ==
  ASSUME TypeOK, TypeOK', Dated, NEW f \in Accounts, NEW t \in Accounts, f # t, NEW i \in Assets,
         i = NumAssets - 1, NEW n \in Nat, TransferDeposit(f, t, i, n)
  PROVE  Squares
BY TransferDepositBrings, TransferSquares

LEMMA TransferDebtSquares ==
  ASSUME TypeOK, TypeOK', Dated, NEW f \in Accounts, NEW t \in Accounts, f # t, NEW i \in Assets,
         i = NumAssets - 1, NEW n \in Nat, TransferDebt(f, t, i, n)
  PROVE  Squares
BY TransferDebtBrings, TransferSquares

-----------------------------------------------------------------------------
(* liquidate *)

\* The three parts of a liquidation, each on a reserve r and a vault v.
LEMMA RepaysPart ==
  ASSUME now \in Nat, NEW r \in ReserveState, NEW d \in PositionState,
         NEW c \in ConfigState(Assets, RuleIds), NEW i \in Assets, NEW v \in Int, NEW n \in Nat,
         NEW clamp, NEW cut \in CutState, NEW lim \in LimitState,
         Close(AccountForRepay(Open(r, d, c), i, n, clamp, cut, lim), i).ok
  PROVE  LET y == Close(AccountForRepay(Open(r, d, c), i, n, clamp, cut, lim), i)
             m == RepaidAmount(Open(r, d, c), n, clamp, cut)
         IN  /\ y \in Ctxs /\ m \in Nat
             /\ Neutral(r, Holding(i, v), d, y.r, Holding(i, Received(i, v, m)), y.d)
<1> DEFINE x == Open(r, d, c)
           z == AccountForRepay(x, i, n, clamp, cut, lim)
           y == Close(z, i)
           m == RepaidAmount(x, n, clamp, cut)
           h == Holding(i, v)
           k == Holding(i, Received(i, v, m))
<1>1. x \in Ctxs /\ n \in Int
  BY OpenGood DEF Ctxs
<1>2. z \in Ctxs /\ m \in Nat
  <2> HIDE DEF x
  <2>1. QED
    BY <1>1, AccountForRepayGood, AmountsAreNatural DEF Ctxs
<1>3. y \in Ctxs /\ z.ok
  <2>1. y.ok
    OBVIOUS
  <2> HIDE DEF z
  <2>2. QED
    BY <1>2, <2>1, CloseGood, CloseBrings DEF Ctxs
<1>4. x.ok
  <2> HIDE DEF x
  <2>1. QED
    BY <1>1, <1>3, AccountForRepayWorks
<1>5. x.r = Updated(r, now) /\ x.d = d /\ x.r.updated = now
  BY <1>4, OpenSucceeded DEF Context
<1>6. Neutral(r, h, d, x.r, h, x.d)
  <2> HIDE DEF x, h
  <2>1. QED
    BY <1>5, UpdateNeutral
<1> HIDE DEF x
<1>7. Neutral(x.r, h, x.d, z.r, k, z.d)
  BY <1>1, <1>3, <1>5, RepayNeutral
<1>8. z.r.updated = now
  BY <1>5, <1>7 DEF Neutral
<1> HIDE DEF z, h, k
<1>9. Neutral(z.r, k, z.d, y.r, k, y.d)
  BY <1>2, <1>8, CloseNeutral DEF z, x
<1> HIDE DEF y
<1>10. Neutral(r, h, d, y.r, k, y.d)
  BY <1>6, <1>7, <1>9, NeutralTransitive
<1>11. QED
  BY <1>2, <1>3, <1>10 DEF x, y, z, h, k

LEMMA TakesPart ==
  ASSUME now \in Nat, NEW r \in ReserveState, NEW d \in PositionState,
         NEW c \in ConfigState(Assets, RuleIds), NEW i \in Assets, NEW v \in Int, NEW n \in Nat,
         NEW clamp, NEW cut \in CutState, NEW lim \in LimitState,
         AccountForWithdraw(Open(r, d, c), i, n, clamp, cut, lim).ok
  PROVE  LET y == AccountForWithdraw(Open(r, d, c), i, n, clamp, cut, lim)
             m == WithdrawnAmount(Open(r, d, c), n, clamp, cut)
         IN  /\ y.r.updated = now
             /\ Neutral(r, Holding(i, v), d, y.r, Holding(i, Sent(i, v, m)), y.d)
<1> DEFINE x == Open(r, d, c)
           y == AccountForWithdraw(x, i, n, clamp, cut, lim)
           h == Holding(i, v)
           k == Holding(i, Sent(i, v, WithdrawnAmount(x, n, clamp, cut)))
<1>1. x \in Ctxs
  BY OpenGood DEF Ctxs
<1>2. x.ok
  <2> HIDE DEF x
  <2>1. QED
    BY <1>1, AccountForWithdrawWorks DEF x
<1>3. x.r = Updated(r, now) /\ x.d = d /\ x.r.updated = now
  BY <1>2, OpenSucceeded DEF Context
<1>4. Neutral(r, h, d, x.r, h, x.d)
  <2> HIDE DEF x, h
  <2>1. QED
    BY <1>3, UpdateNeutral
<1> HIDE DEF x
<1>5. Neutral(x.r, h, x.d, y.r, k, y.d)
  BY <1>1, <1>3, WithdrawNeutral DEF x
<1>6. y.r.updated = now
  BY <1>3, <1>5 DEF Neutral
<1> HIDE DEF y, h, k
<1>7. Neutral(r, h, d, y.r, k, y.d)
  BY <1>4, <1>5, NeutralTransitive
<1>8. QED
  BY <1>6, <1>7 DEF x, y, h, k

LEMMA GivesPart ==
  ASSUME now \in Nat, NEW x \in Ctxs, x.r.updated = now, NEW i \in Assets, NEW v \in Int,
         NEW n \in Nat, NEW cut \in CutState, NEW lim \in LimitState,
         Close(AccountForDeposit(x, i, n, cut, lim), i).ok
  PROVE  LET y == Close(AccountForDeposit(x, i, n, cut, lim), i)
         IN  /\ x.ok /\ y.r.updated = now
             /\ Neutral(x.r, Holding(i, v), x.d, y.r, Holding(i, Received(i, v, n)), y.d)
             /\ Nets(x.r, x.d, y.d, cut, n, 0) /\ Relieves(x.c, y.c)
<1> DEFINE z == AccountForDeposit(x, i, n, cut, lim)
           y == Close(z, i)
           h == Holding(i, v)
           k == Holding(i, Received(i, v, n))
<1>1. z \in Ctxs
  <2>1. n \in Int
    OBVIOUS
  <2>2. QED
    BY <2>1, AccountForDepositGood DEF Ctxs
<1>2. z.ok
  <2> HIDE DEF z
  <2>1. QED
    BY <1>1, CloseBrings DEF z
<1>3. Neutral(x.r, h, x.d, z.r, k, z.d) /\ x.ok
  BY <1>2, DepositNeutral, AccountForDepositWorks
<1>4. z.r.updated = now
  BY <1>3 DEF Neutral
<1>5. /\ Nets(x.r, x.d, z.d, cut, n, 0) /\ Relieves(x.c, z.c)
      /\ y.d = z.d /\ y.c = z.c
  <2>1. Nets(x.r, x.d, z.d, cut, n, 0) /\ Relieves(x.c, z.c)
    BY <1>2, DepositBrings, DepositBits DEF Brings
  <2> HIDE DEF z
  <2>2. QED
    BY <1>1, <2>1, CloseBrings DEF z
<1> HIDE DEF z, h, k
<1>6. Neutral(z.r, k, z.d, y.r, k, y.d)
  BY <1>1, <1>4, CloseNeutral DEF z
<1> HIDE DEF y
<1>7. Neutral(x.r, h, x.d, y.r, k, y.d) /\ y.r.updated = now
  BY <1>3, <1>4, <1>6, NeutralTransitive DEF Neutral
<1>8. QED
  BY <1>3, <1>7, <1>5 DEF y, z, h, k

LEMMA LiquidateSquares ==
  ASSUME TypeOK, TypeOK', Dated, NEW l \in Accounts, NEW a \in Accounts, l # a,
         NEW rp \in Assets, NEW tk \in Assets, NEW n \in Nat, Liquidate(l, a, rp, tk, n)
  PROVE  /\ Squares
         /\ \E taken \in Nat : BringsTo(l, tk, taken, 0)
         /\ Relieves(config[l], config'[l])
         /\ \A j \in Assets \ {tk} : data'[l][j] = data[l][j]
         /\ \A b \in Accounts \ {a, l} : data'[b] = data[b] /\ config'[b] = config[b]
<1> DEFINE cut    == FeeReduction[a]
           x      == Open(reserve[rp], data[a][rp], config[a])
           paid   == RepaidAmount(x, n, TRUE, cut)
           repaid == Close(AccountForRepay(x, rp, n, TRUE, cut, limits[rp]), rp)
           v      == Received(rp, vault[rp], paid)
           rs     == [reserve EXCEPT ![rp] = repaid.r]
           ds     == [data[a] EXCEPT ![rp] = repaid.d]
           wanted == AmountToTake(paid, rp, tk, price, RuleOf(config[a]))
           y      == Open(rs[tk], ds[tk], repaid.c)
           out    == AccountForWithdraw(y, tk, wanted, TRUE, cut, limits[tk])
           taken  == WithdrawnAmount(y, wanted, TRUE, cut)
           mid    == [out EXCEPT !.d = data[l][tk], !.c = config[l]]
           in     == Close(AccountForDeposit(mid, tk, taken, FeeReduction[l], limits[tk]), tk)
           w      == Sent(tk, vault'[tk], taken)
<1>1. /\ config[a] \in ConfigState(Assets, RuleIds) /\ data[a] \in [Assets -> PositionState]
      /\ data[a][rp] \in PositionState /\ reserve \in [Assets -> ReserveState]
      /\ reserve[rp] \in ReserveState /\ now \in Nat /\ price \in [Assets -> Nat]
      /\ limits[rp] \in LimitState /\ cut \in CutState /\ vault[rp] \in Int
  BY StoredTyped, Zenon
<1>2. /\ config[l] \in ConfigState(Assets, RuleIds) /\ data[l][tk] \in PositionState
      /\ data[l] \in [Assets -> PositionState]
      /\ limits[tk] \in LimitState /\ FeeReduction[l] \in CutState
  BY StoredTyped, Zenon
<1>3. RuleOf(config[a]) \in MarketRule
  <2>1. rules \in Seq(MarketRule) /\ config[a].rule < Len(rules)
    BY DEF TypeOK
  <2>2. config[a].rule \in Nat
    BY <1>1 DEF RuleIds, ConfigState
  <2>3. QED
    BY <2>1, <2>2 DEF RuleOf
<1>4. /\ repaid.ok /\ in.ok /\ CanPriceTake(rp, tk, price, RuleOf(config[a]))
      /\ reserve' = [rs EXCEPT ![tk] = in.r]
      /\ data' = [data EXCEPT ![a] = [ds EXCEPT ![tk] = out.d],
                              ![l] = [data[l] EXCEPT ![tk] = in.d]]
      /\ config' = [config EXCEPT ![a] = out.c, ![l] = in.c]
      /\ vault' = [vault EXCEPT ![rp] = v]
  BY DEF Liquidate, AccountForLiquidate, Seize
<1>5. vault \in [Assets -> Int] /\ vault' \in [Assets -> Int] /\ data \in Data /\ data' \in Data
      /\ reserve' \in [Assets -> ReserveState]
  BY DEF TypeOK, Data
<1>6. ASSUME NEW clamp, Close(AccountForRepay(x, rp, n, clamp, cut, limits[rp]), rp).ok
      PROVE  LET z == Close(AccountForRepay(x, rp, n, clamp, cut, limits[rp]), rp)
                 m == RepaidAmount(x, n, clamp, cut)
             IN  /\ z \in Ctxs /\ m \in Nat
                 /\ Neutral(reserve[rp], Holding(rp, vault[rp]), data[a][rp],
                            z.r, Holding(rp, Received(rp, vault[rp], m)), z.d)
  BY <1>1, <1>6, RepaysPart
<1>7. /\ repaid \in Ctxs /\ paid \in Nat
      /\ Neutral(reserve[rp], Holding(rp, vault[rp]), data[a][rp],
                 repaid.r, Holding(rp, v), repaid.d)
  BY <1>4, <1>6, Zenon
<1> HIDE DEF paid, repaid, v
<1>8. wanted \in Nat
  BY <1>1, <1>3, <1>4, <1>7, AmountToTakeTyped
<1> HIDE DEF wanted
<1>9. repaid.r \in ReserveState /\ repaid.d \in PositionState /\ repaid.c \in ConfigState(Assets, RuleIds)
  BY <1>7 DEF Ctxs, Contexts
<1>10. ASSUME NEW j \in Assets
       PROVE  Neutral(reserve[j], Holding(j, vault[j]), data[a][j],
                      rs[j], Holding(j, vault'[j]), ds[j])
  <2>1. CASE j = rp
    <3>1. rs[j] = repaid.r /\ ds[j] = repaid.d /\ vault'[j] = v
      BY <1>1, <1>4, <1>5, <2>1
    <3>2. QED
      BY <1>7, <2>1, <3>1
  <2>2. CASE j # rp
    <3>1. rs[j] = reserve[j] /\ ds[j] = data[a][j] /\ vault'[j] = vault[j]
      BY <1>1, <1>4, <1>5, <2>2
    <3>2. QED
      BY <3>1, NeutralSame
  <2>3. QED
    BY <2>1, <2>2
<1>11. /\ rs \in [Assets -> ReserveState] /\ ds \in [Assets -> PositionState]
       /\ rs[tk] \in ReserveState /\ ds[tk] \in PositionState /\ vault'[tk] \in Int
  BY <1>1, <1>5, <1>9
<1> HIDE DEF rs, ds
<1>12. y \in Ctxs /\ wanted \in Int
  BY <1>1, <1>8, <1>9, <1>11, OpenGood DEF Ctxs
<1>13. ASSUME NEW clamp
       PROVE  LET z == AccountForWithdraw(y, tk, wanted, clamp, cut, limits[tk])
                  m == WithdrawnAmount(y, wanted, clamp, cut)
              IN  /\ z \in Ctxs /\ m \in Nat
                  /\ z.ok => /\ z.r.updated = now
                             /\ Neutral(rs[tk], Holding(tk, vault'[tk]), ds[tk],
                                        z.r, Holding(tk, Sent(tk, vault'[tk], m)), z.d)
  <2>1. AccountForWithdraw(y, tk, wanted, clamp, cut, limits[tk]) \in Ctxs
    <3> HIDE DEF y
    <3>1. QED
      BY <1>12, AccountForWithdrawGood DEF Ctxs
  <2>2. WithdrawnAmount(y, wanted, clamp, cut) \in Nat
    BY <1>8, <1>12, AmountsAreNatural
  <2>3. QED
    BY <1>1, <1>2, <1>8, <1>9, <1>11, <2>1, <2>2, TakesPart
<1>14. /\ out \in Ctxs /\ taken \in Nat
       /\ out.ok => /\ out.r.updated = now
                    /\ Neutral(rs[tk], Holding(tk, vault'[tk]), ds[tk],
                               out.r, Holding(tk, w), out.d)
  BY <1>13, Zenon
<1> HIDE DEF out, taken
<1>15. /\ mid \in Ctxs /\ mid.ok = out.ok /\ mid.r = out.r /\ mid.d = data[l][tk]
       /\ mid.c = config[l]
  BY <1>2, <1>14 DEF Ctxs, Contexts
<1>16. w \in Int /\ Received(tk, w, taken) = vault'[tk]
  <2>1. taken \in Int
    BY <1>14
  <2>2. QED
    BY <1>11, <2>1, HoldingMoves
<1> HIDE DEF mid, w
<1>17. out.ok
  <2> DEFINE dep == AccountForDeposit(mid, tk, taken, FeeReduction[l], limits[tk])
  <2>1. taken \in Int
    BY <1>14
  <2>2. dep \in Ctxs
    BY <1>15, <2>1, AccountForDepositGood DEF Ctxs
  <2>3. Close(dep, tk).ok
    BY <1>4
  <2> HIDE DEF dep
  <2>4. dep.ok
    BY <2>2, <2>3, CloseBrings
  <2>5. QED
    BY <1>2, <1>14, <1>15, <2>4, AccountForDepositWorks DEF dep
<1>18. /\ Neutral(mid.r, Holding(tk, w), mid.d, in.r, Holding(tk, Received(tk, w, taken)), in.d)
       /\ Nets(mid.r, mid.d, in.d, FeeReduction[l], taken, 0) /\ Relieves(mid.c, in.c)
  BY <1>1, <1>2, <1>4, <1>14, <1>15, <1>16, <1>17, GivesPart
<1> HIDE DEF in
<1>19. /\ data'[a] = [ds EXCEPT ![tk] = out.d] /\ data'[l] = [data[l] EXCEPT ![tk] = in.d]
       /\ \A b \in Accounts \ {a, l} : data'[b] = data[b]
  BY <1>4, <1>5 DEF Data
<1>20. /\ data'[a][tk] = out.d /\ data'[l][tk] = in.d /\ reserve'[tk] = in.r
       /\ \A j \in Assets \ {tk} : /\ data'[a][j] = ds[j] /\ data'[l][j] = data[l][j]
                                   /\ reserve'[j] = rs[j]
  <2>1. data'[a][tk] = out.d /\ \A j \in Assets \ {tk} : data'[a][j] = ds[j]
    BY <1>11, <1>19
  <2>2. data'[l][tk] = in.d /\ \A j \in Assets \ {tk} : data'[l][j] = data[l][j]
    BY <1>2, <1>19
  <2>3. reserve'[tk] = in.r /\ \A j \in Assets \ {tk} : reserve'[j] = rs[j]
    BY <1>4, <1>11
  <2>4. QED
    BY <2>1, <2>2, <2>3
<1> DEFINE h == Holding(tk, w)
<1>21. Through(a, l, tk, out.r, h, out.d)
  <2>1. out.r \in ReserveState /\ out.d \in PositionState /\ out.r.updated = now
    BY <1>14, <1>17 DEF Ctxs, Contexts
  <2>2. h \in Int
    BY <1>16 DEF Holding
  <2>3. Neutral(reserve[tk], Holding(tk, vault[tk]), data[a][tk],
                rs[tk], Holding(tk, vault'[tk]), ds[tk])
    BY <1>10
  <2>4. Neutral(rs[tk], Holding(tk, vault'[tk]), ds[tk], out.r, h, out.d)
    BY <1>14, <1>17
  <2> HIDE DEF h
  <2>5. Neutral(reserve[tk], Holding(tk, vault[tk]), data[a][tk], out.r, h, out.d)
    BY <2>3, <2>4, NeutralTransitive
  <2>6. Neutral(out.r, h, data[l][tk], reserve'[tk], Holding(tk, vault'[tk]), data'[l][tk])
    BY <1>15, <1>16, <1>18, <1>20 DEF h
  <2>7. QED
    BY <1>1, <1>20, <2>1, <2>2, <2>5, <2>6 DEF Through
<1> HIDE DEF h
<1>22. ASSUME NEW j \in Assets, j = tk
       PROVE  Square(j, reserve[j], Holding(j, vault[j]), data,
                     reserve'[j], Holding(j, vault'[j]), data')
  BY <1>19, <1>21, <1>22, ThroughSquare
<1>23. ASSUME NEW j \in Assets, j # tk
       PROVE  Square(j, reserve[j], Holding(j, vault[j]), data,
                     reserve'[j], Holding(j, vault'[j]), data')
  <2> DEFINE h0 == Holding(j, vault[j])  h1 == Holding(j, vault'[j])
  <2>1. h0 \in Int /\ h1 \in Int
    BY <1>5 DEF Holding
  <2>2. Neutral(reserve[j], h0, data[a][j], reserve'[j], h1, data'[a][j])
    BY <1>10, <1>20, <1>23
  <2>3. \A b \in Accounts \ {a} : data'[b][j] = data[b][j]
    BY <1>19, <1>20, <1>23
  <2>4. reserve[j] \in ReserveState /\ reserve'[j] \in ReserveState /\ reserve[j].updated <= now
    BY <1>1, <1>5 DEF Dated
  <2> HIDE DEF h0, h1
  <2>5. Square(j, reserve[j], h0, data, reserve'[j], h1, data')
    <3> DEFINE dd == data'
    <3>1. dd \in Data /\ Neutral(reserve[j], h0, data[a][j], reserve'[j], h1, dd[a][j])
          /\ \A b \in Accounts \ {a} : dd[b][j] = data[b][j]
      BY <1>5, <2>2, <2>3
    <3> HIDE DEF dd
    <3>2. Square(j, reserve[j], h0, data, reserve'[j], h1, dd)
      BY <1>1, <1>5, <2>1, <2>4, <3>1, OneSquare
    <3>3. QED
      BY <3>2 DEF dd
  <2>6. QED
    BY <2>5 DEF h0, h1
<1>24. BringsTo(l, tk, taken, 0)
  <2>1. Alike(Updated(reserve[tk], now), Updated(out.r, now)) /\ out.r.updated = now
    BY <1>14, <1>17, <1>21 DEF Through, Neutral
  <2>2. Alike(Updated(reserve[tk], now), mid.r)
    BY <1>15, <2>1 DEF Updated
  <2>3. Nets(Updated(reserve[tk], now), mid.d, in.d, FeeReduction[l], taken, 0)
    BY <1>18, <2>2, AlikeNets
  <2>4. QED
    BY <1>15, <1>20, <2>3 DEF BringsTo
<1>25. config'[l] = in.c /\ \A b \in Accounts \ {a, l} : config'[b] = config[b]
  BY <1>4 DEF TypeOK
<1>26. QED
  BY <1>14, <1>15, <1>18, <1>19, <1>20, <1>22, <1>23, <1>24, <1>25 DEF Squares

-----------------------------------------------------------------------------
(* Every message of a client *)

\* accumulate_interest, and the rates that follow from another model.
LEMMA RefreshedSquare ==
  ASSUME NEW r \in ReserveState, NEW i, NEW m, NEW h, NEW ds
  PROVE  Square(i, r, h, ds, Rerated(Updated(r, now), m), h, ds)
<1> DEFINE u == Updated(r, now)
           s == Rerated(u, m)
<1>1. /\ u.updated = now /\ u.totalDebt = r.totalDebt /\ u.totalDeposit = r.totalDeposit
      /\ u.earnedFee = r.earnedFee
  BY UpdatedBooks
<1>2. /\ s.depositIndex = u.depositIndex /\ s.debtIndex = u.debtIndex
      /\ s.depositFee = u.depositFee /\ s.debtFee = u.debtFee /\ s.updated = u.updated
      /\ s.totalDebt = u.totalDebt /\ s.totalDeposit = u.totalDeposit /\ s.earnedFee = u.earnedFee
  BY DEF Rerated, Updated, ReserveState
<1> HIDE DEF u, s
<1>3. Alike(u, s) /\ Updated(s, now) = s /\ Margin(s) = Margin(r)
  BY <1>1, <1>2 DEF Alike, Updated, Margin
<1>4. /\ DebtsGrow(i, s, ds, Accounts) = DebtsGrow(i, u, ds, Accounts)
      /\ DepositsGrow(i, s, ds, Accounts) = DepositsGrow(i, u, ds, Accounts)
  BY <1>3, AlikeSums
<1>5. FullStanding(i, s, h, ds) = FullStanding(i, r, h, ds)
  BY <1>3, <1>4 DEF FullStanding, u
<1>6. QED
  BY <1>1, <1>2, <1>3, <1>5 DEF Square, u, s

\* Messages that touch neither positions nor vaults.
LEMMA QuietSquares ==
  ASSUME TypeOK, UNCHANGED <<data, vault>>,
         \A i \in Assets : \/ reserve'[i] = reserve[i]
                           \/ \E m : reserve'[i] = Rerated(Updated(reserve[i], now), m)
  PROVE  Squares
<1>1. ASSUME NEW i \in Assets
      PROVE  Square(i, reserve[i], Holding(i, vault[i]), data,
                    reserve'[i], Holding(i, vault'[i]), data')
  <2>1. reserve[i] \in ReserveState /\ vault'[i] = vault[i] /\ data' = data
    BY DEF TypeOK
  <2>2. CASE reserve'[i] = reserve[i]
    BY <2>1, <2>2, SquareSame
  <2>3. CASE \E m : reserve'[i] = Rerated(Updated(reserve[i], now), m)
    BY <2>1, <2>3, RefreshedSquare
  <2>4. QED
    BY <2>2, <2>3
<1>2. QED
  BY <1>1 DEF Squares

\* The assets that have an interest rate model keep having one.
SameKind == \A i \in Assets : model'[i] = None <=> model[i] = None

LEMMA ClientSquares ==
  ASSUME SafeRequests, TypeOK, TypeOK', Dated, ClientNext
  PROVE  Squares /\ SameKind /\ Dated' /\ now' = now
<1>1. ASSUME NEW q \in Requests, Operate(q[1], q[2])
      PROVE  Squares /\ model' = model /\ now' = now
  <2>1. q[1] \in Accounts /\ q[2] \in ActionState
    BY RequestAssumption
  <2>2. Squares
    BY <1>1, <2>1, OperateSquares
  <2>3. QED
    BY <1>1, <2>2 DEF Operate, Commit, setup
<1>2. ASSUME NEW q \in MultiRequests, MultiOp(q[1], q[2])
      PROVE  Squares /\ model' = model /\ now' = now
  <2>1. q[1] \in Accounts /\ q[2] \in ActionState \X ActionState
    BY RequestAssumption
  <2>2. Squares
    BY <1>2, <2>1, MultiOpSquares
  <2>3. QED
    BY <1>2, <2>2 DEF MultiOp, Commit, setup
<1>3. ASSUME NEW q \in DepositTransfers, TransferDeposit(q[1], q[2], q[3], q[4])
      PROVE  Squares /\ model' = model /\ now' = now
  <2>1. /\ q[1] \in Accounts /\ q[2] \in Accounts /\ q[3] \in Assets /\ q[4] \in Nat
        /\ q[1] # q[2] /\ q[3] = NumAssets - 1
    BY RequestAssumption DEF SafeRequests
  <2>2. Squares
    BY <1>3, <2>1, TransferDepositSquares
  <2>3. QED
    BY <1>3, <2>2 DEF TransferDeposit, setup
<1>4. ASSUME NEW q \in DebtTransfers, TransferDebt(q[1], q[2], q[3], q[4])
      PROVE  Squares /\ model' = model /\ now' = now
  <2>1. /\ q[1] \in Accounts /\ q[2] \in Accounts /\ q[3] \in Assets /\ q[4] \in Nat
        /\ q[1] # q[2] /\ q[3] = NumAssets - 1
    BY RequestAssumption DEF SafeRequests
  <2>2. Squares
    BY <1>4, <2>1, TransferDebtSquares
  <2>3. QED
    BY <1>4, <2>2 DEF TransferDebt, setup
<1>5. ASSUME NEW q \in Liquidations, Liquidate(q[1], q[2], q[3], q[4], q[5])
      PROVE  Squares /\ model' = model /\ now' = now
  <2>1. /\ q[1] \in Accounts /\ q[2] \in Accounts /\ q[3] \in Assets /\ q[4] \in Assets
        /\ q[5] \in Nat /\ q[1] # q[2]
    BY RequestAssumption DEF SafeRequests
  <2>2. Squares
    BY <1>5, <2>1, LiquidateSquares
  <2>3. QED
    BY <1>5, <2>2 DEF Liquidate, setup
<1>6. ASSUME NEW q \in CollateralSwitches, SetAsCollateral(q[1], q[2], q[3])
      PROVE  Squares /\ model' = model /\ now' = now
  BY <1>6, QuietSquares DEF SetAsCollateral, setup
<1>7. ASSUME NEW q \in RuleChoices, ChooseMarketRule(q[1], q[2])
      PROVE  Squares /\ model' = model /\ now' = now
  BY <1>7, QuietSquares DEF ChooseMarketRule, setup
<1>8. ASSUME NEW i \in Assets, AccumulateInterest(i)
      PROVE  Squares /\ model' = model /\ now' = now
  <2>1. /\ UNCHANGED <<data, vault, model, now>>
        /\ reserve' = [reserve EXCEPT ![i] = Rerated(Updated(reserve[i], now), model[i])]
    BY <1>8 DEF AccumulateInterest, setup
  <2>2. \A j \in Assets : \/ reserve'[j] = reserve[j]
                          \/ \E m : reserve'[j] = Rerated(Updated(reserve[j], now), m)
    BY <2>1 DEF TypeOK
  <2>3. QED
    BY <2>1, <2>2, QuietSquares
<1>9. ASSUME NEW q \in Adjustments, AdjustRateAtTarget(q[1], q[2])
      PROVE  Squares /\ SameKind /\ now' = now
  <2>1. /\ UNCHANGED <<data, vault, reserve, now>> /\ q[1] \in Assets /\ model[q[1]] # None
        /\ model' = [model EXCEPT ![q[1]].rateAtTarget = q[2]]
    BY <1>9, RequestAssumption DEF AdjustRateAtTarget, book
  <2>2. model' \in [Assets -> ModelState \cup {None}] /\ model \in [Assets -> ModelState \cup {None}]
    BY DEF TypeOK
  <2>3. model'[q[1]] \in ModelState
    <3>1. model[q[1]] \in ModelState
      BY <2>1, <2>2
    <3>2. model'[q[1]] = [model[q[1]] EXCEPT !.rateAtTarget = q[2]]
      BY <2>1, <2>2
    <3>3. q[2] \in Nat
      BY RequestAssumption
    <3>4. QED
      BY <3>1, <3>2, <3>3 DEF ModelState
  <2>4. \A j \in Assets \ {q[1]} : model'[j] = model[j]
    BY <2>1, <2>2
  <2>5. SameKind
    BY <2>1, <2>3, <2>4, PoolAssumption DEF SameKind
  <2>6. QED
    BY <2>1, <2>5, QuietSquares
<1>10. Squares /\ SameKind /\ now' = now
  BY <1>1, <1>2, <1>3, <1>4, <1>5, <1>6, <1>7, <1>8, <1>9 DEF ClientNext, SameKind
<1>11. now \in Nat
  BY DEF TypeOK
<1>12. QED
  BY <1>10, <1>11 DEF Squares, Square, Dated

-----------------------------------------------------------------------------
(* The equation of the books *)

\* What some have is what is missing once they have nothing.
LEMMA TotalRest ==
  ASSUME NEW S, IsFiniteSet(S), NEW f \in [S -> Nat], NEW g \in [S -> Nat], NEW A \in SUBSET S,
         \A a \in A : g[a] = 0, \A a \in S \ A : g[a] = f[a]
  PROVE  /\ Total([a \in A |-> f[a]]) \in Nat
         /\ Total(f) = Total(g) + Total([a \in A |-> f[a]])
<1> DEFINE h == [a \in A |-> f[a]]
           X == Coins(g)
           Y == Coins(h)
<1>1. IsFiniteSet(A) /\ h \in [A -> Nat]
  BY FS_Subset
<1>2. \A p \in X : \E a \in S \ A : p \in CoinsOf(a, f[a])
  BY DEF Coins, CoinsOf
<1>3. \A p \in Y : \E a \in A : p \in CoinsOf(a, f[a])
  BY DEF Coins, CoinsOf
<1>4. X \cap Y = {}
  BY <1>2, <1>3 DEF CoinsOf
<1>5. Coins(f) = X \cup Y
  <2>1. ASSUME NEW p \in Coins(f) PROVE p \in X \cup Y
    <3>1. PICK a \in S : p \in CoinsOf(a, f[a])
      BY DEF Coins
    <3>2. CASE a \in A
      BY <3>1, <3>2 DEF Coins
    <3>3. CASE a \notin A
      BY <3>1, <3>3 DEF Coins
    <3>4. QED
      BY <3>2, <3>3
  <2>2. ASSUME NEW p \in X \cup Y PROVE p \in Coins(f)
    BY <1>2, <1>3 DEF Coins
  <2>3. QED
    BY <2>1, <2>2
<1>6. IsFiniteSet(X) /\ IsFiniteSet(Y) /\ Total(g) \in Nat /\ Total(h) \in Nat
  BY <1>1, FiniteCoins, TotalIsNumber
<1>7. Total(g) = Cardinality(X) /\ Total(h) = Cardinality(Y) /\ Total(f) = Cardinality(X \cup Y)
  BY <1>5 DEF Total
<1> HIDE DEF X, Y, h
<1>8. Cardinality(X \cup Y) = Cardinality(X) + Cardinality(Y) - Cardinality(X \cap Y)
  BY <1>6, FS_Union, Zenon
<1>9. Cardinality(X \cap Y) = 0
  BY <1>4, FS_EmptySet
<1>10. QED
  BY <1>6, <1>7, <1>8, <1>9 DEF h

\* The pool's net position moves by the interest that is accumulated.
Booked(i) ==
  LET grown == Updated(reserve[i], now)
  IN  Net(i)' - Net(i) = DebtsGrow(i, grown, data, Accruing(i))
                          - DepositsGrow(i, grown, data, Accruing(i))

LEMMA SquareBooked ==
  ASSUME TypeOK, TypeOK', Dated, NEW i \in Assets,
         Square(i, reserve[i], Holding(i, vault[i]), data,
                reserve'[i], Holding(i, vault'[i]), data'),
         model'[i] = None <=> model[i] = None
  PROVE  Booked(i)
<1> DEFINE u == Updated(reserve[i], now)
           v == Updated(reserve'[i], now)
           e == data'
           A == Accruing(i)
           h0 == Holding(i, vault[i])  h1 == Holding(i, vault'[i])
<1>1. /\ now \in Nat /\ data \in Data /\ e \in Data /\ A \in SUBSET Accounts
      /\ reserve[i] \in ReserveState /\ reserve'[i] \in ReserveState
      /\ vault[i] \in Int /\ vault'[i] \in Int /\ IsFiniteSet(Accounts)
  BY PoolAssumption DEF TypeOK, Data, Accruing
<1>2. u.depositIndex \in Nat /\ u.debtIndex \in Nat
  BY <1>1, IndexesNatural DEF Dated
<1>3. /\ Alike(u, v)
      /\ \A a \in Accounts : e[a][i] = data[a][i] \/ UpToDate(v, e[a][i])
      /\ FullStanding(i, reserve'[i], h1, e) = FullStanding(i, reserve[i], h0, data)
  BY DEF Square
<1>4. \A a \in Accounts : a \in A <=> \/ e[a][i].depositIndex # data[a][i].depositIndex
                                      \/ e[a][i].debtIndex # data[a][i].debtIndex
  BY DEF Accruing
<1>5. Net(i) = Margin(reserve[i]) + h0 /\ Net(i)' = Margin(reserve'[i]) + h1
  BY DEF Net, Margin, Holding
<1>6. /\ FullStanding(i, reserve[i], h0, data) = Margin(reserve[i]) + h0
           + DebtsGrow(i, u, data, Accounts) - DepositsGrow(i, u, data, Accounts)
      /\ FullStanding(i, reserve'[i], h1, e) = Margin(reserve'[i]) + h1
           + DebtsGrow(i, u, e, Accounts) - DepositsGrow(i, u, e, Accounts)
  BY <1>3, AlikeSums DEF FullStanding
<1>7. h0 \in Int /\ h1 \in Int /\ Margin(reserve[i]) \in Int /\ Margin(reserve'[i]) \in Int
  BY <1>1, MarginNumbers DEF Holding
<1> HIDE DEF u, v, e, A, h0, h1
<1> DEFINE f0 == [a \in Accounts |-> DebtGrowth(u, data[a][i])]
           f1 == [a \in Accounts |-> DebtGrowth(u, e[a][i])]
           g0 == [a \in Accounts |-> DepositGrowth(u, data[a][i])]
           g1 == [a \in Accounts |-> DepositGrowth(u, e[a][i])]
<1>8. \A a \in Accounts : data[a][i] \in PositionState /\ e[a][i] \in PositionState
  BY <1>1 DEF Data
<1>9. /\ f0 \in [Accounts -> Nat] /\ f1 \in [Accounts -> Nat]
      /\ g0 \in [Accounts -> Nat] /\ g1 \in [Accounts -> Nat]
  BY <1>2, <1>8, GrowthNatural
<1>10. ASSUME NEW d \in PositionState, UpToDate(v, d)
       PROVE  DebtGrowth(u, d) = 0 /\ DepositGrowth(u, d) = 0
  BY <1>2, <1>3, <1>10, PositionNumbers DEF Alike, UpToDate, DebtGrowth, DepositGrowth
<1>11. ASSUME NEW a \in A PROVE f1[a] = 0 /\ g1[a] = 0
  BY <1>1, <1>3, <1>4, <1>8, <1>10
<1>12. ASSUME NEW a \in Accounts \ A PROVE f1[a] = f0[a] /\ g1[a] = g0[a]
  <2>1. e[a][i].depositIndex = data[a][i].depositIndex /\ e[a][i].debtIndex = data[a][i].debtIndex
    BY <1>4
  <2>2. CASE e[a][i] = data[a][i]
    BY <2>2
  <2>3. CASE UpToDate(v, e[a][i])
    <3>1. UpToDate(v, data[a][i])
      BY <2>1, <2>3 DEF UpToDate
    <3>2. QED
      BY <1>8, <1>10, <2>3, <3>1
  <2>4. QED
    BY <1>3, <2>2, <2>3
<1>13. /\ DebtsGrow(i, u, data, Accounts) = Total(f0) /\ DebtsGrow(i, u, e, Accounts) = Total(f1)
       /\ DepositsGrow(i, u, data, Accounts) = Total(g0)
       /\ DepositsGrow(i, u, e, Accounts) = Total(g1)
  BY DEF DebtsGrow, DepositsGrow
<1>14. /\ DebtsGrow(i, u, data, A) = Total([a \in A |-> f0[a]])
       /\ DepositsGrow(i, u, data, A) = Total([a \in A |-> g0[a]])
  <2>1. /\ [a \in A |-> f0[a]] = [a \in A |-> DebtGrowth(u, data[a][i])]
        /\ [a \in A |-> g0[a]] = [a \in A |-> DepositGrowth(u, data[a][i])]
    BY <1>1
  <2>2. QED
    BY <2>1 DEF DebtsGrow, DepositsGrow
<1> HIDE DEF f0, f1, g0, g1
<1>15. /\ Total([a \in A |-> f0[a]]) \in Nat /\ Total(f0) = Total(f1) + Total([a \in A |-> f0[a]])
       /\ Total([a \in A |-> g0[a]]) \in Nat /\ Total(g0) = Total(g1) + Total([a \in A |-> g0[a]])
  BY <1>1, <1>9, <1>11, <1>12, TotalRest
<1>16. Total(f1) \in Nat /\ Total(g1) \in Nat
  BY <1>1, <1>9, TotalIsNumber
<1> HIDE DEF Net
<1>17. Net(i)' - Net(i) = DebtsGrow(i, u, data, A) - DepositsGrow(i, u, data, A)
  BY <1>3, <1>5, <1>6, <1>7, <1>13, <1>14, <1>15, <1>16
<1>18. QED
  BY <1>17 DEF Booked, u, A

\* Nobody's interest is accumulated and the net position stays.
LEMMA StillBooked ==
  ASSUME TypeOK, NEW i \in Assets, \A a \in Accounts : data'[a][i] = data[a][i],
         Net(i)' = Net(i)
  PROVE  Booked(i)
<1>1. Accruing(i) = {}
  BY DEF Accruing
<1>2. ASSUME NEW f, DOMAIN f = {} PROVE Total(f) = 0
  <2>1. Coins(f) = {}
    BY <1>2 DEF Coins
  <2>2. QED
    BY <2>1, FS_EmptySet DEF Total
<1>3. ASSUME NEW r
      PROVE  DebtsGrow(i, r, data, {}) = 0 /\ DepositsGrow(i, r, data, {}) = 0
  <2> DEFINE f == [a \in {} |-> DebtGrowth(r, data[a][i])]
             g == [a \in {} |-> DepositGrowth(r, data[a][i])]
  <2>1. DOMAIN f = {} /\ DOMAIN g = {}
    OBVIOUS
  <2> HIDE DEF f, g
  <2>2. Total(f) = 0 /\ Total(g) = 0
    BY <1>2, <2>1
  <2>3. QED
    BY <2>2 DEF DebtsGrow, DepositsGrow, f, g
<1>4. Net(i) \in Int
  <2>1. reserve[i] \in ReserveState /\ vault[i] \in Int
    BY DEF TypeOK
  <2>2. QED
    BY <2>1, MarginNumbers DEF Net
<1> HIDE DEF Net
<1>5. QED
  BY <1>1, <1>3, <1>4 DEF Booked

\* A reserve whose book is not touched.
LEMMA BookKept ==
  ASSUME NEW i \in Assets, vault'[i] = vault[i], model'[i] = None <=> model[i] = None,
         reserve'[i].totalDebt = reserve[i].totalDebt,
         reserve'[i].totalDeposit = reserve[i].totalDeposit,
         reserve'[i].earnedFee = reserve[i].earnedFee
  PROVE  Net(i)' = Net(i)
BY DEF Net

LEMMA TakeProtocolIncomeBooked ==
  ASSUME TypeOK, NEW assets \in Seq(Assets), TakeProtocolIncome(assets), NEW i \in Assets
  PROVE  (Booked(i) \/ IncomeDropped(i)) /\ reserve'[i].updated = reserve[i].updated
<1> DEFINE named == \E k \in DOMAIN assets : assets[k] = i
           fee == reserve[i].earnedFee
<1>1. /\ reserve'[i] = IF named THEN EarnedFeeTaken(reserve[i]) ELSE reserve[i]
      /\ vault'[i] = IF i \in PaidIncome(assets) THEN Sent(i, vault[i], fee) ELSE vault[i]
      /\ UNCHANGED <<data, model>>
  BY DEF TakeProtocolIncome, setup
<1>2. i \in PaidIncome(assets) => named
  BY DEF PaidIncome
<1>3. reserve[i] \in ReserveState /\ vault[i] \in Int /\ fee \in Nat
  <2>1. reserve[i] \in ReserveState /\ vault[i] \in Int
    BY DEF TypeOK
  <2>2. QED
    BY <2>1, MarginNumbers
<1> HIDE DEF named
<1>4. CASE ~named
  <2>1. Net(i)' = Net(i)
    BY <1>1, <1>2, <1>4 DEF Net
  <2>2. QED
    BY <1>1, <1>4, <2>1, StillBooked
<1>5. CASE named
  <2>1. /\ reserve'[i].totalDebt = reserve[i].totalDebt
        /\ reserve'[i].totalDeposit = reserve[i].totalDeposit
        /\ reserve'[i].earnedFee = 0 /\ reserve'[i].updated = reserve[i].updated
    BY <1>1, <1>3, <1>5 DEF EarnedFeeTaken, ReserveState
  <2>2. CASE i \notin PaidIncome(assets)
    BY <1>1, <2>1, <2>2 DEF IncomeDropped
  <2>3. CASE i \in PaidIncome(assets)
    <3>1. vault'[i] = Sent(i, vault[i], fee)
      BY <1>1, <2>3
    <3>2. reserve[i].totalDebt \in Int /\ reserve[i].totalDeposit \in Int
      BY <1>3, MarginNumbers
    <3>3. Net(i)' = Net(i)
      <4>1. /\ Net(i) = reserve[i].totalDebt - reserve[i].totalDeposit - fee + Holding(i, vault[i])
            /\ Net(i)' = reserve[i].totalDebt - reserve[i].totalDeposit - 0
                          + Holding(i, Sent(i, vault[i], fee))
        BY <1>1, <2>1, <3>1 DEF Net, Holding
      <4>2. fee \in Int
        BY <1>3
      <4> HIDE DEF fee
      <4>3. /\ Holding(i, Sent(i, vault[i], fee)) = Holding(i, vault[i]) - fee
            /\ Holding(i, vault[i]) \in Int
        BY <1>3, <4>2, HoldingMoves
      <4> HIDE DEF Net
      <4>4. QED
        BY <3>2, <4>1, <4>2, <4>3
    <3>4. QED
      BY <1>1, <2>1, <3>3, StillBooked
  <2>4. QED
    BY <2>2, <2>3
<1>6. QED
  BY <1>4, <1>5

\* What an admin does to a reserve without touching its book.
LEMMA SetReserveBooked ==
  ASSUME TypeOK, UNCHANGED <<data, vault, model, now>>, Dated, NEW i \in Assets,
         \A j \in Assets \ {i} : reserve'[j] = reserve[j],
         reserve'[i].totalDebt = reserve[i].totalDebt,
         reserve'[i].totalDeposit = reserve[i].totalDeposit,
         reserve'[i].updated = reserve[i].updated,
         reserve'[i].earnedFee \in {0, reserve[i].earnedFee}
  PROVE  (\A j \in Assets : Booked(j) \/ IncomeDropped(j)) /\ Dated'
<1>1. ASSUME NEW j \in Assets, reserve'[j].earnedFee = reserve[j].earnedFee
      PROVE  Booked(j)
  <2>1. /\ reserve'[j].totalDebt = reserve[j].totalDebt
        /\ reserve'[j].totalDeposit = reserve[j].totalDeposit
    BY <1>1
  <2>2. Net(j)' = Net(j)
    BY <1>1, <2>1, BookKept
  <2>3. QED
    BY <2>2, StillBooked
<1>2. ASSUME NEW j \in Assets PROVE Booked(j) \/ IncomeDropped(j)
  <2>1. CASE reserve'[j].earnedFee = reserve[j].earnedFee
    BY <1>1, <2>1
  <2>2. CASE reserve'[j].earnedFee # reserve[j].earnedFee
    BY <2>2 DEF IncomeDropped
  <2>3. QED
    BY <2>1, <2>2
<1>3. Dated'
  BY DEF Dated
<1>4. QED
  BY <1>2, <1>3

LEMMA BookUntouched ==
  ASSUME TypeOK, UNCHANGED <<data, vault, model, reserve>>
  PROVE  \A j \in Assets : Booked(j)
<1>1. ASSUME NEW j \in Assets PROVE Booked(j)
  <2>1. Net(j)' = Net(j)
    BY BookKept
  <2>2. QED
    BY <2>1, StillBooked
<1>2. QED
  BY <1>1

LEMMA AdminBooked ==
  ASSUME TypeOK, Dated, AdminNext
  PROVE  (\A i \in Assets : Booked(i) \/ IncomeDropped(i)) /\ Dated'
<1> DEFINE Good == (\A i \in Assets : Booked(i) \/ IncomeDropped(i)) /\ Dated'
<1>1. /\ reserve \in [Assets -> ReserveState] /\ now \in Nat
      /\ model \in [Assets -> ModelState \cup {None}]
  BY DEF TypeOK
<1>2. ASSUME NEW i \in Assets, NEW r \in ReserveState, reserve' = [reserve EXCEPT ![i] = r],
             UNCHANGED <<data, vault, model, now>>,
             r.totalDebt = reserve[i].totalDebt, r.totalDeposit = reserve[i].totalDeposit,
             r.updated = reserve[i].updated, r.earnedFee \in {0, reserve[i].earnedFee}
      PROVE  Good
  <2>1. reserve'[i] = r /\ \A j \in Assets \ {i} : reserve'[j] = reserve[j]
    BY <1>1, <1>2
  <2>2. QED
    BY <1>2, <2>1, SetReserveBooked
<1>3. ASSUME UNCHANGED <<data, vault, model, reserve, now>> PROVE Good
  BY <1>3, BookUntouched DEF Dated
<1>4. ASSUME NEW q \in Admin.active, SetReserveIsActive(q[1], q[2]) PROVE Good
  <2> DEFINE r == [reserve[q[1]] EXCEPT !.active = q[2]]
  <2>1. q[1] \in Assets /\ q[2] \in BOOLEAN
    BY AdminAssumption
  <2>2. /\ r \in ReserveState /\ r.totalDebt = reserve[q[1]].totalDebt
        /\ r.totalDeposit = reserve[q[1]].totalDeposit /\ r.updated = reserve[q[1]].updated
        /\ r.earnedFee = reserve[q[1]].earnedFee
    BY <1>1, <2>1 DEF ReserveState
  <2>3. reserve' = [reserve EXCEPT ![q[1]] = r] /\ UNCHANGED <<data, vault, model, now>>
    BY <1>1, <1>4 DEF SetReserveIsActive, setup
  <2> HIDE DEF r, Good
  <2>4. QED
    BY <1>2, <2>1, <2>2, <2>3
<1>5. ASSUME NEW q \in Admin.frozen, SetReserveIsFrozen(q[1], q[2]) PROVE Good
  <2> DEFINE r == [reserve[q[1]] EXCEPT !.active = q[2]]
  <2>1. q[1] \in Assets /\ q[2] \in BOOLEAN
    BY AdminAssumption
  <2>2. /\ r \in ReserveState /\ r.totalDebt = reserve[q[1]].totalDebt
        /\ r.totalDeposit = reserve[q[1]].totalDeposit /\ r.updated = reserve[q[1]].updated
        /\ r.earnedFee = reserve[q[1]].earnedFee
    BY <1>1, <2>1 DEF ReserveState
  <2>3. reserve' = [reserve EXCEPT ![q[1]] = r] /\ UNCHANGED <<data, vault, model, now>>
    BY <1>1, <1>5 DEF SetReserveIsFrozen, setup
  <2> HIDE DEF r, Good
  <2>4. QED
    BY <1>2, <2>1, <2>2, <2>3
<1>6. ASSUME NEW q \in Admin.limits, SetReserveRestrictions(q[1], q[2]) PROVE Good
  BY <1>3, <1>6 DEF SetReserveRestrictions, book
<1>7. ASSUME NEW q \in Admin.model, SetInterestRateModel(q[1], q[2]) PROVE Good
  <2> DEFINE i == q[1]
             r == Rerated(Updated(reserve[i], now), q[2])
  <2>1. i \in Assets /\ q[2] \in ModelState /\ None \notin ModelState
    BY AdminAssumption, PoolAssumption
  <2>2. reserve' = [reserve EXCEPT ![i] = r] /\ UNCHANGED <<data, vault, now>>
        /\ model[i] # None /\ model' = [model EXCEPT ![i] = q[2]]
    BY <1>7 DEF SetInterestRateModel
  <2>3. /\ r.totalDebt = reserve[i].totalDebt /\ r.totalDeposit = reserve[i].totalDeposit
        /\ r.earnedFee = reserve[i].earnedFee /\ r.updated = now
    <3>1. reserve[i] \in ReserveState
      BY <1>1, <2>1
    <3>2. QED
      BY <3>1, UpdatedBooks DEF Rerated, Updated, ReserveState
  <2> HIDE DEF r
  <2>4. reserve'[i] = r /\ \A j \in Assets \ {i} : reserve'[j] = reserve[j]
    BY <1>1, <2>1, <2>2
  <2>5. \A j \in Assets : model'[j] = None <=> model[j] = None
    BY <1>1, <2>1, <2>2
  <2>6. ASSUME NEW j \in Assets PROVE Booked(j)
    <3>1. /\ reserve'[j].totalDebt = reserve[j].totalDebt
          /\ reserve'[j].totalDeposit = reserve[j].totalDeposit
          /\ reserve'[j].earnedFee = reserve[j].earnedFee /\ vault'[j] = vault[j]
      BY <2>2, <2>3, <2>4
    <3>2. Net(j)' = Net(j)
      BY <2>5, <3>1, BookKept
    <3>3. QED
      BY <2>2, <3>2, StillBooked
  <2>7. Dated'
    BY <1>1, <2>2, <2>3, <2>4 DEF Dated
  <2>8. QED
    BY <2>6, <2>7
<1>8. ASSUME NEW q \in Admin.fees, SetReserveFees(q[1], q[2]) PROVE Good
  <2> DEFINE r == [reserve[q[1]] EXCEPT !.depositFee = q[2].deposit, !.debtFee = q[2].debt,
                                        !.earnedFee = 0]
  <2>1. q[1] \in Assets /\ q[2].deposit \in Nat /\ q[2].debt \in Nat /\ 0 \in U128
    BY AdminAssumption, ScaleAssumption DEF FeesState, U128
  <2>2. /\ r \in ReserveState /\ r.totalDebt = reserve[q[1]].totalDebt
        /\ r.totalDeposit = reserve[q[1]].totalDeposit /\ r.updated = reserve[q[1]].updated
        /\ r.earnedFee = 0
    BY <1>1, <2>1 DEF ReserveState
  <2>3. reserve' = [reserve EXCEPT ![q[1]] = r] /\ UNCHANGED <<data, vault, model, now>>
    BY <1>1, <1>8 DEF SetReserveFees, setup
  <2> HIDE DEF r, Good
  <2>4. QED
    BY <1>2, <2>1, <2>2, <2>3
<1>9. ASSUME NEW q \in Admin.stableRate, SetStablecoinDebtRate(q[1], q[2]) PROVE Good
  <2> DEFINE r == [reserve[q[1]] EXCEPT !.debtRate = q[2]]
  <2>1. q[1] \in Assets /\ q[2] \in Nat
    BY AdminAssumption
  <2>2. /\ r \in ReserveState /\ r.totalDebt = reserve[q[1]].totalDebt
        /\ r.totalDeposit = reserve[q[1]].totalDeposit /\ r.updated = reserve[q[1]].updated
        /\ r.earnedFee = reserve[q[1]].earnedFee
    BY <1>1, <2>1 DEF ReserveState
  <2>3. reserve' = [reserve EXCEPT ![q[1]] = r] /\ UNCHANGED <<data, vault, model, now>>
    BY <1>1, <1>9 DEF SetStablecoinDebtRate, setup
  <2> HIDE DEF r, Good
  <2>4. QED
    BY <1>2, <2>1, <2>2, <2>3
<1>10. ASSUME NEW rule \in Admin.newRule, AddMarketRule(rule) PROVE Good
  BY <1>3, <1>10 DEF AddMarketRule, book
<1>11. ASSUME NEW q \in Admin.assetRule, ModifyAssetRule(q[1], q[2], q[3]) PROVE Good
  BY <1>3, <1>11 DEF ModifyAssetRule, book
<1>12. ASSUME NEW assets \in Admin.income, TakeProtocolIncome(assets) PROVE Good
  <2>1. assets \in Seq(Assets)
    BY AdminAssumption
  <2>2. \A i \in Assets : (Booked(i) \/ IncomeDropped(i)) /\ reserve'[i].updated = reserve[i].updated
    BY <1>12, <2>1, TakeProtocolIncomeBooked
  <2>3. now' = now
    BY <1>12 DEF TakeProtocolIncome
  <2>4. QED
    BY <2>2, <2>3 DEF Dated
<1>13. QED
  BY <1>4, <1>5, <1>6, <1>7, <1>8, <1>9, <1>10, <1>11, <1>12 DEF AdminNext

LEMMA WorldBooked ==
  ASSUME TypeOK, Dated, WorldNext
  PROVE  (\A i \in Assets : Booked(i)) /\ Dated'
<1>1. UNCHANGED <<data, vault, model, reserve>> /\ (now' = now \/ now' = now + 1)
  BY DEF WorldNext, Tick, ChangePrice, book, setup
<1>2. now \in Nat /\ \A i \in Assets : reserve[i].updated \in Nat
  BY DEF TypeOK, ReserveState
<1>3. QED
  BY <1>1, <1>2, BookUntouched DEF Dated

LEMMA BooksBalanceStep ==
  ASSUME SafeRequests, TypeOK, Dated, Next
  PROVE  /\ \A i \in Assets : Booked(i) \/ (AdminNext /\ IncomeDropped(i))
         /\ Dated'
<1>1. TypeOK'
  BY NextGood
<1>2. CASE ClientNext
  <2>1. Squares /\ SameKind /\ Dated'
    BY <1>1, <1>2, ClientSquares
  <2>2. \A i \in Assets : Booked(i)
    BY <1>1, <2>1, SquareBooked DEF Squares, SameKind
  <2>3. QED
    BY <2>1, <2>2
<1>3. CASE AdminNext
  BY <1>3, AdminBooked
<1>4. CASE WorldNext
  BY <1>4, WorldBooked
<1>5. QED
  BY <1>2, <1>3, <1>4 DEF Next

\* Nobody's money comes from nowhere or is lost: every message moves the net
\* position of an asset by the interest it accumulates for the accounts it works
\* on, and only an admin's SetReserveFees or TakeProtocolIncome drops income
\* from the books.
THEOREM BooksBalanced ==
  ASSUME SafeRequests
  PROVE  Spec => BooksBalance
<1> DEFINE Balances ==
             \A i \in Assets :
               LET grown == Updated(reserve[i], now)
               IN  \/ Net(i)' - Net(i) = DebtsGrow(i, grown, data, Accruing(i))
                                         - DepositsGrow(i, grown, data, Accruing(i))
                   \/ AdminNext /\ IncomeDropped(i)
<1>1. Init => Dated
  BY DEF Init, Dated, NewReserve
<1>2. TypeOK /\ Dated /\ [Next]_vars => Dated'
  <2>1. TypeOK /\ Dated /\ UNCHANGED vars => Dated'
    BY DEF Dated, vars, book
  <2>2. QED
    BY <2>1, BooksBalanceStep
<1>3. TypeOK /\ Dated /\ [Next]_vars => [Balances]_vars
  BY BooksBalanceStep DEF Booked
<1>4. BooksBalance <=> [][Balances]_vars
  BY DEF BooksBalance
<1> HIDE DEF Balances
<1>5. QED
  BY <1>1, <1>2, <1>3, <1>4, TypeCorrect, PTL DEF Spec
=============================================================================
