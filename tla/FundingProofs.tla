---------------------------- MODULE FundingProofs ----------------------------
(***************************************************************************)
(* What stands behind the promises of the pool, for every instance of it:  *)
(* the interest of borrowers behind that of depositors, debts behind the   *)
(* stablecoins it mints, and collaterals behind the debts of an account.   *)
(*                                                                         *)
(* A message that changes the totals of a reserve closes it, which         *)
(* recalculates the rates; one that does not close it leaves the totals    *)
(* and the deposit rate as they are.  A stablecoin has no model and keeps  *)
(* its rates when it is closed, so the invariant says of it that its       *)
(* deposit rate is zero.                                                   *)
(*                                                                         *)
(* A message spares a bystander: what backs him goes on and is no less,    *)
(* what he owes is no more (Spared).  The account it is made for is either *)
(* spared as well or checked at the end of the message.                    *)
(***************************************************************************)
EXTENDS BooksProofs

FundedRates(r, m) ==
  IF m = None THEN r.depositRate = 0
  ELSE r.depositRate * r.totalDeposit <= r.debtRate * r.totalDebt

Funded(rs) == \A i \in Assets : FundedRates(rs[i], model[i])

SameRate(x, y) == y.r.depositRate = x.r.depositRate

-----------------------------------------------------------------------------
(* No step between the opening and the closing touches the deposit rate *)

LEMMA TryRate ==
  ASSUME NEW A, NEW R, NEW x \in Contexts(A, R), NEW y, NEW guard, SameRate(x, y)
  PROVE  SameRate(x, Try(x, guard, y))
BY DEF Try, Fail, Contexts, SameRate

LEMMA OpenRate ==
  ASSUME now \in Nat, NEW r \in ReserveState, NEW d \in PositionState,
         NEW c \in ConfigState(Assets, RuleIds)
  PROVE  Open(r, d, c).r.depositRate = r.depositRate
<1> DEFINE x == Context(r, d, c)
           y == Context(Updated(r, now), d, c)
<1>1. x \in Contexts(Assets, RuleIds) /\ x.r = r
  BY DEF Context, Contexts
<1>2. Updated(r, now).depositRate = r.depositRate
  BY DEF Updated, ReserveState
<1>3. SameRate(x, y)
  BY <1>2 DEF Context, SameRate
<1>4. Open(r, d, c) = Try(x, CanUpdate(r, now), y)
  BY DEF Open
<1> HIDE DEF x, y
<1>5. QED
  BY <1>1, <1>3, <1>4, TryRate DEF SameRate

LEMMA AccumulateRate ==
  ASSUME NEW A, NEW R, NEW x \in Contexts(A, R), NEW cut
  PROVE  SameRate(x, Accumulate(x, cut))
<1> DEFINE di == DepositInterest(x.r, x.d, cut)
           bi == DebtInterest(x.r, x.d, cut)
           y == [x EXCEPT
                  !.d = [deposit |-> x.d.deposit + di, debt |-> x.d.debt + bi,
                         depositIndex |-> x.r.depositIndex, debtIndex |-> x.r.debtIndex],
                  !.r.totalDeposit = @ + di, !.r.totalDebt = @ + bi,
                  !.r.earnedFee = @ + DepositFeeOf(x.r, x.d, cut) + DebtFeeOf(x.r, x.d, cut)]
           guard == /\ CanAccrue(x.r, x.d, cut)
                    /\ y.r.totalDeposit \in U128 /\ y.r.totalDebt \in U128
<1>1. Accumulate(x, cut) = x \/ Accumulate(x, cut) = Try(x, guard, y)
  <2>1. UpToDate(x.r, x.d) => Accumulate(x, cut) = x
    BY DEF Accumulate
  <2>2. QED
    BY <2>1, AccumulateTries
<1> HIDE DEF di, bi, guard
<1>2. SameRate(x, y) /\ SameRate(x, x)
  BY DEF SameRate, Contexts, ReserveState
<1> HIDE DEF y
<1>3. QED
  BY <1>1, <1>2, TryRate

LEMMA BalanceRate ==
  ASSUME NEW A, NEW R, NEW x \in Contexts(A, R), NEW i, NEW n, NEW lim
  PROVE  /\ SameRate(x, IncreaseDeposit(x, i, n))
         /\ SameRate(x, DecreaseDeposit(x, i, n, lim))
         /\ SameRate(x, IncreaseDebt(x, i, n))
         /\ SameRate(x, DecreaseDebt(x, i, n))
<1>1. SameRate(x, IncreaseDeposit(x, i, n))
  <2> DEFINE y == [x EXCEPT !.c.deposits = @ \cup {i}, !.d.deposit = @ + n, !.r.totalDeposit = @ + n]
  <2>1. SameRate(x, y)
    BY DEF SameRate, Contexts, ReserveState
  <2>2. \E guard : IncreaseDeposit(x, i, n) = Try(x, guard, y)
    BY DEF IncreaseDeposit
  <2> HIDE DEF y
  <2>3. QED
    BY <2>1, <2>2, TryRate
<1>2. SameRate(x, DecreaseDeposit(x, i, n, lim))
  <2> DEFINE y == [x EXCEPT !.c.deposits = IF n = x.d.deposit THEN @ \ {i} ELSE @,
                            !.c.collaterals = IF x.d.deposit - n < lim.minCollateral
                                              THEN @ \ {i} ELSE @,
                            !.d.deposit = @ - n, !.r.totalDeposit = @ - n]
  <2>1. SameRate(x, y)
    BY DEF SameRate, Contexts, ReserveState
  <2>2. \E guard : DecreaseDeposit(x, i, n, lim) = Try(x, guard, y)
    BY DEF DecreaseDeposit
  <2> HIDE DEF y
  <2>3. QED
    BY <2>1, <2>2, TryRate
<1>3. SameRate(x, IncreaseDebt(x, i, n))
  <2> DEFINE y == [x EXCEPT !.c.borrows = @ \cup {i}, !.d.debt = @ + n, !.r.totalDebt = @ + n]
  <2>1. SameRate(x, y)
    BY DEF SameRate, Contexts, ReserveState
  <2>2. \E guard : IncreaseDebt(x, i, n) = Try(x, guard, y)
    BY DEF IncreaseDebt
  <2> HIDE DEF y
  <2>3. QED
    BY <2>1, <2>2, TryRate
<1>4. SameRate(x, DecreaseDebt(x, i, n))
  <2> DEFINE y == [x EXCEPT !.c.borrows = IF n = x.d.debt THEN @ \ {i} ELSE @,
                            !.d.debt = @ - n, !.r.totalDebt = @ - n]
  <2>1. SameRate(x, y)
    BY DEF SameRate, Contexts, ReserveState
  <2>2. \E guard : DecreaseDebt(x, i, n) = Try(x, guard, y)
    BY DEF DecreaseDebt
  <2> HIDE DEF y
  <2>3. QED
    BY <2>1, <2>2, TryRate
<1>5. QED
  BY <1>1, <1>2, <1>3, <1>4

LEMMA HelperRate ==
  ASSUME NEW A, NEW R, NEW x \in Contexts(A, R), NEW i \in A, NEW n \in Int,
         NEW clamp, NEW cut, NEW lim
  PROVE  /\ SameRate(x, AccountForDeposit(x, i, n, cut, lim))
         /\ SameRate(x, AccountForWithdraw(x, i, n, clamp, cut, lim))
         /\ SameRate(x, AccountForBorrow(x, i, n, cut, lim))
         /\ SameRate(x, AccountForRepay(x, i, n, clamp, cut, lim))
<1> DEFINE z  == Accumulate(x, cut)
           y1 == IncreaseDeposit(z, i, n)
           y2 == DecreaseDeposit(z, i, WithdrawnAmount(x, n, clamp, cut), lim)
           y3 == IncreaseDebt(z, i, n)
           y4 == DecreaseDebt(z, i, RepaidAmount(x, n, clamp, cut))
<1>1. z \in Contexts(A, R) /\ SameRate(x, z)
  BY AccumulateGood, AccumulateRate
<1>2. WithdrawnAmount(x, n, clamp, cut) \in Int /\ RepaidAmount(x, n, clamp, cut) \in Int
  BY AmountsAreNumbers
<1>3. /\ y1 \in Contexts(A, R) /\ y2 \in Contexts(A, R)
      /\ y3 \in Contexts(A, R) /\ y4 \in Contexts(A, R)
  BY <1>1, <1>2, IncreaseDepositGood, DecreaseDepositGood, IncreaseDebtGood, DecreaseDebtGood
<1>4. SameRate(z, y1) /\ SameRate(z, y2) /\ SameRate(z, y3) /\ SameRate(z, y4)
  BY <1>1, BalanceRate
<1>5. /\ \E g : AccountForDeposit(x, i, n, cut, lim) = Try(y1, g, y1)
      /\ \E g : AccountForWithdraw(x, i, n, clamp, cut, lim) = Try(y2, g, y2)
      /\ \E g : AccountForBorrow(x, i, n, cut, lim) = Try(y3, g, y3)
      /\ \E g : AccountForRepay(x, i, n, clamp, cut, lim) = Try(y4, g, y4)
  BY DEF AccountForDeposit, AccountForWithdraw, AccountForBorrow, AccountForRepay
<1> HIDE DEF z, y1, y2, y3, y4
<1>6. ASSUME NEW y \in Contexts(A, R), SameRate(z, y), NEW g
      PROVE  SameRate(x, Try(y, g, y))
  <2>1. SameRate(y, Try(y, g, y))
    BY TryRate DEF SameRate
  <2>2. QED
    BY <1>1, <1>6, <2>1 DEF SameRate
<1>7. QED
  BY <1>3, <1>4, <1>5, <1>6

-----------------------------------------------------------------------------
(* Closing a reserve funds its rates *)

\* The arithmetic: a quotient rounded down, times the divisor.
LEMMA RoundedDown ==
  ASSUME NEW a \in Nat, NEW b \in Nat, NEW c \in Nat
  PROVE  MulDivDown(a, b, c) * c <= b * a
<1>1. CASE c = 0
  BY <1>1 DEF MulDivDown
<1>2. CASE c # 0
  <2> DEFINE p == a * b
  <2>1. p \in Nat /\ p = b * a
    OBVIOUS
  <2> HIDE DEF p
  <2>2. (p \div c) * c <= p
    BY <1>2, <2>1
  <2>3. QED
    BY <1>2, <2>1, <2>2 DEF MulDivDown, p
<1>3. QED
  BY <1>1, <1>2

LEMMA ReratedFunded ==
  ASSUME NEW r \in ReserveState, NEW m, CanRerate(r, m), m = None => r.depositRate = 0
  PROVE  FundedRates(Rerated(r, m), m)
<1>1. CASE m = None
  BY <1>1 DEF Rerated, FundedRates
<1>2. r.totalDebt \in Nat /\ r.totalDeposit \in Nat
  BY ScaleAssumption DEF ReserveState, U128
<1>3. CASE m # None /\ r.totalDebt = 0
  <2>1. /\ Rerated(r, m).depositRate = 0 /\ Rerated(r, m).debtRate = 0
        /\ Rerated(r, m).totalDeposit = r.totalDeposit /\ Rerated(r, m).totalDebt = r.totalDebt
    BY <1>3 DEF Rerated, ReserveState
  <2>2. QED
    BY <1>2, <1>3, <2>1 DEF FundedRates
<1>4. CASE m # None /\ r.totalDebt # 0
  <2> DEFINE rate == DebtRateAt(Utilization(r), m)
             paid == MulDivDown(r.totalDebt, rate, r.totalDeposit)
  <2>1. Rerated(r, m) = [r EXCEPT !.debtRate = rate, !.depositRate = paid]
    BY <1>4 DEF Rerated
  <2>2. rate \in Nat
    BY <1>4, ScaleAssumption DEF CanRerate, CanRate, U32, U64
  <2>3. paid * r.totalDeposit <= rate * r.totalDebt
    <3> HIDE DEF rate
    <3>1. QED
      BY <1>2, <2>2, RoundedDown
  <2> HIDE DEF rate, paid
  <2>4. /\ Rerated(r, m).depositRate = paid /\ Rerated(r, m).debtRate = rate
        /\ Rerated(r, m).totalDeposit = r.totalDeposit /\ Rerated(r, m).totalDebt = r.totalDebt
    BY <2>1 DEF ReserveState
  <2>5. QED
    BY <1>4, <2>3, <2>4 DEF FundedRates
<1>5. QED
  BY <1>1, <1>3, <1>4

LEMMA CloseFunded ==
  ASSUME NEW R, NEW x \in Contexts(Assets, R), NEW i \in Assets, Close(x, i).ok,
         model[i] = None => x.r.depositRate = 0
  PROVE  FundedRates(Close(x, i).r, model[i])
<1> DEFINE y == [x EXCEPT !.r = Rerated(x.r, model[i])]
<1>1. x.r \in ReserveState
  BY DEF Contexts
<1>2. Close(x, i) = Try(x, CanRerate(x.r, model[i]), y)
  BY DEF Close
<1>3. CanRerate(x.r, model[i]) /\ Close(x, i) = y
  BY <1>2 DEF Try, Fail, Contexts
<1>4. y.r = Rerated(x.r, model[i])
  BY DEF Contexts
<1>5. QED
  BY <1>1, <1>3, <1>4, ReratedFunded

-----------------------------------------------------------------------------
(* Messages *)

LEMMA AccountRate ==
  ASSUME NEW R, NEW x \in Contexts(Assets, R), NEW act \in ActionState, NEW cut
  PROVE  SameRate(x, Account(x, act, cut))
<1>1. act.asset \in Assets /\ act.amount \in Int /\ act.op \in Operations
  BY DEF ActionState
<1> DEFINE i == act.asset  n == act.amount  lim == limits[act.asset]
<1>2. \A clamp : /\ SameRate(x, AccountForDeposit(x, i, n, cut, lim))
                 /\ SameRate(x, AccountForWithdraw(x, i, n, clamp, cut, lim))
                 /\ SameRate(x, AccountForBorrow(x, i, n, cut, lim))
                 /\ SameRate(x, AccountForRepay(x, i, n, clamp, cut, lim))
  BY <1>1, HelperRate
<1>3. /\ SameRate(x, AccountForDeposit(x, i, n, cut, lim))
      /\ SameRate(x, AccountForWithdraw(x, i, n, TRUE, cut, lim))
      /\ SameRate(x, AccountForBorrow(x, i, n, cut, lim))
      /\ SameRate(x, AccountForRepay(x, i, n, TRUE, cut, lim))
  BY <1>2, Zenon
<1>4. \/ Account(x, act, cut) = AccountForDeposit(x, i, n, cut, lim)
      \/ Account(x, act, cut) = AccountForWithdraw(x, i, n, TRUE, cut, lim)
      \/ Account(x, act, cut) = AccountForBorrow(x, i, n, cut, lim)
      \/ Account(x, act, cut) = AccountForRepay(x, i, n, TRUE, cut, lim)
  BY <1>1 DEF Account, Operations
<1>5. QED
  BY <1>3, <1>4

\* What a stablecoin's context has to keep from its opening to its closing.
LEMMA FundedUnmodelled ==
  ASSUME NEW rs, Funded(rs), NEW i \in Assets, model[i] = None
  PROVE  rs[i].depositRate = 0
BY DEF Funded, FundedRates

LEMMA StepFunded ==
  ASSUME TypeOK, NEW a \in Accounts, NEW s, SessionOK(s, a), NEW act \in ActionState,
         s.ok => Funded(s.reserve), Step(s, a, act).ok
  PROVE  Funded(Step(s, a, act).reserve)
<1> DEFINE i == act.asset
           x == Open(s.reserve[i], s.data[i], s.config)
           z == Account(x, act, FeeReduction[a])
           y == Close(z, i)
           t == Step(s, a, act)
<1>1. /\ i \in Assets /\ s.reserve[i] \in ReserveState /\ s.data[i] \in PositionState
      /\ s.config \in ConfigState(Assets, RuleIds) /\ now \in Nat
      /\ s.reserve \in [Assets -> ReserveState]
  BY DEF ActionState, SessionOK, TypeOK
<1>2. x \in Contexts(Assets, RuleIds) /\ x.r.depositRate = s.reserve[i].depositRate
  BY <1>1, OpenGood, OpenRate
<1>3. z \in Contexts(Assets, RuleIds) /\ z.r.depositRate = x.r.depositRate
  BY <1>2, AccountGood, AccountRate DEF SameRate
<1>4. s.ok /\ y.ok /\ t.reserve = [s.reserve EXCEPT ![i] = y.r]
  BY DEF Step, After
<1>5. model[i] = None => z.r.depositRate = 0
  BY <1>1, <1>2, <1>3, <1>4, FundedUnmodelled
<1> HIDE DEF x, z, t, i
<1>6. FundedRates(y.r, model[i])
  BY <1>1, <1>3, <1>4, <1>5, CloseFunded
<1> HIDE DEF y
<1>7. t.reserve[i] = y.r /\ \A j \in Assets \ {i} : t.reserve[j] = s.reserve[j]
  BY <1>1, <1>4
<1>8. Funded(t.reserve)
  BY <1>1, <1>4, <1>6, <1>7 DEF Funded
<1>9. QED
  BY <1>8 DEF t

LEMMA CommitFunded ==
  ASSUME NEW a, NEW s, Funded(s.reserve), Commit(s, a)
  PROVE  Funded(reserve)'
BY DEF Commit, Funded, setup

LEMMA TransferDepositFunded ==
  ASSUME TypeOK, Funded(reserve), NEW f \in Accounts, NEW t \in Accounts, NEW i \in Assets,
         NEW n \in Nat, TransferDeposit(f, t, i, n)
  PROVE  Funded(reserve)'
<1> DEFINE x   == Open(reserve[i], data[f][i], config[f])
           out == AccountForWithdraw(x, i, n, FALSE, FeeReduction[f], limits[i])
           mid == [out EXCEPT !.d = data[t][i], !.c = config[t]]
           acc == AccountForDeposit(mid, i, n, FeeReduction[t], limits[i])
           in  == Close(acc, i)
           C   == Contexts(Assets, RuleIds)
<1>1. /\ config[f] \in ConfigState(Assets, RuleIds) /\ config[t] \in ConfigState(Assets, RuleIds)
      /\ data[f][i] \in PositionState /\ data[t][i] \in PositionState
      /\ reserve[i] \in ReserveState /\ now \in Nat /\ n \in Int
  BY ConfigsTyped DEF TypeOK
<1>2. x \in C /\ x.r.depositRate = reserve[i].depositRate
  BY <1>1, OpenGood, OpenRate
<1>3. out \in C /\ SameRate(x, out)
  <2>1. ASSUME NEW clamp
        PROVE  LET w == AccountForWithdraw(x, i, n, clamp, FeeReduction[f], limits[i])
               IN  w \in C /\ SameRate(x, w)
    BY <1>1, <1>2, AccountForWithdrawGood, HelperRate
  <2>2. QED
    BY <2>1, Zenon
<1>4. mid \in C /\ mid.r = out.r
  <2> HIDE DEF out
  <2>1. QED
    BY <1>1, <1>3 DEF Contexts
<1>5. acc \in C /\ SameRate(mid, acc)
  BY <1>1, <1>4, AccountForDepositGood, HelperRate
<1>6. in.ok /\ reserve' = [reserve EXCEPT ![i] = in.r] /\ model' = model
  BY DEF TransferDeposit, PassDeposit, DepositOut, DepositIn, setup
<1>7. model[i] = None => acc.r.depositRate = 0
  BY <1>2, <1>3, <1>4, <1>5, FundedUnmodelled DEF SameRate
<1> HIDE DEF acc
<1>8. FundedRates(in.r, model[i])
  BY <1>5, <1>6, <1>7, CloseFunded
<1> HIDE DEF in
<1>9. QED
  BY <1>6, <1>8 DEF Funded, TypeOK

LEMMA TransferDebtFunded ==
  ASSUME TypeOK, Funded(reserve), NEW f \in Accounts, NEW t \in Accounts, NEW i \in Assets,
         NEW n \in Nat, TransferDebt(f, t, i, n)
  PROVE  Funded(reserve)'
<1> DEFINE x   == Open(reserve[i], data[f][i], config[f])
           out == AccountForRepay(x, i, n, FALSE, FeeReduction[f], limits[i])
           mid == [out EXCEPT !.d = data[t][i], !.c = config[t]]
           acc == AccountForBorrow(mid, i, n, FeeReduction[t], limits[i])
           in  == Close(acc, i)
           C   == Contexts(Assets, RuleIds)
<1>1. /\ config[f] \in ConfigState(Assets, RuleIds) /\ config[t] \in ConfigState(Assets, RuleIds)
      /\ data[f][i] \in PositionState /\ data[t][i] \in PositionState
      /\ reserve[i] \in ReserveState /\ now \in Nat /\ n \in Int
  BY ConfigsTyped DEF TypeOK
<1>2. x \in C /\ x.r.depositRate = reserve[i].depositRate
  BY <1>1, OpenGood, OpenRate
<1>3. out \in C /\ SameRate(x, out)
  <2>1. ASSUME NEW clamp
        PROVE  LET w == AccountForRepay(x, i, n, clamp, FeeReduction[f], limits[i])
               IN  w \in C /\ SameRate(x, w)
    BY <1>1, <1>2, AccountForRepayGood, HelperRate
  <2>2. QED
    BY <2>1, Zenon
<1>4. mid \in C /\ mid.r = out.r
  <2> HIDE DEF out
  <2>1. QED
    BY <1>1, <1>3 DEF Contexts
<1>5. acc \in C /\ SameRate(mid, acc)
  BY <1>1, <1>4, AccountForBorrowGood, HelperRate
<1>6. in.ok /\ reserve' = [reserve EXCEPT ![i] = in.r] /\ model' = model
  BY DEF TransferDebt, PassDebt, DebtOut, DebtIn, setup
<1>7. model[i] = None => acc.r.depositRate = 0
  BY <1>2, <1>3, <1>4, <1>5, FundedUnmodelled DEF SameRate
<1> HIDE DEF acc
<1>8. FundedRates(in.r, model[i])
  BY <1>5, <1>6, <1>7, CloseFunded
<1> HIDE DEF in
<1>9. QED
  BY <1>6, <1>8 DEF Funded, TypeOK

LEMMA LiquidateFunded ==
  ASSUME TypeOK, Funded(reserve), NEW l \in Accounts, NEW a \in Accounts, NEW rp \in Assets,
         NEW tk \in Assets, NEW n \in Nat, Liquidate(l, a, rp, tk, n)
  PROVE  Funded(reserve)'
<1> DEFINE C      == Contexts(Assets, RuleIds)
           cut    == FeeReduction[a]
           x      == Open(reserve[rp], data[a][rp], config[a])
           paid   == RepaidAmount(x, n, TRUE, cut)
           acc    == AccountForRepay(x, rp, n, TRUE, cut, limits[rp])
           repaid == Close(acc, rp)
           rs     == [reserve EXCEPT ![rp] = repaid.r]
           ds     == [data[a] EXCEPT ![rp] = repaid.d]
           wanted == AmountToTake(paid, rp, tk, price, RuleOf(config[a]))
           y      == Open(rs[tk], ds[tk], repaid.c)
           taken  == WithdrawnAmount(y, wanted, TRUE, cut)
           out    == AccountForWithdraw(y, tk, wanted, TRUE, cut, limits[tk])
           mid    == [out EXCEPT !.d = data[l][tk], !.c = config[l]]
           dep    == AccountForDeposit(mid, tk, taken, FeeReduction[l], limits[tk])
           in     == Close(dep, tk)
<1>1. /\ config[a] \in ConfigState(Assets, RuleIds) /\ config[l] \in ConfigState(Assets, RuleIds)
      /\ data[a] \in [Assets -> PositionState] /\ data[a][rp] \in PositionState
      /\ data[l][tk] \in PositionState
      /\ reserve[rp] \in ReserveState /\ now \in Nat /\ n \in Int
      /\ reserve \in [Assets -> ReserveState] /\ price \in [Assets -> Nat]
  BY ConfigsTyped DEF TypeOK
<1>2. RuleOf(config[a]) \in MarketRule
  BY <1>1 DEF TypeOK, RuleOf, RuleIds, ConfigState
<1>3. x \in C /\ x.r.depositRate = reserve[rp].depositRate
  BY <1>1, OpenGood, OpenRate
<1>4. acc \in C /\ SameRate(x, acc)
  <2>1. ASSUME NEW clamp
        PROVE  LET w == AccountForRepay(x, rp, n, clamp, cut, limits[rp])
               IN  w \in C /\ SameRate(x, w)
    BY <1>1, <1>3, AccountForRepayGood, HelperRate
  <2>2. QED
    BY <2>1, Zenon
<1>5. repaid \in C
  BY <1>4, CloseGood
<1>6. /\ repaid.ok /\ in.ok
      /\ CanPriceTake(rp, tk, price, RuleOf(config[a]))
      /\ reserve' = [rs EXCEPT ![tk] = in.r] /\ model' = model
  BY DEF Liquidate, AccountForLiquidate, Seize, setup
<1>7. wanted \in Int
  <2>1. \A clamp : RepaidAmount(x, n, clamp, cut) \in Int
    BY <1>1, <1>3, AmountsAreNumbers
  <2>2. paid \in Int
    BY <2>1, Zenon
  <2> HIDE DEF paid
  <2>3. QED
    BY <1>1, <1>2, <1>6, <2>2, AmountToTakeTyped
<1>8. FundedRates(repaid.r, model[rp])
  <2>1. model[rp] = None => acc.r.depositRate = 0
    BY <1>3, <1>4, FundedUnmodelled DEF SameRate
  <2> HIDE DEF acc
  <2>2. QED
    BY <1>4, <1>6, <2>1, CloseFunded
<1> HIDE DEF x, acc, repaid, paid, wanted
<1>9. repaid.r \in ReserveState /\ repaid.d \in PositionState /\ repaid.c \in ConfigState(Assets, RuleIds)
  BY <1>5 DEF Contexts
<1>10. /\ rs \in [Assets -> ReserveState] /\ ds \in [Assets -> PositionState]
       /\ rs[tk] \in ReserveState /\ ds[tk] \in PositionState
  BY <1>1, <1>9
<1>11. Funded(rs)
  BY <1>1, <1>8 DEF Funded
<1> HIDE DEF rs, ds
<1>12. y \in C /\ y.r.depositRate = rs[tk].depositRate
  BY <1>1, <1>9, <1>10, OpenGood, OpenRate
<1>13. out \in C /\ SameRate(y, out) /\ taken \in Int
  <2>1. ASSUME NEW clamp
        PROVE  LET w == AccountForWithdraw(y, tk, wanted, clamp, cut, limits[tk])
               IN  /\ w \in C /\ SameRate(y, w)
                   /\ WithdrawnAmount(y, wanted, clamp, cut) \in Int
    BY <1>7, <1>12, AccountForWithdrawGood, HelperRate, AmountsAreNumbers
  <2>2. QED
    BY <2>1, Zenon
<1>14. mid \in C /\ mid.r = out.r
  <2> HIDE DEF out
  <2>1. QED
    BY <1>1, <1>13 DEF Contexts
<1>15. dep \in C /\ SameRate(mid, dep)
  BY <1>13, <1>14, AccountForDepositGood, HelperRate
<1>16. model[tk] = None => dep.r.depositRate = 0
  BY <1>11, <1>12, <1>13, <1>14, <1>15, FundedUnmodelled DEF SameRate
<1> HIDE DEF dep
<1>17. FundedRates(in.r, model[tk])
  BY <1>6, <1>15, <1>16, CloseFunded
<1> HIDE DEF in
<1>18. QED
  BY <1>6, <1>10, <1>11, <1>17 DEF Funded

-----------------------------------------------------------------------------
(* The other actions *)

\* One reserve is brought up to date and closed under the model m.
LEMMA RefreshedFunded ==
  ASSUME TypeOK, Funded(reserve), NEW i \in Assets, NEW m, m = None => model[i] = None,
         CanUpdate(reserve[i], now), CanRerate(Updated(reserve[i], now), m)
  PROVE  FundedRates(Rerated(Updated(reserve[i], now), m), m)
<1>1. reserve[i] \in ReserveState /\ now \in Nat
  BY DEF TypeOK
<1>2. Updated(reserve[i], now) \in ReserveState
  BY <1>1, UpdatedGood
<1>3. Updated(reserve[i], now).depositRate = reserve[i].depositRate
  BY <1>1 DEF Updated, ReserveState
<1>4. m = None => reserve[i].depositRate = 0
  BY FundedUnmodelled
<1>5. QED
  BY <1>2, <1>3, <1>4, ReratedFunded

LEMMA AccumulateInterestFunded ==
  ASSUME TypeOK, Funded(reserve), NEW i \in Assets, AccumulateInterest(i)
  PROVE  Funded(reserve)'
<1> DEFINE r == Rerated(Updated(reserve[i], now), model[i])
<1>1. reserve' = [reserve EXCEPT ![i] = r] /\ model' = model
  BY DEF AccumulateInterest, setup
<1>2. FundedRates(r, model[i])
  BY RefreshedFunded DEF AccumulateInterest
<1> HIDE DEF r
<1>3. QED
  BY <1>1, <1>2 DEF Funded, TypeOK

LEMMA SetInterestRateModelFunded ==
  ASSUME TypeOK, Funded(reserve), NEW i \in Assets, NEW m \in ModelState, SetInterestRateModel(i, m)
  PROVE  Funded(reserve)'
<1> DEFINE r == Rerated(Updated(reserve[i], now), m)
<1>1. /\ reserve' = [reserve EXCEPT ![i] = r] /\ model' = [model EXCEPT ![i] = m]
      /\ model[i] # None
  BY DEF SetInterestRateModel
<1>2. m # None
  BY PoolAssumption
<1>3. FundedRates(r, m)
  BY <1>2, RefreshedFunded DEF SetInterestRateModel
<1> HIDE DEF r
<1>4. QED
  BY <1>1, <1>3 DEF Funded, TypeOK

LEMMA AdjustRateAtTargetFunded ==
  ASSUME TypeOK, Funded(reserve), NEW i \in Assets, NEW rate \in Nat, AdjustRateAtTarget(i, rate)
  PROVE  Funded(reserve)'
<1>1. /\ model[i] # None /\ reserve' = reserve
      /\ model' = [model EXCEPT ![i].rateAtTarget = rate]
  BY DEF AdjustRateAtTarget, book
<1>2. model[i] \in ModelState
  BY <1>1 DEF TypeOK
<1>3. [model[i] EXCEPT !.rateAtTarget = rate] \in ModelState
  BY <1>2 DEF ModelState
<1>4. model' = [model EXCEPT ![i] = [model[i] EXCEPT !.rateAtTarget = rate]]
  BY <1>1
<1>5. model'[i] # None /\ \A j \in Assets \ {i} : model'[j] = model[j]
  BY <1>3, <1>4, PoolAssumption DEF TypeOK
<1>6. QED
  BY <1>1, <1>5 DEF Funded, FundedRates

\* A step that changes no total, no deposit rate, and the debt rates of
\* stablecoins at most.
LEMMA SettingsFunded ==
  ASSUME Funded(reserve), model' = model,
         \A i \in Assets : /\ reserve'[i].totalDeposit = reserve[i].totalDeposit
                           /\ reserve'[i].totalDebt = reserve[i].totalDebt
                           /\ reserve'[i].depositRate = reserve[i].depositRate
                           /\ model[i] # None => reserve'[i].debtRate = reserve[i].debtRate
  PROVE  Funded(reserve)'
BY DEF Funded, FundedRates

LEMMA OneReserveFunded ==
  ASSUME TypeOK, Funded(reserve), NEW i \in Assets, NEW r,
         model' = model, reserve' = [reserve EXCEPT ![i] = r],
         r.totalDeposit = reserve[i].totalDeposit, r.totalDebt = reserve[i].totalDebt,
         r.depositRate = reserve[i].depositRate,
         model[i] # None => r.debtRate = reserve[i].debtRate
  PROVE  Funded(reserve)'
<1>1. reserve'[i] = r /\ \A j \in Assets \ {i} : reserve'[j] = reserve[j]
  BY DEF TypeOK
<1>2. QED
  BY <1>1, SettingsFunded

LEMMA SetReserveFunded ==
  ASSUME TypeOK, Funded(reserve), NEW i \in Assets, NEW y,
         \/ SetReserveIsActive(i, y)
         \/ SetReserveIsFrozen(i, y)
         \/ SetReserveFees(i, y)
         \/ SetStablecoinDebtRate(i, y)
  PROVE  Funded(reserve)'
<1>1. reserve[i] \in ReserveState
  BY DEF TypeOK
<1>2. CASE SetReserveIsActive(i, y) \/ SetReserveIsFrozen(i, y)
  <2> DEFINE r == [reserve[i] EXCEPT !.active = y]
  <2>1. reserve' = [reserve EXCEPT ![i] = r] /\ model' = model
    BY <1>2 DEF SetReserveIsActive, SetReserveIsFrozen, setup
  <2>2. /\ r.totalDeposit = reserve[i].totalDeposit /\ r.totalDebt = reserve[i].totalDebt
        /\ r.depositRate = reserve[i].depositRate /\ r.debtRate = reserve[i].debtRate
    BY <1>1 DEF ReserveState
  <2> HIDE DEF r
  <2>3. QED
    BY <2>1, <2>2, OneReserveFunded
<1>3. CASE SetReserveFees(i, y)
  <2> DEFINE r == [reserve[i] EXCEPT !.depositFee = y.deposit, !.debtFee = y.debt, !.earnedFee = 0]
  <2>1. reserve' = [reserve EXCEPT ![i] = r] /\ model' = model
    BY <1>3 DEF SetReserveFees, setup
  <2>2. /\ r.totalDeposit = reserve[i].totalDeposit /\ r.totalDebt = reserve[i].totalDebt
        /\ r.depositRate = reserve[i].depositRate /\ r.debtRate = reserve[i].debtRate
    BY <1>1 DEF ReserveState
  <2> HIDE DEF r
  <2>3. QED
    BY <2>1, <2>2, OneReserveFunded
<1>4. CASE SetStablecoinDebtRate(i, y)
  <2> DEFINE r == [reserve[i] EXCEPT !.debtRate = y]
  <2>1. model[i] = None /\ reserve' = [reserve EXCEPT ![i] = r] /\ model' = model
    BY <1>4 DEF SetStablecoinDebtRate, setup
  <2>2. /\ r.totalDeposit = reserve[i].totalDeposit /\ r.totalDebt = reserve[i].totalDebt
        /\ r.depositRate = reserve[i].depositRate
    BY <1>1 DEF ReserveState
  <2> HIDE DEF r
  <2>3. QED
    BY <2>1, <2>2, OneReserveFunded
<1>5. QED
  BY <1>2, <1>3, <1>4

LEMMA TakeProtocolIncomeFunded ==
  ASSUME TypeOK, Funded(reserve), NEW assets, TakeProtocolIncome(assets)
  PROVE  Funded(reserve)'
<1>1. /\ model' = model
      /\ \A i \in Assets : reserve'[i] = EarnedFeeTaken(reserve[i]) \/ reserve'[i] = reserve[i]
  BY DEF TakeProtocolIncome, setup
<1>2. ASSUME NEW i \in Assets
      PROVE  /\ reserve'[i].totalDeposit = reserve[i].totalDeposit
             /\ reserve'[i].totalDebt = reserve[i].totalDebt
             /\ reserve'[i].depositRate = reserve[i].depositRate
             /\ reserve'[i].debtRate = reserve[i].debtRate
  <2>1. reserve[i] \in ReserveState
    BY DEF TypeOK
  <2>2. QED
    BY <1>1, <2>1 DEF EarnedFeeTaken, ReserveState
<1>3. QED
  BY <1>1, <1>2, SettingsFunded

-----------------------------------------------------------------------------
(* The theorem *)

LEMMA ClientFunded ==
  ASSUME TypeOK, Funded(reserve), ClientNext
  PROVE  Funded(reserve)'
<1>1. ASSUME NEW q \in Requests, Operate(q[1], q[2]) PROVE Funded(reserve)'
  <2> DEFINE s == Session(q[1])
             t == Step(s, q[1], q[2])
  <2>1. q[1] \in Accounts /\ q[2] \in ActionState
    BY RequestAssumption
  <2>2. SessionOK(s, q[1]) /\ Funded(s.reserve)
    BY <2>1, SessionGood DEF Session
  <2>3. Commit(t, q[1]) /\ t.ok
    BY <1>1 DEF Operate, Commit
  <2> HIDE DEF s
  <2>4. Funded(t.reserve)
    BY <2>1, <2>2, <2>3, StepFunded
  <2> HIDE DEF t
  <2>5. QED
    BY <2>3, <2>4, CommitFunded
<1>2. ASSUME NEW q \in MultiRequests, MultiOp(q[1], q[2]) PROVE Funded(reserve)'
  <2> DEFINE s == Session(q[1])
             t == Step(s, q[1], q[2][1])
             u == Step(t, q[1], q[2][2])
  <2>1. q[1] \in Accounts /\ q[2][1] \in ActionState /\ q[2][2] \in ActionState
    BY RequestAssumption
  <2>2. SessionOK(s, q[1]) /\ Funded(s.reserve)
    BY <2>1, SessionGood DEF Session
  <2>3. Commit(u, q[1]) /\ u.ok
    BY <1>2 DEF MultiOp, Commit
  <2> HIDE DEF s
  <2>4. SessionOK(t, q[1]) /\ (t.ok => Funded(t.reserve))
    BY <2>1, <2>2, StepGood, StepFunded
  <2> HIDE DEF t
  <2>5. Funded(u.reserve)
    BY <2>1, <2>3, <2>4, StepFunded
  <2> HIDE DEF u
  <2>6. QED
    BY <2>3, <2>5, CommitFunded
<1>3. ASSUME NEW q \in DepositTransfers, TransferDeposit(q[1], q[2], q[3], q[4])
      PROVE  Funded(reserve)'
  <2>1. q[1] \in Accounts /\ q[2] \in Accounts /\ q[3] \in Assets /\ q[4] \in Nat
    BY RequestAssumption
  <2>2. QED
    BY <1>3, <2>1, TransferDepositFunded
<1>4. ASSUME NEW q \in DebtTransfers, TransferDebt(q[1], q[2], q[3], q[4])
      PROVE  Funded(reserve)'
  <2>1. q[1] \in Accounts /\ q[2] \in Accounts /\ q[3] \in Assets /\ q[4] \in Nat
    BY RequestAssumption
  <2>2. QED
    BY <1>4, <2>1, TransferDebtFunded
<1>5. ASSUME NEW q \in Liquidations, Liquidate(q[1], q[2], q[3], q[4], q[5])
      PROVE  Funded(reserve)'
  <2>1. /\ q[1] \in Accounts /\ q[2] \in Accounts /\ q[3] \in Assets /\ q[4] \in Assets
        /\ q[5] \in Nat
    BY RequestAssumption
  <2>2. QED
    BY <1>5, <2>1, LiquidateFunded
<1>6. ASSUME NEW a, NEW i, NEW k, SetAsCollateral(a, i, k) \/ ChooseMarketRule(a, k)
      PROVE  Funded(reserve)'
  BY <1>6 DEF SetAsCollateral, ChooseMarketRule, setup, Funded
<1>7. ASSUME NEW q \in Adjustments, AdjustRateAtTarget(q[1], q[2]) PROVE Funded(reserve)'
  <2>1. q[1] \in Assets /\ q[2] \in Nat
    BY RequestAssumption
  <2>2. QED
    BY <1>7, <2>1, AdjustRateAtTargetFunded
<1>8. QED
  BY <1>1, <1>2, <1>3, <1>4, <1>5, <1>6, <1>7, AccumulateInterestFunded DEF ClientNext

LEMMA AdminFunded ==
  ASSUME TypeOK, Funded(reserve), AdminNext
  PROVE  Funded(reserve)'
<1>1. ASSUME NEW i \in Assets, NEW y,
             \/ SetReserveIsActive(i, y)
             \/ SetReserveIsFrozen(i, y)
             \/ SetReserveFees(i, y)
             \/ SetStablecoinDebtRate(i, y)
      PROVE  Funded(reserve)'
  BY <1>1, SetReserveFunded
<1>2. ASSUME NEW q, \/ q \in Admin.active /\ SetReserveIsActive(q[1], q[2])
                    \/ q \in Admin.frozen /\ SetReserveIsFrozen(q[1], q[2])
                    \/ q \in Admin.fees /\ SetReserveFees(q[1], q[2])
                    \/ q \in Admin.stableRate /\ SetStablecoinDebtRate(q[1], q[2])
      PROVE  Funded(reserve)'
  <2>1. q[1] \in Assets
    BY <1>2, AdminAssumption
  <2>2. QED
    BY <1>1, <1>2, <2>1
<1>3. ASSUME NEW q \in Admin.model, SetInterestRateModel(q[1], q[2]) PROVE Funded(reserve)'
  <2>1. q[1] \in Assets /\ q[2] \in ModelState
    BY AdminAssumption
  <2>2. QED
    BY <1>3, <2>1, SetInterestRateModelFunded
<1>4. ASSUME NEW i, NEW k, NEW rule,
             \/ SetReserveRestrictions(i, rule)
             \/ AddMarketRule(rule)
             \/ ModifyAssetRule(k, i, rule)
      PROVE  Funded(reserve)'
  BY <1>4 DEF SetReserveRestrictions, AddMarketRule, ModifyAssetRule, book, Funded
<1>5. QED
  BY <1>2, <1>3, <1>4, TakeProtocolIncomeFunded DEF AdminNext

LEMMA InitFunded ==
  ASSUME Init
  PROVE  Funded(reserve)
<1>1. ASSUME NEW i \in Assets PROVE FundedRates(reserve[i], model[i])
  <2>1. /\ reserve[i].depositRate = 0 /\ reserve[i].debtRate = 0
        /\ reserve[i].totalDeposit = 0 /\ reserve[i].totalDebt = 0
    BY DEF Init, NewReserve
  <2>2. QED
    BY <2>1 DEF FundedRates
<1>2. QED
  BY <1>1 DEF Funded

LEMMA FundedStep ==
  ASSUME TypeOK, Funded(reserve), [Next]_vars
  PROVE  Funded(reserve)'
<1>1. CASE WorldNext
  BY <1>1 DEF WorldNext, Tick, ChangePrice, book, setup, Funded
<1>2. CASE UNCHANGED vars
  BY <1>2 DEF vars, book, setup, Funded
<1>3. QED
  BY <1>1, <1>2, ClientFunded, AdminFunded DEF Next

\* What the invariant says of stablecoins is enough for them too: nothing is
\* promised to their depositors.
LEMMA FundedIsEnough ==
  ASSUME TypeOK, Funded(reserve)
  PROVE  InterestFunded
<1> SUFFICES ASSUME NEW i \in Assets
             PROVE  reserve[i].depositRate * reserve[i].totalDeposit
                      <= reserve[i].debtRate * reserve[i].totalDebt
  BY DEF InterestFunded
<1>1. FundedRates(reserve[i], model[i])
  BY DEF Funded
<1>2. CASE model[i] # None
  BY <1>1, <1>2 DEF FundedRates
<1>3. CASE model[i] = None
  <2>1. reserve[i].depositRate = 0
    BY <1>1, <1>3 DEF FundedRates
  <2>2. /\ reserve[i].totalDeposit \in Nat
        /\ reserve[i].debtRate \in Nat /\ reserve[i].totalDebt \in Nat
    <3>1. reserve[i] \in ReserveState /\ U128 \subseteq Nat
      BY ScaleAssumption DEF TypeOK, U128
    <3>2. QED
      BY <3>1 DEF ReserveState
  <2>3. reserve[i].debtRate * reserve[i].totalDebt \in Nat
    BY <2>2
  <2>4. reserve[i].depositRate * reserve[i].totalDeposit = 0
    BY <2>1, <2>2
  <2>5. QED
    BY <2>3, <2>4
<1>4. QED
  BY <1>2, <1>3

\* Whatever is asked of the pool, in whatever order, the interest promised to
\* the depositors of an asset never exceeds what its borrowers are charged
\* (reserve_data.rs:169, recalculate_current_rates).
THEOREM InterestCovered == Spec => []InterestFunded
<1>1. Init => TypeOK /\ Funded(reserve)
  BY InitGood, InitFunded
<1>2. TypeOK /\ Funded(reserve) /\ [Next]_vars => (TypeOK /\ Funded(reserve))'
  BY NextGood, FundedStep
<1>3. TypeOK /\ Funded(reserve) => InterestFunded
  BY FundedIsEnough
<1>4. QED
  BY <1>1, <1>2, <1>3, PTL DEF Spec

-----------------------------------------------------------------------------
(* Stablecoins *)

\* A reserve that pays its depositors nothing, and a position in it.
PlainReserve(r) == r.depositRate = 0 /\ r.depositIndex = E18
PlainPosition(d) == d.depositIndex \in {0, E18}

\* The inductive invariant, beside types, dates, indexes and rates: depositors of
\* a stablecoin earn nothing, and what circulates of it is within its margin.
StableBooks ==
  \A j \in Assets : model[j] = None =>
    /\ PlainReserve(reserve[j]) /\ vault[j] <= Margin(reserve[j])
    /\ \A a \in Accounts : PlainPosition(data[a][j])

\* No time makes a rate of zero move the deposit index.
LEMMA UpdatedPlain ==
  ASSUME now \in Nat, NEW r \in ReserveState, PlainReserve(r)
  PROVE  PlainReserve(Updated(r, now))
<1>1. MulDivDown(E18, E18, E18) = E18
  <2>1. E18 \in Nat \ {0}
    BY ScaleAssumption
  <2>2. (E18 * E18) \div E18 = E18
    BY <2>1, Z3
  <2>3. QED
    BY <2>1, <2>2 DEF MulDivDown
<1>2. CASE now = r.updated
  BY <1>2 DEF Updated
<1>3. CASE now # r.updated
  <2> DEFINE di == MulDivDown(r.depositIndex, DepositMultiplier(r, now), E18)
             bi == MulDivUp(r.debtIndex, DebtMultiplier(r, now), E18)
  <2>1. Updated(r, now) = [r EXCEPT !.depositIndex = di, !.debtIndex = bi, !.updated = now]
    BY <1>3 DEF Updated
  <2>2. di = E18
    BY <1>1 DEF DepositMultiplier, PlainReserve
  <2> HIDE DEF di, bi
  <2>3. QED
    BY <2>1, <2>2 DEF ReserveState, PlainReserve
<1>4. QED
  BY <1>2, <1>3

\* A client's message on stablecoin i, seen through double entry: depositors
\* earn nothing before and after it, and the debts grow by the interest.
LEMMA ClientStable ==
  ASSUME SafeRequests, TypeOK, TypeOK', Dated, AllSound', Funded(reserve)', ClientNext,
         NEW i \in Assets, model[i] = None,
         PlainReserve(reserve[i]), \A a \in Accounts : PlainPosition(data[a][i])
  PROVE  /\ model'[i] = None /\ PlainReserve(reserve'[i])
         /\ \A a \in Accounts : PlainPosition(data'[a][i])
         /\ Margin(reserve'[i]) - vault'[i] >= Margin(reserve[i]) - vault[i]
<1> DEFINE u == Updated(reserve[i], now)
           v == Updated(reserve'[i], now)
<1>1. /\ now \in Nat /\ reserve[i] \in ReserveState /\ reserve'[i] \in ReserveState
      /\ reserve[i].updated <= now /\ data \in Data /\ data' \in Data
      /\ vault[i] \in Int /\ vault'[i] \in Int /\ E18 \in Nat \ {0}
  BY ScaleAssumption DEF TypeOK, Dated, Data
<1>2. Squares /\ model'[i] = None
  BY ClientSquares DEF SameKind
<1>3. /\ reserve'[i] = reserve[i] \/ reserve'[i].updated = now
      /\ Alike(u, v)
      /\ \A a \in Accounts : data'[a][i] = data[a][i] \/ UpToDate(v, data'[a][i])
  BY <1>2 DEF Squares, Square
<1>4. PlainReserve(u)
  BY <1>1, UpdatedPlain
<1>5. v.depositIndex = E18
  BY <1>3, <1>4 DEF Alike, PlainReserve
<1>6. PlainReserve(reserve'[i])
  <2>1. reserve'[i].depositRate = 0
    BY <1>2 DEF Funded, FundedRates
  <2>2. reserve'[i].depositIndex = E18
    <3>1. CASE reserve'[i] = reserve[i]
      BY <3>1 DEF PlainReserve
    <3>2. CASE reserve'[i].updated = now
      BY <1>5, <3>2 DEF Updated
    <3>3. QED
      BY <1>3, <3>1, <3>2
  <2>3. QED
    BY <2>1, <2>2 DEF PlainReserve
<1>7. ASSUME NEW a \in Accounts PROVE PlainPosition(data'[a][i])
  <2>1. data'[a][i].depositIndex <= E18 /\ data'[a][i].depositIndex \in Nat
    BY <1>1, <1>6, PositionNumbers DEF AllSound, SoundAt, PlainReserve, Data
  <2>2. CASE data'[a][i] = data[a][i]
    BY <2>2
  <2>3. CASE UpToDate(v, data'[a][i])
    BY <1>1, <1>5, <2>1, <2>3 DEF UpToDate, PlainPosition
  <2>4. QED
    BY <1>3, <2>2, <2>3
<1>8. u.depositIndex \in Nat /\ u.debtIndex \in Nat
  BY <1>1, IndexesNatural
<1> DEFINE B == [a \in Accruing(i) |-> DebtGrowth(u, data[a][i])]
           D == [a \in Accruing(i) |-> DepositGrowth(u, data[a][i])]
<1>9. D = [a \in Accruing(i) |-> 0] /\ B \in [Accruing(i) -> Nat] /\ IsFiniteSet(Accruing(i))
  <2>1. Accruing(i) \subseteq Accounts
    BY DEF Accruing
  <2>2. \A a \in Accounts : DepositGrowth(u, data[a][i]) = 0
    BY <1>1, <1>4 DEF DepositGrowth, PlainReserve, PlainPosition
  <2>3. \A a \in Accounts : DebtGrowth(u, data[a][i]) \in Nat
    BY <1>1, <1>8, GrowthNatural DEF Data
  <2> HIDE DEF u
  <2>4. QED
    BY <2>1, <2>2, <2>3, PoolAssumption, FS_Subset
<1>10. /\ DebtsGrow(i, u, data, Accruing(i)) = Total(B)
       /\ DepositsGrow(i, u, data, Accruing(i)) = Total(D)
  BY DEF DebtsGrow, DepositsGrow
<1>11. Net(i)' - Net(i) = Total(B) - Total(D)
  <2>1. Booked(i)
    BY <1>2, SquareBooked DEF Squares
  <2>2. QED
    BY <1>10, <2>1 DEF Booked
<1>12. Net(i) = Margin(reserve[i]) - vault[i] /\ Net(i)' = Margin(reserve'[i]) - vault'[i]
  BY <1>1, <1>2, MarginNumbers DEF Net, Margin
<1> HIDE DEF B, D
<1>13. Total(B) \in Nat /\ Total(D) = 0
  BY <1>9, TotalIsNumber, TotalOfNothing
<1>14. Margin(reserve[i]) \in Int /\ Margin(reserve'[i]) \in Int
  BY <1>1, MarginNumbers
<1>15. Margin(reserve'[i]) - vault'[i] >= Margin(reserve[i]) - vault[i]
  BY <1>1, <1>11, <1>12, <1>13, <1>14
<1>16. QED
  BY <1>2, <1>6, <1>7, <1>15

\* The reserve of asset i is replaced by one with the same rates, indexes,
\* totals and fee, or asset i is no stablecoin.
LEMMA OneReserveStable ==
  ASSUME TypeOK, NEW i \in Assets, NEW r, reserve' = [reserve EXCEPT ![i] = r],
         UNCHANGED <<data, vault, model>>,
         model[i] = None =>
           (PlainReserve(reserve[i]) => PlainReserve(r) /\ Margin(r) = Margin(reserve[i]))
  PROVE  StableBooks => StableBooks'
<1> SUFFICES ASSUME StableBooks, NEW j \in Assets, model[j] = None
             PROVE  PlainReserve(reserve'[j]) /\ vault[j] <= Margin(reserve'[j])
  BY DEF StableBooks
<1>1. PlainReserve(reserve[j]) /\ vault[j] <= Margin(reserve[j])
  BY DEF StableBooks
<1>2. DOMAIN reserve = Assets
  BY DEF TypeOK
<1>3. QED
  BY <1>1, <1>2

\* Neither the books nor which assets are stablecoins change.
LEMMA BooksKept ==
  ASSUME StableBooks, UNCHANGED <<reserve, data, vault>>,
         \A j \in Assets : model'[j] = None => model[j] = None
  PROVE  StableBooks'
BY DEF StableBooks

LEMMA SetInterestRateModelCovered ==
  ASSUME TypeOK, StableBooks, NEW i \in Assets, NEW m \in ModelState, SetInterestRateModel(i, m)
  PROVE  StableBooks'
<1>1. model[i] # None /\ None \notin ModelState
  BY PoolAssumption DEF SetInterestRateModel
<1>2. \A j \in Assets : model'[j] = None => model[j] = None /\ reserve'[j] = reserve[j]
  BY <1>1 DEF SetInterestRateModel, TypeOK
<1>3. data' = data /\ vault' = vault
  BY DEF SetInterestRateModel
<1>4. QED
  BY <1>2, <1>3 DEF StableBooks

LEMMA SetReserveCovered ==
  ASSUME TypeOK, StableBooks, NEW i \in Assets
  PROVE  /\ \A on : SetReserveIsActive(i, on) => StableBooks'
         /\ \A on : SetReserveIsFrozen(i, on) => StableBooks'
         /\ \A fees : SetReserveFees(i, fees) => StableBooks'
         /\ \A rate : SetStablecoinDebtRate(i, rate) => StableBooks'
<1> DEFINE r == reserve[i]
<1>1. r \in ReserveState
  BY DEF TypeOK
<1>2. ASSUME NEW s, s.depositRate = r.depositRate, s.depositIndex = r.depositIndex,
             s.totalDebt = r.totalDebt, s.totalDeposit = r.totalDeposit, s.earnedFee = r.earnedFee,
             reserve' = [reserve EXCEPT ![i] = s], UNCHANGED <<data, vault, model>>
      PROVE  StableBooks'
  <2>1. PlainReserve(r) => PlainReserve(s) /\ Margin(s) = Margin(r)
    BY <1>2 DEF PlainReserve, Margin
  <2>2. QED
    BY <1>2, <2>1, OneReserveStable
<1>3. ASSUME NEW on, SetReserveIsActive(i, on) PROVE StableBooks'
  <2> DEFINE s == [r EXCEPT !.active = on]
  <2>1. /\ s.depositRate = r.depositRate /\ s.depositIndex = r.depositIndex
        /\ s.totalDebt = r.totalDebt /\ s.totalDeposit = r.totalDeposit /\ s.earnedFee = r.earnedFee
    BY <1>1 DEF ReserveState
  <2>2. reserve' = [reserve EXCEPT ![i] = s] /\ UNCHANGED <<data, vault, model>>
    BY <1>3 DEF SetReserveIsActive, setup
  <2> HIDE DEF s
  <2>3. QED
    BY <1>2, <2>1, <2>2
<1>4. ASSUME NEW on, SetReserveIsFrozen(i, on) PROVE StableBooks'
  <2> DEFINE s == [r EXCEPT !.active = on]
  <2>1. /\ s.depositRate = r.depositRate /\ s.depositIndex = r.depositIndex
        /\ s.totalDebt = r.totalDebt /\ s.totalDeposit = r.totalDeposit /\ s.earnedFee = r.earnedFee
    BY <1>1 DEF ReserveState
  <2>2. reserve' = [reserve EXCEPT ![i] = s] /\ UNCHANGED <<data, vault, model>>
    BY <1>4 DEF SetReserveIsFrozen, setup
  <2> HIDE DEF s
  <2>3. QED
    BY <1>2, <2>1, <2>2
<1>5. ASSUME NEW fees, SetReserveFees(i, fees) PROVE StableBooks'
  <2> DEFINE s == [r EXCEPT !.depositFee = fees.deposit, !.debtFee = fees.debt, !.earnedFee = 0]
  <2>1. /\ model[i] # None /\ reserve' = [reserve EXCEPT ![i] = s]
        /\ UNCHANGED <<data, vault, model>>
    BY <1>5 DEF SetReserveFees, setup
  <2> HIDE DEF s
  <2>2. QED
    BY <2>1, OneReserveStable
<1>6. ASSUME NEW rate, SetStablecoinDebtRate(i, rate) PROVE StableBooks'
  <2> DEFINE s == [r EXCEPT !.debtRate = rate]
  <2>1. /\ s.depositRate = r.depositRate /\ s.depositIndex = r.depositIndex
        /\ s.totalDebt = r.totalDebt /\ s.totalDeposit = r.totalDeposit /\ s.earnedFee = r.earnedFee
    BY <1>1 DEF ReserveState
  <2>2. reserve' = [reserve EXCEPT ![i] = s] /\ UNCHANGED <<data, vault, model>>
    BY <1>6 DEF SetStablecoinDebtRate, setup
  <2> HIDE DEF s
  <2>3. QED
    BY <1>2, <2>1, <2>2
<1>7. QED
  BY <1>3, <1>4, <1>5, <1>6

\* The income that leaves the books goes into circulation, or nowhere.
LEMMA TakeProtocolIncomeCovered ==
  ASSUME TypeOK, StableBooks, NEW assets \in Seq(Assets), TakeProtocolIncome(assets)
  PROVE  StableBooks'
<1>1. data' = data /\ model' = model
  BY DEF TakeProtocolIncome, setup
<1> SUFFICES ASSUME NEW j \in Assets, model[j] = None
             PROVE  PlainReserve(reserve'[j]) /\ vault'[j] <= Margin(reserve'[j])
  BY <1>1 DEF StableBooks
<1> DEFINE r == reserve[j]  fee == reserve[j].earnedFee  paid == PaidIncome(assets)
<1>2. /\ PlainReserve(r) /\ vault[j] <= Margin(r) /\ r \in ReserveState
      /\ vault[j] \in Int /\ fee \in Nat /\ Margin(r) \in Int
  BY MarginNumbers DEF StableBooks, TypeOK
<1>3. PlainReserve(EarnedFeeTaken(r)) /\ Margin(EarnedFeeTaken(r)) = Margin(r) + fee
  <2>1. /\ EarnedFeeTaken(r).totalDebt = r.totalDebt /\ EarnedFeeTaken(r).earnedFee = 0
        /\ EarnedFeeTaken(r).totalDeposit = r.totalDeposit
        /\ EarnedFeeTaken(r).depositRate = r.depositRate
        /\ EarnedFeeTaken(r).depositIndex = r.depositIndex
    BY <1>2 DEF EarnedFeeTaken, ReserveState
  <2>2. QED
    BY <1>2, <2>1, MarginNumbers DEF PlainReserve, Margin
<1>4. /\ reserve'[j] = IF \E k \in DOMAIN assets : assets[k] = j THEN EarnedFeeTaken(r) ELSE r
      /\ vault'[j] = IF j \in paid THEN Sent(j, vault[j], fee) ELSE vault[j]
  BY DEF TakeProtocolIncome
<1>5. j \in paid => \E k \in DOMAIN assets : assets[k] = j
  BY DEF PaidIncome
<1>6. Sent(j, vault[j], fee) = vault[j] + fee
  BY DEF Sent
<1> HIDE DEF r, fee, paid
<1>7. CASE j \in paid
  BY <1>2, <1>3, <1>4, <1>5, <1>6, <1>7
<1>8. CASE j \notin paid
  BY <1>2, <1>3, <1>4, <1>8
<1>9. QED
  BY <1>7, <1>8

\* What a client does: debts grow by their interest, deposits by none.
LEMMA ClientCovered ==
  ASSUME SafeRequests, TypeOK, TypeOK', Dated, AllSound', Funded(reserve)', StableBooks, ClientNext
  PROVE  StableBooks'
<1> SUFFICES ASSUME NEW j \in Assets, model'[j] = None
             PROVE  /\ PlainReserve(reserve'[j]) /\ vault'[j] <= Margin(reserve'[j])
                    /\ \A a \in Accounts : PlainPosition(data'[a][j])
  BY DEF StableBooks
<1>1. model[j] = None
  BY ClientSquares DEF SameKind
<1>2. /\ PlainReserve(reserve[j]) /\ vault[j] <= Margin(reserve[j])
      /\ \A a \in Accounts : PlainPosition(data[a][j])
  BY <1>1 DEF StableBooks
<1>3. /\ PlainReserve(reserve'[j]) /\ \A a \in Accounts : PlainPosition(data'[a][j])
      /\ Margin(reserve'[j]) - vault'[j] >= Margin(reserve[j]) - vault[j]
  BY <1>1, <1>2, ClientStable
<1>4. /\ vault[j] \in Int /\ Margin(reserve[j]) \in Int
      /\ vault'[j] \in Int /\ Margin(reserve'[j]) \in Int
  BY MarginNumbers DEF TypeOK
<1>5. QED
  BY <1>2, <1>3, <1>4

LEMMA AdminCovered ==
  ASSUME TypeOK, StableBooks, AdminNext
  PROVE  StableBooks'
<1>1. ASSUME NEW q \in Admin.active, SetReserveIsActive(q[1], q[2]) PROVE StableBooks'
  BY <1>1, AdminAssumption, SetReserveCovered
<1>2. ASSUME NEW q \in Admin.frozen, SetReserveIsFrozen(q[1], q[2]) PROVE StableBooks'
  BY <1>2, AdminAssumption, SetReserveCovered
<1>3. ASSUME NEW q \in Admin.limits, SetReserveRestrictions(q[1], q[2]) PROVE StableBooks'
  BY <1>3, BooksKept DEF SetReserveRestrictions, book
<1>4. ASSUME NEW q \in Admin.model, SetInterestRateModel(q[1], q[2]) PROVE StableBooks'
  BY <1>4, AdminAssumption, SetInterestRateModelCovered
<1>5. ASSUME NEW q \in Admin.fees, SetReserveFees(q[1], q[2]) PROVE StableBooks'
  BY <1>5, AdminAssumption, SetReserveCovered
<1>6. ASSUME NEW q \in Admin.stableRate, SetStablecoinDebtRate(q[1], q[2]) PROVE StableBooks'
  BY <1>6, AdminAssumption, SetReserveCovered
<1>7. ASSUME NEW rule \in Admin.newRule, AddMarketRule(rule) PROVE StableBooks'
  BY <1>7, BooksKept DEF AddMarketRule, book
<1>8. ASSUME NEW q \in Admin.assetRule, ModifyAssetRule(q[1], q[2], q[3]) PROVE StableBooks'
  BY <1>8, BooksKept DEF ModifyAssetRule, book
<1>9. ASSUME NEW assets \in Admin.income, TakeProtocolIncome(assets) PROVE StableBooks'
  BY <1>9, AdminAssumption, TakeProtocolIncomeCovered
<1>10. QED
  BY <1>1, <1>2, <1>3, <1>4, <1>5, <1>6, <1>7, <1>8, <1>9 DEF AdminNext

LEMMA InitCovered ==
  ASSUME Init
  PROVE  StableBooks
<1> SUFFICES ASSUME NEW j \in Assets
             PROVE  /\ PlainReserve(reserve[j]) /\ vault[j] <= Margin(reserve[j])
                    /\ \A a \in Accounts : PlainPosition(data[a][j])
  BY DEF StableBooks
<1>1. reserve[j] = NewReserve(0, InitialFees[j].deposit, InitialFees[j].debt) /\ vault[j] = 0
  BY DEF Init
<1>2. PlainReserve(reserve[j]) /\ Margin(reserve[j]) = 0
  BY <1>1 DEF NewReserve, PlainReserve, Margin
<1>3. \A a \in Accounts : data[a][j] = NoPosition
  BY DEF Init
<1>4. QED
  BY <1>1, <1>2, <1>3 DEF PlainPosition, NoPosition

\* All that the books of stablecoins rest on.
StablesOK == TypeOK /\ Dated /\ AllSound /\ Funded(reserve) /\ StableBooks

LEMMA StableStep ==
  ASSUME SafeRequests, StablesOK, [Next]_vars
  PROVE  StablesOK'
<1>1. /\ TypeOK /\ Dated /\ AllSound /\ Funded(reserve) /\ StableBooks
      /\ TypeOK' /\ AllSound' /\ Funded(reserve)'
  BY SoundStep, FundedStep DEF StablesOK
<1>2. Dated'
  <2>1. CASE UNCHANGED vars
    BY <1>1, <2>1 DEF Dated, vars, book
  <2>2. QED
    BY <1>1, <2>1, BooksBalanceStep
<1>3. StableBooks'
  <2>1. CASE ClientNext
    BY <1>1, <2>1, ClientCovered
  <2>2. CASE AdminNext
    BY <1>1, <2>2, AdminCovered
  <2>3. CASE WorldNext \/ UNCHANGED vars
    <3>1. UNCHANGED <<reserve, data, vault, model>>
      BY <2>3 DEF WorldNext, Tick, ChangePrice, vars, book, setup
    <3>2. QED
      BY <1>1, <3>1, BooksKept
  <2>4. QED
    BY <2>1, <2>2, <2>3 DEF Next
<1>4. QED
  BY <1>1, <1>2, <1>3 DEF StablesOK

\* What is in circulation is within the margin: the debts cover it.
LEMMA MarginCovers ==
  ASSUME TypeOK, StableBooks
  PROVE  StablecoinBacked
<1> SUFFICES ASSUME NEW j \in Assets, model[j] = None
             PROVE  vault[j] + reserve[j].totalDeposit + reserve[j].earnedFee
                      <= reserve[j].totalDebt
  BY DEF StablecoinBacked
<1>1. vault[j] <= Margin(reserve[j]) /\ vault[j] \in Int /\ reserve[j] \in ReserveState
  BY DEF StableBooks, TypeOK
<1>2. QED
  BY <1>1, MarginNumbers DEF Margin

\* The pool mints nothing without a debt behind it: what is in circulation of
\* a stablecoin, deposited or booked as a fee is owed to the pool, for any
\* number of accounts and assets and whatever the admins do, as long as the
\* requests are safe.
THEOREM StablecoinsBacked ==
  ASSUME SafeRequests
  PROVE  Spec => []StablecoinBacked
<1>1. Init => StablesOK
  <2>1. Init => Dated
    BY DEF Init, Dated, NewReserve
  <2>2. QED
    BY <2>1, InitGood, InitPositions, InitFunded, InitCovered DEF StablesOK
<1>2. StablesOK /\ [Next]_vars => StablesOK'
  BY StableStep
<1>3. StablesOK => StablecoinBacked
  BY MarginCovers DEF StablesOK
<1>4. QED
  BY <1>1, <1>2, <1>3, PTL DEF Spec


-----------------------------------------------------------------------------
(* The backing of an account *)

\* What the position d in the reserve r is with the interest due on it.
FreshDeposit(r, d, cut) == d.deposit + DepositInterest(Updated(r, now), d, cut)
FreshDebt(r, d, cut)    == d.debt + DebtInterest(Updated(r, now), d, cut)

\* From one state of a position to another: what backs goes on and is no
\* less, what is owed was owed and is no more.
Spares(r0, d0, c0, r1, d1, c1, cut, i) ==
  /\ i \in c0.collaterals =>
       i \in c1.collaterals /\ FreshDeposit(r1, d1, cut) >= FreshDeposit(r0, d0, cut)
  /\ i \in c1.borrows =>
       i \in c0.borrows /\ FreshDebt(r1, d1, cut) <= FreshDebt(r0, d0, cut)

LEMMA NothingDueYet ==
  ASSUME NEW u, u.depositIndex \in Nat, u.debtIndex \in Nat, u.depositFee \in Nat,
         u.debtFee \in Nat, NEW d \in PositionState, NEW cut \in CutState, UpToDate(u, d)
  PROVE  DepositInterest(u, d, cut) = 0 /\ DebtInterest(u, d, cut) = 0
<1>1. DepositGrowth(u, d) = 0 /\ DebtGrowth(u, d) = 0
  BY PositionNumbers DEF UpToDate, DepositGrowth, DebtGrowth
<1>2. cut.deposit \in 0 .. E6 /\ cut.debt \in 0 .. E6
  BY DEF CutState
<1>3. FeeOn(0, u.depositFee, cut.deposit) = 0 /\ FeeOn(0, u.debtFee, cut.debt) = 0
  BY <1>2, NoFeeOnNothing
<1>4. QED
  BY <1>1, <1>3 DEF DepositInterest, DebtInterest, DepositFeeOf, DebtFeeOf

LEMMA FreshNumbers ==
  ASSUME now \in Nat, NEW r \in ReserveState, r.updated <= now, NEW d \in PositionState,
         NEW cut \in CutState
  PROVE  FreshDeposit(r, d, cut) \in Int /\ FreshDebt(r, d, cut) \in Int
<1> DEFINE u == Updated(r, now)
<1>1. u.depositIndex \in Nat /\ u.debtIndex \in Nat
  BY IndexesNatural
<1>2. u.depositFee \in Nat /\ u.debtFee \in Nat
  BY DEF Updated, ReserveState
<1>3. cut.deposit \in 0 .. E6 /\ cut.debt \in 0 .. E6
  BY DEF CutState
<1> HIDE DEF u
<1>4. DepositGrowth(u, d) \in Nat /\ DebtGrowth(u, d) \in Nat
  BY <1>1, GrowthNatural
<1>5. DepositFeeOf(u, d, cut) \in Nat /\ DebtFeeOf(u, d, cut) \in Nat
  BY <1>2, <1>3, <1>4, FeeNatural DEF DepositFeeOf, DebtFeeOf
<1>6. QED
  BY <1>4, <1>5, PositionNumbers DEF FreshDeposit, FreshDebt, DepositInterest, DebtInterest, u

LEMMA SparesTransitive ==
  ASSUME now \in Nat, NEW cut \in CutState, NEW i,
         NEW r0 \in ReserveState, NEW r1 \in ReserveState, NEW r2 \in ReserveState,
         r0.updated <= now, r1.updated <= now, r2.updated <= now,
         NEW d0 \in PositionState, NEW d1 \in PositionState, NEW d2 \in PositionState,
         NEW c0, NEW c1, NEW c2,
         Spares(r0, d0, c0, r1, d1, c1, cut, i), Spares(r1, d1, c1, r2, d2, c2, cut, i)
  PROVE  Spares(r0, d0, c0, r2, d2, c2, cut, i)
<1>1. /\ FreshDeposit(r0, d0, cut) \in Int /\ FreshDebt(r0, d0, cut) \in Int
      /\ FreshDeposit(r1, d1, cut) \in Int /\ FreshDebt(r1, d1, cut) \in Int
      /\ FreshDeposit(r2, d2, cut) \in Int /\ FreshDebt(r2, d2, cut) \in Int
  BY FreshNumbers
<1>2. QED
  BY <1>1 DEF Spares

\* A position that nobody touches.
LEMMA SparesAlike ==
  ASSUME now \in Nat, NEW cut \in CutState, NEW i,
         NEW r0 \in ReserveState, r0.updated <= now, NEW r1,
         Alike(Updated(r0, now), Updated(r1, now)), NEW d \in PositionState,
         NEW c0, NEW c1, i \in c0.collaterals => i \in c1.collaterals,
         i \in c1.borrows => i \in c0.borrows
  PROVE  Spares(r0, d, c0, r1, d, c1, cut, i)
<1>1. /\ DepositGrowth(Updated(r1, now), d) = DepositGrowth(Updated(r0, now), d)
      /\ DebtGrowth(Updated(r1, now), d) = DebtGrowth(Updated(r0, now), d)
  BY DEF Alike, DepositGrowth, DebtGrowth
<1>2. /\ DepositInterest(Updated(r1, now), d, cut) = DepositInterest(Updated(r0, now), d, cut)
      /\ DebtInterest(Updated(r1, now), d, cut) = DebtInterest(Updated(r0, now), d, cut)
  BY <1>1 DEF Alike, DepositInterest, DebtInterest, DepositFeeOf, DebtFeeOf
<1>3. FreshDeposit(r1, d, cut) = FreshDeposit(r0, d, cut) /\ FreshDebt(r1, d, cut) = FreshDebt(r0, d, cut)
  BY <1>2 DEF FreshDeposit, FreshDebt
<1>4. QED
  BY <1>3, FreshNumbers DEF Spares

\* A position that a message brings dn and bn.
LEMMA FreshBrought ==
  ASSUME now \in Nat, NEW cut \in CutState, NEW r, NEW d \in PositionState,
         NEW u \in ReserveState, u.updated <= now, NEW e \in PositionState,
         NEW dn \in Int, NEW bn \in Int,
         Nets(Updated(r, now), d, e, cut, dn, bn), UpToDate(Updated(u, now), e)
  PROVE  /\ FreshDeposit(u, e, cut) = FreshDeposit(r, d, cut) + dn
         /\ FreshDebt(u, e, cut) = FreshDebt(r, d, cut) + bn
<1> DEFINE v == Updated(u, now)
<1>1. v.depositIndex \in Nat /\ v.debtIndex \in Nat
  BY IndexesNatural
<1>2. v.depositFee \in Nat /\ v.debtFee \in Nat
  BY DEF Updated, ReserveState
<1>3. UpToDate(v, e)
  OBVIOUS
<1> HIDE DEF v
<1>4. DepositInterest(v, e, cut) = 0 /\ DebtInterest(v, e, cut) = 0
  BY <1>1, <1>2, <1>3, NothingDueYet
<1>5. FreshDeposit(u, e, cut) = e.deposit /\ FreshDebt(u, e, cut) = e.debt
  BY <1>4, PositionNumbers DEF FreshDeposit, FreshDebt, v
<1>6. QED
  BY <1>5 DEF Nets, FreshDeposit, FreshDebt

\* It spares what backs when that is no less and what is owed no more.
LEMMA SparesBrought ==
  ASSUME now \in Nat, NEW cut \in CutState, NEW i, NEW r \in ReserveState, r.updated <= now,
         NEW d \in PositionState, NEW u \in ReserveState, u.updated <= now,
         NEW e \in PositionState, NEW dn \in Int, NEW bn \in Int,
         Nets(Updated(r, now), d, e, cut, dn, bn), UpToDate(Updated(u, now), e),
         NEW c0, NEW c1, Relieves(c0, c1), i \in c0.collaterals => dn >= 0, bn <= 0
  PROVE  Spares(r, d, c0, u, e, c1, cut, i)
<1>1. /\ FreshDeposit(u, e, cut) = FreshDeposit(r, d, cut) + dn
      /\ FreshDebt(u, e, cut) = FreshDebt(r, d, cut) + bn
  BY FreshBrought
<1>2. FreshDeposit(r, d, cut) \in Int /\ FreshDebt(r, d, cut) \in Int
  BY FreshNumbers
<1>3. QED
  BY <1>1, <1>2 DEF Spares, Relieves

-----------------------------------------------------------------------------
(* Messages that spare the backing of an account *)

\* The session of account a asks for the check, or it has spared all of a's
\* positions and left its collaterals as they are.
SessionSpares(s, a) ==
  \/ s.check
  \/ /\ Relieves(config[a], s.config)
     /\ \A j \in Assets : Spares(reserve[j], data[a][j], config[a],
                                 s.reserve[j], s.data[j], s.config, FeeReduction[a], j)

\* One operation that asks for no check.
LEMMA AccountSpares ==
  ASSUME now \in Nat, NEW x \in Ctxs, NEW act \in ActionState, NEW cut \in CutState,
         Account(x, act, cut).ok, act.op # "Borrow",
         ~(act.op = "Withdraw" /\ act.asset \in x.c.collaterals)
  PROVE  LET y == Account(x, act, cut)
         IN  /\ Relieves(x.c, y.c)
             /\ \E dn, bn \in Int : /\ Brings(x, y, cut, dn, bn)
                                    /\ act.asset \in x.c.collaterals => dn >= 0
                                    /\ bn <= 0
<1> DEFINE i == act.asset  n == act.amount  lim == limits[act.asset]
           y == Account(x, act, cut)
<1>1. i \in Assets /\ n \in Nat /\ n \in Int /\ 0 \in Int /\ act.op \in Operations
  BY DEF ActionState
<1>2. CASE act.op = "Deposit"
  <2>1. y = AccountForDeposit(x, i, n, cut, lim)
    BY <1>2 DEF Account
  <2>2. Brings(x, y, cut, n, 0) /\ Relieves(x.c, y.c)
    BY <1>1, <2>1, DepositBrings, DepositBits
  <2> HIDE DEF y
  <2>3. QED
    BY <1>1, <2>2 DEF y
<1>3. CASE act.op = "Withdraw"
  <2>1. y = AccountForWithdraw(x, i, n, TRUE, cut, lim)
    BY <1>3 DEF Account
  <2>2. ASSUME NEW clamp, AccountForWithdraw(x, i, n, clamp, cut, lim).ok
        PROVE  /\ Brings(x, AccountForWithdraw(x, i, n, clamp, cut, lim), cut,
                         -WithdrawnAmount(x, n, clamp, cut), 0)
               /\ Relieves(x.c, AccountForWithdraw(x, i, n, clamp, cut, lim).c)
               /\ -WithdrawnAmount(x, n, clamp, cut) \in Int
    <3>1. WithdrawnAmount(x, n, clamp, cut) \in Nat
      BY <1>1, AmountsAreNatural
    <3>2. QED
      BY <1>1, <1>3, <2>2, <3>1, WithdrawBrings, WithdrawBits
  <2>3. \E dn \in Int : Brings(x, y, cut, dn, 0) /\ Relieves(x.c, y.c)
    BY <2>1, <2>2, Zenon
  <2> HIDE DEF y
  <2>4. QED
    BY <1>1, <1>3, <2>3 DEF y
<1>4. CASE act.op = "Repay"
  <2>1. y = AccountForRepay(x, i, n, TRUE, cut, lim)
    BY <1>4 DEF Account
  <2>2. ASSUME NEW clamp, AccountForRepay(x, i, n, clamp, cut, lim).ok
        PROVE  /\ Brings(x, AccountForRepay(x, i, n, clamp, cut, lim), cut,
                         0, -RepaidAmount(x, n, clamp, cut))
               /\ Relieves(x.c, AccountForRepay(x, i, n, clamp, cut, lim).c)
               /\ -RepaidAmount(x, n, clamp, cut) \in Int
               /\ -RepaidAmount(x, n, clamp, cut) <= 0
    <3>1. RepaidAmount(x, n, clamp, cut) \in Nat
      BY <1>1, AmountsAreNatural
    <3>2. QED
      BY <1>1, <2>2, <3>1, RepayBrings, RepayBits
  <2>3. \E bn \in Int : Brings(x, y, cut, 0, bn) /\ Relieves(x.c, y.c) /\ bn <= 0
    BY <2>1, <2>2, Zenon
  <2> HIDE DEF y
  <2>4. QED
    BY <1>1, <2>3 DEF y
<1>5. QED
  BY <1>1, <1>2, <1>3, <1>4 DEF Operations

LEMMA StepSpares ==
  ASSUME TypeOK, Dated, NEW a \in Accounts, NEW s, SessionOK(s, a), NEW act \in ActionState,
         s.ok => SessionNeutral(s, a) /\ SessionSpares(s, a), Step(s, a, act).ok
  PROVE  SessionSpares(Step(s, a, act), a)
<1> DEFINE i == act.asset
           cut == FeeReduction[a]
           x == Open(s.reserve[i], s.data[i], s.config)
           z == Account(x, act, cut)
           y == Close(z, i)
           t == Step(s, a, act)
<1>1. /\ i \in Assets /\ s.reserve[i] \in ReserveState /\ s.data[i] \in PositionState
      /\ s.config \in ConfigState(Assets, RuleIds) /\ now \in Nat
      /\ s.reserve \in [Assets -> ReserveState] /\ s.data \in [Assets -> PositionState]
      /\ limits[i] \in LimitState /\ cut \in CutState
  BY PoolAssumption DEF ActionState, SessionOK, TypeOK
<1>2. x \in Ctxs /\ z \in Ctxs /\ y \in Ctxs
  BY <1>1, OpenGood, AccountGood, CloseGood DEF Ctxs
<1>3. /\ s.ok /\ y.ok /\ t.reserve = [s.reserve EXCEPT ![i] = y.r]
      /\ t.data = [s.data EXCEPT ![i] = y.d] /\ t.config = y.c
      /\ t.check = MustCheck(s, act)
  BY DEF Step, After
<1>4. SessionNeutral(s, a) /\ SessionSpares(s, a)
  BY <1>3
<1>5. /\ z.ok /\ x.ok /\ y.d = z.d /\ y.c = z.c /\ Alike(z.r, y.r)
  <2>1. z.ok /\ y.d = z.d /\ y.c = z.c /\ Alike(z.r, y.r)
    <3> HIDE DEF z
    <3>1. QED
      BY <1>1, <1>2, <1>3, CloseBrings
  <2>2. QED
    <3> HIDE DEF x
    <3>1. QED
      BY <1>1, <1>2, <2>1, AccountWorks
<1>6. /\ x.r = Updated(s.reserve[i], now) /\ x.d = s.data[i] /\ x.r.updated = now
      /\ x.c = s.config
  BY <1>1, <1>5, OpenSucceeded DEF Context
<1> SUFFICES ASSUME ~MustCheck(s, act) PROVE SessionSpares(t, a)
  BY <1>3 DEF SessionSpares
<1>7. /\ ~s.check /\ act.op # "Borrow" /\ ~(act.op = "Withdraw" /\ i \in s.config.collaterals)
  BY DEF MustCheck
<1>8. /\ Relieves(config[a], s.config)
      /\ \A j \in Assets : Spares(reserve[j], data[a][j], config[a],
                                  s.reserve[j], s.data[j], s.config, cut, j)
  BY <1>4, <1>7 DEF SessionSpares
<1>9. \A j \in Assets : s.reserve[j].updated <= now /\ reserve[j].updated <= now
  BY <1>1, <1>4 DEF SessionNeutral, Neutral, Dated
<1> HIDE DEF x
<1>10. PICK dn \in Int, bn \in Int :
         /\ Brings(x, z, cut, dn, bn)
         /\ i \in s.config.collaterals => dn >= 0
         /\ bn <= 0 /\ Relieves(s.config, z.c)
  BY <1>1, <1>2, <1>5, <1>6, <1>7, AccountSpares
<1> HIDE DEF z, y, t
<1>11. /\ Nets(Updated(s.reserve[i], now), s.data[i], y.d, cut, dn, bn)
       /\ UpToDate(y.r, y.d) /\ y.r.updated = now
  BY <1>5, <1>6, <1>10 DEF Brings, Alike, UpToDate
<1>12. y.r \in ReserveState /\ y.d \in PositionState /\ y.r.updated <= now /\ Updated(y.r, now) = y.r
  BY <1>1, <1>2, <1>11 DEF Ctxs, Contexts, Updated
<1>13. Spares(s.reserve[i], s.data[i], s.config, y.r, y.d, y.c, cut, i)
  BY <1>1, <1>5, <1>9, <1>10, <1>11, <1>12, SparesBrought
<1>14. ASSUME NEW j \in Assets
       PROVE  Spares(reserve[j], data[a][j], config[a], t.reserve[j], t.data[j], t.config, cut, j)
  <2>1. /\ reserve[j] \in ReserveState /\ data[a][j] \in PositionState
        /\ s.reserve[j] \in ReserveState /\ s.data[j] \in PositionState
    BY <1>1 DEF TypeOK
  <2>2. /\ t.reserve[j] \in ReserveState /\ t.data[j] \in PositionState /\ t.reserve[j].updated <= now
        /\ Spares(s.reserve[j], s.data[j], s.config, t.reserve[j], t.data[j], t.config, cut, j)
    <3>1. CASE j = i
      BY <1>1, <1>3, <1>12, <1>13, <3>1
    <3>2. CASE j # i
      <4>1. t.reserve[j] = s.reserve[j] /\ t.data[j] = s.data[j]
        BY <1>1, <1>3, <3>2
      <4>2. Alike(Updated(s.reserve[j], now), Updated(s.reserve[j], now))
        BY DEF Alike
      <4>3. Spares(s.reserve[j], s.data[j], s.config, s.reserve[j], s.data[j], t.config, cut, j)
        BY <1>1, <1>3, <1>5, <1>9, <1>10, <2>1, <4>2, SparesAlike DEF Relieves
      <4>4. QED
        BY <1>9, <2>1, <4>1, <4>3
    <3>3. QED
      BY <3>1, <3>2
  <2>3. QED
    BY <1>1, <1>8, <1>9, <2>1, <2>2, SparesTransitive
<1>15. Relieves(config[a], t.config)
  BY <1>3, <1>5, <1>8, <1>10 DEF Relieves
<1>16. QED
  BY <1>14, <1>15 DEF SessionSpares

\* The coefficient that the rule of config c has for a collateral i.
Rated(c, i) == RuleOf(c)[i] # None /\ RuleOf(c)[i].collateral # None

\* A message spares all of b's positions.
Spared(b) ==
  /\ config'[b].rule = config[b].rule
  /\ \A j \in config'[b].collaterals \ config[b].collaterals : Rated(config[b], j)
  /\ \A j \in Assets : Spares(reserve[j], data[b][j], config[b],
                              reserve'[j], data'[b][j], config'[b], FeeReduction[b], j)

Upheld(b) == Spared(b) \/ Backed(b, reserve', data'[b], config'[b]) \/ Liquidated(b)

LEMMA PositionsTyped ==
  ASSUME TypeOK, TypeOK', Dated, Squares, NEW b \in Accounts, NEW j \in Assets
  PROVE  /\ now \in Nat /\ FeeReduction[b] \in CutState
         /\ reserve[j] \in ReserveState /\ reserve'[j] \in ReserveState
         /\ data[b][j] \in PositionState /\ data'[b][j] \in PositionState
         /\ reserve[j].updated <= now /\ reserve'[j].updated <= now
         /\ Alike(Updated(reserve[j], now), Updated(reserve'[j], now))
         /\ data'[b][j] = data[b][j] \/ UpToDate(Updated(reserve'[j], now), data'[b][j])
<1>1. /\ now \in Nat /\ FeeReduction[b] \in CutState
      /\ reserve[j] \in ReserveState /\ reserve'[j] \in ReserveState
      /\ data[b][j] \in PositionState /\ data'[b][j] \in PositionState
  BY PoolAssumption DEF TypeOK
<1>2. reserve[j].updated <= now
  BY DEF Dated
<1>3. /\ reserve'[j] = reserve[j] \/ reserve'[j].updated = now
      /\ Alike(Updated(reserve[j], now), Updated(reserve'[j], now))
      /\ data'[b][j] = data[b][j] \/ UpToDate(Updated(reserve'[j], now), data'[b][j])
  BY DEF Squares, Square
<1>4. QED
  BY <1>1, <1>2, <1>3

\* A position that the message leaves as it is.
LEMMA PositionLeft ==
  ASSUME TypeOK, TypeOK', Dated, Squares, NEW b \in Accounts, NEW j \in Assets,
         data'[b][j] = data[b][j], NEW c,
         j \in config[b].collaterals => j \in c.collaterals,
         j \in c.borrows => j \in config[b].borrows
  PROVE  Spares(reserve[j], data[b][j], config[b],
                reserve'[j], data'[b][j], c, FeeReduction[b], j)
<1> DEFINE r0 == reserve[j]  r1 == reserve'[j]  d == data[b][j]  cut == FeeReduction[b]
           c0 == config[b]
<1>1. /\ now \in Nat /\ cut \in CutState /\ r0 \in ReserveState /\ d \in PositionState
      /\ r0.updated <= now /\ Alike(Updated(r0, now), Updated(r1, now))
      /\ (j \in c0.collaterals => j \in c.collaterals) /\ (j \in c.borrows => j \in c0.borrows)
  BY PositionsTyped
<1> HIDE DEF r0, r1, d, cut, c0
<1>2. Spares(r0, d, c0, r1, d, c, cut, j)
  BY <1>1, SparesAlike
<1>3. QED
  BY <1>2 DEF r0, r1, d, cut, c0

\* An account of which the message touches at most its position in asset i, and
\* that one to its advantage.
LEMMA ReceiverSpared ==
  ASSUME TypeOK, TypeOK', Dated, Squares, NEW b \in Accounts, NEW i \in Assets,
         NEW dn \in Int, NEW bn \in Int, dn >= 0, bn <= 0, BringsTo(b, i, dn, bn),
         Relieves(config[b], config'[b]),
         \A j \in Assets \ {i} : data'[b][j] = data[b][j]
  PROVE  Spared(b)
<1>1. ASSUME NEW j \in Assets, data'[b][j] = data[b][j]
      PROVE  Spares(reserve[j], data[b][j], config[b],
                    reserve'[j], data'[b][j], config'[b], FeeReduction[b], j)
  <2> DEFINE c1 == config'[b]
  <2>1. /\ j \in config[b].collaterals => j \in c1.collaterals
        /\ j \in c1.borrows => j \in config[b].borrows
    BY DEF Relieves
  <2> HIDE DEF c1
  <2>2. Spares(reserve[j], data[b][j], config[b],
               reserve'[j], data'[b][j], c1, FeeReduction[b], j)
    BY <1>1, <2>1, PositionLeft
  <2>3. QED
    BY <2>2 DEF c1
<1>2. ASSUME data'[b][i] # data[b][i]
      PROVE  Spares(reserve[i], data[b][i], config[b],
                    reserve'[i], data'[b][i], config'[b], FeeReduction[b], i)
  <2> DEFINE r0 == reserve[i]  r1 == reserve'[i]  d == data[b][i]  e == data'[b][i]
             cut == FeeReduction[b]  c0 == config[b]  c1 == config'[b]
  <2>1. /\ now \in Nat /\ cut \in CutState /\ r0 \in ReserveState /\ r1 \in ReserveState
        /\ d \in PositionState /\ e \in PositionState /\ r0.updated <= now /\ r1.updated <= now
        /\ UpToDate(Updated(r1, now), e)
    BY <1>2, PositionsTyped
  <2>2. Nets(Updated(r0, now), d, e, cut, dn, bn) /\ Relieves(c0, c1)
    BY DEF BringsTo
  <2> HIDE DEF r0, r1, d, e, cut, c0, c1
  <2>3. Spares(r0, d, c0, r1, e, c1, cut, i)
    BY <2>1, <2>2, SparesBrought
  <2>4. QED
    BY <2>3 DEF r0, r1, d, e, cut, c0, c1
<1>3. QED
  BY <1>1, <1>2 DEF Spared, Relieves

LEMMA BystanderSpared ==
  ASSUME TypeOK, TypeOK', Dated, Squares, NEW b \in Accounts, data'[b] = data[b],
         config'[b] = config[b]
  PROVE  Spared(b)
<1>1. ASSUME NEW j \in Assets
      PROVE  Spares(reserve[j], data[b][j], config[b],
                    reserve'[j], data'[b][j], config'[b], FeeReduction[b], j)
  BY PositionLeft
<1>2. QED
  BY <1>1 DEF Spared

-----------------------------------------------------------------------------
(* Every message of a client upholds what backs every account *)

LEMMA CommitUpheld ==
  ASSUME TypeOK, TypeOK', Dated, Squares, NEW a \in Accounts, NEW s, SessionSpares(s, a),
         Commit(s, a), NEW b \in Accounts
  PROVE  Upheld(b)
<1>1. /\ s.check => Backed(a, s.reserve, s.data, s.config)
      /\ reserve' = s.reserve /\ data' = [data EXCEPT ![a] = s.data]
      /\ config' = [config EXCEPT ![a] = s.config]
  BY DEF Commit
<1>2. DOMAIN data = Accounts /\ DOMAIN config = Accounts
  BY DEF TypeOK
<1>3. CASE b = a
  <2>1. data'[b] = s.data /\ config'[b] = s.config
    BY <1>1, <1>2, <1>3
  <2>2. CASE s.check
    BY <1>1, <1>3, <2>1, <2>2 DEF Upheld
  <2>3. CASE ~s.check
    BY <1>1, <1>3, <2>1, <2>3 DEF SessionSpares, Relieves, Spared, Upheld
  <2>4. QED
    BY <2>2, <2>3
<1>4. CASE b # a
  BY <1>1, <1>2, <1>4, BystanderSpared DEF Upheld
<1>5. QED
  BY <1>3, <1>4

LEMMA SessionStartsSpared ==
  ASSUME TypeOK, Dated, NEW a \in Accounts
  PROVE  SessionSpares(Session(a), a)
<1>1. ASSUME NEW j \in Assets
      PROVE  Spares(reserve[j], data[a][j], config[a],
                    reserve[j], data[a][j], config[a], FeeReduction[a], j)
  <2>1. /\ now \in Nat /\ FeeReduction[a] \in CutState /\ reserve[j] \in ReserveState
        /\ reserve[j].updated <= now /\ data[a][j] \in PositionState
    BY PoolAssumption DEF TypeOK, Dated
  <2>2. Alike(Updated(reserve[j], now), Updated(reserve[j], now))
    BY DEF Alike
  <2>3. QED
    BY <2>1, <2>2, SparesAlike
<1>2. QED
  BY <1>1 DEF SessionSpares, Session, Relieves

LEMMA OperateUpheld ==
  ASSUME TypeOK, TypeOK', Dated, NEW a \in Accounts, NEW act \in ActionState, Operate(a, act),
         NEW b \in Accounts
  PROVE  Upheld(b)
<1> DEFINE s == Step(Session(a), a, act)
<1>1. Commit(s, a) /\ s.ok
  BY DEF Operate, Commit
<1>2. SessionSpares(s, a)
  BY <1>1, SessionGood, SessionStartsNeutral, SessionStartsSpared, StepSpares
<1>3. Squares
  BY OperateSquares
<1> HIDE DEF s
<1>4. QED
  BY <1>1, <1>2, <1>3, CommitUpheld

LEMMA MultiOpUpheld ==
  ASSUME TypeOK, TypeOK', Dated, NEW a \in Accounts, NEW acts \in ActionState \X ActionState,
         MultiOp(a, acts), NEW b \in Accounts
  PROVE  Upheld(b)
<1> DEFINE s1 == Step(Session(a), a, acts[1])
           s2 == Step(s1, a, acts[2])
<1>1. acts[1] \in ActionState /\ acts[2] \in ActionState
  OBVIOUS
<1>2. Commit(s2, a) /\ s2.ok
  BY DEF MultiOp, Commit
<1>3. SessionOK(s1, a) /\ (s1.ok => SessionNeutral(s1, a) /\ SessionSpares(s1, a))
  BY <1>1, SessionGood, StepGood, SessionStartsNeutral, SessionStartsSpared, StepNeutral,
     StepSpares
<1>4. Squares
  BY MultiOpSquares
<1> HIDE DEF s1
<1>5. SessionSpares(s2, a)
  BY <1>1, <1>2, <1>3, StepSpares
<1> HIDE DEF s2
<1>6. QED
  BY <1>2, <1>4, <1>5, CommitUpheld

LEMMA TransferDepositUpheld ==
  ASSUME TypeOK, TypeOK', Dated, NEW f \in Accounts, NEW t \in Accounts, f # t, NEW i \in Assets,
         i = NumAssets - 1, NEW n \in Nat, TransferDeposit(f, t, i, n), NEW b \in Accounts
  PROVE  Upheld(b)
<1>1. /\ BringsTo(t, i, n, 0) /\ Relieves(config[t], config'[t]) /\ Squares
      /\ \A j \in Assets \ {i} : data'[t][j] = data[t][j]
      /\ \A e \in Accounts \ {f, t} : data'[e] = data[e] /\ config'[e] = config[e]
  BY TransferDepositBrings, TransferDepositSquares
<1>2. CASE b = f
  BY <1>2 DEF TransferDeposit, Upheld
<1>3. CASE b = t
  <2>1. n \in Int /\ n >= 0 /\ 0 \in Int /\ 0 <= 0
    OBVIOUS
  <2>2. Spared(t)
    BY <1>1, <2>1, ReceiverSpared
  <2>3. QED
    BY <1>3, <2>2 DEF Upheld
<1>4. CASE b \notin {f, t}
  BY <1>1, <1>4, BystanderSpared DEF Upheld
<1>5. QED
  BY <1>2, <1>3, <1>4

LEMMA TransferDebtUpheld ==
  ASSUME TypeOK, TypeOK', Dated, NEW f \in Accounts, NEW t \in Accounts, f # t, NEW i \in Assets,
         i = NumAssets - 1, NEW n \in Nat, TransferDebt(f, t, i, n), NEW b \in Accounts
  PROVE  Upheld(b)
<1>1. /\ BringsTo(f, i, 0, -n) /\ Relieves(config[f], config'[f]) /\ Squares
      /\ \A j \in Assets \ {i} : data'[f][j] = data[f][j]
      /\ \A e \in Accounts \ {f, t} : data'[e] = data[e] /\ config'[e] = config[e]
  BY TransferDebtBrings, TransferDebtSquares
<1>2. CASE b = t
  BY <1>2 DEF TransferDebt, Upheld
<1>3. CASE b = f
  <2> DEFINE m == -n
  <2>1. m \in Int /\ m <= 0 /\ 0 \in Int /\ 0 >= 0 /\ BringsTo(f, i, 0, m)
    BY <1>1
  <2> HIDE DEF m
  <2>2. Spared(f)
    BY <1>1, <2>1, ReceiverSpared
  <2>3. QED
    BY <1>3, <2>2 DEF Upheld
<1>4. CASE b \notin {f, t}
  BY <1>1, <1>4, BystanderSpared DEF Upheld
<1>5. QED
  BY <1>2, <1>3, <1>4

\* Whoever is liquidated may lose what backs the rest of the debt.
LEMMA LiquidateUpheld ==
  ASSUME TypeOK, TypeOK', Dated, NEW q \in Liquidations, q[1] \in Accounts, q[2] \in Accounts,
         q[1] # q[2], q[3] \in Assets, q[4] \in Assets, q[5] \in Nat,
         Liquidate(q[1], q[2], q[3], q[4], q[5]), NEW b \in Accounts
  PROVE  Upheld(b)
<1> DEFINE l == q[1]  a == q[2]  tk == q[4]
<1>1. /\ Squares /\ \E taken \in Nat : BringsTo(l, tk, taken, 0)
      /\ Relieves(config[l], config'[l])
      /\ \A j \in Assets \ {tk} : data'[l][j] = data[l][j]
      /\ \A e \in Accounts \ {a, l} : data'[e] = data[e] /\ config'[e] = config[e]
  BY LiquidateSquares
<1>2. CASE b = a
  BY <1>2 DEF Upheld, Liquidated
<1> HIDE DEF l, tk
<1>3. CASE b = l
  <2>1. PICK taken \in Nat : BringsTo(l, tk, taken, 0)
    BY <1>1
  <2>2. taken \in Int /\ taken >= 0 /\ 0 \in Int /\ 0 <= 0 /\ l \in Accounts /\ tk \in Assets
    BY DEF l, tk
  <2>3. Spared(l)
    BY <1>1, <2>1, <2>2, ReceiverSpared
  <2>4. QED
    BY <1>3, <2>3 DEF Upheld
<1>4. CASE b \notin {a, l}
  BY <1>1, <1>4, BystanderSpared DEF Upheld
<1>5. QED
  BY <1>2, <1>3, <1>4

LEMMA SetAsCollateralUpheld ==
  ASSUME TypeOK, TypeOK', Dated, Squares, NEW a \in Accounts, NEW i \in Assets,
         NEW on \in BOOLEAN, SetAsCollateral(a, i, on), NEW b \in Accounts
  PROVE  Upheld(b)
<1>1. /\ config' = [config EXCEPT ![a].collaterals = IF on THEN @ \cup {i} ELSE @ \ {i}]
      /\ UNCHANGED <<reserve, data>>
      /\ on => Rated(config[a], i)
      /\ ~on => Backed(a, reserve', data'[a], config'[a])
  BY DEF SetAsCollateral, Rated
<1>2. config \in [Accounts -> ConfigState(Assets, Nat)]
  BY DEF TypeOK
<1>3. CASE b = a /\ ~on
  BY <1>1, <1>3 DEF Upheld
<1>4. CASE b = a /\ on
  <2> DEFINE c1 == config'[a]
  <2>1. /\ c1.rule = config[a].rule /\ c1.borrows = config[a].borrows
        /\ c1.collaterals = config[a].collaterals \cup {i}
    BY <1>1, <1>2, <1>4 DEF ConfigState
  <2> HIDE DEF c1
  <2>2. ASSUME NEW j \in Assets
        PROVE  Spares(reserve[j], data[a][j], config[a], reserve'[j], data'[a][j], c1,
                      FeeReduction[a], j)
    BY <1>1, <2>1, PositionLeft
  <2>3. Spared(a)
    BY <1>1, <1>4, <2>1, <2>2 DEF Spared, c1
  <2>4. QED
    BY <1>4, <2>3 DEF Upheld
<1>5. CASE b # a
  <2>1. config'[b] = config[b] /\ data'[b] = data[b]
    BY <1>1, <1>2, <1>5
  <2>2. QED
    BY <2>1, BystanderSpared DEF Upheld
<1>6. QED
  BY <1>3, <1>4, <1>5

LEMMA ClientUpheld ==
  ASSUME SafeRequests, TypeOK, TypeOK', Dated, ClientNext, NEW b \in Accounts
  PROVE  Upheld(b)
<1>1. Squares
  BY ClientSquares
<1>2. ASSUME NEW q \in Requests, Operate(q[1], q[2]) PROVE Upheld(b)
  BY <1>2, OperateUpheld, RequestAssumption
<1>3. ASSUME NEW q \in MultiRequests, MultiOp(q[1], q[2]) PROVE Upheld(b)
  BY <1>3, MultiOpUpheld, RequestAssumption
<1>4. ASSUME NEW q \in DepositTransfers, TransferDeposit(q[1], q[2], q[3], q[4]) PROVE Upheld(b)
  BY <1>4, TransferDepositUpheld, RequestAssumption DEF SafeRequests
<1>5. ASSUME NEW q \in DebtTransfers, TransferDebt(q[1], q[2], q[3], q[4]) PROVE Upheld(b)
  BY <1>5, TransferDebtUpheld, RequestAssumption DEF SafeRequests
<1>6. ASSUME NEW q \in Liquidations, Liquidate(q[1], q[2], q[3], q[4], q[5]) PROVE Upheld(b)
  BY <1>6, LiquidateUpheld, RequestAssumption DEF SafeRequests
<1>7. ASSUME NEW q \in CollateralSwitches, SetAsCollateral(q[1], q[2], q[3]) PROVE Upheld(b)
  BY <1>1, <1>7, SetAsCollateralUpheld, RequestAssumption
<1>8. ASSUME NEW q \in RuleChoices, ChooseMarketRule(q[1], q[2]) PROVE Upheld(b)
  <2>1. /\ q[1] \in Accounts /\ config' = [config EXCEPT ![q[1]].rule = q[2]]
        /\ UNCHANGED <<reserve, data>> /\ Backed(q[1], reserve', data'[q[1]], config'[q[1]])
    BY <1>8, RequestAssumption DEF ChooseMarketRule
  <2>2. CASE b = q[1]
    BY <2>1, <2>2 DEF Upheld
  <2>3. CASE b # q[1]
    <3>1. config'[b] = config[b] /\ data'[b] = data[b]
      BY <2>1, <2>3 DEF TypeOK
    <3>2. QED
      BY <1>1, <3>1, BystanderSpared DEF Upheld
  <2>4. QED
    BY <2>2, <2>3
<1>9. ASSUME NEW i \in Assets, AccumulateInterest(i) PROVE Upheld(b)
  BY <1>1, <1>9, BystanderSpared DEF AccumulateInterest, Upheld
<1>10. ASSUME NEW q \in Adjustments, AdjustRateAtTarget(q[1], q[2]) PROVE Upheld(b)
  BY <1>1, <1>10, BystanderSpared DEF AdjustRateAtTarget, book, Upheld
<1>11. QED
  BY <1>2, <1>3, <1>4, <1>5, <1>6, <1>7, <1>8, <1>9, <1>10 DEF ClientNext

-----------------------------------------------------------------------------
(* From positions to what they let an account owe *)

LEMMA TotalGrows ==
  ASSUME NEW S, NEW T, NEW f \in [S -> Nat], NEW g \in [T -> Nat],
         IsFiniteSet(T), S \subseteq T, \A i \in S : f[i] <= g[i]
  PROVE  /\ Total(f) <= Total(g)
         /\ Total(f) \in Nat /\ Total(g) \in Nat
<1>1. IsFiniteSet(S)
  BY FS_Subset
<1>2. Coins(f) \subseteq Coins(g)
  <2>1. ASSUME NEW i \in S PROVE i \in T /\ CoinsOf(i, f[i]) \subseteq CoinsOf(i, g[i])
    BY DEF CoinsOf
  <2>2. QED
    BY <2>1 DEF Coins
<1>3. IsFiniteSet(Coins(g))
  BY FiniteCoins
<1>4. QED
  BY <1>1, <1>2, <1>3, FS_Subset, TotalIsNumber DEF Total

LEMMA QuotientGrows ==
  ASSUME NEW p \in Nat, NEW q \in Nat, p <= q, NEW e \in Nat \ {0}
  PROVE  p \div e \in Nat /\ q \div e \in Nat /\ p \div e <= q \div e
<1> DEFINE x == p \div e
<1>1. x \in Nat /\ x * e <= p /\ q \div e \in Nat
  BY Z3
<1> HIDE DEF x
<1>2. x * e <= q
  <2> DEFINE y == x * e
  <2>1. y \in Int /\ y <= p
    BY <1>1
  <2> HIDE DEF y
  <2>2. y <= q
    BY <2>1
  <2>3. QED
    BY <2>2 DEF y
<1>3. x <= q \div e
  BY <1>1, <1>2, Quotient
<1>4. QED
  BY <1>1, <1>3 DEF x

LEMMA RatioGrows ==
  ASSUME NEW m \in Nat, NEW n \in Nat, m <= n, NEW x \in Nat, NEW e \in Nat
  PROVE  /\ MulDivDown(m, x, e) \in Nat /\ MulDivDown(n, x, e) \in Nat
         /\ MulDivDown(m, x, e) <= MulDivDown(n, x, e)
<1> DEFINE p == m * x  q == n * x
<1>1. p \in Nat /\ q \in Nat /\ p <= q
  <2> DEFINE k == n - m
  <2>1. k \in Nat /\ n = m + k
    OBVIOUS
  <2> HIDE DEF k
  <2>2. (m + k) * x = m * x + k * x /\ m * x \in Nat /\ k * x \in Nat
    BY <2>1
  <2>3. QED
    BY <2>1, <2>2
<1> HIDE DEF p, q
<1>2. e # 0 => p \div e \in Nat /\ q \div e \in Nat /\ p \div e <= q \div e
  BY <1>1, QuotientGrows
<1>3. /\ MulDivDown(m, x, e) = IF e = 0 THEN 0 ELSE p \div e
      /\ MulDivDown(n, x, e) = IF e = 0 THEN 0 ELSE q \div e
  BY DEF MulDivDown, p, q
<1>4. QED
  BY <1>2, <1>3

\* A larger balance is worth no less, whatever the price and the coefficient.
LEMMA WorthGrows ==
  ASSUME NEW m \in Nat, NEW n \in Nat, m <= n, NEW i, price[i] \in Nat,
         DecimalMultiplier[i] * E10 \in Nat, NEW k \in Nat
  PROVE  /\ MulDivDown(Value(i, m, price), k, E8) \in Nat
         /\ MulDivDown(Value(i, n, price), k, E8) \in Nat
         /\ MulDivDown(Value(i, m, price), k, E8) <= MulDivDown(Value(i, n, price), k, E8)
<1>1. /\ Value(i, m, price) \in Nat /\ Value(i, n, price) \in Nat
      /\ Value(i, m, price) <= Value(i, n, price)
  BY RatioGrows DEF Value
<1>2. QED
  BY <1>1, RatioGrows, ScaleAssumption

\* What the check reads of a reserve that has been brought up to now.
Fresh(rs) == [i \in Assets |-> Updated(rs[i], now)]

LEMMA AccruedIsFresh ==
  ASSUME now \in Nat, NEW r \in ReserveState, r.updated <= now, NEW d \in PositionState,
         NEW cut \in CutState, CanAccrue(Updated(r, now), d, cut)
  PROVE  LET e == Accrue(Updated(r, now), d, cut)
         IN  /\ e.deposit = FreshDeposit(r, d, cut) /\ e.debt = FreshDebt(r, d, cut)
             /\ e.deposit \in Nat /\ e.debt \in Nat
<1> DEFINE u == Updated(r, now)
           di == DepositInterest(u, d, cut)
           bi == DebtInterest(u, d, cut)
           e == Accrue(u, d, cut)
<1>1. u.depositIndex \in Nat /\ u.debtIndex \in Nat
  BY IndexesNatural
<1>2. u.depositFee \in Nat /\ u.debtFee \in Nat
  BY DEF Updated, ReserveState
<1>3. d.deposit \in Nat /\ d.debt \in Nat
  BY PositionNumbers
<1>4. CanAccrue(u, d, cut)
  OBVIOUS
<1>5. CASE UpToDate(u, d)
  <2>1. e = d
    BY <1>5 DEF Accrue
  <2> HIDE DEF u
  <2>2. di = 0 /\ bi = 0
    BY <1>1, <1>2, <1>5, NothingDueYet
  <2>3. d.deposit + di = d.deposit /\ d.debt + bi = d.debt
    BY <1>3, <2>2
  <2> HIDE DEF e
  <2>4. QED
    BY <1>3, <2>1, <2>3 DEF FreshDeposit, FreshDebt, u, e
<1>6. CASE ~UpToDate(u, d)
  <2> HIDE DEF u
  <2>1. e.deposit = d.deposit + di /\ e.debt = d.debt + bi
    BY <1>6 DEF Accrue
  <2>2. d.deposit + di \in U128 /\ d.debt + bi \in U128
    BY <1>4, <1>6, AccrueFits
  <2> HIDE DEF e, di, bi
  <2>3. e.deposit \in Nat /\ e.debt \in Nat
    BY <2>1, <2>2, ScaleAssumption DEF U128
  <2>4. QED
    BY <2>1, <2>3 DEF FreshDeposit, FreshDebt, u, e, di, bi
<1>7. QED
  BY <1>5, <1>6

\* The check counts every collateral and every debt.
LEMMA CountsAll ==
  ASSUME NEW ds \in [Assets -> PositionState], NEW c, c.collaterals \subseteq Assets,
         c.borrows \subseteq Assets, NEW rs, \A j \in Assets : SoundAt(rs[j], ds[j], c, j),
         \A j \in Assets : j \in c.collaterals => ds[j].deposit > 0
  PROVE  Collaterals(ds, c) = c.collaterals /\ Debts(ds, c) = c.borrows
<1>1. ASSUME NEW j \in c.collaterals PROVE j \in c.deposits /\ ds[j] # NoPosition
  <2>1. j \in Assets /\ ds[j].deposit > 0 /\ SoundAt(rs[j], ds[j], c, j)
    OBVIOUS
  <2>2. QED
    BY <2>1, PositionNumbers DEF SoundAt, NoPosition
<1>2. ASSUME NEW j \in c.borrows PROVE ds[j] # NoPosition
  <2>1. j \in Assets /\ SoundAt(rs[j], ds[j], c, j)
    OBVIOUS
  <2>2. QED
    BY <2>1 DEF SoundAt, NoPosition
<1>3. QED
  BY <1>1, <1>2 DEF Collaterals, Debts

\* What spares every position spares the backing.
LEMMA SparedStaysBacked ==
  ASSUME TypeOK, NEW cut \in CutState,
         NEW rs0 \in [Assets -> ReserveState], NEW rs1 \in [Assets -> ReserveState],
         \A j \in Assets : rs0[j].updated <= now /\ rs1[j].updated <= now,
         NEW ds0 \in [Assets -> PositionState], NEW ds1 \in [Assets -> PositionState],
         NEW c0 \in ConfigState(Assets, RuleIds), NEW c1 \in ConfigState(Assets, RuleIds),
         Collaterals(ds0, c0) = c0.collaterals, Debts(ds0, c0) = c0.borrows,
         Collaterals(ds1, c1) = c1.collaterals, Debts(ds1, c1) = c1.borrows,
         c1.rule = c0.rule, \A j \in c1.collaterals \ c0.collaterals : Rated(c0, j),
         \A j \in Assets : Spares(rs0[j], ds0[j], c0, rs1[j], ds1[j], c1, cut, j),
         RuleCovers(ds1, c1, RuleOf(c1)) =>
           NumbersFit(Fresh(rs1), ds1, c1, price, RuleOf(c1), cut),
         Collateralized(Fresh(rs0), ds0, c0, price, RuleOf(c0), cut)
  PROVE  Collateralized(Fresh(rs1), ds1, c1, price, RuleOf(c1), cut)
<1> DEFINE rule == RuleOf(c0)
           A0(j) == Accrued(j, Fresh(rs0), ds0, cut)
           A1(j) == Accrued(j, Fresh(rs1), ds1, cut)
           f0 == [j \in c0.collaterals |-> CollateralPower(j, A0(j), price, rule)]
           f1 == [j \in c1.collaterals |-> CollateralPower(j, A1(j), price, rule)]
           g0 == [j \in c0.borrows |-> DebtPower(j, A0(j), price, rule)]
           g1 == [j \in c1.borrows |-> DebtPower(j, A1(j), price, rule)]
<1>1. rule \in MarketRule /\ RuleOf(c1) = rule /\ now \in Nat
  <2>1. rules \in Seq(MarketRule) /\ c0.rule \in 0 .. Len(rules) - 1 /\ now \in Nat
    BY DEF TypeOK, ConfigState, RuleIds
  <2>2. QED
    BY <2>1 DEF RuleOf
<1>2. /\ c0.collaterals \subseteq Assets /\ c0.borrows \subseteq Assets
      /\ c1.collaterals \subseteq Assets /\ c1.borrows \subseteq Assets
      /\ c0.collaterals \subseteq c1.collaterals /\ c1.borrows \subseteq c0.borrows
  <2>1. /\ c0.collaterals \subseteq Assets /\ c0.borrows \subseteq Assets
        /\ c1.collaterals \subseteq Assets /\ c1.borrows \subseteq Assets
    BY DEF ConfigState
  <2>2. QED
    BY <2>1 DEF Spares
<1>3. IsFiniteSet(c1.collaterals) /\ IsFiniteSet(c0.borrows)
  <2>1. 0 \in Int /\ NumAssets - 1 \in Int
    BY PoolAssumption
  <2>2. IsFiniteSet(Assets)
    BY <2>1, FS_Interval DEF Assets
  <2>3. QED
    BY <1>2, <2>2, FS_Subset
<1>4. ASSUME NEW j \in c0.collaterals \cup c0.borrows
      PROVE  /\ A0(j).deposit = FreshDeposit(rs0[j], ds0[j], cut)
             /\ A0(j).debt = FreshDebt(rs0[j], ds0[j], cut)
             /\ A0(j).deposit \in Nat /\ A0(j).debt \in Nat
  <2>1. j \in Assets
    BY <1>2
  <2>2. A0(j) = Accrue(Updated(rs0[j], now), ds0[j], cut)
    BY <2>1 DEF Accrued, Fresh
  <2>3. CanAccrue(Updated(rs0[j], now), ds0[j], cut)
    BY <2>1 DEF Collateralized, Assessable, NumbersFit, Fresh
  <2>4. QED
    BY <1>1, <2>1, <2>2, <2>3, AccruedIsFresh
<1> HIDE DEF rule
<1>5. ASSUME NEW j \in c1.collaterals
      PROVE  rule[j] # None /\ rule[j].collateral # None
  <2>1. CASE j \in c0.collaterals
    BY <2>1 DEF Collateralized, Assessable, RuleCovers, rule
  <2>2. CASE j \notin c0.collaterals
    BY <2>2 DEF Rated, rule
  <2>3. QED
    BY <2>1, <2>2
<1>6. ASSUME NEW j \in c0.borrows
      PROVE  rule[j] # None /\ rule[j].borrow # None
  BY DEF Collateralized, Assessable, RuleCovers, rule
<1>7. Assessable(Fresh(rs1), ds1, c1, price, rule, cut)
  BY <1>1, <1>2, <1>5, <1>6 DEF Assessable, RuleCovers
<1>8. ASSUME NEW j \in c1.collaterals \cup c1.borrows
      PROVE  /\ A1(j).deposit = FreshDeposit(rs1[j], ds1[j], cut)
             /\ A1(j).debt = FreshDebt(rs1[j], ds1[j], cut)
             /\ A1(j).deposit \in Nat /\ A1(j).debt \in Nat
  <2>1. j \in Assets
    BY <1>2
  <2>2. A1(j) = Accrue(Updated(rs1[j], now), ds1[j], cut)
    BY <2>1 DEF Accrued, Fresh
  <2>3. CanAccrue(Updated(rs1[j], now), ds1[j], cut)
    BY <1>7, <2>1 DEF Assessable, NumbersFit, Fresh
  <2>4. QED
    BY <1>1, <2>1, <2>2, <2>3, AccruedIsFresh
<1> HIDE DEF A0, A1
<1>9. ASSUME NEW j \in Assets, rule[j] # None
      PROVE  rule[j].collateral \in Nat \cup {None} /\ rule[j].borrow \in Nat \cup {None}
  BY <1>1, <1>9 DEF MarketRule, AssetRules, Coefficient
<1>10. \A j \in Assets : price[j] \in Nat /\ DecimalMultiplier[j] * E10 \in Nat
  BY PoolAssumption DEF TypeOK
<1>11. ASSUME NEW j \in c0.collaterals
       PROVE  /\ f0[j] \in Nat /\ f1[j] \in Nat /\ f0[j] <= f1[j]
  <2>1. j \in Assets /\ j \in c1.collaterals
    BY <1>2
  <2>2. FreshDeposit(rs0[j], ds0[j], cut) <= FreshDeposit(rs1[j], ds1[j], cut)
    <3>1. FreshDeposit(rs0[j], ds0[j], cut) \in Nat /\ FreshDeposit(rs1[j], ds1[j], cut) \in Nat
      BY <1>4, <1>8, <2>1
    <3>2. QED
      BY <2>1, <3>1 DEF Spares
  <2>3. A0(j).deposit \in Nat /\ A1(j).deposit \in Nat /\ A0(j).deposit <= A1(j).deposit
    BY <1>4, <1>8, <2>1, <2>2
  <2>4. rule[j].collateral \in Nat
    BY <1>5, <1>9, <2>1
  <2>5. QED
    BY <1>10, <2>1, <2>3, <2>4, WorthGrows DEF CollateralPower
<1>12. ASSUME NEW j \in c1.collaterals
       PROVE  f1[j] \in Nat
  <2>1. j \in Assets /\ A1(j).deposit \in Nat /\ A1(j).deposit <= A1(j).deposit
    BY <1>2, <1>8
  <2>2. rule[j].collateral \in Nat
    BY <1>5, <1>9, <2>1
  <2>3. QED
    BY <1>10, <2>1, <2>2, WorthGrows DEF CollateralPower
<1>13. ASSUME NEW j \in c1.borrows
       PROVE  g1[j] \in Nat /\ g0[j] \in Nat /\ g1[j] <= g0[j]
  <2>1. j \in Assets /\ j \in c0.borrows
    BY <1>2
  <2>2. FreshDebt(rs1[j], ds1[j], cut) <= FreshDebt(rs0[j], ds0[j], cut)
    BY <2>1 DEF Spares
  <2>3. A0(j).debt \in Nat /\ A1(j).debt \in Nat /\ A1(j).debt <= A0(j).debt
    BY <1>4, <1>8, <2>1, <2>2
  <2>4. rule[j].borrow \in Nat
    BY <1>6, <1>9, <2>1
  <2>5. QED
    BY <1>10, <2>1, <2>3, <2>4, WorthGrows DEF DebtPower
<1>14. ASSUME NEW j \in c0.borrows
       PROVE  g0[j] \in Nat
  <2>1. j \in Assets /\ A0(j).debt \in Nat /\ A0(j).debt <= A0(j).debt
    BY <1>2, <1>4
  <2>2. rule[j].borrow \in Nat
    BY <1>6, <1>9, <2>1
  <2>3. QED
    BY <1>10, <2>1, <2>2, WorthGrows DEF DebtPower
<1>15. /\ f0 \in [c0.collaterals -> Nat] /\ f1 \in [c1.collaterals -> Nat]
       /\ g0 \in [c0.borrows -> Nat] /\ g1 \in [c1.borrows -> Nat]
  BY <1>11, <1>12, <1>13, <1>14
<1>16. /\ TotalCollateralPower(Fresh(rs0), ds0, c0, price, rule, cut) = Total(f0)
       /\ TotalDebtPower(Fresh(rs0), ds0, c0, price, rule, cut) = Total(g0)
       /\ TotalCollateralPower(Fresh(rs1), ds1, c1, price, rule, cut) = Total(f1)
       /\ TotalDebtPower(Fresh(rs1), ds1, c1, price, rule, cut) = Total(g1)
  BY DEF TotalCollateralPower, TotalDebtPower, A0, A1
<1> HIDE DEF f0, f1, g0, g1
<1>17. /\ Total(f0) <= Total(f1) /\ Total(g1) <= Total(g0)
       /\ Total(f0) \in Nat /\ Total(f1) \in Nat /\ Total(g0) \in Nat /\ Total(g1) \in Nat
  <2>1. Total(f0) <= Total(f1) /\ Total(f0) \in Nat /\ Total(f1) \in Nat
    <3> DEFINE S == c0.collaterals  T == c1.collaterals
    <3>1. /\ S \subseteq T /\ IsFiniteSet(T) /\ f0 \in [S -> Nat] /\ f1 \in [T -> Nat]
          /\ \A j \in S : f0[j] <= f1[j]
      BY <1>2, <1>3, <1>11, <1>15
    <3> HIDE DEF S, T
    <3>2. QED
      BY <3>1, TotalGrows
  <2>2. Total(g1) <= Total(g0) /\ Total(g0) \in Nat /\ Total(g1) \in Nat
    <3> DEFINE S == c1.borrows  T == c0.borrows
    <3>1. /\ S \subseteq T /\ IsFiniteSet(T) /\ g1 \in [S -> Nat] /\ g0 \in [T -> Nat]
          /\ \A j \in S : g1[j] <= g0[j]
      BY <1>2, <1>3, <1>13, <1>15
    <3> HIDE DEF S, T
    <3>2. QED
      BY <3>1, TotalGrows
  <2>3. QED
    BY <2>1, <2>2
<1>18. Total(f0) >= Total(g0)
  BY <1>16 DEF Collateralized, rule
<1>19. Total(f1) >= Total(g1)
  BY <1>17, <1>18
<1>20. QED
  BY <1>1, <1>16, <1>19, <1>7 DEF Collateralized

LEMMA ClientKeepsBacking ==
  ASSUME SafeRequests, TypeOK, TypeOK', Dated, AllSound, AllSound', AllFilled, AllFilled',
         ClientNext, NEW b \in Accounts, FreshlyBacked(b, reserve, data[b], config[b]),
         ~Backed(b, reserve', data'[b], config'[b]), ~Liquidated(b),
         CheckFits(b, reserve', data'[b], config'[b])
  PROVE  FreshlyBacked(b, reserve', data'[b], config'[b])
<1> DEFINE cut == FeeReduction[b]
           rs0 == reserve  ds0 == data[b]  c0 == config[b]
           rs1 == reserve' ds1 == data'[b] c1 == config'[b]
<1>1. Spared(b)
  BY ClientUpheld DEF Upheld
<1>2. /\ rs0 \in [Assets -> ReserveState] /\ rs1 \in [Assets -> ReserveState]
      /\ ds0 \in [Assets -> PositionState] /\ ds1 \in [Assets -> PositionState]
      /\ c0 \in ConfigState(Assets, RuleIds) /\ cut \in CutState
  BY PoolAssumption DEF TypeOK, ConfigState, RuleIds
<1>3. \A j \in Assets : rs0[j].updated <= now /\ rs1[j].updated <= now
  <2>1. Dated' /\ now' = now
    BY ClientSquares
  <2>2. QED
    BY <2>1 DEF Dated
<1>4. c1.rule = c0.rule /\ c1 \in ConfigState(Assets, RuleIds)
  <2>1. c1 \in ConfigState(Assets, Nat)
    BY DEF TypeOK
  <2>2. QED
    BY <1>1, <1>2, <2>1 DEF Spared, ConfigState
<1>5. Collaterals(ds0, c0) = c0.collaterals /\ Debts(ds0, c0) = c0.borrows
  <2>1. /\ \A j \in Assets : SoundAt(rs0[j], ds0[j], c0, j)
        /\ \A j \in Assets : j \in c0.collaterals => ds0[j].deposit > 0
        /\ c0.collaterals \subseteq Assets /\ c0.borrows \subseteq Assets
    BY <1>2 DEF AllSound, AllFilled, ConfigState
  <2> HIDE DEF rs0, ds0, c0
  <2>2. QED
    BY <1>2, <2>1, CountsAll
<1>6. Collaterals(ds1, c1) = c1.collaterals /\ Debts(ds1, c1) = c1.borrows
  <2>1. /\ \A j \in Assets : SoundAt(rs1[j], ds1[j], c1, j)
        /\ \A j \in Assets : j \in c1.collaterals => ds1[j].deposit > 0
        /\ c1.collaterals \subseteq Assets /\ c1.borrows \subseteq Assets
    BY <1>4 DEF AllSound, AllFilled, ConfigState
  <2> HIDE DEF rs1, ds1, c1
  <2>2. QED
    BY <1>2, <2>1, CountsAll
<1>7. /\ \A j \in c1.collaterals \ c0.collaterals : Rated(c0, j)
      /\ \A j \in Assets : Spares(rs0[j], ds0[j], c0, rs1[j], ds1[j], c1, cut, j)
  BY <1>1 DEF Spared
<1>8. RuleCovers(ds1, c1, RuleOf(c1)) => NumbersFit(Fresh(rs1), ds1, c1, price, RuleOf(c1), cut)
  BY DEF CheckFits, Fresh
<1>9. Collateralized(Fresh(rs0), ds0, c0, price, RuleOf(c0), cut)
  BY DEF FreshlyBacked, Backed, Fresh
<1> HIDE DEF rs0, rs1, ds0, ds1, c0, c1, cut
<1>10. Collateralized(Fresh(rs1), ds1, c1, price, RuleOf(c1), cut)
  BY <1>2, <1>3, <1>4, <1>5, <1>6, <1>7, <1>8, <1>9, SparedStaysBacked
<1>11. QED
  BY <1>10 DEF FreshlyBacked, Backed, Fresh, rs1, ds1, c1, cut

-----------------------------------------------------------------------------
\* Nobody's message takes the backing away from an account, for any number of
\* accounts and assets, any prices, rules and fees, and whatever the admins do,
\* as long as the requests are safe and no minimal collateral is zero: only a
\* liquidation does, or numbers of the check that no longer fit.
THEOREM BackingKept ==
  ASSUME SafeRequests, PositiveMinimums
  PROVE  Spec => BackingPreserved
<1> DEFINE Inv == TypeOK /\ Dated /\ AllSound /\ AllFilled
           Kept ==
             \A a \in Accounts :
               /\ FreshlyBacked(a, reserve, data[a], config[a])
               /\ ~FreshlyBacked(a, reserve', data'[a], config'[a])
               /\ ~Backed(a, reserve', data'[a], config'[a])
               => \/ Liquidated(a)
                  \/ ~CheckFits(a, reserve', data'[a], config'[a])
                  \/ ~ClientNext
<1>1. Init => Inv
  <2>1. Init => Dated
    BY DEF Init, Dated, NewReserve
  <2>2. QED
    BY <2>1, InitGood, InitPositions
<1>2. Inv /\ [Next]_vars => Inv'
  <2>1. Inv /\ UNCHANGED vars => Dated'
    BY DEF Dated, vars, book
  <2>2. Inv /\ Next => Dated'
    BY BooksBalanceStep
  <2>3. QED
    BY <2>1, <2>2, SoundStep, FilledStep
<1>3. Inv /\ [Next]_vars => [Kept]_vars
  <2> SUFFICES ASSUME Inv, Next PROVE Kept
    OBVIOUS
  <2>1. Inv'
    BY <1>2
  <2>2. QED
    BY <2>1, ClientKeepsBacking
<1>4. BackingPreserved <=> [][Kept]_vars
  BY DEF BackingPreserved
<1> HIDE DEF Inv, Kept
<1>5. QED
  BY <1>1, <1>2, <1>3, <1>4, PTL DEF Spec
=============================================================================
