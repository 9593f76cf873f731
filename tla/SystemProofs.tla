----------------------------- MODULE SystemProofs -----------------------------
(***************************************************************************)
(* The whole system, pool, tokens, flash loans and registrar, for every    *)
(* instance.  What is proved of the pool alone holds with flash loans as   *)
(* well, whatever their receivers do: a frame on the stack keeps a         *)
(* snapshot that was a good state itself, so that rolling it back leads to *)
(* one.  Nobody gets at an account of others beyond what its owner has     *)
(* allowed, and a loan leaves the pool richer by its fee.                  *)
(***************************************************************************)
EXTENDS FlashLoans, FundingProofs, SequenceTheorems

AllowanceState == [Tokens -> [Assets -> [Accounts \X Accounts -> Nat]]]

\* The snapshots of frames.
Snapshots ==
  [reserve : [Assets -> ReserveState],
   data : [Accounts -> [Assets -> PositionState]],
   config : [Accounts -> ConfigState(Assets, Nat)],
   vault : {v \in [Assets -> Int] : \A i \in Assets : v[i] \in 0 .. Supply[i]},
   model : [Assets -> ModelState \cup {None}],
   allowed : AllowanceState,
   nextCounter : Counters,
   accountToCounter : [Accounts -> Counters \cup {None}],
   counterToAccount : [Counters -> Accounts \cup {None}]]

Frames ==
  {l \in [caller : Accounts, assets : Seq(Assets), amounts : Seq(Nat), fees : Seq(Nat),
          before : Snapshots] : Len(l.amounts) = Len(l.assets) /\ Len(l.fees) = Len(l.assets)}

\* Every account of snapshot s has a market rule.
RulesExist(s) == \A x \in Accounts : s.config[x].rule < Len(rules)

\* The accounts that are registered in s.
Registered(s) == {x \in Accounts : s.accountToCounter[x] # None}

\* The counter may lag behind the number of registered accounts (a flash loan
\* writes it back) and is never ahead of it.
Counted(s) == s.nextCounter <= Cardinality(Registered(s))

\* The totals are the sums of the balances.
Balanced(s) ==
  \A i \in Assets :
    /\ Total([x \in Accounts |-> s.data[x][i].deposit]) = s.reserve[i].totalDeposit
    /\ Total([x \in Accounts |-> s.data[x][i].debt]) = s.reserve[i].totalDebt

\* Every position is sound.
Sound(s) ==
  \A x \in Accounts : \A i \in Assets : SoundAt(s.reserve[i], s.data[x][i], s.config[x], i)

\* What is good about a state, with its snapshot s.
Good(s) == RulesExist(s) /\ Counted(s)

RegistrarTyped ==
  /\ nextCounter \in Counters
  /\ accountToCounter \in [Accounts -> Counters \cup {None}]
  /\ counterToAccount \in [Counters -> Accounts \cup {None}]

\* Accounts registered in an outer frame are registered in the inner ones.
Nested ==
  /\ \A k \in DOMAIN loans : Registered(loans[k].before) \subseteq Registered(Snapshot)
  /\ \A j, k \in DOMAIN loans : j <= k =>
       Registered(loans[j].before) \subseteq Registered(loans[k].before)

\* The inductive invariant.
SystemOK ==
  /\ TypeOK /\ TokenTypeOK
  /\ loans \in Seq(Frames) /\ Len(loans) <= MaxLoans
  /\ flashFee \in Nat
  /\ Snapshot \in Snapshots /\ Good(Snapshot)
  /\ \A k \in DOMAIN loans : Good(loans[k].before)
  /\ Nested

-----------------------------------------------------------------------------
(* Snapshots *)

LEMMA SnapshotTyped ==
  TypeOK /\ TokenTypeOK /\ RegistrarTyped => Snapshot \in Snapshots /\ RulesExist(Snapshot)
<1> SUFFICES ASSUME TypeOK, TokenTypeOK, RegistrarTyped
             PROVE  Snapshot \in Snapshots /\ RulesExist(Snapshot)
  OBVIOUS
<1>1. vault \in {v \in [Assets -> Int] : \A i \in Assets : v[i] \in 0 .. Supply[i]}
  BY DEF TypeOK
<1>2. RulesExist(Snapshot)
  BY DEF TypeOK, RulesExist, Snapshot
<1>3. QED
  BY <1>1, <1>2 DEF Snapshot, Snapshots, TypeOK, TokenTypeOK, AllowanceState, RegistrarTyped

LEMMA SnapshotSays ==
  /\ Balanced(Snapshot) <=> LedgerBalanced
  /\ Sound(Snapshot) <=> AllSound
<1>1. Balanced(Snapshot) <=> LedgerBalanced
  BY DEF Balanced, Snapshot, LedgerBalanced, DepositsOf, DebtsOf
<1>2. Sound(Snapshot) <=> AllSound
  BY DEF Sound, Snapshot, AllSound
<1>3. QED
  BY <1>1, <1>2

LEMMA FrameTyped ==
  ASSUME NEW l \in Frames
  PROVE  LoanOK(l)
<1>1. /\ l.caller \in Accounts /\ l.assets \in Seq(Assets)
      /\ l.amounts \in Seq(Nat) /\ l.fees \in Seq(Nat)
      /\ Len(l.amounts) = Len(l.assets) /\ Len(l.fees) = Len(l.assets)
      /\ l.before \in Snapshots
  BY DEF Frames
<1>2. \A k \in DOMAIN l.assets : l.amounts[k] \in Nat /\ l.fees[k] \in Nat
  BY <1>1
<1>3. l.before.vault \in [Assets -> Nat]
  <2>1. /\ l.before.vault \in [Assets -> Int]
        /\ \A i \in Assets : l.before.vault[i] \in 0 .. Supply[i]
    BY <1>1 DEF Snapshots
  <2>2. \A i \in Assets : Supply[i] \in Nat
    BY PoolAssumption, ScaleAssumption DEF U128
  <2>3. QED
    BY <2>1, <2>2
<1>4. QED
  BY <1>1, <1>2, <1>3 DEF LoanOK

LEMMA InvariantSays ==
  ASSUME SystemOK
  PROVE  SystemTypeOK /\ RegistrarTyped
<1>1. RegistrarTyped
  BY DEF SystemOK, Snapshot, Snapshots, RegistrarTyped
<1>2. \A k \in DOMAIN loans : LoanOK(loans[k])
  <2>1. loans \in Seq(Frames)
    BY DEF SystemOK
  <2>2. \A k \in DOMAIN loans : loans[k] \in Frames
    BY <2>1
  <2>3. QED
    BY <2>2, FrameTyped
<1>3. QED
  BY <1>1, <1>2 DEF SystemOK, SystemTypeOK, RegistrarTyped

-----------------------------------------------------------------------------
(* Messages *)

LEMMA RegisterGood ==
  ASSUME RegistrarTyped, Counted(Snapshot), NEW x \in Accounts, Register(x)
  PROVE  /\ RegistrarTyped' /\ Counted(Snapshot)'
         /\ Registered(Snapshot) \subseteq Registered(Snapshot)'
<1> DEFINE S == {y \in Accounts : accountToCounter[y] # None}
           T == {y \in Accounts : accountToCounter'[y] # None}
<1>1. Registered(Snapshot) = S /\ Registered(Snapshot)' = T
  BY DEF Registered, Snapshot
<1>2. nextCounter <= Cardinality(S)
  BY <1>1 DEF Counted, Snapshot
<1>3. CASE accountToCounter[x] # None
  BY <1>1, <1>2, <1>3 DEF Register, registrar, RegistrarTyped, Counted, Snapshot
<1>4. CASE accountToCounter[x] = None
  <2>1. /\ counterToAccount' = [counterToAccount EXCEPT ![nextCounter] = x]
        /\ accountToCounter' = [accountToCounter EXCEPT ![x] = nextCounter]
        /\ nextCounter' = nextCounter + 1
    BY <1>4 DEF Register
  <2>2. nextCounter \in Int /\ nextCounter # None
    BY NoneAssumption DEF RegistrarTyped, Counters
  <2>3. T = S \cup {x} /\ x \notin S
    BY <1>4, <2>1, <2>2 DEF RegistrarTyped
  <2>4. IsFiniteSet(Accounts) /\ IsFiniteSet(S) /\ IsFiniteSet(T)
    BY PoolAssumption, FS_Subset
  <2>5. Cardinality(T) = Cardinality(S) + 1
    BY <2>3, <2>4, FS_AddElement
  <2>6. Cardinality(T) <= Cardinality(Accounts)
    BY <2>4, FS_Subset
  <2>7. Cardinality(S) \in Nat /\ Cardinality(T) \in Nat /\ Cardinality(Accounts) \in Nat
    BY <2>4, FS_CardinalityType
  <2> HIDE DEF S, T
  <2>8. nextCounter' \in Counters /\ nextCounter' <= Cardinality(T)
    BY <1>2, <2>1, <2>2, <2>5, <2>6, <2>7 DEF Counters, RegistrarTyped
  <2>9. RegistrarTyped'
    BY <2>1, <2>8 DEF RegistrarTyped
  <2>10. Counted(Snapshot)'
    BY <1>1, <2>8 DEF Counted, Snapshot
  <2>11. QED
    BY <1>1, <2>3, <2>9, <2>10
<1>5. QED
  BY <1>3, <1>4

\* A client's message changes no rule and no restriction.
LEMMA ClientKeepsSetup ==
  ASSUME ClientNext
  PROVE  UNCHANGED <<now, limits, rules, price>>
BY DEF ClientNext, Operate, MultiOp, Commit, TransferDeposit, TransferDebt, Liquidate,
       SetAsCollateral, ChooseMarketRule, AccumulateInterest, AdjustRateAtTarget, setup

LEMMA MessageIsClients ==
  ASSUME MessageNext
  PROVE  ClientNext \/ UNCHANGED vars
BY DEF MessageNext, TransferNext, CallNext, AllowanceNext, ATokenTransfer, VTokenTransfer,
       Call, MultiCall, Approve, IncreaseAllowance, DecreaseAllowance, SetAllowance,
       SwitchCollateral, ClientNext

-----------------------------------------------------------------------------
(* Allowances *)

\* One allowance takes another value.
Becomes(t, i, p, n) == allowed' = [allowed EXCEPT ![t][i][p] = n]

LEMMA AllowanceSet ==
  ASSUME allowed \in AllowanceState, NEW t \in Tokens, NEW i \in Assets,
         NEW p \in Accounts \X Accounts, NEW n \in Nat,
         Becomes(t, i, p, n)
  PROVE  /\ allowed' \in AllowanceState
         /\ allowed'[t][i][p] = n
         /\ \A u \in Tokens, j \in Assets, q \in Accounts \X Accounts :
              u # t \/ j # i \/ q # p => allowed'[u][j][q] = allowed[u][j][q]
<1>1. allowed[t] \in [Assets -> [Accounts \X Accounts -> Nat]]
      /\ allowed[t][i] \in [Accounts \X Accounts -> Nat]
  BY DEF AllowanceState
<1> DEFINE f == [allowed[t][i] EXCEPT ![p] = n]
           g == [allowed[t] EXCEPT ![i] = f]
<1>2. f \in [Accounts \X Accounts -> Nat] /\ f[p] = n
      /\ \A q \in Accounts \X Accounts : q # p => f[q] = allowed[t][i][q]
  BY <1>1
<1>3. allowed' = [allowed EXCEPT ![t] = g]
  BY DEF Becomes
<1> HIDE DEF f
<1>4. g \in [Assets -> [Accounts \X Accounts -> Nat]] /\ g[i] = f
      /\ \A j \in Assets : j # i => g[j] = allowed[t][j]
  BY <1>1, <1>2
<1> HIDE DEF g
<1>5. allowed' \in AllowanceState /\ allowed'[t] = g
      /\ \A u \in Tokens : u # t => allowed'[u] = allowed[u]
  BY <1>3, <1>4 DEF AllowanceState
<1>6. ASSUME NEW u \in Tokens, NEW j \in Assets, NEW q \in Accounts \X Accounts,
             u # t \/ j # i \/ q # p
      PROVE  allowed'[u][j][q] = allowed[u][j][q]
  <2>1. CASE u # t
    BY <1>5, <2>1
  <2>2. CASE u = t /\ j # i
    BY <1>4, <1>5, <2>2
  <2>3. CASE u = t /\ j = i /\ q # p
    BY <1>2, <1>4, <1>5, <2>3
  <2>4. QED
    BY <1>6, <2>1, <2>2, <2>3
<1>7. QED
  BY <1>2, <1>4, <1>5, <1>6

\* Using n of an allowance.
LEMMA SpendGood ==
  ASSUME allowed \in AllowanceState, NEW t \in Tokens, NEW i \in Assets, NEW o \in Accounts,
         NEW c \in Accounts, NEW n \in Nat, Spend(t, i, o, c, n)
  PROVE  /\ allowed' \in AllowanceState
         /\ allowed'[t][i][<<o, c>>] = allowed[t][i][<<o, c>>] - n
         /\ \A u \in Tokens, j \in Assets, q \in Accounts \X Accounts :
              u # t \/ j # i \/ q # <<o, c>> => allowed'[u][j][q] = allowed[u][j][q]
<1> DEFINE p == <<o, c>>
           m == allowed[t][i][p] - n
<1>1. p \in Accounts \X Accounts
  OBVIOUS
<1>2. allowed[t][i][p] \in Nat
  BY DEF AllowanceState
<1>3. m \in Nat
  BY <1>2 DEF Spend
<1>4. Becomes(t, i, p, m)
  BY DEF Spend, Becomes
<1> HIDE DEF m, p
<1>5. /\ allowed' \in AllowanceState /\ allowed'[t][i][p] = m
      /\ \A u \in Tokens, j \in Assets, q \in Accounts \X Accounts :
           u # t \/ j # i \/ q # p => allowed'[u][j][q] = allowed[u][j][q]
  BY <1>1, <1>3, <1>4, AllowanceSet
<1>6. QED
  BY <1>5 DEF m, p

LEMMA OpenTyped ==
  ASSUME TypeOK, NEW a \in Accounts, NEW s, SessionOK(s, a), NEW i \in Assets
  PROVE  Open(s.reserve[i], s.data[i], s.config) \in Ctxs
BY OpenGood DEF SessionOK, TypeOK, Ctxs

LEMMA FinalAmountNatural ==
  ASSUME TypeOK, NEW a \in Accounts, NEW s, SessionOK(s, a), NEW act \in ActionState
  PROVE  FinalAmount(s, a, act) \in Nat
<1> DEFINE x == Open(s.reserve[act.asset], s.data[act.asset], s.config)
<1>1. act.asset \in Assets /\ act.amount \in Nat
  BY DEF ActionState
<1>2. x \in Ctxs
  BY <1>1, OpenTyped
<1>3. FinalAmount(s, a, act) \in {WithdrawnAmount(x, act.amount, TRUE, FeeReduction[a]),
                                  RepaidAmount(x, act.amount, TRUE, FeeReduction[a]), act.amount}
  BY DEF FinalAmount
<1> HIDE DEF x
<1>4. \A clamp : /\ WithdrawnAmount(x, act.amount, clamp, FeeReduction[a]) \in Nat
                 /\ RepaidAmount(x, act.amount, clamp, FeeReduction[a]) \in Nat
  BY <1>1, <1>2, AmountsAreNatural
<1>5. /\ WithdrawnAmount(x, act.amount, TRUE, FeeReduction[a]) \in Nat
      /\ RepaidAmount(x, act.amount, TRUE, FeeReduction[a]) \in Nat
  BY <1>4, Zenon
<1>6. QED
  BY <1>1, <1>3, <1>5

\* The lists of operations that messages have.
Lists == {<<act>> : act \in ActionState} \cup (ActionState \X ActionState)

LEMMA FinalAmountsNatural ==
  ASSUME TypeOK, NEW a \in Accounts, NEW acts \in Lists
  PROVE  /\ FinalAmounts(a, acts) \in [DOMAIN acts -> Nat]
         /\ 1 \in DOMAIN acts /\ IsFiniteSet(DOMAIN acts)
<1>1. SessionOK(Session(a), a)
  BY SessionGood
<1>2. acts[1] \in ActionState /\ 1 \in DOMAIN acts
  BY DEF Lists
<1>3. SessionOK(Step(Session(a), a, acts[1]), a)
  BY <1>1, <1>2, StepGood
<1>4. \A k \in DOMAIN acts : acts[k] \in ActionState
  BY DEF Lists
<1>5. ASSUME NEW k \in DOMAIN acts
      PROVE  FinalAmounts(a, acts)[k] \in Nat
  <2> DEFINE s == IF k = 1 THEN Session(a) ELSE Step(Session(a), a, acts[1])
  <2>1. SessionOK(s, a)
    BY <1>1, <1>3
  <2>2. FinalAmounts(a, acts)[k] = FinalAmount(s, a, acts[k])
    BY DEF FinalAmounts
  <2> HIDE DEF s
  <2>3. QED
    BY <1>4, <2>1, <2>2, FinalAmountNatural
<1>6. IsFiniteSet(DOMAIN acts)
  <2>1. DOMAIN acts = 1 .. 1 \/ DOMAIN acts = 1 .. 2
    BY DEF Lists
  <2>2. \A n \in Nat : IsFiniteSet(1 .. n)
    BY FS_Interval
  <2>3. QED
    BY <2>1, <2>2
<1>7. QED
  BY <1>2, <1>5, <1>6 DEF FinalAmounts

LEMMA UsedNatural ==
  ASSUME NEW acts \in Lists, NEW ns \in [DOMAIN acts -> Nat], 1 \in DOMAIN acts,
         IsFiniteSet(DOMAIN acts), NEW t, NEW i
  PROVE  Used(t, i, acts, ns) \in Nat
<1> DEFINE S == {j \in DOMAIN acts : acts[j].op = Needs(t) /\ acts[j].asset = i}
           f == [k \in S |-> UsedAmount(t, ns, k)]
<1>1. IsFiniteSet(S)
  BY FS_Subset
<1>2. f \in [S -> Nat]
  BY DEF UsedAmount
<1>3. Used(t, i, acts, ns) = Total(f)
  BY DEF Used
<1> HIDE DEF S, f
<1>4. QED
  BY <1>1, <1>2, <1>3, TotalIsNumber

\* Messages on behalf of others: only allowances of the caller are used.
LEMMA SpendForGood ==
  ASSUME TypeOK, allowed \in AllowanceState, NEW c \in Accounts, NEW a \in Accounts,
         NEW acts \in Lists, SpendFor(c, a, acts)
  PROVE  /\ allowed' \in AllowanceState
         /\ c # a => \A t \in Tokens, i \in Assets :
              /\ Used(t, i, acts, FinalAmounts(a, acts)) \in Nat
              /\ allowed'[t][i][<<a, c>>]
                   = allowed[t][i][<<a, c>>] - Used(t, i, acts, FinalAmounts(a, acts))
<1>1. CASE c = a
  BY <1>1 DEF SpendFor
<1>2. CASE c # a
  <2> DEFINE ns == FinalAmounts(a, acts)
             p == <<a, c>>
  <2>1. /\ \A t \in Tokens, i \in Assets : allowed[t][i][p] >= Used(t, i, acts, ns)
        /\ allowed' = [t \in Tokens |-> [i \in Assets |->
                         [allowed[t][i] EXCEPT ![p] = @ - Used(t, i, acts, ns)]]]
    BY <1>2 DEF SpendFor
  <2>2. ns \in [DOMAIN acts -> Nat] /\ 1 \in DOMAIN acts /\ IsFiniteSet(DOMAIN acts)
    BY FinalAmountsNatural
  <2>3. p \in Accounts \X Accounts
    OBVIOUS
  <2> HIDE DEF ns, p
  <2>4. ASSUME NEW t \in Tokens, NEW i \in Assets
        PROVE  /\ Used(t, i, acts, ns) \in Nat
               /\ allowed'[t][i] \in [Accounts \X Accounts -> Nat]
               /\ allowed'[t][i][p] = allowed[t][i][p] - Used(t, i, acts, ns)
    <3>1. Used(t, i, acts, ns) \in Nat
      BY <2>2, UsedNatural
    <3>2. allowed[t][i] \in [Accounts \X Accounts -> Nat]
      BY DEF AllowanceState
    <3>3. allowed'[t][i] = [allowed[t][i] EXCEPT ![p] = allowed[t][i][p] - Used(t, i, acts, ns)]
      BY <2>1
    <3>4. allowed[t][i][p] - Used(t, i, acts, ns) \in Nat
      BY <2>1, <2>3, <3>1, <3>2
    <3>5. QED
      BY <2>3, <3>1, <3>2, <3>3, <3>4
  <2>5. allowed' \in AllowanceState
    <3>1. allowed' = [t \in Tokens |-> [i \in Assets |-> allowed'[t][i]]]
      BY <2>1
    <3>2. QED
      BY <2>4, <3>1 DEF AllowanceState
  <2>6. QED
    BY <2>4, <2>5 DEF ns, p
<1>3. QED
  BY <1>1, <1>2

\* The types of allowances after any message.
LEMMA AllowancesTyped ==
  ASSUME TypeOK, TokenTypeOK, MessageNext
  PROVE  TokenTypeOK'
<1>1. allowed \in AllowanceState
  BY DEF TokenTypeOK, AllowanceState
<1>2. ASSUME NEW c \in Accounts, NEW q \in DepositTransfers,
             ATokenTransfer(c, q[1], q[2], q[3], q[4])
      PROVE  allowed' \in AllowanceState /\ sender' \in Accounts
  <2>1. q[1] \in Accounts /\ q[3] \in Assets /\ q[4] \in Nat /\ "aToken" \in Tokens
    BY RequestAssumption DEF Tokens
  <2>2. CASE UNCHANGED allowed
    BY <1>1, <1>2, <2>2 DEF ATokenTransfer
  <2>3. CASE Spend("aToken", q[3], q[1], c, q[4])
    BY <1>1, <1>2, <2>1, <2>3, SpendGood DEF ATokenTransfer
  <2>4. QED
    BY <1>2, <2>2, <2>3 DEF ATokenTransfer
<1>3. ASSUME NEW c \in Accounts, NEW q \in DebtTransfers,
             VTokenTransfer(c, q[1], q[2], q[3], q[4])
      PROVE  allowed' \in AllowanceState /\ sender' \in Accounts
  <2>1. /\ q[1] \in Accounts /\ q[2] \in Accounts /\ q[3] \in Assets /\ q[4] \in Nat
        /\ "vToken" \in Tokens
    BY RequestAssumption DEF Tokens
  <2>2. CASE Spend("vToken", q[3], q[2], q[1], q[4])
    BY <1>1, <1>3, <2>1, <2>2, SpendGood DEF VTokenTransfer
  <2>3. CASE Spend("vToken", q[3], q[2], c, q[4])
    BY <1>1, <1>3, <2>1, <2>3, SpendGood DEF VTokenTransfer
  <2>4. QED
    BY <1>3, <2>2, <2>3 DEF VTokenTransfer
<1>4. ASSUME NEW pq \in OnBehalf, NEW q \in Requests, pq[2] = q[1], Call(pq[1], q[1], q[2])
      PROVE  allowed' \in AllowanceState /\ sender' \in Accounts
  <2>1. pq[1] \in Accounts /\ q[1] \in Accounts /\ q[2] \in ActionState
    BY RequestAssumption, TokensAssumption
  <2>2. <<q[2]>> \in Lists
    BY <2>1 DEF Lists
  <2>3. SpendFor(pq[1], q[1], <<q[2]>>) /\ sender' = pq[1]
    BY <1>4 DEF Call
  <2>4. QED
    BY <1>1, <2>1, <2>2, <2>3, SpendForGood
<1>5. ASSUME NEW pq \in OnBehalf, NEW q \in MultiRequests, pq[2] = q[1],
             MultiCall(pq[1], q[1], q[2])
      PROVE  allowed' \in AllowanceState /\ sender' \in Accounts
  <2>1. pq[1] \in Accounts /\ q[1] \in Accounts /\ q[2] \in ActionState \X ActionState
    BY RequestAssumption, TokensAssumption
  <2>2. q[2] \in Lists
    BY <2>1 DEF Lists
  <2>3. SpendFor(pq[1], q[1], q[2]) /\ sender' = pq[1]
    BY <1>5 DEF MultiCall
  <2>4. QED
    BY <1>1, <2>1, <2>2, <2>3, SpendForGood
<1>6. ASSUME NEW q \in Liquidations, sender' = q[1], UNCHANGED allowed
      PROVE  allowed' \in AllowanceState /\ sender' \in Accounts
  BY <1>1, <1>6, RequestAssumption
<1>7. ASSUME NEW q \in Approvals, NEW n \in Nat, SetAllowance(q[1], q[2], q[3], q[4], n)
      PROVE  allowed' \in AllowanceState /\ sender' \in Accounts
  <2>1. q[1] \in Tokens /\ q[2] \in Assets /\ q[3] \in Accounts /\ q[4] \in Accounts
    BY TokensAssumption
  <2>2. <<q[3], q[4]>> \in Accounts \X Accounts
    BY <2>1
  <2>3. Becomes(q[1], q[2], <<q[3], q[4]>>, n) /\ sender' = q[3]
    BY <1>7 DEF SetAllowance, Becomes
  <2>4. QED
    BY <1>1, <2>1, <2>2, <2>3, AllowanceSet
<1>8. CASE AllowanceNext
  <2>1. PICK q \in Approvals : \/ Approve(q[1], q[2], q[3], q[4], q[5])
                               \/ IncreaseAllowance(q[1], q[2], q[3], q[4], q[5])
                               \/ DecreaseAllowance(q[1], q[2], q[3], q[4], q[5])
    BY <1>8 DEF AllowanceNext
  <2>2. q[1] \in Tokens /\ q[2] \in Assets /\ <<q[3], q[4]>> \in Accounts \X Accounts /\ q[5] \in Nat
    BY TokensAssumption
  <2> DEFINE old == allowed[q[1]][q[2]][<<q[3], q[4]>>]
  <2>3. old \in Nat
    BY <1>1, <2>2 DEF AllowanceState
  <2>4. /\ Approve(q[1], q[2], q[3], q[4], q[5]) => SetAllowance(q[1], q[2], q[3], q[4], q[5])
        /\ IncreaseAllowance(q[1], q[2], q[3], q[4], q[5])
             => SetAllowance(q[1], q[2], q[3], q[4], old + q[5])
        /\ DecreaseAllowance(q[1], q[2], q[3], q[4], q[5])
             => old >= q[5] /\ SetAllowance(q[1], q[2], q[3], q[4], old - q[5])
    BY DEF Approve, IncreaseAllowance, DecreaseAllowance
  <2> HIDE DEF old
  <2>5. old + q[5] \in Nat /\ (old >= q[5] => old - q[5] \in Nat)
    BY <2>2, <2>3
  <2>6. QED
    BY <1>7, <2>1, <2>2, <2>4, <2>5 DEF TokenTypeOK, AllowanceState
<1>9. ASSUME UNCHANGED allowed, sender' \in Accounts
      PROVE  allowed' \in AllowanceState /\ sender' \in Accounts
  BY <1>1, <1>9
<1>10. CASE TransferNext
  BY <1>2, <1>3, <1>10 DEF TransferNext, TokenTypeOK, AllowanceState
<1>11. CASE CallNext
  <2>1. CASE \E pq \in OnBehalf, q \in Requests : pq[2] = q[1] /\ Call(pq[1], q[1], q[2])
    BY <1>4, <2>1 DEF TokenTypeOK, AllowanceState
  <2>2. CASE \E pq \in OnBehalf, q \in MultiRequests : pq[2] = q[1] /\ MultiCall(pq[1], q[1], q[2])
    BY <1>5, <2>2 DEF TokenTypeOK, AllowanceState
  <2>3. CASE \E q \in Liquidations : sender' = q[1] /\ UNCHANGED allowed
    BY <1>6, <2>3 DEF TokenTypeOK, AllowanceState
  <2>4. QED
    BY <1>11, <2>1, <2>2, <2>3 DEF CallNext
<1>12. CASE \E q \in RuleChoices : sender' = q[1] /\ UNCHANGED allowed
  BY <1>9, <1>12, RequestAssumption DEF TokenTypeOK, AllowanceState
<1>13. CASE \E q \in CollateralSwitches : SwitchCollateral(q[1], q[2], q[3])
  BY <1>9, <1>13, RequestAssumption DEF SwitchCollateral, TokenTypeOK, AllowanceState
<1>14. CASE sender' \in Accounts /\ UNCHANGED allowed
  BY <1>9, <1>14 DEF TokenTypeOK, AllowanceState
<1>15. QED
  BY <1>8, <1>10, <1>11, <1>12, <1>13, <1>14 DEF MessageNext

-----------------------------------------------------------------------------
(* The inductive invariant *)

LEMMA RegisteredFinite ==
  ASSUME NEW s, NEW t, Registered(s) \subseteq Registered(t)
  PROVE  /\ Cardinality(Registered(s)) \in Nat /\ Cardinality(Registered(t)) \in Nat
         /\ Cardinality(Registered(s)) <= Cardinality(Registered(t))
<1>1. IsFiniteSet(Registered(s)) /\ IsFiniteSet(Registered(t))
  BY PoolAssumption, FS_Subset DEF Registered
<1>2. QED
  BY <1>1, FS_Subset, FS_CardinalityType

\* What is left to show of a step that leaves the frames alone.
LEMMA FramesKept ==
  ASSUME SystemOK, TypeOK', TokenTypeOK', RegistrarTyped', Counted(Snapshot)',
         Registered(Snapshot) \subseteq Registered(Snapshot)',
         UNCHANGED loans, flashFee' \in Nat, rules' = rules \/ loans = <<>>
  PROVE  SystemOK'
<1>1. Snapshot' \in Snapshots /\ RulesExist(Snapshot)'
  <2>1. (TypeOK /\ TokenTypeOK /\ RegistrarTyped)' =>
          (Snapshot \in Snapshots /\ RulesExist(Snapshot))'
    BY SnapshotTyped, PTL
  <2>2. QED
    BY <2>1
<1>2. \A k \in DOMAIN loans : Good(loans[k].before)'
  <2>1. CASE rules' = rules
    BY <2>1 DEF SystemOK, Good, RulesExist, Counted, Registered
  <2>2. CASE loans = <<>>
    BY <2>2
  <2>3. QED
    BY <2>1, <2>2
<1>3. Nested'
  BY DEF SystemOK, Nested, Registered
<1>4. Good(Snapshot)'
  BY <1>1 DEF Good
<1>5. QED
  BY <1>1, <1>2, <1>3, <1>4 DEF SystemOK

LEMMA MessageGood ==
  ASSUME SystemOK, MessageNext
  PROVE  SystemOK'
<1>1. TypeOK /\ TokenTypeOK /\ RegistrarTyped /\ Counted(Snapshot) /\ flashFee \in Nat
  BY InvariantSays DEF SystemOK, Good
<1>2. TypeOK'
  BY <1>1, MessageIsClients, NextGood DEF Next
<1>3. TokenTypeOK'
  BY <1>1, AllowancesTyped
<1>4. UNCHANGED loanVars
  BY DEF MessageNext, SwitchCollateral
<1>5. \/ UNCHANGED registrar
      \/ \E x \in Accounts : Register(x)
  BY RequestAssumption DEF MessageNext, SwitchCollateral
<1>6. /\ RegistrarTyped' /\ Counted(Snapshot)'
      /\ Registered(Snapshot) \subseteq Registered(Snapshot)'
  <2>1. CASE UNCHANGED registrar
    BY <1>1, <2>1 DEF registrar, RegistrarTyped, Counted, Registered, Snapshot
  <2>2. CASE \E x \in Accounts : Register(x)
    BY <1>1, <2>2, RegisterGood
  <2>3. QED
    BY <1>5, <2>1, <2>2
<1>7. rules' = rules
  BY MessageIsClients, ClientKeepsSetup DEF vars, setup
<1>8. QED
  BY <1>1, <1>2, <1>3, <1>4, <1>6, <1>7, FramesKept DEF loanVars

\* The frames left when the innermost loan is over.
LEMMA Popped ==
  ASSUME SystemOK, loans # <<>>
  PROVE  /\ Innermost \in Frames /\ Good(Innermost.before)
         /\ Registered(Innermost.before) \subseteq Registered(Snapshot)
         /\ Outer \in Seq(Frames) /\ Len(Outer) <= MaxLoans
         /\ \A k \in DOMAIN Outer :
              /\ k \in DOMAIN loans /\ Outer[k] = loans[k]
              /\ Registered(loans[k].before) \subseteq Registered(Innermost.before)
<1>1. loans \in Seq(Frames) /\ Len(loans) \in Nat \ {0} /\ Len(loans) \in DOMAIN loans
  BY DEF SystemOK
<1>2. DOMAIN loans = 1 .. Len(loans)
  BY <1>1
<1>3. Innermost = loans[Len(loans)]
  BY DEF Innermost
<1>4. Innermost \in Frames
  BY <1>1, <1>3
<1>5. /\ Outer \in Seq(Frames) /\ Len(Outer) = Len(loans) - 1
      /\ DOMAIN Outer = 1 .. Len(loans) - 1
      /\ \A k \in 1 .. Len(loans) - 1 : Outer[k] = loans[k]
  <2> DEFINE n == Len(loans) - 1
  <2>1. n \in 0 .. Len(loans) /\ 1 \in Int /\ n \in Int
    BY <1>1
  <2>2. /\ SubSeq(loans, 1, n) \in Seq(Frames)
        /\ Len(SubSeq(loans, 1, n)) = IF 1 <= n THEN n - 1 + 1 ELSE 0
        /\ \A k \in 1 .. n - 1 + 1 : SubSeq(loans, 1, n)[k] = loans[1 + k - 1]
    BY <1>1, <2>1, SubSeqProperties
  <2>0. n \in Nat
    <3>1. \A m \in Nat \ {0} : m - 1 \in Nat
      OBVIOUS
    <3>2. QED
      BY <1>1, <3>1
  <2> HIDE DEF n
  <2>3. n - 1 + 1 = n /\ (1 <= n \/ n = 0)
    BY <2>0
  <2>4. /\ Len(SubSeq(loans, 1, n)) = n
        /\ \A k \in 1 .. n : SubSeq(loans, 1, n)[k] = loans[k]
    BY <2>2, <2>3
  <2>5. DOMAIN SubSeq(loans, 1, n) = 1 .. n
    BY <2>2, <2>4
  <2>6. QED
    BY <2>2, <2>4, <2>5 DEF Outer, n
<1>6. Len(loans) <= MaxLoans /\ MaxLoans \in Nat
  BY LoanAssumption DEF SystemOK
<1>7. \A k \in DOMAIN Outer : k \in DOMAIN loans /\ k <= Len(loans)
  BY <1>1, <1>2, <1>5
<1>8. /\ Good(Innermost.before)
      /\ Registered(Innermost.before) \subseteq Registered(Snapshot)
      /\ \A k \in DOMAIN Outer :
           Registered(loans[k].before) \subseteq Registered(Innermost.before)
  BY <1>1, <1>3, <1>7 DEF SystemOK, Nested
<1>9. Len(Outer) <= MaxLoans
  BY <1>1, <1>5, <1>6
<1>10. QED
  BY <1>4, <1>5, <1>7, <1>8, <1>9

\* Fees are natural numbers.
LEMMA LoanFeeNatural ==
  ASSUME flashFee \in Nat, NEW n \in Nat, NEW c \in Accounts
  PROVE  LoanFee(n, c) \in Nat
<1>1. \A a, b \in Nat : MulDivUp(a, b, E6) \in Nat
  <2>1. E6 \in Nat \ {0}
    BY ScaleAssumption
  <2>2. \A p \in Nat, e \in Nat \ {0} : p \div e \in Nat
    BY Z3
  <2>3. \A a, b \in Nat : a * b \in Nat
    BY Z3
  <2>4. ASSUME NEW a \in Nat, NEW b \in Nat PROVE MulDivUp(a, b, E6) \in Nat
    <3>1. (a * b) \div E6 \in Nat
      BY <2>1, <2>2, <2>3
    <3> DEFINE q == (a * b) \div E6
               u == IF (a * b) % E6 = 0 THEN 0 ELSE 1
    <3>2. q \in Nat /\ u \in {0, 1}
      BY <3>1
    <3>3. MulDivUp(a, b, E6) = q + u
      BY <2>1 DEF MulDivUp
    <3> HIDE DEF q, u
    <3>4. QED
      BY <3>2, <3>3
  <2>5. QED
    BY <2>4
<1>2. Monus(E6, FlashReduction[c]) \in Nat
  BY ScaleAssumption, LoanAssumption DEF Monus
<1>3. MulDivUp(n, flashFee, E6) \in Nat
  BY <1>1
<1>4. QED
  BY <1>1, <1>2, <1>3 DEF LoanFee

\* Opening a loan puts a good snapshot on the stack.
LEMMA OpenLoanGood ==
  ASSUME SystemOK, NEW q \in LoanRequests, OpenLoan(q[1], q[2], q[3])
  PROVE  SystemOK'
<1> DEFINE fees == [k \in DOMAIN q[3] |-> LoanFee(q[3][k], q[1])]
           l == [caller |-> q[1], assets |-> q[2], amounts |-> q[3], fees |-> fees,
                 before |-> Snapshot]
<1>1. q[1] \in Accounts /\ q[2] \in Seq(Assets) /\ q[3] \in Seq(Nat)
  BY LoanAssumption
<1>2. /\ Len(loans) < MaxLoans /\ Len(q[2]) = Len(q[3])
      /\ \A i \in Assets : Possible(i, vault'[i]) /\ DOMAIN vault' = Assets
      /\ vault' = [i \in Assets |-> vault'[i]]
      /\ loans' = Append(loans, l) /\ sender' = q[1]
      /\ UNCHANGED <<now, reserve, data, config, setup, price, allowed, flashFee, registrar>>
  BY DEF OpenLoan
<1>3. TypeOK'
  <2>1. \A i \in Assets : Supply[i] \in Nat
    BY PoolAssumption, ScaleAssumption DEF U128
  <2>2. \A i \in Assets : vault'[i] \in 0 .. Supply[i] /\ vault'[i] \in Int
    BY <1>2, <2>1 DEF Possible
  <2>3. vault' \in [Assets -> Int]
    BY <1>2, <2>2
  <2>4. QED
    BY <1>2, <2>2, <2>3 DEF SystemOK, TypeOK, setup
<1>4. TokenTypeOK' /\ RegistrarTyped' /\ flashFee' \in Nat
  BY <1>1, <1>2, InvariantSays DEF SystemOK, TokenTypeOK, RegistrarTyped, registrar
<1>5. fees \in Seq(Nat) /\ Len(fees) = Len(q[3])
  <2>1. \A n \in Nat : LoanFee(n, q[1]) \in Nat
    BY <1>1, LoanFeeNatural DEF SystemOK
  <2>2. DOMAIN q[3] = 1 .. Len(q[3]) /\ Len(q[3]) \in Nat /\ \A k \in DOMAIN q[3] : q[3][k] \in Nat
    BY <1>1
  <2>3. fees \in [1 .. Len(q[3]) -> Nat]
    BY <2>1, <2>2
  <2> HIDE DEF fees
  <2>4. QED
    BY <2>2, <2>3
<1>6. Snapshot \in Snapshots /\ Good(Snapshot)
  BY DEF SystemOK
<1> HIDE DEF fees
<1>7. l \in Frames /\ l.before = Snapshot
  BY <1>1, <1>2, <1>5, <1>6 DEF Frames
<1> HIDE DEF l
<1>8. loans \in Seq(Frames) /\ Len(loans) \in Nat /\ DOMAIN loans = 1 .. Len(loans)
  BY DEF SystemOK
<1>9. /\ loans' \in Seq(Frames) /\ Len(loans') = Len(loans) + 1
      /\ DOMAIN loans' = 1 .. Len(loans) + 1
      /\ loans'[Len(loans) + 1] = l
      /\ \A k \in 1 .. Len(loans) : loans'[k] = loans[k]
  BY <1>2, <1>7, <1>8
<1>10. Len(loans') <= MaxLoans
  BY <1>2, <1>8, <1>9, LoanAssumption
<1>11. /\ Registered(Snapshot)' = Registered(Snapshot)
       /\ Counted(Snapshot)' <=> Counted(Snapshot)
       /\ RulesExist(Snapshot)' <=> RulesExist(Snapshot)
       /\ \A k \in DOMAIN loans' :
            (Good(loans[k].before)' <=> RulesExist(loans'[k].before) /\ Counted(loans'[k].before))
  BY <1>2 DEF Registered, Counted, RulesExist, Snapshot, registrar, setup, Good
<1>12. \A k \in DOMAIN loans' : k \in DOMAIN loans \/ loans'[k] = l
  BY <1>8, <1>9
<1>13. \A k \in DOMAIN loans' : Good(loans[k].before)'
  <2>1. ASSUME NEW k \in DOMAIN loans' PROVE Good(loans'[k].before)
    BY <1>6, <1>7, <1>8, <1>9, <1>12, <2>1 DEF SystemOK
  <2>2. QED
    BY <1>11, <2>1 DEF Good
<1>14. Nested'
  <2>1. ASSUME NEW k \in DOMAIN loans'
        PROVE  Registered(loans'[k].before) \subseteq Registered(Snapshot)
    BY <1>7, <1>8, <1>9, <1>12 DEF SystemOK, Nested
  <2>2. ASSUME NEW j \in DOMAIN loans', NEW k \in DOMAIN loans', j <= k
        PROVE  Registered(loans'[j].before) \subseteq Registered(loans'[k].before)
    <3>1. CASE k \in DOMAIN loans
      <4>1. j \in DOMAIN loans
        BY <1>8, <1>9, <2>2, <3>1
      <4>2. loans'[j] = loans[j] /\ loans'[k] = loans[k]
        BY <1>8, <1>9, <3>1, <4>1
      <4>3. QED
        BY <2>2, <3>1, <4>1, <4>2 DEF SystemOK, Nested
    <3>2. CASE loans'[k] = l
      BY <1>7, <2>1, <3>2
    <3>3. QED
      BY <1>12, <3>1, <3>2
  <2>3. \A s : Registered(s)' = Registered(s)
    BY DEF Registered
  <2>4. QED
    BY <1>11, <2>1, <2>2 DEF Nested, Registered
<1>15. Snapshot' \in Snapshots /\ RulesExist(Snapshot)'
  <2>1. (TypeOK /\ TokenTypeOK /\ RegistrarTyped)' =>
          (Snapshot \in Snapshots /\ RulesExist(Snapshot))'
    BY SnapshotTyped, PTL
  <2>2. QED
    BY <1>3, <1>4, <2>1
<1>16. QED
  BY <1>3, <1>4, <1>6, <1>9, <1>10, <1>11, <1>13, <1>14, <1>15 DEF SystemOK, Good
\* A loan that is paid back leaves what its receiver has made of the pool.
LEMMA FinishLoanGood ==
  ASSUME SystemOK, FinishLoan
  PROVE  SystemOK'
<1>1. /\ loans # <<>> /\ loans' = Outer
      /\ \A i \in Assets : Possible(i, vault'[i])
      /\ vault' = [i \in Assets |-> vault'[i]]
      /\ nextCounter' = Innermost.before.nextCounter /\ sender' = Innermost.caller
      /\ UNCHANGED <<now, reserve, data, config, setup, price, allowed, flashFee,
                     accountToCounter, counterToAccount>>
  BY DEF FinishLoan
<1>2. /\ Innermost \in Frames /\ Good(Innermost.before)
      /\ Registered(Innermost.before) \subseteq Registered(Snapshot)
      /\ Outer \in Seq(Frames) /\ Len(Outer) <= MaxLoans
      /\ \A k \in DOMAIN Outer :
           /\ k \in DOMAIN loans /\ Outer[k] = loans[k]
           /\ Registered(loans[k].before) \subseteq Registered(Innermost.before)
  BY <1>1, Popped
<1>3. Innermost.caller \in Accounts /\ Innermost.before \in Snapshots
  BY <1>2 DEF Frames
<1>4. TypeOK'
  <2>1. \A i \in Assets : Supply[i] \in Nat
    BY PoolAssumption, ScaleAssumption DEF U128
  <2>2. \A i \in Assets : vault'[i] \in 0 .. Supply[i] /\ vault'[i] \in Int
    BY <1>1, <2>1 DEF Possible
  <2>3. vault' \in [Assets -> Int]
    BY <1>1, <2>2
  <2>4. QED
    BY <1>1, <2>2, <2>3 DEF SystemOK, TypeOK, setup
<1>5. RegistrarTyped /\ flashFee \in Nat
  BY InvariantSays DEF SystemOK
<1>6. nextCounter' \in Counters
  BY <1>1, <1>3 DEF Snapshots
<1>7. TokenTypeOK' /\ RegistrarTyped' /\ flashFee' \in Nat
  BY <1>1, <1>3, <1>5, <1>6 DEF SystemOK, TokenTypeOK, RegistrarTyped
<1>8. Registered(Snapshot)' = Registered(Snapshot)
  BY <1>1 DEF Registered, Snapshot
<1>9. Counted(Snapshot)'
  <2> DEFINE n == Cardinality(Registered(Innermost.before))
             m == Cardinality(Registered(Snapshot))
  <2>1. n \in Nat /\ m \in Nat /\ n <= m
    BY <1>2, RegisteredFinite
  <2>2. nextCounter' <= n
    BY <1>1, <1>2 DEF Good, Counted
  <2>3. Counted(Snapshot)' <=> nextCounter' <= m
    BY <1>8 DEF Counted, Snapshot
  <2> HIDE DEF n, m
  <2>4. nextCounter' \in Int
    BY <1>6 DEF Counters
  <2>5. QED
    BY <2>1, <2>2, <2>3, <2>4
<1>10. Snapshot' \in Snapshots /\ RulesExist(Snapshot)'
  <2>1. (TypeOK /\ TokenTypeOK /\ RegistrarTyped)' =>
          (Snapshot \in Snapshots /\ RulesExist(Snapshot))'
    BY SnapshotTyped, PTL
  <2>2. QED
    BY <1>4, <1>7, <2>1
<1>11. \A k \in DOMAIN loans' : Good(loans[k].before)'
  <2>1. \A k \in DOMAIN loans' : Good(loans'[k].before)
    BY <1>1, <1>2 DEF SystemOK
  <2>2. \A k \in DOMAIN loans' : Good(loans[k].before)' <=> Good(loans'[k].before)
    BY <1>1 DEF Good, RulesExist, Counted, Registered, setup
  <2>3. QED
    BY <2>1, <2>2
<1>12. Nested'
  <2>1. \A k \in DOMAIN loans' : Registered(loans'[k].before) \subseteq Registered(Snapshot)
    BY <1>1, <1>2
  <2>2. \A j, k \in DOMAIN loans' : j <= k =>
          Registered(loans'[j].before) \subseteq Registered(loans'[k].before)
    BY <1>1, <1>2 DEF SystemOK, Nested
  <2>3. QED
    BY <1>8, <2>1, <2>2 DEF Nested, Registered
<1>13. Good(Snapshot)'
  BY <1>9, <1>10 DEF Good
<1>14. QED
  BY <1>1, <1>2, <1>4, <1>7, <1>10, <1>11, <1>12, <1>13 DEF SystemOK

\* A loan that fails leads back to the state it started in.
LEMMA AbortLoanGood ==
  ASSUME SystemOK, AbortLoan
  PROVE  SystemOK'
<1> DEFINE s == Innermost.before
<1>1. /\ loans # <<>> /\ loans' = Outer
      /\ reserve' = s.reserve /\ data' = s.data /\ config' = s.config
      /\ vault' = s.vault /\ model' = s.model /\ allowed' = s.allowed
      /\ nextCounter' = s.nextCounter
      /\ accountToCounter' = s.accountToCounter
      /\ counterToAccount' = s.counterToAccount
      /\ sender' = None
      /\ UNCHANGED <<now, limits, rules, price, flashFee>>
  BY DEF AbortLoan
<1>2. /\ Innermost \in Frames /\ Good(Innermost.before)
      /\ Registered(Innermost.before) \subseteq Registered(Snapshot)
      /\ Outer \in Seq(Frames) /\ Len(Outer) <= MaxLoans
      /\ \A k \in DOMAIN Outer :
           /\ k \in DOMAIN loans /\ Outer[k] = loans[k]
           /\ Registered(loans[k].before) \subseteq Registered(Innermost.before)
  BY <1>1, Popped
<1>3. s \in Snapshots /\ Good(s)
  BY <1>2 DEF Frames
<1> HIDE DEF s
<1>4. /\ reserve' \in [Assets -> ReserveState]
      /\ data' \in [Accounts -> [Assets -> PositionState]]
      /\ config' \in [Accounts -> ConfigState(Assets, Nat)]
      /\ vault' \in [Assets -> Int] /\ \A i \in Assets : vault'[i] \in 0 .. Supply[i]
      /\ model' \in [Assets -> ModelState \cup {None}]
      /\ allowed' \in AllowanceState
      /\ RegistrarTyped'
  BY <1>1, <1>3 DEF Snapshots, RegistrarTyped
<1>5. \A x \in Accounts : config'[x].rule < Len(rules')
  BY <1>1, <1>3 DEF Good, RulesExist
<1>6. TypeOK'
  BY <1>1, <1>4, <1>5 DEF SystemOK, TypeOK
<1>7. TokenTypeOK' /\ flashFee' \in Nat
  BY <1>1, <1>4 DEF SystemOK, TokenTypeOK, AllowanceState
<1>8. Snapshot' \in Snapshots /\ RulesExist(Snapshot)'
  <2>1. (TypeOK /\ TokenTypeOK /\ RegistrarTyped)' =>
          (Snapshot \in Snapshots /\ RulesExist(Snapshot))'
    BY SnapshotTyped, PTL
  <2>2. QED
    BY <1>4, <1>6, <1>7, <2>1
<1>9. Registered(Snapshot)' = Registered(s) /\ (Counted(Snapshot)' <=> Counted(s))
  BY <1>1 DEF Registered, Snapshot, Counted
<1>10. Good(Snapshot)'
  BY <1>3, <1>8, <1>9 DEF Good
<1>11. \A k \in DOMAIN loans' : Good(loans[k].before)'
  <2>1. \A k \in DOMAIN loans' : Good(loans'[k].before)
    BY <1>1, <1>2 DEF SystemOK
  <2>2. \A k \in DOMAIN loans' : Good(loans[k].before)' <=> Good(loans'[k].before)
    BY <1>1 DEF Good, RulesExist, Counted, Registered
  <2>3. QED
    BY <2>1, <2>2
<1>12. Nested'
  <2>1. \A k \in DOMAIN loans' : Registered(loans'[k].before) \subseteq Registered(s)
    BY <1>1, <1>2 DEF s
  <2>2. \A j, k \in DOMAIN loans' : j <= k =>
          Registered(loans'[j].before) \subseteq Registered(loans'[k].before)
    BY <1>1, <1>2 DEF SystemOK, Nested
  <2>3. QED
    BY <1>9, <2>1, <2>2 DEF Nested, Registered
<1>13. QED
  BY <1>1, <1>2, <1>6, <1>7, <1>8, <1>10, <1>11, <1>12 DEF SystemOK

\* Admins, the environment and the fee for flash loans.
LEMMA OutsideGood ==
  ASSUME SystemOK, OutsideNext
  PROVE  SystemOK'
<1>1. TypeOK /\ TokenTypeOK /\ RegistrarTyped /\ Counted(Snapshot) /\ flashFee \in Nat
  BY InvariantSays DEF SystemOK, Good
<1>2. loans = <<>> /\ UNCHANGED <<allowed, loans, registrar>> /\ sender' = None
      /\ flashFee' \in Nat
  BY <1>1, LoanAssumption DEF OutsideNext, SetFlashLoanFee, loanVars
<1>3. TypeOK'
  <2>1. AdminNext \/ WorldNext \/ UNCHANGED vars
    BY DEF OutsideNext, SetFlashLoanFee
  <2>2. QED
    BY <1>1, <2>1, NextGood DEF Next
<1>4. TokenTypeOK' /\ RegistrarTyped'
  BY <1>1, <1>2 DEF TokenTypeOK, RegistrarTyped, registrar
<1>5. Counted(Snapshot)' /\ Registered(Snapshot) \subseteq Registered(Snapshot)'
  BY <1>1, <1>2 DEF Counted, Registered, Snapshot, registrar
<1>6. QED
  BY <1>2, <1>3, <1>4, <1>5, FramesKept

LEMMA SystemStep ==
  ASSUME SystemOK, [NextAll]_allVars
  PROVE  SystemOK'
<1>1. CASE MessageNext
  BY <1>1, MessageGood
<1>2. CASE LoanNext
  BY <1>2, OpenLoanGood, FinishLoanGood, AbortLoanGood DEF LoanNext
<1>3. CASE OutsideNext
  BY <1>3, OutsideGood
<1>4. CASE UNCHANGED allVars
  <2>1. UNCHANGED <<vars, allowed, sender, loans, flashFee, registrar>>
    BY <1>4 DEF allVars, tokenVars, loanVars
  <2>2. TypeOK' /\ TokenTypeOK' /\ RegistrarTyped' /\ rules' = rules /\ flashFee' \in Nat
    BY <2>1, NextGood, InvariantSays
       DEF SystemOK, TokenTypeOK, RegistrarTyped, registrar, vars, setup
  <2>3. Snapshot' = Snapshot
    BY <2>1 DEF Snapshot, registrar, vars, book, setup
  <2>4. Counted(Snapshot)' /\ Registered(Snapshot) \subseteq Registered(Snapshot)'
    BY <2>3 DEF SystemOK, Good, Counted, Registered
  <2>5. QED
    BY <2>1, <2>2, <2>4, FramesKept
<1>5. QED
  BY <1>1, <1>2, <1>3, <1>4 DEF NextAll

LEMMA InitAllGood ==
  ASSUME InitAll
  PROVE  SystemOK
<1>1. TypeOK
  BY InitGood DEF InitAll, InitTokens
<1>2. TokenTypeOK
  BY TokensAssumption DEF InitAll, InitTokens, TokenTypeOK
<1>3. Cardinality(Accounts) \in Nat
  BY PoolAssumption, FS_CardinalityType
<1>4. RegistrarTyped
  BY <1>3 DEF InitAll, RegistrarTyped, Counters
<1>5. Registered(Snapshot) = {}
  BY DEF InitAll, Registered, Snapshot
<1>6. Counted(Snapshot)
  <2>1. Cardinality(Registered(Snapshot)) = 0
    BY <1>5, FS_EmptySet
  <2>2. Snapshot.nextCounter = 0
    BY DEF InitAll, Snapshot
  <2>3. QED
    BY <2>1, <2>2 DEF Counted
<1>7. Snapshot \in Snapshots /\ RulesExist(Snapshot)
  BY <1>1, <1>2, <1>4, SnapshotTyped
<1>8. loans = <<>> /\ flashFee \in Nat /\ MaxLoans \in Nat
  BY LoanAssumption DEF InitAll
<1>9. loans \in Seq(Frames) /\ Len(loans) <= MaxLoans /\ DOMAIN loans = {}
  BY <1>8
<1>10. QED
  BY <1>1, <1>2, <1>6, <1>7, <1>8, <1>9 DEF SystemOK, Good, Nested

\* The types of the whole system hold for every instance: a counter never
\* leaves its range although a flash loan writes back a stale one, and no
\* receiver of a flash loan, rolled back or not, brings the pool's balance
\* out of the supply or an account to a market rule that does not exist.
THEOREM SystemTyped == SpecAll => []SystemTypeOK
<1>1. InitAll => SystemOK
  BY InitAllGood
<1>2. SystemOK /\ [NextAll]_allVars => SystemOK'
  BY SystemStep
<1>3. SystemOK => SystemTypeOK
  BY InvariantSays
<1>4. QED
  BY <1>1, <1>2, <1>3, PTL DEF SpecAll

-----------------------------------------------------------------------------
(* Positions and totals through loans *)

Proper(s) == Balanced(s) /\ Sound(s)

\* The inductive invariant for safe requests.
BooksOK ==
  /\ SystemOK
  /\ Proper(Snapshot)
  /\ \A k \in DOMAIN loans : Proper(loans[k].before)

\* Only the books of a snapshot matter.
LEMMA SameBooks ==
  ASSUME NEW s, NEW t, t.reserve = s.reserve, t.data = s.data, t.config = s.config, Proper(s)
  PROVE  Proper(t)
BY DEF Proper, Balanced, Sound

LEMMA PoolKeepsBooks ==
  ASSUME SafeRequests, BooksOK, [Next]_vars
  PROVE  Proper(Snapshot)'
<1>1. TypeOK /\ LedgerBalanced /\ AllSound
  BY SnapshotSays DEF BooksOK, SystemOK, Proper
<1>2. LedgerBalanced' /\ AllSound'
  BY <1>1, LedgerStep, SoundStep
<1>3. (/\ Balanced(Snapshot) <=> LedgerBalanced
       /\ Sound(Snapshot) <=> AllSound)'
  BY SnapshotSays, PTL
<1>4. QED
  BY <1>2, <1>3 DEF Proper

LEMMA BooksStep ==
  ASSUME SafeRequests, BooksOK, [NextAll]_allVars
  PROVE  BooksOK'
<1>1. SystemOK /\ SystemOK'
  BY SystemStep DEF BooksOK
<1>2. SUFFICES Proper(Snapshot') /\ \A k \in DOMAIN loans' : Proper(loans'[k].before)
  BY <1>1 DEF BooksOK, Proper, Balanced, Sound
<1>3. CASE [Next]_vars /\ UNCHANGED loans
  <2>1. Proper(Snapshot')
    BY <1>3, PoolKeepsBooks DEF Proper, Balanced, Sound
  <2>2. QED
    BY <1>3, <2>1 DEF BooksOK
<1>4. ASSUME NEW q \in LoanRequests, OpenLoan(q[1], q[2], q[3])
      PROVE  Proper(Snapshot') /\ \A k \in DOMAIN loans' : Proper(loans'[k].before)
  <2>1. PICK l : loans' = Append(loans, l) /\ l.before = Snapshot
    BY <1>4 DEF OpenLoan
  <2>2. loans \in Seq(Frames) /\ loans' \in Seq(Frames)
    BY <1>1 DEF SystemOK
  <2>3. \A k \in DOMAIN loans' : (k \in DOMAIN loans /\ loans'[k] = loans[k]) \/ loans'[k] = l
    BY <2>1, <2>2
  <2>4. UNCHANGED <<reserve, data, config>>
    BY <1>4 DEF OpenLoan
  <2>5. Proper(Snapshot')
    BY <2>4, SameBooks DEF BooksOK, Snapshot
  <2>6. QED
    BY <2>1, <2>3, <2>5 DEF BooksOK
<1>5. CASE FinishLoan
  <2>1. loans # <<>> /\ loans' = Outer /\ UNCHANGED <<reserve, data, config>>
    BY <1>5 DEF FinishLoan
  <2>2. Proper(Snapshot')
    BY <2>1, SameBooks DEF BooksOK, Snapshot
  <2>3. QED
    BY <1>1, <2>1, <2>2, Popped DEF BooksOK
<1>6. CASE AbortLoan
  <2> DEFINE s == Innermost.before
  <2>1. /\ loans # <<>> /\ loans' = Outer
        /\ reserve' = s.reserve /\ data' = s.data /\ config' = s.config
    BY <1>6 DEF AbortLoan
  <2>2. Proper(s)
    <3>1. loans \in Seq(Frames) /\ Len(loans) \in DOMAIN loans
      BY <1>1, <2>1 DEF SystemOK
    <3>2. QED
      BY <3>1 DEF BooksOK, Innermost
  <2> HIDE DEF s
  <2>3. Proper(Snapshot')
    BY <2>1, <2>2, SameBooks DEF Snapshot
  <2>4. QED
    BY <1>1, <2>1, <2>3, Popped DEF BooksOK
<1>7. CASE MessageNext
  <2>1. [Next]_vars /\ UNCHANGED loans
    BY <1>7, MessageIsClients DEF Next, MessageNext, SwitchCollateral, loanVars
  <2>2. QED
    BY <1>3, <2>1
<1>8. CASE OutsideNext
  <2>1. [Next]_vars /\ UNCHANGED loans
    BY <1>8 DEF Next, OutsideNext, SetFlashLoanFee, loanVars
  <2>2. QED
    BY <1>3, <2>1
<1>9. CASE UNCHANGED allVars
  BY <1>3, <1>9 DEF allVars, tokenVars, loanVars
<1>10. QED
  BY <1>4, <1>5, <1>6, <1>7, <1>8, <1>9 DEF NextAll, LoanNext

LEMMA BooksAlways ==
  ASSUME SafeRequests
  PROVE  SpecAll => []BooksOK
<1>1. InitAll => BooksOK
  <2> SUFFICES ASSUME InitAll PROVE BooksOK
    OBVIOUS
  <2>1. SystemOK /\ Init /\ loans = <<>>
    BY InitAllGood DEF InitAll, InitTokens
  <2>2. LedgerBalanced /\ AllSound
    BY <2>1, InitGood, InitPositions
  <2>3. Proper(Snapshot)
    BY <2>2, SnapshotSays DEF Proper
  <2>4. QED
    BY <2>1, <2>3 DEF BooksOK
<1>2. BooksOK /\ [NextAll]_allVars => BooksOK'
  BY BooksStep
<1>3. QED
  BY <1>1, <1>2, PTL DEF SpecAll

\* The totals are the sums of the balances in the whole system too, whatever
\* the receivers of flash loans do within a loan, and after a roll back.
THEOREM LedgerThroughLoans ==
  ASSUME SafeRequests
  PROVE  SpecAll => []LedgerBalanced
<1>1. BooksOK => LedgerBalanced
  BY SnapshotSays DEF BooksOK, Proper
<1>2. QED
  BY <1>1, BooksAlways, PTL

\* The bitmaps miss no deposit and no debt in the whole system too.
THEOREM BitmapsThroughLoans ==
  ASSUME SafeRequests
  PROVE  SpecAll => []BitmapsCover
<1>1. BooksOK => BitmapsCover
  BY SnapshotSays DEF BooksOK, Proper, AllSound, BitmapsCover, SoundAt
<1>2. QED
  BY <1>1, BooksAlways, PTL

-----------------------------------------------------------------------------
(* What a message takes from a position and adds to it, beside interest *)

LEMMA Charged ==
  ASSUME TypeOK, NEW a \in Accounts, NEW i \in Assets, NEW dn \in Int, NEW bn \in Int,
         BringsTo(a, i, dn, bn)
  PROVE  TakenFrom(a, i) = -dn /\ ChargedTo(a, i) = bn
<1> DEFINE di == DepositInterest(Updated(reserve[i], now), data[a][i], FeeReduction[a])
           bi == DebtInterest(Updated(reserve[i], now), data[a][i], FeeReduction[a])
           d == data[a][i]  e == data'[a][i]
<1>1. d.deposit \in Int /\ d.debt \in Int
  BY StoredTyped, PositionNumbers
<1>2. /\ di \in Int /\ bi \in Int
      /\ e.deposit = d.deposit + di + dn /\ e.debt = d.debt + bi + bn
      /\ (e.depositIndex = d.depositIndex /\ e.debtIndex = d.debtIndex) => (di = 0 /\ bi = 0)
  BY DEF BringsTo, Nets
<1>3. /\ TakenFrom(a, i) = IF e = d THEN 0 ELSE d.deposit - e.deposit + di
      /\ ChargedTo(a, i) = IF e = d THEN 0 ELSE e.debt - d.debt - bi
  BY DEF TakenFrom, ChargedTo
<1> HIDE DEF di, bi, d, e
<1>4. CASE e = d
  BY <1>1, <1>2, <1>3, <1>4
<1>5. CASE e # d
  BY <1>1, <1>2, <1>3, <1>5
<1>6. QED
  BY <1>4, <1>5
LEMMA OperateBrings ==
  ASSUME TypeOK, NEW a \in Accounts, NEW act \in ActionState, Operate(a, act)
  PROVE  LET i == act.asset
             n == FinalAmount(Session(a), a, act)
         IN  /\ act.op = "Deposit"  => BringsTo(a, i, n, 0)
             /\ act.op = "Withdraw" => BringsTo(a, i, -n, 0)
             /\ act.op = "Borrow"   => BringsTo(a, i, 0, n)
             /\ act.op = "Repay"    => BringsTo(a, i, 0, -n)
             /\ \A j \in Assets \ {i} : data'[a][j] = data[a][j]
             /\ \A b \in Accounts \ {a} : data'[b] = data[b]
<1> DEFINE i == act.asset
           cut == FeeReduction[a]
           x == Open(reserve[i], data[a][i], config[a])
           z == Account(x, act, cut)
           y == Close(z, i)
           n == FinalAmount(Session(a), a, act)
<1>1. i \in Assets /\ act.op \in Operations
  BY DEF ActionState
<1>2. /\ config[a] \in ConfigState(Assets, RuleIds)
      /\ data[a] \in [Assets -> PositionState] /\ data[a][i] \in PositionState
      /\ reserve[i] \in ReserveState /\ now \in Nat /\ cut \in CutState
      /\ limits[i] \in LimitState
  BY <1>1, StoredTyped, Zenon
<1>3. x \in Ctxs /\ z \in Ctxs /\ y \in Ctxs
  BY <1>1, <1>2, OpenGood, AccountGood, CloseGood DEF Ctxs
<1>4. y.ok /\ data' = [data EXCEPT ![a] = [data[a] EXCEPT ![i] = y.d]]
  BY DEF Operate, Commit, Step, After, Session
<1>5. /\ act.op = "Withdraw" => n = WithdrawnAmount(x, act.amount, TRUE, cut)
      /\ act.op = "Repay" => n = RepaidAmount(x, act.amount, TRUE, cut)
      /\ act.op \in {"Deposit", "Borrow"} => n = act.amount
  BY DEF FinalAmount, Session
<1> HIDE DEF y, n
<1>6. z.ok /\ y.d = z.d
  BY <1>1, <1>3, <1>4, CloseBrings DEF y
<1> HIDE DEF z
<1>7. /\ act.op = "Deposit"  => Brings(x, z, cut, n, 0)
      /\ act.op = "Withdraw" => Brings(x, z, cut, -n, 0)
      /\ act.op = "Borrow"   => Brings(x, z, cut, 0, n)
      /\ act.op = "Repay"    => Brings(x, z, cut, 0, -n)
  BY <1>2, <1>3, <1>5, <1>6, AccountBrings DEF z
<1>8. x.ok
  BY <1>2, <1>3, <1>6, AccountWorks DEF z
<1> HIDE DEF x
<1>9. x.r = Updated(reserve[i], now) /\ x.d = data[a][i]
  BY <1>2, <1>8, OpenSucceeded DEF x, Context
<1>10. /\ data'[a] = [data[a] EXCEPT ![i] = y.d]
       /\ \A b \in Accounts \ {a} : data'[b] = data[b]
  BY <1>4 DEF TypeOK
<1>11. data'[a][i] = z.d /\ \A j \in Assets \ {i} : data'[a][j] = data[a][j]
  BY <1>1, <1>2, <1>6, <1>10
<1>12. ASSUME NEW dn, NEW bn, Brings(x, z, cut, dn, bn)
       PROVE  BringsTo(a, i, dn, bn)
  BY <1>9, <1>11, <1>12 DEF Brings, BringsTo
<1>13. QED
  BY <1>7, <1>10, <1>11, <1>12 DEF n

LEMMA UsedOfOne ==
  ASSUME NEW act \in ActionState, NEW n \in Nat, NEW ns, ns = <<n>>, NEW t \in Tokens, NEW j
  PROVE  Used(t, j, <<act>>, ns) = IF act.op = Needs(t) /\ act.asset = j THEN n ELSE 0
<1> DEFINE S == {k \in DOMAIN <<act>> : <<act>>[k].op = Needs(t) /\ <<act>>[k].asset = j}
           f == [k \in S |-> UsedAmount(t, ns, k)]
           none == [k \in S |-> 0]
<1>1. DOMAIN <<act>> = {1} /\ <<act>>[1] = act
  OBVIOUS
<1>2. Used(t, j, <<act>>, ns) = Total(f)
  BY DEF Used
<1>3. CASE act.op = Needs(t) /\ act.asset = j
  <2>1. S = {1}
    BY <1>1, <1>3
  <2> HIDE DEF S
  <2>2. IsFiniteSet(S)
    BY <2>1, FS_Singleton
  <2>3. f \in [S -> Nat] /\ none \in [S -> Nat] /\ 1 \in S /\ f[1] = n /\ none[1] = 0
        /\ \A e \in S \ {1} : f[e] = none[e]
    BY <2>1 DEF UsedAmount
  <2>4. Total(none) = 0
    BY TotalOfNothing
  <2> HIDE DEF f, none
  <2>5. Total(f) = Total(none) - none[1] + f[1]
    BY <2>2, <2>3, TotalAfterOne
  <2>6. QED
    BY <1>2, <1>3, <2>3, <2>4, <2>5
<1>4. CASE ~(act.op = Needs(t) /\ act.asset = j)
  <2>1. S = {}
    BY <1>1, <1>4
  <2>2. f = none
    BY <2>1
  <2>3. QED
    BY <1>2, <1>4, <2>2, TotalOfNothing
<1>5. QED
  BY <1>3, <1>4

-----------------------------------------------------------------------------
(* Every message is covered by allowances *)

Within(a) ==
  \A i \in Assets : /\ TakenFrom(a, i) <= SpentOf("aToken", a, i)
                    /\ ChargedTo(a, i) <= SpentOf("vToken", a, i)

Covered(a) == sender' \in {a, None} \/ LiquidationOf(a) \/ Within(a)

\* No allowance of the sender grows.
NothingGranted ==
  \A t \in Tokens, a \in Accounts, i \in Assets : SpentOf(t, a, i) \in Nat

LEMMA KeptGrantsNothing ==
  ASSUME allowed \in AllowanceState, sender' \in Accounts, UNCHANGED allowed
  PROVE  NothingGranted
<1> SUFFICES ASSUME NEW t \in Tokens, NEW a \in Accounts, NEW i \in Assets
             PROVE  SpentOf(t, a, i) \in Nat
  BY DEF NothingGranted
<1>1. <<a, sender'>> \in Accounts \X Accounts
  OBVIOUS
<1>2. allowed[t][i][<<a, sender'>>] \in Nat
  BY <1>1 DEF AllowanceState
<1>3. SpentOf(t, a, i) = allowed[t][i][<<a, sender'>>] - allowed[t][i][<<a, sender'>>]
  BY DEF SpentOf
<1>4. QED
  BY <1>2, <1>3

LEMMA SpendGrantsNothing ==
  ASSUME allowed \in AllowanceState, NEW t \in Tokens, NEW i \in Assets, NEW o \in Accounts,
         NEW c \in Accounts, NEW n \in Nat, Spend(t, i, o, c, n), sender' = c
  PROVE  NothingGranted /\ SpentOf(t, o, i) = n
<1>1. /\ allowed' \in AllowanceState
      /\ allowed'[t][i][<<o, c>>] = allowed[t][i][<<o, c>>] - n
      /\ \A u \in Tokens, j \in Assets, q \in Accounts \X Accounts :
           u # t \/ j # i \/ q # <<o, c>> => allowed'[u][j][q] = allowed[u][j][q]
  BY SpendGood
<1>2. \A u \in Tokens, j \in Assets, q \in Accounts \X Accounts : allowed[u][j][q] \in Nat
  BY DEF AllowanceState
<1>3. <<o, c>> \in Accounts \X Accounts
  OBVIOUS
<1>4. SpentOf(t, o, i) = n
  <2>1. allowed[t][i][<<o, c>>] \in Nat
    BY <1>2, <1>3
  <2>2. SpentOf(t, o, i) = allowed[t][i][<<o, c>>] - allowed'[t][i][<<o, c>>]
    BY DEF SpentOf
  <2>3. QED
    BY <1>1, <2>1, <2>2
<1>5. ASSUME NEW u \in Tokens, NEW a \in Accounts, NEW j \in Assets
      PROVE  SpentOf(u, a, j) \in Nat
  <2>1. <<a, c>> \in Accounts \X Accounts /\ allowed[u][j][<<a, c>>] \in Nat
    BY <1>2
  <2>2. CASE u = t /\ j = i /\ a = o
    BY <1>4, <2>2
  <2>3. CASE ~(u = t /\ j = i /\ a = o)
    <3>1. u # t \/ j # i \/ <<a, c>> # <<o, c>>
      BY <2>3
    <3>2. allowed'[u][j][<<a, c>>] = allowed[u][j][<<a, c>>]
      BY <1>1, <2>1, <3>1
    <3>3. SpentOf(u, a, j) = allowed[u][j][<<a, c>>] - allowed'[u][j][<<a, c>>]
      BY DEF SpentOf
    <3>4. QED
      BY <2>1, <3>2, <3>3
  <2>4. QED
    BY <2>2, <2>3
<1>6. QED
  BY <1>4, <1>5 DEF NothingGranted

\* A position that stays is not charged anything.
LEMMA Untouched ==
  ASSUME NEW a, NEW i, data'[a][i] = data[a][i]
  PROVE  TakenFrom(a, i) = 0 /\ ChargedTo(a, i) = 0
BY DEF TakenFrom, ChargedTo

LEMMA Bystander ==
  ASSUME NothingGranted, NEW a \in Accounts, data'[a] = data[a]
  PROVE  Covered(a)
<1> SUFFICES ASSUME NEW i \in Assets
             PROVE  /\ TakenFrom(a, i) <= SpentOf("aToken", a, i)
                    /\ ChargedTo(a, i) <= SpentOf("vToken", a, i)
  BY DEF Covered, Within
<1>1. TakenFrom(a, i) = 0 /\ ChargedTo(a, i) = 0
  BY Untouched
<1>2. SpentOf("aToken", a, i) \in Nat /\ SpentOf("vToken", a, i) \in Nat
  BY DEF NothingGranted, Tokens
<1>3. QED
  BY <1>1, <1>2

\* Only asset i is touched, and for that an allowance is used up.
LEMMA PaidFor ==
  ASSUME TypeOK, NothingGranted, NEW a \in Accounts, NEW i \in Assets,
         \A j \in Assets \ {i} : data'[a][j] = data[a][j],
         NEW dn \in Int, NEW bn \in Int, BringsTo(a, i, dn, bn),
         -dn <= SpentOf("aToken", a, i), bn <= SpentOf("vToken", a, i)
  PROVE  Covered(a)
<1> SUFFICES ASSUME NEW j \in Assets
             PROVE  /\ TakenFrom(a, j) <= SpentOf("aToken", a, j)
                    /\ ChargedTo(a, j) <= SpentOf("vToken", a, j)
  BY DEF Covered, Within
<1>1. CASE j = i
  BY <1>1, Charged
<1>2. CASE j # i
  <2>1. TakenFrom(a, j) = 0 /\ ChargedTo(a, j) = 0
    BY <1>2, Untouched
  <2>2. SpentOf("aToken", a, j) \in Nat /\ SpentOf("vToken", a, j) \in Nat
    BY DEF NothingGranted, Tokens
  <2>3. QED
    BY <2>1, <2>2
<1>3. QED
  BY <1>1, <1>2

LEMMA ATokenTransferCovered ==
  ASSUME TypeOK, allowed \in AllowanceState, NEW c \in Accounts, NEW f \in Accounts,
         NEW t \in Accounts, f # t, NEW i \in Assets, i = NumAssets - 1, NEW n \in Nat,
         ATokenTransfer(c, f, t, i, n), NEW a \in Accounts
  PROVE  Covered(a)
<1>1. /\ TransferDeposit(f, t, i, n) /\ sender' = c
      /\ (c = f /\ UNCHANGED allowed) \/ Spend("aToken", i, f, c, n)
  BY DEF ATokenTransfer
<1>2. /\ BringsTo(f, i, -n, 0) /\ BringsTo(t, i, n, 0)
      /\ \A j \in Assets \ {i} : data'[f][j] = data[f][j] /\ data'[t][j] = data[t][j]
      /\ \A b \in Accounts \ {f, t} : data'[b] = data[b]
  BY <1>1, TransferDepositBrings
<1>3. "aToken" \in Tokens /\ "vToken" \in Tokens
  BY DEF Tokens
<1>4. /\ NothingGranted
      /\ c # f => SpentOf("aToken", f, i) = n
  BY <1>1, <1>3, KeptGrantsNothing, SpendGrantsNothing
<1>5. SpentOf("aToken", a, i) \in Nat /\ SpentOf("vToken", a, i) \in Nat
  BY <1>3, <1>4 DEF NothingGranted
<1>6. CASE a = c
  BY <1>1, <1>6 DEF Covered
<1>7. CASE a = f /\ a # c
  <2>1. -n \in Int /\ 0 \in Int /\ -(-n) <= SpentOf("aToken", a, i) /\ 0 <= SpentOf("vToken", a, i)
    BY <1>4, <1>5, <1>7
  <2>2. QED
    BY <1>2, <1>4, <1>7, <2>1, PaidFor
<1>8. CASE a = t
  <2>1. n \in Int /\ 0 \in Int /\ -n <= SpentOf("aToken", a, i) /\ 0 <= SpentOf("vToken", a, i)
    BY <1>5
  <2>2. QED
    BY <1>2, <1>4, <1>8, <2>1, PaidFor
<1>9. CASE a \notin {f, t}
  BY <1>2, <1>4, <1>9, Bystander
<1>10. QED
  BY <1>6, <1>7, <1>8, <1>9

LEMMA VTokenTransferCovered ==
  ASSUME TypeOK, allowed \in AllowanceState, NEW c \in Accounts, NEW f \in Accounts,
         NEW t \in Accounts, f # t, NEW i \in Assets, i = NumAssets - 1, NEW n \in Nat,
         VTokenTransfer(c, f, t, i, n), NEW a \in Accounts
  PROVE  Covered(a)
<1>1. TransferDebt(f, t, i, n) /\ sender' = c /\ Spend("vToken", i, t, c, n)
  BY DEF VTokenTransfer
<1>2. /\ BringsTo(f, i, 0, -n) /\ BringsTo(t, i, 0, n)
      /\ \A j \in Assets \ {i} : data'[f][j] = data[f][j] /\ data'[t][j] = data[t][j]
      /\ \A b \in Accounts \ {f, t} : data'[b] = data[b]
  BY <1>1, TransferDebtBrings
<1>3. "aToken" \in Tokens /\ "vToken" \in Tokens
  BY DEF Tokens
<1>4. NothingGranted /\ SpentOf("vToken", t, i) = n
  BY <1>1, <1>3, SpendGrantsNothing
<1>5. SpentOf("aToken", a, i) \in Nat /\ SpentOf("vToken", a, i) \in Nat
  BY <1>3, <1>4 DEF NothingGranted
<1>6. CASE a = f
  <2>1. -n \in Int /\ 0 \in Int /\ -0 <= SpentOf("aToken", a, i) /\ -n <= SpentOf("vToken", a, i)
    BY <1>5
  <2>2. QED
    BY <1>2, <1>4, <1>6, <2>1, PaidFor
<1>7. CASE a = t
  <2>1. n \in Int /\ 0 \in Int /\ -0 <= SpentOf("aToken", a, i) /\ n <= SpentOf("vToken", a, i)
    BY <1>4, <1>5, <1>7
  <2>2. QED
    BY <1>2, <1>4, <1>7, <2>1, PaidFor
<1>8. CASE a \notin {f, t}
  BY <1>2, <1>4, <1>8, Bystander
<1>9. QED
  BY <1>6, <1>7, <1>8

\* A message on behalf of account o uses up what the caller was allowed.
LEMMA CallSpends ==
  ASSUME TypeOK, allowed \in AllowanceState, NEW c \in Accounts, NEW o \in Accounts, c # o,
         NEW act \in ActionState, SpendFor(c, o, <<act>>), sender' = c
  PROVE  LET n == FinalAmount(Session(o), o, act)
         IN  /\ n \in Nat
             /\ NothingGranted
             /\ act.op = "Withdraw" => SpentOf("aToken", o, act.asset) = n
             /\ act.op = "Borrow"   => SpentOf("vToken", o, act.asset) = n
<1> DEFINE n == FinalAmount(Session(o), o, act)
           ns == FinalAmounts(o, <<act>>)
           used(t, i) == Used(t, i, <<act>>, ns)
<1>1. act.asset \in Assets /\ "aToken" \in Tokens /\ "vToken" \in Tokens
  BY DEF ActionState, Tokens
<1>2. <<act>> \in Lists
  BY DEF Lists
<1>3. n \in Nat
  BY SessionGood, FinalAmountNatural
<1>4. ns = <<n>>
  <2>1. ns = [k \in {1} |-> n]
    BY DEF FinalAmounts
  <2> HIDE DEF n
  <2>2. QED
    BY <2>1
<1> HIDE DEF n
<1>5. \A t \in Tokens, i \in Assets :
        used(t, i) = IF act.op = Needs(t) /\ act.asset = i THEN n ELSE 0
  BY <1>3, <1>4, UsedOfOne
<1>6. allowed' = [t \in Tokens |-> [i \in Assets |->
                    [allowed[t][i] EXCEPT ![<<o, c>>] = @ - used(t, i)]]]
  BY DEF SpendFor
<1> HIDE DEF used
<1>7. ASSUME NEW t \in Tokens, NEW a \in Accounts, NEW i \in Assets
      PROVE  /\ SpentOf(t, a, i) \in Nat
             /\ a = o => SpentOf(t, a, i) = used(t, i)
  <2>1. used(t, i) \in Nat
    BY <1>3, <1>5
  <2>2. allowed[t][i] \in [Accounts \X Accounts -> Nat] /\ <<o, c>> \in Accounts \X Accounts
        /\ <<a, c>> \in Accounts \X Accounts
    BY DEF AllowanceState
  <2>3. allowed'[t][i] = [allowed[t][i] EXCEPT ![<<o, c>>] = allowed[t][i][<<o, c>>] - used(t, i)]
    BY <1>6
  <2>4. SpentOf(t, a, i) = allowed[t][i][<<a, c>>] - allowed'[t][i][<<a, c>>]
    BY DEF SpentOf
  <2>5. allowed[t][i][<<a, c>>] \in Nat
    BY <2>2
  <2>6. CASE a = o
    <3>1. allowed'[t][i][<<a, c>>] = allowed[t][i][<<a, c>>] - used(t, i)
      BY <2>2, <2>3, <2>6
    <3>2. QED
      BY <2>1, <2>4, <2>5, <3>1
  <2>7. CASE a # o
    <3>1. <<a, c>> # <<o, c>>
      BY <2>7
    <3>2. allowed'[t][i][<<a, c>>] = allowed[t][i][<<a, c>>]
      BY <2>2, <2>3, <3>1
    <3>3. QED
      BY <2>4, <2>5, <2>7, <3>2
  <2>8. QED
    BY <2>6, <2>7
<1>8. NothingGranted
  BY <1>7 DEF NothingGranted
<1>9. Needs("aToken") = "Withdraw" /\ Needs("vToken") = "Borrow"
  BY DEF Needs
<1>10. /\ act.op = "Withdraw" => SpentOf("aToken", o, act.asset) = n
       /\ act.op = "Borrow" => SpentOf("vToken", o, act.asset) = n
  BY <1>1, <1>5, <1>7, <1>9
<1>11. QED
  BY <1>3, <1>8, <1>10 DEF n

LEMMA CallCovered ==
  ASSUME TypeOK, allowed \in AllowanceState, NEW c \in Accounts, NEW o \in Accounts,
         NEW act \in ActionState, Call(c, o, act), NEW a \in Accounts
  PROVE  Covered(a)
<1> DEFINE n == FinalAmount(Session(o), o, act)
           i == act.asset
<1>1. i \in Assets /\ act.op \in Operations
  BY DEF ActionState
<1>2. Operate(o, act) /\ SpendFor(c, o, <<act>>) /\ sender' = c
  BY DEF Call
<1>3. /\ act.op = "Deposit"  => BringsTo(o, i, n, 0)
      /\ act.op = "Withdraw" => BringsTo(o, i, -n, 0)
      /\ act.op = "Borrow"   => BringsTo(o, i, 0, n)
      /\ act.op = "Repay"    => BringsTo(o, i, 0, -n)
      /\ \A j \in Assets \ {i} : data'[o][j] = data[o][j]
      /\ \A b \in Accounts \ {o} : data'[b] = data[b]
  BY <1>2, OperateBrings
<1>4. CASE a = c
  BY <1>2, <1>4 DEF Covered
<1>5. CASE c = o /\ a # c
  <2>1. NothingGranted
    BY <1>2, <1>5, KeptGrantsNothing DEF SpendFor
  <2>2. QED
    BY <1>3, <1>5, <2>1, Bystander
<1>6. CASE c # o
  <2>1. /\ n \in Nat /\ NothingGranted
        /\ act.op = "Withdraw" => SpentOf("aToken", o, i) = n
        /\ act.op = "Borrow"   => SpentOf("vToken", o, i) = n
    BY <1>2, <1>6, CallSpends
  <2>2. CASE a # o
    BY <1>3, <2>1, <2>2, Bystander
  <2> HIDE DEF n, i
  <2>3. CASE a = o
    <3>1. SpentOf("aToken", a, i) \in Nat /\ SpentOf("vToken", a, i) \in Nat
      BY <1>1, <2>1 DEF NothingGranted, Tokens
    <3>2. n \in Int /\ -n \in Int /\ 0 \in Int /\ -(-n) = n /\ -n <= 0
      BY <2>1
    <3>3. ASSUME NEW dn \in Int, NEW bn \in Int, BringsTo(o, i, dn, bn),
                 -dn <= SpentOf("aToken", o, i), bn <= SpentOf("vToken", o, i)
          PROVE  Covered(a)
      BY <1>1, <1>3, <2>1, <2>3, <3>3, PaidFor
    <3>4. CASE act.op = "Deposit"
      <4>1. -n <= SpentOf("aToken", o, i) /\ 0 <= SpentOf("vToken", o, i)
        BY <2>1, <2>3, <3>1
      <4>2. QED
        BY <1>3, <3>2, <3>3, <3>4, <4>1
    <3>5. CASE act.op = "Withdraw"
      <4>1. -(-n) <= SpentOf("aToken", o, i) /\ 0 <= SpentOf("vToken", o, i)
        BY <2>1, <2>3, <3>1, <3>2, <3>5
      <4>2. QED
        BY <1>3, <3>2, <3>3, <3>5, <4>1
    <3>6. CASE act.op = "Borrow"
      <4>1. -0 <= SpentOf("aToken", o, i) /\ n <= SpentOf("vToken", o, i)
        BY <2>1, <2>3, <3>1, <3>6
      <4>2. QED
        BY <1>3, <3>2, <3>3, <3>6, <4>1
    <3>7. CASE act.op = "Repay"
      <4>1. -0 <= SpentOf("aToken", o, i) /\ -n <= SpentOf("vToken", o, i)
        BY <2>1, <2>3, <3>1
      <4>2. QED
        BY <1>3, <3>2, <3>3, <3>7, <4>1
    <3>8. QED
      BY <1>1, <3>4, <3>5, <3>6, <3>7 DEF Operations
  <2>4. QED
    BY <2>2, <2>3
<1>7. QED
  BY <1>4, <1>5, <1>6

\* The owner's own message, or one that grants something: everybody else's
\* positions and allowances stay.
LEMMA OwnersCovered ==
  ASSUME allowed \in AllowanceState, NEW o \in Accounts, sender' = o,
         \A b \in Accounts \ {o} : data'[b] = data[b],
         \A t \in Tokens, i \in Assets, b \in Accounts \ {o} :
           allowed'[t][i][<<b, o>>] = allowed[t][i][<<b, o>>],
         NEW a \in Accounts
  PROVE  Covered(a)
<1>1. CASE a = o
  BY <1>1 DEF Covered
<1>2. CASE a # o
  <2> SUFFICES ASSUME NEW i \in Assets
               PROVE  /\ TakenFrom(a, i) <= SpentOf("aToken", a, i)
                      /\ ChargedTo(a, i) <= SpentOf("vToken", a, i)
    BY DEF Covered, Within
  <2>1. TakenFrom(a, i) = 0 /\ ChargedTo(a, i) = 0
    BY <1>2, Untouched
  <2>2. ASSUME NEW t \in Tokens PROVE SpentOf(t, a, i) = 0
    <3>1. <<a, o>> \in Accounts \X Accounts /\ allowed[t][i][<<a, o>>] \in Nat
      BY DEF AllowanceState
    <3>2. SpentOf(t, a, i) = allowed[t][i][<<a, o>>] - allowed[t][i][<<a, o>>]
      BY <1>2 DEF SpentOf
    <3>3. QED
      BY <3>1, <3>2
  <2>3. QED
    BY <2>1, <2>2 DEF Tokens
<1>3. QED
  BY <1>1, <1>2

\* A liquidation repays: beside the interest the debt of asset rp shrinks, also
\* when the collateral that is taken is of the same asset.
LEMMA LiquidateRepays ==
  ASSUME TypeOK, NEW l \in Accounts, NEW a \in Accounts, l # a,
         NEW rp \in Assets, NEW tk \in Assets, NEW n \in Nat, Liquidate(l, a, rp, tk, n)
  PROVE  ChargedTo(a, rp) < 0 /\ \A b \in Accounts \ {a, l} : data'[b] = data[b]
<1> DEFINE cut    == FeeReduction[a]
           u      == Updated(reserve[rp], now)
           d      == data[a][rp]
           x      == Open(reserve[rp], d, config[a])
           paid   == RepaidAmount(x, n, TRUE, cut)
           acc    == AccountForRepay(x, rp, n, TRUE, cut, limits[rp])
           repaid == Close(acc, rp)
           rs     == [reserve EXCEPT ![rp] = repaid.r]
           ds     == [data[a] EXCEPT ![rp] = repaid.d]
           wanted == AmountToTake(paid, rp, tk, price, RuleOf(config[a]))
           y      == Open(rs[tk], ds[tk], repaid.c)
           out    == AccountForWithdraw(y, tk, wanted, TRUE, cut, limits[tk])
           taken  == WithdrawnAmount(y, wanted, TRUE, cut)
           mid    == [out EXCEPT !.d = data[l][tk], !.c = config[l]]
           dep    == AccountForDeposit(mid, tk, taken, FeeReduction[l], limits[tk])
           in     == Close(dep, tk)
<1>1. /\ config[a] \in ConfigState(Assets, RuleIds) /\ data[a] \in [Assets -> PositionState]
      /\ d \in PositionState /\ reserve \in [Assets -> ReserveState]
      /\ reserve[rp] \in ReserveState /\ now \in Nat /\ price \in [Assets -> Nat]
      /\ limits[rp] \in LimitState /\ cut \in CutState
  BY StoredTyped, Zenon
<1>2. /\ config[l] \in ConfigState(Assets, RuleIds) /\ data[l][tk] \in PositionState
      /\ limits[tk] \in LimitState /\ FeeReduction[l] \in CutState
  BY StoredTyped, Zenon
<1>3. RuleOf(config[a]) \in MarketRule
  <2>1. rules \in Seq(MarketRule) /\ config[a].rule < Len(rules)
    BY DEF TypeOK
  <2>2. config[a].rule \in Nat
    BY <1>1 DEF RuleIds, ConfigState
  <2>3. QED
    BY <2>1, <2>2 DEF RuleOf
<1>4. x \in Ctxs /\ n \in Int
  BY <1>1, OpenGood DEF Ctxs
<1>5. ASSUME NEW clamp
      PROVE  LET w == AccountForRepay(x, rp, n, clamp, cut, limits[rp])
             IN  /\ w \in Ctxs /\ RepaidAmount(x, n, clamp, cut) \in Nat
                 /\ w.ok => x.ok /\ Brings(x, w, cut, 0, -RepaidAmount(x, n, clamp, cut))
  BY <1>1, <1>4, AccountForRepayGood, AccountForRepayWorks, AmountsAreNatural, RepayBrings DEF Ctxs
<1>6. acc \in Ctxs /\ paid \in Nat /\ (acc.ok => x.ok /\ Brings(x, acc, cut, 0, -paid))
  BY <1>5, Zenon
<1>7. /\ repaid.ok /\ in.ok /\ paid # 0
      /\ CanPriceTake(rp, tk, price, RuleOf(config[a]))
      /\ data' = [data EXCEPT ![a] = [ds EXCEPT ![tk] = out.d],
                              ![l] = [data[l] EXCEPT ![tk] = in.d]]
  BY DEF Liquidate, AccountForLiquidate, Seize
<1> HIDE DEF paid, acc
<1>8. wanted \in Nat
  BY <1>1, <1>3, <1>6, <1>7, AmountToTakeTyped
<1>9. repaid \in Ctxs
  BY <1>6, CloseGood DEF Ctxs
<1> HIDE DEF repaid, wanted
<1>10. acc.ok /\ repaid.d = acc.d /\ Alike(acc.r, repaid.r)
  BY <1>6, <1>7, CloseBrings DEF repaid
<1> HIDE DEF x
<1>11. x.r = u /\ x.d = d /\ u.updated = now /\ u \in ReserveState
  <2>1. x = Context(u, d, config[a]) /\ u.updated = now
    BY <1>1, <1>6, <1>10, OpenSucceeded DEF x
  <2>2. QED
    BY <1>4, <2>1 DEF Context, Ctxs, Contexts
<1> HIDE DEF u, d
<1>12. /\ Nets(u, d, repaid.d, cut, 0, -paid)
       /\ Alike(u, repaid.r) /\ UpToDate(repaid.r, repaid.d)
  BY <1>6, <1>10, <1>11 DEF Brings, Alike, UpToDate
<1>13. repaid.r \in ReserveState /\ repaid.d \in PositionState /\ repaid.c \in ConfigState(Assets, RuleIds)
  BY <1>9 DEF Ctxs, Contexts
<1>14. /\ rs[tk] \in ReserveState /\ ds[tk] \in PositionState /\ ds \in [Assets -> PositionState]
       /\ tk = rp => rs[tk] = repaid.r /\ ds[tk] = repaid.d
       /\ ds[rp] = repaid.d
  BY <1>1, <1>13
<1> HIDE DEF rs, ds
<1>15. y \in Ctxs
  BY <1>1, <1>13, <1>14, OpenGood DEF Ctxs
<1>16. ASSUME NEW clamp
       PROVE  LET w == AccountForWithdraw(y, tk, wanted, clamp, cut, limits[tk])
              IN  /\ w \in Ctxs /\ WithdrawnAmount(y, wanted, clamp, cut) \in Nat
                  /\ w.ok => /\ y.ok
                             /\ Brings(y, w, cut, -WithdrawnAmount(y, wanted, clamp, cut), 0)
  <2>1. wanted \in Int
    BY <1>8
  <2>2. QED
    BY <1>1, <1>2, <1>8, <1>15, <2>1, AccountForWithdrawGood, AccountForWithdrawWorks,
       AmountsAreNatural, WithdrawBrings DEF Ctxs
<1>17. out \in Ctxs /\ taken \in Nat /\ (out.ok => y.ok /\ Brings(y, out, cut, -taken, 0))
  BY <1>16, Zenon
<1> HIDE DEF out, taken
<1>18. mid \in Ctxs /\ mid.ok = out.ok
  BY <1>2, <1>17 DEF Ctxs, Contexts
<1> HIDE DEF mid
<1>19. dep \in Ctxs
  <2>1. taken \in Int
    BY <1>17
  <2>2. QED
    BY <1>18, <2>1, AccountForDepositGood DEF Ctxs
<1>20. dep.ok
  BY <1>7, <1>19, CloseBrings
<1>21. out.ok
  BY <1>2, <1>17, <1>18, <1>20, AccountForDepositWorks
<1> HIDE DEF dep, in, y
<1>22. /\ data'[a] = [ds EXCEPT ![tk] = out.d]
       /\ \A b \in Accounts \ {a, l} : data'[b] = data[b]
  BY <1>7 DEF TypeOK
<1>23. /\ data'[a][rp] = IF tk = rp THEN out.d ELSE repaid.d
  BY <1>14, <1>22
<1>24. d.debt \in Nat /\ repaid.d.debt \in Nat /\ DebtInterest(u, d, cut) \in Int
       /\ repaid.d.debt = d.debt + DebtInterest(u, d, cut) + (-paid)
  BY <1>1, <1>12, <1>13, PositionNumbers DEF Nets
<1>25. ASSUME NEW e, data'[a][rp] = e, e.debt = repaid.d.debt, UpToDate(u, e)
       PROVE  ChargedTo(a, rp) < 0
  <2>1. ChargedTo(a, rp) = IF e = d THEN 0 ELSE e.debt - d.debt - DebtInterest(u, d, cut)
    BY <1>25 DEF ChargedTo, u, d
  <2>2. CASE e = d
    <3>1. DebtInterest(u, d, cut) = 0
      BY <1>1, <1>11, <1>25, <2>2, NothingDue
    <3>2. QED
      BY <1>6, <1>7, <1>24, <1>25, <2>2, <3>1
  <2>3. CASE e # d
    BY <1>6, <1>7, <1>24, <1>25, <2>1, <2>3
  <2>4. QED
    BY <2>2, <2>3
<1>26. CASE tk # rp
  <2>1. UpToDate(u, repaid.d)
    BY <1>12 DEF Alike, UpToDate
  <2>2. QED
    BY <1>22, <1>23, <1>25, <1>26, <2>1
<1>27. CASE tk = rp
  <2>1. y = Context(Updated(repaid.r, now), repaid.d, repaid.c)
    BY <1>1, <1>13, <1>14, <1>17, <1>21, <1>27, OpenSucceeded DEF y
  <2>2. Updated(repaid.r, now) = repaid.r
    BY <1>11, <1>12 DEF Alike, Updated
  <2>3. y.r = repaid.r /\ y.d = repaid.d
    BY <2>1, <2>2 DEF Context
  <2>4. DebtInterest(y.r, y.d, cut) = 0
    BY <1>1, <1>12, <1>13, <2>3, NothingDue
  <2>5. Nets(y.r, y.d, out.d, cut, -taken, 0) /\ Alike(y.r, out.r) /\ UpToDate(out.r, out.d)
    BY <1>17, <1>21 DEF Brings
  <2>6. out.d.debt = repaid.d.debt
    BY <1>24, <2>3, <2>4, <2>5 DEF Nets
  <2>7. UpToDate(u, out.d)
    BY <1>12, <2>3, <2>5 DEF Alike, UpToDate
  <2>8. QED
    BY <1>22, <1>23, <1>25, <1>27, <2>6, <2>7
<1>28. QED
  BY <1>22, <1>26, <1>27

LEMMA LiquidateCovered ==
  ASSUME TypeOK, allowed \in AllowanceState, NEW l \in Accounts, NEW a \in Accounts, l # a,
         NEW rp \in Assets, NEW tk \in Assets, NEW n \in Nat, Liquidate(l, a, rp, tk, n),
         sender' = l, UNCHANGED allowed, NEW b \in Accounts
  PROVE  Covered(b)
<1>1. ChargedTo(a, rp) < 0 /\ \A x \in Accounts \ {a, l} : data'[x] = data[x]
  BY LiquidateRepays
<1>2. CASE b = l
  BY <1>2 DEF Covered
<1>3. CASE b = a
  BY <1>1, <1>3 DEF Covered, LiquidationOf, Liquidate, Liquidatable
<1>4. CASE b \notin {a, l}
  BY <1>1, <1>4, KeptGrantsNothing, Bystander
<1>5. QED
  BY <1>2, <1>3, <1>4

\* Batches are sent by the owner of the account.
OwnBatches == \A p \in OnBehalf, q \in MultiRequests : p[2] = q[1] => p[1] = p[2]

\* Messages that touch neither positions nor allowances.
LEMMA NothingTouched ==
  ASSUME allowed \in AllowanceState, sender' \in Accounts \cup {None},
         UNCHANGED <<data, allowed>>, NEW a \in Accounts
  PROVE  Covered(a)
<1>1. CASE sender' = None
  BY <1>1 DEF Covered
<1>2. CASE sender' \in Accounts
  BY <1>2, KeptGrantsNothing, Bystander
<1>3. QED
  BY <1>1, <1>2

LEMMA AllowanceCovered ==
  ASSUME allowed \in AllowanceState, AllowanceNext, NEW a \in Accounts
  PROVE  Covered(a)
<1>1. PICK q \in Approvals : \E m : SetAllowance(q[1], q[2], q[3], q[4], m)
  BY DEF AllowanceNext, Approve, IncreaseAllowance, DecreaseAllowance
<1>2. PICK n : SetAllowance(q[1], q[2], q[3], q[4], n)
  BY <1>1
<1> DEFINE t == q[1]  i == q[2]  o == q[3]  c == q[4]
<1>3. t \in Tokens /\ i \in Assets /\ o \in Accounts /\ c \in Accounts
  BY TokensAssumption
<1>4. /\ allowed' = [allowed EXCEPT ![t][i][<<o, c>>] = n]
      /\ sender' = o /\ data' = data
  BY <1>2 DEF SetAllowance, vars, book
<1> HIDE DEF t, i, o, c
<1>5. ASSUME NEW u \in Tokens, NEW j \in Assets, NEW b \in Accounts \ {o}
      PROVE  allowed'[u][j][<<b, o>>] = allowed[u][j][<<b, o>>]
  <2>1. <<b, o>> \in Accounts \X Accounts /\ <<b, o>> # <<o, c>>
    BY <1>3
  <2>2. allowed[u] \in [Assets -> [Accounts \X Accounts -> Nat]]
        /\ allowed[u][j] \in [Accounts \X Accounts -> Nat]
    BY DEF AllowanceState
  <2>3. \/ allowed'[u][j] = allowed[u][j]
        \/ allowed'[u][j] = [allowed[u][j] EXCEPT ![<<o, c>>] = n]
    BY <1>4, <2>2 DEF AllowanceState
  <2>4. QED
    BY <2>1, <2>2, <2>3
<1>6. QED
  BY <1>3, <1>4, <1>5, OwnersCovered

LEMMA MultiCallCovered ==
  ASSUME TypeOK, allowed \in AllowanceState, NEW o \in Accounts,
         NEW acts, MultiCall(o, o, acts), NEW a \in Accounts
  PROVE  Covered(a)
<1>1. MultiOp(o, acts) /\ UNCHANGED allowed /\ sender' = o
  BY DEF MultiCall, SpendFor
<1>2. \A b \in Accounts \ {o} : data'[b] = data[b]
  BY <1>1 DEF MultiOp, Commit, TypeOK
<1>3. QED
  BY <1>1, <1>2, OwnersCovered

LEMMA MessageCovered ==
  ASSUME SafeRequests, OwnBatches, TypeOK, allowed \in AllowanceState, MessageNext,
         NEW a \in Accounts
  PROVE  Covered(a)
<1>1. CASE \E c \in Accounts, q \in DepositTransfers : ATokenTransfer(c, q[1], q[2], q[3], q[4])
  <2>1. PICK c \in Accounts, q \in DepositTransfers : ATokenTransfer(c, q[1], q[2], q[3], q[4])
    BY <1>1
  <2>2. /\ q[1] \in Accounts /\ q[2] \in Accounts /\ q[3] \in Assets /\ q[4] \in Nat
        /\ q[1] # q[2] /\ q[3] = NumAssets - 1
    BY RequestAssumption DEF SafeRequests
  <2>3. QED
    BY <2>1, <2>2, ATokenTransferCovered
<1>2. CASE \E c \in Accounts, q \in DebtTransfers : VTokenTransfer(c, q[1], q[2], q[3], q[4])
  <2>1. PICK c \in Accounts, q \in DebtTransfers : VTokenTransfer(c, q[1], q[2], q[3], q[4])
    BY <1>2
  <2>2. /\ q[1] \in Accounts /\ q[2] \in Accounts /\ q[3] \in Assets /\ q[4] \in Nat
        /\ q[1] # q[2] /\ q[3] = NumAssets - 1
    BY RequestAssumption DEF SafeRequests
  <2>3. QED
    BY <2>1, <2>2, VTokenTransferCovered
<1>3. CASE \E p \in OnBehalf, q \in Requests : p[2] = q[1] /\ Call(p[1], q[1], q[2])
  <2>1. PICK p \in OnBehalf, q \in Requests : p[2] = q[1] /\ Call(p[1], q[1], q[2])
    BY <1>3
  <2>2. p[1] \in Accounts /\ q[1] \in Accounts /\ q[2] \in ActionState
    BY RequestAssumption, TokensAssumption
  <2>3. QED
    BY <2>1, <2>2, CallCovered
<1>4. CASE \E p \in OnBehalf, q \in MultiRequests : p[2] = q[1] /\ MultiCall(p[1], q[1], q[2])
  <2>1. PICK p \in OnBehalf, q \in MultiRequests : p[2] = q[1] /\ MultiCall(p[1], q[1], q[2])
    BY <1>4
  <2>2. p[1] = q[1] /\ q[1] \in Accounts
    BY <2>1, RequestAssumption DEF OwnBatches
  <2>3. QED
    BY <2>1, <2>2, MultiCallCovered
<1>5. CASE \E q \in Liquidations : /\ Liquidate(q[1], q[2], q[3], q[4], q[5])
                                   /\ sender' = q[1] /\ UNCHANGED allowed
  <2>1. PICK q \in Liquidations : /\ Liquidate(q[1], q[2], q[3], q[4], q[5])
                                  /\ sender' = q[1] /\ UNCHANGED allowed
    BY <1>5
  <2>2. /\ q[1] \in Accounts /\ q[2] \in Accounts /\ q[3] \in Assets /\ q[4] \in Assets
        /\ q[5] \in Nat /\ q[1] # q[2]
    BY RequestAssumption DEF SafeRequests
  <2>3. QED
    BY <2>1, <2>2, LiquidateCovered
<1>6. CASE AllowanceNext
  BY <1>6, AllowanceCovered
<1>7. CASE sender' \in Accounts \cup {None} /\ UNCHANGED <<data, allowed>>
  BY <1>7, NothingTouched
<1>8. QED
  BY <1>1, <1>2, <1>3, <1>4, <1>5, <1>6, <1>7, RequestAssumption
     DEF MessageNext, TransferNext, CallNext, ChooseMarketRule, AccumulateInterest,
         AdjustRateAtTarget, book, SwitchCollateral, SetAsCollateral

LEMMA CoveredStep ==
  ASSUME SafeRequests, OwnBatches, SystemOK, [NextAll]_allVars
  PROVE  (\A a \in Accounts : Covered(a)) \/ UNCHANGED tokenVars
<1>1. TypeOK /\ allowed \in AllowanceState
  BY DEF SystemOK, TokenTypeOK, AllowanceState
<1>2. CASE MessageNext
  BY <1>1, <1>2, MessageCovered
<1>3. CASE \E q \in LoanRequests : OpenLoan(q[1], q[2], q[3])
  <2>1. PICK q \in LoanRequests : OpenLoan(q[1], q[2], q[3])
    BY <1>3
  <2>2. q[1] \in Accounts
    BY LoanAssumption
  <2>3. sender' \in Accounts /\ UNCHANGED <<data, allowed>>
    BY <2>1, <2>2 DEF OpenLoan
  <2>4. QED
    BY <1>1, <2>3, NothingTouched
<1>4. CASE FinishLoan
  <2>1. /\ loans # <<>> /\ sender' = Innermost.caller
        /\ UNCHANGED <<data, allowed>>
    BY <1>4 DEF FinishLoan
  <2>2. Innermost.caller \in Accounts
    BY <2>1, Popped, FrameTyped DEF LoanOK
  <2>3. QED
    BY <1>1, <2>1, <2>2, NothingTouched
<1>5. CASE AbortLoan
  BY <1>5 DEF AbortLoan, Covered
<1>6. CASE OutsideNext
  BY <1>6 DEF OutsideNext, SetFlashLoanFee, Covered
<1>7. CASE UNCHANGED allVars
  BY <1>7 DEF allVars
<1>8. QED
  BY <1>2, <1>3, <1>4, <1>5, <1>6, <1>7 DEF NextAll, LoanNext

\* Whoever sends a message, and whatever he does within flash loans, takes no
\* more from an account of somebody else, and makes it owe no more, than the
\* allowance that its owner gave him loses, unless he liquidates an account
\* that is not collateralized; provided batches of operations are sent by the
\* owners only.
THEOREM AllowancesCovered ==
  ASSUME SafeRequests, OwnBatches
  PROVE  SpecAll => AllowanceCovers
<1> DEFINE Bounded == [\A a \in Accounts : sender' \in {a, None} \/ LiquidationOf(a) \/
                       \A i \in Assets : /\ TakenFrom(a, i) <= SpentOf("aToken", a, i)
                                         /\ ChargedTo(a, i) <= SpentOf("vToken", a, i)]_tokenVars
<1>1. InitAll => SystemOK
  BY InitAllGood
<1>2. SystemOK /\ [NextAll]_allVars => SystemOK'
  BY SystemStep
<1>3. SystemOK /\ [NextAll]_allVars => Bounded
  BY CoveredStep DEF Covered, Within
<1>4. QED
  BY <1>1, <1>2, <1>3, PTL DEF SpecAll, AllowanceCovers

-----------------------------------------------------------------------------
(* What flash loans pay *)

\* The reserves of snapshot s are brought up to now, never further, and the
\* assets that have an interest rate model in s are those that have one now.
DatedAt(s) ==
  \A i \in Assets : s.reserve[i].updated <= now /\ (s.model[i] = None <=> model[i] = None)

\* The fees of loan l are those that are charged now.
FeesAsked(l) == \A n \in DOMAIN l.amounts : l.fees[n] = LoanFee(l.amounts[n], l.caller)

Lent(l, i) == OfAsset(i, l.assets, l.amounts)

\* The state that what happens within loan k has led to so far: the snapshot of
\* the loan it has taken, if any.
Inside(k) == IF k = Len(loans) THEN Snapshot ELSE loans[k + 1].before

\* Within each loan the pool is worth what it was before, less what it has lent.
LoansOK ==
  /\ SystemOK
  /\ DatedAt(Snapshot)
  /\ \A k \in DOMAIN loans : DatedAt(loans[k].before) /\ FeesAsked(loans[k])
  /\ \A k \in DOMAIN loans : \A i \in Assets :
       Worth(Inside(k), i) >= Worth(loans[k].before, i) - Lent(loans[k], i)

\* What a snapshot is worth is a whole number.
LEMMA WorthWhole ==
  ASSUME now \in Nat, NEW s \in Snapshots, NEW i \in Assets, s.reserve[i].updated <= now
  PROVE  Worth(s, i) \in Int
<1> DEFINE r == Updated(s.reserve[i], now)
           B == DebtsGrow(i, r, s.data, Accounts)
           D == DepositsGrow(i, r, s.data, Accounts)
           h == IF s.model[i] = None THEN -s.vault[i] ELSE s.vault[i]
<1>1. s.reserve[i] \in ReserveState /\ s.data \in Data /\ s.vault[i] \in Int
  BY DEF Snapshots, Data
<1>2. r.depositIndex \in Nat /\ r.debtIndex \in Nat
  BY <1>1, IndexesNatural
<1> HIDE DEF r
<1>3. B \in Nat /\ D \in Nat
  <2> DEFINE f == [a \in Accounts |-> DebtGrowth(r, s.data[a][i])]
             g == [a \in Accounts |-> DepositGrowth(r, s.data[a][i])]
  <2>1. f \in [Accounts -> Nat] /\ g \in [Accounts -> Nat]
    BY <1>1, <1>2, GrowthNatural DEF Data
  <2>2. B = Total(f) /\ D = Total(g)
    BY DEF DebtsGrow, DepositsGrow
  <2> HIDE DEF f, g
  <2>3. QED
    BY <2>1, <2>2, PoolAssumption, TotalIsNumber
<1>4. h \in Int
  BY <1>1
<1>5. Worth(s, i) = s.reserve[i].totalDebt - s.reserve[i].totalDeposit - s.reserve[i].earnedFee
                      + h + B - D
  BY DEF Worth, r
<1> HIDE DEF B, D, h
<1>6. QED
  BY <1>1, <1>3, <1>4, <1>5, MarginNumbers

\* Only the books and the kinds of the assets matter, and the time.
LEMMA WorthOf ==
  ASSUME NEW i \in Assets
  PROVE  Worth(Snapshot, i) = FullStanding(i, reserve[i], Holding(i, vault[i]), data)
BY DEF Worth, Snapshot, FullStanding, Margin, Holding

\* What a loan lends of an asset is a number, and so are the fees.
LEMMA LentNatural ==
  ASSUME NEW l \in Frames, NEW i \in Assets
  PROVE  LET places == {n \in DOMAIN l.assets : l.assets[n] = i}
             f == [n \in places |-> l.amounts[n]]
             g == [n \in places |-> l.fees[n]]
         IN  /\ IsFiniteSet(places) /\ f \in [places -> Nat] /\ g \in [places -> Nat]
             /\ Lent(l, i) = Total(f) /\ Lent(l, i) \in Nat
             /\ OfAsset(i, l.assets, l.fees) = Total(g) /\ OfAsset(i, l.assets, l.fees) \in Nat
<1> DEFINE places == {n \in DOMAIN l.assets : l.assets[n] = i}
           f == [n \in places |-> l.amounts[n]]
           g == [n \in places |-> l.fees[n]]
<1>1. /\ l.assets \in Seq(Assets) /\ l.amounts \in Seq(Nat) /\ l.fees \in Seq(Nat)
      /\ Len(l.amounts) = Len(l.assets) /\ Len(l.fees) = Len(l.assets)
  BY DEF Frames
<1>2. DOMAIN l.assets = 1 .. Len(l.assets) /\ Len(l.assets) \in Nat
  BY <1>1
<1>3. IsFiniteSet(places)
  <2>1. IsFiniteSet(1 .. Len(l.assets))
    BY <1>2, FS_Interval
  <2>2. QED
    BY <1>2, <2>1, FS_Subset
<1>4. \A n \in places : l.amounts[n] \in Nat /\ l.fees[n] \in Nat
  BY <1>1, <1>2
<1>5. f \in [places -> Nat] /\ g \in [places -> Nat]
  BY <1>4
<1>6. Lent(l, i) = Total(f) /\ OfAsset(i, l.assets, l.fees) = Total(g)
  BY DEF Lent, OfAsset
<1> HIDE DEF places, f, g
<1>7. Total(f) \in Nat /\ Total(g) \in Nat
  BY <1>3, <1>5, TotalIsNumber
<1>8. QED
  BY <1>3, <1>5, <1>6, <1>7 DEF places, f, g

\* Rounding up loses nothing.
LEMMA UpIsEnough ==
  ASSUME NEW a \in Nat, NEW b \in Nat, NEW e \in Nat \ {0}
  PROVE  MulDivUp(a, b, e) \in Nat /\ MulDivUp(a, b, e) * e >= a * b
<1> DEFINE p == a * b
           q == p \div e
           r == p % e
<1>1. p \in Nat
  OBVIOUS
<1> HIDE DEF p
<1>2. q \in Nat /\ r \in 0 .. e - 1 /\ p = q * e + r
  BY <1>1, Z3
<1>3. MulDivUp(a, b, e) = q + (IF r = 0 THEN 0 ELSE 1)
  BY DEF MulDivUp, p
<1> HIDE DEF q, r
<1>4. (q + 1) * e = q * e + e /\ (q + 0) * e = q * e /\ q * e \in Nat
  BY <1>2
<1>5. CASE r = 0
  BY <1>2, <1>3, <1>4, <1>5 DEF p
<1>6. CASE r # 0
  BY <1>2, <1>3, <1>4, <1>6 DEF p
<1>7. QED
  BY <1>5, <1>6

\* The fee for one amount, before any rounding.
LEMMA FeeIsEnough ==
  ASSUME flashFee \in Nat, NEW n \in Nat, NEW c \in Accounts
  PROVE  /\ LoanFee(n, c) \in Nat
         /\ n * (flashFee * Monus(E6, FlashReduction[c])) <= LoanFee(n, c) * (E6 * E6)
<1> DEFINE m == Monus(E6, FlashReduction[c])
           u == MulDivUp(n, flashFee, E6)
           w == MulDivUp(u, m, E6)
<1>1. m \in Nat /\ E6 \in Nat \ {0}
  BY ScaleAssumption, LoanAssumption DEF Monus
<1> HIDE DEF m
<1>2. u \in Nat /\ u * E6 >= n * flashFee
  BY <1>1, UpIsEnough
<1> HIDE DEF u
<1>3. w \in Nat /\ w * E6 >= u * m
  BY <1>1, <1>2, UpIsEnough
<1>4. LoanFee(n, c) = w
  BY DEF LoanFee, m, u
<1> HIDE DEF w
<1>5. ASSUME NEW x \in Nat, NEW y \in Nat, NEW k \in Nat, x >= y PROVE x * k >= y * k
  <2> DEFINE t == x - y
  <2>1. t \in Nat /\ x = y + t
    BY <1>5
  <2> HIDE DEF t
  <2>2. (y + t) * k = y * k + t * k /\ y * k \in Nat /\ t * k \in Nat
    BY <2>1
  <2>3. QED
    BY <2>1, <2>2
<1>6. (w * E6) * E6 >= (u * m) * E6
  BY <1>1, <1>2, <1>3, <1>5
<1>7. (u * E6) * m >= (n * flashFee) * m
  BY <1>1, <1>2, <1>5
<1>8. (w * E6) * E6 = w * (E6 * E6) /\ (u * m) * E6 = (u * E6) * m
      /\ (n * flashFee) * m = n * (flashFee * m)
  BY <1>1, <1>2, <1>3
<1>9. w * (E6 * E6) \in Nat /\ (u * E6) * m \in Nat /\ n * (flashFee * m) \in Nat
  BY <1>1, <1>2, <1>3
<1>10. QED
  BY <1>3, <1>4, <1>6, <1>7, <1>8, <1>9 DEF m

\* The fees for what a loan lends of an asset.
LEMMA FeesAreEnough ==
  ASSUME flashFee \in Nat, NEW l \in Frames, FeesAsked(l), NEW i \in Assets
  PROVE  OfAsset(i, l.assets, l.fees) * E6 * E6 >= ExactFee(l, i)
<1> DEFINE places == {n \in DOMAIN l.assets : l.assets[n] = i}
           f == [n \in places |-> l.amounts[n]]
           g == [n \in places |-> l.fees[n]]
           K == flashFee * Monus(E6, FlashReduction[l.caller])
           M == E6 * E6
<1>1. /\ IsFiniteSet(places) /\ f \in [places -> Nat] /\ g \in [places -> Nat]
      /\ Lent(l, i) = Total(f) /\ Lent(l, i) \in Nat
      /\ OfAsset(i, l.assets, l.fees) = Total(g) /\ OfAsset(i, l.assets, l.fees) \in Nat
  BY LentNatural
<1>2. Monus(E6, FlashReduction[l.caller]) \in Nat /\ E6 \in Nat \ {0} /\ l.caller \in Accounts
  BY ScaleAssumption, LoanAssumption DEF Monus, Frames
<1>3. K \in Nat /\ M \in Nat \ {0}
  BY <1>2
<1>4. \A n \in places : f[n] * K <= g[n] * M
  <2>1. ASSUME NEW n \in places PROVE f[n] * K <= g[n] * M
    <3>1. n \in DOMAIN l.amounts /\ l.amounts[n] \in Nat
      BY FrameTyped DEF LoanOK, Frames
    <3>2. l.fees[n] = LoanFee(l.amounts[n], l.caller)
      BY <3>1 DEF FeesAsked
    <3>3. QED
      BY <1>2, <3>1, <3>2, FeeIsEnough
  <2>2. QED
    BY <2>1
<1>5. ExactFee(l, i) = Lent(l, i) * flashFee * Monus(E6, FlashReduction[l.caller])
  BY DEF ExactFee, Lent
<1>6. ExactFee(l, i) = Lent(l, i) * K
  BY <1>1, <1>2, <1>5
<1>7. OfAsset(i, l.assets, l.fees) * E6 * E6 = OfAsset(i, l.assets, l.fees) * M
  BY <1>1, <1>2
<1> HIDE DEF places, f, g, K, M
<1>8. Total(f) * K <= Total(g) * M
  BY <1>1, <1>3, <1>4, TotalsCompare
<1>9. Total(f) * K \in Nat /\ Total(g) * M \in Nat
  BY <1>1, <1>3
<1>10. QED
  BY <1>1, <1>6, <1>7, <1>8, <1>9

LEMMA DatedNow ==
  /\ DatedAt(Snapshot) <=> Dated
  /\ SameKind => \A i \in Assets : model'[i] = None <=> model[i] = None
BY DEF DatedAt, Snapshot, Dated, SameKind

\* The states within loans are snapshots too.
LEMMA InsideTyped ==
  ASSUME LoansOK, NEW k \in DOMAIN loans, NEW i \in Assets
  PROVE  /\ loans[k] \in Frames /\ loans[k].before \in Snapshots /\ Inside(k) \in Snapshots
         /\ Worth(loans[k].before, i) \in Int /\ Worth(Inside(k), i) \in Int
         /\ Lent(loans[k], i) \in Nat
         /\ k # Len(loans) => k + 1 \in DOMAIN loans
<1>1. loans \in Seq(Frames) /\ Snapshot \in Snapshots /\ now \in Nat /\ DatedAt(Snapshot)
  BY DEF LoansOK, SystemOK, TypeOK
<1>2. \A j \in DOMAIN loans :
        loans[j] \in Frames /\ loans[j].before \in Snapshots /\ DatedAt(loans[j].before)
  <2>1. \A j \in DOMAIN loans : loans[j] \in Frames
    BY <1>1
  <2>2. QED
    BY <2>1 DEF Frames, LoansOK
<1>3. k # Len(loans) => k + 1 \in DOMAIN loans
  BY <1>1
<1>4. Inside(k) \in Snapshots /\ DatedAt(Inside(k))
  BY <1>1, <1>2, <1>3 DEF Inside
<1>5. Worth(loans[k].before, i) \in Int /\ Worth(Inside(k), i) \in Int
  BY <1>1, <1>2, <1>4, WorthWhole DEF DatedAt
<1>6. Lent(loans[k], i) \in Nat
  BY <1>2, LentNatural
<1>7. QED
  BY <1>2, <1>3, <1>4, <1>5, <1>6

\* A step that takes no loan and ends none, and keeps the pool's worth.
LEMMA LoansKept ==
  ASSUME LoansOK, SystemOK', Dated', now' = now, flashFee' = flashFee, SameKind, loans' = loans,
         \A i \in Assets : Worth(Snapshot, i)' = Worth(Snapshot, i)
  PROVE  LoansOK'
<1>1. DatedAt(Snapshot)'
  BY DatedNow, PTL
<1>2. \A k \in DOMAIN loans : DatedAt(loans[k].before) /\ FeesAsked(loans[k])
  BY DEF LoansOK
<1>3. \A k \in DOMAIN loans' : DatedAt(loans[k].before)' /\ FeesAsked(loans[k])'
  BY <1>2 DEF DatedAt, FeesAsked, LoanFee, SameKind
<1>4. ASSUME NEW k \in DOMAIN loans, NEW i \in Assets
      PROVE  (Worth(Inside(k), i) >= Worth(loans[k].before, i) - Lent(loans[k], i))'
  <2>1. Worth(Inside(k), i) >= Worth(loans[k].before, i) - Lent(loans[k], i)
    BY DEF LoansOK
  <2>2. Worth(Inside(k), i)' = Worth(Inside(k), i)
    <3>1. CASE k = Len(loans)
      BY <3>1 DEF Inside
    <3>2. CASE k # Len(loans)
      BY <3>2 DEF Inside, Worth
    <3>3. QED
      BY <3>1, <3>2
  <2>3. Worth(loans[k].before, i)' = Worth(loans[k].before, i)
    BY DEF Worth
  <2>4. Lent(loans[k], i)' = Lent(loans[k], i)
    BY DEF Lent
  <2>5. QED
    BY <2>1, <2>2, <2>3, <2>4
<1>5. QED
  BY <1>1, <1>3, <1>4 DEF LoansOK

\* A message of a client keeps the pool's worth.
LEMMA MessageKeepsWorth ==
  ASSUME SafeRequests, LoansOK, SystemOK', MessageNext
  PROVE  LoansOK'
<1>1. TypeOK /\ TypeOK' /\ Dated
  BY DatedNow DEF LoansOK, SystemOK
<1>2. UNCHANGED loanVars
  BY DEF MessageNext, SwitchCollateral
<1>3. CASE ClientNext
  <2>1. Squares /\ SameKind /\ Dated' /\ now' = now
    BY <1>1, <1>3, ClientSquares
  <2>2. ASSUME NEW i \in Assets PROVE Worth(Snapshot, i)' = Worth(Snapshot, i)
    <3>1. Worth(Snapshot, i) = FullStanding(i, reserve[i], Holding(i, vault[i]), data)
      BY WorthOf
    <3>2. Worth(Snapshot, i)' = FullStanding(i, reserve'[i], Holding(i, vault'[i]), data')
      BY <2>1 DEF SameKind, Worth, Snapshot, FullStanding, Margin, Holding
    <3>3. QED
      BY <2>1, <3>1, <3>2 DEF Squares, Square
  <2>3. QED
    BY <1>2, <2>1, <2>2, LoansKept DEF loanVars
<1>4. CASE UNCHANGED vars
  <2>1. now' = now /\ model' = model /\ UNCHANGED <<reserve, vault, data>>
    BY <1>4 DEF vars, book, setup
  <2>2. Dated' /\ SameKind
    BY <1>1, <2>1 DEF Dated, SameKind
  <2>3. \A i \in Assets : Worth(Snapshot, i)' = Worth(Snapshot, i)
    BY <2>1 DEF Worth, Snapshot
  <2>4. QED
    BY <1>2, <2>1, <2>2, <2>3, LoansKept DEF loanVars
<1>5. QED
  BY <1>3, <1>4, MessageIsClients

\* What is transferred changes the worth by as much.
LEMMA WorthMoves ==
  ASSUME LoansOK, NEW i \in Assets, NEW n \in Int,
         UNCHANGED <<now, reserve, data, model>>,
         vault'[i] = Sent(i, vault[i], n)
  PROVE  Worth(Snapshot, i)' = Worth(Snapshot, i) - n
<1>1. reserve[i] \in ReserveState /\ vault[i] \in Int
  BY DEF LoansOK, SystemOK, TypeOK
<1>2. Worth(Snapshot, i) = FullStanding(i, reserve[i], Holding(i, vault[i]), data)
  BY WorthOf
<1>3. Worth(Snapshot, i)' = FullStanding(i, reserve[i], Holding(i, vault'[i]), data)
  BY DEF Worth, Snapshot, FullStanding, Margin, Holding
<1>4. Holding(i, vault'[i]) = Holding(i, vault[i]) - n /\ Holding(i, vault[i]) \in Int
  BY <1>1, HoldingMoves
<1>5. /\ Margin(reserve[i]) \in Int
      /\ DebtsGrow(i, Updated(reserve[i], now), data, Accounts) \in Nat
      /\ DepositsGrow(i, Updated(reserve[i], now), data, Accounts) \in Nat
  <2>1. reserve[i].updated <= now /\ now \in Nat /\ data \in Data
    BY BooksTyped, DatedNow DEF LoansOK, SystemOK, Dated
  <2> DEFINE r == Updated(reserve[i], now)
             f == [a \in Accounts |-> DebtGrowth(r, data[a][i])]
             g == [a \in Accounts |-> DepositGrowth(r, data[a][i])]
  <2>2. r.depositIndex \in Nat /\ r.debtIndex \in Nat
    BY <1>1, <2>1, IndexesNatural
  <2>3. f \in [Accounts -> Nat] /\ g \in [Accounts -> Nat]
    BY <2>1, <2>2, GrowthNatural DEF Data
  <2>4. DebtsGrow(i, r, data, Accounts) = Total(f) /\ DepositsGrow(i, r, data, Accounts) = Total(g)
    BY DEF DebtsGrow, DepositsGrow
  <2> HIDE DEF f, g
  <2>5. QED
    BY <1>1, <2>3, <2>4, PoolAssumption, TotalIsNumber, MarginNumbers
<1>6. QED
  BY <1>2, <1>3, <1>4, <1>5 DEF FullStanding

LEMMA OpenLoanWorth ==
  ASSUME LoansOK, SystemOK', NEW q \in LoanRequests, OpenLoan(q[1], q[2], q[3])
  PROVE  LoansOK'
<1> DEFINE l == [caller |-> q[1], assets |-> q[2], amounts |-> q[3],
                 fees |-> [k \in DOMAIN q[3] |-> LoanFee(q[3][k], q[1])],
                 before |-> Snapshot]
           N == Len(loans)
<1>1. /\ vault' = [i \in Assets |-> Sent(i, vault[i], OfAsset(i, q[2], q[3]))]
      /\ loans' = Append(loans, l)
      /\ UNCHANGED <<now, reserve, data, model, flashFee>>
  BY DEF OpenLoan, setup
<1>2. /\ l.before = Snapshot /\ l.assets = q[2] /\ l.amounts = q[3]
      /\ FeesAsked(l)
  BY DEF FeesAsked
<1>3. \A i \in Assets : Lent(l, i) = OfAsset(i, q[2], q[3])
  BY DEF Lent
<1> HIDE DEF l
<1>4. /\ loans \in Seq(Frames) /\ loans' \in Seq(Frames) /\ N \in Nat
      /\ DOMAIN loans = 1 .. N /\ DOMAIN loans' = 1 .. N + 1 /\ Len(loans') = N + 1
      /\ loans'[N + 1] = l /\ \A k \in 1 .. N : loans'[k] = loans[k]
  BY <1>1 DEF LoansOK, SystemOK
<1>5. l \in Frames
  BY <1>4
<1>6. DatedAt(Snapshot)' /\ SameKind
  <2>1. Dated /\ SameKind
    BY <1>1, DatedNow DEF LoansOK, SameKind
  <2>2. Dated'
    BY <1>1, <2>1 DEF Dated
  <2>3. QED
    BY <2>1, <2>2, DatedNow, PTL
<1>7. ASSUME NEW k \in DOMAIN loans'
      PROVE  DatedAt(loans'[k].before) /\ FeesAsked(loans'[k])
  BY <1>2, <1>4 DEF LoansOK
<1>8. ASSUME NEW k \in DOMAIN loans'
      PROVE  DatedAt(loans[k].before)' /\ FeesAsked(loans[k])'
  BY <1>1, <1>7 DEF DatedAt, FeesAsked, LoanFee
<1>9. \A i \in Assets : Worth(Snapshot, i)' = Worth(Snapshot, i) - Lent(l, i)
  <2>1. ASSUME NEW i \in Assets PROVE Worth(Snapshot, i)' = Worth(Snapshot, i) - Lent(l, i)
    <3>1. Lent(l, i) \in Nat
      BY <1>5, LentNatural
    <3>2. vault'[i] = Sent(i, vault[i], Lent(l, i))
      BY <1>1, <1>3
    <3>3. QED
      BY <1>1, <3>1, <3>2, WorthMoves
  <2>2. QED
    BY <2>1
<1>10. ASSUME NEW k \in DOMAIN loans', NEW i \in Assets
       PROVE  (Worth(Inside(k), i) >= Worth(loans[k].before, i) - Lent(loans[k], i))'
  <2>1. Worth(loans[k].before, i)' = Worth(loans'[k].before, i)
    BY <1>1 DEF Worth
  <2>2. Lent(loans[k], i)' = Lent(loans'[k], i)
    BY DEF Lent
  <2>3. CASE k = N + 1
    <3>1. Worth(Inside(k), i)' = Worth(Snapshot, i)'
      BY <1>4, <2>3 DEF Inside
    <3>2. Worth(Snapshot, i) \in Int /\ Lent(l, i) \in Nat
      BY <1>5, LentNatural, WorthWhole DEF LoansOK, SystemOK, DatedAt, TypeOK
    <3>3. QED
      BY <1>2, <1>4, <1>9, <2>1, <2>2, <2>3, <3>1, <3>2
  <2>4. CASE k # N + 1
    <3>1. k \in DOMAIN loans /\ loans'[k] = loans[k]
      BY <1>4, <2>4
    <3>2. Worth(Inside(k), i)' = Worth(Inside(k), i)
      <4>1. CASE k = N
        <5>1. Inside(k) = Snapshot
          BY <4>1 DEF Inside
        <5>2. k # Len(loans') /\ loans'[k + 1].before = Snapshot
          <6> HIDE DEF N
          <6>1. k # Len(loans') /\ loans'[k + 1] = l
            BY <1>4, <4>1
          <6>2. QED
            BY <1>2, <6>1
        <5>3. Inside(k)' = Inside(k)
          BY <5>1, <5>2 DEF Inside
        <5> HIDE DEF Inside
        <5>4. QED
          BY <1>1, <5>3 DEF Worth
      <4>2. CASE k # N
        <5>1. k + 1 \in 1 .. N /\ k # N + 1
          BY <1>4, <3>1, <4>2
        <5>2. loans'[k + 1] = loans[k + 1]
          BY <1>4, <5>1
        <5>3. QED
          BY <1>1, <1>4, <4>2, <5>1, <5>2 DEF Inside, Worth
      <4>3. QED
        BY <4>1, <4>2
    <3>3. QED
      BY <2>1, <2>2, <3>1, <3>2 DEF LoansOK
  <2>5. QED
    BY <2>3, <2>4
<1>11. QED
  BY <1>6, <1>8, <1>10 DEF LoansOK

\* The stack of loans without the innermost.
LEMMA OuterIs ==
  ASSUME SystemOK, loans # <<>>
  PROVE  /\ Len(loans) \in Nat \ {0} /\ Len(loans) \in DOMAIN loans
         /\ Len(Outer) = Len(loans) - 1
<1> DEFINE N == Len(loans)
<1>1. loans \in Seq(Frames) /\ N \in Nat \ {0} /\ DOMAIN loans = 1 .. N
  BY DEF SystemOK
<1>2. Len(Outer) = N - 1
  <2>1. N - 1 \in 0 .. N /\ 1 \in Int /\ N - 1 \in Int
    BY <1>1
  <2>2. Len(SubSeq(loans, 1, N - 1)) = IF 1 <= N - 1 THEN N - 1 - 1 + 1 ELSE 0
    BY <1>1, <2>1, SubSeqProperties
  <2>3. Outer = SubSeq(loans, 1, N - 1)
    BY DEF Outer
  <2> HIDE DEF N
  <2>4. QED
    BY <1>1, <2>2, <2>3
<1>3. QED
  BY <1>1, <1>2

\* What the end of a loan leaves.
LEMMA LoanEnds ==
  ASSUME LoansOK, SystemOK', loans # <<>>, loans' = Outer, now' = now, flashFee' = flashFee,
         SameKind, Dated',
         \A i \in Assets : Worth(Snapshot, i)' >= Worth(Innermost.before, i)
  PROVE  LoansOK'
<1> DEFINE N == Len(loans)
<1>1. /\ loans \in Seq(Frames) /\ N \in Nat \ {0} /\ DOMAIN loans = 1 .. N
      /\ Outer \in Seq(Frames) /\ Len(Outer) = N - 1 /\ DOMAIN Outer = 1 .. N - 1
      /\ \A k \in 1 .. N - 1 : Outer[k] = loans[k]
  <2>1. loans \in Seq(Frames) /\ N \in Nat \ {0} /\ DOMAIN loans = 1 .. N
    BY DEF LoansOK, SystemOK
  <2>2. Outer \in Seq(Frames) /\ \A k \in DOMAIN Outer : Outer[k] = loans[k]
    BY Popped DEF LoansOK
  <2>3. Len(Outer) = N - 1
    BY OuterIs DEF LoansOK
  <2>4. DOMAIN Outer = 1 .. N - 1
    BY <2>2, <2>3
  <2>5. QED
    BY <2>1, <2>2, <2>3, <2>4
<1>2. DatedAt(Snapshot)'
  BY DatedNow, PTL
<1>3. ASSUME NEW k \in DOMAIN loans'
      PROVE  DatedAt(loans[k].before)' /\ FeesAsked(loans[k])'
  <2>1. DatedAt(loans'[k].before) /\ FeesAsked(loans'[k])
    BY <1>1 DEF LoansOK
  <2>2. QED
    BY <2>1 DEF DatedAt, FeesAsked, LoanFee, SameKind
<1>4. ASSUME NEW k \in DOMAIN loans', NEW i \in Assets
      PROVE  (Worth(Inside(k), i) >= Worth(loans[k].before, i) - Lent(loans[k], i))'
  <2>1. k \in DOMAIN loans /\ loans'[k] = loans[k] /\ k # N /\ k + 1 \in DOMAIN loans
    BY <1>1
  <2>2. /\ Worth(loans[k].before, i)' = Worth(loans[k].before, i)
        /\ Lent(loans[k], i)' = Lent(loans[k], i)
    BY <2>1 DEF Worth, Lent
  <2>3. Worth(Inside(k), i) >= Worth(loans[k].before, i) - Lent(loans[k], i)
    BY <2>1 DEF LoansOK
  <2>4. Inside(k) = loans[k + 1].before
    BY <2>1 DEF Inside
  <2>5. CASE k = N - 1
    <3>1. Worth(Inside(k), i)' = Worth(Snapshot, i)'
      BY <1>1, <2>5 DEF Inside
    <3>2. k + 1 = N
      BY <1>1, <2>5
    <3>3. Innermost.before = Inside(k)
      BY <2>4, <3>2 DEF Innermost
    <3>4. /\ Worth(loans[k].before, i) \in Int /\ Lent(loans[k], i) \in Nat
          /\ Worth(Inside(k), i) \in Int
      BY <2>1, InsideTyped
    <3>5. Worth(Snapshot, i)' \in Int
      <4>1. SystemOK' => (Snapshot \in Snapshots /\ now \in Nat)'
        BY DEF SystemOK, TypeOK
      <4>2. Snapshot' \in Snapshots /\ now \in Nat /\ Snapshot'.reserve[i].updated <= now
        BY <4>1, <1>2 DEF DatedAt
      <4>3. Worth(Snapshot', i) \in Int
        BY <4>2, WorthWhole
      <4>4. QED
        BY <4>3 DEF Worth
    <3>6. QED
      BY <2>2, <2>3, <3>1, <3>3, <3>4, <3>5
  <2>6. CASE k # N - 1
    <3>1. k + 1 \in 1 .. N - 1 /\ k # Len(loans')
      BY <1>1, <2>6
    <3>2. loans'[k + 1] = loans[k + 1]
      BY <1>1, <3>1
    <3>3. Worth(Inside(k), i)' = Worth(Inside(k), i)
      BY <2>4, <3>1, <3>2 DEF Inside, Worth
    <3>4. QED
      BY <2>2, <2>3, <3>3
  <2>7. QED
    BY <2>5, <2>6
<1>5. QED
  BY <1>2, <1>3, <1>4 DEF LoansOK

\* What a loan that ends has brought.
LEMMA FinishLoanWorth ==
  ASSUME SafeRequests, LoansOK, SystemOK', FinishLoan
  PROVE  /\ LoansOK'
         /\ \A i \in Assets :
              (Worth(Snapshot, i)' - Worth(Innermost.before, i)) * E6 * E6 >= ExactFee(Innermost, i)
<1> DEFINE l == Innermost
           N == Len(loans)
           fees(i) == OfAsset(i, l.assets, l.fees)
<1>1. /\ loans # <<>> /\ loans' = Outer
      /\ vault' = [i \in Assets |-> Received(i, vault[i], Lent(l, i) + fees(i))]
      /\ UNCHANGED <<now, reserve, data, model, flashFee>>
  BY DEF FinishLoan, setup, Lent
<1>2. N \in DOMAIN loans /\ l = loans[N] /\ l \in Frames /\ FeesAsked(l) /\ flashFee \in Nat
  <2>1. loans \in Seq(Frames) /\ N \in DOMAIN loans
    BY <1>1 DEF LoansOK, SystemOK
  <2>2. QED
    BY <1>1, <2>1, Popped DEF LoansOK, SystemOK, Innermost
<1>3. Inside(N) = Snapshot
  BY DEF Inside
<1> HIDE DEF N, l
<1>4. ASSUME NEW i \in Assets
      PROVE  /\ Worth(Snapshot, i)' = Worth(Snapshot, i) + Lent(l, i) + fees(i)
             /\ Worth(Snapshot, i) >= Worth(l.before, i) - Lent(l, i)
             /\ Worth(Snapshot, i) \in Int /\ Worth(l.before, i) \in Int
             /\ Lent(l, i) \in Nat /\ fees(i) \in Nat
             /\ fees(i) * E6 * E6 >= ExactFee(l, i) /\ ExactFee(l, i) \in Nat
  <2> DEFINE due == Lent(l, i) + fees(i)
  <2>1. Lent(l, i) \in Nat /\ fees(i) \in Nat
    BY <1>2, LentNatural
  <2>2. vault[i] \in Int
    BY DEF LoansOK, SystemOK, TypeOK
  <2>3. vault'[i] = Received(i, vault[i], due)
    BY <1>1
  <2>4. due \in Int /\ -due \in Int
    BY <2>1
  <2> HIDE DEF due, fees
  <2>5. vault'[i] = Sent(i, vault[i], -due)
    BY <2>2, <2>3, <2>4 DEF Received, Sent
  <2>6. Worth(Snapshot, i)' = Worth(Snapshot, i) - (-due)
    BY <1>1, <2>4, <2>5, WorthMoves
  <2>7. Worth(Snapshot, i) >= Worth(l.before, i) - Lent(l, i)
    BY <1>2, <1>3 DEF LoansOK
  <2>8. Worth(Snapshot, i) \in Int /\ Worth(l.before, i) \in Int
    BY <1>2, <1>3, InsideTyped
  <2>9. fees(i) * E6 * E6 >= ExactFee(l, i)
    BY <1>2, FeesAreEnough DEF fees
  <2>10. ExactFee(l, i) \in Nat
    <3>1. l.caller \in Accounts
      BY <1>2 DEF Frames
    <3>2. Monus(E6, FlashReduction[l.caller]) \in Nat
      BY <3>1, ScaleAssumption, LoanAssumption DEF Monus
    <3>3. ExactFee(l, i) = Lent(l, i) * flashFee * Monus(E6, FlashReduction[l.caller])
      BY DEF ExactFee, Lent
    <3>4. QED
      BY <1>2, <2>1, <3>2, <3>3
  <2>11. QED
    BY <2>1, <2>4, <2>6, <2>7, <2>8, <2>9, <2>10 DEF due
<1>5. \A i \in Assets : Worth(Snapshot, i)' >= Worth(l.before, i)
  <2>1. ASSUME NEW i \in Assets PROVE Worth(Snapshot, i)' >= Worth(l.before, i)
    <3> HIDE DEF fees
    <3>1. QED
      BY <1>4
  <2>2. QED
    BY <2>1
<1>6. LoansOK'
  <2>1. SameKind /\ Dated'
    BY <1>1, DatedNow DEF LoansOK, Dated, SameKind
  <2>2. QED
    BY <1>1, <1>5, <2>1, LoanEnds DEF l
<1>7. ASSUME NEW i \in Assets
      PROVE  (Worth(Snapshot, i)' - Worth(l.before, i)) * E6 * E6 >= ExactFee(l, i)
  <2> DEFINE gain == Worth(Snapshot, i)' - Worth(l.before, i)
             f == fees(i)
             t == gain - f
  <2>1. f \in Nat /\ gain \in Nat /\ t \in Nat /\ gain = t + f
    <3> HIDE DEF fees
    <3>1. QED
      BY <1>4
  <2>2. f * E6 * E6 >= ExactFee(l, i) /\ ExactFee(l, i) \in Nat
    BY <1>4
  <2> HIDE DEF gain, f, t
  <2>3. (t + f) * E6 * E6 = t * E6 * E6 + f * E6 * E6 /\ t * E6 * E6 \in Nat /\ f * E6 * E6 \in Nat
    BY <2>1, ScaleAssumption
  <2>4. gain * E6 * E6 >= ExactFee(l, i)
    BY <2>1, <2>2, <2>3
  <2>5. QED
    BY <2>4 DEF gain
<1>8. QED
  BY <1>6, <1>7 DEF l

LEMMA AbortLoanWorth ==
  ASSUME LoansOK, SystemOK', AbortLoan
  PROVE  LoansOK'
<1> DEFINE s == Innermost.before
<1>1. /\ loans # <<>> /\ loans' = Outer
      /\ reserve' = s.reserve /\ data' = s.data /\ vault' = s.vault /\ model' = s.model
      /\ now' = now /\ flashFee' = flashFee
  BY DEF AbortLoan
<1>2. DatedAt(s)
  <2>1. Len(loans) \in DOMAIN loans
    BY <1>1 DEF LoansOK, SystemOK
  <2>2. QED
    BY <2>1 DEF LoansOK, Innermost
<1>3. s \in Snapshots
  BY <1>1, Popped DEF LoansOK, Frames
<1> HIDE DEF s
<1>4. SameKind /\ Dated'
  BY <1>1, <1>2 DEF DatedAt, SameKind, Dated
<1>5. \A i \in Assets : Worth(Snapshot, i)' = Worth(s, i)
  BY <1>1 DEF Worth, Snapshot
<1>6. \A i \in Assets : Worth(s, i) \in Int
  BY <1>2, <1>3, WorthWhole DEF DatedAt, LoansOK, SystemOK, TypeOK
<1>7. \A i \in Assets : Worth(Snapshot, i)' >= Worth(s, i)
  BY <1>5, <1>6
<1>8. QED
  BY <1>1, <1>4, <1>7, LoanEnds DEF s

LEMMA LoansStep ==
  ASSUME SafeRequests, LoansOK, [NextAll]_allVars
  PROVE  LoansOK'
<1>1. SystemOK'
  BY SystemStep DEF LoansOK
<1>2. Dated /\ SystemOK /\ TypeOK
  BY DatedNow DEF LoansOK, SystemOK
<1>3. CASE MessageNext
  BY <1>1, <1>3, MessageKeepsWorth
<1>4. CASE LoanNext
  BY <1>1, <1>4, OpenLoanWorth, FinishLoanWorth, AbortLoanWorth DEF LoanNext
<1>5. CASE OutsideNext
  <2>1. loans = <<>> /\ loans' = <<>>
    BY <1>5 DEF OutsideNext, SetFlashLoanFee, loanVars
  <2>2. AdminNext \/ WorldNext \/ UNCHANGED vars
    BY <1>5 DEF OutsideNext, SetFlashLoanFee
  <2>3. Dated'
    <3>1. CASE UNCHANGED vars
      BY <1>2, <3>1 DEF Dated, vars, book
    <3>2. QED
      BY <1>2, <2>2, <3>1, BooksBalanceStep DEF Next
  <2>4. DatedAt(Snapshot)'
    BY <2>3, DatedNow, PTL
  <2>5. DOMAIN loans' = {}
    BY <2>1
  <2>6. QED
    BY <1>1, <2>4, <2>5 DEF LoansOK
<1>6. CASE UNCHANGED allVars
  <2>1. /\ now' = now /\ model' = model /\ loans' = loans /\ flashFee' = flashFee
        /\ UNCHANGED <<reserve, vault, data>>
    BY <1>6 DEF allVars, tokenVars, loanVars, vars, book, setup
  <2>2. Dated' /\ SameKind
    BY <1>2, <2>1 DEF Dated, SameKind
  <2>3. \A i \in Assets : Worth(Snapshot, i)' = Worth(Snapshot, i)
    BY <2>1 DEF Worth, Snapshot
  <2>4. QED
    BY <1>1, <2>1, <2>2, <2>3, LoansKept
<1>7. QED
  BY <1>3, <1>4, <1>5, <1>6 DEF NextAll

LEMMA LoansAlways ==
  ASSUME SafeRequests
  PROVE  SpecAll => []LoansOK
<1>1. InitAll => LoansOK
  <2> SUFFICES ASSUME InitAll PROVE LoansOK
    OBVIOUS
  <2>1. SystemOK /\ Init /\ loans = <<>>
    BY InitAllGood DEF InitAll, InitTokens
  <2>2. DatedAt(Snapshot)
    <3>1. Dated
      BY <2>1 DEF Init, Dated, NewReserve
    <3>2. QED
      BY <3>1, DatedNow
  <2>3. QED
    BY <2>1, <2>2 DEF LoansOK
<1>2. LoansOK /\ [NextAll]_allVars => LoansOK'
  BY LoansStep
<1>3. QED
  BY <1>1, <1>2, PTL DEF SpecAll

\* Whatever the receiver of a flash loan does while it has the assets, with
\* other loans, transfers, liquidations, or calls of the tokens: when the loan
\* is over the pool is richer by the whole fee of every asset that was lent, or
\* the state is the one the loan started in.
THEOREM LoansPay ==
  ASSUME SafeRequests
  PROVE  SpecAll => LoanPays
<1> DEFINE Pays ==
             Len(loans') < Len(loans) =>
               LET l == Innermost IN
               \/ <<book, model, allowed, registrar>>' =
                    <<<<l.before.reserve, l.before.data, l.before.config, l.before.vault>>,
                      l.before.model, l.before.allowed,
                      <<l.before.nextCounter, l.before.accountToCounter,
                        l.before.counterToAccount>>>>
               \/ \A i \in Assets :
                    (Worth(Snapshot, i)' - Worth(l.before, i)) * E6 * E6 >= ExactFee(l, i)
<1>1. LoansOK /\ [NextAll]_allVars => [Pays]_allVars
  <2> SUFFICES ASSUME LoansOK, NextAll, Len(loans') < Len(loans) PROVE Pays
    BY DEF Pays
  <2>1. SystemOK'
    BY SystemStep DEF LoansOK
  <2>2. loans \in Seq(Frames)
    BY DEF LoansOK, SystemOK
  <2>3. CASE FinishLoan
    BY <2>1, <2>3, FinishLoanWorth
  <2>4. CASE AbortLoan
    <3> DEFINE s == Innermost.before
    <3>1. /\ reserve' = s.reserve /\ data' = s.data /\ config' = s.config
          /\ vault' = s.vault /\ model' = s.model /\ allowed' = s.allowed
          /\ nextCounter' = s.nextCounter
          /\ accountToCounter' = s.accountToCounter
          /\ counterToAccount' = s.counterToAccount
      BY <2>4 DEF AbortLoan
    <3>2. QED
      BY <3>1 DEF book, registrar
  <2>5. ASSUME NEW q \in LoanRequests, OpenLoan(q[1], q[2], q[3]) PROVE FALSE
    <3>1. PICK l : loans' = Append(loans, l)
      BY <2>5 DEF OpenLoan
    <3>2. QED
      BY <2>2, <3>1
  <2>6. CASE MessageNext \/ OutsideNext
    <3>1. loans' = loans
      BY <2>6 DEF MessageNext, SwitchCollateral, OutsideNext, SetFlashLoanFee, loanVars
    <3>2. QED
      BY <2>2, <3>1
  <2>7. QED
    BY <2>3, <2>4, <2>5, <2>6 DEF NextAll, LoanNext
<1>2. LoanPays <=> [][Pays]_allVars
  BY DEF LoanPays
<1> HIDE DEF Pays
<1>3. QED
  BY <1>1, <1>2, LoansAlways, PTL DEF SpecAll

-----------------------------------------------------------------------------
(* Rates, minimums, collaterals and closed reserves through loans *)

\* The promises to depositors in s are covered, and its positions are within
\* the minimums lim.
Secured(s, lim) ==
  /\ \A i \in Assets : FundedRates(s.reserve[i], s.model[i])
  /\ Admin.limits = {} =>
       \A x \in Accounts : \A i \in Assets : MinimalAt(s.data[x][i], s.config[x], lim[i], i)
  /\ PositiveMinimums =>
       \A i \in Assets :
         /\ lim[i].minCollateral > 0
         /\ \A x \in Accounts : i \in s.config[x].collaterals => s.data[x][i].deposit > 0

\* The reserves that are inactive in rs were so in s, with the positions ds.
Shut(s, rs, ds) ==
  \A x \in Accounts : \A i \in Assets :
    /\ s.reserve[i].active = rs[i].active
    /\ ~rs[i].active => s.data[x][i] = ds[x][i]

\* The inductive invariant.
SecuredOK ==
  /\ LoansOK /\ BooksOK
  /\ Secured(Snapshot, limits)
  /\ \A k \in DOMAIN loans : /\ Secured(loans[k].before, limits)
                             /\ Shut(loans[k].before, reserve, data)

LEMMA SecuredSays ==
  Secured(Snapshot, limits) <=> /\ Funded(reserve)
                                /\ Admin.limits = {} => AllMinimal
                                /\ PositiveMinimums => AllFilled
BY DEF Secured, Snapshot, Funded, AllMinimal, AllFilled

LEMMA SameSecured ==
  ASSUME NEW s, NEW t, NEW lim, t.reserve = s.reserve, t.data = s.data, t.config = s.config,
         t.model = s.model, Secured(s, lim)
  PROVE  Secured(t, lim)
BY DEF Secured

LEMMA PoolKeepsSecured ==
  ASSUME SafeRequests, BooksOK, Secured(Snapshot, limits), [Next]_vars
  PROVE  Secured(Snapshot', limits')
<1>1. /\ TypeOK /\ Funded(reserve)
      /\ Admin.limits = {} => AllMinimal
      /\ PositiveMinimums => AllFilled
  BY SecuredSays DEF BooksOK, SystemOK
<1>2. /\ Funded(reserve)'
      /\ Admin.limits = {} => AllMinimal'
      /\ PositiveMinimums => AllFilled'
  BY <1>1, FundedStep, MinimalStep, FilledStep
<1>3. QED
  BY <1>2 DEF Secured, Snapshot, Funded, AllMinimal, AllFilled

\* A user's message opens no reserve and works on no inactive one.
LEMMA ClientShuts ==
  ASSUME SafeRequests, TypeOK, MessageNext
  PROVE  limits' = limits /\ Shut(Snapshot, reserve', data')
<1>1. CASE ClientNext
  <2>1. TypeOK'
    BY <1>1, NextGood DEF Next
  <2>2. (Steady \/ (Settled /\ Activity)) /\ limits' = limits
    BY <1>1, <2>1, ClientPositions
  <2>3. CASE Steady
    BY <2>2, <2>3 DEF Steady, MovedFrom, Moved, Shut, Snapshot
  <2>4. CASE Settled /\ Activity
    BY <2>2, <2>4 DEF Settled, Activity, Shut, Snapshot
  <2>5. QED
    BY <2>2, <2>3, <2>4
<1>2. CASE UNCHANGED vars
  BY <1>2 DEF vars, book, setup, Shut, Snapshot
<1>3. QED
  BY <1>1, <1>2, MessageIsClients

LEMMA ShutTransitive ==
  ASSUME NEW s, NEW t, NEW rs, NEW ds, Shut(s, t.reserve, t.data), Shut(t, rs, ds)
  PROVE  Shut(s, rs, ds)
BY DEF Shut

LEMMA SecuredStep ==
  ASSUME SafeRequests, SecuredOK, [NextAll]_allVars
  PROVE  SecuredOK'
<1>1. LoansOK' /\ BooksOK' /\ SystemOK /\ TypeOK
  BY LoansStep, BooksStep DEF SecuredOK, BooksOK, SystemOK
<1>2. SUFFICES /\ Secured(Snapshot', limits')
               /\ \A k \in DOMAIN loans' : /\ Secured(loans'[k].before, limits')
                                           /\ Shut(loans'[k].before, reserve', data')
  BY <1>1 DEF SecuredOK, Secured, Shut
<1>3. loans \in Seq(Frames) /\ Snapshot.reserve = reserve /\ Snapshot.data = data
  BY <1>1 DEF SystemOK, Snapshot
<1>4. CASE MessageNext
  <2>1. [Next]_vars /\ loans' = loans
    BY <1>4, MessageIsClients DEF Next, MessageNext, SwitchCollateral, loanVars
  <2>2. Secured(Snapshot', limits')
    BY <2>1, PoolKeepsSecured DEF SecuredOK
  <2>3. limits' = limits /\ Shut(Snapshot, reserve', data')
    BY <1>1, <1>4, ClientShuts
  <2>4. QED
    BY <1>3, <2>1, <2>2, <2>3, ShutTransitive DEF SecuredOK
<1>5. ASSUME NEW q \in LoanRequests, OpenLoan(q[1], q[2], q[3])
      PROVE  /\ Secured(Snapshot', limits')
             /\ \A k \in DOMAIN loans' : /\ Secured(loans'[k].before, limits')
                                         /\ Shut(loans'[k].before, reserve', data')
  <2>1. PICK l : loans' = Append(loans, l) /\ l.before = Snapshot
    BY <1>5 DEF OpenLoan
  <2>2. loans' \in Seq(Frames)
    BY <1>1 DEF LoansOK, SystemOK
  <2>3. \A k \in DOMAIN loans' : (k \in DOMAIN loans /\ loans'[k] = loans[k]) \/ loans'[k] = l
    BY <1>3, <2>1, <2>2
  <2>4. UNCHANGED <<reserve, data, config, limits, model>>
    BY <1>5 DEF OpenLoan, setup
  <2>5. Secured(Snapshot', limits')
    BY <2>4, SameSecured DEF SecuredOK, Snapshot
  <2>6. Shut(Snapshot, reserve, data)
    BY DEF Shut, Snapshot
  <2>7. QED
    BY <2>1, <2>3, <2>4, <2>5, <2>6 DEF SecuredOK
<1>6. CASE FinishLoan
  <2>1. loans # <<>> /\ loans' = Outer /\ UNCHANGED <<reserve, data, config, limits, model>>
    BY <1>6 DEF FinishLoan, setup
  <2>2. Secured(Snapshot', limits')
    BY <2>1, SameSecured DEF SecuredOK, Snapshot
  <2>3. QED
    BY <1>1, <2>1, <2>2, Popped DEF SecuredOK
<1>7. CASE AbortLoan
  <2> DEFINE s == Innermost.before
  <2>1. /\ loans # <<>> /\ loans' = Outer /\ limits' = limits
        /\ reserve' = s.reserve /\ data' = s.data /\ config' = s.config /\ model' = s.model
    BY <1>7 DEF AbortLoan
  <2>2. Secured(s, limits) /\ Shut(s, reserve, data)
    <3>1. Len(loans) \in DOMAIN loans
      BY <1>3, <2>1
    <3>2. QED
      BY <3>1 DEF SecuredOK, Innermost
  <2> HIDE DEF s
  <2>3. Secured(Snapshot', limits')
    BY <2>1, <2>2, SameSecured DEF Snapshot
  <2>4. ASSUME NEW t, Shut(t, reserve, data) PROVE Shut(t, reserve', data')
    BY <2>1, <2>2, <2>4 DEF Shut
  <2>5. QED
    BY <1>1, <2>1, <2>3, <2>4, Popped DEF SecuredOK
<1>8. CASE OutsideNext
  <2>1. [Next]_vars /\ loans = <<>> /\ loans' = loans
    BY <1>8 DEF Next, OutsideNext, SetFlashLoanFee, loanVars
  <2>2. Secured(Snapshot', limits')
    BY <2>1, PoolKeepsSecured DEF SecuredOK
  <2>3. DOMAIN loans' = {}
    BY <2>1
  <2>4. QED
    BY <2>2, <2>3
<1>9. CASE UNCHANGED allVars
  <2>1. UNCHANGED <<reserve, data, config, model, limits, loans>>
    BY <1>9 DEF allVars, tokenVars, loanVars, vars, book, setup
  <2>2. Secured(Snapshot', limits')
    BY <2>1, SameSecured DEF SecuredOK, Snapshot
  <2>3. QED
    BY <2>1, <2>2 DEF SecuredOK
<1>10. QED
  BY <1>4, <1>5, <1>6, <1>7, <1>8, <1>9 DEF NextAll, LoanNext

LEMMA SecuredAlways ==
  ASSUME SafeRequests
  PROVE  SpecAll => []SecuredOK
<1>1. InitAll /\ LoansOK /\ BooksOK => SecuredOK
  <2> SUFFICES ASSUME InitAll, LoansOK, BooksOK PROVE SecuredOK
    OBVIOUS
  <2>1. Init /\ loans = <<>>
    BY DEF InitAll, InitTokens
  <2>2. Secured(Snapshot, limits)
    BY <2>1, InitFunded, InitPositions, SecuredSays
  <2>3. QED
    BY <2>1, <2>2 DEF SecuredOK
<1>2. SecuredOK /\ [NextAll]_allVars => SecuredOK'
  BY SecuredStep
<1>3. QED
  BY <1>1, <1>2, BooksAlways, LoansAlways, PTL DEF SpecAll

\* What the invariant says of the pool.
LEMMA SecuredMeans == SecuredOK => TypeOK /\ Dated /\ AllSound /\ Funded(reserve)
BY SecuredSays, SnapshotSays, DatedNow DEF SecuredOK, LoansOK, BooksOK, SystemOK, Proper

\* What is proved of rates, indexes, minimums and repayments in the pool holds
\* in the whole system too, within loans and after a roll back.
THEOREM InterestThroughLoans ==
  ASSUME SafeRequests
  PROVE  SpecAll => []InterestFunded
<1>1. SecuredOK => InterestFunded
  BY SecuredSays, FundedIsEnough DEF SecuredOK, BooksOK, SystemOK
<1>2. QED
  BY <1>1, SecuredAlways, PTL

\* No interest is skipped through a roll back, although it takes the indexes
\* of reserves and positions back.
THEOREM IndexesThroughLoans ==
  ASSUME SafeRequests
  PROVE  SpecAll => []PositionsFollowIndexes
<1>1. BooksOK => PositionsFollowIndexes
  BY SnapshotSays DEF BooksOK, Proper, AllSound, PositionsFollowIndexes, SoundAt
<1>2. QED
  BY <1>1, BooksAlways, PTL

\* No receiver of a flash loan can leave a debt or a collateral below its
\* minimum, while the restrictions stay as they were set at first.
THEOREM MinimumsThroughLoans ==
  ASSUME SafeRequests, Admin.limits = {}
  PROVE  SpecAll => []MinimumsKept
<1>1. SecuredOK => MinimumsKept
  BY SecuredSays DEF SecuredOK, AllMinimal, MinimalAt, MinimumsKept
<1>2. QED
  BY <1>1, SecuredAlways, PTL

\* Within a loan as well every debt can be repaid whose numbers fit.
THEOREM RepayableThroughLoans ==
  ASSUME SafeRequests
  PROVE  SpecAll => []Repayable
<1>1. BooksOK => TypeOK /\ LedgerBalanced
  BY SnapshotSays DEF BooksOK, Proper, SystemOK
<1>2. TypeOK /\ LedgerBalanced => Repayable
  BY DebtRepayable DEF Repayable
<1>3. QED
  BY <1>1, <1>2, BooksAlways, PTL

\* A roll back takes nobody's position in an inactive reserve back to another
\* one, nor does a loan change any.
THEOREM InactiveThroughLoans ==
  ASSUME SafeRequests
  PROVE  SpecAll => InactiveIsClosed
<1> DEFINE Closed == \A i \in Assets : ~reserve[i].active =>
                       \A a \in Accounts : data'[a][i] = data[a][i]
<1>1. SecuredOK /\ [NextAll]_allVars => [Closed]_vars
  <2> SUFFICES ASSUME SecuredOK, [NextAll]_allVars, NEW i \in Assets, ~reserve[i].active,
                      NEW a \in Accounts
               PROVE  data'[a][i] = data[a][i]
    OBVIOUS
  <2>1. TypeOK /\ loans \in Seq(Frames)
    BY DEF SecuredOK, BooksOK, SystemOK
  <2>2. CASE MessageNext
    BY <2>1, <2>2, ClientShuts DEF Shut, Snapshot
  <2>3. CASE AbortLoan
    <3>1. loans # <<>> /\ data' = Innermost.before.data
      BY <2>3 DEF AbortLoan
    <3>2. Len(loans) \in DOMAIN loans
      BY <2>1, <3>1
    <3>3. Shut(Innermost.before, reserve, data)
      BY <3>2 DEF SecuredOK, Innermost
    <3>4. QED
      BY <3>1, <3>3 DEF Shut
  <2>4. CASE FinishLoan \/ \E q \in LoanRequests : OpenLoan(q[1], q[2], q[3])
    BY <2>4 DEF FinishLoan, OpenLoan
  <2>5. CASE OutsideNext
    <3>1. [Next]_vars
      BY <2>5 DEF Next, OutsideNext, SetFlashLoanFee
    <3>2. Steady \/ Settled
      BY <2>1, <3>1, PositionStep
    <3>3. QED
      BY <3>2 DEF Steady, Settled, MovedFrom, Moved
  <2>6. CASE UNCHANGED allVars
    BY <2>6 DEF allVars, tokenVars, vars, book
  <2>7. QED
    BY <2>2, <2>3, <2>4, <2>5, <2>6 DEF NextAll, LoanNext
<1>2. InactiveIsClosed <=> [][Closed]_vars
  BY DEF InactiveIsClosed
<1> HIDE DEF Closed
<1>3. QED
  BY <1>1, <1>2, SecuredAlways, PTL DEF SpecAll

\* No message of a user takes the backing away from an account in the whole
\* system either, sent through a token, on behalf of others, or by the receiver
\* of a flash loan: only a liquidation does, or numbers that no longer fit.
THEOREM BackingThroughLoans ==
  ASSUME SafeRequests, PositiveMinimums
  PROVE  SpecAll => /\ BackingPreserved
                    /\ [][MessageNext => ClientNext]_vars
<1> DEFINE Backs ==
             \A a \in Accounts :
               /\ FreshlyBacked(a, reserve, data[a], config[a])
               /\ ~FreshlyBacked(a, reserve', data'[a], config'[a])
               /\ ~Backed(a, reserve', data'[a], config'[a])
               => \/ Liquidated(a)
                  \/ ~CheckFits(a, reserve', data'[a], config'[a])
                  \/ ~ClientNext
           ByClients == MessageNext => ClientNext
<1>1. SecuredOK => TypeOK /\ Dated /\ AllSound /\ AllFilled
  BY SecuredMeans, SecuredSays DEF SecuredOK
<1>2. SecuredOK /\ SecuredOK' => [Backs]_vars
  <2> SUFFICES ASSUME SecuredOK, SecuredOK' PROVE Backs
    OBVIOUS
  <2>1. (SecuredOK => TypeOK /\ Dated /\ AllSound /\ AllFilled)'
    BY <1>1, PTL
  <2>2. QED
    BY <1>1, <2>1, ClientKeepsBacking
<1>3. [ByClients]_vars
  BY MessageIsClients
<1>4. /\ BackingPreserved <=> [][Backs]_vars
      /\ [][ByClients]_vars <=> [][MessageNext => ClientNext]_vars
  BY DEF BackingPreserved
<1> HIDE DEF Backs, ByClients
<1>5. QED
  BY <1>2, <1>3, <1>4, SecuredAlways, PTL

-----------------------------------------------------------------------------
(* Stablecoins through loans *)

\* In s depositors of stablecoin i earn nothing.
PlainAt(s, i) ==
  PlainReserve(s.reserve[i]) /\ \A x \in Accounts : PlainPosition(s.data[x][i])

\* What is owed of stablecoin i in s beyond what circulates, is deposited or
\* booked as a fee.
Surplus(s, i) == Margin(s.reserve[i]) - s.vault[i]

\* The inductive invariant.  A flash loan of a stablecoin mints it with no debt
\* behind it, but no message within the loan mints any more; Inside(0) is the
\* state before the outermost loan.
CirculationOK ==
  /\ SecuredOK
  /\ \A i \in Assets : model[i] = None =>
       /\ PlainAt(Snapshot, i) /\ \A k \in DOMAIN loans : PlainAt(loans[k].before, i)
       /\ Surplus(Inside(0), i) >= 0
       /\ \A k \in DOMAIN loans :
            Surplus(Inside(k), i) >= Surplus(loans[k].before, i) - Lent(loans[k], i)

LEMMA SurplusWhole ==
  ASSUME NEW s \in Snapshots, NEW i \in Assets
  PROVE  Surplus(s, i) \in Int
BY MarginNumbers DEF Surplus, Snapshots

\* The stack of loans, its snapshots, and how the states within them follow.
LEMMA StackTyped ==
  ASSUME SystemOK
  PROVE  /\ loans \in Seq(Frames) /\ Len(loans) \in Nat /\ DOMAIN loans = 1 .. Len(loans)
         /\ Snapshot \in Snapshots
         /\ \A k \in DOMAIN loans :
              /\ loans[k] \in Frames /\ loans[k].before \in Snapshots
              /\ Inside(k - 1) = loans[k].before
         /\ \A k \in 0 .. Len(loans) : Inside(k) \in Snapshots
         /\ Inside(Len(loans)) = Snapshot
<1>1. /\ loans \in Seq(Frames) /\ Len(loans) \in Nat /\ DOMAIN loans = 1 .. Len(loans)
      /\ Snapshot \in Snapshots
  BY DEF SystemOK
<1>2. ASSUME NEW k \in DOMAIN loans
      PROVE  /\ loans[k] \in Frames /\ loans[k].before \in Snapshots
             /\ Inside(k - 1) = loans[k].before
  <2>1. loans[k] \in Frames
    BY <1>1
  <2>2. k - 1 # Len(loans) /\ (k - 1) + 1 = k
    BY <1>1
  <2>3. QED
    BY <2>1, <2>2 DEF Frames, Inside
<1>3. ASSUME NEW k \in 0 .. Len(loans) PROVE Inside(k) \in Snapshots
  <2>1. CASE k = Len(loans)
    BY <1>1, <2>1 DEF Inside
  <2>2. CASE k # Len(loans)
    <3> DEFINE N == Len(loans)
    <3>1. N \in Nat /\ k \in 0 .. N /\ k # N /\ DOMAIN loans = 1 .. N
      BY <1>1, <2>2
    <3> HIDE DEF N
    <3>2. k + 1 \in DOMAIN loans
      BY <3>1
    <3>3. QED
      BY <1>2, <2>2, <3>2 DEF Inside
  <2>3. QED
    BY <2>1, <2>2
<1>4. QED
  BY <1>1, <1>2, <1>3 DEF Inside

\* A step that takes no loan, and leaves what it comes back to with no less.
LEMMA CirculationKept ==
  ASSUME CirculationOK, SecuredOK', SameKind, Len(loans') \in 0 .. Len(loans),
         \A k \in DOMAIN loans' : k \in DOMAIN loans /\ loans'[k] = loans[k],
         \A i \in Assets : model[i] = None =>
           PlainAt(Snapshot', i) /\ Surplus(Snapshot', i) >= Surplus(Inside(Len(loans')), i)
  PROVE  CirculationOK'
<1> DEFINE N == Len(loans)
           M == Len(loans')
<1>1. SystemOK /\ SystemOK'
  BY DEF CirculationOK, SecuredOK, BooksOK
<1>2. /\ N \in Nat /\ M \in 0 .. N /\ DOMAIN loans = 1 .. N
      /\ \A k \in DOMAIN loans : loans[k] \in Frames /\ loans[k].before \in Snapshots
      /\ \A k \in 0 .. N : Inside(k) \in Snapshots
  BY <1>1, StackTyped
<1>3. Snapshot' \in Snapshots /\ DOMAIN loans' = 1 .. M
  <2>1. SystemOK' => (Snapshot \in Snapshots /\ DOMAIN loans = 1 .. Len(loans))'
    BY DEF SystemOK
  <2>2. QED
    BY <1>1, <2>1
<1>4. ASSUME NEW k \in 0 .. M
      PROVE  Inside(k)' = IF k = M THEN Snapshot' ELSE Inside(k)
  <2>1. Inside(k)' = IF k = M THEN Snapshot' ELSE loans'[k + 1].before
    BY DEF Inside
  <2>2. CASE k = M
    BY <2>1, <2>2
  <2>3. CASE k # M
    <3> HIDE DEF M, N
    <3>1. k + 1 \in DOMAIN loans' /\ k # N
      BY <1>2, <1>3, <2>3
    <3>2. Inside(k)' = loans[k + 1].before
      BY <2>1, <2>3, <3>1
    <3>3. QED
      BY <2>3, <3>1, <3>2 DEF Inside, N
  <2>4. QED
    BY <2>2, <2>3
<1> SUFFICES ASSUME NEW i \in Assets, model[i] = None
             PROVE  /\ \A k \in DOMAIN loans' : PlainAt(loans'[k].before, i)
                    /\ Surplus(Inside(0)', i) >= 0
                    /\ \A k \in DOMAIN loans' :
                         Surplus(Inside(k)', i) >= Surplus(loans'[k].before, i) - Lent(loans'[k], i)
  BY DEF CirculationOK, SameKind, PlainAt, Surplus, Lent
<1>5. /\ \A k \in DOMAIN loans : PlainAt(loans[k].before, i)
      /\ Surplus(Inside(0), i) >= 0
      /\ \A k \in DOMAIN loans :
           Surplus(Inside(k), i) >= Surplus(loans[k].before, i) - Lent(loans[k], i)
      /\ Surplus(Snapshot', i) >= Surplus(Inside(M), i)
  BY DEF CirculationOK
<1> HIDE DEF M, N
<1>6. ASSUME NEW k \in 0 .. M
      PROVE  /\ Surplus(Inside(k)', i) >= Surplus(Inside(k), i)
             /\ Surplus(Inside(k)', i) \in Int /\ Surplus(Inside(k), i) \in Int
  <2>1. Inside(k) \in Snapshots
    BY <1>2
  <2>2. CASE k = M
    BY <1>3, <1>4, <1>5, <2>1, <2>2, SurplusWhole
  <2>3. CASE k # M
    <3>1. Surplus(Inside(k), i) \in Int
      BY <2>1, SurplusWhole
    <3>2. QED
      BY <1>4, <2>3, <3>1
  <2>4. QED
    BY <2>2, <2>3
<1>7. Surplus(Inside(0)', i) >= 0
  <2>1. 0 \in 0 .. M
    BY <1>2
  <2>2. QED
    BY <1>5, <1>6, <2>1
<1>8. ASSUME NEW k \in DOMAIN loans'
      PROVE  Surplus(Inside(k)', i) >= Surplus(loans'[k].before, i) - Lent(loans'[k], i)
  <2>1. k \in DOMAIN loans /\ loans'[k] = loans[k] /\ k \in 0 .. M
    BY <1>2, <1>3
  <2>2. Surplus(loans[k].before, i) \in Int
    BY <1>2, <2>1, SurplusWhole
  <2>3. Lent(loans[k], i) \in Nat
    BY <1>2, <2>1, LentNatural
  <2>4. QED
    BY <1>5, <1>6, <2>1, <2>2, <2>3
<1>9. QED
  BY <1>5, <1>7, <1>8

\* Taking a loan sends out what it lends.
LEMMA CirculationLent ==
  ASSUME CirculationOK, SecuredOK', NEW q \in LoanRequests, OpenLoan(q[1], q[2], q[3])
  PROVE  CirculationOK'
<1>1. SystemOK /\ SystemOK'
  BY DEF CirculationOK, SecuredOK, BooksOK
<1> PICK N \in Nat : N = Len(loans)
  BY <1>1, StackTyped
<1>2. PICK l \in Frames :
        /\ loans' = Append(loans, l) /\ l.before = Snapshot
        /\ vault' = [i \in Assets |-> Sent(i, vault[i], Lent(l, i))]
        /\ UNCHANGED <<reserve, data, model>>
  <2> DEFINE l == [caller |-> q[1], assets |-> q[2], amounts |-> q[3],
                   fees |-> [k \in DOMAIN q[3] |-> LoanFee(q[3][k], q[1])],
                   before |-> Snapshot]
  <2>1. /\ loans' = Append(loans, l)
        /\ vault' = [i \in Assets |-> Sent(i, vault[i], OfAsset(i, q[2], q[3]))]
        /\ UNCHANGED <<reserve, data, model>>
    BY DEF OpenLoan, setup
  <2>2. l.before = Snapshot /\ l.assets = q[2] /\ l.amounts = q[3]
    OBVIOUS
  <2> HIDE DEF l
  <2>3. l \in Frames
    <3>1. loans \in Seq(Frames) /\ loans' \in Seq(Frames)
      BY <1>1 DEF SystemOK
    <3>2. QED
      BY <2>1, <3>1
  <2>4. \A i \in Assets : Lent(l, i) = OfAsset(i, q[2], q[3])
    BY <2>2 DEF Lent
  <2>5. QED
    BY <2>1, <2>2, <2>3, <2>4
<1>3. /\ loans \in Seq(Frames) /\ DOMAIN loans = 1 .. N
      /\ Inside(N) = Snapshot /\ Snapshot \in Snapshots
      /\ \A k \in 1 .. N : loans[k] \in Frames /\ loans[k].before \in Snapshots
  BY <1>1, StackTyped
<1>4. /\ DOMAIN loans' = 1 .. N + 1 /\ Len(loans') = N + 1
      /\ loans'[N + 1] = l /\ \A k \in 1 .. N : loans'[k] = loans[k]
  BY <1>2, <1>3
<1>5. Inside(N + 1)' = Snapshot'
  BY <1>4 DEF Inside
<1>6. ASSUME NEW k \in 0 .. N PROVE Inside(k)' = Inside(k)
  <2>1. Inside(k)' = loans'[k + 1].before
    BY <1>3, <1>4 DEF Inside
  <2>2. CASE k = N
    BY <1>2, <1>3, <1>4, <2>1, <2>2
  <2>3. CASE k # N
    <3>1. k + 1 \in 1 .. N
      BY <1>3, <2>3
    <3>2. QED
      BY <1>4, <2>1, <2>3, <3>1 DEF Inside
  <2>4. QED
    BY <2>2, <2>3
<1> SUFFICES ASSUME NEW i \in Assets, model[i] = None
             PROVE  /\ PlainAt(Snapshot', i)
                    /\ \A k \in DOMAIN loans' : PlainAt(loans'[k].before, i)
                    /\ Surplus(Inside(0)', i) >= 0
                    /\ \A k \in DOMAIN loans' :
                         Surplus(Inside(k)', i) >= Surplus(loans'[k].before, i) - Lent(loans'[k], i)
  BY <1>2 DEF CirculationOK, PlainAt, Surplus, Lent
<1>7. /\ PlainAt(Snapshot, i) /\ \A k \in DOMAIN loans : PlainAt(loans[k].before, i)
      /\ Surplus(Inside(0), i) >= 0
      /\ \A k \in DOMAIN loans :
           Surplus(Inside(k), i) >= Surplus(loans[k].before, i) - Lent(loans[k], i)
  BY DEF CirculationOK
<1>8. PlainAt(Snapshot', i)
  BY <1>2, <1>7 DEF PlainAt, Snapshot
<1>9. Surplus(Inside(N + 1)', i) >= Surplus(Snapshot, i) - Lent(l, i)
  <2>1. Snapshot'.reserve = Snapshot.reserve /\ Snapshot'.vault[i] = vault[i] + Lent(l, i)
    BY <1>2 DEF Snapshot, Sent
  <2>2. Margin(Snapshot.reserve[i]) \in Int /\ Snapshot.vault[i] \in Int
    BY <1>3, MarginNumbers DEF Snapshots
  <2>3. Lent(l, i) \in Nat
    BY LentNatural
  <2>4. Snapshot.vault[i] = vault[i]
    BY DEF Snapshot
  <2>5. QED
    BY <1>5, <2>1, <2>2, <2>3, <2>4 DEF Surplus
<1>10. ASSUME NEW k \in DOMAIN loans'
       PROVE  /\ PlainAt(loans'[k].before, i)
              /\ Surplus(Inside(k)', i) >= Surplus(loans'[k].before, i) - Lent(loans'[k], i)
  <2>1. CASE k = N + 1
    BY <1>2, <1>4, <1>7, <1>9, <2>1
  <2>2. CASE k # N + 1
    <3>1. k \in 1 .. N /\ k \in 0 .. N
      BY <1>3, <1>4, <2>2
    <3>2. QED
      BY <1>3, <1>4, <1>6, <1>7, <3>1
  <2>3. QED
    BY <2>1, <2>2
<1>11. 0 \in 0 .. N
  BY <1>3
<1>12. QED
  BY <1>6, <1>7, <1>8, <1>10, <1>11

\* A message of a user on a stablecoin.
LEMMA MessageCirculates ==
  ASSUME SafeRequests, SecuredOK, SecuredOK', MessageNext, NEW i \in Assets, model[i] = None,
         PlainAt(Snapshot, i)
  PROVE  PlainAt(Snapshot', i) /\ Surplus(Snapshot', i) >= Surplus(Snapshot, i)
<1> SUFFICES /\ PlainReserve(reserve'[i]) /\ \A a \in Accounts : PlainPosition(data'[a][i])
             /\ Margin(reserve'[i]) - vault'[i] >= Margin(reserve[i]) - vault[i]
  BY DEF PlainAt, Surplus, Snapshot
<1>1. PlainReserve(reserve[i]) /\ \A a \in Accounts : PlainPosition(data[a][i])
  BY DEF PlainAt, Snapshot
<1>2. TypeOK /\ Dated
  BY SecuredMeans
<1>3. CASE ClientNext
  <2>1. (SecuredOK => TypeOK /\ Dated /\ AllSound /\ Funded(reserve))'
    BY SecuredMeans, PTL
  <2>2. QED
    BY <1>1, <1>2, <1>3, <2>1, ClientStable
<1>4. CASE UNCHANGED vars
  <2>1. UNCHANGED <<reserve, data, vault>>
    BY <1>4 DEF vars, book
  <2>2. Margin(reserve[i]) \in Int /\ vault[i] \in Int
    BY <1>2, MarginNumbers DEF TypeOK
  <2>3. QED
    BY <1>1, <2>1, <2>2
<1>5. QED
  BY <1>3, <1>4, MessageIsClients

LEMMA CirculationStep ==
  ASSUME SafeRequests, CirculationOK, [NextAll]_allVars
  PROVE  CirculationOK'
<1>1. SecuredOK /\ SecuredOK'
  BY SecuredStep DEF CirculationOK
<1>2. SystemOK /\ TypeOK /\ Dated /\ AllSound /\ Funded(reserve)
  BY <1>1, SecuredMeans DEF SecuredOK, LoansOK
<1>3. /\ Len(loans) \in Nat /\ DOMAIN loans = 1 .. Len(loans) /\ Snapshot \in Snapshots
      /\ Inside(Len(loans)) = Snapshot
  BY <1>2, StackTyped
<1>4. CASE MessageNext
  <2>1. loans' = loans /\ SameKind
    <3>1. loans' = loans
      BY <1>4 DEF MessageNext, SwitchCollateral, loanVars
    <3>2. CASE ClientNext
      <4>1. TypeOK'
        BY <1>1 DEF SecuredOK, LoansOK, SystemOK
      <4>2. QED
        BY <1>2, <3>1, <3>2, <4>1, ClientSquares
    <3>3. CASE UNCHANGED vars
      BY <3>1, <3>3 DEF vars, setup, SameKind
    <3>4. QED
      BY <1>4, <3>1, <3>2, <3>3, MessageIsClients
  <2>2. \A i \in Assets : model[i] = None =>
          PlainAt(Snapshot', i) /\ Surplus(Snapshot', i) >= Surplus(Snapshot, i)
    BY <1>1, <1>4, MessageCirculates DEF CirculationOK
  <2>3. Len(loans') = Len(loans) /\ Len(loans) \in 0 .. Len(loans)
    BY <1>3, <2>1
  <2>4. QED
    BY <1>1, <1>3, <2>1, <2>2, <2>3, CirculationKept
<1>5. ASSUME NEW q \in LoanRequests, OpenLoan(q[1], q[2], q[3]) PROVE CirculationOK'
  BY <1>1, <1>5, CirculationLent
<1>6. ASSUME loans # <<>>, loans' = Outer, SameKind,
             \A i \in Assets : model[i] = None =>
               PlainAt(Snapshot', i) /\ Surplus(Snapshot', i) >= Surplus(Innermost.before, i)
      PROVE  CirculationOK'
  <2> DEFINE N == Len(loans)
  <2>1. N \in DOMAIN loans /\ N \in Nat \ {0} /\ Len(loans') = N - 1
    BY <1>2, <1>6, OuterIs
  <2>2. \A k \in DOMAIN loans' : k \in DOMAIN loans /\ loans'[k] = loans[k]
    BY <1>2, <1>6, Popped
  <2>3. Inside(N - 1) = Innermost.before
    BY <1>2, <2>1, StackTyped DEF Innermost
  <2>4. N - 1 \in 0 .. N
    <3> HIDE DEF N
    <3>1. QED
      BY <2>1
  <2>5. QED
    BY <1>1, <1>6, <2>1, <2>2, <2>3, <2>4, CirculationKept
<1>7. loans # <<>> => /\ Innermost \in Frames /\ Innermost.before \in Snapshots
                      /\ \A i \in Assets : model[i] = None => PlainAt(Innermost.before, i)
  <2> SUFFICES ASSUME loans # <<>>
               PROVE  /\ Innermost \in Frames /\ Innermost.before \in Snapshots
                      /\ \A i \in Assets : model[i] = None => PlainAt(Innermost.before, i)
    OBVIOUS
  <2>1. Len(loans) \in DOMAIN loans
    BY <1>2, OuterIs
  <2>2. QED
    BY <1>2, <2>1, StackTyped DEF CirculationOK, Innermost
<1>8. CASE FinishLoan
  <2>1. /\ loans # <<>> /\ loans' = Outer /\ UNCHANGED <<reserve, data, model>>
        /\ \A i \in Assets : vault'[i] = Received(i, vault[i], Lent(Innermost, i)
                                           + OfAsset(i, Innermost.assets, Innermost.fees))
    BY <1>8 DEF FinishLoan, setup, Lent
  <2>2. ASSUME NEW i \in Assets, model[i] = None
        PROVE  PlainAt(Snapshot', i) /\ Surplus(Snapshot', i) >= Surplus(Innermost.before, i)
    <3> DEFINE fee == OfAsset(i, Innermost.assets, Innermost.fees)
    <3>1. Lent(Innermost, i) \in Nat /\ fee \in Nat
      BY <1>7, <2>1, LentNatural
    <3>2. vault'[i] = vault[i] - (Lent(Innermost, i) + fee)
      BY <2>1, <2>2 DEF Received
    <3> HIDE DEF fee
    <3>3. PlainAt(Snapshot', i)
      BY <2>1, <2>2 DEF CirculationOK, PlainAt, Snapshot
    <3>4. Surplus(Snapshot, i) >= Surplus(Innermost.before, i) - Lent(Innermost, i)
      BY <1>2, <1>3, <2>1, <2>2, OuterIs DEF CirculationOK, Innermost
    <3>5. Surplus(Snapshot, i) \in Int /\ Surplus(Innermost.before, i) \in Int
      BY <1>3, <1>7, <2>1, SurplusWhole
    <3>6. Margin(reserve[i]) \in Int /\ vault[i] \in Int
      BY <1>2, MarginNumbers DEF TypeOK
    <3>7. Surplus(Snapshot', i) = Surplus(Snapshot, i) + (Lent(Innermost, i) + fee)
      <4>1. /\ Surplus(Snapshot', i) = Margin(reserve[i]) - vault'[i]
            /\ Surplus(Snapshot, i) = Margin(reserve[i]) - vault[i]
        BY <2>1 DEF Surplus, Snapshot
      <4>2. QED
        BY <3>1, <3>2, <3>6, <4>1
    <3>8. QED
      BY <3>1, <3>3, <3>4, <3>5, <3>7
  <2>3. SameKind
    BY <2>1 DEF SameKind
  <2>4. QED
    BY <1>6, <2>1, <2>2, <2>3
<1>9. CASE AbortLoan
  <2> DEFINE s == Innermost.before
  <2>1. /\ loans # <<>> /\ loans' = Outer
        /\ reserve' = s.reserve /\ data' = s.data /\ vault' = s.vault /\ model' = s.model
    BY <1>9 DEF AbortLoan
  <2>2. Len(loans) \in DOMAIN loans
    BY <1>2, <2>1, OuterIs
  <2>3. SameKind
    <3>1. DatedAt(s)
      BY <1>1, <2>2 DEF SecuredOK, LoansOK, Innermost
    <3> HIDE DEF s
    <3>2. QED
      BY <2>1, <3>1 DEF DatedAt, SameKind
  <2>4. s \in Snapshots
    BY <1>7, <2>1
  <2>5. ASSUME NEW i \in Assets, model[i] = None
        PROVE  PlainAt(Snapshot', i) /\ Surplus(Snapshot', i) >= Surplus(s, i)
    <3>1. PlainAt(s, i)
      BY <1>7, <2>1, <2>5
    <3> HIDE DEF s
    <3>2. Surplus(Snapshot', i) = Surplus(s, i) /\ PlainAt(Snapshot', i)
      BY <2>1, <3>1 DEF Surplus, PlainAt, Snapshot
    <3>3. QED
      BY <2>4, <3>2, SurplusWhole
  <2>6. QED
    BY <1>6, <2>1, <2>3, <2>5
<1>10. CASE OutsideNext
  <2>1. loans = <<>> /\ loans' = <<>> /\ [Next]_vars
    BY <1>10 DEF OutsideNext, SetFlashLoanFee, loanVars, Next
  <2>2. StablesOK
    <3>1. Inside(0) = Snapshot
      BY <1>3, <2>1
    <3>2. ASSUME NEW i \in Assets, model[i] = None
          PROVE  /\ PlainReserve(reserve[i]) /\ vault[i] <= Margin(reserve[i])
                 /\ \A a \in Accounts : PlainPosition(data[a][i])
      <4>1. PlainAt(Snapshot, i) /\ Surplus(Snapshot, i) >= 0
        BY <3>1, <3>2 DEF CirculationOK
      <4>2. Margin(reserve[i]) \in Int /\ vault[i] \in Int
        BY <1>2, MarginNumbers DEF TypeOK
      <4>3. QED
        BY <4>1, <4>2 DEF PlainAt, Surplus, Snapshot
    <3>3. QED
      BY <1>2, <3>2 DEF StablesOK, StableBooks
  <2>3. StablesOK'
    BY <2>1, <2>2, StableStep
  <2>4. DOMAIN loans' = {} /\ Inside(0)' = Snapshot'
    BY <2>1 DEF Inside
  <2>5. ASSUME NEW i \in Assets, model'[i] = None
        PROVE  PlainAt(Snapshot', i) /\ Surplus(Snapshot', i) >= 0
    <3>1. /\ PlainReserve(reserve'[i]) /\ vault'[i] <= Margin(reserve'[i])
          /\ \A a \in Accounts : PlainPosition(data'[a][i])
      BY <2>3, <2>5 DEF StablesOK, StableBooks
    <3>2. Margin(reserve'[i]) \in Int /\ vault'[i] \in Int
      BY <2>3, MarginNumbers DEF StablesOK, TypeOK
    <3>3. QED
      BY <3>1, <3>2 DEF PlainAt, Surplus, Snapshot
  <2>6. QED
    BY <1>1, <2>4, <2>5 DEF CirculationOK, PlainAt, Surplus
<1>11. CASE UNCHANGED allVars
  <2>1. UNCHANGED <<reserve, data, vault, model, loans>>
    BY <1>11 DEF allVars, tokenVars, loanVars, vars, book, setup
  <2>2. SameKind /\ Len(loans') = Len(loans) /\ Len(loans) \in 0 .. Len(loans)
    BY <1>3, <2>1 DEF SameKind
  <2>3. ASSUME NEW i \in Assets, model[i] = None
        PROVE  PlainAt(Snapshot', i) /\ Surplus(Snapshot', i) >= Surplus(Snapshot, i)
    <3>1. PlainAt(Snapshot', i) /\ Surplus(Snapshot', i) = Surplus(Snapshot, i)
      BY <2>1, <2>3 DEF CirculationOK, PlainAt, Surplus, Snapshot
    <3>2. QED
      BY <1>3, <3>1, SurplusWhole
  <2>4. QED
    BY <1>1, <1>3, <2>1, <2>2, <2>3, CirculationKept
<1>12. QED
  BY <1>4, <1>5, <1>8, <1>9, <1>10, <1>11 DEF NextAll, LoanNext

\* Whatever the receivers of flash loans do with the stablecoins that are
\* minted for them: when no loan is open, every unit that circulates, is
\* deposited or booked as a fee is owed to the pool by a borrower.
THEOREM StablecoinsThroughLoans ==
  ASSUME SafeRequests
  PROVE  SpecAll => [](loans = <<>> => StablecoinBacked)
<1>1. InitAll /\ SecuredOK => CirculationOK
  <2> SUFFICES ASSUME InitAll, SecuredOK PROVE CirculationOK
    OBVIOUS
  <2>1. Init /\ loans = <<>> /\ TypeOK
    BY DEF InitAll, InitTokens, SecuredOK, LoansOK, SystemOK
  <2>2. StableBooks
    BY <2>1, InitCovered
  <2>3. DOMAIN loans = {} /\ Inside(0) = Snapshot
    BY <2>1 DEF Inside
  <2>4. ASSUME NEW i \in Assets, model[i] = None
        PROVE  PlainAt(Snapshot, i) /\ Surplus(Snapshot, i) >= 0
    <3>1. /\ PlainReserve(reserve[i]) /\ vault[i] <= Margin(reserve[i])
          /\ \A a \in Accounts : PlainPosition(data[a][i])
      BY <2>2, <2>4 DEF StableBooks
    <3>2. Margin(reserve[i]) \in Int /\ vault[i] \in Int
      BY <2>1, MarginNumbers DEF TypeOK
    <3>3. QED
      BY <3>1, <3>2 DEF PlainAt, Surplus, Snapshot
  <2>5. QED
    BY <2>3, <2>4 DEF CirculationOK
<1>2. CirculationOK /\ [NextAll]_allVars => CirculationOK'
  BY CirculationStep
<1>3. CirculationOK => (loans = <<>> => StablecoinBacked)
  <2> SUFFICES ASSUME CirculationOK, loans = <<>>, NEW i \in Assets, model[i] = None
               PROVE  vault[i] + reserve[i].totalDeposit + reserve[i].earnedFee
                        <= reserve[i].totalDebt
    BY DEF StablecoinBacked
  <2>1. TypeOK
    BY DEF CirculationOK, SecuredOK, LoansOK, SystemOK
  <2>2. Surplus(Snapshot, i) >= 0
    BY DEF CirculationOK, Inside
  <2>3. reserve[i] \in ReserveState /\ vault[i] \in Int
    BY <2>1 DEF TypeOK
  <2>4. QED
    BY <2>2, <2>3, MarginNumbers DEF Surplus, Snapshot, Margin
<1>4. QED
  BY <1>1, <1>2, <1>3, SecuredAlways, PTL DEF SpecAll
=============================================================================
