-------------------------- MODULE LendingPoolProofs --------------------------
(***************************************************************************)
(* What holds of the lending pool for every number of accounts and assets, *)
(* every scale and every set of requests: types, the ledger, and that what *)
(* is owed can be repaid.                                                  *)
(***************************************************************************)
EXTENDS LendingPool, ReserveProofs, FiniteSetTheorems

-----------------------------------------------------------------------------
(* The sums of Tally *)

\* A holder of n has n coins.
LEMMA CoinCount ==
  ASSUME NEW a, NEW n \in Nat
  PROVE  IsFiniteSet(CoinsOf(a, n)) /\ Cardinality(CoinsOf(a, n)) = n
<1>1. IsFiniteSet({a}) /\ Cardinality({a}) = 1
  BY FS_Singleton
<1>2. IsFiniteSet(1 .. n) /\ Cardinality(1 .. n) = n
  BY FS_Interval
<1>3. /\ IsFiniteSet({a} \X (1 .. n))
      /\ Cardinality({a} \X (1 .. n)) = Cardinality({a}) * Cardinality(1 .. n)
  BY <1>1, <1>2, FS_Product, Zenon
<1>4. Cardinality({a}) * Cardinality(1 .. n) = n
  BY <1>1, <1>2
<1>5. QED
  BY <1>3, <1>4 DEF CoinsOf

\* Two disjoint piles of coins, one of them somebody's n.
LEMMA PileCount ==
  ASSUME NEW P, IsFiniteSet(P), NEW a, NEW n \in Nat, P \cap CoinsOf(a, n) = {}
  PROVE  Cardinality(P \cup CoinsOf(a, n)) = Cardinality(P) + n
<1>1. IsFiniteSet(CoinsOf(a, n)) /\ Cardinality(CoinsOf(a, n)) = n
  BY CoinCount
<1>2. Cardinality(P \cup CoinsOf(a, n))
        = Cardinality(P) + Cardinality(CoinsOf(a, n)) - Cardinality(P \cap CoinsOf(a, n))
  BY <1>1, FS_Union, Zenon
<1>3. Cardinality(P \cap CoinsOf(a, n)) = 0
  BY FS_EmptySet
<1>4. Cardinality(P) \in Nat
  BY FS_CardinalityType
<1>5. QED
  BY <1>1, <1>2, <1>3, <1>4

\* The coins of everybody but one holder are finitely many and not his.
LEMMA CoinsOfOthers ==
  ASSUME NEW S, IsFiniteSet(S), NEW f \in [S -> Nat], NEW a
  PROVE  LET others == UNION {CoinsOf(b, f[b]) : b \in S \ {a}}
         IN  IsFiniteSet(others) /\ others \cap CoinsOf(a, f[a]) = {}
<1> DEFINE R == S \ {a}
           purses == {CoinsOf(b, f[b]) : b \in R}
           g == [b \in R |-> CoinsOf(b, f[b])]
<1>1. IsFiniteSet(R)
  BY FS_RemoveElement
<1>2. g \in Surjection(R, purses)
  BY DEF Surjection
<1>3. IsFiniteSet(purses)
  BY <1>1, <1>2, FS_Surjection
<1>4. \A purse \in purses : IsFiniteSet(purse)
  BY CoinCount
<1>5. IsFiniteSet(UNION purses)
  BY <1>3, <1>4, FS_UNION
<1>6. (UNION purses) \cap CoinsOf(a, f[a]) = {}
  BY DEF CoinsOf
<1>7. QED
  BY <1>5, <1>6

\* They are finitely many.
LEMMA FiniteCoins ==
  ASSUME NEW S, IsFiniteSet(S), NEW f \in [S -> Nat]
  PROVE  IsFiniteSet(Coins(f))
<1> DEFINE purses == {CoinsOf(b, f[b]) : b \in S}
           g == [b \in S |-> CoinsOf(b, f[b])]
<1>1. g \in Surjection(S, purses)
  BY DEF Surjection
<1>2. IsFiniteSet(purses)
  BY <1>1, FS_Surjection
<1>3. \A purse \in purses : IsFiniteSet(purse)
  BY CoinCount
<1>4. IsFiniteSet(UNION purses)
  BY <1>2, <1>3, FS_UNION
<1>5. Coins(f) = UNION purses
  BY DEF Coins
<1>6. QED
  BY <1>4, <1>5

\* The sum of finitely many numbers is a number.
LEMMA TotalIsNumber ==
  ASSUME NEW S, IsFiniteSet(S), NEW f \in [S -> Nat]
  PROVE  Total(f) \in Nat
BY FiniteCoins, FS_CardinalityType DEF Total

\* Changing one balance changes the sum by as much.
LEMMA TotalAfterOne ==
  ASSUME NEW S, IsFiniteSet(S), NEW f \in [S -> Nat], NEW g \in [S -> Nat],
         NEW a \in S, \A e \in S \ {a} : g[e] = f[e]
  PROVE  Total(g) = Total(f) - f[a] + g[a]
<1> DEFINE others == UNION {CoinsOf(b, f[b]) : b \in S \ {a}}
<1>1. /\ IsFiniteSet(others)
      /\ others \cap CoinsOf(a, f[a]) = {}
      /\ others \cap CoinsOf(a, g[a]) = {}
  <2>1. IsFiniteSet(others) /\ others \cap CoinsOf(a, f[a]) = {}
    BY CoinsOfOthers
  <2>2. others \cap CoinsOf(a, g[a]) = {}
    BY DEF CoinsOf
  <2>3. QED
    BY <2>1, <2>2
<1>2. Coins(f) = others \cup CoinsOf(a, f[a])
  BY DEF Coins
<1>3. Coins(g) = others \cup CoinsOf(a, g[a])
  BY DEF Coins
<1>4. Cardinality(others) \in Nat
  BY <1>1, FS_CardinalityType
<1>5. Total(f) = Cardinality(others) + f[a]
  BY <1>1, <1>2, PileCount DEF Total
<1>6. Total(g) = Cardinality(others) + g[a]
  BY <1>1, <1>3, PileCount DEF Total
<1>7. QED
  BY <1>4, <1>5, <1>6

\* Changing two balances changes the sum by both changes.
LEMMA TotalAfterTwo ==
  ASSUME NEW S, IsFiniteSet(S), NEW f \in [S -> Nat], NEW g \in [S -> Nat],
         NEW a \in S, NEW b \in S, a # b, \A e \in S \ {a, b} : g[e] = f[e]
  PROVE  Total(g) = Total(f) - f[a] + g[a] - f[b] + g[b]
<1> DEFINE h == [e \in S |-> IF e = a THEN g[e] ELSE f[e]]
<1>1. /\ h \in [S -> Nat] /\ h[a] = g[a] /\ h[b] = f[b]
      /\ \A e \in S \ {a} : h[e] = f[e]
      /\ \A e \in S \ {b} : g[e] = h[e]
  OBVIOUS
<1> HIDE DEF h
<1>2. Total(h) = Total(f) - f[a] + h[a]
  BY <1>1, TotalAfterOne
<1>3. Total(g) = Total(h) - h[b] + g[b]
  BY <1>1, TotalAfterOne
<1>4. Total(f) \in Int /\ f[a] \in Int /\ f[b] \in Int /\ g[a] \in Int /\ g[b] \in Int
  BY TotalIsNumber
<1>5. QED
  BY <1>1, <1>2, <1>3, <1>4

\* A number has one quotient and one remainder.
LEMMA OnePlace ==
  ASSUME NEW K \in Nat, NEW c \in Nat, NEW d \in Nat, NEW j \in Nat, NEW k \in Nat,
         j < K, k < K, c * K + j = d * K + k
  PROVE  c = d /\ j = k
<1>1. ASSUME NEW a \in Nat, NEW b \in Nat, a < b PROVE a * K + K <= b * K
  <2> DEFINE t == b - a - 1
  <2>1. t \in Nat /\ b = a + 1 + t
    BY <1>1
  <2> HIDE DEF t
  <2>2. (a + 1 + t) * K = a * K + K + t * K /\ a * K \in Nat /\ t * K \in Nat
    BY <2>1
  <2>3. QED
    BY <2>1, <2>2
<1> DEFINE x == c * K  y == d * K
<1>2. x \in Nat /\ y \in Nat /\ x + j = y + k /\ (c < d => x + K <= y) /\ (d < c => y + K <= x)
      /\ (c = d => x = y)
  BY <1>1
<1> HIDE DEF x, y
<1>3. c = d
  BY <1>2
<1>4. QED
  BY <1>2, <1>3

\* The place of the j-th part of the c-th coin when each has K parts.
LEMMA PlaceBound ==
  ASSUME NEW K \in Nat, NEW n \in Nat, NEW c \in 1 .. n, NEW j \in 1 .. K
  PROVE  (c - 1) * K + (j - 1) \in 0 .. n * K - 1
<1> DEFINE t == n - c
           b == c - 1
<1>1. t \in Nat /\ b \in Nat /\ n = t + b + 1
  OBVIOUS
<1> HIDE DEF t, b
<1>2. (t + b + 1) * K = t * K + b * K + K /\ t * K \in Nat /\ b * K \in Nat
  BY <1>1
<1>3. b * K + (j - 1) \in 0 .. n * K - 1
  BY <1>1, <1>2
<1>4. QED
  BY <1>3 DEF b

LEMMA PartBound ==
  ASSUME NEW M \in Nat \ {0}, NEW n \in Nat, NEW p \in 0 .. n * M - 1
  PROVE  /\ p \div M + 1 \in 1 .. n /\ (p % M) + 1 \in 1 .. M
         /\ p = (p \div M) * M + (p % M)
<1> DEFINE q == p \div M
           r == p % M
<1>1. p \in Nat /\ q \in Nat /\ r \in 0 .. M - 1 /\ p = q * M + r
  <2>1. p \in Nat
    OBVIOUS
  <2> HIDE DEF q, r
  <2>2. QED
    BY <2>1, Z3 DEF q, r
<1> HIDE DEF q, r
<1>2. ASSUME n <= q PROVE FALSE
  <2> DEFINE t == q - n
  <2>1. t \in Nat /\ q = n + t
    BY <1>1, <1>2
  <2> HIDE DEF t
  <2>2. (n + t) * M = n * M + t * M /\ n * M \in Nat /\ t * M \in Nat
    BY <2>1
  <2>3. QED
    BY <1>1, <2>1, <2>2
<1>3. q + 1 \in 1 .. n /\ r + 1 \in 1 .. M
  BY <1>1, <1>2
<1>4. QED
  BY <1>1, <1>3 DEF q, r

\* When K times what everybody has is at most M times what he has there, so it
\* is of the sums: each of the K parts of a coin finds a place of its own in
\* the M parts of the coins there.
LEMMA TotalsCompare ==
  ASSUME NEW S, IsFiniteSet(S), NEW f \in [S -> Nat], NEW g \in [S -> Nat],
         NEW K \in Nat, NEW M \in Nat \ {0}, \A a \in S : f[a] * K <= g[a] * M
  PROVE  Total(f) * K <= Total(g) * M
<1> DEFINE X == Coins(f) \X (1 .. K)
           Y == Coins(g) \X (1 .. M)
           place(p) == (p[1][2] - 1) * K + (p[2] - 1)
           h == [p \in X |-> << <<p[1][1], place(p) \div M + 1>>, (place(p) % M) + 1 >>]
<1>1. ASSUME NEW p \in X
      PROVE  /\ p[1][1] \in S /\ p[1][2] \in 1 .. f[p[1][1]] /\ p[2] \in 1 .. K
             /\ p[1] = <<p[1][1], p[1][2]>> /\ p = <<p[1], p[2]>>
  BY DEF Coins, CoinsOf
<1>2. ASSUME NEW p \in X
      PROVE  place(p) \in 0 .. g[p[1][1]] * M - 1
  <2> DEFINE a == p[1][1]
  <2>1. a \in S /\ f[a] \in Nat /\ g[a] \in Nat /\ f[a] * K <= g[a] * M
    BY <1>1
  <2>2. place(p) \in 0 .. f[a] * K - 1
    BY <1>1, <2>1, PlaceBound
  <2> DEFINE x == f[a] * K  y == g[a] * M
  <2>3. x \in Nat /\ y \in Nat /\ x <= y
    BY <2>1
  <2> HIDE DEF place
  <2>4. place(p) \in 0 .. x - 1
    BY <2>2
  <2> HIDE DEF x, y
  <2>5. place(p) \in 0 .. y - 1
    BY <2>3, <2>4
  <2>6. QED
    BY <2>5 DEF y
<1>3. ASSUME NEW p \in X
      PROVE  /\ place(p) \div M + 1 \in 1 .. g[p[1][1]] /\ (place(p) % M) + 1 \in 1 .. M
             /\ place(p) = (place(p) \div M) * M + (place(p) % M)
  <2>1. g[p[1][1]] \in Nat
    BY <1>1
  <2> HIDE DEF place
  <2>2. QED
    BY <1>2, <2>1, PartBound
<1>4. h \in [X -> Y]
  <2>1. ASSUME NEW p \in X PROVE h[p] \in Y
    <3>1. <<p[1][1], place(p) \div M + 1>> \in Coins(g)
      <4> HIDE DEF place
      <4>1. QED
        BY <1>1, <1>3 DEF Coins, CoinsOf
    <3> HIDE DEF place
    <3>2. QED
      BY <1>3, <3>1
  <2>2. QED
    BY <2>1
<1>5. ASSUME NEW p \in X, NEW q \in X, h[p] = h[q] PROVE p = q
  <2>1. /\ p[1][1] = q[1][1] /\ place(p) \div M + 1 = place(q) \div M + 1
        /\ (place(p) % M) + 1 = (place(q) % M) + 1
    <3> HIDE DEF place
    <3>1. QED
      BY <1>5
  <2>2. place(p) = place(q)
    <3> DEFINE u == place(p) \div M  v == place(q) \div M
               x == place(p) % M  y == place(q) % M
    <3>1. place(p) = u * M + x /\ place(q) = v * M + y
      BY <1>3
    <3>2. u \in Int /\ v \in Int /\ x \in Int /\ y \in Int
      <4>1. place(p) \in Int /\ place(q) \in Int
        BY <1>2
      <4> HIDE DEF place
      <4>2. QED
        BY <4>1
    <3>3. u + 1 = v + 1 /\ x + 1 = y + 1
      BY <2>1
    <3> HIDE DEF u, v, x, y, place
    <3>4. u = v /\ x = y
      BY <3>2, <3>3
    <3>5. QED
      BY <3>1, <3>4
  <2>3. p[1][2] - 1 = q[1][2] - 1 /\ p[2] - 1 = q[2] - 1
    <3> DEFINE c == p[1][2] - 1  d == q[1][2] - 1  j == p[2] - 1  k == q[2] - 1
    <3>1. c \in Nat /\ d \in Nat /\ j \in Nat /\ k \in Nat /\ j < K /\ k < K
      BY <1>1
    <3>2. c * K + j = d * K + k
      BY <2>2
    <3> HIDE DEF c, d, j, k
    <3>3. c = d /\ j = k
      BY <3>1, <3>2, OnePlace
    <3>4. QED
      BY <3>3 DEF c, d, j, k
  <2>4. p[1][2] = q[1][2] /\ p[2] = q[2]
    BY <1>1, <2>3
  <2>5. QED
    BY <1>1, <2>1, <2>4
<1>6. /\ IsFiniteSet(Coins(f)) /\ IsFiniteSet(Coins(g))
      /\ IsFiniteSet(1 .. K) /\ Cardinality(1 .. K) = K
      /\ IsFiniteSet(1 .. M) /\ Cardinality(1 .. M) = M
  <2>1. IsFiniteSet(Coins(f)) /\ IsFiniteSet(Coins(g))
    BY FiniteCoins
  <2>2. \A n \in Nat : IsFiniteSet(1 .. n) /\ Cardinality(1 .. n) = n
    BY FS_Interval
  <2> HIDE DEF X, Y, h
  <2>3. QED
    BY <2>1, <2>2
<1>7. /\ IsFiniteSet(X) /\ Cardinality(X) = Total(f) * K
      /\ IsFiniteSet(Y) /\ Cardinality(Y) = Total(g) * M
  BY <1>6, FS_Product DEF Total
<1>8. h \in Injection(X, Y)
  <2>1. \A p, q \in X : h[p] = h[q] => p = q
    BY <1>5
  <2> HIDE DEF X, Y, h
  <2>2. QED
    BY <1>4, <2>1 DEF Injection, IsInjective
<1> HIDE DEF X, Y, h
<1>9. Cardinality(X) <= Cardinality(Y)
  BY <1>7, <1>8, FS_Injection
<1>10. QED
  BY <1>7, <1>9

\* Nobody has anything: the sum is zero.
LEMMA TotalOfNothing ==
  ASSUME NEW S
  PROVE  Total([a \in S |-> 0]) = 0
<1>1. Coins([a \in S |-> 0]) = {}
  BY DEF Coins, CoinsOf
<1>2. QED
  BY <1>1, FS_EmptySet DEF Total

-----------------------------------------------------------------------------
(* The pool *)

RuleIds == 0 .. Len(rules) - 1

VaultOK(v) == v \in [Assets -> Int] /\ \A i \in Assets : v[i] \in 0 .. Supply[i]

\* The reserves rs and the entries ds of account a differ from the stored ones
\* by the same amounts.
SameOthers(rs, ds, a) ==
  \A i \in Assets :
    /\ rs[i].totalDeposit - ds[i].deposit = reserve[i].totalDeposit - data[a][i].deposit
    /\ rs[i].totalDebt - ds[i].debt = reserve[i].totalDebt - data[a][i].debt

\* What every step of a session of account a keeps.
SessionOK(s, a) ==
  /\ s.ok \in BOOLEAN
  /\ s.reserve \in [Assets -> ReserveState]
  /\ s.data \in [Assets -> PositionState]
  /\ s.config \in ConfigState(Assets, RuleIds)
  /\ s.ok => VaultOK(s.vault)
  /\ SameOthers(s.reserve, s.data, a)

-----------------------------------------------------------------------------
\* Opening and closing a reserve keeps contexts good.
LEMMA OpenGood ==
  ASSUME now \in Nat, NEW r \in ReserveState, NEW d \in PositionState,
         NEW c \in ConfigState(Assets, RuleIds)
  PROVE  /\ Open(r, d, c) \in Contexts(Assets, RuleIds)
         /\ Keeps(Context(r, d, c), Open(r, d, c))
<1> DEFINE x == Context(r, d, c)
           y == Context(Updated(r, now), d, c)
<1>1. x \in Contexts(Assets, RuleIds)
  BY DEF Context, Contexts
<1>2. ASSUME CanUpdate(r, now) PROVE y \in Contexts(Assets, RuleIds) /\ Keeps(x, y)
  <2>1. /\ Updated(r, now) \in ReserveState
        /\ Updated(r, now).totalDeposit = r.totalDeposit
        /\ Updated(r, now).totalDebt = r.totalDebt
    BY <1>2, UpdatedGood
  <2>2. QED
    BY <2>1 DEF Context, Contexts, Keeps
<1>3. Open(r, d, c) = Try(x, CanUpdate(r, now), y)
  BY DEF Open
<1> HIDE DEF x, y
<1>4. Open(r, d, c) \in Contexts(Assets, RuleIds) /\ Keeps(x, Open(r, d, c))
  BY <1>1, <1>2, <1>3, TryGood
<1>5. QED
  BY <1>4 DEF x

LEMMA CloseGood ==
  ASSUME NEW R, NEW x \in Contexts(Assets, R), NEW i \in Assets
  PROVE  Close(x, i) \in Contexts(Assets, R) /\ Keeps(x, Close(x, i))
<1> DEFINE r == Rerated(x.r, model[i])
           y == [x EXCEPT !.r = r]
<1>1. ASSUME CanRerate(x.r, model[i]) PROVE y \in Contexts(Assets, R) /\ Keeps(x, y)
  <2>1. x.r \in ReserveState
    BY DEF Contexts
  <2>2. r \in ReserveState /\ r.totalDeposit = x.r.totalDeposit /\ r.totalDebt = x.r.totalDebt
    BY <1>1, <2>1, ReratedGood
  <2> HIDE DEF r
  <2>3. y.ok = x.ok /\ y.d = x.d /\ y.r = r /\ y \in Contexts(Assets, R)
    BY <2>2 DEF Contexts
  <2>4. QED
    BY <2>2, <2>3 DEF Keeps
<1>2. Close(x, i) = Try(x, CanRerate(x.r, model[i]), y)
  BY DEF Close
<1> HIDE DEF r, y
<1>3. QED
  BY <1>1, <1>2, TryGood

-----------------------------------------------------------------------------
(* deposit, withdraw, borrow, repay, multi_op *)

LEMMA AccountGood ==
  ASSUME NEW R, NEW x \in Contexts(Assets, R), NEW act \in ActionState, NEW cut
  PROVE  Account(x, act, cut) \in Contexts(Assets, R) /\ Keeps(x, Account(x, act, cut))
<1>1. act.asset \in Assets /\ act.amount \in Int /\ act.op \in Operations
  BY DEF ActionState
<1>2. CASE act.op = "Deposit"
  <2>1. Account(x, act, cut) = AccountForDeposit(x, act.asset, act.amount, cut, limits[act.asset])
    BY <1>2 DEF Account
  <2>2. QED
    BY <1>1, <2>1, AccountForDepositGood
<1>3. CASE act.op = "Withdraw"
  <2>1. Account(x, act, cut)
          = AccountForWithdraw(x, act.asset, act.amount, TRUE, cut, limits[act.asset])
    BY <1>3 DEF Account
  <2>2. ASSUME NEW clamp
        PROVE  LET w == AccountForWithdraw(x, act.asset, act.amount, clamp, cut, limits[act.asset])
               IN  w \in Contexts(Assets, R) /\ Keeps(x, w)
    BY <1>1, AccountForWithdrawGood
  <2>3. QED
    BY <2>1, <2>2, Zenon
<1>4. CASE act.op = "Borrow"
  <2>1. Account(x, act, cut) = AccountForBorrow(x, act.asset, act.amount, cut, limits[act.asset])
    BY <1>4 DEF Account
  <2>2. QED
    BY <1>1, <2>1, AccountForBorrowGood
<1>5. CASE act.op = "Repay"
  <2>1. Account(x, act, cut)
          = AccountForRepay(x, act.asset, act.amount, TRUE, cut, limits[act.asset])
    BY <1>5 DEF Account
  <2>2. ASSUME NEW clamp
        PROVE  LET w == AccountForRepay(x, act.asset, act.amount, clamp, cut, limits[act.asset])
               IN  w \in Contexts(Assets, R) /\ Keeps(x, w)
    BY <1>1, AccountForRepayGood
  <2>3. QED
    BY <2>1, <2>2, Zenon
<1>6. QED
  BY <1>1, <1>2, <1>3, <1>4, <1>5 DEF Operations

LEMMA SessionGood ==
  ASSUME TypeOK, NEW a \in Accounts
  PROVE  SessionOK(Session(a), a)
<1>1. config[a] \in ConfigState(Assets, RuleIds)
  BY DEF TypeOK, ConfigState, RuleIds
<1>2. QED
  BY <1>1 DEF TypeOK, Session, SessionOK, SameOthers, VaultOK

LEMMA StepGood ==
  ASSUME TypeOK, NEW a \in Accounts, NEW s, SessionOK(s, a), NEW act \in ActionState
  PROVE  SessionOK(Step(s, a, act), a)
<1> DEFINE i == act.asset
           c0 == Context(s.reserve[i], s.data[i], s.config)
           x == Open(s.reserve[i], s.data[i], s.config)
           z == Account(x, act, FeeReduction[a])
           y == Close(z, i)
           v == VaultAfter(s.vault[i], x, act, FeeReduction[a])
<1>1. i \in Assets
  BY DEF ActionState
<1>2. x \in Contexts(Assets, RuleIds) /\ Keeps(c0, x)
  BY <1>1, OpenGood DEF SessionOK, TypeOK
<1>3. z \in Contexts(Assets, RuleIds) /\ Keeps(x, z)
  BY <1>2, AccountGood
<1>4. y \in Contexts(Assets, RuleIds) /\ Keeps(z, y)
  BY <1>1, <1>3, CloseGood
<1>5. Keeps(c0, y)
  BY <1>2, <1>3, <1>4, KeepsTransitive
<1> DEFINE t == Step(s, a, act)
<1>6. /\ t.ok = (s.ok /\ y.ok /\ Possible(i, v))
      /\ t.reserve = [s.reserve EXCEPT ![i] = y.r]
      /\ t.data = [s.data EXCEPT ![i] = y.d]
      /\ t.config = y.c
      /\ t.vault = [s.vault EXCEPT ![i] = v]
  BY DEF Step, After
<1> HIDE DEF i, x, y, z, v, t
<1>7. /\ t.reserve \in [Assets -> ReserveState]
      /\ t.data \in [Assets -> PositionState]
      /\ t.config \in ConfigState(Assets, RuleIds)
  BY <1>1, <1>4, <1>6 DEF SessionOK, Contexts
<1>8. /\ t.ok \in BOOLEAN
  BY <1>6
<1>9. ASSUME t.ok PROVE VaultOK(t.vault)
  <2>1. Supply[i] \in Int
    BY <1>1, PoolAssumption, ScaleAssumption DEF U128
  <2>2. s.ok /\ Possible(i, v)
    BY <1>6, <1>9, Zenon
  <2>3. v \in 0 .. Supply[i] /\ v \in Int
    BY <2>1, <2>2 DEF Possible
  <2>4. QED
    BY <1>1, <1>6, <2>2, <2>3 DEF SessionOK, VaultOK
<1>10. SameOthers(t.reserve, t.data, a)
  <2>1. /\ y.r.totalDeposit - y.d.deposit = s.reserve[i].totalDeposit - s.data[i].deposit
        /\ y.r.totalDebt - y.d.debt = s.reserve[i].totalDebt - s.data[i].debt
    BY <1>5 DEF Keeps, Context
  <2>2. /\ t.reserve[i] = y.r /\ t.data[i] = y.d
        /\ \A j \in Assets \ {i} : t.reserve[j] = s.reserve[j] /\ t.data[j] = s.data[j]
    BY <1>1, <1>6 DEF SessionOK
  <2>3. QED
    BY <2>1, <2>2 DEF SessionOK, SameOthers
<1>11. QED
  BY <1>7, <1>8, <1>9, <1>10 DEF SessionOK, t

-----------------------------------------------------------------------------
(* What a message does to the ledger *)

\* Only account a's entries change, and the totals by as much.
OneMoves(a) ==
  /\ \A b \in Accounts \ {a} : data'[b] = data[b]
  /\ SameOthers(reserve', data'[a], a)

\* The reserve moves from r0 to r1 as one position moves from d0 to d1.
Follows(r0, r1, d0, d1) ==
  /\ r1.totalDeposit - d1.deposit = r0.totalDeposit - d0.deposit
  /\ r1.totalDebt - d1.debt = r0.totalDebt - d0.debt

\* The same with two positions.
FollowsBoth(r0, r1, d0, d1, e0, e1) ==
  /\ r1.totalDeposit = r0.totalDeposit + (d1.deposit - d0.deposit) + (e1.deposit - e0.deposit)
  /\ r1.totalDebt = r0.totalDebt + (d1.debt - d0.debt) + (e1.debt - e0.debt)

\* Only the entries of f and t change, and the totals by the sum.
TwoMove(f, t) ==
  /\ f # t
  /\ \A b \in Accounts \ {f, t} : data'[b] = data[b]
  /\ \A i \in Assets : FollowsBoth(reserve[i], reserve'[i], data[f][i], data'[f][i],
                                  data[t][i], data'[t][i])

\* The balances of an asset as functions to numbers, before and after a step.
LEMMA BalancesAreNumbers ==
  ASSUME TypeOK, TypeOK', NEW i \in Assets
  PROVE  /\ DepositsOf(i) \in [Accounts -> Nat] /\ DepositsOf(i)' \in [Accounts -> Nat]
         /\ DebtsOf(i) \in [Accounts -> Nat] /\ DebtsOf(i)' \in [Accounts -> Nat]
         /\ reserve[i].totalDeposit \in Int /\ reserve[i].totalDebt \in Int
         /\ reserve'[i].totalDeposit \in Int /\ reserve'[i].totalDebt \in Int
<1>1. U128 \subseteq Nat /\ U128 \subseteq Int
  BY ScaleAssumption DEF U128
<1>2. \A a \in Accounts : /\ data[a][i].deposit \in Nat /\ data'[a][i].deposit \in Nat
                          /\ data[a][i].debt \in Nat /\ data'[a][i].debt \in Nat
  BY <1>1 DEF TypeOK, PositionState
<1>3. /\ reserve[i].totalDeposit \in Int /\ reserve[i].totalDebt \in Int
      /\ reserve'[i].totalDeposit \in Int /\ reserve'[i].totalDebt \in Int
  <2>1. reserve[i] \in ReserveState /\ reserve'[i] \in ReserveState
    BY DEF TypeOK
  <2>2. ASSUME NEW r \in ReserveState PROVE r.totalDeposit \in Int /\ r.totalDebt \in Int
    <3>1. r.totalDeposit \in U128 /\ r.totalDebt \in U128
      BY DEF ReserveState
    <3>2. QED
      BY <1>1, <3>1, Zenon
  <2>3. QED
    BY <2>1, <2>2
<1>4. QED
  BY <1>2, <1>3 DEF DepositsOf, DebtsOf

LEMMA OneMovesLedger ==
  ASSUME TypeOK, TypeOK', LedgerBalanced, NEW a \in Accounts, OneMoves(a)
  PROVE  LedgerBalanced'
<1> SUFFICES ASSUME NEW i \in Assets
             PROVE  /\ Total(DepositsOf(i)') = reserve'[i].totalDeposit
                    /\ Total(DebtsOf(i)') = reserve'[i].totalDebt
  BY DEF LedgerBalanced
<1> DEFINE f == DepositsOf(i)
           g == DebtsOf(i)
           f1 == DepositsOf(i)'
           g1 == DebtsOf(i)'
<1>1. /\ f \in [Accounts -> Nat] /\ f1 \in [Accounts -> Nat]
      /\ g \in [Accounts -> Nat] /\ g1 \in [Accounts -> Nat]
      /\ reserve[i].totalDeposit \in Int /\ reserve[i].totalDebt \in Int
      /\ reserve'[i].totalDeposit \in Int /\ reserve'[i].totalDebt \in Int
  BY BalancesAreNumbers
<1>2. \A e \in Accounts \ {a} : f1[e] = f[e] /\ g1[e] = g[e]
  BY DEF OneMoves, DepositsOf, DebtsOf
<1>3. /\ f[a] = data[a][i].deposit /\ f1[a] = data'[a][i].deposit
      /\ g[a] = data[a][i].debt /\ g1[a] = data'[a][i].debt
  BY DEF DepositsOf, DebtsOf
<1>4. Total(f) = reserve[i].totalDeposit /\ Total(g) = reserve[i].totalDebt
  BY DEF LedgerBalanced
<1>5. /\ reserve'[i].totalDeposit - f1[a] = reserve[i].totalDeposit - f[a]
      /\ reserve'[i].totalDebt - g1[a] = reserve[i].totalDebt - g[a]
  BY <1>3 DEF OneMoves, SameOthers
<1> HIDE DEF f, g, f1, g1
<1>6. Total(f1) = Total(f) - f[a] + f1[a] /\ Total(g1) = Total(g) - g[a] + g1[a]
  <2>1. IsFiniteSet(Accounts)
    BY PoolAssumption
  <2>2. Total(f1) = Total(f) - f[a] + f1[a]
    BY <1>1, <1>2, <2>1, TotalAfterOne
  <2>3. Total(g1) = Total(g) - g[a] + g1[a]
    BY <1>1, <1>2, <2>1, TotalAfterOne
  <2>4. QED
    BY <2>2, <2>3
<1>7. f[a] \in Int /\ f1[a] \in Int /\ g[a] \in Int /\ g1[a] \in Int
  BY <1>1
<1>8. Total(f1) = reserve'[i].totalDeposit /\ Total(g1) = reserve'[i].totalDebt
  BY <1>1, <1>4, <1>5, <1>6, <1>7
<1>9. QED
  BY <1>8 DEF f1, g1

LEMMA TwoMoveLedger ==
  ASSUME TypeOK, TypeOK', LedgerBalanced, NEW a \in Accounts, NEW b \in Accounts, TwoMove(a, b)
  PROVE  LedgerBalanced'
<1> SUFFICES ASSUME NEW i \in Assets
             PROVE  /\ Total(DepositsOf(i)') = reserve'[i].totalDeposit
                    /\ Total(DebtsOf(i)') = reserve'[i].totalDebt
  BY DEF LedgerBalanced
<1> DEFINE f == DepositsOf(i)
           g == DebtsOf(i)
           f1 == DepositsOf(i)'
           g1 == DebtsOf(i)'
<1>1. /\ f \in [Accounts -> Nat] /\ f1 \in [Accounts -> Nat]
      /\ g \in [Accounts -> Nat] /\ g1 \in [Accounts -> Nat]
      /\ reserve[i].totalDeposit \in Int /\ reserve[i].totalDebt \in Int
  BY BalancesAreNumbers
<1>2. \A e \in Accounts \ {a, b} : f1[e] = f[e] /\ g1[e] = g[e]
  BY DEF TwoMove, DepositsOf, DebtsOf
<1>3. /\ reserve'[i].totalDeposit = reserve[i].totalDeposit + (f1[a] - f[a]) + (f1[b] - f[b])
      /\ reserve'[i].totalDebt = reserve[i].totalDebt + (g1[a] - g[a]) + (g1[b] - g[b])
  BY DEF TwoMove, FollowsBoth, DepositsOf, DebtsOf
<1>4. Total(f) = reserve[i].totalDeposit /\ Total(g) = reserve[i].totalDebt
  BY DEF LedgerBalanced
<1>5. a # b
  BY DEF TwoMove
<1> HIDE DEF f, g, f1, g1
<1>6. /\ Total(f1) = Total(f) - f[a] + f1[a] - f[b] + f1[b]
      /\ Total(g1) = Total(g) - g[a] + g1[a] - g[b] + g1[b]
  <2>1. IsFiniteSet(Accounts)
    BY PoolAssumption
  <2>2. Total(f1) = Total(f) - f[a] + f1[a] - f[b] + f1[b]
    BY <1>1, <1>2, <1>5, <2>1, TotalAfterTwo
  <2>3. Total(g1) = Total(g) - g[a] + g1[a] - g[b] + g1[b]
    BY <1>1, <1>2, <1>5, <2>1, TotalAfterTwo
  <2>4. QED
    BY <2>2, <2>3
<1>7. /\ f[a] \in Int /\ f1[a] \in Int /\ g[a] \in Int /\ g1[a] \in Int
      /\ f[b] \in Int /\ f1[b] \in Int /\ g[b] \in Int /\ g1[b] \in Int
  BY <1>1
<1>8. Total(f1) = reserve'[i].totalDeposit /\ Total(g1) = reserve'[i].totalDebt
  BY <1>1, <1>3, <1>4, <1>6, <1>7
<1>9. QED
  BY <1>8 DEF f1, g1

LEMMA CommitGood ==
  ASSUME TypeOK, NEW a \in Accounts, NEW s, SessionOK(s, a), Commit(s, a)
  PROVE  TypeOK' /\ OneMoves(a)
<1>1. /\ s.reserve \in [Assets -> ReserveState] /\ s.data \in [Assets -> PositionState]
      /\ s.config \in ConfigState(Assets, RuleIds) /\ VaultOK(s.vault)
      /\ SameOthers(s.reserve, s.data, a)
  BY DEF SessionOK, Commit
<1>2. /\ reserve' = s.reserve /\ data' = [data EXCEPT ![a] = s.data]
      /\ config' = [config EXCEPT ![a] = s.config] /\ vault' = s.vault
      /\ UNCHANGED <<now, limits, model, rules, price>>
  BY DEF Commit, setup
<1>3. data' \in [Accounts -> [Assets -> PositionState]] /\ data'[a] = s.data
  BY <1>1, <1>2 DEF TypeOK
<1>4. /\ config' \in [Accounts -> ConfigState(Assets, Nat)]
      /\ \A b \in Accounts : config'[b].rule < Len(rules)
  BY <1>1, <1>2 DEF TypeOK, ConfigState, RuleIds
<1>5. TypeOK'
  BY <1>1, <1>2, <1>3, <1>4 DEF TypeOK, VaultOK
<1>6. OneMoves(a)
  BY <1>1, <1>2, <1>3 DEF OneMoves, TypeOK, SameOthers
<1>7. QED
  BY <1>5, <1>6

-----------------------------------------------------------------------------
(* transfers of aTokens and vTokens *)

\* The entries a message with two accounts writes are of the right types.
LEMMA BookTyped ==
  ASSUME TypeOK, reserve' \in [Assets -> ReserveState],
         data' \in [Accounts -> [Assets -> PositionState]],
         config' \in [Accounts -> ConfigState(Assets, RuleIds)],
         VaultOK(vault'), UNCHANGED <<now, setup, price>>
  PROVE  TypeOK'
<1>1. /\ config' \in [Accounts -> ConfigState(Assets, Nat)]
      /\ \A b \in Accounts : config'[b].rule < Len(rules)
  BY DEF TypeOK, ConfigState, RuleIds
<1>2. QED
  BY <1>1 DEF TypeOK, VaultOK, setup

LEMMA ConfigsTyped ==
  ASSUME TypeOK
  PROVE  config \in [Accounts -> ConfigState(Assets, RuleIds)]
BY DEF TypeOK, ConfigState, RuleIds

LEMMA InsertedTyped ==
  ASSUME NEW ds \in [Assets -> PositionState], NEW i \in Assets, NEW d \in PositionState
  PROVE  /\ Inserted(ds, i, d) \in [Assets -> PositionState]
         /\ i = NumAssets - 1 => Inserted(ds, i, d) = [ds EXCEPT ![i] = d]
<1>1. ASSUME NEW j \in Assets, j > i PROVE j - 1 \in Assets
  BY <1>1, PoolAssumption DEF Assets
<1>2. Inserted(ds, i, d) \in [Assets -> PositionState]
  <2>1. \A j \in Assets : j < i \/ j = i \/ j > i
    BY PoolAssumption DEF Assets
  <2>2. QED
    BY <1>1, <2>1 DEF Inserted
<1>3. ASSUME i = NumAssets - 1 PROVE Inserted(ds, i, d) = [ds EXCEPT ![i] = d]
  <2>1. \A j \in Assets : j # i => j < i
    BY <1>3, PoolAssumption DEF Assets
  <2>2. ASSUME NEW j \in Assets
        PROVE  (IF j < i THEN ds[j] ELSE IF j = i THEN d ELSE ds[j - 1])
                 = (IF j = i THEN d ELSE ds[j])
    <3>1. j = i => ~(j < i)
      BY PoolAssumption DEF Assets
    <3>2. QED
      BY <2>1, <3>1, Zenon
  <2>3. [ds EXCEPT ![i] = d] = [j \in Assets |-> IF j = i THEN d ELSE ds[j]]
    OBVIOUS
  <2>4. QED
    BY <2>2, <2>3, Zenon DEF Inserted
<1>4. QED
  BY <1>2, <1>3

\* A reserve that follows one position and then another follows both.
LEMMA OneThenTheOther ==
  ASSUME NEW r0 \in ReserveState, NEW r1 \in ReserveState, NEW r2 \in ReserveState,
         NEW d0 \in PositionState, NEW d1 \in PositionState,
         NEW e0 \in PositionState, NEW e1 \in PositionState,
         Follows(r0, r1, d0, d1), Follows(r1, r2, e0, e1)
  PROVE  FollowsBoth(r0, r2, d0, d1, e0, e1)
<1>1. U128 \subseteq Int
  BY ScaleAssumption DEF U128
<1>2. /\ r0.totalDeposit \in U128 /\ r1.totalDeposit \in U128 /\ r2.totalDeposit \in U128
      /\ r0.totalDebt \in U128 /\ r1.totalDebt \in U128 /\ r2.totalDebt \in U128
  BY DEF ReserveState
<1>3. /\ d0.deposit \in U128 /\ d1.deposit \in U128 /\ e0.deposit \in U128 /\ e1.deposit \in U128
      /\ d0.debt \in U128 /\ d1.debt \in U128 /\ e0.debt \in U128 /\ e1.debt \in U128
  BY DEF PositionState
<1>4. /\ r0.totalDeposit \in Int /\ r1.totalDeposit \in Int /\ r2.totalDeposit \in Int
      /\ d0.deposit \in Int /\ d1.deposit \in Int /\ e0.deposit \in Int /\ e1.deposit \in Int
  BY <1>1, <1>2, <1>3
<1>5. /\ r0.totalDebt \in Int /\ r1.totalDebt \in Int /\ r2.totalDebt \in Int
      /\ d0.debt \in Int /\ d1.debt \in Int /\ e0.debt \in Int /\ e1.debt \in Int
  BY <1>1, <1>2, <1>3
<1>6. r2.totalDeposit = r0.totalDeposit + (d1.deposit - d0.deposit) + (e1.deposit - e0.deposit)
  <2> DEFINE x0 == r0.totalDeposit  x1 == r1.totalDeposit  x2 == r2.totalDeposit
             p0 == d0.deposit  p1 == d1.deposit  q0 == e0.deposit  q1 == e1.deposit
  <2>1. x1 - p1 = x0 - p0 /\ x2 - q1 = x1 - q0
    BY DEF Follows
  <2>2. x0 \in Int /\ x1 \in Int /\ x2 \in Int /\ p0 \in Int /\ p1 \in Int /\ q0 \in Int /\ q1 \in Int
    BY <1>4
  <2> HIDE DEF x0, x1, x2, p0, p1, q0, q1
  <2>3. x2 = x0 + (p1 - p0) + (q1 - q0)
    BY <2>1, <2>2
  <2>4. QED
    BY <2>3 DEF x0, x2, p0, p1, q0, q1
<1>7. r2.totalDebt = r0.totalDebt + (d1.debt - d0.debt) + (e1.debt - e0.debt)
  <2> DEFINE x0 == r0.totalDebt  x1 == r1.totalDebt  x2 == r2.totalDebt
             p0 == d0.debt  p1 == d1.debt  q0 == e0.debt  q1 == e1.debt
  <2>1. x1 - p1 = x0 - p0 /\ x2 - q1 = x1 - q0
    BY DEF Follows
  <2>2. x0 \in Int /\ x1 \in Int /\ x2 \in Int /\ p0 \in Int /\ p1 \in Int /\ q0 \in Int /\ q1 \in Int
    BY <1>5
  <2> HIDE DEF x0, x1, x2, p0, p1, q0, q1
  <2>3. x2 = x0 + (p1 - p0) + (q1 - q0)
    BY <2>1, <2>2
  <2>4. QED
    BY <2>3 DEF x0, x2, p0, p1, q0, q1
<1>8. QED
  BY <1>6, <1>7 DEF FollowsBoth

\* A reserve that follows one position, and from there that one and another.
LEMMA ThenBoth ==
  ASSUME NEW r0 \in ReserveState, NEW r1 \in ReserveState, NEW r2 \in ReserveState,
         NEW d0 \in PositionState, NEW d1 \in PositionState, NEW d2 \in PositionState,
         NEW e0 \in PositionState, NEW e1 \in PositionState,
         Follows(r0, r1, d0, d1), FollowsBoth(r1, r2, d1, d2, e0, e1)
  PROVE  FollowsBoth(r0, r2, d0, d2, e0, e1)
<1>1. /\ r0.totalDeposit \in U128 /\ r1.totalDeposit \in U128 /\ r2.totalDeposit \in U128
      /\ r0.totalDebt \in U128 /\ r1.totalDebt \in U128 /\ r2.totalDebt \in U128
  BY DEF ReserveState
<1>2. /\ d0.deposit \in U128 /\ d1.deposit \in U128 /\ d2.deposit \in U128
      /\ d0.debt \in U128 /\ d1.debt \in U128 /\ d2.debt \in U128
      /\ e0.deposit \in U128 /\ e1.deposit \in U128 /\ e0.debt \in U128 /\ e1.debt \in U128
  BY DEF PositionState
<1>3. r2.totalDeposit = r0.totalDeposit + (d2.deposit - d0.deposit) + (e1.deposit - e0.deposit)
  <2> DEFINE x0 == r0.totalDeposit  x1 == r1.totalDeposit  x2 == r2.totalDeposit
             p0 == d0.deposit  p1 == d1.deposit  p2 == d2.deposit  q0 == e0.deposit  q1 == e1.deposit
  <2>1. x1 - p1 = x0 - p0 /\ x2 = x1 + (p2 - p1) + (q1 - q0)
    BY DEF Follows, FollowsBoth
  <2>2. /\ x0 \in U128 /\ x1 \in U128 /\ x2 \in U128
        /\ p0 \in U128 /\ p1 \in U128 /\ p2 \in U128 /\ q0 \in U128 /\ q1 \in U128
    BY <1>1, <1>2
  <2> HIDE DEF x0, x1, x2, p0, p1, p2, q0, q1
  <2>3. x2 = x0 + (p2 - p0) + (q1 - q0)
    BY <2>1, <2>2, ScaleAssumption DEF U128
  <2>4. QED
    BY <2>3 DEF x0, x2, p0, p2, q0, q1
<1>4. r2.totalDebt = r0.totalDebt + (d2.debt - d0.debt) + (e1.debt - e0.debt)
  <2> DEFINE x0 == r0.totalDebt  x1 == r1.totalDebt  x2 == r2.totalDebt
             p0 == d0.debt  p1 == d1.debt  p2 == d2.debt  q0 == e0.debt  q1 == e1.debt
  <2>1. x1 - p1 = x0 - p0 /\ x2 = x1 + (p2 - p1) + (q1 - q0)
    BY DEF Follows, FollowsBoth
  <2>2. /\ x0 \in U128 /\ x1 \in U128 /\ x2 \in U128
        /\ p0 \in U128 /\ p1 \in U128 /\ p2 \in U128 /\ q0 \in U128 /\ q1 \in U128
    BY <1>1, <1>2
  <2> HIDE DEF x0, x1, x2, p0, p1, p2, q0, q1
  <2>3. x2 = x0 + (p2 - p0) + (q1 - q0)
    BY <2>1, <2>2, ScaleAssumption DEF U128
  <2>4. QED
    BY <2>3 DEF x0, x2, p0, p2, q0, q1
<1>5. QED
  BY <1>3, <1>4 DEF FollowsBoth

LEMMA NothingFollows ==
  ASSUME NEW r \in ReserveState, NEW d \in PositionState
  PROVE  Follows(r, r, d, d)
BY DEF Follows

LEMMA NobodyMoves ==
  ASSUME TypeOK, NEW f \in Accounts, NEW t \in Accounts, NEW j \in Assets
  PROVE  FollowsBoth(reserve[j], reserve[j], data[f][j], data[f][j], data[t][j], data[t][j])
<1>1. reserve[j] \in ReserveState /\ data[f][j] \in PositionState /\ data[t][j] \in PositionState
  BY DEF TypeOK
<1>2. QED
  BY <1>1, NothingFollows, OneThenTheOther

LEMMA TransferDepositGood ==
  ASSUME TypeOK, NEW f \in Accounts, NEW t \in Accounts, NEW i \in Assets, NEW n \in Nat,
         TransferDeposit(f, t, i, n)
  PROVE  TypeOK' /\ (f # t /\ i = NumAssets - 1 => TwoMove(f, t))
<1> DEFINE c0  == Context(reserve[i], data[f][i], config[f])
           x   == Open(reserve[i], data[f][i], config[f])
           out == AccountForWithdraw(x, i, n, FALSE, FeeReduction[f], limits[i])
           mid == [out EXCEPT !.d = data[t][i], !.c = config[t]]
           acc == AccountForDeposit(mid, i, n, FeeReduction[t], limits[i])
           in  == Close(acc, i)
           ds  == [data[f] EXCEPT ![i] = out.d]
           C   == Contexts(Assets, RuleIds)
<1>1. /\ config[f] \in ConfigState(Assets, RuleIds) /\ config[t] \in ConfigState(Assets, RuleIds)
      /\ data[f] \in [Assets -> PositionState] /\ data[t] \in [Assets -> PositionState]
      /\ data[f][i] \in PositionState /\ data[t][i] \in PositionState
      /\ reserve[i] \in ReserveState /\ now \in Nat /\ n \in Int
  BY ConfigsTyped DEF TypeOK
<1>2. x \in C /\ Keeps(c0, x)
  BY <1>1, OpenGood
<1>3. out \in C /\ Keeps(x, out)
  <2>1. ASSUME NEW clamp
        PROVE  LET w == AccountForWithdraw(x, i, n, clamp, FeeReduction[f], limits[i])
               IN  w \in C /\ Keeps(x, w)
    BY <1>1, <1>2, AccountForWithdrawGood
  <2>2. QED
    BY <2>1, Zenon
<1>4. mid \in C /\ mid.ok = out.ok /\ mid.r = out.r /\ mid.d = data[t][i]
  <2> HIDE DEF out
  <2>1. QED
    BY <1>1, <1>3 DEF Contexts
<1>5. acc \in C /\ Keeps(mid, acc)
  BY <1>1, <1>4, AccountForDepositGood
<1>6. in \in C /\ Keeps(acc, in)
  BY <1>5, CloseGood
<1>7. Keeps(c0, out) /\ Keeps(mid, in)
  BY <1>2, <1>3, <1>5, <1>6, KeepsTransitive
<1>8. /\ reserve' = [reserve EXCEPT ![i] = in.r]
      /\ data' = [data EXCEPT ![t] = Inserted(data[t], i, in.d), ![f] = ds]
      /\ config' = [config EXCEPT ![f] = out.c, ![t] = in.c]
      /\ UNCHANGED <<now, setup, price, vault>>
  BY DEF TransferDeposit, PassDeposit, DepositOut, DepositIn
<1> HIDE DEF x, out, mid, acc, in
<1>9. /\ out.d \in PositionState /\ in.d \in PositionState
      /\ out.c \in ConfigState(Assets, RuleIds) /\ in.c \in ConfigState(Assets, RuleIds)
      /\ in.r \in ReserveState /\ out.r \in ReserveState
  BY <1>3, <1>6 DEF Contexts
<1>10. Inserted(data[t], i, in.d) \in [Assets -> PositionState]
  BY <1>1, <1>9, InsertedTyped
<1>11. ds \in [Assets -> PositionState]
  BY <1>1, <1>9
<1>12. TypeOK'
  <2>1. reserve' \in [Assets -> ReserveState]
    BY <1>8, <1>9 DEF TypeOK
  <2>2. data' \in [Accounts -> [Assets -> PositionState]]
    BY <1>8, <1>10, <1>11 DEF TypeOK
  <2>3. config' \in [Accounts -> ConfigState(Assets, RuleIds)]
    BY <1>8, <1>9, ConfigsTyped
  <2>4. VaultOK(vault')
    BY <1>8 DEF TypeOK, VaultOK
  <2>5. QED
    BY <1>8, <2>1, <2>2, <2>3, <2>4, BookTyped
<1>13. ASSUME f # t, i = NumAssets - 1 PROVE TwoMove(f, t)
  <2>1. /\ data'[f] = [data[f] EXCEPT ![i] = out.d]
        /\ data'[t] = [data[t] EXCEPT ![i] = in.d]
        /\ \A b \in Accounts \ {f, t} : data'[b] = data[b]
    <3>1. Inserted(data[t], i, in.d) = [data[t] EXCEPT ![i] = in.d]
      BY <1>1, <1>9, <1>13, InsertedTyped
    <3>2. DOMAIN data = Accounts
      BY DEF TypeOK
    <3>3. QED
      BY <1>8, <1>13, <3>1, <3>2
  <2>2. /\ Follows(reserve[i], out.r, data[f][i], out.d)
        /\ Follows(out.r, in.r, data[t][i], in.d)
    BY <1>4, <1>7 DEF Keeps, Context, Follows
  <2>3. FollowsBoth(reserve[i], in.r, data[f][i], out.d, data[t][i], in.d)
    BY <1>1, <1>9, <2>2, OneThenTheOther
  <2>4. /\ reserve'[i] = in.r /\ data'[f][i] = out.d /\ data'[t][i] = in.d
        /\ \A j \in Assets \ {i} : /\ reserve'[j] = reserve[j]
                                   /\ data'[f][j] = data[f][j] /\ data'[t][j] = data[t][j]
    BY <1>1, <1>8, <2>1 DEF TypeOK
  <2>5. FollowsBoth(reserve[i], reserve'[i], data[f][i], data'[f][i], data[t][i], data'[t][i])
    BY <2>3, <2>4
  <2>6. QED
    BY <1>13, <2>1, <2>4, <2>5, NobodyMoves DEF TwoMove
<1>14. QED
  BY <1>12, <1>13
LEMMA TransferDebtGood ==
  ASSUME TypeOK, NEW f \in Accounts, NEW t \in Accounts, NEW i \in Assets, NEW n \in Nat,
         TransferDebt(f, t, i, n)
  PROVE  TypeOK' /\ (f # t /\ i = NumAssets - 1 => TwoMove(f, t))
<1> DEFINE c0  == Context(reserve[i], data[f][i], config[f])
           x   == Open(reserve[i], data[f][i], config[f])
           out == AccountForRepay(x, i, n, FALSE, FeeReduction[f], limits[i])
           mid == [out EXCEPT !.d = data[t][i], !.c = config[t]]
           acc == AccountForBorrow(mid, i, n, FeeReduction[t], limits[i])
           in  == Close(acc, i)
           ds  == [data[t] EXCEPT ![i] = in.d]
           C   == Contexts(Assets, RuleIds)
<1>1. /\ config[f] \in ConfigState(Assets, RuleIds) /\ config[t] \in ConfigState(Assets, RuleIds)
      /\ data[f] \in [Assets -> PositionState] /\ data[t] \in [Assets -> PositionState]
      /\ data[f][i] \in PositionState /\ data[t][i] \in PositionState
      /\ reserve[i] \in ReserveState /\ now \in Nat /\ n \in Int
  BY ConfigsTyped DEF TypeOK
<1>2. x \in C /\ Keeps(c0, x)
  BY <1>1, OpenGood
<1>3. out \in C /\ Keeps(x, out)
  <2>1. ASSUME NEW clamp
        PROVE  LET w == AccountForRepay(x, i, n, clamp, FeeReduction[f], limits[i])
               IN  w \in C /\ Keeps(x, w)
    BY <1>1, <1>2, AccountForRepayGood
  <2>2. QED
    BY <2>1, Zenon
<1>4. mid \in C /\ mid.ok = out.ok /\ mid.r = out.r /\ mid.d = data[t][i]
  <2> HIDE DEF out
  <2>1. QED
    BY <1>1, <1>3 DEF Contexts
<1>5. acc \in C /\ Keeps(mid, acc)
  BY <1>1, <1>4, AccountForBorrowGood
<1>6. in \in C /\ Keeps(acc, in)
  BY <1>5, CloseGood
<1>7. Keeps(c0, out) /\ Keeps(mid, in)
  BY <1>2, <1>3, <1>5, <1>6, KeepsTransitive
<1>8. /\ reserve' = [reserve EXCEPT ![i] = in.r]
      /\ data' = [data EXCEPT ![f] = Inserted(data[f], i, out.d), ![t] = ds]
      /\ config' = [config EXCEPT ![t] = in.c, ![f] = out.c]
      /\ UNCHANGED <<now, setup, price, vault>>
  BY DEF TransferDebt, PassDebt, DebtOut, DebtIn
<1> HIDE DEF x, out, mid, acc, in
<1>9. /\ out.d \in PositionState /\ in.d \in PositionState
      /\ out.c \in ConfigState(Assets, RuleIds) /\ in.c \in ConfigState(Assets, RuleIds)
      /\ in.r \in ReserveState /\ out.r \in ReserveState
  BY <1>3, <1>6 DEF Contexts
<1>10. Inserted(data[f], i, out.d) \in [Assets -> PositionState]
  BY <1>1, <1>9, InsertedTyped
<1>11. ds \in [Assets -> PositionState]
  BY <1>1, <1>9
<1>12. TypeOK'
  <2>1. reserve' \in [Assets -> ReserveState]
    BY <1>8, <1>9 DEF TypeOK
  <2>2. data' \in [Accounts -> [Assets -> PositionState]]
    BY <1>8, <1>10, <1>11 DEF TypeOK
  <2>3. config' \in [Accounts -> ConfigState(Assets, RuleIds)]
    BY <1>8, <1>9, ConfigsTyped
  <2>4. VaultOK(vault')
    BY <1>8 DEF TypeOK, VaultOK
  <2>5. QED
    BY <1>8, <2>1, <2>2, <2>3, <2>4, BookTyped
<1>13. ASSUME f # t, i = NumAssets - 1 PROVE TwoMove(f, t)
  <2>1. /\ data'[f] = [data[f] EXCEPT ![i] = out.d]
        /\ data'[t] = [data[t] EXCEPT ![i] = in.d]
        /\ \A b \in Accounts \ {f, t} : data'[b] = data[b]
    <3>1. Inserted(data[f], i, out.d) = [data[f] EXCEPT ![i] = out.d]
      BY <1>1, <1>9, <1>13, InsertedTyped
    <3>2. DOMAIN data = Accounts
      BY DEF TypeOK
    <3>3. QED
      BY <1>8, <1>13, <3>1, <3>2
  <2>2. /\ Follows(reserve[i], out.r, data[f][i], out.d)
        /\ Follows(out.r, in.r, data[t][i], in.d)
    BY <1>4, <1>7 DEF Keeps, Context, Follows
  <2>3. FollowsBoth(reserve[i], in.r, data[f][i], out.d, data[t][i], in.d)
    BY <1>1, <1>9, <2>2, OneThenTheOther
  <2>4. /\ reserve'[i] = in.r /\ data'[f][i] = out.d /\ data'[t][i] = in.d
        /\ \A j \in Assets \ {i} : /\ reserve'[j] = reserve[j]
                                   /\ data'[f][j] = data[f][j] /\ data'[t][j] = data[t][j]
    BY <1>1, <1>8, <2>1 DEF TypeOK
  <2>5. FollowsBoth(reserve[i], reserve'[i], data[f][i], data'[f][i], data[t][i], data'[t][i])
    BY <2>3, <2>4
  <2>6. QED
    BY <1>13, <2>1, <2>4, <2>5, NobodyMoves DEF TwoMove
<1>14. QED
  BY <1>12, <1>13
-----------------------------------------------------------------------------
(* liquidate *)

LEMMA AmountToTakeTyped ==
  ASSUME NEW n \in Int, NEW repay \in Assets, NEW take \in Assets,
         NEW p \in [Assets -> Nat], NEW rule \in MarketRule, CanPriceTake(repay, take, p, rule)
  PROVE  /\ AmountToTake(n, repay, take, p, rule) \in Int
         /\ n \in Nat => AmountToTake(n, repay, take, p, rule) \in Nat
<1> DEFINE x == n * p[repay] * DecimalMultiplier[take]
           y == rule[repay].penalty + rule[take].penalty + E6
           z == p[take] * DecimalMultiplier[repay] * E6
<1>1. DecimalMultiplier[take] \in Nat /\ DecimalMultiplier[repay] \in Nat /\ DecimalMultiplier[repay] # 0
  BY PoolAssumption
<1>2. p[repay] \in Nat /\ p[take] \in Nat /\ p[take] # 0
  BY DEF CanPriceTake
<1>3. x \in Int /\ (n \in Nat => x \in Nat)
  <2>1. p[repay] * DecimalMultiplier[take] \in Nat
    BY <1>1, <1>2
  <2> DEFINE u == p[repay] * DecimalMultiplier[take]
  <2>2. x = n * u
    BY <1>1, <1>2
  <2> HIDE DEF u, x
  <2>3. u \in Nat
    BY <2>1 DEF u
  <2>4. QED
    BY <2>2, <2>3
<1>4. rule[repay] \in AssetRules /\ rule[take] \in AssetRules
  BY DEF CanPriceTake, MarketRule
<1>5. rule[repay].penalty \in Nat /\ rule[take].penalty \in Nat
  BY <1>4 DEF CanPriceTake, AssetRules, Coefficient
<1>6. y \in Nat
  BY <1>5, ScaleAssumption
<1>7. z \in Int /\ z > 0
  <2>1. E6 \in Nat \ {0}
    BY ScaleAssumption
  <2>2. p[take] * DecimalMultiplier[repay] \in Nat /\ p[take] * DecimalMultiplier[repay] > 0
    BY <1>1, <1>2
  <2>3. QED
    BY <2>1, <2>2
<1>8. AmountToTake(n, repay, take, p, rule) = MulDivDown(x, y, z)
  BY DEF AmountToTake
<1> HIDE DEF x, y, z
<1>9. x * y \in Int /\ (n \in Nat => x * y \in Nat)
  BY <1>3, <1>6
<1> DEFINE q == x * y
<1>10. AmountToTake(n, repay, take, p, rule) = q \div z
  BY <1>7, <1>8 DEF MulDivDown
<1> HIDE DEF q
<1>11. q \in Int /\ (n \in Nat => q \in Nat)
  BY <1>9 DEF q
<1>12. QED
  BY <1>7, <1>10, <1>11

LEMMA LiquidateGood ==
  ASSUME TypeOK, NEW l \in Accounts, NEW a \in Accounts, NEW rp \in Assets, NEW tk \in Assets,
         NEW n \in Nat, Liquidate(l, a, rp, tk, n)
  PROVE  TypeOK' /\ (l # a => TwoMove(a, l))
<1> DEFINE C      == Contexts(Assets, RuleIds)
           cut    == FeeReduction[a]
           c0     == Context(reserve[rp], data[a][rp], config[a])
           x      == Open(reserve[rp], data[a][rp], config[a])
           paid   == RepaidAmount(x, n, TRUE, cut)
           acc    == AccountForRepay(x, rp, n, TRUE, cut, limits[rp])
           repaid == Close(acc, rp)
           rs     == [reserve EXCEPT ![rp] = repaid.r]
           ds     == [data[a] EXCEPT ![rp] = repaid.d]
           wanted == AmountToTake(paid, rp, tk, price, RuleOf(config[a]))
           c1     == Context(rs[tk], ds[tk], repaid.c)
           y      == Open(rs[tk], ds[tk], repaid.c)
           taken  == WithdrawnAmount(y, wanted, TRUE, cut)
           out    == AccountForWithdraw(y, tk, wanted, TRUE, cut, limits[tk])
           mid    == [out EXCEPT !.d = data[l][tk], !.c = config[l]]
           dep    == AccountForDeposit(mid, tk, taken, FeeReduction[l], limits[tk])
           in     == Close(dep, tk)
           v      == Received(rp, vault[rp], paid)
<1>1. /\ config[a] \in ConfigState(Assets, RuleIds) /\ config[l] \in ConfigState(Assets, RuleIds)
      /\ data[a] \in [Assets -> PositionState] /\ data[l] \in [Assets -> PositionState]
      /\ data[a][rp] \in PositionState /\ data[l][tk] \in PositionState
      /\ reserve[rp] \in ReserveState /\ now \in Nat /\ n \in Int
      /\ reserve \in [Assets -> ReserveState] /\ price \in [Assets -> Nat]
  BY ConfigsTyped DEF TypeOK
<1>2. RuleOf(config[a]) \in MarketRule
  BY <1>1 DEF TypeOK, RuleOf, RuleIds, ConfigState
<1>3. x \in C /\ Keeps(c0, x)
  BY <1>1, OpenGood
<1>4. acc \in C /\ Keeps(x, acc)
  <2>1. ASSUME NEW clamp
        PROVE  LET w == AccountForRepay(x, rp, n, clamp, cut, limits[rp])
               IN  w \in C /\ Keeps(x, w)
    BY <1>1, <1>3, AccountForRepayGood
  <2>2. QED
    BY <2>1, Zenon
<1>5. repaid \in C /\ Keeps(acc, repaid)
  BY <1>4, CloseGood
<1>6. Keeps(c0, repaid)
  BY <1>3, <1>4, <1>5, KeepsTransitive
<1>7. /\ CanPriceTake(rp, tk, price, RuleOf(config[a]))
      /\ Possible(rp, v)
      /\ reserve' = [rs EXCEPT ![tk] = in.r]
      /\ data' = [data EXCEPT ![a] = [ds EXCEPT ![tk] = out.d],
                              ![l] = [data[l] EXCEPT ![tk] = in.d]]
      /\ config' = [config EXCEPT ![a] = out.c, ![l] = in.c]
      /\ vault' = [vault EXCEPT ![rp] = v]
      /\ UNCHANGED <<now, setup, price>>
  BY DEF Liquidate, AccountForLiquidate, Seize
<1>8. paid \in Int /\ wanted \in Int
  <2>1. \A clamp : RepaidAmount(x, n, clamp, cut) \in Int
    BY <1>1, <1>3, AmountsAreNumbers
  <2>2. paid \in Int
    BY <2>1, Zenon
  <2> HIDE DEF paid
  <2>3. wanted \in Int
    BY <1>1, <1>2, <1>7, <2>2, AmountToTakeTyped
  <2>4. QED
    BY <2>2, <2>3
<1> HIDE DEF x, acc, repaid, paid, wanted
<1>9. repaid.r \in ReserveState /\ repaid.d \in PositionState /\ repaid.c \in ConfigState(Assets, RuleIds)
  BY <1>5 DEF Contexts
<1>10. /\ rs \in [Assets -> ReserveState] /\ ds \in [Assets -> PositionState]
       /\ rs[tk] \in ReserveState /\ ds[tk] \in PositionState
  BY <1>1, <1>9
<1>11. y \in C /\ Keeps(c1, y)
  BY <1>1, <1>9, <1>10, OpenGood
<1>12. out \in C /\ Keeps(y, out) /\ taken \in Int
  <2>1. ASSUME NEW clamp
        PROVE  LET w == AccountForWithdraw(y, tk, wanted, clamp, cut, limits[tk])
               IN  w \in C /\ Keeps(y, w) /\ WithdrawnAmount(y, wanted, clamp, cut) \in Int
    BY <1>8, <1>11, AccountForWithdrawGood, AmountsAreNumbers
  <2>2. QED
    BY <2>1, Zenon
<1>13. mid \in C /\ mid.ok = out.ok /\ mid.r = out.r /\ mid.d = data[l][tk]
  <2> HIDE DEF out
  <2>1. QED
    BY <1>1, <1>12 DEF Contexts
<1>14. dep \in C /\ Keeps(mid, dep)
  BY <1>12, <1>13, AccountForDepositGood
<1>15. in \in C /\ Keeps(dep, in)
  BY <1>14, CloseGood
<1>16. Keeps(c1, out) /\ Keeps(mid, in)
  BY <1>11, <1>12, <1>14, <1>15, KeepsTransitive
<1> HIDE DEF y, taken, out, mid, dep, in, v
<1>17. /\ out.d \in PositionState /\ in.d \in PositionState
       /\ out.c \in ConfigState(Assets, RuleIds) /\ in.c \in ConfigState(Assets, RuleIds)
       /\ in.r \in ReserveState /\ out.r \in ReserveState
  BY <1>12, <1>15 DEF Contexts
<1>18. TypeOK'
  <2>1. reserve' \in [Assets -> ReserveState]
    BY <1>7, <1>10, <1>17
  <2>2. data' \in [Accounts -> [Assets -> PositionState]]
    BY <1>1, <1>7, <1>10, <1>17 DEF TypeOK
  <2>3. config' \in [Accounts -> ConfigState(Assets, RuleIds)]
    BY <1>7, <1>17, ConfigsTyped
  <2>4. VaultOK(vault')
    <3>1. Supply[rp] \in Int
      BY PoolAssumption, ScaleAssumption DEF U128
    <3>2. v \in 0 .. Supply[rp] /\ v \in Int
      BY <1>7, <3>1 DEF Possible
    <3>3. QED
      BY <1>7, <3>2 DEF TypeOK, VaultOK
  <2>5. QED
    BY <1>7, <2>1, <2>2, <2>3, <2>4, BookTyped
<1>19. ASSUME l # a PROVE TwoMove(a, l)
  <2>1. /\ data'[a] = [ds EXCEPT ![tk] = out.d]
        /\ data'[l] = [data[l] EXCEPT ![tk] = in.d]
        /\ \A b \in Accounts \ {a, l} : data'[b] = data[b]
    BY <1>7, <1>19 DEF TypeOK
  <2>2. \A j \in Assets : Follows(reserve[j], rs[j], data[a][j], ds[j])
    <3>1. Follows(reserve[rp], repaid.r, data[a][rp], repaid.d)
      BY <1>6 DEF Keeps, Context, Follows
    <3>2. \A j \in Assets \ {rp} : Follows(reserve[j], reserve[j], data[a][j], data[a][j])
      BY <1>1, NothingFollows
    <3>3. /\ rs[rp] = repaid.r /\ ds[rp] = repaid.d
          /\ \A j \in Assets \ {rp} : rs[j] = reserve[j] /\ ds[j] = data[a][j]
      BY <1>1
    <3> HIDE DEF rs, ds
    <3>4. QED
      BY <3>1, <3>2, <3>3
  <2>3. FollowsBoth(rs[tk], in.r, ds[tk], out.d, data[l][tk], in.d)
    <3>1. Follows(rs[tk], out.r, ds[tk], out.d) /\ Follows(out.r, in.r, data[l][tk], in.d)
      BY <1>13, <1>16 DEF Keeps, Context, Follows
    <3>2. QED
      BY <1>1, <1>10, <1>17, <3>1, OneThenTheOther
  <2>4. FollowsBoth(reserve[tk], in.r, data[a][tk], out.d, data[l][tk], in.d)
    BY <1>1, <1>10, <1>17, <2>2, <2>3, ThenBoth
  <2>5. /\ reserve'[tk] = in.r /\ data'[a][tk] = out.d /\ data'[l][tk] = in.d
        /\ \A j \in Assets \ {tk} : /\ reserve'[j] = rs[j]
                                    /\ data'[a][j] = ds[j] /\ data'[l][j] = data[l][j]
    <3> HIDE DEF rs, ds
    <3>1. reserve'[tk] = in.r /\ \A j \in Assets \ {tk} : reserve'[j] = rs[j]
      BY <1>7, <1>10
    <3>2. data'[a][tk] = out.d /\ \A j \in Assets \ {tk} : data'[a][j] = ds[j]
      BY <1>10, <2>1
    <3>3. data'[l][tk] = in.d /\ \A j \in Assets \ {tk} : data'[l][j] = data[l][j]
      BY <1>1, <2>1
    <3>4. QED
      BY <3>1, <3>2, <3>3
  <2>6. ASSUME NEW j \in Assets \ {tk}
        PROVE  FollowsBoth(reserve[j], rs[j], data[a][j], ds[j], data[l][j], data[l][j])
    <3>1. /\ reserve[j] \in ReserveState /\ rs[j] \in ReserveState
          /\ data[a][j] \in PositionState /\ ds[j] \in PositionState /\ data[l][j] \in PositionState
      BY <1>1, <1>10
    <3>2. Follows(rs[j], rs[j], data[l][j], data[l][j]) /\ Follows(reserve[j], rs[j], data[a][j], ds[j])
      BY <2>2, <3>1, NothingFollows
    <3>3. QED
      BY <3>1, <3>2, OneThenTheOther
  <2> HIDE DEF rs, ds
  <2>7. QED
    BY <1>19, <2>1, <2>4, <2>5, <2>6 DEF TwoMove
<1>20. QED
  BY <1>18, <1>19

-----------------------------------------------------------------------------
(* everything else *)

\* No balance changes and no total.
Quiet ==
  /\ data' = data
  /\ \A i \in Assets : /\ reserve'[i].totalDeposit = reserve[i].totalDeposit
                       /\ reserve'[i].totalDebt = reserve[i].totalDebt

LEMMA QuietLedger ==
  ASSUME LedgerBalanced, Quiet
  PROVE  LedgerBalanced'
BY DEF LedgerBalanced, Quiet, DepositsOf, DebtsOf

\* One reserve gets other settings, rates or indexes.
LEMMA SettingsGood ==
  ASSUME TypeOK, NEW i \in Assets, NEW r \in ReserveState, reserve' = [reserve EXCEPT ![i] = r],
         r.totalDeposit = reserve[i].totalDeposit, r.totalDebt = reserve[i].totalDebt, data' = data
  PROVE  reserve' \in [Assets -> ReserveState] /\ Quiet
<1>1. reserve' \in [Assets -> ReserveState]
  BY DEF TypeOK
<1>2. reserve'[i] = r /\ \A j \in Assets \ {i} : reserve'[j] = reserve[j]
  BY DEF TypeOK
<1>3. QED
  BY <1>1, <1>2 DEF Quiet

LEMMA RefreshedGood ==
  ASSUME TypeOK, NEW i \in Assets, NEW m, CanUpdate(reserve[i], now),
         CanRerate(Updated(reserve[i], now), m)
  PROVE  LET r == Rerated(Updated(reserve[i], now), m)
         IN  /\ r \in ReserveState
             /\ r.totalDeposit = reserve[i].totalDeposit
             /\ r.totalDebt = reserve[i].totalDebt
<1>1. reserve[i] \in ReserveState /\ now \in Nat
  BY DEF TypeOK
<1>2. /\ Updated(reserve[i], now) \in ReserveState
      /\ Updated(reserve[i], now).totalDeposit = reserve[i].totalDeposit
      /\ Updated(reserve[i], now).totalDebt = reserve[i].totalDebt
  BY <1>1, UpdatedGood
<1>3. QED
  BY <1>2, ReratedGood

LEMMA SetAsCollateralGood ==
  ASSUME TypeOK, NEW a \in Accounts, NEW i \in Assets, NEW on, SetAsCollateral(a, i, on)
  PROVE  TypeOK' /\ Quiet
<1>1. /\ config' = [config EXCEPT ![a].collaterals =
                       IF on THEN config[a].collaterals \cup {i} ELSE config[a].collaterals \ {i}]
      /\ UNCHANGED <<now, reserve, data, vault, setup, price>>
  BY DEF SetAsCollateral
<1>2. config' \in [Accounts -> ConfigState(Assets, RuleIds)]
  BY <1>1, ConfigsTyped DEF ConfigState
<1>3. TypeOK'
  BY <1>1, <1>2, BookTyped DEF TypeOK, VaultOK
<1>4. Quiet
  BY <1>1 DEF Quiet
<1>5. QED
  BY <1>3, <1>4

LEMMA ChooseMarketRuleGood ==
  ASSUME TypeOK, NEW a \in Accounts, NEW k \in Nat, ChooseMarketRule(a, k)
  PROVE  TypeOK' /\ Quiet
<1>1. /\ k < Len(rules) /\ config' = [config EXCEPT ![a].rule = k]
      /\ UNCHANGED <<now, reserve, data, vault, setup, price>>
  BY DEF ChooseMarketRule
<1>2. Len(rules) \in Nat
  BY DEF TypeOK
<1>3. k \in RuleIds
  BY <1>1, <1>2 DEF RuleIds
<1>4. config' \in [Accounts -> ConfigState(Assets, RuleIds)]
  BY <1>1, <1>3, ConfigsTyped DEF ConfigState
<1>5. TypeOK'
  BY <1>1, <1>4, BookTyped DEF TypeOK, VaultOK
<1>6. Quiet
  BY <1>1 DEF Quiet
<1>7. QED
  BY <1>5, <1>6

LEMMA AccumulateInterestGood ==
  ASSUME TypeOK, NEW i \in Assets, AccumulateInterest(i)
  PROVE  TypeOK' /\ Quiet
<1> DEFINE r == Rerated(Updated(reserve[i], now), model[i])
<1>1. /\ reserve' = [reserve EXCEPT ![i] = r]
      /\ UNCHANGED <<now, data, config, vault, setup, price>>
  BY DEF AccumulateInterest
<1>2. r \in ReserveState /\ r.totalDeposit = reserve[i].totalDeposit /\ r.totalDebt = reserve[i].totalDebt
  BY RefreshedGood DEF AccumulateInterest
<1> HIDE DEF r
<1>3. reserve' \in [Assets -> ReserveState] /\ Quiet
  BY <1>1, <1>2, SettingsGood
<1>4. QED
  BY <1>1, <1>3 DEF TypeOK, setup

LEMMA AdjustRateAtTargetGood ==
  ASSUME TypeOK, NEW i \in Assets, NEW rate \in Nat, AdjustRateAtTarget(i, rate)
  PROVE  TypeOK' /\ Quiet
<1>1. /\ model[i] # None /\ model' = [model EXCEPT ![i].rateAtTarget = rate]
      /\ UNCHANGED <<now, book, limits, rules, price>>
  BY DEF AdjustRateAtTarget
<1>2. model[i] \in ModelState
  BY <1>1 DEF TypeOK
<1>3. [model[i] EXCEPT !.rateAtTarget = rate] \in ModelState
  BY <1>2 DEF ModelState
<1>4. model' \in [Assets -> ModelState \cup {None}]
  BY <1>1, <1>3 DEF TypeOK
<1>5. QED
  BY <1>1, <1>4 DEF TypeOK, Quiet, book

LEMMA SetInterestRateModelGood ==
  ASSUME TypeOK, NEW i \in Assets, NEW m \in ModelState, SetInterestRateModel(i, m)
  PROVE  TypeOK' /\ Quiet
<1> DEFINE r == Rerated(Updated(reserve[i], now), m)
<1>1. /\ reserve' = [reserve EXCEPT ![i] = r] /\ model' = [model EXCEPT ![i] = m]
      /\ UNCHANGED <<now, data, config, vault, limits, rules, price>>
  BY DEF SetInterestRateModel
<1>2. r \in ReserveState /\ r.totalDeposit = reserve[i].totalDeposit /\ r.totalDebt = reserve[i].totalDebt
  BY RefreshedGood DEF SetInterestRateModel
<1> HIDE DEF r
<1>3. reserve' \in [Assets -> ReserveState] /\ Quiet
  BY <1>1, <1>2, SettingsGood
<1>4. QED
  BY <1>1, <1>3 DEF TypeOK

\* The three settings of a reserve that need no accrual.
LEMMA SetReserveGood ==
  ASSUME TypeOK, NEW i \in Assets, NEW on \in BOOLEAN, NEW fees \in FeesState, NEW rate \in Nat,
         \/ SetReserveIsActive(i, on)
         \/ SetReserveIsFrozen(i, on)
         \/ SetReserveFees(i, fees)
         \/ SetStablecoinDebtRate(i, rate)
  PROVE  TypeOK' /\ Quiet
<1>1. /\ reserve[i] \in ReserveState
      /\ UNCHANGED <<now, data, config, vault, setup, price>>
  BY DEF TypeOK, SetReserveIsActive, SetReserveIsFrozen, SetReserveFees, SetStablecoinDebtRate
<1>2. E6 \in Nat /\ 0 \in U128
  BY ScaleAssumption DEF U128
<1>3. fees.deposit \in Nat /\ fees.debt \in Nat
  BY <1>2 DEF FeesState
<1> DEFINE r1 == [reserve[i] EXCEPT !.active = on]
           r2 == [reserve[i] EXCEPT !.depositFee = fees.deposit, !.debtFee = fees.debt, !.earnedFee = 0]
           r3 == [reserve[i] EXCEPT !.debtRate = rate]
<1>4. /\ r1 \in ReserveState /\ r2 \in ReserveState /\ r3 \in ReserveState
      /\ \A r \in {r1, r2, r3} : /\ r.totalDeposit = reserve[i].totalDeposit
                                 /\ r.totalDebt = reserve[i].totalDebt
  BY <1>1, <1>2, <1>3 DEF ReserveState
<1>5. \E r \in {r1, r2, r3} : reserve' = [reserve EXCEPT ![i] = r]
  BY DEF TypeOK, SetReserveIsActive, SetReserveIsFrozen, SetReserveFees, SetStablecoinDebtRate
<1> HIDE DEF r1, r2, r3
<1>6. reserve' \in [Assets -> ReserveState] /\ Quiet
  BY <1>1, <1>4, <1>5, SettingsGood
<1>7. QED
  BY <1>1, <1>6 DEF TypeOK, setup

LEMMA SetReserveRestrictionsGood ==
  ASSUME TypeOK, NEW i \in Assets, NEW lim \in LimitState, SetReserveRestrictions(i, lim)
  PROVE  TypeOK' /\ Quiet
BY DEF TypeOK, Quiet, SetReserveRestrictions, book

LEMMA AddMarketRuleGood ==
  ASSUME TypeOK, NEW rule \in MarketRule, AddMarketRule(rule)
  PROVE  TypeOK' /\ Quiet
<1>1. rules' = Append(rules, rule) /\ UNCHANGED <<now, book, limits, model, price>>
  BY DEF AddMarketRule
<1>2. rules' \in Seq(MarketRule) /\ Len(rules') = Len(rules) + 1 /\ Len(rules) \in Nat
  BY <1>1 DEF TypeOK
<1>3. \A a \in Accounts : config[a].rule \in Nat /\ config[a].rule < Len(rules')
  BY <1>2 DEF TypeOK, ConfigState
<1>4. QED
  BY <1>1, <1>2, <1>3 DEF TypeOK, Quiet, book

LEMMA ModifyAssetRuleGood ==
  ASSUME TypeOK, NEW k \in Nat, NEW i \in Assets, NEW rule \in AssetRules, ModifyAssetRule(k, i, rule)
  PROVE  TypeOK' /\ Quiet
<1>1. /\ k < Len(rules) /\ rules' = [rules EXCEPT ![k + 1][i] = rule]
      /\ UNCHANGED <<now, book, limits, model, price>>
  BY DEF ModifyAssetRule
<1>2. rules \in Seq(MarketRule) /\ Len(rules) \in Nat /\ k + 1 \in 1 .. Len(rules)
  BY <1>1 DEF TypeOK
<1>3. rules[k + 1] \in MarketRule
  BY <1>2
<1>4. [rules[k + 1] EXCEPT ![i] = rule] \in MarketRule
  BY <1>3 DEF MarketRule
<1>5. rules' = [rules EXCEPT ![k + 1] = [rules[k + 1] EXCEPT ![i] = rule]]
  BY <1>1, <1>2
<1>6. rules' \in Seq(MarketRule) /\ Len(rules') = Len(rules)
  BY <1>2, <1>4, <1>5
<1>7. QED
  BY <1>1, <1>6 DEF TypeOK, Quiet, book

LEMMA TakeProtocolIncomeGood ==
  ASSUME TypeOK, NEW assets \in Seq(Assets), TakeProtocolIncome(assets)
  PROVE  TypeOK' /\ Quiet
<1> DEFINE taken(i) == \E k \in DOMAIN assets : assets[k] = i
           paid == PaidIncome(assets)
           v(i) == Sent(i, vault[i], reserve[i].earnedFee)
<1>1. /\ reserve' = [i \in Assets |-> IF taken(i) THEN EarnedFeeTaken(reserve[i]) ELSE reserve[i]]
      /\ vault' = [i \in Assets |-> IF i \in paid THEN v(i) ELSE vault[i]]
      /\ \A i \in paid : Possible(i, v(i))
      /\ UNCHANGED <<now, data, config, setup, price>>
  BY DEF TakeProtocolIncome
<1> HIDE DEF taken, paid, v
<1>2. ASSUME NEW r \in ReserveState
      PROVE  /\ EarnedFeeTaken(r) \in ReserveState
             /\ EarnedFeeTaken(r).totalDeposit = r.totalDeposit
             /\ EarnedFeeTaken(r).totalDebt = r.totalDebt
  <2>1. 0 \in U128
    BY ScaleAssumption DEF U128
  <2>2. QED
    BY <2>1 DEF EarnedFeeTaken, ReserveState
<1>3. ASSUME NEW i \in Assets
      PROVE  /\ reserve'[i] \in ReserveState
             /\ reserve'[i].totalDeposit = reserve[i].totalDeposit
             /\ reserve'[i].totalDebt = reserve[i].totalDebt
  <2>1. reserve[i] \in ReserveState
    BY DEF TypeOK
  <2>2. reserve'[i] = EarnedFeeTaken(reserve[i]) \/ reserve'[i] = reserve[i]
    BY <1>1
  <2>3. QED
    BY <1>2, <2>1, <2>2
<1>4. ASSUME NEW i \in Assets PROVE vault'[i] \in Int /\ vault'[i] \in 0 .. Supply[i]
  <2>1. Supply[i] \in Int
    BY PoolAssumption, ScaleAssumption DEF U128
  <2>2. vault'[i] \in 0 .. Supply[i]
    BY <1>1 DEF TypeOK, Possible
  <2>3. QED
    BY <2>1, <2>2
<1>5. reserve' \in [Assets -> ReserveState] /\ vault' \in [Assets -> Int]
  BY <1>1, <1>3, <1>4
<1>6. Quiet
  BY <1>1, <1>3 DEF Quiet
<1>7. QED
  BY <1>1, <1>4, <1>5, <1>6 DEF TypeOK, setup

LEMMA WorldGood ==
  ASSUME TypeOK, WorldNext
  PROVE  TypeOK' /\ Quiet
<1>1. CASE Tick
  BY <1>1 DEF TypeOK, Quiet, Tick, book, setup
<1>2. ASSUME NEW i \in Assets, NEW p \in Prices[i], ChangePrice(i, p)
      PROVE  TypeOK' /\ Quiet
  <2>1. p \in Nat
    BY RequestAssumption
  <2>2. QED
    BY <1>2, <2>1 DEF TypeOK, Quiet, ChangePrice, book, setup
<1>3. QED
  BY <1>1, <1>2 DEF WorldNext

-----------------------------------------------------------------------------
(* The theorems *)

\* Transfers of the tokens of the last registered asset only, and between
\* different accounts; no account liquidates itself.  The run Transfer shows
\* what happens otherwise: Vec::insert (storage/mod.rs:1495) moves the entries
\* behind the one it writes.  An account that is both sides of a message is
\* written twice, and what was written first is lost.
SafeRequests ==
  /\ \A q \in DepositTransfers \cup DebtTransfers : q[1] # q[2] /\ q[3] = NumAssets - 1
  /\ \A q \in Liquidations : q[1] # q[2]

\* What a message does: one account moves, two accounts move, or nobody.
Moves ==
  \/ Quiet
  \/ \E a \in Accounts : OneMoves(a)
  \/ \E f, t \in Accounts : TwoMove(f, t)

LEMMA ClientGood ==
  ASSUME TypeOK, ClientNext
  PROVE  TypeOK' /\ (SafeRequests => Moves)
<1>1. ASSUME NEW q \in Requests, Operate(q[1], q[2])
      PROVE  TypeOK' /\ Moves
  <2>1. q[1] \in Accounts /\ q[2] \in ActionState
    BY RequestAssumption
  <2>2. SessionOK(Step(Session(q[1]), q[1], q[2]), q[1])
    BY <2>1, SessionGood, StepGood
  <2>3. Commit(Step(Session(q[1]), q[1], q[2]), q[1])
    BY <1>1 DEF Operate
  <2>4. QED
    BY <2>1, <2>2, <2>3, CommitGood DEF Moves
<1>2. ASSUME NEW q \in MultiRequests, MultiOp(q[1], q[2])
      PROVE  TypeOK' /\ Moves
  <2>1. q[1] \in Accounts /\ q[2][1] \in ActionState /\ q[2][2] \in ActionState
    BY RequestAssumption
  <2> DEFINE s == Step(Session(q[1]), q[1], q[2][1])
  <2>2. SessionOK(s, q[1])
    BY <2>1, SessionGood, StepGood
  <2>3. Commit(Step(s, q[1], q[2][2]), q[1])
    BY <1>2 DEF MultiOp
  <2> HIDE DEF s
  <2>4. SessionOK(Step(s, q[1], q[2][2]), q[1])
    BY <2>1, <2>2, StepGood
  <2>5. QED
    BY <2>1, <2>3, <2>4, CommitGood DEF Moves
<1>3. ASSUME NEW q \in DepositTransfers, TransferDeposit(q[1], q[2], q[3], q[4])
      PROVE  TypeOK' /\ (SafeRequests => Moves)
  <2>1. q[1] \in Accounts /\ q[2] \in Accounts /\ q[3] \in Assets /\ q[4] \in Nat
    BY RequestAssumption
  <2>2. QED
    BY <1>3, <2>1, TransferDepositGood DEF Moves, SafeRequests
<1>4. ASSUME NEW q \in DebtTransfers, TransferDebt(q[1], q[2], q[3], q[4])
      PROVE  TypeOK' /\ (SafeRequests => Moves)
  <2>1. q[1] \in Accounts /\ q[2] \in Accounts /\ q[3] \in Assets /\ q[4] \in Nat
    BY RequestAssumption
  <2>2. QED
    BY <1>4, <2>1, TransferDebtGood DEF Moves, SafeRequests
<1>5. ASSUME NEW q \in Liquidations, Liquidate(q[1], q[2], q[3], q[4], q[5])
      PROVE  TypeOK' /\ (SafeRequests => Moves)
  <2>1. /\ q[1] \in Accounts /\ q[2] \in Accounts /\ q[3] \in Assets /\ q[4] \in Assets
        /\ q[5] \in Nat
    BY RequestAssumption
  <2>2. QED
    BY <1>5, <2>1, LiquidateGood DEF Moves, SafeRequests
<1>6. ASSUME NEW q \in CollateralSwitches, SetAsCollateral(q[1], q[2], q[3])
      PROVE  TypeOK' /\ Quiet
  <2>1. q[1] \in Accounts /\ q[2] \in Assets
    BY RequestAssumption
  <2>2. QED
    BY <1>6, <2>1, SetAsCollateralGood
<1>7. ASSUME NEW q \in RuleChoices, ChooseMarketRule(q[1], q[2])
      PROVE  TypeOK' /\ Quiet
  <2>1. q[1] \in Accounts /\ q[2] \in Nat
    BY RequestAssumption
  <2>2. QED
    BY <1>7, <2>1, ChooseMarketRuleGood
<1>8. ASSUME NEW q \in Adjustments, AdjustRateAtTarget(q[1], q[2])
      PROVE  TypeOK' /\ Quiet
  <2>1. q[1] \in Assets /\ q[2] \in Nat
    BY RequestAssumption
  <2>2. QED
    BY <1>8, <2>1, AdjustRateAtTargetGood
<1>9. QED
  BY <1>1, <1>2, <1>3, <1>4, <1>5, <1>6, <1>7, <1>8, AccumulateInterestGood DEF ClientNext, Moves

LEMMA AdminGood ==
  ASSUME TypeOK, AdminNext
  PROVE  TypeOK' /\ Quiet
<1>1. (\E i \in Assets : TRUE) /\ (\E f \in FeesState : TRUE)
  <2>1. 0 \in Assets
    BY PoolAssumption DEF Assets
  <2>2. [deposit |-> 0, debt |-> 0] \in FeesState
    BY ScaleAssumption DEF FeesState
  <2>3. QED
    BY <2>1, <2>2
<1>2. ASSUME NEW q \in Admin.active, SetReserveIsActive(q[1], q[2]) PROVE TypeOK' /\ Quiet
  <2>1. q[1] \in Assets /\ q[2] \in BOOLEAN
    BY AdminAssumption
  <2>2. QED
    BY <1>1, <1>2, <2>1, SetReserveGood
<1>3. ASSUME NEW q \in Admin.frozen, SetReserveIsFrozen(q[1], q[2]) PROVE TypeOK' /\ Quiet
  <2>1. q[1] \in Assets /\ q[2] \in BOOLEAN
    BY AdminAssumption
  <2>2. QED
    BY <1>1, <1>3, <2>1, SetReserveGood
<1>4. ASSUME NEW q \in Admin.limits, SetReserveRestrictions(q[1], q[2]) PROVE TypeOK' /\ Quiet
  <2>1. q[1] \in Assets /\ q[2] \in LimitState
    BY AdminAssumption
  <2>2. QED
    BY <1>4, <2>1, SetReserveRestrictionsGood
<1>5. ASSUME NEW q \in Admin.model, SetInterestRateModel(q[1], q[2]) PROVE TypeOK' /\ Quiet
  <2>1. q[1] \in Assets /\ q[2] \in ModelState
    BY AdminAssumption
  <2>2. QED
    BY <1>5, <2>1, SetInterestRateModelGood
<1>6. ASSUME NEW q \in Admin.fees, SetReserveFees(q[1], q[2]) PROVE TypeOK' /\ Quiet
  <2>1. q[1] \in Assets /\ q[2] \in FeesState
    BY AdminAssumption
  <2>2. QED
    BY <1>6, <2>1, SetReserveGood
<1>7. ASSUME NEW q \in Admin.stableRate, SetStablecoinDebtRate(q[1], q[2]) PROVE TypeOK' /\ Quiet
  <2>1. q[1] \in Assets /\ q[2] \in Nat
    BY AdminAssumption
  <2>2. QED
    BY <1>1, <1>7, <2>1, SetReserveGood
<1>8. ASSUME NEW rule \in Admin.newRule, AddMarketRule(rule) PROVE TypeOK' /\ Quiet
  BY <1>8, AdminAssumption, AddMarketRuleGood
<1>9. ASSUME NEW q \in Admin.assetRule, ModifyAssetRule(q[1], q[2], q[3]) PROVE TypeOK' /\ Quiet
  <2>1. q[1] \in Nat /\ q[2] \in Assets /\ q[3] \in AssetRules
    BY AdminAssumption
  <2>2. QED
    BY <1>9, <2>1, ModifyAssetRuleGood
<1>10. ASSUME NEW assets \in Admin.income, TakeProtocolIncome(assets) PROVE TypeOK' /\ Quiet
  BY <1>10, AdminAssumption, TakeProtocolIncomeGood
<1>11. QED
  BY <1>2, <1>3, <1>4, <1>5, <1>6, <1>7, <1>8, <1>9, <1>10 DEF AdminNext

LEMMA NextGood ==
  ASSUME TypeOK, [Next]_vars
  PROVE  TypeOK' /\ (SafeRequests => Moves)
<1>1. CASE ClientNext
  BY <1>1, ClientGood
<1>2. CASE AdminNext \/ WorldNext
  BY <1>2, AdminGood, WorldGood DEF Moves
<1>3. CASE UNCHANGED vars
  BY <1>3 DEF TypeOK, Moves, Quiet, vars, book, setup
<1>4. QED
  BY <1>1, <1>2, <1>3 DEF Next

LEMMA InitGood ==
  ASSUME Init
  PROVE  TypeOK /\ LedgerBalanced
<1>1. E6 \in Nat /\ E18 \in U128 /\ E18 \in Nat /\ 0 \in U128
  BY ScaleAssumption DEF U128
<1>2. \A i \in Assets : InitialFees[i].deposit \in Nat /\ InitialFees[i].debt \in Nat
  BY <1>1, PoolAssumption DEF FeesState
<1>3. reserve \in [Assets -> ReserveState]
  BY <1>1, <1>2 DEF Init, NewReserve, ReserveState
<1>4. NoPosition \in PositionState
  BY <1>1 DEF NoPosition, PositionState
<1>5. data \in [Accounts -> [Assets -> PositionState]]
  BY <1>4 DEF Init
<1>6. config \in [Accounts -> ConfigState(Assets, Nat)]
  BY DEF Init, ConfigState
<1>7. Len(rules) \in Nat /\ 0 < Len(rules)
  BY PoolAssumption DEF Init
<1>8. \A a \in Accounts : config[a].rule < Len(rules)
  BY <1>7 DEF Init
<1>9. \A i \in Assets : vault[i] \in 0 .. Supply[i]
  BY PoolAssumption, ScaleAssumption DEF Init, U128
<1>10. TypeOK
  BY <1>3, <1>5, <1>6, <1>8, <1>9, PoolAssumption DEF Init, TypeOK
<1>11. LedgerBalanced
  <2>1. ASSUME NEW i \in Assets
        PROVE  /\ DepositsOf(i) = [a \in Accounts |-> 0] /\ DebtsOf(i) = [a \in Accounts |-> 0]
               /\ reserve[i].totalDeposit = 0 /\ reserve[i].totalDebt = 0
    BY DEF Init, DepositsOf, DebtsOf, NoPosition, NewReserve
  <2>2. QED
    BY <2>1, TotalOfNothing DEF LedgerBalanced
<1>12. QED
  BY <1>10, <1>11

\* The types are right in every reachable state, whoever asks for what: no
\* amount, index or total leaves its width, the pool never pays out more than
\* it holds, and every account's market rule exists.
THEOREM TypeCorrect == Spec => []TypeOK
<1>1. Init => TypeOK
  BY InitGood
<1>2. TypeOK /\ [Next]_vars => TypeOK'
  BY NextGood
<1>3. QED
  BY <1>1, <1>2, PTL DEF Spec

LEMMA LedgerStep ==
  ASSUME SafeRequests, TypeOK, LedgerBalanced, [Next]_vars
  PROVE  TypeOK' /\ LedgerBalanced'
<1>1. TypeOK' /\ Moves
  BY NextGood
<1>2. LedgerBalanced'
  BY <1>1, QuietLedger, OneMovesLedger, TwoMoveLedger DEF Moves
<1>3. QED
  BY <1>1, <1>2

\* As long as the requests are safe, a reserve's total deposit is the sum of
\* the account deposits and its total debt the sum of the account debts, for
\* any number of accounts and assets: the invariant that the checked
\* subtractions of reserve_data.rs:109 and 132 rely on.
THEOREM LedgerCorrect ==
  ASSUME SafeRequests
  PROVE  Spec => []LedgerBalanced
<1>1. Init => TypeOK /\ LedgerBalanced
  BY InitGood
<1>2. TypeOK /\ LedgerBalanced /\ [Next]_vars => (TypeOK /\ LedgerBalanced)'
  BY LedgerStep
<1>3. QED
  BY <1>1, <1>2, PTL DEF Spec

-----------------------------------------------------------------------------
(* Repaying all of a debt *)

LEMMA PartOfTotal ==
  ASSUME NEW S, IsFiniteSet(S), NEW f \in [S -> Nat], NEW a \in S
  PROVE  f[a] <= Total(f)
<1>1. IsFiniteSet(Coins(f)) /\ Total(f) = Cardinality(Coins(f))
  BY FiniteCoins DEF Total
<1>2. CoinsOf(a, f[a]) \subseteq Coins(f)
  BY DEF Coins
<1>3. Cardinality(CoinsOf(a, f[a])) = f[a]
  BY CoinCount
<1>4. Cardinality(CoinsOf(a, f[a])) <= Cardinality(Coins(f))
  BY <1>1, <1>2, FS_Subset
<1>5. QED
  BY <1>1, <1>3, <1>4

LEMMA DebtGrowsByInterest ==
  ASSUME NEW R, NEW x \in Contexts(Assets, R), NEW cut, Accumulate(x, cut).ok
  PROVE  Accumulate(x, cut).d.debt >= x.d.debt
<1>1. CASE UpToDate(x.r, x.d)
  <2>1. Accumulate(x, cut) = x
    BY <1>1 DEF Accumulate
  <2>2. x.d.debt \in Int
    BY ScaleAssumption DEF Contexts, PositionState, U128
  <2>3. QED
    BY <2>1, <2>2
<1>2. CASE ~UpToDate(x.r, x.d)
  <2> DEFINE bi == DebtInterest(x.r, x.d, cut)
  <2>1. bi \in U128 /\ Accumulate(x, cut).d.debt = x.d.debt + bi
    BY <1>2, AccrueFits DEF Accumulate, Accrue, Try, Fail, Contexts
  <2> HIDE DEF bi
  <2>2. x.d.debt \in Int /\ U128 = 0 .. U128Max /\ U128Max \in Nat
    BY ScaleAssumption DEF Contexts, PositionState, U128
  <2>3. QED
    BY <2>1, <2>2
<1>3. QED
  BY <1>1, <1>2

LEMMA DebtRepayable ==
  ASSUME TypeOK, LedgerBalanced, NEW a \in Accounts, NEW i \in Assets,
         reserve[i].active, data[a][i].debt # 0, RepaymentFits(a, i)
  PROVE  Close(AccountForRepay(Open(reserve[i], data[a][i], config[a]),
                               i, U128Max, TRUE, FeeReduction[a], limits[i]), i).ok
<1> DEFINE x == Open(reserve[i], data[a][i], config[a])
           y == Accumulate(x, FeeReduction[a])
           n == RepaidAmount(x, U128Max, TRUE, FeeReduction[a])
           z == DecreaseDebt(y, i, n)
           w == AccountForRepay(x, i, U128Max, TRUE, FeeReduction[a], limits[i])
<1>1. /\ U128 = 0 .. U128Max /\ U128Max \in Nat
      /\ reserve[i] \in ReserveState /\ data[a][i] \in PositionState
      /\ config[a] \in ConfigState(Assets, RuleIds) /\ now \in Nat
  <2>1. U128 = 0 .. U128Max /\ U128Max \in Nat
    BY ScaleAssumption DEF U128
  <2>2. reserve[i] \in ReserveState /\ data[a][i] \in PositionState /\ now \in Nat
    BY DEF TypeOK
  <2>3. QED
    BY <2>1, <2>2, ConfigsTyped
<1>2. x \in Contexts(Assets, RuleIds) /\ Keeps(Context(reserve[i], data[a][i], config[a]), x)
  BY <1>1, OpenGood
<1>3. x.ok /\ y.ok /\ CanRerate([y.r EXCEPT !.totalDebt = @ - y.d.debt], model[i])
  BY DEF RepaymentFits
<1>4. x.d = data[a][i] /\ x.r.active
  BY <1>3 DEF Open, Try, Fail, Context, Updated
<1>5. y \in Contexts(Assets, RuleIds) /\ Keeps(x, y)
  BY <1>2, AccumulateGood
<1>6. y.d.debt >= data[a][i].debt
  BY <1>2, <1>3, <1>4, DebtGrowsByInterest
<1>7. reserve[i].totalDebt >= data[a][i].debt
  <2>1. DebtsOf(i) \in [Accounts -> Nat]
    BY <1>1 DEF DebtsOf, TypeOK, PositionState
  <2>2. DebtsOf(i)[a] <= Total(DebtsOf(i))
    BY <2>1, PoolAssumption, PartOfTotal
  <2>3. DebtsOf(i)[a] = data[a][i].debt /\ Total(DebtsOf(i)) = reserve[i].totalDebt
    BY DEF DebtsOf, LedgerBalanced
  <2>4. reserve[i].totalDebt \in Int /\ data[a][i].debt \in Int
    BY <1>1 DEF ReserveState, PositionState
  <2>5. QED
    BY <2>2, <2>3, <2>4
<1>8. /\ y.d.debt \in U128 /\ y.r.totalDebt \in U128
      /\ x.d.debt \in U128 /\ x.r.totalDebt \in U128
      /\ data[a][i].debt \in U128 /\ reserve[i].totalDebt \in U128
  BY <1>1, <1>2, <1>5 DEF Contexts, ReserveState, PositionState
<1>9. y.r.totalDebt - y.d.debt \in U128
  <2>1. /\ x.r.totalDebt - x.d.debt = reserve[i].totalDebt - data[a][i].debt
        /\ y.r.totalDebt - y.d.debt = x.r.totalDebt - x.d.debt
    BY <1>2, <1>5 DEF Keeps, Context
  <2>2. QED
    BY <1>1, <1>7, <1>8, <2>1
<1>10. n = y.d.debt
  BY <1>1, <1>8 DEF RepaidAmount, Least
<1>11. z.ok /\ z.d.debt = 0 /\ z.r = [y.r EXCEPT !.totalDebt = @ - y.d.debt]
  <2> HIDE DEF x, y, n
  <2>1. y.d.debt - n = 0 /\ 0 \in U128
    BY <1>1, <1>8, <1>10
  <2>2. z = [y EXCEPT !.c.borrows = IF n = y.d.debt THEN @ \ {i} ELSE @,
                      !.d.debt = @ - n, !.r.totalDebt = @ - n]
    BY <1>3, <1>9, <1>10, <2>1 DEF DecreaseDebt, Try
  <2>3. QED
    BY <1>3, <1>5, <1>10, <2>1, <2>2 DEF Contexts, ReserveState, PositionState
<1>12. z \in Contexts(Assets, RuleIds)
  <2> HIDE DEF x, y, n
  <2>1. n \in Int
    BY <1>1, <1>8, <1>10
  <2>2. QED
    BY <1>5, <2>1, DecreaseDebtGood
<1>13. y.d.debt # 0
  BY <1>1, <1>6, <1>8
<1>14. w = z
  BY <1>4, <1>11, <1>13 DEF AccountForRepay, Try, DebtLargeEnough
<1>15. Close(z, i).ok
  <2> HIDE DEF x, y, z
  <2>1. z.ok /\ CanRerate(z.r, model[i])
    BY <1>3, <1>11
  <2>2. Close(z, i) = [z EXCEPT !.r = Rerated(z.r, model[i])]
    BY <2>1 DEF Close, Try
  <2>3. [z EXCEPT !.r = Rerated(z.r, model[i])].ok = z.ok
    BY <1>12
  <2>4. QED
    BY <2>1, <2>2, <2>3
<1>16. QED
  BY <1>14, <1>15

\* A debtor who repays everything into an active reserve succeeds whenever the
\* numbers of the repayment fit: neither the checked subtraction of
\* reserve_data.rs:132 nor the minimal debt, a limit or a freeze set since the
\* debt was made stops him.
THEOREM DebtsRepayable ==
  ASSUME SafeRequests
  PROVE  Spec => []Repayable
<1>1. Init => TypeOK /\ LedgerBalanced
  BY InitGood
<1>2. TypeOK /\ LedgerBalanced /\ [Next]_vars => (TypeOK /\ LedgerBalanced)'
  BY LedgerStep
<1>3. TypeOK /\ LedgerBalanced => Repayable
  BY DebtRepayable DEF Repayable
<1>4. QED
  BY <1>1, <1>2, <1>3, PTL DEF Spec
=============================================================================
