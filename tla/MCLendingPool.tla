---------------------------- MODULE MCLendingPool ----------------------------
(* Small instances of LendingPool; the cfg files pick among these values. *)
EXTENDS LendingPool

CONSTANTS a, b   \* accounts

Act(op, i, n) == [op |-> op, asset |-> i, amount |-> n]
Acts(ops, ids, ns) == {Act(op, i, n) : op \in ops, i \in ids, n \in ns}

Pair(i, x, y) == [j \in Assets |-> IF j = i THEN x ELSE y]

\* Rules: half of a collateral's value can be owed; no penalty.
HalfRule == [collateral |-> 2, borrow |-> 4, penalty |-> 0]
BonusRule == [collateral |-> 2, borrow |-> 4, penalty |-> 2]
FullRule == [collateral |-> 4, borrow |-> 4, penalty |-> 0]
FullRules == << [i \in Assets |-> FullRule] >>
BonusRules == << [i \in Assets |-> BonusRule] >>

NoCut == [x \in Accounts |-> [deposit |-> 0, debt |-> 0]]
FreeModel == [target |-> 3, rateAtTarget |-> 0, rateAtMax |-> 0]
CostlyModel == [target |-> 2, rateAtTarget |-> 2, rateAtMax |-> 4]

FreeModels == [i \in Assets |-> FreeModel]
CostlyModels == [i \in Assets |-> CostlyModel]
NoFees == [i \in Assets |-> [deposit |-> 0, debt |-> 0]]
SomeFees == [i \in Assets |-> [deposit |-> 1, debt |-> 1]]
NoLimits == [i \in Assets |-> [maxDeposit |-> U128Max, maxDebt |-> U128Max,
                               minCollateral |-> 0, minDebt |-> 0]]
PriceOne == [i \in Assets |-> 1]
UnitOne == [i \in Assets |-> 1]
SupplyThree == [i \in Assets |-> 3]
SupplyFour == [i \in Assets |-> 4]
Nobody == {}
NoAdmin == [active |-> {}, frozen |-> {}, limits |-> {}, model |-> {}, fees |-> {},
            stableRate |-> {}, newRule |-> {}, assetRule |-> {}, income |-> {}]
SteadyPrices == [i \in Assets |-> {}]

-----------------------------------------------------------------------------
\* Interest: a lends asset 0 and borrows it back, b lends.
InterestRequests == ({a} \X Acts(Operations, {0}, {2})) \cup ({b} \X Acts({"Deposit", "Withdraw"}, {0}, {2}))
AOnZero == {<<a, 0, TRUE>>}
LowerTarget == {<<0, 1>>}
HalfCutForA == [x \in Accounts |-> IF x = a THEN [deposit |-> 2, debt |-> 2] ELSE [deposit |-> 0, debt |-> 0]]

\* Backing: a owes asset 1 on its deposit of asset 0, b lends and may take over
\* a's debt; a also sends pairs of operations.
BackingRequests == ({a} \X (Acts({"Deposit", "Withdraw"}, {0}, {1, 2})
                           \cup Acts({"Borrow"}, {1}, {2}) \cup Acts({"Repay"}, {1}, {1, 2})))
                   \cup ({b} \X Acts({"Deposit", "Withdraw"}, {1}, {2}))
SwapOps == {a} \X { <<Act("Withdraw", 0, 1), Act("Borrow", 1, 2)>>, <<Act("Repay", 1, 2), Act("Withdraw", 0, 2)>> }
BackingSwitches == {<<a, 0, TRUE>>, <<a, 0, FALSE>>, <<b, 1, TRUE>>, <<b, 1, FALSE>>}
BackingLimits == [i \in Assets |-> [maxDeposit |-> 4, maxDebt |-> 3, minCollateral |-> 1, minDebt |-> 2]]
BTransfers == {<<b, a, 1, 1>>}
DebtToB == {<<a, b, 1, 2>>}
BLiquidatesA == {<<b, a, 1, 0, 2>>}
EitherCloses == [NoAdmin EXCEPT !.active = {<<0, TRUE>>, <<0, FALSE>>, <<1, TRUE>>, <<1, FALSE>>}]
FallingPrices == [i \in Assets |-> IF i = 0 THEN {1, 2} ELSE {}]
PriceTwo == [i \in Assets |-> IF i = 0 THEN 2 ELSE 1]

\* Governance: the admins change all but what is open, and set the fees as they
\* are, which empties the fee book; asset 1 is a stablecoin, borrowed on a
\* deposit of asset 0.
StableModels == Pair(1, None, FreeModel)
OpenRule == [collateral |-> 4, borrow |-> 2, penalty |-> 1]
NoBorrowRule == [collateral |-> 4, borrow |-> None, penalty |-> 1]
GovernanceAdmin ==
  [active |-> {}, frozen |-> {<<1, TRUE>>},
   limits |-> {<<1, [maxDeposit |-> 2, maxDebt |-> 1, minCollateral |-> 1, minDebt |-> 3]>>},
   model |-> {<<0, CostlyModel>>}, fees |-> {<<0, [deposit |-> 1, debt |-> 1]>>},
   stableRate |-> {<<1, 3>>}, newRule |-> {Pair(0, OpenRule, NoBorrowRule)},
   assetRule |-> {<<0, 0, HalfRule>>}, income |-> {<<0, 1>>, <<1>>}]
GovernanceRequests == ({a} \X (Acts({"Deposit", "Withdraw"}, {0}, {4}) \cup {Act("Borrow", 0, 1)} \cup Acts({"Borrow", "Repay"}, {1}, {2})))
                      \cup ({b} \X {Act("Deposit", 1, 1), Act("Borrow", 0, 1)})
SwitchOfEach == {<<a, 0, TRUE>>, <<b, 1, TRUE>>}
\* A rate at the target that the width of a rate admits at some utilizations only.
HighTarget == {<<0, 30>>}
GovernanceLimits == [i \in Assets |-> [maxDeposit |-> 4, maxDebt |-> 2, minCollateral |-> 0, minDebt |-> 0]]
RulesOfA == {<<a, 0>>, <<a, 1>>}

-----------------------------------------------------------------------------
\* The disagreements with docs and comments.
TransferRequests == {a, b} \X Acts({"Deposit"}, {0, 1}, {1})
FirstAssetTransfer == {<<b, a, 0, 1>>}
SelfRequests == {a} \X (Acts({"Deposit"}, {0}, {2}) \cup Acts({"Deposit", "Withdraw", "Borrow"}, {0}, {1}))
FreezeAdmin == [NoAdmin EXCEPT !.frozen = {<<0, TRUE>>}, !.active = {<<0, FALSE>>}]
DroppingRule == [collateral |-> None, borrow |-> 4, penalty |-> 1]
RuleAdmin == [NoAdmin EXCEPT !.assetRule = {<<0, 0, DroppingRule>>}]
IncomeAdmin == [NoAdmin EXCEPT !.income = {<<0, 1>>}]
=============================================================================
