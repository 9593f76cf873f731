----------------------------- MODULE MCFlashLoans -----------------------------
(* Small instances of FlashLoans, with the values of MCLendingPool. *)
EXTENDS FlashLoans, MCLendingPool

\* System: one asset, which a lends and borrows back until the rule of
\* the asset becomes stricter.  b takes from a's deposit and a borrows on b's account as far as
\* they allow it; b takes a's debt over and liquidates a.
SystemRequests == ({a} \X (Acts({"Deposit"}, {0}, {2}) \cup Acts({"Withdraw", "Borrow", "Repay"}, {0}, {1})))
                  \cup ({b} \X Acts({"Borrow"}, {0}, {1}))
SystemOps == {a} \X { <<Act("Withdraw", 0, 1), Act("Repay", 0, 1)>> }
Themselves == {<<a, a>>, <<b, b>>}
ForEachOther == Themselves \cup {<<b, a>>, <<a, b>>}
Allowances == {<<"aToken", 0, a, b, 1>>, <<"vToken", 0, b, a, 1>>}
AllowsItself == [t \in Tokens |-> [i \in Assets |-> [p \in Accounts \X Accounts |->
                  IF t = "vToken" /\ p = <<a, a>> THEN 1 ELSE 0]]]
AllowsNothing == [t \in Tokens |-> [i \in Assets |-> [p \in Accounts \X Accounts |-> 0]]]
RuleOfA == {<<a, 0>>}
SameRate == {<<0, 0>>}
SystemTransfers == {<<a, b, 0, 1>>}
SystemSwitches == {<<a, 0, TRUE>>, <<b, 0, TRUE>>}
SystemLiquidations == {<<b, a, 0, 0, 1>>}
SystemLoans == {<<a, <<0>>, <<2>>>>}
SystemAdmin == [NoAdmin EXCEPT !.assetRule = {<<0, 0, HalfRule>>}]
SystemLimits == [i \in Assets |-> [maxDeposit |-> 2, maxDebt |-> 2, minCollateral |-> 1, minDebt |-> 1]]
NoReduction == [x \in Accounts |-> 0]
FeeOne == {1}

\* Allowance: a lets b withdraw one unit; b puts an operation before it.
AllowanceRequests == {a} \X Acts({"Deposit"}, {0}, {2})
FirstThenWithdraw == {a} \X { <<Act("Deposit", 1, 1), Act("Withdraw", 0, 2)>> }
Withdrawals == {<<"aToken", 0, a, b, 1>>, <<"aToken", 0, a, b, 2>>}

\* Counter: a borrows flash and switches a collateral on in between.
CounterLoans == {<<a, <<0>>, <<1>>>>}
CounterSwitches == {<<a, 0, TRUE>>}
=============================================================================
