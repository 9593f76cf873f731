----------------------------- MODULE AbacusTokens -----------------------------
(***************************************************************************)
(* The lending pool together with the aToken and vToken contracts of its   *)
(* assets, and with callers who act for others.                            *)
(*                                                                         *)
(* The tokens keep no balances, only allowances; a balance is what the     *)
(* pool's view answers.  An allowance of an aToken lets the spender take   *)
(* the owner's deposit, one of a vToken lets him make the owner owe.  A    *)
(* transfer of a token calls the pool, and a withdrawal or a borrow for    *)
(* somebody else makes the pool call the token to use up the allowance.    *)
(* All contracts called take part in one message and roll back together.   *)
(***************************************************************************)
EXTENDS LendingPool

CONSTANTS
  OnBehalf,      \* <<caller, account>> pairs: who sends requests for whom
  Approvals,     \* <<token, asset, owner, spender, amount>>
  MaxAllowance,  \* bound on increased allowances
  InitialAllowances   \* what has been allowed before anybody used the pool

Tokens == {"aToken", "vToken"}

ASSUME TokensAssumption ==
  /\ OnBehalf \subseteq Accounts \X Accounts
  /\ Approvals \subseteq Tokens \X Assets \X Accounts \X Accounts \X Nat
  /\ MaxAllowance \in Nat
  /\ InitialAllowances \in [Tokens -> [Assets -> [Accounts \X Accounts -> Nat]]]

VARIABLES
  allowed,   \* token -> asset -> <<owner, spender>> -> allowance
  sender     \* history: who sent the last message; None for the environment

tokenVars == <<vars, allowed, sender>>

InitTokens ==
  /\ Init
  /\ allowed = InitialAllowances
  /\ sender = None

-----------------------------------------------------------------------------
(* allowances: the owner sends these *)

SetAllowance(t, i, owner, spender, n) ==
  /\ allowed' = [allowed EXCEPT ![t][i][<<owner, spender>>] = n]
  /\ sender' = owner
  /\ UNCHANGED vars

Approve(t, i, owner, spender, n) == SetAllowance(t, i, owner, spender, n)

IncreaseAllowance(t, i, owner, spender, n) ==
  /\ allowed[t][i][<<owner, spender>>] + n <= MaxAllowance
  /\ SetAllowance(t, i, owner, spender, allowed[t][i][<<owner, spender>>] + n)

DecreaseAllowance(t, i, owner, spender, n) ==
  /\ allowed[t][i][<<owner, spender>>] >= n
  /\ SetAllowance(t, i, owner, spender, allowed[t][i][<<owner, spender>>] - n)

\* Mutant: more can be used than was allowed.
SpendAnything(t, i, owner, spender, n) ==
  allowed' = [allowed EXCEPT ![t][i][<<owner, spender>>] = @ - n]

\* A message that uses n of one allowance.
Spend(t, i, owner, spender, n) ==
  /\ allowed[t][i][<<owner, spender>>] >= n
  /\ allowed' = [allowed EXCEPT ![t][i][<<owner, spender>>] = @ - n]

-----------------------------------------------------------------------------
(* transfers; c is the caller *)

\* The aToken's transfer, which the owner calls, and transfer_from.
ATokenTransfer(c, f, t, i, n) ==
  /\ TransferDeposit(f, t, i, n)
  /\ \/ c = f /\ UNCHANGED allowed
     \/ Spend("aToken", i, f, c, n)
  /\ sender' = c

\* Mutant: transfer_from uses up the allowance it looked at.
VTokenTransferFromSender(c, f, t, i, n) ==
  /\ TransferDebt(f, t, i, n)
  /\ \/ c = f /\ Spend("vToken", i, t, f, n)
     \/ Spend("vToken", i, f, c, n)
  /\ sender' = c

\* The vToken's transfer, which needs an allowance of who takes the debt over,
\* and transfer_from, which looks at the allowance of the one who passes the
\* debt on as well, and uses up that of the other.
VTokenTransfer(c, f, t, i, n) ==
  /\ TransferDebt(f, t, i, n)
  /\ \/ c = f /\ Spend("vToken", i, t, f, n)
     \/ allowed["vToken"][i][<<f, c>>] >= n /\ Spend("vToken", i, t, c, n)
  /\ sender' = c

-----------------------------------------------------------------------------
(* deposit, withdraw, borrow, repay and multi_op, called by c for a *)

\* What an action's amount is once the pool has clamped it.
FinalAmount(s, a, act) ==
  LET x == Open(s.reserve[act.asset], s.data[act.asset], s.config)
  IN  CASE act.op = "Withdraw" -> WithdrawnAmount(x, act.amount, TRUE, FeeReduction[a])
        [] act.op = "Repay"    -> RepaidAmount(x, act.amount, TRUE, FeeReduction[a])
        [] OTHER               -> act.amount

\* The final amounts of one or two actions.
FinalAmounts(a, acts) ==
  [k \in DOMAIN acts |->
     FinalAmount(IF k = 1 THEN Session(a) ELSE Step(Session(a), a, acts[1]), a, acts[k])]

\* Every withdrawal of a multi_op uses up the amount of its FIRST action.
UsedAmount(t, ns, k) == IF t = "aToken" THEN ns[1] ELSE ns[k]

\* The operation a token's allowance is needed for.
Needs(t) == IF t = "aToken" THEN "Withdraw" ELSE "Borrow"

Used(t, i, acts, ns) ==
  Total([k \in {j \in DOMAIN acts : acts[j].op = Needs(t) /\ acts[j].asset = i}
           |-> UsedAmount(t, ns, k)])

\* The owner needs no allowance.
SpendFor(c, a, acts) ==
  IF c = a THEN UNCHANGED allowed
  ELSE \E ns \in {FinalAmounts(a, acts)} :
         /\ \A t \in Tokens, i \in Assets : allowed[t][i][<<a, c>>] >= Used(t, i, acts, ns)
         /\ allowed' = [t \in Tokens |-> [i \in Assets |->
                          [allowed[t][i] EXCEPT ![<<a, c>>] = @ - Used(t, i, acts, ns)]]]

Call(c, a, act) == Operate(a, act) /\ SpendFor(c, a, <<act>>) /\ sender' = c

MultiCall(c, a, acts) == MultiOp(a, acts) /\ SpendFor(c, a, acts) /\ sender' = c

-----------------------------------------------------------------------------
TransferNext ==
  \/ \E c \in Accounts, q \in DepositTransfers : ATokenTransfer(c, q[1], q[2], q[3], q[4])
  \/ \E c \in Accounts, q \in DebtTransfers : VTokenTransfer(c, q[1], q[2], q[3], q[4])

CallNext ==
  \/ \E p \in OnBehalf, q \in Requests : p[2] = q[1] /\ Call(p[1], q[1], q[2])
  \/ \E p \in OnBehalf, q \in MultiRequests : p[2] = q[1] /\ MultiCall(p[1], q[1], q[2])
  \/ \E q \in Liquidations : /\ Liquidate(q[1], q[2], q[3], q[4], q[5])
                             /\ sender' = q[1] /\ UNCHANGED allowed

AllowanceNext ==
  \/ \E q \in Approvals : Approve(q[1], q[2], q[3], q[4], q[5])
  \/ \E q \in Approvals : IncreaseAllowance(q[1], q[2], q[3], q[4], q[5])
  \/ \E q \in Approvals : DecreaseAllowance(q[1], q[2], q[3], q[4], q[5])

-----------------------------------------------------------------------------
(* Properties *)

TokenTypeOK ==
  /\ allowed \in [Tokens -> [Assets -> [Accounts \X Accounts -> Nat]]]
  /\ sender \in Accounts \cup {None}

\* What a step takes out of a's deposit of asset i, and adds to a's debt,
\* beside the interest.
TakenFrom(a, i) ==
  IF data'[a][i] = data[a][i] THEN 0
  ELSE data[a][i].deposit - data'[a][i].deposit
         + DepositInterest(Updated(reserve[i], now), data[a][i], FeeReduction[a])

ChargedTo(a, i) ==
  IF data'[a][i] = data[a][i] THEN 0
  ELSE data'[a][i].debt - data[a][i].debt
         - DebtInterest(Updated(reserve[i], now), data[a][i], FeeReduction[a])

\* How much the allowance that a gave to the sender loses.
SpentOf(t, a, i) == allowed[t][i][<<a, sender'>>] - allowed'[t][i][<<a, sender'>>]

\* a is not collateralized and somebody repays for it.
LiquidationOf(a) ==
  /\ ~Backed(a, reserve, data[a], config[a])
  /\ \E j \in Assets : ChargedTo(a, j) < 0

\* abacus_token_trait.rs:31, "Alice makes withdraw on behalf of Bob ... emits
\* Transfer event and decreases allowance": nobody takes more from another's
\* deposit, or makes another owe more, than what the allowance that the other
\* gave him loses; the exception is a liquidation of an account that is not
\* collateralized.
AllowanceCovers ==
  [][\A a \in Accounts : sender' \in {a, None} \/ LiquidationOf(a) \/
       \A i \in Assets : /\ TakenFrom(a, i) <= SpentOf("aToken", a, i)
                         /\ ChargedTo(a, i) <= SpentOf("vToken", a, i)]_tokenVars
=============================================================================
