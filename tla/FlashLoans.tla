------------------------------ MODULE FlashLoans ------------------------------
(***************************************************************************)
(* The whole system: the pool and its tokens (AbacusTokens), flash loans   *)
(* and the account registrar.                                              *)
(*                                                                         *)
(* flash_loan sends the assets out, calls the receiver with reentry        *)
(* allowed, and takes the assets and the fees back when it returns.  While *)
(* the receiver runs, it (and the contracts it calls) may send the pool    *)
(* and the tokens any message, other flash loans included, so a loan is a  *)
(* frame on a stack: OpenLoan pushes it, FinishLoan and AbortLoan pop it.  *)
(* No time passes, no price moves and no admin acts within a loan.  An     *)
(* aborted loan rolls back everything its frame has done; the receiver of  *)
(* an outer loan may go on after an inner one has failed.                  *)
(***************************************************************************)
EXTENDS AbacusTokens

CONSTANTS
  LoanRequests,      \* <<caller, assets, amounts>>
  FlashReduction,    \* per account: the fee reduction for flash loans
  InitialFlashFee,
  FlashFees,         \* the fees the admin may set
  MaxLoans           \* bound on the depth of the stack

ASSUME LoanAssumption ==
  /\ LoanRequests \subseteq Accounts \X Seq(Assets) \X Seq(Nat)
  /\ FlashReduction \in [Accounts -> Nat]
  /\ InitialFlashFee \in Nat /\ FlashFees \subseteq Nat
  /\ MaxLoans \in Nat

VARIABLES
  loans,              \* open flash loans, the innermost last
  flashFee,           \* flash_loan_fee_e6
  nextCounter,        \* AccountRegistrar: the next free counter
  accountToCounter,   \* account -> counter or None
  counterToAccount    \* counter -> account or None

registrar == <<nextCounter, accountToCounter, counterToAccount>>
loanVars  == <<loans, flashFee>>
allVars   == <<tokenVars, loanVars, registrar>>

Counters == 0 .. Cardinality(Accounts)

InitAll ==
  /\ InitTokens
  /\ loans = <<>>
  /\ flashFee = InitialFlashFee
  /\ nextCounter = 0
  /\ accountToCounter = [x \in Accounts |-> None]
  /\ counterToAccount = [k \in Counters |-> None]

-----------------------------------------------------------------------------
(* the account registrar *)

\* ensure_registered
Register(x) ==
  IF accountToCounter[x] # None THEN UNCHANGED registrar
  ELSE /\ counterToAccount' = [counterToAccount EXCEPT ![nextCounter] = x]
       /\ accountToCounter' = [accountToCounter EXCEPT ![x] = nextCounter]
       /\ nextCounter' = nextCounter + 1

\* set_as_collateral registers the caller first.
SwitchCollateral(x, i, on) ==
  /\ SetAsCollateral(x, i, on)
  /\ Register(x)
  /\ sender' = x
  /\ UNCHANGED <<allowed, loanVars>>

-----------------------------------------------------------------------------
(* flash loans *)

\* What a failing frame rolls back to; nobody changes anything else within it.
Snapshot ==
  [reserve |-> reserve, data |-> data, config |-> config, vault |-> vault,
   model |-> model, allowed |-> allowed, nextCounter |-> nextCounter,
   accountToCounter |-> accountToCounter, counterToAccount |-> counterToAccount]

\* Mutant: the fee is rounded down.
LoanFeeDown(n, c) ==
  MulDivDown(MulDivDown(n, flashFee, E6), Monus(E6, FlashReduction[c]), E6)

LoanFee(n, c) ==
  MulDivUp(MulDivUp(n, flashFee, E6), Monus(E6, FlashReduction[c]), E6)

\* The sum of the entries of `amounts' that are of asset i.
OfAsset(i, assets, amounts) ==
  Total([k \in {n \in DOMAIN assets : assets[n] = i} |-> amounts[k]])

OpenLoan(c, assets, amounts) ==
  LET v == [i \in Assets |-> Sent(i, vault[i], OfAsset(i, assets, amounts))]
  IN  /\ Len(loans) < MaxLoans
      /\ Len(assets) = Len(amounts)
      /\ \A k \in DOMAIN amounts : amounts[k] # 0
      /\ \A i \in Assets : Possible(i, v[i])
      /\ vault' = v
      /\ loans' = Append(loans,
           [caller |-> c, assets |-> assets, amounts |-> amounts,
            fees |-> [k \in DOMAIN amounts |-> LoanFee(amounts[k], c)],
            before |-> Snapshot])
      /\ sender' = c
      /\ UNCHANGED <<now, reserve, data, config, setup, price, allowed, flashFee, registrar>>

Innermost == loans[Len(loans)]
Outer     == SubSeq(loans, 1, Len(loans) - 1)

\* The loan and its fees are taken back and the contract's root storage is
\* written: next_counter is part of it, with the value it had when flash_loan
\* started.  (All that the pool stores besides is written in place.)
FinishLoan ==
  /\ loans # <<>>
  /\ LET l == Innermost
         due(i) == OfAsset(i, l.assets, l.amounts) + OfAsset(i, l.assets, l.fees)
         v == [i \in Assets |-> Received(i, vault[i], due(i))]
     IN  /\ \A i \in Assets : Possible(i, v[i])
         /\ vault' = v
         /\ nextCounter' = l.before.nextCounter
         /\ sender' = l.caller
  /\ loans' = Outer
  /\ UNCHANGED <<now, reserve, data, config, setup, price, allowed, flashFee,
                 accountToCounter, counterToAccount>>

\* The receiver fails or leaves too little: the frame is rolled back.
AbortLoan ==
  /\ loans # <<>>
  /\ LET s == Innermost.before
     IN  /\ reserve' = s.reserve /\ data' = s.data /\ config' = s.config
         /\ vault' = s.vault /\ model' = s.model /\ allowed' = s.allowed
         /\ nextCounter' = s.nextCounter
         /\ accountToCounter' = s.accountToCounter
         /\ counterToAccount' = s.counterToAccount
  /\ loans' = Outer
  /\ sender' = None
  /\ UNCHANGED <<now, limits, rules, price, flashFee>>

SetFlashLoanFee(fee) ==
  /\ flashFee' = fee
  /\ sender' = None
  /\ UNCHANGED <<vars, allowed, loans, registrar>>

-----------------------------------------------------------------------------
\* What anybody may do at any time, in a loan or out of it.
MessageNext ==
  \/ /\ \/ TransferNext
        \/ CallNext
        \/ AllowanceNext
        \/ \E q \in RuleChoices : /\ ChooseMarketRule(q[1], q[2])
                                  /\ sender' = q[1] /\ UNCHANGED allowed
        \/ /\ \/ \E i \in Assets : AccumulateInterest(i)
              \/ \E q \in Adjustments : AdjustRateAtTarget(q[1], q[2])
           /\ sender' \in Accounts /\ UNCHANGED allowed
     /\ UNCHANGED <<loanVars, registrar>>
  \/ \E q \in CollateralSwitches : SwitchCollateral(q[1], q[2], q[3])

LoanNext ==
  \/ \E q \in LoanRequests : OpenLoan(q[1], q[2], q[3])
  \/ FinishLoan
  \/ AbortLoan

\* Between the messages of users.
OutsideNext ==
  /\ loans = <<>>
  /\ \/ (AdminNext \/ WorldNext) /\ sender' = None /\ UNCHANGED <<allowed, loanVars, registrar>>
     \/ \E fee \in FlashFees : SetFlashLoanFee(fee)

NextAll == MessageNext \/ LoanNext \/ OutsideNext

SpecAll == InitAll /\ [][NextAll]_allVars

-----------------------------------------------------------------------------
(* Properties *)

LoanOK(l) ==
  /\ l.caller \in Accounts
  /\ l.assets \in Seq(Assets) /\ Len(l.amounts) = Len(l.assets) /\ Len(l.fees) = Len(l.assets)
  /\ \A k \in DOMAIN l.assets : l.amounts[k] \in Nat /\ l.fees[k] \in Nat
  /\ l.before.vault \in [Assets -> Nat]

\* Types of the composed system.  An account's counter is below the number
\* of accounts, and the pool's balance stays within the supply in a loan too.
SystemTypeOK ==
  /\ TypeOK
  /\ TokenTypeOK
  /\ Len(loans) <= MaxLoans /\ \A k \in DOMAIN loans : LoanOK(loans[k])
  /\ flashFee \in Nat
  /\ nextCounter \in Counters
  /\ accountToCounter \in [Accounts -> Counters \cup {None}]
  /\ counterToAccount \in [Counters -> Accounts \cup {None}]

\* What the pool holds and is owed of asset i, less what it owes and has
\* earned, with the interest that has not been accumulated yet; s is a
\* Snapshot.
Worth(s, i) ==
  LET r == Updated(s.reserve[i], now)
  IN  s.reserve[i].totalDebt - s.reserve[i].totalDeposit - s.reserve[i].earnedFee
        + (IF s.model[i] = None THEN -s.vault[i] ELSE s.vault[i])
        + DebtsGrow(i, r, s.data, Accounts) - DepositsGrow(i, r, s.data, Accounts)

\* The fee for what loan l lent of asset i, before any rounding, times E6 * E6.
ExactFee(l, i) ==
  OfAsset(i, l.assets, l.amounts) * flashFee * Monus(E6, FlashReduction[l.caller])

\* flash.rs:77 lets the receiver call the pool and the tokens between the two
\* transfers.  Whatever it does there, when the loan is over the pool is richer
\* by the whole fee than it was before the loan, or nothing at all has
\* happened.
LoanPays ==
  [][Len(loans') < Len(loans) =>
       LET l == Innermost IN
       \/ <<book, model, allowed, registrar>>' =
            <<<<l.before.reserve, l.before.data, l.before.config, l.before.vault>>,
              l.before.model, l.before.allowed,
              <<l.before.nextCounter, l.before.accountToCounter, l.before.counterToAccount>>>>
       \/ \A i \in Assets :
            (Worth(Snapshot, i)' - Worth(l.before, i)) * E6 * E6 >= ExactFee(l, i)]_allVars

\* account_registrar.rs:8 of the trait, next_counter "represents the number of
\* registered accounts".
CountersKept == nextCounter = Cardinality({x \in Accounts : accountToCounter[x] # None})
=============================================================================
