# The Abacus lending pool in TLA+

A verification development for the ink! contracts of this repository.  It models
the lending pool (`src/src/contract_modules/lending_pool`, `src/src/library`), the
aToken and vToken contracts, flash loans and the account registrar: who owes and
owns what, how interest, fees and collateralization follow from it, who may
touch whose account, and how the storage grows.  TLC checks small instances;
TLAPS proves types, the ledger, double entry, interest, positions, repayments,
stablecoins, the backing of accounts, the storage of positions and the search for a window
for every instance; and for the whole system all of this through flash loans and
their roll backs, the allowances, and what loans pay.

## 1. The system

| Component | State it keeps | Operations |
|---|---|---|
| Reserve bookkeeping (`library/structs/reserve_data.rs`, `reserve_indexes_and_fees.rs`, `account_reserve_data.rs`) | per asset: flags, total deposit, total debt, two rates, two indexes with the time of their update, fees, earned fee; per account and asset: deposit, debt, the two indexes they were last brought up to | update indexes, accumulate interest, increase/decrease a balance, recalculate rates |
| Account config (`account_config.rs`) | three bitmaps (deposits, collaterals, borrows), chosen market rule | set and clear bits with the balances |
| Restrictions, asset rules, market rules (`reserve_restrictions.rs`, `asset_rules.rs`) | maximal totals, minimal collateral and debt; per rule and asset: collateral and borrow coefficients, penalty | checks; admins replace them |
| Interest rate model (`interest_rate_model.rs`, `interest_rate_math.rs`) | target utilization, rate at target, rate at maximum | rate at a utilization; adjustment of the rate at target |
| Time-weighted utilization (`tw.rs`, `storage/mod.rs` 1081-1200) | ring of (time, running sum) entries and an index | snapshot; search for the shortest sufficient window |
| Collateralization (`storage/mod.rs` 877-1035) | none; reads prices, indexes, rules, balances | lending power, check, amount a liquidation takes |
| Pool messages (`implementation/*.rs`) | the above | deposit, withdraw, borrow, repay, multi_op, liquidate, set_as_collateral, choose_market_rule, accumulate_interest, adjust_rate_at_target, flash_loan |
| aToken and vToken interfaces of the pool | the above | transfer_deposit_from_to, transfer_debt_from_to |
| aToken, vToken (`contracts/core/a_token`, `v_token`, `abacus_token`) | allowances | approve, increase and decrease, transfer, transfer_from; the pool uses allowances up for messages on behalf of others |
| Storage layout (`storage/mod.rs` 1270-1400, 1480-1570) | ids of assets, vectors of entries per account, vectors of rules | register an asset, add and modify rules, lengthen and insert into vectors |
| Account registrar (`account_registrar`) | a counter, two maps | ensure_registered |
| Administration (`manage.rs`) | the parameters | register_asset, activate, freeze, restrictions, model, fees, stablecoin rate, flash loan fee, market rules, take_protocol_income |
| Stable token, price feed provider, oracle, views | their own small storage | mint/burn, price lookup |

Interaction.  A pool message reads storage into local copies, works on them,
writes them back, and moves the underlying through PSP22 calls.  The tokens keep no
balances: their views ask the pool, and their transfers call it.  The pool in turn
calls the tokens to use up an allowance.  Prices come from the price feed provider,
fee reductions from a provider contract.  Two messages never overlap: the
chain runs one at a time and rolls a failing one back entirely.  Only a flash loan
opens a message up, as its receiver may call the pool and the tokens in between.

What is hard, then, is not interleaving inside an ordinary message but

- long sequences of messages by different parties, with time, prices and
  parameters changing between them;
- messages that copy the state of one account twice (transfers, liquidations,
  `multi_op`) and write both copies back;
- bits read instead of balances, stored indexes read instead of current ones,
  rates that must be recalculated after every change;
- rounding, which must never favour the wrong side by a unit that no test sees;
- a ring buffer with wrap-around of slots and of sums, searched from an index
  somebody chose off-chain while the ring went on;
- vectors made at different times, lengthened and inserted into as assets come;
- allowances used for amounts the pool clamps, in lists of operations;
- the callback of a flash loan, nested ones, and what the outer frame writes back.

PROJECT.json lists these hazards at their lines, with the properties that watch them.

### What makes each component correct

| Component | Properties |
|---|---|
| ledger | totals are sums of balances (`LedgerBalanced`); double entry (`BooksBalance`); bitmaps miss nothing (`BitmapsCover`) |
| interest | depositors are promised no more than borrowers are charged (`InterestFunded`); no interest is skipped (`PositionsFollowIndexes`) |
| restrictions | no debt or collateral below its minimum (`MinimumsKept`); an inactive reserve is closed (`InactiveIsClosed`); nothing but an overflow keeps a debtor from repaying everything (`Repayable`) |
| collateralization | no client message takes the backing from an account (`BackingPreserved`) |
| stablecoin | no unit without a debt behind it (`StablecoinBacked`) |
| tokens | nobody takes from another, or indebts him, more than his allowance loses (`AllowanceCovers`) |
| flash loans | a loan brings its whole fee or changes nothing (`LoanPays`); the registrar's counter counts (`CountersKept`, violated) |
| time-weighted utilization | `WindowIsShortest`, `AverageIsTrue`, `WindowReachable`; the loop implements the one-step adjustment (`SearchIsAtomic`) and ends (`SearchAnswers`) |
| storage | growing vectors implement a fixed table (`PositionsReplaced`); the base rule is complete (`BaseRuleComplete`); nothing is stored ahead of a registration (`NothingAhead`) |

## 2. The modules

```
FixedPoint   scales, widths, rounding
  Reserve    one reserve, one position: the methods and account_for_* helpers
    LendingPower   collateralization and the liquidated amount (also EXTENDS Tally)
      LendingPool  the pool: all messages of users and admins
        AbacusTokens   aTokens and vTokens, callers who act for others
          FlashLoans   flash loans, account registrar: the whole system
    TwUtilization  snapshots, the adjustment in one step
      TwSearch     the adjustment's loop, implements TwUtilization
Tally        sums over finite sets
AccountPositions   abstract storage: a fixed table of positions
AssetListing       ids, rules and vectors as they grow, implements AccountPositions

MCLendingPool, MCFlashLoans, MCTwSearch, MCAssetListing   the instances TLC checks
ReserveProofs, LendingPoolProofs, PositionProofs, BooksProofs, FundingProofs, SystemProofs
(each on the one before), AssetListingProofs, TwSearchProofs     theorems
```

**FixedPoint.**  `10^18`, `10^8`, `10^6` and the maxima of the integer widths are
constants.  Each multiplication and division keeps its rounding direction.  The
code turns each overflow and underflow into an error, so an operation is possible
exactly when its results are within their widths.

**Reserve.**  The helpers take a *context* `[ok, r, d, c]` of a reserve, a
position and a config, the `ReserveDataContext` and account entries of the
source; `Try` is the `?` operator.  A missing entry of an account's vector is
`NoPosition`, its `Default`: they cannot be told apart, because any stored entry
has had interest accumulated and so has indexes of at least `E18`.

**LendingPower.**  The check reads stored indexes and accumulates the interest on a copy
of each entry (`Accrued`), which leaves the reserve's totals alone and so cannot fail on
them.  It returns an error when the rule lacks a coefficient (`RuleCovers`) or a number
leaves its width (`NumbersFit`), and panics when that number is the value of an amount
(`Panics`): `liquidate` takes any error for undercollateralization, while a panic
rolls it back.  The amount a liquidation takes is computed in 256 bits (`TakeFits`).

**LendingPool.**  One action is one message: all it reads, all its calls in
their order, and its writes.  The guard is the conjunction of the conditions under
which the code returns no error.  `Step`/`Commit` are the loop and the end of
`account_for_account_actions`; a single `deposit` is that loop with one action,
as in the source.  The two copies of an account in a transfer or a liquidation are
written in the order of the source, so what happens when both are the same
account is modelled.  The vectors are functions over a fixed set of assets, and
`Inserted` is `Vec::insert` on them; how vectors grow is AssetListing's subject.
For a stablecoin the pool mints and burns; `vault` is then the amount in circulation
that the pool minted, and otherwise the balance of the underlying the pool holds.
`SetReserveIsFrozen`, `ModifyAssetRule`, `SetReserveFees` and `TakeProtocolIncome`
follow the code where it differs from its documentation.

*Left to the environment:* which requests are made, by whom, for whom.  The
constants `Requests`, `Liquidations`, `Admin` and so on list what is asked; roles
decide who may ask as an admin.  Prices move to any listed value; fee reductions are
fixed per account.  Of `minimum_received_for_one_repaid_token_e18` the quotient compared
with it is modelled, as it may overflow (`ReceivedFits`); the comparison only refuses more
liquidations and is left out.

**AbacusTokens.**  Adds `allowed`, the allowances of both kinds of token, and who
sends a message: `Call` and `MultiCall` are the operations of LendingPool sent by a
caller for an account, with `SpendFor` using up the owner's allowance for each
withdrawal and borrow after the pool has clamped its amount.  `UsedAmount` follows the
code, which charges every withdrawal of a `multi_op` with the first operation's
amount.  `ATokenTransfer` and `VTokenTransfer` are transfer and transfer_from, the
latter with the two different allowances the vToken looks at and uses.  The history
variable `sender` is only there for `AllowanceCovers`.

**FlashLoans.**  A loan is a frame on the stack `loans`: `OpenLoan` sends the assets
out and takes a snapshot, `FinishLoan` takes assets and fees back, `AbortLoan` rolls
the frame back.  In between the receiver may send every message of a user, other
loans included; no time passes, no price moves and no admin acts.  `FinishLoan` also
writes the contract's root storage back, which holds the registrar's `next_counter`;
everything else the pool stores is behind mappings that are written in place.
`SwitchCollateral` is `set_as_collateral` of the contract, which registers its caller.

**TwUtilization.**  One reserve.  `Work` is any message on it: the snapshot, taken
before the totals change, then any new utilization.  Two history variables keep
the exact integral of the utilization.  `Found` says which entry a guess leads to,
and the adjustment is one step.  Its composition with LendingPool is by two
operations: each `Open` of LendingPool is preceded by a snapshot, and
LendingPool's `AdjustRateAtTarget(i, rate)` is TwUtilization's, with the new rate
as a parameter.  Nothing else in the pool reads the ring.

**TwSearch.**  The adjustment as the loop it is: `BeginSearch` with any guess,
`StepOn` along the ring, `Adjust` or `Refuse`.  The refinement is the identity on
TwUtilization's variables: a search is a stutter, then a single step of it.

**AssetListing, AccountPositions.**  What entries hold does not matter here; which
entry lands where does.  `Resized`, `Written` and `InsertedAt` are
what `get_account_datas` and `insert_account_data` do to vectors of different
lengths.  AccountPositions has one table with a place for each asset that will
ever be, and messages replace entries in it; AssetListing implements it, with the
entry of `vectors[a]` at each id, until `mixed`: a message inserted before an entry
that was already there, or worked on two copies of one vector.  An insertion also
leaves the vector one longer than it was, so the question is whether the entry
behind the last asset can be anything; `NothingAhead` says it cannot while nothing
is mixed up, and when it is, a token registered later starts with a position.

**Tally.**  A sum is defined as the cardinality of a set of unit coins, which
makes the theorems about finite sets theorems about sums.  All sums are such: over
accounts in the ledger, over the interest a step accumulates, over the assets that
count in a collateralization check.

## 3. What TLC checks

The runs of the pool use small scales (`E18 = 10`, `E8 = E6 = 4`; rounding is
then coarse, and wrong directions show at once), one or two assets, two accounts, and
widths that do not interfere with the amounts, except for that of rates in Governance
(`U32Max = 10`, below).  `CHECK_DEADLOCK FALSE` because time is
bounded, or vectors and rules are: once nothing is left and no request can succeed, a
model has no further step; the contract itself simply has no further message.

| Run | Instance | Properties |
|---|---|---|
| System | pool, tokens, flash loans, registrar: one asset, supply 3, one loan at a time, allowances of 1, a liquidation and a rule that becomes stricter | `SystemTypeOK`, `LedgerBalanced`, `BitmapsCover`, `AllowanceCovers`, `LoanPays` |
| Interest | one asset with interest, fees and a fee reduction of a half for one account, adjustable model, times 0-2 | `LedgerBalanced`, `PositionsFollowIndexes`, `InterestFunded`, `BooksBalance` |
| Backing | two assets with interest, times 0-1, the collateral's price between 2 and 1, minimal debts and collaterals; single and paired operations, both kinds of transfer, collateral switches, liquidations with penalties; both reserves closed and opened at any time | `TypeOK`, `LedgerBalanced`, `BitmapsCover`, `MinimumsKept`, `BackingPreserved`, `InactiveIsClosed` |
| Governance | an asset and a stablecoin, every administrative call but opening and closing a reserve between client messages (fees are set as they are, which empties the fee book), an adjusted rate of 30, two market rules, times 0-1 | `InterestFunded`, `StablecoinBacked`, `Repayable`, `BackingPreserved` |
| TwSearch | ring of 3 slots, minimal time 2, times 7-12, sums that wrap at 25, guesses 0-4, two of them beyond the ring | `SearchTypeOK`, `WindowIsShortest`, `AverageIsTrue`, `WindowReachable`, `SearchIsAtomic`, `SearchAnswers` |
| AssetListing | two accounts, two tokens to register, two entries, two market rules, vectors up to 3 long | `ListingTypeOK`, `BaseRuleComplete`, `NothingAhead`, `PositionsReplaced` |

The bounds.

- Two accounts are the two parties of any message; two assets are the
  least that lets a message work on a collateral and a debt, or a shift of a vector
  hit a neighbour.
- `MaxTime`, a guard of `Tick`: interest of one accrual compounds into the next,
  which takes two time steps (Interest); elsewhere one step is enough to make stored
  indexes lag.  A ring of three slots wraps twice in six.
- Amounts 1 and 2 with minima of 2 give partial, full and excessive repayments.
  `Supply` bounds amounts as the supply of the underlying does.
- `U32Max = 10` in Governance: an adjustment stores a rate of 30, as the code does without
  trying it.  Below the target it is scaled down by the utilization, so it fits
  while little is borrowed and does not when more is; whether a debtor can repay then
  depends on what the others owe.
- Closing and opening is in Backing, where messages work on two reserves: a pair of
  operations or a liquidation then finds one of them closed.
- `MaxRules` (`AddMarketRule`): two rules are one to leave and one to choose.
- `MaxLoans` (`OpenLoan`): with one loan open every other message can happen inside it.
- `MaxAllowance` (`IncreaseAllowance`): one unit, so that the next is not covered.
- `MaxAssets` (`RegisterAsset`) and `MaxLength` (the two transfers of AssetListing): one
  more than the assets, so that a vector can be longer than there are assets.

Symmetry is used in AssetListing only, on accounts, tokens and entries, which its
definitions compare with each other and nothing else.

Fairness.  The pool only reacts and nobody is obliged to call it, so the properties
of the pool, the tokens and the storage are safety properties.  One thing does have to
go on: a message that has begun is run by the chain until it ends.  That is
`WF_searchVars(Proceed)` in TwSearch, the only fairness assumed, and from it
`SearchAnswers` says that the search ends, for every ring and every guess.  It is
about `minTime > 0`.  With a minimal time of 0 and a full ring the loop has no exit; in a ring that is not
full an entry of age 0 ends it in a division by zero, an error.

Reading the properties.

- `BackingPreserved` compares the account by indexes brought up to date before
  the step with up-to-date *or* stored indexes after it.  The check the code makes
  reads stored indexes, which lag for reserves the message does not touch; that it
  tolerates this is how the code is, not a disagreement with any comment.  It excepts a
  liquidation of the account, because `liquidate` judges by stored indexes too: an account
  that its interest since then would back can be liquidated, although
  lending_pool_actions.rs:159 says that the account "must be undercollateralized".  It also
  excepts states in which the numbers of the check no longer fit (`CheckFits`), as it then
  errs or panics.  A missing coefficient is no such exception.
- `Repayable` has as its premise that the numbers of the repayment fit (`RepaymentFits`):
  the indexes, the interest due, and the new rates.  They do not always, since an
  adjustment stores a rate that `interest_rate_math.rs:22` refuses at some utilizations;
  the run Governance reaches debts that fit and debts that do not.  What the property
  says is that nothing else locks a debtor in.
- `InactiveIsClosed` is about transfers of the last asset, as the other properties of the pool:
  the `Vec::insert` of any other moves entries of reserves the message does not work on.
- `BooksBalance` excepts what an admin's call drops: `set_reserve_fees`, and
  `take_protocol_income` of an asset behind one without income (below), empty the
  fee book of an asset while nothing is paid.
- `AllowanceCovers` excepts liquidations: a step in which somebody repays for an
  account whose check returns *any* error, as `liquidate` treats it.  System has
  `multi_op` by the owner only; the run Allowance has it by another.
- `LoanPays` values the pool with all interest that has not been accumulated yet, so
  that what the receiver does in between cancels out whatever it is.
- `AverageIsTrue` has as its premise that the sum over that one window fits in 64 bits;
  in the run it always does, while the running sum wraps.

### Disagreements between the code and what is said of it

| Run | Statement | Code |
|---|---|---|
| Freeze | `FreezeTakesEffect`: freezing a reserve freezes it | `set_is_frozen` assigns `activated` |
| Transfer | `LedgerBalanced` | a transfer of aTokens of an asset that is not the recipient's last one shifts the recipient's other entries (`Vec::insert`) |
| RuleChange | `CoefficientsStay`: `Some` is not overwritten by `None` | the old rule is read after it was overwritten |
| Income | `IncomeIsPaid`: income that leaves the books is paid | `take_while` pays only the assets before the first without income, all are reset |
| Allowance | `AllowanceCovers`: a withdrawal on behalf decreases the allowance | every withdrawal of a `multi_op` decreases it by the amount of the first action in the list |
| Counter | `CountersKept`: `next_counter` is the number of registered accounts | `flash_loan` writes the root storage back as it was before the receiver was called |

Each run checks one of them in the smallest instance that shows it.  Others break the
same statements: a transfer from an account to itself and a liquidation of an account
by itself break `LedgerBalanced`, as two copies of an entry overwrite each other, and
`set_reserve_fees` breaks `IncomeIsPaid`, as it stores a `ReserveFees` without the fee
earned so far.  The passing runs of the pool therefore make transfers of the last asset
between different accounts only, and nobody liquidates himself; AssetListing
has all of these and marks them as `mixed`.

## 4. What is proved

For every set of accounts, number of assets, scales, widths, requests and parameters.
The assumptions are those named in the modules: `ScaleAssumption`,
`NoneAssumption`, `PoolAssumption`, `RequestAssumption`, `AdminAssumption`,
`TokensAssumption`, `LoanAssumption`, `TwAssumption` and `ListingAssumption`, that is, the
types of the constants, a positive number of assets, a ring of at least two slots and finitely many accounts.

| Theorem | States | Provided |
|---|---|---|
| `TypeCorrect` | `Spec => []TypeOK` | |
| `InterestCovered` | `Spec => []InterestFunded` | |
| `LedgerCorrect` | `Spec => []LedgerBalanced` | `SafeRequests` |
| `BooksBalanced` | `Spec => BooksBalance` | `SafeRequests` |
| `DebtsRepayable` | `Spec => []Repayable` | `SafeRequests` |
| `BitmapsComplete` | `Spec => []BitmapsCover` | `SafeRequests` |
| `IndexesFollowed` | `Spec => []PositionsFollowIndexes` | `SafeRequests` |
| `InactiveStaysClosed` | `Spec => InactiveIsClosed` | `SafeRequests` |
| `MinimumsHold` | `Spec => []MinimumsKept` | `SafeRequests`, `Admin.limits = {}` |
| `StablecoinsBacked` | `Spec => []StablecoinBacked` | `SafeRequests` |
| `BackingKept` | `Spec => BackingPreserved` | `SafeRequests`, `PositiveMinimums` |
| `SystemTyped` | `SpecAll => []SystemTypeOK` | |
| `LedgerThroughLoans` | `SpecAll => []LedgerBalanced` | `SafeRequests` |
| `BitmapsThroughLoans` | `SpecAll => []BitmapsCover` | `SafeRequests` |
| `AllowancesCovered` | `SpecAll => AllowanceCovers` | `SafeRequests`, `OwnBatches` |
| `LoansPay` | `SpecAll => LoanPays` | `SafeRequests` |
| `InterestThroughLoans` | `SpecAll => []InterestFunded` | `SafeRequests` |
| `IndexesThroughLoans` | `SpecAll => []PositionsFollowIndexes` | `SafeRequests` |
| `RepayableThroughLoans` | `SpecAll => []Repayable` | `SafeRequests` |
| `InactiveThroughLoans` | `SpecAll => InactiveIsClosed` | `SafeRequests` |
| `MinimumsThroughLoans` | `SpecAll => []MinimumsKept` | `SafeRequests`, `Admin.limits = {}` |
| `BackingThroughLoans` | `SpecAll => BackingPreserved`, and that messages within loans are `ClientNext` steps | `SafeRequests`, `PositiveMinimums` |
| `StablecoinsThroughLoans` | `SpecAll => [](loans = <<>> => StablecoinBacked)` | `SafeRequests` |
| `ListingTyped`, `BaseRuleKept`, `AheadIsNothing` | the invariants of AssetListing | |
| `ListingImplementsPositions` | `SpecListing => PositionsReplaced` | |
| `SearchTyped` | `SpecSearch => []SearchTypeOK` | |
| `ShortestWindows` | `SpecSearch => []WindowIsShortest` | |
| `TrueAverages` | `SpecSearch => []AverageIsTrue` | |
| `WindowsReachable` | `SpecSearch => []WindowReachable` | `Params.minTime > 0` |
| `SearchImplementsAdjustment` | `SpecSearch => SearchIsAtomic` | |

`SafeRequests` says that transfers are of the last asset between different accounts,
and that nobody liquidates himself; without it the ledger is wrong (run Transfer), and
shifted entries fall outside bitmaps and below minima as well.  `Admin.limits = {}` says
that restrictions stay as they were set at first: a stricter minimum does not change
the positions that exist.  `OwnBatches` says that each `multi_op` is sent by the owner of the
account; without it `AllowanceCovers` is wrong (run Allowance).  `PositiveMinimums` says
that no minimal collateral is or becomes zero.  The deployment scripts and the test
environment set it to 2000 and more for every asset
(`scripts/deployForAudit.ts:29-87`, `scripts/deployAssetAndRegisterInMarketRule.ts:32`,
`tests/setup/tokensToDeployForTesting.ts:49`); `tests/customDeployment.test.ts:46` has zero.
With zero an emptied deposit stays a collateral (`account_reserve_data.rs:72`), its owner
may choose a rule without a coefficient for it, and the next deposit, which anybody
can make for him, makes his check fail.  The run Backing has positive minima; Governance
has zero, and rules with all coefficients.

**The ledger.**  `LedgerBalanced` is not inductive alone: sums are only meaningful
when all balances are natural numbers, so the invariant is
`TypeOK /\ LedgerBalanced`.  `ReserveProofs` shows that each helper of Reserve
keeps the types of a context and changes the total of the reserve by exactly what
it changes the position by (`Keeps`).  A message is then one of three moves:
it changes no balance (`Quiet`), the balances of one account (`OneMoves`), or those of
two different accounts (`TwoMove`); the lemmas on `Total` say what a sum does in each.
`SessionOK` carries the invariant through the steps of a `multi_op`, where the
session's local copies stand for the stored state.

**Double entry.**  `Standing` of a position is the reserve's `Margin` (debts less deposits
and fees), with the pool's holding and the interest still due on the position.  Accumulating
interest does not change it, a helper's amount moves margin and holding by the same, and
`FullStanding` is the same with the interest due to everybody.  A message is
`Squares`: full standing stays, the indexes that count do (`Alike`), and each position
is the old one or `UpToDate`.  Interest due is therefore taken off the accounts in `Accruing`
and no others, which turns this into the equation of `BooksBalance` (`SquareBooked`, with
`TotalRest` splitting the sums).  The invariant needed beside types is `Dated`: no
reserve was updated in the future.

**Repayments.**  A repayment whose numbers fit (`RepaymentFits`, the premise of `Repayable`)
can still fail on the subtraction from the total debt, which `LedgerBalanced` excludes (the
comment at `reserve_data.rs:132` claims the same), and on the minimal debt, which repaying
everything cannot fall below.  Interest only adds to the debt (`DebtGrowsByInterest`), so the
amount is never zero; limits and a freeze are not asked (`DebtRepayable`).

**Interest.**  A message that changes a total closes the reserve, and
closing it recalculates the rates: the deposit rate is a quotient rounded down, so
times the total deposit it is at most the debt rate times the total debt
(`RoundedDown`, `CloseFunded`).  A stablecoin has no interest rate model and closing
it leaves its rates alone; the inequality alone would not survive a deposit there, so
the invariant says that its deposit rate is zero (`FundedRates`), which needs that no
step between opening and closing touches the deposit rate (`SameRate`).

**Positions.**  Bitmaps, indexes, minima and inactive reserves are one argument.
`Moved` relates one position, with its reserve and bitmaps, before and after: indexes do
not go back, a sound position stays sound (`SoundAt`), a minimal one minimal
(`MinimalAt`), and an inactive reserve's stays the same.  Opening, every helper and
closing are `Works`, that is `Moved` for the asset they touch and neutral for the
others (`Beside`).  `Moved` is transitive, so whole messages are
`Moved` for those they work on and for bystanders; every step is `Steady` (all
positions `Moved`) or `Settled` (an admin's or the environment's, which leaves positions
and what soundness reads alone).  The inductive invariants are `AllSound` and
`AllMinimal`.

**Stablecoins.**  The inequality of `StablecoinBacked` needs that depositors earn
nothing: the invariant `StableBooks` adds that the deposit rate of a stablecoin is 0, its
deposit index `E18`, and that of each position 0 or `E18`.  Double entry does the rest for the
messages of clients (`ClientStable`): what is owed beyond what circulates, is deposited or booked
as a fee moves by the interest of debtors alone, which is never negative.  The calls of
admins are proved one by one, as income can leave the books there without being paid.

**Backing.**  The proof compares the balances an account would have with all its
interest, `FreshDeposit` and `FreshDebt`.  Neither an update of indexes nor the
accumulation of interest changes them, so a message changes them by its amounts only
(`FreshBrought`).  A position is spared (`Spares`) when what backs goes on and is no less, and
what is owed was owed and is no more; which bits a helper may clear and set is `Relieves`.
An operation spares everybody but the account it is made for, and that one too unless
the code demands a check at the end, which then is made with the entries that are
stored (`Upheld`, carried through a session by `StepSpares`).  Spared positions
under the same rule give no less lending power and no more debt power: sums of quotients
that are monotone (`TotalGrows`, `QuotientGrows`, `RatioGrows`, `WorthGrows`), over sets that
grow or shrink (`SparedStaysBacked`).  What is needed of the state is that collaterals
are deposits (`AllFilled`, by `PositiveMinimums`), that borrowers' positions have indexes
(in `SoundAt`), and `Dated`.

**The system.**  Within a loan the pool's own steps are those proved about; a roll back
is not.  The invariant `SystemOK` therefore says of the snapshot in every frame what it
says of the state: that it has its types, that its accounts' market rules exist
(rules are not rolled back, nor can they be lost: no admin acts within a loan) and that
the counter is not ahead of the accounts registered (`Counted`).  The counter alone would
not stay in its range, as a finished loan writes back a stale one; it does because the accounts
registered in an outer frame are registered in the inner ones too (`Nested`), so the stale counter
still lags.  `BooksOK` adds that the ledger is balanced and the bitmaps complete in
every snapshot, and `SecuredOK` that its rates are funded and its positions minimal and
filled (`Secured`), and that reserves inactive now were so in it, with the positions they have
now (`Shut`: only an admin opens or closes a reserve, and no admin acts within a loan).  The
messages within loans are steps of `ClientNext` (`MessageIsClients`), so everything proved of
those holds there.  `StablecoinBacked` does not hold within a loan, as a loan of a stablecoin
mints it with no debt behind it.  `CirculationOK` says for each frame that no more than what is lent
circulates without a debt, and nothing at all did before the outermost loan.

**Allowances.**  `Nets` says what a helper does to a position: the interest due, and
besides one amount on the deposit and one on the debt (`Brings`, of two contexts).
Interest comes once: a position that is up to date earns none (`NothingDue`), and what
follows in the message sees indexes and fees as they were (`Alike`).  A whole message
then brings each account it touches its amounts (`BringsTo`), which `TakenFrom` and
`ChargedTo` read off (`Charged`), and each is at most what an allowance of the sender
loses (`Covered`).  A liquidation that takes the asset it repays brings interest before
the repayment and none after it, so what it charges is less than nothing
(`LiquidateRepays`).

**The fees of loans.**  `Worth` of an asset is what the pool holds and is owed less
what it owes, with all interest counted that is still due; it is the full standing of a
snapshot, so no message changes it (`MessageKeepsWorth`).  The invariant `LoansOK` says of each
frame k that `Inside(k)`, the snapshot of the next frame or else the state, is worth at
least what the pool was worth before the loan less what the loan has lent.
Finishing the innermost loan adds what it lent and its fee, and leaves the outer one as it was.
The fee is rounded up twice, for each place in the list of assets by itself, and an asset named more
than once pays for each time (`TotalsCompare` compares the sums); that it is still the fee
asked for is `FeesAsked`.

**Storage.**  The invariants are `ListingTypeOK` with one conjunct per theorem
(`BaseRuled`, `NoRuleAhead`, `NoEntryAhead`).  The refinement rests on `NoEntryAhead`
and the lemmas about the three ways to write a vector: reading what was written or
inserted gives the entry put there, and every other one as it was when the insertion is
`Harmless`.

**The search.**  The ring's part of the invariant, `RingOK`, says that entries get
younger towards the index with none in between, and that each sum is the remainder of
the exact integral.  The search's part, `Searching`, says that the search has come to
its k-th candidate and none of the earlier ones is a place to stop (`ComeTo`).
Candidates repeat after a round of the ring, so k is within one round, and the entry
the loop stops at is the least stop, `Found`: that is the refinement.  In an ordered
ring the least stop is followed by an entry too young, which gives the shortest window,
and the lemmas on remainders give the true average.  A minimal time of 0 is excluded
from `WindowsReachable` for the reason given under Fairness.

| Module | Holds |
|---|---|
| ReserveProofs | types and effect of each helper of Reserve |
| LendingPoolProofs | sums over finite sets, one lemma per action, `TypeCorrect`, `LedgerCorrect`, `DebtsRepayable` |
| PositionProofs | `Moved` for each helper and action, the four theorems on positions |
| BooksProofs | the net position and the bitmaps through each helper and action, `BooksBalanced` |
| FundingProofs | the deposit rate and the backing through each helper and action, the margin of stablecoins, `InterestCovered`, `StablecoinsBacked`, `BackingKept` |
| SystemProofs | allowances, snapshots and frames, `SystemTyped`, what each message takes and charges, `AllowancesCovered`, `LoansPay`, and the properties of the pool through loans |
| AssetListingProofs | the storage of positions and its refinement |
| TwSearchProofs | remainders, the ordered ring, the search and its refinement |

Only model-checked: `SearchAnswers`.  Out of the prover's reach: liveness and `ENABLED` (so `SearchAnswers`), and induction over data; the sums
are cardinalities (Tally) so that no proof needs it.

## 5. What is not modelled

- The users' own balances of underlying assets: a transfer to the pool succeeds as
  long as the supply allows it.
- Views, `balance_viewer`: they change nothing, and no message reads them.
- Events, including the casts of amounts to `i128` in them: they change nothing.
- Price feed provider and oracle: prices are an environment variable, always present.
- Stable token: a PSP22 with minter and burner roles; its supply is `vault`.
- Roles of admins, code hashes, the constructor, entry points that only pass arguments
  on, and the two setters of the providers' addresses: prices and fee reductions are
  the environment's already.
- `multi_op` with more than two operations: two already make a session whose
  second operation sees the first one's local copies.  One without any changes
  nothing but this: it stores an account a vector without entries, after which
  `transfer_debt_from_to` finds a vector of the recipient.  In LendingPool a recipient has
  one when he has an entry; what a vector too short does is in AssetListing.
- A decimal multiplier so large that its product with `10^10` overflows
  (`operations.rs:117` rules it out): it would make every check panic.
- More assets than bits in a bitmap: bitmaps are sets.
- Test doubles, deployment scripts, generated artifacts.

What is left to do: `multi_op` with lists of any length, where an induction over the
list is what the provers cannot do, and the roles of the administration.
