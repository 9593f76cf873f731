---------------------------- MODULE TwUtilization ----------------------------
(***************************************************************************)
(* The time-weighted utilization of one reserve and the adjustment of its  *)
(* interest rate model.                                                    *)
(*                                                                         *)
(* Every message that works on the reserve first takes a snapshot: it adds *)
(* the utilization since the last one, times the time it lasted, to a      *)
(* running sum, and writes the sum into the next slot of a ring.  Anybody  *)
(* may then adjust the rate at the target utilization with the average of  *)
(* a window of the ring, found by a search from an index he guesses.  What *)
(* the messages do to the reserve (LendingPool) is here any change of the  *)
(* utilization.                                                            *)
(***************************************************************************)
EXTENDS Reserve, FiniteSets, FiniteSetsExt

CONSTANTS
  Size,          \* TW_INDEX_SIZE, the slots of the ring
  Start,         \* block time when the reserve is registered
  MaxTime,       \* bound on block time
  Utilizations,  \* the utilizations the messages leave behind
  Guesses,       \* the indexes callers guess
  Params         \* InterestRateModelParams

ParamsState ==
  [target : Nat, minRate : Nat, maxRate : Nat, rateAtMax : Nat, minTime : Nat]

ASSUME TwAssumption ==
  /\ Size \in Nat \ {0, 1}
  /\ Start \in Nat /\ MaxTime \in Nat
  /\ Utilizations \subseteq U32 /\ E6 \in U32
  /\ Guesses \subseteq Nat
  /\ Params \in ParamsState

Slots == 0 .. Size - 1

\* No entry in the slot yet.
NoEntry == [time |-> -1, sum |-> 0]

VARIABLES
  now,             \* block timestamp
  utilization,     \* the reserve's utilization by its stored totals
  index,           \* tw_ur_indexes
  entries,         \* tw_ur_entries
  rateAtTarget,    \* rate_at_target_ur_e18 of the interest rate model
  lastAdjustment,  \* last_adjustment_timestamp
  integral,        \* history: the sum of the utilization of all time units
  exact            \* history: the integral when a slot was written

vars == <<now, utilization, index, entries, rateAtTarget, lastAdjustment, integral, exact>>

\* account_for_register_asset: no deposits, which counts as fully utilized.
Init ==
  /\ now = Start
  /\ utilization = E6
  /\ index = 0
  /\ entries = [s \in Slots |-> NoEntry]
  /\ rateAtTarget = Params.minRate
  /\ lastAdjustment = Start
  /\ integral = E6 * Start
  /\ exact = [s \in Slots |-> 0]

\* TwIndex::next
Following(s) == (s + 1) % Size

Entry(s) == IF s \in Slots THEN entries[s] ELSE NoEntry

-----------------------------------------------------------------------------
(* Snapshots *)

\* The last entry, or the default one.
Last == IF entries[index] = NoEntry THEN [time |-> 0, sum |-> 0] ELSE entries[index]

Charge == utilization * (now - Last.time)

\* Mutant: the sum stops at its greatest value.
SaturatedSum == Least(Last.sum + Charge, U64Max)

\* Mutant: the sum does not wrap around.
UnwrappedSum == Last.sum + Charge

\* overflowing_add
NewSum == (Last.sum + Charge) % (U64Max + 1)

\* store_utilization_rate_snapshot
Snapshot ==
  IF Last.time >= now THEN UNCHANGED <<index, entries, exact>>
  ELSE /\ Charge \in U64
       /\ index' = Following(index)
       /\ entries' = [entries EXCEPT ![Following(index)] = [time |-> now, sum |-> NewSum]]
       /\ exact' = [exact EXCEPT ![Following(index)] = integral]

\* account_for_reserve_action and account_for_accumulate_interest, which take
\* the snapshot before they change the totals.
Work(u) ==
  /\ Snapshot
  /\ utilization' = u
  /\ UNCHANGED <<now, rateAtTarget, lastAdjustment, integral>>

Tick ==
  /\ now < MaxTime
  /\ now' = now + 1
  /\ integral' = integral + utilization
  /\ UNCHANGED <<utilization, index, entries, rateAtTarget, lastAdjustment, exact>>

-----------------------------------------------------------------------------
(* The search for a window and the adjustment *)

\* How long before the last snapshot an entry was written.
Age(e) == Monus(Last.time, e.time)

\* The k-th index the search looks at.  A guess beyond the ring is taken as
\* it is, only its successors wrap.
Candidate(g, k) == IF k = 0 THEN g ELSE (g + k) % Size

Successor(g, k) == Entry((Candidate(g, k) + 1) % Size)

\* Mutant: the search stops at a window one unit too long.
StopsEarly(g, k) == Successor(g, k) = NoEntry \/ Age(Successor(g, k)) <= Params.minTime

\* The loop of get_tw_ur_from_shortest_period_longer_than ends at step k.
StopsAt(g, k) == Successor(g, k) = NoEntry \/ Age(Successor(g, k)) < Params.minTime

\* The steps at which it would; none if the loop goes round for ever.
Stops(g) == {k \in 0 .. Size : StopsAt(g, k)}

Found(g) == Candidate(g, Min(Stops(g)))

\* Mutant: a window of just the minimal time is refused.
FindsLonger(g) ==
  /\ entries[index] # NoEntry
  /\ Stops(g) # {}
  /\ Successor(g, Min(Stops(g))) # NoEntry
  /\ Entry(Found(g)) # NoEntry
  /\ Age(Entry(Found(g))) > Params.minTime

\* It ends with an entry and not with TwEntryInvalidIndex.
Finds(g) ==
  /\ entries[index] # NoEntry
  /\ Stops(g) # {}
  /\ Successor(g, Min(Stops(g))) # NoEntry
  /\ Entry(Found(g)) # NoEntry
  /\ Age(Entry(Found(g))) >= Params.minTime

\* overflowing_sub
Average(g) == ((Last.sum - Entry(Found(g)).sum) % (U64Max + 1)) \div Age(Entry(Found(g)))

Model == [target |-> Params.target, rateAtTarget |-> rateAtTarget,
          rateAtMax |-> Params.rateAtMax]

\* InterestRateModel::adjust_rate_at_target
Adjusted(u) ==
  LET rate == DebtRateAt(u, Model)
  IN  IF rate < Params.minRate THEN Params.minRate
      ELSE IF rate > Params.maxRate THEN Params.maxRate
      ELSE rate

AdjustRateAtTarget(g) ==
  /\ now >= lastAdjustment + Params.minTime
  /\ Finds(g)
  /\ Age(Entry(Found(g))) # 0   \* checked_div
  /\ Average(g) \in U32
  /\ CanRate(Average(g), Model)
  /\ rateAtTarget' = Adjusted(Average(g))
  /\ lastAdjustment' = now
  /\ UNCHANGED <<now, utilization, index, entries, integral, exact>>

Next ==
  \/ Tick
  \/ \E u \in Utilizations : Work(u)
  \/ \E g \in Guesses : AdjustRateAtTarget(g)

Spec == Init /\ [][Next]_vars

-----------------------------------------------------------------------------
(* Properties *)

EntryState == [time : Nat, sum : U64]

TypeOK ==
  /\ now \in Nat /\ utilization \in U32
  /\ index \in Slots
  /\ entries \in [Slots -> EntryState \cup {NoEntry}]
  /\ rateAtTarget \in Nat /\ lastAdjustment \in Nat
  /\ integral \in Nat /\ exact \in [Slots -> Nat]

\* storage/mod.rs:1134, "for the latest shortest period longer than the given
\* period": whatever index is guessed, a search that succeeds finds the most
\* recent stored entry that is old enough, also once the ring has wrapped.
WindowIsShortest ==
  \A g \in Guesses : Finds(g) =>
    \A s \in Slots : entries[s] # NoEntry /\ Age(entries[s]) >= Params.minTime =>
      entries[s].time <= Entry(Found(g)).time

\* The average of a window is the mean of the utilization over every unit of
\* time in it, whatever happened inside one block and although the sums wrap
\* around, as long as the sum of one window fits.
AverageIsTrue ==
  \A g \in Guesses : Finds(g) /\ exact[index] - exact[Found(g)] \in U64 =>
    Average(g) = (exact[index] - exact[Found(g)]) \div Age(Entry(Found(g)))

\* If the ring holds an entry that is old enough, there is an index to guess.
WindowReachable ==
  (\E s \in Slots : entries[s] # NoEntry /\ Age(entries[s]) >= Params.minTime)
    => \E g \in Slots : Finds(g)
=============================================================================
