------------------------------- MODULE TwSearch -------------------------------
(***************************************************************************)
(* adjust_rate_at_target while it runs.                                    *)
(*                                                                         *)
(* TwUtilization says in one step which window a guess leads to.  Here the *)
(* message looks at the guess, walks along the ring of snapshots in a      *)
(* loop, and ends with an adjustment or an error; the chain runs nothing   *)
(* else meanwhile.  The walk is shown to implement the one step and, as    *)
(* long as the chain goes on running it, to end.                           *)
(***************************************************************************)
EXTENDS TwUtilization

VARIABLE
  search   \* None, or the running search: the guess and where it has come to

searchVars == <<vars, search>>

InitSearch == Init /\ search = None

Running == search # None

\* after_appropriate_tw_entry
After == Entry(Following(search.at))

\* Mutant: the loop only asks whether there is a next entry.
WalksToGap == Running /\ After # NoEntry

\* Mutant: the loop stops at an entry of just the minimal age.
WalksTooShort == Running /\ After # NoEntry /\ Age(After) > Params.minTime

\* The condition of the loop.
Walks == Running /\ After # NoEntry /\ Age(After) >= Params.minTime

\* The message fails before it searches when it is too early, when no snapshot
\* has been taken, or when nothing follows the guess.
BeginSearch(g) ==
  /\ ~Running
  /\ now >= lastAdjustment + Params.minTime
  /\ entries[index] # NoEntry
  /\ Entry(Following(g)) # NoEntry
  /\ search' = [guess |-> g, at |-> g]
  /\ UNCHANGED vars

\* curr_apr_tw_index.next()
StepOn ==
  /\ Walks
  /\ search' = [search EXCEPT !.at = Following(@)]
  /\ UNCHANGED vars

\* The utilization since the entry the search has come to.
AverageSince(e) == ((Last.sum - e.sum) % (U64Max + 1)) \div Age(e)

\* The loop is over and its entry is old enough.
Succeeds ==
  LET e == Entry(search.at)
  IN  /\ After # NoEntry
      /\ e # NoEntry
      /\ Age(e) >= Params.minTime
      /\ Age(e) # 0   \* checked_div
      /\ AverageSince(e) \in U32
      /\ CanRate(AverageSince(e), Model)

Adjust ==
  /\ Running /\ ~Walks
  /\ Succeeds
  /\ rateAtTarget' = Adjusted(AverageSince(Entry(search.at)))
  /\ lastAdjustment' = now
  /\ search' = None
  /\ UNCHANGED <<now, utilization, index, entries, integral, exact>>

\* TwEntryInvalidIndex, an overflow or a division by zero.
Refuse ==
  /\ Running /\ ~Walks
  /\ ~Succeeds
  /\ search' = None
  /\ UNCHANGED vars

\* The running message goes on.
Proceed == StepOn \/ Adjust \/ Refuse

\* Other messages, and time.
Others ==
  /\ ~Running
  /\ Tick \/ \E u \in Utilizations : Work(u)
  /\ UNCHANGED search

NextSearch == Others \/ (\E g \in Guesses : BeginSearch(g)) \/ Proceed

\* A message that has begun is run on until it ends.
SpecSearch == InitSearch /\ [][NextSearch]_searchVars /\ WF_searchVars(Proceed)

-----------------------------------------------------------------------------
(* Properties *)

\* Types; the search never leaves the ring once it has made a step.
SearchTypeOK ==
  /\ TypeOK
  /\ Running => /\ search.guess \in Guesses
                /\ search.at \in Slots \cup {search.guess}

Atomic == INSTANCE TwUtilization WITH rateAtTarget <- rateAtTarget

\* The loop does what TwUtilization says in one step: every run is one of
\* TwUtilization, in which a search, however it walks, is a single adjustment
\* with the window Found gives for the guess, or leaves no trace.
SearchIsAtomic == Atomic!Spec

\* storage/mod.rs:1153: whatever the ring holds and whatever is guessed, the
\* loop ends, if the minimal time between adjustments is not zero.
SearchAnswers == Params.minTime > 0 => (Running ~> ~Running)
=============================================================================
