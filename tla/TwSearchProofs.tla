---------------------------- MODULE TwSearchProofs ----------------------------
(***************************************************************************)
(* For every ring, every guess and all parameters: the search that runs    *)
(* step by step is a single adjustment, it finds the shortest sufficient   *)
(* window, and the average it takes is the true one.                       *)
(***************************************************************************)
EXTENDS TwSearch, TLAPS, WellFoundedInduction

-----------------------------------------------------------------------------
(* Wrapping around *)

LEMMA Remainder ==
  ASSUME NEW x \in Int, NEW n \in Nat \ {0}
  PROVE  x % n \in 0 .. n - 1 /\ \E q \in Int : x = q * n + (x % n)
<1>1. x % n \in 0 .. n - 1
  BY Z3
<1>2. x \div n \in Int /\ x = (x \div n) * n + (x % n)
  BY Z3
<1>3. QED
  BY <1>1, <1>2

LEMMA RemainderUnique ==
  ASSUME NEW n \in Nat \ {0}, NEW q \in Int, NEW p \in Int,
         NEW r \in 0 .. n - 1, NEW s \in 0 .. n - 1, q * n + r = p * n + s
  PROVE  r = s
<1> DEFINE k == q - p
<1>1. k \in Int /\ q * n = p * n + k * n /\ k * n = s - r
  <2>1. q = p + k /\ k \in Int
    OBVIOUS
  <2> HIDE DEF k
  <2>2. (p + k) * n = p * n + k * n /\ p * n \in Int /\ k * n \in Int /\ q * n \in Int
    BY <2>1
  <2>3. QED
    BY <2>1, <2>2
<1> HIDE DEF k
<1>2. CASE k = 0
  BY <1>1, <1>2
<1>3. CASE k >= 1
  <2>1. k * n >= n
    BY <1>1, <1>3
  <2>2. QED
    BY <1>1, <2>1
<1>4. CASE k <= -1
  <2>1. k * n <= -n
    BY <1>1, <1>4
  <2>2. QED
    BY <1>1, <2>1
<1>5. QED
  BY <1>1, <1>2, <1>3, <1>4

LEMMA SmallRemainder ==
  ASSUME NEW n \in Nat \ {0}, NEW x \in 0 .. n - 1
  PROVE  x % n = x
<1>1. x \in Int
  OBVIOUS
<1>2. PICK q \in Int : x = q * n + (x % n)
  BY <1>1, Remainder
<1>3. x % n \in 0 .. n - 1 /\ 0 * n = 0 /\ 0 * n + x = x
  BY <1>1, Remainder
<1> DEFINE r == x % n
<1> HIDE DEF r
<1>4. q * n + r = 0 * n + x /\ r \in 0 .. n - 1
  BY <1>2, <1>3 DEF r
<1>5. r = x
  BY <1>4, RemainderUnique
<1>6. QED
  BY <1>5 DEF r

\* Whatever differs by a multiple of n has the same remainder.
LEMMA SameRemainder ==
  ASSUME NEW n \in Nat \ {0}, NEW x \in Int, NEW y \in Int, NEW k \in Int, x = y + k * n
  PROVE  x % n = y % n
<1> DEFINE r == x % n  s == y % n
<1>1. PICK q \in Int : x = q * n + r
  BY Remainder
<1>2. PICK p \in Int : y = p * n + s
  BY Remainder
<1>3. r \in 0 .. n - 1 /\ s \in 0 .. n - 1
  BY Remainder
<1> HIDE DEF r, s
<1>4. (p + k) * n = p * n + k * n /\ p + k \in Int /\ p * n \in Int /\ k * n \in Int /\ q * n \in Int
  OBVIOUS
<1>5. q * n + r = (p + k) * n + s
  BY <1>1, <1>2, <1>3, <1>4
<1>6. r = s
  BY <1>3, <1>4, <1>5, RemainderUnique
<1>7. QED
  BY <1>6 DEF r, s

\* Adding to a wrapped number, or to the number itself, is the same.
LEMMA RemainderOfSum ==
  ASSUME NEW n \in Nat \ {0}, NEW x \in Int, NEW y \in Int
  PROVE  ((x % n) + y) % n = (x + y) % n
<1> DEFINE r == x % n  a == x + y  b == r + y
<1>1. PICK q \in Int : x = q * n + r
  BY Remainder
<1>2. r \in Int
  BY Remainder
<1> HIDE DEF r
<1>3. a \in Int /\ b \in Int /\ a = b + q * n
  BY <1>1, <1>2
<1> HIDE DEF a, b
<1>4. a % n = b % n
  BY <1>3, SameRemainder
<1>5. QED
  BY <1>4 DEF a, b, r

\* The difference of two wrapped numbers, wrapped, is the wrapped difference.
LEMMA RemainderOfDifference ==
  ASSUME NEW n \in Nat \ {0}, NEW x \in Int, NEW y \in Int
  PROVE  ((x % n) - (y % n)) % n = (x - y) % n
<1> DEFINE r == x % n  s == y % n  a == x - y  b == r - s
<1>1. PICK q \in Int : x = q * n + r
  BY Remainder
<1>2. PICK p \in Int : y = p * n + s
  BY Remainder
<1>3. r \in Int /\ s \in Int
  BY Remainder
<1> HIDE DEF r, s
<1>4. (q - p) * n = q * n - p * n /\ q - p \in Int /\ p * n \in Int /\ q * n \in Int
  OBVIOUS
<1>5. a \in Int /\ b \in Int /\ a = b + (q - p) * n
  BY <1>1, <1>2, <1>3, <1>4
<1> DEFINE k == q - p
<1>6. k \in Int /\ a = b + k * n
  BY <1>4, <1>5
<1> HIDE DEF a, b, k
<1>7. a % n = b % n
  BY <1>5, <1>6, SameRemainder
<1>8. QED
  BY <1>7 DEF a, b, r, s

LEMMA RoundTheRing ==
  ASSUME NEW n \in Nat \ {0}, NEW x \in Int
  PROVE  (x + n) % n = x % n
<1> DEFINE a == x + n  k == 1
<1>1. a \in Int /\ k \in Int /\ a = x + k * n
  OBVIOUS
<1> HIDE DEF a, k
<1>2. a % n = x % n
  BY <1>1, SameRemainder
<1>3. QED
  BY <1>2 DEF a

-----------------------------------------------------------------------------
(* The ring *)

LEMMA RingGoesOn ==
  ASSUME NEW s \in Slots
  PROVE  /\ Following(s) \in Slots
         /\ Following(s) = IF s = Size - 1 THEN 0 ELSE s + 1
<1>1. Size \in Nat \ {0, 1} /\ s \in Nat /\ s < Size
  BY TwAssumption DEF Slots
<1>2. CASE s = Size - 1
  <2>1. s + 1 = 0 + Size /\ 0 \in 0 .. Size - 1 /\ 0 \in Int /\ Size \in Nat \ {0}
    BY <1>1, <1>2
  <2>2. (0 + Size) % Size = 0 % Size /\ 0 % Size = 0
    BY <2>1, RoundTheRing, SmallRemainder
  <2>3. QED
    BY <1>2, <2>1, <2>2 DEF Following, Slots
<1>3. CASE s # Size - 1
  <2>1. s + 1 \in 0 .. Size - 1 /\ Size \in Nat \ {0}
    BY <1>1, <1>3
  <2> DEFINE t == s + 1
  <2> HIDE DEF t
  <2>2. t % Size = t
    BY <2>1, SmallRemainder DEF t
  <2>3. QED
    BY <1>3, <2>1, <2>2 DEF Following, Slots, t
<1>4. QED
  BY <1>2, <1>3

\* No two slots have the same successor.
LEMMA RingIsSimple ==
  ASSUME NEW s \in Slots, NEW t \in Slots
  PROVE  /\ Following(s) # s
         /\ Following(s) = Following(t) => s = t
<1>1. Size \in Nat \ {0, 1} /\ s \in Nat /\ t \in Nat /\ s < Size /\ t < Size
  BY TwAssumption DEF Slots
<1>2. QED
  BY <1>1, RingGoesOn

Written(s) == entries[s] # NoEntry

\* The entries get younger towards the index, without another in between, and
\* their sums are the integrals, wrapped.
Ordered ==
  /\ \A s \in Slots : Written(s) => entries[s].time <= Last.time
  /\ \A s \in Slots : Written(s) /\ s # index =>
       Written(Following(s)) /\ entries[s].time < entries[Following(s)].time
  /\ \A s, t \in Slots : Written(s) /\ Written(t) /\ s # index =>
       (entries[s].time < entries[t].time => entries[Following(s)].time <= entries[t].time)

Width == U64Max + 1

Summed ==
  /\ Last.time <= now
  /\ \A s \in Slots : Written(s) => entries[s].sum = exact[s] % Width
  /\ Last.sum = exact[index] % Width
  /\ integral = exact[index] + utilization * (now - Last.time)

RingOK == TypeOK /\ Ordered /\ Summed

LEMMA TwNumbers ==
  /\ Width \in Nat \ {0} /\ U64 = 0 .. Width - 1
  /\ U32 \subseteq Nat /\ U64 \subseteq Nat /\ E6 \in U32 /\ E6 \in Nat
  /\ Start \in Nat /\ Params.minRate \in Nat /\ Params.maxRate \in Nat
  /\ Params.minTime \in Nat
<1>1. U64Max \in Nat /\ U32Max \in Nat /\ E6 \in Nat
  BY ScaleAssumption
<1>2. Params \in ParamsState /\ Start \in Nat /\ E6 \in U32
  BY TwAssumption
<1>3. QED
  BY <1>1, <1>2 DEF Width, U64, U32, ParamsState

LEMMA LastTyped ==
  ASSUME TypeOK
  PROVE  /\ Last.time \in Nat /\ Last.sum \in U64
         /\ \A s \in Slots : Written(s) => entries[s].time \in Nat /\ entries[s].sum \in U64
         /\ Written(index) => Last = entries[index]
         /\ ~Written(index) => Last = [time |-> 0, sum |-> 0]
<1>1. \A s \in Slots : Written(s) => entries[s] \in EntryState
  BY DEF TypeOK, Written
<1>2. index \in Slots /\ 0 \in U64
  BY TwNumbers DEF TypeOK
<1>3. QED
  BY <1>1, <1>2 DEF Last, Written, EntryState

LEMMA RingStarts == Init => RingOK
<1> SUFFICES ASSUME Init PROVE RingOK
  OBVIOUS
<1>1. \A s \in Slots : ~Written(s) /\ exact[s] = 0
  BY DEF Init, Written
<1>2. 0 \in Slots /\ index = 0
  BY TwAssumption DEF Slots, Init
<1>3. TypeOK
  <2>1. E6 * Start \in Nat
    BY TwNumbers
  <2>2. QED
    BY <1>2, <2>1, TwNumbers DEF Init, TypeOK
<1>4. Ordered
  BY <1>1 DEF Ordered
<1>5. Last = [time |-> 0, sum |-> 0] /\ exact[index] = 0 /\ 0 % Width = 0
  BY <1>1, <1>2, TwNumbers, SmallRemainder DEF Last, Written
<1>6. integral = 0 + E6 * (Start - 0) /\ now = Start /\ utilization = E6
  BY TwNumbers DEF Init
<1>7. Summed
  BY <1>1, <1>5, <1>6, TwNumbers DEF Summed
<1>8. QED
  BY <1>3, <1>4, <1>7 DEF RingOK

LEMMA TickKeepsRing ==
  ASSUME RingOK, Tick
  PROVE  RingOK'
<1>1. /\ now' = now + 1 /\ integral' = integral + utilization
      /\ UNCHANGED <<utilization, index, entries, rateAtTarget, lastAdjustment, exact>>
  BY DEF Tick
<1>2. Last' = Last /\ Last.time \in Nat
  BY <1>1, LastTyped DEF Last, RingOK
<1>3. now \in Nat /\ utilization \in Nat /\ integral \in Nat /\ exact[index] \in Nat
  BY TwNumbers DEF RingOK, TypeOK
<1>4. TypeOK'
  BY <1>1, <1>3 DEF RingOK, TypeOK
<1>5. Ordered'
  BY <1>1, <1>2 DEF RingOK, Ordered, Written, Following
<1>6. integral' = exact[index] + utilization * (now' - Last.time)
  <2> DEFINE d == now - Last.time
  <2>1. d \in Int /\ integral = exact[index] + utilization * d
    BY <1>2, <1>3 DEF RingOK, Summed
  <2>2. now' - Last.time = d + 1
    BY <1>1, <1>2, <1>3
  <2> HIDE DEF d
  <2>3. utilization * (d + 1) = utilization * d + utilization /\ utilization * d \in Int
    BY <1>3, <2>1
  <2>4. QED
    BY <1>1, <1>3, <2>1, <2>2, <2>3
<1>7. Summed'
  BY <1>1, <1>2, <1>3, <1>6 DEF RingOK, Summed, Written
<1>8. QED
  BY <1>4, <1>5, <1>7 DEF RingOK

\* The message takes no snapshot, because it has been taken in this block.
LEMMA SecondWorkKeepsRing ==
  ASSUME RingOK, NEW u \in Utilizations, Work(u), Last.time >= now
  PROVE  RingOK'
<1>1. /\ utilization' = u
      /\ UNCHANGED <<now, index, entries, rateAtTarget, lastAdjustment, integral, exact>>
  BY DEF Work, Snapshot
<1>2. Last' = Last /\ Last.time \in Nat
  BY <1>1, LastTyped DEF Last, RingOK
<1>3. /\ now \in Nat /\ utilization \in Nat /\ integral \in Nat /\ exact[index] \in Nat
      /\ u \in U32 /\ u \in Nat
  BY TwNumbers, TwAssumption DEF RingOK, TypeOK
<1>4. TypeOK'
  BY <1>1, <1>3 DEF RingOK, TypeOK
<1>5. Ordered'
  BY <1>1, <1>2 DEF RingOK, Ordered, Written, Following
<1>6. Last.time = now /\ now - Last.time = 0 /\ utilization * 0 = 0 /\ u * 0 = 0
  <2>1. Last.time <= now
    BY DEF RingOK, Summed
  <2>2. Last.time = now
    BY <1>2, <1>3, <2>1
  <2>3. QED
    BY <1>3, <2>2
<1>7. integral' = exact[index] + u * (now - Last.time)
  BY <1>1, <1>2, <1>3, <1>6 DEF RingOK, Summed
<1>8. Summed'
  BY <1>1, <1>2, <1>7 DEF RingOK, Summed, Written
<1>9. QED
  BY <1>4, <1>5, <1>8 DEF RingOK

\* The message writes the next slot.
LEMMA FirstWorkKeepsRing ==
  ASSUME RingOK, NEW u \in Utilizations, Work(u), ~(Last.time >= now)
  PROVE  RingOK'
<1> DEFINE new == Following(index)
           e == [time |-> now, sum |-> NewSum]
<1>1. /\ utilization' = u /\ index' = new
      /\ entries' = [entries EXCEPT ![new] = e]
      /\ exact' = [exact EXCEPT ![new] = integral]
      /\ UNCHANGED <<now, rateAtTarget, lastAdjustment, integral>>
  BY DEF Work, Snapshot
<1>2. /\ now \in Nat /\ utilization \in Nat /\ integral \in Nat /\ exact[index] \in Nat
      /\ u \in U32 /\ u \in Nat /\ Last.time \in Nat /\ Last.sum \in U64 /\ Last.time < now
      /\ entries \in [Slots -> EntryState \cup {NoEntry}] /\ exact \in [Slots -> Nat]
  BY TwNumbers, TwAssumption, LastTyped DEF RingOK, TypeOK
<1>3. index \in Slots /\ new \in Slots /\ new # index
  BY RingGoesOn, RingIsSimple DEF RingOK, TypeOK
<1>4. integral = exact[index] + Charge /\ Charge \in Nat
  <2>1. Charge = utilization * (now - Last.time)
    BY DEF Charge
  <2> DEFINE d == now - Last.time
  <2>2. d \in Nat
    BY <1>2
  <2> HIDE DEF d
  <2>3. utilization * d \in Nat
    BY <1>2, <2>2
  <2>4. QED
    BY <2>1, <2>3 DEF RingOK, Summed, d
<1>5. NewSum = integral % Width /\ NewSum \in U64
  <2>1. NewSum = (Last.sum + Charge) % Width /\ Last.sum = exact[index] % Width
    BY DEF NewSum, Width, RingOK, Summed
  <2>2. exact[index] \in Int /\ Charge \in Int /\ integral \in Int /\ Width \in Nat \ {0}
    BY <1>2, <1>4, TwNumbers
  <2>3. ((exact[index] % Width) + Charge) % Width = (exact[index] + Charge) % Width
    BY <2>2, RemainderOfSum, Zenon
  <2>4. integral % Width \in 0 .. Width - 1
    BY <2>2, Remainder, Zenon
  <2>5. QED
    BY <1>4, <2>1, <2>3, <2>4, TwNumbers
<1>6. e \in EntryState /\ e # NoEntry /\ e.time = now /\ e.sum = NewSum
  BY <1>2, <1>5 DEF EntryState, NoEntry
<1> HIDE DEF e
<1>7. TypeOK'
  BY <1>1, <1>2, <1>3, <1>6 DEF RingOK, TypeOK
<1>8. /\ entries'[new] = e /\ exact'[new] = integral
      /\ \A s \in Slots \ {new} : entries'[s] = entries[s] /\ exact'[s] = exact[s]
  BY <1>1, <1>2, <1>3
<1>9. Last' = e
  BY <1>1, <1>6, <1>8 DEF Last
<1> HIDE DEF new
<1>10. \A s \in Slots : Written(s)' <=> s = new \/ Written(s)
  BY <1>6, <1>8 DEF Written
<1>11. \A s \in Slots : Written(s) => entries[s].time \in Nat /\ entries[s].time < now
  <2> SUFFICES ASSUME NEW s \in Slots, Written(s)
               PROVE  entries[s].time \in Nat /\ entries[s].time < now
    OBVIOUS
  <2>1. entries[s].time \in Nat /\ entries[s].time <= Last.time
    BY LastTyped DEF RingOK, Ordered
  <2>2. QED
    BY <1>2, <2>1
<1>12. Ordered'
  <2>1. ASSUME NEW s \in Slots, Written(s)'
        PROVE  entries'[s].time \in Nat /\ entries'[s].time <= now
    BY <1>2, <1>6, <1>8, <1>10, <1>11, <2>1
  <2>2. ASSUME NEW s \in Slots, Written(s)', s # index'
        PROVE  Written(Following(s))' /\ entries'[s].time < entries'[Following(s)].time
    <3>1. s # new /\ Written(s) /\ entries'[s] = entries[s] /\ entries[s].time < now
      BY <1>1, <1>8, <1>10, <1>11, <2>2 DEF new
    <3>2. CASE s = index
      BY <1>3, <1>6, <1>8, <1>10, <3>1, <3>2 DEF new
    <3>3. CASE s # index
      <4>1. Following(s) \in Slots /\ Following(s) # new
        BY <1>3, <3>3, RingGoesOn, RingIsSimple DEF new
      <4>2. Written(Following(s)) /\ entries[s].time < entries[Following(s)].time
        BY <3>1, <3>3 DEF RingOK, Ordered
      <4>3. QED
        BY <1>8, <1>10, <3>1, <4>1, <4>2
    <3>4. QED
      BY <3>2, <3>3
  <2>3. ASSUME NEW s \in Slots, NEW t \in Slots, Written(s)', Written(t)', s # index',
               entries'[s].time < entries'[t].time
        PROVE  entries'[Following(s)].time <= entries'[t].time
    <3>1. s # new /\ Written(s) /\ entries'[s] = entries[s]
      BY <1>1, <1>8, <1>10, <2>3 DEF new
    <3>2. Following(s) \in Slots /\ Written(Following(s))'
      BY <2>2, <2>3, RingGoesOn
    <3>3. CASE t = new
      <4>1. entries'[Following(s)].time <= now
        BY <2>1, <3>2
      <4>2. QED
        BY <1>6, <1>8, <3>3, <4>1
    <3>4. CASE t # new
      <4>1. Written(t) /\ entries'[t] = entries[t]
        BY <1>8, <1>10, <2>3, <3>4
      <4>2. s # index
        <5>1. ASSUME s = index PROVE FALSE
          <6>1. Last = entries[s]
            BY <3>1, <5>1, LastTyped DEF RingOK
          <6>2. entries[t].time <= Last.time
            BY <4>1 DEF RingOK, Ordered
          <6>3. entries[t].time \in Nat /\ entries[s].time \in Nat
            BY <1>11, <3>1, <4>1
          <6>4. QED
            BY <2>3, <3>1, <4>1, <6>1, <6>2, <6>3
        <5>2. QED
          BY <5>1
      <4>3. Following(s) # new
        BY <1>3, <4>2, RingIsSimple DEF new
      <4>4. entries[Following(s)].time <= entries[t].time
        BY <2>3, <3>1, <4>1, <4>2 DEF RingOK, Ordered
      <4>5. QED
        BY <1>8, <3>2, <4>1, <4>3, <4>4
    <3>5. QED
      BY <3>3, <3>4
  <2>4. Last'.time = now /\ \A s \in Slots : Following(s)' = Following(s)
    BY <1>6, <1>9 DEF Following
  <2>5. QED
    BY <2>1, <2>2, <2>3, <2>4 DEF Ordered
<1>13. Summed'
  <2>1. Last'.time = now' /\ Last'.time <= now'
    BY <1>1, <1>2, <1>6, <1>9
  <2>2. \A s \in Slots : Written(s)' => entries'[s].sum = exact'[s] % Width
    BY <1>5, <1>6, <1>8, <1>10 DEF RingOK, Summed
  <2>3. Last'.sum = exact'[index'] % Width
    BY <1>1, <1>5, <1>6, <1>8, <1>9 DEF new
  <2>4. integral' = exact'[index'] + utilization' * (now' - Last'.time)
    <3>1. now' - Last'.time = 0 /\ u * 0 = 0 /\ exact'[index'] = integral
      BY <1>1, <1>2, <1>8, <2>1 DEF new
    <3>2. QED
      BY <1>1, <1>2, <3>1
  <2>5. QED
    BY <2>1, <2>2, <2>3, <2>4 DEF Summed, Width
<1>14. QED
  BY <1>7, <1>12, <1>13 DEF RingOK

LEMMA AdjustKeepsRing ==
  ASSUME RingOK, lastAdjustment' = now, NEW x \in U32, CanRate(x, Model),
         rateAtTarget' = Adjusted(x),
         UNCHANGED <<now, utilization, index, entries, integral, exact>>
  PROVE  RingOK'
<1>1. rateAtTarget' \in Nat
  <2> DEFINE rate == DebtRateAt(x, Model)
  <2>1. rate \in U32 \/ rate \in U64
    BY DEF CanRate
  <2>2. rate \in Nat
    BY <2>1, TwNumbers
  <2>3. rateAtTarget' = IF rate < Params.minRate THEN Params.minRate
                        ELSE IF rate > Params.maxRate THEN Params.maxRate ELSE rate
    BY DEF Adjusted
  <2> HIDE DEF rate
  <2>4. QED
    BY <2>2, <2>3, TwNumbers
<1>2. TypeOK'
  BY <1>1 DEF RingOK, TypeOK
<1>3. Last' = Last
  BY DEF Last
<1>4. Ordered'
  BY <1>3 DEF RingOK, Ordered, Written, Following
<1>5. Summed'
  BY <1>3 DEF RingOK, Summed, Written
<1>6. QED
  BY <1>2, <1>4, <1>5 DEF RingOK

LEMMA IdleKeepsRing ==
  ASSUME RingOK, UNCHANGED vars
  PROVE  RingOK'
<1>1. /\ UNCHANGED <<now, utilization, index, entries, rateAtTarget, lastAdjustment>>
      /\ UNCHANGED <<integral, exact>>
  BY DEF vars
<1>2. TypeOK'
  BY <1>1 DEF RingOK, TypeOK
<1>3. Last' = Last
  BY <1>1 DEF Last
<1>4. Ordered'
  BY <1>1, <1>3 DEF RingOK, Ordered, Written, Following
<1>5. Summed'
  BY <1>1, <1>3 DEF RingOK, Summed, Written
<1>6. QED
  BY <1>2, <1>4, <1>5 DEF RingOK

-----------------------------------------------------------------------------
(* The search *)

LEMMA CandidateGoesOn ==
  ASSUME NEW g \in Nat, NEW k \in Nat
  PROVE  /\ Candidate(g, k) \in Nat
         /\ Following(Candidate(g, k)) = Candidate(g, k + 1)
         /\ Following(Candidate(g, k)) \in Slots
<1>1. Size \in Nat \ {0}
  BY TwAssumption
<1>2. /\ (g + k) % Size \in 0 .. Size - 1 /\ ((g + k) + 1) % Size \in 0 .. Size - 1
      /\ (((g + k) % Size) + 1) % Size = ((g + k) + 1) % Size
  <2> DEFINE x == g + k  y == x + 1
  <2>1. x \in Int /\ y \in Int /\ 1 \in Int
    OBVIOUS
  <2>2. ((x % Size) + 1) % Size = (x + 1) % Size
    <3> HIDE DEF x
    <3>1. QED
      BY <1>1, <2>1, RemainderOfSum
  <2>3. x % Size \in 0 .. Size - 1 /\ y % Size \in 0 .. Size - 1
    <3> HIDE DEF x, y
    <3>1. QED
      BY <1>1, <2>1, Remainder
  <2>4. QED
    BY <2>2, <2>3
<1>3. g + (k + 1) = (g + k) + 1 /\ k + 1 # 0
  OBVIOUS
<1>4. Candidate(g, k + 1) = ((g + k) + 1) % Size
  BY <1>3 DEF Candidate
<1>5. CASE k = 0
  BY <1>2, <1>4, <1>5 DEF Candidate, Following, Slots
<1>6. CASE k # 0
  BY <1>1, <1>2, <1>4, <1>6 DEF Candidate, Following, Slots
<1>7. QED
  BY <1>5, <1>6

\* After going once round the ring the search is where it was.
LEMMA CandidateReturns ==
  ASSUME NEW g \in Nat, NEW k \in Nat \ {0}
  PROVE  Candidate(g, k + Size) = Candidate(g, k)
<1> DEFINE x == g + k
<1>1. Size \in Nat \ {0} /\ x \in Int /\ k + Size # 0 /\ g + (k + Size) = x + Size
  BY TwAssumption
<1>2. (x + Size) % Size = x % Size
  <2> HIDE DEF x
  <2>1. QED
    BY <1>1, RoundTheRing
<1>3. QED
  BY <1>1, <1>2 DEF Candidate

\* The smallest step the search may stop at is the one it stops at.
LEMMA FirstStop ==
  ASSUME NEW g \in Nat, NEW k \in Nat, StopsAt(g, k), \A m \in 0 .. k - 1 : ~StopsAt(g, m)
  PROVE  Stops(g) # {} /\ Min(Stops(g)) = k
<1>1. Size \in Nat \ {0}
  BY TwAssumption
<1>2. k <= Size
  <2> SUFFICES ASSUME k > Size PROVE FALSE
    BY <1>1
  <2> DEFINE m == k - Size
  <2>1. m \in Nat \ {0} /\ m \in 0 .. k - 1 /\ m + Size = k
    BY <1>1
  <2> HIDE DEF m
  <2>2. Candidate(g, k) = Candidate(g, m)
    BY <2>1, CandidateReturns
  <2>3. StopsAt(g, m)
    BY <2>2 DEF StopsAt, Successor
  <2>4. QED
    BY <2>1, <2>3
<1>3. k \in Stops(g) /\ \A m \in Stops(g) : m \in Nat /\ k <= m
  BY <1>1, <1>2 DEF Stops
<1> DEFINE first == Min(Stops(g))
<1>4. first \in Stops(g) /\ \A m \in Stops(g) : first <= m
  BY <1>3 DEF Min
<1> HIDE DEF first
<1>5. first \in Nat /\ k <= first /\ first <= k
  BY <1>3, <1>4
<1>6. first = k
  BY <1>5
<1>7. QED
  BY <1>3, <1>6 DEF first

\* The search has come to the k-th slot for its guess, and the ones before
\* were no place to stop.
ComeTo(g, k) ==
  /\ search = [guess |-> g, at |-> Candidate(g, k)]
  /\ \A m \in 0 .. k - 1 : ~StopsAt(g, m)

Searching ==
  Running =>
    /\ now >= lastAdjustment + Params.minTime
    /\ Written(index)
    /\ \E g \in Guesses, k \in Nat : ComeTo(g, k)

SearchOK == RingOK /\ Searching

LEMMA AgeTyped ==
  ASSUME TypeOK, NEW s \in Slots, Written(s)
  PROVE  /\ Age(entries[s]) \in Nat
         /\ Age(entries[s]) = IF Last.time >= entries[s].time
                              THEN Last.time - entries[s].time ELSE 0
  BY LastTyped DEF Age, Monus

LEMMA GuessTyped == \A g \in Guesses : g \in Nat
  BY TwAssumption

\* The loop's condition is that the search may not stop.
LEMMA WalksOrStops ==
  ASSUME TypeOK, Running, NEW g \in Guesses, NEW k \in Nat, ComeTo(g, k)
  PROVE  /\ After = Successor(g, k)
         /\ Walks <=> ~StopsAt(g, k)
<1>1. search.at = Candidate(g, k)
  BY DEF ComeTo
<1>2. After = Successor(g, k)
  BY <1>1 DEF After, Successor, Following
<1>3. Following(search.at) \in Slots
  BY <1>1, CandidateGoesOn, GuessTyped
<1>4. After # NoEntry => Age(After) \in Nat
  BY <1>3, AgeTyped DEF After, Entry, Written
<1>5. QED
  BY <1>2, <1>4, TwNumbers DEF Walks, StopsAt

LEMMA StopsUnchanged ==
  ASSUME UNCHANGED vars, NEW g, NEW k
  PROVE  StopsAt(g, k)' <=> StopsAt(g, k)
BY DEF vars, StopsAt, Successor, Entry, Age, Monus, Last, Candidate

LEMMA BeginsSearch ==
  ASSUME SearchOK, NEW g \in Guesses, BeginSearch(g)
  PROVE  SearchOK'
<1>1. RingOK'
  BY IdleKeepsRing DEF BeginSearch, SearchOK
<1>2. /\ UNCHANGED vars /\ search' = [guess |-> g, at |-> g]
      /\ now >= lastAdjustment + Params.minTime /\ Written(index)
  BY DEF BeginSearch, Written
<1>3. ComeTo(g, 0)'
  BY <1>2 DEF ComeTo, Candidate
<1>4. now' >= lastAdjustment' + Params.minTime /\ Written(index)'
  BY <1>2 DEF vars, Written
<1>5. QED
  BY <1>1, <1>3, <1>4 DEF SearchOK, Searching

LEMMA StepsKeepSearch ==
  ASSUME SearchOK, StepOn
  PROVE  SearchOK'
<1>1. Running /\ Walks /\ UNCHANGED vars /\ search' = [search EXCEPT !.at = Following(@)]
  BY DEF StepOn, Walks
<1>2. RingOK'
  BY <1>1, IdleKeepsRing DEF SearchOK
<1>3. PICK g \in Guesses, k \in Nat : ComeTo(g, k)
  BY <1>1 DEF SearchOK, Searching
<1>4. ~StopsAt(g, k) /\ g \in Nat
  BY <1>1, <1>3, WalksOrStops, GuessTyped DEF SearchOK, RingOK
<1>5. search' = [guess |-> g, at |-> Candidate(g, k + 1)]
  BY <1>1, <1>3, <1>4, CandidateGoesOn DEF ComeTo
<1>6. \A m \in 0 .. (k + 1) - 1 : ~StopsAt(g, m)'
  <2>1. \A m \in 0 .. (k + 1) - 1 : ~StopsAt(g, m)
    BY <1>3, <1>4 DEF ComeTo
  <2>2. QED
    BY <1>1, <2>1, StopsUnchanged
<1>7. ComeTo(g, k + 1)' /\ k + 1 \in Nat
  BY <1>5, <1>6 DEF ComeTo
<1>8. now' >= lastAdjustment' + Params.minTime /\ Written(index)'
  BY <1>1 DEF SearchOK, Searching, vars, Written
<1>9. QED
  BY <1>2, <1>7, <1>8 DEF SearchOK, Searching

\* A search that succeeds is the adjustment in one step.
LEMMA SearchAdjusts ==
  ASSUME SearchOK, Adjust
  PROVE  /\ \E g \in Guesses : AdjustRateAtTarget(g)
         /\ SearchOK'
<1>1. Running /\ ~Walks /\ Succeeds /\ search' = None
  BY DEF Adjust
<1> DEFINE e == Entry(search.at)
<1>2. /\ rateAtTarget' = Adjusted(AverageSince(e)) /\ lastAdjustment' = now
      /\ UNCHANGED <<now, utilization, index, entries, integral, exact>>
  BY DEF Adjust
<1>3. /\ After # NoEntry /\ e # NoEntry /\ Age(e) >= Params.minTime /\ Age(e) # 0
      /\ AverageSince(e) \in U32 /\ CanRate(AverageSince(e), Model)
  BY <1>1 DEF Succeeds
<1>4. PICK g \in Guesses, k \in Nat : ComeTo(g, k)
  BY <1>1 DEF SearchOK, Searching
<1>5. After = Successor(g, k) /\ StopsAt(g, k)
  BY <1>1, <1>4, WalksOrStops DEF SearchOK, RingOK
<1>6. Stops(g) # {} /\ Min(Stops(g)) = k
  BY <1>4, <1>5, FirstStop, GuessTyped DEF ComeTo
<1>7. Entry(Found(g)) = e
  BY <1>4, <1>6 DEF Found, ComeTo
<1> HIDE DEF e
<1>8. Finds(g)
  BY <1>1, <1>3, <1>5, <1>6, <1>7 DEF Finds, SearchOK, Searching, Written
<1>9. Average(g) = AverageSince(e)
  BY <1>7 DEF Average, AverageSince
<1>10. now >= lastAdjustment + Params.minTime
  BY <1>1 DEF SearchOK, Searching
<1>11. AdjustRateAtTarget(g)
  BY <1>2, <1>3, <1>7, <1>8, <1>9, <1>10 DEF AdjustRateAtTarget
<1>12. RingOK'
  BY <1>2, <1>3, AdjustKeepsRing DEF SearchOK
<1>13. QED
  BY <1>1, <1>11, <1>12 DEF SearchOK, Searching, Running

LEMMA OthersKeepSearch ==
  ASSUME SearchOK, Others
  PROVE  SearchOK'
<1>1. ~Running'
  BY DEF Others, Running
<1>2. CASE Tick
  BY <1>1, <1>2, TickKeepsRing DEF SearchOK, Searching
<1>3. ASSUME NEW u \in Utilizations, Work(u) PROVE SearchOK'
  BY <1>1, <1>3, FirstWorkKeepsRing, SecondWorkKeepsRing DEF SearchOK, Searching
<1>4. QED
  BY <1>2, <1>3 DEF Others

LEMMA SearchKept == SearchOK /\ [NextSearch]_searchVars => SearchOK'
<1> SUFFICES ASSUME SearchOK, [NextSearch]_searchVars PROVE SearchOK'
  OBVIOUS
<1>1. CASE UNCHANGED searchVars
  <2>1. UNCHANGED vars /\ search' = search
    BY <1>1 DEF searchVars
  <2>2. RingOK'
    BY <2>1, IdleKeepsRing DEF SearchOK
  <2>3. Searching'
    <3> SUFFICES ASSUME Running
                 PROVE  /\ now' >= lastAdjustment' + Params.minTime /\ Written(index)'
                        /\ \E g \in Guesses, k \in Nat : ComeTo(g, k)'
      BY <2>1 DEF Searching, Running
    <3>1. PICK g \in Guesses, k \in Nat : ComeTo(g, k)
      BY DEF SearchOK, Searching
    <3>2. ComeTo(g, k)'
      BY <2>1, <3>1, StopsUnchanged DEF ComeTo
    <3>3. now' >= lastAdjustment' + Params.minTime /\ Written(index)'
      BY <2>1 DEF SearchOK, Searching, vars, Written
    <3>4. QED
      BY <3>2, <3>3
  <2>4. QED
    BY <2>2, <2>3 DEF SearchOK
<1>2. CASE Others
  BY <1>2, OthersKeepSearch
<1>3. ASSUME NEW g \in Guesses, BeginSearch(g) PROVE SearchOK'
  BY <1>3, BeginsSearch
<1>4. CASE StepOn
  BY <1>4, StepsKeepSearch
<1>5. CASE Adjust
  BY <1>5, SearchAdjusts
<1>6. CASE Refuse
  <2>1. UNCHANGED vars /\ ~Running'
    BY <1>6 DEF Refuse, Running
  <2>2. QED
    BY <2>1, IdleKeepsRing DEF SearchOK, Searching
<1>7. QED
  BY <1>1, <1>2, <1>3, <1>4, <1>5, <1>6 DEF NextSearch, Proceed

LEMMA SearchStarts == InitSearch => SearchOK
BY RingStarts DEF InitSearch, SearchOK, Searching, Running

LEMMA SearchAlwaysOK == SpecSearch => []SearchOK
BY SearchStarts, SearchKept, PTL DEF SpecSearch

-----------------------------------------------------------------------------
(* What a search finds *)

\* The smallest element of a set of numbers.
LEMMA SmallestNumber ==
  ASSUME NEW T \in SUBSET Nat, T # {}
  PROVE  \E n \in T : \A m \in T : n <= m
<1>1. PICK n \in T : \A m \in T : ~(<<m, n>> \in OpToRel(<, Nat))
  BY NatLessThanWellFounded, WFMin
<1>2. \A m \in T : ~(m < n)
  BY <1>1 DEF OpToRel
<1>3. QED
  BY <1>2

LEMMA FoundEntry ==
  ASSUME TypeOK, NEW g \in Guesses \cup Slots, Finds(g)
  PROVE  /\ Found(g) \in Slots /\ Written(Found(g))
         /\ Entry(Found(g)) = entries[Found(g)]
         /\ Age(entries[Found(g)]) >= Params.minTime
         /\ Found(g) # index
         /\ Written(Following(Found(g)))
         /\ Age(entries[Following(Found(g))]) < Params.minTime
<1>1. g \in Nat
  BY GuessTyped, TwAssumption DEF Slots
<1> DEFINE k == Min(Stops(g))  f == Found(g)
<1>2. k \in Stops(g) /\ Stops(g) \subseteq Nat
  <2>1. Stops(g) # {} /\ Stops(g) \subseteq Nat
    BY DEF Finds, Stops
  <2>2. \E n \in Stops(g) : \A m \in Stops(g) : n <= m
    BY <2>1, SmallestNumber
  <2>3. QED
    BY <2>1, <2>2 DEF Min
<1>3. Successor(g, k) # NoEntry /\ Entry(f) # NoEntry /\ Age(Entry(f)) >= Params.minTime
  BY DEF Finds
<1>4. f = Candidate(g, k) /\ StopsAt(g, k)
  BY <1>2 DEF Found, Stops
<1> HIDE DEF k, f
<1>5. f \in Slots /\ Written(f) /\ Entry(f) = entries[f]
  BY <1>3 DEF Entry, Written
<1>6. Following(f) \in Slots /\ Successor(g, k) = Entry(Following(f))
  BY <1>4, <1>5, RingGoesOn DEF Successor, Following
<1>7. /\ Successor(g, k) = entries[Following(f)] /\ Written(Following(f))
      /\ Age(entries[Following(f)]) < Params.minTime
  BY <1>3, <1>4, <1>6 DEF Entry, Written, StopsAt
<1>8. f # index
  <2> SUFFICES ASSUME f = index PROVE FALSE
    OBVIOUS
  <2>1. Age(entries[f]) = 0
    BY <1>5, LastTyped, AgeTyped
  <2>2. Age(entries[Following(f)]) \in Nat
    BY <1>6, <1>7, AgeTyped
  <2>3. QED
    BY <1>3, <1>5, <1>7, <2>1, <2>2, TwNumbers
<1>9. QED
  BY <1>3, <1>5, <1>7, <1>8 DEF f

LEMMA ShortestIsFound == RingOK => WindowIsShortest
<1> SUFFICES ASSUME RingOK, NEW g \in Guesses, Finds(g), NEW s \in Slots, Written(s),
                    Age(entries[s]) >= Params.minTime
             PROVE  entries[s].time <= Entry(Found(g)).time
  BY DEF WindowIsShortest, Written
<1> DEFINE f == Found(g)  n == Following(f)
<1>1. /\ f \in Slots /\ Written(f) /\ Entry(f) = entries[f] /\ f # index
      /\ Written(n) /\ Age(entries[n]) < Params.minTime
  BY FoundEntry DEF RingOK
<1>2. n \in Slots
  BY <1>1, RingGoesOn
<1> HIDE DEF f, n
<1>3. entries[f].time < entries[s].time => entries[n].time <= entries[s].time
  BY <1>1 DEF RingOK, Ordered, n
<1>4. /\ entries[s].time \in Nat /\ entries[f].time \in Nat /\ entries[n].time \in Nat
      /\ Last.time \in Nat
  BY <1>1, <1>2, LastTyped DEF RingOK
<1>5. entries[n].time <= entries[s].time => Age(entries[s]) <= Age(entries[n])
  BY <1>1, <1>2, <1>4, AgeTyped DEF RingOK
<1>6. Age(entries[s]) \in Nat /\ Age(entries[n]) \in Nat
  BY <1>1, <1>2, AgeTyped DEF RingOK
<1>7. ~(entries[f].time < entries[s].time)
  BY <1>1, <1>3, <1>5, <1>6, TwNumbers
<1>8. QED
  BY <1>1, <1>4, <1>7 DEF f

LEMMA TrueAverage == RingOK => AverageIsTrue
<1> SUFFICES ASSUME RingOK, NEW g \in Guesses, Finds(g),
                    exact[index] - exact[Found(g)] \in U64
             PROVE  Average(g) = (exact[index] - exact[Found(g)]) \div Age(Entry(Found(g)))
  BY DEF AverageIsTrue
<1> DEFINE f == Found(g)
<1>1. f \in Slots /\ Written(f) /\ Entry(f) = entries[f]
  BY FoundEntry DEF RingOK
<1>2. Last.sum = exact[index] % Width /\ entries[f].sum = exact[f] % Width
  BY <1>1 DEF RingOK, Summed
<1>3. exact[index] \in Int /\ exact[f] \in Int /\ Width \in Nat \ {0}
  BY <1>1, TwNumbers DEF RingOK, TypeOK
<1>4. (Last.sum - entries[f].sum) % Width = (exact[index] - exact[f]) % Width
  BY <1>2, <1>3, RemainderOfDifference
<1>5. (exact[index] - exact[f]) % Width = exact[index] - exact[f]
  BY <1>3, TwNumbers, SmallRemainder
<1>6. QED
  BY <1>1, <1>4, <1>5 DEF Average, Width

LEMMA SomeGuessReaches ==
  ASSUME Params.minTime > 0
  PROVE  RingOK => WindowReachable
<1> SUFFICES ASSUME RingOK, NEW s0 \in Slots, Written(s0), Age(entries[s0]) >= Params.minTime
             PROVE  \E g \in Slots : Finds(g)
  BY DEF WindowReachable, Written
<1> DEFINE Old(s) == Written(s) /\ Age(entries[s]) >= Params.minTime
           T == {Age(entries[s]) : s \in {x \in Slots : Old(x)}}
<1>1. PICK s \in Slots : Old(s) /\ \A t \in Slots : Old(t) => Age(entries[s]) <= Age(entries[t])
  <2>1. T \in SUBSET Nat /\ T # {}
    BY AgeTyped DEF RingOK
  <2>2. PICK n \in T : \A m \in T : n <= m
    BY <2>1, SmallestNumber
  <2>3. QED
    BY <2>2
<1> HIDE DEF T
<1> DEFINE n == Following(s)
<1>2. s # index /\ Written(index)
  <2>1. s # index
    <3> SUFFICES ASSUME s = index PROVE FALSE
      OBVIOUS
    <3>1. Age(entries[s]) = 0
      BY <1>1, LastTyped, AgeTyped DEF RingOK
    <3>2. QED
      BY <1>1, <3>1, TwNumbers
  <2>2. Written(index)
    <3> SUFFICES ASSUME ~Written(index) PROVE FALSE
      OBVIOUS
    <3>1. Last.time = 0
      BY LastTyped DEF RingOK
    <3>2. Age(entries[s]) = 0
      BY <1>1, <3>1, LastTyped, AgeTyped DEF RingOK
    <3>3. QED
      BY <1>1, <3>2, TwNumbers
  <2>3. QED
    BY <2>1, <2>2
<1>3. n \in Slots /\ Written(n) /\ entries[s].time < entries[n].time
  BY <1>1, <1>2, RingGoesOn DEF RingOK, Ordered
<1> HIDE DEF n
<1>4. Age(entries[n]) < Params.minTime
  <2>1. /\ entries[s].time \in Nat /\ entries[n].time \in Nat /\ Last.time \in Nat
        /\ entries[n].time <= Last.time
    BY <1>1, <1>3, LastTyped DEF RingOK, Ordered
  <2>2. Age(entries[n]) < Age(entries[s]) /\ Age(entries[n]) \in Nat /\ Age(entries[s]) \in Nat
    BY <1>1, <1>3, <2>1, AgeTyped DEF RingOK
  <2>3. ~Old(n)
    BY <1>1, <1>3, <2>2
  <2>4. QED
    BY <1>3, <2>2, <2>3, TwNumbers
<1>5. Successor(s, 0) = entries[n]
  BY <1>3 DEF Successor, Candidate, Entry, n, Following
<1>6. StopsAt(s, 0) /\ s \in Nat /\ 0 \in Nat
  BY <1>4, <1>5, TwAssumption DEF StopsAt, Slots
<1>7. Stops(s) # {} /\ Min(Stops(s)) = 0
  BY <1>6, FirstStop
<1>8. Found(s) = s /\ Entry(s) = entries[s]
  BY <1>7 DEF Found, Candidate, Entry
<1>9. Finds(s)
  BY <1>1, <1>2, <1>3, <1>5, <1>7, <1>8 DEF Finds, Written
<1>10. QED
  BY <1>9

-----------------------------------------------------------------------------
(* The theorems *)

\* Types: the ring and its sums, and the running search, which never leaves
\* the ring once it has made a step.
THEOREM SearchTyped == SpecSearch => []SearchTypeOK
<1>1. SearchOK => SearchTypeOK
  <2> SUFFICES ASSUME SearchOK PROVE SearchTypeOK
    OBVIOUS
  <2>1. TypeOK
    BY DEF SearchOK, RingOK
  <2>2. ASSUME Running
        PROVE  search.guess \in Guesses /\ search.at \in Slots \cup {search.guess}
    <3>1. PICK g \in Guesses, k \in Nat : search = [guess |-> g, at |-> Candidate(g, k)]
      BY <2>2 DEF SearchOK, Searching, ComeTo
    <3>2. CASE k = 0
      BY <3>1, <3>2 DEF Candidate
    <3>3. CASE k # 0
      <4>1. PICK j \in Nat : k = j + 1
        BY <3>3
      <4>2. Following(Candidate(g, j)) = Candidate(g, j + 1) /\ Following(Candidate(g, j)) \in Slots
        BY CandidateGoesOn, GuessTyped
      <4>3. QED
        BY <3>1, <4>1, <4>2
    <3>4. QED
      BY <3>2, <3>3
  <2>3. QED
    BY <2>1, <2>2 DEF SearchTypeOK
<1>2. QED
  BY <1>1, SearchAlwaysOK, PTL

\* A search that succeeds finds the most recent entry that is old enough,
\* whatever was guessed and however the ring has wrapped.
THEOREM ShortestWindows == SpecSearch => []WindowIsShortest
<1>1. SearchOK => WindowIsShortest
  BY ShortestIsFound DEF SearchOK
<1>2. QED
  BY <1>1, SearchAlwaysOK, PTL

\* The average over a window whose sum fits is the true one, although the
\* running sums wrap around.
THEOREM TrueAverages == SpecSearch => []AverageIsTrue
<1>1. SearchOK => AverageIsTrue
  BY TrueAverage DEF SearchOK
<1>2. QED
  BY <1>1, SearchAlwaysOK, PTL

\* If there is an entry that is old enough, some guess leads to one.
THEOREM WindowsReachable ==
  ASSUME Params.minTime > 0
  PROVE  SpecSearch => []WindowReachable
<1>1. SearchOK => WindowReachable
  BY SomeGuessReaches DEF SearchOK
<1>2. QED
  BY <1>1, SearchAlwaysOK, PTL

-----------------------------------------------------------------------------
(* The refinement; Atomic! is TwUtilization with the same variables *)

LEMMA SameRing ==
  /\ Atomic!NoEntry = NoEntry /\ Atomic!Slots = Slots
  /\ Atomic!U32 = U32 /\ Atomic!U64 = U64
  /\ Atomic!Last = Last
  /\ \A s : Atomic!Following(s) = Following(s)
  /\ \A s : Atomic!Entry(s) = Entry(s)
<1>1. Atomic!NoEntry = NoEntry /\ Atomic!Slots = Slots /\ Atomic!U32 = U32 /\ Atomic!U64 = U64
  BY DEF Atomic!NoEntry, NoEntry, Atomic!Slots, Slots, Atomic!U32, U32, Atomic!U64, U64
<1>2. Atomic!Last = Last
  BY <1>1 DEF Atomic!Last, Last
<1>3. \A s : Atomic!Following(s) = Following(s)
  BY DEF Atomic!Following, Following
<1>4. \A s : Atomic!Entry(s) = Entry(s)
  BY <1>1 DEF Atomic!Entry, Entry
<1>5. QED
  BY <1>1, <1>2, <1>3, <1>4

LEMMA SameSnapshot == Atomic!Snapshot <=> Snapshot
<1>1. Atomic!Charge = Charge
  BY SameRing DEF Atomic!Charge, Charge
<1>2. Atomic!NewSum = NewSum
  BY <1>1, SameRing DEF Atomic!NewSum, NewSum
<1>3. QED
  BY <1>1, <1>2, SameRing DEF Atomic!Snapshot, Snapshot

LEMMA SameSearch ==
  ASSUME NEW g
  PROVE  /\ Atomic!Finds(g) <=> Finds(g)
         /\ Atomic!Average(g) = Average(g)
         /\ Atomic!Age(Atomic!Entry(Atomic!Found(g))) = Age(Entry(Found(g)))
<1>1. \A e : Atomic!Age(e) = Age(e)
  BY SameRing DEF Atomic!Age, Age, Atomic!Monus, Monus
<1>2. \A k : Atomic!Candidate(g, k) = Candidate(g, k)
  BY DEF Atomic!Candidate, Candidate
<1>3. \A k : Atomic!Successor(g, k) = Successor(g, k)
  BY <1>2, SameRing DEF Atomic!Successor, Successor
<1>4. \A k : Atomic!StopsAt(g, k) <=> StopsAt(g, k)
  BY <1>1, <1>3, SameRing DEF Atomic!StopsAt, StopsAt
<1>5. Atomic!Stops(g) = Stops(g)
  BY <1>4 DEF Atomic!Stops, Stops
<1>6. \A S : Atomic!Min(S) = Min(S)
  BY DEF Atomic!Min, Min
<1>7. Atomic!Found(g) = Found(g)
  BY <1>2, <1>5, <1>6 DEF Atomic!Found, Found
<1>8. Atomic!Finds(g) <=> Finds(g)
  BY <1>1, <1>3, <1>5, <1>6, <1>7, SameRing DEF Atomic!Finds, Finds
<1>9. Atomic!Average(g) = Average(g)
  BY <1>1, <1>7, SameRing DEF Atomic!Average, Average
<1>10. QED
  BY <1>1, <1>7, <1>8, <1>9, SameRing

LEMMA SameRate ==
  ASSUME NEW u
  PROVE  /\ Atomic!CanRate(u, Atomic!Model) <=> CanRate(u, Model)
         /\ Atomic!Adjusted(u) = Adjusted(u)
<1>1. Atomic!Model = Model
  BY DEF Atomic!Model, Model
<1>2. \A a, b, c : Atomic!MulDivUp(a, b, c) = MulDivUp(a, b, c)
  BY DEF Atomic!MulDivUp, MulDivUp
<1>3. \A m : Atomic!StepAboveTarget(u, m) = StepAboveTarget(u, m)
  BY <1>2 DEF Atomic!StepAboveTarget, StepAboveTarget, Atomic!Monus, Monus
<1>4. \A m : Atomic!DebtRateAt(u, m) = DebtRateAt(u, m)
  BY <1>2, <1>3 DEF Atomic!DebtRateAt, DebtRateAt
<1>5. \A m : Atomic!CanRate(u, m) <=> CanRate(u, m)
  BY <1>3, <1>4, SameRing DEF Atomic!CanRate, CanRate
<1>6. QED
  BY <1>1, <1>4, <1>5 DEF Atomic!Adjusted, Adjusted

LEMMA SameSteps ==
  /\ Init <=> Atomic!Init
  /\ Tick => Atomic!Next
  /\ \A u \in Utilizations : Work(u) => Atomic!Next
  /\ \A g \in Guesses : AdjustRateAtTarget(g) => Atomic!Next
<1>1. Init <=> Atomic!Init
  BY SameRing DEF Init, Atomic!Init
<1>2. Tick => Atomic!Tick
  BY DEF Tick, Atomic!Tick
<1>3. \A u \in Utilizations : Work(u) => Atomic!Work(u)
  BY SameSnapshot DEF Work, Atomic!Work
<1>4. \A g \in Guesses : AdjustRateAtTarget(g) => Atomic!AdjustRateAtTarget(g)
  BY SameSearch, SameRate, SameRing DEF AdjustRateAtTarget, Atomic!AdjustRateAtTarget
<1>5. QED
  BY <1>1, <1>2, <1>3, <1>4 DEF Atomic!Next

\* The walk along the ring implements the adjustment in one step: however it
\* goes, it changes nothing until it ends, and then it does what
\* TwUtilization says of the guess it began with.
THEOREM SearchImplementsAdjustment == SpecSearch => SearchIsAtomic
<1>1. InitSearch => Atomic!Init
  BY SameSteps DEF InitSearch
<1>2. SearchOK /\ [NextSearch]_searchVars => [Atomic!Next]_(Atomic!vars)
  <2> SUFFICES ASSUME SearchOK, [NextSearch]_searchVars
               PROVE  Atomic!Next \/ UNCHANGED Atomic!vars
    OBVIOUS
  <2>1. UNCHANGED vars => UNCHANGED Atomic!vars
    BY DEF vars, Atomic!vars
  <2>2. CASE UNCHANGED searchVars
    BY <2>1, <2>2 DEF searchVars
  <2>3. CASE Others
    BY <2>3, SameSteps DEF Others
  <2>4. CASE \E g \in Guesses : BeginSearch(g)
    BY <2>1, <2>4 DEF BeginSearch
  <2>5. CASE StepOn \/ Refuse
    BY <2>1, <2>5 DEF StepOn, Refuse
  <2>6. CASE Adjust
    BY <2>6, SearchAdjusts, SameSteps
  <2>7. QED
    BY <2>2, <2>3, <2>4, <2>5, <2>6 DEF NextSearch, Proceed
<1>3. QED
  BY <1>1, <1>2, SearchAlwaysOK, PTL DEF SpecSearch, SearchIsAtomic, Atomic!Spec
=============================================================================
