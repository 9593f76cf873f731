-------------------------- MODULE AssetListingProofs --------------------------
(***************************************************************************)
(* What is proved of AssetListing for any accounts, tokens, entries, rules *)
(* and bounds: its invariants, and that it implements AccountPositions.    *)
(***************************************************************************)
EXTENDS AssetListing, TLAPS, SequenceTheorems

-----------------------------------------------------------------------------
(* functions as sequences *)

\* A function on 1 .. n is a sequence of length n.
LEMMA FunctionAsSequence ==
  ASSUME NEW S, NEW n \in Nat, NEW f \in [1 .. n -> S]
  PROVE  f \in Seq(S) /\ Len(f) = n /\ DOMAIN f = 1 .. n
<1>1. f \in Seq(S)
  BY SeqDef
<1>2. Len(f) \in Nat /\ DOMAIN f = 1 .. Len(f)
  BY <1>1, LenProperties, Zenon
<1>3. 1 .. Len(f) = 1 .. n
  BY <1>2
<1>4. Len(f) = n
  BY <1>2, <1>3, Z3
<1>5. QED
  BY <1>1, <1>2, <1>4

-----------------------------------------------------------------------------
(* what the operators on vectors do *)

\* Either is a vector, or there is none yet.
Vectors == EntryVectors \cup {None}

\* An account's entries, read by index.
Same(v, w) == \A i \in Nat : At(w, i) = At(v, i)

LEMMA VectorBasics ==
  ASSUME NEW v \in EntryVectors
  PROVE  /\ v # None
         /\ Len(v) \in Nat
         /\ DOMAIN v = 1 .. Len(v)
         /\ \A k \in 1 .. Len(v) : v[k] \in Entries \cup {None}
         /\ \A i \in Nat : At(v, i) = IF i < Len(v) THEN v[i + 1] ELSE None
<1>1. v # None
  BY ListingAssumption DEF EntryVectors
<1>2. /\ Len(v) \in Nat /\ DOMAIN v = 1 .. Len(v)
      /\ v \in [1 .. Len(v) -> Entries \cup {None}]
  BY LenProperties, Zenon DEF EntryVectors
<1>3. QED
  BY <1>1, <1>2 DEF At

LEMMA AtType ==
  ASSUME NEW v \in Vectors, NEW i \in Nat
  PROVE  At(v, i) \in Entries \cup {None}
<1>1. CASE v = None
  BY <1>1 DEF At
<1>2. CASE v \in EntryVectors
  <2>1. i < Len(v) => i + 1 \in 1 .. Len(v)
    BY <1>2, VectorBasics
  <2>2. QED
    BY <1>2, <2>1, VectorBasics
<1>3. QED
  BY <1>1, <1>2 DEF Vectors

\* The vector is long enough and reads as before.
LEMMA ResizedReads ==
  ASSUME NEW v \in Vectors, Len(assets) \in Nat
  PROVE  /\ Resized(v) \in EntryVectors
         /\ Len(Resized(v)) >= Len(assets)
         /\ Same(v, Resized(v))
<1>1. CASE v # None /\ Len(v) >= Len(assets)
  BY <1>1 DEF Resized, Vectors, Same
<1>2. CASE ~(v # None /\ Len(v) >= Len(assets))
  <2> DEFINE w == [k \in 1 .. Len(assets) |-> At(v, k - 1)]
  <2>1. Resized(v) = w
    BY <1>2, Zenon DEF Resized
  <2>2. \A k \in 1 .. Len(assets) : k - 1 \in Nat
    OBVIOUS
  <2>3. w \in [1 .. Len(assets) -> Entries \cup {None}]
    BY <2>2, AtType
  <2>4. w \in EntryVectors /\ Len(w) = Len(assets)
    BY <2>3, FunctionAsSequence DEF EntryVectors
  <2>5. ASSUME NEW i \in Nat PROVE At(w, i) = At(v, i)
    <3>1. CASE i < Len(assets)
      <4>1. i + 1 \in 1 .. Len(assets) /\ (i + 1) - 1 = i
        BY <3>1
      <4>2. At(w, i) = w[i + 1]
        BY <2>4, <3>1, VectorBasics
      <4>3. QED
        BY <4>1, <4>2
    <3>2. CASE ~(i < Len(assets))
      <4>1. At(w, i) = None
        BY <2>4, <3>2, VectorBasics
      <4>2. At(v, i) = None
        <5>1. CASE v = None
          BY <5>1 DEF At
        <5>2. CASE v \in EntryVectors
          BY <5>2, <1>2, <3>2, VectorBasics
        <5>3. QED
          BY <5>1, <5>2 DEF Vectors
      <4>3. QED
        BY <4>1, <4>2
    <3>3. QED
      BY <3>1, <3>2
  <2>6. QED
    BY <2>1, <2>4, <2>5 DEF Same
<1>3. QED
  BY <1>1, <1>2

\* Entries written in place are read, the others as before.
LEMMA WrittenReads ==
  ASSUME NEW v \in EntryVectors, NEW es,
         \A i \in DOMAIN es : i \in Nat /\ i < Len(v) /\ es[i] \in Entries
  PROVE  /\ Written(v, es) \in EntryVectors
         /\ \A i \in Nat : At(Written(v, es), i) = IF i \in DOMAIN es THEN es[i] ELSE At(v, i)
<1> DEFINE w == Written(v, es)
<1>1. w = [k \in 1 .. Len(v) |-> IF k - 1 \in DOMAIN es THEN es[k - 1] ELSE v[k]]
  BY VectorBasics DEF Written
<1>2. w \in [1 .. Len(v) -> Entries \cup {None}]
  BY <1>1, VectorBasics
<1>3. w \in EntryVectors /\ Len(w) = Len(v)
  BY <1>2, FunctionAsSequence, VectorBasics DEF EntryVectors
<1>4. ASSUME NEW i \in Nat PROVE At(w, i) = IF i \in DOMAIN es THEN es[i] ELSE At(v, i)
  <2>1. CASE i < Len(v)
    <3>1. i + 1 \in 1 .. Len(v) /\ (i + 1) - 1 = i
      BY <2>1, VectorBasics
    <3>2. At(w, i) = w[i + 1] /\ At(v, i) = v[i + 1]
      BY <1>3, <2>1, VectorBasics
    <3>3. w[i + 1] = IF i \in DOMAIN es THEN es[i] ELSE v[i + 1]
      BY <1>1, <3>1
    <3>4. QED
      BY <3>2, <3>3
  <2>2. CASE ~(i < Len(v))
    <3>1. At(w, i) = None /\ At(v, i) = None
      BY <1>3, <2>2, VectorBasics
    <3>2. i \notin DOMAIN es
      BY <2>2
    <3>3. QED
      BY <3>1, <3>2
  <2>3. QED
    BY <2>1, <2>2
<1>5. QED
  BY <1>3, <1>4

\* An insertion before nothing but empty entries writes one entry.
LEMMA InsertedReads ==
  ASSUME NEW v \in EntryVectors, NEW i \in Nat, i < Len(v), NEW e \in Entries
  PROVE  /\ InsertedAt(v, i, e) \in EntryVectors
         /\ Len(InsertedAt(v, i, e)) = Len(v) + 1
         /\ Harmless(v, i) =>
              \A j \in Nat : At(InsertedAt(v, i, e), j) = IF j = i THEN e ELSE At(v, j)
<1> DEFINE w == InsertedAt(v, i, e)
<1>1. Len(v) \in Nat
  BY VectorBasics
<1>2. ASSUME NEW k \in 1 .. Len(v) + 1
      PROVE  (IF k <= i THEN v[k] ELSE IF k = i + 1 THEN e ELSE v[k - 1]) \in Entries \cup {None}
  <2>1. CASE k <= i
    BY <1>1, <2>1, VectorBasics
  <2>2. CASE k = i + 1
    BY <2>2
  <2>3. CASE k > i + 1
    <3>1. k - 1 \in 1 .. Len(v)
      BY <1>1, <2>3
    <3>2. QED
      BY <3>1, <2>3, VectorBasics
  <2>4. QED
    BY <1>1, <2>1, <2>2, <2>3
<1>3. w \in [1 .. Len(v) + 1 -> Entries \cup {None}]
  BY <1>2 DEF InsertedAt
<1>4. w \in EntryVectors /\ Len(w) = Len(v) + 1
  BY <1>1, <1>3, FunctionAsSequence DEF EntryVectors
<1>5. ASSUME Harmless(v, i), NEW j \in Nat
      PROVE  At(w, j) = IF j = i THEN e ELSE At(v, j)
  <2>1. CASE j < Len(v) + 1
    <3>1. j + 1 \in 1 .. Len(v) + 1 /\ (j + 1) - 1 = j
      BY <1>1, <2>1
    <3>2. At(w, j) = w[j + 1]
      BY <1>4, <2>1, VectorBasics
    <3>3. w[j + 1] = IF j + 1 <= i THEN v[j + 1] ELSE IF j + 1 = i + 1 THEN e ELSE v[j]
      BY <3>1 DEF InsertedAt
    <3>4. CASE j < i
      BY <1>1, <3>2, <3>3, <3>4, VectorBasics
    <3>5. CASE j = i
      BY <3>2, <3>3, <3>5
    <3>6. CASE j > i
      <4>1. j \in 1 .. Len(v)
        BY <1>1, <2>1, <3>6
      <4>2. v[j] = None
        BY <1>5, <4>1, <3>6 DEF Harmless
      <4>3. At(v, j) = None
        <5>1. CASE j < Len(v)
          <6>1. j + 1 \in 1 .. Len(v) /\ j + 1 > i
            BY <1>1, <5>1, <3>6
          <6>2. QED
            BY <1>5, <6>1, <5>1, VectorBasics DEF Harmless
        <5>2. CASE ~(j < Len(v))
          BY <5>2, VectorBasics
        <5>3. QED
          BY <5>1, <5>2
      <4>4. QED
        BY <3>2, <3>3, <3>6, <4>2, <4>3
    <3>7. QED
      BY <3>4, <3>5, <3>6
  <2>2. CASE ~(j < Len(v) + 1)
    BY <1>1, <1>4, <2>2, VectorBasics
  <2>3. QED
    BY <2>1, <2>2
<1>6. QED
  BY <1>4, <1>5

-----------------------------------------------------------------------------
(* what a message of a user does *)

\* The message is to write positions in assets that are registered.
Addressed == \E W \in SUBSET (Accounts \X Known) : put' \in [W -> Entries]

\* It replaces the positions it is to write, and no others.
Replaces ==
  \A b \in Accounts, i \in Nat :
    At(vectors'[b], i) = IF <<b, i>> \in DOMAIN put' THEN put'[<<b, i>>] ELSE At(vectors[b], i)

\* What holds of every message of a user.
Behaves ==
  /\ vectors' \in [Accounts -> Vectors]
  /\ Addressed
  /\ mixed' \in BOOLEAN /\ (mixed => mixed')
  /\ ~mixed' => Replaces

LEMMA Typed ==
  ASSUME ListingTypeOK
  PROVE  /\ Len(assets) \in Nat
         /\ \A a \in Accounts : vectors[a] \in Vectors
         /\ vectors \in [Accounts -> Vectors]
         /\ Known \subseteq Nat
         /\ \A i \in Nat : i \in Known <=> i < Len(assets)
<1>1. Len(assets) \in Nat
  BY LenProperties DEF ListingTypeOK
<1>2. QED
  BY <1>1 DEF ListingTypeOK, Vectors, Known

LEMMA WorkBehaves ==
  ASSUME ListingTypeOK, NEW a \in Accounts, NEW I \in SUBSET Known, NEW es \in [I -> Entries],
         Work(a, es)
  PROVE  Behaves
<1> DEFINE v == vectors[a]
           w == Written(Resized(v), es)
<1>1. /\ v \in Vectors /\ Len(assets) \in Nat /\ I \in SUBSET Nat
      /\ vectors \in [Accounts -> Vectors] /\ \A i \in I : i < Len(assets)
  BY Typed
<1>2. /\ Resized(v) \in EntryVectors /\ Len(Resized(v)) >= Len(assets) /\ Len(Resized(v)) \in Nat
      /\ Same(v, Resized(v))
  BY <1>1, ResizedReads, VectorBasics
<1>3. \A i \in I : i < Len(Resized(v))
  BY <1>1, <1>2
<1>4. /\ w \in EntryVectors
      /\ \A i \in Nat : At(w, i) = IF i \in I THEN es[i] ELSE At(Resized(v), i)
  <2>1. I \in SUBSET Nat /\ Resized(v) \in EntryVectors
    BY <1>1, <1>2
  <2>2. \A x \in EntryVectors : (\A i \in I : i < Len(x)) =>
          /\ Written(x, es) \in EntryVectors
          /\ \A i \in Nat : At(Written(x, es), i) = IF i \in I THEN es[i] ELSE At(x, i)
    BY <2>1, WrittenReads
  <2>3. QED
    BY <2>1, <2>2, <1>3
<1>5. vectors' = [vectors EXCEPT ![a] = w]
  BY DEF Work
<1>6. put' = [x \in {a} \X I |-> es[x[2]]]
  BY DEF Work
<1>7. Addressed
  <2>1. {a} \X I \in SUBSET (Accounts \X Known)
    OBVIOUS
  <2>2. put' \in [{a} \X I -> Entries]
    BY <1>6
  <2>3. QED
    BY <2>1, <2>2 DEF Addressed
<1>8. Replaces
  <2> SUFFICES ASSUME NEW b \in Accounts, NEW i \in Nat
               PROVE  At(vectors'[b], i) = IF <<b, i>> \in DOMAIN put' THEN put'[<<b, i>>]
                                           ELSE At(vectors[b], i)
    BY DEF Replaces
  <2>1. CASE b = a
    <3>1. vectors'[b] = w
      BY <1>1, <1>5, <2>1
    <3>2. <<b, i>> \in DOMAIN put' <=> i \in I
      BY <1>6, <2>1
    <3>3. i \in I => put'[<<b, i>>] = es[i]
      BY <1>6, <2>1
    <3>4. At(Resized(v), i) = At(vectors[b], i)
      BY <1>2, <2>1 DEF Same
    <3>5. QED
      BY <1>4, <3>1, <3>2, <3>3, <3>4
  <2>2. CASE b # a
    <3>1. vectors'[b] = vectors[b]
      BY <1>1, <1>5, <2>2
    <3>2. <<b, i>> \notin DOMAIN put'
      BY <1>6, <2>2
    <3>3. QED
      BY <3>1, <3>2
  <2>3. QED
    BY <2>1, <2>2
<1>9. vectors' \in [Accounts -> Vectors]
  BY <1>1, <1>4, <1>5 DEF Vectors
<1>10. mixed' = mixed /\ mixed \in BOOLEAN
  BY DEF Work, ListingTypeOK
<1>11. QED
  BY <1>7, <1>8, <1>9, <1>10 DEF Behaves

\* A transfer that reads as a write to the sender and one to the recipient.
LEMMA TransferBehaves ==
  ASSUME ListingTypeOK, NEW f \in Accounts, NEW t \in Accounts, NEW i \in Known,
         NEW out \in Entries, NEW in \in Entries,
         put' = [x \in {<<f, i>>, <<t, i>>} |-> IF x = <<f, i>> THEN out ELSE in],
         vectors' \in [Accounts -> Vectors],
         mixed' \in BOOLEAN, mixed => mixed',
         ~mixed' =>
           /\ f # t
           /\ \A j \in Nat : At(vectors'[f], j) = IF j = i THEN out ELSE At(vectors[f], j)
           /\ \A j \in Nat : At(vectors'[t], j) = IF j = i THEN in ELSE At(vectors[t], j)
           /\ \A b \in Accounts \ {f, t} : vectors'[b] = vectors[b]
  PROVE  Behaves
<1>1. Addressed
  <2>1. {<<f, i>>, <<t, i>>} \in SUBSET (Accounts \X Known)
    OBVIOUS
  <2>2. put' \in [{<<f, i>>, <<t, i>>} -> Entries]
    OBVIOUS
  <2>3. QED
    BY <2>1, <2>2, Zenon DEF Addressed
<1>2. ASSUME ~mixed' PROVE Replaces
  <2> SUFFICES ASSUME NEW b \in Accounts, NEW j \in Nat
               PROVE  At(vectors'[b], j) = IF <<b, j>> \in DOMAIN put' THEN put'[<<b, j>>]
                                           ELSE At(vectors[b], j)
    BY DEF Replaces
  <2>1. f # t
    BY <1>2
  <2>2. DOMAIN put' = {<<f, i>>, <<t, i>>} /\ put'[<<f, i>>] = out /\ put'[<<t, i>>] = in
    BY <2>1
  <2>3. CASE b = t
    <3>1. <<b, j>> \in DOMAIN put' <=> j = i
      BY <2>1, <2>2, <2>3
    <3>2. QED
      BY <1>2, <2>2, <2>3, <3>1
  <2>4. CASE b = f
    <3>1. <<b, j>> \in DOMAIN put' <=> j = i
      BY <2>1, <2>2, <2>4
    <3>2. QED
      BY <1>2, <2>2, <2>4, <3>1
  <2>5. CASE b # t /\ b # f
    <3>1. vectors'[b] = vectors[b]
      BY <1>2, <2>5
    <3>2. <<b, j>> \notin DOMAIN put'
      BY <2>2, <2>5
    <3>3. QED
      BY <3>1, <3>2
  <2>6. QED
    BY <2>3, <2>4, <2>5
<1>3. QED
  BY <1>1, <1>2 DEF Behaves

LEMMA TransferDepositBehaves ==
  ASSUME ListingTypeOK, NEW f \in Accounts, NEW t \in Accounts, NEW i \in Known,
         NEW out \in Entries, NEW in \in Entries, TransferDeposit(f, t, i, out, in)
  PROVE  Behaves
<1> DEFINE v == Resized(vectors[t])
           w == InsertedAt(v, i, in)
           es == [j \in {i} |-> out]
           u == Written(vectors[f], es)
<1>1. /\ vectors[t] \in Vectors /\ vectors[f] \in Vectors /\ Len(assets) \in Nat /\ i \in Nat
      /\ vectors \in [Accounts -> Vectors] /\ i < Len(assets)
  BY Typed
<1>2. v \in EntryVectors /\ Len(v) >= Len(assets) /\ Len(v) \in Nat /\ Same(vectors[t], v)
  BY <1>1, ResizedReads, VectorBasics
<1>3. i < Len(v)
  BY <1>1, <1>2
<1>4. /\ w \in EntryVectors
      /\ Harmless(v, i) => \A j \in Nat : At(w, j) = IF j = i THEN in ELSE At(v, j)
  BY <1>1, <1>2, <1>3, InsertedReads
<1>5. vectors[f] \in EntryVectors /\ i < Len(vectors[f])
  BY <1>1 DEF TransferDeposit, At, Vectors
<1>6. /\ u \in EntryVectors
      /\ \A j \in Nat : At(u, j) = IF j = i THEN out ELSE At(vectors[f], j)
  <2>1. DOMAIN es = {i} /\ es[i] = out
    OBVIOUS
  <2> HIDE DEF es
  <2>2. QED
    BY <1>1, <1>5, <2>1, WrittenReads
<1>7. /\ vectors' = [vectors EXCEPT ![t] = w, ![f] = u]
      /\ put' = [x \in {<<f, i>>, <<t, i>>} |-> IF x = <<f, i>> THEN out ELSE in]
      /\ mixed' = (mixed \/ f = t \/ ~Harmless(v, i))
  BY DEF TransferDeposit
<1>8. vectors' \in [Accounts -> Vectors]
  BY <1>1, <1>4, <1>6, <1>7 DEF Vectors
<1>9. mixed' \in BOOLEAN /\ (mixed => mixed')
  BY <1>7
<1>10. ASSUME ~mixed'
       PROVE  /\ f # t
              /\ \A j \in Nat : At(vectors'[f], j) = IF j = i THEN out ELSE At(vectors[f], j)
              /\ \A j \in Nat : At(vectors'[t], j) = IF j = i THEN in ELSE At(vectors[t], j)
              /\ \A b \in Accounts \ {f, t} : vectors'[b] = vectors[b]
  <2>1. f # t /\ Harmless(v, i)
    BY <1>7, <1>10
  <2>2. /\ vectors'[f] = u /\ vectors'[t] = w
        /\ \A b \in Accounts \ {f, t} : vectors'[b] = vectors[b]
    BY <1>1, <1>7, <2>1
  <2>3. \A j \in Nat : At(v, j) = At(vectors[t], j)
    BY <1>2 DEF Same
  <2>4. QED
    BY <1>4, <1>6, <2>1, <2>2, <2>3
<1>11. QED
  BY <1>7, <1>8, <1>9, <1>10, TransferBehaves

LEMMA TransferDebtBehaves ==
  ASSUME ListingTypeOK, NEW f \in Accounts, NEW t \in Accounts, NEW i \in Known,
         NEW out \in Entries, NEW in \in Entries, TransferDebt(f, t, i, out, in)
  PROVE  Behaves
<1> DEFINE v == Resized(vectors[f])
           w == InsertedAt(v, i, out)
           es == [j \in {i} |-> in]
           u == Written(vectors[t], es)
<1>1. /\ vectors[t] \in Vectors /\ vectors[f] \in Vectors /\ Len(assets) \in Nat /\ i \in Nat
      /\ vectors \in [Accounts -> Vectors] /\ i < Len(assets)
  BY Typed
<1>2. v \in EntryVectors /\ Len(v) >= Len(assets) /\ Len(v) \in Nat /\ Same(vectors[f], v)
  BY <1>1, ResizedReads, VectorBasics
<1>3. i < Len(v)
  BY <1>1, <1>2
<1>4. /\ w \in EntryVectors
      /\ Harmless(v, i) => \A j \in Nat : At(w, j) = IF j = i THEN out ELSE At(v, j)
  BY <1>1, <1>2, <1>3, InsertedReads
<1>5. vectors[t] \in EntryVectors /\ i < Len(vectors[t])
  BY <1>1 DEF TransferDebt, Vectors
<1>6. /\ u \in EntryVectors
      /\ \A j \in Nat : At(u, j) = IF j = i THEN in ELSE At(vectors[t], j)
  <2>1. DOMAIN es = {i} /\ es[i] = in
    OBVIOUS
  <2> HIDE DEF es
  <2>2. QED
    BY <1>1, <1>5, <2>1, WrittenReads
<1>7. /\ vectors' = [vectors EXCEPT ![f] = w, ![t] = u]
      /\ put' = [x \in {<<f, i>>, <<t, i>>} |-> IF x = <<f, i>> THEN out ELSE in]
      /\ mixed' = (mixed \/ f = t \/ ~Harmless(v, i))
  BY DEF TransferDebt
<1>8. vectors' \in [Accounts -> Vectors]
  BY <1>1, <1>4, <1>6, <1>7 DEF Vectors
<1>9. mixed' \in BOOLEAN /\ (mixed => mixed')
  BY <1>7
<1>10. ASSUME ~mixed'
       PROVE  /\ f # t
              /\ \A j \in Nat : At(vectors'[f], j) = IF j = i THEN out ELSE At(vectors[f], j)
              /\ \A j \in Nat : At(vectors'[t], j) = IF j = i THEN in ELSE At(vectors[t], j)
              /\ \A b \in Accounts \ {f, t} : vectors'[b] = vectors[b]
  <2>1. f # t /\ Harmless(v, i)
    BY <1>7, <1>10
  <2>2. /\ vectors'[t] = u /\ vectors'[f] = w
        /\ \A b \in Accounts \ {f, t} : vectors'[b] = vectors[b]
    BY <1>1, <1>7, <2>1
  <2>3. \A j \in Nat : At(v, j) = At(vectors[f], j)
    BY <1>2 DEF Same
  <2>4. QED
    BY <1>4, <1>6, <2>1, <2>2, <2>3
<1>11. QED
  BY <1>7, <1>8, <1>9, <1>10, TransferBehaves

LEMMA LiquidateBehaves ==
  ASSUME ListingTypeOK, NEW l \in Accounts, NEW a \in Accounts, NEW rp \in Known, NEW tk \in Known,
         NEW paid \in Entries, NEW taken \in Entries, NEW given \in Entries,
         Liquidate(l, a, rp, tk, paid, taken, given)
  PROVE  Behaves
<1> DEFINE own == Resized(vectors[a])
           theirs == Resized(vectors[l])
           es == [i \in {rp, tk} |-> IF i = tk THEN taken ELSE paid]
           u == Written(own, es)
           gs == [i \in {tk} |-> given]
           w == Written(theirs, gs)
<1>1. /\ vectors[a] \in Vectors /\ vectors[l] \in Vectors /\ Len(assets) \in Nat
      /\ rp \in Nat /\ tk \in Nat /\ rp < Len(assets) /\ tk < Len(assets)
      /\ vectors \in [Accounts -> Vectors]
  BY Typed
<1>2. /\ own \in EntryVectors /\ Len(own) >= Len(assets) /\ Len(own) \in Nat
      /\ Same(vectors[a], own)
  BY <1>1, ResizedReads, VectorBasics
<1>3. /\ theirs \in EntryVectors /\ Len(theirs) >= Len(assets) /\ Len(theirs) \in Nat
      /\ Same(vectors[l], theirs)
  BY <1>1, ResizedReads, VectorBasics
<1>4. /\ u \in EntryVectors
      /\ \A j \in Nat : At(u, j) = IF j \in {rp, tk} THEN es[j] ELSE At(own, j)
  <2>1. es \in [{rp, tk} -> Entries] /\ {rp, tk} \in SUBSET Nat
    BY <1>1
  <2>2. \A j \in {rp, tk} : j < Len(own)
    BY <1>1, <1>2
  <2> HIDE DEF es, own
  <2>3. QED
    BY <1>2, <2>1, <2>2, WrittenReads
<1>5. /\ w \in EntryVectors
      /\ \A j \in Nat : At(w, j) = IF j = tk THEN given ELSE At(theirs, j)
  <2>1. tk < Len(theirs) /\ DOMAIN gs = {tk} /\ gs[tk] = given
    BY <1>1, <1>3
  <2> HIDE DEF gs, theirs
  <2>2. QED
    BY <1>1, <1>3, <2>1, WrittenReads
<1>6. /\ vectors' = [vectors EXCEPT ![a] = u, ![l] = w]
      /\ put' = [x \in {<<a, rp>>, <<a, tk>>, <<l, tk>>} |->
                   IF x = <<l, tk>> THEN given ELSE IF x = <<a, tk>> THEN taken ELSE paid]
      /\ mixed' = (mixed \/ l = a)
  BY DEF Liquidate
<1>7. vectors' \in [Accounts -> Vectors]
  BY <1>1, <1>4, <1>5, <1>6 DEF Vectors
<1>8. Addressed
  <2>1. {<<a, rp>>, <<a, tk>>, <<l, tk>>} \in SUBSET (Accounts \X Known)
    OBVIOUS
  <2>2. put' \in [{<<a, rp>>, <<a, tk>>, <<l, tk>>} -> Entries]
    BY <1>6
  <2>3. QED
    BY <2>1, <2>2, Zenon DEF Addressed
<1>9. mixed' \in BOOLEAN /\ (mixed => mixed')
  BY <1>6
<1>10. ASSUME ~mixed' PROVE Replaces
  <2> SUFFICES ASSUME NEW b \in Accounts, NEW j \in Nat
               PROVE  At(vectors'[b], j) = IF <<b, j>> \in DOMAIN put' THEN put'[<<b, j>>]
                                           ELSE At(vectors[b], j)
    BY DEF Replaces
  <2>1. l # a
    BY <1>6, <1>10
  <2>2. DOMAIN put' = {<<a, rp>>, <<a, tk>>, <<l, tk>>}
    BY <1>6
  <2>3. CASE b = a
    <3>1. vectors'[b] = u /\ At(own, j) = At(vectors[b], j)
      BY <1>1, <1>2, <1>6, <2>1, <2>3 DEF Same
    <3>2. <<b, j>> \in DOMAIN put' <=> j \in {rp, tk}
      BY <2>1, <2>2, <2>3
    <3>3. j \in {rp, tk} => put'[<<b, j>>] = es[j]
      BY <1>6, <2>1, <2>3
    <3>4. QED
      BY <1>4, <3>1, <3>2, <3>3
  <2>4. CASE b = l
    <3>1. vectors'[b] = w /\ At(theirs, j) = At(vectors[b], j)
      BY <1>1, <1>3, <1>6, <2>1, <2>4 DEF Same
    <3>2. <<b, j>> \in DOMAIN put' <=> j = tk
      BY <2>1, <2>2, <2>4
    <3>3. j = tk => put'[<<b, j>>] = given
      BY <1>6, <2>4
    <3>4. QED
      BY <1>5, <3>1, <3>2, <3>3
  <2>5. CASE b # a /\ b # l
    <3>1. vectors'[b] = vectors[b] /\ <<b, j>> \notin DOMAIN put'
      BY <1>1, <1>6, <2>2, <2>5
    <3>2. QED
      BY <3>1
  <2>6. QED
    BY <2>3, <2>4, <2>5
<1>11. QED
  BY <1>7, <1>8, <1>9, <1>10 DEF Behaves

\* Every message of a user writes what it is to write.
LEMMA UsersBehave ==
  ASSUME ListingTypeOK, UserNext
  PROVE  Behaves /\ UNCHANGED <<assets, idOf, rules>>
<1>1. CASE \E a \in Accounts, I \in SUBSET Known : \E es \in [I -> Entries] : Work(a, es)
  BY <1>1, WorkBehaves DEF Work
<1>2. CASE \E l, a \in Accounts, rp, tk \in Known, paid, taken, given \in Entries :
             Liquidate(l, a, rp, tk, paid, taken, given)
  <2>1. PICK l \in Accounts, a \in Accounts, rp \in Known, tk \in Known,
             paid \in Entries, taken \in Entries, given \in Entries :
               Liquidate(l, a, rp, tk, paid, taken, given)
    BY <1>2
  <2>2. Behaves
    BY <2>1, LiquidateBehaves
  <2>3. QED
    BY <2>1, <2>2 DEF Liquidate
<1>3. CASE \E f, t \in Accounts, i \in Known, out, in \in Entries :
             TransferDeposit(f, t, i, out, in)
  <2>1. PICK f \in Accounts, t \in Accounts, i \in Known, out \in Entries, in \in Entries :
               TransferDeposit(f, t, i, out, in)
    BY <1>3
  <2>2. Behaves
    BY <2>1, TransferDepositBehaves
  <2>3. QED
    BY <2>1, <2>2 DEF TransferDeposit
<1>4. CASE \E f, t \in Accounts, i \in Known, out, in \in Entries :
             TransferDebt(f, t, i, out, in)
  <2>1. PICK f \in Accounts, t \in Accounts, i \in Known, out \in Entries, in \in Entries :
               TransferDebt(f, t, i, out, in)
    BY <1>4
  <2>2. Behaves
    BY <2>1, TransferDebtBehaves
  <2>3. QED
    BY <2>1, <2>2 DEF TransferDebt
<1>5. QED
  BY <1>1, <1>2, <1>3, <1>4 DEF UserNext

-----------------------------------------------------------------------------
(* what a message of an admin does *)

OneRule == Seq(AssetRules \cup {None})

\* Just the rule of one asset changes, and there is one for it then.
LEMMA RuleReads ==
  ASSUME NEW rule \in OneRule, NEW i \in Nat, NEW r \in AssetRules
  PROVE  LET n == RuleWith(rule, i, r)
         IN  /\ n \in OneRule
             /\ Len(rule) \in Nat /\ Len(n) \in Nat /\ Len(n) >= Len(rule) /\ i < Len(n)
             /\ DOMAIN n = 1 .. Len(n)
             /\ \A k \in 1 .. Len(n) : n[k] = IF k = i + 1 THEN r
                                            ELSE IF k <= Len(rule) THEN rule[k] ELSE None
<1> DEFINE m == IF Len(rule) > i THEN Len(rule) ELSE i + 1
           n == RuleWith(rule, i, r)
<1>1. /\ Len(rule) \in Nat /\ m \in Nat /\ m >= Len(rule) /\ i < m
      /\ \A k \in 1 .. Len(rule) : rule[k] \in AssetRules \cup {None}
  BY LenProperties, ElementOfSeq DEF OneRule
<1>2. n = [k \in 1 .. m |-> IF k = i + 1 THEN r ELSE IF k <= Len(rule) THEN rule[k] ELSE None]
  BY DEF RuleWith
<1> HIDE DEF m, n
<1>3. n \in [1 .. m -> AssetRules \cup {None}]
  BY <1>1, <1>2
<1>4. n \in OneRule /\ Len(n) = m /\ DOMAIN n = 1 .. m
  BY <1>1, <1>3, FunctionAsSequence DEF OneRule
<1>5. \A k \in 1 .. m : n[k] = IF k = i + 1 THEN r ELSE IF k <= Len(rule) THEN rule[k] ELSE None
  BY <1>2
<1>6. QED
  BY <1>1, <1>4, <1>5 DEF n

LEMMA RulesTyped ==
  ASSUME ListingTypeOK
  PROVE  /\ rules \in Seq(OneRule) /\ Len(rules) \in Nat /\ DOMAIN rules = 1 .. Len(rules)
         /\ \A k \in DOMAIN rules : rules[k] \in OneRule
<1>1. rules \in Seq(OneRule)
  BY DEF ListingTypeOK, OneRule
<1>2. QED
  BY <1>1, LenProperties, ElementOfSeq

\* The rule of asset i in market rule k is given.
RuleGiven(k, i, r) == rules' = [rules EXCEPT ![k] = RuleWith(rules[k], i, r)]

LEMMA RuleGivenTyped ==
  ASSUME ListingTypeOK, NEW k \in DOMAIN rules, NEW i \in Nat, NEW r \in AssetRules,
         RuleGiven(k, i, r)
  PROVE  /\ rules' \in Seq(OneRule)
         /\ DOMAIN rules' = DOMAIN rules
         /\ rules'[k] = RuleWith(rules[k], i, r)
         /\ \A j \in DOMAIN rules : j # k => rules'[j] = rules[j]
<1>1. /\ rules \in Seq(OneRule) /\ DOMAIN rules = 1 .. Len(rules) /\ rules[k] \in OneRule
  BY RulesTyped
<1>2. RuleWith(rules[k], i, r) \in OneRule
  BY <1>1, RuleReads
<1>3. rules' \in Seq(OneRule)
  BY <1>1, <1>2, ExceptSeq DEF RuleGiven
<1>4. QED
  BY <1>1, <1>3 DEF RuleGiven

\* What a message of an admin changes: an asset more, a rule more, or the rule
\* of a registered asset.
LEMMA AdminSteps ==
  ASSUME ListingTypeOK, ListingNext
  PROVE  \/ \E x \in Underlyings, r \in AssetRules :
              /\ idOf[x] = None /\ rules # <<>>
              /\ idOf' = [idOf EXCEPT ![x] = Len(assets)] /\ assets' = Append(assets, x)
              /\ 1 \in DOMAIN rules /\ RuleGiven(1, Len(assets), r)
              /\ UNCHANGED <<vectors, put, mixed>>
         \/ \E rule \in OneRule :
              /\ \A k \in DOMAIN rule : rule[k] # None => k <= Len(assets)
              /\ rules' = Append(rules, rule)
              /\ UNCHANGED <<assets, idOf, vectors, put, mixed>>
         \/ \E k \in DOMAIN rules, i \in Known, r \in AssetRules :
              /\ RuleGiven(k, i, r)
              /\ UNCHANGED <<assets, idOf, vectors, put, mixed>>
<1>1. /\ Len(rules) \in Nat /\ DOMAIN rules = 1 .. Len(rules) /\ Len(<<>>) = 0
  BY RulesTyped, EmptySeq
<1>2. ASSUME NEW x \in Underlyings, NEW r \in AssetRules, RegisterAsset(x, r)
      PROVE  /\ idOf[x] = None /\ rules # <<>>
             /\ idOf' = [idOf EXCEPT ![x] = Len(assets)] /\ assets' = Append(assets, x)
             /\ 1 \in DOMAIN rules /\ RuleGiven(1, Len(assets), r)
             /\ UNCHANGED <<vectors, put, mixed>>
  BY <1>1, <1>2 DEF RegisterAsset, RuleGiven
<1>3. ASSUME NEW rule \in MarketRules, AddMarketRule(rule)
      PROVE  /\ rule \in OneRule
             /\ \A k \in DOMAIN rule : rule[k] # None => k <= Len(assets)
             /\ rules' = Append(rules, rule)
             /\ UNCHANGED <<assets, idOf, vectors, put, mixed>>
  BY <1>3, ListingAssumption DEF AddMarketRule, OneRule
<1>4. ASSUME NEW k \in 0 .. MaxRules - 1, NEW x \in Underlyings, NEW r \in AssetRules,
             ModifyAssetRule(k, x, r)
      PROVE  /\ k + 1 \in DOMAIN rules /\ idOf[x] \in Known
             /\ RuleGiven(k + 1, idOf[x], r)
             /\ UNCHANGED <<assets, idOf, vectors, put, mixed>>
  <2>1. k \in Nat /\ k < Len(rules) /\ idOf[x] # None
    BY <1>4, ListingAssumption DEF ModifyAssetRule
  <2>2. k + 1 \in DOMAIN rules
    BY <1>1, <2>1
  <2>3. idOf[x] \in Known
    BY <2>1 DEF ListingTypeOK
  <2>4. QED
    BY <1>4, <2>2, <2>3 DEF ModifyAssetRule, RuleGiven
<1>5. QED
  BY <1>2, <1>3, <1>4 DEF ListingNext

-----------------------------------------------------------------------------
(* types *)

LEMMA TypeInit == InitListing => ListingTypeOK
<1> SUFFICES ASSUME InitListing PROVE ListingTypeOK
  OBVIOUS
<1>1. assets = <<>> /\ rules = <<>> /\ Len(assets) = 0 /\ DOMAIN assets = {}
  BY EmptySeq DEF InitListing
<1>2. assets \in Seq(Underlyings) /\ rules \in Seq(Seq(AssetRules \cup {None}))
  BY <1>1, EmptySeq
<1>3. put \in [{} -> Entries] /\ {} \in SUBSET (Accounts \X Known)
  BY DEF InitListing
<1>4. QED
  BY <1>1, <1>2, <1>3 DEF InitListing, ListingTypeOK

LEMMA TypeByUsers ==
  ASSUME ListingTypeOK, UserNext
  PROVE  ListingTypeOK'
<1>1. Behaves /\ UNCHANGED <<assets, idOf, rules>>
  BY UsersBehave
<1>2. Known' = Known
  BY <1>1 DEF Known
<1>3. (\E W \in SUBSET (Accounts \X Known) : put \in [W -> Entries])'
  BY <1>1, <1>2 DEF Behaves, Addressed
<1>4. QED
  BY <1>1, <1>2, <1>3 DEF ListingTypeOK, Behaves, Vectors

LEMMA TypeByAdmins ==
  ASSUME ListingTypeOK, ListingNext
  PROVE  ListingTypeOK'
<1>1. ASSUME NEW x \in Underlyings, NEW r \in AssetRules,
             idOf[x] = None,
             idOf' = [idOf EXCEPT ![x] = Len(assets)], assets' = Append(assets, x),
             1 \in DOMAIN rules, RuleGiven(1, Len(assets), r),
             UNCHANGED <<vectors, put, mixed>>
      PROVE  ListingTypeOK'
  <2>1. Len(assets) \in Nat /\ DOMAIN assets = 1 .. Len(assets) /\ assets \in Seq(Underlyings)
    BY LenProperties DEF ListingTypeOK
  <2>2. /\ assets' \in Seq(Underlyings) /\ Len(assets') = Len(assets) + 1
        /\ DOMAIN assets' = 1 .. Len(assets) + 1
        /\ assets'[Len(assets) + 1] = x
        /\ \A k \in DOMAIN assets : assets'[k] = assets[k]
    BY <1>1, <2>1
  <2>3. Known \subseteq Known' /\ Len(assets) \in Known'
    BY <2>1, <2>2 DEF Known
  <2>4. idOf' \in [Underlyings -> Nat \cup {None}]
    BY <1>1, <2>1 DEF ListingTypeOK
  <2>5. ASSUME NEW y \in Underlyings, idOf'[y] # None
        PROVE  idOf'[y] \in Known' /\ assets'[idOf'[y] + 1] = y
    <3>1. CASE y = x
      <4>1. idOf'[y] = Len(assets)
        BY <1>1, <3>1 DEF ListingTypeOK
      <4>2. QED
        BY <2>2, <2>3, <3>1, <4>1
    <3>2. CASE y # x
      <4>1. idOf'[y] = idOf[y] /\ idOf[y] \in Known /\ assets[idOf[y] + 1] = y
        BY <1>1, <2>5, <3>2 DEF ListingTypeOK
      <4>2. idOf[y] + 1 \in DOMAIN assets
        BY <2>1, <4>1 DEF Known
      <4>3. QED
        BY <2>2, <2>3, <4>1, <4>2
    <3>3. QED
      BY <3>1, <3>2
  <2>6. ASSUME NEW k \in DOMAIN assets' PROVE idOf'[assets'[k]] = k - 1
    <3>1. CASE k = Len(assets) + 1
      BY <1>1, <2>1, <2>2, <3>1 DEF ListingTypeOK
    <3>2. CASE k \in DOMAIN assets
      <4>1. assets'[k] = assets[k] /\ idOf[assets[k]] = k - 1 /\ assets[k] \in Underlyings
        BY <2>1, <2>2, <3>2, ElementOfSeq DEF ListingTypeOK
      <4>2. assets[k] # x
        BY <1>1, <2>1, <3>2, <4>1, ListingAssumption
      <4>3. QED
        BY <1>1, <4>1, <4>2 DEF ListingTypeOK
    <3>3. QED
      BY <2>1, <2>2, <2>6, <3>1, <3>2
  <2>7. rules' \in Seq(Seq(AssetRules \cup {None}))
    BY <1>1, <2>1, RuleGivenTyped DEF OneRule
  <2>8. (\E W \in SUBSET (Accounts \X Known) : put \in [W -> Entries])'
    BY <1>1, <2>3 DEF ListingTypeOK
  <2>9. QED
    BY <1>1, <2>2, <2>4, <2>5, <2>6, <2>7, <2>8 DEF ListingTypeOK
<1>2. ASSUME UNCHANGED <<assets, idOf, vectors, put, mixed>>, rules' \in Seq(OneRule)
      PROVE  ListingTypeOK'
  BY <1>2 DEF ListingTypeOK, OneRule, Known
<1>3. ASSUME NEW rule \in OneRule, rules' = Append(rules, rule)
      PROVE  rules' \in Seq(OneRule)
  BY <1>3, RulesTyped
<1>4. ASSUME NEW k \in DOMAIN rules, NEW i \in Known, NEW r \in AssetRules, RuleGiven(k, i, r)
      PROVE  rules' \in Seq(OneRule)
  BY <1>4, Typed, RuleGivenTyped
<1>5. QED
  BY AdminSteps, <1>1, <1>2, <1>3, <1>4

\* Types: the ids and the assets are inverse to each other, whatever is
\* registered, and every vector holds entries.
THEOREM ListingTyped == SpecListing => []ListingTypeOK
<1>1. ListingTypeOK /\ [NextListing]_listingVars => ListingTypeOK'
  <2> SUFFICES ASSUME ListingTypeOK, [NextListing]_listingVars PROVE ListingTypeOK'
    OBVIOUS
  <2>1. CASE UNCHANGED listingVars
    BY <2>1 DEF listingVars, ListingTypeOK, Known
  <2>2. QED
    BY <2>1, TypeByUsers, TypeByAdmins DEF NextListing
<1>2. QED
  BY <1>1, TypeInit, PTL DEF SpecListing

-----------------------------------------------------------------------------
(* the market rules *)

\* A market rule has a rule for asset i.
Rules(rule, i) == i < Len(rule) /\ rule[i + 1] # None

\* A rule that is given is there; those that were there still are, and no others.
LEMMA RulesAfter ==
  ASSUME ListingTypeOK, NEW k \in DOMAIN rules, NEW i \in Nat, NEW r \in AssetRules,
         RuleGiven(k, i, r), NEW m \in DOMAIN rules, NEW j \in Nat
  PROVE  Rules(rules'[m], j) <=> Rules(rules[m], j) \/ (m = k /\ j = i)
<1>1. rules'[k] = RuleWith(rules[k], i, r) /\ (m # k => rules'[m] = rules[m])
  BY RuleGivenTyped
<1>2. rules[k] \in OneRule /\ Len(rules[k]) \in Nat
  BY RulesTyped, LenProperties DEF OneRule
<1> DEFINE n == RuleWith(rules[k], i, r)
<1>3. /\ Len(n) \in Nat /\ Len(n) >= Len(rules[k]) /\ i < Len(n)
      /\ \A h \in 1 .. Len(n) : n[h] = IF h = i + 1 THEN r
                                     ELSE IF h <= Len(rules[k]) THEN rules[k][h] ELSE None
  BY <1>2, RuleReads
<1>4. r # None
  BY ListingAssumption
<1> HIDE DEF n
<1>5. Rules(n, j) <=> Rules(rules[k], j) \/ j = i
  <2>1. CASE j < Len(n)
    <3>1. j + 1 \in 1 .. Len(n) /\ (j + 1 = i + 1 <=> j = i)
           /\ (j + 1 <= Len(rules[k]) <=> j < Len(rules[k]))
      BY <1>2, <1>3, <2>1
    <3>2. QED
      BY <1>3, <1>4, <2>1, <3>1 DEF Rules
  <2>2. CASE ~(j < Len(n))
    BY <1>2, <1>3, <2>2 DEF Rules
  <2>3. QED
    BY <2>1, <2>2
<1>6. QED
  BY <1>1, <1>5 DEF n

\* The properties of the market rules, said with Rules.
BaseRuled == (assets # <<>> => rules # <<>>) /\ \A i \in Known : Rules(rules[1], i)

NoRuleAhead == \A k \in DOMAIN rules, i \in Nat : Rules(rules[k], i) => i < Len(assets)

LEMMA RuleAheadSame ==
  ASSUME NEW rule \in OneRule, Len(assets) \in Nat
  PROVE  (\A i \in DOMAIN rule : rule[i] # None => i <= Len(assets))
           <=> (\A i \in Nat : Rules(rule, i) => i < Len(assets))
<1>1. Len(rule) \in Nat /\ DOMAIN rule = 1 .. Len(rule)
  BY LenProperties DEF OneRule
<1>2. ASSUME \A i \in DOMAIN rule : rule[i] # None => i <= Len(assets), NEW i \in Nat, Rules(rule, i)
      PROVE  i < Len(assets)
  <2>1. i + 1 \in DOMAIN rule /\ rule[i + 1] # None
    BY <1>1, <1>2 DEF Rules
  <2>2. QED
    BY <1>2, <2>1
<1>3. ASSUME \A i \in Nat : Rules(rule, i) => i < Len(assets), NEW i \in DOMAIN rule, rule[i] # None
      PROVE  i <= Len(assets)
  <2>1. i - 1 \in Nat /\ (i - 1) + 1 = i /\ i - 1 < Len(rule)
    BY <1>1
  <2>2. i - 1 < Len(assets)
    BY <1>3, <2>1 DEF Rules
  <2>3. QED
    BY <1>1, <2>2
<1>4. QED
  BY <1>2, <1>3

LEMMA RulesByAdmins ==
  ASSUME ListingTypeOK, BaseRuled, NoRuleAhead, ListingNext
  PROVE  BaseRuled' /\ NoRuleAhead'
<1>1. /\ Len(assets) \in Nat /\ Known \subseteq Nat /\ assets \in Seq(Underlyings)
      /\ \A i \in Nat : i \in Known <=> i < Len(assets)
  BY Typed DEF ListingTypeOK
<1>2. /\ Len(rules) \in Nat /\ DOMAIN rules = 1 .. Len(rules) /\ rules \in Seq(OneRule)
      /\ Len(<<>>) = 0 /\ (rules # <<>> => 1 \in DOMAIN rules)
  BY RulesTyped, EmptySeq
<1>3. Known # {} => 1 \in DOMAIN rules
  <2>1. Known # {} => assets # <<>>
    BY <1>1, EmptySeq DEF Known
  <2>2. QED
    BY <1>2, <2>1 DEF BaseRuled
<1>4. ASSUME NEW k \in DOMAIN rules, NEW i \in Nat, NEW r \in AssetRules, RuleGiven(k, i, r)
      PROVE  /\ DOMAIN rules' = DOMAIN rules /\ rules' # <<>>
             /\ \A m \in DOMAIN rules, j \in Nat :
                  Rules(rules'[m], j) <=> Rules(rules[m], j) \/ (m = k /\ j = i)
  <2>1. DOMAIN rules' = DOMAIN rules /\ rules' \in Seq(OneRule)
    BY <1>4, RuleGivenTyped
  <2>2. rules' # <<>>
    BY <2>1, EmptySeq
  <2>3. QED
    BY <1>4, <2>1, <2>2, RulesAfter
<1>5. ASSUME NEW x \in Underlyings, NEW r \in AssetRules, assets' = Append(assets, x),
             1 \in DOMAIN rules, RuleGiven(1, Len(assets), r)
      PROVE  BaseRuled' /\ NoRuleAhead'
  <2>1. Len(assets') = Len(assets) + 1
    BY <1>1, <1>5
  <2>2. Known' = Known \cup {Len(assets)}
    <3> DEFINE n == Len(assets)
    <3>1. n \in Nat
      BY <1>1
    <3>2. Known' = 0 .. (n + 1) - 1 /\ Known = 0 .. n - 1
      BY <2>1 DEF Known
    <3> HIDE DEF n
    <3>3. 0 .. (n + 1) - 1 = (0 .. n - 1) \cup {n}
      BY <3>1
    <3>4. QED
      BY <3>2, <3>3 DEF n
  <2>3. BaseRuled'
    BY <1>1, <1>4, <1>5, <2>2 DEF BaseRuled
  <2>4. NoRuleAhead'
    <3> SUFFICES ASSUME NEW m \in DOMAIN rules', NEW j \in Nat, Rules(rules'[m], j)
                 PROVE  j < Len(assets')
      BY DEF NoRuleAhead
    <3>1. Rules(rules[m], j) \/ j = Len(assets)
      BY <1>1, <1>4, <1>5
    <3>2. m \in DOMAIN rules
      BY <1>1, <1>4, <1>5
    <3>3. QED
      BY <1>1, <2>1, <3>1, <3>2 DEF NoRuleAhead
  <2>5. QED
    BY <2>3, <2>4
<1>6. ASSUME NEW rule \in OneRule, \A k \in DOMAIN rule : rule[k] # None => k <= Len(assets),
             rules' = Append(rules, rule), assets' = assets
      PROVE  BaseRuled' /\ NoRuleAhead'
  <2>1. /\ DOMAIN rules' = 1 .. Len(rules) + 1 /\ rules'[Len(rules) + 1] = rule
        /\ \A k \in DOMAIN rules : rules'[k] = rules[k]
        /\ rules' # <<>>
    BY <1>2, <1>6, EmptySeq
  <2>2. Known' = Known
    BY <1>6 DEF Known
  <2>3. BaseRuled'
    BY <1>3, <1>6, <2>1, <2>2 DEF BaseRuled
  <2>4. \A i \in Nat : Rules(rule, i) => i < Len(assets)
    BY <1>1, <1>6, RuleAheadSame
  <2>5. NoRuleAhead'
    BY <1>2, <1>6, <2>1, <2>4 DEF NoRuleAhead
  <2>6. QED
    BY <2>3, <2>5
<1>7. ASSUME NEW k \in DOMAIN rules, NEW i \in Known, NEW r \in AssetRules, RuleGiven(k, i, r),
             assets' = assets
      PROVE  BaseRuled' /\ NoRuleAhead'
  <2>1. Known' = Known /\ i < Len(assets) /\ i \in Nat
    BY <1>1, <1>7 DEF Known
  <2>2. BaseRuled'
    BY <1>1, <1>3, <1>4, <1>7, <2>1 DEF BaseRuled
  <2>3. NoRuleAhead'
    BY <1>4, <1>7, <2>1 DEF NoRuleAhead
  <2>4. QED
    BY <2>2, <2>3
<1>8. QED
  BY AdminSteps, <1>5, <1>6, <1>7

LEMMA BaseRuledSame == ASSUME ListingTypeOK PROVE BaseRuleComplete <=> BaseRuled
BY DEF BaseRuleComplete, BaseRuled, Rules

\* Market rule 0 has a rule for every registered asset.
THEOREM BaseRuleKept == SpecListing => []BaseRuleComplete
<1> DEFINE Inv == BaseRuled /\ NoRuleAhead
<1>1. InitListing => Inv
  BY EmptySeq DEF InitListing, BaseRuled, NoRuleAhead, Known
<1>2. ListingTypeOK /\ Inv /\ [NextListing]_listingVars => Inv'
  <2> SUFFICES ASSUME ListingTypeOK, Inv, [NextListing]_listingVars PROVE Inv'
    OBVIOUS
  <2>1. CASE UNCHANGED <<assets, rules>>
    BY <2>1 DEF BaseRuled, NoRuleAhead, Known
  <2>2. CASE ListingNext
    BY <2>2, RulesByAdmins
  <2>3. CASE UserNext
    BY <2>1, <2>3, UsersBehave
  <2>4. QED
    BY <2>1, <2>2, <2>3 DEF NextListing, listingVars
<1>3. ListingTypeOK /\ Inv => BaseRuleComplete
  BY BaseRuledSame
<1> HIDE DEF Inv
<1>4. QED
  BY <1>1, <1>2, <1>3, ListingTyped, PTL DEF SpecListing

-----------------------------------------------------------------------------
(* nothing ahead *)

\* The part of NothingAhead that is about vectors, said with At.
NoEntryAhead == ~mixed => \A a \in Accounts, i \in Nat : At(vectors[a], i) # None => i < Len(assets)

LEMMA EntryAheadByUsers ==
  ASSUME ListingTypeOK, NoEntryAhead, UserNext
  PROVE  NoEntryAhead'
<1>1. Behaves /\ assets' = assets
  BY UsersBehave
<1> SUFFICES ASSUME ~mixed', NEW a \in Accounts, NEW i \in Nat, At(vectors'[a], i) # None
             PROVE  i < Len(assets)
  BY <1>1 DEF NoEntryAhead
<1>2. Replaces /\ ~mixed
  BY <1>1 DEF Behaves
<1>3. CASE <<a, i>> \in DOMAIN put'
  <2>1. PICK W \in SUBSET (Accounts \X Known) : put' \in [W -> Entries]
    BY <1>1 DEF Behaves, Addressed
  <2>2. i \in Known
    BY <1>3, <2>1
  <2>3. QED
    BY <2>2, Typed
<1>4. CASE <<a, i>> \notin DOMAIN put'
  <2>1. At(vectors'[a], i) = At(vectors[a], i)
    BY <1>2, <1>4 DEF Replaces
  <2>2. QED
    BY <1>2, <2>1 DEF NoEntryAhead
<1>5. QED
  BY <1>3, <1>4

LEMMA EntryAheadByAdmins ==
  ASSUME ListingTypeOK, NoEntryAhead, ListingNext
  PROVE  NoEntryAhead'
<1>1. Len(assets) \in Nat /\ assets \in Seq(Underlyings)
  BY Typed DEF ListingTypeOK
<1>2. ASSUME NEW x \in Underlyings, assets' = Append(assets, x)
      PROVE  Len(assets') = Len(assets) + 1
  BY <1>1, <1>2
<1>3. UNCHANGED <<vectors, mixed>> /\ (Len(assets') = Len(assets) \/ Len(assets') = Len(assets) + 1)
  BY AdminSteps, <1>2
<1>4. QED
  BY <1>1, <1>3 DEF NoEntryAhead

LEMMA AheadSame ==
  ASSUME ListingTypeOK, NoRuleAhead, NoEntryAhead
  PROVE  NothingAhead
<1>1. Len(assets) \in Nat /\ \A a \in Accounts : vectors[a] \in Vectors
  BY Typed
<1>2. ASSUME NEW k \in DOMAIN rules
      PROVE  \A i \in DOMAIN rules[k] : rules[k][i] # None => i <= Len(assets)
  <2>1. rules[k] \in OneRule
    BY RulesTyped
  <2>2. \A i \in Nat : Rules(rules[k], i) => i < Len(assets)
    BY DEF NoRuleAhead
  <2>3. QED
    BY <1>1, <2>1, <2>2, RuleAheadSame
<1>3. ASSUME ~mixed, NEW a \in Accounts, vectors[a] # None,
             NEW k \in 1 .. Len(vectors[a]), vectors[a][k] # None
      PROVE  k <= Len(assets)
  <2>1. vectors[a] \in EntryVectors
    BY <1>1, <1>3 DEF Vectors
  <2>2. k - 1 \in Nat /\ k - 1 < Len(vectors[a]) /\ (k - 1) + 1 = k
    BY <2>1, VectorBasics
  <2>3. At(vectors[a], k - 1) # None
    BY <1>3, <2>1, <2>2, VectorBasics
  <2>4. k - 1 < Len(assets)
    BY <1>3, <2>2, <2>3 DEF NoEntryAhead
  <2>5. QED
    BY <1>1, <2>4
<1>4. QED
  BY <1>2, <1>3 DEF NothingAhead

\* Until entries have been mixed up, nothing is stored for an asset that is
\* still to be registered.
THEOREM AheadIsNothing == SpecListing => []NothingAhead
<1> DEFINE Inv == BaseRuled /\ NoRuleAhead /\ NoEntryAhead
<1>1. InitListing => Inv
  <2> SUFFICES ASSUME InitListing PROVE Inv
    OBVIOUS
  <2>1. \A a \in Accounts, i \in Nat : At(vectors[a], i) = None
    BY DEF InitListing, At
  <2>2. QED
    BY <2>1, EmptySeq DEF InitListing, BaseRuled, NoRuleAhead, NoEntryAhead, Known
<1>2. ListingTypeOK /\ Inv /\ [NextListing]_listingVars => Inv'
  <2> SUFFICES ASSUME ListingTypeOK, Inv, [NextListing]_listingVars PROVE Inv'
    OBVIOUS
  <2>1. CASE UNCHANGED listingVars
    BY <2>1 DEF listingVars, BaseRuled, NoRuleAhead, NoEntryAhead, Known
  <2>2. CASE ListingNext
    BY <2>2, RulesByAdmins, EntryAheadByAdmins
  <2>3. CASE UserNext
    <3>1. UNCHANGED <<assets, rules>>
      BY <2>3, UsersBehave
    <3>2. BaseRuled' /\ NoRuleAhead'
      BY <3>1 DEF BaseRuled, NoRuleAhead, Known
    <3>3. QED
      BY <2>3, <3>2, EntryAheadByUsers
  <2>4. QED
    BY <2>1, <2>2, <2>3 DEF NextListing
<1>3. ListingTypeOK /\ Inv => NothingAhead
  BY AheadSame
<1> HIDE DEF Inv
<1>4. QED
  BY <1>1, <1>2, <1>3, ListingTyped, PTL DEF SpecListing

-----------------------------------------------------------------------------
(* the refinement *)

LEMMA PositionsInit == InitListing => Positions!InitPositions
<1> SUFFICES ASSUME InitListing PROVE Positions!InitPositions
  OBVIOUS
<1>1. \A a \in Accounts, i \in 0 .. MaxAssets - 1 : At(vectors[a], i) = None
  BY DEF InitListing, At
<1>2. QED
  BY <1>1, EmptySeq DEF InitListing, Positions!InitPositions, Positions!Ids

LEMMA UsersSendMessages ==
  ASSUME ListingTypeOK, UserNext
  PROVE  Positions!Message \/ Positions!Mixed
<1>1. Behaves /\ assets' = assets
  BY UsersBehave
<1>2. CASE mixed'
  BY <1>2 DEF Positions!Mixed
<1>3. CASE ~mixed'
  <2>1. Replaces /\ ~mixed /\ mixed' = mixed
    BY <1>1, <1>3 DEF Behaves, ListingTypeOK
  <2>2. \E W \in SUBSET (Accounts \X (0 .. Len(assets) - 1)) : put' \in [W -> Entries]
    BY <1>1 DEF Behaves, Addressed, Known
  <2>3. \A i \in 0 .. MaxAssets - 1 : i \in Nat
    OBVIOUS
  <2>4. [a \in Accounts |-> [i \in 0 .. MaxAssets - 1 |-> At(vectors'[a], i)]]
         = [a \in Accounts |-> [i \in 0 .. MaxAssets - 1 |->
              IF <<a, i>> \in DOMAIN put' THEN put'[<<a, i>>] ELSE At(vectors[a], i)]]
    BY <2>1, <2>3 DEF Replaces
  <2>5. Positions!Message
    BY <1>1, <2>1, <2>2, <2>4 DEF Positions!Message, Positions!Ids
  <2>6. QED
    BY <2>5
<1>4. QED
  BY <1>2, <1>3

LEMMA AdminsList ==
  ASSUME ListingTypeOK, ListingNext
  PROVE  Positions!List \/ UNCHANGED Positions!positionVars
<1>1. Len(assets) \in Nat /\ assets \in Seq(Underlyings)
  BY Typed DEF ListingTypeOK
<1>2. ASSUME NEW x \in Underlyings, assets' = Append(assets, x)
      PROVE  Len(assets') = Len(assets) + 1
  BY <1>1, <1>2
<1>3. UNCHANGED <<vectors, put, mixed>> /\ (Len(assets') = Len(assets) \/ Len(assets') = Len(assets) + 1)
  BY AdminSteps, <1>2
<1>4. QED
  BY <1>3 DEF Positions!List, Positions!positionVars

\* The growing vectors implement a table of all positions there will ever be:
\* each message replaces the positions it works on and no others, until one
\* mixes entries up.
THEOREM ListingImplementsPositions == SpecListing => PositionsReplaced
<1>1. InitListing => Positions!InitPositions
  BY PositionsInit
<1>2. ListingTypeOK /\ [NextListing]_listingVars
        => [Positions!NextPositions]_(Positions!positionVars)
  <2> SUFFICES ASSUME ListingTypeOK, [NextListing]_listingVars
               PROVE  Positions!NextPositions \/ UNCHANGED Positions!positionVars
    OBVIOUS
  <2>1. CASE UNCHANGED listingVars
    BY <2>1 DEF listingVars, Positions!positionVars
  <2>2. CASE UserNext
    BY <2>2, UsersSendMessages DEF Positions!NextPositions
  <2>3. CASE ListingNext
    BY <2>3, AdminsList DEF Positions!NextPositions
  <2>4. QED
    BY <2>1, <2>2, <2>3 DEF NextListing
<1>3. QED
  BY <1>1, <1>2, ListingTyped, PTL DEF SpecListing, PositionsReplaced, Positions!SpecPositions
=============================================================================
