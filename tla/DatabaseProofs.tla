--------------------------- MODULE DatabaseProofs ---------------------------
(***************************************************************************)
(* Theorems about Database and BlockDB, for any keys, items, hashes and    *)
(* bodies and batches of any length: reads in a transaction foretell its   *)
(* commit, the database implements BatchedMap, BlockDB is a use of it, and *)
(* lookups return what was stored under their own key.                     *)
(***************************************************************************)
EXTENDS BlockDB, WellFoundedInduction, TLAPS

-----------------------------------------------------------------------------
(* Numbers *)

\* Every set of natural numbers that is not empty has a least element.
LEMMA LeastNumber ==
  ASSUME NEW S, S \subseteq Nat, S # {}
  PROVE  \E x \in S : \A y \in S : x <= y
<1>. DEFINE R == {ss \in Nat \X Nat : ss[1] < ss[2]}
<1>1. OpToRel(<, Nat) = R
  BY Zenon DEF OpToRel
<1>2. PICK x \in S : \A y \in S : ~ (<<y, x>> \in R)
  <2>1. IsWellFoundedOn(R, Nat)
    BY <1>1, NatLessThanWellFounded, Zenon
  <2>. HIDE DEF R
  <2>. QED  BY <2>1, WFMin, Zenon
<1>3. \A y \in S : y < x => <<y, x>> \in R
  BY SMT
<1>4. \A y \in S : ~ (y < x)
  BY <1>2, <1>3, Zenon
<1>. QED  BY <1>4

\* Induction up to n, over the set of numbers that have the property in question.
LEMMA InductionTo ==
  ASSUME NEW n \in Nat, NEW S, 0 \in S, \A i \in 0..n - 1 : i \in S => i + 1 \in S
  PROVE  \A i \in 0..n : i \in S
<1>. DEFINE Bad == {i \in 0..n : i \notin S}
<1>. SUFFICES ASSUME Bad # {} PROVE FALSE
  BY Zenon
<1>1. Bad \subseteq Nat
  OBVIOUS
<1>2. PICK x \in Bad : \A y \in Bad : x <= y
  BY <1>1, LeastNumber, Zenon
<1>3. x \in 1..n
  BY <1>2
<1>4. x - 1 \in 0..n - 1 /\ x - 1 \notin Bad
  BY <1>1, <1>2, <1>3
<1>5. x - 1 \in S
  BY <1>4
<1>. QED  BY <1>2, <1>3, <1>4, <1>5

\* A set of places that is not empty has a greatest element, and Max is it.
LEMMA MaxIsGreatest ==
  ASSUME NEW n \in Nat, NEW S, S \subseteq 1..n, S # {}
  PROVE  Max(S) \in S /\ \A y \in S : Max(S) >= y
<1>. DEFINE Bounds == {b \in Nat : \A y \in S : b >= y}
<1>1. n \in Bounds /\ Bounds \subseteq Nat
  OBVIOUS
<1>2. PICK x \in Bounds : \A b \in Bounds : x <= b
  BY <1>1, LeastNumber, Zenon
<1>3. x \in S
  <2>. SUFFICES ASSUME x \notin S PROVE FALSE
    OBVIOUS
  <2>1. x \in Nat /\ \A y \in S : x >= y /\ x # y /\ y \in 1..n
    BY <1>2
  <2>2. x - 1 \in Nat /\ \A y \in S : x - 1 >= y
    <3>1. PICK z : z \in S
      BY Zenon
    <3>2. x >= 1
      BY <2>1, <3>1
    <3>. QED  BY <2>1, <3>2
  <2>. QED  BY <1>2, <2>1, <2>2
<1>4. \A y \in S : x >= y
  BY <1>2
<1>. QED  BY <1>3, <1>4, Zenon DEF Max

-----------------------------------------------------------------------------
(* OrderedMultimap *)

Multimaps == [Keys -> Seq(Values)]

\* insert puts the value behind the others of its key, and leaves the other keys alone.
LEMMA InsertEffect ==
  ASSUME NEW map \in Multimaps, NEW key \in Keys, NEW value \in Values
  PROVE  /\ MultimapInsert(map, key, value) \in Multimaps
         /\ MultimapInsert(map, key, value)[key] = Append(map[key], value)
         /\ \A k \in Keys : k # key => MultimapInsert(map, key, value)[k] = map[k]
  BY DEF MultimapInsert, Multimaps

\* The maps that the loop of DBTransaction::Put passes through.
Inserting(map, entries, g, n) ==
  /\ g \in [0..n -> Multimaps]
  /\ g[0] = map
  /\ \A i \in 1..n : g[i] = MultimapInsert(g[i - 1], entries[i].key, entries[i].value)

\* The recursion of InsertAll has a solution, for entries of any number.
LEMMA InsertingExists ==
  ASSUME NEW map \in Multimaps, NEW entries \in Seq(Ops)
  PROVE  \E g : Inserting(map, entries, g, Len(entries))
<1>. DEFINE S == {n \in Nat : \E g : Inserting(map, entries, g, n)}
<1>1. 0 \in S
  <2>. DEFINE g == [i \in 0..0 |-> map]
  <2>1. Inserting(map, entries, g, 0)
    BY DEF Inserting
  <2>. QED  BY <2>1
<1>2. ASSUME NEW n \in 0..Len(entries) - 1, n \in S
      PROVE  n + 1 \in S
  <2>1. PICK g : Inserting(map, entries, g, n)
    BY <1>2, Zenon
  <2>2. n + 1 \in 1..Len(entries) /\ n \in 0..n /\ n \in Nat
    OBVIOUS
  <2>3. entries[n + 1].key \in Keys /\ entries[n + 1].value \in Values
    <3>1. entries[n + 1] \in Ops
      BY <2>2
    <3>. QED  BY <3>1 DEF Ops
  <2>. DEFINE last == MultimapInsert(g[n], entries[n + 1].key, entries[n + 1].value)
              h == [i \in 0..n + 1 |-> IF i = n + 1 THEN last ELSE g[i]]
  <2>4. g[n] \in Multimaps
    BY <2>1, <2>2 DEF Inserting
  <2>5. last \in Multimaps
    BY <2>3, <2>4, InsertEffect
  <2>6. h[n + 1] = MultimapInsert(g[n], entries[n + 1].key, entries[n + 1].value)
    BY <2>2
  <2>. HIDE DEF last
  <2>7. h \in [0..n + 1 -> Multimaps]
    BY <2>1, <2>2, <2>5 DEF Inserting
  <2>8. h[0] = map /\ \A i \in 0..n : h[i] = g[i]
    BY <2>1, <2>2 DEF Inserting
  <2>. HIDE DEF h
  <2>9. \A i \in 1..n + 1 : h[i] = MultimapInsert(h[i - 1], entries[i].key, entries[i].value)
    <3>. TAKE i \in 1..n + 1
    <3>1. CASE i = n + 1
      <4>1. i - 1 = n /\ h[n] = g[n]
        BY <2>2, <2>8, <3>1
      <4>. QED  BY <2>6, <3>1, <4>1
    <3>2. CASE i # n + 1
      <4>1. i \in 1..n /\ i \in 0..n /\ i - 1 \in 0..n
        BY <2>2, <3>2
      <4>2. h[i] = g[i] /\ h[i - 1] = g[i - 1]
        BY <2>8, <4>1
      <4>3. g[i] = MultimapInsert(g[i - 1], entries[i].key, entries[i].value)
        BY <2>1, <4>1, Zenon DEF Inserting
      <4>. QED  BY <4>2, <4>3, Zenon
    <3>. QED  BY <3>1, <3>2
  <2>10. Inserting(map, entries, h, n + 1)
    BY <2>7, <2>8, <2>9, Zenon DEF Inserting
  <2>. QED  BY <2>2, <2>10
<1>. HIDE DEF S
<1>3. Len(entries) \in S
  <2>1. Len(entries) \in Nat /\ Len(entries) \in 0..Len(entries)
    OBVIOUS
  <2>. QED  BY <1>1, <1>2, <2>1, InductionTo, Zenon
<1>. QED  BY <1>3, Zenon DEF S

\* The recursive function of InsertAll is one of them.
LEMMA InsertAllUnfolds ==
  ASSUME NEW map \in Multimaps, NEW entries \in Seq(Ops)
  PROVE  \E g : Inserting(map, entries, g, Len(entries)) /\ InsertAll(map, entries) = g[Len(entries)]
<1>. DEFINE Body(f) ==
       [n \in 0..Len(entries) |->
          IF n = 0 THEN map ELSE MultimapInsert(f[n - 1], entries[n].key, entries[n].value)]
     inserted == CHOOSE f : f = Body(f)
<1>1. PICK g : Inserting(map, entries, g, Len(entries))
  BY InsertingExists
<1>2. g = Body(g)
  BY <1>1 DEF Inserting
<1>3. inserted = Body(inserted)
  BY <1>2, Zenon
<1>4. InsertAll(map, entries) = inserted[Len(entries)]
  BY Zenon DEF InsertAll
<1>5. /\ inserted[0] = map
      /\ \A n \in 1..Len(entries) :
           inserted[n] = MultimapInsert(inserted[n - 1], entries[n].key, entries[n].value)
  <2>. HIDE DEF inserted
  <2>. QED  BY <1>3
<1>. HIDE DEF inserted
<1>. DEFINE S == {n \in Nat : inserted[n] = g[n]}
<1>6. 0 \in S
  BY <1>1, <1>5 DEF Inserting
<1>7. ASSUME NEW n \in 0..Len(entries) - 1, n \in S
      PROVE  n + 1 \in S
  <2>1. n + 1 \in 1..Len(entries) /\ (n + 1) - 1 = n
    OBVIOUS
  <2>2. g[n + 1] = MultimapInsert(g[n], entries[n + 1].key, entries[n + 1].value)
    BY <1>1, <2>1 DEF Inserting
  <2>3. inserted[n + 1] = MultimapInsert(inserted[n], entries[n + 1].key, entries[n + 1].value)
    BY <1>5, <2>1
  <2>. QED  BY <1>7, <2>2, <2>3
<1>. HIDE DEF S
<1>8. Len(entries) \in S
  <2>1. Len(entries) \in Nat /\ Len(entries) \in 0..Len(entries)
    OBVIOUS
  <2>. QED  BY <1>6, <1>7, <2>1, InductionTo, Zenon
<1>9. inserted[Len(entries)] = g[Len(entries)]
  BY <1>8, Zenon DEF S
<1>. QED  BY <1>1, <1>4, <1>9, Zenon

\* The newest version of each key after n entries is the last of them with that key, and
\* no version is made up.
Newest(map, entries, g, n) ==
  \A k \in Keys :
    /\ (\A j \in 1..n : entries[j].key # k) => g[n][k] = map[k]
    /\ \A j \in 1..n :
         entries[j].key = k /\ (\A l \in 1..n : entries[l].key = k => l <= j)
           => g[n][k] # <<>> /\ Last(g[n][k]) = entries[j].value
    /\ \A i \in DOMAIN g[n][k] :
         \/ \E j \in DOMAIN map[k] : g[n][k][i] = map[k][j]
         \/ \E j \in 1..n : entries[j].key = k /\ g[n][k][i] = entries[j].value

\* One more entry becomes the last version of its key and leaves the other keys alone.
LEMMA NewestStep ==
  ASSUME NEW map \in Multimaps, NEW entries \in Seq(Ops), NEW g,
         Inserting(map, entries, g, Len(entries)),
         NEW n \in 0..Len(entries) - 1, Newest(map, entries, g, n)
  PROVE  Newest(map, entries, g, n + 1)
<1>1. /\ n \in Nat /\ n + 1 \in 1..Len(entries) /\ (n + 1) - 1 = n /\ n \in 0..Len(entries)
      /\ n + 1 \in 1..n + 1
  OBVIOUS
<1>2. entries[n + 1].key \in Keys /\ entries[n + 1].value \in Values
  <2>1. entries[n + 1] \in Ops
    BY <1>1
  <2>. QED  BY <2>1 DEF Ops
<1>3. g[n] \in Multimaps
  BY <1>1 DEF Inserting
<1>4. g[n + 1] = MultimapInsert(g[n], entries[n + 1].key, entries[n + 1].value)
  BY <1>1 DEF Inserting
<1>5. /\ g[n + 1][entries[n + 1].key] = Append(g[n][entries[n + 1].key], entries[n + 1].value)
      /\ \A k \in Keys : k # entries[n + 1].key => g[n + 1][k] = g[n][k]
  <2>. DEFINE key == entries[n + 1].key
              value == entries[n + 1].value
              next == MultimapInsert(g[n], key, value)
  <2>1. key \in Keys /\ value \in Values /\ g[n + 1] = next
    BY <1>2, <1>4, Zenon
  <2>. HIDE DEF key, value
  <2>2. next[key] = Append(g[n][key], value) /\ \A k \in Keys : k # key => next[k] = g[n][k]
    BY <1>3, <2>1, InsertEffect, Zenon
  <2>. HIDE DEF next
  <2>3. g[n + 1][key] = Append(g[n][key], value) /\ \A k \in Keys : k # key => g[n + 1][k] = g[n][k]
    BY <2>1, <2>2, Zenon
  <2>. QED  BY <2>3, Zenon DEF key, value
<1>6. \A j : j \in 1..n + 1 <=> j \in 1..n \/ j = n + 1
  BY <1>1
<1>. SUFFICES ASSUME NEW k \in Keys
     PROVE  /\ (\A j \in 1..n + 1 : entries[j].key # k) => g[n + 1][k] = map[k]
            /\ \A j \in 1..n + 1 :
                 entries[j].key = k /\ (\A l \in 1..n + 1 : entries[l].key = k => l <= j)
                   => g[n + 1][k] # <<>> /\ Last(g[n + 1][k]) = entries[j].value
            /\ \A i \in DOMAIN g[n + 1][k] :
                 \/ \E j \in DOMAIN map[k] : g[n + 1][k][i] = map[k][j]
                 \/ \E j \in 1..n + 1 : entries[j].key = k /\ g[n + 1][k][i] = entries[j].value
  BY Zenon DEF Newest
<1>7. CASE k # entries[n + 1].key
  <2>1. g[n + 1][k] = g[n][k]
    BY <1>5, <1>7, Zenon
  <2>2. /\ (\A j \in 1..n : entries[j].key # k) => g[n][k] = map[k]
        /\ \A j \in 1..n :
             entries[j].key = k /\ (\A l \in 1..n : entries[l].key = k => l <= j)
               => g[n][k] # <<>> /\ Last(g[n][k]) = entries[j].value
        /\ \A i \in DOMAIN g[n][k] :
             \/ \E j \in DOMAIN map[k] : g[n][k][i] = map[k][j]
             \/ \E j \in 1..n : entries[j].key = k /\ g[n][k][i] = entries[j].value
    BY Zenon DEF Newest
  <2>3. (\A j \in 1..n + 1 : entries[j].key # k) => g[n + 1][k] = map[k]
    BY <1>6, <2>1, <2>2, Zenon
  <2>4. ASSUME NEW j \in 1..n + 1, entries[j].key = k,
               \A l \in 1..n + 1 : entries[l].key = k => l <= j
        PROVE  g[n + 1][k] # <<>> /\ Last(g[n + 1][k]) = entries[j].value
    <3>1. j \in 1..n /\ \A l \in 1..n : entries[l].key = k => l <= j
      BY <1>6, <1>7, <2>4, Zenon
    <3>. QED  BY <2>1, <2>2, <2>4, <3>1, Zenon
  <2>5. ASSUME NEW i \in DOMAIN g[n + 1][k]
        PROVE  \/ \E j \in DOMAIN map[k] : g[n + 1][k][i] = map[k][j]
               \/ \E j \in 1..n + 1 : entries[j].key = k /\ g[n + 1][k][i] = entries[j].value
    <3>1. i \in DOMAIN g[n][k] /\ g[n + 1][k][i] = g[n][k][i]
      BY <2>1, Zenon
    <3>. QED  BY <1>6, <2>2, <3>1, Zenon
  <2>. QED  BY <2>3, <2>4, <2>5, Zenon
<1>8. CASE k = entries[n + 1].key
  <2>1. g[n + 1][k] = Append(g[n][k], entries[n + 1].value) /\ g[n][k] \in Seq(Values)
    BY <1>3, <1>5, <1>8 DEF Multimaps
  <2>2. g[n + 1][k] # <<>> /\ Last(g[n + 1][k]) = entries[n + 1].value
    BY <1>2, <2>1 DEF Last
  <2>3. \A j \in 1..n + 1 : (\A l \in 1..n + 1 : entries[l].key = k => l <= j) => j = n + 1
    BY <1>1, <1>8
  <2>4. ASSUME NEW i \in DOMAIN g[n + 1][k]
        PROVE  \/ i \in DOMAIN g[n][k] /\ g[n + 1][k][i] = g[n][k][i]
               \/ g[n + 1][k][i] = entries[n + 1].value
    BY <1>2, <2>1
  <2>5. ASSUME NEW i \in DOMAIN g[n + 1][k]
        PROVE  \/ \E j \in DOMAIN map[k] : g[n + 1][k][i] = map[k][j]
               \/ \E j \in 1..n + 1 : entries[j].key = k /\ g[n + 1][k][i] = entries[j].value
    <3>1. \A l \in DOMAIN g[n][k] :
            \/ \E j \in DOMAIN map[k] : g[n][k][l] = map[k][j]
            \/ \E j \in 1..n : entries[j].key = k /\ g[n][k][l] = entries[j].value
      BY Zenon DEF Newest
    <3>2. CASE i \in DOMAIN g[n][k] /\ g[n + 1][k][i] = g[n][k][i]
      BY <1>6, <3>1, <3>2, Zenon
    <3>3. CASE g[n + 1][k][i] = entries[n + 1].value
      BY <1>1, <1>8, <3>3, Zenon
    <3>. QED  BY <2>4, <3>2, <3>3, Zenon
  <2>. QED  BY <1>1, <1>8, <2>2, <2>3, <2>5, Zenon
<1>. QED  BY <1>7, <1>8

\* What DBTransaction::Put makes of m_added.
LEMMA InsertAllEffect ==
  ASSUME NEW map \in Multimaps, NEW entries \in Seq(Ops)
  PROVE  /\ InsertAll(map, entries) \in Multimaps
         /\ \A k \in Keys :
              /\ FindLast(InsertAll(map, entries), k) =
                   IF OpsOn(entries, k) = {} THEN FindLast(map, k)
                   ELSE entries[Max(OpsOn(entries, k))].value
              /\ \A i \in DOMAIN InsertAll(map, entries)[k] :
                   \/ \E j \in DOMAIN map[k] : InsertAll(map, entries)[k][i] = map[k][j]
                   \/ \E j \in OpsOn(entries, k) : InsertAll(map, entries)[k][i] = entries[j].value
<1>1. PICK g : Inserting(map, entries, g, Len(entries)) /\ InsertAll(map, entries) = g[Len(entries)]
  BY InsertAllUnfolds
<1>. DEFINE N == Len(entries)
            S == {n \in Nat : Newest(map, entries, g, n)}
<1>2. N \in Nat /\ N \in 0..N /\ DOMAIN entries = 1..N
  OBVIOUS
<1>3. 0 \in S
  <2>1. Newest(map, entries, g, 0)
    BY <1>1 DEF Newest, Inserting
  <2>. QED  BY <2>1
<1>4. ASSUME NEW n \in 0..N - 1, n \in S
      PROVE  n + 1 \in S
  <2>1. n + 1 \in Nat
    BY <1>2
  <2>2. Newest(map, entries, g, n + 1)
    BY <1>1, <1>4, NewestStep, Zenon
  <2>. QED  BY <2>1, <2>2, Zenon
<1>. HIDE DEF S
<1>5. N \in S
  BY <1>2, <1>3, <1>4, InductionTo, Zenon
<1>6. Newest(map, entries, g, N)
  BY <1>5, Zenon DEF S
<1>7. g[N] \in Multimaps
  BY <1>1, <1>2 DEF Inserting
<1>8. ASSUME NEW k \in Keys
      PROVE  FindLast(g[N], k) = IF OpsOn(entries, k) = {} THEN FindLast(map, k)
                                 ELSE entries[Max(OpsOn(entries, k))].value
  <2>1. CASE OpsOn(entries, k) = {}
    <3>1. \A j \in 1..N : entries[j].key # k
      BY <1>2, <2>1, Zenon DEF OpsOn
    <3>2. g[N][k] = map[k]
      BY <1>6, <3>1, Zenon DEF Newest
    <3>. QED  BY <2>1, <3>2, Zenon DEF FindLast
  <2>2. CASE OpsOn(entries, k) # {}
    <3>. DEFINE m == Max(OpsOn(entries, k))
    <3>1. OpsOn(entries, k) \subseteq 1..N
      BY <1>2, Zenon DEF OpsOn
    <3>2. m \in OpsOn(entries, k) /\ \A y \in OpsOn(entries, k) : m >= y
      BY <1>2, <2>2, <3>1, MaxIsGreatest, Zenon
    <3>. HIDE DEF m
    <3>3. m \in 1..N /\ entries[m].key = k
      BY <1>2, <3>2, Zenon DEF OpsOn
    <3>4. \A l \in 1..N : entries[l].key = k => l <= m
      <4>1. \A l \in 1..N : entries[l].key = k => m >= l
        BY <1>2, <3>2, Zenon DEF OpsOn
      <4>. QED  BY <1>2, <3>3, <4>1
    <3>5. g[N][k] # <<>> /\ Last(g[N][k]) = entries[m].value
      BY <1>6, <3>3, <3>4, Zenon DEF Newest
    <3>. QED  BY <2>2, <3>5, Zenon DEF FindLast, m
  <2>. QED  BY <2>1, <2>2
<1>9. ASSUME NEW k \in Keys, NEW i \in DOMAIN g[N][k]
      PROVE  \/ \E j \in DOMAIN map[k] : g[N][k][i] = map[k][j]
             \/ \E j \in OpsOn(entries, k) : g[N][k][i] = entries[j].value
  <2>1. \/ \E j \in DOMAIN map[k] : g[N][k][i] = map[k][j]
        \/ \E j \in 1..N : entries[j].key = k /\ g[N][k][i] = entries[j].value
    BY <1>6, Zenon DEF Newest
  <2>2. \A j \in 1..N : entries[j].key = k => j \in OpsOn(entries, k)
    BY <1>2, Zenon DEF OpsOn
  <2>. QED  BY <2>1, <2>2, Zenon
<1>10. InsertAll(map, entries) = g[N]
  BY <1>1, Zenon
<1>11. ASSUME NEW k \in Keys, NEW i \in DOMAIN InsertAll(map, entries)[k]
       PROVE  \/ \E j \in DOMAIN map[k] : InsertAll(map, entries)[k][i] = map[k][j]
              \/ \E j \in OpsOn(entries, k) : InsertAll(map, entries)[k][i] = entries[j].value
  <2>1. i \in DOMAIN g[N][k] /\ InsertAll(map, entries)[k][i] = g[N][k][i]
    BY <1>10, Zenon
  <2>. HIDE DEF N
  <2>. QED  BY <1>9, <2>1, Zenon
<1>12. \A k \in Keys : FindLast(InsertAll(map, entries), k) = FindLast(g[N], k)
  BY <1>10, Zenon
<1>. HIDE DEF N
<1>. QED  BY <1>7, <1>8, <1>10, <1>11, <1>12, Zenon

-----------------------------------------------------------------------------
(* Batches *)

Stored == Values \cup {NoValue}
BatchOps == [key : Keys, value : Stored]

\* A number of the set that no other exceeds is its Max.
LEMMA MaxUnique ==
  ASSUME NEW n \in Nat, NEW S, S \subseteq 1..n, NEW m \in S, \A y \in S : m >= y
  PROVE  Max(S) = m
<1>1. Max(S) \in S /\ \A y \in S : Max(S) >= y
  BY MaxIsGreatest, Zenon
<1>. DEFINE x == Max(S)
<1>. HIDE DEF x
<1>2. x \in S /\ \A y \in S : x >= y
  BY <1>1, Zenon DEF x
<1>3. x = m
  BY <1>2
<1>. QED  BY <1>3, Zenon DEF x

\* The last operation on a key.
LEMMA LastOp ==
  ASSUME NEW ops \in Seq(BatchOps), NEW k \in Keys, OpsOn(ops, k) # {}
  PROVE  /\ Max(OpsOn(ops, k)) \in OpsOn(ops, k)
         /\ \A y \in OpsOn(ops, k) : Max(OpsOn(ops, k)) >= y
         /\ ops[Max(OpsOn(ops, k))].value \in Stored
<1>1. OpsOn(ops, k) \subseteq 1..Len(ops) /\ Len(ops) \in Nat
  BY DEF OpsOn
<1>2. Max(OpsOn(ops, k)) \in OpsOn(ops, k) /\ \A y \in OpsOn(ops, k) : Max(OpsOn(ops, k)) >= y
  BY <1>1, MaxIsGreatest, Zenon
<1>3. \A i \in 1..Len(ops) : ops[i].value \in Stored
  <2>1. \A i \in 1..Len(ops) : ops[i] \in BatchOps
    OBVIOUS
  <2>. QED  BY <2>1 DEF BatchOps
<1>. QED  BY <1>1, <1>2, <1>3, Zenon

\* The operations on a key in a longer batch: the last one is in what came last.
LEMMA OpsOnConcat ==
  ASSUME NEW ops \in Seq(BatchOps), NEW more \in Seq(BatchOps), NEW k \in Keys
  PROVE  /\ OpsOn(ops \o more, k) = {} <=> OpsOn(ops, k) = {} /\ OpsOn(more, k) = {}
         /\ OpsOn(more, k) # {} =>
              (ops \o more)[Max(OpsOn(ops \o more, k))].value = more[Max(OpsOn(more, k))].value
         /\ OpsOn(more, k) = {} /\ OpsOn(ops, k) # {} =>
              (ops \o more)[Max(OpsOn(ops \o more, k))].value = ops[Max(OpsOn(ops, k))].value
<1>. DEFINE both == ops \o more
            N == Len(ops)
            M == Len(more)
<1>1. N \in Nat /\ M \in Nat /\ DOMAIN ops = 1..N /\ DOMAIN more = 1..M /\ DOMAIN both = 1..N + M
  OBVIOUS
<1>2. \A i \in 1..N : both[i] = ops[i]
  OBVIOUS
<1>3. \A i \in 1..M : both[N + i] = more[i]
  OBVIOUS
<1>. HIDE DEF both, N, M
<1>4. \A i \in 1..N : i \in OpsOn(both, k) <=> i \in OpsOn(ops, k)
  <2>1. \A i \in 1..N : i \in 1..N + M
    BY <1>1
  <2>. QED  BY <1>1, <1>2, <2>1, Zenon DEF OpsOn
<1>5. \A i \in 1..M : N + i \in OpsOn(both, k) <=> i \in OpsOn(more, k)
  <2>1. \A i \in 1..M : N + i \in 1..N + M
    BY <1>1
  <2>. QED  BY <1>1, <1>3, <2>1, Zenon DEF OpsOn
<1>6. \A i \in OpsOn(both, k) : i \in 1..N \/ \E j \in 1..M : i = N + j
  <2>1. \A i \in 1..N + M : i \in 1..N \/ (i - N \in 1..M /\ i = N + (i - N))
    BY <1>1
  <2>. QED  BY <1>1, <2>1, Zenon DEF OpsOn
<1>7. /\ OpsOn(both, k) \subseteq 1..N + M /\ OpsOn(ops, k) \subseteq 1..N
      /\ OpsOn(more, k) \subseteq 1..M /\ N + M \in Nat
  <2>1. N + M \in Nat
    BY <1>1
  <2>. QED  BY <1>1, <2>1, Zenon DEF OpsOn
<1>8. OpsOn(both, k) = {} <=> OpsOn(ops, k) = {} /\ OpsOn(more, k) = {}
  BY <1>4, <1>5, <1>6, <1>7, Zenon
<1>9. ASSUME OpsOn(more, k) # {}
      PROVE  both[Max(OpsOn(both, k))].value = more[Max(OpsOn(more, k))].value
  <2>. DEFINE m == Max(OpsOn(more, k))
  <2>1. m \in OpsOn(more, k) /\ \A y \in OpsOn(more, k) : m >= y
    BY <1>1, <1>7, <1>9, MaxIsGreatest, Zenon
  <2>. HIDE DEF m
  <2>2. m \in 1..M /\ N + m \in OpsOn(both, k)
    BY <1>5, <1>7, <2>1, Zenon
  <2>3. \A y \in OpsOn(both, k) : N + m >= y
    <3>. TAKE y \in OpsOn(both, k)
    <3>1. CASE y \in 1..N
      BY <1>1, <2>2, <3>1
    <3>2. ASSUME NEW j \in 1..M, y = N + j
          PROVE  N + m >= y
      <4>1. j \in OpsOn(more, k)
        BY <1>5, <3>2, Zenon
      <4>. QED  BY <1>1, <2>1, <2>2, <3>2, <4>1
    <3>. QED  BY <1>6, <3>1, <3>2
  <2>4. Max(OpsOn(both, k)) = N + m
    BY <1>7, <2>2, <2>3, MaxUnique, Zenon
  <2>. QED  BY <1>3, <2>2, <2>4, Zenon DEF m
<1>10. ASSUME OpsOn(more, k) = {}, OpsOn(ops, k) # {}
       PROVE  both[Max(OpsOn(both, k))].value = ops[Max(OpsOn(ops, k))].value
  <2>1. OpsOn(both, k) = OpsOn(ops, k)
    BY <1>4, <1>5, <1>6, <1>7, <1>10, Zenon
  <2>2. Max(OpsOn(ops, k)) \in 1..N
    BY <1>1, <1>7, <1>10, MaxIsGreatest, Zenon
  <2>. QED  BY <1>2, <2>1, <2>2, Zenon
<1>. QED  BY <1>8, <1>9, <1>10, Zenon DEF both

\* What LevelDB holds after a batch; after the same batch once more it holds the same.
LEMMA ApplyEffect ==
  ASSUME NEW contents \in [Keys -> Stored], NEW ops \in Seq(BatchOps)
  PROVE  /\ Apply(contents, ops) \in [Keys -> Stored]
         /\ Apply(Apply(contents, ops), ops) = Apply(contents, ops)
         /\ ops = <<>> => Apply(contents, ops) = contents
<1>1. \A k \in Keys : (IF OpsOn(ops, k) = {} THEN contents[k] ELSE ops[Max(OpsOn(ops, k))].value) \in Stored
  BY LastOp
<1>2. ASSUME ops = <<>>, NEW k \in Keys
      PROVE  OpsOn(ops, k) = {}
  BY <1>2 DEF OpsOn
<1>3. Apply(contents, ops) \in [Keys -> Stored]
  BY <1>1, Zenon DEF Apply
<1>4. Apply(Apply(contents, ops), ops) = Apply(contents, ops)
  BY Zenon DEF Apply
<1>5. ASSUME ops = <<>> PROVE Apply(contents, ops) = contents
  <2>1. \A k \in Keys : Apply(contents, ops)[k] = contents[k]
    BY <1>2, <1>5, Zenon DEF Apply
  <2>. DEFINE a == Apply(contents, ops)
  <2>. HIDE DEF a
  <2>2. a \in [Keys -> Stored] /\ \A k \in Keys : a[k] = contents[k]
    BY <1>3, <2>1, Zenon DEF a
  <2>3. a = contents
    BY <2>2
  <2>. QED  BY <2>3, Zenon DEF a
<1>. QED  BY <1>3, <1>4, <1>5, Zenon

-----------------------------------------------------------------------------
(* The invariant of Database *)

\* What the steps preserve; ReadYourWrites follows from it.
Kept == TypeOK /\ AddedFollowsBatch

\* The entries of a Put are operations of a batch that delete nothing.
LEMMA EntriesAreOps ==
  ASSUME NEW n, NEW entries \in BoundedSeq(Ops, n)
  PROVE  entries \in Seq(Ops) /\ entries \in Seq(BatchOps)
<1>1. PICK m \in 0..n : entries \in [1..m -> Ops]
  BY Zenon DEF BoundedSeq, SeqOf
<1>2. entries \in Seq(Ops)
  BY <1>1
<1>3. Ops \subseteq BatchOps
  BY DEF Ops, BatchOps, Stored
<1>. QED  BY <1>2, <1>3

\* A transaction just opened has added nothing.
LEMMA NothingAdded ==
  ASSUME NEW k \in Keys
  PROVE  /\ FindLast([key \in Keys |-> <<>>], k) = NoValue
         /\ OpsOn(<<>>, k) = {}
<1>1. [key \in Keys |-> <<>>][k] = <<>>
  OBVIOUS
<1>2. OpsOn(<<>>, k) = {}
  BY DEF OpsOn
<1>. QED  BY <1>1, <1>2, Zenon DEF FindLast

\* A transaction starts out well-typed.
LEMMA EmptyTypes == <<>> \in Seq(BatchOps) /\ [key \in Keys |-> <<>>] \in Multimaps
  BY DEF Multimaps

\* Put keeps m_added in step with the batch, or writes to the store without a transaction.
LEMMA PutKeeps ==
  ASSUME Kept, NEW n, NEW entries \in BoundedSeq(Ops, n), Put(entries)
  PROVE  Kept'
<1>1. entries \in Seq(Ops) /\ entries \in Seq(BatchOps)
  BY EntriesAreOps
<1>2. store \in [Keys -> Stored] /\ batch \in Seq(BatchOps) /\ added \in Multimaps
  BY Zenon DEF Kept, TypeOK, Stored, BatchOps, Multimaps
<1>3. CASE open
  <2>1. /\ batch' = batch \o entries /\ added' = InsertAll(added, entries)
        /\ UNCHANGED <<store, open, handle>>
    BY <1>3, Zenon DEF Put, TxPut
  <2>2. batch' \in Seq(BatchOps) /\ added' \in Multimaps
    <3>1. batch \o entries \in Seq(BatchOps)
      BY <1>1, <1>2
    <3>2. InsertAll(added, entries) \in Multimaps
      BY <1>1, <1>2, InsertAllEffect, Zenon
    <3>. QED  BY <2>1, <3>1, <3>2, Zenon
  <2>3. TypeOK'
    BY <2>1, <2>2, Zenon DEF Kept, TypeOK, Stored, BatchOps, Multimaps
  <2>4. ASSUME Deletes' = {}
        PROVE  Deletes = {}
    <3>1. \A i \in DOMAIN batch : i \in DOMAIN batch' /\ batch'[i] = batch[i]
      BY <1>1, <1>2, <2>1
    <3>. QED  BY <2>4, <3>1, Zenon DEF Deletes
  <2>5. ASSUME Deletes' = {}, NEW k \in Keys
        PROVE  FindLast(added', k) =
                 IF OpsOn(batch', k) = {} THEN NoValue ELSE batch'[Max(OpsOn(batch', k))].value
    <3>1. FindLast(added, k) =
            IF OpsOn(batch, k) = {} THEN NoValue ELSE batch[Max(OpsOn(batch, k))].value
      BY <1>3, <2>4, <2>5, Zenon DEF Kept, AddedFollowsBatch
    <3>2. FindLast(added', k) =
            IF OpsOn(entries, k) = {} THEN FindLast(added, k) ELSE entries[Max(OpsOn(entries, k))].value
      BY <1>1, <1>2, <2>1, InsertAllEffect, Zenon
    <3>3. /\ OpsOn(batch', k) = {} <=> OpsOn(batch, k) = {} /\ OpsOn(entries, k) = {}
          /\ OpsOn(entries, k) # {} =>
               batch'[Max(OpsOn(batch', k))].value = entries[Max(OpsOn(entries, k))].value
          /\ OpsOn(entries, k) = {} /\ OpsOn(batch, k) # {} =>
               batch'[Max(OpsOn(batch', k))].value = batch[Max(OpsOn(batch, k))].value
      BY <1>1, <1>2, <2>1, OpsOnConcat, Zenon
    <3>4. CASE OpsOn(entries, k) = {} /\ OpsOn(batch, k) = {}
      BY <3>1, <3>2, <3>3, <3>4, Zenon
    <3>5. CASE OpsOn(entries, k) = {} /\ OpsOn(batch, k) # {}
      BY <3>1, <3>2, <3>3, <3>5, Zenon
    <3>6. CASE OpsOn(entries, k) # {}
      BY <3>2, <3>3, <3>6, Zenon
    <3>. QED  BY <3>4, <3>5, <3>6, Zenon
  <2>. QED  BY <2>1, <2>3, <2>5, Zenon DEF Kept, AddedFollowsBatch
<1>4. CASE ~open
  <2>1. store' \in {Apply(store, entries), store} /\ UNCHANGED <<open, batch, added, handle>>
    BY <1>4, Zenon DEF Put, tx
  <2>2. store' \in [Keys -> Stored]
    BY <1>1, <1>2, <2>1, ApplyEffect, Zenon
  <2>3. TypeOK'
    BY <2>1, <2>2, Zenon DEF Kept, TypeOK, Stored
  <2>. QED  BY <1>4, <2>1, <2>3, Zenon DEF Kept, AddedFollowsBatch
<1>. QED  BY <1>3, <1>4, Zenon

\* A deletion is in the batch, and m_added has a version less.
LEMMA DeleteKeeps ==
  ASSUME Kept, NEW key \in Keys, Delete(key)
  PROVE  Kept'
<1>1. batch \in Seq(BatchOps) /\ added \in Multimaps
  BY Zenon DEF Kept, TypeOK, Stored, BatchOps, Multimaps
<1>2. /\ batch' = Append(batch, Op(key, NoValue)) /\ added' = MultimapErase(added, key)
      /\ UNCHANGED <<store, open, handle>>
  BY Zenon DEF Delete
<1>3. Op(key, NoValue) \in BatchOps /\ Op(key, NoValue).value = NoValue
  BY DEF Op, BatchOps, Stored
<1>4. batch' \in Seq(BatchOps) /\ Len(batch') \in DOMAIN batch' /\ batch'[Len(batch')].value = NoValue
  BY <1>1, <1>2, <1>3
<1>5. added' \in Multimaps
  <2>1. CASE added[key] = <<>>
    BY <1>1, <1>2, <2>1, Zenon DEF MultimapErase
  <2>2. CASE added[key] # <<>>
    <3>1. added[key] \in Seq(Values)
      BY <1>1 DEF Multimaps
    <3>2. Front(added[key]) \in Seq(Values)
      BY <2>2, <3>1 DEF Front
    <3>3. added' = [added EXCEPT ![key] = Front(@)]
      BY <1>2, <2>2, Zenon DEF MultimapErase
    <3>. QED  BY <1>1, <3>2, <3>3 DEF Multimaps
  <2>. QED  BY <2>1, <2>2
<1>6. Deletes' # {}
  BY <1>4, Zenon DEF Deletes
<1>7. TypeOK'
  BY <1>2, <1>4, <1>5, Zenon DEF Kept, TypeOK, Stored, BatchOps, Multimaps
<1>. QED  BY <1>2, <1>6, <1>7, Zenon DEF Kept, AddedFollowsBatch

\* The other steps, which open a transaction, commit it or end it.
LEMMA RestKeeps ==
  ASSUME Kept,
         \/ \E kind \in {"write", "batch"} : OnInitWrite(kind)
         \/ Commit \/ Rollback \/ Destroy \/ Crash
  PROVE  Kept'
<1>1. store \in [Keys -> Stored] /\ batch \in Seq(BatchOps) /\ added \in Multimaps
  BY Zenon DEF Kept, TypeOK, Stored, BatchOps, Multimaps
<1>2. Apply(store, batch) \in [Keys -> Stored]
  BY <1>1, ApplyEffect, Zenon
<1>3. ASSUME NEW kind \in {"write", "batch"}, OnInitWrite(kind)
      PROVE  Kept'
  <2>1. /\ store' = store /\ open' = TRUE /\ handle' \in {"write", "batch"}
        /\ batch' = <<>> /\ added' = [k \in Keys |-> <<>>]
    BY <1>3, Zenon DEF OnInitWrite
  <2>2. TypeOK'
    BY <1>1, <2>1, EmptyTypes, Zenon DEF TypeOK, Stored, BatchOps, Multimaps
  <2>3. \A k \in Keys : FindLast(added', k) = NoValue /\ OpsOn(batch', k) = {}
    BY <2>1, NothingAdded, Zenon
  <2>4. handle' # "none"
    BY <2>1
  <2>. QED  BY <2>1, <2>2, <2>3, <2>4, Zenon DEF Kept, AddedFollowsBatch
<1>4. CASE Commit
  <2>1. store' = Apply(store, batch) /\ UNCHANGED <<open, batch, added, handle>>
    BY <1>4, Zenon DEF Commit, tx
  <2>2. TypeOK'
    BY <1>2, <2>1, Zenon DEF Kept, TypeOK, Stored
  <2>. QED  BY <2>1, <2>2, Zenon DEF Kept, AddedFollowsBatch, Deletes
<1>5. CASE Rollback \/ Destroy \/ Crash
  <2>1. /\ store' \in {store, Apply(store, batch)} /\ NoTx
        /\ handle' \in {"none", handle}
    BY <1>5, Zenon DEF Rollback, Destroy, Crash
  <2>2. TypeOK'
    BY <1>1, <1>2, <2>1, EmptyTypes, Zenon DEF NoTx, Kept, TypeOK, Stored, BatchOps, Multimaps
  <2>. QED  BY <2>1, <2>2, Zenon DEF NoTx, Kept, AddedFollowsBatch
<1>. QED  BY <1>3, <1>4, <1>5, Zenon

\* The database starts without a transaction.
LEMMA InitKept == Init => Kept
<1>. SUFFICES ASSUME Init PROVE Kept
  OBVIOUS
<1>1. store \in [Keys -> Stored]
  BY DEF Init, Stored
<1>. QED
  BY <1>1, EmptyTypes, Zenon
  DEF Init, Kept, TypeOK, AddedFollowsBatch, Stored, BatchOps, Multimaps

\* Every step preserves it.
LEMMA StepKept == Kept /\ [Next]_vars => Kept'
<1>. SUFFICES ASSUME Kept, [Next]_vars PROVE Kept'
  OBVIOUS
<1>1. CASE UNCHANGED vars
  BY <1>1, Zenon DEF vars, Kept, TypeOK, AddedFollowsBatch, Deletes
<1>. QED
  BY <1>1, PutKeeps, DeleteKeeps, RestKeeps, Zenon DEF Next, Entries

\* In a transaction Get returns what the store will hold.
LEMMA KeptReads == Kept => DatabaseInv
<1>. SUFFICES ASSUME Kept, open, Deletes = {}, NEW k \in Keys
              PROVE  Get(Values, k) = Apply(store, batch)[k]
  BY Zenon DEF DatabaseInv, Kept, ReadYourWrites
<1>1. FindLast(added, k) =
        IF OpsOn(batch, k) = {} THEN NoValue ELSE batch[Max(OpsOn(batch, k))].value
  BY Zenon DEF Kept, AddedFollowsBatch
<1>2. Apply(store, batch)[k] =
        IF OpsOn(batch, k) = {} THEN store[k] ELSE batch[Max(OpsOn(batch, k))].value
  BY Zenon DEF Apply
<1>3. CASE OpsOn(batch, k) = {}
  BY <1>1, <1>2, <1>3, DatabaseAssumption, Zenon DEF Get, TxGet
<1>4. CASE OpsOn(batch, k) # {}
  <2>1. batch \in Seq(BatchOps)
    BY Zenon DEF Kept, TypeOK, Stored, BatchOps
  <2>2. Max(OpsOn(batch, k)) \in DOMAIN batch /\ batch[Max(OpsOn(batch, k))].value \in Stored
    BY <1>4, <2>1, LastOp, Zenon DEF OpsOn
  <2>3. batch[Max(OpsOn(batch, k))].value \in Values
    BY <2>2, Zenon DEF Deletes, Stored
  <2>. QED  BY <1>1, <1>2, <1>4, <2>3, Zenon DEF Get, TxGet
<1>. QED  BY <1>3, <1>4, Zenon

\* In a transaction of any length Get already returns what the store will hold once it is
\* committed: OrderedMultimap remembers the last of several writes to a key, as
\* LevelDB's batch does, until something is deleted.
THEOREM DatabaseInvariant == Spec => []DatabaseInv
<1>. QED  BY InitKept, StepKept, KeptReads, PTL DEF Spec

-----------------------------------------------------------------------------
(* The refinement of BatchedMap *)

\* The same invariant, in the form the theorems below need it.
LEMMA AlwaysKept == Spec => []Kept
<1>. QED  BY InitKept, StepKept, PTL DEF Spec

\* Every step of the database is a step of the abstract map, or changes nothing there.
LEMMA MapStep ==
  ASSUME Kept, Kept', [Next]_vars
  PROVE  [Map!MapNext]_(Map!mapVars)
<1>. USE DEF Map!MapNext, Map!mapVars
<1>1. store \in [Keys -> Stored] /\ batch \in Seq(BatchOps)
  BY Zenon DEF Kept, TypeOK, Stored, BatchOps
<1>2. Apply(Apply(store, batch), batch) = Apply(store, batch)
  BY <1>1, ApplyEffect, Zenon
<1>3. ASSUME NEW kind \in {"write", "batch"}, OnInitWrite(kind)
      PROVE  Map!MapBegin
  <2>1. store' = store /\ open' = TRUE /\ ~open /\ batch' = <<>>
    BY <1>3, Zenon DEF OnInitWrite, Kept, AddedFollowsBatch
  <2>2. Apply(store, <<>>) = store
    BY <1>1, EmptyTypes, ApplyEffect, Zenon
  <2>3. View = store /\ View' = store
    BY <2>1, <2>2, Zenon DEF View
  <2>. QED  BY <2>1, <2>3, Zenon DEF Map!MapBegin
<1>4. ASSUME NEW entries \in Entries, Put(entries)
      PROVE  Map!MapWrite \/ Map!MapWriteThrough
  <2>1. CASE open
    BY <1>4, <2>1, Zenon DEF Put, Map!MapWrite
  <2>2. CASE ~open
    BY <1>4, <2>2, Zenon DEF Put, tx, View, Map!MapWriteThrough
  <2>. QED  BY <2>1, <2>2, Zenon
<1>5. ASSUME NEW key \in Keys, Delete(key)
      PROVE  Map!MapWrite
  BY <1>5, Zenon DEF Delete, Map!MapWrite
<1>6. CASE Commit
  <2>1. open /\ store' = Apply(store, batch) /\ open' = open /\ batch' = batch
    BY <1>6, Zenon DEF Commit, tx
  <2>2. View = Apply(store, batch) /\ View' = Apply(Apply(store, batch), batch)
    BY <2>1, Zenon DEF View
  <2>3. Map!MapCommit
    BY <1>2, <2>1, <2>2, Zenon DEF Map!MapCommit
  <2>. QED  BY <2>3, Zenon
<1>7. CASE Rollback \/ Crash
  <2>1. store' = store /\ open' = FALSE
    BY <1>7, Zenon DEF Rollback, Crash, NoTx
  <2>2. View' = store
    BY <2>1, Zenon DEF View
  <2>3. CASE open
    BY <2>1, <2>2, <2>3, Zenon DEF Map!MapDiscard
  <2>4. CASE ~open
    BY <2>1, <2>2, <2>4, Zenon DEF Map!MapWriteThrough, Kept, TypeOK
  <2>. QED  BY <2>3, <2>4, Zenon
<1>8. CASE Destroy
  <2>1. open' = FALSE /\ View' = store'
    BY <1>8, Zenon DEF Destroy, NoTx, View
  <2>2. CASE handle = "write"
    <3>1. open /\ store' = Apply(store, batch) /\ View = Apply(store, batch)
      BY <1>8, <2>2, Zenon DEF Destroy, View
    <3>. QED  BY <2>1, <3>1, Zenon DEF Map!MapCommitAndClose
  <2>3. CASE handle # "write"
    <3>1. store' = store
      BY <1>8, <2>3, Zenon DEF Destroy
    <3>2. CASE open
      BY <2>1, <3>1, <3>2, Zenon DEF Map!MapDiscard
    <3>3. CASE ~open
      BY <2>1, <3>1, <3>3, Zenon DEF Map!MapWriteThrough, Kept, TypeOK
    <3>. QED  BY <3>2, <3>3, Zenon
  <2>. QED  BY <2>2, <2>3, Zenon
<1>9. CASE UNCHANGED vars
  BY <1>9, Zenon DEF vars, View
<1>. QED
  BY <1>3, <1>4, <1>5, <1>6, <1>7, <1>8, <1>9, Zenon DEF Next

\* The database is a batched map: a transaction reaches the store as a whole at its
\* Commit or not at all, and writing the batch, which Commit does not clear, a second
\* time in the destructor changes nothing.
THEOREM RefinesMap == Spec => ImplementsMap
<1>1. Init => Map!MapInit
  BY Zenon DEF Init, View, Map!MapInit
<1>2. Kept /\ Kept' /\ [Next]_vars => [Map!MapNext]_(Map!mapVars)
  BY MapStep
<1>. QED  BY <1>1, <1>2, AlwaysKept, PTL DEF Spec, ImplementsMap, Map!MapSpec

-----------------------------------------------------------------------------
(* BlockDB *)

\* What belongs under a key: a header in the header table and a block in the block table,
\* each under its own hash; nothing is stored in the table of UTXOs.
Fits(key, value) ==
  \A hash \in Hashes :
    /\ key = BuildKey(HEADER_TABLE, hash) => value = Header(hash)
    /\ key = BuildKey(BLOCK_TABLE, hash) => value \in Blocks(hash)
    /\ key # BuildKey(UTXO_TABLE, hash)

\* The store, the batch and m_added hold only what belongs under its key.
TablesFit ==
  /\ \A k \in Keys : store[k] # NoValue => Fits(k, store[k])
  /\ \A i \in DOMAIN batch : Fits(batch[i].key, batch[i].value)
  /\ \A k \in Keys : \A i \in DOMAIN added[k] : Fits(k, added[k][i])

\* The keys of the tables are different.
LEMMA KeysDiffer ==
  ASSUME NEW hash, NEW other
  PROVE  /\ BuildKey(HEADER_TABLE, hash) = BuildKey(HEADER_TABLE, other) => hash = other
         /\ BuildKey(BLOCK_TABLE, hash) = BuildKey(BLOCK_TABLE, other) => hash = other
         /\ BuildKey(HEADER_TABLE, hash) # BuildKey(BLOCK_TABLE, other)
         /\ BuildKey(HEADER_TABLE, hash) # BuildKey(UTXO_TABLE, other)
         /\ BuildKey(BLOCK_TABLE, hash) # BuildKey(UTXO_TABLE, other)
  BY DEF BuildKey, HEADER_TABLE, BLOCK_TABLE, UTXO_TABLE

\* The entries that BlockDB makes are operations of the database, and fit.
LEMMA HeaderEntry ==
  ASSUME NEW header \in Headers
  PROVE  /\ ToHeaderEntry(header) \in Ops
         /\ Fits(ToHeaderEntry(header).key, ToHeaderEntry(header).value)
<1>1. PICK hash \in Hashes : header = Header(hash)
  BY Zenon DEF Headers
<1>2. header.hash = hash
  BY <1>1 DEF Header
<1>3. BuildKey(HEADER_TABLE, hash) \in Keys /\ header \in Values
  <2>1. HEADER_TABLE \in {HEADER_TABLE, BLOCK_TABLE, UTXO_TABLE}
    BY Zenon
  <2>2. BuildKey(HEADER_TABLE, hash) \in BlockKeys
    BY <2>1 DEF BlockKeys
  <2>. QED  BY <2>2, BlockDBAssumption, Zenon DEF BlockItems
<1>4. /\ ToHeaderEntry(header) \in Ops
      /\ ToHeaderEntry(header).key = BuildKey(HEADER_TABLE, hash)
      /\ ToHeaderEntry(header).value = header
  BY <1>2, <1>3 DEF ToHeaderEntry, Op, Ops
<1>. QED  BY <1>1, <1>4, KeysDiffer, Zenon DEF Fits

\* The entry of a block goes into the blocks' table, under the hash of its header.
LEMMA BlockEntry ==
  ASSUME NEW block \in AllBlocks
  PROVE  /\ ToBlockEntry(block) \in Ops
         /\ Fits(ToBlockEntry(block).key, ToBlockEntry(block).value)
<1>1. PICK hash \in Hashes : block \in Blocks(hash)
  BY Zenon DEF AllBlocks
<1>2. block.hash = hash
  BY <1>1 DEF Blocks, Block
<1>3. BuildKey(BLOCK_TABLE, hash) \in Keys /\ block \in Values
  <2>1. BLOCK_TABLE \in {HEADER_TABLE, BLOCK_TABLE, UTXO_TABLE}
    BY Zenon
  <2>2. BuildKey(BLOCK_TABLE, hash) \in BlockKeys
    BY <2>1 DEF BlockKeys
  <2>. QED  BY <2>2, BlockDBAssumption, Zenon DEF BlockItems
<1>4. /\ ToBlockEntry(block) \in Ops
      /\ ToBlockEntry(block).key = BuildKey(BLOCK_TABLE, hash)
      /\ ToBlockEntry(block).value = block
  BY <1>2, <1>3 DEF ToBlockEntry, Op, Ops
<1>5. \A other \in Hashes : BuildKey(BLOCK_TABLE, hash) # BuildKey(HEADER_TABLE, other)
  BY KeysDiffer, Zenon
<1>. QED  BY <1>1, <1>4, <1>5, KeysDiffer, Zenon DEF Fits

\* What a step of BlockDB puts is a sequence of such entries.
Puts(entries) ==
  entries \in Entries /\ Put(entries) /\ \A i \in DOMAIN entries : Fits(entries[i].key, entries[i].value)

\* AddHeader and AddBlock put one entry that fits its table.
LEMMA OneEntry ==
  ASSUME NEW entry \in Ops, Fits(entry.key, entry.value), Put(<<entry>>), Kept
  PROVE  Puts(<<entry>>)
<1>1. Len(batch) + 1 <= MaxOps /\ Len(batch) \in Nat /\ MaxOps \in Nat
  <2>1. batch \in Seq(BatchOps) /\ Len(batch) + Len(<<entry>>) <= MaxOps
    BY Zenon DEF Put, Kept, TypeOK, BatchOps, Stored
  <2>2. MaxOps \in Nat
    BY DatabaseAssumption, Zenon
  <2>. QED  BY <2>1, <2>2
<1>2. 1 \in 0..MaxOps /\ <<entry>> \in [1..1 -> Ops]
  BY <1>1
<1>3. <<entry>> \in Entries
  BY <1>2, Zenon DEF Entries, BoundedSeq, SeqOf
<1>4. \A i \in DOMAIN <<entry>> : <<entry>>[i] = entry
  OBVIOUS
<1>. QED  BY <1>3, <1>4, Zenon DEF Puts

\* AddHeaders puts an entry for each header, all of which fit their table.
LEMMA ManyEntries ==
  ASSUME NEW headers \in BoundedSeq(Headers, MaxOps), AddHeaders(headers)
  PROVE  \E entries : Puts(entries)
<1>. DEFINE entries == [i \in DOMAIN headers |-> ToHeaderEntry(headers[i])]
<1>1. PICK m \in 0..MaxOps : headers \in [1..m -> Headers]
  BY Zenon DEF BoundedSeq, SeqOf
<1>2. \A i \in 1..m : ToHeaderEntry(headers[i]) \in Ops
  BY <1>1, HeaderEntry
<1>3. entries \in [1..m -> Ops]
  BY <1>1, <1>2, Zenon
<1>4. entries \in Entries
  BY <1>3, Zenon DEF Entries, BoundedSeq, SeqOf
<1>5. \A i \in DOMAIN entries : Fits(entries[i].key, entries[i].value)
  <2>1. \A i \in DOMAIN entries : headers[i] \in Headers /\ entries[i] = ToHeaderEntry(headers[i])
    BY <1>1
  <2>. HIDE DEF entries
  <2>. QED  BY <2>1, HeaderEntry, Zenon
<1>6. Put(entries)
  BY Zenon DEF AddHeaders
<1>. HIDE DEF entries
<1>. QED  BY <1>4, <1>5, <1>6, Zenon DEF Puts

\* A step of BlockDB puts such entries, or is one of the database's other steps.
LEMMA BlockStep ==
  ASSUME Kept, BlockNext
  PROVE  \/ \E entries : Puts(entries)
         \/ \E kind \in {"write", "batch"} : OnInitWrite(kind)
         \/ Commit \/ Rollback \/ Destroy \/ Crash
<1>1. ASSUME NEW header \in Headers, AddHeader(header)
      PROVE  \E entries : Puts(entries)
  <2>1. Puts(<<ToHeaderEntry(header)>>)
    BY <1>1, HeaderEntry, OneEntry, Zenon DEF AddHeader
  <2>. QED  BY <2>1, Zenon
<1>2. ASSUME NEW block \in AllBlocks, AddBlock(block)
      PROVE  \E entries : Puts(entries)
  <2>1. Puts(<<ToBlockEntry(block)>>)
    BY <1>2, BlockEntry, OneEntry, Zenon DEF AddBlock
  <2>. QED  BY <2>1, Zenon
<1>. QED  BY <1>1, <1>2, ManyEntries, Zenon DEF BlockNext

\* BlockDB uses the database within its protocol: every step of it is one of the database's.
THEOREM BlockDBIsDatabase == BlockSpec => Spec
<1>1. Kept /\ [BlockNext]_vars => Kept' /\ [Next]_vars
  <2>. SUFFICES ASSUME Kept, [BlockNext]_vars PROVE Kept' /\ [Next]_vars
    OBVIOUS
  <2>1. [Next]_vars
    BY BlockStep, Zenon DEF Next, Puts
  <2>. QED  BY <2>1, StepKept, Zenon
<1>. QED  BY <1>1, InitKept, PTL DEF BlockSpec, Spec

\* Writing a batch that fits keeps the store fitting.
LEMMA ApplyFits ==
  ASSUME NEW ops \in Seq(BatchOps), \A i \in DOMAIN ops : Fits(ops[i].key, ops[i].value),
         NEW contents, \A k \in Keys : contents[k] # NoValue => Fits(k, contents[k]),
         NEW k \in Keys, Apply(contents, ops)[k] # NoValue
  PROVE  Fits(k, Apply(contents, ops)[k])
<1>1. CASE OpsOn(ops, k) = {}
  BY <1>1, Zenon DEF Apply
<1>2. CASE OpsOn(ops, k) # {}
  <2>1. Max(OpsOn(ops, k)) \in OpsOn(ops, k)
    BY <1>2, LastOp, Zenon
  <2>2. Fits(k, ops[Max(OpsOn(ops, k))].value)
    BY <2>1, Zenon DEF OpsOn
  <2>. QED  BY <1>2, <2>2, Zenon DEF Apply
<1>. QED  BY <1>1, <1>2, Zenon

\* Entries that fit their tables keep the store and the transaction so.
LEMMA PutFits ==
  ASSUME Kept, TablesFit, NEW entries, Puts(entries)
  PROVE  TablesFit'
<1>1. entries \in Seq(Ops) /\ entries \in Seq(BatchOps)
  BY EntriesAreOps, Zenon DEF Puts, Entries
<1>2. store \in [Keys -> Stored] /\ batch \in Seq(BatchOps) /\ added \in Multimaps
  BY Zenon DEF Kept, TypeOK, Stored, BatchOps, Multimaps
<1>3. \A i \in DOMAIN entries : Fits(entries[i].key, entries[i].value)
  BY Zenon DEF Puts
<1>4. CASE open
  <2>1. batch' = batch \o entries /\ added' = InsertAll(added, entries) /\ store' = store
    BY <1>4, Zenon DEF Puts, Put, TxPut
  <2>2. ASSUME NEW i \in DOMAIN batch'
        PROVE  Fits(batch'[i].key, batch'[i].value)
    <3>1. \/ i \in DOMAIN batch /\ batch'[i] = batch[i]
          \/ i - Len(batch) \in DOMAIN entries /\ batch'[i] = entries[i - Len(batch)]
      BY <1>1, <1>2, <2>1
    <3>. QED  BY <1>3, <3>1, Zenon DEF TablesFit
  <2>3. ASSUME NEW k \in Keys, NEW i \in DOMAIN added'[k]
        PROVE  Fits(k, added'[k][i])
    <3>1. \/ \E j \in DOMAIN added[k] : added'[k][i] = added[k][j]
          \/ \E j \in OpsOn(entries, k) : added'[k][i] = entries[j].value
      BY <1>1, <1>2, <2>1, <2>3, InsertAllEffect, Zenon
    <3>2. \A j \in OpsOn(entries, k) : Fits(k, entries[j].value)
      BY <1>3, Zenon DEF OpsOn
    <3>. QED  BY <3>1, <3>2, Zenon DEF TablesFit
  <2>. QED  BY <2>1, <2>2, <2>3, Zenon DEF TablesFit
<1>5. CASE ~open
  <2>1. store' \in {Apply(store, entries), store} /\ batch' = batch /\ added' = added
    BY <1>5, Zenon DEF Puts, Put, tx
  <2>2. \A k \in Keys : Apply(store, entries)[k] # NoValue => Fits(k, Apply(store, entries)[k])
    BY <1>1, <1>3, ApplyFits, Zenon DEF TablesFit
  <2>. QED  BY <2>1, <2>2, Zenon DEF TablesFit
<1>. QED  BY <1>4, <1>5, Zenon

\* Every step of BlockDB keeps items in the table and under the hash they belong to.
LEMMA BlockStepFits == Kept /\ TablesFit /\ [BlockNext]_vars => TablesFit'
<1>. SUFFICES ASSUME Kept, TablesFit, [BlockNext]_vars PROVE TablesFit'
  OBVIOUS
<1>. DEFINE Fresh == batch' = <<>> /\ added' = [k \in Keys |-> <<>>]
<1>1. ASSUME Fresh
      PROVE  /\ \A i \in DOMAIN batch' : FALSE
             /\ \A k \in Keys : \A i \in DOMAIN added'[k] : FALSE
  <2>1. DOMAIN batch' = {} /\ \A k \in Keys : added'[k] = <<>>
    BY <1>1
  <2>2. DOMAIN <<>> = {}
    OBVIOUS
  <2>. QED  BY <2>1, <2>2, Zenon
<1>2. \A k \in Keys : Apply(store, batch)[k] # NoValue => Fits(k, Apply(store, batch)[k])
  <2>1. batch \in Seq(BatchOps)
    BY Zenon DEF Kept, TypeOK, Stored, BatchOps
  <2>. QED  BY <2>1, ApplyFits, Zenon DEF TablesFit
<1>3. CASE Commit
  BY <1>2, <1>3, Zenon DEF Commit, tx, TablesFit
<1>4. ASSUME Fresh, store' \in {store, Apply(store, batch)}
      PROVE  TablesFit'
  <2>1. \A k \in Keys : store'[k] # NoValue => Fits(k, store'[k])
    BY <1>2, <1>4, Zenon DEF TablesFit
  <2>. QED  BY <1>1, <1>4, <2>1, Zenon DEF TablesFit
<1>5. CASE \/ \E kind \in {"write", "batch"} : OnInitWrite(kind)
           \/ Rollback \/ Destroy \/ Crash
  BY <1>4, <1>5, Zenon DEF OnInitWrite, Rollback, Destroy, Crash, NoTx
<1>6. CASE UNCHANGED vars
  BY <1>6, Zenon DEF vars, TablesFit
<1>. QED  BY <1>3, <1>5, <1>6, BlockStep, PutFits, Zenon

\* What a lookup returns fits its key, whether it is in the transaction or in the store.
LEMMA GetFits ==
  ASSUME Kept, TablesFit, NEW T, NEW k \in Keys
  PROVE  Get(T, k) = NoValue \/ Fits(k, Get(T, k))
<1>1. added[k] \in Seq(Values)
  BY Zenon DEF Kept, TypeOK
<1>2. FindLast(added, k) = NoValue \/ Fits(k, FindLast(added, k))
  <2>1. CASE added[k] = <<>>
    BY <2>1, Zenon DEF FindLast
  <2>2. CASE added[k] # <<>>
    <3>1. Len(added[k]) \in DOMAIN added[k]
      BY <1>1, <2>2
    <3>. QED  BY <2>2, <3>1, Zenon DEF FindLast, Last, TablesFit
  <2>. QED  BY <2>1, <2>2, Zenon
<1>. QED  BY <1>2, Zenon DEF Get, TxGet, TablesFit

\* The keys that lookups ask for are keys of the database.
LEMMA LookupKeys ==
  ASSUME NEW hash \in Hashes, NEW table \in {HEADER_TABLE, BLOCK_TABLE, UTXO_TABLE}
  PROVE  BuildKey(table, hash) \in Keys
<1>1. BuildKey(table, hash) \in BlockKeys
  BY DEF BlockKeys
<1>. QED  BY <1>1, BlockDBAssumption, Zenon

\* A header that is found is the one of that hash.
LEMMA OwnHeader ==
  ASSUME Kept, TablesFit, NEW hash \in Hashes
  PROVE  GetHeaderByHash(hash) \in {NoValue, Header(hash)}
<1>1. BuildKey(HEADER_TABLE, hash) \in Keys
  BY LookupKeys, Zenon
<1>. QED  BY <1>1, GetFits, Zenon DEF GetHeaderByHash, Fits

\* A block that is found has a header of that hash.
LEMMA OwnBlock ==
  ASSUME Kept, TablesFit, NEW hash \in Hashes
  PROVE  GetBlockByHash(hash) \in {NoValue} \cup Blocks(hash)
<1>1. BuildKey(BLOCK_TABLE, hash) \in Keys
  BY LookupKeys, Zenon
<1>. QED  BY <1>1, GetFits, Zenon DEF GetBlockByHash, Fits

\* Nothing is ever found in the table of outputs, which nobody writes.
LEMMA NoUTXO ==
  ASSUME Kept, TablesFit, NEW hash \in Hashes
  PROVE  GetUTXOs({hash}) = {}
<1>1. BuildKey(UTXO_TABLE, hash) \in Keys
  BY LookupKeys, Zenon
<1>2. Get({}, BuildKey(UTXO_TABLE, hash)) = NoValue
  BY <1>1, GetFits, Zenon DEF Fits
<1>. QED  BY <1>2, Zenon DEF GetUTXOs

\* The lists that the loop of GetHeadersByHash passes through.
Extended(list, hash) ==
  IF GetHeaderByHash(hash) = NoValue THEN list ELSE Append(list, GetHeaderByHash(hash))

Finding(hashes, g, n) ==
  /\ g \in [0..n -> Seq({Header(hashes[i]) : i \in DOMAIN hashes})]
  /\ g[0] = <<>>
  /\ \A i \in 1..n : g[i] = Extended(g[i - 1], hashes[i])

\* The recursion of GetHeadersByHash has a solution, for hashes of any number.
LEMMA FindingExists ==
  ASSUME Kept, TablesFit, NEW hashes \in Seq(Hashes)
  PROVE  \E g : Finding(hashes, g, Len(hashes))
<1>. DEFINE Found == {Header(hashes[i]) : i \in DOMAIN hashes}
            S == {n \in Nat : \E g : Finding(hashes, g, n)}
<1>1. 0 \in S
  <2>. DEFINE g == [i \in 0..0 |-> <<>>]
  <2>1. g \in [0..0 -> Seq(Found)] /\ g[0] = <<>> /\ 1..0 = {}
    <3>. HIDE DEF Found
    <3>. QED  OBVIOUS
  <2>. HIDE DEF g
  <2>2. Finding(hashes, g, 0)
    BY <2>1, Zenon DEF Finding
  <2>. QED  BY <2>2
<1>2. ASSUME NEW n \in 0..Len(hashes) - 1, n \in S
      PROVE  n + 1 \in S
  <2>1. PICK g : Finding(hashes, g, n)
    BY <1>2, Zenon
  <2>2. n + 1 \in DOMAIN hashes /\ n \in 0..n /\ n \in Nat /\ hashes[n + 1] \in Hashes
    OBVIOUS
  <2>. DEFINE last == Extended(g[n], hashes[n + 1])
              h == [i \in 0..n + 1 |-> IF i = n + 1 THEN last ELSE g[i]]
  <2>3. g[n] \in Seq(Found)
    BY <2>1, <2>2, Zenon DEF Finding
  <2>4. GetHeaderByHash(hashes[n + 1]) = NoValue \/ GetHeaderByHash(hashes[n + 1]) \in Found
    BY <2>2, OwnHeader, Zenon
  <2>5. last \in Seq(Found)
    <3>1. CASE GetHeaderByHash(hashes[n + 1]) = NoValue
      BY <2>3, <3>1, Zenon DEF Extended
    <3>2. CASE GetHeaderByHash(hashes[n + 1]) # NoValue
      <4>. DEFINE header == GetHeaderByHash(hashes[n + 1])
      <4>1. header \in Found /\ last = Append(g[n], header)
        BY <2>4, <3>2, Zenon DEF Extended
      <4>. HIDE DEF header, last, Found
      <4>. QED  BY <2>3, <4>1
    <3>. QED  BY <3>1, <3>2, Zenon
  <2>6. h[n + 1] = last
    BY <2>2
  <2>7. h \in [0..n + 1 -> Seq(Found)]
    <3>. HIDE DEF last
    <3>1. g \in [0..n -> Seq(Found)]
      BY <2>1, Zenon DEF Finding
    <3>. HIDE DEF Found
    <3>. QED  BY <2>2, <2>5, <3>1
  <2>8. \A i \in 0..n : h[i] = g[i]
    BY <2>2
  <2>. HIDE DEF h
  <2>9. h[0] = <<>>
    <3>1. 0 \in 0..n
      BY <2>2
    <3>. QED  BY <2>1, <2>8, <3>1, Zenon DEF Finding
  <2>10. \A i \in 1..n + 1 : h[i] = Extended(h[i - 1], hashes[i])
    <3>. TAKE i \in 1..n + 1
    <3>1. CASE i = n + 1
      <4>1. i - 1 = n /\ h[n] = g[n]
        BY <2>2, <2>8, <3>1
      <4>. QED  BY <2>6, <3>1, <4>1, Zenon
    <3>2. CASE i # n + 1
      <4>1. i \in 1..n /\ i \in 0..n /\ i - 1 \in 0..n
        BY <2>2, <3>2
      <4>. QED  BY <2>1, <2>8, <4>1, Zenon DEF Finding
    <3>. QED  BY <3>1, <3>2, Zenon
  <2>11. Finding(hashes, h, n + 1)
    BY <2>7, <2>9, <2>10, Zenon DEF Finding
  <2>. QED  BY <2>2, <2>11
<1>. HIDE DEF S
<1>3. Len(hashes) \in S
  <2>1. Len(hashes) \in Nat /\ Len(hashes) \in 0..Len(hashes)
    OBVIOUS
  <2>. QED  BY <1>1, <1>2, <2>1, InductionTo, Zenon
<1>. QED  BY <1>3, Zenon DEF S

\* A list of hashes brings only headers asked for.
LEMMA OwnHeaders ==
  ASSUME Kept, TablesFit, NEW hashes \in Seq(Hashes)
  PROVE  Range(GetHeadersByHash(hashes)) \subseteq {Header(hashes[i]) : i \in DOMAIN hashes}
<1>. DEFINE Found == {Header(hashes[i]) : i \in DOMAIN hashes}
            Body(f) == [n \in 0..Len(hashes) |->
                          IF n = 0 THEN <<>>
                          ELSE IF GetHeaderByHash(hashes[n]) = NoValue THEN f[n - 1]
                          ELSE Append(f[n - 1], GetHeaderByHash(hashes[n]))]
            found == CHOOSE f : f = Body(f)
<1>1. PICK g : Finding(hashes, g, Len(hashes))
  BY FindingExists
<1>2. g = Body(g)
  <2>1. Body(g) = [n \in 0..Len(hashes) |-> IF n = 0 THEN <<>> ELSE Extended(g[n - 1], hashes[n])]
    BY Zenon DEF Extended
  <2>2. \A n \in 0..Len(hashes) : g[n] = IF n = 0 THEN <<>> ELSE Extended(g[n - 1], hashes[n])
    <3>1. \A n \in 0..Len(hashes) : n = 0 \/ n \in 1..Len(hashes)
      OBVIOUS
    <3>. QED  BY <1>1, <3>1, Zenon DEF Finding
  <2>3. g = [n \in 0..Len(hashes) |-> g[n]]
    BY <1>1, Zenon DEF Finding
  <2>. QED  BY <2>1, <2>2, <2>3, Zenon
<1>3. found = Body(found)
  BY <1>2, Zenon
<1>4. GetHeadersByHash(hashes) = found[Len(hashes)]
  BY Zenon DEF GetHeadersByHash
<1>. HIDE DEF found
<1>5. found[0] = <<>> /\ \A n \in 1..Len(hashes) : found[n] = Extended(found[n - 1], hashes[n])
  <2>1. \A n \in 0..Len(hashes) : found[n] = Body(found)[n]
    BY <1>3, Zenon
  <2>2. 0 \in 0..Len(hashes) /\ \A n \in 1..Len(hashes) : n \in 0..Len(hashes) /\ n # 0
    OBVIOUS
  <2>. QED  BY <2>1, <2>2, Zenon DEF Extended
<1>. DEFINE S == {n \in Nat : found[n] = g[n]}
<1>6. 0 \in S
  BY <1>1, <1>5, Zenon DEF Finding
<1>7. ASSUME NEW n \in 0..Len(hashes) - 1, n \in S
      PROVE  n + 1 \in S
  <2>1. n + 1 \in 1..Len(hashes) /\ (n + 1) - 1 = n /\ n + 1 \in Nat
    OBVIOUS
  <2>2. g[n + 1] = Extended(g[n], hashes[n + 1]) /\ found[n + 1] = Extended(found[n], hashes[n + 1])
    BY <1>1, <1>5, <2>1, Zenon DEF Finding
  <2>3. found[n] = g[n]
    BY <1>7, Zenon
  <2>4. found[n + 1] = g[n + 1]
    BY <2>2, <2>3, Zenon
  <2>. QED  BY <2>1, <2>4, Zenon
<1>. HIDE DEF S
<1>8. Len(hashes) \in Nat /\ Len(hashes) \in 0..Len(hashes)
  OBVIOUS
<1>9. Len(hashes) \in S
  BY <1>6, <1>7, <1>8, InductionTo, Zenon
<1>10. GetHeadersByHash(hashes) = g[Len(hashes)] /\ g[Len(hashes)] \in Seq(Found)
  BY <1>1, <1>4, <1>8, <1>9, Zenon DEF S, Finding
<1>11. \A list \in Seq(Found) : Range(list) \subseteq Found
  <2>. HIDE DEF Found
  <2>. QED  BY DEF Range
<1>. QED  BY <1>10, <1>11, Zenon

\* Lookups return their own: the tables' prefixes keep a header and a block with the same
\* hash apart, in the store and in a transaction, and a list of hashes brings only headers
\* that were asked for.
THEOREM OwnLookups == BlockSpec => []LookupsReturnTheirOwn
<1>1. Init => TablesFit
  <2>. SUFFICES ASSUME Init PROVE TablesFit
    OBVIOUS
  <2>1. /\ \A k \in Keys : store[k] = NoValue /\ DOMAIN added[k] = {}
        /\ DOMAIN batch = {}
    BY DEF Init
  <2>. QED  BY <2>1, Zenon DEF TablesFit
<1>2. Kept /\ TablesFit => LookupsReturnTheirOwn
  <2>. SUFFICES ASSUME Kept, TablesFit, NEW hash \in Hashes, NEW other \in Hashes
                PROVE  /\ GetHeaderByHash(hash) \in {NoValue, Header(hash)}
                       /\ GetBlockByHash(hash) \in {NoValue} \cup Blocks(hash)
                       /\ Range(GetHeadersByHash(<<hash, other>>)) \subseteq {Header(hash), Header(other)}
                       /\ GetUTXOs({hash}) = {}
                       /\ GetBlockByHeight(0) = NoValue
    BY Zenon DEF LookupsReturnTheirOwn
  <2>1. <<hash, other>> \in Seq(Hashes)
    OBVIOUS
  <2>2. {Header(<<hash, other>>[i]) : i \in DOMAIN <<hash, other>>} \subseteq {Header(hash), Header(other)}
    <3>1. \A i \in DOMAIN <<hash, other>> : <<hash, other>>[i] = hash \/ <<hash, other>>[i] = other
      OBVIOUS
    <3>. QED  BY <3>1, Zenon
  <2>3. GetBlockByHeight(0) = NoValue
    BY Zenon DEF GetBlockByHeight, GetHashByHeight
  <2>. QED  BY <2>1, <2>2, <2>3, OwnHeader, OwnBlock, OwnHeaders, NoUTXO, Zenon
<1>3. BlockSpec => []Kept
  BY BlockDBIsDatabase, AlwaysKept, PTL
<1>. QED  BY <1>1, <1>2, <1>3, BlockStepFits, PTL DEF BlockSpec

=============================================================================
