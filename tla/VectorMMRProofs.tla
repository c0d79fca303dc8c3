-------------------------- MODULE VectorMMRProofs --------------------------
(***************************************************************************)
(* Theorems about mmr::MMR over mmr::VectorBackend: for every set of leaf  *)
(* contents and every number of leaves, the nodes are those of the leaves, *)
(* MMR::Root is the root that the reference computes from them, and        *)
(* MMR::Rewind restores an earlier range.                                  *)
(*                                                                         *)
(* The argument first computes what the loops of mmr::Index and            *)
(* mmr::LeafIndex give over a perfect tree (by induction on its levels):   *)
(* the heights behind a leaf count up to the next leaf, so that AddLeaf    *)
(* appends exactly the parents that the leaf completes.  RangeInv then     *)
(* says that every node has the hash of its children.  For the root, Fits  *)
(* says where a perfect tree stands in the range; its top has the hash of  *)
(* the tree, and the peaks that MMR::Root finds are these tops.            *)
(***************************************************************************)
EXTENDS VectorMMR, WellFoundedInduction, SequenceTheorems, TLAPS

-----------------------------------------------------------------------------
(* Numbers, powers of two and induction. *)

\* Every set of natural numbers that is not empty has a least element.
LEMMA LeastNumber ==
  ASSUME NEW S, S \subseteq Nat, S # {}
  PROVE  \E x \in S : \A y \in S : x <= y
<1>. DEFINE R == {ss \in Nat \X Nat : ss[1] < ss[2]}
<1>1. OpToRel(<, Nat) = R
  BY Zenon DEF OpToRel
<1>2. PICK x \in S : \A y \in S : ~ (<<y, x>> \in R)
  <2>1. IsWellFoundedOn(R, Nat)
    BY <1>1, NatLessThanWellFounded, Zenon
  <2>. HIDE DEF R
  <2>. QED  BY <2>1, WFMin, Zenon
<1>3. \A y \in S : y < x => <<y, x>> \in R
  BY SMT
<1>4. \A y \in S : ~ (y < x)
  BY <1>2, <1>3, Zenon
<1>. QED  BY <1>4

\* Induction, over the set of numbers that have the property in question.
LEMMA InductionOver ==
  ASSUME NEW S, 0 \in S, \A i \in Nat : i \in S => i + 1 \in S
  PROVE  \A i \in Nat : i \in S
<1>. DEFINE Bad == {i \in Nat : i \notin S}
<1>. SUFFICES ASSUME Bad # {} PROVE FALSE
  BY Zenon
<1>1. Bad \subseteq Nat
  OBVIOUS
<1>2. PICK x \in Bad : \A y \in Bad : x <= y
  BY <1>1, LeastNumber, Zenon
<1>3. x \in Nat /\ x > 0
  BY <1>2
<1>4. x - 1 \in Nat /\ x - 1 \notin Bad
  BY <1>1, <1>2, <1>3
<1>5. x - 1 \in S
  BY <1>4
<1>. QED  BY <1>2, <1>3, <1>4, <1>5

\* f follows the numbers given by start and step up to n.
Follows(f, n, start, step) ==
  /\ f[0] = start
  /\ \A i \in 1..n : f[i] = step[i][f[i - 1]]

\* f follows them for ever.
Recursive(f, S, start, step) ==
  /\ f \in [Nat -> S]
  /\ f[0] = start
  /\ \A i \in Nat : i # 0 => f[i] = step[i][f[i - 1]]

\* A number can be given for every i, starting from start and stepping from i - 1 to i.
LEMMA RecursionExists ==
  ASSUME NEW S, NEW start, NEW step, start \in S, step \in [Nat -> [S -> S]]
  PROVE  \E f : Recursive(f, S, start, step)
<1>. DEFINE Good == {n \in Nat : \E f \in [0..n -> S] : Follows(f, n, start, step)}
<1>1. 0 \in Good
  <2>1. [i \in 0..0 |-> start] \in [0..0 -> S] /\ Follows([i \in 0..0 |-> start], 0, start, step)
    BY DEF Follows
  <2>. QED  BY <2>1
<1>2. ASSUME NEW n \in Nat, n \in Good
      PROVE  n + 1 \in Good
  <2>1. PICK f \in [0..n -> S] : Follows(f, n, start, step)
    BY <1>2
  <2>. DEFINE g == [i \in 0..(n + 1) |-> IF i <= n THEN f[i] ELSE step[n + 1][f[n]]]
  <2>2. step[n + 1][f[n]] \in S
    OBVIOUS
  <2>3. g \in [0..(n + 1) -> S]
    BY <2>2
  <2>4. g[0] = start /\ \A i \in 1..(n + 1) : g[i] = step[i][g[i - 1]]
    <3>1. f[0] = start /\ \A i \in 1..n : f[i] = step[i][f[i - 1]]
      BY <2>1, Zenon DEF Follows
    <3>2. \A i \in 0..n : g[i] = f[i]
      OBVIOUS
    <3>3. g[n + 1] = step[n + 1][f[n]]
      OBVIOUS
    <3>. HIDE DEF g
    <3>. QED  BY <3>1, <3>2, <3>3
  <2>. HIDE DEF g
  <2>. QED  BY <2>3, <2>4 DEF Follows
<1>3. \A n \in Nat : n \in Good
  <2>. HIDE DEF Good
  <2>. QED  BY <1>1, <1>2, InductionOver, Zenon
<1>. DEFINE pick == [n \in Nat |-> CHOOSE f \in [0..n -> S] : Follows(f, n, start, step)]
<1>4. ASSUME NEW n \in Nat
      PROVE  pick[n] \in [0..n -> S] /\ Follows(pick[n], n, start, step)
  <2>1. \E f \in [0..n -> S] : Follows(f, n, start, step)
    BY <1>3
  <2>2. pick[n] = CHOOSE f \in [0..n -> S] : Follows(f, n, start, step)
    BY Zenon
  <2>. HIDE DEF pick
  <2>. QED  BY <2>1, <2>2, Zenon
<1>. HIDE DEF pick
<1>5. ASSUME NEW n \in Nat
      PROVE  pick[n + 1][n] = pick[n][n]
  <2>. DEFINE Same == {i \in Nat : i <= n => pick[n + 1][i] = pick[n][i]}
  <2>1. Follows(pick[n], n, start, step) /\ Follows(pick[n + 1], n + 1, start, step)
    BY <1>4
  <2>2. 0 \in Same
    BY <2>1 DEF Follows
  <2>3. ASSUME NEW i \in Nat, i \in Same PROVE i + 1 \in Same
    <3>. SUFFICES ASSUME i + 1 <= n PROVE pick[n + 1][i + 1] = pick[n][i + 1]
      OBVIOUS
    <3>1. i + 1 \in 1..n /\ i + 1 \in 1..(n + 1) /\ (i + 1) - 1 = i
      OBVIOUS
    <3>2. pick[n + 1][i] = pick[n][i]
      BY <2>3
    <3>3. pick[n + 1][i + 1] = step[i + 1][pick[n + 1][i]] /\ pick[n][i + 1] = step[i + 1][pick[n][i]]
      <4>. HIDE DEF Same
      <4>. QED  BY <2>1, <3>1 DEF Follows
    <3>. QED  BY <3>2, <3>3
  <2>4. n \in Same
    <3>. HIDE DEF Same
    <3>. QED  BY <2>2, <2>3, InductionOver, Zenon
  <2>. QED  BY <2>4
<1>. DEFINE f == [n \in Nat |-> pick[n][n]]
<1>6. f \in [Nat -> S]
  BY <1>4
<1>7. f[0] = start
  BY <1>4 DEF Follows
<1>8. ASSUME NEW i \in Nat, i # 0
      PROVE  f[i] = step[i][f[i - 1]]
  <2>1. i - 1 \in Nat /\ (i - 1) + 1 = i
    BY <1>8
  <2>2. pick[i][i - 1] = pick[i - 1][i - 1]
    BY <1>5, <2>1
  <2>3. pick[i][i] = step[i][pick[i][i - 1]]
    BY <1>4, <1>8 DEF Follows
  <2>. QED  BY <2>1, <2>2, <2>3
<1>. HIDE DEF f
<1>. QED  BY <1>6, <1>7, <1>8 DEF Recursive

\* The powers of two.
LEMMA Powers ==
  /\ \A k \in Nat : PowerOfTwo[k] \in Nat /\ PowerOfTwo[k] > 0
  /\ PowerOfTwo[0] = 1
  /\ \A k \in Nat : PowerOfTwo[k + 1] = 2 * PowerOfTwo[k]
<1>. DEFINE Body(f) == [h \in Nat |-> IF h = 0 THEN 1 ELSE 2 * f[h - 1]]
            step == [k \in Nat |-> [x \in Nat |-> 2 * x]]
<1>1. step \in [Nat -> [Nat -> Nat]]
  OBVIOUS
<1>2. PICK f \in [Nat -> Nat] : f[0] = 1 /\ \A i \in Nat : i # 0 => f[i] = step[i][f[i - 1]]
  <2>. HIDE DEF step
  <2>1. 1 \in Nat
    OBVIOUS
  <2>2. \E f : Recursive(f, Nat, 1, step)
    BY <1>1, <2>1, RecursionExists, Zenon
  <2>. QED  BY <2>2, Zenon DEF Recursive
<1>3. f = Body(f)
  <2>1. ASSUME NEW k \in Nat, k # 0 PROVE f[k] = 2 * f[k - 1]
    <3>1. f[k] = step[k][f[k - 1]] /\ f[k - 1] \in Nat
      BY <1>2, <2>1
    <3>2. step[k][f[k - 1]] = 2 * f[k - 1]
      BY <3>1
    <3>. QED  BY <3>1, <3>2, Zenon
  <2>. QED  BY <1>2, <2>1
<1>4. PowerOfTwo = CHOOSE g : g = Body(g)
  BY Zenon DEF PowerOfTwo
<1>5. PowerOfTwo = Body(PowerOfTwo)
  <2>. HIDE DEF Body
  <2>. QED  BY <1>3, <1>4, Zenon
<1>6. \A k \in Nat : PowerOfTwo[k] = IF k = 0 THEN 1 ELSE 2 * PowerOfTwo[k - 1]
  BY <1>5, Zenon
<1>7. PowerOfTwo[0] = 1 /\ \A k \in Nat : PowerOfTwo[k + 1] = 2 * PowerOfTwo[k]
  BY <1>6
<1>. DEFINE S == {k \in Nat : PowerOfTwo[k] \in Nat /\ PowerOfTwo[k] > 0}
<1>8. 0 \in S
  BY <1>7
<1>9. ASSUME NEW k \in Nat, k \in S PROVE k + 1 \in S
  BY <1>7, <1>9
<1>10. \A k \in Nat : k \in S
  <2>. HIDE DEF S
  <2>. QED  BY <1>8, <1>9, InductionOver, Zenon
<1>. QED  BY <1>7, <1>10

\* The nodes of a perfect tree of k levels.
Full(k) == PowerOfTwo[k] - 1

\* A perfect tree has one node more than two trees of a level less.
LEMMA FullTrees ==
  /\ Full(0) = 0 /\ Full(1) = 1
  /\ \A k \in Nat : /\ Full(k) \in Nat /\ PowerOfTwo[k] = Full(k) + 1
                    /\ Full(k + 1) = 2 * Full(k) + 1
<1>1. PowerOfTwo[0 + 1] = 2 * PowerOfTwo[0]
  BY Powers
<1>. QED  BY <1>1, Powers DEF Full

\* Trees grow with their levels, and faster.
LEMMA FullGrows ==
  \A k \in Nat : Full(k) >= k /\ Full(k + 1) > Full(k)
<1>. DEFINE S == {k \in Nat : Full(k) >= k}
<1>1. 0 \in S
  BY FullTrees
<1>2. ASSUME NEW k \in Nat, k \in S PROVE k + 1 \in S
  BY <1>2, FullTrees
<1>3. \A k \in Nat : k \in S
  <2>. HIDE DEF S
  <2>. QED  BY <1>1, <1>2, InductionOver, Zenon
<1>4. ASSUME NEW k \in Nat PROVE Full(k) >= k /\ Full(k + 1) > Full(k)
  <2>1. Full(k) \in Nat /\ Full(k + 1) = 2 * Full(k) + 1
    BY FullTrees
  <2>. QED  BY <1>3, <2>1
<1>. QED  BY <1>4

\* Every number but zero lies between two powers of two.
LEMMA LeadingBit ==
  ASSUME NEW n \in Nat, n # 0
  PROVE  \E k \in Nat : PowerOfTwo[k] <= n /\ n < PowerOfTwo[k + 1]
<1>. DEFINE Above == {j \in Nat : n < PowerOfTwo[j]}
<1>1. n \in Above
  <2>1. Full(n) >= n /\ Full(n) \in Nat /\ PowerOfTwo[n] = Full(n) + 1
    BY FullGrows, FullTrees, Zenon
  <2>. QED  BY <2>1
<1>2. Above \subseteq Nat /\ Above # {}
  BY <1>1
<1>3. PICK j \in Above : \A i \in Above : j <= i
  BY <1>2, LeastNumber, Zenon
<1>4. j # 0
  BY <1>3, Powers
<1>5. j - 1 \in Nat /\ (j - 1) + 1 = j /\ j - 1 \notin Above
  BY <1>3, <1>4
<1>6. PowerOfTwo[j - 1] <= n
  BY <1>5, Powers
<1>. QED  BY <1>3, <1>5, <1>6

\* Strong induction on the levels: the numbers below a power of two, then those up to the
\* next one.
LEMMA BitInduction ==
  ASSUME NEW S, 0 \in S,
         \A k \in Nat : (\A m \in Nat : m < PowerOfTwo[k] => m \in S)
           => \A m \in Nat : m < PowerOfTwo[k] => PowerOfTwo[k] + m \in S
  PROVE  \A n \in Nat : n \in S
<1>. DEFINE T == {k \in Nat : \A m \in Nat : m < PowerOfTwo[k] => m \in S}
<1>1. 0 \in T
  BY Powers
<1>2. ASSUME NEW k \in Nat, k \in T PROVE k + 1 \in T
  <2>. SUFFICES ASSUME NEW m \in Nat, m < PowerOfTwo[k + 1] PROVE m \in S
    OBVIOUS
  <2>1. CASE m < PowerOfTwo[k]
    BY <1>2, <2>1
  <2>2. CASE m >= PowerOfTwo[k]
    <3>1. /\ m - PowerOfTwo[k] \in Nat /\ m - PowerOfTwo[k] < PowerOfTwo[k]
          /\ PowerOfTwo[k] + (m - PowerOfTwo[k]) = m
      BY <2>2, Powers
    <3>2. \A q \in Nat : q < PowerOfTwo[k] => PowerOfTwo[k] + q \in S
      BY <1>2, Zenon
    <3>. QED  BY <3>1, <3>2
  <2>. QED  BY <2>1, <2>2, Powers
<1>3. \A k \in Nat : k \in T
  <2>. HIDE DEF T
  <2>. QED  BY <1>1, <1>2, InductionOver, Zenon
<1>. TAKE n \in Nat
<1>4. n < PowerOfTwo[n]
  <2>1. Full(n) >= n /\ Full(n) \in Nat /\ PowerOfTwo[n] = Full(n) + 1
    BY FullGrows, FullTrees, Zenon
  <2>. QED  BY <2>1
<1>. QED  BY <1>3, <1>4

\* The same for positions: those of a perfect tree, then those of a second one beside it
\* and the parent of both.
LEMMA TreeInduction ==
  ASSUME NEW S,
         \A k \in Nat : (\A q \in Nat : q < Full(k) => q \in S)
           => (\A q \in Nat : q < Full(k) => Full(k) + q \in S) /\ 2 * Full(k) \in S
  PROVE  \A p \in Nat : p \in S
<1>. DEFINE T == {k \in Nat : \A q \in Nat : q < Full(k) => q \in S}
<1>1. 0 \in T
  BY FullTrees
<1>2. ASSUME NEW k \in Nat, k \in T PROVE k + 1 \in T
  <2>. SUFFICES ASSUME NEW p \in Nat, p < Full(k + 1) PROVE p \in S
    OBVIOUS
  <2>1. /\ \A q \in Nat : q < Full(k) => q \in S
        /\ \A q \in Nat : q < Full(k) => Full(k) + q \in S
        /\ 2 * Full(k) \in S
    BY <1>2, Zenon
  <2>2. Full(k) \in Nat /\ Full(k + 1) = 2 * Full(k) + 1
    BY FullTrees
  <2>3. CASE p < Full(k)
    BY <2>1, <2>3
  <2>4. CASE p >= Full(k) /\ p < 2 * Full(k)
    <3>1. p - Full(k) \in Nat /\ p - Full(k) < Full(k) /\ Full(k) + (p - Full(k)) = p
      BY <2>2, <2>4
    <3>. QED  BY <2>1, <3>1
  <2>5. CASE p = 2 * Full(k)
    BY <2>1, <2>5, Zenon
  <2>. QED  BY <2>2, <2>3, <2>4, <2>5
<1>3. \A k \in Nat : k \in T
  <2>. HIDE DEF T
  <2>. QED  BY <1>1, <1>2, InductionOver, Zenon
<1>. TAKE p \in Nat
<1>4. p < Full(p + 1)
  <2>1. p + 1 \in Nat
    OBVIOUS
  <2>2. Full(p) >= p /\ Full(p + 1) > Full(p) /\ Full(p) \in Nat /\ Full(p + 1) \in Nat
    BY <2>1, FullGrows, FullTrees, Zenon
  <2>. QED  BY <2>1, <2>2
<1>. QED  BY <1>3, <1>4

\* The value of f at zero is base, and elsewhere what combine makes of its value at the smaller
\* number that jump gives.
Descends(f, jump, T, base, combine) ==
  /\ f \in [Nat -> T]
  /\ f[0] = base
  /\ \A p \in Nat : p # 0 => f[p] = combine[p][f[jump[p]]]

\* Such a function exists.
LEMMA DescentExists ==
  ASSUME NEW jump, NEW T, NEW base, NEW combine, base \in T, combine \in [Nat -> [T -> T]],
         \A p \in Nat : jump[p] \in Nat /\ (p # 0 => jump[p] < p)
  PROVE  \E f : Descends(f, jump, T, base, combine)
<1>. DEFINE W == [Nat -> T]
            Round(g) == [p \in Nat |-> IF p = 0 THEN base ELSE combine[p][g[jump[p]]]]
            start == [p \in Nat |-> base]
            step == [i \in Nat |-> [g \in W |-> Round(g)]]
<1>1. start \in W
  OBVIOUS
<1>2. ASSUME NEW g \in W PROVE Round(g) \in W
  <2>1. ASSUME NEW p \in Nat PROVE (IF p = 0 THEN base ELSE combine[p][g[jump[p]]]) \in T
    <3>1. jump[p] \in Nat
      OBVIOUS
    <3>. QED  BY <3>1
  <2>. QED  BY <2>1, Zenon
<1>3. step \in [Nat -> [W -> W]]
  <2>. HIDE DEF W, Round
  <2>. QED  BY <1>2, Zenon
<1>4. PICK F : Recursive(F, W, start, step)
  <2>. HIDE DEF W, start, step
  <2>. QED  BY <1>1, <1>3, RecursionExists, Zenon
<1>5. F \in [Nat -> W] /\ F[0] = start /\ \A i \in Nat : F[i + 1] = Round(F[i])
  <2>1. F \in [Nat -> W] /\ F[0] = start
    BY <1>4, Zenon DEF Recursive
  <2>2. ASSUME NEW i \in Nat PROVE F[i + 1] = Round(F[i])
    <3>1. i + 1 \in Nat /\ i + 1 # 0 /\ (i + 1) - 1 = i
      OBVIOUS
    <3>2. F[i + 1] = step[i + 1][F[i]]
      <4>. HIDE DEF W, start, step
      <4>1. F[i + 1] = step[i + 1][F[(i + 1) - 1]]
        BY <1>4, <3>1, Zenon DEF Recursive
      <4>. QED  BY <3>1, <4>1
    <3>3. F[i] \in W
      <4>. HIDE DEF W
      <4>. QED  BY <2>1
    <3>. HIDE DEF W, Round
    <3>. QED  BY <3>1, <3>2, <3>3, Zenon
  <2>. QED  BY <2>1, <2>2
<1>6. ASSUME NEW i \in Nat, NEW p \in Nat
      PROVE  F[i][0] = base /\ (p # 0 => F[i + 1][p] = combine[p][F[i][jump[p]]])
  <2>1. \A g : Round(g)[0] = base /\ (p # 0 => Round(g)[p] = combine[p][g[jump[p]]])
    BY Zenon
  <2>. HIDE DEF Round
  <2>2. F[i + 1] = Round(F[i])
    BY <1>5, Zenon
  <2>3. CASE i = 0
    BY <1>5, <2>1, <2>2, <2>3, Zenon
  <2>4. CASE i # 0
    <3>1. i - 1 \in Nat /\ (i - 1) + 1 = i
      BY <2>4
    <3>2. F[(i - 1) + 1] = Round(F[i - 1])
      BY <1>5, <3>1, Zenon
    <3>3. F[i] = Round(F[i - 1])
      BY <3>1, <3>2
    <3>. QED  BY <2>1, <2>2, <3>3, Zenon
  <2>. QED  BY <2>3, <2>4, Zenon
<1>. DEFINE Same == {i \in Nat : \A p \in Nat : p <= i => F[i + 1][p] = F[i][p]}
<1>7. 0 \in Same
  <2>1. 0 \in Nat /\ 0 + 1 \in Nat
    OBVIOUS
  <2>2. F[0 + 1][0] = base /\ F[0][0] = base
    BY <1>6, <2>1, Zenon
  <2>. QED  BY <2>2
<1>8. ASSUME NEW i \in Nat, i \in Same PROVE i + 1 \in Same
  <2>1. ASSUME NEW p \in Nat, p <= i + 1 PROVE F[(i + 1) + 1][p] = F[i + 1][p]
    <3>1. i + 1 \in Nat /\ (i + 1) + 1 \in Nat
      OBVIOUS
    <3>2. CASE p = 0
      BY <1>6, <3>1, <3>2, Zenon
    <3>3. CASE p # 0
      <4>1. jump[p] \in Nat /\ jump[p] < p
        BY <3>3
      <4>2. jump[p] <= i
        BY <2>1, <4>1
      <4>3. F[i + 1][jump[p]] = F[i][jump[p]]
        BY <1>8, <4>1, <4>2, Zenon
      <4>4. /\ F[(i + 1) + 1][p] = combine[p][F[i + 1][jump[p]]]
            /\ F[i + 1][p] = combine[p][F[i][jump[p]]]
        BY <1>6, <3>1, <3>3, Zenon
      <4>. QED  BY <4>3, <4>4, Zenon
    <3>. QED  BY <3>2, <3>3, Zenon
  <2>. QED  BY <2>1
<1>9. \A i \in Nat : i \in Same
  <2>. HIDE DEF Same
  <2>. QED  BY <1>7, <1>8, InductionOver, Zenon
<1>10. ASSUME NEW p \in Nat, NEW n \in Nat PROVE F[p + n][p] = F[p][p]
  <2>. DEFINE U == {m \in Nat : F[p + m][p] = F[p][p]}
  <2>1. 0 \in U
    OBVIOUS
  <2>2. ASSUME NEW m \in Nat, m \in U PROVE m + 1 \in U
    <3>1. p + m \in Nat /\ p <= p + m /\ (p + m) + 1 = p + (m + 1)
      OBVIOUS
    <3>2. F[(p + m) + 1][p] = F[p + m][p]
      BY <1>9, <3>1, Zenon
    <3>. QED  BY <2>2, <3>1, <3>2
  <2>3. \A m \in Nat : m \in U
    <3>. HIDE DEF U
    <3>. QED  BY <2>1, <2>2, InductionOver, Zenon
  <2>. QED  BY <2>3
<1>. DEFINE f == [p \in Nat |-> F[p][p]]
<1>11. f \in [Nat -> T]
  BY <1>5
<1>12. \A p \in Nat : f[p] = F[p][p]
  OBVIOUS
<1>. HIDE DEF f
<1>13. f[0] = base
  <2>1. 0 \in Nat
    OBVIOUS
  <2>. QED  BY <1>6, <1>12, <2>1, Zenon
<1>14. ASSUME NEW p \in Nat, p # 0
       PROVE  f[p] = combine[p][f[jump[p]]]
  <2>. DEFINE q == jump[p]
  <2>1. q \in Nat /\ q < p
    BY <1>14
  <2>. HIDE DEF q
  <2>2. p - 1 \in Nat /\ (p - 1) + 1 = p /\ (p - 1) - q \in Nat /\ q + ((p - 1) - q) = p - 1
    BY <2>1
  <2>3. F[q + ((p - 1) - q)][q] = F[q][q]
    BY <1>10, <2>1, <2>2, Zenon
  <2>4. F[p - 1][q] = F[q][q]
    BY <2>2, <2>3
  <2>5. F[(p - 1) + 1][p] = combine[p][F[p - 1][q]]
    BY <1>6, <1>14, <2>2, Zenon DEF q
  <2>6. F[p][p] = combine[p][F[p - 1][q]]
    BY <2>2, <2>5
  <2>7. f[p] = F[p][p] /\ f[q] = F[q][q]
    BY <1>12, <2>1, Zenon
  <2>. QED  BY <2>4, <2>6, <2>7, Zenon DEF q
<1>15. Descends(f, jump, T, base, combine)
  BY <1>11, <1>13, <1>14, Zenon DEF Descends
<1>. QED  BY <1>15, Zenon

\* The same where jump gives half of the number.
Halves(f, T, base, combine) ==
  /\ f \in [Nat -> T]
  /\ f[0] = base
  /\ \A p \in Nat : p # 0 => f[p] = combine[p][f[p \div 2]]

\* Half of a number is smaller.
LEMMA Half == \A p \in Nat : p \div 2 \in Nat /\ (p # 0 => p \div 2 < p)
  BY Z3

\* The loops of the code that halve a number until it is zero end.
LEMMA HalvingExists ==
  ASSUME NEW T, NEW base, NEW combine, base \in T, combine \in [Nat -> [T -> T]]
  PROVE  \E f : Halves(f, T, base, combine)
<1>. DEFINE jump == [p \in Nat |-> p \div 2]
<1>1. \A p \in Nat : jump[p] = p \div 2
  OBVIOUS
<1>. HIDE DEF jump
<1>2. \A p \in Nat : jump[p] \in Nat /\ (p # 0 => jump[p] < p)
  BY <1>1, Half, Zenon
<1>3. PICK f : Descends(f, jump, T, base, combine)
  BY <1>2, DescentExists, Zenon
<1>4. Halves(f, T, base, combine)
  BY <1>1, <1>3, Zenon DEF Descends, Halves
<1>. QED  BY <1>4, Zenon

\* FillOnesToRight does what it is defined by.
LEMMA FillUnfolds ==
  /\ FillOnesToRight[0] = 0
  /\ \A x \in Nat : /\ FillOnesToRight[x] \in Nat
                    /\ x # 0 => FillOnesToRight[x] = 2 * FillOnesToRight[x \div 2] + 1
<1>. DEFINE Body(f) == [x \in Nat |-> IF x = 0 THEN 0 ELSE 2 * f[x \div 2] + 1]
            combine == [p \in Nat |-> [v \in Nat |-> 2 * v + 1]]
<1>1. combine \in [Nat -> [Nat -> Nat]] /\ 0 \in Nat
  OBVIOUS
<1>2. PICK f : Halves(f, Nat, 0, combine)
  <2>. HIDE DEF combine
  <2>. QED  BY <1>1, HalvingExists, Zenon
<1>3. ASSUME NEW x \in Nat, x # 0 PROVE f[x] = 2 * f[x \div 2] + 1
  <2>1. f[x] = combine[x][f[x \div 2]] /\ f \in [Nat -> Nat]
    <3>. HIDE DEF combine
    <3>. QED  BY <1>2, <1>3, Zenon DEF Halves
  <2>2. f[x \div 2] \in Nat
    BY <2>1, Half
  <2>. QED  BY <2>1, <2>2
<1>4. f = Body(f)
  <2>1. f \in [Nat -> Nat] /\ f[0] = 0
    BY <1>2, Zenon DEF Halves
  <2>. QED  BY <1>3, <2>1, Zenon
<1>5. FillOnesToRight = CHOOSE g : g = Body(g)
  BY Zenon DEF FillOnesToRight
<1>6. FillOnesToRight = Body(FillOnesToRight)
  <2>. HIDE DEF Body
  <2>. QED  BY <1>4, <1>5, Zenon
<1>7. /\ FillOnesToRight[0] = 0
      /\ \A x \in Nat : x # 0 => FillOnesToRight[x] = 2 * FillOnesToRight[x \div 2] + 1
  <2>1. \A x \in Nat : FillOnesToRight[x] = IF x = 0 THEN 0 ELSE 2 * FillOnesToRight[x \div 2] + 1
    BY <1>6, Zenon
  <2>. QED  BY <2>1
<1>8. \A x \in Nat : FillOnesToRight[x] \in Nat
  <2>. DEFINE S == {x \in Nat : \A y \in Nat : y <= x => FillOnesToRight[y] \in Nat}
  <2>1. 0 \in S
    BY <1>7
  <2>2. ASSUME NEW x \in Nat, x \in S PROVE x + 1 \in S
    <3>1. (x + 1) \div 2 \in Nat /\ (x + 1) \div 2 <= x /\ x + 1 # 0 /\ x + 1 \in Nat
      BY Half
    <3>2. FillOnesToRight[(x + 1) \div 2] \in Nat
      BY <2>2, <3>1, Zenon
    <3>3. FillOnesToRight[x + 1] = 2 * FillOnesToRight[(x + 1) \div 2] + 1
      BY <1>7, <3>1, Zenon
    <3>4. FillOnesToRight[x + 1] \in Nat
      BY <3>2, <3>3
    <3>. QED  BY <2>2, <3>4
  <2>3. \A x \in Nat : x \in S
    <3>. HIDE DEF S
    <3>. QED  BY <2>1, <2>2, InductionOver, Zenon
  <2>. QED  BY <2>3
<1>. QED  BY <1>7, <1>8, Zenon

-----------------------------------------------------------------------------
(* The recursive functions of the model do what they are defined by. *)

\* CountBitsSet does what it is defined by.
LEMMA CountUnfolds ==
  \A p \in Nat : /\ CountBitsSet[p] \in Nat
                 /\ CountBitsSet[p] = IF p = 0 THEN 0 ELSE (p % 2) + CountBitsSet[p \div 2]
<1>. DEFINE T == Nat
            Val(p, g) == IF p = 0 THEN 0 ELSE (p % 2) + g
            Body(f) == [n \in Nat |-> IF n = 0 THEN 0 ELSE (n % 2) + f[n \div 2]]
            combine == [p \in Nat |-> [g \in T |-> Val(p, g)]]
            base == Val(0, 0)
<1>1. ASSUME NEW p \in Nat, NEW g \in T PROVE Val(p, g) \in T
  OBVIOUS
<1>2. 0 \in T
  OBVIOUS
<1>3. ASSUME NEW g, NEW h PROVE Val(0, g) = Val(0, h)
  OBVIOUS
<1>4. \A f : Body(f) = [p \in Nat |-> Val(p, f[p \div 2])]
  BY Zenon
<1>5. CountBitsSet = CHOOSE g : g = Body(g)
  BY Zenon DEF CountBitsSet
<1>. HIDE DEF Val, T, Body
<1>6. combine \in [Nat -> [T -> T]] /\ base \in T
  BY <1>1, <1>2, Zenon
<1>7. PICK f : Halves(f, T, base, combine)
  <2>. HIDE DEF combine, base
  <2>. QED  BY <1>6, HalvingExists, Zenon
<1>8. \A p \in Nat : f[p] = Val(p, f[p \div 2])
  <2>. TAKE p \in Nat
  <2>1. f \in [Nat -> T] /\ f[0] = base /\ (p # 0 => f[p] = combine[p][f[p \div 2]])
    <3>. HIDE DEF combine, base
    <3>. QED  BY <1>7, Zenon DEF Halves
  <2>2. f[p \div 2] \in T
    BY <2>1, Half
  <2>3. combine[p][f[p \div 2]] = Val(p, f[p \div 2])
    BY <2>2, Zenon
  <2>. QED  BY <1>3, <2>1, <2>3, Zenon
<1>9. f = Body(f)
  <2>1. f \in [Nat -> T]
    BY <1>7, Zenon DEF Halves
  <2>. QED  BY <1>4, <1>8, <2>1, Zenon
<1>10. CountBitsSet = Body(CountBitsSet)
  BY <1>5, <1>9, Zenon
<1>11. \A p \in Nat : CountBitsSet[p] = Val(p, CountBitsSet[p \div 2])
  BY <1>4, <1>10, Zenon
<1>. DEFINE S == {x \in Nat : \A y \in Nat : y <= x => CountBitsSet[y] \in T}
<1>12. 0 \in S
  <2>1. 0 \in Nat
    OBVIOUS
  <2>2. CountBitsSet[0] = Val(0, CountBitsSet[0 \div 2]) /\ base \in T
    BY <1>6, <1>11, <2>1, Zenon
  <2>3. CountBitsSet[0] \in T
    BY <1>3, <2>2, Zenon
  <2>. QED  BY <2>3
<1>13. ASSUME NEW x \in Nat, x \in S PROVE x + 1 \in S
  <2>1. (x + 1) \div 2 \in Nat /\ (x + 1) \div 2 <= x /\ x + 1 \in Nat
    BY Half
  <2>2. CountBitsSet[(x + 1) \div 2] \in T
    BY <1>13, <2>1, Zenon
  <2>3. CountBitsSet[x + 1] \in T
    BY <1>1, <1>11, <2>1, <2>2, Zenon
  <2>. QED  BY <1>13, <2>3
<1>14. \A x \in Nat : x \in S
  <2>. HIDE DEF S
  <2>. QED  BY <1>12, <1>13, InductionOver, Zenon
<1>15. \A p \in Nat : CountBitsSet[p] \in T
  BY <1>14
<1>. QED  BY <1>11, <1>15, Zenon DEF Val, T

\* Log2 does what it is defined by.
LEMMA LogUnfolds ==
  \A p \in Nat : /\ Log2[p] \in Nat
                 /\ Log2[p] = IF p < 2 THEN 0 ELSE 1 + Log2[p \div 2]
<1>. DEFINE T == Nat
            Val(p, g) == IF p < 2 THEN 0 ELSE 1 + g
            Body(f) == [n \in Nat |-> IF n < 2 THEN 0 ELSE 1 + f[n \div 2]]
            combine == [p \in Nat |-> [g \in T |-> Val(p, g)]]
            base == Val(0, 0)
<1>1. ASSUME NEW p \in Nat, NEW g \in T PROVE Val(p, g) \in T
  OBVIOUS
<1>2. 0 \in T
  OBVIOUS
<1>3. ASSUME NEW g, NEW h PROVE Val(0, g) = Val(0, h)
  OBVIOUS
<1>4. \A f : Body(f) = [p \in Nat |-> Val(p, f[p \div 2])]
  BY Zenon
<1>5. Log2 = CHOOSE g : g = Body(g)
  BY Zenon DEF Log2
<1>. HIDE DEF Val, T, Body
<1>6. combine \in [Nat -> [T -> T]] /\ base \in T
  BY <1>1, <1>2, Zenon
<1>7. PICK f : Halves(f, T, base, combine)
  <2>. HIDE DEF combine, base
  <2>. QED  BY <1>6, HalvingExists, Zenon
<1>8. \A p \in Nat : f[p] = Val(p, f[p \div 2])
  <2>. TAKE p \in Nat
  <2>1. f \in [Nat -> T] /\ f[0] = base /\ (p # 0 => f[p] = combine[p][f[p \div 2]])
    <3>. HIDE DEF combine, base
    <3>. QED  BY <1>7, Zenon DEF Halves
  <2>2. f[p \div 2] \in T
    BY <2>1, Half
  <2>3. combine[p][f[p \div 2]] = Val(p, f[p \div 2])
    BY <2>2, Zenon
  <2>. QED  BY <1>3, <2>1, <2>3, Zenon
<1>9. f = Body(f)
  <2>1. f \in [Nat -> T]
    BY <1>7, Zenon DEF Halves
  <2>. QED  BY <1>4, <1>8, <2>1, Zenon
<1>10. Log2 = Body(Log2)
  BY <1>5, <1>9, Zenon
<1>11. \A p \in Nat : Log2[p] = Val(p, Log2[p \div 2])
  BY <1>4, <1>10, Zenon
<1>. DEFINE S == {x \in Nat : \A y \in Nat : y <= x => Log2[y] \in T}
<1>12. 0 \in S
  <2>1. 0 \in Nat
    OBVIOUS
  <2>2. Log2[0] = Val(0, Log2[0 \div 2]) /\ base \in T
    BY <1>6, <1>11, <2>1, Zenon
  <2>3. Log2[0] \in T
    BY <1>3, <2>2, Zenon
  <2>. QED  BY <2>3
<1>13. ASSUME NEW x \in Nat, x \in S PROVE x + 1 \in S
  <2>1. (x + 1) \div 2 \in Nat /\ (x + 1) \div 2 <= x /\ x + 1 \in Nat
    BY Half
  <2>2. Log2[(x + 1) \div 2] \in T
    BY <1>13, <2>1, Zenon
  <2>3. Log2[x + 1] \in T
    BY <1>1, <1>11, <2>1, <2>2, Zenon
  <2>. QED  BY <1>13, <2>3
<1>14. \A x \in Nat : x \in S
  <2>. HIDE DEF S
  <2>. QED  BY <1>12, <1>13, InductionOver, Zenon
<1>15. \A p \in Nat : Log2[p] \in T
  BY <1>14
<1>. QED  BY <1>11, <1>15, Zenon DEF Val, T

\* The loop of Index::CalculateHeight does what it is defined by.
LEMMA HeightUnfolds ==
  \A p \in Nat : /\ HeightLoop[p] \in [Nat -> Nat]
                 /\ HeightLoop[p] = [height \in Nat |->
                     IF p = 0 THEN height
                     ELSE HeightLoop[p \div 2][IF height >= p THEN height - p ELSE height]]
<1>. DEFINE T == [Nat -> Nat]
            Val(p, g) == [height \in Nat |->
              IF p = 0 THEN height ELSE g[IF height >= p THEN height - p ELSE height]]
            Body(f) == [peakSize \in Nat |-> [height \in Nat |->
              IF peakSize = 0 THEN height
              ELSE f[peakSize \div 2][IF height >= peakSize THEN height - peakSize ELSE height]]]
            combine == [p \in Nat |-> [g \in T |-> Val(p, g)]]
            base == Val(0, [height \in Nat |-> 0])
<1>1. ASSUME NEW p \in Nat, NEW g \in T PROVE Val(p, g) \in T
  OBVIOUS
<1>2. [height \in Nat |-> 0] \in T
  OBVIOUS
<1>3. ASSUME NEW g, NEW h PROVE Val(0, g) = Val(0, h)
  BY Zenon
<1>4. \A f : Body(f) = [p \in Nat |-> Val(p, f[p \div 2])]
  BY Zenon
<1>5. HeightLoop = CHOOSE g : g = Body(g)
  BY Zenon DEF HeightLoop
<1>. HIDE DEF Val, T, Body
<1>6. combine \in [Nat -> [T -> T]] /\ base \in T
  BY <1>1, <1>2, Zenon
<1>7. PICK f : Halves(f, T, base, combine)
  <2>. HIDE DEF combine, base
  <2>. QED  BY <1>6, HalvingExists, Zenon
<1>8. \A p \in Nat : f[p] = Val(p, f[p \div 2])
  <2>. TAKE p \in Nat
  <2>1. f \in [Nat -> T] /\ f[0] = base /\ (p # 0 => f[p] = combine[p][f[p \div 2]])
    <3>. HIDE DEF combine, base
    <3>. QED  BY <1>7, Zenon DEF Halves
  <2>2. f[p \div 2] \in T
    BY <2>1, Half
  <2>3. combine[p][f[p \div 2]] = Val(p, f[p \div 2])
    BY <2>2, Zenon
  <2>. QED  BY <1>3, <2>1, <2>3, Zenon
<1>9. f = Body(f)
  <2>1. f \in [Nat -> T]
    BY <1>7, Zenon DEF Halves
  <2>. QED  BY <1>4, <1>8, <2>1, Zenon
<1>10. HeightLoop = Body(HeightLoop)
  BY <1>5, <1>9, Zenon
<1>11. \A p \in Nat : HeightLoop[p] = Val(p, HeightLoop[p \div 2])
  BY <1>4, <1>10, Zenon
<1>. DEFINE S == {x \in Nat : \A y \in Nat : y <= x => HeightLoop[y] \in T}
<1>12. 0 \in S
  <2>1. 0 \in Nat
    OBVIOUS
  <2>2. HeightLoop[0] = Val(0, HeightLoop[0 \div 2]) /\ base \in T
    BY <1>6, <1>11, <2>1, Zenon
  <2>3. HeightLoop[0] \in T
    BY <1>3, <2>2, Zenon
  <2>. QED  BY <2>3
<1>13. ASSUME NEW x \in Nat, x \in S PROVE x + 1 \in S
  <2>1. (x + 1) \div 2 \in Nat /\ (x + 1) \div 2 <= x /\ x + 1 \in Nat
    BY Half
  <2>2. HeightLoop[(x + 1) \div 2] \in T
    BY <1>13, <2>1, Zenon
  <2>3. HeightLoop[x + 1] \in T
    BY <1>1, <1>11, <2>1, <2>2, Zenon
  <2>. QED  BY <1>13, <2>3
<1>14. \A x \in Nat : x \in S
  <2>. HIDE DEF S
  <2>. QED  BY <1>12, <1>13, InductionOver, Zenon
<1>15. \A p \in Nat : HeightLoop[p] \in T
  BY <1>14
<1>. QED  BY <1>11, <1>15, Zenon DEF Val, T

\* The loop of Index::CalculateLeafIndex does what it is defined by.
LEMMA LeafUnfolds ==
  \A p \in Nat : /\ LeafLoop[p] \in [Nat -> Nat]
                 /\ LeafLoop[p] = [numLeft \in Nat |->
                     IF p = 0 THEN 0
                     ELSE IF numLeft >= p THEN (p + 1) \div 2 + LeafLoop[p \div 2][numLeft - p]
                     ELSE LeafLoop[p \div 2][numLeft]]
<1>. DEFINE T == [Nat -> Nat]
            Val(p, g) == [numLeft \in Nat |->
              IF p = 0 THEN 0
              ELSE IF numLeft >= p THEN (p + 1) \div 2 + g[numLeft - p]
              ELSE g[numLeft]]
            Body(f) == [peakSize \in Nat |-> [numLeft \in Nat |->
              IF peakSize = 0 THEN 0
              ELSE IF numLeft >= peakSize
              THEN (peakSize + 1) \div 2 + f[peakSize \div 2][numLeft - peakSize]
              ELSE f[peakSize \div 2][numLeft]]]
            combine == [p \in Nat |-> [g \in T |-> Val(p, g)]]
            base == Val(0, [numLeft \in Nat |-> 0])
<1>1. ASSUME NEW p \in Nat, NEW g \in T PROVE Val(p, g) \in T
  OBVIOUS
<1>2. [numLeft \in Nat |-> 0] \in T
  OBVIOUS
<1>3. ASSUME NEW g, NEW h PROVE Val(0, g) = Val(0, h)
  BY Zenon
<1>4. \A f : Body(f) = [p \in Nat |-> Val(p, f[p \div 2])]
  BY Zenon
<1>5. LeafLoop = CHOOSE g : g = Body(g)
  BY Zenon DEF LeafLoop
<1>. HIDE DEF Val, T, Body
<1>6. combine \in [Nat -> [T -> T]] /\ base \in T
  BY <1>1, <1>2, Zenon
<1>7. PICK f : Halves(f, T, base, combine)
  <2>. HIDE DEF combine, base
  <2>. QED  BY <1>6, HalvingExists, Zenon
<1>8. \A p \in Nat : f[p] = Val(p, f[p \div 2])
  <2>. TAKE p \in Nat
  <2>1. f \in [Nat -> T] /\ f[0] = base /\ (p # 0 => f[p] = combine[p][f[p \div 2]])
    <3>. HIDE DEF combine, base
    <3>. QED  BY <1>7, Zenon DEF Halves
  <2>2. f[p \div 2] \in T
    BY <2>1, Half
  <2>3. combine[p][f[p \div 2]] = Val(p, f[p \div 2])
    BY <2>2, Zenon
  <2>. QED  BY <1>3, <2>1, <2>3, Zenon
<1>9. f = Body(f)
  <2>1. f \in [Nat -> T]
    BY <1>7, Zenon DEF Halves
  <2>. QED  BY <1>4, <1>8, <2>1, Zenon
<1>10. LeafLoop = Body(LeafLoop)
  BY <1>5, <1>9, Zenon
<1>11. \A p \in Nat : LeafLoop[p] = Val(p, LeafLoop[p \div 2])
  BY <1>4, <1>10, Zenon
<1>. DEFINE S == {x \in Nat : \A y \in Nat : y <= x => LeafLoop[y] \in T}
<1>12. 0 \in S
  <2>1. 0 \in Nat
    OBVIOUS
  <2>2. LeafLoop[0] = Val(0, LeafLoop[0 \div 2]) /\ base \in T
    BY <1>6, <1>11, <2>1, Zenon
  <2>3. LeafLoop[0] \in T
    BY <1>3, <2>2, Zenon
  <2>. QED  BY <2>3
<1>13. ASSUME NEW x \in Nat, x \in S PROVE x + 1 \in S
  <2>1. (x + 1) \div 2 \in Nat /\ (x + 1) \div 2 <= x /\ x + 1 \in Nat
    BY Half
  <2>2. LeafLoop[(x + 1) \div 2] \in T
    BY <1>13, <2>1, Zenon
  <2>3. LeafLoop[x + 1] \in T
    BY <1>1, <1>11, <2>1, <2>2, Zenon
  <2>. QED  BY <1>13, <2>3
<1>14. \A x \in Nat : x \in S
  <2>. HIDE DEF S
  <2>. QED  BY <1>12, <1>13, InductionOver, Zenon
<1>15. \A p \in Nat : LeafLoop[p] \in T
  BY <1>14
<1>. QED  BY <1>11, <1>15, Zenon DEF Val, T

\* The loop of MMR::Root over the peaks does what it is defined by.
LEMMA PeakUnfolds ==
  \A p \in Nat : /\ PeakLoop[p] \in [Nat -> [Nat -> Seq(Nat)]]
                 /\ PeakLoop[p] = [numLeft \in Nat |-> [sumPrevPeaks \in Nat |->
                     IF p = 0 THEN <<>>
                     ELSE IF numLeft >= p
                       THEN <<sumPrevPeaks + p - 1>>
                              \o PeakLoop[p \div 2][numLeft - p][sumPrevPeaks + p]
                     ELSE PeakLoop[p \div 2][numLeft][sumPrevPeaks]]]
<1>. DEFINE T == [Nat -> [Nat -> Seq(Nat)]]
            Val(p, g) == [numLeft \in Nat |-> [sumPrevPeaks \in Nat |->
              IF p = 0 THEN <<>>
              ELSE IF numLeft >= p THEN <<sumPrevPeaks + p - 1>> \o g[numLeft - p][sumPrevPeaks + p]
              ELSE g[numLeft][sumPrevPeaks]]]
            Body(f) == [peakSize \in Nat |-> [numLeft \in Nat |-> [sumPrevPeaks \in Nat |->
              IF peakSize = 0 THEN <<>>
              ELSE IF numLeft >= peakSize
              THEN <<sumPrevPeaks + peakSize - 1>>
              \o f[peakSize \div 2][numLeft - peakSize][sumPrevPeaks + peakSize]
              ELSE f[peakSize \div 2][numLeft][sumPrevPeaks]]]]
            combine == [p \in Nat |-> [g \in T |-> Val(p, g)]]
            base == Val(0, [numLeft \in Nat |-> [sumPrevPeaks \in Nat |-> <<>>]])
<1>1. ASSUME NEW p \in Nat, NEW g \in T PROVE Val(p, g) \in T
  OBVIOUS
<1>2. [numLeft \in Nat |-> [sumPrevPeaks \in Nat |-> <<>>]] \in T
  OBVIOUS
<1>3. ASSUME NEW g, NEW h PROVE Val(0, g) = Val(0, h)
  BY Zenon
<1>4. \A f : Body(f) = [p \in Nat |-> Val(p, f[p \div 2])]
  BY Zenon
<1>5. PeakLoop = CHOOSE g : g = Body(g)
  BY Zenon DEF PeakLoop
<1>. HIDE DEF Val, T, Body
<1>6. combine \in [Nat -> [T -> T]] /\ base \in T
  BY <1>1, <1>2, Zenon
<1>7. PICK f : Halves(f, T, base, combine)
  <2>. HIDE DEF combine, base
  <2>. QED  BY <1>6, HalvingExists, Zenon
<1>8. \A p \in Nat : f[p] = Val(p, f[p \div 2])
  <2>. TAKE p \in Nat
  <2>1. f \in [Nat -> T] /\ f[0] = base /\ (p # 0 => f[p] = combine[p][f[p \div 2]])
    <3>. HIDE DEF combine, base
    <3>. QED  BY <1>7, Zenon DEF Halves
  <2>2. f[p \div 2] \in T
    BY <2>1, Half
  <2>3. combine[p][f[p \div 2]] = Val(p, f[p \div 2])
    BY <2>2, Zenon
  <2>. QED  BY <1>3, <2>1, <2>3, Zenon
<1>9. f = Body(f)
  <2>1. f \in [Nat -> T]
    BY <1>7, Zenon DEF Halves
  <2>. QED  BY <1>4, <1>8, <2>1, Zenon
<1>10. PeakLoop = Body(PeakLoop)
  BY <1>5, <1>9, Zenon
<1>11. \A p \in Nat : PeakLoop[p] = Val(p, PeakLoop[p \div 2])
  BY <1>4, <1>10, Zenon
<1>. DEFINE S == {x \in Nat : \A y \in Nat : y <= x => PeakLoop[y] \in T}
<1>12. 0 \in S
  <2>1. 0 \in Nat
    OBVIOUS
  <2>2. PeakLoop[0] = Val(0, PeakLoop[0 \div 2]) /\ base \in T
    BY <1>6, <1>11, <2>1, Zenon
  <2>3. PeakLoop[0] \in T
    BY <1>3, <2>2, Zenon
  <2>. QED  BY <2>3
<1>13. ASSUME NEW x \in Nat, x \in S PROVE x + 1 \in S
  <2>1. (x + 1) \div 2 \in Nat /\ (x + 1) \div 2 <= x /\ x + 1 \in Nat
    BY Half
  <2>2. PeakLoop[(x + 1) \div 2] \in T
    BY <1>13, <2>1, Zenon
  <2>3. PeakLoop[x + 1] \in T
    BY <1>1, <1>11, <2>1, <2>2, Zenon
  <2>. QED  BY <1>13, <2>3
<1>14. \A x \in Nat : x \in S
  <2>. HIDE DEF S
  <2>. QED  BY <1>12, <1>13, InductionOver, Zenon
<1>15. \A p \in Nat : PeakLoop[p] \in T
  BY <1>14
<1>. QED  BY <1>11, <1>15, Zenon DEF Val, T

-----------------------------------------------------------------------------
(* The loops of the code over perfect trees. *)

\* FillOnesToRight gives the nodes of the smallest perfect tree with at least x nodes.
LEMMA FillIs ==
  \A k \in Nat : \A x \in Nat :
    PowerOfTwo[k] <= x /\ x < PowerOfTwo[k + 1] => FillOnesToRight[x] = Full(k + 1)
<1>. DEFINE S == {k \in Nat : \A x \in Nat :
                    PowerOfTwo[k] <= x /\ x < PowerOfTwo[k + 1] => FillOnesToRight[x] = Full(k + 1)}
<1>1. 0 \in S
  <2>1. ASSUME NEW x \in Nat, PowerOfTwo[0] <= x, x < PowerOfTwo[0 + 1]
        PROVE  FillOnesToRight[x] = Full(0 + 1)
    <3>1. PowerOfTwo[0] = 1 /\ PowerOfTwo[0 + 1] = 2 * PowerOfTwo[0] /\ 0 + 1 = 1
      BY Powers
    <3>2. x = 1
      BY <2>1, <3>1
    <3>3. FillOnesToRight[1] = 2 * FillOnesToRight[1 \div 2] + 1 /\ 1 \div 2 = 0
      BY FillUnfolds
    <3>4. FillOnesToRight[1] = 1
      BY <3>3, FillUnfolds
    <3>. QED  BY <3>1, <3>2, <3>4, FullTrees
  <2>. QED  BY <2>1
<1>2. ASSUME NEW k \in Nat, k \in S PROVE k + 1 \in S
  <2>1. ASSUME NEW x \in Nat, PowerOfTwo[k + 1] <= x, x < PowerOfTwo[(k + 1) + 1]
        PROVE  FillOnesToRight[x] = Full((k + 1) + 1)
    <3>. DEFINE a == PowerOfTwo[k]
                b == PowerOfTwo[k + 1]
    <3>1. a \in Nat /\ a > 0 /\ b = 2 * a /\ PowerOfTwo[(k + 1) + 1] = 2 * b /\ k + 1 \in Nat
      BY Powers
    <3>2. b <= x /\ x < 2 * b
      BY <2>1, <3>1
    <3>. HIDE DEF a, b
    <3>3. x \div 2 \in Nat /\ a <= x \div 2 /\ x \div 2 < b /\ x # 0
      BY <3>1, <3>2, Z3
    <3>4. FillOnesToRight[x \div 2] = Full(k + 1)
      BY <1>2, <3>3 DEF a, b
    <3>5. FillOnesToRight[x] = 2 * Full(k + 1) + 1
      BY <3>3, <3>4, FillUnfolds
    <3>6. Full((k + 1) + 1) = 2 * Full(k + 1) + 1
      BY <3>1, FullTrees, Zenon
    <3>. QED  BY <3>5, <3>6
  <2>2. k + 1 \in Nat
    OBVIOUS
  <2>. QED  BY <2>1, <2>2
<1>3. \A k \in Nat : k \in S
  <2>. HIDE DEF S
  <2>. QED  BY <1>1, <1>2, InductionOver, Zenon
<1>. QED  BY <1>3

\* Halving the size of a perfect tree gives that of its halves.
LEMMA FullHalf ==
  ASSUME NEW k \in Nat
  PROVE  /\ Full(k + 1) \in Nat /\ Full(k + 1) # 0 /\ Full(k + 1) \div 2 = Full(k)
         /\ (Full(k + 1) + 1) \div 2 = PowerOfTwo[k]
<1>. DEFINE a == Full(k)
            b == Full(k + 1)
<1>1. a \in Nat /\ b = 2 * a + 1 /\ PowerOfTwo[k] = a + 1
  BY FullTrees
<1>. HIDE DEF a, b
<1>2. b \in Nat /\ b # 0 /\ b \div 2 = a /\ (b + 1) \div 2 = a + 1
  BY <1>1, Z3
<1>. QED  BY <1>1, <1>2 DEF a, b

\* A round of the loop of CalculateHeight.
LEMMA HeightRound ==
  /\ \A x \in Nat : HeightLoop[Full(0)][x] = x
  /\ \A k \in Nat : \A x \in Nat :
       /\ HeightLoop[Full(k)][x] \in Nat
       /\ HeightLoop[Full(k + 1)][x] =
            IF x >= Full(k + 1) THEN HeightLoop[Full(k)][x - Full(k + 1)] ELSE HeightLoop[Full(k)][x]
<1>1. ASSUME NEW x \in Nat PROVE HeightLoop[Full(0)][x] = x
  <2>1. HeightLoop[0] = [height \in Nat |-> IF 0 = 0 THEN height
          ELSE HeightLoop[0 \div 2][IF height >= 0 THEN height - 0 ELSE height]]
    BY HeightUnfolds
  <2>2. HeightLoop[0][x] = x
    BY <2>1, Zenon
  <2>. QED  BY <2>2, FullTrees
<1>2. ASSUME NEW k \in Nat, NEW x \in Nat
      PROVE  /\ HeightLoop[Full(k)][x] \in Nat
             /\ HeightLoop[Full(k + 1)][x] =
                  IF x >= Full(k + 1) THEN HeightLoop[Full(k)][x - Full(k + 1)] ELSE HeightLoop[Full(k)][x]
  <2>. DEFINE a == Full(k)
              b == Full(k + 1)
  <2>1. a \in Nat /\ b \in Nat /\ b # 0 /\ b \div 2 = a
    BY FullHalf, FullTrees, Zenon
  <2>. HIDE DEF a, b
  <2>2. HeightLoop[b] = [height \in Nat |-> IF b = 0 THEN height
          ELSE HeightLoop[b \div 2][IF height >= b THEN height - b ELSE height]]
    BY <2>1, HeightUnfolds, Zenon
  <2>3. HeightLoop[b][x] = HeightLoop[a][IF x >= b THEN x - b ELSE x]
    BY <2>1, <2>2, Zenon
  <2>4. HeightLoop[a] \in [Nat -> Nat]
    BY <2>1, HeightUnfolds, Zenon
  <2>. QED  BY <2>3, <2>4 DEF a, b
<1>. QED  BY <1>1, <1>2, Zenon

\* A round of the loop of CalculateLeafIndex.
LEMMA LeafRound ==
  /\ \A x \in Nat : LeafLoop[Full(0)][x] = 0
  /\ \A k \in Nat : \A x \in Nat :
       /\ LeafLoop[Full(k)][x] \in Nat
       /\ LeafLoop[Full(k + 1)][x] =
            IF x >= Full(k + 1) THEN PowerOfTwo[k] + LeafLoop[Full(k)][x - Full(k + 1)]
            ELSE LeafLoop[Full(k)][x]
<1>1. ASSUME NEW x \in Nat PROVE LeafLoop[Full(0)][x] = 0
  <2>1. LeafLoop[0] = [numLeft \in Nat |-> IF 0 = 0 THEN 0
          ELSE IF numLeft >= 0 THEN (0 + 1) \div 2 + LeafLoop[0 \div 2][numLeft - 0]
          ELSE LeafLoop[0 \div 2][numLeft]]
    BY LeafUnfolds
  <2>2. LeafLoop[0][x] = 0
    BY <2>1, Zenon
  <2>. QED  BY <2>2, FullTrees
<1>2. ASSUME NEW k \in Nat, NEW x \in Nat
      PROVE  /\ LeafLoop[Full(k)][x] \in Nat
             /\ LeafLoop[Full(k + 1)][x] =
                  IF x >= Full(k + 1) THEN PowerOfTwo[k] + LeafLoop[Full(k)][x - Full(k + 1)]
                  ELSE LeafLoop[Full(k)][x]
  <2>. DEFINE a == Full(k)
              b == Full(k + 1)
  <2>1. a \in Nat /\ b \in Nat /\ b # 0 /\ b \div 2 = a /\ (b + 1) \div 2 = PowerOfTwo[k]
    BY FullHalf, FullTrees, Zenon
  <2>. HIDE DEF a, b
  <2>2. LeafLoop[b] = [numLeft \in Nat |-> IF b = 0 THEN 0
          ELSE IF numLeft >= b THEN (b + 1) \div 2 + LeafLoop[b \div 2][numLeft - b]
          ELSE LeafLoop[b \div 2][numLeft]]
    BY <2>1, LeafUnfolds, Zenon
  <2>3. LeafLoop[b][x] = IF x >= b THEN PowerOfTwo[k] + LeafLoop[a][x - b] ELSE LeafLoop[a][x]
    BY <2>1, <2>2, Zenon
  <2>4. LeafLoop[a] \in [Nat -> Nat]
    BY <2>1, LeafUnfolds, Zenon
  <2>. QED  BY <2>3, <2>4 DEF a, b
<1>. QED  BY <1>1, <1>2, Zenon

\* The loop of MMR::Root that finds the peaks: its end, and what it gives.
LEMMA PeakEnd ==
  /\ \A x, s \in Nat : PeakLoop[Full(0)][x][s] = <<>>
  /\ \A k, x, s \in Nat : PeakLoop[Full(k)][x][s] \in Seq(Nat)
<1>1. ASSUME NEW x \in Nat, NEW s \in Nat PROVE PeakLoop[Full(0)][x][s] = <<>>
  <2>1. PeakLoop[0] = [numLeft \in Nat |-> [sumPrevPeaks \in Nat |-> IF 0 = 0 THEN <<>>
          ELSE IF numLeft >= 0 THEN <<sumPrevPeaks + 0 - 1>> \o PeakLoop[0 \div 2][numLeft - 0][sumPrevPeaks + 0]
          ELSE PeakLoop[0 \div 2][numLeft][sumPrevPeaks]]]
    BY PeakUnfolds
  <2>2. PeakLoop[0][x] = [sumPrevPeaks \in Nat |-> IF 0 = 0 THEN <<>>
          ELSE IF x >= 0 THEN <<sumPrevPeaks + 0 - 1>> \o PeakLoop[0 \div 2][x - 0][sumPrevPeaks + 0]
          ELSE PeakLoop[0 \div 2][x][sumPrevPeaks]]
    BY <2>1, Zenon
  <2>3. PeakLoop[0][x][s] = <<>>
    BY <2>2, Zenon
  <2>. QED  BY <2>3, FullTrees
<1>2. ASSUME NEW k \in Nat, NEW x \in Nat, NEW s \in Nat PROVE PeakLoop[Full(k)][x][s] \in Seq(Nat)
  <2>. DEFINE a == Full(k)
  <2>1. a \in Nat
    BY FullTrees, Zenon
  <2>. HIDE DEF a
  <2>2. PeakLoop[a] \in [Nat -> [Nat -> Seq(Nat)]]
    BY <2>1, PeakUnfolds, Zenon
  <2>3. PeakLoop[a][x][s] \in Seq(Nat)
    BY <2>2
  <2>. QED  BY <2>3, Zenon DEF a
<1>. QED  BY <1>1, <1>2, Zenon

\* A round of this loop.
LEMMA PeakRound ==
  ASSUME NEW k \in Nat, NEW x \in Nat, NEW s \in Nat
  PROVE  /\ x >= Full(k + 1) =>
              PeakLoop[Full(k + 1)][x][s] =
                <<s + Full(k + 1) - 1>> \o PeakLoop[Full(k)][x - Full(k + 1)][s + Full(k + 1)]
         /\ ~(x >= Full(k + 1)) => PeakLoop[Full(k + 1)][x][s] = PeakLoop[Full(k)][x][s]
<1>. DEFINE a == Full(k)
            b == Full(k + 1)
<1>1. a \in Nat /\ b \in Nat /\ b # 0 /\ b \div 2 = a
  BY FullHalf, FullTrees, Zenon
<1>. HIDE DEF a, b
<1>2. PeakLoop[b] = [numLeft \in Nat |-> [sumPrevPeaks \in Nat |-> IF b = 0 THEN <<>>
        ELSE IF numLeft >= b
          THEN <<sumPrevPeaks + b - 1>> \o PeakLoop[b \div 2][numLeft - b][sumPrevPeaks + b]
        ELSE PeakLoop[b \div 2][numLeft][sumPrevPeaks]]]
  BY <1>1, PeakUnfolds, Zenon
<1>3. PeakLoop[b][x] = [sumPrevPeaks \in Nat |-> IF b = 0 THEN <<>>
        ELSE IF x >= b THEN <<sumPrevPeaks + b - 1>> \o PeakLoop[b \div 2][x - b][sumPrevPeaks + b]
        ELSE PeakLoop[b \div 2][x][sumPrevPeaks]]
  BY <1>2, Zenon
<1>4. PeakLoop[b][x][s] = IF b = 0 THEN <<>>
        ELSE IF x >= b THEN <<s + b - 1>> \o PeakLoop[b \div 2][x - b][s + b]
        ELSE PeakLoop[b \div 2][x][s]
  BY <1>3, Zenon
<1>5. ASSUME x >= b PROVE PeakLoop[b][x][s] = <<s + b - 1>> \o PeakLoop[a][x - b][s + b]
  <2>1. PeakLoop[b][x][s] = <<s + b - 1>> \o PeakLoop[b \div 2][x - b][s + b]
    BY <1>1, <1>4, <1>5, Zenon
  <2>. QED  BY <1>1, <2>1, Zenon
<1>6. ASSUME ~(x >= b) PROVE PeakLoop[b][x][s] = PeakLoop[a][x][s]
  <2>1. PeakLoop[b][x][s] = PeakLoop[b \div 2][x][s]
    BY <1>1, <1>4, <1>6, Zenon
  <2>. QED  BY <1>1, <2>1, Zenon
<1>. QED  BY <1>5, <1>6, Zenon DEF a, b

\* A round that finds a peak.
LEMMA PeakTaken ==
  ASSUME NEW k \in Nat, NEW x \in Nat, NEW s \in Nat, x >= Full(k + 1)
  PROVE  PeakLoop[Full(k + 1)][x][s] =
           <<s + Full(k + 1) - 1>> \o PeakLoop[Full(k)][x - Full(k + 1)][s + Full(k + 1)]
  BY PeakRound, ZenonT(30)

\* A round that finds none.
LEMMA PeakPassed ==
  ASSUME NEW k \in Nat, NEW x \in Nat, NEW s \in Nat, ~(x >= Full(k + 1))
  PROVE  PeakLoop[Full(k + 1)][x][s] = PeakLoop[Full(k)][x][s]
  BY PeakRound, ZenonT(30)

\* What the loops compute does not depend on the tree they start with, if it is large enough.
LEMMA Stable ==
  ASSUME NEW G, NEW x \in Nat, \A k \in Nat : x < Full(k + 1) => G[k + 1] = G[k],
         NEW j \in Nat, NEW k \in Nat, x < Full(j + 1), x < Full(k + 1)
  PROVE  G[j] = G[k]
<1>1. ASSUME NEW i \in Nat, x < Full(i + 1), NEW d \in Nat PROVE G[i + d] = G[i]
  <2>. DEFINE S == {e \in Nat : x < Full((i + e) + 1) /\ G[i + e] = G[i]}
  <2>1. 0 \in S
    BY <1>1
  <2>2. ASSUME NEW e \in Nat, e \in S PROVE e + 1 \in S
    <3>1. i + e \in Nat /\ (i + e) + 1 \in Nat /\ i + (e + 1) = (i + e) + 1
      OBVIOUS
    <3>2. x < Full((i + e) + 1) /\ G[i + e] = G[i]
      BY <2>2
    <3>3. G[(i + e) + 1] = G[i + e]
      BY <3>1, <3>2, Zenon
    <3>4. Full((i + e) + 1) \in Nat /\ Full(((i + e) + 1) + 1) \in Nat /\ Full(((i + e) + 1) + 1) > Full((i + e) + 1)
      <4>1. ((i + e) + 1) + 1 \in Nat
        OBVIOUS
      <4>. QED  BY <3>1, <4>1, FullTrees, FullGrows, Zenon
    <3>5. x < Full(((i + e) + 1) + 1)
      BY <3>2, <3>4
    <3>6. x < Full((i + (e + 1)) + 1) /\ G[i + (e + 1)] = G[i]
      BY <3>1, <3>2, <3>3, <3>5
    <3>. QED  BY <3>6
  <2>3. \A e \in Nat : e \in S
    <3>. HIDE DEF S
    <3>. QED  BY <2>1, <2>2, InductionOver, Zenon
  <2>. QED  BY <2>3
<1>2. CASE j <= k
  <2>1. k - j \in Nat /\ j + (k - j) = k
    BY <1>2
  <2>2. G[j + (k - j)] = G[j]
    BY <1>1, <2>1, Zenon
  <2>. QED  BY <2>1, <2>2
<1>3. CASE k <= j
  <2>1. j - k \in Nat /\ k + (j - k) = j
    BY <1>3
  <2>2. G[k + (j - k)] = G[k]
    BY <1>1, <2>1, Zenon
  <2>. QED  BY <2>1, <2>2
<1>. QED  BY <1>2, <1>3

\* The height may be computed from any perfect tree that is large enough.
LEMMA HeightIs ==
  ASSUME NEW x \in Nat, NEW k \in Nat, x < Full(k + 1)
  PROVE  CalculateHeight(x) = HeightLoop[Full(k)][x] /\ CalculateHeight(x) \in Nat
<1>. DEFINE G == [i \in Nat |-> HeightLoop[Full(i)][x]]
<1>1. x + 1 \in Nat /\ x + 1 # 0
  OBVIOUS
<1>2. PICK j \in Nat : PowerOfTwo[j] <= x + 1 /\ x + 1 < PowerOfTwo[j + 1]
  BY <1>1, LeadingBit, Zenon
<1>3. FillOnesToRight[x + 1] = Full(j + 1)
  BY <1>1, <1>2, FillIs, Zenon
<1>4. x < Full(j + 1) /\ j + 1 \in Nat /\ Full(j + 1) \in Nat
  BY <1>2, FullTrees
<1>5. ASSUME NEW i \in Nat, x < Full(i + 1) PROVE HeightLoop[Full(i + 1)][x] = HeightLoop[Full(i)][x]
  <2>1. i + 1 \in Nat
    OBVIOUS
  <2>2. Full(i + 1) \in Nat
    BY <2>1, FullTrees, Zenon
  <2>3. ~(x >= Full(i + 1))
    BY <1>5, <2>2
  <2>. QED  BY <2>3, HeightRound, Zenon
<1>6. \A i \in Nat : x < Full(i + 1) => G[i + 1] = G[i]
  <2>1. ASSUME NEW i \in Nat, x < Full(i + 1) PROVE G[i + 1] = G[i]
    <3>1. i + 1 \in Nat
      OBVIOUS
    <3>. QED  BY <1>5, <2>1, <3>1, Zenon
  <2>. QED  BY <2>1
<1>7. G[j] = G[k]
  <2>. HIDE DEF G
  <2>1. x < Full(j + 1) /\ x < Full(k + 1)
    BY <1>4, Zenon
  <2>. QED  BY <1>6, <2>1, Stable, ZenonT(30)
<1>8. HeightLoop[Full(j)][x] = HeightLoop[Full(k)][x]
  BY <1>7, Zenon
<1>. QED  BY <1>3, <1>4, <1>5, <1>8, HeightRound, Zenon DEF CalculateHeight

\* The tree that FillOnesToRight finds for a number of nodes is large enough.
LEMMA TreeFound ==
  ASSUME NEW x \in Nat
  PROVE  \E j \in Nat : x < Full(j + 1) /\ FillOnesToRight[x] = Full(j)
<1>1. CASE x = 0
  <2>1. 0 < Full(0 + 1) /\ FillOnesToRight[0] = Full(0)
    BY FullTrees, FillUnfolds
  <2>. QED  BY <1>1, <2>1
<1>2. CASE x # 0
  <2>1. PICK i \in Nat : PowerOfTwo[i] <= x /\ x < PowerOfTwo[i + 1]
    BY <1>2, LeadingBit, Zenon
  <2>2. FillOnesToRight[x] = Full(i + 1)
    BY <2>1, FillIs, Zenon
  <2>3. i + 1 \in Nat
    OBVIOUS
  <2>4. Full(i + 1) \in Nat /\ Full((i + 1) + 1) = 2 * Full(i + 1) + 1 /\ PowerOfTwo[i + 1] = Full(i + 1) + 1
    BY <2>3, FullTrees, Zenon
  <2>5. Full(i + 1) # 0
    BY FullHalf
  <2>6. x < Full((i + 1) + 1)
    BY <2>1, <2>4, <2>5
  <2>. QED  BY <2>2, <2>3, <2>6, Zenon
<1>. QED  BY <1>1, <1>2, Zenon

\* So may the index of a leaf.
LEMMA LeafIs ==
  ASSUME NEW x \in Nat, NEW k \in Nat, x < Full(k + 1)
  PROVE  CalculateLeafIndex(x) = LeafLoop[Full(k)][x]
<1>. DEFINE G == [i \in Nat |-> LeafLoop[Full(i)][x]]
<1>2. PICK j \in Nat : x < Full(j + 1) /\ FillOnesToRight[x] = Full(j)
  BY TreeFound, Zenon
<1>3. \A i \in Nat : x < Full(i + 1) => G[i + 1] = G[i]
  <2>1. ASSUME NEW i \in Nat, x < Full(i + 1) PROVE G[i + 1] = G[i]
    <3>1. i + 1 \in Nat
      OBVIOUS
    <3>2. Full(i + 1) \in Nat
      BY <3>1, FullTrees, Zenon
    <3>3. ~(x >= Full(i + 1))
      BY <2>1, <3>2
    <3>4. LeafLoop[Full(i + 1)][x] = LeafLoop[Full(i)][x]
      BY <3>3, LeafRound, Zenon
    <3>. QED  BY <3>1, <3>4, Zenon
  <2>. QED  BY <2>1
<1>4. G[j] = G[k]
  <2>. HIDE DEF G
  <2>. QED  BY <1>2, <1>3, Stable, Zenon
<1>. QED  BY <1>2, <1>4, Zenon DEF CalculateLeafIndex

\* So may the peaks.
LEMMA PeaksAre ==
  ASSUME NEW x \in Nat, NEW k \in Nat, x < Full(k + 1)
  PROVE  Peaks(x) = PeakLoop[Full(k)][x][0]
<1>. DEFINE G == [i \in Nat |-> PeakLoop[Full(i)][x][0]]
<1>2. PICK j \in Nat : x < Full(j + 1) /\ FillOnesToRight[x] = Full(j)
  BY TreeFound, Zenon
<1>3. \A i \in Nat : x < Full(i + 1) => G[i + 1] = G[i]
  <2>1. ASSUME NEW i \in Nat, x < Full(i + 1) PROVE G[i + 1] = G[i]
    <3>1. i + 1 \in Nat /\ 0 \in Nat
      OBVIOUS
    <3>2. Full(i + 1) \in Nat
      BY <3>1, FullTrees, Zenon
    <3>3. ~(x >= Full(i + 1))
      BY <2>1, <3>2
    <3>4. PeakLoop[Full(i + 1)][x][0] = PeakLoop[Full(i)][x][0]
      BY <3>1, <3>3, PeakPassed, Zenon
    <3>. QED  BY <3>1, <3>4, Zenon
  <2>. QED  BY <2>1
<1>4. G[j] = G[k]
  <2>. HIDE DEF G
  <2>. QED  BY <1>2, <1>3, Stable, Zenon
<1>. QED  BY <1>2, <1>4, Zenon DEF Peaks

\* Every position has a height.
LEMMA HeightType == \A x \in Nat : CalculateHeight(x) \in Nat
<1>. TAKE x \in Nat
<1>1. x + 1 \in Nat
  OBVIOUS
<1>2. Full(x) >= x /\ Full(x + 1) > Full(x) /\ Full(x) \in Nat /\ Full(x + 1) \in Nat
  BY <1>1, FullGrows, FullTrees, Zenon
<1>3. x < Full(x + 1)
  BY <1>2
<1>. QED  BY <1>3, HeightIs, Zenon

\* The nodes of a perfect tree have the same heights as those of the tree before it.
LEMMA HeightBeside ==
  ASSUME NEW k \in Nat, NEW q \in Nat, q < Full(k)
  PROVE  CalculateHeight(Full(k) + q) = CalculateHeight(q)
<1>. DEFINE j == k - 1
<1>1. Full(k) \in Nat /\ Full(k + 1) = 2 * Full(k) + 1
  BY FullTrees
<1>2. k # 0
  BY <1>1, FullTrees
<1>3. j \in Nat /\ j + 1 = k
  BY <1>2
<1>. HIDE DEF j
<1>4. Full(k) + q \in Nat /\ Full(k) + q < Full(k + 1) /\ Full(k) + q >= Full(k) /\ (Full(k) + q) - Full(k) = q
  BY <1>1
<1>5. CalculateHeight(Full(k) + q) = HeightLoop[Full(k)][Full(k) + q]
  BY <1>4, HeightIs, Zenon
<1>6. HeightLoop[Full(j + 1)][Full(k) + q] =
        IF Full(k) + q >= Full(j + 1) THEN HeightLoop[Full(j)][(Full(k) + q) - Full(j + 1)]
        ELSE HeightLoop[Full(j)][Full(k) + q]
  BY <1>3, <1>4, HeightRound, Zenon
<1>7. HeightLoop[Full(k)][Full(k) + q] = HeightLoop[Full(j)][q]
  BY <1>3, <1>4, <1>6, Zenon
<1>8. CalculateHeight(q) = HeightLoop[Full(j)][q]
  BY <1>3, HeightIs
<1>. QED  BY <1>5, <1>7, <1>8, Zenon

\* The top of a perfect tree is as high as the tree.
LEMMA HeightTop ==
  \A k \in Nat : CalculateHeight(2 * Full(k)) = k
<1>. DEFINE S == {j \in Nat : \A i \in Nat : HeightLoop[Full(j)][Full(j + 1) + i] = i + j + 1}
<1>1. 0 \in S
  <2>1. ASSUME NEW i \in Nat PROVE HeightLoop[Full(0)][Full(0 + 1) + i] = i + 0 + 1
    <3>1. Full(0 + 1) + i = i + 0 + 1 /\ i + 0 + 1 \in Nat
      BY FullTrees
    <3>2. HeightLoop[Full(0)][i + 0 + 1] = i + 0 + 1
      BY <3>1, HeightRound, Zenon
    <3>. QED  BY <3>1, <3>2, Zenon
  <2>. QED  BY <2>1
<1>2. ASSUME NEW j \in Nat, j \in S PROVE j + 1 \in S
  <2>1. ASSUME NEW i \in Nat
        PROVE  HeightLoop[Full(j + 1)][Full((j + 1) + 1) + i] = i + (j + 1) + 1
    <3>. DEFINE a == Full(j + 1)
                b == Full((j + 1) + 1)
    <3>1. j + 1 \in Nat
      OBVIOUS
    <3>2. a \in Nat /\ b = 2 * a + 1
      BY <3>1, FullTrees, Zenon
    <3>3. \A x \in Nat : HeightLoop[a][x] = IF x >= a THEN HeightLoop[Full(j)][x - a] ELSE HeightLoop[Full(j)][x]
      BY HeightRound, Zenon
    <3>4. \A n \in Nat : HeightLoop[Full(j)][a + n] = n + j + 1
      BY <1>2
    <3>. HIDE DEF a, b
    <3>5. b + i \in Nat /\ b + i >= a /\ (b + i) - a = a + (i + 1) /\ i + 1 \in Nat
      BY <3>2
    <3>6. HeightLoop[a][b + i] = HeightLoop[Full(j)][a + (i + 1)]
      <4>1. HeightLoop[a][b + i] = HeightLoop[Full(j)][(b + i) - a]
        BY <3>3, <3>5, Zenon
      <4>. QED  BY <3>5, <4>1, Zenon
    <3>7. HeightLoop[a][b + i] = (i + 1) + j + 1
      BY <3>4, <3>5, <3>6, Zenon
    <3>. QED  BY <3>7 DEF a, b
  <2>. QED  BY <2>1
<1>3. \A j \in Nat : j \in S
  <2>. HIDE DEF S
  <2>. QED  BY <1>1, <1>2, InductionOver, Zenon
<1>. TAKE k \in Nat
<1>4. Full(k) \in Nat /\ Full(k + 1) = 2 * Full(k) + 1
  BY FullTrees
<1>5. 2 * Full(k) \in Nat /\ 2 * Full(k) < Full(k + 1) /\ 2 * Full(k) >= Full(k) /\ 2 * Full(k) - Full(k) = Full(k)
  BY <1>4
<1>6. CalculateHeight(2 * Full(k)) = HeightLoop[Full(k)][2 * Full(k)]
  BY <1>5, HeightIs, Zenon
<1>7. CASE k = 0
  <2>1. 2 * Full(k) = 0 /\ 0 \in Nat
    BY <1>7, FullTrees
  <2>2. HeightLoop[Full(0)][0] = 0
    BY <2>1, HeightRound, Zenon
  <2>. QED  BY <1>6, <1>7, <2>1, <2>2, Zenon
<1>8. CASE k # 0
  <2>. DEFINE j == k - 1
  <2>1. j \in Nat /\ j + 1 = k
    BY <1>8
  <2>. HIDE DEF j
  <2>2. HeightLoop[Full(j + 1)][2 * Full(k)] =
          IF 2 * Full(k) >= Full(j + 1) THEN HeightLoop[Full(j)][2 * Full(k) - Full(j + 1)]
          ELSE HeightLoop[Full(j)][2 * Full(k)]
    BY <1>5, <2>1, HeightRound, Zenon
  <2>3. HeightLoop[Full(k)][2 * Full(k)] = HeightLoop[Full(j)][Full(k)]
    BY <1>5, <2>1, <2>2, Zenon
  <2>4. HeightLoop[Full(j)][Full(j + 1) + 0] = 0 + j + 1
    BY <1>3, <2>1
  <2>. QED  BY <1>4, <1>6, <2>1, <2>3, <2>4
<1>. QED  BY <1>7, <1>8, Zenon

\* Below a node lie the nodes of its two subtrees.
LEMMA HeightFits ==
  \A p \in Nat : 2 * Full(CalculateHeight(p)) <= p
<1>. DEFINE S == {p \in Nat : 2 * Full(CalculateHeight(p)) <= p}
<1>1. ASSUME NEW k \in Nat, \A q \in Nat : q < Full(k) => q \in S
      PROVE  (\A q \in Nat : q < Full(k) => Full(k) + q \in S) /\ 2 * Full(k) \in S
  <2>1. Full(k) \in Nat
    BY FullTrees
  <2>2. ASSUME NEW q \in Nat, q < Full(k) PROVE Full(k) + q \in S
    <3>1. CalculateHeight(Full(k) + q) = CalculateHeight(q)
      BY <2>2, HeightBeside, Zenon
    <3>2. 2 * Full(CalculateHeight(q)) <= q
      BY <1>1, <2>2
    <3>3. Full(CalculateHeight(q)) \in Nat
      BY HeightType, FullTrees, Zenon
    <3>. QED  BY <2>1, <3>1, <3>2, <3>3
  <2>3. 2 * Full(k) \in S
    <3>1. CalculateHeight(2 * Full(k)) = k
      BY HeightTop, Zenon
    <3>. QED  BY <2>1, <3>1
  <2>. QED  BY <2>2, <2>3
<1>2. \A p \in Nat : p \in S
  <2>. HIDE DEF S
  <2>. QED  BY <1>1, TreeInduction, Zenon
<1>. QED  BY <1>2

-----------------------------------------------------------------------------
(* The positions of leaves. *)

\* Log2 is the number of the leading bit.
LEMMA LogIs ==
  \A k \in Nat : \A x \in Nat : PowerOfTwo[k] <= x /\ x < PowerOfTwo[k + 1] => Log2[x] = k
<1>. DEFINE S == {k \in Nat : \A x \in Nat : PowerOfTwo[k] <= x /\ x < PowerOfTwo[k + 1] => Log2[x] = k}
<1>1. 0 \in S
  <2>1. ASSUME NEW x \in Nat, PowerOfTwo[0] <= x, x < PowerOfTwo[0 + 1] PROVE Log2[x] = 0
    <3>1. PowerOfTwo[0] = 1 /\ PowerOfTwo[0 + 1] = 2 * PowerOfTwo[0]
      BY Powers
    <3>2. x < 2
      BY <2>1, <3>1
    <3>. QED  BY <3>2, LogUnfolds
  <2>. QED  BY <2>1
<1>2. ASSUME NEW k \in Nat, k \in S PROVE k + 1 \in S
  <2>1. ASSUME NEW x \in Nat, PowerOfTwo[k + 1] <= x, x < PowerOfTwo[(k + 1) + 1]
        PROVE  Log2[x] = k + 1
    <3>. DEFINE a == PowerOfTwo[k]
                b == PowerOfTwo[k + 1]
    <3>1. a \in Nat /\ a > 0 /\ b = 2 * a /\ PowerOfTwo[(k + 1) + 1] = 2 * b /\ k + 1 \in Nat
      BY Powers
    <3>2. b <= x /\ x < 2 * b
      BY <2>1, <3>1
    <3>. HIDE DEF a, b
    <3>3. x \div 2 \in Nat /\ a <= x \div 2 /\ x \div 2 < b /\ ~(x < 2)
      BY <3>1, <3>2, Z3
    <3>4. Log2[x \div 2] = k
      BY <1>2, <3>3 DEF a, b
    <3>5. Log2[x] = 1 + Log2[x \div 2]
      BY <3>3, LogUnfolds, Zenon
    <3>. QED  BY <3>4, <3>5
  <2>. QED  BY <2>1
<1>3. \A k \in Nat : k \in S
  <2>. HIDE DEF S
  <2>. QED  BY <1>1, <1>2, InductionOver, Zenon
<1>. QED  BY <1>3

\* The leading bit is one bit.
LEMMA CountSplits ==
  \A k \in Nat : \A m \in Nat :
    m < PowerOfTwo[k] => CountBitsSet[PowerOfTwo[k] + m] = 1 + CountBitsSet[m]
<1>. DEFINE S == {k \in Nat : \A m \in Nat :
                    m < PowerOfTwo[k] => CountBitsSet[PowerOfTwo[k] + m] = 1 + CountBitsSet[m]}
<1>0. CountBitsSet[0] = 0
  BY CountUnfolds
<1>1. 0 \in S
  <2>1. ASSUME NEW m \in Nat, m < PowerOfTwo[0]
        PROVE  CountBitsSet[PowerOfTwo[0] + m] = 1 + CountBitsSet[m]
    <3>1. PowerOfTwo[0] + m = 1 /\ m = 0
      BY <2>1, Powers
    <3>2. CountBitsSet[1] = (1 % 2) + CountBitsSet[1 \div 2] /\ 1 % 2 = 1 /\ 1 \div 2 = 0
      BY CountUnfolds
    <3>. QED  BY <1>0, <3>1, <3>2
  <2>. QED  BY <2>1
<1>2. ASSUME NEW k \in Nat, k \in S PROVE k + 1 \in S
  <2>1. ASSUME NEW m \in Nat, m < PowerOfTwo[k + 1]
        PROVE  CountBitsSet[PowerOfTwo[k + 1] + m] = 1 + CountBitsSet[m]
    <3>. DEFINE a == PowerOfTwo[k]
                b == PowerOfTwo[k + 1]
    <3>1. a \in Nat /\ a > 0 /\ b = 2 * a /\ m < b
      BY <2>1, Powers
    <3>. HIDE DEF a, b
    <3>2. /\ m \div 2 \in Nat /\ m \div 2 < a /\ b + m \in Nat /\ b + m # 0
          /\ (b + m) \div 2 = a + (m \div 2) /\ (b + m) % 2 = m % 2
      BY <3>1, Z3
    <3>3. CountBitsSet[a + (m \div 2)] = 1 + CountBitsSet[m \div 2]
      BY <1>2, <3>2 DEF a
    <3>4. CountBitsSet[b + m] = (m % 2) + CountBitsSet[a + (m \div 2)]
      BY <3>2, CountUnfolds
    <3>5. CountBitsSet[m] = (m % 2) + CountBitsSet[m \div 2]
      <4>1. CASE m = 0
        <5>1. 0 \div 2 = 0 /\ 0 % 2 = 0
          BY Z3
        <5>. QED  BY <1>0, <4>1, <5>1
      <4>2. CASE m # 0
        BY <4>2, CountUnfolds
      <4>. QED  BY <4>1, <4>2, Zenon
    <3>6. m % 2 \in Nat /\ CountBitsSet[m \div 2] \in Nat
      BY <3>2, CountUnfolds
    <3>7. CountBitsSet[b + m] = 1 + CountBitsSet[m]
      BY <3>3, <3>4, <3>5, <3>6
    <3>. QED  BY <3>7 DEF b
  <2>. QED  BY <2>1
<1>3. \A k \in Nat : k \in S
  <2>. HIDE DEF S
  <2>. QED  BY <1>1, <1>2, InductionOver, Zenon
<1>. QED  BY <1>3

\* A number has at most as many bits as its value.
LEMMA CountBound ==
  \A n \in Nat : CountBitsSet[n] \in Nat /\ CountBitsSet[n] <= n
<1>. DEFINE S == {n \in Nat : CountBitsSet[n] <= n}
<1>1. 0 \in S
  BY CountUnfolds
<1>2. ASSUME NEW k \in Nat, \A m \in Nat : m < PowerOfTwo[k] => m \in S
      PROVE  \A m \in Nat : m < PowerOfTwo[k] => PowerOfTwo[k] + m \in S
  <2>. SUFFICES ASSUME NEW m \in Nat, m < PowerOfTwo[k] PROVE PowerOfTwo[k] + m \in S
    OBVIOUS
  <2>1. CountBitsSet[PowerOfTwo[k] + m] = 1 + CountBitsSet[m]
    BY CountSplits, Zenon
  <2>2. CountBitsSet[m] <= m /\ CountBitsSet[m] \in Nat
    BY <1>2, CountUnfolds
  <2>3. PowerOfTwo[k] \in Nat /\ PowerOfTwo[k] > 0
    BY Powers
  <2>. QED  BY <2>1, <2>2, <2>3
<1>3. \A n \in Nat : n \in S
  <2>. HIDE DEF S
  <2>. QED  BY <1>1, <1>2, BitInduction, Zenon
<1>. QED  BY <1>3, CountUnfolds

\* LeafIndex::At: leaves behind a perfect tree come behind its nodes.
LEMMA LeafPositions ==
  /\ LeafIndexAt(0) = 0
  /\ \A n \in Nat : LeafIndexAt(n) \in Nat /\ LeafIndexAt(n) >= n
  /\ \A k \in Nat : \A m \in Nat :
       m < PowerOfTwo[k] => LeafIndexAt(PowerOfTwo[k] + m) = Full(k + 1) + LeafIndexAt(m)
<1>1. LeafIndexAt(0) = 0
  BY CountUnfolds DEF LeafIndexAt
<1>2. ASSUME NEW n \in Nat PROVE LeafIndexAt(n) \in Nat /\ LeafIndexAt(n) >= n
  BY CountBound DEF LeafIndexAt
<1>3. ASSUME NEW k \in Nat, NEW m \in Nat, m < PowerOfTwo[k]
      PROVE  LeafIndexAt(PowerOfTwo[k] + m) = Full(k + 1) + LeafIndexAt(m)
  <2>1. CountBitsSet[PowerOfTwo[k] + m] = 1 + CountBitsSet[m] /\ CountBitsSet[m] \in Nat
    BY <1>3, CountSplits, CountBound, Zenon
  <2>2. PowerOfTwo[k] \in Nat /\ Full(k + 1) = 2 * PowerOfTwo[k] - 1
    BY Powers DEF Full
  <2>. QED  BY <2>1, <2>2 DEF LeafIndexAt
<1>. QED  BY <1>1, <1>2, <1>3, Zenon

\* The first leaf behind a perfect tree.
LEMMA LeafBehindTree ==
  \A k \in Nat : LeafIndexAt(PowerOfTwo[k]) = Full(k + 1)
<1>. TAKE k \in Nat
<1>0. Full(k + 1) \in Nat /\ PowerOfTwo[k] \in Nat /\ PowerOfTwo[k] > 0
  BY Powers, FullHalf, Zenon
<1>1. 0 \in Nat /\ 0 < PowerOfTwo[k] /\ PowerOfTwo[k] + 0 = PowerOfTwo[k] /\ Full(k + 1) \in Nat
  BY <1>0
<1>2. LeafIndexAt(PowerOfTwo[k] + 0) = Full(k + 1) + LeafIndexAt(0)
  BY <1>1, LeafPositions, Zenon
<1>. QED  BY <1>1, <1>2, LeafPositions

\* Each leaf comes behind the one before.
LEMMA NextLeaf ==
  \A n \in Nat : LeafIndexAt(n) < LeafIndexAt(n + 1)
<1>. DEFINE S == {n \in Nat : LeafIndexAt(n) < LeafIndexAt(n + 1)}
<1>1. 0 \in S
  <2>1. PowerOfTwo[0] = 1 /\ Full(0 + 1) = 1 /\ LeafIndexAt(PowerOfTwo[0]) = Full(0 + 1)
    BY Powers, FullTrees, LeafBehindTree
  <2>. QED  BY <2>1, LeafPositions
<1>2. ASSUME NEW k \in Nat, \A m \in Nat : m < PowerOfTwo[k] => m \in S
      PROVE  \A m \in Nat : m < PowerOfTwo[k] => PowerOfTwo[k] + m \in S
  <2>. SUFFICES ASSUME NEW m \in Nat, m < PowerOfTwo[k] PROVE PowerOfTwo[k] + m \in S
    OBVIOUS
  <2>. DEFINE a == PowerOfTwo[k]
              F == Full(k + 1)
  <2>1. a \in Nat /\ a > 0 /\ F \in Nat /\ m + 1 \in Nat /\ (a + m) + 1 = a + (m + 1) /\ m < a
    <3>1. a \in Nat /\ a > 0 /\ F \in Nat
      BY Powers, FullHalf, Zenon
    <3>. QED  BY <3>1
  <2>2. LeafIndexAt(m) < LeafIndexAt(m + 1)
    BY <1>2
  <2>3. LeafIndexAt(a + m) = F + LeafIndexAt(m)
    BY LeafPositions, Zenon
  <2>4. LeafIndexAt(m) \in Nat /\ LeafIndexAt(m + 1) \in Nat
    BY <2>1, LeafPositions, Zenon
  <2>5. CASE m + 1 < a
    <3>1. LeafIndexAt(a + (m + 1)) = F + LeafIndexAt(m + 1)
      BY <2>1, <2>5, LeafPositions, Zenon
    <3>2. LeafIndexAt(a + m) < LeafIndexAt((a + m) + 1)
      <4>. HIDE DEF a, F
      <4>. QED  BY <2>1, <2>2, <2>3, <2>4, <3>1
    <3>. HIDE DEF a
    <3>. QED  BY <2>1, <3>2 DEF a
  <2>6. CASE m + 1 = a
    <3>1. k + 1 \in Nat /\ PowerOfTwo[k + 1] = 2 * a
      BY Powers
    <3>2. LeafIndexAt(PowerOfTwo[k + 1]) = Full((k + 1) + 1) /\ Full((k + 1) + 1) = 2 * F + 1
      BY <3>1, LeafBehindTree, FullTrees, Zenon
    <3>3. LeafIndexAt(m + 1) = F
      BY <2>6, LeafBehindTree, Zenon
    <3>4. LeafIndexAt(a + m) < LeafIndexAt((a + m) + 1)
      <4>. HIDE DEF a, F
      <4>1. (a + m) + 1 = 2 * a
        BY <2>1, <2>6
      <4>2. LeafIndexAt((a + m) + 1) = 2 * F + 1
        BY <3>1, <3>2, <4>1, Zenon
      <4>. QED  BY <2>1, <2>2, <2>3, <2>4, <3>3, <4>2
    <3>. HIDE DEF a
    <3>. QED  BY <2>1, <3>4 DEF a
  <2>. QED  BY <2>1, <2>5, <2>6
<1>3. \A n \in Nat : n \in S
  <2>. HIDE DEF S
  <2>. QED  BY <1>1, <1>2, BitInduction, Zenon
<1>. QED  BY <1>3

\* Leaves come in order.
LEMMA LeavesInOrder ==
  ASSUME NEW m \in Nat, NEW n \in Nat
  PROVE  /\ m < n => LeafIndexAt(m) < LeafIndexAt(n)
         /\ m <= n => LeafIndexAt(m) <= LeafIndexAt(n)
         /\ LeafIndexAt(m) < LeafIndexAt(n) => m < n
         /\ LeafIndexAt(m) <= LeafIndexAt(n) => m <= n
<1>1. ASSUME NEW i \in Nat, NEW j \in Nat, i < j PROVE LeafIndexAt(i) < LeafIndexAt(j)
  <2>. DEFINE S == {d \in Nat : LeafIndexAt(i) < LeafIndexAt((i + d) + 1)}
  <2>1. 0 \in S
    BY NextLeaf
  <2>2. ASSUME NEW d \in Nat, d \in S PROVE d + 1 \in S
    <3>1. (i + d) + 1 \in Nat /\ ((i + d) + 1) + 1 \in Nat /\ (i + (d + 1)) + 1 = ((i + d) + 1) + 1
      OBVIOUS
    <3>2. LeafIndexAt((i + d) + 1) < LeafIndexAt(((i + d) + 1) + 1)
      BY <3>1, NextLeaf, Zenon
    <3>3. LeafIndexAt(i) \in Nat /\ LeafIndexAt((i + d) + 1) \in Nat /\ LeafIndexAt(((i + d) + 1) + 1) \in Nat
      BY <3>1, LeafPositions, Zenon
    <3>4. LeafIndexAt(i) < LeafIndexAt((i + d) + 1)
      BY <2>2
    <3>. QED  BY <3>1, <3>2, <3>3, <3>4
  <2>3. \A d \in Nat : d \in S
    <3>. HIDE DEF S
    <3>. QED  BY <2>1, <2>2, InductionOver, Zenon
  <2>4. (j - i) - 1 \in Nat /\ (i + ((j - i) - 1)) + 1 = j
    BY <1>1
  <2>5. LeafIndexAt(i) < LeafIndexAt((i + ((j - i) - 1)) + 1)
    BY <2>3, <2>4
  <2>. QED  BY <2>4, <2>5
<1>2. LeafIndexAt(m) \in Nat /\ LeafIndexAt(n) \in Nat
  BY LeafPositions, Zenon
<1>3. (m < n => LeafIndexAt(m) < LeafIndexAt(n)) /\ (n < m => LeafIndexAt(n) < LeafIndexAt(m))
  BY <1>1, Zenon
<1>4. m < n \/ m = n \/ n < m
  OBVIOUS
<1>. QED  BY <1>2, <1>3, <1>4

\* Behind a leaf come the parents that it completes, each one higher than the one before.
LEMMA HeightsBehindLeaf ==
  \A n \in Nat : \A i \in Nat :
    LeafIndexAt(n) + i < LeafIndexAt(n + 1) => CalculateHeight(LeafIndexAt(n) + i) = i
<1>. DEFINE S == {n \in Nat : \A i \in Nat :
                    LeafIndexAt(n) + i < LeafIndexAt(n + 1) => CalculateHeight(LeafIndexAt(n) + i) = i}
<1>1. 0 \in S
  <2>1. PowerOfTwo[0] = 1 /\ Full(0 + 1) = 1 /\ Full(0) = 0
    BY Powers, FullTrees
  <2>2. LeafIndexAt(0) = 0 /\ LeafIndexAt(PowerOfTwo[0]) = Full(0 + 1)
    BY LeafPositions, LeafBehindTree
  <2>3. CalculateHeight(2 * Full(0)) = 0
    BY HeightTop
  <2>4. CalculateHeight(0) = 0
    BY <2>1, <2>3
  <2>5. ASSUME NEW i \in Nat, LeafIndexAt(0) + i < LeafIndexAt(0 + 1)
        PROVE  CalculateHeight(LeafIndexAt(0) + i) = i
    <3>1. LeafIndexAt(0) + i = 0 /\ i = 0
      BY <2>1, <2>2, <2>5
    <3>. QED  BY <2>4, <3>1, Zenon
  <2>. QED  BY <2>5
<1>2. ASSUME NEW k \in Nat, \A m \in Nat : m < PowerOfTwo[k] => m \in S
      PROVE  \A m \in Nat : m < PowerOfTwo[k] => PowerOfTwo[k] + m \in S
  <2>. SUFFICES ASSUME NEW m \in Nat, m < PowerOfTwo[k],
                       NEW i \in Nat, LeafIndexAt(PowerOfTwo[k] + m) + i < LeafIndexAt((PowerOfTwo[k] + m) + 1)
                PROVE  CalculateHeight(LeafIndexAt(PowerOfTwo[k] + m) + i) = i
    <3>1. PowerOfTwo[k] \in Nat
      BY Powers
    <3>. QED  BY <3>1
  <2>. DEFINE a == PowerOfTwo[k]
              F == Full(k + 1)
              p == LeafIndexAt(m)
              r == LeafIndexAt(m + 1)
  <2>1. a \in Nat /\ a > 0 /\ F \in Nat /\ F = 2 * Full(k) + 1 /\ Full(k) \in Nat
    BY Powers, FullHalf, FullTrees, Zenon
  <2>2. m + 1 \in Nat /\ (a + m) + 1 = a + (m + 1) /\ m < a
    <3>1. m < a
      OBVIOUS
    <3>. HIDE DEF a
    <3>. QED  BY <2>1, <3>1
  <2>3. LeafIndexAt(a + m) = F + p
    BY LeafPositions, Zenon
  <2>4. p \in Nat /\ r \in Nat /\ LeafIndexAt(a) = F
    BY <2>2, LeafPositions, LeafBehindTree, Zenon
  <2>5. p < r /\ r <= F
    <3>1. m + 1 <= a /\ m < m + 1
      <4>. HIDE DEF a
      <4>. QED  BY <2>1, <2>2
    <3>. QED  BY <2>1, <2>2, <2>4, <3>1, LeavesInOrder, Zenon
  <2>6. \A j \in Nat : p + j < r => CalculateHeight(p + j) = j
    BY <1>2
  <2>7. LeafIndexAt(a + m) + i < LeafIndexAt((a + m) + 1)
    OBVIOUS
  <2>8. CASE p + i < r
    <3>. HIDE DEF F, p, r
    <3>1. p + i \in Nat /\ p + i < F /\ F + (p + i) = (F + p) + i
      BY <2>1, <2>4, <2>5, <2>8
    <3>2. k + 1 \in Nat
      OBVIOUS
    <3>3. CalculateHeight(F + (p + i)) = CalculateHeight(p + i)
      BY <3>1, <3>2, HeightBeside, Zenon DEF F
    <3>4. CalculateHeight(p + i) = i
      BY <2>6, <2>8, Zenon
    <3>5. CalculateHeight((F + p) + i) = i
      BY <3>1, <3>3, <3>4, Zenon
    <3>. QED  BY <2>3, <3>5, Zenon
  <2>9. CASE ~(p + i < r)
    <3>1. m + 1 = a
      <4>. SUFFICES ASSUME m + 1 < a PROVE FALSE
        <5>. HIDE DEF a
        <5>. QED  BY <2>1, <2>2
      <4>1. LeafIndexAt(a + (m + 1)) = F + r
        BY <2>2, LeafPositions, Zenon
      <4>2. (F + p) + i < F + r
        BY <2>2, <2>3, <2>7, <4>1, Zenon
      <4>. HIDE DEF F, p, r
      <4>. QED  BY <2>1, <2>4, <2>9, <4>2
    <3>2. r = F
      BY <2>4, <3>1, Zenon
    <3>3. LeafIndexAt((a + m) + 1) = 2 * F + 1
      <4>1. k + 1 \in Nat
        OBVIOUS
      <4>2. PowerOfTwo[k + 1] = 2 * a
        BY Powers, Zenon
      <4>3. (a + m) + 1 = 2 * a
        <5>. HIDE DEF a
        <5>. QED  BY <2>1, <2>2, <3>1
      <4>4. LeafIndexAt(PowerOfTwo[k + 1]) = Full((k + 1) + 1) /\ Full((k + 1) + 1) = 2 * F + 1
        BY <4>1, LeafBehindTree, FullTrees, Zenon
      <4>. QED  BY <4>2, <4>3, <4>4, Zenon
    <3>4. (F + p) + i < 2 * F + 1
      BY <2>3, <2>7, <3>3, Zenon
    <3>. DEFINE t == Full(k)
    <3>5. F = 2 * t + 1 /\ t \in Nat
      BY <2>1
    <3>6. CalculateHeight(2 * t) = k
      BY HeightTop, Zenon
    <3>7. CalculateHeight(2 * F) = k + 1
      <4>1. k + 1 \in Nat
        OBVIOUS
      <4>. QED  BY <4>1, HeightTop, Zenon
    <3>. HIDE DEF F, p, r, t
    <3>8. p + i = F /\ (F + p) + i = 2 * F /\ i # 0
      BY <2>1, <2>4, <2>5, <2>9, <3>2, <3>4
    <3>9. i - 1 \in Nat /\ p + (i - 1) = 2 * t /\ p + (i - 1) < r
      BY <2>4, <3>2, <3>5, <3>8
    <3>10. CalculateHeight(p + (i - 1)) = i - 1
      BY <2>6, <3>9, Zenon
    <3>11. i = k + 1
      BY <3>6, <3>8, <3>9, <3>10
    <3>12. CalculateHeight((F + p) + i) = i
      BY <3>7, <3>8, <3>11, Zenon
    <3>. QED  BY <2>3, <3>12, Zenon
  <2>. QED  BY <2>8, <2>9, Zenon
<1>3. \A n \in Nat : n \in S
  <2>. HIDE DEF S
  <2>. QED  BY <1>1, <1>2, BitInduction, Zenon
<1>. QED  BY <1>3

\* Every position is that of a leaf or of a parent that a leaf completes.
LEMMA LeafBefore ==
  ASSUME NEW p \in Nat
  PROVE  \E n \in Nat : \E i \in Nat : p = LeafIndexAt(n) + i /\ p < LeafIndexAt(n + 1)
<1>. DEFINE S == {n \in Nat : p < LeafIndexAt(n + 1)}
<1>1. p \in S
  <2>1. p + 1 \in Nat
    OBVIOUS
  <2>2. LeafIndexAt(p + 1) \in Nat /\ LeafIndexAt(p + 1) >= p + 1
    BY <2>1, LeafPositions, Zenon
  <2>. QED  BY <2>2
<1>2. S \subseteq Nat /\ S # {}
  BY <1>1
<1>3. PICK n \in S : \A j \in S : n <= j
  BY <1>2, LeastNumber, Zenon
<1>4. n \in Nat /\ p < LeafIndexAt(n + 1)
  BY <1>3
<1>5. LeafIndexAt(n) \in Nat
  BY <1>4, LeafPositions, Zenon
<1>6. LeafIndexAt(n) <= p
  <2>1. CASE n = 0
    BY <2>1, LeafPositions
  <2>2. CASE n # 0
    <3>1. n - 1 \in Nat /\ (n - 1) + 1 = n
      BY <1>4, <2>2
    <3>2. n - 1 \notin S
      BY <1>3, <1>4, <3>1
    <3>. QED  BY <1>5, <3>1, <3>2
  <2>. QED  BY <2>1, <2>2, Zenon
<1>7. p - LeafIndexAt(n) \in Nat /\ p = LeafIndexAt(n) + (p - LeafIndexAt(n))
  BY <1>5, <1>6
<1>. QED  BY <1>4, <1>7, Zenon

\* LeafIndex::At gives positions of leaves, and Index::CalculateLeafIndex finds their
\* numbers again.
THEOREM LeafAtPosition ==
  \A n \in Nat : CalculateHeight(LeafIndexAt(n)) = 0 /\ CalculateLeafIndex(LeafIndexAt(n)) = n
<1>. DEFINE S == {k \in Nat : \A m \in Nat : m < PowerOfTwo[k] => LeafLoop[Full(k)][LeafIndexAt(m)] = m}
<1>1. 0 \in S
  <2>1. ASSUME NEW m \in Nat, m < PowerOfTwo[0] PROVE LeafLoop[Full(0)][LeafIndexAt(m)] = m
    <3>1. m = 0 /\ LeafIndexAt(m) \in Nat
      BY <2>1, Powers, LeafPositions
    <3>. QED  BY <3>1, LeafRound, Zenon
  <2>. QED  BY <2>1
<1>2. ASSUME NEW k \in Nat, k \in S PROVE k + 1 \in S
  <2>1. ASSUME NEW m \in Nat, m < PowerOfTwo[k + 1] PROVE LeafLoop[Full(k + 1)][LeafIndexAt(m)] = m
    <3>. DEFINE a == PowerOfTwo[k]
                F == Full(k + 1)
    <3>1. a \in Nat /\ PowerOfTwo[k + 1] = 2 * a /\ F \in Nat /\ LeafIndexAt(m) \in Nat /\ LeafIndexAt(a) = F
      BY Powers, FullHalf, LeafPositions, LeafBehindTree, Zenon
    <3>2. LeafLoop[F][LeafIndexAt(m)] =
            IF LeafIndexAt(m) >= F THEN a + LeafLoop[Full(k)][LeafIndexAt(m) - F]
            ELSE LeafLoop[Full(k)][LeafIndexAt(m)]
      BY <3>1, LeafRound, Zenon
    <3>3. CASE m < a
      <4>1. LeafIndexAt(m) < F
        BY <3>1, <3>3, LeavesInOrder, Zenon
      <4>2. ~(LeafIndexAt(m) >= F)
        <5>. HIDE DEF F
        <5>. QED  BY <3>1, <4>1
      <4>3. LeafLoop[Full(k)][LeafIndexAt(m)] = m
        BY <1>2, <3>3
      <4>. QED  BY <3>2, <4>2, <4>3, Zenon
    <3>4. CASE ~(m < a)
      <4>. DEFINE j == m - a
      <4>1. j \in Nat /\ j < a /\ a + j = m
        <5>1. m < 2 * a
          BY <2>1, <3>1, Zenon
        <5>. HIDE DEF a
        <5>. QED  BY <3>1, <3>4, <5>1
      <4>. HIDE DEF j
      <4>2. LeafIndexAt(m) = F + LeafIndexAt(j) /\ LeafIndexAt(j) \in Nat
        BY <4>1, LeafPositions, Zenon
      <4>3. LeafIndexAt(m) >= F /\ LeafIndexAt(m) - F = LeafIndexAt(j)
        <5>. HIDE DEF F
        <5>. QED  BY <3>1, <4>2
      <4>4. LeafLoop[Full(k)][LeafIndexAt(j)] = j
        BY <1>2, <4>1
      <4>. QED  BY <3>2, <4>1, <4>3, <4>4, Zenon
    <3>. QED  BY <3>3, <3>4, Zenon
  <2>. QED  BY <2>1
<1>3. \A k \in Nat : k \in S
  <2>. HIDE DEF S
  <2>. QED  BY <1>1, <1>2, InductionOver, Zenon
<1>. TAKE n \in Nat
<1>4. CalculateHeight(LeafIndexAt(n)) = 0
  <2>1. LeafIndexAt(n) \in Nat /\ LeafIndexAt(n) < LeafIndexAt(n + 1) /\ 0 \in Nat
    BY LeafPositions, NextLeaf
  <2>2. LeafIndexAt(n) + 0 = LeafIndexAt(n)
    BY <2>1
  <2>. QED  BY <2>1, <2>2, HeightsBehindLeaf, Zenon
<1>5. n < PowerOfTwo[n]
  <2>1. Full(n) >= n /\ Full(n) \in Nat /\ PowerOfTwo[n] = Full(n) + 1
    BY FullGrows, FullTrees, Zenon
  <2>. QED  BY <2>1
<1>6. LeafLoop[Full(n)][LeafIndexAt(n)] = n
  BY <1>3, <1>5
<1>7. LeafIndexAt(n) \in Nat /\ LeafIndexAt(n) < Full(n + 1)
  <2>1. PowerOfTwo[n] \in Nat /\ LeafIndexAt(PowerOfTwo[n]) = Full(n + 1)
    BY Powers, LeafBehindTree, Zenon
  <2>. QED  BY <1>5, <2>1, LeavesInOrder, LeafPositions, Zenon
<1>8. CalculateLeafIndex(LeafIndexAt(n)) = n
  BY <1>6, <1>7, LeafIs, Zenon
<1>. QED  BY <1>4, <1>8

\* A position of height zero is that of a leaf, whose number CalculateLeafIndex finds.
THEOREM LeafFound ==
  ASSUME NEW p \in Nat, CalculateHeight(p) = 0
  PROVE  CalculateLeafIndex(p) \in Nat /\ LeafIndexAt(CalculateLeafIndex(p)) = p
<1>1. PICK n \in Nat : \E i \in Nat : p = LeafIndexAt(n) + i /\ p < LeafIndexAt(n + 1)
  BY LeafBefore, Zenon
<1>2. PICK i \in Nat : p = LeafIndexAt(n) + i /\ p < LeafIndexAt(n + 1)
  BY <1>1, Zenon
<1>3. i = 0
  BY <1>2, HeightsBehindLeaf, Zenon
<1>4. p = LeafIndexAt(n)
  BY <1>2, <1>3, LeafPositions
<1>. QED  BY <1>4, LeafAtPosition, Zenon

\* The loop of AddLeaf runs up to the position of the next leaf.
THEOREM ParentsOfLeaf ==
  ASSUME NEW n \in Nat
  PROVE  /\ NumParents(LeafIndexAt(n)) \in Nat
         /\ LeafIndexAt(n) + NumParents(LeafIndexAt(n)) + 1 = LeafIndexAt(n + 1)
<1>. DEFINE p == LeafIndexAt(n)
            r == LeafIndexAt(n + 1)
            K == r - p - 1
            Ends(k) == /\ IsLeaf(IndexAt(p + k + 1))
                       /\ \A j \in 1..k : ~IsLeaf(IndexAt(p + j))
<1>1. p \in Nat /\ r \in Nat /\ p < r /\ n + 1 \in Nat
  <2>1. n + 1 \in Nat
    OBVIOUS
  <2>. QED  BY <2>1, LeafPositions, NextLeaf, Zenon
<1>2. CalculateHeight(r) = 0 /\ \A i \in Nat : p + i < r => CalculateHeight(p + i) = i
  BY <1>1, LeafAtPosition, HeightsBehindLeaf, Zenon
<1>3. \A x : IsLeaf(IndexAt(x)) <=> CalculateHeight(x) = 0
  BY DEF IsLeaf, IndexAt, Index
<1>4. NumParents(p) = CHOOSE k \in 0..p : Ends(k)
  BY Zenon DEF NumParents
<1>. HIDE DEF p, r
<1>5. K \in Nat /\ p + K + 1 = r /\ p + K < r
  BY <1>1
<1>6. K \in 0..p
  <2>1. CalculateHeight(p + K) = K /\ p + K \in Nat
    BY <1>1, <1>2, <1>5
  <2>2. 2 * Full(K) <= p + K /\ Full(K) >= K /\ Full(K) \in Nat
    <3>. HIDE DEF K
    <3>1. 2 * Full(CalculateHeight(p + K)) <= p + K
      BY <2>1, HeightFits, Zenon
    <3>. QED  BY <1>5, <2>1, <3>1, FullGrows, FullTrees, Zenon
  <2>. HIDE DEF K
  <2>. QED  BY <1>1, <1>5, <2>2
<1>. HIDE DEF K
<1>7. Ends(K)
  <2>1. IsLeaf(IndexAt(p + K + 1))
    BY <1>2, <1>3, <1>5, Zenon
  <2>2. ASSUME NEW j \in 1..K PROVE ~IsLeaf(IndexAt(p + j))
    <3>1. j \in Nat /\ p + j < r /\ j # 0
      BY <1>1, <1>5
    <3>. QED  BY <1>2, <1>3, <3>1, Zenon
  <2>. QED  BY <2>1, <2>2, Zenon
<1>8. ASSUME NEW k \in 0..p, Ends(k) PROVE k = K
  <2>1. CASE k < K
    <3>1. k + 1 \in Nat /\ p + (k + 1) < r /\ p + (k + 1) = p + k + 1 /\ k + 1 # 0
      BY <1>1, <1>5, <2>1
    <3>2. CalculateHeight(p + (k + 1)) = k + 1
      BY <1>2, <3>1, Zenon
    <3>3. CalculateHeight(p + k + 1) = 0
      BY <1>3, <1>8, Zenon
    <3>. QED  BY <3>1, <3>2, <3>3, Zenon
  <2>2. CASE k > K
    <3>1. K + 1 \in 1..k /\ p + (K + 1) = r
      BY <1>1, <1>5, <2>2
    <3>2. ~IsLeaf(IndexAt(p + (K + 1)))
      BY <1>8, <3>1, Zenon
    <3>. QED  BY <1>2, <1>3, <3>1, <3>2, Zenon
  <2>. QED  BY <1>5, <2>1, <2>2
<1>. HIDE DEF Ends
<1>9. NumParents(p) = K
  BY <1>4, <1>6, <1>7, <1>8, Zenon
<1>. QED  BY <1>5, <1>9, Zenon DEF p, r

-----------------------------------------------------------------------------
(* The hashes: functions that hash nodes upon nodes. *)

\* A set of hashes, and those of the parents of two of them.
Grown(V) == V \cup {ParentHash(x[1], x[2], x[3]) : x \in Nat \X V \X V}

\* f[i] holds the hashes that can be made from those of S in i rounds.
Grows(f, n, S) ==
  /\ f[0] = S
  /\ \A i \in 1..n : f[i] = Grown(f[i - 1])

\* There is a set of hashes that contains the parents of its members: the functions that hash
\* nodes upon nodes have values.
LEMMA HashSetExists ==
  ASSUME NEW S
  PROVE  \E U : /\ S \subseteq U
                /\ \A n \in Nat, a \in U, b \in U : ParentHash(n, a, b) \in U
<1>. DEFINE Good == {n \in Nat : \E f : Grows(f, n, S)}
<1>1. 0 \in Good
  <2>1. Grows([i \in 0..0 |-> S], 0, S)
    BY DEF Grows
  <2>. QED  BY <2>1
<1>2. ASSUME NEW n \in Nat, n \in Good
      PROVE  n + 1 \in Good
  <2>1. PICK f : Grows(f, n, S)
    BY <1>2
  <2>. DEFINE g == [i \in 0..(n + 1) |-> IF i <= n THEN f[i] ELSE Grown(f[n])]
  <2>2. g[0] = S /\ \A i \in 1..(n + 1) : g[i] = Grown(g[i - 1])
    <3>1. f[0] = S /\ \A i \in 1..n : f[i] = Grown(f[i - 1])
      BY <2>1, Zenon DEF Grows
    <3>2. \A i \in 0..n : g[i] = f[i]
      OBVIOUS
    <3>3. g[n + 1] = Grown(f[n])
      OBVIOUS
    <3>. HIDE DEF g
    <3>4. ASSUME NEW i \in 1..(n + 1) PROVE g[i] = Grown(g[i - 1])
      <4>1. CASE i = n + 1
        <5>1. g[i - 1] = f[n]
          BY <3>2, <4>1
        <5>. QED  BY <3>3, <4>1, <5>1, Zenon
      <4>2. CASE i # n + 1
        <5>1. i \in 1..n /\ i \in 0..n /\ i - 1 \in 0..n
          BY <4>2
        <5>2. g[i] = f[i] /\ g[i - 1] = f[i - 1] /\ f[i] = Grown(f[i - 1])
          BY <3>1, <3>2, <5>1, Zenon
        <5>. QED  BY <5>2, Zenon
      <4>. QED  BY <4>1, <4>2, Zenon
    <3>. QED  BY <3>1, <3>2, <3>4
  <2>3. Grows(g, n + 1, S)
    <3>. HIDE DEF g
    <3>. QED  BY <2>2, Zenon DEF Grows
  <2>. HIDE DEF g
  <2>. QED  BY <2>3
<1>3. \A n \in Nat : n \in Good
  <2>. HIDE DEF Good
  <2>. QED  BY <1>1, <1>2, InductionOver, Zenon
<1>. DEFINE pick == [n \in Nat |-> CHOOSE f : Grows(f, n, S)]
<1>4. ASSUME NEW n \in Nat
      PROVE  Grows(pick[n], n, S)
  <2>1. \E f : Grows(f, n, S)
    BY <1>3
  <2>2. pick[n] = CHOOSE f : Grows(f, n, S)
    BY Zenon
  <2>. HIDE DEF pick
  <2>. QED  BY <2>1, <2>2, Zenon
<1>. HIDE DEF pick
<1>5. ASSUME NEW n \in Nat
      PROVE  pick[n + 1][n] = pick[n][n]
  <2>. DEFINE Same == {i \in Nat : i <= n => pick[n + 1][i] = pick[n][i]}
  <2>1. Grows(pick[n], n, S) /\ Grows(pick[n + 1], n + 1, S)
    BY <1>4
  <2>2. 0 \in Same
    BY <2>1 DEF Grows
  <2>3. ASSUME NEW i \in Nat, i \in Same PROVE i + 1 \in Same
    <3>. SUFFICES ASSUME i + 1 <= n PROVE pick[n + 1][i + 1] = pick[n][i + 1]
      OBVIOUS
    <3>1. i + 1 \in 1..n /\ i + 1 \in 1..(n + 1) /\ (i + 1) - 1 = i
      OBVIOUS
    <3>2. pick[n + 1][i] = pick[n][i]
      BY <2>3
    <3>3. /\ pick[n + 1][i + 1] = Grown(pick[n + 1][(i + 1) - 1])
          /\ pick[n][i + 1] = Grown(pick[n][(i + 1) - 1])
      <4>. HIDE DEF Same
      <4>. QED  BY <2>1, <3>1, Zenon DEF Grows
    <3>. QED  BY <3>1, <3>2, <3>3, Zenon
  <2>4. n \in Same
    <3>. HIDE DEF Same
    <3>. QED  BY <2>2, <2>3, InductionOver, Zenon
  <2>. QED  BY <2>4
<1>. DEFINE V == [n \in Nat |-> pick[n][n]]
<1>6. V[0] = S
  BY <1>4 DEF Grows
<1>7. ASSUME NEW n \in Nat PROVE V[n + 1] = Grown(V[n])
  <2>1. n + 1 \in Nat /\ n + 1 \in 1..(n + 1) /\ (n + 1) - 1 = n
    OBVIOUS
  <2>2. pick[n + 1][n + 1] = Grown(pick[n + 1][(n + 1) - 1])
    BY <1>4, <2>1, Zenon DEF Grows
  <2>3. pick[n + 1][n + 1] = Grown(pick[n][n])
    BY <1>5, <2>1, <2>2, Zenon
  <2>. QED  BY <2>1, <2>3, Zenon
<1>. HIDE DEF V
<1>8. ASSUME NEW m \in Nat, NEW n \in Nat PROVE V[m] \subseteq V[m + n]
  <2>. DEFINE T == {i \in Nat : V[m] \subseteq V[m + i]}
  <2>1. 0 \in T
    OBVIOUS
  <2>2. ASSUME NEW i \in Nat, i \in T PROVE i + 1 \in T
    <3>1. m + i \in Nat /\ (m + i) + 1 = m + (i + 1)
      OBVIOUS
    <3>2. V[(m + i) + 1] = Grown(V[m + i])
      BY <1>7, <3>1, Zenon
    <3>3. V[m + i] \subseteq V[(m + i) + 1]
      BY <3>2, Zenon DEF Grown
    <3>4. V[m] \subseteq V[m + i]
      BY <2>2, Zenon
    <3>5. V[m] \subseteq V[m + (i + 1)]
      BY <3>1, <3>3, <3>4, Zenon
    <3>. QED  BY <3>5
  <2>3. \A i \in Nat : i \in T
    <3>. HIDE DEF T
    <3>. QED  BY <2>1, <2>2, InductionOver, Zenon
  <2>. QED  BY <2>3
<1>. DEFINE U == UNION {V[n] : n \in Nat}
<1>9. S \subseteq U
  <2>1. 0 \in Nat
    OBVIOUS
  <2>. QED  BY <1>6, <2>1, Zenon
<1>10. ASSUME NEW n \in Nat, NEW a \in U, NEW b \in U PROVE ParentHash(n, a, b) \in U
  <2>1. PICK i \in Nat : a \in V[i]
    BY Zenon
  <2>2. PICK j \in Nat : b \in V[j]
    BY Zenon
  <2>3. i + j \in Nat /\ j + i = i + j /\ (i + j) + 1 \in Nat
    OBVIOUS
  <2>4. a \in V[i + j] /\ b \in V[i + j]
    BY <1>8, <2>1, <2>2, <2>3, Zenon
  <2>5. ParentHash(n, a, b) \in Grown(V[i + j])
    <3>1. <<n, a, b>> \in Nat \X V[i + j] \X V[i + j]
      BY <2>4
    <3>2. ParentHash(<<n, a, b>>[1], <<n, a, b>>[2], <<n, a, b>>[3]) \in Grown(V[i + j])
      BY <3>1, Zenon DEF Grown
    <3>. QED  BY <3>2
  <2>6. ParentHash(n, a, b) \in V[(i + j) + 1]
    BY <1>7, <2>3, <2>5, Zenon
  <2>. QED  BY <2>3, <2>6, Zenon
<1>. QED  BY <1>9, <1>10, Zenon

\* A number other than zero is its leading bit, whose number Log2 gives, and a rest.
LEMMA Leading ==
  ASSUME NEW n \in Nat, n # 0
  PROVE  /\ Log2[n] \in Nat /\ PowerOfTwo[Log2[n]] \in Nat
         /\ n - PowerOfTwo[Log2[n]] \in Nat
         /\ n - PowerOfTwo[Log2[n]] < n
         /\ n - PowerOfTwo[Log2[n]] < PowerOfTwo[Log2[n]]
         /\ PowerOfTwo[Log2[n]] + (n - PowerOfTwo[Log2[n]]) = n
<1>1. PICK k \in Nat : PowerOfTwo[k] <= n /\ n < PowerOfTwo[k + 1]
  BY LeadingBit, Zenon
<1>2. Log2[n] = k
  BY <1>1, LogIs, Zenon
<1>3. PowerOfTwo[k] \in Nat /\ PowerOfTwo[k] > 0 /\ PowerOfTwo[k + 1] = 2 * PowerOfTwo[k]
  BY Powers, Zenon
<1>. DEFINE a == PowerOfTwo[k]
<1>4. n - a \in Nat /\ n - a < n /\ n - a < a /\ a + (n - a) = n
  BY <1>1, <1>3
<1>. HIDE DEF a
<1>. QED  BY <1>2, <1>3, <1>4, Zenon DEF a

\* The nodes of n leaves end where the next leaf is put: LeafIndex::At counts as the reference
\* does.
LEMMA SizeIs == \A n \in Nat : RefSize[n] = LeafIndexAt(n)
<1>. DEFINE Body(f) == [n \in Nat |->
              IF n = 0 THEN 0 ELSE PowerOfTwo[Log2[n] + 1] - 1 + f[n - PowerOfTwo[Log2[n]]]]
            w == [n \in Nat |-> LeafIndexAt(n)]
<1>1. ASSUME NEW n \in Nat, n # 0
      PROVE  LeafIndexAt(n) = PowerOfTwo[Log2[n] + 1] - 1 + LeafIndexAt(n - PowerOfTwo[Log2[n]])
  <2>1. /\ Log2[n] \in Nat /\ n - PowerOfTwo[Log2[n]] \in Nat
        /\ n - PowerOfTwo[Log2[n]] < PowerOfTwo[Log2[n]]
        /\ PowerOfTwo[Log2[n]] + (n - PowerOfTwo[Log2[n]]) = n
    BY <1>1, Leading, Zenon
  <2>2. LeafIndexAt(PowerOfTwo[Log2[n]] + (n - PowerOfTwo[Log2[n]])) =
          Full(Log2[n] + 1) + LeafIndexAt(n - PowerOfTwo[Log2[n]])
    BY <2>1, LeafPositions, Zenon
  <2>. QED  BY <2>1, <2>2, Zenon DEF Full
<1>2. \A n \in Nat : w[n] = LeafIndexAt(n)
  OBVIOUS
<1>3. \A n \in Nat : n # 0 => n - PowerOfTwo[Log2[n]] \in Nat
  BY Leading, Zenon
<1>4. w = Body(w)
  <2>1. \A n \in Nat : w[n] = IF n = 0 THEN 0 ELSE PowerOfTwo[Log2[n] + 1] - 1 + w[n - PowerOfTwo[Log2[n]]]
    <3>. HIDE DEF w
    <3>1. LeafIndexAt(0) = 0
      BY LeafPositions
    <3>. QED  BY <1>1, <1>2, <1>3, <3>1, Zenon
  <2>. QED  BY <2>1, Zenon
<1>5. RefSize = CHOOSE g : g = Body(g)
  BY Zenon DEF RefSize
<1>6. RefSize = Body(RefSize)
  <2>. HIDE DEF Body, w
  <2>. QED  BY <1>4, <1>5, Zenon
<1>7. \A n \in Nat : RefSize[n] = IF n = 0 THEN 0 ELSE PowerOfTwo[Log2[n] + 1] - 1 + RefSize[n - PowerOfTwo[Log2[n]]]
  BY <1>6, Zenon
<1>. DEFINE S == {n \in Nat : RefSize[n] = LeafIndexAt(n)}
<1>8. 0 \in S
  BY <1>7, LeafPositions
<1>9. ASSUME NEW k \in Nat, \A m \in Nat : m < PowerOfTwo[k] => m \in S
      PROVE  \A m \in Nat : m < PowerOfTwo[k] => PowerOfTwo[k] + m \in S
  <2>. TAKE m \in Nat
  <2>. HAVE m < PowerOfTwo[k]
  <2>. DEFINE a == PowerOfTwo[k]
  <2>1. a \in Nat /\ a > 0 /\ PowerOfTwo[k + 1] = 2 * a /\ m < a
    BY Powers, Zenon
  <2>2. RefSize[m] = LeafIndexAt(m)
    BY <1>9
  <2>. HIDE DEF a
  <2>3. a + m \in Nat /\ a + m # 0 /\ a <= a + m /\ a + m < 2 * a /\ (a + m) - a = m
    BY <2>1
  <2>4. Log2[a + m] = k
    BY <2>1, <2>3, LogIs, Zenon DEF a
  <2>5. LeafIndexAt(a + m) = PowerOfTwo[Log2[a + m] + 1] - 1 + LeafIndexAt((a + m) - PowerOfTwo[Log2[a + m]])
    BY <1>1, <2>3, Zenon
  <2>6. RefSize[a + m] = PowerOfTwo[Log2[a + m] + 1] - 1 + RefSize[(a + m) - PowerOfTwo[Log2[a + m]]]
    BY <1>7, <2>3, Zenon
  <2>7. RefSize[a + m] = LeafIndexAt(a + m)
    BY <2>2, <2>3, <2>4, <2>5, <2>6, Zenon DEF a
  <2>8. a + m \in S
    BY <2>3, <2>7
  <2>. QED  BY <2>8, Zenon DEF a
<1>10. \A n \in Nat : n \in S
  <2>. HIDE DEF S
  <2>. QED  BY <1>8, <1>9, BitInduction, Zenon
<1>. QED  BY <1>10

\* The left child of a node comes before the tree of its right child.
LEMMA LeftChildAt ==
  \A x : GetLeftChild(IndexAt(x)).position = x - PowerOfTwo[CalculateHeight(x)]
  BY DEF GetLeftChild, IndexAt, Index

\* What AddLeaf appends behind n leaves: the leaf, and the parents of each node just appended
\* and its left sibling.
LEMMA AddedAre ==
  ASSUME NEW H, NEW n \in Nat, NEW d
  PROVE  /\ AddedHashes(H, LeafIndexAt(n), d) =
              [i \in 1..NumParents(LeafIndexAt(n)) + 1 |-> AddedHashes(H, LeafIndexAt(n), d)[i]]
         /\ AddedHashes(H, LeafIndexAt(n), d)[1] = LeafHash(LeafIndexAt(n), d)
         /\ \A i \in 1..NumParents(LeafIndexAt(n)) :
              AddedHashes(H, LeafIndexAt(n), d)[i + 1] =
                ParentHash(LeafIndexAt(n) + i, H[(LeafIndexAt(n) + i) - PowerOfTwo[i]],
                           AddedHashes(H, LeafIndexAt(n), d)[i])
<1>. DEFINE P == LeafIndexAt(n)
            K == NumParents(P)
            left == [i \in Nat |-> H[GetLeftChild(IndexAt(P + i)).position]]
            Body(f) == [i \in Nat |->
              IF i = 0 THEN LeafHash(P, d)
              ELSE ParentHash(P + i, H[GetLeftChild(IndexAt(P + i)).position], f[i - 1])]
            hash == CHOOSE f : f = Body(f)
            start == LeafHash(P, d)
<1>1. AddedHashes(H, P, d) = [i \in 1..K + 1 |-> hash[i - 1]]
  BY Zenon DEF AddedHashes
<1>2. P \in Nat /\ K \in Nat
  BY LeafPositions, ParentsOfLeaf, Zenon
<1>3. PICK U : /\ {start} \cup {left[i] : i \in Nat} \subseteq U
               /\ \A m \in Nat, a \in U, b \in U : ParentHash(m, a, b) \in U
  BY HashSetExists, Zenon
<1>4. start \in U /\ \A i \in Nat : left[i] \in U
  BY <1>3, Zenon
<1>. DEFINE step == [i \in Nat |-> [v \in U |-> ParentHash(P + i, left[i], v)]]
<1>5. \A i \in Nat : left[i] = H[GetLeftChild(IndexAt(P + i)).position]
  BY Zenon
<1>. HIDE DEF left, P, K
<1>6. step \in [Nat -> [U -> U]]
  <2>1. ASSUME NEW i \in Nat, NEW v \in U PROVE ParentHash(P + i, left[i], v) \in U
    <3>1. P + i \in Nat
      BY <1>2
    <3>. QED  BY <1>3, <1>4, <3>1, Zenon
  <2>. QED  BY <2>1, Zenon
<1>7. PICK f : Recursive(f, U, start, step)
  <2>. HIDE DEF start, step
  <2>. QED  BY <1>4, <1>6, RecursionExists, Zenon
<1>8. f = Body(f)
  <2>1. f \in [Nat -> U] /\ f[0] = start
    BY <1>7, Zenon DEF Recursive
  <2>2. ASSUME NEW i \in Nat, i # 0
        PROVE  f[i] = ParentHash(P + i, H[GetLeftChild(IndexAt(P + i)).position], f[i - 1])
    <3>1. f[i] = step[i][f[i - 1]]
      <4>. HIDE DEF start, step
      <4>. QED  BY <1>7, <2>2, Zenon DEF Recursive
    <3>2. i - 1 \in Nat
      BY <2>2
    <3>3. f[i - 1] \in U
      <4>. HIDE DEF start, step
      <4>. QED  BY <2>1, <3>2
    <3>. QED  BY <1>5, <3>1, <3>3, Zenon
  <2>. HIDE DEF step
  <2>. QED  BY <2>1, <2>2, Zenon
<1>9. hash = Body(hash)
  <2>. HIDE DEF Body
  <2>. QED  BY <1>8, Zenon
<1>10. /\ hash[0] = LeafHash(P, d)
       /\ \A i \in Nat : i # 0 =>
            hash[i] = ParentHash(P + i, H[GetLeftChild(IndexAt(P + i)).position], hash[i - 1])
  <2>. HIDE DEF hash
  <2>1. \A i \in Nat : hash[i] = IF i = 0 THEN LeafHash(P, d)
              ELSE ParentHash(P + i, H[GetLeftChild(IndexAt(P + i)).position], hash[i - 1])
    BY <1>9, Zenon
  <2>2. 0 \in Nat
    OBVIOUS
  <2>. QED  BY <2>1, <2>2, Zenon
<1>. HIDE DEF hash, Body
<1>. DEFINE A == AddedHashes(H, P, d)
<1>11. A = [i \in 1..K + 1 |-> A[i]] /\ \A i \in 1..K + 1 : A[i] = hash[i - 1]
  BY <1>1, Zenon
<1>. HIDE DEF A
<1>12. 1 \in 1..K + 1 /\ 1 - 1 = 0
  BY <1>2
<1>13. A[1] = LeafHash(P, d)
  BY <1>10, <1>11, <1>12, Zenon
<1>14. ASSUME NEW i \in 1..K
       PROVE  A[i + 1] = ParentHash(P + i, H[(P + i) - PowerOfTwo[i]], A[i])
  <2>1. i \in Nat /\ i # 0 /\ i + 1 \in 1..K + 1 /\ i \in 1..K + 1 /\ (i + 1) - 1 = i
    BY <1>2
  <2>2. A[i + 1] = ParentHash(P + i, H[GetLeftChild(IndexAt(P + i)).position], A[i])
    BY <1>10, <1>11, <2>1, Zenon
  <2>3. CalculateHeight(P + i) = i
    <3>1. P + K + 1 = LeafIndexAt(n + 1)
      BY ParentsOfLeaf, Zenon DEF P, K
    <3>2. P + i < LeafIndexAt(n + 1)
      BY <1>2, <2>1, <3>1
    <3>. QED  BY <2>1, <3>2, HeightsBehindLeaf, Zenon DEF P
  <2>4. GetLeftChild(IndexAt(P + i)).position = (P + i) - PowerOfTwo[CalculateHeight(P + i)]
    BY LeftChildAt
  <2>5. GetLeftChild(IndexAt(P + i)).position = (P + i) - PowerOfTwo[i]
    BY <2>3, <2>4
  <2>. QED  BY <2>2, <2>5
<1>. QED  BY <1>11, <1>13, <1>14, Zenon DEF A, P, K

\* The hash of a perfect tree is that of its leaf, or of the parent of its two halves.
LEMMA TreeHashIs ==
  ASSUME NEW ls
  PROVE  /\ \A n \in Nat : TreeHash(ls)[0][n] = LeafHash(LeafIndexAt(n), ls[n + 1])
         /\ \A h \in Nat : \A n \in Nat :
              TreeHash(ls)[h + 1][n] =
                ParentHash(LeafIndexAt(n) + 2 * Full(h + 1),
                           TreeHash(ls)[h][n], TreeHash(ls)[h][n + PowerOfTwo[h]])
<1>. DEFINE Row(h, t) == [n \in Nat |->
              IF h = 0 THEN LeafHash(RefSize[n], ls[n + 1])
              ELSE ParentHash(RefSize[n] + PowerOfTwo[h + 1] - 2, t[n], t[n + PowerOfTwo[h - 1]])]
            Body(f) == [h \in Nat |-> [n \in Nat |->
              IF h = 0 THEN LeafHash(RefSize[n], ls[n + 1])
              ELSE ParentHash(RefSize[n] + PowerOfTwo[h + 1] - 2,
                              f[h - 1][n], f[h - 1][n + PowerOfTwo[h - 1]])]]
            tree == CHOOSE f : f = Body(f)
            leaf == [n \in Nat |-> LeafHash(RefSize[n], ls[n + 1])]
<1>1. TreeHash(ls) = tree
  BY Zenon DEF TreeHash
<1>2. PICK U : /\ {leaf[n] : n \in Nat} \subseteq U
               /\ \A m \in Nat, a \in U, b \in U : ParentHash(m, a, b) \in U
  BY HashSetExists, Zenon
<1>. DEFINE W == [Nat -> U]
            step == [h \in Nat |-> [t \in W |-> Row(h, t)]]
<1>3. leaf \in W
  BY <1>2, Zenon
<1>4. ASSUME NEW h \in Nat, NEW t \in W PROVE Row(h, t) \in W
  <2>1. ASSUME NEW n \in Nat
        PROVE  (IF h = 0 THEN LeafHash(RefSize[n], ls[n + 1])
                ELSE ParentHash(RefSize[n] + PowerOfTwo[h + 1] - 2, t[n], t[n + PowerOfTwo[h - 1]])) \in U
    <3>1. CASE h = 0
      <4>1. LeafHash(RefSize[n], ls[n + 1]) \in U
        BY <1>2, Zenon
      <4>. QED  BY <3>1, <4>1, Zenon
    <3>2. CASE h # 0
      <4>1. h - 1 \in Nat /\ h + 1 \in Nat
        BY <3>2
      <4>2. n + PowerOfTwo[h - 1] \in Nat
        BY <4>1, Powers
      <4>3. RefSize[n] \in Nat
        BY SizeIs, LeafPositions, Zenon
      <4>4. Full(h + 1) \in Nat /\ PowerOfTwo[h + 1] = Full(h + 1) + 1 /\ Full(h + 1) = 2 * Full(h) + 1
            /\ Full(h) \in Nat
        BY <4>1, FullTrees, Zenon
      <4>5. RefSize[n] + PowerOfTwo[h + 1] - 2 \in Nat
        BY <4>3, <4>4
      <4>6. t[n] \in U /\ t[n + PowerOfTwo[h - 1]] \in U
        BY <4>2
      <4>7. ParentHash(RefSize[n] + PowerOfTwo[h + 1] - 2, t[n], t[n + PowerOfTwo[h - 1]]) \in U
        BY <1>2, <4>5, <4>6, Zenon
      <4>. QED  BY <3>2, <4>7, Zenon
    <3>. QED  BY <3>1, <3>2, Zenon
  <2>. QED  BY <2>1, Zenon
<1>5. step \in [Nat -> [W -> W]]
  <2>. HIDE DEF W, Row
  <2>. QED  BY <1>4, Zenon
<1>6. PICK f : Recursive(f, W, leaf, step)
  <2>. HIDE DEF W, leaf, step
  <2>. QED  BY <1>3, <1>5, RecursionExists, Zenon
<1>7. f \in [Nat -> W] /\ f[0] = leaf /\ \A h \in Nat : h # 0 => f[h] = Row(h, f[h - 1])
  <2>1. f \in [Nat -> W] /\ f[0] = leaf
    BY <1>6, Zenon DEF Recursive
  <2>2. ASSUME NEW h \in Nat, h # 0 PROVE f[h] = Row(h, f[h - 1])
    <3>1. f[h] = step[h][f[h - 1]]
      <4>. HIDE DEF W, leaf, step
      <4>. QED  BY <1>6, <2>2, Zenon DEF Recursive
    <3>2. h - 1 \in Nat
      BY <2>2
    <3>3. f[h - 1] \in W
      <4>. HIDE DEF W
      <4>. QED  BY <2>1, <3>2
    <3>. HIDE DEF W, Row
    <3>. QED  BY <3>1, <3>3, Zenon
  <2>. QED  BY <2>1, <2>2, Zenon
<1>8. f = Body(f)
  <2>1. ASSUME NEW h \in Nat
        PROVE  f[h] = [n \in Nat |->
              IF h = 0 THEN LeafHash(RefSize[n], ls[n + 1])
              ELSE ParentHash(RefSize[n] + PowerOfTwo[h + 1] - 2,
                              f[h - 1][n], f[h - 1][n + PowerOfTwo[h - 1]])]
    <3>1. CASE h = 0
      <4>1. f[h] = leaf
        BY <1>7, <3>1, Zenon
      <4>. QED  BY <3>1, <4>1, Zenon
    <3>2. CASE h # 0
      BY <1>7, <3>2, Zenon
    <3>. QED  BY <3>1, <3>2, Zenon
  <2>2. f \in [Nat -> W]
    BY <1>7, Zenon
  <2>. HIDE DEF W
  <2>. QED  BY <2>1, <2>2, Zenon
<1>9. tree = Body(tree)
  <2>. HIDE DEF Body
  <2>. QED  BY <1>8, Zenon
<1>10. ASSUME NEW h \in Nat, NEW n \in Nat
       PROVE  tree[h][n] = IF h = 0 THEN LeafHash(RefSize[n], ls[n + 1])
              ELSE ParentHash(RefSize[n] + PowerOfTwo[h + 1] - 2,
                              tree[h - 1][n], tree[h - 1][n + PowerOfTwo[h - 1]])
  <2>. HIDE DEF tree
  <2>1. Body(tree)[h] = [m \in Nat |->
              IF h = 0 THEN LeafHash(RefSize[m], ls[m + 1])
              ELSE ParentHash(RefSize[m] + PowerOfTwo[h + 1] - 2,
                              tree[h - 1][m], tree[h - 1][m + PowerOfTwo[h - 1]])]
    BY Zenon
  <2>. HIDE DEF Body
  <2>2. tree[h] = [m \in Nat |->
              IF h = 0 THEN LeafHash(RefSize[m], ls[m + 1])
              ELSE ParentHash(RefSize[m] + PowerOfTwo[h + 1] - 2,
                              tree[h - 1][m], tree[h - 1][m + PowerOfTwo[h - 1]])]
    BY <1>9, <2>1, Zenon
  <2>. QED  BY <2>2, Zenon
<1>. HIDE DEF tree, Body
<1>11. ASSUME NEW n \in Nat PROVE tree[0][n] = LeafHash(LeafIndexAt(n), ls[n + 1])
  <2>1. 0 \in Nat
    OBVIOUS
  <2>. QED  BY <1>10, <2>1, SizeIs, Zenon
<1>12. ASSUME NEW h \in Nat, NEW n \in Nat
       PROVE  tree[h + 1][n] = ParentHash(LeafIndexAt(n) + 2 * Full(h + 1),
                                          tree[h][n], tree[h][n + PowerOfTwo[h]])
  <2>1. h + 1 \in Nat /\ h + 1 # 0 /\ (h + 1) - 1 = h
    OBVIOUS
  <2>2. PowerOfTwo[(h + 1) + 1] = 2 * PowerOfTwo[h + 1] /\ PowerOfTwo[h + 1] = Full(h + 1) + 1
        /\ Full(h + 1) \in Nat
    BY <2>1, Powers, FullTrees, Zenon
  <2>3. LeafIndexAt(n) \in Nat /\ RefSize[n] = LeafIndexAt(n)
    BY SizeIs, LeafPositions, Zenon
  <2>4. RefSize[n] + PowerOfTwo[(h + 1) + 1] - 2 = LeafIndexAt(n) + 2 * Full(h + 1)
    BY <2>2, <2>3
  <2>5. tree[h + 1][n] = ParentHash(RefSize[n] + PowerOfTwo[(h + 1) + 1] - 2,
                              tree[(h + 1) - 1][n], tree[(h + 1) - 1][n + PowerOfTwo[(h + 1) - 1]])
    BY <1>10, <2>1, Zenon
  <2>. QED  BY <2>1, <2>4, <2>5, Zenon
<1>. QED  BY <1>1, <1>11, <1>12, Zenon

\* root[n] bags the tallest tree of the last n leaves with the root of those behind it.
BagsTrees(root, ls) ==
  /\ root[0] = ZeroHash
  /\ \A k \in Nat : \A m \in Nat : m < PowerOfTwo[k] =>
       root[PowerOfTwo[k] + m] =
         IF m = 0 THEN TreeHash(ls)[k][Len(ls) - (PowerOfTwo[k] + m)]
         ELSE ParentHash(LeafIndexAt(Len(ls)),
                         TreeHash(ls)[k][Len(ls) - (PowerOfTwo[k] + m)], root[m])

\* So does the reference.
LEMMA RefRootIs ==
  ASSUME NEW ls, Len(ls) \in Nat
  PROVE  \E root : RefRoot(ls) = root[Len(ls)] /\ BagsTrees(root, ls)
<1>. DEFINE Body(f) == [n \in Nat |->
              IF n = 0 THEN ZeroHash
              ELSE IF n = PowerOfTwo[Log2[n]] THEN TreeHash(ls)[Log2[n]][Len(ls) - n]
              ELSE ParentHash(RefSize[Len(ls)], TreeHash(ls)[Log2[n]][Len(ls) - n],
                              f[n - PowerOfTwo[Log2[n]]])]
            root == CHOOSE f : f = Body(f)
            peak == [n \in Nat |-> TreeHash(ls)[Log2[n]][Len(ls) - n]]
            jump == [n \in Nat |-> IF n = 0 THEN 0 ELSE n - PowerOfTwo[Log2[n]]]
<1>1. RefRoot(ls) = root[Len(ls)]
  BY Zenon DEF RefRoot
<1>2. PICK U : /\ {ZeroHash} \cup {peak[n] : n \in Nat} \subseteq U
               /\ \A m \in Nat, a \in U, b \in U : ParentHash(m, a, b) \in U
  BY HashSetExists, Zenon
<1>3. ZeroHash \in U /\ \A n \in Nat : peak[n] \in U
  BY <1>2, Zenon
<1>4. \A n \in Nat : peak[n] = TreeHash(ls)[Log2[n]][Len(ls) - n]
  BY Zenon
<1>5. \A n \in Nat : n # 0 => jump[n] = n - PowerOfTwo[Log2[n]]
  BY Zenon
<1>6. \A n \in Nat : jump[n] \in Nat /\ (n # 0 => jump[n] < n)
  <2>1. jump[0] = 0 /\ 0 \in Nat
    OBVIOUS
  <2>. HIDE DEF jump
  <2>. QED  BY <1>5, <2>1, Leading, Zenon
<1>. DEFINE size == RefSize[Len(ls)]
            Val(n, v) == IF n = PowerOfTwo[Log2[n]] THEN peak[n] ELSE ParentHash(size, peak[n], v)
            combine == [n \in Nat |-> [v \in U |-> Val(n, v)]]
<1>7. size \in Nat /\ size = LeafIndexAt(Len(ls))
  BY SizeIs, LeafPositions, Zenon
<1>. HIDE DEF peak, jump, size
<1>8. combine \in [Nat -> [U -> U]]
  <2>1. ASSUME NEW n \in Nat, NEW v \in U PROVE Val(n, v) \in U
    BY <1>2, <1>3, <1>7, Zenon
  <2>. HIDE DEF Val
  <2>. QED  BY <2>1, Zenon
<1>9. PICK f : Descends(f, jump, U, ZeroHash, combine)
  <2>. HIDE DEF combine
  <2>. QED  BY <1>3, <1>6, <1>8, DescentExists, Zenon
<1>10. f = Body(f)
  <2>1. f \in [Nat -> U] /\ f[0] = ZeroHash
    BY <1>9, Zenon DEF Descends
  <2>2. ASSUME NEW n \in Nat, n # 0 PROVE f[n] = Val(n, f[jump[n]])
    <3>1. f[n] = combine[n][f[jump[n]]]
      <4>. HIDE DEF combine
      <4>. QED  BY <1>9, <2>2, Zenon DEF Descends
    <3>2. f[jump[n]] \in U
      BY <1>6, <2>1
    <3>. HIDE DEF Val
    <3>. QED  BY <3>1, <3>2, Zenon
  <2>3. ASSUME NEW n \in Nat
        PROVE  f[n] = IF n = 0 THEN ZeroHash
              ELSE IF n = PowerOfTwo[Log2[n]] THEN TreeHash(ls)[Log2[n]][Len(ls) - n]
              ELSE ParentHash(RefSize[Len(ls)], TreeHash(ls)[Log2[n]][Len(ls) - n],
                              f[n - PowerOfTwo[Log2[n]]])
    <3>1. CASE n = 0
      BY <2>1, <3>1, Zenon
    <3>2. CASE n # 0
      <4>1. f[n] = Val(n, f[n - PowerOfTwo[Log2[n]]])
        BY <1>5, <2>2, <3>2, Zenon
      <4>. QED  BY <1>4, <3>2, <4>1, Zenon DEF size
    <3>. QED  BY <3>1, <3>2, Zenon
  <2>. QED  BY <2>1, <2>3, Zenon
<1>11. root = Body(root)
  <2>. HIDE DEF Body
  <2>. QED  BY <1>10, Zenon
<1>12. \A n \in Nat : root[n] = IF n = 0 THEN ZeroHash
              ELSE IF n = PowerOfTwo[Log2[n]] THEN TreeHash(ls)[Log2[n]][Len(ls) - n]
              ELSE ParentHash(RefSize[Len(ls)], TreeHash(ls)[Log2[n]][Len(ls) - n],
                              root[n - PowerOfTwo[Log2[n]]])
  <2>. HIDE DEF root
  <2>. QED  BY <1>11, Zenon
<1>. HIDE DEF root, Body
<1>13. root[0] = ZeroHash
  BY <1>12
<1>14. ASSUME NEW k \in Nat, NEW m \in Nat, m < PowerOfTwo[k]
       PROVE  root[PowerOfTwo[k] + m] =
                IF m = 0 THEN TreeHash(ls)[k][Len(ls) - (PowerOfTwo[k] + m)]
                ELSE ParentHash(LeafIndexAt(Len(ls)),
                                TreeHash(ls)[k][Len(ls) - (PowerOfTwo[k] + m)], root[m])
  <2>. DEFINE a == PowerOfTwo[k]
              n == a + m
  <2>1. a \in Nat /\ a > 0 /\ PowerOfTwo[k + 1] = 2 * a /\ m < a
    BY <1>14, Powers, Zenon
  <2>. HIDE DEF a
  <2>2. n \in Nat /\ n # 0 /\ a <= n /\ n < 2 * a /\ n - a = m /\ (n = a <=> m = 0)
    BY <2>1
  <2>. HIDE DEF n
  <2>3. Log2[n] = k
    BY <2>1, <2>2, LogIs, Zenon DEF a
  <2>4. root[n] = IF n = PowerOfTwo[Log2[n]] THEN TreeHash(ls)[Log2[n]][Len(ls) - n]
              ELSE ParentHash(RefSize[Len(ls)], TreeHash(ls)[Log2[n]][Len(ls) - n],
                              root[n - PowerOfTwo[Log2[n]]])
    BY <1>12, <2>2, Zenon
  <2>5. root[n] = IF m = 0 THEN TreeHash(ls)[k][Len(ls) - n]
              ELSE ParentHash(LeafIndexAt(Len(ls)), TreeHash(ls)[k][Len(ls) - n], root[m])
    BY <1>7, <2>2, <2>3, <2>4, Zenon DEF a, size
  <2>. QED  BY <2>5, Zenon DEF n, a
<1>15. BagsTrees(root, ls)
  BY <1>13, <1>14, Zenon DEF BagsTrees
<1>. QED  BY <1>1, <1>15, Zenon

\* bag[i] bags the i-th peak with the bag of those to its right.
BagsPeaks(bag, H, peaks, size) ==
  \A i \in Nat : bag[i] =
    IF i > Len(peaks) THEN ZeroHash
    ELSE IF bag[i + 1] = ZeroHash THEN H[peaks[i]]
    ELSE ParentHash(size, H[peaks[i]], bag[i + 1])

\* So does MMR::Root.
LEMMA BagIs ==
  ASSUME NEW H, NEW size \in Nat, Len(Peaks(size)) \in Nat
  PROVE  \E bag : /\ Root(H, size) = IF size = 0 THEN ZeroHash ELSE bag[1]
                  /\ BagsPeaks(bag, H, Peaks(size), size)
<1>. DEFINE peaks == Peaks(size)
            Body(f) == [i \in Nat |->
              IF i > Len(peaks) THEN ZeroHash
              ELSE IF f[i + 1] = ZeroHash THEN H[peaks[i]]
              ELSE ParentHash(size, H[peaks[i]], f[i + 1])]
            bag == CHOOSE f : f = Body(f)
            L == Len(peaks)
<1>1. Root(H, size) = IF size = 0 THEN ZeroHash ELSE bag[1]
  BY Zenon DEF Root
<1>2. L \in Nat
  OBVIOUS
<1>. HIDE DEF peaks
<1>. DEFINE top == [j \in Nat |-> H[peaks[L + 1 - j]]]
<1>3. PICK U : /\ {ZeroHash} \cup {top[n] : n \in Nat} \subseteq U
               /\ \A m \in Nat, a \in U, b \in U : ParentHash(m, a, b) \in U
  BY HashSetExists, Zenon
<1>4. ZeroHash \in U /\ \A n \in Nat : top[n] \in U
  BY <1>3, Zenon
<1>5. \A j \in Nat : top[j] = H[peaks[L + 1 - j]]
  BY Zenon
<1>. DEFINE Val(j, v) == IF v = ZeroHash THEN top[j] ELSE ParentHash(size, top[j], v)
            step == [j \in Nat |-> [v \in U |-> Val(j, v)]]
<1>. HIDE DEF top
<1>6. step \in [Nat -> [U -> U]]
  <2>1. ASSUME NEW j \in Nat, NEW v \in U PROVE Val(j, v) \in U
    BY <1>3, <1>4, Zenon
  <2>. HIDE DEF Val
  <2>. QED  BY <2>1, Zenon
<1>7. PICK g : Recursive(g, U, ZeroHash, step)
  <2>. HIDE DEF step
  <2>. QED  BY <1>4, <1>6, RecursionExists, Zenon
<1>8. g[0] = ZeroHash /\ \A j \in Nat : j # 0 => g[j] = Val(j, g[j - 1])
  <2>1. g \in [Nat -> U] /\ g[0] = ZeroHash
    BY <1>7, Zenon DEF Recursive
  <2>2. ASSUME NEW j \in Nat, j # 0 PROVE g[j] = Val(j, g[j - 1])
    <3>1. g[j] = step[j][g[j - 1]]
      <4>. HIDE DEF step
      <4>. QED  BY <1>7, <2>2, Zenon DEF Recursive
    <3>2. j - 1 \in Nat
      BY <2>2
    <3>3. g[j - 1] \in U
      <4>. HIDE DEF step
      <4>. QED  BY <2>1, <3>2
    <3>. HIDE DEF Val
    <3>. QED  BY <3>1, <3>3, Zenon
  <2>. QED  BY <2>1, <2>2, Zenon
<1>. HIDE DEF L
<1>. DEFINE f == [i \in Nat |-> IF i > L THEN ZeroHash ELSE g[L + 1 - i]]
<1>9. \A i \in Nat : f[i] = IF i > L THEN ZeroHash ELSE g[L + 1 - i]
  BY Zenon
<1>10. ASSUME NEW i \in Nat
       PROVE  f[i] = IF i > L THEN ZeroHash
                     ELSE IF f[i + 1] = ZeroHash THEN H[peaks[i]]
                     ELSE ParentHash(size, H[peaks[i]], f[i + 1])
  <2>. HIDE DEF f
  <2>1. CASE i > L
    BY <1>9, <2>1, Zenon
  <2>2. CASE ~(i > L)
    <3>. DEFINE j == L + 1 - i
    <3>1. j \in Nat /\ j # 0 /\ L + 1 - j = i /\ i + 1 \in Nat /\ j - 1 \in Nat
      BY <1>2, <2>2
    <3>2. f[i] = Val(j, g[j - 1])
      <4>1. f[i] = g[j]
        BY <1>9, <2>2, Zenon
      <4>. HIDE DEF j
      <4>. QED  BY <1>8, <3>1, <4>1, Zenon
    <3>3. f[i + 1] = g[j - 1]
      <4>1. f[i + 1] = IF i + 1 > L THEN ZeroHash ELSE g[L + 1 - (i + 1)]
        BY <1>9, <3>1, Zenon
      <4>2. CASE i + 1 > L
        <5>1. j - 1 = 0
          BY <1>2, <2>2, <4>2
        <5>. HIDE DEF j
        <5>. QED  BY <1>8, <4>1, <4>2, <5>1, Zenon
      <4>3. CASE ~(i + 1 > L)
        <5>1. j - 1 = L + 1 - (i + 1)
          BY <1>2
        <5>. HIDE DEF j
        <5>. QED  BY <4>1, <4>3, <5>1, Zenon
      <4>. QED  BY <4>2, <4>3, Zenon
    <3>4. top[j] = H[peaks[i]]
      <4>. HIDE DEF j
      <4>. QED  BY <1>5, <3>1, Zenon
    <3>. HIDE DEF j
    <3>. QED  BY <2>2, <3>2, <3>3, <3>4, Zenon
  <2>. QED  BY <2>1, <2>2, Zenon
<1>11. f = Body(f)
  <2>1. f = [i \in Nat |-> f[i]]
    BY Zenon
  <2>. HIDE DEF f
  <2>2. Body(f) = [i \in Nat |-> f[i]]
    BY <1>10, Zenon DEF L
  <2>. QED  BY <2>1, <2>2, Zenon
<1>12. bag = Body(bag)
  <2>. HIDE DEF Body, f
  <2>. QED  BY <1>11, Zenon
<1>. HIDE DEF bag
<1>13. \A i \in Nat : bag[i] = IF i > Len(peaks) THEN ZeroHash
              ELSE IF bag[i + 1] = ZeroHash THEN H[peaks[i]]
              ELSE ParentHash(size, H[peaks[i]], bag[i + 1])
  BY <1>12, Zenon
<1>. HIDE DEF Body
<1>14. BagsPeaks(bag, H, peaks, size)
  BY <1>13, Zenon DEF BagsPeaks
<1>. QED  BY <1>1, <1>14, Zenon DEF peaks

-----------------------------------------------------------------------------
(* The inductive invariant, and the steps that keep it. *)

\* The hashes H, by position, are those of a range with the leaves ls.
Matches(H, ls) ==
  /\ \A n \in 1..Len(ls) : H[LeafIndexAt(n - 1)] = LeafHash(LeafIndexAt(n - 1), ls[n])
  /\ \A p \in 0..LeafIndexAt(Len(ls)) - 1 :
       CalculateHeight(p) # 0 =>
         H[p] = ParentHash(p, H[p - PowerOfTwo[CalculateHeight(p)]], H[p - 1])

\* The children of a node come before it.
LEMMA ChildrenBefore ==
  ASSUME NEW p \in Nat, CalculateHeight(p) # 0
  PROVE  /\ p - 1 \in 0..p - 1
         /\ p - PowerOfTwo[CalculateHeight(p)] \in 0..p - 1
<1>. DEFINE h == CalculateHeight(p)
            F == Full(h)
<1>1. h \in Nat /\ h # 0
  BY HeightType, Zenon
<1>2. F \in Nat /\ PowerOfTwo[h] = F + 1 /\ F >= h /\ 2 * F <= p
  BY <1>1, FullTrees, FullGrows, HeightFits, Zenon
<1>. HIDE DEF h, F
<1>3. p - 1 \in 0..p - 1 /\ p - PowerOfTwo[h] \in 0..p - 1
  BY <1>1, <1>2
<1>. QED  BY <1>3, Zenon DEF h

\* MMR::GetNumNodes is the position of the next leaf.
LEMMA NumNodesIs == \A n \in Nat : NumNodes(n) = LeafIndexAt(n)
  BY LeafPositions, Zenon DEF NumNodes

\* A shorter range has the first of the hashes.
LEMMA MatchesPrefix ==
  ASSUME NEW H, NEW G, NEW ls, NEW ks, Len(ls) \in Nat, Len(ks) \in Nat, Len(ks) <= Len(ls),
         \A i \in 1..Len(ks) : ks[i] = ls[i],
         \A p \in 0..LeafIndexAt(Len(ks)) - 1 : G[p] = H[p],
         Matches(H, ls)
  PROVE  Matches(G, ks)
<1>. DEFINE P == LeafIndexAt(Len(ks))
            Q == LeafIndexAt(Len(ls))
<1>1. P \in Nat /\ Q \in Nat /\ P <= Q
  BY LeafPositions, LeavesInOrder, Zenon
<1>2. \A p \in 0..P - 1 : G[p] = H[p]
  OBVIOUS
<1>3. ASSUME NEW n \in 1..Len(ks) PROVE G[LeafIndexAt(n - 1)] = LeafHash(LeafIndexAt(n - 1), ks[n])
  <2>1. n - 1 \in Nat /\ n - 1 < Len(ks) /\ n \in 1..Len(ls)
    OBVIOUS
  <2>2. LeafIndexAt(n - 1) < P /\ LeafIndexAt(n - 1) \in Nat
    BY <2>1, LeavesInOrder, LeafPositions, Zenon
  <2>3. LeafIndexAt(n - 1) \in 0..P - 1
    <3>. DEFINE x == LeafIndexAt(n - 1)
    <3>. HIDE DEF x, P
    <3>1. x \in 0..P - 1
      BY <1>1, <2>2 DEF x
    <3>. QED  BY <3>1 DEF x
  <2>4. H[LeafIndexAt(n - 1)] = LeafHash(LeafIndexAt(n - 1), ls[n])
    BY <2>1, Zenon DEF Matches
  <2>. QED  BY <1>2, <2>3, <2>4, Zenon
<1>4. ASSUME NEW p \in 0..P - 1, CalculateHeight(p) # 0
      PROVE  G[p] = ParentHash(p, G[p - PowerOfTwo[CalculateHeight(p)]], G[p - 1])
  <2>. HIDE DEF P, Q
  <2>1. p \in Nat /\ p \in 0..Q - 1
    BY <1>1
  <2>2. p - 1 \in 0..p - 1 /\ p - PowerOfTwo[CalculateHeight(p)] \in 0..p - 1
    BY <1>4, <2>1, ChildrenBefore, Zenon
  <2>3. \A q \in 0..p - 1 : q \in 0..P - 1
    BY <1>1
  <2>4. H[p] = ParentHash(p, H[p - PowerOfTwo[CalculateHeight(p)]], H[p - 1])
    BY <1>4, <2>1, Zenon DEF Matches, Q
  <2>. QED  BY <1>2, <2>2, <2>3, <2>4, Zenon
<1>. QED  BY <1>3, <1>4, Zenon DEF Matches

\* The hashes of a range and those that AddLeaf appends are the hashes of the range with the leaf.
LEMMA MatchesLonger ==
  ASSUME NEW H, NEW G, NEW ls, NEW ks, NEW d, NEW n \in Nat,
         Len(ls) = n, Len(ks) = n + 1, ks[n + 1] = d,
         \A i \in 1..n : ks[i] = ls[i],
         \A p \in 0..LeafIndexAt(n) - 1 : G[p] = H[p],
         \A i \in 1..NumParents(LeafIndexAt(n)) + 1 :
           G[LeafIndexAt(n) + i - 1] = AddedHashes(H, LeafIndexAt(n), d)[i],
         Matches(H, ls)
  PROVE  Matches(G, ks)
<1>. DEFINE P == LeafIndexAt(n)
            Q == LeafIndexAt(n + 1)
            K == NumParents(P)
            A == AddedHashes(H, P, d)
<1>1. P \in Nat /\ K \in Nat /\ P + K + 1 = Q
  BY LeafPositions, ParentsOfLeaf, Zenon
<1>2. /\ \A p \in 0..P - 1 : G[p] = H[p]
      /\ \A i \in 1..K + 1 : G[P + i - 1] = A[i]
  OBVIOUS
<1>3. /\ A[1] = LeafHash(P, d)
      /\ \A i \in 1..K : A[i + 1] = ParentHash(P + i, H[(P + i) - PowerOfTwo[i]], A[i])
  BY AddedAre
<1>4. \A i \in Nat : P + i < Q => CalculateHeight(P + i) = i
  BY HeightsBehindLeaf, Zenon
<1>. HIDE DEF A
<1>5. ASSUME NEW j \in 1..n + 1 PROVE G[LeafIndexAt(j - 1)] = LeafHash(LeafIndexAt(j - 1), ks[j])
  <2>1. CASE j = n + 1
    <3>1. j - 1 = n
      BY <2>1
    <3>2. 1 \in 1..K + 1 /\ P + 1 - 1 = P
      <4>1. P \in Nat /\ K \in Nat
        BY <1>1, Zenon
      <4>. HIDE DEF P, K
      <4>. QED  BY <4>1
    <3>3. G[P] = A[1]
      <4>1. G[P + 1 - 1] = A[1]
        BY <1>2, <3>2, Zenon
      <4>. QED  BY <3>2, <4>1, Zenon
    <3>. QED  BY <1>3, <2>1, <3>1, <3>3, Zenon
  <2>2. CASE j # n + 1
    <3>1. j \in 1..n /\ j - 1 \in Nat /\ j - 1 < n
      BY <2>2
    <3>2. LeafIndexAt(j - 1) < P /\ LeafIndexAt(j - 1) \in Nat
      BY <3>1, LeavesInOrder, LeafPositions, Zenon
    <3>3. LeafIndexAt(j - 1) \in 0..P - 1
      <4>. DEFINE x == LeafIndexAt(j - 1)
      <4>. HIDE DEF x, P
      <4>1. x \in 0..P - 1
        BY <1>1, <3>2 DEF x
      <4>. QED  BY <4>1 DEF x
    <3>4. H[LeafIndexAt(j - 1)] = LeafHash(LeafIndexAt(j - 1), ls[j])
      BY <3>1, Zenon DEF Matches
    <3>. QED  BY <1>2, <3>1, <3>3, <3>4, Zenon
  <2>. QED  BY <2>1, <2>2, Zenon
<1>6. ASSUME NEW p \in 0..Q - 1, CalculateHeight(p) # 0
      PROVE  G[p] = ParentHash(p, G[p - PowerOfTwo[CalculateHeight(p)]], G[p - 1])
  <2>1. \A q \in 0..P - 1 : CalculateHeight(q) # 0 =>
          H[q] = ParentHash(q, H[q - PowerOfTwo[CalculateHeight(q)]], H[q - 1])
    BY Zenon DEF Matches
  <2>2. p \in Nat
    OBVIOUS
  <2>3. p - 1 \in 0..p - 1 /\ p - PowerOfTwo[CalculateHeight(p)] \in 0..p - 1
    BY <1>6, <2>2, ChildrenBefore, Zenon
  <2>4. CASE p < P
    <3>. HIDE DEF P, Q, K
    <3>1. p \in 0..P - 1 /\ \A q \in 0..p - 1 : q \in 0..P - 1
      BY <1>1, <2>2, <2>4
    <3>. QED  BY <1>2, <1>6, <2>1, <2>3, <3>1, Zenon
  <2>5. CASE ~(p < P)
    <3>. DEFINE i == p - P
    <3>1. i \in Nat /\ P + i = p /\ i <= K /\ P + i < Q
      <4>. HIDE DEF P, Q, K
      <4>. QED  BY <1>1, <2>5
    <3>. HIDE DEF i
    <3>2. CalculateHeight(p) = i
      BY <1>4, <3>1, Zenon
    <3>3. 2 * Full(i) <= p /\ Full(i) \in Nat /\ PowerOfTwo[i] = Full(i) + 1 /\ Full(i) >= i
      BY <2>2, <3>1, <3>2, HeightFits, FullTrees, FullGrows, Zenon
    <3>4. i \in 1..K /\ i + 1 \in 1..K + 1 /\ i \in 1..K + 1 /\ P + (i + 1) - 1 = p /\ P + i - 1 = p - 1
      <4>. HIDE DEF P, Q, K
      <4>. QED  BY <1>1, <1>6, <2>2, <3>1, <3>2
    <3>5. p - PowerOfTwo[i] \in 0..P - 1
      <4>. DEFINE F == Full(i)
      <4>. HIDE DEF P, Q, K, F
      <4>1. 2 * F <= p /\ F \in Nat /\ PowerOfTwo[i] = F + 1 /\ F >= i
        BY <3>3 DEF F
      <4>2. i \in Nat /\ i # 0 /\ p = P + i
        BY <3>1, <3>4
      <4>. QED  BY <1>1, <2>2, <4>1, <4>2
    <3>6. G[p] = A[i + 1] /\ G[p - 1] = A[i] /\ G[p - PowerOfTwo[i]] = H[p - PowerOfTwo[i]]
      BY <1>2, <3>4, <3>5, Zenon
    <3>7. A[i + 1] = ParentHash(P + i, H[(P + i) - PowerOfTwo[i]], A[i])
      BY <1>3, <3>4, Zenon
    <3>8. A[i + 1] = ParentHash(p, H[p - PowerOfTwo[i]], A[i])
      BY <3>1, <3>7, Zenon
    <3>. QED  BY <3>2, <3>6, <3>8, Zenon
  <2>. QED  BY <2>4, <2>5, Zenon
<1>. QED  BY <1>5, <1>6, Zenon DEF Matches

\* What the additions and rewinds keep: the nodes are as many as the leaves call for, and have
\* their hashes.
RangeInv ==
  /\ leaves \in Seq(Data)
  /\ \E S : nodes \in Seq(S)
  /\ Len(nodes) = LeafIndexAt(Len(leaves))
  /\ Matches(Hashes, leaves)

\* The hashes by position.
LEMMA HashesAre ==
  ASSUME NEW S, nodes \in Seq(S)
  PROVE  \A p \in 0..Len(nodes) - 1 : Hashes[p] = nodes[p + 1]
  BY Zenon DEF Hashes, GetHash

\* NodesMatchLeaves says this of the range.
LEMMA NodesMatch ==
  ASSUME RangeInv
  PROVE  NodesMatchLeaves /\ GetNumNodes = LeafIndexAt(Len(leaves))
<1>. DEFINE N == LeafIndexAt(Len(leaves))
<1>1. PICK S : nodes \in Seq(S)
  BY DEF RangeInv
<1>2. Len(leaves) \in Nat
  BY DEF RangeInv
<1>3. GetNumNodes = N /\ Len(nodes) = N /\ N \in Nat
  BY <1>2, NumNodesIs, LeafPositions, Zenon DEF GetNumNodes, RangeInv
<1>4. \A p \in 0..N - 1 : Hashes[p] = GetHash(p)
  BY <1>1, <1>3, HashesAre, Zenon DEF GetHash
<1>5. ASSUME NEW n \in 1..Len(leaves)
      PROVE  GetHash(LeafIndexAt(n - 1)) = LeafHash(LeafIndexAt(n - 1), leaves[n])
  <2>1. n - 1 \in Nat /\ n - 1 < Len(leaves)
    BY <1>2
  <2>2. LeafIndexAt(n - 1) < N /\ LeafIndexAt(n - 1) \in Nat
    BY <1>2, <2>1, LeavesInOrder, LeafPositions, Zenon
  <2>3. LeafIndexAt(n - 1) \in 0..N - 1
    <3>. DEFINE x == LeafIndexAt(n - 1)
    <3>. HIDE DEF x, N
    <3>1. x \in 0..N - 1
      BY <1>3, <2>2 DEF x
    <3>. QED  BY <3>1 DEF x
  <2>. QED  BY <1>4, <2>3, Zenon DEF RangeInv, Matches
<1>6. ASSUME NEW p \in 0..N - 1, ~IsLeaf(IndexAt(p))
      PROVE  GetHash(p) = ParentHash(p, GetHash(GetLeftChild(IndexAt(p)).position),
                                        GetHash(GetRightChild(IndexAt(p)).position))
  <2>1. /\ CalculateHeight(p) # 0
        /\ GetLeftChild(IndexAt(p)).position = p - PowerOfTwo[CalculateHeight(p)]
        /\ GetRightChild(IndexAt(p)).position = p - 1
    BY <1>6 DEF IsLeaf, IndexAt, Index, GetLeftChild, GetRightChild
  <2>. HIDE DEF N
  <2>2. p \in Nat /\ \A q \in 0..p - 1 : q \in 0..N - 1
    BY <1>3
  <2>3. p - 1 \in 0..p - 1 /\ p - PowerOfTwo[CalculateHeight(p)] \in 0..p - 1
    BY <2>1, <2>2, ChildrenBefore, Zenon
  <2>4. Hashes[p] = ParentHash(p, Hashes[p - PowerOfTwo[CalculateHeight(p)]], Hashes[p - 1])
    BY <2>1, Zenon DEF RangeInv, Matches, N
  <2>. QED  BY <1>4, <2>1, <2>2, <2>3, <2>4, Zenon
<1>. QED  BY <1>3, <1>5, <1>6, Zenon DEF NodesMatchLeaves

\* The empty range.
LEMMA RangeInit == ASSUME Init PROVE RangeInv
<1>1. leaves = <<>> /\ nodes = <<>>
  BY DEF Init
<1>2. leaves \in Seq(Data) /\ nodes \in Seq({}) /\ Len(leaves) = 0 /\ Len(nodes) = 0
  BY <1>1
<1>3. LeafIndexAt(Len(leaves)) = 0
  BY <1>2, LeafPositions, Zenon
<1>4. Matches(Hashes, leaves)
  <2>1. 1..Len(leaves) = {} /\ 0..LeafIndexAt(Len(leaves)) - 1 = {}
    BY <1>2, <1>3
  <2>. QED  BY <2>1, Zenon DEF Matches
<1>. QED  BY <1>2, <1>3, <1>4, Zenon DEF RangeInv

\* MMR::Add appends the nodes that the longer range has.
LEMMA RangeAdd ==
  ASSUME RangeInv, NEW d \in Data, Add(d)
  PROVE  RangeInv'
<1>. DEFINE n == Len(leaves)
            P == LeafIndexAt(n)
            A == AddedHashes(Hashes, P, d)
            K == NumParents(P)
            T == {A[i] : i \in 1..K + 1}
<1>1. leaves' = Append(leaves, d) /\ nodes' = nodes \o A
  BY DEF Add
<1>2. PICK S : nodes \in Seq(S)
  BY DEF RangeInv
<1>3. leaves \in Seq(Data) /\ n \in Nat /\ Len(nodes) = P
  BY DEF RangeInv
<1>4. P \in Nat /\ K \in Nat /\ P + K + 1 = LeafIndexAt(n + 1)
  BY <1>3, LeafPositions, ParentsOfLeaf, Zenon
<1>5. A = [i \in 1..K + 1 |-> A[i]]
  <2>. HIDE DEF n
  <2>. QED  BY <1>3, AddedAre, Zenon
<1>6. /\ leaves' \in Seq(Data) /\ Len(leaves') = n + 1 /\ leaves'[n + 1] = d
      /\ \A i \in 1..n : leaves'[i] = leaves[i]
  BY <1>1, <1>3
<1>. HIDE DEF A, K, P, n
<1>7. A \in Seq(T) /\ Len(A) = K + 1
  <2>1. A \in [1..K + 1 -> T]
    BY <1>5, Zenon
  <2>2. K + 1 \in Nat
    BY <1>4
  <2>. HIDE DEF T
  <2>. QED  BY <2>1, <2>2
<1>. HIDE DEF T
<1>8. nodes \in Seq(S \cup T) /\ A \in Seq(S \cup T)
  BY <1>2, <1>7
<1>9. /\ nodes' \in Seq(S \cup T) /\ Len(nodes') = P + (K + 1)
      /\ \A i \in 1..P : nodes'[i] = nodes[i]
      /\ \A i \in 1..K + 1 : nodes'[P + i] = A[i]
  <2>. DEFINE V == S \cup T
  <2>. HIDE DEF V
  <2>1. nodes \in Seq(V) /\ A \in Seq(V)
    BY <1>8 DEF V
  <2>2. /\ nodes \o A \in Seq(V) /\ Len(nodes \o A) = Len(nodes) + Len(A)
        /\ \A i \in 1..Len(nodes) + Len(A) :
             (nodes \o A)[i] = IF i <= Len(nodes) THEN nodes[i] ELSE A[i - Len(nodes)]
    BY <2>1, ConcatProperties
  <2>3. /\ nodes' \in Seq(V) /\ Len(nodes') = P + (K + 1)
        /\ \A i \in 1..P + (K + 1) : nodes'[i] = IF i <= P THEN nodes[i] ELSE A[i - P]
    BY <1>1, <1>3, <1>7, <2>2, Zenon
  <2>4. ASSUME NEW i \in 1..P PROVE nodes'[i] = nodes[i]
    <3>1. i \in 1..P + (K + 1) /\ i <= P
      BY <1>4
    <3>. QED  BY <2>3, <3>1, Zenon
  <2>5. ASSUME NEW i \in 1..K + 1 PROVE nodes'[P + i] = A[i]
    <3>1. P + i \in 1..P + (K + 1) /\ ~(P + i <= P) /\ (P + i) - P = i
      BY <1>4
    <3>. QED  BY <2>3, <3>1, Zenon
  <2>. QED  BY <2>3, <2>4, <2>5, Zenon DEF V
<1>10. Len(nodes') = LeafIndexAt(Len(leaves'))
  <2>1. P + (K + 1) = P + K + 1
    BY <1>4
  <2>. QED  BY <1>4, <1>6, <1>9, <2>1, Zenon
<1>11. \A p \in 0..Len(nodes') - 1 : Hashes'[p] = nodes'[p + 1]
  BY Zenon DEF Hashes, GetHash
<1>12. \A p \in 0..P - 1 : Hashes'[p] = Hashes[p]
  <2>1. \A p \in 0..P - 1 : Hashes[p] = nodes[p + 1]
    BY <1>2, <1>3, HashesAre, Zenon
  <2>2. ASSUME NEW p \in 0..P - 1 PROVE Hashes'[p] = nodes'[p + 1] /\ nodes'[p + 1] = nodes[p + 1]
    <3>1. p \in 0..Len(nodes') - 1 /\ p + 1 \in 1..P
      BY <1>4, <1>9
    <3>. QED  BY <1>9, <1>11, <3>1, Zenon
  <2>. QED  BY <2>1, <2>2, Zenon
<1>13. ASSUME NEW i \in 1..K + 1 PROVE Hashes'[P + i - 1] = A[i]
  <2>1. P + i - 1 \in 0..Len(nodes') - 1 /\ (P + i - 1) + 1 = P + i
    BY <1>4, <1>9
  <2>. QED  BY <1>9, <1>11, <2>1, Zenon
<1>14. Matches(Hashes', leaves')
  <2>1. Matches(Hashes, leaves)
    BY DEF RangeInv
  <2>2. /\ \A p \in 0..LeafIndexAt(n) - 1 : Hashes'[p] = Hashes[p]
        /\ \A i \in 1..NumParents(LeafIndexAt(n)) + 1 :
             Hashes'[LeafIndexAt(n) + i - 1] = AddedHashes(Hashes, LeafIndexAt(n), d)[i]
    BY <1>12, <1>13, Zenon DEF A, K, P
  <2>3. Len(leaves) = n
    BY DEF n
  <2>. QED  BY <1>3, <1>6, <2>1, <2>2, <2>3, MatchesLonger, SMT
<1>15. Matches(Hashes, leaves)'
  BY <1>14, Zenon DEF Matches
<1>. QED  BY <1>6, <1>9, <1>10, <1>15, Zenon DEF RangeInv

\* What MMR::Rewind leaves of the leaves and of the nodes.
LEMMA Rewound ==
  ASSUME RangeInv, NEW numNodes \in 0..GetNumNodes, Rewind(numNodes)
  PROVE  \E m \in 0..Len(leaves) :
           /\ LeafIndexAt(m) = numNodes
           /\ leaves' = SubSeq(leaves, 1, m) /\ leaves' \in Seq(Data) /\ Len(leaves') = m
           /\ \A i \in 1..m : leaves'[i] = leaves[i]
           /\ \E S : nodes' \in Seq(S)
           /\ Len(nodes') = numNodes
           /\ \A p \in 0..numNodes - 1 : Hashes'[p] = Hashes[p]
<1>. DEFINE m == CalculateLeafIndex(numNodes)
            N == LeafIndexAt(Len(leaves))
<1>1. /\ IsLeaf(IndexAt(numNodes)) /\ leaves' = SubSeq(leaves, 1, m)
      /\ nodes' = SubSeq(nodes, 1, numNodes)
  BY Zenon DEF Rewind
<1>2. PICK S : nodes \in Seq(S)
  BY DEF RangeInv
<1>3. leaves \in Seq(Data) /\ Len(leaves) \in Nat /\ Len(nodes) = N
  BY DEF RangeInv
<1>4. GetNumNodes = N /\ N \in Nat
  BY <1>3, NodesMatch, LeafPositions, Zenon
<1>5. numNodes \in Nat /\ numNodes <= N
  <2>. HIDE DEF N
  <2>. QED  BY <1>4
<1>6. CalculateHeight(numNodes) = 0
  BY <1>1 DEF IsLeaf, IndexAt, Index
<1>7. m \in Nat /\ LeafIndexAt(m) = numNodes
  BY <1>5, <1>6, LeafFound, Zenon
<1>8. m <= Len(leaves)
  BY <1>3, <1>5, <1>7, LeavesInOrder, Zenon
<1>. HIDE DEF m, N
<1>9. m \in 0..Len(leaves)
  BY <1>3, <1>7, <1>8
<1>10. /\ leaves' \in Seq(Data) /\ Len(leaves') = m
       /\ \A i \in 1..m : leaves'[i] = leaves[i]
  BY <1>1, <1>3, <1>7, <1>8
<1>11. /\ nodes' \in Seq(S) /\ Len(nodes') = numNodes
       /\ \A i \in 1..numNodes : nodes'[i] = nodes[i]
  BY <1>1, <1>2, <1>3, <1>4, <1>5
<1>12. ASSUME NEW p \in 0..numNodes - 1 PROVE Hashes'[p] = Hashes[p]
  <2>1. p \in 0..Len(nodes) - 1 /\ p \in 0..Len(nodes') - 1 /\ p + 1 \in 1..numNodes
    BY <1>3, <1>4, <1>5, <1>11
  <2>2. Hashes[p] = nodes[p + 1] /\ Hashes'[p] = nodes'[p + 1]
    BY <2>1, Zenon DEF Hashes, GetHash
  <2>. QED  BY <1>11, <2>1, <2>2, Zenon
<1>. QED  BY <1>1, <1>7, <1>9, <1>10, <1>11, <1>12, Zenon

\* The hashes before a rewind, as far as the range then goes, are those of the leaves that stay.
LEMMA RangeRewind ==
  ASSUME RangeInv, NEW numNodes \in 0..GetNumNodes, Rewind(numNodes)
  PROVE  /\ RangeInv'
         /\ Matches(Hashes, leaves') /\ Matches(Hashes', leaves')
         /\ leaves' \in Seq(Data) /\ LeafIndexAt(Len(leaves')) = numNodes
<1>1. PICK m \in 0..Len(leaves) :
           /\ LeafIndexAt(m) = numNodes
           /\ leaves' = SubSeq(leaves, 1, m) /\ leaves' \in Seq(Data) /\ Len(leaves') = m
           /\ \A i \in 1..m : leaves'[i] = leaves[i]
           /\ \E S : nodes' \in Seq(S)
           /\ Len(nodes') = numNodes
           /\ \A p \in 0..numNodes - 1 : Hashes'[p] = Hashes[p]
  BY Rewound, Zenon
<1>2. Matches(Hashes, leaves) /\ leaves \in Seq(Data)
  BY DEF RangeInv
<1>3. Len(leaves) \in Nat /\ m \in Nat /\ m <= Len(leaves)
  BY <1>2
<1>4. Matches(Hashes, leaves') /\ Matches(Hashes', leaves')
  <2>1. Len(leaves') \in Nat /\ Len(leaves') <= Len(leaves) /\ LeafIndexAt(Len(leaves')) = numNodes
        /\ \A i \in 1..Len(leaves') : leaves'[i] = leaves[i]
    BY <1>1, <1>3, Zenon
  <2>2. \A p \in 0..LeafIndexAt(Len(leaves')) - 1 : Hashes'[p] = Hashes[p]
    BY <1>1, <2>1, Zenon
  <2>. QED  BY <1>2, <1>3, <2>1, <2>2, MatchesPrefix, Zenon
<1>5. Matches(Hashes, leaves)'
  BY <1>4, Zenon DEF Matches
<1>6. RangeInv'
  BY <1>1, <1>5, Zenon DEF RangeInv
<1>. QED  BY <1>1, <1>4, <1>6, Zenon

\* Every step keeps the range.
LEMMA RangeStep ==
  ASSUME RangeInv, [Next]_vars
  PROVE  RangeInv'
<1>1. CASE UNCHANGED vars
  <2>1. leaves' = leaves /\ nodes' = nodes
    BY <1>1 DEF vars
  <2>. QED  BY <2>1 DEF RangeInv, Matches, Hashes, GetHash
<1>2. ASSUME NEW d \in Data, Add(d) PROVE RangeInv'
  BY <1>2, RangeAdd, Zenon
<1>3. ASSUME NEW numNodes \in 0..GetNumNodes, Rewind(numNodes) PROVE RangeInv'
  BY <1>3, RangeRewind, Zenon
<1>. QED  BY <1>1, <1>2, <1>3, Zenon DEF Next

\* The range is always that of its leaves.
LEMMA RangeAlways == Spec => []RangeInv
<1>1. Init => RangeInv
  BY RangeInit, Zenon
<1>2. RangeInv /\ [Next]_vars => RangeInv'
  BY RangeStep, Zenon
<1>. QED  BY <1>1, <1>2, PTL DEF Spec

\* After any sequence of MMR::Add and MMR::Rewind, the nodes are those of a range built from the
\* leaves alone, and as many as MMR::GetNumNodes says.
THEOREM NodesAlwaysMatch == Spec => []NodesMatchLeaves
<1>1. RangeInv => NodesMatchLeaves
  BY NodesMatch, Zenon
<1>. QED  BY <1>1, RangeAlways, PTL

-----------------------------------------------------------------------------
(* The root: the trees of a range and the bagging of its peaks. *)

\* A perfect tree of height h stands, or would stand, behind the first n leaves.
Fits(n, h) ==
  /\ \A m \in Nat : m < PowerOfTwo[h] => LeafIndexAt(n + m) = LeafIndexAt(n) + LeafIndexAt(m)
  /\ \A q \in Nat : q < Full(h + 1) => CalculateHeight(LeafIndexAt(n) + q) = CalculateHeight(q)
  /\ LeafIndexAt(n + PowerOfTwo[h]) >= LeafIndexAt(n) + Full(h + 1)

\* The empty range has room for any.
LEMMA FitsFirst ==
  ASSUME NEW h \in Nat
  PROVE  Fits(0, h)
<1>1. LeafIndexAt(0) = 0 /\ \A m \in Nat : LeafIndexAt(m) \in Nat
  BY LeafPositions
<1>2. ASSUME NEW m \in Nat PROVE LeafIndexAt(0 + m) = LeafIndexAt(0) + LeafIndexAt(m)
  <2>1. 0 + m = m /\ LeafIndexAt(m) \in Nat
    BY <1>1
  <2>2. 0 + LeafIndexAt(m) = LeafIndexAt(m)
    BY <2>1
  <2>. QED  BY <1>1, <2>1, <2>2, Zenon
<1>3. ASSUME NEW q \in Nat PROVE CalculateHeight(LeafIndexAt(0) + q) = CalculateHeight(q)
  <2>1. 0 + q = q
    OBVIOUS
  <2>. QED  BY <1>1, <2>1, Zenon
<1>4. LeafIndexAt(0 + PowerOfTwo[h]) >= LeafIndexAt(0) + Full(h + 1)
  <2>1. PowerOfTwo[h] \in Nat /\ LeafIndexAt(PowerOfTwo[h]) = Full(h + 1) /\ Full(h + 1) \in Nat
    BY Powers, LeafBehindTree, FullHalf, Zenon
  <2>2. 0 + PowerOfTwo[h] = PowerOfTwo[h] /\ Full(h + 1) >= 0 + Full(h + 1)
    BY <2>1
  <2>. QED  BY <1>1, <2>1, <2>2, Zenon
<1>. QED  BY <1>2, <1>3, <1>4, Zenon DEF Fits

\* Where a tree fits, so do its halves, the second one behind the nodes of the first.
LEMMA FitsHalves ==
  ASSUME NEW n \in Nat, NEW h \in Nat, Fits(n, h + 1)
  PROVE  /\ Fits(n, h) /\ Fits(n + PowerOfTwo[h], h)
         /\ LeafIndexAt(n + PowerOfTwo[h]) = LeafIndexAt(n) + Full(h + 1)
<1>. DEFINE a == PowerOfTwo[h]
            F == Full(h + 1)
            P == LeafIndexAt(n)
<1>1. h + 1 \in Nat
  OBVIOUS
<1>2. /\ a \in Nat /\ a > 0 /\ PowerOfTwo[h + 1] = 2 * a /\ F \in Nat
      /\ Full((h + 1) + 1) = 2 * F + 1 /\ P \in Nat /\ LeafIndexAt(a) = F
  BY <1>1, Powers, FullTrees, LeafPositions, LeafBehindTree, Zenon
<1>3. /\ \A m \in Nat : m < 2 * a => LeafIndexAt(n + m) = P + LeafIndexAt(m)
      /\ \A q \in Nat : q < 2 * F + 1 => CalculateHeight(P + q) = CalculateHeight(q)
      /\ LeafIndexAt(n + 2 * a) >= P + (2 * F + 1)
  BY <1>2, Zenon DEF Fits
<1>4. \A m \in Nat : m < a => LeafIndexAt(a + m) = F + LeafIndexAt(m) /\ LeafIndexAt(m) \in Nat
  BY LeafPositions, Zenon
<1>5. \A q \in Nat : q < F => CalculateHeight(F + q) = CalculateHeight(q)
  BY <1>1, HeightBeside, Zenon
<1>. HIDE DEF a, F, P
<1>6. LeafIndexAt(n + a) = P + F
  <2>1. a < 2 * a
    BY <1>2
  <2>. QED  BY <1>2, <1>3, <2>1, Zenon
<1>7. Fits(n, h)
  <2>1. ASSUME NEW m \in Nat, m < a PROVE LeafIndexAt(n + m) = P + LeafIndexAt(m)
    <3>1. m < 2 * a
      BY <1>2, <2>1
    <3>. QED  BY <1>3, <3>1, Zenon
  <2>2. ASSUME NEW q \in Nat, q < F PROVE CalculateHeight(P + q) = CalculateHeight(q)
    <3>1. q < 2 * F + 1
      BY <1>2, <2>2
    <3>. QED  BY <1>3, <3>1, Zenon
  <2>3. LeafIndexAt(n + a) >= P + F
    BY <1>2, <1>6
  <2>. QED  BY <2>1, <2>2, <2>3, Zenon DEF Fits, a, F, P
<1>8. Fits(n + a, h)
  <2>1. ASSUME NEW m \in Nat, m < a PROVE LeafIndexAt((n + a) + m) = LeafIndexAt(n + a) + LeafIndexAt(m)
    <3>1. a + m \in Nat /\ a + m < 2 * a /\ n + (a + m) = (n + a) + m
      BY <1>2, <2>1
    <3>2. LeafIndexAt(n + (a + m)) = P + LeafIndexAt(a + m)
      BY <1>3, <3>1, Zenon
    <3>3. LeafIndexAt(a + m) = F + LeafIndexAt(m) /\ LeafIndexAt(m) \in Nat
      BY <1>4, <2>1, Zenon
    <3>4. P + (F + LeafIndexAt(m)) = (P + F) + LeafIndexAt(m)
      BY <1>2, <3>3
    <3>. QED  BY <1>6, <3>1, <3>2, <3>3, <3>4, Zenon
  <2>2. ASSUME NEW q \in Nat, q < F PROVE CalculateHeight(LeafIndexAt(n + a) + q) = CalculateHeight(q)
    <3>1. F + q \in Nat /\ F + q < 2 * F + 1 /\ P + (F + q) = (P + F) + q
      BY <1>2, <2>2
    <3>2. CalculateHeight(P + (F + q)) = CalculateHeight(F + q)
      BY <1>3, <3>1, Zenon
    <3>. QED  BY <1>5, <1>6, <2>2, <3>1, <3>2, Zenon
  <2>3. LeafIndexAt((n + a) + a) >= LeafIndexAt(n + a) + F
    <3>1. (n + a) + a = n + 2 * a /\ n + 2 * a \in Nat
      BY <1>2
    <3>2. LeafIndexAt(n + 2 * a) \in Nat
      BY <3>1, LeafPositions, Zenon
    <3>3. LeafIndexAt(n + 2 * a) >= (P + F) + F
      BY <1>2, <1>3, <3>2
    <3>. QED  BY <1>6, <3>1, <3>3, Zenon
  <2>. QED  BY <2>1, <2>2, <2>3, Zenon DEF Fits, a, F
<1>. QED  BY <1>6, <1>7, <1>8, Zenon DEF a, F, P

\* The top of a tree of the range has the hash of the tree.
LEMMA TreeTop ==
  ASSUME NEW H, NEW ls, Len(ls) \in Nat, Matches(H, ls)
  PROVE  \A h \in Nat : \A n \in Nat :
           Fits(n, h) /\ n + PowerOfTwo[h] <= Len(ls)
             => H[LeafIndexAt(n) + 2 * Full(h)] = TreeHash(ls)[h][n]
<1>. DEFINE S == {h \in Nat : \A n \in Nat :
           Fits(n, h) /\ n + PowerOfTwo[h] <= Len(ls)
             => H[LeafIndexAt(n) + 2 * Full(h)] = TreeHash(ls)[h][n]}
<1>1. 0 \in S
  <2>1. ASSUME NEW n \in Nat, n + PowerOfTwo[0] <= Len(ls)
        PROVE  H[LeafIndexAt(n) + 2 * Full(0)] = TreeHash(ls)[0][n]
    <3>1. n + 1 \in 1..Len(ls) /\ (n + 1) - 1 = n
      BY <2>1, Powers
    <3>2. H[LeafIndexAt((n + 1) - 1)] = LeafHash(LeafIndexAt((n + 1) - 1), ls[n + 1])
      BY <3>1, Zenon DEF Matches
    <3>3. H[LeafIndexAt(n)] = LeafHash(LeafIndexAt(n), ls[n + 1])
      BY <3>1, <3>2, Zenon
    <3>4. LeafIndexAt(n) \in Nat /\ Full(0) = 0
      BY LeafPositions, FullTrees, Zenon
    <3>5. LeafIndexAt(n) + 2 * Full(0) = LeafIndexAt(n)
      BY <3>4
    <3>6. TreeHash(ls)[0][n] = LeafHash(LeafIndexAt(n), ls[n + 1])
      BY TreeHashIs, Zenon
    <3>. QED  BY <3>3, <3>5, <3>6, Zenon
  <2>. QED  BY <2>1
<1>2. ASSUME NEW h \in Nat, h \in S PROVE h + 1 \in S
  <2>1. ASSUME NEW n \in Nat, Fits(n, h + 1), n + PowerOfTwo[h + 1] <= Len(ls)
        PROVE  H[LeafIndexAt(n) + 2 * Full(h + 1)] = TreeHash(ls)[h + 1][n]
    <3>. DEFINE a == PowerOfTwo[h]
                F == Full(h + 1)
                t == Full(h)
                P == LeafIndexAt(n)
                p == P + 2 * F
                tree == TreeHash(ls)
    <3>1. h + 1 \in Nat
      OBVIOUS
    <3>2. /\ a \in Nat /\ a > 0 /\ PowerOfTwo[h + 1] = 2 * a /\ F \in Nat /\ t \in Nat
          /\ F = 2 * t + 1 /\ Full((h + 1) + 1) = 2 * F + 1 /\ PowerOfTwo[h + 1] = F + 1 /\ P \in Nat
      BY <3>1, Powers, FullTrees, LeafPositions, Zenon
    <3>3. Fits(n, h) /\ Fits(n + a, h) /\ LeafIndexAt(n + a) = P + F
      BY <2>1, FitsHalves, Zenon
    <3>4. /\ \A x \in Nat : Fits(x, h) /\ x + a <= Len(ls) => H[LeafIndexAt(x) + 2 * t] = tree[h][x]
      BY <1>2, Zenon
    <3>5. CalculateHeight(p) = h + 1
      <4>1. \A q \in Nat : q < 2 * F + 1 => CalculateHeight(P + q) = CalculateHeight(q)
        BY <2>1, <3>2, Zenon DEF Fits
      <4>2. 2 * F \in Nat /\ 2 * F < 2 * F + 1
        <5>1. F \in Nat
          BY <3>2, Zenon
        <5>. HIDE DEF F
        <5>. QED  BY <5>1
      <4>3. CalculateHeight(2 * F) = h + 1
        BY <3>1, HeightTop, Zenon
      <4>. QED  BY <4>1, <4>2, <4>3, Zenon
    <3>6. p \in 0..LeafIndexAt(Len(ls)) - 1
      <4>. DEFINE x == LeafIndexAt(n + 2 * a)
                  N == LeafIndexAt(Len(ls))
      <4>1. n + 2 * a \in Nat /\ n + 2 * a <= Len(ls)
        <5>. HIDE DEF a
        <5>. QED  BY <2>1, <3>2
      <4>2. x \in Nat /\ N \in Nat /\ x <= N
        BY <4>1, LeafPositions, LeavesInOrder, Zenon
      <4>3. x >= P + (2 * F + 1)
        BY <2>1, <3>2, Zenon DEF Fits
      <4>4. p = P + 2 * F
        OBVIOUS
      <4>5. P \in Nat /\ F \in Nat
        BY <3>2, Zenon
      <4>. HIDE DEF x, N, P, F, p
      <4>6. p \in 0..N - 1
        BY <4>2, <4>3, <4>4, <4>5
      <4>. QED  BY <4>6, Zenon DEF N
    <3>7. H[p] = ParentHash(p, H[p - PowerOfTwo[CalculateHeight(p)]], H[p - 1])
      <4>1. CalculateHeight(p) # 0
        <5>. HIDE DEF p
        <5>. QED  BY <3>5
      <4>. HIDE DEF p
      <4>. QED  BY <3>6, <4>1, Zenon DEF Matches
    <3>8. H[p] = ParentHash(p, H[p - PowerOfTwo[h + 1]], H[p - 1])
      <4>. HIDE DEF p
      <4>. QED  BY <3>5, <3>7, Zenon
    <3>9. p - PowerOfTwo[h + 1] = P + 2 * t /\ p - 1 = (P + F) + 2 * t
      <4>. HIDE DEF P, F, t
      <4>. QED  BY <3>2
    <3>10. H[P + 2 * t] = tree[h][n] /\ H[(P + F) + 2 * t] = tree[h][n + a]
      <4>1. n + a <= Len(ls) /\ (n + a) + a <= Len(ls) /\ n + a \in Nat
        <5>. HIDE DEF a
        <5>. QED  BY <2>1, <3>2
      <4>. HIDE DEF tree, F, t, a
      <4>. QED  BY <3>3, <3>4, <4>1, Zenon
    <3>11. tree[h + 1][n] = ParentHash(P + 2 * F, tree[h][n], tree[h][n + a])
      BY TreeHashIs, Zenon
    <3>. HIDE DEF P, F, t, a, tree
    <3>12. H[P + 2 * F] = tree[h + 1][n]
      BY <3>8, <3>9, <3>10, <3>11, Zenon
    <3>. QED  BY <3>12, Zenon DEF P, F, tree
  <2>. QED  BY <2>1
<1>3. \A h \in Nat : h \in S
  <2>. HIDE DEF S
  <2>. QED  BY <1>1, <1>2, InductionOver, Zenon
<1>. QED  BY <1>3

\* No node has the hash of the empty range.
LEMMA HashesNotZero ==
  /\ \A x, y : LeafHash(x, y) # ZeroHash
  /\ \A x, y, z : ParentHash(x, y, z) # ZeroHash
  BY DEF LeafHash, ParentHash, ZeroHash

\* Nor has a tree.
LEMMA TreesNotZero ==
  ASSUME NEW ls, NEW h \in Nat, NEW n \in Nat
  PROVE  TreeHash(ls)[h][n] # ZeroHash
<1>1. CASE h = 0
  <2>1. TreeHash(ls)[0][n] = LeafHash(LeafIndexAt(n), ls[n + 1])
    BY TreeHashIs, Zenon
  <2>2. TreeHash(ls)[0][n] # ZeroHash
    BY <2>1, HashesNotZero, Zenon
  <2>. QED  BY <1>1, <2>2, Zenon
<1>2. CASE h # 0
  <2>1. h - 1 \in Nat /\ (h - 1) + 1 = h
    BY <1>2
  <2>2. TreeHash(ls)[(h - 1) + 1][n] =
          ParentHash(LeafIndexAt(n) + 2 * Full((h - 1) + 1),
                     TreeHash(ls)[h - 1][n], TreeHash(ls)[h - 1][n + PowerOfTwo[h - 1]])
    BY <2>1, TreeHashIs, Zenon
  <2>. QED  BY <2>1, <2>2, HashesNotZero, Zenon
<1>. QED  BY <1>1, <1>2, Zenon

\* The peaks that MMR::Root finds from the i-th on are those in Q.
Rest(peaks, i, Q) ==
  /\ Len(peaks) = (i - 1) + Len(Q)
  /\ \A j \in 1..Len(Q) : peaks[(i - 1) + j] = Q[j]

\* Bagging the peaks, of those of a tree of k levels on, gives the reference's root of the leaves
\* below them.
LEMMA BagsRest ==
  ASSUME NEW H, NEW ls, Len(ls) \in Nat, Matches(H, ls), NEW peaks, Len(peaks) \in Nat,
         NEW root, BagsTrees(root, ls), NEW bag, BagsPeaks(bag, H, peaks, LeafIndexAt(Len(ls)))
  PROVE  \A k \in Nat : \A r \in Nat, n \in Nat, i \in Nat :
           /\ r < PowerOfTwo[k] /\ n + r = Len(ls) /\ Fits(n, k) /\ i # 0
           /\ Rest(peaks, i, PeakLoop[Full(k)][LeafIndexAt(r)][LeafIndexAt(n)])
           => bag[i] = root[r] /\ (r # 0 => root[r] # ZeroHash)
<1>. DEFINE Good(k, r, n, i) ==
              /\ r < PowerOfTwo[k] /\ n + r = Len(ls) /\ Fits(n, k) /\ i # 0
              /\ Rest(peaks, i, PeakLoop[Full(k)][LeafIndexAt(r)][LeafIndexAt(n)])
            Bags(r, i) == bag[i] = root[r] /\ (r # 0 => root[r] # ZeroHash)
            S == {k \in Nat : \A r \in Nat, n \in Nat, i \in Nat : Good(k, r, n, i) => Bags(r, i)}
<1>1. 0 \in S
  <2>1. ASSUME NEW r \in Nat, NEW n \in Nat, NEW i \in Nat, Good(0, r, n, i)
        PROVE  Bags(r, i)
    <3>1. r = 0
      <4>1. r < PowerOfTwo[0]
        BY <2>1
      <4>. QED  BY <4>1, Powers
    <3>2. PeakLoop[Full(0)][LeafIndexAt(r)][LeafIndexAt(n)] = <<>>
      BY LeafPositions, PeakEnd, Zenon
    <3>3. Rest(peaks, i, <<>>) /\ i # 0
      BY <2>1, <3>2, Zenon
    <3>4. i > Len(peaks)
      BY <3>3 DEF Rest
    <3>5. bag[i] = ZeroHash
      BY <3>4 DEF BagsPeaks
    <3>6. root[0] = ZeroHash
      BY Zenon DEF BagsTrees
    <3>. QED  BY <3>1, <3>5, <3>6, Zenon
  <2>. HIDE DEF Good, Bags
  <2>. QED  BY <2>1
<1>2. ASSUME NEW k \in Nat, k \in S PROVE k + 1 \in S
  <2>1. ASSUME NEW r \in Nat, NEW n \in Nat, NEW i \in Nat, Good(k + 1, r, n, i)
        PROVE  Bags(r, i)
    <3>. DEFINE a == PowerOfTwo[k]
                F == Full(k + 1)
                t == Full(k)
                P == LeafIndexAt(n)
                Q == PeakLoop[F][LeafIndexAt(r)][P]
                L == Len(ls)
                N == LeafIndexAt(L)
                tree == TreeHash(ls)
    <3>1. /\ a \in Nat /\ a > 0 /\ PowerOfTwo[k + 1] = 2 * a /\ F \in Nat /\ t \in Nat
          /\ F = 2 * t + 1 /\ P \in Nat /\ LeafIndexAt(a) = F /\ LeafIndexAt(r) \in Nat
      BY Powers, FullTrees, FullHalf, LeafPositions, LeafBehindTree, Zenon
    <3>2. \A x \in Nat, y \in Nat, z \in Nat : Good(k, x, y, z) => Bags(x, z)
      <4>. HIDE DEF Good, Bags
      <4>. QED  BY <1>2
    <3>3. r < 2 * a /\ n + r = L /\ Fits(n, k + 1) /\ i # 0 /\ Rest(peaks, i, Q)
      BY <2>1, <3>1, Zenon
    <3>4. Fits(n, k) /\ Fits(n + a, k) /\ LeafIndexAt(n + a) = P + F
      BY <3>3, FitsHalves, Zenon
    <3>5. /\ LeafIndexAt(r) >= F => Q = <<P + F - 1>> \o PeakLoop[t][LeafIndexAt(r) - F][P + F]
          /\ ~(LeafIndexAt(r) >= F) => Q = PeakLoop[t][LeafIndexAt(r)][P]
      <4>1. LeafIndexAt(r) \in Nat /\ P \in Nat
        BY <3>1, Zenon
      <4>2. ASSUME LeafIndexAt(r) >= F
            PROVE  Q = <<P + F - 1>> \o PeakLoop[t][LeafIndexAt(r) - F][P + F]
        BY <4>1, <4>2, PeakTaken, ZenonT(30)
      <4>3. ASSUME ~(LeafIndexAt(r) >= F) PROVE Q = PeakLoop[t][LeafIndexAt(r)][P]
        <5>1. LeafIndexAt(r) \in Nat /\ P \in Nat /\ ~(LeafIndexAt(r) >= Full(k + 1))
          BY <4>1, <4>3, Zenon
        <5>. DEFINE y == LeafIndexAt(r)
        <5>. HIDE DEF P, y
        <5>2. y \in Nat /\ P \in Nat /\ ~(y >= Full(k + 1))
          BY <5>1, Zenon DEF y
        <5>3. PeakLoop[Full(k + 1)][y][P] = PeakLoop[Full(k)][y][P]
          BY <5>2, PeakPassed, SMT
        <5>. QED  BY <5>3, Zenon DEF y
      <4>. QED  BY <4>2, <4>3, Zenon
    <3>6. CASE r < a
      <4>1. LeafIndexAt(r) < F
        BY <3>1, <3>6, LeavesInOrder, Zenon
      <4>2. ~(LeafIndexAt(r) >= F)
        <5>1. F \in Nat /\ LeafIndexAt(r) \in Nat
          BY <3>1, Zenon
        <5>. HIDE DEF F
        <5>. QED  BY <4>1, <5>1
      <4>3. Q = PeakLoop[t][LeafIndexAt(r)][P]
        BY <3>5, <4>2, Zenon
      <4>4. Good(k, r, n, i)
        <5>. HIDE DEF Q
        <5>. QED  BY <3>3, <3>4, <3>6, <4>3, Zenon
      <4>. HIDE DEF Good, Bags
      <4>. QED  BY <3>2, <4>4, Zenon
    <3>7. CASE ~(r < a)
      <4>. DEFINE m == r - a
                  Q2 == PeakLoop[t][LeafIndexAt(m)][P + F]
                  top == tree[k][n]
      <4>1. m \in Nat /\ m < a /\ a + m = r /\ n + a \in Nat /\ (n + a) + m = L /\ n + a <= L /\ L - (a + m) = n
            /\ r # 0
        <5>1. a \in Nat /\ a > 0 /\ r < 2 * a /\ n + r = L
          BY <3>1, <3>3, Zenon
        <5>. HIDE DEF a
        <5>. QED  BY <3>7, <5>1
      <4>. HIDE DEF m
      <4>2. LeafIndexAt(r) = F + LeafIndexAt(m) /\ LeafIndexAt(m) \in Nat
        BY <4>1, LeafPositions, Zenon
      <4>3. LeafIndexAt(r) >= F /\ LeafIndexAt(r) - F = LeafIndexAt(m)
        <5>1. F \in Nat
          BY <3>1, Zenon
        <5>. HIDE DEF F
        <5>. QED  BY <4>2, <5>1
      <4>4. Q = <<P + F - 1>> \o Q2
        BY <3>5, <4>3, Zenon
      <4>5. Q2 \in Seq(Nat)
        <5>1. P + F \in Nat
          <6>1. P \in Nat /\ F \in Nat
            BY <3>1, Zenon
          <6>. HIDE DEF P, F
          <6>. QED  BY <6>1
        <5>. QED  BY <4>2, <5>1, PeakEnd, Zenon
      <4>6. P + F - 1 = P + 2 * t /\ P + 2 * t \in Nat
        <5>1. P \in Nat /\ F \in Nat /\ t \in Nat /\ F = 2 * t + 1
          BY <3>1, Zenon
        <5>. HIDE DEF P, F, t
        <5>. QED  BY <5>1
      <4>7. /\ Len(Q) = 1 + Len(Q2) /\ Q[1] = P + 2 * t /\ Len(Q2) \in Nat
            /\ \A j \in 1..Len(Q2) : Q[1 + j] = Q2[j]
        <5>. HIDE DEF Q, Q2, P, F, t
        <5>. QED  BY <4>4, <4>5, <4>6
      <4>8. Rest(peaks, i, Q)
        BY <3>3, Zenon
      <4>9. Rest(peaks, i + 1, Q2) /\ peaks[i] = P + 2 * t /\ ~(i > Len(peaks))
        <5>. HIDE DEF Q, Q2, P, t
        <5>1. (i + 1) - 1 = i /\ i # 0 /\ (i - 1) + 1 = i
          BY <3>3
        <5>2. Len(peaks) = ((i + 1) - 1) + Len(Q2)
          BY <4>7, <4>8, <5>1 DEF Rest
        <5>3. ASSUME NEW j \in 1..Len(Q2) PROVE peaks[((i + 1) - 1) + j] = Q2[j]
          <6>1. 1 + j \in 1..Len(Q) /\ (i - 1) + (1 + j) = ((i + 1) - 1) + j
            BY <4>7, <5>1
          <6>2. peaks[(i - 1) + (1 + j)] = Q[1 + j]
            BY <4>8, <6>1, Zenon DEF Rest
          <6>. QED  BY <4>7, <6>1, <6>2, Zenon
        <5>4. peaks[i] = Q[1] /\ ~(i > Len(peaks))
          <6>1. 1 \in 1..Len(Q)
            BY <4>7
          <6>2. peaks[(i - 1) + 1] = Q[1]
            BY <4>8, <6>1, Zenon DEF Rest
          <6>3. ~(i > Len(peaks))
            BY <4>7, <5>1, <5>2
          <6>. QED  BY <5>1, <6>2, <6>3, Zenon
        <5>. QED  BY <4>7, <5>2, <5>3, <5>4, Zenon DEF Rest
      <4>10. i + 1 \in Nat /\ i + 1 # 0
        OBVIOUS
      <4>11. Good(k, m, n + a, i + 1)
        BY <3>4, <4>1, <4>9, <4>10, Zenon
      <4>12. Bags(m, i + 1)
        <5>. HIDE DEF Good, Bags
        <5>. QED  BY <3>2, <4>1, <4>10, <4>11, Zenon
      <4>13. bag[i + 1] = root[m] /\ (m # 0 => root[m] # ZeroHash)
        BY <4>12, Zenon
      <4>14. H[P + 2 * t] = top
        <5>1. \A h \in Nat : \A x \in Nat :
                Fits(x, h) /\ x + PowerOfTwo[h] <= L => H[LeafIndexAt(x) + 2 * Full(h)] = tree[h][x]
          BY TreeTop
        <5>2. Fits(n, k) /\ n + PowerOfTwo[k] <= L
          BY <3>4, <4>1, Zenon
        <5>. QED  BY <5>1, <5>2, Zenon
      <4>15. top # ZeroHash
        BY TreesNotZero, Zenon
      <4>16. bag[i] = IF bag[i + 1] = ZeroHash THEN H[peaks[i]] ELSE ParentHash(N, H[peaks[i]], bag[i + 1])
        BY <4>9, Zenon DEF BagsPeaks
      <4>17. root[a + m] = IF m = 0 THEN tree[k][L - (a + m)] ELSE ParentHash(N, tree[k][L - (a + m)], root[m])
        BY <4>1, Zenon DEF BagsTrees
      <4>18. H[peaks[i]] = top /\ tree[k][L - (a + m)] = top
        BY <4>1, <4>9, <4>14, Zenon
      <4>. HIDE DEF top, tree, a, L, N, P, t
      <4>19. root[r] = IF m = 0 THEN top ELSE ParentHash(N, top, root[m])
        BY <4>1, <4>17, <4>18, Zenon
      <4>20. bag[i] = IF root[m] = ZeroHash THEN top ELSE ParentHash(N, top, root[m])
        BY <4>13, <4>16, <4>18, Zenon
      <4>21. CASE m = 0
        <5>1. root[m] = ZeroHash
          BY <4>21, Zenon DEF BagsTrees
        <5>. QED  BY <4>15, <4>19, <4>20, <4>21, <5>1, Zenon
      <4>22. CASE m # 0
        <5>1. root[r] = ParentHash(N, top, root[m]) /\ bag[i] = ParentHash(N, top, root[m])
          BY <4>13, <4>19, <4>20, <4>22, Zenon
        <5>2. root[r] # ZeroHash /\ bag[i] = root[r]
          BY <5>1, HashesNotZero, Zenon
        <5>. QED  BY <5>2, Zenon
      <4>. QED  BY <4>21, <4>22, Zenon
    <3>. QED  BY <3>6, <3>7, Zenon
  <2>. HIDE DEF Good, Bags
  <2>. QED  BY <2>1
<1>3. \A k \in Nat : k \in S
  <2>. HIDE DEF S
  <2>. QED  BY <1>1, <1>2, InductionOver, Zenon
<1>. QED  BY <1>3

\* MMR::Root is the reference's root of the leaves, over any hashes that match them.
LEMMA RootIs ==
  ASSUME NEW H, NEW ls, Len(ls) \in Nat, Matches(H, ls)
  PROVE  Root(H, LeafIndexAt(Len(ls))) = RefRoot(ls)
<1>. DEFINE L == Len(ls)
            N == LeafIndexAt(L)
            peaks == Peaks(N)
<1>1. N \in Nat /\ N >= L /\ LeafIndexAt(0) = 0 /\ L < PowerOfTwo[L] /\ N < Full(L + 1)
  <2>1. Full(L) >= L /\ Full(L) \in Nat /\ PowerOfTwo[L] = Full(L) + 1 /\ PowerOfTwo[L] \in Nat
    BY FullGrows, FullTrees, Powers, Zenon
  <2>2. L < PowerOfTwo[L]
    BY <2>1
  <2>3. N < LeafIndexAt(PowerOfTwo[L]) /\ LeafIndexAt(PowerOfTwo[L]) = Full(L + 1)
    BY <2>1, <2>2, LeavesInOrder, LeafBehindTree, Zenon
  <2>. QED  BY <2>2, <2>3, LeafPositions, Zenon
<1>2. peaks = PeakLoop[Full(L)][N][0] /\ peaks \in Seq(Nat)
  <2>1. 0 \in Nat
    OBVIOUS
  <2>2. peaks = PeakLoop[Full(L)][N][0]
    BY <1>1, PeaksAre, Zenon
  <2>3. PeakLoop[Full(L)][N][0] \in Seq(Nat)
    BY <1>1, <2>1, PeakEnd, Zenon
  <2>. QED  BY <2>2, <2>3, Zenon
<1>3. Len(peaks) \in Nat
  <2>. HIDE DEF peaks
  <2>. QED  BY <1>2
<1>4. PICK root : RefRoot(ls) = root[L] /\ BagsTrees(root, ls)
  BY RefRootIs, Zenon
<1>5. PICK bag : /\ Root(H, N) = IF N = 0 THEN ZeroHash ELSE bag[1]
                 /\ BagsPeaks(bag, H, peaks, N)
  BY <1>1, <1>3, BagIs, Zenon
<1>6. Rest(peaks, 1, PeakLoop[Full(L)][LeafIndexAt(L)][LeafIndexAt(0)])
  <2>1. Rest(peaks, 1, peaks)
    <3>. HIDE DEF peaks
    <3>1. Len(peaks) = (1 - 1) + Len(peaks) /\ \A j \in 1..Len(peaks) : (1 - 1) + j = j
      BY <1>3
    <3>. QED  BY <3>1, Zenon DEF Rest
  <2>. HIDE DEF peaks
  <2>. QED  BY <1>1, <1>2, <2>1, Zenon
<1>7. 0 + L = Len(ls) /\ Fits(0, L) /\ 0 \in Nat /\ 1 \in Nat /\ 1 # 0
  <2>1. Fits(0, L)
    BY FitsFirst, Zenon
  <2>. QED  BY <2>1
<1>8. \A k \in Nat : \A r \in Nat, n \in Nat, i \in Nat :
        /\ r < PowerOfTwo[k] /\ n + r = Len(ls) /\ Fits(n, k) /\ i # 0
        /\ Rest(peaks, i, PeakLoop[Full(k)][LeafIndexAt(r)][LeafIndexAt(n)])
        => bag[i] = root[r] /\ (r # 0 => root[r] # ZeroHash)
  <2>1. BagsTrees(root, ls) /\ BagsPeaks(bag, H, peaks, LeafIndexAt(Len(ls)))
    BY <1>4, <1>5, Zenon
  <2>. HIDE DEF peaks, L, N
  <2>. QED  BY <1>3, <2>1, BagsRest
<1>9. bag[1] = root[L]
  <2>1. L \in Nat /\ L < PowerOfTwo[L]
    BY <1>1, Zenon
  <2>. HIDE DEF peaks, L, N
  <2>. QED  BY <1>6, <1>7, <1>8, <2>1
<1>10. N = 0 => root[L] = ZeroHash
  <2>1. N = 0 => L = 0
    <3>1. L \in Nat
      OBVIOUS
    <3>. HIDE DEF N, L
    <3>. QED  BY <1>1, <3>1
  <2>2. root[0] = ZeroHash
    BY <1>4, Zenon DEF BagsTrees
  <2>. QED  BY <2>1, <2>2, Zenon
<1>. QED  BY <1>4, <1>5, <1>9, <1>10, Zenon

\* At every moment MMR::Root commits to exactly the leaves of the range: it is the root that the
\* reference computes from them.
THEOREM RootAlwaysMatches == Spec => []RootMatchesLeaves
<1>1. ASSUME RangeInv PROVE RootMatchesLeaves
  <2>1. GetNumNodes = LeafIndexAt(Len(leaves)) /\ Matches(Hashes, leaves)
    BY <1>1, NodesMatch, Zenon DEF RangeInv
  <2>2. Len(leaves) \in Nat
    BY <1>1 DEF RangeInv
  <2>3. Root(Hashes, LeafIndexAt(Len(leaves))) = RefRoot(leaves)
    BY <2>1, <2>2, RootIs, Zenon
  <2>. QED  BY <2>1, <2>3, Zenon DEF RootMatchesLeaves
<1>. QED  BY <1>1, RangeAlways, PTL

\* MMR::Rewind to the position of a leaf leaves a range of that size, with the root it had when
\* it had that size.
THEOREM RewindAlwaysRestores == Spec => RewindRestores
<1>1. ASSUME RangeInv, NEW numNodes \in 0..GetNumNodes, Rewind(numNodes)
      PROVE  GetNumNodes' = numNodes /\ Root(Hashes, numNodes) = Root(Hashes, numNodes)'
  <2>1. /\ RangeInv' /\ Matches(Hashes, leaves') /\ Matches(Hashes', leaves')
        /\ leaves' \in Seq(Data) /\ LeafIndexAt(Len(leaves')) = numNodes
    BY <1>1, RangeRewind, Zenon
  <2>2. Len(leaves') \in Nat
    BY <2>1
  <2>3. Root(Hashes, numNodes) = RefRoot(leaves') /\ Root(Hashes', numNodes) = RefRoot(leaves')
    BY <2>1, <2>2, RootIs, Zenon
  <2>4. Root(Hashes, numNodes)' = Root(Hashes', numNodes)
    BY DEF Root
  <2>5. GetNumNodes' = numNodes
    BY <2>1, <2>2, NumNodesIs, Zenon DEF GetNumNodes
  <2>. QED  BY <2>3, <2>4, <2>5, Zenon
<1>2. RangeInv =>
        [\A numNodes \in 0..GetNumNodes :
           Rewind(numNodes) =>
             /\ GetNumNodes' = numNodes
             /\ Root(Hashes, numNodes) = Root(Hashes, numNodes)']_vars
  <2>. HAVE RangeInv
  <2>1. \A numNodes \in 0..GetNumNodes : Rewind(numNodes) =>
          GetNumNodes' = numNodes /\ Root(Hashes, numNodes) = Root(Hashes, numNodes)'
    BY <1>1
  <2>. QED  BY <2>1
<1>. QED  BY <1>2, RangeAlways, PTL DEF RewindRestores

-----------------------------------------------------------------------------
(* The moves of mmr::Index between a node and its parent, sibling and children. *)

\* The children of a node are one lower, and the right child's tree begins with a leaf.
LEMMA ChildHeights ==
  ASSUME NEW p \in Nat, CalculateHeight(p) # 0
  PROVE  /\ CalculateHeight(p - 1) = CalculateHeight(p) - 1
         /\ CalculateHeight(p - PowerOfTwo[CalculateHeight(p)]) = CalculateHeight(p) - 1
         /\ CalculateHeight((p - PowerOfTwo[CalculateHeight(p)]) + 1) = 0
<1>. DEFINE Low(x) == /\ CalculateHeight(x - 1) = CalculateHeight(x) - 1
                      /\ CalculateHeight(x - PowerOfTwo[CalculateHeight(x)]) = CalculateHeight(x) - 1
                      /\ CalculateHeight((x - PowerOfTwo[CalculateHeight(x)]) + 1) = 0
            S == {x \in Nat : CalculateHeight(x) # 0 => Low(x)}
<1>0. CalculateHeight(0) = 0
  <2>1. CalculateHeight(2 * Full(0)) = 0 /\ Full(0) = 0
    BY HeightTop, FullTrees
  <2>. QED  BY <2>1
<1>1. ASSUME NEW k \in Nat, \A q \in Nat : q < Full(k) => q \in S
      PROVE  (\A q \in Nat : q < Full(k) => Full(k) + q \in S) /\ 2 * Full(k) \in S
  <2>. DEFINE F == Full(k)
  <2>1. F \in Nat /\ \A q \in Nat : q < F => CalculateHeight(F + q) = CalculateHeight(q)
    BY FullTrees, HeightBeside, Zenon
  <2>2. ASSUME NEW q \in Nat, q < F PROVE F + q \in S
    <3>1. CalculateHeight(F + q) = CalculateHeight(q) /\ F + q \in Nat
      <4>. HIDE DEF F
      <4>. QED  BY <2>1, <2>2
    <3>. SUFFICES ASSUME CalculateHeight(F + q) # 0 PROVE Low(F + q)
      <4>. HIDE DEF F, Low
      <4>. QED  BY <3>1
    <3>. DEFINE h == CalculateHeight(q)
                a == PowerOfTwo[h]
    <3>2. h \in Nat /\ h # 0
      BY <3>1, HeightType, Zenon
    <3>3. q - 1 \in 0..q - 1 /\ q - a \in 0..q - 1
      BY <3>2, ChildrenBefore, Zenon
    <3>4. Full(h) \in Nat /\ Full(h) >= h /\ a = Full(h) + 1
      BY <3>2, FullTrees, FullGrows, Zenon
    <3>5. Low(q)
      <4>. HIDE DEF Low, F
      <4>. QED  BY <1>1, <2>2, <3>2 DEF F
    <3>6. /\ CalculateHeight(q - 1) = h - 1 /\ CalculateHeight(q - a) = h - 1
          /\ CalculateHeight((q - a) + 1) = 0
      BY <3>5, Zenon
    <3>7. CalculateHeight(F + q) = h
      BY <3>1, Zenon
    <3>. HIDE DEF F, h
    <3>8. /\ q - 1 \in Nat /\ q - 1 < F /\ F + (q - 1) = (F + q) - 1
          /\ q - a \in Nat /\ q - a < F /\ F + (q - a) = (F + q) - a
          /\ (q - a) + 1 \in Nat /\ (q - a) + 1 < F /\ F + ((q - a) + 1) = ((F + q) - a) + 1
      <4>1. F \in Nat /\ h \in Nat /\ h # 0 /\ a \in Nat /\ a > 1
        <5>. HIDE DEF a
        <5>. QED  BY <2>1, <3>2, <3>4
      <4>. HIDE DEF a
      <4>. QED  BY <2>2, <3>3, <4>1
    <3>9. /\ CalculateHeight((F + q) - 1) = h - 1
          /\ CalculateHeight((F + q) - a) = h - 1
          /\ CalculateHeight(((F + q) - a) + 1) = 0
      BY <2>1, <3>6, <3>8, Zenon
    <3>. QED  BY <3>7, <3>9, Zenon
  <2>3. 2 * F \in S
    <3>1. CalculateHeight(2 * F) = k
      BY HeightTop, Zenon
    <3>2. 2 * F \in Nat
      <4>. HIDE DEF F
      <4>. QED  BY <2>1
    <3>. SUFFICES ASSUME k # 0 PROVE Low(2 * F)
      <4>. HIDE DEF F, Low
      <4>. QED  BY <3>1, <3>2
    <3>. DEFINE t == Full(k - 1)
                a == PowerOfTwo[k]
    <3>3. k - 1 \in Nat /\ (k - 1) + 1 = k
      OBVIOUS
    <3>4. t \in Nat /\ Full((k - 1) + 1) = 2 * t + 1 /\ CalculateHeight(2 * t) = k - 1 /\ a = F + 1
      BY <3>3, FullTrees, HeightTop, Zenon
    <3>5. F = 2 * t + 1
      BY <3>3, <3>4
    <3>. HIDE DEF F, t, a
    <3>6. /\ 2 * t \in Nat /\ 2 * t < F /\ F + 2 * t = 2 * F - 1 /\ 2 * F - a = 2 * t
          /\ 0 \in Nat /\ 0 < F /\ F + 0 = (2 * F - a) + 1
      BY <3>4, <3>5
    <3>7. /\ CalculateHeight(2 * F - 1) = k - 1 /\ CalculateHeight(2 * F - a) = k - 1
          /\ CalculateHeight((2 * F - a) + 1) = 0
      BY <1>0, <2>1, <3>4, <3>6, Zenon
    <3>. QED  BY <3>1, <3>7, Zenon DEF a
  <2>. QED  BY <2>2, <2>3, Zenon
<1>2. \A x \in Nat : x \in S
  <2>. HIDE DEF S
  <2>. QED  BY <1>1, TreeInduction, Zenon
<1>3. Low(p)
  <2>. HIDE DEF Low
  <2>. QED  BY <1>2
<1>. QED  BY <1>3, Zenon

\* Index::GetParent, GetSibling, GetLeftChild and GetRightChild agree at every position: each
\* child of a node has the node for its parent and the other child for its sibling, and is what
\* Index::At finds at its position.
THEOREM ChildrenAndParents ==
  ASSUME NEW p \in Nat, ~IsLeaf(IndexAt(p))
  PROVE  LET idx == IndexAt(p)
             l == GetLeftChild(idx)
             r == GetRightChild(idx)
         IN  /\ l = IndexAt(l.position) /\ r = IndexAt(r.position)
             /\ GetParent(l) = idx /\ GetParent(r) = idx
             /\ GetSibling(l) = r /\ GetSibling(r) = l
<1>. DEFINE h == CalculateHeight(p)
            a == PowerOfTwo[h]
            l == Index(p - a, h - 1)
            r == Index(p - 1, h - 1)
<1>1. h \in Nat /\ h # 0
  BY HeightType DEF IsLeaf, IndexAt, Index
<1>2. IndexAt(p) = Index(p, h) /\ GetLeftChild(IndexAt(p)) = l /\ GetRightChild(IndexAt(p)) = r
  BY DEF IndexAt, Index, GetLeftChild, GetRightChild
<1>3. /\ CalculateHeight(p - 1) = h - 1 /\ CalculateHeight(p - a) = h - 1
      /\ CalculateHeight((p - a) + 1) = 0
  BY <1>1, ChildHeights, Zenon
<1>4. a \in Nat /\ (h - 1) + 1 = h /\ (p - 1) + 1 = p /\ h - 1 \in Nat
  <2>1. a \in Nat
    BY <1>1, Powers, Zenon
  <2>. HIDE DEF h, a
  <2>. QED  BY <1>1, <2>1
<1>5. CalculateHeight(p) = h
  BY Zenon
<1>. HIDE DEF h, a
<1>6. l.position = p - a /\ l.height = h - 1 /\ r.position = p - 1 /\ r.height = h - 1
  BY DEF Index
<1>7. l = IndexAt(l.position) /\ r = IndexAt(r.position)
  BY <1>3, <1>6 DEF IndexAt
<1>8. ~IsRight(l)
  <2>1. CalculateHeight(l.position + 1) = 0
    BY <1>3, <1>6
  <2>2. l.height + 1 = h
    BY <1>4, <1>6
  <2>. QED  BY <1>1, <2>1, <2>2 DEF IsRight
<1>9. IsRight(r)
  <2>1. CalculateHeight(r.position + 1) = h
    BY <1>4, <1>5, <1>6
  <2>2. r.height + 1 = h
    BY <1>4, <1>6
  <2>. QED  BY <2>1, <2>2 DEF IsRight
<1>. HIDE DEF l, r
<1>10. PowerOfTwo[l.height + 1] = a /\ PowerOfTwo[r.height + 1] = a /\ l.height + 1 = h /\ r.height + 1 = h
  BY <1>4, <1>6 DEF a
<1>11. /\ l.position + a = p /\ r.position + 1 = p
       /\ (l.position + a) - 1 = p - 1 /\ (r.position + 1) - a = p - a
       /\ l.position + (a - 1) = p - 1 /\ r.position + (1 - a) = p - a
  BY <1>4, <1>6
<1>12. GetParent(l) = Index(p, h)
  BY <1>8, <1>10, <1>11 DEF GetParent
<1>13. GetParent(r) = Index(p, h)
  BY <1>9, <1>10, <1>11 DEF GetParent
<1>14. GetSibling(l) = Index(p - 1, h - 1)
  BY <1>6, <1>8, <1>10, <1>11 DEF GetSibling
<1>15. GetSibling(r) = Index(p - a, h - 1)
  BY <1>6, <1>9, <1>10, <1>11 DEF GetSibling
<1>. QED  BY <1>2, <1>7, <1>12, <1>13, <1>14, <1>15 DEF l, r

=============================================================================
