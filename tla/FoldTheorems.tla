---------------------------- MODULE FoldTheorems ----------------------------
(***************************************************************************)
(* Facts about the folds the specifications compute with: a function       *)
(* defined by recursion along a rank has the value its definition says,    *)
(* from which the sum of a function splits term by term.                   *)
(***************************************************************************)
EXTENDS Naturals, FiniteSets, FiniteSetsExt, Functions, FiniteSetTheorems, WellFoundedInduction, TLAPS

\* Induction, for a set in place of a predicate.
LEMMA InductiveSet ==
  ASSUME NEW S, 0 \in S, \A n \in Nat : n \in S => n + 1 \in S
  PROVE  \A n \in Nat : n \in S
<1> DEFINE Out == Nat \ S
<1>1. SUFFICES ASSUME Out # {} PROVE FALSE
  OBVIOUS
<1>2. \E l \in Out : \A m \in Out : <<m, l>> \notin OpToRel(<, Nat)
  <2>1. Out \subseteq Nat
    OBVIOUS
  <2> HIDE DEF Out
  <2> QED BY <1>1, <2>1, WFMin, NatLessThanWellFounded
<1>3. PICK l \in Out : \A m \in Out : ~(m < l)
  BY <1>2 DEF OpToRel
<1>4. l # 0 /\ l - 1 \in Nat /\ l - 1 < l /\ (l - 1) + 1 = l
  OBVIOUS
<1>5. l - 1 \in S
  BY <1>3, <1>4
<1> QED BY <1>4, <1>5

\* A non-empty set of naturals has a least member.
LEMMA MinIsLeast ==
  ASSUME NEW S, S \subseteq Nat, S # {}
  PROVE  Min(S) \in S /\ \A m \in S : Min(S) <= m
<1>1. \E l \in S : \A m \in S : <<m, l>> \notin OpToRel(<, Nat)
  BY WFMin, NatLessThanWellFounded
<1>2. PICK l \in S : \A m \in S : <<m, l>> \notin OpToRel(<, Nat)
  BY <1>1
<1>3. \A m \in S : ~(m < l)
  BY <1>2 DEF OpToRel
<1>4. \E x \in S : \A m \in S : x <= m
  BY <1>3
<1> QED BY <1>4 DEF Min

\* A non-empty set of naturals below a bound has a greatest one.
LEMMA MaxIsGreatest ==
  ASSUME NEW n \in Nat, NEW S, S \subseteq 0..n, S # {}
  PROVE  Max(S) \in S /\ \A m \in S : m <= Max(S)
<1> DEFINE Bounds == {b \in 0..n : \A m \in S : m <= b}
<1>1. Bounds \subseteq Nat /\ Bounds # {}
  <2>1. n \in Bounds
    OBVIOUS
  <2> QED BY <2>1
<1>2. Min(Bounds) \in Bounds /\ \A c \in Bounds : Min(Bounds) <= c
  <2> HIDE DEF Bounds
  <2> QED BY <1>1, MinIsLeast
<1>3. PICK b \in Bounds : \A c \in Bounds : b <= c
  BY <1>2
<1>4. b \in S
  <2>1. SUFFICES ASSUME b \notin S PROVE FALSE
    OBVIOUS
  <2>2. \A m \in S : m < b /\ m <= b - 1
    BY <2>1
  <2>3. PICK m \in S : TRUE
    OBVIOUS
  <2>4. m \in 0..n /\ b \in 0..n /\ m < b
    BY <2>2
  <2>5. b - 1 \in 0..n /\ ~(b <= b - 1)
    BY <2>4
  <2>6. b - 1 \in Bounds
    BY <2>2, <2>5
  <2> QED BY <1>3, <2>5, <2>6
<1>5. \E x \in S : \A m \in S : x >= m
  BY <1>4
<1>6. Max(S) \in S /\ \A m \in S : Max(S) >= m
  BY <1>5 DEF Max
<1> QED BY <1>6

\* What a quotient is: the multiples around the dividend.
LEMMA Quotient ==
  ASSUME NEW n \in Nat, NEW c \in Nat \ {0}
  PROVE  n \div c \in Nat /\ (n \div c) * c <= n /\ n < ((n \div c) + 1) * c
<1>1. n \div c \in Nat /\ n % c \in Nat /\ n % c < c
  OBVIOUS
<1>2. n = c * (n \div c) + (n % c)
  OBVIOUS
<1> QED BY <1>1, <1>2

\* Products of naturals grow with their factors.
LEMMA ProductGrows ==
  ASSUME NEW a \in Nat, NEW b \in Nat, NEW c \in Nat, NEW d \in Nat, a <= b, c <= d
  PROVE  a * c <= b * d /\ a * c \in Nat
<1>1. a * c <= b * c
  OBVIOUS
<1>2. b * c <= b * d
  OBVIOUS
<1> QED BY <1>1, <1>2

\* A number is its quotient times the divisor, and the remainder.
LEMMA HasDigits ==
  ASSUME NEW n \in Nat, NEW c \in Nat \ {0}
  PROVE  n \div c \in Nat /\ n % c \in 0..(c - 1) /\ n = (n \div c) * c + (n % c)
<1>1. n \div c \in Nat /\ n % c \in Nat /\ n % c < c
  OBVIOUS
<1>2. n = c * (n \div c) + (n % c)
  OBVIOUS
<1> QED BY <1>1, <1>2

\* A number is given by its quotient and its remainder.
LEMMA Digits ==
  ASSUME NEW q \in Nat, NEW c \in Nat \ {0}, NEW r \in 0..(c - 1)
  PROVE  q * c + r \in Nat /\ (q * c + r) \div c = q /\ (q * c + r) % c = r
<1> DEFINE n == q * c + r
           p == n \div c
<1>1. n \in Nat /\ q * c \in Nat
  BY ProductGrows
<1>2. p \in Nat /\ p * c <= n /\ n < (p + 1) * c
  <2> HIDE DEF n
  <2> QED BY <1>1, Quotient
<1>3. q <= p
  <2>1. SUFFICES ASSUME p + 1 <= q PROVE FALSE
    BY <1>2
  <2>2. (p + 1) * c <= q * c
    <3> HIDE DEF p
    <3> QED BY <1>2, <2>1, ProductGrows
  <2> HIDE DEF p
  <2> QED BY <1>1, <1>2, <2>2
<1>4. p <= q
  <2>1. SUFFICES ASSUME q + 1 <= p PROVE FALSE
    BY <1>2
  <2>2. (q + 1) * c <= p * c
    <3> HIDE DEF p
    <3> QED BY <1>2, <2>1, ProductGrows
  <2>3. (q + 1) * c = q * c + c
    OBVIOUS
  <2> HIDE DEF p
  <2> QED BY <1>1, <1>2, <2>2, <2>3
<1>5. p = q
  <2> HIDE DEF p
  <2> QED BY <1>2, <1>3, <1>4
<1>6. n = p * c + (n % c) /\ n % c \in Nat
  <2> HIDE DEF n
  <2> QED BY <1>1, HasDigits
<1>7. n % c = r
  <2>1. p * c = q * c
    BY <1>5
  <2> QED BY <1>1, <1>6, <2>1
<1> QED BY <1>1, <1>5, <1>7

LEMMA Multiples ==
  ASSUME NEW q \in Nat, NEW c \in Nat \ {0}
  PROVE  q * c \in Nat /\ (q * c) \div c = q /\ (q * c) % c = 0
<1> DEFINE r == 0
<1>1. r \in 0..(c - 1)
  OBVIOUS
<1>2. q * c \in Nat /\ q * c + r = q * c
  <2>1. q * c \in Nat
    BY ProductGrows
  <2> QED BY <2>1
<1> HIDE DEF r
<1>3. (q * c + r) \div c = q /\ (q * c + r) % c = r
  BY <1>1, Digits
<1>4. (q * c) \div c = q /\ (q * c) % c = r
  BY <1>2, <1>3
<1> QED BY <1>2, <1>4 DEF r

\* Quotients by the same divisor grow with the dividend.
LEMMA QuotientGrows ==
  ASSUME NEW m \in Nat, NEW n \in Nat, NEW c \in Nat \ {0}, m <= n
  PROVE  m \div c <= n \div c
<1>1. /\ m \div c \in Nat /\ (m \div c) * c <= m
      /\ n \div c \in Nat /\ n < ((n \div c) + 1) * c
  BY Quotient
<1>2. SUFFICES ASSUME (n \div c) + 1 <= m \div c PROVE FALSE
  BY <1>1
<1>3. ((n \div c) + 1) * c <= (m \div c) * c
  BY <1>1, <1>2, ProductGrows
<1> QED BY <1>1, <1>3

-----------------------------------------------------------------------------
(* Recursion.                                                              *)

\* What a recursion says of a function: at the bases its value is that of start,
\* elsewhere it is computed from the value one step back.
Obeys(f, D, base, start, prev, step) ==
  \A d \in D : f[d] = IF d \in base THEN start[d] ELSE step[<<d, f[prev[d]]>>]

\* The same, as far as a rank.
ObeysTo(n, f, D, base, start, rank, prev, step) ==
  \A d \in D : rank[d] < n => f[d] = IF d \in base THEN start[d] ELSE step[<<d, f[prev[d]]>>]

\* Two functions that obey a recursion to the same rank agree up to there.
LEMMA RecursionAgrees ==
  ASSUME NEW D, NEW base, NEW start, NEW rank \in [D -> Nat], NEW prev \in [D -> D], NEW step,
         \A d \in D \ base : rank[prev[d]] < rank[d],
         NEW n \in Nat, NEW f, NEW g,
         ObeysTo(n, f, D, base, start, rank, prev, step),
         ObeysTo(n, g, D, base, start, rank, prev, step)
  PROVE  \A d \in D : rank[d] < n => f[d] = g[d]
<1> DEFINE Agreed == {m \in Nat : \A d \in D : rank[d] < m /\ rank[d] < n => f[d] = g[d]}
<1>1. 0 \in Agreed
  <2>1. \A d \in D : ~(rank[d] < 0)
    OBVIOUS
  <2> QED BY <2>1
<1>2. ASSUME NEW m \in Nat, m \in Agreed PROVE m + 1 \in Agreed
  <2>1. SUFFICES ASSUME NEW d \in D, rank[d] < m + 1, rank[d] < n PROVE f[d] = g[d]
    OBVIOUS
  <2>2. CASE d \in base
    BY <2>1, <2>2 DEF ObeysTo
  <2>3. CASE d \notin base
    <3>1. /\ prev[d] \in D /\ rank[prev[d]] < rank[d] /\ rank[prev[d]] \in Nat /\ rank[d] \in Nat
      BY <2>3
    <3>2. rank[prev[d]] < m /\ rank[prev[d]] < n
      BY <2>1, <3>1
    <3>3. f[prev[d]] = g[prev[d]]
      BY <1>2, <3>1, <3>2
    <3> QED BY <2>1, <2>3, <3>3 DEF ObeysTo
  <2> QED BY <2>2, <2>3
<1>3. \A m \in Nat : m \in Agreed
  <2> HIDE DEF Agreed
  <2> QED BY <1>1, <1>2, InductiveSet
<1> QED BY <1>3

\* Exactly one function obeys a recursion.
LEMMA Recursion ==
  ASSUME NEW D, NEW V, NEW base, NEW start \in [D -> V], NEW rank \in [D -> Nat],
         NEW prev \in [D -> D], NEW step \in [D \X V -> V],
         \A d \in D \ base : rank[prev[d]] < rank[d]
  PROVE  /\ \E f \in [D -> V] : Obeys(f, D, base, start, prev, step)
         /\ \A f, g : Obeys(f, D, base, start, prev, step) /\ Obeys(g, D, base, start, prev, step)
                        => \A d \in D : f[d] = g[d]
<1> DEFINE Good(n, f) == ObeysTo(n, f, D, base, start, rank, prev, step)
           Reached == {n \in Nat : \E f \in [D -> V] : Good(n, f)}
<1>1. 0 \in Reached
  <2>1. \A d \in D : ~(rank[d] < 0)
    OBVIOUS
  <2>2. Good(0, start)
    BY <2>1 DEF ObeysTo
  <2> QED BY <2>2
<1>2. ASSUME NEW n \in Nat, n \in Reached PROVE n + 1 \in Reached
  <2>1. PICK f \in [D -> V] : Good(n, f)
    BY <1>2
  <2> DEFINE more == [d \in D |-> IF d \in base THEN start[d] ELSE step[<<d, f[prev[d]]>>]]
  <2>2. more \in [D -> V]
    OBVIOUS
  <2>3. ASSUME NEW d \in D, rank[d] < n + 1, d \notin base
        PROVE  more[prev[d]] = f[prev[d]]
    <3>1. /\ prev[d] \in D /\ rank[prev[d]] < rank[d] /\ rank[prev[d]] \in Nat /\ rank[d] \in Nat
      BY <2>3
    <3>2. rank[prev[d]] < n
      BY <2>3, <3>1
    <3> QED BY <2>1, <3>1, <3>2 DEF ObeysTo
  <2>4. Good(n + 1, more)
    <3>1. ASSUME NEW d \in D, rank[d] < n + 1
          PROVE  more[d] = IF d \in base THEN start[d] ELSE step[<<d, more[prev[d]]>>]
      BY <2>3, <3>1
    <3> HIDE DEF more
    <3> QED BY <3>1 DEF ObeysTo
  <2> HIDE DEF more, Good
  <2>5. n + 1 \in Nat
    OBVIOUS
  <2> QED BY <2>2, <2>4, <2>5
<1>3. \A n \in Nat : \E f \in [D -> V] : Good(n, f)
  <2>1. \A n \in Nat : n \in Reached
    <3> HIDE DEF Reached
    <3> QED BY <1>1, <1>2, InductiveSet
  <2> QED BY <2>1
<1> DEFINE at == [n \in Nat |-> CHOOSE f \in [D -> V] : Good(n, f)]
           limit == [d \in D |-> at[rank[d] + 1][d]]
<1>4. \A n \in Nat : at[n] \in [D -> V] /\ Good(n, at[n])
  <2> HIDE DEF Good
  <2> QED BY <1>3
<1>5. limit \in [D -> V]
  <2>1. \A d \in D : rank[d] + 1 \in Nat
    OBVIOUS
  <2> HIDE DEF at
  <2> QED BY <1>4, <2>1
<1>6. ASSUME NEW d \in D, d \notin base PROVE at[rank[d] + 1][prev[d]] = limit[prev[d]]
  <2> DEFINE p == prev[d]
             n == rank[p] + 1
  <2>1. p \in D /\ rank[p] \in Nat /\ rank[d] \in Nat /\ n \in Nat /\ n <= rank[d] + 1 /\ rank[d] + 1 \in Nat
    BY <1>6
  <2>2. ObeysTo(n, at[rank[d] + 1], D, base, start, rank, prev, step)
    <3>1. ObeysTo(rank[d] + 1, at[rank[d] + 1], D, base, start, rank, prev, step)
      BY <1>4, <2>1
    <3>2. \A e \in D : rank[e] < n => rank[e] < rank[d] + 1
      <4> HIDE DEF n
      <4> QED BY <2>1
    <3> HIDE DEF at, n
    <3> QED BY <3>1, <3>2 DEF ObeysTo
  <2>3. ObeysTo(n, at[n], D, base, start, rank, prev, step)
    BY <1>4, <2>1
  <2>4. rank[p] < n
    BY <2>1
  <2>5. at[rank[d] + 1][p] = at[n][p]
    <3> HIDE DEF at, n, p
    <3> QED BY <2>1, <2>2, <2>3, <2>4, RecursionAgrees
  <2> QED BY <2>1, <2>5
<1>7. Obeys(limit, D, base, start, prev, step)
  <2>1. ASSUME NEW d \in D
        PROVE  limit[d] = IF d \in base THEN start[d] ELSE step[<<d, limit[prev[d]]>>]
    <3>1. rank[d] + 1 \in Nat /\ rank[d] < rank[d] + 1
      OBVIOUS
    <3>2. at[rank[d] + 1][d] = IF d \in base THEN start[d] ELSE step[<<d, at[rank[d] + 1][prev[d]]>>]
      <4> HIDE DEF at
      <4> QED BY <1>4, <3>1 DEF ObeysTo
    <3> HIDE DEF at
    <3> QED BY <1>6, <3>2
  <2> HIDE DEF limit
  <2> QED BY <2>1 DEF Obeys
<1>8. ASSUME NEW f, NEW g, Obeys(f, D, base, start, prev, step), Obeys(g, D, base, start, prev, step),
             NEW d \in D
      PROVE  f[d] = g[d]
  <2>1. rank[d] + 1 \in Nat /\ rank[d] < rank[d] + 1
    OBVIOUS
  <2>2. ObeysTo(rank[d] + 1, f, D, base, start, rank, prev, step)
    BY <1>8 DEF Obeys, ObeysTo
  <2>3. ObeysTo(rank[d] + 1, g, D, base, start, rank, prev, step)
    BY <1>8 DEF Obeys, ObeysTo
  <2> QED BY <2>1, <2>2, <2>3, RecursionAgrees
<1> QED BY <1>5, <1>7, <1>8

\* A recursion along the numbers up to n.
ObeysUpTo(f, n, first, step) == f[0] = first /\ \A i \in 1..n : f[i] = step[<<i, f[i - 1]>>]

\* Some function obeys it: what a LET of a function defined by recursion chooses.
LEMMA RecursionUpTo ==
  ASSUME NEW n \in Nat, NEW V, NEW first \in V, NEW step \in [(1..n) \X V -> V]
  PROVE  \E f \in [0..n -> V] : ObeysUpTo(f, n, first, step)
<1> DEFINE D == 0..n
           start == [i \in D |-> first]
           rank == [i \in D |-> i]
           prev == [i \in D |-> IF i = 0 THEN 0 ELSE i - 1]
           all == [p \in D \X V |-> IF p[1] = 0 THEN first ELSE step[p]]
<1>1. start \in [D -> V] /\ rank \in [D -> Nat] /\ prev \in [D -> D]
  OBVIOUS
<1>2. all \in [D \X V -> V]
  <2>1. ASSUME NEW p \in D \X V, p[1] # 0 PROVE step[p] \in V
    <3>1. p \in (1..n) \X V
      BY <2>1
    <3> QED BY <3>1
  <2> QED BY <2>1
<1>3. \A i \in D \ {0} : rank[prev[i]] < rank[i]
  OBVIOUS
<1>4. PICK f \in [D -> V] : Obeys(f, D, {0}, start, prev, all)
  <2> HIDE DEF D, start, rank, prev, all
  <2> QED BY <1>1, <1>2, <1>3, Recursion
<1>5. ASSUME NEW i \in D PROVE f[i] = IF i = 0 THEN first ELSE step[<<i, f[i - 1]>>]
  <2>1. CASE i = 0
    BY <1>4, <2>1 DEF Obeys
  <2>2. CASE i # 0
    <3>1. f[i] = all[<<i, f[prev[i]]>>]
      <4> HIDE DEF all, prev, D
      <4> QED BY <1>4, <2>2 DEF Obeys
    <3>2. prev[i] = i - 1 /\ i - 1 \in D /\ f[i - 1] \in V /\ i \in 1..n
      BY <2>2
    <3>3. all[<<i, f[i - 1]>>] = step[<<i, f[i - 1]>>]
      BY <2>2, <3>2
    <3>4. f[prev[i]] = f[i - 1]
      BY <3>2
    <3> HIDE DEF all, prev
    <3> QED BY <2>2, <3>1, <3>3, <3>4
  <2> QED BY <2>1, <2>2
<1>6. ObeysUpTo(f, n, first, step)
  <2>1. 0 \in D /\ \A i \in 1..n : i \in D /\ i # 0
    OBVIOUS
  <2> HIDE DEF D
  <2> QED BY <1>5, <2>1 DEF ObeysUpTo
<1> QED BY <1>6

-----------------------------------------------------------------------------
(* Sums.                                                                   *)

\* The terms of a sum are numbers.
Summable(fun, T) == IsFiniteSet(T) /\ \A t \in T : fun[t] \in Nat

\* What SumFunctionOnSet computes on the way: the sums over all parts of the index set.
PartialSums(iter, fun, T) ==
  \A s \in SUBSET T :
    iter[s] = IF s = {} THEN 0 ELSE fun[CHOOSE x \in s : TRUE] + iter[s \ {CHOOSE x \in s : TRUE}]

\* They exist, and are numbers.
LEMMA SumsExist ==
  ASSUME NEW fun, NEW T, Summable(fun, T)
  PROVE  \E iter \in [SUBSET T -> Nat] : PartialSums(iter, fun, T)
<1> DEFINE pick(s) == CHOOSE x \in s : TRUE
           D == SUBSET T
           start == [s \in D |-> 0]
           rank == [s \in D |-> Cardinality(s)]
           prev == [s \in D |-> s \ {pick(s)}]
           step == [p \in D \X Nat |-> IF p[1] = {} THEN 0 ELSE fun[pick(p[1])] + p[2]]
<1>1. \A s \in D : s # {} => pick(s) \in s /\ pick(s) \in T
  OBVIOUS
<1>2. start \in [D -> Nat] /\ prev \in [D -> D]
  OBVIOUS
<1>3. \A s \in D : IsFiniteSet(s)
  BY FS_Subset DEF Summable
<1>4. rank \in [D -> Nat]
  BY <1>3, FS_CardinalityType
<1>5. step \in [D \X Nat -> Nat]
  <2>1. ASSUME NEW p \in D \X Nat PROVE (IF p[1] = {} THEN 0 ELSE fun[pick(p[1])] + p[2]) \in Nat
    <3> HIDE DEF pick
    <3> QED BY <1>1 DEF Summable
  <2> HIDE DEF pick
  <2> QED BY <2>1
<1>6. \A s \in D \ {{}} : rank[prev[s]] < rank[s]
  <2>1. SUFFICES ASSUME NEW s \in D, s # {} PROVE rank[prev[s]] < rank[s]
    OBVIOUS
  <2>2. pick(s) \in s /\ IsFiniteSet(s)
    BY <1>1, <1>3, <2>1
  <2> HIDE DEF pick
  <2>3. Cardinality(s \ {pick(s)}) = Cardinality(s) - 1 /\ Cardinality(s) \in Nat /\ Cardinality(s \ {pick(s)}) \in Nat
    BY <2>2, FS_RemoveElement, FS_CardinalityType, FS_Subset
  <2>4. rank[prev[s]] = Cardinality(s \ {pick(s)}) /\ rank[s] = Cardinality(s)
    BY <1>2, <2>1
  <2> QED BY <2>3, <2>4
<1>7. ASSUME NEW f \in [D -> Nat], Obeys(f, D, {{}}, start, prev, step) PROVE PartialSums(f, fun, T)
  <2>1. ASSUME NEW s \in D PROVE f[s] = IF s = {} THEN 0 ELSE fun[pick(s)] + f[s \ {pick(s)}]
    <3> HIDE DEF pick
    <3> QED BY <1>2, <1>7 DEF Obeys
  <2> QED BY <2>1 DEF PartialSums
<1>8. \E f \in [D -> Nat] : Obeys(f, D, {{}}, start, prev, step)
  <2> HIDE DEF D, start, rank, prev, step
  <2> QED BY <1>2, <1>4, <1>5, <1>6, Recursion
<1> QED BY <1>7, <1>8

\* There is one for each part, whatever is left out of the index set.
LEMMA SumsAgree ==
  ASSUME NEW fun, NEW gun, NEW T, NEW S, S \subseteq T, IsFiniteSet(T), \A t \in S : fun[t] = gun[t],
         NEW f, NEW g, PartialSums(f, fun, T), PartialSums(g, gun, S)
  PROVE  \A s \in SUBSET S : f[s] = g[s]
<1> DEFINE pick(s) == CHOOSE x \in s : TRUE
           D == SUBSET S
           rank == [s \in D |-> Cardinality(s)]
           prev == [s \in D |-> s \ {pick(s)}]
<1>1. \A s \in D : s # {} => pick(s) \in s /\ pick(s) \in S
  OBVIOUS
<1>3. \A s \in D : IsFiniteSet(s)
  BY FS_Subset
<1>4. rank \in [D -> Nat]
  BY <1>3, FS_CardinalityType
<1>2. prev \in [D -> D]
  OBVIOUS
<1>6. \A s \in D \ {{}} : rank[prev[s]] < rank[s]
  <2>1. SUFFICES ASSUME NEW s \in D, s # {} PROVE rank[prev[s]] < rank[s]
    OBVIOUS
  <2>2. pick(s) \in s /\ IsFiniteSet(s)
    BY <1>1, <1>3, <2>1
  <2> HIDE DEF pick
  <2>3. Cardinality(s \ {pick(s)}) = Cardinality(s) - 1 /\ Cardinality(s) \in Nat /\ Cardinality(s \ {pick(s)}) \in Nat
    BY <2>2, FS_RemoveElement, FS_CardinalityType, FS_Subset
  <2>4. rank[prev[s]] = Cardinality(s \ {pick(s)}) /\ rank[s] = Cardinality(s)
    BY <1>2, <2>1
  <2> QED BY <2>3, <2>4
<1>9. ASSUME NEW s \in D
      PROVE  f[s] = g[s]
  <2> DEFINE Agreed == {n \in Nat : \A u \in D : rank[u] < n => f[u] = g[u]}
  <2>1. 0 \in Agreed
    <3>1. \A u \in D : ~(rank[u] < 0)
      BY <1>4
    <3> QED BY <3>1
  <2>2. ASSUME NEW n \in Nat, n \in Agreed PROVE n + 1 \in Agreed
    <3>1. SUFFICES ASSUME NEW u \in D, rank[u] < n + 1 PROVE f[u] = g[u]
      <4> HIDE DEF D, rank
      <4> QED OBVIOUS
    <3>2. CASE u = {}
      BY <3>2 DEF PartialSums
    <3>3. CASE u # {}
      <4>1. prev[u] \in D /\ rank[prev[u]] < rank[u] /\ rank[prev[u]] \in Nat /\ rank[u] \in Nat
        <5> HIDE DEF D, rank, prev
        <5> QED BY <1>2, <1>4, <1>6, <3>1, <3>3
      <4>2. rank[prev[u]] < n
        <5> HIDE DEF D, rank, prev
        <5> QED BY <3>1, <4>1
      <4>3. f[prev[u]] = g[prev[u]]
        BY <2>2, <4>1, <4>2
      <4>4. prev[u] = u \ {pick(u)}
        OBVIOUS
      <4>5. /\ f[u] = fun[pick(u)] + f[u \ {pick(u)}]
            /\ g[u] = gun[pick(u)] + g[u \ {pick(u)}]
        BY <3>3 DEF PartialSums
      <4>6. fun[pick(u)] = gun[pick(u)]
        BY <1>1, <3>3
      <4> HIDE DEF pick, prev
      <4> QED BY <4>3, <4>4, <4>5, <4>6
    <3> QED BY <3>2, <3>3
  <2>3. \A n \in Nat : n \in Agreed
    <3> HIDE DEF Agreed
    <3> QED BY <2>1, <2>2, InductiveSet
  <2>4. rank[s] \in Nat /\ rank[s] + 1 \in Nat /\ rank[s] < rank[s] + 1
    <3> HIDE DEF D, rank
    <3> QED BY <1>4, <1>9
  <2> HIDE DEF rank
  <2> QED BY <2>3, <2>4
<1> QED BY <1>9

\* SumFunctionOnSet is the last of the partial sums.
LEMMA SumIsPartial ==
  ASSUME NEW fun, NEW T, Summable(fun, T)
  PROVE  \E iter \in [SUBSET T -> Nat] : PartialSums(iter, fun, T) /\ SumFunctionOnSet(fun, T) = iter[T]
<1> DEFINE Value(iter) ==
             [s \in SUBSET T |-> IF s = {} THEN 0
                                 ELSE fun[CHOOSE x \in s : TRUE] + iter[s \ {CHOOSE x \in s : TRUE}]]
           sums == CHOOSE iter : iter = Value(iter)
<1>1. PICK f \in [SUBSET T -> Nat] : PartialSums(f, fun, T)
  BY SumsExist
<1>2. f = Value(f)
  BY <1>1 DEF PartialSums
<1>3. sums = Value(sums)
  BY <1>2
<1>4. SumFunctionOnSet(fun, T) = sums[T]
  BY DEF SumFunctionOnSet, FoldFunctionOnSet, MapThenFoldSet
<1> HIDE DEF sums
<1>5. PartialSums(sums, fun, T)
  BY <1>3 DEF PartialSums
<1>6. sums[T] = f[T]
  <2>1. \A s \in SUBSET T : sums[s] = f[s]
    BY <1>1, <1>5, SumsAgree DEF Summable
  <2> QED BY <2>1
<1> QED BY <1>1, <1>4, <1>6

\* The sum over no index.
LEMMA SumOfNone == ASSUME NEW fun PROVE SumFunctionOnSet(fun, {}) = 0
<1>1. Summable(fun, {})
  BY FS_EmptySet DEF Summable
<1>2. PICK f \in [SUBSET {} -> Nat] : PartialSums(f, fun, {}) /\ SumFunctionOnSet(fun, {}) = f[{}]
  BY <1>1, SumIsPartial
<1> QED BY <1>2 DEF PartialSums

\* A sum is a number.
LEMMA SumType ==
  ASSUME NEW fun, NEW T, Summable(fun, T) PROVE SumFunctionOnSet(fun, T) \in Nat
<1>1. PICK f \in [SUBSET T -> Nat] : SumFunctionOnSet(fun, T) = f[T]
  BY SumIsPartial
<1> QED BY <1>1

\* A sum depends on its terms only.
LEMMA SumOfSame ==
  ASSUME NEW fun, NEW gun, NEW T, Summable(fun, T), \A t \in T : fun[t] = gun[t]
  PROVE  SumFunctionOnSet(fun, T) = SumFunctionOnSet(gun, T)
<1>1. Summable(gun, T)
  BY DEF Summable
<1>2. PICK f \in [SUBSET T -> Nat] : PartialSums(f, fun, T) /\ SumFunctionOnSet(fun, T) = f[T]
  BY SumIsPartial
<1>3. PICK g \in [SUBSET T -> Nat] : PartialSums(g, gun, T) /\ SumFunctionOnSet(gun, T) = g[T]
  BY <1>1, SumIsPartial
<1>4. \A s \in SUBSET T : f[s] = g[s]
  BY <1>2, <1>3, SumsAgree DEF Summable
<1> QED BY <1>2, <1>3, <1>4

\* The partial sums are the sums over the parts.
LEMMA PartsAreSums ==
  ASSUME NEW fun, NEW T, Summable(fun, T), NEW f, PartialSums(f, fun, T), NEW S, S \subseteq T
  PROVE  SumFunctionOnSet(fun, S) = f[S]
<1>1. Summable(fun, S)
  BY FS_Subset DEF Summable
<1>2. PICK g \in [SUBSET S -> Nat] : PartialSums(g, fun, S) /\ SumFunctionOnSet(fun, S) = g[S]
  BY <1>1, SumIsPartial
<1>3. IsFiniteSet(T)
  BY DEF Summable
<1>4. \A s \in SUBSET S : f[s] = g[s]
  BY <1>2, <1>3, SumsAgree, Z3
<1> QED BY <1>2, <1>4

\* Any term may be split off a sum.
LEMMA SumSplits ==
  ASSUME NEW fun, NEW T, Summable(fun, T), NEW x \in T
  PROVE  SumFunctionOnSet(fun, T) = fun[x] + SumFunctionOnSet(fun, T \ {x})
<1> DEFINE pick(s) == CHOOSE y \in s : TRUE
<1>1. PICK f \in [SUBSET T -> Nat] : PartialSums(f, fun, T)
  BY SumsExist
<1> DEFINE Splits == {n \in Nat : \A s \in SUBSET T : Cardinality(s) < n => \A y \in s : f[s] = fun[y] + f[s \ {y}]}
<1>2. \A s \in SUBSET T : IsFiniteSet(s) /\ Cardinality(s) \in Nat
  BY FS_Subset, FS_CardinalityType DEF Summable
<1>3. 0 \in Splits
  <2>1. \A s \in SUBSET T : ~(Cardinality(s) < 0)
    BY <1>2
  <2> QED BY <2>1
<1>4. ASSUME NEW n \in Nat, n \in Splits PROVE n + 1 \in Splits
  <2>1. SUFFICES ASSUME NEW s \in SUBSET T, Cardinality(s) < n + 1, NEW y \in s
                 PROVE  f[s] = fun[y] + f[s \ {y}]
    OBVIOUS
  <2> DEFINE c == pick(s)
  <2>2. c \in s
    OBVIOUS
  <2>3. f[s] = fun[c] + f[s \ {c}]
    BY <1>1 DEF PartialSums
  <2> HIDE DEF c
  <2>4. CASE c = y
    BY <2>3, <2>4
  <2>5. CASE c # y
    <3>1. \A z \in s : Cardinality(s \ {z}) < n /\ s \ {z} \in SUBSET T
      <4>1. ASSUME NEW z \in s PROVE Cardinality(s \ {z}) < n
        <5>1. Cardinality(s \ {z}) = Cardinality(s) - 1 /\ Cardinality(s) \in Nat
          BY <1>2, FS_RemoveElement
        <5> QED BY <2>1, <5>1
      <4> QED BY <4>1
    <3>2. f[s \ {c}] = fun[y] + f[(s \ {c}) \ {y}]
      BY <1>4, <2>2, <2>5, <3>1
    <3>3. f[s \ {y}] = fun[c] + f[(s \ {c}) \ {y}]
      <4>1. f[s \ {y}] = fun[c] + f[(s \ {y}) \ {c}]
        BY <1>4, <2>2, <2>5, <3>1
      <4>2. (s \ {y}) \ {c} = (s \ {c}) \ {y}
        OBVIOUS
      <4> QED BY <4>1, <4>2
    <3>4. fun[c] \in Nat /\ fun[y] \in Nat /\ f[(s \ {c}) \ {y}] \in Nat
      BY <1>1, <2>2 DEF Summable
    <3> QED BY <2>3, <3>2, <3>3, <3>4
  <2> QED BY <2>4, <2>5
<1>5. \A n \in Nat : n \in Splits
  <2> HIDE DEF Splits
  <2> QED BY <1>3, <1>4, InductiveSet
<1>6. Cardinality(T) \in Nat /\ Cardinality(T) + 1 \in Nat /\ Cardinality(T) < Cardinality(T) + 1
  BY <1>2
<1>7. f[T] = fun[x] + f[T \ {x}]
  BY <1>5, <1>6
<1>8. SumFunctionOnSet(fun, T) = f[T] /\ SumFunctionOnSet(fun, T \ {x}) = f[T \ {x}]
  BY <1>1, PartsAreSums
<1> QED BY <1>7, <1>8

\* Induction on the parts of a finite set, for a set in place of a predicate.
LEMMA InductiveParts ==
  ASSUME NEW T, IsFiniteSet(T), NEW G, {} \in G,
         \A S \in SUBSET T : \A x \in T \ S : S \in G => S \union {x} \in G
  PROVE  T \in G
<1> DEFINE Good == {n \in Nat : \A S \in SUBSET T : Cardinality(S) = n => S \in G}
<1>1. \A S \in SUBSET T : IsFiniteSet(S) /\ Cardinality(S) \in Nat
  BY FS_Subset, FS_CardinalityType
<1>2. 0 \in Good
  <2>1. SUFFICES ASSUME NEW S \in SUBSET T, Cardinality(S) = 0 PROVE S \in G
    OBVIOUS
  <2>2. S = {}
    BY <1>1, <2>1, FS_EmptySet
  <2> QED BY <2>2
<1>3. ASSUME NEW n \in Nat, n \in Good PROVE n + 1 \in Good
  <2>1. SUFFICES ASSUME NEW S \in SUBSET T, Cardinality(S) = n + 1 PROVE S \in G
    OBVIOUS
  <2>2. S # {}
    BY <2>1, FS_EmptySet
  <2>3. PICK x \in S : TRUE
    BY <2>2
  <2>4. Cardinality(S \ {x}) = n
    <3>1. Cardinality(S \ {x}) = Cardinality(S) - 1
      BY <1>1, FS_RemoveElement
    <3> QED BY <2>1, <3>1
  <2>5. S \ {x} \in SUBSET T /\ x \in T \ (S \ {x}) /\ S = (S \ {x}) \union {x}
    OBVIOUS
  <2>6. S \ {x} \in G
    BY <1>3, <2>4, <2>5
  <2>7. (S \ {x}) \union {x} \in G
    BY <2>5, <2>6
  <2> QED BY <2>5, <2>7
<1>4. \A n \in Nat : n \in Good
  <2> HIDE DEF Good
  <2> QED BY <1>2, <1>3, InductiveSet
<1> QED BY <1>1, <1>4

\* Parts of an index set have sums too.
LEMMA SummableParts ==
  ASSUME NEW fun, NEW T, Summable(fun, T), NEW S \in SUBSET T
  PROVE  Summable(fun, S) /\ SumFunctionOnSet(fun, S) \in Nat
<1>1. Summable(fun, S)
  BY FS_Subset DEF Summable
<1> QED BY <1>1, SumType

\* One more term.
LEMMA SumAdds ==
  ASSUME NEW fun, NEW T, Summable(fun, T), NEW S \in SUBSET T, NEW x \in T \ S
  PROVE  SumFunctionOnSet(fun, S \union {x}) = fun[x] + SumFunctionOnSet(fun, S)
<1> DEFINE U == S \union {x}
<1>1. Summable(fun, U)
  <2>1. U \in SUBSET T
    OBVIOUS
  <2> QED BY <2>1, SummableParts
<1>2. x \in U /\ U \ {x} = S
  OBVIOUS
<1> HIDE DEF U
<1>3. SumFunctionOnSet(fun, U) = fun[x] + SumFunctionOnSet(fun, U \ {x})
  BY <1>1, <1>2, SumSplits
<1> QED BY <1>2, <1>3 DEF U

\* The sum over two sets apart.
LEMMA SumOfUnion ==
  ASSUME NEW fun, NEW A, NEW B, Summable(fun, A \union B), A \intersect B = {}
  PROVE  SumFunctionOnSet(fun, A \union B) = SumFunctionOnSet(fun, A) + SumFunctionOnSet(fun, B)
<1> DEFINE T == A \union B
           Sum(S) == SumFunctionOnSet(fun, S)
           G == {S \in SUBSET B : Sum(A \union S) = Sum(A) + Sum(S)}
<1>1. IsFiniteSet(B) /\ A \in SUBSET T /\ B \in SUBSET T
  BY FS_Subset DEF Summable
<1>2. \A S \in SUBSET T : Sum(S) \in Nat
  BY SummableParts
<1>3. {} \in G
  <2>1. A \union {} = A /\ Sum({}) = 0
    BY SumOfNone
  <2> HIDE DEF Sum, T
  <2> QED BY <1>1, <1>2, <2>1
<1>4. ASSUME NEW S \in SUBSET B, NEW x \in B \ S, S \in G PROVE S \union {x} \in G
  <2>1. A \union (S \union {x}) = (A \union S) \union {x} /\ A \union S \in SUBSET T /\ S \in SUBSET T
        /\ x \in T \ (A \union S) /\ x \in T \ S
    OBVIOUS
  <2> DEFINE AS == A \union S
  <2> HIDE DEF T
  <2>0. Summable(fun, T)
    BY DEF T
  <2>2. Sum((A \union S) \union {x}) = fun[x] + Sum(A \union S)
    <3>1. AS \in SUBSET T /\ x \in T \ AS
      BY <2>1
    <3> HIDE DEF AS
    <3>2. Sum(AS \union {x}) = fun[x] + Sum(AS)
      BY <2>0, <3>1, SumAdds
    <3> QED BY <3>2 DEF AS
  <2>3. Sum(S \union {x}) = fun[x] + Sum(S)
    BY <2>0, <2>1, SumAdds
  <2>4. fun[x] \in Nat /\ Sum(A) \in Nat /\ Sum(S) \in Nat
    BY <1>1, <1>2, <2>1 DEF Summable
  <2>5. Sum(A \union S) = Sum(A) + Sum(S)
    BY <1>4
  <2>6. Sum(A \union (S \union {x})) = Sum(A) + Sum(S \union {x})
    <3>1. A \union (S \union {x}) = (A \union S) \union {x}
      BY <2>1
    <3>2. Sum(A \union (S \union {x})) = fun[x] + (Sum(A) + Sum(S))
      BY <2>2, <2>5, <3>1
    <3> DEFINE a == Sum(A)  v == Sum(S)  y == fun[x]  w == Sum(S \union {x})
    <3>3. y + (a + v) = a + w
      <4>1. a \in Nat /\ v \in Nat /\ y \in Nat /\ w = y + v
        BY <2>3, <2>4
      <4> HIDE DEF a, v, y, w
      <4> QED BY <4>1
    <3> QED BY <3>2, <3>3
  <2> HIDE DEF Sum
  <2> QED BY <1>4, <2>6
<1>5. B \in G
  <2> HIDE DEF G
  <2> QED BY <1>1, <1>3, <1>4, InductiveParts
<1> QED BY <1>5

\* Terms that are nothing do not count.
LEMMA SumOfSupport ==
  ASSUME NEW fun, NEW T, Summable(fun, T), NEW S \in SUBSET T, \A t \in T \ S : fun[t] = 0
  PROVE  SumFunctionOnSet(fun, T) = SumFunctionOnSet(fun, S)
<1> DEFINE R == T \ S
           Sum(A) == SumFunctionOnSet(fun, A)
           G == {A \in SUBSET R : Sum(A) = 0}
<1>1. IsFiniteSet(R) /\ S \union R = T /\ S \intersect R = {}
  BY FS_Subset DEF Summable
<1>2. {} \in G
  BY SumOfNone
<1>3. ASSUME NEW A \in SUBSET R, NEW x \in R \ A, A \in G PROVE A \union {x} \in G
  <2>1. Sum(A \union {x}) = fun[x] + Sum(A)
    <3>1. A \in SUBSET T /\ x \in T \ A
      OBVIOUS
    <3> QED BY <3>1, SumAdds
  <2>2. fun[x] = 0 /\ Sum(A) = 0
    BY <1>3
  <2> HIDE DEF Sum
  <2> QED BY <1>3, <2>1, <2>2
<1>4. R \in G
  <2> HIDE DEF G, R
  <2> QED BY <1>1, <1>2, <1>3, InductiveParts
<1>5. Sum(S \union R) = Sum(S) + Sum(R)
  <2> HIDE DEF R
  <2> QED BY <1>1, SumOfUnion
<1>6. Sum(S) \in Nat
  BY SummableParts
<1> QED BY <1>1, <1>4, <1>5, <1>6

\* A sum of sums, term by term.
LEMMA SumOfSums ==
  ASSUME NEW T, NEW f, NEW g, NEW h, Summable(f, T), Summable(g, T), \A t \in T : h[t] = f[t] + g[t]
  PROVE  SumFunctionOnSet(h, T) = SumFunctionOnSet(f, T) + SumFunctionOnSet(g, T)
<1> DEFINE Sum(fun, S) == SumFunctionOnSet(fun, S)
           G == {S \in SUBSET T : Sum(h, S) = Sum(f, S) + Sum(g, S)}
<1>1. IsFiniteSet(T) /\ Summable(h, T)
  BY DEF Summable
<1>2. {} \in G
  BY SumOfNone
<1>3. ASSUME NEW S \in SUBSET T, NEW x \in T \ S, S \in G PROVE S \union {x} \in G
  <2> DEFINE U == S \union {x}
  <2>1. Sum(f, U) = f[x] + Sum(f, S) /\ Sum(g, U) = g[x] + Sum(g, S) /\ Sum(h, U) = h[x] + Sum(h, S)
    BY <1>1, SumAdds
  <2>2. Sum(f, S) \in Nat /\ Sum(g, S) \in Nat /\ f[x] \in Nat /\ g[x] \in Nat
    BY SummableParts DEF Summable
  <2>3. Sum(h, S) = Sum(f, S) + Sum(g, S) /\ h[x] = f[x] + g[x]
    BY <1>3
  <2>4. Sum(h, U) = Sum(f, U) + Sum(g, U)
    <3> HIDE DEF Sum, U
    <3> QED BY <2>1, <2>2, <2>3
  <2> HIDE DEF Sum
  <2> QED BY <2>4
<1>4. T \in G
  <2> HIDE DEF G
  <2> QED BY <1>1, <1>2, <1>3, InductiveParts
<1> QED BY <1>4

\* A factor common to all terms.
LEMMA SumScales ==
  ASSUME NEW T, NEW c \in Nat, NEW f, NEW h, Summable(f, T), \A t \in T : h[t] = c * f[t]
  PROVE  Summable(h, T) /\ SumFunctionOnSet(h, T) = c * SumFunctionOnSet(f, T)
<1> DEFINE Sum(fun, S) == SumFunctionOnSet(fun, S)
           G == {S \in SUBSET T : Sum(h, S) = c * Sum(f, S)}
<1>1. IsFiniteSet(T) /\ Summable(h, T)
  BY DEF Summable
<1>2. {} \in G
  BY SumOfNone
<1>3. ASSUME NEW S \in SUBSET T, NEW x \in T \ S, S \in G PROVE S \union {x} \in G
  <2> DEFINE U == S \union {x}
  <2>1. Sum(f, U) = f[x] + Sum(f, S) /\ Sum(h, U) = h[x] + Sum(h, S)
    BY <1>1, SumAdds
  <2>2. Sum(f, S) \in Nat /\ f[x] \in Nat
    BY SummableParts DEF Summable
  <2>3. Sum(h, S) = c * Sum(f, S) /\ h[x] = c * f[x]
    BY <1>3
  <2>4. Sum(h, U) = c * Sum(f, U)
    <3> DEFINE a == Sum(f, S)  y == f[x]
    <3>1. c * (y + a) = c * y + c * a
      <4>1. a \in Nat /\ y \in Nat
        BY <2>2
      <4> HIDE DEF a, y
      <4> QED BY <4>1
    <3> HIDE DEF Sum, U
    <3> QED BY <2>1, <2>3, <3>1
  <2> HIDE DEF Sum
  <2> QED BY <2>4
<1>4. T \in G
  <2> HIDE DEF G
  <2> QED BY <1>1, <1>2, <1>3, InductiveParts
<1> QED BY <1>1, <1>4

\* Larger terms, larger sum.
LEMMA SumGrows ==
  ASSUME NEW T, NEW f, NEW g, Summable(f, T), Summable(g, T), \A t \in T : f[t] <= g[t]
  PROVE  SumFunctionOnSet(f, T) <= SumFunctionOnSet(g, T)
<1> DEFINE Sum(fun, S) == SumFunctionOnSet(fun, S)
           G == {S \in SUBSET T : Sum(f, S) <= Sum(g, S)}
<1>1. IsFiniteSet(T)
  BY DEF Summable
<1>2. {} \in G
  BY SumOfNone
<1>3. ASSUME NEW S \in SUBSET T, NEW x \in T \ S, S \in G PROVE S \union {x} \in G
  <2> DEFINE U == S \union {x}
  <2>1. Sum(f, U) = f[x] + Sum(f, S) /\ Sum(g, U) = g[x] + Sum(g, S)
    BY SumAdds
  <2>2. Sum(f, S) \in Nat /\ Sum(g, S) \in Nat /\ f[x] \in Nat /\ g[x] \in Nat
    BY SummableParts DEF Summable
  <2>3. Sum(f, S) <= Sum(g, S) /\ f[x] <= g[x]
    BY <1>3
  <2>4. Sum(f, U) <= Sum(g, U)
    <3> HIDE DEF Sum, U
    <3> QED BY <2>1, <2>2, <2>3
  <2> HIDE DEF Sum
  <2> QED BY <2>4
<1>4. T \in G
  <2> HIDE DEF G
  <2> QED BY <1>1, <1>2, <1>3, InductiveParts
<1> QED BY <1>4

\* A sum of ones counts.
LEMMA SumOfOnes ==
  ASSUME NEW T, IsFiniteSet(T), NEW f, \A t \in T : f[t] = 1
  PROVE  SumFunctionOnSet(f, T) = Cardinality(T)
<1> DEFINE Sum(S) == SumFunctionOnSet(f, S)
           G == {S \in SUBSET T : Sum(S) = Cardinality(S)}
<1>1. Summable(f, T)
  BY DEF Summable
<1>2. {} \in G
  BY SumOfNone, FS_EmptySet
<1>3. ASSUME NEW S \in SUBSET T, NEW x \in T \ S, S \in G PROVE S \union {x} \in G
  <2>1. Sum(S \union {x}) = 1 + Sum(S)
    BY <1>1, SumAdds
  <2>2. IsFiniteSet(S) /\ Cardinality(S) \in Nat
    BY FS_Subset, FS_CardinalityType
  <2>3. Cardinality(S \union {x}) = Cardinality(S) + 1
    BY <2>2, FS_AddElement
  <2>4. Sum(S \union {x}) = Cardinality(S \union {x})
    <3>1. Sum(S) = Cardinality(S)
      BY <1>3
    <3> HIDE DEF Sum
    <3> QED BY <2>1, <2>2, <2>3, <3>1
  <2> HIDE DEF Sum
  <2> QED BY <2>4
<1>4. T \in G
  <2> HIDE DEF G
  <2> QED BY <1>2, <1>3, InductiveParts
<1> QED BY <1>4

\* The sums of the rows of a table, and of its columns.
RowSums(m, R, C) == [r \in R |-> SumFunctionOnSet(m[r], C)]

ColumnSums(m, R, C) == [c \in C |-> SumFunctionOnSet([r \in R |-> m[r][c]], R)]

\* A table summed by rows or by columns.
LEMMA SumsSwap ==
  ASSUME NEW R, NEW C, IsFiniteSet(R), IsFiniteSet(C), NEW m, \A r \in R : \A c \in C : m[r][c] \in Nat
  PROVE  SumFunctionOnSet(RowSums(m, R, C), R) = SumFunctionOnSet(ColumnSums(m, R, C), C)
<1> DEFINE byRow == [r \in R |-> SumFunctionOnSet(m[r], C)]
           column == [c \in C |-> [r \in R |-> m[r][c]]]
           byColumn(S) == [c \in C |-> SumFunctionOnSet(column[c], S)]
           G == {S \in SUBSET R : SumFunctionOnSet(byRow, S) = SumFunctionOnSet(byColumn(S), C)}
<1>1. \A r \in R : Summable(m[r], C)
  BY DEF Summable
<1>2. \A c \in C : Summable(column[c], R)
  BY DEF Summable
<1>3. Summable(byRow, R)
  <2>1. \A r \in R : SumFunctionOnSet(m[r], C) \in Nat
    BY <1>1, SumType
  <2> QED BY <2>1 DEF Summable
<1>4. \A S \in SUBSET R : Summable(byColumn(S), C)
  <2>1. \A S \in SUBSET R : \A c \in C : SumFunctionOnSet(column[c], S) \in Nat
    <3> HIDE DEF column
    <3> QED BY <1>2, SummableParts
  <2> HIDE DEF column
  <2> QED BY <2>1 DEF Summable
<1>5. {} \in G
  <2>1. \A c \in C : byColumn({})[c] = 0
    BY SumOfNone
  <2>2. SumFunctionOnSet(byColumn({}), C) = SumFunctionOnSet(byColumn({}), {})
    <3> DEFINE f == byColumn({})
    <3>1. Summable(f, C) /\ {} \in SUBSET C /\ \A c \in C \ {} : f[c] = 0
      BY <1>4, <2>1
    <3> HIDE DEF f
    <3>2. SumFunctionOnSet(f, C) = SumFunctionOnSet(f, {})
      BY <3>1, SumOfSupport
    <3> QED BY <3>2 DEF f
  <2> QED BY <2>2, SumOfNone
<1>6. ASSUME NEW S \in SUBSET R, NEW x \in R \ S, S \in G PROVE S \union {x} \in G
  <2> DEFINE U == S \union {x}
             now == byColumn(U)
             before == byColumn(S)
  <2>1. SumFunctionOnSet(byRow, U) = byRow[x] + SumFunctionOnSet(byRow, S)
    <3> HIDE DEF byRow
    <3> QED BY <1>3, SumAdds
  <2>2. \A c \in C : now[c] = m[x][c] + before[c]
    <3>1. SUFFICES ASSUME NEW c \in C PROVE SumFunctionOnSet(column[c], U) = m[x][c] + SumFunctionOnSet(column[c], S)
      OBVIOUS
    <3>2. column[c][x] = m[x][c]
      OBVIOUS
    <3> HIDE DEF column
    <3> QED BY <1>2, <3>2, SumAdds
  <2>3. Summable(m[x], C) /\ Summable(before, C)
    BY <1>1, <1>4
  <2>4. SumFunctionOnSet(now, C) = SumFunctionOnSet(m[x], C) + SumFunctionOnSet(before, C)
    <3> HIDE DEF now, before
    <3> QED BY <2>2, <2>3, SumOfSums
  <2>5. SumFunctionOnSet(byRow, U) = SumFunctionOnSet(now, C)
    <3>1. byRow[x] = SumFunctionOnSet(m[x], C) /\ SumFunctionOnSet(byRow, S) = SumFunctionOnSet(before, C)
      BY <1>6
    <3> HIDE DEF byRow, now, before, U
    <3> QED BY <2>1, <2>4, <3>1
  <2> HIDE DEF byRow, byColumn
  <2> QED BY <2>5
<1>7. R \in G
  <2> HIDE DEF G
  <2> QED BY <1>5, <1>6, InductiveParts
<1>8. byColumn(R) = ColumnSums(m, R, C) /\ byRow = RowSums(m, R, C)
  BY DEF ColumnSums, RowSums
<1> QED BY <1>7, <1>8

\* A single term.
LEMMA SumOfOne ==
  ASSUME NEW f, NEW x, f[x] \in Nat
  PROVE  SumFunctionOnSet(f, {x}) = f[x]
<1> DEFINE T == {x}
<1>1. Summable(f, T) /\ x \in T /\ T \ {x} = {}
  BY FS_Singleton DEF Summable
<1>2. SumFunctionOnSet(f, T) = f[x] + SumFunctionOnSet(f, T \ {x})
  <2> HIDE DEF T
  <2> QED BY <1>1, SumSplits
<1>3. SumFunctionOnSet(f, T \ {x}) = 0
  BY SumOfNone
<1> QED BY <1>2, <1>3

\* A sum taken class by class.
LEMMA SumByClass ==
  ASSUME NEW T, NEW C, NEW f, NEW class \in [T -> C], Summable(f, T), IsFiniteSet(C)
  PROVE  SumFunctionOnSet(f, T) = SumFunctionOnSet([c \in C |-> SumFunctionOnSet(f, {t \in T : class[t] = c})], C)
<1> DEFINE m == [t \in T |-> [c \in C |-> IF class[t] = c THEN f[t] ELSE 0]]
           Class(c) == {t \in T : class[t] = c}
           byRow == [t \in T |-> SumFunctionOnSet(m[t], C)]
           column(c) == [t \in T |-> m[t][c]]
<1>1. IsFiniteSet(T) /\ \A t \in T : f[t] \in Nat /\ class[t] \in C
  BY DEF Summable
<1>2. \A t \in T : \A c \in C : m[t][c] \in Nat
  BY <1>1
<1>3. SumFunctionOnSet(byRow, T) = SumFunctionOnSet([c \in C |-> SumFunctionOnSet(column(c), T)], C)
  <2> HIDE DEF m
  <2>1. SumFunctionOnSet(RowSums(m, T, C), T) = SumFunctionOnSet(ColumnSums(m, T, C), C)
    BY <1>1, <1>2, SumsSwap
  <2> QED BY <2>1 DEF RowSums, ColumnSums
<1>4. ASSUME NEW t \in T PROVE byRow[t] = f[t]
  <2> DEFINE row == m[t]
             only == {class[t]}
  <2>1. Summable(row, C) /\ only \in SUBSET C /\ (\A c \in C \ only : row[c] = 0) /\ row[class[t]] = f[t]
    BY <1>1, <1>2 DEF Summable
  <2> HIDE DEF row, only
  <2>2. SumFunctionOnSet(row, C) = SumFunctionOnSet(row, only)
    BY <2>1, SumOfSupport
  <2>3. SumFunctionOnSet(row, {class[t]}) = f[t]
    BY <1>1, <2>1, SumOfOne
  <2>4. SumFunctionOnSet(row, C) = f[t]
    BY <2>2, <2>3 DEF only
  <2>5. byRow[t] = SumFunctionOnSet(m[t], C)
    OBVIOUS
  <2> HIDE DEF m
  <2> QED BY <2>4, <2>5 DEF row
<1>5. SumFunctionOnSet(f, T) = SumFunctionOnSet(byRow, T)
  <2> HIDE DEF byRow
  <2> QED BY <1>4, SumOfSame
<1>6. ASSUME NEW c \in C PROVE SumFunctionOnSet(column(c), T) = SumFunctionOnSet(f, Class(c))
  <2> DEFINE g == column(c)
             S == Class(c)
  <2>1. Summable(g, T) /\ S \in SUBSET T /\ (\A t \in T \ S : g[t] = 0) /\ (\A t \in S : f[t] = g[t])
    BY <1>1, <1>2 DEF Summable
  <2> HIDE DEF g, S
  <2>2. SumFunctionOnSet(g, T) = SumFunctionOnSet(g, S)
    BY <2>1, SumOfSupport
  <2>3. SumFunctionOnSet(f, S) = SumFunctionOnSet(g, S)
    BY <2>1, SummableParts, SumOfSame
  <2> QED BY <2>2, <2>3 DEF g, S
<1>7. [c \in C |-> SumFunctionOnSet(column(c), T)] = [c \in C |-> SumFunctionOnSet(f, Class(c))]
  <2> HIDE DEF column, Class
  <2> QED BY <1>6
<1> QED BY <1>3, <1>5, <1>7

\* The terms of h are those of f over A, those of g over a part of B, and nothing else.
Extends(h, f, A, g, B, S) ==
  /\ Summable(h, A \union B) /\ A \intersect B = {} /\ S \in SUBSET B
  /\ \A t \in A : h[t] = f[t]
  /\ \A t \in S : h[t] = g[t]
  /\ \A t \in B \ S : h[t] = 0

LEMMA SumExtends ==
  ASSUME NEW h, NEW f, NEW A, NEW g, NEW B, NEW S, Extends(h, f, A, g, B, S)
  PROVE  /\ SumFunctionOnSet(h, A \union B) = SumFunctionOnSet(f, A) + SumFunctionOnSet(g, S)
         /\ SumFunctionOnSet(f, A) \in Nat /\ SumFunctionOnSet(g, S) \in Nat
<1> USE DEF Extends
<1>1. Summable(h, A) /\ Summable(h, B)
  <2> DEFINE T == A \union B
  <2>1. A \in SUBSET T /\ B \in SUBSET T
    OBVIOUS
  <2> HIDE DEF T
  <2> QED BY <2>1, SummableParts DEF T
<1>2. Summable(h, S)
  BY <1>1, SummableParts
<1>3. SumFunctionOnSet(h, A \union B) = SumFunctionOnSet(h, A) + SumFunctionOnSet(h, B)
  BY SumOfUnion
<1>4. SumFunctionOnSet(h, B) = SumFunctionOnSet(h, S)
  BY <1>1, SumOfSupport
<1>5. SumFunctionOnSet(h, A) = SumFunctionOnSet(f, A) /\ SumFunctionOnSet(h, S) = SumFunctionOnSet(g, S)
  BY <1>1, <1>2, SumOfSame
<1>6. SumFunctionOnSet(h, A) \in Nat /\ SumFunctionOnSet(h, S) \in Nat
  BY <1>1, <1>2, SumType
<1> QED BY <1>3, <1>4, <1>5, <1>6

\* A fraction of each term, rounded down: each term that is not nothing loses less than one.
LEMMA SumOfQuotients ==
  ASSUME NEW T, NEW c \in Nat, NEW d \in Nat \ {0}, NEW weight, NEW one, NEW part,
         Summable(weight, T), Summable(one, T), Summable(part, T),
         \A t \in T : part[t] = (weight[t] * c) \div d,
         \A t \in T : one[t] = 1 \/ weight[t] = 0
  PROVE  /\ d * SumFunctionOnSet(part, T) <= c * SumFunctionOnSet(weight, T)
         /\ c * SumFunctionOnSet(weight, T) <= d * (SumFunctionOnSet(part, T) + SumFunctionOnSet(one, T))
<1> DEFINE Sum(f) == SumFunctionOnSet(f, T)
           scaled == [t \in T |-> c * weight[t]]
           below == [t \in T |-> d * part[t]]
           next == [t \in T |-> part[t] + one[t]]
           above == [t \in T |-> d * next[t]]
<1>1. Summable(scaled, T) /\ Sum(scaled) = c * Sum(weight)
  <2>1. \A t \in T : scaled[t] = c * weight[t]
    OBVIOUS
  <2> HIDE DEF scaled
  <2> QED BY <2>1, SumScales
<1>2. Summable(below, T) /\ Sum(below) = d * Sum(part)
  <2>1. \A t \in T : below[t] = d * part[t]
    OBVIOUS
  <2> HIDE DEF below
  <2> QED BY <2>1, SumScales
<1>3. Summable(next, T) /\ Sum(next) = Sum(part) + Sum(one)
  <2>1. \A t \in T : next[t] = part[t] + one[t]
    OBVIOUS
  <2>2. Summable(next, T)
    BY DEF Summable
  <2> HIDE DEF next
  <2> QED BY <2>1, <2>2, SumOfSums
<1>4. Summable(above, T) /\ Sum(above) = d * Sum(next)
  <2>1. \A t \in T : above[t] = d * next[t]
    OBVIOUS
  <2> HIDE DEF above, next
  <2> QED BY <1>3, <2>1, SumScales
<1>5. ASSUME NEW t \in T PROVE below[t] <= scaled[t] /\ scaled[t] <= above[t]
  <2> DEFINE w == weight[t]
             product == w * c
             q == part[t]
             o == one[t]
  <2>1. w \in Nat /\ q \in Nat /\ o \in Nat /\ (o = 1 \/ w = 0) /\ q = product \div d
    BY DEF Summable
  <2>2. product \in Nat /\ product = c * w /\ (w = 0 => product = 0)
    <3> HIDE DEF w
    <3> QED BY <2>1
  <2>3. q * d <= product /\ product < (q + 1) * d
    <3> HIDE DEF product, q
    <3> QED BY <2>1, <2>2, Quotient
  <2>4. d * q <= product /\ product <= d * (q + o)
    <3>1. CASE o = 1
      <4> HIDE DEF product, q, o
      <4> QED BY <2>1, <2>2, <2>3, <3>1
    <3>2. CASE w = 0
      <4>1. product = 0
        BY <2>2, <3>2
      <4>2. d * (q + o) \in Nat
        <5> HIDE DEF q, o
        <5> QED BY <2>1
      <4> HIDE DEF product, q, o
      <4> QED BY <2>1, <2>3, <4>1, <4>2
    <3> QED BY <2>1, <3>1, <3>2
  <2>5. below[t] = d * q /\ scaled[t] = c * w /\ above[t] = d * (q + o)
    OBVIOUS
  <2> HIDE DEF below, scaled, above, product, q, o, w
  <2> QED BY <2>2, <2>4, <2>5
<1>6. Sum(below) <= Sum(scaled) /\ Sum(scaled) <= Sum(above)
  <2> HIDE DEF below, scaled, above
  <2> QED BY <1>1, <1>2, <1>4, <1>5, SumGrows
<1> HIDE DEF Sum, below, scaled, above, next
<1>7. d * Sum(part) <= c * Sum(weight) /\ c * Sum(weight) <= d * (Sum(part) + Sum(one))
  BY <1>1, <1>2, <1>3, <1>4, <1>6
<1> QED BY <1>7 DEF Sum

-----------------------------------------------------------------------------
(* Orders of finite sets.                                                  *)

StrictOrder(R, S) ==
  /\ \A x \in S : <<x, x>> \notin R
  /\ \A x, y \in S : x = y \/ <<x, y>> \in R \/ <<y, x>> \in R
  /\ \A x, y, z \in S : <<x, y>> \in R /\ <<y, z>> \in R => <<x, z>> \in R

\* In a finite set each part has a first member.
LEMMA FirstExists ==
  ASSUME NEW S, IsFiniteSet(S), NEW R, StrictOrder(R, S), NEW T \in SUBSET S, T # {}
  PROVE  \E x \in T : \A y \in T \ {x} : <<x, y>> \in R
<1> DEFINE HasFirst(U) == \E x \in U : \A y \in U \ {x} : <<x, y>> \in R
           G == {U \in SUBSET T : U = {} \/ HasFirst(U)}
<1>1. {} \in G
  OBVIOUS
<1>2. ASSUME NEW U \in SUBSET T, NEW z \in T \ U, U \in G PROVE U \union {z} \in G
  <2>1. CASE U = {}
    <3>1. \A y \in (U \union {z}) \ {z} : <<z, y>> \in R
      BY <2>1
    <3> QED BY <3>1
  <2>2. CASE U # {}
    <3>1. PICK x \in U : \A y \in U \ {x} : <<x, y>> \in R
      BY <1>2, <2>2
    <3>2. x \in S /\ z \in S /\ U \subseteq S /\ x # z
      OBVIOUS
    <3>3. CASE <<x, z>> \in R
      <4>1. \A y \in (U \union {z}) \ {x} : <<x, y>> \in R
        BY <3>1, <3>3
      <4> QED BY <4>1
    <3>4. CASE <<z, x>> \in R
      <4>1. \A y \in (U \union {z}) \ {z} : <<z, y>> \in R
        BY <3>1, <3>2, <3>4 DEF StrictOrder
      <4> QED BY <4>1
    <3> QED BY <3>2, <3>3, <3>4 DEF StrictOrder
  <2> QED BY <2>1, <2>2
<1>3. IsFiniteSet(T)
  BY FS_Subset
<1>4. T \in G
  <2> HIDE DEF G
  <2> QED BY <1>1, <1>2, <1>3, InductiveParts
<1> QED BY <1>4

\* The members of a set with fewer than limit before them.
Before(R, S, x) == {y \in S : <<y, x>> \in R}

Leading(limit, R, S) == {x \in S : Cardinality(Before(R, S, x)) < limit}

\* They are the whole set or its first members, as many as the limit.
LEMMA LeadingComeFirst ==
  ASSUME NEW S, IsFiniteSet(S), NEW R, StrictOrder(R, S), NEW limit \in Nat \ {0}
  PROVE  LET page == Leading(limit, R, S)
         IN  page = S \/ (Cardinality(page) = limit /\ \A x \in page, y \in S \ page : <<x, y>> \in R)
<1> DEFINE page == Leading(limit, R, S)
<1>1. page \in SUBSET S /\ S \ page \in SUBSET S
  BY DEF Leading
<1>2. \A x \in S : Before(R, S, x) \in SUBSET S /\ Cardinality(Before(R, S, x)) \in Nat /\ IsFiniteSet(Before(R, S, x))
  BY FS_Subset, FS_CardinalityType DEF Before
<1>3. SUFFICES ASSUME page # S
               PROVE  Cardinality(page) = limit /\ \A x \in page, y \in S \ page : <<x, y>> \in R
  OBVIOUS
<1>4. PICK d \in S \ page : \A y \in (S \ page) \ {d} : <<d, y>> \in R
  <2> DEFINE rest == S \ page
  <2>1. rest # {} /\ rest \in SUBSET S
    BY <1>1, <1>3
  <2>2. \E d \in rest : \A y \in rest \ {d} : <<d, y>> \in R
    <3> HIDE DEF rest
    <3> QED BY <2>1, FirstExists
  <2> QED BY <2>2
<1>5. ~(Cardinality(Before(R, S, d)) < limit)
  BY DEF Leading
<1>6. ASSUME NEW x \in page PROVE <<x, d>> \in R
  <2>1. x \in S /\ x # d /\ Cardinality(Before(R, S, x)) < limit
    BY DEF Leading
  <2>2. SUFFICES ASSUME <<d, x>> \in R PROVE FALSE
    BY <2>1 DEF StrictOrder
  <2>3. Before(R, S, d) \in SUBSET Before(R, S, x)
    BY <2>1, <2>2 DEF Before, StrictOrder
  <2>4. Cardinality(Before(R, S, d)) <= Cardinality(Before(R, S, x))
    BY <1>2, <2>1, <2>3, FS_Subset
  <2> QED BY <1>2, <1>5, <2>1, <2>4
<1>7. \A x \in page, y \in S \ page : <<x, y>> \in R
  <2>1. SUFFICES ASSUME NEW x \in page, NEW y \in S \ page PROVE <<x, y>> \in R
    OBVIOUS
  <2>2. y = d \/ <<d, y>> \in R
    BY <1>4
  <2> HIDE DEF page
  <2>3. x \in S /\ y \in S /\ d \in S /\ <<x, d>> \in R
    BY <1>1, <1>6, <2>1
  <2> QED BY <2>2, <2>3 DEF StrictOrder
<1>8. page = Before(R, S, d)
  <2>1. \A y \in S : <<y, d>> \in R => y \in page
    <3>1. SUFFICES ASSUME NEW y \in S, <<y, d>> \in R, y \notin page PROVE FALSE
      OBVIOUS
    <3>2. y # d /\ <<d, y>> \in R
      BY <1>4, <3>1 DEF StrictOrder
    <3> QED BY <3>1, <3>2 DEF StrictOrder
  <2> HIDE DEF page
  <2> QED BY <1>1, <1>6, <2>1 DEF Before
<1>9. Cardinality(page) \in Nat /\ Cardinality(page) >= limit
  <2> HIDE DEF page
  <2> QED BY <1>2, <1>5, <1>8
<1>10. Cardinality(page) <= limit
  <2>1. page # {} /\ IsFiniteSet(page)
    <3> HIDE DEF page
    <3> QED BY <1>1, <1>9, FS_EmptySet, FS_Subset
  <2> DEFINE Back == {p \in S \X S : <<p[2], p[1]>> \in R}
  <2>2. StrictOrder(Back, S)
    BY DEF StrictOrder
  <2>3. PICK m \in page : \A y \in page \ {m} : <<m, y>> \in Back
    <3> HIDE DEF page, Back
    <3> QED BY <1>1, <2>1, <2>2, FirstExists
  <2>4. page \ {m} \in SUBSET Before(R, S, m)
    BY <1>1, <2>3 DEF Before
  <2>5. Cardinality(Before(R, S, m)) < limit /\ m \in S
    BY DEF Leading
  <2> HIDE DEF page
  <2>6. Cardinality(page \ {m}) <= Cardinality(Before(R, S, m))
    BY <1>2, <2>4, <2>5, FS_Subset
  <2>7. Cardinality(page \ {m}) = Cardinality(page) - 1
    BY <2>1, FS_RemoveElement
  <2> QED BY <1>2, <1>9, <2>5, <2>6, <2>7
<1> QED BY <1>7, <1>9, <1>10

\* The powers of a base, as a function defined by recursion has them.
PowersOf(f, base, n) == [k \in 0..n |-> IF k = 0 THEN 1 ELSE base * f[k - 1]]

LEMMA Powers ==
  ASSUME NEW base \in Nat \ {0}, NEW n \in Nat, NEW g, g = CHOOSE f : f = PowersOf(f, base, n)
  PROVE  g[0] = 1 /\ (\A k \in 1..n : g[k] = base * g[k - 1]) /\ \A k \in 0..n : g[k] \in Nat \ {0}
<1> DEFINE Step == [p \in (1..n) \X (Nat \ {0}) |-> base * p[2]]
<1>1. Step \in [(1..n) \X (Nat \ {0}) -> Nat \ {0}]
  <2>1. \A x \in Nat \ {0} : base * x \in Nat \ {0}
    OBVIOUS
  <2> QED BY <2>1
<1>2. PICK f \in [0..n -> Nat \ {0}] : ObeysUpTo(f, n, 1, Step)
  <2>1. 1 \in Nat \ {0}
    OBVIOUS
  <2> HIDE DEF Step
  <2> QED BY <1>1, <2>1, RecursionUpTo
<1>3. f = PowersOf(f, base, n)
  <2>1. ASSUME NEW k \in 0..n PROVE f[k] = IF k = 0 THEN 1 ELSE base * f[k - 1]
    <3>1. CASE k = 0
      BY <1>2, <3>1 DEF ObeysUpTo
    <3>2. CASE k # 0
      <4>1. k \in 1..n /\ k - 1 \in 0..n
        BY <3>2
      <4>2. f[k] = Step[<<k, f[k - 1]>>]
        <5> HIDE DEF Step
        <5> QED BY <1>2, <4>1 DEF ObeysUpTo
      <4>3. f[k - 1] \in Nat \ {0}
        BY <4>1
      <4> QED BY <3>2, <4>1, <4>2, <4>3
    <3> QED BY <3>1, <3>2
  <2> QED BY <2>1 DEF PowersOf
<1>4. g = PowersOf(g, base, n)
  <2>1. \E f1 : f1 = PowersOf(f1, base, n)
    BY <1>3
  <2> QED BY <2>1, Zenon
<1>5. g[0] = 1 /\ \A k \in 1..n : g[k] = base * g[k - 1]
  <2>1. ASSUME NEW f1, f1 = PowersOf(f1, base, n), NEW k \in 0..n
        PROVE  f1[k] = IF k = 0 THEN 1 ELSE base * f1[k - 1]
    <3>1. PowersOf(f1, base, n)[k] = IF k = 0 THEN 1 ELSE base * f1[k - 1]
      BY DEF PowersOf
    <3> QED BY <2>1, <3>1
  <2>2. 0 \in 0..n /\ \A k \in 1..n : k \in 0..n /\ k # 0
    OBVIOUS
  <2> QED BY <1>4, <2>1, <2>2
<1> DEFINE Good == {k \in Nat : k <= n => g[k] \in Nat \ {0}}
<1>6. \A k \in Nat : k \in Good
  <2>1. 0 \in Good
    BY <1>5
  <2>2. ASSUME NEW k \in Nat, k \in Good PROVE k + 1 \in Good
    <3>1. SUFFICES ASSUME k + 1 <= n PROVE g[k + 1] \in Nat \ {0}
      OBVIOUS
    <3>2. k + 1 \in 1..n /\ (k + 1) - 1 = k /\ k <= n
      BY <3>1
    <3>3. g[k] \in Nat \ {0}
      BY <2>2, <3>2
    <3>4. g[k + 1] = base * g[k]
      BY <1>5, <3>2
    <3> QED BY <3>3, <3>4
  <2> HIDE DEF Good
  <2> QED BY <2>1, <2>2, InductiveSet
<1> QED BY <1>5, <1>6
=============================================================================
