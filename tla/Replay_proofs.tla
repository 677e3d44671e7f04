---------------------------- MODULE Replay_proofs ----------------------------
(***************************************************************************)
(* Proofs about replay for any programs, any number of concurrent branches *)
(* and versions, signals and repeated activities.                          *)
(***************************************************************************)
EXTENDS Replay, FiniteSetTheorems, SequenceTheorems, WellFoundedInduction, TLAPS

-----------------------------------------------------------------------------
(***************************************************************************)
(* Numbers: induction, and ranks.                                          *)
(***************************************************************************)
\* Every set of natural numbers has a least element.
LEMMA Least ==
  ASSUME NEW T \in SUBSET Nat, T # {}
  PROVE  \E x \in T : \A y \in T : x <= y
<1> DEFINE R == OpToRel(<, Nat)
<1>1. IsWellFoundedOn(R, Nat)
  BY NatLessThanWellFounded
<1>2. \A x, y \in Nat : y < x => <<y, x>> \in R
  BY DEF OpToRel
<1> HIDE DEF R
<1>3. \E x \in T : \A y \in T : ~ (<<y, x>> \in R)
  BY <1>1, WFMin
<1>4. PICK x \in T : \A y \in T : ~ (<<y, x>> \in R)
  BY <1>3
<1>5. \A y \in T : ~(y < x)
  BY <1>2, <1>4
<1> QED BY <1>5

\* Induction over the numbers up to N, for a set of them.
LEMMA UpTo ==
  ASSUME NEW N \in Nat, NEW T, 0 \in T, \A n \in 0..N : n # N /\ n \in T => n + 1 \in T
  PROVE  \A n \in 0..N : n \in T
<1> SUFFICES ASSUME NEW n \in 0..N, n \notin T PROVE FALSE
  OBVIOUS
<1> DEFINE U == {k \in 0..N : k \notin T}
<1>1. PICK x \in U : \A y \in U : x <= y
  <2>1. U \in SUBSET Nat /\ U # {}
    OBVIOUS
  <2> HIDE DEF U
  <2> QED BY <2>1, Least
<1>2. x - 1 \in 0..N /\ x - 1 # N /\ x - 1 \in T
  BY <1>1
<1> QED BY <1>1, <1>2

\* A number below another, and the one after it.
LEMMA NextUp ==
  ASSUME NEW N \in Nat, NEW n \in 0..N, n # N
  PROVE  /\ n \in Nat /\ n < N /\ n + 1 - 1 = n /\ n + 1 # 0
         /\ n + 1 \in 0..N /\ n + 1 \in 1..N
  OBVIOUS

\* The numbers of a set up to one.
Below(S, k) == {j \in S : j <= k}

\* Every number of a finite set has a rank of its own, and every rank is taken.
LEMMA Ranks ==
  ASSUME NEW S \in SUBSET Nat, IsFiniteSet(S)
  PROVE  /\ Cardinality(S) \in Nat
         /\ \A k \in S : Cardinality(Below(S, k)) \in 1..Cardinality(S)
         /\ \A k, l \in S : Cardinality(Below(S, k)) = Cardinality(Below(S, l)) => k = l
         /\ \A n \in 1..Cardinality(S) : \E k \in S : Cardinality(Below(S, k)) = n
<1>1. PICK size \in Nat : size = Cardinality(S)
  BY FS_CardinalityType
<1>2. ASSUME NEW k \in S
      PROVE  /\ IsFiniteSet(Below(S, k)) /\ k \in Below(S, k)
             /\ Cardinality(Below(S, k)) \in 1..size
  <2>1. Below(S, k) \subseteq S /\ k \in Below(S, k)
    BY DEF Below
  <2>2. /\ IsFiniteSet(Below(S, k)) /\ Cardinality(Below(S, k)) <= size
        /\ Cardinality(Below(S, k)) \in Nat
    BY <1>1, <2>1, FS_Subset, FS_CardinalityType
  <2>3. Cardinality(Below(S, k)) # 0
    BY <2>1, <2>2, FS_EmptySet
  <2> QED
    BY <2>1, <2>2, <2>3
<1>3. ASSUME NEW k \in S, NEW l \in S, k < l
      PROVE  Cardinality(Below(S, k)) # Cardinality(Below(S, l))
  <2>1. Below(S, k) \subseteq Below(S, l) /\ l \notin Below(S, k)
    <3>1. \A j \in S : j \in Nat
      OBVIOUS
    <3>2. ~(l <= k) /\ \A j \in S : j <= k => j <= l
      BY <1>3, <3>1
    <3> QED
      BY <3>2, Zenon DEF Below
  <2>2. Below(S, k) # Below(S, l)
    BY <1>2, <2>1
  <2> QED
    BY <1>2, <2>1, <2>2, FS_Subset
<1>4. \A k, l \in S : Cardinality(Below(S, k)) = Cardinality(Below(S, l)) => k = l
  <2> SUFFICES ASSUME NEW k \in S, NEW l \in S, k # l
               PROVE  Cardinality(Below(S, k)) # Cardinality(Below(S, l))
    OBVIOUS
  <2>1. k < l \/ l < k
    OBVIOUS
  <2> QED
    BY <1>3, <2>1
<1> DEFINE rank == [k \in S |-> Cardinality(Below(S, k))]
<1>5. rank \in Injection(S, 1..size)
  BY <1>2, <1>4 DEF Injection, IsInjective
<1>6. IsFiniteSet(1..size) /\ Cardinality(1..size) = size
  BY FS_Interval
<1>7. rank \in Surjection(S, 1..size)
  BY <1>1, <1>5, <1>6, FS_Injection
<1>8. \A n \in 1..size : \E k \in S : rank[k] = n
  BY <1>7 DEF Surjection
<1> QED
  BY <1>1, <1>2, <1>4, <1>8

\* Numbers are in the order of their ranks.
LEMMA RanksOrder ==
  ASSUME NEW S \in SUBSET Nat, IsFiniteSet(S)
  PROVE  /\ Cardinality(S) \in Nat
         /\ \A k \in S : Rank(S, k) \in 1..Cardinality(S)
         /\ \A k, l \in S : k <= l <=> Rank(S, k) <= Rank(S, l)
         /\ \A k, l \in S : Rank(S, k) = Rank(S, l) => k = l
         /\ \A n \in 1..Cardinality(S) : \E k \in S : Rank(S, k) = n
<1>1. /\ Cardinality(S) \in Nat
      /\ \A k \in S : Rank(S, k) \in 1..Cardinality(S)
      /\ \A k, l \in S : Rank(S, k) = Rank(S, l) => k = l
      /\ \A n \in 1..Cardinality(S) : \E k \in S : Rank(S, k) = n
  BY Ranks DEF Rank, Below
<1>2. ASSUME NEW k \in S, NEW l \in S, k <= l
      PROVE  Rank(S, k) <= Rank(S, l)
  <2>1. \A j \in S : j <= k => j <= l
    <3>1. \A j \in S : j \in Nat
      OBVIOUS
    <3> QED
      BY <1>2, <3>1
  <2>2. Below(S, k) \in SUBSET Below(S, l) /\ Below(S, l) \in SUBSET S
    BY <2>1, Zenon DEF Below
  <2> QED
    BY <2>2, FS_Subset DEF Rank, Below
<1>3. ASSUME NEW k \in S, NEW l \in S, Rank(S, k) <= Rank(S, l)
      PROVE  k <= l
  <2>1. CASE l <= k
    <3>1. Rank(S, l) <= Rank(S, k)
      BY <1>2, <2>1
    <3>2. Rank(S, k) = Rank(S, l)
      BY <1>1, <1>3, <3>1
    <3> QED
      BY <1>1, <3>2
  <2>2. k <= l \/ l <= k
    OBVIOUS
  <2> QED
    BY <2>1, <2>2
<1> QED
  BY <1>1, <1>2, <1>3

\* A bijection of finite sets that keeps the order keeps the ranks.
LEMMA RanksCarryOver ==
  ASSUME NEW S \in SUBSET Nat, IsFiniteSet(S), NEW T \in SUBSET Nat, IsFiniteSet(T),
         NEW f \in [S -> T],
         \A k, l \in S : k <= l <=> f[k] <= f[l],
         \A t \in T : \E k \in S : f[k] = t
  PROVE  /\ Cardinality(S) = Cardinality(T)
         /\ \A k \in S : Rank(S, k) = Rank(T, f[k])
<1>0. \A k, l \in S : f[k] = f[l] => k = l
  <2> SUFFICES ASSUME NEW k \in S, NEW l \in S, f[k] = f[l] PROVE k = l
    OBVIOUS
  <2>1. f[k] \in Nat /\ f[l] \in Nat /\ k \in Nat /\ l \in Nat
    OBVIOUS
  <2>2. k <= l /\ l <= k
    BY <2>1
  <2> QED
    BY <2>1, <2>2
<1>1. ASSUME NEW A \in SUBSET S, NEW B, \A k \in A : f[k] \in B,
             \A t \in B : \E k \in A : f[k] = t
      PROVE  Cardinality(A) = Cardinality(B)
  <2> DEFINE g == [k \in A |-> f[k]]
  <2>1. g \in Bijection(A, B)
    <3>1. g \in [A -> B] /\ \A k \in A : g[k] = f[k]
      BY <1>1
    <3> HIDE DEF g
    <3> QED
      BY <1>0, <1>1, <3>1 DEF Bijection, Injection, Surjection, IsInjective
  <2>2. IsFiniteSet(A)
    BY FS_Subset
  <2> QED
    BY <2>1, <2>2, FS_Bijection DEF ExistsBijection
<1>2. Cardinality(S) = Cardinality(T)
  BY <1>1
<1>3. ASSUME NEW k \in S PROVE Rank(S, k) = Rank(T, f[k])
  <2>1. /\ Below(S, k) \in SUBSET S
        /\ \A j \in Below(S, k) : f[j] \in Below(T, f[k])
    BY DEF Below
  <2>2. \A t \in Below(T, f[k]) : \E j \in Below(S, k) : f[j] = t
    BY DEF Below
  <2> QED
    BY <1>1, <2>1, <2>2 DEF Rank, Below
<1> QED
  BY <1>2, <1>3

\* Of the numbers above the first m, each stands m places earlier.
LEMMA RanksAbove ==
  ASSUME NEW S \in SUBSET Nat, IsFiniteSet(S), NEW m \in Nat, NEW k \in S, Rank(S, k) > m
  PROVE  Cardinality({j \in S : j <= k /\ Rank(S, j) > m}) = Rank(S, k) - m
<1> DEFINE A == {j \in S : j <= k /\ Rank(S, j) > m}
           B == (m + 1)..Rank(S, k)
           f == [j \in A |-> Rank(S, j)]
<1>1. /\ Cardinality(S) \in Nat
      /\ \A j \in S : Rank(S, j) \in 1..Cardinality(S)
      /\ \A j, l \in S : j <= l <=> Rank(S, j) <= Rank(S, l)
      /\ \A j, l \in S : Rank(S, j) = Rank(S, l) => j = l
      /\ \A n \in 1..Cardinality(S) : \E j \in S : Rank(S, j) = n
  BY RanksOrder
<1>2. IsFiniteSet(B) /\ Cardinality(B) = Rank(S, k) - m
  BY <1>1, FS_Interval
<1>3. IsFiniteSet(A)
  <2>1. A \in SUBSET S
    OBVIOUS
  <2> QED
    BY <2>1, FS_Subset
<1>4. \A j \in A : Rank(S, j) \in B
  BY <1>1
<1>5. \A n \in B : \E j \in A : Rank(S, j) = n
  <2> SUFFICES ASSUME NEW n \in B PROVE \E j \in A : Rank(S, j) = n
    OBVIOUS
  <2>1. n \in 1..Cardinality(S) /\ n > m /\ n <= Rank(S, k)
    BY <1>1
  <2>2. PICK j \in S : Rank(S, j) = n
    BY <1>1, <2>1
  <2> QED
    BY <1>1, <2>1, <2>2
<1>6. f \in Bijection(A, B)
  <2>1. f \in [A -> B] /\ \A j \in A : f[j] = Rank(S, j) /\ j \in S
    BY <1>4
  <2>2. \A j, l \in A : f[j] = f[l] => j = l
    BY <1>1, <2>1
  <2>3. \A n \in B : \E j \in A : f[j] = n
    BY <1>5, <2>1
  <2> HIDE DEF A, B, f
  <2> QED
    BY <2>1, <2>2, <2>3 DEF Bijection, Injection, Surjection, IsInjective
<1> QED
  BY <1>2, <1>3, <1>6, FS_Bijection DEF ExistsBijection

\* Numbers that are added above all others rank after them.
\* A set of numbers, with others behind the first d.
Above(d, L, E) == L \cup {d + n : n \in E}

\* The ranks of numbers that are put behind those of a set.
LEMMA RanksAdded ==
  ASSUME NEW d \in Nat, NEW L \in SUBSET (1..d), NEW E \in SUBSET Nat, IsFiniteSet(E),
         \A n \in E : n > 0
  PROVE  /\ \A s \in L : Rank(Above(d, L, E), s) = Rank(L, s)
         /\ \A n \in E : /\ d + n \in Above(d, L, E)
                          /\ Rank(Above(d, L, E), d + n) = Cardinality(L) + Rank(E, n)
<1> PICK G : G = Above(d, L, E)
  OBVIOUS
<1> USE DEF Above
<1>1. L \in SUBSET Nat /\ IsFiniteSet(L) /\ \A s \in L : s \in 1..d
  <2>1. IsFiniteSet(1..d) /\ 1..d \in SUBSET Nat
    BY FS_Interval
  <2>2. IsFiniteSet(L)
    BY <2>1, FS_Subset
  <2> QED
    BY <2>1, <2>2
<1> DEFINE shifted(X) == {d + n : n \in X}
<1>2. ASSUME NEW X \in SUBSET E
      PROVE  /\ IsFiniteSet(shifted(X)) /\ Cardinality(shifted(X)) = Cardinality(X)
             /\ IsFiniteSet(X) /\ shifted(X) \in SUBSET Nat
  <2> DEFINE f == [n \in X |-> d + n]
  <2>1. f \in Bijection(X, shifted(X))
    <3>1. \A m, n \in X : d + m = d + n => m = n
      OBVIOUS
    <3>2. f \in [X -> shifted(X)] /\ \A n \in X : f[n] = d + n
      OBVIOUS
    <3>3. \A t \in shifted(X) : \E n \in X : d + n = t
      OBVIOUS
    <3> HIDE DEF f, shifted
    <3> QED
      BY <3>1, <3>2, <3>3 DEF Bijection, Injection, Surjection, IsInjective
  <2>2. IsFiniteSet(X) /\ shifted(X) \in SUBSET Nat
    <3>1. IsFiniteSet(X)
      BY FS_Subset
    <3>2. \A n \in X : d + n \in Nat
      OBVIOUS
    <3> QED
      BY <3>1, <3>2
  <2> HIDE DEF f, shifted
  <2> QED
    BY <2>1, <2>2, FS_Bijection DEF ExistsBijection
<1>3. G \in SUBSET Nat /\ IsFiniteSet(G)
  BY <1>1, <1>2, FS_Union
<1>4. ASSUME NEW s \in L PROVE Rank(G, s) = Rank(L, s)
  <2>1. \A n \in E : ~(d + n <= s)
    BY <1>1
  <2>2. Below(G, s) = Below(L, s)
    BY <2>1 DEF Below
  <2> QED
    BY <2>2 DEF Rank, Below
<1>5. ASSUME NEW n \in E
      PROVE  d + n \in G /\ Rank(G, d + n) = Cardinality(L) + Rank(E, n)
  <2>1. Below(E, n) \in SUBSET E
    BY DEF Below
  <2>2. Below(G, d + n) = L \cup shifted(Below(E, n))
    <3>1. \A s \in L : s <= d + n
      BY <1>1
    <3>2. \A k \in E : d + k <= d + n <=> k <= n
      OBVIOUS
    <3> QED
      BY <3>1, <3>2, Zenon DEF Below
  <2>3. L \cap shifted(Below(E, n)) = {}
    BY DEF Below
  <2> HIDE DEF shifted
  <2>4. /\ IsFiniteSet(shifted(Below(E, n))) /\ Cardinality(shifted(Below(E, n))) = Rank(E, n)
        /\ IsFiniteSet(Below(E, n))
    BY <1>2, <2>1 DEF Rank, Below
  <2>5. Cardinality(L) \in Nat /\ Rank(E, n) \in Nat
    BY <1>1, <2>4, FS_CardinalityType DEF Rank, Below
  <2>6. Cardinality(L \cup shifted(Below(E, n))) = Cardinality(L) + Rank(E, n) - Cardinality({})
    BY <1>1, <2>3, <2>4, FS_Union
  <2>7. Cardinality({}) = 0
    BY FS_EmptySet
  <2>8. Rank(G, d + n) = Cardinality(L) + Rank(E, n)
    <3>1. Rank(G, d + n) = Cardinality(L \cup shifted(Below(E, n)))
      BY <2>2, Zenon DEF Rank, Below
    <3> QED
      BY <2>5, <2>6, <2>7, <3>1
  <2>9. d + n \in G
    OBVIOUS
  <2> QED
    BY <2>8, <2>9
<1> QED
  BY <1>1, <1>3, <1>4, <1>5

-----------------------------------------------------------------------------
\* One turn of the recursion of Made.
Body(h, p, g, n) == IF n = 0 THEN {} ELSE TakeTurn(h, p, g[n - 1], Turn(p, n))

\* The calls made in the first turns.
LEMMA MadeByTurns ==
  ASSUME NEW h, NEW p, Turns(p) \in Nat
  PROVE  \E made : /\ made = [n \in 0..Turns(p) |-> Body(h, p, made, n)]
                   /\ Made(h, p) = made[Turns(p)]
<1> DEFINE N == Turns(p)
           T == {k \in 0..N : \E g : g = [n \in 0..k |-> Body(h, p, g, n)]}
<1>1. 0 \in T
  <2> DEFINE g == [n \in 0..0 |-> {}]
  <2>1. g = [n \in 0..0 |-> Body(h, p, g, n)]
    BY DEF Body
  <2> HIDE DEF g
  <2> QED BY <2>1
<1>2. ASSUME NEW k \in 0..N, k # N, k \in T PROVE k + 1 \in T
  <2>1. PICK f : f = [n \in 0..k |-> Body(h, p, f, n)]
    BY <1>2
  <2> DEFINE g == [n \in 0..(k + 1) |-> Body(h, p, f, n)]
  <2>2. \A n \in 0..k : g[n] = f[n]
    BY <2>1
  <2>3. \A n \in 0..(k + 1) : Body(h, p, f, n) = Body(h, p, g, n)
    BY <2>2 DEF Body
  <2>4. g = [n \in 0..(k + 1) |-> Body(h, p, g, n)]
    BY <2>3
  <2>5. \E f2 : f2 = [n \in 0..(k + 1) |-> Body(h, p, f2, n)]
    <3> HIDE DEF g
    <3> QED BY <2>4
  <2>6. k + 1 \in 0..N
    BY <1>2
  <2> QED BY <2>5, <2>6
<1>3. N \in T
  <2> HIDE DEF T
  <2> QED BY <1>1, <1>2, UpTo
<1>4. \E g : g = [n \in 0..N |-> Body(h, p, g, n)]
  BY <1>3
<1> QED BY <1>4 DEF Made, Body

\* A finite set of numbers has a greatest.
LEMMA Greatest ==
  ASSUME NEW S \in SUBSET Nat, IsFiniteSet(S), S # {}
  PROVE  Max(S) \in S /\ \A k \in S : k <= Max(S)
<1>1. Cardinality(S) # 0 /\ Cardinality(S) \in Nat
  BY FS_EmptySet, FS_CardinalityType
<1>2. \E m \in S : Rank(S, m) = Cardinality(S)
  BY <1>1, RanksOrder
<1>3. \E m \in S : \A k \in S : m >= k
  <2>1. PICK m \in S : Rank(S, m) = Cardinality(S)
    BY <1>2
  <2>2. \A k \in S : k <= m
    BY <1>1, <2>1, RanksOrder
  <2>3. m \in Nat /\ \A k \in S : k \in Nat
    OBVIOUS
  <2> QED
    BY <2>2, <2>3
<1> DEFINE m == CHOOSE x \in S : \A y \in S : x >= y
<1>4. m \in S /\ \A k \in S : m >= k
  BY <1>3
<1>5. m = Max(S)
  BY DEF Max
<1>6. m \in Nat /\ \A k \in S : k \in Nat
  BY <1>4
<1> HIDE DEF m
<1> QED
  BY <1>4, <1>5, <1>6

\* Nth finds the number of each rank.
LEMMA NthHasRank ==
  ASSUME NEW S \in SUBSET Nat, IsFiniteSet(S)
  PROVE  /\ \A n \in 1..Cardinality(S) : Nth(S, n) \in S /\ Rank(S, Nth(S, n)) = n
         /\ \A k \in S : Nth(S, Rank(S, k)) = k
<1>1. /\ \A k, l \in S : Rank(S, k) = Rank(S, l) => k = l
      /\ \A n \in 1..Cardinality(S) : \E k \in S : Rank(S, k) = n
      /\ \A k \in S : Rank(S, k) \in 1..Cardinality(S)
  BY RanksOrder
<1>2. \A n \in 1..Cardinality(S) : Nth(S, n) \in S /\ Rank(S, Nth(S, n)) = n
  BY <1>1 DEF Nth
<1>3. ASSUME NEW k \in S PROVE Nth(S, Rank(S, k)) = k
  <2>1. PICK n \in 1..Cardinality(S) : n = Rank(S, k)
    BY <1>1
  <2>2. Nth(S, n) \in S /\ Rank(S, Nth(S, n)) = Rank(S, k)
    BY <1>2, <2>1
  <2> QED
    BY <1>1, <2>1, <2>2
<1> QED
  BY <1>2, <1>3

\* Division by a number above 0.
LEMMA DivMod ==
  ASSUME NEW d \in Nat, d > 0, NEW k \in Nat
  PROVE  k \div d \in Nat /\ k % d \in 0..(d - 1) /\ k = d * (k \div d) + (k % d)
  OBVIOUS

\* Division and remainder are determined by the equation.
LEMMA DivModOf ==
  ASSUME NEW d \in Nat, d > 0, NEW q \in Nat, NEW r \in 0..(d - 1)
  PROVE  (d * q + r) \div d = q /\ (d * q + r) % d = r
  OBVIOUS

-----------------------------------------------------------------------------
(***************************************************************************)
(* The turns of a program.                                                 *)
(***************************************************************************)
RoundOf(p, n) == ((n - 1) \div Len(p)) + 1
BranchOf(p, n) == ((n - 1) % Len(p)) + 1
CallAt(p, n) == p[BranchOf(p, n)][RoundOf(p, n)]

\* The turn at which a branch makes a call.
TurnAt(p, b, r) == Len(p) * (r - 1) + b

\* A program has branches, and each of them calls.
LEMMA Branches ==
  ASSUME NEW p \in Program
  PROVE  /\ Len(p) \in Nat /\ Len(p) > 0 /\ DOMAIN p = 1..Len(p)
         /\ \A b \in DOMAIN p : /\ Len(p[b]) \in Nat /\ Len(p[b]) > 0
                                /\ DOMAIN p[b] = 1..Len(p[b])
                                /\ \A r \in 1..Len(p[b]) : p[b][r] \in Call
<1>1. p \in Seq(Seq(Call)) /\ p # <<>> /\ \A b \in DOMAIN p : p[b] # <<>>
  BY DEF Program
<1>2. Len(p) \in Nat /\ Len(p) > 0 /\ DOMAIN p = 1..Len(p)
  BY <1>1
<1>3. ASSUME NEW b \in DOMAIN p
      PROVE  /\ Len(p[b]) \in Nat /\ Len(p[b]) > 0 /\ DOMAIN p[b] = 1..Len(p[b])
             /\ \A r \in 1..Len(p[b]) : p[b][r] \in Call
  <2>1. p[b] \in Seq(Call) /\ p[b] # <<>>
    BY <1>1
  <2> QED
    BY <2>1
<1> QED
  BY <1>2, <1>3

\* No branch is longer than the rounds.
LEMMA RoundsReach ==
  ASSUME NEW p \in Program
  PROVE  /\ Rounds(p) \in Nat /\ Rounds(p) > 0 /\ Turns(p) \in Nat
         /\ \A b \in DOMAIN p : Len(p[b]) <= Rounds(p)
<1>1. /\ Len(p) \in Nat /\ Len(p) > 0 /\ DOMAIN p = 1..Len(p)
      /\ \A b \in DOMAIN p : Len(p[b]) \in Nat /\ Len(p[b]) > 0
  BY Branches
<1> DEFINE Size(b) == Len(p[b])
           S == {Size(b) : b \in DOMAIN p}
           f == [b \in DOMAIN p |-> Size(b)]
<1>2. f \in Surjection(DOMAIN p, S)
  <2> HIDE DEF Size
  <2> QED
    BY DEF Surjection
<1>3. IsFiniteSet(DOMAIN p)
  BY <1>1, FS_Interval
<1>4. IsFiniteSet(S)
  BY <1>2, <1>3, FS_Surjection
<1>5. S \in SUBSET Nat /\ S # {}
  <2>1. 1 \in DOMAIN p
    BY <1>1
  <2>2. Size(1) \in S
    <3> HIDE DEF Size
    <3> QED
      BY <2>1
  <2>3. \A k \in S : k \in Nat
    BY <1>1
  <2> HIDE DEF S
  <2> QED
    BY <2>2, <2>3
<1>6. Max(S) \in S /\ \A k \in S : k <= Max(S)
  <2> HIDE DEF S
  <2> QED BY <1>4, <1>5, Greatest
<1>7. Rounds(p) = Max(S)
  BY DEF Rounds
<1>8. Rounds(p) \in S /\ \A k \in S : k <= Rounds(p)
  BY <1>6, <1>7, Zenon
<1>9. Rounds(p) \in Nat /\ Rounds(p) > 0
  BY <1>1, <1>8
<1>10. Rounds(p) * Len(p) \in Nat
  BY <1>1, <1>9
<1> QED
  BY <1>8, <1>9, <1>10 DEF Turns

\* Turns, and the calls of the branches in round after round, are the same.
LEMMA TurnsAreRounds ==
  ASSUME NEW p \in Program
  PROVE  /\ \A n \in 1..Turns(p) :
              /\ RoundOf(p, n) \in 1..Rounds(p) /\ BranchOf(p, n) \in DOMAIN p
              /\ n = TurnAt(p, BranchOf(p, n), RoundOf(p, n))
              /\ Turn(p, n) = [turn |-> n, round |-> RoundOf(p, n), branch |-> BranchOf(p, n)]
         /\ \A b \in DOMAIN p, r \in 1..Rounds(p) :
              /\ TurnAt(p, b, r) \in 1..Turns(p)
              /\ RoundOf(p, TurnAt(p, b, r)) = r /\ BranchOf(p, TurnAt(p, b, r)) = b
<1> DEFINE d == Len(p)
           R == Rounds(p)
<1>1. d \in Nat /\ d > 0 /\ DOMAIN p = 1..d /\ R \in Nat /\ R > 0
  BY Branches, RoundsReach
<1>2. Turns(p) = R * d
  BY DEF Turns
<1> HIDE DEF d, R
<1>3. ASSUME NEW n \in 1..(R * d)
      PROVE  /\ ((n - 1) \div d) + 1 \in 1..R /\ ((n - 1) % d) + 1 \in 1..d
             /\ n = d * ((n - 1) \div d) + (((n - 1) % d) + 1)
  <2>1. n - 1 \in Nat /\ R * d \in Nat
    BY <1>1
  <2>2. PICK q \in Nat, m \in 0..(d - 1) :
          q = (n - 1) \div d /\ m = (n - 1) % d /\ n - 1 = d * q + m
    BY <1>1, <2>1, DivMod
  <2>3. q < R
    <3> SUFFICES ASSUME R <= q PROVE FALSE
      BY <1>1
    <3>1. R * d <= q * d
      BY <1>1
    <3> QED
      BY <1>1, <2>1, <2>2, <3>1
  <2> QED
    BY <1>1, <2>1, <2>2, <2>3
<1>4. ASSUME NEW b \in 1..d, NEW r \in 1..R
      PROVE  d * (r - 1) + b \in 1..(R * d)
  <2>1. PICK q \in Nat : q = r - 1 /\ q + 1 <= R
    BY <1>1
  <2>2. (q + 1) * d <= R * d
    BY <1>1, <2>1
  <2>3. (q + 1) * d = d * q + d /\ d * q \in Nat /\ R * d \in Nat
    BY <1>1, <2>1
  <2> QED
    BY <1>1, <2>1, <2>2, <2>3
<1>5. ASSUME NEW b \in 1..d, NEW r \in 1..R
      PROVE  /\ ((d * (r - 1) + b - 1) \div d) + 1 = r
             /\ ((d * (r - 1) + b - 1) % d) + 1 = b
  <2>1. PICK q \in Nat, m \in 0..(d - 1) : q = r - 1 /\ m = b - 1
    BY <1>1
  <2>2. d * (r - 1) + b - 1 = d * q + m
    BY <1>1, <2>1
  <2>3. (d * q + m) \div d = q /\ (d * q + m) % d = m
    BY <1>1, <2>1, DivModOf
  <2> QED
    BY <1>1, <2>1, <2>2, <2>3
<1>6. /\ \A n : /\ RoundOf(p, n) = ((n - 1) \div d) + 1
                /\ BranchOf(p, n) = ((n - 1) % d) + 1
      /\ \A b, r : TurnAt(p, b, r) = d * (r - 1) + b
  BY DEF RoundOf, BranchOf, TurnAt, d
<1>7. ASSUME NEW n \in 1..Turns(p)
      PROVE  /\ RoundOf(p, n) \in 1..Rounds(p) /\ BranchOf(p, n) \in DOMAIN p
             /\ n = TurnAt(p, BranchOf(p, n), RoundOf(p, n))
  <2>1. n \in 1..(R * d)
    BY <1>2
  <2>2. d * (RoundOf(p, n) - 1) = d * ((n - 1) \div d)
    <3>1. (n - 1) \div d \in Int
      BY <1>1, <2>1, DivMod
    <3>2. RoundOf(p, n) - 1 = (n - 1) \div d
      BY <1>6, <3>1
    <3> QED
      BY <3>2
  <2>3. /\ RoundOf(p, n) \in 1..R /\ BranchOf(p, n) \in 1..d
        /\ n = d * ((n - 1) \div d) + BranchOf(p, n)
    BY <1>3, <1>6, <2>1, Zenon
  <2>4. n = d * (RoundOf(p, n) - 1) + BranchOf(p, n)
    BY <2>2, <2>3, Zenon
  <2>5. n = TurnAt(p, BranchOf(p, n), RoundOf(p, n))
    BY <1>6, <2>4, Zenon
  <2> QED
    BY <1>1, <2>3, <2>5, Zenon DEF R
<1>8. \A n : Turn(p, n) = [turn |-> n, round |-> RoundOf(p, n), branch |-> BranchOf(p, n)]
  BY DEF Turn, RoundOf, BranchOf
<1>9. ASSUME NEW b \in DOMAIN p, NEW r \in 1..Rounds(p)
      PROVE  /\ TurnAt(p, b, r) \in 1..Turns(p)
             /\ RoundOf(p, TurnAt(p, b, r)) = r /\ BranchOf(p, TurnAt(p, b, r)) = b
  <2>1. b \in 1..d /\ r \in 1..R
    BY <1>1, Zenon DEF R
  <2>2. TurnAt(p, b, r) = d * (r - 1) + b
    BY <1>6
  <2>3. TurnAt(p, b, r) \in 1..Turns(p)
    BY <1>2, <1>4, <2>1, <2>2, Zenon
  <2>4. RoundOf(p, TurnAt(p, b, r)) = r /\ BranchOf(p, TurnAt(p, b, r)) = b
    <3>1. PICK k \in Nat : k = TurnAt(p, b, r) /\ k = d * (r - 1) + b
      BY <1>1, <2>1, <2>2
    <3>2. ((k - 1) \div d) + 1 = r /\ ((k - 1) % d) + 1 = b
      <4>1. /\ ((d * (r - 1) + b - 1) \div d) + 1 = r
            /\ ((d * (r - 1) + b - 1) % d) + 1 = b
        BY <1>5, <2>1
      <4>2. d * (r - 1) + b - 1 = k - 1
        BY <1>1, <2>1, <3>1
      <4> QED
        BY <4>1, <4>2, Zenon
    <3>3. RoundOf(p, k) = ((k - 1) \div d) + 1 /\ BranchOf(p, k) = ((k - 1) % d) + 1
      BY <1>6
    <3> QED
      BY <3>1, <3>2, <3>3
  <2> QED
    BY <2>3, <2>4
<1> QED
  BY <1>7, <1>8, <1>9

-----------------------------------------------------------------------------
(***************************************************************************)
(* The calls that are made, turn by turn.                                  *)
(***************************************************************************)
Running(h, p) == CHOOSE made : made = [n \in 0..Turns(p) |-> Body(h, p, made, n)]
After(h, p, n) == Running(h, p)[n]

\* The calls made after each turn, and after all of them.
LEMMA MadeAfterTurns ==
  ASSUME NEW h, NEW p \in Program
  PROVE  /\ After(h, p, 0) = {}
         /\ \A n \in 1..Turns(p) :
              After(h, p, n) = TakeTurn(h, p, After(h, p, n - 1), Turn(p, n))
         /\ Made(h, p) = After(h, p, Turns(p))
<1> DEFINE made == Running(h, p)
<1>1. Turns(p) \in Nat
  BY RoundsReach
<1>2. made = [n \in 0..Turns(p) |-> Body(h, p, made, n)]
  <2>1. \E f : f = [n \in 0..Turns(p) |-> Body(h, p, f, n)]
    <3>1. \E f : f = [n \in 0..Turns(p) |-> Body(h, p, f, n)] /\ Made(h, p) = f[Turns(p)]
      BY <1>1, MadeByTurns, Zenon
    <3> QED
      BY <3>1, Zenon
  <2> QED
    BY <2>1 DEF Running
<1>3. Made(h, p) = made[Turns(p)]
  BY DEF Made, Running, Body
<1> HIDE DEF made
<1>4. \A n \in 0..Turns(p) : made[n] = Body(h, p, made, n)
  BY <1>2
<1>5. made[0] = {}
  BY <1>1, <1>4 DEF Body
<1>6. \A n \in 1..Turns(p) : made[n] = TakeTurn(h, p, made[n - 1], Turn(p, n))
  BY <1>1, <1>4 DEF Body
<1> QED
  BY <1>3, <1>5, <1>6 DEF After, made

\* A branch whose turn it is makes a call.
Takes(p, made, n) ==
  /\ RoundOf(p, n) <= Len(p[BranchOf(p, n)])
  /\ RoundOf(p, n) <= DrainTicks + 1
  /\ GoesOn(made, BranchOf(p, n), RoundOf(p, n))

Before(made, n) == {m \in made : m.turn < n}

CallMade(h, p, made, n) == MakeCall(h, made, Turn(p, n), CallAt(p, n))

MadeBy(h, p, made, n) ==
  /\ IsFiniteSet(made)
  /\ \A m \in made : /\ m.turn \in 1..n
                     /\ Takes(p, Before(made, m.turn), m.turn)
                     /\ m = CallMade(h, p, Before(made, m.turn), m.turn)
  /\ \A k \in 1..n : Takes(p, Before(made, k), k) => \E m \in made : m.turn = k

\* At each turn the call is made that the calls before it allow, and no other is.
LEMMA MadeTurnByTurn ==
  ASSUME NEW h, NEW p \in Program
  PROVE  MadeBy(h, p, Made(h, p), Turns(p))
<1> DEFINE N == Turns(p)
           A(n) == After(h, p, n)
           T == {n \in 0..N : MadeBy(h, p, A(n), n)}
<1>1. N \in Nat
  BY RoundsReach
<1>2. /\ A(0) = {} /\ Made(h, p) = A(N)
      /\ \A n \in 1..N : A(n) = TakeTurn(h, p, A(n - 1), Turn(p, n))
  BY MadeAfterTurns
<1>3. \A n \in 1..N :
        Turn(p, n) = [turn |-> n, round |-> RoundOf(p, n), branch |-> BranchOf(p, n)]
  BY TurnsAreRounds
<1> HIDE DEF A, N
<1>4. 0 \in T
  BY <1>1, <1>2, FS_EmptySet DEF MadeBy
<1>5. ASSUME NEW n \in 0..N, n # N, n \in T PROVE n + 1 \in T
  <2> DEFINE k == n + 1
             old == A(n)
             new == CallMade(h, p, old, k)
  <2>1. k \in 1..N /\ k - 1 = n /\ n \in Nat /\ n < k
    BY <1>1, <1>5
  <2>2. MadeBy(h, p, old, n)
    BY <1>5
  <2>3. A(k) = IF Takes(p, old, k) THEN old \cup {new} ELSE old
    <3>1. A(k) = TakeTurn(h, p, old, Turn(p, k))
      BY <1>2, <2>1
    <3>2. /\ Turn(p, k).round = RoundOf(p, k) /\ Turn(p, k).branch = BranchOf(p, k)
      BY <1>3, <2>1
    <3> HIDE DEF k, old
    <3> QED
      BY <3>1, <3>2 DEF TakeTurn, Takes, CallMade, CallAt
  <2>4. new.turn = k
    <3>1. Turn(p, k).turn = k
      BY <1>3, <2>1
    <3> HIDE DEF k, old
    <3> QED
      BY <3>1 DEF CallMade, MakeCall
  <2> HIDE DEF k, old, new
  <2>5. /\ IsFiniteSet(old) /\ \A m \in old : m.turn \in 1..n
        /\ \A m \in old : /\ Takes(p, Before(old, m.turn), m.turn)
                          /\ m = CallMade(h, p, Before(old, m.turn), m.turn)
        /\ \A j \in 1..n : Takes(p, Before(old, j), j) => \E m \in old : m.turn = j
    BY <2>2 DEF MadeBy
  <2>6. Before(old, k) = old
    BY <2>1, <2>5 DEF Before
  <2>7. CASE ~Takes(p, old, k)
    <3>1. A(k) = old
      BY <2>3, <2>7
    <3>2. \A j \in 1..k : j = k \/ j \in 1..n
      BY <2>1
    <3>3. \A m \in old : m.turn \in 1..k
      BY <2>1, <2>5
    <3>4. MadeBy(h, p, old, k)
      BY <2>5, <2>6, <2>7, <3>2, <3>3, Zenon DEF MadeBy
    <3> QED
      BY <1>1, <1>5, <2>1, <3>1, <3>4 DEF k
  <2>8. CASE Takes(p, old, k)
    <3> DEFINE all == old \cup {new}
    <3>1. A(k) = all
      BY <2>3, <2>8
    <3>2. \A j \in 1..k : Before(all, j) = Before(old, j)
      BY <2>1, <2>4 DEF Before
    <3>3. IsFiniteSet(all)
      BY <2>5, FS_AddElement
    <3>4. new.turn \in 1..k /\ Before(all, new.turn) = old
      <4>1. k \in 1..k
        BY <2>1
      <4> QED
        BY <2>4, <2>6, <3>2, <4>1, Zenon
    <3>5. \A m \in old : m.turn \in 1..k /\ Before(all, m.turn) = Before(old, m.turn)
      BY <2>1, <2>5, <3>2
    <3>6. \A j \in 1..k : j = k \/ j \in 1..n
      BY <2>1
    <3>7. \A j \in 1..k : Takes(p, Before(all, j), j) => \E m \in all : m.turn = j
      BY <2>4, <2>5, <3>2, <3>6
    <3>8. /\ Takes(p, Before(all, new.turn), new.turn)
          /\ new = CallMade(h, p, Before(all, new.turn), new.turn)
      BY <2>4, <2>8, <3>4, Zenon DEF new
    <3>9. \A m \in old : /\ Takes(p, Before(all, m.turn), m.turn)
                         /\ m = CallMade(h, p, Before(all, m.turn), m.turn)
      BY <2>5, <3>5, Zenon
    <3> DEFINE Right(m) == /\ m.turn \in 1..k
                           /\ Takes(p, Before(all, m.turn), m.turn)
                           /\ m = CallMade(h, p, Before(all, m.turn), m.turn)
    <3>10. \A m \in all : m \in old \/ m = new
      OBVIOUS
    <3> HIDE DEF all
    <3>11. \A m \in all : Right(m)
      BY <3>4, <3>5, <3>8, <3>9, <3>10, Zenon
    <3>12. MadeBy(h, p, all, k)
      BY <3>3, <3>7, <3>11, Zenon DEF MadeBy
    <3> QED
      BY <1>1, <1>5, <2>1, <3>1, <3>12 DEF k
  <2> QED
    BY <2>7, <2>8
<1>6. N \in T
  <2> HIDE DEF T
  <2>1. \A n \in 0..N : n \in T
    BY <1>1, <1>4, <1>5, UpTo
  <2> QED
    BY <1>1, <2>1
<1> QED
  BY <1>2, <1>6 DEF N

-----------------------------------------------------------------------------
(***************************************************************************)
(* What is known of each call that is made.                                *)
(***************************************************************************)
\* How many calls of a lane were made so far, and the event that the n-th is paired with.
Count(made, call) == Cardinality({m \in made : SameLane(m.call, call)})
Paired(h, call, n) ==
  IF n <= Cardinality(LaneEvents(h, call)) THEN Nth(LaneEvents(h, call), n) ELSE 0

\* The events of a lane can be counted.
LEMMA LaneEventsAreFinite ==
  ASSUME NEW h \in Seq(Event), NEW call
  PROVE  /\ LaneEvents(h, call) \in SUBSET Nat /\ IsFiniteSet(LaneEvents(h, call))
         /\ Cardinality(LaneEvents(h, call)) \in Nat
         /\ LaneEvents(h, call) \subseteq DOMAIN h /\ 0 \notin LaneEvents(h, call)
<1>1. Len(h) \in Nat /\ DOMAIN h = 1..Len(h)
  OBVIOUS
<1>2. LaneEvents(h, call) \subseteq 1..Len(h) /\ IsFiniteSet(1..Len(h))
  BY <1>1, FS_Interval DEF LaneEvents
<1>3. IsFiniteSet(LaneEvents(h, call))
  BY <1>2, FS_Subset
<1>4. 0 \notin 1..Len(h) /\ \A k \in 1..Len(h) : k \in Nat
  BY <1>1
<1> QED
  BY <1>1, <1>2, <1>3, <1>4, FS_CardinalityType

\* What a call that is made says of itself.
LEMMA CallsMade ==
  ASSUME NEW h, NEW p \in Program, NEW m \in Made(h, p)
  PROVE  /\ m.turn \in 1..Turns(p) /\ m.turn = TurnAt(p, m.branch, m.round)
         /\ m.round = RoundOf(p, m.turn) /\ m.branch = BranchOf(p, m.turn)
         /\ m.branch \in DOMAIN p /\ m.round \in 1..Len(p[m.branch])
         /\ m.branch \in Nat /\ m.round \in Nat /\ m.round <= DrainTicks + 1
         /\ m.call = CallAt(p, m.turn) /\ m.call = p[m.branch][m.round] /\ m.call \in Call
         /\ Takes(p, Before(Made(h, p), m.turn), m.turn)
         /\ m.at = Paired(h, m.call, 1 + Count(Before(Made(h, p), m.turn), m.call))
         /\ m.answer = Answer(h, m.call, m.at)
<1> DEFINE t == m.turn
           old == Before(Made(h, p), t)
<1>1. t \in 1..Turns(p) /\ Takes(p, old, t) /\ m = CallMade(h, p, old, t)
  BY MadeTurnByTurn DEF MadeBy
<1>2. /\ RoundOf(p, t) \in 1..Rounds(p) /\ BranchOf(p, t) \in DOMAIN p
      /\ t = TurnAt(p, BranchOf(p, t), RoundOf(p, t))
      /\ Turn(p, t) = [turn |-> t, round |-> RoundOf(p, t), branch |-> BranchOf(p, t)]
  BY <1>1, TurnsAreRounds
<1> HIDE DEF t, old
<1>3. /\ m.round = RoundOf(p, t) /\ m.branch = BranchOf(p, t) /\ m.call = CallAt(p, t)
      /\ m.at = Paired(h, m.call, 1 + Count(old, m.call))
      /\ m.answer = Answer(h, m.call, m.at)
  <2>1. \A T, c : LET k == MakeCall(h, old, T, c)
                 IN  /\ k.round = T.round /\ k.branch = T.branch /\ k.call = c
                     /\ k.at = Paired(h, c, 1 + Count(old, c))
                     /\ k.answer = Answer(h, c, k.at)
    BY DEF MakeCall, Paired, Count
  <2>2. m = MakeCall(h, old, Turn(p, t), CallAt(p, t))
    BY <1>1 DEF CallMade
  <2> QED
    BY <1>2, <2>1, <2>2
<1>4. /\ RoundOf(p, t) <= Len(p[BranchOf(p, t)]) /\ RoundOf(p, t) <= DrainTicks + 1
  BY <1>1 DEF Takes
<1>5. DOMAIN p = 1..Len(p) /\ Len(p) \in Nat /\ Rounds(p) \in Nat
  BY Branches, RoundsReach
<1>6. RoundOf(p, t) \in Nat /\ RoundOf(p, t) > 0 /\ BranchOf(p, t) \in Nat
  BY <1>2, <1>5
<1>7. Len(p[BranchOf(p, t)]) \in Nat
  BY <1>2, Branches
<1>8. RoundOf(p, t) \in 1..Len(p[BranchOf(p, t)])
  BY <1>4, <1>6, <1>7
<1>9. CallAt(p, t) = p[BranchOf(p, t)][RoundOf(p, t)] /\ CallAt(p, t) \in Call
  BY <1>2, <1>8, Branches DEF CallAt
<1> QED
  BY <1>1, <1>2, <1>3, <1>4, <1>6, <1>8, <1>9, Zenon DEF t, old

\* A call is known by its turn.
LEMMA OneCallATurn ==
  ASSUME NEW h, NEW p \in Program, NEW m \in Made(h, p), NEW k \in Made(h, p),
         m.turn = k.turn
  PROVE  m = k
<1>1. /\ m = CallMade(h, p, Before(Made(h, p), m.turn), m.turn)
      /\ k = CallMade(h, p, Before(Made(h, p), k.turn), k.turn)
  BY MadeTurnByTurn DEF MadeBy
<1> QED
  BY <1>1, Zenon

\* A call that is not new is paired with an event of its lane.
LEMMA PairedWithLane ==
  ASSUME NEW h \in Seq(Event), NEW call, NEW n \in Nat, n > 0
  PROVE  /\ Paired(h, call, n) \in Nat
         /\ Paired(h, call, n) # 0 <=> n <= Cardinality(LaneEvents(h, call))
         /\ Paired(h, call, n) # 0 =>
              /\ Paired(h, call, n) \in LaneEvents(h, call) /\ Paired(h, call, n) \in DOMAIN h
              /\ Rank(LaneEvents(h, call), Paired(h, call, n)) = n
<1> DEFINE L == LaneEvents(h, call)
<1>1. /\ L \in SUBSET Nat /\ IsFiniteSet(L) /\ Cardinality(L) \in Nat
      /\ L \subseteq DOMAIN h /\ 0 \notin L
  BY LaneEventsAreFinite
<1>2. Paired(h, call, n) = IF n <= Cardinality(L) THEN Nth(L, n) ELSE 0
  BY DEF Paired
<1> HIDE DEF L
<1>3. n <= Cardinality(L) => n \in 1..Cardinality(L)
  BY <1>1
<1>4. n <= Cardinality(L) => Nth(L, n) \in L /\ Rank(L, Nth(L, n)) = n
  BY <1>1, <1>3, NthHasRank
<1>5. CASE n <= Cardinality(L)
  <2>1. Nth(L, n) \in L /\ Rank(L, Nth(L, n)) = n /\ Paired(h, call, n) = Nth(L, n)
    BY <1>2, <1>4, <1>5
  <2>2. Nth(L, n) \in Nat /\ Nth(L, n) # 0 /\ Nth(L, n) \in DOMAIN h
    BY <1>1, <2>1
  <2> QED
    BY <1>5, <2>1, <2>2 DEF L
<1>6. CASE ~(n <= Cardinality(L))
  BY <1>2, <1>6 DEF L
<1> QED
  BY <1>5, <1>6

\* The calls of a lane before another are finitely many.
LEMMA CountsAreNumbers ==
  ASSUME NEW h, NEW p \in Program, NEW n, NEW call
  PROVE  /\ Count(Before(Made(h, p), n), call) \in Nat
         /\ IsFiniteSet({m \in Before(Made(h, p), n) : SameLane(m.call, call)})
<1>1. IsFiniteSet(Made(h, p))
  BY MadeTurnByTurn DEF MadeBy
<1>2. {m \in Before(Made(h, p), n) : SameLane(m.call, call)} \in SUBSET Made(h, p)
  BY DEF Before
<1> QED
  BY <1>1, <1>2, FS_Subset, FS_CardinalityType DEF Count

\* The outcomes of a step can be counted.
LEMMA OutcomesAreFinite ==
  ASSUME NEW h \in Seq(Event), NEW s
  PROVE  Outcomes(h, s) \in SUBSET Nat /\ IsFiniteSet(Outcomes(h, s))
<1>1. Len(h) \in Nat /\ DOMAIN h = 1..Len(h)
  OBVIOUS
<1>2. Outcomes(h, s) \in SUBSET (1..Len(h)) /\ IsFiniteSet(1..Len(h))
  BY <1>1, FS_Interval DEF Outcomes
<1>3. IsFiniteSet(Outcomes(h, s))
  BY <1>2, FS_Subset
<1> QED
  BY <1>1, <1>2, <1>3

\* The event of a call, and how it was answered.
LEMMA CallsAnswered ==
  ASSUME NEW h \in Seq(Event), NEW p \in Program, NEW m \in Made(h, p)
  PROVE  /\ m.at \in Nat
         /\ m.at = 0 <=> m.answer = "new"
         /\ m.at # 0 => m.at \in DOMAIN h /\ m.at \in LaneEvents(h, m.call)
         /\ m.answer \in {"new", "differs", "waiting", "completed", "failed"}
         /\ m.answer = "differs" <=> m.at # 0 /\ Differs(h[m.at], m.call)
<1> DEFINE n == 1 + Count(Before(Made(h, p), m.turn), m.call)
<1>1. n \in Nat /\ n > 0
  <2>1. Count(Before(Made(h, p), m.turn), m.call) \in Nat
    BY CountsAreNumbers
  <2> QED
    BY <2>1
<1>2. m.at = Paired(h, m.call, n) /\ m.answer = Answer(h, m.call, m.at)
  BY CallsMade
<1> HIDE DEF n
<1>3. m.at \in Nat /\ (m.at # 0 => m.at \in DOMAIN h /\ m.at \in LaneEvents(h, m.call))
  BY <1>1, <1>2, PairedWithLane
<1>4. ASSUME m.at # 0, ~Differs(h[m.at], m.call)
      PROVE  m.answer \in {"waiting", "completed", "failed"}
  <2> SUFFICES ASSUME m.answer \notin {"waiting", "completed"} PROVE m.answer = "failed"
    OBVIOUS
  <2>1. Outcomes(h, m.at) # {} /\ m.answer = h[Max(Outcomes(h, m.at))].stage
    BY <1>2, <1>4 DEF Answer
  <2>2. Max(Outcomes(h, m.at)) \in Outcomes(h, m.at)
    BY <2>1, OutcomesAreFinite, Greatest
  <2>3. h[Max(Outcomes(h, m.at))] \in Event /\ h[Max(Outcomes(h, m.at))].stage # "requested"
    BY <2>2 DEF Outcomes
  <2> QED
    BY <2>1, <2>3 DEF Event, Stages
<1>5. m.at = 0 => m.answer = "new"
  BY <1>2 DEF Answer
<1>6. m.at # 0 /\ Differs(h[m.at], m.call) => m.answer = "differs"
  BY <1>2 DEF Answer
<1> QED
  BY <1>3, <1>4, <1>5, <1>6

-----------------------------------------------------------------------------
(***************************************************************************)
(* Decisions.                                                              *)
(***************************************************************************)
TurnsOf(made) == {m.turn : m \in made}

\* The turns of some calls can be counted.
LEMMA TurnsAreFinite ==
  ASSUME NEW h, NEW p \in Program, NEW S \in SUBSET Made(h, p)
  PROVE  /\ TurnsOf(S) \in SUBSET Nat /\ IsFiniteSet(TurnsOf(S))
         /\ \A n \in TurnsOf(S) : n > 0
<1>1. Turns(p) \in Nat
  BY RoundsReach
<1>2. \A m \in S : m.turn \in 1..Turns(p)
  BY CallsMade
<1>3. TurnsOf(S) \in SUBSET (1..Turns(p)) /\ IsFiniteSet(1..Turns(p))
  BY <1>1, <1>2, FS_Interval DEF TurnsOf
<1>4. IsFiniteSet(TurnsOf(S))
  BY <1>3, FS_Subset
<1>5. \A n \in 1..Turns(p) : n \in Nat /\ n > 0
  BY <1>1
<1> QED
  BY <1>3, <1>4, <1>5

\* How many of some calls were made up to a turn.
LEMMA CountByTurn ==
  ASSUME NEW h, NEW p \in Program, NEW S \in SUBSET Made(h, p), NEW n
  PROVE  Cardinality({k \in S : k.turn <= n}) = Rank(TurnsOf(S), n)
<1> DEFINE A == {k \in S : k.turn <= n}
           B == {t \in TurnsOf(S) : t <= n}
           f == [k \in A |-> k.turn]
<1>1. f \in Bijection(A, B)
  <2>1. f \in [A -> B] /\ \A k \in A : f[k] = k.turn
    BY DEF TurnsOf
  <2>2. \A k, m \in A : k.turn = m.turn => k = m
    BY OneCallATurn
  <2>3. \A t \in B : \E k \in A : k.turn = t
    BY DEF TurnsOf
  <2> HIDE DEF A, B, f
  <2> QED
    BY <2>1, <2>2, <2>3 DEF Bijection, Injection, Surjection, IsInjective
<1>2. IsFiniteSet(A)
  <2>1. IsFiniteSet(Made(h, p))
    BY MadeTurnByTurn DEF MadeBy
  <2>2. A \in SUBSET Made(h, p)
    OBVIOUS
  <2> QED
    BY <2>1, <2>2, FS_Subset
<1> HIDE DEF f
<1> QED
  BY <1>1, <1>2, FS_Bijection DEF ExistsBijection, Rank

\* What Divergence says.
LEMMA Diverges ==
  ASSUME NEW h \in Seq(Event), NEW p \in Program
  PROVE  \/ /\ Divergence(Made(h, p)) = "none"
            /\ \A m \in Made(h, p) : m.answer # "differs"
         \/ \E m \in Made(h, p) : /\ m.answer = "differs"
                                  /\ Divergence(Made(h, p)) = m.call.lane
                                  /\ m.call.lane \in {"activity", "llm", "tool"}
<1> DEFINE S == {m \in Made(h, p) : m.answer = "differs"}
<1>1. CASE S = {}
  BY <1>1 DEF Divergence
<1>2. CASE S # {}
  <2>1. TurnsOf(S) \in SUBSET Nat /\ IsFiniteSet(TurnsOf(S))
    BY TurnsAreFinite
  <2>2. TurnsOf(S) # {}
    BY <1>2 DEF TurnsOf
  <2>3. Max(TurnsOf(S)) \in TurnsOf(S) /\ \A n \in TurnsOf(S) : n <= Max(TurnsOf(S))
    BY <2>1, <2>2, Greatest
  <2> DEFINE last == CHOOSE m \in S : \A k \in S : k.turn <= m.turn
  <2>4. last \in S
    <3>1. \E m \in S : \A k \in S : k.turn <= m.turn
      BY <2>3 DEF TurnsOf
    <3> QED
      BY <3>1
  <2>5. Divergence(Made(h, p)) = last.call.lane
    BY <1>2 DEF Divergence
  <2> HIDE DEF last
  <2>6. last \in Made(h, p) /\ last.answer = "differs"
    BY <2>4
  <2>8. last.call.lane \in {"activity", "llm", "tool"}
    BY <2>6, CallsAnswered DEF Differs
  <2> QED
    BY <2>5, <2>6, <2>8
<1> QED
  BY <1>1, <1>2

\* There are as many calls as turns at which they are made.
LEMMA CountOfTurns ==
  ASSUME NEW h, NEW p \in Program, NEW S \in SUBSET Made(h, p)
  PROVE  Cardinality(S) = Cardinality(TurnsOf(S))
<1> DEFINE B == TurnsOf(S)
           f == [k \in S |-> k.turn]
<1>1. f \in Bijection(S, B)
  <2>1. f \in [S -> B] /\ \A k \in S : f[k] = k.turn
    BY DEF TurnsOf
  <2>2. \A k, m \in S : k.turn = m.turn => k = m
    BY OneCallATurn
  <2>3. \A t \in B : \E k \in S : k.turn = t
    BY DEF TurnsOf
  <2> HIDE DEF B, f
  <2> QED
    BY <2>1, <2>2, <2>3 DEF Bijection, Injection, Surjection, IsInjective
<1>2. IsFiniteSet(S)
  <2>1. IsFiniteSet(Made(h, p))
    BY MadeTurnByTurn DEF MadeBy
  <2> QED
    BY <2>1, FS_Subset
<1> HIDE DEF f
<1> QED
  BY <1>1, <1>2, FS_Bijection DEF ExistsBijection

\* The commands are the new calls in the order of their turns.
NewCalls(made) == {m \in made : m.answer = "new" /\ m.call.lane # "signal"}
Place(h, p, m) == Rank(TurnsOf(NewCalls(Made(h, p))), m.turn)
Command(m) == Requested(m.call, <<m.branch, m.round>>)

\* The commands are those of the new calls, each at its place.
LEMMA CommandsInOrder ==
  ASSUME NEW h, NEW p \in Program
  PROVE  /\ Cardinality(NewCalls(Made(h, p))) \in Nat
         /\ DOMAIN NewRequests(Made(h, p)) = 1..Cardinality(NewCalls(Made(h, p)))
         /\ Len(NewRequests(Made(h, p))) = Cardinality(NewCalls(Made(h, p)))
         /\ \A n \in DOMAIN NewRequests(Made(h, p)) :
              \E m \in NewCalls(Made(h, p)) :
                Place(h, p, m) = n /\ NewRequests(Made(h, p))[n] = Command(m)
         /\ \A m \in NewCalls(Made(h, p)) :
              /\ Place(h, p, m) \in DOMAIN NewRequests(Made(h, p))
              /\ NewRequests(Made(h, p))[Place(h, p, m)] = Command(m)
<1> DEFINE new == NewCalls(Made(h, p))
           T == TurnsOf(new)
           nth(n) == CHOOSE m \in new : Cardinality({k \in new : k.turn <= m.turn}) = n
           rs == NewRequests(Made(h, p))
<1>1. new \in SUBSET Made(h, p)
  BY DEF NewCalls
<1>2. T \in SUBSET Nat /\ IsFiniteSet(T)
  BY <1>1, TurnsAreFinite
<1>3. Cardinality(new) = Cardinality(T)
  BY <1>1, CountOfTurns
<1>4. /\ Cardinality(T) \in Nat
      /\ \A t \in T : Rank(T, t) \in 1..Cardinality(T)
      /\ \A t, u \in T : Rank(T, t) = Rank(T, u) => t = u
      /\ \A n \in 1..Cardinality(T) : \E t \in T : Rank(T, t) = n
  BY <1>2, RanksOrder
<1>5. \A m : Cardinality({k \in new : k.turn <= m.turn}) = Place(h, p, m)
  BY <1>1, CountByTurn DEF Place
<1>6. rs = [n \in 1..Cardinality(new) |->
              Requested(nth(n).call, <<nth(n).branch, nth(n).round>>)]
  BY DEF NewRequests, NewCalls
<1>7. ASSUME NEW n \in 1..Cardinality(T)
      PROVE  nth(n) \in new /\ Place(h, p, nth(n)) = n
  <2>1. PICK t \in T : Rank(T, t) = n
    BY <1>4
  <2>2. PICK m \in new : m.turn = t
    BY DEF TurnsOf
  <2>3. Place(h, p, m) = n
    BY <2>1, <2>2 DEF Place
  <2>4. \E k \in new : Place(h, p, k) = n
    BY <2>2, <2>3
  <2>5. nth(n) = CHOOSE k \in new : Place(h, p, k) = n
    BY <1>5
  <2> HIDE DEF new, nth
  <2> QED
    BY <2>4, <2>5
<1>8. \A m \in new : Place(h, p, m) \in 1..Cardinality(T)
  BY <1>4 DEF Place, TurnsOf
<1>9. \A m, k \in new : Place(h, p, m) = Place(h, p, k) => m = k
  <2> SUFFICES ASSUME NEW m \in new, NEW k \in new, Place(h, p, m) = Place(h, p, k)
               PROVE  m = k
    OBVIOUS
  <2>1. m.turn \in T /\ k.turn \in T
    BY DEF TurnsOf
  <2>2. m.turn = k.turn
    BY <1>4, <2>1 DEF Place
  <2> QED
    BY <1>1, <2>2, OneCallATurn
<1> HIDE DEF new, T, nth, rs
<1>10. DOMAIN rs = 1..Cardinality(T) /\ Cardinality(T) \in Nat /\ Len(rs) = Cardinality(T)
  BY <1>3, <1>4, <1>6
<1>11. \A n \in 1..Cardinality(T) : rs[n] = Command(nth(n))
  BY <1>3, <1>6 DEF Command
<1>12. \A n \in DOMAIN rs : \E m \in new : Place(h, p, m) = n /\ rs[n] = Command(m)
  BY <1>7, <1>10, <1>11
<1>13. \A m \in new : Place(h, p, m) \in DOMAIN rs /\ rs[Place(h, p, m)] = Command(m)
  <2> SUFFICES ASSUME NEW m \in new
               PROVE  Place(h, p, m) \in DOMAIN rs /\ rs[Place(h, p, m)] = Command(m)
    OBVIOUS
  <2>1. Place(h, p, m) \in DOMAIN rs
    BY <1>8, <1>10
  <2>2. PICK k \in new : Place(h, p, k) = Place(h, p, m) /\ rs[Place(h, p, m)] = Command(k)
    BY <1>12, <2>1
  <2> QED
    BY <1>9, <2>1, <2>2
<1> QED
  BY <1>3, <1>10, <1>12, <1>13 DEF new, rs

\* Of what an event consists.
EventFits(e) ==
  /\ e \in Event
  /\ e.lane = "workflow" => e.stage # "requested" /\ e.ref = 0
  /\ e.stage = "requested" => e.call \in Call /\ e.call.lane = e.lane /\ e.ref = 0
  /\ e.storage = "full" => e.copy \in Call

\* The canonical form of a call is a call of its lane.
LEMMA CanonicalIsACall ==
  ASSUME NEW call \in Call
  PROVE  /\ Canonical(call) \in Call /\ Canonical(call).lane = call.lane
         /\ Canonical(call).name = call.name
  BY DEF Call, Canonical

\* Outcomes fit.
LEMMA PlainFits ==
  ASSUME NEW lane \in Lanes, NEW stage \in {"completed", "failed"}, NEW s \in Nat
  PROVE  EventFits(Plain(lane, stage, s))
<1>1. lane # "workflow"
  BY DEF Lanes
<1> QED
  BY <1>1 DEF EventFits, Plain, Event, Stages, Storage

\* Final events fit.
LEMMA FinalFits ==
  ASSUME NEW stage \in {"completed", "failed"}
  PROVE  EventFits(Final(stage)) /\ Final(stage).lane = "workflow"
  BY DEF EventFits, Final, Plain, Event, Stages, Storage

\* Requests fit, and tell what was called.
LEMMA RequestedFits ==
  ASSUME setup.storePrompts \in BOOLEAN, NEW call \in Call, NEW by \in Nat \X Nat
  PROVE  /\ EventFits(Requested(call, by))
         /\ Requested(call, by).stage = "requested" /\ Requested(call, by).lane = call.lane
         /\ Requested(call, by).call = Canonical(call) /\ Requested(call, by).by = by
<1> DEFINE stored == BuildStoredRequest(call)
           altered == [call EXCEPT !.name = "altered"]
<1>1. altered \in Call
  BY DEF Call
<1>2. /\ stored \in [storage : Storage, copy : Call \cup {None}]
      /\ stored.storage = "full" => stored.copy \in Call
  <2>1. \/ stored = [storage |-> "none", copy |-> None]
        \/ stored = [storage |-> "truncated", copy |-> altered]
        \/ stored = [storage |-> "redacted", copy |-> altered]
        \/ stored = [storage |-> "full", copy |-> call]
    BY DEF BuildStoredRequest
  <2> HIDE DEF stored, altered
  <2> QED
    BY <1>1, <2>1 DEF Storage
<1>3. Requested(call, by) =
        [lane |-> call.lane, stage |-> "requested", call |-> Canonical(call), ref |-> 0,
         storage |-> stored.storage, copy |-> stored.copy, by |-> by]
  BY DEF Requested
<1>4. call.lane \in Lanes /\ call.lane # "workflow"
  BY DEF Call, Lanes
<1> HIDE DEF stored
<1> QED
  BY <1>2, <1>3, <1>4, CanonicalIsACall DEF EventFits, Event, Stages

\* A decision is a final event, or the commands.
LEMMA DecisionsFit ==
  ASSUME setup.storePrompts \in BOOLEAN, NEW h \in Seq(Event), NEW p \in Program
  PROVE  /\ Decision(h, p) \in Seq(Event)
         /\ \A n \in DOMAIN Decision(h, p) : EventFits(Decision(h, p)[n])
         /\ \/ /\ Divergence(Made(h, p)) = "none"
               /\ Decision(h, p) = NewRequests(Made(h, p))
            \/ \A n \in DOMAIN Decision(h, p) : Decision(h, p)[n].lane = "workflow"
<1> DEFINE made == Made(h, p)
           d == Decision(h, p)
<1>1. Divergence(made) \in {"none", "activity", "llm", "tool"}
  BY Diverges
<1>2. \/ d = <<>>
      \/ d \in {<<Final("failed")>>, <<Final("completed")>>}
      \/ d = NewRequests(made) /\ Divergence(made) = "none"
  <2> HIDE DEF made
  <2> QED
    BY <1>1 DEF Decision, made
<1>3. CASE d = <<>>
  BY <1>3
<1>4. CASE d \in {<<Final("failed")>>, <<Final("completed")>>}
  <2>1. PICK stage \in {"completed", "failed"} : d = <<Final(stage)>>
    BY <1>4
  <2>2. EventFits(Final(stage)) /\ Final(stage).lane = "workflow"
    BY FinalFits
  <2>3. d \in Seq(Event)
    BY <2>1, <2>2 DEF EventFits
  <2>4. \A n \in DOMAIN d : d[n] = Final(stage)
    BY <2>1
  <2> QED
    BY <2>2, <2>3, <2>4
<1>5. CASE d = NewRequests(made) /\ Divergence(made) = "none"
  <2>1. ASSUME NEW n \in DOMAIN d PROVE EventFits(d[n])
    <3>1. PICK m \in NewCalls(made) : d[n] = Command(m)
      BY <1>5, <2>1, CommandsInOrder
    <3>2. m \in Made(h, p)
      BY DEF NewCalls
    <3>3. m.call \in Call /\ <<m.branch, m.round>> \in Nat \X Nat
      BY <3>2, CallsMade
    <3> QED
      BY <3>1, <3>3, RequestedFits DEF Command
  <2>2. d \in Seq(Event)
    <3>1. Cardinality(NewCalls(made)) \in Nat /\ DOMAIN d = 1..Cardinality(NewCalls(made))
      BY <1>5, CommandsInOrder
    <3>2. \A n \in DOMAIN d : d[n] \in Event
      BY <2>1 DEF EventFits
    <3>3. d = [n \in 1..Cardinality(NewCalls(made)) |-> d[n]]
      BY <1>5, <3>1 DEF NewRequests, NewCalls
    <3> HIDE DEF d, made
    <3> QED
      BY <3>1, <3>2, <3>3
  <2> QED
    BY <1>5, <2>1, <2>2
<1> QED
  BY <1>2, <1>3, <1>4, <1>5

-----------------------------------------------------------------------------
(***************************************************************************)
(* Types, and what a provider was asked.                                   *)
(***************************************************************************)
\* An outcome refers to an earlier request of its lane.
RefFits(h, s) ==
  h[s].stage # "requested" /\ h[s].lane # "workflow" =>
    /\ h[s].ref \in 1..(s - 1)
    /\ IsRequest(h[h[s].ref]) /\ h[h[s].ref].lane = h[s].lane

HistoryFits(h) ==
  /\ h \in Seq(Event)
  /\ \A s \in DOMAIN h : EventFits(h[s]) /\ RefFits(h, s)

\* Providers were asked what the history says, and every answer is one of theirs.
SentTruly ==
  \A r \in sent : /\ IsRequest(hist[r.at]) /\ hist[r.at].lane = "llm"
                  /\ Canonical(r.request) = hist[r.at].call
Asked ==
  \A o \in DOMAIN hist :
    hist[o].lane = "llm" /\ hist[o].stage = "completed" => \E r \in sent : r.at = hist[o].ref

IInv == TypeOK /\ HistoryFits(hist) /\ SentTruly /\ Asked

\* What a scenario is made of.
LEMMA Scenario ==
  ASSUME setup \in Scenarios
  PROVE  /\ setup.storePrompts \in BOOLEAN /\ setup.signals \in Nat /\ setup.stalls \in Nat
         /\ Len(setup.versions) \in Nat /\ Len(setup.versions) > 0
         /\ DOMAIN setup.versions = 1..Len(setup.versions)
         /\ \A v \in DOMAIN setup.versions : Code(v) \in Program
<1>1. /\ setup.storePrompts \in BOOLEAN /\ setup.signals \in Nat /\ setup.stalls \in Nat
      /\ setup.versions \in Seq(Program) /\ setup.versions # <<>>
  BY ReplayAssumption
<1>2. PICK vs \in Seq(Program) : vs = setup.versions /\ vs # <<>>
  BY <1>1
<1>3. /\ Len(vs) \in Nat /\ Len(vs) > 0 /\ DOMAIN vs = 1..Len(vs)
      /\ \A v \in DOMAIN vs : vs[v] \in Program
  BY <1>2
<1> QED
  BY <1>1, <1>2, <1>3 DEF Code

\* A history to which events are added that fit.
LEMMA HistoryFitsMore ==
  ASSUME NEW h, HistoryFits(h), NEW g \in Seq(Event), Len(g) >= Len(h),
         \A s \in DOMAIN h : g[s] = h[s],
         \A s \in DOMAIN g : s \notin DOMAIN h => EventFits(g[s]) /\ RefFits(g, s)
  PROVE  HistoryFits(g)
<1>1. h \in Seq(Event) /\ \A s \in DOMAIN h : EventFits(h[s]) /\ RefFits(h, s)
  BY DEF HistoryFits
<1>2. /\ DOMAIN h = 1..Len(h) /\ DOMAIN g = 1..Len(g)
      /\ Len(h) \in Nat /\ Len(g) \in Nat
  BY <1>1
<1>3. ASSUME NEW s \in DOMAIN h PROVE EventFits(g[s]) /\ RefFits(g, s)
  <2>1. g[s] = h[s] /\ EventFits(h[s]) /\ RefFits(h, s) /\ s \in Nat /\ s <= Len(h)
    BY <1>1, <1>2
  <2>2. \A k \in 1..(s - 1) : k \in DOMAIN h /\ g[k] = h[k]
    BY <1>2, <2>1
  <2>3. RefFits(g, s)
    BY <2>1, <2>2 DEF RefFits
  <2> QED
    BY <2>1, <2>3
<1> QED
  BY <1>3 DEF HistoryFits

\* A history to which a signal, a final event or an outcome of one of its steps is appended.
LEMMA FitsAfterAppend ==
  ASSUME NEW h, HistoryFits(h), NEW e, EventFits(e),
         e.stage = "requested" \/ e.lane = "workflow"
           \/ (e.ref \in DOMAIN h /\ IsRequest(h[e.ref]) /\ h[e.ref].lane = e.lane)
  PROVE  /\ HistoryFits(Append(h, e)) /\ Len(Append(h, e)) = Len(h) + 1
         /\ \A s \in DOMAIN h : s \in DOMAIN Append(h, e) /\ Append(h, e)[s] = h[s]
         /\ Append(h, e)[Len(h) + 1] = e
         /\ DOMAIN Append(h, e) = DOMAIN h \cup {Len(h) + 1}
<1> DEFINE g == Append(h, e)
<1>1. h \in Seq(Event) /\ e \in Event /\ Len(h) \in Nat /\ DOMAIN h = 1..Len(h)
  BY DEF HistoryFits, EventFits
<1>2. /\ g \in Seq(Event) /\ Len(g) = Len(h) + 1 /\ DOMAIN g = 1..(Len(h) + 1)
      /\ g[Len(h) + 1] = e
      /\ \A s \in 1..Len(h) : g[s] = h[s]
  BY <1>1
<1> HIDE DEF g
<1>3. DOMAIN g = DOMAIN h \cup {Len(h) + 1}
  BY <1>1, <1>2
<1>4. EventFits(g[Len(h) + 1]) /\ RefFits(g, Len(h) + 1)
  <2>1. \A k \in DOMAIN h : k \in 1..(Len(h) + 1 - 1) /\ g[k] = h[k]
    BY <1>1, <1>2
  <2> QED
    BY <1>2, <2>1 DEF RefFits
<1>5. HistoryFits(g)
  BY <1>1, <1>2, <1>3, <1>4, HistoryFitsMore
<1> QED
  BY <1>1, <1>2, <1>3, <1>5 DEF g

\* A history to which a decision is appended.
LEMMA FitsAfterDecision ==
  ASSUME NEW h, HistoryFits(h), NEW d \in Seq(Event),
         \A n \in DOMAIN d : EventFits(d[n]) /\ (d[n].stage = "requested" \/ d[n].lane = "workflow")
  PROVE  /\ HistoryFits(h \o d) /\ Len(h \o d) = Len(h) + Len(d)
         /\ \A s \in DOMAIN h : s \in DOMAIN (h \o d) /\ (h \o d)[s] = h[s]
         /\ \A n \in DOMAIN d : Len(h) + n \in DOMAIN (h \o d) /\ (h \o d)[Len(h) + n] = d[n]
         /\ \A s \in DOMAIN (h \o d) : s \in DOMAIN h \/ \E n \in DOMAIN d : s = Len(h) + n
<1> DEFINE g == h \o d
<1>1. /\ h \in Seq(Event) /\ Len(h) \in Nat /\ DOMAIN h = 1..Len(h)
      /\ Len(d) \in Nat /\ DOMAIN d = 1..Len(d)
  BY DEF HistoryFits
<1>2. /\ g \in Seq(Event) /\ Len(g) = Len(h) + Len(d) /\ DOMAIN g = 1..(Len(h) + Len(d))
      /\ \A s \in 1..Len(h) : g[s] = h[s]
      /\ \A n \in 1..Len(d) : g[Len(h) + n] = d[n]
  BY <1>1
<1> HIDE DEF g
<1>3. /\ \A s \in DOMAIN h : s \in DOMAIN g
      /\ \A n \in DOMAIN d : Len(h) + n \in DOMAIN g /\ Len(h) + n \notin DOMAIN h
      /\ Len(g) >= Len(h)
  BY <1>1, <1>2
<1>4. \A s \in DOMAIN g : s \in DOMAIN h \/ \E n \in DOMAIN d : s = Len(h) + n
  <2> SUFFICES ASSUME NEW s \in DOMAIN g, s \notin DOMAIN h
               PROVE  \E n \in DOMAIN d : s = Len(h) + n
    OBVIOUS
  <2>1. s - Len(h) \in 1..Len(d) /\ s = Len(h) + (s - Len(h))
    BY <1>1, <1>2
  <2> QED
    BY <1>1, <2>1
<1>5. \A s \in DOMAIN g : s \notin DOMAIN h => EventFits(g[s]) /\ RefFits(g, s)
  BY <1>1, <1>2, <1>4 DEF RefFits
<1>6. HistoryFits(g)
  BY <1>1, <1>2, <1>3, <1>5, HistoryFitsMore
<1> QED
  BY <1>1, <1>2, <1>3, <1>4, <1>6 DEF g

\* The greater of two numbers.
LEMMA GreaterOfTwo ==
  ASSUME NEW a \in Nat, NEW b \in Nat
  PROVE  /\ Max({a, b}) \in {a, b} /\ Max({a, b}) \in Nat
         /\ a <= Max({a, b}) /\ b <= Max({a, b})
<1>1. {a, b} \in SUBSET Nat /\ {a, b} # {} /\ {a, b} = {a} \cup {b}
  OBVIOUS
<1>2. IsFiniteSet({a, b})
  <2>1. IsFiniteSet({a}) /\ IsFiniteSet({b})
    BY FS_Singleton
  <2>2. IsFiniteSet({a} \cup {b})
    BY <2>1, FS_Union
  <2> QED
    BY <1>1, <2>2, Zenon
<1> QED
  BY <1>1, <1>2, Greatest

\* The versions that run are deployed ones, and some run after any are stopped.
LEMMA FleetMoves ==
  ASSUME TypeOK
  PROVE  /\ Max(fleet) \in fleet /\ fleet \subseteq 1..Len(setup.versions)
         /\ \A v \in fleet : Code(v) \in Program /\ v <= Max(fleet)
         /\ Cardinality(fleet) > 1 => fleet \ {Min(fleet)} # {}
<1>1. /\ fleet # {} /\ fleet \subseteq 1..Len(setup.versions) /\ Len(setup.versions) \in Nat
      /\ \A v \in fleet : Code(v) \in Program
  BY Scenario DEF TypeOK
<1>2. IsFiniteSet(fleet)
  <2>1. fleet \in SUBSET (1..Len(setup.versions)) /\ IsFiniteSet(1..Len(setup.versions))
    BY <1>1, FS_Interval
  <2> QED
    BY <2>1, FS_Subset
<1>3. fleet \in SUBSET Nat
  BY <1>1
<1>4. Max(fleet) \in fleet /\ \A v \in fleet : v <= Max(fleet)
  BY <1>1, <1>2, <1>3, Greatest
<1>5. ASSUME fleet \ {Min(fleet)} = {} PROVE ~(Cardinality(fleet) > 1)
  <2>1. fleet \in SUBSET {Min(fleet)} /\ IsFiniteSet({Min(fleet)})
    BY <1>5, FS_Singleton
  <2>2. Cardinality(fleet) <= 1 /\ Cardinality(fleet) \in Nat
    <3>1. Cardinality({Min(fleet)}) = 1
      BY FS_Singleton
    <3>2. Cardinality(fleet) <= Cardinality({Min(fleet)}) /\ Cardinality(fleet) \in Nat
      BY <1>2, <2>1, FS_Subset, FS_CardinalityType
    <3> QED
      BY <3>1, <3>2
  <2> QED
    BY <2>2
<1> QED
  BY <1>1, <1>4, <1>5

\* A request that is resolved is what the history says.
LEMMA Resolved ==
  ASSUME IInv, NEW s \in DOMAIN hist, NEW v \in fleet, NEW request \in ResolveRequest(s, Code(v))
  PROVE  request \in Call /\ Canonical(request) = hist[s].call
<1>1. /\ Canonical(request) = hist[s].call
      /\ \/ hist[s].storage = "full" /\ request = hist[s].copy
         \/ \E m \in Made(hist, Code(v)) : request = m.call
  BY DEF ResolveRequest
<1>2. Code(v) \in Program /\ EventFits(hist[s])
  BY FleetMoves DEF IInv, HistoryFits
<1>3. CASE hist[s].storage = "full" /\ request = hist[s].copy
  BY <1>1, <1>2, <1>3 DEF EventFits
<1>4. CASE \E m \in Made(hist, Code(v)) : request = m.call
  BY <1>1, <1>2, <1>4, CallsMade
<1> QED
  BY <1>1, <1>3, <1>4

\* The rest of the state when the history grows and nothing else is sent or settled.
LEMMA SentStays ==
  ASSUME IInv, HistoryFits(hist'), sent' = sent,
         \A s \in DOMAIN hist : s \in DOMAIN hist' /\ hist'[s] = hist[s],
         \A s \in DOMAIN hist' :
           s \notin DOMAIN hist /\ hist'[s].lane = "llm" => hist'[s].stage # "completed"
  PROVE  SentTruly' /\ Asked' /\ sent' \in SUBSET [at : DOMAIN hist', request : Call]
<1>1. sent \in SUBSET [at : DOMAIN hist, request : Call] /\ SentTruly /\ Asked
  BY DEF IInv, TypeOK
<1>2. \A r \in sent : r.at \in DOMAIN hist /\ r \in [at : DOMAIN hist', request : Call]
  BY <1>1
<1> QED
  BY <1>1, <1>2 DEF SentTruly, Asked

\* The invariant holds of the initial states,
LEMMA InitIInv == Init => IInv
<1> SUFFICES ASSUME Init PROVE IInv
  OBVIOUS
<1>1. hist = <<>> /\ DOMAIN hist = {} /\ Len(hist) = 0 /\ hist \in Seq(Event)
  BY DEF Init
<1>2. 1 \in DOMAIN setup.versions
  BY Scenario DEF Init
<1>3. 0 \in 0..setup.signals /\ 0 \in 0..setup.stalls
  BY Scenario DEF Init
<1> QED
  BY <1>1, <1>2, <1>3 DEF Init, IInv, TypeOK, HistoryFits, SentTruly, Asked

\* is kept by every step,
LEMMA NextIInv == IInv /\ [Next]_vars => IInv'
<1> SUFFICES ASSUME IInv, [Next]_vars PROVE IInv'
  OBVIOUS
<1> USE DEF IInv
<1>1. /\ TypeOK /\ HistoryFits(hist) /\ SentTruly /\ Asked
      /\ hist \in Seq(Event) /\ Len(hist) \in Nat /\ DOMAIN hist = 1..Len(hist)
      /\ setup.storePrompts \in BOOLEAN
  BY Scenario DEF TypeOK, HistoryFits
<1>2. ASSUME NEW v \in fleet, ReadHistory(v) PROVE IInv'
  <2>1. Len(hist) \in 0..Len(hist) /\ v \in DOMAIN setup.versions
    BY <1>1 DEF TypeOK
  <2>2. TypeOK'
    BY <1>1, <1>2, <2>1 DEF ReadHistory, TypeOK
  <2> QED
    BY <1>1, <1>2, <2>2 DEF ReadHistory, SentTruly, Asked
<1>3. ASSUME AppendDecision PROVE IInv'
  <2> DEFINE h == SubSeq(hist, 1, pass.seen)
             d == Decision(h, Code(pass.version))
  <2>1. pass.seen \in 0..Len(hist) /\ pass.version \in DOMAIN setup.versions
    BY <1>1, <1>3 DEF AppendDecision, TypeOK
  <2>2. h \in Seq(Event) /\ Code(pass.version) \in Program
    BY <1>1, <2>1, Scenario DEF TypeOK
  <2>3. d \in Seq(Event) /\ \A n \in DOMAIN d : EventFits(d[n])
    BY <1>1, <2>2, DecisionsFit
  <2>4. \A n \in DOMAIN d : d[n].stage = "requested" \/ d[n].lane = "workflow"
    <3>1. CASE d = NewRequests(Made(h, Code(pass.version)))
      <4> SUFFICES ASSUME NEW n \in DOMAIN d PROVE d[n].stage = "requested"
        OBVIOUS
      <4>1. PICK m \in NewCalls(Made(h, Code(pass.version))) : d[n] = Command(m)
        BY <2>2, <3>1, CommandsInOrder
      <4>2. m.call \in Call /\ <<m.branch, m.round>> \in Nat \X Nat
        BY <2>2, CallsMade DEF NewCalls
      <4> QED
        BY <1>1, <4>1, <4>2, RequestedFits DEF Command
    <3> QED
      BY <1>1, <2>2, <3>1, DecisionsFit
  <2>5. hist' = hist \o d
    BY <1>3 DEF AppendDecision
  <2> HIDE DEF d, h
  <2>6. /\ HistoryFits(hist') /\ Len(hist') = Len(hist) + Len(d)
        /\ \A s \in DOMAIN hist : s \in DOMAIN hist' /\ hist'[s] = hist[s]
        /\ \A s \in DOMAIN hist' : s \in DOMAIN hist \/ \E n \in DOMAIN d : s = Len(hist) + n
        /\ \A n \in DOMAIN d : hist'[Len(hist) + n] = d[n]
    BY <1>1, <2>3, <2>4, <2>5, FitsAfterDecision
  <2>7. \A s \in DOMAIN hist' :
          s \notin DOMAIN hist /\ hist'[s].lane = "llm" => hist'[s].stage # "completed"
    BY <2>4, <2>6
  <2>8. SentTruly' /\ Asked' /\ sent' \in SUBSET [at : DOMAIN hist', request : Call]
    BY <1>3, <2>6, <2>7, SentStays DEF AppendDecision
  <2>9. based' \in 0..Len(hist')
    <3>1. based \in 0..Len(hist) /\ Len(d) \in Nat
      BY <1>1, <2>3 DEF TypeOK
    <3>2. based' \in {based, pass.seen}
      <4>1. based \in Nat /\ pass.seen \in Nat
        BY <1>1, <2>1, <3>1
      <4>2. based' = Max({based, pass.seen})
        BY <1>3 DEF AppendDecision
      <4>3. Max({based, pass.seen}) \in {based, pass.seen}
        BY <4>1, GreaterOfTwo
      <4> QED
        BY <4>2, <4>3
    <3> QED
      BY <1>1, <2>1, <2>6, <3>1, <3>2
  <2>10. TypeOK'
    BY <1>1, <1>3, <2>6, <2>8, <2>9 DEF AppendDecision, TypeOK, HistoryFits
  <2> QED
    BY <2>6, <2>8, <2>10
<1>4. ASSUME PassDies PROVE IInv'
  BY <1>1, <1>4 DEF PassDies, TypeOK, SentTruly, Asked
\* What is common to the actions that append an outcome.
<1>5. ASSUME NEW s \in DOMAIN hist, NEW stage \in {"completed", "failed"}, IsRequest(hist[s]),
             hist' = Append(hist, Plain(hist[s].lane, stage, s)),
             UNCHANGED <<setup, fleet, pass, received, based>>
      PROVE  /\ HistoryFits(hist') /\ Len(hist') = Len(hist) + 1
             /\ \A k \in DOMAIN hist : k \in DOMAIN hist' /\ hist'[k] = hist[k]
             /\ hist'[Len(hist) + 1] = Plain(hist[s].lane, stage, s)
             /\ DOMAIN hist' = DOMAIN hist \cup {Len(hist) + 1}
             /\ stalled' \in 0..setup.stalls /\ sent' \in SUBSET [at : DOMAIN hist', request : Call]
                  => TypeOK'
  <2> DEFINE e == Plain(hist[s].lane, stage, s)
  <2>1. EventFits(hist[s]) /\ s \in Nat
    BY <1>1, <1>5 DEF HistoryFits
  <2>2. hist[s].lane \in Lanes
    BY <1>5, <2>1 DEF EventFits, Event, IsRequest
  <2>3. EventFits(e) /\ e.ref = s /\ e.lane = hist[s].lane
    BY <1>5, <2>1, <2>2, PlainFits DEF Plain
  <2> HIDE DEF e
  <2>4. /\ HistoryFits(hist') /\ Len(hist') = Len(hist) + 1
        /\ \A k \in DOMAIN hist : k \in DOMAIN hist' /\ hist'[k] = hist[k]
        /\ hist'[Len(hist) + 1] = e
        /\ DOMAIN hist' = DOMAIN hist \cup {Len(hist) + 1}
    BY <1>1, <1>5, <2>3, FitsAfterAppend DEF e
  <2>5. ASSUME stalled' \in 0..setup.stalls, sent' \in SUBSET [at : DOMAIN hist', request : Call]
        PROVE  TypeOK'
    <3>1. \A n : n \in 0..Len(hist) => n \in 0..Len(hist')
      BY <1>1, <2>4
    <3>2. /\ setup \in Scenarios /\ fleet # {} /\ fleet \subseteq DOMAIN setup.versions
          /\ pass = Idle \/ pass \in [seen : 0..Len(hist), version : DOMAIN setup.versions]
          /\ received \in 0..setup.signals /\ based \in 0..Len(hist)
      BY <1>1 DEF TypeOK
    <3>3. pass = Idle \/ pass \in [seen : 0..Len(hist'), version : DOMAIN setup.versions]
      BY <3>1, <3>2
    <3>4. hist' \in Seq(Event)
      BY <2>4 DEF HistoryFits
    <3> QED
      BY <1>5, <2>5, <3>1, <3>2, <3>3, <3>4 DEF TypeOK
  <2> QED
    BY <2>4, <2>5 DEF e
<1>6. ASSUME NEW s \in DOMAIN hist, NEW stage \in {"completed", "failed"}, StepSettles(s, stage)
      PROVE  IInv'
  <2>1. /\ IsRequest(hist[s]) /\ hist[s].lane # "llm"
        /\ hist' = Append(hist, Plain(hist[s].lane, stage, s))
        /\ UNCHANGED <<setup, fleet, pass, received, based>> /\ sent' = sent
    BY <1>6 DEF StepSettles
  <2>2. /\ HistoryFits(hist')
        /\ \A k \in DOMAIN hist : k \in DOMAIN hist' /\ hist'[k] = hist[k]
        /\ hist'[Len(hist) + 1] = Plain(hist[s].lane, stage, s)
        /\ DOMAIN hist' = DOMAIN hist \cup {Len(hist) + 1}
        /\ stalled' \in 0..setup.stalls /\ sent' \in SUBSET [at : DOMAIN hist', request : Call]
             => TypeOK'
    BY <1>5, <2>1
  <2>3. \A k \in DOMAIN hist' : k \notin DOMAIN hist => hist'[k].lane # "llm"
    BY <2>1, <2>2 DEF Plain
  <2>4. SentTruly' /\ Asked' /\ sent' \in SUBSET [at : DOMAIN hist', request : Call]
    BY <2>1, <2>2, <2>3, SentStays
  <2>5. stalled' \in 0..setup.stalls
    <3>1. stalled \in 0..setup.stalls /\ setup.stalls \in Nat
      BY <1>1, Scenario DEF TypeOK
    <3>2. stalled' = stalled \/ (stalled < setup.stalls /\ stalled' = stalled + 1)
      BY <1>6 DEF StepSettles
    <3> QED
      BY <3>1, <3>2
  <2> QED
    BY <2>2, <2>4, <2>5
<1>7. ASSUME NEW v \in fleet, NEW s \in DOMAIN hist, NEW stage \in {"completed", "failed"},
             LlmSettles(v, s, stage)
      PROVE  IInv'
  <2> DEFINE requests == ResolveRequest(s, Code(v))
  <2>1. /\ IsRequest(hist[s]) /\ hist[s].lane = "llm"
        /\ requests = {} => stage = "failed"
        /\ sent' = sent \cup [at : {s}, request : requests]
        /\ hist' = Append(hist, Plain(hist[s].lane, stage, s))
        /\ UNCHANGED <<setup, fleet, pass, received, based>> /\ stalled' = stalled
    BY <1>7 DEF LlmSettles
  <2>2. /\ HistoryFits(hist')
        /\ \A k \in DOMAIN hist : k \in DOMAIN hist' /\ hist'[k] = hist[k]
        /\ hist'[Len(hist) + 1] = Plain(hist[s].lane, stage, s)
        /\ DOMAIN hist' = DOMAIN hist \cup {Len(hist) + 1}
        /\ stalled' \in 0..setup.stalls /\ sent' \in SUBSET [at : DOMAIN hist', request : Call]
             => TypeOK'
    BY <1>5, <2>1
  <2>3. \A request \in requests : request \in Call /\ Canonical(request) = hist[s].call
    BY <1>1, Resolved
  <2> HIDE DEF requests
  <2>4. sent \in SUBSET [at : DOMAIN hist, request : Call] /\ SentTruly /\ Asked
    BY <1>1 DEF TypeOK
  <2>5. \A r \in sent' : r \in sent \/ (r.at = s /\ r.request \in requests
                                          /\ r = [at |-> s, request |-> r.request])
    BY <2>1
  <2>6. \A r \in sent' : r \in [at : DOMAIN hist', request : Call]
    BY <2>2, <2>3, <2>4, <2>5
  <2>7. SentTruly'
    <3> SUFFICES ASSUME NEW r \in sent'
                 PROVE  /\ IsRequest(hist'[r.at]) /\ hist'[r.at].lane = "llm"
                        /\ Canonical(r.request) = hist'[r.at].call
      BY DEF SentTruly
    <3>1. CASE r \in sent
      <4>1. r.at \in DOMAIN hist
        BY <2>4, <3>1
      <4> QED
        BY <2>2, <2>4, <3>1, <4>1 DEF SentTruly
    <3>2. CASE r.at = s /\ r.request \in requests
      BY <2>1, <2>2, <2>3, <3>2
    <3> QED
      BY <2>5, <3>1, <3>2
  <2>8. Asked'
    <3> SUFFICES ASSUME NEW o \in DOMAIN hist', hist'[o].lane = "llm", hist'[o].stage = "completed"
                 PROVE  \E r \in sent' : r.at = hist'[o].ref
      BY DEF Asked
    <3>1. CASE o \in DOMAIN hist
      <4>1. \E r \in sent : r.at = hist[o].ref
        BY <2>2, <2>4, <3>1 DEF Asked
      <4> QED
        BY <2>1, <2>2, <3>1, <4>1
    <3>2. CASE o = Len(hist) + 1
      <4>1. hist'[o].stage = stage /\ hist'[o].ref = s
        BY <2>2, <3>2 DEF Plain
      <4>2. PICK request \in requests : TRUE
        BY <2>1, <4>1
      <4>3. [at |-> s, request |-> request] \in sent'
        BY <2>1
      <4> QED
        BY <4>1, <4>3
    <3> QED
      BY <2>2, <3>1, <3>2
  <2>9. stalled' \in 0..setup.stalls
    BY <1>1, <2>1 DEF TypeOK
  <2>10. sent' \in SUBSET [at : DOMAIN hist', request : Call]
    BY <2>6
  <2> QED
    BY <2>2, <2>7, <2>8, <2>9, <2>10
<1>8. ASSUME NEW name \in Signals, SendSignal(name) PROVE IInv'
  <2> DEFINE call == [lane |-> "signal", name |-> name, spelled |-> "default"]
             e == [Plain("signal", "requested", 0) EXCEPT !.call = call]
  <2>1. call \in Call
    <3>1. PICK c \in UNION {Range(b) : b \in UNION {Range(q) : q \in Range(setup.versions)}} :
            name = c.name
      BY DEF Signals
    <3>2. PICK q \in Range(setup.versions) : \E b \in Range(q) : c \in Range(b)
      BY <3>1
    <3>3. q \in Program
      BY <1>1, <3>2, Scenario DEF TypeOK, Range, Code
    <3>4. PICK b \in Range(q) : c \in Range(b)
      BY <3>2
    <3>5. b \in Seq(Call)
      BY <3>3, <3>4 DEF Program, Range
    <3>6. c \in Call
      BY <3>4, <3>5 DEF Range
    <3> QED
      BY <3>1, <3>6 DEF Call, Lanes
  <2>2. e = [lane |-> "signal", stage |-> "requested", call |-> call, ref |-> 0,
             storage |-> "none", copy |-> None, by |-> None]
    BY DEF Plain
  <2>3. /\ hist' = Append(hist, e) /\ received < setup.signals /\ received' = received + 1
        /\ UNCHANGED <<setup, fleet, pass, stalled, sent, based>>
    BY <1>8 DEF SendSignal
  <2>4. call.lane = "signal"
    OBVIOUS
  <2> HIDE DEF e, call
  <2>5. EventFits(e) /\ e.stage = "requested" /\ e.lane = "signal"
    BY <2>1, <2>2, <2>4 DEF EventFits, Event, Stages, Storage, Lanes
  <2>6. /\ HistoryFits(hist') /\ Len(hist') = Len(hist) + 1
        /\ \A k \in DOMAIN hist : k \in DOMAIN hist' /\ hist'[k] = hist[k]
        /\ hist'[Len(hist) + 1] = e
        /\ DOMAIN hist' = DOMAIN hist \cup {Len(hist) + 1}
    BY <1>1, <2>3, <2>5, FitsAfterAppend
  <2>7. SentTruly' /\ Asked' /\ sent' \in SUBSET [at : DOMAIN hist', request : Call]
    BY <2>3, <2>5, <2>6, SentStays
  <2>8. TypeOK'
    <3>1. \A n : n \in 0..Len(hist) => n \in 0..Len(hist')
      BY <1>1, <2>6
    <3>2. /\ setup \in Scenarios /\ fleet # {} /\ fleet \subseteq DOMAIN setup.versions
          /\ pass = Idle \/ pass \in [seen : 0..Len(hist), version : DOMAIN setup.versions]
          /\ stalled \in 0..setup.stalls /\ based \in 0..Len(hist)
          /\ received \in 0..setup.signals /\ setup.signals \in Nat
      BY <1>1, Scenario DEF TypeOK
    <3>3. pass = Idle \/ pass \in [seen : 0..Len(hist'), version : DOMAIN setup.versions]
      BY <3>1, <3>2
    <3>4. hist' \in Seq(Event)
      BY <2>6 DEF HistoryFits
    <3>5. received + 1 \in 0..setup.signals
      BY <2>3, <3>2
    <3> QED
      BY <2>3, <2>7, <3>1, <3>2, <3>3, <3>4, <3>5 DEF TypeOK
  <2> QED
    BY <2>6, <2>7, <2>8
<1>9. ASSUME Deploy \/ Retire PROVE IInv'
  <2>1. fleet' # {} /\ fleet' \subseteq DOMAIN setup.versions
    <3>1. CASE Deploy
      <4>1. Max(fleet) \in 1..Len(setup.versions) /\ Len(setup.versions) \in Nat
            /\ DOMAIN setup.versions = 1..Len(setup.versions)
        BY <1>1, FleetMoves, Scenario DEF TypeOK
      <4>2. Max(fleet) + 1 \in DOMAIN setup.versions
        BY <3>1, <4>1 DEF Deploy
      <4> QED
        BY <1>1, <3>1, <4>2 DEF Deploy, TypeOK
    <3>2. CASE Retire
      BY <1>1, <3>2, FleetMoves DEF Retire, TypeOK
    <3> QED
      BY <1>9, <3>1, <3>2
  <2>2. UNCHANGED <<setup, hist, pass, received, stalled, sent, based>>
    BY <1>9 DEF Deploy, Retire
  <2>3. TypeOK'
    BY <1>1, <2>1, <2>2 DEF TypeOK
  <2> QED
    BY <1>1, <2>2, <2>3 DEF SentTruly, Asked
<1>10. CASE UNCHANGED vars
  BY <1>1, <1>10 DEF vars, TypeOK, SentTruly, Asked
<1> QED
  BY <1>2, <1>3, <1>4, <1>6, <1>7, <1>8, <1>9, <1>10 DEF Next

\* and so always holds.
LEMMA AlwaysIInv == Spec => []IInv
  BY InitIInv, NextIInv, PTL DEF Spec

\* Every variable of the model keeps its type.
THEOREM TypeCorrect == Spec => []TypeOK
<1>1. IInv => TypeOK
  BY DEF IInv
<1> QED
  BY AlwaysIInv, <1>1, PTL

-----------------------------------------------------------------------------
(***************************************************************************)
(* Answers.                                                                *)
(***************************************************************************)
LEMMA AnswerOf ==
  ASSUME NEW h \in Seq(Event), NEW p \in Program, NEW m \in Made(h, p),
         m.at # 0, m.answer # "differs"
  PROVE  /\ m.call.lane = "signal" => m.answer = "completed"
         /\ m.call.lane # "signal" =>
              \/ Outcomes(h, m.at) = {} /\ m.answer = "waiting"
              \/ /\ Max(Outcomes(h, m.at)) \in Outcomes(h, m.at)
                 /\ \A o \in Outcomes(h, m.at) : o <= Max(Outcomes(h, m.at))
                 /\ m.answer = h[Max(Outcomes(h, m.at))].stage
         /\ m.answer = "waiting" => m.call.lane # "signal" /\ Outcomes(h, m.at) = {}
<1>1. m.answer = Answer(h, m.call, m.at) /\ ~Differs(h[m.at], m.call)
  BY CallsMade, CallsAnswered
<1>2. Outcomes(h, m.at) # {} =>
        /\ Max(Outcomes(h, m.at)) \in Outcomes(h, m.at)
        /\ \A o \in Outcomes(h, m.at) : o <= Max(Outcomes(h, m.at))
  BY OutcomesAreFinite, Greatest
<1>3. Answer(h, m.call, m.at) =
        IF m.call.lane = "signal" THEN "completed"
        ELSE IF Outcomes(h, m.at) = {} THEN "waiting"
        ELSE h[Max(Outcomes(h, m.at))].stage
  BY <1>1 DEF Answer
<1>4. Outcomes(h, m.at) # {} => h[Max(Outcomes(h, m.at))].stage # "waiting"
  <2> SUFFICES ASSUME Outcomes(h, m.at) # {} PROVE h[Max(Outcomes(h, m.at))].stage # "waiting"
    OBVIOUS
  <2>1. PICK o \in DOMAIN h : o = Max(Outcomes(h, m.at))
    BY <1>2 DEF Outcomes
  <2>2. h[o] \in Event
    OBVIOUS
  <2> QED
    BY <2>1, <2>2 DEF Event, Stages
<1> QED
  BY <1>1, <1>2, <1>3, <1>4

\* A completed LLM call was answered by a provider that was asked what the running code
\* asks (AnswersMatchRequests), for any programs, deployed in any order.
THEOREM AnswersAreAskedFor == Spec => []AnswersMatchRequests
<1>1. IInv => AnswersMatchRequests
  <2> SUFFICES ASSUME IInv, NEW v \in fleet, NEW m \in Made(hist, Code(v)),
                      m.call.lane = "llm", m.answer = "completed"
               PROVE  /\ \E r \in sent : r.at = m.at
                      /\ \A r \in sent : r.at = m.at => Canonical(r.request) = Canonical(m.call)
    BY DEF AnswersMatchRequests
  <2>1. hist \in Seq(Event) /\ HistoryFits(hist) /\ SentTruly /\ Asked /\ Code(v) \in Program
    BY FleetMoves DEF IInv, HistoryFits
  <2>2. /\ m.at # 0 /\ m.at \in DOMAIN hist /\ m.at \in LaneEvents(hist, m.call)
        /\ ~Differs(hist[m.at], m.call)
    BY <2>1, CallsAnswered
  <2>3. hist[m.at].call = Canonical(m.call)
    BY <2>2 DEF Differs
  <2>4. hist[m.at].lane = "llm"
    BY <2>1, <2>2 DEF LaneEvents, SameLane, HistoryFits, EventFits
  <2> DEFINE o == Max(Outcomes(hist, m.at))
  <2>5. o \in Outcomes(hist, m.at) /\ hist[o].stage = "completed"
    BY <2>1, <2>2, AnswerOf
  <2>6. o \in DOMAIN hist /\ hist[o].ref = m.at /\ hist[o].stage = "completed"
    BY <2>5 DEF Outcomes
  <2> HIDE DEF o
  <2>7. hist[o].lane = "llm"
    <3>1. EventFits(hist[o]) /\ RefFits(hist, o)
      BY <2>1, <2>6 DEF HistoryFits
    <3>2. hist[o].lane # "workflow"
      BY <2>2, <2>6, <3>1 DEF EventFits
    <3> QED
      BY <2>4, <2>6, <3>1, <3>2 DEF RefFits
  <2>8. \E r \in sent : r.at = m.at
    BY <2>1, <2>6, <2>7 DEF Asked
  <2> QED
    BY <2>1, <2>3, <2>8 DEF SentTruly
<1> QED
  BY AlwaysIInv, <1>1, PTL

-----------------------------------------------------------------------------
(***************************************************************************)
(* Which calls are made.                                                   *)
(***************************************************************************)
\* A call is made when those before it in its branch are answered, and nothing failed that
\* stops the draining.
LEMMA CallIsMade ==
  ASSUME NEW h, NEW p \in Program, NEW b \in DOMAIN p, NEW r \in 1..Len(p[b]),
         r <= DrainTicks + 1,
         r = 1 \/ \E m \in Made(h, p) :
                    m.branch = b /\ m.round = r - 1 /\ m.answer = "completed",
         \A m \in Made(h, p) :
           m.answer = "failed" /\ m.turn < TurnAt(p, b, r) => r <= m.round + CatchTicks + 1
  PROVE  \E m \in Made(h, p) : m.branch = b /\ m.round = r /\ m.turn = TurnAt(p, b, r)
<1> DEFINE n == TurnAt(p, b, r)
           old == Before(Made(h, p), n)
<1>1. /\ Len(p[b]) \in Nat /\ Len(p[b]) <= Rounds(p) /\ Rounds(p) \in Nat
      /\ Len(p) \in Nat /\ Len(p) > 0 /\ b \in 1..Len(p)
  BY Branches, RoundsReach
<1>2. r \in 1..Rounds(p)
  BY <1>1
<1>3. n \in 1..Turns(p) /\ RoundOf(p, n) = r /\ BranchOf(p, n) = b
  BY <1>2, TurnsAreRounds
<1>4. ASSUME NEW m \in Made(h, p), m.branch = b, m.round = r - 1 PROVE m.turn < n
  <2>1. m.turn = TurnAt(p, b, r - 1)
    BY <1>4, CallsMade
  <2>2. PICK k \in Nat, j \in Nat : k = Len(p) * (r - 2) /\ j = Len(p) * (r - 1) /\ j = k + Len(p)
    <3>1. m.round \in 1..Len(p[b])
      BY <1>4, CallsMade
    <3>2. r - 2 \in Nat /\ r - 1 \in Nat
      BY <1>1, <1>4, <3>1
    <3>3. Len(p) * (r - 1) = Len(p) * (r - 2) + Len(p)
      BY <1>1, <3>2
    <3>4. Len(p) * (r - 1) \in Nat /\ Len(p) * (r - 2) \in Nat
      BY <1>1, <3>2
    <3> QED
      BY <3>3, <3>4
  <2>3. m.turn = k + b /\ n = j + b
    BY <1>1, <2>1, <2>2 DEF TurnAt
  <2> HIDE DEF n
  <2> QED
    BY <1>1, <2>2, <2>3
<1>5. GoesOn(old, b, r)
  <2>1. r = 1 \/ \E m \in old : m.branch = b /\ m.round = r - 1 /\ m.answer = "completed"
    BY <1>4 DEF Before
  <2>2. \A m \in old : m.answer = "failed" => r <= m.round + CatchTicks + 1
    BY DEF Before
  <2> HIDE DEF n, old
  <2> QED
    BY <2>1, <2>2 DEF GoesOn
<1> HIDE DEF n, old
<1>6. Takes(p, old, n)
  BY <1>1, <1>3, <1>5 DEF Takes
<1>7. PICK m \in Made(h, p) : m.turn = n
  BY <1>3, <1>6, MadeTurnByTurn DEF MadeBy, old
<1>8. m.round = r /\ m.branch = b
  BY <1>3, <1>7, CallsMade
<1> QED
  BY <1>7, <1>8 DEF n

\* A program whose calls are all answered makes all of them.
LEMMA AllCallsMade ==
  ASSUME NEW h \in Seq(Event), NEW p \in Program, \A m \in Made(h, p) : m.answer = "completed",
         NEW b \in DOMAIN p, Len(p[b]) <= DrainTicks
  PROVE  \A r \in 1..Len(p[b]) : \E m \in Made(h, p) : m.branch = b /\ m.round = r
<1> DEFINE N == Len(p[b])
           T == {r \in 0..N : r = 0 \/ \E m \in Made(h, p) : m.branch = b /\ m.round = r}
<1>1. N \in Nat /\ DrainTicks \in Nat
  BY Branches, ReplayAssumption
<1>2. 0 \in T
  BY <1>1
<1>3. ASSUME NEW r \in 0..N, r # N, r \in T PROVE r + 1 \in T
  <2>1. r + 1 \in 1..N /\ r + 1 <= DrainTicks + 1 /\ r \in Nat
    <3>1. r \in Nat /\ r < N /\ r + 1 \in 1..N
      BY <1>1, <1>3, NextUp, Zenon
    <3> HIDE DEF T
    <3>2. r + 1 <= DrainTicks + 1
      BY <1>1, <3>1
    <3> QED
      BY <3>1, <3>2
  <2>2. r = 0 \/ \E m \in Made(h, p) :
                    m.branch = b /\ m.round = r /\ m.answer = "completed"
    BY <1>3, <2>1
  <2>3. \E m \in Made(h, p) : m.branch = b /\ m.round = r + 1
    BY <2>1, <2>2, CallIsMade
  <2> QED
    BY <1>1, <2>1, <2>3
<1> HIDE DEF N
<1>4. \A r \in 0..N : r \in T
  <2> HIDE DEF T
  <2> QED
    BY <1>1, <1>2, <1>3, UpTo
<1> QED
  BY <1>1, <1>4 DEF N

\* A program that is short enough to fail is short enough to complete.
LEMMA TicksLeft ==
  ASSUME NEW n \in Nat, n + 4 <= DrainTicks
  PROVE  n + ThenTicks <= DrainTicks /\ n <= DrainTicks /\ n + 1 - 1 = n
  BY ReplayAssumption DEF ThenTicks

\* A workflow that waits for nothing has a next decision (NeverStuck), for any program.
THEOREM WaitsOrDecides == Spec => []NeverStuck
<1>1. IInv => NeverStuck
  <2> SUFFICES ASSUME IInv, NEW v \in fleet, ~Ended(hist), ~Waits(Made(hist, Code(v))),
                      Divergence(Made(hist, Code(v))) # "activity",
                      ~\E b \in DOMAIN Code(v) : Len(Code(v)[b]) + CatchTicks > DrainTicks,
                      Decision(hist, Code(v)) = <<>>
               PROVE  FALSE
    BY DEF NeverStuck
  <2> DEFINE p == Code(v)
             made == Made(hist, p)
  <2>1. hist \in Seq(Event) /\ p \in Program /\ HistoryFits(hist) /\ DrainTicks \in Nat
    BY FleetMoves, ReplayAssumption DEF IInv, HistoryFits
  <2>2. \A b \in DOMAIN p : Len(p[b]) \in Nat /\ Len(p[b]) > 0 /\ Len(p[b]) + 4 <= DrainTicks
    <3>1. \A b \in DOMAIN p : Len(p[b]) \in Nat /\ Len(p[b]) > 0
      BY <2>1, Branches
    <3>2. \A b \in DOMAIN p : ~(Len(p[b]) + 4 > DrainTicks)
      BY DEF CatchTicks
    <3> QED
      BY <2>1, <3>1, <3>2
  <2>3. ~Waits(made) /\ Divergence(made) # "activity" /\ Decision(hist, p) = <<>>
    OBVIOUS
  <2> HIDE DEF p
  <2>4. /\ Divergence(made) = "none" /\ \A m \in made : m.answer # "differs"
        /\ ~Fails(made) /\ ~Completes(made, p) /\ NewRequests(made) = <<>>
    <3>1. \A e : <<e>> # <<>>
      OBVIOUS
    <3>2. Decision(hist, p) =
            CASE Divergence(made) = "activity" -> <<>>
              [] Divergence(made) \in {"llm", "tool"} -> <<Final("failed")>>
              [] Divergence(made) = "none" ->
                   IF Fails(made) THEN <<Final("failed")>>
                   ELSE IF Completes(made, p) THEN <<Final("completed")>>
                   ELSE NewRequests(made)
      BY DEF Decision
    <3>3. \/ Divergence(made) = "none" /\ \A m \in made : m.answer # "differs"
          \/ Divergence(made) \in {"activity", "llm", "tool"}
      BY <2>1, Diverges
    <3> HIDE DEF made
    <3>4. Divergence(made) = "none"
      BY <2>3, <3>1, <3>2, <3>3
    <3> QED
      BY <2>3, <3>1, <3>2, <3>3, <3>4
  <2>5. NewCalls(made) = {}
    <3>1. Cardinality(NewCalls(made)) = Len(NewRequests(made))
      BY <2>1, CommandsInOrder
    <3>2. Len(<<>>) = 0
      OBVIOUS
    <3>3. IsFiniteSet(NewCalls(made))
      <4>1. IsFiniteSet(made) /\ NewCalls(made) \in SUBSET made
        BY <2>1, MadeTurnByTurn DEF MadeBy, NewCalls
      <4> QED
        BY <4>1, FS_Subset
    <3> QED
      BY <2>4, <3>1, <3>2, <3>3, FS_EmptySet
  <2>6. ASSUME NEW m \in made PROVE m.answer = "completed"
    <3>1. /\ m.at = 0 <=> m.answer = "new"
          /\ m.answer \in {"new", "waiting", "completed", "failed"}
      BY <2>1, <2>4, CallsAnswered
    <3>2. m.answer # "new"
      BY <2>3, <2>5, <3>1 DEF Waits, NewCalls
    <3>3. m.answer # "waiting"
      <4> SUFFICES ASSUME m.answer = "waiting" PROVE FALSE
        OBVIOUS
      <4>2. m.call.lane # "signal" /\ m.at # 0 /\ Outcomes(hist, m.at) = {}
        BY <2>1, <2>4, <3>1, <3>2, AnswerOf
      <4> QED
        BY <2>3, <4>2 DEF Waits
    <3>4. m.answer # "failed"
      <4>1. m.branch \in DOMAIN p /\ m.round \in 1..Len(p[m.branch])
        BY <2>1, CallsMade
      <4>2. m.round + CatchTicks <= DrainTicks
        BY <2>1, <2>2, <4>1 DEF CatchTicks
      <4> QED
        BY <2>4, <4>2 DEF Fails
    <3> QED
      BY <3>1, <3>2, <3>3, <3>4
  <2>7. Completes(made, p)
    <3> SUFFICES ASSUME NEW b \in DOMAIN p
                 PROVE  Len(p[b]) + ThenTicks <= DrainTicks /\ GoesOn(made, b, Len(p[b]) + 1)
      BY DEF Completes
    <3>1. Len(p[b]) \in Nat /\ Len(p[b]) > 0 /\ Len(p[b]) + 4 <= DrainTicks
      BY <2>2, Zenon
    <3>2. /\ Len(p[b]) + ThenTicks <= DrainTicks /\ Len(p[b]) <= DrainTicks
          /\ Len(p[b]) + 1 - 1 = Len(p[b])
      BY <3>1, TicksLeft, Zenon
    <3>3. \E m \in made : m.branch = b /\ m.round = Len(p[b])
      BY <2>1, <2>6, <3>1, <3>2, AllCallsMade
    <3>5. GoesOn(made, b, Len(p[b]) + 1)
      BY <2>6, <3>2, <3>3 DEF GoesOn
    <3> QED
      BY <3>2, <3>5
  <2> QED
    BY <2>4, <2>7
<1> QED
  BY AlwaysIInv, <1>1, PTL

-----------------------------------------------------------------------------
(***************************************************************************)
(* The place of a call in its lane.                                        *)
(***************************************************************************)
Real(p, t) == RoundOf(p, t) <= Len(p[BranchOf(p, t)])

\* The turns of a program that make a call of a lane, and the place of a turn among them.
LaneTurns(p, call) == {t \in 1..Turns(p) : Real(p, t) /\ SameLane(CallAt(p, t), call)}
PlaceOf(p, t) == Rank(LaneTurns(p, CallAt(p, t)), t)

\* A call is of one lane.
LEMMA LanesPartition ==
  ASSUME NEW c, NEW d, SameLane(c, d)
  PROVE  /\ SameLane(d, c)
         /\ \A e : SameLane(e, c) <=> SameLane(e, d)
  BY DEF SameLane

\* Calls of a lane have its events and its turns in common.
LEMMA SameLanes ==
  ASSUME NEW c, NEW d, SameLane(c, d)
  PROVE  /\ \A h : LaneEvents(h, c) = LaneEvents(h, d)
         /\ \A p : LaneTurns(p, c) = LaneTurns(p, d)
<1>1. \A e : SameLane(e, c) <=> SameLane(e, d)
  BY LanesPartition
<1> QED
  BY <1>1 DEF LaneEvents, LaneTurns

\* The turns of a lane can be counted.
LEMMA LaneTurnsAreFinite ==
  ASSUME NEW p \in Program, NEW call
  PROVE  /\ LaneTurns(p, call) \in SUBSET Nat /\ IsFiniteSet(LaneTurns(p, call))
         /\ LaneTurns(p, call) \subseteq 1..Turns(p)
<1>1. Turns(p) \in Nat
  BY RoundsReach
<1>2. LaneTurns(p, call) \in SUBSET (1..Turns(p)) /\ IsFiniteSet(1..Turns(p))
  BY <1>1, FS_Interval DEF LaneTurns
<1>3. IsFiniteSet(LaneTurns(p, call))
  BY <1>2, FS_Subset
<1>4. \A t \in 1..Turns(p) : t \in Nat
  BY <1>1
<1> QED
  BY <1>2, <1>3, <1>4

\* Of two turns the earlier is not in a later round; in the same branch it is in an earlier
\* round.
LEMMA TurnsInOrder ==
  ASSUME NEW p \in Program, NEW t \in 1..Turns(p), NEW u \in 1..Turns(p), t < u
  PROVE  /\ RoundOf(p, t) <= RoundOf(p, u)
         /\ BranchOf(p, t) = BranchOf(p, u) => RoundOf(p, t) < RoundOf(p, u)
<1>1. /\ t = TurnAt(p, BranchOf(p, t), RoundOf(p, t))
      /\ u = TurnAt(p, BranchOf(p, u), RoundOf(p, u))
      /\ RoundOf(p, t) \in 1..Rounds(p) /\ RoundOf(p, u) \in 1..Rounds(p)
      /\ BranchOf(p, t) \in DOMAIN p /\ BranchOf(p, u) \in DOMAIN p
  BY TurnsAreRounds
<1>2. /\ Len(p) \in Nat /\ Len(p) > 0 /\ DOMAIN p = 1..Len(p) /\ Rounds(p) \in Nat
      /\ Turns(p) \in Nat
  BY Branches, RoundsReach
<1>3. PICK d \in Nat, a \in Nat, b \in Nat, x \in Nat, y \in Nat :
        /\ d = Len(p) /\ x \in 1..d /\ y \in 1..d /\ a = RoundOf(p, t) - 1 /\ b = RoundOf(p, u) - 1
        /\ x = BranchOf(p, t) /\ y = BranchOf(p, u)
  <2>1. /\ RoundOf(p, t) - 1 \in Nat /\ RoundOf(p, u) - 1 \in Nat
        /\ BranchOf(p, t) \in Nat /\ BranchOf(p, u) \in Nat
    BY <1>1, <1>2
  <2> QED
    BY <1>1, <1>2, <2>1
<1>4. t = d * a + x /\ u = d * b + y
  BY <1>1, <1>3, Zenon DEF TurnAt
<1>5. a <= b /\ (x = y => a < b)
  <2>1. ASSUME b < a PROVE FALSE
    <3>1. d * (b + 1) <= d * a
      BY <2>1
    <3>2. d * (b + 1) = d * b + d /\ d * a \in Nat /\ d * b \in Nat
      OBVIOUS
    <3>3. PICK e \in Nat, f \in Nat : e = d * a /\ f = d * b /\ f + d <= e
      BY <3>1, <3>2
    <3>4. t = e + x /\ u = f + y
      BY <1>4, <3>3
    <3>5. x >= 1 /\ y <= d
      BY <1>3
    <3> QED
      BY <3>3, <3>4, <3>5
  <2>2. a <= b
    BY <2>1
  <2>3. x = y /\ a = b => t = u
    BY <1>4
  <2>4. t # u
    BY <1>2
  <2> QED
    BY <2>2, <2>3, <2>4
<1>6. /\ RoundOf(p, t) \in Nat /\ RoundOf(p, u) \in Nat
  BY <1>1, <1>2
<1> QED
  BY <1>3, <1>5, <1>6

\* The calls of its branch before a call were made, and completed.
LEMMA EarlierMade ==
  ASSUME NEW h, NEW p \in Program, NEW m \in Made(h, p)
  PROVE  \A r \in 1..(m.round - 1) :
           \E k \in Made(h, p) : k.branch = m.branch /\ k.round = r /\ k.answer = "completed"
<1> DEFINE N == m.round - 1
           Has(r) == \E k \in Made(h, p) :
                       k.branch = m.branch /\ k.round = r /\ k.answer = "completed"
           T == {i \in 0..N : i = 0 \/ Has(m.round - i)}
<1>1. N \in Nat /\ m.round \in Nat
  BY CallsMade, Branches
<1>2. ASSUME NEW k \in Made(h, p), k.branch = m.branch, k.round \in 2..m.round
      PROVE  Has(k.round - 1)
  <2>1. GoesOn(Before(Made(h, p), k.turn), k.branch, k.round)
    BY CallsMade DEF Takes
  <2>2. k.round # 1
    BY <1>2
  <2>3. \E j \in Before(Made(h, p), k.turn) :
          j.branch = k.branch /\ j.round = k.round - 1 /\ j.answer = "completed"
    BY <2>1, <2>2 DEF GoesOn
  <2> QED
    BY <1>2, <2>3 DEF Before
<1>3. 0 \in T
  BY <1>1
<1>4. ASSUME NEW i \in 0..N, i # N, i \in T PROVE i + 1 \in T
  <2>1. PICK k \in Made(h, p) : k.branch = m.branch /\ k.round = m.round - i
    BY <1>1, <1>4
  <2>2. k.round \in 2..m.round /\ m.round - (i + 1) = k.round - 1 /\ i + 1 \in 0..N
    BY <1>1, <1>4, <2>1
  <2>3. Has(k.round - 1)
    BY <1>2, <2>1, <2>2
  <2> HIDE DEF Has
  <2> QED
    BY <2>2, <2>3
<1> HIDE DEF N, Has
<1>5. \A i \in 0..N : i \in T
  <2> HIDE DEF T
  <2> QED
    BY <1>1, <1>3, <1>4, UpTo
<1>6. ASSUME NEW r \in 1..(m.round - 1) PROVE Has(r)
  <2>1. m.round - r \in 0..N /\ m.round - r # 0 /\ m.round - (m.round - r) = r
    BY <1>1 DEF N
  <2> QED
    BY <1>5, <2>1
<1> QED
  BY <1>6 DEF Has

\* When the branches do not race in a lane, all calls of the lane before one that is made
\* were made.
LEMMA LaneMadeBefore ==
  ASSUME NEW h, NEW p \in Program, Ordered(p), NEW m \in Made(h, p),
         NEW u \in LaneTurns(p, m.call), u <= m.turn
  PROVE  \E k \in Made(h, p) : k.turn = u
<1> DEFINE b == BranchOf(p, u)
           r == RoundOf(p, u)
<1>1. /\ u \in 1..Turns(p) /\ Real(p, u) /\ SameLane(CallAt(p, u), m.call)
      /\ m.turn \in 1..Turns(p) /\ m.round = RoundOf(p, m.turn)
      /\ m.branch = BranchOf(p, m.turn) /\ m.branch \in DOMAIN p
      /\ m.round \in 1..Len(p[m.branch]) /\ m.call = p[m.branch][m.round]
  BY CallsMade DEF LaneTurns
<1>2. /\ b \in DOMAIN p /\ r \in 1..Rounds(p) /\ u = TurnAt(p, b, r) /\ Rounds(p) \in Nat
      /\ Len(p[b]) \in Nat /\ Len(p[m.branch]) \in Nat
  BY <1>1, TurnsAreRounds, RoundsReach, Branches
<1>3. r \in 1..Len(p[b]) /\ r \in Nat /\ m.round \in Nat
  BY <1>1, <1>2 DEF Real
<1>4. CASE m.turn = u
  BY <1>4
<1>5. CASE u < m.turn
  <2>1. r <= m.round /\ (b = m.branch => r < m.round)
    BY <1>1, <1>5, TurnsInOrder
  <2>2. CASE r = 1
    <3>1. \A k \in Made(h, p) : r <= k.round + CatchTicks + 1
      <4>1. \A k \in Made(h, p) : k.round \in Nat
        BY CallsMade
      <4> QED
        BY <2>2, <4>1 DEF CatchTicks
    <3>2. r <= DrainTicks + 1
      BY <2>2, ReplayAssumption
    <3> HIDE DEF b, r
    <3>3. b \in DOMAIN p /\ r \in 1..Len(p[b]) /\ r <= DrainTicks + 1
      BY <1>2, <1>3, <3>2
    <3>4. r = 1 \/ \E k \in Made(h, p) :
                     k.branch = b /\ k.round = r - 1 /\ k.answer = "completed"
      BY <2>2
    <3>5. \A k \in Made(h, p) :
            k.answer = "failed" /\ k.turn < TurnAt(p, b, r) => r <= k.round + CatchTicks + 1
      BY <3>1
    <3>6. \E k \in Made(h, p) : k.branch = b /\ k.round = r /\ k.turn = TurnAt(p, b, r)
      BY <3>3, <3>4, <3>5, CallIsMade
    <3> QED
      BY <1>2, <3>6
  <2>3. CASE r # 1
    <3>1. r \in 2..Len(p[b]) /\ m.round \in 2..Len(p[m.branch])
      BY <1>1, <1>2, <1>3, <2>1, <2>3
    <3>2. b = m.branch
      <4>1. SameLane(p[b][r], p[m.branch][m.round])
        BY <1>1 DEF CallAt
      <4> HIDE DEF b, r
      <4> QED
        BY <1>1, <1>2, <3>1, <4>1 DEF Ordered
    <3>3. r \in 1..(m.round - 1)
      BY <1>3, <2>1, <3>2
    <3>4. PICK k \in Made(h, p) : k.branch = b /\ k.round = r
      BY <3>2, <3>3, EarlierMade
    <3>5. k.turn = TurnAt(p, b, r)
      BY <3>4, CallsMade
    <3> HIDE DEF b, r
    <3> QED
      BY <1>2, <3>4, <3>5
  <2> QED
    BY <2>2, <2>3
<1>6. u \in Nat /\ m.turn \in Nat
  BY <1>1, RoundsReach
<1> QED
  BY <1>4, <1>5, <1>6

\* Then its place in the lane is known from the program.
LEMMA PlaceOfCall ==
  ASSUME NEW h, NEW p \in Program, Ordered(p), NEW m \in Made(h, p)
  PROVE  /\ m.turn \in LaneTurns(p, m.call) /\ PlaceOf(p, m.turn) \in Nat
         /\ PlaceOf(p, m.turn) > 0
         /\ m.at = Paired(h, m.call, PlaceOf(p, m.turn))
<1> DEFINE old == {k \in Before(Made(h, p), m.turn) : SameLane(k.call, m.call)}
           L == LaneTurns(p, m.call)
           earlier == {t \in L : t < m.turn}
<1>1. /\ m.turn \in 1..Turns(p) /\ Turns(p) \in Nat /\ m.call = CallAt(p, m.turn)
      /\ m.round = RoundOf(p, m.turn) /\ m.branch = BranchOf(p, m.turn)
      /\ m.round \in 1..Len(p[m.branch]) /\ m.branch \in DOMAIN p
      /\ m.at = Paired(h, m.call, 1 + Count(Before(Made(h, p), m.turn), m.call))
  BY CallsMade, RoundsReach
<1>2. m.turn \in L
  BY <1>1, Branches DEF LaneTurns, Real, SameLane
<1>3. L \in SUBSET Nat /\ IsFiniteSet(L)
  BY LaneTurnsAreFinite
<1>4. TurnsOf(old) = earlier
  <2>1. ASSUME NEW k \in old PROVE k.turn \in earlier
    <3>1. k \in Made(h, p) /\ k.turn < m.turn /\ SameLane(k.call, m.call)
      BY DEF Before
    <3>2. /\ k.turn \in 1..Turns(p) /\ k.call = CallAt(p, k.turn)
          /\ k.round = RoundOf(p, k.turn) /\ k.branch = BranchOf(p, k.turn)
          /\ k.round \in 1..Len(p[k.branch]) /\ k.branch \in DOMAIN p
      BY <3>1, CallsMade
    <3> QED
      BY <3>1, <3>2, Branches DEF LaneTurns, Real
  <2>2. ASSUME NEW t \in earlier PROVE \E k \in old : k.turn = t
    <3>1. t \in LaneTurns(p, m.call) /\ t < m.turn /\ t \in Nat
      BY <1>3
    <3>2. t <= m.turn
      BY <1>1, <3>1
    <3>3. PICK k \in Made(h, p) : k.turn = t
      BY <3>1, <3>2, LaneMadeBefore
    <3>4. k.call = CallAt(p, t)
      BY <3>3, CallsMade
    <3>5. SameLane(k.call, m.call)
      BY <3>1, <3>4 DEF LaneTurns
    <3> QED
      BY <3>1, <3>3, <3>5 DEF Before
  <2> HIDE DEF old, earlier
  <2> QED
    BY <2>1, <2>2 DEF TurnsOf
<1>5. Count(Before(Made(h, p), m.turn), m.call) = Cardinality(earlier)
  <2>1. old \in SUBSET Made(h, p)
    BY DEF Before
  <2>2. Cardinality(old) = Cardinality(TurnsOf(old))
    BY <2>1, CountOfTurns
  <2>3. Count(Before(Made(h, p), m.turn), m.call) = Cardinality(old)
    BY DEF Count
  <2> HIDE DEF old, earlier
  <2> QED
    BY <1>4, <2>2, <2>3
<1>6. PlaceOf(p, m.turn) = Cardinality(earlier) + 1 /\ Cardinality(earlier) \in Nat
  <2>1. {t \in L : t <= m.turn} = earlier \cup {m.turn}
    BY <1>1, <1>2, <1>3
  <2>2. IsFiniteSet(earlier)
    <3>1. earlier \in SUBSET L
      OBVIOUS
    <3> QED
      BY <1>3, <3>1, FS_Subset
  <2>3. m.turn \notin earlier
    BY <1>1
  <2>4. PlaceOf(p, m.turn) = Cardinality({t \in L : t <= m.turn})
    BY <1>1 DEF PlaceOf, Rank
  <2> HIDE DEF earlier, L
  <2>5. /\ Cardinality(earlier \cup {m.turn}) = Cardinality(earlier) + 1
        /\ Cardinality(earlier) \in Nat
    BY <2>2, <2>3, FS_AddElement, FS_CardinalityType
  <2> QED
    BY <2>1, <2>4, <2>5
<1> HIDE DEF earlier, L
<1>7. /\ PlaceOf(p, m.turn) \in Nat /\ PlaceOf(p, m.turn) > 0
      /\ 1 + Cardinality(earlier) = PlaceOf(p, m.turn)
  BY <1>6
<1> QED
  BY <1>1, <1>2, <1>5, <1>7 DEF L

-----------------------------------------------------------------------------
(***************************************************************************)
(* What a history keeps when it grows.                                     *)
(***************************************************************************)
Extends(g, h) ==
  /\ h \in Seq(Event) /\ g \in Seq(Event) /\ Len(h) <= Len(g)
  /\ \A s \in DOMAIN h : g[s] = h[s]

\* No step has two outcomes.
OneOutcome(h) ==
  \A o, q \in DOMAIN h :
    /\ h[o].stage # "requested" /\ h[q].stage # "requested"
    /\ h[o].ref = h[q].ref /\ h[o].ref # 0
    => o = q

\* The call of a turn is paired, and answered.
AnsweredAt(h, p, t) ==
  LET at == Paired(h, CallAt(p, t), PlaceOf(p, t))
  IN  at # 0 /\ Answer(h, CallAt(p, t), at) = "completed"

\* The first events of a history.
LEMMA PrefixOf ==
  ASSUME NEW h \in Seq(Event), NEW n \in 0..Len(h)
  PROVE  /\ Extends(h, SubSeq(h, 1, n)) /\ Len(SubSeq(h, 1, n)) = n
         /\ DOMAIN SubSeq(h, 1, n) = 1..n
         /\ \A s \in 1..n : SubSeq(h, 1, n)[s] = h[s]
<1> DEFINE g == SubSeq(h, 1, n)
<1>1. /\ g \in Seq(Event) /\ Len(g) = n
      /\ \A s \in 1..n : g[s] = h[s]
  OBVIOUS
<1> HIDE DEF g
<1>2. Len(g) = n /\ DOMAIN g = 1..n /\ n <= Len(h) /\ \A s \in 1..n : g[s] = h[s]
  BY <1>1
<1>3. Extends(h, g)
  BY <1>1, <1>2 DEF Extends
<1> QED
  BY <1>2, <1>3 DEF g

\* Positions in a history and in a longer one.
LEMMA ExtendsFacts ==
  ASSUME NEW g, NEW h, Extends(g, h)
  PROVE  /\ Len(h) \in Nat /\ Len(g) \in Nat /\ DOMAIN h = 1..Len(h) /\ DOMAIN g = 1..Len(g)
         /\ DOMAIN h \subseteq DOMAIN g
<1>1. /\ Len(h) \in Nat /\ Len(g) \in Nat /\ DOMAIN h = 1..Len(h) /\ DOMAIN g = 1..Len(g)
      /\ Len(h) <= Len(g)
  BY DEF Extends
<1> QED
  BY <1>1

\* An event keeps its place in its lane.
LEMMA LanesGrow ==
  ASSUME NEW g, NEW h, Extends(g, h), NEW call
  PROVE  /\ LaneEvents(h, call) = {s \in LaneEvents(g, call) : s <= Len(h)}
         /\ Cardinality(LaneEvents(h, call)) <= Cardinality(LaneEvents(g, call))
         /\ \A s \in DOMAIN h : Rank(LaneEvents(g, call), s) = Rank(LaneEvents(h, call), s)
<1> DEFINE L == LaneEvents(h, call)
           M == LaneEvents(g, call)
<1>1. /\ Len(h) \in Nat /\ Len(g) \in Nat /\ DOMAIN h = 1..Len(h) /\ DOMAIN g = 1..Len(g)
      /\ DOMAIN h \subseteq DOMAIN g /\ \A s \in DOMAIN h : g[s] = h[s]
  BY ExtendsFacts DEF Extends
<1>2. L = {s \in M : s <= Len(h)}
  BY <1>1 DEF LaneEvents
<1>3. ASSUME NEW s \in DOMAIN h PROVE {j \in M : j <= s} = {j \in L : j <= s}
  <2>1. \A j \in M : j \in Nat
    BY <1>1 DEF LaneEvents
  <2>2. \A j \in M : j <= s => j <= Len(h)
    BY <1>1, <2>1
  <2> HIDE DEF L, M
  <2> QED
    BY <1>2, <2>2
<1>4. IsFiniteSet(M)
  BY LaneEventsAreFinite DEF Extends
<1> HIDE DEF L, M
<1>5. Cardinality(L) <= Cardinality(M)
  BY <1>2, <1>4, FS_Subset
<1>6. \A s \in DOMAIN h : Rank(M, s) = Rank(L, s)
  BY <1>3 DEF Rank
<1> QED
  BY <1>2, <1>5, <1>6 DEF L, M

\* A call stays paired with its event.
LEMMA PairsStay ==
  ASSUME NEW g, NEW h, Extends(g, h), NEW call, NEW n \in Nat, n > 0, Paired(h, call, n) # 0
  PROVE  Paired(g, call, n) = Paired(h, call, n)
<1> DEFINE L == LaneEvents(h, call)
           M == LaneEvents(g, call)
           at == Paired(h, call, n)
<1>1. /\ L \in SUBSET Nat /\ IsFiniteSet(L) /\ Cardinality(L) \in Nat
      /\ M \in SUBSET Nat /\ IsFiniteSet(M) /\ Cardinality(M) \in Nat
  BY LaneEventsAreFinite DEF Extends
<1>2. n <= Cardinality(L) /\ at \in L /\ at \in DOMAIN h /\ Rank(L, at) = n
  BY PairedWithLane DEF Extends
<1>3. /\ L = {s \in M : s <= Len(h)} /\ Cardinality(L) <= Cardinality(M)
      /\ Rank(M, at) = Rank(L, at)
  BY <1>2, LanesGrow
<1>4. Paired(g, call, n) = IF n <= Cardinality(M) THEN Nth(M, n) ELSE 0
  BY DEF Paired
<1> HIDE DEF L, M, at
<1>5. at \in M /\ n <= Cardinality(M)
  BY <1>1, <1>2, <1>3
<1>6. Nth(M, Rank(M, at)) = at
  BY <1>1, <1>5, NthHasRank
<1> QED
  BY <1>2, <1>3, <1>4, <1>5, <1>6 DEF at

\* An answer stays what it is.
LEMMA AnswersStay ==
  ASSUME NEW g, NEW h, Extends(g, h), OneOutcome(g), NEW p \in Program, NEW t,
         PlaceOf(p, t) \in Nat, PlaceOf(p, t) > 0, AnsweredAt(h, p, t)
  PROVE  AnsweredAt(g, p, t)
<1> DEFINE c == CallAt(p, t)
           at == Paired(h, c, PlaceOf(p, t))
<1>1. at # 0 /\ Answer(h, c, at) = "completed"
  BY DEF AnsweredAt
<1>2. Paired(g, c, PlaceOf(p, t)) = at
  BY <1>1, PairsStay
<1>3. at \in DOMAIN h
  BY <1>1, PairedWithLane DEF Extends
<1> HIDE DEF c, at
<1>4. /\ DOMAIN h \subseteq DOMAIN g /\ \A s \in DOMAIN h : g[s] = h[s]
  BY ExtendsFacts DEF Extends
<1>5. Outcomes(h, at) # {} => Outcomes(g, at) = Outcomes(h, at)
  <2>1. Outcomes(h, at) \subseteq Outcomes(g, at)
    BY <1>4 DEF Outcomes
  <2>2. \A o, q \in Outcomes(g, at) : o = q
    BY <1>1 DEF Outcomes, OneOutcome
  <2> QED
    BY <2>1, <2>2
<1>6. Answer(g, c, at) = "completed"
  <2>1. g[at] = h[at]
    BY <1>3, <1>4
  <2>2. CASE c.lane = "signal" \/ Differs(h[at], c)
    BY <1>1, <2>1, <2>2 DEF Answer
  <2>3. CASE ~(c.lane = "signal" \/ Differs(h[at], c))
    <3>1. Outcomes(h, at) # {} /\ h[Max(Outcomes(h, at))].stage = "completed"
      BY <1>1, <2>3 DEF Answer
    <3>2. Max(Outcomes(h, at)) \in DOMAIN h
      <4>1. Max(Outcomes(h, at)) \in Outcomes(h, at)
        BY <3>1, OutcomesAreFinite, Greatest DEF Extends
      <4> QED
        BY <4>1 DEF Outcomes
    <3>3. g[Max(Outcomes(g, at))].stage = "completed"
      BY <1>4, <1>5, <3>1, <3>2
    <3> QED
      BY <1>1, <1>5, <2>1, <2>3, <3>1, <3>3 DEF Answer
  <2> QED
    BY <2>2, <2>3
<1> QED
  BY <1>1, <1>2, <1>6 DEF AnsweredAt, c

-----------------------------------------------------------------------------
(***************************************************************************)
(* Histories that follow a program whose branches do not race in a lane.   *)
(***************************************************************************)
\* Request s is what turn t asked, after the earlier calls of its branch were answered.
Asks(h, p, s, t) ==
  /\ t \in 1..Turns(p) /\ Real(p, t) /\ RoundOf(p, t) <= DrainTicks + 1
  /\ h[s].by = <<BranchOf(p, t), RoundOf(p, t)>>
  /\ h[s].call = Canonical(CallAt(p, t))
  /\ Rank(LaneEvents(h, CallAt(p, t)), s) = PlaceOf(p, t)
  /\ \A r \in 1..(RoundOf(p, t) - 1) :
       AnsweredAt(SubSeq(h, 1, s - 1), p, TurnAt(p, BranchOf(p, t), r))

Follows(h, p) ==
  /\ OneOutcome(h)
  /\ \A s \in DOMAIN h : IsRequest(h[s]) => \E t : Asks(h, p, s, t)

\* What is known of a turn that makes a call.
LEMMA RealTurns ==
  ASSUME NEW p \in Program, NEW t \in 1..Turns(p), Real(p, t)
  PROVE  /\ CallAt(p, t) \in Call /\ t \in LaneTurns(p, CallAt(p, t))
         /\ PlaceOf(p, t) \in Nat /\ PlaceOf(p, t) > 0
         /\ BranchOf(p, t) \in DOMAIN p /\ RoundOf(p, t) \in 1..Len(p[BranchOf(p, t)])
         /\ t = TurnAt(p, BranchOf(p, t), RoundOf(p, t))
<1>1. /\ RoundOf(p, t) \in 1..Rounds(p) /\ BranchOf(p, t) \in DOMAIN p
      /\ t = TurnAt(p, BranchOf(p, t), RoundOf(p, t))
  BY TurnsAreRounds
<1>2. Len(p[BranchOf(p, t)]) \in Nat /\ Rounds(p) \in Nat
  BY <1>1, Branches, RoundsReach
<1>3. RoundOf(p, t) \in 1..Len(p[BranchOf(p, t)])
  BY <1>1, <1>2 DEF Real
<1>4. CallAt(p, t) \in Call
  BY <1>1, <1>3, Branches DEF CallAt
<1>5. t \in LaneTurns(p, CallAt(p, t))
  BY DEF LaneTurns, SameLane
<1>6. /\ Rank(LaneTurns(p, CallAt(p, t)), t) \in 1..Cardinality(LaneTurns(p, CallAt(p, t)))
      /\ Cardinality(LaneTurns(p, CallAt(p, t))) \in Nat
  BY <1>5, LaneTurnsAreFinite, RanksOrder
<1>7. PlaceOf(p, t) \in Nat /\ PlaceOf(p, t) > 0
  BY <1>6 DEF PlaceOf
<1> QED
  BY <1>1, <1>3, <1>4, <1>5, <1>7

\* The call of an earlier round of the branch of a turn.
LEMMA EarlierTurns ==
  ASSUME NEW p \in Program, NEW t \in 1..Turns(p), Real(p, t),
         NEW r \in 1..RoundOf(p, t)
  PROVE  LET u == TurnAt(p, BranchOf(p, t), r)
         IN  /\ u \in 1..Turns(p) /\ Real(p, u)
             /\ RoundOf(p, u) = r /\ BranchOf(p, u) = BranchOf(p, t)
<1>1. /\ BranchOf(p, t) \in DOMAIN p /\ RoundOf(p, t) \in 1..Len(p[BranchOf(p, t)])
      /\ RoundOf(p, t) \in 1..Rounds(p) /\ Rounds(p) \in Nat
      /\ Len(p[BranchOf(p, t)]) \in Nat
  BY RealTurns, TurnsAreRounds, RoundsReach, Branches
<1>2. r \in 1..Rounds(p) /\ r <= Len(p[BranchOf(p, t)])
  BY <1>1
<1>3. /\ TurnAt(p, BranchOf(p, t), r) \in 1..Turns(p)
      /\ RoundOf(p, TurnAt(p, BranchOf(p, t), r)) = r
      /\ BranchOf(p, TurnAt(p, BranchOf(p, t), r)) = BranchOf(p, t)
  BY <1>1, <1>2, TurnsAreRounds
<1>4. Real(p, TurnAt(p, BranchOf(p, t), r))
  BY <1>2, <1>3, Zenon DEF Real
<1> QED
  BY <1>3, <1>4

\* Of the calls of a lane no two have the same place.
LEMMA PlacesDiffer ==
  ASSUME NEW p \in Program, NEW t \in 1..Turns(p), Real(p, t), NEW u \in 1..Turns(p), Real(p, u),
         SameLane(CallAt(p, t), CallAt(p, u)), PlaceOf(p, t) = PlaceOf(p, u)
  PROVE  t = u
<1> DEFINE L == LaneTurns(p, CallAt(p, t))
<1>1. L = LaneTurns(p, CallAt(p, u))
  BY SameLanes
<1>2. t \in L /\ u \in L /\ Rank(L, t) = Rank(L, u)
  BY <1>1, RealTurns DEF PlaceOf
<1>3. L \in SUBSET Nat /\ IsFiniteSet(L)
  BY LaneTurnsAreFinite
<1> HIDE DEF L
<1> QED
  BY <1>2, <1>3, RanksOrder

\* A request is in the lane of the call that asked for it.
LEMMA AskedInLane ==
  ASSUME NEW h \in Seq(Event), HistoryFits(h), NEW s \in DOMAIN h, IsRequest(h[s]),
         NEW call \in Call, h[s].call = Canonical(call)
  PROVE  s \in LaneEvents(h, call) /\ call.lane = h[s].lane /\ call.lane # "signal"
<1>1. EventFits(h[s]) /\ h[s].stage = "requested" /\ h[s].lane # "signal"
  BY DEF HistoryFits, IsRequest
<1>2. h[s].call.lane = call.lane /\ h[s].call.name = call.name
  BY CanonicalIsACall
<1> QED
  BY <1>1, <1>2 DEF EventFits, LaneEvents, SameLane

\* A step is paired with the call that asked for it, and that is still what the code asks.
LEMMA PairedAsAsked ==
  ASSUME NEW h \in Seq(Event), HistoryFits(h), NEW p \in Program, Ordered(p), Follows(h, p),
         NEW m \in Made(h, p)
  PROVE  /\ m.answer # "differs"
         /\ m.at # 0 /\ m.call.lane # "signal" => Asks(h, p, m.at, m.turn)
<1>1. CASE m.at = 0 \/ m.call.lane = "signal"
  BY <1>1, CallsAnswered DEF Differs
<1>2. CASE m.at # 0 /\ m.call.lane # "signal"
  <2> DEFINE s == m.at
             u == m.turn
  <2>1. /\ u \in 1..Turns(p) /\ m.call = CallAt(p, u) /\ m.call \in Call
        /\ m.round = RoundOf(p, u) /\ m.branch = BranchOf(p, u)
        /\ m.round \in 1..Len(p[m.branch]) /\ m.branch \in DOMAIN p
    BY CallsMade
  <2>2. Real(p, u)
    BY <2>1, Branches DEF Real
  <2>3. /\ PlaceOf(p, u) \in Nat /\ PlaceOf(p, u) > 0
        /\ s = Paired(h, m.call, PlaceOf(p, u))
    BY PlaceOfCall
  <2> HIDE DEF s, u
  <2>4. s # 0
    BY <1>2 DEF s
  <2>5. /\ s \in LaneEvents(h, m.call) /\ s \in DOMAIN h
        /\ Rank(LaneEvents(h, m.call), s) = PlaceOf(p, u)
    BY <2>3, <2>4, PairedWithLane
  <2>6. IsRequest(h[s]) /\ SameLane(h[s].call, m.call)
    BY <1>2, <2>5 DEF LaneEvents, SameLane, HistoryFits, EventFits, IsRequest
  <2>7. PICK t : Asks(h, p, s, t)
    BY <2>5, <2>6 DEF Follows
  <2>8. /\ t \in 1..Turns(p) /\ Real(p, t) /\ h[s].call = Canonical(CallAt(p, t))
        /\ Rank(LaneEvents(h, CallAt(p, t)), s) = PlaceOf(p, t)
    BY <2>7 DEF Asks
  <2>9. CallAt(p, t) \in Call
    BY <2>8, RealTurns
  <2>10. SameLane(CallAt(p, t), m.call)
    BY <2>6, <2>8, <2>9, CanonicalIsACall DEF SameLane
  <2>11. LaneEvents(h, CallAt(p, t)) = LaneEvents(h, m.call)
    BY <2>10, SameLanes
  <2>12. t = u
    BY <2>1, <2>2, <2>5, <2>8, <2>10, <2>11, PlacesDiffer
  <2>13. ~Differs(h[s], m.call)
    BY <2>1, <2>8, <2>12 DEF Differs
  <2>14. m.answer # "differs"
    BY <2>13, CallsAnswered DEF s
  <2> QED
    BY <2>7, <2>12, <2>14 DEF s, u
<1> QED
  BY <1>1, <1>2

\* A call that is made at the turn of an answered call is answered.
LEMMA MadeAndAnswered ==
  ASSUME NEW h, NEW p \in Program, Ordered(p), NEW m \in Made(h, p)
  PROVE  m.answer = "completed" /\ m.at # 0 <=> AnsweredAt(h, p, m.turn)
<1>1. /\ m.at = Paired(h, m.call, PlaceOf(p, m.turn)) /\ m.call = CallAt(p, m.turn)
      /\ m.answer = Answer(h, m.call, m.at)
  BY PlaceOfCall, CallsMade
<1> QED
  BY <1>1 DEF AnsweredAt

\* The call that asked for a step is made again, unless a failure stops the draining.
LEMMA AskedAgain ==
  ASSUME NEW h \in Seq(Event), HistoryFits(h), NEW p \in Program, Ordered(p), Follows(h, p),
         NEW s \in DOMAIN h, IsRequest(h[s]), NEW t, Asks(h, p, s, t),
         \A k \in Made(h, p) : k.answer = "failed" /\ k.turn < t
                                 => RoundOf(p, t) <= k.round + CatchTicks + 1
  PROVE  \E m \in Made(h, p) : m.turn = t /\ m.at = s
<1> DEFINE b == BranchOf(p, t)
           R == RoundOf(p, t)
           Has(r) == \E m \in Made(h, p) : /\ m.branch = b /\ m.round = r
                                           /\ m.turn = TurnAt(p, b, r)
                                           /\ r < R => m.answer = "completed"
           T == {r \in 0..R : r = 0 \/ Has(r)}
<1>1. /\ t \in 1..Turns(p) /\ Real(p, t) /\ R <= DrainTicks + 1
      /\ h[s].by = <<b, R>> /\ h[s].call = Canonical(CallAt(p, t))
      /\ Rank(LaneEvents(h, CallAt(p, t)), s) = PlaceOf(p, t)
      /\ \A r \in 1..(R - 1) : AnsweredAt(SubSeq(h, 1, s - 1), p, TurnAt(p, b, r))
  BY DEF Asks
<1>2. /\ b \in DOMAIN p /\ R \in 1..Len(p[b]) /\ t = TurnAt(p, b, R) /\ Len(p[b]) \in Nat
      /\ CallAt(p, t) \in Call /\ R \in Nat
  BY <1>1, RealTurns, Branches
<1>3. DrainTicks \in Nat /\ Turns(p) \in Nat /\ t \in Nat /\ s - 1 \in 0..Len(h)
  BY <1>1, ReplayAssumption, RoundsReach
<1>4. ASSUME NEW r \in 1..R
      PROVE  /\ TurnAt(p, b, r) \in 1..Turns(p) /\ Real(p, TurnAt(p, b, r))
             /\ RoundOf(p, TurnAt(p, b, r)) = r
             /\ TurnAt(p, b, r) <= t
  <2>1. /\ TurnAt(p, b, r) \in 1..Turns(p) /\ Real(p, TurnAt(p, b, r))
        /\ RoundOf(p, TurnAt(p, b, r)) = r
    BY <1>1, EarlierTurns
  <2>2. ASSUME t < TurnAt(p, b, r) PROVE FALSE
    <3>1. R < r
      <4>1. BranchOf(p, TurnAt(p, b, r)) = b
        BY <1>1, EarlierTurns
      <4> QED
        BY <1>1, <2>1, <2>2, <4>1, TurnsInOrder
    <3> QED
      BY <1>2, <3>1
  <2> QED
    BY <1>3, <2>1, <2>2
<1>5. ASSUME NEW r \in 1..R, r < R PROVE AnsweredAt(h, p, TurnAt(p, b, r))
  <2>1. Extends(h, SubSeq(h, 1, s - 1))
    BY <1>3, PrefixOf
  <2>2. OneOutcome(h)
    BY DEF Follows
  <2>3. AnsweredAt(SubSeq(h, 1, s - 1), p, TurnAt(p, b, r))
    BY <1>1, <1>2, <1>5
  <2>4. PlaceOf(p, TurnAt(p, b, r)) \in Nat /\ PlaceOf(p, TurnAt(p, b, r)) > 0
    BY <1>4, RealTurns
  <2> QED
    BY <2>1, <2>2, <2>3, <2>4, AnswersStay
<1> HIDE DEF b, R
<1>6. 0 \in T
  BY <1>2
<1>7. ASSUME NEW r \in 0..R, r # R, r \in T PROVE r + 1 \in T
  <2>1. r + 1 \in 1..R /\ r + 1 \in 1..Len(p[b]) /\ r + 1 <= DrainTicks + 1 /\ r < R /\ r \in Nat
    BY <1>1, <1>2, <1>3, <1>7
  <2>2. r = 0 \/ \E m \in Made(h, p) :
                    m.branch = b /\ m.round = r /\ m.answer = "completed"
    BY <1>7, <2>1
  <2>3. \A k \in Made(h, p) : k.answer = "failed" /\ k.turn < TurnAt(p, b, r + 1)
                                => r + 1 <= k.round + CatchTicks + 1
    <3> SUFFICES ASSUME NEW k \in Made(h, p), k.answer = "failed", k.turn < TurnAt(p, b, r + 1)
                 PROVE  r + 1 <= k.round + CatchTicks + 1
      OBVIOUS
    <3>1. k.turn \in 1..Turns(p) /\ k.round \in Nat
      BY CallsMade
    <3>2. k.turn < t
      BY <1>3, <1>4, <2>1, <3>1
    <3>3. R <= k.round + CatchTicks + 1
      BY <3>2 DEF R
    <3> QED
      BY <1>2, <2>1, <3>1, <3>3 DEF CatchTicks
  <2>4. PICK m \in Made(h, p) : /\ m.branch = b /\ m.round = r + 1
                                /\ m.turn = TurnAt(p, b, r + 1)
    <3>1. PICK q : q = r + 1
      OBVIOUS
    <3> HIDE DEF T, Has
    <3>2. b \in DOMAIN p /\ q \in 1..Len(p[b]) /\ q <= DrainTicks + 1
      BY <1>2, <2>1, <3>1, Zenon
    <3>4. q = 1 \/ \E m \in Made(h, p) :
                       m.branch = b /\ m.round = q - 1 /\ m.answer = "completed"
      <4>1. q - 1 = r
        BY <2>1, <3>1
      <4>2. r = 0 => q = 1
        BY <3>1
      <4> QED
        BY <2>2, <4>1, <4>2, Zenon
    <3>5. \A k \in Made(h, p) : k.answer = "failed" /\ k.turn < TurnAt(p, b, q)
                                    => q <= k.round + CatchTicks + 1
      BY <2>3, <3>1, Zenon
    <3>3. \E m \in Made(h, p) : m.branch = b /\ m.round = q /\ m.turn = TurnAt(p, b, q)
      BY <3>2, <3>4, <3>5, CallIsMade
    <3> QED
      BY <3>1, <3>3
  <2>5. r + 1 < R => m.answer = "completed"
    BY <1>5, <2>1, <2>4, MadeAndAnswered
  <2>6. Has(r + 1)
    BY <2>4, <2>5
  <2> HIDE DEF Has
  <2> QED
    BY <2>1, <2>6
<1>8. R \in T
  <2> HIDE DEF T
  <2>1. \A r \in 0..R : r \in T
    BY <1>2, <1>6, <1>7, UpTo
  <2> QED
    BY <1>2, <2>1
<1>9. PICK m \in Made(h, p) : m.turn = t
  BY <1>2, <1>8
<1>10. m.at = Paired(h, CallAt(p, t), PlaceOf(p, t))
  BY <1>9, PlaceOfCall, CallsMade
<1>11. Paired(h, CallAt(p, t), PlaceOf(p, t)) = s
  <2> DEFINE L == LaneEvents(h, CallAt(p, t))
  <2>1. s \in L
    BY <1>1, <1>2, AskedInLane
  <2>2. L \in SUBSET Nat /\ IsFiniteSet(L)
    BY LaneEventsAreFinite
  <2>3. Rank(L, s) = PlaceOf(p, t)
    BY <1>1
  <2>4. Paired(h, CallAt(p, t), PlaceOf(p, t))
          = IF PlaceOf(p, t) <= Cardinality(L) THEN Nth(L, PlaceOf(p, t)) ELSE 0
    BY DEF Paired
  <2> HIDE DEF L
  <2>5. Rank(L, s) \in 1..Cardinality(L) /\ Cardinality(L) \in Nat
    BY <2>1, <2>2, RanksOrder
  <2>6. Nth(L, Rank(L, s)) = s
    BY <2>1, <2>2, NthHasRank
  <2> QED
    BY <2>3, <2>4, <2>5, <2>6
<1> QED
  BY <1>9, <1>10, <1>11

-----------------------------------------------------------------------------
(***************************************************************************)
(* The history keeps following the code.                                   *)
(***************************************************************************)
LEMMA PrefixStays ==
  ASSUME NEW g, NEW h, Extends(g, h), NEW n \in 0..Len(h)
  PROVE  SubSeq(g, 1, n) = SubSeq(h, 1, n)
<1>1. /\ h \in Seq(Event) /\ g \in Seq(Event) /\ Len(h) \in Nat /\ Len(g) \in Nat
      /\ n \in 0..Len(g) /\ \A s \in 1..Len(h) : g[s] = h[s]
  BY ExtendsFacts DEF Extends
<1>2. /\ Len(SubSeq(g, 1, n)) = n /\ DOMAIN SubSeq(g, 1, n) = 1..n
      /\ \A s \in 1..n : SubSeq(g, 1, n)[s] = g[s]
      /\ SubSeq(g, 1, n) \in Seq(Event)
  BY <1>1, PrefixOf DEF Extends
<1>3. /\ Len(SubSeq(h, 1, n)) = n /\ DOMAIN SubSeq(h, 1, n) = 1..n
      /\ \A s \in 1..n : SubSeq(h, 1, n)[s] = h[s]
      /\ SubSeq(h, 1, n) \in Seq(Event)
  BY <1>1, PrefixOf DEF Extends
<1>4. \A s \in 1..n : SubSeq(g, 1, n)[s] = SubSeq(h, 1, n)[s]
  BY <1>1, <1>2, <1>3
<1> QED
  BY <1>2, <1>3, <1>4, SeqEqual

\* A request is asked for in every longer history.
LEMMA AsksStays ==
  ASSUME NEW g, NEW h, Extends(g, h), NEW p, NEW s \in DOMAIN h, NEW t, Asks(h, p, s, t)
  PROVE  Asks(g, p, s, t)
<1>1. g[s] = h[s] /\ s - 1 \in 0..Len(h)
  BY ExtendsFacts DEF Extends
<1>2. Rank(LaneEvents(g, CallAt(p, t)), s) = Rank(LaneEvents(h, CallAt(p, t)), s)
  BY LanesGrow
<1>3. SubSeq(g, 1, s - 1) = SubSeq(h, 1, s - 1)
  BY <1>1, PrefixStays
<1> QED
  BY <1>1, <1>2, <1>3 DEF Asks

\* No step had two outcomes before.
LEMMA OneOutcomeBefore ==
  ASSUME NEW g, NEW h, Extends(g, h), OneOutcome(g)
  PROVE  OneOutcome(h)
<1>1. \A s \in DOMAIN h : s \in DOMAIN g /\ g[s] = h[s]
  BY ExtendsFacts DEF Extends
<1> QED
  BY <1>1, Zenon DEF OneOutcome

\* An event that is no request, and no second outcome, changes nothing.
LEMMA FollowsAfterAppend ==
  ASSUME NEW g, NEW h, Extends(g, h), NEW p, Follows(h, p),
         \A s \in DOMAIN g : s \in DOMAIN h \/ s = Len(h) + 1,
         NEW e, e = g[Len(h) + 1],
         ~IsRequest(e), e.stage = "requested" \/ Outcomes(h, e.ref) = {}
  PROVE  Follows(g, p)
<1>1. \A s \in DOMAIN h : s \in DOMAIN g /\ g[s] = h[s]
  BY ExtendsFacts DEF Extends
<1>2. OneOutcome(g)
  <2> SUFFICES ASSUME NEW o \in DOMAIN g, NEW q \in DOMAIN g,
                      g[o].stage # "requested", g[q].stage # "requested",
                      g[o].ref = g[q].ref, g[o].ref # 0
               PROVE  o = q
    BY DEF OneOutcome
  <2>1. CASE o \in DOMAIN h /\ q \in DOMAIN h
    BY <1>1, <2>1, Zenon DEF OneOutcome, Follows
  <2>2. CASE o \in DOMAIN h /\ q \notin DOMAIN h
    <3>1. o \in Outcomes(h, e.ref) /\ e.stage # "requested"
      BY <1>1, <2>2 DEF Outcomes
    <3> QED
      BY <3>1
  <2>3. CASE o \notin DOMAIN h /\ q \in DOMAIN h
    <3>1. q \in Outcomes(h, e.ref) /\ e.stage # "requested"
      BY <1>1, <2>3 DEF Outcomes
    <3> QED
      BY <3>1
  <2>4. CASE o \notin DOMAIN h /\ q \notin DOMAIN h
    BY <2>4
  <2> QED
    BY <2>1, <2>2, <2>3, <2>4
<1>3. ASSUME NEW s \in DOMAIN g, IsRequest(g[s])
      PROVE  \E t : Asks(g, p, s, t)
  <2>1. s \in DOMAIN h /\ IsRequest(h[s])
    BY <1>1, <1>3
  <2>2. PICK t : Asks(h, p, s, t)
    BY <2>1 DEF Follows
  <2> QED
    BY <2>1, <2>2, AsksStays
<1> QED
  BY <1>2, <1>3 DEF Follows

\* The calls of a lane that are new take the places behind those that were made before.
LEMMA NewCallsTakePlaces ==
  ASSUME NEW h \in Seq(Event), NEW p \in Program, Ordered(p),
         NEW m \in NewCalls(Made(h, p)), NEW C, C = Cardinality(LaneEvents(h, m.call))
  PROVE  LET T == TurnsOf({x \in NewCalls(Made(h, p)) : SameLane(x.call, m.call)})
         IN  PlaceOf(p, m.turn) = C + Rank(T, m.turn)
<1> DEFINE N == {x \in NewCalls(Made(h, p)) : SameLane(x.call, m.call)}
           L == LaneTurns(p, m.call)
<1>1. m \in Made(h, p) /\ m.answer = "new" /\ m.call = CallAt(p, m.turn)
  BY CallsMade DEF NewCalls
<1>2. L \in SUBSET Nat /\ IsFiniteSet(L)
  BY LaneTurnsAreFinite
<1>3. C \in Nat
  BY LaneEventsAreFinite
<1>4. ASSUME NEW x \in Made(h, p), SameLane(x.call, m.call)
      PROVE  /\ x.turn \in L /\ Rank(L, x.turn) \in Nat
             /\ x.answer = "new" <=> Rank(L, x.turn) > C
  <2>1. /\ x.turn \in LaneTurns(p, x.call) /\ PlaceOf(p, x.turn) \in Nat
        /\ PlaceOf(p, x.turn) > 0 /\ x.at = Paired(h, x.call, PlaceOf(p, x.turn))
        /\ x.call = CallAt(p, x.turn)
    BY <1>4, PlaceOfCall, CallsMade
  <2>2. LaneTurns(p, x.call) = L /\ LaneEvents(h, x.call) = LaneEvents(h, m.call)
    BY <1>4, SameLanes
  <2>3. PlaceOf(p, x.turn) = Rank(L, x.turn)
    BY <2>1, <2>2 DEF PlaceOf
  <2>4. x.at # 0 <=> PlaceOf(p, x.turn) <= C
    BY <2>1, <2>2, PairedWithLane
  <2>5. x.at = 0 <=> x.answer = "new"
    BY CallsAnswered
  <2> HIDE DEF L
  <2> QED
    BY <1>3, <2>1, <2>2, <2>3, <2>4, <2>5
<1>5. m.turn \in L /\ Rank(L, m.turn) > C /\ Rank(L, m.turn) \in Nat
  BY <1>1, <1>4 DEF SameLane
<1>6. PlaceOf(p, m.turn) = Rank(L, m.turn)
  BY <1>1 DEF PlaceOf
<1> HIDE DEF L
<1>7. {j \in TurnsOf(N) : j <= m.turn} = {j \in L : j <= m.turn /\ Rank(L, j) > C}
  <2>1. ASSUME NEW j \in TurnsOf(N) PROVE j \in L /\ Rank(L, j) > C
    <3>1. PICK x \in N : j = x.turn
      BY DEF TurnsOf
    <3> QED
      BY <1>4, <3>1 DEF NewCalls
  <2>2. ASSUME NEW j \in L, j <= m.turn, Rank(L, j) > C PROVE j \in TurnsOf(N)
    <3>1. PICK k \in Made(h, p) : k.turn = j
      BY <1>1, <2>2, LaneMadeBefore DEF L
    <3>2. SameLane(k.call, m.call)
      BY <2>2, <3>1, CallsMade DEF L, LaneTurns
    <3>3. k.answer = "new"
      BY <1>4, <2>2, <3>1, <3>2
    <3>4. k.call.lane # "signal"
      BY <3>2 DEF SameLane, NewCalls
    <3>5. k \in N
      BY <3>2, <3>3, <3>4 DEF NewCalls
    <3> QED
      BY <3>1, <3>5 DEF TurnsOf
  <2> HIDE DEF N
  <2> QED
    BY <2>1, <2>2
<1> HIDE DEF N
<1>8. Rank(TurnsOf(N), m.turn) = Rank(L, m.turn) - C
  <2>1. Cardinality({j \in L : j <= m.turn /\ Rank(L, j) > C}) = Rank(L, m.turn) - C
    BY <1>2, <1>3, <1>5, RanksAbove
  <2>2. Rank(TurnsOf(N), m.turn) = Cardinality({j \in TurnsOf(N) : j <= m.turn})
    BY DEF Rank
  <2> QED
    BY <1>7, <2>1, <2>2
<1>9. Rank(L, m.turn) = C + Rank(TurnsOf(N), m.turn)
  BY <1>3, <1>5, <1>8
<1> QED
  BY <1>6, <1>9 DEF N

\* Commands become requests.
LEMMA NewRequestsAreRequests ==
  ASSUME setup.storePrompts \in BOOLEAN, NEW h \in Seq(Event), NEW p \in Program,
         NEW j \in DOMAIN NewRequests(Made(h, p))
  PROVE  NewRequests(Made(h, p))[j].stage = "requested"
<1>1. PICK m \in NewCalls(Made(h, p)) : NewRequests(Made(h, p))[j] = Command(m)
  BY CommandsInOrder
<1>2. m.call \in Call /\ m.branch \in Nat /\ m.round \in Nat
  BY CallsMade DEF NewCalls
<1> QED
  BY <1>1, <1>2, RequestedFits DEF Command

\* The commands of a lane are in the order of the calls.
LEMMA CommandsOfALane ==
  ASSUME setup.storePrompts \in BOOLEAN, NEW h \in Seq(Event), NEW p \in Program,
         NEW m \in NewCalls(Made(h, p)), NEW d, d = NewRequests(Made(h, p))
  PROVE  LET T == TurnsOf({x \in NewCalls(Made(h, p)) : SameLane(x.call, m.call)})
             E == {j \in DOMAIN d : SameLane(d[j].call, m.call)}
         IN  Rank(E, Place(h, p, m)) = Rank(T, m.turn)
<1> DEFINE A == NewCalls(Made(h, p))
           N == {x \in A : SameLane(x.call, m.call)}
           T == TurnsOf(N)
           E == {j \in DOMAIN d : SameLane(d[j].call, m.call)}
           f == [t \in T |-> Rank(TurnsOf(A), t)]
<1>1. A \in SUBSET Made(h, p) /\ N \in SUBSET Made(h, p) /\ N \subseteq A
  BY DEF NewCalls
<1>2. /\ T \in SUBSET Nat /\ IsFiniteSet(T)
      /\ TurnsOf(A) \in SUBSET Nat /\ IsFiniteSet(TurnsOf(A))
  BY <1>1, TurnsAreFinite
<1>3. E \in SUBSET Nat /\ IsFiniteSet(E)
  <2>1. DOMAIN d = 1..Cardinality(A) /\ Cardinality(A) \in Nat
    BY CommandsInOrder
  <2>2. IsFiniteSet(1..Cardinality(A)) /\ E \subseteq 1..Cardinality(A)
    BY <2>1, FS_Interval
  <2>3. IsFiniteSet(E)
    BY <2>2, FS_Subset
  <2> QED
    BY <2>1, <2>3
<1>4. ASSUME NEW x \in A
      PROVE  /\ Place(h, p, x) \in DOMAIN d
             /\ SameLane(d[Place(h, p, x)].call, m.call) <=> SameLane(x.call, m.call)
  <2>1. Place(h, p, x) \in DOMAIN d /\ d[Place(h, p, x)] = Command(x)
    BY CommandsInOrder
  <2>2. /\ x.call \in Call /\ x.branch \in Nat /\ x.round \in Nat
    BY <1>1, CallsMade
  <2>3. d[Place(h, p, x)].call = Canonical(x.call)
    BY <2>1, <2>2, RequestedFits DEF Command
  <2> QED
    BY <2>1, <2>2, <2>3, CanonicalIsACall DEF SameLane
<1>5. \A t \in T : t \in TurnsOf(A) /\ \E x \in N : x.turn = t /\ f[t] = Place(h, p, x)
  BY DEF TurnsOf, Place
<1>6. f \in [T -> E]
  <2>1. \A t \in T : f[t] \in E
    BY <1>4, <1>5
  <2> QED
    BY <2>1
<1>7. \A k, l \in T : k <= l <=> f[k] <= f[l]
  <2> SUFFICES ASSUME NEW k \in T, NEW l \in T PROVE k <= l <=> f[k] <= f[l]
    OBVIOUS
  <2>1. k \in TurnsOf(A) /\ l \in TurnsOf(A)
    BY <1>5
  <2>2. f[k] = Rank(TurnsOf(A), k) /\ f[l] = Rank(TurnsOf(A), l)
    OBVIOUS
  <2> QED
    BY <1>2, <2>1, <2>2, RanksOrder
<1>8. \A j \in E : \E t \in T : f[t] = j
  <2> SUFFICES ASSUME NEW j \in E PROVE \E t \in T : f[t] = j
    OBVIOUS
  <2>1. PICK x \in A : Place(h, p, x) = j
    BY CommandsInOrder
  <2>2. x \in N
    BY <1>4, <2>1
  <2>3. x.turn \in T
    BY <2>2 DEF TurnsOf
  <2>4. f[x.turn] = j
    BY <2>1, <2>3 DEF Place
  <2> QED
    BY <2>3, <2>4
<1>9. m.turn \in T /\ f[m.turn] = Place(h, p, m)
  <2>1. m \in N
    BY DEF SameLane
  <2>2. m.turn \in T
    BY <2>1 DEF TurnsOf
  <2> QED
    BY <2>2 DEF Place
<1> HIDE DEF T, E, f
<1>10. Rank(T, m.turn) = Rank(E, f[m.turn])
  BY <1>2, <1>3, <1>6, <1>7, <1>8, <1>9, RanksCarryOver
<1>11. Rank(E, Place(h, p, m)) = Rank(T, m.turn)
  BY <1>9, <1>10
<1> QED
  BY <1>11 DEF T, E

\* A decision that was made from an older history, when no other was made since.
LEMMA FollowsAfterDecision ==
  ASSUME setup.storePrompts \in BOOLEAN,
         NEW h, HistoryFits(h), NEW n \in 0..Len(h), NEW p \in Program, Ordered(p), Follows(h, p),
         \A s \in (n + 1)..Len(h) : ~IsRequest(h[s])
  PROVE  Follows(h \o Decision(SubSeq(h, 1, n), p), p)
<1> DEFINE h0 == SubSeq(h, 1, n)
           d == Decision(h0, p)
           g == h \o d
<1>1. h \in Seq(Event) /\ Len(h) \in Nat /\ DOMAIN h = 1..Len(h)
  BY DEF HistoryFits
<1>2. Extends(h, h0) /\ h0 \in Seq(Event) /\ Len(h0) = n
  BY <1>1, PrefixOf DEF Extends
<1>3. /\ d \in Seq(Event) /\ \A j \in DOMAIN d : EventFits(d[j])
      /\ \/ d = NewRequests(Made(h0, p))
         \/ \A j \in DOMAIN d : d[j].lane = "workflow"
  BY <1>2, DecisionsFit
<1>4. \A j \in DOMAIN d : d[j].stage = "requested" \/ d[j].lane = "workflow"
  BY <1>2, <1>3, NewRequestsAreRequests
<1> HIDE DEF h0, d
<1>5. /\ HistoryFits(g) /\ Len(g) = Len(h) + Len(d)
      /\ \A s \in DOMAIN h : s \in DOMAIN g /\ g[s] = h[s]
      /\ \A j \in DOMAIN d : Len(h) + j \in DOMAIN g /\ g[Len(h) + j] = d[j]
      /\ \A s \in DOMAIN g : s \in DOMAIN h \/ \E j \in DOMAIN d : s = Len(h) + j
  BY <1>3, <1>4, FitsAfterDecision
<1> HIDE DEF g
<1>6. g \in Seq(Event) /\ Len(d) \in Nat /\ DOMAIN d = 1..Len(d)
  BY <1>3, <1>5 DEF HistoryFits
<1>7. Extends(g, h)
  BY <1>1, <1>5, <1>6 DEF Extends
<1>8. OneOutcome(g)
  <2> SUFFICES ASSUME NEW o \in DOMAIN g, NEW q \in DOMAIN g,
                      g[o].stage # "requested", g[q].stage # "requested",
                      g[o].ref = g[q].ref, g[o].ref # 0
               PROVE  o = q
    BY DEF OneOutcome
  <2>1. \A j \in DOMAIN d : d[j].stage # "requested" => d[j].ref = 0
    BY <1>3, <1>4 DEF EventFits
  <2>2. o \in DOMAIN h /\ q \in DOMAIN h
    BY <1>5, <2>1
  <2>3. h[o] = g[o] /\ h[q] = g[q]
    BY <1>5, <2>2
  <2> QED
    BY <2>2, <2>3, Zenon DEF Follows, OneOutcome
<1>9. ASSUME NEW j \in DOMAIN d, IsRequest(d[j])
      PROVE  \E t : Asks(g, p, Len(h) + j, t)
  <2> DEFINE s == Len(h) + j
  <2>1. d = NewRequests(Made(h0, p))
    BY <1>3, <1>9 DEF EventFits, IsRequest
  <2>2. PICK m \in NewCalls(Made(h0, p)) : Place(h0, p, m) = j /\ d[j] = Command(m)
    BY <2>1, CommandsInOrder
  <2>3. m \in Made(h0, p) /\ m.answer = "new" /\ m.call.lane # "signal"
    BY DEF NewCalls
  <2>4. /\ m.turn \in 1..Turns(p) /\ m.round = RoundOf(p, m.turn)
        /\ m.branch = BranchOf(p, m.turn) /\ m.call = CallAt(p, m.turn) /\ m.call \in Call
        /\ m.round \in 1..Len(p[m.branch]) /\ m.round <= DrainTicks + 1
        /\ m.branch \in Nat /\ m.round \in Nat
    BY <2>3, CallsMade
  <2>5. Real(p, m.turn)
    <3>1. Len(p[m.branch]) \in Nat
      BY <2>3, CallsMade, Branches
    <3> QED
      BY <2>4, <3>1 DEF Real
  <2>6. /\ g[s] = d[j] /\ d[j].by = <<m.branch, m.round>>
        /\ d[j].call = Canonical(m.call)
    BY <1>5, <2>2, <2>4, RequestedFits DEF Command
  <2>7. Rank(LaneEvents(g, m.call), s) = PlaceOf(p, m.turn)
    <3> DEFINE E == {i \in DOMAIN d : SameLane(d[i].call, m.call)}
               T == TurnsOf({x \in NewCalls(Made(h0, p)) : SameLane(x.call, m.call)})
               L == LaneEvents(h, m.call)
    <3>1. \A i \in DOMAIN d : d[i].stage = "requested"
      BY <1>2, <2>1, NewRequestsAreRequests
    <3>2. LaneEvents(g, m.call) = Above(Len(h), L, E)
      <4>1. ASSUME NEW k \in LaneEvents(g, m.call) PROVE k \in Above(Len(h), L, E)
        <5>1. k \in DOMAIN g /\ g[k].stage = "requested" /\ SameLane(g[k].call, m.call)
          BY <4>1 DEF LaneEvents
        <5>2. CASE k \in DOMAIN h
          BY <1>5, <5>1, <5>2 DEF LaneEvents, Above
        <5>3. CASE \E i \in DOMAIN d : k = Len(h) + i
          BY <1>5, <5>1, <5>3 DEF Above
        <5> QED
          BY <1>5, <5>1, <5>2, <5>3
      <4>2. ASSUME NEW k \in Above(Len(h), L, E) PROVE k \in LaneEvents(g, m.call)
        <5>1. CASE k \in L
          BY <1>5, <5>1 DEF LaneEvents
        <5>2. CASE \E i \in E : k = Len(h) + i
          BY <1>5, <3>1, <5>2 DEF LaneEvents
        <5> QED
          BY <4>2, <5>1, <5>2 DEF Above
      <4> QED
        BY <4>1, <4>2
    <3>3. L = LaneEvents(h0, m.call)
      <4>1. LaneEvents(h0, m.call) = {k \in L : k <= n}
        BY <1>2, LanesGrow
      <4>2. ASSUME NEW k \in L PROVE k <= n
        <5>1. k \in DOMAIN h /\ h[k].stage = "requested" /\ SameLane(h[k].call, m.call)
          BY <4>2 DEF LaneEvents
        <5>2. h[k].call.lane = h[k].lane
          BY <5>1 DEF HistoryFits, EventFits
        <5>3. IsRequest(h[k])
          BY <2>3, <5>1, <5>2 DEF IsRequest, SameLane
        <5> QED
          BY <1>1, <5>1, <5>3
      <4> QED
        BY <4>1, <4>2
    <3>4. L \in SUBSET (1..Len(h)) /\ Cardinality(L) = Cardinality(LaneEvents(h0, m.call))
      BY <1>1, <3>3 DEF LaneEvents
    <3>5. E \in SUBSET Nat /\ IsFiniteSet(E) /\ \A i \in E : i > 0
      <4>1. IsFiniteSet(1..Len(d)) /\ E \subseteq 1..Len(d)
        BY <1>6, FS_Interval
      <4>2. IsFiniteSet(E)
        BY <4>1, FS_Subset
      <4> QED
        BY <1>6, <4>1, <4>2
    <3>6. j \in E
      BY <2>4, <2>6, CanonicalIsACall DEF SameLane
    <3> HIDE DEF E, T, L
    <3>7. Rank(LaneEvents(g, m.call), s) = Cardinality(L) + Rank(E, j)
      BY <1>1, <3>2, <3>4, <3>5, <3>6, RanksAdded
    <3>8. Rank(E, j) = Rank(T, m.turn)
      BY <1>2, <2>1, <2>2, CommandsOfALane DEF E, T
    <3>9. PlaceOf(p, m.turn) = Cardinality(L) + Rank(T, m.turn)
      BY <1>2, <3>4, NewCallsTakePlaces DEF T
    <3> QED
      BY <3>7, <3>8, <3>9
  <2>8. ASSUME NEW r \in 1..(m.round - 1)
        PROVE  AnsweredAt(SubSeq(g, 1, s - 1), p, TurnAt(p, m.branch, r))
    <3>1. PICK k \in Made(h0, p) : /\ k.branch = m.branch /\ k.round = r
                                   /\ k.answer = "completed"
      BY <2>3, EarlierMade
    <3>2. k.turn = TurnAt(p, m.branch, r)
      BY <3>1, CallsMade
    <3>3. AnsweredAt(h0, p, k.turn)
      BY <1>2, <3>1, CallsAnswered, MadeAndAnswered
    <3>4. PlaceOf(p, k.turn) \in Nat /\ PlaceOf(p, k.turn) > 0
      BY PlaceOfCall
    <3>5. s - 1 \in 0..Len(g) /\ s - 1 >= n /\ s - 1 >= Len(h)
      BY <1>1, <1>5, <1>6
    <3>6. Extends(g, SubSeq(g, 1, s - 1))
      BY <1>6, <3>5, PrefixOf
    <3>7. OneOutcome(SubSeq(g, 1, s - 1))
      BY <1>8, <3>6, OneOutcomeBefore
    <3>8. Extends(SubSeq(g, 1, s - 1), h0)
      <4>1. /\ Len(SubSeq(g, 1, s - 1)) = s - 1
            /\ \A i \in 1..(s - 1) : SubSeq(g, 1, s - 1)[i] = g[i]
            /\ SubSeq(g, 1, s - 1) \in Seq(Event)
        BY <1>6, <3>5, <3>6, PrefixOf DEF Extends
      <4>2. \A i \in DOMAIN h0 : i \in 1..(s - 1) /\ i \in DOMAIN h /\ h0[i] = h[i] /\ g[i] = h[i]
        BY <1>1, <1>2, <1>5, <3>5, PrefixOf DEF h0
      <4> QED
        BY <1>2, <3>5, <4>1, <4>2 DEF Extends
    <3> QED
      BY <3>2, <3>3, <3>4, <3>7, <3>8, AnswersStay
  <2>9. Asks(g, p, s, m.turn)
    BY <2>4, <2>5, <2>6, <2>7, <2>8 DEF Asks
  <2> QED
    BY <2>9
<1>10. ASSUME NEW s \in DOMAIN g, IsRequest(g[s])
       PROVE  \E t : Asks(g, p, s, t)
  <2>1. CASE s \in DOMAIN h
    <3>1. PICK t : Asks(h, p, s, t)
      BY <1>5, <1>10, <2>1 DEF Follows
    <3> QED
      BY <1>7, <2>1, <3>1, AsksStays
  <2>2. CASE \E j \in DOMAIN d : s = Len(h) + j
    BY <1>5, <1>9, <1>10, <2>2
  <2> QED
    BY <1>5, <2>1, <2>2
<1>11. Follows(g, p)
  BY <1>8, <1>10 DEF Follows
<1> QED
  BY <1>11 DEF g, d, h0

-----------------------------------------------------------------------------
(***************************************************************************)
(* Decisions are rederived.                                                *)
(***************************************************************************)
Steady == Len(setup.versions) = 1 /\ Ordered(Code(1)) /\ stalled = 0

\* Nothing is decided while a pass holds an older history.
Quiet == pass # Idle => \A s \in (pass.seen + 1)..Len(hist) : ~IsRequest(hist[s])

RInv == Steady => Follows(hist, Code(1))

\* A workflow that is steady has been so.
LEMMA StaysSteady ==
  ASSUME IInv, Next, Steady'
  PROVE  Steady /\ setup' = setup
<1>1. setup' = setup
  BY DEF Next, ReadHistory, LlmSettles, AppendDecision, PassDies, StepSettles, SendSignal,
         Deploy, Retire
<1>2. stalled' = stalled \/ stalled' = stalled + 1
  BY DEF Next, ReadHistory, LlmSettles, AppendDecision, PassDies, StepSettles, SendSignal,
         Deploy, Retire
<1>3. stalled \in Nat
  BY Scenario DEF IInv, TypeOK
<1> QED
  BY <1>1, <1>2, <1>3 DEF Steady, Code

\* Signals and outcomes leave it quiet, and the history following the code.
LEMMA QuietAfterAppend ==
  ASSUME IInv, IInv', Quiet, RInv, Steady' => Steady, setup' = setup, pass' = pass,
         NEW e \in Event, hist' = Append(hist, e), ~IsRequest(e),
         e.stage = "requested" \/ (Steady' => Outcomes(hist, e.ref) = {})
  PROVE  Quiet' /\ RInv'
<1>1. /\ hist \in Seq(Event) /\ hist' \in Seq(Event)
      /\ Len(hist) \in Nat /\ Len(hist') = Len(hist) + 1
      /\ hist'[Len(hist) + 1] = e /\ DOMAIN hist = 1..Len(hist)
      /\ \A s \in DOMAIN hist : s \in DOMAIN hist' /\ hist'[s] = hist[s]
      /\ \A s \in DOMAIN hist' : s \in DOMAIN hist \/ s = Len(hist) + 1
  BY DEF IInv, HistoryFits
<1>2. Extends(hist', hist)
  BY <1>1 DEF Extends
<1>3. Quiet'
  <2>1. pass = Idle \/ pass.seen \in 0..Len(hist)
    BY DEF IInv, TypeOK
  <2> QED
    BY <1>1, <2>1 DEF Quiet
<1>4. ASSUME Steady' PROVE Follows(hist', Code(1))
  <2>1. Follows(hist, Code(1))
    BY <1>4 DEF RInv
  <2>2. e.stage = "requested" \/ Outcomes(hist, e.ref) = {}
    BY <1>4
  <2> QED
    BY <1>1, <1>2, <2>1, <2>2, FollowsAfterAppend
<1>5. RInv'
  BY <1>4 DEF RInv, Code
<1> QED
  BY <1>3, <1>5

\* It starts so,
LEMMA InitRInv == Init => Quiet /\ RInv
<1> SUFFICES ASSUME Init PROVE Quiet /\ RInv
  OBVIOUS
<1>1. DOMAIN hist = {} /\ pass = Idle
  BY DEF Init
<1> QED
  BY <1>1 DEF Quiet, RInv, Follows, OneOutcome

\* every step keeps it so,
LEMMA NextRInv == IInv /\ IInv' /\ Quiet /\ RInv /\ [Next]_vars => Quiet' /\ RInv'
<1> SUFFICES ASSUME IInv, IInv', Quiet, RInv, [Next]_vars PROVE Quiet' /\ RInv'
  OBVIOUS
<1>1. /\ TypeOK /\ HistoryFits(hist)
      /\ hist \in Seq(Event) /\ Len(hist) \in Nat /\ DOMAIN hist = 1..Len(hist)
      /\ setup.storePrompts \in BOOLEAN
  BY Scenario DEF IInv, TypeOK, HistoryFits
<1>2. ASSUME NEW v \in fleet, ReadHistory(v) PROVE Quiet' /\ RInv'
  <2>1. pass'.seen = Len(hist) /\ UNCHANGED <<setup, hist, stalled>>
    BY <1>2 DEF ReadHistory
  <2>2. \A s \in (pass'.seen + 1)..Len(hist') : FALSE
    BY <1>1, <2>1
  <2> QED
    BY <2>1, <2>2 DEF Quiet, RInv, Steady, Code
<1>3. ASSUME AppendDecision PROVE Quiet' /\ RInv'
  <2> DEFINE d == Decision(SubSeq(hist, 1, pass.seen), Code(pass.version))
  <2>1. /\ pass.seen \in 0..Len(hist) /\ pass.version \in DOMAIN setup.versions /\ pass # Idle
        /\ hist' = hist \o d /\ UNCHANGED <<setup, stalled>> /\ pass' = Idle
    BY <1>1, <1>3 DEF AppendDecision, TypeOK
  <2> HIDE DEF d
  <2>2. ASSUME Steady' PROVE Follows(hist', Code(1))
    <3>1. Steady
      BY <2>1, <2>2 DEF Steady, Code
    <3>2. Len(setup.versions) = 1 /\ Ordered(Code(1)) /\ Follows(hist, Code(1))
      BY <3>1 DEF Steady, RInv
    <3>3. pass.version = 1
      BY <1>1, <2>1, <3>2, Scenario DEF TypeOK
    <3>4. Code(1) \in Program
      BY <1>1, <2>1, <3>3, Scenario DEF TypeOK
    <3>5. \A s \in (pass.seen + 1)..Len(hist) : ~IsRequest(hist[s])
      BY <2>1 DEF Quiet
    <3>6. Follows(hist \o Decision(SubSeq(hist, 1, pass.seen), Code(1)), Code(1))
      BY <1>1, <2>1, <3>2, <3>4, <3>5, FollowsAfterDecision
    <3> QED
      BY <2>1, <3>3, <3>6 DEF d
  <2>3. RInv'
    BY <2>1, <2>2 DEF RInv, Code
  <2> QED
    BY <2>1, <2>3 DEF Quiet
<1>4. ASSUME PassDies PROVE Quiet' /\ RInv'
  BY <1>4 DEF PassDies, Quiet, RInv, Steady, Code
<1>5. ASSUME NEW s \in DOMAIN hist, NEW stage \in {"completed", "failed"}, IsRequest(hist[s])
      PROVE  LET e == Plain(hist[s].lane, stage, s)
             IN  e \in Event /\ ~IsRequest(e) /\ e.ref = s
  <2>1. EventFits(hist[s]) /\ s \in Nat
    BY <1>1, <1>5 DEF HistoryFits
  <2>2. hist[s].lane \in Lanes
    BY <1>5, <2>1 DEF EventFits, Event, IsRequest
  <2>3. EventFits(Plain(hist[s].lane, stage, s))
    BY <2>1, <2>2, PlainFits
  <2> QED
    BY <2>3 DEF EventFits, Plain, IsRequest
<1>6. ASSUME NEW s \in DOMAIN hist, NEW stage \in {"completed", "failed"}, StepSettles(s, stage)
      PROVE  Quiet' /\ RInv'
  <2> DEFINE e == Plain(hist[s].lane, stage, s)
  <2>1. /\ hist' = Append(hist, e) /\ setup' = setup /\ pass' = pass
        /\ Outcomes(hist, s) = {} \/ stalled' = stalled + 1
        /\ IsRequest(hist[s])
    BY <1>6 DEF StepSettles
  <2>2. e \in Event /\ ~IsRequest(e) /\ e.ref = s
    BY <1>5, <1>6 DEF StepSettles
  <2>3. Steady' => Steady
    BY <1>6, StaysSteady DEF Next
  <2>4. Steady' => Outcomes(hist, e.ref) = {}
    <3>1. stalled \in Nat
      BY <1>1, Scenario DEF TypeOK
    <3> QED
      BY <2>1, <2>2, <3>1 DEF Steady
  <2> HIDE DEF e
  <2> QED
    BY <2>1, <2>2, <2>3, <2>4, QuietAfterAppend
<1>7. ASSUME NEW v \in fleet, NEW s \in DOMAIN hist, NEW stage \in {"completed", "failed"},
             LlmSettles(v, s, stage)
      PROVE  Quiet' /\ RInv'
  <2> DEFINE e == Plain("llm", stage, s)
  <2>1. /\ hist' = Append(hist, e) /\ setup' = setup /\ pass' = pass
        /\ Outcomes(hist, s) = {} /\ hist[s].lane = "llm" /\ IsRequest(hist[s])
    BY <1>7 DEF LlmSettles
  <2>2. e \in Event /\ ~IsRequest(e) /\ e.ref = s
    BY <1>5, <2>1
  <2>3. Steady' => Steady
    BY <1>7, StaysSteady DEF Next
  <2> HIDE DEF e
  <2> QED
    BY <2>1, <2>2, <2>3, QuietAfterAppend
<1>8. ASSUME NEW name \in Signals, SendSignal(name) PROVE Quiet' /\ RInv'
  <2> DEFINE e == [Plain("signal", "requested", 0) EXCEPT
                    !.call = [lane |-> "signal", name |-> name, spelled |-> "default"]]
  <2>1. hist' = Append(hist, e) /\ setup' = setup /\ pass' = pass
    BY <1>8 DEF SendSignal
  <2>2. e.stage = "requested" /\ ~IsRequest(e)
    BY DEF Plain, IsRequest
  <2> HIDE DEF e
  <2>3. e \in Event
    <3>1. hist' \in Seq(Event) /\ Len(hist) + 1 \in DOMAIN hist' /\ hist'[Len(hist) + 1] = e
      <4>1. hist' \in Seq(Event)
        BY DEF IInv, HistoryFits
      <4> QED
        BY <1>1, <2>1, <4>1
    <3> QED
      BY <3>1
  <2>4. Steady' => Steady
    BY <1>8, StaysSteady DEF Next
  <2> QED
    BY <2>1, <2>2, <2>3, <2>4, QuietAfterAppend
<1>9. ASSUME Deploy \/ Retire PROVE Quiet' /\ RInv'
  BY <1>9 DEF Deploy, Retire, Quiet, RInv, Steady, Code
<1>10. CASE UNCHANGED vars
  BY <1>10 DEF vars, Quiet, RInv, Steady, Code
<1> QED
  BY <1>2, <1>3, <1>4, <1>6, <1>7, <1>8, <1>9, <1>10 DEF Next

\* and so it always is.
LEMMA AlwaysRInv == Spec => [](IInv /\ Quiet /\ RInv)
<1>1. Init => Quiet /\ RInv
  BY InitRInv
<1>2. IInv /\ IInv' /\ Quiet /\ RInv /\ [Next]_vars => Quiet' /\ RInv'
  BY NextRInv
<1> QED
  BY <1>1, <1>2, AlwaysIInv, PTL DEF Spec

\* Code that is not changed makes every recorded call again, on every later history, and
\* every recorded step is paired with the call that asked for it.
THEOREM EarlierDecisionsHold == Spec => []DecisionsAreRederived
<1>1. IInv /\ RInv => DecisionsAreRederived
  <2> SUFFICES ASSUME IInv, RInv, Steady
               PROVE  /\ Divergence(Made(hist, Code(1))) = "none"
                      /\ Fails(Made(hist, Code(1)))
                           \/ \A s \in DOMAIN hist : IsRequest(hist[s]) =>
                                \E m \in Made(hist, Code(1)) :
                                  m.at = s /\ <<m.branch, m.round>> = hist[s].by
    BY DEF DecisionsAreRederived, Steady
  <2> DEFINE p == Code(1)
  <2>1. /\ p \in Program /\ Ordered(p) /\ Follows(hist, p)
        /\ hist \in Seq(Event) /\ HistoryFits(hist)
    BY Scenario DEF IInv, TypeOK, HistoryFits, Steady, RInv
  <2> HIDE DEF p
  <2>2. \A m \in Made(hist, p) : m.answer # "differs"
    BY <2>1, PairedAsAsked
  <2>3. Divergence(Made(hist, p)) = "none"
    BY <2>1, <2>2, Diverges
  <2>4. ASSUME ~Fails(Made(hist, p)), NEW s \in DOMAIN hist, IsRequest(hist[s])
        PROVE  \E m \in Made(hist, p) : m.at = s /\ <<m.branch, m.round>> = hist[s].by
    <3>1. PICK t : Asks(hist, p, s, t)
      BY <2>1, <2>4 DEF Follows
    <3>2. ASSUME NEW k \in Made(hist, p), k.answer = "failed"
          PROVE  RoundOf(p, t) <= k.round + CatchTicks + 1
      <4>1. k.round \in Nat /\ DrainTicks \in Nat
        BY <2>1, CallsMade, ReplayAssumption
      <4>2. k.round + CatchTicks > DrainTicks
        BY <2>4, <3>2, <4>1 DEF Fails, CatchTicks
      <4>3. RoundOf(p, t) <= DrainTicks + 1 /\ RoundOf(p, t) \in Nat
        <5>1. t \in 1..Turns(p) /\ RoundOf(p, t) <= DrainTicks + 1
          BY <3>1 DEF Asks
        <5>2. RoundOf(p, t) \in 1..Rounds(p) /\ Rounds(p) \in Nat
          BY <2>1, <5>1, TurnsAreRounds, RoundsReach
        <5> QED
          BY <5>1, <5>2
      <4> QED
        BY <4>1, <4>2, <4>3 DEF CatchTicks
    <3>3. PICK m \in Made(hist, p) : m.turn = t /\ m.at = s
      BY <2>1, <2>4, <3>1, <3>2, AskedAgain
    <3>4. m.branch = BranchOf(p, t) /\ m.round = RoundOf(p, t)
      BY <2>1, <3>3, CallsMade
    <3> QED
      BY <3>1, <3>3, <3>4 DEF Asks
  <2> QED
    BY <2>3, <2>4 DEF p
<1> QED
  BY AlwaysRInv, <1>1, PTL

-----------------------------------------------------------------------------
(***************************************************************************)
(* The debugger.                                                           *)
(***************************************************************************)
\* One event of the recursion of FoldEvents.
Folded(h, g, n) == IF n = 0 THEN {} ELSE ApplyEvent(g[n - 1], n, h[n])

\* The steps after the first events.
LEMMA FoldedUpTo ==
  ASSUME NEW h, NEW N \in Nat
  PROVE  \E steps : steps = [n \in 0..N |-> Folded(h, steps, n)]
<1> DEFINE T == {k \in 0..N : \E g : g = [n \in 0..k |-> Folded(h, g, n)]}
<1>1. 0 \in T
  <2> DEFINE g == [n \in 0..0 |-> {}]
  <2>1. g = [n \in 0..0 |-> Folded(h, g, n)]
    BY DEF Folded
  <2> HIDE DEF g
  <2> QED BY <2>1
<1>2. ASSUME NEW k \in 0..N, k # N, k \in T PROVE k + 1 \in T
  <2>1. PICK f : f = [n \in 0..k |-> Folded(h, f, n)]
    BY <1>2
  <2> DEFINE g == [n \in 0..(k + 1) |-> Folded(h, f, n)]
  <2>2. \A n \in 0..k : g[n] = f[n]
    BY <2>1
  <2>3. \A n \in 0..(k + 1) : Folded(h, f, n) = Folded(h, g, n)
    BY <2>2 DEF Folded
  <2>4. g = [n \in 0..(k + 1) |-> Folded(h, g, n)]
    BY <2>3
  <2>5. \E f2 : f2 = [n \in 0..(k + 1) |-> Folded(h, f2, n)]
    <3> HIDE DEF g
    <3> QED BY <2>4
  <2>6. k + 1 \in 0..N
    BY <1>2
  <2> QED BY <2>5, <2>6
<1>3. N \in T
  <2> HIDE DEF T
  <2> QED BY <1>1, <1>2, UpTo
<1> QED
  BY <1>3

\* FoldEvents is where they end.
LEMMA FoldedByEvents ==
  ASSUME NEW h, Len(h) \in Nat
  PROVE  \E steps : /\ steps = [n \in 0..Len(h) |-> Folded(h, steps, n)]
                    /\ FoldEvents(h) = steps[Len(h)]
<1>1. \E g : g = [n \in 0..Len(h) |-> Folded(h, g, n)]
  BY FoldedUpTo, Zenon
<1> QED
  BY <1>1 DEF FoldEvents, Folded

\* What the first n events say of a step: its last outcome.
Shows(h, n, s, status) ==
  LET outcomes == {o \in Outcomes(h, s) : o <= n}
  IN  \/ outcomes = {} /\ status = "waiting"
      \/ \E o \in outcomes : status = h[o].stage /\ \A q \in outcomes : q <= o

\* The debugger shows what the events say.
LEMMA FoldShows ==
  ASSUME NEW h, HistoryFits(h), NEW s \in DOMAIN h, IsRequest(h[s]),
         NEW status, Shows(h, Len(h), s, status)
  PROVE  [at |-> s, status |-> status] \in FoldEvents(h)
<1>1. h \in Seq(Event) /\ Len(h) \in Nat /\ DOMAIN h = 1..Len(h)
  BY DEF HistoryFits
<1>2. PICK steps : /\ steps = [n \in 0..Len(h) |-> Folded(h, steps, n)]
                   /\ FoldEvents(h) = steps[Len(h)]
  BY <1>1, FoldedByEvents
<1> DEFINE Right(n) == \A a : s <= n /\ Shows(h, n, s, a) => [at |-> s, status |-> a] \in steps[n]
           T == {n \in 0..Len(h) : Right(n)}
<1>3. 0 \in T
  BY <1>1
<1>4. ASSUME NEW n \in 0..Len(h), n # Len(h), n \in T PROVE n + 1 \in T
  <2>1. n + 1 \in 0..Len(h) /\ n + 1 \in DOMAIN h /\ n \in Nat /\ n + 1 - 1 = n /\ n + 1 # 0
    <3>1. n # Len(h) /\ Len(h) \in Nat /\ DOMAIN h = 1..Len(h)
      BY <1>1, <1>4, Zenon
    <3> QED
      BY <3>1, NextUp, Zenon
  <2> DEFINE k == n + 1
             e == h[n + 1]
  <2>2. steps[k] = ApplyEvent(steps[n], k, e)
    <3>1. steps[k] = Folded(h, steps, k)
      BY <1>2, <2>1
    <3> QED
      BY <2>1, <3>1 DEF Folded
  <2>3. Right(n)
    BY <1>4
  <2>4. EventFits(e) /\ RefFits(h, k) /\ \A o \in Outcomes(h, s) : o \in 1..Len(h)
    BY <1>1, <2>1 DEF HistoryFits, Outcomes
  <2>5. ASSUME NEW a, s <= k, Shows(h, k, s, a)
        PROVE  [at |-> s, status |-> a] \in steps[k]
    <3> DEFINE x == [at |-> s, status |-> a]
    <3>1. CASE s = k
      <4>1. \A o \in Outcomes(h, s) : h[o].ref = s /\ h[o].stage # "requested"
                                       /\ o \in DOMAIN h /\ RefFits(h, o) /\ EventFits(h[o])
        BY DEF Outcomes, HistoryFits
      <4>2. \A o \in Outcomes(h, s) : s < o
        BY <1>1, <4>1 DEF RefFits, EventFits
      <4>3. a = "waiting"
        BY <2>1, <2>4, <2>5, <3>1, <4>2 DEF Shows
      <4> QED
        BY <2>2, <3>1, <4>3 DEF ApplyEvent
    <3>2. CASE s # k /\ k \in Outcomes(h, s)
      <4>1. e.stage # "requested" /\ e.ref = s
        BY <3>2 DEF Outcomes
      <4>2. a = e.stage
        <5>1. k \in {o \in Outcomes(h, s) : o <= k}
          BY <2>1, <3>2
        <5>2. PICK o \in {o \in Outcomes(h, s) : o <= k} :
                a = h[o].stage /\ \A q \in {q \in Outcomes(h, s) : q <= k} : q <= o
          BY <2>5, <5>1 DEF Shows
        <5>3. o = k
          BY <2>1, <2>4, <5>1, <5>2
        <5> QED
          BY <5>2, <5>3
      <4>3. s <= n
        BY <1>1, <2>1, <2>5, <3>2
      <4>4. \E b : Shows(h, n, s, b)
        <5> DEFINE O == {o \in Outcomes(h, s) : o <= n}
        <5>1. CASE O = {}
          BY <5>1 DEF Shows
        <5>2. CASE O # {}
          <6>1. O \in SUBSET Nat /\ IsFiniteSet(O)
            <7>1. Outcomes(h, s) \in SUBSET Nat /\ IsFiniteSet(Outcomes(h, s))
              BY <1>1, OutcomesAreFinite
            <7> QED
              BY <7>1, FS_Subset
          <6>2. Max(O) \in O /\ \A q \in O : q <= Max(O)
            BY <5>2, <6>1, Greatest
          <6> QED
            BY <6>2 DEF Shows
        <5> QED
          BY <5>1, <5>2
      <4>5. PICK b : [at |-> s, status |-> b] \in steps[n]
        BY <2>3, <4>3, <4>4
      <4>6. ~IsRequest(e)
        BY <4>1 DEF IsRequest
      <4> QED
        BY <2>2, <4>1, <4>2, <4>5, <4>6 DEF ApplyEvent
    <3>3. CASE s # k /\ k \notin Outcomes(h, s)
      <4>1. {o \in Outcomes(h, s) : o <= k} = {o \in Outcomes(h, s) : o <= n}
        BY <1>1, <2>1, <2>4, <3>3
      <4>2. s <= n /\ Shows(h, n, s, a)
        BY <1>1, <2>1, <2>5, <3>3, <4>1 DEF Shows
      <4>3. x \in steps[n]
        BY <2>3, <4>2
      <4>4. IsRequest(e) \/ e.ref # s
        <5>1. e.stage = "requested" => e.ref = 0
          BY <2>4 DEF EventFits
        <5>2. e.stage # "requested" => e.ref # s
          BY <2>1, <3>3 DEF Outcomes
        <5> QED
          BY <1>1, <5>1, <5>2
      <4> QED
        BY <2>2, <4>3, <4>4 DEF ApplyEvent
    <3> QED
      BY <3>1, <3>2, <3>3
  <2> QED
    BY <2>1, <2>5
<1>5. Len(h) \in T
  <2> HIDE DEF T
  <2>1. \A n \in 0..Len(h) : n \in T
    BY <1>1, <1>3, <1>4, UpTo
  <2> QED
    BY <1>1, <2>1
<1> QED
  BY <1>1, <1>2, <1>5

\* A program of one branch decides nothing while a step of it is in flight.
LEMMA OneStepInFlight ==
  ASSUME setup.storePrompts \in BOOLEAN,
         NEW h, HistoryFits(h), NEW p \in Program, Len(p) = 1, Follows(h, p),
         NEW s \in DOMAIN h, IsRequest(h[s]), Outcomes(h, s) = {}
  PROVE  Decision(h, p) = <<>>
<1> DEFINE made == Made(h, p)
<1>1. h \in Seq(Event) /\ s - 1 \in 0..Len(h)
  BY DEF HistoryFits
<1>2. DOMAIN p = {1} /\ Ordered(p)
  BY Branches DEF Ordered
<1>3. PICK t : Asks(h, p, s, t)
  BY DEF Follows
<1>4. /\ t \in 1..Turns(p) /\ Real(p, t) /\ RoundOf(p, t) <= DrainTicks + 1
      /\ \A r \in 1..(RoundOf(p, t) - 1) :
           AnsweredAt(SubSeq(h, 1, s - 1), p, TurnAt(p, BranchOf(p, t), r))
  BY <1>3 DEF Asks
<1>5. BranchOf(p, t) = 1 /\ RoundOf(p, t) \in Nat /\ t = TurnAt(p, 1, RoundOf(p, t))
  BY <1>2, <1>4, RealTurns
<1>6. ASSUME NEW k \in made
      PROVE  k.branch = 1 /\ k.round \in Nat /\ k.round > 0 /\ k.turn = k.round
  <2>1. k.branch = 1 /\ k.round \in Nat /\ k.round > 0 /\ k.turn = TurnAt(p, 1, k.round)
    BY <1>2, CallsMade, Branches
  <2> QED
    BY <2>1 DEF TurnAt
<1>7. t = RoundOf(p, t)
  BY <1>5 DEF TurnAt
<1>8. ASSUME NEW k \in made, k.turn < t PROVE k.answer = "completed"
  <2>1. k.round \in 1..(RoundOf(p, t) - 1) /\ TurnAt(p, BranchOf(p, t), k.round) = k.turn
    <3>1. TurnAt(p, 1, k.round) = k.turn
      BY <1>6 DEF TurnAt
    <3> QED
      BY <1>5, <1>6, <1>7, <1>8, <3>1
  <2>2. AnsweredAt(SubSeq(h, 1, s - 1), p, k.turn)
    BY <1>4, <2>1
  <2>3. Extends(h, SubSeq(h, 1, s - 1)) /\ OneOutcome(h)
    BY <1>1, PrefixOf DEF Follows
  <2>4. PlaceOf(p, k.turn) \in Nat /\ PlaceOf(p, k.turn) > 0
    BY <1>2, PlaceOfCall
  <2>5. AnsweredAt(h, p, k.turn)
    BY <2>2, <2>3, <2>4, AnswersStay
  <2> QED
    BY <1>2, <2>5, MadeAndAnswered
<1>9. PICK m \in made : m.turn = t /\ m.at = s
  <2>1. \A k \in made : k.answer = "failed" /\ k.turn < t
                          => RoundOf(p, t) <= k.round + CatchTicks + 1
    BY <1>8
  <2> QED
    BY <1>1, <1>2, <1>3, <2>1, AskedAgain
<1>10. m.answer = "waiting"
  <2>1. m.at # 0 /\ m.at \in LaneEvents(h, m.call)
    BY <1>1, <1>9, CallsAnswered
  <2>2. m.call.lane # "signal"
    BY <1>1, <1>9, <2>1 DEF LaneEvents, SameLane, HistoryFits, EventFits, IsRequest
  <2>3. m.answer # "differs"
    BY <1>1, <1>2, PairedAsAsked
  <2> QED
    BY <1>1, <1>9, <2>1, <2>2, <2>3, AnswerOf
<1>11. ASSUME NEW k \in made PROVE k.turn <= t
  <2>1. CASE k.turn > t
    <3>1. m.round \in 1..(k.round - 1)
      BY <1>6, <1>9, <2>1
    <3>2. PICK j \in made : j.branch = k.branch /\ j.round = m.round /\ j.answer = "completed"
      BY <3>1, EarlierMade
    <3>3. j = m
      BY <1>6, <3>2, OneCallATurn
    <3> QED
      BY <1>10, <3>2, <3>3
  <2> QED
    BY <1>4, <1>6, <1>7, <1>5, <2>1
<1>12. ASSUME NEW k \in made PROVE k.answer = "completed" \/ k = m
  <2>1. CASE k.turn = t
    BY <1>9, <2>1, OneCallATurn
  <2> QED
    BY <1>5, <1>6, <1>7, <1>8, <1>11, <2>1
<1> HIDE DEF made
<1>13. \A k \in made : k.answer # "differs" /\ k.answer # "failed" /\ k.answer # "new"
  BY <1>10, <1>12
<1>14. Divergence(made) = "none" /\ ~Fails(made)
  BY <1>13 DEF Divergence, Fails
<1>15. ~Completes(made, p)
  <2> SUFFICES ASSUME GoesOn(made, 1, Len(p[1]) + 1) PROVE FALSE
    BY <1>2 DEF Completes
  <2>1. Len(p[1]) \in Nat /\ Len(p[1]) > 0
    BY <1>2, Branches
  <2>2. PICK k \in made : k.round = Len(p[1]) /\ k.answer = "completed"
    BY <2>1 DEF GoesOn
  <2>3. RoundOf(p, t) <= Len(p[1])
    BY <1>4, <1>5 DEF Real
  <2>4. k.turn = t
    BY <1>5, <1>6, <1>7, <1>11, <2>1, <2>2, <2>3
  <2>5. k = m
    BY <1>9, <2>4, OneCallATurn DEF made
  <2> QED
    BY <1>10, <2>2, <2>5
<1>16. Decision(h, p) = NewRequests(made)
  BY <1>14, <1>15 DEF Decision, made
<1>17. Len(Decision(h, p)) = 0
  <2>1. NewCalls(made) = {}
    BY <1>13 DEF NewCalls
  <2>2. Cardinality(NewCalls(made)) = 0
    BY <2>1, FS_EmptySet
  <2> QED
    BY <1>16, <2>2, CommandsInOrder DEF made
<1> QED
  BY <1>1, <1>17, DecisionsFit, EmptySeq

OneBranch == Len(setup.versions) = 1 /\ Len(Code(1)) = 1 /\ stalled = 0

Completion(e) == e.lane \in {"llm", "tool"} /\ e.stage = "completed"

\* While a pass will decide, every step is answered, and it has read every answer of a
\* provider; a completion that the debugger marks was read by a decision.
DInv ==
  OneBranch =>
    /\ pass # Idle => /\ \A s \in DOMAIN hist : IsRequest(hist[s]) => Outcomes(hist, s) # {}
                      /\ \A s \in (pass.seen + 1)..Len(hist) : ~Completion(hist[s])
    /\ ReplayedSteps(hist) \subseteq 1..based

\* A workflow of one branch is steady.
LEMMA OneBranchIsSteady ==
  ASSUME IInv, OneBranch
  PROVE  /\ Steady /\ Code(1) \in Program /\ fleet = {1}
         /\ pass # Idle => pass.version = 1
<1>1. /\ setup \in Scenarios /\ Len(setup.versions) = 1 /\ fleet # {}
      /\ fleet \subseteq DOMAIN setup.versions
      /\ pass # Idle => pass.version \in DOMAIN setup.versions
  BY DEF IInv, TypeOK, OneBranch
<1>2. DOMAIN setup.versions = {1} /\ Code(1) \in Program
  BY <1>1, Scenario
<1>3. DOMAIN Code(1) = {1}
  BY <1>2, Branches DEF OneBranch
<1> QED
  BY <1>1, <1>2, <1>3 DEF Steady, OneBranch, Ordered

\* It has been so.
LEMMA StaysOneBranch ==
  ASSUME IInv, Next, OneBranch'
  PROVE  OneBranch /\ setup' = setup
<1>1. setup' = setup
  BY DEF Next, ReadHistory, LlmSettles, AppendDecision, PassDies, StepSettles, SendSignal,
         Deploy, Retire
<1>2. stalled' = stalled \/ stalled' = stalled + 1
  BY DEF Next, ReadHistory, LlmSettles, AppendDecision, PassDies, StepSettles, SendSignal,
         Deploy, Retire
<1>3. stalled \in Nat
  BY Scenario DEF IInv, TypeOK
<1> QED
  BY <1>1, <1>2, <1>3 DEF OneBranch, Code

\* An event that is no decision, and no completion while a pass will decide.
LEMMA AgreesAfterAppend ==
  ASSUME IInv, IInv', DInv, OneBranch' => OneBranch, setup' = setup, pass' = pass, based' = based,
         NEW e \in Event, hist' = Append(hist, e), ~IsDecision(e),
         OneBranch /\ pass # Idle => ~Completion(e)
  PROVE  DInv'
<1>1. /\ hist \in Seq(Event) /\ hist' \in Seq(Event)
      /\ Len(hist) \in Nat /\ Len(hist') = Len(hist) + 1
      /\ hist'[Len(hist) + 1] = e /\ DOMAIN hist = 1..Len(hist) /\ DOMAIN hist' = 1..Len(hist')
      /\ \A s \in DOMAIN hist : s \in DOMAIN hist' /\ hist'[s] = hist[s]
      /\ \A s \in DOMAIN hist' : s \in DOMAIN hist \/ s = Len(hist) + 1
      /\ pass # Idle => pass.seen \in 0..Len(hist)
  BY DEF IInv, HistoryFits, TypeOK
<1>2. Extends(hist', hist)
  BY <1>1 DEF Extends
<1>3. ASSUME OneBranch
      PROVE  ReplayedSteps(hist') \subseteq 1..based
  <2> SUFFICES ASSUME NEW s \in ReplayedSteps(hist') PROVE s \in ReplayedSteps(hist)
    BY <1>3 DEF DInv
  <2>1. PICK d \in DOMAIN hist' : IsDecision(hist'[d]) /\ s < d /\ s \in DOMAIN hist'
    BY DEF ReplayedSteps
  <2>2. hist'[s].lane \in {"llm", "tool"} /\ hist'[s].stage = "completed"
    BY DEF ReplayedSteps
  <2>3. d \in DOMAIN hist /\ s \in DOMAIN hist
    BY <1>1, <2>1
  <2>4. hist[d] = hist'[d] /\ hist[s] = hist'[s]
    BY <1>1, <2>3
  <2> QED
    BY <2>1, <2>2, <2>3, <2>4 DEF ReplayedSteps
<1>4. ASSUME OneBranch, pass # Idle, NEW s \in (pass.seen + 1)..Len(hist')
      PROVE  ~Completion(hist'[s])
  <2>1. CASE s = Len(hist) + 1
    BY <1>1, <1>4, <2>1
  <2>2. CASE s # Len(hist) + 1
    <3>1. s \in (pass.seen + 1)..Len(hist) /\ s \in DOMAIN hist
      BY <1>1, <1>4, <2>2
    <3> QED
      BY <1>1, <1>4, <3>1 DEF DInv
  <2> QED
    BY <2>1, <2>2
<1>5. ASSUME OneBranch, pass # Idle, NEW s \in DOMAIN hist', IsRequest(hist'[s])
      PROVE  Outcomes(hist', s) # {}
  <2>1. s \in DOMAIN hist /\ IsRequest(hist[s])
    BY <1>1, <1>5 DEF IsDecision
  <2>2. PICK o : o \in Outcomes(hist, s)
    BY <1>5, <2>1 DEF DInv
  <2>3. o \in Outcomes(hist', s)
    BY <1>1, <2>2 DEF Outcomes
  <2> QED
    BY <2>3
<1> QED
  BY <1>3, <1>4, <1>5 DEF DInv

\* Every step keeps what the debugger relies on.
LEMMA NextDInv == IInv /\ IInv' /\ RInv /\ DInv /\ [Next]_vars => DInv'
<1> SUFFICES ASSUME IInv, IInv', RInv, DInv, [Next]_vars PROVE DInv'
  OBVIOUS
<1>1. /\ TypeOK /\ HistoryFits(hist)
      /\ hist \in Seq(Event) /\ Len(hist) \in Nat /\ DOMAIN hist = 1..Len(hist)
      /\ setup.storePrompts \in BOOLEAN
  BY Scenario DEF IInv, TypeOK, HistoryFits
<1>2. ASSUME NEW v \in fleet, ReadHistory(v) PROVE DInv'
  <2>1. /\ pass'.seen = Len(hist) /\ UNCHANGED <<setup, hist, stalled, based>>
        /\ Decision(hist, Code(v)) # <<>>
    BY <1>2 DEF ReadHistory
  <2>2. \A s \in (Len(hist) + 1)..Len(hist) : FALSE
    BY <1>1
  <2>3. ASSUME OneBranch, NEW s \in DOMAIN hist, IsRequest(hist[s])
        PROVE  Outcomes(hist, s) # {}
    <3>1. /\ Code(1) \in Program /\ Len(Code(1)) = 1 /\ Follows(hist, Code(1)) /\ v = 1
      BY <2>3, OneBranchIsSteady DEF OneBranch, RInv
    <3> QED
      BY <1>1, <2>1, <2>3, <3>1, OneStepInFlight
  <2> QED
    BY <2>1, <2>2, <2>3 DEF DInv, OneBranch, Code
<1>3. ASSUME AppendDecision PROVE DInv'
  <2> DEFINE d == Decision(SubSeq(hist, 1, pass.seen), Code(pass.version))
  <2>1. /\ pass.seen \in 0..Len(hist) /\ pass.version \in DOMAIN setup.versions /\ pass # Idle
        /\ hist' = hist \o d /\ UNCHANGED <<setup, stalled>> /\ pass' = Idle
        /\ based' = Max({based, pass.seen})
    BY <1>1, <1>3 DEF AppendDecision, TypeOK
  <2>2. SubSeq(hist, 1, pass.seen) \in Seq(Event) /\ Code(pass.version) \in Program
    BY <1>1, <2>1, PrefixOf, Scenario DEF Extends, TypeOK
  <2>3. /\ d \in Seq(Event) /\ \A n \in DOMAIN d : EventFits(d[n])
        /\ \A n \in DOMAIN d : d[n].stage = "requested" \/ d[n].lane = "workflow"
    <3> DEFINE h == SubSeq(hist, 1, pass.seen)
               p == Code(pass.version)
    <3> HIDE DEF h, p
    <3>1. h \in Seq(Event) /\ p \in Program /\ d = Decision(h, p)
      BY <2>2 DEF h, p
    <3> HIDE DEF d
    <3>2. /\ d \in Seq(Event) /\ \A n \in DOMAIN d : EventFits(d[n])
          /\ \/ d = NewRequests(Made(h, p))
             \/ \A n \in DOMAIN d : d[n].lane = "workflow"
      BY <1>1, <3>1, DecisionsFit
    <3>3. \A n \in DOMAIN d : d[n].stage = "requested" \/ d[n].lane = "workflow"
      BY <1>1, <3>1, <3>2, NewRequestsAreRequests
    <3> QED
      BY <3>2, <3>3
  <2> HIDE DEF d
  <2>4. /\ \A s \in DOMAIN hist : s \in DOMAIN hist' /\ hist'[s] = hist[s]
        /\ \A s \in DOMAIN hist' : s \in DOMAIN hist \/ \E n \in DOMAIN d : s = Len(hist) + n
        /\ \A n \in DOMAIN d : hist'[Len(hist) + n] = d[n]
    BY <1>1, <2>1, <2>3, FitsAfterDecision
  <2>5. based \in Nat /\ based' \in Nat /\ based <= based' /\ pass.seen <= based'
    <3>1. based \in Nat /\ pass.seen \in Nat
      BY <1>1, <2>1 DEF TypeOK
    <3> QED
      BY <2>1, <3>1, GreaterOfTwo
  <2>6. ASSUME OneBranch', NEW s \in ReplayedSteps(hist') PROVE s \in 1..based'
    <3>1. OneBranch
      BY <1>3, <2>6, StaysOneBranch DEF Next
    <3>2. s \in DOMAIN hist' /\ Completion(hist'[s])
      BY DEF ReplayedSteps, Completion
    <3>3. s \in DOMAIN hist
      BY <2>3, <2>4, <3>2 DEF Completion
    <3>4. Completion(hist[s])
      BY <2>4, <3>2, <3>3
    <3>5. s <= pass.seen
      BY <1>1, <2>1, <3>1, <3>3, <3>4 DEF DInv
    <3> QED
      BY <1>1, <2>1, <2>5, <3>3, <3>5
  <2> QED
    BY <2>1, <2>6 DEF DInv
<1>4. ASSUME PassDies PROVE DInv'
  BY <1>4 DEF PassDies, DInv, OneBranch, Code
\* What is common to the actions that append an outcome.
<1>5. ASSUME NEW s \in DOMAIN hist, NEW stage \in {"completed", "failed"}, IsRequest(hist[s])
      PROVE  LET e == Plain(hist[s].lane, stage, s)
             IN  e \in Event /\ ~IsDecision(e)
  <2>1. EventFits(hist[s]) /\ s \in Nat
    BY <1>1, <1>5 DEF HistoryFits
  <2>2. hist[s].lane \in Lanes
    BY <1>5, <2>1 DEF EventFits, Event, IsRequest
  <2>3. EventFits(Plain(hist[s].lane, stage, s))
    BY <2>1, <2>2, PlainFits
  <2> QED
    BY <2>2, <2>3 DEF EventFits, Plain, IsRequest, IsDecision, Lanes
<1>6. ASSUME NEW s \in DOMAIN hist, NEW stage \in {"completed", "failed"}, StepSettles(s, stage)
      PROVE  DInv'
  <2> DEFINE e == Plain(hist[s].lane, stage, s)
  <2>1. /\ hist' = Append(hist, e) /\ setup' = setup /\ pass' = pass /\ based' = based
        /\ IsRequest(hist[s])
        /\ Outcomes(hist, s) = {} \/ hist[s].lane = "activity"
    BY <1>6 DEF StepSettles
  <2>2. e \in Event /\ ~IsDecision(e) /\ e.lane = hist[s].lane
    BY <1>5, <2>1 DEF Plain
  <2>3. OneBranch' => OneBranch
    BY <1>6, StaysOneBranch DEF Next
  <2>4. OneBranch /\ pass # Idle => ~Completion(e)
    BY <2>1, <2>2 DEF DInv, Completion
  <2> HIDE DEF e
  <2> QED
    BY <2>1, <2>2, <2>3, <2>4, AgreesAfterAppend
<1>7. ASSUME NEW v \in fleet, NEW s \in DOMAIN hist, NEW stage \in {"completed", "failed"},
             LlmSettles(v, s, stage)
      PROVE  DInv'
  <2> DEFINE e == Plain("llm", stage, s)
  <2>1. /\ hist' = Append(hist, e) /\ setup' = setup /\ pass' = pass /\ based' = based
        /\ Outcomes(hist, s) = {} /\ hist[s].lane = "llm" /\ IsRequest(hist[s])
    BY <1>7 DEF LlmSettles
  <2>2. e \in Event /\ ~IsDecision(e)
    BY <1>5, <2>1
  <2>3. OneBranch' => OneBranch
    BY <1>7, StaysOneBranch DEF Next
  <2>4. OneBranch /\ pass # Idle => ~Completion(e)
    BY <2>1 DEF DInv
  <2> HIDE DEF e
  <2> QED
    BY <2>1, <2>2, <2>3, <2>4, AgreesAfterAppend
<1>8. ASSUME NEW name \in Signals, SendSignal(name) PROVE DInv'
  <2> DEFINE e == [Plain("signal", "requested", 0) EXCEPT
                    !.call = [lane |-> "signal", name |-> name, spelled |-> "default"]]
  <2>1. hist' = Append(hist, e) /\ setup' = setup /\ pass' = pass /\ based' = based
    BY <1>8 DEF SendSignal
  <2>2. ~IsDecision(e) /\ ~Completion(e)
    BY DEF Plain, IsRequest, IsDecision, Completion
  <2> HIDE DEF e
  <2>3. e \in Event
    <3>1. hist' \in Seq(Event)
      BY DEF IInv, HistoryFits
    <3>2. Len(hist) + 1 \in DOMAIN hist' /\ hist'[Len(hist) + 1] = e
      BY <1>1, <2>1, <3>1
    <3> QED
      BY <3>1, <3>2
  <2>4. OneBranch' => OneBranch
    BY <1>8, StaysOneBranch DEF Next
  <2> QED
    BY <2>1, <2>2, <2>3, <2>4, AgreesAfterAppend
<1>9. ASSUME Deploy \/ Retire PROVE DInv'
  BY <1>9 DEF Deploy, Retire, DInv, OneBranch, Code
<1>10. CASE UNCHANGED vars
  BY <1>10 DEF vars, DInv, OneBranch, Code
<1> QED
  BY <1>2, <1>3, <1>4, <1>6, <1>7, <1>8, <1>9, <1>10 DEF Next

\* The debugger shows every step as replay sees it, and marks a completion as replayed only
\* after a decision that was made from it.
THEOREM DebuggerShowsReplay == Spec => []DebuggerAgrees
<1>1. Init => DInv
  <2> SUFFICES ASSUME Init PROVE DInv
    OBVIOUS
  <2>1. DOMAIN hist = {} /\ pass = Idle
    BY DEF Init
  <2> QED
    BY <2>1 DEF DInv, ReplayedSteps
<1>2. IInv /\ IInv' /\ RInv /\ DInv /\ [Next]_vars => DInv'
  BY NextDInv
<1>3. IInv /\ DInv => DebuggerAgrees
  <2> SUFFICES ASSUME IInv, DInv PROVE DebuggerAgrees
    OBVIOUS
  <2>1. hist \in Seq(Event) /\ HistoryFits(hist)
    BY DEF IInv, HistoryFits
  <2>2. ASSUME NEW v \in fleet, NEW m \in Made(hist, Code(v)),
               m.at # 0, m.call.lane # "signal", m.answer # "differs"
        PROVE  [at |-> m.at, status |-> m.answer] \in FoldEvents(hist)
    <3>1. Code(v) \in Program
      BY FleetMoves DEF IInv
    <3>2. m.at \in DOMAIN hist /\ m.at \in LaneEvents(hist, m.call)
      BY <2>1, <2>2, <3>1, CallsAnswered
    <3>3. IsRequest(hist[m.at])
      BY <2>1, <2>2, <3>2 DEF LaneEvents, SameLane, HistoryFits, EventFits, IsRequest
    <3>4. {o \in Outcomes(hist, m.at) : o <= Len(hist)} = Outcomes(hist, m.at)
      BY <2>1 DEF Outcomes
    <3>5. \/ Outcomes(hist, m.at) = {} /\ m.answer = "waiting"
          \/ \E o \in Outcomes(hist, m.at) : /\ m.answer = hist[o].stage
                                             /\ \A q \in Outcomes(hist, m.at) : q <= o
      BY <2>1, <2>2, <3>1, AnswerOf
    <3>6. Shows(hist, Len(hist), m.at, m.answer)
      BY <3>4, <3>5 DEF Shows
    <3> QED
      BY <2>1, <3>2, <3>3, <3>6, FoldShows
  <2>3. OneBranch => ReplayedSteps(hist) \subseteq 1..based
    BY DEF DInv
  <2> QED
    BY <2>2, <2>3 DEF DebuggerAgrees, OneBranch
<1> QED
  BY <1>1, <1>2, <1>3, AlwaysRInv, PTL DEF Spec
=============================================================================
