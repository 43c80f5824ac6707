---------------------- MODULE TransferLifecycle_proofs ----------------------
(***************************************************************************)
(* What becomes of a transfer, proved from the inductive invariant of      *)
(* TransferStore_proofs: that the hub implements TransferLifecycle, that   *)
(* unexpired rows keep their files and deletions are permanent, that no    *)
(* one else is let in to a transfer, that memory and database agree when   *)
(* nothing runs, and that the storage limit holds.                         *)
(***************************************************************************)
EXTENDS TransferStore_proofs, FiniteSetTheorems

(***************************************************************************)
(* Sums over finite sets.  The library's MapThenSumSet takes away one      *)
(* chosen element after the other; that the order does not matter, and the *)
(* rest, follows by looking at a smallest set for which it is not so.      *)
(***************************************************************************)
Some(s) == CHOOSE x \in s : TRUE

\* The recursive function whose value at T is the sum of f over T.
IsSum(g, f, T) ==
  g = [s \in SUBSET T |-> IF s = {} THEN 0 ELSE f[Some(s)] + g[s \ {Some(s)}]]

SumOver(f, T) == (CHOOSE g : IsSum(g, f, T))[T]

LEMMA SmallestSet ==
  ASSUME NEW T, IsFiniteSet(T), NEW F \in SUBSET (SUBSET T), F # {}
  PROVE  \E m \in F : \A s \in F : s \subseteq m => s = m
<1>1. IsWellFoundedOn(StrictSubsetOrdering(T), FiniteSubsetsOf(T))
  BY FS_StrictSubsetOrderingWellFounded
<1>2. F \subseteq FiniteSubsetsOf(T)
  BY FS_FiniteSubsetsOfFinite
<1>3. PICK m \in F : \A s \in F : ~(<<s, m>> \in StrictSubsetOrdering(T))
  BY <1>1, <1>2, WFMin
<1>4. ASSUME NEW s \in F, s \subseteq m, s # m PROVE FALSE
  BY <1>3, <1>4 DEF StrictSubsetOrdering
<1> QED BY <1>4

LEMMA SumStep ==
  ASSUME NEW g, NEW f, NEW T, IsSum(g, f, T), NEW s \in SUBSET T
  PROVE  /\ s = {} => g[s] = 0
         /\ s # {} => Some(s) \in s /\ g[s] = f[Some(s)] + g[s \ {Some(s)}]
<1>1. g[s] = IF s = {} THEN 0 ELSE f[Some(s)] + g[s \ {Some(s)}]
  BY DEF IsSum
<1>2. s # {} => Some(s) \in s
  BY DEF Some
<1> QED BY <1>1, <1>2

\* Functions that agree have the same sums.
LEMMA SumsAgree ==
  ASSUME NEW T, NEW U, NEW f, NEW e, NEW g, NEW h, IsSum(g, f, T), IsSum(h, e, U),
         NEW S \in SUBSET (T \cap U), IsFiniteSet(S), \A x \in S : f[x] = e[x]
  PROVE  g[S] = h[S]
<1> DEFINE F == {s \in SUBSET S : g[s] # h[s]}
<1> SUFFICES ASSUME F # {} PROVE FALSE
  OBVIOUS
<1>1. F \in SUBSET (SUBSET S)
  OBVIOUS
<1>2. PICK m \in F : \A s \in F : s \subseteq m => s = m
  <2> HIDE DEF F
  <2> QED BY <1>1, SmallestSet
<1>3. m \in SUBSET T /\ m \in SUBSET U
  OBVIOUS
<1>4. m # {}
  BY <1>3, SumStep
<1>5. PICK x \in m : x = Some(m) /\ g[m] = f[x] + g[m \ {x}]
  BY <1>3, <1>4, SumStep
<1>6. h[m] = e[x] + h[m \ {x}]
  BY <1>3, <1>4, <1>5, SumStep
<1>7. g[m \ {x}] = h[m \ {x}]
  BY <1>2, <1>5
<1> QED BY <1>5, <1>6, <1>7

LEMMA SumExists ==
  ASSUME NEW f, NEW T, IsFiniteSet(T)
  PROVE  \E g : IsSum(g, f, T)
<1> DEFINE F == {s \in SUBSET T : ~\E g : IsSum(g, f, s)}
<1> SUFFICES ASSUME F # {} PROVE FALSE
  OBVIOUS
<1>1. F \in SUBSET (SUBSET T)
  OBVIOUS
<1>2. PICK m \in F : \A s \in F : s \subseteq m => s = m
  <2> HIDE DEF F
  <2> QED BY <1>1, SmallestSet
<1>3. \A s \in SUBSET m : s # m => \E g : IsSum(g, f, s)
  BY <1>2
<1> DEFINE G(s) == CHOOSE g : IsSum(g, f, s)
<1>4. \A s \in SUBSET m : s # m => IsSum(G(s), f, s)
  BY <1>3
<1> DEFINE Value(s) == IF s = {} THEN 0
                       ELSE f[Some(s)] + G(s \ {Some(s)})[s \ {Some(s)}]
           g0 == [s \in SUBSET m |-> Value(s)]
<1>5. ASSUME NEW s \in SUBSET m, s # m PROVE G(s)[s] = g0[s]
  <2>1. IsSum(G(s), f, s)
    BY <1>4, <1>5
  <2> DEFINE a == G(s)
  <2>2. CASE s = {}
    <3>1. g0[s] = 0
      BY <2>2
    <3>2. IsSum(a, f, s)
      BY <2>1
    <3> HIDE DEF a
    <3>3. a[s] = 0
      BY <2>2, <3>2, SumStep
    <3> QED BY <3>1, <3>3 DEF a
  <2>3. CASE s # {}
    <3>1. PICK x : x = Some(s)
      OBVIOUS
    <3>2. x \in s
      BY <2>3, <3>1 DEF Some
    <3> DEFINE b == G(s \ {x})
    <3>3. IsSum(b, f, s \ {x})
      BY <1>4, <3>2
    <3>4. IsSum(a, f, s)
      BY <2>1
    <3>5. IsFiniteSet(s \ {x})
      BY FS_Subset
    <3>6. g0[s] = f[x] + b[s \ {x}]
      BY <2>3, <3>1
    <3> HIDE DEF a, b
    <3>7. a[s] = f[x] + a[s \ {x}]
      BY <2>3, <3>1, <3>4, SumStep
    <3>8. a[s \ {x}] = b[s \ {x}]
      BY <3>3, <3>4, <3>5, SumsAgree
    <3> QED BY <3>6, <3>7, <3>8 DEF a
  <2> QED BY <2>2, <2>3
<1>6. ASSUME NEW s \in SUBSET m, s # {}, NEW x \in s
      PROVE  G(s \ {x})[s \ {x}] = g0[s \ {x}]
  BY <1>5, <1>6
<1>7. \A s \in SUBSET m :
        g0[s] = IF s = {} THEN 0 ELSE f[Some(s)] + g0[s \ {Some(s)}]
  <2> TAKE s \in SUBSET m
  <2>1. s # {} => Some(s) \in s
    BY DEF Some
  <2>2. s # {} => g0[s] = f[Some(s)] + g0[s \ {Some(s)}]
    BY <1>6, <2>1
  <2>3. s = {} => g0[s] = 0
    OBVIOUS
  <2> HIDE DEF g0
  <2> QED BY <2>2, <2>3
<1>8. g0 = [s \in SUBSET m |-> g0[s]]
  OBVIOUS
<1>9. IsSum(g0, f, m)
  <2> HIDE DEF g0
  <2> QED BY <1>7, <1>8 DEF IsSum
<1> QED BY <1>2, <1>9

LEMMA SumOverIs ==
  ASSUME NEW f, NEW T, IsFiniteSet(T), NEW g, IsSum(g, f, T)
  PROVE  SumOver(f, T) = g[T]
<1>1. PICK h : h = CHOOSE e : IsSum(e, f, T)
  OBVIOUS
<1>2. IsSum(h, f, T)
  BY <1>1
<1>3. SumOver(f, T) = h[T]
  BY <1>1 DEF SumOver
<1>4. h[T] = g[T]
  BY <1>2, SumsAgree
<1> QED BY <1>3, <1>4

LEMMA SumIsNat ==
  ASSUME NEW f, NEW T, IsFiniteSet(T), NEW g, IsSum(g, f, T), \A x \in T : f[x] \in Nat
  PROVE  \A s \in SUBSET T : g[s] \in Nat
<1> DEFINE F == {s \in SUBSET T : g[s] \notin Nat}
<1> SUFFICES ASSUME F # {} PROVE FALSE
  OBVIOUS
<1>1. F \in SUBSET (SUBSET T)
  OBVIOUS
<1>2. PICK m \in F : \A s \in F : s \subseteq m => s = m
  <2> HIDE DEF F
  <2> QED BY <1>1, SmallestSet
<1>a. m \in SUBSET T
  OBVIOUS
<1>b. m = {} => g[m] = 0
  BY <1>a, SumStep
<1>3. m \in SUBSET T /\ m # {}
  BY <1>a, <1>b
<1>c. Some(m) \in m /\ g[m] = f[Some(m)] + g[m \ {Some(m)}]
  BY <1>3, SumStep
<1>4. PICK x \in m : x = Some(m) /\ g[m] = f[x] + g[m \ {x}]
  BY <1>c
<1>5. g[m \ {x}] \in Nat
  BY <1>2, <1>4
<1> QED BY <1>3, <1>4, <1>5

\* The order does not matter: any element may be counted apart.
LEMMA AnyElement ==
  ASSUME NEW f, NEW T, IsFiniteSet(T), NEW g, IsSum(g, f, T), \A x \in T : f[x] \in Nat
  PROVE  \A s \in SUBSET T : \A x \in s : g[s] = f[x] + g[s \ {x}]
<1> DEFINE F == {s \in SUBSET T : \E x \in s : g[s] # f[x] + g[s \ {x}]}
<1> SUFFICES ASSUME F # {} PROVE FALSE
  OBVIOUS
<1>1. F \in SUBSET (SUBSET T)
  OBVIOUS
<1>2. PICK m \in F : \A s \in F : s \subseteq m => s = m
  <2> HIDE DEF F
  <2> QED BY <1>1, SmallestSet
<1>3. PICK x \in m : g[m] # f[x] + g[m \ {x}]
  OBVIOUS
<1>4. m \in SUBSET T /\ m # {}
  OBVIOUS
<1>5. PICK y \in m : y = Some(m) /\ g[m] = f[y] + g[m \ {y}]
  BY <1>4, SumStep
<1>6. x # y
  BY <1>3, <1>5
<1>7. ASSUME NEW s \in SUBSET T, NEW z \in s, s \subseteq m, s # m
      PROVE  g[s] = f[z] + g[s \ {z}]
  BY <1>2, <1>7
<1>8. g[m \ {y}] = f[x] + g[(m \ {y}) \ {x}]
  BY <1>4, <1>6, <1>7
<1>9. g[m \ {x}] = f[y] + g[(m \ {x}) \ {y}]
  BY <1>4, <1>6, <1>7
<1>10. PICK r \in SUBSET T : r = (m \ {x}) \ {y} /\ r = (m \ {y}) \ {x}
  BY <1>4
<1>11. f[x] \in Nat /\ f[y] \in Nat /\ g[r] \in Nat
  BY <1>4, SumIsNat
<1>12. g[m] = f[y] + (f[x] + g[r]) /\ g[m \ {x}] = f[y] + g[r]
  BY <1>5, <1>8, <1>9, <1>10
<1> QED BY <1>3, <1>11, <1>12

LEMMA SumsOrdered ==
  ASSUME NEW T, IsFiniteSet(T), NEW f, NEW e, NEW g, NEW h, IsSum(g, f, T), IsSum(h, e, T),
         \A x \in T : f[x] \in Nat /\ e[x] \in Nat /\ f[x] <= e[x]
  PROVE  \A s \in SUBSET T : g[s] <= h[s]
<1> DEFINE F == {s \in SUBSET T : ~(g[s] <= h[s])}
<1> SUFFICES ASSUME F # {} PROVE FALSE
  OBVIOUS
<1>1. F \in SUBSET (SUBSET T)
  OBVIOUS
<1>2. PICK m \in F : \A s \in F : s \subseteq m => s = m
  <2> HIDE DEF F
  <2> QED BY <1>1, SmallestSet
<1>a. m \in SUBSET T
  OBVIOUS
<1>b. m = {} => g[m] = 0 /\ h[m] = 0
  BY <1>a, SumStep
<1>3. m \in SUBSET T /\ m # {}
  BY <1>a, <1>b
<1>4. PICK x \in m : x = Some(m) /\ g[m] = f[x] + g[m \ {x}]
  BY <1>3, SumStep
<1>5. h[m] = e[x] + h[m \ {x}]
  BY <1>3, AnyElement
<1>6. g[m \ {x}] <= h[m \ {x}]
  BY <1>2, <1>4
<1>7. /\ g[m \ {x}] \in Nat /\ h[m \ {x}] \in Nat
      /\ f[x] \in Nat /\ e[x] \in Nat /\ f[x] <= e[x]
  BY <1>3, SumIsNat
<1> QED BY <1>4, <1>5, <1>6, <1>7

\* What the proofs below use of sums.
LEMMA SumOverNat ==
  ASSUME NEW T, IsFiniteSet(T), NEW f, \A x \in T : f[x] \in Nat
  PROVE  SumOver(f, T) \in Nat
<1>1. PICK g : IsSum(g, f, T)
  BY SumExists
<1>2. T \in SUBSET T
  OBVIOUS
<1> QED BY <1>1, <1>2, SumOverIs, SumIsNat

LEMMA SumOverEmpty == ASSUME NEW f PROVE SumOver(f, {}) = 0
<1>1. IsFiniteSet({})
  BY FS_EmptySet
<1>2. PICK g : IsSum(g, f, {})
  BY <1>1, SumExists
<1> QED BY <1>1, <1>2, SumOverIs, SumStep

LEMMA SumOverZero ==
  ASSUME NEW T, IsFiniteSet(T), NEW f, \A x \in T : f[x] = 0
  PROVE  SumOver(f, T) = 0
<1>1. PICK g : IsSum(g, f, T)
  BY SumExists
<1> DEFINE F == {s \in SUBSET T : g[s] # 0}
<1>2. F \in SUBSET (SUBSET T)
  OBVIOUS
<1>3. ASSUME F # {} PROVE FALSE
  <2>1. PICK m \in F : \A s \in F : s \subseteq m => s = m
    <3> HIDE DEF F
    <3> QED BY <1>2, <1>3, SmallestSet
  <2>2. m \in SUBSET T /\ g[m] # 0
    OBVIOUS
  <2>a. m = {} => g[m] = 0
    BY <1>1, <2>2, SumStep
  <2>3. Some(m) \in m /\ g[m] = f[Some(m)] + g[m \ {Some(m)}]
    BY <1>1, <2>2, <2>a, SumStep
  <2>4. g[m \ {Some(m)}] = 0
    BY <2>1, <2>3
  <2> QED BY <2>2, <2>3, <2>4
<1>4. g[T] = 0
  BY <1>3
<1> QED BY <1>1, <1>4, SumOverIs

LEMMA SumOverLess ==
  ASSUME NEW T, IsFiniteSet(T), NEW f, NEW e,
         \A x \in T : f[x] \in Nat /\ e[x] \in Nat /\ f[x] <= e[x]
  PROVE  SumOver(f, T) <= SumOver(e, T)
<1>1. PICK g, h : IsSum(g, f, T) /\ IsSum(h, e, T)
  BY SumExists
<1>2. g[T] <= h[T]
  BY <1>1, SumsOrdered
<1> QED BY <1>1, <1>2, SumOverIs

\* A sum grows by no more than one of its terms does.
LEMMA SumOverOne ==
  ASSUME NEW T, IsFiniteSet(T), NEW f, NEW e, NEW u \in T,
         \A x \in T : f[x] \in Nat /\ e[x] \in Nat, \A x \in T \ {u} : e[x] <= f[x]
  PROVE  SumOver(e, T) <= SumOver(f, T) + e[u]
<1>1. PICK g, h : IsSum(g, f, T) /\ IsSum(h, e, T)
  BY SumExists
<1>2. g[T] = f[u] + g[T \ {u}] /\ h[T] = e[u] + h[T \ {u}]
  BY <1>1, AnyElement
<1> DEFINE S == T \ {u}
<1>3. S \in SUBSET T /\ IsFiniteSet(S)
  BY FS_Subset
<1>4. PICK a, b : IsSum(a, f, S) /\ IsSum(b, e, S)
  BY <1>3, SumExists
<1>5. b[S] <= a[S]
  BY <1>3, <1>4, SumsOrdered
<1>6. a[S] = g[S] /\ b[S] = h[S]
  BY <1>1, <1>3, <1>4, SumsAgree
<1>7. g[S] \in Nat /\ h[S] \in Nat
  BY <1>1, <1>3, SumIsNat
<1>8. SumOver(f, T) = g[T] /\ SumOver(e, T) = h[T]
  BY <1>1, SumOverIs
<1> QED BY <1>2, <1>5, <1>6, <1>7, <1>8

(***************************************************************************)
(* The bytes of the listed transfers, and of a batch                       *)
(***************************************************************************)
Sizes == [t \in Transfers |-> memory[t].size]

UsedIsSum == UsedBytes = SumOver(Sizes, Transfers)

LEMMA UsedBytesIsSum == UsedIsSum
<1> DEFINE IsSizeSum(h) ==
      h = [s \in SUBSET Transfers |->
             IF s = {} THEN 0 ELSE memory[Some(s)].size + h[s \ {Some(s)}]]
<1>0. IsFiniteSet(Transfers)
  BY ConstantsAssumption
<1>1. UsedBytes = (CHOOSE h : IsSizeSum(h))[Transfers]
  BY DEF UsedBytes, MapThenSumSet, MapThenFoldSet, Some
<1>2. \A s \in SUBSET Transfers : s # {} => Sizes[Some(s)] = memory[Some(s)].size
  BY DEF Some, Sizes
<1>3. \A h : IsSizeSum(h) <=> IsSum(h, Sizes, Transfers)
  BY <1>2 DEF IsSum
<1>4. \E g : IsSum(g, Sizes, Transfers)
  BY <1>0, SumExists
<1>5. PICK g : g = CHOOSE h : IsSizeSum(h)
  OBVIOUS
<1>6. IsSizeSum(g)
  BY <1>3, <1>4, <1>5
<1>7. g[Transfers] = SumOver(Sizes, Transfers)
  BY <1>0, <1>3, <1>6, SumOverIs
<1> QED BY <1>1, <1>5, <1>7 DEF UsedIsSum

LEMMA UsedBytesIsSumNext == UsedIsSum'
BY UsedBytesIsSum, PTL

LEMMA BatchBytesIsSum ==
  ASSUME NEW b
  PROVE  BatchBytes(b) = SumOver(b, DOMAIN b)
BY DEF BatchBytes, MapThenSumSet, MapThenFoldSet, Some, SumOver, IsSum

LEMMA BatchOfNone == BatchBytes(<<>>) = 0
BY BatchBytesIsSum, SumOverEmpty

First(n) == 1..n
Others(n) == 2..(n + 1)

LEMMA FirstAndOthers ==
  ASSUME NEW n \in Nat, n # 0
  PROVE  \E k \in Nat :
           /\ n = k + 1
           /\ n \in First(n) /\ First(n) \ {n} = First(k)
           /\ n + 1 \in Others(n) /\ Others(n) \ {n + 1} = Others(k)
<1>1. n - 1 \in Nat /\ n = (n - 1) + 1
  OBVIOUS
<1>2. PICK k \in Nat : n = k + 1
  BY <1>1
<1>3. n \in First(n) /\ First(n) \ {n} = First(k)
  BY <1>2 DEF First
<1>4. n + 1 \in Others(n) /\ Others(n) \ {n + 1} = Others(k)
  BY <1>2 DEF Others
<1> QED BY <1>2, <1>3, <1>4

\* c is what follows the first element of b.
Follows(c, b, n) ==
  /\ \A i \in First(n + 1) : b[i] \in Nat
  /\ \A i \in First(n) : c[i] = b[i + 1] /\ c[i] \in Nat

LEMMA ShiftedSum ==
  ASSUME NEW n \in Nat, NEW b, NEW c, Follows(c, b, n)
  PROVE  SumOver(b, First(n + 1)) = b[1] + SumOver(c, First(n))
<1>1. IsFiniteSet(First(n)) /\ IsFiniteSet(First(n + 1))
  BY FS_Interval DEF First
<1>2. PICK g, h : IsSum(g, b, First(n + 1)) /\ IsSum(h, c, First(n))
  BY <1>1, SumExists
<1>3. \A s \in SUBSET First(n + 1) : \A x \in s : g[s] = b[x] + g[s \ {x}]
  <2> SUFFICES ASSUME NEW s \in SUBSET First(n + 1), NEW x \in s
               PROVE  g[s] = b[x] + g[s \ {x}]
    OBVIOUS
  <2>1. \A y \in First(n + 1) : b[y] \in Nat
    BY DEF Follows
  <2> QED BY <1>1, <1>2, <2>1, AnyElement
<1>4. \A s \in SUBSET First(n) : \A x \in s : h[s] = c[x] + h[s \ {x}]
  <2> SUFFICES ASSUME NEW s \in SUBSET First(n), NEW x \in s
               PROVE  h[s] = c[x] + h[s \ {x}]
    OBVIOUS
  <2>1. \A y \in First(n) : c[y] \in Nat
    BY DEF Follows
  <2> QED BY <1>1, <1>2, <2>1, AnyElement
<1> DEFINE Differ(m) == h[First(m)] # g[Others(m)]
<1>5. ASSUME NEW m \in 0..n, Differ(m) PROVE \E k \in 0..n : Differ(k) /\ First(k) \subseteq First(m) /\ First(k) # First(m)
  <2>1. m # 0
    <3>1. First(0) = {} /\ Others(0) = {}
      BY DEF First, Others
    <3>2. h[{}] = 0 /\ g[{}] = 0
      BY <1>2, SumStep
    <3> QED BY <1>5, <3>1, <3>2
  <2>2. PICK k \in Nat :
           /\ m = k + 1
           /\ m \in First(m) /\ First(m) \ {m} = First(k)
           /\ m + 1 \in Others(m) /\ Others(m) \ {m + 1} = Others(k)
    BY <2>1, FirstAndOthers
  <2>3. First(m) \subseteq First(n) /\ Others(m) \subseteq First(n + 1) /\ k \in 0..n
    BY <2>2 DEF First, Others
  <2>4. h[First(m)] = c[m] + h[First(k)] /\ c[m] = b[m + 1]
    BY <1>4, <2>2, <2>3 DEF Follows
  <2>5. PICK x : x = m + 1
    OBVIOUS
  <2>6. g[Others(m)] = b[x] + g[Others(k)]
    BY <1>3, <2>2, <2>3, <2>5
  <2> QED BY <1>5, <2>2, <2>3, <2>4, <2>5, <2>6
<1>6. \A m \in 0..n : ~Differ(m)
  <2> DEFINE F == {First(m) : m \in {k \in 0..n : Differ(k)}}
  <2> HIDE DEF Differ
  <2>1. F \in SUBSET (SUBSET First(n))
    BY DEF First
  <2>2. ASSUME F # {} PROVE FALSE
    <3>1. PICK s \in F : \A r \in F : r \subseteq s => r = s
      <4> HIDE DEF F
      <4> QED BY <1>1, <2>1, <2>2, SmallestSet
    <3>2. PICK m \in 0..n : Differ(m) /\ s = First(m)
      OBVIOUS
    <3>3. PICK k \in 0..n : Differ(k) /\ First(k) \subseteq s /\ First(k) # s
      BY <1>5, <3>2
    <3>4. First(k) \in F
      BY <3>3
    <3> QED BY <3>1, <3>3, <3>4
  <2> QED BY <2>2
<1>7. g[First(n + 1)] = b[1] + g[Others(n)]
  <2>1. 1 \in First(n + 1) /\ First(n + 1) \ {1} = Others(n)
    BY DEF First, Others
  <2>2. PICK D : D = First(n + 1)
    OBVIOUS
  <2> QED BY <1>3, <2>1, <2>2
<1>8. SumOver(b, First(n + 1)) = g[First(n + 1)] /\ SumOver(c, First(n)) = h[First(n)]
  BY <1>1, <1>2, SumOverIs
<1>9. h[First(n)] = g[Others(n)]
  BY <1>6
<1> QED BY <1>7, <1>8, <1>9

LEMMA BatchIsNat ==
  ASSUME NEW b \in Seq(Nat)
  PROVE  BatchBytes(b) \in Nat
<1>1. PICK D : D = DOMAIN b
  OBVIOUS
<1>2. IsFiniteSet(D) /\ \A i \in D : b[i] \in Nat
  BY <1>1, FS_Interval
<1>3. SumOver(b, D) \in Nat
  BY <1>2, SumOverNat
<1> QED BY <1>1, <1>3, BatchBytesIsSum

LEMMA BatchOfMore ==
  ASSUME NEW b \in Seq(Nat), b # <<>>
  PROVE  /\ Head(b) \in Nat /\ Tail(b) \in Seq(Nat) /\ BatchBytes(Tail(b)) \in Nat
         /\ BatchBytes(b) = Head(b) + BatchBytes(Tail(b))
<1>1. PICK n \in Nat : Len(b) = n + 1
  <2>1. Len(b) \in Nat /\ Len(b) # 0
    OBVIOUS
  <2> QED BY <2>1
<1>2. PICK c : c = Tail(b)
  OBVIOUS
<1>3. /\ Head(b) = b[1] /\ Head(b) \in Nat /\ c \in Seq(Nat) /\ Len(c) = n
      /\ \A i \in 1..n : c[i] = b[i + 1]
  BY <1>1, <1>2, HeadTailProperties
<1>4. DOMAIN b = 1..(n + 1) /\ DOMAIN c = 1..n
  BY <1>1, <1>3
<1>5. Follows(c, b, n)
  <2>1. \A i \in DOMAIN b : b[i] \in Nat
    OBVIOUS
  <2>2. \A i \in DOMAIN c : c[i] \in Nat
    BY <1>3
  <2> QED BY <1>3, <1>4, <2>1, <2>2 DEF First, Follows
<1>6. SumOver(b, DOMAIN b) = b[1] + SumOver(c, DOMAIN c)
  BY <1>4, <1>5, ShiftedSum DEF First
<1>7. BatchBytes(c) \in Nat
  BY <1>3, BatchIsNat
<1>8. BatchBytes(b) = Head(b) + BatchBytes(c)
  BY <1>3, <1>6, BatchBytesIsSum
<1> QED BY <1>2, <1>3, <1>7, <1>8

USE ConstantsAssumption DEF ConstantsAssumption

(***************************************************************************)
(* What a step does to one entry and to one row, exactly                   *)
(***************************************************************************)
LEMMA EntryStep ==
  ASSUME TypeOK, [Next]_vars, NEW t \in Transfers
  PROVE  \/ memory'[t] = memory[t]
         \/ /\ memory'[t] = Absent
            /\ \/ \E r \in Requests : DeleteEntry(r) /\ req[r].id = t
               \/ \E r \in Requests : DrainEntries(r)
               \/ t \in expired
         \/ \E r \in Requests :
              PublishTransfer(r) /\ req[r].id = t /\ memory'[t] = NewEntry(req[r])
         \/ \E r \in Requests, verdict \in {Accepted, Rejected} :
              /\ ReviewEntry(r) /\ req'[r].id = t /\ memory[t].status = Pending
              /\ memory'[t] = [memory[t] EXCEPT !.status = verdict]
         \/ \E r \in Requests :
              /\ DetachSender(r)
              /\ memory'[t] = [memory[t] EXCEPT !.sender =
                                 IF @ = req[r].peer THEN NoDevice ELSE @]
         \/ Restart /\ memory'[t] = rows'[t]
<1> USE DEF store
<1>0. /\ memory \in [Transfers -> Entries \cup {Absent}]
      /\ req \in [Requests -> RequestStates]
  BY DEF TypeOK, StoreOK, RequestsOK
<1>1. CASE memory' = memory
  BY <1>1
<1>2. CASE \E r \in Requests : PublishTransfer(r)
  BY <1>0, <1>2 DEF PublishTransfer
<1>3. CASE \E r \in Requests : DeleteEntry(r)
  BY <1>0, <1>3 DEF DeleteEntry
<1>4. CASE \E r \in Requests : DrainEntries(r)
  BY <1>4 DEF DrainEntries
<1>5. CASE \E r \in Requests : ReviewEntry(r)
  <2>1. PICK r \in Requests : ReviewEntry(r)
    BY <1>5
  <2>2. PICK u \in Transfers, verdict \in {Accepted, Rejected} :
         /\ CanReview(memory[u], req[r].dev, u \in expired)
         /\ memory' = [memory EXCEPT ![u].status = verdict]
         /\ req' = [req EXCEPT ![r].pc = "review_row", ![r].id = u]
    BY <2>1 DEF ReviewEntry
  <2>3. req'[r].id = u /\ memory[u].status = Pending
    BY <1>0, <2>2 DEF RequestStates, CanReview
  <2> QED BY <1>0, <2>1, <2>2, <2>3
<1>6. CASE \E r \in Requests : DetachSender(r)
  BY <1>6 DEF DetachSender
<1>7. CASE SweepEntries
  BY <1>0, <1>7 DEF SweepEntries
<1>8. CASE Restart
  BY <1>8 DEF Restart
<1> QED
  BY ZenonT(60), <1>1, <1>2, <1>3, <1>4, <1>5, <1>6, <1>7, <1>8 DEF Next, vars, Sweep, SweepRows,
    SweepFiles, Expire, Serve, Start, Proceed, BeginUpload, CheckBatch, CallReview,
    DeleteLookup, JoinRow, BeginRemoval, ResetRows, ReceiveChunk, CompleteUpload,
    AbandonUpload, BeginCopy, CompleteCopy, AbandonBatch, PersistTransfer,
    PersistFails, ReviewRefused, ReviewRow, PurgeNext, DeleteRow, DeleteFiles,
    JoinEntry, DeleteDeviceRow, ForgetDevice, WipeRows, WipeFiles, ResetPeople,
    DatabaseFails, Disconnect

LEMMA RowStep ==
  ASSUME TypeOK, [Next]_vars, NEW t \in Transfers
  PROVE  \/ rows'[t] = rows[t]
         \/ /\ rows'[t] = Absent
            /\ \/ \E r \in Requests : DeleteRow(r) /\ req[r].id = t
               \/ \E r \in Requests : WipeRows(r) \/ ResetRows(r)
               \/ t \in sweep.due
               \/ Restart
         \/ \E r \in Requests :
              PersistTransfer(r) /\ req[r].id = t /\ rows'[t] = NewEntry(req[r])
         \/ \E r \in Requests :
              /\ ReviewRow(r) /\ req[r].id = t /\ Present(rows[t])
              /\ rows'[t] = [rows[t] EXCEPT !.status = memory[t].status]
         \/ \E r \in Requests :
              /\ DeleteDeviceRow(r)
              /\ rows'[t] = Unreferenced(rows[t], req[r].peer)
<1> USE DEF store
<1>0. rows \in [Transfers -> Entries \cup {Absent}]
  BY DEF TypeOK, StoreOK
<1>1. CASE rows' = rows
  BY <1>1
<1>2. CASE \E r \in Requests : PersistTransfer(r)
  BY <1>0, <1>2 DEF PersistTransfer
<1>3. CASE \E r \in Requests : DeleteRow(r)
  BY <1>0, <1>3 DEF DeleteRow
<1>4. CASE \E r \in Requests : WipeRows(r) \/ ResetRows(r)
  BY <1>4 DEF WipeRows, ResetRows
<1>5. CASE \E r \in Requests : ReviewRow(r)
  <2>1. PICK r \in Requests : ReviewRow(r)
    BY <1>5
  <2>2. CASE Present(rows[req[r].id])
    BY <1>0, <2>1, <2>2 DEF ReviewRow
  <2>3. CASE ~Present(rows[req[r].id])
    BY <2>1, <2>3 DEF ReviewRow
  <2> QED BY <2>2, <2>3
<1>6. CASE \E r \in Requests : DeleteDeviceRow(r)
  BY <1>6 DEF DeleteDeviceRow
<1>7. CASE SweepRows
  BY <1>0, <1>7 DEF SweepRows
<1>8. CASE Restart
  BY <1>8 DEF Restart
<1> QED
  BY ZenonT(60), <1>1, <1>2, <1>3, <1>4, <1>5, <1>6, <1>7, <1>8 DEF Next, vars, Sweep, SweepEntries,
    SweepFiles, Expire, Serve, Start, Proceed, BeginUpload, CheckBatch, CallReview,
    DeleteLookup, JoinRow, BeginRemoval, DrainEntries, ReceiveChunk, CompleteUpload,
    AbandonUpload, BeginCopy, CompleteCopy, AbandonBatch, PublishTransfer,
    PersistFails, ReviewRefused, ReviewEntry, PurgeNext, DeleteEntry, DeleteFiles,
    JoinEntry, DetachSender, ForgetDevice, WipeFiles, ResetPeople,
    DatabaseFails, Disconnect

\* Only its upload writes a row, only a review changes its status.
LEMMA RowStatusStep ==
  ASSUME TypeOK, [Next]_vars, NEW t \in Transfers, Present(rows'[t]),
         \A r \in Requests : PersistTransfer(r) => req[r].id # t,
         \A r \in Requests : ReviewRow(r) => req[r].id # t
  PROVE  Present(rows[t]) /\ rows'[t].status = rows[t].status
<1>1. CASE rows'[t] = rows[t]
  BY <1>1
<1>2. CASE rows'[t] = Absent
  BY <1>2 DEF Present, Absent
<1>3. ASSUME NEW r \in Requests, rows'[t] = Unreferenced(rows[t], req[r].peer)
      PROVE  Present(rows[t]) /\ rows'[t].status = rows[t].status
  BY <1>3 DEF Unreferenced, Present
<1> QED BY <1>1, <1>2, <1>3, RowStep

\* A locked map does not change.
LEMMA LockedEntryStep ==
  ASSUME TypeOK, [Next]_vars, NEW t \in Transfers, ~MapFree, ~Restart
  PROVE  memory'[t] = memory[t]
<1>1. \A r \in Requests : ~(\/ PublishTransfer(r) \/ DeleteEntry(r) \/ DrainEntries(r)
                            \/ ReviewEntry(r) \/ DetachSender(r))
  BY DEF PublishTransfer, DeleteEntry, DrainEntries, ReviewEntry, DetachSender
<1>2. ~SweepEntries
  BY DEF SweepEntries
<1> QED
  BY ZenonT(60), <1>1, <1>2 DEF Next, vars, store, Sweep, SweepRows,
    SweepFiles, Expire, Serve, Start, Proceed, BeginUpload, CheckBatch, CallReview,
    DeleteLookup, JoinRow, BeginRemoval, ResetRows, ReceiveChunk, CompleteUpload,
    AbandonUpload, BeginCopy, CompleteCopy, AbandonBatch, PersistTransfer,
    PersistFails, ReviewRefused, ReviewRow, PurgeNext, DeleteRow, DeleteFiles,
    JoinEntry, DeleteDeviceRow, ForgetDevice, WipeRows, WipeFiles, ResetPeople,
    DatabaseFails, Disconnect

\* A slot changes by a step of its own handler, or by a restart.
LEMMA SlotCause ==
  ASSUME TypeOK, [Next]_vars, NEW r \in Requests
  PROVE  req'[r] = req[r] \/ Serve(r) \/ Restart
BY SlotStep DEF Next, vars, Sweep, SweepEntries, SweepRows, SweepFiles, Expire

\* A handler comes to the publication of its upload by writing its row.
LEMMA PublishArrival ==
  ASSUME TypeOK, [Next]_vars, NEW r \in Requests, req'[r].pc = "publish"
  PROVE  \/ req'[r] = req[r]
         \/ PersistTransfer(r) /\ req'[r] = [req[r] EXCEPT !.pc = "publish"]
<1>0. req \in [Requests -> RequestStates]
  BY DEF TypeOK, RequestsOK
<1>1. CASE req'[r] = req[r]
  BY <1>1
<1>2. CASE Restart
  BY <1>2 DEF Restart, Idle
<1>3. CASE Serve(r)
  <2>1. Writes(r)
    BY <1>3, WriterStep DEF Copying
  <2>2. CASE BeginUpload(r) \/ CheckBatch(r)
    BY ZenonT(60), <1>0, <2>2 DEF BeginUpload, CheckBatch, Idle
  <2>3. CASE BeginCopy(r)
    BY <1>0, <2>3 DEF BeginCopy, RequestStates
  <2>4. CASE ReceiveChunk(r) \/ CompleteUpload(r) \/ CompleteCopy(r)
    BY <1>0, <2>4 DEF ReceiveChunk, CompleteUpload, CompleteCopy, Goto, At, RequestStates
  <2>5. CASE PersistTransfer(r)
    BY <1>0, <2>5 DEF PersistTransfer, Goto
  <2>6. CASE PublishTransfer(r)
    BY <1>0, <2>6, CopyingStep DEF Copying, PublishTransfer, BeginUpload, BeginCopy, At, Admits
  <2> QED BY <2>1, <2>2, <2>3, <2>4, <2>5, <2>6 DEF Writes
<1> QED BY <1>1, <1>2, <1>3, SlotCause

\* Time only passes: what expires was known, and nothing else changes then.
LEMMA ExpiredStep ==
  ASSUME [Next]_vars
  PROVE  \/ expired' = expired
         \/ \E t \in Transfers :
              /\ Present(memory[t]) \/ Present(rows[t])
              /\ expired' = expired \cup {t}
              /\ UNCHANGED <<store, people, locks, req, sweep, drawn, deleted>>
BY ZenonT(60) DEF Next, vars, Sweep, SweepEntries, SweepRows, SweepFiles, Expire, Restart, Serve,
  Start, Proceed, BeginUpload, CheckBatch, CallReview, DeleteLookup, JoinRow,
  BeginRemoval, DrainEntries, ResetRows, ReceiveChunk, CompleteUpload, AbandonUpload,
  BeginCopy, CompleteCopy, AbandonBatch, PersistTransfer, PersistFails,
  PublishTransfer, ReviewEntry, ReviewRefused, ReviewRow, PurgeNext, DeleteRow,
  DeleteEntry, DeleteFiles, JoinEntry, DeleteDeviceRow, DetachSender, ForgetDevice,
  WipeRows, WipeFiles, ResetPeople, DatabaseFails, Disconnect

(***************************************************************************)
(* The refinement.  What a row says of a transfer may lag behind what its  *)
(* entry says, never the other way round; and what is being uploaded has   *)
(* not expired.                                                            *)
(***************************************************************************)
ReviewsArePending ==
  \A r \in Requests : At(r, "review_row") =>
    LET t == req[r].id IN
    /\ memory[t].status \in {Accepted, Rejected}
    /\ Present(rows[t]) => rows[t].status = Pending

PendingInBoth ==
  \A t \in Transfers :
    memory[t].status = Pending /\ Present(rows[t]) => rows[t].status = Pending

PublishedAsWritten ==
  \A r \in Requests : At(r, "publish") /\ Present(rows[req[r].id]) =>
    rows[req[r].id].status = NewEntry(req[r]).status

UploadsAreLive ==
  /\ expired \subseteq drawn
  /\ \A r \in Requests : req[r].pc \in {"writing", "persist"} => req[r].id \notin expired

LifecycleInv ==
  /\ ReviewsArePending
  /\ PendingInBoth
  /\ PublishedAsWritten
  /\ UploadsAreLive

LEMMA ReviewsArePendingStep ==
  StoreInv /\ StoreInv' /\ LifecycleInv /\ [Next]_vars => ReviewsArePending'
<1> SUFFICES ASSUME StoreInv, StoreInv', LifecycleInv, [Next]_vars,
                    NEW r \in Requests, req'[r].pc = "review_row", NEW t, t = req'[r].id
             PROVE  /\ memory'[t].status \in {Accepted, Rejected}
                    /\ Present(rows'[t]) => rows'[t].status = Pending
  BY DEF ReviewsArePending, At
<1> USE DEF store
<1>0. /\ req \in [Requests -> RequestStates]
      /\ memory \in [Transfers -> Entries \cup {Absent}]
      /\ rows \in [Transfers -> Entries \cup {Absent}]
      /\ t \in Transfers /\ TypeOK
  BY DEF StoreInv, TypeOK, StoreOK, RequestsOK, WellPlaced
<1>1. CASE ReviewEntry(r)
  <2>1. PICK u \in Transfers, verdict \in {Accepted, Rejected} :
         /\ CanReview(memory[u], req[r].dev, u \in expired)
         /\ memory' = [memory EXCEPT ![u].status = verdict]
         /\ req' = [req EXCEPT ![r].pc = "review_row", ![r].id = u]
    BY <1>1 DEF ReviewEntry
  <2>2. u = t
    BY <1>0, <2>1 DEF RequestStates
  <2>3. memory[t] \in Entries
    BY <1>0, <2>1, <2>2 DEF CanReview, Pending, Absent
  <2>4. memory'[t].status = verdict
    BY <1>0, <2>1, <2>2, <2>3 DEF Entries
  <2>5. rows' = rows /\ memory[t].status = Pending
    BY <1>1, <2>1, <2>2 DEF ReviewEntry, CanReview
  <2> QED BY <1>0, <2>4, <2>5 DEF LifecycleInv, PendingInBoth
<1>2. CASE ~ReviewEntry(r)
  <2>1. req'[r] = req[r]
    BY <1>0, <1>2, SlotCause, SlotStep DEF Restart, Idle
  <2>2. /\ At(r, "review_row") /\ t = req[r].id /\ transfersLock = r /\ Present(memory[t])
        /\ memory[t].status \in {Accepted, Rejected}
        /\ Present(rows[t]) => rows[t].status = Pending
    BY <2>1 DEF StoreInv, ReviewLocksMap, LifecycleInv, ReviewsArePending, At
  <2>4. ~MapFree /\ ~Restart
    BY <2>2 DEF MapFree, Restart, Idle
  <2>5. memory'[t] = memory[t]
    BY <1>0, <2>4, LockedEntryStep
  <2>6. \A s \in Requests : PersistTransfer(s) => req[s].id # t
    BY <2>2 DEF StoreInv, UploadsAreFresh, PersistTransfer, At, Copying
  <2>7. \A s \in Requests : ~ReviewRow(s)
    <3>1. ~ReviewRow(r)
      BY <1>0 DEF ReviewRow, Finish, Idle
    <3> QED BY <2>2, <3>1 DEF StoreInv, ReviewLocksMap, ReviewRow
  <2>8. Present(rows'[t]) => Present(rows[t]) /\ rows'[t].status = rows[t].status
    BY <1>0, <2>6, <2>7, RowStatusStep
  <2> QED BY <2>2, <2>5, <2>8
<1> QED BY <1>1, <1>2

LEMMA PendingInBothStep ==
  StoreInv /\ LifecycleInv /\ [Next]_vars => PendingInBoth'
<1> SUFFICES ASSUME StoreInv, LifecycleInv, [Next]_vars, NEW t \in Transfers,
                    memory'[t].status = Pending, Present(rows'[t])
             PROVE  rows'[t].status = Pending
  BY DEF PendingInBoth
<1> USE DEF store
<1>0. /\ memory \in [Transfers -> Entries \cup {Absent}]
      /\ rows \in [Transfers -> Entries \cup {Absent}]
      /\ TypeOK
  BY DEF StoreInv, TypeOK, StoreOK
<1>1. CASE memory'[t] = memory[t]
  <2>1. Present(memory[t]) /\ memory[t].status = Pending
    BY <1>1 DEF Present, Pending
  <2>2. \A s \in Requests : PersistTransfer(s) => req[s].id # t
    BY <2>1 DEF StoreInv, UploadsAreFresh, PersistTransfer, At, Copying
  <2>3. \A s \in Requests : ReviewRow(s) => req[s].id # t
    BY <2>1 DEF LifecycleInv, ReviewsArePending, ReviewRow, Pending, Accepted, Rejected
  <2>4. Present(rows[t]) /\ rows'[t].status = rows[t].status
    BY <1>0, <2>2, <2>3, RowStatusStep
  <2> QED BY <2>1, <2>4 DEF LifecycleInv, PendingInBoth
<1>2. CASE \E r \in Requests :
             PublishTransfer(r) /\ req[r].id = t /\ memory'[t] = NewEntry(req[r])
  BY <1>2 DEF LifecycleInv, PublishedAsWritten, PublishTransfer
<1>3. ASSUME NEW r \in Requests, NEW verdict \in {Accepted, Rejected},
             memory[t].status = Pending,
             memory'[t] = [memory[t] EXCEPT !.status = verdict]
      PROVE  rows'[t].status = Pending
  <2>1. memory[t] \in Entries
    BY <1>0, <1>3 DEF Pending, Absent
  <2> QED BY <1>3, <2>1 DEF Entries, Pending, Accepted, Rejected
<1>4. ASSUME NEW r \in Requests, DetachSender(r),
             memory'[t] = [memory[t] EXCEPT !.sender =
                             IF @ = req[r].peer THEN NoDevice ELSE @]
      PROVE  rows'[t].status = Pending
  <2>1. memory[t].status = Pending /\ rows' = rows
    BY <1>0, <1>4 DEF DetachSender, Entries, Absent
  <2> QED BY <2>1 DEF LifecycleInv, PendingInBoth
<1>5. CASE memory'[t] = rows'[t]
  BY <1>5
<1> QED
  <2>1. memory'[t] # Absent
    BY DEF Absent, Pending
  <2> QED BY <1>0, <1>1, <1>2, <1>3, <1>4, <1>5, <2>1, EntryStep

LEMMA PublishedAsWrittenStep ==
  StoreInv /\ LifecycleInv /\ [Next]_vars => PublishedAsWritten'
<1> SUFFICES ASSUME StoreInv, LifecycleInv, [Next]_vars, NEW r \in Requests,
                    req'[r].pc = "publish", Present(rows'[req'[r].id])
             PROVE  rows'[req'[r].id].status = NewEntry(req'[r]).status
  BY DEF PublishedAsWritten, At
<1>0. /\ req \in [Requests -> RequestStates] /\ TypeOK
      /\ rows \in [Transfers -> Entries \cup {Absent}]
      /\ \A s \in Requests : req[s].pc \in Copying => req[s].id \in Transfers
  BY DEF StoreInv, TypeOK, StoreOK, RequestsOK, WellPlaced
<1>1. CASE PersistTransfer(r) /\ req'[r] = [req[r] EXCEPT !.pc = "publish"]
  <2>1. /\ NewEntry(req'[r]) = NewEntry(req[r]) /\ req'[r].id = req[r].id
        /\ req[r].id \in Transfers
    BY <1>0, <1>1 DEF RequestStates, NewEntry, PersistTransfer, At, Copying
  <2> QED BY <1>0, <1>1, <2>1 DEF PersistTransfer
<1>2. CASE req'[r] = req[r]
  <2> DEFINE t == req[r].id
  <2>1. t \in Transfers /\ At(r, "publish") /\ req'[r].id = t
    BY <1>0, <1>2 DEF Copying, At
  <2>2. \A s \in Requests : PersistTransfer(s) => s = r
    BY <2>1 DEF StoreInv, SoleWriter, PersistTransfer, At, Copying
  <2>3. \A s \in Requests : ~PersistTransfer(s)
    BY <2>1, <2>2 DEF PersistTransfer, At
  <2>4. \A s \in Requests : ReviewRow(s) => req[s].id # t
    BY <2>1 DEF StoreInv, UploadsAreFresh, ReviewLocksMap, ReviewRow, At, Copying
  <2>5. Present(rows[t]) /\ rows'[t].status = rows[t].status
    BY <1>0, <2>1, <2>3, <2>4, RowStatusStep
  <2> QED BY <1>2, <2>1, <2>5 DEF LifecycleInv, PublishedAsWritten
<1> QED BY <1>0, <1>1, <1>2, PublishArrival

LEMMA UploadsAreLiveStep ==
  StoreInv /\ LifecycleInv /\ [Next]_vars => UploadsAreLive'
<1> SUFFICES ASSUME StoreInv, LifecycleInv, [Next]_vars PROVE UploadsAreLive'
  OBVIOUS
<1>0. req \in [Requests -> RequestStates] /\ TypeOK
  BY DEF StoreInv, TypeOK, RequestsOK
<1>1. drawn \subseteq drawn' /\ expired \subseteq drawn
  BY <1>0, SweepStep DEF LifecycleInv, UploadsAreLive
<1>2. expired' \subseteq drawn'
  BY <1>1, ExpiredStep DEF StoreInv, KnownAreDrawn
<1>3. ASSUME NEW r \in Requests, req'[r].pc \in {"writing", "persist"}
      PROVE  req'[r].id \notin expired'
  <2>1. CASE BeginUpload(r)
    BY <1>0, <1>1, <2>1 DEF BeginUpload, Idle
  <2>2. CASE BeginCopy(r)
    <3>1. PICK u \in Transfers \ drawn :
              req' = [req EXCEPT ![r].pc = "writing", ![r].id = u,
                           ![r].size = Head(req[r].batch),
                           ![r].batch = Tail(req[r].batch)]
      BY <2>2 DEF BeginCopy
    <3>2. req'[r].id = u
      BY <1>0, <3>1 DEF RequestStates
    <3> QED BY <1>1, <2>2, <3>2 DEF BeginCopy
  <2>3. CASE ~BeginUpload(r) /\ ~BeginCopy(r)
    <3>1. req[r].pc \in {"writing", "persist"} /\ req'[r].id = req[r].id
      BY <1>0, <1>3, <2>3, CopyingStep DEF Copying
    <3>2. /\ req[r].id \notin expired
          /\ ~Present(memory[req[r].id]) /\ ~Present(rows[req[r].id])
      BY <3>1 DEF LifecycleInv, UploadsAreLive, StoreInv, UploadsAreFresh, Copying
    <3> QED BY <3>1, <3>2, ExpiredStep
  <2> QED BY <2>1, <2>2, <2>3
<1> QED BY <1>2, <1>3 DEF UploadsAreLive

LEMMA LifecycleInvInit == Init => LifecycleInv
BY DEF Init, LifecycleInv, ReviewsArePending, PendingInBoth, PublishedAsWritten,
  UploadsAreLive, At, Idle, Present, Absent

LEMMA LifecycleInvariant == Spec => []LifecycleInv
<1>1. StoreInv /\ StoreInv' /\ LifecycleInv /\ [Next]_vars => LifecycleInv'
  BY ReviewsArePendingStep, PendingInBothStep, PublishedAsWrittenStep, UploadsAreLiveStep
  DEF LifecycleInv
<1> QED BY <1>1, LifecycleInvInit, StoreInvariant, PTL DEF Spec

\* What TransferLifecycle calls unborn: not drawn yet, or on its way.
Unborn(t) ==
  \/ t \notin drawn
  \/ \E r \in Requests : req[r].id = t /\ req[r].pc \in {"writing", "persist"}

LEMMA UnbornHasNoRow ==
  ASSUME StoreInv, LifecycleInv, NEW t \in Transfers, Unborn(t)
  PROVE  ~Present(rows[t]) /\ t \notin expired
BY DEF StoreInv, LifecycleInv, UploadsAreLive, KnownAreDrawn, UploadsAreFresh, Unborn,
  Copying

LEMMA UnbornStep ==
  ASSUME StoreInv, [Next]_vars, NEW t \in Transfers, Unborn(t)'
  PROVE  Unborn(t)
<1>0. req \in [Requests -> RequestStates] /\ TypeOK /\ drawn \subseteq drawn'
  BY SweepStep DEF StoreInv, TypeOK, RequestsOK
<1>1. CASE t \notin drawn'
  BY <1>0, <1>1 DEF Unborn
<1>2. ASSUME NEW r \in Requests, req'[r].id = t, req'[r].pc \in {"writing", "persist"}
      PROVE  Unborn(t)
  <2>1. CASE BeginUpload(r)
    BY <1>0, <1>2, <2>1 DEF BeginUpload, Idle, Unborn
  <2>2. CASE BeginCopy(r)
    <3>1. PICK u \in Transfers \ drawn :
              req' = [req EXCEPT ![r].pc = "writing", ![r].id = u,
                           ![r].size = Head(req[r].batch),
                           ![r].batch = Tail(req[r].batch)]
      BY <2>2 DEF BeginCopy
    <3>2. req'[r].id = u
      BY <1>0, <3>1 DEF RequestStates
    <3> QED BY <1>2, <3>1, <3>2 DEF Unborn
  <2>3. CASE ~BeginUpload(r) /\ ~BeginCopy(r)
    <3>1. req[r].pc \in {"writing", "persist"} /\ req[r].id = t
      BY <1>0, <1>2, <2>3, CopyingStep DEF Copying
    <3> QED BY <3>1 DEF Unborn
  <2> QED BY <2>1, <2>2, <2>3
<1> QED BY <1>1, <1>2 DEF Unborn

LEMMA StageIs ==
  ASSUME NEW t \in Transfers
  PROVE  Stage[t] = IF Present(rows[t]) /\ t \notin expired THEN rows[t].status
                    ELSE IF Unborn(t) THEN "unborn" ELSE "gone"
BY DEF Stage, Unborn

\* Any step but the writing of a row and of a verdict leaves a transfer where
\* it is or lets it go.
LEMMA StageKept ==
  ASSUME StoreInv, LifecycleInv, [Next]_vars, NEW t \in Transfers,
         \A r \in Requests : ~PersistTransfer(r) /\ ~ReviewRow(r)
  PROVE  Stage'[t] = Stage[t] \/ Stage'[t] = "gone"
<1>0. TypeOK /\ expired \subseteq expired'
  BY ExpiredStep DEF StoreInv
<1>1. Stage'[t] = IF Present(rows'[t]) /\ t \notin expired' THEN rows'[t].status
                  ELSE IF Unborn(t)' THEN "unborn" ELSE "gone"
  BY DEF Stage, Unborn
<1>2. CASE Present(rows'[t]) /\ t \notin expired'
  BY <1>0, <1>1, <1>2, RowStatusStep, StageIs
<1>3. CASE ~(Present(rows'[t]) /\ t \notin expired') /\ Unborn(t)'
  BY <1>1, <1>3, UnbornStep, UnbornHasNoRow, StageIs
<1> QED BY <1>1, <1>2, <1>3

LEMMA PersistPublishes ==
  ASSUME StoreInv, LifecycleInv, NEW r \in Requests, PersistTransfer(r)
  PROVE  Lifecycle!Publish(req[r].id)
<1> DEFINE u == req[r].id
           s == NewEntry(req[r]).status
<1>0. /\ req \in [Requests -> RequestStates] /\ u \in Transfers
      /\ rows \in [Transfers -> Entries \cup {Absent}]
      /\ req[r].pc = "persist"
  BY DEF StoreInv, TypeOK, StoreOK, RequestsOK, WellPlaced, PersistTransfer, At, Copying
<1>1. /\ rows' = [rows EXCEPT ![u] = NewEntry(req[r])]
      /\ UNCHANGED <<expired, drawn>>
      /\ req' = [req EXCEPT ![r].pc = "publish"]
  BY DEF PersistTransfer, Goto
<1>2. Unborn(u) /\ ~Present(rows[u]) /\ u \notin expired
  BY <1>0, UnbornHasNoRow DEF Unborn
<1>3. s \in {Available, Pending} /\ Present(NewEntry(req[r]))
  BY DEF NewEntry, Present, Available, Pending
<1>4. Stage'[u] = s
  BY <1>0, <1>1, <1>2, <1>3 DEF Stage
<1>5. ASSUME NEW t \in Transfers, t # u PROVE Stage'[t] = Stage[t]
  <2>1. rows'[t] = rows[t]
    BY <1>0, <1>1, <1>5
  <2>2. \A q \in Requests : req'[q].id = req[q].id /\ (q # r => req'[q].pc = req[q].pc)
    BY <1>0, <1>1 DEF RequestStates
  <2>3. (\E q \in Requests : req'[q].id = t /\ req'[q].pc \in {"writing", "persist"})
          <=> (\E q \in Requests : req[q].id = t /\ req[q].pc \in {"writing", "persist"})
    BY <1>5, <2>2
  <2> QED BY <1>1, <2>1, <2>3 DEF Stage
<1>6. Stage' = [Stage EXCEPT ![u] = s]
  BY ZenonT(60), <1>0, <1>4, <1>5 DEF Stage
<1>7. Stage[u] = "unborn"
  BY <1>0, <1>2, StageIs
<1> QED BY <1>3, <1>6, <1>7 DEF Lifecycle!Publish, Lifecycle!Available, Lifecycle!Pending,
  Available, Pending

LEMMA ReviewRowReviews ==
  ASSUME StoreInv, LifecycleInv, NEW r \in Requests, ReviewRow(r)
  PROVE  Lifecycle!Review(req[r].id) \/ Stage' = Stage
<1> DEFINE u == req[r].id
           s == memory[u].status
<1>0. /\ req \in [Requests -> RequestStates] /\ u \in Transfers
      /\ rows \in [Transfers -> Entries \cup {Absent}]
      /\ req[r].pc = "review_row"
  BY DEF StoreInv, TypeOK, StoreOK, RequestsOK, WellPlaced, ReviewRow, At
<1>1. /\ s \in {Accepted, Rejected}
      /\ Present(rows[u]) => rows[u].status = Pending
  BY <1>0 DEF LifecycleInv, ReviewsArePending, At
<1>2. UNCHANGED <<expired, drawn>> /\ req' = [req EXCEPT ![r] = Idle]
  BY DEF ReviewRow, Finish
<1>3. \A t \in Transfers \ {u} : rows'[t] = rows[t]
  BY <1>0 DEF ReviewRow
<1>4. Present(rows[u]) => Present(rows'[u]) /\ rows'[u].status = s
  BY <1>0, <1>1 DEF ReviewRow, Present, Absent, Entries, Accepted, Rejected
<1>5. ~Present(rows[u]) => rows' = rows
  BY DEF ReviewRow
<1>6. \A t : (\E q \in Requests : req'[q].id = t /\ req'[q].pc \in {"writing", "persist"})
          <=> (\E q \in Requests : req[q].id = t /\ req[q].pc \in {"writing", "persist"})
  BY <1>0, <1>2 DEF Idle
<1>7. CASE Present(rows[u]) /\ u \notin expired
  <2>1. Stage' = [Stage EXCEPT ![u] = s]
    <3>1. Stage'[u] = s
      BY <1>0, <1>2, <1>4, <1>7 DEF Stage
    <3>2. ASSUME NEW t \in Transfers, t # u PROVE Stage'[t] = Stage[t]
      BY <1>2, <1>3, <1>6, <3>2 DEF Stage
    <3> QED BY ZenonT(60), <1>0, <3>1, <3>2 DEF Stage
  <2>2. Stage[u] = Pending
    BY <1>0, <1>1, <1>7 DEF Stage
  <2> QED BY <1>1, <2>1, <2>2 DEF Lifecycle!Review, Lifecycle!Pending,
    Lifecycle!Accepted, Lifecycle!Rejected, Pending, Accepted, Rejected
<1>8. CASE ~Present(rows[u]) \/ u \in expired
  BY <1>0, <1>2, <1>3, <1>5, <1>6, <1>8 DEF Stage
<1> QED BY <1>7, <1>8

\* The hub implements the lifecycle of TransferLifecycle: each transfer is
\* published once, reviewed at most once if it was targeted, and never comes
\* back, whatever requests interleave, fail, are dropped or die with the
\* process (routes/transfers.rs, routes/devices.rs, cleanup.rs, db.rs).
THEOREM HubImplementsLifecycle == Spec => ImplementsLifecycle
<1>1. Init => Lifecycle!Init
  <2> SUFFICES ASSUME Init PROVE Stage = [t \in Transfers |-> "unborn"]
    BY DEF Lifecycle!Init
  <2> QED BY DEF Init, Stage, Present, Absent
<1>2. StoreInv /\ LifecycleInv /\ [Next]_vars => [Lifecycle!Next]_Stage
  <2> SUFFICES ASSUME StoreInv, LifecycleInv, [Next]_vars
               PROVE  Lifecycle!Next \/ Stage' = Stage
    OBVIOUS
  <2>1. ASSUME NEW r \in Requests, PersistTransfer(r) PROVE Lifecycle!Next
    <3>1. req[r].id \in Transfers
      BY <2>1 DEF StoreInv, TypeOK, RequestsOK, WellPlaced, PersistTransfer, At, Copying
    <3> QED BY <2>1, <3>1, PersistPublishes DEF Lifecycle!Next
  <2>2. ASSUME NEW r \in Requests, ReviewRow(r) PROVE Lifecycle!Next \/ Stage' = Stage
    <3>1. req[r].id \in Transfers
      BY <2>2 DEF StoreInv, TypeOK, RequestsOK, WellPlaced, ReviewRow, At
    <3> QED BY <2>2, <3>1, ReviewRowReviews DEF Lifecycle!Next
  <2>3. CASE \A r \in Requests : ~PersistTransfer(r) /\ ~ReviewRow(r)
    <3> DEFINE T == {t \in Transfers : Stage'[t] # Stage[t]}
    <3>1. \A t \in Transfers : Stage'[t] = IF t \in T THEN "gone" ELSE Stage[t]
      BY <2>3, StageKept
    <3>2. Stage' = [t \in Transfers |-> IF t \in T THEN "gone" ELSE Stage[t]]
      BY <3>1 DEF Stage
    <3>3. Lifecycle!Vanish(T)
      BY <3>2 DEF Lifecycle!Vanish
    <3> QED BY <3>3 DEF Lifecycle!Next
  <2> QED BY <2>1, <2>2, <2>3
<1> QED
  BY <1>1, <1>2, StoreInvariant, LifecycleInvariant, PTL
  DEF Spec, ImplementsLifecycle, Lifecycle!Spec

(***************************************************************************)
(* Durability, and the calls that are served                               *)
(***************************************************************************)
\* The handler of a slot does not change until the slot is free again.
LEMMA OpStep ==
  ASSUME TypeOK, NEW r \in Requests, Serve(r)
  PROVE  \/ req'[r].op = req[r].op
         \/ req'[r].op = "none"
         \/ req'[r].op \in Calls \ {"reset_all"}
         \/ ResetRows(r) /\ "reset_all" \in Calls /\ req'[r].op = "reset_all"
<1>0. req \in [Requests -> RequestStates]
  BY DEF TypeOK, RequestsOK
<1>1. CASE ReceiveChunk(r)
  BY <1>0, <1>1 DEF ReceiveChunk, Goto, Finish, FinishUpload, Idle, RequestStates
<1>2. CASE AbandonUpload(r)
  BY <1>0, <1>2 DEF AbandonUpload, Goto, Finish, FinishUpload, Idle, RequestStates
<1>3. CASE CompleteUpload(r)
  BY <1>0, <1>3 DEF CompleteUpload, Goto, Finish, FinishUpload, Idle, RequestStates
<1>4. CASE BeginCopy(r)
  BY <1>0, <1>4 DEF BeginCopy, Goto, Finish, FinishUpload, Idle, RequestStates
<1>5. CASE CompleteCopy(r)
  BY <1>0, <1>5 DEF CompleteCopy, Goto, Finish, FinishUpload, Idle, RequestStates
<1>6. CASE AbandonBatch(r)
  BY <1>0, <1>6 DEF AbandonBatch, Goto, Finish, FinishUpload, Idle, RequestStates
<1>7. CASE PersistTransfer(r)
  BY <1>0, <1>7 DEF PersistTransfer, Goto, Finish, FinishUpload, Idle, RequestStates
<1>8. CASE PersistFails(r)
  BY <1>0, <1>8 DEF PersistFails, Goto, Finish, FinishUpload, Idle, RequestStates
<1>9. CASE PublishTransfer(r)
  BY <1>0, <1>9 DEF PublishTransfer, Goto, Finish, FinishUpload, Idle, RequestStates
<1>10. CASE ReviewEntry(r)
  BY <1>0, <1>10 DEF ReviewEntry, Goto, Finish, FinishUpload, Idle, RequestStates
<1>11. CASE ReviewRefused(r)
  BY <1>0, <1>11 DEF ReviewRefused, Goto, Finish, FinishUpload, Idle, RequestStates
<1>12. CASE ReviewRow(r)
  BY <1>0, <1>12 DEF ReviewRow, Goto, Finish, FinishUpload, Idle, RequestStates
<1>13. CASE PurgeNext(r)
  BY <1>0, <1>13 DEF PurgeNext, Goto, Finish, FinishUpload, Idle, RequestStates
<1>14. CASE DeleteRow(r)
  BY <1>0, <1>14 DEF DeleteRow, Goto, Finish, FinishUpload, Idle, RequestStates
<1>15. CASE DeleteEntry(r)
  BY <1>0, <1>15 DEF DeleteEntry, Goto, Finish, FinishUpload, Idle, RequestStates
<1>16. CASE DeleteFiles(r)
  BY <1>0, <1>16 DEF DeleteFiles, Goto, Finish, FinishUpload, Idle, RequestStates
<1>17. CASE JoinEntry(r)
  BY <1>0, <1>17 DEF JoinEntry, Goto, Finish, FinishUpload, Idle, RequestStates
<1>18. CASE DeleteDeviceRow(r)
  BY <1>0, <1>18 DEF DeleteDeviceRow, Goto, Finish, FinishUpload, Idle, RequestStates
<1>19. CASE DetachSender(r)
  BY <1>0, <1>19 DEF DetachSender, Goto, Finish, FinishUpload, Idle, RequestStates
<1>20. CASE ForgetDevice(r)
  BY <1>0, <1>20 DEF ForgetDevice, Goto, Finish, FinishUpload, Idle, RequestStates
<1>21. CASE WipeRows(r)
  BY <1>0, <1>21 DEF WipeRows, Goto, Finish, FinishUpload, Idle, RequestStates
<1>22. CASE WipeFiles(r)
  BY <1>0, <1>22 DEF WipeFiles, Goto, Finish, FinishUpload, Idle, RequestStates
<1>23. CASE ResetPeople(r)
  BY <1>0, <1>23 DEF ResetPeople, Goto, Finish, FinishUpload, Idle, RequestStates
<1>24. CASE DatabaseFails(r)
  BY <1>0, <1>24 DEF DatabaseFails, Goto, Finish, FinishUpload, Idle, RequestStates
<1>25. CASE Disconnect(r)
  BY <1>0, <1>25 DEF Disconnect, Goto, Finish, FinishUpload, Idle, RequestStates
<1>26. CASE BeginUpload(r)
  BY <1>0, <1>26 DEF BeginUpload, Admits, Idle
<1>27. CASE CheckBatch(r)
  BY <1>0, <1>27 DEF CheckBatch, Admits, Idle
<1>28. CASE CallReview(r)
  BY <1>0, <1>28 DEF CallReview, Admits, Idle
<1>29. CASE DeleteLookup(r)
  BY <1>0, <1>29 DEF DeleteLookup, Admits, Idle
<1>30. CASE BeginRemoval(r)
  BY <1>0, <1>30 DEF BeginRemoval, Admits, Idle
<1>31. CASE JoinRow(r)
  <2>1. \/ req' = req
        \/ \E d \in Devices : req' = [req EXCEPT ![r] =
              [Idle EXCEPT !.op = "join", !.pc = "join_entry", !.peer = d]]
    BY <1>31 DEF JoinRow
  <2>2. "join" \in Calls
    BY <1>31 DEF JoinRow
  <2> QED BY <1>0, <2>1, <2>2 DEF Idle
<1>32. CASE DrainEntries(r)
  <2>1. \/ /\ "clear" \in Calls
           /\ req' = [req EXCEPT ![r] =
                [Idle EXCEPT !.op = "clear", !.pc = "wipe_rows", !.todo = Listed]]
        \/ req' = [req EXCEPT ![r].pc = "reset_people", ![r].todo = Listed]
    BY <1>32 DEF DrainEntries, Admits
  <2>2. CASE "clear" \in Calls /\ req' = [req EXCEPT ![r] =
                [Idle EXCEPT !.op = "clear", !.pc = "wipe_rows", !.todo = Listed]]
    BY <1>0, <2>2 DEF Idle
  <2>3. CASE req' = [req EXCEPT ![r].pc = "reset_people", ![r].todo = Listed]
    BY <1>0, <2>3 DEF RequestStates
  <2> QED BY <2>1, <2>2, <2>3
<1>33. CASE ResetRows(r)
  BY <1>0, <1>33 DEF ResetRows, Admits, Idle
<1> QED
  BY <1>1, <1>2, <1>3, <1>4, <1>5, <1>6, <1>7, <1>8, <1>9, <1>10, <1>11, <1>12, <1>13, <1>14, <1>15, <1>16, <1>17, <1>18, <1>19, <1>20, <1>21, <1>22, <1>23, <1>24, <1>25, <1>26, <1>27, <1>28, <1>29, <1>30, <1>31, <1>32, <1>33
  DEF Serve, Start, Proceed

\* How a deletion comes to its second step.
LEMMA DeleteEntryArrival ==
  ASSUME TypeOK, NEW r \in Requests, Serve(r), req'[r].pc = "delete_entry"
  PROVE  DeleteRow(r)
<1>0. req \in [Requests -> RequestStates]
  BY DEF TypeOK, RequestsOK
<1> USE <1>0
\* The handler ends.
<1>1. CASE \/ AbandonUpload(r) \/ AbandonBatch(r) \/ PersistFails(r) \/ ReviewRefused(r)
           \/ ReviewRow(r) \/ JoinEntry(r) \/ ForgetDevice(r) \/ WipeFiles(r)
           \/ DatabaseFails(r) \/ Disconnect(r)
  BY <1>1 DEF AbandonUpload, AbandonBatch, PersistFails, ReviewRefused, ReviewRow,
    JoinEntry, ForgetDevice, WipeFiles, DatabaseFails, Disconnect, Finish, FinishUpload,
    Idle
\* It begins.
<1>2. CASE \/ BeginUpload(r) \/ CheckBatch(r) \/ CallReview(r) \/ DeleteLookup(r)
           \/ BeginRemoval(r) \/ ResetRows(r)
  BY ZenonT(60), <1>2 DEF BeginUpload, CheckBatch, CallReview, DeleteLookup, BeginRemoval,
    ResetRows, Idle
<1>3. CASE JoinRow(r)
  <2>1. \/ req' = req /\ req[r].pc = "idle"
        \/ \E d \in Devices : req' = [req EXCEPT ![r] =
              [Idle EXCEPT !.op = "join", !.pc = "join_entry", !.peer = d]]
    BY <1>3 DEF JoinRow, At
  <2> QED BY <2>1 DEF Idle
<1>4. CASE DrainEntries(r)
  <2>1. CASE req' = [req EXCEPT ![r] =
              [Idle EXCEPT !.op = "clear", !.pc = "wipe_rows", !.todo = Listed]]
    BY <2>1 DEF Idle
  <2>2. CASE req' = [req EXCEPT ![r].pc = "reset_people", ![r].todo = Listed]
    BY <2>2 DEF RequestStates
  <2> QED BY <1>4, <2>1, <2>2 DEF DrainEntries
\* It goes on to another step.
<1>5. CASE \/ CompleteCopy(r) \/ PersistTransfer(r) \/ DeleteEntry(r) \/ DeleteDeviceRow(r)
           \/ DetachSender(r) \/ WipeRows(r) \/ ResetPeople(r)
  BY <1>5 DEF CompleteCopy, PersistTransfer, DeleteEntry, DeleteDeviceRow, DetachSender,
    WipeRows, ResetPeople, Goto, RequestStates
<1>6. CASE PublishTransfer(r) \/ DeleteFiles(r)
  BY <1>6 DEF PublishTransfer, DeleteFiles, Goto, Finish, FinishUpload, Idle, RequestStates
<1>7. CASE ReceiveChunk(r) \/ CompleteUpload(r)
  BY ZenonT(60), <1>7 DEF ReceiveChunk, CompleteUpload, At, RequestStates
<1>8. CASE BeginCopy(r)
  BY <1>8 DEF BeginCopy, RequestStates
<1>9. CASE ReviewEntry(r)
  BY <1>9 DEF ReviewEntry, RequestStates
<1>10. CASE PurgeNext(r)
  BY <1>10 DEF PurgeNext, RequestStates
<1> QED
  BY <1>1, <1>2, <1>3, <1>4, <1>5, <1>6, <1>7, <1>8, <1>9, <1>10 DEF Serve, Start, Proceed

ServedCalls == \A r \in Requests : req[r].op \in Calls \cup {"none"}

LEMMA ServedCallsInvariant == Spec => []ServedCalls
<1>1. Init => ServedCalls
  BY DEF Init, ServedCalls, Idle
<1>2. TypeOK /\ ServedCalls /\ [Next]_vars => ServedCalls'
  <2> SUFFICES ASSUME TypeOK, ServedCalls, [Next]_vars, NEW r \in Requests
               PROVE  req'[r].op \in Calls \cup {"none"}
    BY DEF ServedCalls
  <2>1. CASE req'[r] = req[r]
    BY <2>1 DEF ServedCalls
  <2>2. CASE Serve(r)
    BY <2>2, OpStep DEF ServedCalls
  <2>3. CASE Restart
    BY <2>3 DEF Restart, Idle
  <2> QED BY <2>1, <2>2, <2>3, SlotCause
<1> QED BY <1>1, <1>2, TypeCorrect, PTL DEF Spec

\* The hub is not asked both to take devices in and to reset everything.  A
\* device that joins between the emptying of the tables and of the map may
\* upload, and the reset then removes the file of its transfer and keeps the
\* row: the theorems of this part stop at that point.
JoinsOrResets == "join" \notin Calls \/ "reset_all" \notin Calls

\* A reset that is under way has left no row for an upload to refer to.
ResetsLeaveNothing ==
  \A r \in Requests : req[r].op = "reset_all" =>
    deviceRows = {} /\ \A t \in Transfers : ~Present(rows[t])

\* Files are removed after the row.
RowsGoFirst ==
  \A r \in Requests :
    /\ req[r].pc \in {"delete_entry", "delete_files"} => ~Present(rows[req[r].id])
    /\ req[r].pc = "wipe_files" => \A t \in req[r].todo : ~Present(rows[t])

SweptAreExpired == sweep.ids \subseteq expired

DeletedAreDrawn ==
  /\ deleted \subseteq drawn
  /\ \A r \in Requests : req[r].pc \in Copying => req[r].id \notin deleted

DurableInv ==
  /\ ResetsLeaveNothing
  /\ RowsGoFirst
  /\ SweptAreExpired
  /\ DeletedAreDrawn
  /\ LiveRowHasFile
  /\ DeletionIsPermanent

LEMMA DeviceRowsStep ==
  ASSUME [Next]_vars, \A r \in Requests : ~JoinRow(r)
  PROVE  deviceRows' \subseteq deviceRows
BY ZenonT(60) DEF Next, vars, people, Sweep, SweepEntries, SweepRows, SweepFiles, Expire, Restart,
  Serve, Start, Proceed, BeginUpload, CheckBatch, CallReview, DeleteLookup,
  BeginRemoval, DrainEntries, ResetRows, ReceiveChunk, CompleteUpload, AbandonUpload,
  BeginCopy, CompleteCopy, AbandonBatch, PersistTransfer, PersistFails,
  PublishTransfer, ReviewEntry, ReviewRefused, ReviewRow, PurgeNext, DeleteRow,
  DeleteEntry, DeleteFiles, JoinEntry, DeleteDeviceRow, DetachSender, ForgetDevice,
  WipeRows, WipeFiles, ResetPeople, DatabaseFails, Disconnect

LEMMA ResetsLeaveNothingStep ==
  ASSUME JoinsOrResets, TypeOK, ServedCalls, ResetsLeaveNothing, [Next]_vars
  PROVE  ResetsLeaveNothing'
<1> SUFFICES ASSUME NEW r \in Requests, req'[r].op = "reset_all"
             PROVE  deviceRows' = {} /\ \A t \in Transfers : ~Present(rows'[t])
  BY DEF ResetsLeaveNothing
<1>1. CASE ResetRows(r)
  BY <1>1 DEF ResetRows, Present, Absent
<1>2. CASE ~ResetRows(r)
  <2>1. req[r].op = "reset_all"
    BY <1>2, SlotCause, OpStep DEF Restart, Idle
  <2>2. /\ "join" \notin Calls /\ deviceRows = {}
        /\ \A t \in Transfers : ~Present(rows[t])
    BY <2>1 DEF ServedCalls, JoinsOrResets, ResetsLeaveNothing
  <2>3. \A s \in Requests : ~JoinRow(s) /\ ~PersistTransfer(s)
    BY <2>2 DEF JoinRow, PersistTransfer, ReferencesHold
  <2>4. deviceRows' = {}
    BY <2>2, <2>3, DeviceRowsStep
  <2> QED BY <2>2, <2>3, <2>4, RowsStep
<1> QED BY <1>1, <1>2

LEMMA RowsGoFirstStep ==
  ASSUME StoreInv, ResetsLeaveNothing, RowsGoFirst, [Next]_vars
  PROVE  RowsGoFirst'
<1>0. /\ TypeOK /\ req \in [Requests -> RequestStates]
      /\ \A r \in Requests : WellPlaced(req[r]) /\ req[r].todo \subseteq Transfers
      /\ rows \in [Transfers -> Entries \cup {Absent}]
  BY DEF StoreInv, TypeOK, StoreOK, RequestsOK, RequestStates
\* Nothing that is about to be deleted gets a row.
<1>1. ASSUME NEW r \in Requests, NEW t \in Transfers, t \in InHand(r), ~Present(rows[t])
      PROVE  ~Present(rows'[t])
  <2>1. \A s \in Requests : PersistTransfer(s) => req[s].id # t
    BY <1>1 DEF StoreInv, UploadsAreFresh, PersistTransfer, At, Copying
  <2> QED BY <1>0, <1>1, <2>1, RowsStep
<1>2. ASSUME NEW r \in Requests, req'[r].pc \in {"delete_entry", "delete_files"}
      PROVE  ~Present(rows'[req'[r].id])
  <2>1. CASE req'[r] = req[r]
    <3>1. /\ req[r].id \in Transfers /\ req[r].id \in InHand(r)
          /\ ~Present(rows[req[r].id])
      BY <1>0, <1>2, <2>1 DEF WellPlaced, InHand, Deleting, RowsGoFirst
    <3> QED BY <1>1, <2>1, <3>1
  <2>2. CASE DeleteRow(r)
    <3>1. req'[r].id = req[r].id /\ req[r].id \in Transfers
      BY <1>0, <2>2 DEF DeleteRow, Goto, At, WellPlaced, Deleting, RequestStates
    <3> QED BY <1>0, <2>2, <3>1 DEF DeleteRow, Present, Absent
  <2>3. CASE DeleteEntry(r)
    <3>1. req'[r].id = req[r].id /\ rows' = rows /\ req[r].pc = "delete_entry"
      BY <1>0, <2>3 DEF DeleteEntry, Goto, At, RequestStates
    <3> QED BY <3>1 DEF RowsGoFirst
  <2>4. ~Restart
    BY <1>2 DEF Restart, Idle
  <2> QED BY <1>0, <1>2, <2>1, <2>2, <2>3, <2>4, SlotCause, ArrivalStep, DeleteEntryArrival
<1>3. ASSUME NEW r \in Requests, req'[r].pc = "wipe_files", NEW t \in req'[r].todo
      PROVE  ~Present(rows'[t])
  <2>1. CASE req'[r] = req[r]
    <3>1. t \in Transfers /\ t \in InHand(r) /\ ~Present(rows[t])
      BY <1>0, <1>3, <2>1 DEF InHand, RowsGoFirst
    <3> QED BY <1>1, <3>1
  <2>2. CASE WipeRows(r) \/ ResetPeople(r)
    <3>1. req'[r].todo = req[r].todo
      BY <1>0, <2>2 DEF WipeRows, ResetPeople, Goto, RequestStates
    <3>2. t \in Transfers
      BY <1>0, <1>3, <3>1
    <3>3. CASE WipeRows(r)
      BY <3>2, <3>3 DEF WipeRows, Present, Absent
    <3>4. CASE ResetPeople(r)
      <4>1. req[r].op = "reset_all" /\ rows' = rows
        BY <1>0, <3>4, Placement DEF ResetPeople, At, store
      <4> QED BY <3>2, <4>1 DEF ResetsLeaveNothing
    <3> QED BY <2>2, <3>3, <3>4
  <2>3. ~Restart
    BY <1>3 DEF Restart, Idle
  <2> QED BY <1>0, <1>3, <2>1, <2>2, <2>3, SlotCause, ArrivalStep
<1> QED BY <1>2, <1>3 DEF RowsGoFirst

LEMMA SweptAreExpiredStep ==
  ASSUME TypeOK, SweptAreExpired, [Next]_vars
  PROVE  SweptAreExpired'
<1>1. expired \subseteq expired'
  BY ExpiredStep
<1>2. CASE sweep' = sweep
  BY <1>1, <1>2 DEF SweptAreExpired
<1>3. CASE Sweep \/ Restart
  BY <1>3 DEF TypeOK, SweptAreExpired, Sweep, SweepEntries, SweepRows, SweepFiles,
    Restart, Resting
<1> QED
  BY ZenonT(60), <1>2, <1>3 DEF Next, vars, Expire, Serve, Start, Proceed, BeginUpload, CheckBatch,
    CallReview, DeleteLookup, JoinRow, BeginRemoval, DrainEntries, ResetRows,
    ReceiveChunk, CompleteUpload, AbandonUpload, BeginCopy, CompleteCopy, AbandonBatch,
    PersistTransfer, PersistFails, PublishTransfer, ReviewEntry, ReviewRefused,
    ReviewRow, PurgeNext, DeleteRow, DeleteEntry, DeleteFiles, JoinEntry,
    DeleteDeviceRow, DetachSender, ForgetDevice, WipeRows, WipeFiles, ResetPeople,
    DatabaseFails, Disconnect

\* A deletion is acknowledged when the files go.
LEMMA DeletedStep ==
  ASSUME TypeOK, [Next]_vars, NEW t \in deleted'
  PROVE  \/ t \in deleted
         \/ /\ t \in Transfers /\ dirs'[t] = "none" /\ UNCHANGED <<memory, rows>>
            /\ \E r \in Requests :
                 \/ req[r].pc = "delete_files" /\ t = req[r].id
                 \/ req[r].pc = "wipe_files" /\ t \in req[r].todo
<1>0. /\ dirs \in [Transfers -> {"none", "partial", "complete"}]
      /\ \A r \in Requests : /\ req[r].pc \in Deleting => req[r].id \in Transfers
                             /\ req[r].todo \subseteq Transfers
  BY DEF TypeOK, StoreOK, RequestsOK, RequestStates, WellPlaced
<1>1. CASE deleted' = deleted
  BY <1>1
<1>2. CASE \E r \in Requests : DeleteFiles(r)
  <2> PICK r \in Requests : DeleteFiles(r)
    BY <1>2
  <2>1. req[r].pc = "delete_files" /\ req[r].id \in Transfers
    BY <1>0 DEF DeleteFiles, At, Deleting
  <2>2. dirs'[req[r].id] = "none" /\ UNCHANGED <<memory, rows>>
    BY <1>0, <2>1 DEF DeleteFiles
  <2>3. t \in deleted \/ t = req[r].id
    BY DEF DeleteFiles
  <2> QED BY <2>1, <2>2, <2>3
<1>3. CASE \E r \in Requests : WipeFiles(r)
  BY <1>0, <1>3 DEF WipeFiles, At
<1> QED
  BY ZenonT(60), <1>1, <1>2, <1>3 DEF Next, vars, Sweep, SweepEntries, SweepRows, SweepFiles, Expire,
    Restart, Serve, Start, Proceed, BeginUpload, CheckBatch, CallReview, DeleteLookup,
    JoinRow, BeginRemoval, DrainEntries, ResetRows, ReceiveChunk, CompleteUpload,
    AbandonUpload, BeginCopy, CompleteCopy, AbandonBatch, PersistTransfer, PersistFails,
    PublishTransfer, ReviewEntry, ReviewRefused, ReviewRow, PurgeNext, DeleteRow,
    DeleteEntry, JoinEntry, DeleteDeviceRow, DetachSender, ForgetDevice, WipeRows,
    ResetPeople, DatabaseFails, Disconnect

LEMMA DeletedAreDrawnStep ==
  ASSUME StoreInv, DeletedAreDrawn, [Next]_vars
  PROVE  DeletedAreDrawn'
<1>0. TypeOK /\ drawn \subseteq drawn' /\ req \in [Requests -> RequestStates]
  BY SweepStep DEF StoreInv, TypeOK, RequestsOK
\* What is in somebody's hand to be deleted is drawn, and nobody uploads it.
<1>1. ASSUME NEW t \in deleted', t \notin deleted
      PROVE  t \in drawn /\ \A r \in Requests : req[r].pc \in Copying => req[r].id # t
  <2>1. t \in Transfers /\ \E r \in Requests : t \in InHand(r)
    BY <1>0, <1>1, DeletedStep DEF InHand, Deleting
  <2> QED BY <2>1 DEF StoreInv, KnownAreDrawn, UploadsAreFresh
<1>2. deleted' \subseteq drawn
  BY <1>1 DEF DeletedAreDrawn
<1>3. ASSUME NEW r \in Requests, req'[r].pc \in Copying PROVE req'[r].id \notin deleted'
  <2>1. CASE BeginUpload(r)
    BY <1>0, <1>2, <2>1 DEF BeginUpload, Idle
  <2>2. CASE BeginCopy(r)
    <3>1. PICK u \in Transfers \ drawn :
              req' = [req EXCEPT ![r].pc = "writing", ![r].id = u,
                           ![r].size = Head(req[r].batch),
                           ![r].batch = Tail(req[r].batch)]
      BY <2>2 DEF BeginCopy
    <3>2. req'[r].id = u
      BY <1>0, <3>1 DEF RequestStates
    <3> QED BY <1>2, <3>1, <3>2
  <2>3. CASE ~BeginUpload(r) /\ ~BeginCopy(r)
    <3>1. req[r].pc \in Copying /\ req'[r].id = req[r].id
      BY <1>0, <1>3, <2>3, CopyingStep
    <3> QED BY <1>1, <3>1 DEF DeletedAreDrawn
  <2> QED BY <2>1, <2>2, <2>3
<1> QED BY <1>0, <1>2, <1>3 DEF DeletedAreDrawn

LEMMA LiveRowHasFileStep ==
  ASSUME StoreInv, RowsGoFirst, SweptAreExpired, LiveRowHasFile, [Next]_vars
  PROVE  LiveRowHasFile'
<1> SUFFICES ASSUME NEW t \in Transfers, t \notin expired', Present(rows'[t])
             PROVE  dirs'[t] = "complete"
  BY DEF LiveRowHasFile
<1>0. TypeOK /\ t \notin expired
  BY ExpiredStep DEF StoreInv
<1>1. CASE \E r \in Requests : PersistTransfer(r) /\ req[r].id = t
  BY <1>1 DEF StoreInv, PersistTransfer, UploadsAreFresh, At, Copying
<1>2. CASE Present(rows[t])
  <2>1. dirs[t] = "complete" /\ t \in drawn /\ t \notin sweep.ids
    BY <1>0, <1>2 DEF LiveRowHasFile, StoreInv, KnownAreDrawn, SweptAreExpired
  <2>2. \A r \in Requests :
          /\ req[r].pc \in {"writing", "persist"} => req[r].id # t
          /\ req[r].pc = "delete_files" => req[r].id # t
          /\ req[r].pc = "wipe_files" => t \notin req[r].todo
    BY <1>2 DEF StoreInv, UploadsAreFresh, RowsGoFirst, Copying
  <2>3. Restart => t \in Recoverable
    BY DEF Restart, Present, Absent
  <2> QED BY <1>0, <2>1, <2>2, <2>3, DirsStep
<1> QED BY <1>0, <1>1, <1>2, RowsStep

LEMMA DeletionIsPermanentStep ==
  ASSUME StoreInv, RowsGoFirst, DeletedAreDrawn, DeletionIsPermanent, [Next]_vars
  PROVE  DeletionIsPermanent'
<1> SUFFICES ASSUME NEW t \in deleted'
             PROVE  ~Present(memory'[t]) /\ ~Present(rows'[t]) /\ dirs'[t] = "none"
  BY DEF DeletionIsPermanent
<1>0. TypeOK /\ deleted \subseteq Transfers
  BY DEF StoreInv, TypeOK
<1>1. CASE t \in deleted
  <2>1. /\ ~Present(memory[t]) /\ ~Present(rows[t]) /\ dirs[t] = "none"
        /\ t \in drawn /\ t \in Transfers
    BY <1>0, <1>1 DEF DeletionIsPermanent, DeletedAreDrawn
  <2>2. \A r \in Requests : req[r].pc \in Copying => req[r].id # t
    BY <1>1 DEF DeletedAreDrawn
  <2>3. ~Present(memory'[t])
    BY <1>0, <2>1, <2>2, EntriesStep DEF Recoverable, PublishTransfer, At, Copying
  <2>4. ~Present(rows'[t])
    BY <1>0, <2>1, <2>2, RowsStep DEF PersistTransfer, At, Copying
  <2>5. dirs'[t] = "none"
    BY <1>0, <2>1, <2>2, DirsStep DEF Copying
  <2> QED BY <2>3, <2>4, <2>5
<1>2. CASE t \notin deleted
  <2>1. /\ dirs'[t] = "none" /\ UNCHANGED <<memory, rows>>
        /\ \E r \in Requests :
             \/ req[r].pc = "delete_files" /\ t = req[r].id
             \/ req[r].pc = "wipe_files" /\ t \in req[r].todo
    BY <1>0, <1>2, DeletedStep
  <2> QED BY <2>1 DEF StoreInv, EntriesGoFirst, RowsGoFirst
<1> QED BY <1>1, <1>2

LEMMA DurableInvInit == Init => DurableInv
BY DEF Init, DurableInv, ResetsLeaveNothing, RowsGoFirst, SweptAreExpired, Resting,
  DeletedAreDrawn, LiveRowHasFile, DeletionIsPermanent, Idle, Copying, Present, Absent

LEMMA DurableInvNext ==
  ASSUME JoinsOrResets
  PROVE  StoreInv /\ ServedCalls /\ DurableInv /\ [Next]_vars => DurableInv'
<1> SUFFICES ASSUME StoreInv, ServedCalls, DurableInv, [Next]_vars PROVE DurableInv'
  OBVIOUS
<1>1. TypeOK
  BY DEF StoreInv
<1>2. ResetsLeaveNothing' /\ RowsGoFirst' /\ SweptAreExpired'
  BY <1>1, ResetsLeaveNothingStep, RowsGoFirstStep, SweptAreExpiredStep DEF DurableInv
<1>3. DeletedAreDrawn' /\ LiveRowHasFile' /\ DeletionIsPermanent'
  BY DeletedAreDrawnStep, LiveRowHasFileStep, DeletionIsPermanentStep DEF DurableInv
<1> QED BY <1>2, <1>3 DEF DurableInv

LEMMA DurableInvariant ==
  ASSUME JoinsOrResets
  PROVE  Spec => []DurableInv
BY DurableInvInit, DurableInvNext, StoreInvariant, ServedCallsInvariant, PTL DEF Spec

\* An unexpired row always has its file, whatever fails and wherever the process
\* dies: a restart never finds metadata whose file is missing.  Proved for every
\* mix of calls that does not combine joins with a full reset.
THEOREM LiveRowsHaveFiles ==
  ASSUME JoinsOrResets
  PROVE  Spec => []LiveRowHasFile
BY DurableInvariant, PTL DEF DurableInv

\* What was deleted with an acknowledgement never comes back, neither entry, nor
\* row, nor files, restarts included (delete_transfer, delete_all_transfers,
\* reset_desktop_data), for the same mixes of calls.
THEOREM DeletionsArePermanent ==
  ASSUME JoinsOrResets
  PROVE  Spec => []DeletionIsPermanent
BY DurableInvariant, PTL DEF DurableInv

(***************************************************************************)
(* Who may see a transfer                                                  *)
(***************************************************************************)
\* No device leaves, and no start resets the host.  (The run store_widening shows
\* what happens when the recipient of a transfer does: a restart opens it to
\* everyone.)
NobodyLeaves ==
  Calls \cap {"remove", "reset_host", "reset_all"} = {} /\ "hostless" \notin Faults

SameParties(e, f) == e.sender = f.sender /\ e.target = f.target

HostStays == host = FirstHost /\ hostRow = FirstHost

\* The row and the entry name the same sender and target.
CopiesAgree ==
  /\ \A t \in Transfers :
       Present(memory[t]) /\ Present(rows[t]) => SameParties(memory[t], rows[t])
  /\ \A r \in Requests : At(r, "publish") /\ Present(rows[req[r].id]) =>
       SameParties(rows[req[r].id], NewEntry(req[r]))

LEMMA StatusOnly ==
  ASSUME NEW e \in Entries, NEW s
  PROVE  /\ SameParties([e EXCEPT !.status = s], e)
         /\ [e EXCEPT !.status = s].status = s
BY DEF Entries, SameParties

LEMMA NobodyLeavesStep ==
  ASSUME NobodyLeaves, TypeOK, ServedCalls, NEW r \in Requests
  PROVE  /\ ~DeleteDeviceRow(r) /\ ~DetachSender(r) /\ ~ForgetDevice(r)
         /\ ~ResetRows(r) /\ ~ResetPeople(r)
<1>1. req[r] \in RequestStates /\ WellPlaced(req[r]) /\ req[r].op \in Calls \cup {"none"}
  BY DEF TypeOK, RequestsOK, ServedCalls
<1> QED BY <1>1, Placement DEF NobodyLeaves, DeleteDeviceRow, DetachSender, ForgetDevice,
    ResetRows, ResetPeople, At, Admits

LEMMA HostStaysStep ==
  ASSUME NobodyLeaves, TypeOK, ServedCalls, HostStays, [Next]_vars
  PROVE  HostStays'
<1>1. CASE UNCHANGED <<host, hostRow>>
  BY <1>1 DEF HostStays
<1>2. CASE \E r \in Requests : JoinRow(r)
  BY <1>2 DEF HostStays, JoinRow
<1>3. CASE Restart
  BY <1>3 DEF HostStays, NobodyLeaves, Restart
<1> QED
  BY ZenonT(60), <1>1, <1>2, <1>3, NobodyLeavesStep DEF Next, vars, people, Sweep, SweepEntries,
    SweepRows, SweepFiles, Expire, Serve, Start, Proceed, BeginUpload, CheckBatch,
    CallReview, DeleteLookup, BeginRemoval, DrainEntries, ReceiveChunk, CompleteUpload,
    AbandonUpload, BeginCopy, CompleteCopy, AbandonBatch, PersistTransfer, PersistFails,
    PublishTransfer, ReviewEntry, ReviewRefused, ReviewRow, PurgeNext, DeleteRow,
    DeleteEntry, DeleteFiles, JoinEntry, WipeRows, WipeFiles, DatabaseFails, Disconnect

LEMMA RowPartiesStep ==
  ASSUME NobodyLeaves, TypeOK, ServedCalls, [Next]_vars, NEW t \in Transfers,
         Present(rows'[t]), \A r \in Requests : PersistTransfer(r) => req[r].id # t
  PROVE  Present(rows[t]) /\ SameParties(rows'[t], rows[t])
<1>0. rows \in [Transfers -> Entries \cup {Absent}] /\ rows'[t] # Absent
  BY DEF TypeOK, StoreOK, Present, Absent
<1>1. CASE rows'[t] = rows[t]
  BY <1>1 DEF SameParties
<1>2. CASE Present(rows[t]) /\ rows'[t] = [rows[t] EXCEPT !.status = memory[t].status]
  <2>1. rows[t] \in Entries
    BY <1>0, <1>2 DEF Present, Absent
  <2> QED BY <1>2, <2>1, StatusOnly
<1> QED BY <1>0, <1>1, <1>2, RowStep, NobodyLeavesStep

LEMMA EntryPartiesStep ==
  ASSUME NobodyLeaves, StoreInv, ServedCalls, CopiesAgree, [Next]_vars,
         NEW t \in Transfers, Present(memory[t]), Present(memory'[t])
  PROVE  SameParties(memory'[t], memory[t])
<1>0. /\ memory \in [Transfers -> Entries \cup {Absent}] /\ memory'[t] # Absent
      /\ rows \in [Transfers -> Entries \cup {Absent}]
      /\ memory[t] \in Entries /\ TypeOK
  BY DEF StoreInv, TypeOK, StoreOK, Present, Absent
<1>1. CASE memory'[t] = memory[t]
  BY <1>1 DEF SameParties
<1>2. ASSUME NEW verdict, memory'[t] = [memory[t] EXCEPT !.status = verdict]
      PROVE  SameParties(memory'[t], memory[t])
  BY <1>0, <1>2, StatusOnly
<1>3. CASE Restart /\ memory'[t] = rows'[t]
  <2>1. rows'[t] = rows[t]
    BY <1>0, <1>3 DEF Restart
  <2> QED BY <1>3, <2>1 DEF CopiesAgree, SameParties
<1>4. \A r \in Requests : PublishTransfer(r) => req[r].id # t
  BY DEF StoreInv, UploadsAreFresh, PublishTransfer, At, Copying
<1> QED BY <1>0, <1>1, <1>2, <1>3, <1>4, EntryStep, NobodyLeavesStep

LEMMA CopiesAgreeStep ==
  ASSUME NobodyLeaves, StoreInv, ServedCalls, CopiesAgree, [Next]_vars
  PROVE  CopiesAgree'
<1>0. /\ TypeOK /\ req \in [Requests -> RequestStates]
      /\ rows \in [Transfers -> Entries \cup {Absent}]
      /\ \A s \in Requests : req[s].pc \in Copying => req[s].id \in Transfers
  BY DEF StoreInv, TypeOK, StoreOK, RequestsOK, WellPlaced
<1>1. ASSUME NEW t \in Transfers, Present(memory'[t]), Present(rows'[t])
      PROVE  SameParties(memory'[t], rows'[t])
  <2>1. CASE Present(memory[t])
    <3>1. \A s \in Requests : PersistTransfer(s) => req[s].id # t
      BY <2>1 DEF StoreInv, UploadsAreFresh, PersistTransfer, At, Copying
    <3>2. Present(rows[t]) /\ SameParties(rows'[t], rows[t])
      BY <1>0, <1>1, <3>1, RowPartiesStep
    <3>3. SameParties(memory'[t], memory[t])
      BY <1>1, <2>1, EntryPartiesStep
    <3> QED BY <2>1, <3>2, <3>3 DEF CopiesAgree, SameParties
  <2>2. CASE Restart
    BY <1>1, <2>2 DEF Restart, SameParties
  <2>3. ASSUME NEW r \in Requests, PublishTransfer(r), req[r].id = t
        PROVE  SameParties(memory'[t], rows'[t])
    <3>1. At(r, "publish") /\ rows' = rows /\ memory'[t] = NewEntry(req[r])
      BY <1>0, <2>3 DEF PublishTransfer, StoreInv, TypeOK, StoreOK
    <3> QED BY <1>1, <2>3, <3>1 DEF CopiesAgree, SameParties
  <2> QED BY <1>0, <1>1, <2>1, <2>2, <2>3, EntriesStep
<1>2. ASSUME NEW r \in Requests, req'[r].pc = "publish", Present(rows'[req'[r].id])
      PROVE  SameParties(rows'[req'[r].id], NewEntry(req'[r]))
  <2>1. CASE PersistTransfer(r) /\ req'[r] = [req[r] EXCEPT !.pc = "publish"]
    <3>1. /\ NewEntry(req'[r]) = NewEntry(req[r]) /\ req'[r].id = req[r].id
          /\ req[r].id \in Transfers
      BY <1>0, <2>1 DEF RequestStates, NewEntry, PersistTransfer, At, Copying
    <3> QED BY <1>0, <2>1, <3>1 DEF PersistTransfer, SameParties
  <2>2. CASE req'[r] = req[r]
    <3> DEFINE t == req[r].id
    <3>1. t \in Transfers /\ At(r, "publish") /\ req'[r].id = t
      BY <1>0, <1>2, <2>2 DEF Copying, At
    <3>2. \A s \in Requests : PersistTransfer(s) => s = r
      BY <3>1 DEF StoreInv, SoleWriter, PersistTransfer, At, Copying
    <3>3. \A s \in Requests : ~PersistTransfer(s)
      BY <3>1, <3>2 DEF PersistTransfer, At
    <3>4. Present(rows[t]) /\ SameParties(rows'[t], rows[t])
      BY <1>0, <1>2, <3>1, <3>3, RowPartiesStep
    <3> QED BY <2>2, <3>1, <3>4 DEF CopiesAgree, SameParties
  <2> QED BY <1>0, <1>2, <2>1, <2>2, PublishArrival
<1> QED BY <1>1, <1>2 DEF CopiesAgree, At

\* As long as nobody leaves and the host stays, whoever may not see a listed
\* transfer is never let in to it later, through reviews, restarts and the reloading of rows
\* (SECURITY.md, transfer_policy.rs can_view).
THEOREM AudiencesNeverWiden ==
  ASSUME NobodyLeaves
  PROVE  Spec => AudienceNeverWidens
<1> DEFINE Inv == HostStays /\ CopiesAgree
<1>1. Init => Inv
  BY DEF Init, HostStays, CopiesAgree, Present, Absent, At, Idle
<1>2. StoreInv /\ ServedCalls /\ Inv /\ [Next]_vars => Inv'
  BY HostStaysStep, CopiesAgreeStep DEF StoreInv
<1>3. StoreInv /\ ServedCalls /\ Inv /\ Inv' /\ [Next]_vars =>
        \A t \in Transfers, d \in Devices :
          (/\ Present(memory[t])
           /\ Present(memory'[t])
           /\ ~CanView(memory[t], d, d = host))
          => ~CanView(memory'[t], d, d = host')
  <2> SUFFICES ASSUME StoreInv, ServedCalls, Inv, Inv', [Next]_vars,
                      NEW t \in Transfers, NEW d \in Devices,
                      Present(memory[t]), Present(memory'[t]),
                      ~CanView(memory[t], d, d = host)
               PROVE  ~CanView(memory'[t], d, d = host')
    OBVIOUS
  <2>1. SameParties(memory'[t], memory[t])
    BY EntryPartiesStep
  <2>2. host' = host
    BY DEF HostStays
  <2> QED BY <2>1, <2>2 DEF SameParties, CanView
<1> QED
  BY <1>1, <1>2, <1>3, StoreInvariant, ServedCallsInvariant, PTL
  DEF Spec, AudienceNeverWidens

(***************************************************************************)
(* Memory and database                                                     *)
(***************************************************************************)
\* Devices upload, review, delete and join one transfer or device at a time,
\* and only the process may fail: a failed database call or a dropped handler
\* leaves the copies apart, and so may an upload during a clearing or a removal.
OneAtATime ==
  /\ Calls \cap {"clear", "remove", "reset_host", "reset_all"} = {}
  /\ Faults \subseteq {"crash"}

\* The steps of a handler between its two writes of a transfer.
HalfDone == {"publish", "review_row", "delete_entry"}

Busy(r, t) == req[r].id = t /\ req[r].pc \in HalfDone

InBetween(t) == \E r \in Requests : Busy(r, t)

Deleted(t) ==
  /\ rows[t] = Absent
  /\ \E r \in Requests : req[r].id = t /\ req[r].pc = "delete_entry"

\* The two copies of a transfer differ by what a handler has yet to write.
Matches(t) ==
  /\ ~InBetween(t) => memory[t] = rows[t]
  /\ \A r \in Requests : req[r].id = t =>
       /\ req[r].pc = "publish" => rows[t] = NewEntry(req[r])
       /\ req[r].pc = "review_row" =>
            rows[t] = [memory[t] EXCEPT !.status = Pending] \/ Deleted(t)
       /\ req[r].pc = "delete_entry" => rows[t] = Absent

CopiesMatch ==
  /\ sweep.due \subseteq expired
  /\ \A t \in Transfers \ expired : Matches(t)

\* The handlers that write a transfer half, and nobody else, are in between.
Halves(r) ==
  \/ PersistTransfer(r) \/ ReviewEntry(r) \/ DeleteRow(r)
  \/ PublishTransfer(r) \/ ReviewRow(r) \/ DeleteEntry(r)

\* The half of a transfer that a handler writes.
HalfStep(r, t) ==
  \/ req[r].id = t /\ (\/ PersistTransfer(r) \/ PublishTransfer(r) \/ ReviewRow(r)
                       \/ DeleteRow(r) \/ DeleteEntry(r))
  \/ req'[r].id = t /\ ReviewEntry(r)

LEMMA HalvesStep ==
  ASSUME OneAtATime, TypeOK, NEW r \in Requests, Serve(r), ~Halves(r)
  PROVE  req[r].pc \notin HalfDone /\ req'[r].pc \notin HalfDone
<1>1. ~Disconnect(r) /\ ~DatabaseFails(r)
  BY DEF OneAtATime, Disconnect, DatabaseFails
<1>2. req[r].pc \notin HalfDone
  BY <1>1 DEF HalfDone, Halves, Serve, Start, Proceed, BeginUpload, CheckBatch,
    CallReview, DeleteLookup, JoinRow, BeginRemoval, DrainEntries, ResetRows,
    ReceiveChunk, CompleteUpload, AbandonUpload, BeginCopy, CompleteCopy, AbandonBatch,
    PersistFails, ReviewRefused, PurgeNext, DeleteFiles, JoinEntry, DeleteDeviceRow,
    DetachSender, ForgetDevice, WipeRows, WipeFiles, ResetPeople, At, Admits
<1>3. req'[r].pc # "review_row"
  BY SlotStep DEF Halves
<1>4. req'[r].pc # "delete_entry"
  BY DeleteEntryArrival DEF Halves
<1>5. req'[r].pc # "publish"
  <2>1. [Next]_vars
    BY DEF Next
  <2> QED BY <1>2, <2>1, PublishArrival DEF Halves, HalfDone
<1> QED BY <1>2, <1>3, <1>4, <1>5 DEF HalfDone

LEMMA DueStep ==
  ASSUME TypeOK, sweep.due \subseteq expired, [Next]_vars
  PROVE  sweep'.due \subseteq expired'
<1>1. expired \subseteq expired'
  BY ExpiredStep
<1>2. CASE sweep' = sweep
  BY <1>1, <1>2
<1>3. CASE Sweep \/ Restart
  BY <1>3 DEF TypeOK, Sweep, SweepEntries, SweepRows, SweepFiles, Restart, Resting
<1> QED
  BY ZenonT(60), <1>2, <1>3 DEF Next, vars, Expire, Serve, Start, Proceed, BeginUpload, CheckBatch,
    CallReview, DeleteLookup, JoinRow, BeginRemoval, DrainEntries, ResetRows,
    ReceiveChunk, CompleteUpload, AbandonUpload, BeginCopy, CompleteCopy, AbandonBatch,
    PersistTransfer, PersistFails, PublishTransfer, ReviewEntry, ReviewRefused,
    ReviewRow, PurgeNext, DeleteRow, DeleteEntry, DeleteFiles, JoinEntry,
    DeleteDeviceRow, DetachSender, ForgetDevice, WipeRows, WipeFiles, ResetPeople,
    DatabaseFails, Disconnect

\* Steps that touch neither copy nor anyone in between.
LEMMA MatchesKept ==
  ASSUME NEW t, Matches(t), memory'[t] = memory[t], rows'[t] = rows[t],
         \A r \in Requests : req'[r] = req[r] \/ (~Busy(r, t) /\ ~Busy(r, t)')
  PROVE  Matches(t)'
<1>1. InBetween(t)' <=> InBetween(t)
  BY DEF InBetween, Busy
<1>2. Deleted(t) => Deleted(t)'
  BY DEF Deleted, Busy, HalfDone
<1>3. ASSUME NEW r \in Requests, req'[r].id = t, req'[r].pc \in HalfDone
      PROVE  req'[r] = req[r]
  BY <1>3 DEF Busy
<1> QED BY <1>1, <1>2, <1>3 DEF Matches, HalfDone

\* Nobody else has an upload's transfer half written.
LEMMA UploadIsAlone ==
  ASSUME StoreInv, NEW r \in Requests, req[r].pc \in Copying,
         NEW s \in Requests \ {r}
  PROVE  ~Busy(s, req[r].id)
<1>1. req[s].pc # "publish"
  BY DEF StoreInv, SoleWriter, Copying
<1>2. req[s].pc = "review_row" => req[s].id # req[r].id
  BY DEF StoreInv, ReviewLocksMap, UploadsAreFresh, At
<1>3. req[s].pc = "delete_entry" => req[s].id # req[r].id
  BY DEF StoreInv, UploadsAreFresh, InHand, Deleting
<1> QED BY <1>1, <1>2, <1>3 DEF Busy, HalfDone

\* Only the halves of an upload, a review or a deletion, and a restart, write
\* a copy of a transfer that has not expired.
LEMMA UnsharedStep ==
  ASSUME OneAtATime, TypeOK, ServedCalls, sweep.due \subseteq expired, [Next]_vars,
         NEW t \in Transfers \ expired, ~Restart,
         \A r \in Requests : ~HalfStep(r, t)
  PROVE  memory'[t] = memory[t] /\ rows'[t] = rows[t]
<1>1. \A r \in Requests : req[r] \in RequestStates /\ WellPlaced(req[r])
                           /\ req[r].op \in Calls \cup {"none"}
  BY DEF TypeOK, RequestsOK, ServedCalls
<1>2. \A r \in Requests : /\ req[r].pc \notin {"purge", "detach", "forget", "wipe_rows"}
                           /\ req[r].pc \notin {"reset_entries", "reset_people"}
  BY <1>1, Placement DEF OneAtATime
<1>3. \A r \in Requests : ~DrainEntries(r) /\ ~DetachSender(r)
  BY <1>2 DEF DrainEntries, DetachSender, OneAtATime, At, Admits
<1>4. \A r \in Requests : ~WipeRows(r) /\ ~ResetRows(r) /\ ~DeleteDeviceRow(r)
  BY <1>2 DEF WipeRows, ResetRows, DeleteDeviceRow, OneAtATime, At, Admits
<1>5. memory'[t] = memory[t]
  BY <1>3, EntryStep DEF HalfStep
<1>6. rows'[t] = rows[t]
  BY <1>4, RowStep DEF HalfStep
<1> QED BY <1>5, <1>6

LEMMA MatchesPersist ==
  ASSUME StoreInv, NEW r \in Requests, PersistTransfer(r), NEW t, t = req[r].id
  PROVE  Matches(t)'
<1>0. /\ req \in [Requests -> RequestStates] /\ t \in Transfers
      /\ rows \in [Transfers -> Entries \cup {Absent}]
      /\ req[r].pc \in Copying
  BY DEF StoreInv, TypeOK, StoreOK, RequestsOK, WellPlaced, PersistTransfer, At, Copying
<1>1. /\ req'[r] = [req[r] EXCEPT !.pc = "publish"]
      /\ \A s \in Requests \ {r} : req'[s] = req[s]
      /\ rows'[t] = NewEntry(req[r])
  BY <1>0 DEF PersistTransfer, Goto
<1>2. req'[r].pc = "publish" /\ req'[r].id = t /\ NewEntry(req'[r]) = NewEntry(req[r])
  BY <1>0, <1>1 DEF RequestStates, NewEntry
<1>3. \A s \in Requests \ {r} : ~Busy(s, t)'
  BY <1>0, <1>1, UploadIsAlone DEF Busy
<1>4. InBetween(t)'
  BY <1>2 DEF InBetween, Busy, HalfDone
<1>5. ASSUME NEW s \in Requests, req'[s].id = t
      PROVE  /\ req'[s].pc = "publish" => rows'[t] = NewEntry(req'[s])
             /\ req'[s].pc # "review_row" /\ req'[s].pc # "delete_entry"
  BY <1>1, <1>2, <1>3, <1>5 DEF Busy, HalfDone
<1> QED BY <1>4, <1>5 DEF Matches

LEMMA MatchesPublish ==
  ASSUME StoreInv, NEW r \in Requests, PublishTransfer(r), NEW t, t = req[r].id,
         Matches(t)
  PROVE  Matches(t)'
<1>0. /\ req \in [Requests -> RequestStates] /\ t \in Transfers
      /\ memory \in [Transfers -> Entries \cup {Absent}]
      /\ req[r].pc \in Copying
  BY DEF StoreInv, TypeOK, StoreOK, RequestsOK, WellPlaced, PublishTransfer, At, Copying
<1>1. /\ memory'[t] = NewEntry(req[r]) /\ rows' = rows
      /\ rows[t] = NewEntry(req[r])
      /\ \A s \in Requests \ {r} : req'[s] = req[s]
  BY <1>0 DEF PublishTransfer, Matches, At, FinishUpload, Finish, Goto
<1>2. req'[r].pc \notin HalfDone
  BY <1>0 DEF PublishTransfer, FinishUpload, Finish, Goto, Idle, HalfDone, RequestStates
<1>3. \A s \in Requests : ~Busy(s, t)'
  BY <1>0, <1>1, <1>2, UploadIsAlone DEF Busy
<1> QED BY <1>1, <1>3 DEF Matches, InBetween, Busy, HalfDone

\* A review takes up a transfer whose row says what its entry says, unless a
\* deletion has taken the row away.
LEMMA MatchesReviewEntry ==
  ASSUME StoreInv, NEW r \in Requests, ReviewEntry(r), NEW t \in Transfers,
         t = req'[r].id, Matches(t)
  PROVE  Matches(t)'
<1>0. /\ req \in [Requests -> RequestStates]
      /\ memory \in [Transfers -> Entries \cup {Absent}]
  BY DEF StoreInv, TypeOK, StoreOK, RequestsOK
<1>1. PICK u \in Transfers, verdict \in {Accepted, Rejected} :
         /\ CanReview(memory[u], req[r].dev, u \in expired)
         /\ memory' = [memory EXCEPT ![u].status = verdict]
         /\ req' = [req EXCEPT ![r].pc = "review_row", ![r].id = u]
  BY DEF ReviewEntry
<1>2. u = t /\ req'[r].pc = "review_row"
  BY <1>0, <1>1 DEF RequestStates
<1>3. memory[t] \in Entries /\ memory[t].status = Pending
  BY <1>0, <1>1, <1>2 DEF CanReview, Pending, Absent
<1>4. memory[t] = [memory'[t] EXCEPT !.status = Pending]
  BY <1>0, <1>1, <1>2, <1>3 DEF Entries
<1>5. rows' = rows /\ \A s \in Requests \ {r} : req'[s] = req[s]
  BY <1>0, <1>1 DEF ReviewEntry
<1>6. \A s \in Requests : req[s].pc # "review_row"
  BY DEF StoreInv, ReviewLocksMap, ReviewEntry, MapFree, At
<1>7. \A s \in Requests : req[s].pc = "publish" => req[s].id # t
  BY <1>3 DEF StoreInv, UploadsAreFresh, Copying, Present, Pending
<1>8. CASE Busy(r, t)
  BY <1>8 DEF Busy, HalfDone, ReviewEntry, At
<1>9. CASE \E s \in Requests \ {r} : Busy(s, t)
  <2>1. PICK s \in Requests \ {r} : Busy(s, t)
    BY <1>9
  <2>2. req[s].pc = "delete_entry" /\ req[s].id = t
    BY <1>6, <1>7, <2>1 DEF Busy, HalfDone
  <2>3. Deleted(t)'
    BY <1>5, <2>2 DEF Deleted, Matches
  <2> QED BY <1>2, <1>5, <1>6, <1>7, <2>3 DEF Matches, InBetween, Busy, HalfDone, Deleted
<1>10. CASE ~InBetween(t)
  <2>1. rows'[t] = [memory'[t] EXCEPT !.status = Pending]
    BY <1>4, <1>5, <1>10 DEF Matches
  <2> QED BY <1>2, <1>5, <1>10, <2>1 DEF Matches, InBetween, Busy, HalfDone
<1> QED BY <1>8, <1>9, <1>10 DEF InBetween

LEMMA MatchesReviewRow ==
  ASSUME StoreInv, LifecycleInv, NEW r \in Requests, ReviewRow(r), NEW t,
         t = req[r].id, Matches(t)
  PROVE  Matches(t)'
<1>0. /\ req \in [Requests -> RequestStates] /\ t \in Transfers
      /\ memory \in [Transfers -> Entries \cup {Absent}]
      /\ rows \in [Transfers -> Entries \cup {Absent}]
      /\ req[r].pc = "review_row"
  BY DEF StoreInv, TypeOK, StoreOK, RequestsOK, WellPlaced, ReviewRow, At
<1>1. Present(memory[t]) /\ memory[t] \in Entries
  BY <1>0 DEF StoreInv, ReviewLocksMap, At, Present, Absent
<1>2. /\ memory' = memory
      /\ req'[r] = Idle /\ \A s \in Requests \ {r} : req'[s] = req[s]
  BY <1>0 DEF ReviewRow, Finish
<1>3. \A s \in Requests : req[s].id = t => req[s].pc # "publish"
  BY <1>1 DEF StoreInv, UploadsAreFresh, Copying
<1>4. \A s \in Requests \ {r} : req[s].pc # "review_row"
  BY <1>0 DEF StoreInv, ReviewLocksMap, At
<1>5. CASE Deleted(t)
  <2>1. rows'[t] = Absent
    BY <1>0, <1>5 DEF ReviewRow, Deleted, Present, Absent
  <2>2. PICK s \in Requests : req[s].id = t /\ req[s].pc = "delete_entry"
    BY <1>5 DEF Deleted
  <2>3. InBetween(t)'
    BY <1>0, <1>2, <2>2 DEF InBetween, Busy, HalfDone
  <2> QED BY <1>2, <1>3, <1>4, <2>1, <2>3 DEF Matches, Idle
<1>6. CASE ~Deleted(t)
  <2>1. rows[t] = [memory[t] EXCEPT !.status = Pending]
    BY <1>0, <1>6 DEF Matches
  <2>2. Present(rows[t]) /\ rows[t] \in Entries
    BY <1>0, <1>1, <2>1 DEF Entries, Present, Pending, Absent
  <2>3. rows'[t] = memory[t]
    BY <1>0, <1>1, <2>1, <2>2 DEF ReviewRow, Entries
  <2>4. \A s \in Requests : req[s].id = t => req[s].pc # "delete_entry"
    BY <2>2 DEF Matches, Present, Absent
  <2>5. \A s \in Requests : req'[s].id = t => req'[s].pc \notin HalfDone
    BY <1>2, <1>3, <1>4, <2>4 DEF HalfDone, Idle
  <2> QED BY <1>2, <2>3, <2>5 DEF Matches, InBetween, Busy, HalfDone
<1> QED BY <1>5, <1>6

LEMMA MatchesDeleteRow ==
  ASSUME StoreInv, NEW r \in Requests, DeleteRow(r), NEW t, t = req[r].id, Matches(t)
  PROVE  Matches(t)'
<1>0. /\ req \in [Requests -> RequestStates] /\ t \in Transfers
      /\ rows \in [Transfers -> Entries \cup {Absent}]
      /\ req[r].pc = "delete_row"
  BY DEF StoreInv, TypeOK, StoreOK, RequestsOK, WellPlaced, DeleteRow, At, Deleting
<1>1. /\ rows'[t] = Absent
      /\ req'[r].pc = "delete_entry" /\ req'[r].id = t
      /\ \A s \in Requests \ {r} : req'[s] = req[s]
  BY <1>0 DEF DeleteRow, Goto, RequestStates
<1>2. Deleted(t)' /\ InBetween(t)'
  BY <1>1 DEF Deleted, InBetween, Busy, HalfDone
<1>3. \A s \in Requests : req'[s].id = t => req'[s].pc # "publish"
  BY <1>0, <1>1 DEF StoreInv, UploadsAreFresh, InHand, Copying, Deleting
<1> QED BY <1>1, <1>2, <1>3 DEF Matches

LEMMA MatchesDeleteEntry ==
  ASSUME StoreInv, NEW r \in Requests, DeleteEntry(r), NEW t, t = req[r].id, Matches(t)
  PROVE  Matches(t)'
<1>0. /\ req \in [Requests -> RequestStates] /\ t \in Transfers
      /\ memory \in [Transfers -> Entries \cup {Absent}]
      /\ req[r].pc = "delete_entry"
  BY DEF StoreInv, TypeOK, StoreOK, RequestsOK, WellPlaced, DeleteEntry, At, Deleting
<1>1. /\ rows' = rows /\ rows[t] = Absent /\ memory'[t] = Absent
      /\ req'[r].pc = "delete_files"
      /\ \A s \in Requests \ {r} : req'[s] = req[s]
  BY <1>0 DEF DeleteEntry, Goto, RequestStates, Matches
<1>2. \A s \in Requests : req'[s].id = t => req'[s].pc # "publish"
  BY <1>0, <1>1 DEF StoreInv, UploadsAreFresh, InHand, Copying, Deleting
<1>3. \A s \in Requests : req'[s].pc # "review_row"
  BY <1>1 DEF StoreInv, ReviewLocksMap, DeleteEntry, MapFree, At
<1> QED BY <1>1, <1>2, <1>3 DEF Matches

\* A half of another transfer leaves the slot's hands off this one.
LEMMA HalvesElsewhere ==
  ASSUME TypeOK, NEW r \in Requests, NEW t, Halves(r), ~HalfStep(r, t)
  PROVE  ~Busy(r, t) /\ ~Busy(r, t)'
<1>0. req \in [Requests -> RequestStates]
  BY DEF TypeOK, RequestsOK
<1>1. CASE PersistTransfer(r) \/ DeleteRow(r) \/ DeleteEntry(r)
  <2>1. req'[r].id = req[r].id
    BY <1>0, <1>1 DEF PersistTransfer, DeleteRow, DeleteEntry, Goto, RequestStates
  <2> QED BY <1>1, <2>1 DEF HalfStep, Busy
<1>2. CASE PublishTransfer(r) \/ ReviewRow(r)
  <2>1. req'[r].pc \notin HalfDone
    BY <1>0, <1>2 DEF PublishTransfer, ReviewRow, FinishUpload, Finish, Goto, Idle,
      HalfDone, RequestStates
  <2> QED BY <1>2, <2>1 DEF HalfStep, Busy
<1>3. CASE ReviewEntry(r)
  BY <1>3 DEF HalfStep, Busy, ReviewEntry, At, HalfDone
<1> QED BY <1>1, <1>2, <1>3 DEF Halves

LEMMA MatchesStep ==
  ASSUME OneAtATime, StoreInv, LifecycleInv, ServedCalls, sweep.due \subseteq expired,
         [Next]_vars, NEW t \in Transfers \ expired, Matches(t)
  PROVE  Matches(t)'
<1>0. TypeOK
  BY DEF StoreInv
<1>1. CASE Restart
  <2>1. \A r \in Requests : req'[r].pc = "idle"
    BY <1>1 DEF Restart, Idle
  <2>2. memory'[t] = rows'[t]
    BY <1>1 DEF Restart
  <2> QED BY <2>1, <2>2 DEF Matches, InBetween, Busy, HalfDone
<1>2. ASSUME NEW r \in Requests, HalfStep(r, t)
      PROVE  Matches(t)'
  BY <1>2, MatchesPersist, MatchesPublish, MatchesReviewEntry, MatchesReviewRow,
    MatchesDeleteRow, MatchesDeleteEntry DEF HalfStep
<1>3. CASE ~Restart /\ \A r \in Requests : ~HalfStep(r, t)
  <2>1. memory'[t] = memory[t] /\ rows'[t] = rows[t]
    BY <1>0, <1>3, UnsharedStep
  <2>2. \A r \in Requests : req'[r] = req[r] \/ (~Busy(r, t) /\ ~Busy(r, t)')
    <3>1. ASSUME NEW r \in Requests, Serve(r)
          PROVE  ~Busy(r, t) /\ ~Busy(r, t)'
      <4>1. CASE Halves(r)
        BY <1>0, <1>3, <4>1, HalvesElsewhere
      <4>2. CASE ~Halves(r)
        BY <1>0, <3>1, <4>2, HalvesStep DEF Busy
      <4> QED BY <4>1, <4>2
    <3> QED BY <1>0, <1>3, <3>1, SlotCause
  <2> QED BY <2>1, <2>2, MatchesKept
<1> QED BY <1>1, <1>2, <1>3

LEMMA CopiesMatchInvariant ==
  ASSUME OneAtATime
  PROVE  Spec => []CopiesMatch
<1>1. Init => CopiesMatch
  BY DEF Init, CopiesMatch, Matches, InBetween, Busy, HalfDone, Idle, Resting
<1>2. StoreInv /\ LifecycleInv /\ ServedCalls /\ CopiesMatch /\ [Next]_vars
        => CopiesMatch'
  <2> SUFFICES ASSUME StoreInv, LifecycleInv, ServedCalls, CopiesMatch, [Next]_vars
               PROVE  CopiesMatch'
    OBVIOUS
  <2>1. TypeOK /\ sweep.due \subseteq expired
    BY DEF StoreInv, CopiesMatch
  <2>2. sweep'.due \subseteq expired'
    BY <2>1, DueStep
  <2>3. \A t \in Transfers \ expired' : Matches(t)'
    BY <2>1, ExpiredStep, MatchesStep DEF CopiesMatch
  <2> QED BY <2>2, <2>3 DEF CopiesMatch
<1> QED
  BY <1>1, <1>2, StoreInvariant, LifecycleInvariant, ServedCallsInvariant, PTL DEF Spec

\* When no handler runs, what the clients are shown is what a restart would
\* bring back, for uploads, local copies, reviews, single deletions and joins,
\* with crashes at any point.  With failing database calls or dropped handlers
\* it is not so: a review leaves the entry accepted and the row pending.
THEOREM MemoryMatchesDatabase ==
  ASSUME OneAtATime
  PROVE  Spec => []MemoryMatchesRows
<1>1. CopiesMatch => MemoryMatchesRows
  BY DEF CopiesMatch, Matches, InBetween, Busy, HalfDone, MemoryMatchesRows, AtRest, At
<1> QED BY <1>1, CopiesMatchInvariant, PTL

(***************************************************************************)
(* The storage limit                                                       *)
(***************************************************************************)
\* The bytes an upload is about to add: what it has received, and the files of
\* its batch still to copy.
ToCome(q) == BatchBytes(q.batch) + (IF q.pc = "batch" THEN 0 ELSE q.size)

\* The entries leave room for the upload under way, however many of them other
\* handlers have removed since its check.  An upload of nothing needs none.
RoomOK ==
  \A r \in Requests : req[r].pc \in Copying \cup {"batch"} =>
    ToCome(req[r]) = 0 \/ UsedBytes + ToCome(req[r]) <= MaxStorage

LEMMA SizesAreNat ==
  ASSUME TypeOK
  PROVE  /\ \A t \in Transfers : memory[t].size \in Nat /\ Sizes[t] = memory[t].size
         /\ UsedBytes \in Nat
<1>1. \A t \in Transfers : memory[t].size \in Nat
  BY DEF TypeOK, StoreOK, Entries, Absent
<1>2. \A t \in Transfers : Sizes[t] = memory[t].size
  BY DEF Sizes
<1>3. PICK f : f = Sizes
  OBVIOUS
<1>4. SumOver(f, Transfers) \in Nat
  BY <1>1, <1>2, <1>3, SumOverNat
<1> QED BY <1>1, <1>2, <1>3, <1>4, UsedBytesIsSum DEF UsedIsSum

LEMMA SizesAreNatNext ==
  ASSUME TypeOK'
  PROVE  /\ \A t \in Transfers : memory'[t].size \in Nat /\ Sizes'[t] = memory'[t].size
         /\ UsedBytes' \in Nat
<1>1. \A t \in Transfers : memory'[t].size \in Nat
  BY DEF TypeOK, StoreOK, Entries, Absent
<1>2. \A t \in Transfers : Sizes'[t] = memory'[t].size
  BY DEF Sizes
<1>3. PICK f : f = Sizes'
  OBVIOUS
<1>4. SumOver(f, Transfers) \in Nat
  BY <1>1, <1>2, <1>3, SumOverNat
<1> QED BY <1>1, <1>2, <1>3, <1>4, UsedBytesIsSumNext DEF UsedIsSum

LEMMA UsedKept ==
  ASSUME UNCHANGED memory
  PROVE  UsedBytes' = UsedBytes
<1>1. Sizes' = Sizes
  BY DEF Sizes
<1> QED BY <1>1, UsedBytesIsSum, UsedBytesIsSumNext DEF UsedIsSum

LEMMA UsedLess ==
  ASSUME TypeOK, TypeOK', \A t \in Transfers : memory'[t].size <= memory[t].size
  PROVE  UsedBytes' <= UsedBytes
<1>1. PICK f, e : f = Sizes /\ e = Sizes'
  OBVIOUS
<1>2. \A t \in Transfers : e[t] \in Nat /\ f[t] \in Nat /\ e[t] <= f[t]
  BY <1>1, SizesAreNat, SizesAreNatNext
<1>3. SumOver(e, Transfers) <= SumOver(f, Transfers)
  BY <1>2, SumOverLess
<1> QED BY <1>1, <1>3, UsedBytesIsSum, UsedBytesIsSumNext DEF UsedIsSum

LEMMA UsedMoreByOne ==
  ASSUME TypeOK, TypeOK', NEW u \in Transfers,
         \A t \in Transfers \ {u} : memory'[t].size <= memory[t].size
  PROVE  UsedBytes' <= UsedBytes + memory'[u].size
<1>1. PICK f, e : f = Sizes /\ e = Sizes'
  OBVIOUS
<1>2. /\ \A t \in Transfers : e[t] \in Nat /\ f[t] \in Nat
      /\ \A t \in Transfers \ {u} : e[t] <= f[t]
      /\ e[u] = memory'[u].size
  BY <1>1, SizesAreNat, SizesAreNatNext
<1>3. SumOver(e, Transfers) <= SumOver(f, Transfers) + e[u]
  BY <1>2, SumOverOne
<1> QED BY <1>1, <1>2, <1>3, UsedBytesIsSum, UsedBytesIsSumNext DEF UsedIsSum

LEMMA PublishedBytes ==
  ASSUME TypeOK, TypeOK', NEW r \in Requests, PublishTransfer(r), req[r].id \in Transfers
  PROVE  UsedBytes' <= UsedBytes + req[r].size
<1>0. memory \in [Transfers -> Entries \cup {Absent}]
  BY DEF TypeOK, StoreOK
<1>1. PICK u \in Transfers : u = req[r].id
  OBVIOUS
<1>2. /\ memory'[u] = NewEntry(req[r])
      /\ \A t \in Transfers \ {u} : memory'[t] = memory[t]
  BY <1>0, <1>1 DEF PublishTransfer
<1>3. memory'[u].size = req[r].size
  BY <1>2 DEF NewEntry
<1>4. \A t \in Transfers \ {u} : memory'[t].size <= memory[t].size
  BY <1>2, SizesAreNat
<1>5. UsedBytes' <= UsedBytes + memory'[u].size
  BY <1>4, UsedMoreByOne
<1> QED BY <1>3, <1>5

\* Only a publication makes the entries larger, and a restart.
LEMMA UsedStep ==
  ASSUME StoreInv, [Next]_vars, ~Restart
  PROVE  \/ UsedBytes' <= UsedBytes
         \/ \E r \in Requests : PublishTransfer(r) /\ UsedBytes' <= UsedBytes + req[r].size
<1>1. TypeOK /\ TypeOK' /\ memory \in [Transfers -> Entries \cup {Absent}]
  BY TypeStep DEF StoreInv, TypeOK, StoreOK
<1>2. CASE \E r \in Requests : PublishTransfer(r)
  <2>1. PICK r \in Requests : PublishTransfer(r)
    BY <1>2
  <2>2. req[r].id \in Transfers
    BY <1>1, <2>1 DEF TypeOK, RequestsOK, WellPlaced, PublishTransfer, At, Copying
  <2> QED BY <1>1, <2>1, <2>2, PublishedBytes
<1>3. CASE ~\E r \in Requests : PublishTransfer(r)
  <2>1. ASSUME NEW t \in Transfers PROVE memory'[t].size <= memory[t].size
    <3>1. memory[t].size \in Nat /\ memory[t] \in Entries \cup {Absent}
      BY <1>1, SizesAreNat
    <3>2. PICK e : e = memory[t]
      OBVIOUS
    <3>3. PICK d : d = memory'[t]
      OBVIOUS
    <3>4. \/ d = e \/ d = Absent
          \/ \E v : d = [e EXCEPT !.status = v]
          \/ \E v : d = [e EXCEPT !.sender = v]
      BY <1>1, <1>3, <3>2, <3>3, EntryStep
    <3>5. d.size = e.size \/ d.size = 0
      BY <3>1, <3>2, <3>4 DEF Entries, Absent
    <3> QED BY <3>1, <3>2, <3>3, <3>5
  <2> QED BY <1>1, <2>1, UsedLess
<1> QED BY <1>2, <1>3

LEMMA ToComeIsNat ==
  ASSUME NEW q \in RequestStates
  PROVE  /\ q.batch \in Seq(Nat) /\ BatchBytes(q.batch) \in Nat
         /\ q.size \in Nat /\ ToCome(q) \in Nat
<1>1. q.batch \in Seq(Nat) /\ q.size \in Nat
  BY DEF RequestStates
<1>2. BatchBytes(q.batch) \in Nat
  BY <1>1, BatchIsNat
<1> QED BY <1>1, <1>2 DEF ToCome

\* The steps of an upload itself.
LEMMA RoomWrites ==
  ASSUME StoreInv, RoomOK, NEW r \in Requests, Writes(r), ~PublishTransfer(r)
  PROVE  ToCome(req'[r]) = 0 \/ UsedBytes' + ToCome(req'[r]) <= MaxStorage
<1>0. /\ TypeOK /\ req \in [Requests -> RequestStates] /\ req[r] \in RequestStates
      /\ WellPlaced(req[r])
  BY DEF StoreInv, TypeOK, RequestsOK
<1>1. UsedBytes' = UsedBytes
  BY UsedKept DEF Writes, BeginUpload, ReceiveChunk, CompleteUpload, CheckBatch, BeginCopy,
    CompleteCopy, PersistTransfer, store
<1>2. CASE BeginUpload(r)
  <2>1. req'[r].batch = <<>> /\ req'[r].size = 0 /\ req'[r].pc = "writing"
    BY <1>0, <1>2 DEF BeginUpload, Idle
  <2>2. ToCome(req'[r]) = 0
    BY <2>1, BatchOfNone DEF ToCome
  <2> QED BY <2>2
<1>3. CASE ReceiveChunk(r)
  <2>1. req[r].batch = <<>> /\ req[r].pc = "writing"
    BY <1>0, <1>3 DEF WellPlaced, ReceiveChunk, At
  <2>2. /\ req'[r].batch = <<>> /\ req'[r].pc = "writing"
        /\ req'[r].size = req[r].size + 1
    BY <1>0, <1>3, <2>1 DEF ReceiveChunk, RequestStates
  <2>3. ToCome(req'[r]) = req[r].size + 1
    BY <1>0, <2>2, BatchOfNone, ToComeIsNat DEF ToCome
  <2> QED BY <1>1, <1>3, <2>3 DEF ReceiveChunk, HasStorageCapacity
<1>4. CASE CompleteUpload(r) \/ CompleteCopy(r) \/ PersistTransfer(r)
  <2>1. /\ req'[r].batch = req[r].batch /\ req'[r].size = req[r].size
        /\ req'[r].pc # "batch" /\ req[r].pc \in Copying /\ req[r].pc # "batch"
    BY <1>0, <1>4 DEF CompleteUpload, CompleteCopy, PersistTransfer, Goto, At, RequestStates,
      Copying
  <2>2. ToCome(req'[r]) = ToCome(req[r])
    BY <2>1 DEF ToCome
  <2>3. ToCome(req[r]) = 0 \/ UsedBytes + ToCome(req[r]) <= MaxStorage
    BY <2>1 DEF RoomOK
  <2> QED BY <1>1, <2>2, <2>3
<1>5. CASE CheckBatch(r)
  <2>1. PICK b \in Batches, d \in MaybeDevice :
          /\ HasStorageCapacity(BatchBytes(b))
          /\ req' = [req EXCEPT ![r] = [Idle EXCEPT !.op = "local", !.pc = "batch",
                       !.dev = host, !.peer = d, !.batch = b]]
    BY <1>5 DEF CheckBatch
  <2>2. req'[r].batch = b /\ req'[r].pc = "batch"
    BY <1>0, <2>1 DEF Idle
  <2>3. b \in Seq(Nat)
    <3>1. PICK n \in 1..MaxBatchFiles : b \in [1..n -> FileSizes]
      BY DEF Batches, FileLists
    <3>2. n \in Nat
      BY <3>1
    <3>3. b \in [1..n -> Nat]
      <4>1. PICK D : D = 1..n
        OBVIOUS
      <4>2. FileSizes \subseteq Nat /\ b \in [D -> FileSizes]
        BY <3>1, <4>1
      <4>3. b \in [D -> Nat]
        BY <4>2
      <4> QED BY <4>1, <4>3
    <3> QED BY <3>2, <3>3, SeqDef
  <2>4. PICK n \in Nat : n = BatchBytes(b)
    BY <2>3, BatchIsNat
  <2>5. ToCome(req'[r]) = n
    BY <2>2, <2>4 DEF ToCome
  <2>6. UsedBytes + n <= MaxStorage
    BY <2>1, <2>4 DEF HasStorageCapacity
  <2> QED BY <1>1, <2>5, <2>6
<1>6. CASE BeginCopy(r)
  <2>1. req[r].pc = "batch" /\ req[r].batch # <<>>
    BY <1>0, <1>6 DEF BeginCopy, At, WellPlaced
  <2>2. /\ req'[r].batch = Tail(req[r].batch) /\ req'[r].size = Head(req[r].batch)
        /\ req'[r].pc = "writing"
    BY <1>0, <1>6 DEF BeginCopy, RequestStates
  <2>3. PICK b \in Seq(Nat) : b = req[r].batch /\ b # <<>>
    BY <1>0, <2>1, ToComeIsNat
  <2>4. PICK m \in Nat, n \in Nat : m = Head(b) /\ n = BatchBytes(Tail(b))
    BY <2>3, BatchOfMore
  <2>5. BatchBytes(b) = m + n
    BY <2>3, <2>4, BatchOfMore
  <2>6. ToCome(req'[r]) = n + m
    BY <2>2, <2>3, <2>4 DEF ToCome
  <2>7. ToCome(req[r]) = m + n
    BY <2>1, <2>3, <2>4, <2>5 DEF ToCome
  <2>8. ToCome(req[r]) = 0 \/ UsedBytes + ToCome(req[r]) <= MaxStorage
    BY <2>1 DEF RoomOK
  <2> QED BY <1>1, <2>4, <2>6, <2>7, <2>8
<1> QED BY <1>2, <1>3, <1>4, <1>5, <1>6 DEF Writes

\* What an upload publishes was counted.
LEMMA RoomPublish ==
  ASSUME StoreInv, RoomOK, NEW r \in Requests, PublishTransfer(r)
  PROVE  /\ req[r].size = 0 \/ UsedBytes + req[r].size <= MaxStorage
         /\ req'[r].pc = "batch" /\ UsedBytes' \in Nat /\ UsedBytes' <= UsedBytes + req[r].size
              => ToCome(req'[r]) = 0 \/ UsedBytes' + ToCome(req'[r]) <= MaxStorage
<1>0. /\ TypeOK /\ req \in [Requests -> RequestStates] /\ req[r] \in RequestStates
  BY DEF StoreInv, TypeOK, RequestsOK
<1>1. req[r].pc = "publish"
  BY DEF PublishTransfer, At
<1>2. ToCome(req[r]) = 0 \/ UsedBytes + ToCome(req[r]) <= MaxStorage
  BY <1>1 DEF RoomOK, Copying
<1>3. PICK m \in Nat, n \in Nat : m = req[r].size /\ n = BatchBytes(req[r].batch)
  BY <1>0, ToComeIsNat
<1>4. ToCome(req[r]) = n + m
  BY <1>1, <1>3 DEF ToCome
<1>5. UsedBytes \in Nat
  BY <1>0, SizesAreNat
<1>6. req'[r].pc = "batch" => ToCome(req'[r]) = n
  <2> SUFFICES ASSUME req'[r].pc = "batch" PROVE ToCome(req'[r]) = n
    OBVIOUS
  <2>1. req'[r].batch = req[r].batch
    BY <1>0 DEF PublishTransfer, Goto, FinishUpload, Finish, Idle, RequestStates
  <2> QED BY <1>3, <2>1 DEF ToCome
<1> QED BY <1>2, <1>3, <1>4, <1>5, <1>6

LEMMA RoomStep == StoreInv /\ RoomOK /\ [Next]_vars => RoomOK'
<1> SUFFICES ASSUME StoreInv, RoomOK, [Next]_vars, NEW r \in Requests,
                    req'[r].pc \in Copying \cup {"batch"}
             PROVE  ToCome(req'[r]) = 0 \/ UsedBytes' + ToCome(req'[r]) <= MaxStorage
  BY DEF RoomOK
<1>0. TypeOK /\ TypeOK' /\ UsedBytes \in Nat /\ UsedBytes' \in Nat
  BY TypeStep, SizesAreNat, SizesAreNatNext DEF StoreInv
<1>1. CASE Restart
  BY <1>1 DEF Restart, Idle, Copying
<1>2. CASE \E s \in Requests : PublishTransfer(s)
  <2>1. PICK s \in Requests : PublishTransfer(s)
    BY <1>2
  <2>2. Serve(s) /\ req[s].pc = "publish"
    BY <2>1 DEF Serve, Proceed, PublishTransfer, At
  <2>3. uploadLock = s
    BY <2>2 DEF StoreInv, SoleWriter, Copying
  <2>4. UsedBytes' <= UsedBytes + req[s].size
    <3>1. req[s].id \in Transfers
      BY <1>0, <2>2 DEF TypeOK, RequestsOK, WellPlaced, Copying
    <3> QED BY <1>0, <2>1, <3>1, PublishedBytes
  <2>5. CASE s = r
    <3>1. req'[r].pc = "batch"
      BY <1>0, <2>1, <2>5 DEF TypeOK, RequestsOK, RequestStates, PublishTransfer, FinishUpload,
        Finish, Goto, Idle, Copying
    <3> QED BY <1>0, <2>1, <2>4, <2>5, <3>1, RoomPublish
  <2>6. CASE s # r
    <3>1. req'[r] = req[r]
      BY <1>0, <2>2, <2>6, SlotStep
    <3> QED BY <2>3, <2>6, <3>1 DEF StoreInv, SoleWriter
  <2> QED BY <2>5, <2>6
<1>3. CASE ~Restart /\ ~\E s \in Requests : PublishTransfer(s)
  <2>1. UsedBytes' <= UsedBytes
    BY <1>3, UsedStep
  <2>2. CASE Serve(r)
    BY <1>0, <1>3, <2>2, WriterStep, RoomWrites
  <2>3. CASE req'[r] = req[r]
    <3>1. PICK n \in Nat : n = ToCome(req[r])
      BY <1>0, ToComeIsNat DEF TypeOK, RequestsOK
    <3>2. n = 0 \/ UsedBytes + n <= MaxStorage
      BY <2>3, <3>1 DEF RoomOK
    <3> QED BY <1>0, <2>1, <2>3, <3>1, <3>2
  <2> QED BY <1>0, <1>3, <2>2, <2>3, SlotCause
<1> QED BY <1>1, <1>2, <1>3

LEMMA RoomInit == Init => RoomOK
BY DEF Init, RoomOK, Idle, Copying

\* No handler takes the entries over max_storage_bytes, however uploads, copies,
\* deletions, clearings and the sweep interleave, fail and are dropped; that no
\* check reserves what it has let through is made up for by upload_lock
\* (routes/transfers.rs, has_storage_capacity).
THEOREM UploadsFitTheStorage == Spec => UploadsStayWithinStorage
<1>1. StoreInv /\ RoomOK /\ [Next]_vars
        => [UsedBytes' <= MaxStorage \/ UsedBytes' <= UsedBytes \/ Restart]_vars
  <2> SUFFICES ASSUME StoreInv, RoomOK, [Next]_vars, ~Restart, ~(UsedBytes' <= UsedBytes)
               PROVE  UsedBytes' <= MaxStorage
    OBVIOUS
  <2>0. TypeOK /\ TypeOK' /\ UsedBytes \in Nat /\ UsedBytes' \in Nat
    BY TypeStep, SizesAreNat, SizesAreNatNext DEF StoreInv
  <2>1. PICK r \in Requests : PublishTransfer(r) /\ UsedBytes' <= UsedBytes + req[r].size
    BY UsedStep
  <2>2. PICK m \in Nat : m = req[r].size
    BY <2>0, ToComeIsNat DEF TypeOK, RequestsOK
  <2>3. m = 0 \/ UsedBytes + m <= MaxStorage
    BY <2>1, <2>2, RoomPublish
  <2> QED BY <2>0, <2>1, <2>2, <2>3
<1> QED BY <1>1, StoreInvariant, RoomInit, RoomStep, PTL DEF Spec, UploadsStayWithinStorage

\* What a restart restores is what was listed, and the file whose row was written
\* before its entry.
LEMMA RestoredBytes ==
  ASSUME OneAtATime, StoreInv, CopiesMatch, Restart, NEW t \in Transfers
  PROVE  \/ memory'[t].size <= memory[t].size
         \/ \E r \in Requests : /\ req[r].pc = "publish" /\ req[r].id = t
                                /\ memory'[t].size = req[r].size
<1>0. /\ TypeOK /\ memory[t].size \in Nat
      /\ memory[t] \in Entries \cup {Absent} /\ Absent.size = 0
  BY SizesAreNat DEF StoreInv, TypeOK, StoreOK, Absent
<1>1. CASE t \notin Recoverable
  BY <1>0, <1>1 DEF Restart
<1>2. CASE t \in Recoverable
  <2>1. memory'[t] = rows[t] /\ t \notin expired /\ Present(rows[t])
    BY <1>2 DEF Restart, Recoverable
  <2>2. Matches(t)
    BY <2>1 DEF CopiesMatch
  <2>3. CASE memory[t] = rows[t]
    BY <1>0, <2>1, <2>3
  <2>4. CASE InBetween(t)
    <3>1. PICK r \in Requests : req[r].id = t /\ req[r].pc \in HalfDone
      BY <2>4 DEF InBetween, Busy
    <3>2. CASE req[r].pc = "publish"
      <4>1. rows[t] = NewEntry(req[r])
        BY <2>2, <3>1, <3>2 DEF Matches
      <4>2. rows[t].size = req[r].size
        BY <4>1 DEF NewEntry
      <4> QED BY <2>1, <3>1, <3>2, <4>2
    <3>3. CASE req[r].pc = "review_row"
      <4>1. rows[t] = [memory[t] EXCEPT !.status = Pending] \/ rows[t] = Absent
        BY <2>2, <3>1, <3>3 DEF Matches, Deleted
      <4>2. PICK d, e : d = rows[t] /\ e = memory[t]
        OBVIOUS
      <4>3. d.size = e.size \/ d.size = 0
        BY <1>0, <4>1, <4>2 DEF Entries, Absent
      <4> QED BY <1>0, <2>1, <4>2, <4>3
    <3>4. CASE req[r].pc = "delete_entry"
      <4>1. rows[t] = Absent
        BY <2>2, <3>1, <3>4 DEF Matches
      <4> QED BY <1>0, <2>1, <4>1
    <3> QED BY <3>1, <3>2, <3>3, <3>4 DEF HalfDone
  <2> QED BY <2>2, <2>3, <2>4 DEF Matches
<1> QED BY <1>1, <1>2

LEMMA LimitStep ==
  ASSUME OneAtATime, StoreInv, CopiesMatch, RoomOK, StoreWithinLimit, [Next]_vars
  PROVE  StoreWithinLimit'
<1>0. TypeOK /\ TypeOK' /\ UsedBytes \in Nat /\ UsedBytes' \in Nat /\ UsedBytes <= MaxStorage
  BY TypeStep, SizesAreNat, SizesAreNatNext DEF StoreInv, StoreWithinLimit
<1>1. ASSUME NEW r \in Requests, req[r].pc = "publish", UsedBytes' <= UsedBytes + req[r].size
      PROVE  UsedBytes' <= MaxStorage
  <2>1. PICK m \in Nat, n \in Nat : m = req[r].size /\ n = BatchBytes(req[r].batch)
    BY <1>0, ToComeIsNat DEF TypeOK, RequestsOK
  <2>2. n + m = 0 \/ UsedBytes + (n + m) <= MaxStorage
    BY <1>1, <2>1 DEF RoomOK, ToCome, Copying
  <2> QED BY <1>0, <1>1, <2>1, <2>2
<1>2. CASE ~Restart
  <2>1. \A r \in Requests : PublishTransfer(r) => req[r].pc = "publish"
    BY DEF PublishTransfer, At
  <2> QED BY <1>0, <1>1, <1>2, <2>1, UsedStep DEF StoreWithinLimit
<1>3. CASE Restart
  <2>1. CASE \A t \in Transfers : memory'[t].size <= memory[t].size
    BY <1>0, <2>1, UsedLess DEF StoreWithinLimit
  <2>2. CASE \E t \in Transfers : ~(memory'[t].size <= memory[t].size)
    <3>1. PICK u \in Transfers : ~(memory'[u].size <= memory[u].size)
      BY <2>2
    <3>2. PICK r \in Requests : /\ req[r].pc = "publish" /\ req[r].id = u
                                /\ memory'[u].size = req[r].size
      BY <1>3, <3>1, RestoredBytes
    <3>3. ASSUME NEW t \in Transfers \ {u} PROVE memory'[t].size <= memory[t].size
      <4>1. \A s \in Requests : req[s].pc = "publish" => s = r
        BY <3>2 DEF StoreInv, SoleWriter, Copying
      <4> QED BY <1>3, <3>2, <4>1, RestoredBytes
    <3>4. UsedBytes' <= UsedBytes + req[r].size
      BY <1>0, <3>2, <3>3, UsedMoreByOne
    <3> QED BY <1>1, <3>2, <3>4 DEF StoreWithinLimit
  <2> QED BY <2>1, <2>2
<1> QED BY <1>2, <1>3

\* Nor does a restart, when uploads, copies, reviews, single deletions and joins
\* run between crashes: the rows it lists are those of the entries, and of the one
\* upload that had been let through.  Without OneAtATime a clearing that fails
\* half-way leaves rows behind that no check counts.
THEOREM TheStoreStaysWithinLimit ==
  ASSUME OneAtATime
  PROVE  Spec => []StoreWithinLimit
<1>1. Init => StoreWithinLimit
  <2> SUFFICES ASSUME Init PROVE UsedBytes <= MaxStorage
    BY DEF StoreWithinLimit
  <2>1. PICK f, e : f = Sizes /\ e = [t \in Transfers |-> 0]
    OBVIOUS
  <2>2. \A t \in Transfers : f[t] = 0
    BY <2>1 DEF Init, Sizes, Absent
  <2>3. SumOver(f, Transfers) = 0
    BY <2>2, SumOverZero
  <2> QED BY <2>1, <2>3, UsedBytesIsSum DEF UsedIsSum
<1>2. StoreInv /\ CopiesMatch /\ RoomOK /\ StoreWithinLimit /\ [Next]_vars => StoreWithinLimit'
  BY LimitStep
<1> QED BY <1>1, <1>2, StoreInvariant, RoomInit, RoomStep, CopiesMatchInvariant, PTL DEF Spec
=============================================================================
