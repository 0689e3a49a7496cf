-------------------------------- MODULE Sums --------------------------------
(***************************************************************************)
(* Least numbers, and sums over finite sets, for the proofs about amounts  *)
(* and counts.                                                             *)
(*                                                                         *)
(* Total is the sum as the folds of the community modules compute it,      *)
(* element by element in the order of CHOOSE.  Its laws are proved from    *)
(* the least-number principle: of the sets that broke one, a smallest      *)
(* would be left.                                                          *)
(***************************************************************************)
EXTENDS Integers, FiniteSets, FiniteSetTheorems, WellFoundedInduction, TLAPS

Below == {p \in Nat \X Nat : p[1] < p[2]}

\* A set of natural numbers that is not empty has a least element.
LEMMA LeastNumber ==
    ASSUME NEW S \in SUBSET Nat, S # {}
    PROVE  \E m \in S : \A n \in S : m <= n
<1>1. IsWellFoundedOn(Below, Nat)
  <2>1. IsWellFoundedOn({p \in Nat \X Nat : p[1] < p[2]}, Nat)
    BY NatLessThanWellFounded, Zenon DEF OpToRel
  <2> QED BY <2>1 DEF Below
<1>2. PICK m \in S : \A n \in S : ~ (<<n, m>> \in Below)
  BY <1>1, WFMin
<1>3. \A n \in S : ~ (n < m)
  BY <1>2 DEF Below
<1> QED BY <1>3

\* Counting up: what holds of 0 and passes on to the next number holds up to m.
LEMMA CountUp ==
    ASSUME NEW m \in Nat, NEW G, 0 \in G, \A n \in Nat : n < m /\ n \in G => n + 1 \in G
    PROVE  \A n \in 0..m : n \in G
<1> DEFINE Bad == {n \in Nat : n <= m /\ n \notin G}
<1>1. Bad = {}
  <2> SUFFICES ASSUME Bad # {} PROVE FALSE
    OBVIOUS
  <2>1. PICK l \in Bad : \A n \in Bad : l <= n
    BY LeastNumber
  <2>2. l - 1 \in Nat /\ l - 1 < m /\ l - 1 \notin Bad /\ (l - 1) + 1 = l
    BY <2>1
  <2> QED BY <2>1, <2>2
<1> QED BY <1>1

\* What is computed step by step from an initial value exists.
IsStep(step, S, m) == step \in [S \X (1..m) -> S]

IsChain(f, S, base, step, m) ==
    f \in [0..m -> S] /\ f[0] = base /\ \A n \in 1..m : f[n] = step[<<f[n - 1], n>>]

LEMMA ChainExists ==
    ASSUME NEW S, NEW base \in S, NEW m \in Nat, NEW step, IsStep(step, S, m)
    PROVE  \E f : IsChain(f, S, base, step, m)
<1> USE DEF IsStep, IsChain
<1> DEFINE Chain(f, n) == /\ f \in [0..n -> S] /\ f[0] = base
                          /\ \A k \in 1..n : f[k] = step[<<f[k - 1], k>>]
           G == {n \in 0..m : \E f : Chain(f, n)}
<1>1. 0 \in G
  <2>1. Chain([n \in 0..0 |-> base], 0) /\ 0 \in 0..m
    OBVIOUS
  <2> HIDE DEF Chain
  <2> QED BY <2>1
<1>2. ASSUME NEW n \in Nat, n < m, n \in G PROVE n + 1 \in G
  <2>1. PICK f : Chain(f, n)
    BY <1>2
  <2> DEFINE g == [k \in 0..(n + 1) |-> IF k = n + 1 THEN step[<<f[n], n + 1>>] ELSE f[k]]
  <2>2. f[n] \in S /\ n + 1 \in 1..m
    BY <1>2, <2>1
  <2>3. step[<<f[n], n + 1>>] \in S
    BY <2>2
  <2>4. g \in [0..(n + 1) -> S] /\ g[0] = base
    BY <2>1, <2>3
  <2>5. ASSUME NEW k \in 1..(n + 1) PROVE g[k] = step[<<g[k - 1], k>>]
    <3>1. k - 1 \in 0..n /\ g[k - 1] = f[k - 1]
      OBVIOUS
    <3>2. CASE k = n + 1
      <4>1. k - 1 = n /\ g[k] = step[<<f[n], n + 1>>]
        BY <3>2
      <4> QED BY <3>1, <3>2, <4>1
    <3>3. CASE k # n + 1
      <4>1. k \in 1..n /\ g[k] = f[k]
        BY <3>3
      <4> QED BY <2>1, <3>1, <4>1
    <3> QED BY <3>2, <3>3
  <2>6. Chain(g, n + 1)
    <3> HIDE DEF g
    <3> QED BY <2>4, <2>5
  <2>7. n + 1 \in 0..m
    BY <1>2
  <2> QED BY <2>6, <2>7
<1>3. m \in G
  <2> HIDE DEF G
  <2>1. \A n \in 0..m : n \in G
    BY <1>1, <1>2, CountUp
  <2> QED BY <2>1
<1> QED BY <1>3

-----------------------------------------------------------------------------
(* The sum.                                                                *)

Pick(s) == CHOOSE x \in s : TRUE

SumStep(f, S, it) ==
    it = [s \in SUBSET S |-> IF s = {} THEN 0 ELSE f[Pick(s)] + it[s \ {Pick(s)}]]

SumTable(f, S) == CHOOSE it : SumStep(f, S, it)

Total(f, S) == SumTable(f, S)[S]

LEMMA Picked == ASSUME NEW s, s # {} PROVE Pick(s) \in s
  BY DEF Pick

\* A set without one of its elements is smaller.
LEMMA Without ==
    ASSUME NEW S, IsFiniteSet(S), NEW x \in S
    PROVE  /\ IsFiniteSet(S \ {x}) /\ Cardinality(S) \in Nat /\ Cardinality(S) > 0
           /\ Cardinality(S \ {x}) = Cardinality(S) - 1 /\ Cardinality(S \ {x}) \in Nat
<1>1. IsFiniteSet(S \ {x}) /\ Cardinality(S \ {x}) = Cardinality(S) - 1
  BY FS_RemoveElement
<1>2. Cardinality(S) \in Nat /\ Cardinality(S \ {x}) \in Nat
  BY <1>1, FS_CardinalityType
<1> QED BY <1>1, <1>2

\* The recursion of the sum has a solution: it is built up by the size of the sets.
LEMMA TableExists ==
    ASSUME NEW f, NEW S, IsFiniteSet(S)
    PROVE  \E it : SumStep(f, S, it)
<1> DEFINE Small(n) == {s \in SUBSET S : Cardinality(s) <= n}
           Upto(n, it) == it = [s \in Small(n) |-> IF s = {} THEN 0 ELSE f[Pick(s)] + it[s \ {Pick(s)}]]
           Bad == {n \in Nat : ~ \E it : Upto(n, it)}
<1>1. \A s \in SUBSET S : IsFiniteSet(s) /\ Cardinality(s) \in Nat /\ Cardinality(s) <= Cardinality(S)
  BY FS_Subset, FS_CardinalityType
<1>2. \A s \in SUBSET S : s # {} => /\ Pick(s) \in s /\ s \ {Pick(s)} \in SUBSET S
                                    /\ Cardinality(s \ {Pick(s)}) = Cardinality(s) - 1
                                    /\ Cardinality(s) > 0
  BY <1>1, Picked, Without
<1>3. Bad = {}
  <2> SUFFICES ASSUME Bad # {} PROVE FALSE
    OBVIOUS
  <2>1. PICK m \in Bad : \A n \in Bad : m <= n
    BY LeastNumber
  <2>2. CASE m = 0
    <3> DEFINE h == [s \in Small(0) |-> 0]
    <3>1. \A s \in Small(0) : s = {}
      <4> SUFFICES ASSUME NEW s \in Small(0), s # {} PROVE FALSE
        OBVIOUS
      <4>1. s \in SUBSET S /\ Cardinality(s) \in Nat /\ Cardinality(s) <= 0 /\ Cardinality(s) > 0
        BY <1>1, <1>2
      <4> QED BY <4>1
    <3>2. Upto(0, h)
      BY <3>1
    <3> QED BY <2>1, <2>2, <3>2
  <2>3. CASE m # 0
    <3>1. m - 1 \in Nat /\ m - 1 \notin Bad
      <4>1. m \in Nat /\ m - 1 \in Nat /\ ~ (m <= m - 1)
        BY <2>1, <2>3
      <4> HIDE DEF Bad
      <4> QED BY <2>1, <4>1
    <3>2. PICK g : Upto(m - 1, g)
      BY <3>1
    <3> DEFINE h == [s \in Small(m) |-> IF s = {} THEN 0 ELSE f[Pick(s)] + g[s \ {Pick(s)}]]
    <3>3. \A t \in Small(m - 1) : t \in Small(m) /\ g[t] = h[t]
      <4>1. \A t \in Small(m - 1) : t \in Small(m)
        BY <1>1, <2>1
      <4>2. \A t \in Small(m - 1) : g[t] = IF t = {} THEN 0 ELSE f[Pick(t)] + g[t \ {Pick(t)}]
        <5> HIDE DEF Small
        <5> QED BY <3>2
      <4> HIDE DEF Small
      <4> QED BY <4>1, <4>2
    <3>4. \A s \in Small(m) : s # {} => s \ {Pick(s)} \in Small(m - 1)
      BY <1>1, <1>2, <2>1
    <3>5. Upto(m, h)
      <4> HIDE DEF Small
      <4> QED BY <3>3, <3>4
    <3> HIDE DEF h, Upto
    <3> QED BY <2>1, <3>5
  <2> QED BY <2>2, <2>3
<1>4. Cardinality(S) \in Nat /\ Small(Cardinality(S)) = SUBSET S
  BY <1>1
<1>5. PICK it : Upto(Cardinality(S), it)
  <2> HIDE DEF Upto
  <2> QED BY <1>3, <1>4
<1>6. SumStep(f, S, it)
  <2> HIDE DEF Small
  <2> QED BY <1>4, <1>5 DEF SumStep
<1> QED BY <1>6

LEMMA TableValue ==
    ASSUME NEW f, NEW S, IsFiniteSet(S), NEW s \in SUBSET S
    PROVE  SumTable(f, S)[s] = IF s = {} THEN 0 ELSE f[Pick(s)] + SumTable(f, S)[s \ {Pick(s)}]
<1>1. SumStep(f, S, SumTable(f, S))
  BY TableExists DEF SumTable
<1> DEFINE it == SumTable(f, S)
<1>2. it = [t \in SUBSET S |-> IF t = {} THEN 0 ELSE f[Pick(t)] + it[t \ {Pick(t)}]]
  BY <1>1 DEF SumStep
<1> HIDE DEF it
<1>3. it[s] = IF s = {} THEN 0 ELSE f[Pick(s)] + it[s \ {Pick(s)}]
  BY <1>2
<1> QED BY <1>3 DEF it

\* The table of a set has the sums of its subsets.
LEMMA TableOfSubset ==
    ASSUME NEW f, NEW S, IsFiniteSet(S), NEW T \in SUBSET S
    PROVE  SumTable(f, S)[T] = Total(f, T)
<1> DEFINE a == SumTable(f, S)
           b == SumTable(f, T)
           Bad == {n \in Nat : \E s \in SUBSET T : Cardinality(s) = n /\ a[s] # b[s]}
<1>1. IsFiniteSet(T) /\ \A s \in SUBSET T : IsFiniteSet(s) /\ Cardinality(s) \in Nat /\ s \in SUBSET S
  BY FS_Subset, FS_CardinalityType
<1>2. \A s \in SUBSET T : /\ a[s] = IF s = {} THEN 0 ELSE f[Pick(s)] + a[s \ {Pick(s)}]
                          /\ b[s] = IF s = {} THEN 0 ELSE f[Pick(s)] + b[s \ {Pick(s)}]
  <2> SUFFICES ASSUME NEW s \in SUBSET T
               PROVE  /\ a[s] = IF s = {} THEN 0 ELSE f[Pick(s)] + a[s \ {Pick(s)}]
                      /\ b[s] = IF s = {} THEN 0 ELSE f[Pick(s)] + b[s \ {Pick(s)}]
    OBVIOUS
  <2>1. s \in SUBSET S
    BY <1>1
  <2>2. a[s] = IF s = {} THEN 0 ELSE f[Pick(s)] + a[s \ {Pick(s)}]
    BY <2>1, TableValue
  <2>3. b[s] = IF s = {} THEN 0 ELSE f[Pick(s)] + b[s \ {Pick(s)}]
    BY <1>1, TableValue
  <2> QED BY <2>2, <2>3
<1> HIDE DEF a, b
<1>3. Bad = {}
  <2> SUFFICES ASSUME Bad # {} PROVE FALSE
    OBVIOUS
  <2>1. PICK m \in Bad : \A n \in Bad : m <= n
    BY LeastNumber
  <2>2. PICK s \in SUBSET T : Cardinality(s) = m /\ a[s] # b[s]
    BY <2>1
  <2>3. s # {}
    BY <1>2, <2>2
  <2>4. /\ s \ {Pick(s)} \in SUBSET T /\ Cardinality(s \ {Pick(s)}) = m - 1
        /\ Cardinality(s \ {Pick(s)}) \in Nat /\ m \in Nat
    BY <1>1, <2>2, <2>3, Picked, Without
  <2>5. ~ (m <= m - 1)
    BY <2>4
  <2>6. Cardinality(s \ {Pick(s)}) \notin Bad
    BY <2>1, <2>4, <2>5
  <2>7. a[s \ {Pick(s)}] = b[s \ {Pick(s)}]
    BY <2>4, <2>6
  <2> QED BY <1>2, <2>2, <2>7
<1>4. a[T] = b[T]
  BY <1>1, <1>3
<1> QED BY <1>4 DEF a, b, Total

\* The sum of a set is one of its elements and the sum of the others.
LEMMA TotalStep ==
    ASSUME NEW f, NEW S, IsFiniteSet(S)
    PROVE  Total(f, S) = IF S = {} THEN 0 ELSE f[Pick(S)] + Total(f, S \ {Pick(S)})
<1>1. S \in SUBSET S /\ S \ {Pick(S)} \in SUBSET S
  OBVIOUS
<1>2. SumTable(f, S)[S \ {Pick(S)}] = Total(f, S \ {Pick(S)})
  BY <1>1, TableOfSubset
<1>3. SumTable(f, S)[S] = IF S = {} THEN 0 ELSE f[Pick(S)] + SumTable(f, S)[S \ {Pick(S)}]
  BY <1>1, TableValue
<1> QED BY <1>2, <1>3 DEF Total

-----------------------------------------------------------------------------
(* The laws of the sum.                                                    *)

LEMMA TotalEmpty == ASSUME NEW f PROVE Total(f, {}) = 0
  BY FS_EmptySet, TotalStep

LEMMA TotalNat ==
    ASSUME NEW f, NEW S, IsFiniteSet(S), \A x \in S : f[x] \in Nat
    PROVE  Total(f, S) \in Nat
<1> DEFINE Bad == {n \in Nat : \E s \in SUBSET S : Cardinality(s) = n /\ Total(f, s) \notin Nat}
<1>1. \A s \in SUBSET S : IsFiniteSet(s) /\ Cardinality(s) \in Nat
  BY FS_Subset, FS_CardinalityType
<1>2. Bad = {}
  <2> SUFFICES ASSUME Bad # {} PROVE FALSE
    OBVIOUS
  <2>1. PICK m \in Bad : \A n \in Bad : m <= n
    BY LeastNumber
  <2>2. PICK s \in SUBSET S : Cardinality(s) = m /\ Total(f, s) \notin Nat
    BY <2>1
  <2>3. s # {}
    BY <2>2, TotalEmpty
  <2>4. /\ s \ {Pick(s)} \in SUBSET S /\ Cardinality(s \ {Pick(s)}) = m - 1 /\ Pick(s) \in S
        /\ Cardinality(s \ {Pick(s)}) \in Nat /\ m \in Nat
    BY <1>1, <2>2, <2>3, Picked, Without
  <2>5. ~ (m <= m - 1)
    BY <2>4
  <2>6. Cardinality(s \ {Pick(s)}) \notin Bad
    BY <2>1, <2>4, <2>5
  <2>7. Total(f, s \ {Pick(s)}) \in Nat
    BY <2>4, <2>6
  <2>8. Total(f, s) = f[Pick(s)] + Total(f, s \ {Pick(s)})
    BY <1>1, <2>3, TotalStep
  <2> QED BY <2>2, <2>4, <2>7, <2>8
<1> QED BY <1>1, <1>2

\* The order of the elements does not matter.
LEMMA TotalWithout ==
    ASSUME NEW f, NEW S, IsFiniteSet(S), \A x \in S : f[x] \in Nat, NEW h \in S
    PROVE  Total(f, S) = f[h] + Total(f, S \ {h})
<1> DEFINE Right(s, k) == Total(f, s) = f[k] + Total(f, s \ {k})
           Bad == {n \in Nat : \E s \in SUBSET S : Cardinality(s) = n /\ \E k \in s : ~ Right(s, k)}
<1>1. \A s \in SUBSET S : /\ IsFiniteSet(s) /\ Cardinality(s) \in Nat /\ Total(f, s) \in Nat
  BY FS_Subset, FS_CardinalityType, TotalNat
<1>2. Bad = {}
  <2> SUFFICES ASSUME Bad # {} PROVE FALSE
    OBVIOUS
  <2>1. PICK m \in Bad : \A n \in Bad : m <= n
    BY LeastNumber
  <2>2. PICK s \in SUBSET S : Cardinality(s) = m /\ \E k \in s : ~ Right(s, k)
    BY <2>1
  <2>3. PICK k \in s : ~ Right(s, k)
    BY <2>2
  <2> DEFINE c == Pick(s)
  <2>4. c \in s /\ Total(f, s) = f[c] + Total(f, s \ {c})
    BY <1>1, Picked, TotalStep
  <2> HIDE DEF c
  <2>5. k # c
    BY <2>3, <2>4
  <2>6. \A x \in s : /\ s \ {x} \in SUBSET S /\ Cardinality(s \ {x}) = m - 1
                     /\ Cardinality(s \ {x}) \in Nat /\ m \in Nat
    BY <1>1, <2>2, Without
  <2>7. \A x \in s : Cardinality(s \ {x}) \notin Bad
    <3>1. ~ (m <= m - 1)
      BY <2>1
    <3> HIDE DEF Bad
    <3> QED BY <2>1, <2>6, <3>1
  <2>8. \A x \in s : \A y \in s \ {x} : Right(s \ {x}, y)
    <3> HIDE DEF Right
    <3> QED BY <2>6, <2>7
  <2>9. /\ Total(f, s \ {c}) = f[k] + Total(f, (s \ {c}) \ {k})
        /\ Total(f, s \ {k}) = f[c] + Total(f, (s \ {k}) \ {c})
    BY <2>3, <2>4, <2>5, <2>8
  <2>10. (s \ {c}) \ {k} = (s \ {k}) \ {c} /\ (s \ {c}) \ {k} \in SUBSET S
    OBVIOUS
  <2>11. f[c] \in Nat /\ f[k] \in Nat /\ Total(f, (s \ {c}) \ {k}) \in Nat
    BY <1>1, <2>3, <2>4, <2>10
  <2>12. Total(f, s) = f[k] + Total(f, s \ {k})
    <3> DEFINE rest == Total(f, (s \ {c}) \ {k})
    <3>1. /\ Total(f, s) = f[c] + (f[k] + rest) /\ Total(f, s \ {k}) = f[c] + rest
      BY <2>4, <2>9, <2>10
    <3>2. rest \in Nat
      BY <2>11
    <3> HIDE DEF rest
    <3> QED BY <2>11, <3>1, <3>2
  <2> QED BY <2>3, <2>12
<1>3. S \in SUBSET S /\ Cardinality(S) \in Nat
  BY <1>1
<1> QED BY <1>2, <1>3

\* A new element adds its amount.
LEMMA TotalWith ==
    ASSUME NEW f, NEW S, IsFiniteSet(S), NEW h, h \notin S, \A x \in S \cup {h} : f[x] \in Nat
    PROVE  Total(f, S \cup {h}) = f[h] + Total(f, S)
<1>1. IsFiniteSet(S \cup {h}) /\ (S \cup {h}) \ {h} = S /\ h \in S \cup {h}
  BY FS_AddElement
<1> QED BY <1>1, TotalWithout

\* More elements, or greater amounts, make no smaller sum.
LEMMA TotalGrows ==
    ASSUME NEW f, NEW g, NEW T, IsFiniteSet(T), NEW S \in SUBSET T,
           \A x \in T : g[x] \in Nat, \A x \in S : f[x] \in Nat /\ f[x] <= g[x]
    PROVE  Total(f, S) <= Total(g, T)
<1> DEFINE Right(u, t) == Total(f, u) <= Total(g, t)
           Bad == {n \in Nat : \E t \in SUBSET T : Cardinality(t) = n /\ \E u \in SUBSET t : u \subseteq S /\ ~ Right(u, t)}
<1>1. \A t \in SUBSET T : /\ IsFiniteSet(t) /\ Cardinality(t) \in Nat /\ Total(g, t) \in Nat
                          /\ t \subseteq S => Total(f, t) \in Nat
  BY FS_Subset, FS_CardinalityType, TotalNat
<1>2. Bad = {}
  <2> SUFFICES ASSUME Bad # {} PROVE FALSE
    OBVIOUS
  <2>1. PICK m \in Bad : \A n \in Bad : m <= n
    BY LeastNumber
  <2>2. PICK t \in SUBSET T : Cardinality(t) = m /\ \E u \in SUBSET t : u \subseteq S /\ ~ Right(u, t)
    BY <2>1
  <2>3. PICK u \in SUBSET t : u \subseteq S /\ ~ Right(u, t)
    BY <2>2
  <2>4. t # {}
    <3> SUFFICES ASSUME t = {} PROVE FALSE
      OBVIOUS
    <3>1. u = {} /\ Total(f, u) = 0 /\ Total(g, t) = 0
      BY TotalEmpty
    <3> QED BY <2>3, <3>1
  <2> DEFINE c == Pick(t)
             v == u \ {c}
             r == t \ {c}
  <2>5. c \in t /\ Total(g, t) = g[c] + Total(g, r)
    BY <1>1, <2>4, Picked, TotalStep
  <2> HIDE DEF c
  <2>6. r \in SUBSET T /\ Cardinality(r) = m - 1 /\ Cardinality(r) \in Nat /\ m \in Nat
    BY <1>1, <2>2, <2>5, Without
  <2>7. Cardinality(r) \notin Bad
    <3>1. ~ (m <= m - 1)
      BY <2>6
    <3> HIDE DEF Bad, r
    <3> QED BY <2>1, <2>6, <3>1
  <2>8. v \in SUBSET r /\ v \subseteq S
    BY <2>3
  <2>9. Right(v, r)
    <3> HIDE DEF Right, v, r
    <3> QED BY <2>6, <2>7, <2>8
  <2>10. g[c] \in Nat /\ Total(g, r) \in Nat /\ Total(f, v) \in Nat
    <3>1. v \in SUBSET T
      BY <2>8
    <3> HIDE DEF v, r
    <3> QED BY <1>1, <2>5, <2>6, <2>8, <3>1
  <2>11. CASE c \in u
    <3>1. IsFiniteSet(u) /\ (\A x \in u : f[x] \in Nat) /\ f[c] \in Nat /\ f[c] <= g[c]
      BY <1>1, <2>3, <2>11
    <3>2. Total(f, u) = f[c] + Total(f, v)
      BY <2>11, <3>1, TotalWithout
    <3> HIDE DEF v, r
    <3>3. f[c] + Total(f, v) <= g[c] + Total(g, r)
      BY <2>9, <2>10, <3>1
    <3> QED BY <2>3, <2>5, <3>2, <3>3
  <2>12. CASE c \notin u
    <3>1. v = u
      BY <2>12
    <3> HIDE DEF v, r
    <3>2. Total(f, v) <= g[c] + Total(g, r)
      BY <2>9, <2>10
    <3> QED BY <2>3, <2>5, <3>1, <3>2
  <2> QED BY <2>11, <2>12
<1>3. T \in SUBSET T /\ Cardinality(T) \in Nat
  BY <1>1
<1> HIDE DEF Right
<1>4. Right(S, T)
  BY <1>2, <1>3
<1> QED BY <1>4 DEF Right

\* A set costs no more than its part outside of another set and that set.
LEMMA TotalSplit ==
    ASSUME NEW f, NEW S, IsFiniteSet(S), NEW U, IsFiniteSet(U), \A x \in S \cup U : f[x] \in Nat
    PROVE  Total(f, S) <= Total(f, S \ U) + Total(f, U)
<1> DEFINE Right(u) == Total(f, S) <= Total(f, S \ u) + Total(f, u)
           Bad == {n \in Nat : \E u \in SUBSET U : Cardinality(u) = n /\ ~ Right(u)}
<1>1. \A u \in SUBSET U : /\ IsFiniteSet(u) /\ Cardinality(u) \in Nat /\ Total(f, u) \in Nat
                          /\ IsFiniteSet(S \ u) /\ Total(f, S \ u) \in Nat
  <2> SUFFICES ASSUME NEW u \in SUBSET U
               PROVE  /\ IsFiniteSet(u) /\ Cardinality(u) \in Nat /\ Total(f, u) \in Nat
                      /\ IsFiniteSet(S \ u) /\ Total(f, S \ u) \in Nat
    OBVIOUS
  <2>1. IsFiniteSet(u) /\ IsFiniteSet(S \ u)
    <3>1. S \ u \in SUBSET S
      OBVIOUS
    <3> QED BY <3>1, FS_Subset
  <2> QED BY <2>1, FS_CardinalityType, TotalNat
<1>2. Bad = {}
  <2> SUFFICES ASSUME Bad # {} PROVE FALSE
    OBVIOUS
  <2>1. PICK m \in Bad : \A n \in Bad : m <= n
    BY LeastNumber
  <2>2. PICK u \in SUBSET U : Cardinality(u) = m /\ ~ Right(u)
    BY <2>1
  <2>3. u # {}
    <3> SUFFICES ASSUME u = {} PROVE FALSE
      OBVIOUS
    <3>1. S \ u = S /\ Total(f, u) = 0 /\ Total(f, S) \in Nat
      BY <1>1, TotalEmpty
    <3> QED BY <2>2, <3>1
  <2> DEFINE c == Pick(u)
             v == u \ {c}
  <2>4. c \in u /\ Total(f, u) = f[c] + Total(f, v)
    BY <1>1, <2>3, Picked, TotalStep
  <2> HIDE DEF c
  <2>5. v \in SUBSET U /\ Cardinality(v) = m - 1 /\ Cardinality(v) \in Nat /\ m \in Nat
    BY <1>1, <2>2, <2>4, Without
  <2>6. Cardinality(v) \notin Bad
    <3>1. ~ (m <= m - 1)
      BY <2>5
    <3> HIDE DEF Bad, v
    <3> QED BY <2>1, <2>5, <3>1
  <2>7. Total(f, S) <= Total(f, S \ v) + Total(f, v)
    <3> HIDE DEF v
    <3> QED BY <2>5, <2>6
  <2>8. Total(f, S \ v) <= f[c] + Total(f, S \ u)
    <3>0. f[c] \in Nat /\ Total(f, S \ u) \in Nat
      BY <1>1, <2>4
    <3>1. CASE c \in S
      <4>1. c \in S \ v /\ (S \ v) \ {c} = S \ u
        BY <2>4, <3>1
      <4>2. IsFiniteSet(S \ v) /\ \A x \in S \ v : f[x] \in Nat
        BY <1>1, <2>5
      <4>3. Total(f, S \ v) = f[c] + Total(f, S \ u)
        BY <4>1, <4>2, TotalWithout
      <4> QED BY <3>0, <4>3
    <3>2. CASE c \notin S
      <4>1. S \ v = S \ u
        BY <2>4, <3>2
      <4>2. Total(f, S \ u) <= f[c] + Total(f, S \ u)
        BY <3>0
      <4> HIDE DEF v
      <4> QED BY <4>1, <4>2
    <3> QED BY <3>1, <3>2
  <2>9. /\ Total(f, S) \in Nat /\ Total(f, S \ v) \in Nat /\ Total(f, v) \in Nat /\ f[c] \in Nat
        /\ Total(f, S \ u) \in Nat /\ Total(f, u) \in Nat
    <3>1. Total(f, S) \in Nat
      BY TotalNat
    <3> QED BY <1>1, <2>4, <2>5, <3>1
  <2> HIDE DEF v
  <2> QED BY <2>2, <2>4, <2>7, <2>8, <2>9
<1>3. U \in SUBSET U /\ Cardinality(U) \in Nat
  BY <1>1
<1> HIDE DEF Right
<1>4. Right(U)
  BY <1>2, <1>3
<1> QED BY <1>4 DEF Right

\* The sum looks only at the amounts of the set.
LEMMA TotalSame ==
    ASSUME NEW f, NEW g, NEW S, IsFiniteSet(S), \A x \in S : f[x] \in Nat /\ g[x] = f[x]
    PROVE  Total(g, S) = Total(f, S)
<1>1. Total(f, S) \in Nat /\ Total(g, S) \in Nat
  BY TotalNat
<1>2. S \in SUBSET S /\ \A x \in S : f[x] \in Nat /\ g[x] \in Nat /\ f[x] <= g[x] /\ g[x] <= f[x]
  OBVIOUS
<1>3. Total(f, S) <= Total(g, S) /\ Total(g, S) <= Total(f, S)
  BY <1>2, TotalGrows
<1> QED BY <1>1, <1>3

=============================================================================
