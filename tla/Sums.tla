--------------------------------- MODULE Sums ---------------------------------
(***************************************************************************)
(* Sums over finite sets, for the proofs about amounts of money: what the  *)
(* operator SumFunctionOnSet of the community modules computes, whatever   *)
(* order its recursion takes the elements in.                              *)
(***************************************************************************)
EXTENDS Integers, FiniteSets, Functions, FiniteSetTheorems, WellFoundedInduction, TLAPS

Pick(s) == CHOOSE x \in s : TRUE

\* The recursion of SumFunctionOnSet over the sets that T holds
Adds(val, T, g) ==
    g = [s \in T |-> IF s = {} THEN 0 ELSE val[Pick(s)] + g[s \ {Pick(s)}]]

\* The least number of a set
LEMMA LeastNumber ==
    ASSUME NEW T, T \subseteq Nat, T # {}
    PROVE  \E n \in T : \A m \in T : n <= m
<1> DEFINE R == {ss \in Nat \X Nat : ss[1] < ss[2]}
<1>1. IsWellFoundedOn(R, Nat)
  BY NatLessThanWellFounded DEF OpToRel
<1>2. PICK n \in T : \A m \in T : ~(<<m, n>> \in R)
  BY <1>1, WFMin
<1>3. \A m \in T : ~(m < n)
  <2> TAKE m \in T
  <2>1. <<m, n>> \in Nat \X Nat /\ <<m, n>>[1] = m /\ <<m, n>>[2] = n
    OBVIOUS
  <2>2. m < n => <<m, n>> \in R
    BY <2>1
  <2> QED
    BY <1>2, <2>2
<1>4. \A m \in T : n <= m
  BY <1>3
<1> QED
  BY <1>4

\* A set of subsets of a finite set has one that includes no other.
LEMMA LeastSet ==
    ASSUME NEW S, IsFiniteSet(S), NEW T, T \subseteq SUBSET S, T # {}
    PROVE  \E U \in T : \A V \in T : V \subseteq U => V = U
<1> DEFINE R == StrictSubsetOrdering(S)
<1>1. IsWellFoundedOn(R, SUBSET S)
  BY FS_StrictSubsetOrderingWellFounded, FS_FiniteSubsetsOfFinite
<1>2. PICK U \in T : \A V \in T : ~(<<V, U>> \in R)
  <2> HIDE DEF R
  <2> QED
    BY <1>1, WFMin
<1>3. ASSUME NEW V \in T, V \subseteq U, V # U PROVE FALSE
  <2>1. <<V, U>> \in (SUBSET S) \X (SUBSET S) /\ <<V, U>>[1] = V /\ <<V, U>>[2] = U
    OBVIOUS
  <2>2. <<V, U>> \in R
    BY <2>1, <1>3 DEF StrictSubsetOrdering
  <2> QED
    BY <1>2, <2>2
<1> QED
  BY <1>3

LEMMA SumIsFold ==
    ASSUME NEW val, NEW S
    PROVE  SumFunctionOnSet(val, S) = (CHOOSE g : Adds(val, SUBSET S, g))[S]
BY DEF SumFunctionOnSet, FoldFunctionOnSet, MapThenFoldSet, Adds, Pick

LEMMA PickIn == ASSUME NEW s, s # {} PROVE Pick(s) \in s
BY DEF Pick

\* The recursion has a solution over the subsets of at most n elements, for
\* every n.
LEMMA AddsSmall ==
    ASSUME NEW val, NEW S, IsFiniteSet(S), NEW n \in Nat
    PROVE  \E g : Adds(val, {s \in SUBSET S : Cardinality(s) <= n}, g)
<1> DEFINE Small(k) == {s \in SUBSET S : Cardinality(s) <= k}
           Bad == {k \in Nat : ~ \E g : Adds(val, Small(k), g)}
<1>1. SUFFICES ASSUME Bad # {} PROVE FALSE
  OBVIOUS
<1>2. PICK k \in Bad : \A m \in Bad : k <= m
  BY <1>1, LeastNumber
<1>3. \A s \in SUBSET S : IsFiniteSet(s) /\ Cardinality(s) \in Nat
  BY FS_Subset, FS_CardinalityType
<1>4. CASE k = 0
  <2>1. Small(0) = {{}}
    <3>1. \A s \in SUBSET S : Cardinality(s) <= 0 <=> s = {}
      BY <1>3, FS_EmptySet
    <3> QED
      BY <3>1
  <2> DEFINE g == [s \in Small(0) |-> 0]
  <2>2. Adds(val, Small(0), g)
    BY <2>1 DEF Adds
  <2> QED
    BY <1>2, <1>4, <2>2
<1>5. CASE k # 0
  <2>1. k - 1 \in Nat /\ ~(k <= k - 1)
    BY <1>2, <1>5
  <2>8. k - 1 \notin Bad
    BY <1>2, <2>1
  <2>2. PICK g : Adds(val, Small(k - 1), g)
    BY <2>1, <2>8
  <2> DEFINE h == [s \in Small(k) |-> IF s = {} THEN 0 ELSE val[Pick(s)] + g[s \ {Pick(s)}]]
  <2>3. ASSUME NEW s \in Small(k), s # {} PROVE s \ {Pick(s)} \in Small(k - 1)
    <3>1. Pick(s) \in s /\ s \in SUBSET S /\ Cardinality(s) <= k
      BY <2>3, PickIn
    <3>2. Cardinality(s \ {Pick(s)}) = Cardinality(s) - 1
      BY <3>1, <1>3, FS_RemoveElement
    <3> QED
      BY <3>1, <3>2, <1>3
  <2>4. Small(k - 1) \subseteq Small(k)
    BY <1>3, <2>1
  <2>5. \A s \in Small(k - 1) : h[s] = g[s]
    BY <2>2, <2>4 DEF Adds
  <2>6. h = [s \in Small(k) |-> IF s = {} THEN 0 ELSE val[Pick(s)] + h[s \ {Pick(s)}]]
    <3> HIDE DEF Small
    <3> QED
      BY <2>3, <2>5
  <2>7. Adds(val, Small(k), h)
    BY <2>6 DEF Adds
  <2> QED
    BY <1>2, <2>7
<1> QED
  BY <1>4, <1>5

LEMMA AddsExists ==
    ASSUME NEW val, NEW S, IsFiniteSet(S)
    PROVE  Adds(val, SUBSET S, CHOOSE g : Adds(val, SUBSET S, g))
<1>1. Cardinality(S) \in Nat
  BY FS_CardinalityType
<1>2. {s \in SUBSET S : Cardinality(s) <= Cardinality(S)} = SUBSET S
  BY FS_Subset
<1>3. \A n \in Nat : \E g : Adds(val, {s \in SUBSET S : Cardinality(s) <= n}, g)
  BY AddsSmall
<1>4. \E g : Adds(val, SUBSET S, g)
  BY <1>1, <1>2, <1>3
<1> QED
  BY <1>4

\* Two solutions over subsets of S agree where they are both defined.
LEMMA AddsAgree ==
    ASSUME NEW val, NEW S, IsFiniteSet(S), NEW R \in SUBSET S,
           NEW g, NEW h, Adds(val, SUBSET S, g), Adds(val, SUBSET R, h)
    PROVE  \A s \in SUBSET R : g[s] = h[s]
<1> DEFINE Bad == {s \in SUBSET R : g[s] # h[s]}
<1>1. SUFFICES ASSUME Bad # {} PROVE FALSE
  OBVIOUS
<1>2. IsFiniteSet(R)
  BY FS_Subset
<1>3. PICK s \in Bad : \A v \in Bad : v \subseteq s => v = s
  <2>1. Bad \subseteq SUBSET R
    OBVIOUS
  <2> HIDE DEF Bad
  <2> QED
    BY <2>1, <1>1, <1>2, LeastSet
<1>4. s \in SUBSET R /\ s \in SUBSET S
  OBVIOUS
<1>5. /\ g[s] = IF s = {} THEN 0 ELSE val[Pick(s)] + g[s \ {Pick(s)}]
      /\ h[s] = IF s = {} THEN 0 ELSE val[Pick(s)] + h[s \ {Pick(s)}]
  BY <1>4 DEF Adds
<1>6. s # {}
  BY <1>3, <1>5
<1>7. Pick(s) \in s
  BY <1>6, PickIn
<1>8. s \ {Pick(s)} \in SUBSET R /\ s \ {Pick(s)} \notin Bad
  BY <1>3, <1>4, <1>7
<1>9. g[s \ {Pick(s)}] = h[s \ {Pick(s)}]
  BY <1>8
<1> QED
  BY <1>3, <1>5, <1>6, <1>9

\* The sum over a set, in the order that the recursion takes
LEMMA SumPicks ==
    ASSUME NEW val, NEW S, IsFiniteSet(S)
    PROVE  SumFunctionOnSet(val, S) =
             IF S = {} THEN 0
             ELSE val[Pick(S)] + SumFunctionOnSet(val, S \ {Pick(S)})
<1> DEFINE R == S \ {Pick(S)}
           g == CHOOSE x : Adds(val, SUBSET S, x)
           h == CHOOSE x : Adds(val, SUBSET R, x)
<1>1. R \in SUBSET S /\ IsFiniteSet(R)
  BY FS_Subset
<1>2. Adds(val, SUBSET S, g) /\ Adds(val, SUBSET R, h)
  BY <1>1, AddsExists
<1>3. SumFunctionOnSet(val, S) = g[S] /\ SumFunctionOnSet(val, R) = h[R]
  BY SumIsFold
<1> HIDE DEF g, h
<1>4. g[R] = h[R]
  <2>1. R \in SUBSET R
    OBVIOUS
  <2> HIDE DEF R
  <2> QED
    BY <1>1, <1>2, <2>1, AddsAgree
<1>5. S \in SUBSET S
  OBVIOUS
<1>6. g[S] = IF S = {} THEN 0 ELSE val[Pick(S)] + g[R]
  BY <1>2, <1>5 DEF Adds
<1> QED
  BY <1>3, <1>4, <1>6

LEMMA SumEmpty == ASSUME NEW val PROVE SumFunctionOnSet(val, {}) = 0
BY SumPicks, FS_EmptySet

\* The sum of integers is an integer, and of naturals a natural.
LEMMA SumType ==
    ASSUME NEW S, IsFiniteSet(S), NEW val, NEW T \in {Int, Nat}, \A x \in S : val[x] \in T
    PROVE  SumFunctionOnSet(val, S) \in T
<1> DEFINE Bad == {s \in SUBSET S : SumFunctionOnSet(val, s) \notin T}
<1>1. SUFFICES ASSUME Bad # {} PROVE FALSE
  OBVIOUS
<1>2. PICK s \in Bad : \A v \in Bad : v \subseteq s => v = s
  <2>1. Bad \subseteq SUBSET S
    OBVIOUS
  <2> HIDE DEF Bad
  <2> QED
    BY <2>1, <1>1, LeastSet
<1>3. IsFiniteSet(s) /\ s \in SUBSET S
  BY FS_Subset
<1>4. s # {}
  <2>1. SumFunctionOnSet(val, {}) = 0 /\ 0 \in T
    BY SumEmpty
  <2> QED
    BY <1>2, <2>1
<1>5. Pick(s) \in s
  BY <1>4, PickIn
<1>6. s \ {Pick(s)} \in SUBSET S /\ s \ {Pick(s)} \notin Bad
  BY <1>2, <1>3, <1>5
<1>7. SumFunctionOnSet(val, s \ {Pick(s)}) \in T /\ val[Pick(s)] \in T
  BY <1>3, <1>5, <1>6
<1>8. SumFunctionOnSet(val, s) = val[Pick(s)] + SumFunctionOnSet(val, s \ {Pick(s)})
  BY <1>3, <1>4, SumPicks
<1> QED
  BY <1>2, <1>7, <1>8

\* A sum may take any element first.
LEMMA SumRemove ==
    ASSUME NEW S, IsFiniteSet(S), NEW val, \A x \in S : val[x] \in Int, NEW a \in S
    PROVE  SumFunctionOnSet(val, S) = val[a] + SumFunctionOnSet(val, S \ {a})
<1> DEFINE F(s) == SumFunctionOnSet(val, s)
           Bad == {s \in SUBSET S : \E x \in s : F(s) # val[x] + F(s \ {x})}
<1>1. SUFFICES ASSUME Bad # {} PROVE FALSE
  OBVIOUS
<1>2. PICK s \in Bad : \A v \in Bad : v \subseteq s => v = s
  <2>1. Bad \subseteq SUBSET S
    OBVIOUS
  <2> HIDE DEF Bad
  <2> QED
    BY <2>1, <1>1, LeastSet
<1>3. PICK x \in s : F(s) # val[x] + F(s \ {x})
  BY <1>2
<1>4. s \in SUBSET S /\ IsFiniteSet(s)
  BY FS_Subset
<1> DEFINE y == Pick(s)
<1>5. y \in s /\ F(s) = val[y] + F(s \ {y})
  BY <1>4, <1>3, PickIn, SumPicks
<1> HIDE DEF y
<1>6. x # y
  BY <1>3, <1>5
<1>7. s \ {y} \notin Bad /\ s \ {x} \notin Bad
  BY <1>2, <1>3, <1>5
<1>8. F(s \ {y}) = val[x] + F((s \ {y}) \ {x}) /\ F(s \ {x}) = val[y] + F((s \ {x}) \ {y})
  BY <1>3, <1>4, <1>5, <1>6, <1>7
<1>9. (s \ {y}) \ {x} = (s \ {x}) \ {y}
  OBVIOUS
<1>10. IsFiniteSet((s \ {x}) \ {y}) /\ \A z \in (s \ {x}) \ {y} : val[z] \in Int
  BY <1>4, FS_RemoveElement
<1>11. F((s \ {x}) \ {y}) \in Int
  BY <1>10, SumType
<1>12. val[x] \in Int /\ val[y] \in Int
  BY <1>3, <1>4, <1>5
<1> HIDE DEF F, Bad
<1>13. F(s) = val[y] + (val[x] + F((s \ {x}) \ {y}))
  BY <1>5, <1>8, <1>9
<1>14. val[x] + F(s \ {x}) = val[x] + (val[y] + F((s \ {x}) \ {y}))
  BY <1>8
<1>15. val[y] + (val[x] + F((s \ {x}) \ {y})) = val[x] + (val[y] + F((s \ {x}) \ {y}))
  BY <1>11, <1>12
<1> QED
  BY <1>3, <1>13, <1>14, <1>15

LEMMA SumAdd ==
    ASSUME NEW S, IsFiniteSet(S), NEW a, a \notin S,
           NEW val, \A x \in S \cup {a} : val[x] \in Int
    PROVE  SumFunctionOnSet(val, S \cup {a}) = SumFunctionOnSet(val, S) + val[a]
<1>1. IsFiniteSet(S \cup {a}) /\ a \in S \cup {a} /\ (S \cup {a}) \ {a} = S
  BY FS_AddElement
<1>2. SumFunctionOnSet(val, S \cup {a}) = val[a] + SumFunctionOnSet(val, S)
  BY <1>1, SumRemove
<1>3. SumFunctionOnSet(val, S) \in Int
  BY SumType
<1> QED
  BY <1>2, <1>3

\* A sum depends on the values at the elements only.
LEMMA SumSame ==
    ASSUME NEW S, IsFiniteSet(S), NEW val, NEW wal, \A x \in S : val[x] = wal[x]
    PROVE  SumFunctionOnSet(val, S) = SumFunctionOnSet(wal, S)
<1> DEFINE Bad == {s \in SUBSET S : SumFunctionOnSet(val, s) # SumFunctionOnSet(wal, s)}
<1>1. SUFFICES ASSUME Bad # {} PROVE FALSE
  OBVIOUS
<1>2. PICK s \in Bad : \A v \in Bad : v \subseteq s => v = s
  <2>1. Bad \subseteq SUBSET S
    OBVIOUS
  <2> HIDE DEF Bad
  <2> QED
    BY <2>1, <1>1, LeastSet
<1>3. IsFiniteSet(s) /\ s \in SUBSET S
  BY FS_Subset
<1>4. s # {}
  BY <1>2, SumEmpty
<1>5. Pick(s) \in s
  BY <1>4, PickIn
<1>6. s \ {Pick(s)} \in SUBSET S /\ s \ {Pick(s)} \notin Bad
  BY <1>2, <1>3, <1>5
<1>7. /\ SumFunctionOnSet(val, s) = val[Pick(s)] + SumFunctionOnSet(val, s \ {Pick(s)})
      /\ SumFunctionOnSet(wal, s) = wal[Pick(s)] + SumFunctionOnSet(wal, s \ {Pick(s)})
  BY <1>3, <1>4, SumPicks
<1> QED
  BY <1>2, <1>3, <1>5, <1>6, <1>7

LEMMA SumZero ==
    ASSUME NEW S, IsFiniteSet(S), NEW val, \A x \in S : val[x] = 0
    PROVE  SumFunctionOnSet(val, S) = 0
<1> DEFINE Bad == {s \in SUBSET S : SumFunctionOnSet(val, s) # 0}
<1>1. SUFFICES ASSUME Bad # {} PROVE FALSE
  OBVIOUS
<1>2. PICK s \in Bad : \A v \in Bad : v \subseteq s => v = s
  <2>1. Bad \subseteq SUBSET S
    OBVIOUS
  <2> HIDE DEF Bad
  <2> QED
    BY <2>1, <1>1, LeastSet
<1>3. IsFiniteSet(s) /\ s \in SUBSET S
  BY FS_Subset
<1>4. s # {}
  BY <1>2, SumEmpty
<1>5. Pick(s) \in s
  BY <1>4, PickIn
<1>6. s \ {Pick(s)} \in SUBSET S /\ s \ {Pick(s)} \notin Bad
  BY <1>2, <1>3, <1>5
<1>7. SumFunctionOnSet(val, s) = val[Pick(s)] + SumFunctionOnSet(val, s \ {Pick(s)})
  BY <1>3, <1>4, SumPicks
<1> QED
  BY <1>2, <1>3, <1>5, <1>6, <1>7

\* The sum of sums
LEMMA SumPlus ==
    ASSUME NEW S, IsFiniteSet(S), NEW val, NEW wal, NEW zal,
           \A x \in S : val[x] \in Int /\ wal[x] \in Int /\ zal[x] = val[x] + wal[x]
    PROVE  SumFunctionOnSet(zal, S) = SumFunctionOnSet(val, S) + SumFunctionOnSet(wal, S)
<1> DEFINE Bad == {s \in SUBSET S :
                     SumFunctionOnSet(zal, s) # SumFunctionOnSet(val, s) + SumFunctionOnSet(wal, s)}
<1>1. SUFFICES ASSUME Bad # {} PROVE FALSE
  OBVIOUS
<1>2. PICK s \in Bad : \A v \in Bad : v \subseteq s => v = s
  <2>1. Bad \subseteq SUBSET S
    OBVIOUS
  <2> HIDE DEF Bad
  <2> QED
    BY <2>1, <1>1, LeastSet
<1>3. IsFiniteSet(s) /\ s \in SUBSET S
  BY FS_Subset
<1>4. s # {}
  <2>1. /\ SumFunctionOnSet(val, {}) = 0 /\ SumFunctionOnSet(wal, {}) = 0
        /\ SumFunctionOnSet(zal, {}) = 0
    BY SumEmpty
  <2>2. {} \notin Bad
    BY <2>1
  <2> QED
    BY <1>2, <2>2
<1> DEFINE x == Pick(s)
           r == s \ {x}
<1>5. x \in s
  BY <1>4, PickIn
<1>6. r \in SUBSET S /\ r \notin Bad
  BY <1>2, <1>3, <1>5
<1>7. /\ SumFunctionOnSet(val, s) = val[x] + SumFunctionOnSet(val, r)
      /\ SumFunctionOnSet(wal, s) = wal[x] + SumFunctionOnSet(wal, r)
      /\ SumFunctionOnSet(zal, s) = zal[x] + SumFunctionOnSet(zal, r)
  BY <1>3, <1>4, SumPicks
<1>8. SumFunctionOnSet(zal, r) = SumFunctionOnSet(val, r) + SumFunctionOnSet(wal, r)
  BY <1>6
<1>9. val[x] \in Int /\ wal[x] \in Int /\ zal[x] = val[x] + wal[x]
  BY <1>3, <1>5
<1>10. SumFunctionOnSet(val, r) \in Int /\ SumFunctionOnSet(wal, r) \in Int
  <2>1. IsFiniteSet(r) /\ \A y \in r : val[y] \in Int /\ wal[y] \in Int
    BY <1>6, FS_Subset
  <2> HIDE DEF r
  <2> QED
    BY <2>1, SumType
<1> HIDE DEF x, r
<1>11. SumFunctionOnSet(zal, s) = SumFunctionOnSet(val, s) + SumFunctionOnSet(wal, s)
  BY <1>7, <1>8, <1>9, <1>10
<1> QED
  BY <1>2, <1>11

\* A sum over two parts
LEMMA SumSplit ==
    ASSUME NEW S, IsFiniteSet(S), NEW val, \A x \in S : val[x] \in Int, NEW R \in SUBSET S
    PROVE  SumFunctionOnSet(val, S) = SumFunctionOnSet(val, R) + SumFunctionOnSet(val, S \ R)
<1> DEFINE Bad == {T \in SUBSET S :
                     SumFunctionOnSet(val, S) # SumFunctionOnSet(val, T) + SumFunctionOnSet(val, S \ T)}
<1>1. SUFFICES ASSUME Bad # {} PROVE FALSE
  OBVIOUS
<1>2. PICK T \in Bad : \A v \in Bad : v \subseteq T => v = T
  <2>1. Bad \subseteq SUBSET S
    OBVIOUS
  <2> HIDE DEF Bad
  <2> QED
    BY <2>1, <1>1, LeastSet
<1>3. SumFunctionOnSet(val, S) \in Int
  BY SumType
<1>4. T # {}
  <2>1. SumFunctionOnSet(val, {}) = 0 /\ S \ {} = S
    BY SumEmpty
  <2>2. {} \notin Bad
    BY <1>3, <2>1
  <2> QED
    BY <1>2, <2>2
<1>5. PICK x \in T : TRUE
  BY <1>4
<1>6. T \in SUBSET S /\ T \ {x} \in SUBSET S /\ T \ {x} \notin Bad
  BY <1>2, <1>5
<1>7. SumFunctionOnSet(val, S) = SumFunctionOnSet(val, T \ {x}) + SumFunctionOnSet(val, S \ (T \ {x}))
  BY <1>6
<1>8. /\ IsFiniteSet(T) /\ IsFiniteSet(S \ (T \ {x})) /\ IsFiniteSet(T \ {x}) /\ IsFiniteSet(S \ T)
      /\ x \in T /\ x \in S \ (T \ {x})
      /\ (S \ (T \ {x})) \ {x} = S \ T
  <2>1. S \ (T \ {x}) \in SUBSET S /\ S \ T \in SUBSET S
    OBVIOUS
  <2> QED
    BY <1>6, <2>1, FS_Subset
<1>9. SumFunctionOnSet(val, T) = val[x] + SumFunctionOnSet(val, T \ {x})
  BY <1>6, <1>8, SumRemove
<1>10. SumFunctionOnSet(val, S \ (T \ {x})) = val[x] + SumFunctionOnSet(val, S \ T)
  <2> DEFINE U == S \ (T \ {x})
  <2>1. \A y \in U : val[y] \in Int
    OBVIOUS
  <2>2. x \in U /\ IsFiniteSet(U) /\ U \ {x} = S \ T
    BY <1>8
  <2> HIDE DEF U
  <2>3. SumFunctionOnSet(val, U) = val[x] + SumFunctionOnSet(val, U \ {x})
    BY <2>1, <2>2, SumRemove
  <2> QED
    BY <2>2, <2>3 DEF U
<1>11. /\ SumFunctionOnSet(val, T \ {x}) \in Int /\ SumFunctionOnSet(val, S \ T) \in Int
       /\ val[x] \in Int
  BY <1>6, <1>8, SumType
<1> HIDE DEF Bad
<1>12. SumFunctionOnSet(val, S) = SumFunctionOnSet(val, T) + SumFunctionOnSet(val, S \ T)
  BY <1>7, <1>9, <1>10, <1>11
<1> QED
  BY <1>2, <1>12 DEF Bad

\* Numbers that are k at least add up to as many times k.
LEMMA SumAtLeast ==
    ASSUME NEW S, IsFiniteSet(S), NEW k \in Int, NEW val,
           \A x \in S : val[x] \in Int /\ val[x] >= k
    PROVE  SumFunctionOnSet(val, S) >= Cardinality(S) * k
<1> DEFINE Bad == {s \in SUBSET S : ~(SumFunctionOnSet(val, s) >= Cardinality(s) * k)}
<1>1. SUFFICES ASSUME Bad # {} PROVE FALSE
  OBVIOUS
<1>2. PICK s \in Bad : \A v \in Bad : v \subseteq s => v = s
  <2>1. Bad \subseteq SUBSET S
    OBVIOUS
  <2> HIDE DEF Bad
  <2> QED
    BY <2>1, <1>1, LeastSet
<1>3. IsFiniteSet(s) /\ s \in SUBSET S
  BY FS_Subset
<1>4. s # {}
  <2>1. SumFunctionOnSet(val, {}) = 0 /\ Cardinality({}) = 0
    BY SumEmpty, FS_EmptySet
  <2>2. {} \notin Bad
    <3>1. 0 * k = 0 /\ 0 >= 0
      OBVIOUS
    <3> QED
      BY <2>1, <3>1
  <2> QED
    BY <1>2, <2>2
<1> DEFINE x == Pick(s)
           r == s \ {x}
<1>5. x \in s
  BY <1>4, PickIn
<1>6. r \in SUBSET S /\ r \notin Bad
  BY <1>2, <1>3, <1>5
<1>7. SumFunctionOnSet(val, s) = val[x] + SumFunctionOnSet(val, r)
  BY <1>3, <1>4, SumPicks
<1>8. Cardinality(r) = Cardinality(s) - 1 /\ Cardinality(s) \in Nat /\ IsFiniteSet(r)
  BY <1>3, <1>5, FS_RemoveElement, FS_CardinalityType
<1>9. SumFunctionOnSet(val, r) \in Int
  <2>1. \A y \in r : val[y] \in Int
    BY <1>6
  <2> HIDE DEF r
  <2> QED
    BY <2>1, <1>8, SumType
<1>10. SumFunctionOnSet(val, r) >= Cardinality(r) * k
  BY <1>6
<1>11. val[x] \in Int /\ val[x] >= k
  BY <1>3, <1>5
<1> HIDE DEF x, r
<1>12. Cardinality(r) * k = Cardinality(s) * k - k
  BY <1>8
<1>13. Cardinality(s) * k \in Int
  BY <1>8
<1>14. SumFunctionOnSet(val, s) >= Cardinality(s) * k
  BY <1>7, <1>9, <1>10, <1>11, <1>12, <1>13
<1> QED
  BY <1>2, <1>14
================================================================================
