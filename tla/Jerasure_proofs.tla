--------------------------- MODULE Jerasure_proofs ---------------------------
(***************************************************************************)
(* Proofs about the bit matrices of S/jerasure.c and S/galois.c, for every *)
(* number of drives, every packet width and every matrix.                  *)
(***************************************************************************)
EXTENDS Jerasure, FiniteSetTheorems, SequenceTheorems, TLAPS

(***************************************************************************)
(* Induction.  Each loop of the library has an instance of Loops_proofs.   *)
(***************************************************************************)
TriangularStep(p, s, i) == EliminateColumn(s, i, p.rows)

BinaryRows(n) == [0..n-1 -> SUBSET (0..n-1)]

\* Before column i: the rows are the sums of the rows of the original that inv
\* says, and the columns before i are those of a triangular matrix.
TriangularInv(p, s, i) ==
  /\ s \in [ok : BOOLEAN, mat : BinaryRows(p.rows), inv : BinaryRows(p.rows)]
  /\ \A j \in 0..p.rows-1 : XorAll(p.mat, s.inv[j]) = s.mat[j]
  /\ s.ok => \A c \in 0..i-1 : c \in s.mat[c] /\ \A j \in c+1..p.rows-1 : c \notin s.mat[j]

Tri == INSTANCE Loops_proofs WITH Step <- TriangularStep, Inv <- TriangularInv

\* An induction up to n, and one that adds the members of a finite set.
LEMMA Induct ==
  ASSUME NEW n \in Nat, NEW F, 0 \in F, \A i \in 0..n-1 : i \in F => i + 1 \in F
  PROVE  \A i \in 0..n : i \in F
<1> DEFINE T == {i \in 0..n : i \notin F}
<1> SUFFICES ASSUME T # {} PROVE FALSE
  OBVIOUS
<1>1. T \in SUBSET Nat
  OBVIOUS
<1>2. PICK i \in T : \A y \in T : i <= y
  BY <1>1, Tri!Least
<1>3. i - 1 \in 0..n-1 /\ i - 1 \in 0..n /\ i - 1 \notin T /\ (i - 1) + 1 = i
  BY <1>1, <1>2
<1> QED BY <1>2, <1>3

\* A set of subsets that has the empty set and, with every subset, the subset with
\* one more member, has the whole of a finite set.
LEMMA SetInduct ==
  ASSUME NEW S, IsFiniteSet(S), NEW F, {} \in F,
         \A T \in SUBSET S : \A x \in S \ T : T \in F => T \cup {x} \in F
  PROVE  S \in F
<1> DEFINE N == {Cardinality(T) : T \in {U \in SUBSET S : U \notin F}}
<1>c. \A T \in SUBSET S : IsFiniteSet(T) /\ Cardinality(T) \in Nat
  BY FS_Subset, FS_CardinalityType
<1> SUFFICES ASSUME N # {} PROVE FALSE
  OBVIOUS
<1>1. N \in SUBSET Nat
  BY <1>c
<1>2. PICK n \in N : \A y \in N : n <= y
  BY <1>1, Tri!Least
<1>3. PICK T \in SUBSET S : T \notin F /\ n = Cardinality(T)
  BY <1>2
<1>4. PICK x : x \in T
  BY <1>3
<1> DEFINE R == T \ {x}
<1>5. R \in SUBSET S /\ x \in S \ R /\ R \cup {x} = T
  BY <1>4
<1>6. Cardinality(R) = n - 1 /\ n \in Nat
  BY <1>3, <1>4, <1>c, FS_RemoveElement
<1>7. R \notin F
  BY <1>3, <1>5
<1>8. n - 1 \in N
  BY <1>5, <1>6, <1>7
<1>9. ~ n <= n - 1
  BY <1>6
<1> HIDE DEF N
<1> QED BY <1>2, <1>8, <1>9

(***************************************************************************)
(* Sums                                                                    *)
(***************************************************************************)
Pick(S) == CHOOSE x \in S : TRUE
Sums(it, g, D) == it = [s \in D |-> IF s = {} THEN Zero ELSE Xor(g[Pick(s)], it[s \ {Pick(s)}])]
Small(S, n) == {s \in SUBSET S : Cardinality(s) <= n}

\* Over a finite set there is a function that sums every subset term by term.
LEMMA SumsExist ==
  ASSUME NEW g, NEW S, IsFiniteSet(S)
  PROVE  \E it : Sums(it, g, SUBSET S)
<1>c. \A s \in SUBSET S : IsFiniteSet(s) /\ Cardinality(s) \in Nat
  BY FS_Subset, FS_CardinalityType
<1>r. \A s \in SUBSET S : s # {} => /\ Pick(s) \in s
                                    /\ s \ {Pick(s)} \in SUBSET S
                                    /\ Cardinality(s \ {Pick(s)}) = Cardinality(s) - 1
  BY <1>c, FS_RemoveElement DEF Pick
<1> DEFINE T == {n \in Nat : ~ \E it : Sums(it, g, Small(S, n))}
<1>1. T = {}
  <2> SUFFICES ASSUME T # {} PROVE FALSE
    OBVIOUS
  <2>1. PICK n \in T : \A y \in T : n <= y
    BY Tri!Least
  <2>2. n # 0
    <3>1. Small(S, 0) = {{}}
      BY <1>c, FS_EmptySet DEF Small
    <3>2. Sums([s \in {{}} |-> Zero], g, {{}})
      BY DEF Sums
    <3> QED BY <3>1, <3>2
  <2>3. n \in Nat /\ n - 1 \in Nat /\ n - 1 \notin T
    BY <2>1, <2>2
  <2>4. PICK it : Sums(it, g, Small(S, n - 1))
    BY <2>3
  <2> DEFINE new == [s \in Small(S, n) |-> IF s = {} THEN Zero ELSE Xor(g[Pick(s)], it[s \ {Pick(s)}])]
  <2>5. \A s \in Small(S, n - 1) : s \in Small(S, n) /\ new[s] = it[s]
    <3>1. \A s \in Small(S, n - 1) : s \in Small(S, n)
      BY <2>3, <1>c DEF Small
    <3> QED BY <3>1, <2>4 DEF Sums
  <2>6. \A s \in Small(S, n) : s # {} => s \ {Pick(s)} \in Small(S, n - 1)
    BY <2>3, <1>c, <1>r DEF Small
  <2>7. new = [s \in Small(S, n) |-> IF s = {} THEN Zero ELSE Xor(g[Pick(s)], new[s \ {Pick(s)}])]
    BY <2>5, <2>6
  <2>8. Sums(new, g, Small(S, n))
    BY <2>7 DEF Sums
  <2> QED BY <2>1, <2>8
<1>2. Small(S, Cardinality(S)) = SUBSET S
  BY FS_Subset, <1>c DEF Small
<1>3. Cardinality(S) \in Nat
  BY FS_CardinalityType
<1>4. Cardinality(S) \notin T
  BY <1>1
<1> QED BY <1>2, <1>3, <1>4

\* XorAll is the value of such a function: which one does not matter.
LEMMA XorAllIs ==
  ASSUME NEW g, NEW S, IsFiniteSet(S)
  PROVE  \E it : Sums(it, g, SUBSET S) /\ XorAll(g, S) = it[S]
<1>1. XorAll(g, S) = (CHOOSE it : Sums(it, g, SUBSET S))[S]
  BY DEF XorAll, FoldFunctionOnSet, MapThenFoldSet, Sums, Pick
<1> QED BY <1>1, SumsExist

\* The sums over the subsets of a set do not depend on the set.
LEMMA SumsUnique ==
  ASSUME NEW g, NEW S, IsFiniteSet(S), NEW T \in SUBSET S, NEW a, NEW b,
         Sums(a, g, SUBSET S), Sums(b, g, SUBSET T)
  PROVE  a[T] = b[T]
<1>c. \A s \in SUBSET T : IsFiniteSet(s) /\ Cardinality(s) \in Nat /\ s \in SUBSET S
  BY FS_Subset, FS_CardinalityType
<1>r. \A s \in SUBSET T : s # {} => /\ Pick(s) \in s /\ s \ {Pick(s)} \in SUBSET T
                                    /\ Cardinality(s \ {Pick(s)}) = Cardinality(s) - 1
  BY <1>c, FS_RemoveElement DEF Pick
<1> DEFINE N == {Cardinality(s) : s \in {u \in SUBSET T : a[u] # b[u]}}
<1>1. SUFFICES ASSUME N # {} PROVE FALSE
  OBVIOUS
<1>2. N \in SUBSET Nat
  BY <1>c
<1>3. PICK n \in N : \A y \in N : n <= y
  BY <1>1, <1>2, Tri!Least
<1>4. PICK s \in SUBSET T : a[s] # b[s] /\ n = Cardinality(s)
  BY <1>3
<1>5. /\ a[s] = IF s = {} THEN Zero ELSE Xor(g[Pick(s)], a[s \ {Pick(s)}])
      /\ b[s] = IF s = {} THEN Zero ELSE Xor(g[Pick(s)], b[s \ {Pick(s)}])
  BY <1>c DEF Sums
<1>6. s # {} /\ a[s \ {Pick(s)}] # b[s \ {Pick(s)}]
  BY <1>4, <1>5
<1>7. s \ {Pick(s)} \in SUBSET T /\ Cardinality(s \ {Pick(s)}) = n - 1
  BY <1>4, <1>6, <1>r
<1>8. n - 1 \in N
  BY <1>6, <1>7
<1> HIDE DEF N
<1>9. n \in Nat /\ n <= n - 1
  BY <1>2, <1>3, <1>8
<1> QED BY <1>9

\* The sum over no indices, and over one more than before.
LEMMA XorAllStep ==
  ASSUME NEW g, NEW S, IsFiniteSet(S)
  PROVE  XorAll(g, S) = IF S = {} THEN Zero ELSE Xor(g[Pick(S)], XorAll(g, S \ {Pick(S)}))
<1>1. PICK a : Sums(a, g, SUBSET S) /\ XorAll(g, S) = a[S]
  BY XorAllIs
<1>2. CASE S = {}
  BY <1>1, <1>2 DEF Sums
<1>3. CASE S # {}
  <2> DEFINE T == S \ {Pick(S)}
  <2>1. IsFiniteSet(T) /\ T \in SUBSET S
    BY FS_Subset
  <2>2. PICK b : Sums(b, g, SUBSET T) /\ XorAll(g, T) = b[T]
    BY <2>1, XorAllIs
  <2>3. a[T] = b[T]
    BY <1>1, <2>1, <2>2, SumsUnique
  <2>4. a[S] = Xor(g[Pick(S)], a[T])
    BY <1>1, <1>3 DEF Sums
  <2> QED BY <1>1, <1>3, <2>2, <2>3, <2>4
<1> QED BY <1>2, <1>3

\* Exclusive or of sets: Zero is neutral, a set cancels itself, order and grouping
\* do not matter.
LEMMA Xors ==
  /\ \A x : Xor(x, Zero) = x /\ Xor(Zero, x) = x /\ Xor(x, x) = Zero
  /\ \A x, y : Xor(x, y) = Xor(y, x)
  /\ \A x, y, z : Xor(x, Xor(y, z)) = Xor(y, Xor(x, z)) /\ Xor(Xor(x, y), z) = Xor(x, Xor(y, z))
BY DEF Xor, SymDiff, Zero

\* The sum of no term.
LEMMA XorAllEmpty == \A g : XorAll(g, {}) = Zero
BY XorAllStep, FS_EmptySet

\* The sum with one more term.
LEMMA XorAllAdd ==
  ASSUME NEW g, NEW S, IsFiniteSet(S), NEW x, x \notin S
  PROVE  XorAll(g, S \cup {x}) = Xor(g[x], XorAll(g, S))
<1> DEFINE Wrong(s) == \E y : y \notin s /\ XorAll(g, s \cup {y}) # Xor(g[y], XorAll(g, s))
           N == {n \in Nat : \E s : IsFiniteSet(s) /\ Cardinality(s) = n /\ Wrong(s)}
<1>1. SUFFICES ASSUME N # {} PROVE FALSE
  BY FS_CardinalityType
<1>2. PICK n \in N : \A m \in N : n <= m
  BY <1>1, Tri!Least
<1>3. PICK s : IsFiniteSet(s) /\ Cardinality(s) = n /\ Wrong(s)
  BY <1>2
<1>4. PICK y : y \notin s /\ XorAll(g, s \cup {y}) # Xor(g[y], XorAll(g, s))
  BY <1>3
<1> DEFINE z == Pick(s \cup {y})
           r == s \ {z}
<1>5. z \in s \cup {y} /\ IsFiniteSet(s \cup {y})
  BY <1>3, FS_AddElement DEF Pick
<1>6. XorAll(g, s \cup {y}) = Xor(g[z], XorAll(g, (s \cup {y}) \ {z}))
  BY <1>5, XorAllStep
<1>7. z # y
  <2> SUFFICES ASSUME z = y PROVE FALSE
    OBVIOUS
  <2>1. (s \cup {y}) \ {z} = s
    BY <1>4
  <2> QED BY <1>4, <1>6, <2>1
<1>8. z \in s /\ (s \cup {y}) \ {z} = r \cup {y} /\ y \notin r /\ z \notin r /\ r \cup {z} = s
  BY <1>4, <1>5, <1>7
<1>9. IsFiniteSet(r) /\ Cardinality(r) = n - 1 /\ n - 1 \in Nat
  <2>1. IsFiniteSet(r) /\ Cardinality(r) = n - 1
    BY <1>3, <1>8, FS_RemoveElement
  <2> QED BY <2>1, FS_CardinalityType
<1>10. ~ Wrong(r)
  <2>1. n - 1 \notin N
    <3>1. n \in Nat
      BY <1>2
    <3>2. ~ n <= n - 1
      BY <3>1
    <3> HIDE DEF N
    <3> QED BY <1>2, <3>2
  <2> QED BY <1>9, <2>1
<1>11. XorAll(g, r \cup {y}) = Xor(g[y], XorAll(g, r)) /\ XorAll(g, s) = Xor(g[z], XorAll(g, r))
  BY <1>8, <1>10
<1> HIDE DEF z, r
<1>12. XorAll(g, s \cup {y}) = Xor(g[z], Xor(g[y], XorAll(g, r)))
  BY <1>6, <1>8, <1>11
<1>13. Xor(g[z], Xor(g[y], XorAll(g, r))) = Xor(g[y], Xor(g[z], XorAll(g, r)))
  BY Xors
<1> QED BY <1>4, <1>11, <1>12, <1>13

\* One index more or less.
LEMMA XorAllToggle ==
  ASSUME NEW g, NEW S, IsFiniteSet(S), NEW x
  PROVE  XorAll(g, Xor(S, {x})) = Xor(g[x], XorAll(g, S))
<1>1. CASE x \notin S
  <2>1. Xor(S, {x}) = S \cup {x}
    BY <1>1 DEF Xor, SymDiff
  <2> QED BY <1>1, <2>1, XorAllAdd
<1>2. CASE x \in S
  <2> DEFINE T == S \ {x}
  <2>1. Xor(S, {x}) = T /\ S = T \cup {x} /\ x \notin T
    BY <1>2 DEF Xor, SymDiff
  <2>2. IsFiniteSet(T)
    BY FS_Subset
  <2>3. XorAll(g, S) = Xor(g[x], XorAll(g, T))
    BY <2>1, <2>2, XorAllAdd
  <2> HIDE DEF T
  <2> QED BY <2>1, <2>3, Xors
<1> QED BY <1>1, <1>2

\* Sums are linear.
LEMMA XorAllXor ==
  ASSUME NEW g, NEW S, IsFiniteSet(S), NEW T, IsFiniteSet(T)
  PROVE  XorAll(g, Xor(S, T)) = Xor(XorAll(g, S), XorAll(g, T))
<1> DEFINE Wrong(t) == \E s : IsFiniteSet(s) /\ XorAll(g, Xor(s, t)) # Xor(XorAll(g, s), XorAll(g, t))
           N == {n \in Nat : \E t : IsFiniteSet(t) /\ Cardinality(t) = n /\ Wrong(t)}
<1>1. SUFFICES ASSUME N # {} PROVE FALSE
  BY FS_CardinalityType
<1>2. PICK n \in N : \A m \in N : n <= m
  BY <1>1, Tri!Least
<1>3. PICK t : IsFiniteSet(t) /\ Cardinality(t) = n /\ Wrong(t)
  BY <1>2
<1>4. PICK s : IsFiniteSet(s) /\ XorAll(g, Xor(s, t)) # Xor(XorAll(g, s), XorAll(g, t))
  BY <1>3
<1>5. t # {}
  BY <1>4, XorAllEmpty, Xors DEF Zero
<1>6. PICK x : x \in t
  BY <1>5
<1> DEFINE r == t \ {x}
<1>7. IsFiniteSet(r) /\ Cardinality(r) = n - 1 /\ n - 1 \in Nat
  <2>1. IsFiniteSet(r) /\ Cardinality(r) = n - 1
    BY <1>3, <1>6, FS_RemoveElement
  <2> QED BY <2>1, FS_CardinalityType
<1>8. ~ Wrong(r)
  BY <1>2, <1>7
<1>9. Xor(s, t) = Xor(Xor(s, {x}), r) /\ t = Xor(r, {x})
  BY <1>6 DEF Xor, SymDiff
<1>10. IsFiniteSet(Xor(s, {x}))
  <2>1. Xor(s, {x}) \in SUBSET (s \cup {x})
    BY DEF Xor, SymDiff
  <2> QED BY <1>4, <2>1, FS_AddElement, FS_Subset
<1>11. /\ XorAll(g, Xor(Xor(s, {x}), r)) = Xor(XorAll(g, Xor(s, {x})), XorAll(g, r))
       /\ XorAll(g, Xor(s, {x})) = Xor(g[x], XorAll(g, s))
       /\ XorAll(g, Xor(r, {x})) = Xor(g[x], XorAll(g, r))
  BY <1>4, <1>7, <1>8, <1>10, XorAllToggle
<1> HIDE DEF r
<1> QED BY <1>4, <1>9, <1>11, Xors
\* Only the summands count.
LEMMA XorAllSame ==
  ASSUME NEW f, NEW g, NEW S, IsFiniteSet(S), \A x \in S : f[x] = g[x]
  PROVE  XorAll(f, S) = XorAll(g, S)
<1> DEFINE F == {T \in SUBSET S : XorAll(f, T) = XorAll(g, T)}
<1>1. {} \in F
  BY XorAllEmpty
<1>2. ASSUME NEW T \in SUBSET S, NEW x \in S \ T, T \in F
      PROVE  T \cup {x} \in F
  <2>1. IsFiniteSet(T) /\ x \notin T
    BY FS_Subset
  <2>2. XorAll(f, T \cup {x}) = Xor(f[x], XorAll(f, T)) /\ XorAll(g, T \cup {x}) = Xor(g[x], XorAll(g, T))
    BY <2>1, XorAllAdd
  <2>3. f[x] = g[x] /\ XorAll(f, T) = XorAll(g, T) /\ T \cup {x} \in SUBSET S
    BY <1>2
  <2> QED BY <2>2, <2>3
<1>3. S \in F
  <2> HIDE DEF F
  <2> QED BY <1>1, <1>2, SetInduct
<1> QED BY <1>3

\* The sum of summands that have nothing in common is their union.
LEMMA XorAllUnion ==
  ASSUME NEW g, NEW S, IsFiniteSet(S), \A x, y \in S : x # y => g[x] \cap g[y] = {}
  PROVE  XorAll(g, S) = UNION {g[x] : x \in S}
<1> DEFINE F == {T \in SUBSET S : XorAll(g, T) = UNION {g[x] : x \in T}}
<1>1. {} \in F
  BY XorAllEmpty DEF Zero
<1>2. ASSUME NEW T \in SUBSET S, NEW x \in S \ T, T \in F
      PROVE  T \cup {x} \in F
  <2>1. IsFiniteSet(T) /\ x \notin T
    BY FS_Subset
  <2>2. XorAll(g, T \cup {x}) = Xor(g[x], UNION {g[y] : y \in T})
    BY <1>2, <2>1, XorAllAdd
  <2>3. g[x] \cap UNION {g[y] : y \in T} = {}
    OBVIOUS
  <2>4. Xor(g[x], UNION {g[y] : y \in T}) = g[x] \cup UNION {g[y] : y \in T}
    BY <2>3 DEF Xor, SymDiff
  <2>5. g[x] \cup UNION {g[y] : y \in T} = UNION {g[y] : y \in T \cup {x}}
    OBVIOUS
  <2> QED BY <2>2, <2>4, <2>5
<1>3. S \in F
  <2> HIDE DEF F
  <2> QED BY <1>1, <1>2, SetInduct
<1> QED BY <1>3

\* Packets that hold themselves only add up to the set of them.
LEMMA XorAllOwn ==
  ASSUME NEW g, NEW S, IsFiniteSet(S), \A x \in S : g[x] = {x}
  PROVE  XorAll(g, S) = S
<1>1. XorAll(g, S) = UNION {g[x] : x \in S}
  BY XorAllUnion
<1> QED BY <1>1

\* The sum of one term.
LEMMA XorAllOne ==
  ASSUME NEW g, NEW x
  PROVE  XorAll(g, {x}) = g[x]
<1>1. XorAll(g, {} \cup {x}) = Xor(g[x], XorAll(g, {}))
  BY XorAllAdd, FS_EmptySet
<1>2. {} \cup {x} = {x}
  OBVIOUS
<1> QED BY <1>1, <1>2, XorAllEmpty, Xors

(***************************************************************************)
(* The inverse of a bit matrix                                             *)
(***************************************************************************)
LEMMA RowsAreFinite ==
  ASSUME NEW n \in Nat, NEW mat \in BinaryRows(n), NEW j \in 0..n-1
  PROVE  IsFiniteSet(mat[j])
<1>1. IsFiniteSet(0..n-1)
  BY FS_Interval
<1>2. mat[j] \in SUBSET (0..n-1)
  BY DEF BinaryRows
<1> QED BY <1>1, <1>2, FS_Subset

\* Bringing up a pivot and clearing the column below it keeps the rows what inv
\* says, and makes the matrix triangular in one more column.
LEMMA ColumnEliminated ==
  ASSUME NEW p, p.rows \in Nat, NEW i \in 0..p.rows-1, NEW s, TriangularInv(p, s, i)
  PROVE  TriangularInv(p, TriangularStep(p, s, i), i + 1)
<1> DEFINE n == p.rows
           R == 0..n-1
           pivots == {j \in i..n-1 : i \in s.mat[j]}
           q == Min(pivots)
           swapped == SwapRows(s.mat, i, q)
           inverse == SwapRows(s.inv, i, q)
           t == TriangularStep(p, s, i)
<1>t. s \in [ok : BOOLEAN, mat : BinaryRows(n), inv : BinaryRows(n)]
  BY DEF TriangularInv
<1>1. CASE ~s.ok \/ pivots = {}
  <2>1. t = [s EXCEPT !.ok = FALSE]
    BY <1>1 DEF TriangularStep, EliminateColumn
  <2>2. t.mat = s.mat /\ t.inv = s.inv /\ t.ok = FALSE /\ t \in [ok : BOOLEAN, mat : BinaryRows(n), inv : BinaryRows(n)]
    BY <1>t, <2>1
  <2> HIDE DEF t
  <2> QED BY <2>2 DEF TriangularInv, t
<1>2. CASE s.ok /\ pivots # {}
  <2>1. q \in i..n-1 /\ i \in s.mat[q]
    <3>1. pivots \in SUBSET Nat
      OBVIOUS
    <3>2. \E x \in pivots : \A y \in pivots : x <= y
      BY <1>2, <3>1, Tri!Least
    <3>3. q \in pivots
      BY <3>2 DEF Min
    <3> QED BY <3>3
  <2>2. t = ClearBelow(swapped, inverse, i)
    BY <1>2 DEF TriangularStep, EliminateColumn
  <2> HIDE DEF q, t
  <2>3. i \in R /\ q \in R /\ s.mat \in BinaryRows(n) /\ s.inv \in BinaryRows(n)
    BY <1>t, <2>1
  <2>4. /\ swapped \in BinaryRows(n)
        /\ \A j \in R : swapped[j] = IF j = q THEN s.mat[i] ELSE IF j = i THEN s.mat[q] ELSE s.mat[j]
    BY <2>3 DEF SwapRows, BinaryRows
  <2>5. /\ inverse \in BinaryRows(n)
        /\ \A j \in R : inverse[j] = IF j = q THEN s.inv[i] ELSE IF j = i THEN s.inv[q] ELSE s.inv[j]
    BY <2>3 DEF SwapRows, BinaryRows
  <2> HIDE DEF swapped, inverse
  <2>6. \A j \in R : XorAll(p.mat, inverse[j]) = swapped[j]
    BY <2>3, <2>4, <2>5 DEF TriangularInv
  <2>7. /\ t.ok = TRUE
        /\ t.mat = [j \in R |-> IF j > i /\ i \in swapped[j] THEN Xor(swapped[j], swapped[i]) ELSE swapped[j]]
        /\ t.inv = [j \in R |-> IF j > i /\ i \in swapped[j] THEN Xor(inverse[j], inverse[i]) ELSE inverse[j]]
    BY <2>2, <2>4, <2>5 DEF ClearBelow, BinaryRows
  <2>8. t \in [ok : BOOLEAN, mat : BinaryRows(n), inv : BinaryRows(n)]
    <3>1. \A a, b \in SUBSET R : Xor(a, b) \in SUBSET R
      BY DEF Xor, SymDiff
    <3>2. \A f \in BinaryRows(n) : [j \in R |-> IF j > i /\ i \in swapped[j] THEN Xor(f[j], f[i]) ELSE f[j]]
                                      \in BinaryRows(n)
      BY <2>3, <3>1 DEF BinaryRows
    <3>3. t.mat \in BinaryRows(n) /\ t.inv \in BinaryRows(n)
      BY <2>4, <2>5, <2>7, <3>2
    <3>4. t \in [ok : {TRUE}, mat : {t.mat}, inv : {t.inv}]
      BY <2>2, <2>7 DEF ClearBelow
    <3> QED BY <3>3, <3>4
  <2>9. ASSUME NEW j \in R
        PROVE  XorAll(p.mat, t.inv[j]) = t.mat[j]
    <3>1. IsFiniteSet(inverse[j]) /\ IsFiniteSet(inverse[i])
      BY <2>3, <2>5, RowsAreFinite
    <3>2. XorAll(p.mat, Xor(inverse[j], inverse[i])) = Xor(swapped[j], swapped[i])
      BY <2>3, <2>6, <3>1, XorAllXor
    <3> QED BY <2>6, <2>7, <3>2
  <2>10. ASSUME NEW c \in 0..i
         PROVE  c \in t.mat[c] /\ \A j \in c+1..n-1 : c \notin t.mat[j]
    <3>1. CASE c = i
      <4>1. i \in swapped[i]
        BY <2>1, <2>3, <2>4
      <4>2. i \in t.mat[i]
        BY <2>3, <2>7, <4>1
      <4>3. \A j \in i+1..n-1 : i \notin t.mat[j]
        <5> TAKE j \in i+1..n-1
        <5>1. j \in R /\ j > i
          OBVIOUS
        <5>2. t.mat[j] = IF i \in swapped[j] THEN Xor(swapped[j], swapped[i]) ELSE swapped[j]
          BY <2>7, <5>1
        <5> QED BY <4>1, <5>2 DEF Xor, SymDiff
      <4> QED BY <3>1, <4>2, <4>3
    <3>2. CASE c < i
      <4>1. c \in R /\ c \in 0..i-1 /\ c # q /\ c # i
        BY <2>1, <3>2
      <4>2. c \in s.mat[c] /\ \A j \in c+1..n-1 : c \notin s.mat[j]
        BY <1>2, <4>1 DEF TriangularInv
      <4>3. t.mat[c] = s.mat[c]
        BY <2>4, <2>7, <3>2, <4>1
      <4>4. \A j \in c+1..n-1 : c \notin swapped[j]
        <5>1. i \in c+1..n-1 /\ q \in c+1..n-1
          BY <2>1, <3>2
        <5> QED BY <2>4, <4>2, <5>1
      <4>5. \A j \in c+1..n-1 : c \notin t.mat[j]
        <5> TAKE j \in c+1..n-1
        <5>1. j \in R /\ i \in c+1..n-1
          BY <3>2
        <5> QED BY <2>7, <4>4, <5>1 DEF Xor, SymDiff
      <4> QED BY <4>2, <4>3, <4>5
    <3> QED BY <3>1, <3>2
  <2>11. (i + 1) - 1 = i
    OBVIOUS
  <2> QED BY <2>8, <2>9, <2>10, <2>11 DEF TriangularInv, t
<1> QED BY <1>1, <1>2

\* The first half of galois_invert_binary_matrix (S/galois.c) as an instance of the loop.
LEMMA TriangularIsLoop ==
  ASSUME NEW p
  PROVE  Triangular(p.mat, p.rows)
           = Tri!Turns(p, [ok |-> TRUE, mat |-> p.mat, inv |-> [i \in 0..p.rows-1 |-> {i}]], p.rows)
BY Zenon DEF Triangular, TriangularStep, Tri!Turns, Tri!Loop, Tri!Now, Loop, Now

\* Its invariant holds after the last column.
LEMMA TriangularRows ==
  ASSUME NEW n \in Nat, NEW mat \in BinaryRows(n)
  PROVE  TriangularInv([mat |-> mat, rows |-> n], Triangular(mat, n), n)
<1> DEFINE p == [mat |-> mat, rows |-> n]
           init == [ok |-> TRUE, mat |-> mat, inv |-> [i \in 0..n-1 |-> {i}]]
<1>0. p.mat = mat /\ p.rows = n
  OBVIOUS
<1>1. TriangularInv(p, init, 0)
  <2>1. init.inv \in BinaryRows(n) /\ init \in [ok : BOOLEAN, mat : BinaryRows(n), inv : BinaryRows(n)]
    BY DEF BinaryRows
  <2>2. \A j \in 0..n-1 : XorAll(mat, {j}) = mat[j]
    BY Zenon, XorAllOne
  <2> QED BY <2>1, <2>2 DEF TriangularInv
<1> HIDE DEF p
<1>2. \A i \in 0..n-1 : \A s : TriangularInv(p, s, i) => TriangularInv(p, TriangularStep(p, s, i), i + 1)
  BY <1>0, ColumnEliminated
<1>3. TriangularInv(p, Tri!Turns(p, init, n), n)
  BY <1>1, <1>2, Tri!LoopKeeps
<1>4. Triangular(mat, n) = Tri!Turns(p, init, n)
  BY <1>0, TriangularIsLoop
<1> QED BY <1>3, <1>4 DEF p

BackStep(p, s, n) == ClearAbove(s, p.t.mat, p.rows - 1 - n)

\* Before turn n: the rows of the inverse make those of the original, without the
\* columns above the diagonal that have been cleared.
BackInv(p, s, n) ==
  /\ s \in BinaryRows(p.rows)
  /\ \A j \in 0..p.rows-1 :
       XorAll(p.mat, s[j]) = p.t.mat[j] \ {l \in 0..p.rows-1 : l >= p.rows - n /\ l > j}

Back == INSTANCE Loops_proofs WITH Step <- BackStep, Inv <- BackInv

\* The rows of a triangular matrix.
Upper(n, mat) ==
  /\ mat \in BinaryRows(n)
  /\ \A c \in 0..n-1 : c \in mat[c] /\ \A j \in c+1..n-1 : c \notin mat[j]

\* One column of the second half keeps its invariant.
LEMMA ColumnCleared ==
  ASSUME NEW p, p.rows \in Nat, Upper(p.rows, p.t.mat), NEW n \in 0..p.rows-1, NEW s, BackInv(p, s, n)
  PROVE  BackInv(p, BackStep(p, s, n), n + 1)
<1> DEFINE rows == p.rows
           R == 0..rows-1
           i == rows - 1 - n
           t == BackStep(p, s, n)
           Gone(j) == {l \in R : l >= rows - n /\ l > j}
<1>1. i \in R /\ s \in BinaryRows(rows) /\ p.t.mat \in BinaryRows(rows)
  BY DEF BackInv, Upper
<1>2. t = [j \in R |-> IF j < i /\ i \in p.t.mat[j] THEN Xor(s[j], s[i]) ELSE s[j]]
  BY <1>1 DEF BackStep, ClearAbove, BinaryRows
<1>3. t \in BinaryRows(rows)
  <2>1. \A a, b \in SUBSET R : Xor(a, b) \in SUBSET R
    BY DEF Xor, SymDiff
  <2> QED BY <1>1, <1>2, <2>1 DEF BinaryRows
<1>4. \A j \in R : XorAll(p.mat, s[j]) = p.t.mat[j] \ Gone(j)
  BY DEF BackInv
<1>5. XorAll(p.mat, s[i]) = {i}
  <2>1. p.t.mat[i] \ Gone(i) = {i}
    <3>1. i \in p.t.mat[i] /\ p.t.mat[i] \in SUBSET R
      BY <1>1 DEF Upper, BinaryRows
    <3>2. \A l \in R : l < i => l \notin p.t.mat[i]
      BY <1>1 DEF Upper
    <3>3. \A l \in R : l \in Gone(i) <=> l > i
      OBVIOUS
    <3>4. i \notin Gone(i)
      OBVIOUS
    <3> HIDE DEF Gone
    <3>5. \A l \in R : l < i \/ l = i \/ l > i
      OBVIOUS
    <3> QED BY <3>1, <3>2, <3>3, <3>4, <3>5
  <2> QED BY <1>1, <1>4, <2>1
<1>6. ASSUME NEW j \in R
      PROVE  XorAll(p.mat, t[j]) = p.t.mat[j] \ {l \in R : l >= rows - (n + 1) /\ l > j}
  <2> DEFINE More == {l \in R : l >= rows - (n + 1) /\ l > j}
  <2>1. More = IF j < i THEN Gone(j) \cup {i} ELSE Gone(j)
    <3>1. \A l \in R : l >= rows - (n + 1) <=> (l >= rows - n \/ l = i)
      OBVIOUS
    <3> QED BY <1>1, <3>1
  <2>2. i \notin Gone(j)
    OBVIOUS
  <2> HIDE DEF Gone, More
  <2>3. CASE j < i /\ i \in p.t.mat[j]
    <3>1. IsFiniteSet(s[j]) /\ IsFiniteSet(s[i])
      <4> HIDE DEF i
      <4> QED BY <1>1, RowsAreFinite
    <3>a. t[j] = Xor(s[j], s[i])
      BY <1>2, <2>3
    <3> HIDE DEF t
    <3>b. XorAll(p.mat, Xor(s[j], s[i])) = Xor(XorAll(p.mat, s[j]), XorAll(p.mat, s[i]))
      BY <3>1, XorAllXor
    <3>2. XorAll(p.mat, t[j]) = Xor(p.t.mat[j] \ Gone(j), {i})
      BY <1>4, <1>5, <3>a, <3>b
    <3>3. Xor(p.t.mat[j] \ Gone(j), {i}) = p.t.mat[j] \ (Gone(j) \cup {i})
      BY <2>2, <2>3 DEF Xor, SymDiff
    <3> QED BY <2>1, <2>3, <3>2, <3>3 DEF More
  <2>4. CASE ~(j < i /\ i \in p.t.mat[j])
    <3>1. t[j] = s[j]
      BY <1>2, <2>4
    <3>2. p.t.mat[j] \ Gone(j) = p.t.mat[j] \ More
      BY <2>1, <2>4
    <3> QED BY <1>4, <3>1, <3>2 DEF More
  <2> QED BY <2>3, <2>4
<1> QED BY <1>3, <1>6 DEF BackInv

\* The second half as an instance of the loop.
LEMMA BackIsLoop ==
  ASSUME NEW p
  PROVE  BackSubstituted(p.t, p.rows)
           = IF p.t.ok THEN [ok |-> TRUE, inv |-> Back!Turns(p, p.t.inv, p.rows)]
             ELSE [ok |-> FALSE, inv |-> p.t.inv]
BY Zenon DEF BackSubstituted, BackStep, Back!Turns, Back!Loop, Back!Now, Loop, Now

\* When a bit matrix is inverted the rows of the original, added up as a row of the
\* inverse says, make the unit vector of that row.
THEOREM InverseIsInverse ==
  ASSUME NEW n \in Nat, NEW mat \in BinaryRows(n), galois_invert_binary_matrix(mat, n).ok
  PROVE  /\ galois_invert_binary_matrix(mat, n).inv \in BinaryRows(n)
         /\ \A j \in 0..n-1 : XorAll(mat, galois_invert_binary_matrix(mat, n).inv[j]) = {j}
<1> DEFINE t == Triangular(mat, n)
           p == [mat |-> mat, t |-> t, rows |-> n]
           back == Back!Turns(p, t.inv, n)
<1>0. p.mat = mat /\ p.t = t /\ p.rows = n
  OBVIOUS
<1>1. galois_invert_binary_matrix(mat, n) = BackSubstituted(t, n)
  BY DEF galois_invert_binary_matrix
<1>b. BackSubstituted(t, n) = IF t.ok THEN [ok |-> TRUE, inv |-> back] ELSE [ok |-> FALSE, inv |-> t.inv]
  <2> HIDE DEF p, t
  <2> QED BY <1>0, BackIsLoop
<1>2. t.ok
  <2> HIDE DEF t, back
  <2> QED BY <1>1, <1>b
<1>3. TriangularInv([mat |-> mat, rows |-> n], t, n)
  BY TriangularRows
<1> HIDE DEF t, p
<1>4. t.inv \in BinaryRows(n) /\ \A j \in 0..n-1 : XorAll(mat, t.inv[j]) = t.mat[j]
  BY <1>3 DEF TriangularInv
<1>5. Upper(n, t.mat)
  BY <1>2, <1>3 DEF TriangularInv, Upper
<1>6. BackInv(p, t.inv, 0)
  <2>1. \A j : {l \in 0..n-1 : l >= n - 0 /\ l > j} = {}
    OBVIOUS
  <2> QED BY <1>0, <1>4, <2>1 DEF BackInv
<1>7. BackInv(p, back, n)
  <2>1. \A i \in 0..n-1 : \A s : BackInv(p, s, i) => BackInv(p, BackStep(p, s, i), i + 1)
    BY <1>0, <1>5, ColumnCleared
  <2> QED BY <1>6, <2>1, Back!LoopKeeps
<1>8. galois_invert_binary_matrix(mat, n).inv = back
  <2> HIDE DEF back
  <2> QED BY <1>1, <1>2, <1>b
<1> HIDE DEF back
<1>9. ASSUME NEW j \in 0..n-1
      PROVE  XorAll(mat, back[j]) = {j}
  <2>1. XorAll(mat, back[j]) = t.mat[j] \ {l \in 0..n-1 : l >= n - n /\ l > j}
    BY <1>0, <1>7 DEF BackInv
  <2>2. j \in t.mat[j] /\ t.mat[j] \in SUBSET (0..n-1) /\ \A l \in 0..n-1 : l < j => l \notin t.mat[j]
    BY <1>5 DEF Upper, BinaryRows
  <2>3. \A l \in 0..n-1 : l >= n - n /\ (l < j \/ l = j \/ l > j)
    OBVIOUS
  <2> QED BY <2>1, <2>2, <2>3
<1>10. back \in BinaryRows(n)
  BY <1>0, <1>7 DEF BackInv
<1> QED BY <1>8, <1>9, <1>10

(***************************************************************************)
(* Numbers                                                                 *)
(***************************************************************************)
\* Packet x of drive j is at j * w + x, and is found there.
LEMMA Packet ==
  ASSUME NEW k \in Nat, NEW w \in Nat \ {0}, NEW j \in 0..k-1, NEW x \in 0..w-1
  PROVE  /\ j * w + x \in 0..k*w-1
         /\ (j * w + x) \div w = j /\ (j * w + x) % w = x
<1>1. j * w \in Nat /\ k * w \in Nat
  BY SMTT(60)
<1>2. j * w + w <= k * w
  <2>1. (j + 1) * w <= k * w
    BY SMTT(60)
  <2>2. (j + 1) * w = j * w + w
    BY SMTT(60)
  <2> QED BY <2>1, <2>2
<1>3. j * w + x \in 0..k*w-1
  BY <1>1, <1>2
<1>4. (j * w + x) \div w = j /\ (j * w + x) % w = x
  BY SMTT(60)
<1> QED BY <1>3, <1>4

\* Column c of a bit matrix is packet c % w of drive c \div w.
LEMMA PacketOf ==
  ASSUME NEW k \in Nat, NEW w \in Nat \ {0}, NEW c \in 0..k*w-1
  PROVE  c \div w \in 0..k-1 /\ c % w \in 0..w-1 /\ (c \div w) * w + (c % w) = c
<1>1. k * w \in Nat /\ c \in Nat /\ c < k * w
  BY SMTT(60)
<1>2. c \div w \in Nat /\ c % w \in 0..w-1 /\ c = w * (c \div w) + (c % w)
  BY <1>1, SMTT(60)
<1> DEFINE q == c \div w
<1>3. w * q = q * w
  BY <1>2, SMTT(60)
<1> HIDE DEF q
<1>4. q < k
  <2> SUFFICES ASSUME q >= k PROVE FALSE
    BY <1>2 DEF q
  <2>1. q * w >= k * w
    BY <1>2, SMTT(60) DEF q
  <2>2. q * w <= c
    BY <1>1, <1>2, <1>3 DEF q
  <2>3. q * w \in Int
    BY <1>2, SMTT(60) DEF q
  <2> QED BY <1>1, <2>1, <2>2, <2>3
<1> QED BY <1>2, <1>3, <1>4 DEF q

\* Sorted(S) has each member of S once, in increasing order.
LEMMA SortedIs ==
  ASSUME NEW S \in SUBSET Int, IsFiniteSet(S)
  PROVE  /\ Cardinality(S) \in Nat
         /\ Sorted(S) \in [1..Cardinality(S) -> S]
         /\ \A x \in S : \E n \in 1..Cardinality(S) : Sorted(S)[n] = x
         /\ \A i, j \in 1..Cardinality(S) : Sorted(S)[i] = Sorted(S)[j] => i = j
<1> DEFINE Below(x) == {y \in S : y < x}
           N == Cardinality(S)
           rank == [x \in S |-> Cardinality(Below(x))]
<1>1. N \in Nat
  BY FS_CardinalityType
<1>2. \A x \in S : IsFiniteSet(Below(x)) /\ Cardinality(Below(x)) \in Nat
  BY FS_Subset, FS_CardinalityType
<1>3. ASSUME NEW x \in S
      PROVE  Cardinality(Below(x)) < N
  <2>1. Below(x) \in SUBSET S /\ x \notin Below(x)
    OBVIOUS
  <2> HIDE DEF Below
  <2>2. Cardinality(Below(x)) <= N /\ Cardinality(Below(x)) # N
    BY <2>1, FS_Subset
  <2> QED BY <1>1, <1>2, <2>2
<1>4. ASSUME NEW x \in S, NEW y \in S, x < y
      PROVE  Cardinality(Below(x)) < Cardinality(Below(y))
  <2>i. x \in Int /\ y \in Int /\ \A z \in S : z \in Int
    OBVIOUS
  <2>s. \A z \in S : z < x => z < y
    BY <1>4, <2>i
  <2>1. Below(x) \in SUBSET Below(y) /\ x \in Below(y) /\ x \notin Below(x)
    <3>1. ~ x < x /\ x < y
      BY <1>4, <2>i
    <3>2. \A z \in Below(x) : z \in Below(y)
      BY <2>s
    <3> QED BY <3>1, <3>2
  <2>2. IsFiniteSet(Below(y)) /\ Cardinality(Below(x)) \in Nat /\ Cardinality(Below(y)) \in Nat
    BY <1>2
  <2> HIDE DEF Below
  <2>3. Cardinality(Below(x)) <= Cardinality(Below(y)) /\ Cardinality(Below(x)) # Cardinality(Below(y))
    BY <2>1, <2>2, FS_Subset
  <2> QED BY <2>2, <2>3
<1>5. \A x, y \in S : rank[x] = rank[y] => x = y
  <2> TAKE x, y \in S
  <2>1. x < y \/ x = y \/ y < x
    OBVIOUS
  <2>2. rank[x] = Cardinality(Below(x)) /\ rank[y] = Cardinality(Below(y))
    OBVIOUS
  <2>3. x < y => rank[x] < rank[y]
    BY <1>4
  <2>4. y < x => rank[y] < rank[x]
    BY <1>4
  <2>5. rank[x] \in Nat /\ rank[y] \in Nat
    BY <1>2
  <2> HIDE DEF rank
  <2> QED BY <2>1, <2>3, <2>4, <2>5
<1>6. rank \in [S -> 0..N-1]
  <2> HIDE DEF Below, N
  <2> QED BY <1>1, <1>2, <1>3
<1>7. \A r \in 0..N-1 : \E x \in S : rank[x] = r
  <2>1. IsFiniteSet(0..N-1) /\ Cardinality(0..N-1) = N
    BY <1>1, FS_Interval
  <2> HIDE DEF rank
  <2>2. rank \in Injection(S, 0..N-1)
    BY <1>5, <1>6 DEF Injection, IsInjective
  <2>3. rank \in Surjection(S, 0..N-1)
    BY <2>1, <2>2, FS_Injection
  <2> QED BY <2>3 DEF Surjection
<1>8. \A n \in 1..N : Sorted(S)[n] \in S /\ rank[Sorted(S)[n]] = n - 1
  <2> TAKE n \in 1..N
  <2>1. n - 1 \in 0..N-1
    BY <1>1
  <2>2. PICK x \in S : rank[x] = n - 1
    BY <1>7, <2>1
  <2>3. Sorted(S)[n] = CHOOSE y \in S : Cardinality(Below(y)) = n - 1
    BY DEF Sorted
  <2>4. Cardinality(Below(x)) = n - 1
    BY <2>2
  <2> HIDE DEF Below
  <2>5. Sorted(S)[n] \in S /\ Cardinality(Below(Sorted(S)[n])) = n - 1
    BY <2>3, <2>4
  <2> QED BY <2>5
<1>9. Sorted(S) = [n \in 1..N |-> Sorted(S)[n]]
  BY SMTT(60) DEF Sorted
<1> HIDE DEF rank, N
<1>10. Sorted(S) \in [1..N -> S]
  BY <1>8, <1>9
<1>11. ASSUME NEW x \in S
       PROVE  \E n \in 1..N : Sorted(S)[n] = x
  <2>1. rank[x] \in 0..N-1 /\ rank[x] + 1 \in 1..N /\ (rank[x] + 1) - 1 = rank[x]
    BY <1>1, <1>6
  <2>2. Sorted(S)[rank[x] + 1] = x
    BY <1>5, <1>8, <2>1
  <2> QED BY <2>1, <2>2
<1>12. \A i, j \in 1..N : Sorted(S)[i] = Sorted(S)[j] => i = j
  BY <1>1, <1>8
<1> QED BY <1>1, <1>10, <1>11, <1>12 DEF N

(***************************************************************************)
(* Decoding with the inverse                                               *)
(***************************************************************************)
\* A code: k data drives, m coding drives, w packets each, and a bit matrix every
\* row of which says of which packets of the data drives one packet is the sum.
BitCode(k, m, w, bits) ==
  /\ k \in Nat \ {0} /\ m \in Nat /\ w \in Nat \ {0}
  /\ \A r \in 0..m*w-1 : bits[r] \in (SUBSET (0..k*w-1)) \ {{}}

PlainSumFirst(k, m, w, bits) == m > 0 /\ \A x \in 0..w-1 : bits[x] = {j * w + x : j \in 0..k-1}

\* What drive d has to hold.
Contents(k, w, bits, d) ==
  IF d < k THEN [x \in 0..w-1 |-> {d * w + x}] ELSE RowsOf(bits, d - k, w)

\* A product of counts is a count.
LEMMA Multiple ==
  ASSUME NEW a \in Nat, NEW b \in Nat
  PROVE  a * b \in Nat
BY SMTT(60)

\* The rows of a coding drive are rows of the bit matrix: sums of some data packets.
LEMMA BitRows ==
  ASSUME NEW k, NEW m, NEW w, NEW bits, BitCode(k, m, w, bits),
         NEW d \in k..k+m-1, NEW x \in 0..w-1
  PROVE  /\ RowsOf(bits, d - k, w)[x] = bits[(d - k) * w + x]
         /\ bits[(d - k) * w + x] \in (SUBSET (0..k*w-1)) \ {{}}
         /\ IsFiniteSet(bits[(d - k) * w + x])
<1>1. k \in Nat \ {0} /\ m \in Nat /\ w \in Nat \ {0}
  BY DEF BitCode
<1> DEFINE e == d - k
<1>2. e \in 0..m-1
  BY <1>1
<1> HIDE DEF e
<1>3. e * w + x \in 0..m*w-1
  BY <1>1, <1>2, Packet
<1>4. IsFiniteSet(0..k*w-1)
  <2>1. k * w \in Nat
    BY <1>1, Multiple
  <2>2. 0 \in Int /\ k * w - 1 \in Int
    BY <2>1
  <2> QED BY <2>2, FS_Interval
<1>5. bits[e * w + x] \in (SUBSET (0..k*w-1)) \ {{}}
  BY <1>3 DEF BitCode
<1>6. RowsOf(bits, e, w)[x] = bits[e * w + x]
  BY DEF RowsOf
<1>7. IsFiniteSet(bits[e * w + x])
  BY <1>4, <1>5, FS_Subset
<1> QED BY <1>5, <1>6, <1>7 DEF e

\* The first k drives that are left, when no more than m are lost.
LEMMA Survivors ==
  ASSUME NEW k \in Nat, NEW m \in Nat, NEW erased \in SUBSET (0..k+m-1), Cardinality(erased) <= m
  PROVE  dm_ids(k, m, erased) \in [0..k-1 -> (0..k+m-1) \ erased]
<1> DEFINE D == 0..k+m-1
           left == D \ erased
<1>1. IsFiniteSet(D) /\ Cardinality(D) = k + m
  <2>1. 0 \in Int /\ k + m - 1 \in Int
    OBVIOUS
  <2>2. IsFiniteSet(D) /\ Cardinality(D) = IF 0 > k + m - 1 THEN 0 ELSE (k + m - 1) - 0 + 1
    BY <2>1, FS_Interval
  <2> HIDE DEF D
  <2> QED BY <2>2
<1>e. erased \in SUBSET D /\ D \in SUBSET Int
  OBVIOUS
<1> HIDE DEF D
<1>i. left \in SUBSET Int /\ left \in SUBSET D /\ D \cap erased = erased
  BY <1>e
<1>2. IsFiniteSet(left) /\ IsFiniteSet(erased) /\ Cardinality(erased) \in Nat
  BY <1>1, <1>i, <1>e, FS_Subset, FS_CardinalityType
<1>3. Cardinality(left) = Cardinality(D) - Cardinality(erased)
  <2>1. Cardinality(D \ erased) = Cardinality(D) - Cardinality(D \cap erased)
    BY <1>1, FS_Difference
  <2> QED BY <1>i, <2>1
<1> HIDE DEF left
<1>4. Cardinality(left) \in Nat /\ Sorted(left) \in [1..Cardinality(left) -> left]
  BY <1>i, <1>2, SortedIs
<1>5. Cardinality(left) >= k
  BY <1>1, <1>2, <1>3
<1>6. \A i \in 0..k-1 : i + 1 \in 1..Cardinality(left)
  BY <1>4, <1>5
<1>7. \A i \in 0..k-1 : Sorted(left)[i + 1] \in left
  BY <1>4, <1>6
<1> QED BY <1>7 DEF dm_ids, left, D

\* The rows that are inverted: what the first k drives that are left hold.
DecodingRows(k, m, w, bits, erased) ==
  [r \in 0..k*w-1 |->
     LET d == dm_ids(k, m, erased)[r \div w]
     IN  IF d < k THEN {d * w + (r % w)} ELSE bits[(d - k) * w + (r % w)]]

\* The decoding matrix is the inverse of the rows of the drives that are left.
LEMMA DecodingBitmatrix ==
  ASSUME NEW k, NEW m, NEW w, NEW bits, NEW erased
  PROVE  jerasure_make_decoding_bitmatrix(k, m, w, bits, erased)
           = galois_invert_binary_matrix(DecodingRows(k, m, w, bits, erased), k * w)
BY DEF jerasure_make_decoding_bitmatrix, jerasure_invert_bitmatrix, DecodingRows

\* They are rows of a square matrix, row c what packet c % w of place c / w holds.
LEMMA DecodingRowsHold ==
  ASSUME NEW k, NEW m, NEW w, NEW bits, BitCode(k, m, w, bits),
         NEW erased \in SUBSET (0..k+m-1), Cardinality(erased) <= m
  PROVE  /\ DecodingRows(k, m, w, bits, erased) \in BinaryRows(k * w)
         /\ \A c \in 0..k*w-1 :
              DecodingRows(k, m, w, bits, erased)[c]
                = Contents(k, w, bits, dm_ids(k, m, erased)[c \div w])[c % w]
<1> DEFINE N == k * w
           ids == dm_ids(k, m, erased)
           mat == DecodingRows(k, m, w, bits, erased)
<1>1. k \in Nat \ {0} /\ m \in Nat /\ w \in Nat \ {0}
  BY DEF BitCode
<1>3. ids \in [0..k-1 -> (0..k+m-1) \ erased]
  BY <1>1, Survivors
<1>4. ASSUME NEW c \in 0..N-1
      PROVE  mat[c] = Contents(k, w, bits, ids[c \div w])[c % w] /\ mat[c] \in SUBSET (0..N-1)
  <2> DEFINE i == c \div w
             y == c % w
             d == ids[i]
  <2>1. i \in 0..k-1 /\ y \in 0..w-1
    BY <1>1, PacketOf
  <2>2. mat[c] = IF d < k THEN {d * w + y} ELSE bits[(d - k) * w + y]
    BY DEF DecodingRows
  <2> HIDE DEF i, y, ids
  <2>3. d \in 0..k+m-1
    BY <1>3, <2>1
  <2> HIDE DEF d, mat, N
  <2>4. CASE d < k
    <3>1. d \in 0..k-1
      BY <1>1, <2>3, <2>4
    <3>2. d * w + y \in 0..N-1
      BY <1>1, <2>1, <3>1, Packet DEF N
    <3>3. Contents(k, w, bits, d)[y] = {d * w + y}
      BY <2>1, <2>4 DEF Contents
    <3> QED BY <2>2, <2>4, <3>2, <3>3 DEF d, i, y
  <2>5. CASE ~ d < k
    <3>1. d \in k..k+m-1
      BY <1>1, <2>3, <2>5
    <3>2. /\ RowsOf(bits, d - k, w)[y] = bits[(d - k) * w + y]
          /\ bits[(d - k) * w + y] \in SUBSET (0..N-1)
      BY <2>1, <3>1, BitRows DEF N
    <3>3. Contents(k, w, bits, d) = RowsOf(bits, d - k, w)
      BY <2>5 DEF Contents
    <3> QED BY <2>2, <2>5, <3>2, <3>3 DEF d, i, y
  <2> QED BY <2>4, <2>5
<1>5. mat \in BinaryRows(N)
  <2>1. mat = [c \in 0..N-1 |-> mat[c]]
    BY DEF DecodingRows
  <2> HIDE DEF mat, N
  <2> QED BY <1>4, <2>1 DEF BinaryRows
<1> QED BY <1>4, <1>5

\* The packets of the drives that stand in the k places.
Packets(k, w, ids, s) == [c \in 0..k*w-1 |-> s[ids[c \div w]][c % w]]

\* At most m drives are erased, the others hold what they should, and the matrix made
\* from them has an inverse.
Recoverable(k, m, w, bits, erased, inverse, s) ==
  /\ BitCode(k, m, w, bits)
  /\ erased \in SUBSET (0..k+m-1) /\ Cardinality(erased) <= m
  /\ inverse = jerasure_make_decoding_bitmatrix(k, m, w, bits, erased) /\ inverse.ok
  /\ \A d \in (0..k+m-1) \ erased : s[d] = Contents(k, w, bits, d)

\* A lost data packet is the sum, over its row of the inverse, of what is left.
LEMMA FromInverse ==
  ASSUME NEW k, NEW m, NEW w, NEW bits, NEW erased, NEW inverse, NEW s,
         Recoverable(k, m, w, bits, erased, inverse, s),
         NEW n \in 0..k-1, NEW x \in 0..w-1
  PROVE  LET ids == dm_ids(k, m, erased)
             row == inverse.inv[n * w + x]
         IN  /\ row # {}
             /\ XorAll(Packets(k, w, ids, s), row) = {n * w + x}
<1> DEFINE N == k * w
           ids == dm_ids(k, m, erased)
           mat == DecodingRows(k, m, w, bits, erased)
           row == inverse.inv[n * w + x]
           g == [c \in 0..k*w-1 |-> s[ids[c \div w]][c % w]]
<1>0. /\ BitCode(k, m, w, bits)
      /\ erased \in SUBSET (0..k+m-1) /\ Cardinality(erased) <= m
      /\ inverse = jerasure_make_decoding_bitmatrix(k, m, w, bits, erased) /\ inverse.ok
      /\ \A d \in (0..k+m-1) \ erased : s[d] = Contents(k, w, bits, d)
  BY DEF Recoverable
<1> USE <1>0
<1>1. k \in Nat \ {0} /\ m \in Nat /\ w \in Nat \ {0}
  BY DEF BitCode
<1>2. N \in Nat /\ n * w + x \in 0..N-1
  BY <1>1, Packet, Multiple
<1>3. ids \in [0..k-1 -> (0..k+m-1) \ erased]
  BY <1>1, Survivors
<1>4. mat \in BinaryRows(N) /\ \A c \in 0..N-1 : mat[c] = Contents(k, w, bits, ids[c \div w])[c % w]
  BY DecodingRowsHold
<1>6. inverse = galois_invert_binary_matrix(mat, N)
  BY DecodingBitmatrix
<1> HIDE DEF mat, N, ids
<1>7. inverse.inv \in BinaryRows(N) /\ \A j \in 0..N-1 : XorAll(mat, inverse.inv[j]) = {j}
  BY <1>2, <1>4, <1>6, InverseIsInverse
<1>8. XorAll(mat, row) = {n * w + x}
  BY <1>2, <1>7
<1>9. IsFiniteSet(row) /\ row \in SUBSET (0..N-1)
  BY <1>2, <1>7, RowsAreFinite DEF BinaryRows
<1> HIDE DEF row
<1>10. row # {}
  BY <1>8, XorAllEmpty DEF Zero
<1>11. \A c \in row : g[c] = mat[c]
  <2> TAKE c \in row
  <2>1. c \in 0..N-1
    BY <1>9
  <2>2. g[c] = s[ids[c \div w]][c % w]
    BY <2>1 DEF N
  <2> HIDE DEF g
  <2>3. c \div w \in 0..k-1
    BY <1>1, <2>1, PacketOf DEF N
  <2>4. ids[c \div w] \in (0..k+m-1) \ erased
    BY <1>3, <2>3
  <2>5. s[ids[c \div w]] = Contents(k, w, bits, ids[c \div w])
    BY <2>4
  <2> QED BY <1>4, <2>1, <2>2, <2>5
<1> HIDE DEF g
<1>12. XorAll(g, row) = XorAll(mat, row)
  BY <1>9, <1>11, XorAllSame
<1> QED BY <1>8, <1>10, <1>12 DEF g, row, ids, Packets

\* A packet of a coding drive is the sum of packets of the data drives.
LEMMA FromData ==
  ASSUME NEW k, NEW m, NEW w, NEW bits, BitCode(k, m, w, bits),
         NEW s, \A d \in 0..k-1 : s[d] = Contents(k, w, bits, d),
         NEW e \in k..k+m-1, NEW x \in 0..w-1
  PROVE  XorAll(Packets(k, w, Data(k), s), bits[(e - k) * w + x])
           = bits[(e - k) * w + x]
<1> DEFINE row == bits[(e - k) * w + x]
           g == [c \in 0..k*w-1 |-> s[Data(k)[c \div w]][c % w]]
<1>1. k \in Nat \ {0} /\ m \in Nat /\ w \in Nat \ {0}
  BY DEF BitCode
<1>2. IsFiniteSet(row) /\ row \in SUBSET (0..k*w-1)
  BY BitRows
<1> HIDE DEF row
<1>3. \A c \in row : g[c] = {c}
  <2> TAKE c \in row
  <2> DEFINE i == c \div w
             y == c % w
  <2>1. c \in 0..k*w-1
    BY <1>2
  <2>2. i \in 0..k-1 /\ y \in 0..w-1 /\ i * w + y = c
    BY <1>1, <2>1, PacketOf
  <2>3. g[c] = s[Data(k)[i]][y]
    BY <2>1
  <2> HIDE DEF i, y, g
  <2>4. Data(k)[i] = i
    BY <2>2 DEF Data
  <2>5. s[i] = Contents(k, w, bits, i) /\ i < k
    BY <1>1, <2>2
  <2>6. Contents(k, w, bits, i)[y] = {i * w + y}
    BY <2>2, <2>5 DEF Contents
  <2> QED BY <2>2, <2>3, <2>4, <2>5, <2>6
<1> HIDE DEF g
<1>4. XorAll(g, row) = row
  BY <1>2, <1>3, XorAllOwn
<1> QED BY <1>4 DEF g, row, Packets

\* The first coding drive is the sum of all data drives, ids are all of them but one.
LastMissing(k, m, w, bits, last, s, ids) ==
  /\ BitCode(k, m, w, bits) /\ PlainSumFirst(k, m, w, bits)
  /\ last \in 0..k-1
  /\ \A d \in (0..k) \ {last} : s[d] = Contents(k, w, bits, d)
  /\ \A i \in 0..k-1 : ids[i] = IF i < last THEN i ELSE i + 1

\* When the first coding drive is the sum of all data drives, the sum of it and of
\* all data drives but one is that one.
LEMMA FromSum ==
  ASSUME NEW k, NEW m, NEW w, NEW bits, NEW last, NEW s, NEW ids,
         LastMissing(k, m, w, bits, last, s, ids), NEW x \in 0..w-1
  PROVE  XorAll(Packets(k, w, ids, s), bits[x]) = {last * w + x}
<1> DEFINE N == k * w
           g == [c \in 0..k*w-1 |-> s[ids[c \div w]][c % w]]
           at(j) == j * w + x
           row == {at(j) : j \in 0..k-1}
           z == at(k - 1)
           A == row \ {z}
<1>0. /\ BitCode(k, m, w, bits) /\ PlainSumFirst(k, m, w, bits)
      /\ last \in 0..k-1
      /\ \A d \in (0..k) \ {last} : s[d] = Contents(k, w, bits, d)
      /\ \A i \in 0..k-1 : ids[i] = IF i < last THEN i ELSE i + 1
  BY DEF LastMissing
<1>1. k \in Nat \ {0} /\ m \in Nat \ {0} /\ w \in Nat \ {0}
  BY <1>0 DEF BitCode, PlainSumFirst
<1>2. bits[x] = row
  BY <1>0 DEF PlainSumFirst
<1>3. \A j \in 0..k-1 : at(j) \in 0..N-1 /\ at(j) \div w = j /\ at(j) % w = x
  BY <1>0, <1>1, Packet
<1> HIDE DEF at, N
<1>4. row \in SUBSET (0..N-1) /\ IsFiniteSet(row)
  <2>1. row \in SUBSET (0..N-1)
    BY <1>3
  <2>2. IsFiniteSet(0..N-1)
    <3>1. N \in Nat
      BY <1>0, <1>1, Multiple DEF N
    <3>2. 0 \in Int /\ N - 1 \in Int
      BY <3>1
    <3> QED BY <3>2, FS_Interval
  <2> HIDE DEF row
  <2> QED BY <2>1, <2>2, FS_Subset
<1>5. \A j \in 0..k-1 : g[at(j)] = s[ids[j]][x]
  BY <1>3 DEF N
<1> HIDE DEF g
<1>6. g[z] = row
  <2>1. k - 1 \in 0..k-1 /\ ids[k - 1] = k
    BY <1>0, <1>1
  <2>2. k \in (0..k) \ {last}
    BY <1>0, <1>1
  <2>3. g[z] = Contents(k, w, bits, k)[x]
    BY <1>0, <1>5, <2>1, <2>2
  <2>4. k \in k..k+m-1 /\ ~ k < k /\ k - k = 0
    BY <1>0, <1>1
  <2>5. Contents(k, w, bits, k)[x] = bits[(k - k) * w + x]
    BY <1>0, <2>4, BitRows DEF Contents
  <2>6. (k - k) * w + x = x
    BY <1>0, <1>1, <2>4
  <2> QED BY <1>2, <2>3, <2>5, <2>6
<1>7. \A j \in 0..k-2 : ids[j] \in 0..k-1 /\ ids[j] # last /\ g[at(j)] = {at(ids[j])}
  <2> TAKE j \in 0..k-2
  <2>1. j \in 0..k-1 /\ ids[j] = (IF j < last THEN j ELSE j + 1) /\ j + 1 \in 0..k-1
    BY <1>0, <1>1
  <2>2. ids[j] \in 0..k-1 /\ ids[j] # last
    BY <1>0, <1>1, <2>1
  <2>3. ids[j] \in (0..k) \ {last} /\ ids[j] < k
    BY <1>0, <1>1, <2>2
  <2>4. g[at(j)] = Contents(k, w, bits, ids[j])[x]
    BY <1>0, <1>5, <2>1, <2>3
  <2>5. Contents(k, w, bits, ids[j])[x] = {ids[j] * w + x}
    BY <2>3 DEF Contents
  <2> QED BY <2>2, <2>4, <2>5 DEF at
<1>8. \A i, j \in 0..k-1 : at(i) = at(j) => i = j
  BY <1>3
<1>9. A = {at(j) : j \in 0..k-2}
  <2>1. \A j \in 0..k-1 : j \in 0..k-2 \/ j = k - 1
    BY <1>0, <1>1
  <2>2. \A j \in 0..k-2 : j \in 0..k-1 /\ j # k - 1 /\ k - 1 \in 0..k-1
    BY <1>0, <1>1
  <2>3. \A j \in 0..k-2 : at(j) # z
    BY <1>8, <2>2
  <2> QED BY <2>1, <2>2, <2>3
<1>10. row = A \cup {z} /\ z \notin A /\ IsFiniteSet(A)
  <2>1. k - 1 \in 0..k-1
    BY <1>0, <1>1
  <2>2. z \in row /\ A \in SUBSET row
    BY <2>1
  <2> HIDE DEF row, z
  <2> QED BY <1>4, <2>2, FS_Subset
<1>11. XorAll(g, A) = {at(ids[j]) : j \in 0..k-2}
  <2>1. \A i \in 0..k-2 : \A j \in 0..k-2 : ids[i] = ids[j] => i = j
    <3>1. \A i \in 0..k-2 : i \in 0..k-1 /\ ids[i] = (IF i < last THEN i ELSE i + 1)
      BY <1>0, <1>1
    <3> QED BY <1>0, <1>1, <3>1
  <2>2. ASSUME NEW a \in A, NEW b \in A, a # b
        PROVE  g[a] \cap g[b] = {}
    <3>1. PICK i \in 0..k-2 : a = at(i)
      BY <1>9
    <3>2. PICK j \in 0..k-2 : b = at(j)
      BY <1>9
    <3>3. ids[i] # ids[j]
      BY <2>1, <2>2, <3>1, <3>2
    <3>4. at(ids[i]) # at(ids[j])
      BY <1>7, <1>8, <3>3
    <3>5. g[at(i)] = {at(ids[i])} /\ g[at(j)] = {at(ids[j])}
      BY <1>7
    <3> HIDE DEF A
    <3> QED BY <3>1, <3>2, <3>4, <3>5
  <2>3. XorAll(g, A) = UNION {g[a] : a \in A}
    <3> HIDE DEF A
    <3> QED BY <1>0, <1>10, <2>2, XorAllUnion
  <2>4. ASSUME NEW v
        PROVE  v \in UNION {g[a] : a \in A} <=> v \in {at(ids[j]) : j \in 0..k-2}
    <3>1. ASSUME NEW a \in A, v \in g[a]
          PROVE  v \in {at(ids[j]) : j \in 0..k-2}
      <4>1. PICK i \in 0..k-2 : a = at(i)
        BY <1>9
      <4>2. g[at(i)] = {at(ids[i])}
        BY <1>7
      <4>3. v = at(ids[i])
        BY <3>1, <4>1, <4>2
      <4> QED BY <4>3
    <3>2. ASSUME NEW j \in 0..k-2, v = at(ids[j])
          PROVE  \E a \in A : v \in g[a]
      <4>1. at(j) \in A
        BY <1>9
      <4>2. v \in g[at(j)]
        BY <1>7, <3>2
      <4> QED BY <4>1, <4>2
    <3> HIDE DEF A
    <3> QED BY <3>1, <3>2
  <2> HIDE DEF A
  <2> QED BY <2>3, <2>4
<1>i. \A i \in 0..k-1 : ids[i] = IF i < last THEN i ELSE i + 1
  BY <1>0
<1>l. last \in 0..k-1
  BY <1>0
<1>12. {at(ids[j]) : j \in 0..k-2} = row \ {at(last)}
  <2>1. \A j \in 0..k-2 : ids[j] \in 0..k-1 /\ at(ids[j]) # at(last)
    BY <1>l, <1>7, <1>8
  <2>2. \A i \in 0..k-1 : i # last => \E j \in 0..k-2 : ids[j] = i
    <3> TAKE i \in 0..k-1
    <3>1. CASE i < last
      <4>1. i \in 0..k-2 /\ i \in 0..k-1
        BY <1>l, <1>1, <3>1
      <4>0. ids[i] = IF i < last THEN i ELSE i + 1
        BY <1>i, <4>1
      <4>2. ids[i] = i
        BY <3>1, <4>0
      <4> QED BY <4>1, <4>2
    <3>2. CASE i > last
      <4>1. i - 1 \in 0..k-2 /\ i - 1 \in 0..k-1 /\ ~ i - 1 < last /\ (i - 1) + 1 = i
        BY <1>l, <1>1, <3>2
      <4>2. ids[i - 1] = i
        BY <1>i, <4>1
      <4> QED BY <4>1, <4>2
    <3> QED BY <1>l, <1>1, <3>1, <3>2
  <2>3. ASSUME NEW v \in {at(ids[j]) : j \in 0..k-2}
        PROVE  v \in row \ {at(last)}
    BY <2>1
  <2>4. ASSUME NEW v \in row \ {at(last)}
        PROVE  v \in {at(ids[j]) : j \in 0..k-2}
    <3>1. PICK i \in 0..k-1 : v = at(i) /\ i # last
      OBVIOUS
    <3>2. PICK j \in 0..k-2 : ids[j] = i
      BY <2>2, <3>1
    <3> QED BY <3>1, <3>2
  <2> HIDE DEF row
  <2> QED BY <2>3, <2>4
<1>13. XorAll(g, row) = Xor(row, row \ {at(last)})
  <2>1. XorAll(g, A \cup {z}) = Xor(g[z], XorAll(g, A))
    BY <1>0, <1>10, XorAllAdd
  <2> QED BY <1>6, <1>10, <1>11, <1>12, <2>1
<1>14. Xor(row, row \ {at(last)}) = {at(last)}
  <2>1. at(last) \in row
    BY <1>0
  <2> HIDE DEF row
  <2> QED BY <2>1 DEF Xor, SymDiff
<1> QED BY <1>2, <1>13, <1>14 DEF at, g, Packets

\* The drive jerasure_bitmatrix_decode leaves to the plain sum: the last lost data
\* drive, and only when coding drive 0 is there (S/jerasure.c).
LEMMA LastErased ==
  ASSUME NEW k \in Nat, NEW ones \in BOOLEAN, NEW erased
  PROVE  LET last == lastdrive(k, ones, erased)
         IN  \/ last = k
             \/ /\ ones /\ k \notin erased /\ last \in 0..k-1 /\ last \in erased
                /\ \A d \in erased : d \in 0..k-1 => d <= last
<1> DEFINE L == erased \cap (0..k-1)
           M == {k - d : d \in L}
<1>1. CASE ~ones \/ k \in erased \/ L = {}
  BY <1>1 DEF lastdrive
<1>2. CASE ~(~ones \/ k \in erased \/ L = {})
  <2>1. lastdrive(k, ones, erased) = Max(L)
    BY <1>2 DEF lastdrive
  <2>2. M \in SUBSET Nat /\ M # {}
    BY <1>2
  <2>3. PICK n \in M : \A y \in M : n <= y
    BY <2>2, Tri!Least
  <2>4. PICK x \in L : n = k - x
    BY <2>3
  <2>5. \A y \in L : y <= x
    BY <2>3, <2>4
  <2>6. Max(L) \in L /\ \A y \in L : y <= Max(L)
    <3> HIDE DEF L, M
    <3>1. \E a \in L : \A y \in L : a >= y
      BY <2>5
    <3> QED BY <3>1 DEF Max
  <2> HIDE DEF M
  <2> QED BY <1>2, <2>1, <2>6
<1> QED BY <1>1, <1>2

WrittenTo(s, d, value) == [s EXCEPT ![d] = value]

\* The rows' products are value.
RowProducts(k, w, rows, ids, s, value) ==
  /\ value = [j \in 0..w-1 |-> value[j]]
  /\ \A j \in 0..w-1 : rows[j] # {} /\ XorAll(Packets(k, w, ids, s), rows[j]) = value[j]

\* What the products of bit matrix rows write.
LEMMA DotprodWrites ==
  ASSUME NEW k, NEW w, NEW rows, NEW ids, NEW dest, NEW s, NEW value,
         RowProducts(k, w, rows, ids, s, value)
  PROVE  jerasure_bitmatrix_dotprod(k, w, rows, ids, dest, s) = WrittenTo(s, dest, value)
<1> DEFINE new == [j \in 0..w-1 |->
                     IF rows[j] = {} THEN s[dest][j]
                     ELSE XorAll(Packets(k, w, ids, s), rows[j])]
<1>1. jerasure_bitmatrix_dotprod(k, w, rows, ids, dest, s) = [s EXCEPT ![dest] = new]
  BY DEF jerasure_bitmatrix_dotprod, Packets
<1>2. new = value
  <2>1. \A j \in 0..w-1 : new[j] = value[j]
    BY DEF RowProducts
  <2>2. new = [j \in 0..w-1 |-> new[j]]
    OBVIOUS
  <2> HIDE DEF new
  <2> QED BY <2>1, <2>2 DEF RowProducts
<1> QED BY <1>1, <1>2 DEF WrittenTo

DecodeStep(p, s, n) ==
  CASE n \in {i \in p.erased : i < p.k} /\ n < lastdrive(p.k, p.ones, p.erased) ->
         jerasure_bitmatrix_dotprod(p.k, p.w, RowsOf(p.inverse.inv, n, p.w),
                                    dm_ids(p.k, p.m, p.erased), n, s)
    [] n = p.k /\ lastdrive(p.k, p.ones, p.erased) # p.k ->
         jerasure_bitmatrix_dotprod(p.k, p.w, RowsOf(p.bits, 0, p.w),
             [i \in 0..p.k-1 |-> IF i < lastdrive(p.k, p.ones, p.erased) THEN i ELSE i + 1],
             lastdrive(p.k, p.ones, p.erased), s)
    [] n > p.k /\ n - 1 \in p.erased ->
         jerasure_bitmatrix_dotprod(p.k, p.w, RowsOf(p.bits, n - 1 - p.k, p.w), Data(p.k), n - 1, s)
    [] OTHER -> s

\* Drives that hold what they have to before turn n.
Made(k, last, erased, d, n) ==
  \/ d \notin erased
  \/ d < k /\ d < last /\ d < n
  \/ d < k /\ d = last /\ n > k
  \/ d >= k /\ n > d + 1

Holding(k, m, w, bits, erased, last, s, n) ==
  /\ s = [d \in 0..k+m-1 |-> s[d]]
  /\ \A d \in 0..k+m-1 : Made(k, last, erased, d, n) => s[d] = Contents(k, w, bits, d)

DrivesInv(p, s, n) ==
  Holding(p.k, p.m, p.w, p.bits, p.erased, lastdrive(p.k, p.ones, p.erased), s, n)

Decode == INSTANCE Loops_proofs WITH Step <- DecodeStep, Inv <- DrivesInv

\* A drive that gets what it has to hold.
LEMMA OneMore ==
  ASSUME NEW k \in Nat, NEW m \in Nat, NEW w, NEW bits, NEW erased, NEW last, NEW n \in Nat,
         NEW s, Holding(k, m, w, bits, erased, last, s, n), NEW e \in 0..k+m-1,
         \A d \in 0..k+m-1 : d # e /\ Made(k, last, erased, d, n + 1) => Made(k, last, erased, d, n)
  PROVE  Holding(k, m, w, bits, erased, last, WrittenTo(s, e, Contents(k, w, bits, e)), n + 1)
<1> DEFINE t == WrittenTo(s, e, Contents(k, w, bits, e))
<1>1. s = [d \in 0..k+m-1 |-> s[d]]
  BY DEF Holding
<1>2. t = [d \in 0..k+m-1 |-> IF d = e THEN Contents(k, w, bits, e) ELSE s[d]]
  BY <1>1 DEF WrittenTo
<1>3. t[e] = Contents(k, w, bits, e) /\ \A d \in 0..k+m-1 : d # e => t[d] = s[d]
  BY <1>2
<1>4. t = [d \in 0..k+m-1 |-> t[d]]
  BY <1>2
<1> HIDE DEF t
<1>5. \A d \in 0..k+m-1 : Made(k, last, erased, d, n + 1) => t[d] = Contents(k, w, bits, d)
  BY <1>3 DEF Holding
<1> QED BY <1>4, <1>5 DEF Holding, t

\* The short cut may be asked for: the first coding drive is the plain sum, or it is
\* erased and not used.
Allowed(k, m, w, bits, ones, erased) == ones /\ k \notin erased => PlainSumFirst(k, m, w, bits)

\* A turn of the decoder makes the drive whose turn it is, if it is erased.
LEMMA DriveDecoded ==
  ASSUME NEW p, NEW k, NEW m, NEW w, NEW bits, NEW erased, NEW ones, NEW inverse,
         p.k = k, p.m = m, p.w = w, p.bits = bits, p.erased = erased, p.ones = ones,
         p.inverse = inverse,
         BitCode(k, m, w, bits), ones \in BOOLEAN, Allowed(k, m, w, bits, ones, erased),
         erased \in SUBSET (0..k+m-1), Cardinality(erased) <= m,
         inverse = jerasure_make_decoding_bitmatrix(k, m, w, bits, erased),
         (\E d \in erased : d < k /\ d < lastdrive(k, ones, erased)) => inverse.ok,
         NEW n \in 0..k+m, NEW s, DrivesInv(p, s, n)
  PROVE  DrivesInv(p, DecodeStep(p, s, n), n + 1)
<1> DEFINE last == lastdrive(k, ones, erased)
           ids == [i \in 0..k-1 |-> IF i < last THEN i ELSE i + 1]
           t == DecodeStep(p, s, n)
<1>1. k \in Nat \ {0} /\ m \in Nat /\ w \in Nat \ {0}
  BY DEF BitCode
<1>2. \/ last = k
      \/ /\ ones /\ k \notin erased /\ last \in 0..k-1 /\ last \in erased
         /\ \A d \in erased : d \in 0..k-1 => d <= last
  BY <1>1, LastErased
<1>3. t = CASE n \in {i \in erased : i < k} /\ n < last ->
                 jerasure_bitmatrix_dotprod(k, w, RowsOf(inverse.inv, n, w), dm_ids(k, m, erased), n, s)
            [] n = k /\ last # k -> jerasure_bitmatrix_dotprod(k, w, RowsOf(bits, 0, w), ids, last, s)
            [] n > k /\ n - 1 \in erased ->
                 jerasure_bitmatrix_dotprod(k, w, RowsOf(bits, n - 1 - k, w), Data(k), n - 1, s)
            [] OTHER -> s
  BY DEF DecodeStep
<1>h. Holding(k, m, w, bits, erased, last, s, n)
  BY DEF DrivesInv
<1> HIDE DEF last, t, ids
<1>4. SUFFICES Holding(k, m, w, bits, erased, last, t, n + 1)
  BY DEF DrivesInv, last, t
<1>5. n \in Nat /\ last \in 0..k
  BY <1>1, <1>2
<1>6. CASE n \in erased /\ n < k /\ n < last
  <2>1. t = jerasure_bitmatrix_dotprod(k, w, RowsOf(inverse.inv, n, w), dm_ids(k, m, erased), n, s)
    <3>1. ~ (n = k /\ last # k) /\ ~ (n > k /\ n - 1 \in erased)
      BY <1>1, <1>6
    <3> QED BY <1>3, <1>6, <3>1
  <2>2. inverse.ok
    BY <1>6 DEF last
  <2>3. \A d \in (0..k+m-1) \ erased : s[d] = Contents(k, w, bits, d)
    BY <1>h DEF Holding, Made
  <2> DEFINE value == [x \in 0..w-1 |-> {n * w + x}]
  <2>4. n \in 0..k-1 /\ Contents(k, w, bits, n) = value
    BY <1>1, <1>6 DEF Contents
  <2>5. ASSUME NEW x \in 0..w-1
        PROVE  /\ RowsOf(inverse.inv, n, w)[x] # {}
               /\ XorAll(Packets(k, w, dm_ids(k, m, erased), s),
                         RowsOf(inverse.inv, n, w)[x]) = value[x]
    <3>1. RowsOf(inverse.inv, n, w)[x] = inverse.inv[n * w + x]
      BY DEF RowsOf
    <3>2. value[x] = {n * w + x}
      OBVIOUS
    <3> HIDE DEF value
    <3>3. Recoverable(k, m, w, bits, erased, inverse, s)
      BY <2>2, <2>3 DEF Recoverable
    <3> DEFINE row == inverse.inv[n * w + x]
    <3>4. row # {} /\ XorAll(Packets(k, w, dm_ids(k, m, erased), s), row) = {n * w + x}
      BY <2>4, <3>3, FromInverse
    <3> HIDE DEF row
    <3>5. RowsOf(inverse.inv, n, w)[x] = row
      BY <3>1 DEF row
    <3> QED BY <3>2, <3>4, <3>5
  <2>6. value = [x \in 0..w-1 |-> value[x]]
    OBVIOUS
  <2> HIDE DEF value
  <2>z. RowProducts(k, w, RowsOf(inverse.inv, n, w), dm_ids(k, m, erased), s, value)
    BY <2>5, <2>6 DEF RowProducts
  <2>7. t = WrittenTo(s, n, value)
    BY <2>1, <2>z, DotprodWrites
  <2>8. \A d \in 0..k+m-1 : d # n /\ Made(k, last, erased, d, n + 1) => Made(k, last, erased, d, n)
    BY <1>1, <1>5, <1>6 DEF Made
  <2>9. n \in 0..k+m-1
    BY <1>1, <2>4
  <2> QED BY <1>1, <1>5, <1>h, <2>4, <2>7, <2>8, <2>9, OneMore
<1>7. CASE n = k /\ last # k
  <2>1. t = jerasure_bitmatrix_dotprod(k, w, RowsOf(bits, 0, w), ids, last, s)
    <3>1. ~ (n \in erased /\ n < k /\ n < last) /\ ~ (n > k /\ n - 1 \in erased)
      BY <1>1, <1>7
    <3> QED BY <1>3, <1>7, <3>1
  <2>2. /\ ones /\ k \notin erased /\ last \in 0..k-1 /\ last \in erased
        /\ \A d \in erased : d \in 0..k-1 => d <= last
    BY <1>2, <1>7
  <2>3. PlainSumFirst(k, m, w, bits)
    BY <2>2 DEF Allowed
  <2>4. \A d \in (0..k) \ {last} : s[d] = Contents(k, w, bits, d)
    <3> TAKE d \in (0..k) \ {last}
    <3>1. m >= 1
      BY <1>1, <2>3 DEF PlainSumFirst
    <3>2. d \in 0..k+m-1
      BY <1>1, <3>1
    <3>3. d \in erased => d < k /\ d < last /\ d < n
      BY <1>1, <1>7, <2>2
    <3>4. Made(k, last, erased, d, n)
      BY <3>3 DEF Made
    <3> QED BY <1>h, <3>2, <3>4 DEF Holding
  <2> DEFINE value == [x \in 0..w-1 |-> {last * w + x}]
  <2>5. Contents(k, w, bits, last) = value
    BY <1>1, <2>2 DEF Contents
  <2>6. ASSUME NEW x \in 0..w-1
        PROVE  /\ RowsOf(bits, 0, w)[x] # {}
               /\ XorAll(Packets(k, w, ids, s), RowsOf(bits, 0, w)[x]) = value[x]
    <3>1. 0 * w + x = x
      BY <1>1
    <3>2. RowsOf(bits, 0, w)[x] = bits[x]
      BY <3>1 DEF RowsOf
    <3>3. value[x] = {last * w + x}
      OBVIOUS
    <3> HIDE DEF value
    <3>i. LastMissing(k, m, w, bits, last, s, ids)
      BY <2>2, <2>3, <2>4 DEF LastMissing, ids
    <3>4. XorAll(Packets(k, w, ids, s), bits[x]) = value[x]
      BY <3>3, <3>i, FromSum
    <3>5. bits[x] # {}
      BY <3>3, <3>4, XorAllEmpty DEF Zero
    <3> QED BY <3>2, <3>4, <3>5
  <2>7. value = [x \in 0..w-1 |-> value[x]]
    OBVIOUS
  <2> HIDE DEF value
  <2>z. RowProducts(k, w, RowsOf(bits, 0, w), ids, s, value)
    BY <2>6, <2>7 DEF RowProducts
  <2>8. t = WrittenTo(s, last, value)
    BY <2>1, <2>z, DotprodWrites
  <2>9. \A d \in 0..k+m-1 : d # last /\ Made(k, last, erased, d, n + 1) => Made(k, last, erased, d, n)
    BY <1>1, <1>5, <1>7, <2>2 DEF Made
  <2>10. last \in 0..k+m-1
    BY <1>1, <2>2
  <2> QED BY <1>1, <1>5, <1>h, <2>5, <2>8, <2>9, <2>10, OneMore
<1>8. CASE n > k /\ n - 1 \in erased
  <2> DEFINE e == n - 1
  <2>1. t = jerasure_bitmatrix_dotprod(k, w, RowsOf(bits, e - k, w), Data(k), e, s)
    <3>1. ~ (n \in erased /\ n < k /\ n < last) /\ ~ (n = k /\ last # k)
      BY <1>1, <1>8
    <3> QED BY <1>3, <1>8, <3>1
  <2>2. e \in k..k+m-1 /\ e \in 0..k+m-1 /\ n = e + 1 /\ ~ e < k
    BY <1>1, <1>8
  <2> HIDE DEF e
  <2>3. \A d \in 0..k-1 : s[d] = Contents(k, w, bits, d)
    <3> TAKE d \in 0..k-1
    <3>1. d \in 0..k+m-1
      BY <1>1
    <3>2. d \in erased => d < last \/ d = last
      BY <1>1, <1>2
    <3>3. Made(k, last, erased, d, n)
      BY <1>1, <1>8, <3>2 DEF Made
    <3> QED BY <1>h, <3>1, <3>3 DEF Holding
  <2> DEFINE value == RowsOf(bits, e - k, w)
  <2>4. Contents(k, w, bits, e) = value
    BY <2>2 DEF Contents
  <2>5. ASSUME NEW x \in 0..w-1
        PROVE  /\ value[x] # {}
               /\ XorAll(Packets(k, w, Data(k), s), value[x]) = value[x]
    <3>1. value[x] = bits[(e - k) * w + x] /\ value[x] # {}
      BY <2>2, BitRows
    <3> HIDE DEF value
    <3> QED BY <2>2, <2>3, <3>1, FromData
  <2>6. value = [x \in 0..w-1 |-> value[x]]
    BY DEF RowsOf
  <2>z. RowProducts(k, w, value, Data(k), s, value)
    <3> HIDE DEF value
    <3> QED BY <2>5, <2>6 DEF RowProducts
  <2>7. t = WrittenTo(s, e, value)
    <3> HIDE DEF value
    <3>1. t = jerasure_bitmatrix_dotprod(k, w, value, Data(k), e, s)
      BY <2>1 DEF value
    <3> QED BY <2>z, <3>1, DotprodWrites
  <2> HIDE DEF value
  <2>8. \A d \in 0..k+m-1 : d # e /\ Made(k, last, erased, d, n + 1) => Made(k, last, erased, d, n)
    BY <1>1, <1>5, <1>8, <2>2 DEF Made
  <2> QED BY <1>1, <1>5, <1>h, <2>2, <2>4, <2>7, <2>8, OneMore
<1>9. CASE /\ ~ (n \in erased /\ n < k /\ n < last)
           /\ ~ (n = k /\ last # k)
           /\ ~ (n > k /\ n - 1 \in erased)
  <2>1. t = s
    BY <1>3, <1>9
  <2>2. \A d \in 0..k+m-1 : Made(k, last, erased, d, n + 1) => Made(k, last, erased, d, n)
    BY <1>1, <1>5, <1>9 DEF Made
  <2> QED BY <1>h, <2>1, <2>2 DEF Holding
<1> QED BY <1>6, <1>7, <1>8, <1>9


DecodeBits(k, m, w, ones, erased, inverse, bits, mem) ==
  DecodeDrives(k, m, ones, erased, inverse, LAMBDA rows, i : RowsOf(rows, i, w), bits,
               LAMBDA row, ids, d, s : jerasure_bitmatrix_dotprod(k, w, row, ids, d, s), mem)

\* The decoder has what it needs: an inverse, or nothing but the plain sum to use.
Decodable(k, ones, erased, inverse) ==
  LET lost == {i \in erased : i < k}
  IN  lost = {} \/ (Cardinality(lost) = 1 /\ lastdrive(k, ones, erased) # k) \/ inverse.ok

\* The turns of the decoder.
LEMMA DecodeIsLoop ==
  ASSUME NEW p, NEW mem
  PROVE  DecodeBits(p.k, p.m, p.w, p.ones, p.erased, p.inverse, p.bits, mem)
           = IF Decodable(p.k, p.ones, p.erased, p.inverse)
             THEN [ok |-> TRUE, mem |-> Decode!Turns(p, mem, p.k + p.m + 1)]
             ELSE Failure
BY Zenon DEF Decodable, DecodeBits, DecodeDrives, DecodeStep, Decode!Turns, Decode!Loop, Decode!Now, Loop, Now

\* The drives that are not erased hold what the matrix says.
Intact(k, m, w, bits, erasures, mem) ==
  /\ ToSet(erasures) \in SUBSET (0..k+m-1)
  /\ mem = [d \in 0..k+m-1 |-> mem[d]]
  /\ \A d \in (0..k+m-1) \ ToSet(erasures) : mem[d] = Contents(k, w, bits, d)

\* With a code whose rows are not empty the drives are all restored if the function
\* does not fail, whichever are erased and whatever the matrix; the short cut must
\* not be asked for unless the first coding drive is the plain sum, or is erased.
THEOREM DecodeRestores ==
  ASSUME NEW k, NEW m, NEW w, NEW bits, BitCode(k, m, w, bits),
         NEW ones \in BOOLEAN, NEW erasures, NEW mem, Intact(k, m, w, bits, erasures, mem),
         Allowed(k, m, w, bits, ones, ToSet(erasures)),
         jerasure_bitmatrix_decode(k, m, w, bits, ones, erasures, mem).ok
  PROVE  jerasure_bitmatrix_decode(k, m, w, bits, ones, erasures, mem).mem
           = [d \in 0..k+m-1 |-> Contents(k, w, bits, d)]
<1>0. /\ ToSet(erasures) \in SUBSET (0..k+m-1) /\ mem = [d \in 0..k+m-1 |-> mem[d]]
      /\ \A d \in (0..k+m-1) \ ToSet(erasures) : mem[d] = Contents(k, w, bits, d)
  BY DEF Intact
<1> USE <1>0
<1> DEFINE erased == ToSet(erasures)
           inverse == jerasure_make_decoding_bitmatrix(k, m, w, bits, erased)
           lost == {i \in erased : i < k}
           last == lastdrive(k, ones, erased)
           p == [k |-> k, m |-> m, w |-> w, bits |-> bits, erased |-> erased, ones |-> ones,
                 inverse |-> inverse]
           result == jerasure_bitmatrix_decode(k, m, w, bits, ones, erasures, mem)
           goes == Decodable(k, ones, erased, inverse)
           N == k + m + 1
<1>1. k \in Nat \ {0} /\ m \in Nat /\ w \in Nat \ {0} /\ N \in Nat
  BY DEF BitCode
<1>2. Failure.ok = FALSE
  BY DEF Failure
<1>3. Cardinality(erased) <= m
  <2>1. CASE Cardinality(erased) > m
    <3>1. result = Failure
      BY Zenon, <2>1, <1>2 DEF jerasure_bitmatrix_decode, jerasure_erasures_to_erased
    <3> QED BY <1>2, <3>1
  <2>2. CASE ~ Cardinality(erased) > m
    <3>1. IsFiniteSet(erased)
      <4>1. IsFiniteSet(0..k+m-1)
        <5>1. 0 \in Int /\ k + m - 1 \in Int
          BY <1>1
        <5> QED BY <5>1, FS_Interval
      <4> QED BY <4>1, FS_Subset
    <3>2. Cardinality(erased) \in Nat
      BY <3>1, FS_CardinalityType
    <3> HIDE DEF erased
    <3> QED BY <1>1, <2>2, <3>2
  <2> QED BY <2>1, <2>2
<1>p. /\ p.k = k /\ p.m = m /\ p.w = w /\ p.bits = bits /\ p.erased = erased /\ p.ones = ones
      /\ p.inverse = inverse
  OBVIOUS
<1>4. result = DecodeBits(k, m, w, ones, erased, inverse, bits, mem)
  <2>1. jerasure_erasures_to_erased(k, m, erasures) = [ok |-> TRUE, erased |-> erased]
    <3>1. ~ Cardinality(ToSet(erasures)) > m
      <4>1. result.ok
        OBVIOUS
      <4>2. CASE Cardinality(ToSet(erasures)) > m
        BY Zenon, <1>2, <4>1, <4>2 DEF jerasure_bitmatrix_decode, jerasure_erasures_to_erased
      <4> QED BY <4>2
    <3> QED BY <3>1 DEF jerasure_erasures_to_erased
  <2>2. [ok |-> TRUE, erased |-> erased].ok = TRUE /\ [ok |-> TRUE, erased |-> erased].erased = erased
    OBVIOUS
  <2> HIDE DEF erased
  <2> QED BY Zenon, <2>1, <2>2 DEF jerasure_bitmatrix_decode, DecodeBits, inverse, result
<1> HIDE DEF p, inverse, erased, result
<1>5. result = IF goes THEN [ok |-> TRUE, mem |-> Decode!Turns(p, mem, N)] ELSE Failure
  BY <1>4, <1>p, DecodeIsLoop
<1>6. result.ok
  BY DEF result
<1>7. goes /\ result.mem = Decode!Turns(p, mem, N)
  <2> HIDE DEF goes
  <2> QED BY <1>2, <1>5, <1>6
<1>8. \/ last = k
      \/ last \in 0..k-1 /\ last \in erased /\ \A d \in erased : d \in 0..k-1 => d <= last
  BY <1>1, LastErased
<1> HIDE DEF last
<1>e. erased \in SUBSET (0..k+m-1) /\ Allowed(k, m, w, bits, ones, erased)
  BY DEF erased
<1>9. (\E d \in erased : d < k /\ d < last) => inverse.ok
  <2> SUFFICES ASSUME NEW d \in erased, d < k, d < last, ~ inverse.ok
               PROVE  FALSE
    OBVIOUS
  <2>1. d \in lost /\ Cardinality(lost) = 1 /\ last # k
    BY <1>7 DEF Decodable, last
  <2>2. last \in lost /\ last # d
    BY <1>1, <1>8, <1>e, <2>1
  <2>3. IsFiniteSet(lost)
    <3>1. IsFiniteSet(0..k+m-1)
      <4>1. 0 \in Int /\ k + m - 1 \in Int
        BY <1>1
      <4> QED BY <4>1, FS_Interval
    <3>2. lost \in SUBSET (0..k+m-1)
      BY <1>e
    <3> QED BY <3>1, <3>2, FS_Subset
  <2> HIDE DEF lost
  <2>4. \E x : lost = {x}
    BY <2>1, <2>3, FS_Singleton
  <2> QED BY <2>1, <2>2, <2>4
<1>10. DrivesInv(p, mem, 0)
  <2>1. \A d \in 0..k+m-1 : Made(k, last, erased, d, 0) => d \notin erased
    BY <1>1 DEF Made
  <2>2. Holding(k, m, w, bits, erased, last, mem, 0)
    BY <2>1 DEF Holding, erased
  <2> QED BY <1>p, <2>2 DEF DrivesInv, last
<1>11. \A n \in 0..N-1 : \A s : DrivesInv(p, s, n) => DrivesInv(p, DecodeStep(p, s, n), n + 1)
  <2>1. \A n \in 0..N-1 : n \in 0..k+m
    BY <1>1
  <2> TAKE n \in 0..N-1
  <2> TAKE s
  <2> HAVE DrivesInv(p, s, n)
  <2>2. n \in 0..k+m
    BY <2>1
  <2> QED BY <1>3, <1>9, <1>p, <1>e, <2>2, DriveDecoded DEF inverse, last
<1>12. DrivesInv(p, Decode!Turns(p, mem, N), N)
  BY <1>1, <1>10, <1>11, Decode!LoopKeeps
<1> DEFINE r == Decode!Turns(p, mem, N)
<1>13. Holding(k, m, w, bits, erased, last, r, N)
  BY <1>12, <1>p DEF DrivesInv, last
<1> HIDE DEF r
<1>14. \A d \in 0..k+m-1 : Made(k, last, erased, d, N)
  BY <1>1, <1>8, <1>e, SMTT(60) DEF Made
<1>15. r = [d \in 0..k+m-1 |-> r[d]] /\ \A d \in 0..k+m-1 : r[d] = Contents(k, w, bits, d)
  BY <1>13, <1>14 DEF Holding
<1>16. r = [d \in 0..k+m-1 |-> Contents(k, w, bits, d)]
  BY <1>15
<1> QED BY <1>7, <1>16 DEF result, r

(***************************************************************************)
(* Schedules of packet operations.                                         *)
(***************************************************************************)
Operated(ptrs, op, s) ==
  LET source == s[ptrs[op.from]][op.packet]
  IN  [s EXCEPT ![ptrs[op.to]][op.row] = IF op.xor THEN Xor(source, @) ELSE source]

OperationStep(p, s, n) == Operated(p.ptrs, p.operations[n + 1], s)

Whatever(p, s, n) == TRUE

Perform == INSTANCE Loops_proofs WITH Step <- OperationStep, Inv <- Whatever

InOrder(k, m) == [i \in 0..k+m-1 |-> i]

\* jerasure_do_scheduled_operations as an instance of the loop.
LEMMA PerformIsLoop ==
  ASSUME NEW p, NEW mem
  PROVE  jerasure_do_scheduled_operations(p.ptrs, p.operations, mem)
           = Perform!Turns(p, mem, Len(p.operations))
BY Zenon DEF jerasure_do_scheduled_operations, Operated, OperationStep, Perform!Turns, Perform!Loop,
             Perform!Now, Loop, Now

Operations(k, m, w) ==
  [from : 0..k+m-1, packet : 0..w-1, to : k..k+m-1, row : 0..w-1, xor : BOOLEAN]

\* The drives after the operations.
Performed(k, m, operations, mem) ==
  Perform!Turns([ptrs |-> InOrder(k, m), operations |-> operations], mem, Len(operations))

\* jerasure_schedule_encode performs the schedule with the drives in their order.
LEMMA EncodePerforms ==
  ASSUME NEW k, NEW m, NEW operations, NEW mem
  PROVE  jerasure_schedule_encode(k, m, operations, mem) = Performed(k, m, operations, mem)
<1> DEFINE p == [ptrs |-> InOrder(k, m), operations |-> operations]
<1>1. p.ptrs = InOrder(k, m) /\ p.operations = operations
  OBVIOUS
<1> HIDE DEF p
<1>2. jerasure_do_scheduled_operations(InOrder(k, m), operations, mem)
        = Perform!Turns(p, mem, Len(operations))
  BY <1>1, PerformIsLoop
<1> QED BY <1>2 DEF jerasure_schedule_encode, Performed, InOrder, p

\* One operation after the other, in one list or in two.
LEMMA PerformAppend ==
  ASSUME NEW k, NEW m, NEW S, NEW a \in Seq(S), NEW b \in Seq(S), NEW mem
  PROVE  Performed(k, m, a \o b, mem) = Performed(k, m, b, Performed(k, m, a, mem))
<1> DEFINE P(ops) == [ptrs |-> InOrder(k, m), operations |-> ops]
           ab == a \o b
           then == Performed(k, m, a, mem)
           F == {i \in 0..Len(a) : Perform!Turns(P(ab), mem, i) = Perform!Turns(P(a), mem, i)}
           G == {i \in 0..Len(b) :
                   Perform!Turns(P(ab), mem, Len(a) + i) = Perform!Turns(P(b), then, i)}
<1>1. /\ Len(a) \in Nat /\ Len(b) \in Nat /\ Len(ab) = Len(a) + Len(b)
      /\ \A i \in 1..Len(a)+Len(b) : ab[i] = IF i <= Len(a) THEN a[i] ELSE b[i - Len(a)]
  BY ConcatProperties, LenProperties
<1>2. \A x : P(x).ptrs = InOrder(k, m) /\ P(x).operations = x
  OBVIOUS
<1> HIDE DEF ab, P
<1>3. \A x, y, s, i, j : x[i + 1] = y[j + 1] => OperationStep(P(x), s, i) = OperationStep(P(y), s, j)
  BY <1>2 DEF OperationStep
<1>4. \A i \in 0..Len(a) : i \in F
  <2>1. 0 \in F
    BY <1>1, Perform!LoopTurns
  <2>2. ASSUME NEW i \in 0..Len(a)-1, i \in F
        PROVE  i + 1 \in F
    <3>1. i \in Nat /\ i + 1 \in 0..Len(a) /\ ab[i + 1] = a[i + 1]
      BY <1>1
    <3>2. Perform!Turns(P(ab), mem, i) = Perform!Turns(P(a), mem, i)
      BY <2>2
    <3>3. /\ Perform!Turns(P(ab), mem, i + 1) = OperationStep(P(ab), Perform!Turns(P(ab), mem, i), i)
          /\ Perform!Turns(P(a), mem, i + 1) = OperationStep(P(a), Perform!Turns(P(a), mem, i), i)
      BY <3>1, Perform!LoopTurns
    <3> QED BY <1>3, <3>1, <3>2, <3>3
  <2> HIDE DEF F
  <2> QED BY <1>1, <2>1, <2>2, Induct
<1>5. Perform!Turns(P(ab), mem, Len(a)) = then
  <2>1. Len(a) \in F
    BY <1>1, <1>4
  <2> QED BY <2>1 DEF Performed, P
<1> HIDE DEF then
<1>6. \A i \in 0..Len(b) : i \in G
  <2>1. 0 \in G
    <3>1. Perform!Turns(P(b), then, 0) = then
      BY <1>1, Perform!LoopTurns
    <3>2. Len(a) + 0 = Len(a) /\ 0 \in 0..Len(b)
      BY <1>1
    <3> QED BY <1>5, <3>1, <3>2
  <2>2. ASSUME NEW i \in 0..Len(b)-1, i \in G
        PROVE  i + 1 \in G
    <3> DEFINE j == Len(a) + i
    <3>1. /\ i \in Nat /\ i + 1 \in 0..Len(b) /\ j \in Nat /\ Len(a) + (i + 1) = j + 1
          /\ ab[j + 1] = b[i + 1]
      <4>1. i \in Nat /\ i + 1 \in 0..Len(b) /\ j \in Nat /\ Len(a) + (i + 1) = j + 1
        BY <1>1
      <4>2. j + 1 \in 1..Len(a)+Len(b) /\ ~ j + 1 <= Len(a) /\ (j + 1) - Len(a) = i + 1
        BY <1>1
      <4> QED BY <1>1, <4>1, <4>2
    <3>2. Perform!Turns(P(ab), mem, j) = Perform!Turns(P(b), then, i)
      BY <2>2
    <3> HIDE DEF j
    <3>3. /\ Perform!Turns(P(ab), mem, j + 1) = OperationStep(P(ab), Perform!Turns(P(ab), mem, j), j)
          /\ Perform!Turns(P(b), then, i + 1) = OperationStep(P(b), Perform!Turns(P(b), then, i), i)
      BY <3>1, Perform!LoopTurns
    <3> QED BY <1>3, <3>1, <3>2, <3>3
  <2> HIDE DEF G
  <2> QED BY <1>1, <2>1, <2>2, Induct
<1>7. Perform!Turns(P(ab), mem, Len(a) + Len(b)) = Perform!Turns(P(b), then, Len(b))
  <2>1. Len(b) \in G
    BY <1>1, <1>6
  <2> QED BY <2>1
<1> QED BY <1>1, <1>7 DEF Performed, P, ab, then


Memories(k, m, w) == [0..k+m-1 -> [0..w-1 -> SUBSET Int]]

\* The packet of a coding drive that row r of the matrix makes.
Cell(k, w, s, r) == s[k + (r \div w)][r % w]
Put(k, w, s, r, v) == [s EXCEPT ![k + (r \div w)][r % w] = v]

\* Row r of a bit matrix is packet r % w of coding drive r \div w.
LEMMA RowPlace ==
  ASSUME NEW k \in Nat, NEW m \in Nat, NEW w \in Nat \ {0}, NEW r \in 0..m*w-1
  PROVE  k + (r \div w) \in k..k+m-1 /\ k + (r \div w) \in 0..k+m-1 /\ r % w \in 0..w-1
<1> DEFINE e == r \div w
<1>1. e \in 0..m-1 /\ r % w \in 0..w-1
  BY PacketOf
<1> HIDE DEF e
<1>2. k + e \in k..k+m-1 /\ k + e \in 0..k+m-1
  BY <1>1
<1> QED BY <1>1, <1>2 DEF e

Place(k, m, w, s, r) ==
  k \in Nat /\ m \in Nat /\ w \in Nat \ {0} /\ s \in Memories(k, m, w) /\ r \in 0..m*w-1

\* Writing row r of the coding drives: what is read back, what is left alone.
LEMMA Puts ==
  ASSUME NEW k, NEW m, NEW w, NEW s, NEW r, Place(k, m, w, s, r),
         NEW v \in SUBSET Int, NEW u \in SUBSET Int
  PROVE  /\ Put(k, w, s, r, v) \in Memories(k, m, w)
         /\ Cell(k, w, Put(k, w, s, r, v), r) = v
         /\ Put(k, w, Put(k, w, s, r, v), r, u) = Put(k, w, s, r, u)
         /\ \A d \in 0..k-1 : Put(k, w, s, r, v)[d] = s[d]
         /\ Put(k, w, s, r, Cell(k, w, s, r)) = s
         /\ Cell(k, w, s, r) \in SUBSET Int
<1> DEFINE e == k + (r \div w)
           y == r % w
<1>0. k \in Nat /\ m \in Nat /\ w \in Nat \ {0} /\ s \in Memories(k, m, w) /\ r \in 0..m*w-1
  BY DEF Place
<1>1. e \in 0..k+m-1 /\ e \in k..k+m-1 /\ y \in 0..w-1
  BY <1>0, RowPlace
<1> DEFINE Set(t, a) == [t EXCEPT ![e][y] = a]
<1>2. \A t, a : Put(k, w, t, r, a) = Set(t, a) /\ Cell(k, w, t, r) = t[e][y]
  BY DEF Cell, Put
<1> HIDE DEF e, y
<1>3. s[e][y] \in SUBSET Int
  BY <1>0, <1>1 DEF Memories
<1>4. Set(s, v) \in Memories(k, m, w) /\ Set(s, v)[e][y] = v
  BY <1>0, <1>1 DEF Memories
<1>5. Set(Set(s, v), u) = Set(s, u)
  BY <1>0, <1>1 DEF Memories
<1>6. \A d \in 0..k-1 : Set(s, v)[d] = s[d]
  BY <1>0, <1>1 DEF Memories
<1>7. Set(s, s[e][y]) = s
  BY <1>0, <1>1 DEF Memories
<1> HIDE DEF Set
<1> QED BY <1>1, <1>2, <1>3, <1>4, <1>5, <1>6, <1>7

Moves(k, m, w, s, r, f, q, xor) ==
  Place(k, m, w, s, r) /\ f \in 0..k+m-1 /\ q \in 0..w-1 /\ xor \in BOOLEAN

\* One operation of a schedule writes one packet: a copy, or a sum with what is there.
LEMMA OperationPuts ==
  ASSUME NEW k, NEW m, NEW w, NEW s, NEW r, NEW f, NEW q, NEW xor, Moves(k, m, w, s, r, f, q, xor)
  PROVE  Operated(InOrder(k, m), Operation(f, q, k + (r \div w), r % w, xor), s)
           = Put(k, w, s, r, IF xor THEN Xor(s[f][q], Cell(k, w, s, r)) ELSE s[f][q])
<1> DEFINE op == Operation(f, q, k + (r \div w), r % w, xor)
<1>0. k \in Nat /\ m \in Nat /\ w \in Nat \ {0} /\ s \in Memories(k, m, w) /\ r \in 0..m*w-1
  BY DEF Moves, Place
<1>f. f \in 0..k+m-1 /\ q \in 0..w-1 /\ xor \in BOOLEAN
  BY DEF Moves
<1>1. k + (r \div w) \in 0..k+m-1
  BY <1>0, RowPlace
<1>i. \A d \in 0..k+m-1 : InOrder(k, m)[d] = d
  BY DEF InOrder
<1>o. op.from = f /\ op.packet = q /\ op.to = k + (r \div w) /\ op.row = r % w /\ op.xor = xor
  BY DEF Operation
<1>2. /\ op.from = f /\ op.packet = q /\ op.to = k + (r \div w) /\ op.row = r % w /\ op.xor = xor
      /\ InOrder(k, m)[f] = f /\ InOrder(k, m)[k + (r \div w)] = k + (r \div w)
  BY <1>1, <1>f, <1>i, <1>o
<1> HIDE DEF op
<1>3. Operated(InOrder(k, m), op, s)
        = [s EXCEPT ![k + (r \div w)][r % w] =
              IF xor THEN Xor(s[f][q], s[k + (r \div w)][r % w]) ELSE s[f][q]]
  <2> DEFINE e == k + (r \div w)
             y == r % w
  <2>1. e \in 0..k+m-1 /\ y \in 0..w-1
    BY <1>0, RowPlace
  <2>2. Operated(InOrder(k, m), op, s) = [s EXCEPT ![e][y] = IF xor THEN Xor(s[f][q], @) ELSE s[f][q]]
    BY <1>2 DEF Operated
  <2> HIDE DEF e, y
  <2>3. [s EXCEPT ![e][y] = IF xor THEN Xor(s[f][q], @) ELSE s[f][q]]
          = [s EXCEPT ![e][y] = IF xor THEN Xor(s[f][q], s[e][y]) ELSE s[f][q]]
    BY <1>0, <2>1 DEF Memories
  <2> QED BY <2>2, <2>3 DEF e, y
<1> QED BY <1>3 DEF op, Put, Cell


\* A function on 1..n is a sequence.
LEMMA Lists ==
  ASSUME NEW n \in Nat, NEW S, NEW f \in [1..n -> S]
  PROVE  f \in Seq(S) /\ Len(f) = n
OBVIOUS

Columns(N, columns) == N \in Nat /\ columns \in SUBSET (0..N-1)

\* The columns of a row in order: each of them once.
LEMMA SortedColumns ==
  ASSUME NEW N, NEW columns, Columns(N, columns)
  PROVE  LET c == Sorted(columns)
         IN  /\ IsFiniteSet(columns) /\ Len(c) = Cardinality(columns) /\ Len(c) \in Nat
             /\ c \in [1..Len(c) -> columns]
             /\ \A x \in columns : \E n \in 1..Len(c) : c[n] = x
             /\ \A i, j \in 1..Len(c) : c[i] = c[j] => i = j
<1>0. N \in Nat /\ columns \in SUBSET (0..N-1)
  BY DEF Columns
<1>1. IsFiniteSet(columns)
  <2>1. 0 \in Int /\ N - 1 \in Int
    BY <1>0
  <2>2. IsFiniteSet(0..N-1)
    BY <2>1, FS_Interval
  <2> QED BY <1>0, <2>2, FS_Subset
<1>2. columns \in SUBSET Int
  BY <1>0
<1>3. /\ Cardinality(columns) \in Nat
      /\ Sorted(columns) \in [1..Cardinality(columns) -> columns]
      /\ \A x \in columns : \E n \in 1..Cardinality(columns) : Sorted(columns)[n] = x
      /\ \A i, j \in 1..Cardinality(columns) : Sorted(columns)[i] = Sorted(columns)[j] => i = j
  BY <1>1, <1>2, SortedIs
<1>4. Len(Sorted(columns)) = Cardinality(columns)
  BY <1>3, Lists
<1> QED BY <1>1, <1>3, <1>4

\* The data drives hold their own packets.
Own(k, w, s) == \A d \in 0..k-1 : \A x \in 0..w-1 : s[d][x] = {d * w + x}

Ready(k, m, w, s, r, columns, started) ==
  /\ Place(k, m, w, s, r) /\ Own(k, w, s)
  /\ columns \in SUBSET (0..k*w-1) /\ started \in BOOLEAN
  /\ started \/ columns # {}

\* The operations of a row put the sum of the row's columns into its packet, or add it.
LEMMA RowPerformed ==
  ASSUME NEW k, NEW m, NEW w, NEW s, NEW r, NEW columns, NEW started,
         Ready(k, m, w, s, r, columns, started)
  PROVE  LET ops == RowOperations(columns, r, k, w, started)
         IN  /\ ops \in Seq(Operations(k, m, w))
             /\ Performed(k, m, ops, s)
                  = Put(k, w, s, r, IF started THEN Xor(Cell(k, w, s, r), columns) ELSE columns)
<1>r. /\ k \in Nat /\ m \in Nat /\ w \in Nat \ {0} /\ s \in Memories(k, m, w) /\ r \in 0..m*w-1
      /\ \A d \in 0..k-1 : \A x \in 0..w-1 : s[d][x] = {d * w + x}
      /\ columns \in SUBSET (0..k*w-1) /\ started \in BOOLEAN /\ (started \/ columns # {})
  BY DEF Ready, Place, Own
<1> USE <1>r
<1> DEFINE c == Sorted(columns)
           N == Len(c)
           ops == RowOperations(columns, r, k, w, started)
           p == [ptrs |-> InOrder(k, m), operations |-> ops]
           base == IF started THEN Cell(k, w, s, r) ELSE {}
           seen(n) == {c[i] : i \in 1..n}
           value(n) == IF n = 0 THEN Cell(k, w, s, r) ELSE Xor(base, seen(n))
           F == {n \in 0..N : Perform!Turns(p, s, n) = Put(k, w, s, r, value(n))}
<1>1. /\ IsFiniteSet(columns) /\ N = Cardinality(columns) /\ N \in Nat /\ c \in [1..N -> columns]
      /\ \A x \in columns : \E n \in 1..N : c[n] = x
      /\ \A i, j \in 1..N : c[i] = c[j] => i = j
  <2> DEFINE K == k * w
  <2>1. K \in Nat
    BY Multiple
  <2>2. Columns(K, columns)
    BY <2>1 DEF Columns
  <2> HIDE DEF K
  <2> QED BY <2>2, SortedColumns
<1>2. ops = [n \in 1..N |-> Operation(c[n] \div w, c[n] % w, k + (r \div w), r % w, started \/ n > 1)]
  BY DEF RowOperations
<1>3. p.ptrs = InOrder(k, m) /\ p.operations = ops
  OBVIOUS
<1>c. \A n \in 1..N : /\ c[n] \in columns /\ c[n] \div w \in 0..k-1 /\ c[n] % w \in 0..w-1
                      /\ (c[n] \div w) * w + (c[n] % w) = c[n]
  <2>1. \A n \in 1..N : c[n] \in columns
    BY <1>1
  <2>2. \A a \in columns : a \div w \in 0..k-1 /\ a % w \in 0..w-1 /\ (a \div w) * w + (a % w) = a
    <3> TAKE a \in columns
    <3>1. a \in 0..k*w-1
      OBVIOUS
    <3> QED BY <3>1, PacketOf
  <2> HIDE DEF c
  <2> QED BY <2>1, <2>2
<1> HIDE DEF c, N, p, ops
<1>4. ops \in Seq(Operations(k, m, w)) /\ Len(ops) = N
  <2>1. \A n \in 1..N : ops[n] \in Operations(k, m, w)
    <3> TAKE n \in 1..N
    <3>1. ops[n] = Operation(c[n] \div w, c[n] % w, k + (r \div w), r % w, started \/ n > 1)
      BY <1>2
    <3>2. c[n] \div w \in 0..k+m-1 /\ c[n] % w \in 0..w-1
      BY <1>c
    <3>3. k + (r \div w) \in k..k+m-1 /\ r % w \in 0..w-1
      BY RowPlace
    <3> DEFINE f == c[n] \div w
               q == c[n] % w
               e == k + (r \div w)
               y == r % w
               xor == started \/ n > 1
    <3>4. xor \in BOOLEAN
      OBVIOUS
    <3> HIDE DEF f, q, e, y, xor
    <3> QED BY <3>1, <3>2, <3>3, <3>4 DEF Operation, Operations, f, q, e, y, xor
  <2>2. ops \in [1..N -> Operations(k, m, w)]
    <3>1. ops = [n \in 1..N |-> ops[n]]
      BY <1>2
    <3> QED BY <2>1, <3>1
  <2> QED BY <1>1, <2>2, Lists
<1>p. Place(k, m, w, s, r)
  BY DEF Place
<1>b. base \in SUBSET Int /\ Cell(k, w, s, r) \in SUBSET Int
  <2>1. 0 \in Int /\ {} \in SUBSET Int
    OBVIOUS
  <2> QED BY <1>p, <2>1, Puts
<1>v. \A n \in 0..N : value(n) \in SUBSET Int
  <2> TAKE n \in 0..N
  <2>1. seen(n) \in SUBSET Int
    BY <1>1, <1>c
  <2> HIDE DEF base, seen
  <2> QED BY <1>b, <2>1 DEF Xor, SymDiff
<1>5. \A n \in 0..N : n \in F
  <2>1. 0 \in F
    <3>1. Perform!Turns(p, s, 0) = s
      BY <1>1, Perform!LoopTurns
    <3>2. Put(k, w, s, r, value(0)) = s
      <4>1. value(0) = Cell(k, w, s, r)
        OBVIOUS
      <4> HIDE DEF value
      <4> QED BY <1>p, <1>b, <4>1, Puts
    <3> HIDE DEF value
    <3> QED BY <1>1, <3>1, <3>2
  <2>2. ASSUME NEW n \in 0..N-1, n \in F
        PROVE  n + 1 \in F
    <3>1. n \in Nat /\ n \in 0..N /\ n + 1 \in 1..N /\ n + 1 \in 0..N
      BY <1>1
    <3>2. Perform!Turns(p, s, n + 1) = OperationStep(p, Perform!Turns(p, s, n), n)
      BY <3>1, Perform!LoopTurns
    <3> DEFINE t == Put(k, w, s, r, value(n))
               d == c[n + 1] \div w
               q == c[n + 1] % w
               xor == started \/ n + 1 > 1
    <3>3. Perform!Turns(p, s, n + 1)
            = Operated(InOrder(k, m), Operation(d, q, k + (r \div w), r % w, xor), t)
      BY <1>2, <1>3, <2>2, <3>1, <3>2 DEF OperationStep
    <3>4. /\ t \in Memories(k, m, w) /\ Cell(k, w, t, r) = value(n)
          /\ \A u \in SUBSET Int : Put(k, w, t, r, u) = Put(k, w, s, r, u)
          /\ \A i \in 0..k-1 : t[i] = s[i]
      <4> DEFINE v == value(n)
      <4>1. v \in SUBSET Int
        BY <1>v, <3>1
      <4> HIDE DEF v
      <4>2. \A u \in SUBSET Int : Put(k, w, Put(k, w, s, r, v), r, u) = Put(k, w, s, r, u)
        BY <1>p, <4>1, Puts
      <4>3. /\ Put(k, w, s, r, v) \in Memories(k, m, w) /\ Cell(k, w, Put(k, w, s, r, v), r) = v
            /\ \A i \in 0..k-1 : Put(k, w, s, r, v)[i] = s[i]
        <5>1. 0 \in Int /\ {} \in SUBSET Int
          OBVIOUS
        <5> QED BY <1>p, <4>1, <5>1, Puts
      <4> QED BY <4>2, <4>3 DEF v
    <3> HIDE DEF t, value
    <3>5. d \in 0..k-1 /\ d \in 0..k+m-1 /\ q \in 0..w-1 /\ t[d][q] = {c[n + 1]}
      <4>1. d \in 0..k-1 /\ q \in 0..w-1 /\ d * w + q = c[n + 1]
        BY <1>c, <3>1
      <4> HIDE DEF d, q
      <4> QED BY <3>4, <4>1
    <3>6. xor \in BOOLEAN
      OBVIOUS
    <3> HIDE DEF d, q
    <3>7. Perform!Turns(p, s, n + 1)
            = Put(k, w, t, r, IF xor THEN Xor({c[n + 1]}, value(n)) ELSE {c[n + 1]})
      <4> HIDE DEF xor
      <4>1. Operated(InOrder(k, m), Operation(d, q, k + (r \div w), r % w, xor), t)
              = Put(k, w, t, r, IF xor THEN Xor(t[d][q], Cell(k, w, t, r)) ELSE t[d][q])
        <5>1. Place(k, m, w, t, r)
          BY <1>p, <3>4 DEF Place
        <5>2. Moves(k, m, w, t, r, d, q, xor)
          BY <3>5, <3>6, <5>1 DEF Moves
        <5> QED BY <5>2, OperationPuts
      <4> QED BY <3>3, <3>4, <3>5, <4>1
    <3>8. (IF xor THEN Xor({c[n + 1]}, value(n)) ELSE {c[n + 1]}) = value(n + 1)
      <4>1. c[n + 1] \notin seen(n) /\ seen(n + 1) = seen(n) \cup {c[n + 1]}
        <5>1. \A i \in 1..n : i \in 1..N /\ i # n + 1 /\ i \in 1..n+1
          BY <1>1, <3>1
        <5>2. \A i \in 1..n+1 : i \in 1..n \/ i = n + 1
          BY <3>1
        <5>3. n + 1 \in 1..n+1
          BY <3>1
        <5>4. c[n + 1] \notin seen(n)
          BY <1>1, <3>1, <5>1
        <5> QED BY <5>1, <5>2, <5>3, <5>4
      <4>2. value(n + 1) = Xor(base, seen(n + 1))
        BY <3>1 DEF value
      <4>3. CASE n = 0
        <5>1. seen(0) = {}
          OBVIOUS
        <5>2. xor = started /\ value(n) = Cell(k, w, s, r)
          BY <4>3 DEF value
        <5> HIDE DEF seen, xor
        <5> QED BY <4>1, <4>2, <4>3, <5>1, <5>2 DEF Xor, SymDiff
      <4>4. CASE n # 0
        <5>1. xor = TRUE /\ value(n) = Xor(base, seen(n))
          BY <3>1, <4>4 DEF value
        <5> HIDE DEF seen, xor, base
        <5> QED BY <4>1, <4>2, <5>1 DEF Xor, SymDiff
      <4> QED BY <4>3, <4>4
    <3>9. Perform!Turns(p, s, n + 1) = Put(k, w, s, r, value(n + 1))
      BY <1>v, <3>1, <3>4, <3>7, <3>8
    <3> QED BY <3>1, <3>9
  <2> HIDE DEF F
  <2> QED BY <1>1, <2>1, <2>2, Induct
<1>6. Performed(k, m, ops, s) = Put(k, w, s, r, value(N))
  <2>1. N \in F
    <3> HIDE DEF F
    <3>1. N \in 0..N
      BY <1>1
    <3> QED BY <1>5, <3>1
  <2> QED BY <1>4, <2>1 DEF Performed, p
<1>7. value(N) = IF started THEN Xor(Cell(k, w, s, r), columns) ELSE columns
  <2>1. seen(N) = columns
    <3>1. \A x \in seen(N) : x \in columns
      BY <1>c
    <3>2. \A x \in columns : x \in seen(N)
      BY <1>1
    <3> HIDE DEF seen
    <3> QED BY <3>1, <3>2
  <2> HIDE DEF seen
  <2>2. CASE N = 0
    <3>1. columns = {}
      BY <1>1, <2>2
    <3> QED BY <2>2, <3>1 DEF Xor, SymDiff
  <2>3. CASE N # 0
    BY <2>1, <2>3 DEF Xor, SymDiff
  <2> QED BY <2>2, <2>3
<1> QED BY <1>4, <1>6, <1>7 DEF ops


Copy(k, w, r, b) == <<Operation(k + (b \div w), b % w, k + (r \div w), r % w, FALSE)>>

\* An operation that copies a row already made.
LEMMA CopyPerformed ==
  ASSUME NEW k, NEW m, NEW w, NEW s, NEW r, Place(k, m, w, s, r), NEW b \in 0..m*w-1
  PROVE  /\ Copy(k, w, r, b) \in Seq(Operations(k, m, w))
         /\ Performed(k, m, Copy(k, w, r, b), s) = Put(k, w, s, r, Cell(k, w, s, b))
<1> DEFINE f == k + (b \div w)
           q == b % w
           no == FALSE
           op == Operation(f, q, k + (r \div w), r % w, no)
           ops == <<op>>
           p == [ptrs |-> InOrder(k, m), operations |-> ops]
<1>1. k \in Nat /\ m \in Nat /\ w \in Nat \ {0} /\ s \in Memories(k, m, w) /\ r \in 0..m*w-1
  BY DEF Place
<1>2. f \in 0..k+m-1 /\ q \in 0..w-1
  BY <1>1, RowPlace
<1>3. k + (r \div w) \in k..k+m-1 /\ r % w \in 0..w-1
  BY <1>1, RowPlace
<1>4. Cell(k, w, s, b) = s[f][q]
  BY DEF Cell
<1>n. no \in BOOLEAN /\ ~ no
  OBVIOUS
<1> HIDE DEF f, q, no
<1>5. op \in Operations(k, m, w)
  <2> DEFINE e == k + (r \div w)
             y == r % w
  <2> HIDE DEF e, y
  <2> QED BY <1>2, <1>3, <1>n DEF Operation, Operations, e, y
<1>6. Moves(k, m, w, s, r, f, q, no)
  BY <1>2, <1>n DEF Moves
<1>7. Operated(InOrder(k, m), op, s) = Put(k, w, s, r, s[f][q])
  <2>1. Operated(InOrder(k, m), op, s)
          = Put(k, w, s, r, IF no THEN Xor(s[f][q], Cell(k, w, s, r)) ELSE s[f][q])
    BY <1>6, OperationPuts
  <2> HIDE DEF op
  <2> QED BY <1>n, <2>1
<1> HIDE DEF op
<1>8. ops \in Seq(Operations(k, m, w)) /\ Len(ops) = 1 /\ ops[1] = op
  BY <1>5
<1>9. p.ptrs = InOrder(k, m) /\ p.operations = ops
  OBVIOUS
<1> HIDE DEF p, ops
<1>10. Perform!Turns(p, s, 0) = s /\ Perform!Turns(p, s, 0 + 1) = OperationStep(p, Perform!Turns(p, s, 0), 0)
  <2>1. 0 \in Nat
    OBVIOUS
  <2> QED BY <2>1, Perform!LoopTurns
<1>11. OperationStep(p, s, 0) = Operated(InOrder(k, m), op, s)
  BY <1>8, <1>9 DEF OperationStep
<1>12. Performed(k, m, ops, s) = Perform!Turns(p, s, 1)
  BY <1>8 DEF Performed, p
<1>13. ops \in Seq(Operations(k, m, w)) /\ Performed(k, m, ops, s) = Put(k, w, s, r, Cell(k, w, s, b))
  BY <1>4, <1>7, <1>8, <1>10, <1>11, <1>12
<1> QED BY <1>13 DEF ops, op, f, q, no, Copy

\* The drives when all rows but those still to do are made.
Partly(k, m, w, bits, mem, todo) ==
  [d \in 0..k+m-1 |-> [x \in 0..w-1 |->
     IF d < k \/ (d - k) * w + x \in todo THEN mem[d][x] ELSE bits[(d - k) * w + x]]]

\* Partly made is a matter of the set of rows still to do: writing what row r stands
\* for takes r out of that set.
LEMMA RowMade ==
  ASSUME NEW k, NEW m, NEW w, NEW bits, NEW mem, BitCode(k, m, w, bits), mem \in Memories(k, m, w),
         Own(k, w, mem), NEW todo \in SUBSET (0..m*w-1), NEW r \in 0..m*w-1
  PROVE  LET s == Partly(k, m, w, bits, mem, todo)
         IN  /\ Place(k, m, w, s, r) /\ Own(k, w, s)
             /\ Put(k, w, s, r, bits[r]) = Partly(k, m, w, bits, mem, todo \ {r})
             /\ r \notin todo => Cell(k, w, s, r) = bits[r]
<1> DEFINE s == Partly(k, m, w, bits, mem, todo)
           t == Partly(k, m, w, bits, mem, todo \ {r})
           e == k + (r \div w)
           y == r % w
           at(d, x) == (d - k) * w + x
<1>1. k \in Nat \ {0} /\ m \in Nat /\ w \in Nat \ {0}
  BY DEF BitCode
<1>2. \A i \in 0..m*w-1 : bits[i] \in SUBSET Int
  <2> TAKE i \in 0..m*w-1
  <2>1. bits[i] \in SUBSET (0..k*w-1)
    BY DEF BitCode
  <2> QED BY <2>1
<1>3. e \in 0..k+m-1 /\ y \in 0..w-1 /\ ~ e < k /\ at(e, y) = r
  <2> DEFINE z == r \div w
  <2>1. z \in 0..m-1 /\ y \in 0..w-1 /\ z * w + y = r
    BY <1>1, PacketOf
  <2> HIDE DEF z, y
  <2>2. k + z \in 0..k+m-1 /\ ~ k + z < k /\ (k + z) - k = z
    BY <1>1, <2>1
  <2> QED BY <2>1, <2>2 DEF z
<1>4. \A d \in 0..k+m-1 : \A x \in 0..w-1 : ~ d < k =>
         at(d, x) \in 0..m*w-1 /\ (at(d, x) = r => d = e /\ x = y)
  <2> TAKE d \in 0..k+m-1
  <2> TAKE x \in 0..w-1
  <2> HAVE ~ d < k
  <2> DEFINE z == d - k
  <2>1. z \in 0..m-1 /\ d = k + z
    BY <1>1
  <2> HIDE DEF z
  <2>2. z * w + x \in 0..m*w-1 /\ (z * w + x) \div w = z /\ (z * w + x) % w = x
    BY <1>1, <2>1, Packet
  <2>3. at(d, x) = z * w + x
    BY DEF z
  <2> HIDE DEF at
  <2> QED BY <2>1, <2>2, <2>3
<1> HIDE DEF e, y, at
<1>5. \A d \in 0..k+m-1 : \A x \in 0..w-1 :
        /\ s[d][x] = IF d < k \/ at(d, x) \in todo THEN mem[d][x] ELSE bits[at(d, x)]
        /\ t[d][x] = IF d < k \/ at(d, x) \in todo \ {r} THEN mem[d][x] ELSE bits[at(d, x)]
        /\ s[d][x] \in SUBSET Int
        /\ mem[d][x] \in SUBSET Int
  <2>1. \A d \in 0..k+m-1 : \A x \in 0..w-1 : mem[d][x] \in SUBSET Int
    BY DEF Memories
  <2> TAKE d \in 0..k+m-1
  <2> TAKE x \in 0..w-1
  <2>2. s[d][x] = IF d < k \/ at(d, x) \in todo THEN mem[d][x] ELSE bits[at(d, x)]
    BY DEF Partly, at
  <2>3. t[d][x] = IF d < k \/ at(d, x) \in todo \ {r} THEN mem[d][x] ELSE bits[at(d, x)]
    BY DEF Partly, at
  <2> HIDE DEF s, t
  <2> QED BY <1>2, <1>4, <2>1, <2>2, <2>3
<1>6. s = [d \in 0..k+m-1 |-> [x \in 0..w-1 |-> s[d][x]]] /\ t = [d \in 0..k+m-1 |-> [x \in 0..w-1 |-> t[d][x]]]
  BY DEF Partly
<1> HIDE DEF s, t
<1>7. s \in Memories(k, m, w)
  BY <1>5, <1>6 DEF Memories
<1>8. Place(k, m, w, s, r)
  BY <1>1, <1>7 DEF Place
<1>9. Own(k, w, s)
  <2>1. \A d \in 0..k-1 : d \in 0..k+m-1 /\ d < k
    BY <1>1
  <2> QED BY <1>5, <2>1 DEF Own
<1>10. Put(k, w, s, r, bits[r]) = t
  <2> DEFINE u == [s EXCEPT ![e][y] = bits[r]]
  <2>1. u = [d \in 0..k+m-1 |-> [x \in 0..w-1 |-> IF d = e /\ x = y THEN bits[r] ELSE s[d][x]]]
    BY <1>3, <1>6
  <2>2. \A d \in 0..k+m-1 : \A x \in 0..w-1 : (IF d = e /\ x = y THEN bits[r] ELSE s[d][x]) = t[d][x]
    BY <1>3, <1>4, <1>5
  <2>3. u = t
    <3> HIDE DEF u
    <3> QED BY <1>6, <2>1, <2>2
  <2> QED BY <2>3 DEF Put, e, y
<1>11. r \notin todo => Cell(k, w, s, r) = bits[r]
  BY <1>3, <1>5 DEF Cell, e, y
<1> QED BY <1>8, <1>9, <1>10, <1>11 DEF s, t


\* The row chosen next is one still to do.
LEMMA BestRow ==
  ASSUME NEW todo \in SUBSET Nat, todo # {}, NEW diff, \A i \in todo : diff[i] \in Nat
  PROVE  bestrow(todo, diff) \in todo
<1> DEFINE D == {diff[i] : i \in todo}
<1>1. PICK d \in D : \A y \in D : d <= y
  <2>1. D \in SUBSET Nat /\ D # {}
    OBVIOUS
  <2> HIDE DEF D
  <2> QED BY <2>1, Tri!Least
<1> DEFINE B == {i \in todo : diff[i] = d}
<1>2. PICK r \in B : \A y \in B : r <= y
  <2>1. B \in SUBSET Nat /\ B # {}
    BY <1>1
  <2> HIDE DEF B
  <2> QED BY <2>1, Tri!Least
<1>3. r \in todo /\ diff[r] = d
  BY <1>2
<1>4. \A i \in todo : diff[r] < diff[i] \/ (diff[r] = diff[i] /\ r <= i)
  <2> TAKE i \in todo
  <2>1. d <= diff[i] /\ diff[i] \in Nat /\ d \in Nat
    BY <1>1, <1>3
  <2>2. CASE diff[i] = d
    BY <1>2, <1>3, <2>2
  <2>3. CASE diff[i] # d
    BY <1>3, <2>1, <2>3
  <2> QED BY <2>2, <2>3
<1>5. \E x \in todo : \A i \in todo : diff[x] < diff[i] \/ (diff[x] = diff[i] /\ x <= i)
  BY <1>3, <1>4
<1> QED BY <1>5 DEF bestrow

\* The operations of the next row, from scratch (b = -1) or from row b.
RowFrom(k, w, bits, r, b) ==
  IF b = -1 THEN RowOperations(bits[r], r, k, w, FALSE)
  ELSE Copy(k, w, r, b) \o RowOperations(Xor(bits[r], bits[b]), r, k, w, TRUE)

\* Row r is to be made, row b, if there is one, is made.
Turn(k, m, w, bits, mem, todo, r, b) ==
  /\ BitCode(k, m, w, bits) /\ mem \in Memories(k, m, w) /\ Own(k, w, mem)
  /\ todo \in SUBSET (0..m*w-1) /\ r \in todo /\ (b = -1 \/ b \in (0..m*w-1) \ todo)

\* The operations made for row r, from nothing or from a row already made, write
\* what row r stands for, and nothing else.
LEMMA RowFromMakes ==
  ASSUME NEW k, NEW m, NEW w, NEW bits, NEW mem, NEW todo, NEW r, NEW b,
         Turn(k, m, w, bits, mem, todo, r, b)
  PROVE  /\ RowFrom(k, w, bits, r, b) \in Seq(Operations(k, m, w))
         /\ Performed(k, m, RowFrom(k, w, bits, r, b), Partly(k, m, w, bits, mem, todo))
              = Partly(k, m, w, bits, mem, todo \ {r})
<1>t. /\ BitCode(k, m, w, bits) /\ mem \in Memories(k, m, w) /\ Own(k, w, mem)
      /\ todo \in SUBSET (0..m*w-1) /\ r \in todo /\ (b = -1 \/ b \in (0..m*w-1) \ todo)
  BY DEF Turn
<1> USE <1>t
<1> DEFINE s == Partly(k, m, w, bits, mem, todo)
           t == Partly(k, m, w, bits, mem, todo \ {r})
<1>1. /\ Place(k, m, w, s, r) /\ Own(k, w, s)
      /\ Put(k, w, s, r, bits[r]) = t
      /\ \A i \in (0..m*w-1) \ todo : Cell(k, w, s, i) = bits[i]
  BY RowMade
<1> HIDE DEF s, t
<1>2. \A i \in 0..m*w-1 : bits[i] \in SUBSET (0..k*w-1) /\ bits[i] # {} /\ bits[i] \in SUBSET Int
  <2> TAKE i \in 0..m*w-1
  <2>1. bits[i] \in SUBSET (0..k*w-1) /\ bits[i] # {}
    BY DEF BitCode
  <2> QED BY <2>1
<1>c. r \in 0..m*w-1
  OBVIOUS
<1>3. CASE b = -1
  <2>1. Ready(k, m, w, s, r, bits[r], FALSE)
    BY <1>1, <1>2, <1>c DEF Ready
  <2> DEFINE no == FALSE
             ops == RowOperations(bits[r], r, k, w, no)
  <2>2. Ready(k, m, w, s, r, bits[r], no) /\ ~ no
    BY <2>1
  <2> HIDE DEF no
  <2>3. ops \in Seq(Operations(k, m, w)) /\ Performed(k, m, ops, s) = Put(k, w, s, r, bits[r])
    BY <2>2, RowPerformed
  <2>4. ops = RowFrom(k, w, bits, r, b)
    BY <1>3 DEF RowFrom, no
  <2> HIDE DEF ops
  <2> QED BY <1>1, <2>3, <2>4 DEF s, t
<1>4. CASE b # -1
  <2>1. b \in 0..m*w-1 /\ b \notin todo /\ Cell(k, w, s, b) = bits[b]
    BY <1>1, <1>4
  <2> DEFINE copy == Copy(k, w, r, b)
             yes == TRUE
             columns == Xor(bits[r], bits[b])
             u == Put(k, w, s, r, bits[b])
             ops == RowOperations(columns, r, k, w, yes)
  <2>2. copy \in Seq(Operations(k, m, w)) /\ Performed(k, m, copy, s) = u
    BY <1>1, <2>1, CopyPerformed
  <2>3. RowFrom(k, w, bits, r, b) = copy \o ops
    BY <1>4 DEF RowFrom
  <2>y. yes \in BOOLEAN /\ yes
    OBVIOUS
  <2> HIDE DEF copy, yes
  <2>4. /\ u \in Memories(k, m, w) /\ Cell(k, w, u, r) = bits[b]
        /\ \A d \in 0..k-1 : u[d] = s[d]
        /\ \A v \in SUBSET Int : Put(k, w, u, r, v) = Put(k, w, s, r, v)
    <3>1. bits[b] \in SUBSET Int
      BY <1>2, <2>1
    <3> QED BY <1>1, <3>1, Puts
  <2>5. Place(k, m, w, u, r) /\ Own(k, w, u)
    BY <1>1, <2>4 DEF Place, Own
  <2>6. columns \in SUBSET (0..k*w-1) /\ Xor(bits[b], columns) = bits[r]
    <3>1. bits[b] \in SUBSET (0..k*w-1) /\ bits[r] \in SUBSET (0..k*w-1)
      BY <1>2, <1>c, <2>1
    <3> DEFINE all == 0..k*w-1
    <3> HIDE DEF all
    <3>2. bits[b] \in SUBSET all /\ bits[r] \in SUBSET all
      BY <3>1 DEF all
    <3>3. columns \in SUBSET all /\ Xor(bits[b], columns) = bits[r]
      BY <3>2 DEF Xor, SymDiff
    <3> QED BY <3>3 DEF all
  <2> HIDE DEF columns, u
  <2>7. Ready(k, m, w, u, r, columns, yes)
    BY <2>5, <2>6, <2>y DEF Ready
  <2>8. ops \in Seq(Operations(k, m, w))
        /\ Performed(k, m, ops, u) = Put(k, w, u, r, Xor(Cell(k, w, u, r), columns))
    <3>1. Performed(k, m, ops, u)
            = Put(k, w, u, r, IF yes THEN Xor(Cell(k, w, u, r), columns) ELSE columns)
      BY <2>7, RowPerformed
    <3>2. ops \in Seq(Operations(k, m, w))
      BY <2>7, RowPerformed
    <3> HIDE DEF ops
    <3> QED BY <2>y, <3>1, <3>2
  <2> HIDE DEF ops
  <2>9. Performed(k, m, ops, u) = t
    BY <1>1, <1>2, <1>c, <2>4, <2>6, <2>8
  <2>10. copy \o ops \in Seq(Operations(k, m, w)) /\ Performed(k, m, copy \o ops, s) = t
    <3> DEFINE S == Operations(k, m, w)
    <3> HIDE DEF S
    <3>1. copy \in Seq(S) /\ ops \in Seq(S)
      BY <2>2, <2>8 DEF S
    <3>2. copy \o ops \in Seq(S)
      BY <3>1, ConcatProperties
    <3>3. Performed(k, m, copy \o ops, s) = Performed(k, m, ops, Performed(k, m, copy, s))
      BY <3>1, PerformAppend
    <3> QED BY <2>2, <2>9, <3>2, <3>3 DEF S
  <2> QED BY <2>3, <2>10 DEF s, t
<1> QED BY <1>3, <1>4


\* Nothing is made yet.
LEMMA NoneMade ==
  ASSUME NEW k, NEW m, NEW w, NEW bits, NEW mem, BitCode(k, m, w, bits), mem \in Memories(k, m, w)
  PROVE  Partly(k, m, w, bits, mem, 0..m*w-1) = mem
<1> DEFINE rows == 0..m*w-1
<1>1. k \in Nat \ {0} /\ m \in Nat /\ w \in Nat \ {0}
  BY DEF BitCode
<1>2. \A d \in 0..k+m-1 : \A x \in 0..w-1 : d < k \/ (d - k) * w + x \in rows
  <2> TAKE d \in 0..k+m-1
  <2> TAKE x \in 0..w-1
  <2>1. CASE ~ d < k
    <3> DEFINE e == d - k
    <3>1. e \in 0..m-1
      BY <1>1, <2>1
    <3> HIDE DEF e
    <3>2. e * w + x \in 0..m*w-1
      BY <1>1, <3>1, Packet
    <3> QED BY <3>2 DEF e
  <2> QED BY <2>1
<1> HIDE DEF rows
<1>3. mem = [d \in 0..k+m-1 |-> [x \in 0..w-1 |-> mem[d][x]]]
  BY DEF Memories
<1>4. Partly(k, m, w, bits, mem, rows) = mem
  BY <1>2, <1>3 DEF Partly
<1> QED BY <1>4 DEF rows

\* All coding drives are made.
LEMMA AllMade ==
  ASSUME NEW k, NEW m, NEW w, NEW bits, NEW mem, BitCode(k, m, w, bits), Own(k, w, mem)
  PROVE  Partly(k, m, w, bits, mem, {}) = [d \in 0..k+m-1 |-> Contents(k, w, bits, d)]
<1>1. k \in Nat \ {0} /\ \A d \in 0..k-1 : \A x \in 0..w-1 : mem[d][x] = {d * w + x}
  BY DEF Own, BitCode
<1> SUFFICES ASSUME NEW d \in 0..k+m-1
             PROVE  [x \in 0..w-1 |-> IF d < k \/ (d - k) * w + x \in {} THEN mem[d][x]
                                      ELSE bits[(d - k) * w + x]] = Contents(k, w, bits, d)
  BY DEF Partly
<1>2. CASE d < k
  <2>1. d \in 0..k-1
    BY <1>1, <1>2
  <2> QED BY <1>1, <1>2, <2>1 DEF Contents
<1>3. CASE ~ d < k
  BY <1>3 DEF Contents, RowsOf
<1> QED BY <1>2, <1>3

(***************************************************************************)
(* The clever schedule.                                                    *)
(***************************************************************************)
BuildStep(p, q, n) == ScheduleRow(q, p.k, p.w, p.bits)

\* Before turn n: n rows are made, and the others are to be made from nothing or
\* from one of them.
Building(k, m, w, bits, mem, q, n) ==
  /\ q.todo \in SUBSET (0..m*w-1) /\ Cardinality(q.todo) = m * w - n
  /\ \A i \in 0..m*w-1 : q.diff[i] \in Nat
  /\ \A i \in 0..m*w-1 : q.from[i] = -1 \/ q.from[i] \in (0..m*w-1) \ q.todo
  /\ DOMAIN q.diff = 0..m*w-1 /\ DOMAIN q.from = 0..m*w-1
  /\ q.ops \in Seq(Operations(k, m, w))
  /\ Performed(k, m, q.ops, mem) = Partly(k, m, w, bits, mem, q.todo)

BuildInv(p, q, n) == Building(p.k, p.m, p.w, p.bits, p.mem, q, n)

Build == INSTANCE Loops_proofs WITH Step <- BuildStep, Inv <- BuildInv

\* jerasure_smart_bitmatrix_to_schedule as an instance of the loop.
LEMMA SmartIsLoop ==
  ASSUME NEW p
  PROVE  jerasure_smart_bitmatrix_to_schedule(p.k, p.m, p.w, p.bits)
           = Build!Turns(p, [todo |-> 0..p.m*p.w-1, ops |-> <<>>, from |-> [i \in 0..p.m*p.w-1 |-> -1],
                             diff |-> [i \in 0..p.m*p.w-1 |-> Cardinality(p.bits[i])]],
                         p.m * p.w).ops
BY Zenon DEF jerasure_smart_bitmatrix_to_schedule, BuildStep, Build!Turns, Build!Loop, Build!Now,
             Loop, Now

\* The numbers of ones that the smart schedule compares are counts.
LEMMA RowsCounted ==
  ASSUME NEW k, NEW m, NEW w, NEW bits, BitCode(k, m, w, bits),
         NEW r \in 0..m*w-1, NEW i \in 0..m*w-1
  PROVE  Cardinality(bits[i]) \in Nat /\ Cardinality(Xor(bits[r], bits[i])) \in Nat
<1> DEFINE all == 0..k*w-1
<1>1. IsFiniteSet(all)
  <2> DEFINE K == k * w
  <2>1. K \in Nat
    <3>1. k \in Nat /\ w \in Nat
      BY DEF BitCode
    <3> QED BY <3>1, Multiple
  <2> HIDE DEF K
  <2>2. 0 \in Int /\ K - 1 \in Int
    BY <2>1
  <2>3. IsFiniteSet(0..K-1)
    BY <2>2, FS_Interval
  <2> QED BY <2>3 DEF K
<1>2. bits[i] \in SUBSET all /\ bits[r] \in SUBSET all
  BY DEF BitCode
<1> HIDE DEF all
<1>3. Xor(bits[r], bits[i]) \in SUBSET all
  BY <1>2 DEF Xor, SymDiff
<1> QED BY <1>1, <1>2, <1>3, FS_Subset, FS_CardinalityType

\* The row taken next, what it is made from, and what that leaves to be made.
LEMMA RowTaken ==
  ASSUME NEW k, NEW m, NEW w, NEW bits, NEW mem, BitCode(k, m, w, bits),
         NEW n \in 0..m*w-1, NEW q, Building(k, m, w, bits, mem, q, n)
  PROVE  LET rows == 0..m*w-1
             r == bestrow(q.todo, q.diff)
             b == q.from[r]
             t == ScheduleRow(q, k, w, bits)
         IN  /\ r \in q.todo /\ r \in rows /\ (b = -1 \/ b \in rows \ q.todo)
             /\ t.todo = q.todo \ {r} /\ t.ops = q.ops \o RowFrom(k, w, bits, r, b)
             /\ DOMAIN t.diff = rows /\ DOMAIN t.from = rows
             /\ \A i \in rows :
                  \/ t.diff[i] = q.diff[i] /\ t.from[i] = q.from[i]
                  \/ /\ t.diff[i] = 1 + Cardinality(Xor(bits[r], bits[i])) /\ t.from[i] = r
                     /\ t.diff[i] < q.diff[i]
<1> DEFINE N == m * w
           rows == 0..N-1
           r == bestrow(q.todo, q.diff)
           b == q.from[r]
           no == [i \in DOMAIN q.diff |-> 1 + Cardinality(Xor(bits[r], bits[i]))]
           nearer == {i \in q.todo \ {r} : no[i] < q.diff[i]}
           t == ScheduleRow(q, k, w, bits)
           diff == [i \in DOMAIN q.diff |-> IF i \in nearer THEN no[i] ELSE q.diff[i]]
           from == [i \in DOMAIN q.from |-> IF i \in nearer THEN r ELSE q.from[i]]
<1>1. N \in Nat
  <2>1. m \in Nat /\ w \in Nat
    BY DEF BitCode
  <2> QED BY <2>1, Multiple
<1>2. /\ q.todo \in SUBSET rows /\ Cardinality(q.todo) = N - n
      /\ \A i \in rows : q.diff[i] \in Nat
      /\ \A i \in rows : q.from[i] = -1 \/ q.from[i] \in rows \ q.todo
      /\ DOMAIN q.diff = rows /\ DOMAIN q.from = rows
  BY DEF Building
<1>n. n \in 0..N-1
  OBVIOUS
<1>3. t = [todo |-> q.todo \ {r}, ops |-> q.ops \o RowFrom(k, w, bits, r, b),
           diff |-> diff, from |-> from]
  BY DEF ScheduleRow, RowFrom, Copy
<1>4. /\ t.todo = q.todo \ {r} /\ t.ops = q.ops \o RowFrom(k, w, bits, r, b)
      /\ t.diff = diff /\ t.from = from
  <2> HIDE DEF t, r, b, nearer, no, diff, from
  <2> QED BY <1>3
<1> HIDE DEF N
<1>5. r \in q.todo /\ r \in rows
  <2>1. q.todo # {}
    <3>1. N - n # 0
      BY <1>1, <1>n
    <3>2. Cardinality({}) = 0
      BY FS_EmptySet
    <3> QED BY <1>2, <3>1, <3>2
  <2>2. q.todo \in SUBSET Nat
    <3>1. \A i \in rows : i \in Nat
      BY <1>1
    <3> QED BY <1>2, <3>1
  <2> QED BY <1>2, <2>1, <2>2, BestRow
<1>6. b = -1 \/ b \in rows \ q.todo
  <2> HIDE DEF r, rows
  <2> QED BY <1>2, <1>5
<1> HIDE DEF t, b, r, rows
<1>7. DOMAIN t.diff = rows /\ DOMAIN t.from = rows
  <2> HIDE DEF nearer, no
  <2> QED BY <1>2, <1>4
<1>8. ASSUME NEW i \in rows
      PROVE  \/ t.diff[i] = q.diff[i] /\ t.from[i] = q.from[i]
             \/ /\ t.diff[i] = 1 + Cardinality(Xor(bits[r], bits[i])) /\ t.from[i] = r
                /\ t.diff[i] < q.diff[i]
  <2>1. no[i] = 1 + Cardinality(Xor(bits[r], bits[i]))
    BY <1>2
  <2>2. i \in nearer => no[i] < q.diff[i]
    <3> HIDE DEF no
    <3> QED OBVIOUS
  <2> HIDE DEF nearer, no
  <2>3. /\ t.diff[i] = IF i \in nearer THEN no[i] ELSE q.diff[i]
        /\ t.from[i] = IF i \in nearer THEN r ELSE q.from[i]
    BY <1>2, <1>4
  <2> QED BY <2>1, <2>2, <2>3
<1> QED BY <1>4, <1>5, <1>6, <1>7, <1>8 DEF N, rows, r, b, t

\* A turn makes one row more.
LEMMA RowBuilt ==
  ASSUME NEW k, NEW m, NEW w, NEW bits, NEW mem, BitCode(k, m, w, bits), mem \in Memories(k, m, w),
         Own(k, w, mem), NEW n \in 0..m*w-1, NEW q, Building(k, m, w, bits, mem, q, n)
  PROVE  Building(k, m, w, bits, mem, ScheduleRow(q, k, w, bits), n + 1)
<1> DEFINE N == m * w
           rows == 0..N-1
           r == bestrow(q.todo, q.diff)
           b == q.from[r]
           t == ScheduleRow(q, k, w, bits)
           S == Operations(k, m, w)
<1>1. N \in Nat
  <2>1. m \in Nat /\ w \in Nat
    BY DEF BitCode
  <2> QED BY <2>1, Multiple
<1>2. /\ q.todo \in SUBSET rows /\ Cardinality(q.todo) = N - n
      /\ \A i \in rows : q.diff[i] \in Nat
      /\ \A i \in rows : q.from[i] = -1 \/ q.from[i] \in rows \ q.todo
      /\ q.ops \in Seq(S)
      /\ Performed(k, m, q.ops, mem) = Partly(k, m, w, bits, mem, q.todo)
  BY DEF Building
<1>n. n \in 0..N-1
  OBVIOUS
<1>3. /\ r \in q.todo /\ r \in rows /\ (b = -1 \/ b \in rows \ q.todo)
      /\ t.todo = q.todo \ {r} /\ t.ops = q.ops \o RowFrom(k, w, bits, r, b)
      /\ DOMAIN t.diff = rows /\ DOMAIN t.from = rows
      /\ \A i \in rows :
           \/ t.diff[i] = q.diff[i] /\ t.from[i] = q.from[i]
           \/ /\ t.diff[i] = 1 + Cardinality(Xor(bits[r], bits[i])) /\ t.from[i] = r
              /\ t.diff[i] < q.diff[i]
  BY RowTaken
<1>c. \A i \in rows : \A j \in rows : Cardinality(Xor(bits[i], bits[j])) \in Nat
  BY RowsCounted
<1>f. IsFiniteSet(q.todo)
  <2> HIDE DEF N
  <2>1. 0 \in Int /\ N - 1 \in Int
    BY <1>1
  <2>2. IsFiniteSet(rows)
    BY <2>1, FS_Interval
  <2> QED BY <1>2, <2>2, FS_Subset
<1> HIDE DEF t, b, r
<1>7. /\ RowFrom(k, w, bits, r, b) \in Seq(S)
      /\ Performed(k, m, RowFrom(k, w, bits, r, b), Partly(k, m, w, bits, mem, q.todo))
           = Partly(k, m, w, bits, mem, q.todo \ {r})
  <2>1. Turn(k, m, w, bits, mem, q.todo, r, b)
    BY <1>2, <1>3 DEF Turn
  <2> QED BY <2>1, RowFromMakes
<1> HIDE DEF S, N
<1>8. t.todo \in SUBSET rows /\ Cardinality(t.todo) = N - (n + 1)
  <2>1. Cardinality(q.todo \ {r}) = Cardinality(q.todo) - 1
    BY <1>3, <1>f, FS_RemoveElement
  <2>2. N - n - 1 = N - (n + 1)
    BY <1>1, <1>n
  <2> HIDE DEF rows
  <2> QED BY <1>2, <1>3, <2>1, <2>2
<1> HIDE DEF rows
<1>9. \A i \in rows : t.diff[i] \in Nat /\ (t.from[i] = -1 \/ t.from[i] \in rows \ t.todo)
  <2> TAKE i \in rows
  <2>1. Cardinality(Xor(bits[r], bits[i])) \in Nat
    BY <1>3, <1>c
  <2>2. CASE t.diff[i] = q.diff[i] /\ t.from[i] = q.from[i]
    BY <1>2, <1>3, <2>2
  <2>3. CASE t.diff[i] = 1 + Cardinality(Xor(bits[r], bits[i])) /\ t.from[i] = r
    BY <1>3, <2>1, <2>3
  <2> QED BY <1>3, <2>2, <2>3
<1>12. t.ops \in Seq(S)
  BY <1>2, <1>3, <1>7, ConcatProperties
<1>13. Performed(k, m, t.ops, mem) = Partly(k, m, w, bits, mem, t.todo)
  <2>1. Performed(k, m, q.ops \o RowFrom(k, w, bits, r, b), mem)
          = Performed(k, m, RowFrom(k, w, bits, r, b), Performed(k, m, q.ops, mem))
    BY <1>2, <1>7, PerformAppend
  <2> QED BY <1>2, <1>3, <1>7, <2>1
<1> QED BY <1>3, <1>8, <1>9, <1>12, <1>13 DEF Building, t, S, N, rows

\* Before the first turn all rows are to be made, from nothing.
LEMMA NoneBuilt ==
  ASSUME NEW k, NEW m, NEW w, NEW bits, NEW mem, BitCode(k, m, w, bits), mem \in Memories(k, m, w)
  PROVE  Building(k, m, w, bits, mem,
                  [todo |-> 0..m*w-1, ops |-> <<>>, from |-> [i \in 0..m*w-1 |-> -1],
                   diff |-> [i \in 0..m*w-1 |-> Cardinality(bits[i])]], 0)
<1> DEFINE N == m * w
           rows == 0..N-1
           q0 == [todo |-> rows, ops |-> <<>>, from |-> [i \in rows |-> -1],
                  diff |-> [i \in rows |-> Cardinality(bits[i])]]
<1>1. N \in Nat
  <2>1. m \in Nat /\ w \in Nat
    BY DEF BitCode
  <2> QED BY <2>1, Multiple
<1>2. /\ q0.todo = rows /\ q0.ops = <<>> /\ q0.from = [i \in rows |-> -1]
      /\ q0.diff = [i \in rows |-> Cardinality(bits[i])]
  BY Zenon
<1> HIDE DEF q0
<1>3. Cardinality(rows) = N - 0
  <2> HIDE DEF N
  <2>1. 0 \in Int /\ N - 1 \in Int
    BY <1>1
  <2>2. Cardinality(0..N-1) = IF 0 > N - 1 THEN 0 ELSE (N - 1) - 0 + 1
    BY <2>1, FS_Interval
  <2> QED BY <1>1, <2>2
<1>4. \A i \in rows : Cardinality(bits[i]) \in Nat
  BY RowsCounted
<1>5. Performed(k, m, <<>>, mem) = mem
  <2>1. Len(<<>>) = 0 /\ 0 \in Nat
    OBVIOUS
  <2> QED BY <2>1, Perform!LoopTurns DEF Performed
<1>6. Partly(k, m, w, bits, mem, rows) = mem
  BY NoneMade
<1>7. <<>> \in Seq(Operations(k, m, w))
  OBVIOUS
<1>8. /\ \A i \in rows : q0.diff[i] \in Nat /\ q0.from[i] = -1
      /\ DOMAIN q0.diff = rows /\ DOMAIN q0.from = rows
  <2> HIDE DEF rows
  <2> QED BY <1>2, <1>4
<1>9. Building(k, m, w, bits, mem, q0, 0)
  BY <1>2, <1>3, <1>5, <1>6, <1>7, <1>8 DEF Building
<1> QED BY <1>9 DEF q0

\* After the last turn no row is left.
LEMMA AllBuilt ==
  ASSUME NEW k, NEW m, NEW w, NEW bits, NEW mem, BitCode(k, m, w, bits), NEW q,
         Building(k, m, w, bits, mem, q, m * w)
  PROVE  q.todo = {}
<1> DEFINE N == m * w
<1>1. N \in Nat
  <2>1. m \in Nat /\ w \in Nat
    BY DEF BitCode
  <2> QED BY <2>1, Multiple
<1>2. q.todo \in SUBSET (0..N-1) /\ Cardinality(q.todo) = N - N
  BY DEF Building
<1> HIDE DEF N
<1>3. IsFiniteSet(q.todo)
  <2>1. 0 \in Int /\ N - 1 \in Int
    BY <1>1
  <2> QED BY <1>2, <2>1, FS_Interval, FS_Subset
<1>4. Cardinality(q.todo) = 0
  BY <1>1, <1>2
<1> QED BY <1>3, <1>4, FS_EmptySet

\* The clever schedule makes every packet of the coding drives what the matrix says.
THEOREM SmartScheduleEncodes ==
  ASSUME NEW k, NEW m, NEW w, NEW bits, BitCode(k, m, w, bits),
         NEW mem \in Memories(k, m, w), Own(k, w, mem)
  PROVE  jerasure_schedule_encode(k, m, jerasure_smart_bitmatrix_to_schedule(k, m, w, bits), mem)
           = [d \in 0..k+m-1 |-> Contents(k, w, bits, d)]
<1> DEFINE N == m * w
           rows == 0..N-1
           p == [k |-> k, m |-> m, w |-> w, bits |-> bits, mem |-> mem]
           q0 == [todo |-> rows, ops |-> <<>>, from |-> [i \in rows |-> -1],
                  diff |-> [i \in rows |-> Cardinality(bits[i])]]
           q == Build!Turns(p, q0, N)
           schedule == jerasure_smart_bitmatrix_to_schedule(k, m, w, bits)
<1>1. k \in Nat \ {0} /\ m \in Nat /\ w \in Nat \ {0} /\ N \in Nat
  <2>1. k \in Nat \ {0} /\ m \in Nat /\ w \in Nat \ {0}
    BY DEF BitCode
  <2> QED BY <2>1, Multiple
<1>2. p.k = k /\ p.m = m /\ p.w = w /\ p.bits = bits /\ p.mem = mem
  OBVIOUS
<1>3. schedule = q.ops
  <2> HIDE DEF p
  <2> QED BY <1>2, SmartIsLoop
<1>4. BuildInv(p, q0, 0)
  <2>1. Building(k, m, w, bits, mem, q0, 0)
    BY NoneBuilt
  <2> HIDE DEF q0, p
  <2> QED BY <1>2, <2>1 DEF BuildInv
<1> HIDE DEF q0, p
<1>5. \A n \in 0..N-1 : \A s : BuildInv(p, s, n) => BuildInv(p, BuildStep(p, s, n), n + 1)
  BY <1>2, RowBuilt DEF BuildInv, BuildStep
<1>6. BuildInv(p, q, N)
  <2> HIDE DEF N
  <2> QED BY <1>1, <1>4, <1>5, Build!LoopKeeps
<1>7. Building(k, m, w, bits, mem, q, N)
  BY <1>2, <1>6 DEF BuildInv
<1> HIDE DEF q
<1>8. q.todo = {} /\ Performed(k, m, q.ops, mem) = Partly(k, m, w, bits, mem, q.todo)
  BY <1>7, AllBuilt DEF Building
<1>9. Partly(k, m, w, bits, mem, {}) = [d \in 0..k+m-1 |-> Contents(k, w, bits, d)]
  BY AllMade
<1> HIDE DEF schedule
<1>10. jerasure_schedule_encode(k, m, schedule, mem) = Partly(k, m, w, bits, mem, {})
  BY <1>3, <1>8, EncodePerforms
<1> QED BY <1>9, <1>10 DEF schedule

\* Drives that are not erased are left alone.
KeepInv(p, s, n) ==
  /\ s = [d \in 0..p.k+p.m-1 |-> s[d]]
  /\ \A d \in (0..p.k+p.m-1) \ p.erased : s[d] = p.mem[d]

Keep == INSTANCE Loops_proofs WITH Step <- DecodeStep, Inv <- KeepInv

\* A product is written to its drive and to no other.
LEMMA DotprodKeeps ==
  ASSUME NEW D, NEW s, s = [d \in D |-> s[d]], NEW k, NEW w, NEW rows, NEW ids, NEW dest
  PROVE  LET t == jerasure_bitmatrix_dotprod(k, w, rows, ids, dest, s)
         IN  t = [d \in D |-> t[d]] /\ \A d \in D : d # dest => t[d] = s[d]
<1> DEFINE v == [j \in 0..w-1 |->
                   IF rows[j] = {} THEN s[dest][j]
                   ELSE XorAll([c \in 0..k*w-1 |-> s[ids[c \div w]][c % w]], rows[j])]
           t == jerasure_bitmatrix_dotprod(k, w, rows, ids, dest, s)
<1>1. t = [s EXCEPT ![dest] = v]
  BY Zenon DEF jerasure_bitmatrix_dotprod
<1> HIDE DEF v, t
<1>2. t = [d \in D |-> t[d]] /\ \A d \in D : d # dest => t[d] = s[d]
  BY <1>1
<1> QED BY <1>2 DEF t

\* What the turns of the decoder have in common: each writes one erased drive or none.
LEMMA TurnKeeps ==
  ASSUME NEW p, p.k \in Nat \ {0}, p.m \in Nat, p.ones \in BOOLEAN, p.erased \in SUBSET (0..p.k+p.m-1),
         NEW n \in 0..p.k+p.m, NEW s, KeepInv(p, s, n)
  PROVE  KeepInv(p, DecodeStep(p, s, n), n + 1)
<1> DEFINE k == p.k
           D == 0..p.k+p.m-1
           last == lastdrive(p.k, p.ones, p.erased)
           t == DecodeStep(p, s, n)
           Made1(rows, ids, dest) == jerasure_bitmatrix_dotprod(p.k, p.w, rows, ids, dest, s)
<1>1. \/ last = k
      \/ last \in p.erased
  BY LastErased
<1>2. t = s \/ \E dest \in p.erased : \E rows, ids : t = Made1(rows, ids, dest)
  <2> DEFINE inv == RowsOf(p.inverse.inv, n, p.w)
             dm == dm_ids(p.k, p.m, p.erased)
             first == RowsOf(p.bits, 0, p.w)
             ids == [i \in 0..p.k-1 |-> IF i < last THEN i ELSE i + 1]
             coding == RowsOf(p.bits, n - 1 - p.k, p.w)
             data == Data(p.k)
  <2>1. t = CASE n \in {i \in p.erased : i < p.k} /\ n < last -> Made1(inv, dm, n)
              [] n = p.k /\ last # p.k -> Made1(first, ids, last)
              [] n > p.k /\ n - 1 \in p.erased -> Made1(coding, data, n - 1)
              [] OTHER -> s
    BY Zenon DEF DecodeStep
  <2> HIDE DEF inv, dm, first, ids, coding, data, last, Made1, t
  <2>2. \/ t = s \/ (n \in p.erased /\ t = Made1(inv, dm, n))
        \/ (last \in p.erased /\ t = Made1(first, ids, last))
        \/ (n - 1 \in p.erased /\ t = Made1(coding, data, n - 1))
    BY <1>1, <2>1
  <2> QED BY <2>2, Zenon
<1>3. /\ s = [d \in D |-> s[d]]
      /\ \A d \in D \ p.erased : s[d] = p.mem[d]
  BY DEF KeepInv
<1>4. t = [d \in D |-> t[d]] /\ \A d \in D \ p.erased : t[d] = s[d]
  <2> HIDE DEF D, t
  <2>1. CASE t = s
    BY <1>3, <2>1
  <2>2. ASSUME NEW dest \in p.erased, NEW rows, NEW ids, t = Made1(rows, ids, dest)
        PROVE  t = [d \in D |-> t[d]] /\ \A d \in D \ p.erased : t[d] = s[d]
    <3>1. t = [d \in D |-> t[d]] /\ \A d \in D : d # dest => t[d] = s[d]
      BY <1>3, <2>2, DotprodKeeps
    <3> QED BY <3>1
  <2> QED BY <1>2, <2>1, <2>2
<1> QED BY <1>3, <1>4 DEF KeepInv, t, D

\* The turns are the same, whatever is said about them.
LEMMA KeepIsLoop ==
  ASSUME NEW p, NEW mem
  PROVE  DecodeBits(p.k, p.m, p.w, p.ones, p.erased, p.inverse, p.bits, mem)
           = IF Decodable(p.k, p.ones, p.erased, p.inverse)
             THEN [ok |-> TRUE, mem |-> Keep!Turns(p, mem, p.k + p.m + 1)]
             ELSE Failure
BY Zenon DEF Decodable, DecodeBits, DecodeDrives, DecodeStep, Keep!Turns, Keep!Loop, Keep!Now, Loop, Now

\* There are k + m drives, and the erased ones are some of them.
Given(k, m, erasures, mem) ==
  /\ k \in Nat \ {0} /\ m \in Nat /\ ToSet(erasures) \in SUBSET (0..k+m-1)
  /\ mem = [d \in 0..k+m-1 |-> mem[d]]

\* Drives that are not erased keep what they hold, and more than m must not be
\* erased, with every matrix and whatever is asked for.
THEOREM DecodeKeeps ==
  ASSUME NEW k, NEW m, NEW w, NEW bits, NEW ones \in BOOLEAN, NEW erasures, NEW mem,
         Given(k, m, erasures, mem),
         jerasure_bitmatrix_decode(k, m, w, bits, ones, erasures, mem).ok
  PROVE  /\ ~ Cardinality(ToSet(erasures)) > m
         /\ \A d \in (0..k+m-1) \ ToSet(erasures) :
              jerasure_bitmatrix_decode(k, m, w, bits, ones, erasures, mem).mem[d] = mem[d]
<1>0. /\ k \in Nat \ {0} /\ m \in Nat /\ ToSet(erasures) \in SUBSET (0..k+m-1)
      /\ mem = [d \in 0..k+m-1 |-> mem[d]]
  BY DEF Given
<1> USE <1>0
<1> DEFINE erased == ToSet(erasures)
           inverse == jerasure_make_decoding_bitmatrix(k, m, w, bits, erased)
           p == [k |-> k, m |-> m, w |-> w, bits |-> bits, erased |-> erased, ones |-> ones,
                 inverse |-> inverse, mem |-> mem]
           result == jerasure_bitmatrix_decode(k, m, w, bits, ones, erasures, mem)
           goes == Decodable(k, ones, erased, inverse)
           N == k + m + 1
<1>1. Failure.ok = FALSE
  BY DEF Failure
<1>p. /\ p.k = k /\ p.m = m /\ p.w = w /\ p.bits = bits /\ p.erased = erased /\ p.ones = ones
      /\ p.inverse = inverse /\ p.mem = mem
  OBVIOUS
<1>2. ~ Cardinality(erased) > m
  <2>1. CASE Cardinality(erased) > m
    <3>1. result = Failure
      BY Zenon, <2>1, <1>1 DEF jerasure_bitmatrix_decode, jerasure_erasures_to_erased
    <3> QED BY <1>1, <3>1
  <2> QED BY <2>1
<1>3. result = DecodeBits(k, m, w, ones, erased, inverse, bits, mem)
  <2>1. jerasure_erasures_to_erased(k, m, erasures) = [ok |-> TRUE, erased |-> erased]
    BY <1>2 DEF jerasure_erasures_to_erased
  <2>2. [ok |-> TRUE, erased |-> erased].ok = TRUE /\ [ok |-> TRUE, erased |-> erased].erased = erased
    OBVIOUS
  <2> HIDE DEF erased
  <2> QED BY Zenon, <2>1, <2>2 DEF jerasure_bitmatrix_decode, DecodeBits, inverse, result
<1>e. erased \in SUBSET (0..k+m-1) /\ result.ok
  OBVIOUS
<1> HIDE DEF p, inverse, erased, result
<1>4. result = IF goes THEN [ok |-> TRUE, mem |-> Keep!Turns(p, mem, N)] ELSE Failure
  BY <1>3, <1>p, KeepIsLoop
<1>5. result.mem = Keep!Turns(p, mem, N)
  <2> HIDE DEF goes
  <2> QED BY <1>1, <1>4, <1>e
<1>6. KeepInv(p, mem, 0)
  BY <1>p DEF KeepInv
<1>7. \A n \in 0..N-1 : \A s : KeepInv(p, s, n) => KeepInv(p, DecodeStep(p, s, n), n + 1)
  <2>1. \A n \in 0..N-1 : n \in 0..k+m
    OBVIOUS
  <2> TAKE n \in 0..N-1
  <2> TAKE s
  <2> HAVE KeepInv(p, s, n)
  <2>2. n \in 0..k+m
    BY <2>1
  <2>3. p.k \in Nat \ {0} /\ p.m \in Nat /\ p.ones \in BOOLEAN /\ p.erased \in SUBSET (0..p.k+p.m-1)
    BY <1>p, <1>e
  <2>4. n \in 0..p.k+p.m
    BY <2>2, <1>p
  <2> QED BY <2>3, <2>4, TurnKeeps
<1>8. KeepInv(p, Keep!Turns(p, mem, N), N)
  <2>1. N \in Nat
    OBVIOUS
  <2> HIDE DEF N
  <2> QED BY <1>6, <1>7, <2>1, Keep!LoopKeeps
<1>9. \A d \in (0..k+m-1) \ erased : result.mem[d] = mem[d]
  BY <1>5, <1>8, <1>p DEF KeepInv
<1> QED BY <1>2, <1>9 DEF erased, result

(***************************************************************************)
(* The straightforward ways to encode, and the lengths of the schedules.   *)
(***************************************************************************)
\* The ones in the rows R of a bit matrix.
OnesIn(bits, R) == {c \in R \X Int : c[2] \in bits[c[1]]}

\* A row more has its own ones and no others.
LEMMA OnesOfRow ==
  ASSUME NEW k, NEW m, NEW w, NEW bits, BitCode(k, m, w, bits),
         NEW R \in SUBSET (0..m*w-1), NEW r \in (0..m*w-1) \ R
  PROVE  /\ Cardinality(OnesIn(bits, R)) \in Nat
         /\ Cardinality(OnesIn(bits, R \cup {r})) = Cardinality(OnesIn(bits, R)) + Cardinality(bits[r])
<1> DEFINE N == m * w
           all == 0..k*w-1
           rows == 0..N-1
           A == OnesIn(bits, R)
           B == {r} \X bits[r]
<1>1. IsFiniteSet(all) /\ IsFiniteSet(rows) /\ all \in SUBSET Int
  <2> DEFINE K == k * w
  <2>1. K \in Nat /\ N \in Nat
    <3>1. k \in Nat /\ m \in Nat /\ w \in Nat
      BY DEF BitCode
    <3> QED BY <3>1, Multiple
  <2> HIDE DEF K, N
  <2>2. 0 \in Int /\ K - 1 \in Int /\ N - 1 \in Int
    BY <2>1
  <2>3. IsFiniteSet(0..K-1) /\ IsFiniteSet(0..N-1) /\ 0..K-1 \in SUBSET Int
    BY <2>2, FS_Interval
  <2> QED BY <2>3 DEF K
<1>2. \A i \in rows : bits[i] \in SUBSET all
  BY DEF BitCode
<1>3. R \in SUBSET rows /\ r \in rows /\ r \notin R
  OBVIOUS
<1> HIDE DEF all, rows, N
<1>4. IsFiniteSet(A)
  <2>1. IsFiniteSet(rows \X all)
    BY <1>1, FS_Product
  <2>2. A \in SUBSET (rows \X all)
    BY <1>2, <1>3 DEF OnesIn
  <2> QED BY <2>1, <2>2, FS_Subset
<1>5. IsFiniteSet(bits[r])
  BY <1>1, <1>2, <1>3, FS_Subset
<1>6. IsFiniteSet(B) /\ Cardinality(B) = Cardinality(bits[r])
  <2>1. IsFiniteSet({r}) /\ Cardinality({r}) = 1
    BY FS_Singleton
  <2>2. IsFiniteSet(B) /\ Cardinality(B) = 1 * Cardinality(bits[r])
    BY <1>5, <2>1, FS_Product
  <2>3. Cardinality(bits[r]) \in Nat
    BY <1>5, FS_CardinalityType
  <2> QED BY <2>2, <2>3
<1>7. OnesIn(bits, R \cup {r}) = A \cup B
  <2> DEFINE C == {r} \X Int
             Has(c) == c[2] \in bits[c[1]]
  <2>1. (R \cup {r}) \X Int = (R \X Int) \cup C
    BY Zenon
  <2>2. OnesIn(bits, R \cup {r}) = {c \in (R \X Int) \cup C : Has(c)}
    BY <2>1, Zenon DEF OnesIn
  <2>3. A = {c \in R \X Int : Has(c)}
    BY Zenon DEF OnesIn
  <2>4. B = {c \in C : Has(c)}
    <3>1. bits[r] \in SUBSET Int
      BY <1>1, <1>2, <1>3
    <3> QED BY <3>1
  <2> HIDE DEF A, B, C, Has
  <2> QED BY <2>2, <2>3, <2>4
<1>8. A \cap B = {}
  BY <1>3 DEF OnesIn
<1> HIDE DEF A, B
<1>9. Cardinality(A) \in Nat /\ Cardinality(B) \in Nat
  BY <1>4, <1>6, FS_CardinalityType
<1>10. Cardinality(A \cup B) = Cardinality(A) + Cardinality(B) - Cardinality(A \cap B)
  BY <1>4, <1>6, FS_Union
<1>11. Cardinality(A \cap B) = 0
  BY <1>8, FS_EmptySet
<1> DEFINE C == OnesIn(bits, R \cup {r})
<1>12. C = A \cup B
  BY <1>7
<1> HIDE DEF C
<1>13. Cardinality(C) = Cardinality(A) + Cardinality(bits[r])
  BY <1>6, <1>9, <1>10, <1>11, <1>12
<1> QED BY <1>9, <1>13 DEF A, C

\* No rows have no ones.
LEMMA NoOnes == \A bits : Cardinality(OnesIn(bits, {})) = 0
<1>1. \A bits : OnesIn(bits, {}) = {}
  BY DEF OnesIn
<1> QED BY <1>1, FS_EmptySet

\* A row takes as many operations as it has columns.
LEMMA RowLength ==
  ASSUME NEW N, NEW columns, Columns(N, columns), NEW r, NEW k, NEW w, NEW started
  PROVE  Len(RowOperations(columns, r, k, w, started)) = Cardinality(columns)
<1> DEFINE c == Sorted(columns)
           n == Len(c)
           ops == RowOperations(columns, r, k, w, started)
           S == {ops[i] : i \in 1..n}
<1>1. n = Cardinality(columns) /\ n \in Nat
  BY SortedColumns
<1>2. ops = [i \in 1..n |-> ops[i]]
  BY DEF RowOperations
<1> HIDE DEF c, n, ops
<1>3. \A i \in 1..n : ops[i] \in S
  OBVIOUS
<1> HIDE DEF S
<1>4. [i \in 1..n |-> ops[i]] \in [1..n -> S]
  BY <1>3, Zenon
<1>5. ops \in [1..n -> S]
  BY <1>2, <1>4, Zenon
<1>6. Len(ops) = n
  BY <1>1, <1>5, Lists
<1> QED BY <1>1, <1>6 DEF ops

\* A row from another takes one operation for the copy.
LEMMA RowFromLength ==
  ASSUME NEW k, NEW m, NEW w, NEW bits, NEW mem, NEW todo, NEW r, NEW b,
         Turn(k, m, w, bits, mem, todo, r, b)
  PROVE  Len(RowFrom(k, w, bits, r, b))
           = IF b = -1 THEN Cardinality(bits[r]) ELSE 1 + Cardinality(Xor(bits[b], bits[r]))
<1> DEFINE all == 0..k*w-1
           no == FALSE
           yes == TRUE
<1>1. /\ BitCode(k, m, w, bits) /\ mem \in Memories(k, m, w) /\ Own(k, w, mem)
      /\ todo \in SUBSET (0..m*w-1) /\ r \in todo /\ (b = -1 \/ b \in (0..m*w-1) \ todo)
  BY DEF Turn
<1>2. k * w \in Nat
  <2>1. k \in Nat /\ w \in Nat
    BY <1>1 DEF BitCode
  <2> QED BY <2>1, Multiple
<1>3. bits[r] \in SUBSET all /\ (b # -1 => bits[b] \in SUBSET all)
  BY <1>1 DEF BitCode
<1> HIDE DEF all
<1>4. Columns(k * w, bits[r]) /\ (b # -1 => Columns(k * w, Xor(bits[r], bits[b])))
  <2>1. b # -1 => Xor(bits[r], bits[b]) \in SUBSET all
    BY <1>3 DEF Xor, SymDiff
  <2> QED BY <1>2, <1>3, <2>1 DEF Columns, all
<1> HIDE DEF no, yes
<1>5. CASE b = -1
  <2>1. RowFrom(k, w, bits, r, b) = RowOperations(bits[r], r, k, w, no)
    BY <1>5 DEF RowFrom, no
  <2> QED BY <1>4, <1>5, <2>1, RowLength
<1>6. CASE b # -1
  <2> DEFINE copy == Copy(k, w, r, b)
             columns == Xor(bits[r], bits[b])
             ops == RowOperations(columns, r, k, w, yes)
             o == Operation(k + (b \div w), b % w, k + (r \div w), r % w, FALSE)
  <2>1. RowFrom(k, w, bits, r, b) = copy \o ops
    BY <1>6 DEF RowFrom, yes
  <2>2. Len(ops) = Cardinality(columns)
    BY <1>4, <1>6, RowLength
  <2>3. columns = Xor(bits[b], bits[r])
    BY Xors
  <2>4. copy = <<o>>
    BY DEF Copy
  <2>5. ops = [i \in 1..Len(Sorted(columns)) |-> ops[i]] /\ Len(Sorted(columns)) \in Nat
    BY <1>4, <1>6, SortedColumns DEF RowOperations
  <2> HIDE DEF ops, o, copy, columns
  <2>6. \E S : ops \in Seq(S) /\ copy \in Seq(S)
    <3> DEFINE n == Len(Sorted(columns))
               S == {ops[i] : i \in 1..n} \cup {o}
    <3>1. o \in S /\ \A i \in 1..n : ops[i] \in S
      OBVIOUS
    <3>2. n \in Nat /\ ops = [i \in 1..n |-> ops[i]]
      BY <2>5
    <3> HIDE DEF n, S
    <3>3. [i \in 1..n |-> ops[i]] \in [1..n -> S]
      BY <3>1, Zenon
    <3>4. ops \in [1..n -> S]
      BY <3>2, <3>3, Zenon
    <3>5. ops \in Seq(S)
      BY <3>2, <3>4, Lists
    <3>6. copy \in Seq(S)
      BY <2>4, <3>1
    <3> QED BY <3>5, <3>6
  <2>7. Len(copy \o ops) = Len(copy) + Len(ops)
    BY <2>6, ConcatProperties
  <2>8. Len(copy) = 1
    BY <2>4
  <2> QED BY <1>6, <2>1, <2>2, <2>3, <2>7, <2>8
<1> QED BY <1>5, <1>6

(***************************************************************************)
(* The straightforward schedule.                                           *)
(***************************************************************************)
DumbStep(p, ops, r) == ops \o RowOperations(p.bits[r], r, p.k, p.w, FALSE)

\* After n rows: the operations make the rows, one for each one in them.
Dumbly(k, m, w, bits, mem, ops, n) ==
  /\ ops \in Seq(Operations(k, m, w))
  /\ Performed(k, m, ops, mem) = Partly(k, m, w, bits, mem, n..m*w-1)
  /\ Len(ops) = Cardinality(OnesIn(bits, 0..n-1))

DumbInv(p, ops, n) == Dumbly(p.k, p.m, p.w, p.bits, p.mem, ops, n)

Dumb == INSTANCE Loops_proofs WITH Step <- DumbStep, Inv <- DumbInv

\* jerasure_dumb_bitmatrix_to_schedule as an instance of the loop.
LEMMA DumbIsLoop ==
  ASSUME NEW p
  PROVE  jerasure_dumb_bitmatrix_to_schedule(p.k, p.m, p.w, p.bits)
           = Dumb!Turns(p, <<>>, p.m * p.w)
BY Zenon DEF jerasure_dumb_bitmatrix_to_schedule, DumbStep, Dumb!Turns, Dumb!Loop, Dumb!Now, Loop, Now

\* One row more.
LEMMA DumbRow ==
  ASSUME NEW k, NEW m, NEW w, NEW bits, NEW mem, BitCode(k, m, w, bits), mem \in Memories(k, m, w),
         Own(k, w, mem), NEW n \in 0..m*w-1, NEW ops, Dumbly(k, m, w, bits, mem, ops, n)
  PROVE  Dumbly(k, m, w, bits, mem, ops \o RowOperations(bits[n], n, k, w, FALSE), n + 1)
<1> DEFINE N == m * w
           S == Operations(k, m, w)
           todo == n..N-1
           done == 0..n-1
           row == RowFrom(k, w, bits, n, -1)
           both == ops \o row
<1>1. N \in Nat
  <2>1. m \in Nat /\ w \in Nat
    BY DEF BitCode
  <2> QED BY <2>1, Multiple
<1>n. n \in 0..N-1
  OBVIOUS
<1>2. /\ ops \in Seq(S) /\ Performed(k, m, ops, mem) = Partly(k, m, w, bits, mem, todo)
      /\ Len(ops) = Cardinality(OnesIn(bits, done))
  BY DEF Dumbly
<1>3. Turn(k, m, w, bits, mem, todo, n, -1)
  <2> HIDE DEF N
  <2>1. todo \in SUBSET (0..N-1) /\ n \in todo
    BY <1>1, <1>n
  <2>2. todo \in SUBSET (0..m*w-1)
    BY <2>1 DEF N
  <2> HIDE DEF todo
  <2> QED BY <2>1, <2>2 DEF Turn
<1>4. /\ row \in Seq(S)
      /\ Performed(k, m, row, Partly(k, m, w, bits, mem, todo)) = Partly(k, m, w, bits, mem, todo \ {n})
      /\ Len(row) = Cardinality(bits[n])
  <2> DEFINE b == -1
  <2>1. b = -1
    OBVIOUS
  <2>t. Turn(k, m, w, bits, mem, todo, n, b)
    BY <1>3
  <2> HIDE DEF b, todo
  <2>2. Len(RowFrom(k, w, bits, n, b))
          = IF b = -1 THEN Cardinality(bits[n]) ELSE 1 + Cardinality(Xor(bits[b], bits[n]))
    BY <2>t, RowFromLength
  <2>3. /\ RowFrom(k, w, bits, n, b) \in Seq(S)
        /\ Performed(k, m, RowFrom(k, w, bits, n, b), Partly(k, m, w, bits, mem, todo))
             = Partly(k, m, w, bits, mem, todo \ {n})
    BY <2>t, RowFromMakes
  <2> QED BY <2>1, <2>2, <2>3
<1>5. row = RowOperations(bits[n], n, k, w, FALSE)
  BY DEF RowFrom
<1> HIDE DEF row, S, N
<1>6. todo \ {n} = (n+1)..N-1 /\ done \cup {n} = 0..(n+1)-1 /\ n \notin done
  BY <1>1, <1>n
<1>7. done \in SUBSET (0..N-1) /\ n \in (0..N-1) \ done
  BY <1>1, <1>n
<1> HIDE DEF todo, done
<1>8. both \in Seq(S) /\ Len(both) = Len(ops) + Len(row)
  BY <1>2, <1>4, ConcatProperties
<1>9. Performed(k, m, both, mem) = Performed(k, m, row, Performed(k, m, ops, mem))
  BY <1>2, <1>4, PerformAppend
<1>10. Cardinality(OnesIn(bits, done \cup {n})) = Cardinality(OnesIn(bits, done)) + Cardinality(bits[n])
  <2>1. done \in SUBSET (0..m*w-1) /\ n \in (0..m*w-1) \ done
    BY <1>7 DEF N
  <2> QED BY <2>1, OnesOfRow
<1> HIDE DEF both
<1>11. Performed(k, m, both, mem) = Partly(k, m, w, bits, mem, (n+1)..m*w-1)
  BY <1>2, <1>4, <1>6, <1>9 DEF N
<1>12. Len(both) = Cardinality(OnesIn(bits, 0..(n+1)-1))
  BY <1>2, <1>4, <1>6, <1>8, <1>10
<1>13. Dumbly(k, m, w, bits, mem, both, n + 1)
  BY <1>8, <1>11, <1>12 DEF Dumbly, S
<1> QED BY <1>5, <1>13 DEF both

\* The straightforward schedule makes what the matrix says, too, with one operation
\* for each one of the matrix.
THEOREM DumbScheduleEncodes ==
  ASSUME NEW k, NEW m, NEW w, NEW bits, BitCode(k, m, w, bits),
         NEW mem \in Memories(k, m, w), Own(k, w, mem)
  PROVE  /\ jerasure_schedule_encode(k, m, jerasure_dumb_bitmatrix_to_schedule(k, m, w, bits), mem)
              = [d \in 0..k+m-1 |-> Contents(k, w, bits, d)]
         /\ Len(jerasure_dumb_bitmatrix_to_schedule(k, m, w, bits))
              = Cardinality(OnesIn(bits, 0..m*w-1))
<1> DEFINE N == m * w
           p == [k |-> k, m |-> m, w |-> w, bits |-> bits, mem |-> mem]
           none == <<>>
           ops == Dumb!Turns(p, none, N)
<1>1. N \in Nat
  <2>1. m \in Nat /\ w \in Nat
    BY DEF BitCode
  <2> QED BY <2>1, Multiple
<1>2. p.k = k /\ p.m = m /\ p.w = w /\ p.bits = bits /\ p.mem = mem
  OBVIOUS
<1> HIDE DEF p
<1>3. jerasure_dumb_bitmatrix_to_schedule(k, m, w, bits) = ops
  BY <1>2, DumbIsLoop
<1>4. Dumbly(k, m, w, bits, mem, none, 0)
  <2>1. Performed(k, m, none, mem) = mem
    <3>1. Len(<<>>) = 0 /\ 0 \in Nat
      OBVIOUS
    <3> QED BY <3>1, Perform!LoopTurns DEF Performed
  <2>2. Partly(k, m, w, bits, mem, 0..m*w-1) = mem
    BY NoneMade
  <2>3. none \in Seq(Operations(k, m, w)) /\ Len(none) = 0
    OBVIOUS
  <2> HIDE DEF none
  <2>4. 0..0-1 = {}
    OBVIOUS
  <2>5. Cardinality(OnesIn(bits, 0..0-1)) = 0
    BY <2>4, NoOnes
  <2> QED BY <2>1, <2>2, <2>3, <2>5 DEF Dumbly
<1> HIDE DEF none
<1>5. \A n \in 0..N-1 : \A s : DumbInv(p, s, n) => DumbInv(p, DumbStep(p, s, n), n + 1)
  BY <1>2, DumbRow DEF DumbInv, DumbStep
<1>6. DumbInv(p, ops, N)
  <2>1. DumbInv(p, none, 0)
    BY <1>2, <1>4 DEF DumbInv
  <2> HIDE DEF N
  <2> QED BY <1>1, <1>5, <2>1, Dumb!LoopKeeps
<1> HIDE DEF ops
<1>7. Dumbly(k, m, w, bits, mem, ops, N)
  BY <1>2, <1>6 DEF DumbInv
<1>8. Performed(k, m, ops, mem) = Partly(k, m, w, bits, mem, {}) /\ Len(ops) = Cardinality(OnesIn(bits, 0..N-1))
  <2>1. N..N-1 = {}
    <3> HIDE DEF N
    <3> QED BY <1>1
  <2> QED BY <1>7, <2>1 DEF Dumbly
<1>9. jerasure_schedule_encode(k, m, ops, mem) = Partly(k, m, w, bits, mem, {})
  BY <1>8, EncodePerforms
<1> QED BY <1>3, <1>8, <1>9, AllMade

(***************************************************************************)
(* The clever schedule is no longer.                                       *)
(***************************************************************************)
\* What the rows still cost, and what those that are made have cost.
Counted(m, w, bits, q) ==
  /\ \A i \in 0..m*w-1 :
       /\ q.diff[i] = IF q.from[i] = -1 THEN Cardinality(bits[i])
                      ELSE 1 + Cardinality(Xor(bits[q.from[i]], bits[i]))
       /\ q.diff[i] <= Cardinality(bits[i])
  /\ Len(q.ops) <= Cardinality(OnesIn(bits, (0..m*w-1) \ q.todo))

CountInv(p, q, n) ==
  Building(p.k, p.m, p.w, p.bits, p.mem, q, n) /\ Counted(p.m, p.w, p.bits, q)

Count == INSTANCE Loops_proofs WITH Step <- BuildStep, Inv <- CountInv

\* The row taken costs no more than from scratch.
LEMMA RowCounted ==
  ASSUME NEW k, NEW m, NEW w, NEW bits, NEW mem, BitCode(k, m, w, bits), mem \in Memories(k, m, w),
         Own(k, w, mem), NEW n \in 0..m*w-1, NEW q, Building(k, m, w, bits, mem, q, n),
         Counted(m, w, bits, q)
  PROVE  Counted(m, w, bits, ScheduleRow(q, k, w, bits))
<1> DEFINE N == m * w
           rows == 0..N-1
           r == bestrow(q.todo, q.diff)
           b == q.from[r]
           t == ScheduleRow(q, k, w, bits)
           S == Operations(k, m, w)
           row == RowFrom(k, w, bits, r, b)
           done == rows \ q.todo
<1>1. N \in Nat
  <2>1. m \in Nat /\ w \in Nat
    BY DEF BitCode
  <2> QED BY <2>1, Multiple
<1>2. q.todo \in SUBSET rows /\ (\A i \in rows : q.diff[i] \in Nat) /\ q.ops \in Seq(S)
  BY DEF Building
<1>3. /\ \A i \in rows :
           /\ q.diff[i] = IF q.from[i] = -1 THEN Cardinality(bits[i])
                          ELSE 1 + Cardinality(Xor(bits[q.from[i]], bits[i]))
           /\ q.diff[i] <= Cardinality(bits[i])
      /\ Len(q.ops) <= Cardinality(OnesIn(bits, done))
  BY DEF Counted
<1>4. /\ r \in q.todo /\ r \in rows /\ (b = -1 \/ b \in rows \ q.todo)
      /\ t.todo = q.todo \ {r} /\ t.ops = q.ops \o RowFrom(k, w, bits, r, b)
      /\ DOMAIN t.diff = rows /\ DOMAIN t.from = rows
      /\ \A i \in rows :
           \/ t.diff[i] = q.diff[i] /\ t.from[i] = q.from[i]
           \/ /\ t.diff[i] = 1 + Cardinality(Xor(bits[r], bits[i])) /\ t.from[i] = r
              /\ t.diff[i] < q.diff[i]
  BY RowTaken
<1>5. \A i \in rows : Cardinality(bits[i]) \in Nat /\ Cardinality(Xor(bits[r], bits[i])) \in Nat
  <2> TAKE i \in rows
  <2> HIDE DEF r
  <2> QED BY <1>4, RowsCounted
<1> HIDE DEF t, r, b
<1>6. Turn(k, m, w, bits, mem, q.todo, r, b)
  BY <1>2, <1>4 DEF Turn
<1>7. row \in Seq(S) /\ Len(row) = q.diff[r]
  <2>1. Len(row) = IF b = -1 THEN Cardinality(bits[r]) ELSE 1 + Cardinality(Xor(bits[b], bits[r]))
    BY <1>6, RowFromLength
  <2>2. row \in Seq(S)
    BY <1>6, RowFromMakes
  <2> HIDE DEF row, rows
  <2>3. q.diff[r] = IF b = -1 THEN Cardinality(bits[r]) ELSE 1 + Cardinality(Xor(bits[b], bits[r]))
    BY <1>3, <1>4 DEF b
  <2> QED BY <2>1, <2>2, <2>3
<1> HIDE DEF row, S
<1>8. /\ Cardinality(OnesIn(bits, done)) \in Nat
      /\ Cardinality(OnesIn(bits, done \cup {r})) = Cardinality(OnesIn(bits, done)) + Cardinality(bits[r])
  <2>1. done \in SUBSET (0..m*w-1) /\ r \in (0..m*w-1) \ done
    BY <1>4
  <2> HIDE DEF done
  <2> QED BY <2>1, OnesOfRow
<1>9. rows \ t.todo = done \cup {r}
  <2> HIDE DEF rows
  <2> QED BY <1>2, <1>4
<1> HIDE DEF rows, done
<1>10. Len(t.ops) <= Cardinality(OnesIn(bits, rows \ t.todo))
  <2>0. t.ops = q.ops \o row
    BY <1>4 DEF row
  <2>1. Len(q.ops \o row) = Len(q.ops) + Len(row) /\ Len(q.ops) \in Nat
    BY <1>2, <1>7, ConcatProperties, LenProperties
  <2>2. q.diff[r] <= Cardinality(bits[r]) /\ q.diff[r] \in Nat /\ Cardinality(bits[r]) \in Nat
    BY <1>2, <1>3, <1>4, <1>5
  <2> DEFINE C == OnesIn(bits, done)
             D == OnesIn(bits, done \cup {r})
  <2>3. Len(q.ops) <= Cardinality(C) /\ Cardinality(C) \in Nat
        /\ Cardinality(D) = Cardinality(C) + Cardinality(bits[r])
    BY <1>3, <1>8
  <2> HIDE DEF C, D
  <2>4. Len(t.ops) <= Cardinality(D)
    BY <1>7, <2>0, <2>1, <2>2, <2>3
  <2> QED BY <1>9, <2>4 DEF D
<1>11. ASSUME NEW i \in rows
       PROVE  /\ t.diff[i] = IF t.from[i] = -1 THEN Cardinality(bits[i])
                             ELSE 1 + Cardinality(Xor(bits[t.from[i]], bits[i]))
              /\ t.diff[i] <= Cardinality(bits[i])
  <2>1. CASE t.diff[i] = q.diff[i] /\ t.from[i] = q.from[i]
    BY <1>3, <2>1
  <2>2. CASE /\ t.diff[i] = 1 + Cardinality(Xor(bits[r], bits[i])) /\ t.from[i] = r
             /\ t.diff[i] < q.diff[i]
    <3>1. r # -1
      BY <1>1, <1>4 DEF rows
    <3>2. q.diff[i] <= Cardinality(bits[i]) /\ q.diff[i] \in Nat
      BY <1>2, <1>3
    <3> QED BY <1>5, <2>2, <3>1, <3>2
  <2> QED BY <1>4, <2>1, <2>2
<1> QED BY <1>10, <1>11 DEF Counted, t, rows, N

\* The clever schedule has no more operations than the straightforward one.
THEOREM SmartIsNoLonger ==
  ASSUME NEW k, NEW m, NEW w, NEW bits, BitCode(k, m, w, bits),
         NEW mem \in Memories(k, m, w), Own(k, w, mem)
  PROVE  Len(jerasure_smart_bitmatrix_to_schedule(k, m, w, bits))
           <= Len(jerasure_dumb_bitmatrix_to_schedule(k, m, w, bits))
<1> DEFINE N == m * w
           rows == 0..N-1
           p == [k |-> k, m |-> m, w |-> w, bits |-> bits, mem |-> mem]
           q0 == [todo |-> rows, ops |-> <<>>, from |-> [i \in rows |-> -1],
                  diff |-> [i \in rows |-> Cardinality(bits[i])]]
           q == Count!Turns(p, q0, N)
<1>1. N \in Nat
  <2>1. m \in Nat /\ w \in Nat
    BY DEF BitCode
  <2> QED BY <2>1, Multiple
<1>2. p.k = k /\ p.m = m /\ p.w = w /\ p.bits = bits /\ p.mem = mem
  OBVIOUS
<1>3. jerasure_smart_bitmatrix_to_schedule(k, m, w, bits) = q.ops
  <2> DEFINE built == Build!Turns(p, q0, N)
  <2>1. jerasure_smart_bitmatrix_to_schedule(k, m, w, bits) = built.ops
    <3> HIDE DEF p
    <3> QED BY <1>2, SmartIsLoop
  <2>2. built = q
    BY Zenon DEF Build!Turns, Build!Loop, Build!Now, Count!Turns, Count!Loop, Count!Now
  <2> QED BY <2>1, <2>2
<1>4. Building(k, m, w, bits, mem, q0, 0)
  BY NoneBuilt
<1>5. Counted(m, w, bits, q0)
  <2>1. /\ q0.todo = rows /\ q0.ops = <<>> /\ q0.from = [i \in rows |-> -1]
        /\ q0.diff = [i \in rows |-> Cardinality(bits[i])]
    BY Zenon
  <2> HIDE DEF q0
  <2>2. \A i \in rows : Cardinality(bits[i]) \in Nat
    BY RowsCounted
  <2>3. rows \ q0.todo = {} /\ Len(q0.ops) = 0
    BY <2>1
  <2>4. Cardinality(OnesIn(bits, {})) = 0
    BY NoOnes
  <2>5. Len(q0.ops) <= Cardinality(OnesIn(bits, rows \ q0.todo))
    <3>1. OnesIn(bits, rows \ q0.todo) = OnesIn(bits, {})
      BY <2>3, Zenon
    <3> DEFINE C == OnesIn(bits, rows \ q0.todo)
    <3>2. Cardinality(C) = 0
      BY <2>4, <3>1
    <3> HIDE DEF C
    <3>3. Len(q0.ops) <= Cardinality(C)
      BY <2>3, <3>2
    <3> QED BY <3>3 DEF C
  <2>6. \A i \in rows : /\ q0.from[i] = -1 /\ q0.diff[i] = Cardinality(bits[i])
                        /\ q0.diff[i] <= Cardinality(bits[i])
    <3> HIDE DEF rows
    <3> QED BY <2>1, <2>2
  <2> QED BY <2>5, <2>6 DEF Counted
<1> HIDE DEF q0, p
<1>6. \A n \in 0..N-1 : \A s : CountInv(p, s, n) => CountInv(p, BuildStep(p, s, n), n + 1)
  BY <1>2, RowBuilt, RowCounted DEF CountInv, BuildStep
<1>7. CountInv(p, q, N)
  <2>1. CountInv(p, q0, 0)
    BY <1>2, <1>4, <1>5 DEF CountInv
  <2> HIDE DEF N
  <2> QED BY <1>1, <1>6, <2>1, Count!LoopKeeps
<1> HIDE DEF q
<1>8. Building(k, m, w, bits, mem, q, N) /\ Counted(m, w, bits, q)
  BY <1>2, <1>7 DEF CountInv
<1>9. q.todo = {}
  BY <1>8, AllBuilt
<1>10. Len(q.ops) <= Cardinality(OnesIn(bits, rows \ q.todo))
  BY <1>8 DEF Counted
<1>11. rows \ q.todo = 0..m*w-1
  BY <1>9
<1>12. Len(jerasure_dumb_bitmatrix_to_schedule(k, m, w, bits)) = Cardinality(OnesIn(bits, 0..m*w-1))
  BY DumbScheduleEncodes
<1> QED BY <1>3, <1>10, <1>11, <1>12

(***************************************************************************)
(* Encoding without a schedule.                                            *)
(***************************************************************************)
EncodeStep(p, s, i) ==
  jerasure_bitmatrix_dotprod(p.k, p.w, RowsOf(p.bits, i, p.w), Data(p.k), p.k + i, s)

\* The data drives and n coding drives hold what they have to.
Encoding(k, m, w, bits, s, n) ==
  /\ s = [d \in 0..k+m-1 |-> s[d]]
  /\ \A d \in 0..k+m-1 : d < k + n => s[d] = Contents(k, w, bits, d)

EncodeInv(p, s, n) == Encoding(p.k, p.m, p.w, p.bits, s, n)

Encode == INSTANCE Loops_proofs WITH Step <- EncodeStep, Inv <- EncodeInv

\* jerasure_bitmatrix_encode as an instance of the loop, one coding drive a turn.
LEMMA EncodeIsLoop ==
  ASSUME NEW p, NEW mem
  PROVE  jerasure_bitmatrix_encode(p.k, p.m, p.w, p.bits, mem) = Encode!Turns(p, mem, p.m)
BY Zenon DEF jerasure_bitmatrix_encode, EncodeStep, Encode!Turns, Encode!Loop, Encode!Now, Loop, Now

\* One coding drive more.
LEMMA DriveEncoded ==
  ASSUME NEW k, NEW m, NEW w, NEW bits, BitCode(k, m, w, bits), NEW n \in 0..m-1, NEW s,
         Encoding(k, m, w, bits, s, n)
  PROVE  Encoding(k, m, w, bits,
                  jerasure_bitmatrix_dotprod(k, w, RowsOf(bits, n, w), Data(k), k + n, s), n + 1)
<1> DEFINE e == k + n
           value == Contents(k, w, bits, e)
           rows == RowsOf(bits, n, w)
           t == WrittenTo(s, e, value)
<1>1. k \in Nat \ {0} /\ m \in Nat /\ w \in Nat \ {0}
  BY DEF BitCode
<1>2. e \in k..k+m-1 /\ e \in 0..k+m-1 /\ ~ e < k /\ e - k = n
  BY <1>1
<1>3. /\ s = [d \in 0..k+m-1 |-> s[d]]
      /\ \A d \in 0..k+m-1 : d < k + n => s[d] = Contents(k, w, bits, d)
  BY DEF Encoding
<1>4. \A d \in 0..k-1 : s[d] = Contents(k, w, bits, d)
  <2> TAKE d \in 0..k-1
  <2>1. d \in 0..k+m-1 /\ d < k + n
    BY <1>1
  <2> QED BY <1>3, <2>1
<1> HIDE DEF e
<1>5. value = rows
  <2>1. value = RowsOf(bits, e - k, w)
    BY <1>2 DEF Contents
  <2> HIDE DEF value
  <2> QED BY <1>2, <2>1
<1>6. RowProducts(k, w, rows, Data(k), s, value)
  <2>1. value = [j \in 0..w-1 |-> value[j]]
    <3>1. rows = [j \in 0..w-1 |-> rows[j]]
      BY DEF RowsOf
    <3> HIDE DEF rows, value
    <3> QED BY <1>5, <3>1
  <2>2. ASSUME NEW j \in 0..w-1
        PROVE  rows[j] # {} /\ XorAll(Packets(k, w, Data(k), s), rows[j]) = value[j]
    <3> DEFINE row == bits[(e - k) * w + j]
    <3>1. RowsOf(bits, e - k, w)[j] = row /\ row # {}
      BY <1>2, BitRows
    <3>2. XorAll(Packets(k, w, Data(k), s), row) = row
      BY <1>2, <1>4, FromData
    <3>3. rows = RowsOf(bits, e - k, w)
      BY <1>2
    <3> HIDE DEF row, value, rows
    <3> QED BY <1>5, <3>1, <3>2, <3>3
  <2> HIDE DEF rows, value
  <2> QED BY <2>1, <2>2 DEF RowProducts
<1> HIDE DEF value, rows
<1>7. jerasure_bitmatrix_dotprod(k, w, rows, Data(k), e, s) = t
  BY <1>6, DotprodWrites
<1>8. t = [d \in 0..k+m-1 |-> IF d = e THEN value ELSE s[d]]
  BY <1>3 DEF WrittenTo
<1>9. t[e] = value /\ (\A d \in 0..k+m-1 : d # e => t[d] = s[d]) /\ t = [d \in 0..k+m-1 |-> t[d]]
  BY <1>2, <1>8
<1> HIDE DEF t
<1>10. \A d \in 0..k+m-1 : d < k + (n + 1) => t[d] = Contents(k, w, bits, d)
  <2> TAKE d \in 0..k+m-1
  <2> HAVE d < k + (n + 1)
  <2>1. d = e \/ (d # e /\ d < k + n)
    BY <1>1 DEF e
  <2> QED BY <1>3, <1>9, <2>1 DEF value
<1>11. Encoding(k, m, w, bits, t, n + 1)
  BY <1>9, <1>10 DEF Encoding
<1> QED BY <1>7, <1>11 DEF e, rows

\* So do the products of the rows, drive by drive.
THEOREM RowsEncode ==
  ASSUME NEW k, NEW m, NEW w, NEW bits, BitCode(k, m, w, bits),
         NEW mem \in Memories(k, m, w), Own(k, w, mem)
  PROVE  jerasure_bitmatrix_encode(k, m, w, bits, mem) = [d \in 0..k+m-1 |-> Contents(k, w, bits, d)]
<1> DEFINE p == [k |-> k, m |-> m, w |-> w, bits |-> bits]
           s == Encode!Turns(p, mem, m)
<1>1. k \in Nat \ {0} /\ m \in Nat
  BY DEF BitCode
<1>2. p.k = k /\ p.m = m /\ p.w = w /\ p.bits = bits
  OBVIOUS
<1> HIDE DEF p
<1>3. jerasure_bitmatrix_encode(k, m, w, bits, mem) = s
  BY <1>2, EncodeIsLoop
<1>4. Encoding(k, m, w, bits, mem, 0)
  <2>1. mem = [d \in 0..k+m-1 |-> [x \in 0..w-1 |-> mem[d][x]]]
    BY DEF Memories
  <2>2. ASSUME NEW d \in 0..k+m-1, d < k + 0
        PROVE  mem[d] = Contents(k, w, bits, d)
    <3>1. d \in 0..k-1 /\ d < k
      BY <1>1, <2>2
    <3>2. mem[d] = [x \in 0..w-1 |-> mem[d][x]]
      BY <2>1
    <3>3. \A x \in 0..w-1 : mem[d][x] = {d * w + x}
      BY <3>1 DEF Own
    <3>4. Contents(k, w, bits, d) = [x \in 0..w-1 |-> {d * w + x}]
      BY <3>1 DEF Contents
    <3> QED BY <3>2, <3>3, <3>4
  <2>3. mem = [d \in 0..k+m-1 |-> mem[d]]
    BY <2>1
  <2> QED BY <2>2, <2>3 DEF Encoding
<1>5. \A n \in 0..m-1 : \A t : EncodeInv(p, t, n) => EncodeInv(p, EncodeStep(p, t, n), n + 1)
  BY <1>2, DriveEncoded DEF EncodeInv, EncodeStep
<1>6. EncodeInv(p, s, m)
  <2>1. EncodeInv(p, mem, 0)
    BY <1>2, <1>4 DEF EncodeInv
  <2> QED BY <1>1, <1>5, <2>1, Encode!LoopKeeps
<1> HIDE DEF s
<1>7. /\ s = [d \in 0..k+m-1 |-> s[d]]
      /\ \A d \in 0..k+m-1 : d < k + m => s[d] = Contents(k, w, bits, d)
  BY <1>2, <1>6 DEF EncodeInv, Encoding
<1>8. \A d \in 0..k+m-1 : s[d] = Contents(k, w, bits, d)
  BY <1>1, <1>7
<1> QED BY <1>3, <1>7, <1>8

\* The packets x of the data drives.
Regions(k, w, x, regions) ==
  /\ k \in Nat \ {0} /\ w \in Nat \ {0} /\ x \in 0..w-1
  /\ \A j \in 0..k-1 : regions[j] = {j * w + x}

\* A parity over the data drives is their plain sum.
THEOREM ParityIsSum ==
  ASSUME NEW k, NEW w, NEW x, NEW regions, Regions(k, w, x, regions)
  PROVE  jerasure_do_parity(k, regions) = {j * w + x : j \in 0..k-1}
<1>0. /\ k \in Nat \ {0} /\ w \in Nat \ {0} /\ x \in 0..w-1
      /\ \A j \in 0..k-1 : regions[j] = {j * w + x}
  BY DEF Regions
<1> USE <1>0
<1> DEFINE drives == 0..k-1
           at(j) == j * w + x
<1>1. IsFiniteSet(drives)
  <2>1. 0 \in Int /\ k - 1 \in Int
    OBVIOUS
  <2> QED BY <2>1, FS_Interval
<1>2. \A i \in drives : \A j \in drives : i # j => at(i) # at(j)
  <2> TAKE i \in drives
  <2> TAKE j \in drives
  <2>1. \A l \in 0..k-1 : (l * w + x) \div w = l
    BY Packet
  <2>2. at(i) \div w = i /\ at(j) \div w = j
    BY <2>1
  <2> HIDE DEF at, drives
  <2> QED BY <2>2
<1> HIDE DEF drives, at
<1>3. \A j \in drives : regions[j] = {at(j)}
  BY DEF drives, at
<1>4. \A i, j \in drives : i # j => regions[i] \cap regions[j] = {}
  BY <1>2, <1>3
<1>5. XorAll(regions, drives) = UNION {regions[j] : j \in drives}
  BY <1>1, <1>4, XorAllUnion
<1>6. UNION {regions[j] : j \in drives} = {at(j) : j \in drives}
  BY <1>3
<1> QED BY <1>5, <1>6 DEF jerasure_do_parity, drives, at
=============================================================================
