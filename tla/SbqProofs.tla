------------------------------- MODULE SbqProofs --------------------------------
(***************************************************************************)
(* Theorems about SbqStorage, for any table, options, queries, cache and   *)
(* number of nodes: training is exact, what was accepted can be opened, the*)
(* cache agrees with the pages, distances are those of the vectors' ranges,*)
(* and the label filter is that of SQL.  First the lemmas about what the   *)
(* model is built from, then the inductive invariant and every step.       *)
(***************************************************************************)
EXTENDS SbqStorage, FiniteSetTheorems, SequenceTheorems, TLAPS

--------------------------------------------------------------------------------
(***************************************************************************)
(* Induction and sums.  A predicate is given as the set where it holds:    *)
(* then the induction principles are statements about sets.                *)
(***************************************************************************)

\* Induction on the natural numbers, for a set in the place of a predicate.
LEMMA NaturalInduction ==
  ASSUME NEW G, 0 \in G, \A n \in Nat : n \in G => n + 1 \in G
  PROVE  Nat \subseteq G
<1> DEFINE T == Nat \ G
<1>1. SUFFICES ASSUME T # {} PROVE FALSE
  OBVIOUS
<1>2. T \subseteq Nat
  OBVIOUS
<1> HIDE DEF T
<1>3. PICK x \in T : \A y \in T : ~(<<y, x>> \in OpToRel(<, Nat))
  BY <1>1, <1>2, WFMin, NatLessThanWellFounded
<1>4. x \in Nat /\ x \notin G /\ x # 0
  BY <1>3 DEF T
<1>5. x - 1 \in Nat /\ x - 1 \notin G
  <2>1. x - 1 \in Nat
    BY <1>4
  <2>2. x = (x - 1) + 1
    BY <1>4
  <2> QED BY <2>1, <2>2, <1>4
<1>6. <<x - 1, x>> \in OpToRel(<, Nat)
  BY <1>4, <1>5 DEF OpToRel
<1> QED
  BY <1>3, <1>5, <1>6 DEF T

\* Induction on the subsets of a finite set, from the smaller to the larger ones.
LEMMA SubsetInduction ==
  ASSUME NEW S, IsFiniteSet(S), NEW G,
         \A T \in SUBSET S : (\A U \in SUBSET T : U # T => U \in G) => T \in G
  PROVE  \A T \in SUBSET S : T \in G
<1> DEFINE B == (SUBSET S) \ G
<1>1. SUFFICES ASSUME B # {} PROVE FALSE
  OBVIOUS
<1>2. B \subseteq FiniteSubsetsOf(S)
  BY FS_Subset DEF FiniteSubsetsOf
<1>0. B \subseteq SUBSET S
  OBVIOUS
<1> HIDE DEF B
<1>3. PICK x \in B : \A y \in B : ~(<<y, x>> \in StrictSubsetOrdering(S))
  BY <1>1, <1>2, WFMin, FS_StrictSubsetOrderingWellFounded
<1>4. \A U \in SUBSET x : U # x => U \in G
  <2> SUFFICES ASSUME NEW U \in SUBSET x, U # x, U \notin G PROVE FALSE
    OBVIOUS
  <2>1. U \in B /\ U \in SUBSET S
    BY <1>0 DEF B
  <2>2. <<U, x>> \in StrictSubsetOrdering(S)
    BY <2>1, <1>0 DEF StrictSubsetOrdering
  <2> QED BY <1>3, <2>1, <2>2
<1> QED
  BY <1>3, <1>4, <1>0 DEF B

--------------------------------------------------------------------------------
\* What the recursion of SumFunctionOnSet solves.
Sums(it, f, S) ==
  it = [s \in SUBSET S |-> IF s = {} THEN 0
                           ELSE f[CHOOSE x \in s : TRUE] + it[s \ {CHOOSE x \in s : TRUE}]]

\* The sum is a value of the recursive function that folds it.
LEMMA SumUnfolded ==
  ASSUME NEW f, NEW S
  PROVE  SumFunctionOnSet(f, S) = (CHOOSE it : Sums(it, f, S))[S]
BY Zenon DEF SumFunctionOnSet, FoldFunctionOnSet, MapThenFoldSet, Sums

\* Two solutions agree where both are defined.
LEMMA SumsUnique ==
  ASSUME NEW f, NEW S, NEW T, NEW it, NEW jt, Sums(it, f, S), Sums(jt, f, T),
         IsFiniteSet(S), S \subseteq T
  PROVE  it[S] = jt[S]
<1> DEFINE G == {s \in SUBSET S : it[s] = jt[s]}
<1>1. ASSUME NEW V \in SUBSET S, \A U \in SUBSET V : U # V => U \in G
      PROVE  V \in G
  <2>1. CASE V = {}
    BY <2>1 DEF Sums
  <2>2. CASE V # {}
    <3> DEFINE x == CHOOSE x \in V : TRUE
    <3>1. x \in V
      BY <2>2
    <3> HIDE DEF x
    <3>2. V \ {x} \in G
      BY <3>1, <1>1
    <3>3. it[V] = f[x] + it[V \ {x}] /\ jt[V] = f[x] + jt[V \ {x}]
      BY <2>2, Zenon DEF Sums, x
    <3> QED BY <3>2, <3>3
  <2> QED BY <2>1, <2>2
<1> HIDE DEF G
<1>2. S \in G
  BY <1>1, SubsetInduction, Zenon
<1> QED BY <1>2 DEF G

\* On a finite set there is such a function.
LEMMA SumsExist ==
  ASSUME NEW f, NEW S, IsFiniteSet(S)
  PROVE  \E it : Sums(it, f, S)
<1> DEFINE G == {s \in SUBSET S : \E it : Sums(it, f, s)}
<1>1. ASSUME NEW V \in SUBSET S, \A U \in SUBSET V : U # V => U \in G
      PROVE  V \in G
  <2> DEFINE of(s)  == CHOOSE it : Sums(it, f, s)
             val(s) == of(s)[s]
             x(s)   == CHOOSE e \in s : TRUE
             jt     == [s \in SUBSET V |-> IF s = {} THEN 0 ELSE f[x(s)] + val(s \ {x(s)})]
  <2>1. ASSUME NEW s \in SUBSET V, s # V PROVE Sums(of(s), f, s)
    <3>1. \E it : Sums(it, f, s)
      BY <1>1, <2>1 
    <3> QED BY <3>1, Zenon
  <2>2. ASSUME NEW s \in SUBSET V, s # V PROVE val(s) = jt[s]
    <3>1. CASE s = {}
      <4>1. of(s) = [r \in SUBSET s |-> IF r = {} THEN 0 ELSE f[x(r)] + of(s)[r \ {x(r)}]]
        BY <2>1, <2>2, Zenon DEF Sums
      <4> HIDE DEF of
      <4> QED BY <4>1, <3>1
    <3>2. CASE s # {}
      <4>1. of(s) = [r \in SUBSET s |-> IF r = {} THEN 0 ELSE f[x(r)] + of(s)[r \ {x(r)}]]
        BY <2>1, <2>2, Zenon DEF Sums
      <4>2. x(s) \in s
        BY <3>2
      <4>3. s \ {x(s)} \in SUBSET V /\ s \ {x(s)} # V /\ s \ {x(s)} \subseteq s /\ IsFiniteSet(s \ {x(s)})
        BY <4>2, FS_Subset
      <4>4. Sums(of(s \ {x(s)}), f, s \ {x(s)}) /\ Sums(of(s), f, s)
        BY <2>1, <2>2, <4>3
      <4> HIDE DEF of, x
      <4>5. of(s \ {x(s)})[s \ {x(s)}] = of(s)[s \ {x(s)}]
        BY <4>3, <4>4, SumsUnique
      <4>6. of(s)[s] = f[x(s)] + of(s)[s \ {x(s)}]
        BY <4>1, <3>2, Zenon
      <4>7. jt[s] = f[x(s)] + val(s \ {x(s)})
        BY <3>2, Zenon
      <4> QED BY <4>5, <4>6, <4>7, Zenon
    <3> QED BY <3>1, <3>2
  <2>3. Sums(jt, f, V)
    <3>1. ASSUME NEW s \in SUBSET V
          PROVE  (IF s = {} THEN 0 ELSE f[x(s)] + val(s \ {x(s)}))
                   = (IF s = {} THEN 0 ELSE f[x(s)] + jt[s \ {x(s)}])
      <4>1. CASE s = {}
        BY <4>1, Zenon
      <4>2. CASE s # {}
        <5>1. x(s) \in s
          BY <4>2
        <5> HIDE DEF jt, val, x
        <5>2. s \ {x(s)} \in SUBSET V /\ s \ {x(s)} # V
          BY <5>1
        <5>3. val(s \ {x(s)}) = jt[s \ {x(s)}]
          BY <2>2, <5>2
        <5> QED BY <5>3, Zenon
      <4> QED BY <4>1, <4>2
    <3>2. jt = [s \in SUBSET V |-> IF s = {} THEN 0 ELSE f[x(s)] + jt[s \ {x(s)}]]
      <4> HIDE DEF val, x
      <4> QED BY <3>1
    <3> QED BY <3>2, Zenon DEF Sums
  <2> QED BY <2>3, Zenon
<1> HIDE DEF G
<1>2. S \in G
  BY <1>1, SubsetInduction, Zenon
<1> QED BY <1>2 DEF G

\* The sum by its recursion.
LEMMA SumRecursion ==
  ASSUME NEW f, NEW S, IsFiniteSet(S)
  PROVE  /\ SumFunctionOnSet(f, {}) = 0
         /\ S # {} => \E x \in S : SumFunctionOnSet(f, S) = f[x] + SumFunctionOnSet(f, S \ {x})
<1> DEFINE of(s) == CHOOSE it : Sums(it, f, s)
<1>1. ASSUME NEW s, IsFiniteSet(s)
      PROVE  /\ Sums(of(s), f, s)
             /\ SumFunctionOnSet(f, s) = of(s)[s]
  <2>1. \E it : Sums(it, f, s)
    BY <1>1, SumsExist, Zenon
  <2> QED BY <2>1, SumUnfolded, Zenon
<1> HIDE DEF of
<1>2. SumFunctionOnSet(f, {}) = 0
  BY <1>1, FS_EmptySet DEF Sums
<1>3. ASSUME S # {}
      PROVE  \E x \in S : SumFunctionOnSet(f, S) = f[x] + SumFunctionOnSet(f, S \ {x})
  <2> DEFINE x == CHOOSE x \in S : TRUE
  <2>1. x \in S
    BY <1>3
  <2>2. of(S)[S] = f[x] + of(S)[S \ {x}]
    BY <1>1, <1>3, Zenon DEF Sums
  <2> HIDE DEF x
  <2>3. S \ {x} \subseteq S /\ IsFiniteSet(S \ {x})
    BY FS_Subset
  <2>4. of(S)[S \ {x}] = of(S \ {x})[S \ {x}]
    BY <2>3, <1>1, SumsUnique
  <2>5. SumFunctionOnSet(f, S) = f[x] + SumFunctionOnSet(f, S \ {x})
    BY <1>1, <2>2, <2>3, <2>4, Zenon
  <2> QED BY <2>1, <2>5
<1> QED BY <1>2, <1>3

\* Induction on a finite set, one element after the other.
LEMMA SetInduction ==
  ASSUME NEW S, IsFiniteSet(S), NEW G, {} \in G,
         \A T \in SUBSET S : \A x \in S \ T : T \in G => T \cup {x} \in G
  PROVE  S \in G
<1>1. ASSUME NEW T \in SUBSET S, \A U \in SUBSET T : U # T => U \in G
      PROVE  T \in G
  <2>1. CASE T = {}
    BY <2>1
  <2>2. CASE T # {}
    <3>1. PICK x \in T : TRUE
      BY <2>2
    <3>2. T \ {x} \in SUBSET T /\ T \ {x} # T
      BY <3>1
    <3>3. T \ {x} \in G
      BY <3>2, <1>1
    <3>4. x \in S \ (T \ {x}) /\ T \ {x} \in SUBSET S /\ T = (T \ {x}) \cup {x}
      BY <3>1
    <3> QED BY <3>3, <3>4
  <2> QED BY <2>1, <2>2
<1>2. \A T \in SUBSET S : T \in G
  BY <1>1, SubsetInduction, Zenon
<1> QED BY <1>2

\* A sum of integers is an integer.
LEMMA SumType ==
  ASSUME NEW f, NEW S, IsFiniteSet(S), \A x \in S : f[x] \in Int
  PROVE  SumFunctionOnSet(f, S) \in Int
<1> DEFINE G == {T \in SUBSET S : SumFunctionOnSet(f, T) \in Int}
<1>1. ASSUME NEW T \in SUBSET S, \A U \in SUBSET T : U # T => U \in G
      PROVE  T \in G
  <2>1. IsFiniteSet(T)
    BY FS_Subset
  <2>2. /\ SumFunctionOnSet(f, {}) = 0
        /\ T # {} => \E x \in T : SumFunctionOnSet(f, T) = f[x] + SumFunctionOnSet(f, T \ {x})
    BY <2>1, SumRecursion
  <2>3. CASE T = {}
    BY <2>2, <2>3
  <2>4. CASE T # {}
    <3>1. PICK x \in T : SumFunctionOnSet(f, T) = f[x] + SumFunctionOnSet(f, T \ {x})
      BY <2>2, <2>4
    <3>2. T \ {x} \in G
      BY <1>1
    <3> QED BY <3>1, <3>2
  <2> QED BY <2>3, <2>4
<1> HIDE DEF G
<1>2. S \in G
  BY <1>1, SubsetInduction, Zenon
<1> QED BY <1>2 DEF G

\* A sum less any of its terms.
LEMMA SumLess ==
  ASSUME NEW f, NEW S, IsFiniteSet(S), \A x \in S : f[x] \in Int
  PROVE  \A y \in S : SumFunctionOnSet(f, S) = f[y] + SumFunctionOnSet(f, S \ {y})
<1> DEFINE G == {T \in SUBSET S :
                   \A y \in T : SumFunctionOnSet(f, T) = f[y] + SumFunctionOnSet(f, T \ {y})}
<1>1. ASSUME NEW T \in SUBSET S, \A U \in SUBSET T : U # T => U \in G
      PROVE  T \in G
  <2> SUFFICES ASSUME NEW y \in T
               PROVE  SumFunctionOnSet(f, T) = f[y] + SumFunctionOnSet(f, T \ {y})
    OBVIOUS
  <2>1. IsFiniteSet(T)
    BY FS_Subset
  <2>2. PICK x \in T : SumFunctionOnSet(f, T) = f[x] + SumFunctionOnSet(f, T \ {x})
    BY <2>1, SumRecursion
  <2>3. CASE x = y
    BY <2>2, <2>3
  <2>4. CASE x # y
    <3>1. T \ {x} \in G /\ T \ {y} \in G
      BY <1>1
    <3>2. SumFunctionOnSet(f, T \ {x}) = f[y] + SumFunctionOnSet(f, (T \ {x}) \ {y})
      BY <3>1, <2>4
    <3>3. SumFunctionOnSet(f, T \ {y}) = f[x] + SumFunctionOnSet(f, (T \ {y}) \ {x})
      BY <3>1, <2>4
    <3>4. (T \ {x}) \ {y} = (T \ {y}) \ {x} /\ IsFiniteSet((T \ {x}) \ {y})
      BY <2>1, FS_Subset
    <3>5. SumFunctionOnSet(f, (T \ {x}) \ {y}) \in Int
      BY <3>4, SumType
    <3>6. SumFunctionOnSet(f, T \ {y}) = f[x] + SumFunctionOnSet(f, (T \ {x}) \ {y})
      BY <3>3, <3>4, Zenon
    <3> HIDE DEF G
    <3> QED BY <2>2, <3>2, <3>5, <3>6
  <2> QED BY <2>3, <2>4
<1> HIDE DEF G
<1>2. S \in G
  BY <1>1, SubsetInduction, Zenon
<1> QED BY <1>2 DEF G

\* One more term.
LEMMA SumAdd ==
  ASSUME NEW f, NEW S, IsFiniteSet(S), NEW y, y \notin S, f[y] \in Int, \A x \in S : f[x] \in Int
  PROVE  SumFunctionOnSet(f, S \cup {y}) = SumFunctionOnSet(f, S) + f[y]
<1>1. IsFiniteSet(S \cup {y})
  BY FS_AddElement
<1>2. (S \cup {y}) \ {y} = S
  OBVIOUS
<1>3. SumFunctionOnSet(f, S \cup {y}) = f[y] + SumFunctionOnSet(f, (S \cup {y}) \ {y})
  BY <1>1, SumLess
<1>4. SumFunctionOnSet(f, S) \in Int
  BY SumType
<1>5. SumFunctionOnSet(f, S \cup {y}) = f[y] + SumFunctionOnSet(f, S)
  BY <1>2, <1>3, Zenon
<1> QED BY <1>4, <1>5

\* No term at all.
LEMMA SumEmpty == ASSUME NEW f PROVE SumFunctionOnSet(f, {}) = 0
BY SumRecursion, FS_EmptySet

\* Functions that agree on S have one sum.
LEMMA SumAgree ==
  ASSUME NEW f, NEW g, NEW S, IsFiniteSet(S), \A x \in S : f[x] \in Int /\ f[x] = g[x]
  PROVE  SumFunctionOnSet(f, S) = SumFunctionOnSet(g, S)
<1> DEFINE G == {T \in SUBSET S : SumFunctionOnSet(f, T) = SumFunctionOnSet(g, T)}
<1>1. {} \in G
  BY SumEmpty
<1>2. ASSUME NEW T \in SUBSET S, NEW x \in S \ T, T \in G
      PROVE  T \cup {x} \in G
  <2>1. IsFiniteSet(T)
    BY FS_Subset
  <2>2. SumFunctionOnSet(f, T \cup {x}) = SumFunctionOnSet(f, T) + f[x]
    BY <2>1, SumAdd
  <2>3. SumFunctionOnSet(g, T \cup {x}) = SumFunctionOnSet(g, T) + g[x]
    BY <2>1, SumAdd
  <2> QED BY <1>2, <2>2, <2>3
<1> HIDE DEF G
<1>3. S \in G
  BY <1>1, <1>2, SetInduction, Zenon
<1> QED BY <1>3 DEF G

\* The sum of multiples of k is a multiple of k.
LEMMA SumMultiple ==
  ASSUME NEW f, NEW g, NEW S, IsFiniteSet(S), NEW k \in Int,
         \A x \in S : g[x] \in Int /\ f[x] = k * g[x]
  PROVE  /\ SumFunctionOnSet(g, S) \in Int
         /\ SumFunctionOnSet(f, S) = k * SumFunctionOnSet(g, S)
<1> DEFINE G == {T \in SUBSET S : SumFunctionOnSet(f, T) = k * SumFunctionOnSet(g, T)}
<1>1. {} \in G
  <2>1. 0 = k * 0
    OBVIOUS
  <2> QED BY <2>1, SumEmpty
<1>2. ASSUME NEW T \in SUBSET S, NEW x \in S \ T, T \in G
      PROVE  T \cup {x} \in G
  <2>1. IsFiniteSet(T)
    BY FS_Subset
  <2>2. f[x] = k * g[x] /\ g[x] \in Int /\ \A y \in T : g[y] \in Int /\ f[y] \in Int
    OBVIOUS
  <2>3. SumFunctionOnSet(f, T \cup {x}) = SumFunctionOnSet(f, T) + f[x]
    BY <2>1, <2>2, SumAdd
  <2>4. SumFunctionOnSet(g, T \cup {x}) = SumFunctionOnSet(g, T) + g[x]
    BY <2>1, <2>2, SumAdd
  <2>5. SumFunctionOnSet(g, T) \in Int
    BY <2>1, <2>2, SumType
  <2>6. \A c, d \in Int : k * c + k * d = k * (c + d)
    OBVIOUS
  <2>7. SumFunctionOnSet(f, T \cup {x}) = k * SumFunctionOnSet(g, T \cup {x})
    <3>1. SumFunctionOnSet(f, T) = k * SumFunctionOnSet(g, T)
      BY <1>2
    <3> QED BY <2>2, <2>3, <2>4, <2>5, <2>6, <3>1
  <2> QED BY <2>7
<1> HIDE DEF G
<1>3. S \in G
  BY <1>1, <1>2, SetInduction, Zenon
<1>4. SumFunctionOnSet(g, S) \in Int
  BY SumType
<1> QED BY <1>3, <1>4 DEF G

\* As many times the same term.
LEMMA SumConstant ==
  ASSUME NEW f, NEW S, IsFiniteSet(S), NEW c \in Int, \A x \in S : f[x] = c
  PROVE  SumFunctionOnSet(f, S) = Cardinality(S) * c
<1> DEFINE G == {T \in SUBSET S : SumFunctionOnSet(f, T) = Cardinality(T) * c}
<1>1. {} \in G
  <2>1. 0 = 0 * c
    OBVIOUS
  <2> QED BY <2>1, SumEmpty, FS_EmptySet
<1>2. ASSUME NEW T \in SUBSET S, NEW x \in S \ T, T \in G
      PROVE  T \cup {x} \in G
  <2>1. IsFiniteSet(T)
    BY FS_Subset
  <2>2. Cardinality(T \cup {x}) = Cardinality(T) + 1 /\ Cardinality(T) \in Nat
    BY <2>1, FS_AddElement, FS_CardinalityType
  <2>3. SumFunctionOnSet(f, T \cup {x}) = SumFunctionOnSet(f, T) + f[x]
    BY <2>1, SumAdd
  <2>4. \A k \in Nat : k * c + c = (k + 1) * c
    OBVIOUS
  <2>5. SumFunctionOnSet(f, T) = Cardinality(T) * c /\ f[x] = c
    BY <1>2
  <2>6. SumFunctionOnSet(f, T \cup {x}) = Cardinality(T \cup {x}) * c
    BY <2>2, <2>3, <2>4, <2>5, Zenon
  <2> QED BY <2>6
<1> HIDE DEF G
<1>3. S \in G
  BY <1>1, <1>2, SetInduction, Zenon
<1> QED BY <1>3 DEF G

\* Squared distances from a point moved by d.
LEMMA SumShifted ==
  ASSUME NEW S, IsFiniteSet(S), NEW at \in [S -> Int], NEW m \in Int, NEW d \in Int
  PROVE  LET off  == [n \in S |-> (at[n] - m) * (at[n] - m)]
             off2 == [n \in S |-> (at[n] - (m + d)) * (at[n] - (m + d))]
         IN  SumFunctionOnSet(off2, S)
               = SumFunctionOnSet(off, S)
                   - (2 * d) * (SumFunctionOnSet(at, S) - Cardinality(S) * m)
                   + Cardinality(S) * (d * d)
<1> DEFINE off  == [n \in S |-> (at[n] - m) * (at[n] - m)]
           off2 == [n \in S |-> (at[n] - (m + d)) * (at[n] - (m + d))]
           Moved(T) == SumFunctionOnSet(off2, T)
               = SumFunctionOnSet(off, T)
                   - (2 * d) * (SumFunctionOnSet(at, T) - Cardinality(T) * m)
                   + Cardinality(T) * (d * d)
           G == {T \in SUBSET S : Moved(T)}
<1>a. \A n \in S : off[n] \in Int /\ off2[n] \in Int /\ at[n] \in Int
  OBVIOUS
<1>b. \A n \in S : off2[n] = off[n] - (2 * d) * (at[n] - m) + d * d
  OBVIOUS
<1> HIDE DEF off, off2
<1>1. {} \in G
  BY SumEmpty, FS_EmptySet
<1>2. ASSUME NEW T \in SUBSET S, NEW x \in S \ T, T \in G
      PROVE  T \cup {x} \in G
  <2>1. IsFiniteSet(T) /\ T \cup {x} \in SUBSET S
    BY FS_Subset
  <2>2. Cardinality(T \cup {x}) = Cardinality(T) + 1 /\ Cardinality(T) \in Nat
    BY <2>1, FS_AddElement, FS_CardinalityType
  <2>3. SumFunctionOnSet(off, T \cup {x}) = SumFunctionOnSet(off, T) + off[x]
    BY <2>1, <1>a, SumAdd
  <2>4. SumFunctionOnSet(off2, T \cup {x}) = SumFunctionOnSet(off2, T) + off2[x]
    BY <2>1, <1>a, SumAdd
  <2>5. SumFunctionOnSet(at, T \cup {x}) = SumFunctionOnSet(at, T) + at[x]
    BY <2>1, <1>a, SumAdd
  <2>6. /\ SumFunctionOnSet(off, T) \in Int
        /\ SumFunctionOnSet(off2, T) \in Int
        /\ SumFunctionOnSet(at, T) \in Int
    BY <2>1, <1>a, SumType
  <2>7. \A c \in Nat : \A o, o2, a, p, p2, b \in Int :
          (o2 = o - (2 * d) * (a - c * m) + c * (d * d) /\ p2 = p - (2 * d) * (b - m) + d * d)
            => o2 + p2 = (o + p) - (2 * d) * ((a + b) - (c + 1) * m) + (c + 1) * (d * d)
    OBVIOUS
  <2>8. Moved(T) /\ off2[x] = off[x] - (2 * d) * (at[x] - m) + d * d
        /\ off[x] \in Int /\ off2[x] \in Int /\ at[x] \in Int
    BY <1>2, <1>a, <1>b
  <2>9. Moved(T \cup {x})
    BY <2>2, <2>3, <2>4, <2>5, <2>6, <2>7, <2>8
  <2> QED BY <2>1, <2>9
<1>3. S \in G
  <2> HIDE DEF G
  <2> QED BY <1>1, <1>2, SetInduction, Zenon
<1> QED BY <1>3 DEF off, off2

--------------------------------------------------------------------------------
(***************************************************************************)
(* Labels: arrays sorted and without duplicates, compared as sets are.     *)
(***************************************************************************)

\* A finite set of integers has a greatest element.
LEMMA Greatest ==
  ASSUME NEW S \in SUBSET Int, IsFiniteSet(S), S # {}
  PROVE  \E x \in S : \A y \in S : y <= x
<1> DEFINE G == {T \in SUBSET S : T # {} => \E x \in T : \A y \in T : y <= x}
<1>1. {} \in G
  OBVIOUS
<1>2. ASSUME NEW T \in SUBSET S, NEW z \in S \ T, T \in G
      PROVE  T \cup {z} \in G
  <2>1. CASE T = {}
    BY <2>1
  <2>2. CASE T # {}
    <3>1. PICK x \in T : \A y \in T : y <= x
      BY <1>2, <2>2
    <3>2. CASE z <= x
      BY <3>1, <3>2
    <3>3. CASE ~(z <= x)
      BY <3>1, <3>3
    <3> QED BY <3>2, <3>3
  <2> QED BY <2>1, <2>2
<1> HIDE DEF G
<1>3. S \in G
  BY <1>1, <1>2, SetInduction, Zenon
<1> QED BY <1>3 DEF G

Sorted(s) == \A i, j \in DOMAIN s : i < j => s[i] < s[j]

\* Label sets as the code keeps them.
IsLabelSet(s) == s \in Seq(Int) /\ Sorted(s)

\* A finite set of integers can be put in order.
LEMMA SortedExists ==
  ASSUME NEW S \in SUBSET Int, IsFiniteSet(S)
  PROVE  \E s \in [1..Cardinality(S) -> S] : Sorted(s)
<1> DEFINE G == {T \in SUBSET S : \E s \in [1..Cardinality(T) -> T] : Sorted(s)}
<1>1. ASSUME NEW T \in SUBSET S, \A U \in SUBSET T : U # T => U \in G
      PROVE  T \in G
  <2>0. IsFiniteSet(T) /\ Cardinality(T) \in Nat
    BY FS_Subset, FS_CardinalityType
  <2>1. CASE T = {}
    <3>1. Cardinality(T) = 0
      BY <2>1, FS_EmptySet
    <3>2. [i \in 1..0 |-> 0] \in [1..Cardinality(T) -> T]
      BY <3>1
    <3>3. Sorted([i \in 1..0 |-> 0])
      BY DEF Sorted
    <3> QED BY <3>2, <3>3
  <2>2. CASE T # {}
    <3>1. PICK x \in T : \A y \in T : y <= x
      BY <2>0, <2>2, Greatest
    <3>2. T \ {x} \in G
      BY <1>1
    <3>3. PICK s \in [1..Cardinality(T \ {x}) -> T \ {x}] : Sorted(s)
      BY <3>2
    <3>4. Cardinality(T \ {x}) = Cardinality(T) - 1 /\ Cardinality(T) >= 1
      BY <2>0, <2>2, FS_RemoveElement, FS_EmptySet
    <3> DEFINE n == Cardinality(T)
               t == [i \in 1..n |-> IF i = n THEN x ELSE s[i]]
    <3>5. n \in Nat /\ n >= 1 /\ s \in [1..(n - 1) -> T \ {x}]
      BY <2>0, <3>4
    <3> HIDE DEF n
    <3>a. /\ x \in Int /\ t[n] = x /\ \A i \in 1..n : i = n \/ i \in 1..(n - 1)
          /\ \A i \in 1..(n - 1) : t[i] = s[i] /\ s[i] \in T \ {x} /\ s[i] \in Int
      <4>1. x \in Int /\ t[n] = x
        BY <3>5
      <4>2. \A i \in 1..n : i = n \/ i \in 1..(n - 1)
        BY <3>5
      <4>3. ASSUME NEW i \in 1..(n - 1) PROVE t[i] = s[i] /\ s[i] \in T \ {x} /\ s[i] \in Int
        <5>1. i \in 1..n /\ i # n
          BY <3>5
        <5>2. s[i] \in T \ {x}
          BY <3>5
        <5>3. t[i] = s[i]
          BY <5>1
        <5> QED BY <5>2, <5>3
      <4> HIDE DEF t
      <4> QED BY <4>1, <4>2, <4>3
    <3>6. t \in [1..n -> T]
      BY <3>a
    <3> HIDE DEF G
    <3>7. Sorted(t)
      <4> SUFFICES ASSUME NEW i \in 1..n, NEW j \in 1..n, i < j PROVE t[i] < t[j]
        BY <3>6 DEF Sorted
      <4>1. i \in 1..(n - 1)
        BY <3>5
      <4>2. CASE j = n
        <5>1. s[i] # x /\ s[i] <= x /\ s[i] \in Int
          BY <4>1, <3>1, <3>a
        <5>2. t[j] = x /\ t[i] = s[i]
          BY <4>1, <4>2, <3>a
        <5> QED BY <5>1, <5>2, <3>a
      <4>3. CASE j # n
        <5>1. j \in 1..(n - 1)
          BY <4>3, <3>a
        <5>2. s[i] < s[j]
          BY <4>1, <5>1, <3>3, <3>5 DEF Sorted
        <5> HIDE DEF t
        <5> QED BY <4>1, <5>1, <5>2, <3>a
      <4> QED BY <4>2, <4>3
    <3> QED BY <3>6, <3>7 DEF n, G
  <2> QED BY <2>1, <2>2
<1> HIDE DEF G
<1>2. S \in G
  BY <1>1, SubsetInduction, Zenon
<1> QED BY <1>2 DEF G

\* ToLabelSet loses nothing: it sorts.
LEMMA ToLabelSetSorts ==
  ASSUME NEW S \in SUBSET Int, IsFiniteSet(S)
  PROVE  IsLabelSet(ToLabelSet(S)) /\ ToSet(ToLabelSet(S)) = S
<1> DEFINE n == Cardinality(S)
           L == ToLabelSet(S)
<1>1. n \in Nat
  BY FS_CardinalityType
<1>2. L \in [1..n -> S] /\ \A i, j \in DOMAIN L : i < j => L[i] < L[j]
  <2>1. \E s \in [1..n -> S] : \A i, j \in DOMAIN s : i < j => s[i] < s[j]
    BY SortedExists DEF Sorted
  <2> QED BY <2>1, Zenon DEF ToLabelSet
<1> HIDE DEF L, n
<1>3. L \in Injection(1..n, S)
  <2>1. ASSUME NEW i \in 1..n, NEW j \in 1..n, L[i] = L[j] PROVE i = j
    <3>1. L[i] \in Int /\ L[j] \in Int /\ i \in DOMAIN L /\ j \in DOMAIN L
      BY <1>2
    <3>2. ~(i < j) /\ ~(j < i)
      BY <1>2, <2>1, <3>1
    <3> QED BY <3>2, <1>1
  <2> QED BY <2>1, <1>2 DEF Injection, IsInjective
<1>4. IsFiniteSet(1..n) /\ Cardinality(1..n) = n
  BY <1>1, FS_Interval
<1>5. L \in Surjection(1..n, S)
  BY <1>3, <1>4, FS_Injection DEF n
<1>6. ToSet(L) = S
  BY <1>2, <1>5 DEF ToSet, Surjection
<1>7. L \in Seq(Int)
  <2>1. L \in [1..n -> Int]
    BY <1>2
  <2> QED BY <1>1, <2>1, SeqDef
<1> QED BY <1>2, <1>6, <1>7 DEF L, IsLabelSet, Sorted

\* The elements of a sequence are a finite set.
LEMMA ToSetFinite ==
  ASSUME NEW S, NEW s \in Seq(S)
  PROVE  IsFiniteSet(ToSet(s)) /\ ToSet(s) \subseteq S
<1>1. s \in [1..Len(s) -> S] /\ Len(s) \in Nat
  BY LenProperties
<1>2. s \in Surjection(1..Len(s), ToSet(s))
  BY <1>1 DEF Surjection, ToSet
<1>3. IsFiniteSet(1..Len(s))
  BY <1>1, FS_Interval
<1> QED BY <1>1, <1>2, <1>3, FS_Surjection DEF ToSet

\* The labels of an array with NULLs.
LEMMA NonNullLabels ==
  ASSUME NEW array \in Seq(Int \cup {Null})
  PROVE  /\ IsLabelSet(ToLabelSet(NonNull(array)))
         /\ ToSet(ToLabelSet(NonNull(array))) = ToSet(array) \ {Null}
<1>1. IsFiniteSet(ToSet(array)) /\ ToSet(array) \subseteq Int \cup {Null}
  BY ToSetFinite
<1>2. IsFiniteSet(NonNull(array)) /\ NonNull(array) \in SUBSET Int
  BY <1>1, FS_Subset DEF NonNull
<1> QED BY <1>2, ToLabelSetSorts DEF NonNull

--------------------------------------------------------------------------------
OverlapWalks(W, a, b) ==
  W = [at \in (1..Len(a) + 1) \X (1..Len(b) + 1) |->
         LET i == at[1]
             j == at[2]
         IN  /\ i <= Len(a) /\ j <= Len(b)
             /\ \/ a[i] = b[j]
                \/ a[i] < b[j] /\ W[<<i + 1, j>>]
                \/ a[i] > b[j] /\ W[<<i, j + 1>>]]

Meet(a, b, i, j) == \E k \in i..Len(a), l \in j..Len(b) : a[k] = b[l]

\* LabelSet::overlaps, a walk over two sorted arrays, answers whether the two
\* sets share a label.
THEOREM OverlapsCorrect ==
  ASSUME NEW a, NEW b, IsLabelSet(a), IsLabelSet(b)
  PROVE  Overlaps(a, b) <=> ToSet(a) \cap ToSet(b) # {}
<1> DEFINE A == Len(a)
           B == Len(b)
           V == [at \in (1..A + 1) \X (1..B + 1) |-> Meet(a, b, at[1], at[2])]
<1>1. /\ A \in Nat /\ a \in [1..A -> Int] /\ DOMAIN a = 1..A
      /\ \A k, l \in 1..A : k < l => a[k] < a[l]
  BY LenProperties DEF IsLabelSet, Sorted
<1>2. /\ B \in Nat /\ b \in [1..B -> Int] /\ DOMAIN b = 1..B
      /\ \A k, l \in 1..B : k < l => b[k] < b[l]
  BY LenProperties DEF IsLabelSet, Sorted
<1> HIDE DEF A, B
<1>3. ASSUME NEW i \in 1..A + 1, NEW j \in 1..B + 1
      PROVE  Meet(a, b, i, j) <=>
               /\ i <= A /\ j <= B
               /\ \/ a[i] = b[j]
                  \/ a[i] < b[j] /\ Meet(a, b, i + 1, j)
                  \/ a[i] > b[j] /\ Meet(a, b, i, j + 1)
  <2> USE DEF Meet, A, B
  <2>1. CASE i = A + 1 \/ j = B + 1
    BY <2>1, <1>1, <1>2
  <2>2. CASE i <= A /\ j <= B
    <3>0. i \in 1..A /\ j \in 1..B /\ a[i] \in Int /\ b[j] \in Int
      BY <2>2, <1>1, <1>2
    <3>1. CASE a[i] = b[j]
      <4>1. i \in i..A /\ j \in j..B
        BY <2>2
      <4> QED BY <4>1, <2>2, <3>1
    <3>2. CASE a[i] < b[j]
      <4>1. ASSUME NEW k \in i..A, NEW l \in j..B, a[k] = b[l] PROVE k \in (i + 1)..A
        <5>1. b[j] <= b[l]
          BY <1>2, <3>0
        <5>2. k # i
          BY <5>1, <3>2, <4>1, <1>1, <1>2
        <5> QED BY <5>2
      <4>2. ASSUME NEW k \in (i + 1)..A PROVE k \in i..A
        OBVIOUS
      <4> QED BY <4>1, <4>2, <3>0, <3>2, <2>2
    <3>3. CASE a[i] > b[j]
      <4>1. ASSUME NEW k \in i..A, NEW l \in j..B, a[k] = b[l] PROVE l \in (j + 1)..B
        <5>1. a[i] <= a[k]
          BY <1>1, <3>0
        <5>2. l # j
          BY <5>1, <3>3, <4>1, <1>1, <1>2
        <5> QED BY <5>2
      <4>2. ASSUME NEW l \in (j + 1)..B PROVE l \in j..B
        OBVIOUS
      <4> QED BY <4>1, <4>2, <3>0, <3>3, <2>2
    <3> QED BY <3>0, <3>1, <3>2, <3>3
  <2> QED BY <2>1, <2>2, <1>1, <1>2
<1>4. OverlapWalks(V, a, b)
  <2>1. ASSUME NEW at \in (1..A + 1) \X (1..B + 1)
        PROVE  V[at] = (/\ at[1] <= A /\ at[2] <= B
                        /\ \/ a[at[1]] = b[at[2]]
                           \/ a[at[1]] < b[at[2]] /\ V[<<at[1] + 1, at[2]>>]
                           \/ a[at[1]] > b[at[2]] /\ V[<<at[1], at[2] + 1>>])
    <3>1. PICK i \in 1..A + 1, j \in 1..B + 1 : at = <<i, j>>
      OBVIOUS
    <3>2. V[at] = Meet(a, b, i, j) /\ at[1] = i /\ at[2] = j
      BY <3>1
    <3>a. \A p \in 1..A + 1, q \in 1..B + 1 : V[<<p, q>>] = Meet(a, b, p, q)
      OBVIOUS
    <3>b. i <= A /\ j <= B => i + 1 \in 1..A + 1 /\ j + 1 \in 1..B + 1
      BY <1>1, <1>2
    <3>3. i <= A /\ j <= B => /\ V[<<i + 1, j>>] = Meet(a, b, i + 1, j)
                              /\ V[<<i, j + 1>>] = Meet(a, b, i, j + 1)
      <4> HIDE DEF V
      <4> QED BY <3>a, <3>b
    <3>4. Meet(a, b, i, j) \in BOOLEAN
      BY DEF Meet
    <3> HIDE DEF V
    <3> QED BY <3>2, <3>3, <3>4, <1>3
  <2> HIDE DEF V
  <2>2. V = [at \in (1..A + 1) \X (1..B + 1) |-> V[at]]
    BY DEF V
  <2>3. V = [at \in (1..A + 1) \X (1..B + 1) |->
               /\ at[1] <= A /\ at[2] <= B
               /\ \/ a[at[1]] = b[at[2]]
                  \/ a[at[1]] < b[at[2]] /\ V[<<at[1] + 1, at[2]>>]
                  \/ a[at[1]] > b[at[2]] /\ V[<<at[1], at[2] + 1>>]]
    BY <2>1, <2>2
  <2> QED BY <2>3, Zenon DEF OverlapWalks, A, B
<1>5. ASSUME NEW W, OverlapWalks(W, a, b)
      PROVE  W[<<1, 1>>] <=> Meet(a, b, 1, 1)
  <2> DEFINE G == {n \in Nat : \A i \in 1..A + 1, j \in 1..B + 1 :
                     (A + 1 - i) + (B + 1 - j) = n => (W[<<i, j>>] <=> Meet(a, b, i, j))}
  <2>1. ASSUME NEW i \in 1..A + 1, NEW j \in 1..B + 1
        PROVE  W[<<i, j>>] <=>
                 /\ i <= A /\ j <= B
                 /\ \/ a[i] = b[j]
                    \/ a[i] < b[j] /\ W[<<i + 1, j>>]
                    \/ a[i] > b[j] /\ W[<<i, j + 1>>]
    <3>1. \A at \in (1..A + 1) \X (1..B + 1) :
            W[at] = (/\ at[1] <= A /\ at[2] <= B
                     /\ \/ a[at[1]] = b[at[2]]
                        \/ a[at[1]] < b[at[2]] /\ W[<<at[1] + 1, at[2]>>]
                        \/ a[at[1]] > b[at[2]] /\ W[<<at[1], at[2] + 1>>])
      BY <1>5, Zenon DEF OverlapWalks, A, B
    <3>2. <<i, j>> \in (1..A + 1) \X (1..B + 1) /\ <<i, j>>[1] = i /\ <<i, j>>[2] = j
      OBVIOUS
    <3> QED BY <3>1, <3>2
  <2>2. 0 \in G
    <3>1. ASSUME NEW i \in 1..A + 1, NEW j \in 1..B + 1, (A + 1 - i) + (B + 1 - j) = 0
          PROVE  ~(i <= A)
      BY <3>1, <1>1, <1>2
    <3> QED BY <3>1, <2>1, <1>3
  <2>3. ASSUME NEW n \in Nat, n \in G PROVE n + 1 \in G
    <3> SUFFICES ASSUME NEW i \in 1..A + 1, NEW j \in 1..B + 1,
                        (A + 1 - i) + (B + 1 - j) = n + 1
                 PROVE  W[<<i, j>>] <=> Meet(a, b, i, j)
      OBVIOUS
    <3>1. CASE i <= A /\ j <= B
      <4>1. /\ i + 1 \in 1..A + 1 /\ (A + 1 - (i + 1)) + (B + 1 - j) = n
            /\ j + 1 \in 1..B + 1 /\ (A + 1 - i) + (B + 1 - (j + 1)) = n
        BY <3>1, <1>1, <1>2
      <4>2. /\ W[<<i + 1, j>>] <=> Meet(a, b, i + 1, j)
            /\ W[<<i, j + 1>>] <=> Meet(a, b, i, j + 1)
        BY <4>1, <2>3
      <4> HIDE DEF G
      <4> QED BY <4>2, <2>1, <1>3
    <3>2. CASE ~(i <= A /\ j <= B)
      BY <3>2, <2>1, <1>3
    <3> QED BY <3>1, <3>2
  <2>4. A + B \in G
    <3>1. A + B \in Nat
      BY <1>1, <1>2
    <3> HIDE DEF G
    <3> QED BY <2>2, <2>3, <3>1, NaturalInduction
  <2>5. 1 \in 1..A + 1 /\ 1 \in 1..B + 1 /\ (A + 1 - 1) + (B + 1 - 1) = A + B
    BY <1>1, <1>2
  <2> QED BY <2>4, <2>5
<1>6. Overlaps(a, b) = (CHOOSE W : OverlapWalks(W, a, b))[<<1, 1>>]
  BY Zenon DEF Overlaps, OverlapWalks
<1>7. Overlaps(a, b) <=> Meet(a, b, 1, 1)
  <2>1. OverlapWalks(CHOOSE W : OverlapWalks(W, a, b), a, b)
    BY <1>4, Zenon
  <2> QED BY <2>1, <1>5, <1>6, Zenon
<1>8. Meet(a, b, 1, 1) <=> ToSet(a) \cap ToSet(b) # {}
  BY <1>1, <1>2 DEF Meet, ToSet, A, B
<1> QED BY <1>7, <1>8

--------------------------------------------------------------------------------
\* A set of natural numbers has a least element.
LEMMA Least ==
  ASSUME NEW T \in SUBSET Nat, T # {}
  PROVE  \E x \in T : \A y \in T : x <= y
<1>1. PICK x \in T : \A y \in T : ~(<<y, x>> \in OpToRel(<, Nat))
  BY WFMin, NatLessThanWellFounded
<1>2. ASSUME NEW y \in T PROVE x <= y
  <2>1. ~(y < x) /\ x \in Nat /\ y \in Nat
    BY <1>1 DEF OpToRel
  <2> QED BY <2>1
<1> QED BY <1>2

\* contains_intersection moves on to the first label that is not less.
LEMMA NextPlaceCorrect ==
  ASSUME NEW c, NEW k \in Nat \ {0}, NEW x, Len(c) \in Nat, k <= Len(c) + 1,
         \A l \in 1..Len(c) : c[l] \in Int, x \in Int
  PROVE  LET l == NextPlace(c, k, x)
         IN  /\ l \in k..Len(c) + 1
             /\ \A m \in k..(l - 1) : c[m] < x
             /\ l <= Len(c) => c[l] >= x
<1> DEFINE T == {l \in k..Len(c) + 1 : l <= Len(c) => c[l] >= x}
<1>1. T \in SUBSET Nat /\ Len(c) + 1 \in T
  OBVIOUS
<1>2. PICK l \in T : \A y \in T : l <= y
  BY <1>1, Least
<1>3. ASSUME NEW m \in k..(l - 1) PROVE c[m] < x
  <2>1. m \notin T /\ m \in k..Len(c) + 1 /\ m \in 1..Len(c)
    BY <1>2
  <2>2. ~(c[m] >= x) /\ c[m] \in Int
    BY <2>1
  <2> QED BY <2>2
<1>4. l \in k..Len(c) + 1 /\ (l <= Len(c) => c[l] >= x)
  BY <1>2
<1> QED BY <1>3, <1>4, Zenon DEF NextPlace

ContainsWalks(W, c, a, b) ==
  W = [at \in (1..Len(a) + 1) \X (1..Len(b) + 1) \X (1..Len(c) + 1) |->
         LET i == at[1]
             j == at[2]
             next == NextPlace(c, at[3], a[i])
         IN  (i <= Len(a) /\ j <= Len(b)) =>
               \/ a[i] < b[j] /\ W[<<i + 1, j, at[3]>>]
               \/ a[i] > b[j] /\ W[<<i, j + 1, at[3]>>]
               \/ /\ a[i] = b[j]
                  /\ next <= Len(c) /\ c[next] = a[i]
                  /\ W[<<i + 1, j + 1, next>>]]

Covered(c, a, b, i, j, k) ==
  \A x \in i..Len(a), y \in j..Len(b) : a[x] = b[y] => \E l \in k..Len(c) : c[l] = a[x]

\* LabelSet::contains_intersection, a walk over three sorted arrays, answers
\* whether all labels that two sets share are in the third one.
THEOREM ContainsIntersectionCorrect ==
  ASSUME NEW a, NEW b, NEW c, IsLabelSet(a), IsLabelSet(b), IsLabelSet(c)
  PROVE  ContainsIntersection(c, a, b) <=> ToSet(a) \cap ToSet(b) \subseteq ToSet(c)
<1> DEFINE A == Len(a)
           B == Len(b)
           C == Len(c)
           Places == (1..A + 1) \X (1..B + 1) \X (1..C + 1)
           V == [at \in Places |-> Covered(c, a, b, at[1], at[2], at[3])]
           Body(W, i, j, k) ==
             (i <= A /\ j <= B) =>
               \/ a[i] < b[j] /\ W[<<i + 1, j, k>>]
               \/ a[i] > b[j] /\ W[<<i, j + 1, k>>]
               \/ /\ a[i] = b[j]
                  /\ NextPlace(c, k, a[i]) <= C /\ c[NextPlace(c, k, a[i])] = a[i]
                  /\ W[<<i + 1, j + 1, NextPlace(c, k, a[i])>>]
<1>1. /\ A \in Nat /\ a \in [1..A -> Int] /\ DOMAIN a = 1..A
      /\ \A k, l \in 1..A : k < l => a[k] < a[l]
  BY LenProperties DEF IsLabelSet, Sorted
<1>2. /\ B \in Nat /\ b \in [1..B -> Int] /\ DOMAIN b = 1..B
      /\ \A k, l \in 1..B : k < l => b[k] < b[l]
  BY LenProperties DEF IsLabelSet, Sorted
<1>3. /\ C \in Nat /\ c \in [1..C -> Int] /\ DOMAIN c = 1..C
      /\ \A k, l \in 1..C : k < l => c[k] < c[l]
  BY LenProperties DEF IsLabelSet, Sorted
<1>4. ASSUME NEW k \in 1..C + 1, NEW i \in 1..A
      PROVE  /\ NextPlace(c, k, a[i]) \in k..C + 1 /\ NextPlace(c, k, a[i]) \in 1..C + 1
             /\ \A m \in k..(NextPlace(c, k, a[i]) - 1) : c[m] < a[i]
             /\ NextPlace(c, k, a[i]) <= C => c[NextPlace(c, k, a[i])] >= a[i]
  <2>1. k \in Nat \ {0} /\ a[i] \in Int /\ \A l \in 1..C : c[l] \in Int
    BY <1>1, <1>3
  <2>2. /\ NextPlace(c, k, a[i]) \in k..C + 1
        /\ \A m \in k..(NextPlace(c, k, a[i]) - 1) : c[m] < a[i]
        /\ NextPlace(c, k, a[i]) <= C => c[NextPlace(c, k, a[i])] >= a[i]
    BY <2>1, <1>3, NextPlaceCorrect
  <2> HIDE DEF C
  <2> QED BY <2>2, <1>3
<1> HIDE DEF A, B, C
\* A match at the place the walk has reached.
<1>5. ASSUME NEW i \in 1..A, NEW j \in 1..B, NEW k \in 1..C + 1, a[i] = b[j]
      PROVE  LET next == NextPlace(c, k, a[i])
             IN  Covered(c, a, b, i, j, k) <=>
                   next <= C /\ c[next] = a[i] /\ Covered(c, a, b, i + 1, j + 1, next)
  <2> DEFINE next == NextPlace(c, k, a[i])
  <2>0. /\ next \in k..C + 1 /\ next \in 1..C + 1
        /\ \A m \in k..(next - 1) : c[m] < a[i]
        /\ next <= C => c[next] >= a[i]
    BY <1>4
  <2> HIDE DEF next
  <2>1. ASSUME Covered(c, a, b, i, j, k)
        PROVE  next <= C /\ c[next] = a[i] /\ Covered(c, a, b, i + 1, j + 1, next)
    <3>1. i \in i..A /\ j \in j..B
      OBVIOUS
    <3>2. PICK l \in k..C : c[l] = a[i]
      BY <3>1, <2>1, <1>5 DEF Covered, A, B, C
    <3>3. l \in 1..C /\ a[i] \in Int /\ c[l] \in Int
      BY <3>2, <1>1, <1>3
    <3>4. l \notin k..(next - 1)
      BY <2>0, <3>2, <3>3
    <3>5. next <= l /\ next \in 1..C
      BY <2>0, <3>3, <3>4, <1>3
    <3>6. c[next] = a[i]
      <4>1. c[next] >= a[i] /\ c[next] \in Int
        BY <3>5, <2>0, <1>3
      <4>2. next = l \/ c[next] < c[l]
        BY <3>3, <3>5, <1>3
      <4> QED BY <4>1, <4>2, <3>2, <3>3
    <3>7. ASSUME NEW x \in (i + 1)..A, NEW y \in (j + 1)..B, a[x] = b[y]
          PROVE  \E m \in next..C : c[m] = a[x]
      <4>1. x \in i..A /\ y \in j..B
        OBVIOUS
      <4>2. PICK m \in k..C : c[m] = a[x]
        BY <4>1, <2>1, <3>7 DEF Covered, A, B, C
      <4>3. a[i] < a[x] /\ a[x] \in Int
        BY <1>1
      <4>4. m \notin k..(next - 1)
        <5>1. m \in k..(next - 1) => c[m] < a[i]
          BY <2>0
        <5> QED BY <5>1, <4>2, <4>3, <3>3
      <4> QED BY <4>2, <4>4, <2>0, <1>3
    <3> QED BY <3>5, <3>6, <3>7 DEF Covered, A, B, C
  <2>2. ASSUME next <= C, c[next] = a[i], Covered(c, a, b, i + 1, j + 1, next)
        PROVE  Covered(c, a, b, i, j, k)
    <3> SUFFICES ASSUME NEW x \in i..A, NEW y \in j..B, a[x] = b[y]
                 PROVE  \E l \in k..C : c[l] = a[x]
      BY DEF Covered, A, B, C
    <3>0. /\ next \in k..C /\ x \in 1..A /\ y \in 1..B
      BY <2>0, <2>2, <1>3
    <3>1. CASE x = i
      BY <3>0, <3>1, <2>2
    <3>2. CASE x # i
      <4>1. a[i] < a[x] /\ a[i] \in Int /\ a[x] \in Int
        BY <3>0, <3>2, <1>1
      <4>2. y # j
        BY <4>1, <1>5
      <4>3. x \in (i + 1)..A /\ y \in (j + 1)..B
        BY <3>2, <4>2
      <4>4. PICK l \in next..C : c[l] = a[x]
        BY <4>3, <2>2 DEF Covered, A, B, C
      <4>5. l \in k..C
        BY <2>0, <1>3
      <4> QED BY <4>4, <4>5
    <3> QED BY <3>1, <3>2
  <2> QED BY <2>1, <2>2 DEF next
<1>6. ASSUME NEW i \in 1..A + 1, NEW j \in 1..B + 1, NEW k \in 1..C + 1
      PROVE  Covered(c, a, b, i, j, k) <=>
               ((i <= A /\ j <= B) =>
                 \/ a[i] < b[j] /\ Covered(c, a, b, i + 1, j, k)
                 \/ a[i] > b[j] /\ Covered(c, a, b, i, j + 1, k)
                 \/ /\ a[i] = b[j]
                    /\ NextPlace(c, k, a[i]) <= C /\ c[NextPlace(c, k, a[i])] = a[i]
                    /\ Covered(c, a, b, i + 1, j + 1, NextPlace(c, k, a[i])))
  <2>1. CASE i = A + 1 \/ j = B + 1
    BY <2>1, <1>1, <1>2 DEF Covered, A, B
  <2>2. CASE i <= A /\ j <= B
    <3>0. i \in 1..A /\ j \in 1..B /\ a[i] \in Int /\ b[j] \in Int
      BY <2>2, <1>1, <1>2
    <3>1. CASE a[i] = b[j]
      BY <3>0, <3>1, <1>5
    <3>2. CASE a[i] < b[j]
      <4>1. ASSUME NEW x \in i..A, NEW y \in j..B, a[x] = b[y] PROVE x \in (i + 1)..A
        <5>1. b[j] <= b[y]
          BY <1>2, <3>0
        <5>2. x # i
          BY <5>1, <3>2, <4>1, <1>1, <1>2
        <5> QED BY <5>2
      <4>2. ASSUME NEW x \in (i + 1)..A PROVE x \in i..A
        OBVIOUS
      <4>3. Covered(c, a, b, i, j, k) <=> Covered(c, a, b, i + 1, j, k)
        BY <4>1, <4>2 DEF Covered, A, B
      <4> QED BY <4>3, <3>0, <3>2
    <3>3. CASE a[i] > b[j]
      <4>1. ASSUME NEW x \in i..A, NEW y \in j..B, a[x] = b[y] PROVE y \in (j + 1)..B
        <5>1. a[i] <= a[x]
          BY <1>1, <3>0
        <5>2. y # j
          BY <5>1, <3>3, <4>1, <1>1, <1>2
        <5> QED BY <5>2
      <4>2. ASSUME NEW y \in (j + 1)..B PROVE y \in j..B
        OBVIOUS
      <4>3. Covered(c, a, b, i, j, k) <=> Covered(c, a, b, i, j + 1, k)
        BY <4>1, <4>2 DEF Covered, A, B
      <4> QED BY <4>3, <3>0, <3>3
    <3> QED BY <3>0, <3>1, <3>2, <3>3
  <2> QED BY <2>1, <2>2, <1>1, <1>2
<1>7. \A i \in 1..A + 1, j \in 1..B + 1, k \in 1..C + 1 : V[<<i, j, k>>] = Covered(c, a, b, i, j, k)
  OBVIOUS
\* What the walk asks next has its place among the others.
<1>8. ASSUME NEW i \in 1..A + 1, NEW j \in 1..B + 1, NEW k \in 1..C + 1, i <= A, j <= B
      PROVE  /\ i \in 1..A /\ i + 1 \in 1..A + 1 /\ j + 1 \in 1..B + 1
             /\ NextPlace(c, k, a[i]) \in 1..C + 1
  BY <1>1, <1>2, <1>4, <1>8
<1>9. ContainsWalks(V, c, a, b)
  <2>1. ASSUME NEW at \in Places PROVE V[at] = Body(V, at[1], at[2], at[3])
    <3>1. PICK i \in 1..A + 1, j \in 1..B + 1, k \in 1..C + 1 : at = <<i, j, k>>
      OBVIOUS
    <3>2. V[at] = Covered(c, a, b, i, j, k) /\ at[1] = i /\ at[2] = j /\ at[3] = k
      BY <3>1, <1>7
    <3>3. i <= A /\ j <= B =>
            /\ V[<<i + 1, j, k>>] = Covered(c, a, b, i + 1, j, k)
            /\ V[<<i, j + 1, k>>] = Covered(c, a, b, i, j + 1, k)
            /\ V[<<i + 1, j + 1, NextPlace(c, k, a[i])>>]
                 = Covered(c, a, b, i + 1, j + 1, NextPlace(c, k, a[i]))
      <4> HIDE DEF V
      <4> QED BY <1>7, <1>8
    <3>4. Covered(c, a, b, i, j, k) \in BOOLEAN
      BY DEF Covered
    <3> HIDE DEF V
    <3> QED BY <3>2, <3>3, <3>4, <1>6
  <2> HIDE DEF V, Body
  <2>2. V = [at \in Places |-> V[at]]
    BY DEF V
  <2>3. V = [at \in Places |-> Body(V, at[1], at[2], at[3])]
    BY <2>1, <2>2
  <2> QED BY <2>3, Zenon DEF ContainsWalks, A, B, C, Body
<1>10. ASSUME NEW W, ContainsWalks(W, c, a, b)
       PROVE  W[<<1, 1, 1>>] <=> Covered(c, a, b, 1, 1, 1)
  <2> DEFINE G == {n \in Nat : \A i \in 1..A + 1, j \in 1..B + 1, k \in 1..C + 1 :
                     (A + 1 - i) + (B + 1 - j) <= n => (W[<<i, j, k>>] <=> Covered(c, a, b, i, j, k))}
  <2>1. ASSUME NEW i \in 1..A + 1, NEW j \in 1..B + 1, NEW k \in 1..C + 1
        PROVE  W[<<i, j, k>>] <=> Body(W, i, j, k)
    <3>1. \A at \in Places : W[at] = Body(W, at[1], at[2], at[3])
      BY <1>10, Zenon DEF ContainsWalks, A, B, C
    <3>2. <<i, j, k>> \in Places /\ <<i, j, k>>[1] = i /\ <<i, j, k>>[2] = j /\ <<i, j, k>>[3] = k
      OBVIOUS
    <3> HIDE DEF Body, Places
    <3>3. W[<<i, j, k>>] = Body(W, <<i, j, k>>[1], <<i, j, k>>[2], <<i, j, k>>[3])
      BY <3>1, <3>2, Zenon
    <3> QED BY <3>2, <3>3
  <2>2. 0 \in G
    <3>1. ASSUME NEW i \in 1..A + 1, NEW j \in 1..B + 1, (A + 1 - i) + (B + 1 - j) <= 0
          PROVE  ~(i <= A)
      BY <3>1, <1>1, <1>2
    <3> QED BY <3>1, <2>1, <1>6
  <2>3. ASSUME NEW n \in Nat, n \in G PROVE n + 1 \in G
    <3> SUFFICES ASSUME NEW i \in 1..A + 1, NEW j \in 1..B + 1, NEW k \in 1..C + 1,
                        (A + 1 - i) + (B + 1 - j) <= n + 1
                 PROVE  W[<<i, j, k>>] <=> Covered(c, a, b, i, j, k)
      OBVIOUS
    <3>1. CASE i <= A /\ j <= B
      <4>1. /\ i + 1 \in 1..A + 1 /\ j + 1 \in 1..B + 1 /\ NextPlace(c, k, a[i]) \in 1..C + 1
        BY <3>1, <1>8
      <4>2. /\ (A + 1 - (i + 1)) + (B + 1 - j) <= n
            /\ (A + 1 - i) + (B + 1 - (j + 1)) <= n
            /\ (A + 1 - (i + 1)) + (B + 1 - (j + 1)) <= n
        BY <1>1, <1>2
      <4>3. /\ W[<<i + 1, j, k>>] <=> Covered(c, a, b, i + 1, j, k)
            /\ W[<<i, j + 1, k>>] <=> Covered(c, a, b, i, j + 1, k)
            /\ W[<<i + 1, j + 1, NextPlace(c, k, a[i])>>]
                 <=> Covered(c, a, b, i + 1, j + 1, NextPlace(c, k, a[i]))
        BY <4>1, <4>2, <2>3
      <4> HIDE DEF G
      <4> QED BY <4>3, <2>1, <1>6
    <3>2. CASE ~(i <= A /\ j <= B)
      BY <3>2, <2>1, <1>6
    <3> QED BY <3>1, <3>2
  <2>4. A + B \in G
    <3>1. A + B \in Nat
      BY <1>1, <1>2
    <3> HIDE DEF G
    <3> QED BY <2>2, <2>3, <3>1, NaturalInduction
  <2>5. 1 \in 1..A + 1 /\ 1 \in 1..B + 1 /\ 1 \in 1..C + 1 /\ (A + 1 - 1) + (B + 1 - 1) <= A + B
    BY <1>1, <1>2, <1>3
  <2> QED BY <2>4, <2>5
<1>11. ContainsIntersection(c, a, b) = (CHOOSE W : ContainsWalks(W, c, a, b))[<<1, 1, 1>>]
  BY Zenon DEF ContainsIntersection, ContainsWalks
<1>12. ContainsIntersection(c, a, b) <=> Covered(c, a, b, 1, 1, 1)
  <2>1. ContainsWalks(CHOOSE W : ContainsWalks(W, c, a, b), c, a, b)
    BY <1>9, Zenon
  <2> QED BY <2>1, <1>10, <1>11, Zenon
<1>13. Covered(c, a, b, 1, 1, 1) <=> ToSet(a) \cap ToSet(b) \subseteq ToSet(c)
  BY <1>1, <1>2, <1>3 DEF Covered, ToSet, A, B, C
<1> QED BY <1>12, <1>13

--------------------------------------------------------------------------------
(***************************************************************************)
(* The LRU cache, for entries of any set with one entry for each key.      *)
(***************************************************************************)

\* No key twice.
DistinctKeys(s) == \A i, j \in 1..Len(s) : s[i].key = s[j].key => i = j

\* A cache that holds entries of E alone.
Counters == [inserts : Nat, evictions : Nat]

Holds(c, E) ==
  /\ c \in [cap : Nat \ {0}, entries : Seq(E), stats : Counters]
  /\ DistinctKeys(c.entries)
  /\ Len(c.entries) <= c.cap
  /\ Len(c.entries) = c.stats.inserts - c.stats.evictions

OneEntryPerKey(E) == \A e, f \in E : e.key = f.key => e = f

\* A new cache is empty.
LEMMA NewLruHolds ==
  ASSUME NEW cap \in Nat \ {0}, NEW E
  PROVE  Holds(NewLru(cap), E)
<1>1. <<>> \in Seq(E) /\ Len(<<>>) = 0
  BY EmptySeq
<1> QED BY <1>1 DEF Holds, NewLru, NoStats, DistinctKeys, Counters

\* A cache may hold more than it does.
LEMMA HoldsMore ==
  ASSUME NEW c, NEW E, NEW F, Holds(c, E), E \subseteq F
  PROVE  Holds(c, F)
BY SeqMonotonic DEF Holds

\* The place of a key is that of its entry.
LEMMA LruPlaceOf ==
  ASSUME NEW c, NEW E, Holds(c, E), NEW k \in LruKeys(c)
  PROVE  LruPlace(c, k) \in 1..Len(c.entries) /\ c.entries[LruPlace(c, k)].key = k
<1>1. DOMAIN c.entries = 1..Len(c.entries)
  BY LenProperties DEF Holds
<1>2. \E i \in DOMAIN c.entries : c.entries[i].key = k
  BY DEF LruKeys
<1>3. LruPlace(c, k) \in DOMAIN c.entries /\ c.entries[LruPlace(c, k)].key = k
  BY <1>2, Zenon DEF LruPlace
<1> QED BY <1>1, <1>3

\* The value of a key is the one that the entries have for it.
LEMMA LruValueHeld ==
  ASSUME NEW c, NEW E, Holds(c, E), OneEntryPerKey(E), NEW k \in LruKeys(c),
         NEW v, [key |-> k, value |-> v] \in E
  PROVE  LruValue(c, k) = v
<1> DEFINE e == c.entries[LruPlace(c, k)]
<1>1. e \in E /\ e.key = k
  BY LruPlaceOf, ElementOfSeq DEF Holds
<1>2. e = [key |-> k, value |-> v]
  BY <1>1 DEF OneEntryPerKey
<1> QED BY <1>2 DEF LruValue

\* An entry with a new key goes to the front.
LEMMA PushedFront ==
  ASSUME NEW E, NEW s \in Seq(E), DistinctKeys(s), NEW e \in E,
         \A i \in 1..Len(s) : s[i].key # e.key
  PROVE  /\ <<e>> \o s \in Seq(E) /\ DistinctKeys(<<e>> \o s)
         /\ Len(<<e>> \o s) = Len(s) + 1
         /\ (<<e>> \o s)[1] = e
<1>1. <<e>> \in Seq(E) /\ Len(<<e>>) = 1 /\ <<e>>[1] = e /\ Len(s) \in Nat
  BY LenProperties
<1> DEFINE t == <<e>> \o s
<1>2. /\ t \in Seq(E) /\ Len(t) = Len(s) + 1
      /\ \A i \in 1..Len(s) + 1 : t[i] = IF i = 1 THEN e ELSE s[i - 1]
  <2>1. /\ t \in Seq(E) /\ Len(t) = Len(<<e>>) + Len(s)
        /\ \A i \in 1..Len(<<e>>) + Len(s) : t[i] = IF i <= Len(<<e>>) THEN <<e>>[i] ELSE s[i - Len(<<e>>)]
    BY <1>1, ConcatProperties, Zenon
  <2> HIDE DEF t
  <2> QED BY <1>1, <2>1
<1> HIDE DEF t
<1>3. ASSUME NEW i \in 1..Len(t), NEW j \in 1..Len(t), t[i].key = t[j].key
      PROVE  i = j
  <2>1. \A m \in 1..Len(t) : m = 1 \/ (m - 1 \in 1..Len(s) /\ t[m] = s[m - 1])
    BY <1>1, <1>2
  <2>2. t[1] = e
    BY <1>1, <1>2
  <2>3. CASE i = 1 \/ j = 1
    BY <2>1, <2>2, <2>3, <1>3
  <2>4. CASE i # 1 /\ j # 1
    <3>1. s[i - 1].key = s[j - 1].key /\ i - 1 \in 1..Len(s) /\ j - 1 \in 1..Len(s)
      BY <2>1, <2>4, <1>3
    <3>2. i - 1 = j - 1
      BY <3>1 DEF DistinctKeys
    <3> QED BY <3>2
  <2> QED BY <2>3, <2>4
<1>4. t[1] = e
  BY <1>1, <1>2
<1> QED BY <1>2, <1>3, <1>4 DEF DistinctKeys, t

\* An entry is taken out, and its key with it.
LEMMA RemovedAt ==
  ASSUME NEW E, NEW s \in Seq(E), DistinctKeys(s), NEW p \in 1..Len(s)
  PROVE  LET t == RemoveAt(s, p)
         IN  /\ t \in Seq(E) /\ DistinctKeys(t) /\ Len(t) = Len(s) - 1
             /\ \A i \in 1..Len(t) : t[i].key # s[p].key
<1> DEFINE u == SubSeq(s, 1, p - 1)
           w == SubSeq(s, p + 1, Len(s))
           t == u \o w
           n == Len(s)
<1>1. n \in Nat /\ \A i \in 1..n : s[i] \in E
  BY LenProperties, ElementOfSeq
<1>2. u \in Seq(E) /\ Len(u) = p - 1 /\ \A i \in 1..(p - 1) : u[i] = s[i]
  BY <1>1, SubSeqProperties
<1>3. w \in Seq(E) /\ Len(w) = n - p /\ \A i \in 1..(n - p) : w[i] = s[p + i]
  <2>1. \A i \in (p + 1)..n : s[i] \in E
    BY <1>1
  <2>2. /\ w \in Seq(E)
        /\ Len(w) = IF p + 1 <= n THEN n - (p + 1) + 1 ELSE 0
        /\ \A i \in 1..(n - (p + 1) + 1) : w[i] = s[(p + 1) + i - 1]
    BY <1>1, <2>1, SubSeqProperties
  <2> HIDE DEF w
  <2>3. \A i \in 1..(n - p) : (p + 1) + i - 1 = p + i
    BY <1>1
  <2> QED BY <1>1, <2>2, <2>3
<1> HIDE DEF u, w, n
<1>4. /\ t \in Seq(E) /\ Len(t) = n - 1
      /\ \A i \in 1..(n - 1) : t[i] = IF i < p THEN s[i] ELSE s[i + 1]
  <2>1. /\ t \in Seq(E) /\ Len(t) = Len(u) + Len(w)
        /\ \A i \in 1..Len(u) + Len(w) : t[i] = IF i <= Len(u) THEN u[i] ELSE w[i - Len(u)]
    BY <1>2, <1>3, ConcatProperties, Zenon
  <2> HIDE DEF t
  <2>2. ASSUME NEW i \in 1..(n - 1) PROVE t[i] = IF i < p THEN s[i] ELSE s[i + 1]
    <3>1. CASE i < p
      BY <3>1, <2>1, <1>1, <1>2, <1>3
    <3>2. CASE ~(i < p)
      <4>1. i - Len(u) \in 1..(n - p) /\ p + (i - Len(u)) = i + 1 /\ ~(i <= Len(u)) /\ i \in 1..Len(u) + Len(w)
        BY <3>2, <1>1, <1>2, <1>3
      <4>2. t[i] = w[i - Len(u)] /\ w[i - Len(u)] = s[i + 1]
        BY <4>1, <2>1, <1>3
      <4> QED BY <4>2, <3>2
    <3> QED BY <3>1, <3>2
  <2> QED BY <1>1, <1>2, <1>3, <2>1, <2>2
<1> HIDE DEF t
\* Where an element of t comes from.
<1> DEFINE from(i) == IF i < p THEN i ELSE i + 1
<1>5. \A i \in 1..(n - 1) : from(i) \in 1..n /\ from(i) # p /\ t[i] = s[from(i)]
  BY <1>1, <1>4 DEF n
<1>6. \A i, j \in 1..(n - 1) : from(i) = from(j) => i = j
  BY <1>1 DEF n
<1> HIDE DEF from
<1>7. DistinctKeys(t) /\ \A i \in 1..Len(t) : t[i].key # s[p].key
  BY <1>4, <1>5, <1>6 DEF DistinctKeys, n
<1>8. t = RemoveAt(s, p)
  BY DEF RemoveAt, t, u, w
<1> QED BY <1>4, <1>7, <1>8, Zenon DEF n

\* A value asked for or given moves to the front, and nothing else changes but
\* for the entry that a full cache forgets.
LEMMA RecentHolds ==
  ASSUME NEW c, NEW E, Holds(c, E), NEW k, NEW v, [key |-> k, value |-> v] \in E
  PROVE  LET r == Recent(c, k, v)
         IN  /\ r \in Seq(E) /\ DistinctKeys(r)
             /\ r[1] = [key |-> k, value |-> v] /\ 1 \in 1..Len(r)
             /\ Len(r) = IF k \in LruKeys(c) \/ LruFull(c) THEN Len(c.entries) ELSE Len(c.entries) + 1
<1> DEFINE s == c.entries
           e == [key |-> k, value |-> v]
           others == CASE k \in LruKeys(c) -> RemoveAt(s, LruPlace(c, k))
                       [] k \notin LruKeys(c) /\ LruFull(c) -> Front(s)
                       [] OTHER -> s
<1>1. s \in Seq(E) /\ DistinctKeys(s) /\ Len(s) \in Nat /\ DOMAIN s = 1..Len(s)
  BY LenProperties DEF Holds
<1>2. k \notin LruKeys(c) => \A i \in 1..Len(s) : s[i].key # e.key
  BY <1>1 DEF LruKeys
<1>3. /\ others \in Seq(E) /\ DistinctKeys(others)
      /\ \A i \in 1..Len(others) : others[i].key # e.key
      /\ Len(others) = IF k \in LruKeys(c) \/ LruFull(c) THEN Len(s) - 1 ELSE Len(s)
  <2>1. CASE k \in LruKeys(c)
    <3>1. others = RemoveAt(s, LruPlace(c, k))
      BY <2>1
    <3>2. LruPlace(c, k) \in 1..Len(s) /\ s[LruPlace(c, k)].key = e.key
      BY <2>1, LruPlaceOf
    <3> HIDE DEF others, s
    <3>3. /\ RemoveAt(s, LruPlace(c, k)) \in Seq(E) /\ DistinctKeys(RemoveAt(s, LruPlace(c, k)))
          /\ Len(RemoveAt(s, LruPlace(c, k))) = Len(s) - 1
          /\ \A i \in 1..Len(RemoveAt(s, LruPlace(c, k))) :
               RemoveAt(s, LruPlace(c, k))[i].key # s[LruPlace(c, k)].key
      BY <1>1, <3>2, RemovedAt
    <3> HIDE DEF e
    <3> QED BY <2>1, <3>1, <3>2, <3>3, Zenon
  <2>2. CASE k \notin LruKeys(c) /\ LruFull(c)
    <3>1. others = Front(s)
      BY <2>2
    <3>2. Len(s) >= 1
      BY <1>1, <2>2 DEF LruFull, Holds
    <3> HIDE DEF others
    <3>3. /\ Front(s) \in Seq(E) /\ Len(Front(s)) = Len(s) - 1
          /\ \A i \in 1..(Len(s) - 1) : Front(s)[i] = s[i]
      <4>1. \A i \in 1..(Len(s) - 1) : s[i] \in E
        BY <1>1, ElementOfSeq
      <4>2. /\ Front(s) \in Seq(E)
            /\ Len(Front(s)) = IF 1 <= Len(s) - 1 THEN (Len(s) - 1) - 1 + 1 ELSE 0
            /\ \A i \in 1..((Len(s) - 1) - 1 + 1) : Front(s)[i] = s[1 + i - 1]
        BY <1>1, <4>1, SubSeqProperties DEF Front
      <4>3. /\ \A i \in 1..(Len(s) - 1) : 1 + i - 1 = i
            /\ (Len(s) - 1) - 1 + 1 = Len(s) - 1
            /\ 1 <= Len(s) - 1 \/ Len(s) - 1 = 0
        <5> HIDE DEF s
        <5> QED BY <1>1, <3>2
      <4> DEFINE m == Len(s) - 1
      <4> HIDE DEF s
      <4>4. m \in Int
        BY <1>1
      <4> HIDE DEF m
      <4>5. /\ Front(s) \in Seq(E)
            /\ Len(Front(s)) = IF 1 <= m THEN m - 1 + 1 ELSE 0
            /\ \A i \in 1..(m - 1 + 1) : Front(s)[i] = s[1 + i - 1]
        BY <4>2, Zenon DEF m
      <4>6. /\ \A i \in 1..m : 1 + i - 1 = i
            /\ m - 1 + 1 = m
            /\ 1 <= m \/ m = 0
        BY <4>3, Zenon DEF m
      <4>7. Len(Front(s)) = m /\ \A i \in 1..m : Front(s)[i] = s[i]
        BY <4>4, <4>5, <4>6
      <4> QED BY <4>5, <4>7, Zenon DEF m
    <3>4. DistinctKeys(Front(s))
      BY <1>1, <3>3 DEF DistinctKeys
    <3>5. \A i \in 1..Len(Front(s)) : Front(s)[i].key # e.key
      <4> HIDE DEF s, e
      <4> QED BY <1>1, <1>2, <2>2, <3>2, <3>3
    <3> HIDE DEF s, e
    <3> QED BY <2>2, <3>1, <3>3, <3>4, <3>5, Zenon
  <2>3. CASE k \notin LruKeys(c) /\ ~LruFull(c)
    <3>1. others = s
      BY <2>3
    <3> HIDE DEF others, s, e
    <3> QED BY <1>1, <1>2, <2>3, <3>1
  <2> QED BY <2>1, <2>2, <2>3
<1>4. Recent(c, k, v) = <<e>> \o others
  BY Zenon DEF Recent
<1> HIDE DEF others, s, e
<1>5. e \in E
  BY DEF e
<1>6. /\ <<e>> \o others \in Seq(E) /\ DistinctKeys(<<e>> \o others)
      /\ Len(<<e>> \o others) = Len(others) + 1
      /\ (<<e>> \o others)[1] = e
  BY <1>3, <1>5, PushedFront
<1>7. Len(<<e>> \o others) = IF k \in LruKeys(c) \/ LruFull(c) THEN Len(s) ELSE Len(s) + 1
  <2>1. CASE k \in LruKeys(c) \/ LruFull(c)
    <3>1. Len(others) = Len(s) - 1
      BY <1>3, <2>1
    <3> QED BY <1>1, <1>6, <2>1, <3>1
  <2>2. CASE ~(k \in LruKeys(c) \/ LruFull(c))
    <3>1. Len(others) = Len(s)
      BY <1>3, <2>2
    <3> QED BY <1>6, <2>2, <3>1
  <2> QED BY <2>1, <2>2
<1>8. Len(others) \in Nat
  BY <1>3, LenProperties
<1>9. 1 \in 1..Len(<<e>> \o others)
  BY <1>6, <1>8
<1> QED BY <1>4, <1>6, <1>7, <1>9 DEF s, e

\* The counters of one insertion more (CacheStats).
LEMMA InsertedCounts ==
  ASSUME NEW stats \in Counters, NEW evicted
  PROVE  LET z == Inserted(stats, evicted)
         IN  /\ z \in Counters /\ z.inserts = stats.inserts + 1
             /\ z.evictions = IF evicted THEN stats.evictions + 1 ELSE stats.evictions
<1> DEFINE x == stats.inserts + 1
           y == IF evicted THEN stats.evictions + 1 ELSE stats.evictions
           z == [stats EXCEPT !.inserts = x, !.evictions = y]
<1>1. Inserted(stats, evicted) = z
  BY Zenon DEF Inserted
<1>2. x \in Nat /\ y \in Nat
  BY DEF Counters
<1> HIDE DEF x, y
<1>3. z \in Counters /\ z.inserts = x /\ z.evictions = y
  BY <1>2 DEF Counters
<1> QED BY <1>1, <1>3, Zenon DEF x, y

\* What both operations make of a cache: the entry in front, and the counters
\* of an insertion if the key is new.
LEMMA RecentCounted ==
  ASSUME NEW c, NEW E, Holds(c, E), NEW k, NEW v, [key |-> k, value |-> v] \in E,
         NEW d \in [cap : Nat \ {0}, entries : Seq(E), stats : Counters],
         d.cap = c.cap, d.entries = Recent(c, k, v),
         d.stats = IF k \in LruKeys(c) THEN c.stats ELSE Inserted(c.stats, LruFull(c))
  PROVE  Holds(d, E) /\ k \in LruKeys(d)
<1> DEFINE r == Recent(c, k, v)
<1>1. /\ r \in Seq(E) /\ DistinctKeys(r)
      /\ r[1] = [key |-> k, value |-> v] /\ 1 \in 1..Len(r)
      /\ Len(r) = IF k \in LruKeys(c) \/ LruFull(c) THEN Len(c.entries) ELSE Len(c.entries) + 1
  BY RecentHolds
<1> HIDE DEF r
<1>2. d.entries = r
  BY DEF r
<1>3. Len(c.entries) \in Nat /\ DOMAIN r = 1..Len(r)
  BY <1>1, LenProperties DEF Holds
<1>4. k \in LruKeys(d)
  BY <1>1, <1>2, <1>3 DEF LruKeys
<1>5. c.stats \in Counters /\ c.cap \in Nat
  BY DEF Holds
<1>6. /\ Inserted(c.stats, LruFull(c)).inserts = c.stats.inserts + 1
      /\ Inserted(c.stats, LruFull(c)).evictions
           = IF LruFull(c) THEN c.stats.evictions + 1 ELSE c.stats.evictions
  BY <1>5, InsertedCounts
<1>7. Len(r) <= d.cap /\ Len(r) = d.stats.inserts - d.stats.evictions
  <2>0. /\ Len(c.entries) <= c.cap /\ Len(c.entries) = c.stats.inserts - c.stats.evictions
        /\ c.stats.inserts \in Nat /\ c.stats.evictions \in Nat
        /\ LruFull(c) <=> Len(c.entries) = c.cap
    BY <1>5 DEF Holds, LruFull, Counters
  <2>1. CASE k \in LruKeys(c)
    BY <2>0, <2>1, <1>1, <1>5
  <2>2. CASE k \notin LruKeys(c) /\ LruFull(c)
    <3>1. Len(r) = Len(c.entries)
      BY <2>2, <1>1, <1>3
    <3>2. d.stats.inserts = c.stats.inserts + 1 /\ d.stats.evictions = c.stats.evictions + 1
      BY <2>2, <1>6
    <3>3. Len(r) <= d.cap
      BY <2>0, <3>1
    <3>4. \A l, i, e \in Nat : l = i - e => l = (i + 1) - (e + 1)
      OBVIOUS
    <3>5. Len(c.entries) = (c.stats.inserts + 1) - (c.stats.evictions + 1)
      BY <2>0, <3>4, <1>3
    <3> QED BY <3>1, <3>2, <3>3, <3>5, Zenon
  <2>3. CASE k \notin LruKeys(c) /\ ~LruFull(c)
    BY <2>0, <2>3, <1>1, <1>3, <1>5, <1>6
  <2> QED BY <2>1, <2>2, <2>3
<1> QED BY <1>1, <1>2, <1>4, <1>7 DEF Holds

\* push and get_or_insert keep a cache of true entries, within its capacity and
\* with every entry accounted for; the key is in it afterwards.
LEMMA LruPushHolds ==
  ASSUME NEW c, NEW E, Holds(c, E), NEW k, NEW v, [key |-> k, value |-> v] \in E
  PROVE  Holds(LruPush(c, k, v), E)
<1> DEFINE r == Recent(c, k, v)
           w == IF k \in LruKeys(c) THEN c.stats ELSE Inserted(c.stats, LruFull(c))
           d == [c EXCEPT !.entries = r, !.stats = w]
           Caches == [cap : Nat \ {0}, entries : Seq(E), stats : Counters]
<1>1. LruPush(c, k, v) = d
  BY Zenon DEF LruPush
<1>2. r \in Seq(E)
  BY RecentHolds
<1>3. w \in Counters
  BY InsertedCounts DEF Holds
<1> HIDE DEF r, w
<1>4. d \in Caches /\ d.entries = r /\ d.cap = c.cap /\ d.stats = w
  BY <1>2, <1>3 DEF Holds
<1> HIDE DEF d, Caches
<1>5. Holds(d, E)
  BY <1>4, RecentCounted, Zenon DEF r, w, Caches
<1> QED BY <1>1, <1>5

\* get_or_insert leaves a sound cache, and returns the value given for the key.
LEMMA LruGetOrInsertHolds ==
  ASSUME NEW c, NEW E, Holds(c, E), OneEntryPerKey(E), NEW k, NEW v, [key |-> k, value |-> v] \in E
  PROVE  /\ Holds(LruGetOrInsert(c, k, v), E)
         /\ LruValue(LruGetOrInsert(c, k, v), k) = v
<1> DEFINE r == Recent(c, k, v)
           w == Inserted(c.stats, LruFull(c))
           d == LruGetOrInsert(c, k, v)
           Caches == [cap : Nat \ {0}, entries : Seq(E), stats : Counters]
<1>1. k \in LruKeys(c) => LruValue(c, k) = v
  BY LruValueHeld
<1>2. r \in Seq(E)
  BY RecentHolds
<1>3. w \in Counters
  BY InsertedCounts DEF Holds
<1>4. /\ d \in Caches /\ d.entries = r /\ d.cap = c.cap
      /\ d.stats = IF k \in LruKeys(c) THEN c.stats ELSE w
  <2>1. CASE k \in LruKeys(c)
    <3> DEFINE e == [c EXCEPT !.entries = r]
    <3>1. d = e
      BY <2>1, <1>1, Zenon DEF LruGetOrInsert
    <3> HIDE DEF r
    <3>2. e \in Caches /\ e.entries = r /\ e.cap = c.cap /\ e.stats = c.stats
      BY <1>2 DEF Holds
    <3> HIDE DEF d, e, Caches
    <3> QED BY <3>1, <3>2, <2>1
  <2>2. CASE k \notin LruKeys(c)
    <3> DEFINE e == [c EXCEPT !.entries = r, !.stats = w]
    <3>1. d = e
      BY <2>2, Zenon DEF LruGetOrInsert
    <3> HIDE DEF r, w
    <3>2. e \in Caches /\ e.entries = r /\ e.cap = c.cap /\ e.stats = w
      BY <1>2, <1>3 DEF Holds
    <3> HIDE DEF d, e, Caches
    <3> QED BY <3>1, <3>2, <2>2
  <2> QED BY <2>1, <2>2
<1> HIDE DEF d, Caches
<1>5. Holds(d, E) /\ k \in LruKeys(d)
  BY <1>4, RecentCounted, Zenon DEF Caches
<1>6. LruValue(d, k) = v
  BY <1>5, LruValueHeld
<1> QED BY <1>5, <1>6 DEF d

--------------------------------------------------------------------------------
(***************************************************************************)
(* Training: one sample more in one dimension.                             *)
(***************************************************************************)

\* The quotient of add_sample is exact: Scale is a multiple of both counts' product.
LEMMA ScaleExact ==
  ASSUME NEW k \in Nat, k = 0 \/ k \in 1..Cardinality(Node) - 1,
         NEW m \in Int, NEW s \in Int, NEW x \in Int, k * m = Scale * s, k = 0 => m = 0
  PROVE  /\ (Scale * x - m) \div (k + 1) \in Int
         /\ (k + 1) * ((Scale * x - m) \div (k + 1)) = Scale * x - m
<1>0. Scale \in Nat
  BY ScaleAssumption
<1>1. \A q \in Int, c \in Nat \ {0} : (c * q) \div c = q
  OBVIOUS
<1>2. SUFFICES \E q \in Int : Scale * x - m = (k + 1) * q
  <2>1. PICK q \in Int : Scale * x - m = (k + 1) * q
    BY <1>2
  <2>2. k + 1 \in Nat \ {0}
    OBVIOUS
  <2>3. ((k + 1) * q) \div (k + 1) = q
    BY <2>2, <1>1
  <2> QED BY <2>1, <2>3
<1>3. CASE k = 0
  <2>1. Scale * x - m = (k + 1) * (Scale * x) /\ Scale * x \in Int
    BY <1>0, <1>3
  <2> QED BY <2>1
<1>4. CASE k # 0
  <2>1. PICK j \in Nat : Scale = j * (k * (k + 1))
    BY <1>4, ScaleAssumption
  <2>2. k * m = k * ((j * (k + 1)) * s)
    <3>1. \A a, b, c, d \in Int : (a * (b * c)) * d = b * ((a * c) * d)
      OBVIOUS
    <3> QED BY <2>1, <3>1
  <2>3. m = (j * (k + 1)) * s
    <3>1. \A a, b \in Int : k * a = k * b => a = b
      <4>1. \A a \in Int : k * a = 0 => a = 0
        BY <1>4
      <4>2. \A a, b \in Int : k * a - k * b = k * (a - b)
        OBVIOUS
      <4>3. SUFFICES ASSUME NEW a \in Int, NEW b \in Int, k * a = k * b PROVE a = b
        OBVIOUS
      <4>4. k * (a - b) = 0
        <5>1. k * a \in Int /\ k * a - k * b = 0
          BY <4>3
        <5> QED BY <5>1, <4>2
      <4>5. a - b = 0
        BY <4>1, <4>4
      <4> QED BY <4>5
    <3>2. (j * (k + 1)) * s \in Int
      OBVIOUS
    <3> QED BY <2>2, <3>1, <3>2
  <2> DEFINE q == (j * k) * x - j * s
  <2>4. q \in Int
    OBVIOUS
  <2>5. \A a, b, c, d \in Int : (a * (b * (b + 1))) * c - (a * (b + 1)) * d = (b + 1) * ((a * b) * c - a * d)
    OBVIOUS
  <2>6. Scale * x - m = (k + 1) * q
    BY <2>1, <2>3, <2>5
  <2> QED BY <2>4, <2>6
<1> QED BY <1>3, <1>4

\* The mean of one sample more.
LEMMA MeanArithmetic ==
  ASSUME NEW c \in Int, NEW p \in Int, NEW q \in Int, NEW r \in Int, NEW t \in Int,
         c * p = t, (c + 1) * q = r - p
  PROVE  (c + 1) * (p + q) = t + r
OBVIOUS

\* The squared distances of one sample more, from the mean moved by q.
LEMMA SquareArithmetic ==
  ASSUME NEW c \in Int, NEW p \in Int, NEW q \in Int, NEW r \in Int, NEW u \in Int,
         (c + 1) * q = r - p
  PROVE  u + (r - p) * (r - (p + q)) = (u + c * (q * q)) + (r - (p + q)) * (r - (p + q))
<1>1. r - (p + q) = c * q
  OBVIOUS
<1>2. ((c + 1) * q) * (c * q) = c * (q * q) + (c * q) * (c * q)
  OBVIOUS
<1>3. c * q \in Int /\ (c + 1) * q \in Int /\ c * (q * q) \in Int
  OBVIOUS
<1> QED BY <1>1, <1>2, <1>3

\* The squared distances of the samples from a mean, and the mean of one sample more.
SquaresFrom(at, m, S) == SumFunctionOnSet([x \in S |-> (at[x] - m) * (at[x] - m)], S)
MovedMean(k, m, x)    == m + (x - m) \div (k + 1)

\* Samples of which m is the mean, and one more of them.
AnotherSample(S, n, of, at, m) ==
  /\ IsFiniteSet(S) /\ n \notin S
  /\ Cardinality(S) = 0 \/ Cardinality(S) \in 1..Cardinality(Node) - 1
  /\ \A x \in S \cup {n} : of[x] \in Int /\ at[x] = Scale * of[x]
  /\ m \in Int /\ Cardinality(S) * m = SumFunctionOnSet(at, S) /\ (S = {} => m = 0)

\* add_sample in one dimension: the sample moves the mean and the squared
\* distances to where those of all samples are.
LEMMA SampleAdded ==
  ASSUME NEW S, NEW n, NEW of, NEW at, NEW m, AnotherSample(S, n, of, at, m)
  PROVE  LET mean == MovedMean(Cardinality(S), m, at[n])
         IN  /\ mean \in Int
             /\ (Cardinality(S) + 1) * mean = SumFunctionOnSet(at, S \cup {n})
             /\ SquaresFrom(at, m, S) + (at[n] - m) * (at[n] - mean) = SquaresFrom(at, mean, S \cup {n})
<1> DEFINE k    == Cardinality(S)
           d    == (at[n] - m) \div (k + 1)
           mean == m + d
           T    == S \cup {n}
           off  == [x \in S |-> (at[x] - m) * (at[x] - m)]
           off2 == [x \in S |-> (at[x] - (m + d)) * (at[x] - (m + d))]
           all  == [x \in T |-> (at[x] - mean) * (at[x] - mean)]
<1>a. /\ IsFiniteSet(S) /\ n \notin S
      /\ Cardinality(S) = 0 \/ Cardinality(S) \in 1..Cardinality(Node) - 1
      /\ \A x \in S \cup {n} : of[x] \in Int /\ at[x] = Scale * of[x]
      /\ m \in Int /\ Cardinality(S) * m = SumFunctionOnSet(at, S) /\ (S = {} => m = 0)
  BY DEF AnotherSample
<1> USE <1>a
<1>0. k \in Nat /\ (S = {} <=> k = 0) /\ Scale \in Nat
  BY FS_CardinalityType, FS_EmptySet, ScaleAssumption
<1>1. of[n] \in Int /\ at[n] = Scale * of[n] /\ \A x \in S : of[x] \in Int /\ at[x] = Scale * of[x]
  OBVIOUS
<1>2. /\ SumFunctionOnSet(of, S) \in Int
      /\ SumFunctionOnSet(at, S) = Scale * SumFunctionOnSet(of, S)
  BY <1>0, <1>1, SumMultiple
<1>3. d \in Int /\ (k + 1) * d = at[n] - m
  <2> HIDE DEF k
  <2>1. k = 0 \/ k \in 1..Cardinality(Node) - 1
    BY DEF k
  <2>2. k * m = Scale * SumFunctionOnSet(of, S) /\ (k = 0 => m = 0)
    BY <1>0, <1>2 DEF k
  <2>3. /\ (Scale * of[n] - m) \div (k + 1) \in Int
        /\ (k + 1) * ((Scale * of[n] - m) \div (k + 1)) = Scale * of[n] - m
    BY <1>0, <1>1, <1>2, <2>1, <2>2, ScaleExact
  <2> QED BY <1>1, <2>3
<1>4. mean \in Int /\ at[n] \in Int /\ IsFiniteSet(T)
  BY <1>0, <1>1, <1>3, FS_AddElement
<1> HIDE DEF d
<1>5. \A x \in S : at[x] \in Int
  BY <1>0, <1>1
<1>6. SumFunctionOnSet(at, S) \in Int
  BY <1>5, SumType
<1>7. (k + 1) * mean = SumFunctionOnSet(at, T)
  <2>1. SumFunctionOnSet(at, T) = SumFunctionOnSet(at, S) + at[n]
    BY <1>4, <1>5, SumAdd
  <2>3. k \in Int /\ k * m = SumFunctionOnSet(at, S)
    BY <1>0
  <2> DEFINE t == SumFunctionOnSet(at, S)
             e == at[n]
  <2>4. t \in Int /\ e \in Int /\ k * m = t /\ (k + 1) * d = e - m
    BY <1>3, <1>4, <1>6, <2>3
  <2> HIDE DEF k, t, e
  <2>5. (k + 1) * (m + d) = t + e
    BY <1>3, <2>3, <2>4, MeanArithmetic
  <2> QED BY <2>1, <2>5, Zenon DEF t, e
<1>8. SumFunctionOnSet(off2, S) = SumFunctionOnSet(off, S) + k * (d * d)
  <2> DEFINE ats == [x \in S |-> at[x]]
             offs  == [x \in S |-> (ats[x] - m) * (ats[x] - m)]
             offs2 == [x \in S |-> (ats[x] - (m + d)) * (ats[x] - (m + d))]
  <2>1. ats \in [S -> Int]
    BY <1>5
  <2>2. SumFunctionOnSet(offs2, S)
          = SumFunctionOnSet(offs, S) - (2 * d) * (SumFunctionOnSet(ats, S) - Cardinality(S) * m)
              + Cardinality(S) * (d * d)
    <3> HIDE DEF ats
    <3> QED BY <2>1, <1>3, SumShifted
  <2>3. offs = off /\ offs2 = off2
    OBVIOUS
  <2>4. SumFunctionOnSet(ats, S) = SumFunctionOnSet(at, S)
    <3>1. \A x \in S : ats[x] \in Int /\ ats[x] = at[x]
      BY <1>5
    <3> HIDE DEF ats
    <3> QED BY <3>1, SumAgree
  <2> HIDE DEF ats, offs, offs2, off, off2
  <2>5. SumFunctionOnSet(off2, S)
          = SumFunctionOnSet(off, S) - (2 * d) * (SumFunctionOnSet(at, S) - k * m) + k * (d * d)
    BY <2>2, <2>3, <2>4, Zenon
  <2>6. SumFunctionOnSet(off, S) \in Int
    <3>1. \A x \in S : off[x] \in Int
      BY <1>5 DEF off
    <3> QED BY <3>1, SumType
  <2>7. SumFunctionOnSet(at, S) - k * m = 0
    BY <1>0, <1>6
  <2>8. \A t, p, c, e \in Int : p = 0 => t - (2 * c) * p + e = t + e
    OBVIOUS
  <2>9. k * (d * d) \in Int /\ SumFunctionOnSet(at, S) - k * m \in Int
    BY <1>0, <1>3, <1>6
  <2> QED BY <1>3, <2>5, <2>6, <2>7, <2>8, <2>9
<1>9. SumFunctionOnSet(all, T) = SumFunctionOnSet(off2, S) + (at[n] - mean) * (at[n] - mean)
  <2>1. /\ all[n] = (at[n] - mean) * (at[n] - mean) /\ all[n] \in Int
        /\ \A x \in S : all[x] \in Int /\ off2[x] \in Int /\ off2[x] = all[x]
    BY <1>3, <1>4, <1>5
  <2> HIDE DEF all, off2, mean, T
  <2>2. SumFunctionOnSet(all, S \cup {n}) = SumFunctionOnSet(all, S) + all[n]
    BY <2>1, SumAdd
  <2>3. SumFunctionOnSet(off2, S) = SumFunctionOnSet(all, S)
    BY <2>1, SumAgree
  <2> QED BY <2>1, <2>2, <2>3, Zenon DEF T
<1>10. SumFunctionOnSet(off, S) + (at[n] - m) * (at[n] - mean) = SumFunctionOnSet(all, T)
  <2>2. SumFunctionOnSet(off, S) \in Int /\ SumFunctionOnSet(off2, S) \in Int
    <3>1. \A x \in S : off[x] \in Int /\ off2[x] \in Int
      BY <1>3, <1>5
    <3> HIDE DEF off, off2
    <3> QED BY <3>1, SumType
  <2> HIDE DEF off, off2, all, k
  <2> DEFINE u == SumFunctionOnSet(off, S)
             v == SumFunctionOnSet(off2, S)
             e == at[n]
  <2>3. /\ k \in Int /\ d \in Int /\ u \in Int /\ v \in Int /\ e \in Int
        /\ (k + 1) * d = e - m /\ v = u + k * (d * d)
    BY <1>0, <1>3, <1>4, <1>8, <2>2
  <2> HIDE DEF u, v, e
  <2>4. u + (e - m) * (e - (m + d)) = (u + k * (d * d)) + (e - (m + d)) * (e - (m + d))
    BY <2>3, SquareArithmetic
  <2>5. u + (e - m) * (e - (m + d)) = v + (e - (m + d)) * (e - (m + d))
    BY <2>3, <2>4, Zenon
  <2> QED BY <1>9, <2>5, Zenon DEF u, v, e
<1>11. mean = MovedMean(Cardinality(S), m, at[n])
  BY DEF MovedMean, d
<1>12. SquaresFrom(at, m, S) = SumFunctionOnSet(off, S) /\ SquaresFrom(at, mean, T) = SumFunctionOnSet(all, T)
  BY Zenon DEF SquaresFrom
<1> HIDE DEF mean, off, all
<1> QED BY <1>4, <1>7, <1>10, <1>11, <1>12, Zenon

--------------------------------------------------------------------------------
(***************************************************************************)
(* Codes: the exclusive or of two codes counts the ranges between.         *)
(***************************************************************************)

\* The size of a union of sets with nothing in common is the sum of theirs.
LEMMA UnionCardinality ==
  ASSUME NEW S, IsFiniteSet(S), NEW F, \A x \in S : IsFiniteSet(F[x]),
         \A x, y \in S : x # y => F[x] \cap F[y] = {},
         NEW c, \A x \in S : c[x] = Cardinality(F[x])
  PROVE  /\ IsFiniteSet(UNION {F[x] : x \in S})
         /\ Cardinality(UNION {F[x] : x \in S}) = SumFunctionOnSet(c, S)
<1> DEFINE U(T) == UNION {F[x] : x \in T}
           G == {T \in SUBSET S : IsFiniteSet(U(T)) /\ Cardinality(U(T)) = SumFunctionOnSet(c, T)}
<1>1. {} \in G
  <2>1. U({}) = {}
    OBVIOUS
  <2> QED BY <2>1, SumEmpty, FS_EmptySet
<1>2. ASSUME NEW T \in SUBSET S, NEW x \in S \ T, T \in G
      PROVE  T \cup {x} \in G
  <2>1. IsFiniteSet(T) /\ T \cup {x} \in SUBSET S /\ IsFiniteSet(F[x])
    BY FS_Subset
  <2>2. U(T \cup {x}) = U(T) \cup F[x]
    OBVIOUS
  <2>3. U(T) \cap F[x] = {}
    OBVIOUS
  <2>4. IsFiniteSet(U(T)) /\ Cardinality(U(T)) = SumFunctionOnSet(c, T)
    BY <1>2
  <2> HIDE DEF U
  <2>5. \A y \in S : c[y] \in Int
    BY FS_CardinalityType
  <2>6. SumFunctionOnSet(c, T \cup {x}) = SumFunctionOnSet(c, T) + c[x]
    BY <2>1, <2>5, SumAdd
  <2>7. /\ IsFiniteSet(U(T) \cup F[x])
        /\ Cardinality(U(T) \cup F[x]) = Cardinality(U(T)) + Cardinality(F[x])
    <3>1. /\ IsFiniteSet(U(T) \cup F[x])
          /\ Cardinality(U(T) \cup F[x]) = Cardinality(U(T)) + Cardinality(F[x]) - Cardinality(U(T) \cap F[x])
      BY <2>1, <2>4, FS_Union
    <3>2. Cardinality(U(T) \cap F[x]) = 0
      BY <2>3, FS_EmptySet
    <3>3. Cardinality(U(T)) \in Int /\ Cardinality(F[x]) \in Int
      BY <2>1, <2>4, FS_CardinalityType
    <3> QED BY <3>1, <3>2, <3>3
  <2>8. c[x] = Cardinality(F[x])
    OBVIOUS
  <2>9. IsFiniteSet(U(T \cup {x})) /\ Cardinality(U(T \cup {x})) = SumFunctionOnSet(c, T \cup {x})
    BY <2>2, <2>4, <2>6, <2>7, <2>8, Zenon
  <2> QED BY <2>1, <2>9
<1>3. S \in G
  <2> HIDE DEF G
  <2> QED BY <1>1, <1>2, SetInduction, Zenon
<1> QED BY <1>3

\* The positions of a code: b for each of d dimensions, of which the first l[i] are ones.
Place(b, i, j) == (i - 1) * b + j
PlacesOf(b, i, lo, hi) == {Place(b, i, j) : j \in lo..hi - 1}
Ones(b, d, l) == UNION {{Place(b, i, j) : j \in 0..l[i] - 1} : i \in 1..d}

\* The positions of two dimensions are different ones.
LEMMA PlacesDiffer ==
  ASSUME NEW b \in Nat \ {0}, NEW i \in Nat, NEW k \in Nat, NEW j \in 0..b - 1, NEW l \in 0..b - 1,
         Place(b, i, j) = Place(b, k, l)
  PROVE  i = k /\ j = l
<1>1. \A x, y \in Int : x < y => x * b + b <= y * b
  <2> SUFFICES ASSUME NEW x \in Int, NEW y \in Int, x < y PROVE x * b + b <= y * b
    OBVIOUS
  <2>1. (y - x - 1) * b >= 0
    OBVIOUS
  <2>2. (y - x - 1) * b = y * b - x * b - b
    OBVIOUS
  <2> QED BY <2>1, <2>2
<1>2. (i - 1) * b \in Int /\ (k - 1) * b \in Int /\ (i - 1) * b + j = (k - 1) * b + l
  BY DEF Place
<1>3. ~(i - 1 < k - 1) /\ ~(k - 1 < i - 1)
  <2>1. i - 1 < k - 1 => (i - 1) * b + b <= (k - 1) * b
    BY <1>1
  <2>2. k - 1 < i - 1 => (k - 1) * b + b <= (i - 1) * b
    BY <1>1
  <2> QED BY <1>2, <2>1, <2>2
<1>4. i = k
  BY <1>3
<1> QED BY <1>2, <1>4

\* The positions from lo to hi of one dimension.
LEMMA PlacesCounted ==
  ASSUME NEW b \in Nat \ {0}, NEW i \in Nat, NEW lo \in Int, NEW hi \in Int, lo <= hi
  PROVE  IsFiniteSet(PlacesOf(b, i, lo, hi)) /\ Cardinality(PlacesOf(b, i, lo, hi)) = hi - lo
<1> DEFINE a == (i - 1) * b
           F == PlacesOf(b, i, lo, hi)
<1>1. a \in Int
  OBVIOUS
<1>2. F = {a + j : j \in lo..hi - 1}
  BY DEF Place, PlacesOf
<1> HIDE DEF a, F
<1>3. F = (a + lo)..(a + hi - 1)
  <2>1. ASSUME NEW p \in (a + lo)..(a + hi - 1) PROVE p \in F
    <3>1. p - a \in lo..hi - 1 /\ p = a + (p - a)
      BY <1>1
    <3> QED BY <1>2, <3>1
  <2>2. ASSUME NEW p \in F PROVE p \in (a + lo)..(a + hi - 1)
    BY <1>1, <1>2
  <2> QED BY <2>1, <2>2
<1> DEFINE x == a + lo
           y == a + hi - 1
<1>4. x \in Int /\ y \in Int /\ F = x..y /\ y - x + 1 = hi - lo /\ (x > y => hi - lo = 0)
  BY <1>1, <1>3
<1> HIDE DEF x, y
<1>5. IsFiniteSet(x..y) /\ Cardinality(x..y) = IF x > y THEN 0 ELSE y - x + 1
  BY <1>4, FS_Interval
<1>6. IsFiniteSet(F) /\ Cardinality(F) = hi - lo
  BY <1>4, <1>5
<1> QED BY <1>6 DEF F

\* Ones from the first position: the codes of two vectors differ, in each
\* dimension, in as many positions as there are ranges between the two.
LEMMA OnesApart ==
  ASSUME NEW b \in Nat \ {0}, NEW d \in Nat, NEW l \in [1..d -> 0..b], NEW h \in [1..d -> 0..b]
  PROVE  LET apart == (Ones(b, d, l) \ Ones(b, d, h)) \cup (Ones(b, d, h) \ Ones(b, d, l))
         IN  Cardinality(apart) = SumFunctionOnSet([i \in 1..d |-> Apart(l[i], h[i])], 1..d)
<1> DEFINE A  == Ones(b, d, l)
           B  == Ones(b, d, h)
           lo == [i \in 1..d |-> IF l[i] < h[i] THEN l[i] ELSE h[i]]
           hi == [i \in 1..d |-> IF l[i] < h[i] THEN h[i] ELSE l[i]]
           F  == [i \in 1..d |-> PlacesOf(b, i, lo[i], hi[i])]
           c  == [i \in 1..d |-> Apart(l[i], h[i])]
<1>1. \A i \in 1..d : lo[i] \in 0..b /\ hi[i] \in 0..b /\ lo[i] <= hi[i] /\ c[i] = hi[i] - lo[i]
  BY DEF Apart
<1>2. \A i \in 1..d : \A p : p \in F[i] <=> \E j \in 0..b - 1 : p = Place(b, i, j) /\ j >= lo[i] /\ j < hi[i]
  <2> SUFFICES ASSUME NEW i \in 1..d, NEW p
               PROVE  p \in F[i] <=> \E j \in 0..b - 1 : p = Place(b, i, j) /\ j >= lo[i] /\ j < hi[i]
    OBVIOUS
  <2>1. lo[i] \in 0..b /\ hi[i] \in 0..b
    BY <1>1
  <2> HIDE DEF lo, hi
  <2>2. p \in F[i] <=> \E j \in lo[i]..hi[i] - 1 : p = Place(b, i, j)
    BY DEF PlacesOf
  <2>3. \A j : j \in lo[i]..hi[i] - 1 <=> j \in 0..b - 1 /\ j >= lo[i] /\ j < hi[i]
    BY <2>1
  <2> QED BY <2>2, <2>3
<1>3. \A i, k \in 1..d : i # k => F[i] \cap F[k] = {}
  <2> SUFFICES ASSUME NEW i \in 1..d, NEW k \in 1..d, NEW p \in F[i], p \in F[k] PROVE i = k
    OBVIOUS
  <2>1. PICK j \in 0..b - 1 : p = Place(b, i, j)
    BY <1>2
  <2>2. PICK m \in 0..b - 1 : p = Place(b, k, m)
    BY <1>2
  <2>3. i \in Nat /\ k \in Nat
    OBVIOUS
  <2>4. Place(b, i, j) = Place(b, k, m)
    BY <2>1, <2>2
  <2> HIDE DEF F, lo, hi, c
  <2> QED BY <2>3, <2>4, PlacesDiffer
<1>4. \A i \in 1..d : IsFiniteSet(F[i]) /\ Cardinality(F[i]) = c[i]
  <2> SUFFICES ASSUME NEW i \in 1..d PROVE IsFiniteSet(F[i]) /\ Cardinality(F[i]) = c[i]
    OBVIOUS
  <2>1. i \in Nat /\ lo[i] \in Int /\ hi[i] \in Int /\ lo[i] <= hi[i] /\ c[i] = hi[i] - lo[i]
    BY <1>1
  <2>2. F[i] = PlacesOf(b, i, lo[i], hi[i])
    OBVIOUS
  <2> HIDE DEF F, lo, hi, c
  <2>3. IsFiniteSet(PlacesOf(b, i, lo[i], hi[i])) /\ Cardinality(PlacesOf(b, i, lo[i], hi[i])) = hi[i] - lo[i]
    BY <2>1, PlacesCounted
  <2> QED BY <2>1, <2>2, <2>3, Zenon
<1>5. (A \ B) \cup (B \ A) = UNION {F[i] : i \in 1..d}
  <2>1. \A p : p \in A <=> \E i \in 1..d, j \in 0..b - 1 : p = Place(b, i, j) /\ j < l[i]
    <3>1. \A i \in 1..d : \A j : j \in 0..l[i] - 1 <=> j \in 0..b - 1 /\ j < l[i]
      OBVIOUS
    <3> QED BY <3>1 DEF Ones
  <2>2. \A p : p \in B <=> \E i \in 1..d, j \in 0..b - 1 : p = Place(b, i, j) /\ j < h[i]
    <3>1. \A i \in 1..d : \A j : j \in 0..h[i] - 1 <=> j \in 0..b - 1 /\ j < h[i]
      OBVIOUS
    <3> QED BY <3>1 DEF Ones
  <2> HIDE DEF A, B
  <2>3. ASSUME NEW i \in 1..d, NEW j \in 0..b - 1, NEW p, p = Place(b, i, j)
        PROVE  /\ p \in A <=> j < l[i]
               /\ p \in B <=> j < h[i]
               /\ p \in F[i] <=> j >= lo[i] /\ j < hi[i]
    <3> HIDE DEF F, lo, hi
    <3>1. \A k \in 1..d, m \in 0..b - 1 : p = Place(b, k, m) => k = i /\ m = j
      <4>1. 1..d \subseteq Nat
        OBVIOUS
      <4> QED BY <2>3, <4>1, PlacesDiffer
    <3> QED BY <1>2, <2>1, <2>2, <2>3, <3>1
  <2>4. ASSUME NEW i \in 1..d, NEW j \in 0..b - 1, NEW p, p = Place(b, i, j)
        PROVE  p \in (A \ B) \cup (B \ A) <=> p \in F[i]
    <3>1. (j < l[i] /\ ~(j < h[i])) \/ (j < h[i] /\ ~(j < l[i])) <=> j >= lo[i] /\ j < hi[i]
      OBVIOUS
    <3> HIDE DEF F, lo, hi
    <3> QED BY <2>3, <2>4, <3>1
  <2>5. ASSUME NEW p \in (A \ B) \cup (B \ A) PROVE \E i \in 1..d : p \in F[i]
    <3>1. PICK i \in 1..d, j \in 0..b - 1 : p = Place(b, i, j)
      BY <2>1, <2>2
    <3> HIDE DEF F
    <3> QED BY <2>4, <2>5, <3>1
  <2>6. ASSUME NEW i \in 1..d, NEW p \in F[i] PROVE p \in (A \ B) \cup (B \ A)
    <3>1. PICK j \in 0..b - 1 : p = Place(b, i, j)
      BY <1>2
    <3> HIDE DEF F
    <3> QED BY <2>4, <2>6, <3>1
  <2> HIDE DEF F
  <2> QED BY <2>5, <2>6
<1>6. IsFiniteSet(1..d)
  BY FS_Interval
<1> HIDE DEF F, c
<1>7. Cardinality(UNION {F[x] : x \in 1..d}) = SumFunctionOnSet(c, 1..d)
  BY <1>3, <1>4, <1>6, UnionCardinality
<1>8. Cardinality((A \ B) \cup (B \ A)) = SumFunctionOnSet(c, 1..d)
  BY <1>5, <1>7, Zenon
<1> QED BY <1>8, Zenon DEF A, B, c

\* A level is a number of the ones of its dimension.
LEMMA LevelBounds ==
  ASSUME NEW q, q.bits \in Nat \ {0}, NEW i, NEW v
  PROVE  Level(q, i, v) \in 0..q.bits
<1> DEFINE L == {j \in 1..q.bits : RangeAtLeast(q, i, v, j)}
<1>1. IsFiniteSet(1..q.bits) /\ Cardinality(1..q.bits) = q.bits
  BY FS_Interval
<1>2. L \in SUBSET (1..q.bits)
  OBVIOUS
<1> HIDE DEF L
<1>3. Cardinality(L) \in Nat /\ Cardinality(L) <= q.bits
  BY <1>1, <1>2, FS_Subset, FS_CardinalityType
<1>4. Cardinality(L) \in 0..q.bits
  BY <1>3
<1>5. Level(q, i, v) = IF q.bits = 1 THEN IF Scale * v > q.mean[i] THEN 1 ELSE 0 ELSE Cardinality(L)
  BY Zenon DEF Level, L
<1> QED BY <1>4, <1>5

\* The distance of two codes (distance_xor_optimized) is the number of ranges
\* between the two vectors, whatever the quantizer, the bits and the dimensions.
THEOREM CodesMeasureLevels ==
  ASSUME NEW q, q.bits \in Nat \ {0}, NEW d \in Nat, NEW v, NEW w, DOMAIN v = 1..d, DOMAIN w = 1..d
  PROVE  DistanceXor(Quantize(q, v), Quantize(q, w))
           = SumFunction([i \in DOMAIN v |-> Apart(Level(q, i, v[i]), Level(q, i, w[i]))])
<1> DEFINE l == [i \in 1..d |-> Level(q, i, v[i])]
           h == [i \in 1..d |-> Level(q, i, w[i])]
           s == [i \in 1..d |-> Apart(l[i], h[i])]
<1>1. l \in [1..d -> 0..q.bits] /\ h \in [1..d -> 0..q.bits]
  BY LevelBounds
<1>2. Quantize(q, v) = Ones(q.bits, d, l)
  BY DEF Quantize, Ones, Place
<1>3. Quantize(q, w) = Ones(q.bits, d, h)
  BY DEF Quantize, Ones, Place
<1>4. s = [i \in DOMAIN v |-> Apart(Level(q, i, v[i]), Level(q, i, w[i]))] /\ DOMAIN s = 1..d
  OBVIOUS
<1> HIDE DEF l, h
<1>5. Cardinality((Ones(q.bits, d, l) \ Ones(q.bits, d, h)) \cup (Ones(q.bits, d, h) \ Ones(q.bits, d, l)))
        = SumFunctionOnSet(s, 1..d)
  BY <1>1, OnesApart
<1> HIDE DEF s
<1>6. SumFunction(s) = SumFunctionOnSet(s, 1..d)
  BY <1>4 DEF SumFunction
<1>7. DistanceXor(Quantize(q, v), Quantize(q, w)) = SumFunction(s)
  BY <1>2, <1>3, <1>5, <1>6, Zenon DEF DistanceXor
<1> QED BY <1>4, <1>7, Zenon

\* Without a variance, a value has all ones of the dimension if it is above the mean.
LEMMA FlatLevel ==
  ASSUME NEW q, q.bits \in Nat, q.bits > 1, NEW i, q.m2[i] = 0, q.mean[i] \in Int, NEW v \in Int
  PROVE  Level(q, i, v) = IF q.count > 0 /\ Scale * v > q.mean[i] THEN q.bits ELSE 0
<1> DEFINE above == q.count > 0 /\ Scale * v > q.mean[i]
           L == {j \in 1..q.bits : RangeAtLeast(q, i, v, j)}
           d == Scale * v - q.mean[i]
<1>1. d \in Int /\ (d > 0 <=> Scale * v > q.mean[i])
  BY ScaleAssumption
<1> HIDE DEF d
<1>2. (q.bits + 1) * d > 0 <=> d > 0
  <2>1. \A b, x \in Int : b > 0 => (b * x > 0 <=> x > 0)
    OBVIOUS
  <2>2. q.bits + 1 \in Int /\ q.bits + 1 > 0
    OBVIOUS
  <2> QED BY <1>1, <2>1, <2>2
<1>3. \A j : RangeAtLeast(q, i, v, j) <=> above
  <2>1. \A j : RangeAtLeast(q, i, v, j) <=> q.count > 0 /\ (q.bits + 1) * d > 0
    BY DEF RangeAtLeast, d
  <2> QED BY <1>1, <1>2, <2>1
<1> HIDE DEF above
<1>4. CASE above
  <2>1. L = 1..q.bits
    BY <1>3, <1>4
  <2>2. Cardinality(1..q.bits) = q.bits
    BY FS_Interval
  <2> QED BY <1>4, <2>1, <2>2 DEF Level, above
<1>5. CASE ~above
  <2>1. L = {}
    BY <1>3, <1>5
  <2>2. Cardinality({}) = 0
    BY FS_EmptySet
  <2> QED BY <1>5, <2>1, <2>2 DEF Level, above
<1> QED BY <1>4, <1>5

\* The positions of a dimension in a code are ones up to its level.
LEMMA OnesOfDimension ==
  ASSUME NEW q, q.bits \in Nat \ {0}, NEW d \in Nat, NEW v, DOMAIN v = 1..d, NEW i \in 1..d,
         NEW k \in (i - 1) * q.bits..i * q.bits - 1
  PROVE  k \in Quantize(q, v) <=> k < (i - 1) * q.bits + Level(q, i, v[i])
<1> DEFINE b == q.bits
           l == [x \in 1..d |-> Level(q, x, v[x])]
           a == (i - 1) * b
           j == k - a
<1>1. l \in [1..d -> 0..b]
  BY LevelBounds
<1>2. Quantize(q, v) = Ones(b, d, l) /\ l[i] = Level(q, i, v[i])
  BY DEF Quantize, Ones, Place
<1>3. a \in Int /\ k \in Int /\ j \in 0..b - 1 /\ k = Place(b, i, j) /\ b \in Nat \ {0}
  <2> DEFINE e == i * b
  <2>1. a \in Int /\ e = a + b /\ k \in a..e - 1 /\ b \in Nat \ {0}
    OBVIOUS
  <2>2. k = Place(b, i, j) <=> k = a + j
    BY DEF Place
  <2> HIDE DEF a, b, e
  <2> QED BY <2>1, <2>2
<1> HIDE DEF l, b, a
<1>4. ASSUME k \in Ones(b, d, l) PROVE k < a + l[i]
  <2>1. PICK x \in 1..d : k \in {Place(b, x, y) : y \in 0..l[x] - 1}
    BY <1>4 DEF Ones
  <2>2. PICK y \in 0..l[x] - 1 : k = Place(b, x, y)
    BY <2>1
  <2>3. y \in 0..b - 1 /\ x \in Nat /\ i \in Nat
    BY <1>1, <1>3
  <2>4. x = i /\ y = j
    BY <1>3, <2>2, <2>3, PlacesDiffer
  <2> QED BY <1>1, <1>3, <2>4
<1>5. ASSUME k < a + l[i] PROVE k \in Ones(b, d, l)
  <2>1. j \in 0..l[i] - 1
    BY <1>1, <1>3, <1>5
  <2> HIDE DEF j
  <2>2. k \in {Place(b, i, y) : y \in 0..l[i] - 1}
    BY <1>3, <2>1
  <2> QED BY <2>2 DEF Ones
<1> QED BY <1>2, <1>4, <1>5, Zenon DEF a, b

--------------------------------------------------------------------------------
(***************************************************************************)
(* The inductive invariant.  What a session knows is stated of the rows,   *)
(* which no step changes: then a step of another session only adds nodes.  *)
(* Operators take the session, the rows and the nodes there are, so that   *)
(* they can be applied to the values of either state.                      *)
(***************************************************************************)

\* The fields of an open session, and of one that trains.
SessionFields == {"mode", "meta", "quantizer", "cache", "own", "query", "unfiltered", "inserted",
                  "candidates", "starts", "call", "of", "code", "list", "todo", "answers"}
TrainingFields == {"mode", "meta", "unseen", "quantizer"}
QuantizerFields == {"bits", "count", "mean", "m2"}
MetaFields == {"version", "storage", "distance", "dims", "indexed", "bits", "neighbors", "labels",
               "roots", "quantizer"}
NodeFields == {"type", "deleted", "code", "slots", "labels"}

\* Metadata of which codes can be made.
MetaSound(m) ==
  /\ ValidDimensions(m.dims, m.indexed) /\ m.dims \in Nat /\ m.indexed \in Nat
  /\ m.bits \in Nat \ {0} /\ m.neighbors \in Nat \ {0}

\* What the rows make of a node, for a session.
VectorOf(m, row, n)  == IndexSlice(m, row[n].vec)
CodeOf(s, row, n)   == Quantize(s.quantizer, VectorOf(s.meta, row, n))
LabelsOf(m, row, n) == RowLabels(row[n].labels, m.labels)

\* The samples of S have trained q.
Trained(q, m, row, S) ==
  /\ DOMAIN q = QuantizerFields /\ q.bits = m.bits /\ q.count = Cardinality(S)
  /\ q.mean \in [1..m.indexed -> Int]
  /\ q.bits > 1 => q.m2 \in [1..m.indexed -> Int]
  /\ \A i \in 1..m.indexed :
       LET at  == [n \in S |-> Scale * VectorOf(m, row, n)[i]]
           off == [n \in S |-> (at[n] - q.mean[i]) * (at[n] - q.mean[i])]
       IN  /\ q.count * q.mean[i] = SumFunctionOnSet(at, S)
           /\ S = {} => q.mean[i] = 0
           /\ q.bits > 1 => q.m2[i] = SumFunctionOnSet(off, S)

\* Nodes written by the rows of the table, linked to nodes alone.
Stored(node, m, q, row, n, W) ==
  /\ DOMAIN node = NodeFields /\ node.type = Layout(m)
  /\ node.code = Quantize(q, VectorOf(m, row, n))
  /\ node.labels = LabelsOf(m, row, n)
  /\ node.slots \in [1..m.neighbors -> W \cup {InvalidPointer}]

\* The cache holds the nodes' codes.
Entries(s, row, W) == {[key |-> n, value |-> CodeOf(s, row, n)] : n \in W}
CacheInv(s, row, W) == s.mode # "search" => Holds(s.cache, Entries(s, row, W))

\* The candidates are the nodes kept, with their distances.
QuerySound(s) ==
  s.query # Null =>
    /\ DOMAIN s.query.vec = 1..s.meta.indexed
    /\ \A i \in 1..s.meta.indexed : s.query.vec[i] \in Int
    /\ s.query.code = Quantize(s.quantizer, s.query.vec)
    /\ s.query.labels = Null \/ (s.meta.labels /\ IsLabelSet(s.query.labels))

Keeps(s, row, n) ==
  \/ s.query.labels = Null \/ s.unfiltered
  \/ Overlaps(s.query.labels, LabelsOf(s.meta, row, n))

CandidateOf(s, row, n) ==
  [node |-> n, distance |-> DistanceXor(CodeOf(s, row, n), s.query.code)]

SearchInv(s, row, W) ==
  /\ QuerySound(s)
  /\ s.query = Null => s.inserted = {}
  /\ s.starts \subseteq s.inserted /\ s.inserted \subseteq W
  /\ s.candidates = {CandidateOf(s, row, n) : n \in {k \in s.inserted : k \in s.starts \/ Keeps(s, row, k)}}

\* The call under way, and its answers.
AnswerOf(s, row, n) == [node |-> n, distance |-> DistanceXor(CodeOf(s, row, n), s.code)]

CallInv(s, row, W) ==
  /\ s.call \in {"idle", "visit", "measure", "neighbors"}
  /\ s.call = "visit" => s.query # Null
  /\ s.todo \in Seq(W)
  /\ s.call \in {"measure", "neighbors"} =>
       /\ s.mode # "search" /\ s.of \in W /\ s.code = CodeOf(s, row, s.of)
       /\ s.answers \subseteq {AnswerOf(s, row, n) : n \in W}
  /\ s.call \in {"idle", "visit"} => s.answers = {}

SessionInv(s, row, W) ==
  /\ DOMAIN s = SessionFields
  /\ s.own \in W \cup {InvalidPointer}
  /\ CacheInv(s, row, W) /\ SearchInv(s, row, W) /\ CallInv(s, row, W)

TableInv ==
  /\ heap.there \subseteq Node
  /\ \A m \in Fetch(page0) : heap.row \in Tables(m.dims) /\ MetaSound(m)

PhaseInv ==
  /\ phase \in {"create", "refused", "plain", "train", "publish", "graph", "ready"}
  /\ phase = "create" => \E new \in Fresh : heap = new.heap /\ request = new.request
  /\ phase \in {"create", "refused", "plain"} => session = Closed
  /\ phase \in {"train", "publish"} =>
       /\ DOMAIN session = TrainingFields /\ session.mode = "train"
       /\ DOMAIN session.meta = MetaFields /\ MetaSound(session.meta) /\ heap.row \in Tables(session.meta.dims)
       /\ StorageOfByte(session.meta.storage) = {"SbqCompression"}
       /\ session.unseen \subseteq heap.there
       /\ Trained(session.quantizer, session.meta, heap.row, Sampled)
  /\ phase = "publish" =>
       /\ means = [type |-> "SbqMeans", stats |-> session.quantizer]
       /\ session.meta.quantizer = StatsPointer /\ session.unseen = {}
  /\ phase \in {"graph", "ready"} => session = Closed \/ Open

NodesInv ==
  /\ DOMAIN nodes = Node
  /\ phase \notin {"graph", "ready"} => Written = {}
  /\ \A n \in Written :
       /\ Indexed(n)
       /\ \A m \in Fetch(page0) : \A q \in LoadQuantizer(m) : Stored(nodes[n], m, q, heap.row, n, Written)

ReaderInv ==
  Open =>
    /\ session.mode = "build" => phase = "graph"
    /\ session.meta \in Fetch(page0) /\ session.quantizer \in LoadQuantizer(session.meta)
    /\ SessionInv(session, heap.row, Written)

\* Usable, but for the nodes.
Loadable(m) ==
  \/ StorageOfByte(m.storage) = {"Plain"}
  \/ /\ StorageOfByte(m.storage) = {"SbqCompression"}
     /\ \E q \in LoadQuantizer(m) :
          DOMAIN q.mean = 1..m.indexed /\ (q.bits > 1 => DOMAIN q.m2 = 1..m.indexed)

Opens ==
  phase \in {"graph", "ready", "plain"} => (~GivenUp(page0) <=> \E m \in Fetch(page0) : Loadable(m))

\* The statistics of an index of today's version are those of the rows of CREATE INDEX.
TrainedRows == {n \in heap.there : Indexed(n)}

StatsInv ==
  request # Null /\ phase \in {"graph", "ready"} =>
    \A m \in Fetch(page0) : Trained(means.stats, m, heap.row, TrainedRows)

IInv == PhaseInv /\ TableInv /\ Opens /\ StatsInv /\ NodesInv /\ ReaderInv

--------------------------------------------------------------------------------
(***************************************************************************)
(* What the parts of the invariant say of vectors, labels and statistics   *)
(***************************************************************************)

\* The indexed part of a vector.
LEMMA SliceOfVector ==
  ASSUME NEW m, MetaSound(m), NEW v \in [1..m.dims -> Int]
  PROVE  /\ DOMAIN IndexSlice(m, v) = 1..m.indexed
         /\ \A i \in 1..m.indexed : IndexSlice(m, v)[i] \in Int
<1> DEFINE k == m.indexed
<1>1. k \in Nat /\ k >= 1 /\ k <= m.dims
  BY DEF MetaSound, ValidDimensions
<1>2. \A i \in 1..k : v[i] \in Int
  BY <1>1 DEF MetaSound
<1> HIDE DEF k
<1>3. /\ SubSeq(v, 1, k) \in Seq(Int)
      /\ Len(SubSeq(v, 1, k)) = k
      /\ \A i \in 1..k : SubSeq(v, 1, k)[i] = v[1 + i - 1]
  BY <1>1, <1>2, SubSeqProperties
<1>4. DOMAIN SubSeq(v, 1, k) = 1..k
  BY <1>3, LenProperties
<1>5. \A i \in 1..k : SubSeq(v, 1, k)[i] \in Int
  BY <1>1, <1>3, ElementOfSeq
<1> QED BY <1>4, <1>5 DEF IndexSlice, k

\* The indexed part of a row with a vector.
LEMMA VectorOfRow ==
  ASSUME NEW m, MetaSound(m), NEW row \in Tables(m.dims), NEW n \in Node, row[n].vec # Null
  PROVE  /\ DOMAIN VectorOf(m, row, n) = 1..m.indexed
         /\ \A i \in 1..m.indexed : VectorOf(m, row, n)[i] \in Int
<1>1. row[n].vec \in [1..m.dims -> Int]
  BY DEF Tables
<1> QED BY <1>1, SliceOfVector DEF VectorOf

\* The stored labels of a row, in an index with labels.
LEMMA LabelsOfRow ==
  ASSUME NEW m, m.labels, NEW d, NEW row \in Tables(d), NEW n \in Node
  PROVE  /\ IsLabelSet(LabelsOf(m, row, n))
         /\ ToSet(LabelsOf(m, row, n)) = IF row[n].labels = Null THEN {} ELSE ToSet(row[n].labels) \ {Null}
<1>1. row[n].labels \in Seq(Int \cup {Null}) \/ row[n].labels = Null
  BY DEF Tables
<1>2. CASE row[n].labels = Null
  <2>1. LabelsOf(m, row, n) = <<>>
    BY <1>2 DEF LabelsOf, RowLabels
  <2>2. IsLabelSet(<<>>) /\ ToSet(<<>>) = {}
    <3>1. <<>> \in Seq(Int) /\ DOMAIN <<>> = {}
      BY EmptySeq
    <3> QED BY <3>1 DEF IsLabelSet, Sorted, ToSet
  <2> QED BY <1>2, <2>1, <2>2
<1>3. CASE row[n].labels # Null
  <2>1. LabelsOf(m, row, n) = ToLabelSet(NonNull(row[n].labels))
    BY <1>3 DEF LabelsOf, RowLabels
  <2>2. row[n].labels \in Seq(Int \cup {Null})
    BY <1>1, <1>3
  <2> QED BY <1>3, <2>1, <2>2, NonNullLabels
<1> QED BY <1>2, <1>3

\* The exclusive or is the same from either side.
LEMMA XorSymmetric ==
  ASSUME NEW a, NEW b
  PROVE  DistanceXor(a, b) = DistanceXor(b, a)
<1>1. (a \ b) \cup (b \ a) = (b \ a) \cup (a \ b)
  OBVIOUS
<1> QED BY <1>1 DEF DistanceXor

\* The quantizers that can be loaded are one: the statistics on their page.
LEMMA LoadedQuantizer ==
  ASSUME NEW m, NEW q \in LoadQuantizer(m)
  PROVE  /\ q = [NewQuantizer(m.bits) EXCEPT !.count = means.stats.count, !.mean = means.stats.mean,
                                             !.m2 = means.stats.m2]
         /\ DOMAIN q = QuantizerFields /\ q.bits = m.bits
         /\ q.count = means.stats.count /\ q.mean = means.stats.mean /\ q.m2 = means.stats.m2
         /\ m.quantizer = StatsPointer /\ means.type \in {"SbqMeansV1", "SbqMeans"}
         /\ StorageOfByte(m.storage) = {"SbqCompression"}
<1>1. q = [NewQuantizer(m.bits) EXCEPT !.count = means.stats.count, !.mean = means.stats.mean,
                                       !.m2 = means.stats.m2]
  BY DEF LoadQuantizer
<1>2. DOMAIN NewQuantizer(m.bits) = QuantizerFields /\ NewQuantizer(m.bits).bits = m.bits
  BY DEF NewQuantizer, QuantizerFields
<1> DEFINE b == NewQuantizer(m.bits)
           x == means.stats.count
           y == means.stats.mean
           z == means.stats.m2
<1>3. q = [b EXCEPT !.count = x, !.mean = y, !.m2 = z] /\ DOMAIN b = QuantizerFields /\ b.bits = m.bits
  BY <1>1, <1>2, Zenon
<1> HIDE DEF b, x, y, z
<1>4. DOMAIN q = QuantizerFields /\ q.bits = m.bits /\ q.count = x /\ q.mean = y /\ q.m2 = z
  BY <1>3 DEF QuantizerFields
<1>5. PICK p \in QuantizerPointer(m) : p = StatsPointer /\ means.type \in {"SbqMeansV1", "SbqMeans"}
  BY DEF LoadQuantizer
<1>6. m.quantizer = StatsPointer /\ StorageOfByte(m.storage) = {"SbqCompression"}
  BY <1>5 DEF QuantizerPointer
<1> QED BY <1>1, <1>4, <1>5, <1>6 DEF x, y, z

\* Samples that do not differ in a dimension: their value is its mean, and the
\* squared distances from it are zero.
LEMMA FlatStatistics ==
  ASSUME NEW q, NEW m, NEW row, NEW S, IsFiniteSet(S), Trained(q, m, row, S), q.bits > 1,
         NEW i \in 1..m.indexed, \A n \in S : VectorOf(m, row, n)[i] \in Int,
         \A a, b \in S : VectorOf(m, row, a)[i] = VectorOf(m, row, b)[i]
  PROVE  /\ q.m2[i] = 0 /\ q.mean[i] \in Int /\ q.count \in Nat /\ (q.count > 0 <=> S # {})
         /\ \A a \in S : q.mean[i] = Scale * VectorOf(m, row, a)[i]
<1> DEFINE at  == [n \in S |-> Scale * VectorOf(m, row, n)[i]]
           off == [n \in S |-> (at[n] - q.mean[i]) * (at[n] - q.mean[i])]
<1>1. /\ q.count = Cardinality(S) /\ q.mean[i] \in Int
      /\ q.count * q.mean[i] = SumFunctionOnSet(at, S) /\ q.m2[i] = SumFunctionOnSet(off, S)
  BY DEF Trained
<1>2. q.count \in Nat /\ (q.count > 0 <=> S # {})
  BY <1>1, FS_CardinalityType, FS_EmptySet
<1>3. ASSUME NEW a \in S PROVE q.mean[i] = Scale * VectorOf(m, row, a)[i]
  <2> DEFINE c == Scale * VectorOf(m, row, a)[i]
  <2>1. c \in Int
    BY ScaleAssumption
  <2>2. \A x \in S : at[x] = c
    OBVIOUS
  <2> HIDE DEF c, at
  <2>3. SumFunctionOnSet(at, S) = Cardinality(S) * c
    BY <2>1, <2>2, SumConstant
  <2>4. q.count * q.mean[i] = q.count * c /\ q.count > 0
    BY <1>1, <1>2, <2>3
  <2>5. \A k \in Nat : \A x, y \in Int : k > 0 /\ k * x = k * y => x = y
    <3> SUFFICES ASSUME NEW k \in Nat, NEW x \in Int, NEW y \in Int, k > 0, k * x = k * y PROVE x = y
      OBVIOUS
    <3>1. k * (x - y) = 0
      OBVIOUS
    <3>2. x - y > 0 => k * (x - y) > 0
      OBVIOUS
    <3>3. x - y < 0 => k * (x - y) < 0
      OBVIOUS
    <3> QED BY <3>1, <3>2, <3>3
  <2>6. q.mean[i] = c
    BY <1>1, <1>2, <2>1, <2>4, <2>5
  <2> QED BY <2>6 DEF c
<1>4. SumFunctionOnSet(off, S) = 0
  <2>1. \A x \in S : off[x] = 0
    <3> SUFFICES ASSUME NEW x \in S PROVE off[x] = 0
      OBVIOUS
    <3>1. at[x] = q.mean[i]
      BY <1>3
    <3> HIDE DEF at
    <3> QED BY <1>1, <3>1
  <2> HIDE DEF off
  <2>2. SumFunctionOnSet(off, S) = Cardinality(S) * 0
    BY <2>1, SumConstant
  <2> QED BY <1>1, <1>2, <2>2
<1> QED BY <1>1, <1>2, <1>3, <1>4

--------------------------------------------------------------------------------
(***************************************************************************)
(* The invariant implies what the runs check                               *)
(***************************************************************************)

\* What the invariant says of training.
LEMMA InvTrainedExactly == IInv => TrainedExactly
<1> SUFFICES ASSUME IInv, phase = "train" PROVE TrainedExactly
  BY DEF TrainedExactly
<1>1. Trained(session.quantizer, session.meta, heap.row, Sampled)
  BY DEF IInv, PhaseInv
<1>2. \A n : Vector(session.meta, n) = VectorOf(session.meta, heap.row, n)
  BY DEF Vector, VectorOf
<1>3. session.quantizer.count = Cardinality(Sampled)
  BY <1>1 DEF Trained
<1>4. ASSUME NEW i \in 1..session.meta.indexed
      PROVE  LET q   == session.quantizer
                 at  == [n \in Sampled |-> Scale * Vector(session.meta, n)[i]]
                 off == [n \in Sampled |-> (at[n] - q.mean[i]) * (at[n] - q.mean[i])]
             IN  /\ q.count * q.mean[i] = SumFunctionOnSet(at, Sampled)
                 /\ q.bits > 1 => q.m2[i] = SumFunctionOnSet(off, Sampled)
  BY <1>1, <1>2, <1>4, Zenon DEF Trained
<1> QED BY <1>3, <1>4, Zenon DEF TrainedExactly

\* What it says of an index that opens: every node is of the layout its metadata name.
LEMMA InvOpensAsBuilt == IInv => OpensAsBuilt
<1> SUFFICES ASSUME IInv, phase \in {"graph", "ready", "plain"}
             PROVE  ~GivenUp(page0) <=> \E m \in Fetch(page0) : Usable(m)
  BY DEF OpensAsBuilt
<1>1. ~GivenUp(page0) <=> \E m \in Fetch(page0) : Loadable(m)
  BY DEF IInv, Opens
<1>2. ASSUME NEW m \in Fetch(page0) PROVE Usable(m) <=> Loadable(m)
  <2>1. Usable(m) => Loadable(m)
    BY DEF Usable, Loadable
  <2>2. ASSUME NEW q \in LoadQuantizer(m), NEW n \in Written
        PROVE  nodes[n].type = Layout(m)
    <3>1. Stored(nodes[n], m, q, heap.row, n, Written)
      BY DEF IInv, NodesInv
    <3> QED BY <3>1 DEF Stored
  <2>3. Loadable(m) => Usable(m)
    BY <2>2 DEF Usable, Loadable
  <2> QED BY <2>1, <2>3
<1> QED BY <1>1, <1>2

\* What it says of the cache: entries are codes of nodes, and the nodes have these codes.
LEMMA InvCacheSound == IInv => CacheSound
<1> SUFFICES ASSUME IInv, Open, Caching PROVE CacheSound
  BY DEF CacheSound
<1> DEFINE c == session.cache
           E == Entries(session, heap.row, Written)
<1>1. Holds(c, E)
  BY DEF IInv, ReaderInv, SessionInv, CacheInv, Caching
<1>2. OneEntryPerKey(E)
  BY DEF Entries, OneEntryPerKey
<1>3. \A n \in Written : nodes[n].code = CodeOf(session, heap.row, n)
  BY DEF IInv, ReaderInv, NodesInv, Stored, CodeOf
<1>4. DOMAIN c.entries = 1..Len(c.entries)
  BY <1>1, LenProperties DEF Holds
<1>5. ASSUME NEW n \in LruKeys(c) PROVE n \in Written /\ LruValue(c, n) = nodes[n].code
  <2>1. PICK i \in DOMAIN c.entries : c.entries[i].key = n
    BY <1>5 DEF LruKeys
  <2>2. c.entries[i] \in E
    BY <1>1, <1>4, ElementOfSeq DEF Holds
  <2>3. PICK k \in Written : c.entries[i] = [key |-> k, value |-> CodeOf(session, heap.row, k)]
    BY <2>2 DEF Entries
  <2>4. n \in Written /\ [key |-> n, value |-> CodeOf(session, heap.row, n)] \in E
    BY <2>1, <2>3 DEF Entries
  <2>5. LruValue(c, n) = CodeOf(session, heap.row, n)
    <3> HIDE DEF E, c
    <3> QED BY <1>1, <1>2, <2>4, <1>5, LruValueHeld
  <2> QED BY <1>3, <2>4, <2>5
<1>6. DistinctKeys(c.entries) /\ Len(c.entries) <= c.cap
      /\ Len(c.entries) = c.stats.inserts - c.stats.evictions
  BY <1>1 DEF Holds
<1> QED BY <1>4, <1>5, <1>6 DEF CacheSound, DistinctKeys

\* What it says of distances: codes are those of the rows, and measure their ranges.
LEMMA InvDistancesTrue == IInv => DistancesTrue
<1> SUFFICES ASSUME IInv, Open PROVE DistancesTrue
  BY DEF DistancesTrue
<1> DEFINE q == session.quantizer
           m == session.meta
<1>1. /\ m \in Fetch(page0) /\ q \in LoadQuantizer(m)
      /\ SearchInv(session, heap.row, Written) /\ CallInv(session, heap.row, Written)
  BY DEF IInv, ReaderInv, SessionInv
<1>2. MetaSound(m) /\ heap.row \in Tables(m.dims)
  BY <1>1 DEF IInv, TableInv
<1>3. q = StoredQuantizer /\ q.bits \in Nat \ {0} /\ m.indexed \in Nat
  <2>1. q = StoredQuantizer
    BY <1>1, LoadedQuantizer, Zenon DEF StoredQuantizer
  <2>2. q.bits = m.bits
    BY <1>1, LoadedQuantizer
  <2> QED BY <1>2, <2>1, <2>2 DEF MetaSound
<1>4. \A n \in Written : n \in Node /\ heap.row[n].vec # Null
  BY DEF IInv, NodesInv, Indexed, Written
<1>5. ASSUME NEW v, NEW w, DOMAIN v = 1..m.indexed, DOMAIN w = 1..m.indexed
      PROVE  DistanceXor(Quantize(q, w), Quantize(q, v)) = LevelDistance(v, w)
  <2>1. DistanceXor(Quantize(q, v), Quantize(q, w))
          = SumFunction([i \in DOMAIN v |-> Apart(Level(q, i, v[i]), Level(q, i, w[i]))])
    <3> HIDE DEF q, m
    <3> QED BY <1>3, <1>5, CodesMeasureLevels
  <2>2. DistanceXor(Quantize(q, v), Quantize(q, w)) = LevelDistance(v, w)
    BY <1>3, <2>1, Zenon DEF LevelDistance
  <2> QED BY <2>2, XorSymmetric
<1>6. \A n \in Written : DOMAIN VectorOf(m, heap.row, n) = 1..m.indexed
  BY <1>2, <1>4, VectorOfRow
<1>7. \A n : Vector(m, n) = VectorOf(m, heap.row, n)
  BY DEF Vector, VectorOf
<1>8. ASSUME NEW c \in session.candidates
      PROVE  c.distance = LevelDistance(session.query.vec, Vector(m, c.node))
  <2>1. PICK n \in session.inserted : c = CandidateOf(session, heap.row, n)
    BY <1>1, <1>8 DEF SearchInv
  <2>2. n \in Written /\ session.query # Null
    BY <1>1, <2>1 DEF SearchInv
  <2>3. /\ DOMAIN session.query.vec = 1..m.indexed
        /\ session.query.code = Quantize(q, session.query.vec)
    BY <1>1, <2>2 DEF SearchInv, QuerySound
  <2>4. c.node = n /\ c.distance = DistanceXor(Quantize(q, VectorOf(m, heap.row, n)), session.query.code)
    BY <2>1 DEF CandidateOf, CodeOf
  <2> HIDE DEF q, m
  <2>5. c.distance = LevelDistance(session.query.vec, VectorOf(m, heap.row, n))
    BY <1>5, <1>6, <2>2, <2>3, <2>4
  <2> QED BY <1>7, <2>4, <2>5
<1>9. ASSUME NEW a \in session.answers
      PROVE  a.distance = LevelDistance(Vector(m, session.of), Vector(m, a.node))
  <2>1. session.call \in {"measure", "neighbors"}
    BY <1>1, <1>9 DEF CallInv
  <2>2. session.of \in Written /\ session.code = CodeOf(session, heap.row, session.of)
    BY <1>1, <2>1 DEF CallInv
  <2>3. PICK n \in Written : a = AnswerOf(session, heap.row, n)
    BY <1>1, <1>9, <2>1 DEF CallInv
  <2>4. /\ a.node = n
        /\ a.distance = DistanceXor(Quantize(q, VectorOf(m, heap.row, n)),
                                    Quantize(q, VectorOf(m, heap.row, session.of)))
    BY <2>2, <2>3 DEF AnswerOf, CodeOf
  <2> HIDE DEF q, m
  <2>5. a.distance = LevelDistance(VectorOf(m, heap.row, session.of), VectorOf(m, heap.row, n))
    BY <1>5, <1>6, <2>2, <2>4
  <2> QED BY <1>7, <2>4, <2>5
<1> QED BY <1>8, <1>9 DEF DistancesTrue

\* What it says of candidates: sorted label arrays are compared as sets.
LEMMA InvFilterExact == IInv => FilterExact
<1> SUFFICES ASSUME IInv, Open, session.query # Null PROVE FilterExact
  BY DEF FilterExact
<1>1. session.meta \in Fetch(page0) /\ SearchInv(session, heap.row, Written)
  BY DEF IInv, ReaderInv, SessionInv
<1>2. heap.row \in Tables(session.meta.dims)
  BY <1>1 DEF IInv, TableInv
<1>3. session.query.labels = Null \/ (session.meta.labels /\ IsLabelSet(session.query.labels))
  BY <1>1 DEF SearchInv, QuerySound
<1>4. session.inserted \subseteq Node
  BY <1>1 DEF SearchInv, Written
<1>5. ASSUME NEW n \in session.inserted
      PROVE  Keeps(session, heap.row, n)
               <=> \/ session.unfiltered \/ session.query.labels = Null
                   \/ LabelsInRow(n) \cap ToSet(session.query.labels) # {}
  <2>1. CASE session.query.labels = Null
    BY <2>1 DEF Keeps
  <2>2. CASE session.query.labels # Null
    <3>1. session.meta.labels /\ IsLabelSet(session.query.labels) /\ n \in Node
      BY <1>3, <1>4, <1>5, <2>2
    <3>2. /\ IsLabelSet(LabelsOf(session.meta, heap.row, n))
          /\ ToSet(LabelsOf(session.meta, heap.row, n)) = LabelsInRow(n)
      BY <1>2, <3>1, LabelsOfRow DEF LabelsInRow
    <3>3. Overlaps(session.query.labels, LabelsOf(session.meta, heap.row, n))
            <=> ToSet(session.query.labels) \cap ToSet(LabelsOf(session.meta, heap.row, n)) # {}
      BY <3>1, <3>2, OverlapsCorrect
    <3>4. Overlaps(session.query.labels, LabelsOf(session.meta, heap.row, n))
            <=> LabelsInRow(n) \cap ToSet(session.query.labels) # {}
      BY <3>2, <3>3
    <3> QED BY <2>2, <3>4 DEF Keeps
  <2> QED BY <2>1, <2>2
<1> DEFINE kept == {k \in session.inserted : k \in session.starts \/ Keeps(session, heap.row, k)}
<1>6. {c.node : c \in session.candidates} = kept
  <2>1. session.candidates = {CandidateOf(session, heap.row, n) : n \in kept}
    BY <1>1 DEF SearchInv
  <2>2. \A n : CandidateOf(session, heap.row, n).node = n
    BY DEF CandidateOf
  <2> HIDE DEF kept
  <2> QED BY <2>1, <2>2
<1>7. kept = {n \in session.inserted :
                \/ n \in session.starts \/ session.unfiltered \/ session.query.labels = Null
                \/ LabelsInRow(n) \cap ToSet(session.query.labels) # {}}
  BY <1>5
<1> QED BY <1>6, <1>7 DEF FilterExact

--------------------------------------------------------------------------------
(***************************************************************************)
(* Lists of neighbors                                                      *)
(***************************************************************************)

\* Lists of a graph are sequences of nodes.
LEMMA ListsOfNodes ==
  ASSUME NEW n, NEW k \in Nat, NEW list \in Lists(n, k)
  PROVE  list \in Seq(Written) /\ Len(list) \in 0..k /\ \A i \in 1..Len(list) : list[i] \in Written
<1>1. PICK l \in 0..k : list \in [1..l -> Written \ {n}]
  BY DEF Lists
<1>2. list \in [1..l -> Written] /\ l \in Nat
  BY <1>1
<1>3. list \in Seq(Written)
  BY <1>2, SeqDef
<1>4. Len(list) = l
  <2>1. DOMAIN list = 1..l /\ DOMAIN list = 1..Len(list) /\ Len(list) \in Nat
    BY <1>2, <1>3, LenProperties
  <2> QED BY <1>2, <2>1
<1> QED BY <1>2, <1>3, <1>4

\* A list written into the slots leaves nodes and invalid pointers.
LEMMA SlotsAfter ==
  ASSUME NEW K \in Nat, NEW W, NEW slots \in [1..K -> W \cup {InvalidPointer}],
         NEW list, \A i \in 1..Len(list) : list[i] \in W, Len(list) \in Nat
  PROVE  Page(K)!SetNeighbors(slots, list) \in [1..K -> W \cup {InvalidPointer}]
<1>1. Page(K)!SetNeighbors(slots, list) =
        [i \in 1..K |-> IF i <= Len(list) THEN list[i]
                        ELSE IF i = Len(list) + 1 THEN InvalidPointer ELSE slots[i]]
  BY DEF Page!SetNeighbors
<1>2. \A i \in 1..K : i <= Len(list) => list[i] \in W
  OBVIOUS
<1> QED BY <1>1, <1>2

\* A new node has no neighbors.
LEMMA SlotsEmpty ==
  ASSUME NEW K \in Nat, NEW W
  PROVE  Page(K)!EmptySlots \in [1..K -> W \cup {InvalidPointer}]
BY DEF Page!EmptySlots

\* The neighbors on a page are nodes.
LEMMA NeighborsRead ==
  ASSUME NEW K \in Nat, NEW W \in SUBSET Node, NEW slots \in [1..K -> W \cup {InvalidPointer}]
  PROVE  Page(K)!IterNeighbors(slots) \in Seq(W)
<1> DEFINE T == {k \in 0..K : k < K => slots[k + 1] = InvalidPointer}
           End(k) == /\ \A i \in 1..k : slots[i] # InvalidPointer
                     /\ k < K => slots[k + 1] = InvalidPointer
           k0 == CHOOSE k \in 0..K : End(k)
<1>1. \E k \in 0..K : End(k)
  <2>1. K \in T /\ T \in SUBSET Nat
    OBVIOUS
  <2>2. PICK k \in T : \A j \in T : k <= j
    <3> HIDE DEF T
    <3> QED BY <2>1, Least
  <2>3. ASSUME NEW i \in 1..k PROVE slots[i] # InvalidPointer
    <3>1. i - 1 \in 0..K /\ i - 1 < K /\ i - 1 < k /\ (i - 1) + 1 = i
      BY <2>2
    <3>2. i - 1 \notin T
      BY <2>2, <3>1
    <3> QED BY <3>1, <3>2
  <2>4. k \in 0..K /\ (k < K => slots[k + 1] = InvalidPointer)
    BY <2>2
  <2> QED BY <2>3, <2>4
<1>2. k0 \in 0..K /\ End(k0)
  BY <1>1, Zenon
<1>3. Page(K)!StoredNeighbors(slots) = k0
  BY DEF Page!StoredNeighbors
<1>4. Page(K)!IterNeighbors(slots) = [i \in 1..Page(K)!StoredNeighbors(slots) |-> slots[i]]
  BY Zenon DEF Page!IterNeighbors
<1> HIDE DEF k0
<1>5. \A i \in 1..k0 : slots[i] \in W
  BY <1>2
<1>6. [i \in 1..k0 |-> slots[i]] \in [1..k0 -> W] /\ k0 \in Nat
  BY <1>2, <1>5
<1>7. [i \in 1..k0 |-> slots[i]] \in Seq(W)
  BY <1>6, SeqDef
<1> QED BY <1>3, <1>4, <1>7, Zenon

--------------------------------------------------------------------------------
(***************************************************************************)
(* What a step leaves alone                                                *)
(***************************************************************************)

\* A cache stays sound while nodes are added.
LEMMA CacheKept ==
  ASSUME NEW s, NEW t, NEW row, NEW W, NEW V, W \subseteq V,
         t.mode = s.mode, t.cache = s.cache, t.meta = s.meta, t.quantizer = s.quantizer,
         CacheInv(s, row, W)
  PROVE  CacheInv(t, row, V)
<1>1. Entries(s, row, W) \subseteq Entries(t, row, V)
  BY DEF Entries, CodeOf
<1> QED BY <1>1, HoldsMore DEF CacheInv

\* So does a search,
LEMMA SearchKept ==
  ASSUME NEW s, NEW t, NEW row, NEW W, NEW V, W \subseteq V,
         t.meta = s.meta, t.quantizer = s.quantizer, t.query = s.query,
         t.unfiltered = s.unfiltered, t.inserted = s.inserted, t.starts = s.starts,
         t.candidates = s.candidates, SearchInv(s, row, W)
  PROVE  SearchInv(t, row, V)
<1>1. QuerySound(t)
  BY DEF SearchInv, QuerySound
<1>2. \A n : (Keeps(t, row, n) <=> Keeps(s, row, n)) /\ CandidateOf(t, row, n) = CandidateOf(s, row, n)
  BY DEF Keeps, CandidateOf, CodeOf
<1>3. t.candidates = {CandidateOf(t, row, n) : n \in {k \in t.inserted : k \in t.starts \/ Keeps(t, row, k)}}
  BY <1>2 DEF SearchInv
<1> QED BY <1>1, <1>3 DEF SearchInv

\* and a call.
LEMMA CallKept ==
  ASSUME NEW s, NEW t, NEW row, NEW W, NEW V, W \subseteq V,
         t.mode = s.mode, t.meta = s.meta, t.quantizer = s.quantizer, t.query = s.query,
         t.call = s.call, t.of = s.of, t.code = s.code, t.todo = s.todo, t.answers = s.answers,
         CallInv(s, row, W)
  PROVE  CallInv(t, row, V)
<1>1. \A n : AnswerOf(t, row, n) = AnswerOf(s, row, n) /\ CodeOf(t, row, n) = CodeOf(s, row, n)
  BY DEF AnswerOf, CodeOf
<1>2. t.todo \in Seq(V)
  BY SeqMonotonic DEF CallInv
<1> QED BY <1>1, <1>2 DEF CallInv

\* A session bears that others add nodes.
LEMMA SessionMore ==
  ASSUME NEW s, NEW row, NEW W, NEW V, W \subseteq V, SessionInv(s, row, W)
  PROVE  SessionInv(s, row, V)
BY CacheKept, SearchKept, CallKept DEF SessionInv

\* What is fetched is one piece of metadata; stored, it is fetched again.
LEMMA FetchOne ==
  ASSUME NEW page, NEW m \in Fetch(page)
  PROVE  ValidDimensions(m.dims, m.indexed) /\ Fetch(StoredMeta(m)) = {m} /\ Fetch(page) = {m}
<1>1. ValidDimensions(m.dims, m.indexed)
  BY DEF Fetch
<1>2. Fetch(StoredMeta(m)) = {m}
  BY <1>1 DEF Fetch, StoredMeta
<1>3. \A p \in Fetch(page) : p = m
  <2>1. CASE page.type = "MetaV1"
    <3>1. Fetch(page) \subseteq OfV1(page.meta)
      BY <2>1 DEF Fetch
    <3> QED BY <3>1 DEF OfV1
  <2>2. CASE page.type = "MetaV2"
    <3>1. Fetch(page) \subseteq OfV2(page.meta)
      BY <2>2 DEF Fetch
    <3> QED BY <3>1 DEF OfV2
  <2>3. CASE page.type = "Meta"
    BY <2>3 DEF Fetch
  <2>4. CASE page.type \notin {"MetaV1", "MetaV2", "Meta"}
    BY <2>4 DEF Fetch
  <2> QED BY <2>1, <2>2, <2>3, <2>4
<1> QED BY <1>1, <1>2, <1>3

\* A session is open on an index that is being built or is ready, and reads its nodes.
LEMMA OpenReads ==
  ASSUME IInv, Open
  PROVE  /\ phase \in {"graph", "ready"}
         /\ session.meta \in Fetch(page0) /\ session.quantizer \in LoadQuantizer(session.meta)
         /\ MetaSound(session.meta) /\ heap.row \in Tables(session.meta.dims)
         /\ SessionInv(session, heap.row, Written)
         /\ \A n \in Written :
              /\ n \in Node /\ heap.row[n].vec # Null
              /\ Stored(nodes[n], session.meta, session.quantizer, heap.row, n, Written)
              /\ nodes[n].code = CodeOf(session, heap.row, n)
              /\ nodes[n].labels = LabelsOf(session.meta, heap.row, n)
<1>1. phase \in {"graph", "ready"}
  BY DEF IInv, PhaseInv, Open, Closed
<1>2. /\ session.meta \in Fetch(page0) /\ session.quantizer \in LoadQuantizer(session.meta)
      /\ SessionInv(session, heap.row, Written)
  BY DEF IInv, ReaderInv
<1>3. MetaSound(session.meta) /\ heap.row \in Tables(session.meta.dims)
  BY <1>2 DEF IInv, TableInv
<1>4. ASSUME NEW n \in Written
      PROVE  /\ n \in Node /\ heap.row[n].vec # Null
             /\ Stored(nodes[n], session.meta, session.quantizer, heap.row, n, Written)
  BY <1>2 DEF IInv, NodesInv, Indexed, Written
<1>5. \A n \in Written : /\ nodes[n].code = CodeOf(session, heap.row, n)
                         /\ nodes[n].labels = LabelsOf(session.meta, heap.row, n)
  BY <1>4 DEF Stored, CodeOf
<1> QED BY <1>1, <1>2, <1>3, <1>4, <1>5

\* The pages of metadata and statistics stay as they are, and what is said of them.
LEMMA PagesSame ==
  ASSUME Opens, StatsInv, UNCHANGED << heap, request, page0, means >>,
         phase' = phase \/ (phase \in {"graph", "ready"} /\ phase' \in {"graph", "ready"})
  PROVE  Opens' /\ StatsInv'
<1>1. \A m : Loadable(m)' <=> Loadable(m)
  BY DEF Loadable, LoadQuantizer
<1>2. TrainedRows' = TrainedRows
  BY DEF TrainedRows, Indexed
<1>3. GivenUp(page0') <=> GivenUp(page0)
  OBVIOUS
<1>4. Opens'
  <2>1. phase' \in {"graph", "ready", "plain"} => phase \in {"graph", "ready", "plain"}
    OBVIOUS
  <2>2. (\E m \in Fetch(page0') : Loadable(m)') <=> \E m \in Fetch(page0) : Loadable(m)
    BY <1>1, Zenon
  <2> QED BY <1>3, <2>1, <2>2, Zenon DEF Opens
<1>5. StatsInv'
  <2>1. request' = request /\ (phase' \in {"graph", "ready"} => phase \in {"graph", "ready"})
        /\ page0' = page0 /\ means' = means /\ heap' = heap
    OBVIOUS
  <2> QED BY <1>2, <2>1, Zenon DEF StatsInv
<1> QED BY <1>4, <1>5

\* The invariant after a step of an open session: only it and nodes have changed.
LEMMA SessionStep ==
  ASSUME IInv, Open, UNCHANGED << phase, heap, request, page0, means >>, NodesInv',
         session'.mode = session.mode, session'.meta = session.meta,
         session'.quantizer = session.quantizer,
         SessionInv(session', heap.row, Written')
  PROVE  IInv'
<1>1. phase \in {"graph", "ready"}
  BY OpenReads
<1>2. Open'
  BY DEF Open
<1>3. PhaseInv'
  BY <1>1, <1>2 DEF IInv, PhaseInv
<1>4. TableInv' /\ Opens' /\ StatsInv'
  BY PagesSame DEF IInv, TableInv
<1>5. LoadQuantizer(session.meta)' = LoadQuantizer(session.meta)
  BY DEF LoadQuantizer
<1>6. /\ session'.meta \in Fetch(page0') /\ session'.quantizer \in LoadQuantizer(session.meta)
      /\ (session'.mode = "build" => phase' = "graph")
  BY DEF IInv, ReaderInv
<1>7. ReaderInv'
  BY <1>5, <1>6 DEF ReaderInv, LoadQuantizer
<1> QED BY <1>3, <1>4, <1>7 DEF IInv

\* Nodes as they were.
LEMMA NodesSame ==
  ASSUME NodesInv, UNCHANGED << phase, heap, page0, means, nodes >>
  PROVE  NodesInv' /\ Written' = Written
<1>1. Written' = Written
  BY DEF Written
<1>2. ASSUME NEW k \in Written'
      PROVE  Indexed(k)' /\ \A p \in Fetch(page0') : \A r \in LoadQuantizer(p)' :
                              Stored(nodes'[k], p, r, heap'.row, k, Written')
  <2>1. \A p : LoadQuantizer(p)' = LoadQuantizer(p)
    BY DEF LoadQuantizer
  <2>2. Indexed(k)' <=> Indexed(k)
    BY DEF Indexed
  <2>3. Indexed(k) /\ \A p \in Fetch(page0) : \A r \in LoadQuantizer(p) :
                        Stored(nodes[k], p, r, heap.row, k, Written)
    BY <1>1, <1>2 DEF NodesInv
  <2>4. nodes' = nodes /\ page0' = page0 /\ heap' = heap
    OBVIOUS
  <2> QED BY <1>1, <2>1, <2>2, <2>3, <2>4, Zenon
<1> QED BY <1>1, <1>2 DEF NodesInv, LoadQuantizer

\* Links and other pages matter no more than that they are there.
LEMMA StoredMore ==
  ASSUME NEW node, NEW m, NEW q, NEW row, NEW n, NEW W, NEW V, W \subseteq V,
         Stored(node, m, q, row, n, W)
  PROVE  Stored(node, m, q, row, n, V)
<1>1. [1..m.neighbors -> W \cup {InvalidPointer}] \subseteq [1..m.neighbors -> V \cup {InvalidPointer}]
  OBVIOUS
<1> QED BY <1>1 DEF Stored

\* A node is added or changed.
LEMMA NodePut ==
  ASSUME NodesInv, NEW n \in Node, NEW node, nodes' = [nodes EXCEPT ![n] = node],
         phase \in {"graph", "ready"}, UNCHANGED << phase, heap, page0, means >>, Indexed(n),
         NEW m \in Fetch(page0), NEW q \in LoadQuantizer(m),
         Stored(node, m, q, heap.row, n, Written \cup {n})
  PROVE  NodesInv' /\ Written' = Written \cup {n}
<1>1. DOMAIN nodes' = Node /\ nodes'[n] = node /\ \A k \in Node \ {n} : nodes'[k] = nodes[k]
  BY DEF NodesInv
<1>2. node.type # "none"
  BY DEF Stored, Layout
<1>3. Written' = Written \cup {n}
  BY <1>1, <1>2 DEF Written
<1>4. \A p \in Fetch(page0) : p = m
  BY FetchOne
<1>5. \A r \in LoadQuantizer(m) : r = q
  BY DEF LoadQuantizer
<1>6. ASSUME NEW k \in Written \cup {n}
      PROVE  Indexed(k) /\ Stored(nodes'[k], m, q, heap.row, k, Written \cup {n})
  <2>1. CASE k = n
    BY <1>1, <2>1
  <2>2. CASE k # n
    <3>1. k \in Written /\ nodes'[k] = nodes[k]
      BY <1>1, <2>2 DEF Written
    <3>2. Indexed(k) /\ Stored(nodes[k], m, q, heap.row, k, Written)
      BY <3>1 DEF NodesInv
    <3> QED BY <3>1, <3>2, StoredMore
  <2> QED BY <2>1, <2>2
<1>7. ASSUME NEW k \in Written'
      PROVE  Indexed(k)' /\ \A p \in Fetch(page0') : \A r \in LoadQuantizer(p)' :
                              Stored(nodes'[k], p, r, heap'.row, k, Written')
  <2>1. \A p : LoadQuantizer(p)' = LoadQuantizer(p)
    BY DEF LoadQuantizer
  <2>2. Indexed(k)'
    BY <1>3, <1>6, <1>7 DEF Indexed
  <2> QED BY <1>3, <1>4, <1>5, <1>6, <1>7, <2>1, <2>2, Zenon
<1> QED BY <1>1, <1>3, <1>7 DEF NodesInv, LoadQuantizer

\* A node as a session writes it.
LEMMA NewNodeStored ==
  ASSUME NEW m, MetaSound(m), NEW q, NEW n, NEW W
  PROVE  Stored(NewNode(m, q, n), m, q, heap.row, n, W)
<1>1. Page(m.neighbors)!EmptySlots \in [1..m.neighbors -> W \cup {InvalidPointer}]
  BY SlotsEmpty DEF MetaSound
<1> QED BY <1>1 DEF Stored, NewNode, NodeFields, Vector, VectorOf, LabelsOf

--------------------------------------------------------------------------------
(***************************************************************************)
(* The steps of a session                                                  *)
(***************************************************************************)

\* A node more that the search has seen: a candidate, if it starts the search or
\* passes the filter.
LEMMA SearchGrows ==
  ASSUME NEW s, NEW t, NEW row, NEW W, SearchInv(s, row, W), s.query # Null, NEW n \in W,
         t.meta = s.meta, t.quantizer = s.quantizer, t.query = s.query, t.unfiltered = s.unfiltered,
         t.inserted = s.inserted \cup {n}, t.starts = s.starts \/ t.starts = s.starts \cup {n},
         t.candidates = IF n \in t.starts \/ Keeps(s, row, n)
                          THEN s.candidates \cup {CandidateOf(s, row, n)} ELSE s.candidates
  PROVE  SearchInv(t, row, W)
<1>1. QuerySound(t)
  BY DEF SearchInv, QuerySound
<1>2. \A k : (Keeps(t, row, k) <=> Keeps(s, row, k)) /\ CandidateOf(t, row, k) = CandidateOf(s, row, k)
  BY DEF Keeps, CandidateOf, CodeOf
<1> DEFINE old == {k \in s.inserted : k \in s.starts \/ Keeps(s, row, k)}
           new == {k \in t.inserted : k \in t.starts \/ Keeps(t, row, k)}
<1>3. s.candidates = {CandidateOf(s, row, k) : k \in old} /\ s.starts \subseteq s.inserted
  BY DEF SearchInv
<1>4. new = IF n \in t.starts \/ Keeps(s, row, n) THEN old \cup {n} ELSE old
  BY <1>2, <1>3
<1> HIDE DEF old, new
<1>5. t.candidates = {CandidateOf(s, row, k) : k \in new}
  <2>1. CASE n \in t.starts \/ Keeps(s, row, n)
    <3>1. {CandidateOf(s, row, k) : k \in old \cup {n}} = {CandidateOf(s, row, k) : k \in old} \cup {CandidateOf(s, row, n)}
      OBVIOUS
    <3> QED BY <1>3, <1>4, <2>1, <3>1
  <2>2. CASE ~(n \in t.starts \/ Keeps(s, row, n))
    BY <1>3, <1>4, <2>2
  <2> QED BY <2>1, <2>2
<1>6. t.candidates = {CandidateOf(t, row, k) : k \in new}
  BY <1>2, <1>5
<1>7. /\ t.query # Null /\ t.starts \subseteq t.inserted /\ t.inserted \subseteq W
  BY DEF SearchInv
<1> QED BY <1>1, <1>6, <1>7 DEF SearchInv, new

\* A search that begins has no candidates.
LEMMA SearchEmpty ==
  ASSUME NEW s, NEW row, NEW W, QuerySound(s), s.inserted = {}, s.starts = {}, s.candidates = {}
  PROVE  SearchInv(s, row, W)
<1>1. {CandidateOf(s, row, n) : n \in {k \in s.inserted : k \in s.starts \/ Keeps(s, row, k)}} = {}
  OBVIOUS
<1> QED BY <1>1 DEF SearchInv

\* get_or_insert on the cache of a session returns the code of the node.
LEMMA CacheGets ==
  ASSUME IInv, Open, Caching, NEW n \in Written
  PROVE  /\ Holds(CacheAfterGet(n), Entries(session, heap.row, Written))
         /\ CodeFromCache(n) = CodeOf(session, heap.row, n)
<1> DEFINE E == Entries(session, heap.row, Written)
           c == session.cache
           v == CodeOf(session, heap.row, n)
<1>1. Holds(c, E) /\ nodes[n].code = v
  BY OpenReads DEF SessionInv, CacheInv, Caching
<1>2. OneEntryPerKey(E) /\ [key |-> n, value |-> v] \in E
  BY DEF Entries, OneEntryPerKey
<1>3. CacheAfterGet(n) = LruGetOrInsert(c, n, v)
  BY <1>1 DEF CacheAfterGet
<1> HIDE DEF E, c, v
<1>4. Holds(LruGetOrInsert(c, n, v), E) /\ LruValue(LruGetOrInsert(c, n, v), n) = v
  BY <1>1, <1>2, LruGetOrInsertHolds
<1> QED BY <1>3, <1>4, Zenon DEF CodeFromCache, E, v

\* push of a node's code keeps the cache of a session.
LEMMA CachePushed ==
  ASSUME IInv, Open, Caching, NEW n \in Written
  PROVE  Holds(LruPush(session.cache, n, nodes[n].code), Entries(session, heap.row, Written))
<1> DEFINE E == Entries(session, heap.row, Written)
           c == session.cache
           v == nodes[n].code
<1>1. Holds(c, E) /\ v = CodeOf(session, heap.row, n)
  BY OpenReads DEF SessionInv, CacheInv, Caching
<1>2. [key |-> n, value |-> v] \in E
  BY <1>1 DEF Entries
<1> HIDE DEF E, c, v
<1>3. Holds(LruPush(c, n, v), E)
  BY <1>1, <1>2, LruPushHolds
<1> QED BY <1>3 DEF E, c, v

\* A starting point is a candidate whatever its labels.
LEMMA StartNodeStep == ASSUME IInv, NEW n \in Node, StartNode(n) PROVE IInv'
<1> DEFINE s == session
           t == session'
           row == heap.row
           W == Written
           cands == s.candidates \cup {Candidate(n, nodes[n].code)}
<1>1. Open /\ s.query # Null /\ n \in W
  BY DEF StartNode, Ready
<1>2. SessionInv(s, row, W) /\ nodes[n].code = CodeOf(s, row, n)
  BY <1>1, OpenReads
<1>3. NodesInv' /\ Written' = W
  BY NodesSame DEF IInv, StartNode
<1>4. t = [s EXCEPT !.inserted = @ \cup {n}, !.starts = @ \cup {n}, !.candidates = cands]
  BY Zenon DEF StartNode
<1>5. cands = s.candidates \cup {CandidateOf(s, row, n)}
  BY <1>2 DEF Candidate, CandidateOf
<1>6. DOMAIN s = SessionFields
  BY <1>2 DEF SessionInv
<1> HIDE DEF s, t, row, W, cands
<1>7. /\ DOMAIN t = SessionFields /\ t.mode = s.mode /\ t.meta = s.meta /\ t.quantizer = s.quantizer
      /\ t.cache = s.cache /\ t.own = s.own /\ t.query = s.query /\ t.unfiltered = s.unfiltered
      /\ t.inserted = s.inserted \cup {n} /\ t.starts = s.starts \cup {n} /\ t.candidates = cands
      /\ t.call = s.call /\ t.of = s.of /\ t.code = s.code /\ t.todo = s.todo /\ t.answers = s.answers
  BY <1>4, <1>6 DEF SessionFields
<1>8. CacheInv(t, row, W) /\ CallInv(t, row, W)
  BY <1>2, <1>7, CacheKept, CallKept DEF SessionInv
<1>9. SearchInv(t, row, W)
  BY <1>1, <1>2, <1>5, <1>7, SearchGrows DEF SessionInv
<1>10. SessionInv(t, row, W)
  BY <1>2, <1>7, <1>8, <1>9 DEF SessionInv
<1> QED BY <1>1, <1>3, <1>7, <1>10, SessionStep DEF s, t, row, W, StartNode

\* A visit begins with the neighbors of a candidate, which are nodes.
LEMMA VisitStep == ASSUME IInv, NEW n \in Node, Visit(n) PROVE IInv'
<1> DEFINE s == session
           t == session'
           row == heap.row
           W == Written
<1>1. Open /\ s.call = "idle" /\ n \in {c.node : c \in s.candidates}
  BY DEF Visit, Ready
<1>2. /\ SessionInv(s, row, W) /\ MetaSound(s.meta)
      /\ \A k \in W : k \in Node /\ Stored(nodes[k], s.meta, s.quantizer, row, k, W)
  BY <1>1, OpenReads
<1>3. NodesInv' /\ Written' = W
  BY NodesSame DEF IInv, Visit
<1>4. s.query # Null /\ n \in W
  BY <1>1, <1>2 DEF SessionInv, SearchInv, CandidateOf
<1>5. PICK list \in (IF s.mode = "build" THEN Lists(n, s.meta.neighbors) ELSE {NeighborsOnPage(s.meta, n)}) :
         t = [s EXCEPT !.call = "visit", !.of = n, !.todo = list]
  BY Zenon DEF Visit
<1>6. list \in Seq(W)
  <2>1. CASE s.mode = "build"
    BY <1>2, <1>5, <2>1, ListsOfNodes DEF MetaSound
  <2>2. CASE s.mode # "build"
    <3>1. list = Page(s.meta.neighbors)!IterNeighbors(nodes[n].slots)
      BY <1>5, <2>2, Zenon DEF NeighborsOnPage
    <3>2. /\ s.meta.neighbors \in Nat /\ W \in SUBSET Node
          /\ nodes[n].slots \in [1..s.meta.neighbors -> W \cup {InvalidPointer}]
      BY <1>2, <1>4 DEF MetaSound, Stored
    <3> HIDE DEF W
    <3> QED BY <3>1, <3>2, NeighborsRead
  <2> QED BY <2>1, <2>2
<1>7. DOMAIN s = SessionFields
  BY <1>2 DEF SessionInv
<1> HIDE DEF s, t, row, W
<1>8. /\ DOMAIN t = SessionFields /\ t.mode = s.mode /\ t.meta = s.meta /\ t.quantizer = s.quantizer
      /\ t.cache = s.cache /\ t.own = s.own /\ t.query = s.query /\ t.unfiltered = s.unfiltered
      /\ t.inserted = s.inserted /\ t.starts = s.starts /\ t.candidates = s.candidates
      /\ t.call = "visit" /\ t.todo = list /\ t.answers = s.answers
  BY <1>5, <1>7 DEF SessionFields
<1>9. CacheInv(t, row, W) /\ SearchInv(t, row, W)
  BY <1>2, <1>8, CacheKept, SearchKept DEF SessionInv
<1>10. CallInv(t, row, W)
  <2>1. s.answers = {}
    BY <1>1, <1>2 DEF SessionInv, CallInv
  <2> QED BY <1>4, <1>6, <1>8, <2>1 DEF CallInv
<1>11. SessionInv(t, row, W)
  BY <1>2, <1>8, <1>9, <1>10 DEF SessionInv
<1> QED BY <1>1, <1>3, <1>8, <1>11, SessionStep DEF s, t, row, W, Visit

\* A neighbor seen for the first time is a candidate if it passes the filter.
LEMMA VisitNeighborStep == ASSUME IInv, VisitNeighbor PROVE IInv'
<1> DEFINE s == session
           t == session'
           row == heap.row
           W == Written
           n == Head(s.todo)
           rest == Tail(s.todo)
           found == s.inserted \cup {n}
           cache == IF s.mode = "build" THEN CacheAfterGet(n)
                    ELSE IF Caching THEN LruPush(s.cache, n, nodes[n].code) ELSE s.cache
           code == IF s.mode = "build" THEN CodeFromCache(n) ELSE nodes[n].code
           cands == s.candidates \cup {Candidate(n, code)}
           skip == n \in s.inserted \/ ~PassesFilter(n)
<1>1. Open /\ s.call = "visit" /\ s.todo # <<>>
  BY DEF VisitNeighbor
<1>2. /\ SessionInv(s, row, W)
      /\ \A k \in W : nodes[k].code = CodeOf(s, row, k) /\ nodes[k].labels = LabelsOf(s.meta, row, k)
  BY <1>1, OpenReads
<1>3. NodesInv' /\ Written' = W
  BY NodesSame DEF IInv, VisitNeighbor
<1>4. s.query # Null /\ s.todo \in Seq(W)
  BY <1>1, <1>2 DEF SessionInv, CallInv
<1>5. n \in W /\ rest \in Seq(W)
  BY <1>1, <1>4, HeadTailProperties
<1>6. t = IF skip THEN [s EXCEPT !.todo = rest, !.inserted = found]
          ELSE [s EXCEPT !.todo = rest, !.inserted = found, !.cache = cache, !.candidates = cands]
  <2> DEFINE x == [s EXCEPT !.todo = rest, !.inserted = found]
  <2>1. t = IF skip THEN x
            ELSE IF s.mode = "build"
              THEN [x EXCEPT !.cache = CacheAfterGet(n), !.candidates = @ \cup {Candidate(n, CodeFromCache(n))}]
            ELSE [x EXCEPT !.cache = IF Caching THEN LruPush(@, n, nodes[n].code) ELSE @,
                           !.candidates = @ \cup {Candidate(n, nodes[n].code)}]
    BY Zenon DEF VisitNeighbor
  <2>2. DOMAIN s = SessionFields
    BY <1>2 DEF SessionInv
  <2> DEFINE get  == CacheAfterGet(n)
             push == LruPush(s.cache, n, nodes[n].code)
             c1   == Candidate(n, CodeFromCache(n))
             c2   == Candidate(n, nodes[n].code)
  <2>3. cache = IF s.mode = "build" THEN get ELSE IF Caching THEN push ELSE s.cache
    OBVIOUS
  <2>4. cands = s.candidates \cup {IF s.mode = "build" THEN c1 ELSE c2}
    OBVIOUS
  <2>5. x.cache = s.cache /\ x.candidates = s.candidates /\ DOMAIN x = SessionFields
    <3> HIDE DEF s, rest, found
    <3> QED BY <2>2 DEF SessionFields
  <2>6. t = IF skip THEN x
            ELSE IF s.mode = "build" THEN [x EXCEPT !.cache = get, !.candidates = s.candidates \cup {c1}]
            ELSE [x EXCEPT !.cache = IF Caching THEN push ELSE s.cache, !.candidates = s.candidates \cup {c2}]
    BY <2>1, <2>5
  <2> HIDE DEF x, get, push, c1, c2, cache, cands, skip
  <2>7. t = IF skip THEN x ELSE [x EXCEPT !.cache = cache, !.candidates = cands]
    BY <2>3, <2>4, <2>6
  <2>8. [x EXCEPT !.cache = cache, !.candidates = cands]
          = [s EXCEPT !.todo = rest, !.inserted = found, !.cache = cache, !.candidates = cands]
    <3> HIDE DEF s, rest, found
    <3> QED BY <2>2 DEF x, SessionFields
  <2> QED BY <2>7, <2>8 DEF x
<1>7. /\ s.mode # "search" => Holds(cache, Entries(s, row, W))
      /\ code = CodeOf(s, row, n)
  <2>1. Caching <=> s.mode # "search"
    BY <1>1 DEF Caching, Open
  <2>2. s.mode = "build" => /\ Holds(CacheAfterGet(n), Entries(s, row, W))
                            /\ CodeFromCache(n) = CodeOf(s, row, n)
    BY <1>1, <1>5, CacheGets DEF Caching
  <2>3. Caching => Holds(LruPush(s.cache, n, nodes[n].code), Entries(s, row, W))
    BY <1>1, <1>5, CachePushed
  <2> QED BY <1>2, <1>5, <2>1, <2>2, <2>3
<1>8. cands = s.candidates \cup {CandidateOf(s, row, n)}
  BY <1>7 DEF Candidate, CandidateOf
<1>9. PassesFilter(n) <=> Keeps(s, row, n)
  BY <1>2, <1>5 DEF PassesFilter, Keeps
<1>10. DOMAIN s = SessionFields
  BY <1>2 DEF SessionInv
<1>11. skip <=> n \in s.inserted \/ ~Keeps(s, row, n)
  BY <1>9
<1> HIDE DEF s, t, row, W, cache, code, cands, n, rest, skip
<1>12. /\ DOMAIN t = SessionFields /\ t.mode = s.mode /\ t.meta = s.meta /\ t.quantizer = s.quantizer
       /\ t.own = s.own /\ t.query = s.query /\ t.unfiltered = s.unfiltered
       /\ t.cache = (IF skip THEN s.cache ELSE cache)
       /\ t.inserted = found /\ t.starts = s.starts
       /\ t.candidates = (IF skip THEN s.candidates ELSE cands)
       /\ t.call = s.call /\ t.of = s.of /\ t.code = s.code /\ t.todo = rest /\ t.answers = s.answers
  <2> HIDE DEF found
  <2>1. CASE skip
    BY <1>6, <1>10, <2>1 DEF SessionFields
  <2>2. CASE ~skip
    BY <1>6, <1>10, <2>2 DEF SessionFields
  <2> QED BY <2>1, <2>2
<1>13. CacheInv(t, row, W)
  <2>1. Entries(t, row, W) = Entries(s, row, W)
    BY <1>12 DEF Entries, CodeOf
  <2>2. s.mode # "search" => Holds(s.cache, Entries(s, row, W))
    BY <1>2 DEF SessionInv, CacheInv
  <2> QED BY <1>7, <1>12, <2>1, <2>2 DEF CacheInv
<1>14. SearchInv(t, row, W)
  <2>1. SearchInv(s, row, W)
    BY <1>2 DEF SessionInv
  <2>2. t.candidates = IF n \in t.starts \/ Keeps(s, row, n)
                         THEN s.candidates \cup {CandidateOf(s, row, n)} ELSE s.candidates
    <3>1. s.starts \subseteq s.inserted
      BY <2>1 DEF SearchInv
    <3>2. CASE n \in s.inserted
      <4>1. (n \in s.starts \/ Keeps(s, row, n)) => CandidateOf(s, row, n) \in s.candidates
        BY <2>1, <3>2 DEF SearchInv
      <4> QED BY <1>11, <1>12, <3>2, <4>1
    <3>3. CASE n \notin s.inserted
      BY <1>8, <1>11, <1>12, <3>1, <3>3
    <3> QED BY <3>2, <3>3
  <2> QED BY <1>4, <1>5, <1>12, <2>1, <2>2, SearchGrows
<1>15. CallInv(t, row, W)
  <2>1. CallInv(s, row, W)
    BY <1>2 DEF SessionInv
  <2>2. s.call = "visit" /\ s.answers = {}
    BY <1>1, <2>1 DEF CallInv
  <2> QED BY <1>4, <1>5, <1>12, <2>1, <2>2 DEF CallInv
<1>16. SessionInv(t, row, W)
  BY <1>2, <1>12, <1>13, <1>14, <1>15 DEF SessionInv
<1> QED BY <1>1, <1>3, <1>12, <1>16, SessionStep DEF s, t, row, W, VisitNeighbor

\* One answer more to a call that measures.
LEMMA AnswerAdded ==
  ASSUME NEW s, NEW t, NEW row, NEW W, CallInv(s, row, W), s.call \in {"measure", "neighbors"},
         NEW n \in W, t.mode = s.mode, t.meta = s.meta, t.quantizer = s.quantizer,
         t.call = s.call, t.of = s.of, t.code = s.code, t.todo \in Seq(W),
         t.answers = s.answers \cup {AnswerOf(s, row, n)}
  PROVE  CallInv(t, row, W)
<1>1. \A k : AnswerOf(t, row, k) = AnswerOf(s, row, k) /\ CodeOf(t, row, k) = CodeOf(s, row, k)
  BY DEF AnswerOf, CodeOf
<1>2. t.answers \subseteq {AnswerOf(t, row, k) : k \in W}
  BY <1>1 DEF CallInv
<1> QED BY <1>1, <1>2 DEF CallInv

\* The code of a node to measure from, read through the cache.
LEMMA MeasureStep == ASSUME IInv, NEW n \in Node, Measure(n) PROVE IInv'
<1> DEFINE s == session
           t == session'
           row == heap.row
           W == Written
           code == CodeFromCache(n)
           cache == CacheAfterGet(n)
<1>1. Open /\ Caching /\ s.call = "idle" /\ n \in W
  BY DEF Measure, Ready
<1>2. SessionInv(s, row, W)
  BY <1>1, OpenReads
<1>3. NodesInv' /\ Written' = W
  BY NodesSame DEF IInv, Measure
<1>4. t = [s EXCEPT !.call = "measure", !.of = n, !.code = code, !.cache = cache]
  BY Zenon DEF Measure
<1>5. Holds(cache, Entries(s, row, W)) /\ code = CodeOf(s, row, n)
  BY <1>1, CacheGets
<1>6. s.mode # "search"
  BY <1>1 DEF Caching
<1>7. DOMAIN s = SessionFields
  BY <1>2 DEF SessionInv
<1> HIDE DEF s, t, row, W, code, cache
<1>8. /\ DOMAIN t = SessionFields /\ t.mode = s.mode /\ t.meta = s.meta /\ t.quantizer = s.quantizer
      /\ t.own = s.own /\ t.query = s.query /\ t.unfiltered = s.unfiltered /\ t.cache = cache
      /\ t.inserted = s.inserted /\ t.starts = s.starts /\ t.candidates = s.candidates
      /\ t.call = "measure" /\ t.of = n /\ t.code = code /\ t.todo = s.todo /\ t.answers = s.answers
  BY <1>4, <1>7 DEF SessionFields
<1>9. CacheInv(t, row, W)
  BY <1>5, <1>8 DEF CacheInv, Entries, CodeOf
<1>10. SearchInv(t, row, W)
  BY <1>2, <1>8, SearchKept DEF SessionInv
<1>11. CallInv(t, row, W)
  <2>1. s.answers = {} /\ s.todo \in Seq(W)
    BY <1>1, <1>2 DEF SessionInv, CallInv
  <2> QED BY <1>1, <1>5, <1>6, <1>8, <2>1 DEF CallInv, CodeOf
<1>12. SessionInv(t, row, W)
  BY <1>2, <1>8, <1>9, <1>10, <1>11 DEF SessionInv
<1> QED BY <1>1, <1>3, <1>8, <1>12, SessionStep DEF s, t, row, W, Measure

\* A distance between two nodes, both codes read through the cache.
LEMMA MeasureToStep == ASSUME IInv, NEW n \in Node, MeasureTo(n) PROVE IInv'
<1> DEFINE s == session
           t == session'
           row == heap.row
           W == Written
           cache == CacheAfterGet(n)
           answers == s.answers \cup {Answer(n, CodeFromCache(n))}
<1>1. Open /\ s.call = "measure" /\ n \in W
  BY DEF MeasureTo
<1>2. SessionInv(s, row, W)
  BY <1>1, OpenReads
<1>3. NodesInv' /\ Written' = W
  BY NodesSame DEF IInv, MeasureTo
<1>4. t = [s EXCEPT !.cache = cache, !.answers = answers]
  BY Zenon DEF MeasureTo
<1>5. Holds(cache, Entries(s, row, W)) /\ CodeFromCache(n) = CodeOf(s, row, n)
  <2>1. Caching
    BY <1>1, <1>2 DEF SessionInv, CallInv, Caching, Open
  <2> QED BY <1>1, <2>1, CacheGets
<1>6. answers = s.answers \cup {AnswerOf(s, row, n)}
  BY <1>5 DEF Answer, AnswerOf
<1>7. DOMAIN s = SessionFields
  BY <1>2 DEF SessionInv
<1> HIDE DEF s, t, row, W, answers, cache
<1>8. /\ DOMAIN t = SessionFields /\ t.mode = s.mode /\ t.meta = s.meta /\ t.quantizer = s.quantizer
      /\ t.own = s.own /\ t.query = s.query /\ t.unfiltered = s.unfiltered /\ t.cache = cache
      /\ t.inserted = s.inserted /\ t.starts = s.starts /\ t.candidates = s.candidates
      /\ t.call = s.call /\ t.of = s.of /\ t.code = s.code /\ t.todo = s.todo /\ t.answers = answers
  BY <1>4, <1>7 DEF SessionFields
<1>9. CacheInv(t, row, W) /\ SearchInv(t, row, W)
  <2>1. CacheInv(t, row, W)
    BY <1>5, <1>8 DEF CacheInv, Entries, CodeOf
  <2>2. SearchInv(t, row, W)
    BY <1>2, <1>8, SearchKept DEF SessionInv
  <2> QED BY <2>1, <2>2
<1>10. CallInv(t, row, W)
  <2>1. CallInv(s, row, W) /\ t.todo \in Seq(W)
    BY <1>2, <1>8 DEF SessionInv, CallInv
  <2> QED BY <1>1, <1>6, <1>8, <2>1, AnswerAdded
<1>11. SessionInv(t, row, W)
  BY <1>2, <1>8, <1>9, <1>10 DEF SessionInv
<1> QED BY <1>1, <1>3, <1>8, <1>11, SessionStep DEF s, t, row, W, MeasureTo

\* The neighbors of a node and its code, read under one lock.
LEMMA NeighborsStep == ASSUME IInv, NEW n \in Node, Neighbors(n) PROVE IInv'
<1> DEFINE s == session
           t == session'
           row == heap.row
           W == Written
           list == NeighborsOnPage(s.meta, n)
           code == nodes[n].code
<1>1. Open /\ Caching /\ s.call = "idle" /\ n \in W
  BY DEF Neighbors, Ready
<1>2. /\ SessionInv(s, row, W) /\ MetaSound(s.meta) /\ code = CodeOf(s, row, n)
      /\ Stored(nodes[n], s.meta, s.quantizer, row, n, W) /\ W \in SUBSET Node
  BY <1>1, OpenReads DEF Written
<1>3. NodesInv' /\ Written' = W
  BY NodesSame DEF IInv, Neighbors
<1>4. t = [s EXCEPT !.call = "neighbors", !.of = n, !.code = code, !.list = list, !.todo = list]
  BY Zenon DEF Neighbors
<1>5. list \in Seq(W)
  <2>1. s.meta.neighbors \in Nat /\ nodes[n].slots \in [1..s.meta.neighbors -> W \cup {InvalidPointer}]
    BY <1>2 DEF MetaSound, Stored
  <2>2. list = Page(s.meta.neighbors)!IterNeighbors(nodes[n].slots)
    BY Zenon DEF NeighborsOnPage
  <2> HIDE DEF W, list
  <2> QED BY <1>2, <2>1, <2>2, NeighborsRead
<1>6. s.mode # "search"
  BY <1>1 DEF Caching
<1>7. DOMAIN s = SessionFields
  BY <1>2 DEF SessionInv
<1> HIDE DEF s, t, row, W, list, code
<1>8. /\ DOMAIN t = SessionFields /\ t.mode = s.mode /\ t.meta = s.meta /\ t.quantizer = s.quantizer
      /\ t.own = s.own /\ t.query = s.query /\ t.unfiltered = s.unfiltered /\ t.cache = s.cache
      /\ t.inserted = s.inserted /\ t.starts = s.starts /\ t.candidates = s.candidates
      /\ t.call = "neighbors" /\ t.of = n /\ t.code = code /\ t.todo = list /\ t.answers = s.answers
  BY <1>4, <1>7 DEF SessionFields
<1>9. CacheInv(t, row, W) /\ SearchInv(t, row, W)
  BY <1>2, <1>8, CacheKept, SearchKept DEF SessionInv
<1>10. CallInv(t, row, W)
  <2>1. s.answers = {}
    BY <1>1, <1>2 DEF SessionInv, CallInv
  <2> QED BY <1>1, <1>2, <1>5, <1>6, <1>8, <2>1 DEF CallInv, CodeOf
<1>11. SessionInv(t, row, W)
  BY <1>2, <1>8, <1>9, <1>10 DEF SessionInv
<1> QED BY <1>1, <1>3, <1>8, <1>11, SessionStep DEF s, t, row, W, Neighbors

\* A neighbor's distance, by the code on its page or in the cache.
LEMMA NeighborDistanceStep == ASSUME IInv, NeighborDistance PROVE IInv'
<1> DEFINE s == session
           t == session'
           row == heap.row
           W == Written
           n == Head(s.todo)
           rest == Tail(s.todo)
           code == IF s.meta.labels THEN nodes[n].code ELSE CodeFromCache(n)
           cache == IF s.meta.labels THEN s.cache ELSE CacheAfterGet(n)
           answers == s.answers \cup {Answer(n, code)}
<1>1. Open /\ s.call = "neighbors" /\ s.todo # <<>>
  BY DEF NeighborDistance
<1>2. /\ SessionInv(s, row, W)
      /\ \A k \in W : nodes[k].code = CodeOf(s, row, k)
  BY <1>1, OpenReads
<1>3. NodesInv' /\ Written' = W
  BY NodesSame DEF IInv, NeighborDistance
<1>4. n \in W /\ rest \in Seq(W)
  <2>1. s.todo \in Seq(W)
    BY <1>2 DEF SessionInv, CallInv
  <2> QED BY <1>1, <2>1, HeadTailProperties
<1>5. DOMAIN s = SessionFields
  BY <1>2 DEF SessionInv
<1>6. t = [s EXCEPT !.todo = rest, !.cache = cache, !.answers = answers]
  <2> DEFINE x == [s EXCEPT !.todo = rest]
             get == CacheAfterGet(n)
             a1 == Answer(n, nodes[n].code)
             a2 == Answer(n, CodeFromCache(n))
  <2>1. t = IF s.meta.labels THEN [x EXCEPT !.answers = @ \cup {a1}]
            ELSE [x EXCEPT !.cache = get, !.answers = @ \cup {a2}]
    BY Zenon DEF NeighborDistance
  <2>2. /\ cache = IF s.meta.labels THEN s.cache ELSE get
        /\ answers = s.answers \cup {IF s.meta.labels THEN a1 ELSE a2}
    OBVIOUS
  <2> HIDE DEF s, rest, get, a1, a2, cache, answers
  <2>3. CASE s.meta.labels
    BY <1>5, <2>1, <2>2, <2>3 DEF SessionFields
  <2>4. CASE ~s.meta.labels
    BY <1>5, <2>1, <2>2, <2>4 DEF SessionFields
  <2> QED BY <2>3, <2>4
<1>7. Holds(cache, Entries(s, row, W)) /\ code = CodeOf(s, row, n)
  <2>1. Caching /\ s.mode # "search"
    BY <1>1, <1>2 DEF SessionInv, CallInv, Caching, Open
  <2>2. Holds(CacheAfterGet(n), Entries(s, row, W)) /\ CodeFromCache(n) = CodeOf(s, row, n)
    BY <1>1, <1>4, <2>1, CacheGets
  <2>3. Holds(s.cache, Entries(s, row, W))
    BY <1>2, <2>1 DEF SessionInv, CacheInv
  <2> QED BY <1>2, <1>4, <2>2, <2>3
<1>8. answers = s.answers \cup {AnswerOf(s, row, n)}
  BY <1>7 DEF Answer, AnswerOf
<1> HIDE DEF s, t, row, W, n, rest, code, cache, answers
<1>9. /\ DOMAIN t = SessionFields /\ t.mode = s.mode /\ t.meta = s.meta /\ t.quantizer = s.quantizer
      /\ t.own = s.own /\ t.query = s.query /\ t.unfiltered = s.unfiltered /\ t.cache = cache
      /\ t.inserted = s.inserted /\ t.starts = s.starts /\ t.candidates = s.candidates
      /\ t.call = s.call /\ t.of = s.of /\ t.code = s.code /\ t.todo = rest /\ t.answers = answers
  BY <1>5, <1>6 DEF SessionFields
<1>10. CacheInv(t, row, W) /\ SearchInv(t, row, W)
  <2>1. CacheInv(t, row, W)
    BY <1>7, <1>9 DEF CacheInv, Entries, CodeOf
  <2>2. SearchInv(t, row, W)
    BY <1>2, <1>9, SearchKept DEF SessionInv
  <2> QED BY <2>1, <2>2
<1>11. CallInv(t, row, W)
  BY <1>1, <1>2, <1>4, <1>8, <1>9, AnswerAdded DEF SessionInv
<1>12. SessionInv(t, row, W)
  BY <1>2, <1>9, <1>10, <1>11 DEF SessionInv
<1> QED BY <1>1, <1>3, <1>9, <1>12, SessionStep DEF s, t, row, W, NeighborDistance

\* A node relinked or marked as deleted is still the node of its row.
LEMMA NodeChanged ==
  ASSUME IInv, Open, NEW n \in Written, NEW node, nodes' = [nodes EXCEPT ![n] = node],
         DOMAIN node = NodeFields, node.type = nodes[n].type, node.code = nodes[n].code,
         node.labels = nodes[n].labels,
         node.slots \in [1..session.meta.neighbors -> Written \cup {InvalidPointer}],
         UNCHANGED << phase, heap, page0, means >>
  PROVE  NodesInv' /\ Written' = Written
<1> DEFINE m == session.meta
           q == session.quantizer
<1>1. /\ phase \in {"graph", "ready"} /\ m \in Fetch(page0) /\ q \in LoadQuantizer(m)
      /\ n \in Node /\ Stored(nodes[n], m, q, heap.row, n, Written) /\ Indexed(n)
  BY OpenReads DEF Indexed
<1>2. Stored(node, m, q, heap.row, n, Written)
  BY <1>1 DEF Stored
<1>3. Written \cup {n} = Written
  OBVIOUS
<1>4. Stored(node, m, q, heap.row, n, Written \cup {n})
  BY <1>2, <1>3
<1> HIDE DEF m, q
<1>5. NodesInv' /\ Written' = Written \cup {n}
  BY <1>1, <1>4, NodePut DEF IInv
<1> QED BY <1>3, <1>5

\* A list of a graph written into a node.
LEMMA NodeRelinked ==
  ASSUME IInv, Open, NEW n \in Written, NEW l \in Lists(n, session.meta.neighbors),
         nodes' = [nodes EXCEPT ![n].slots = Page(session.meta.neighbors)!SetNeighbors(@, l)],
         UNCHANGED << phase, heap, page0, means >>
  PROVE  NodesInv' /\ Written' = Written
<1> DEFINE K     == session.meta.neighbors
           slots == Page(K)!SetNeighbors(nodes[n].slots, l)
           node  == [nodes[n] EXCEPT !.slots = slots]
           old   == nodes[n]
<1>1. Stored(old, session.meta, session.quantizer, heap.row, n, Written) /\ K \in Nat
  BY OpenReads DEF MetaSound
<1>2. old.slots \in [1..K -> Written \cup {InvalidPointer}] /\ DOMAIN old = NodeFields
  BY <1>1 DEF Stored
<1>3. Len(l) \in Nat /\ \A i \in 1..Len(l) : l[i] \in Written
  BY <1>1, ListsOfNodes
<1>4. slots \in [1..K -> Written \cup {InvalidPointer}]
  BY <1>1, <1>2, <1>3, SlotsAfter
<1>5. nodes' = [nodes EXCEPT ![n] = node]
  BY Zenon
<1> HIDE DEF slots, K
<1>6. /\ DOMAIN node = NodeFields /\ node.type = old.type /\ node.code = old.code
      /\ node.labels = old.labels /\ node.slots = slots
  <2> HIDE DEF old
  <2>1. DOMAIN [old EXCEPT !.slots = slots] = NodeFields /\ [old EXCEPT !.slots = slots].type = old.type
        /\ [old EXCEPT !.slots = slots].code = old.code /\ [old EXCEPT !.slots = slots].labels = old.labels
        /\ [old EXCEPT !.slots = slots].slots = slots
    BY <1>2 DEF NodeFields
  <2> QED BY <2>1 DEF old
<1> HIDE DEF node
<1> QED BY <1>2, <1>4, <1>5, <1>6, NodeChanged DEF K

\* The pruned list is written if the page still has the snapshot.
LEMMA TrySetNeighborsStep == ASSUME IInv, TrySetNeighbors PROVE IInv'
<1> DEFINE s == session
           t == session'
           row == heap.row
           W == Written
<1>1. Open /\ s.call = "neighbors"
  BY DEF TrySetNeighbors
<1>2. SessionInv(s, row, W)
  BY <1>1, OpenReads
<1>3. s.of \in W
  BY <1>1, <1>2 DEF SessionInv, CallInv
<1>4. PICK l \in Lists(s.of, s.meta.neighbors) :
        nodes' = IF NeighborsOnPage(s.meta, s.of) = s.list
                   THEN [nodes EXCEPT ![s.of].slots = Page(s.meta.neighbors)!SetNeighbors(@, l)]
                   ELSE nodes
  BY Zenon DEF TrySetNeighbors
<1>5. UNCHANGED << phase, heap, request, page0, means >>
  BY DEF TrySetNeighbors
<1>6. NodesInv' /\ Written' = W
  <2>1. CASE NeighborsOnPage(s.meta, s.of) = s.list
    <3>1. nodes' = [nodes EXCEPT ![s.of].slots = Page(s.meta.neighbors)!SetNeighbors(@, l)]
      BY <1>4, <2>1, Zenon
    <3> DEFINE n == s.of
    <3>2. /\ n \in Written /\ l \in Lists(n, session.meta.neighbors)
          /\ nodes' = [nodes EXCEPT ![n].slots = Page(session.meta.neighbors)!SetNeighbors(@, l)]
      BY <1>3, <1>4, <3>1, Zenon
    <3> HIDE DEF n
    <3> QED BY <1>1, <1>5, <3>2, NodeRelinked, Zenon
  <2>2. CASE NeighborsOnPage(s.meta, s.of) # s.list
    <3>1. nodes' = nodes
      BY <1>4, <2>2, Zenon
    <3> QED BY <1>5, <3>1, NodesSame DEF IInv
  <2> QED BY <2>1, <2>2
<1>7. t = [s EXCEPT !.call = "idle", !.answers = {}, !.code = {}, !.list = <<>>, !.of = InvalidPointer]
  BY Zenon DEF TrySetNeighbors
<1>8. DOMAIN s = SessionFields
  BY <1>2 DEF SessionInv
<1> HIDE DEF s, t, row, W
<1>9. /\ DOMAIN t = SessionFields /\ t.mode = s.mode /\ t.meta = s.meta /\ t.quantizer = s.quantizer
      /\ t.own = s.own /\ t.query = s.query /\ t.unfiltered = s.unfiltered /\ t.cache = s.cache
      /\ t.inserted = s.inserted /\ t.starts = s.starts /\ t.candidates = s.candidates
      /\ t.call = "idle" /\ t.todo = s.todo /\ t.answers = {}
  BY <1>7, <1>8 DEF SessionFields
<1>10. CacheInv(t, row, W) /\ SearchInv(t, row, W)
  BY <1>2, <1>9, CacheKept, SearchKept DEF SessionInv
<1>11. CallInv(t, row, W)
  BY <1>2, <1>9 DEF CallInv, SessionInv
<1>12. SessionInv(t, row, W)
  BY <1>2, <1>9, <1>10, <1>11 DEF SessionInv
<1> QED BY <1>1, <1>5, <1>6, <1>9, <1>12, SessionStep DEF s, t, row, W

\* The answers of a call are given.
LEMMA ReturnStep == ASSUME IInv, Return PROVE IInv'
<1> DEFINE s == session
           t == session'
           row == heap.row
           W == Written
<1>1. Open
  BY DEF Return
<1>2. SessionInv(s, row, W)
  BY <1>1, OpenReads
<1>3. NodesInv' /\ Written' = W
  BY NodesSame DEF IInv, Return
<1>4. t = [s EXCEPT !.call = "idle", !.answers = {}, !.code = {}, !.of = InvalidPointer]
  BY Zenon DEF Return
<1>5. DOMAIN s = SessionFields
  BY <1>2 DEF SessionInv
<1> HIDE DEF s, t, row, W
<1>6. /\ DOMAIN t = SessionFields /\ t.mode = s.mode /\ t.meta = s.meta /\ t.quantizer = s.quantizer
      /\ t.own = s.own /\ t.query = s.query /\ t.unfiltered = s.unfiltered /\ t.cache = s.cache
      /\ t.inserted = s.inserted /\ t.starts = s.starts /\ t.candidates = s.candidates
      /\ t.call = "idle" /\ t.todo = s.todo /\ t.answers = {}
  BY <1>4, <1>5 DEF SessionFields
<1>7. CacheInv(t, row, W) /\ SearchInv(t, row, W)
  BY <1>2, <1>6, CacheKept, SearchKept DEF SessionInv
<1>8. CallInv(t, row, W)
  BY <1>2, <1>6 DEF CallInv, SessionInv
<1>9. SessionInv(t, row, W)
  BY <1>2, <1>6, <1>7, <1>8 DEF SessionInv
<1> QED BY <1>1, <1>3, <1>6, <1>9, SessionStep DEF s, t, row, W, Return

\* What a session without a search keeps.
LEMMA NoSearchFields ==
  ASSUME NEW s, DOMAIN s = SessionFields, NEW x, x = NoSearch(s)
  PROVE  /\ DOMAIN x = SessionFields /\ x.mode = s.mode /\ x.meta = s.meta /\ x.quantizer = s.quantizer
         /\ x.cache = s.cache /\ x.own = s.own /\ x.query = Null /\ x.inserted = {} /\ x.starts = {}
         /\ x.candidates = {} /\ x.call = s.call /\ x.of = s.of /\ x.code = s.code
         /\ x.list = s.list /\ x.todo = s.todo /\ x.answers = s.answers
BY DEF NoSearch, SessionFields

\* A row gets its node, and the cache its code.
LEMMA CreateNodeStep == ASSUME IInv, NEW n \in Node, CreateNode(n) PROVE IInv'
<1> DEFINE s == session
           t == session'
           row == heap.row
           W == Written
           V == Written \cup {n}
           m == s.meta
           q == s.quantizer
           node == NewNode(m, q, n)
           x == NoSearch(s)
           cache == LruPush(s.cache, n, node.code)
<1>1. Open /\ s.call = "idle" /\ Caching /\ Indexed(n)
  BY DEF CreateNode, Ready
<1>2. /\ SessionInv(s, row, W) /\ phase \in {"graph", "ready"}
      /\ m \in Fetch(page0) /\ q \in LoadQuantizer(m) /\ MetaSound(m)
  BY <1>1, OpenReads
<1>3. Stored(node, m, q, row, n, V)
  BY <1>2, NewNodeStored
<1>4. nodes' = [nodes EXCEPT ![n] = node] /\ UNCHANGED << phase, heap, request, page0, means >>
  BY Zenon DEF CreateNode
<1>5. NodesInv' /\ Written' = V
  <2> HIDE DEF m, q, node
  <2> QED BY <1>1, <1>2, <1>3, <1>4, NodePut DEF IInv
<1>6. node.code = CodeOf(s, row, n)
  BY <1>3 DEF Stored, CodeOf
<1>7. Holds(cache, Entries(s, row, V))
  <2> DEFINE E == Entries(s, row, V)
             c == s.cache
             v == node.code
  <2>1. Holds(c, Entries(s, row, W)) /\ Entries(s, row, W) \subseteq E /\ [key |-> n, value |-> v] \in E
    BY <1>1, <1>2, <1>6 DEF SessionInv, CacheInv, Caching, Entries
  <2> HIDE DEF E, c, v
  <2>2. Holds(c, E)
    BY <2>1, HoldsMore
  <2>3. Holds(LruPush(c, n, v), E)
    BY <2>1, <2>2, LruPushHolds
  <2> QED BY <2>3 DEF E, c, v
<1>8. DOMAIN s = SessionFields
  BY <1>2 DEF SessionInv
<1>9. /\ DOMAIN x = SessionFields /\ x.mode = s.mode /\ x.meta = s.meta /\ x.quantizer = s.quantizer
      /\ x.cache = s.cache /\ x.query = Null /\ x.inserted = {} /\ x.starts = {} /\ x.candidates = {}
      /\ x.call = s.call /\ x.todo = s.todo /\ x.answers = s.answers
  BY <1>8, NoSearchFields
<1>10. t = [x EXCEPT !.own = n, !.cache = cache]
  <2>1. t = [x EXCEPT !.own = n, !.cache = LruPush(@, n, node.code)]
    BY Zenon DEF CreateNode
  <2> HIDE DEF x, s, node
  <2> QED BY <1>9, <2>1
<1> HIDE DEF s, t, row, W, V, m, q, node, x, cache
<1>11. /\ DOMAIN t = SessionFields /\ t.mode = s.mode /\ t.meta = s.meta /\ t.quantizer = s.quantizer
       /\ t.own = n /\ t.cache = cache /\ t.query = Null /\ t.inserted = {} /\ t.starts = {}
       /\ t.candidates = {} /\ t.call = s.call /\ t.todo = s.todo /\ t.answers = s.answers
  BY <1>9, <1>10 DEF SessionFields
<1>12. W \subseteq V /\ n \in V
  BY DEF W, V
<1>13. CacheInv(t, row, V)
  BY <1>7, <1>11 DEF CacheInv, Entries, CodeOf
<1>14. SearchInv(t, row, V)
  <2>1. QuerySound(t)
    BY <1>11 DEF QuerySound
  <2> QED BY <1>11, <2>1, SearchEmpty
<1>15. CallInv(t, row, V)
  <2>1. CallInv(s, row, W) /\ s.call = "idle"
    BY <1>1, <1>2 DEF SessionInv, s
  <2>2. s.todo \in Seq(V) /\ s.answers = {}
    BY <1>12, <2>1, SeqMonotonic DEF CallInv
  <2> QED BY <1>11, <2>1, <2>2 DEF CallInv
<1>16. SessionInv(t, row, V)
  BY <1>11, <1>12, <1>13, <1>14, <1>15 DEF SessionInv
<1>17. t.mode = session.mode /\ t.meta = session.meta /\ t.quantizer = session.quantizer
  BY <1>11 DEF s
<1> QED BY <1>1, <1>4, <1>5, <1>16, <1>17, SessionStep DEF t, row, V

\* A search begins, from a row or a query, with the code of its vector.
LEMMA BeginSearchStep == ASSUME IInv, BeginSearch PROVE IInv'
<1> DEFINE s == session
           t == session'
           row == heap.row
           W == Written
           m == s.meta
           x == NoSearch(s)
<1>1. Open /\ s.call = "idle"
  BY DEF BeginSearch, Ready
<1>2. /\ SessionInv(s, row, W) /\ MetaSound(m) /\ row \in Tables(m.dims)
      /\ \A n \in W : n \in Node /\ row[n].vec # Null
  BY <1>1, OpenReads
<1>3. NodesInv' /\ Written' = W
  BY NodesSame DEF IInv, BeginSearch
<1>4. PICK vec \in (IF Caching THEN {Vector(m, n) : n \in {s.own} \cap Node}
                    ELSE {IndexSlice(m, QueryVector(q.vec, m.dims)) :
                            q \in {k \in Queries : k.vec = Null \/ Len(k.vec) = m.dims}}),
           labels \in (IF Caching THEN {RowLabels(row[n].labels, m.labels) : n \in {s.own} \cap Node}
                       ELSE {QueryLabels(q.vec, q.keys) : q \in {k \in Queries : m.labels \/ k.keys = Null}}),
           unfiltered \in BOOLEAN :
        t = [x EXCEPT !.unfiltered = unfiltered,
                      !.query = [vec |-> vec, labels |-> labels, code |-> Quantize(s.quantizer, vec)]]
  BY Zenon DEF BeginSearch
<1> DEFINE query == [vec |-> vec, labels |-> labels, code |-> Quantize(s.quantizer, vec)]
<1>5. \A n \in {s.own} \cap Node : n \in W
  BY <1>2, SbqStorageAssumption DEF SessionInv
<1>6. DOMAIN vec = 1..m.indexed /\ \A i \in 1..m.indexed : vec[i] \in Int
  <2>1. CASE Caching
    <3>1. PICK n \in W : vec = VectorOf(m, row, n)
      BY <1>4, <1>5, <2>1 DEF Vector, VectorOf
    <3> HIDE DEF m, row, W
    <3> QED BY <1>2, <3>1, VectorOfRow
  <2>2. CASE ~Caching
    <3>1. PICK q \in Queries : /\ q.vec = Null \/ Len(q.vec) = m.dims
                              /\ vec = IndexSlice(m, QueryVector(q.vec, m.dims))
      BY <1>4, <2>2
    <3>2. QueryVector(q.vec, m.dims) \in [1..m.dims -> Int]
      <4>1. q.vec = Null \/ (q.vec \in Seq(Int) /\ Len(q.vec) = m.dims)
        BY <3>1, QueriesAssumption
      <4>2. CASE q.vec = Null
        BY <4>2 DEF QueryVector
      <4>3. CASE q.vec # Null
        <5>1. QueryVector(q.vec, m.dims) = q.vec /\ q.vec \in Seq(Int) /\ Len(q.vec) = m.dims
          BY <4>1, <4>3 DEF QueryVector
        <5> HIDE DEF m
        <5>2. DOMAIN q.vec = 1..m.dims /\ q.vec \in [1..m.dims -> Int]
          BY <5>1
        <5> QED BY <5>1, <5>2
      <4> QED BY <4>2, <4>3
    <3> HIDE DEF m
    <3> QED BY <1>2, <3>1, <3>2, SliceOfVector
  <2> QED BY <2>1, <2>2
<1>7. labels = Null \/ (m.labels /\ IsLabelSet(labels))
  <2>1. CASE Caching
    <3>1. PICK n \in W : labels = LabelsOf(m, row, n)
      BY <1>4, <1>5, <2>1 DEF LabelsOf
    <3>2. CASE m.labels
      <4> HIDE DEF m, row, W
      <4> QED BY <1>2, <3>1, <3>2, LabelsOfRow
    <3>3. CASE ~m.labels
      BY <3>1, <3>3 DEF LabelsOf, RowLabels
    <3> QED BY <3>2, <3>3
  <2>2. CASE ~Caching
    <3>1. PICK q \in Queries : (m.labels \/ q.keys = Null) /\ labels = QueryLabels(q.vec, q.keys)
      BY <1>4, <2>2
    <3>2. CASE q.vec = Null \/ q.keys = Null
      BY <3>1, <3>2 DEF QueryLabels
    <3>3. CASE q.vec # Null /\ q.keys # Null
      <4>1. q.keys \in Seq(Int \cup {Null})
        BY <3>3, QueriesAssumption
      <4>2. labels = ToLabelSet(NonNull(q.keys))
        BY <3>1, <3>3 DEF QueryLabels
      <4> QED BY <3>1, <3>3, <4>1, <4>2, NonNullLabels
    <3> QED BY <3>2, <3>3
  <2> QED BY <2>1, <2>2
<1>8. query.vec = vec /\ query.labels = labels /\ query.code = Quantize(s.quantizer, vec)
  OBVIOUS
<1>9. DOMAIN s = SessionFields
  BY <1>2 DEF SessionInv
<1>10. /\ DOMAIN x = SessionFields /\ x.mode = s.mode /\ x.meta = s.meta /\ x.quantizer = s.quantizer
       /\ x.cache = s.cache /\ x.own = s.own /\ x.inserted = {} /\ x.starts = {} /\ x.candidates = {}
       /\ x.call = s.call /\ x.todo = s.todo /\ x.answers = s.answers
  BY <1>9, NoSearchFields
<1>11. t = [x EXCEPT !.unfiltered = unfiltered, !.query = query]
  BY <1>4
<1>12. SessionInv(s, row, W) /\ s.call = "idle"
  BY <1>1, <1>2
<1> HIDE DEF s, t, row, W, x, query
<1>13. /\ DOMAIN t = SessionFields /\ t.mode = s.mode /\ t.meta = s.meta /\ t.quantizer = s.quantizer
       /\ t.own = s.own /\ t.query = query /\ t.cache = s.cache /\ t.inserted = {} /\ t.starts = {}
       /\ t.candidates = {} /\ t.call = s.call /\ t.todo = s.todo /\ t.answers = s.answers
  BY <1>10, <1>11 DEF SessionFields
<1>14. CacheInv(t, row, W)
  BY <1>12, <1>13, CacheKept DEF SessionInv
<1>15. SearchInv(t, row, W)
  <2>1. QuerySound(t)
    BY <1>6, <1>7, <1>8, <1>13 DEF QuerySound, m
  <2> QED BY <1>13, <2>1, SearchEmpty
<1>16. CallInv(t, row, W)
  BY <1>12, <1>13 DEF SessionInv, CallInv
<1>17. SessionInv(t, row, W)
  BY <1>12, <1>13, <1>14, <1>15, <1>16 DEF SessionInv
<1>18. UNCHANGED << phase, heap, request, page0, means, nodes >>
  BY Zenon DEF BeginSearch
<1> QED BY <1>1, <1>3, <1>13, <1>17, <1>18, SessionStep DEF s, t, row, W

--------------------------------------------------------------------------------
(***************************************************************************)
(* Sessions come and go                                                    *)
(***************************************************************************)

\* No session is open: what is left to show of a step that changes phase and
\* session alone.
LEMMA ClosedStep ==
  ASSUME IInv, session' = Closed, phase \in {"graph", "ready"}, phase' \in {"graph", "ready"},
         UNCHANGED << heap, request, page0, means, nodes >>
  PROVE  IInv'
<1>1. PhaseInv' /\ TableInv' /\ ReaderInv'
  BY DEF PhaseInv, IInv, TableInv, ReaderInv, Open, Closed
<1>2. Opens' /\ StatsInv'
  BY PagesSame DEF IInv
<1>3. NodesInv'
  <2>1. \A m : LoadQuantizer(m)' = LoadQuantizer(m)
    BY DEF LoadQuantizer
  <2>2. Written' = Written
    BY DEF Written
  <2>3. ASSUME NEW k \in Written'
        PROVE  Indexed(k)' /\ \A p \in Fetch(page0') : \A r \in LoadQuantizer(p)' :
                                Stored(nodes'[k], p, r, heap'.row, k, Written')
    <3>1. Indexed(k)' <=> Indexed(k)
      BY DEF Indexed
    <3>2. Indexed(k) /\ \A p \in Fetch(page0) : \A r \in LoadQuantizer(p) :
                          Stored(nodes[k], p, r, heap.row, k, Written)
      BY <2>2, <2>3 DEF IInv, NodesInv
    <3>3. nodes' = nodes /\ page0' = page0 /\ heap' = heap
      OBVIOUS
    <3> QED BY <2>1, <2>2, <3>1, <3>2, <3>3, Zenon
  <2> QED BY <2>2, <2>3 DEF IInv, NodesInv, LoadQuantizer
<1> QED BY <1>1, <1>2, <1>3 DEF IInv

\* A session that ends leaves the pages alone.
LEMMA CloseSessionStep == ASSUME IInv, CloseSession PROVE IInv'
<1>1. phase \in {"graph", "ready"}
  BY OpenReads DEF CloseSession
<1> QED BY <1>1, ClosedStep DEF CloseSession

\* So does the session of a build.
LEMMA FinishBuildStep == ASSUME IInv, FinishBuild PROVE IInv'
BY ClosedStep DEF FinishBuild

\* A cache has room for one entry at least.
LEMMA CapacityPositive ==
  ASSUME NEW m, MetaSound(m)
  PROVE  CacheCapacity(m) \in Nat \ {0}
<1> DEFINE all == m.indexed * m.bits
           w == QuantizedSize(m.indexed, m.bits)
           e == EntrySize(w)
           f == CacheBudget \div e
<1>1. WordBits \in Nat \ {0} /\ CacheBudget \in Nat
  BY SbqStorageAssumption
<1>2. \A a \in Nat, b \in Nat \ {0} : a \div b \in Nat /\ a * b \in Nat
  OBVIOUS
<1>3. all \in Nat /\ m.neighbors \in Nat \ {0}
  BY <1>2 DEF MetaSound
<1>4. w = IF all % WordBits = 0 THEN all \div WordBits ELSE all \div WordBits + 1
  BY DEF QuantizedSize
<1> HIDE DEF all, w
<1>5. w \in Nat
  BY <1>1, <1>2, <1>3, <1>4
<1>6. e \in Nat \ {0}
  BY <1>5 DEF EntrySize
<1> HIDE DEF e
<1>7. f \in Nat
  BY <1>1, <1>2, <1>6
<1>8. CacheCapacity(m) = IF f > m.neighbors THEN f ELSE m.neighbors
  BY Zenon DEF CacheCapacity, e, w
<1> HIDE DEF f
<1> QED BY <1>3, <1>7, <1>8

\* A session reads the metadata and the statistics, and has an empty cache.
LEMMA OpenSessionStep == ASSUME IInv, NEW mode \in {"build", "insert", "search"}, OpenSession(mode) PROVE IInv'
<1> DEFINE t == session'
           row == heap.row
           W == Written
<1>0. PICK m \in Fetch(page0) : \E q \in LoadQuantizer(m) : t = Opened(mode, m, q)
  BY Zenon DEF OpenSession
<1>1. PICK q \in LoadQuantizer(m) : t = Opened(mode, m, q)
  BY <1>0
<1>2. /\ phase = (IF mode = "build" THEN "graph" ELSE "ready")
      /\ UNCHANGED << phase, heap, request, page0, means, nodes >>
  BY DEF OpenSession
<1>3. NodesInv' /\ Written' = W
  BY <1>2, NodesSame DEF IInv
<1> DEFINE cache == NewLru(IF mode = "search" THEN 0 ELSE CacheCapacity(m))
<1>4. t = [mode |-> mode, meta |-> m, quantizer |-> q, cache |-> cache,
           own |-> InvalidPointer, query |-> Null, unfiltered |-> FALSE,
           inserted |-> {}, candidates |-> {}, starts |-> {},
           call |-> "idle", of |-> InvalidPointer, code |-> {}, list |-> <<>>, todo |-> <<>>,
           answers |-> {}]
  BY <1>1, Zenon DEF Opened
<1>5. MetaSound(m)
  BY DEF IInv, TableInv
<1>6. mode # "search" => Holds(cache, Entries(t, row, W))
  BY <1>5, CapacityPositive, NewLruHolds
<1> HIDE DEF t, row, W, cache
<1>7. /\ DOMAIN t = SessionFields /\ t.mode = mode /\ t.meta = m /\ t.quantizer = q
      /\ t.own = InvalidPointer /\ t.query = Null /\ t.cache = cache /\ t.inserted = {} /\ t.starts = {}
      /\ t.candidates = {} /\ t.call = "idle" /\ t.todo = <<>> /\ t.answers = {}
  BY <1>4 DEF SessionFields
<1>8. CacheInv(t, row, W)
  BY <1>6, <1>7 DEF CacheInv
<1>9. SearchInv(t, row, W)
  <2>1. QuerySound(t)
    BY <1>7 DEF QuerySound
  <2> QED BY <1>7, <2>1, SearchEmpty
<1>10. CallInv(t, row, W)
  BY <1>7, EmptySeq DEF CallInv
<1>11. SessionInv(t, row, W)
  BY <1>7, <1>8, <1>9, <1>10 DEF SessionInv
<1>12. Open'
  BY <1>7 DEF Open, t
<1>13. PhaseInv'
  BY <1>2, <1>12 DEF IInv, PhaseInv
<1>14. TableInv' /\ Opens' /\ StatsInv'
  BY <1>2, PagesSame DEF IInv, TableInv
<1>15. ReaderInv'
  <2>1. LoadQuantizer(m)' = LoadQuantizer(m)
    BY <1>2 DEF LoadQuantizer
  <2>2. /\ session'.mode = mode /\ session'.meta = m /\ session'.quantizer = q
        /\ SessionInv(session', heap'.row, Written')
    BY <1>2, <1>3, <1>7, <1>11 DEF t, row
  <2>3. session'.mode = "build" => phase' = "graph"
    BY <1>2, <2>2
  <2>4. session'.meta \in Fetch(page0')
    BY <1>2, <2>2
  <2>5. session'.quantizer \in LoadQuantizer(session.meta)'
    BY <1>2, <2>2 DEF LoadQuantizer
  <2> QED BY <2>2, <2>3, <2>4, <2>5 DEF ReaderInv
<1> QED BY <1>3, <1>13, <1>14, <1>15 DEF IInv

--------------------------------------------------------------------------------
(***************************************************************************)
(* Other sessions                                                          *)
(***************************************************************************)

\* Another session adds a node, by the same quantizer.
LEMMA OthersInsertStep == ASSUME IInv, NEW n \in Node, OthersInsert(n) PROVE IInv'
<1>1. /\ Open /\ phase \in {"graph", "ready"} /\ Indexed(n)
      /\ UNCHANGED << phase, heap, request, page0, means, session >>
  BY DEF OthersInsert, Others
<1>2. PICK m \in Fetch(page0) : \E q \in LoadQuantizer(m) : nodes' = [nodes EXCEPT ![n] = NewNode(m, q, n)]
  BY Zenon DEF OthersInsert
<1>3. PICK q \in LoadQuantizer(m) : nodes' = [nodes EXCEPT ![n] = NewNode(m, q, n)]
  BY <1>2
<1>4. MetaSound(m)
  BY DEF IInv, TableInv
<1> DEFINE node == NewNode(m, q, n)
<1>5. Stored(node, m, q, heap.row, n, Written \cup {n}) /\ nodes' = [nodes EXCEPT ![n] = node]
  BY <1>3, <1>4, NewNodeStored
<1> HIDE DEF node
<1>6. NodesInv' /\ Written' = Written \cup {n}
  BY <1>1, <1>5, NodePut DEF IInv
<1>7. SessionInv(session', heap.row, Written')
  <2>1. SessionInv(session, heap.row, Written) /\ Written \subseteq Written'
    BY <1>1, <1>6, OpenReads
  <2>2. SessionInv(session, heap.row, Written')
    BY <2>1, SessionMore
  <2> QED BY <1>1, <2>2
<1> QED BY <1>1, <1>6, <1>7, SessionStep

\* Another session links a node to other nodes.
LEMMA OthersRelinkStep == ASSUME IInv, NEW n \in Node, OthersRelink(n) PROVE IInv'
<1>1. /\ Open /\ n \in Written
      /\ UNCHANGED << phase, heap, request, page0, means, session >>
  BY DEF OthersRelink, Others
<1>2. PICK l \in Lists(n, session.meta.neighbors) :
        nodes' = [nodes EXCEPT ![n].slots = Page(session.meta.neighbors)!SetNeighbors(@, l)]
  BY Zenon DEF OthersRelink
<1>3. NodesInv' /\ Written' = Written
  BY <1>1, <1>2, NodeRelinked, Zenon
<1>4. SessionInv(session', heap.row, Written')
  BY <1>1, <1>3, OpenReads
<1> QED BY <1>1, <1>3, <1>4, SessionStep

\* VACUUM marks a node and leaves its code.
LEMMA VacuumStep == ASSUME IInv, NEW n \in Node, Vacuum(n) PROVE IInv'
<1> DEFINE old  == nodes[n]
           node == [old EXCEPT !.deleted = TRUE]
<1>1. /\ Open /\ n \in Written /\ nodes' = [nodes EXCEPT ![n].deleted = TRUE]
      /\ UNCHANGED << phase, heap, request, page0, means, session >>
  BY DEF Vacuum, Others
<1>2. Stored(old, session.meta, session.quantizer, heap.row, n, Written)
  BY <1>1, OpenReads
<1>3. nodes' = [nodes EXCEPT ![n] = node]
  BY <1>1, Zenon
<1>4. /\ DOMAIN node = NodeFields /\ node.type = nodes[n].type /\ node.code = nodes[n].code
      /\ node.labels = nodes[n].labels
      /\ node.slots \in [1..session.meta.neighbors -> Written \cup {InvalidPointer}]
  <2>1. DOMAIN old = NodeFields
        /\ old.slots \in [1..session.meta.neighbors -> Written \cup {InvalidPointer}]
    BY <1>2 DEF Stored
  <2> HIDE DEF old
  <2>2. /\ DOMAIN node = NodeFields /\ node.type = old.type /\ node.code = old.code
        /\ node.labels = old.labels /\ node.slots = old.slots
    BY <2>1 DEF NodeFields
  <2> HIDE DEF node
  <2> QED BY <2>1, <2>2 DEF old
<1> HIDE DEF node, old
<1>5. NodesInv' /\ Written' = Written
  BY <1>1, <1>3, <1>4, NodeChanged
<1>6. SessionInv(session', heap.row, Written')
  BY <1>1, <1>5, OpenReads
<1> QED BY <1>1, <1>5, <1>6, SessionStep

\* The metadata in the current format is the same metadata.
LEMMA PublishRootStep == ASSUME IInv, PublishRoot PROVE IInv'
<1>1. PICK m \in Fetch(page0) : page0' = StoredMeta(m)
  BY DEF PublishRoot
<1>2. /\ phase = "ready" /\ Open
      /\ UNCHANGED << phase, heap, request, means, nodes, session >>
  BY DEF PublishRoot, Others
<1>3. Fetch(page0) = {m} /\ Fetch(page0') = Fetch(page0)
  BY <1>1, FetchOne
<1>4. \A p : LoadQuantizer(p)' = LoadQuantizer(p)
  BY <1>2 DEF LoadQuantizer
<1>5. Written' = Written
  BY <1>2 DEF Written
<1>6. TableInv'
  BY <1>2, <1>3 DEF IInv, TableInv
<1>7. PhaseInv'
  BY <1>2 DEF IInv, PhaseInv, Open
<1>8. Opens'
  <2>1. \E x \in Fetch(page0) : Loadable(x)
    <3>1. PICK x \in Fetch(page0) : \E q \in LoadQuantizer(x) : TRUE
      BY <1>2 DEF IInv, ReaderInv
    <3>2. StorageOfByte(x.storage) = {"SbqCompression"}
      BY <3>1, LoadedQuantizer
    <3>3. ~GivenUp(page0)
      <4>1. CASE page0.type = "MetaV1" /\ page0.meta.pq
        BY <3>1, <4>1 DEF Fetch, OfV1
      <4>2. CASE page0.type = "MetaV2" /\ page0.meta.storage = 1
        <5>1. x.storage = 1
          BY <3>1, <4>2 DEF Fetch, OfV2
        <5> QED BY <3>2, <5>1 DEF StorageOfByte
      <4> QED BY <4>1, <4>2 DEF GivenUp
    <3> QED BY <1>2, <3>3 DEF IInv, Opens
  <2>2. \A x : Loadable(x)' <=> Loadable(x)
    BY <1>2 DEF Loadable, LoadQuantizer
  <2>3. \E x \in Fetch(page0') : Loadable(x)'
    BY <1>3, <2>1, <2>2, Zenon
  <2>4. ~GivenUp(page0')
    BY <1>1 DEF GivenUp, StoredMeta
  <2> QED BY <2>3, <2>4, Zenon DEF Opens
<1>11. StatsInv'
  <2>1. TrainedRows' = TrainedRows
    BY <1>2 DEF TrainedRows, Indexed
  <2>2. request' = request /\ phase' = phase /\ means' = means /\ heap' = heap
    BY <1>2
  <2>3. StatsInv
    BY DEF IInv
  <2> QED BY <1>3, <2>1, <2>2, <2>3, Zenon DEF StatsInv
<1>9. NodesInv'
  <2>1. ASSUME NEW k \in Written'
        PROVE  Indexed(k)' /\ \A p \in Fetch(page0') : \A r \in LoadQuantizer(p)' :
                                Stored(nodes'[k], p, r, heap'.row, k, Written')
    <3>1. Indexed(k)' <=> Indexed(k)
      BY <1>2 DEF Indexed
    <3>2. Indexed(k) /\ \A p \in Fetch(page0) : \A r \in LoadQuantizer(p) :
                          Stored(nodes[k], p, r, heap.row, k, Written)
      BY <1>5, <2>1 DEF IInv, NodesInv
    <3>3. nodes' = nodes /\ heap' = heap
      BY <1>2
    <3> QED BY <1>3, <1>4, <1>5, <3>1, <3>2, <3>3, Zenon
  <2> QED BY <1>2, <1>5, <2>1 DEF IInv, NodesInv, LoadQuantizer
<1>10. ReaderInv'
  <2>1. /\ session.mode = "build" => phase = "graph"
        /\ session.meta \in Fetch(page0) /\ session.quantizer \in LoadQuantizer(session.meta)
        /\ SessionInv(session, heap.row, Written)
    BY <1>2 DEF IInv, ReaderInv
  <2>2. /\ session'.mode = "build" => phase' = "graph"
        /\ session'.meta \in Fetch(page0') /\ SessionInv(session', heap'.row, Written')
    BY <1>2, <1>3, <1>5, <2>1
  <2>3. session'.quantizer \in LoadQuantizer(session.meta)'
    BY <1>2, <1>4, <2>1
  <2> QED BY <2>2, <2>3 DEF ReaderInv, LoadQuantizer
<1> QED BY <1>6, <1>7, <1>8, <1>9, <1>10, <1>11 DEF IInv

--------------------------------------------------------------------------------
(***************************************************************************)
(* CREATE INDEX                                                            *)
(***************************************************************************)

\* The metadata that options make, and the checks it has passed.
LEMMA Created ==
  ASSUME NEW column, NEW option, column.typmod \in Int,
         option.neighbors \in Int, option.dims \in Int, option.bits \in Nat,
         NEW m \in Create(column, option)
  PROVE  /\ DOMAIN m = MetaFields /\ m.dims \in Dimensions(column.typmod)
         /\ m.indexed \in Int /\ m.bits \in Nat \ {0} /\ m.neighbors \in Nat \ {0}
         /\ m.labels = column.labels
         /\ \E s \in {"Plain", "SbqCompression"} :
              /\ m.storage = StorageByte(s) /\ StorageOfByte(m.storage) = {s}
              /\ Storable(s, m.dims, m.indexed, m.bits) /\ Supported(column, s, m.indexed)
<1>1. /\ m \in CreateUnchecked(column, option)
      /\ \A s \in StorageOfByte(m.storage) :
           Storable(s, m.dims, m.indexed, m.bits) /\ Supported(column, s, m.indexed)
  BY DEF Create
<1>2. PICK s \in StorageOf(option.layout), d \in Dimensions(column.typmod), n \in NeighborsOf(option.neighbors) :
        m = [version |-> CurrentVersion, storage |-> StorageByte(s), distance |-> column.distance,
             dims |-> d, indexed |-> DimensionsToIndex(option.dims, d),
             bits |-> BitsOf(option.bits, s, DimensionsToIndex(option.dims, d)),
             neighbors |-> n, labels |-> column.labels, roots |-> NoRoots, quantizer |-> NoPointer]
  BY <1>1 DEF CreateUnchecked
<1>3. s \in {"Plain", "SbqCompression"}
  BY DEF StorageOf
<1>4. d \in Int
  BY DEF Dimensions
<1>5. n \in Nat \ {0}
  BY SbqStorageAssumption DEF NeighborsOf
<1> DEFINE k == DimensionsToIndex(option.dims, d)
           b == BitsOf(option.bits, s, k)
<1>6. k \in Int /\ b \in Nat \ {0}
  BY <1>4 DEF DimensionsToIndex, BitsOf, DefaultBits, DefaultDimensions
<1> HIDE DEF k, b
<1>7. /\ DOMAIN m = MetaFields /\ m.storage = StorageByte(s) /\ m.dims = d /\ m.indexed = k
      /\ m.bits = b /\ m.neighbors = n /\ m.labels = column.labels
  <2>1. m = [version |-> CurrentVersion, storage |-> StorageByte(s), distance |-> column.distance,
             dims |-> d, indexed |-> k, bits |-> b,
             neighbors |-> n, labels |-> column.labels, roots |-> NoRoots, quantizer |-> NoPointer]
    BY <1>2, Zenon DEF k, b
  <2> QED BY <2>1 DEF MetaFields
<1>8. StorageOfByte(m.storage) = {s}
  BY <1>3, <1>7 DEF StorageOfByte, StorageByte
<1>9. Storable(s, m.dims, m.indexed, m.bits) /\ Supported(column, s, m.indexed)
  BY <1>1, <1>8
<1> QED BY <1>3, <1>5, <1>6, <1>7, <1>8, <1>9

\* The limits of dimensions, as ensure_valid_dimensions has them.
LEMMA DimensionsBounded ==
  ASSUME NEW d \in Int, NEW k \in Int, ValidDimensions(d, k)
  PROVE  d \in 1..MaxDimension /\ k \in 1..d /\ d \in Nat /\ k \in Nat
<1>1. d >= 1 /\ d <= MaxDimension /\ k >= 1 /\ k <= d
  BY DEF ValidDimensions
<1>2. MaxDimension \in Int
  BY DEF MaxDimension
<1> QED BY <1>1, <1>2

\* Whatever the options (get_meta_page, create): what CREATE INDEX accepts is fetched as
\* it was stored, several bits are for few enough dimensions, and the plain layout has
\* one bit, no more than 2000 dimensions and no labels.
THEOREM AcceptedIsUsable ==
  ASSUME NEW column, NEW option, column.typmod \in Int,
         option.neighbors \in Int, option.dims \in Int, option.bits \in Nat,
         NEW m \in Create(column, option)
  PROVE  /\ Fetch(StoredMeta(m)) = {m}
         /\ m.dims \in 1..MaxDimension /\ m.indexed \in 1..m.dims
         /\ m.bits > 1 => m.indexed <= 930
         /\ m.storage = 0 => m.bits = 1 /\ m.indexed <= MaxDimensionPlain /\ ~m.labels
<1>1. /\ m.dims \in Int /\ m.indexed \in Int /\ m.bits \in Nat \ {0} /\ m.labels = column.labels
  BY Created DEF Dimensions
<1>2. PICK s \in {"Plain", "SbqCompression"} :
        /\ m.storage = StorageByte(s)
        /\ Storable(s, m.dims, m.indexed, m.bits) /\ Supported(column, s, m.indexed)
  BY Created
<1>3. ValidDimensions(m.dims, m.indexed) /\ (m.bits > 1 => m.indexed <= 930 /\ s = "SbqCompression")
  BY <1>2 DEF Storable
<1>4. Fetch(StoredMeta(m)) = {m}
  BY <1>3 DEF Fetch, StoredMeta
<1>5. m.dims \in 1..MaxDimension /\ m.indexed \in 1..m.dims
  BY <1>1, <1>3, DimensionsBounded
<1>6. m.storage = 0 => s = "Plain"
  BY <1>2 DEF StorageByte
<1>7. m.storage = 0 => m.bits = 1 /\ m.indexed <= MaxDimensionPlain /\ ~m.labels
  BY <1>1, <1>2, <1>3, <1>6 DEF Supported
<1> QED BY <1>3, <1>4, <1>5, <1>7

\* For a table: its metadata is sound.
LEMMA CreateSound ==
  ASSUME NEW new \in Fresh, NEW m \in Create(new.request.column, new.request.option)
  PROVE  /\ DOMAIN m = MetaFields /\ MetaSound(m) /\ Fetch(StoredMeta(m)) = {m}
         /\ StorageOfByte(m.storage) \in {{"Plain"}, {"SbqCompression"}}
         /\ new.heap.row \in Tables(m.dims) /\ new.heap.there \subseteq Node
<1> DEFINE column == new.request.column
           option == new.request.option
<1>1. /\ new.heap.there \subseteq Node
      /\ \A d \in Dimensions(column.typmod) : new.heap.row \in Tables(d)
      /\ column.typmod \in Int
      /\ option.neighbors \in Int /\ option.dims \in Int /\ option.bits \in Nat
  BY FreshAssumption
<1> HIDE DEF column, option
<1>2. m \in Create(column, option)
  BY DEF column, option
<1>3. /\ DOMAIN m = MetaFields /\ m.dims \in Dimensions(column.typmod)
      /\ m.bits \in Nat \ {0} /\ m.neighbors \in Nat \ {0} /\ m.indexed \in Int
  BY <1>1, <1>2, Created
<1>4. \E s \in {"Plain", "SbqCompression"} : StorageOfByte(m.storage) = {s}
  BY <1>1, <1>2, Created
<1>5. Fetch(StoredMeta(m)) = {m}
  BY <1>1, <1>2, AcceptedIsUsable
<1>6. MetaSound(m)
  <2>1. ValidDimensions(m.dims, m.indexed)
    BY <1>1, <1>2, Created DEF Storable
  <2>2. m.dims \in Int
    BY <1>1, <1>3 DEF Dimensions
  <2>3. m.dims \in Nat /\ m.indexed \in Nat
    BY <1>3, <2>1, <2>2, DimensionsBounded
  <2> QED BY <1>3, <2>1, <2>3 DEF MetaSound
<1> QED BY <1>1, <1>3, <1>4, <1>5, <1>6

\* Without samples, everything is zero.
LEMMA TrainedNothing ==
  ASSUME NEW m, MetaSound(m), NEW row
  PROVE  Trained(StartTraining(m.bits, m.indexed), m, row, {})
<1> DEFINE q == StartTraining(m.bits, m.indexed)
<1>1. m.indexed \in Nat /\ m.bits \in Nat
  BY DEF MetaSound
<1>2. /\ DOMAIN q = QuantizerFields /\ q.bits = m.bits /\ q.count = 0 /\ q.mean = Zeros(m.indexed)
      /\ q.bits > 1 => q.m2 = Zeros(m.indexed)
  BY DEF StartTraining, QuantizerFields
<1> HIDE DEF q
<1>3. q.count = Cardinality({})
  BY <1>2, FS_EmptySet
<1>4. q.mean \in [1..m.indexed -> Int] /\ (q.bits > 1 => q.m2 \in [1..m.indexed -> Int])
  BY <1>2 DEF Zeros
<1>5. ASSUME NEW i \in 1..m.indexed
      PROVE  LET at  == [n \in {} |-> Scale * VectorOf(m, row, n)[i]]
                 off == [n \in {} |-> (at[n] - q.mean[i]) * (at[n] - q.mean[i])]
             IN  /\ q.count * q.mean[i] = SumFunctionOnSet(at, {})
                 /\ {} = {} => q.mean[i] = 0
                 /\ q.bits > 1 => q.m2[i] = SumFunctionOnSet(off, {})
  <2>1. q.mean[i] = 0 /\ (q.bits > 1 => q.m2[i] = 0) /\ q.count * q.mean[i] = 0
    BY <1>1, <1>2 DEF Zeros
  <2>2. \A f : SumFunctionOnSet(f, {}) = 0
    BY SumEmpty
  <2> QED BY <2>1, <2>2, Zenon
<1>6. Trained(q, m, row, {})
  BY <1>2, <1>3, <1>4, <1>5, Zenon DEF Trained
<1> QED BY <1>6 DEF q

\* One more sample; the quotient is exact because Scale is a multiple.
LEMMA TrainedMore ==
  ASSUME NEW m, MetaSound(m), NEW row \in Tables(m.dims), NEW S \in SUBSET Node,
         NEW n \in Node \ S, \A k \in S \cup {n} : row[k].vec # Null,
         NEW q, Trained(q, m, row, S)
  PROVE  Trained(AddSample(q, VectorOf(m, row, n)), m, row, S \cup {n})
<1> DEFINE s == VectorOf(m, row, n)
           T == S \cup {n}
           count == q.count + 1
           mean == [i \in DOMAIN s |-> q.mean[i] + (Scale * s[i] - q.mean[i]) \div count]
           m2 == [i \in DOMAIN s |-> q.m2[i] + (Scale * s[i] - q.mean[i]) * (Scale * s[i] - mean[i])]
           next == AddSample(q, s)
<1>1. /\ IsFiniteSet(S) /\ Cardinality(S) \in Nat /\ Cardinality(T) = Cardinality(S) + 1 /\ IsFiniteSet(T)
      /\ Cardinality(S) = 0 \/ Cardinality(S) \in 1..Cardinality(Node) - 1
  <2>1. IsFiniteSet(Node) /\ IsFiniteSet(S) /\ IsFiniteSet(T)
    BY SbqStorageAssumption, FS_Subset, T \subseteq Node
  <2>2. Cardinality(T) = Cardinality(S) + 1
    BY <2>1, FS_AddElement
  <2>3. Cardinality(T) <= Cardinality(Node)
    BY <2>1, FS_Subset, T \subseteq Node, SbqStorageAssumption
  <2>4. Cardinality(S) \in Nat /\ Cardinality(Node) \in Nat
    BY <2>1, FS_CardinalityType
  <2> QED BY <2>1, <2>2, <2>3, <2>4
<1>2. \A k \in T : /\ DOMAIN VectorOf(m, row, k) = 1..m.indexed
                   /\ \A i \in 1..m.indexed : VectorOf(m, row, k)[i] \in Int
  BY VectorOfRow
<1>3. /\ DOMAIN q = QuantizerFields /\ q.bits = m.bits /\ q.count = Cardinality(S)
      /\ q.mean \in [1..m.indexed -> Int] /\ (q.bits > 1 => q.m2 \in [1..m.indexed -> Int])
  BY DEF Trained
<1>4. DOMAIN s = 1..m.indexed /\ \A i \in 1..m.indexed : s[i] \in Int
  BY <1>2
<1>5. next = [q EXCEPT !.count = count, !.mean = mean, !.m2 = IF q.bits > 1 THEN m2 ELSE q.m2]
  BY DEF AddSample
<1> HIDE DEF s, next
<1>6. ASSUME NEW i \in 1..m.indexed
      PROVE  LET at  == [k \in T |-> Scale * VectorOf(m, row, k)[i]]
                 off == [k \in T |-> (at[k] - mean[i]) * (at[k] - mean[i])]
             IN  /\ mean[i] \in Int
                 /\ count * mean[i] = SumFunctionOnSet(at, T)
                 /\ q.bits > 1 => m2[i] = SumFunctionOnSet(off, T)
  <2> DEFINE of   == [k \in T |-> VectorOf(m, row, k)[i]]
             at   == [k \in T |-> Scale * VectorOf(m, row, k)[i]]
             atS  == [k \in S |-> Scale * VectorOf(m, row, k)[i]]
             a    == q.mean[i]
             off  == [k \in T |-> (at[k] - mean[i]) * (at[k] - mean[i])]
             offS == [k \in S |-> (atS[k] - a) * (atS[k] - a)]
             offT == [k \in S |-> (at[k] - a) * (at[k] - a)]
  <2>1. /\ q.count * a = SumFunctionOnSet(atS, S) /\ (S = {} => a = 0)
        /\ q.bits > 1 => q.m2[i] = SumFunctionOnSet(offS, S)
    BY <1>6, Zenon DEF Trained
  <2>2. a \in Int
    BY <1>3
  <2>3. \A k \in T : of[k] \in Int /\ at[k] = Scale * of[k]
    BY <1>2
  <2>4. \A k \in S : atS[k] \in Int /\ atS[k] = at[k]
    BY <1>2, ScaleAssumption
  <2>5. at[n] = Scale * s[i]
    BY DEF s
  <2>6. SumFunctionOnSet(atS, S) = SumFunctionOnSet(at, S)
    <3> HIDE DEF at, atS
    <3> QED BY <1>1, <2>4, SumAgree
  <2>7. offS = offT
    <3>1. ASSUME NEW k \in S PROVE (atS[k] - a) * (atS[k] - a) = (at[k] - a) * (at[k] - a)
      BY <2>4, Zenon
    <3> QED BY <3>1, Zenon
  <2>8. Cardinality(S) * a = SumFunctionOnSet(at, S)
    BY <1>3, <2>1, <2>6
  <2>9. mean[i] = a + (at[n] - a) \div (Cardinality(S) + 1)
    BY <1>3, <1>4, <1>6, <2>5
  <2>10. q.bits > 1 => m2[i] = q.m2[i] + (at[n] - a) * (at[n] - mean[i])
    <3>1. m2[i] = q.m2[i] + (Scale * s[i] - a) * (Scale * s[i] - mean[i])
      BY <1>4, <1>6, Zenon
    <3> QED BY <2>5, <3>1, Zenon
  <2> DEFINE v == mean[i]
  <2>11. /\ v = a + (at[n] - a) \div (Cardinality(S) + 1)
         /\ q.bits > 1 => m2[i] = q.m2[i] + (at[n] - a) * (at[n] - v)
         /\ off = [k \in T |-> (at[k] - v) * (at[k] - v)]
    BY <2>9, <2>10, Zenon
  <2> HIDE DEF at, of, atS, a, offS, v, mean, m2, off, T
  <2>12. /\ v \in Int
         /\ (Cardinality(S) + 1) * v = SumFunctionOnSet(at, S \cup {n})
         /\ SquaresFrom(at, a, S) + (at[n] - a) * (at[n] - v) = SquaresFrom(at, v, S \cup {n})
    <3>1. \A x \in S \cup {n} : of[x] \in Int /\ at[x] = Scale * of[x]
      BY <2>3 DEF T
    <3>2. v = MovedMean(Cardinality(S), a, at[n])
      BY <2>11, Zenon DEF MovedMean
    <3>3. IsFiniteSet(S) /\ n \notin S /\ (Cardinality(S) = 0 \/ Cardinality(S) \in 1..Cardinality(Node) - 1)
      BY <1>1
    <3>4. S = {} => a = 0
      BY <2>1
    <3>5. AnotherSample(S, n, of, at, a)
      BY <2>2, <2>8, <3>1, <3>3, <3>4 DEF AnotherSample
    <3> DEFINE w == MovedMean(Cardinality(S), a, at[n])
    <3>6. /\ w \in Int
          /\ (Cardinality(S) + 1) * w = SumFunctionOnSet(at, S \cup {n})
          /\ SquaresFrom(at, a, S) + (at[n] - a) * (at[n] - w) = SquaresFrom(at, w, S \cup {n})
      BY <3>5, SampleAdded, Zenon
    <3> HIDE DEF w
    <3>7. v = w
      BY <3>2 DEF w
    <3> QED BY <3>6, <3>7, Zenon
  <2>13. count * v = SumFunctionOnSet(at, T)
    <3>1. count = Cardinality(S) + 1
      BY <1>3
    <3> QED BY <2>12, <3>1, Zenon DEF T
  <2>14. q.bits > 1 => m2[i] = SumFunctionOnSet(off, T)
    <3> SUFFICES ASSUME q.bits > 1 PROVE m2[i] = SumFunctionOnSet(off, T)
      OBVIOUS
    <3>1. m2[i] = SquaresFrom(at, a, S) + (at[n] - a) * (at[n] - v)
      BY <2>1, <2>7, <2>11, Zenon DEF SquaresFrom
    <3>2. SumFunctionOnSet(off, T) = SquaresFrom(at, v, S \cup {n})
      BY <2>11, Zenon DEF T, SquaresFrom
    <3> QED BY <2>12, <3>1, <3>2, Zenon
  <2> QED BY <2>12, <2>13, <2>14, Zenon DEF at, off, v
<1>7. mean \in [1..m.indexed -> Int]
  <2>1. \A i \in 1..m.indexed : mean[i] \in Int
    BY <1>6, Zenon
  <2>2. mean = [i \in 1..m.indexed |-> mean[i]]
    BY <1>4
  <2> HIDE DEF mean
  <2> QED BY <2>1, <2>2
<1>8. q.bits > 1 => m2 \in [1..m.indexed -> Int]
  <2> SUFFICES ASSUME q.bits > 1 PROVE m2 \in [1..m.indexed -> Int]
    OBVIOUS
  <2>1. ASSUME NEW i \in 1..m.indexed PROVE m2[i] \in Int
    <3> DEFINE x == Scale * s[i] - q.mean[i]
               y == Scale * s[i] - mean[i]
    <3>1. x \in Int /\ y \in Int /\ q.m2[i] \in Int
      <4>1. s[i] \in Int /\ q.mean[i] \in Int /\ q.m2[i] \in Int
        BY <1>3, <1>4
      <4>0. Scale * s[i] \in Int
        BY <4>1, ScaleAssumption
      <4>2. mean[i] \in Int
        BY <1>7
      <4> HIDE DEF mean
      <4> QED BY <4>0, <4>1, <4>2
    <3>2. m2[i] = q.m2[i] + x * y
      BY <1>4, Zenon
    <3> HIDE DEF x, y, m2
    <3> QED BY <3>1, <3>2
  <2>2. m2 = [i \in 1..m.indexed |-> m2[i]]
    BY <1>4
  <2> HIDE DEF m2
  <2> QED BY <2>1, <2>2
<1> HIDE DEF mean, m2
<1>9. /\ DOMAIN next = QuantizerFields /\ next.bits = q.bits /\ next.count = count /\ next.mean = mean
      /\ q.bits > 1 => next.m2 = m2
  BY <1>3, <1>5 DEF QuantizerFields
<1>10. next.count = Cardinality(T) /\ T # {}
  BY <1>1, <1>3, <1>9
<1>11. ASSUME NEW i \in 1..m.indexed
       PROVE  LET at  == [k \in T |-> Scale * VectorOf(m, row, k)[i]]
                  off == [k \in T |-> (at[k] - next.mean[i]) * (at[k] - next.mean[i])]
              IN  /\ next.count * next.mean[i] = SumFunctionOnSet(at, T)
                  /\ T = {} => next.mean[i] = 0
                  /\ next.bits > 1 => next.m2[i] = SumFunctionOnSet(off, T)
  <2> HIDE DEF T, count
  <2> QED BY <1>6, <1>9, <1>10, Zenon
<1>12. next.bits = m.bits
  BY <1>3, <1>9
<1> HIDE DEF T, count
<1>13. next.mean \in [1..m.indexed -> Int] /\ (next.bits > 1 => next.m2 \in [1..m.indexed -> Int])
  BY <1>7, <1>8, <1>9
<1>14. Trained(next, m, row, T)
  BY <1>9, <1>10, <1>11, <1>12, <1>13, Zenon DEF Trained
<1> QED BY <1>14 DEF next, T, s

\* A new index, with the quantizer still to train if it has one.
LEMMA CreateIndexStep == ASSUME IInv, CreateIndex PROVE IInv'
<1>1. PICK m \in Create(request.column, request.option) :
        /\ page0' = StoredMeta(m)
        /\ IF StorageOfByte(m.storage) = {"SbqCompression"}
             THEN /\ phase' = "train"
                  /\ session' = [mode |-> "train", meta |-> m, unseen |-> heap.there,
                                 quantizer |-> StartTraining(m.bits, m.indexed)]
             ELSE phase' = "plain" /\ UNCHANGED session
  BY Zenon DEF CreateIndex
<1>2. phase = "create" /\ UNCHANGED << heap, request, means, nodes, used >>
  BY DEF CreateIndex
<1>3. PICK new \in Fresh : heap = new.heap /\ request = new.request
  BY <1>2 DEF IInv, PhaseInv
<1>4. /\ DOMAIN m = MetaFields /\ MetaSound(m) /\ Fetch(page0') = {m}
      /\ heap.row \in Tables(m.dims) /\ heap.there \subseteq Node
  BY <1>1, <1>3, CreateSound
<1>5. Written = {} /\ DOMAIN nodes = Node /\ session = Closed
  BY <1>2 DEF IInv, NodesInv, PhaseInv
<1>6. Written' = {}
  BY <1>2, <1>5 DEF Written
<1>7. NodesInv'
  BY <1>2, <1>5, <1>6 DEF NodesInv
<1>8. TableInv'
  BY <1>2, <1>4 DEF TableInv
<1>9. CASE StorageOfByte(m.storage) = {"SbqCompression"}
  <2> DEFINE q == StartTraining(m.bits, m.indexed)
             there == heap.there
  <2>1. phase' = "train" /\ session' = [mode |-> "train", meta |-> m, unseen |-> there, quantizer |-> q]
    BY <1>1, <1>9
  <2>2. Trained(q, m, heap.row, {})
    BY <1>4, TrainedNothing
  <2> HIDE DEF q, there
  <2>3. /\ DOMAIN session' = TrainingFields /\ session'.mode = "train" /\ session'.meta = m
        /\ session'.unseen = there /\ session'.quantizer = q
    BY <2>1 DEF TrainingFields
  <2>4. Sampled' = {}
    BY <1>2, <2>3 DEF Sampled, there
  <2>5. Trained(session'.quantizer, session'.meta, heap'.row, Sampled')
    BY <1>2, <2>2, <2>3, <2>4
  <2>6. PhaseInv'
    BY <1>2, <1>4, <1>9, <2>1, <2>3, <2>5 DEF PhaseInv, there
  <2>7. Opens' /\ StatsInv' /\ ReaderInv'
    BY <2>1, <2>3 DEF Opens, StatsInv, ReaderInv, Open
  <2> QED BY <1>7, <1>8, <2>6, <2>7 DEF IInv
<1>10. CASE StorageOfByte(m.storage) # {"SbqCompression"}
  <2>1. phase' = "plain" /\ session' = Closed
    BY <1>1, <1>5, <1>10
  <2>2. PhaseInv'
    BY <2>1 DEF PhaseInv, Closed
  <2>3. Opens' /\ StatsInv'
    <3>1. StorageOfByte(m.storage) = {"Plain"}
      BY <1>1, <1>3, <1>10, CreateSound
    <3>2. Loadable(m)'
      BY <3>1 DEF Loadable
    <3>3. ~GivenUp(page0')
      BY <1>1 DEF GivenUp, StoredMeta
    <3>4. \E x \in Fetch(page0') : Loadable(x)'
      BY <1>4, <3>2, Zenon
    <3> QED BY <2>1, <3>3, <3>4 DEF Opens, StatsInv
  <2>4. ReaderInv'
    BY <2>1 DEF ReaderInv, Open, Closed
  <2> QED BY <1>7, <1>8, <2>2, <2>3, <2>4 DEF IInv
<1> QED BY <1>9, <1>10

\* A refused index leaves nothing behind.
LEMMA RefuseStep == ASSUME IInv, Refuse PROVE IInv'
<1>1. /\ phase = "create" /\ phase' = "refused"
      /\ UNCHANGED << heap, request, page0, means, nodes, session, used >>
  BY DEF Refuse
<1>2. Written' = {} /\ DOMAIN nodes' = Node /\ session' = Closed
  BY <1>1 DEF IInv, NodesInv, PhaseInv, Written
<1>3. NodesInv'
  BY <1>2 DEF NodesInv
<1>4. TableInv'
  BY <1>1 DEF IInv, TableInv
<1>5. PhaseInv' /\ Opens' /\ StatsInv' /\ ReaderInv'
  BY <1>1, <1>2 DEF PhaseInv, Opens, StatsInv, ReaderInv, Open, Closed
<1> QED BY <1>3, <1>4, <1>5 DEF IInv

\* Every row of the scan is a sample, if it has a vector.
LEMMA TrainRowStep == ASSUME IInv, NEW n \in Node, TrainRow(n) PROVE IInv'
<1> DEFINE m == session.meta
           q == session.quantizer
           next == IF Indexed(n) THEN AddSample(q, Vector(m, n)) ELSE q
<1>1. /\ phase = "train" /\ n \in session.unseen
      /\ UNCHANGED << phase, heap, request, page0, means, nodes, used >>
  BY DEF TrainRow
<1>2. session' = [session EXCEPT !.unseen = session.unseen \ {n}, !.quantizer = next]
  BY DEF TrainRow
<1>3. /\ DOMAIN session = TrainingFields /\ session.mode = "train"
      /\ DOMAIN m = MetaFields /\ MetaSound(m) /\ heap.row \in Tables(m.dims)
      /\ StorageOfByte(m.storage) = {"SbqCompression"}
      /\ session.unseen \subseteq heap.there
      /\ Trained(q, m, heap.row, Sampled)
  BY <1>1 DEF IInv, PhaseInv
<1> HIDE DEF next
<1>4. /\ DOMAIN session' = TrainingFields /\ session'.mode = "train" /\ session'.meta = m
      /\ session'.unseen = session.unseen \ {n} /\ session'.quantizer = next
  BY <1>2, <1>3 DEF TrainingFields
<1>5. heap.there \subseteq Node
  BY DEF IInv, TableInv
<1>6. Trained(next, m, heap.row, Sampled')
  <2>1. CASE Indexed(n)
    <3>1. Sampled' = Sampled \cup {n} /\ n \notin Sampled /\ Sampled \subseteq Node
      BY <1>1, <1>3, <1>4, <1>5, <2>1 DEF Sampled, Indexed
    <3>2. \A k \in Sampled \cup {n} : heap.row[k].vec # Null
      BY <2>1 DEF Sampled, Indexed
    <3>3. Trained(AddSample(q, VectorOf(m, heap.row, n)), m, heap.row, Sampled \cup {n})
      <4> HIDE DEF m, q
      <4> QED BY <1>3, <3>1, <3>2, TrainedMore
    <3>4. next = AddSample(q, VectorOf(m, heap.row, n))
      BY <2>1 DEF next, Vector, VectorOf
    <3> QED BY <3>1, <3>3, <3>4, Zenon
  <2>2. CASE ~Indexed(n)
    <3>1. Sampled' = Sampled
      BY <1>1, <1>4, <2>2 DEF Sampled, Indexed
    <3> QED BY <1>3, <2>2, <3>1 DEF next
  <2> QED BY <2>1, <2>2
<1>7. PhaseInv'
  <2>1. session'.unseen \subseteq heap.there
    BY <1>3, <1>4
  <2>2. Trained(session'.quantizer, session'.meta, heap'.row, Sampled')
    BY <1>1, <1>4, <1>6
  <2> QED BY <1>1, <1>3, <1>4, <2>1, <2>2 DEF PhaseInv
<1>8. NodesInv'
  BY <1>1, NodesSame DEF IInv
<1>9. TableInv' /\ Opens' /\ StatsInv' /\ ReaderInv'
  BY <1>1, <1>4 DEF IInv, TableInv, Opens, StatsInv, ReaderInv, Open
<1> QED BY <1>7, <1>8, <1>9 DEF IInv

\* What Trained says depends on the bits and the dimensions alone.
LEMMA TrainedSame ==
  ASSUME NEW q, NEW m, NEW p, NEW row, NEW S, Trained(q, m, row, S),
         p.bits = m.bits, p.indexed = m.indexed
  PROVE  Trained(q, p, row, S)
<1>1. \A n : VectorOf(p, row, n) = VectorOf(m, row, n)
  BY DEF VectorOf, IndexSlice
<1> QED BY <1>1, Zenon DEF Trained

\* The statistics are stored and the metadata refers to them.
LEMMA StoreMeansStep == ASSUME IInv, StoreMeans PROVE IInv'
<1> DEFINE m == session.meta
           p == [m EXCEPT !.quantizer = StatsPointer]
           q == session.quantizer
<1>1. /\ phase = "train" /\ session.unseen = {} /\ phase' = "publish" /\ means' = [type |-> "SbqMeans", stats |-> q]
      /\ session' = [session EXCEPT !.meta = p]
      /\ UNCHANGED << heap, request, page0, nodes, used >>
  BY DEF StoreMeans
<1>2. /\ DOMAIN session = TrainingFields /\ session.mode = "train"
      /\ DOMAIN m = MetaFields /\ MetaSound(m) /\ heap.row \in Tables(m.dims)
      /\ StorageOfByte(m.storage) = {"SbqCompression"}
      /\ session.unseen \subseteq heap.there
      /\ Trained(q, m, heap.row, Sampled)
  BY <1>1 DEF IInv, PhaseInv
<1>3. /\ DOMAIN p = MetaFields /\ p.quantizer = StatsPointer /\ p.storage = m.storage
      /\ p.dims = m.dims /\ p.indexed = m.indexed /\ p.bits = m.bits /\ p.neighbors = m.neighbors
  <2> HIDE DEF m
  <2> QED BY <1>2 DEF MetaFields
<1> HIDE DEF p
<1>4. /\ DOMAIN session' = TrainingFields /\ session'.mode = "train" /\ session'.meta = p
      /\ session'.unseen = session.unseen /\ session'.quantizer = q
  BY <1>1, <1>2 DEF TrainingFields
<1>5. Sampled' = Sampled
  BY <1>1, <1>4 DEF Sampled, Indexed
<1>6. Trained(session'.quantizer, session'.meta, heap'.row, Sampled')
  <2>1. Trained(q, p, heap.row, Sampled)
    BY <1>2, <1>3, TrainedSame
  <2> QED BY <1>1, <1>4, <1>5, <2>1
<1>7. MetaSound(p) /\ heap.row \in Tables(p.dims) /\ StorageOfByte(p.storage) = {"SbqCompression"}
  BY <1>2, <1>3 DEF MetaSound
<1>8. PhaseInv'
  BY <1>1, <1>2, <1>3, <1>4, <1>6, <1>7 DEF PhaseInv
<1>9. NodesInv'
  <2>1. Written = {} /\ DOMAIN nodes = Node
    BY <1>1 DEF IInv, NodesInv
  <2>2. Written' = {}
    BY <1>1, <2>1 DEF Written
  <2> QED BY <1>1, <2>1, <2>2 DEF NodesInv
<1>10. TableInv' /\ Opens' /\ StatsInv' /\ ReaderInv'
  BY <1>1, <1>4 DEF IInv, TableInv, Opens, StatsInv, ReaderInv, Open
<1> QED BY <1>8, <1>9, <1>10 DEF IInv

\* From now on the index opens, with the statistics just stored.
LEMMA PublishMetaStep == ASSUME IInv, PublishMeta PROVE IInv'
<1>a. PICK m : m = session.meta
  OBVIOUS
<1>b. PICK q : q = session.quantizer
  OBVIOUS
<1>1. /\ phase = "publish" /\ phase' = "graph" /\ page0' = StoredMeta(m) /\ session' = Closed
      /\ UNCHANGED << heap, request, means, nodes, used >>
  BY <1>a DEF PublishMeta
<1>2. /\ MetaSound(m) /\ heap.row \in Tables(m.dims)
      /\ StorageOfByte(m.storage) = {"SbqCompression"}
      /\ Trained(q, m, heap.row, Sampled)
      /\ means = [type |-> "SbqMeans", stats |-> q] /\ m.quantizer = StatsPointer
      /\ session.unseen = {}
  BY <1>a, <1>b, <1>1 DEF IInv, PhaseInv
<1>3. Fetch(page0') = {m}
  BY <1>1, <1>2 DEF Fetch, StoredMeta, MetaSound
<1>4. Opens'
  <2> DEFINE r == [NewQuantizer(m.bits) EXCEPT !.count = q.count, !.mean = q.mean, !.m2 = q.m2]
  <2>1. means'.type = "SbqMeans" /\ means'.stats = q
    BY <1>1, <1>2
  <2>2. StatsPointer \in QuantizerPointer(m)
    BY <1>2, SbqStorageAssumption DEF QuantizerPointer
  <2>3. r \in LoadQuantizer(m)'
    BY <2>1, <2>2 DEF LoadQuantizer
  <2>4. r.bits = m.bits /\ r.mean = q.mean /\ r.m2 = q.m2
    BY DEF NewQuantizer
  <2>5. DOMAIN q.mean = 1..m.indexed /\ (m.bits > 1 => DOMAIN q.m2 = 1..m.indexed)
    BY <1>2 DEF Trained
  <2> HIDE DEF r
  <2>6. \E x \in LoadQuantizer(m)' : DOMAIN x.mean = 1..m.indexed /\ (x.bits > 1 => DOMAIN x.m2 = 1..m.indexed)
    BY <2>3, <2>4, <2>5
  <2>7. Loadable(m)'
    BY <1>2, <2>6 DEF Loadable, LoadQuantizer
  <2>8. \E p \in Fetch(page0') : Loadable(p)'
    BY <1>3, <2>7, Zenon
  <2>9. ~GivenUp(page0')
    BY <1>1 DEF GivenUp, StoredMeta
  <2> QED BY <2>8, <2>9, Zenon DEF Opens
<1>8. StatsInv'
  <2>1. TrainedRows' = Sampled
    BY <1>1, <1>2 DEF TrainedRows, Sampled, Indexed
  <2>2. means'.stats = q /\ heap' = heap
    BY <1>1, <1>2
  <2>3. \A p \in Fetch(page0') : Trained(means'.stats, p, heap'.row, TrainedRows')
    BY <1>2, <1>3, <2>1, <2>2, Zenon
  <2> QED BY <2>3, Zenon DEF StatsInv
<1>5. NodesInv'
  <2>1. Written = {} /\ DOMAIN nodes = Node
    BY <1>1 DEF IInv, NodesInv
  <2>2. Written' = {}
    BY <1>1, <2>1 DEF Written
  <2> QED BY <1>1, <2>1, <2>2 DEF NodesInv
<1>6. TableInv'
  BY <1>1, <1>2, <1>3 DEF IInv, TableInv
<1>7. PhaseInv' /\ ReaderInv'
  BY <1>1 DEF PhaseInv, ReaderInv, Open, Closed
<1> QED BY <1>4, <1>5, <1>6, <1>7, <1>8 DEF IInv

--------------------------------------------------------------------------------
(***************************************************************************)
(* The beginning                                                           *)
(***************************************************************************)

\* A table without an index.
LEMMA FreshInit ==
  ASSUME session = Closed, phase = "create",
         \E new \in Fresh : heap = new.heap /\ request = new.request,
         page0 = NoPage, nodes = [n \in Node |-> NoPage]
  PROVE  IInv
<1>1. Written = {} /\ DOMAIN nodes = Node
  BY DEF Written, NoPage
<1>2. heap.there \subseteq Node
  BY FreshAssumption
<1>3. Fetch(page0) = {}
  BY DEF Fetch, NoPage
<1>4. PhaseInv /\ TableInv /\ Opens /\ StatsInv
  BY <1>2, <1>3 DEF PhaseInv, TableInv, Opens, StatsInv
<1>5. NodesInv /\ ReaderInv
  BY <1>1 DEF NodesInv, ReaderInv, Open, Closed
<1> QED BY <1>4, <1>5 DEF IInv

\* What is read of an older version's metadata.
LEMMA LegacyMeta ==
  ASSUME NEW old \in Legacy, NEW m \in Fetch(old.page0)
  PROVE  /\ MetaSound(m) /\ old.heap.row \in Tables(m.dims) /\ m.labels = FALSE
         /\ StorageOfByte(m.storage) = {"SbqCompression"} =>
              /\ m.quantizer = StatsPointer /\ old.means.type = "SbqMeansV1"
              /\ DOMAIN old.means.stats.mean = 1..m.indexed
              /\ m.bits > 1 => DOMAIN old.means.stats.m2 = 1..m.indexed
<1> DEFINE page == old.page0
           meta == page.meta
<1>1. /\ meta.dims \in Nat /\ old.heap.row \in Tables(meta.dims) /\ meta.neighbors \in Nat \ {0}
      /\ page.type \in {"MetaV1", "MetaV2"}
      /\ page.type = "MetaV1" => ValidDimensions(meta.dims, meta.dims) /\ meta.pq \in BOOLEAN
      /\ page.type = "MetaV2" =>
           /\ meta.indexed \in Nat /\ ValidDimensions(meta.dims, meta.indexed)
           /\ meta.bits \in Nat \ {0}
           /\ StorageOfByte(meta.storage) = {"SbqCompression"} =>
                /\ meta.quantizer = StatsPointer /\ old.means.type = "SbqMeansV1"
                /\ DOMAIN old.means.stats.mean = 1..meta.indexed
                /\ meta.bits > 1 => DOMAIN old.means.stats.m2 = 1..meta.indexed
  BY LegacyAssumption
<1>2. CASE page.type = "MetaV1"
  <2>1. m \in OfV1(meta)
    BY <1>2 DEF Fetch
  <2>2. /\ m.dims = meta.dims /\ m.indexed = meta.dims /\ m.bits = 1 /\ m.neighbors = meta.neighbors
        /\ m.storage = StorageByte("Plain") /\ m.labels = FALSE
    BY <2>1 DEF OfV1
  <2>3. StorageOfByte(m.storage) = {"Plain"}
    BY <2>2 DEF StorageByte, StorageOfByte
  <2>4. StorageOfByte(m.storage) # {"SbqCompression"}
    BY <2>3
  <2> HIDE DEF meta, page
  <2>5. MetaSound(m) /\ old.heap.row \in Tables(m.dims)
    BY <1>1, <1>2, <2>2 DEF MetaSound, ValidDimensions
  <2> QED BY <2>2, <2>4, <2>5
<1>3. CASE page.type = "MetaV2"
  <2>1. m \in OfV2(meta)
    BY <1>3 DEF Fetch
  <2>2. /\ m.dims = meta.dims /\ m.indexed = meta.indexed /\ m.bits = meta.bits
        /\ m.neighbors = meta.neighbors /\ m.storage = meta.storage /\ m.quantizer = meta.quantizer
        /\ m.labels = FALSE
    BY <2>1 DEF OfV2
  <2> HIDE DEF meta, page
  <2> QED BY <1>1, <1>3, <2>2 DEF MetaSound
<1> QED BY <1>1, <1>2, <1>3

\* An index of an older version.
LEMMA LegacyInit ==
  ASSUME session = Closed, phase = "ready", request = Null, NEW old \in Legacy,
         heap = old.heap, page0 = old.page0, means = old.means,
         nodes = [n \in Node |-> LegacyNode(n)]
  PROVE  IInv
<1>1. ASSUME NEW m \in Fetch(page0)
      PROVE  /\ MetaSound(m) /\ heap.row \in Tables(m.dims) /\ m.labels = FALSE
             /\ StorageOfByte(m.storage) = {"SbqCompression"} =>
                  /\ m.quantizer = StatsPointer /\ means.type = "SbqMeansV1"
                  /\ DOMAIN means.stats.mean = 1..m.indexed
                  /\ m.bits > 1 => DOMAIN means.stats.m2 = 1..m.indexed
  BY LegacyMeta
<1>2. heap.there \subseteq Node
  BY LegacyAssumption
<1>3. TableInv
  BY <1>1, <1>2 DEF TableInv
<1>4. PhaseInv /\ ReaderInv /\ StatsInv
  BY DEF PhaseInv, ReaderInv, StatsInv, Open, Closed
<1> DEFINE meta == page0.meta
<1>a. /\ page0.type \in {"MetaV1", "MetaV2"}
      /\ page0.type = "MetaV1" => ValidDimensions(meta.dims, meta.dims) /\ meta.pq \in BOOLEAN
      /\ page0.type = "MetaV2" => ValidDimensions(meta.dims, meta.indexed) /\ meta.storage \in 0..2
  BY LegacyAssumption
<1>5. Opens
  <2>1. CASE page0.type = "MetaV1" /\ meta.pq
    <3>1. Fetch(page0) = {}
      BY <2>1 DEF Fetch, OfV1
    <3> QED BY <2>1, <3>1 DEF Opens, GivenUp
  <2>2. CASE page0.type = "MetaV1" /\ ~meta.pq
    <3> DEFINE m == [version |-> CurrentVersion, storage |-> StorageByte("Plain"), distance |-> "L2",
                     dims |-> meta.dims, indexed |-> meta.dims, bits |-> 1, neighbors |-> meta.neighbors,
                     labels |-> FALSE, roots |-> meta.root, quantizer |-> NoPointer]
    <3>0. m.dims = meta.dims /\ m.indexed = meta.dims /\ m.storage = StorageByte("Plain") /\ ~meta.pq
      BY <2>2
    <3> HIDE DEF meta
    <3>1. m \in OfV1(meta)
      BY <3>0 DEF OfV1
    <3> HIDE DEF m
    <3> USE DEF meta
    <3>2. m \in Fetch(page0)
      BY <1>a, <2>2, <3>0, <3>1 DEF Fetch
    <3>3. Loadable(m)
      BY <3>0 DEF Loadable, StorageByte, StorageOfByte
    <3>4. ~GivenUp(page0)
      BY <2>2 DEF GivenUp
    <3> QED BY <3>2, <3>3, <3>4 DEF Opens
  <2>3. CASE page0.type = "MetaV2" /\ meta.storage = 1
    <3>1. ASSUME NEW m \in Fetch(page0) PROVE ~Loadable(m)
      <4>1. m.storage = 1
        BY <2>3 DEF Fetch, OfV2
      <4> QED BY <4>1 DEF Loadable, StorageOfByte
    <3>2. GivenUp(page0)
      BY <2>3 DEF GivenUp
    <3> QED BY <3>1, <3>2 DEF Opens
  <2>4. CASE page0.type = "MetaV2" /\ meta.storage # 1
    <3>1. \E m \in OfV2(meta) : m.dims = meta.dims /\ m.indexed = meta.indexed /\ m.storage = meta.storage
      BY DEF OfV2
    <3>2. PICK m \in OfV2(meta) : m.dims = meta.dims /\ m.indexed = meta.indexed /\ m.storage = meta.storage
      BY <3>1
    <3>3. m \in Fetch(page0)
      BY <1>a, <2>4, <3>2 DEF Fetch
    <3>4. m.storage = 0 \/ m.storage = 2
      BY <1>a, <2>4, <3>2
    <3>5. CASE m.storage = 0
      <4>1. Loadable(m)
        BY <3>5 DEF Loadable, StorageOfByte
      <4> QED BY <2>4, <3>3, <4>1 DEF Opens, GivenUp
    <3>6. CASE m.storage = 2
      <4> DEFINE q == [NewQuantizer(m.bits) EXCEPT !.count = means.stats.count, !.mean = means.stats.mean,
                                                   !.m2 = means.stats.m2]
      <4>0. StorageOfByte(m.storage) = {"SbqCompression"}
        BY <3>6 DEF StorageOfByte
      <4>1. /\ m.quantizer = StatsPointer /\ means.type = "SbqMeansV1"
            /\ DOMAIN means.stats.mean = 1..m.indexed
            /\ m.bits > 1 => DOMAIN means.stats.m2 = 1..m.indexed
        BY <1>1, <3>3, <4>0
      <4>2. StatsPointer \in QuantizerPointer(m)
        BY <4>0, <4>1, SbqStorageAssumption DEF QuantizerPointer
      <4>3. q \in LoadQuantizer(m)
        BY <4>1, <4>2 DEF LoadQuantizer
      <4>4. q.bits = m.bits /\ q.mean = means.stats.mean /\ q.m2 = means.stats.m2
        BY DEF NewQuantizer
      <4> HIDE DEF q
      <4>5. Loadable(m)
        BY <4>0, <4>1, <4>3, <4>4 DEF Loadable
      <4>6. ~GivenUp(page0)
        BY <2>4 DEF GivenUp
      <4> QED BY <3>3, <4>5, <4>6 DEF Opens
    <3> QED BY <3>4, <3>5, <3>6
  <2> QED BY <1>a, <2>1, <2>2, <2>3, <2>4
<1> HIDE DEF meta
<1>6. ASSUME NEW n \in Written
      PROVE  /\ Indexed(n)
             /\ \A m \in Fetch(page0) : \A q \in LoadQuantizer(m) : Stored(nodes[n], m, q, heap.row, n, Written)
  <2> DEFINE found == UNION {{NewNode(m, q, n) : q \in LoadQuantizer(m)} : m \in Fetch(page0)}
             new   == CHOOSE node \in found : TRUE
             classic == [new EXCEPT !.type = "ClassicSbqNode", !.labels = Null]
  <2>1. n \in Node /\ nodes[n] = LegacyNode(n) /\ nodes[n].type # "none"
    BY DEF Written
  <2>2. Indexed(n) /\ nodes[n] = classic /\ new \in found
    <3>1. nodes[n] = IF n \in heap.there /\ Indexed(n) /\ found # {} THEN classic ELSE NoPage
      BY <2>1, Zenon DEF LegacyNode
    <3>2. NoPage.type = "none"
      BY DEF NoPage
    <3> HIDE DEF found, classic
    <3>3. found # {} => new \in found
      <4>1. ASSUME found # {} PROVE \E node \in found : TRUE
        BY <4>1
      <4> QED BY <4>1, Zenon
    <3>4. n \in heap.there /\ Indexed(n) /\ found # {}
      BY <2>1, <3>1, <3>2, Zenon
    <3> QED BY <3>1, <3>3, <3>4, Zenon
  <2> HIDE DEF new
  <2>3. PICK m \in Fetch(page0) : new \in {NewNode(m, q, n) : q \in LoadQuantizer(m)}
    BY <2>2, Zenon
  <2>4. PICK q \in LoadQuantizer(m) : new = NewNode(m, q, n)
    BY <2>3, Zenon
  <2>5. MetaSound(m) /\ m.labels = FALSE
    BY <1>1
  <2>6. Stored(new, m, q, heap.row, n, Written)
    BY <2>4, <2>5, NewNodeStored, Zenon
  <2>8. Stored(nodes[n], m, q, heap.row, n, Written)
    <3>1. Layout(m) = "ClassicSbqNode" /\ LabelsOf(m, heap.row, n) = Null
      BY <2>5 DEF Layout, LabelsOf, RowLabels
    <3>2. DOMAIN new = NodeFields
      BY <2>6 DEF Stored
    <3>3. /\ DOMAIN classic = NodeFields /\ classic.type = "ClassicSbqNode" /\ classic.labels = Null
          /\ classic.code = new.code /\ classic.slots = new.slots
      BY <3>2 DEF NodeFields
    <3> HIDE DEF classic
    <3> QED BY <2>2, <2>6, <3>1, <3>3 DEF Stored
  <2>7. (\A x \in Fetch(page0) : x = m) /\ (\A x \in LoadQuantizer(m) : x = q)
    BY FetchOne DEF LoadQuantizer
  <2> QED BY <2>2, <2>8, <2>7, Zenon
<1>7. NodesInv
  BY <1>6 DEF NodesInv
<1> QED BY <1>3, <1>4, <1>5, <1>7 DEF IInv

\* The invariant holds initially.
LEMMA InitIInv == Init => IInv
<1> SUFFICES ASSUME Init PROVE IInv
  OBVIOUS
<1>1. CASE phase = "create" /\ page0 = NoPage /\ nodes = [n \in Node |-> NoPage]
           /\ \E new \in Fresh : heap = new.heap /\ request = new.request
  BY <1>1, FreshInit DEF Init
<1>2. CASE phase = "ready" /\ request = Null /\ nodes = [n \in Node |-> LegacyNode(n)]
           /\ \E old \in Legacy : heap = old.heap /\ page0 = old.page0 /\ means = old.means
  BY <1>2, LegacyInit DEF Init
<1> QED BY <1>1, <1>2, Zenon DEF Init

--------------------------------------------------------------------------------
(***************************************************************************)
(* Every step, and the theorems                                            *)
(***************************************************************************)

\* A step that changes nothing changes no value of the invariant.
LEMMA StutterStep == ASSUME IInv, UNCHANGED vars PROVE IInv'
<1>1. UNCHANGED << phase, heap, request, page0, means, nodes, session, used >>
  BY DEF vars
<1>2. PhaseInv' /\ TableInv'
  BY <1>1 DEF IInv, PhaseInv, TableInv, Open, Sampled, Indexed
<1>3. Opens' /\ StatsInv'
  BY <1>1, PagesSame DEF IInv
<1>4. NodesInv' /\ Written' = Written
  BY <1>1, NodesSame DEF IInv
<1>5. ReaderInv'
  BY <1>1, <1>4 DEF IInv, ReaderInv, Open, LoadQuantizer
<1> QED BY <1>2, <1>3, <1>4, <1>5 DEF IInv

\* What the invariant says of codes in a dimension without spread.
LEMMA InvFlatDimensionsCoded == IInv => FlatDimensionsCoded
<1> SUFFICES ASSUME IInv, Open, request # Null, session.meta.bits > 1 PROVE FlatDimensionsCoded
  BY Zenon DEF FlatDimensionsCoded
<1>1. PICK m : m = session.meta
  OBVIOUS
<1>2. PICK q : q = session.quantizer
  OBVIOUS
<1>3. PICK row : row = heap.row
  OBVIOUS
<1>4. PICK S : S = TrainedRows
  OBVIOUS
<1>5. /\ phase \in {"graph", "ready"} /\ m \in Fetch(page0) /\ q \in LoadQuantizer(m)
      /\ MetaSound(m) /\ row \in Tables(m.dims) /\ QuerySound(session)
      /\ \A n \in Written : /\ n \in Node /\ row[n].vec # Null
                            /\ nodes[n].code = Quantize(q, VectorOf(m, row, n))
  BY <1>1, <1>2, <1>3, OpenReads DEF SessionInv, SearchInv, CodeOf
<1>6. q.bits = m.bits /\ q.count = means.stats.count /\ q.mean = means.stats.mean /\ q.m2 = means.stats.m2
  BY <1>5, LoadedQuantizer
<1>7. Trained(means.stats, m, row, S) /\ means.stats.bits = m.bits
  BY <1>3, <1>4, <1>5 DEF IInv, StatsInv, Trained
<1>8. S \subseteq Node /\ IsFiniteSet(S) /\ \A n \in S : row[n].vec # Null
  <2>1. heap.there \subseteq Node
    BY DEF IInv, TableInv
  <2>2. S \subseteq Node /\ \A n \in S : row[n].vec # Null
    BY <1>3, <1>4, <2>1 DEF TrainedRows, Indexed
  <2> QED BY <2>2, SbqStorageAssumption, FS_Subset
<1>9. \A n \in Node : row[n].vec # Null =>
        /\ DOMAIN VectorOf(m, row, n) = 1..m.indexed
        /\ \A i \in 1..m.indexed : VectorOf(m, row, n)[i] \in Int
  BY <1>5, VectorOfRow
<1>10. m.bits \in Nat \ {0} /\ m.bits > 1 /\ m.indexed \in Nat
  BY <1>1, <1>5 DEF MetaSound
<1>11. ASSUME NEW v, DOMAIN v = 1..m.indexed, NEW i \in 1..m.indexed, v[i] \in Int,
              \A a, b \in S : VectorOf(m, row, a)[i] = VectorOf(m, row, b)[i],
              NEW k \in (i - 1) * m.bits..i * m.bits - 1
       PROVE  k \in Quantize(q, v) <=> \E a \in S : v[i] > VectorOf(m, row, a)[i]
  <2>1. k \in Quantize(q, v) <=> k < (i - 1) * q.bits + Level(q, i, v[i])
    BY <1>6, <1>10, <1>11, OnesOfDimension
  <2>2. \A n \in S : VectorOf(m, row, n)[i] \in Int
    BY <1>8, <1>9
  <2>3. /\ q.m2[i] = 0 /\ q.mean[i] \in Int /\ q.count \in Nat /\ (q.count > 0 <=> S # {})
        /\ \A a \in S : q.mean[i] = Scale * VectorOf(m, row, a)[i]
    <3>1. PICK st : st = means.stats
      OBVIOUS
    <3>2. Trained(st, m, row, S) /\ st.bits > 1
      BY <1>7, <1>10, <3>1
    <3>3. /\ st.m2[i] = 0 /\ st.mean[i] \in Int /\ st.count \in Nat /\ (st.count > 0 <=> S # {})
          /\ \A a \in S : st.mean[i] = Scale * VectorOf(m, row, a)[i]
      BY <1>8, <1>11, <2>2, <3>2, FlatStatistics
    <3> QED BY <1>6, <3>1, <3>3
  <2>4. Level(q, i, v[i]) = IF q.count > 0 /\ Scale * v[i] > q.mean[i] THEN q.bits ELSE 0
    BY <1>6, <1>10, <1>11, <2>3, FlatLevel
  <2>5. k < (i - 1) * q.bits + Level(q, i, v[i]) <=> q.count > 0 /\ Scale * v[i] > q.mean[i]
    <3> DEFINE x == (i - 1) * m.bits
               e == i * m.bits
    <3>1. x \in Int /\ e = x + m.bits /\ k \in x..e - 1
      BY <1>10
    <3>2. (i - 1) * q.bits = x
      BY <1>6
    <3> HIDE DEF x, e
    <3> QED BY <1>6, <1>10, <2>4, <3>1, <3>2
  <2>6. ASSUME NEW a \in S PROVE Scale * v[i] > q.mean[i] <=> v[i] > VectorOf(m, row, a)[i]
    <3>1. \A c \in Nat \ {0} : \A x, y \in Int : c * x > c * y <=> x > y
      <4> SUFFICES ASSUME NEW c \in Nat \ {0}, NEW x \in Int, NEW y \in Int
                   PROVE  c * x > c * y <=> x > y
        OBVIOUS
      <4>1. c * x - c * y = c * (x - y)
        OBVIOUS
      <4>2. x - y > 0 => c * (x - y) > 0
        OBVIOUS
      <4>3. x - y <= 0 => c * (x - y) <= 0
        OBVIOUS
      <4> QED BY <4>1, <4>2, <4>3
    <3>2. q.mean[i] = Scale * VectorOf(m, row, a)[i] /\ VectorOf(m, row, a)[i] \in Int
      BY <2>2, <2>3
    <3> QED BY <1>11, <3>1, <3>2, ScaleAssumption
  <2> QED BY <2>1, <2>3, <2>5, <2>6
<1>12. ASSUME NEW c \in {<< Vector(m, n), nodes[n].code >> : n \in Written}
                          \cup {<< s.vec, s.code >> : s \in {session.query} \ {Null}}
       PROVE  /\ DOMAIN c[1] = 1..m.indexed /\ c[2] = Quantize(q, c[1])
              /\ \A i \in 1..m.indexed : c[1][i] \in Int
  <2>1. ASSUME NEW n \in Written, c = << Vector(m, n), nodes[n].code >>
        PROVE  /\ DOMAIN c[1] = 1..m.indexed /\ c[2] = Quantize(q, c[1])
               /\ \A i \in 1..m.indexed : c[1][i] \in Int
    <3>1. c[1] = VectorOf(m, row, n) /\ c[2] = nodes[n].code
      BY <1>3, <2>1 DEF Vector, VectorOf
    <3> QED BY <1>5, <1>9, <3>1
  <2>2. ASSUME session.query # Null, c = << session.query.vec, session.query.code >>
        PROVE  /\ DOMAIN c[1] = 1..m.indexed /\ c[2] = Quantize(q, c[1])
               /\ \A i \in 1..m.indexed : c[1][i] \in Int
    <3>1. c[1] = session.query.vec /\ c[2] = session.query.code
      BY <2>2
    <3> QED BY <1>1, <1>2, <1>5, <2>2, <3>1 DEF QuerySound
  <2> QED BY <2>1, <2>2
<1>13. \A n : Vector(m, n) = VectorOf(m, row, n)
  BY <1>3 DEF Vector, VectorOf
<1>14. {n \in heap.there : Indexed(n)} = S
  BY <1>4 DEF TrainedRows
<1> SUFFICES ASSUME NEW i \in 1..session.meta.indexed,
                    \A a, b \in {n \in heap.there : Indexed(n)} :
                       Vector(session.meta, a)[i] = Vector(session.meta, b)[i],
                    NEW c \in {<< Vector(session.meta, n), nodes[n].code >> : n \in Written}
                              \cup {<< s.vec, s.code >> : s \in {session.query} \ {Null}},
                    NEW k \in (i - 1) * session.meta.bits..i * session.meta.bits - 1
             PROVE  k \in c[2] <=> \E a \in {n \in heap.there : Indexed(n)} : c[1][i] > Vector(session.meta, a)[i]
  BY Zenon DEF FlatDimensionsCoded
<1>15. i \in 1..m.indexed /\ k \in (i - 1) * m.bits..i * m.bits - 1
       /\ \A a, b \in S : VectorOf(m, row, a)[i] = VectorOf(m, row, b)[i]
  BY <1>1, <1>13, <1>14, Zenon
<1>16. DOMAIN c[1] = 1..m.indexed /\ c[2] = Quantize(q, c[1]) /\ c[1][i] \in Int
  <2>1. c \in {<< Vector(m, n), nodes[n].code >> : n \in Written}
              \cup {<< s.vec, s.code >> : s \in {session.query} \ {Null}}
    BY <1>1, Zenon
  <2> QED BY <1>12, <1>15, <2>1, Zenon
<1>17. k \in Quantize(q, c[1]) <=> \E a \in S : c[1][i] > VectorOf(m, row, a)[i]
  BY <1>11, <1>15, <1>16
<1>18. (\E a \in S : c[1][i] > VectorOf(m, row, a)[i])
         <=> \E a \in {n \in heap.there : Indexed(n)} : c[1][i] > Vector(session.meta, a)[i]
  BY <1>1, <1>13, <1>14, Zenon
<1> QED BY <1>16, <1>17, <1>18, Zenon

\* Every step keeps the invariant.
LEMMA NextIInv == IInv /\ [Next]_vars => IInv'
<1> SUFFICES ASSUME IInv, [Next]_vars PROVE IInv'
  OBVIOUS
<1>1. CASE CreateIndex BY <1>1, CreateIndexStep
<1>2. CASE Refuse BY <1>2, RefuseStep
<1>3. CASE StoreMeans BY <1>3, StoreMeansStep
<1>4. CASE PublishMeta BY <1>4, PublishMetaStep
<1>5. CASE FinishBuild BY <1>5, FinishBuildStep
<1>6. ASSUME NEW mode \in {"build", "insert", "search"}, OpenSession(mode) PROVE IInv'
  BY <1>6, OpenSessionStep
<1>7. CASE CloseSession BY <1>7, CloseSessionStep
<1>8. CASE BeginSearch BY <1>8, BeginSearchStep
<1>9. CASE VisitNeighbor BY <1>9, VisitNeighborStep
<1>10. CASE NeighborDistance BY <1>10, NeighborDistanceStep
<1>11. CASE TrySetNeighbors BY <1>11, TrySetNeighborsStep
<1>12. CASE Return BY <1>12, ReturnStep
<1>13. CASE PublishRoot BY <1>13, PublishRootStep
<1>14. ASSUME NEW n \in Node,
              \/ TrainRow(n) \/ CreateNode(n) \/ StartNode(n) \/ Visit(n)
              \/ Measure(n) \/ MeasureTo(n) \/ Neighbors(n)
              \/ OthersInsert(n) \/ OthersRelink(n) \/ Vacuum(n)
       PROVE  IInv'
  <2>1. CASE TrainRow(n) BY <2>1, TrainRowStep
  <2>2. CASE CreateNode(n) BY <2>2, CreateNodeStep
  <2>3. CASE StartNode(n) BY <2>3, StartNodeStep
  <2>4. CASE Visit(n) BY <2>4, VisitStep
  <2>5. CASE Measure(n) BY <2>5, MeasureStep
  <2>6. CASE MeasureTo(n) BY <2>6, MeasureToStep
  <2>7. CASE Neighbors(n) BY <2>7, NeighborsStep
  <2>8. CASE OthersInsert(n) BY <2>8, OthersInsertStep
  <2>9. CASE OthersRelink(n) BY <2>9, OthersRelinkStep
  <2>10. CASE Vacuum(n) BY <2>10, VacuumStep
  <2> QED BY <1>14, <2>1, <2>2, <2>3, <2>4, <2>5, <2>6, <2>7, <2>8, <2>9, <2>10
<1>15. CASE UNCHANGED vars BY <1>15, StutterStep
<1> QED BY <1>1, <1>2, <1>3, <1>4, <1>5, <1>6, <1>7, <1>8, <1>9, <1>10, <1>11, <1>12, <1>13, <1>14, <1>15
        DEF Next

\* The invariant holds in every behavior.
THEOREM Invariance == Spec => []IInv
BY InitIInv, NextIInv, PTL DEF Spec

\* Welford's update over the table, row by row and whatever the order, keeps
\* exactly the mean and the squared distances of the samples so far (add_sample).
THEOREM TrainingIsExact == Spec => []TrainedExactly
BY Invariance, InvTrainedExactly, PTL

\* What CREATE INDEX accepted or an older version has built can be opened (fetch,
\* SbqMeans::load) and every node is of the layout it is read by (SbqNode::read),
\* before and after the metadata is rewritten in the current format; product
\* quantization and the storage whose byte was 1 never are (From<&MetaPageV1>, from_u8).
THEOREM IndexesOpen == Spec => []OpensAsBuilt
BY Invariance, InvOpensAsBuilt, PTL

\* The distances given to the graph count the ranges between the vectors, with
\* codes that were stored, cached, evicted or read again by any session.
THEOREM DistancesAreTrue == Spec => []DistancesTrue
BY Invariance, InvDistancesTrue, PTL

\* A dimension in which the rows of CREATE INDEX do not differ, whose standard
\* deviation is zero, is coded by a comparison with their value, in codes of any
\* number of bits, for nodes and for queries (quantize).
THEOREM FlatDimensionsAreCoded == Spec => []FlatDimensionsCoded
BY Invariance, InvFlatDimensionsCoded, PTL

\* The cache of codes never disagrees with the pages (QuantizedVectorCache).
THEOREM CacheIsSound == Spec => []CacheSound
BY Invariance, InvCacheSound, PTL

\* A label filter keeps exactly the neighbors that an SQL filter would (visit_lsn_internal).
THEOREM FilterIsExact == Spec => []FilterExact
BY Invariance, InvFilterExact, PTL
================================================================================
