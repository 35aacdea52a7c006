----------------------------- MODULE SumTheorems -----------------------------
(***************************************************************************)
(* Facts about finite sets and about the sums and counts of the models,    *)
(* SumFunctionOnSet(f, S) and Cardinality, for every finite set.  A family *)
(* of sets takes the place of a predicate in the induction principle.      *)
(***************************************************************************)
EXTENDS FiniteSetsExt, Functions, Ordering, FiniteSetTheorems, TLAPS

-----------------------------------------------------------------------------
(* Induction over a finite set *)

LEMMA SmallestSet ==
  ASSUME NEW S, IsFiniteSet(S), NEW C, C \subseteq SUBSET S, C # {}
  PROVE  \E T \in C : \A U \in C : U \subseteq T => U = T
<1>1. C \subseteq FiniteSubsetsOf(S)
  BY FS_FiniteSubsetsOfFinite
<1>2. PICK T \in C : \A U \in C : ~(<<U, T>> \in StrictSubsetOrdering(S))
  BY <1>1, FS_StrictSubsetOrderingWellFounded, WFMin
<1>3. \A U \in C : U \subseteq T => U = T
  BY <1>2 DEF StrictSubsetOrdering
<1>4. QED
  BY <1>3

\* What holds of the empty set, and of T \cup {x} when it holds of T, holds of S.
LEMMA SetInduction ==
  ASSUME NEW S, IsFiniteSet(S), NEW C,
         {} \in C,
         \A T \in SUBSET S : \A x \in S \ T : T \in C => T \cup {x} \in C
  PROVE  \A T \in SUBSET S : T \in C
<1> DEFINE bad == {T \in SUBSET S : T \notin C}
<1>1. ASSUME bad # {} PROVE FALSE
  <2>0. bad \subseteq SUBSET S
    OBVIOUS
  <2>1. PICK T \in bad : \A U \in bad : U \subseteq T => U = T
    <3> HIDE DEF bad
    <3>1. QED
      BY <1>1, <2>0, SmallestSet
  <2>2. PICK x : x \in T
    BY <2>1
  <2>3. T \ {x} \notin bad
    BY <2>1, <2>2
  <2>4. T \ {x} \in SUBSET S /\ x \in S \ (T \ {x}) /\ T \ {x} \in C
    BY <2>1, <2>2, <2>3
  <2>5. (T \ {x}) \cup {x} = T
    BY <2>2
  <2>6. QED
    BY <2>1, <2>4, <2>5
<1>2. QED
  BY <1>1

-----------------------------------------------------------------------------
(* Sums *)

\* The function that SumFunctionOnSet computes on the subsets of S.
IsSum(f, g, S) ==
  g = [s \in SUBSET S |-> IF s = {} THEN 0 ELSE f[CHOOSE x \in s : TRUE] + g[s \ {CHOOSE x \in s : TRUE}]]

LEMMA IsSumStep ==
  ASSUME NEW f, NEW g, NEW S, IsSum(f, g, S), NEW T \in SUBSET S
  PROVE  /\ T = {} => g[T] = 0
         /\ T # {} => LET x == CHOOSE y \in T : TRUE IN x \in T /\ g[T] = f[x] + g[T \ {x}]
BY DEF IsSum

LEMMA IsSumUnique ==
  ASSUME NEW f, NEW g, NEW h, NEW S, NEW T, IsSum(f, g, S), IsSum(f, h, T),
         NEW U, IsFiniteSet(U), U \subseteq S, U \subseteq T
  PROVE  g[U] = h[U]
<1> DEFINE bad == {V \in SUBSET U : g[V] # h[V]}
<1>1. ASSUME bad # {} PROVE FALSE
  <2>0. bad \subseteq SUBSET U
    OBVIOUS
  <2>1. PICK V \in bad : \A W \in bad : W \subseteq V => W = V
    <3> HIDE DEF bad
    <3>1. QED
      BY <1>1, <2>0, SmallestSet
  <2>2. V \in SUBSET S /\ V \in SUBSET T
    BY <2>1
  <2>3. V # {}
    BY <2>1, <2>2, IsSumStep
  <2> DEFINE x == CHOOSE y \in V : TRUE
  <2>4. x \in V
    BY <2>3
  <2>5. g[V] = f[x] + g[V \ {x}] /\ h[V] = f[x] + h[V \ {x}]
    <3>1. g[V] = f[x] + g[V \ {x}]
      BY <2>2, <2>3 DEF IsSum
    <3>2. h[V] = f[x] + h[V \ {x}]
      BY <2>2, <2>3 DEF IsSum
    <3>3. QED
      BY <3>1, <3>2
  <2> HIDE DEF x
  <2>6. V \ {x} \notin bad
    BY <2>1, <2>4
  <2>7. g[V \ {x}] = h[V \ {x}]
    BY <2>1, <2>6
  <2>8. QED
    BY <2>1, <2>5, <2>7
<1>2. QED
  BY <1>1

LEMMA IsSumExists ==
  ASSUME NEW f, NEW S, IsFiniteSet(S)
  PROVE  \E g : IsSum(f, g, S)
<1> DEFINE bad == {T \in SUBSET S : ~ \E g : IsSum(f, g, T)}
           Pick(s) == CHOOSE x \in s : TRUE
           Part(T) == CHOOSE g : IsSum(f, g, T)
<1>1. ASSUME bad # {} PROVE FALSE
  <2>0. bad \subseteq SUBSET S
    OBVIOUS
  <2>1. PICK T \in bad : \A U \in bad : U \subseteq T => U = T
    <3> HIDE DEF bad
    <3>1. QED
      BY <1>1, <2>0, SmallestSet
  <2>2. \A U \in SUBSET T : IsFiniteSet(U)
    BY <2>1, FS_Subset
  <2>3. ASSUME NEW U \in SUBSET T, U # T PROVE IsSum(f, Part(U), U)
    <3>1. \E g : IsSum(f, g, U)
      BY <2>1, <2>3
    <3>2. QED
      BY <3>1
  <2> DEFINE Value(s) == IF s = {} THEN 0 ELSE f[Pick(s)] + Part(s \ {Pick(s)})[s \ {Pick(s)}]
             g == [s \in SUBSET T |-> Value(s)]
  <2>4. \A s : s # {} => Pick(s) \in s
    OBVIOUS
  <2>5. \A s \in SUBSET T : s # {} => Part(s)[s] = f[Pick(s)] + Part(s)[s \ {Pick(s)}] \/ s = T
    BY <2>3, IsSumStep
  <2>6. \A s \in SUBSET T : s = {} => Part(s)[s] = 0 \/ s = T
    BY <2>3, IsSumStep
  <2> HIDE DEF Part, Pick, bad
  <2>7. ASSUME NEW s \in SUBSET T, s # T PROVE Value(s) = Part(s)[s]
    <3>1. CASE s = {}
      BY <3>1, <2>6, <2>7
    <3>2. CASE s # {}
      <4> DEFINE v == s \ {Pick(s)}
      <4>1. v \in SUBSET T /\ v # T /\ v \in SUBSET s
        BY <2>4, <3>2
      <4> HIDE DEF v
      <4>2. IsFiniteSet(v) /\ IsSum(f, Part(v), v) /\ IsSum(f, Part(s), s)
        BY <2>2, <2>3, <2>7, <4>1
      <4>3. Part(s)[v] = Part(v)[v]
        BY <4>1, <4>2, IsSumUnique
      <4>4. Part(s)[s] = f[Pick(s)] + Part(s)[v]
        BY <2>5, <2>7, <3>2 DEF v
      <4>5. Value(s) = f[Pick(s)] + Part(v)[v]
        BY <3>2 DEF v
      <4>6. QED
        BY <4>3, <4>4, <4>5
    <3>3. QED
      BY <3>1, <3>2
  <2>8. ASSUME NEW s \in SUBSET T, s # {}
        PROVE  g[s \ {Pick(s)}] = Part(s \ {Pick(s)})[s \ {Pick(s)}]
    <3>1. s \ {Pick(s)} \in SUBSET T /\ s \ {Pick(s)} # T
      BY <2>4, <2>8
    <3>2. g[s \ {Pick(s)}] = Value(s \ {Pick(s)})
      BY <3>1
    <3> HIDE DEF Value, g
    <3>3. QED
      BY <2>7, <3>1, <3>2
  <2>9. \A s \in SUBSET T : Value(s) = IF s = {} THEN 0 ELSE f[Pick(s)] + g[s \ {Pick(s)}]
    BY <2>8
  <2>10. g = [s \in SUBSET T |-> IF s = {} THEN 0 ELSE f[Pick(s)] + g[s \ {Pick(s)}]]
    <3> HIDE DEF Value
    <3> DEFINE h == [s \in SUBSET T |-> IF s = {} THEN 0 ELSE f[Pick(s)] + g[s \ {Pick(s)}]]
    <3>1. \A s \in SUBSET T : g[s] = h[s]
      BY <2>9
    <3>2. QED
      BY <3>1
  <2>11. IsSum(f, g, T)
    <3> HIDE DEF g
    <3>1. QED
      BY <2>10 DEF IsSum, Pick
  <2>12. QED
    BY <2>1, <2>11 DEF bad
<1>2. QED
  BY <1>1

LEMMA SumIsSum ==
  ASSUME NEW f, NEW S, IsFiniteSet(S)
  PROVE  \E g : IsSum(f, g, S) /\ SumFunctionOnSet(f, S) = g[S]
<1>1. SumFunctionOnSet(f, S) = (CHOOSE g : IsSum(f, g, S))[S]
  BY DEF SumFunctionOnSet, FoldFunctionOnSet, MapThenFoldSet, IsSum
<1>2. QED
  BY <1>1, IsSumExists

LEMMA SumEmpty == ASSUME NEW f PROVE SumFunctionOnSet(f, {}) = 0
<1>1. PICK g : IsSum(f, g, {}) /\ SumFunctionOnSet(f, {}) = g[{}]
  BY SumIsSum, FS_EmptySet
<1>2. {} \in SUBSET {}
  OBVIOUS
<1>3. QED
  BY <1>1, <1>2, IsSumStep

\* The defining equation of the fold.
LEMMA SumChosen ==
  ASSUME NEW f, NEW S, IsFiniteSet(S), S # {}
  PROVE  \E x \in S : SumFunctionOnSet(f, S) = f[x] + SumFunctionOnSet(f, S \ {x})
<1>1. PICK g : IsSum(f, g, S) /\ SumFunctionOnSet(f, S) = g[S]
  BY SumIsSum
<1> DEFINE x == CHOOSE y \in S : TRUE
<1>2. x \in S /\ g[S] = f[x] + g[S \ {x}]
  BY <1>1, IsSumStep
<1> HIDE DEF x
<1>3. IsFiniteSet(S \ {x})
  BY FS_RemoveElement
<1>4. PICK h : IsSum(f, h, S \ {x}) /\ SumFunctionOnSet(f, S \ {x}) = h[S \ {x}]
  BY <1>3, SumIsSum
<1>5. h[S \ {x}] = g[S \ {x}]
  BY <1>1, <1>3, <1>4, IsSumUnique
<1>6. QED
  BY <1>1, <1>2, <1>4, <1>5

\* What holds of the empty set, and of a set when it holds of it less any one element, holds of S.
LEMMA RemovalInduction ==
  ASSUME NEW S, IsFiniteSet(S), NEW C,
         {} \in C,
         \A T \in SUBSET S : T # {} /\ (\A x \in T : T \ {x} \in C) => T \in C
  PROVE  \A T \in SUBSET S : T \in C
<1> DEFINE bad == {T \in SUBSET S : T \notin C}
<1>1. ASSUME bad # {} PROVE FALSE
  <2>0. bad \subseteq SUBSET S
    OBVIOUS
  <2>1. PICK T \in bad : \A U \in bad : U \subseteq T => U = T
    <3> HIDE DEF bad
    <3>1. QED
      BY <1>1, <2>0, SmallestSet
  <2>2. \A x \in T : T \ {x} \in SUBSET S /\ T \ {x} \subseteq T /\ T \ {x} # T
    BY <2>1
  <2>3. \A x \in T : T \ {x} \in C
    BY <2>1, <2>2
  <2>4. QED
    BY <2>1, <2>3
<1>2. QED
  BY <1>1

LEMMA SumInt ==
  ASSUME NEW f, NEW S, IsFiniteSet(S), \A x \in S : f[x] \in Int
  PROVE  SumFunctionOnSet(f, S) \in Int
<1> DEFINE C == {T \in SUBSET S : SumFunctionOnSet(f, T) \in Int}
<1>1. {} \in C
  BY SumEmpty
<1>2. ASSUME NEW T \in SUBSET S, T # {}, \A x \in T : T \ {x} \in C PROVE T \in C
  <2>1. IsFiniteSet(T)
    BY FS_Subset
  <2>2. PICK x \in T : SumFunctionOnSet(f, T) = f[x] + SumFunctionOnSet(f, T \ {x})
    BY <1>2, <2>1, SumChosen
  <2>3. QED
    BY <1>2, <2>2
<1>3. \A T \in SUBSET S : T \in C
  <2> HIDE DEF C
  <2>1. QED
    BY <1>1, <1>2, RemovalInduction
<1>4. QED
  BY <1>3

LEMMA SumNat ==
  ASSUME NEW f, NEW S, IsFiniteSet(S), \A x \in S : f[x] \in Nat
  PROVE  SumFunctionOnSet(f, S) \in Nat
<1> DEFINE C == {T \in SUBSET S : SumFunctionOnSet(f, T) \in Nat}
<1>1. {} \in C
  BY SumEmpty
<1>2. ASSUME NEW T \in SUBSET S, T # {}, \A x \in T : T \ {x} \in C PROVE T \in C
  <2>1. IsFiniteSet(T)
    BY FS_Subset
  <2>2. PICK x \in T : SumFunctionOnSet(f, T) = f[x] + SumFunctionOnSet(f, T \ {x})
    BY <1>2, <2>1, SumChosen
  <2>3. QED
    BY <1>2, <2>2
<1>3. \A T \in SUBSET S : T \in C
  <2> HIDE DEF C
  <2>1. QED
    BY <1>1, <1>2, RemovalInduction
<1>4. QED
  BY <1>3

\* The order of the additions does not matter: any element may be taken out first.
LEMMA SumRemove ==
  ASSUME NEW f, NEW S, IsFiniteSet(S), \A x \in S : f[x] \in Int
  PROVE  \A x \in S : SumFunctionOnSet(f, S) = f[x] + SumFunctionOnSet(f, S \ {x})
<1> DEFINE C == {T \in SUBSET S :
                   \A x \in T : SumFunctionOnSet(f, T) = f[x] + SumFunctionOnSet(f, T \ {x})}
<1>1. {} \in C
  OBVIOUS
<1>2. ASSUME NEW T \in SUBSET S, T # {}, \A x \in T : T \ {x} \in C PROVE T \in C
  <2>1. IsFiniteSet(T) /\ \A U \in SUBSET T : IsFiniteSet(U)
    BY FS_Subset
  <2>2. \A U \in SUBSET T : SumFunctionOnSet(f, U) \in Int
    BY <2>1, SumInt
  <2>3. PICK y \in T : SumFunctionOnSet(f, T) = f[y] + SumFunctionOnSet(f, T \ {y})
    BY <1>2, <2>1, SumChosen
  <2>4. ASSUME NEW x \in T PROVE SumFunctionOnSet(f, T) = f[x] + SumFunctionOnSet(f, T \ {x})
    <3>1. CASE x = y
      BY <2>3, <3>1
    <3>2. CASE x # y
      <4>1. SumFunctionOnSet(f, T \ {y}) = f[x] + SumFunctionOnSet(f, (T \ {y}) \ {x})
        BY <1>2, <3>2
      <4>2. SumFunctionOnSet(f, T \ {x}) = f[y] + SumFunctionOnSet(f, (T \ {x}) \ {y})
        BY <1>2, <3>2
      <4> DEFINE u == (T \ {x}) \ {y}
      <4>3. (T \ {y}) \ {x} = u /\ u \in SUBSET T
        OBVIOUS
      <4>4. f[x] \in Int /\ f[y] \in Int /\ SumFunctionOnSet(f, u) \in Int
        BY <2>2, <4>3
      <4>5. SumFunctionOnSet(f, T) = f[y] + (f[x] + SumFunctionOnSet(f, u))
        BY <2>3, <4>1, <4>3
      <4>6. SumFunctionOnSet(f, T \ {x}) = f[y] + SumFunctionOnSet(f, u)
        BY <4>2
      <4> HIDE DEF u
      <4>7. QED
        BY <4>4, <4>5, <4>6
    <3>3. QED
      BY <3>1, <3>2
  <2>5. QED
    BY <2>4
<1>3. \A T \in SUBSET S : T \in C
  <2> HIDE DEF C
  <2>1. QED
    BY <1>1, <1>2, RemovalInduction
<1>4. QED
  BY <1>3

LEMMA SumAdd ==
  ASSUME NEW f, NEW S, IsFiniteSet(S), \A y \in S : f[y] \in Int,
         NEW x, x \notin S, f[x] \in Int
  PROVE  SumFunctionOnSet(f, S \cup {x}) = f[x] + SumFunctionOnSet(f, S)
<1>1. IsFiniteSet(S \cup {x})
  BY FS_AddElement
<1>2. (S \cup {x}) \ {x} = S
  OBVIOUS
<1>3. \A y \in S \cup {x} : f[y] \in Int
  OBVIOUS
<1>4. QED
  BY <1>1, <1>2, <1>3, SumRemove

LEMMA SumMonotone ==
  ASSUME NEW f, NEW g, NEW S, IsFiniteSet(S),
         \A x \in S : f[x] \in Int /\ g[x] \in Int /\ f[x] <= g[x]
  PROVE  SumFunctionOnSet(f, S) <= SumFunctionOnSet(g, S)
<1> DEFINE C == {T \in SUBSET S : SumFunctionOnSet(f, T) <= SumFunctionOnSet(g, T)}
<1>1. {} \in C
  BY SumEmpty
<1>2. ASSUME NEW T \in SUBSET S, NEW x \in S \ T, T \in C PROVE T \cup {x} \in C
  <2>1. IsFiniteSet(T)
    BY FS_Subset
  <2>2. /\ SumFunctionOnSet(f, T \cup {x}) = f[x] + SumFunctionOnSet(f, T)
        /\ SumFunctionOnSet(g, T \cup {x}) = g[x] + SumFunctionOnSet(g, T)
    BY <2>1, SumAdd
  <2>3. SumFunctionOnSet(f, T) \in Int /\ SumFunctionOnSet(g, T) \in Int
    BY <2>1, SumInt
  <2>4. QED
    BY <1>2, <2>2, <2>3
<1>3. \A T \in SUBSET S : T \in C
  <2> HIDE DEF C
  <2>1. QED
    BY <1>1, <1>2, SetInduction
<1>4. QED
  BY <1>3

\* A sum reads its function on the set only.
LEMMA SumSame ==
  ASSUME NEW f, NEW g, NEW S, IsFiniteSet(S), \A x \in S : f[x] \in Int /\ f[x] = g[x]
  PROVE  SumFunctionOnSet(f, S) = SumFunctionOnSet(g, S)
<1>1. SumFunctionOnSet(f, S) <= SumFunctionOnSet(g, S) /\ SumFunctionOnSet(g, S) <= SumFunctionOnSet(f, S)
  <2>1. \A x \in S : f[x] \in Int /\ g[x] \in Int /\ f[x] <= g[x] /\ g[x] <= f[x]
    OBVIOUS
  <2>2. QED
    BY <2>1, SumMonotone
<1>2. SumFunctionOnSet(f, S) \in Int /\ SumFunctionOnSet(g, S) \in Int
  BY SumInt
<1>3. QED
  BY <1>1, <1>2

LEMMA SumZero ==
  ASSUME NEW f, NEW S, IsFiniteSet(S), \A x \in S : f[x] = 0
  PROVE  SumFunctionOnSet(f, S) = 0
<1> DEFINE C == {T \in SUBSET S : SumFunctionOnSet(f, T) = 0}
<1>1. {} \in C
  BY SumEmpty
<1>2. ASSUME NEW T \in SUBSET S, T # {}, \A x \in T : T \ {x} \in C PROVE T \in C
  <2>1. IsFiniteSet(T)
    BY FS_Subset
  <2>2. PICK x \in T : SumFunctionOnSet(f, T) = f[x] + SumFunctionOnSet(f, T \ {x})
    BY <1>2, <2>1, SumChosen
  <2>3. QED
    BY <1>2, <2>2
<1>3. \A T \in SUBSET S : T \in C
  <2> HIDE DEF C
  <2>1. QED
    BY <1>1, <1>2, RemovalInduction
<1>4. QED
  BY <1>3

LEMMA SumUnion ==
  ASSUME NEW f, NEW A, NEW B, IsFiniteSet(A), IsFiniteSet(B), A \cap B = {},
         \A x \in A \cup B : f[x] \in Int
  PROVE  SumFunctionOnSet(f, A \cup B) = SumFunctionOnSet(f, A) + SumFunctionOnSet(f, B)
<1> DEFINE C == {T \in SUBSET B : SumFunctionOnSet(f, A \cup T) = SumFunctionOnSet(f, A) + SumFunctionOnSet(f, T)}
<1>1. {} \in C
  <2>1. A \cup {} = A
    OBVIOUS
  <2>2. SumFunctionOnSet(f, A) \in Int
    BY SumInt
  <2>3. QED
    BY <2>1, <2>2, SumEmpty
<1>2. ASSUME NEW T \in SUBSET B, NEW x \in B \ T, T \in C PROVE T \cup {x} \in C
  <2>1. IsFiniteSet(T)
    BY FS_Subset
  <2>2. IsFiniteSet(A \cup T)
    BY <2>1, FS_Union
  <2>3. A \cup (T \cup {x}) = (A \cup T) \cup {x} /\ x \notin A \cup T /\ \A y \in A \cup T : f[y] \in Int
    OBVIOUS
  <2>4. SumFunctionOnSet(f, A \cup (T \cup {x})) = f[x] + SumFunctionOnSet(f, A \cup T)
    BY <2>2, <2>3, SumAdd
  <2>5. SumFunctionOnSet(f, T \cup {x}) = f[x] + SumFunctionOnSet(f, T)
    BY <2>1, SumAdd
  <2>6. f[x] \in Int /\ SumFunctionOnSet(f, T) \in Int /\ SumFunctionOnSet(f, A) \in Int
    BY <2>1, SumInt
  <2>7. QED
    BY <1>2, <2>4, <2>5, <2>6
<1>3. \A T \in SUBSET B : T \in C
  <2> HIDE DEF C
  <2>1. QED
    BY <1>1, <1>2, SetInduction
<1>4. QED
  BY <1>3

LEMMA SumSubset ==
  ASSUME NEW f, NEW S, IsFiniteSet(S), \A x \in S : f[x] \in Nat, NEW T \in SUBSET S
  PROVE  SumFunctionOnSet(f, T) <= SumFunctionOnSet(f, S)
<1>1. IsFiniteSet(T) /\ IsFiniteSet(S \ T)
  BY FS_Subset
<1>2. T \cup (S \ T) = S /\ T \cap (S \ T) = {}
  OBVIOUS
<1>3. SumFunctionOnSet(f, S) = SumFunctionOnSet(f, T) + SumFunctionOnSet(f, S \ T)
  <2>1. \A x \in T \cup (S \ T) : f[x] \in Int
    OBVIOUS
  <2>2. QED
    BY <1>1, <1>2, <2>1, SumUnion
<1>4. SumFunctionOnSet(f, T) \in Nat /\ SumFunctionOnSet(f, S \ T) \in Nat
  BY <1>1, SumNat
<1>5. QED
  BY <1>3, <1>4

LEMMA SumPlus ==
  ASSUME NEW f, NEW g, NEW h, NEW S, IsFiniteSet(S),
         \A x \in S : f[x] \in Int /\ g[x] \in Int /\ h[x] = f[x] + g[x]
  PROVE  SumFunctionOnSet(h, S) = SumFunctionOnSet(f, S) + SumFunctionOnSet(g, S)
<1> DEFINE C == {T \in SUBSET S : SumFunctionOnSet(h, T) = SumFunctionOnSet(f, T) + SumFunctionOnSet(g, T)}
<1>1. {} \in C
  BY SumEmpty
<1>2. ASSUME NEW T \in SUBSET S, NEW x \in S \ T, T \in C PROVE T \cup {x} \in C
  <2>1. IsFiniteSet(T)
    BY FS_Subset
  <2>2. \A y \in S : h[y] \in Int
    OBVIOUS
  <2>3. /\ SumFunctionOnSet(f, T \cup {x}) = f[x] + SumFunctionOnSet(f, T)
        /\ SumFunctionOnSet(g, T \cup {x}) = g[x] + SumFunctionOnSet(g, T)
        /\ SumFunctionOnSet(h, T \cup {x}) = h[x] + SumFunctionOnSet(h, T)
    BY <2>1, <2>2, SumAdd
  <2>4. SumFunctionOnSet(f, T) \in Int /\ SumFunctionOnSet(g, T) \in Int /\ SumFunctionOnSet(h, T) \in Int
    BY <2>1, <2>2, SumInt
  <2>5. QED
    BY <1>2, <2>3, <2>4
<1>3. \A T \in SUBSET S : T \in C
  <2> HIDE DEF C
  <2>1. QED
    BY <1>1, <1>2, SetInduction
<1>4. QED
  BY <1>3

\* A sum of ones counts.
LEMMA SumOnes ==
  ASSUME NEW f, NEW S, IsFiniteSet(S), \A x \in S : f[x] = 1
  PROVE  SumFunctionOnSet(f, S) = Cardinality(S)
<1> DEFINE C == {T \in SUBSET S : SumFunctionOnSet(f, T) = Cardinality(T)}
<1>1. {} \in C
  BY SumEmpty, FS_EmptySet
<1>2. ASSUME NEW T \in SUBSET S, NEW x \in S \ T, T \in C PROVE T \cup {x} \in C
  <2>1. IsFiniteSet(T)
    BY FS_Subset
  <2>2. SumFunctionOnSet(f, T \cup {x}) = f[x] + SumFunctionOnSet(f, T)
    BY <2>1, SumAdd
  <2>3. Cardinality(T \cup {x}) = Cardinality(T) + 1 /\ Cardinality(T) \in Nat
    BY <2>1, FS_AddElement, FS_CardinalityType
  <2>4. QED
    BY <1>2, <2>2, <2>3
<1>3. \A T \in SUBSET S : T \in C
  <2> HIDE DEF C
  <2>1. QED
    BY <1>1, <1>2, SetInduction
<1>4. QED
  BY <1>3

LEMMA SumScale ==
  ASSUME NEW f, NEW h, NEW c \in Int, NEW S, IsFiniteSet(S),
         \A x \in S : f[x] \in Int /\ h[x] = c * f[x]
  PROVE  SumFunctionOnSet(h, S) = c * SumFunctionOnSet(f, S)
<1> DEFINE C == {T \in SUBSET S : SumFunctionOnSet(h, T) = c * SumFunctionOnSet(f, T)}
<1>1. {} \in C
  BY SumEmpty
<1>2. ASSUME NEW T \in SUBSET S, NEW x \in S \ T, T \in C PROVE T \cup {x} \in C
  <2>1. IsFiniteSet(T)
    BY FS_Subset
  <2>2. \A y \in S : h[y] \in Int
    OBVIOUS
  <2>3. /\ SumFunctionOnSet(f, T \cup {x}) = f[x] + SumFunctionOnSet(f, T)
        /\ SumFunctionOnSet(h, T \cup {x}) = h[x] + SumFunctionOnSet(h, T)
    BY <2>1, <2>2, SumAdd
  <2>4. SumFunctionOnSet(f, T) \in Int
    BY <2>1, SumInt
  <2>5. c * (f[x] + SumFunctionOnSet(f, T)) = c * f[x] + c * SumFunctionOnSet(f, T)
    BY <2>4
  <2>6. QED
    BY <1>2, <2>3, <2>5
<1>3. \A T \in SUBSET S : T \in C
  <2> HIDE DEF C
  <2>1. QED
    BY <1>1, <1>2, SetInduction
<1>4. QED
  BY <1>3

\* The sum does not depend on the names of the elements.
LEMMA SumRename ==
  ASSUME NEW f, NEW g, NEW h, NEW D, IsFiniteSet(D),
         \A x, y \in D : g[x] = g[y] => x = y,
         \A x \in D : h[x] \in Int /\ h[x] = f[g[x]]
  PROVE  SumFunctionOnSet(h, D) = SumFunctionOnSet(f, {g[x] : x \in D})
<1> DEFINE Image(T) == {g[x] : x \in T}
<1> DEFINE C == {T \in SUBSET D : IsFiniteSet(Image(T)) /\ SumFunctionOnSet(h, T) = SumFunctionOnSet(f, Image(T))}
<1>1. {} \in C
  <2>1. Image({}) = {}
    OBVIOUS
  <2>2. QED
    BY <2>1, SumEmpty, FS_EmptySet
<1>2. ASSUME NEW T \in SUBSET D, NEW x \in D \ T, T \in C PROVE T \cup {x} \in C
  <2>1. IsFiniteSet(T)
    BY FS_Subset
  <2>2. Image(T \cup {x}) = Image(T) \cup {g[x]}
    OBVIOUS
  <2>3. g[x] \notin Image(T)
    OBVIOUS
  <2>4. IsFiniteSet(Image(T)) /\ SumFunctionOnSet(h, T) = SumFunctionOnSet(f, Image(T))
    BY <1>2
  <2>5. \A z \in Image(T) : f[z] \in Int
    OBVIOUS
  <2>6. f[g[x]] \in Int /\ h[x] = f[g[x]]
    OBVIOUS
  <2> HIDE DEF Image
  <2>7. IsFiniteSet(Image(T) \cup {g[x]})
    BY <2>4, FS_AddElement
  <2>8. SumFunctionOnSet(f, Image(T \cup {x})) = f[g[x]] + SumFunctionOnSet(f, Image(T))
    BY <2>2, <2>3, <2>4, <2>5, <2>6, SumAdd
  <2>9. SumFunctionOnSet(h, T \cup {x}) = h[x] + SumFunctionOnSet(h, T)
    BY <2>1, SumAdd
  <2>10. QED
    BY <2>2, <2>4, <2>6, <2>7, <2>8, <2>9
<1>3. \A T \in SUBSET D : T \in C
  <2> HIDE DEF C
  <2>1. QED
    BY <1>1, <1>2, SetInduction
<1>4. QED
  BY <1>3

LEMMA SumQuadratic ==
  ASSUME NEW x, NEW y, NEW h, NEW p \in Int, NEW q \in Int, NEW c \in Int, NEW S, IsFiniteSet(S),
         \A i \in S : x[i] \in Int /\ y[i] \in Int /\ h[i] = p * y[i] + q * x[i] + c
  PROVE  SumFunctionOnSet(h, S) = p * SumFunctionOnSet(y, S) + q * SumFunctionOnSet(x, S) + c * Cardinality(S)
<1> DEFINE py == [i \in S |-> p * y[i]]
           qx == [i \in S |-> q * x[i]]
           one == [i \in S |-> 1]
           cs == [i \in S |-> c * one[i]]
           pq == [i \in S |-> py[i] + qx[i]]
<1>1. \A i \in S : /\ py[i] \in Int /\ py[i] = p * y[i] /\ qx[i] \in Int /\ qx[i] = q * x[i]
                   /\ one[i] = 1 /\ one[i] \in Int /\ cs[i] \in Int /\ cs[i] = c * one[i]
                   /\ pq[i] \in Int /\ pq[i] = py[i] + qx[i]
  OBVIOUS
<1>2. \A i \in S : h[i] = pq[i] + cs[i]
  BY <1>1
<1> HIDE DEF py, qx, one, cs, pq
<1>3. SumFunctionOnSet(h, S) = SumFunctionOnSet(pq, S) + SumFunctionOnSet(cs, S)
  BY <1>1, <1>2, SumPlus
<1>4. SumFunctionOnSet(pq, S) = SumFunctionOnSet(py, S) + SumFunctionOnSet(qx, S)
  BY <1>1, SumPlus
<1>5. /\ SumFunctionOnSet(py, S) = p * SumFunctionOnSet(y, S)
      /\ SumFunctionOnSet(qx, S) = q * SumFunctionOnSet(x, S)
      /\ SumFunctionOnSet(cs, S) = c * SumFunctionOnSet(one, S)
  BY <1>1, SumScale
<1>6. SumFunctionOnSet(one, S) = Cardinality(S)
  BY <1>1, SumOnes
<1>7. QED
  BY <1>3, <1>4, <1>5, <1>6

\* A set is counted by parts: g says to which part an element belongs.
LEMMA SumParts ==
  ASSUME NEW F, IsFiniteSet(F), NEW g, NEW D, IsFiniteSet(D),
         \A r \in F : g[r] \in D,
         NEW part, \A d \in D : part[d] \subseteq F /\ \A r \in F : r \in part[d] <=> g[r] = d,
         NEW h, \A d \in D : h[d] = Cardinality(part[d])
  PROVE  SumFunctionOnSet(h, D) = Cardinality(F)
<1> DEFINE Of(T) == {r \in F : g[r] \in T}
<1> DEFINE C == {T \in SUBSET D : SumFunctionOnSet(h, T) = Cardinality(Of(T))}
<1>0. \A d \in D : h[d] \in Int
  <2> TAKE d \in D
  <2>1. part[d] \in SUBSET F
    OBVIOUS
  <2>2. Cardinality(part[d]) \in Nat
    BY <2>1, FS_Subset, FS_CardinalityType
  <2>3. QED
    BY <2>2
<1>1. {} \in C
  <2>1. Of({}) = {}
    OBVIOUS
  <2>2. QED
    BY <2>1, SumEmpty, FS_EmptySet
<1>2. ASSUME NEW T \in SUBSET D, NEW x \in D \ T, T \in C PROVE T \cup {x} \in C
  <2>1. IsFiniteSet(T)
    BY FS_Subset
  <2>2. Of(T \cup {x}) = Of(T) \cup part[x] /\ Of(T) \cap part[x] = {}
    OBVIOUS
  <2>3. part[x] \in SUBSET F /\ Of(T) \in SUBSET F
    OBVIOUS
  <2>4. h[x] = Cardinality(part[x])
    OBVIOUS
  <2>5. SumFunctionOnSet(h, T) = Cardinality(Of(T))
    BY <1>2
  <2> HIDE DEF Of
  <2>6. IsFiniteSet(part[x]) /\ IsFiniteSet(Of(T))
    BY <2>3, FS_Subset
  <2>7. Cardinality(Of(T) \cup part[x]) = Cardinality(Of(T)) + Cardinality(part[x]) - Cardinality(Of(T) \cap part[x])
    BY <2>6, FS_Union
  <2>8. SumFunctionOnSet(h, T \cup {x}) = h[x] + SumFunctionOnSet(h, T)
    BY <1>0, <2>1, SumAdd
  <2>9. Cardinality(part[x]) \in Nat /\ Cardinality(Of(T)) \in Nat
    BY <2>6, FS_CardinalityType
  <2>10. SumFunctionOnSet(h, T \cup {x}) = Cardinality(Of(T \cup {x}))
    <3>1. Cardinality(Of(T) \cap part[x]) = 0
      BY <2>2, FS_EmptySet
    <3>2. Cardinality(Of(T \cup {x})) = Cardinality(Of(T) \cup part[x])
      BY <2>2
    <3>3. QED
      BY <2>4, <2>5, <2>7, <2>8, <2>9, <3>1, <3>2
  <2>11. QED
    BY <2>10
<1>3. \A T \in SUBSET D : T \in C
  <2> HIDE DEF C
  <2>1. QED
    BY <1>1, <1>2, SetInduction
<1>4. Of(D) = F
  OBVIOUS
<1>5. QED
  BY <1>3, <1>4

-----------------------------------------------------------------------------
(* Finite sets of integers, and sorting *)

LEMMA Extremes ==
  ASSUME NEW S, IsFiniteSet(S), S \subseteq Int, S # {}
  PROVE  /\ Min(S) \in S /\ \A y \in S : Min(S) <= y
         /\ Max(S) \in S /\ \A y \in S : y <= Max(S)
<1> DEFINE Bounded(T) == T # {} => (\E x \in T : \A y \in T : x <= y) /\ (\E x \in T : \A y \in T : x >= y)
<1> DEFINE C == {T \in SUBSET S : Bounded(T)}
<1>1. {} \in C
  OBVIOUS
<1>2. ASSUME NEW T \in SUBSET S, NEW x \in S \ T, T \in C PROVE T \cup {x} \in C
  <2>1. CASE T = {}
    BY <2>1
  <2>2. CASE T # {}
    <3>1. PICK lo \in T : \A y \in T : lo <= y
      BY <1>2, <2>2
    <3>2. PICK hi \in T : \A y \in T : hi >= y
      BY <1>2, <2>2
    <3>3. \E z \in T \cup {x} : \A y \in T \cup {x} : z <= y
      <4>1. CASE x <= lo
        BY <3>1, <4>1
      <4>2. CASE lo <= x
        BY <3>1, <4>2
      <4>3. QED
        BY <4>1, <4>2
    <3>4. \E z \in T \cup {x} : \A y \in T \cup {x} : z >= y
      <4>1. CASE x >= hi
        BY <3>2, <4>1
      <4>2. CASE hi >= x
        BY <3>2, <4>2
      <4>3. QED
        BY <4>1, <4>2
    <3>5. QED
      BY <3>3, <3>4
  <2>3. QED
    BY <2>1, <2>2
<1>3. \A T \in SUBSET S : T \in C
  <2> HIDE DEF C
  <2>1. QED
    BY <1>1, <1>2, SetInduction
<1>4. (\E x \in S : \A y \in S : x <= y) /\ (\E x \in S : \A y \in S : x >= y)
  BY <1>3
<1>5. Min(S) \in S /\ \A y \in S : Min(S) <= y
  BY <1>4 DEF Min
<1>6. Max(S) \in S /\ \A y \in S : Max(S) >= y
  BY <1>4 DEF Max
<1>7. QED
  BY <1>5, <1>6

\* When `ahead` comes from a strict total order, InOrder lists every element once,
\* at the place that the number of those ahead of it gives it.
LEMMA InOrderRanks ==
  ASSUME NEW S, IsFiniteSet(S), NEW ahead,
         \A x \in S : ahead[x] \in SUBSET S /\ x \notin ahead[x],
         \A x \in S : \A y \in ahead[x] : ahead[y] \subseteq ahead[x],
         \A x, y \in S : x # y => x \in ahead[y] \/ y \in ahead[x]
  PROVE  /\ InOrder(S, ahead) \in [1..Cardinality(S) -> S]
         /\ \A i, j \in 1..Cardinality(S) : InOrder(S, ahead)[i] = InOrder(S, ahead)[j] => i = j
         /\ S = {InOrder(S, ahead)[i] : i \in 1..Cardinality(S)}
         /\ \A i \in 1..Cardinality(S) : Cardinality(ahead[InOrder(S, ahead)[i]]) = i - 1
<1> DEFINE n == Cardinality(S)
<1> DEFINE rank == [x \in S |-> Cardinality(ahead[x]) + 1]
<1> DEFINE list == InOrder(S, ahead)
<1>1. n \in Nat /\ IsFiniteSet(1..n) /\ Cardinality(1..n) = n
  BY FS_CardinalityType, FS_Interval
<1>2. \A x \in S : IsFiniteSet(ahead[x]) /\ Cardinality(ahead[x]) \in 0..(n - 1)
  <2> TAKE x \in S
  <2>1. IsFiniteSet(ahead[x]) /\ Cardinality(ahead[x]) <= n
    BY FS_Subset
  <2>2. Cardinality(ahead[x]) # n
    BY FS_Subset
  <2>3. QED
    BY <1>1, <2>1, <2>2, FS_CardinalityType
<1>3. ASSUME NEW x \in S, NEW y \in S, x \in ahead[y] PROVE Cardinality(ahead[x]) # Cardinality(ahead[y])
  <2>1. ahead[x] \in SUBSET ahead[y] /\ ahead[x] # ahead[y]
    BY <1>3
  <2>2. QED
    BY <1>2, <2>1, FS_Subset
<1>4. rank \in [S -> 1..n]
  BY <1>1, <1>2
<1>5. \A x, y \in S : rank[x] = rank[y] => x = y
  BY <1>2, <1>3
<1> HIDE DEF n
<1>6. rank \in Injection(S, 1..n)
  BY <1>4, <1>5 DEF Injection, IsInjective
<1>7. rank \in Surjection(S, 1..n)
  BY <1>1, <1>6, FS_Injection DEF n
<1>8. \A i \in 1..n : \E x \in S : rank[x] = i
  BY <1>7 DEF Surjection
<1>9. \A i \in 1..n : list[i] \in S /\ rank[list[i]] = i
  <2> TAKE i \in 1..n
  <2>1. \E x \in S : Cardinality(ahead[x]) = i - 1
    <3>1. PICK x \in S : rank[x] = i
      BY <1>8
    <3>2. QED
      BY <1>2, <3>1
  <2>2. list[i] = CHOOSE x \in S : Cardinality(ahead[x]) = i - 1
    BY DEF InOrder, n
  <2> HIDE DEF list
  <2>3. list[i] \in S /\ Cardinality(ahead[list[i]]) = i - 1
    BY <2>1, <2>2
  <2>4. QED
    BY <1>1, <2>3
<1>10. list = [i \in 1..n |-> list[i]]
  BY DEF InOrder, n
<1> HIDE DEF rank, list
<1>11. list \in [1..n -> S]
  BY <1>9, <1>10
<1>12. \A x \in S : \E i \in 1..n : list[i] = x
  <2> TAKE x \in S
  <2>1. rank[x] \in 1..n
    BY <1>4
  <2>2. list[rank[x]] = x
    BY <1>5, <1>9, <2>1
  <2>3. QED
    BY <2>1, <2>2
<1>13. \A i \in 1..n : Cardinality(ahead[list[i]]) = i - 1
  <2> TAKE i \in 1..n
  <2>1. list[i] \in S /\ rank[list[i]] = i
    BY <1>9
  <2>2. rank[list[i]] = Cardinality(ahead[list[i]]) + 1
    BY ONLY <2>1 DEF rank
  <2>3. Cardinality(ahead[list[i]]) \in Int
    BY <1>1, <1>2, <2>1
  <2>4. QED
    BY ONLY <2>1, <2>2, <2>3
<1>14. QED
  BY <1>9, <1>11, <1>12, <1>13 DEF list, n

LEMMA InOrderLists ==
  ASSUME NEW S, IsFiniteSet(S), NEW ahead,
         \A x \in S : ahead[x] \in SUBSET S /\ x \notin ahead[x],
         \A x \in S : \A y \in ahead[x] : ahead[y] \subseteq ahead[x],
         \A x, y \in S : x # y => x \in ahead[y] \/ y \in ahead[x]
  PROVE  /\ InOrder(S, ahead) \in [1..Cardinality(S) -> S]
         /\ \A i, j \in 1..Cardinality(S) : InOrder(S, ahead)[i] = InOrder(S, ahead)[j] => i = j
         /\ S = {InOrder(S, ahead)[i] : i \in 1..Cardinality(S)}
BY InOrderRanks

\* What is ahead of an element is listed before it.
LEMMA InOrderSorts ==
  ASSUME NEW S, IsFiniteSet(S), NEW ahead,
         \A x \in S : ahead[x] \in SUBSET S /\ x \notin ahead[x],
         \A x \in S : \A y \in ahead[x] : ahead[y] \subseteq ahead[x],
         \A x, y \in S : x # y => x \in ahead[y] \/ y \in ahead[x]
  PROVE  \A i \in 1..Cardinality(S) : \A x \in ahead[InOrder(S, ahead)[i]] :
           \E j \in 1..(i - 1) : InOrder(S, ahead)[j] = x
<1>0. /\ InOrder(S, ahead) \in [1..Cardinality(S) -> S]
      /\ \A i, j \in 1..Cardinality(S) : InOrder(S, ahead)[i] = InOrder(S, ahead)[j] => i = j
      /\ S = {InOrder(S, ahead)[i] : i \in 1..Cardinality(S)}
      /\ \A i \in 1..Cardinality(S) : Cardinality(ahead[InOrder(S, ahead)[i]]) = i - 1
  BY InOrderRanks
<1> DEFINE n == Cardinality(S)
<1> DEFINE list == InOrder(S, ahead)
<1>2. n \in Nat
  BY FS_CardinalityType
<1>1. /\ list \in [1..n -> S] /\ S = {list[i] : i \in 1..n}
      /\ \A i \in 1..n : Cardinality(ahead[list[i]]) = i - 1
  BY <1>0
<1> HIDE DEF n, list
<1>3. SUFFICES ASSUME NEW i \in 1..n, NEW x \in ahead[list[i]]
               PROVE  \E j \in 1..(i - 1) : list[j] = x
  BY DEF n, list
<1>4. list[i] \in S /\ x \in S
  BY <1>1
<1>5. PICK j \in 1..n : list[j] = x
  BY <1>1, <1>4
<1>6. ahead[x] \subseteq ahead[list[i]] /\ ahead[x] # ahead[list[i]] /\ IsFiniteSet(ahead[list[i]])
  BY <1>4, FS_Subset
<1>7. Cardinality(ahead[x]) < Cardinality(ahead[list[i]])
  BY <1>6, FS_Subset, FS_CardinalityType
<1>8. Cardinality(ahead[list[j]]) = j - 1 /\ Cardinality(ahead[list[i]]) = i - 1
  BY ONLY <1>1, <1>5, i \in 1..n
<1>9. j - 1 < i - 1
  BY ONLY <1>5, <1>7, <1>8
<1>10. j \in 1..(i - 1)
  BY ONLY <1>2, <1>5, <1>9, i \in 1..n
<1>11. QED
  BY ONLY <1>5, <1>10

LEMMA ImageFinite ==
  ASSUME NEW F, IsFiniteSet(F), NEW g
  PROVE  IsFiniteSet({g[x] : x \in F}) /\ Cardinality({g[x] : x \in F}) <= Cardinality(F)
<1> DEFINE image == {g[x] : x \in F}
<1>1. [x \in F |-> g[x]] \in Surjection(F, image)
  BY DEF Surjection
<1> HIDE DEF image
<1>2. QED
  BY <1>1, FS_Surjection DEF image


\* Groups with different names are listed once each.
LEMMA GroupOrder ==
  ASSUME NEW groups, IsFiniteSet(groups),
         \A x \in groups : x.count \in Nat /\ x.name \in Int,
         \A x, y \in groups : x.name = y.name => x = y
  PROVE  /\ InOrder(groups, LargestFirst(groups)) \in [1..Cardinality(groups) -> groups]
         /\ \A i, j \in 1..Cardinality(groups) :
              InOrder(groups, LargestFirst(groups))[i] = InOrder(groups, LargestFirst(groups))[j] => i = j
         /\ groups = {InOrder(groups, LargestFirst(groups))[i] : i \in 1..Cardinality(groups)}
<1> DEFINE ahead == LargestFirst(groups)
<1>2. \A x \in groups : ahead[x] = {y \in groups : y.count > x.count \/ (y.count = x.count /\ y.name < x.name)}
  BY DEF LargestFirst
<1>3. \A x \in groups : ahead[x] \in SUBSET groups /\ x \notin ahead[x]
  <2> HIDE DEF ahead
  <2>1. QED
    BY <1>2
<1>4. \A x, y \in groups :
        y \in ahead[x] <=> (y.count > x.count \/ (y.count = x.count /\ y.name < x.name))
  <2> HIDE DEF ahead
  <2>1. QED
    BY <1>2
<1> HIDE DEF ahead
<1>5. \A x, y, z \in groups : y \in ahead[x] /\ z \in ahead[y] => z \in ahead[x]
  <2> TAKE x, y, z \in groups
  <2>1. /\ x.count \in Nat /\ x.name \in Int /\ y.count \in Nat /\ y.name \in Int
        /\ z.count \in Nat /\ z.name \in Int
    OBVIOUS
  <2>2. /\ y \in ahead[x] <=> (y.count > x.count \/ (y.count = x.count /\ y.name < x.name))
        /\ z \in ahead[y] <=> (z.count > y.count \/ (z.count = y.count /\ z.name < y.name))
        /\ z \in ahead[x] <=> (z.count > x.count \/ (z.count = x.count /\ z.name < x.name))
    BY <1>4
  <2>3. QED
    BY <2>1, <2>2
<1>6. \A x, y \in groups : x # y => x \in ahead[y] \/ y \in ahead[x]
  <2> TAKE x, y \in groups
  <2>1. x.count \in Nat /\ x.name \in Int /\ y.count \in Nat /\ y.name \in Int
    OBVIOUS
  <2>2. /\ y \in ahead[x] <=> (y.count > x.count \/ (y.count = x.count /\ y.name < x.name))
        /\ x \in ahead[y] <=> (x.count > y.count \/ (x.count = y.count /\ x.name < y.name))
    BY <1>4
  <2>3. x.name = y.name => x = y
    OBVIOUS
  <2>4. QED
    BY <2>1, <2>2, <2>3
<1>7. \A x \in groups : \A y \in ahead[x] : ahead[y] \subseteq ahead[x]
  BY <1>3, <1>5
<1>8. /\ InOrder(groups, ahead) \in [1..Cardinality(groups) -> groups]
      /\ \A i, j \in 1..Cardinality(groups) : InOrder(groups, ahead)[i] = InOrder(groups, ahead)[j] => i = j
      /\ groups = {InOrder(groups, ahead)[i] : i \in 1..Cardinality(groups)}
  BY <1>3, <1>6, <1>7, InOrderLists
<1>9. QED
  BY <1>8 DEF ahead

\* The counts of the first n groups of a list.
ListCount(seq, n) == SumFunctionOnSet([i \in 1..n |-> seq[i].count], 1..n)

\* The rows of F in groups by a number, the largest group first: every row is
\* counted in one group.
LEMMA GroupsCount ==
  ASSUME NEW F, IsFiniteSet(F), NEW g, \A r \in F : g[r] \in Int,
         NEW part, \A r \in F : /\ part[g[r]] \subseteq F
                                /\ \A x \in F : x \in part[g[r]] <=> g[x] = g[r],
         NEW grp, \A r \in F : grp[g[r]].name = g[r] /\ grp[g[r]].count = Cardinality(part[g[r]]),
         NEW groups, \A r \in F : grp[g[r]] \in groups,
         \A x \in groups : \E r \in F : x = grp[g[r]]
  PROVE  \E n \in Nat :
           /\ n <= Cardinality(F)
           /\ InOrder(groups, LargestFirst(groups)) \in [1..n -> groups]
           /\ \A i \in 1..n : InOrder(groups, LargestFirst(groups))[i].count \in Nat
           /\ ListCount(InOrder(groups, LargestFirst(groups)), n) = Cardinality(F)
<1> DEFINE D == 1..Cardinality(groups)
<1> DEFINE names == {g[r] : r \in F}
<1> DEFINE n == Cardinality(groups)
<1> DEFINE count == [x \in groups |-> x.count]
<1> DEFINE image == {grp[d] : d \in names}
<1> DEFINE seq == InOrder(groups, LargestFirst(groups))
<1>1. IsFiniteSet(names) /\ Cardinality(names) <= Cardinality(F)
  BY ImageFinite
<1>2. groups = image
  OBVIOUS
<1>3. \A d \in names : /\ d \in Int /\ grp[d].name = d /\ grp[d].count = Cardinality(part[d])
                       /\ part[d] \subseteq F /\ \A x \in F : x \in part[d] <=> g[x] = d
  OBVIOUS
<1>4. \A d \in names : Cardinality(part[d]) \in Nat
  <2> TAKE d \in names
  <2>1. part[d] \in SUBSET F
    BY <1>3
  <2>2. QED
    BY <2>1, FS_Subset, FS_CardinalityType
<1>5. \A r \in F : g[r] \in names
  OBVIOUS
<1>6. IsFiniteSet(groups) /\ Cardinality(groups) <= Cardinality(names)
  <2>1. IsFiniteSet(image) /\ Cardinality(image) <= Cardinality(names)
    <3> HIDE DEF names
    <3>1. QED
      BY <1>1, ImageFinite
  <2> HIDE DEF names, image
  <2>2. QED
    BY <1>2, <2>1
<1> HIDE DEF names
<1>7. \A x \in groups : x.count \in Nat /\ x.name \in Int
  <2> TAKE x \in groups
  <2>1. PICK d \in names : x = grp[d]
    BY <1>2
  <2>2. QED
    BY <1>3, <1>4, <2>1
<1>8. \A x, y \in groups : x.name = y.name => x = y
  <2> TAKE x, y \in groups
  <2>1. PICK d \in names : x = grp[d]
    BY <1>2
  <2>2. PICK e \in names : y = grp[e]
    BY <1>2
  <2>3. QED
    BY <1>3, <2>1, <2>2
<1> DEFINE counts == [i \in D |-> seq[i].count]
<1>9. seq \in [D -> groups] /\ SumFunctionOnSet(counts, D) = SumFunctionOnSet(count, groups)
  <2>1. /\ seq \in [D -> groups]
        /\ \A i, j \in D : seq[i] = seq[j] => i = j
        /\ groups = {seq[i] : i \in D}
    <3>1. IsFiniteSet(groups)
      BY <1>6
    <3> HIDE DEF image, count, counts
    <3>2. QED
      BY ONLY <1>7, <1>8, <3>1, GroupOrder
  <2>2. \A i \in D : counts[i] \in Int /\ counts[i] = count[seq[i]]
    <3> HIDE DEF seq, D
    <3> TAKE i \in D
    <3>1. seq[i] \in groups
      BY <2>1
    <3>2. count[seq[i]] = seq[i].count /\ counts[i] = seq[i].count
      BY <3>1
    <3> HIDE DEF counts, count
    <3>3. QED
      BY <1>7, <3>1, <3>2
  <2>3. IsFiniteSet(D)
    BY <1>6, FS_CardinalityType, FS_Interval
  <2> HIDE DEF seq, D, counts, count, image
  <2>4. SumFunctionOnSet(counts, D) = SumFunctionOnSet(count, {seq[i] : i \in D})
    BY <2>1, <2>2, <2>3, SumRename
  <2>5. QED
    BY <2>1, <2>4
<1>10. Cardinality(F) = SumFunctionOnSet(count, groups)
  <2> DEFINE h == [d \in names |-> grp[d].count]
  <2>1. \A d \in names : h[d] \in Int /\ h[d] = count[grp[d]]
    <3> TAKE d \in names
    <3>1. grp[d] \in groups
      BY <1>2
    <3>2. count[grp[d]] = grp[d].count
      BY <3>1
    <3>3. QED
      BY <1>7, <3>1, <3>2
  <2>2. \A d, e \in names : grp[d] = grp[e] => d = e
    BY <1>3
  <2>3. \A d \in names : part[d] \subseteq F /\ \A r \in F : r \in part[d] <=> g[r] = d
    BY <1>3
  <2>7. \A d \in names : h[d] = Cardinality(part[d])
    BY <1>3
  <2> HIDE DEF h, count
  <2>4. SumFunctionOnSet(h, names) = SumFunctionOnSet(count, image)
    BY <1>1, <2>1, <2>2, SumRename
  <2>5. SumFunctionOnSet(h, names) = Cardinality(F)
    BY <1>1, <1>5, <2>3, <2>7, SumParts
  <2> HIDE DEF image
  <2>6. QED
    BY <1>2, <2>4, <2>5
<1>11. n \in Nat /\ n <= Cardinality(F)
  BY <1>1, <1>6, FS_CardinalityType
<1>12. \A i \in D : seq[i].count \in Nat
  <2> TAKE i \in D
  <2>1. seq[i] \in groups
    BY <1>9
  <2>2. QED
    BY <1>7, <2>1
<1>13. D = 1..n
  OBVIOUS
<1>14. ListCount(seq, n) = SumFunctionOnSet(counts, D)
  BY <1>13 DEF ListCount
<1> HIDE DEF n, seq, count, D, counts
<1>15. ListCount(seq, n) = Cardinality(F)
  BY ONLY <1>9, <1>10, <1>14
<1>16. QED
  BY ONLY <1>9, <1>11, <1>12, <1>13, <1>15 DEF seq

-----------------------------------------------------------------------------
(* Cantelli's inequality: at most 1 / (1 + T^2) of the numbers x[i] lie T     *)
(* standard deviations above their mean.  Everything is multiplied out, as in *)
(* IsSpike: n numbers with sum m and sum of squares q.                        *)

LEMMA SquareShift ==
  ASSUME NEW n \in Int, NEW m \in Int, NEW x \in Int
  PROVE  (n * x - m) * (n * x - m) = (n * n) * (x * x) + (-(2 * n * m)) * x + m * m
OBVIOUS

LEMMA SquareSum ==
  ASSUME NEW c \in Int, NEW a \in Int, NEW v \in Int
  PROVE  (c * a + v) * (c * a + v) = (c * c) * (a * a) + (2 * c * v) * a + v * v
OBVIOUS

LEMMA SquareNat ==
  ASSUME NEW a \in Int
  PROVE  a * a \in Nat
OBVIOUS

LEMMA ProductMonotone ==
  ASSUME NEW a \in Int, NEW b \in Int, NEW c \in Nat, a <= b
  PROVE  c * a <= c * b
OBVIOUS

LEMMA ProductCancel ==
  ASSUME NEW a \in Int, NEW b \in Int, NEW c \in Nat \ {0}, a * c <= b * c
  PROVE  a <= b
OBVIOUS

LEMMA Cantelli ==
  ASSUME NEW D, IsFiniteSet(D), NEW x, \A i \in D : x[i] \in Int,
         NEW y, \A i \in D : y[i] = x[i] * x[i],
         NEW n, n = Cardinality(D),
         NEW m, m = SumFunctionOnSet(x, D),
         NEW v, v = n * SumFunctionOnSet(y, D) - m * m,
         NEW T \in Nat, NEW K \in SUBSET D,
         \A i \in K : v # 0 /\ n * x[i] - m >= 0 /\ (n * x[i] - m) * (n * x[i] - m) >= T * T * v
  PROVE  (1 + T * T) * Cardinality(K) <= n
<1> DEFINE q == SumFunctionOnSet(y, D)
           k == Cardinality(K)
           a == [i \in D |-> n * x[i] - m]
           b == [i \in D |-> a[i] * a[i]]
<1>1. IsFiniteSet(K) /\ k \in Nat /\ n \in Nat /\ k <= n
  BY FS_Subset, FS_CardinalityType
<1>2. \A i \in D : y[i] \in Int
  OBVIOUS
<1>3. m \in Int /\ q \in Int
  BY <1>2, SumInt
<1> HIDE DEF q
<1>4. v = n * q - m * m /\ v \in Int
  BY <1>1, <1>3 DEF q
<1>5. \A i \in D : a[i] = n * x[i] - m /\ a[i] \in Int /\ b[i] = a[i] * a[i] /\ b[i] \in Int
  BY <1>1, <1>3
<1> HIDE DEF a, b, k
<1>6. SumFunctionOnSet(a, D) = 0
  <2>1. \A i \in D : x[i] \in Int /\ y[i] \in Int /\ a[i] = 0 * y[i] + n * x[i] + (-m)
    BY <1>1, <1>2, <1>3, <1>5
  <2>2. 0 \in Int /\ n \in Int /\ -m \in Int
    BY <1>1, <1>3
  <2>3. SumFunctionOnSet(a, D) = 0 * q + n * m + (-m) * n
    BY <2>1, <2>2, SumQuadratic DEF q
  <2>4. QED
    BY ONLY <1>1, <1>3, <2>3
<1>7. SumFunctionOnSet(b, D) = n * v
  <2> DEFINE nn == n * n
             nm == -(2 * n * m)
             mm == m * m
  <2>1. nn \in Int /\ nm \in Int /\ mm \in Int
    BY <1>1, <1>3
  <2>2. \A i \in D : x[i] \in Int /\ y[i] \in Int /\ b[i] = nn * y[i] + nm * x[i] + mm
    <3> TAKE i \in D
    <3>1. b[i] = (n * x[i] - m) * (n * x[i] - m) /\ x[i] \in Int /\ n \in Int
      BY <1>1, <1>5
    <3>2. (n * x[i] - m) * (n * x[i] - m) = (n * n) * (x[i] * x[i]) + (-(2 * n * m)) * x[i] + m * m
      BY ONLY <1>3, <3>1, SquareShift
    <3>3. y[i] = x[i] * x[i]
      OBVIOUS
    <3>4. QED
      BY <1>2, <3>1, <3>2, <3>3
  <2> HIDE DEF nn, nm, mm
  <2>3. SumFunctionOnSet(b, D) = nn * q + nm * m + mm * n
    BY <2>1, <2>2, SumQuadratic DEF q
  <2>4. (n * n) * q + (-(2 * n * m)) * m + (m * m) * n = n * (n * q - m * m)
    BY ONLY <1>1, <1>3
  <2>5. QED
    BY ONLY <1>4, <2>3, <2>4 DEF nn, nm, mm
<1>8. CASE K = {}
  <2>1. k = 0
    BY <1>8, FS_EmptySet DEF k
  <2>2. QED
    BY <1>1, <2>1 DEF k
<1>9. CASE K # {}
  <2> DEFINE image == {a[i] : i \in K}
  <2>1. IsFiniteSet(image) /\ image # {} /\ image \subseteq Int
    BY <1>1, <1>5, <1>9, ImageFinite
  <2>2. PICK j \in K : \A i \in K : a[j] <= a[i]
    <3>1. Min(image) \in image /\ \A z \in image : Min(image) <= z
      <4> HIDE DEF image
      <4>1. QED
        BY ONLY <2>1, Extremes
    <3>2. QED
      BY <3>1
  <2> DEFINE c == a[j]
             M == c * c + v
             w == [i \in D |-> (c * a[i] + v) * (c * a[i] + v)]
  <2>3. c \in Nat /\ c * c >= T * T * v /\ v # 0 /\ \A i \in K : a[i] >= c
    BY <1>5, <2>2
  <2>4. n \in Nat \ {0}
    BY <1>1, <1>9, FS_EmptySet
  <2>5. v \in Nat \ {0}
    <3>1. \A i \in D : b[i] \in Nat
      BY <1>5, SquareNat
    <3>2. n * v \in Nat
      BY <1>7, <3>1, SumNat
    <3>3. QED
      BY ONLY <1>4, <2>3, <2>4, <3>2
  <2>6. \A i \in D : w[i] = (c * a[i] + v) * (c * a[i] + v) /\ w[i] \in Nat
    <3> TAKE i \in D
    <3>1. c * a[i] + v \in Int
      BY <1>4, <1>5, <2>3
    <3>2. w[i] = (c * a[i] + v) * (c * a[i] + v)
      OBVIOUS
    <3>3. QED
      BY ONLY <3>1, <3>2, SquareNat
  <2> HIDE DEF c, w
  <2>7. M \in Nat \ {0} /\ M >= (T * T + 1) * v
    <3>1. c * c \in Nat /\ (T * T + 1) * v = T * T * v + v
      BY ONLY <2>3, <2>5, T \in Nat
    <3>2. QED
      BY <2>3, <2>5, <3>1
  <2>8. SumFunctionOnSet(w, D) = n * v * M
    <3> DEFINE cc == c * c
               cv == 2 * c * v
               vv == v * v
    <3>1. cc \in Int /\ cv \in Int /\ vv \in Int
      BY <2>3, <2>5
    <3>2. \A i \in D : a[i] \in Int /\ b[i] \in Int /\ w[i] = cc * b[i] + cv * a[i] + vv
      <4> TAKE i \in D
      <4>1. w[i] = (c * a[i] + v) * (c * a[i] + v) /\ a[i] \in Int /\ b[i] = a[i] * a[i] /\ b[i] \in Int
        BY <1>5, <2>6
      <4>2. (c * a[i] + v) * (c * a[i] + v) = (c * c) * (a[i] * a[i]) + (2 * c * v) * a[i] + v * v
        BY ONLY <1>4, <2>3, <4>1, SquareSum
      <4>3. QED
        BY ONLY <4>1, <4>2
    <3> HIDE DEF cc, cv, vv
    <3>3. SumFunctionOnSet(w, D) = cc * (n * v) + cv * 0 + vv * n
      BY <1>6, <1>7, <3>1, <3>2, SumQuadratic
    <3>4. (c * c) * (n * v) + (2 * c * v) * 0 + (v * v) * n = n * v * (c * c + v)
      BY ONLY <1>1, <1>4, <2>3
    <3>5. QED
      BY ONLY <3>3, <3>4 DEF cc, cv, vv
  <2> HIDE DEF M
  <2>9. \A i \in K : M * M <= w[i]
    <3> TAKE i \in K
    <3>1. i \in D /\ a[i] \in Int /\ a[i] >= c
      BY <1>5, <2>3
    <3>2. c * c <= c * a[i]
      BY ONLY <2>3, <3>1, ProductMonotone
    <3>3. c * a[i] + v \in Nat /\ M <= c * a[i] + v
      BY ONLY <2>3, <2>5, <3>1, <3>2 DEF M
    <3> DEFINE u == c * a[i] + v
    <3>4. w[i] = u * u
      BY <2>6, <3>1
    <3> HIDE DEF u
    <3>5. u \in Nat /\ M \in Nat /\ M <= u
      BY ONLY <2>7, <3>3 DEF u
    <3>6. M * M <= M * u /\ u * M <= u * u
      BY ONLY <3>5, ProductMonotone
    <3>7. QED
      BY ONLY <3>4, <3>5, <3>6
  <2>10. M * M * k <= SumFunctionOnSet(w, K)
    <3> DEFINE one == [i \in K |-> 1]
               mm == [i \in K |-> (M * M) * one[i]]
    <3>1. M * M \in Int
      BY <2>7
    <3>2. \A i \in K : /\ one[i] = 1 /\ one[i] \in Int
                       /\ mm[i] = (M * M) * one[i] /\ mm[i] \in Int
                       /\ w[i] \in Int /\ mm[i] <= w[i]
      BY <2>6, <2>9, <3>1
    <3> HIDE DEF one, mm
    <3>3. SumFunctionOnSet(mm, K) <= SumFunctionOnSet(w, K)
      BY <1>1, <3>2, SumMonotone
    <3>4. SumFunctionOnSet(one, K) = k
      BY <1>1, <3>2, SumOnes DEF k
    <3>5. SumFunctionOnSet(mm, K) = (M * M) * SumFunctionOnSet(one, K)
      BY <1>1, <3>1, <3>2, SumScale
    <3>6. QED
      BY ONLY <3>3, <3>4, <3>5
  <2>11. SumFunctionOnSet(w, K) <= SumFunctionOnSet(w, D)
    BY <2>6, SumSubset
  <2>12. SumFunctionOnSet(w, K) \in Int /\ SumFunctionOnSet(w, D) \in Int
    BY <1>1, <2>6, SumInt
  <2>13. k * M <= n * v
    <3>1. (k * M) * M <= (n * v) * M
      BY ONLY <1>1, <1>4, <2>7, <2>8, <2>10, <2>11, <2>12
    <3>2. k * M \in Int /\ n * v \in Int
      BY ONLY <1>1, <1>4, <2>7
    <3>3. QED
      BY ONLY <2>7, <3>1, <3>2, ProductCancel
  <2>14. (k * (T * T + 1)) * v <= n * v
    <3>1. (T * T + 1) * v \in Int /\ M \in Int
      BY ONLY <2>5, <2>7, T \in Nat
    <3>2. k * ((T * T + 1) * v) <= k * M
      BY ONLY <1>1, <2>7, <3>1, ProductMonotone
    <3>3. k * ((T * T + 1) * v) = (k * (T * T + 1)) * v
      BY ONLY <1>1, <2>5, T \in Nat
    <3>4. k * M \in Int /\ n * v \in Int /\ k * ((T * T + 1) * v) \in Int
      BY ONLY <1>1, <2>5, <2>7, T \in Nat
    <3>5. QED
      BY ONLY <2>13, <3>2, <3>3, <3>4
  <2>15. k * (T * T + 1) <= n
    <3>1. k * (T * T + 1) \in Int /\ n \in Int
      BY ONLY <1>1, T \in Nat
    <3>2. QED
      BY ONLY <2>5, <2>14, <3>1, ProductCancel
  <2>16. k * (T * T + 1) = (1 + T * T) * k
    BY ONLY <1>1, T \in Nat
  <2>17. QED
    BY <2>15, <2>16 DEF k
<1>10. QED
  BY <1>8, <1>9
=============================================================================
