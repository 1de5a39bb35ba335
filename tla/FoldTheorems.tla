---------------------------- MODULE FoldTheorems ----------------------------
(* Induction over the naturals and over finite sets, as statements about sets *)
(* of numbers and of sets, and what follows from it for the sums the models   *)
(* take with FoldFunctionOnSet.                                               *)
EXTENDS Integers, FiniteSets, Functions, WellFoundedInduction,
        FiniteSetTheorems, TLAPS

(* A set of naturals has a least element.                                     *)
LEMMA LeastNat ==
  ASSUME NEW T, T \subseteq Nat, T # {}
  PROVE  \E n \in T : \A m \in T : n <= m
<1> DEFINE R == {ss \in Nat \X Nat : ss[1] < ss[2]}
<1>1. IsWellFoundedOn(R, Nat)
  BY NatLessThanWellFounded DEF OpToRel
<1>2. PICK n \in T : \A y \in T : ~ (<<y, n>> \in R)
  BY <1>1, WFMin
<1>3. ASSUME NEW m \in T PROVE n <= m
  <2>1. m \in Nat /\ n \in Nat /\ ~(<<m, n>> \in R)
    BY <1>2
  <2>2. ~(m < n)
    BY <2>1
  <2> QED BY <2>1, <2>2
<1> QED
  BY <1>3

(* A set that has 0 and is closed by successor has every natural.             *)
THEOREM NatInduct ==
  ASSUME NEW S, S \subseteq Nat, 0 \in S, \A n \in S : n + 1 \in S
  PROVE  S = Nat
<1> SUFFICES ASSUME S # Nat PROVE FALSE
  OBVIOUS
<1>1. PICK n \in Nat \ S : \A m \in Nat \ S : n <= m
  <2>1. Nat \ S # {} /\ Nat \ S \subseteq Nat
    OBVIOUS
  <2> QED BY <2>1, LeastNat
<1>2. n - 1 \in Nat /\ n - 1 \in S
  BY <1>1
<1> QED BY <1>1, <1>2

(* A class of subsets of a finite set that has the empty one and is closed by *)
(* the addition of an element has them all.                                   *)
THEOREM SetInduct ==
  ASSUME NEW S, IsFiniteSet(S), NEW C, {} \in C,
         \A T \in SUBSET S : \A x \in S \ T : T \in C => T \cup {x} \in C
  PROVE  \A T \in SUBSET S : T \in C
<1> DEFINE N == {n \in Nat : \A T \in SUBSET S : Cardinality(T) = n => T \in C}
<1>1. 0 \in N
  <2> SUFFICES ASSUME NEW T \in SUBSET S, Cardinality(T) = 0 PROVE T \in C
    OBVIOUS
  <2> QED BY FS_Subset, FS_EmptySet
<1>2. ASSUME NEW n \in N PROVE n + 1 \in N
  <2> SUFFICES ASSUME NEW T \in SUBSET S, Cardinality(T) = n + 1 PROVE T \in C
    OBVIOUS
  <2>1. IsFiniteSet(T) /\ T # {}
    BY FS_Subset, FS_EmptySet
  <2>2. PICK x \in T : TRUE
    BY <2>1
  <2>3. Cardinality(T \ {x}) = n
    <3>1. Cardinality(T \ {x}) = Cardinality(T) - 1
      BY <2>1, FS_RemoveElement
    <3> QED BY <3>1
  <2>4. T \ {x} \in C /\ T \ {x} \in SUBSET S /\ x \in S \ (T \ {x})
    BY <2>3
  <2>5. (T \ {x}) \cup {x} = T
    OBVIOUS
  <2> QED BY <2>4, <2>5
<1>3. N = Nat
  BY <1>1, <1>2, NatInduct
<1> SUFFICES ASSUME NEW T \in SUBSET S PROVE T \in C
  OBVIOUS
<1>4. Cardinality(T) \in N
  BY <1>3, FS_Subset, FS_CardinalityType
<1> QED BY <1>4
-----------------------------------------------------------------------------
SumOf(f, S) == FoldFunctionOnSet(+, 0, f, S)

(* What the definition of the fold iterates, over the subsets of a set.       *)
SumBody(f, g, s) == IF s = {} THEN 0
                    ELSE LET x == CHOOSE y \in s : TRUE IN f[x] + g[s \ {x}]
Iterates(f, S, g) == g = [s \in SUBSET S |-> SumBody(f, g, s)]

\* A sum is the value at its set of the function that folds it.
LEMMA SumIter == \A f, S : SumOf(f, S) = (CHOOSE g : Iterates(f, S, g))[S]
  BY DEF SumOf, FoldFunctionOnSet, MapThenFoldSet, Iterates, SumBody

\* That function exists over a finite set.
LEMMA IterExists ==
  ASSUME NEW f, NEW S, IsFiniteSet(S)
  PROVE  Iterates(f, S, CHOOSE g : Iterates(f, S, g))
<1> DEFINE
      N == {n \in Nat : \E g : \A s \in SUBSET S :
                          Cardinality(s) <= n => g[s] = SumBody(f, g, s)}
<1>1. 0 \in N
  <2>1. ASSUME NEW s \in SUBSET S, Cardinality(s) <= 0
        PROVE  [t \in SUBSET S |-> 0][s] = SumBody(f, [t \in SUBSET S |-> 0], s)
    <3>1. s = {}
      BY <2>1, FS_Subset, FS_EmptySet, FS_CardinalityType
    <3> QED BY <3>1 DEF SumBody
  <2> QED BY <2>1
<1>2. ASSUME NEW n \in N PROVE n + 1 \in N
  <2>1. PICK g : \A s \in SUBSET S :
                   Cardinality(s) <= n => g[s] = SumBody(f, g, s)
    OBVIOUS
  <2> DEFINE h == [s \in SUBSET S |-> SumBody(f, g, s)]
  <2>2. ASSUME NEW s \in SUBSET S, Cardinality(s) <= n + 1
        PROVE  h[s] = SumBody(f, h, s)
    <3>1. CASE s = {}
      BY <3>1 DEF SumBody
    <3>2. CASE s # {}
      <4> DEFINE x == CHOOSE y \in s : TRUE
      <4>1. x \in s
        BY <3>2
      <4>2. IsFiniteSet(s) /\ Cardinality(s) \in Nat
        BY FS_Subset, FS_CardinalityType
      <4>3. Cardinality(s \ {x}) = Cardinality(s) - 1
        BY <4>1, <4>2, FS_RemoveElement
      <4>4. Cardinality(s \ {x}) <= n /\ s \ {x} \in SUBSET S
        BY <2>2, <4>2, <4>3
      <4>5. h[s \ {x}] = g[s \ {x}]
        BY <2>1, <4>4
      <4>6. h[s] = f[x] + g[s \ {x}]
        BY <3>2 DEF SumBody
      <4>7. SumBody(f, h, s) = f[x] + h[s \ {x}]
        BY <3>2 DEF SumBody
      <4> QED BY <4>5, <4>6, <4>7
    <3> QED BY <3>1, <3>2
  <2>3. \E k : \A s \in SUBSET S :
           Cardinality(s) <= n + 1 => k[s] = SumBody(f, k, s)
    <3> HIDE DEF h
    <3> QED BY <2>2
  <2> QED BY <2>3
<1>3. N = Nat
  <2> HIDE DEF N
  <2>1. N \subseteq Nat
    BY DEF N
  <2> QED BY <1>1, <1>2, <2>1, NatInduct
<1>4. Cardinality(S) \in N
  BY <1>3, FS_CardinalityType
<1>5. PICK g : \A s \in SUBSET S :
                 Cardinality(s) <= Cardinality(S) => g[s] = SumBody(f, g, s)
  BY <1>4
<1>6. \A s \in SUBSET S : g[s] = SumBody(f, g, s)
  BY <1>5, FS_Subset
<1> DEFINE h == [s \in SUBSET S |-> g[s]]
<1>7. ASSUME NEW s \in SUBSET S PROVE h[s] = SumBody(f, h, s)
  <2>1. CASE s = {}
    BY <1>6, <2>1 DEF SumBody
  <2>2. CASE s # {}
    <3> DEFINE x == CHOOSE y \in s : TRUE
    <3>1. x \in s /\ s \ {x} \in SUBSET S
      BY <2>2
    <3>2. SumBody(f, h, s) = f[x] + h[s \ {x}]
      BY <2>2 DEF SumBody
    <3>3. SumBody(f, g, s) = f[x] + g[s \ {x}]
      BY <2>2 DEF SumBody
    <3> QED BY <1>6, <3>1, <3>2, <3>3
  <2> QED BY <2>1, <2>2
<1>8. Iterates(f, S, h)
  <2>1. h = [s \in SUBSET S |-> h[s]]
    OBVIOUS
  <2> HIDE DEF h
  <2> QED BY <1>7, <2>1 DEF Iterates
<1> QED BY <1>8

(* Two iterations of f agree where both are defined.                          *)
LEMMA IterUnique ==
  ASSUME NEW f, NEW U, NEW S \in SUBSET U, IsFiniteSet(S),
         NEW g, Iterates(f, U, g), NEW h, Iterates(f, S, h)
  PROVE  g[S] = h[S]
<1> DEFINE N == {n \in Nat : \A s \in SUBSET S :
                               Cardinality(s) = n => g[s] = h[s]}
<1>1. \A s \in SUBSET S : g[s] = SumBody(f, g, s) /\ h[s] = SumBody(f, h, s)
  <2>1. g = [s \in SUBSET U |-> SumBody(f, g, s)]
    BY DEF Iterates
  <2>2. h = [s \in SUBSET S |-> SumBody(f, h, s)]
    BY DEF Iterates
  <2> TAKE s \in SUBSET S
  <2>3. s \in SUBSET U
    OBVIOUS
  <2>4. g[s] = SumBody(f, g, s)
    BY <2>1, <2>3
  <2>5. h[s] = SumBody(f, h, s)
    BY <2>2
  <2> QED BY <2>4, <2>5
<1>2. 0 \in N
  <2> SUFFICES ASSUME NEW s \in SUBSET S, Cardinality(s) = 0
               PROVE  g[s] = h[s]
    OBVIOUS
  <2>1. s = {}
    BY FS_Subset, FS_EmptySet
  <2> QED BY <1>1, <2>1 DEF SumBody
<1>3. ASSUME NEW n \in N PROVE n + 1 \in N
  <2> SUFFICES ASSUME NEW s \in SUBSET S, Cardinality(s) = n + 1
               PROVE  g[s] = h[s]
    OBVIOUS
  <2> DEFINE x == CHOOSE y \in s : TRUE
  <2>1. IsFiniteSet(s) /\ s # {}
    BY FS_Subset, FS_EmptySet
  <2>2. x \in s
    BY <2>1
  <2>3. Cardinality(s \ {x}) = Cardinality(s) - 1
    <3> HIDE DEF x
    <3> QED BY <2>1, <2>2, FS_RemoveElement
  <2>4. Cardinality(s \ {x}) = n /\ s \ {x} \in SUBSET S
    BY <2>3
  <2>5. g[s \ {x}] = h[s \ {x}]
    <3> HIDE DEF x
    <3> QED BY <2>4
  <2>6. SumBody(f, g, s) = f[x] + g[s \ {x}]
    BY <2>1 DEF SumBody
  <2>7. SumBody(f, h, s) = f[x] + h[s \ {x}]
    BY <2>1 DEF SumBody
  <2> QED BY <1>1, <2>5, <2>6, <2>7
<1>4. N = Nat
  <2> HIDE DEF N
  <2>1. N \subseteq Nat
    BY DEF N
  <2> QED BY <1>2, <1>3, <2>1, NatInduct
<1>5. Cardinality(S) \in N
  BY <1>4, FS_CardinalityType
<1> QED BY <1>5

\* A sum, unfolded on the element it chooses.
LEMMA SumDef ==
  ASSUME NEW f, NEW S, IsFiniteSet(S)
  PROVE  /\ SumOf(f, {}) = 0
         /\ S # {} => LET x == CHOOSE y \in S : TRUE
                      IN SumOf(f, S) = f[x] + SumOf(f, S \ {x})
<1> DEFINE It(T) == CHOOSE g : Iterates(f, T, g)
<1>1. \A T \in SUBSET S : IsFiniteSet(T) /\ Iterates(f, T, It(T))
  BY FS_Subset, IterExists
<1>2. \A T \in SUBSET S : SumOf(f, T) = It(T)[T]
  BY SumIter
<1> HIDE DEF It
<1>3. \A T \in SUBSET S : It(S)[T] = It(T)[T]
  <2> TAKE T \in SUBSET S
  <2>1. IsFiniteSet(T) /\ Iterates(f, T, It(T)) /\ Iterates(f, S, It(S))
    BY <1>1
  <2>2. It(S)[T] = It(T)[T]
    <3>1. PICK g : g = It(S)
      OBVIOUS
    <3>2. PICK h : h = It(T)
      OBVIOUS
    <3>3. IsFiniteSet(T) /\ Iterates(f, S, g) /\ Iterates(f, T, h)
      BY <2>1, <3>1, <3>2
    <3>4. g[T] = h[T]
      BY <3>3, IterUnique
    <3> QED BY <3>1, <3>2, <3>4
  <2> QED BY <2>2
<1>4. \A T \in SUBSET S : It(S)[T] = SumBody(f, It(S), T)
  <2> DEFINE g == It(S)
  <2>1. g = [T \in SUBSET S |-> SumBody(f, g, T)]
    BY <1>1 DEF Iterates
  <2> HIDE DEF g
  <2>2. \A T \in SUBSET S : g[T] = SumBody(f, g, T)
    BY <2>1
  <2> QED BY <2>2 DEF g
<1>5. SumOf(f, {}) = 0
  <2>1. It(S)[{}] = SumBody(f, It(S), {})
    BY <1>4
  <2> QED BY <1>2, <1>3, <2>1 DEF SumBody
<1>6. ASSUME S # {}
      PROVE  LET x == CHOOSE y \in S : TRUE
             IN SumOf(f, S) = f[x] + SumOf(f, S \ {x})
  <2> DEFINE x == CHOOSE y \in S : TRUE
  <2>1. It(S)[S] = SumBody(f, It(S), S)
    BY <1>4
  <2>2. SumBody(f, It(S), S) = f[x] + It(S)[S \ {x}]
    BY <1>6 DEF SumBody
  <2>3. S \ {x} \in SUBSET S
    OBVIOUS
  <2>4. It(S)[S \ {x}] = SumOf(f, S \ {x})
    BY <1>2, <1>3, <2>3
  <2> QED BY <1>2, <1>3, <2>1, <2>2, <2>4
<1> QED BY <1>5, <1>6

(* Nothing sums to 0.                                                         *)
THEOREM SumEmpty == \A f : SumOf(f, {}) = 0
  BY SumDef, FS_EmptySet

(* A sum of naturals is a natural.                                            *)
THEOREM SumType ==
  ASSUME NEW f, NEW S, IsFiniteSet(S), \A x \in S : f[x] \in Nat
  PROVE  SumOf(f, S) \in Nat
<1> DEFINE N == {n \in Nat : \A T \in SUBSET S :
                               Cardinality(T) = n => SumOf(f, T) \in Nat}
<1>1. 0 \in N
  <2> SUFFICES ASSUME NEW T \in SUBSET S, Cardinality(T) = 0
               PROVE  SumOf(f, T) \in Nat
    OBVIOUS
  <2>1. T = {}
    BY FS_Subset, FS_EmptySet
  <2> QED BY <2>1, SumEmpty
<1>2. ASSUME NEW n \in N PROVE n + 1 \in N
  <2> SUFFICES ASSUME NEW T \in SUBSET S, Cardinality(T) = n + 1
               PROVE  SumOf(f, T) \in Nat
    OBVIOUS
  <2> DEFINE x == CHOOSE y \in T : TRUE
  <2>1. IsFiniteSet(T) /\ T # {}
    BY FS_Subset, FS_EmptySet
  <2>2. SumOf(f, T) = f[x] + SumOf(f, T \ {x})
    BY <2>1, SumDef
  <2>3. x \in T
    BY <2>1
  <2> HIDE DEF x
  <2>4. Cardinality(T \ {x}) = Cardinality(T) - 1
    BY <2>1, <2>3, FS_RemoveElement
  <2>5. Cardinality(T \ {x}) = n /\ T \ {x} \in SUBSET S
    BY <2>4
  <2>6. SumOf(f, T \ {x}) \in Nat /\ f[x] \in Nat
    BY <2>3, <2>5
  <2> QED BY <2>2, <2>6
<1>3. N = Nat
  <2> HIDE DEF N
  <2>1. N \subseteq Nat
    BY DEF N
  <2> QED BY <1>1, <1>2, <2>1, NatInduct
<1>4. Cardinality(S) \in N
  BY <1>3, FS_CardinalityType
<1> QED BY <1>4

(* A sum may be begun with any element.                                       *)
THEOREM SumRemove ==
  ASSUME NEW f, NEW S, IsFiniteSet(S), \A x \in S : f[x] \in Nat, NEW x \in S
  PROVE  SumOf(f, S) = f[x] + SumOf(f, S \ {x})
<1> DEFINE N == {n \in Nat : \A T \in SUBSET S : Cardinality(T) = n =>
                   \A y \in T : SumOf(f, T) = f[y] + SumOf(f, T \ {y})}
<1>a. \A T \in SUBSET S : IsFiniteSet(T) /\ SumOf(f, T) \in Nat
  <2> TAKE T \in SUBSET S
  <2>1. IsFiniteSet(T) /\ \A z \in T : f[z] \in Nat
    BY FS_Subset
  <2> QED BY <2>1, SumType
<1>1. 0 \in N
  <2> SUFFICES ASSUME NEW T \in SUBSET S, Cardinality(T) = 0 PROVE T = {}
    OBVIOUS
  <2> QED BY FS_Subset, FS_EmptySet
<1>2. ASSUME NEW n \in N PROVE n + 1 \in N
  <2> SUFFICES ASSUME NEW T \in SUBSET S, Cardinality(T) = n + 1
               PROVE  \A y \in T : SumOf(f, T) = f[y] + SumOf(f, T \ {y})
    OBVIOUS
  <2> DEFINE c == CHOOSE y \in T : TRUE
  <2>1. IsFiniteSet(T) /\ T # {}
    BY FS_Subset, FS_EmptySet
  <2>2. SumOf(f, T) = f[c] + SumOf(f, T \ {c})
    BY <2>1, SumDef
  <2>3. c \in T
    BY <2>1
  <2> HIDE DEF c
  <2>4. ASSUME NEW y \in T
        PROVE  \A z \in T \ {y} :
                 SumOf(f, T \ {y}) = f[z] + SumOf(f, (T \ {y}) \ {z})
    <3>1. Cardinality(T \ {y}) = Cardinality(T) - 1
      BY <2>1, FS_RemoveElement
    <3>2. T \ {y} \in SUBSET S /\ Cardinality(T \ {y}) = n
      BY <3>1
    <3> QED BY <3>2
  <2>5. ASSUME NEW y \in T PROVE SumOf(f, T) = f[y] + SumOf(f, T \ {y})
    <3>1. CASE y = c
      BY <2>2, <3>1
    <3>2. CASE y # c
      <4> DEFINE r == SumOf(f, (T \ {y}) \ {c})
      <4>1. (T \ {y}) \ {c} = (T \ {c}) \ {y}
        OBVIOUS
      <4>2. SumOf(f, T \ {y}) = f[c] + r
        BY <2>3, <2>4, <3>2
      <4>3. SumOf(f, T \ {c}) = f[y] + SumOf(f, (T \ {c}) \ {y})
        BY <2>3, <2>4, <3>2
      <4>4. r \in Nat /\ f[y] \in Nat /\ f[c] \in Nat
        BY <1>a, <2>3
      <4>5. SumOf(f, T \ {c}) = f[y] + r
        BY <4>1, <4>3
      <4> HIDE DEF r
      <4> QED BY <2>2, <4>2, <4>4, <4>5
    <3> QED BY <3>1, <3>2
  <2> QED BY <2>5
<1>3. N = Nat
  <2> HIDE DEF N
  <2>1. N \subseteq Nat
    BY DEF N
  <2> QED BY <1>1, <1>2, <2>1, NatInduct
<1>4. Cardinality(S) \in N
  BY <1>3, FS_CardinalityType
<1> QED BY <1>4

\* A sum over one element more: the order in which a finite set is folded does not
\* matter.
THEOREM SumAdd ==
  ASSUME NEW f, NEW S, IsFiniteSet(S), NEW y, y \notin S,
         \A x \in S \cup {y} : f[x] \in Nat
  PROVE  SumOf(f, S \cup {y}) = f[y] + SumOf(f, S)
<1>1. IsFiniteSet(S \cup {y})
  BY FS_AddElement
<1>2. (S \cup {y}) \ {y} = S
  OBVIOUS
<1>3. SumOf(f, S \cup {y}) = f[y] + SumOf(f, (S \cup {y}) \ {y})
  BY <1>1, SumRemove
<1> QED BY <1>2, <1>3

(* Only the values on the set count.                                          *)
THEOREM SumSame ==
  ASSUME NEW f, NEW g, NEW S, IsFiniteSet(S),
         \A x \in S : f[x] \in Nat /\ g[x] = f[x]
  PROVE  SumOf(g, S) = SumOf(f, S)
<1> DEFINE C == {T \in SUBSET S : SumOf(g, T) = SumOf(f, T)}
<1>1. {} \in C
  BY SumEmpty
<1>2. ASSUME NEW T \in SUBSET S, NEW y \in S \ T, T \in C
      PROVE  T \cup {y} \in C
  <2>1. IsFiniteSet(T) /\ y \notin T /\ T \cup {y} \in SUBSET S
    BY FS_Subset
  <2>2. \A x \in T \cup {y} : f[x] \in Nat
    OBVIOUS
  <2>3. \A x \in T \cup {y} : g[x] \in Nat
    OBVIOUS
  <2>4. SumOf(f, T \cup {y}) = f[y] + SumOf(f, T)
    BY <2>1, <2>2, SumAdd
  <2>5. SumOf(g, T \cup {y}) = g[y] + SumOf(g, T)
    BY <2>1, <2>3, SumAdd
  <2>6. g[y] = f[y] /\ SumOf(g, T) = SumOf(f, T)
    BY <1>2
  <2>7. SumOf(g, T \cup {y}) = SumOf(f, T \cup {y})
    BY <2>4, <2>5, <2>6
  <2> QED BY <2>1, <2>7
<1>3. \A T \in SUBSET S : T \in C
  <2> HIDE DEF C
  <2> QED BY <1>1, <1>2, SetInduct
<1> QED BY <1>3

(* One value more adds as much to the sum.                                    *)
THEOREM SumMore ==
  ASSUME NEW f, NEW g, NEW S, IsFiniteSet(S), NEW y \in S, NEW d \in Nat,
         \A x \in S : f[x] \in Nat, \A x \in S \ {y} : g[x] = f[x],
         g[y] = f[y] + d
  PROVE  SumOf(g, S) = SumOf(f, S) + d
<1> DEFINE r == SumOf(f, S \ {y})
<1>1. IsFiniteSet(S \ {y}) /\ \A x \in S \ {y} : f[x] \in Nat /\ g[x] = f[x]
  BY FS_RemoveElement
<1>2. SumOf(g, S \ {y}) = r /\ r \in Nat
  BY <1>1, SumSame, SumType
<1>3. SumOf(f, S) = f[y] + r
  BY SumRemove
<1>4. \A x \in S : g[x] \in Nat
  <2> TAKE x \in S
  <2>1. CASE x = y
    BY <2>1
  <2>2. CASE x # y
    BY <2>2
  <2> QED BY <2>1, <2>2
<1>5. SumOf(g, S) = g[y] + SumOf(g, S \ {y})
  BY <1>4, SumRemove
<1>6. f[y] \in Nat
  OBVIOUS
<1> HIDE DEF r
<1> QED BY <1>2, <1>3, <1>5, <1>6

(* A part sums to no more than the whole.                                     *)
THEOREM SumSubset ==
  ASSUME NEW f, NEW S, IsFiniteSet(S), \A x \in S : f[x] \in Nat,
         NEW T \in SUBSET S
  PROVE  SumOf(f, T) <= SumOf(f, S)
<1> DEFINE C == {U \in SUBSET (S \ T) : SumOf(f, T) <= SumOf(f, T \cup U)}
<1>0. \A U \in SUBSET S : IsFiniteSet(U) /\ SumOf(f, U) \in Nat
  <2> TAKE U \in SUBSET S
  <2>1. IsFiniteSet(U) /\ \A x \in U : f[x] \in Nat
    BY FS_Subset
  <2> QED BY <2>1, SumType
<1>1. {} \in C
  <2>1. T \cup {} = T
    OBVIOUS
  <2> QED BY <1>0, <2>1
<1>2. ASSUME NEW U \in SUBSET (S \ T), NEW y \in (S \ T) \ U, U \in C
      PROVE  U \cup {y} \in C
  <2>1. IsFiniteSet(T \cup U) /\ y \notin T \cup U
    BY <1>0
  <2>2. \A x \in (T \cup U) \cup {y} : f[x] \in Nat
    OBVIOUS
  <2>3. SumOf(f, (T \cup U) \cup {y}) = f[y] + SumOf(f, T \cup U)
    BY <2>1, <2>2, SumAdd
  <2>4. (T \cup U) \cup {y} = T \cup (U \cup {y})
    OBVIOUS
  <2>5. T \cup U \in SUBSET S /\ f[y] \in Nat
        /\ SumOf(f, T) <= SumOf(f, T \cup U)
    BY <1>2
  <2>7. SumOf(f, T \cup U) \in Nat /\ SumOf(f, T) \in Nat
    BY <1>0, <2>5
  <2>6. SumOf(f, T) <= SumOf(f, T \cup (U \cup {y}))
    <3> DEFINE a == SumOf(f, T)
    <3> DEFINE b == SumOf(f, T \cup U)
    <3>1. SumOf(f, T \cup (U \cup {y})) = f[y] + b
      BY <2>3, <2>4
    <3>2. a \in Nat /\ b \in Nat /\ a <= b /\ f[y] \in Nat
      BY <2>5, <2>7
    <3>3. a <= f[y] + b
      <4> HIDE DEF a, b
      <4> QED BY <3>2
    <3> QED BY <3>1, <3>3
  <2> QED BY <2>6
<1>3. IsFiniteSet(S \ T)
  BY FS_Subset
<1>4. \A U \in SUBSET (S \ T) : U \in C
  <2> DEFINE D == S \ T
  <2>1. \A U \in SUBSET D : \A y \in D \ U : U \in C => U \cup {y} \in C
    BY <1>2
  <2>2. IsFiniteSet(D)
    BY <1>3
  <2> HIDE DEF C, D
  <2>3. \A U \in SUBSET D : U \in C
    BY <1>1, <2>1, <2>2, SetInduct, Zenon
  <2> QED BY <2>3 DEF D
<1>5. S \ T \in C /\ T \cup (S \ T) = S
  BY <1>4
<1> QED BY <1>5
=============================================================================
