------------------------------ MODULE FiniteSums ------------------------------
(***************************************************************************)
(* Sums over finite sets (MapThenSumSet), for the proofs about reserved    *)
(* bytes: a sum is that of its elements in any order, so it changes by the *)
(* difference when one of them changes.                                    *)
(***************************************************************************)
EXTENDS Integers, FiniteSets, FiniteSetsExt, FiniteSetTheorems, WellFoundedInduction, TLAPS

\* Induction, as a statement about a set of numbers.
LEMMA SetInduction ==
  ASSUME NEW S, 0 \in S, \A n \in Nat : n \in S => n + 1 \in S
  PROVE  Nat \subseteq S
<1> DEFINE R == OpToRel(<, Nat)
           T == Nat \ S
<1>1. IsWellFoundedOn(R, Nat)
  BY NatLessThanWellFounded
<1>2. \A x, y \in Nat : x < y => <<x, y>> \in R
  BY DEF OpToRel
<1> SUFFICES ASSUME T # {} PROVE FALSE
  OBVIOUS
<1> HIDE DEF R
<1>3. T \subseteq Nat
  OBVIOUS
<1> HIDE DEF T
<1>4. PICK x \in T : \A y \in T : <<y, x>> \notin R
  BY <1>1, <1>3, WFMin
<1> USE DEF T
<1>5. x \in Nat /\ x # 0 /\ x \notin S
  OBVIOUS
<1>6. x - 1 \in Nat /\ x - 1 < x /\ (x - 1) + 1 = x
  BY <1>5
<1>7. x - 1 \in S
  BY <1>2, <1>4, <1>5, <1>6
<1> QED
  BY <1>5, <1>6, <1>7

\* What holds of a set when it holds of the set without any one element holds
\* of every subset of a finite set.
LEMMA SubsetInduction ==
  ASSUME NEW U, IsFiniteSet(U), NEW Q,
         \A T \in SUBSET U : (\A x \in T : T \ {x} \in Q) => T \in Q
  PROVE  SUBSET U \subseteq Q
<1> DEFINE N == {n \in Nat : \A T \in SUBSET U : Cardinality(T) = n => T \in Q}
<1>1. ASSUME NEW T \in SUBSET U
      PROVE  /\ IsFiniteSet(T) /\ Cardinality(T) \in Nat
             /\ Cardinality(T) = 0 => T = {}
             /\ \A x \in T : T \ {x} \in SUBSET U /\ Cardinality(T \ {x}) = Cardinality(T) - 1
  <2>1. IsFiniteSet(T)
    BY FS_Subset
  <2> QED
    BY <2>1, FS_CardinalityType, FS_EmptySet, FS_RemoveElement
<1>2. 0 \in N
  BY <1>1
<1>3. ASSUME NEW n \in Nat, n \in N PROVE n + 1 \in N
  <2> SUFFICES ASSUME NEW T \in SUBSET U, Cardinality(T) = n + 1 PROVE T \in Q
    OBVIOUS
  <2>1. \A x \in T : T \ {x} \in SUBSET U /\ Cardinality(T \ {x}) = n
    BY <1>1
  <2>2. \A x \in T : T \ {x} \in Q
    BY <1>3, <2>1
  <2> QED
    BY <2>2
<1>4. Nat \subseteq N
  <2> HIDE DEF N
  <2> QED
    BY <1>2, <1>3, SetInduction
<1> QED
  BY <1>1, <1>4

-----------------------------------------------------------------------------
(* The sum of f over S, and the functions MapThenSumSet computes it with.  *)
SumOf(f, S) == MapThenSumSet(LAMBDA x : f[x], S)

Chosen(s) == CHOOSE x \in s : TRUE

Sums(f, D, g) ==
  g = [s \in D |-> IF s = {} THEN 0 ELSE f[Chosen(s)] + g[s \ {Chosen(s)}]]

\* The sum as the last value of the recursive function.
LEMMA SumIs ==
  ASSUME NEW f, NEW S
  PROVE  SumOf(f, S) = (CHOOSE g : Sums(f, SUBSET S, g))[S]
BY DEF SumOf, MapThenSumSet, MapThenFoldSet, Sums, Chosen

\* What is chosen of a set is in it.
LEMMA ChosenIn ==
  ASSUME NEW s, s # {}
  PROVE  Chosen(s) \in s
BY DEF Chosen

\* There is such a function on the subsets of a finite set.
LEMMA SumsExist ==
  ASSUME NEW f, NEW U, IsFiniteSet(U)
  PROVE  \E g : Sums(f, SUBSET U, g)
<1> DEFINE D(n) == {s \in SUBSET U : Cardinality(s) <= n}
           N == {n \in Nat : \E g : Sums(f, D(n), g)}
<1>1. ASSUME NEW T \in SUBSET U
      PROVE  /\ IsFiniteSet(T) /\ Cardinality(T) \in Nat
             /\ Cardinality(T) <= Cardinality(U)
             /\ Cardinality(T) = 0 <=> T = {}
             /\ \A x \in T : Cardinality(T \ {x}) = Cardinality(T) - 1
  <2>1. IsFiniteSet(T) /\ Cardinality(T) <= Cardinality(U)
    BY FS_Subset
  <2> QED
    BY <2>1, FS_CardinalityType, FS_EmptySet, FS_RemoveElement
<1>2. 0 \in N
  <2>1. \A s \in D(0) : s = {}
    BY <1>1
  <2>2. PICK g : g = [s \in D(0) |-> 0]
    OBVIOUS
  <2>3. Sums(f, D(0), g)
    BY <2>1, <2>2 DEF Sums
  <2> QED
    BY <2>3
<1>3. ASSUME NEW n \in Nat, n \in N PROVE n + 1 \in N
  <2>1. PICK g : Sums(f, D(n), g)
    BY <1>3
  <2>2. PICK h : h = [s \in D(n + 1) |-> IF s = {} THEN 0 ELSE f[Chosen(s)] + g[s \ {Chosen(s)}]]
    OBVIOUS
  <2>3. \A s \in D(n) : s \in D(n + 1)
    BY <1>1
  <2>4. \A s \in D(n) : h[s] = g[s]
    BY <2>1, <2>2, <2>3 DEF Sums
  <2>5. ASSUME NEW s \in D(n + 1), s # {} PROVE s \ {Chosen(s)} \in D(n)
    <3>1. Chosen(s) \in s
      BY <2>5, ChosenIn
    <3> QED
      BY <1>1, <3>1
  <2>6. \A s \in D(n + 1) : s # {} => h[s \ {Chosen(s)}] = g[s \ {Chosen(s)}]
    BY <2>4, <2>5
  <2>7. Sums(f, D(n + 1), h)
    <3> HIDE DEF D
    <3> QED
      BY <2>2, <2>6 DEF Sums
  <2> QED
    <3> HIDE DEF D
    <3> QED
      BY <2>7
<1>4. Nat \subseteq N
  <2> HIDE DEF N
  <2> QED
    BY <1>2, <1>3, SetInduction
<1>5. PICK n \in Nat : n = Cardinality(U)
  BY FS_CardinalityType
<1>6. D(n) = SUBSET U
  BY <1>1, <1>5
<1>7. \E g : Sums(f, D(n), g)
  BY <1>4
<1> QED
  BY <1>6, <1>7

\* One element is taken out of the sum ...
LEMMA SumTakesChosen ==
  ASSUME NEW f, NEW U, IsFiniteSet(U)
  PROVE  /\ SumOf(f, {}) = 0
         /\ U # {} => SumOf(f, U) = f[Chosen(U)] + SumOf(f, U \ {Chosen(U)})
<1>1. ASSUME NEW S, IsFiniteSet(S)
      PROVE  \E g : Sums(f, SUBSET S, g) /\ SumOf(f, S) = g[S]
  <2>1. PICK g : g = CHOOSE h : Sums(f, SUBSET S, h)
    OBVIOUS
  <2>2. Sums(f, SUBSET S, g)
    BY <1>1, <2>1, SumsExist
  <2> QED
    BY <2>1, <2>2, SumIs
<1>2. SumOf(f, {}) = 0
  <2>1. PICK g : Sums(f, SUBSET {}, g) /\ SumOf(f, {}) = g[{}]
    BY <1>1, FS_EmptySet
  <2> QED
    BY <2>1 DEF Sums
<1>3. ASSUME U # {} PROVE SumOf(f, U) = f[Chosen(U)] + SumOf(f, U \ {Chosen(U)})
  <2>1. PICK V : V = U \ {Chosen(U)}
    OBVIOUS
  <2>2. V \in SUBSET U /\ IsFiniteSet(V)
    BY <2>1, FS_Subset
  <2>3. PICK g : Sums(f, SUBSET U, g) /\ SumOf(f, U) = g[U]
    BY <1>1
  <2>4. PICK h : Sums(f, SUBSET V, h) /\ SumOf(f, V) = h[V]
    BY <1>1, <2>2
  <2>5. g[U] = f[Chosen(U)] + g[V]
    BY <1>3, <2>1, <2>3 DEF Sums
  <2>6. g[V] = h[V]
    <3> DEFINE Q == {s \in SUBSET V : g[s] = h[s]}
    <3>1. {} \in Q
      BY <2>3, <2>4 DEF Sums
    <3>2. ASSUME NEW T \in SUBSET V, T # {}, T \ {Chosen(T)} \in Q PROVE T \in Q
      <4>1. T \in SUBSET U /\ g[T \ {Chosen(T)}] = h[T \ {Chosen(T)}]
        BY <2>2, <3>2
      <4>2. g[T] = f[Chosen(T)] + g[T \ {Chosen(T)}]
        BY <2>3, <3>2, <4>1 DEF Sums
      <4>3. h[T] = f[Chosen(T)] + h[T \ {Chosen(T)}]
        BY <2>4, <3>2 DEF Sums
      <4> QED
        BY <4>1, <4>2, <4>3
    <3>3. \A T \in SUBSET V : (\A x \in T : T \ {x} \in Q) => T \in Q
      <4> HIDE DEF Q
      <4> QED
        BY <3>1, <3>2, ChosenIn
    <3>4. SUBSET V \subseteq Q
      <4> HIDE DEF Q
      <4> QED
        BY <2>2, <3>3, SubsetInduction
    <3> QED
      BY <3>4
  <2> QED
    BY <2>1, <2>3, <2>4, <2>5, <2>6
<1> QED
  BY <1>2, <1>3

\* Sums of integers and of naturals.
LEMMA SumType ==
  ASSUME NEW f, NEW S, IsFiniteSet(S)
  PROVE  /\ (\A x \in S : f[x] \in Int) => SumOf(f, S) \in Int
         /\ (\A x \in S : f[x] \in Nat) => SumOf(f, S) \in Nat
<1> DEFINE Q == {T \in SUBSET S : /\ (\A x \in S : f[x] \in Int) => SumOf(f, T) \in Int
                                  /\ (\A x \in S : f[x] \in Nat) => SumOf(f, T) \in Nat}
<1>1. ASSUME NEW T \in SUBSET S, \A x \in T : T \ {x} \in Q PROVE T \in Q
  <2>1. IsFiniteSet(T)
    BY FS_Subset
  <2>2. CASE T = {}
    <3>1. SumOf(f, {}) = 0
      BY FS_EmptySet, SumTakesChosen
    <3>2. SumOf(f, T) = 0
      BY <2>2, <3>1
    <3> QED
      BY <3>2
  <2>3. CASE T # {}
    <3>1. PICK x, a, b : x = Chosen(T) /\ a = SumOf(f, T) /\ b = SumOf(f, T \ {x})
      OBVIOUS
    <3>2. x \in T /\ a = f[x] + b
      BY <2>1, <2>3, <3>1, ChosenIn, SumTakesChosen
    <3>3. /\ (\A y \in S : f[y] \in Int) => b \in Int
          /\ (\A y \in S : f[y] \in Nat) => b \in Nat
      BY <1>1, <3>1, <3>2
    <3>4. /\ (\A y \in S : f[y] \in Int) => a \in Int
          /\ (\A y \in S : f[y] \in Nat) => a \in Nat
      BY <3>2, <3>3
    <3> QED
      BY <3>1, <3>4
  <2> QED
    BY <2>2, <2>3
<1>2. SUBSET S \subseteq Q
  <2> HIDE DEF Q
  <2> QED
    BY <1>1, SubsetInduction
<1> QED
  BY <1>2

\* ... and any element may be.
LEMMA SumTakes ==
  ASSUME NEW f, NEW S, IsFiniteSet(S), NEW x \in S, \A y \in S : f[y] \in Int
  PROVE  SumOf(f, S) = f[x] + SumOf(f, S \ {x})
<1> DEFINE Q == {T \in SUBSET S : \A y \in T : SumOf(f, T) = f[y] + SumOf(f, T \ {y})}
<1>1. ASSUME NEW T \in SUBSET S, \A y \in T : T \ {y} \in Q PROVE T \in Q
  <2> SUFFICES ASSUME NEW y \in T PROVE SumOf(f, T) = f[y] + SumOf(f, T \ {y})
    OBVIOUS
  <2>1. PICK c : c = Chosen(T)
    OBVIOUS
  <2>2. IsFiniteSet(T) /\ c \in T
    BY <2>1, FS_Subset, ChosenIn
  <2>3. SumOf(f, T) = f[c] + SumOf(f, T \ {c})
    BY <2>1, <2>2, SumTakesChosen
  <2>4. CASE y = c
    BY <2>3, <2>4
  <2>5. CASE y # c
    <3>1. PICK R : R = (T \ {c}) \ {y}
      OBVIOUS
    <3>2. R = (T \ {y}) \ {c} /\ R \in SUBSET S /\ IsFiniteSet(R)
      BY <2>2, <3>1, FS_Subset
    <3>3. SumOf(f, T \ {c}) = f[y] + SumOf(f, R)
      BY <1>1, <2>2, <2>5, <3>1
    <3>4. SumOf(f, T \ {y}) = f[c] + SumOf(f, R)
      BY <1>1, <2>2, <2>5, <3>2
    <3>5. SumOf(f, R) \in Int
      BY <3>2, SumType
    <3>6. f[c] \in Int /\ f[y] \in Int
      BY <2>2
    <3> QED
      BY <2>3, <3>3, <3>4, <3>5, <3>6
  <2> QED
    BY <2>4, <2>5
<1>2. SUBSET S \subseteq Q
  <2> HIDE DEF Q
  <2> QED
    BY <1>1, SubsetInduction
<1> QED
  BY <1>2

\* Only the values on the set count.
LEMMA SumSame ==
  ASSUME NEW f, NEW g, NEW S, IsFiniteSet(S), \A x \in S : f[x] = g[x]
  PROVE  SumOf(f, S) = SumOf(g, S)
<1> DEFINE Q == {T \in SUBSET S : SumOf(f, T) = SumOf(g, T)}
<1>1. ASSUME NEW T \in SUBSET S, \A y \in T : T \ {y} \in Q PROVE T \in Q
  <2>1. IsFiniteSet(T)
    BY FS_Subset
  <2>2. CASE T = {}
    BY <2>1, <2>2, SumTakesChosen
  <2>3. CASE T # {}
    <3>1. PICK x : x = Chosen(T)
      OBVIOUS
    <3>2. x \in T /\ SumOf(f, T) = f[x] + SumOf(f, T \ {x}) /\ SumOf(g, T) = g[x] + SumOf(g, T \ {x})
      BY <2>1, <2>3, <3>1, ChosenIn, SumTakesChosen
    <3>3. SumOf(f, T \ {x}) = SumOf(g, T \ {x}) /\ f[x] = g[x]
      BY <1>1, <3>2
    <3> QED
      BY <3>2, <3>3
  <2> QED
    BY <2>2, <2>3
<1>2. SUBSET S \subseteq Q
  <2> HIDE DEF Q
  <2> QED
    BY <1>1, SubsetInduction
<1> QED
  BY <1>2

\* What is left out adds nothing less than zero.
LEMMA SumPart ==
  ASSUME NEW f, NEW S, IsFiniteSet(S), \A x \in S : f[x] \in Nat, NEW P \in SUBSET S
  PROVE  SumOf(f, P) <= SumOf(f, S)
<1> DEFINE Q == {T \in SUBSET S : P \subseteq T => SumOf(f, P) <= SumOf(f, T)}
<1>0. ASSUME NEW T \in SUBSET S PROVE IsFiniteSet(T) /\ SumOf(f, T) \in Nat
  <2>1. IsFiniteSet(T)
    BY FS_Subset
  <2> QED
    BY <2>1, SumType
<1>1. ASSUME NEW T \in SUBSET S, \A y \in T : T \ {y} \in Q PROVE T \in Q
  <2> SUFFICES ASSUME P \subseteq T PROVE SumOf(f, P) <= SumOf(f, T)
    OBVIOUS
  <2>1. CASE P = T
    BY <1>0, <2>1
  <2>2. CASE P # T
    <3>1. PICK x : x \in T /\ x \notin P
      BY <2>2
    <3>2. SumOf(f, P) <= SumOf(f, T \ {x})
      BY <1>1, <3>1
    <3>3. SumOf(f, T) = f[x] + SumOf(f, T \ {x})
      BY <1>0, <3>1, SumTakes
    <3>4. SumOf(f, T \ {x}) \in Nat /\ SumOf(f, P) \in Nat /\ f[x] \in Nat
      BY <1>0, <3>1
    <3> QED
      BY <3>2, <3>3, <3>4
  <2> QED
    BY <2>1, <2>2
<1>2. SUBSET S \subseteq Q
  <2> HIDE DEF Q
  <2> QED
    BY <1>1, SubsetInduction
<1> QED
  BY <1>2

\* Each summand is within the sum of naturals.
LEMMA SumHas ==
  ASSUME NEW f, NEW S, IsFiniteSet(S), \A x \in S : f[x] \in Nat, NEW x \in S
  PROVE  f[x] <= SumOf(f, S)
<1>1. \A y \in S : f[y] \in Int
  OBVIOUS
<1>2. SumOf(f, S) = f[x] + SumOf(f, S \ {x})
  BY <1>1, SumTakes
<1>3. PICK R : R = S \ {x}
  OBVIOUS
<1>4. SumOf(f, R) \in Nat
  <2>1. IsFiniteSet(R) /\ \A y \in R : f[y] \in Nat
    BY <1>3, FS_Subset
  <2> QED
    BY <2>1, SumType
<1> QED
  BY <1>2, <1>3, <1>4

\* Adding an element.
LEMMA SumPuts ==
  ASSUME NEW f, NEW S, IsFiniteSet(S), NEW x, x \notin S, f[x] \in Int, \A y \in S : f[y] \in Int
  PROVE  IsFiniteSet(S \cup {x}) /\ SumOf(f, S \cup {x}) = f[x] + SumOf(f, S)
<1>1. PICK T : T = S \cup {x}
  OBVIOUS
<1>2. IsFiniteSet(T) /\ x \in T /\ T \ {x} = S /\ \A y \in T : f[y] \in Int
  BY <1>1, FS_AddElement
<1>3. SumOf(f, T) = f[x] + SumOf(f, T \ {x})
  BY <1>2, SumTakes
<1> QED
  BY <1>1, <1>2, <1>3

\* A change of one element changes the sum by the difference.
LEMMA SumChanges ==
  ASSUME NEW f, NEW g, NEW S, IsFiniteSet(S), NEW x \in S, g[x] \in Int,
         \A y \in S : f[y] \in Int, \A y \in S : y # x => g[y] = f[y]
  PROVE  SumOf(g, S) = SumOf(f, S) - f[x] + g[x]
<1>1. PICK R : R = S \ {x}
  OBVIOUS
<1>2. IsFiniteSet(R) /\ R \in SUBSET S
  BY <1>1, FS_Subset
<1>3. SumOf(g, R) = SumOf(f, R)
  BY <1>1, <1>2, SumSame
<1>4. SumOf(f, S) = f[x] + SumOf(f, R)
  BY <1>1, SumTakes
<1>5. \A y \in S : g[y] \in Int
  OBVIOUS
<1>6. SumOf(g, S) = g[x] + SumOf(g, R)
  BY <1>1, <1>5, SumTakes
<1>7. SumOf(f, R) \in Int /\ f[x] \in Int
  BY <1>2, SumType
<1> QED
  BY <1>3, <1>4, <1>6, <1>7

\* If nothing but c changes, the sum changes by what c adds and what it added.
LEMMA SumMoves ==
  ASSUME NEW f, NEW g, NEW S, NEW T, NEW c, IsFiniteSet(S), S \ {c} = T \ {c},
         \A x \in S : f[x] \in Int, \A x \in T : g[x] \in Int,
         \A x \in S : x # c => f[x] = g[x]
  PROVE  /\ IsFiniteSet(T)
         /\ SumOf(g, T) = SumOf(f, S) - (IF c \in S THEN f[c] ELSE 0)
                                      + (IF c \in T THEN g[c] ELSE 0)
<1>1. PICK R : R = S \ {c}
  OBVIOUS
<1>2. IsFiniteSet(R) /\ R = T \ {c} /\ R \in SUBSET S
  BY <1>1, FS_Subset
<1>3. IsFiniteSet(T)
  <2>1. CASE c \in T
    <3>1. T = R \cup {c}
      BY <1>2, <2>1
    <3> QED
      BY <1>2, <3>1, FS_AddElement
  <2>2. CASE c \notin T
    <3>1. T = R
      BY <1>2, <2>2
    <3> QED
      BY <1>2, <3>1
  <2> QED
    BY <2>1, <2>2
<1>4. PICK s, t, r : s = SumOf(f, S) /\ t = SumOf(g, T) /\ r = SumOf(f, R)
  OBVIOUS
<1>5. SumOf(g, R) = r
  <2>1. \A x \in R : f[x] = g[x]
    BY <1>1
  <2> QED
    BY <1>2, <1>4, <2>1, SumSame
<1>6. r \in Int
  BY <1>2, <1>4, SumType
<1>7. s = r + (IF c \in S THEN f[c] ELSE 0)
  <2>1. CASE c \in S
    <3>1. s = f[c] + r
      BY <1>1, <1>4, <2>1, SumTakes
    <3> QED
      BY <1>6, <2>1, <3>1
  <2>2. CASE c \notin S
    <3>1. R = S
      BY <1>1, <2>2
    <3> QED
      BY <1>4, <1>6, <2>2, <3>1
  <2> QED
    BY <2>1, <2>2
<1>8. t = r + (IF c \in T THEN g[c] ELSE 0)
  <2>1. CASE c \in T
    <3>1. t = g[c] + r
      BY <1>2, <1>3, <1>4, <1>5, <2>1, SumTakes
    <3> QED
      BY <1>6, <2>1, <3>1
  <2>2. CASE c \notin T
    <3>1. R = T
      BY <1>2, <2>2
    <3> QED
      BY <1>4, <1>5, <1>6, <2>2, <3>1
  <2> QED
    BY <2>1, <2>2
<1> QED
  BY <1>3, <1>4, <1>6, <1>7, <1>8

\* What adds nothing can be left out.
LEMMA SumSupport ==
  ASSUME NEW f, NEW S, IsFiniteSet(S), \A x \in S : f[x] \in Int, NEW P \in SUBSET S,
         \A x \in S : x \notin P => f[x] = 0
  PROVE  SumOf(f, S) = SumOf(f, P)
<1> DEFINE Q == {T \in SUBSET S : SumOf(f, T) = SumOf(f, T \cap P)}
<1>1. ASSUME NEW T \in SUBSET S, \A y \in T : T \ {y} \in Q PROVE T \in Q
  <2>1. CASE T = {}
    <3>1. T \cap P = T
      BY <2>1
    <3> QED
      BY <3>1
  <2>2. CASE T # {}
    <3>1. PICK x : x \in T
      BY <2>2
    <3>2. IsFiniteSet(T) /\ IsFiniteSet(T \cap P)
      BY FS_Subset
    <3>3. SumOf(f, T) = f[x] + SumOf(f, T \ {x})
      BY <3>1, <3>2, SumTakes
    <3>4. SumOf(f, T \ {x}) = SumOf(f, (T \ {x}) \cap P)
      BY <1>1, <3>1
    <3>5. SumOf(f, T) = SumOf(f, T \cap P)
      <4>1. CASE x \in P
        <5>1. (T \cap P) \ {x} = (T \ {x}) \cap P
          OBVIOUS
        <5>2. x \in T \cap P /\ \A y \in T \cap P : f[y] \in Int
          BY <3>1, <4>1
        <5>3. SumOf(f, T \cap P) = f[x] + SumOf(f, (T \cap P) \ {x})
          BY <3>2, <5>2, SumTakes
        <5> QED
          BY <3>3, <3>4, <5>1, <5>3
      <4>2. CASE x \notin P
        <5>1. (T \ {x}) \cap P = T \cap P
          BY <4>2
        <5>2. f[x] = 0
          BY <3>1, <4>2
        <5>3. SumOf(f, T \cap P) \in Int
          BY <3>2, SumType
        <5>4. SumOf(f, T \ {x}) = SumOf(f, T \cap P)
          BY <3>4, <5>1
        <5> QED
          BY <3>3, <5>2, <5>3, <5>4
      <4> QED
        BY <4>1, <4>2
    <3> QED
      BY <3>5
  <2> QED
    BY <2>1, <2>2
<1>2. SUBSET S \subseteq Q
  <2> HIDE DEF Q
  <2> QED
    BY <1>1, SubsetInduction
<1>3. S \in Q /\ S \cap P = P
  BY <1>2
<1> QED
  BY <1>3

\* A sum is within another if each element is within its own, or within its own
\* and that of one of R which is at it.
LEMMA SumCovered ==
  ASSUME NEW f, NEW g, NEW h, NEW at, NEW S, NEW R, IsFiniteSet(S), IsFiniteSet(R),
         \A x \in S : f[x] \in Nat /\ g[x] \in Nat, \A r \in R : h[r] \in Nat,
         \A p \in R : \A q \in R : at[p] = at[q] /\ at[p] \in S => p = q,
         \A x \in S : f[x] <= g[x] \/ \E r \in R : at[r] = x /\ f[x] <= g[x] + h[r]
  PROVE  SumOf(f, S) <= SumOf(g, S) + SumOf(h, R)
<1> DEFINE At(T) == {r \in R : at[r] \in T}
           Q == {T \in SUBSET S : SumOf(f, T) <= SumOf(g, T) + SumOf(h, At(T))}
<1>0. ASSUME NEW T \in SUBSET S
      PROVE  /\ IsFiniteSet(T) /\ IsFiniteSet(At(T)) /\ At(T) \in SUBSET R
             /\ SumOf(f, T) \in Nat /\ SumOf(g, T) \in Nat /\ SumOf(h, At(T)) \in Nat
  <2>1. IsFiniteSet(T) /\ IsFiniteSet(At(T)) /\ At(T) \in SUBSET R
    BY FS_Subset
  <2>2. (\A x \in T : f[x] \in Nat) /\ (\A x \in T : g[x] \in Nat) /\ (\A r \in At(T) : h[r] \in Nat)
    OBVIOUS
  <2>3. SumOf(f, T) \in Nat /\ SumOf(g, T) \in Nat
    BY <2>1, <2>2, SumType
  <2>4. PICK A : A = At(T)
    OBVIOUS
  <2>5. SumOf(h, A) \in Nat
    <3>1. IsFiniteSet(A) /\ \A r \in A : h[r] \in Nat
      BY <2>1, <2>4
    <3> HIDE DEF At
    <3> QED
      BY <3>1, SumType
  <2> QED
    BY <2>1, <2>3, <2>4, <2>5
<1>1. ASSUME NEW T \in SUBSET S, \A y \in T : T \ {y} \in Q PROVE T \in Q
  <2>1. CASE T = {}
    <3>1. SumOf(f, T) = 0 /\ SumOf(g, T) = 0
      <4>1. SumOf(f, {}) = 0 /\ SumOf(g, {}) = 0
        BY FS_EmptySet, SumTakesChosen
      <4> QED
        BY <2>1, <4>1
    <3>2. SumOf(h, At(T)) \in Nat
      BY <1>0
    <3> HIDE DEF At
    <3>3. SumOf(f, T) <= SumOf(g, T) + SumOf(h, At(T))
      BY <3>1, <3>2
    <3> QED
      BY <3>3
  <2>2. CASE T # {}
    <3>1. PICK x : x \in T
      BY <2>2
    <3>2. PICK V : V = T \ {x}
      OBVIOUS
    <3>3. V \in SUBSET S
      BY <3>2
    <3>4. PICK A, B : A = At(T) /\ B = At(V)
      OBVIOUS
    <3>5. /\ SumOf(f, V) \in Nat /\ SumOf(g, V) \in Nat /\ SumOf(h, B) \in Nat
          /\ SumOf(f, V) <= SumOf(g, V) + SumOf(h, B)
      <4>1. V \in Q
        BY <1>1, <3>1, <3>2
      <4>2. SumOf(f, V) <= SumOf(g, V) + SumOf(h, B)
        BY <3>4, <4>1
      <4> QED
        BY <1>0, <3>3, <3>4, <4>2
    <3>6. SumOf(f, T) = f[x] + SumOf(f, V) /\ SumOf(g, T) = g[x] + SumOf(g, V)
      <4>1. IsFiniteSet(T)
        BY <1>0
      <4>2. \A y \in T : f[y] \in Int /\ g[y] \in Int
        OBVIOUS
      <4> QED
        BY <3>1, <3>2, <4>1, <4>2, SumTakes
    <3>7. f[x] \in Nat /\ g[x] \in Nat
      BY <3>1
    <3>8. SumOf(f, T) <= SumOf(g, T) + SumOf(h, A)
      <4>1. CASE \E r \in R : at[r] = x
        <5>1. PICK r \in R : at[r] = x
          BY <4>1
        <5>2. r \in A /\ A \ {r} = B
          BY <3>1, <3>2, <3>4, <5>1
        <5>3. f[x] <= g[x] + h[r] /\ h[r] \in Nat
          BY <3>1, <3>7, <5>1
        <5>4. IsFiniteSet(A) /\ \A p \in A : h[p] \in Int
          BY <1>0, <3>4
        <5>5. SumOf(h, A) = h[r] + SumOf(h, B)
          BY <5>2, <5>4, SumTakes
        <5> QED
          BY <3>5, <3>6, <3>7, <5>3, <5>5
      <4>2. CASE ~\E r \in R : at[r] = x
        <5>1. A = B
          BY <3>1, <3>2, <3>4, <4>2
        <5>2. f[x] <= g[x]
          BY <3>1, <4>2
        <5> QED
          BY <3>5, <3>6, <3>7, <5>1, <5>2
      <4> QED
        BY <4>1, <4>2
    <3> QED
      BY <3>4, <3>8
  <2> QED
    BY <2>1, <2>2
<1>2. SUBSET S \subseteq Q
  <2> HIDE DEF Q
  <2> QED
    BY <1>1, SubsetInduction
<1>3. SumOf(f, S) <= SumOf(g, S) + SumOf(h, At(S))
  BY <1>2
<1>4. PICK A : A = At(S)
  OBVIOUS
<1>5. A \in SUBSET R /\ SumOf(f, S) \in Nat /\ SumOf(g, S) \in Nat /\ SumOf(h, A) \in Nat
  BY <1>0, <1>4
<1>6. SumOf(h, A) <= SumOf(h, R) /\ SumOf(h, R) \in Nat
  BY <1>5, SumPart, SumType
<1>7. SumOf(f, S) <= SumOf(g, S) + SumOf(h, A)
  BY <1>3, <1>4
<1> HIDE DEF At
<1> QED
  BY <1>5, <1>6, <1>7

=============================================================================
