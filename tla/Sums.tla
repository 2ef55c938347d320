-------------------------------- MODULE Sums --------------------------------
(***************************************************************************)
(* Sums over finite sets, for every function and set.  SumFunctionOnSet is *)
(* a recursion that takes an element of its own choice at a time: here it  *)
(* is shown to exist, and to give the same whatever it chooses, by         *)
(* induction on the size of the set.  An induction is a statement held in  *)
(* a set of numbers or of sets; that numbers are well founded is a theorem *)
(* of the library.                                                         *)
(***************************************************************************)
EXTENDS Integers, Functions, FiniteSetsExt, FiniteSetTheorems, WellFoundedInduction, TLAPS

\* A set of numbers that has one has a least one.
LEMMA Least ==
  ASSUME NEW T, T \subseteq Nat, T # {}
  PROVE  \E n \in T : \A m \in T : n <= m
<1> DEFINE R == OpToRel(<, Nat)
<1>1. IsWellFoundedOn(R, Nat)
  BY NatLessThanWellFounded
<1>2. R = {p \in Nat \X Nat : p[1] < p[2]}
  BY DEF OpToRel
<1> HIDE DEF R
<1>3. PICK x \in T : \A y \in T : <<y, x>> \notin R
  BY <1>1, WFMin
<1>4. ASSUME NEW y \in T PROVE x <= y
  <2>1. x \in Nat /\ y \in Nat
    OBVIOUS
  <2>2. ASSUME y < x PROVE FALSE
    <3> DEFINE yx == <<y, x>>
    <3>1. yx \in Nat \X Nat /\ yx[1] = y /\ yx[2] = x
      BY <2>1
    <3>2. yx \notin R
      BY <1>3
    <3> HIDE DEF yx
    <3> QED
      BY <1>2, <2>2, <3>1, <3>2
  <2> QED
    BY <2>1, <2>2
<1> QED
  BY <1>4

\* Induction over the numbers, for a set that holds what is proved.
LEMMA Induction ==
  ASSUME NEW S, 0 \in S, \A n \in Nat : n \in S => n + 1 \in S
  PROVE  Nat \subseteq S
<1> SUFFICES ASSUME ~ (Nat \subseteq S) PROVE FALSE
  OBVIOUS
<1> DEFINE T == {n \in Nat : n \notin S}
<1>1. T \subseteq Nat /\ T # {}
  OBVIOUS
<1> HIDE DEF T
<1>2. PICK n \in T : \A m \in T : n <= m
  BY <1>1, Least
<1>3. n \in Nat /\ n \notin S /\ n # 0
  BY DEF T
<1>4. n - 1 \in Nat /\ n - 1 \notin T
  BY <1>2, <1>3
<1>5. n - 1 \in S
  BY <1>4 DEF T
<1>6. (n - 1) + 1 \in S
  BY <1>4, <1>5
<1> QED
  BY <1>3, <1>6

\* The subsets of S with at most n elements.
Small(S, n) == {s \in SUBSET S : Cardinality(s) <= n}

\* What is left of a small set without one of its elements is smaller.
LEMMA SmallLess ==
  ASSUME NEW S, IsFiniteSet(S), NEW n \in Nat, NEW s \in Small(S, n + 1), NEW x \in s
  PROVE  s \ {x} \in Small(S, n)
<1>1. IsFiniteSet(s) /\ s \subseteq S
  BY FS_Subset DEF Small
<1>2. Cardinality(s \ {x}) = Cardinality(s) - 1 /\ Cardinality(s) \in Nat
  BY <1>1, FS_RemoveElement, FS_CardinalityType
<1> QED
  BY <1>1, <1>2 DEF Small

LEMMA SmallZero ==
  ASSUME NEW S, IsFiniteSet(S)
  PROVE  Small(S, 0) = {{}}
<1>1. ASSUME NEW s \in Small(S, 0) PROVE s = {}
  <2>1. IsFiniteSet(s) /\ Cardinality(s) \in Nat /\ Cardinality(s) <= 0
    BY FS_Subset, FS_CardinalityType DEF Small
  <2> QED
    BY <2>1, FS_EmptySet
<1>2. {} \in Small(S, 0)
  BY FS_EmptySet DEF Small
<1> QED
  BY <1>1, <1>2

LEMMA SmallAll ==
  ASSUME NEW S, IsFiniteSet(S)
  PROVE  Small(S, Cardinality(S)) = SUBSET S
  BY FS_Subset DEF Small

LEMMA SmallGrows ==
  ASSUME NEW S, IsFiniteSet(S), NEW n \in Nat
  PROVE  Small(S, n) \subseteq Small(S, n + 1)
<1> SUFFICES ASSUME NEW s \in Small(S, n) PROVE s \in Small(S, n + 1)
  OBVIOUS
<1>1. IsFiniteSet(s) /\ Cardinality(s) \in Nat
  BY FS_Subset, FS_CardinalityType DEF Small
<1> QED
  BY <1>1 DEF Small

\* Induction over the subsets of a finite set: the empty one, and one element more.
LEMMA SetInduction ==
  ASSUME NEW S, IsFiniteSet(S), NEW P, {} \in P,
         \A T \in SUBSET S : \A x \in S \ T : T \in P => T \cup {x} \in P
  PROVE  S \in P
<1> DEFINE N == {n \in Nat : Small(S, n) \subseteq P}
<1>1. 0 \in N
  BY SmallZero
<1>2. ASSUME NEW n \in Nat, n \in N PROVE n + 1 \in N
  <2> SUFFICES ASSUME NEW s \in Small(S, n + 1) PROVE s \in P
    OBVIOUS
  <2>1. CASE s = {}
    BY <2>1
  <2>2. ASSUME NEW x \in s PROVE s \in P
    <3>1. s \ {x} \in Small(S, n)
      BY SmallLess
    <3>2. s \ {x} \in P /\ s \ {x} \in SUBSET S /\ x \in S \ (s \ {x})
      BY <1>2, <3>1 DEF Small
    <3>3. (s \ {x}) \cup {x} = s
      OBVIOUS
    <3>4. (s \ {x}) \cup {x} \in P
      BY <3>2, Zenon
    <3> QED
      BY <3>3, <3>4
  <2> QED
    BY <2>1, <2>2
<1> HIDE DEF N
<1>3. Nat \subseteq N
  BY <1>1, <1>2, Induction
<1>4. Cardinality(S) \in N /\ S \in Small(S, Cardinality(S))
  BY <1>3, FS_CardinalityType, SmallAll
<1> QED
  BY <1>4 DEF N

\* The recursion a sum over S unfolds to, on a family of sets.
Iterates(g, f, D) ==
  g = [s \in D |-> IF s = {} THEN 0
                   ELSE f[CHOOSE x \in s : TRUE] + g[s \ {CHOOSE x \in s : TRUE}]]

\* There is such a recursion.
LEMMA IterationExists ==
  ASSUME NEW S, IsFiniteSet(S), NEW f
  PROVE  \E g : Iterates(g, f, SUBSET S)
<1> DEFINE N == {n \in Nat : \E g : Iterates(g, f, Small(S, n))}
<1>1. 0 \in N
  <2> DEFINE g == [s \in {{}} |-> 0]
  <2>1. Iterates(g, f, {{}})
    BY DEF Iterates
  <2> QED
    BY <2>1, SmallZero
<1>2. ASSUME NEW n \in Nat, n \in N PROVE n + 1 \in N
  <2>1. PICK g : Iterates(g, f, Small(S, n))
    BY <1>2
  <2> DEFINE F(s, k) == IF s = {} THEN 0
                        ELSE f[CHOOSE x \in s : TRUE] + k[s \ {CHOOSE x \in s : TRUE}]
             h == [s \in Small(S, n + 1) |-> F(s, g)]
  <2>2. ASSUME NEW s \in Small(S, n) PROVE h[s] = g[s]
    <3>1. s \in Small(S, n + 1)
      BY SmallGrows
    <3>2. g[s] = F(s, g)
      BY <2>1 DEF Iterates
    <3> QED
      BY <3>1, <3>2
  <2>3. ASSUME NEW s \in Small(S, n + 1) PROVE h[s] = F(s, h)
    <3>1. CASE s = {}
      BY <3>1
    <3>2. CASE s # {}
      <4>1. (CHOOSE x \in s : TRUE) \in s
        BY <3>2
      <4>2. s \ {CHOOSE x \in s : TRUE} \in Small(S, n)
        BY <4>1, SmallLess
      <4>3. h[s \ {CHOOSE x \in s : TRUE}] = g[s \ {CHOOSE x \in s : TRUE}]
        BY <2>2, <4>2
      <4> QED
        BY <3>2, <4>3
    <3> QED
      BY <3>1, <3>2
  <2>4. h = [s \in Small(S, n + 1) |-> F(s, h)]
    <3>1. h = [s \in Small(S, n + 1) |-> h[s]]
      OBVIOUS
    <3> HIDE DEF h, F
    <3> QED
      BY <2>3, <3>1, Zenon
  <2>5. Iterates(h, f, Small(S, n + 1))
    BY <2>4, Zenon DEF Iterates
  <2> HIDE DEF h
  <2> QED
    BY <2>5
<1> HIDE DEF N
<1>3. Nat \subseteq N
  BY <1>1, <1>2, Induction
<1>4. Cardinality(S) \in N
  BY <1>3, FS_CardinalityType
<1>5. \E g : Iterates(g, f, Small(S, Cardinality(S)))
  BY <1>4 DEF N
<1> QED
  BY <1>5, SmallAll

\* A sum is such a recursion's value.
LEMMA SumIterates ==
  ASSUME NEW S, IsFiniteSet(S), NEW f
  PROVE  \E g : Iterates(g, f, SUBSET S) /\ SumFunctionOnSet(f, S) = g[S]
<1> DEFINE iter == CHOOSE g : Iterates(g, f, SUBSET S)
<1>1. SumFunctionOnSet(f, S) = iter[S]
  BY DEF SumFunctionOnSet, FoldFunctionOnSet, MapThenFoldSet, Iterates
<1>2. Iterates(iter, f, SUBSET S)
  BY IterationExists, Zenon
<1> HIDE DEF iter
<1> QED
  BY <1>1, <1>2

\* Two recursions, over a set and over one of its subsets, agree where both are.
LEMMA IteratesAgree ==
  ASSUME NEW S, IsFiniteSet(S), NEW T \in SUBSET S, NEW f, NEW g, NEW h,
         Iterates(g, f, SUBSET S), Iterates(h, f, SUBSET T)
  PROVE  g[T] = h[T]
<1>0. IsFiniteSet(T)
  BY FS_Subset
<1> DEFINE N == {n \in Nat : \A s \in Small(T, n) : g[s] = h[s]}
<1>1. 0 \in N
  <2>1. g[{}] = 0 /\ h[{}] = 0
    BY DEF Iterates
  <2> QED
    BY <1>0, <2>1, SmallZero
<1>2. ASSUME NEW n \in Nat, n \in N PROVE n + 1 \in N
  <2> SUFFICES ASSUME NEW s \in Small(T, n + 1) PROVE g[s] = h[s]
    OBVIOUS
  <2>1. s \in SUBSET T /\ s \in SUBSET S
    BY DEF Small
  <2>2. CASE s = {}
    BY <2>1, <2>2 DEF Iterates
  <2>3. CASE s # {}
    <3> DEFINE x == CHOOSE x \in s : TRUE
    <3>1. x \in s
      BY <2>3
    <3>2. g[s] = f[x] + g[s \ {x}] /\ h[s] = f[x] + h[s \ {x}]
      BY <2>1, <2>3 DEF Iterates
    <3> HIDE DEF x
    <3>3. s \ {x} \in Small(T, n)
      BY <1>0, <3>1, SmallLess
    <3>4. g[s \ {x}] = h[s \ {x}]
      BY <1>2, <3>3
    <3> QED
      BY <3>2, <3>4
  <2> QED
    BY <2>2, <2>3
<1> HIDE DEF N
<1>3. Cardinality(T) \in N
  BY <1>0, <1>1, <1>2, Induction, FS_CardinalityType
<1> QED
  BY <1>0, <1>3, SmallAll DEF N

\* A sum over nothing, and over something: the chosen element and the rest.
LEMMA SumEmpty == ASSUME NEW f PROVE SumFunctionOnSet(f, {}) = 0
<1>1. IsFiniteSet({})
  BY FS_EmptySet
<1>2. PICK g : Iterates(g, f, SUBSET {}) /\ SumFunctionOnSet(f, {}) = g[{}]
  BY <1>1, SumIterates
<1> QED
  BY <1>2 DEF Iterates

LEMMA SumChosen ==
  ASSUME NEW S, IsFiniteSet(S), S # {}, NEW f
  PROVE  \E x \in S : SumFunctionOnSet(f, S) = f[x] + SumFunctionOnSet(f, S \ {x})
<1> DEFINE x == CHOOSE x \in S : TRUE
<1>1. x \in S
  OBVIOUS
<1>2. PICK g : Iterates(g, f, SUBSET S) /\ SumFunctionOnSet(f, S) = g[S]
  BY SumIterates
<1>3. g[S] = f[x] + g[S \ {x}]
  BY <1>2 DEF Iterates
<1> HIDE DEF x
<1>4. IsFiniteSet(S \ {x}) /\ S \ {x} \in SUBSET S
  BY FS_Subset
<1>5. PICK h : Iterates(h, f, SUBSET (S \ {x})) /\ SumFunctionOnSet(f, S \ {x}) = h[S \ {x}]
  BY <1>4, SumIterates
<1>6. g[S \ {x}] = h[S \ {x}]
  BY <1>2, <1>4, <1>5, IteratesAgree
<1> QED
  BY <1>1, <1>2, <1>3, <1>5, <1>6

\* A sum of whole numbers is one.
LEMMA SumInt ==
  ASSUME NEW S, IsFiniteSet(S), NEW f, \A x \in S : f[x] \in Int
  PROVE  SumFunctionOnSet(f, S) \in Int
<1> DEFINE N == {n \in Nat : \A s \in Small(S, n) : SumFunctionOnSet(f, s) \in Int}
<1>1. 0 \in N
  <2>1. SumFunctionOnSet(f, {}) \in Int
    BY SumEmpty
  <2>2. \A s \in {{}} : SumFunctionOnSet(f, s) \in Int
    BY <2>1, Zenon
  <2> QED
    BY <2>2, SmallZero
<1>2. ASSUME NEW n \in Nat, n \in N PROVE n + 1 \in N
  <2> SUFFICES ASSUME NEW s \in Small(S, n + 1) PROVE SumFunctionOnSet(f, s) \in Int
    OBVIOUS
  <2>1. CASE s = {}
    BY <2>1, SumEmpty
  <2>2. CASE s # {}
    <3>1. s \subseteq S /\ IsFiniteSet(s)
      BY FS_Subset DEF Small
    <3>2. PICK x \in s : SumFunctionOnSet(f, s) = f[x] + SumFunctionOnSet(f, s \ {x})
      BY <2>2, <3>1, SumChosen
    <3>3. SumFunctionOnSet(f, s \ {x}) \in Int /\ f[x] \in Int
      BY <1>2, <3>1, SmallLess
    <3> QED
      BY <3>2, <3>3
  <2> QED
    BY <2>1, <2>2
<1> HIDE DEF N
<1>3. Cardinality(S) \in N
  BY <1>1, <1>2, Induction, FS_CardinalityType
<1> QED
  BY <1>3, SmallAll DEF N

\* Any element may be the one taken first.
LEMMA SumWithout ==
  ASSUME NEW S, IsFiniteSet(S), NEW f, \A x \in S : f[x] \in Int, NEW y \in S
  PROVE  SumFunctionOnSet(f, S) = f[y] + SumFunctionOnSet(f, S \ {y})
<1> DEFINE Sum(s) == SumFunctionOnSet(f, s)
           N == {n \in Nat : \A s \in Small(S, n) : \A z \in s : Sum(s) = f[z] + Sum(s \ {z})}
<1>0. ASSUME NEW s \in SUBSET S PROVE IsFiniteSet(s) /\ Sum(s) \in Int
  BY SumInt, FS_Subset
<1>1. 0 \in N
  BY SmallZero
<1>2. ASSUME NEW n \in Nat, n \in N PROVE n + 1 \in N
  <2> SUFFICES ASSUME NEW s \in Small(S, n + 1), NEW z \in s PROVE Sum(s) = f[z] + Sum(s \ {z})
    OBVIOUS
  <2>1. s \in SUBSET S /\ s # {} /\ IsFiniteSet(s)
    BY <1>0 DEF Small
  <2>2. PICK x \in s : Sum(s) = f[x] + Sum(s \ {x})
    BY <2>1, SumChosen
  <2> HIDE DEF Sum
  <2>3. CASE x = z
    BY <2>2, <2>3
  <2>4. CASE x # z
    <3>1. s \ {x} \in Small(S, n) /\ s \ {z} \in Small(S, n)
      BY SmallLess
    <3>2. z \in s \ {x} /\ x \in s \ {z}
      BY <2>4
    <3>3. Sum(s \ {x}) = f[z] + Sum((s \ {x}) \ {z}) /\ Sum(s \ {z}) = f[x] + Sum((s \ {z}) \ {x})
      BY <1>2, <3>1, <3>2
    <3>4. (s \ {x}) \ {z} = (s \ {z}) \ {x} /\ (s \ {x}) \ {z} \in SUBSET S
      BY <2>1
    <3>5. PICK left \in Int : left = Sum((s \ {x}) \ {z})
      BY <1>0, <3>4
    <3>6. left = Sum((s \ {z}) \ {x})
      BY <3>4, <3>5, Zenon
    <3>7. f[x] \in Int /\ f[z] \in Int
      BY <2>1
    <3>8. Sum(s) = f[x] + (f[z] + left) /\ Sum(s \ {z}) = f[x] + left
      BY <2>2, <3>3, <3>5, <3>6, Zenon
    <3> QED
      BY <3>5, <3>7, <3>8
  <2> QED
    BY <2>3, <2>4
<1> HIDE DEF N
<1>3. Cardinality(S) \in N
  BY <1>1, <1>2, Induction, FS_CardinalityType
<1>4. S \in Small(S, Cardinality(S))
  BY SmallAll
<1> QED
  BY <1>3, <1>4 DEF N

\* One element more adds its term.
LEMMA SumAdd ==
  ASSUME NEW S, IsFiniteSet(S), NEW f, NEW y, y \notin S, \A x \in S : f[x] \in Int, f[y] \in Int
  PROVE  SumFunctionOnSet(f, S \cup {y}) = f[y] + SumFunctionOnSet(f, S)
<1>1. IsFiniteSet(S \cup {y})
  BY FS_AddElement
<1>2. (S \cup {y}) \ {y} = S
  OBVIOUS
<1>3. \A x \in S \cup {y} : f[x] \in Int
  OBVIOUS
<1> QED
  BY <1>1, <1>2, <1>3, SumWithout

\* Larger terms, a larger sum; and equal terms, an equal one.
LEMMA SumMonotone ==
  ASSUME NEW S, IsFiniteSet(S), NEW f, NEW g,
         \A x \in S : f[x] \in Int /\ g[x] \in Int /\ f[x] <= g[x]
  PROVE  SumFunctionOnSet(f, S) <= SumFunctionOnSet(g, S)
<1> DEFINE Low(T) == SumFunctionOnSet(f, T)
           High(T) == SumFunctionOnSet(g, T)
           P == {T \in SUBSET S : Low(T) <= High(T)}
<1>1. {} \in P
  <2>1. Low({}) = 0 /\ High({}) = 0
    BY SumEmpty
  <2> QED
    BY <2>1
<1>2. ASSUME NEW T \in SUBSET S, NEW x \in S \ T, T \in P PROVE T \cup {x} \in P
  <2>1. IsFiniteSet(T) /\ Low(T) \in Int /\ High(T) \in Int
    BY FS_Subset, SumInt
  <2>2. Low(T \cup {x}) = f[x] + Low(T) /\ High(T \cup {x}) = g[x] + High(T)
    BY <2>1, SumAdd
  <2> HIDE DEF Low, High
  <2> QED
    BY <1>2, <2>1, <2>2
<1> HIDE DEF P
<1>3. S \in P
  BY <1>1, <1>2, SetInduction
<1> QED
  BY <1>3 DEF P

LEMMA SumAgree ==
  ASSUME NEW S, IsFiniteSet(S), NEW f, NEW g, \A x \in S : f[x] \in Int /\ f[x] = g[x]
  PROVE  SumFunctionOnSet(f, S) = SumFunctionOnSet(g, S)
<1>1. \A x \in S : f[x] \in Int /\ g[x] \in Int /\ f[x] <= g[x] /\ g[x] <= f[x]
  OBVIOUS
<1>2. SumFunctionOnSet(f, S) \in Int /\ SumFunctionOnSet(g, S) \in Int
  BY <1>1, SumInt
<1>3. SumFunctionOnSet(f, S) <= SumFunctionOnSet(g, S)
  BY <1>1, SumMonotone
<1>4. SumFunctionOnSet(g, S) <= SumFunctionOnSet(f, S)
  BY <1>1, SumMonotone
<1> QED
  BY <1>2, <1>3, <1>4

\* A sum of sums, term by term.
LEMMA SumPlus ==
  ASSUME NEW S, IsFiniteSet(S), NEW f, NEW g, NEW h,
         \A x \in S : f[x] \in Int /\ g[x] \in Int /\ h[x] = f[x] + g[x]
  PROVE  SumFunctionOnSet(h, S) = SumFunctionOnSet(f, S) + SumFunctionOnSet(g, S)
<1> DEFINE F(T) == SumFunctionOnSet(f, T)
           G(T) == SumFunctionOnSet(g, T)
           H(T) == SumFunctionOnSet(h, T)
           P == {T \in SUBSET S : H(T) = F(T) + G(T)}
<1>0. \A x \in S : h[x] \in Int
  OBVIOUS
<1>1. {} \in P
  <2>1. F({}) = 0 /\ G({}) = 0 /\ H({}) = 0
    BY SumEmpty
  <2> QED
    BY <2>1
<1>2. ASSUME NEW T \in SUBSET S, NEW x \in S \ T, T \in P PROVE T \cup {x} \in P
  <2>1. IsFiniteSet(T) /\ F(T) \in Int /\ G(T) \in Int
    BY FS_Subset, SumInt
  <2>2. F(T \cup {x}) = f[x] + F(T) /\ G(T \cup {x}) = g[x] + G(T)
    BY <2>1, SumAdd
  <2>3. H(T \cup {x}) = h[x] + H(T)
    BY <1>0, <2>1, SumAdd
  <2> HIDE DEF F, G, H
  <2> QED
    BY <1>2, <2>1, <2>2, <2>3
<1> HIDE DEF P
<1>3. S \in P
  BY <1>1, <1>2, SetInduction
<1> QED
  BY <1>3 DEF P

\* A sum over two sets that share nothing.
LEMMA SumUnion ==
  ASSUME NEW S, IsFiniteSet(S), NEW R, IsFiniteSet(R), S \cap R = {}, NEW f,
         \A x \in S \cup R : f[x] \in Int
  PROVE  SumFunctionOnSet(f, S \cup R) = SumFunctionOnSet(f, S) + SumFunctionOnSet(f, R)
<1> DEFINE F(T) == SumFunctionOnSet(f, T)
           P == {T \in SUBSET S : F(T \cup R) = F(T) + F(R)}
<1>0. F(R) \in Int
  BY SumInt
<1>1. {} \in P
  <2>1. F({}) = 0 /\ {} \cup R = R
    BY SumEmpty
  <2>2. F({} \cup R) = F(R)
    BY <2>1, Zenon
  <2> HIDE DEF F
  <2> QED
    BY <1>0, <2>1, <2>2
<1>2. ASSUME NEW T \in SUBSET S, NEW x \in S \ T, T \in P PROVE T \cup {x} \in P
  <2>1. IsFiniteSet(T) /\ F(T) \in Int
    BY FS_Subset, SumInt
  <2>2. F(T \cup {x}) = f[x] + F(T)
    BY <2>1, SumAdd
  <2>3. IsFiniteSet(T \cup R) /\ x \notin T \cup R
    BY <2>1, FS_Union
  <2>4. F((T \cup R) \cup {x}) = f[x] + F(T \cup R)
    BY <2>3, SumAdd
  <2>5. (T \cup R) \cup {x} = (T \cup {x}) \cup R
    OBVIOUS
  <2>6. F((T \cup {x}) \cup R) = f[x] + F(T \cup R) /\ f[x] \in Int
    BY <2>4, <2>5
  <2> HIDE DEF F
  <2> QED
    BY <1>0, <1>2, <2>1, <2>2, <2>6
<1> HIDE DEF P
<1>3. S \in P
  BY <1>1, <1>2, SetInduction
<1> QED
  BY <1>3 DEF P

\* Nothing but zeros, and nothing but ones.
LEMMA SumZeros ==
  ASSUME NEW S, IsFiniteSet(S), NEW f, \A x \in S : f[x] = 0
  PROVE  SumFunctionOnSet(f, S) = 0
<1> DEFINE F(T) == SumFunctionOnSet(f, T)
           P == {T \in SUBSET S : F(T) = 0}
<1>0. \A x \in S : f[x] \in Int
  OBVIOUS
<1>1. {} \in P
  BY SumEmpty
<1>2. ASSUME NEW T \in SUBSET S, NEW x \in S \ T, T \in P PROVE T \cup {x} \in P
  <2>1. IsFiniteSet(T)
    BY FS_Subset
  <2>2. F(T \cup {x}) = f[x] + F(T)
    BY <1>0, <2>1, SumAdd
  <2> HIDE DEF F
  <2> QED
    BY <1>2, <2>2
<1> HIDE DEF P
<1>3. S \in P
  BY <1>1, <1>2, SetInduction
<1> QED
  BY <1>3 DEF P

LEMMA SumOnes ==
  ASSUME NEW S, IsFiniteSet(S), NEW f, \A x \in S : f[x] = 1
  PROVE  SumFunctionOnSet(f, S) = Cardinality(S)
<1> DEFINE F(T) == SumFunctionOnSet(f, T)
           P == {T \in SUBSET S : F(T) = Cardinality(T)}
<1>0. \A x \in S : f[x] \in Int
  OBVIOUS
<1>1. {} \in P
  BY SumEmpty, FS_EmptySet
<1>2. ASSUME NEW T \in SUBSET S, NEW x \in S \ T, T \in P PROVE T \cup {x} \in P
  <2>1. IsFiniteSet(T)
    BY FS_Subset
  <2>2. F(T \cup {x}) = f[x] + F(T)
    BY <1>0, <2>1, SumAdd
  <2>3. Cardinality(T \cup {x}) = Cardinality(T) + 1 /\ Cardinality(T) \in Nat
    BY <2>1, FS_AddElement, FS_CardinalityType
  <2> HIDE DEF F
  <2> QED
    BY <1>2, <2>2, <2>3
<1> HIDE DEF P
<1>3. S \in P
  BY <1>1, <1>2, SetInduction
<1> QED
  BY <1>3 DEF P

\* A sum that only one term of changes.
LEMMA SumChange ==
  ASSUME NEW S, IsFiniteSet(S), NEW f, NEW g, NEW y \in S,
         \A x \in S : f[x] \in Int /\ g[x] \in Int, \A x \in S \ {y} : f[x] = g[x]
  PROVE  SumFunctionOnSet(g, S) - SumFunctionOnSet(f, S) = g[y] - f[y]
<1>1. IsFiniteSet(S \ {y})
  BY FS_Subset
<1>2. SumFunctionOnSet(f, S) = f[y] + SumFunctionOnSet(f, S \ {y})
  BY SumWithout
<1>3. SumFunctionOnSet(g, S) = g[y] + SumFunctionOnSet(g, S \ {y})
  BY SumWithout
<1>4. SumFunctionOnSet(f, S \ {y}) = SumFunctionOnSet(g, S \ {y})
  BY <1>1, SumAgree
<1>5. SumFunctionOnSet(f, S \ {y}) \in Int
  BY <1>1, SumInt
<1>6. PICK rest \in Int : rest = SumFunctionOnSet(f, S \ {y})
  BY <1>5
<1>7. f[y] \in Int /\ g[y] \in Int
  OBVIOUS
<1>8. SumFunctionOnSet(f, S) = f[y] + rest /\ SumFunctionOnSet(g, S) = g[y] + rest
  BY <1>2, <1>3, <1>4, <1>6
<1> QED
  BY <1>6, <1>7, <1>8

\* The elements by a key of theirs: the sum of the keys' sums is the whole.
LEMMA SumByKey ==
  ASSUME NEW S, IsFiniteSet(S), NEW f, \A x \in S : f[x] \in Int,
         NEW D, IsFiniteSet(D), NEW key, \A x \in S : key[x] \in D
  PROVE  SumFunctionOnSet([d \in D |-> SumFunctionOnSet(f, {x \in S : key[x] = d})], D)
           = SumFunctionOnSet(f, S)
<1> DEFINE F(T) == SumFunctionOnSet(f, T)
           Of(E) == {x \in S : key[x] \in E}
           One(d) == {x \in S : key[x] = d}
           by == [d \in D |-> F(One(d))]
           P == {E \in SUBSET D : SumFunctionOnSet(by, E) = F(Of(E))}
<1>0. \A T \in SUBSET S : IsFiniteSet(T) /\ F(T) \in Int
  BY FS_Subset, SumInt
<1>1. {} \in P
  <2>1. SumFunctionOnSet(by, {}) = 0 /\ F({}) = 0 /\ Of({}) = {}
    BY SumEmpty
  <2>2. F(Of({})) = 0
    BY <2>1, Zenon
  <2> HIDE DEF F, Of, by
  <2> QED
    BY <2>1, <2>2
<1>2. ASSUME NEW E \in SUBSET D, NEW d \in D \ E, E \in P PROVE E \cup {d} \in P
  <2>1. IsFiniteSet(E)
    BY FS_Subset
  <2>2. \A e \in D : by[e] \in Int
    BY <1>0
  <2>3. SumFunctionOnSet(by, E \cup {d}) = by[d] + SumFunctionOnSet(by, E)
    BY <2>1, <2>2, SumAdd
  <2>4. Of(E \cup {d}) = One(d) \cup Of(E) /\ One(d) \cap Of(E) = {}
        /\ One(d) \in SUBSET S /\ Of(E) \in SUBSET S
    OBVIOUS
  <2>5. by[d] = F(One(d))
    OBVIOUS
  <2>6. F(One(d) \cup Of(E)) = F(One(d)) + F(Of(E))
    <3> HIDE DEF One, Of
    <3> QED
      BY <1>0, <2>4, SumUnion
  <2>7. F(Of(E \cup {d})) = F(One(d)) + F(Of(E))
    BY <2>4, <2>6, Zenon
  <2>8. SumFunctionOnSet(by, E) = F(Of(E))
    BY <1>2
  <2> HIDE DEF F, Of, One, by
  <2> QED
    BY <2>3, <2>5, <2>7, <2>8
<1>3. D \in P
  <2> HIDE DEF P
  <2> QED
    BY <1>1, <1>2, SetInduction
<1>4. Of(D) = S
  OBVIOUS
<1>5. SumFunctionOnSet(by, D) = F(Of(D))
  BY <1>3
<1> QED
  BY <1>4, <1>5, Zenon

\* A sum of natural numbers is one.
LEMMA SumNat ==
  ASSUME NEW T, IsFiniteSet(T), NEW f, \A x \in T : f[x] \in Nat
  PROVE  SumFunctionOnSet(f, T) \in Nat
<1> DEFINE zero == [x \in T |-> 0]
<1>1. \A x \in T : zero[x] = 0 /\ zero[x] \in Int /\ f[x] \in Int /\ zero[x] <= f[x]
  OBVIOUS
<1> HIDE DEF zero
<1>2. SumFunctionOnSet(zero, T) = 0
  BY <1>1, SumZeros
<1>3. SumFunctionOnSet(zero, T) <= SumFunctionOnSet(f, T)
  BY <1>1, SumMonotone
<1>4. SumFunctionOnSet(f, T) \in Int
  BY <1>1, SumInt
<1> QED
  BY <1>2, <1>3, <1>4

\* Induction over the numbers up to one.
LEMMA UpTo ==
  ASSUME NEW n \in Nat, NEW S, 0 \in S, \A k \in 0..(n - 1) : k \in S => k + 1 \in S
  PROVE  0..n \subseteq S
<1> DEFINE T == {k \in Nat : k <= n => k \in S}
<1>1. 0 \in T
  OBVIOUS
<1>2. ASSUME NEW k \in Nat, k \in T PROVE k + 1 \in T
  <2> SUFFICES ASSUME k + 1 <= n PROVE k + 1 \in S
    OBVIOUS
  <2>1. k \in 0..(n - 1) /\ k \in S
    BY <1>2
  <2> QED
    BY <2>1
<1> HIDE DEF T
<1>3. Nat \subseteq T
  BY <1>1, <1>2, Induction
<1> QED
  BY <1>3 DEF T

\* A set of whole numbers with a lower bound has a least one.
LEMMA LeastInt ==
  ASSUME NEW T, T \subseteq Int, T # {}, NEW b \in Int, \A t \in T : b <= t
  PROVE  \E n \in T : \A m \in T : n <= m
<1> DEFINE D == {d \in Nat : b + d \in T}
<1>1. PICK t \in T : TRUE
  OBVIOUS
<1>2. t - b \in D
  BY <1>1
<1>3. D \subseteq Nat /\ D # {}
  BY <1>2
<1> HIDE DEF D
<1>4. PICK d \in D : \A e \in D : d <= e
  BY <1>3, Least
<1>5. ASSUME NEW m \in T PROVE b + d <= m
  <2>1. m - b \in D
    BY DEF D
  <2> QED
    BY <1>3, <1>4, <2>1
<1> QED
  BY <1>4, <1>5 DEF D

\* The same from above.
LEMMA Greatest ==
  ASSUME NEW T, T \subseteq Int, T # {}, NEW b \in Int, \A t \in T : t <= b
  PROVE  \E n \in T : \A m \in T : m <= n
<1> DEFINE D == {d \in Nat : b - d \in T}
<1>1. PICK t \in T : TRUE
  OBVIOUS
<1>2. b - t \in D
  BY <1>1
<1>3. D \subseteq Nat /\ D # {}
  BY <1>2
<1> HIDE DEF D
<1>4. PICK d \in D : \A e \in D : d <= e
  BY <1>3, Least
<1>5. ASSUME NEW m \in T PROVE m <= b - d
  <2>1. b - m \in D
    BY DEF D
  <2> QED
    BY <1>3, <1>4, <2>1
<1> QED
  BY <1>4, <1>5 DEF D

\* The greatest of some of the numbers 1..n.
LEMMA MaxOf ==
  ASSUME NEW n \in Nat, NEW s \in SUBSET (1..n), s # {}
  PROVE  Max(s) \in s /\ \A k \in s : k <= Max(s)
<1>1. \E m \in s : \A k \in s : m >= k
  <2>1. n \in Int /\ s \subseteq Int /\ s # {} /\ \A t \in s : t <= n
    OBVIOUS
  <2>2. PICK m \in s : \A k \in s : k <= m
    BY <2>1, Greatest
  <2> QED
    BY <2>1, <2>2
<1>2. Max(s) \in s /\ \A k \in s : Max(s) >= k
  BY <1>1 DEF Max
<1> QED
  BY <1>2

\* The recursion a fold of the positions 1..n unfolds to, on a family of sets.
FoldIterates(g, G, b, D) ==
  g = [s \in D |-> IF s = {} THEN b ELSE G[<<g[s \ {Max(s)}], Max(s)>>]]

\* There is such a recursion, within the values of the folded function.
LEMMA FoldExists ==
  ASSUME NEW n \in Nat, NEW V, NEW b \in V, NEW G \in [V \X (1..n) -> V]
  PROVE  \E g \in [SUBSET (1..n) -> V] : FoldIterates(g, G, b, SUBSET (1..n))
<1> DEFINE S == 1..n
           I(m) == \E g \in [Small(S, m) -> V] : FoldIterates(g, G, b, Small(S, m))
           N == {m \in Nat : I(m)}
<1>0. IsFiniteSet(S)
  BY FS_Interval
<1>1. 0 \in N
  <2> DEFINE g == [s \in {{}} |-> b]
  <2>1. FoldIterates(g, G, b, {{}}) /\ g \in [{{}} -> V]
    BY DEF FoldIterates
  <2> HIDE DEF g, S
  <2>2. \E h \in [Small(S, 0) -> V] : FoldIterates(h, G, b, Small(S, 0))
    BY <1>0, <2>1, SmallZero
  <2> QED
    BY <2>2
<1>2. ASSUME NEW m \in Nat, m \in N PROVE m + 1 \in N
  <2>1. PICK g \in [Small(S, m) -> V] : FoldIterates(g, G, b, Small(S, m))
    BY <1>2
  <2> DEFINE F(s, k) == IF s = {} THEN b ELSE G[<<k[s \ {Max(s)}], Max(s)>>]
             h == [s \in Small(S, m + 1) |-> F(s, g)]
  <2>2. ASSUME NEW s \in Small(S, m) PROVE h[s] = g[s]
    <3>1. s \in Small(S, m + 1)
      BY <1>0, SmallGrows
    <3>2. g[s] = F(s, g)
      BY <2>1 DEF FoldIterates
    <3> QED
      BY <3>1, <3>2
  <2>3. ASSUME NEW s \in Small(S, m + 1), s # {} PROVE Max(s) \in S /\ s \ {Max(s)} \in Small(S, m)
    <3>1. s \in SUBSET (1..n)
      BY DEF Small
    <3>2. Max(s) \in s
      BY <2>3, <3>1, MaxOf
    <3> QED
      BY <1>0, <3>1, <3>2, SmallLess
  <2>4. ASSUME NEW s \in Small(S, m + 1) PROVE h[s] = F(s, h)
    <3>1. CASE s = {}
      BY <3>1
    <3>2. CASE s # {}
      <4>1. h[s \ {Max(s)}] = g[s \ {Max(s)}]
        BY <2>2, <2>3, <3>2
      <4> QED
        BY <3>2, <4>1
    <3> QED
      BY <3>1, <3>2
  <2>5. h = [s \in Small(S, m + 1) |-> F(s, h)]
    <3>1. h = [s \in Small(S, m + 1) |-> h[s]]
      OBVIOUS
    <3> HIDE DEF h, F
    <3> QED
      BY <2>4, <3>1, Zenon
  <2>6. FoldIterates(h, G, b, Small(S, m + 1))
    BY <2>5, Zenon DEF FoldIterates
  <2>7. h \in [Small(S, m + 1) -> V]
    <3>1. ASSUME NEW s \in Small(S, m + 1) PROVE F(s, g) \in V
      <4>1. CASE s = {}
        BY <4>1
      <4>2. CASE s # {}
        <5>1. Max(s) \in S /\ g[s \ {Max(s)}] \in V
          BY <2>1, <2>3, <4>2
        <5> DEFINE p == <<g[s \ {Max(s)}], Max(s)>>
        <5>2. p \in V \X (1..n)
          BY <5>1
        <5>3. G[p] \in V
          <6> HIDE DEF p
          <6> QED
            BY <5>2
        <5> QED
          BY <4>2, <5>3
      <4> QED
        BY <4>1, <4>2
    <3> HIDE DEF F
    <3> QED
      BY <3>1
  <2> HIDE DEF h, S
  <2> QED
    BY <2>6, <2>7
<1> HIDE DEF N
<1>3. Nat \subseteq N
  BY <1>1, <1>2, Induction
<1>4. Cardinality(S) \in N
  BY <1>0, <1>3, FS_CardinalityType
<1>5. \E g \in [Small(S, Cardinality(S)) -> V] : FoldIterates(g, G, b, Small(S, Cardinality(S)))
  BY <1>4 DEF N
<1> HIDE DEF S
<1>6. Small(S, Cardinality(S)) = SUBSET S
  BY <1>0, SmallAll
<1> QED
  BY <1>5, <1>6 DEF S

\* A function on the sets of positions that unfolds to G wherever it has a value of V.
Unfolds(it, G, b, V, n) ==
  /\ it[{}] = b
  /\ \A s \in SUBSET (1..n) : s # {} /\ it[s \ {Max(s)}] \in V =>
        it[s] = G[<<it[s \ {Max(s)}], Max(s)>>]

\* What a fold has after each position, and at the last one.
Folded(r, G, b, V, n) ==
  \E h \in [0..n -> V] :
     /\ h[0] = b
     /\ \A k \in 1..n : h[k] = G[<<h[k - 1], k>>]
     /\ h[n] = r

\* A fold takes those steps, given how its recursion unfolds.
LEMMA FoldSteps ==
  ASSUME NEW n \in Nat, NEW V, NEW b \in V, NEW G \in [V \X (1..n) -> V], NEW it,
         Unfolds(it, G, b, V, n)
  PROVE  Folded(it[1..n], G, b, V, n)
<1> DEFINE h == [k \in 0..n |-> it[1..k]]
           T == {k \in 0..n : it[1..k] \in V}
<1>1. 1..0 = {} /\ h[0] = b
  BY DEF Unfolds
<1>2. 0 \in T
  BY <1>1
<1>3. ASSUME NEW k \in 1..n, it[1..(k - 1)] \in V
      PROVE  it[1..k] = G[<<it[1..(k - 1)], k>>]
  <2>1. 1..k \in SUBSET (1..n) /\ 1..k # {} /\ k \in 1..k
    OBVIOUS
  <2>2. Max(1..k) \in 1..k /\ \A j \in 1..k : j <= Max(1..k)
    BY <2>1, MaxOf
  <2>3. Max(1..k) = k
    BY <2>1, <2>2
  <2>4. (1..k) \ {Max(1..k)} = 1..(k - 1)
    BY <2>3
  <2> QED
    BY <1>3, <2>1, <2>3, <2>4 DEF Unfolds
<1>4. ASSUME NEW v \in V, NEW k \in 1..n PROVE G[<<v, k>>] \in V
  <2> DEFINE p == <<v, k>>
  <2>1. p \in V \X (1..n)
    OBVIOUS
  <2> HIDE DEF p
  <2>2. G[p] \in V
    BY <2>1
  <2> QED
    BY <2>2 DEF p
<1>5. ASSUME NEW k \in 0..(n - 1), k \in T PROVE k + 1 \in T
  <2>1. k + 1 \in 1..n /\ (k + 1) - 1 = k /\ it[1..k] \in V
    BY <1>5
  <2>2. it[1..(k + 1)] = G[<<it[1..k], k + 1>>]
    BY <1>3, <2>1
  <2> QED
    BY <1>4, <2>1, <2>2
<1>6. 0..n \subseteq T
  <2> HIDE DEF T
  <2> QED
    BY <1>2, <1>5, UpTo
<1>7. h \in [0..n -> V]
  BY <1>6
<1>8. ASSUME NEW k \in 1..n PROVE h[k] = G[<<h[k - 1], k>>]
  <2>1. k - 1 \in 0..n /\ k \in 0..n
    OBVIOUS
  <2>2. h[k - 1] = it[1..(k - 1)] /\ h[k] = it[1..k] /\ it[1..(k - 1)] \in V
    BY <1>6, <2>1
  <2> QED
    BY <1>3, <2>2
<1>9. h[n] = it[1..n]
  OBVIOUS
<1> HIDE DEF h
<1> QED
  BY <1>1, <1>7, <1>8, <1>9 DEF Folded

\* Counting what comes before each of 1..n numbers them from 0 on, one by one.
LEMMA Ranks ==
  ASSUME NEW n \in Nat, NEW R,
         \A i \in 1..n : <<i, i>> \notin R,
         \A i, j \in 1..n : i # j => <<i, j>> \in R \/ <<j, i>> \in R,
         \A i, j, k \in 1..n : <<i, j>> \in R /\ <<j, k>> \in R => <<i, k>> \in R
  PROVE  \E before \in [1..n -> 0..(n - 1)] :
            /\ \A i \in 1..n : before[i] = Cardinality({j \in 1..n : <<j, i>> \in R})
            /\ \A i, j \in 1..n : <<i, j>> \in R <=> before[i] < before[j]
            /\ \A i, j \in 1..n : before[i] = before[j] => i = j
            /\ \A k \in 0..(n - 1) : \E i \in 1..n : before[i] = k
<1> DEFINE S == 1..n
           P(i) == {j \in 1..n : <<j, i>> \in R}
           before == [i \in 1..n |-> Cardinality(P(i))]
<1>0. IsFiniteSet(S) /\ Cardinality(S) = n
  BY FS_Interval
<1>1. ASSUME NEW i \in S PROVE IsFiniteSet(P(i)) /\ Cardinality(P(i)) \in Nat
                               /\ Cardinality(P(i)) < n
  <2>1. P(i) \subseteq S \ {i}
    OBVIOUS
  <2>2. IsFiniteSet(S \ {i}) /\ Cardinality(S \ {i}) = n - 1
    BY <1>0, FS_RemoveElement
  <2> HIDE DEF P, S
  <2>3. IsFiniteSet(P(i)) /\ Cardinality(P(i)) <= Cardinality(S \ {i})
    BY <2>1, <2>2, FS_Subset
  <2> QED
    BY <2>2, <2>3, FS_CardinalityType
<1>2. before \in [1..n -> 0..(n - 1)]
  <2>1. ASSUME NEW i \in 1..n PROVE Cardinality(P(i)) \in 0..(n - 1)
    <3>1. i \in S
      OBVIOUS
    <3> HIDE DEF P, S
    <3> QED
      BY <1>1, <3>1
  <2> HIDE DEF P
  <2> QED
    BY <2>1
<1>3. ASSUME NEW i \in 1..n, NEW j \in 1..n, <<i, j>> \in R PROVE before[i] < before[j]
  <2>1. P(i) \cup {i} \subseteq P(j) /\ i \notin P(i)
    BY <1>3
  <2>2. IsFiniteSet(P(i)) /\ Cardinality(P(i)) \in Nat
    BY <1>1
  <2>3. IsFiniteSet(P(j)) /\ Cardinality(P(j)) \in Nat
    BY <1>1
  <2>4. before[i] = Cardinality(P(i)) /\ before[j] = Cardinality(P(j))
    OBVIOUS
  <2> HIDE DEF P, before
  <2>5. Cardinality(P(i) \cup {i}) = Cardinality(P(i)) + 1
    BY <2>1, <2>2, FS_AddElement
  <2>6. Cardinality(P(i) \cup {i}) <= Cardinality(P(j))
    BY <2>1, <2>3, FS_Subset
  <2> QED
    BY <2>2, <2>3, <2>4, <2>5, <2>6
<1>4. ASSUME NEW i \in 1..n PROVE before[i] = Cardinality({j \in 1..n : <<j, i>> \in R})
  OBVIOUS
<1> HIDE DEF before
<1>5. \A i, j \in 1..n : <<i, j>> \in R <=> before[i] < before[j]
  <2> SUFFICES ASSUME NEW i \in 1..n, NEW j \in 1..n, before[i] < before[j] PROVE <<i, j>> \in R
    BY <1>3
  <2>1. before[i] \in Int /\ before[j] \in Int
    BY <1>2
  <2>2. <<j, i>> \notin R
    BY <1>3, <2>1
  <2>3. i # j
    BY <2>1
  <2> QED
    BY <2>2, <2>3
<1>6. \A i, j \in 1..n : before[i] = before[j] => i = j
  <2> SUFFICES ASSUME NEW i \in 1..n, NEW j \in 1..n, before[i] = before[j], i # j PROVE FALSE
    OBVIOUS
  <2>1. before[i] \in Int /\ before[j] \in Int
    BY <1>2
  <2>2. CASE <<i, j>> \in R
    BY <1>3, <2>1, <2>2
  <2>3. CASE <<j, i>> \in R
    BY <1>3, <2>1, <2>3
  <2> QED
    BY <2>2, <2>3
<1>7. \A k \in 0..(n - 1) : \E i \in 1..n : before[i] = k
  <2> DEFINE Z == 0..(n - 1)
  <2>1. before \in Injection(S, Z)
    BY <1>2, <1>6 DEF Injection, IsInjective
  <2>2. IsFiniteSet(Z) /\ Cardinality(Z) = n
    BY FS_Interval
  <2>3. before \in Surjection(S, Z)
    <3> HIDE DEF S, Z
    <3> QED
      BY <1>0, <2>1, <2>2, FS_Injection
  <2> QED
    BY <2>3 DEF Surjection
<1> QED
  BY <1>2, <1>4, <1>5, <1>6, <1>7

\* The sums of a function and of its opposite.
LEMMA SumNegate ==
  ASSUME NEW S, IsFiniteSet(S), NEW f, NEW g, \A x \in S : f[x] \in Int /\ g[x] = -f[x]
  PROVE  SumFunctionOnSet(g, S) = -SumFunctionOnSet(f, S)
<1> DEFINE zero == [x \in S |-> 0]
<1>1. \A x \in S : f[x] \in Int /\ g[x] \in Int /\ zero[x] = f[x] + g[x] /\ zero[x] = 0
  OBVIOUS
<1> HIDE DEF zero
<1>2. SumFunctionOnSet(zero, S) = SumFunctionOnSet(f, S) + SumFunctionOnSet(g, S)
  BY <1>1, SumPlus
<1>3. SumFunctionOnSet(zero, S) = 0
  BY <1>1, SumZeros
<1>4. SumFunctionOnSet(f, S) \in Int /\ SumFunctionOnSet(g, S) \in Int
  BY <1>1, SumInt
<1> QED
  BY <1>2, <1>3, <1>4

\* A sum of numbers with a bound.
LEMMA SumAtMost ==
  ASSUME NEW S, IsFiniteSet(S), NEW c \in Int, NEW f, \A x \in S : f[x] \in Int /\ f[x] <= c
  PROVE  SumFunctionOnSet(f, S) <= c * Cardinality(S)
<1> DEFINE F(T) == SumFunctionOnSet(f, T)
           P == {T \in SUBSET S : F(T) <= c * Cardinality(T)}
<1>1. {} \in P
  <2>1. F({}) = 0 /\ Cardinality({}) = 0
    BY SumEmpty, FS_EmptySet
  <2> HIDE DEF F
  <2> QED
    BY <2>1
<1>2. ASSUME NEW T \in SUBSET S, NEW y \in S \ T, T \in P PROVE T \cup {y} \in P
  <2>1. IsFiniteSet(T) /\ \A x \in T : f[x] \in Int
    BY FS_Subset
  <2>2. F(T \cup {y}) = f[y] + F(T)
    BY <2>1, SumAdd
  <2>3. Cardinality(T \cup {y}) = Cardinality(T) + 1 /\ Cardinality(T) \in Nat
    BY <2>1, FS_AddElement, FS_CardinalityType
  <2>4. F(T) \in Int
    BY <2>1, SumInt
  <2>5. F(T) <= c * Cardinality(T) /\ f[y] \in Int /\ f[y] <= c
    BY <1>2
  <2> HIDE DEF F
  <2> DEFINE n == Cardinality(T)
  <2>6. c * (n + 1) = c * n + c
    BY <2>3
  <2>7. c * n \in Int
    BY <2>3
  <2>8. F(T \cup {y}) <= c * Cardinality(T \cup {y})
    BY <2>2, <2>3, <2>4, <2>5, <2>6, <2>7
  <2> QED
    BY <2>8
<1> HIDE DEF P
<1>3. S \in P
  BY <1>1, <1>2, SetInduction
<1> QED
  BY <1>3 DEF P

\* The least of a set of whole numbers with a lower bound.
IsMin(n, T) == n \in T /\ \A t \in T : n <= t

\* Min is the least of such a set.
LEMMA MinOf ==
  ASSUME NEW T, T \subseteq Int, T # {}, NEW b \in Int, \A t \in T : b <= t
  PROVE  IsMin(Min(T), T)
<1>1. \E n \in T : \A m \in T : n <= m
  BY LeastInt
<1> QED
  BY <1>1 DEF Min, IsMin

\* A quotient is below a number where the dividend is below its product.
LEMMA DivLess ==
  ASSUME NEW a \in Nat, NEW r \in Nat, r > 0, NEW c \in Nat
  PROVE  a \div r \in Nat /\ (a \div r < c <=> a < c * r)
<1> DEFINE q == a \div r
           e == a % r
<1>1. q \in Nat /\ e \in Nat /\ e < r /\ a = r * q + e
  OBVIOUS
<1> HIDE DEF q, e
<1>2. ASSUME q < c PROVE a < c * r
  <2>1. c - 1 - q \in Nat /\ r * (c - 1 - q) >= 0
    BY <1>1, <1>2
  <2>2. r * (c - 1 - q) = c * r - r - r * q
    BY <1>1
  <2> QED
    BY <1>1, <2>1, <2>2
<1>3. ASSUME ~(q < c) PROVE ~(a < c * r)
  <2>1. q - c \in Nat /\ r * (q - c) >= 0
    BY <1>1, <1>3
  <2>2. r * (q - c) = r * q - c * r
    BY <1>1
  <2> QED
    BY <1>1, <2>1, <2>2
<1> QED
  BY <1>1, <1>2, <1>3 DEF q

\* A finite set of whole numbers that has one has a greatest one.
LEMMA FiniteGreatest ==
  ASSUME NEW S, IsFiniteSet(S), S \subseteq Int, S # {}
  PROVE  \E n \in S : \A m \in S : m <= n
<1> DEFINE P == {T \in SUBSET S : T = {} \/ \E n \in T : \A m \in T : m <= n}
<1>1. {} \in P
  OBVIOUS
<1>2. ASSUME NEW T \in SUBSET S, NEW y \in S \ T, T \in P PROVE T \cup {y} \in P
  <2>1. CASE T = {}
    BY <2>1
  <2>2. CASE T # {}
    <3>1. PICK n \in T : \A m \in T : m <= n
      BY <1>2, <2>2
    <3>2. n \in Int /\ y \in Int /\ \A m \in T : m \in Int
      OBVIOUS
    <3>3. CASE y <= n
      BY <3>1, <3>3
    <3>4. CASE ~(y <= n)
      <4>1. \A m \in T \cup {y} : m <= y
        BY <3>1, <3>2, <3>4
      <4> QED
        BY <4>1
    <3> QED
      BY <3>3, <3>4
  <2> QED
    BY <2>1, <2>2
<1> HIDE DEF P
<1>3. S \in P
  BY <1>1, <1>2, SetInduction
<1> QED
  BY <1>3 DEF P

\* The greatest of a set of whole numbers with an upper bound.
IsMax(n, T) == n \in T /\ \A t \in T : t <= n

\* Max is the greatest of such a set.
LEMMA MaxOfInts ==
  ASSUME NEW T, T \subseteq Int, T # {}, NEW b \in Int, \A t \in T : t <= b
  PROVE  IsMax(Max(T), T)
<1>1. \E n \in T : \A m \in T : m <= n
  BY Greatest
<1>2. \E n \in T : \A m \in T : n >= m
  BY <1>1
<1>3. Max(T) \in T /\ \A m \in T : Max(T) >= m
  BY <1>2 DEF Max
<1> QED
  BY <1>3 DEF IsMax
=============================================================================
