------------------------------ MODULE SumProofs ------------------------------
(***************************************************************************)
(* Lemmas about least and greatest numbers, induction and finite sums,     *)
(* which the proofs about the modules rest on.  None is about the program. *)
(*                                                                         *)
(* Induction is stated of a set that is closed under the step, so that no  *)
(* lemma has an operator as a parameter.                                   *)
(***************************************************************************)
EXTENDS Integers, Functions, FiniteSetsExt, FiniteSetTheorems, WellFoundedInduction, TLAPS

LEMMA Least ==
    ASSUME NEW T \in SUBSET Nat, T # {} PROVE \E x \in T : \A y \in T : x <= y
<1> DEFINE R == OpToRel(<, Nat)
<1>1. IsWellFoundedOn(R, Nat)
  BY NatLessThanWellFounded
<1>2. PICK x \in T : \A y \in T : ~(<<y, x>> \in R)
  <2> HIDE DEF R
  <2> QED
    BY <1>1, WFMin
<1>3. \A y \in T : ~(y < x)
  BY <1>2 DEF OpToRel
<1> QED
  BY <1>3

LEMMA Greatest ==
    ASSUME NEW n \in Nat, NEW T \in SUBSET (0..n), T # {}
    PROVE  Max(T) \in T /\ \A y \in T : y <= Max(T)
<1> DEFINE below == {x \in 0..n : n - x \in T}
<1>1. below \in SUBSET Nat /\ below # {}
  <2>1. PICK t \in T : TRUE
    OBVIOUS
  <2>2. n - t \in 0..n /\ n - (n - t) = t
    OBVIOUS
  <2> QED
    BY <2>1, <2>2
<1>2. PICK x \in below : \A y \in below : x <= y
  <2> HIDE DEF below
  <2> QED
    BY <1>1, Least
<1>3. n - x \in T /\ \A y \in T : n - x >= y
  <2> SUFFICES ASSUME NEW y \in T PROVE n - x >= y
    BY <1>2
  <2>1. n - y \in below
    OBVIOUS
  <2> QED
    BY <1>2, <2>1
<1> QED
  BY <1>3 DEF Max

LEMMA NumberInduction ==
    ASSUME NEW T \in SUBSET Nat, 0 \in T, \A n \in T : n + 1 \in T
    PROVE  T = Nat
<1> SUFFICES ASSUME T # Nat PROVE FALSE
  OBVIOUS
<1> DEFINE others == Nat \ T
<1>1. PICK n \in others : \A m \in others : n <= m
  <2>1. others \in SUBSET Nat /\ others # {}
    OBVIOUS
  <2> HIDE DEF others
  <2> QED
    BY <2>1, Least
<1>2. n # 0 /\ n - 1 \in T
  BY <1>1
<1> QED
  BY <1>1, <1>2

LEMMA SetInduction ==
    ASSUME NEW U, IsFiniteSet(U), NEW F \in SUBSET SUBSET U,
           \A s \in SUBSET U : (\A x \in s : s \ {x} \in F) => s \in F
    PROVE  F = SUBSET U
<1> SUFFICES ASSUME NEW bad \in SUBSET U, bad \notin F PROVE FALSE
  OBVIOUS
<1> DEFINE sizes == {n \in Nat : \E s \in SUBSET U : s \notin F /\ Cardinality(s) = n}
<1>1. \A s \in SUBSET U : IsFiniteSet(s) /\ Cardinality(s) \in Nat
  BY FS_Subset, FS_CardinalityType
<1>2. PICK n \in sizes : \A m \in sizes : n <= m
  <2>1. sizes \in SUBSET Nat /\ sizes # {}
    BY <1>1
  <2> HIDE DEF sizes
  <2> QED
    BY <2>1, Least
<1>3. PICK s \in SUBSET U : s \notin F /\ Cardinality(s) = n
  BY <1>2
<1>4. ASSUME NEW x \in s PROVE s \ {x} \in F
  <2>1. Cardinality(s \ {x}) = n - 1
    BY <1>1, <1>3, FS_RemoveElement
  <2> QED
    BY <1>1, <1>2, <2>1
<1> QED
  BY <1>3, <1>4

-----------------------------------------------------------------------------
(* The sum of f over a finite set                                          *)

Some(s) == CHOOSE x \in s : TRUE

\* g is the table of the sums of f over the sets in D.
Sums(f, D, g) ==
    g = [s \in D |-> IF s = {} THEN 0 ELSE f[Some(s)] + g[s \ {Some(s)}]]

LEMMA SumIsChosen ==
    ASSUME NEW f, NEW S
    PROVE  SumFunctionOnSet(f, S) = (CHOOSE g : Sums(f, SUBSET S, g))[S]
BY Zenon DEF SumFunctionOnSet, FoldFunctionOnSet, MapThenFoldSet, Sums, Some

LEMMA SomeIsIn == ASSUME NEW s, s # {} PROVE Some(s) \in s
BY DEF Some

\* The table of the sums exists,
LEMMA SumsExist ==
    ASSUME NEW f, NEW S, IsFiniteSet(S)
    PROVE  \E g : Sums(f, SUBSET S, g)
<1> DEFINE Small(n) == {s \in SUBSET S : Cardinality(s) <= n}
           T == {n \in Nat : \E g : Sums(f, Small(n), g)}
<1>1. \A s \in SUBSET S : IsFiniteSet(s) /\ Cardinality(s) \in Nat
  BY FS_Subset, FS_CardinalityType
<1>2. ASSUME NEW s \in SUBSET S, s # {}
      PROVE  /\ s \ {Some(s)} \in SUBSET S
             /\ Cardinality(s \ {Some(s)}) = Cardinality(s) - 1
  BY <1>1, <1>2, SomeIsIn, FS_RemoveElement
<1>3. 0 \in T
  <2> DEFINE g == [s \in Small(0) |-> 0]
  <2>1. \A s \in Small(0) : s = {}
    BY <1>1, FS_EmptySet
  <2>2. Sums(f, Small(0), g)
    BY <2>1 DEF Sums
  <2> QED
    BY <2>2
<1>4. ASSUME NEW n \in T PROVE n + 1 \in T
  <2>1. PICK g : Sums(f, Small(n), g)
    OBVIOUS
  <2> DEFINE h == [s \in Small(n + 1) |-> IF s = {} THEN 0 ELSE f[Some(s)] + g[s \ {Some(s)}]]
  <2>2. \A s \in Small(n) : s \in Small(n + 1) /\ h[s] = g[s]
    <3>1. \A s \in Small(n) : g[s] = IF s = {} THEN 0 ELSE f[Some(s)] + g[s \ {Some(s)}]
      BY <2>1 DEF Sums
    <3> QED
      BY <1>1, <3>1
  <2>3. \A s \in Small(n + 1) : s # {} => s \ {Some(s)} \in Small(n)
    BY <1>1, <1>2
  <2>4. h = [s \in Small(n + 1) |-> IF s = {} THEN 0 ELSE f[Some(s)] + h[s \ {Some(s)}]]
    <3> HIDE DEF Small
    <3>1. \A s \in Small(n + 1) : s # {} => h[s \ {Some(s)}] = g[s \ {Some(s)}]
      BY <2>2, <2>3
    <3> QED
      BY <3>1
  <2>5. Sums(f, Small(n + 1), h)
    <3> HIDE DEF h, Small
    <3> QED
      BY <2>4 DEF Sums
  <2> HIDE DEF h
  <2> QED
    BY <2>5
<1>5. Cardinality(S) \in T
  <2> HIDE DEF T
  <2>1. T \in SUBSET Nat
    BY DEF T
  <2> QED
    BY <1>1, <1>3, <1>4, <2>1, NumberInduction
<1>6. Small(Cardinality(S)) = SUBSET S
  BY <1>1, FS_Subset
<1> QED
  BY <1>5, <1>6

\* and tables agree where they overlap.
LEMMA SumsAgree ==
    ASSUME NEW f, NEW S, IsFiniteSet(S), NEW T \in SUBSET S, NEW g, NEW h,
           Sums(f, SUBSET S, g), Sums(f, SUBSET T, h)
    PROVE  \A s \in SUBSET T : g[s] = h[s]
<1> DEFINE F == {s \in SUBSET T : g[s] = h[s]}
<1>1. ASSUME NEW s \in SUBSET T, \A x \in s : s \ {x} \in F PROVE s \in F
  <2>1. g[s] = IF s = {} THEN 0 ELSE f[Some(s)] + g[s \ {Some(s)}]
    BY DEF Sums
  <2>2. h[s] = IF s = {} THEN 0 ELSE f[Some(s)] + h[s \ {Some(s)}]
    BY DEF Sums
  <2> QED
    BY <1>1, <2>1, <2>2, SomeIsIn
<1>2. F = SUBSET T
  <2>1. IsFiniteSet(T) /\ F \in SUBSET SUBSET T
    BY FS_Subset
  <2> HIDE DEF F
  <2> QED
    BY <1>1, <2>1, SetInduction
<1> QED
  BY <1>2

LEMMA SumUnfolds ==
    ASSUME NEW f, NEW S, IsFiniteSet(S)
    PROVE  SumFunctionOnSet(f, S) =
             IF S = {} THEN 0
             ELSE f[Some(S)] + SumFunctionOnSet(f, S \ {Some(S)})
<1> DEFINE g == CHOOSE g : Sums(f, SUBSET S, g)
           T == S \ {Some(S)}
           h == CHOOSE h : Sums(f, SUBSET T, h)
<1>1. Sums(f, SUBSET S, g)
  BY SumsExist
<1>2. Sums(f, SUBSET T, h)
  <2>1. IsFiniteSet(T)
    BY FS_Subset
  <2> HIDE DEF T
  <2> QED
    BY <2>1, SumsExist
<1>3. SumFunctionOnSet(f, S) = g[S] /\ SumFunctionOnSet(f, T) = h[T]
  BY SumIsChosen
<1> HIDE DEF g, h
<1>4. g[T] = h[T]
  <2>1. T \in SUBSET S /\ T \in SUBSET T
    OBVIOUS
  <2> HIDE DEF T
  <2> QED
    BY <1>1, <1>2, <2>1, SumsAgree
<1>5. g[S] = IF S = {} THEN 0 ELSE f[Some(S)] + g[T]
  BY <1>1 DEF Sums
<1> QED
  BY <1>3, <1>4, <1>5

-----------------------------------------------------------------------------

Weighs(f, S) == \A x \in S : f[x] \in Nat

LEMMA SumIsNat ==
    ASSUME NEW f, NEW S, IsFiniteSet(S), Weighs(f, S)
    PROVE  SumFunctionOnSet(f, S) \in Nat
<1> DEFINE F == {s \in SUBSET S : SumFunctionOnSet(f, s) \in Nat}
<1>1. ASSUME NEW s \in SUBSET S, \A x \in s : s \ {x} \in F PROVE s \in F
  <2>1. SumFunctionOnSet(f, s) = IF s = {} THEN 0
                                 ELSE f[Some(s)] + SumFunctionOnSet(f, s \ {Some(s)})
    BY FS_Subset, SumUnfolds
  <2> QED
    BY <1>1, <2>1, SomeIsIn DEF Weighs
<1>2. F = SUBSET S
  <2>1. F \in SUBSET SUBSET S
    OBVIOUS
  <2> HIDE DEF F
  <2> QED
    BY <1>1, <2>1, SetInduction
<1> QED
  BY <1>2

\* The order of the summands does not matter.
LEMMA SumRemove ==
    ASSUME NEW f, NEW S, IsFiniteSet(S), Weighs(f, S), NEW y \in S
    PROVE  SumFunctionOnSet(f, S) = f[y] + SumFunctionOnSet(f, S \ {y})
<1> DEFINE F == {s \in SUBSET S : \A x \in s :
                   SumFunctionOnSet(f, s) = f[x] + SumFunctionOnSet(f, s \ {x})}
<1>1. \A s \in SUBSET S : SumFunctionOnSet(f, s) \in Nat
  BY FS_Subset, SumIsNat DEF Weighs
<1>2. ASSUME NEW s \in SUBSET S, \A x \in s : s \ {x} \in F,
             NEW x \in s
      PROVE  SumFunctionOnSet(f, s) = f[x] + SumFunctionOnSet(f, s \ {x})
  <2> DEFINE c == Some(s)
  <2>1. c \in s
    BY SomeIsIn
  <2>2. SumFunctionOnSet(f, s) = f[c] + SumFunctionOnSet(f, s \ {c})
    BY FS_Subset, SumUnfolds
  <2> HIDE DEF c
  <2>3. CASE x # c
    <3> DEFINE rest == SumFunctionOnSet(f, (s \ {c}) \ {x})
               less(z) == SumFunctionOnSet(f, s \ {z})
    <3>1. less(c) = f[x] + rest
      BY <1>2, <2>1, <2>3
    <3>2. less(x) = f[c] + rest
      <4>1. (s \ {c}) \ {x} = (s \ {x}) \ {c}
        OBVIOUS
      <4>2. less(x) = f[c] + SumFunctionOnSet(f, (s \ {x}) \ {c})
        BY <1>2, <2>1, <2>3
      <4> QED
        BY <4>1, <4>2, Zenon
    <3>3. f[x] \in Nat /\ f[c] \in Nat /\ rest \in Nat
      BY <1>1, <2>1 DEF Weighs
    <3>4. SumFunctionOnSet(f, s) = f[c] + less(c)
      BY <2>2
    <3>5. SumFunctionOnSet(f, s) = f[x] + less(x)
      <4> HIDE DEF rest, less
      <4> QED
        BY <3>1, <3>2, <3>3, <3>4
    <3> QED
      BY <3>5
  <2>4. CASE x = c
    BY <2>2, <2>4, Zenon
  <2> QED
    BY <2>3, <2>4
<1>3. F = SUBSET S
  <2>1. F \in SUBSET SUBSET S
    OBVIOUS
  <2>2. \A s \in SUBSET S : (\A x \in s : s \ {x} \in F) => s \in F
    BY <1>2
  <2> HIDE DEF F
  <2> QED
    BY <2>1, <2>2, SetInduction
<1> QED
  BY <1>3

LEMMA SumEmpty == ASSUME NEW f PROVE SumFunctionOnSet(f, {}) = 0
BY FS_EmptySet, SumUnfolds

LEMMA SumDouble ==
    ASSUME NEW f, NEW g, NEW S, IsFiniteSet(S), Weighs(g, S), \A x \in S : f[x] = 2 * g[x]
    PROVE  SumFunctionOnSet(f, S) = 2 * SumFunctionOnSet(g, S)
<1> DEFINE F == {s \in SUBSET S : SumFunctionOnSet(f, s) = 2 * SumFunctionOnSet(g, s)}
<1>1. ASSUME NEW s \in SUBSET S, \A x \in s : s \ {x} \in F PROVE s \in F
  <2>1. SumFunctionOnSet(f, s) = IF s = {} THEN 0
                                 ELSE f[Some(s)] + SumFunctionOnSet(f, s \ {Some(s)})
    BY FS_Subset, SumUnfolds
  <2>2. SumFunctionOnSet(g, s) = IF s = {} THEN 0
                                 ELSE g[Some(s)] + SumFunctionOnSet(g, s \ {Some(s)})
    BY FS_Subset, SumUnfolds
  <2>3. s # {} => /\ g[Some(s)] \in Nat
                  /\ SumFunctionOnSet(g, s \ {Some(s)}) \in Nat
    <3>1. s # {} => Weighs(g, s \ {Some(s)}) /\ IsFiniteSet(s \ {Some(s)})
      BY FS_Subset DEF Weighs
    <3> QED
      BY <3>1, SomeIsIn, SumIsNat DEF Weighs
  <2> QED
    BY <1>1, <2>1, <2>2, <2>3, SomeIsIn
<1>2. F = SUBSET S
  <2>1. F \in SUBSET SUBSET S
    OBVIOUS
  <2> HIDE DEF F
  <2> QED
    BY <1>1, <2>1, SetInduction
<1> QED
  BY <1>2

LEMMA SumOfLarger ==
    ASSUME NEW f, NEW S, IsFiniteSet(S), Weighs(f, S), NEW T \in SUBSET S
    PROVE  SumFunctionOnSet(f, T) <= SumFunctionOnSet(f, S)
<1> DEFINE F == {s \in SUBSET S :
                   SumFunctionOnSet(f, s \cap T) <= SumFunctionOnSet(f, s)}
<1>1. \A s \in SUBSET S : IsFiniteSet(s) /\ Weighs(f, s) /\ SumFunctionOnSet(f, s) \in Nat
  BY FS_Subset, SumIsNat DEF Weighs
<1>2. ASSUME NEW s \in SUBSET S, \A x \in s : s \ {x} \in F PROVE s \in F
  <2>1. CASE s = {}
    BY <1>1, <2>1
  <2>2. ASSUME NEW x \in s PROVE s \in F
    <3>1. SumFunctionOnSet(f, s) = f[x] + SumFunctionOnSet(f, s \ {x})
      BY <1>1, SumRemove
    <3>2. SumFunctionOnSet(f, (s \ {x}) \cap T) <= SumFunctionOnSet(f, s \ {x})
      BY <1>2
    <3>3. /\ f[x] \in Nat /\ SumFunctionOnSet(f, s \ {x}) \in Nat
          /\ SumFunctionOnSet(f, (s \ {x}) \cap T) \in Nat
      BY <1>1 DEF Weighs
    <3>4. CASE x \in T
      <4>1. (s \cap T) \ {x} = (s \ {x}) \cap T /\ x \in s \cap T /\ s \cap T \in SUBSET S
        BY <3>4
      <4>2. SumFunctionOnSet(f, s \cap T) = f[x] + SumFunctionOnSet(f, (s \ {x}) \cap T)
        BY <1>1, <4>1, SumRemove
      <4> QED
        BY <3>1, <3>2, <3>3, <4>2
    <3>5. CASE x \notin T
      <4>1. s \cap T = (s \ {x}) \cap T
        BY <3>5
      <4> QED
        BY <3>1, <3>2, <3>3, <4>1
    <3> QED
      BY <3>4, <3>5
  <2> QED
    BY <2>1, <2>2
<1>3. F = SUBSET S
  <2>1. F \in SUBSET SUBSET S
    OBVIOUS
  <2> HIDE DEF F
  <2> QED
    BY <1>2, <2>1, SetInduction
<1>4. S \cap T = T /\ S \in SUBSET S
  OBVIOUS
<1> QED
  BY <1>3, <1>4

\* What weighs nothing can be left out.
LEMMA SumOfZeros ==
    ASSUME NEW f, NEW g, NEW S, IsFiniteSet(S), Weighs(f, S), NEW T \in SUBSET S,
           \A x \in T : g[x] = f[x], \A x \in S \ T : f[x] = 0
    PROVE  SumFunctionOnSet(f, S) = SumFunctionOnSet(g, T)
<1> DEFINE F == {s \in SUBSET S : SumFunctionOnSet(f, s) = SumFunctionOnSet(g, s \cap T)}
<1>1. ASSUME NEW s \in SUBSET S, \A x \in s : s \ {x} \in F PROVE s \in F
  <2>1. SumFunctionOnSet(f, s) = IF s = {} THEN 0
                                 ELSE f[Some(s)] + SumFunctionOnSet(f, s \ {Some(s)})
    BY FS_Subset, SumUnfolds
  <2>2. CASE s = {}
    <3>1. s \cap T = {}
      BY <2>2
    <3> QED
      BY <2>1, <2>2, <3>1, SumEmpty
  <2>3. CASE s # {}
    <3> DEFINE x == Some(s)
               rest == s \ {x}
    <3>1. x \in s
      BY <2>3, SomeIsIn
    <3>2. SumFunctionOnSet(f, rest) = SumFunctionOnSet(g, rest \cap T)
      BY <1>1, <3>1
    <3>3. SumFunctionOnSet(f, s) = f[x] + SumFunctionOnSet(f, rest)
      BY <2>1, <2>3
    <3>4. f[x] + SumFunctionOnSet(f, rest) = SumFunctionOnSet(g, s \cap T)
      <4> HIDE DEF x
      <4>1. CASE x \in T
        <5>1. IsFiniteSet(s \cap T) /\ Weighs(g, s \cap T)
          BY FS_Subset DEF Weighs
        <5>2. x \in s \cap T /\ (s \cap T) \ {x} = rest \cap T
          BY <3>1, <4>1
        <5>3. SumFunctionOnSet(g, s \cap T) = g[x] + SumFunctionOnSet(g, (s \cap T) \ {x})
          BY <5>1, <5>2, SumRemove
        <5> QED
          BY <3>2, <4>1, <5>2, <5>3
      <4>2. CASE x \notin T
        <5>1. rest \cap T = s \cap T
          BY <4>2
        <5>2. f[x] = 0
          BY <3>1, <4>2
        <5>3. SumFunctionOnSet(f, rest) \in Nat
          BY FS_Subset, SumIsNat DEF Weighs
        <5> HIDE DEF rest
        <5> QED
          BY <3>2, <5>1, <5>2, <5>3
      <4> QED
        BY <4>1, <4>2
    <3> HIDE DEF x, rest
    <3> QED
      BY <3>3, <3>4
  <2> QED
    BY <2>2, <2>3
<1> HIDE DEF F
<1>2. F = SUBSET S
  <2>1. F \in SUBSET SUBSET S
    BY DEF F
  <2> QED
    BY <1>1, <2>1, SetInduction
<1>3. S \in F
  BY <1>2
<1>4. S \cap T = T
  OBVIOUS
<1> QED
  BY <1>3, <1>4 DEF F

\* A sum is positive only when one of its terms is.
LEMMA SumPositive ==
    ASSUME NEW f, NEW S, IsFiniteSet(S), Weighs(f, S)
    PROVE  SumFunctionOnSet(f, S) > 0 <=> \E x \in S : f[x] > 0
<1> DEFINE F == {s \in SUBSET S :
                   SumFunctionOnSet(f, s) > 0 <=> \E x \in s : f[x] > 0}
<1>1. \A s \in SUBSET S : IsFiniteSet(s) /\ Weighs(f, s) /\ SumFunctionOnSet(f, s) \in Nat
  BY FS_Subset, SumIsNat DEF Weighs
<1>2. ASSUME NEW s \in SUBSET S, \A x \in s : s \ {x} \in F PROVE s \in F
  <2>1. CASE s = {}
    BY <2>1, SumEmpty
  <2>2. ASSUME NEW y \in s PROVE s \in F
    <3>1. SumFunctionOnSet(f, s) = f[y] + SumFunctionOnSet(f, s \ {y})
      BY <1>1, SumRemove
    <3>2. SumFunctionOnSet(f, s \ {y}) > 0 <=> \E x \in s \ {y} : f[x] > 0
      BY <1>2
    <3>3. f[y] \in Nat /\ SumFunctionOnSet(f, s \ {y}) \in Nat
      BY <1>1 DEF Weighs
    <3>4. SumFunctionOnSet(f, s) > 0 <=> f[y] > 0 \/ \E x \in s \ {y} : f[x] > 0
      BY <3>1, <3>2, <3>3
    <3> QED
      BY <3>4
  <2> QED
    BY <2>1, <2>2
<1>3. F = SUBSET S
  <2>1. F \in SUBSET SUBSET S
    OBVIOUS
  <2> HIDE DEF F
  <2> QED
    BY <1>2, <2>1, SetInduction
<1> QED
  BY <1>3

\* The sum over T covers a sum over S whose terms are found in T.
LEMMA SumCovered ==
    ASSUME NEW f, NEW g, NEW S, IsFiniteSet(S), NEW T, IsFiniteSet(T),
           Weighs(f, S), Weighs(g, T), NEW m,
           \A x \in S : m[x] \in T /\ g[m[x]] = f[x],
           \A x, y \in S : m[x] = m[y] => x = y
    PROVE  SumFunctionOnSet(f, S) <= SumFunctionOnSet(g, T)
<1> DEFINE image(s) == {m[x] : x \in s}
           F == {s \in SUBSET S : SumFunctionOnSet(f, s) = SumFunctionOnSet(g, image(s))}
<1>1. \A s \in SUBSET S : IsFiniteSet(s) /\ Weighs(f, s)
  BY FS_Subset DEF Weighs
<1>2. \A s \in SUBSET S : /\ image(s) \in SUBSET T
                        /\ IsFiniteSet(image(s)) /\ Weighs(g, image(s))
  <2>1. \A s \in SUBSET S : image(s) \in SUBSET T
    OBVIOUS
  <2> HIDE DEF image
  <2> QED
    BY <2>1, FS_Subset DEF Weighs
<1>3. ASSUME NEW s \in SUBSET S, \A x \in s : s \ {x} \in F PROVE s \in F
  <2>1. CASE s = {}
    <3>1. image(s) = {}
      BY <2>1
    <3> HIDE DEF image
    <3>2. SumFunctionOnSet(f, s) = 0 /\ SumFunctionOnSet(g, image(s)) = 0
      BY <2>1, <3>1, SumEmpty, Zenon
    <3> QED
      BY <3>2
  <2>2. ASSUME NEW y \in s PROVE s \in F
    <3>1. m[y] \in image(s) /\ image(s) \ {m[y]} = image(s \ {y})
      OBVIOUS
    <3>2. SumFunctionOnSet(f, s) = f[y] + SumFunctionOnSet(f, s \ {y})
      BY <1>1, SumRemove
    <3>3. SumFunctionOnSet(g, image(s))
            = g[m[y]] + SumFunctionOnSet(g, image(s) \ {m[y]})
      <4> HIDE DEF image
      <4> QED
        BY <1>2, <3>1, SumRemove
    <3>4. SumFunctionOnSet(f, s \ {y}) = SumFunctionOnSet(g, image(s \ {y}))
      BY <1>3
    <3>5. g[m[y]] = f[y]
      OBVIOUS
    <3>6. SumFunctionOnSet(f, s) = SumFunctionOnSet(g, image(s))
      <4> HIDE DEF image, F
      <4> QED
        BY <3>1, <3>2, <3>3, <3>4, <3>5, Zenon
    <3> QED
      BY <3>6
  <2> QED
    BY <2>1, <2>2
<1>4. F = SUBSET S
  <2>1. F \in SUBSET SUBSET S
    OBVIOUS
  <2> HIDE DEF F
  <2> QED
    BY <1>3, <2>1, SetInduction
<1>5. SumFunctionOnSet(f, S) = SumFunctionOnSet(g, image(S))
  BY <1>4
<1>6. SumFunctionOnSet(g, image(S)) <= SumFunctionOnSet(g, T)
  <2>1. image(S) \in SUBSET T
    BY <1>2
  <2> HIDE DEF image
  <2> QED
    BY <2>1, SumOfLarger
<1> HIDE DEF image
<1> QED
  BY <1>5, <1>6

=============================================================================
