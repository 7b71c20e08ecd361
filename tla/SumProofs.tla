------------------------------ MODULE SumProofs ------------------------------
(***************************************************************************)
(* Facts about SumFunctionOnSet(f, S), the sum of the numbers f gives the  *)
(* elements of a finite set S: what a run's totals are made of.            *)
(*                                                                         *)
(* The community modules define it as a fold: a recursive function on the  *)
(* subsets of S that takes out one chosen element after the other.  Its    *)
(* facts need induction, which is stated here over sets: a set of numbers  *)
(* that holds 0 and with each number its successor holds them all.         *)
(***************************************************************************)
EXTENDS Naturals, FiniteSets, Functions, FiniteSetTheorems, WellFoundedInduction,
        TLAPS

\* Induction over the numbers: the least one that is missing has no reason to.
LEMMA AllNumbers ==
  ASSUME NEW Q, 0 \in Q, \A n \in Nat : n \in Q => n + 1 \in Q
  PROVE  Nat \subseteq Q
<1> DEFINE T == Nat \ Q
<1> SUFFICES ASSUME T # {} PROVE FALSE
  OBVIOUS
<1>1. PICK x \in T : \A y \in T : ~(<<y, x>> \in OpToRel(<, Nat))
  BY NatLessThanWellFounded, WFMin
<1>2. x \in Nat /\ x # 0 /\ x - 1 \in Nat /\ x = (x - 1) + 1
  OBVIOUS
<1>3. <<x - 1, x>> \in OpToRel(<, Nat)
  BY <1>2 DEF OpToRel
<1>4. x - 1 \in Q
  BY <1>1, <1>2, <1>3
<1> QED BY <1>2, <1>4

\* Taking an element out of a finite set.
LEMMA OneLess ==
  ASSUME NEW S, IsFiniteSet(S), NEW x \in S
  PROVE  /\ IsFiniteSet(S \ {x}) /\ Cardinality(S) \in Nat
         /\ Cardinality(S \ {x}) \in Nat
         /\ Cardinality(S) = Cardinality(S \ {x}) + 1
<1>1. IsFiniteSet(S \ {x}) /\ Cardinality(S \ {x}) = Cardinality(S) - 1
  BY FS_RemoveElement
<1>2. Cardinality(S) \in Nat /\ Cardinality(S \ {x}) \in Nat
  BY <1>1, FS_CardinalityType
<1> QED BY <1>1, <1>2

\* Induction over the subsets of a finite set, by their size.
LEMMA AllSubsets ==
  ASSUME NEW S, IsFiniteSet(S), NEW Q, {} \in Q,
         \A T \in SUBSET S : T # {} /\ (\A x \in T : T \ {x} \in Q) => T \in Q
  PROVE  SUBSET S \subseteq Q
<1> DEFINE N == {n \in Nat : \A T \in SUBSET S : Cardinality(T) = n => T \in Q}
<1>1. 0 \in N
  <2> SUFFICES ASSUME NEW T \in SUBSET S, Cardinality(T) = 0 PROVE T \in Q
    OBVIOUS
  <2>1. IsFiniteSet(T)
    BY FS_Subset
  <2>2. T = {}
    BY <2>1, FS_EmptySet
  <2> QED BY <2>2
<1>2. ASSUME NEW n \in Nat, n \in N PROVE n + 1 \in N
  <2> SUFFICES ASSUME NEW T \in SUBSET S, Cardinality(T) = n + 1 PROVE T \in Q
    OBVIOUS
  <2>1. IsFiniteSet(T)
    BY FS_Subset
  <2>2. ASSUME NEW x \in T PROVE T \ {x} \in Q
    <3>1. Cardinality(T \ {x}) = n
      BY <2>1, OneLess
    <3> QED BY <1>2, <3>1
  <2>3. T # {}
    BY FS_EmptySet
  <2> QED BY <2>2, <2>3
<1> HIDE DEF N
<1>3. Nat \subseteq N
  BY <1>1, <1>2, AllNumbers
<1>4. \A T \in SUBSET S : Cardinality(T) \in Nat
  BY FS_Subset, FS_CardinalityType
<1> QED BY <1>3, <1>4 DEF N

-----------------------------------------------------------------------------
(* The fold *)

\* The element the fold takes out first.
TakenOut(S) == CHOOSE x \in S : TRUE

LEMMA TakenOutIn == ASSUME NEW S, S # {} PROVE TakenOut(S) \in S
BY DEF TakenOut

\* The value the fold gives the subset s, given its values g on the smaller ones.
Folded(f, g, s) ==
  IF s = {} THEN 0 ELSE LET x == TakenOut(s) IN f[x] + g[s \ {x}]

IsFold(f, S, g) == g = [s \in SUBSET S |-> Folded(f, g, s)]

LEMMA SumIsFold ==
  ASSUME NEW f, NEW S
  PROVE  SumFunctionOnSet(f, S) = (CHOOSE g : IsFold(f, S, g))[S]
BY DEF SumFunctionOnSet, FoldFunctionOnSet, MapThenFoldSet, IsFold, Folded, TakenOut

\* The recursion has a solution: it is built from the smaller subsets up.
LEMMA FoldExists ==
  ASSUME NEW f, NEW S, IsFiniteSet(S)
  PROVE  \E g : IsFold(f, S, g)
<1> DEFINE Upto(g, n) == \A s \in SUBSET S : Cardinality(s) <= n => g[s] = Folded(f, g, s)
           N == {n \in Nat : \E g : Upto(g, n)}
<1>0. \A s \in SUBSET S : IsFiniteSet(s) /\ Cardinality(s) \in Nat
  BY FS_Subset, FS_CardinalityType
<1>1. 0 \in N
  <2> DEFINE g == [s \in SUBSET S |-> 0]
  <2>1. ASSUME NEW s \in SUBSET S, Cardinality(s) <= 0 PROVE g[s] = Folded(f, g, s)
    <3>1. IsFiniteSet(s) /\ Cardinality(s) = 0
      BY <1>0, <2>1
    <3>2. s = {}
      BY <3>1, FS_EmptySet
    <3> QED BY <3>2 DEF Folded
  <2>2. Upto(g, 0)
    BY <2>1
  <2> HIDE DEF g, Upto
  <2> QED BY <2>2
<1>2. ASSUME NEW n \in Nat, n \in N PROVE n + 1 \in N
  <2>1. PICK g : Upto(g, n)
    BY <1>2
  <2> DEFINE h == [s \in SUBSET S |-> IF Cardinality(s) <= n THEN g[s] ELSE Folded(f, g, s)]
  <2>2. ASSUME NEW s \in SUBSET S, Cardinality(s) <= n + 1 PROVE h[s] = Folded(f, h, s)
    <3>1. h[s] = Folded(f, g, s)
      BY <2>1
    <3>2. CASE s = {}
      BY <3>1, <3>2 DEF Folded
    <3>3. CASE s # {}
      <4> DEFINE x == TakenOut(s)
      <4>1. x \in s
        BY <3>3, TakenOutIn
      <4> HIDE DEF x
      <4>2. Cardinality(s) = Cardinality(s \ {x}) + 1 /\ Cardinality(s \ {x}) \in Nat
        BY <1>0, <4>1, OneLess
      <4>3. s \ {x} \in SUBSET S /\ Cardinality(s \ {x}) <= n
        BY <2>2, <4>2
      <4>4. h[s \ {x}] = g[s \ {x}]
        BY <4>3
      <4> HIDE DEF h
      <4>5. Folded(f, g, s) = f[x] + g[s \ {x}] /\ Folded(f, h, s) = f[x] + h[s \ {x}]
        BY <3>3 DEF Folded, x
      <4> QED BY <3>1, <4>4, <4>5
    <3> QED BY <3>2, <3>3
  <2>3. Upto(h, n + 1)
    BY <2>2
  <2> HIDE DEF h, Upto
  <2> QED BY <2>3
<1>3. Cardinality(S) \in N
  <2> HIDE DEF N
  <2>1. Nat \subseteq N
    BY <1>1, <1>2, AllNumbers
  <2> QED BY <1>0, <2>1
<1>4. PICK g : Upto(g, Cardinality(S))
  BY <1>3
<1>5. \A s \in SUBSET S : g[s] = Folded(f, g, s)
  <2>1. \A s \in SUBSET S : Cardinality(s) <= Cardinality(S)
    BY FS_Subset
  <2> QED BY <1>4, <2>1
<1> DEFINE h == [s \in SUBSET S |-> g[s]]
<1>6. ASSUME NEW s \in SUBSET S PROVE h[s] = Folded(f, h, s)
  <2>1. CASE s = {}
    BY <1>5, <2>1 DEF Folded
  <2>2. CASE s # {}
    <3> DEFINE x == TakenOut(s)
    <3>1. h[s] = f[x] + g[s \ {x}]
      BY <1>5, <2>2 DEF Folded
    <3>2. h[s \ {x}] = g[s \ {x}]
      OBVIOUS
    <3> QED BY <2>2, <3>1, <3>2 DEF Folded
  <2> QED BY <2>1, <2>2
<1>7. h = [s \in SUBSET S |-> Folded(f, h, s)]
  <2>1. h = [s \in SUBSET S |-> h[s]]
    OBVIOUS
  <2> HIDE DEF h
  <2> QED BY <1>6, <2>1
<1> HIDE DEF h
<1> QED BY <1>7 DEF IsFold

\* The fold over S, by name.
FoldOf(f, S) == CHOOSE g : IsFold(f, S, g)

LEMMA FoldValue ==
  ASSUME NEW f, NEW S, IsFiniteSet(S), NEW T \in SUBSET S
  PROVE  FoldOf(f, S)[T] = Folded(f, FoldOf(f, S), T)
<1>1. IsFold(f, S, FoldOf(f, S))
  BY FoldExists DEF FoldOf
<1> DEFINE g == FoldOf(f, S)
<1>2. g = [s \in SUBSET S |-> Folded(f, g, s)]
  BY <1>1 DEF IsFold
<1> HIDE DEF g
<1>3. g[T] = Folded(f, g, T)
  BY <1>2
<1> QED BY <1>3 DEF g

LEMMA FoldStep ==
  ASSUME NEW f, NEW S, IsFiniteSet(S), NEW T \in SUBSET S, T # {}
  PROVE  LET x == TakenOut(T)
         IN  x \in T /\ FoldOf(f, S)[T] = f[x] + FoldOf(f, S)[T \ {x}]
<1> DEFINE g == FoldOf(f, S)
<1>1. g[T] = Folded(f, g, T)
  BY FoldValue
<1> HIDE DEF g
<1>2. Folded(f, g, T) = LET x == TakenOut(T) IN f[x] + g[T \ {x}]
  BY DEF Folded
<1> QED BY <1>1, <1>2, TakenOutIn DEF g

\* A subset has the same sum in whatever larger set it is taken.
LEMMA FoldLocal ==
  ASSUME NEW f, NEW U, IsFiniteSet(U)
  PROVE  \A T \in SUBSET U : \A S \in SUBSET U : T \subseteq S =>
           FoldOf(f, S)[T] = FoldOf(f, T)[T]
<1> DEFINE Q == {T \in SUBSET U : \A S \in SUBSET U : T \subseteq S =>
                   FoldOf(f, S)[T] = FoldOf(f, T)[T]}
<1>0. \A S \in SUBSET U : IsFiniteSet(S)
  BY FS_Subset
<1>1. {} \in Q
  <2>1. ASSUME NEW S \in SUBSET U PROVE FoldOf(f, S)[{}] = 0
    BY <1>0, FoldValue DEF Folded
  <2> QED BY <2>1
<1>2. ASSUME NEW T \in SUBSET U, T # {}, \A x \in T : T \ {x} \in Q PROVE T \in Q
  <2> DEFINE x == TakenOut(T)
  <2>1. x \in T
    BY <1>2, TakenOutIn
  <2>2. ASSUME NEW S \in SUBSET U, T \subseteq S
        PROVE  FoldOf(f, S)[T] = f[x] + FoldOf(f, T \ {x})[T \ {x}]
    <3>1. FoldOf(f, S)[T] = f[x] + FoldOf(f, S)[T \ {x}]
      <4>1. IsFiniteSet(S) /\ T \in SUBSET S /\ T # {}
        BY <1>0, <1>2, <2>2
      <4> QED BY <4>1, FoldStep
    <3>2. T \ {x} \in Q /\ T \ {x} \subseteq S
      BY <1>2, <2>1, <2>2
    <3>3. FoldOf(f, S)[T \ {x}] = FoldOf(f, T \ {x})[T \ {x}]
      BY <3>2
    <3> QED BY <3>1, <3>3
  <2> HIDE DEF x
  <2>3. FoldOf(f, T)[T] = f[x] + FoldOf(f, T \ {x})[T \ {x}]
    BY <2>2
  <2> QED BY <2>2, <2>3
<1> HIDE DEF Q
<1>3. SUBSET U \subseteq Q
  BY <1>1, <1>2, AllSubsets
<1> QED BY <1>3 DEF Q

LEMMA SumIsFoldOf ==
  ASSUME NEW f, NEW S
  PROVE  SumFunctionOnSet(f, S) = FoldOf(f, S)[S]
BY SumIsFold DEF FoldOf

-----------------------------------------------------------------------------
(* The sum *)

LEMMA SumEmpty ==
  ASSUME NEW f
  PROVE  SumFunctionOnSet(f, {}) = 0
BY FS_EmptySet, FoldValue, SumIsFoldOf DEF Folded

\* The sum takes out the element the fold chooses ...
LEMMA SumChosen ==
  ASSUME NEW f, NEW S, IsFiniteSet(S), S # {}
  PROVE  \E x \in S : SumFunctionOnSet(f, S) = f[x] + SumFunctionOnSet(f, S \ {x})
<1> DEFINE x == TakenOut(S)
<1>1. x \in S
  BY TakenOutIn
<1>2. FoldOf(f, S)[S] = f[x] + FoldOf(f, S)[S \ {x}]
  <2>1. S \in SUBSET S
    OBVIOUS
  <2> QED BY <2>1, FoldStep
<1> HIDE DEF x
<1>3. FoldOf(f, S)[S \ {x}] = FoldOf(f, S \ {x})[S \ {x}]
  BY FoldLocal
<1> QED BY <1>1, <1>2, <1>3, SumIsFoldOf DEF x

\* ... is a number ...
LEMMA SumType ==
  ASSUME NEW f, NEW S, IsFiniteSet(S), \A s \in S : f[s] \in Nat
  PROVE  SumFunctionOnSet(f, S) \in Nat
<1> DEFINE Q == {T \in SUBSET S : SumFunctionOnSet(f, T) \in Nat}
<1>1. {} \in Q
  BY SumEmpty
<1>2. ASSUME NEW T \in SUBSET S, T # {}, \A x \in T : T \ {x} \in Q PROVE T \in Q
  <2>1. IsFiniteSet(T)
    BY FS_Subset
  <2>2. PICK x \in T : SumFunctionOnSet(f, T) = f[x] + SumFunctionOnSet(f, T \ {x})
    BY <1>2, <2>1, SumChosen
  <2>3. f[x] \in Nat /\ SumFunctionOnSet(f, T \ {x}) \in Nat
    BY <1>2
  <2> QED BY <2>2, <2>3
<1> HIDE DEF Q
<1>3. SUBSET S \subseteq Q
  BY <1>1, <1>2, AllSubsets
<1> QED BY <1>3 DEF Q

\* ... and does not depend on the order in which elements are taken out.
LEMMA SumTakeOut ==
  ASSUME NEW f, NEW S, IsFiniteSet(S), \A s \in S : f[s] \in Nat, NEW x \in S
  PROVE  SumFunctionOnSet(f, S) = f[x] + SumFunctionOnSet(f, S \ {x})
<1> DEFINE Q == {T \in SUBSET S : \A y \in T :
                   SumFunctionOnSet(f, T) = f[y] + SumFunctionOnSet(f, T \ {y})}
<1>1. {} \in Q
  OBVIOUS
<1>2. ASSUME NEW T \in SUBSET S, T # {}, \A y \in T : T \ {y} \in Q PROVE T \in Q
  <2> SUFFICES ASSUME NEW y \in T
               PROVE  SumFunctionOnSet(f, T) = f[y] + SumFunctionOnSet(f, T \ {y})
    OBVIOUS
  <2>0. \A V \in SUBSET S : IsFiniteSet(V)
    BY FS_Subset
  <2>1. PICK z \in T : SumFunctionOnSet(f, T) = f[z] + SumFunctionOnSet(f, T \ {z})
    BY <1>2, <2>0, SumChosen
  <2>2. CASE z = y
    BY <2>1, <2>2
  <2>3. CASE z # y
    <3> DEFINE rest == (T \ {z}) \ {y}
    <3>1. rest = (T \ {y}) \ {z} /\ rest \in SUBSET S
      OBVIOUS
    <3>2. SumFunctionOnSet(f, T \ {z}) = f[y] + SumFunctionOnSet(f, rest)
      BY <1>2, <2>3
    <3>3. SumFunctionOnSet(f, T \ {y}) = f[z] + SumFunctionOnSet(f, rest)
      BY <1>2, <2>3, <3>1
    <3>4. f[y] \in Nat /\ f[z] \in Nat /\ SumFunctionOnSet(f, rest) \in Nat
      <4>1. IsFiniteSet(rest) /\ \A s \in rest : f[s] \in Nat
        BY <2>0, <3>1
      <4> HIDE DEF rest
      <4> QED BY <4>1, SumType
    <3> HIDE DEF rest
    <3> QED BY <2>1, <3>2, <3>3, <3>4
  <2> QED BY <2>2, <2>3
<1> HIDE DEF Q
<1>3. SUBSET S \subseteq Q
  BY <1>1, <1>2, AllSubsets
<1> QED BY <1>3 DEF Q

\* A sum of smaller numbers is smaller.
LEMMA SumMonotone ==
  ASSUME NEW f, NEW g, NEW S, IsFiniteSet(S),
         \A s \in S : f[s] \in Nat /\ g[s] \in Nat /\ f[s] <= g[s]
  PROVE  SumFunctionOnSet(f, S) <= SumFunctionOnSet(g, S)
<1> DEFINE Q == {T \in SUBSET S : SumFunctionOnSet(f, T) <= SumFunctionOnSet(g, T)}
<1>1. {} \in Q
  BY SumEmpty
<1>2. ASSUME NEW T \in SUBSET S, T # {}, \A x \in T : T \ {x} \in Q PROVE T \in Q
  <2>1. IsFiniteSet(T) /\ \A s \in T : f[s] \in Nat /\ g[s] \in Nat /\ f[s] <= g[s]
    BY FS_Subset
  <2>2. PICK x \in T : TRUE
    BY <1>2
  <2>3. IsFiniteSet(T \ {x})
    BY <2>1, FS_Subset
  <2>4. /\ SumFunctionOnSet(f, T) = f[x] + SumFunctionOnSet(f, T \ {x})
        /\ SumFunctionOnSet(g, T) = g[x] + SumFunctionOnSet(g, T \ {x})
    BY <2>1, SumTakeOut
  <2>5. SumFunctionOnSet(f, T \ {x}) <= SumFunctionOnSet(g, T \ {x})
    BY <1>2
  <2>6. SumFunctionOnSet(f, T \ {x}) \in Nat /\ SumFunctionOnSet(g, T \ {x}) \in Nat
    BY <2>1, <2>3, SumType
  <2> QED BY <2>1, <2>4, <2>5, <2>6
<1> HIDE DEF Q
<1>3. SUBSET S \subseteq Q
  BY <1>1, <1>2, AllSubsets
<1> QED BY <1>3 DEF Q

\* The sum depends on the numbers alone.
LEMMA SumEqual ==
  ASSUME NEW f, NEW g, NEW S, IsFiniteSet(S),
         \A s \in S : f[s] \in Nat /\ f[s] = g[s]
  PROVE  SumFunctionOnSet(f, S) = SumFunctionOnSet(g, S)
<1>1. /\ SumFunctionOnSet(f, S) <= SumFunctionOnSet(g, S)
      /\ SumFunctionOnSet(g, S) <= SumFunctionOnSet(f, S)
  BY SumMonotone
<1>2. SumFunctionOnSet(f, S) \in Nat /\ SumFunctionOnSet(g, S) \in Nat
  BY SumType
<1> QED BY <1>1, <1>2

\* The subsets whose sum is that of their part in P and of the rest.
Parted(f, S, P) ==
  {T \in SUBSET S : SumFunctionOnSet(f, T) =
     SumFunctionOnSet(f, T \cap P) + SumFunctionOnSet(f, T \ P)}

LEMMA SumParts ==
  ASSUME NEW f, NEW S, IsFiniteSet(S), \A s \in S : f[s] \in Nat, NEW P
  PROVE  S \in Parted(f, S, P)
<1> DEFINE Q == {T \in SUBSET S : SumFunctionOnSet(f, T) =
                   SumFunctionOnSet(f, T \cap P) + SumFunctionOnSet(f, T \ P)}
<1>1. {} \in Q
  <2>1. {} \cap P = {} /\ {} \ P = {}
    OBVIOUS
  <2> QED BY <2>1, SumEmpty
<1>2. ASSUME NEW T \in SUBSET S, T # {}, \A x \in T : T \ {x} \in Q PROVE T \in Q
  <2> DEFINE a == SumFunctionOnSet(f, T \cap P)
             b == SumFunctionOnSet(f, T \ P)
  <2> SUFFICES SumFunctionOnSet(f, T) = a + b
    OBVIOUS
  <2>1. \A V \in SUBSET S : IsFiniteSet(V) /\ SumFunctionOnSet(f, V) \in Nat
    BY FS_Subset, SumType
  <2>2. PICK x \in T : TRUE
    BY <1>2
  <2> DEFINE R == T \ {x}
             c == SumFunctionOnSet(f, R \cap P)
             d == SumFunctionOnSet(f, R \ P)
  <2>3. /\ SumFunctionOnSet(f, T) = f[x] + SumFunctionOnSet(f, R)
        /\ SumFunctionOnSet(f, R) = c + d
        /\ f[x] \in Nat /\ c \in Nat /\ d \in Nat
    BY <1>2, <2>1, SumTakeOut
  <2>4. CASE x \in P
    <3>1. T \ P = R \ P /\ (T \cap P) \ {x} = R \cap P /\ x \in T \cap P
      BY <2>4
    <3>2. a = f[x] + c /\ b = d
      <4> DEFINE V == T \cap P
      <4>1. IsFiniteSet(V) /\ (\A s \in V : f[s] \in Nat) /\ x \in V
        BY <2>1, <3>1
      <4> HIDE DEF V
      <4>2. SumFunctionOnSet(f, V) = f[x] + SumFunctionOnSet(f, V \ {x})
        BY <4>1, SumTakeOut
      <4> QED BY <3>1, <4>2 DEF V
    <3> HIDE DEF R, a, b, c, d
    <3> QED BY <2>3, <3>1, <3>2
  <2>5. CASE x \notin P
    <3>1. T \cap P = R \cap P /\ (T \ P) \ {x} = R \ P /\ x \in T \ P
      BY <2>5
    <3>2. b = f[x] + d /\ a = c
      <4> DEFINE V == T \ P
      <4>1. IsFiniteSet(V) /\ (\A s \in V : f[s] \in Nat) /\ x \in V
        BY <2>1, <3>1
      <4> HIDE DEF V
      <4>2. SumFunctionOnSet(f, V) = f[x] + SumFunctionOnSet(f, V \ {x})
        BY <4>1, SumTakeOut
      <4> QED BY <3>1, <4>2 DEF V
    <3> HIDE DEF R, a, b, c, d
    <3> QED BY <2>3, <3>1, <3>2
  <2> QED BY <2>4, <2>5
<1> HIDE DEF Q
<1>3. SUBSET S \subseteq Q
  BY <1>1, <1>2, AllSubsets
<1> QED BY <1>3 DEF Q, Parted

\* A sum over S is a sum over a part of S and one over the rest.
LEMMA SumSplit ==
  ASSUME NEW f, NEW S, IsFiniteSet(S), \A s \in S : f[s] \in Nat,
         NEW P, NEW O, P \cup O = S, P \cap O = {}
  PROVE  SumFunctionOnSet(f, S) = SumFunctionOnSet(f, P) + SumFunctionOnSet(f, O)
<1>1. S \in Parted(f, S, P)
  BY SumParts
<1>2. S \cap P = P /\ S \ P = O
  OBVIOUS
<1> QED BY <1>1, <1>2 DEF Parted

\* Where the numbers change at one element, the sum changes by as much.
LEMMA SumChange ==
  ASSUME NEW f, NEW g, NEW S, IsFiniteSet(S), NEW x \in S,
         \A s \in S : f[s] \in Nat /\ g[s] \in Nat /\ (s # x => g[s] = f[s])
  PROVE  SumFunctionOnSet(g, S) + f[x] = SumFunctionOnSet(f, S) + g[x]
<1>1. /\ SumFunctionOnSet(f, S) = f[x] + SumFunctionOnSet(f, S \ {x})
      /\ SumFunctionOnSet(g, S) = g[x] + SumFunctionOnSet(g, S \ {x})
  BY SumTakeOut
<1>2. IsFiniteSet(S \ {x})
  BY FS_Subset
<1>3. SumFunctionOnSet(f, S \ {x}) = SumFunctionOnSet(g, S \ {x})
  BY <1>2, SumEqual
<1>4. SumFunctionOnSet(f, S \ {x}) \in Nat
  BY <1>2, SumType
<1> QED BY <1>1, <1>3, <1>4

\* A sum of zeros is zero.
LEMMA SumZero ==
  ASSUME NEW f, NEW S, IsFiniteSet(S), \A s \in S : f[s] = 0
  PROVE  SumFunctionOnSet(f, S) = 0
<1> DEFINE Q == {T \in SUBSET S : SumFunctionOnSet(f, T) = 0}
<1>1. {} \in Q
  BY SumEmpty
<1>2. ASSUME NEW T \in SUBSET S, T # {}, \A x \in T : T \ {x} \in Q PROVE T \in Q
  <2>1. IsFiniteSet(T)
    BY FS_Subset
  <2>2. PICK x \in T : SumFunctionOnSet(f, T) = f[x] + SumFunctionOnSet(f, T \ {x})
    BY <1>2, <2>1, SumChosen
  <2>3. f[x] = 0 /\ SumFunctionOnSet(f, T \ {x}) = 0
    BY <1>2
  <2> QED BY <2>2, <2>3
<1> HIDE DEF Q
<1>3. SUBSET S \subseteq Q
  BY <1>1, <1>2, AllSubsets
<1> QED BY <1>3 DEF Q
=============================================================================
