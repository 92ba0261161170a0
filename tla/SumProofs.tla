----------------------------- MODULE SumProofs -----------------------------
(***************************************************************************)
(* Facts about SumFunctionOnSet, the sum of a function over a finite set   *)
(* of its domain, which deposits, debts and quantities are added up with.  *)
(*                                                                         *)
(* The operator folds the set in the order of a choice.  The facts that a  *)
(* sum exists, can be taken in any order and depends on the values only    *)
(* are proved by induction over finite sets in the form of                 *)
(* FiniteSubsetInduction, which speaks of a set of subsets instead of a    *)
(* predicate and can be cited like any other lemma.                        *)
(***************************************************************************)
EXTENDS FiniteSetsExt, FiniteSetTheorems, WellFoundedInduction, TLAPS

\* A set T of subsets of S has all of them if it has every one whose strict
\* subsets it has.
LEMMA FiniteSubsetInduction ==
  ASSUME NEW S, IsFiniteSet(S), NEW T,
         \A U \in SUBSET S : (\A V \in SUBSET U : V # U => V \in T) => U \in T
  PROVE  \A U \in SUBSET S : U \in T
<1> DEFINE Bad == {U \in SUBSET S : U \notin T}
<1> SUFFICES ASSUME Bad # {} PROVE FALSE
  OBVIOUS
<1>1. IsWellFoundedOn(StrictSubsetOrdering(S), FiniteSubsetsOf(S))
  BY FS_StrictSubsetOrderingWellFounded
<1>2. FiniteSubsetsOf(S) = SUBSET S
  BY FS_FiniteSubsetsOfFinite
<1>3. Bad \subseteq SUBSET S
  OBVIOUS
<1>4. \E U \in Bad : \A V \in Bad : ~(<<V, U>> \in StrictSubsetOrdering(S))
  <2> HIDE DEF Bad
  <2> QED BY <1>1, <1>2, <1>3, WFMin
<1>5. PICK U \in Bad : \A V \in Bad : ~(<<V, U>> \in StrictSubsetOrdering(S))
  BY <1>4
<1>6. ASSUME NEW V \in SUBSET U, V # U
      PROVE  V \in T
  <2>1. V \in SUBSET S /\ U \in SUBSET S
    BY <1>6
  <2>2. <<V, U>> \in StrictSubsetOrdering(S)
    BY <1>6, <2>1 DEF StrictSubsetOrdering
  <2> QED
    BY <1>5, <2>1, <2>2
<1> QED
  BY <1>6

-----------------------------------------------------------------------------
(* The recursion behind the sum *)

PickOf(s) == CHOOSE x \in s : TRUE

\* g is the table of the sums of f over the subsets of S.
IsSumTable(g, f, S) ==
  g = [s \in SUBSET S |-> IF s = {} THEN 0 ELSE f[PickOf(s)] + g[s \ {PickOf(s)}]]

LEMMA PickIsElement == ASSUME NEW s, s # {} PROVE PickOf(s) \in s
BY DEF PickOf

\* Two tables agree where both are defined.
LEMMA SumTablesAgree ==
  ASSUME NEW f, NEW A, NEW B, IsFiniteSet(A), NEW g, NEW h,
         IsSumTable(g, f, A), IsSumTable(h, f, B)
  PROVE  \A s \in SUBSET (A \cap B) : g[s] = h[s]
<1> DEFINE C == A \cap B
           T == {s \in SUBSET C : g[s] = h[s]}
<1>1. IsFiniteSet(C)
  BY FS_Subset
<1>2. ASSUME NEW U \in SUBSET C, \A V \in SUBSET U : V # U => V \in T
      PROVE  U \in T
  <2>1. U \in SUBSET A /\ U \in SUBSET B
    OBVIOUS
  <2>2. /\ g[U] = IF U = {} THEN 0 ELSE f[PickOf(U)] + g[U \ {PickOf(U)}]
        /\ h[U] = IF U = {} THEN 0 ELSE f[PickOf(U)] + h[U \ {PickOf(U)}]
    BY <2>1 DEF IsSumTable
  <2>3. CASE U = {}
    BY <2>2, <2>3
  <2>4. CASE U # {}
    <3>1. U \ {PickOf(U)} \in T
      BY <1>2, <2>4, PickIsElement
    <3> QED
      BY <2>2, <2>4, <3>1
  <2> QED
    BY <2>3, <2>4
<1>3. \A U \in SUBSET C : U \in T
  <2> HIDE DEF T, C
  <2> QED BY <1>1, <1>2, FiniteSubsetInduction
<1> QED
  BY <1>3

\* There is such a table for every finite set.
LEMMA SumTableExists ==
  ASSUME NEW f, NEW S, IsFiniteSet(S)
  PROVE  \E g : IsSumTable(g, f, S)
<1> DEFINE T == {U \in SUBSET S : \E g : IsSumTable(g, f, U)}
<1>1. ASSUME NEW U \in SUBSET S, \A V \in SUBSET U : V # U => V \in T
      PROVE  U \in T
  <2> DEFINE table(s) == CHOOSE g : IsSumTable(g, f, s)
             value(s) == IF s = {} THEN 0
                         ELSE f[PickOf(s)] + table(s \ {PickOf(s)})[s \ {PickOf(s)}]
             new == [s \in SUBSET U |-> value(s)]
  <2>1. \A V \in SUBSET U : V # U => IsSumTable(table(V), f, V)
    BY <1>1
  <2>2. ASSUME NEW V \in SUBSET U, V # U
        PROVE  table(V)[V] = value(V)
    <3>1. IsSumTable(table(V), f, V)
      BY <2>1, <2>2
    <3>2. table(V)[V] = IF V = {} THEN 0
                        ELSE f[PickOf(V)] + table(V)[V \ {PickOf(V)}]
      <4> HIDE DEF table
      <4> QED BY <3>1 DEF IsSumTable
    <3>3. CASE V = {}
      BY <3>2, <3>3
    <3>4. CASE V # {}
      <4> DEFINE W == V \ {PickOf(V)}
      <4>1. W \in SUBSET V /\ W \in SUBSET U /\ W # V /\ W # U
        BY <2>2, <3>4, PickIsElement
      <4>2. IsSumTable(table(W), f, W)
        BY <2>1, <4>1
      <4>3. IsFiniteSet(V) /\ W \in SUBSET (V \cap W)
        BY <4>1, FS_Subset
      <4>4. table(V)[W] = table(W)[W]
        <5> HIDE DEF table, W
        <5> QED BY <3>1, <4>2, <4>3, SumTablesAgree
      <4> QED
        BY <3>2, <3>4, <4>4
    <3> QED
      BY <3>3, <3>4
  <2>3. ASSUME NEW s \in SUBSET U
        PROVE  new[s] = IF s = {} THEN 0 ELSE f[PickOf(s)] + new[s \ {PickOf(s)}]
    <3>1. CASE s = {}
      BY <3>1
    <3>2. CASE s # {}
      <4> DEFINE W == s \ {PickOf(s)}
      <4>1. W \in SUBSET U /\ W # U
        BY <3>2, PickIsElement
      <4>2. table(W)[W] = value(W)
        BY <2>2, <4>1
      <4>3. new[W] = value(W) /\ new[s] = value(s)
        <5> HIDE DEF value, W
        <5> QED BY <4>1
      <4>4. value(s) = f[PickOf(s)] + table(W)[W]
        BY <3>2
      <4> HIDE DEF new, value, table
      <4> QED
        BY <3>2, <4>2, <4>3, <4>4
    <3> QED
      BY <3>1, <3>2
  <2>4. IsSumTable(new, f, U)
    <3>1. new = [s \in SUBSET U |-> new[s]]
      <4> HIDE DEF value
      <4> QED OBVIOUS
    <3> HIDE DEF new
    <3> QED
      BY <2>3, <3>1 DEF IsSumTable
  <2> QED
    <3> HIDE DEF new
    <3> QED BY <2>4
<1>2. \A U \in SUBSET S : U \in T
  <2> HIDE DEF T
  <2> QED BY <1>1, FiniteSubsetInduction
<1> QED
  BY <1>2

LEMMA SumIsTableEntry ==
  ASSUME NEW f, NEW S
  PROVE  SumFunctionOnSet(f, S) = (CHOOSE g : IsSumTable(g, f, S))[S]
BY DEF SumFunctionOnSet, FoldFunctionOnSet, MapThenFoldSet, IsSumTable, PickOf

LEMMA SumIsAnyTableEntry ==
  ASSUME NEW f, NEW A, IsFiniteSet(A), NEW g, IsSumTable(g, f, A), NEW S \in SUBSET A
  PROVE  SumFunctionOnSet(f, S) = g[S]
<1> DEFINE h == CHOOSE h : IsSumTable(h, f, S)
<1>1. IsFiniteSet(S) /\ S \in SUBSET (S \cap A)
  BY FS_Subset
<1>2. IsSumTable(h, f, S)
  BY <1>1, SumTableExists
<1>3. h[S] = g[S]
  <2> HIDE DEF h
  <2> QED BY <1>1, <1>2, SumTablesAgree
<1> QED
  BY <1>3, SumIsTableEntry

-----------------------------------------------------------------------------
(* Facts to cite *)

LEMMA SumOfNothing == ASSUME NEW f PROVE SumFunctionOnSet(f, {}) = 0
<1>1. IsFiniteSet({}) /\ {} \in SUBSET {}
  BY FS_EmptySet
<1>2. PICK g : IsSumTable(g, f, {})
  BY <1>1, SumTableExists
<1>3. g[{}] = 0
  BY <1>2 DEF IsSumTable
<1> QED
  BY <1>1, <1>2, <1>3, SumIsAnyTableEntry

LEMMA SumByPick ==
  ASSUME NEW f, NEW S, IsFiniteSet(S), S # {}
  PROVE  SumFunctionOnSet(f, S)
           = f[PickOf(S)] + SumFunctionOnSet(f, S \ {PickOf(S)})
<1>1. PICK g : IsSumTable(g, f, S)
  BY SumTableExists
<1>2. g[S] = f[PickOf(S)] + g[S \ {PickOf(S)}]
  BY <1>1 DEF IsSumTable
<1>3. SumFunctionOnSet(f, S) = g[S]
  BY <1>1, SumIsAnyTableEntry
<1>4. SumFunctionOnSet(f, S \ {PickOf(S)}) = g[S \ {PickOf(S)}]
  BY <1>1, SumIsAnyTableEntry
<1> QED
  BY <1>2, <1>3, <1>4

LEMMA SumType ==
  ASSUME NEW f, NEW S, IsFiniteSet(S), \A x \in S : f[x] \in Int
  PROVE  SumFunctionOnSet(f, S) \in Int
<1> DEFINE T == {U \in SUBSET S : SumFunctionOnSet(f, U) \in Int}
<1>1. ASSUME NEW U \in SUBSET S, \A V \in SUBSET U : V # U => V \in T
      PROVE  U \in T
  <2>1. CASE U = {}
    BY <2>1, SumOfNothing
  <2>2. CASE U # {}
    <3>1. IsFiniteSet(U) /\ PickOf(U) \in U
      BY <2>2, FS_Subset, PickIsElement
    <3>2. SumFunctionOnSet(f, U \ {PickOf(U)}) \in Int
      BY <1>1, <3>1
    <3> QED
      BY <2>2, <3>1, <3>2, SumByPick
  <2> QED
    BY <2>1, <2>2
<1>2. \A U \in SUBSET S : U \in T
  <2> HIDE DEF T
  <2> QED BY <1>1, FiniteSubsetInduction
<1> QED
  BY <1>2

\* Any element may be taken out first.
LEMMA SumByElement ==
  ASSUME NEW f, NEW S, IsFiniteSet(S), \A x \in S : f[x] \in Int
  PROVE  \A x \in S :
           SumFunctionOnSet(f, S) = f[x] + SumFunctionOnSet(f, S \ {x})
<1> DEFINE T == {U \in SUBSET S : \A x \in U :
                   SumFunctionOnSet(f, U) = f[x] + SumFunctionOnSet(f, U \ {x})}
<1>1. ASSUME NEW U \in SUBSET S, \A V \in SUBSET U : V # U => V \in T
      PROVE  U \in T
  <2> SUFFICES ASSUME NEW x \in U
               PROVE  SumFunctionOnSet(f, U) = f[x] + SumFunctionOnSet(f, U \ {x})
    OBVIOUS
  <2>1. IsFiniteSet(U) /\ PickOf(U) \in U
    BY FS_Subset, PickIsElement
  <2> DEFINE p == PickOf(U)
             rest == (U \ {x}) \ {p}
  <2>2. SumFunctionOnSet(f, U) = f[p] + SumFunctionOnSet(f, U \ {p})
    BY <2>1, SumByPick
  <2>3. CASE x = p
    BY <2>2, <2>3
  <2>4. CASE x # p
    <3>1. U \ {p} \in T /\ x \in U \ {p} /\ U \ {x} \in T /\ p \in U \ {x}
      BY <1>1, <2>1, <2>4
    <3>2. (U \ {p}) \ {x} = rest
      OBVIOUS
    <3>3. SumFunctionOnSet(f, U \ {p}) = f[x] + SumFunctionOnSet(f, rest)
      BY <3>1, <3>2
    <3>4. SumFunctionOnSet(f, U \ {x}) = f[p] + SumFunctionOnSet(f, rest)
      BY <3>1
    <3>5. SumFunctionOnSet(f, rest) \in Int /\ f[x] \in Int /\ f[p] \in Int
      <4>1. rest \in SUBSET S /\ IsFiniteSet(rest)
        BY FS_Subset
      <4> QED
        BY <2>1, <4>1, SumType
    <3> HIDE DEF rest, p
    <3> QED
      BY <2>2, <3>3, <3>4, <3>5
  <2> QED
    BY <2>3, <2>4
<1>2. \A U \in SUBSET S : U \in T
  <2> HIDE DEF T
  <2> QED BY <1>1, FiniteSubsetInduction
<1> QED
  BY <1>2

LEMMA SumWithElement ==
  ASSUME NEW f, NEW S, IsFiniteSet(S), \A y \in S : f[y] \in Int,
         NEW x, x \notin S, f[x] \in Int
  PROVE  SumFunctionOnSet(f, S \cup {x}) = SumFunctionOnSet(f, S) + f[x]
<1>1. IsFiniteSet(S \cup {x}) /\ (S \cup {x}) \ {x} = S
  BY FS_AddElement
<1>2. SumFunctionOnSet(f, S \cup {x}) = f[x] + SumFunctionOnSet(f, S)
  BY <1>1, SumByElement
<1> QED
  BY <1>2, SumType

\* The sum depends on the values only.
LEMMA SumOfSame ==
  ASSUME NEW f, NEW g, NEW S, IsFiniteSet(S), \A x \in S : f[x] = g[x]
  PROVE  SumFunctionOnSet(f, S) = SumFunctionOnSet(g, S)
<1> DEFINE T == {U \in SUBSET S : SumFunctionOnSet(f, U) = SumFunctionOnSet(g, U)}
<1>1. ASSUME NEW U \in SUBSET S, \A V \in SUBSET U : V # U => V \in T
      PROVE  U \in T
  <2>1. CASE U = {}
    BY <2>1, SumOfNothing
  <2>2. CASE U # {}
    <3>1. IsFiniteSet(U) /\ PickOf(U) \in U
      BY <2>2, FS_Subset, PickIsElement
    <3>2. U \ {PickOf(U)} \in T
      BY <1>1, <3>1
    <3>3. /\ SumFunctionOnSet(f, U)
               = f[PickOf(U)] + SumFunctionOnSet(f, U \ {PickOf(U)})
          /\ SumFunctionOnSet(g, U)
               = g[PickOf(U)] + SumFunctionOnSet(g, U \ {PickOf(U)})
      BY <2>2, <3>1, SumByPick
    <3>4. f[PickOf(U)] = g[PickOf(U)]
      BY <3>1
    <3> QED
      BY <3>2, <3>3, <3>4
  <2> QED
    BY <2>1, <2>2
<1>2. \A U \in SUBSET S : U \in T
  <2> HIDE DEF T
  <2> QED BY <1>1, FiniteSubsetInduction
<1> QED
  BY <1>2

\* Where one function is at most the other, so is its sum.
LEMMA SumIsMonotone ==
  ASSUME NEW f, NEW g, NEW S, IsFiniteSet(S),
         \A x \in S : f[x] \in Int /\ g[x] \in Int /\ f[x] <= g[x]
  PROVE  SumFunctionOnSet(f, S) <= SumFunctionOnSet(g, S)
<1> DEFINE T == {U \in SUBSET S : SumFunctionOnSet(f, U) <= SumFunctionOnSet(g, U)}
<1>1. ASSUME NEW U \in SUBSET S, \A V \in SUBSET U : V # U => V \in T
      PROVE  U \in T
  <2>1. CASE U = {}
    <3>1. SumFunctionOnSet(f, U) = 0 /\ SumFunctionOnSet(g, U) = 0
      BY <2>1, SumOfNothing
    <3> QED
      BY <3>1
  <2>2. CASE U # {}
    <3> DEFINE p == PickOf(U)
               V == U \ {p}
    <3>1. IsFiniteSet(U) /\ p \in U /\ IsFiniteSet(V)
      BY <2>2, FS_Subset, PickIsElement
    <3>2. V \in T
      BY <1>1, <3>1
    <3>3. /\ SumFunctionOnSet(f, U) = f[p] + SumFunctionOnSet(f, V)
          /\ SumFunctionOnSet(g, U) = g[p] + SumFunctionOnSet(g, V)
      BY <2>2, <3>1, SumByPick
    <3>4. SumFunctionOnSet(f, V) \in Int /\ SumFunctionOnSet(g, V) \in Int
      BY <3>1, SumType
    <3>5. f[p] \in Int /\ g[p] \in Int /\ f[p] <= g[p]
      BY <3>1
    <3>6. SumFunctionOnSet(f, V) <= SumFunctionOnSet(g, V)
      BY <3>2
    <3> HIDE DEF p, V
    <3>7. SumFunctionOnSet(f, U) <= SumFunctionOnSet(g, U)
      BY <3>3, <3>4, <3>5, <3>6
    <3> QED
      BY <3>7
  <2> QED
    BY <2>1, <2>2
<1>2. \A U \in SUBSET S : U \in T
  <2> HIDE DEF T
  <2> QED BY <1>1, FiniteSubsetInduction
<1> QED
  BY <1>2

\* A sum of naturals is one, and at least each of its terms.
LEMMA SumOfNaturals ==
  ASSUME NEW f, NEW S, IsFiniteSet(S), \A x \in S : f[x] \in Nat
  PROVE  /\ SumFunctionOnSet(f, S) \in Nat
         /\ \A x \in S : f[x] <= SumFunctionOnSet(f, S)
<1> DEFINE zero == [x \in S |-> 0]
<1>1. \A U \in SUBSET S : SumFunctionOnSet(zero, U) = 0
  <2> DEFINE T == {U \in SUBSET S : SumFunctionOnSet(zero, U) = 0}
  <2>1. ASSUME NEW U \in SUBSET S, \A V \in SUBSET U : V # U => V \in T
        PROVE  U \in T
    <3>1. CASE U = {}
      BY <3>1, SumOfNothing
    <3>2. CASE U # {}
      <4>1. IsFiniteSet(U) /\ PickOf(U) \in U
        BY <3>2, FS_Subset, PickIsElement
      <4>2. U \ {PickOf(U)} \in T /\ zero[PickOf(U)] = 0
        BY <2>1, <4>1
      <4>3. SumFunctionOnSet(zero, U)
              = zero[PickOf(U)] + SumFunctionOnSet(zero, U \ {PickOf(U)})
        <5> HIDE DEF zero
        <5> QED BY <3>2, <4>1, SumByPick
      <4> HIDE DEF zero
      <4> QED
        BY <4>2, <4>3
    <3> QED
      BY <3>1, <3>2
  <2> HIDE DEF T, zero
  <2>2. \A U \in SUBSET S : U \in T
    BY <2>1, FiniteSubsetInduction
  <2> QED
    BY <2>2 DEF T
<1>2. \A U \in SUBSET S : SumFunctionOnSet(f, U) \in Nat
  <2> SUFFICES ASSUME NEW U \in SUBSET S
               PROVE  SumFunctionOnSet(f, U) \in Nat
    OBVIOUS
  <2>1. IsFiniteSet(U) /\ SumFunctionOnSet(f, U) \in Int
    BY FS_Subset, SumType
  <2>2. \A x \in U : zero[x] \in Int /\ f[x] \in Int /\ zero[x] <= f[x]
    OBVIOUS
  <2>3. SumFunctionOnSet(zero, U) <= SumFunctionOnSet(f, U)
    <3> HIDE DEF zero
    <3> QED BY <2>1, <2>2, SumIsMonotone
  <2>4. SumFunctionOnSet(zero, U) = 0
    BY <1>1
  <2> HIDE DEF zero
  <2> QED
    BY <2>1, <2>3, <2>4
<1>3. ASSUME NEW x \in S
      PROVE  f[x] <= SumFunctionOnSet(f, S)
  <2>1. SumFunctionOnSet(f, S) = f[x] + SumFunctionOnSet(f, S \ {x})
    BY SumByElement
  <2>2. SumFunctionOnSet(f, S \ {x}) \in Nat /\ f[x] \in Nat
    BY <1>2
  <2> QED
    BY <2>1, <2>2
<1> QED
  BY <1>2, <1>3

\* What changing one value does to the sum.
LEMMA SumAfterChange ==
  ASSUME NEW f, NEW S, IsFiniteSet(S), \A y \in S : f[y] \in Int,
         NEW x \in S, NEW g, g[x] \in Int, \A y \in S \ {x} : g[y] = f[y]
  PROVE  SumFunctionOnSet(g, S) = SumFunctionOnSet(f, S) - f[x] + g[x]
<1> DEFINE rest == S \ {x}
<1>1. IsFiniteSet(rest)
  BY FS_Subset
<1>2. \A y \in S : g[y] \in Int
  OBVIOUS
<1>3. SumFunctionOnSet(f, S) = f[x] + SumFunctionOnSet(f, rest)
  BY SumByElement
<1>4. SumFunctionOnSet(g, S) = g[x] + SumFunctionOnSet(g, rest)
  BY <1>2, SumByElement
<1>5. SumFunctionOnSet(f, rest) = SumFunctionOnSet(g, rest)
  <2>1. \A y \in rest : f[y] = g[y]
    OBVIOUS
  <2> HIDE DEF rest
  <2> QED BY <1>1, <2>1, SumOfSame
<1>6. SumFunctionOnSet(f, rest) \in Int
  <2>1. \A y \in rest : f[y] \in Int
    OBVIOUS
  <2> HIDE DEF rest
  <2> QED BY <1>1, <2>1, SumType
<1> HIDE DEF rest
<1> QED
  BY <1>3, <1>4, <1>5, <1>6

\* A sum is that of a part and that of the rest.
LEMMA SumOfParts ==
  ASSUME NEW f, NEW S, IsFiniteSet(S), \A y \in S : f[y] \in Int, NEW A \in SUBSET S
  PROVE  SumFunctionOnSet(f, S) = SumFunctionOnSet(f, A) + SumFunctionOnSet(f, S \ A)
<1> DEFINE T == {U \in SUBSET A : SumFunctionOnSet(f, (S \ A) \cup U)
                                   = SumFunctionOnSet(f, U) + SumFunctionOnSet(f, S \ A)}
<1>1. IsFiniteSet(A) /\ IsFiniteSet(S \ A)
  BY FS_Subset
<1>2. SumFunctionOnSet(f, S \ A) \in Int
  BY <1>1, SumType
<1>3. ASSUME NEW U \in SUBSET A, \A V \in SUBSET U : V # U => V \in T
      PROVE  U \in T
  <2>1. CASE U = {}
    <3>1. (S \ A) \cup U = S \ A /\ SumFunctionOnSet(f, U) = 0
      BY <2>1, SumOfNothing
    <3> QED
      BY <1>2, <3>1
  <2>2. CASE U # {}
    <3> DEFINE p == PickOf(U)
               V == U \ {p}
               all == (S \ A) \cup U
    <3>1. IsFiniteSet(U) /\ p \in U /\ IsFiniteSet(V) /\ IsFiniteSet(all)
      <4>1. all \in SUBSET S
        OBVIOUS
      <4> QED
        BY <2>2, <4>1, FS_Subset, PickIsElement
    <3>2. V \in T
      BY <1>3, <3>1
    <3>3. all \ {p} = (S \ A) \cup V /\ p \in all
      BY <3>1
    <3>4. SumFunctionOnSet(f, U) = f[p] + SumFunctionOnSet(f, V)
      BY <3>1, SumByElement
    <3>5. SumFunctionOnSet(f, all) = f[p] + SumFunctionOnSet(f, (S \ A) \cup V)
      <4>1. \A y \in all : f[y] \in Int
        OBVIOUS
      <4> HIDE DEF all, V, p
      <4> QED
        BY <3>1, <3>3, <4>1, SumByElement
    <3>6. SumFunctionOnSet(f, V) \in Int /\ f[p] \in Int
      BY <3>1, SumType
    <3>7. SumFunctionOnSet(f, (S \ A) \cup V)
            = SumFunctionOnSet(f, V) + SumFunctionOnSet(f, S \ A)
      BY <3>2
    <3> HIDE DEF p, V
    <3> QED
      BY <1>2, <3>4, <3>5, <3>6, <3>7
  <2> QED
    BY <2>1, <2>2
<1>4. \A U \in SUBSET A : U \in T
  <2> HIDE DEF T
  <2> QED BY <1>1, <1>3, FiniteSubsetInduction
<1>5. A \in T /\ (S \ A) \cup A = S
  BY <1>4
<1> QED
  BY <1>5

-----------------------------------------------------------------------------
(* Extremes of finite sets *)

\* A finite set of integers that is not empty has a smallest element.
LEMMA MinExists ==
  ASSUME NEW S, IsFiniteSet(S), S \subseteq Int, S # {}
  PROVE  Min(S) \in S /\ \A y \in S : Min(S) <= y
<1> DEFINE T == {U \in SUBSET S : U # {} => \E m \in U : \A y \in U : m <= y}
<1>1. ASSUME NEW U \in SUBSET S, \A V \in SUBSET U : V # U => V \in T
      PROVE  U \in T
  <2> SUFFICES ASSUME U # {} PROVE \E m \in U : \A y \in U : m <= y
    OBVIOUS
  <2>1. PICK x \in U : TRUE
    OBVIOUS
  <2>2. CASE U = {x}
    BY <2>1, <2>2
  <2>3. CASE U # {x}
    <3>1. U \ {x} # {} /\ U \ {x} \in SUBSET U /\ U \ {x} # U
      BY <2>1, <2>3
    <3>2. U \ {x} \in T
      <4> HIDE DEF T
      <4> QED BY <1>1, <3>1
    <3>3. \E m \in U \ {x} : \A y \in U \ {x} : m <= y
      BY <3>1, <3>2
    <3>4. PICK m \in U \ {x} : \A y \in U \ {x} : m <= y
      BY <3>3
    <3>5. CASE m <= x
      BY <3>4, <3>5
    <3>6. CASE ~(m <= x)
      BY <2>1, <3>4, <3>6
    <3> QED
      BY <3>5, <3>6
  <2> QED
    BY <2>2, <2>3
<1>2. \A U \in SUBSET S : U \in T
  <2> HIDE DEF T
  <2> QED BY <1>1, FiniteSubsetInduction
<1>3. \E m \in S : \A y \in S : m <= y
  BY <1>2
<1> QED
  BY <1>3 DEF Min

\* The sum does not depend on how the elements are numbered.
LEMMA SumOfShifted ==
  ASSUME NEW f, NEW g, NEW S, IsFiniteSet(S), S \subseteq Int,
         \A x \in S : f[x] \in Int /\ g[x + 1] = f[x]
  PROVE  SumFunctionOnSet(g, {x + 1 : x \in S}) = SumFunctionOnSet(f, S)
<1> DEFINE Shifted(U) == {x + 1 : x \in U}
           T == {U \in SUBSET S :
                   /\ IsFiniteSet(Shifted(U))
                   /\ SumFunctionOnSet(g, Shifted(U)) = SumFunctionOnSet(f, U)}
<1>1. ASSUME NEW U \in SUBSET S, \A V \in SUBSET U : V # U => V \in T
      PROVE  U \in T
  <2>1. CASE U = {}
    <3>1. Shifted(U) = {}
      BY <2>1
    <3>2. SumFunctionOnSet(g, Shifted(U)) = SumFunctionOnSet(f, U)
      BY <2>1, <3>1, SumOfNothing
    <3> QED
      BY <3>1, <3>2, FS_EmptySet
  <2>2. CASE U # {}
    <3>1. PICK x \in U : TRUE
      BY <2>2
    <3> DEFINE V == U \ {x}
    <3>2. V \in T
      BY <1>1, <3>1
    <3>3. IsFiniteSet(U) /\ IsFiniteSet(V) /\ IsFiniteSet(Shifted(V))
      BY <3>2, FS_Subset
    <3>4. /\ Shifted(U) = Shifted(V) \cup {x + 1} /\ x + 1 \notin Shifted(V)
      BY <3>1
    <3>5. \A y \in Shifted(V) : g[y] \in Int
      BY <3>1
    <3>6. x \in S /\ g[x + 1] = f[x] /\ f[x] \in Int
      BY <3>1
    <3>7. SumFunctionOnSet(g, Shifted(U)) = SumFunctionOnSet(g, Shifted(V)) + f[x]
      <4> HIDE DEF Shifted, V
      <4> QED
        BY <3>3, <3>4, <3>5, <3>6, SumWithElement
    <3>8. SumFunctionOnSet(f, U) = f[x] + SumFunctionOnSet(f, V)
      <4>1. \A y \in U : f[y] \in Int
        OBVIOUS
      <4> HIDE DEF Shifted, T
      <4>2. \A y \in U : SumFunctionOnSet(f, U) = f[y] + SumFunctionOnSet(f, U \ {y})
        BY <4>1, <3>3, SumByElement
      <4> QED
        BY <4>2, <3>1
    <3>9. SumFunctionOnSet(g, Shifted(V)) = SumFunctionOnSet(f, V)
      BY <3>2
    <3>10. SumFunctionOnSet(f, V) \in Int
      BY <3>3, SumType
    <3> HIDE DEF Shifted, V
    <3>11. SumFunctionOnSet(g, Shifted(U)) = SumFunctionOnSet(f, U)
      BY <3>6, <3>7, <3>8, <3>9, <3>10
    <3>12. IsFiniteSet(Shifted(U))
      BY <3>3, <3>4, FS_AddElement
    <3> QED
      BY <3>11, <3>12
  <2> QED
    BY <2>1, <2>2
<1> HIDE DEF T
<1>2. \A U \in SUBSET S : U \in T
  BY <1>1, FiniteSubsetInduction
<1> QED
  BY <1>2 DEF T
=============================================================================
