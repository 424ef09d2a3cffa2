---------------------------- MODULE LedgerProofs ----------------------------
(***************************************************************************)
(* The tokens of the chain, for any accounts, stakes, amounts and genesis  *)
(* parameters: sums over finite sets, the amounts of StakeLedger that add  *)
(* up to the supply, and its rewards, burns and validator flags.           *)
(***************************************************************************)
EXTENDS StakeLedger, FiniteSetTheorems, TLAPS

-----------------------------------------------------------------------------
(* Sums over finite sets.                                                   *)

(* A set of natural numbers that is not empty has a least element. *)
LEMMA LeastNat ==
    ASSUME NEW T, T \subseteq Nat, T # {}
    PROVE  \E n \in T : \A m \in T : n <= m
<1>1. IsWellFoundedOn(OpToRel(<, Nat), Nat)
    BY NatLessThanWellFounded, Zenon
<1>2. PICK n \in T : \A m \in T : ~ (<<m, n>> \in OpToRel(<, Nat))
    BY <1>1, WFMin, Zenon
<1>3. ASSUME NEW m \in T PROVE n <= m
    <2>1. ~ (<<m, n>> \in OpToRel(<, Nat))
        BY <1>2, Zenon
    <2>2. ~ (m < n)
        BY <2>1, Zenon DEF OpToRel
    <2>3. QED  BY <2>2
<1>4. QED  BY <1>3, Zenon

(* Induction over the natural numbers, for a set instead of a predicate. *)
LEMMA CountingInduction ==
    ASSUME NEW G, 0 \in G, \A n \in Nat : n \in G => n + 1 \in G
    PROVE  \A n \in Nat : n \in G
<1>1. SUFFICES ASSUME NEW k \in Nat, k \notin G PROVE FALSE
    BY Zenon
<1>2. PICK n \in Nat \ G : \A m \in Nat \ G : n <= m
    BY <1>1, LeastNat, Zenon
<1>3. n # 0 /\ n - 1 \in Nat
    BY <1>2
<1>4. n - 1 \in G
    BY <1>2, <1>3
<1>5. (n - 1) + 1 \in G
    BY <1>3, <1>4, Zenon
<1>6. QED  BY <1>2, <1>3, <1>5

(* Induction over the subsets of a finite set: what follows from all ways   *)
(* to remove one element holds of all subsets.                              *)
LEMMA SetInduction ==
    ASSUME NEW S, IsFiniteSet(S), NEW G,
           \A T \in SUBSET S : (\A x \in T : T \ {x} \in G) => T \in G
    PROVE  \A T \in SUBSET S : T \in G
<1> DEFINE B == (SUBSET S) \ G
<1>1. SUFFICES ASSUME B # {} PROVE FALSE
    BY Zenon
<1>2. IsWellFoundedOn(StrictSubsetOrdering(S), FiniteSubsetsOf(S))
    BY FS_StrictSubsetOrderingWellFounded, Zenon
<1>3. FiniteSubsetsOf(S) = SUBSET S
    BY FS_FiniteSubsetsOfFinite, Zenon
<1>4. B \subseteq FiniteSubsetsOf(S)
    BY <1>3, Zenon
<1>5. PICK T \in B : \A U \in B : ~ (<<U, T>> \in StrictSubsetOrdering(S))
    BY <1>1, <1>2, <1>4, WFMin, Zenon
<1>6. ASSUME NEW x \in T PROVE T \ {x} \in G
    <2>1. T \ {x} \in SUBSET S /\ T \ {x} \subseteq T /\ T \ {x} # T
        BY <1>5
    <2>2. <<T \ {x}, T>> \in StrictSubsetOrdering(S)
        BY <2>1, <1>5, Zenon DEF StrictSubsetOrdering
    <2>3. QED  BY <2>1, <2>2, <1>5, Zenon
<1>7. QED  BY <1>5, <1>6, Zenon

Pick(s) == CHOOSE x \in s : TRUE
SumStep(f, g, s) == IF s = {} THEN 0 ELSE f[Pick(s)] + g[s \ {Pick(s)}]
SumIter(f, S) == CHOOSE g : g = [s \in SUBSET S |-> SumStep(f, g, s)]

(* A sum is the value of the function that the library's fold chooses. *)
LEMMA SumUnfold ==
    ASSUME NEW f, NEW S
    PROVE  SumFunctionOnSet(f, S) = SumIter(f, S)[S]
BY Zenon DEF SumFunctionOnSet, FoldFunctionOnSet, MapThenFoldSet, SumIter, SumStep, Pick

(* Such a function exists, built up by the size of the subsets. *)
LEMMA SumIterExists ==
    ASSUME NEW f, NEW S, IsFiniteSet(S)
    PROVE  \E g : g = [s \in SUBSET S |-> SumStep(f, g, s)]
<1> DEFINE Good(g, n) == \A s \in SUBSET S : Cardinality(s) <= n => g[s] = SumStep(f, g, s)
           G == {n \in Nat : \E g : Good(g, n)}
<1>0. \A s \in SUBSET S : IsFiniteSet(s) /\ Cardinality(s) \in Nat
    BY FS_Subset, FS_CardinalityType, Zenon
<1>1. 0 \in G
    <2> DEFINE g == [s \in SUBSET S |-> 0]
    <2>1. \A s \in SUBSET S : Cardinality(s) <= 0 => s = {}
        BY <1>0, FS_EmptySet
    <2>2. Good(g, 0)
        BY <2>1, Zenon DEF SumStep
    <2>3. QED  BY <2>2, Zenon
<1>2. ASSUME NEW n \in Nat, n \in G PROVE n + 1 \in G
    <2>1. PICK g : Good(g, n)
        BY <1>2, Zenon
    <2> DEFINE h == [s \in SUBSET S |-> IF Cardinality(s) <= n THEN g[s] ELSE SumStep(f, g, s)]
    <2>2. ASSUME NEW s \in SUBSET S, Cardinality(s) <= n + 1
          PROVE  h[s] = SumStep(f, h, s)
        <3>1. CASE s = {}
            <4>1. Cardinality(s) = 0
                BY <3>1, FS_EmptySet, Zenon
            <4>2. h[s] = g[s]
                BY <4>1
            <4>3. g[s] = SumStep(f, g, s)
                BY <4>1, <2>1
            <4>4. QED  BY <3>1, <4>2, <4>3, Zenon DEF SumStep
        <3>2. CASE s # {}
            <4> DEFINE c == Pick(s)
                       r == s \ {c}
            <4>1. c \in s
                BY <3>2, Zenon DEF Pick
            <4>2. r \in SUBSET S /\ Cardinality(r) = Cardinality(s) - 1
                BY <4>1, <1>0, FS_RemoveElement, Zenon
            <4>3. Cardinality(r) <= n
                BY <4>2, <1>0, <2>2
            <4>4. h[r] = g[r]
                BY <4>2, <4>3, Zenon
            <4>5. h[s] = SumStep(f, g, s)
                <5>1. CASE Cardinality(s) <= n
                    <6>1. g[s] = SumStep(f, g, s)
                        BY <5>1, <2>1, Zenon
                    <6>2. h[s] = g[s]
                        BY <5>1, Zenon
                    <6>3. QED  BY <6>1, <6>2, Zenon
                <5>2. CASE ~ (Cardinality(s) <= n)
                    BY <5>2, Zenon
                <5>3. QED  BY <5>1, <5>2, Zenon
            <4>6. QED  BY <3>2, <4>4, <4>5, Zenon DEF SumStep
        <3>3. QED  BY <3>1, <3>2, Zenon
    <2>3. Good(h, n + 1)
        BY <2>2, Zenon
    <2> HIDE DEF h
    <2>4. \E k : Good(k, n + 1)
        BY <2>3, Zenon
    <2>5. QED  BY <2>4
<1>3. \A n \in Nat : n \in G
    <2> HIDE DEF G
    <2>1. QED  BY <1>1, <1>2, CountingInduction, Zenon
<1>4. Cardinality(S) \in G
    BY <1>0, <1>3, Zenon
<1>5. PICK g : Good(g, Cardinality(S))
    BY <1>4, Zenon
<1>6. \A s \in SUBSET S : Cardinality(s) <= Cardinality(S)
    BY FS_Subset, Zenon
<1>7. \A s \in SUBSET S : g[s] = SumStep(f, g, s)
    BY <1>5, <1>6, Zenon
<1> DEFINE h == [s \in SUBSET S |-> g[s]]
<1>8. ASSUME NEW s \in SUBSET S PROVE h[s] = SumStep(f, h, s)
    <2>1. s # {} => s \ {Pick(s)} \in SUBSET S
        BY Zenon
    <2>2. QED  BY <1>7, <2>1, Zenon DEF SumStep
<1>9. h = [s \in SUBSET S |-> SumStep(f, h, s)]
    BY <1>8, Zenon
<1>10. QED  BY <1>9, Zenon

(* So it satisfies its equation. *)
LEMMA SumIterEquation ==
    ASSUME NEW f, NEW S, IsFiniteSet(S)
    PROVE  \A s \in SUBSET S : SumIter(f, S)[s] = SumStep(f, SumIter(f, S), s)
<1>1. SumIter(f, S) = [s \in SUBSET S |-> SumStep(f, SumIter(f, S), s)]
    BY SumIterExists, Zenon DEF SumIter
<1> DEFINE g == SumIter(f, S)
<1>2. g = [s \in SUBSET S |-> SumStep(f, g, s)]
    BY <1>1, Zenon
<1> HIDE DEF g
<1>3. \A s \in SUBSET S : g[s] = SumStep(f, g, s)
    BY <1>2, Zenon
<1>4. QED  BY <1>3, Zenon DEF g

(* The function for a set and the one for its subset agree below the        *)
(* subset.                                                                  *)
LEMMA SumIterAgrees ==
    ASSUME NEW f, NEW S, IsFiniteSet(S), NEW T \in SUBSET S
    PROVE  \A s \in SUBSET T : SumIter(f, S)[s] = SumIter(f, T)[s]
<1> DEFINE G == {s \in SUBSET T : SumIter(f, S)[s] = SumIter(f, T)[s]}
<1>1. IsFiniteSet(T)
    BY FS_Subset, Zenon
<1>2. ASSUME NEW s \in SUBSET T, \A x \in s : s \ {x} \in G PROVE s \in G
    <2>1. SumIter(f, S)[s] = SumStep(f, SumIter(f, S), s)
        BY SumIterEquation, Zenon
    <2>2. SumIter(f, T)[s] = SumStep(f, SumIter(f, T), s)
        BY <1>1, SumIterEquation, Zenon
    <2>3. s # {} => Pick(s) \in s
        BY Zenon DEF Pick
    <2>4. QED  BY <1>2, <2>1, <2>2, <2>3, Zenon DEF SumStep
<1>3. \A s \in SUBSET T : s \in G
    <2> HIDE DEF G
    <2>1. QED  BY <1>1, <1>2, SetInduction, Zenon
<1>4. QED  BY <1>3, Zenon

(* The recursive equation of a sum. *)
LEMMA SumPick ==
    ASSUME NEW f, NEW S, IsFiniteSet(S)
    PROVE  /\ S = {} => SumFunctionOnSet(f, S) = 0
           /\ S # {} => SumFunctionOnSet(f, S) = f[Pick(S)] + SumFunctionOnSet(f, S \ {Pick(S)})
<1> DEFINE R == S \ {Pick(S)}
<1>0. SumIter(f, S)[S] = SumStep(f, SumIter(f, S), S)
    BY SumIterEquation, Zenon
<1>1. SumFunctionOnSet(f, S) = SumStep(f, SumIter(f, S), S)
    BY <1>0, SumUnfold, Zenon
<1>2. SumIter(f, S)[R] = SumIter(f, R)[R]
    BY SumIterAgrees
<1>3. SumFunctionOnSet(f, R) = SumIter(f, R)[R]
    BY SumUnfold, Zenon
<1>4. QED  BY <1>1, <1>2, <1>3, Zenon DEF SumStep

(* The sum over nothing. *)
LEMMA SumEmpty == ASSUME NEW f PROVE SumFunctionOnSet(f, {}) = 0
BY SumPick, FS_EmptySet, Zenon

(* A finite sum of integers is an integer. *)
LEMMA SumType ==
    ASSUME NEW f, NEW S, IsFiniteSet(S), \A x \in S : f[x] \in Int
    PROVE  SumFunctionOnSet(f, S) \in Int
<1> DEFINE G == {T \in SUBSET S : SumFunctionOnSet(f, T) \in Int}
<1>1. ASSUME NEW T \in SUBSET S, \A x \in T : T \ {x} \in G PROVE T \in G
    <2> DEFINE c == Pick(T)
    <2>1. IsFiniteSet(T)
        BY FS_Subset, Zenon
    <2>2. /\ T = {} => SumFunctionOnSet(f, T) = 0
          /\ T # {} => SumFunctionOnSet(f, T) = f[c] + SumFunctionOnSet(f, T \ {c})
        BY <2>1, SumPick, Zenon
    <2>3. T # {} => c \in T
        BY Zenon DEF Pick
    <2> HIDE DEF c
    <2>4. T # {} => f[c] \in Int /\ SumFunctionOnSet(f, T \ {c}) \in Int
        BY <1>1, <2>3, Zenon
    <2>5. QED  BY <2>2, <2>4
<1>2. \A T \in SUBSET S : T \in G
    <2> HIDE DEF G
    <2>1. QED  BY <1>1, SetInduction, Zenon
<1>3. QED  BY <1>2, Zenon

(* A finite sum of natural numbers is one. *)
LEMMA SumNat ==
    ASSUME NEW f, NEW S, IsFiniteSet(S), \A x \in S : f[x] \in Nat
    PROVE  SumFunctionOnSet(f, S) \in Nat
<1> DEFINE G == {T \in SUBSET S : SumFunctionOnSet(f, T) \in Nat}
<1>1. ASSUME NEW T \in SUBSET S, \A x \in T : T \ {x} \in G PROVE T \in G
    <2> DEFINE c == Pick(T)
    <2>1. IsFiniteSet(T)
        BY FS_Subset, Zenon
    <2>2. /\ T = {} => SumFunctionOnSet(f, T) = 0
          /\ T # {} => SumFunctionOnSet(f, T) = f[c] + SumFunctionOnSet(f, T \ {c})
        BY <2>1, SumPick, Zenon
    <2>3. T # {} => c \in T
        BY Zenon DEF Pick
    <2> HIDE DEF c
    <2>4. T # {} => f[c] \in Nat /\ SumFunctionOnSet(f, T \ {c}) \in Nat
        BY <1>1, <2>3, Zenon
    <2>5. QED  BY <2>2, <2>4
<1>2. \A T \in SUBSET S : T \in G
    <2> HIDE DEF G
    <2>1. QED  BY <1>1, SetInduction, Zenon
<1>3. QED  BY <1>2, Zenon

(* Any element may be taken out of a sum, not only the chosen one. *)
LEMMA SumRemove ==
    ASSUME NEW f, NEW S, IsFiniteSet(S), \A x \in S : f[x] \in Int
    PROVE  \A x \in S : SumFunctionOnSet(f, S) = f[x] + SumFunctionOnSet(f, S \ {x})
<1> DEFINE Ok(T) == \A x \in T : SumFunctionOnSet(f, T) = f[x] + SumFunctionOnSet(f, T \ {x})
           G == {T \in SUBSET S : Ok(T)}
<1>1. ASSUME NEW T \in SUBSET S, \A x \in T : T \ {x} \in G PROVE T \in G
    <2>0. IsFiniteSet(T)
        BY FS_Subset, Zenon
    <2>1. SUFFICES ASSUME NEW x \in T
                   PROVE  SumFunctionOnSet(f, T) = f[x] + SumFunctionOnSet(f, T \ {x})
        BY Zenon
    <2> DEFINE c == Pick(T)
    <2>2. c \in T
        BY Zenon DEF Pick
    <2>3. SumFunctionOnSet(f, T) = f[c] + SumFunctionOnSet(f, T \ {c})
        BY <2>0, <2>1, SumPick, Zenon
    <2> HIDE DEF c
    <2>4. CASE x = c
        BY <2>3, <2>4, Zenon
    <2>5. CASE x # c
        <3>1. SumFunctionOnSet(f, T \ {c}) = f[x] + SumFunctionOnSet(f, (T \ {c}) \ {x})
            BY <1>1, <2>2, <2>5, Zenon
        <3>2. SumFunctionOnSet(f, T \ {x}) = f[c] + SumFunctionOnSet(f, (T \ {x}) \ {c})
            BY <1>1, <2>2, <2>5, Zenon
        <3>3. (T \ {x}) \ {c} = (T \ {c}) \ {x}
            BY Zenon
        <3> DEFINE R == (T \ {c}) \ {x}
        <3>4. SumFunctionOnSet(f, R) \in Int
            <4>1. IsFiniteSet(R)
                BY FS_Subset, Zenon
            <4>2. QED  BY <4>1, SumType, Zenon
        <3>5. f[x] \in Int /\ f[c] \in Int
            BY <2>2, Zenon
        <3> DEFINE a == SumFunctionOnSet(f, R)
        <3>6. SumFunctionOnSet(f, T) = f[c] + (f[x] + a)
            BY <2>3, <3>1, Zenon
        <3>7. SumFunctionOnSet(f, T \ {x}) = f[c] + a
            BY <3>2, <3>3, Zenon
        <3> HIDE DEF a
        <3>8. f[c] + (f[x] + a) = f[x] + (f[c] + a)
            BY <3>4, <3>5 DEF a
        <3>9. QED  BY <3>6, <3>7, <3>8, Zenon
    <2>6. QED  BY <2>4, <2>5, Zenon
<1>2. \A T \in SUBSET S : T \in G
    <2> HIDE DEF G
    <2>1. QED  BY <1>1, SetInduction, Zenon
<1>3. QED  BY <1>2, Zenon

(* Functions that agree on a set have the same sum over it. *)
LEMMA SumSame ==
    ASSUME NEW f, NEW g, NEW S, IsFiniteSet(S), \A x \in S : f[x] = g[x]
    PROVE  SumFunctionOnSet(f, S) = SumFunctionOnSet(g, S)
<1> DEFINE G == {T \in SUBSET S : SumFunctionOnSet(f, T) = SumFunctionOnSet(g, T)}
<1>1. ASSUME NEW T \in SUBSET S, \A x \in T : T \ {x} \in G PROVE T \in G
    <2>1. IsFiniteSet(T)
        BY FS_Subset, Zenon
    <2>2. T # {} => Pick(T) \in T
        BY Zenon DEF Pick
    <2>3. QED  BY <1>1, <2>1, <2>2, SumPick
<1>2. \A T \in SUBSET S : T \in G
    <2> HIDE DEF G
    <2>1. QED  BY <1>1, SetInduction, Zenon
<1>3. QED  BY <1>2, Zenon

(* The sum after one value changed. *)
LEMMA SumExcept ==
    ASSUME NEW S, IsFiniteSet(S), NEW f \in [S -> Int], NEW x \in S, NEW v \in Int
    PROVE  SumFunction([f EXCEPT ![x] = v]) = (SumFunction(f) - f[x]) + v
<1> DEFINE g == [f EXCEPT ![x] = v]
<1>1. DOMAIN f = S /\ DOMAIN g = S
    BY Zenon
<1>2. g[x] = v /\ \A y \in S \ {x} : g[y] = f[y]
    BY Zenon
<1>3. \A y \in S : g[y] \in Int
    BY Zenon
<1> HIDE DEF g
<1>4. IsFiniteSet(S \ {x})
    BY FS_Subset, Zenon
<1>5. SumFunctionOnSet(g, S) = v + SumFunctionOnSet(g, S \ {x})
    BY <1>2, <1>3, SumRemove
<1>6. SumFunctionOnSet(f, S) = f[x] + SumFunctionOnSet(f, S \ {x})
    BY SumRemove
<1>7. SumFunctionOnSet(g, S \ {x}) = SumFunctionOnSet(f, S \ {x})
    BY <1>2, <1>4, SumSame
<1>8. SumFunctionOnSet(f, S \ {x}) \in Int
    BY <1>4, SumType, Zenon
<1>9. SumFunction(f) = SumFunctionOnSet(f, S) /\ SumFunction(g) = SumFunctionOnSet(g, S)
    BY <1>1, Zenon DEF SumFunction
<1>10. f[x] \in Int
    BY Zenon
<1> DEFINE a == SumFunctionOnSet(f, S \ {x})
<1>11. a \in Int /\ SumFunction(f) = f[x] + a /\ SumFunction(g) = v + a
    BY <1>5, <1>6, <1>7, <1>8, <1>9
<1> HIDE DEF a
<1>12. SumFunction(g) = (SumFunction(f) - f[x]) + v
    BY <1>10, <1>11
<1>13. QED  BY <1>12, Zenon DEF g

(* The sum of two functions. *)
LEMMA SumPlus ==
    ASSUME NEW f, NEW g, NEW h, NEW S, IsFiniteSet(S),
           \A x \in S : f[x] \in Int /\ g[x] \in Int /\ h[x] = f[x] + g[x]
    PROVE  SumFunctionOnSet(h, S) = SumFunctionOnSet(f, S) + SumFunctionOnSet(g, S)
<1> DEFINE G == {T \in SUBSET S : SumFunctionOnSet(h, T) = SumFunctionOnSet(f, T) + SumFunctionOnSet(g, T)}
<1>1. ASSUME NEW T \in SUBSET S, \A x \in T : T \ {x} \in G PROVE T \in G
    <2>1. IsFiniteSet(T)
        BY FS_Subset, Zenon
    <2>2. CASE T = {}
        <3>1. SumFunctionOnSet(h, T) = 0 /\ SumFunctionOnSet(f, T) = 0 /\ SumFunctionOnSet(g, T) = 0
            BY <2>2, SumEmpty, Zenon
        <3>2. QED  BY <3>1
    <2>3. CASE T # {}
        <3>1. PICK x \in T : TRUE
            BY <2>3, Zenon
        <3> DEFINE R == T \ {x}
                   a == SumFunctionOnSet(f, R)
                   b == SumFunctionOnSet(g, R)
                   c == SumFunctionOnSet(h, R)
        <3>2. IsFiniteSet(R)
            BY <2>1, FS_Subset, Zenon
        <3>3. a \in Int /\ b \in Int
            BY <3>2, SumType, Zenon
        <3>4. c = a + b
            BY <1>1, <3>1, Zenon
        <3>5. \A y \in T : f[y] \in Int /\ g[y] \in Int /\ h[y] \in Int /\ h[y] = f[y] + g[y]
            OBVIOUS
        <3>6. SumFunctionOnSet(f, T) = f[x] + a
            BY <2>1, <3>5, SumRemove
        <3>7. SumFunctionOnSet(g, T) = g[x] + b
            BY <2>1, <3>5, SumRemove
        <3>8. SumFunctionOnSet(h, T) = h[x] + c
            BY <2>1, <3>5, SumRemove
        <3> HIDE DEF a, b, c
        <3>9. SumFunctionOnSet(h, T) = SumFunctionOnSet(f, T) + SumFunctionOnSet(g, T)
            BY <3>3, <3>4, <3>5, <3>6, <3>7, <3>8
        <3>10. QED  BY <3>9, Zenon
    <2>4. QED  BY <2>2, <2>3, Zenon
<1>2. \A T \in SUBSET S : T \in G
    <2> HIDE DEF G
    <2>1. QED  BY <1>1, SetInduction, Zenon
<1>3. QED  BY <1>2, Zenon

(* Larger values have a larger sum. *)
LEMMA SumMonotone ==
    ASSUME NEW f, NEW g, NEW S, IsFiniteSet(S),
           \A x \in S : f[x] \in Int /\ g[x] \in Int /\ f[x] <= g[x]
    PROVE  SumFunctionOnSet(f, S) <= SumFunctionOnSet(g, S)
<1> DEFINE d == [x \in S |-> g[x] - f[x]]
<1>1. \A x \in S : d[x] \in Nat /\ d[x] \in Int /\ f[x] \in Int /\ g[x] = f[x] + d[x]
    OBVIOUS
<1> HIDE DEF d
<1>2. SumFunctionOnSet(g, S) = SumFunctionOnSet(f, S) + SumFunctionOnSet(d, S)
    BY <1>1, SumPlus
<1>3. SumFunctionOnSet(d, S) \in Nat
    BY <1>1, SumNat, Zenon
<1>4. SumFunctionOnSet(f, S) \in Int
    BY SumType, Zenon
<1>5. QED  BY <1>2, <1>3, <1>4

(* A sum splits into the sum over a subset and that over the rest. *)
LEMMA SumDisjoint ==
    ASSUME NEW f, NEW S, IsFiniteSet(S), NEW T \in SUBSET S, \A x \in S : f[x] \in Int
    PROVE  SumFunctionOnSet(f, S) = SumFunctionOnSet(f, T) + SumFunctionOnSet(f, S \ T)
<1> DEFINE G == {U \in SUBSET T : SumFunctionOnSet(f, (S \ T) \cup U)
                                    = SumFunctionOnSet(f, U) + SumFunctionOnSet(f, S \ T)}
<1>0. IsFiniteSet(T) /\ IsFiniteSet(S \ T)
    BY FS_Subset, Zenon
<1>a. SumFunctionOnSet(f, S \ T) \in Int
    BY <1>0, SumType, Zenon
<1>1. ASSUME NEW U \in SUBSET T, \A x \in U : U \ {x} \in G PROVE U \in G
    <2> DEFINE V == (S \ T) \cup U
    <2>1. IsFiniteSet(U) /\ IsFiniteSet(V) /\ U \subseteq S /\ V \subseteq S
        BY <1>0, FS_Subset, Zenon
    <2>2. CASE U = {}
        <3>1. V = S \ T /\ SumFunctionOnSet(f, U) = 0
            BY <2>2, SumEmpty, Zenon
        <3> DEFINE b == SumFunctionOnSet(f, S \ T)
        <3>2. SumFunctionOnSet(f, V) = b /\ b \in Int
            BY <3>1, <1>a, Zenon
        <3> HIDE DEF b, V
        <3>3. SumFunctionOnSet(f, V) = SumFunctionOnSet(f, U) + b
            BY <3>1, <3>2
        <3>4. QED  BY <3>3, Zenon DEF b, V
    <2>3. CASE U # {}
        <3>1. PICK x \in U : TRUE
            BY <2>3, Zenon
        <3>2. SumFunctionOnSet(f, U) = f[x] + SumFunctionOnSet(f, U \ {x})
            BY <2>1, SumRemove
        <3>3. SumFunctionOnSet(f, V) = f[x] + SumFunctionOnSet(f, V \ {x})
            BY <2>1, SumRemove
        <3>4. V \ {x} = (S \ T) \cup (U \ {x})
            BY Zenon
        <3>5. SumFunctionOnSet(f, V \ {x})
                = SumFunctionOnSet(f, U \ {x}) + SumFunctionOnSet(f, S \ T)
            BY <1>1, <3>1, <3>4, Zenon
        <3>6. SumFunctionOnSet(f, U \ {x}) \in Int
            <4>1. IsFiniteSet(U \ {x})
                BY <2>1, FS_Subset, Zenon
            <4>2. QED  BY <4>1, SumType, Zenon
        <3>7. f[x] \in Int
            BY Zenon
        <3> DEFINE a == SumFunctionOnSet(f, U \ {x})
                   b == SumFunctionOnSet(f, S \ T)
        <3>8. a \in Int /\ b \in Int
            BY <1>a, <3>6, Zenon
        <3>9. SumFunctionOnSet(f, V) = f[x] + (a + b) /\ SumFunctionOnSet(f, U) = f[x] + a
            BY <3>2, <3>3, <3>5, Zenon
        <3> HIDE DEF a, V
        <3>10. SumFunctionOnSet(f, V) = SumFunctionOnSet(f, U) + b
            BY <3>7, <3>8, <3>9
        <3>11. QED  BY <3>10, Zenon DEF V
    <2>4. QED  BY <2>2, <2>3, Zenon
<1>2. \A U \in SUBSET T : U \in G
    <2> HIDE DEF G
    <2>1. QED  BY <1>0, <1>1, SetInduction, Zenon
<1>3. T \in G
    BY <1>2, Zenon
<1>4. (S \ T) \cup T = S
    BY Zenon
<1>5. QED  BY <1>3, <1>4, Zenon

(* A part of the values has at most the whole sum. *)
LEMMA SumPart ==
    ASSUME NEW f, NEW S, IsFiniteSet(S), NEW T \in SUBSET S, \A x \in S : f[x] \in Nat
    PROVE  SumFunctionOnSet(f, T) \in Nat /\ SumFunctionOnSet(f, T) <= SumFunctionOnSet(f, S)
<1>1. IsFiniteSet(T) /\ IsFiniteSet(S \ T)
    BY FS_Subset, Zenon
<1>2. SumFunctionOnSet(f, T) \in Nat
    BY <1>1, SumNat, Zenon
<1>3. SumFunctionOnSet(f, S \ T) \in Nat
    BY <1>1, SumNat, Zenon
<1>4. SumFunctionOnSet(f, S) = SumFunctionOnSet(f, T) + SumFunctionOnSet(f, S \ T)
    BY SumDisjoint
<1>5. QED  BY <1>2, <1>3, <1>4

(* So has a single value. *)
LEMMA SumElement ==
    ASSUME NEW S, IsFiniteSet(S), NEW f \in [S -> Nat], NEW x \in S
    PROVE  f[x] \in Nat /\ SumFunction(f) \in Nat /\ f[x] <= SumFunction(f)
<1>1. SumFunction(f) = SumFunctionOnSet(f, S)
    BY Zenon DEF SumFunction
<1>2. SumFunctionOnSet(f, S) = f[x] + SumFunctionOnSet(f, S \ {x})
    BY SumRemove
<1>3. IsFiniteSet(S \ {x}) /\ \A y \in S \ {x} : f[y] \in Nat
    BY FS_Subset, Zenon
<1>4. SumFunctionOnSet(f, S \ {x}) \in Nat
    BY <1>3, SumNat, Zenon
<1>5. f[x] \in Nat
    BY Zenon
<1>6. QED  BY <1>1, <1>2, <1>4, <1>5

(* Zeros add up to zero. *)
LEMMA SumZero ==
    ASSUME NEW f, NEW S, IsFiniteSet(S), \A x \in S : f[x] = 0
    PROVE  SumFunctionOnSet(f, S) = 0
<1> DEFINE G == {T \in SUBSET S : SumFunctionOnSet(f, T) = 0}
<1>1. ASSUME NEW T \in SUBSET S, \A x \in T : T \ {x} \in G PROVE T \in G
    <2>1. IsFiniteSet(T)
        BY FS_Subset, Zenon
    <2>2. T # {} => Pick(T) \in T
        BY Zenon DEF Pick
    <2>3. T # {} => f[Pick(T)] = 0 /\ SumFunctionOnSet(f, T \ {Pick(T)}) = 0
        BY <1>1, <2>2, Zenon
    <2>4. /\ T = {} => SumFunctionOnSet(f, T) = 0
          /\ T # {} => SumFunctionOnSet(f, T) = f[Pick(T)] + SumFunctionOnSet(f, T \ {Pick(T)})
        BY <2>1, SumPick, Zenon
    <2>5. SumFunctionOnSet(f, T) = 0
        BY <2>3, <2>4
    <2>6. QED  BY <2>5, Zenon
<1>2. \A T \in SUBSET S : T \in G
    <2> HIDE DEF G
    <2>1. QED  BY <1>1, SetInduction, Zenon
<1>3. QED  BY <1>2, Zenon

(* Values below a proportion of others have a sum below that proportion. *)
LEMMA SumProportional ==
    ASSUME NEW f, NEW g, NEW S, IsFiniteSet(S), NEW w \in Nat, NEW r \in Nat,
           \A x \in S : f[x] \in Nat /\ g[x] \in Nat /\ f[x] * w <= r * g[x]
    PROVE  SumFunctionOnSet(f, S) * w <= r * SumFunctionOnSet(g, S)
<1> DEFINE G == {T \in SUBSET S : SumFunctionOnSet(f, T) * w <= r * SumFunctionOnSet(g, T)}
<1>1. ASSUME NEW T \in SUBSET S, \A x \in T : T \ {x} \in G PROVE T \in G
    <2>1. IsFiniteSet(T)
        BY FS_Subset, Zenon
    <2>2. CASE T = {}
        <3>1. SumFunctionOnSet(f, T) = 0 /\ SumFunctionOnSet(g, T) = 0
            BY <2>2, SumEmpty, Zenon
        <3>2. 0 * w <= r * 0
            OBVIOUS
        <3>3. QED  BY <3>1, <3>2, Zenon
    <2>3. CASE T # {}
        <3>1. PICK x \in T : TRUE
            BY <2>3, Zenon
        <3> DEFINE a == SumFunctionOnSet(f, T \ {x})
                   b == SumFunctionOnSet(g, T \ {x})
        <3>2. IsFiniteSet(T \ {x}) /\ \A y \in T : f[y] \in Nat /\ f[y] \in Int /\ g[y] \in Nat /\ g[y] \in Int
            BY <2>1, FS_Subset
        <3>3. a \in Nat /\ b \in Nat
            BY <3>2, SumNat, Zenon
        <3>4. a * w <= r * b
            BY <1>1, <3>1, Zenon
        <3>5. SumFunctionOnSet(f, T) = f[x] + a /\ SumFunctionOnSet(g, T) = g[x] + b
            BY <2>1, <3>2, SumRemove
        <3> HIDE DEF a, b
        <3>6. PICK p \in Nat, q \in Nat : p = f[x] /\ q = g[x] /\ p * w <= r * q
            BY <3>1, Zenon
        <3>7. (p + a) * w = p * w + a * w /\ r * (q + b) = r * q + r * b
            BY <3>3, <3>6
        <3>8. (p + a) * w <= r * (q + b)
            BY <3>3, <3>4, <3>6, <3>7
        <3>9. SumFunctionOnSet(f, T) * w <= r * SumFunctionOnSet(g, T)
            BY <3>5, <3>6, <3>8, Zenon
        <3>10. QED  BY <3>9, Zenon
    <2>4. QED  BY <2>2, <2>3, Zenon
<1>2. \A T \in SUBSET S : T \in G
    <2> HIDE DEF G
    <2>1. QED  BY <1>1, SetInduction, Zenon
<1>3. QED  BY <1>2, Zenon

(* A finite set of numbers has the greatest element that Max chooses. *)
LEMMA GreatestExists ==
    ASSUME NEW S, IsFiniteSet(S), S \subseteq Nat, S # {}
    PROVE  Max(S) \in S
<1> DEFINE G == {T \in SUBSET S : T = {} \/ \E m \in T : \A y \in T : m >= y}
<1>1. ASSUME NEW T \in SUBSET S, \A x \in T : T \ {x} \in G PROVE T \in G
    <2>1. CASE T = {}
        BY <2>1, Zenon
    <2>2. CASE T # {}
        <3>1. PICK x \in T : TRUE
            BY <2>2, Zenon
        <3>2. T \ {x} = {} \/ \E m \in T \ {x} : \A y \in T \ {x} : m >= y
            BY <1>1, <3>1, Zenon
        <3>3. CASE T \ {x} = {}
            <4>1. \A y \in T : x >= y
                BY <3>3
            <4>2. QED  BY <3>1, <4>1, Zenon
        <3>4. CASE \E m \in T \ {x} : \A y \in T \ {x} : m >= y
            <4>1. PICK m \in T \ {x} : \A y \in T \ {x} : m >= y
                BY <3>4, Zenon
            <4>2. CASE m >= x
                BY <4>1, <4>2, Zenon
            <4>3. CASE x >= m
                <5>1. \A y \in T : x >= y
                    BY <4>1, <4>3
                <5>2. QED  BY <3>1, <5>1, Zenon
            <4>4. QED  BY <4>2, <4>3
        <3>5. QED  BY <3>2, <3>3, <3>4, Zenon
    <2>3. QED  BY <2>1, <2>2, Zenon
<1>2. \A T \in SUBSET S : T \in G
    <2> HIDE DEF G
    <2>1. QED  BY <1>1, SetInduction, Zenon
<1>3. \E m \in S : \A y \in S : m >= y
    BY <1>2, Zenon
<1>4. QED  BY <1>3, Zenon DEF Max

-----------------------------------------------------------------------------
(* StakeLedger: the amounts add up to the supply.                           *)

(* Tokens are accounted for, and there are never more than the cap. *)
LedgerInv == TypeOK /\ SupplyBacked /\ totalSupply <= MaxSupply

(* A number below Word is not wrapped. *)
LEMMA NoWrap ==
    /\ Word \in Nat /\ Word > 0 /\ MaxSupply \in Nat /\ MaxSupply < Word
    /\ \A n \in Nat : Wrap(n) \in Nat /\ Wrap(n) <= n /\ Wrap(n) < Word
    /\ \A n \in Nat : n < Word => Wrap(n) = n
<1>1. Word \in Nat /\ Word > 0 /\ MaxSupply \in Nat /\ MaxSupply < Word
    BY GenesisAssumption
<1>2. ASSUME NEW n \in Nat PROVE Wrap(n) \in Nat /\ Wrap(n) <= n /\ Wrap(n) < Word /\ (n < Word => Wrap(n) = n)
    BY <1>1, SMT DEF Wrap
<1>3. QED  BY <1>1, <1>2, Zenon

(* The accounts and the validators are finitely many. *)
LEMMA FinitelyMany == IsFiniteSet(Accounts) /\ IsFiniteSet(Addr) /\ Addr \subseteq Accounts
<1>1. IsFiniteSet(Addr)
    BY LedgerAssumption, Zenon
<1>2. QED  BY <1>1, FS_AddElement, Zenon DEF Accounts

(* What the ledger's invariant says of single amounts. *)
LEMMA AmountsBacked ==
    ASSUME LedgerInv
    PROVE  /\ SumFunction(balance) \in Nat /\ SumFunction(staked) \in Nat
           /\ SumFunction(balance) + SumFunction(staked) = totalSupply
           /\ totalSupply \in Nat /\ totalSupply <= MaxSupply /\ totalSupply < Word
           /\ SumFunction(balance) < Word
           /\ \A a \in Accounts : balance[a] \in Nat /\ balance[a] <= SumFunction(balance)
           /\ \A a \in Addr : staked[a] \in Nat /\ staked[a] <= SumFunction(staked)
<1>1. balance \in [Accounts -> Nat] /\ staked \in [Addr -> Nat] /\ totalSupply \in Nat
    BY Zenon DEF LedgerInv, TypeOK
<1>2. ASSUME NEW a \in Accounts
      PROVE  balance[a] \in Nat /\ SumFunction(balance) \in Nat /\ balance[a] <= SumFunction(balance)
    BY <1>1, FinitelyMany, SumElement, Zenon
<1>3. ASSUME NEW a \in Addr
      PROVE  staked[a] \in Nat /\ SumFunction(staked) \in Nat /\ staked[a] <= SumFunction(staked)
    BY <1>1, FinitelyMany, SumElement, Zenon
<1>4. Admin \in Addr /\ Admin \in Accounts
    BY LedgerAssumption, Zenon DEF Accounts
<1>5. totalSupply = SumFunction(balance) + SumFunction(staked) /\ totalSupply <= MaxSupply
    BY Zenon DEF LedgerInv, SupplyBacked
<1>6. SumFunction(balance) \in Nat /\ SumFunction(staked) \in Nat
    BY <1>2, <1>3, <1>4, Zenon
<1>7. totalSupply < Word /\ SumFunction(balance) < Word
    BY <1>1, <1>5, <1>6, NoWrap
<1>8. QED  BY <1>1, <1>2, <1>3, <1>5, <1>6, <1>7, Zenon

(* One amount of a function changes, and the sum changes with it. *)
LEMMA SetAmount ==
    ASSUME NEW S, IsFiniteSet(S), NEW f \in [S -> Nat], NEW x \in S, NEW n \in Nat
    PROVE  SumFunction([f EXCEPT ![x] = n]) = (SumFunction(f) - f[x]) + n
<1>1. f \in [S -> Int] /\ n \in Int
    OBVIOUS
<1>2. QED  BY <1>1, SumExcept, Zenon

(* An amount moves between accounts, which may be the same, and the sum     *)
(* stays.                                                                   *)
LEMMA MoveKeepsSum ==
    ASSUME NEW b \in [Accounts -> Nat], NEW from \in Accounts, NEW to \in Accounts, NEW n \in Nat,
           b[from] >= n, SumFunction(b) < Word
    PROVE  /\ AddBalance(SubBalance(b, from, n), to, n) \in [Accounts -> Nat]
           /\ SumFunction(AddBalance(SubBalance(b, from, n), to, n)) = SumFunction(b)
<1>1. PICK x \in Nat : x = b[from] /\ x - n \in Nat
    OBVIOUS
<1>2. PICK d : d = SubBalance(b, from, n)
    BY Zenon
<1>3. d = [b EXCEPT ![from] = x - n]
    BY <1>1, <1>2, Zenon DEF SubBalance
<1>4. d \in [Accounts -> Nat] /\ SumFunction(d) = (SumFunction(b) - x) + (x - n)
    <2>0. [b EXCEPT ![from] = x - n] \in [Accounts -> Nat]
        BY <1>1, Zenon
    <2>1. SumFunction([b EXCEPT ![from] = x - n]) = (SumFunction(b) - b[from]) + (x - n)
        BY <1>1, FinitelyMany, SetAmount, Zenon
    <2>2. QED  BY <1>1, <1>3, <2>0, <2>1, Zenon
<1>5. SumFunction(b) \in Nat
    BY FinitelyMany, SumElement, Zenon
<1>6. SumFunction(d) = SumFunction(b) - n
    BY <1>1, <1>4, <1>5
<1>7. PICK y \in Nat : y = d[to]
    BY <1>4, Zenon
<1>8. SumFunction(d) \in Nat /\ y <= SumFunction(d)
    BY <1>4, <1>7, FinitelyMany, SumElement
<1>9. y + n \in Nat /\ y + n < Word
    BY <1>5, <1>6, <1>7, <1>8, NoWrap
<1>10. AddBalance(d, to, n) = [d EXCEPT ![to] = y + n]
    <2>1. Wrap(y + n) = y + n
        BY <1>9, NoWrap, Zenon
    <2>2. AddBalance(d, to, n) = [d EXCEPT ![to] = Wrap(y + n)]
        BY <1>7, Zenon DEF AddBalance
    <2>3. QED  BY <2>1, <2>2, Zenon
<1>11. PICK c : c = AddBalance(d, to, n)
    BY Zenon
<1>12. c \in [Accounts -> Nat] /\ SumFunction(c) = (SumFunction(d) - y) + (y + n)
    <2>0. [d EXCEPT ![to] = y + n] \in [Accounts -> Nat]
        BY <1>4, <1>9, Zenon
    <2>1. SumFunction([d EXCEPT ![to] = y + n]) = (SumFunction(d) - d[to]) + (y + n)
        <3>1. d \in [Accounts -> Nat] /\ y + n \in Nat
            BY <1>4, <1>9, Zenon
        <3>2. QED  BY <3>1, FinitelyMany, SetAmount, Zenon
    <2>2. QED  BY <1>7, <1>10, <1>11, <2>0, <2>1, Zenon
<1>13. SumFunction(c) = SumFunction(b)
    BY <1>5, <1>6, <1>7, <1>12
<1>14. QED  BY <1>2, <1>11, <1>12, <1>13, Zenon

(* A transfer moves an amount between two balances, or from one to itself. *)
LEMMA TransferKeeps ==
    ASSUME LedgerInv, NEW from \in Addr, NEW to \in Addr, NEW n \in Nat,
           balance[from] >= n,
           balance' = AddBalance(SubBalance(balance, from, n), to, n),
           UNCHANGED <<stakeVars, supplyVars, now>>
    PROVE  LedgerInv'
<1>1. balance \in [Accounts -> Nat] /\ from \in Accounts /\ to \in Accounts
    BY FinitelyMany, Zenon DEF LedgerInv, TypeOK
<1>2. SumFunction(balance) < Word
    BY AmountsBacked, Zenon
<1>3. balance' \in [Accounts -> Nat] /\ SumFunction(balance') = SumFunction(balance)
    BY <1>1, <1>2, MoveKeepsSum, Zenon
<1>4. TypeOK'
    BY <1>3, Zenon DEF LedgerInv, TypeOK, stakeVars, supplyVars
<1>5. SupplyBacked' /\ totalSupply' <= MaxSupply
    BY <1>3, Zenon DEF LedgerInv, SupplyBacked, stakeVars, supplyVars
<1>6. QED  BY <1>4, <1>5, Zenon DEF LedgerInv

(* Staking moves an amount from the balance to the stake; no word wraps, as *)
(* all amounts together are below the supply.                               *)
LEMMA StakeKeeps ==
    ASSUME LedgerInv, NEW from \in Addr, NEW n \in Nat, Stake(from, n)
    PROVE  LedgerInv' /\ staked' = [staked EXCEPT ![from] = staked[from] + n]
<1>1. balance \in [Accounts -> Nat] /\ staked \in [Addr -> Nat] /\ from \in Accounts
    BY FinitelyMany, Zenon DEF LedgerInv, TypeOK
<1>2. PICK b \in Nat, s \in Nat : b = balance[from] /\ s = staked[from]
    BY <1>1, Zenon
<1>3. b >= n /\ balance' = [balance EXCEPT ![from] = b - n]
      /\ staked' = [staked EXCEPT ![from] = Wrap(s + n)]
      /\ active' \in {active, active \cup {from}}
      /\ UNCHANGED <<pending, withdrawableAt, vrfKeys, processedEvidence, supplyVars, now>>
    BY <1>2, Zenon DEF Stake, SubBalance
<1>a. PICK B \in Nat, S \in Nat : /\ B = SumFunction(balance) /\ S = SumFunction(staked)
                                  /\ B + S = totalSupply /\ totalSupply \in Nat /\ totalSupply < Word
                                  /\ b <= B /\ s <= S
    BY <1>1, <1>2, AmountsBacked, Zenon
<1>4. s + n \in Nat /\ s + n < Word /\ b - n \in Nat
    BY <1>2, <1>3, <1>a, NoWrap
<1>5. Wrap(s + n) = s + n
    BY <1>4, NoWrap, Zenon
<1>6. balance' \in [Accounts -> Nat] /\ SumFunction(balance') = (B - b) + (b - n)
    <2>0. [balance EXCEPT ![from] = b - n] \in [Accounts -> Nat]
        BY <1>1, <1>4, Zenon
    <2>1. SumFunction([balance EXCEPT ![from] = b - n]) = (SumFunction(balance) - balance[from]) + (b - n)
        BY <1>1, <1>4, FinitelyMany, SetAmount, Zenon
    <2>2. QED  BY <1>2, <1>3, <1>a, <2>0, <2>1, Zenon
<1>7. staked' \in [Addr -> Nat] /\ SumFunction(staked') = (S - s) + (s + n)
    <2>0. [staked EXCEPT ![from] = s + n] \in [Addr -> Nat]
        BY <1>1, <1>4, Zenon
    <2>1. SumFunction([staked EXCEPT ![from] = s + n]) = (SumFunction(staked) - staked[from]) + (s + n)
        BY <1>1, <1>4, FinitelyMany, SetAmount, Zenon
    <2>2. QED  BY <1>2, <1>3, <1>5, <1>a, <2>0, <2>1, Zenon
<1>8. totalSupply = SumFunction(balance') + SumFunction(staked')
    BY <1>2, <1>6, <1>7, <1>a
<1>9. TypeOK'
    BY <1>3, <1>6, <1>7, Zenon DEF LedgerInv, TypeOK, supplyVars
<1>10. SupplyBacked' /\ totalSupply' <= MaxSupply
    BY <1>3, <1>8, Zenon DEF LedgerInv, SupplyBacked, supplyVars
<1>11. QED  BY <1>2, <1>3, <1>5, <1>9, <1>10, Zenon DEF LedgerInv

(* Completing a withdrawal moves it from the stake, which covers it, to the *)
(* balance.                                                                 *)
LEMMA WithdrawKeeps ==
    ASSUME LedgerInv, WithdrawalCovered, NEW from \in Addr, CompleteUnstake(from)
    PROVE  LedgerInv' /\ staked' = [staked EXCEPT ![from] = staked[from] - pending[from]]
<1>1. balance \in [Accounts -> Nat] /\ staked \in [Addr -> Nat] /\ pending \in [Addr -> Nat] /\ from \in Accounts
    BY FinitelyMany, Zenon DEF LedgerInv, TypeOK
<1>2. PICK b \in Nat, s \in Nat, p \in Nat : b = balance[from] /\ s = staked[from] /\ p = pending[from]
    BY <1>1, Zenon
<1>3. /\ balance' = [balance EXCEPT ![from] = Wrap(b + p)]
      /\ staked' = [staked EXCEPT ![from] = Wrap(s - p)]
      /\ pending' = [pending EXCEPT ![from] = 0]
      /\ withdrawableAt' = [withdrawableAt EXCEPT ![from] = 0]
      /\ UNCHANGED <<active, vrfKeys, processedEvidence, supplyVars, now>>
    BY <1>2, Zenon DEF CompleteUnstake, AddBalance
<1>4. p <= s
    BY <1>2, Zenon DEF WithdrawalCovered
<1>a. PICK B \in Nat, S \in Nat : /\ B = SumFunction(balance) /\ S = SumFunction(staked)
                                  /\ B + S = totalSupply /\ totalSupply \in Nat /\ totalSupply < Word
                                  /\ b <= B /\ s <= S
    BY <1>1, <1>2, AmountsBacked, Zenon
<1>5. b + p \in Nat /\ b + p < Word /\ s - p \in Nat /\ s - p < Word
    BY <1>2, <1>4, <1>a, NoWrap
<1>6. Wrap(b + p) = b + p /\ Wrap(s - p) = s - p
    BY <1>5, NoWrap, Zenon
<1>7. balance' \in [Accounts -> Nat] /\ SumFunction(balance') = (B - b) + (b + p)
    <2>0. [balance EXCEPT ![from] = b + p] \in [Accounts -> Nat] /\ b + p \in Nat
        BY <1>1, <1>5, Zenon
    <2>1. SumFunction([balance EXCEPT ![from] = b + p]) = (SumFunction(balance) - balance[from]) + (b + p)
        <3>1. b + p \in Nat
            BY <2>0, Zenon
        <3>2. balance \in [Accounts -> Nat]
            BY <1>1, Zenon
        <3>3. QED  BY <3>1, <3>2, <1>1, FinitelyMany, SetAmount, Zenon
    <2>2. QED  BY <1>2, <1>3, <1>6, <1>a, <2>0, <2>1, Zenon
<1>8. staked' \in [Addr -> Nat] /\ SumFunction(staked') = (S - s) + (s - p)
    <2>0. [staked EXCEPT ![from] = s - p] \in [Addr -> Nat] /\ s - p \in Nat
        BY <1>1, <1>5, Zenon
    <2>1. SumFunction([staked EXCEPT ![from] = s - p]) = (SumFunction(staked) - staked[from]) + (s - p)
        <3>1. s - p \in Nat
            BY <2>0, Zenon
        <3>2. staked \in [Addr -> Nat]
            BY <1>1, Zenon
        <3>3. QED  BY <3>1, <3>2, <1>1, FinitelyMany, SetAmount, Zenon
    <2>2. QED  BY <1>2, <1>3, <1>6, <1>a, <2>0, <2>1, Zenon
<1>9. totalSupply = SumFunction(balance') + SumFunction(staked')
    BY <1>2, <1>7, <1>8, <1>a
<1>10. pending' \in [Addr -> Nat] /\ withdrawableAt' \in [Addr -> Nat]
    BY <1>3, Zenon DEF LedgerInv, TypeOK
<1>11. TypeOK'
    BY <1>3, <1>7, <1>8, <1>10, Zenon DEF LedgerInv, TypeOK, supplyVars
<1>12. SupplyBacked' /\ totalSupply' <= MaxSupply
    BY <1>3, <1>9, Zenon DEF LedgerInv, SupplyBacked, supplyVars
<1>13. QED  BY <1>2, <1>3, <1>6, <1>11, <1>12 DEF LedgerInv

(* Slashing takes from the stake and from the supply alike. *)
LEMMA SlashKeeps ==
    ASSUME LedgerInv, NEW v \in Addr, NEW n \in Nat, SlashStake(v, n),
           processedEvidence' \subseteq Offences,
           UNCHANGED <<balance, pending, withdrawableAt, vrfKeys, now>>
    PROVE  LedgerInv' /\ staked' = [staked EXCEPT ![v] = staked[v] - n]
<1>1. balance \in [Accounts -> Nat] /\ staked \in [Addr -> Nat]
    BY Zenon DEF LedgerInv, TypeOK
<1>2. PICK s \in Nat : s = staked[v]
    BY <1>1, Zenon
<1>3. /\ n <= s /\ staked' = [staked EXCEPT ![v] = s - n]
      /\ totalSupply' = IF totalSupply < n THEN 0 ELSE totalSupply - n
      /\ totalBurned' = Wrap(totalBurned + n)
      /\ active' \in {active, active \ {v}}
    BY <1>2, Zenon DEF SlashStake
<1>a. PICK B \in Nat, S \in Nat : /\ B = SumFunction(balance) /\ S = SumFunction(staked)
                                  /\ B + S = totalSupply /\ totalSupply \in Nat /\ totalSupply <= MaxSupply
                                  /\ s <= S
    BY <1>1, <1>2, AmountsBacked, Zenon
<1>4. s - n \in Nat /\ totalSupply' = totalSupply - n /\ totalSupply - n \in Nat
    BY <1>2, <1>3, <1>a
<1>5. staked' \in [Addr -> Nat] /\ SumFunction(staked') = (S - s) + (s - n)
    <2>0. [staked EXCEPT ![v] = s - n] \in [Addr -> Nat] /\ s - n \in Nat
        BY <1>1, <1>4, Zenon
    <2>1. SumFunction([staked EXCEPT ![v] = s - n]) = (SumFunction(staked) - staked[v]) + (s - n)
        <3>1. s - n \in Nat
            BY <2>0, Zenon
        <3>2. staked \in [Addr -> Nat]
            BY <1>1, Zenon
        <3>3. QED  BY <3>1, <3>2, <1>1, FinitelyMany, SetAmount, Zenon
    <2>2. QED  BY <1>2, <1>3, <1>a, <2>0, <2>1, Zenon
<1>6. totalSupply' = SumFunction(balance) + SumFunction(staked') /\ totalSupply' <= MaxSupply
    BY <1>2, <1>4, <1>5, <1>a, NoWrap
<1>7. totalBurned' \in Nat
    BY <1>3, NoWrap DEF LedgerInv, TypeOK
<1>8. TypeOK'
    BY <1>3, <1>4, <1>5, <1>7, Zenon DEF LedgerInv, TypeOK
<1>9. SupplyBacked'
    BY <1>6, Zenon DEF SupplyBacked
<1>10. QED  BY <1>2, <1>3, <1>6, <1>8, <1>9 DEF LedgerInv

(* A penalty is an amount. *)
LEMMA PenaltyIs == ASSUME NEW kind, NEW stake \in Nat PROVE Penalty(kind, stake) \in Nat
<1> DEFINE pct == IF kind = "double_sign" THEN 50 ELSE 25
<1>1. stake * pct \in Nat
    OBVIOUS
<1> HIDE DEF pct
<1>2. Wrap(stake * pct) \in Nat
    BY <1>1, NoWrap, Zenon
<1>3. Wrap(stake * pct) \div 100 \in Nat
    BY <1>2
<1>4. QED  BY <1>3, Zenon DEF Penalty, pct

-----------------------------------------------------------------------------
(* The fee of a settlement.                                                 *)

(* Two shares of a number that are together at most 100 percent. *)
LEMMA SharesWithin ==
    ASSUME NEW t \in Nat, NEW p \in Nat, NEW q \in Nat, p + q <= 100,
           NEW x \in Nat, NEW y \in Nat, x <= t * p, y <= t * q
    PROVE  (x \div 100) + (y \div 100) <= t
<1>1. PICK a \in Nat : a = t * p
    BY SMT
<1>2. PICK b \in Nat : b = t * q
    BY SMT
<1>3. a + b <= 100 * t
    <2>1. t * (p + q) <= t * 100
        BY SMT
    <2>2. t * (p + q) = t * p + t * q
        BY SMT
    <2>3. QED  BY <1>1, <1>2, <2>1, <2>2, SMT
<1>4. x <= a /\ y <= b
    BY <1>1, <1>2
<1>5. QED  BY <1>3, <1>4, SMT

(* The parts of a fee add up to it, and it is a small part of a word. *)
LEMMA FeeParts ==
    ASSUME NEW amount \in Nat
    PROVE  /\ CalculateFee(amount).total \in Nat /\ CalculateFee(amount).validators \in Nat
           /\ CalculateFee(amount).burn \in Nat /\ CalculateFee(amount).treasury \in Nat
           /\ CalculateFee(amount).validators + CalculateFee(amount).burn
                + CalculateFee(amount).treasury = CalculateFee(amount).total
           /\ CalculateFee(amount).total <= Word \div 10000
<1> DEFINE total == Wrap(amount * FeeRateBasisPoints) \div 10000
           V == Wrap(total * ValidatorShare) \div 100
           B == Wrap(total * BurnShare) \div 100
<1>1. amount * FeeRateBasisPoints \in Nat
    BY GenesisAssumption, SMT
<1>2. total \in Nat /\ total <= Word \div 10000 /\ total < Word
    <2>1. PICK w \in Nat : w = Wrap(amount * FeeRateBasisPoints) /\ w < Word
        BY <1>1, NoWrap, Zenon
    <2>2. QED  BY <2>1, NoWrap, SMT
<1> HIDE DEF total
<1>3. total * ValidatorShare \in Nat /\ total * BurnShare \in Nat
    BY <1>2, GenesisAssumption, SMT
<1>4. PICK x \in Nat : x = Wrap(total * ValidatorShare) /\ x <= total * ValidatorShare
    BY <1>3, NoWrap, Zenon
<1>5. PICK y \in Nat : y = Wrap(total * BurnShare) /\ y <= total * BurnShare
    BY <1>3, NoWrap, Zenon
<1>6. ValidatorShare \in Nat /\ BurnShare \in Nat /\ ValidatorShare + BurnShare <= 100
    BY GenesisAssumption
<1>7. (x \div 100) + (y \div 100) <= total
    BY <1>2, <1>4, <1>5, <1>6, SharesWithin
<1>8. V = x \div 100 /\ B = y \div 100
    BY <1>4, <1>5, Zenon
<1>9. V \in Nat /\ B \in Nat /\ V + B <= total
    BY <1>7, <1>8
<1> HIDE DEF V, B
<1>10. total - V - B \in Nat /\ total - V - B < Word
    BY <1>2, <1>9, NoWrap
<1>11. Wrap(total - V - B) = total - V - B
    BY <1>10, NoWrap, Zenon
<1>12. CalculateFee(amount) = [total |-> total, validators |-> V, burn |-> B, treasury |-> total - V - B]
    <2>1. CalculateFee(amount) = [total |-> total, validators |-> V, burn |-> B,
                                  treasury |-> Wrap(total - V - B)]
        BY DEF CalculateFee, total, V, B
    <2>2. QED  BY <1>11, <2>1
<1>13. QED  BY <1>2, <1>9, <1>10, <1>12

(* A share is at most the proportional part of the reward. *)
LEMMA ShareBound ==
    ASSUME NEW r \in Nat, NEW s \in Nat, NEW w \in Nat, w # 0
    PROVE  Wrap(r * s) \div w \in Nat /\ (Wrap(r * s) \div w) * w <= r * s
<1>1. PICK p \in Nat : p = r * s
    BY SMT
<1>2. PICK x \in Nat : x = Wrap(p) /\ x <= p
    BY <1>1, NoWrap, Zenon
<1>3. x \div w \in Nat /\ (x \div w) * w <= x
    BY <1>2, SMT
<1>4. QED  BY <1>1, <1>2, <1>3

(* What w times a number bounds, the number bounds. *)
LEMMA CancelFactor ==
    ASSUME NEW a \in Nat, NEW r \in Nat, NEW w \in Nat, w # 0, NEW u \in Nat, u <= w, a * w <= r * u
    PROVE  a <= r
<1>1. SUFFICES ASSUME a >= r + 1 PROVE FALSE
    OBVIOUS
<1>2. a * w >= (r + 1) * w
    BY <1>1, SMT
<1>3. (r + 1) * w = r * w + w
    BY SMT
<1>4. r * u <= r * w
    BY SMT
<1>5. r * w \in Nat /\ r * u \in Nat /\ a * w \in Nat /\ (r + 1) * w \in Nat
    BY SMT
<1>6. QED  BY <1>2, <1>3, <1>4, <1>5

(* The stake behind the voters that are paid. *)
LEMMA PaidStake ==
    ASSUME LedgerInv, NEW paid \in SUBSET Addr
    PROVE  /\ IsFiniteSet(paid) /\ SumFunctionOnSet(staked, paid) \in Nat
           /\ VoterStake(paid) = SumFunctionOnSet(staked, paid)
           /\ \A v \in paid : staked[v] \in Nat
<1>1. IsFiniteSet(paid)
    BY FinitelyMany, FS_Subset, Zenon
<1>2. \A v \in Addr : staked[v] \in Nat
    BY AmountsBacked, Zenon
<1>3. DOMAIN staked = Addr
    BY Zenon DEF LedgerInv, TypeOK
<1>4. SumFunctionOnSet(staked, paid) \in Nat /\ SumFunctionOnSet(staked, paid) <= SumFunctionOnSet(staked, Addr)
    BY <1>2, FinitelyMany, SumPart, Zenon
<1>5. SumFunctionOnSet(staked, Addr) = SumFunction(staked)
    BY <1>3, Zenon DEF SumFunction
<1>6. SumFunctionOnSet(staked, paid) < Word
    BY <1>4, <1>5, AmountsBacked, NoWrap
<1>7. QED  BY <1>1, <1>2, <1>4, <1>6, NoWrap, Zenon DEF VoterStake

(* The payout adds up to the reward, whatever the rounding. *)
LEMMA PayoutAddsUp ==
    ASSUME LedgerInv, NEW r \in Nat, r < Word, NEW paid \in SUBSET Addr, paid # {}, VoterStake(paid) # 0
    PROVE  /\ Payout(r, paid) \in [paid -> Nat] /\ SumFunction(Payout(r, paid)) = r
           /\ \E last \in paid : \A v \in paid \ {last} : Payout(r, paid)[v] = Share(r, paid, v)
<1> DEFINE last == Max(paid)
           others == paid \ {last}
           share == [v \in others |-> Share(r, paid, v)]
           payout == [v \in paid |-> IF v = last THEN Wrap(r - SumFunction(share)) ELSE share[v]]
<1>1. PICK w \in Nat : w = SumFunctionOnSet(staked, paid) /\ w = VoterStake(paid) /\ w # 0
    BY PaidStake, Zenon
<1>2. IsFiniteSet(paid) /\ paid \subseteq Nat /\ IsFiniteSet(others) /\ others \subseteq paid
    BY PaidStake, LedgerAssumption, FS_Subset, Zenon
<1>3. last \in paid
    BY <1>2, GreatestExists, Zenon
<1>4. ASSUME NEW v \in others
      PROVE  share[v] \in Nat /\ staked[v] \in Nat /\ share[v] * w <= r * staked[v]
    <2>1. share[v] = Wrap(r * staked[v]) \div w
        BY <1>1, Zenon DEF Share
    <2>2. staked[v] \in Nat
        BY PaidStake, <1>2, Zenon
    <2>3. Wrap(r * staked[v]) \div w \in Nat /\ (Wrap(r * staked[v]) \div w) * w <= r * staked[v]
        BY <1>1, <2>2, ShareBound, Zenon
    <2>4. QED  BY <2>1, <2>2, <2>3, Zenon
<1>5. DOMAIN share = others /\ \A v \in others : share[v] = Share(r, paid, v)
    BY Zenon
<1> HIDE DEF share, last, others
<1>6. PICK a \in Nat : a = SumFunction(share) /\ a = SumFunctionOnSet(share, others)
    BY <1>2, <1>4, <1>5, SumNat, Zenon DEF SumFunction
<1>7. PICK u \in Nat : u = SumFunctionOnSet(staked, others) /\ u <= w
    BY <1>1, <1>2, PaidStake, SumPart, Zenon
<1>8. a * w <= r * u
    BY <1>1, <1>2, <1>4, <1>6, <1>7, SumProportional, Zenon
<1>9. a <= r
    BY <1>1, <1>7, <1>8, CancelFactor, Zenon
<1>10. r - a \in Nat /\ Wrap(r - a) = r - a
    BY <1>9, NoWrap
<1>11. /\ DOMAIN payout = paid /\ payout[last] = r - a
       /\ \A v \in others : payout[v] = share[v]
    BY <1>2, <1>3, <1>6, <1>10, Zenon DEF others
<1>12. \A v \in paid : payout[v] \in Nat
    BY <1>4, <1>10, <1>11, Zenon DEF others
<1>13. payout \in [paid -> Nat]
    BY <1>12, Zenon
<1> HIDE DEF payout
<1>14. SumFunctionOnSet(payout, paid) = payout[last] + SumFunctionOnSet(payout, others)
    <2>1. \A v \in paid : payout[v] \in Int
        BY <1>12
    <2>2. \A v \in paid : SumFunctionOnSet(payout, paid) = payout[v] + SumFunctionOnSet(payout, paid \ {v})
        BY <1>2, <2>1, SumRemove, Zenon
    <2>3. QED  BY <1>3, <2>2, Zenon DEF others
<1>15. SumFunctionOnSet(payout, others) = SumFunctionOnSet(share, others)
    BY <1>2, <1>11, SumSame, Zenon
<1>16. SumFunction(payout) = r
    BY <1>6, <1>9, <1>11, <1>14, <1>15 DEF SumFunction
<1>17. Payout(r, paid) = payout
    BY Zenon DEF Payout, payout, share, others, last
<1>18. \A v \in paid \ {last} : payout[v] = Share(r, paid, v)
    BY <1>5, <1>11, Zenon DEF others
<1>19. QED  BY <1>3, <1>13, <1>16, <1>17, <1>18, Zenon

(* A function that is zero outside a part sums to the part's sum. *)
LEMMA SumSpread ==
    ASSUME NEW S, IsFiniteSet(S), NEW P \in SUBSET S, NEW f, NEW p,
           \A a \in P : f[a] \in Int /\ p[a] = f[a], \A a \in S \ P : p[a] = 0
    PROVE  SumFunctionOnSet(p, S) = SumFunctionOnSet(f, P)
<1>1. IsFiniteSet(P) /\ IsFiniteSet(S \ P)
    BY FS_Subset, Zenon
<1>2. \A a \in S : p[a] \in Int
    OBVIOUS
<1>3. SumFunctionOnSet(p, S) = SumFunctionOnSet(p, P) + SumFunctionOnSet(p, S \ P)
    BY <1>2, SumDisjoint
<1>4. SumFunctionOnSet(p, P) = SumFunctionOnSet(f, P)
    BY <1>1, SumSame, Zenon
<1>5. SumFunctionOnSet(p, S \ P) = 0
    BY <1>1, SumZero, Zenon
<1>6. SumFunctionOnSet(f, P) \in Int
    BY <1>1, SumType, Zenon
<1>7. QED  BY <1>3, <1>4, <1>5, <1>6

(* A function that is zero but for one argument sums to its value there. *)
LEMMA SumSingle ==
    ASSUME NEW S, IsFiniteSet(S), NEW x \in S, NEW t, t[x] \in Int, \A a \in S \ {x} : t[a] = 0
    PROVE  SumFunctionOnSet(t, S) = t[x]
<1>1. IsFiniteSet(S \ {x})
    BY FS_Subset, Zenon
<1>2. \A a \in S : t[a] \in Int
    OBVIOUS
<1>3. SumFunctionOnSet(t, S) = t[x] + SumFunctionOnSet(t, S \ {x})
    BY <1>2, SumRemove
<1>4. SumFunctionOnSet(t, S \ {x}) = 0
    BY <1>1, SumZero, Zenon
<1>5. QED  BY <1>3, <1>4

(* A distribution that passes the first check of the cap passes all of them: *)
(* every voter and the treasury are paid.                                    *)
LEMMA FeeStepPays ==
    ASSUME LedgerInv, NEW amount \in Nat, NEW voters \in SUBSET Addr, voters \cap active # {},
           CollectAndDistributeFees(amount, voters),
           Distributes(CalculateFee(amount), voters \cap active)
    PROVE  LET fee == CalculateFee(amount) IN
           \E payout \in [voters \cap active -> Nat] :
               /\ SumFunction(payout) = fee.validators
               /\ balance' = [a \in Accounts |->
                      Wrap(balance[a] + (IF a \in voters \cap active THEN payout[a] ELSE 0)
                                      + (IF a = Treasury THEN fee.treasury ELSE 0))]
               /\ totalSupply' = totalSupply + fee.validators + fee.treasury
               /\ totalSupply' <= MaxSupply
               /\ totalBurned' = Wrap(totalBurned + fee.burn)
<1> DEFINE fee == CalculateFee(amount)
           paid == voters \cap active
           payout == Payout(fee.validators, paid)
           minted == {v \in DOMAIN payout : MintsVoter(payout, v)}
           whole == minted = DOMAIN payout
           funded == whole /\ Wrap(totalSupply + SumFunction(payout) + fee.treasury) <= MaxSupply
           toTreasury == IF funded THEN fee.treasury ELSE 0
<1>0. /\ balance' = [a \in Accounts |->
             Wrap(balance[a] + (IF a \in minted THEN payout[a] ELSE 0)
                             + (IF a = Treasury THEN toTreasury ELSE 0))]
      /\ totalSupply' = Wrap(totalSupply + SumFunctionOnSet(payout, minted) + toTreasury)
      /\ totalBurned' = Wrap(totalBurned + (IF funded THEN fee.burn ELSE 0))
    BY DEF CollectAndDistributeFees
<1>a. /\ fee.validators \in Nat /\ fee.treasury \in Nat /\ fee.burn \in Nat
      /\ fee.validators + fee.burn + fee.treasury <= Word \div 10000
    BY FeeParts
<1>b. Distributes(fee, paid) /\ paid \in SUBSET Addr /\ paid # {}
    OBVIOUS
<1> HIDE DEF fee, paid, payout
<1>1. PICK V \in Nat, T \in Nat, B \in Nat : /\ V = fee.validators /\ T = fee.treasury /\ B = fee.burn
                                             /\ V + B + T <= Word \div 10000
    BY <1>a
<1>2. PICK S \in Nat : S = totalSupply /\ S <= MaxSupply
    BY AmountsBacked, Zenon
<1>3. S + V + T < Word /\ V + T < Word /\ V < Word
    BY <1>1, <1>2, SupplyAssumption, NoWrap
<1>4. V + T \in Nat /\ S + (V + T) \in Nat /\ S + V + T = S + (V + T)
    OBVIOUS
<1>5. Wrap(V + T) = V + T /\ Wrap(S + (V + T)) = S + (V + T)
    BY <1>3, <1>4, NoWrap
<1>6. S + V + T <= MaxSupply
    BY <1>1, <1>2, <1>4, <1>5, <1>b DEF Distributes
<1>7. paid \in SUBSET Addr /\ paid # {} /\ VoterStake(paid) # 0
    BY <1>b, Zenon DEF Distributes
<1>8. payout \in [paid -> Nat] /\ SumFunction(payout) = V
    BY <1>1, <1>3, <1>7, PayoutAddsUp DEF payout
<1>9. DOMAIN payout = paid /\ SumFunctionOnSet(payout, paid) = V /\ IsFiniteSet(paid)
    BY <1>7, <1>8, PaidStake DEF SumFunction
<1>10. ASSUME NEW U \in SUBSET paid
       PROVE  Wrap(totalSupply + SumFunctionOnSet(payout, U)) <= MaxSupply
    <2>1. PICK x \in Nat : x = SumFunctionOnSet(payout, U) /\ x <= V
        <3>1. \A v \in paid : payout[v] \in Nat
            BY <1>8
        <3>2. QED  BY <1>9, <3>1, SumPart, Zenon
    <2>2. S + x <= MaxSupply /\ S + x < Word /\ S + x \in Nat
        BY <1>1, <1>2, <1>3, <1>6, <2>1, NoWrap
    <2>3. QED  BY <1>2, <2>1, <2>2, NoWrap
<1>11. minted = paid
    <2>1. ASSUME NEW v \in paid PROVE MintsVoter(payout, v)
        <3>1. \A w \in paid : {u \in paid : u <= w} \in SUBSET paid
            BY Zenon
        <3>2. QED  BY <1>9, <1>10, <3>1, Zenon DEF MintsVoter
    <2>2. QED  BY <1>9, <2>1, Zenon
<1>12. whole
    BY <1>9, <1>11, Zenon
<1>13. funded
    <2>1. totalSupply + SumFunction(payout) + fee.treasury = S + (V + T)
        BY <1>1, <1>2, <1>4, <1>8
    <2>2. Wrap(S + (V + T)) <= MaxSupply
        BY <1>4, <1>5, <1>6
    <2>3. QED  BY <1>12, <2>1, <2>2, Zenon
<1> HIDE DEF minted, whole, funded
<1>14. toTreasury = T /\ SumFunctionOnSet(payout, minted) = V
    <2>1. toTreasury = T
        BY <1>1, <1>13
    <2>2. SumFunctionOnSet(payout, minted) = V
        BY <1>9, <1>11, Zenon
    <2>3. QED  BY <2>1, <2>2, Zenon
<1>15. totalBurned' = Wrap(totalBurned + fee.burn)
    BY <1>0, <1>13, Zenon
<1>16. totalSupply' = Wrap(S + V + T)
    BY <1>0, <1>2, <1>14, Zenon
<1>17. totalSupply' = S + V + T
    BY <1>4, <1>5, <1>16, Zenon
<1>18. balance' = [a \in Accounts |->
             Wrap(balance[a] + (IF a \in paid THEN payout[a] ELSE 0)
                             + (IF a = Treasury THEN T ELSE 0))]
    BY <1>0, <1>11, <1>14, Zenon
<1>19. QED  BY <1>1, <1>2, <1>6, <1>8, <1>15, <1>17, <1>18 DEF fee, paid

(* A fee that is distributed changes the balances by what it mints. *)
LEMMA FeeBalances ==
    ASSUME NEW paid \in SUBSET Addr, NEW payout \in [paid -> Nat], NEW V \in Nat, NEW T \in Nat,
           LedgerInv, SumFunction(payout) = V, totalSupply + V + T <= MaxSupply,
           balance' = [a \in Accounts |->
                      Wrap(balance[a] + (IF a \in paid THEN payout[a] ELSE 0)
                                      + (IF a = Treasury THEN T ELSE 0))]
    PROVE  balance' \in [Accounts -> Nat] /\ SumFunction(balance') = SumFunction(balance) + V + T
<1> DEFINE p == [a \in Accounts |-> IF a \in paid THEN payout[a] ELSE 0]
           t == [a \in Accounts |-> IF a = Treasury THEN T ELSE 0]
           q == [a \in Accounts |-> p[a] + t[a]]
<1>1. PICK S \in Nat, M \in Nat : S = totalSupply /\ M = SumFunction(balance) /\ M <= S
    BY AmountsBacked
<1>2. IsFiniteSet(Accounts) /\ IsFiniteSet(paid) /\ paid \in SUBSET Accounts /\ Treasury \in Accounts
    BY FinitelyMany, FS_Subset, Zenon DEF Accounts
<1>3. ASSUME NEW a \in Accounts PROVE p[a] \in Nat /\ p[a] <= V
    <2>1. CASE a \in paid
        <3>1. payout[a] \in Nat /\ payout[a] <= V
            BY <1>2, <2>1, SumElement, Zenon
        <3>2. QED  BY <2>1, <3>1, Zenon
    <2>2. CASE a \notin paid
        BY <2>2
    <2>3. QED  BY <2>1, <2>2, Zenon
<1>4. ASSUME NEW a \in Accounts PROVE t[a] \in Nat /\ t[a] <= T
    OBVIOUS
<1>5. ASSUME NEW a \in Accounts PROVE balance'[a] = balance[a] + q[a] /\ balance[a] \in Nat /\ q[a] \in Nat
    <2>1. PICK x \in Nat, y \in Nat, z \in Nat : x = balance[a] /\ y = p[a] /\ z = t[a]
        BY <1>3, <1>4, AmountsBacked, Zenon
    <2>2. x <= M /\ y <= V /\ z <= T
        BY <1>1, <1>3, <1>4, <2>1, AmountsBacked, Zenon
    <2>3. x + y + z \in Nat /\ x + y + z < Word /\ x + y + z = x + (y + z) /\ y + z \in Nat
        BY <1>1, <2>2, NoWrap
    <2>4. balance'[a] = Wrap(x + y + z)
        BY <2>1, Zenon
    <2>5. q[a] = y + z
        BY <2>1, Zenon
    <2>6. QED  BY <2>1, <2>3, <2>4, <2>5, NoWrap, Zenon
<1>6. /\ DOMAIN balance' = Accounts /\ DOMAIN balance = Accounts /\ DOMAIN payout = paid
      /\ \A a \in paid : p[a] = payout[a]
      /\ \A a \in Accounts \ paid : p[a] = 0
      /\ t[Treasury] = T /\ \A a \in Accounts \ {Treasury} : t[a] = 0
      /\ \A a \in Accounts : q[a] = p[a] + t[a]
    BY <1>2, Zenon DEF LedgerInv, TypeOK
<1>7. balance' = [a \in Accounts |-> balance'[a]]
    BY Zenon
<1> HIDE DEF p, t, q
<1>8. SumFunctionOnSet(p, Accounts) = V
    <2>1. \A a \in paid : payout[a] \in Int /\ p[a] = payout[a]
        BY <1>6
    <2>2. SumFunctionOnSet(p, Accounts) = SumFunctionOnSet(payout, paid)
        BY <1>2, <1>6, <2>1, SumSpread
    <2>3. QED  BY <1>6, <2>2, Zenon DEF SumFunction
<1>9. SumFunctionOnSet(t, Accounts) = T
    BY <1>2, <1>6, SumSingle
<1>10. SumFunctionOnSet(q, Accounts) = V + T
    <2>1. \A a \in Accounts : p[a] \in Int /\ t[a] \in Int /\ q[a] = p[a] + t[a]
        BY <1>3, <1>4, <1>6
    <2>2. SumFunctionOnSet(q, Accounts) = SumFunctionOnSet(p, Accounts) + SumFunctionOnSet(t, Accounts)
        BY <1>2, <2>1, SumPlus
    <2>3. QED  BY <1>8, <1>9, <2>2, Zenon
<1>11. SumFunctionOnSet(balance', Accounts) = SumFunctionOnSet(balance, Accounts) + SumFunctionOnSet(q, Accounts)
    <2>1. \A a \in Accounts : balance[a] \in Int /\ q[a] \in Int /\ balance'[a] = balance[a] + q[a]
        BY <1>5
    <2>2. QED  BY <1>2, <2>1, SumPlus
<1>12. SumFunction(balance') = M + (V + T)
    BY <1>1, <1>6, <1>10, <1>11, Zenon DEF SumFunction
<1>13. \A a \in Accounts : balance'[a] \in Nat
    BY <1>5
<1>14. balance' \in [Accounts -> Nat]
    BY <1>7, <1>13, Zenon
<1>15. QED  BY <1>1, <1>12, <1>14

(* The fee of a settlement keeps the books: nothing happens, or what is      *)
(* minted arrives in accounts and adds up, with what is withheld, to the fee. *)
LEMMA FeeKeeps ==
    ASSUME LedgerInv, NEW amount \in Nat, NEW voters \in SUBSET Addr, SettlementFees(amount, voters)
    PROVE  /\ LedgerInv'
           /\ \/ UNCHANGED <<balance, totalSupply, totalBurned>>
              \/ /\ SumFunction(balance') - SumFunction(balance) = totalSupply' - totalSupply
                 /\ \E b \in Nat : /\ totalBurned' = Wrap(totalBurned + b) /\ b < Word /\ b = CalculateFee(amount).burn
                                   /\ (totalSupply' - totalSupply) + b = CalculateFee(amount).total
<1>0. UNCHANGED stakeVars /\ now' = now /\ voters \cap active # {} /\ CollectAndDistributeFees(amount, voters)
    BY Zenon DEF SettlementFees
<1>1. CASE Distributes(CalculateFee(amount), voters \cap active)
    <2> DEFINE paid == voters \cap active
               fee == CalculateFee(amount)
    <2>1. PICK payout \in [paid -> Nat] :
               /\ SumFunction(payout) = fee.validators
               /\ balance' = [a \in Accounts |->
                      Wrap(balance[a] + (IF a \in paid THEN payout[a] ELSE 0)
                                      + (IF a = Treasury THEN fee.treasury ELSE 0))]
               /\ totalSupply' = totalSupply + fee.validators + fee.treasury
               /\ totalSupply' <= MaxSupply
               /\ totalBurned' = Wrap(totalBurned + fee.burn)
        BY <1>0, <1>1, FeeStepPays, Zenon
    <2>2. paid \in SUBSET Addr
        OBVIOUS
    <2>3. /\ fee.validators \in Nat /\ fee.treasury \in Nat /\ fee.burn \in Nat /\ fee.total \in Nat
          /\ fee.validators + fee.burn + fee.treasury = fee.total
          /\ fee.total <= Word \div 10000
        BY FeeParts
    <2> HIDE DEF paid, fee
    <2>4. PICK V \in Nat, T \in Nat, B \in Nat : V = fee.validators /\ T = fee.treasury /\ B = fee.burn
        BY <2>3
    <2>5. balance' \in [Accounts -> Nat] /\ SumFunction(balance') = SumFunction(balance) + V + T
        <3>1. totalSupply + V + T <= MaxSupply /\ SumFunction(payout) = V
            BY <2>1, <2>4, Zenon
        <3>2. balance' = [a \in Accounts |->
                      Wrap(balance[a] + (IF a \in paid THEN payout[a] ELSE 0)
                                      + (IF a = Treasury THEN T ELSE 0))]
            BY <2>1, <2>4, Zenon
        <3>3. QED  BY <2>2, <3>1, <3>2, FeeBalances
    <2>6. totalSupply' = totalSupply + V + T /\ totalSupply' <= MaxSupply /\ totalBurned' = Wrap(totalBurned + B)
        BY <2>1, <2>4, Zenon
    <2>7. PICK S \in Nat, M \in Nat, K \in Nat : /\ S = totalSupply /\ M = SumFunction(balance)
                                                /\ K = SumFunction(staked) /\ M + K = S
        BY AmountsBacked, Zenon
    <2>8. totalBurned \in Nat /\ totalBurned' \in Nat /\ totalSupply' \in Nat
        BY <2>6, <2>7, NoWrap DEF LedgerInv, TypeOK
    <2>9. TypeOK'
        BY <1>0, <2>5, <2>8, Zenon DEF LedgerInv, TypeOK, stakeVars
    <2>10. staked' = staked
        BY <1>0, Zenon DEF stakeVars
    <2>11. totalSupply' = SumFunction(balance') + SumFunction(staked)
        BY <2>5, <2>6, <2>7
    <2>12. LedgerInv'
        BY <2>6, <2>9, <2>10, <2>11, Zenon DEF LedgerInv, SupplyBacked
    <2>13. SumFunction(balance') - SumFunction(balance) = totalSupply' - totalSupply
        BY <2>5, <2>6, <2>7
    <2>14. B < Word /\ B = fee.burn /\ (totalSupply' - totalSupply) + B = fee.total
        BY <2>3, <2>4, <2>6, <2>7, NoWrap
    <2>15. QED  BY <2>6, <2>12, <2>13, <2>14, Zenon DEF fee
<1>2. CASE ~Distributes(CalculateFee(amount), voters \cap active)
    <2>1. UNCHANGED <<balance, totalSupply, totalBurned>>
        BY <1>0, <1>2, Zenon DEF CollectAndDistributeFees
    <2>2. balance' = balance /\ staked' = staked /\ totalSupply' = totalSupply
        BY <1>0, <2>1, Zenon DEF stakeVars
    <2>3. SupplyBacked'
        BY <2>2, Zenon DEF LedgerInv, SupplyBacked
    <2>4. TypeOK'
        BY <1>0, <2>1, Zenon DEF LedgerInv, TypeOK, stakeVars
    <2>5. QED  BY <2>1, <2>2, <2>3, <2>4, Zenon DEF LedgerInv
<1>3. QED  BY <1>1, <1>2, Zenon

-----------------------------------------------------------------------------
(* StakeLedger: the transactions and the theorems on the supply.            *)

(* No stake is cut while a withdrawal from it is pending. *)
SparesWithdrawals == \A a \in Addr : pending'[a] > 0 => staked'[a] >= staked[a]

(* What a step does to the withdrawals, whatever else it does. *)
LEMMA WithdrawalSteps ==
    ASSUME LedgerInv, Next
    PROVE  \A a \in Addr : pending'[a] \in {0, pending[a]} \/ pending'[a] <= staked[a]
<1>1. pending \in [Addr -> Nat] /\ staked \in [Addr -> Nat] /\ (\A a \in Addr : pending[a] \in Nat /\ staked[a] \in Nat)
    BY Zenon DEF LedgerInv, TypeOK
<1>2. CASE pending' = pending
    BY <1>2, Zenon
<1>3. CASE InitiateUnstakeStep
    <2>1. PICK from \in Addr, n \in UnstakeAmounts : InitiateUnstake(from, n)
        BY <1>3, Zenon DEF InitiateUnstakeStep
    <2>2. n <= staked[from] /\ pending' = [pending EXCEPT ![from] = n]
        BY <2>1, Zenon DEF InitiateUnstake
    <2>3. QED  BY <1>1, <2>2
<1>4. CASE CompleteUnstakeStep
    <2>1. PICK from \in Addr : pending' = [pending EXCEPT ![from] = 0]
        BY <1>4, Zenon DEF CompleteUnstakeStep, CompleteUnstake
    <2>2. QED  BY <1>1, <2>1
<1>5. CASE TransferStep
    BY <1>2, <1>5, Zenon DEF TransferStep, Transfer, stakeVars
<1>6. CASE StakeStep
    BY <1>2, <1>6, Zenon DEF StakeStep, Stake
<1>7. CASE SlashStep
    BY <1>2, <1>7, Zenon DEF SlashStep, Slash
<1>8. CASE EvidenceStep
    BY <1>2, <1>8, Zenon DEF EvidenceStep, SubmitEvidence
<1>9. CASE RewardStep
    BY <1>2, <1>9, Zenon DEF RewardStep, DistributeReward, stakeVars
<1>10. CASE VRFKeyStep
    BY <1>2, <1>10, Zenon DEF VRFKeyStep, RegisterVRFKey
<1>11. CASE FeeStep
    BY <1>2, <1>11, Zenon DEF FeeStep, SettlementFees, stakeVars
<1>12. CASE NextBlock
    BY <1>2, <1>12, Zenon DEF NextBlock, stakeVars
<1>13. QED  BY <1>3, <1>4, <1>5, <1>6, <1>7, <1>8, <1>9, <1>10, <1>11, <1>12, Zenon DEF Next

(* Withdrawals stay covered by the stakes while no stake is cut under one. *)
LEMMA CoverKept ==
    ASSUME LedgerInv, LedgerInv', WithdrawalCovered, Next, SparesWithdrawals
    PROVE  WithdrawalCovered'
<1>1. SUFFICES ASSUME NEW a \in Addr PROVE pending'[a] <= staked'[a]
    BY Zenon DEF WithdrawalCovered
<1>2. pending'[a] \in Nat /\ staked'[a] \in Nat /\ staked[a] \in Nat /\ pending[a] \in Nat
    BY Zenon DEF LedgerInv, TypeOK
<1>3. pending[a] <= staked[a] /\ (pending'[a] > 0 => staked'[a] >= staked[a])
    BY Zenon DEF WithdrawalCovered, SparesWithdrawals
<1>4. pending'[a] \in {0, pending[a]} \/ pending'[a] <= staked[a]
    BY WithdrawalSteps, Zenon
<1>5. QED  BY <1>2, <1>3, <1>4

(* The books stay in order over every step that does not touch the amounts. *)
LEMMA AmountsUntouched ==
    ASSUME LedgerInv, UNCHANGED <<balance, staked, totalSupply>>, TypeOK'
    PROVE  LedgerInv'
BY Zenon DEF LedgerInv, SupplyBacked

(* Every transaction keeps the books. *)
LEMMA LedgerStepKeeps ==
    ASSUME LedgerInv, WithdrawalCovered, Next
    PROVE  LedgerInv'
<1>0. /\ TransferAmounts \subseteq Nat /\ StakeAmounts \subseteq Nat /\ UnstakeAmounts \subseteq Nat
      /\ SlashAmounts \subseteq Nat /\ RewardAmounts \subseteq Nat /\ SettledAmounts \subseteq Nat
    BY AmountsAssumption, Zenon
<1>1. CASE TransferStep
    <2>1. PICK from \in Addr, to \in Addr, n \in TransferAmounts : Transfer(from, to, n)
        BY <1>1, Zenon DEF TransferStep
    <2>2. n \in Nat
        BY <1>0, Zenon
    <2>3. QED  BY <2>1, <2>2, TransferKeeps, Zenon DEF Transfer
<1>2. CASE StakeStep
    <2>1. PICK from \in Addr, n \in StakeAmounts : Stake(from, n)
        BY <1>2, Zenon DEF StakeStep
    <2>2. QED  BY <1>0, <2>1, StakeKeeps, Zenon
<1>3. CASE InitiateUnstakeStep
    <2>1. PICK from \in Addr, n \in UnstakeAmounts : InitiateUnstake(from, n)
        BY <1>3, Zenon DEF InitiateUnstakeStep
    <2>2. /\ pending' = [pending EXCEPT ![from] = n]
          /\ withdrawableAt' = [withdrawableAt EXCEPT ![from] = now + WithdrawalCooldown]
          /\ active' \in {active, active \ {from}}
          /\ UNCHANGED <<balance, staked, vrfKeys, processedEvidence, supplyVars, now>>
        BY <2>1, Zenon DEF InitiateUnstake
    <2>3. now + WithdrawalCooldown \in Nat
        BY GenesisAssumption DEF LedgerInv, TypeOK
    <2>4. pending' \in [Addr -> Nat] /\ withdrawableAt' \in [Addr -> Nat]
        BY <1>0, <2>2, <2>3 DEF LedgerInv, TypeOK
    <2>5. TypeOK'
        BY <2>2, <2>4, Zenon DEF LedgerInv, TypeOK, supplyVars
    <2>6. QED  BY <2>2, <2>5, AmountsUntouched, Zenon DEF supplyVars
<1>4. CASE CompleteUnstakeStep
    BY <1>4, WithdrawKeeps, Zenon DEF CompleteUnstakeStep
<1>5. CASE SlashStep
    <2>1. PICK from \in Addr, v \in Addr, n \in SlashAmounts : Slash(from, v, n)
        BY <1>5, Zenon DEF SlashStep
    <2>2. SlashStake(v, n) /\ UNCHANGED <<balance, pending, withdrawableAt, vrfKeys, now>>
        BY <2>1, Zenon DEF Slash
    <2>3. processedEvidence' \subseteq Offences /\ n \in Nat
        BY <1>0, <2>1, Zenon DEF Slash, LedgerInv, TypeOK
    <2>4. QED  BY <2>2, <2>3, SlashKeeps, Zenon
<1>6. CASE EvidenceStep
    <2>1. PICK e \in Offences : SubmitEvidence(e)
        BY <1>6, Zenon DEF EvidenceStep
    <2>2. PICK v \in Addr, n \in Nat : v = e.validator /\ n = Penalty(e.kind, staked[e.validator])
        <3>1. e.validator \in Addr
            BY LedgerAssumption, Zenon
        <3>2. staked[e.validator] \in Nat
            BY <3>1, Zenon DEF LedgerInv, TypeOK
        <3>3. QED  BY <3>1, <3>2, PenaltyIs, Zenon
    <2>3. SlashStake(v, n) /\ UNCHANGED <<balance, pending, withdrawableAt, vrfKeys, now>>
        BY <2>1, <2>2, Zenon DEF SubmitEvidence
    <2>4. processedEvidence' \subseteq Offences
        BY <2>1, Zenon DEF SubmitEvidence, LedgerInv, TypeOK
    <2>5. QED  BY <2>3, <2>4, SlashKeeps, Zenon
<1>7. CASE RewardStep
    <2>1. PICK from \in Addr, v \in Addr, n \in RewardAmounts : DistributeReward(from, v, n)
        BY <1>7, Zenon DEF RewardStep
    <2>2. n \in Nat
        BY <1>0, Zenon
    <2>3. QED  BY <2>1, <2>2, TransferKeeps, Zenon DEF DistributeReward
<1>8. CASE VRFKeyStep
    <2>1. PICK from \in Addr : RegisterVRFKey(from)
        BY <1>8, LedgerAssumption, Zenon DEF VRFKeyStep
    <2>2. TypeOK'
        BY <2>1, Zenon DEF RegisterVRFKey, LedgerInv, TypeOK, supplyVars
    <2>3. QED  BY <2>1, <2>2, AmountsUntouched, Zenon DEF RegisterVRFKey, supplyVars
<1>9. CASE FeeStep
    <2>1. PICK n \in SettledAmounts, voters \in SUBSET Addr : SettlementFees(n, voters)
        BY <1>9, Zenon DEF FeeStep
    <2>2. QED  BY <1>0, <2>1, FeeKeeps, Zenon
<1>10. CASE NextBlock
    <2>1. TypeOK'
        BY <1>10, Zenon DEF NextBlock, LedgerInv, TypeOK, stakeVars, supplyVars
    <2>2. QED  BY <1>10, <2>1, AmountsUntouched, Zenon DEF NextBlock, stakeVars, supplyVars
<1>11. QED  BY <1>1, <1>2, <1>3, <1>4, <1>5, <1>6, <1>7, <1>8, <1>9, <1>10, Zenon DEF Next

(* Genesis: every token is on an account. *)
LEMMA LedgerInit == ASSUME Init PROVE LedgerInv /\ WithdrawalCovered /\ totalBurned < Word
<1>1. balance \in [Accounts -> Nat] /\ SumFunction(balance) \in Nat
    <2>1. InitialBalance \in [Accounts -> Nat] /\ Admin \in Accounts
        BY LedgerAssumption, Zenon DEF Accounts
    <2>2. SumFunction(InitialBalance) \in Nat
        BY <2>1, FinitelyMany, SumElement, Zenon
    <2>3. QED  BY <2>1, <2>2, Zenon DEF Init
<1>2. SumFunction(staked) = 0
    <2>1. DOMAIN staked = Addr /\ \A a \in Addr : staked[a] = 0
        BY Zenon DEF Init
    <2>2. SumFunctionOnSet(staked, Addr) = 0
        BY <2>1, FinitelyMany, SumZero, Zenon
    <2>3. QED  BY <2>1, <2>2, Zenon DEF SumFunction
<1>3. staked \in [Addr -> Nat] /\ pending \in [Addr -> Nat] /\ withdrawableAt \in [Addr -> Nat]
    BY Zenon DEF Init
<1>4. totalSupply \in Nat /\ totalBurned \in Nat /\ totalBurned < Word /\ now \in 0..MaxTime
    BY <1>1, GenesisAssumption DEF Init
<1>5. TypeOK
    BY <1>1, <1>3, <1>4, Zenon DEF Init, TypeOK
<1>6. totalSupply = SumFunction(balance) + SumFunction(staked) /\ totalSupply <= MaxSupply
    BY <1>1, <1>2, SupplyAssumption DEF Init
<1>7. WithdrawalCovered
    BY DEF Init, WithdrawalCovered
<1>8. QED  BY <1>4, <1>5, <1>6, <1>7, Zenon DEF LedgerInv, SupplyBacked

(* Stuttering keeps everything. *)
LEMMA LedgerStutters ==
    ASSUME LedgerInv, WithdrawalCovered, UNCHANGED vars
    PROVE  LedgerInv' /\ WithdrawalCovered'
BY Zenon DEF LedgerInv, TypeOK, SupplyBacked, WithdrawalCovered, vars, stakeVars, supplyVars

(* The tokens in circulation are those on accounts and in stakes, the types *)
(* hold, and every pending withdrawal is covered, as long as no stake is    *)
(* cut while a withdrawal from it is pending: the one case in which Slash   *)
(* and CompleteWithdrawal do not fit together.                              *)
THEOREM SupplyBackedAlways ==
    Spec /\ [][SparesWithdrawals]_vars => [](TypeOK /\ SupplyBacked /\ WithdrawalCovered)
<1>1. Init => LedgerInv /\ WithdrawalCovered
    BY LedgerInit, Zenon
<1>2. LedgerInv /\ WithdrawalCovered /\ [Next]_vars /\ [SparesWithdrawals]_vars
          => LedgerInv' /\ WithdrawalCovered'
    <2>1. SUFFICES ASSUME LedgerInv, WithdrawalCovered, [Next]_vars, [SparesWithdrawals]_vars
                   PROVE  LedgerInv' /\ WithdrawalCovered'
        BY Zenon
    <2>2. CASE UNCHANGED vars
        BY <2>1, <2>2, LedgerStutters, Zenon
    <2>3. CASE Next /\ SparesWithdrawals
        <3>1. LedgerInv'
            BY <2>1, <2>3, LedgerStepKeeps, Zenon
        <3>2. QED  BY <2>1, <2>3, <3>1, CoverKept, Zenon
    <2>4. QED  BY <2>1, <2>2, <2>3, Zenon
<1>3. LedgerInv /\ WithdrawalCovered => TypeOK /\ SupplyBacked /\ WithdrawalCovered
    BY Zenon DEF LedgerInv
<1>4. QED  BY <1>1, <1>2, <1>3, PTL DEF Spec

(* It is enough that the withdrawals are covered when they complete. *)
LEMMA LedgerAlways == Spec /\ []WithdrawalCovered => []LedgerInv
<1>1. Init => LedgerInv
    BY LedgerInit, Zenon
<1>2. LedgerInv /\ WithdrawalCovered /\ [Next]_vars => LedgerInv'
    BY LedgerStepKeeps, LedgerStutters, Zenon
<1>3. QED  BY <1>1, <1>2, PTL DEF Spec

(* Where no validator withdraws, slashes never unbalance the books. *)
THEOREM SlashedSupplyBacked ==
    Spec /\ [][~InitiateUnstakeStep]_vars => []SupplyBacked
<1> DEFINE NonePending == \A a \in Addr : pending[a] = 0
           I == LedgerInv /\ NonePending
<1>1. Init => I
    BY LedgerInit, Zenon DEF Init
<1>2. I /\ [Next]_vars /\ [~InitiateUnstakeStep]_vars => I'
    <2>1. SUFFICES ASSUME LedgerInv, NonePending, [Next]_vars, [~InitiateUnstakeStep]_vars
                   PROVE  I'
        BY Zenon
    <2>2. WithdrawalCovered
        BY <2>1 DEF WithdrawalCovered, LedgerInv, TypeOK
    <2>3. CASE UNCHANGED vars
        <3>1. LedgerInv' /\ pending' = pending
            BY <2>1, <2>2, <2>3, LedgerStutters, Zenon DEF vars, stakeVars
        <3>2. QED  BY <2>1, <3>1, Zenon
    <2>4. CASE Next /\ ~InitiateUnstakeStep
        <3>1. LedgerInv'
            BY <2>1, <2>2, <2>4, LedgerStepKeeps, Zenon
        <3>2. pending' = pending \/ CompleteUnstakeStep
            BY <2>4, Zenon DEF Next, TransferStep, Transfer, StakeStep, Stake, SlashStep, Slash,
                     EvidenceStep, SubmitEvidence, RewardStep, DistributeReward, VRFKeyStep,
                     RegisterVRFKey, FeeStep, SettlementFees, NextBlock, stakeVars
        <3>3. ~CompleteUnstakeStep
            BY <2>1, Zenon DEF CompleteUnstakeStep, CompleteUnstake
        <3>4. QED  BY <2>1, <3>1, <3>2, <3>3, Zenon
    <2>5. QED  BY <2>1, <2>3, <2>4, Zenon
<1>3. I => SupplyBacked
    BY Zenon DEF LedgerInv
<1>4. QED  BY <1>1, <1>2, <1>3, PTL DEF Spec

-----------------------------------------------------------------------------
(* StakeLedger: rewards, burns and validator flags.                         *)

(* The counter of burned tokens is a word. *)
LEMMA BurnedStep ==
    ASSUME LedgerInv, WithdrawalCovered, totalBurned < Word, Next
    PROVE  totalBurned' < Word
<1>1. CASE totalBurned' = totalBurned
    BY <1>1, Zenon
<1>2. ASSUME NEW n \in Nat, totalBurned' = Wrap(totalBurned + n) PROVE totalBurned' < Word
    BY <1>2, NoWrap DEF LedgerInv, TypeOK
<1>3. CASE SlashStep
    <2>1. PICK n \in SlashAmounts : totalBurned' = Wrap(totalBurned + n)
        BY <1>3, Zenon DEF SlashStep, Slash, SlashStake
    <2>2. n \in Nat
        BY AmountsAssumption, Zenon
    <2>3. QED  BY <1>2, <2>1, <2>2, Zenon
<1>4. CASE EvidenceStep
    <2>1. PICK e \in Offences : totalBurned' = Wrap(totalBurned + Penalty(e.kind, staked[e.validator]))
        BY <1>4, Zenon DEF EvidenceStep, SubmitEvidence, SlashStake
    <2>2. e.validator \in Addr
        BY LedgerAssumption, Zenon
    <2>3. staked[e.validator] \in Nat
        BY <2>2, Zenon DEF LedgerInv, TypeOK
    <2>4. Penalty(e.kind, staked[e.validator]) \in Nat
        BY <2>3, PenaltyIs, Zenon
    <2>5. QED  BY <1>2, <2>1, <2>4, Zenon
<1>5. CASE FeeStep
    <2>1. PICK n \in SettledAmounts, voters \in SUBSET Addr : SettlementFees(n, voters)
        BY <1>5, Zenon DEF FeeStep
    <2>2. n \in Nat
        BY AmountsAssumption, Zenon
    <2>3. totalBurned' = totalBurned \/ \E b \in Nat : totalBurned' = Wrap(totalBurned + b)
        BY <2>1, <2>2, FeeKeeps, Zenon
    <2>4. QED  BY <1>1, <1>2, <2>3, Zenon
<1>6. CASE TransferStep \/ StakeStep \/ InitiateUnstakeStep \/ CompleteUnstakeStep \/ RewardStep \/ VRFKeyStep \/ NextBlock
    BY <1>1, <1>6, Zenon DEF TransferStep, Transfer, StakeStep, Stake, InitiateUnstakeStep, InitiateUnstake,
             CompleteUnstakeStep, CompleteUnstake, RewardStep, DistributeReward, VRFKeyStep, RegisterVRFKey,
             NextBlock, supplyVars
<1>7. QED  BY <1>3, <1>4, <1>5, <1>6, Zenon DEF Next

(* A step that adds to the supply pays one fee, and pays it entirely. *)
LEMMA FeeStepIsWhole ==
    ASSUME LedgerInv, WithdrawalCovered, totalBurned < Word, Next, totalBurned' >= totalBurned
    PROVE  FeeStepWhole
<1>0. totalSupply \in Nat /\ totalBurned \in Nat
    BY Zenon DEF LedgerInv, TypeOK
<1>1. CASE totalSupply' <= totalSupply
    <2>1. totalSupply' \in Nat
        BY LedgerStepKeeps, Zenon DEF LedgerInv, TypeOK
    <2>2. ~(totalSupply' > totalSupply)
        BY <1>0, <1>1, <2>1
    <2>3. QED  BY <2>2, Zenon DEF FeeStepWhole
<1>2. CASE totalSupply' = totalSupply
    BY <1>0, <1>1, <1>2
<1>3. CASE FeeStep
    <2>1. PICK n \in SettledAmounts, voters \in SUBSET Addr : SettlementFees(n, voters)
        BY <1>3, Zenon DEF FeeStep
    <2>2. n \in Nat
        BY AmountsAssumption, Zenon
    <2>3. CASE \E b \in Nat : /\ totalBurned' = Wrap(totalBurned + b) /\ b < Word
                              /\ (totalSupply' - totalSupply) + b = CalculateFee(n).total
                              /\ SumFunction(balance') - SumFunction(balance) = totalSupply' - totalSupply
        <3>1. PICK b \in Nat : /\ totalBurned' = Wrap(totalBurned + b) /\ b < Word
                               /\ (totalSupply' - totalSupply) + b = CalculateFee(n).total
                               /\ SumFunction(balance') - SumFunction(balance) = totalSupply' - totalSupply
            BY <2>3, Zenon
        <3>2. totalBurned' - totalBurned = b
            <4>1. PICK x \in Nat : x = totalBurned /\ x < Word
                BY <1>0, Zenon
            <4>2. Wrap(x + b) >= x
                BY <3>1, <4>1, Zenon
            <4>3. Wrap(x + b) = x + b
                BY <3>1, <4>1, <4>2, NoWrap, SMT DEF Wrap
            <4>4. QED  BY <3>1, <4>1, <4>3
        <3>3. QED  BY <3>1, <3>2, Zenon DEF FeeStepWhole
    <2>4. CASE totalSupply' = totalSupply
        BY <1>2, <2>4, Zenon
    <2>5. QED  BY <2>1, <2>2, <2>3, <2>4, FeeKeeps, Zenon
<1>4. ASSUME NEW v \in Addr, NEW n \in Nat, SlashStake(v, n) PROVE FeeStepWhole
    <2>1. totalSupply' = (IF totalSupply < n THEN 0 ELSE totalSupply - n)
        BY <1>4, Zenon DEF SlashStake
    <2>2. totalSupply' <= totalSupply
        BY <1>0, <2>1
    <2>3. QED  BY <1>1, <2>2, Zenon
<1>5. CASE SlashStep
    <2>1. PICK v \in Addr, n \in SlashAmounts : SlashStake(v, n)
        BY <1>5, Zenon DEF SlashStep, Slash
    <2>2. n \in Nat
        BY AmountsAssumption, Zenon
    <2>3. QED  BY <1>4, <2>1, <2>2, Zenon
<1>6. CASE EvidenceStep
    <2>1. PICK e \in Offences : SlashStake(e.validator, Penalty(e.kind, staked[e.validator]))
        BY <1>6, Zenon DEF EvidenceStep, SubmitEvidence
    <2>2. e.validator \in Addr
        BY LedgerAssumption, Zenon
    <2>3. staked[e.validator] \in Nat
        BY <2>2, Zenon DEF LedgerInv, TypeOK
    <2>4. Penalty(e.kind, staked[e.validator]) \in Nat
        BY <2>3, PenaltyIs, Zenon
    <2>5. QED  BY <1>4, <2>1, <2>2, <2>4, Zenon
<1>7. CASE TransferStep \/ StakeStep \/ InitiateUnstakeStep \/ CompleteUnstakeStep \/ RewardStep \/ VRFKeyStep \/ NextBlock
    BY <1>2, <1>7, Zenon DEF TransferStep, Transfer, StakeStep, Stake, InitiateUnstakeStep, InitiateUnstake,
             CompleteUnstakeStep, CompleteUnstake, RewardStep, DistributeReward, VRFKeyStep, RegisterVRFKey,
             NextBlock, supplyVars
<1>8. QED  BY <1>3, <1>5, <1>6, <1>7, Zenon DEF Next

(* What one step may do to the flag of a validator. *)
FlagStep == \A a \in active' : staked'[a] < MinimumStake =>
                \/ a \in active /\ staked[a] < MinimumStake
                \/ pending[a] > 0 /\ pending'[a] = 0

(* A validator below the minimum was already, or has just completed its     *)
(* withdrawal.                                                              *)
LEMMA FlagKept ==
    ASSUME LedgerInv, WithdrawalCovered, Next
    PROVE  FlagStep
<1>0. /\ staked \in [Addr -> Nat] /\ pending \in [Addr -> Nat] /\ active \subseteq Addr
      /\ \A a \in Addr : staked[a] \in Nat /\ pending[a] \in Nat
      /\ MinimumStake \in Nat
    BY GenesisAssumption, Zenon DEF LedgerInv, TypeOK
<1>1. CASE staked' = staked /\ active' \subseteq active
    BY <1>1, Zenon DEF FlagStep
<1>2. CASE StakeStep
    <2>1. PICK from \in Addr, n \in StakeAmounts : Stake(from, n)
        BY <1>2, Zenon DEF StakeStep
    <2>2. n \in Nat
        BY AmountsAssumption, Zenon
    <2>3. staked' = [staked EXCEPT ![from] = staked[from] + n]
        BY <2>1, <2>2, StakeKeeps, Zenon
    <2>4. staked'[from] = staked[from] + n /\ \A a \in Addr \ {from} : staked'[a] = staked[a]
        BY <1>0, <2>3, Zenon
    <2>5. staked'[from] = Wrap(staked[from] + n)
        BY <1>0, <2>1, Zenon DEF Stake
    <2>6. active' = IF staked'[from] >= MinimumStake THEN active \cup {from} ELSE active
        BY <2>1, <2>5, Zenon DEF Stake
    <2>7. ASSUME NEW a \in active', staked'[a] < MinimumStake
          PROVE  a \in active /\ staked[a] < MinimumStake
        <3>1. CASE a = from
            <4>1. ~(staked'[from] >= MinimumStake)
                BY <1>0, <2>2, <2>4, <2>7, <3>1
            <4>2. a \in active
                BY <2>6, <2>7, <4>1, Zenon
            <4>3. QED  BY <1>0, <2>2, <2>4, <2>7, <3>1, <4>2
        <3>2. CASE a # from
            <4>1. a \in active
                BY <2>6, <2>7, <3>2, Zenon
            <4>2. QED  BY <1>0, <2>4, <2>7, <3>2, <4>1, Zenon
        <3>3. QED  BY <3>1, <3>2, Zenon
    <2>8. QED  BY <2>7, Zenon DEF FlagStep
<1>3. CASE InitiateUnstakeStep
    BY <1>1, <1>3, Zenon DEF InitiateUnstakeStep, InitiateUnstake
<1>4. CASE CompleteUnstakeStep
    <2>1. PICK from \in Addr : CompleteUnstake(from)
        BY <1>4, Zenon DEF CompleteUnstakeStep
    <2>2. /\ pending[from] # 0 /\ pending' = [pending EXCEPT ![from] = 0] /\ active' = active
          /\ staked' = [staked EXCEPT ![from] = Wrap(staked[from] - pending[from])]
        BY <2>1, Zenon DEF CompleteUnstake
    <2>3. QED  BY <1>0, <2>2 DEF FlagStep
<1>5. ASSUME NEW v \in Addr, NEW n \in Nat, SlashStake(v, n) PROVE FlagStep
    <2>1. /\ n <= staked[v] /\ staked' = [staked EXCEPT ![v] = staked[v] - n]
          /\ active' = IF staked[v] - n < MinimumStake THEN active \ {v} ELSE active
        BY <1>5, Zenon DEF SlashStake
    <2>2. QED  BY <1>0, <2>1, Zenon DEF FlagStep
<1>6. CASE SlashStep
    <2>1. PICK v \in Addr, n \in SlashAmounts : SlashStake(v, n)
        BY <1>6, Zenon DEF SlashStep, Slash
    <2>2. n \in Nat
        BY AmountsAssumption, Zenon
    <2>3. QED  BY <1>5, <2>1, <2>2, Zenon
<1>7. CASE EvidenceStep
    <2>1. PICK e \in Offences : SlashStake(e.validator, Penalty(e.kind, staked[e.validator]))
        BY <1>7, Zenon DEF EvidenceStep, SubmitEvidence
    <2>2. e.validator \in Addr
        BY LedgerAssumption, Zenon
    <2>3. Penalty(e.kind, staked[e.validator]) \in Nat
        BY <1>0, <2>2, PenaltyIs, Zenon
    <2>4. QED  BY <1>5, <2>1, <2>2, <2>3, Zenon
<1>8. CASE TransferStep \/ RewardStep \/ VRFKeyStep \/ FeeStep \/ NextBlock
    <2>1. staked' = staked /\ active' = active
        BY <1>8, Zenon DEF TransferStep, Transfer, RewardStep, DistributeReward, VRFKeyStep, RegisterVRFKey,
                 FeeStep, SettlementFees, NextBlock, stakeVars
    <2>2. QED  BY <1>1, <2>1, Zenon
<1>9. QED  BY <1>2, <1>3, <1>4, <1>6, <1>7, <1>8, Zenon DEF Next

(* Ones add up to the number of elements. *)
LEMMA SumOnes ==
    ASSUME NEW f, NEW S, IsFiniteSet(S), \A x \in S : f[x] = 1
    PROVE  SumFunctionOnSet(f, S) = Cardinality(S)
<1> DEFINE G == {T \in SUBSET S : SumFunctionOnSet(f, T) = Cardinality(T)}
<1>1. ASSUME NEW T \in SUBSET S, \A x \in T : T \ {x} \in G PROVE T \in G
    <2>1. IsFiniteSet(T)
        BY FS_Subset, Zenon
    <2>2. CASE T = {}
        BY <2>2, SumEmpty, FS_EmptySet
    <2>3. CASE T # {}
        <3>1. PICK x \in T : TRUE
            BY <2>3, Zenon
        <3>2. SumFunctionOnSet(f, T \ {x}) = Cardinality(T \ {x}) /\ f[x] = 1
            BY <1>1, <3>1, Zenon
        <3>3. Cardinality(T \ {x}) = Cardinality(T) - 1 /\ Cardinality(T) \in Nat
            BY <2>1, <3>1, FS_RemoveElement, FS_CardinalityType
        <3>4. \A y \in T : f[y] \in Int
            OBVIOUS
        <3>5. SumFunctionOnSet(f, T) = f[x] + SumFunctionOnSet(f, T \ {x})
            BY <2>1, <3>1, <3>4, SumRemove
        <3>6. SumFunctionOnSet(f, T) = Cardinality(T)
            BY <3>2, <3>3, <3>5
        <3>7. QED  BY <3>6, Zenon
    <2>4. QED  BY <2>2, <2>3, Zenon
<1>2. \A T \in SUBSET S : T \in G
    <2> HIDE DEF G
    <2>1. QED  BY <1>1, SetInduction, Zenon
<1>3. QED  BY <1>2, Zenon

(* What falls short of a proportion by less than w each falls short by less *)
(* than w for every element in the sum.                                     *)
LEMMA SumShort ==
    ASSUME NEW f, NEW g, NEW S, IsFiniteSet(S), NEW w \in Nat, NEW r \in Nat,
           \A x \in S : f[x] \in Nat /\ g[x] \in Nat /\ r * g[x] <= f[x] * w + w
    PROVE  r * SumFunctionOnSet(g, S) <= SumFunctionOnSet(f, S) * w + Cardinality(S) * w
<1> DEFINE one == [x \in S |-> 1]
           h == [x \in S |-> f[x] + 1]
<1>1. \A x \in S : one[x] = 1 /\ h[x] = f[x] + 1
    BY Zenon
<1> HIDE DEF one, h
<1>2. ASSUME NEW x \in S PROVE g[x] \in Nat /\ h[x] \in Nat /\ g[x] * r <= w * h[x]
    <2>1. PICK p \in Nat, q \in Nat : p = f[x] /\ q = g[x] /\ r * q <= p * w + w
        BY Zenon
    <2>2. q * r = r * q /\ w * (p + 1) = p * w + w
        BY SMT
    <2>3. QED  BY <1>1, <2>1, <2>2
<1>3. SumFunctionOnSet(g, S) * r <= w * SumFunctionOnSet(h, S)
    BY <1>2, SumProportional, Zenon
<1>4. SumFunctionOnSet(h, S) = SumFunctionOnSet(f, S) + SumFunctionOnSet(one, S)
    <2>1. \A x \in S : f[x] \in Int /\ one[x] \in Int /\ h[x] = f[x] + one[x]
        BY <1>1
    <2>2. QED  BY <2>1, SumPlus
<1>5. SumFunctionOnSet(one, S) = Cardinality(S)
    BY <1>1, SumOnes, Zenon
<1>6. PICK a \in Nat, b \in Nat, k \in Nat :
          a = SumFunctionOnSet(f, S) /\ b = SumFunctionOnSet(g, S) /\ k = Cardinality(S)
    BY SumNat, FS_CardinalityType, Zenon
<1>7. b * r <= w * (a + k)
    BY <1>3, <1>4, <1>5, <1>6
<1>8. w * (a + k) = a * w + k * w /\ b * r = r * b
    BY SMT
<1>9. QED  BY <1>6, <1>7, <1>8, Zenon

(* What the last voter gets, from what the others get. *)
LEMMA LastShare ==
    ASSUME NEW p \in Nat, NEW A \in Nat, NEW U \in Nat, NEW s \in Nat, NEW w \in Nat, NEW r \in Nat,
           NEW k \in Nat, w = s + U, w > 0, r = p + A, A * w <= r * U, r * U <= A * w + k * w
    PROVE  p * w > r * s - w /\ p * w < r * s + (k + 1) * w
<1>1. PICK pw \in Nat, Aw \in Nat, rs \in Nat, rU \in Nat, kw \in Nat :
          pw = p * w /\ Aw = A * w /\ rs = r * s /\ rU = r * U /\ kw = k * w
    BY SMT
<1>2. r * w = p * w + A * w
    BY SMT
<1>3. r * w = r * s + r * U
    BY SMT
<1>4. (k + 1) * w = k * w + w
    BY SMT
<1>5. pw + Aw = rs + rU /\ Aw <= rU /\ rU <= Aw + kw
    BY <1>1, <1>2, <1>3
<1>6. pw > rs - w /\ pw < rs + (kw + w)
    BY <1>5
<1>7. QED  BY <1>1, <1>4, <1>6

(* What a voter that is not the last one gets. *)
LEMMA OtherShare ==
    ASSUME NEW p \in Nat, NEW s \in Nat, NEW w \in Nat, NEW r \in Nat, NEW k \in Nat, w > 0,
           p = (r * s) \div w
    PROVE  /\ p * w > r * s - w /\ p * w < r * s + (k + 1) * w
           /\ p * w <= r * s /\ r * s <= p * w + w
<1>1. PICK x \in Nat : x = r * s
    BY SMT
<1>2. p * w <= x /\ x < p * w + w
    BY <1>1, SMT
<1>3. PICK pw \in Nat, kw \in Nat : pw = p * w /\ kw = k * w
    BY SMT
<1>4. (k + 1) * w = k * w + w
    BY SMT
<1>5. pw <= x /\ x < pw + w
    BY <1>2, <1>3
<1>6. pw > x - w /\ pw < x + (kw + w) /\ x <= pw + w
    BY <1>5
<1>7. QED  BY <1>1, <1>3, <1>4, <1>5, <1>6

(* Each share but the last is rounded down; the last one takes the rest,    *)
(* less than one unit for each validator paid.                              *)
LEMMA SharesOf ==
    ASSUME LedgerInv, NEW r \in Nat, r < Word, NEW paid \in SUBSET Addr, paid # {},
           \A v \in paid : staked[v] > 0 /\ r * staked[v] < Word
    PROVE  \A v \in paid :
               /\ Payout(r, paid)[v] * SumFunctionOnSet(staked, paid)
                    > r * staked[v] - SumFunctionOnSet(staked, paid)
               /\ Payout(r, paid)[v] * SumFunctionOnSet(staked, paid)
                    < r * staked[v] + Cardinality(paid) * SumFunctionOnSet(staked, paid)
<1> DEFINE pay == Payout(r, paid)
<1>0. IsFiniteSet(paid) /\ (\A v \in paid : staked[v] \in Nat /\ staked[v] \in Int) /\ SumFunctionOnSet(staked, paid) \in Nat
    <2>1. IsFiniteSet(paid) /\ (\A v \in paid : staked[v] \in Nat) /\ SumFunctionOnSet(staked, paid) \in Nat
        BY PaidStake, Zenon
    <2>2. QED  BY <2>1
<1>1. PICK w \in Nat : w = SumFunctionOnSet(staked, paid) /\ w = VoterStake(paid) /\ w > 0
    <2>1. PICK v \in paid : TRUE
        BY Zenon
    <2>2. IsFiniteSet(paid \ {v}) /\ \A u \in paid \ {v} : staked[u] \in Nat
        BY <1>0, FS_Subset
    <2>3. SumFunctionOnSet(staked, paid \ {v}) \in Nat
        BY <2>2, SumNat, Zenon
    <2>4. SumFunctionOnSet(staked, paid) = staked[v] + SumFunctionOnSet(staked, paid \ {v})
        BY <1>0, <2>1, SumRemove
    <2>5. SumFunctionOnSet(staked, paid) > 0
        BY <1>0, <2>1, <2>3, <2>4
    <2>6. QED  BY <1>0, <2>5, PaidStake
<1>2. VoterStake(paid) # 0
    BY <1>1
<1>3. /\ pay \in [paid -> Nat] /\ SumFunction(pay) = r
      /\ \E last \in paid : \A v \in paid \ {last} : pay[v] = Share(r, paid, v)
    BY <1>2, PayoutAddsUp, Zenon
<1> HIDE DEF pay
<1>4. PICK last \in paid : \A v \in paid \ {last} : pay[v] = Share(r, paid, v)
    BY <1>3, Zenon
<1> DEFINE others == paid \ {last}
<1>5. IsFiniteSet(others) /\ \A v \in paid : pay[v] \in Nat /\ pay[v] \in Int
    BY <1>0, <1>3, FS_Subset
<1>6. PICK k \in Nat : k = Cardinality(others) /\ Cardinality(paid) = k + 1
    BY <1>0, <1>4, <1>5, FS_RemoveElement, FS_CardinalityType
<1>7. ASSUME NEW v \in others
      PROVE  /\ pay[v] * w > r * staked[v] - w /\ pay[v] * w < r * staked[v] + (k + 1) * w
             /\ pay[v] * w <= r * staked[v] /\ r * staked[v] <= pay[v] * w + w
    <2>1. PICK s \in Nat : s = staked[v] /\ r * s < Word
        BY <1>0
    <2>2. r * s \in Nat
        BY <2>1, SMT
    <2>3. Wrap(r * s) = r * s
        BY <2>1, <2>2, NoWrap
    <2>4. pay[v] = (r * s) \div w
        BY <1>1, <1>4, <2>1, <2>3, Zenon DEF Share
    <2>5. pay[v] \in Nat
        BY <1>5, Zenon
    <2>6. QED  BY <1>1, <1>6, <2>1, <2>4, <2>5, OtherShare, Zenon
<1>8. pay[last] * w > r * staked[last] - w /\ pay[last] * w < r * staked[last] + (k + 1) * w
    <2>1. \A v \in others : pay[v] \in Nat /\ staked[v] \in Nat
        BY <1>0, <1>5
    <2>2. PICK A \in Nat, U \in Nat, p \in Nat, s \in Nat :
              /\ A = SumFunctionOnSet(pay, others) /\ U = SumFunctionOnSet(staked, others)
              /\ p = pay[last] /\ s = staked[last]
        BY <1>0, <1>5, <2>1, SumNat
    <2>3. w = s + U
        <3>1. IsFiniteSet(paid) /\ \A v \in paid : staked[v] \in Int
            BY <1>0, Zenon
        <3>2. \A v \in paid : SumFunctionOnSet(staked, paid) = staked[v] + SumFunctionOnSet(staked, paid \ {v})
            BY <3>1, SumRemove, Zenon
        <3>3. QED  BY <1>1, <2>2, <3>2, Zenon
    <2>4. r = p + A
        <3>1. SumFunctionOnSet(pay, paid) = r
            BY <1>3, Zenon DEF SumFunction
        <3>2. QED  BY <1>0, <1>5, <2>2, <3>1, SumRemove
    <2>5. A * w <= r * U
        <3>1. \A v \in others : pay[v] \in Nat /\ staked[v] \in Nat /\ pay[v] * w <= r * staked[v]
            BY <1>7, <2>1, Zenon
        <3>2. SumFunctionOnSet(pay, others) * w <= r * SumFunctionOnSet(staked, others)
            BY <1>1, <1>5, <3>1, SumProportional, Zenon
        <3>3. QED  BY <2>2, <3>2, Zenon
    <2>6. r * U <= A * w + k * w
        <3>1. \A v \in others : pay[v] \in Nat /\ staked[v] \in Nat /\ r * staked[v] <= pay[v] * w + w
            BY <1>7, <2>1, Zenon
        <3>2. r * SumFunctionOnSet(staked, others)
                <= SumFunctionOnSet(pay, others) * w + Cardinality(others) * w
            BY <1>1, <1>5, <3>1, SumShort, Zenon
        <3>3. QED  BY <1>6, <2>2, <3>2, Zenon
    <2>7. p * w > r * s - w /\ p * w < r * s + (k + 1) * w
        BY <1>1, <1>6, <2>2, <2>3, <2>4, <2>5, <2>6, LastShare, Zenon
    <2>8. QED  BY <2>2, <2>7, Zenon
<1>9. ASSUME NEW v \in paid
      PROVE  pay[v] * w > r * staked[v] - w /\ pay[v] * w < r * staked[v] + (k + 1) * w
    BY <1>7, <1>8, Zenon
<1>10. QED  BY <1>1, <1>6, <1>9, Zenon DEF pay

(* An active validator has more at stake than it withdraws. *)
ActiveBacked == \A a \in active : staked[a] > pending[a]

(* Every transaction keeps it, if slashing spares what is being withdrawn. *)
LEMMA ActiveStep ==
    ASSUME LedgerInv, WithdrawalCovered, ActiveBacked, Next, SparesWithdrawals, MinimumStake > 0
    PROVE  ActiveBacked'
<1>0. /\ staked \in [Addr -> Nat] /\ pending \in [Addr -> Nat] /\ active \subseteq Addr
      /\ \A a \in Addr : staked[a] \in Nat /\ pending[a] \in Nat
      /\ MinimumStake \in Nat
    BY GenesisAssumption, Zenon DEF LedgerInv, TypeOK
<1>1. CASE staked' = staked /\ active' = active /\ pending' = pending
    BY <1>1, Zenon DEF ActiveBacked
<1>2. CASE StakeStep
    <2>1. PICK from \in Addr, n \in StakeAmounts : Stake(from, n)
        BY <1>2, Zenon DEF StakeStep
    <2>2. n \in Nat
        BY AmountsAssumption, Zenon
    <2>3. staked' = [staked EXCEPT ![from] = staked[from] + n]
        BY <2>1, <2>2, StakeKeeps, Zenon
    <2>4. n # 0 /\ pending' = pending /\ active' \subseteq active \cup {from}
        BY <2>1, Zenon DEF Stake
    <2>5. pending[from] <= staked[from] /\ \A a \in active : staked[a] > pending[a]
        BY Zenon DEF WithdrawalCovered, ActiveBacked
    <2>6. QED  BY <1>0, <2>2, <2>3, <2>4, <2>5 DEF ActiveBacked
<1>3. CASE InitiateUnstakeStep
    <2>1. PICK from \in Addr, n \in UnstakeAmounts : InitiateUnstake(from, n)
        BY <1>3, Zenon DEF InitiateUnstakeStep
    <2>2. n \in Nat
        BY AmountsAssumption, Zenon
    <2>3. /\ n <= staked[from] /\ pending' = [pending EXCEPT ![from] = n] /\ staked' = staked
          /\ active' = IF staked[from] - n < MinimumStake THEN active \ {from} ELSE active
        BY <2>1, Zenon DEF InitiateUnstake
    <2>4. QED  BY <1>0, <2>2, <2>3 DEF ActiveBacked
<1>4. CASE CompleteUnstakeStep
    <2>1. PICK from \in Addr : CompleteUnstake(from)
        BY <1>4, Zenon DEF CompleteUnstakeStep
    <2>2. pending' = [pending EXCEPT ![from] = 0] /\ active' = active
        BY <2>1, Zenon DEF CompleteUnstake
    <2>3. staked' = [staked EXCEPT ![from] = staked[from] - pending[from]]
        BY <2>1, WithdrawKeeps, Zenon
    <2>4. QED  BY <1>0, <2>2, <2>3 DEF ActiveBacked
<1>5. ASSUME NEW v \in Addr, NEW n \in Nat, SlashStake(v, n), pending' = pending PROVE ActiveBacked'
    <2>1. /\ n <= staked[v] /\ staked' = [staked EXCEPT ![v] = staked[v] - n]
          /\ active' = IF staked[v] - n < MinimumStake THEN active \ {v} ELSE active
        BY <1>5, Zenon DEF SlashStake
    <2>2. pending[v] > 0 => staked'[v] >= staked[v]
        BY <1>5, Zenon DEF SparesWithdrawals
    <2>3. QED  BY <1>0, <1>5, <2>1, <2>2 DEF ActiveBacked
<1>6. CASE SlashStep
    <2>1. PICK v \in Addr, n \in SlashAmounts : SlashStake(v, n) /\ pending' = pending
        BY <1>6, Zenon DEF SlashStep, Slash
    <2>2. n \in Nat
        BY AmountsAssumption, Zenon
    <2>3. QED  BY <1>5, <2>1, <2>2, Zenon
<1>7. CASE EvidenceStep
    <2>1. PICK e \in Offences : SlashStake(e.validator, Penalty(e.kind, staked[e.validator])) /\ pending' = pending
        BY <1>7, Zenon DEF EvidenceStep, SubmitEvidence
    <2>2. e.validator \in Addr
        BY LedgerAssumption, Zenon
    <2>3. Penalty(e.kind, staked[e.validator]) \in Nat
        BY <1>0, <2>2, PenaltyIs, Zenon
    <2>4. QED  BY <1>5, <2>1, <2>2, <2>3, Zenon
<1>8. CASE TransferStep \/ RewardStep \/ VRFKeyStep \/ FeeStep \/ NextBlock
    BY <1>1, <1>8, Zenon DEF TransferStep, Transfer, RewardStep, DistributeReward, VRFKeyStep, RegisterVRFKey,
                 FeeStep, SettlementFees, NextBlock, stakeVars
<1>9. QED  BY <1>2, <1>3, <1>4, <1>6, <1>7, <1>8, Zenon DEF Next

(* No product of a reward and a stake leaves the word. *)
RewardsFit == \A n \in SettledAmounts, v \in Addr : CalculateFee(n).validators * staked[v] < Word

(* The shares of the validators paid are proportional to their stakes. *)
LEMMA SharesAre ==
    ASSUME LedgerInv, ActiveBacked, RewardsFit
    PROVE  SharesProportional
<1>1. SUFFICES ASSUME NEW n \in SettledAmounts, NEW paid \in (SUBSET active) \ {{}}
               PROVE  \A v \in paid :
                          /\ Payout(CalculateFee(n).validators, paid)[v] * SumFunctionOnSet(staked, paid)
                               > CalculateFee(n).validators * staked[v] - SumFunctionOnSet(staked, paid)
                          /\ Payout(CalculateFee(n).validators, paid)[v] * SumFunctionOnSet(staked, paid)
                               < CalculateFee(n).validators * staked[v]
                                 + Cardinality(paid) * SumFunctionOnSet(staked, paid)
    BY Zenon DEF SharesProportional
<1>2. n \in Nat
    BY AmountsAssumption
<1>3. PICK r \in Nat : r = CalculateFee(n).validators /\ r < Word
    <2>1. /\ CalculateFee(n).validators \in Nat /\ CalculateFee(n).burn \in Nat /\ CalculateFee(n).treasury \in Nat
          /\ CalculateFee(n).validators + CalculateFee(n).burn + CalculateFee(n).treasury = CalculateFee(n).total
          /\ CalculateFee(n).total <= Word \div 10000
        BY <1>2, FeeParts
    <2>2. CalculateFee(n).validators < Word
        BY <2>1, NoWrap
    <2>3. QED  BY <2>1, <2>2
<1>4. \A v \in Addr : r * staked[v] < Word
    BY <1>3, Zenon DEF RewardsFit
<1>5. paid \in SUBSET Addr /\ paid # {} /\ \A v \in paid : staked[v] > 0 /\ r * staked[v] < Word
    <2>1. paid \subseteq active /\ paid # {} /\ active \subseteq Addr
        BY Zenon DEF LedgerInv, TypeOK
    <2>2. \A v \in Addr : staked[v] \in Nat /\ pending[v] \in Nat
        BY Zenon DEF LedgerInv, TypeOK
    <2>3. QED  BY <1>4, <2>1, <2>2 DEF ActiveBacked
<1>6. QED  BY <1>3, <1>5, SharesOf, Zenon

(* Staking is sound: amounts stay natural numbers, every withdrawal is      *)
(* covered, a fee is distributed entirely or not at all, in proportion to   *)
(* the stakes, and only a withdrawal that completes leaves a validator      *)
(* active below the minimum stake.  It takes four things: a minimum stake,  *)
(* rewards whose product with a stake fits a word, no stake cut while a     *)
(* withdrawal from it is pending, and a burn counter that does not wrap.    *)
THEOREM StakingSoundAlways ==
    ASSUME MinimumStake > 0
    PROVE  Spec /\ []RewardsFit /\ [][SparesWithdrawals]_vars /\ [][totalBurned' >= totalBurned]_vars => StakingSound
<1> DEFINE I == LedgerInv /\ WithdrawalCovered /\ ActiveBacked /\ totalBurned < Word
           Kept == SparesWithdrawals /\ totalBurned' >= totalBurned
           Good == TypeOK /\ WithdrawalCovered /\ SharesProportional
<1>1. Init => I
    <2>1. Init => ActiveBacked
        BY Zenon DEF Init, ActiveBacked
    <2>2. QED  BY <2>1, LedgerInit, Zenon
<1>2. I /\ UNCHANGED vars => I'
    <2>1. ActiveBacked /\ totalBurned < Word /\ UNCHANGED vars => ActiveBacked' /\ totalBurned' < Word
        BY Zenon DEF ActiveBacked, vars, stakeVars, supplyVars
    <2>2. QED  BY <2>1, LedgerStutters, Zenon
<1>3. I /\ Next /\ SparesWithdrawals => I'
    <2>1. SUFFICES ASSUME I, Next, SparesWithdrawals PROVE I'
        BY Zenon
    <2>2. LedgerInv'
        BY <2>1, LedgerStepKeeps, Zenon
    <2>3. WithdrawalCovered'
        BY <2>1, <2>2, CoverKept, Zenon
    <2>4. ActiveBacked'
        BY <2>1, ActiveStep, Zenon
    <2>5. totalBurned' < Word
        BY <2>1, BurnedStep, Zenon
    <2>6. QED  BY <2>2, <2>3, <2>4, <2>5, Zenon
<1>4. I /\ RewardsFit => Good
    BY SharesAre, Zenon DEF LedgerInv
<1>5. I /\ Next /\ totalBurned' >= totalBurned => FeeStepWhole
    BY FeeStepIsWhole, Zenon
<1>6. I /\ Next => FlagStep
    BY FlagKept, Zenon
<1>7. Spec /\ []RewardsFit /\ [][SparesWithdrawals]_vars /\ [][totalBurned' >= totalBurned]_vars
          => []Good /\ [][FeeStepWhole]_vars /\ [][FlagStep]_vars
    <2> HIDE DEF I, Good
    <2>1. QED  BY <1>1, <1>2, <1>3, <1>4, <1>5, <1>6, PTL DEF Spec
<1>8. QED  BY <1>7, Zenon DEF StakingSound, FeesAllOrNothing, FlagOutlivesStakeOnlyByWithdrawal, FlagStep
=============================================================================
