----------------------------- MODULE SumProofs -----------------------------
(***************************************************************************)
(* Sums of functions with finite domains: what the fold that adds up the   *)
(* values of a function returns, and how it changes with the function.     *)
(* The fold's definition takes an element at a time; its equation, and all *)
(* that follows, is proved by taking a smallest set that would refute it.  *)
(***************************************************************************)
EXTENDS Integers, Functions, FiniteSetTheorems, TLAPS

AnElement(S) == CHOOSE x \in S : TRUE

(* The partial sums, as the fold of the community modules defines them.    *)
PartialSums(f) ==
  CHOOSE sums : sums = [S \in SUBSET DOMAIN f |->
    IF S = {} THEN 0 ELSE f[AnElement(S)] + sums[S \ {AnElement(S)}]]

SumOver(f, S) == PartialSums(f)[S]

(* A non-empty set of subsets of a finite set has a smallest one, and a    *)
(* non-empty set of naturals too.                                          *)
LEMMA SmallestSubset ==
  ASSUME NEW D, IsFiniteSet(D), NEW Bad \in SUBSET SUBSET D, Bad # {}
  PROVE  \E S \in Bad : \A x \in S : S \ {x} \notin Bad
  <1>1. IsWellFoundedOn(StrictSubsetOrdering(D), SUBSET D)
    BY FS_StrictSubsetOrderingWellFounded, FS_FiniteSubsetsOfFinite
  <1>2. PICK S \in Bad : \A T \in Bad : <<T, S>> \notin StrictSubsetOrdering(D)
    BY <1>1, WFMin
  <1>3. ASSUME NEW x \in S, S \ {x} \in Bad PROVE FALSE
    <2>1. <<S \ {x}, S>> \in StrictSubsetOrdering(D)
      BY <1>3 DEF StrictSubsetOrdering
    <2> QED  BY <1>2, <1>3, <2>1
  <1> QED  BY <1>2, <1>3

LEMMA SmallestNumber ==
  ASSUME NEW Bad \in SUBSET Nat, Bad # {}
  PROVE  \E n \in Bad : n = 0 \/ n - 1 \notin Bad
  <1>1. PICK n \in Bad : \A m \in Bad : <<m, n>> \notin OpToRel(<, Nat)
    BY WFMin, NatLessThanWellFounded
  <1>2. ASSUME n # 0, n - 1 \in Bad PROVE FALSE
    <2>1. n \in Nat /\ n - 1 \in Nat /\ n - 1 < n  BY <1>2
    <2>2. <<n - 1, n>> \in OpToRel(<, Nat)  BY <2>1 DEF OpToRel
    <2> QED  BY <1>1, <1>2, <2>2
  <1> QED  BY <1>2

(* What holds of zero and is handed on to the next number holds of all.    *)
LEMMA EveryNumber ==
  ASSUME NEW Good \in SUBSET Nat, 0 \in Good, \A n \in Good : n + 1 \in Good
  PROVE  Good = Nat
  <1>1. ASSUME Nat \ Good # {} PROVE FALSE
    <2>1. PICK n \in Nat \ Good : n = 0 \/ n - 1 \notin Nat \ Good
      BY <1>1, SmallestNumber
    <2>2. n # 0 /\ n - 1 \in Nat  BY <2>1
    <2>3. n - 1 \in Good /\ (n - 1) + 1 = n  BY <2>1, <2>2
    <2> QED  BY <2>1, <2>3
  <1> QED  BY <1>1

-----------------------------------------------------------------------------
(* The recursive equation of the partial sums has a solution.              *)
LEMMA PartialSumsDef ==
  ASSUME NEW f, IsFiniteSet(DOMAIN f)
  PROVE  PartialSums(f) = [S \in SUBSET DOMAIN f |->
           IF S = {} THEN 0
           ELSE f[AnElement(S)] + PartialSums(f)[S \ {AnElement(S)}]]
  <1> DEFINE D == DOMAIN f
             Step(g, S) == IF S = {} THEN 0 ELSE f[AnElement(S)] + g[S \ {AnElement(S)}]
             Upto(n) == {S \in SUBSET D : Cardinality(S) <= n}
             Solves(n) == \E g : \A S \in Upto(n) : g[S] = Step(g, S)
             Bad == {n \in Nat : ~Solves(n)}
  <1>1. ASSUME NEW n \in Nat, n # 0, Solves(n - 1) PROVE Solves(n)
    <2>1. PICK g : \A S \in Upto(n - 1) : g[S] = Step(g, S)  BY <1>1
    <2> DEFINE h == [S \in SUBSET D |-> Step(g, S)]
    <2>2. ASSUME NEW S \in Upto(n) PROVE h[S] = Step(h, S)
      <3>1. CASE S = {}  BY <3>1
      <3>2. CASE S # {}
        <4> DEFINE x == AnElement(S)
        <4>1. x \in S  BY <3>2 DEF AnElement
        <4>2. S \ {x} \in Upto(n - 1)
          BY <4>1, FS_RemoveElement, FS_Subset, FS_CardinalityType
        <4>3. h[S \ {x}] = g[S \ {x}]  BY <2>1, <4>2
        <4> QED  BY <3>2, <4>3
      <3> QED  BY <3>1, <3>2
    <2> QED  BY <2>2
  <1>2. Solves(0)
    <2>1. \A S \in Upto(0) : S = {}
      BY FS_Subset, FS_CardinalityType, FS_EmptySet
    <2> DEFINE g == [S \in SUBSET D |-> 0]
    <2>2. \A S \in Upto(0) : g[S] = Step(g, S)  BY <2>1
    <2> QED  BY <2>2
  <1>3. \A n \in Nat : Solves(n)
    <2>1. Bad \in SUBSET Nat  OBVIOUS
    <2>2. ASSUME Bad # {} PROVE FALSE
      <3>1. PICK n \in Bad : n = 0 \/ n - 1 \notin Bad
        <4> HIDE DEF Bad
        <4> QED  BY <2>1, <2>2, SmallestNumber
      <3> HIDE DEF Solves
      <3>2. n \in Nat /\ ~Solves(n)  OBVIOUS
      <3>3. n # 0 => n - 1 \in Nat /\ Solves(n - 1)  BY <3>1, <3>2
      <3> QED  BY <1>1, <1>2, <3>2, <3>3
    <2> HIDE DEF Solves
    <2> QED  BY <2>2
  <1>4. Upto(Cardinality(D)) = SUBSET D  BY FS_Subset
  <1>5. PICK g : \A S \in SUBSET D : g[S] = Step(g, S)
    BY <1>3, <1>4, FS_CardinalityType
  <1> DEFINE h == [S \in SUBSET D |-> g[S]]
  <1>6. ASSUME NEW S \in SUBSET D PROVE Step(h, S) = h[S]
    <2>1. S # {} => S \ {AnElement(S)} \in SUBSET D  OBVIOUS
    <2> QED  BY <1>5, <2>1
  <1>7. h = [S \in SUBSET D |-> Step(h, S)]  BY <1>6
  <1> HIDE DEF h
  <1> QED  BY <1>7 DEF PartialSums

(* The sum of nothing, and of a set less the element the fold takes first. *)
LEMMA SumOverDef ==
  ASSUME NEW f, IsFiniteSet(DOMAIN f), NEW S \in SUBSET DOMAIN f
  PROVE  SumOver(f, S) = IF S = {} THEN 0
                         ELSE f[AnElement(S)] + SumOver(f, S \ {AnElement(S)})
  BY PartialSumsDef DEF SumOver

LEMMA SumOverEmpty ==
  ASSUME NEW f, IsFiniteSet(DOMAIN f)
  PROVE  SumOver(f, {}) = 0
  BY SumOverDef

(* A sum of whole numbers can be taken from any element on.                *)
LEMMA SumOverTakes ==
  ASSUME NEW D, IsFiniteSet(D), NEW f \in [D -> Int], NEW S \in SUBSET D
  PROVE  /\ SumOver(f, S) \in Int
         /\ \A x \in S : SumOver(f, S) = f[x] + SumOver(f, S \ {x})
  <1> DEFINE Right(T) == /\ SumOver(f, T) \in Int
                         /\ \A x \in T : /\ SumOver(f, T \ {x}) \in Int
                                         /\ SumOver(f, T) = f[x] + SumOver(f, T \ {x})
             Bad == {T \in SUBSET D : ~Right(T)}
  <1>1. ASSUME NEW T \in SUBSET D, \A x \in T : Right(T \ {x}) PROVE Right(T)
    <2>1. CASE T = {}
      <3>1. SumOver(f, T) = 0  BY <2>1, SumOverEmpty
      <3> QED  BY <2>1, <3>1
    <2>2. CASE T # {}
      <3> DEFINE e == AnElement(T)
      <3>1. e \in T  BY <2>2 DEF AnElement
      <3>2. SumOver(f, T) = f[e] + SumOver(f, T \ {e})  BY <2>2, SumOverDef
      <3>3. f[e] \in Int /\ SumOver(f, T \ {e}) \in Int  BY <1>1, <3>1
      <3>4. ASSUME NEW x \in T, x # e
            PROVE  SumOver(f, T) = f[x] + SumOver(f, T \ {x})
        <4> DEFINE rest == (T \ {e}) \ {x}
        <4> HIDE DEF e
        <4>1. rest = (T \ {x}) \ {e}  OBVIOUS
        <4>2. x \in T \ {e} /\ e \in T \ {x}  BY <3>1, <3>4
        <4>3. SumOver(f, T \ {e}) = f[x] + SumOver(f, rest)  BY <1>1, <3>1, <4>2
        <4>4. SumOver(f, T \ {x}) = f[e] + SumOver(f, rest)  BY <1>1, <4>1, <4>2
        <4>5. SumOver(f, rest) \in Int  BY <1>1, <3>1, <4>2
        <4>6. f[x] \in Int  OBVIOUS
        <4> QED  BY <3>2, <3>3, <4>3, <4>4, <4>5, <4>6
      <3>5. \A x \in T : SumOver(f, T \ {x}) \in Int  BY <1>1
      <3>6. SumOver(f, T) \in Int  BY <3>2, <3>3
      <3> QED  BY <3>2, <3>4, <3>5, <3>6
    <2> QED  BY <2>1, <2>2
  <1>2. Bad = {}
    <2>1. ASSUME Bad # {} PROVE FALSE
      <3>1. PICK T \in Bad : \A x \in T : T \ {x} \notin Bad
        <4> Bad \in SUBSET SUBSET D  OBVIOUS
        <4> HIDE DEF Bad
        <4> QED  BY <2>1, SmallestSubset
      <3>2. T \in SUBSET D /\ ~Right(T)  OBVIOUS
      <3>3. \A x \in T : Right(T \ {x})
        <4> HIDE DEF Right
        <4> QED  BY <3>1, <3>2
      <3> QED  BY <1>1, <3>2, <3>3
    <2> QED  BY <2>1
  <1> QED  BY <1>2

(* A sum does not depend on what the function is elsewhere.                *)
LEMMA SumOverAgreesOn ==
  ASSUME NEW C, IsFiniteSet(C), NEW D, IsFiniteSet(D), NEW f \in [C -> Int],
         NEW g \in [D -> Int], NEW S \in SUBSET (C \cap D), \A x \in S : f[x] = g[x]
  PROVE  SumOver(f, S) = SumOver(g, S)
  <1> DEFINE Bad == {T \in SUBSET S : SumOver(f, T) # SumOver(g, T)}
  <1>1. SUFFICES ASSUME Bad # {} PROVE FALSE  OBVIOUS
  <1>2. PICK T \in Bad : \A x \in T : T \ {x} \notin Bad
    <2>1. Bad \in SUBSET SUBSET S /\ IsFiniteSet(S)  BY FS_Subset
    <2> HIDE DEF Bad
    <2> QED  BY <1>1, <2>1, SmallestSubset
  <1>3. T # {}
    BY SumOverEmpty
  <1>4. PICK x : x \in T  BY <1>3
  <1>5. SumOver(f, T \ {x}) = SumOver(g, T \ {x})  BY <1>2, <1>4
  <1>6. SumOver(f, T) = f[x] + SumOver(f, T \ {x})  BY <1>4, SumOverTakes
  <1>7. SumOver(g, T) = g[x] + SumOver(g, T \ {x})  BY <1>4, SumOverTakes
  <1> QED  BY <1>4, <1>5, <1>6, <1>7

LEMMA SumOverAgrees ==
  ASSUME NEW D, IsFiniteSet(D), NEW f \in [D -> Int], NEW g \in [D -> Int],
         NEW S \in SUBSET D, \A x \in S : f[x] = g[x]
  PROVE  SumOver(f, S) = SumOver(g, S)
  BY SumOverAgreesOn

(* A change of one value changes the sum by as much.                       *)
LEMMA SumOverUpdate ==
  ASSUME NEW D, IsFiniteSet(D), NEW f \in [D -> Int], NEW g \in [D -> Int], NEW x \in D,
         \A y \in D \ {x} : g[y] = f[y]
  PROVE  SumOver(g, D) = SumOver(f, D) - f[x] + g[x]
  <1>1. SumOver(g, D \ {x}) = SumOver(f, D \ {x})  BY SumOverAgrees
  <1>2. SumOver(g, D) = g[x] + SumOver(g, D \ {x})  BY SumOverTakes
  <1>3. SumOver(f, D) = f[x] + SumOver(f, D \ {x})  BY SumOverTakes
  <1>4. SumOver(f, D \ {x}) \in Int /\ f[x] \in Int /\ g[x] \in Int  BY SumOverTakes
  <1> QED  BY <1>1, <1>2, <1>3, <1>4

(* When some values change from zero to v, the sum changes by as many v's. *)
LEMMA SumOverSetMany ==
  ASSUME NEW D, IsFiniteSet(D), NEW f \in [D -> Int], NEW g \in [D -> Int],
         NEW P \in SUBSET D, NEW v \in Int,
         \A x \in P : f[x] = 0 /\ g[x] = v,
         \A x \in D \ P : g[x] = f[x]
  PROVE  SumOver(g, D) = SumOver(f, D) + Cardinality(P) * v
  <1> DEFINE Off(T) == SumOver(g, T) # SumOver(f, T) + Cardinality(P \cap T) * v
             Bad == {T \in SUBSET D : Off(T)}
  <1>1. SUFFICES ASSUME Bad # {} PROVE FALSE
    <2>1. P \cap D = P  OBVIOUS
    <2>2. D \notin Bad  BY <1>1
    <2>3. ~Off(D)  BY <2>2
    <2> QED  BY <2>1, <2>3
  <1>2. PICK T \in Bad : \A x \in T : T \ {x} \notin Bad
    <2>1. Bad \in SUBSET SUBSET D  OBVIOUS
    <2> HIDE DEF Bad
    <2> QED  BY <1>1, <2>1, SmallestSubset
  <1>3. T # {}
    <2>1. SumOver(g, {}) = 0 /\ SumOver(f, {}) = 0  BY SumOverEmpty
    <2>2. P \cap {} = {} /\ Cardinality({}) = 0  BY FS_EmptySet
    <2>3. 0 + 0 * v = 0  OBVIOUS
    <2>4. T = {} => ~Off(T)  BY <2>1, <2>2, <2>3
    <2> QED  BY <2>4
  <1>4. PICK x : x \in T  BY <1>3
  <1> DEFINE rest == T \ {x}
             n == Cardinality(P \cap rest)
  <1>5. SumOver(g, rest) = SumOver(f, rest) + n * v  BY <1>2, <1>4
  <1>6. /\ SumOver(f, T) = f[x] + SumOver(f, rest) /\ SumOver(f, rest) \in Int
        /\ SumOver(g, T) = g[x] + SumOver(g, rest) /\ SumOver(g, rest) \in Int
        /\ f[x] \in Int /\ g[x] \in Int
    BY <1>4, SumOverTakes
  <1>7. IsFiniteSet(P \cap T) /\ IsFiniteSet(P \cap rest) /\ n \in Nat
    BY FS_Subset, FS_CardinalityType
  <1>8. CASE x \in P
    <2>1. P \cap rest = (P \cap T) \ {x} /\ x \in P \cap T  BY <1>4, <1>8
    <2>2. Cardinality(P \cap T) = n + 1
      <3>1. Cardinality(P \cap T) \in Nat  BY <1>7, FS_CardinalityType
      <3>2. n = Cardinality(P \cap T) - 1
        <4> DEFINE both == P \cap T
        <4>1. IsFiniteSet(both) /\ x \in both  BY <1>7, <2>1
        <4>2. Cardinality(both \ {x}) = Cardinality(both) - 1
          <5> HIDE DEF both
          <5> QED  BY <4>1, FS_RemoveElement
        <4> QED  BY <2>1, <4>2
      <3> HIDE DEF n
      <3> QED  BY <3>1, <3>2
    <2>3. f[x] = 0 /\ g[x] = v  BY <1>8
    <2>4. (n + 1) * v = n * v + v /\ n * v \in Int  BY <1>7
    <2> HIDE DEF n, rest
    <2>5. SumOver(g, T) = SumOver(f, T) + (n + 1) * v  BY <1>5, <1>6, <2>3, <2>4
    <2> QED  BY <2>2, <2>5
  <1>9. CASE x \notin P
    <2>1. P \cap rest = P \cap T  BY <1>9
    <2>2. f[x] = g[x]  BY <1>4, <1>9
    <2>3. n * v \in Int  BY <1>7
    <2>4. SumOver(g, T) = SumOver(f, T) + n * v
      <3> HIDE DEF n, rest
      <3> QED  BY <1>5, <1>6, <2>2, <2>3
    <2> QED  BY <2>1, <2>4
  <1> QED  BY <1>8, <1>9

(* A sum of naturals is one, and at least each of its terms.               *)
LEMMA SumOverNat ==
  ASSUME NEW D, IsFiniteSet(D), NEW f \in [D -> Nat]
  PROVE  SumOver(f, D) \in Nat /\ \A x \in D : f[x] <= SumOver(f, D)
  <1> DEFINE Bad == {T \in SUBSET D : SumOver(f, T) \notin Nat}
  <1>1. ASSUME Bad # {} PROVE FALSE
    <2>1. PICK T \in Bad : \A x \in T : T \ {x} \notin Bad
      <3>1. Bad \in SUBSET SUBSET D  OBVIOUS
      <3> HIDE DEF Bad
      <3> QED  BY <1>1, <3>1, SmallestSubset
    <2>2. T # {}  BY SumOverEmpty
    <2>3. PICK x : x \in T  BY <2>2
    <2>4. SumOver(f, T) = f[x] + SumOver(f, T \ {x})  BY <2>3, SumOverTakes
    <2>5. SumOver(f, T \ {x}) \in Nat  BY <2>1, <2>3
    <2> QED  BY <2>3, <2>4, <2>5
  <1>2. \A T \in SUBSET D : SumOver(f, T) \in Nat  BY <1>1
  <1>3. ASSUME NEW x \in D PROVE f[x] <= SumOver(f, D)
    <2>1. SumOver(f, D) = f[x] + SumOver(f, D \ {x})  BY SumOverTakes
    <2>2. SumOver(f, D \ {x}) \in Nat  BY <1>2
    <2> QED  BY <2>1, <2>2
  <1> QED  BY <1>2, <1>3

LEMMA SumOverZero ==
  ASSUME NEW D, IsFiniteSet(D), NEW f \in [D -> Int], \A x \in D : f[x] = 0
  PROVE  SumOver(f, D) = 0
  <1> DEFINE Bad == {T \in SUBSET D : SumOver(f, T) # 0}
  <1>1. ASSUME Bad # {} PROVE FALSE
    <2>1. PICK T \in Bad : \A x \in T : T \ {x} \notin Bad
      <3>1. Bad \in SUBSET SUBSET D  OBVIOUS
      <3> HIDE DEF Bad
      <3> QED  BY <1>1, <3>1, SmallestSubset
    <2>2. T # {}  BY SumOverEmpty
    <2>3. PICK x : x \in T  BY <2>2
    <2>4. SumOver(f, T) = f[x] + SumOver(f, T \ {x})  BY <2>3, SumOverTakes
    <2>5. SumOver(f, T \ {x}) = 0 /\ f[x] = 0  BY <2>1, <2>3
    <2> QED  BY <2>4, <2>5
  <1> QED  BY <1>1
=============================================================================
