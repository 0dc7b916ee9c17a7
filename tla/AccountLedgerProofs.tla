------------------------ MODULE AccountLedgerProofs ------------------------
(***************************************************************************)
(* Theorems about AccountLedger, for any accounts, targets, seed and       *)
(* bounds.  The first part is about the two operators the model is built   *)
(* from: applying events in turn, and reading the store in order of time.  *)
(***************************************************************************)
EXTENDS AccountLedger, SumProofs, SequenceTheorems

Outcome == [ok : BOOLEAN, totals : [Accounts -> Int]]

(* The outcomes of the fold, as the community modules define it, and the   *)
(* outcome of the first k events.                                          *)
Start(totals) == [ok |-> TRUE, totals |-> totals]

NextOutcome(stops, totals, events, iter, S) ==
  IF S = {} THEN Start(totals)
  ELSE ApplyOne(stops, iter[S \ {Max(S)}], events[Max(S)])

Outcomes(stops, totals, events) ==
  CHOOSE iter : iter = [S \in SUBSET DOMAIN events |->
                          NextOutcome(stops, totals, events, iter, S)]

After(stops, totals, events, k) == Outcomes(stops, totals, events)[1..k]

OneMore(stops, totals, events, k) ==
  ApplyOne(stops, After(stops, totals, events, k - 1), events[k])

-----------------------------------------------------------------------------
LEMMA MaxOfInterval == \A k \in Nat \ {0} : Max(1..k) = k
  BY DEF Max

LEMMA MaxIsMember ==
  ASSUME NEW n \in Nat, NEW S \in SUBSET (1..n), S # {}
  PROVE  Max(S) \in S
  <1> DEFINE P(k) == \A T \in SUBSET (1..n) :
                       T # {} /\ T \subseteq 1..k => \E x \in T : \A y \in T : x >= y
             Good == {k \in Nat : P(k)}
  <1>1. 0 \in Good
    <2>1. 1..0 = {}  OBVIOUS
    <2> QED  BY <2>1
  <1>2. ASSUME NEW k \in Good PROVE k + 1 \in Good
    <2>1. ASSUME NEW T \in SUBSET (1..n), T # {}, T \subseteq 1..(k + 1)
          PROVE  \E x \in T : \A y \in T : x >= y
      <3>1. CASE k + 1 \in T
        <4>1. \A y \in T : k + 1 >= y  BY <2>1
        <4> QED  BY <3>1, <4>1
      <3>2. CASE k + 1 \notin T
        <4>1. T \subseteq 1..k  BY <2>1, <3>2
        <4> QED  BY <1>2, <2>1, <4>1
      <3> QED  BY <3>1, <3>2
    <2> QED  BY <2>1
  <1>3. P(n)
    <2> HIDE DEF P
    <2>1. Good = Nat  BY <1>1, <1>2, EveryNumber
    <2> QED  BY <2>1
  <1>4. \E x \in S : \A y \in S : x >= y  BY <1>3
  <1> QED  BY <1>4 DEF Max

(* The recursive equation of the fold has a solution.                      *)
LEMMA OutcomesDef ==
  ASSUME NEW stops, NEW totals, NEW events, NEW n \in Nat, DOMAIN events = 1..n
  PROVE  \A S \in SUBSET (1..n) :
           Outcomes(stops, totals, events)[S] =
             NextOutcome(stops, totals, events, Outcomes(stops, totals, events), S)
  <1> DEFINE D == 1..n
             Step(g, S) == NextOutcome(stops, totals, events, g, S)
             Upto(k) == {S \in SUBSET D : Cardinality(S) <= k}
             Solves(k) == \E g : \A S \in Upto(k) : g[S] = Step(g, S)
             Good == {k \in Nat : Solves(k)}
  <1>0. IsFiniteSet(D)  BY FS_Interval
  <1>1. ASSUME NEW k \in Nat, Solves(k) PROVE Solves(k + 1)
    <2>1. PICK g : \A S \in Upto(k) : g[S] = Step(g, S)  BY <1>1
    <2> DEFINE h == [S \in SUBSET D |-> Step(g, S)]
    <2>2. ASSUME NEW S \in Upto(k + 1) PROVE h[S] = Step(h, S)
      <3>1. CASE S = {}  BY <3>1 DEF NextOutcome
      <3>2. CASE S # {}
        <4> DEFINE x == Max(S)
        <4>1. x \in S  BY <3>2, MaxIsMember
        <4>2. S \ {x} \in Upto(k)
          <5> HIDE DEF D, x
          <5>1. S \in SUBSET D /\ Cardinality(S) <= k + 1  OBVIOUS
          <5>2. IsFiniteSet(S) /\ Cardinality(S) \in Nat
            BY <1>0, <5>1, FS_Subset, FS_CardinalityType
          <5>3. Cardinality(S \ {x}) = Cardinality(S) - 1
            BY <4>1, <5>2, FS_RemoveElement
          <5> QED  BY <5>1, <5>2, <5>3
        <4>3. h[S \ {x}] = g[S \ {x}]  BY <2>1, <4>2
        <4> QED  BY <3>2, <4>3 DEF NextOutcome
      <3> QED  BY <3>1, <3>2
    <2> QED  BY <2>2
  <1>2. Solves(0)
    <2>1. \A S \in Upto(0) : S = {}
      <3> HIDE DEF D
      <3> QED  BY <1>0, FS_Subset, FS_CardinalityType, FS_EmptySet
    <2> DEFINE g == [S \in SUBSET D |-> Start(totals)]
    <2>2. \A S \in Upto(0) : g[S] = Step(g, S)  BY <2>1 DEF NextOutcome
    <2> QED  BY <2>2
  <1>3. Solves(Cardinality(D))
    <2> HIDE DEF Solves
    <2>1. Good \in SUBSET Nat /\ 0 \in Good  BY <1>2
    <2>2. \A k \in Good : k + 1 \in Good  BY <1>1
    <2> HIDE DEF Good
    <2>3. Good = Nat  BY <2>1, <2>2, EveryNumber
    <2> USE DEF Good
    <2> QED  BY <1>0, <2>3, FS_CardinalityType
  <1>4. Upto(Cardinality(D)) = SUBSET D  BY <1>0, FS_Subset
  <1>5. PICK g : \A S \in SUBSET D : g[S] = Step(g, S)
    BY <1>3, <1>4
  <1> DEFINE h == [S \in SUBSET D |-> g[S]]
  <1>6. ASSUME NEW S \in SUBSET D PROVE Step(h, S) = h[S]
    <2>1. S # {} => S \ {Max(S)} \in SUBSET D  OBVIOUS
    <2> QED  BY <1>5, <2>1 DEF NextOutcome
  <1>7. h = [S \in SUBSET D |-> Step(h, S)]  BY <1>6
  <1>8. DOMAIN events = D  OBVIOUS
  <1> HIDE DEF h, D
  <1>9. Outcomes(stops, totals, events) = [S \in SUBSET D |->
          Step(Outcomes(stops, totals, events), S)]
    BY <1>7, <1>8 DEF Outcomes
  <1> QED  BY <1>9 DEF D

(* The fold is the outcome of all events, each applied to what the ones    *)
(* before it have left.                                                    *)
LEMMA ApplyIsAfter ==
  ASSUME NEW stops, NEW totals, NEW S, NEW events \in Seq(S)
  PROVE  /\ Apply(stops, totals, events) = After(stops, totals, events, Len(events))
         /\ After(stops, totals, events, 0) = Start(totals)
         /\ \A k \in 1..Len(events) :
              After(stops, totals, events, k) = OneMore(stops, totals, events, k)
  <1>0. DOMAIN events = 1..Len(events) /\ Len(events) \in Nat
    OBVIOUS
  <1>1. Apply(stops, totals, events) = After(stops, totals, events, Len(events))
    BY <1>0 DEF Apply, FoldLeft, MapThenFoldSet, After, Outcomes, NextOutcome, Start
  <1> DEFINE iter == Outcomes(stops, totals, events)
  <1>2. \A T \in SUBSET (1..Len(events)) :
          iter[T] = NextOutcome(stops, totals, events, iter, T)
    BY <1>0, OutcomesDef
  <1> HIDE DEF iter
  <1>3. iter[1..0] = Start(totals)
    <2>1. 1..0 = {}  OBVIOUS
    <2> QED  BY <1>2, <2>1 DEF NextOutcome
  <1>4. ASSUME NEW k \in 1..Len(events)
        PROVE  iter[1..k] = ApplyOne(stops, iter[1..(k - 1)], events[k])
    <2>1. 1..k # {} /\ 1..k \in SUBSET (1..Len(events)) /\ Max(1..k) = k
      <3>1. k \in Nat \ {0} /\ k \in 1..k  OBVIOUS
      <3>2. Max(1..k) = k  BY <3>1, MaxOfInterval
      <3>3. 1..k \subseteq 1..Len(events)  OBVIOUS
      <3>4. 1..k # {}  BY <3>1
      <3> QED  BY <3>2, <3>3, <3>4
    <2>2. (1..k) \ {k} = 1..(k - 1)  OBVIOUS
    <2> QED  BY <1>2, <2>1, <2>2 DEF NextOutcome
  <1> QED  BY <1>1, <1>3, <1>4 DEF After, iter, OneMore

-----------------------------------------------------------------------------
(* Events are rows of the store or on their way to it.                     *)
Row == [account : Accounts, delta : Int, newTotal : Int \cup {None}, ts : Nat]

LEMMA ApplyOneType ==
  ASSUME NEW stops \in BOOLEAN, NEW r \in Outcome, NEW e \in Row
  PROVE  /\ ApplyOne(stops, r, e) \in Outcome
         /\ r.ok /\ e.newTotal = None => ApplyOne(stops, r, e).ok
         /\ stops /\ ~r.ok => ~ApplyOne(stops, r, e).ok
  <1>1. r.ok \in BOOLEAN /\ r.totals \in [Accounts -> Int]  BY DEF Outcome
  <1>2. e.account \in Accounts /\ e.delta \in Int  BY DEF Row
  <1>3. Reduce(r.totals, e) \in [Accounts -> Int]  BY <1>1, <1>2 DEF Reduce
  <1> QED  BY <1>1, <1>3 DEF ApplyOne, Outcome, Mismatch

(* Whatever is applied, the totals stay whole numbers; events that claim no*)
(* total never throw.                                                      *)
LEMMA AfterType ==
  ASSUME NEW stops \in BOOLEAN, NEW totals \in [Accounts -> Int], NEW events \in Seq(Row)
  PROVE  \A k \in 0..Len(events) :
           /\ After(stops, totals, events, k) \in Outcome
           /\ (\A i \in 1..Len(events) : events[i].newTotal = None) =>
                After(stops, totals, events, k).ok
  <1> DEFINE A(k) == After(stops, totals, events, k)
             Plain == \A i \in 1..Len(events) : events[i].newTotal = None
             Good == {k \in Nat : k <= Len(events) => A(k) \in Outcome /\ (Plain => A(k).ok)}
  <1>1. Len(events) \in Nat /\ DOMAIN events = 1..Len(events)  OBVIOUS
  <1>0. /\ A(0) = Start(totals)
        /\ \A k \in 1..Len(events) : A(k) = OneMore(stops, totals, events, k)
    BY ApplyIsAfter
  <1> HIDE DEF A, Plain
  <1>2. 0 \in Good
    <2>1. Start(totals) \in Outcome /\ Start(totals).ok  BY DEF Start, Outcome
    <2> QED  BY <1>0, <2>1
  <1>3. ASSUME NEW k \in Good, k + 1 <= Len(events)
        PROVE  A(k + 1) \in Outcome /\ (Plain => A(k + 1).ok)
    <2>1. k + 1 \in 1..Len(events) /\ (k + 1) - 1 = k  BY <1>1, <1>3
    <2>2. A(k + 1) = ApplyOne(stops, A(k), events[k + 1])
      BY <1>0, <2>1 DEF OneMore, A
    <2>3. A(k) \in Outcome /\ (Plain => A(k).ok)  BY <1>1, <1>3
    <2>4. events[k + 1] \in Row  BY <2>1
    <2>5. Plain => events[k + 1].newTotal = None  BY <2>1 DEF Plain
    <2> QED  BY <2>2, <2>3, <2>4, <2>5, ApplyOneType
  <1>4. Good = Nat
    <2>1. Good \in SUBSET Nat  OBVIOUS
    <2>2. \A k \in Good : k + 1 \in Good  BY <1>3
    <2> HIDE DEF Good
    <2> QED  BY <1>2, <2>1, <2>2, EveryNumber
  <1>5. \A k \in 0..Len(events) : A(k) \in Outcome /\ (Plain => A(k).ok)
    BY <1>1, <1>4
  <1> QED  BY <1>5 DEF A, Plain

LEMMA ApplyType ==
  ASSUME NEW stops \in BOOLEAN, NEW totals \in [Accounts -> Int], NEW events \in Seq(Row)
  PROVE  /\ Apply(stops, totals, events) \in Outcome
         /\ (\A i \in 1..Len(events) : events[i].newTotal = None) =>
              Apply(stops, totals, events).ok
  <1> DEFINE n == Len(events)
             Plain == \A i \in 1..Len(events) : events[i].newTotal = None
  <1>1. n \in 0..n  OBVIOUS
  <1>2. \A k \in 0..n : /\ After(stops, totals, events, k) \in Outcome
                        /\ Plain => After(stops, totals, events, k).ok
    BY AfterType
  <1>3. Apply(stops, totals, events) = After(stops, totals, events, n)
    BY ApplyIsAfter
  <1> HIDE DEF n, Plain
  <1>4. Apply(stops, totals, events) \in Outcome /\ (Plain => Apply(stops, totals, events).ok)
    BY <1>1, <1>2, <1>3
  <1> QED  BY <1>4 DEF Plain

(* Sequences that begin alike come to the same as far as they are alike.   *)
LEMMA AfterPrefix ==
  ASSUME NEW stops, NEW totals, NEW x \in Seq(Row), NEW y \in Seq(Row), NEW n \in Nat,
         n <= Len(x), n <= Len(y), \A i \in 1..n : x[i] = y[i]
  PROVE  \A k \in 0..n : After(stops, totals, x, k) = After(stops, totals, y, k)
  <1> DEFINE X(k) == After(stops, totals, x, k)
             Y(k) == After(stops, totals, y, k)
             Good == {k \in Nat : k <= n => X(k) = Y(k)}
  <1>1. /\ X(0) = Start(totals) /\ Y(0) = Start(totals)
        /\ \A k \in 1..Len(x) : X(k) = OneMore(stops, totals, x, k)
        /\ \A k \in 1..Len(y) : Y(k) = OneMore(stops, totals, y, k)
    BY ApplyIsAfter
  <1>2. /\ Len(x) \in Nat /\ Len(y) \in Nat
        /\ \A k \in 1..n : X(k) = ApplyOne(stops, X(k - 1), x[k])
        /\ \A k \in 1..n : Y(k) = ApplyOne(stops, Y(k - 1), x[k])
    BY <1>1 DEF OneMore
  <1> HIDE DEF X, Y
  <1>3. Good \in SUBSET Nat /\ 0 \in Good  BY <1>1
  <1>4. ASSUME NEW k \in Good, k + 1 <= n PROVE X(k + 1) = Y(k + 1)
    <2>1. k + 1 \in 1..n /\ (k + 1) - 1 = k /\ X(k) = Y(k)  BY <1>4
    <2> QED  BY <1>2, <2>1
  <1>5. \A k \in Good : k + 1 \in Good  BY <1>4
  <1> HIDE DEF Good
  <1>6. Good = Nat  BY <1>3, <1>5, EveryNumber
  <1> QED  BY <1>6 DEF Good, X, Y

(* Replay of a sequence and then of another is replay of both in one; and  *)
(* when both in one replay, the first does.                                *)
LEMMA ReplayJoins ==
  ASSUME NEW totals \in [Accounts -> Int], NEW a \in Seq(Row), NEW b \in Seq(Row),
         ReplayFrom(totals, a \o b).ok
  PROVE  ReplayFrom(ReplayFrom(totals, a).totals, b) = ReplayFrom(totals, a \o b)
  <1> DEFINE m == Len(a)
             n == Len(b)
             all == a \o b
             A(k) == After(TRUE, totals, all, k)
             P(k) == After(TRUE, totals, a, k)
             Q(k) == After(TRUE, P(m).totals, b, k)
  <1>1. /\ m \in Nat /\ n \in Nat /\ all \in Seq(Row) /\ Len(all) = m + n
        /\ DOMAIN a = 1..m /\ DOMAIN b = 1..n /\ DOMAIN all = 1..(m + n)
        /\ \A i \in 1..m : all[i] = a[i]
        /\ \A i \in 1..n : all[m + i] = b[i]
    BY ConcatProperties
  <1>2. /\ ReplayFrom(totals, all) = After(TRUE, totals, all, Len(all))
        /\ ReplayFrom(totals, a) = P(m)
        /\ ReplayFrom(P(m).totals, b) = Q(n)
    <2> HIDE DEF all
    <2>1. ReplayFrom(totals, all) = After(TRUE, totals, all, Len(all))
      BY <1>1, ApplyIsAfter DEF ReplayFrom
    <2>2. ReplayFrom(totals, a) = P(m)
      BY ApplyIsAfter DEF ReplayFrom
    <2>3. ReplayFrom(P(m).totals, b) = Q(n)
      BY ApplyIsAfter DEF ReplayFrom
    <2> QED  BY <2>1, <2>2, <2>3
  <1>3. /\ A(0) = Start(totals) /\ P(0) = Start(totals) /\ Q(0) = Start(P(m).totals)
        /\ \A k \in 1..(m + n) : A(k) = ApplyOne(TRUE, A(k - 1), all[k])
        /\ \A k \in 1..m : P(k) = ApplyOne(TRUE, P(k - 1), a[k])
        /\ \A k \in 1..n : Q(k) = ApplyOne(TRUE, Q(k - 1), b[k])
    <2> HIDE DEF all
    <2>0. all \in Seq(Row)  BY <1>1
    <2>1. /\ A(0) = Start(totals)
          /\ \A k \in 1..Len(all) : A(k) = OneMore(TRUE, totals, all, k)
      BY <2>0, ApplyIsAfter
    <2>2. /\ P(0) = Start(totals)
          /\ \A k \in 1..m : P(k) = OneMore(TRUE, totals, a, k)
      BY ApplyIsAfter
    <2>3. /\ Q(0) = Start(P(m).totals)
          /\ \A k \in 1..n : Q(k) = OneMore(TRUE, P(m).totals, b, k)
      BY ApplyIsAfter
    <2> QED  BY <1>1, <2>1, <2>2, <2>3 DEF OneMore
  <1>4. \A k \in 0..(m + n) : A(k) \in Outcome
    BY <1>1, AfterType
  <1> HIDE DEF m, n, all, A, P, Q
  <1>5. \A k \in 0..m : A(k) = P(k)
    <2>1. m \in Nat /\ m <= Len(all) /\ m <= Len(a) /\ all \in Seq(Row)
      BY <1>1 DEF m
    <2>2. \A i \in 1..m : all[i] = a[i]  BY <1>1
    <2> DEFINE t == TRUE
    <2> HIDE DEF t
    <2>3. \A k \in 0..m : After(t, totals, all, k) = After(t, totals, a, k)
      BY <2>1, <2>2, AfterPrefix
    <2> QED  BY <2>3 DEF A, P, t
  (* A replay that is right in the end was right all along.                *)
  <1>6. \A k \in 0..(m + n) : A(k).ok
    <2> DEFINE Good == {k \in Nat : k <= m + n => A((m + n) - k).ok}
    <2>1. Good \in SUBSET Nat /\ 0 \in Good
      <3>1. A(m + n).ok  BY <1>1, <1>2 DEF all, A
      <3>2. (m + n) - 0 = m + n  BY <1>1
      <3> QED  BY <3>1, <3>2
    <2>2. ASSUME NEW k \in Good, k + 1 <= m + n PROVE A((m + n) - (k + 1)).ok
      <3> DEFINE j == (m + n) - k
      <3>1. /\ j \in 1..(m + n) /\ (m + n) - (k + 1) = j - 1 /\ j - 1 \in 0..(m + n)
        BY <1>1, <2>2
      <3>2. A(j).ok  BY <1>1, <2>2
      <3> HIDE DEF j
      <3>3. A(j) = ApplyOne(TRUE, A(j - 1), all[j])  BY <1>3, <3>1
      <3>4. all[j] \in Row  BY <1>1, <3>1
      <3>5. A(j - 1).ok  BY <1>4, <3>1, <3>2, <3>3, <3>4, ApplyOneType
      <3> QED  BY <3>1, <3>5
    <2>3. \A k \in Good : k + 1 \in Good  BY <2>2
    <2> HIDE DEF Good
    <2>4. Good = Nat  BY <2>1, <2>3, EveryNumber
    <2>5. ASSUME NEW k \in 0..(m + n) PROVE A(k).ok
      <3>1. (m + n) - k \in Good /\ (m + n) - ((m + n) - k) = k /\ (m + n) - k <= m + n
        BY <1>1, <2>4
      <3> QED  BY <3>1 DEF Good
    <2> QED  BY <2>5
  <1>7. \A k \in 0..n : A(m + k) = Q(k)
    <2> DEFINE Good == {k \in Nat : k <= n => A(m + k) = Q(k)}
    <2>1. Good \in SUBSET Nat /\ 0 \in Good
      <3>1. A(m) \in Outcome /\ A(m).ok /\ A(m) = P(m)  BY <1>1, <1>4, <1>5, <1>6
      <3>2. A(m) = Start(P(m).totals)  BY <3>1 DEF Outcome, Start
      <3>3. m + 0 = m  BY <1>1
      <3> QED  BY <1>3, <3>2, <3>3
    <2>2. ASSUME NEW k \in Good, k + 1 <= n PROVE A(m + (k + 1)) = Q(k + 1)
      <3>1. /\ k + 1 \in 1..n /\ m + (k + 1) \in 1..(m + n) /\ (k + 1) - 1 = k
            /\ (m + (k + 1)) - 1 = m + k /\ A(m + k) = Q(k)
        <4>1. k \in Nat /\ k + 1 \in Nat /\ k <= n  BY <1>1, <2>2
        <4> QED  BY <1>1, <2>2, <4>1
      <3>2. all[m + (k + 1)] = b[k + 1]  BY <1>1, <3>1
      <3>3. A(m + (k + 1)) = ApplyOne(TRUE, A(m + k), b[k + 1])  BY <1>3, <3>1, <3>2
      <3>4. Q(k + 1) = ApplyOne(TRUE, Q(k), b[k + 1])  BY <1>3, <3>1
      <3> QED  BY <3>1, <3>3, <3>4
    <2>3. \A k \in Good : k + 1 \in Good  BY <2>2
    <2> HIDE DEF Good
    <2>4. Good = Nat  BY <2>1, <2>3, EveryNumber
    <2> USE DEF Good
    <2> QED  BY <1>1, <2>4
  <1>8. ReplayFrom(totals, all) = A(m + n)  BY <1>1, <1>2 DEF A
  <1>9. A(m + n) = Q(n)  BY <1>1, <1>7
  <1> QED  BY <1>2, <1>8, <1>9 DEF all

-----------------------------------------------------------------------------
(* Finite ordered sets: the elements are numbered by how many others come  *)
(* before them.  Rows are read, and targets taken, by such numbers.        *)
LEMMA FirstNumbers ==
  ASSUME NEW k \in Nat
  PROVE  IsFiniteSet(1..k) /\ Cardinality(1..k) = k
  <1>1. 1 \in Int /\ k \in Int  OBVIOUS
  <1>2. IsFiniteSet(1..k) /\ Cardinality(1..k) = IF 1 > k THEN 0 ELSE k - 1 + 1
    BY <1>1, FS_Interval
  <1> QED  BY <1>2

Preds(S, before, x) == {y \in S : <<y, x>> \in before}

IsOrderOn(before, S) ==
  \A x, y, z \in S :
    /\ <<x, x>> \notin before
    /\ x # y => <<x, y>> \in before \/ <<y, x>> \in before
    /\ <<x, y>> \in before /\ <<y, z>> \in before => <<x, z>> \in before

(* Elements of an ordered finite set are numbered by how many come before. *)
LEMMA OrderNumbers ==
  ASSUME NEW S, IsFiniteSet(S), NEW before, IsOrderOn(before, S)
  PROVE  /\ Cardinality(S) \in Nat
         /\ \A x \in S : /\ Cardinality(Preds(S, before, x)) \in Nat
                         /\ Cardinality(Preds(S, before, x)) < Cardinality(S)
         /\ \A x, y \in S : <<x, y>> \in before =>
              Cardinality(Preds(S, before, x)) < Cardinality(Preds(S, before, y))
         /\ \A x, y \in S :
              Cardinality(Preds(S, before, x)) = Cardinality(Preds(S, before, y)) => x = y
         /\ \A k \in 1..Cardinality(S) :
              \E x \in S : Cardinality(Preds(S, before, x)) = k - 1
  <1> DEFINE n == Cardinality(S)
             Count(x) == Cardinality(Preds(S, before, x))
             place == [x \in S |-> Count(x) + 1]
  <1>1. n \in Nat  BY FS_CardinalityType
  <1>2. \A x \in S : /\ Preds(S, before, x) \in SUBSET S /\ x \notin Preds(S, before, x)
                     /\ IsFiniteSet(Preds(S, before, x)) /\ Count(x) \in Nat
    <2>1. \A x \in S : Preds(S, before, x) \in SUBSET S /\ x \notin Preds(S, before, x)
      BY DEF Preds, IsOrderOn
    <2> QED  BY <2>1, FS_Subset, FS_CardinalityType
  <1>3. ASSUME NEW x \in S PROVE Count(x) < n
    <2>1. Count(x) <= n /\ Count(x) # n
      BY <1>2, FS_Subset
    <2> HIDE DEF n, Count
    <2> QED  BY <1>1, <1>2, <2>1
  <1>4. ASSUME NEW x \in S, NEW y \in S, <<x, y>> \in before PROVE Count(x) < Count(y)
    <2>1. Preds(S, before, x) \in SUBSET Preds(S, before, y) /\ x \in Preds(S, before, y)
      BY <1>4 DEF Preds, IsOrderOn
    <2>2. Preds(S, before, x) # Preds(S, before, y)  BY <1>2, <2>1
    <2>3. Count(x) <= Count(y) /\ Count(x) # Count(y)
      BY <1>2, <2>1, <2>2, FS_Subset
    <2> HIDE DEF Count
    <2> QED  BY <1>2, <2>3
  <1>5. ASSUME NEW x \in S, NEW y \in S, Count(x) = Count(y) PROVE x = y
    <2> HIDE DEF Count
    <2>1. <<x, y>> \notin before /\ <<y, x>> \notin before
      BY <1>2, <1>4, <1>5
    <2> QED  BY <2>1 DEF IsOrderOn
  <1> HIDE DEF Count, n
  <1>6. place \in Injection(S, 1..n)
    <2>1. \A x \in S : Count(x) + 1 \in 1..n  BY <1>1, <1>2, <1>3
    <2>2. \A x, y \in S : Count(x) + 1 = Count(y) + 1 => x = y  BY <1>2, <1>5
    <2> QED  BY <2>1, <2>2 DEF Injection, IsInjective
  <1>7. IsFiniteSet(1..n) /\ Cardinality(1..n) = Cardinality(S)
    BY <1>1, FirstNumbers DEF n
  <1>8. place \in Surjection(S, 1..n)
    <2> HIDE DEF place
    <2> QED  BY <1>6, <1>7, FS_Injection
  <1>9. \A k \in 1..n : \E x \in S : place[x] = k
    BY <1>8 DEF Surjection
  <1>10. ASSUME NEW k \in 1..n PROVE \E x \in S : Count(x) = k - 1
    <2>1. PICK x \in S : place[x] = k  BY <1>9
    <2>2. Count(x) \in Nat /\ Count(x) + 1 = k  BY <1>2, <2>1
    <2>3. Count(x) = k - 1  BY <1>1, <2>2
    <2> QED  BY <2>3
  <1> QED  BY <1>1, <1>2, <1>3, <1>4, <1>5, <1>10 DEF Count, n

(* So every number below the count of the elements is some element's.     *)
LEMMA NumbersAreTaken ==
  ASSUME NEW S, IsFiniteSet(S), NEW before, IsOrderOn(before, S),
         NEW k \in 1..Cardinality(S)
  PROVE  \E x \in S : Cardinality(Preds(S, before, x)) = k - 1
  BY OrderNumbers

(* InOrder lists every element of an ordered set, and in its order.       *)
LEMMA InOrderProperties ==
  ASSUME NEW S, IsFiniteSet(S), NEW before, IsOrderOn(before, S)
  PROVE  /\ InOrder(S, before) \in Seq(S)
         /\ Len(InOrder(S, before)) \in Nat
         /\ \A x \in S : \E k \in 1..Len(InOrder(S, before)) : InOrder(S, before)[k] = x
         /\ \A k, m \in 1..Len(InOrder(S, before)) :
              <<InOrder(S, before)[k], InOrder(S, before)[m]>> \in before => k < m
  <1> DEFINE n == Cardinality(S)
             Count(x) == Cardinality(Preds(S, before, x))
             At(k) == CHOOSE x \in S : Count(x) = k - 1
             seq == InOrder(S, before)
  <1>1. /\ n \in Nat
        /\ \A x \in S : Count(x) \in Nat /\ Count(x) < n
        /\ \A x, y \in S : <<x, y>> \in before => Count(x) < Count(y)
        /\ \A x, y \in S : Count(x) = Count(y) => x = y
        /\ \A k \in 1..n : \E x \in S : Count(x) = k - 1
    BY OrderNumbers
  <1>2. seq = [k \in 1..n |-> At(k)]  BY DEF InOrder, Preds
  <1> HIDE DEF n, Count
  <1>3. \A k \in 1..n : At(k) \in S /\ Count(At(k)) = k - 1
    BY <1>1
  <1> HIDE DEF At, seq
  <1>4. seq \in Seq(S) /\ Len(seq) = n  BY <1>1, <1>2, <1>3
  <1>5. ASSUME NEW x \in S PROVE \E k \in 1..n : seq[k] = x
    <2>1. Count(x) + 1 \in 1..n  BY <1>1
    <2>2. Count(At(Count(x) + 1)) = Count(x)  BY <1>1, <1>3, <2>1
    <2>3. At(Count(x) + 1) = x  BY <1>1, <1>3, <2>1, <2>2
    <2> QED  BY <1>2, <2>1, <2>3
  <1>6. ASSUME NEW k \in 1..n, NEW m \in 1..n, <<seq[k], seq[m]>> \in before PROVE k < m
    <2>1. seq[k] = At(k) /\ seq[m] = At(m)  BY <1>2
    <2>2. Count(At(k)) < Count(At(m))  BY <1>1, <1>3, <1>6, <2>1
    <2>3. k - 1 < m - 1  BY <1>3, <2>2
    <2> QED  BY <2>3
  <1> QED  BY <1>1, <1>4, <1>5, <1>6 DEF seq

-----------------------------------------------------------------------------
(* Rows have whole-numbered places and times.                             *)
LEMMA RowFacts ==
  ASSUME NEW rows \in Seq(Row)
  PROVE  \A i \in 1..Len(rows) : /\ rows[i] \in Row
                                 /\ rows[i].ts \in Nat /\ i \in Nat
  <1>1. \A i \in 1..Len(rows) : rows[i] \in Row /\ i \in Nat  OBVIOUS
  <1>2. \A e \in Row : e.ts \in Nat  BY DEF Row
  <1> QED  BY <1>1, <1>2

(* The order in which the store is read is total.                          *)
LEMMA BeforeIsTotal ==
  ASSUME NEW rows \in Seq(Row)
  PROVE  \A i, j, k \in 1..Len(rows) :
           /\ ~Before(rows, i, i)
           /\ i # j => Before(rows, i, j) \/ Before(rows, j, i)
           /\ Before(rows, i, j) /\ Before(rows, j, k) => Before(rows, i, k)
  <1>1. \A i \in 1..Len(rows) : rows[i].ts \in Nat /\ i \in Nat  BY RowFacts
  <1> QED  BY <1>1 DEF Before

(* So the places number the young rows, and every place is taken.          *)
LEMMA PlaceNumbers ==
  ASSUME NEW rows \in Seq(Row), NEW young \in SUBSET (1..Len(rows))
  PROVE  /\ IsFiniteSet(young) /\ Cardinality(young) \in Nat
         /\ \A i \in young : Place(rows, young, i) \in 1..Cardinality(young)
         /\ \A i, j \in young : Place(rows, young, i) = Place(rows, young, j) => i = j
         /\ \A k \in 1..Cardinality(young) : \E i \in young : Place(rows, young, i) = k
  <1> DEFINE n == Cardinality(young)
             before == {p \in young \X young : Before(rows, p[1], p[2])}
             Count(i) == Cardinality(Preds(young, before, i))
  <1>1. Len(rows) \in Nat /\ IsFiniteSet(1..Len(rows))  BY FS_Interval
  <1>2. IsFiniteSet(young) /\ n \in Nat  BY <1>1, FS_Subset, FS_CardinalityType
  <1>3. \A i, j \in young : <<i, j>> \in before <=> Before(rows, i, j)  OBVIOUS
  <1>4. \A i \in young : Place(rows, young, i) = Count(i) + 1
    <2>1. \A i \in young : Preds(young, before, i) = {j \in young : Before(rows, j, i)}
      BY <1>3 DEF Preds
    <2> HIDE DEF before
    <2> QED  BY <2>1 DEF Place
  <1> HIDE DEF before
  <1>5. IsOrderOn(before, young)
    BY <1>3, BeforeIsTotal DEF IsOrderOn
  <1>6. /\ \A i \in young : Count(i) \in Nat /\ Count(i) < n
        /\ \A i, j \in young : Count(i) = Count(j) => i = j
        /\ \A k \in 1..n : \E i \in young : Count(i) = k - 1
    <2>1. IsFiniteSet(young)  BY <1>2
    <2>2. \A i \in young : Count(i) \in Nat /\ Count(i) < n  BY <1>5, <2>1, OrderNumbers
    <2>3. \A i, j \in young : Count(i) = Count(j) => i = j  BY <1>5, <2>1, OrderNumbers
    <2>4. ASSUME NEW k \in 1..n PROVE \E i \in young : Count(i) = k - 1
      BY <1>5, <2>1, NumbersAreTaken
    <2> QED  BY <2>2, <2>3, <2>4
  <1> HIDE DEF Count, n
  <1>7. \A i \in young : Place(rows, young, i) \in 1..n
    BY <1>2, <1>4, <1>6
  <1>8. \A i, j \in young : Place(rows, young, i) = Place(rows, young, j) => i = j
    BY <1>4, <1>6
  <1>9. \A k \in 1..n : \E i \in young : Place(rows, young, i) = k
    <2> TAKE k \in 1..n
    <2>1. PICK i \in young : Count(i) = k - 1  BY <1>6
    <2>2. Count(i) + 1 = k  BY <2>1
    <2> QED  BY <1>4, <2>2
  <1> QED  BY <1>2, <1>7, <1>8, <1>9 DEF n

(* What is read are the young rows, each at its place.                     *)
LEMMA ReadProperties ==
  ASSUME NEW rows \in Seq(Row), NEW after \in Int
  PROVE  /\ Read(rows, after) \in Seq(Row)
         /\ Len(Read(rows, after)) = Cardinality(Young(rows, after))
         /\ Cardinality(Young(rows, after)) \in Nat
         /\ \A k \in 1..Len(Read(rows, after)) :
              \E i \in Young(rows, after) : /\ Place(rows, Young(rows, after), i) = k
                                           /\ Read(rows, after)[k] = rows[i]
  <1> DEFINE young == Young(rows, after)
             n == Cardinality(young)
             At(k) == CHOOSE i \in young : Place(rows, young, i) = k
  <1>1. young \in SUBSET (1..Len(rows))  BY DEF Young
  <1> HIDE DEF young
  <1>2. n \in Nat /\ \A k \in 1..n : \E i \in young : Place(rows, young, i) = k
    BY <1>1, PlaceNumbers
  <1>3. \A k \in 1..n : At(k) \in young /\ Place(rows, young, At(k)) = k
    BY <1>2
  <1>4. Read(rows, after) = [k \in 1..n |-> rows[At(k)]]
    BY DEF Read, young
  <1> HIDE DEF At, n
  <1>5. \A k \in 1..n : rows[At(k)] \in Row
    BY <1>1, <1>3, RowFacts
  <1>6. Read(rows, after) \in Seq(Row) /\ Len(Read(rows, after)) = n
    BY <1>2, <1>4, <1>5
  <1>7. \A k \in 1..n : Read(rows, after)[k] = rows[At(k)]
    BY <1>4
  <1> QED  BY <1>2, <1>3, <1>6, <1>7 DEF young, n

(* A store whose first m rows are no younger than t and whose other rows   *)
(* are is read as the first m rows and then what is younger than t.        *)
LEMMA ReadSplits ==
  ASSUME NEW rows \in Seq(Row), NEW m \in 0..Len(rows), NEW t \in Nat,
         \A i \in 1..m : rows[i].ts <= t,
         \A i \in (m + 1)..Len(rows) : rows[i].ts > t
  PROVE  Read(rows, -1) = Read(SubSeq(rows, 1, m), -1) \o Read(rows, t)
  <1> DEFINE n == Len(rows)
             old == SubSeq(rows, 1, m)
             late == (m + 1)..n
             X == Read(rows, -1)
             Y == Read(old, -1)
             Z == Read(rows, t)
  <1>1. /\ n \in Nat /\ m \in Nat /\ m <= n
        /\ old \in Seq(Row) /\ Len(old) = m /\ \A i \in 1..m : old[i] = rows[i]
    BY SubSeqProperties
  <1>2. \A i \in 1..n : rows[i].ts \in Nat
    BY RowFacts
  <1>3. Young(rows, -1) = 1..n /\ Young(rows, t) = late
    BY <1>1, <1>2 DEF Young
  <1>4. Young(old, -1) = 1..m
    <2>1. \A i \in 1..m : old[i].ts \in Nat  BY <1>1, <1>2
    <2> HIDE DEF old
    <2> QED  BY <1>1, <2>1 DEF Young
  <1>5. /\ IsFiniteSet(1..n) /\ Cardinality(1..n) = n
        /\ IsFiniteSet(1..m) /\ Cardinality(1..m) = m
        /\ IsFiniteSet(late) /\ Cardinality(late) = n - m
    <2> HIDE DEF n
    <2>1. /\ IsFiniteSet(1..n) /\ Cardinality(1..n) = n
          /\ IsFiniteSet(1..m) /\ Cardinality(1..m) = m
      BY <1>1, FirstNumbers
    <2>2. IsFiniteSet(late) /\ Cardinality(late) = IF m + 1 > n THEN 0 ELSE n - (m + 1) + 1
      <3> DEFINE first == m + 1
      <3>1. first \in Int /\ n \in Int  BY <1>1
      <3> HIDE DEF first
      <3>2. IsFiniteSet(first..n) /\ Cardinality(first..n) = IF first > n THEN 0 ELSE n - first + 1
        BY <3>1, FS_Interval
      <3> QED  BY <3>2 DEF first
    <2> QED  BY <1>1, <2>1, <2>2
  <1>6. ASSUME NEW i \in 1..m PROVE Place(rows, 1..n, i) = Place(old, 1..m, i)
    <2>1. \A j \in late : ~Before(rows, j, i)
      BY <1>1, <1>2 DEF Before
    <2>2. \A j \in 1..m : Before(rows, j, i) <=> Before(old, j, i)
      BY <1>1 DEF Before
    <2>3. \A j : j \in 1..n <=> j \in 1..m \/ j \in late
      BY <1>1
    <2>4. {j \in 1..n : Before(rows, j, i)} = {j \in 1..m : Before(old, j, i)}
      BY <2>1, <2>2, <2>3
    <2> QED  BY <2>4 DEF Place
  <1>7. ASSUME NEW i \in late PROVE Place(rows, 1..n, i) = m + Place(rows, late, i)
    <2> DEFINE older == {j \in late : Before(rows, j, i)}
    <2>1. \A j \in 1..m : Before(rows, j, i)
      BY <1>1, <1>2 DEF Before
    <2>2. \A j : j \in 1..n <=> j \in 1..m \/ j \in late
      BY <1>1
    <2>3. {j \in 1..n : Before(rows, j, i)} = (1..m) \cup older
      BY <2>1, <2>2
    <2>4. (1..m) \cap older = {}
      BY <1>1
    <2>5. IsFiniteSet(older) /\ Cardinality(older) \in Nat
      BY <1>5, FS_Subset, FS_CardinalityType
    <2> HIDE DEF older, late
    <2>6. Cardinality((1..m) \cup older) = m + Cardinality(older)
      <3> DEFINE first == 1..m
      <3>1. IsFiniteSet(first) /\ Cardinality(first) = m /\ first \cap older = {}
        BY <1>5, <2>4
      <3> HIDE DEF first
      <3>2. Cardinality(first \cup older) =
              Cardinality(first) + Cardinality(older) - Cardinality(first \cap older)
        BY <2>5, <3>1, FS_Union
      <3>3. Cardinality(first \cap older) = 0  BY <3>1, FS_EmptySet
      <3> QED  BY <1>1, <2>5, <3>1, <3>2, <3>3 DEF first
    <2>7. Place(rows, late, i) = Cardinality(older) + 1
      BY DEF Place, older
    <2>8. Place(rows, 1..n, i) = Cardinality((1..m) \cup older) + 1
      BY <2>3 DEF Place
    <2> QED  BY <1>1, <2>5, <2>6, <2>7, <2>8
  <1>8. /\ X \in Seq(Row) /\ Len(X) = n
        /\ \A k \in 1..n : \E i \in 1..n : Place(rows, 1..n, i) = k /\ X[k] = rows[i]
    BY <1>3, <1>5, ReadProperties
  <1>9. /\ Y \in Seq(Row) /\ Len(Y) = m
        /\ \A k \in 1..m : \E i \in 1..m : Place(old, 1..m, i) = k /\ Y[k] = old[i]
    <2> HIDE DEF old
    <2>1. /\ Y \in Seq(Row) /\ Len(Y) = Cardinality(Young(old, -1))
          /\ \A k \in 1..Len(Y) :
               \E i \in Young(old, -1) : Place(old, Young(old, -1), i) = k /\ Y[k] = old[i]
      BY <1>1, ReadProperties
    <2> HIDE DEF Y
    <2> QED  BY <1>4, <1>5, <2>1
  <1>10. /\ Z \in Seq(Row) /\ Len(Z) = n - m
         /\ \A k \in 1..(n - m) : \E i \in late : Place(rows, late, i) = k /\ Z[k] = rows[i]
    <2>1. /\ Z \in Seq(Row) /\ Len(Z) = Cardinality(Young(rows, t))
          /\ \A k \in 1..Len(Z) :
               \E i \in Young(rows, t) : Place(rows, Young(rows, t), i) = k /\ Z[k] = rows[i]
      BY ReadProperties
    <2> HIDE DEF Z, late
    <2> QED  BY <1>3, <1>5, <2>1
  <1>11. \A i, j \in 1..n : Place(rows, 1..n, i) = Place(rows, 1..n, j) => i = j
    BY PlaceNumbers
  <1> HIDE DEF n, old, late, X, Y, Z
  <1>12. ASSUME NEW k \in 1..m PROVE X[k] = Y[k]
    <2>1. k \in 1..n  BY <1>1
    <2>2. PICK i \in 1..n : Place(rows, 1..n, i) = k /\ X[k] = rows[i]  BY <1>8, <2>1
    <2>3. PICK j \in 1..m : Place(old, 1..m, j) = k /\ Y[k] = old[j]  BY <1>9
    <2>4. Place(rows, 1..n, j) = k /\ j \in 1..n  BY <1>1, <1>6, <2>3
    <2>5. i = j  BY <1>11, <2>2, <2>4
    <2> QED  BY <1>1, <2>2, <2>3, <2>5
  <1>13. ASSUME NEW k \in 1..(n - m) PROVE X[m + k] = Z[k]
    <2>1. m + k \in 1..n  BY <1>1
    <2>2. PICK i \in 1..n : Place(rows, 1..n, i) = m + k /\ X[m + k] = rows[i]
      BY <1>8, <2>1
    <2>3. PICK j \in late : Place(rows, late, j) = k /\ Z[k] = rows[j]  BY <1>10
    <2>4. Place(rows, 1..n, j) = m + k /\ j \in 1..n  BY <1>1, <1>7, <2>3 DEF late
    <2>5. i = j  BY <1>11, <2>2, <2>4
    <2> QED  BY <2>2, <2>3, <2>5
  <1>14. /\ Y \o Z \in Seq(Row) /\ Len(Y \o Z) = n
         /\ \A k \in 1..n : (Y \o Z)[k] = IF k <= m THEN Y[k] ELSE Z[k - m]
    <2>1. m + (n - m) = n  BY <1>1
    <2>2. Y \in Seq(Row) /\ Z \in Seq(Row) /\ Len(Y) = m /\ Len(Z) = n - m
      BY <1>9, <1>10
    <2>3. /\ Y \o Z \in Seq(Row) /\ Len(Y \o Z) = Len(Y) + Len(Z)
          /\ \A k \in 1..(Len(Y) + Len(Z)) :
               (Y \o Z)[k] = IF k <= Len(Y) THEN Y[k] ELSE Z[k - Len(Y)]
      BY <2>2, ConcatProperties
    <2> QED  BY <2>1, <2>2, <2>3
  <1>15. ASSUME NEW k \in 1..n PROVE X[k] = (Y \o Z)[k]
    <2>1. CASE k <= m
      <3>1. k \in 1..m  BY <1>1, <2>1
      <3> QED  BY <1>12, <1>14, <2>1, <3>1
    <2>2. CASE ~(k <= m)
      <3>1. k - m \in 1..(n - m) /\ m + (k - m) = k  BY <1>1, <2>2
      <3> QED  BY <1>13, <1>14, <2>2, <3>1
    <2> QED  BY <2>1, <2>2
  <1>16. X = Y \o Z  BY <1>8, <1>14, <1>15, SeqEqual
  <1> QED  BY <1>16 DEF X, Y, Z, old

-----------------------------------------------------------------------------
(* Events that were made by now.                                           *)
Past == [account : Accounts, delta : Int,
         newTotal : Int \cup {None}, ts : 0..now]

LedgerTypes ==
  /\ live \in BOOLEAN /\ mutates \in BOOLEAN
  /\ engine \in {"down", "starting", "up", "dying", "failed"}
  /\ queue \in Seq(Past) /\ stored \in Seq(Past) /\ cli \in Seq(Past)
  /\ Len(queue) + Len(stored) <= MaxEvents
  /\ ledger \in [Accounts -> Int]
  /\ totalsCache \in [HomeAccounts -> Int \cup {None}]
  /\ sync = None \/ \E D \in SUBSET HomeAccounts : sync \in [D -> Int]
  /\ venue \in [HomeAccounts -> Nat]
  /\ unbooked \in {-1, 0, 1}
  /\ commands \in 0..MaxCommands
  /\ now \in 0..MaxTime

(* What a crash takes with it, and what no start brings back: events in    *)
(* the queue and cached totals.                                            *)
Starts ==
  /\ engine \in {"down", "failed"} => queue = << >>
  /\ engine \in {"down", "starting", "failed"} =>
       \A a \in HomeAccounts : totalsCache[a] = None

(* A snapshot stands for the first rows of the store, and was made no      *)
(* earlier than any of them.                                               *)
Snapshot ==
  /\ reading = None \/ reading \in 0..Len(stored)
  /\ \/ file = None
     \/ \E t \in 0..now, n \in 0..Len(stored) :
          file = [ts |-> t, rows |-> n] /\ \A k \in 1..n : stored[k].ts <= t

LedgerInv == LedgerTypes /\ Starts /\ Snapshot


USE DEF HomeBase, HomeQuote, HomeAccounts, Accounts, vars, engineVars, venueVars,
        cliVars, scriptVars

-----------------------------------------------------------------------------
LEMMA PastFacts ==
  ASSUME LedgerTypes
  PROVE  /\ now \in Nat /\ Past \subseteq Row /\ Past \subseteq Event
         /\ \A a \in Accounts, d \in Int : Adjusted(a, d, now) \in Past
  <1>1. now \in Nat /\ now <= MaxTime /\ MaxTime \in Nat
    BY LedgerAssumption DEF LedgerTypes
  <1>2. \A e \in Past : e \in Row /\ e \in Event
    BY <1>1 DEF Past, Row, Event
  <1>3. \A a \in Accounts, d \in Int : Adjusted(a, d, now) \in Past
    BY <1>1 DEF Past, Adjusted
  <1> QED  BY <1>1, <1>2, <1>3

(* What was made by now was made by any later time.                        *)
LEMMA PastGrows ==
  ASSUME LedgerTypes, now' \in Nat, now <= now'
  PROVE  \A s \in Seq(Past) : s \in Seq(Past')
  <1>1. Past \subseteq Past'
    <2>1. now \in Nat  BY PastFacts
    <2>2. 0..now \subseteq 0..now'  BY <2>1
    <2> QED  BY <2>2 DEF Past
  <1> QED  BY <1>1, SeqMonotonic

LEMMA SeqOfPast ==
  ASSUME LedgerTypes, NEW s \in Seq(Past)
  PROVE  s \in Seq(Row) /\ Len(s) \in Nat
  <1>1. s \in Seq(Row)  BY PastFacts, SeqMonotonic
  <1> QED  BY <1>1

(* Replay of what is stored, and applying what is emitted, leave totals.   *)
LEMMA ReplayType ==
  ASSUME LedgerTypes
  PROVE  Replay(stored) \in Outcome
  <1> DEFINE read == Read(stored, -1)
  <1>1. stored \in Seq(Row) /\ -1 \in Int
    BY SeqOfPast DEF LedgerTypes
  <1>2. Zero \in [Accounts -> Int]
    BY DEF Zero
  <1>3. read \in Seq(Row)
    BY <1>1, ReadProperties
  <1> HIDE DEF read
  <1>4. Replay(stored) = Apply(TRUE, Zero, read)
    BY DEF Replay, ReplayFrom, read
  <1> QED  BY <1>2, <1>3, <1>4, ApplyType

LEMMA EmitType ==
  ASSUME LedgerTypes, NEW events \in Seq(Past), NEW next, Emit(events, next)
  PROVE  /\ queue' \in Seq(Past) /\ Len(queue') + Len(stored) <= MaxEvents
         /\ ledger' \in [Accounts -> Int]
         /\ engine' \in {next, "dying"}
  <1>1. queue \in Seq(Past) /\ ledger \in [Accounts -> Int]
    BY DEF LedgerTypes
  <1>2. queue' = queue \o events /\ Len(queue') = Len(queue) + Len(events)
    BY <1>1, ConcatProperties DEF Emit
  <1>3. queue' \in Seq(Past)
    BY <1>1, <1>2, ConcatProperties
  <1>4. Len(queue') + Len(stored) <= MaxEvents
    <2>1. Len(queue) \in Nat /\ Len(stored) \in Nat /\ Len(events) \in Nat
      BY SeqOfPast DEF LedgerTypes
    <2>2. Len(queue) + Len(stored) + Len(events) <= MaxEvents
      BY DEF Emit
    <2> QED  BY <1>2, <2>1, <2>2, LedgerAssumption
  <1>5. events \in Seq(Row) /\ Len(events) \in Nat
    BY SeqOfPast
  <1>6. Applied(events) = Apply(FALSE, ledger, events)
    BY DEF Applied
  <1>7. Apply(FALSE, ledger, events) \in Outcome
    BY <1>1, <1>5, ApplyType
  <1>8. Applied(events) \in Outcome
    BY <1>6, <1>7
  <1>9. Applied(events).totals \in [Accounts -> Int]
    BY <1>8 DEF Outcome
  <1> QED  BY <1>3, <1>4, <1>8, <1>9 DEF Emit

LEMMA TotalsKnown ==
  ASSUME LedgerTypes
  PROVE  \A a \in HomeAccounts : currentTotal(a) \in Int
  BY DEF LedgerTypes, currentTotal

(* A sync repairs an account by one event, and at most two.                *)
LEMMA SyncEventsType ==
  ASSUME LedgerTypes, sync # None, mutates
  PROVE  SyncEvents \in Seq(Past)
  <1> DEFINE event(a) == [account |-> a, delta |-> sync[a] - currentTotal(a),
                          newTotal |-> sync[a], ts |-> now]
             repair(a) == IF a \notin Drifted THEN << >> ELSE <<event(a)>>
  <1>1. PICK D \in SUBSET HomeAccounts : sync \in [D -> Int]
    BY DEF LedgerTypes
  <1>2. ASSUME NEW a \in Drifted PROVE event(a) \in Past
    <2>1. a \in HomeAccounts /\ sync[a] \in Int  BY <1>1, <1>2 DEF Drifted
    <2>2. currentTotal(a) \in Int /\ now \in Nat  BY <2>1, TotalsKnown, PastFacts
    <2> HIDE DEF HomeAccounts
    <2>3. a \in Accounts  BY <2>1 DEF Accounts
    <2> QED  BY <2>1, <2>2, <2>3 DEF Past
  <1> HIDE DEF event
  <1>3. \A a : repair(a) \in Seq(Past)  BY <1>2
  <1>4. SyncEvents = repair(HomeBase) \o repair(HomeQuote)
    BY DEF SyncEvents, event
  <1> HIDE DEF repair
  <1> QED  BY <1>3, <1>4, ConcatProperties

-----------------------------------------------------------------------------
LEMMA InitLedgerInv == Init => LedgerInv
<1> SUFFICES ASSUME Init PROVE LedgerInv
  OBVIOUS
<1>1. queue \in Seq(Past) /\ stored \in Seq(Past) /\ cli \in Seq(Past)
      /\ Len(queue) = 0 /\ Len(stored) = 0
  BY DEF Init
<1>2. Zero \in [Accounts -> Int]
  BY DEF Zero
<1>3. LedgerTypes
  BY <1>1, <1>2, LedgerAssumption DEF Init, LedgerTypes
<1> QED
  BY <1>3 DEF Init, LedgerInv, Starts, Snapshot

(* Rows are only appended, so a snapshot goes on standing for its rows.    *)
LEMMA SnapshotStays ==
  ASSUME LedgerTypes, Snapshot, UNCHANGED scriptVars, now' \in Nat, now <= now',
         \/ UNCHANGED stored
         \/ \E e \in Past : stored' = Append(stored, e)
  PROVE  Snapshot'
<1>1. stored \in Seq(Past) /\ Len(stored) \in Nat /\ now \in Nat
  BY SeqOfPast, PastFacts DEF LedgerTypes
<1>2. /\ Len(stored') \in Nat /\ Len(stored) <= Len(stored')
      /\ \A k \in 1..Len(stored) : stored'[k] = stored[k]
  <2>1. CASE UNCHANGED stored
    BY <1>1, <2>1
  <2>2. ASSUME NEW e \in Past, stored' = Append(stored, e)
        PROVE  /\ Len(stored') \in Nat /\ Len(stored) <= Len(stored')
               /\ \A k \in 1..Len(stored) : stored'[k] = stored[k]
    BY <1>1, <2>2, AppendProperties
  <2> QED  BY <2>1, <2>2
<1>3. reading' = None \/ reading' \in 0..Len(stored')
  BY <1>1, <1>2 DEF Snapshot
<1>4. ASSUME NEW t \in 0..now, NEW n \in 0..Len(stored),
             file = [ts |-> t, rows |-> n], \A k \in 1..n : stored[k].ts <= t
      PROVE  Snapshot'
  <2>1. t \in 0..now' /\ n \in 0..Len(stored')
    BY <1>1, <1>2
  <2>2. \A k \in 1..n : stored'[k].ts <= t
    BY <1>1, <1>2, <1>4
  <2>3. file' = [ts |-> t, rows |-> n]
    BY <1>4
  <2> QED  BY <1>3, <2>1, <2>2, <2>3 DEF Snapshot
<1>5. CASE file = None
  BY <1>3, <1>5 DEF Snapshot
<1> QED
  BY <1>4, <1>5 DEF Snapshot

(* A step in which no time passes and only the engine's own variables and  *)
(* the store change keeps the rest of the types.                           *)
LEMMA QuietTypes ==
  ASSUME LedgerTypes, UNCHANGED <<live, mutates, commands, now>>
  PROVE  /\ Past' = Past /\ now' \in Nat /\ now <= now'
         /\ live' \in BOOLEAN /\ mutates' \in BOOLEAN
         /\ commands' \in 0..MaxCommands /\ now' \in 0..MaxTime
  BY PastFacts DEF LedgerTypes, Past
(* The steps, one lemma for each part of the system.                       *)
LEMMA BootInv == LedgerInv /\ Boot => LedgerInv'
<1> SUFFICES ASSUME LedgerInv, Boot PROVE LedgerInv'
  OBVIOUS
<1>1. LedgerTypes /\ Starts /\ Snapshot
  BY DEF LedgerInv
<1>2. /\ UNCHANGED <<live, mutates, queue, totalsCache, sync, venue, unbooked, cli,
                     commands, reading, file, now>>
      /\ engine = "down" /\ queue = << >>
  BY <1>1 DEF Boot, Starts
<1>3. /\ Past' = Past /\ now' \in Nat /\ now <= now'
      /\ live' \in BOOLEAN /\ mutates' \in BOOLEAN
      /\ commands' \in 0..MaxCommands /\ now' \in 0..MaxTime
  BY <1>1, <1>2, QuietTypes
<1> DEFINE deposit == Adjusted(HomeQuote, Seed, now)
<1>4. deposit \in Past /\ deposit \in Row
  BY <1>1, PastFacts, LedgerAssumption
<1>5. Replay(stored).totals \in [Accounts -> Int]
  BY <1>1, ReplayType DEF Outcome
<1>6. Reduce(Replay(stored).totals, deposit) \in [Accounts -> Int]
  BY <1>4, <1>5 DEF Reduce, Row
<1>7. /\ engine' \in {"failed", "starting"}
      /\ ledger' \in [Accounts -> Int]
  <2>1. ledger \in [Accounts -> Int]  BY <1>1 DEF LedgerTypes
  <2> QED  BY <1>5, <1>6, <2>1 DEF Boot
<1>8. \/ UNCHANGED stored
      \/ stored' = Append(stored, deposit) /\ Len(stored) < MaxEvents
  BY DEF Boot
<1> HIDE DEF deposit
<1>9. stored' \in Seq(Past) /\ Len(queue') + Len(stored') <= MaxEvents
  <2>1. stored \in Seq(Past) /\ Len(stored) \in Nat /\ Len(queue) = 0
        /\ Len(queue) + Len(stored) <= MaxEvents /\ MaxEvents \in Nat
    BY <1>1, <1>2, SeqOfPast, LedgerAssumption DEF LedgerTypes
  <2>2. CASE UNCHANGED stored
    BY <1>2, <2>1, <2>2
  <2>3. CASE stored' = Append(stored, deposit) /\ Len(stored) < MaxEvents
    <3>1. stored' \in Seq(Past) /\ Len(stored') = Len(stored) + 1
      BY <1>4, <2>1, <2>3, AppendProperties
    <3> QED  BY <1>2, <2>1, <2>3, <3>1
  <2> QED  BY <1>8, <2>2, <2>3
<1>10. LedgerTypes'
  BY <1>1, <1>2, <1>3, <1>7, <1>9 DEF LedgerTypes
<1>11. Starts'
  BY <1>1, <1>2, <1>7 DEF Starts
<1>12. Snapshot'
  BY <1>1, <1>2, <1>3, <1>4, <1>8, SnapshotStays
<1> QED
  BY <1>10, <1>11, <1>12 DEF LedgerInv

(* The worker and the CLI move the head of a sequence to the store.        *)
LEMMA MovesHead ==
  ASSUME LedgerTypes, NEW s \in Seq(Past), s # << >>, NEW t, t = Append(stored, Head(s))
  PROVE  /\ Head(s) \in Past /\ Tail(s) \in Seq(Past) /\ Len(Tail(s)) = Len(s) - 1
         /\ t \in Seq(Past) /\ Len(t) = Len(stored) + 1
         /\ Len(s) \in Nat /\ Len(stored) \in Nat
<1>1. Head(s) \in Past /\ Tail(s) \in Seq(Past) /\ Len(Tail(s)) = Len(s) - 1
  BY HeadTailProperties
<1>2. stored \in Seq(Past)
  BY DEF LedgerTypes
<1> QED
  BY <1>1, <1>2, AppendProperties, SeqOfPast

LEMMA PersistInv == LedgerInv /\ (Persist \/ CliAppend) => LedgerInv'
<1> SUFFICES ASSUME LedgerInv, Persist \/ CliAppend PROVE LedgerInv'
  OBVIOUS
<1>1. LedgerTypes /\ Starts /\ Snapshot
  BY DEF LedgerInv
<1>2. UNCHANGED <<live, mutates, engine, ledger, totalsCache, sync, venue, unbooked,
                  commands, reading, file, now>>
  BY DEF Persist, CliAppend
<1>3. /\ Past' = Past /\ now' \in Nat /\ now <= now'
      /\ live' \in BOOLEAN /\ mutates' \in BOOLEAN
      /\ commands' \in 0..MaxCommands /\ now' \in 0..MaxTime
  BY <1>1, <1>2, QuietTypes
<1>4. /\ queue \in Seq(Past) /\ cli \in Seq(Past) /\ Len(queue) \in Nat
      /\ Len(stored) \in Nat /\ Len(queue) + Len(stored) <= MaxEvents /\ MaxEvents \in Nat
  BY <1>1, SeqOfPast, LedgerAssumption DEF LedgerTypes
<1>5. /\ queue' \in Seq(Past) /\ cli' \in Seq(Past) /\ stored' \in Seq(Past)
      /\ Len(queue') + Len(stored') <= MaxEvents
      /\ \E e \in Past : stored' = Append(stored, e)
      /\ queue = << >> => queue' = << >>
  <2>1. CASE Persist
    <3>1. /\ queue # << >> /\ stored' = Append(stored, Head(queue))
          /\ queue' = Tail(queue) /\ cli' = cli
      BY <2>1 DEF Persist
    <3>2. /\ Head(queue) \in Past /\ Tail(queue) \in Seq(Past)
          /\ Len(Tail(queue)) = Len(queue) - 1
          /\ stored' \in Seq(Past) /\ Len(stored') = Len(stored) + 1
      BY <1>1, <1>4, <3>1, MovesHead
    <3> QED  BY <1>4, <3>1, <3>2
  <2>2. CASE CliAppend
    <3>1. /\ cli # << >> /\ stored' = Append(stored, Head(cli))
          /\ cli' = Tail(cli) /\ queue' = queue
          /\ Len(queue) + Len(stored) < MaxEvents
      BY <2>2 DEF CliAppend
    <3>2. /\ Head(cli) \in Past /\ Tail(cli) \in Seq(Past)
          /\ stored' \in Seq(Past) /\ Len(stored') = Len(stored) + 1
      BY <1>1, <1>4, <3>1, MovesHead
    <3> QED  BY <1>4, <3>1, <3>2
  <2> QED  BY <2>1, <2>2
<1>6. LedgerTypes'
  BY <1>1, <1>2, <1>3, <1>5 DEF LedgerTypes
<1>7. Starts'
  BY <1>1, <1>2, <1>5 DEF Starts
<1>8. Snapshot'
  BY <1>1, <1>2, <1>3, <1>5, SnapshotStays
<1> QED
  BY <1>6, <1>7, <1>8 DEF LedgerInv

(* Steps that leave the store and the clock alone and do not touch the     *)
(* snapshot: what they must keep is the types of what they do change.      *)
LEMMA QuietInv ==
  ASSUME LedgerInv, UNCHANGED <<live, mutates, stored, commands, scriptVars, now>>,
         engine' \in {"down", "starting", "up", "dying", "failed"},
         queue' \in Seq(Past), cli' \in Seq(Past), Len(queue') + Len(stored) <= MaxEvents,
         ledger' \in [Accounts -> Int],
         totalsCache' \in [HomeAccounts -> Int \cup {None}],
         sync' = None \/ \E D \in SUBSET HomeAccounts : sync' \in [D -> Int],
         venue' \in [HomeAccounts -> Nat], unbooked' \in {-1, 0, 1}, Starts'
  PROVE  LedgerInv'
<1>1. LedgerTypes /\ Snapshot
  BY DEF LedgerInv
<1>2. /\ Past' = Past /\ now' \in Nat /\ now <= now'
      /\ live' \in BOOLEAN /\ mutates' \in BOOLEAN
      /\ commands' \in 0..MaxCommands /\ now' \in 0..MaxTime
  BY <1>1, QuietTypes
<1>3. stored' \in Seq(Past)
  BY <1>1 DEF LedgerTypes
<1>4. LedgerTypes'
  BY <1>2, <1>3 DEF LedgerTypes
<1>5. Snapshot'
  BY <1>1, <1>2, SnapshotStays
<1> QED
  BY <1>4, <1>5 DEF LedgerInv
LEMMA CrashInv == LedgerInv /\ Crash => LedgerInv'
<1> SUFFICES ASSUME LedgerInv, Crash PROVE LedgerInv'
  OBVIOUS
<1>1. LedgerTypes /\ Starts
  BY DEF LedgerInv
<1>2. /\ UNCHANGED <<live, mutates, stored, commands, reading, file, now, cli, venue>>
      /\ engine' = "down" /\ queue' = << >> /\ ledger' = Zero /\ sync' = None
      /\ totalsCache' = [a \in HomeAccounts |-> None] /\ unbooked' = 0
  BY DEF Crash
<1>3. Zero \in [Accounts -> Int] /\ Len(<< >>) = 0 /\ << >> \in Seq(Past)
  BY DEF Zero
<1>4. Len(queue') + Len(stored') <= MaxEvents
  <2>1. /\ Len(queue) \in Nat /\ Len(stored) \in Nat /\ MaxEvents \in Nat
        /\ Len(queue) + Len(stored) <= MaxEvents
    BY <1>1, SeqOfPast, LedgerAssumption DEF LedgerTypes
  <2> QED  BY <1>2, <1>3, <2>1
<1>5. Starts'
  BY <1>2 DEF Starts
<1>6. cli \in Seq(Past) /\ venue \in [HomeAccounts -> Nat]
  BY <1>1 DEF LedgerTypes
<1>7. totalsCache' \in [HomeAccounts -> Int \cup {None}]
  BY <1>2
<1> QED
  BY <1>2, <1>3, <1>4, <1>5, <1>6, <1>7, QuietInv

LEMMA VenueInv == LedgerInv /\ VenueFills => LedgerInv'
<1> SUFFICES ASSUME LedgerInv, VenueFills PROVE LedgerInv'
  OBVIOUS
<1>1. LedgerTypes /\ Starts
  BY DEF LedgerInv
<1>2. UNCHANGED <<live, mutates, stored, commands, reading, file, now, cli, queue, engine,
                  ledger, sync, totalsCache>>
  BY DEF VenueFills
<1>3. venue' \in [HomeAccounts -> Nat] /\ unbooked' \in {-1, 0, 1}
  <2>1. PICK d \in {-1, 1} :
          /\ venue[IF d = 1 THEN HomeQuote ELSE HomeBase] > 0
          /\ venue' = [venue EXCEPT ![HomeBase] = @ + d, ![HomeQuote] = @ - d]
          /\ unbooked' = d
    BY DEF VenueFills
  <2>2. /\ venue \in [HomeAccounts -> Nat] /\ HomeBase \in HomeAccounts
        /\ HomeQuote \in HomeAccounts /\ HomeBase # HomeQuote
    BY <1>1, LedgerAssumption DEF LedgerTypes
  <2> HIDE DEF HomeBase, HomeQuote, HomeAccounts
  <2>3. venue[HomeBase] + d \in Nat /\ venue[HomeQuote] - d \in Nat
    <3>1. venue[HomeBase] \in Nat /\ venue[HomeQuote] \in Nat  BY <2>2
    <3> QED  BY <2>1, <3>1
  <2> QED  BY <2>1, <2>2, <2>3
<1>4. /\ engine' \in {"down", "starting", "up", "dying", "failed"}
      /\ queue' \in Seq(Past) /\ cli' \in Seq(Past) /\ Len(queue') + Len(stored') <= MaxEvents
      /\ ledger' \in [Accounts -> Int]
      /\ totalsCache' \in [HomeAccounts -> Int \cup {None}]
      /\ sync' = None \/ \E D \in SUBSET HomeAccounts : sync' \in [D -> Int]
  BY <1>1, <1>2 DEF LedgerTypes
<1>5. Starts'
  BY <1>1, <1>2 DEF Starts
<1> QED
  BY <1>2, <1>3, <1>4, <1>5, QuietInv

LEMMA BookInv == LedgerInv /\ BookFill => LedgerInv'
<1> SUFFICES ASSUME LedgerInv, BookFill PROVE LedgerInv'
  OBVIOUS
<1>1. LedgerTypes /\ Starts
  BY DEF LedgerInv
<1>2. PICK d \in {-1, 1} :
        /\ engine = "up" /\ unbooked' = 0
        /\ Emit(<<Adjusted(HomeBase, d, now), Adjusted(HomeQuote, -d, now)>>, "up")
        /\ UNCHANGED <<live, mutates, stored, totalsCache, sync, venue, cli, commands,
                       reading, file, now>>
  BY DEF BookFill
<1> DEFINE events == <<Adjusted(HomeBase, d, now), Adjusted(HomeQuote, -d, now)>>
<1>3. events \in Seq(Past)
  <2>1. HomeBase \in Accounts /\ HomeQuote \in Accounts /\ d \in Int /\ -d \in Int
    OBVIOUS
  <2>2. Adjusted(HomeBase, d, now) \in Past /\ Adjusted(HomeQuote, -d, now) \in Past
    BY <1>1, <2>1, PastFacts
  <2> QED  BY <2>2
<1>4. Emit(events, "up")
  BY <1>2
<1> HIDE DEF events
<1>5. /\ queue' \in Seq(Past) /\ Len(queue') + Len(stored) <= MaxEvents
      /\ ledger' \in [Accounts -> Int] /\ engine' \in {"up", "dying"}
  BY <1>1, <1>3, <1>4, EmitType
<1>6. Starts'
  BY <1>1, <1>2, <1>5 DEF Starts
<1>7. /\ cli \in Seq(Past) /\ venue \in [HomeAccounts -> Nat]
      /\ totalsCache \in [HomeAccounts -> Int \cup {None}]
      /\ sync = None \/ \E D \in SUBSET HomeAccounts : sync \in [D -> Int]
  BY <1>1 DEF LedgerTypes
<1> QED
  BY <1>2, <1>5, <1>6, <1>7, QuietInv

LEMMA FetchInv == LedgerInv /\ (Fetch \/ SyncFails) => LedgerInv'
<1> SUFFICES ASSUME LedgerInv, Fetch \/ SyncFails PROVE LedgerInv'
  OBVIOUS
<1>1. LedgerTypes /\ Starts
  BY DEF LedgerInv
<1>2. UNCHANGED <<live, mutates, stored, commands, reading, file, now, cli, queue,
                  ledger, totalsCache, venue, unbooked>>
  BY DEF Fetch, SyncFails
<1>3. engine' \in {"down", "starting", "up", "dying", "failed"} /\ Starts'
  BY <1>1, <1>2 DEF Fetch, SyncFails, LedgerTypes, Starts
<1>4. sync' = None \/ \E D \in SUBSET HomeAccounts : sync' \in [D -> Int]
  <2>1. CASE Fetch
    <3> DEFINE told == {b \in HomeAccounts : venue[b] # 0}
    <3>1. venue \in [HomeAccounts -> Nat] /\ MockQuote \in Int
      BY <1>1, LedgerAssumption DEF LedgerTypes
    <3>2. live => Answer \in [told -> Int]
      BY <3>1 DEF Answer
    <3>3. ~live => Answer \in [HomeAccounts -> Int]
      BY <3>1 DEF Answer
    <3>4. told \in SUBSET HomeAccounts
      OBVIOUS
    <3> HIDE DEF told, HomeAccounts
    <3>5. sync' = Answer
      BY <2>1 DEF Fetch
    <3> QED  BY <3>2, <3>3, <3>4, <3>5
  <2>2. CASE SyncFails
    BY <1>1, <2>2 DEF SyncFails, LedgerTypes
  <2> QED  BY <2>1, <2>2
<1>5. /\ queue' \in Seq(Past) /\ cli' \in Seq(Past) /\ Len(queue') + Len(stored') <= MaxEvents
      /\ ledger' \in [Accounts -> Int]
      /\ totalsCache' \in [HomeAccounts -> Int \cup {None}]
      /\ venue' \in [HomeAccounts -> Nat] /\ unbooked' \in {-1, 0, 1}
  BY <1>1, <1>2 DEF LedgerTypes
<1> QED
  BY <1>2, <1>3, <1>4, <1>5, QuietInv

LEMMA ReconcileInv == LedgerInv /\ Reconcile => LedgerInv'
<1> SUFFICES ASSUME LedgerInv, Reconcile PROVE LedgerInv'
  OBVIOUS
<1>1. LedgerTypes /\ Starts
  BY DEF LedgerInv
<1>2. /\ UNCHANGED <<live, mutates, stored, commands, reading, file, now, cli, venue, unbooked>>
      /\ sync # None /\ sync' = None
  BY DEF Reconcile
<1>3. /\ engine' \in {"up", "dying"}
      /\ queue' \in Seq(Past) /\ Len(queue') + Len(stored) <= MaxEvents
      /\ ledger' \in [Accounts -> Int]
      /\ totalsCache' \in [HomeAccounts -> Int \cup {None}]
  <2>1. CASE ~mutates
    BY <1>1, <2>1 DEF Reconcile, LedgerTypes
  <2>2. CASE mutates
    <3>1. /\ Emit(SyncEvents, "up")
          /\ totalsCache' = [a \in HomeAccounts |->
                               IF a \in Drifted THEN sync[a] ELSE totalsCache[a]]
      BY <2>2 DEF Reconcile
    <3>2. SyncEvents \in Seq(Past)
      BY <1>1, <1>2, <2>2, SyncEventsType
    <3>3. \A a \in Drifted : sync[a] \in Int
      <4>1. PICK D \in SUBSET HomeAccounts : sync \in [D -> Int]
        BY <1>1, <1>2 DEF LedgerTypes
      <4> QED  BY <4>1 DEF Drifted
    <3>4. totalsCache' \in [HomeAccounts -> Int \cup {None}]
      BY <1>1, <3>1, <3>3 DEF LedgerTypes
    <3> QED  BY <1>1, <3>1, <3>2, <3>4, EmitType
  <2> QED  BY <2>1, <2>2
<1>4. Starts'
  BY <1>1, <1>2, <1>3 DEF Starts
<1>5. cli \in Seq(Past) /\ venue \in [HomeAccounts -> Nat] /\ unbooked \in {-1, 0, 1}
  BY <1>1 DEF LedgerTypes
<1> QED
  BY <1>2, <1>3, <1>4, <1>5, QuietInv
LEMMA CliStartInv == LedgerInv /\ CliStart => LedgerInv'
<1> SUFFICES ASSUME LedgerInv, CliStart PROVE LedgerInv'
  OBVIOUS
<1>1. LedgerTypes /\ Starts /\ Snapshot
  BY DEF LedgerInv
<1>2. /\ UNCHANGED <<live, mutates, queue, ledger, totalsCache, sync, engine, stored,
                     venue, unbooked, reading, file, now>>
      /\ commands' = commands + 1 /\ commands < MaxCommands
  BY DEF CliStart
<1>3. cli' \in Seq(Past)
  <2>1. \A a \in Accounts, d \in Int : Adjusted(a, d, now) \in Past
    BY <1>1, PastFacts
  <2> HIDE DEF Accounts
  <2>2. \A a, b \in Accounts : /\ Adjusted(a, 1, now) \in Past
                               /\ Adjusted(a, -1, now) \in Past
    BY <2>1
  <2>3. \/ \E a \in Accounts : cli' = <<Adjusted(a, 1, now)>>
        \/ \E a, b \in Accounts : cli' = <<Adjusted(a, -1, now), Adjusted(b, 1, now)>>
    BY DEF CliStart
  <2>4. ASSUME NEW a \in Accounts, cli' = <<Adjusted(a, 1, now)>> PROVE cli' \in Seq(Past)
    BY <2>2, <2>4
  <2>5. ASSUME NEW a \in Accounts, NEW b \in Accounts,
               cli' = <<Adjusted(a, -1, now), Adjusted(b, 1, now)>>
        PROVE  cli' \in Seq(Past)
    <3>1. Adjusted(a, -1, now) \in Past /\ Adjusted(b, 1, now) \in Past  BY <2>2
    <3> QED  BY <2>5, <3>1
  <2> QED  BY <2>3, <2>4, <2>5
<1>4. Past' = Past /\ now' \in Nat /\ now <= now' /\ commands' \in 0..MaxCommands
  BY <1>1, <1>2, PastFacts, LedgerAssumption DEF LedgerTypes, Past
<1>5. LedgerTypes'
  BY <1>1, <1>2, <1>3, <1>4 DEF LedgerTypes
<1>6. Starts'
  BY <1>1, <1>2 DEF Starts
<1>7. Snapshot'
  BY <1>1, <1>2, <1>4, SnapshotStays
<1> QED
  BY <1>5, <1>6, <1>7 DEF LedgerInv

LEMMA ScriptInv == LedgerInv /\ (SnapshotReads \/ SnapshotWrites) => LedgerInv'
<1> SUFFICES ASSUME LedgerInv, SnapshotReads \/ SnapshotWrites PROVE LedgerInv'
  OBVIOUS
<1>1. LedgerTypes /\ Starts /\ Snapshot
  BY DEF LedgerInv
<1>2. UNCHANGED <<live, mutates, queue, ledger, totalsCache, sync, engine, stored,
                  venue, unbooked, cli, now>>
  BY DEF SnapshotReads, SnapshotWrites
<1>3. Past' = Past /\ now \in Nat /\ Len(stored) \in Nat
  BY <1>1, <1>2, PastFacts, SeqOfPast DEF LedgerTypes, Past
<1>4. commands' \in 0..MaxCommands
  <2>1. commands \in 0..MaxCommands /\ MaxCommands \in Nat
    BY <1>1, LedgerAssumption DEF LedgerTypes
  <2>2. CASE SnapshotReads
    BY <2>1, <2>2 DEF SnapshotReads
  <2>3. CASE SnapshotWrites
    BY <2>1, <2>3 DEF SnapshotWrites, cliVars
  <2> QED  BY <2>2, <2>3
<1>5. LedgerTypes'
  BY <1>1, <1>2, <1>3, <1>4 DEF LedgerTypes
<1>6. Starts'
  BY <1>1, <1>2 DEF Starts
<1>7. Snapshot'
  <2>1. CASE SnapshotReads
    <3>1. reading' = Len(stored) /\ file' = file
      BY <2>1 DEF SnapshotReads
    <3>2. reading' \in 0..Len(stored)
      BY <1>3, <3>1
    <3> QED  BY <1>1, <1>2, <3>1, <3>2 DEF Snapshot
  <2>2. CASE SnapshotWrites
    <3>1. reading \in 0..Len(stored) /\ reading' = None /\ file' = [ts |-> now, rows |-> reading]
      BY <1>1, <2>2 DEF SnapshotWrites, Snapshot
    <3>2. \A k \in 1..Len(stored) : stored[k].ts <= now
      <4>1. \A e \in Past : e.ts <= now
        BY <1>3 DEF Past
      <4>2. \A k \in 1..Len(stored) : stored[k] \in Past
        BY <1>1 DEF LedgerTypes
      <4> QED  BY <4>1, <4>2
    <3>3. now \in 0..now /\ \A k \in 1..reading : stored[k].ts <= now
      BY <1>3, <3>1, <3>2
    <3> QED  BY <1>2, <3>1, <3>3 DEF Snapshot
  <2> QED  BY <2>1, <2>2
<1> QED
  BY <1>5, <1>6, <1>7 DEF LedgerInv

LEMMA TickInv == LedgerInv /\ Tick => LedgerInv'
<1> SUFFICES ASSUME LedgerInv, Tick PROVE LedgerInv'
  OBVIOUS
<1>1. LedgerTypes /\ Starts /\ Snapshot
  BY DEF LedgerInv
<1>2. /\ UNCHANGED <<live, mutates, queue, ledger, totalsCache, sync, engine, stored,
                     venue, unbooked, cli, commands, reading, file>>
      /\ now' = now + 1 /\ now < MaxTime
  BY DEF Tick
<1>3. now' \in Nat /\ now <= now' /\ now' \in 0..MaxTime
  BY <1>1, <1>2, PastFacts, LedgerAssumption
<1>4. queue' \in Seq(Past') /\ stored' \in Seq(Past') /\ cli' \in Seq(Past')
  BY <1>1, <1>2, <1>3, PastGrows DEF LedgerTypes
<1>5. LedgerTypes'
  BY <1>1, <1>2, <1>3, <1>4 DEF LedgerTypes
<1>6. Starts'
  BY <1>1, <1>2 DEF Starts
<1>7. Snapshot'
  BY <1>1, <1>2, <1>3, SnapshotStays
<1> QED
  BY <1>5, <1>6, <1>7 DEF LedgerInv

LEMMA NextLedgerInv == LedgerInv /\ [Next]_vars => LedgerInv'
<1> SUFFICES ASSUME LedgerInv, [Next]_vars PROVE LedgerInv'
  OBVIOUS
<1>1. CASE UNCHANGED vars
  BY <1>1 DEF LedgerInv, LedgerTypes, Starts, Snapshot, Past
<1> QED
  BY <1>1, BootInv, PersistInv, CrashInv, VenueInv, BookInv, FetchInv, ReconcileInv,
     CliStartInv, ScriptInv, TickInv DEF Next

-----------------------------------------------------------------------------
(* LedgerTypeOK, for the types of AccountLedger's variables and its bounds.*)
THEOREM LedgerTypeCorrect == Spec => []LedgerTypeOK
<1>1. ASSUME LedgerInv PROVE LedgerTypeOK
  <2>1. LedgerTypes /\ Snapshot
    BY <1>1 DEF LedgerInv
  <2>2. Past \subseteq Event /\ now \in Nat
    BY <2>1, PastFacts
  <2>3. /\ \A k \in DOMAIN queue : queue[k] \in Event
        /\ \A k \in DOMAIN stored : stored[k] \in Event
        /\ \A k \in DOMAIN cli : cli[k] \in Event
    BY <2>1, <2>2 DEF LedgerTypes
  <2>4. sync = None \/ DOMAIN sync \subseteq HomeAccounts
    BY <2>1 DEF LedgerTypes
  <2>5. file = None \/ (file.rows \in 0..Len(stored) /\ file.ts \in 0..now)
    BY <2>1 DEF Snapshot
  <2> QED
    BY <2>1, <2>3, <2>4, <2>5 DEF LedgerTypeOK, LedgerTypes, Snapshot
<1> QED
  BY <1>1, InitLedgerInv, NextLedgerInv, PTL DEF Spec

(* RecoveryExactUnlessLate: loading a snapshot and replaying what is       *)
(* younger gives what replaying the whole store gives, unless an event was *)
(* committed late.                                                         *)
THEOREM RecoveryIsExact == Spec => []RecoveryExactUnlessLate
<1>1. ASSUME LedgerInv, file # None, ~Late, Replay(stored).ok
      PROVE  Recovered = Replay(stored)
  <2>1. LedgerTypes /\ Snapshot
    BY <1>1 DEF LedgerInv
  <2>2. stored \in Seq(Row) /\ Len(stored) \in Nat
    BY <2>1, SeqOfPast DEF LedgerTypes
  <2>3. PICK t \in 0..now, m \in 0..Len(stored) :
          file = [ts |-> t, rows |-> m] /\ \A k \in 1..m : stored[k].ts <= t
    BY <1>1, <2>1 DEF Snapshot
  <2>4. file.ts = t /\ file.rows = m /\ t \in Nat /\ m \in Nat
    BY <2>1, <2>2, <2>3, PastFacts
  <2>5. \A k \in (m + 1)..Len(stored) : stored[k].ts > t
    <3>1. \A k \in 1..Len(stored) : k > m => ~(stored[k].ts <= t)
      BY <1>1, <2>2, <2>4 DEF Late
    <3>2. \A k \in 1..Len(stored) : stored[k].ts \in Nat
      BY <2>2, RowFacts
    <3> QED  BY <2>2, <2>4, <3>1, <3>2
  <2> DEFINE old == SubSeq(stored, 1, m)
             x == Read(old, -1)
             y == Read(stored, t)
  <2>6. old \in Seq(Row)
    BY <2>2, <2>3, SubSeqProperties
  <2>7. Read(stored, -1) = x \o y
    BY <2>2, <2>3, <2>4, <2>5, ReadSplits
  <2>8. x \in Seq(Row) /\ y \in Seq(Row)
    <3> HIDE DEF old
    <3>1. t \in Int /\ -1 \in Int  BY <2>4
    <3>2. x \in Seq(Row)  BY <2>6, <3>1, ReadProperties
    <3>3. y \in Seq(Row)  BY <2>2, <3>1, ReadProperties
    <3> QED  BY <3>2, <3>3
  <2>9. Zero \in [Accounts -> Int]
    BY DEF Zero
  <2>10. Recovered = ReplayFrom(ReplayFrom(Zero, x).totals, y)
    BY <2>4 DEF Recovered, Replay
  <2> HIDE DEF x, y
  <2>11. Replay(stored) = ReplayFrom(Zero, x \o y)
    BY <2>7 DEF Replay
  <2> QED
    BY <1>1, <2>8, <2>9, <2>10, <2>11, ReplayJoins
<1>2. LedgerInv => RecoveryExactUnlessLate
  BY <1>1 DEF RecoveryExactUnlessLate
<1> QED
  BY <1>2, InitLedgerInv, NextLedgerInv, PTL DEF Spec

-----------------------------------------------------------------------------
(* One repair: a total that is what the ledger had becomes what the sync   *)
(* was told, and the event that says so adds up.                           *)
Repair(a) == [account |-> a, delta |-> sync[a] - ledger[a], newTotal |-> sync[a], ts |-> now]

(* A repair sets its own account to what the venue said, and no other.    *)
LEMMA OneRepair ==
  ASSUME NEW a \in Accounts, ledger[a] \in Int, sync[a] \in Int,
         NEW r \in Outcome, r.ok, r.totals[a] = ledger[a]
  PROVE  /\ ApplyOne(FALSE, r, Repair(a)) \in Outcome
         /\ ApplyOne(FALSE, r, Repair(a)).ok
         /\ \A b \in Accounts : ApplyOne(FALSE, r, Repair(a)).totals[b] =
                                 IF b = a THEN sync[a] ELSE r.totals[b]
<1> DEFINE e == Repair(a)
           s == ApplyOne(FALSE, r, e)
<1>1. e.account = a /\ e.delta = sync[a] - ledger[a] /\ e.newTotal = sync[a]
  BY DEF Repair
<1>2. r.totals \in [Accounts -> Int] /\ r.ok \in BOOLEAN
  BY DEF Outcome
<1> HIDE DEF e
<1>3. r.totals[a] + (sync[a] - ledger[a]) = sync[a]
  OBVIOUS
<1>4. ~Mismatch(r.totals, e)
  BY <1>1, <1>3 DEF Mismatch
<1> DEFINE t == Reduce(r.totals, e)
<1>5. t = [r.totals EXCEPT ![a] = r.totals[a] + (sync[a] - ledger[a])]
  BY <1>1 DEF Reduce
<1>6. /\ t \in [Accounts -> Int]
      /\ \A b \in Accounts : t[b] = IF b = a THEN sync[a] ELSE r.totals[b]
  BY <1>2, <1>3, <1>5
<1>7. s = [ok |-> r.ok, totals |-> t]
  BY <1>4 DEF ApplyOne
<1> HIDE DEF t, s
<1>8. s.ok = r.ok /\ s.totals = t /\ s \in Outcome
  BY <1>2, <1>6, <1>7 DEF Outcome
<1>9. /\ s \in Outcome /\ s.ok
      /\ \A b \in Accounts : s.totals[b] = IF b = a THEN sync[a] ELSE r.totals[b]
  BY <1>6, <1>8
<1> QED
  BY <1>9 DEF s, e

(* The sequences of events that Reconcile puts together.                  *)
LEMMA JoinFew ==
  ASSUME NEW e, NEW f
  PROVE  /\ << >> \o << >> = << >> /\ << >> \o <<f>> = <<f>>
         /\ <<e>> \o << >> = <<e>> /\ <<e>> \o <<f>> = <<e, f>>
<1> DEFINE S == {e, f}
           x == <<e>>
           y == <<f>>
           z == << >>
<1>1. /\ x \in Seq(S) /\ y \in Seq(S) /\ z \in Seq(S) /\ <<e, f>> \in Seq(S)
      /\ Len(x) = 1 /\ Len(y) = 1 /\ x[1] = e /\ y[1] = f
  OBVIOUS
<1> HIDE DEF S, x, y, z
<1>2. z \o z = z /\ z \o y = y /\ x \o z = x
  BY <1>1, ConcatEmptySeq DEF z
<1>3. x \o y = <<e, f>>
  <2>1. /\ x \o y \in Seq(S) /\ Len(x \o y) = 2
        /\ (x \o y)[1] = e /\ (x \o y)[2] = f
    BY <1>1, ConcatProperties
  <2> DEFINE both == <<e, f>>
  <2>2. both \in Seq(S) /\ Len(both) = 2 /\ both[1] = e /\ both[2] = f
    BY <1>1
  <2> HIDE DEF both
  <2>3. \A i \in 1..Len(x \o y) : (x \o y)[i] = both[i]
    <3>1. \A i \in 1..2 : i = 1 \/ i = 2  OBVIOUS
    <3> QED  BY <2>1, <2>2, <3>1
  <2>4. x \o y = both  BY <2>1, <2>2, <2>3, SeqEqual
  <2> QED  BY <2>4 DEF both
<1> QED
  BY <1>2, <1>3 DEF x, y, z

(* What a sequence of one or two events leaves.                            *)
LEMMA ApplyFew ==
  ASSUME NEW totals, NEW S, NEW e \in S, NEW f \in S
  PROVE  /\ Apply(FALSE, totals, << >>) = Start(totals)
         /\ Apply(FALSE, totals, <<e>>) = ApplyOne(FALSE, Start(totals), e)
         /\ Apply(FALSE, totals, <<e, f>>) =
              ApplyOne(FALSE, ApplyOne(FALSE, Start(totals), e), f)
<1>1. Apply(FALSE, totals, << >>) = Start(totals)
  <2> DEFINE w == << >>
  <2>1. w \in Seq(S) /\ Len(w) = 0  OBVIOUS
  <2> HIDE DEF w
  <2>2. /\ Apply(FALSE, totals, w) = After(FALSE, totals, w, Len(w))
        /\ After(FALSE, totals, w, 0) = Start(totals)
    BY <2>1, ApplyIsAfter
  <2> QED  BY <2>1, <2>2 DEF w
<1>2. Apply(FALSE, totals, <<e>>) = ApplyOne(FALSE, Start(totals), e)
  <2> DEFINE w == <<e>>
  <2>1. w \in Seq(S) /\ Len(w) = 1 /\ w[1] = e  OBVIOUS
  <2> HIDE DEF w
  <2>2. /\ Apply(FALSE, totals, w) = After(FALSE, totals, w, Len(w))
        /\ After(FALSE, totals, w, 0) = Start(totals)
        /\ \A k \in 1..Len(w) : After(FALSE, totals, w, k) = OneMore(FALSE, totals, w, k)
    BY <2>1, ApplyIsAfter
  <2>3. 1 \in 1..Len(w) /\ 1 - 1 = 0  BY <2>1
  <2>4. After(FALSE, totals, w, 1) = ApplyOne(FALSE, Start(totals), e)
    BY <2>1, <2>2, <2>3 DEF OneMore
  <2> QED  BY <2>1, <2>2, <2>4 DEF w
<1>3. Apply(FALSE, totals, <<e, f>>) = ApplyOne(FALSE, ApplyOne(FALSE, Start(totals), e), f)
  <2> DEFINE w == <<e, f>>
  <2>1. w \in Seq(S) /\ Len(w) = 2 /\ w[1] = e /\ w[2] = f  OBVIOUS
  <2> HIDE DEF w
  <2>2. /\ Apply(FALSE, totals, w) = After(FALSE, totals, w, Len(w))
        /\ After(FALSE, totals, w, 0) = Start(totals)
        /\ \A k \in 1..Len(w) : After(FALSE, totals, w, k) = OneMore(FALSE, totals, w, k)
    BY <2>1, ApplyIsAfter
  <2>3. 1 \in 1..Len(w) /\ 2 \in 1..Len(w) /\ 1 - 1 = 0 /\ 2 - 1 = 1  BY <2>1
  <2>4. After(FALSE, totals, w, 1) = ApplyOne(FALSE, Start(totals), e)
    BY <2>1, <2>2, <2>3 DEF OneMore
  <2>5. After(FALSE, totals, w, 2) = ApplyOne(FALSE, After(FALSE, totals, w, 1), f)
    BY <2>1, <2>2, <2>3 DEF OneMore
  <2> QED  BY <2>1, <2>2, <2>4, <2>5 DEF w
<1> QED
  BY <1>1, <1>2, <1>3

(* With an empty cache, reconciling sets every balance of the answer right.*)
LEMMA RepairsAll ==
  ASSUME LedgerTypes, sync # None, mutates, \A a \in HomeAccounts : totalsCache[a] = None
  PROVE  \A a \in DOMAIN sync : Applied(SyncEvents).totals[a] = sync[a]
<1> DEFINE B == HomeBase
           Q == HomeQuote
           T == Applied(SyncEvents).totals
<1>1. PICK D \in SUBSET HomeAccounts : sync \in [D -> Int]
  BY DEF LedgerTypes
<1>2. /\ DOMAIN sync = D /\ D \subseteq {B, Q} /\ B # Q /\ B \in Accounts /\ Q \in Accounts
      /\ ledger \in [Accounts -> Int]
  BY <1>1, LedgerAssumption DEF LedgerTypes
<1>3. \A a \in {B, Q} : currentTotal(a) = ledger[a]
  BY DEF currentTotal
<1>4. Drifted = {a \in D : sync[a] # ledger[a]}
  BY <1>2, <1>3 DEF Drifted
<1>5. SyncEvents = (IF B \notin Drifted THEN << >> ELSE <<Repair(B)>>)
                     \o (IF Q \notin Drifted THEN << >> ELSE <<Repair(Q)>>)
  BY <1>3 DEF SyncEvents, Repair
<1> DEFINE s0 == Start(ledger)
<1>6. s0 \in Outcome /\ s0.ok /\ s0.totals = ledger
  BY <1>2 DEF Start, Outcome
<1> HIDE DEF B, Q, s0
<1>7. \A a \in Accounts : ledger[a] \in Int
  BY <1>2
<1>8. ASSUME B \in Drifted, Q \in Drifted
      PROVE  \A a \in D : T[a] = sync[a]
  <2> DEFINE s1 == ApplyOne(FALSE, s0, Repair(B))
             s2 == ApplyOne(FALSE, s1, Repair(Q))
  <2>1. SyncEvents = <<Repair(B), Repair(Q)>>
    <3>1. SyncEvents = <<Repair(B)>> \o <<Repair(Q)>>  BY <1>5, <1>8
    <3> QED  BY <3>1, JoinFew
  <2>2. sync[B] \in Int /\ sync[Q] \in Int
    BY <1>1, <1>4, <1>8
  <2>3. Applied(SyncEvents) = s2
    <3> DEFINE S == {Repair(B), Repair(Q)}
    <3>1. Repair(B) \in S /\ Repair(Q) \in S  OBVIOUS
    <3> HIDE DEF S
    <3>2. Apply(FALSE, ledger, <<Repair(B), Repair(Q)>>) =
            ApplyOne(FALSE, ApplyOne(FALSE, Start(ledger), Repair(B)), Repair(Q))
      BY <3>1, ApplyFew
    <3> QED  BY <2>1, <3>2 DEF Applied, s0
  <2>4. /\ s1 \in Outcome /\ s1.ok
        /\ \A b \in Accounts : s1.totals[b] = IF b = B THEN sync[B] ELSE ledger[b]
    <3>1. s0.totals[B] = ledger[B] /\ ledger[B] \in Int  BY <1>2, <1>6, <1>7
    <3>2. /\ s1 \in Outcome /\ s1.ok
          /\ \A b \in Accounts : s1.totals[b] = IF b = B THEN sync[B] ELSE s0.totals[b]
      BY <1>2, <1>6, <2>2, <3>1, OneRepair
    <3> HIDE DEF s1
    <3> QED  BY <1>6, <3>2
  <2> HIDE DEF s1
  <2>5. \A b \in Accounts : s2.totals[b] = IF b = Q THEN sync[Q] ELSE s1.totals[b]
    <3>1. s1.totals[Q] = ledger[Q]  BY <1>2, <2>4
    <3> QED  BY <1>2, <1>7, <2>2, <2>4, <3>1, OneRepair
  <2> HIDE DEF s2
  <2> QED  BY <1>2, <2>3, <2>4, <2>5
<1>9. ASSUME NEW a \in {B, Q}, NEW b \in {B, Q}, a # b, a \in Drifted, b \notin Drifted
      PROVE  \A c \in D : T[c] = sync[c]
  <2> DEFINE s1 == ApplyOne(FALSE, s0, Repair(a))
  <2>1. SyncEvents = <<Repair(a)>>
    <3>1. CASE a = B /\ b = Q
      <4>1. SyncEvents = <<Repair(B)>> \o << >>  BY <1>5, <1>9, <3>1
      <4> QED  BY <3>1, <4>1, JoinFew
    <3>2. CASE a = Q /\ b = B
      <4>1. SyncEvents = << >> \o <<Repair(Q)>>  BY <1>5, <1>9, <3>2
      <4> QED  BY <3>2, <4>1, JoinFew
    <3> QED  BY <1>9, <3>1, <3>2
  <2>2. sync[a] \in Int /\ a \in Accounts
    BY <1>1, <1>2, <1>4, <1>9
  <2>3. Applied(SyncEvents) = s1
    <3> DEFINE S == {Repair(a)}
    <3>1. Repair(a) \in S  OBVIOUS
    <3> HIDE DEF S
    <3>2. Apply(FALSE, ledger, <<Repair(a)>>) = ApplyOne(FALSE, Start(ledger), Repair(a))
      BY <3>1, ApplyFew
    <3> QED  BY <2>1, <3>2 DEF Applied, s0
  <2>4. \A c \in Accounts : s1.totals[c] = IF c = a THEN sync[a] ELSE ledger[c]
    <3>1. s0.totals[a] = ledger[a] /\ ledger[a] \in Int  BY <1>6, <1>7, <2>2
    <3>2. \A c \in Accounts : s1.totals[c] = IF c = a THEN sync[a] ELSE s0.totals[c]
      BY <1>6, <2>2, <3>1, OneRepair
    <3> HIDE DEF s1
    <3> QED  BY <1>6, <3>2
  <2> HIDE DEF s1
  <2>5. b \in D => ledger[b] = sync[b]
    BY <1>4, <1>9
  <2> QED  BY <1>2, <1>9, <2>3, <2>4, <2>5
<1>10. ASSUME B \notin Drifted, Q \notin Drifted
       PROVE  \A a \in D : T[a] = sync[a]
  <2>1. SyncEvents = << >>
    BY <1>5, <1>10
  <2>2. Applied(SyncEvents) = s0
    BY <2>1, ApplyFew DEF Applied, s0
  <2>3. \A a \in D : ledger[a] = sync[a]
    BY <1>2, <1>4, <1>10
  <2> QED  BY <1>6, <2>2, <2>3
<1> QED
  BY <1>2, <1>8, <1>9, <1>10

(* FirstSyncRepairs: nothing is cached before the first sync, so it leaves *)
(* the ledger right (balances/syncService.ts, reconcileSnapshot).          *)
THEOREM FirstSyncIsRight == Spec => FirstSyncRepairs
<1> DEFINE Repairs == engine = "starting" /\ engine' = "up" /\ sync # None /\ mutates =>
                        \A a \in DOMAIN sync : ledger'[a] = sync[a]
<1>1. ASSUME LedgerInv, [Next]_vars PROVE [Repairs]_vars
  <2> SUFFICES ASSUME engine = "starting", engine' = "up", sync # None, mutates
               PROVE  \A a \in DOMAIN sync : ledger'[a] = sync[a]
    OBVIOUS
  <2>1. Reconcile
    BY <1>1 DEF Next, Boot, Persist, Crash, VenueFills, BookFill, Fetch, SyncFails,
                CliStart, CliAppend, SnapshotReads, SnapshotWrites, Tick
  <2>2. ledger' = Applied(SyncEvents).totals
    BY <2>1 DEF Reconcile, Emit
  <2>3. LedgerTypes /\ \A a \in HomeAccounts : totalsCache[a] = None
    BY <1>1 DEF LedgerInv, Starts
  <2> QED  BY <2>2, <2>3, RepairsAll
<1> QED
  BY <1>1, InitLedgerInv, NextLedgerInv, PTL DEF Spec, FirstSyncRepairs

-----------------------------------------------------------------------------
(* What can stop a replay, as long as no CLI command has written to the    *)
(* store: a stale repair.                                                  *)
StaleAt(rows, k) ==
  /\ rows[k].newTotal # None
  /\ \E i, j \in 1..(k - 1) :
       /\ i < j
       /\ rows[i].account = rows[k].account /\ rows[i].newTotal # None
       /\ rows[j].account = rows[k].account /\ rows[j].newTotal = None

Run(rows, k) == After(TRUE, Zero, rows, k)

Ordered(rows) == \A i, j \in 1..Len(rows) : i < j => rows[i].ts <= rows[j].ts

Broken(rows) == \E m \in 1..Len(rows) : StaleAt(rows, m)

Explained(rows) ==
  \A k \in 0..Len(rows) : Run(rows, k).ok \/ \E m \in 1..k : StaleAt(rows, m)

Matches(rows, totals) == Run(rows, Len(rows)) = Start(totals)

(* An event that may come next, and that throws only when it is stale.     *)
Later(rows, e) == \A i \in 1..Len(rows) : rows[i].ts <= e.ts

Covered(rows, totals, e) ==
  Mismatch(totals, e) => StaleAt(Append(rows, e), Len(rows) + 1)

(* What is known of the rows once the live account state has come to an    *)
(* outcome by the last of them.                                            *)
Told(rows, outcome) ==
  /\ Ordered(rows) /\ Explained(rows)
  /\ outcome.ok => Matches(rows, outcome.totals)
  /\ ~outcome.ok => Broken(rows)

(* Whether a row is stale depends on the rows before it.                   *)
LEMMA StaleStays ==
  ASSUME NEW x \in Seq(Row), NEW y \in Seq(Row), NEW n \in Nat,
         \A i \in 1..n : x[i] = y[i]
  PROVE  \A k \in 1..n : StaleAt(x, k) => StaleAt(y, k)
<1> SUFFICES ASSUME NEW k \in 1..n, StaleAt(x, k) PROVE StaleAt(y, k)
  OBVIOUS
<1>1. PICK i, j \in 1..(k - 1) :
        /\ i < j
        /\ x[i].account = x[k].account /\ x[i].newTotal # None
        /\ x[j].account = x[k].account /\ x[j].newTotal = None
  BY DEF StaleAt
<1>2. i \in 1..n /\ j \in 1..n
  OBVIOUS
<1>3. x[i] = y[i] /\ x[j] = y[j] /\ x[k] = y[k]
  BY <1>2
<1>4. y[k].newTotal # None
  BY <1>3 DEF StaleAt
<1> QED
  BY <1>1, <1>3, <1>4 DEF StaleAt

LEMMA AppendRow ==
  ASSUME NEW rows \in Seq(Row), NEW e \in Row
  PROVE  LET n == Len(rows)
             all == Append(rows, e)
         IN /\ n \in Nat /\ all \in Seq(Row) /\ Len(all) = n + 1 /\ all[n + 1] = e
            /\ \A i \in 1..n : all[i] = rows[i]
            /\ Run(all, n + 1) = ApplyOne(TRUE, Run(rows, n), e)
            /\ \A k \in 0..n : Run(all, k) = Run(rows, k)
            /\ \A k \in 1..n : StaleAt(rows, k) => StaleAt(all, k)
<1> DEFINE n == Len(rows)
           all == Append(rows, e)
           t == TRUE
<1>1. /\ n \in Nat /\ all \in Seq(Row) /\ Len(all) = n + 1 /\ all[n + 1] = e
      /\ \A i \in 1..n : all[i] = rows[i]
  BY AppendProperties
<1> HIDE DEF all, t, n
<1>2. n <= Len(rows) /\ n <= Len(all)
  BY <1>1 DEF n
<1>3. \A k \in 0..n : After(t, Zero, all, k) = After(t, Zero, rows, k)
  BY <1>1, <1>2, AfterPrefix
<1>4. \A k \in 1..n : StaleAt(rows, k) => StaleAt(all, k)
  BY <1>1, StaleStays
<1>5. After(t, Zero, all, n + 1) = ApplyOne(t, After(t, Zero, all, n), e)
  <2>1. \A k \in 1..Len(all) : After(t, Zero, all, k) = OneMore(t, Zero, all, k)
    BY <1>1, ApplyIsAfter
  <2>2. n + 1 \in 1..Len(all) /\ (n + 1) - 1 = n
    BY <1>1
  <2> QED  BY <1>1, <2>1, <2>2 DEF OneMore
<1>6. n \in 0..n
  BY <1>1
<1> QED
  BY <1>1, <1>3, <1>4, <1>5, <1>6 DEF Run, all, t, n

(* One more row keeps the order, and everything explained if it adds up or *)
(* there is a stale row to blame.                                          *)
LEMMA OrderGrows ==
  ASSUME NEW rows \in Seq(Row), NEW e \in Row, Ordered(rows), Later(rows, e)
  PROVE  Ordered(Append(rows, e))
<1> DEFINE n == Len(rows)
           all == Append(rows, e)
<1>1. /\ n \in Nat /\ Len(all) = n + 1 /\ all[n + 1] = e
      /\ \A i \in 1..n : all[i] = rows[i]
  BY AppendRow
<1> HIDE DEF n, all
<1>2. ASSUME NEW i \in 1..Len(all), NEW j \in 1..Len(all), i < j
      PROVE  all[i].ts <= all[j].ts
  <2>1. i \in 1..n /\ (j \in 1..n \/ j = n + 1)
    BY <1>1, <1>2
  <2>2. CASE j \in 1..n
    BY <1>1, <1>2, <2>1, <2>2 DEF Ordered, n
  <2>3. CASE j = n + 1
    BY <1>1, <2>1, <2>3 DEF Later, n
  <2> QED  BY <2>1, <2>2, <2>3
<1> QED
  BY <1>2 DEF Ordered, all

LEMMA ExplainedGrows ==
  ASSUME NEW rows \in Seq(Row), NEW e \in Row, Explained(rows),
         \/ Run(Append(rows, e), Len(rows) + 1).ok
         \/ StaleAt(Append(rows, e), Len(rows) + 1)
         \/ Broken(rows)
  PROVE  /\ Explained(Append(rows, e))
         /\ Broken(rows) => Broken(Append(rows, e))
<1> DEFINE n == Len(rows)
           all == Append(rows, e)
<1>1. /\ n \in Nat /\ Len(all) = n + 1
      /\ \A k \in 0..n : Run(all, k) = Run(rows, k)
      /\ \A k \in 1..n : StaleAt(rows, k) => StaleAt(all, k)
  BY AppendRow
<1> HIDE DEF n, all
<1>2. Broken(rows) => \E m \in 1..n : StaleAt(all, m)
  BY <1>1 DEF Broken, n
<1>3. ASSUME NEW k \in 0..Len(all)
      PROVE  Run(all, k).ok \/ \E m \in 1..k : StaleAt(all, m)
  <2>1. k \in 0..n \/ k = n + 1
    BY <1>1
  <2>2. CASE k \in 0..n
    <3>1. Run(rows, k).ok \/ \E m \in 1..k : StaleAt(rows, m)
      BY <2>2 DEF Explained, n
    <3>2. \A m \in 1..k : m \in 1..n
      BY <1>1, <2>2
    <3> QED  BY <1>1, <2>2, <3>1, <3>2
  <2>3. CASE k = n + 1
    <3>1. \/ Run(all, n + 1).ok \/ StaleAt(all, n + 1) \/ Broken(rows)
      BY DEF all, n
    <3>2. n + 1 \in 1..k /\ \A m \in 1..n : m \in 1..k
      BY <1>1, <2>3
    <3> QED  BY <1>2, <2>3, <3>1, <3>2
  <2> QED  BY <2>1, <2>2, <2>3
<1>4. Broken(rows) => Broken(all)
  <2>1. \A m \in 1..n : m \in 1..Len(all)
    BY <1>1
  <2> QED  BY <1>2, <2>1 DEF Broken
<1> QED
  BY <1>3, <1>4 DEF Explained, all

LEMMA OneEvent ==
  ASSUME NEW rows \in Seq(Row), NEW totals \in [Accounts -> Int], NEW e \in Row,
         Ordered(rows), Explained(rows), Matches(rows, totals),
         Later(rows, e), Covered(rows, totals, e)
  PROVE  Told(Append(rows, e), ApplyOne(FALSE, Start(totals), e))
<1> DEFINE n == Len(rows)
           all == Append(rows, e)
           outcome == ApplyOne(FALSE, Start(totals), e)
<1>1. /\ n \in Nat /\ Len(all) = n + 1
      /\ Run(all, n + 1) = ApplyOne(TRUE, Start(totals), e)
  BY AppendRow DEF Matches
<1>2. Ordered(all)
  BY OrderGrows
<1>3. CASE ~Mismatch(totals, e)
  <2>1. /\ ApplyOne(TRUE, Start(totals), e) = Start(Reduce(totals, e))
        /\ outcome = Start(Reduce(totals, e))
    BY <1>3 DEF ApplyOne, Start
  <2>2. Start(Reduce(totals, e)).ok /\ Start(Reduce(totals, e)).totals = Reduce(totals, e)
    BY DEF Start
  <2>3. Explained(all)
    BY <1>1, <2>1, <2>2, ExplainedGrows
  <2>4. Told(all, outcome)
    <3> HIDE DEF all, outcome, n
    <3>1. outcome.ok /\ outcome.totals = Reduce(totals, e)
      BY <2>1, <2>2
    <3>2. Matches(all, outcome.totals)
      BY <1>1, <2>1, <3>1 DEF Matches
    <3> QED  BY <1>2, <2>3, <3>1, <3>2 DEF Told
  <2> QED  BY <2>4
<1>4. CASE Mismatch(totals, e)
  <2>1. outcome = [ok |-> FALSE, totals |-> totals]
    BY <1>4 DEF ApplyOne, Start
  <2>2. ~outcome.ok
    <3> HIDE DEF outcome
    <3> QED  BY <2>1
  <2>3. StaleAt(all, n + 1)
    BY <1>4 DEF Covered
  <2>4. Explained(all)
    BY <2>3, ExplainedGrows
  <2>5. Broken(all)
    <3> HIDE DEF all, n
    <3>1. n + 1 \in 1..Len(all)  BY <1>1
    <3> QED  BY <2>3, <3>1 DEF Broken
  <2>6. Told(all, outcome)
    <3> HIDE DEF all, outcome
    <3> QED  BY <1>2, <2>2, <2>4, <2>5 DEF Told
  <2> QED  BY <2>6
<1> QED
  BY <1>3, <1>4

LEMMA TwoEvents ==
  ASSUME NEW rows \in Seq(Row), NEW totals \in [Accounts -> Int],
         NEW e \in Row, NEW f \in Row, e.account # f.account, e.ts <= f.ts,
         Ordered(rows), Explained(rows), Matches(rows, totals),
         Later(rows, e), Later(rows, f),
         Covered(rows, totals, e), Covered(rows, totals, f)
  PROVE  Told(Append(Append(rows, e), f),
              ApplyOne(FALSE, ApplyOne(FALSE, Start(totals), e), f))
<1> DEFINE n == Len(rows)
           one == Append(rows, e)
           first == ApplyOne(FALSE, Start(totals), e)
<1>1. /\ n \in Nat /\ one \in Seq(Row) /\ Len(one) = n + 1 /\ one[n + 1] = e
      /\ \A i \in 1..n : one[i] = rows[i]
  BY AppendRow
<1>2. Told(one, first)
  BY OneEvent
<1>3. Later(one, f)
  <2> HIDE DEF one, n
  <2>1. ASSUME NEW i \in 1..Len(one) PROVE one[i].ts <= f.ts
    <3>1. i \in 1..n \/ i = n + 1  BY <1>1
    <3> QED  BY <1>1, <3>1 DEF Later, n
  <2> QED  BY <2>1 DEF Later
<1>4. CASE Mismatch(totals, e)
  <2>1. first = [ok |-> FALSE, totals |-> totals]
    BY <1>4 DEF ApplyOne, Start
  <2>2. ~first.ok /\ ~ApplyOne(FALSE, first, f).ok
    BY <2>1 DEF ApplyOne
  <2> HIDE DEF one, first
  <2>3. Ordered(one) /\ Explained(one) /\ Broken(one)
    BY <1>2, <2>2 DEF Told
  <2>4. Ordered(Append(one, f)) /\ Explained(Append(one, f)) /\ Broken(Append(one, f))
    BY <1>1, <1>3, <2>3, OrderGrows, ExplainedGrows
  <2> QED  BY <2>2, <2>4 DEF Told, one, first
<1>5. CASE ~Mismatch(totals, e)
  <2> DEFINE then == Reduce(totals, e)
  <2>1. first = Start(then)
    BY <1>5 DEF ApplyOne, Start
  <2>2. first.ok /\ first.totals = then
    <3> HIDE DEF first, then
    <3> QED  BY <2>1 DEF Start
  <2>3. then \in [Accounts -> Int] /\ \A a \in Accounts : a # e.account => then[a] = totals[a]
    BY DEF Reduce, Row
  <2>4. Mismatch(then, f) => Mismatch(totals, f)
    <3>1. f.account \in Accounts  BY DEF Row
    <3> HIDE DEF then
    <3> QED  BY <2>3, <3>1 DEF Mismatch
  <2>5. Covered(one, then, f)
    <3> SUFFICES ASSUME Mismatch(then, f) PROVE StaleAt(Append(one, f), Len(one) + 1)
      BY DEF Covered
    <3> DEFINE x == Append(rows, f)
               y == Append(one, f)
    <3>1. StaleAt(x, n + 1)
      BY <2>4 DEF Covered
    <3> HIDE DEF then
    <3>2. /\ x[n + 1] = f /\ \A i \in 1..n : x[i] = rows[i]
      BY AppendRow
    <3> HIDE DEF x, one
    <3>3. /\ y[n + 2] = f /\ \A i \in 1..(n + 1) : y[i] = one[i]
      <4>1. y[Len(one) + 1] = f /\ \A i \in 1..Len(one) : y[i] = one[i]
        BY <1>1, AppendRow
      <4>2. Len(one) + 1 = n + 2  BY <1>1
      <4> QED  BY <1>1, <4>1, <4>2
    <3> HIDE DEF y, n
    <3>4. \A i \in 1..n : i \in 1..(n + 1) /\ y[i] = x[i]
      BY <1>1, <3>2, <3>3
    <3>5. PICK i, j \in 1..n :
            /\ i < j /\ f.newTotal # None
            /\ x[i].account = f.account /\ x[i].newTotal # None
            /\ x[j].account = f.account /\ x[j].newTotal = None
      <4>1. (n + 1) - 1 = n  BY <1>1
      <4> QED  BY <3>1, <3>2, <4>1 DEF StaleAt
    <3>6. i \in 1..((n + 2) - 1) /\ j \in 1..((n + 2) - 1)
      BY <1>1
    <3>7. StaleAt(y, n + 2)
      BY <3>3, <3>4, <3>5, <3>6 DEF StaleAt
    <3>8. Len(one) + 1 = n + 2  BY <1>1
    <3> QED  BY <3>7, <3>8 DEF y
  <2> HIDE DEF one, first, then
  <2>6. Ordered(one) /\ Explained(one) /\ Matches(one, then)
    BY <1>2, <2>2 DEF Told
  <2>7. Told(Append(one, f), ApplyOne(FALSE, Start(then), f))
    BY <1>1, <1>3, <2>3, <2>5, <2>6, OneEvent
  <2> QED  BY <2>1, <2>7 DEF one, first
<1> QED
  BY <1>4, <1>5

(* A store in order of time is read as it is.                              *)
LEMMA ReadInOrder ==
  ASSUME NEW rows \in Seq(Row), Ordered(rows)
  PROVE  Read(rows, -1) = rows
<1> DEFINE n == Len(rows)
           X == Read(rows, -1)
<1>1. n \in Nat /\ \A i \in 1..n : rows[i].ts \in Nat /\ i \in Nat
  BY RowFacts
<1>2. Young(rows, -1) = 1..n
  BY <1>1 DEF Young
<1>3. ASSUME NEW i \in 1..n PROVE Place(rows, 1..n, i) = i
  <2>1. {j \in 1..n : Before(rows, j, i)} = 1..(i - 1)
    <3>1. ASSUME NEW j \in 1..n PROVE Before(rows, j, i) <=> j < i
      <4>1. /\ j < i => rows[j].ts <= rows[i].ts
            /\ i < j => rows[i].ts <= rows[j].ts
            /\ rows[i].ts \in Nat /\ rows[j].ts \in Nat
        BY <1>1 DEF Ordered
      <4> QED  BY <1>1, <4>1 DEF Before
    <3> HIDE DEF n
    <3> QED  BY <1>1, <3>1
  <2>2. i - 1 \in Nat
    BY <1>1
  <2>3. Cardinality(1..(i - 1)) = i - 1
    BY <2>2, FirstNumbers
  <2>4. Place(rows, 1..n, i) = Cardinality(1..(i - 1)) + 1
    BY <2>1 DEF Place
  <2> QED  BY <2>2, <2>3, <2>4
<1>4. /\ X \in Seq(Row) /\ Len(X) = n
      /\ \A k \in 1..n : \E i \in 1..n : Place(rows, 1..n, i) = k /\ X[k] = rows[i]
  <2>1. -1 \in Int
    OBVIOUS
  <2>2. Cardinality(1..n) = n
    BY <1>1, FirstNumbers
  <2> HIDE DEF n
  <2> QED  BY <1>2, <2>1, <2>2, ReadProperties
<1>5. \A k \in 1..n : X[k] = rows[k]
  BY <1>3, <1>4
<1> HIDE DEF X
<1>6. X = rows
  BY <1>4, <1>5, SeqEqual
<1> QED
  BY <1>6 DEF X

(* How an account has come to be cached: by a repair, after which it may   *)
(* have moved.                                                             *)
RepairOf(rows, a, i) == rows[i].account = a /\ rows[i].newTotal # None
MoveOf(rows, a, j) == rows[j].account = a /\ rows[j].newTotal = None

Repaired(rows, a) == \E i \in 1..Len(rows) : RepairOf(rows, a, i)
MovedSince(rows, a) ==
  \E i, j \in 1..Len(rows) : i < j /\ RepairOf(rows, a, i) /\ MoveOf(rows, a, j)

LEMMA HistoryGrows ==
  ASSUME NEW rows \in Seq(Row), NEW e \in Row, NEW a
  PROVE  LET all == Append(rows, e)
         IN /\ Repaired(rows, a) => Repaired(all, a)
            /\ MovedSince(rows, a) => MovedSince(all, a)
            /\ e.account = a /\ e.newTotal # None => Repaired(all, a)
            /\ Repaired(rows, a) /\ e.account = a /\ e.newTotal = None => MovedSince(all, a)
            /\ MovedSince(rows, a) /\ e.account = a /\ e.newTotal # None =>
                 StaleAt(all, Len(rows) + 1)
<1> DEFINE n == Len(rows)
           all == Append(rows, e)
<1>1. /\ n \in Nat /\ Len(all) = n + 1 /\ all[n + 1] = e
      /\ \A i \in 1..n : all[i] = rows[i]
  BY AppendRow
<1> HIDE DEF n, all
<1>2. \A i \in 1..n : i \in 1..(n + 1) /\ i < n + 1 /\ i \in 1..((n + 1) - 1)
  BY <1>1
<1>3. n + 1 \in 1..(n + 1)
  BY <1>1
<1>4. \A i \in 1..n : /\ RepairOf(rows, a, i) <=> RepairOf(all, a, i)
                      /\ MoveOf(rows, a, i) <=> MoveOf(all, a, i)
  BY <1>1 DEF RepairOf, MoveOf
<1>5. Repaired(rows, a) => Repaired(all, a)
  BY <1>1, <1>2, <1>4 DEF Repaired, n
<1>6. MovedSince(rows, a) => MovedSince(all, a)
  BY <1>1, <1>2, <1>4 DEF MovedSince, n
<1>7. e.account = a /\ e.newTotal # None => Repaired(all, a)
  BY <1>1, <1>3 DEF Repaired, RepairOf
<1>8. Repaired(rows, a) /\ e.account = a /\ e.newTotal = None => MovedSince(all, a)
  <2> SUFFICES ASSUME Repaired(rows, a), e.account = a, e.newTotal = None
               PROVE  MovedSince(all, a)
    OBVIOUS
  <2>1. PICK i \in 1..n : RepairOf(rows, a, i)
    BY DEF Repaired, n
  <2>2. MoveOf(all, a, n + 1)
    BY <1>1 DEF MoveOf
  <2> QED  BY <1>1, <1>2, <1>3, <1>4, <2>1, <2>2 DEF MovedSince
<1>9. MovedSince(rows, a) /\ e.account = a /\ e.newTotal # None => StaleAt(all, n + 1)
  <2> SUFFICES ASSUME MovedSince(rows, a), e.account = a, e.newTotal # None
               PROVE  StaleAt(all, n + 1)
    OBVIOUS
  <2>1. PICK i, j \in 1..n : i < j /\ RepairOf(rows, a, i) /\ MoveOf(rows, a, j)
    BY DEF MovedSince, n
  <2>2. /\ i \in 1..((n + 1) - 1) /\ j \in 1..((n + 1) - 1)
        /\ RepairOf(all, a, i) /\ MoveOf(all, a, j)
    BY <1>2, <1>4, <2>1
  <2> QED  BY <1>1, <2>1, <2>2 DEF StaleAt, RepairOf, MoveOf
<1> QED
  BY <1>5, <1>6, <1>7, <1>8, <1>9 DEF n, all

(* The events on their way to the store are rows after those it holds.     *)
LEMMA JoinRows ==
  ASSUME NEW s \in Seq(Row), NEW q \in Seq(Row), NEW e \in Row, NEW f \in Row
  PROVE  /\ s \o << >> = s
         /\ s \o (q \o << >>) = s \o q
         /\ s \o (q \o <<e>>) = Append(s \o q, e)
         /\ q # << >> => Append(s, Head(q)) \o Tail(q) = s \o q
<1>1. s \o << >> = s /\ s \o (q \o << >>) = s \o q
  BY ConcatEmptySeq
<1>2. /\ s \o q \in Seq(Row) /\ Len(s \o q) = Len(s) + Len(q)
      /\ \A i \in 1..Len(s) : (s \o q)[i] = s[i]
      /\ \A i \in 1..Len(q) : (s \o q)[Len(s) + i] = q[i]
      /\ Len(s) \in Nat /\ Len(q) \in Nat
  BY ConcatProperties
<1>3. s \o (q \o <<e>>) = Append(s \o q, e)
  OBVIOUS
<1>4. ASSUME q # << >> PROVE Append(s, Head(q)) \o Tail(q) = s \o q
  <2> DEFINE h == Head(q)
             t == Tail(q)
             z == <<h>> \o t
  <2>1. h \in Row /\ h = q[1] /\ t \in Seq(Row) /\ Len(t) = Len(q) - 1 /\ Len(q) >= 1
        /\ \A i \in 1..Len(t) : t[i] = q[i + 1]
    BY <1>4, HeadTailProperties
  <2>2. Append(s, h) \o t = s \o z
    <3> HIDE DEF h, t
    <3> QED  BY <2>1
  <2>3. z = q
    <3> HIDE DEF h, t
    <3>1. <<h>> \in Seq(Row) /\ Len(<<h>>) = 1 /\ <<h>>[1] = h
      BY <2>1
    <3>2. /\ z \in Seq(Row) /\ Len(z) = 1 + Len(t) /\ z[1] = h
          /\ \A i \in 1..Len(t) : z[1 + i] = t[i]
      BY <2>1, <3>1, ConcatProperties
    <3> HIDE DEF z
    <3>3. Len(z) = Len(q)
      BY <1>2, <2>1, <3>2
    <3>4. ASSUME NEW i \in 1..Len(z) PROVE z[i] = q[i]
      <4>1. i = 1 \/ (i - 1 \in 1..Len(t) /\ 1 + (i - 1) = i /\ (i - 1) + 1 = i)
        BY <1>2, <2>1, <3>2
      <4> QED  BY <2>1, <3>2, <4>1
    <3> QED  BY <3>2, <3>3, <3>4, SeqEqual
  <2> QED  BY <2>2, <2>3
<1> QED
  BY <1>1, <1>3, <1>4

(* The strengthening.  A running engine's account state is what a replay   *)
(* of all its rows, stored or queued, would give; a cached account has been*)
(* repaired, and is where the cache says unless it has moved since; and a  *)
(* prefix of the rows that does not replay holds a stale repair.           *)
All == stored \o queue

CacheKnown ==
  \A a \in HomeAccounts : totalsCache[a] # None =>
    Repaired(All, a) /\ (totalsCache[a] = ledger[a] \/ MovedSince(All, a))

Books ==
  /\ Ordered(All) /\ Explained(All)
  /\ engine \in {"starting", "up"} => Matches(All, ledger) /\ CacheKnown
  /\ engine \in {"dying", "failed"} => Broken(All)

BooksInv == cliRows = {} => Books

LEMMA AllRows ==
  ASSUME LedgerTypes
  PROVE  /\ stored \in Seq(Row) /\ queue \in Seq(Row) /\ All \in Seq(Row)
         /\ Len(stored) \in Nat /\ Len(queue) \in Nat /\ Len(All) = Len(stored) + Len(queue)
         /\ \A i \in 1..Len(stored) : All[i] = stored[i]
         /\ \A a \in Accounts, d \in Int : Later(All, Adjusted(a, d, now))
<1>1. stored \in Seq(Past) /\ queue \in Seq(Past)
  BY DEF LedgerTypes
<1>2. stored \in Seq(Row) /\ queue \in Seq(Row) /\ Len(stored) \in Nat /\ Len(queue) \in Nat
  BY <1>1, SeqOfPast
<1>3. /\ All \in Seq(Row) /\ Len(All) = Len(stored) + Len(queue)
      /\ \A i \in 1..Len(stored) : All[i] = stored[i]
  BY <1>2, ConcatProperties DEF All
<1>4. All \in Seq(Past)
  BY <1>1, ConcatProperties DEF All
<1>5. \A i \in 1..Len(All) : All[i].ts <= now
  <2>1. \A e \in Past : e.ts <= now  BY PastFacts DEF Past
  <2> QED  BY <1>4, <2>1
<1>6. \A a \in Accounts, d \in Int : Later(All, Adjusted(a, d, now))
  BY <1>5 DEF Later, Adjusted
<1> QED
  BY <1>2, <1>3, <1>6

(* Replay of a store in order of time is a run through its rows.           *)
LEMMA ReplayIsRun ==
  ASSUME LedgerTypes, Ordered(All), Explained(All)
  PROVE  /\ Replay(stored) = Run(stored, Len(stored))
         /\ Ordered(stored) /\ Explained(stored)
         /\ Broken(stored) => Broken(All)
<1> DEFINE n == Len(stored)
<1>1. /\ stored \in Seq(Row) /\ All \in Seq(Row) /\ n \in Nat /\ n <= Len(All)
      /\ Len(All) \in Nat /\ \A i \in 1..n : All[i] = stored[i]
  BY AllRows
<1>2. \A i \in 1..n : i \in 1..Len(All)
  BY <1>1
<1> HIDE DEF All, n
<1>3. Ordered(stored)
  BY <1>1, <1>2 DEF Ordered, n
<1>4. /\ \A k \in 1..n : StaleAt(All, k) => StaleAt(stored, k)
      /\ \A k \in 1..n : StaleAt(stored, k) => StaleAt(All, k)
  BY <1>1, StaleStays
<1>5. \A k \in 0..n : Run(All, k) = Run(stored, k)
  <2> DEFINE t == TRUE
  <2> HIDE DEF t
  <2>1. n <= Len(stored)  BY <1>1 DEF n
  <2>2. \A k \in 0..n : After(t, Zero, All, k) = After(t, Zero, stored, k)
    BY <1>1, <2>1, AfterPrefix
  <2> QED  BY <2>2 DEF Run, t
<1>6. Explained(stored)
  <2>1. ASSUME NEW k \in 0..n PROVE Run(stored, k).ok \/ \E m \in 1..k : StaleAt(stored, m)
    <3>1. k \in 0..Len(All) /\ \A m \in 1..k : m \in 1..n  BY <1>1
    <3>2. Run(All, k).ok \/ \E m \in 1..k : StaleAt(All, m)
      BY <3>1 DEF Explained
    <3> QED  BY <1>4, <1>5, <3>1, <3>2
  <2> QED  BY <2>1 DEF Explained, n
<1>7. Broken(stored) => Broken(All)
  BY <1>2, <1>4 DEF Broken, n
<1>8. Replay(stored) = Run(stored, n)
  <2> DEFINE t == TRUE
  <2>1. Replay(stored) = Apply(t, Zero, stored)
    BY <1>1, <1>3, ReadInOrder DEF Replay, ReplayFrom
  <2> HIDE DEF t
  <2>2. Apply(t, Zero, stored) = After(t, Zero, stored, n)
    BY <1>1, ApplyIsAfter DEF n
  <2> QED  BY <2>1, <2>2 DEF Run, t
<1> QED
  BY <1>3, <1>6, <1>7, <1>8 DEF n

(* Books only speaks of these variables.                                   *)
LEMMA BooksStay ==
  ASSUME BooksInv, All' = All, UNCHANGED <<ledger, totalsCache, cliRows>>,
         \/ engine' = engine
         \/ engine \in {"starting", "up"} /\ engine' = "up"
  PROVE  BooksInv'
<1> SUFFICES ASSUME cliRows = {} PROVE Books'
  BY DEF BooksInv
<1>1. Books
  BY DEF BooksInv
<1> HIDE DEF All
<1> QED
  BY <1>1 DEF Books, CacheKnown

LEMMA InitBooks == Init => BooksInv
<1> SUFFICES ASSUME Init PROVE Books
  BY DEF BooksInv
<1>1. LedgerInv
  BY InitLedgerInv
<1>2. All \in Seq(Row) /\ Len(All) = 0
  BY <1>1, AllRows DEF LedgerInv, Init
<1>3. Run(All, 0).ok
  <2> DEFINE t == TRUE
  <2> HIDE DEF t
  <2>1. After(t, Zero, All, 0) = Start(Zero)
    BY <1>2, ApplyIsAfter
  <2>2. Start(Zero).ok  BY DEF Start
  <2> QED  BY <2>1, <2>2 DEF Run, t
<1> HIDE DEF All
<1>4. Ordered(All) /\ Explained(All)
  BY <1>2, <1>3 DEF Ordered, Explained
<1> QED
  BY <1>4 DEF Books, Init

LEMMA BootBooks == LedgerInv /\ BooksInv /\ Boot => BooksInv'
<1> SUFFICES ASSUME LedgerInv, BooksInv, Boot, cliRows' = {} PROVE Books'
  BY DEF BooksInv
<1> DEFINE deposit == Adjusted(HomeQuote, Seed, now)
           replay == Replay(stored)
<1>1. LedgerTypes /\ queue = << >> /\ (\A a \in HomeAccounts : totalsCache[a] = None)
      /\ UNCHANGED <<queue, totalsCache, cliRows>>
  BY DEF LedgerInv, Starts, Boot
<1>2. Ordered(All) /\ Explained(All)
  BY <1>1 DEF BooksInv, Books
<1>3. stored \in Seq(Row) /\ All = stored
  <2>1. stored \in Seq(Row)  BY <1>1, AllRows
  <2> QED  BY <1>1, <2>1, ConcatEmptySeq DEF All
<1>4. /\ replay = Run(stored, Len(stored)) /\ replay \in Outcome
      /\ Ordered(stored) /\ Explained(stored)
  BY <1>1, <1>2, ReplayIsRun, ReplayType
<1>5. CacheKnown'
  BY <1>1 DEF CacheKnown
<1>6. CASE UNCHANGED stored /\ ~replay.ok /\ engine' = "failed"
  <2>1. All' = stored
    BY <1>1, <1>3, <1>6 DEF All
  <2>2. Broken(stored)
    <3>1. Len(stored) \in 0..Len(stored)
      BY <1>3
    <3> HIDE DEF replay
    <3> QED  BY <1>4, <1>6, <3>1 DEF Explained, Broken
  <2> QED  BY <1>4, <1>6, <2>1, <2>2 DEF Books
<1>7. ASSUME replay.ok PROVE Matches(stored, replay.totals)
  <2> HIDE DEF replay
  <2>1. replay = Start(replay.totals)
    BY <1>4, <1>7 DEF Outcome, Start
  <2> QED  BY <1>4, <2>1 DEF Matches
<1>8. CASE UNCHANGED stored /\ replay.ok /\ engine' = "starting" /\ ledger' = replay.totals
  <2>1. All' = stored
    BY <1>1, <1>3, <1>8 DEF All
  <2>2. Matches(stored, ledger')
    BY <1>7, <1>8
  <2> QED  BY <1>4, <1>5, <1>8, <2>1, <2>2 DEF Books
<1>9. CASE /\ replay.ok /\ engine' = "starting" /\ stored' = Append(stored, deposit)
           /\ ledger' = Reduce(replay.totals, deposit)
  <2> DEFINE rows == Append(stored, deposit)
             next == Reduce(replay.totals, deposit)
  <2>1. deposit \in Row /\ Later(stored, deposit) /\ deposit.newTotal = None
    <3>1. HomeQuote \in Accounts /\ Seed \in Int  BY LedgerAssumption
    <3>2. deposit \in Past /\ Past \subseteq Row  BY <1>1, <3>1, PastFacts
    <3>3. Later(All, deposit)  BY <1>1, <3>1, AllRows
    <3> QED  BY <1>3, <3>2, <3>3 DEF Adjusted
  <2>2. Covered(stored, replay.totals, deposit) /\ ~Mismatch(replay.totals, deposit)
    BY <2>1 DEF Covered, Mismatch
  <2>3. replay.totals \in [Accounts -> Int] /\ Matches(stored, replay.totals)
    BY <1>4, <1>7, <1>9 DEF Outcome
  <2> HIDE DEF deposit, replay
  <2>4. Told(rows, ApplyOne(FALSE, Start(replay.totals), deposit))
    BY <1>3, <1>4, <2>1, <2>2, <2>3, OneEvent
  <2>5. ApplyOne(FALSE, Start(replay.totals), deposit) = Start(next)
    BY <2>2 DEF ApplyOne, Start
  <2> HIDE DEF next
  <2>6. Start(next).ok /\ Start(next).totals = next
    BY DEF Start
  <2>7. Ordered(rows) /\ Explained(rows) /\ Matches(rows, next)
    BY <2>4, <2>5, <2>6 DEF Told
  <2>8. rows \in Seq(Row)
    BY <1>3, <2>1, AppendProperties
  <2>9. All' = rows
    <3>1. stored' = rows /\ queue' = << >>  BY <1>1, <1>9
    <3> HIDE DEF rows
    <3> QED  BY <2>8, <3>1, ConcatEmptySeq DEF All
  <2> HIDE DEF rows
  <2>10. ledger' = next  BY <1>9 DEF next
  <2> QED  BY <1>5, <1>9, <2>7, <2>9, <2>10 DEF Books
<1> QED
  BY <1>6, <1>8, <1>9 DEF Boot

LEMMA PersistBooks == LedgerInv /\ BooksInv /\ (Persist \/ CliAppend) => BooksInv'
<1> SUFFICES ASSUME LedgerInv, BooksInv, Persist \/ CliAppend PROVE BooksInv'
  OBVIOUS
<1>1. stored \in Seq(Row) /\ queue \in Seq(Row)
  BY AllRows DEF LedgerInv
<1>2. CASE Persist
  <2>1. All' = All
    <3>1. /\ queue # << >> /\ stored' = Append(stored, Head(queue))
          /\ queue' = Tail(queue)
      BY <1>2 DEF Persist
    <3>2. Head(queue) \in Row
      BY <1>1, <3>1, HeadTailProperties
    <3> QED  BY <1>1, <3>1, <3>2, JoinRows DEF All
  <2> QED  BY <1>2, <2>1, BooksStay DEF Persist
<1>3. CASE CliAppend
  BY <1>3 DEF CliAppend, BooksInv
<1> QED
  BY <1>2, <1>3

LEMMA CrashBooks == LedgerInv /\ BooksInv /\ Crash => BooksInv'
<1> SUFFICES ASSUME LedgerInv, BooksInv, Crash, cliRows' = {} PROVE Books'
  BY DEF BooksInv
<1>1. LedgerTypes /\ stored' = stored /\ queue' = << >> /\ engine' = "down" /\ cliRows = {}
  BY DEF LedgerInv, Crash
<1>2. stored \in Seq(Row)
  BY <1>1, AllRows
<1>3. All' = stored
  BY <1>1, <1>2, ConcatEmptySeq DEF All
<1>4. Ordered(stored) /\ Explained(stored)
  BY <1>1, ReplayIsRun DEF BooksInv, Books
<1> HIDE DEF All
<1> QED
  BY <1>1, <1>3, <1>4 DEF Books

LEMMA JoinTwo ==
  ASSUME NEW s \in Seq(Row), NEW q \in Seq(Row), NEW e \in Row, NEW f \in Row
  PROVE  s \o (q \o <<e, f>>) = Append(Append(s \o q, e), f)
  OBVIOUS

(* The two events of a fill claim no total, and move both accounts.        *)
LEMMA BookFillBooks == LedgerInv /\ BooksInv /\ BookFill => BooksInv'
<1> SUFFICES ASSUME LedgerInv, BooksInv, BookFill, cliRows' = {} PROVE Books'
  BY DEF BooksInv
<1>1. LedgerTypes
  BY DEF LedgerInv
<1>2. PICK d \in {-1, 1} :
        /\ engine = "up" /\ UNCHANGED <<stored, totalsCache, cliRows>>
        /\ Emit(<<Adjusted(HomeBase, d, now), Adjusted(HomeQuote, -d, now)>>, "up")
  BY DEF BookFill
<1> DEFINE e == Adjusted(HomeBase, d, now)
           f == Adjusted(HomeQuote, -d, now)
           rows == Append(Append(All, e), f)
           outcome == ApplyOne(FALSE, ApplyOne(FALSE, Start(ledger), e), f)
<1>3. /\ e \in Row /\ f \in Row /\ e.account = HomeBase /\ f.account = HomeQuote
      /\ e.newTotal = None /\ f.newTotal = None /\ e.ts = f.ts /\ e.ts \in Nat
      /\ Later(All, e) /\ Later(All, f)
  <2>1. HomeBase \in Accounts /\ HomeQuote \in Accounts /\ d \in Int /\ -d \in Int
    OBVIOUS
  <2>2. e \in Past /\ f \in Past /\ Past \subseteq Row /\ now \in Nat
    BY <1>1, <2>1, PastFacts
  <2>3. Later(All, e) /\ Later(All, f)
    BY <1>1, <2>1, AllRows
  <2> QED  BY <2>2, <2>3 DEF Adjusted
<1>4. HomeBase # HomeQuote
  BY LedgerAssumption
<1>5. /\ Ordered(All) /\ Explained(All) /\ Matches(All, ledger) /\ CacheKnown
      /\ All \in Seq(Row) /\ stored \in Seq(Row) /\ queue \in Seq(Row)
      /\ ledger \in [Accounts -> Int]
  BY <1>1, <1>2, AllRows DEF BooksInv, Books, LedgerTypes
<1>6. queue' = queue \o <<e, f>> /\ Applied(<<e, f>>) = outcome
  <2> DEFINE S == {e, f}
  <2>1. e \in S /\ f \in S  OBVIOUS
  <2>2. Emit(<<e, f>>, "up")  BY <1>2
  <2> HIDE DEF e, f, S
  <2>3. queue' = queue \o <<e, f>>  BY <2>2 DEF Emit
  <2>4. Apply(FALSE, ledger, <<e, f>>) = outcome  BY <2>1, ApplyFew, Zenon
  <2> QED  BY <2>3, <2>4 DEF Applied
<1>7. /\ ledger' = outcome.totals
      /\ engine' = IF outcome.ok THEN "up" ELSE "dying"
  <2>1. Emit(<<e, f>>, "up")  BY <1>2
  <2> HIDE DEF e, f, outcome
  <2> QED  BY <1>6, <2>1 DEF Emit
<1> HIDE DEF e, f
<1>8. All' = rows
  <2>1. stored \o (queue \o <<e, f>>) = Append(Append(stored \o queue, e), f)
    <3>1. stored \in Seq(Row) /\ queue \in Seq(Row) /\ e \in Row /\ f \in Row
      BY <1>3, <1>5
    <3> QED  BY <3>1, JoinTwo
  <2>2. stored' = stored /\ queue' = queue \o <<e, f>>
    BY <1>2, <1>6
  <2> QED  BY <2>1, <2>2 DEF All
<1> HIDE DEF All
<1>9. Told(rows, outcome)
  <2>1. Covered(All, ledger, e) /\ Covered(All, ledger, f)
    BY <1>3 DEF Covered, Mismatch
  <2>2. e.ts <= f.ts /\ e.account # f.account
    BY <1>3, <1>4
  <2> QED  BY <1>3, <1>5, <2>1, <2>2, TwoEvents
<1>10. \A a \in HomeAccounts : Repaired(All, a) => Repaired(rows, a) /\ MovedSince(rows, a)
  <2> SUFFICES ASSUME NEW a \in HomeAccounts, Repaired(All, a)
               PROVE  Repaired(rows, a) /\ MovedSince(rows, a)
    OBVIOUS
  <2> DEFINE one == Append(All, e)
  <2>1. /\ one \in Seq(Row) /\ Repaired(one, a)
        /\ e.account = a => MovedSince(one, a)
    BY <1>3, <1>5, AppendProperties, HistoryGrows
  <2> HIDE DEF one
  <2>2. /\ Repaired(Append(one, f), a)
        /\ MovedSince(one, a) => MovedSince(Append(one, f), a)
        /\ f.account = a => MovedSince(Append(one, f), a)
    BY <1>3, <2>1, HistoryGrows
  <2>3. a = HomeBase \/ a = HomeQuote
    OBVIOUS
  <2> QED  BY <1>3, <2>1, <2>2, <2>3 DEF one
<1> HIDE DEF rows, outcome
<1>11. CacheKnown'
  BY <1>2, <1>5, <1>8, <1>10 DEF CacheKnown
<1>12. outcome.ok => Matches(rows, ledger')
  BY <1>7, <1>9 DEF Told
<1>13. ~outcome.ok => Broken(rows)
  BY <1>9 DEF Told
<1>14. Ordered(rows) /\ Explained(rows)
  BY <1>9 DEF Told
<1> QED
  BY <1>7, <1>8, <1>11, <1>12, <1>13, <1>14 DEF Books

(* A sync.  What it emits for an account, and what is settled by all of it.*)
SyncEvent(a) ==
  [account |-> a, delta |-> sync[a] - currentTotal(a), newTotal |-> sync[a], ts |-> now]

Settled(rows, outcome) ==
  /\ Told(rows, outcome)
  /\ \A a \in HomeAccounts :
       /\ Repaired(All, a) => Repaired(rows, a)
       /\ MovedSince(All, a) => MovedSince(rows, a)
       /\ a \in Drifted => Repaired(rows, a) /\ (outcome.ok => outcome.totals[a] = sync[a])
       /\ a \notin Drifted => outcome.totals[a] = ledger[a]

LEMMA OneApplied ==
  ASSUME NEW r \in Outcome, NEW e \in Row
  PROVE  LET s == ApplyOne(FALSE, r, e)
         IN /\ s \in Outcome
            /\ \A b \in Accounts : b # e.account => s.totals[b] = r.totals[b]
            /\ s.ok /\ e.newTotal # None => s.totals[e.account] = e.newTotal
<1> DEFINE s == ApplyOne(FALSE, r, e)
           t == Reduce(r.totals, e)
<1>1. /\ s \in Outcome /\ e.account \in Accounts /\ e.delta \in Int
      /\ r.totals \in [Accounts -> Int] /\ r.ok \in BOOLEAN
  BY ApplyOneType DEF Row, Outcome
<1>2. t[e.account] = r.totals[e.account] + e.delta
      /\ \A b \in Accounts : b # e.account => t[b] = r.totals[b]
  BY <1>1 DEF Reduce
<1>3. CASE Mismatch(r.totals, e)
  <2>1. s = [ok |-> FALSE, totals |-> r.totals]
    BY <1>3 DEF ApplyOne
  <2> HIDE DEF s
  <2>2. ~s.ok /\ s.totals = r.totals
    BY <2>1
  <2>3. /\ s \in Outcome
        /\ \A b \in Accounts : b # e.account => s.totals[b] = r.totals[b]
        /\ s.ok /\ e.newTotal # None => s.totals[e.account] = e.newTotal
    BY <1>1, <2>2
  <2> QED  BY <2>3 DEF s
<1>4. CASE ~Mismatch(r.totals, e)
  <2>1. s = [ok |-> r.ok, totals |-> t]
    BY <1>4 DEF ApplyOne
  <2>2. e.newTotal # None => e.newTotal = r.totals[e.account] + e.delta
    BY <1>4 DEF Mismatch
  <2> HIDE DEF s, t
  <2>3. s.totals = t
    BY <2>1
  <2>4. /\ s \in Outcome
        /\ \A b \in Accounts : b # e.account => s.totals[b] = r.totals[b]
        /\ s.ok /\ e.newTotal # None => s.totals[e.account] = e.newTotal
    BY <1>1, <1>2, <2>2, <2>3
  <2> QED  BY <2>4 DEF s
<1> QED
  BY <1>3, <1>4

(* An event of a sync that does not add up is stale: the cached total is   *)
(* not the ledger's, so the account has moved since its repair.            *)
LEMMA SyncEventFacts ==
  ASSUME LedgerTypes, sync # None, CacheKnown, NEW a \in Drifted
  PROVE  /\ a \in HomeAccounts /\ a \in Accounts /\ sync[a] \in Int
         /\ SyncEvent(a) \in Row /\ SyncEvent(a).account = a
         /\ SyncEvent(a).newTotal = sync[a] /\ SyncEvent(a).newTotal # None
         /\ SyncEvent(a).ts = now /\ now \in Nat
         /\ Later(All, SyncEvent(a)) /\ Covered(All, ledger, SyncEvent(a))
<1> DEFINE e == SyncEvent(a)
<1>1. a \in HomeAccounts /\ a \in Accounts /\ sync[a] \in Int
  <2>1. PICK D \in SUBSET HomeAccounts : sync \in [D -> Int]
    BY DEF LedgerTypes
  <2> QED  BY <2>1 DEF Drifted
<1>2. currentTotal(a) \in Int /\ now \in Nat /\ ledger[a] \in Int
  BY <1>1, TotalsKnown, PastFacts DEF LedgerTypes
<1>3. /\ e.account = a /\ e.newTotal = sync[a] /\ e.ts = now
      /\ e.delta = sync[a] - currentTotal(a)
  BY DEF SyncEvent
<1>4. e \in Row
  <2> HIDE DEF HomeAccounts, Accounts
  <2> QED  BY <1>1, <1>2 DEF SyncEvent, Row
<1>5. e.newTotal # None
  BY <1>1, <1>3, LedgerAssumption
<1>6. Later(All, e)
  <2>1. Later(All, Adjusted(a, 0, now))  BY <1>1, AllRows
  <2> QED  BY <1>3, <2>1 DEF Later, Adjusted
<1> HIDE DEF e
<1>7. Mismatch(ledger, e) => MovedSince(All, a)
  <2> SUFFICES ASSUME Mismatch(ledger, e) PROVE MovedSince(All, a)
    OBVIOUS
  <2>1. currentTotal(a) # ledger[a]
    BY <1>1, <1>2, <1>3 DEF Mismatch
  <2>2. totalsCache[a] # None /\ totalsCache[a] # ledger[a]
    BY <2>1 DEF currentTotal
  <2> QED  BY <1>1, <2>2 DEF CacheKnown
<1>8. Covered(All, ledger, e)
  <2>1. All \in Seq(Row)  BY AllRows
  <2> HIDE DEF All
  <2> QED  BY <1>3, <1>4, <1>5, <1>7, <2>1, HistoryGrows DEF Covered
<1> QED
  BY <1>1, <1>2, <1>3, <1>4, <1>5, <1>6, <1>8 DEF e

LEMMA SyncSettles ==
  ASSUME LedgerTypes, sync # None, Ordered(All), Explained(All), Matches(All, ledger),
         CacheKnown
  PROVE  Settled(stored \o (queue \o SyncEvents), Applied(SyncEvents))
<1> DEFINE B == HomeBase
           Q == HomeQuote
           s0 == Start(ledger)
<1>1. /\ stored \in Seq(Row) /\ queue \in Seq(Row) /\ All \in Seq(Row)
      /\ ledger \in [Accounts -> Int] /\ B # Q
  BY AllRows, LedgerAssumption DEF LedgerTypes
<1>2. s0 \in Outcome /\ s0.ok /\ s0.totals = ledger
  BY <1>1 DEF Start, Outcome
<1>3. SyncEvents = (IF B \notin Drifted THEN << >> ELSE <<SyncEvent(B)>>)
                     \o (IF Q \notin Drifted THEN << >> ELSE <<SyncEvent(Q)>>)
  BY DEF SyncEvents, SyncEvent
<1>4. /\ B \in HomeAccounts /\ Q \in HomeAccounts /\ B \in Accounts /\ Q \in Accounts
      /\ \A a \in HomeAccounts : a = B \/ a = Q
  OBVIOUS
<1>5. All = stored \o queue
  BY DEF All
<1> HIDE DEF HomeBase, HomeQuote, HomeAccounts, Accounts, B, Q, s0, All
<1>6. CASE B \in Drifted /\ Q \in Drifted
  <2> DEFINE e == SyncEvent(B)
             f == SyncEvent(Q)
             one == Append(All, e)
             rows == Append(one, f)
             first == ApplyOne(FALSE, s0, e)
             outcome == ApplyOne(FALSE, first, f)
  <2>1. /\ e \in Row /\ e.account = B /\ e.newTotal = sync[B] /\ e.newTotal # None
        /\ Later(All, e) /\ Covered(All, ledger, e) /\ e.ts = now /\ now \in Nat
    BY <1>6, SyncEventFacts
  <2>2. /\ f \in Row /\ f.account = Q /\ f.newTotal = sync[Q] /\ f.newTotal # None
        /\ Later(All, f) /\ Covered(All, ledger, f) /\ f.ts = now
    BY <1>6, SyncEventFacts
  <2>3. SyncEvents = <<e, f>>
    BY <1>3, <1>6, JoinFew
  <2> HIDE DEF e, f
  <2>4. stored \o (queue \o SyncEvents) = rows
    <3>1. stored \in Seq(Row) /\ queue \in Seq(Row) /\ e \in Row /\ f \in Row
      BY <1>1, <2>1, <2>2
    <3>2. stored \o (queue \o <<e, f>>) = Append(Append(stored \o queue, e), f)
      BY <3>1, JoinTwo
    <3> QED  BY <1>5, <2>3, <3>2
  <2>5. Applied(SyncEvents) = outcome
    <3> DEFINE S == {e, f}
    <3>1. e \in S /\ f \in S  OBVIOUS
    <3> HIDE DEF S
    <3> QED  BY <2>3, <3>1, ApplyFew DEF Applied, s0
  <2>6. Told(rows, outcome)
    <3>1. e.account # f.account /\ e.ts <= f.ts
      BY <1>1, <2>1, <2>2
    <3> QED  BY <1>1, <2>1, <2>2, <3>1, TwoEvents DEF s0
  <2>7. /\ first \in Outcome /\ outcome \in Outcome
        /\ first.ok => first.totals[B] = sync[B]
        /\ outcome.ok => outcome.totals[Q] = sync[Q]
        /\ outcome.totals[B] = first.totals[B]
        /\ outcome.ok => first.ok
    <3>1. first \in Outcome /\ (first.ok => first.totals[B] = sync[B])
      BY <1>2, <2>1, OneApplied
    <3> HIDE DEF first
    <3>2. /\ outcome \in Outcome /\ (outcome.ok => outcome.totals[Q] = sync[Q])
          /\ outcome.totals[B] = first.totals[B]
      BY <1>1, <1>4, <2>2, <3>1, OneApplied
    <3>3. first.ok \/ outcome = [ok |-> FALSE, totals |-> outcome.totals]
      BY <3>1 DEF ApplyOne, Outcome
    <3> HIDE DEF outcome
    <3>4. outcome.ok => first.ok
      BY <3>3
    <3> QED  BY <3>1, <3>2, <3>4
  <2>8. one \in Seq(Row)
    BY <1>1, <2>1, AppendProperties
  <2>9. ASSUME NEW a \in HomeAccounts
        PROVE  /\ Repaired(All, a) => Repaired(rows, a)
               /\ MovedSince(All, a) => MovedSince(rows, a)
               /\ Repaired(rows, a)
    <3>1. /\ Repaired(All, a) => Repaired(one, a)
          /\ MovedSince(All, a) => MovedSince(one, a)
          /\ e.account = a => Repaired(one, a)
      BY <1>1, <2>1, HistoryGrows
    <3> HIDE DEF one
    <3>2. /\ Repaired(one, a) => Repaired(rows, a)
          /\ MovedSince(one, a) => MovedSince(rows, a)
          /\ f.account = a => Repaired(rows, a)
      BY <2>2, <2>8, HistoryGrows
    <3> QED  BY <1>4, <2>1, <2>2, <3>1, <3>2
  <2> HIDE DEF rows, first, outcome
  <2>10. Settled(rows, outcome)
    BY <1>4, <1>6, <2>6, <2>7, <2>9 DEF Settled
  <2> QED  BY <2>4, <2>5, <2>10
<1>7. ASSUME NEW a \in {B, Q}, NEW b \in {B, Q}, a # b, a \in Drifted, b \notin Drifted
      PROVE  Settled(stored \o (queue \o SyncEvents), Applied(SyncEvents))
  <2> DEFINE e == SyncEvent(a)
             rows == Append(All, e)
             outcome == ApplyOne(FALSE, s0, e)
  <2>1. /\ e \in Row /\ e.account = a /\ e.newTotal = sync[a] /\ e.newTotal # None
        /\ Later(All, e) /\ Covered(All, ledger, e)
    BY <1>7, SyncEventFacts
  <2>2. SyncEvents = <<e>>
    <3>1. CASE a = B /\ b = Q  BY <1>3, <1>7, <3>1, JoinFew
    <3>2. CASE a = Q /\ b = B  BY <1>3, <1>7, <3>2, JoinFew
    <3> QED  BY <1>7, <3>1, <3>2
  <2> HIDE DEF e
  <2>3. stored \o (queue \o SyncEvents) = rows
    BY <1>1, <1>5, <2>1, <2>2, JoinRows
  <2>4. Applied(SyncEvents) = outcome
    <3> DEFINE S == {e}
    <3>1. e \in S  OBVIOUS
    <3> HIDE DEF S
    <3> QED  BY <2>2, <3>1, ApplyFew DEF Applied, s0
  <2>5. Told(rows, outcome)
    BY <1>1, <2>1, OneEvent DEF s0
  <2>6. /\ outcome.ok => outcome.totals[a] = sync[a]
        /\ outcome.totals[b] = ledger[b]
    <3>1. /\ outcome.ok /\ e.newTotal # None => outcome.totals[e.account] = e.newTotal
          /\ \A c \in Accounts : c # e.account => outcome.totals[c] = s0.totals[c]
      BY <1>2, <2>1, OneApplied
    <3> HIDE DEF outcome
    <3>2. b \in Accounts /\ b # e.account
      BY <1>4, <1>7, <2>1
    <3> QED  BY <1>2, <2>1, <3>1, <3>2
  <2>7. \A c \in HomeAccounts : /\ Repaired(All, c) => Repaired(rows, c)
                                /\ MovedSince(All, c) => MovedSince(rows, c)
                                /\ c = a => Repaired(rows, c)
    BY <1>1, <2>1, HistoryGrows
  <2> HIDE DEF rows, outcome
  <2>8. \A c \in HomeAccounts : c = a \/ c = b
    BY <1>4, <1>7
  <2>9. Settled(rows, outcome)
    BY <1>7, <2>5, <2>6, <2>7, <2>8 DEF Settled
  <2> QED  BY <2>3, <2>4, <2>9
<1>8. CASE B \notin Drifted /\ Q \notin Drifted
  <2>1. SyncEvents = << >>
    BY <1>3, <1>8, JoinFew
  <2>2. stored \o (queue \o SyncEvents) = All
    <3>1. queue \o << >> = queue  BY <1>1, ConcatEmptySeq
    <3> QED  BY <1>5, <2>1, <3>1
  <2>3. Applied(SyncEvents) = s0
    BY <2>1, ApplyFew DEF Applied, s0
  <2>4. Told(All, s0)
    BY <1>2 DEF Told
  <2>5. Settled(All, s0)
    BY <1>2, <1>4, <1>8, <2>4 DEF Settled
  <2> QED  BY <2>2, <2>3, <2>5
<1> QED
  BY <1>1, <1>6, <1>7, <1>8

LEMMA ReconcileBooks == LedgerInv /\ BooksInv /\ Reconcile => BooksInv'
<1> SUFFICES ASSUME LedgerInv, BooksInv, Reconcile PROVE BooksInv'
  OBVIOUS
<1>1. /\ LedgerTypes /\ engine \in {"starting", "up"} /\ sync # None
      /\ stored' = stored /\ cliRows' = cliRows
  BY DEF LedgerInv, Reconcile
<1>2. CASE ~mutates
  <2>1. All' = All
    BY <1>1, <1>2 DEF All, Reconcile
  <2> QED  BY <1>1, <1>2, <2>1, BooksStay DEF Reconcile
<1>3. CASE mutates
  <2> SUFFICES ASSUME cliRows = {} PROVE Books'
    BY <1>1 DEF BooksInv
  <2> DEFINE rows == stored \o (queue \o SyncEvents)
             outcome == Applied(SyncEvents)
  <2>1. /\ queue' = queue \o SyncEvents /\ ledger' = outcome.totals
        /\ engine' = IF outcome.ok THEN "up" ELSE "dying"
        /\ totalsCache' = [a \in HomeAccounts |->
                             IF a \in Drifted THEN sync[a] ELSE totalsCache[a]]
    BY <1>3 DEF Reconcile, Emit
  <2>2. Ordered(All) /\ Explained(All) /\ Matches(All, ledger) /\ CacheKnown
    BY <1>1 DEF BooksInv, Books
  <2>3. Settled(rows, outcome)
    BY <1>1, <2>2, SyncSettles
  <2>4. All' = rows
    BY <1>1, <2>1 DEF All
  <2> HIDE DEF All, rows, outcome
  <2>5. /\ Ordered(rows) /\ Explained(rows)
        /\ outcome.ok => Matches(rows, ledger')
        /\ ~outcome.ok => Broken(rows)
    BY <2>1, <2>3 DEF Settled, Told
  <2>6. outcome.ok => CacheKnown'
    <3> SUFFICES ASSUME outcome.ok, NEW a \in HomeAccounts, totalsCache'[a] # None
                 PROVE  Repaired(rows, a) /\ (totalsCache'[a] = ledger'[a] \/ MovedSince(rows, a))
      BY <2>4 DEF CacheKnown
    <3> HIDE DEF HomeAccounts
    <3>1. CASE a \in Drifted
      BY <2>1, <2>3, <3>1 DEF Settled
    <3>2. CASE a \notin Drifted
      <4>1. totalsCache'[a] = totalsCache[a] /\ ledger'[a] = ledger[a]
        BY <2>1, <2>3, <3>2 DEF Settled
      <4> QED  BY <2>2, <2>3, <4>1 DEF Settled, CacheKnown
    <3> QED  BY <3>1, <3>2
  <2>7. CASE outcome.ok
    <3>1. engine' = "up"
      BY <2>1, <2>7
    <3> QED  BY <2>4, <2>5, <2>6, <2>7, <3>1 DEF Books
  <2>8. CASE ~outcome.ok
    <3>1. engine' = "dying"
      BY <2>1, <2>8
    <3> QED  BY <2>4, <2>5, <2>8, <3>1 DEF Books
  <2> QED  BY <2>7, <2>8
<1> QED
  BY <1>2, <1>3

LEMMA NextBooks == LedgerInv /\ BooksInv /\ [Next]_vars => BooksInv'
<1> SUFFICES ASSUME LedgerInv, BooksInv, [Next]_vars PROVE BooksInv'
  OBVIOUS
<1>1. CASE UNCHANGED vars
  BY <1>1, BooksStay DEF All
<1>2. CASE VenueFills \/ Fetch \/ SyncFails \/ CliStart \/ SnapshotReads \/ SnapshotWrites
             \/ Tick
  BY <1>2, BooksStay DEF All, VenueFills, Fetch, SyncFails, CliStart, SnapshotReads,
                         SnapshotWrites, Tick
<1> QED
  BY <1>1, <1>2, BootBooks, PersistBooks, CrashBooks, BookFillBooks, ReconcileBooks DEF Next

(* LedgerReplays, as long as no CLI command has written to the store: only *)
(* a stale repair (reconcileSnapshot, balanceSyncService.ts) makes the     *)
(* account state throw, or the store one that cannot be replayed.          *)
THEOREM OnlyStaleRepairsThrow == Spec => [](cliRows = {} => LedgerReplays)
<1>1. ASSUME LedgerInv, BooksInv, cliRows = {} PROVE LedgerReplays
  <2>1. LedgerTypes /\ Books /\ Starts
    BY <1>1 DEF LedgerInv, BooksInv
  <2>2. \A rows, k : StaleAt(rows, k) => Stale(rows, k)
    BY <1>1 DEF StaleAt, Stale
  <2>3. /\ stored \in Seq(Row) /\ Len(All) = Len(stored) + Len(queue)
        /\ Len(stored) \in Nat
    BY <2>1, AllRows
  <2>4. ASSUME engine = "dying"
        PROVE  \E k \in 1..(Len(stored) + Len(queue)) : Stale(stored \o queue, k)
    BY <2>1, <2>2, <2>3, <2>4 DEF Books, Broken, All
  <2>5. Broken(stored) => \E k \in 1..Len(stored) : Stale(stored, k)
    BY <2>2 DEF Broken
  <2>6. ASSUME engine = "failed" PROVE Broken(stored)
    <3>1. queue = << >>
      BY <2>1, <2>6 DEF Starts
    <3>2. All = stored
      BY <2>3, <3>1, ConcatEmptySeq DEF All
    <3> QED  BY <2>1, <2>6, <3>2 DEF Books
  <2>7. ASSUME ~Replay(stored).ok PROVE Broken(stored)
    <3>1. Replay(stored) = Run(stored, Len(stored)) /\ Explained(stored)
      BY <2>1, ReplayIsRun DEF Books
    <3>2. Len(stored) \in 0..Len(stored)
      BY <2>3
    <3> QED  BY <2>7, <3>1, <3>2 DEF Explained, Broken
  <2> QED  BY <2>4, <2>5, <2>6, <2>7 DEF LedgerReplays
<1> QED
  BY <1>1, InitLedgerInv, NextLedgerInv, InitBooks, NextBooks, PTL DEF Spec

-----------------------------------------------------------------------------
(* The planner.                                                            *)
GapsAreTyped(gaps) ==
  /\ DOMAIN gaps \subseteq Nat /\ IsFiniteSet(DOMAIN gaps)
  /\ \A i \in DOMAIN gaps : gaps[i].rank \in Int /\ gaps[i].amount \in Nat

(* TakenFirst, by rank and then by place, is a total order of the gaps.   *)
LEMMA TakenFirstIsTotal ==
  ASSUME NEW gaps, GapsAreTyped(gaps)
  PROVE  \A i, j, k \in DOMAIN gaps :
           /\ ~TakenFirst(gaps, i, i)
           /\ i # j => TakenFirst(gaps, i, j) \/ TakenFirst(gaps, j, i)
           /\ TakenFirst(gaps, i, j) /\ TakenFirst(gaps, j, k) => TakenFirst(gaps, i, k)
  <1>1. \A i \in DOMAIN gaps : i \in Nat /\ gaps[i].rank \in Int /\ gaps[i].amount \in Nat
    BY DEF GapsAreTyped
  <1> QED  BY <1>1 DEF TakenFirst

(* Each deficit meets each surplus once, the deficits in turn.             *)
LEMMA TurnsProperties ==
  ASSUME NEW gaps, GapsAreTyped(gaps)
  PROVE  /\ Len(Turns(gaps)) \in Nat
         /\ \A k \in 1..Len(Turns(gaps)) :
              /\ Turns(gaps)[k][1] \in On("deficit", gaps)
              /\ Turns(gaps)[k][2] \in On("surplus", gaps)
         /\ \A d \in On("deficit", gaps), s \in On("surplus", gaps) :
              \E k \in 1..Len(Turns(gaps)) : Turns(gaps)[k][1] = d /\ Turns(gaps)[k][2] = s
         /\ \A k, m \in 1..Len(Turns(gaps)) :
              TakenFirst(gaps, Turns(gaps)[k][1], Turns(gaps)[m][1]) => k < m
  <1> DEFINE D == On("deficit", gaps)
             S == On("surplus", gaps)
             P == D \X S
             before == Earlier(gaps)
             turns == Turns(gaps)
  <1>1. D \subseteq DOMAIN gaps /\ S \subseteq DOMAIN gaps  BY DEF On
  <1>2. IsFiniteSet(P)
    BY <1>1, FS_Subset, FS_Product DEF GapsAreTyped
  <1>3. \A p, q \in P : <<p, q>> \in before <=>
          TakenFirst(gaps, p[1], q[1]) \/ (p[1] = q[1] /\ TakenFirst(gaps, p[2], q[2]))
    BY DEF Earlier
  <1>4. \A p \in P : p[1] \in D /\ p[2] \in S /\ p = <<p[1], p[2]>>  OBVIOUS
  <1>5. turns = InOrder(P, before)  BY DEF Turns
  <1> HIDE DEF D, S, P, before, turns
  <1>6. IsOrderOn(before, P)
    <2> SUFFICES ASSUME NEW p \in P, NEW q \in P, NEW r \in P
                 PROVE  /\ <<p, p>> \notin before
                        /\ p # q => <<p, q>> \in before \/ <<q, p>> \in before
                        /\ <<p, q>> \in before /\ <<q, r>> \in before => <<p, r>> \in before
      BY DEF IsOrderOn
    <2>1. \A x \in P : x[1] \in DOMAIN gaps /\ x[2] \in DOMAIN gaps  BY <1>1, <1>4
    <2>2. <<p, p>> \notin before  BY <1>3, <2>1, TakenFirstIsTotal
    <2>3. p # q => <<p, q>> \in before \/ <<q, p>> \in before
      <3>1. p # q => p[1] # q[1] \/ p[2] # q[2]  BY <1>4
      <3> QED  BY <1>3, <2>1, <3>1, TakenFirstIsTotal
    <2>4. <<p, q>> \in before /\ <<q, r>> \in before => <<p, r>> \in before
      BY <1>3, <2>1, TakenFirstIsTotal
    <2> QED  BY <2>2, <2>3, <2>4
  <1>7. /\ turns \in Seq(P) /\ Len(turns) \in Nat
        /\ \A x \in P : \E k \in 1..Len(turns) : turns[k] = x
        /\ \A k, m \in 1..Len(turns) : <<turns[k], turns[m]>> \in before => k < m
    BY <1>2, <1>5, <1>6, InOrderProperties
  <1>8. \A k \in 1..Len(turns) : turns[k] \in P  BY <1>7
  <1>9. \A d \in D, s \in S : \E k \in 1..Len(turns) : turns[k][1] = d /\ turns[k][2] = s
    <2> TAKE d \in D, s \in S
    <2>1. <<d, s>> \in P  BY DEF P
    <2>2. PICK k \in 1..Len(turns) : turns[k] = <<d, s>>  BY <1>7, <2>1
    <2> QED  BY <2>2
  <1> QED  BY <1>3, <1>4, <1>7, <1>8, <1>9 DEF turns, D, S

-----------------------------------------------------------------------------
(* The recursive function over the turns exists: its equations hold.      *)
LEMMA CourseDef ==
  ASSUME NEW targets, NEW opening, NEW turns, Len(turns) \in Nat
  PROVE  /\ Course(targets, opening, turns)[0] = opening
         /\ \A k \in 1..Len(turns) :
              Course(targets, opening, turns)[k]
                = Transfer(targets, Course(targets, opening, turns)[k - 1], turns[k])
  <1> DEFINE n == Len(turns)
             Step(g, k) == IF k = 0 THEN opening ELSE Transfer(targets, g[k - 1], turns[k])
             Solves(m) == \E g : \A k \in 0..m : g[k] = Step(g, k)
             Good == {m \in Nat : Solves(m)}
             course == Course(targets, opening, turns)
  <1>1. Solves(0)
    <2> DEFINE g == [k \in {0} |-> opening]
    <2>1. \A k \in 0..0 : k = 0 /\ g[k] = Step(g, k)  OBVIOUS
    <2> HIDE DEF g, Step
    <2> QED  BY <2>1
  <1>2. ASSUME NEW m \in Nat, Solves(m) PROVE Solves(m + 1)
    <2>1. PICK g : \A k \in 0..m : g[k] = Step(g, k)  BY <1>2
    <2> DEFINE h == [k \in 0..(m + 1) |-> Step(g, k)]
    <2>2. ASSUME NEW k \in 0..(m + 1) PROVE h[k] = Step(h, k)
      <3>1. CASE k = 0  BY <3>1
      <3>2. CASE k # 0
        <4>1. k - 1 \in 0..m /\ k - 1 \in 0..(m + 1)  BY <3>2
        <4>2. h[k - 1] = g[k - 1]  BY <2>1, <4>1
        <4> QED  BY <3>2, <4>2
      <3> QED  BY <3>1, <3>2
    <2> HIDE DEF h, Step
    <2> QED  BY <2>2
  <1>3. Solves(n)
    <2> HIDE DEF Solves
    <2>1. Good \in SUBSET Nat /\ 0 \in Good  BY <1>1
    <2>2. \A m \in Good : m + 1 \in Good  BY <1>2
    <2> HIDE DEF Good
    <2>3. Good = Nat  BY <2>1, <2>2, EveryNumber
    <2> USE DEF Good
    <2> QED  BY <2>3
  <1>4. PICK g : \A k \in 0..n : g[k] = Step(g, k)  BY <1>3
  <1> DEFINE h == [k \in 0..n |-> g[k]]
  <1>5. ASSUME NEW k \in 0..n PROVE Step(h, k) = h[k]
    <2>1. k # 0 => k - 1 \in 0..n  OBVIOUS
    <2> QED  BY <1>4, <2>1
  <1>6. h = [k \in 0..n |-> Step(h, k)]  BY <1>5
  <1> HIDE DEF h
  <1>7. course = CHOOSE f : f = [k \in 0..n |-> Step(f, k)]
    BY DEF Course
  <1> HIDE DEF course
  <1>8. course = [k \in 0..n |-> Step(course, k)]  BY <1>6, <1>7
  <1>9. \A k \in 0..n : course[k] = Step(course, k)  BY <1>8
  <1>10. 0 \in 0..n /\ \A k \in 1..n : k \in 0..n /\ k # 0  OBVIOUS
  <1> QED  BY <1>9, <1>10 DEF course

(* What has been moved, as a sum over the transfers.                       *)
Parts(transfers, end, a) ==
  [k \in DOMAIN transfers |-> IF transfers[k][end] = a THEN transfers[k].amount ELSE 0]

(* What an account has sent or received, as a sum over the transfers.     *)
LEMMA MovedIsASum ==
  ASSUME NEW transfers, NEW end, NEW a
  PROVE  Moved(transfers, end, a)
           = SumOver(Parts(transfers, end, a), DOMAIN Parts(transfers, end, a))
  BY DEF Moved, Parts, SumOver, PartialSums, AnElement, FoldFunction, FoldFunctionOnSet,
         MapThenFoldSet

TransferOf(targets) ==
  LET accounts == {targets[i].account : i \in DOMAIN targets}
  IN [from : accounts, to : accounts, amount : Nat]

(* An empty plan moves nothing, and a transfer more adds its amount.      *)
LEMMA MovedNothing ==
  ASSUME NEW end, NEW a
  PROVE  Moved(<< >>, end, a) = 0
  <1>1. DOMAIN Parts(<< >>, end, a) = {} /\ IsFiniteSet({})  BY FS_EmptySet DEF Parts
  <1> QED  BY <1>1, MovedIsASum, SumOverEmpty

LEMMA MovedOneMore ==
  ASSUME NEW targets, NEW ts \in Seq(TransferOf(targets)), NEW t \in TransferOf(targets),
         NEW end, NEW a
  PROVE  /\ Moved(ts, end, a) \in Int
         /\ Moved(Append(ts, t), end, a)
              = Moved(ts, end, a) + (IF t[end] = a THEN t.amount ELSE 0)
  <1> DEFINE n == Len(ts)
             more == Append(ts, t)
             f == Parts(ts, end, a)
             g == Parts(more, end, a)
             C == 1..n
             D == 1..(n + 1)
  <1>1. /\ n \in Nat /\ IsFiniteSet(C) /\ IsFiniteSet(D)
        /\ DOMAIN ts = C /\ DOMAIN more = D
        /\ \A k \in C : more[k] = ts[k] /\ ts[k] \in TransferOf(targets)
        /\ more[n + 1] = t
    BY FirstNumbers
  <1>2. \A r \in TransferOf(targets) : r.amount \in Int  BY DEF TransferOf
  <1>3. f \in [C -> Int] /\ \A k \in C : f[k] = IF ts[k][end] = a THEN ts[k].amount ELSE 0
    BY <1>1, <1>2 DEF Parts
  <1>4. /\ g \in [D -> Int]
        /\ \A k \in D : g[k] = IF more[k][end] = a THEN more[k].amount ELSE 0
    <2>1. \A k \in D : more[k] \in TransferOf(targets)  BY <1>1
    <2> HIDE DEF more
    <2> QED  BY <1>1, <1>2, <2>1 DEF Parts
  <1>5. /\ Moved(ts, end, a) = SumOver(f, C)
        /\ Moved(more, end, a) = SumOver(g, D)
    <2>1. DOMAIN f = C /\ DOMAIN g = D  BY <1>1 DEF Parts
    <2> QED  BY <2>1, MovedIsASum
  <1>6. C \in SUBSET (C \cap D) /\ D \ {n + 1} = C /\ n + 1 \in D  BY <1>1
  <1>7. \A k \in C : f[k] = g[k]  BY <1>1, <1>3, <1>4, <1>6
  <1>8. g[n + 1] = IF t[end] = a THEN t.amount ELSE 0  BY <1>1, <1>4, <1>6
  <1> HIDE DEF f, g, C, D, n, more
  <1>9. SumOver(f, C) = SumOver(g, C) /\ SumOver(f, C) \in Int
    <2>1. f \in [C -> Int] /\ IsFiniteSet(C) /\ C \in SUBSET C  BY <1>1, <1>3
    <2>2. SumOver(f, C) \in Int  BY <2>1, SumOverTakes
    <2>3. g \in [D -> Int] /\ IsFiniteSet(D)  BY <1>1, <1>4
    <2>4. SumOver(f, C) = SumOver(g, C)
      BY <1>6, <1>7, <2>1, <2>3, SumOverAgreesOn
    <2> QED  BY <2>2, <2>4
  <1>10. SumOver(g, D) = g[n + 1] + SumOver(g, C)
    BY <1>1, <1>4, <1>6, SumOverTakes
  <1>11. g[n + 1] \in Int  BY <1>4, <1>6
  <1>12. Moved(more, end, a) = Moved(ts, end, a) + g[n + 1]
    BY <1>5, <1>9, <1>10, <1>11
  <1> QED  BY <1>5, <1>8, <1>9, <1>12 DEF more

-----------------------------------------------------------------------------
(* The types of a gap; a surplus is no more than the balance.             *)
LEMMA GapFacts ==
  ASSUME NEW t, {t.min, t.max, t.target} \subseteq Nat \cup {Unset}, t.priority \in Int,
         NEW total \in Int
  PROVE  /\ Gap(t, total).side \in {"deficit", "surplus", "none"}
         /\ Gap(t, total).rank \in Int
         /\ Gap(t, total).amount \in Nat
         /\ Gap(t, total).side = "surplus" => Gap(t, total).amount <= total
         /\ Gap(t, total).side = "none" => Gap(t, total).amount = 0
  <1> DEFINE below == t.min # Unset /\ total < t.min
             above == t.max # Unset /\ total > t.max /\ ~below
             aim == t.target # Unset /\ ~below /\ ~above
  <1>1. /\ t.min # Unset => t.min \in Nat
        /\ t.max # Unset => t.max \in Nat
        /\ t.target # Unset => t.target \in Nat
    OBVIOUS
  <1>2. CASE below
    <2>1. Gap(t, total) = [side |-> "deficit", amount |-> t.min - total, rank |-> t.priority + 2]
      BY <1>2 DEF Gap
    <2>2. t.min - total \in Nat  BY <1>1, <1>2
    <2> QED  BY <2>1, <2>2
  <1>3. CASE above
    <2>1. Gap(t, total) = [side |-> "surplus", amount |-> total - t.max, rank |-> 0]
      BY <1>3 DEF Gap
    <2>2. total - t.max \in Nat /\ total - t.max <= total  BY <1>1, <1>3
    <2> QED  BY <2>1, <2>2
  <1>4. CASE aim /\ total < t.target
    <2>1. Gap(t, total) = [side |-> "deficit", amount |-> t.target - total, rank |-> t.priority]
      BY <1>4 DEF Gap
    <2>2. t.target - total \in Nat  BY <1>1, <1>4
    <2> QED  BY <2>1, <2>2
  <1>5. CASE aim /\ total > t.target
    <2>1. ~(total < t.target)  BY <1>1, <1>5
    <2>2. Gap(t, total) = [side |-> "surplus", amount |-> total - t.target, rank |-> 0]
      BY <1>5, <2>1 DEF Gap
    <2>3. total - t.target \in Nat /\ total - t.target <= total  BY <1>1, <1>5
    <2> QED  BY <2>2, <2>3
  <1>6. CASE /\ ~below /\ ~above
             /\ ~(aim /\ total < t.target) /\ ~(aim /\ total > t.target)
    <2>1. Gap(t, total) = [side |-> "none", amount |-> 0, rank |-> 0]
      BY <1>6 DEF Gap
    <2> QED  BY <2>1
  <1> QED  BY <1>2, <1>3, <1>4, <1>5, <1>6

(* A surplus and a deficit between which a transfer is possible.           *)
Usable(targets, s, d) ==
  /\ Asset(targets[s].account) = Asset(targets[d].account)
  /\ Venue(targets[s].account) # Venue(targets[d].account)

StateTyped(targets, st) ==
  /\ st.left \in [DOMAIN targets -> Nat]
  /\ st.available \in [DOMAIN targets -> Int]
  /\ st.transfers \in Seq(TransferOf(targets))

(* A turn in which n goes from s to d.                                     *)
Takes(targets, st, d, s, n, next) ==
  /\ Usable(targets, s, d)
  /\ n \in Nat /\ n > 0 /\ n <= st.left[d] /\ n <= st.left[s]
  /\ n = st.left[d] \/ n = st.left[s]
  /\ next.left[d] = st.left[d] - n /\ next.left[s] = st.left[s] - n
  /\ \A i \in DOMAIN targets \ {d, s} : next.left[i] = st.left[i]
  /\ next.available[s] = st.available[s] - n
  /\ \A i \in DOMAIN targets \ {s} : next.available[i] = st.available[i]
  /\ next.transfers = Append(st.transfers,
       [from |-> targets[s].account, to |-> targets[d].account, amount |-> n])

(* What one turn does to the gaps and to the plan.                        *)
LEMMA TransferEffect ==
  ASSUME NEW targets, NEW st, StateTyped(targets, st), NEW pair,
         NEW d \in DOMAIN targets, NEW s \in DOMAIN targets, d # s,
         pair[1] = d, pair[2] = s, st.left[s] <= st.available[s]
  PROVE  /\ StateTyped(targets, Transfer(targets, st, pair))
         /\ \/ /\ Transfer(targets, st, pair) = st
               /\ Usable(targets, s, d) => st.left[d] = 0 \/ st.left[s] = 0
            \/ \E n \in Nat : Takes(targets, st, d, s, n, Transfer(targets, st, pair))
  <1> DEFINE from == targets[s].account
             to == targets[d].account
             n == Least(st.left[d], Least(st.left[s], st.available[s]))
             left == [st.left EXCEPT ![d] = @ - n, ![s] = @ - n]
             available == [st.available EXCEPT ![s] = @ - n]
             transfer == [from |-> from, to |-> to, amount |-> n]
             transfers == Append(st.transfers, transfer)
             moved == [left |-> left, available |-> available, transfers |-> transfers]
             next == Transfer(targets, st, pair)
  <1>1. /\ st.left[d] \in Nat /\ st.left[s] \in Nat /\ st.available[s] \in Int
    BY DEF StateTyped
  <1>2. /\ n \in Nat /\ n <= st.left[d] /\ n <= st.left[s]
        /\ n = st.left[d] \/ n = st.left[s]
    BY <1>1 DEF Least
  <1>3. next = IF ~Usable(targets, s, d) \/ n <= 0 THEN st ELSE moved
    BY DEF Transfer, Usable
  <1> HIDE DEF n, next
  <1>4. CASE ~Usable(targets, s, d) \/ n <= 0
    <2>1. next = st  BY <1>3, <1>4
    <2>2. Usable(targets, s, d) => st.left[d] = 0 \/ st.left[s] = 0
      BY <1>1, <1>2, <1>4
    <2> QED  BY <2>1, <2>2 DEF next
  <1>5. CASE Usable(targets, s, d) /\ ~(n <= 0)
    <2>1. next = moved  BY <1>3, <1>5
    <2>2. next.left = left /\ next.available = available /\ next.transfers = transfers
      BY <2>1
    <2>3. /\ left[d] = st.left[d] - n /\ left[s] = st.left[s] - n
          /\ \A i \in DOMAIN targets \ {d, s} : left[i] = st.left[i]
          /\ left \in [DOMAIN targets -> Nat]
      <3>1. st.left \in [DOMAIN targets -> Nat]  BY DEF StateTyped
      <3>2. st.left[d] - n \in Nat /\ st.left[s] - n \in Nat  BY <1>1, <1>2
      <3> QED  BY <3>1, <3>2
    <2>4. /\ available[s] = st.available[s] - n
          /\ \A i \in DOMAIN targets \ {s} : available[i] = st.available[i]
          /\ available \in [DOMAIN targets -> Int]
      <3>1. st.available \in [DOMAIN targets -> Int]  BY DEF StateTyped
      <3>2. st.available[s] - n \in Int  BY <1>1, <1>2
      <3> QED  BY <3>1, <3>2
    <2>5. transfers \in Seq(TransferOf(targets))
      <3>1. transfer \in TransferOf(targets)  BY <1>2 DEF TransferOf
      <3>2. st.transfers \in Seq(TransferOf(targets))  BY DEF StateTyped
      <3> HIDE DEF transfer
      <3> QED  BY <3>1, <3>2
    <2> HIDE DEF left, available
    <2>6. StateTyped(targets, next)  BY <2>2, <2>3, <2>4, <2>5 DEF StateTyped
    <2>7. Takes(targets, st, d, s, n, next)
      BY <1>2, <1>5, <2>2, <2>3, <2>4 DEF Takes
    <2> QED  BY <1>2, <2>6, <2>7 DEF next
  <1> QED  BY <1>4, <1>5

-----------------------------------------------------------------------------
(* What a list of targets and its gaps have to be for a sound plan.        *)
Setting(targets, gaps) ==
  /\ GapsAreTyped(gaps) /\ DOMAIN gaps = DOMAIN targets
  /\ \A i \in DOMAIN gaps : /\ gaps[i].side \in {"deficit", "surplus", "none"}
                             /\ gaps[i].side = "none" => gaps[i].amount = 0
  /\ \A i, j \in DOMAIN targets : targets[i].account = targets[j].account => i = j

(* What has been moved and what is left add up to each gap.                *)
AddsUp(targets, gaps, st) ==
  \A i \in DOMAIN targets :
    LET in == Moved(st.transfers, "to", targets[i].account)
        out == Moved(st.transfers, "from", targets[i].account)
    IN /\ gaps[i].side = "surplus" => in = 0 /\ out + st.left[i] = gaps[i].amount
       /\ gaps[i].side = "deficit" => out = 0 /\ in + st.left[i] = gaps[i].amount
       /\ gaps[i].side = "none" => in = 0 /\ out = 0
       /\ gaps[i].side = "surplus" => st.left[i] <= st.available[i]

(* The first k turns have been taken: each has used up one of its two.     *)
Taken(targets, gaps, st, k) ==
  \A m \in 1..k :
    LET turn == Turns(gaps)[m]
    IN Usable(targets, turn[2], turn[1]) => st.left[turn[2]] = 0 \/ st.left[turn[1]] = 0

(* Who drew on a surplus left nothing wanting in a higher rank.            *)
InRank(targets, gaps, st) ==
  \A s \in On("surplus", gaps), d \in On("deficit", gaps), e \in DOMAIN targets :
    Usable(targets, s, d) /\ gaps[d].rank > gaps[e].rank /\ st.left[d] # 0 =>
      \A k \in DOMAIN st.transfers :
        ~ (/\ st.transfers[k].from = targets[s].account
           /\ st.transfers[k].to = targets[e].account)

PlanInv(targets, gaps, st, k) ==
  StateTyped(targets, st) /\ AddsUp(targets, gaps, st)
    /\ Taken(targets, gaps, st, k) /\ InRank(targets, gaps, st)

(* One more turn keeps the plan's invariant.                               *)
LEMMA TurnKeepsPlanInv ==
  ASSUME NEW targets, NEW gaps, Setting(targets, gaps), NEW st,
         NEW k \in 1..Len(Turns(gaps)), PlanInv(targets, gaps, st, k - 1)
  PROVE  PlanInv(targets, gaps, Transfer(targets, st, Turns(gaps)[k]), k)
  <1> DEFINE turns == Turns(gaps)
             d == turns[k][1]
             s == turns[k][2]
             next == Transfer(targets, st, turns[k])
             D == On("deficit", gaps)
             S == On("surplus", gaps)
  <1>1. /\ GapsAreTyped(gaps) /\ DOMAIN gaps = DOMAIN targets
        /\ \A i, j \in DOMAIN targets : targets[i].account = targets[j].account => i = j
    BY DEF Setting
  <1>2. /\ Len(turns) \in Nat
        /\ \A m \in 1..Len(turns) : turns[m][1] \in D /\ turns[m][2] \in S
        /\ \A e \in D, r \in S : \E m \in 1..Len(turns) : turns[m][1] = e /\ turns[m][2] = r
        /\ \A l, m \in 1..Len(turns) : TakenFirst(gaps, turns[l][1], turns[m][1]) => l < m
    BY <1>1, TurnsProperties
  <1>3. /\ D \subseteq DOMAIN targets /\ S \subseteq DOMAIN targets
        /\ \A i \in DOMAIN targets : (i \in D <=> gaps[i].side = "deficit")
                                   /\ (i \in S <=> gaps[i].side = "surplus")
    BY <1>1 DEF On
  <1>4. StateTyped(targets, st) /\ AddsUp(targets, gaps, st)
          /\ Taken(targets, gaps, st, k - 1) /\ InRank(targets, gaps, st)
    BY DEF PlanInv
  <1> HIDE DEF turns, D, S
  <1>5. d \in D /\ s \in S /\ d \in DOMAIN targets /\ s \in DOMAIN targets /\ d # s
    <2>1. k \in 1..Len(turns)  BY DEF turns
    <2>2. d \in D /\ s \in S  BY <1>2, <2>1
    <2> HIDE DEF d, s
    <2>3. d \in DOMAIN targets /\ s \in DOMAIN targets  BY <1>3, <2>2
    <2>4. gaps[d].side = "deficit" /\ gaps[s].side = "surplus"  BY <1>3, <2>2, <2>3
    <2> QED  BY <2>2, <2>3, <2>4
  <1>6. st.left[s] <= st.available[s]  BY <1>3, <1>4, <1>5 DEF AddsUp
  <1>7. /\ StateTyped(targets, next)
        /\ \/ next = st /\ (Usable(targets, s, d) => st.left[d] = 0 \/ st.left[s] = 0)
           \/ \E n \in Nat : Takes(targets, st, d, s, n, next)
    <2> DEFINE pair == turns[k]
    <2>1. pair[1] = d /\ pair[2] = s  OBVIOUS
    <2> HIDE DEF d, s, pair
    <2>2. /\ StateTyped(targets, Transfer(targets, st, pair))
          /\ \/ /\ Transfer(targets, st, pair) = st
                /\ Usable(targets, s, d) => st.left[d] = 0 \/ st.left[s] = 0
             \/ \E n \in Nat : Takes(targets, st, d, s, n, Transfer(targets, st, pair))
      BY <1>4, <1>5, <1>6, <2>1, TransferEffect
    <2> QED  BY <2>2 DEF pair
  <1>8. k \in Nat /\ \A m \in 1..k : m = k \/ m \in 1..(k - 1)  BY <1>2
  <1> HIDE DEF next, d, s
  <1>9. CASE next = st /\ (Usable(targets, s, d) => st.left[d] = 0 \/ st.left[s] = 0)
    <2>1. Taken(targets, gaps, next, k)
      BY <1>4, <1>8, <1>9 DEF Taken, d, s, turns
    <2> QED  BY <1>4, <1>9, <2>1 DEF PlanInv, next, turns
  <1>10. CASE \E n \in Nat : Takes(targets, st, d, s, n, next)
    <2>1. PICK n \in Nat : Takes(targets, st, d, s, n, next)  BY <1>10
    <2>2. \A i \in DOMAIN targets : st.left[i] \in Nat /\ next.left[i] \in Nat
      BY <1>4, <1>7 DEF StateTyped
    <2>3. \A i \in DOMAIN targets : st.left[i] = 0 => next.left[i] = 0
      BY <1>5, <2>1, <2>2 DEF Takes
    <2>4. /\ st.left[s] # 0 /\ st.left[d] # 0
          /\ next.left[s] = 0 \/ next.left[d] = 0
      BY <1>5, <2>1, <2>2 DEF Takes
    <2>5. Taken(targets, gaps, next, k)
      <3>1. ASSUME NEW m \in 1..k, Usable(targets, turns[m][2], turns[m][1])
            PROVE  next.left[turns[m][2]] = 0 \/ next.left[turns[m][1]] = 0
        <4>1. CASE m = k  BY <2>4, <4>1 DEF d, s
        <4>2. CASE m \in 1..(k - 1)
          <5>1. st.left[turns[m][2]] = 0 \/ st.left[turns[m][1]] = 0
            BY <1>4, <3>1, <4>2 DEF Taken, turns
          <5>2. turns[m][1] \in DOMAIN targets /\ turns[m][2] \in DOMAIN targets
            <6>1. m \in 1..Len(turns)  BY <1>2, <1>8, <4>2 DEF turns
            <6>2. turns[m][1] \in D /\ turns[m][2] \in S  BY <1>2, <6>1
            <6> QED  BY <1>3, <6>2
          <5> QED  BY <2>3, <5>1, <5>2
        <4> QED  BY <1>8, <4>1, <4>2
      <3> QED  BY <3>1 DEF Taken, turns
    <2> DEFINE t == [from |-> targets[s].account, to |-> targets[d].account, amount |-> n]
    <2>6. /\ t \in TransferOf(targets) /\ next.transfers = Append(st.transfers, t)
          /\ t["from"] = targets[s].account /\ t["to"] = targets[d].account /\ t.amount = n
          /\ t.from = targets[s].account /\ t.to = targets[d].account
          /\ st.transfers \in Seq(TransferOf(targets))
      BY <1>4, <1>5, <2>1 DEF Takes, TransferOf, StateTyped
    <2> HIDE DEF t
    <2>7. AddsUp(targets, gaps, next)
      <3> SUFFICES ASSUME NEW i \in DOMAIN targets
                   PROVE LET in == Moved(next.transfers, "to", targets[i].account)
                             out == Moved(next.transfers, "from", targets[i].account)
                         IN /\ gaps[i].side = "surplus" => in = 0 /\ out + next.left[i] = gaps[i].amount
                            /\ gaps[i].side = "deficit" => out = 0 /\ in + next.left[i] = gaps[i].amount
                            /\ gaps[i].side = "none" => in = 0 /\ out = 0
                            /\ gaps[i].side = "surplus" => next.left[i] <= next.available[i]
        BY DEF AddsUp
      <3> DEFINE a == targets[i].account
                 in0 == Moved(st.transfers, "to", a)
                 out0 == Moved(st.transfers, "from", a)
                 in1 == Moved(next.transfers, "to", a)
                 out1 == Moved(next.transfers, "from", a)
      <3>1. /\ in0 \in Int /\ in1 = in0 + (IF t["to"] = a THEN t.amount ELSE 0)
            /\ out0 \in Int /\ out1 = out0 + (IF t["from"] = a THEN t.amount ELSE 0)
        BY <2>6, MovedOneMore
      <3>2. (targets[s].account = a <=> i = s) /\ (targets[d].account = a <=> i = d)
        BY <1>1, <1>5
      <3> HIDE DEF in0, in1, out0, out1, a
      <3>3. /\ in1 = in0 + (IF i = d THEN n ELSE 0)
            /\ out1 = out0 + (IF i = s THEN n ELSE 0)
        BY <2>6, <3>1, <3>2
      <3>4. /\ gaps[i].side = "surplus" => in0 = 0 /\ out0 + st.left[i] = gaps[i].amount
            /\ gaps[i].side = "deficit" => out0 = 0 /\ in0 + st.left[i] = gaps[i].amount
            /\ gaps[i].side = "none" => in0 = 0 /\ out0 = 0
            /\ gaps[i].side = "surplus" => st.left[i] <= st.available[i]
        BY <1>4 DEF AddsUp, in0, out0, a
      <3>5. gaps[s].side = "surplus" /\ gaps[d].side = "deficit"  BY <1>3, <1>5
      <3>6. /\ st.left[i] \in Nat /\ st.available[i] \in Int /\ gaps[i].amount \in Nat
        BY <1>1, <1>4 DEF StateTyped, GapsAreTyped
      <3>7. CASE i = s
        <4>1. /\ next.left[i] = st.left[i] - n /\ next.available[i] = st.available[i] - n
          BY <2>1, <3>7 DEF Takes
        <4>2. in1 = in0 /\ out1 = out0 + n  BY <1>5, <3>1, <3>3, <3>7
        <4>3. in1 = 0 /\ out1 + next.left[i] = gaps[i].amount /\ next.left[i] <= next.available[i]
          BY <3>1, <3>4, <3>5, <3>6, <3>7, <4>1, <4>2
        <4> QED  BY <3>5, <3>7, <4>3 DEF in1, out1, a
      <3>8. CASE i = d
        <4>1. next.left[i] = st.left[i] - n  BY <2>1, <3>8 DEF Takes
        <4>2. in1 = in0 + n /\ out1 = out0  BY <1>5, <3>1, <3>3, <3>8
        <4>3. out1 = 0 /\ in1 + next.left[i] = gaps[i].amount
          BY <3>1, <3>4, <3>5, <3>6, <3>8, <4>1, <4>2
        <4> QED  BY <3>5, <3>8, <4>3 DEF in1, out1, a
      <3>9. CASE i # s /\ i # d
        <4>1. next.left[i] = st.left[i] /\ next.available[i] = st.available[i]
          BY <2>1, <3>9 DEF Takes
        <4>2. in1 = in0 /\ out1 = out0  BY <3>1, <3>3, <3>9
        <4> QED  BY <3>4, <4>1, <4>2 DEF in1, out1, a
      <3> QED  BY <3>7, <3>8, <3>9
    <2>8. InRank(targets, gaps, next)
      <3> SUFFICES ASSUME NEW r \in S, NEW c \in D, NEW e \in DOMAIN targets,
                          Usable(targets, r, c), gaps[c].rank > gaps[e].rank,
                          next.left[c] # 0, NEW j \in DOMAIN next.transfers,
                          next.transfers[j].from = targets[r].account,
                          next.transfers[j].to = targets[e].account
                   PROVE  FALSE
        BY DEF InRank, S, D
      <3>1. st.left[c] # 0  BY <1>3, <2>3
      <3>2. \A i \in DOMAIN st.transfers :
              ~ (/\ st.transfers[i].from = targets[r].account
                 /\ st.transfers[i].to = targets[e].account)
        BY <1>4, <3>1 DEF InRank, S, D
      <3>3. \/ j \in DOMAIN st.transfers /\ next.transfers[j] = st.transfers[j]
            \/ next.transfers[j] = t
        BY <2>6
      <3>4. next.transfers[j] = t  BY <3>2, <3>3
      <3>5. r = s /\ e = d  BY <1>1, <1>3, <1>5, <2>6, <3>4
      <3>6. PICK m \in 1..Len(turns) : turns[m][1] = c /\ turns[m][2] = r  BY <1>2
      <3>7. TakenFirst(gaps, turns[m][1], turns[k][1])
        BY <3>5, <3>6 DEF TakenFirst, d
      <3>8. m < k  BY <1>2, <3>7 DEF turns
      <3>9. m \in 1..(k - 1)  BY <1>8, <3>6, <3>8
      <3>10. st.left[r] = 0 \/ st.left[c] = 0
        BY <1>4, <3>6, <3>9 DEF Taken, turns
      <3> QED  BY <2>4, <3>1, <3>5, <3>10
    <2> QED  BY <1>7, <2>5, <2>7, <2>8 DEF PlanInv, next, turns
  <1> QED  BY <1>7, <1>9, <1>10

(* So it holds at the end of the course.                                   *)
LEMMA PlanInvAtTheEnd ==
  ASSUME NEW targets, NEW gaps, Setting(targets, gaps), NEW opening,
         PlanInv(targets, gaps, opening, 0)
  PROVE  PlanInv(targets, gaps, Course(targets, opening, Turns(gaps))[Len(Turns(gaps))],
                 Len(Turns(gaps)))
  <1> DEFINE turns == Turns(gaps)
             course == Course(targets, opening, turns)
             Good == {k \in Nat : k <= Len(turns) => PlanInv(targets, gaps, course[k], k)}
  <1>1. Len(turns) \in Nat  BY TurnsProperties DEF Setting
  <1>2. /\ course[0] = opening
        /\ \A k \in 1..Len(turns) : course[k] = Transfer(targets, course[k - 1], turns[k])
    BY <1>1, CourseDef
  <1> HIDE DEF course
  <1>3. Good \in SUBSET Nat /\ 0 \in Good  BY <1>2
  <1>4. ASSUME NEW k \in Good PROVE k + 1 \in Good
    <2> SUFFICES ASSUME k + 1 <= Len(turns) PROVE PlanInv(targets, gaps, course[k + 1], k + 1)
      OBVIOUS
    <2>1. k \in Nat /\ k <= Len(turns) /\ k + 1 \in 1..Len(turns) /\ (k + 1) - 1 = k
      BY <1>1
    <2>2. PlanInv(targets, gaps, course[k], k)  BY <2>1
    <2>3. course[k + 1] = Transfer(targets, course[k], turns[k + 1])  BY <1>2, <2>1
    <2>4. PlanInv(targets, gaps, Transfer(targets, course[k], turns[k + 1]), k + 1)
      BY <2>1, <2>2, TurnKeepsPlanInv
    <2> QED  BY <2>3, <2>4
  <1> HIDE DEF Good
  <1>5. Good = Nat  BY <1>3, <1>4, EveryNumber
  <1> USE DEF Good
  <1>6. PlanInv(targets, gaps, course[Len(turns)], Len(turns))  BY <1>1, <1>5
  <1> QED  BY <1>6 DEF course

(* The plan for proper targets is sound where nothing is locked.           *)
LEMMA PlanOfProperTargets ==
  ASSUME NEW targets, Proper(targets), NEW balances,
         \A a \in DOMAIN balances : balances[a].available \in Int /\ balances[a].locked = 0
  PROVE  PlanIsSound(planRebalance(balances, targets), targets)
  <1> DEFINE gaps == Gaps(balances, targets)
             opening == Opening(balances, targets)
             turns == Turns(gaps)
             end == Course(targets, opening, turns)[Len(turns)]
             plan == planRebalance(balances, targets)
             has(i) == Holding(balances, targets[i].account)
  <1>1. \A i \in DOMAIN targets : has(i).available \in Int /\ has(i).locked = 0
    BY DEF Holding
  <1> HIDE DEF has
  <1>2. /\ DOMAIN gaps = DOMAIN targets
        /\ \A i \in DOMAIN targets :
             gaps[i] = Gap(targets[i], has(i).available + has(i).locked)
    BY DEF Gaps, has
  <1> HIDE DEF gaps
  <1>3. ASSUME NEW i \in DOMAIN targets
        PROVE  /\ gaps[i].side \in {"deficit", "surplus", "none"}
               /\ gaps[i].rank \in Int /\ gaps[i].amount \in Nat
               /\ gaps[i].side = "surplus" => gaps[i].amount <= has(i).available
               /\ gaps[i].side = "none" => gaps[i].amount = 0
    <2> DEFINE total == has(i).available + has(i).locked
    <2>1. total \in Int /\ total = has(i).available  BY <1>1
    <2>2. gaps[i] = Gap(targets[i], total)  BY <1>2
    <2> HIDE DEF total
    <2>3. /\ {targets[i].min, targets[i].max, targets[i].target} \subseteq Nat \cup {Unset}
          /\ targets[i].priority \in Int
      BY DEF Proper
    <2>4. /\ Gap(targets[i], total).side \in {"deficit", "surplus", "none"}
          /\ Gap(targets[i], total).rank \in Int
          /\ Gap(targets[i], total).amount \in Nat
          /\ Gap(targets[i], total).side = "surplus" => Gap(targets[i], total).amount <= total
          /\ Gap(targets[i], total).side = "none" => Gap(targets[i], total).amount = 0
      BY <2>1, <2>3, GapFacts
    <2> QED  BY <2>1, <2>2, <2>4
  <1>4. Setting(targets, gaps)
    BY <1>2, <1>3 DEF Setting, GapsAreTyped, Proper
  <1>5. PlanInv(targets, gaps, opening, 0)
    <2>1. /\ opening.left = [i \in DOMAIN targets |-> gaps[i].amount]
          /\ opening.available = [i \in DOMAIN targets |-> has(i).available]
          /\ opening.transfers = << >>
      BY DEF Opening, gaps, has
    <2> HIDE DEF opening
    <2>2. StateTyped(targets, opening)
      BY <1>1, <1>3, <2>1 DEF StateTyped
    <2>3. AddsUp(targets, gaps, opening)
      <3>1. \A i \in DOMAIN targets :
              /\ Moved(opening.transfers, "to", targets[i].account) = 0
              /\ Moved(opening.transfers, "from", targets[i].account) = 0
        BY <2>1, MovedNothing
      <3> QED  BY <1>3, <2>1, <3>1 DEF AddsUp
    <2>4. Taken(targets, gaps, opening, 0)  BY DEF Taken
    <2>5. InRank(targets, gaps, opening)  BY <2>1 DEF InRank
    <2> QED  BY <2>2, <2>3, <2>4, <2>5 DEF PlanInv
  <1>6. PlanInv(targets, gaps, end, Len(turns))
    <2> HIDE DEF opening
    <2> QED  BY <1>4, <1>5, PlanInvAtTheEnd
  <1>7. plan.transfers = end.transfers /\ plan.left = end.left /\ plan.gaps = gaps
    BY DEF planRebalance, gaps
  <1> HIDE DEF end, plan
  <1>8. StateTyped(targets, end) /\ AddsUp(targets, gaps, end)
          /\ Taken(targets, gaps, end, Len(turns)) /\ InRank(targets, gaps, end)
    BY <1>6 DEF PlanInv
  <1>9. /\ Len(turns) \in Nat
        /\ \A d \in On("deficit", gaps), s \in On("surplus", gaps) :
             \E k \in 1..Len(turns) : turns[k][1] = d /\ turns[k][2] = s
    BY <1>4, TurnsProperties DEF Setting
  <1>10. \A i \in DOMAIN targets : plan.left[i] \in Nat
    BY <1>7, <1>8 DEF StateTyped
  <1>11. ASSUME NEW i \in DOMAIN targets
         PROVE  LET out == Moved(plan.transfers, "from", targets[i].account)
                    in == Moved(plan.transfers, "to", targets[i].account)
                IN /\ gaps[i].side = "surplus" => in = 0 /\ out + plan.left[i] = gaps[i].amount
                   /\ gaps[i].side = "deficit" => out = 0 /\ in + plan.left[i] = gaps[i].amount
                   /\ gaps[i].side = "none" => in = 0 /\ out = 0
                   /\ plan.left[i] >= 0
    <2>1. plan.left[i] >= 0  BY <1>10
    <2> QED  BY <1>7, <1>8, <2>1 DEF AddsUp
  <1>12. ASSUME NEW s \in DOMAIN targets, NEW d \in DOMAIN targets,
                gaps[s].side = "surplus", gaps[d].side = "deficit", Usable(targets, s, d)
         PROVE  plan.left[s] = 0 \/ plan.left[d] = 0
    <2> HIDE DEF turns
    <2>0. d \in On("deficit", gaps) /\ s \in On("surplus", gaps)  BY <1>2, <1>12 DEF On
    <2>1. PICK k \in 1..Len(turns) : turns[k][1] = d /\ turns[k][2] = s
      BY <1>9, <2>0
    <2> QED  BY <1>7, <1>8, <1>12, <2>1 DEF Taken, turns
  <1>13. ASSUME NEW s \in DOMAIN targets, NEW d \in DOMAIN targets, NEW e \in DOMAIN targets,
                gaps[s].side = "surplus", gaps[d].side = "deficit", Usable(targets, s, d),
                plan.left[d] > 0, gaps[d].rank > gaps[e].rank,
                NEW k \in DOMAIN plan.transfers,
                plan.transfers[k].from = targets[s].account,
                plan.transfers[k].to = targets[e].account
         PROVE  FALSE
    <2>1. s \in On("surplus", gaps) /\ d \in On("deficit", gaps)
      BY <1>2, <1>13 DEF On
    <2>2. end.left[d] # 0  BY <1>7, <1>10, <1>13
    <2> QED  BY <1>7, <1>8, <1>13, <2>1, <2>2 DEF InRank
  <1>14. \A s, d \in DOMAIN targets :
           gaps[s].side = "surplus" /\ gaps[d].side = "deficit"
             /\ Asset(targets[s].account) = Asset(targets[d].account)
             /\ Venue(targets[s].account) # Venue(targets[d].account)
           => plan.left[s] = 0 \/ plan.left[d] = 0
    BY <1>12 DEF Usable
  <1>15. \A s, d, e \in DOMAIN targets :
           gaps[s].side = "surplus" /\ gaps[d].side = "deficit"
             /\ Asset(targets[s].account) = Asset(targets[d].account)
             /\ Venue(targets[s].account) # Venue(targets[d].account)
             /\ plan.left[d] > 0 /\ gaps[d].rank > gaps[e].rank
           => \A k \in DOMAIN plan.transfers :
                ~ (/\ plan.transfers[k].from = targets[s].account
                   /\ plan.transfers[k].to = targets[e].account)
    BY <1>13 DEF Usable
  <1> HIDE DEF turns
  <1>16. PlanIsSound(plan, targets)  BY <1>7, <1>11, <1>14, <1>15 DEF PlanIsSound
  <1> QED  BY <1>16 DEF plan

(* PlansAreSound: whatever the store holds, the plan RebalanceService makes *)
(* of it (rebalancer/service.ts) is sound for each list of targets.        *)
THEOREM PlansAreAlwaysSound == Spec => []PlansAreSound
<1>1. ASSUME LedgerInv, NEW targets \in TargetLists
      PROVE  PlanIsSound(evaluate(targets), targets)
  <2> DEFINE totals == Replay(stored).totals
             balances == [a \in Accounts |-> [available |-> totals[a], locked |-> 0]]
  <2>1. Replay(stored) \in Outcome
    BY <1>1, ReplayType DEF LedgerInv
  <2>2. \A a \in Accounts : totals[a] \in Int
    BY <2>1 DEF Outcome
  <2> HIDE DEF totals
  <2>3. /\ DOMAIN balances = Accounts
        /\ \A a \in Accounts : balances[a].available = totals[a] /\ balances[a].locked = 0
    OBVIOUS
  <2>4. evaluate(targets) = planRebalance(balances, targets)
    BY DEF evaluate, totals
  <2>5. Proper(targets)  BY TargetsAssumption
  <2> HIDE DEF balances
  <2> QED  BY <2>2, <2>3, <2>4, <2>5, PlanOfProperTargets
<1>2. LedgerInv => PlansAreSound
  BY <1>1 DEF PlansAreSound
<1> QED
  BY <1>2, InitLedgerInv, NextLedgerInv, PTL DEF Spec
=============================================================================
