------------------------------- MODULE Places --------------------------------
(***************************************************************************)
(* Facts about the places 1..n of a sequence: there is a last one among    *)
(* some of them ("the last record with this key"), a claim about 0..n can  *)
(* be proved by induction, and the recursion of a fold has a solution.     *)
(* The claim and the step are a set and a function, not operators, so that *)
(* the facts can be cited.                                                 *)
(***************************************************************************)
EXTENDS Integers, FiniteSetsExt, WellFoundedInduction, TLAPS

(* A set of places in a sequence has a greatest one: the least-number      *)
(* principle, applied to the distances from the end.                       *)
LEMMA MaxOfPlaces ==
    ASSUME NEW n \in Nat, NEW S \in SUBSET (1..n), S # {}
    PROVE  Max(S) \in S /\ \A x \in S : x <= Max(S)
<1> DEFINE D == {d \in Nat : \E x \in S : d = n - x}
<1>1. PICK x0 \in S : TRUE
  OBVIOUS
<1>2. \A x \in S : x \in Nat /\ n - x \in D
  OBVIOUS
<1>3. D \subseteq Nat /\ D # {}
  BY <1>1, <1>2
<1> HIDE DEF D
<1>4. PICK d \in D : \A e \in D : ~ (<<e, d>> \in OpToRel(<, Nat))
  BY <1>3, NatLessThanWellFounded, WFMin
<1>5. \A e \in D : d <= e
  <2> SUFFICES ASSUME NEW e \in D, e < d PROVE FALSE
    BY <1>3
  <2>1. <<e, d>> \in OpToRel(<, Nat)
    BY <1>3 DEF OpToRel
  <2> QED
    BY <1>4, <2>1
<1>6. PICK m \in S : d = n - m
  BY DEF D
<1>7. \A x \in S : m >= x
  BY <1>2, <1>5, <1>6
<1> QED
  BY <1>2, <1>7 DEF Max

(* And a least one.                                                        *)
LEMMA MinOfPlaces ==
    ASSUME NEW n \in Nat, NEW S \in SUBSET (1..n), S # {}
    PROVE  Min(S) \in S /\ \A x \in S : Min(S) <= x
<1> DEFINE D == {d \in 1..n : \E x \in S : d = n + 1 - x}
<1>1. \A x \in S : x \in 1..n /\ n + 1 - x \in D
  OBVIOUS
<1>2. D \in SUBSET (1..n) /\ \A d \in D : n + 1 - d \in S
  OBVIOUS
<1>3. D # {}
  BY <1>1
<1> HIDE DEF D
<1>4. PICK d \in D : \A e \in D : e <= d
  BY <1>2, <1>3, MaxOfPlaces
<1> DEFINE m == n + 1 - d
<1>5. m \in S
  BY <1>2, <1>4
<1>6. ASSUME NEW x \in S PROVE m <= x
  <2>1. n + 1 - x <= d /\ d \in 1..n /\ x \in 1..n
    BY <1>1, <1>2, <1>4
  <2> QED
    BY <2>1
<1> HIDE DEF m
<1>7. \E x \in S : \A y \in S : x <= y
  BY <1>5, <1>6
<1> QED
  BY <1>7 DEF Min

(* Induction on the places 0..n, with the claim as the set of the places   *)
(* for which it holds.                                                     *)
LEMMA PlacesInduction ==
    ASSUME NEW n \in Nat, NEW P, 0 \in P, \A k \in 0..(n-1) : k \in P => k+1 \in P
    PROVE  \A k \in 0..n : k \in P
<1> DEFINE Bad == {k \in 0..n : k \notin P}
<1> SUFFICES ASSUME Bad # {} PROVE FALSE
  OBVIOUS
<1>1. PICK m \in Bad : \A j \in Bad : ~ (<<j, m>> \in OpToRel(<, Nat))
  <2>1. Bad \subseteq Nat
    OBVIOUS
  <2> QED
    BY <2>1, NatLessThanWellFounded, WFMin
<1>2. m - 1 \in 0..(n-1) /\ m - 1 \in 0..n /\ (m-1) + 1 = m /\ m \in Nat /\ m - 1 \in Nat /\ m - 1 < m
  OBVIOUS
<1>3. <<m - 1, m>> \in OpToRel(<, Nat)
  BY <1>2 DEF OpToRel
<1>4. m - 1 \in P
  BY <1>1, <1>2, <1>3
<1> QED
  BY <1>2, <1>4

(* The function that the recursion of a fold defines: what has been        *)
(* accumulated of some of the places 1..n, with step for one more.         *)
IsFold(g, n, X, base, step) ==
    /\ g \in [SUBSET (1..n) -> X]
    /\ \A s \in SUBSET (1..n) :
          g[s] = IF s = {} THEN base ELSE step[<<g[s \ {Max(s)}], Max(s)>>]

(* There is such a function. *)
LEMMA FoldExists ==
    ASSUME NEW n \in Nat, NEW X, NEW base \in X, NEW step \in [X \X (1..n) -> X]
    PROVE  \E g : IsFold(g, n, X, base, step)
<1> DEFINE Step(g, s) == IF s = {} THEN base ELSE step[<<g[s \ {Max(s)}], Max(s)>>]
           Good(k) == \E g \in [SUBSET (1..k) -> X] : \A s \in SUBSET (1..k) : g[s] = Step(g, s)
           Bad == {k \in 0..n : ~Good(k)}
<1>1. Good(0)
  <2>1. SUBSET (1..0) = {{}}
    OBVIOUS
  <2> DEFINE g == [s \in SUBSET (1..0) |-> base]
  <2>2. g \in [SUBSET (1..0) -> X] /\ \A s \in SUBSET (1..0) : g[s] = Step(g, s)
    BY <2>1
  <2> QED
    BY <2>2
<1>2. ASSUME NEW k \in 0..(n-1), Good(k) PROVE Good(k+1)
  <2>1. PICK g \in [SUBSET (1..k) -> X] : \A s \in SUBSET (1..k) : g[s] = Step(g, s)
    BY <1>2
  <2> DEFINE h == [s \in SUBSET (1..(k+1)) |->
                     IF k+1 \in s THEN step[<<g[s \ {k+1}], k+1>>] ELSE g[s]]
  <2>2. ASSUME NEW s \in SUBSET (1..(k+1))
        PROVE  /\ k+1 \in s => Max(s) = k+1 /\ s \ {k+1} \in SUBSET (1..k)
               /\ k+1 \notin s => s \in SUBSET (1..k)
    <3>1. \A x \in 1..(k+1) : x \in Int /\ x <= k+1 /\ (x # k+1 => x \in 1..k)
      OBVIOUS
    <3>2. CASE k+1 \in s
      <4>1. \A x \in s : x \in Int /\ x <= k+1
        BY <3>1
      <4>2. \A x \in s : (\A y \in s : x >= y) => x = k+1
        BY <3>1, <3>2
      <4>3. Max(s) = k+1
        BY <3>2, <4>1, <4>2 DEF Max
      <4> QED
        BY <3>1, <4>3
    <3> QED
      BY <3>1, <3>2
  <2>3. h \in [SUBSET (1..(k+1)) -> X]
    BY <2>2
  <2>4. ASSUME NEW s \in SUBSET (1..(k+1)) PROVE h[s] = Step(h, s)
    <3>1. CASE k+1 \in s
      <4>1. h[s \ {k+1}] = g[s \ {k+1}]
        BY <2>2, <3>1
      <4> QED
        BY <2>2, <3>1, <4>1
    <3>2. CASE k+1 \notin s
      <4>0. s \in SUBSET (1..k)
        BY <2>2, <3>2
      <4>1. h[s] = g[s]
        BY <3>2
      <4>2. CASE s = {}
        BY <2>1, <4>0, <4>1, <4>2
      <4>3. CASE s # {}
        <5>1. s \ {Max(s)} \in SUBSET (1..k) /\ k+1 \notin s \ {Max(s)}
          BY <4>0, <3>2
        <5>2. h[s \ {Max(s)}] = g[s \ {Max(s)}]
          BY <5>1
        <5> QED
          BY <2>1, <4>0, <4>1, <4>3, <5>2
      <4> QED
        BY <4>2, <4>3
    <3> QED
      BY <3>1, <3>2
  <2> QED
    BY <2>3, <2>4
<1> HIDE DEF Good
<1> QED
  <2> DEFINE P == {k \in 0..n : Good(k)}
  <2>1. 0 \in P /\ \A k \in 0..(n-1) : k \in P => k+1 \in P
    BY <1>1, <1>2
  <2>2. \A k \in 0..n : k \in P
    <3> HIDE DEF P
    <3> QED
      BY <2>1, PlacesInduction
  <2>3. Good(n)
    BY <2>2
  <2> QED
    BY <2>3 DEF Good, IsFold

(* The places up to the next one. *)
LEMMA NextPlace ==
    ASSUME NEW k \in Nat
    PROVE  Max(1..(k+1)) = k+1 /\ (1..(k+1)) \ {k+1} = 1..k
<1>1. \A x \in 1..(k+1) : (\A y \in 1..(k+1) : x >= y) => x = k+1
  OBVIOUS
<1>2. k+1 \in 1..(k+1) /\ \A y \in 1..(k+1) : k+1 >= y
  OBVIOUS
<1> QED
  BY <1>1, <1>2 DEF Max
==============================================================================
