---------------------------- MODULE ProbeProofs -----------------------------
(***************************************************************************)
(* Proofs about the network probe, for all networks, hosts and intervals:  *)
(* what the loops of expandProbePrefixes and combineObservations compute,  *)
(* and what the inventory of the scan loop can and cannot contain.         *)
(***************************************************************************)
EXTENDS Inventory, ProbeCases, Places, SequenceTheorems, FiniteSetTheorems, TLAPS

(* The inner loop of expandProbePrefixes adds the addresses of one network *)
(* that are not there yet.                                                 *)
LEMMA WithAddresses ==
    ASSUME NEW A, NEW seen \in Seq(A), NEW block \in Seq(A)
    PROVE  /\ FoldLeft(withAddress, seen, block) \in Seq(A)
           /\ ToSet(FoldLeft(withAddress, seen, block)) = ToSet(seen) \cup ToSet(block)
           /\ IsInjective(seen) => IsInjective(FoldLeft(withAddress, seen, block))
<1> DEFINE n == Len(block)
           Eq(h) == h = [s \in SUBSET (DOMAIN block) |->
                           IF s = {} THEN seen
                           ELSE withAddress(h[s \ {Max(s)}], block[Max(s)])]
           it == CHOOSE h : Eq(h)
<1>1. FoldLeft(withAddress, seen, block) = it[DOMAIN block]
  BY DEF FoldLeft, MapThenFoldSet
<1>2. n \in Nat /\ DOMAIN block = 1..n
  BY LenProperties
<1>3. \A s \in SUBSET (1..n) : s # {} => Max(s) \in s /\ Max(s) \in 1..n
  BY <1>2, MaxOfPlaces
<1>4. \A x \in Seq(A), a \in A : withAddress(x, a) \in Seq(A)
  BY AppendProperties DEF withAddress
<1>5. \E h : Eq(h)
  <2> DEFINE step == [x \in Seq(A) \X (1..n) |-> withAddress(x[1], block[x[2]])]
  <2>1. step \in [Seq(A) \X (1..n) -> Seq(A)]
    BY <1>2, <1>4
  <2> HIDE DEF step, n
  <2>2. PICK g : IsFold(g, n, Seq(A), seen, step)
    BY <1>2, <2>1, FoldExists
  <2>3. \A s \in SUBSET (1..n) : g[s] =
           IF s = {} THEN seen ELSE withAddress(g[s \ {Max(s)}], block[Max(s)])
    BY <1>3, <2>2 DEF IsFold, step
  <2>4. Eq(g)
    BY <1>2, <2>2, <2>3 DEF IsFold
  <2> QED
    BY <2>4
<1>6. Eq(it)
  BY <1>5
<1> HIDE DEF it
<1>7. /\ it[1..0] = seen
      /\ \A k \in 0..(n-1) : it[1..(k+1)] = withAddress(it[1..k], block[k+1])
  <2>1. 1..0 = {} /\ 1..0 \in SUBSET (1..n)
    OBVIOUS
  <2>2. ASSUME NEW k \in 0..(n-1) PROVE it[1..(k+1)] = withAddress(it[1..k], block[k+1])
    <3>1. k \in Nat /\ k+1 \in 1..(k+1) /\ 1..(k+1) \in SUBSET (1..n)
      BY <1>2
    <3>2. Max(1..(k+1)) = k+1 /\ (1..(k+1)) \ {k+1} = 1..k
      BY <3>1, NextPlace
    <3> QED
      BY <1>2, <1>6, <3>1, <3>2
  <2> QED
    BY <1>2, <1>6, <2>1, <2>2
<1> DEFINE Right(k, r) ==
              /\ r \in Seq(A)
              /\ ToSet(r) = ToSet(seen) \cup {block[i] : i \in 1..k}
              /\ IsInjective(seen) => IsInjective(r)
<1>8. Right(0, seen)
  OBVIOUS
<1>9. ASSUME NEW k \in 0..(n-1), NEW r, Right(k, r) PROVE Right(k+1, withAddress(r, block[k+1]))
  <2>1. block[k+1] \in A /\ 1..(k+1) = (1..k) \cup {k+1}
    BY <1>2
  <2>2. CASE block[k+1] \in ToSet(r)
    BY <1>9, <2>1, <2>2 DEF withAddress
  <2>3. CASE block[k+1] \notin ToSet(r)
    <3> DEFINE b == block[k+1]
    <3>1. withAddress(r, b) = Append(r, b) /\ r \in Seq(A) /\ b \in A
      BY <1>9, <2>1, <2>3 DEF withAddress
    <3> HIDE DEF b
    <3>2. /\ Append(r, b) \in Seq(A)
          /\ Len(r) \in Nat /\ DOMAIN r = 1..Len(r)
          /\ DOMAIN Append(r, b) = 1..(Len(r)+1)
          /\ \A i \in 1..Len(r) : Append(r, b)[i] = r[i]
          /\ Append(r, b)[Len(r)+1] = b
      BY <3>1, AppendProperties, LenProperties
    <3>3. ToSet(Append(r, b)) = ToSet(r) \cup {b}
      BY <3>2 DEF ToSet
    <3>4. IsInjective(r) /\ b \notin ToSet(r) => IsInjective(Append(r, b))
      BY <3>2 DEF IsInjective, ToSet
    <3> QED
      BY <1>9, <2>1, <2>3, <3>1, <3>2, <3>3, <3>4 DEF b
  <2> QED
    BY <2>2, <2>3
<1>10. Right(n, it[1..n])
  <2> HIDE DEF Right
  <2> DEFINE P == {k \in 0..n : Right(k, it[1..k])}
  <2>1. 0 \in P /\ \A k \in 0..(n-1) : k \in P => k+1 \in P
    BY <1>2, <1>7, <1>8, <1>9
  <2>2. \A k \in 0..n : k \in P
    <3> HIDE DEF P
    <3> QED
      BY <1>2, <2>1, PlacesInduction
  <2> QED
    BY <1>2, <2>2
<1> QED
  BY <1>1, <1>2, <1>10 DEF ToSet
(* The outer loop makes a list of the addresses of all networks, each once. *)
LEMMA WithPrefixes ==
    ASSUME NEW A, NEW S, NEW prefixes \in Seq(S), \A p \in S : Block(p) \in Seq(A)
    PROVE  /\ FoldLeft(withPrefix, << >>, prefixes) \in Seq(A)
           /\ ToSet(FoldLeft(withPrefix, << >>, prefixes))
                = UNION {ToSet(Block(prefixes[i])) : i \in DOMAIN prefixes}
           /\ IsInjective(FoldLeft(withPrefix, << >>, prefixes))
<1> DEFINE Empty == << >>
           n == Len(prefixes)
           Eq(h) == h = [s \in SUBSET (DOMAIN prefixes) |->
                           IF s = {} THEN Empty
                           ELSE withPrefix(h[s \ {Max(s)}], prefixes[Max(s)])]
           it == CHOOSE h : Eq(h)
<1>0. Empty \in Seq(A) /\ DOMAIN Empty = {} /\ ToSet(Empty) = {} /\ IsInjective(Empty)
  BY DEF ToSet, IsInjective
<1>1. FoldLeft(withPrefix, << >>, prefixes) = it[DOMAIN prefixes]
  BY DEF FoldLeft, MapThenFoldSet
<1>2. n \in Nat /\ DOMAIN prefixes = 1..n
  BY LenProperties
<1>3. \A s \in SUBSET (1..n) : s # {} => Max(s) \in s /\ Max(s) \in 1..n
  BY <1>2, MaxOfPlaces
<1>4. \A x \in Seq(A), p \in S :
         /\ withPrefix(x, p) \in Seq(A)
         /\ ToSet(withPrefix(x, p)) = ToSet(x) \cup ToSet(Block(p))
         /\ IsInjective(x) => IsInjective(withPrefix(x, p))
  BY WithAddresses DEF withPrefix
<1> HIDE DEF Empty
<1>5. \E h : Eq(h)
  <2> DEFINE step == [x \in Seq(A) \X (1..n) |-> withPrefix(x[1], prefixes[x[2]])]
  <2>1. step \in [Seq(A) \X (1..n) -> Seq(A)]
    BY <1>2, <1>4
  <2> HIDE DEF step, n
  <2>2. PICK g : IsFold(g, n, Seq(A), Empty, step)
    BY <1>0, <1>2, <2>1, FoldExists
  <2>3. \A s \in SUBSET (1..n) : g[s] =
           IF s = {} THEN Empty ELSE withPrefix(g[s \ {Max(s)}], prefixes[Max(s)])
    BY <1>3, <2>2 DEF IsFold, step
  <2>4. Eq(g)
    BY <1>2, <2>2, <2>3 DEF IsFold
  <2> QED
    BY <2>4
<1>6. Eq(it)
  BY <1>5
<1> HIDE DEF it
<1>7. /\ it[1..0] = Empty
      /\ \A k \in 0..(n-1) : it[1..(k+1)] = withPrefix(it[1..k], prefixes[k+1])
  <2>1. 1..0 = {} /\ 1..0 \in SUBSET (1..n)
    OBVIOUS
  <2>2. ASSUME NEW k \in 0..(n-1) PROVE it[1..(k+1)] = withPrefix(it[1..k], prefixes[k+1])
    <3>1. k \in Nat /\ k+1 \in 1..(k+1) /\ 1..(k+1) \in SUBSET (1..n)
      BY <1>2
    <3>2. Max(1..(k+1)) = k+1 /\ (1..(k+1)) \ {k+1} = 1..k
      BY <3>1, NextPlace
    <3> QED
      BY <1>2, <1>6, <3>1, <3>2
  <2> QED
    BY <1>2, <1>6, <2>1, <2>2
<1> DEFINE Right(k, r) ==
              /\ r \in Seq(A)
              /\ ToSet(r) = UNION {ToSet(Block(prefixes[i])) : i \in 1..k}
              /\ IsInjective(r)
<1>8. Right(0, Empty)
  BY <1>0
<1>9. ASSUME NEW k \in 0..(n-1), NEW r, Right(k, r) PROVE Right(k+1, withPrefix(r, prefixes[k+1]))
  <2> DEFINE q == prefixes[k+1]
  <2>1. q \in S /\ 1..(k+1) = (1..k) \cup {k+1}
    BY <1>2
  <2>2. /\ withPrefix(r, q) \in Seq(A)
        /\ ToSet(withPrefix(r, q)) = ToSet(r) \cup ToSet(Block(q))
        /\ IsInjective(withPrefix(r, q))
    <3> HIDE DEF q
    <3> QED
      BY <1>4, <1>9, <2>1
  <2>3. UNION {ToSet(Block(prefixes[i])) : i \in 1..(k+1)} =
          (UNION {ToSet(Block(prefixes[i])) : i \in 1..k}) \cup ToSet(Block(q))
    <3> HIDE DEF q
    <3>1. prefixes[k+1] = q
      BY DEF q
    <3> HIDE DEF Block, ToSet
    <3> QED
      BY <2>1, <3>1
  <2> QED
    BY <1>9, <2>2, <2>3
<1>10. Right(n, it[1..n])
  <2> HIDE DEF Right
  <2> DEFINE P == {k \in 0..n : Right(k, it[1..k])}
  <2>1. 0 \in P /\ \A k \in 0..(n-1) : k \in P => k+1 \in P
    BY <1>2, <1>7, <1>8, <1>9
  <2>2. \A k \in 0..n : k \in P
    <3> HIDE DEF P
    <3> QED
      BY <1>2, <2>1, PlacesInduction
  <2> QED
    BY <1>2, <2>2
<1> QED
  BY <1>1, <1>2, <1>10
-----------------------------------------------------------------------------
(* The powers of two that occur are positive and grow.                     *)
LEMMA Powers ==
    \A b \in 0..(V6Bits + WordBits) :
        2^b \in Nat \ {0} /\ \A c \in 0..b : 2^c <= 2^b
<1> DEFINE n == V6Bits + WordBits
           P == {b \in 0..n : 2^b \in Nat \ {0} /\ \A c \in 0..b : 2^c \in Nat /\ 2^c <= 2^b}
<1>1. n \in Nat
  BY WidthsOK
<1>2. 0 \in P
  <2>1. \A c \in 0..0 : c = 0
    OBVIOUS
  <2>2. 2^0 = 1
    BY PowersOfTwo
  <2>3. 2^0 \in Nat \ {0}
    BY <2>2
  <2>4. \A c \in 0..0 : 2^c \in Nat /\ 2^c <= 2^0
    <3> SUFFICES ASSUME NEW c \in 0..0 PROVE 2^c \in Nat /\ 2^c <= 2^0
      OBVIOUS
    <3>1. c = 0
      BY <2>1
    <3>2. 2^0 \in Nat /\ 2^0 <= 2^0
      BY <2>3
    <3> QED
      BY <3>1, <3>2
  <2>5. 0 \in 0..n
    BY <1>1
  <2> QED
    BY ONLY <2>3, <2>4, <2>5
<1>3. ASSUME NEW k \in 0..(n-1), k \in P PROVE k+1 \in P
  <2>1. 2^(k+1) = 2 * 2^k
    BY <1>1, PowersOfTwo
  <2>2. k+1 \in 0..n /\ \A c \in 0..(k+1) : c = k+1 \/ c \in 0..k
    BY <1>1
  <2>3. ASSUME NEW c \in 0..k PROVE 2^c \in Nat /\ 2^c <= 2^k
    BY <1>3
  <2>4. ASSUME NEW x \in Nat \ {0} PROVE 2 * x \in Nat \ {0} /\ x <= 2 * x
    OBVIOUS
  <2> QED
    BY <1>3, <2>1, <2>2, <2>3, <2>4
<1>4. \A k \in 0..n : k \in P
  <2> HIDE DEF P
  <2> QED
    BY <1>1, <1>2, <1>3, PlacesInduction
<1> QED
  BY <1>4

(* The number of host bits and the number of addresses of a prefix.        *)
Size(p) == 2^hostBits(p)
First(p) == (p.addr.n \div Size(p)) * Size(p)

(* The numbers of a prefix, with the shift of the program no larger than   *)
(* its size.                                                               *)
LEMMA PrefixSize ==
    ASSUME NEW p \in Prefix
    PROVE  /\ hostBits(p) \in 0..V6Bits
           /\ Size(p) \in Nat \ {0}
           /\ First(p) \in Nat
           /\ ShiftedOne(hostBits(p)) \in Nat
           /\ ShiftedOne(hostBits(p)) <= Size(p)
<1>1. hostBits(p) \in 0..V6Bits
  BY WidthsOK DEF hostBits, Prefix, Addr, BitLen
<1>2. Size(p) \in Nat \ {0} /\ 2^WordBits \in Nat \ {0}
  <2>1. hostBits(p) \in 0..(V6Bits + WordBits) /\ WordBits \in 0..(V6Bits + WordBits)
    BY <1>1, WidthsOK
  <2> QED
    BY <2>1, Powers DEF Size
<1>3. First(p) \in Nat
  <2>1. p.addr.n \in Nat
    BY DEF Prefix, Addr
  <2>2. \A x \in Nat, m \in Nat \ {0} : (x \div m) * m \in Nat
    OBVIOUS
  <2> QED
    BY <1>2, <2>1, <2>2 DEF First
<1>4. \A x \in Nat, y \in Nat \ {0} : x % y \in Nat /\ x % y <= x
  OBVIOUS
<1>5. 2^hostBits(p) \in Nat
  BY <1>2 DEF Size
<1> QED
  BY <1>1, <1>2, <1>3, <1>4, <1>5 DEF ShiftedOne, Size

(* Masked keeps the family and moves to the first address of the prefix.   *)
LEMMA MaskedFirst ==
    ASSUME NEW p \in Prefix
    PROVE  /\ Masked(p) \in Prefix
           /\ Masked(p) = [addr |-> [fam |-> p.addr.fam, n |-> First(p)], bits |-> p.bits]
<1>1. First(p) \in Nat
  BY PrefixSize
<1>2. Masked(p) = [addr |-> [fam |-> p.addr.fam, n |-> First(p)], bits |-> p.bits]
  BY DEF Masked, First, Size, Prefix, Addr
<1> QED
  BY <1>1, <1>2 DEF Prefix, Addr, BitLen

(* Contains is a test of the number between two bounds.                    *)
LEMMA InPrefixBounds ==
    ASSUME NEW p \in Prefix, NEW a \in Addr
    PROVE  InPrefix(p, a) <=> /\ a.fam = p.addr.fam
                              /\ First(p) <= a.n /\ a.n < First(p) + Size(p)
<1> DEFINE q == [p EXCEPT !.addr = a]
           m == Size(p)
<1> SUFFICES ASSUME a.fam = p.addr.fam
             PROVE  Masked(q) = Masked(p) <=> First(p) <= a.n /\ a.n < First(p) + m
  BY DEF InPrefix
<1>1. q = [addr |-> a, bits |-> p.bits]
  BY DEF Prefix
<1>2. q \in Prefix /\ hostBits(q) = hostBits(p) /\ Size(q) = m
  BY <1>1 DEF Prefix, hostBits, BitLen, Size
<1>3. Masked(q) = Masked(p) <=> First(q) = First(p)
  <2>1. /\ Masked(q) = [addr |-> [fam |-> q.addr.fam, n |-> First(q)], bits |-> q.bits]
        /\ Masked(p) = [addr |-> [fam |-> p.addr.fam, n |-> First(p)], bits |-> p.bits]
    BY <1>2, MaskedFirst
  <2>2. q.addr.fam = p.addr.fam /\ q.bits = p.bits
    BY <1>1
  <2> QED
    BY <2>1, <2>2
<1>4. First(q) = (a.n \div m) * m /\ First(p) = (p.addr.n \div m) * m
  BY <1>1, <1>2 DEF First
<1>5. \A x, y \in Nat, k \in Nat \ {0} :
         (x \div k) * k = (y \div k) * k <=>
            (y \div k) * k <= x /\ x < (y \div k) * k + k
  <2> SUFFICES ASSUME NEW x \in Nat, NEW y \in Nat, NEW k \in Nat \ {0}
               PROVE  (x \div k) * k = (y \div k) * k <=>
                        (y \div k) * k <= x /\ x < (y \div k) * k + k
    OBVIOUS
  <2> DEFINE u == x \div k
             v == y \div k
  <2>1. u \in Nat /\ v \in Nat /\ u * k <= x /\ x < u * k + k
    OBVIOUS
  <2> HIDE DEF u, v
  <2>2. u < v => u * k + k <= v * k
    BY <2>1
  <2>3. v < u => v * k + k <= u * k
    BY <2>1
  <2>4. u * k \in Nat /\ v * k \in Nat
    BY <2>1
  <2>5. u = v \/ u < v \/ v < u
    BY <2>1
  <2>6. u * k = v * k <=> v * k <= x /\ x < v * k + k
    BY <2>1, <2>2, <2>3, <2>4, <2>5
  <2> QED
    BY <2>6 DEF u, v
<1>6. a.n \in Nat /\ p.addr.n \in Nat /\ m \in Nat \ {0}
  BY PrefixSize DEF Prefix, Addr
<1> QED
  BY <1>3, <1>4, <1>5, <1>6

(* The addresses of a prefix that are scanned are in it.                   *)
LEMMA BlockInPrefix ==
    ASSUME NEW p \in Prefix
    PROVE  /\ Block(p) \in Seq(Addr)
           /\ \A a \in ToSet(Block(p)) : a \in Addr /\ InPrefix(p, a)
<1> DEFINE count == ShiftedOne(hostBits(p))
           e == Ends(p)
           first == First(p)
<1>1. count \in Nat /\ count <= Size(p) /\ Size(p) \in Nat \ {0} /\ first \in Nat
  BY PrefixSize
<1>2. e \in {0, 1} /\ (e = 1 => count > 2)
  BY DEF Ends
<1>3. Masked(p).addr = [fam |-> p.addr.fam, n |-> first] /\ p.addr.fam \in {4, 6}
  BY MaskedFirst DEF Prefix, Addr
<1>4. Block(p) = [i \in 1..(count - 2 * e) |-> [fam |-> p.addr.fam, n |-> first + i - 1 + e]]
  BY <1>3 DEF Block
<1> HIDE DEF count, e, first
<1>5. count - 2 * e \in Nat
  BY <1>1, <1>2
<1>6. \A i \in 1..(count - 2 * e) :
         /\ first + i - 1 + e \in Nat
         /\ first <= first + i - 1 + e
         /\ first + i - 1 + e < first + Size(p)
  BY <1>1, <1>2
<1>7. \A i \in 1..(count - 2 * e) : Block(p)[i] \in Addr /\ InPrefix(p, Block(p)[i])
  <2> SUFFICES ASSUME NEW i \in 1..(count - 2 * e)
               PROVE  Block(p)[i] \in Addr /\ InPrefix(p, Block(p)[i])
    OBVIOUS
  <2> DEFINE a == Block(p)[i]
  <2>1. a = [fam |-> p.addr.fam, n |-> first + i - 1 + e]
    BY <1>4
  <2>2. a \in Addr
    BY <1>3, <1>6, <2>1 DEF Addr
  <2>3. a.fam = p.addr.fam /\ first <= a.n /\ a.n < first + Size(p)
    BY <1>6, <2>1
  <2> HIDE DEF a
  <2>4. InPrefix(p, a)
    BY <2>2, <2>3, InPrefixBounds DEF first
  <2> QED
    BY <2>2, <2>4 DEF a
<1>8. DOMAIN Block(p) = 1..(count - 2 * e)
  BY <1>4
<1>9. Block(p) \in Seq(Addr)
  <2> DEFINE k == count - 2 * e
  <2>1. Block(p) \in [1..k -> Addr] /\ k \in Nat
    BY <1>4, <1>5, <1>7, <1>8
  <2> HIDE DEF k
  <2> QED
    BY <2>1, SeqDef
<1> QED
  BY <1>7, <1>8, <1>9 DEF ToSet

(* What expandProbePrefixes returns when no prefix is too large: every     *)
(* address of every prefix that is a host, once.                           *)
LEMMA Expansion ==
    ASSUME NEW prefixes \in Seq(Prefix), NEW maxHosts, expandProbePrefixes(prefixes, maxHosts).ok
    PROVE  LET expanded == expandProbePrefixes(prefixes, maxHosts).targets
           IN  /\ expanded \in Seq(Addr)
               /\ ToSet(expanded) = UNION {ToSet(Block(prefixes[i])) : i \in DOMAIN prefixes}
               /\ IsInjective(expanded)
<1>1. \A p \in Prefix : Block(p) \in Seq(Addr)
  BY BlockInPrefix
<1>2. expandProbePrefixes(prefixes, maxHosts).targets = FoldLeft(withPrefix, << >>, prefixes)
  BY DEF expandProbePrefixes
<1> QED
  BY <1>1, <1>2, WithPrefixes

(* The sequence of a finite set has all of its elements.                   *)
LEMMA Listed ==
    ASSUME NEW T, IsFiniteSet(T)
    PROVE  SetToSeq(T) \in Seq(T) /\ \A x \in T : \E i \in DOMAIN SetToSeq(T) : SetToSeq(T)[i] = x
<1> DEFINE n == Cardinality(T)
           s == SetToSeq(T)
<1>1. n \in Nat /\ ExistsBijection(1..n, T)
  BY FS_CardinalityType
<1>2. PICK f \in [1..n -> T] : IsInjective(f)
  BY <1>1 DEF ExistsBijection, Bijection, Injection, IsInjective
<1>3. s \in [1..n -> T] /\ IsInjective(s)
  BY <1>2 DEF SetToSeq
<1> HIDE DEF s
<1>4. s \in Injection(1..n, T)
  BY <1>3 DEF Injection, IsInjective
<1>5. Cardinality(1..n) = n
  BY <1>1, FS_Interval
<1>6. s \in Surjection(1..n, T)
  BY <1>4, <1>5, FS_Injection
<1>7. s \in Seq(T) /\ DOMAIN s = 1..n
  BY <1>1, <1>3
<1> QED
  BY <1>6, <1>7 DEF Surjection, s

(* LastText is one of the texts that are given, and no later one is.       *)
LEMMA LastTextSays ==
    ASSUME NEW n \in Nat, NEW says, NEW places \in SUBSET (1..n)
    PROVE  LET given == {i \in places : says[i] # ""}
           IN  /\ given = {} => LastText(says, places) = ""
               /\ given # {} => \E i \in given : /\ LastText(says, places) = says[i]
                                                /\ \A j \in given : j <= i
<1> DEFINE given == {i \in places : says[i] # ""}
<1>1. CASE given = {}
  BY <1>1 DEF LastText
<1>2. CASE given # {}
  <2>1. given \in SUBSET (1..n)
    OBVIOUS
  <2>2. Max(given) \in given /\ \A j \in given : j <= Max(given)
    <3> HIDE DEF given
    <3> QED
      BY <1>2, <2>1, MaxOfPlaces
  <2>3. LastText(says, places) = says[Max(given)]
    BY <1>2 DEF LastText
  <2> QED
    BY <1>2, <2>2, <2>3
<1> QED
  BY <1>1, <1>2

(* An inventory, address by address: who is in it, with which ports, and   *)
(* whose reading gives the texts.                                          *)
About(read, a) == {i \in DOMAIN read : Unmap(read[i].address) = a}
Combines(o, prefixes, read, found) ==
    /\ o = [a \in DOMAIN o |-> o[a]]
    /\ \A a \in DOMAIN o :
          /\ o[a] = [mac |-> o[a].mac, interface |-> o[a].interface,
                     ports |-> o[a].ports, os |-> NoOS]
          /\ containsPrefix(prefixes, a)
          /\ o[a].ports = IF a \in DOMAIN found THEN found[a] ELSE {}
          /\ o[a].mac = LastText([i \in DOMAIN read |-> read[i].mac], About(read, a))
          /\ o[a].interface = LastText([i \in DOMAIN read |-> read[i].interface], About(read, a))
    /\ \A t \in DOMAIN found : containsPrefix(prefixes, t) => t \in DOMAIN o
    /\ \A i \in DOMAIN read : containsPrefix(prefixes, Unmap(read[i].address))
          => Unmap(read[i].address) \in DOMAIN o

(* That is what combineObservations computes.                              *)
LEMMA Combination ==
    ASSUME NEW prefixes, NEW b, NEW c, NEW found, \A t \in DOMAIN found : Unmap(t) = t
    PROVE  Combines(combineObservations(prefixes, b, c, found), prefixes, b \o c, found)
<1> DEFINE o == combineObservations(prefixes, b, c, found)
           read == b \o c
           wanted == {i \in DOMAIN read : containsPrefix(prefixes, Unmap(read[i].address))}
           scanned == {t \in DOMAIN found : containsPrefix(prefixes, Unmap(t))}
           D == {Unmap(read[i].address) : i \in wanted} \cup {Unmap(t) : t \in scanned}
           among(a) == {i \in wanted : Unmap(read[i].address) = a}
           about(a) == {i \in DOMAIN read : Unmap(read[i].address) = a}
           open_(a) == UNION {found[t] : t \in {u \in scanned : Unmap(u) = a}}
<1>1. o = [a \in D |->
             [mac |-> LastText([i \in DOMAIN read |-> read[i].mac], among(a)),
              interface |-> LastText([i \in DOMAIN read |-> read[i].interface], among(a)),
              ports |-> open_(a), os |-> NoOS]]
  BY DEF combineObservations, Readings, Wanted
<1>2. ASSUME NEW a \in D
      PROVE  /\ containsPrefix(prefixes, a)
             /\ among(a) = about(a)
             /\ open_(a) = IF a \in DOMAIN found THEN found[a] ELSE {}
  <2>1. containsPrefix(prefixes, a)
    OBVIOUS
  <2>2. among(a) = about(a)
    BY <2>1
  <2>3. {u \in scanned : Unmap(u) = a} = IF a \in DOMAIN found THEN {a} ELSE {}
    BY <2>1
  <2>4. open_(a) = IF a \in DOMAIN found THEN found[a] ELSE {}
    BY <2>3
  <2> QED
    BY <2>1, <2>2, <2>4
<1>3. \A t \in DOMAIN found : containsPrefix(prefixes, t) => t \in D
  OBVIOUS
<1>4. \A i \in DOMAIN read : containsPrefix(prefixes, Unmap(read[i].address))
         => Unmap(read[i].address) \in D
  OBVIOUS
<1> HIDE DEF o, D, among, open_
<1>5. DOMAIN o = D /\ o = [a \in DOMAIN o |-> o[a]]
  BY <1>1
<1>6. ASSUME NEW a \in D
      PROVE  /\ o[a] = [mac |-> o[a].mac, interface |-> o[a].interface,
                        ports |-> o[a].ports, os |-> NoOS]
             /\ containsPrefix(prefixes, a)
             /\ o[a].ports = IF a \in DOMAIN found THEN found[a] ELSE {}
             /\ o[a].mac = LastText([i \in DOMAIN read |-> read[i].mac], about(a))
             /\ o[a].interface = LastText([i \in DOMAIN read |-> read[i].interface], about(a))
  BY <1>1, <1>2
<1> QED
  BY <1>3, <1>4, <1>5, <1>6 DEF o, Combines, About
(* The targets are finitely many addresses of the networks, none of which  *)
(* is IPv4-mapped.                                                         *)
LEMMA TargetFacts ==
    /\ IsFiniteSet(Targets)
    /\ \A a \in Targets : a \in Addr /\ containsPrefix(Networks, a) /\ Unmap(a) = a
<1> DEFINE list == expandProbePrefixes(Networks, MaxHosts).targets
<1>1. /\ Networks \in Seq(Prefix)
      /\ expandProbePrefixes(Networks, MaxHosts).ok
  BY InventoryConstants
<1>2. /\ list \in Seq(Addr)
      /\ ToSet(list) = UNION {ToSet(Block(Networks[i])) : i \in DOMAIN Networks}
  BY <1>1, Expansion
<1>3. Targets = ToSet(list)
  BY DEF Targets
<1> HIDE DEF list
<1>4. IsFiniteSet(Targets)
  <2> DEFINE n == Len(list)
  <2>1. n \in Nat /\ list \in [1..n -> Addr]
    BY <1>2, LenProperties
  <2>2. list \in Surjection(1..n, Targets)
    BY <1>3, <2>1 DEF Surjection, ToSet
  <2>3. IsFiniteSet(1..n)
    BY <2>1, FS_Interval
  <2> QED
    BY <2>2, <2>3, FS_Surjection
<1>5. ASSUME NEW a \in Targets
      PROVE  a \in Addr /\ containsPrefix(Networks, a) /\ Unmap(a) = a
  <2>1. PICK k \in DOMAIN Networks : a \in ToSet(Block(Networks[k]))
    BY <1>2, <1>3
  <2>2. Networks[k] \in Prefix
    BY <1>1
  <2>3. a \in Addr /\ InPrefix(Networks[k], a)
    BY <2>1, <2>2, BlockInPrefix
  <2>4. ~Is4In6(a)
    <3> SUFFICES ASSUME Is4In6(a) PROVE FALSE
      OBVIOUS
    <3>1. a = [fam |-> 6, n |-> a.n] /\ a.n \in MappedBase..(MappedBase + 2^V4Bits - 1)
      BY <2>3 DEF Is4In6, Addr
    <3> QED
      BY <2>3, <3>1, InventoryConstants
  <2> QED
    BY <2>3, <2>4 DEF containsPrefix, Unmap
<1> QED
  BY <1>4, <1>5
-----------------------------------------------------------------------------
(* What the inductive invariant of Inventory adds to the checked ones.     *)
Neighbour == [address : Cached, interface : {"en0"}, mac : {"", "mac"}]

(* The local variables of Probe are empty until it assigns them.           *)
LocalsOK ==
    /\ before \in Seq(Neighbour) /\ after \in Seq(Neighbour)
    /\ pc \in {"scan", "wait", "stopped"} => steady = {} /\ openPorts = Nothing
    /\ pc \in {"arp before", "ndp before"} => openPorts = Nothing
    /\ pc \notin {"nmap", "discover"} => observations = Nothing
    /\ pc \in {"arp after", "ndp after", "combine"} => undialled = {}

(* A host that answered was up during the probe, and met has all of those. *)
PortsOK ==
    /\ pc \in Probing => up \subseteq met
    /\ \A t \in DOMAIN openPorts : t \in met \cap Listeners /\ openPorts[t] = {22}

(* The kernel knows every steady host that was dialled, and the readings   *)
(* after the dials have it.                                                *)
Dialed(a) == cache[a] = "complete" /\ (a \in Listeners => a \in DOMAIN openPorts)
Reads(r, a) == \E i \in DOMAIN r : r[i].address = a /\ r[i].mac = "mac"
ReadAfter(a) == Reads(after, a)
Complete(o, a) ==
    a \in DOMAIN o /\ o[a].mac = "mac" /\ (a \in Listeners => o[a].ports # {})

SteadyOK ==
    /\ pc \in {"tcp", "arp after", "ndp after", "combine"} =>
          \A a \in steady \ undialled : Dialed(a)
    /\ pc \in {"ndp after", "combine"} => \A a \in steady : a.fam = 4 => ReadAfter(a)
    /\ pc = "combine" => \A a \in steady : ReadAfter(a)
    /\ pc = "nmap" => \A a \in steady : Complete(observations, a)

(* A port or a fingerprint is that of a host that was up.                  *)
Sound(o, hosts) ==
    \A a \in DOMAIN o :
        /\ containsPrefix(Networks, a)
        /\ o[a].ports # {} => a \in hosts \cap Listeners
        /\ o[a].os # NoOS => o[a].ports # {}

(* The hosts with a fingerprint: none before enrichOS, few after it.       *)
Fingerprinted(o) == {a \in DOMAIN o : o[a].os # NoOS}
FewFingerprinted(o) == Cardinality(Fingerprinted(o)) <= OSMaxHosts

ContentsOK ==
    /\ pc = "nmap" => Sound(observations, met) /\ Fingerprinted(observations) = {}
    /\ Sound(inventory, source.met)
    /\ FewFingerprinted(inventory)

(* Times follow from the moments at which the probes began.  The inventory *)
(* comes from an earlier probe than the one under way.                     *)
TimesOK ==
    /\ started # Zero => nextProbe = started + Interval
    /\ inventoryExpires # Zero => inventoryExpires = source.start + 2 * Interval
    /\ pc \in Probing => started # Zero
    /\ source.start \in 0..started
    /\ pc \in Probing => source.start # started

InventoryInv ==
    /\ TypeOK
    /\ LocalsOK
    /\ PortsOK
    /\ SteadyOK
    /\ ContentsOK
    /\ TimesOK
    /\ SteadyHostsObserved

(* What Combine makes of the readings of a probe.                          *)
LEMMA Combined ==
    ASSUME TypeOK, LocalsOK, PortsOK
    PROVE  LET o == combineObservations(Networks, before, after, openPorts)
           IN  /\ o \in [DOMAIN o -> Observed]
               /\ Sound(o, met) /\ Fingerprinted(o) = {}
               /\ \A a \in Targets : ReadAfter(a) /\ (a \in Listeners => a \in DOMAIN openPorts)
                     => Complete(o, a)
<1> DEFINE o == combineObservations(Networks, before, after, openPorts)
           read == before \o after
           n == Len(read)
           about(a) == {i \in DOMAIN read : Unmap(read[i].address) = a}
           macs == [i \in DOMAIN read |-> read[i].mac]
           faces == [i \in DOMAIN read |-> read[i].interface]
<1>1. \A t \in DOMAIN openPorts : t \in Targets /\ Unmap(t) = t
  BY TargetFacts DEF TypeOK
<1>2. before \in Seq(Neighbour) /\ after \in Seq(Neighbour)
  BY DEF LocalsOK
<1>3. /\ read \in Seq(Neighbour) /\ n \in Nat /\ DOMAIN read = 1..n
      /\ Len(before) \in Nat /\ Len(after) \in Nat /\ DOMAIN after = 1..Len(after)
      /\ n = Len(before) + Len(after)
      /\ \A i \in 1..Len(after) : read[Len(before) + i] = after[i]
  BY <1>2, ConcatProperties, LenProperties
<1>4. \A i \in 1..n : read[i] \in Neighbour
  BY <1>3, ElementOfSeq
<1>5. \A a : about(a) \in SUBSET (1..n)
  BY <1>3
<1>6. /\ \A a \in DOMAIN o :
            /\ o[a] = [mac |-> o[a].mac, interface |-> o[a].interface,
                       ports |-> o[a].ports, os |-> NoOS]
            /\ containsPrefix(Networks, a)
            /\ o[a].ports = IF a \in DOMAIN openPorts THEN openPorts[a] ELSE {}
            /\ o[a].mac = LastText(macs, about(a))
            /\ o[a].interface = LastText(faces, about(a))
      /\ o = [a \in DOMAIN o |-> o[a]]
      /\ \A t \in DOMAIN openPorts : containsPrefix(Networks, t) => t \in DOMAIN o
      /\ \A i \in DOMAIN read : containsPrefix(Networks, Unmap(read[i].address))
            => Unmap(read[i].address) \in DOMAIN o
  <2>1. \A t \in DOMAIN openPorts : Unmap(t) = t
    BY <1>1
  <2>2. Combines(o, Networks, read, openPorts)
    BY <2>1, Combination
  <2> QED
    BY <2>2 DEF Combines, About
<1>7. \A i \in 1..n : macs[i] \in {"", "mac"} /\ faces[i] = "en0"
  BY <1>3, <1>4 DEF Neighbour
<1> HIDE DEF o, read, n, about, macs, faces
<1>8. ASSUME NEW a
      PROVE  /\ LastText(macs, about(a)) \in {"", "mac"}
             /\ LastText(faces, about(a)) \in {"", "en0"}
             /\ (\E i \in about(a) : macs[i] = "mac") => LastText(macs, about(a)) = "mac"
  <2>1. /\ n \in Nat /\ about(a) \in SUBSET (1..n)
    BY <1>3, <1>5
  <2>2. LET given == {i \in about(a) : macs[i] # ""}
        IN  /\ given = {} => LastText(macs, about(a)) = ""
            /\ given # {} => \E i \in given : /\ LastText(macs, about(a)) = macs[i]
                                             /\ \A j \in given : j <= i
    BY <2>1, LastTextSays
  <2>3. LET given == {i \in about(a) : faces[i] # ""}
        IN  /\ given = {} => LastText(faces, about(a)) = ""
            /\ given # {} => \E i \in given : /\ LastText(faces, about(a)) = faces[i]
                                             /\ \A j \in given : j <= i
    BY <2>1, LastTextSays
  <2>4. LastText(macs, about(a)) \in {"", "mac"}
    BY <1>7, <2>1, <2>2
  <2>5. LastText(faces, about(a)) \in {"", "en0"}
    BY <1>7, <2>1, <2>3
  <2>6. (\E i \in about(a) : macs[i] = "mac") => LastText(macs, about(a)) = "mac"
    BY <1>7, <2>1, <2>2
  <2> QED
    BY <2>4, <2>5, <2>6
<1>9. o \in [DOMAIN o -> Observed]
  <2>1. \A a \in DOMAIN o : o[a].ports \in SUBSET {22}
    BY <1>6 DEF PortsOK
  <2>2. ASSUME NEW a \in DOMAIN o PROVE o[a] \in Observed
    <3>1. \A m \in {"", "mac"}, f \in {"", "en0"}, ports \in SUBSET {22} :
             [mac |-> m, interface |-> f, ports |-> ports, os |-> NoOS] \in Observed
      BY DEF Observed
    <3>2. o[a].mac \in {"", "mac"} /\ o[a].interface \in {"", "en0"}
      BY <1>6, <1>8
    <3>3. [mac |-> o[a].mac, interface |-> o[a].interface, ports |-> o[a].ports, os |-> NoOS]
            \in Observed
      BY <2>1, <3>1, <3>2
    <3> QED
      BY <1>6, <3>3
  <2> QED
    BY <1>6, <2>2
<1>10. Sound(o, met) /\ Fingerprinted(o) = {}
  <2>1. \A a \in DOMAIN o : o[a].os = NoOS
    BY <1>6
  <2>2. Fingerprinted(o) = {}
    BY <2>1 DEF Fingerprinted
  <2> QED
    BY <1>6, <2>1, <2>2 DEF Sound, PortsOK
<1>11. ASSUME NEW a \in Targets, ReadAfter(a), a \in Listeners => a \in DOMAIN openPorts
       PROVE  Complete(o, a)
  <2>1. PICK k \in DOMAIN after : after[k].address = a /\ after[k].mac = "mac"
    BY <1>11 DEF ReadAfter, Reads
  <2> DEFINE i == Len(before) + k
  <2>2. i \in 1..n /\ read[i] = after[k]
    BY <1>3
  <2> HIDE DEF i
  <2>3. Unmap(a) = a /\ containsPrefix(Networks, a)
    BY TargetFacts
  <2>4. i \in about(a) /\ macs[i] = "mac" /\ a \in DOMAIN o
    BY <1>3, <1>6, <2>1, <2>2, <2>3 DEF about, macs
  <2>5. o[a].mac = "mac"
    BY <1>6, <1>8, <2>4
  <2>6. a \in Listeners => o[a].ports = {22}
    BY <1>6, <1>11, <2>4 DEF PortsOK
  <2> QED
    BY <2>4, <2>5, <2>6 DEF Complete
<1> QED
  BY <1>9, <1>10, <1>11 DEF o

(* A set of places below m has at most m members.                          *)
LEMMA Ranked ==
    ASSUME NEW S, NEW m \in Nat, NEW f \in [S -> 0..(m - 1)],
           \A a, b \in S : f[a] = f[b] => a = b
    PROVE  IsFiniteSet(S) /\ Cardinality(S) <= m
<1>1. f \in Injection(S, 0..(m - 1))
  BY DEF Injection, IsInjective
<1>2. IsFiniteSet(0..(m - 1)) /\ Cardinality(0..(m - 1)) = m
  BY FS_Interval
<1>3. IsFiniteSet(S) /\ Cardinality(S) <= Cardinality(0..(m - 1))
  BY <1>1, <1>2, FS_Injection
<1> QED
  BY <1>2, <1>3

(* enrichOS passes at most so many hosts to nmap as it is allowed: of the  *)
(* hosts with open ports, each has a number of smaller ones of its own.    *)
LEMMA NmapBounded ==
    ASSUME NEW o, NEW m \in Nat, NEW T, IsFiniteSet(T), T \subseteq Addr,
           \A a \in DOMAIN o : o[a].ports # {} => a \in T
    PROVE  IsFiniteSet(NmapTargets(o, m)) /\ Cardinality(NmapTargets(o, m)) <= m
<1> DEFINE answered == {a \in DOMAIN o : o[a].ports # {}}
           below(a) == {b \in answered : Less(b, a)}
           S == {a \in answered : Cardinality(below(a)) < m}
           f == [a \in S |-> Cardinality(below(a))]
<1>1. answered \subseteq T /\ IsFiniteSet(answered)
  BY FS_Subset
<1>2. \A a \in answered : a \in Addr /\ a.fam \in {4, 6} /\ a.n \in Nat
                       /\ a = [fam |-> a.fam, n |-> a.n]
  BY <1>1 DEF Addr
<1>3. \A a : below(a) \subseteq answered /\ IsFiniteSet(below(a)) /\ Cardinality(below(a)) \in Nat
  BY <1>1, FS_Subset, FS_CardinalityType
<1>4. \A a, b \in answered : Less(a, b) \/ Less(b, a) \/ a = b
  BY <1>2 DEF Less
<1>5. \A a, b, c \in answered : Less(a, b) /\ Less(b, c) => Less(a, c)
  BY <1>2 DEF Less
<1>6. \A a \in answered : ~Less(a, a)
  BY <1>2 DEF Less
<1>7. ASSUME NEW a \in answered, NEW b \in answered, Less(a, b)
      PROVE  Cardinality(below(a)) # Cardinality(below(b))
  <2>1. below(a) \in SUBSET below(b) /\ a \in below(b) /\ a \notin below(a)
    BY <1>5, <1>6, <1>7
  <2>2. below(a) # below(b)
    BY <2>1
  <2> HIDE DEF below
  <2> QED
    BY <1>3, <2>1, <2>2, FS_Subset
<1>8. NmapTargets(o, m) = S
  BY DEF NmapTargets
<1>9. f \in [S -> 0..(m - 1)]
  <2> HIDE DEF below, answered
  <2>1. \A c \in Nat : c < m => c \in 0..(m - 1)
    OBVIOUS
  <2> QED
    BY <1>3, <2>1
<1>10. \A a, b \in S : f[a] = f[b] => a = b
  BY <1>4, <1>7
<1> HIDE DEF S, f
<1>11. IsFiniteSet(S) /\ Cardinality(S) <= m
  BY <1>9, <1>10, Ranked
<1> QED
  BY <1>8, <1>11

(* enrichOS only adds fingerprints, to hosts with open ports, and to no    *)
(* more of them than it is allowed.                                        *)
LEMMA Enriched ==
    ASSUME NEW o, o \in [DOMAIN o -> Observed], NEW known \in SUBSET NmapTargets(o, OSMaxHosts),
           NEW hosts \in SUBSET Targets
    PROVE  LET e == enriched(o, [a \in known |-> "an OS"])
           IN  /\ e \in [DOMAIN e -> Observed]
               /\ Sound(o, hosts) => Sound(e, hosts)
               /\ Sound(o, hosts) /\ Fingerprinted(o) = {} => FewFingerprinted(e)
               /\ \A a : Complete(o, a) => Complete(e, a)
<1> DEFINE e == enriched(o, [a \in known |-> "an OS"])
<1>1. known \subseteq DOMAIN o /\ \A a \in known : o[a].ports # {}
  BY DEF NmapTargets
<1>2. e = [a \in DOMAIN o |->
             IF a \in known THEN [o[a] EXCEPT !.os = "an OS"] ELSE o[a]]
  BY DEF enriched
<1> HIDE DEF e
<1>3. \A a \in DOMAIN o :
         /\ e[a] \in Observed /\ e[a].mac = o[a].mac /\ e[a].ports = o[a].ports
         /\ a \notin known => e[a].os = o[a].os
  BY <1>2 DEF Observed
<1>4. DOMAIN e = DOMAIN o /\ e \in [DOMAIN e -> Observed]
  BY <1>2, <1>3
<1>5. ASSUME Sound(o, hosts), Fingerprinted(o) = {} PROVE FewFingerprinted(e)
  <2>1. Fingerprinted(e) \in SUBSET NmapTargets(o, OSMaxHosts)
    BY <1>3, <1>4, <1>5 DEF Fingerprinted
  <2>2. /\ IsFiniteSet(NmapTargets(o, OSMaxHosts))
        /\ Cardinality(NmapTargets(o, OSMaxHosts)) <= OSMaxHosts
    <3>1. \A a \in DOMAIN o : o[a].ports # {} => a \in Targets
      BY <1>5 DEF Sound
    <3>2. IsFiniteSet(Targets) /\ Targets \subseteq Addr /\ OSMaxHosts \in Nat
      BY TargetFacts, InventoryConstants
    <3> QED
      BY <3>1, <3>2, NmapBounded
  <2>3. /\ IsFiniteSet(Fingerprinted(e))
        /\ Cardinality(Fingerprinted(e)) <= Cardinality(NmapTargets(o, OSMaxHosts))
    BY <2>1, <2>2, FS_Subset
  <2>4. /\ Cardinality(Fingerprinted(e)) \in Nat /\ OSMaxHosts \in Nat
        /\ Cardinality(NmapTargets(o, OSMaxHosts)) \in Nat
    BY <2>2, <2>3, FS_CardinalityType, InventoryConstants
  <2> QED
    BY <2>2, <2>3, <2>4 DEF FewFingerprinted
<1> QED
  BY <1>1, <1>3, <1>4, <1>5 DEF Sound, Complete, e

(* An inventory without fingerprints has few of them.                      *)
LEMMA NoneIsFew == \A o : Fingerprinted(o) = {} => FewFingerprinted(o)
<1>1. Cardinality({}) = 0 /\ OSMaxHosts \in Nat
  BY FS_EmptySet, InventoryConstants
<1> QED
  BY <1>1 DEF FewFingerprinted

(* The constants that bound the times. *)
LEMMA Bounds ==
    /\ 0 \in 0..MaxFlips /\ 1 \in 1..MaxTime
    /\ \A f \in 0..MaxFlips : f < MaxFlips => f + 1 \in 0..MaxFlips
    /\ \A t \in 1..MaxTime : t # 0 /\ t \in 0..MaxTime /\ (t < MaxTime => t + 1 \in 1..MaxTime)
    /\ \A t \in 0..MaxTime : /\ t + Interval \in 0..(MaxTime + Interval) /\ t + Interval # 0
                            /\ t + 2 * Interval \in 0..(MaxTime + 2 * Interval)
    /\ 0 \in 0..MaxTime /\ 0 \in 0..(MaxTime + Interval) /\ 0 \in 0..(MaxTime + 2 * Interval)
<1>1. MaxTime \in Nat \ {0} /\ MaxFlips \in Nat /\ Interval \in Nat \ {0}
  BY InventoryConstants
<1> QED
  BY <1>1

(* A daemon that begins has no inventory and no probe under way.           *)
LEMMA InventoryInitially == Init => InventoryInv
<1> SUFFICES ASSUME Init PROVE InventoryInv
  OBVIOUS
<1>1. DOMAIN Nothing = {} /\ Nothing \in [DOMAIN Nothing -> Observed]
  BY DEF Nothing
<1>2. TypeOK
  <2>1. cache \in [Cached -> {"absent", "incomplete", "complete"}]
    BY DEF Init
  <2>2. now \in 1..MaxTime /\ flips \in 0..MaxFlips /\ nextProbe \in 0..(MaxTime + Interval)
        /\ started \in 0..MaxTime /\ inventoryExpires \in 0..(MaxTime + 2 * Interval)
    BY Bounds DEF Init, Zero
  <2> QED
    BY <1>1, <2>1, <2>2 DEF Init, TypeOK, Probing
<1>3. LocalsOK
  <2>1. << >> \in Seq(Neighbour)
    OBVIOUS
  <2> QED
    BY <2>1 DEF Init, LocalsOK
<1>4. FewFingerprinted(inventory)
  BY <1>1, NoneIsFew DEF Init, Fingerprinted
<1>5. source.start \in 0..started
  <2>1. source = [start |-> Zero, met |-> {}] /\ started = Zero
    BY DEF Init
  <2>2. source.start = Zero
    BY <2>1, Zenon
  <2>3. Zero \in 0..Zero
    BY DEF Zero
  <2> QED
    BY <2>1, <2>2, <2>3
<1> QED
  BY <1>1, <1>2, <1>3, <1>4, <1>5 DEF Init, InventoryInv, PortsOK, SteadyOK, ContentsOK, Sound,
     TimesOK, Probing, Reading, Zero, SteadyHostsObserved, ProbeEnded

(* The empty inventory.                                                    *)
LEMMA NothingHasNone == DOMAIN Nothing = {} /\ Nothing \in [DOMAIN Nothing -> Observed]
  BY DEF Nothing

(* Every step keeps the types. *)
LEMMA InventoryTyped ==
    ASSUME InventoryInv, [Next]_vars
    PROVE  TypeOK'
<1> USE Bounds DEF TypeOK, Probing, Reading, host, throttle, readings, stored, witness
<1>0. TypeOK
  BY DEF InventoryInv
<1>1. CASE ClockTick
  BY <1>0, <1>1 DEF ClockTick
<1>2. CASE Cancel
  BY <1>0, <1>2 DEF Cancel
<1>3. CASE Skip
  BY <1>0, <1>3 DEF Skip
<1>4. CASE Begin
  BY <1>0, <1>4 DEF Begin
<1>5. CASE ProbeFails
  BY <1>0, <1>5 DEF ProbeFails
<1>6. CASE Dialled
  BY <1>0, <1>6 DEF Dialled
<1>7. CASE Combine
  <2>1. observations' \in [DOMAIN observations' -> Observed]
    BY <1>7, Combined DEF Combine, InventoryInv
  <2> QED
    BY <1>0, <1>7, <2>1 DEF Combine
<1>8. CASE NmapFails
  <2>1. inventory' = observations /\ inventoryExpires' = started + 2 * Interval /\ pc' = "discover"
    BY <1>8 DEF NmapFails, Store
  <2> QED
    BY <1>0, <1>8, <2>1 DEF NmapFails, Store
<1>9. CASE NmapReports
  <2>1. PICK known \in SUBSET NmapTargets(observations, OSMaxHosts) :
           Store(enriched(observations, [a \in known |-> "an OS"]))
    BY <1>9 DEF NmapReports
  <2>2. inventory' \in [DOMAIN inventory' -> Observed]
    BY <1>0, <2>1, Enriched DEF Store
  <2>3. inventoryExpires' = started + 2 * Interval /\ pc' = "discover"
    BY <2>1 DEF Store
  <2> QED
    BY <1>0, <2>1, <2>2, <2>3 DEF Store
<1>10. CASE Discover
  BY <1>0, <1>10, NothingHasNone DEF Discover
<1>11. CASE NextScan
  BY <1>0, <1>11 DEF NextScan
<1>12. CASE Stop
  BY <1>0, <1>12 DEF Stop
<1>13. CASE Stopped
  BY <1>0, <1>13 DEF Stopped, vars
<1>14. ASSUME NEW a \in Targets, Arrive(a) PROVE TypeOK'
  BY <1>0, <1>14 DEF Arrive
<1>15. ASSUME NEW a \in Targets, Leave(a) PROVE TypeOK'
  BY <1>0, <1>15 DEF Leave
<1>16. ASSUME NEW a \in Targets, Expire(a) PROVE TypeOK'
  BY <1>0, <1>16 DEF Expire
<1>17. ASSUME NEW a \in Targets, Dial(a) PROVE TypeOK'
  BY <1>0, <1>17 DEF Dial
<1>18. ASSUME NEW step \in Reading, List(step) PROVE TypeOK'
  BY <1>0, <1>18 DEF List, ReadTable, Following
<1>19. ASSUME NEW step \in Reading, ListNothing(step) PROVE TypeOK'
  BY <1>0, <1>19 DEF ListNothing, ReadTable, Following
<1>20. CASE UNCHANGED vars
  BY <1>0, <1>20 DEF vars
<1> QED
  BY <1>1, <1>2, <1>3, <1>4, <1>5, <1>6, <1>7, <1>8, <1>9, <1>10, <1>11, <1>12, <1>13, <1>14, <1>15, <1>16, <1>17, <1>18, <1>19, <1>20 DEF Next, Network, Daemon

(* The kernel caches the targets and the outsiders, finitely many.         *)
LEMMA CachedFinite == IsFiniteSet(Cached) /\ Targets \subseteq Cached
<1>1. IsFiniteSet(Targets) /\ IsFiniteSet(Outsiders)
  BY TargetFacts, InventoryConstants
<1> QED
  BY <1>1, FS_Union DEF Cached

(* A command lists every entry of its table.                               *)
LEMMA TableListed ==
    ASSUME TypeOK, NEW family
    PROVE  /\ SetToSeq(Table(family)) \in Seq(Neighbour)
           /\ \A a \in Targets :
                 a.fam = family /\ cache[a] = "complete" =>
                     \E i \in DOMAIN SetToSeq(Table(family)) :
                         /\ SetToSeq(Table(family))[i].address = a
                         /\ SetToSeq(Table(family))[i].mac = "mac"
<1> DEFINE listed == {b \in Cached : b.fam = family /\ cache[b] # "absent"}
<1>1. IsFiniteSet(listed)
  BY CachedFinite, FS_Subset
<1>2. IsFiniteSet(Table(family))
  <2> DEFINE f == [a \in listed |-> Entry(a)]
  <2>1. f \in Surjection(listed, Table(family))
    BY DEF Table, Surjection
  <2> QED
    BY <1>1, <2>1, FS_Surjection
<1>3. \A a \in Cached : Entry(a) \in Neighbour /\ Entry(a).address = a
  BY DEF Entry, Neighbour
<1>4. Table(family) \subseteq Neighbour
  BY <1>3 DEF Table
<1>5. SetToSeq(Table(family)) \in Seq(Neighbour)
  <2> DEFINE T == Table(family)
  <2>1. SetToSeq(T) \in Seq(T) /\ T \subseteq Neighbour
    BY <1>2, <1>4, Listed
  <2> HIDE DEF T
  <2>2. SetToSeq(T) \in Seq(Neighbour)
    BY <2>1
  <2> QED
    BY <2>2 DEF T
<1>6. ASSUME NEW a \in Targets, a.fam = family, cache[a] = "complete"
      PROVE  Entry(a) \in Table(family) /\ Entry(a).address = a /\ Entry(a).mac = "mac"
  BY <1>6, CachedFinite DEF Table, Entry
<1> QED
  BY <1>2, <1>5, <1>6, Listed

(* Every step keeps the local variables of Probe in order.                 *)
LEMMA InventoryLocals ==
    ASSUME InventoryInv, [Next]_vars
    PROVE  LocalsOK'
<1> USE DEF InventoryInv, LocalsOK, host, throttle, readings, stored, witness, Reading
<1>1. CASE ClockTick
  BY <1>1 DEF ClockTick
<1>2. CASE Cancel
  BY <1>2 DEF Cancel
<1>3. CASE Skip
  BY <1>3 DEF Skip
<1>4. CASE Begin
  BY <1>4 DEF Begin
<1>5. CASE ProbeFails
  BY <1>5 DEF ProbeFails
<1>6. CASE Dialled
  BY <1>6 DEF Dialled
<1>7. CASE Combine
  BY <1>7 DEF Combine
<1>8. CASE NmapFails
  BY <1>8 DEF NmapFails, Store
<1>9. CASE NmapReports
  <2>1. PICK known \in SUBSET NmapTargets(observations, OSMaxHosts) :
           Store(enriched(observations, [a \in known |-> "an OS"]))
    BY <1>9 DEF NmapReports
  <2> QED
    BY <1>9, <2>1 DEF NmapReports, Store
<1>10. CASE Discover
  BY <1>10 DEF Discover
<1>11. CASE NextScan
  BY <1>11 DEF NextScan
<1>12. CASE Stop
  BY <1>12 DEF Stop
<1>13. CASE Stopped
  BY <1>13 DEF Stopped, vars
<1>14. ASSUME NEW a \in Targets, Arrive(a) PROVE LocalsOK'
  BY <1>14 DEF Arrive
<1>15. ASSUME NEW a \in Targets, Leave(a) PROVE LocalsOK'
  BY <1>15 DEF Leave
<1>16. ASSUME NEW a \in Targets, Expire(a) PROVE LocalsOK'
  BY <1>16 DEF Expire
<1>17. ASSUME NEW a \in Targets, Dial(a) PROVE LocalsOK'
  BY <1>17 DEF Dial
<1>18. ASSUME NEW step \in Reading, List(step) PROVE LocalsOK'
  <2>1. SetToSeq(Table(Family(step))) \in Seq(Neighbour)
    BY TableListed
  <2>2. before' \in Seq(Neighbour) /\ after' \in Seq(Neighbour)
    BY <1>18, <2>1, ConcatProperties DEF List, ReadTable
  <2> QED
    BY <1>18, <2>2 DEF List, ReadTable, Following
<1>19. ASSUME NEW step \in Reading, ListNothing(step) PROVE LocalsOK'
  <2>1. << >> \in Seq(Neighbour)
    BY EmptySeq
  <2>2. before' \in Seq(Neighbour) /\ after' \in Seq(Neighbour)
    BY <1>19, <2>1, ConcatProperties DEF ListNothing, ReadTable
  <2> QED
    BY <1>19, <2>2 DEF ListNothing, ReadTable, Following
<1>20. CASE UNCHANGED vars
  BY <1>20 DEF vars
<1> QED
  BY <1>1, <1>2, <1>3, <1>4, <1>5, <1>6, <1>7, <1>8, <1>9, <1>10,
     <1>11, <1>12, <1>13, <1>14, <1>15, <1>16, <1>17, <1>18, <1>19, <1>20 DEF Next, Network, Daemon

(* Every step keeps the open ports those of hosts that were up.            *)
LEMMA InventoryPorts ==
    ASSUME InventoryInv, [Next]_vars
    PROVE  PortsOK'
<1> USE DEF InventoryInv, TypeOK, LocalsOK, PortsOK, host, throttle, readings, stored, witness, Probing, Reading
<1>1. CASE ClockTick
  BY <1>1 DEF ClockTick
<1>2. CASE Cancel
  BY <1>2 DEF Cancel
<1>3. CASE Skip
  BY <1>3 DEF Skip
<1>4. CASE Begin
  <2>1. DOMAIN openPorts' = {}
    BY <1>4, NothingHasNone DEF Begin
  <2> QED
    BY <1>4, <2>1 DEF Begin
<1>5. CASE ProbeFails
  BY <1>5 DEF ProbeFails
<1>6. CASE Dialled
  BY <1>6 DEF Dialled
<1>7. CASE Combine
  BY <1>7 DEF Combine
<1>8. CASE NmapFails
  BY <1>8 DEF NmapFails, Store
<1>9. CASE NmapReports
  <2>1. PICK known \in SUBSET NmapTargets(observations, OSMaxHosts) :
           Store(enriched(observations, [a \in known |-> "an OS"]))
    BY <1>9 DEF NmapReports
  <2> QED
    BY <2>1 DEF Store
<1>10. CASE Discover
  <2>1. DOMAIN openPorts' = {}
    BY <1>10, NothingHasNone DEF Discover
  <2> QED
    BY <1>10, <2>1 DEF Discover
<1>11. CASE NextScan
  BY <1>11 DEF NextScan
<1>12. CASE Stop
  BY <1>12 DEF Stop
<1>13. CASE Stopped
  BY <1>13 DEF Stopped, vars
<1>14. ASSUME NEW a \in Targets, Arrive(a) PROVE PortsOK'
  BY <1>14 DEF Arrive
<1>15. ASSUME NEW a \in Targets, Leave(a) PROVE PortsOK'
  BY <1>15 DEF Leave
<1>16. ASSUME NEW a \in Targets, Expire(a) PROVE PortsOK'
  BY <1>16 DEF Expire
<1>17. ASSUME NEW a \in Targets, Dial(a) PROVE PortsOK'
  <2>1. pc \in Probing /\ (a \in up => a \in met)
    BY <1>17 DEF Dial
  <2>2. /\ DOMAIN openPorts' = DOMAIN openPorts \cup ({a} \cap up \cap Listeners)
        /\ \A t \in DOMAIN openPorts' : openPorts'[t] = {22}
    BY <1>17 DEF Dial
  <2> QED
    BY <1>17, <2>1, <2>2 DEF Dial
<1>18. ASSUME NEW step \in Reading, List(step) PROVE PortsOK'
  BY <1>18 DEF List, ReadTable
<1>19. ASSUME NEW step \in Reading, ListNothing(step) PROVE PortsOK'
  BY <1>19 DEF ListNothing, ReadTable
<1>20. CASE UNCHANGED vars
  BY <1>20 DEF vars
<1> QED
  BY <1>1, <1>2, <1>3, <1>4, <1>5, <1>6, <1>7, <1>8, <1>9, <1>10,
     <1>11, <1>12, <1>13, <1>14, <1>15, <1>16, <1>17, <1>18, <1>19, <1>20 DEF Next, Network, Daemon

(* A probe begins later than the one the inventory comes from.             *)
LEMMA BeginsLater ==
    ASSUME TypeOK, TimesOK, Begin
    PROVE  source.start \in 0..now /\ source.start # now
<1>1. now \in Nat /\ now > 0 /\ started \in Nat /\ Interval \in Nat /\ Interval > 0
  <2>1. MaxTime \in Nat /\ Interval \in Nat \ {0} /\ now \in 1..MaxTime /\ started \in 0..MaxTime
    BY InventoryConstants DEF TypeOK
  <2> QED
    BY <2>1
<1>2. source.start \in Nat /\ source.start <= started
  BY <1>1 DEF TimesOK
<1>3. nextProbe = 0 \/ now >= nextProbe
  BY DEF Begin, Due, Zero
<1>4. started # 0 => nextProbe = started + Interval
  BY DEF TimesOK, Zero
<1> QED
  BY <1>1, <1>2, <1>3, <1>4

(* What is stored dates from the beginning of the probe.                   *)
LEMMA StoredTimes ==
    ASSUME TypeOK, TimesOK, NEW result, Store(result)
    PROVE  TimesOK'
<1>1. /\ started' = started /\ nextProbe' = nextProbe /\ pc' = "discover"
      /\ inventoryExpires' = started + 2 * Interval /\ source'.start = started
  BY DEF Store, throttle
<1>2. started \in 0..started
  <2>1. MaxTime \in Nat /\ started \in 0..MaxTime
    BY InventoryConstants DEF TypeOK
  <2> QED
    BY <2>1
<1> QED
  BY <1>1, <1>2 DEF TimesOK, Probing, Reading

(* Every step keeps the times that follow from the beginning of a probe.   *)
LEMMA InventoryTimes ==
    ASSUME InventoryInv, [Next]_vars
    PROVE  TimesOK'
<1> USE DEF InventoryInv, TypeOK, TimesOK, Zero, host, throttle, readings, stored, witness, Probing, Reading
<1>1. CASE ClockTick
  BY <1>1 DEF ClockTick
<1>2. CASE Cancel
  BY <1>2 DEF Cancel
<1>3. CASE Skip
  BY <1>3 DEF Skip
<1>4. CASE Begin
  <2>1. now # 0
    BY Bounds
  <2>2. nextProbe' = started' + Interval /\ inventoryExpires' = inventoryExpires
        /\ source' = source /\ started' = now
    BY <1>4 DEF Begin
  <2>3. source.start \in 0..now /\ source.start # now
    BY <1>4, BeginsLater
  <2> QED
    BY <2>1, <2>2, <2>3
<1>5. CASE ProbeFails
  BY <1>5 DEF ProbeFails
<1>6. CASE Dialled
  BY <1>6 DEF Dialled
<1>7. CASE Combine
  BY <1>7 DEF Combine
<1>8. CASE NmapFails
  <2>1. Store(observations)
    BY <1>8 DEF NmapFails
  <2> QED
    BY <2>1, StoredTimes
<1>9. CASE NmapReports
  <2>1. PICK known \in SUBSET NmapTargets(observations, OSMaxHosts) :
           Store(enriched(observations, [a \in known |-> "an OS"]))
    BY <1>9 DEF NmapReports
  <2> QED
    BY <2>1, StoredTimes
<1>10. CASE Discover
  BY <1>10 DEF Discover
<1>11. CASE NextScan
  BY <1>11 DEF NextScan
<1>12. CASE Stop
  BY <1>12 DEF Stop
<1>13. CASE Stopped
  BY <1>13 DEF Stopped, vars
<1>14. ASSUME NEW a \in Targets, Arrive(a) PROVE TimesOK'
  BY <1>14 DEF Arrive
<1>15. ASSUME NEW a \in Targets, Leave(a) PROVE TimesOK'
  BY <1>15 DEF Leave
<1>16. ASSUME NEW a \in Targets, Expire(a) PROVE TimesOK'
  BY <1>16 DEF Expire
<1>17. ASSUME NEW a \in Targets, Dial(a) PROVE TimesOK'
  BY <1>17 DEF Dial
<1>18. ASSUME NEW step \in Reading, List(step) PROVE TimesOK'
  BY <1>18 DEF List, ReadTable, Following
<1>19. ASSUME NEW step \in Reading, ListNothing(step) PROVE TimesOK'
  BY <1>19 DEF ListNothing, ReadTable, Following
<1>20. CASE UNCHANGED vars
  BY <1>20 DEF vars
<1> QED
  BY <1>1, <1>2, <1>3, <1>4, <1>5, <1>6, <1>7, <1>8, <1>9, <1>10,
     <1>11, <1>12, <1>13, <1>14, <1>15, <1>16, <1>17, <1>18, <1>19, <1>20 DEF Next, Network, Daemon

(* Every step keeps what an inventory may contain.                         *)
LEMMA InventoryContents ==
    ASSUME InventoryInv, [Next]_vars
    PROVE  ContentsOK'
<1> USE DEF InventoryInv, TypeOK, ContentsOK, host, throttle, readings, stored, witness, Probing, Reading
<1>1. CASE ClockTick
  BY <1>1 DEF ClockTick
<1>2. CASE Cancel
  BY <1>2 DEF Cancel
<1>3. CASE Skip
  BY <1>3 DEF Skip
<1>4. CASE Begin
  BY <1>4 DEF Begin
<1>5. CASE ProbeFails
  BY <1>5 DEF ProbeFails
<1>6. CASE Dialled
  BY <1>6 DEF Dialled
<1>7. CASE Combine
  <2>1. Sound(observations', met) /\ Fingerprinted(observations') = {}
    BY <1>7, Combined DEF Combine
  <2> QED
    BY <1>7, <2>1 DEF Combine, Sound
<1>8. CASE NmapFails
  BY <1>8, NoneIsFew DEF NmapFails, Store, Sound
<1>9. CASE NmapReports
  <2>1. PICK known \in SUBSET NmapTargets(observations, OSMaxHosts) :
           Store(enriched(observations, [a \in known |-> "an OS"]))
    BY <1>9 DEF NmapReports
  <2>2. Sound(inventory', met) /\ FewFingerprinted(inventory')
    <3>1. Sound(observations, met) /\ Fingerprinted(observations) = {} /\ met \in SUBSET Targets
      BY <1>9 DEF NmapReports
    <3> QED
      BY <2>1, <3>1, Enriched DEF Store
  <2> QED
    BY <1>9, <2>1, <2>2 DEF NmapReports, Store
<1>10. CASE Discover
  BY <1>10 DEF Discover
<1>11. CASE NextScan
  BY <1>11 DEF NextScan
<1>12. CASE Stop
  BY <1>12 DEF Stop
<1>13. CASE Stopped
  BY <1>13 DEF Stopped, vars
<1>14. ASSUME NEW a \in Targets, Arrive(a) PROVE ContentsOK'
  BY <1>14 DEF Arrive, Sound
<1>15. ASSUME NEW a \in Targets, Leave(a) PROVE ContentsOK'
  BY <1>15 DEF Leave
<1>16. ASSUME NEW a \in Targets, Expire(a) PROVE ContentsOK'
  BY <1>16 DEF Expire
<1>17. ASSUME NEW a \in Targets, Dial(a) PROVE ContentsOK'
  BY <1>17 DEF Dial
<1>18. ASSUME NEW step \in Reading, List(step) PROVE ContentsOK'
  BY <1>18 DEF List, ReadTable, Following
<1>19. ASSUME NEW step \in Reading, ListNothing(step) PROVE ContentsOK'
  BY <1>19 DEF ListNothing, ReadTable, Following
<1>20. CASE UNCHANGED vars
  BY <1>20 DEF vars
<1> QED
  BY <1>1, <1>2, <1>3, <1>4, <1>5, <1>6, <1>7, <1>8, <1>9, <1>10,
     <1>11, <1>12, <1>13, <1>14, <1>15, <1>16, <1>17, <1>18, <1>19, <1>20 DEF Next, Network, Daemon

(* A reading after the dials has every steady host of its family.          *)
LEMMA SteadyListed ==
    ASSUME TypeOK, NEW family, NEW b \in Seq(Neighbour), NEW a \in Targets,
           a.fam = family, cache[a] = "complete"
    PROVE  Reads(b \o SetToSeq(Table(family)), a)
<1> DEFINE list == SetToSeq(Table(family))
           r == b \o list
<1>1. list \in Seq(Neighbour)
  BY TableListed
<1>2. PICK k \in DOMAIN list : list[k].address = a /\ list[k].mac = "mac"
  BY TableListed
<1> HIDE DEF list
<1>3. Len(b) + k \in DOMAIN r /\ r[Len(b) + k] = list[k]
  BY <1>1, <1>2, ConcatProperties, LenProperties
<1> QED
  BY <1>2, <1>3 DEF list, Reads

(* What has been read stays read.                                          *)
LEMMA ReadStays ==
    ASSUME NEW b \in Seq(Neighbour), NEW list \in Seq(Neighbour), NEW a, Reads(b, a)
    PROVE  Reads(b \o list, a)
<1>1. PICK i \in DOMAIN b : b[i].address = a /\ b[i].mac = "mac"
  BY DEF Reads
<1>2. i \in DOMAIN (b \o list) /\ (b \o list)[i] = b[i]
  BY <1>1, ConcatProperties, LenProperties
<1> QED
  BY <1>1, <1>2 DEF Reads

(* An address is an IPv4 or an IPv6 address.                               *)
LEMMA Families == \A a \in Targets : a.fam \in {4, 6}
  BY TargetFacts DEF Addr

(* Every step keeps what is known of the steady hosts.                     *)
LEMMA InventorySteady ==
    ASSUME InventoryInv, [Next]_vars
    PROVE  SteadyOK'
<1> USE DEF InventoryInv, TypeOK, SteadyOK, host, throttle, readings, stored, witness
<1>1. CASE ClockTick
  BY <1>1 DEF ClockTick, Dialed, ReadAfter
<1>2. CASE Cancel
  BY <1>2 DEF Cancel, Dialed, ReadAfter
<1>3. CASE Skip
  BY <1>3 DEF Skip
<1>4. CASE Begin
  BY <1>4 DEF Begin
<1>5. CASE ProbeFails
  BY <1>5 DEF ProbeFails
<1>6. CASE Dialled
  BY <1>6 DEF Dialled, Dialed, ReadAfter
<1>7. CASE Combine
  <2>1. \A a \in steady : a \in Targets /\ ReadAfter(a) /\ Dialed(a)
    BY <1>7 DEF Combine, LocalsOK
  <2>2. \A a \in steady : Complete(observations', a)
    BY <1>7, <2>1, Combined DEF Combine, Dialed
  <2> QED
    BY <1>7, <2>2 DEF Combine
<1>8. CASE NmapFails
  BY <1>8 DEF NmapFails, Store
<1>9. CASE NmapReports
  <2>1. PICK known \in SUBSET NmapTargets(observations, OSMaxHosts) :
           Store(enriched(observations, [a \in known |-> "an OS"]))
    BY <1>9 DEF NmapReports
  <2> QED
    BY <1>9, <2>1 DEF NmapReports, Store
<1>10. CASE Discover
  BY <1>10 DEF Discover
<1>11. CASE NextScan
  BY <1>11 DEF NextScan
<1>12. CASE Stop
  BY <1>12 DEF Stop
<1>13. CASE Stopped
  BY <1>13 DEF Stopped, vars, Dialed, ReadAfter
<1>14. ASSUME NEW a \in Targets, Arrive(a) PROVE SteadyOK'
  <2>1. UNCHANGED <<pc, steady, undialled, cache, openPorts, after, observations>>
    BY <1>14 DEF Arrive
  <2> QED
    BY <2>1 DEF Dialed, ReadAfter
<1>15. ASSUME NEW a \in Targets, Leave(a) PROVE SteadyOK'
  BY <1>15 DEF Leave, Dialed, ReadAfter
<1>16. ASSUME NEW a \in Targets, Expire(a) PROVE SteadyOK'
  <2>1. CASE pc = "wait"
    BY <1>16, <2>1 DEF Expire
  <2>2. CASE pc = "tcp" /\ a \in undialled
    <3>1. ASSUME NEW b \in steady, b # a, Dialed(b) PROVE Dialed(b)'
      <4>1. cache'[b] = cache[b] /\ openPorts' = openPorts
        BY <1>16, <3>1, CachedFinite DEF Expire
      <4> QED
        BY <3>1, <4>1 DEF Dialed
    <3> QED
      BY <1>16, <2>2, <3>1 DEF Expire
  <2> QED
    BY <1>16, <2>1, <2>2 DEF Expire
<1>17. ASSUME NEW a \in Targets, Dial(a) PROVE SteadyOK'
  <2>1. pc = "tcp" /\ pc' = "tcp" /\ steady' = steady /\ steady \subseteq up
        /\ undialled' = undialled \ {a} /\ a \in Cached
    BY <1>17, CachedFinite DEF Dial
  <2>2. Dialed(a)' \/ a \notin steady
    <3> SUFFICES ASSUME a \in steady PROVE Dialed(a)'
      OBVIOUS
    <3>1. cache'[a] = "complete" /\ (a \in Listeners => a \in DOMAIN openPorts')
      BY <1>17, <2>1 DEF Dial
    <3> QED
      BY <3>1 DEF Dialed
  <2>3. ASSUME NEW b \in steady, b # a, Dialed(b) PROVE Dialed(b)'
    <3>1. cache'[b] = cache[b]
      BY <1>17, <2>3, CachedFinite DEF Dial
    <3>2. DOMAIN openPorts \subseteq DOMAIN openPorts'
      BY <1>17 DEF Dial
    <3> QED
      BY <2>3, <3>1, <3>2 DEF Dialed
  <2> QED
    BY <2>1, <2>2, <2>3
<1>18. ASSUME NEW step \in Reading, List(step) PROVE SteadyOK'
  <2>1. SetToSeq(Table(Family(step))) \in Seq(Neighbour) /\ after \in Seq(Neighbour)
    BY TableListed DEF LocalsOK
  <2>2. steady' = steady /\ steady \subseteq Targets /\ cache' = cache /\ openPorts' = openPorts
    BY <1>18 DEF List, ReadTable
  <2>3. CASE step \in {"arp before", "ndp before"}
    BY <1>18, <2>2, <2>3 DEF List, ReadTable, Following, Reading
  <2>4. CASE step \in {"arp after", "ndp after"}
    <3>1. /\ after' = after \o SetToSeq(Table(Family(step)))
          /\ pc = step /\ pc' = Following(step) /\ undialled' = undialled /\ undialled = {}
      BY <1>18, <2>4 DEF List, ReadTable, LocalsOK
    <3>2. \A a \in steady : Dialed(a)
      BY <2>4, <3>1
    <3>3. \A a \in steady : a.fam = Family(step) => ReadAfter(a)'
      BY <2>1, <2>2, <3>1, <3>2, SteadyListed DEF ReadAfter, Dialed
    <3>4. \A a \in steady : ReadAfter(a) => ReadAfter(a)'
      BY <2>1, <3>1, ReadStays DEF ReadAfter
    <3>5. \A a \in steady : Dialed(a)'
      BY <2>2, <3>2 DEF Dialed
    <3> QED
      BY <2>2, <2>4, <3>1, <3>3, <3>4, <3>5, Families DEF Following, Family
  <2> QED
    BY <2>3, <2>4 DEF Reading
<1>19. ASSUME NEW step \in Reading, ListNothing(step) PROVE SteadyOK'
  <2>1. steady' = steady /\ steady \subseteq Targets /\ cache' = cache /\ openPorts' = openPorts
    BY <1>19 DEF ListNothing, ReadTable
  <2>2. CASE step \in {"arp before", "ndp before"}
    BY <1>19, <2>1, <2>2 DEF ListNothing, ReadTable, Following, Reading
  <2>3. CASE step \in {"arp after", "ndp after"}
    <3>1. /\ pc = step /\ pc' = Following(step) /\ undialled' = undialled /\ undialled = {}
          /\ Table(Family(step)) = {} /\ after' = after
      <4>1. after \o << >> = after
        BY ConcatEmptySeq DEF LocalsOK
      <4> QED
        BY <1>19, <2>3, <4>1 DEF ListNothing, ReadTable, LocalsOK
    <3>2. \A a \in steady : Dialed(a)
      BY <2>3, <3>1
    <3>3. \A a \in steady : a.fam # Family(step)
      BY <2>1, <3>1, <3>2, CachedFinite DEF Dialed, Table
    <3>4. \A a \in steady : ReadAfter(a)' <=> ReadAfter(a)
      BY <3>1 DEF ReadAfter
    <3>5. \A a \in steady : Dialed(a)'
      BY <2>1, <3>2 DEF Dialed
    <3> QED
      BY <2>1, <2>3, <3>1, <3>3, <3>4, <3>5, Families DEF Following, Family
  <2> QED
    BY <2>2, <2>3 DEF Reading
<1>20. CASE UNCHANGED vars
  BY <1>20 DEF vars, Dialed, ReadAfter
<1> QED
  BY <1>1, <1>2, <1>3, <1>4, <1>5, <1>6, <1>7, <1>8, <1>9, <1>10,
     <1>11, <1>12, <1>13, <1>14, <1>15, <1>16, <1>17, <1>18, <1>19, <1>20 DEF Next, Network, Daemon

(* Every step keeps the steady hosts in what a probe has stored.           *)
LEMMA InventoryObserved ==
    ASSUME InventoryInv, [Next]_vars
    PROVE  SteadyHostsObserved'
<1> USE DEF InventoryInv, TypeOK, LocalsOK, SteadyHostsObserved, ProbeEnded, host, throttle, readings, stored, witness, Probing, Reading
<1>1. CASE ClockTick
  BY <1>1 DEF ClockTick
<1>2. CASE Cancel
  BY <1>2 DEF Cancel
<1>3. CASE Skip
  BY <1>3, NothingHasNone DEF Skip
<1>4. CASE Begin
  <2>1. observations' = Nothing /\ source' = source /\ started' = now
    BY <1>4 DEF Begin
  <2>2. source.start # now
    BY <1>4, BeginsLater
  <2> QED
    BY <2>1, <2>2, NothingHasNone
<1>5. CASE ProbeFails
  <2>1. CASE pc \in Reading
    <3>1. observations' = Nothing /\ source' = source /\ started' = started
      BY <1>5, <2>1 DEF ProbeFails
    <3>2. source.start # started
      BY <2>1 DEF TimesOK
    <3> QED
      BY <3>1, <3>2, NothingHasNone
  <2>2. CASE ctxDone
    BY <1>5, <2>2 DEF ProbeFails
  <2> QED
    BY <1>5, <2>1, <2>2 DEF ProbeFails
<1>6. CASE Dialled
  BY <1>6 DEF Dialled
<1>7. CASE Combine
  BY <1>7 DEF Combine
<1>8. CASE NmapFails
  <2>1. \A a \in steady : Complete(inventory', a)
    BY <1>8 DEF NmapFails, Store, SteadyOK
  <2> QED
    BY <1>8, <2>1 DEF NmapFails, Store, Complete
<1>9. CASE NmapReports
  <2>1. PICK known \in SUBSET NmapTargets(observations, OSMaxHosts) :
           Store(enriched(observations, [a \in known |-> "an OS"]))
    BY <1>9 DEF NmapReports
  <2>2. \A a \in steady : Complete(inventory', a)
    BY <1>9, <2>1, Enriched DEF NmapReports, Store, SteadyOK
  <2> QED
    BY <1>9, <2>1, <2>2 DEF NmapReports, Store, Complete
<1>10. CASE Discover
  BY <1>10 DEF Discover
<1>11. CASE NextScan
  BY <1>11 DEF NextScan
<1>12. CASE Stop
  BY <1>12 DEF Stop
<1>13. CASE Stopped
  BY <1>13 DEF Stopped, vars
<1>14. ASSUME NEW a \in Targets, Arrive(a) PROVE SteadyHostsObserved'
  BY <1>14 DEF Arrive
<1>15. ASSUME NEW a \in Targets, Leave(a) PROVE SteadyHostsObserved'
  BY <1>15 DEF Leave
<1>16. ASSUME NEW a \in Targets, Expire(a) PROVE SteadyHostsObserved'
  BY <1>16 DEF Expire
<1>17. ASSUME NEW a \in Targets, Dial(a) PROVE SteadyHostsObserved'
  BY <1>17 DEF Dial
<1>18. ASSUME NEW step \in Reading, List(step) PROVE SteadyHostsObserved'
  BY <1>18 DEF List, ReadTable, Following
<1>19. ASSUME NEW step \in Reading, ListNothing(step) PROVE SteadyHostsObserved'
  BY <1>19 DEF ListNothing, ReadTable, Following
<1>20. CASE UNCHANGED vars
  BY <1>20 DEF vars
<1> QED
  BY <1>1, <1>2, <1>3, <1>4, <1>5, <1>6, <1>7, <1>8, <1>9, <1>10,
     <1>11, <1>12, <1>13, <1>14, <1>15, <1>16, <1>17, <1>18, <1>19, <1>20 DEF Next, Network, Daemon

(* Every step keeps every part of the invariant.                           *)
LEMMA InventoryStep == InventoryInv /\ [Next]_vars => InventoryInv'
<1> SUFFICES ASSUME InventoryInv, [Next]_vars PROVE InventoryInv'
  OBVIOUS
<1>1. TypeOK' /\ LocalsOK' /\ PortsOK' /\ SteadyOK'
  BY InventoryTyped, InventoryLocals, InventoryPorts, InventorySteady
<1>2. ContentsOK' /\ TimesOK' /\ SteadyHostsObserved'
  BY InventoryContents, InventoryTimes, InventoryObserved
<1> QED
  BY <1>1, <1>2 DEF InventoryInv

(* The invariant of the inventory holds throughout.                        *)
LEMMA InventoryAlways == Spec => []InventoryInv
  BY InventoryInitially, InventoryStep, PTL DEF Spec

(* The state of the probe inside the scan loop is type correct, for any    *)
(* networks, hosts and intervals (scanNetworkInventory and Probe).         *)
THEOREM InventoryTypes == Spec => []TypeOK
<1>1. InventoryInv => TypeOK
  BY DEF InventoryInv
<1> QED
  BY <1>1, InventoryAlways, PTL

(* NetworkInventory of monitor.go returns nothing that began to be read    *)
(* two intervals ago or earlier, however long a probe takes and whichever  *)
(* probes fail.                                                            *)
THEOREM InventoryFresh == Spec => []ServedIsFresh
<1>1. ASSUME InventoryInv PROVE ServedIsFresh
  <2> SUFFICES ASSUME DOMAIN NetworkInventory # {}
               PROVE  now < source.start + 2 * Interval
    BY DEF ServedIsFresh
  <2>1. inventoryExpires # Zero /\ ~(now >= inventoryExpires)
    BY NothingHasNone DEF NetworkInventory
  <2>2. inventoryExpires = source.start + 2 * Interval
    BY <1>1, <2>1 DEF InventoryInv, TimesOK
  <2>3. now \in Int /\ inventoryExpires \in Int
    <3>1. \A i, j : \A x \in i..j : x \in Int
      OBVIOUS
    <3>2. now \in 1..MaxTime /\ inventoryExpires \in 0..(MaxTime + 2 * Interval)
      BY <1>1 DEF InventoryInv, TypeOK
    <3> QED
      BY <3>1, <3>2
  <2> QED
    BY <2>1, <2>2, <2>3
<1> QED
  BY <1>1, InventoryAlways, PTL

(* Two probes begin at least network_probes.interval apart, although a     *)
(* probe may fail at any of its steps and the scans go on.                 *)
THEOREM InventorySpaced == Spec => ProbesSpaced
<1> DEFINE Spaced == pc = "scan" /\ pc' = "arp before" /\ started # Zero
                     => now >= started + Interval
<1>1. ASSUME InventoryInv, [Next]_vars PROVE [Spaced]_vars
  <2> SUFFICES ASSUME pc = "scan", pc' = "arp before", started # Zero
               PROVE  now >= started + Interval
    OBVIOUS
  <2>1. Begin
    <3>1. ~(\E step \in Reading : List(step) \/ ListNothing(step))
      BY DEF List, ListNothing, Reading
    <3>2. ~(\E a \in Targets : Dial(a) \/ Arrive(a) \/ Leave(a) \/ Expire(a))
      BY DEF Dial, Arrive, Leave, Expire
    <3>3. ~(ClockTick \/ Cancel \/ Skip \/ ProbeFails \/ Dialled \/ Combine \/ NmapFails
            \/ NmapReports \/ Discover \/ NextScan \/ Stop \/ Stopped \/ UNCHANGED vars)
      BY DEF ClockTick, Cancel, Skip, ProbeFails, Dialled, Combine, NmapFails, NmapReports,
         Discover, NextScan, Stop, Stopped, vars, Reading
    <3> QED
      BY <1>1, <3>1, <3>2, <3>3 DEF Next, Network, Daemon
  <2>2. nextProbe = Zero \/ now >= nextProbe
    BY <2>1 DEF Begin, Due
  <2>3. nextProbe = started + Interval
    BY <1>1 DEF InventoryInv, TimesOK
  <2>4. started + Interval # Zero
    BY <1>1, Bounds DEF InventoryInv, TypeOK, Zero
  <2> QED
    BY <2>2, <2>3, <2>4
<1> QED
  BY <1>1, InventoryAlways, PTL DEF Spec, ProbesSpaced

(* A host that is up during a whole probe is in the inventory that Probe   *)
(* stores, with its MAC, and with its ports if it listens, although nmap   *)
(* may fail after the readings.                                            *)
THEOREM InventoryComplete == Spec => []SteadyHostsObserved
<1>1. InventoryInv => SteadyHostsObserved
  BY DEF InventoryInv
<1> QED
  BY <1>1, InventoryAlways, PTL

(* An open port in the inventory is one of a host that was up during the   *)
(* probe, and no address outside the configured networks is in it.         *)
THEOREM InventoryInvented == Spec => []NothingInvented
<1>1. InventoryInv => NothingInvented
  BY DEF InventoryInv, ContentsOK, Sound, NothingInvented
<1> QED
  BY <1>1, InventoryAlways, PTL

(* Every fingerprint in the inventory is that of a host which answered a   *)
(* dial of the probe, and no more hosts have one than                      *)
(* os_detection.max_hosts allows enrichOS to pass to nmap.                 *)
THEOREM InventoryFingerprints == Spec => []OnlyOpenFingerprinted
<1>1. ASSUME InventoryInv PROVE OnlyOpenFingerprinted
  <2>1. Sound(inventory, source.met) /\ FewFingerprinted(inventory)
    BY <1>1 DEF InventoryInv, ContentsOK
  <2>2. Fingerprinted(inventory) \subseteq source.met \cap Listeners
    BY <2>1 DEF Sound, Fingerprinted
  <2> QED
    BY <2>1, <2>2 DEF OnlyOpenFingerprinted, FewFingerprinted, Fingerprinted
<1> QED
  BY <1>1, InventoryAlways, PTL
-----------------------------------------------------------------------------
(* The larger power is a multiple of the smaller one.                      *)
LEMMA PowerMultiple ==
    ASSUME NEW c \in 0..V6Bits
    PROVE  \A d \in 0..(V6Bits - c) : \E k \in Nat \ {0} : 2^(c + d) = k * 2^c
<1> DEFINE n == V6Bits - c
           P == {d \in 0..n : \E k \in Nat \ {0} : 2^(c + d) = k * 2^c}
<1>1. V6Bits \in Nat /\ WordBits \in Nat /\ n \in Nat /\ c \in Nat
  BY WidthsOK
<1>2. 2^c \in Nat \ {0}
  <2>1. c \in 0..(V6Bits + WordBits)
    BY <1>1
  <2> QED
    BY <2>1, Powers
<1>3. 0 \in P
  <2>1. c + 0 = c /\ 2^c = 1 * 2^c /\ 0 \in 0..n
    BY <1>1, <1>2
  <2> QED
    BY <2>1
<1>4. ASSUME NEW d \in 0..(n-1), d \in P PROVE d+1 \in P
  <2>1. PICK k \in Nat \ {0} : 2^(c + d) = k * 2^c
    BY <1>4
  <2>2. c + d \in 0..(V6Bits + WordBits) /\ c + (d + 1) = (c + d) + 1 /\ d + 1 \in 0..n
    BY <1>1
  <2>3. 2^((c + d) + 1) = 2 * 2^(c + d)
    BY <2>2, PowersOfTwo
  <2>4. \A x \in Nat : 2 * (k * x) = (2 * k) * x
    OBVIOUS
  <2>5. 2^(c + (d + 1)) = (2 * k) * 2^c /\ 2 * k \in Nat \ {0}
    BY <1>2, <2>1, <2>2, <2>3, <2>4
  <2> QED
    BY <2>2, <2>5
<1>5. \A d \in 0..n : d \in P
  <2> HIDE DEF P
  <2> QED
    BY <1>1, <1>3, <1>4, PlacesInduction
<1> QED
  BY <1>5

(* Of two powers the one with the larger exponent is larger.               *)
LEMMA PowerOrder ==
    ASSUME NEW b \in 0..V6Bits, NEW c \in 0..V6Bits, 2^b <= 2^c
    PROVE  b <= c
<1>1. V6Bits \in Nat /\ WordBits \in Nat \ {0}
  BY WidthsOK
<1> SUFFICES ASSUME c < b PROVE FALSE
  BY <1>1
<1>2. c \in 0..(V6Bits + WordBits) /\ c + 1 \in 0..b /\ b \in 0..(V6Bits + WordBits)
  BY <1>1
<1>3. 2^(c + 1) = 2 * 2^c /\ 2^c \in Nat \ {0} /\ 2^(c + 1) <= 2^b /\ 2^b \in Nat
  BY <1>2, PowersOfTwo, Powers
<1> QED
  BY <1>3

(* Two prefixes of one family that share an address are nested.            *)
LEMMA Nested ==
    ASSUME NEW p \in Prefix, NEW q \in Prefix, NEW x \in Addr,
           InPrefix(p, x), InPrefix(q, x), hostBits(p) <= hostBits(q)
    PROVE  \A a \in Addr : InPrefix(p, a) => InPrefix(q, a)
<1> DEFINE c == hostBits(p)
           m == Size(p)
<1>1. /\ c \in 0..V6Bits /\ hostBits(q) \in 0..V6Bits /\ c <= hostBits(q) /\ V6Bits \in Nat
      /\ m \in Nat \ {0} /\ Size(q) \in Nat \ {0}
  BY PrefixSize, WidthsOK
<1>2. PICK k \in Nat \ {0} : Size(q) = k * m
  <2> DEFINE d == hostBits(q) - c
  <2>1. d \in 0..(V6Bits - c) /\ c + d = hostBits(q)
    BY <1>1
  <2> HIDE DEF d, c
  <2>2. \E k \in Nat \ {0} : 2^(c + d) = k * 2^c
    BY <1>1, <2>1, PowerMultiple
  <2> QED
    BY <2>1, <2>2 DEF Size, c
<1> DEFINE u == q.addr.n \div Size(q)
           v == p.addr.n \div m
<1>3. First(p) = v * m /\ First(q) = u * Size(q) /\ u \in Nat /\ v \in Nat
  <2>1. p.addr.n \in Nat /\ q.addr.n \in Nat
    BY DEF Prefix, Addr
  <2>2. \A y \in Nat, z \in Nat \ {0} : y \div z \in Nat
    OBVIOUS
  <2> QED
    BY <1>1, <2>1, <2>2 DEF First
<1>4. /\ x.fam = p.addr.fam /\ x.fam = q.addr.fam /\ x.n \in Nat
      /\ First(p) <= x.n /\ x.n < First(p) + m
      /\ First(q) <= x.n /\ x.n < First(q) + Size(q)
  BY InPrefixBounds DEF Addr
<1> HIDE DEF u, v, m, c
<1> DEFINE w == u * k
<1>5. First(q) = w * m /\ w \in Nat
  <2>1. \A i, j, l \in Nat : i * (j * l) = (i * j) * l
    OBVIOUS
  <2> QED
    BY <1>1, <1>2, <1>3, <2>1
<1> HIDE DEF w
<1>6. w <= v
  <2> SUFFICES ASSUME v + 1 <= w PROVE FALSE
    BY <1>3, <1>5
  <2>1. \A i, j, l \in Nat : i <= j => i * l <= j * l
    OBVIOUS
  <2>2. (v + 1) * m <= w * m
    BY <1>1, <1>3, <1>5, <2>1
  <2>3. (v + 1) * m = v * m + m
    BY <1>1, <1>3
  <2> QED
    BY <1>1, <1>3, <1>4, <1>5, <2>2, <2>3
<1>7. v + 1 <= w + k
  <2> SUFFICES ASSUME w + k <= v PROVE FALSE
    BY <1>2, <1>3, <1>5
  <2>1. \A i, j, l \in Nat : i <= j => i * l <= j * l
    OBVIOUS
  <2>2. (w + k) * m <= v * m
    BY <1>1, <1>2, <1>3, <1>5, <2>1
  <2>3. (w + k) * m = w * m + k * m
    BY <1>1, <1>2, <1>5
  <2>4. v * m \in Nat /\ w * m \in Nat /\ k * m \in Nat
    BY <1>1, <1>2, <1>3, <1>5
  <2> QED
    BY <1>2, <1>3, <1>4, <1>5, <2>2, <2>3, <2>4
<1>8. First(q) <= First(p) /\ First(p) + m <= First(q) + Size(q)
  <2>1. \A i, j, l \in Nat : i <= j => i * l <= j * l
    OBVIOUS
  <2>2. w * m <= v * m /\ (v + 1) * m <= (w + k) * m
    BY <1>1, <1>2, <1>3, <1>5, <1>6, <1>7, <2>1
  <2>3. (v + 1) * m = v * m + m /\ (w + k) * m = w * m + k * m
    BY <1>1, <1>2, <1>3, <1>5
  <2> QED
    BY <1>2, <1>3, <1>5, <2>2, <2>3
<1>9. First(p) \in Nat /\ First(q) \in Nat
  BY PrefixSize
<1> QED
  <2> SUFFICES ASSUME NEW a \in Addr, InPrefix(p, a) PROVE InPrefix(q, a)
    OBVIOUS
  <2>1. a.n \in Nat /\ a.fam = p.addr.fam /\ First(p) <= a.n /\ a.n < First(p) + m
    BY InPrefixBounds DEF Addr, m
  <2>2. \A f, g, i, j, n \in Nat : g <= f /\ f + i <= g + j /\ f <= n /\ n < f + i
                                  => g <= n /\ n < g + j
    OBVIOUS
  <2>3. First(q) <= a.n /\ a.n < First(q) + Size(q)
    BY <1>1, <1>8, <1>9, <2>1, <2>2
  <2>4. a.fam = q.addr.fam
    BY <1>4, <2>1
  <2> QED
    BY <2>3, <2>4, InPrefixBounds

(* Nothing of a small size is shifted out of a machine word.               *)
LEMMA ShiftedSize ==
    ASSUME NEW p \in Prefix, hostBits(p) < WordBits
    PROVE  ShiftedOne(hostBits(p)) = Size(p)
<1> DEFINE h == hostBits(p)
<1>1. h \in Nat /\ WordBits \in Nat /\ V6Bits \in Nat /\ h <= V6Bits /\ h < WordBits
  BY PrefixSize, WidthsOK
<1> HIDE DEF h
<1>2. /\ h \in 0..(V6Bits + WordBits) /\ WordBits \in 0..(V6Bits + WordBits)
      /\ h + 1 \in 0..WordBits
  BY <1>1
<1>3. 2^(h + 1) = 2 * 2^h /\ 2^h \in Nat \ {0} /\ 2^(h + 1) <= 2^WordBits /\ 2^WordBits \in Nat \ {0}
  BY <1>2, PowersOfTwo, Powers
<1>4. 2^h < 2^WordBits
  BY <1>3
<1>5. \A x \in Nat, y \in Nat \ {0} : x < y => x % y = x
  OBVIOUS
<1>6. 2^h % 2^WordBits = 2^h
  BY <1>3, <1>4, <1>5
<1> QED
  BY <1>6 DEF ShiftedOne, Size, h

(* A prefix of an address of the family lies within the family.            *)
LEMMA PrefixInFamily ==
    ASSUME NEW p \in Prefix, p.addr \in Universe
    PROVE  First(p) + Size(p) <= 2^BitLen(p.addr)
<1> DEFINE c == hostBits(p)
           w == BitLen(p.addr)
           m == Size(p)
           v == p.addr.n \div m
<1>1. c \in 0..V6Bits /\ w \in 0..V6Bits /\ c <= w /\ V6Bits \in Nat /\ m \in Nat \ {0}
  BY PrefixSize, WidthsOK DEF BitLen, hostBits, Prefix
<1>2. p.addr.n \in Nat /\ p.addr.n < 2^w /\ 2^w \in Nat
  <2>1. p.addr.n \in 0..(2^w - 1)
    BY DEF Universe, BitLen
  <2>2. w \in 0..(V6Bits + WordBits)
    BY <1>1, WidthsOK
  <2>3. 2^w \in Nat
    BY <2>2, Powers
  <2> QED
    BY <2>1, <2>3
<1>3. First(p) = v * m /\ v \in Nat /\ v * m <= p.addr.n
  BY <1>1, <1>2 DEF First
<1>4. PICK k \in Nat \ {0} : 2^w = k * m
  <2> DEFINE d == w - c
  <2>1. d \in 0..(V6Bits - c) /\ c + d = w
    BY <1>1
  <2> HIDE DEF d, c, w
  <2>2. \E k \in Nat \ {0} : 2^(c + d) = k * 2^c
    BY <1>1, <2>1, PowerMultiple
  <2> QED
    BY <2>1, <2>2 DEF Size, c
<1> HIDE DEF c, w, m, v
<1>5. \A i, j, l \in Nat : i <= j => i * l <= j * l
  OBVIOUS
<1>6. v + 1 <= k
  <2> SUFFICES ASSUME k <= v PROVE FALSE
    BY <1>3, <1>4
  <2>1. k * m <= v * m /\ k * m \in Nat /\ v * m \in Nat
    BY <1>1, <1>3, <1>4, <1>5
  <2> QED
    BY <1>2, <1>3, <1>4, <2>1
<1>7. (v + 1) * m <= k * m /\ (v + 1) * m = v * m + m
  BY <1>1, <1>3, <1>4, <1>5, <1>6
<1> QED
  BY <1>3, <1>4, <1>7 DEF m, w

(* The block of a prefix has every address of it but the reserved ones.    *)
LEMMA BlockExact ==
    ASSUME NEW p \in Prefix, p.addr \in Universe, hostBits(p) < WordBits
    PROVE  ToSet(Block(p)) = {a \in Universe : InPrefix(p, a) /\ a \notin Reserved(p)}
<1> DEFINE m == Size(p)
           f == First(p)
           fam == p.addr.fam
           e == Ends(p)
           members == {a \in Universe : InPrefix(p, a)}
           At(n) == [fam |-> fam, n |-> n]
<1>1. m \in Nat \ {0} /\ f \in Nat /\ fam \in {4, 6} /\ ShiftedOne(hostBits(p)) = m
  BY PrefixSize, ShiftedSize DEF Prefix, Addr
<1>2. e = IF fam = 4 /\ m > 2 THEN 1 ELSE 0
  BY <1>1 DEF Ends
<1>3. Block(p) = [i \in 1..(m - 2 * e) |-> At(f + i - 1 + e)]
  <2>1. Masked(p).addr = [fam |-> fam, n |-> f]
    BY MaskedFirst
  <2> QED
    BY <1>1, <2>1 DEF Block
<1>4. \A n \in f..(f + m - 1) : At(n) \in Universe
  <2>1. f + m <= 2^BitLen(p.addr) /\ 2^BitLen(p.addr) \in Nat
    <3>1. BitLen(p.addr) \in 0..(V6Bits + WordBits)
      BY WidthsOK DEF BitLen
    <3> QED
      BY <3>1, PrefixInFamily, Powers
  <2> HIDE DEF m, f
  <2>2. \A n \in f..(f + m - 1) : n \in 0..(2^BitLen(p.addr) - 1)
    BY <1>1, <2>1
  <2> QED
    BY <1>1, <2>2 DEF Universe, BitLen
<1>5. \A a \in Universe : a \in Addr /\ a = [fam |-> a.fam, n |-> a.n] /\ a.n \in Nat
  <2>1. 2^V4Bits \in Nat /\ 2^V6Bits \in Nat
    <3>1. V4Bits \in 0..(V6Bits + WordBits) /\ V6Bits \in 0..(V6Bits + WordBits)
      BY WidthsOK
    <3> QED
      BY <3>1, Powers
  <2> QED
    BY <2>1 DEF Universe, Addr
<1>6. \A a \in Universe : InPrefix(p, a) <=> a.fam = fam /\ f <= a.n /\ a.n < f + m
  BY <1>5, InPrefixBounds
<1> HIDE DEF m, f, fam, e
<1>7. members = {At(n) : n \in f..(f + m - 1)}
  <2>1. ASSUME NEW a \in members PROVE \E n \in f..(f + m - 1) : a = At(n)
    BY <1>1, <1>5, <1>6
  <2>2. ASSUME NEW n \in f..(f + m - 1) PROVE At(n) \in members
    BY <1>1, <1>4, <1>6
  <2> QED
    BY <2>1, <2>2
<1>8. Cardinality(members) = m
  <2> DEFINE S == f..(f + m - 1)
             g == [n \in S |-> At(n)]
  <2>1. IsFiniteSet(S) /\ Cardinality(S) = m
    BY <1>1, FS_Interval
  <2>2. g \in Bijection(S, members)
    <3>1. \A n \in S : At(n) \in members /\ g[n] = At(n) /\ At(n).n = n
      BY <1>7
    <3>2. \A a \in members : \E n \in S : g[n] = a
      BY <1>7
    <3>3. g \in [S -> members]
      BY <3>1
    <3>4. \A n, k \in S : g[n] = g[k] => n = k
      <4>1. \A n \in S : g[n].n = n
        BY <3>1
      <4> QED
        BY <4>1
    <3> HIDE DEF S, g, members
    <3>5. DOMAIN g = S /\ IsInjective(g)
      BY <3>3, <3>4 DEF IsInjective
    <3>6. g \in Injection(S, members) /\ g \in Surjection(S, members)
      BY <3>2, <3>3, <3>5 DEF Injection, Surjection
    <3> QED
      BY <3>6 DEF Bijection
  <2> HIDE DEF S, g, members
  <2> QED
    BY <2>1, <2>2, FS_Bijection DEF ExistsBijection
<1>9. \A a \in members : a \in Reserved(p) <=> e = 1 /\ (a.n = f \/ a.n = f + m - 1)
  <2>1. CASE e = 0
    BY <1>2, <1>8, <2>1 DEF Reserved, fam
  <2>2. CASE e = 1
    <3>1. \A a \in members : /\ (\A b \in members : a.n <= b.n) <=> a.n = f
                             /\ (\A b \in members : b.n <= a.n) <=> a.n = f + m - 1
      <4>1. At(f) \in members /\ At(f + m - 1) \in members
        BY <1>1, <1>7
      <4>2. \A a \in members : a.n \in f..(f + m - 1)
        BY <1>7
      <4> HIDE DEF members
      <4> QED
        BY <1>1, <4>1, <4>2
    <3>2. fam = 4 /\ m > 2
      BY <1>2, <2>2
    <3>3. Reserved(p) = {a \in members : \/ \A b \in members : a.n <= b.n
                                         \/ \A b \in members : b.n <= a.n}
      BY <1>8, <3>2 DEF Reserved, fam
    <3> HIDE DEF members
    <3> QED
      BY <2>2, <3>1, <3>3
  <2> QED
    BY <1>2, <2>1, <2>2
<1>10. \A a \in members : a \notin Reserved(p) <=> f + e <= a.n /\ a.n <= f + m - 1 - e
  <2>1. \A a \in members : a.n \in f..(f + m - 1)
    BY <1>7
  <2> HIDE DEF members
  <2> QED
    BY <1>1, <1>2, <1>9, <2>1
<1>11. ASSUME NEW a \in ToSet(Block(p)) PROVE a \in members /\ a \notin Reserved(p)
  <2>1. PICK i \in 1..(m - 2 * e) : a = At(f + i - 1 + e)
    BY <1>3, <1>11 DEF ToSet
  <2> DEFINE n == f + i - 1 + e
  <2>2. n \in f..(f + m - 1) /\ f + e <= n /\ n <= f + m - 1 - e
    BY <1>1, <1>2
  <2>3. a = At(n)
    BY <2>1
  <2> HIDE DEF n
  <2>4. a \in members /\ a.n = n
    BY <1>7, <2>2, <2>3
  <2> QED
    BY <1>10, <2>2, <2>4
<1>12. ASSUME NEW a \in members, a \notin Reserved(p) PROVE a \in ToSet(Block(p))
  <2>1. f + e <= a.n /\ a.n <= f + m - 1 - e
    BY <1>10, <1>12
  <2>2. a = At(a.n) /\ a.n \in f..(f + m - 1)
    BY <1>7
  <2> DEFINE i == a.n - f - e + 1
  <2>3. i \in 1..(m - 2 * e) /\ f + i - 1 + e = a.n
    BY <1>1, <1>2, <2>1, <2>2
  <2> HIDE DEF i
  <2>4. Block(p)[i] = a /\ i \in DOMAIN Block(p)
    BY <1>3, <2>2, <2>3
  <2> QED
    BY <2>4 DEF ToSet
<1> QED
  BY <1>11, <1>12

(* A prefix has its own address.                                           *)
LEMMA OwnAddress ==
    ASSUME NEW p \in Prefix
    PROVE  p.addr \in Addr /\ InPrefix(p, p.addr)
<1>1. \A n \in Nat, m \in Nat \ {0} : (n \div m) * m <= n /\ n < (n \div m) * m + m
  OBVIOUS
<1>2. p.addr \in Addr /\ p.addr.n \in Nat /\ Size(p) \in Nat \ {0}
  BY PrefixSize DEF Prefix, Addr
<1>3. First(p) <= p.addr.n /\ p.addr.n < First(p) + Size(p)
  BY <1>1, <1>2 DEF First
<1> QED
  BY <1>2, <1>3, InPrefixBounds

(* The IPv4-mapped addresses are a prefix. *)
MappedPrefix == [addr |-> [fam |-> 6, n |-> MappedBase], bits |-> V6Bits - V4Bits]

(* The prefix of the IPv4-mapped addresses contains them and nothing else. *)
LEMMA MappedAddresses ==
    /\ MappedPrefix \in Prefix /\ hostBits(MappedPrefix) = V4Bits
    /\ \A x \in Addr : InPrefix(MappedPrefix, x) <=> Is4In6(x)
<1> DEFINE k == 2^V4Bits
<1>1. V4Bits \in Nat /\ V6Bits \in Nat /\ V4Bits < V6Bits /\ V4Bits \in 0..(V6Bits + WordBits)
      /\ V6Bits \in 0..(V6Bits + WordBits)
  BY WidthsOK
<1>2. k \in Nat \ {0} /\ 2^V6Bits \in Nat
  BY <1>1, Powers
<1>3. MappedBase \in Nat
  BY <1>2, WidthsOK
<1>4. MappedPrefix \in Prefix /\ hostBits(MappedPrefix) = V4Bits
  BY <1>1, <1>3 DEF MappedPrefix, Prefix, Addr, hostBits, BitLen
<1>5. \A x \in Nat, y \in Nat \ {0} : x % y = 0 => (x \div y) * y = x
  OBVIOUS
<1>6. First(MappedPrefix) = MappedBase /\ Size(MappedPrefix) = k
  <2>1. MappedBase % k = 0
    BY BlocksOK
  <2>2. (MappedBase \div k) * k = MappedBase
    BY <1>2, <1>3, <1>5, <2>1
  <2> QED
    BY <1>4, <2>2 DEF First, Size, MappedPrefix
<1> HIDE DEF k
<1>7. ASSUME NEW x \in Addr PROVE InPrefix(MappedPrefix, x) <=> Is4In6(x)
  <2>1. InPrefix(MappedPrefix, x) <=> x.fam = 6 /\ MappedBase <= x.n /\ x.n < MappedBase + k
    BY <1>4, <1>6, InPrefixBounds DEF MappedPrefix
  <2>2. x.n \in Nat
    BY DEF Addr
  <2>3. x.n \in MappedBase..(MappedBase + k - 1) <=> MappedBase <= x.n /\ x.n < MappedBase + k
    BY <1>2, <1>3, <2>2
  <2> QED
    BY <2>1, <2>3 DEF Is4In6, k
<1> QED
  BY <1>4, <1>7

(* A network within the cap is private as a whole if its address is, in    *)
(* either form of an IPv4 address.                                         *)
LEMMA PrivateWhole ==
    ASSUME NEW p \in Prefix, Size(p) <= MaxHostsCap, IsPrivate(p.addr),
           NEW a \in Addr, InPrefix(p, a)
    PROVE  IsPrivate(a)
<1> DEFINE m == Size(p)
           h == hostBits(p)
<1>1. PICK block \in PrivateBlocks : InPrefix(block, Unmap(p.addr))
  BY DEF IsPrivate
<1>2. block \in Prefix /\ MaxHostsCap <= Size(block) /\ MaxHostsCap <= 2^V4Bits
  BY BlocksOK DEF Size
<1>3. /\ h \in 0..V6Bits /\ hostBits(block) \in 0..V6Bits /\ V4Bits \in 0..V6Bits
      /\ V4Bits \in Nat /\ V6Bits \in Nat /\ V4Bits < V6Bits
      /\ m \in Nat \ {0} /\ Size(block) \in Nat \ {0} /\ 2^V4Bits \in Nat \ {0}
      /\ MaxHostsCap \in Nat
  <2>1. V4Bits \in 0..(V6Bits + WordBits)
    BY WidthsOK
  <2> QED
    BY <1>2, <2>1, PrefixSize, Powers, WidthsOK
<1>4. h <= hostBits(block) /\ h <= V4Bits
  <2>1. 2^h <= 2^hostBits(block) /\ 2^h <= 2^V4Bits
    BY <1>2, <1>3 DEF Size
  <2> QED
    BY <1>3, <2>1, PowerOrder
<1>5. p.addr \in Addr /\ InPrefix(p, p.addr)
  BY OwnAddress
<1>6. CASE Is4In6(p.addr)
  <2>1. InPrefix(MappedPrefix, p.addr) /\ h <= hostBits(MappedPrefix)
    BY <1>4, <1>5, <1>6, MappedAddresses
  <2>2. Is4In6(a)
    <3>1. InPrefix(MappedPrefix, a)
      BY <1>5, <2>1, MappedAddresses, Nested
    <3> QED
      BY <3>1, MappedAddresses
  <2> DEFINE b == Unmap(a)
             x == Unmap(p.addr)
             p4 == [addr |-> x, bits |-> V4Bits - h]
  <2>3. /\ x = [fam |-> 4, n |-> p.addr.n - MappedBase] /\ b = [fam |-> 4, n |-> a.n - MappedBase]
        /\ p.addr.n \in Nat /\ a.n \in Nat /\ MappedBase \in Nat
        /\ MappedBase <= p.addr.n /\ MappedBase <= a.n /\ p.addr.fam = 6 /\ a.fam = 6
    <3>1. MappedBase \in Nat
      BY MappedAddresses DEF MappedPrefix, Prefix, Addr
    <3>2. 2^V4Bits \in Nat
      BY <1>3
    <3>3. \A i \in MappedBase..(MappedBase + 2^V4Bits - 1) : MappedBase <= i
      BY <3>1, <3>2
    <3> QED
      BY <1>5, <1>6, <2>2, <3>1, <3>3 DEF Unmap, Is4In6, Addr
  <2>4. x \in Addr /\ b \in Addr /\ p4 \in Prefix /\ hostBits(p4) = h /\ Size(p4) = m
    <3>1. x \in Addr /\ b \in Addr
      BY <2>3 DEF Addr
    <3>2. V4Bits - h \in Nat /\ V4Bits - h <= V4Bits /\ V4Bits - (V4Bits - h) = h
      BY <1>3, <1>4
    <3>3. p4.addr = x /\ p4.bits = V4Bits - h /\ BitLen(x) = V4Bits
      BY <2>3 DEF BitLen
    <3>4. p4 \in Prefix
      BY <3>1, <3>2, <3>3 DEF Prefix
    <3>5. hostBits(p4) = h
      BY <3>2, <3>3 DEF hostBits
    <3> QED
      BY <3>1, <3>4, <3>5 DEF Size
  <2>5. PICK j \in Nat : MappedBase = j * m
    <3>1. PICK k \in Nat \ {0} : 2^V4Bits = k * m
      <4> DEFINE d == V4Bits - h
      <4>1. d \in 0..(V6Bits - h) /\ h + d = V4Bits
        BY <1>3, <1>4
      <4> HIDE DEF d, h
      <4>2. \E k \in Nat \ {0} : 2^(h + d) = k * 2^h
        BY <1>3, <4>1, PowerMultiple
      <4> QED
        BY <4>1, <4>2 DEF Size, h
    <3> DEFINE i == MappedBase \div 2^V4Bits
    <3>2. i \in Nat /\ MappedBase = i * 2^V4Bits
      <4>1. \A y \in Nat, z \in Nat \ {0} : y % z = 0 => y \div z \in Nat /\ y = (y \div z) * z
        OBVIOUS
      <4> QED
        BY <1>3, <2>3, <4>1, BlocksOK
    <3> HIDE DEF i, m
    <3>3. \A y, z, w \in Nat : y * (z * w) = (y * z) * w
      OBVIOUS
    <3>4. MappedBase = (i * k) * m /\ i * k \in Nat
      BY <1>3, <3>1, <3>2, <3>3
    <3> QED
      BY <3>4
  <2>6. First(p4) = First(p) - MappedBase
    <3> DEFINE u == p.addr.n \div m
               v == (p.addr.n - MappedBase) \div m
    <3>1. First(p) = u * m /\ First(p4) = v * m
      BY <2>3, <2>4 DEF First
    <3>2. p.addr.n - MappedBase \in Nat
      BY <2>3
    <3>3. /\ u \in Nat /\ u * m <= p.addr.n /\ p.addr.n < u * m + m
          /\ v \in Nat /\ v * m <= p.addr.n - MappedBase
          /\ p.addr.n - MappedBase < v * m + m
      <4>1. \A y \in Nat, z \in Nat \ {0} :
               y \div z \in Nat /\ (y \div z) * z <= y /\ y < (y \div z) * z + z
        OBVIOUS
      <4> QED
        BY <1>3, <2>3, <3>2, <4>1
    <3> HIDE DEF u, v, m
    <3>4. (v + j) * m = v * m + MappedBase /\ (v + j) * m \in Nat /\ u * m \in Nat
      BY <1>3, <2>5, <3>3
    <3>5. \A y, z, w \in Nat : y + 1 <= z => y * w + w <= z * w
      <4>1. \A y, z, w \in Nat : y <= z => y * w <= z * w
        OBVIOUS
      <4>2. \A y, w \in Nat : (y + 1) * w = y * w + w
        OBVIOUS
      <4> QED
        BY <4>1, <4>2
    <3>6. u = v + j
      <4>1. ASSUME u + 1 <= v + j PROVE FALSE
        <5>1. u * m + m <= (v + j) * m
          BY <1>3, <2>5, <3>3, <3>5, <4>1
        <5> QED
          BY <1>3, <2>3, <3>3, <3>4, <5>1
      <4>2. ASSUME (v + j) + 1 <= u PROVE FALSE
        <5>1. (v + j) * m + m <= u * m
          BY <1>3, <2>5, <3>3, <3>5, <4>2
        <5> QED
          BY <1>3, <2>3, <3>3, <3>4, <5>1
      <4> QED
        BY <2>5, <3>3, <4>1, <4>2
    <3> QED
      BY <3>1, <3>3, <3>4, <3>6, <2>3, <1>3
  <2>7. InPrefix(p4, b)
    <3>1. First(p) <= a.n /\ a.n < First(p) + m /\ First(p) \in Nat
      BY InPrefixBounds, PrefixSize
    <3>2. b.fam = p4.addr.fam /\ b.n = a.n - MappedBase
      BY <2>3
    <3>3. First(p4) <= b.n /\ b.n < First(p4) + m
      BY <1>3, <2>3, <2>6, <3>1, <3>2
    <3> QED
      BY <2>4, <3>2, <3>3, InPrefixBounds
  <2>8. InPrefix(p4, x)
    BY <2>4, OwnAddress
  <2>9. InPrefix(block, b)
    BY <1>1, <1>2, <1>4, <2>4, <2>7, <2>8, Nested
  <2> QED
    BY <2>9 DEF IsPrivate
<1>7. CASE ~Is4In6(p.addr)
  <2>1. ~Is4In6(a)
    <3> SUFFICES ASSUME Is4In6(a) PROVE FALSE
      OBVIOUS
    <3>1. InPrefix(MappedPrefix, a) /\ MappedPrefix \in Prefix /\ h <= hostBits(MappedPrefix)
      BY <1>4, MappedAddresses
    <3>2. InPrefix(MappedPrefix, p.addr)
      BY <1>5, <3>1, Nested
    <3> QED
      BY <1>5, <1>7, <3>2, MappedAddresses
  <2>2. Unmap(a) = a /\ Unmap(p.addr) = p.addr
    BY <1>7, <2>1 DEF Unmap
  <2>3. InPrefix(block, a)
    BY <1>1, <1>2, <1>4, <1>5, <2>2, Nested
  <2> QED
    BY <2>2, <2>3 DEF IsPrivate
<1> QED
  BY <1>6, <1>7
-----------------------------------------------------------------------------
(* A configuration that Load accepts, and what its networks are like.      *)
Loaded(c) == ValidNetworks(c) /\ validateProbeConfig(c) /\ c.probes.enabled

Small(p) ==
    /\ p \in Prefix /\ p.addr \in Universe /\ IsPrivate(p.addr)
    /\ hostBits(p) < WordBits - 1 /\ hostBits(p) < WordBits
    /\ Size(p) <= MaxHostsCap

(* What ParsePrefix returns is a prefix.                                   *)
LEMMA ParsedPrefix ==
    ASSUME NEW cidr, cidr.addr \in Universe, cidr.bits \in NoBits..V6Bits,
           cidr.bits <= BitLen(cidr.addr)
    PROVE  ParsePrefix(cidr) \in Prefix /\ ParsePrefix(cidr).addr \in Universe
<1>1. cidr.addr \in Addr /\ BitLen(cidr.addr) \in Nat /\ V6Bits \in Nat
      /\ 2^BitLen(cidr.addr) \in Nat
  <2>1. /\ V4Bits \in Nat /\ V6Bits \in Nat
        /\ V4Bits \in 0..(V6Bits + WordBits) /\ V6Bits \in 0..(V6Bits + WordBits)
    BY WidthsOK
  <2>2. 2^V4Bits \in Nat /\ 2^V6Bits \in Nat
    BY <2>1, Powers
  <2> QED
    BY <2>1, <2>2 DEF Universe, Addr, BitLen
<1>2. CASE cidr.bits = NoBits
  BY <1>1, <1>2 DEF ParsePrefix, Prefix
<1>3. CASE cidr.bits # NoBits
  <2> DEFINE p == [addr |-> cidr.addr, bits |-> cidr.bits]
  <2>1. cidr.bits \in Nat
    BY <1>1, <1>3 DEF NoBits
  <2>2. p \in Prefix
    BY <1>1, <2>1 DEF Prefix
  <2>3. ParsePrefix(cidr) = Masked(p)
    BY <1>3 DEF ParsePrefix
  <2>4. p.addr = cidr.addr
    OBVIOUS
  <2> HIDE DEF p
  <2>5. Masked(p) \in Prefix /\ Masked(p).addr = [fam |-> cidr.addr.fam, n |-> First(p)]
    BY <2>2, <2>4, MaskedFirst
  <2>6. First(p) \in Nat /\ First(p) <= cidr.addr.n
    BY <2>2, <2>4, OwnAddress, InPrefixBounds, PrefixSize
  <2>7. cidr.addr.n \in 0..(2^BitLen(cidr.addr) - 1)
    BY DEF Universe, BitLen
  <2>8. First(p) \in 0..(2^BitLen(cidr.addr) - 1)
    BY <1>1, <2>6, <2>7
  <2>9. [fam |-> cidr.addr.fam, n |-> First(p)] \in Universe
    BY <2>8 DEF Universe, BitLen
  <2> QED
    BY <2>3, <2>5, <2>9
<1> QED
  BY <1>2, <1>3

(* The checks of Validate make every network small and private, and the    *)
(* expansion accepts what they accept.                                     *)
LEMMA Checked ==
    ASSUME NEW c, Loaded(c)
    PROVE  /\ ValidLimits(c.probes)
           /\ \A i \in DOMAIN c.probeNetworks :
                /\ \E j \in DOMAIN c.networks : c.networks[j].name = c.probeNetworks[i]
                /\ IsPrivate(ProbePrefixes(c)[i].addr)
                /\ prefixHostCount(ProbePrefixes(c)[i], c.probes.maxHosts) <= c.probes.maxHosts
<1>1. \A i \in DOMAIN c.probeNetworks :
         ProbePrefixes(c)[i] = ParsePrefix(NetworkNamed(c, c.probeNetworks[i]).cidr)
  BY DEF ProbePrefixes
<1>2. validateProbeConfig(c) /\ c.probes.enabled
  BY DEF Loaded
<1>3. validateProbeConfig(c) =>
         /\ \A i \in DOMAIN c.probeNetworks :
              \E j \in DOMAIN c.networks : c.networks[j].name = c.probeNetworks[i]
         /\ c.probes.enabled => ValidLimits(c.probes)
         /\ c.probes.enabled =>
              \A i \in DOMAIN c.probeNetworks :
                 /\ IsPrivate(ParsePrefix(NetworkNamed(c, c.probeNetworks[i]).cidr).addr)
                 /\ prefixHostCount(ParsePrefix(NetworkNamed(c, c.probeNetworks[i]).cidr),
                                    c.probes.maxHosts) <= c.probes.maxHosts
  BY Zenon DEF validateProbeConfig
<1> QED
  BY ONLY <1>1, <1>2, <1>3

(* The networks of a configuration have the types that the cases have.     *)
LEMMA ConfigTyped ==
    ASSUME NEW c \in Configs
    PROVE  /\ c.probeNetworks \in Seq(STRING)
           /\ \A j \in DOMAIN c.networks :
                /\ c.networks[j].cidr.addr \in Universe
                /\ c.networks[j].cidr.bits \in NoBits..V6Bits
                /\ c.networks[j].cidr.bits <= BitLen(c.networks[j].cidr.addr)
<1> DEFINE NamedNetwork == [name : STRING, cidr : [ok : BOOLEAN, addr : Universe, bits : NoBits..V6Bits]]
<1>1. /\ c.networks \in Seq(NamedNetwork) /\ c.probeNetworks \in Seq(STRING)
      /\ \A i \in DOMAIN c.networks :
           c.networks[i].cidr.bits <= BitLen(c.networks[i].cidr.addr)
  BY CasesTyped
<1>2. \A n \in NamedNetwork : n.cidr.addr \in Universe /\ n.cidr.bits \in NoBits..V6Bits
  OBVIOUS
<1> HIDE DEF NamedNetwork
<1>3. \A j \in DOMAIN c.networks : c.networks[j] \in NamedNetwork
  BY <1>1, LenProperties, ElementOfSeq
<1> QED
  BY <1>1, <1>2, <1>3

(* Of a configuration that was loaded, all networks are small and the      *)
(* expansion succeeds.                                                     *)
LEMMA LoadedFacts ==
    ASSUME NEW c \in Configs, Loaded(c)
    PROVE  /\ ProbePrefixes(c) \in Seq(Prefix)
           /\ \A i \in DOMAIN ProbePrefixes(c) : Small(ProbePrefixes(c)[i])
           /\ expandProbePrefixes(ProbePrefixes(c), c.probes.maxHosts).ok
<1> DEFINE P == ProbePrefixes(c)
           limit == c.probes.maxHosts
<1>1. /\ c.probeNetworks \in Seq(STRING) /\ limit \in 1..MaxHostsCap /\ MaxHostsCap \in Nat
      /\ WordBits \in Nat
  <2>1. ValidLimits(c.probes)
    BY Checked, Zenon
  <2>2. c.probes.maxHosts \in 1..MaxHostsCap
    BY ONLY <2>1, Zenon DEF ValidLimits
  <2> QED
    BY <2>2, ConfigTyped, WidthsOK
<1>2. DOMAIN P = DOMAIN c.probeNetworks
  BY DEF ProbePrefixes
<1>3. ASSUME NEW i \in DOMAIN P
      PROVE  /\ Small(P[i])
             /\ ~(hostBits(P[i]) >= WordBits - 1)
             /\ ~(ShiftedOne(hostBits(P[i])) > limit)
  <2> DEFINE name == c.probeNetworks[i]
             j == CHOOSE k \in DOMAIN c.networks : c.networks[k].name = name
             p == P[i]
  <2>1. \E k \in DOMAIN c.networks : c.networks[k].name = name
    BY <1>2, Checked
  <2>2. j \in DOMAIN c.networks
    BY <2>1
  <2>3. P[i] = ParsePrefix(c.networks[j].cidr)
    BY <1>2 DEF ProbePrefixes, NetworkNamed
  <2> HIDE DEF j
  <2>4. c.networks[j].cidr.addr \in Universe /\ c.networks[j].cidr.bits \in NoBits..V6Bits
        /\ c.networks[j].cidr.bits <= BitLen(c.networks[j].cidr.addr)
    BY <2>2, ConfigTyped
  <2>5. P[i] \in Prefix /\ P[i].addr \in Universe
    BY <2>3, <2>4, ParsedPrefix
  <2>6. IsPrivate(P[i].addr) /\ prefixHostCount(P[i], limit) <= limit
    BY <1>2, Checked
  <2> HIDE DEF P, limit
  <2>7. /\ ~(hostBits(P[i]) >= WordBits - 1)
        /\ ~(ShiftedOne(hostBits(P[i])) > limit)
    BY <1>1, <2>6 DEF prefixHostCount
  <2>8. hostBits(P[i]) \in Nat /\ ShiftedOne(hostBits(P[i])) \in Nat
    BY <2>5, PrefixSize, WidthsOK
  <2>9. hostBits(P[i]) < WordBits - 1 /\ hostBits(P[i]) < WordBits
    BY <1>1, <2>7, <2>8
  <2>10. Size(P[i]) <= MaxHostsCap
    <3>1. ShiftedOne(hostBits(P[i])) = Size(P[i])
      BY <2>5, <2>9, ShiftedSize
    <3> QED
      BY <1>1, <2>7, <2>8, <3>1
  <2> QED
    BY <2>5, <2>6, <2>7, <2>9, <2>10 DEF Small
<1>4. P \in Seq(Prefix)
  <2> DEFINE n == Len(c.probeNetworks)
  <2>1. n \in Nat /\ DOMAIN P = 1..n
    BY <1>1, <1>2, LenProperties
  <2>2. P = [i \in 1..n |-> P[i]]
    BY <2>1 DEF ProbePrefixes
  <2>3. \A i \in 1..n : P[i] \in Prefix
    BY <1>3, <2>1 DEF Small
  <2> HIDE DEF P, n
  <2>4. P \in [1..n -> Prefix]
    BY <2>2, <2>3
  <2> QED
    BY <2>1, <2>4, SeqDef
<1>5. expandProbePrefixes(P, limit).ok
  BY <1>3 DEF expandProbePrefixes
<1> QED
  BY <1>3, <1>4, <1>5

(* The targets of a loaded configuration.                                  *)
LEMMA LoadedTargets ==
    ASSUME NEW c \in Configs, Loaded(c), NEW list,
           list = expandProbePrefixes(ProbePrefixes(c), c.probes.maxHosts).targets
    PROVE  /\ list \in Seq(Addr) /\ IsInjective(list)
           /\ ToSet(list) = {a \in Universe :
                 \E i \in DOMAIN ProbePrefixes(c) :
                    InPrefix(ProbePrefixes(c)[i], a) /\ a \notin Reserved(ProbePrefixes(c)[i])}
<1> DEFINE P == ProbePrefixes(c)
<1>1. /\ P \in Seq(Prefix) /\ expandProbePrefixes(P, c.probes.maxHosts).ok
      /\ \A i \in DOMAIN P : Small(P[i])
  BY LoadedFacts
<1>0. list = expandProbePrefixes(P, c.probes.maxHosts).targets
  OBVIOUS
<1> HIDE DEF P
<1>2. list \in Seq(Addr) /\ IsInjective(list)
      /\ ToSet(list) = UNION {ToSet(Block(P[i])) : i \in DOMAIN P}
  <2> DEFINE limit == c.probes.maxHosts
  <2>1. P \in Seq(Prefix) /\ expandProbePrefixes(P, limit).ok
        /\ list = expandProbePrefixes(P, limit).targets
    BY <1>0, <1>1
  <2> HIDE DEF limit
  <2> QED
    BY <2>1, Expansion
<1>3. \A i \in DOMAIN P :
         ToSet(Block(P[i])) = {a \in Universe : InPrefix(P[i], a) /\ a \notin Reserved(P[i])}
  BY <1>1, BlockExact DEF Small
<1>4. ToSet(list) = {a \in Universe :
                       \E i \in DOMAIN P : InPrefix(P[i], a) /\ a \notin Reserved(P[i])}
  BY <1>2, <1>3
<1> QED
  BY <1>2, <1>4 DEF P

(* What is inductive about a probe of a configuration.                     *)
CaseInv ==
    /\ config \in Configs /\ locals \in LocalSets
    /\ stage \in {"file", "loaded", "not probed", "off-link", "targets", "observed"}
    /\ stage \in {"loaded", "off-link", "targets", "observed"} => Loaded(config)
    /\ stage \notin {"targets", "observed"} => targets = << >>
    /\ stage \in {"targets", "observed"} =>
          /\ validateLocalProbePrefixes(ProbePrefixes(config), locals)
          /\ targets = expandProbePrefixes(ProbePrefixes(config), config.probes.maxHosts).targets
    /\ stage = "observed" =>
          /\ DOMAIN open \subseteq ToSet(targets)
          /\ reading.before \in Seq(Entries) /\ reading.after \in Seq(Entries)
          /\ observed = combineObservations(ProbePrefixes(config), reading.before,
                                            reading.after, open)

(* The invariant of a probe holds throughout.                              *)
LEMMA CaseAlways == CaseSpec => []CaseInv
<1>1. CaseInit => CaseInv
  BY DEF CaseInit, CaseInv
<1>2. CaseInv /\ [CaseNext]_caseVars => CaseInv'
  <2> SUFFICES ASSUME CaseInv, [CaseNext]_caseVars PROVE CaseInv'
    OBVIOUS
  <2>1. CASE Load
    BY <2>1 DEF CaseInv, Load, Loaded
  <2>2. CASE Expand
    <3>1. config \in Configs /\ Loaded(config)
      BY <2>2 DEF CaseInv, Expand
    <3>2. expandProbePrefixes(ProbePrefixes(config), config.probes.maxHosts).ok
      BY <3>1, LoadedFacts
    <3>3. UNCHANGED <<config, locals>> /\ stage' \in {"off-link", "targets"}
      BY <2>2, <3>2 DEF Expand
    <3>4. CASE stage' = "off-link"
      BY <2>2, <3>1, <3>3, <3>4 DEF CaseInv, Expand
    <3>5. CASE stage' = "targets"
      <4>1. validateLocalProbePrefixes(ProbePrefixes(config), locals)
        BY <2>2, <3>5 DEF Expand
      <4>2. targets' = expandProbePrefixes(ProbePrefixes(config), config.probes.maxHosts).targets
        BY <2>2, <3>5 DEF Expand
      <4> QED
        BY <3>1, <3>3, <3>5, <4>1, <4>2 DEF CaseInv
    <3> QED
      BY <3>3, <3>4, <3>5
  <2>3. CASE Observe
    <3>1. DOMAIN open' \subseteq ToSet(targets)
      <4>1. PICK hosts \in {{}, ToSet(targets)} \cup {{t} : t \in ToSet(targets)} :
               open' = [t \in hosts |-> {22}]
        BY <2>3 DEF Observe
      <4> QED
        BY <4>1
    <3>2. reading'.before \in Seq(Entries) /\ reading'.after \in Seq(Entries)
      <4>1. PICK b, a \in {<< >>} \cup {<<e>> : e \in Entries} :
               reading' = [before |-> b, after |-> a]
        BY <2>3 DEF Observe
      <4>2. \A e \in Entries : <<e>> \in Seq(Entries)
        OBVIOUS
      <4>3. << >> \in Seq(Entries)
        BY EmptySeq
      <4> QED
        BY <4>1, <4>2, <4>3
    <3>3. observed' = combineObservations(ProbePrefixes(config), reading'.before,
                                          reading'.after, open')
      BY <2>3 DEF Observe
    <3>4. UNCHANGED <<config, locals, targets>> /\ stage = "targets" /\ stage' = "observed"
      BY <2>3 DEF Observe
    <3> QED
      BY <3>1, <3>2, <3>3, <3>4 DEF CaseInv
  <2>4. CASE UNCHANGED caseVars
    BY <2>4 DEF CaseInv, caseVars
  <2> QED
    BY <2>1, <2>2, <2>3, <2>4 DEF CaseNext, Done
<1> QED
  BY <1>1, <1>2, PTL DEF CaseSpec

(* The targets of a probe in a case.                                       *)
LEMMA CaseTargets ==
    ASSUME CaseInv, stage \in {"targets", "observed"}
    PROVE  /\ \A a \in ToSet(targets) :
                 /\ a \in Universe /\ a \in Addr
                 /\ \E i \in DOMAIN ProbePrefixes(config) : InPrefix(ProbePrefixes(config)[i], a)
           /\ ProbePrefixes(config) \in Seq(Prefix)
           /\ \A i \in DOMAIN ProbePrefixes(config) : Small(ProbePrefixes(config)[i])
<1>1. config \in Configs /\ Loaded(config)
      /\ targets = expandProbePrefixes(ProbePrefixes(config), config.probes.maxHosts).targets
  BY DEF CaseInv
<1>2. /\ targets \in Seq(Addr)
      /\ ToSet(targets) = {a \in Universe :
           \E i \in DOMAIN ProbePrefixes(config) :
              InPrefix(ProbePrefixes(config)[i], a) /\ a \notin Reserved(ProbePrefixes(config)[i])}
  BY <1>1, LoadedTargets
<1>3. \A a \in ToSet(targets) : a \in Addr
  BY <1>2, ElementOfSeq, LenProperties DEF ToSet
<1> QED
  BY <1>1, <1>2, <1>3, LoadedFacts

(* Every target is within a subnet of a local interface.                   *)
LEMMA CaseLocal ==
    ASSUME CaseInv, stage \in {"targets", "observed"}, NEW a \in ToSet(targets)
    PROVE  \E l \in locals : InPrefix(Masked(l), a)
<1>1. PICK i \in DOMAIN ProbePrefixes(config) : InPrefix(ProbePrefixes(config)[i], a)
  BY CaseTargets
<1> DEFINE p == ProbePrefixes(config)[i]
<1>2. p \in Prefix /\ a \in Addr
  BY CaseTargets DEF Small
<1>3. PICK l \in locals : /\ BitLen(l.addr) = BitLen(p.addr) /\ l.bits <= p.bits
                         /\ InPrefix(Masked(l), Masked(p).addr)
  BY DEF CaseInv, validateLocalProbePrefixes
<1>4. l \in Prefix
  BY CasesTyped DEF CaseInv
<1> HIDE DEF p
<1>5. Masked(l) \in Prefix /\ hostBits(p) <= hostBits(Masked(l))
  <2>1. Masked(l) = [addr |-> [fam |-> l.addr.fam, n |-> First(l)], bits |-> l.bits]
        /\ Masked(l) \in Prefix
    BY <1>4, MaskedFirst
  <2>2. hostBits(Masked(l)) = BitLen(p.addr) - l.bits
    BY <1>3, <2>1 DEF hostBits, BitLen
  <2>3. BitLen(p.addr) \in Nat /\ l.bits \in Nat /\ p.bits \in Nat
    BY <1>2, <1>4, WidthsOK DEF Prefix, BitLen
  <2> QED
    BY <1>3, <2>1, <2>2, <2>3 DEF hostBits
<1>6. Masked(p).addr \in Addr /\ InPrefix(p, Masked(p).addr)
  <2>1. Masked(p).addr = [fam |-> p.addr.fam, n |-> First(p)] /\ p.addr.fam \in {4, 6}
    BY <1>2, MaskedFirst DEF Prefix, Addr
  <2>2. First(p) \in Nat /\ First(p) <= First(p) /\ First(p) < First(p) + Size(p)
    BY <1>2, PrefixSize
  <2>3. Masked(p).addr \in Addr
    BY <2>1, <2>2 DEF Addr
  <2> QED
    BY <1>2, <2>1, <2>2, <2>3, InPrefixBounds
<1>7. InPrefix(Masked(l), a)
  BY <1>1, <1>2, <1>3, <1>5, <1>6, Nested DEF p
<1> QED
  BY <1>7

(* ... and is therefore not IPv4-mapped.                                   *)
LEMMA CaseUnmapped ==
    ASSUME CaseInv, stage \in {"targets", "observed"}, NEW a \in ToSet(targets)
    PROVE  Unmap(a) = a
<1>1. PICK l \in locals : InPrefix(Masked(l), a)
  BY CaseLocal
<1>2. a \in Addr /\ locals \in LocalSets
  BY CaseTargets DEF CaseInv
<1>3. ~Is4In6(a)
  <2> SUFFICES ASSUME Is4In6(a) PROVE FALSE
    OBVIOUS
  <2>1. a = [fam |-> 6, n |-> a.n] /\ a.n \in MappedBase..(MappedBase + 2^V4Bits - 1)
    BY <1>2 DEF Is4In6, Addr
  <2> QED
    BY <1>1, <1>2, <2>1, LocalsUnmapped
<1> QED
  BY <1>3 DEF Unmap

(* expandProbePrefixes returns exactly the addresses that the configured   *)
(* CIDRs contain and that are a host in one of them, each once.            *)
THEOREM CaseTargetsExact == CaseSpec => []TargetsExact
<1>1. ASSUME CaseInv PROVE TargetsExact
  <2> SUFFICES ASSUME stage = "targets" PROVE TargetsExact
    BY DEF TargetsExact
  <2>1. config \in Configs /\ Loaded(config)
        /\ targets = expandProbePrefixes(ProbePrefixes(config), config.probes.maxHosts).targets
    BY <1>1 DEF CaseInv
  <2>2. /\ IsInjective(targets)
        /\ ToSet(targets) = {a \in Universe :
              \E i \in DOMAIN ProbePrefixes(config) :
                 InPrefix(ProbePrefixes(config)[i], a) /\ a \notin Reserved(ProbePrefixes(config)[i])}
    BY <2>1, LoadedTargets
  <2> QED
    BY <2>2 DEF TargetsExact
<1> QED
  BY <1>1, CaseAlways, PTL

(* expandProbePrefixes never refuses a configuration that Validate         *)
(* accepted, whatever the limits and the widths.                           *)
THEOREM CaseLimitsAgree == CaseSpec => []LimitsAgree
<1>1. CaseInv => LimitsAgree
  BY DEF CaseInv, LimitsAgree
<1> QED
  BY <1>1, CaseAlways, PTL

(* Every address that is probed is private or link-local, although         *)
(* validateProbeConfig looks at the first one of a network only.           *)
THEOREM CasePrivate == CaseSpec => []OnlyPrivateProbed
<1>1. ASSUME CaseInv, NEW k \in DOMAIN targets PROVE IsPrivate(targets[k])
  <2>1. CASE stage \in {"targets", "observed"}
    <3> DEFINE a == targets[k]
    <3>1. a \in ToSet(targets)
      BY <1>1 DEF ToSet
    <3> HIDE DEF a
    <3>2. a \in Addr
      BY <1>1, <2>1, <3>1, CaseTargets
    <3>3. PICK i \in DOMAIN ProbePrefixes(config) : InPrefix(ProbePrefixes(config)[i], a)
      BY <1>1, <2>1, <3>1, CaseTargets
    <3> DEFINE p == ProbePrefixes(config)[i]
    <3>4. Small(p)
      BY <1>1, <2>1, CaseTargets
    <3> HIDE DEF p
    <3>5. IsPrivate(a)
      BY <3>2, <3>3, <3>4, PrivateWhole DEF Small, p
    <3> QED
      BY <3>5 DEF a
  <2>2. CASE stage \notin {"targets", "observed"}
    <3>1. targets = << >>
      BY <1>1, <2>2 DEF CaseInv
    <3> QED
      BY <1>1, <3>1
  <2> QED
    BY <2>1, <2>2
<1>2. CaseInv => OnlyPrivateProbed
  BY <1>1 DEF OnlyPrivateProbed
<1> QED
  BY <1>2, CaseAlways, PTL

(* No address outside the subnets of the local interfaces is probed.       *)
THEOREM CaseOnLink == CaseSpec => []OnlyLocalProbed
<1>1. ASSUME CaseInv, NEW k \in DOMAIN targets
      PROVE  \E l \in locals : InPrefix(Masked(l), targets[k])
  <2>1. CASE stage \in {"targets", "observed"}
    <3>1. targets[k] \in ToSet(targets)
      BY <1>1 DEF ToSet
    <3> QED
      BY <1>1, <2>1, <3>1, CaseLocal
  <2>2. CASE stage \notin {"targets", "observed"}
    <3>1. targets = << >>
      BY <1>1, <2>2 DEF CaseInv
    <3> QED
      BY <1>1, <3>1
  <2> QED
    BY <2>1, <2>2
<1>2. CaseInv => OnlyLocalProbed
  BY <1>1 DEF OnlyLocalProbed
<1> QED
  BY <1>2, CaseAlways, PTL

(* combineObservations in a case.                                          *)
LEMMA CaseCombines ==
    ASSUME CaseInv, stage = "observed"
    PROVE  /\ Combines(observed, ProbePrefixes(config), reading.before \o reading.after, open)
           /\ \A t \in DOMAIN open : containsPrefix(ProbePrefixes(config), t)
<1>1. DOMAIN open \subseteq ToSet(targets)
  BY DEF CaseInv
<1>2. \A t \in DOMAIN open : Unmap(t) = t
  BY <1>1, CaseUnmapped
<1>3. \A t \in DOMAIN open : containsPrefix(ProbePrefixes(config), t)
  BY <1>1, CaseTargets DEF containsPrefix
<1>4. observed = combineObservations(ProbePrefixes(config), reading.before, reading.after, open)
  BY DEF CaseInv
<1>5. Combines(combineObservations(ProbePrefixes(config), reading.before, reading.after, open),
               ProbePrefixes(config), reading.before \o reading.after, open)
  BY <1>2, Combination
<1> QED
  BY <1>3, <1>4, <1>5

(* Every host that answered scanTCP is in what combineObservations makes,  *)
(* with its ports: no IPv4-mapped network passes the local check.          *)
THEOREM CaseOpenObserved == CaseSpec => []OpenHostsObserved
<1>1. CaseInv => OpenHostsObserved
  BY CaseCombines DEF OpenHostsObserved, Combines
<1> QED
  BY <1>1, CaseAlways, PTL

(* A host has the newest MAC that was read for it before or after the TCP  *)
(* scan, and an incomplete entry erases none.                              *)
THEOREM CaseNewestMac == CaseSpec => []NewestMac
<1>1. ASSUME CaseInv, stage = "observed", NEW a \in DOMAIN observed
      PROVE  LET macs(entries) == {entries[i].mac : i \in {j \in DOMAIN entries :
                                      entries[j].address = a /\ entries[j].mac # ""}}
             IN  observed[a].mac \in
                     IF macs(reading.after) # {} THEN macs(reading.after)
                     ELSE macs(reading.before) \cup
                          IF macs(reading.before) = {} THEN {""} ELSE {}
  <2> DEFINE b == reading.before
             c == reading.after
             r == b \o c
             macs(entries) == {entries[i].mac : i \in {j \in DOMAIN entries :
                                 entries[j].address = a /\ entries[j].mac # ""}}
             says == [i \in DOMAIN r |-> r[i].mac]
             given == {i \in About(r, a) : says[i] # ""}
             m == observed[a].mac
  <2>1. /\ b \in Seq(Entries) /\ c \in Seq(Entries)
    BY <1>1 DEF CaseInv
  <2>2. m = LastText(says, About(r, a))
    BY <1>1, CaseCombines DEF Combines
  <2> HIDE DEF b, c, m
  <2>3. /\ r \in Seq(Entries) /\ Len(b) \in Nat /\ Len(c) \in Nat /\ Len(r) = Len(b) + Len(c)
        /\ DOMAIN r = 1..Len(r) /\ DOMAIN b = 1..Len(b) /\ DOMAIN c = 1..Len(c)
        /\ \A i \in 1..Len(b) : r[i] = b[i]
        /\ \A i \in 1..Len(c) : r[Len(b) + i] = c[i]
    BY <2>1, ConcatProperties, LenProperties
  <2>10. /\ \A i \in DOMAIN b : i \in DOMAIN r /\ r[i] = b[i]
         /\ \A i \in DOMAIN c : Len(b) + i \in DOMAIN r /\ r[Len(b) + i] = c[i]
         /\ \A i \in DOMAIN r : i \in DOMAIN b \/ (i - Len(b) \in DOMAIN c /\ i = Len(b) + (i - Len(b)))
         /\ \A i \in DOMAIN b, j \in DOMAIN c : ~(Len(b) + j <= i)
    <3> HIDE DEF r
    <3> QED
      BY <2>3
  <2>4. \A i \in DOMAIN r : Unmap(r[i].address) = r[i].address
    <3>1. \A i \in DOMAIN r : r[i] \in Entries
      BY <2>3, ElementOfSeq
    <3> QED
      BY <3>1, CasesTyped DEF Unmap
  <2>5. given = {i \in DOMAIN r : r[i].address = a /\ r[i].mac # ""}
    BY <2>4 DEF About
  <2>6. /\ given = {} => m = ""
        /\ given # {} => \E i \in given : m = says[i] /\ \A j \in given : j <= i
    <3>1. Len(r) \in Nat /\ About(r, a) \in SUBSET (1..Len(r))
      BY <2>3 DEF About
    <3>2. given = {i \in About(r, a) : says[i] # ""}
      OBVIOUS
    <3> HIDE DEF r, says, given
    <3>3. /\ given = {} => LastText(says, About(r, a)) = ""
          /\ given # {} => \E i \in given : /\ LastText(says, About(r, a)) = says[i]
                                           /\ \A j \in given : j <= i
      BY <3>1, <3>2, LastTextSays
    <3> QED
      BY <2>2, <3>3
  <2> HIDE DEF r, given
  <2>7. \A i \in given : says[i] = r[i].mac
    BY <2>5
  <2> HIDE DEF says
  <2>8. CASE macs(c) # {}
    <3>1. PICK k \in DOMAIN c : c[k].address = a /\ c[k].mac # ""
      BY <2>8
    <3>2. Len(b) + k \in given
      BY <2>10, <2>5, <3>1
    <3>3. PICK i \in given : m = r[i].mac /\ \A j \in given : j <= i
      BY <2>6, <2>7, <3>2
    <3> DEFINE j == i - Len(b)
    <3>4. j \in DOMAIN c /\ i = Len(b) + j
      BY <2>10, <2>5, <3>1, <3>2, <3>3
    <3> HIDE DEF j
    <3>5. r[i] = c[j] /\ r[i].address = a /\ r[i].mac # ""
      BY <2>10, <2>5, <3>3, <3>4
    <3>6. m \in macs(c)
      BY <3>3, <3>4, <3>5
    <3> QED
      BY <2>8, <3>6 DEF m, c
  <2>9. CASE macs(c) = {}
    <3>1. \A i \in given : i \in DOMAIN b /\ r[i] = b[i]
      <4> SUFFICES ASSUME NEW i \in given, i \notin DOMAIN b PROVE FALSE
        BY <2>5, <2>10
      <4> DEFINE j == i - Len(b)
      <4>1. j \in DOMAIN c /\ i = Len(b) + j
        BY <2>10, <2>5
      <4> HIDE DEF j
      <4>2. c[j].address = a /\ c[j].mac # ""
        BY <2>10, <2>5, <4>1
      <4> QED
        BY <2>9, <4>1, <4>2
    <3>2. CASE given = {}
      <4>1. macs(b) = {}
        <5> SUFFICES ASSUME NEW j \in DOMAIN b, b[j].address = a, b[j].mac # "" PROVE FALSE
          OBVIOUS
        <5>1. j \in given
          BY <2>10, <2>5
        <5> QED
          BY <3>2, <5>1
      <4> QED
        BY <2>6, <2>9, <3>2, <4>1 DEF m, b, c
    <3>3. CASE given # {}
      <4>1. PICK i \in given : m = r[i].mac
        BY <2>6, <2>7, <3>3
      <4>2. i \in DOMAIN b /\ r[i] = b[i] /\ r[i].address = a /\ r[i].mac # ""
        BY <2>5, <3>1
      <4>3. m \in macs(b)
        BY <4>1, <4>2
      <4> QED
        BY <2>9, <4>3 DEF m, b, c
    <3> QED
      BY <3>2, <3>3
  <2> QED
    BY <2>8, <2>9
<1>2. CaseInv => NewestMac
  BY <1>1 DEF NewestMac
<1> QED
  BY <1>2, CaseAlways, PTL

==============================================================================
