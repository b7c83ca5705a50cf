---------------------------- MODULE EqClassProofs ----------------------------
(***************************************************************************)
(* Lemmas about EqClassMgr, for any addresses and ranges: what add_ec makes*)
(* of the classes, address by address.  Two addresses are in one class     *)
(* afterwards if they were before, or both in none, and the range that was *)
(* added tells them not apart.  And about the connection matrix: the       *)
(* classes it takes of a specification, and that its iterators, moved like *)
(* the digits of a number, go through all positions, each once.            *)
(***************************************************************************)
EXTENDS ConnectionMatrix, Induction, FiniteSetTheorems

-----------------------------------------------------------------------------
(* Classes, address by address                                             *)

\* The ranges of classes.
EcRanges == {r \in [lb : Addresses, ub : Addresses, ec : Nat] : r.lb <= r.ub}

Has(r, a) == r.lb <= a /\ a <= r.ub

Mgrs == [all_ecs : Nat, allranges : SUBSET EcRanges, owned_ecs : SUBSET Nat, ports : SUBSET Nat]

\* The classes of ranges and the owned ones are among those created, and no address
\* is in two ranges.
Proper(m) ==
  /\ m \in Mgrs
  /\ m.owned_ecs \subseteq 1 .. m.all_ecs
  /\ \A r \in m.allranges : r.ec \in 1 .. m.all_ecs
  /\ \A r, s \in m.allranges, a \in Addresses : Has(r, a) /\ Has(s, a) => r = s

\* Address a is in class e.
In(m, a, e) == \E r \in m.allranges : r.ec = e /\ Has(r, a)

InNone(m, a) == \A e : ~In(m, a, e)

LEMMA AddressFacts ==
  /\ MaxAddr \in Nat
  /\ \A a : a \in Addresses <=> a \in Nat /\ a <= MaxAddr
BY EqClassAssumption DEF Addresses

\* Ranges overlap if an address is in both.
LEMMA OverlapsShared ==
  ASSUME NEW r, r.lb \in Addresses, r.ub \in Addresses, r.lb <= r.ub,
         NEW s, s.lb \in Addresses, s.ub \in Addresses, s.lb <= s.ub
  PROVE  Overlaps(s, r) <=> \E a \in Addresses : Has(s, a) /\ Has(r, a)
<1>1. /\ r.lb \in Nat /\ r.ub \in Nat /\ s.lb \in Nat /\ s.ub \in Nat
  BY AddressFacts
<1>2. ASSUME Overlaps(s, r)
      PROVE  \E a \in Addresses : Has(s, a) /\ Has(r, a)
  <2>1. CASE s.lb <= r.lb
    <3>1. Has(s, r.lb) /\ Has(r, r.lb)
      BY <1>1, <1>2, <2>1 DEF Overlaps, Has
    <3> QED
      BY <3>1
  <2>2. CASE ~(s.lb <= r.lb)
    <3>1. Has(s, s.lb) /\ Has(r, s.lb)
      BY <1>1, <1>2, <2>2 DEF Overlaps, Has
    <3> QED
      BY <3>1
  <2> QED
    BY <2>1, <2>2
<1>3. ASSUME NEW a \in Addresses, Has(s, a), Has(r, a)
      PROVE  Overlaps(s, r)
  <2>1. a \in Nat
    BY AddressFacts
  <2> QED
    BY <1>1, <1>3, <2>1 DEF Overlaps, Has
<1> QED
  BY <1>2, <1>3

-----------------------------------------------------------------------------
(* Splitting a class                                                       *)

\* The piece of the range r of a class inside the range that is added.
Moved(r, range, new) == [Inside(r, range) EXCEPT !.ec = new]

LEMMA PieceFacts ==
  ASSUME NEW r \in EcRanges, NEW range \in Ranges, Overlaps(r, range), NEW new \in Nat
  PROVE  /\ Moved(r, range, new) \in EcRanges /\ Moved(r, range, new).ec = new
         /\ \A a \in Addresses : Has(Moved(r, range, new), a) <=> Has(r, a) /\ Has(range, a)
<1> DEFINE p == Moved(r, range, new)
           l == IF r.lb < range.lb THEN range.lb ELSE r.lb
           u == IF range.ub < r.ub THEN range.ub ELSE r.ub
<1>1. /\ r.lb \in Addresses /\ r.ub \in Addresses /\ r.ec \in Nat /\ r.lb <= r.ub
      /\ range.lb \in Addresses /\ range.ub \in Addresses /\ range.lb <= range.ub
  BY DEF EcRanges, Ranges
<1>2. p = [lb |-> l, ub |-> u, ec |-> new]
  <2> DEFINE k == [lb |-> r.lb, ub |-> r.ub, ec |-> r.ec]
             old == r.ec
  <2>1. r = k
    BY DEF EcRanges
  <2>2. Inside(r, range) = [[r EXCEPT !.lb = l] EXCEPT !.ub = u]
    BY <2>1 DEF Inside
  <2> HIDE DEF l, u
  <2>3. Inside(r, range) = [lb |-> l, ub |-> u, ec |-> old]
    BY <2>1, <2>2
  <2> QED
    BY <2>3 DEF Moved
<1> HIDE DEF p
<1>3. /\ r.lb \in Nat /\ r.ub \in Nat /\ range.lb \in Nat /\ range.ub \in Nat
  BY <1>1, AddressFacts
<1>4. l \in Addresses /\ u \in Addresses /\ l <= u
  BY <1>1, <1>3 DEF Overlaps
<1>5. p \in EcRanges /\ p.ec = new
  BY <1>2, <1>4 DEF EcRanges
<1>6. ASSUME NEW a \in Addresses
      PROVE  Has(p, a) <=> Has(r, a) /\ Has(range, a)
  <2>1. a \in Nat
    BY AddressFacts
  <2>2. Has(p, a) <=> l <= a /\ a <= u
    BY <1>2 DEF Has
  <2>3. l <= a /\ a <= u <=> r.lb <= a /\ a <= r.ub /\ range.lb <= a /\ a <= range.ub
    BY <1>3, <2>1
  <2> QED
    BY <2>2, <2>3 DEF Has
<1> QED
  BY <1>5, <1>6 DEF p

\* Its pieces outside.
LEMMA OutsideFacts ==
  ASSUME NEW r \in EcRanges, NEW range \in Ranges, Overlaps(r, range)
  PROVE  /\ \A p \in Outside(r, range) :
              /\ p \in EcRanges /\ p.ec = r.ec
              /\ \A a \in Addresses : Has(p, a) => Has(r, a) /\ ~Has(range, a)
         /\ \A a \in Addresses :
              Has(r, a) /\ ~Has(range, a) => \E p \in Outside(r, range) : Has(p, a)
         /\ \A p, q \in Outside(r, range), a \in Addresses : Has(p, a) /\ Has(q, a) => p = q
<1> DEFINE low == [r EXCEPT !.ub = range.lb - 1]
           high == [r EXCEPT !.lb = range.ub + 1]
<1>1. /\ r.lb \in Addresses /\ r.ub \in Addresses /\ r.ec \in Nat /\ r.lb <= r.ub
      /\ range.lb \in Addresses /\ range.ub \in Addresses /\ range.lb <= range.ub
  BY DEF EcRanges, Ranges
<1>2. /\ r.lb \in Nat /\ r.ub \in Nat /\ range.lb \in Nat /\ range.ub \in Nat
      /\ r.ub <= MaxAddr /\ r.lb <= range.ub /\ range.lb <= r.ub /\ MaxAddr \in Nat
  BY <1>1, AddressFacts DEF Overlaps
<1>3. low = [lb |-> r.lb, ub |-> range.lb - 1, ec |-> r.ec]
  BY DEF EcRanges
<1>4. high = [lb |-> range.ub + 1, ub |-> r.ub, ec |-> r.ec]
  BY DEF EcRanges
<1>5. /\ low.lb = r.lb /\ low.ub = range.lb - 1 /\ low.ec = r.ec
      /\ high.lb = range.ub + 1 /\ high.ub = r.ub /\ high.ec = r.ec
  BY <1>3, <1>4
<1>6. \A p : p \in Outside(r, range) <=> /\ p = low \/ p = high
                                        /\ p.lb <= p.ub /\ Within(p, r)
  BY DEF Outside
<1>7. low.lb <= low.ub => low \in EcRanges
  BY <1>1, <1>2, <1>3, <1>5, AddressFacts DEF EcRanges
<1>8. high.lb <= high.ub => high \in EcRanges
  BY <1>1, <1>2, <1>4, <1>5, AddressFacts DEF EcRanges
<1> HIDE DEF low, high
<1>9. ASSUME NEW a \in Addresses
      PROVE  /\ Has(low, a) <=> r.lb <= a /\ a <= range.lb - 1
             /\ Has(high, a) <=> range.ub + 1 <= a /\ a <= r.ub
             /\ a \in Nat
  BY <1>5, AddressFacts DEF Has
<1>10. ASSUME NEW p \in Outside(r, range)
       PROVE  /\ p \in EcRanges /\ p.ec = r.ec
              /\ \A a \in Addresses : Has(p, a) => Has(r, a) /\ ~Has(range, a)
  <2>1. p \in EcRanges /\ p.ec = r.ec
    BY <1>5, <1>6, <1>7, <1>8
  <2>2. ASSUME NEW a \in Addresses, Has(p, a)
        PROVE  Has(r, a) /\ ~Has(range, a)
    <3>1. p = low \/ p = high
      BY <1>6
    <3>2. a \in Nat /\ ((r.lb <= a /\ a <= range.lb - 1) \/ (range.ub + 1 <= a /\ a <= r.ub))
      BY <1>9, <2>2, <3>1
    <3>3. r.lb <= a /\ a <= r.ub /\ ~(range.lb <= a /\ a <= range.ub)
      BY <1>2, <3>2
    <3> QED
      BY <3>3 DEF Has
  <2> QED
    BY <2>1, <2>2
<1>11. ASSUME NEW a \in Addresses, Has(r, a), ~Has(range, a)
       PROVE  \E p \in Outside(r, range) : Has(p, a)
  <2>1. a \in Nat /\ r.lb <= a /\ a <= r.ub /\ ~(range.lb <= a /\ a <= range.ub)
    BY <1>11, AddressFacts DEF Has
  <2>2. CASE a < range.lb
    <3>1. Has(low, a) /\ low.lb <= low.ub /\ Within(low, r)
      BY <1>2, <1>5, <1>9, <2>1, <2>2 DEF Within
    <3> QED
      BY <1>6, <3>1
  <2>3. CASE ~(a < range.lb)
    <3>1. Has(high, a) /\ high.lb <= high.ub /\ Within(high, r)
      BY <1>2, <1>5, <1>9, <2>1, <2>3 DEF Within
    <3> QED
      BY <1>6, <3>1
  <2> QED
    BY <2>2, <2>3
<1>12. \A p, q \in Outside(r, range), a \in Addresses : Has(p, a) /\ Has(q, a) => p = q
  <2>1. \A a \in Addresses : ~(Has(low, a) /\ Has(high, a))
    BY <1>1, <1>2, <1>9
  <2> QED
    BY <1>6, <2>1
<1> QED
  BY <1>10, <1>11, <1>12

\* What split_intersected_ec makes of the ranges: those of the class in the range
\* move to the new one.
SplitRanges(m, ec, range) ==
  LET hit == {r \in RangesOf(m, ec) : Overlaps(r, range)}
  IN (m.allranges \ hit) \union (UNION {Outside(r, range) : r \in hit})
       \union {Moved(r, range, m.all_ecs + 1) : r \in hit}

LEMMA SplitFields ==
  ASSUME NEW m \in Mgrs, NEW ec, NEW range, NEW owned,
         OwnedAfterSplit(m, ec, m.all_ecs + 1, owned) \in SUBSET Nat,
         SplitRanges(m, ec, range) \in SUBSET EcRanges,
         NEW n, n = SplitIntersectedEc(m, ec, range, owned)
  PROVE  /\ n \in Mgrs /\ n.all_ecs = m.all_ecs + 1 /\ n.ports = m.ports
         /\ n.allranges = SplitRanges(m, ec, range)
         /\ n.owned_ecs = OwnedAfterSplit(m, ec, m.all_ecs + 1, owned)
<1> DEFINE a == SplitRanges(m, ec, range)
           o == OwnedAfterSplit(m, ec, m.all_ecs + 1, owned)
           c == m.all_ecs + 1
<1>1. n = [m EXCEPT !.all_ecs = c, !.allranges = a, !.owned_ecs = o]
  BY DEF SplitIntersectedEc, SplitRanges, Moved
<1>2. c \in Nat
  BY DEF Mgrs
<1> HIDE DEF a, o, c
<1>3. /\ n.all_ecs = c /\ n.allranges = a /\ n.owned_ecs = o /\ n.ports = m.ports
  BY <1>1 DEF Mgrs
<1>4. n \in Mgrs
  BY <1>1, <1>2 DEF Mgrs, a, o
<1> QED
  BY <1>3, <1>4 DEF a, o, c

\* Splitting a class moves its addresses in the range to a new one.
LEMMA SplitProper ==
  ASSUME NEW m, Proper(m), NEW ec \in 1 .. m.all_ecs, NEW range \in Ranges, NEW owned \in BOOLEAN,
         NEW n, n = SplitIntersectedEc(m, ec, range, owned)
  PROVE  /\ Proper(n) /\ n.all_ecs = m.all_ecs + 1 /\ n.ports = m.ports
         /\ n.owned_ecs = OwnedAfterSplit(m, ec, m.all_ecs + 1, owned)
         /\ \A a \in Addresses, e \in Nat :
              In(n, a, e) <=>
                \/ e = m.all_ecs + 1 /\ In(m, a, ec) /\ Has(range, a)
                \/ e = ec /\ In(m, a, ec) /\ ~Has(range, a)
                \/ e \notin {ec, m.all_ecs + 1} /\ In(m, a, e)
<1> DEFINE new == m.all_ecs + 1
           R == m.allranges
           hit == {r \in RangesOf(m, ec) : Overlaps(r, range)}
           S == SplitRanges(m, ec, range)
           Piece(p, r) == p \in Outside(r, range) \/ p = Moved(r, range, new)
<1>1. /\ m \in Mgrs /\ m.all_ecs \in Nat /\ new \in Nat /\ R \in SUBSET EcRanges
      /\ m.owned_ecs \subseteq 1 .. m.all_ecs
      /\ \A r \in R : r \in EcRanges /\ r.ec \in 1 .. m.all_ecs /\ r.ec # new
      /\ \A r, s \in R, a \in Addresses : Has(r, a) /\ Has(s, a) => r = s
  BY DEF Proper, Mgrs
<1>2. \A r : r \in hit <=> r \in R /\ r.ec = ec /\ Overlaps(r, range)
  BY DEF RangesOf
<1>3. \A p : p \in S <=> (p \in R /\ p \notin hit) \/ \E r \in hit : Piece(p, r)
  BY DEF SplitRanges, Moved
<1>4. \A r \in hit : /\ r \in EcRanges
                     /\ Moved(r, range, new) \in EcRanges /\ Moved(r, range, new).ec = new
                     /\ \A a \in Addresses :
                          Has(Moved(r, range, new), a) <=> Has(r, a) /\ Has(range, a)
  BY <1>1, <1>2, PieceFacts
<1>5. \A r \in hit :
        /\ \A p \in Outside(r, range) :
             /\ p \in EcRanges /\ p.ec = r.ec
             /\ \A a \in Addresses : Has(p, a) => Has(r, a) /\ ~Has(range, a)
        /\ \A a \in Addresses :
             Has(r, a) /\ ~Has(range, a) => \E p \in Outside(r, range) : Has(p, a)
        /\ \A p, q \in Outside(r, range), a \in Addresses : Has(p, a) /\ Has(q, a) => p = q
  BY <1>1, <1>2, OutsideFacts
<1> HIDE DEF hit, S, R, new
<1>6. ASSUME NEW p \in S
      PROVE  p \in EcRanges /\ p.ec \in 1 .. m.all_ecs \cup {new}
  BY <1>1, <1>2, <1>3, <1>4, <1>5
<1>7. ASSUME NEW r \in hit, NEW p, Piece(p, r), NEW a \in Addresses, Has(p, a)
      PROVE  Has(r, a)
  BY <1>4, <1>5, <1>7
<1>8. ASSUME NEW r \in hit, NEW p, NEW q, Piece(p, r), Piece(q, r),
             NEW a \in Addresses, Has(p, a), Has(q, a)
      PROVE  p = q
  BY <1>4, <1>5, <1>8
<1>9. ASSUME NEW p \in S, NEW q \in S, NEW a \in Addresses, Has(p, a), Has(q, a)
      PROVE  p = q
  <2>1. CASE p \in R /\ p \notin hit /\ q \in R /\ q \notin hit
    BY <1>1, <1>9, <2>1
  <2>2. ASSUME NEW u \in S, NEW v \in S, Has(u, a), Has(v, a), u \in R, u \notin hit
        PROVE  v \in R /\ v \notin hit
    <3>1. ASSUME NEW r \in hit, Piece(v, r)
          PROVE  FALSE
      <4>1. Has(r, a) /\ r \in R
        BY <1>2, <1>7, <2>2, <3>1
      <4> QED
        BY <1>1, <2>2, <4>1
    <3> QED
      BY <1>3, <3>1
  <2>3. ASSUME NEW r \in hit, NEW s \in hit, Piece(p, r), Piece(q, s)
        PROVE  p = q
    <3>1. Has(r, a) /\ Has(s, a) /\ r \in R /\ s \in R
      BY <1>2, <1>7, <1>9, <2>3
    <3>2. r = s
      BY <1>1, <3>1
    <3> QED
      BY <1>8, <1>9, <2>3, <3>2
  <2> HIDE DEF Piece
  <2> QED
    BY <1>3, <1>9, <2>1, <2>2, <2>3
<1>10. OwnedAfterSplit(m, ec, new, owned) \subseteq 1 .. new
  BY <1>1 DEF OwnedAfterSplit, new
<1>11. /\ n \in Mgrs /\ n.all_ecs = new /\ n.ports = m.ports
       /\ n.allranges = S /\ n.owned_ecs = OwnedAfterSplit(m, ec, new, owned)
  <2>1. S \in SUBSET EcRanges
    BY <1>6
  <2>2. 1 .. new \subseteq Nat
    BY <1>1
  <2> QED
    BY <1>1, <1>10, <2>1, <2>2, SplitFields DEF S, new
<1>12. Proper(n)
  <2>1. 1 .. m.all_ecs \cup {new} \subseteq 1 .. new
    BY <1>1 DEF new
  <2> QED
    BY <1>6, <1>9, <1>10, <1>11, <2>1 DEF Proper
<1>13. ASSUME NEW a \in Addresses, NEW e \in Nat
       PROVE  In(n, a, e) <=> \/ e = new /\ In(m, a, ec) /\ Has(range, a)
                              \/ e = ec /\ In(m, a, ec) /\ ~Has(range, a)
                              \/ e \notin {ec, new} /\ In(m, a, e)
  <2>1. ASSUME NEW r \in R, Has(r, a), r.ec = ec, Has(range, a)
        PROVE  r \in hit
    BY <1>1, <1>2, <2>1, OverlapsShared DEF Ranges, EcRanges
  <2>2. ASSUME In(n, a, e)
        PROVE  \/ e = new /\ In(m, a, ec) /\ Has(range, a)
               \/ e = ec /\ In(m, a, ec) /\ ~Has(range, a)
               \/ e \notin {ec, new} /\ In(m, a, e)
    <3>1. PICK p \in S : p.ec = e /\ Has(p, a)
      BY <1>11, <2>2 DEF In
    <3>2. CASE p \in R /\ p \notin hit
      BY <1>1, <2>1, <3>1, <3>2 DEF In, R
    <3>3. ASSUME NEW r \in hit, Piece(p, r)
          PROVE  \/ e = new /\ In(m, a, ec) /\ Has(range, a)
                 \/ e = ec /\ In(m, a, ec) /\ ~Has(range, a)
      <4>1. r \in R /\ r.ec = ec /\ Has(r, a)
        BY <1>2, <1>7, <3>1, <3>3
      <4>2. In(m, a, ec)
        BY <4>1 DEF In, R
      <4> QED
        BY <1>4, <1>5, <3>1, <3>3, <4>1, <4>2
    <3> QED
      BY <1>3, <3>1, <3>2, <3>3
  <2>3. ASSUME e = new, In(m, a, ec), Has(range, a)
        PROVE  In(n, a, e)
    <3>1. PICK r \in R : r.ec = ec /\ Has(r, a)
      BY <2>3 DEF In, R
    <3>2. r \in hit
      BY <2>1, <2>3, <3>1
    <3>3. Moved(r, range, new) \in S
      BY <1>3, <3>2
    <3> QED
      BY <1>4, <1>11, <2>3, <3>1, <3>2, <3>3 DEF In
  <2>4. ASSUME e = ec, In(m, a, ec), ~Has(range, a)
        PROVE  In(n, a, e)
    <3>1. PICK r \in R : r.ec = ec /\ Has(r, a)
      BY <2>4 DEF In, R
    <3>2. CASE r \in hit
      <4>1. PICK p \in Outside(r, range) : Has(p, a)
        BY <1>5, <2>4, <3>1, <3>2
      <4>2. p \in S /\ p.ec = ec
        BY <1>3, <1>5, <3>1, <3>2, <4>1
      <4> QED
        BY <1>11, <2>4, <4>1, <4>2 DEF In
    <3>3. CASE r \notin hit
      BY <1>3, <1>11, <2>4, <3>1, <3>3 DEF In
    <3> QED
      BY <3>2, <3>3
  <2>5. ASSUME e \notin {ec, new}, In(m, a, e)
        PROVE  In(n, a, e)
    <3>1. PICK r \in R : r.ec = e /\ Has(r, a)
      BY <2>5 DEF In, R
    <3>2. r \notin hit
      BY <1>2, <2>5, <3>1
    <3> QED
      BY <1>3, <1>11, <3>1, <3>2 DEF In
  <2> QED
    BY <2>2, <2>3, <2>4, <2>5
<1> QED
  BY <1>11, <1>12, <1>13 DEF new
-----------------------------------------------------------------------------
(* Splitting classes one after another                                     *)

\* A set as a sequence with each of its elements once.
LEMMA SetToSeqOnce ==
  ASSUME NEW S, IsFiniteSet(S)
  PROVE  /\ Len(SetToSeq(S)) \in Nat
         /\ SetToSeq(S) \in [1 .. Len(SetToSeq(S)) -> S]
         /\ \A i, j \in 1 .. Len(SetToSeq(S)) : SetToSeq(S)[i] = SetToSeq(S)[j] => i = j
         /\ \A x \in S : \E i \in 1 .. Len(SetToSeq(S)) : SetToSeq(S)[i] = x
<1> DEFINE n == Cardinality(S)
           f == SetToSeq(S)
<1>1. n \in Nat /\ \E g \in [1 .. n -> S] : IsInjective(g)
  BY FS_CardinalityType DEF ExistsBijection, Bijection, Injection
<1>2. f \in [1 .. n -> S] /\ IsInjective(f)
  BY <1>1 DEF SetToSeq
<1>3. IsFiniteSet(1 .. n) /\ Cardinality(1 .. n) = n
  BY <1>1, FS_Interval
<1> HIDE DEF f
<1>4. f \in Surjection(1 .. n, S)
  <2>1. f \in Injection(1 .. n, S)
    BY <1>2 DEF Injection
  <2> QED
    BY <1>3, <2>1, FS_Injection
<1> HIDE DEF n
<1>5. Len(f) = n
  BY <1>1, <1>2
<1> QED
  BY <1>1, <1>2, <1>4, <1>5 DEF IsInjective, Surjection, f

\* The classes ecs after each other.
SplitAll(m, ecs, range, owned) ==
  LET split[k \in 0 .. Len(ecs)] ==
        IF k = 0 THEN m ELSE SplitIntersectedEc(split[k - 1], ecs[k], range, owned)
  IN split[Len(ecs)]

\* n is what the first k splits make of m.
AfterSplits(m, n, ecs, range, owned, k) ==
  /\ Proper(n) /\ n.all_ecs = m.all_ecs + k /\ n.ports = m.ports
  /\ \A e : e \in n.owned_ecs <=>
       \/ e \in m.owned_ecs
       \/ \E i \in 1 .. k : e = m.all_ecs + i /\ (owned \/ ecs[i] \in m.owned_ecs)
  /\ \A a \in Addresses, e \in Nat :
       In(n, a, e) <=>
         \/ \E i \in 1 .. k : e = m.all_ecs + i /\ In(m, a, ecs[i]) /\ Has(range, a)
         \/ \E i \in 1 .. k : e = ecs[i] /\ In(m, a, e) /\ ~Has(range, a)
         \/ (e \in 1 .. m.all_ecs /\ \A i \in 1 .. k : ecs[i] # e) /\ In(m, a, e)

LEMMA SplitStep ==
  ASSUME NEW m, Proper(m), NEW range \in Ranges, NEW owned \in BOOLEAN,
         NEW N \in Nat, NEW ecs \in [1 .. N -> 1 .. m.all_ecs],
         \A i, j \in 1 .. N : ecs[i] = ecs[j] => i = j,
         NEW k \in 1 .. N, NEW n, AfterSplits(m, n, ecs, range, owned, k - 1)
  PROVE  AfterSplits(m, SplitIntersectedEc(n, ecs[k], range, owned), ecs, range, owned, k)
<1> DEFINE p == SplitIntersectedEc(n, ecs[k], range, owned)
           all == m.all_ecs
           e0 == ecs[k]
           Before(a, e) ==
             \/ \E i \in 1 .. k - 1 : e = all + i /\ In(m, a, ecs[i]) /\ Has(range, a)
             \/ \E i \in 1 .. k - 1 : e = ecs[i] /\ In(m, a, e) /\ ~Has(range, a)
             \/ (e \in 1 .. all /\ \A i \in 1 .. k - 1 : ecs[i] # e) /\ In(m, a, e)
<1>1. /\ all \in Nat /\ e0 \in 1 .. all /\ k \in Nat /\ k - 1 \in Nat
      /\ \A i \in 1 .. k : i \in Nat /\ ecs[i] \in 1 .. all
      /\ \A i \in 1 .. k - 1 : i \in 1 .. k /\ ecs[i] # e0
      /\ \A i \in 1 .. k : i = k \/ i \in 1 .. k - 1
  BY DEF Proper, Mgrs
<1>2. /\ Proper(n) /\ n.all_ecs = all + (k - 1) /\ n.ports = m.ports
      /\ \A e : e \in n.owned_ecs <=>
           \/ e \in m.owned_ecs
           \/ \E i \in 1 .. k - 1 : e = all + i /\ (owned \/ ecs[i] \in m.owned_ecs)
      /\ \A a \in Addresses, e \in Nat : In(n, a, e) <=> Before(a, e)
  BY DEF AfterSplits
<1> HIDE DEF all, e0, Before
<1>3. n.all_ecs + 1 = all + k /\ e0 \in 1 .. n.all_ecs
  BY <1>1, <1>2
<1>4. /\ Proper(p) /\ p.all_ecs = all + k /\ p.ports = n.ports
      /\ p.owned_ecs = OwnedAfterSplit(n, e0, all + k, owned)
      /\ \A a \in Addresses, e \in Nat :
           In(p, a, e) <=> \/ e = all + k /\ In(n, a, e0) /\ Has(range, a)
                           \/ e = e0 /\ In(n, a, e0) /\ ~Has(range, a)
                           \/ e \notin {e0, all + k} /\ In(n, a, e)
  BY <1>2, <1>3, SplitProper DEF e0
<1> HIDE DEF p
<1>5. \A e : e \in p.owned_ecs <=>
        \/ e \in m.owned_ecs
        \/ \E i \in 1 .. k : e = all + i /\ (owned \/ ecs[i] \in m.owned_ecs)
  <2>1. e0 \in n.owned_ecs <=> e0 \in m.owned_ecs
    BY <1>1, <1>2
  <2>2. \A e : e \in p.owned_ecs <=>
          e \in n.owned_ecs \/ (e = all + k /\ (owned \/ e0 \in m.owned_ecs))
    BY <1>4, <2>1 DEF OwnedAfterSplit
  <2> DEFINE New(e, i) == e = all + i /\ (owned \/ ecs[i] \in m.owned_ecs)
  <2>3. \A e : (\E i \in 1 .. k : New(e, i)) <=> (\E i \in 1 .. k - 1 : New(e, i)) \/ New(e, k)
    <3> HIDE DEF New
    <3> QED
      BY <1>1
  <2>4. \A e : e \in n.owned_ecs <=> e \in m.owned_ecs \/ \E i \in 1 .. k - 1 : New(e, i)
    BY <1>2
  <2>5. \A e : New(e, k) <=> e = all + k /\ (owned \/ e0 \in m.owned_ecs)
    BY DEF e0
  <2> HIDE DEF New
  <2>6. \A e : e \in p.owned_ecs <=> e \in m.owned_ecs \/ \E i \in 1 .. k : New(e, i)
    BY <2>2, <2>3, <2>4, <2>5
  <2> QED
    BY <2>6 DEF New
<1>6. ASSUME NEW a \in Addresses, NEW e \in Nat
      PROVE  In(p, a, e) <=>
               \/ \E i \in 1 .. k : e = all + i /\ In(m, a, ecs[i]) /\ Has(range, a)
               \/ \E i \in 1 .. k : e = ecs[i] /\ In(m, a, e) /\ ~Has(range, a)
               \/ (e \in 1 .. all /\ \A i \in 1 .. k : ecs[i] # e) /\ In(m, a, e)
  <2>1. In(n, a, e0) <=> In(m, a, e0)
    <3>1. e0 \in Nat /\ \A i \in 1 .. k - 1 : e0 # all + i /\ ecs[i] # e0
      BY <1>1
    <3>2. Before(a, e0) <=> In(m, a, e0)
      BY <1>1, <3>1 DEF Before
    <3> QED
      BY <1>2, <3>1, <3>2
  <2>2. CASE e = all + k
    <3>1. In(p, a, e) <=> In(m, a, e0) /\ Has(range, a)
      BY <1>1, <1>4, <2>1, <2>2
    <3>2. e \notin 1 .. all /\ \A i \in 1 .. k : ecs[i] # e /\ (e = all + i => i = k)
      BY <1>1, <2>2
    <3> QED
      BY <1>1, <2>2, <3>1, <3>2 DEF e0
  <2>3. CASE e = e0
    <3>1. In(p, a, e) <=> In(m, a, e) /\ ~Has(range, a)
      BY <1>1, <1>4, <2>1, <2>3
    <3>2. \A i \in 1 .. k : e # all + i /\ (ecs[i] = e => i = k)
      BY <1>1, <2>3
    <3> QED
      BY <1>1, <2>3, <3>1, <3>2 DEF e0
  <2>4. CASE e \notin {e0, all + k}
    <3>1. In(p, a, e) <=> Before(a, e)
      BY <1>2, <1>4, <2>4
    <3> QED
      BY <1>1, <2>4, <3>1 DEF Before, e0
  <2> QED
    BY <2>2, <2>3, <2>4
<1> QED
  BY <1>2, <1>4, <1>5, <1>6 DEF AfterSplits, p, all

\* They are split one after another.
LEMMA SplitAllFacts ==
  ASSUME NEW m, Proper(m), NEW range \in Ranges, NEW owned \in BOOLEAN,
         NEW ecs, Len(ecs) \in Nat, ecs \in [1 .. Len(ecs) -> 1 .. m.all_ecs],
         \A i, j \in 1 .. Len(ecs) : ecs[i] = ecs[j] => i = j
  PROVE  AfterSplits(m, SplitAll(m, ecs, range, owned), ecs, range, owned, Len(ecs))
<1> DEFINE N == Len(ecs)
           S == {x \in Mgrs : Proper(x) /\ m.all_ecs <= x.all_ecs}
           Step(x, k) == SplitIntersectedEc(x, ecs[k], range, owned)
           split[k \in 0 .. N] == IF k = 0 THEN m ELSE Step(split[k - 1], k)
           D == [x \in S \X (1 .. N) |-> Step(x[1], x[2])]
<1>1. SplitAll(m, ecs, range, owned) = split[N]
  BY DEF SplitAll
<1>2. m \in Mgrs /\ m.all_ecs \in Nat /\ m \in S
  BY DEF Proper, Mgrs
<1> HIDE DEF N
<1>3. N \in Nat /\ ecs \in [1 .. N -> 1 .. m.all_ecs]
      /\ \A i, j \in 1 .. N : ecs[i] = ecs[j] => i = j
  BY DEF N
<1>4. \A x \in S : \A k \in 1 .. N : Step(x, k) \in S
  <2> SUFFICES ASSUME NEW x \in S, NEW k \in 1 .. N PROVE Step(x, k) \in S
    OBVIOUS
  <2>1. Proper(x) /\ x.all_ecs \in Nat /\ ecs[k] \in 1 .. x.all_ecs
    BY <1>2, <1>3 DEF Mgrs
  <2>2. Proper(Step(x, k)) /\ Step(x, k).all_ecs = x.all_ecs + 1
    BY <2>1, SplitProper
  <2> HIDE DEF Step
  <2> QED
    BY <1>2, <2>1, <2>2 DEF Proper
<1> HIDE DEF S, Step
<1>5. D \in Bodies(S, N) /\ \A x \in S : \A k \in 1 .. N : D[<<x, k>>] = Step(x, k)
  BY <1>4 DEF Bodies
<1> HIDE DEF D
<1>6. PICK g \in [0 .. N -> S] : Iterates(g, m, D, N)
  BY <1>2, <1>3, <1>5, LoopRuns
<1>7. ASSUME NEW k \in 0 .. N
      PROVE  g[k] = IF k = 0 THEN m ELSE Step(g[k - 1], k)
  <2>1. CASE k # 0
    <3>1. k \in 1 .. N /\ k - 1 \in 0 .. N
      BY <1>3, <2>1
    <3> QED
      BY <1>5, <1>6, <2>1, <3>1 DEF Iterates
  <2> QED
    BY <1>6, <2>1 DEF Iterates
<1>8. g = [k \in 0 .. N |-> IF k = 0 THEN m ELSE Step(g[k - 1], k)]
  BY <1>7
<1>9. split = [k \in 0 .. N |-> IF k = 0 THEN m ELSE Step(split[k - 1], k)]
  BY <1>8
<1> HIDE DEF split
<1> DEFINE T == {k \in Nat : k <= N => AfterSplits(m, split[k], ecs, range, owned, k)}
<1>10. 0 \in T
  <2>1. split[0] = m
    BY <1>3, <1>9
  <2>2. \A a, e : In(m, a, e) => e \in 1 .. m.all_ecs
    BY DEF In, Proper
  <2>3. AfterSplits(m, m, ecs, range, owned, 0)
    BY <1>2, <2>2 DEF AfterSplits
  <2> QED
    BY <2>1, <2>3
<1>11. ASSUME NEW k \in Nat, k \in T
       PROVE  k + 1 \in T
  <2> SUFFICES ASSUME k + 1 <= N
               PROVE  AfterSplits(m, split[k + 1], ecs, range, owned, k + 1)
    OBVIOUS
  <2>1. k + 1 \in 1 .. N /\ (k + 1) - 1 = k /\ k + 1 \in 0 .. N /\ k + 1 # 0 /\ k <= N
    BY <1>3
  <2>2. split[k + 1] = Step(split[k], k + 1)
    BY <1>9, <2>1
  <2> DEFINE j == k + 1
             x == split[k]
  <2>3. j \in 1 .. N /\ AfterSplits(m, x, ecs, range, owned, j - 1)
    BY <1>11, <2>1
  <2> HIDE DEF j, x, T
  <2>4. AfterSplits(m, SplitIntersectedEc(x, ecs[j], range, owned), ecs, range, owned, j)
    BY <1>3, <2>3, SplitStep
  <2> QED
    BY <2>2, <2>4 DEF j, x, Step
<1>12. N \in T
  <2> HIDE DEF T
  <2> QED
    BY <1>3, <1>10, <1>11, NatSetInduction
<1> QED
  BY <1>1, <1>12 DEF N
-----------------------------------------------------------------------------
(* The addresses of a range that are in no class                           *)

\* A number divided by itself leaves nothing.
LEMMA ModItself ==
  ASSUME NEW n \in Nat, n > 0
  PROVE  n % n = 0
<1>1. PICK q \in Int, r \in 0 .. n - 1 : r = n % n /\ n = n * q + r
  <2>1. n \div n \in Int /\ n % n \in 0 .. n - 1
    OBVIOUS
  <2>2. n = n * (n \div n) + (n % n)
    OBVIOUS
  <2> QED
    BY <2>1, <2>2
<1>2. CASE q <= 0
  <2>1. n * q <= 0
    BY <1>2
  <2> QED
    BY <1>1, <2>1
<1>3. CASE q >= 2
  <2>1. n * q >= n * 2
    BY <1>3
  <2> QED
    BY <1>1, <2>1
<1>4. CASE q = 1
  BY <1>1, <1>4
<1> QED
  BY <1>2, <1>3, <1>4

\* The address behind those of the ranges visited, and the gaps, as in
\* AddNonOverlappedEc.
Behind(range, visited) ==
  IF visited = {} THEN range.lb
  ELSE (Max({q.ub : q \in visited}) + 1) % (MaxAddr + 1)

Below(its, r) == {q \in its : q.ub < r.lb}

Gaps(range, its, new) ==
  {[lb |-> Behind(range, Below(its, r)), ub |-> r.lb - 1, ec |-> new] :
     r \in {r \in its : Behind(range, Below(its, r)) < r.lb}}

Rest(range, its, new) ==
  {[lb |-> b, ub |-> range.ub, ec |-> new] : b \in {Behind(range, its)} \cap (0 .. range.ub)}

\* A set of addresses has a highest one.
LEMMA Highest ==
  ASSUME NEW U \in SUBSET Addresses, U # {}
  PROVE  Max(U) \in U /\ \A x \in U : x <= Max(U)
<1> DEFINE T == {MaxAddr - x : x \in U}
<1>1. \A x \in U : x \in Nat /\ MaxAddr - x \in Nat
  BY AddressFacts
<1>2. T \in SUBSET Nat /\ T # {}
  BY <1>1
<1>3. PICK t \in T : \A y \in T : t <= y
  <2> HIDE DEF T
  <2> QED
    BY <1>2, LeastNatural
<1>4. PICK u \in U : t = MaxAddr - u
  BY <1>3
<1>5. \A y \in U : u >= y
  <2> SUFFICES ASSUME NEW y \in U PROVE u >= y
    OBVIOUS
  <2>1. t <= MaxAddr - y
    BY <1>3
  <2> QED
    BY <1>1, <1>4, <2>1, AddressFacts
<1>6. Max(U) \in U /\ \A y \in U : Max(U) >= y
  BY <1>5 DEF Max
<1> QED
  BY <1>1, <1>6

\* What is behind ranges that do not end with the highest address.
LEMMA BehindFacts ==
  ASSUME NEW range \in Ranges, NEW its \in SUBSET EcRanges,
         \A q \in its : q.ub < MaxAddr /\ Overlaps(q, range),
         NEW b, b = Behind(range, its)
  PROVE  /\ b \in Nat /\ range.lb <= b
         /\ \A q \in its : q.ub < b
         /\ \/ its = {} /\ b = range.lb
            \/ \E q \in its : b = q.ub + 1
<1>1. range.lb \in Nat /\ range.lb \in Addresses /\ range.ub \in Addresses
  BY AddressFacts DEF Ranges
<1>2. \A q \in its : q.ub \in Addresses /\ q.ub \in Nat /\ q.lb \in Nat
  BY AddressFacts DEF EcRanges
<1>3. CASE its = {}
  BY <1>1, <1>3 DEF Behind
<1>4. CASE its # {}
  <2> DEFINE U == {q.ub : q \in its}
             u == Max(U)
  <2>1. U \in SUBSET Addresses /\ U # {}
    BY <1>2, <1>4
  <2>2. u \in U /\ \A x \in U : x <= u
    <3> HIDE DEF U
    <3> QED
      BY <2>1, Highest
  <2>3. b = (u + 1) % (MaxAddr + 1)
    BY <1>4 DEF Behind
  <2>4. PICK p \in its : u = p.ub
    BY <2>2
  <2>5. \A q \in its : q.ub <= u
    BY <2>2
  <2> HIDE DEF u
  <2>6. u \in Nat /\ u < MaxAddr /\ MaxAddr \in Nat
    BY <1>2, <2>4, AddressFacts
  <2>7. b = u + 1
    BY <2>3, <2>6
  <2>8. ~(p.ub < range.lb)
    BY DEF Overlaps
  <2> QED
    BY <1>1, <1>2, <2>4, <2>5, <2>6, <2>7, <2>8
<1> QED
  BY <1>3, <1>4

\* A range that ends with the highest address overlaps what then is added.
LEMMA BehindHighest ==
  ASSUME NEW m, Proper(m), NEW range \in Ranges, NEW new \in Nat,
         NEW q \in OverlappedRanges(m, range), q.ub = MaxAddr,
         NEW r \in Rest(range, OverlappedRanges(m, range), new)
  PROVE  OverlappedRanges(m, r) # {}
<1> DEFINE its == OverlappedRanges(m, range)
           U == {s.ub : s \in its}
<1>1. /\ its \in SUBSET EcRanges /\ its \in SUBSET m.allranges
      /\ q \in m.allranges /\ Overlaps(q, range) /\ q \in EcRanges
  BY DEF OverlappedRanges, Proper, Mgrs
<1>2. U \in SUBSET Addresses /\ MaxAddr \in U
  BY <1>1 DEF EcRanges
<1>3. Max(U) = MaxAddr
  <2> HIDE DEF U
  <2>1. Max(U) \in U /\ MaxAddr <= Max(U)
    BY <1>2, Highest
  <2> DEFINE u == Max(U)
  <2>2. u \in Addresses /\ MaxAddr <= u
    BY <1>2, <2>1
  <2> HIDE DEF u
  <2>3. u = MaxAddr
    BY <2>2, AddressFacts
  <2> QED
    BY <2>3 DEF u
<1>4. Behind(range, its) = 0
  <2>1. MaxAddr + 1 \in Nat /\ MaxAddr + 1 > 0
    BY AddressFacts
  <2>2. (MaxAddr + 1) % (MaxAddr + 1) = 0
    BY <2>1, ModItself
  <2>3. its # {}
    OBVIOUS
  <2> HIDE DEF its
  <2>4. Behind(range, its) = (Max(U) + 1) % (MaxAddr + 1)
    BY <2>3 DEF Behind
  <2> QED
    BY <1>3, <2>2, <2>4
<1>5. r = [lb |-> 0, ub |-> range.ub, ec |-> new]
  BY <1>4 DEF Rest
<1>6. q.lb \in Nat /\ range.ub \in Nat /\ MaxAddr \in Nat /\ ~(range.ub < q.lb)
  BY <1>1, AddressFacts DEF EcRanges, Ranges, Overlaps
<1>7. Overlaps(q, r)
  BY <1>5, <1>6 DEF Overlaps
<1> QED
  BY <1>1, <1>7 DEF OverlappedRanges
\* The ranges of classes lie one behind another.
LEMMA Apart ==
  ASSUME NEW m, Proper(m), NEW r \in m.allranges, NEW s \in m.allranges
  PROVE  /\ r \in EcRanges /\ r.lb \in Nat /\ r.ub \in Nat /\ r.lb <= r.ub
         /\ r.lb <= MaxAddr /\ r.ub <= MaxAddr /\ r.ec \in 1 .. m.all_ecs
         /\ r = s \/ r.ub < s.lb \/ s.ub < r.lb
<1>1. r \in EcRanges /\ s \in EcRanges /\ r.ec \in 1 .. m.all_ecs
  BY DEF Proper, Mgrs
<1>2. ASSUME Overlaps(s, r)
      PROVE  r = s
  <2>1. PICK a \in Addresses : Has(s, a) /\ Has(r, a)
    BY <1>1, <1>2, OverlapsShared DEF EcRanges
  <2> QED
    BY <2>1 DEF Proper
<1> QED
  BY <1>1, <1>2, AddressFacts DEF EcRanges, Overlaps

\* What add_non_overlapped_ec inserts.
Inserted(m, range, new) ==
  LET its == OverlappedRanges(m, range)
  IN Gaps(range, its, new) \cup {r \in Rest(range, its, new) : OverlappedRanges(m, r) = {}}

\* These are ranges of addresses in no class, none of which is in two of them.
LEMMA GapFacts ==
  ASSUME NEW m, Proper(m), NEW range \in Ranges, NEW new \in Nat
  PROVE  /\ \A p \in Inserted(m, range, new) :
              /\ p \in EcRanges /\ p.ec = new
              /\ \A a \in Addresses : Has(p, a) => Has(range, a) /\ InNone(m, a)
         /\ \A a \in Addresses :
              Has(range, a) /\ InNone(m, a) => \E p \in Inserted(m, range, new) : Has(p, a)
         /\ \A p, q \in Inserted(m, range, new), a \in Addresses : Has(p, a) /\ Has(q, a) => p = q
<1> DEFINE its == OverlappedRanges(m, range)
           b(r) == Behind(range, Below(its, r))
           Gap(r) == [lb |-> b(r), ub |-> r.lb - 1, ec |-> new]
           end == Behind(range, its)
           rest == [lb |-> end, ub |-> range.ub, ec |-> new]
           Open == \A q \in its : q.ub < MaxAddr
           Is(p) == \/ \E r \in its : p = Gap(r) /\ b(r) < r.lb
                    \/ p = rest /\ end <= range.ub /\ Open
<1>1. /\ range.lb \in Addresses /\ range.ub \in Addresses /\ range.lb <= range.ub
      /\ range.lb \in Nat /\ range.ub \in Nat /\ range.ub <= MaxAddr /\ MaxAddr \in Nat
  BY AddressFacts DEF Ranges
<1>2. \A r : r \in its <=> r \in m.allranges /\ Overlaps(r, range)
  BY DEF OverlappedRanges
<1>3. \A r \in its : /\ r \in EcRanges /\ r.lb \in Nat /\ r.ub \in Nat /\ r.lb <= r.ub
                     /\ r.lb <= MaxAddr /\ r.ub <= MaxAddr
                     /\ range.lb <= r.ub /\ r.lb <= range.ub
                     /\ Overlaps(r, range)
  <2> SUFFICES ASSUME NEW r \in its
               PROVE  /\ r \in EcRanges /\ r.lb \in Nat /\ r.ub \in Nat /\ r.lb <= r.ub
                      /\ r.lb <= MaxAddr /\ r.ub <= MaxAddr
                      /\ range.lb <= r.ub /\ r.lb <= range.ub
                      /\ Overlaps(r, range)
    OBVIOUS
  <2>1. /\ r \in EcRanges /\ r.lb \in Nat /\ r.ub \in Nat /\ r.lb <= r.ub
        /\ r.lb <= MaxAddr /\ r.ub <= MaxAddr
    BY <1>2, Apart
  <2> QED
    BY <1>1, <1>2, <2>1 DEF Overlaps
<1>4. \A r, s \in its : r = s \/ r.ub < s.lb \/ s.ub < r.lb
  BY <1>2, Apart
<1> HIDE DEF its
<1>5. \A r \in its : \A q : q \in Below(its, r) <=> q \in its /\ q.ub < r.lb
  BY DEF Below
<1>6. \A r \in its : /\ b(r) \in Nat /\ range.lb <= b(r)
                     /\ \A q \in Below(its, r) : q.ub < b(r)
                     /\ \/ Below(its, r) = {} /\ b(r) = range.lb
                        \/ \E q \in Below(its, r) : b(r) = q.ub + 1
  <2> SUFFICES ASSUME NEW r \in its
               PROVE  /\ b(r) \in Nat /\ range.lb <= b(r)
                      /\ \A q \in Below(its, r) : q.ub < b(r)
                      /\ \/ Below(its, r) = {} /\ b(r) = range.lb
                         \/ \E q \in Below(its, r) : b(r) = q.ub + 1
    OBVIOUS
  <2>1. Below(its, r) \in SUBSET EcRanges
    BY <1>3, <1>5
  <2>2. \A q \in Below(its, r) : q.ub < MaxAddr /\ Overlaps(q, range)
    BY <1>1, <1>3, <1>5
  <2> QED
    BY <2>1, <2>2, BehindFacts
<1>7. ASSUME Open
      PROVE  /\ end \in Nat /\ range.lb <= end
             /\ \A q \in its : q.ub < end
             /\ \/ its = {} /\ end = range.lb
                \/ \E q \in its : end = q.ub + 1
  <2>1. its \in SUBSET EcRanges
    BY <1>3
  <2> QED
    BY <1>3, <1>7, <2>1, BehindFacts
<1> HIDE DEF b, end
<1>8. Open => OverlappedRanges(m, rest) = {}
  <2> SUFFICES ASSUME Open, NEW s \in OverlappedRanges(m, rest) PROVE FALSE
    OBVIOUS
  <2>1. s \in m.allranges /\ Overlaps(s, rest)
    BY DEF OverlappedRanges
  <2>2. s.lb \in Nat /\ s.ub \in Nat /\ s.lb <= s.ub
    BY <2>1, Apart
  <2>3. end <= s.ub /\ s.lb <= range.ub
    BY <1>1, <1>7, <2>1, <2>2 DEF Overlaps
  <2>4. s \in its
    BY <1>1, <1>2, <1>7, <2>1, <2>2, <2>3 DEF Overlaps
  <2> QED
    BY <1>3, <1>7, <2>3, <2>4
<1>9. \A p : p \in Inserted(m, range, new) <=> Is(p)
  <2>1. \A p : p \in Gaps(range, its, new) <=> \E r \in its : p = Gap(r) /\ b(r) < r.lb
    BY DEF Gaps, b
  <2>2. \A p : p \in Rest(range, its, new) <=> p = rest /\ end \in 0 .. range.ub
    BY DEF Rest, end
  <2>3. ASSUME rest \in Rest(range, its, new), OverlappedRanges(m, rest) = {}
        PROVE  Open
    <3> SUFFICES ASSUME NEW q \in its, ~(q.ub < MaxAddr) PROVE FALSE
      OBVIOUS
    <3>1. q.ub = MaxAddr
      BY <1>1, <1>3
    <3> QED
      BY <2>3, <3>1, BehindHighest DEF its
  <2>4. Open /\ end <= range.ub => end \in 0 .. range.ub
    BY <1>1, <1>7
  <2> HIDE DEF Gap, rest, Open
  <2>5. \A p : p \in Rest(range, its, new) /\ OverlappedRanges(m, p) = {} <=>
                 p = rest /\ end <= range.ub /\ Open
    BY <1>1, <1>8, <2>2, <2>3, <2>4
  <2> QED
    BY <2>1, <2>5 DEF Inserted, its
<1>10. \A r, s \in its : b(r) < r.lb /\ s.ub < r.lb => s.ub < b(r)
  BY <1>3, <1>5, <1>6
<1>11. ASSUME NEW p, Is(p)
       PROVE  /\ p \in EcRanges /\ p.ec = new
              /\ \A a \in Addresses : Has(p, a) => Has(range, a) /\ InNone(m, a)
  <2>1. ASSUME NEW r \in its, p = Gap(r), b(r) < r.lb
        PROVE  /\ p \in EcRanges /\ p.ec = new
               /\ \A a \in Addresses : Has(p, a) => Has(range, a) /\ InNone(m, a)
    <3>1. /\ b(r) \in Nat /\ range.lb <= b(r) /\ r.lb \in Nat /\ r.lb <= MaxAddr
          /\ r.lb <= range.ub
      BY <1>3, <1>6
    <3>2. p.lb = b(r) /\ p.ub = r.lb - 1 /\ p.ec = new
      BY <2>1
    <3>3. p \in EcRanges
      <4>1. b(r) \in Addresses /\ r.lb - 1 \in Addresses /\ b(r) <= r.lb - 1
        BY <1>1, <2>1, <3>1, AddressFacts
      <4> QED
        BY <2>1, <4>1 DEF EcRanges
    <3>4. ASSUME NEW a \in Addresses, Has(p, a)
          PROVE  Has(range, a) /\ InNone(m, a)
      <4>1. a \in Nat /\ b(r) <= a /\ a <= r.lb - 1
        BY <3>2, <3>4, AddressFacts DEF Has
      <4>2. Has(range, a)
        BY <1>1, <3>1, <4>1 DEF Has
      <4>3. ASSUME NEW s \in m.allranges, Has(s, a)
            PROVE  FALSE
        <5>1. s.lb \in Nat /\ s.ub \in Nat /\ s.lb <= a /\ a <= s.ub
          BY <4>3, Apart DEF Has
        <5>2. s \in its
          BY <1>1, <1>2, <3>1, <4>1, <5>1 DEF Overlaps
        <5>3. s.ub < r.lb
          BY <1>3, <1>4, <4>1, <5>1, <5>2
        <5>4. s.ub < b(r)
          BY <1>10, <2>1, <5>2, <5>3
        <5> QED
          BY <3>1, <4>1, <5>1, <5>4
      <4> QED
        BY <4>2, <4>3 DEF InNone, In
    <3> QED
      BY <3>2, <3>3, <3>4
  <2>2. ASSUME p = rest, end <= range.ub, Open
        PROVE  /\ p \in EcRanges /\ p.ec = new
               /\ \A a \in Addresses : Has(p, a) => Has(range, a) /\ InNone(m, a)
    <3>1. p.lb = end /\ p.ub = range.ub /\ p.ec = new
      BY <2>2
    <3>2. end \in Nat /\ range.lb <= end
      BY <1>7, <2>2
    <3>3. p \in EcRanges
      <4>1. end \in Addresses
        BY <1>1, <2>2, <3>2, AddressFacts
      <4> QED
        BY <1>1, <2>2, <4>1 DEF EcRanges
    <3>4. ASSUME NEW a \in Addresses, Has(p, a)
          PROVE  Has(range, a) /\ InNone(m, a)
      <4>1. a \in Nat /\ end <= a /\ a <= range.ub
        BY <3>1, <3>4, AddressFacts DEF Has
      <4>2. Has(range, a)
        BY <1>1, <3>2, <4>1 DEF Has
      <4>3. ASSUME NEW s \in m.allranges, Has(s, a)
            PROVE  FALSE
        <5>1. s.lb \in Nat /\ s.ub \in Nat /\ s.lb <= a /\ a <= s.ub
          BY <4>3, Apart DEF Has
        <5>2. Overlaps(s, rest)
          BY <1>1, <3>2, <4>1, <5>1 DEF Overlaps
        <5> QED
          BY <1>8, <2>2, <5>2 DEF OverlappedRanges
      <4> QED
        BY <4>2, <4>3 DEF InNone, In
    <3> QED
      BY <3>1, <3>3, <3>4
  <2> QED
    BY <1>11, <2>1, <2>2
<1>12. ASSUME NEW a \in Addresses, Has(range, a), InNone(m, a)
       PROVE  \E p : Is(p) /\ Has(p, a)
  <2> DEFINE above == {r.lb : r \in {s \in its : a < s.lb}}
  <2>1. a \in Nat /\ range.lb <= a /\ a <= range.ub
    BY <1>12, AddressFacts DEF Has
  <2>2. ASSUME NEW r \in its
        PROVE  r.ub < a \/ a < r.lb
    <3>1. ~Has(r, a)
      BY <1>2, <1>12 DEF InNone, In
    <3> QED
      BY <1>3, <2>1, <3>1 DEF Has
  <2>3. CASE above # {}
    <3>1. above \in SUBSET Nat
      BY <1>3
    <3>2. PICK x \in above : \A y \in above : x <= y
      <4> HIDE DEF above
      <4> QED
        BY <2>3, <3>1, LeastNatural
    <3>3. PICK r \in its : x = r.lb /\ a < r.lb
      BY <3>2
    <3>4. ASSUME NEW q \in Below(its, r)
          PROVE  q.ub < a
      <4>1. q \in its /\ q.ub < r.lb
        BY <1>5
      <4>2. ~(a < q.lb)
        <5>1. a < q.lb => r.lb <= q.lb
          BY <3>2, <3>3, <4>1
        <5> QED
          BY <1>3, <4>1, <5>1
      <4> QED
        BY <2>2, <4>1, <4>2
    <3>5. b(r) <= a
      <4>1. CASE b(r) = range.lb
        BY <2>1, <4>1
      <4>2. ASSUME NEW q \in Below(its, r), b(r) = q.ub + 1
            PROVE  b(r) <= a
        <5>1. q.ub \in Nat /\ q.ub < a
          BY <1>3, <1>5, <3>4
        <5> QED
          BY <2>1, <4>2, <5>1
      <4> QED
        BY <1>6, <4>1, <4>2
    <3>6. Is(Gap(r)) /\ Has(Gap(r), a)
      <4>1. b(r) \in Nat /\ r.lb \in Nat
        BY <1>3, <1>6
      <4> QED
        BY <2>1, <3>3, <3>5, <4>1 DEF Has
    <3> QED
      BY <3>6
  <2>4. CASE above = {}
    <3>1. \A q \in its : q.ub < a
      BY <2>2, <2>4
    <3>2. Open
      BY <1>1, <1>3, <2>1, <3>1
    <3>3. end <= a
      <4>1. CASE end = range.lb
        BY <2>1, <4>1
      <4>2. ASSUME NEW q \in its, end = q.ub + 1
            PROVE  end <= a
        <5>1. q.ub \in Nat /\ q.ub < a
          BY <1>3, <3>1
        <5> QED
          BY <2>1, <4>2, <5>1
      <4> QED
        BY <1>7, <3>2, <4>1, <4>2
    <3>4. Is(rest) /\ Has(rest, a)
      <4>1. end \in Nat /\ end <= range.ub
        BY <1>1, <1>7, <2>1, <3>2, <3>3
      <4> QED
        BY <2>1, <3>2, <3>3, <4>1 DEF Has
    <3> QED
      BY <3>4
  <2> QED
    BY <2>3, <2>4
<1>13. ASSUME NEW p, NEW q, Is(p), Is(q), NEW a \in Addresses, Has(p, a), Has(q, a)
       PROVE  p = q
  <2>1. a \in Nat
    BY AddressFacts
  <2>2. ASSUME NEW r \in its, Has(Gap(r), a)
        PROVE  /\ b(r) <= a /\ a < r.lb
               /\ \A s \in its : s.ub < r.lb => s.ub < a
    <3>1. b(r) \in Nat /\ r.lb \in Nat /\ b(r) <= a /\ a <= r.lb - 1
      BY <1>3, <1>6, <2>2 DEF Has
    <3>2. b(r) < r.lb
      BY <2>1, <3>1
    <3>3. \A s \in its : s.ub < r.lb => s.ub < b(r) /\ s.ub \in Nat
      BY <1>3, <1>10, <3>2
    <3> QED
      BY <2>1, <3>1, <3>3
  <2>3. ASSUME NEW r \in its, NEW s \in its, Has(Gap(r), a), Has(Gap(s), a)
        PROVE  r = s
    <3>1. a < r.lb /\ a < s.lb
      BY <2>2, <2>3
    <3>2. ~(r.ub < s.lb) /\ ~(s.ub < r.lb)
      <4>1. r.ub < s.lb => r.ub < a
        BY <2>2, <2>3
      <4>2. s.ub < r.lb => s.ub < a
        BY <2>2, <2>3
      <4> QED
        BY <1>3, <2>1, <3>1, <4>1, <4>2
    <3> QED
      BY <1>4, <3>2
  <2>4. ASSUME NEW r \in its, Has(Gap(r), a), Has(rest, a), Open
        PROVE  FALSE
    <3>1. a < r.lb
      BY <2>2, <2>4
    <3>2. end \in Nat /\ r.ub < end /\ end <= a
      BY <1>7, <2>4 DEF Has
    <3> QED
      BY <1>3, <2>1, <3>1, <3>2
  <2> HIDE DEF Gap, rest, Open
  <2> QED
    BY <1>13, <2>3, <2>4
<1> HIDE DEF Is
<1> QED
  BY <1>9, <1>11, <1>12, <1>13
\* They form a new class.
LEMMA NonOverlappedFacts ==
  ASSUME NEW m, Proper(m), NEW range \in Ranges, NEW owned \in BOOLEAN,
         NEW n, n = AddNonOverlappedEc(m, range, owned),
         NEW new, new = m.all_ecs + 1
  PROVE  /\ Proper(n) /\ n.ports = m.ports
         /\ \A a \in Addresses, e \in Nat :
              In(n, a, e) <=> In(m, a, e) \/ (e = new /\ Has(range, a) /\ InNone(m, a))
         /\ \A e \in Nat : e # new \/ ~owned => (e \in n.owned_ecs <=> e \in m.owned_ecs)
         /\ \A a : In(n, a, new) /\ owned => new \in n.owned_ecs
<1> DEFINE its == OverlappedRanges(m, range)
           found == Gaps(range, its, new) \cup Rest(range, its, new)
           ins == Inserted(m, range, new)
           o == IF owned THEN m.owned_ecs \union {new} ELSE m.owned_ecs
<1>1. /\ m \in Mgrs /\ m.all_ecs \in Nat /\ new \in Nat /\ new # 0
      /\ m.allranges \in SUBSET EcRanges /\ m.owned_ecs \in SUBSET (1 .. m.all_ecs)
      /\ \A r \in m.allranges : r.ec \in 1 .. m.all_ecs
  BY DEF Proper, Mgrs
<1>2. n = IF found = {} THEN m
          ELSE [m EXCEPT !.all_ecs = new, !.allranges = m.allranges \union ins,
                         !.owned_ecs = o]
  <2> DEFINE gaps == Gaps(range, its, new)
             last == {r \in Rest(range, its, new) : OverlappedRanges(m, r) = {}}
  <2>1. n = IF found = {} THEN m
            ELSE [m EXCEPT !.all_ecs = new, !.allranges = (m.allranges \union gaps) \union last,
                           !.owned_ecs = o]
    BY DEF AddNonOverlappedEc, Gaps, Rest, Below, Behind
  <2>2. ins = gaps \cup last
    BY DEF Inserted
  <2> HIDE DEF gaps, last, found, ins, o, its
  <2>3. m.allranges \union ins = (m.allranges \union gaps) \union last
    BY <2>2
  <2> QED
    BY <2>1, <2>3
<1>3. ins \subseteq found
  BY DEF Inserted
<1>4. /\ \A p \in ins : p \in EcRanges /\ p.ec = new
      /\ \A p \in ins, a \in Addresses : Has(p, a) => Has(range, a) /\ InNone(m, a)
      /\ \A a \in Addresses : Has(range, a) /\ InNone(m, a) => \E p \in ins : Has(p, a)
      /\ \A p, q \in ins, a \in Addresses : Has(p, a) /\ Has(q, a) => p = q
  BY <1>1, GapFacts
<1>5. 1 .. m.all_ecs \subseteq 1 .. new /\ new \in 1 .. new /\ new \notin 1 .. m.all_ecs
      /\ 1 .. new \subseteq Nat
  BY <1>1
<1> HIDE DEF found, ins
<1>6. CASE found = {}
  <2>1. n = m /\ \A a \in Addresses : ~(Has(range, a) /\ InNone(m, a))
    BY <1>2, <1>3, <1>4, <1>6
  <2>2. \A a : ~In(m, a, new)
    BY <1>1, <1>5 DEF In
  <2> QED
    BY <2>1, <2>2
<1>7. CASE found # {}
  <2> DEFINE all == m.allranges \union ins
  <2> HIDE DEF o, all
  <2>1. n = [m EXCEPT !.all_ecs = new, !.allranges = all, !.owned_ecs = o]
    BY <1>2, <1>7 DEF all
  <2>2. n.all_ecs = new /\ n.allranges = all /\ n.owned_ecs = o /\ n.ports = m.ports
    BY <1>1, <2>1 DEF Mgrs
  <2>3. o \in SUBSET (1 .. new) /\ all \in SUBSET EcRanges
    BY <1>1, <1>4, <1>5 DEF o, all
  <2>4. n \in Mgrs
    <3>1. o \in SUBSET Nat
      BY <1>5, <2>3
    <3> QED
      BY <1>1, <2>1, <2>3, <3>1 DEF Mgrs
  <2>5. \A r \in all : r.ec \in 1 .. new
    BY <1>1, <1>4, <1>5 DEF all
  <2>6. ASSUME NEW r \in all, NEW s \in all, NEW a \in Addresses, Has(r, a), Has(s, a)
        PROVE  r = s
    <3>1. CASE r \in m.allranges /\ s \in m.allranges
      BY <2>6, <3>1 DEF Proper
    <3>2. CASE r \in ins /\ s \in ins
      BY <1>4, <2>6, <3>2
    <3>3. \A p \in ins, q \in m.allranges : ~(Has(p, a) /\ Has(q, a))
      BY <1>4 DEF InNone, In
    <3> QED
      BY <2>6, <3>1, <3>2, <3>3 DEF all
  <2>7. Proper(n)
    BY <2>2, <2>3, <2>4, <2>5, <2>6 DEF Proper
  <2>8. ASSUME NEW a \in Addresses, NEW e \in Nat
        PROVE  In(n, a, e) <=> In(m, a, e) \/ (e = new /\ Has(range, a) /\ InNone(m, a))
    <3>1. In(n, a, e) <=> In(m, a, e) \/ \E p \in ins : p.ec = e /\ Has(p, a)
      BY <2>2 DEF In, all
    <3>2. (\E p \in ins : p.ec = e /\ Has(p, a)) <=> e = new /\ Has(range, a) /\ InNone(m, a)
      BY <1>4
    <3> QED
      BY <3>1, <3>2
  <2>9. /\ \A e \in Nat : e # new \/ ~owned => (e \in n.owned_ecs <=> e \in m.owned_ecs)
        /\ owned => new \in n.owned_ecs
    BY <2>2 DEF o
  <2> QED
    BY <2>2, <2>7, <2>8, <2>9
<1> QED
  BY <1>6, <1>7
-----------------------------------------------------------------------------
(* add_ec                                                                  *)

\* The classes that are wholly in the range, and those of which only a part is.
Whole(m, range) ==
  {e \in GetOverlappedEcs(m, range, FALSE) : \A r \in RangesOf(m, e) : Within(r, range)}

Cut(m, range) == GetOverlappedEcs(m, range, FALSE) \ Whole(m, range)

LEMMA CutFacts ==
  ASSUME NEW m, Proper(m), NEW range \in Ranges
  PROVE  /\ Cut(m, range) \subseteq 1 .. m.all_ecs /\ IsFiniteSet(Cut(m, range))
         /\ Whole(m, range) \subseteq 1 .. m.all_ecs
         /\ \A e \in Cut(m, range) :
              /\ \E a \in Addresses : In(m, a, e) /\ Has(range, a)
              /\ \E a \in Addresses : In(m, a, e) /\ ~Has(range, a)
         /\ \A e \in Whole(m, range), a \in Addresses : In(m, a, e) => Has(range, a)
         /\ \A e : \A a \in Addresses :
              In(m, a, e) /\ Has(range, a) => e \in Cut(m, range) \/ e \in Whole(m, range)
<1> DEFINE hit == GetOverlappedEcs(m, range, FALSE)
<1>1. /\ range.lb \in Addresses /\ range.ub \in Addresses /\ range.lb <= range.ub
      /\ range.lb \in Nat /\ range.ub \in Nat
  BY AddressFacts DEF Ranges
<1>2. \A r \in m.allranges :
        /\ r.lb \in Addresses /\ r.ub \in Addresses /\ r.lb <= r.ub
        /\ r.lb \in Nat /\ r.ub \in Nat /\ r.ec \in 1 .. m.all_ecs
  BY Apart DEF EcRanges
<1>3. \A e : e \in hit <=> \E r \in m.allranges : r.ec = e /\ Overlaps(r, range)
  BY <1>2 DEF GetOverlappedEcs, OverlappedRanges
<1>4. hit \subseteq 1 .. m.all_ecs /\ m.all_ecs \in Nat
  BY DEF GetOverlappedEcs, Proper, Mgrs
<1> HIDE DEF hit
<1>5. \A e : /\ e \in Whole(m, range) <=>
                   e \in hit /\ \A r \in m.allranges : r.ec = e => Within(r, range)
             /\ e \in Cut(m, range) <=>
                   e \in hit /\ \E r \in m.allranges : r.ec = e /\ ~Within(r, range)
  BY DEF Whole, Cut, RangesOf, hit
<1>6. IsFiniteSet(Cut(m, range))
  <2>1. Cut(m, range) \subseteq 1 .. m.all_ecs
    BY <1>4, <1>5
  <2>2. IsFiniteSet(1 .. m.all_ecs)
    BY <1>4, FS_Interval
  <2> QED
    BY <2>1, <2>2, FS_Subset
<1>7. ASSUME NEW e \in Cut(m, range)
      PROVE  /\ \E a \in Addresses : In(m, a, e) /\ Has(range, a)
             /\ \E a \in Addresses : In(m, a, e) /\ ~Has(range, a)
  <2>1. PICK r \in m.allranges : r.ec = e /\ Overlaps(r, range)
    <3>1. e \in hit
      BY <1>5
    <3> QED
      BY <1>3, <3>1
  <2>2. PICK a \in Addresses : Has(r, a) /\ Has(range, a)
    BY <1>1, <1>2, <2>1, OverlapsShared
  <2>3. PICK s \in m.allranges : s.ec = e /\ ~Within(s, range)
    BY <1>5
  <2>4. (Has(s, s.lb) /\ ~Has(range, s.lb)) \/ (Has(s, s.ub) /\ ~Has(range, s.ub))
    BY <1>1, <1>2, <2>3 DEF Has, Within
  <2>5. In(m, a, e)
    BY <2>1, <2>2 DEF In
  <2>6. \E b \in Addresses : In(m, b, e) /\ ~Has(range, b)
    BY <1>2, <2>3, <2>4 DEF In
  <2> QED
    BY <2>2, <2>5, <2>6
<1>8. ASSUME NEW e \in Whole(m, range), NEW a \in Addresses, In(m, a, e)
      PROVE  Has(range, a)
  <2>1. PICK r \in m.allranges : r.ec = e /\ Has(r, a)
    BY <1>8 DEF In
  <2>2. Within(r, range) /\ a \in Nat
    BY <1>5, <2>1, AddressFacts
  <2> QED
    BY <1>1, <1>2, <2>1, <2>2 DEF Has, Within
<1>9. ASSUME NEW e, NEW a \in Addresses, In(m, a, e), Has(range, a)
      PROVE  e \in Cut(m, range) \/ e \in Whole(m, range)
  <2>1. PICK r \in m.allranges : r.ec = e /\ Has(r, a)
    BY <1>9 DEF In
  <2>2. Overlaps(r, range)
    BY <1>1, <1>2, <1>9, <2>1, OverlapsShared
  <2> QED
    BY <1>3, <1>5, <2>1, <2>2
<1> QED
  BY <1>4, <1>5, <1>6, <1>7, <1>8, <1>9

\* An address is in one class at most, one of those created.
LEMMA OneClass ==
  ASSUME NEW m, Proper(m), NEW a \in Addresses
  PROVE  /\ \A e : In(m, a, e) => e \in 1 .. m.all_ecs /\ e \in Nat
         /\ \A e, f : In(m, a, e) /\ In(m, a, f) => e = f
         /\ InNone(m, a) <=> \A e \in Nat : ~In(m, a, e)
<1>1. \A e : In(m, a, e) => e \in 1 .. m.all_ecs /\ e \in Nat
  BY DEF Proper, Mgrs, In
<1>2. \A e, f : In(m, a, e) /\ In(m, a, f) => e = f
  BY DEF Proper, In
<1> QED
  BY <1>1, <1>2 DEF InNone

\* The addresses of the range leave the classes that are cut, those of each for a
\* new class, and those that were in none form another; all of these are owned if
\* the range is, as are the pieces of owned classes.
LEMMA AddEcFacts ==
  ASSUME NEW m, Proper(m), NEW range \in Ranges, NEW owned \in BOOLEAN,
         NEW n, n = AddEc(m, range, owned)
  PROVE  /\ Proper(n) /\ n.ports = m.ports
         /\ \A a \in Addresses, e \in 1 .. m.all_ecs :
              In(n, a, e) <=> In(m, a, e) /\ (e \in Cut(m, range) => ~Has(range, a))
         /\ \A a \in Addresses, e \in Nat \ (1 .. m.all_ecs) : In(n, a, e) =>
              /\ Has(range, a)
              /\ \A b \in Addresses :
                   In(n, b, e) <=> Has(range, b) /\ \A c \in Nat : In(m, a, c) <=> In(m, b, c)
              /\ owned => e \in n.owned_ecs
              /\ e \in n.owned_ecs /\ ~owned =>
                   \E c \in m.owned_ecs : c \in Cut(m, range) /\ In(m, a, c)
         /\ \A a \in Addresses : InNone(n, a) <=> InNone(m, a) /\ ~Has(range, a)
         /\ \A e \in 1 .. m.all_ecs : e \in n.owned_ecs <=>
              e \in m.owned_ecs \/ (owned /\ e \in Whole(m, range))
<1> DEFINE N == m.all_ecs
           cut == Cut(m, range)
           own == IF owned THEN m.owned_ecs \union Whole(m, range) ELSE m.owned_ecs
           k == [m EXCEPT !.owned_ecs = own]
           es == SetToSeq(cut)
           K == Len(es)
           p == SplitAll(k, es, range, owned)
           new == N + K + 1
<1>1. n = AddNonOverlappedEc(p, range, owned)
  BY DEF AddEc, SplitAll, Cut, Whole
<1>2. /\ m \in Mgrs /\ N \in Nat /\ m.owned_ecs \subseteq 1 .. N
      /\ cut \subseteq 1 .. N /\ IsFiniteSet(cut) /\ own \in SUBSET (1 .. N)
  BY CutFacts DEF Proper, Mgrs
<1> HIDE DEF cut, own
<1>3. /\ Proper(k) /\ k.all_ecs = N /\ k.ports = m.ports /\ k.owned_ecs = own
      /\ \A a, e : In(k, a, e) <=> In(m, a, e)
  <2>1. /\ k.all_ecs = N /\ k.ports = m.ports /\ k.owned_ecs = own
        /\ k.allranges = m.allranges
    BY <1>2 DEF Mgrs
  <2>2. k \in Mgrs
    <3>1. own \in SUBSET Nat
      BY <1>2
    <3> QED
      BY <1>2, <3>1 DEF Mgrs
  <2> HIDE DEF k
  <2> QED
    BY <1>2, <2>1, <2>2 DEF Proper, In
<1> HIDE DEF k
<1>4. /\ K \in Nat /\ es \in [1 .. K -> cut]
      /\ \A i, j \in 1 .. K : es[i] = es[j] => i = j
      /\ \A e \in cut : \E i \in 1 .. K : es[i] = e
  BY <1>2, SetToSeqOnce
<1> HIDE DEF es
<1>5. AfterSplits(k, p, es, range, owned, K)
  <2>1. es \in [1 .. K -> 1 .. k.all_ecs]
    BY <1>2, <1>3, <1>4
  <2> QED
    BY <1>3, <1>4, <2>1, SplitAllFacts
<1> HIDE DEF N, p, K
<1>6. /\ Proper(p) /\ p.all_ecs = N + K /\ p.ports = m.ports
      /\ \A e : e \in p.owned_ecs <=>
           e \in own \/ \E i \in 1 .. K : e = N + i /\ (owned \/ es[i] \in own)
      /\ \A a \in Addresses, e \in Nat :
           In(p, a, e) <=>
             \/ \E i \in 1 .. K : e = N + i /\ In(m, a, es[i]) /\ Has(range, a)
             \/ \E i \in 1 .. K : e = es[i] /\ In(m, a, e) /\ ~Has(range, a)
             \/ (e \in 1 .. N /\ \A i \in 1 .. K : es[i] # e) /\ In(m, a, e)
  BY <1>3, <1>5 DEF AfterSplits
<1>7. \A i \in 1 .. K : /\ N + i \in Nat /\ N + i \notin 1 .. N /\ N + i # new
                        /\ es[i] \in cut /\ es[i] \in 1 .. N /\ es[i] \in Nat
                        /\ \A j \in 1 .. K : N + i = N + j => i = j
  <2> SUFFICES ASSUME NEW i \in 1 .. K
               PROVE  /\ N + i \in Nat /\ N + i \notin 1 .. N /\ N + i # new
                      /\ es[i] \in cut /\ es[i] \in 1 .. N /\ es[i] \in Nat
                      /\ \A j \in 1 .. K : N + i = N + j => i = j
    OBVIOUS
  <2>1. es[i] \in cut
    BY <1>4
  <2>2. es[i] \in 1 .. N
    BY <1>2, <2>1
  <2>3. es[i] \in Nat
    BY <1>2, <2>2
  <2> QED
    BY <1>2, <1>4, <2>1, <2>2, <2>3
<1>8. \A a \in Addresses, e \in 1 .. N :
        In(p, a, e) <=> In(m, a, e) /\ (e \in cut => ~Has(range, a))
  <2> SUFFICES ASSUME NEW a \in Addresses, NEW e \in 1 .. N
               PROVE  In(p, a, e) <=> In(m, a, e) /\ (e \in cut => ~Has(range, a))
    OBVIOUS
  <2>1. e \in Nat /\ \A i \in 1 .. K : e # N + i
    BY <1>2, <1>7
  <2>2. e \in cut <=> \E i \in 1 .. K : es[i] = e
    BY <1>4, <1>7
  <2> QED
    BY <1>6, <2>1, <2>2
<1>9. \A a \in Addresses, i \in 1 .. K : In(p, a, N + i) <=> In(m, a, es[i]) /\ Has(range, a)
  <2> SUFFICES ASSUME NEW a \in Addresses, NEW i \in 1 .. K
               PROVE  In(p, a, N + i) <=> In(m, a, es[i]) /\ Has(range, a)
    OBVIOUS
  <2>1. \A j \in 1 .. K : N + i # es[j] /\ (N + i = N + j => i = j)
    BY <1>7
  <2>2. N + i \in Nat /\ N + i \notin 1 .. N
    BY <1>7
  <2> QED
    BY <1>6, <2>1, <2>2
<1>10. \A a \in Addresses : \A e : In(p, a, e) => e \in 1 .. N \/ \E i \in 1 .. K : e = N + i
  <2> SUFFICES ASSUME NEW a \in Addresses, NEW e, In(p, a, e), e \notin 1 .. N
               PROVE  \E i \in 1 .. K : e = N + i
    OBVIOUS
  <2>1. e \in 1 .. N + K
    BY <1>6, OneClass
  <2>2. e - N \in 1 .. K /\ e = N + (e - N)
    BY <1>2, <1>4, <2>1
  <2> QED
    BY <2>2
<1>11. \A a \in Addresses : InNone(p, a) <=> InNone(m, a)
  <2> SUFFICES ASSUME NEW a \in Addresses PROVE InNone(p, a) <=> InNone(m, a)
    OBVIOUS
  <2>1. ASSUME NEW e, In(m, a, e)
        PROVE  ~InNone(p, a)
    <3>1. e \in 1 .. N
      BY <2>1, OneClass DEF N
    <3>2. CASE e \in cut /\ Has(range, a)
      BY <1>4, <1>9, <2>1, <3>2 DEF InNone
    <3>3. CASE ~(e \in cut /\ Has(range, a))
      BY <1>8, <2>1, <3>1, <3>3 DEF InNone
    <3> QED
      BY <3>2, <3>3
  <2>2. ASSUME NEW e, In(p, a, e)
        PROVE  ~InNone(m, a)
    BY <1>8, <1>9, <1>10, <2>2 DEF InNone
  <2> QED
    BY <2>1, <2>2 DEF InNone
<1>12. /\ Proper(n) /\ n.ports = p.ports
       /\ \A a \in Addresses, e \in Nat :
            In(n, a, e) <=> In(p, a, e) \/ (e = new /\ Has(range, a) /\ InNone(p, a))
       /\ \A e \in Nat : e # new \/ ~owned => (e \in n.owned_ecs <=> e \in p.owned_ecs)
       /\ \A a : In(n, a, new) /\ owned => new \in n.owned_ecs
  <2>1. new = p.all_ecs + 1 /\ Proper(p)
    BY <1>6
  <2> HIDE DEF new
  <2> QED
    BY <1>1, <2>1, NonOverlappedFacts
<1>13. new \in Nat /\ new \notin 1 .. N /\ \A i \in 1 .. K : new # N + i
  BY <1>2, <1>4
<1>14. \A a \in Addresses : ~In(p, a, new)
  BY <1>10, <1>13
<1> HIDE DEF new
<1>15. \A a \in Addresses, e \in 1 .. N :
         In(n, a, e) <=> In(m, a, e) /\ (e \in cut => ~Has(range, a))
  <2>1. \A e \in 1 .. N : e \in Nat /\ e # new
    BY <1>2, <1>13
  <2> QED
    BY <1>8, <1>12, <2>1
<1>16. \A a \in Addresses : InNone(n, a) <=> InNone(m, a) /\ ~Has(range, a)
  <2> SUFFICES ASSUME NEW a \in Addresses
               PROVE  InNone(n, a) <=> InNone(p, a) /\ ~Has(range, a)
    BY <1>11
  <2>1. InNone(n, a) <=> \A e \in Nat : ~In(n, a, e)
    BY <1>12, OneClass
  <2>2. InNone(p, a) <=> \A e \in Nat : ~In(p, a, e)
    BY <1>6, OneClass
  <2> QED
    BY <1>12, <1>13, <2>1, <2>2
<1>17. \A e \in 1 .. N :
         e \in n.owned_ecs <=> e \in m.owned_ecs \/ (owned /\ e \in Whole(m, range))
  <2> SUFFICES ASSUME NEW e \in 1 .. N
               PROVE  e \in n.owned_ecs <=> e \in m.owned_ecs \/ (owned /\ e \in Whole(m, range))
    OBVIOUS
  <2>1. e \in Nat /\ e # new /\ \A i \in 1 .. K : e # N + i
    BY <1>2, <1>7, <1>13
  <2>2. e \in n.owned_ecs <=> e \in own
    BY <1>6, <1>12, <2>1
  <2> QED
    BY <2>2 DEF own
<1>18. ASSUME NEW a \in Addresses, NEW e \in Nat, e \notin 1 .. N, In(n, a, e)
       PROVE  /\ Has(range, a)
              /\ \A b \in Addresses :
                   In(n, b, e) <=> Has(range, b) /\ \A c \in Nat : In(m, a, c) <=> In(m, b, c)
              /\ owned => e \in n.owned_ecs
              /\ e \in n.owned_ecs /\ ~owned => \E c \in m.owned_ecs : c \in cut /\ In(m, a, c)
  <2>1. ASSUME NEW i \in 1 .. K, e = N + i
        PROVE  /\ Has(range, a)
               /\ \A b \in Addresses :
                    In(n, b, e) <=> Has(range, b) /\ \A c \in Nat : In(m, a, c) <=> In(m, b, c)
               /\ owned => e \in n.owned_ecs
               /\ e \in n.owned_ecs /\ ~owned => \E c \in m.owned_ecs : c \in cut /\ In(m, a, c)
    <3>1. e # new
      BY <1>13, <2>1
    <3>2. \A b \in Addresses : In(n, b, e) <=> In(m, b, es[i]) /\ Has(range, b)
      BY <1>9, <1>12, <2>1, <3>1
    <3>3. Has(range, a) /\ In(m, a, es[i]) /\ es[i] \in Nat /\ es[i] \in cut
      BY <1>7, <1>18, <3>2
    <3>4. \A b \in Addresses : In(m, b, es[i]) <=> \A c \in Nat : In(m, a, c) <=> In(m, b, c)
      BY <3>3, OneClass
    <3>5. e \in n.owned_ecs <=> e \in p.owned_ecs
      BY <1>12, <3>1
    <3>6. e \in p.owned_ecs <=> owned \/ es[i] \in own
      <4>1. \A j \in 1 .. K : e = N + j <=> i = j
        BY <1>7, <2>1
      <4>2. e \notin own
        BY <1>2, <1>18
      <4> QED
        BY <1>6, <4>1, <4>2
    <3> QED
      BY <3>2, <3>3, <3>4, <3>5, <3>6 DEF own
  <2>2. CASE e = new
    <3>1. \A b \in Addresses : In(n, b, e) <=> Has(range, b) /\ InNone(m, b)
      BY <1>11, <1>12, <1>14, <2>2
    <3>2. Has(range, a) /\ InNone(m, a)
      BY <1>18, <3>1
    <3>3. \A b \in Addresses : InNone(m, b) <=> \A c \in Nat : In(m, a, c) <=> In(m, b, c)
      BY <3>2, OneClass
    <3>4. e \in n.owned_ecs => owned
      <4>1. e \notin p.owned_ecs
        BY <1>2, <1>6, <1>13, <2>2
      <4> QED
        BY <1>12, <4>1
    <3> QED
      BY <1>12, <1>18, <2>2, <3>1, <3>2, <3>3, <3>4
  <2>3. e = new \/ \E i \in 1 .. K : e = N + i
    BY <1>10, <1>12, <1>18
  <2> QED
    BY <2>1, <2>2, <2>3
<1> QED
  BY <1>6, <1>12, <1>15, <1>16, <1>17, <1>18 DEF N, cut
-----------------------------------------------------------------------------
(* The partition, and the owned classes                                    *)

Agree(ranges, a, b) == \A r \in ranges : Has(r, a) <=> Has(r, b)

\* The classes are the coarsest partition of the addresses that some range has into
\* sets on which all ranges agree.
Coarse(m, ranges) ==
  \A a \in Addresses :
    /\ InNone(m, a) <=> \A r \in ranges : ~Has(r, a)
    /\ \A e \in Nat, b \in Addresses : In(m, a, e) => (In(m, b, e) <=> Agree(ranges, a, b))

\* The addresses in A are alone in their classes, which are those that are owned.
Owned(m, A) ==
  /\ \A e \in m.owned_ecs, a \in Addresses :
       In(m, a, e) => a \in A /\ \A b \in Addresses : In(m, b, e) => b = a
  /\ \A a \in A : \E e \in m.owned_ecs : In(m, a, e)

LEMMA AddEcCoarse ==
  ASSUME NEW m, Proper(m), NEW ranges, Coarse(m, ranges),
         NEW range \in Ranges, NEW owned \in BOOLEAN, NEW n, n = AddEc(m, range, owned)
  PROVE  Proper(n) /\ n.ports = m.ports /\ Coarse(n, ranges \cup {range})
<1> DEFINE N == m.all_ecs
           more == ranges \cup {range}
<1>1. /\ Proper(n) /\ n.ports = m.ports
      /\ \A a \in Addresses, e \in 1 .. N :
           In(n, a, e) <=> In(m, a, e) /\ (e \in Cut(m, range) => ~Has(range, a))
      /\ \A a \in Addresses, e \in Nat \ (1 .. N) : In(n, a, e) =>
           /\ Has(range, a)
           /\ \A b \in Addresses :
                In(n, b, e) <=> Has(range, b) /\ \A c \in Nat : In(m, a, c) <=> In(m, b, c)
      /\ \A a \in Addresses : InNone(n, a) <=> InNone(m, a) /\ ~Has(range, a)
  BY AddEcFacts
<1>2. \A a, b : Agree(more, a, b) <=> Agree(ranges, a, b) /\ (Has(range, a) <=> Has(range, b))
  BY DEF Agree
<1>3. N \in Nat /\ \A e \in 1 .. N : e \in Nat
  BY DEF Proper, Mgrs
<1> HIDE DEF N
<1>4. ASSUME NEW a \in Addresses
      PROVE  InNone(n, a) <=> \A r \in more : ~Has(r, a)
  BY <1>1 DEF Coarse
<1> HIDE DEF more
<1>5. ASSUME NEW a \in Addresses, NEW b \in Addresses, NEW e \in 1 .. N, In(n, a, e)
      PROVE  In(n, b, e) <=> Agree(more, a, b)
  <2>1. In(m, a, e) /\ (e \in Cut(m, range) => ~Has(range, a))
    BY <1>1, <1>5
  <2>2. In(m, b, e) <=> Agree(ranges, a, b)
    BY <1>3, <2>1 DEF Coarse
  <2>3. In(n, b, e) <=> In(m, b, e) /\ (e \in Cut(m, range) => ~Has(range, b))
    BY <1>1
  <2>4. CASE e \in Cut(m, range)
    BY <1>2, <2>1, <2>2, <2>3, <2>4
  <2>5. CASE e \notin Cut(m, range)
    <3>1. In(m, b, e) => (Has(range, a) <=> Has(range, b))
      BY <2>1, <2>5, CutFacts
    <3> QED
      BY <1>2, <2>2, <2>3, <2>5, <3>1
  <2> QED
    BY <2>4, <2>5
<1>6. ASSUME NEW a \in Addresses, NEW b \in Addresses, NEW e \in Nat, e \notin 1 .. N, In(n, a, e)
      PROVE  In(n, b, e) <=> Agree(more, a, b)
  <2>1. /\ Has(range, a)
        /\ In(n, b, e) <=> Has(range, b) /\ \A c \in Nat : In(m, a, c) <=> In(m, b, c)
    BY <1>1, <1>6
  <2>2. (\A c \in Nat : In(m, a, c) <=> In(m, b, c)) <=> Agree(ranges, a, b)
    <3>1. CASE InNone(m, a)
      <4>1. (\A c \in Nat : In(m, a, c) <=> In(m, b, c)) <=> InNone(m, b)
        BY <3>1, OneClass
      <4>2. InNone(m, b) <=> Agree(ranges, a, b)
        BY <3>1 DEF Coarse, Agree
      <4> QED
        BY <4>1, <4>2
    <3>2. ASSUME NEW c \in Nat, In(m, a, c)
          PROVE  (\A d \in Nat : In(m, a, d) <=> In(m, b, d)) <=> Agree(ranges, a, b)
      <4>1. (\A d \in Nat : In(m, a, d) <=> In(m, b, d)) <=> In(m, b, c)
        BY <3>2, OneClass
      <4>2. In(m, b, c) <=> Agree(ranges, a, b)
        BY <3>2 DEF Coarse
      <4> QED
        BY <4>1, <4>2
    <3> QED
      BY <3>1, <3>2, OneClass
  <2> QED
    BY <1>2, <2>1, <2>2
<1> QED
  BY <1>1, <1>4, <1>5, <1>6 DEF Coarse, more

LEMMA AddEcOwned ==
  ASSUME NEW m, Proper(m), NEW A \in SUBSET Addresses, Owned(m, A),
         NEW range \in Ranges, NEW owned \in BOOLEAN, owned => range.lb = range.ub,
         NEW n, n = AddEc(m, range, owned)
  PROVE  Owned(n, A \cup (IF owned THEN {range.lb} ELSE {}))
<1> DEFINE N == m.all_ecs
           more == A \cup (IF owned THEN {range.lb} ELSE {})
           cut == Cut(m, range)
<1>1. /\ Proper(n)
      /\ \A a \in Addresses, e \in 1 .. N :
           In(n, a, e) <=> In(m, a, e) /\ (e \in cut => ~Has(range, a))
      /\ \A a \in Addresses, e \in Nat \ (1 .. N) : In(n, a, e) =>
           /\ Has(range, a)
           /\ \A b \in Addresses : In(n, b, e) => Has(range, b)
           /\ owned => e \in n.owned_ecs
           /\ e \in n.owned_ecs /\ ~owned => \E c \in m.owned_ecs : c \in cut /\ In(m, a, c)
      /\ \A a \in Addresses : InNone(n, a) <=> InNone(m, a) /\ ~Has(range, a)
      /\ \A e \in 1 .. N : e \in n.owned_ecs <=>
           e \in m.owned_ecs \/ (owned /\ e \in Whole(m, range))
  BY AddEcFacts
<1>2. /\ \A e \in 1 .. N : e \in Nat
      /\ m.owned_ecs \subseteq 1 .. N /\ n.owned_ecs \subseteq Nat
  BY <1>1 DEF Proper, Mgrs
<1> HIDE DEF N, cut
\* A class that is owned is not cut.
<1>3. ASSUME NEW c \in m.owned_ecs, NEW a \in Addresses, In(m, a, c)
      PROVE  c \notin cut
  BY <1>3, CutFacts DEF Owned, cut
<1>4. \A a \in Addresses : owned => (Has(range, a) <=> a = range.lb)
  <2>1. range.lb \in Nat
    BY AddressFacts DEF Ranges
  <2> QED
    BY <2>1, AddressFacts DEF Has
<1>5. ASSUME NEW e \in n.owned_ecs, NEW a \in Addresses, In(n, a, e)
      PROVE  a \in more /\ \A b \in Addresses : In(n, b, e) => b = a
  <2>1. CASE e \in 1 .. N
    <3>1. In(m, a, e) /\ \A b \in Addresses : In(n, b, e) => In(m, b, e)
      BY <1>1, <1>5, <2>1
    <3>2. CASE e \in m.owned_ecs
      BY <3>1, <3>2 DEF Owned
    <3>3. CASE owned /\ e \in Whole(m, range)
      <4>1. \A b \in Addresses : In(m, b, e) => Has(range, b)
        BY <3>3, CutFacts
      <4> QED
        BY <1>4, <3>1, <3>3, <4>1
    <3> QED
      BY <1>1, <2>1, <3>2, <3>3
  <2>2. CASE e \notin 1 .. N
    <3>1. e \in Nat \ (1 .. N)
      BY <1>2, <2>2
    <3>2. owned
      BY <1>1, <1>3, <1>5, <3>1
    <3>3. Has(range, a) /\ \A b \in Addresses : In(n, b, e) => Has(range, b)
      BY <1>1, <1>5, <3>1
    <3> QED
      BY <1>4, <3>2, <3>3
  <2> QED
    BY <2>1, <2>2
<1>6. ASSUME NEW a \in A
      PROVE  \E e \in n.owned_ecs : In(n, a, e)
  <2>1. PICK e \in m.owned_ecs : In(m, a, e)
    BY DEF Owned
  <2>2. e \in 1 .. N /\ e \notin cut
    BY <1>2, <1>3, <2>1
  <2> QED
    BY <1>1, <2>1, <2>2
<1>7. ASSUME owned
      PROVE  \E e \in n.owned_ecs : In(n, range.lb, e)
  <2> DEFINE a == range.lb
  <2>1. a \in Addresses
    BY DEF Ranges
  <2>2. Has(range, a)
    BY <1>4, <1>7, <2>1
  <2> HIDE DEF a
  <2>3. PICK e \in Nat : In(n, a, e)
    BY <1>1, <2>1, <2>2, OneClass
  <2>4. CASE e \in 1 .. N
    <3>1. In(m, a, e) /\ e \notin cut
      BY <1>1, <2>1, <2>2, <2>3, <2>4
    <3>2. e \in Whole(m, range)
      BY <2>1, <2>2, <3>1, CutFacts DEF cut
    <3> QED
      BY <1>1, <1>7, <2>3, <2>4, <3>2 DEF a
  <2>5. CASE e \notin 1 .. N
    BY <1>1, <1>7, <2>1, <2>3, <2>5 DEF a
  <2> QED
    BY <2>4, <2>5
<1> QED
  BY <1>5, <1>6, <1>7 DEF Owned
-----------------------------------------------------------------------------
(* compute_conn_matrix                                                     *)

DstIps(inv) == {inv.specs[i].dst_ip : i \in 1 .. Len(inv.specs)}

\* Only the prefixes of the specifications are added, and no address becomes owned.
LEMMA EcsOfFacts ==
  ASSUME NEW m, Proper(m), NEW ranges, Coarse(m, ranges),
         NEW A \in SUBSET Addresses, Owned(m, A),
         NEW inv, Len(inv.specs) \in Nat,
         \A i \in 1 .. Len(inv.specs) : inv.specs[i].dst_ip \in Ranges,
         NEW n, n = EcsOf(m, inv)
  PROVE  /\ Proper(n) /\ n.ports = m.ports /\ Coarse(n, ranges \cup DstIps(inv))
         /\ Owned(n, A)
<1> DEFINE N == Len(inv.specs)
           ip(i) == inv.specs[i].dst_ip
           first(k) == ranges \cup {ip(i) : i \in 1 .. k}
           S == {x \in Mgrs : Proper(x)}
           Step(x, k) == AddEc(x, ip(k), FALSE)
           ecs[k \in 0 .. N] == IF k = 0 THEN m ELSE Step(ecs[k - 1], k)
           D == [x \in S \X (1 .. N) |-> Step(x[1], x[2])]
           Good(x, k) == Proper(x) /\ x.ports = m.ports /\ Coarse(x, first(k)) /\ Owned(x, A)
<1>1. n = ecs[N]
  BY DEF EcsOf
<1>2. N \in Nat /\ m \in S /\ \A k \in 1 .. N : ip(k) \in Ranges
  BY DEF Proper
<1> HIDE DEF N, ip
<1>3. \A x \in S : \A k \in 1 .. N : Step(x, k) \in S
  <2> SUFFICES ASSUME NEW x \in S, NEW k \in 1 .. N PROVE Step(x, k) \in S
    OBVIOUS
  <2>1. Proper(Step(x, k))
    BY <1>2, AddEcFacts
  <2> HIDE DEF Step
  <2> QED
    BY <2>1 DEF Proper
<1> HIDE DEF S, Step
<1>4. D \in Bodies(S, N) /\ \A x \in S : \A k \in 1 .. N : D[<<x, k>>] = Step(x, k)
  BY <1>3 DEF Bodies
<1> HIDE DEF D
<1>5. PICK g \in [0 .. N -> S] : Iterates(g, m, D, N)
  BY <1>2, <1>4, LoopRuns
<1>6. ASSUME NEW k \in 0 .. N
      PROVE  g[k] = IF k = 0 THEN m ELSE Step(g[k - 1], k)
  <2>1. CASE k # 0
    <3>1. k \in 1 .. N /\ k - 1 \in 0 .. N
      BY <1>2, <2>1
    <3> QED
      BY <1>4, <1>5, <2>1, <3>1 DEF Iterates
  <2> QED
    BY <1>5, <2>1 DEF Iterates
<1>7. g = [k \in 0 .. N |-> IF k = 0 THEN m ELSE Step(g[k - 1], k)]
  BY <1>6
<1>8. ecs = [k \in 0 .. N |-> IF k = 0 THEN m ELSE Step(ecs[k - 1], k)]
  BY <1>7
<1> HIDE DEF ecs
<1> DEFINE T == {k \in Nat : k <= N => Good(ecs[k], k)}
<1>9. 0 \in T
  <2>1. ecs[0] = m
    BY <1>2, <1>8
  <2>2. first(0) = ranges
    OBVIOUS
  <2> HIDE DEF first
  <2> QED
    BY <2>1, <2>2
<1>10. ASSUME NEW k \in Nat, k \in T
       PROVE  k + 1 \in T
  <2> SUFFICES ASSUME k + 1 <= N
               PROVE  Good(ecs[k + 1], k + 1)
    OBVIOUS
  <2>1. k + 1 \in 1 .. N /\ (k + 1) - 1 = k /\ k + 1 \in 0 .. N /\ k + 1 # 0 /\ k <= N
    BY <1>2
  <2> DEFINE j == k + 1
             x == ecs[k]
             y == ecs[j]
  <2>2. y = Step(x, j)
    BY <1>8, <2>1
  <2>3. Good(x, k)
    BY <1>10, <2>1
  <2>4. first(j) = first(k) \cup {ip(j)}
    <3>1. 1 .. j = 1 .. k \cup {j}
      OBVIOUS
    <3> HIDE DEF j
    <3> QED
      BY <3>1
  <2>5. j \in 1 .. N /\ ip(j) \in Ranges
    BY <1>2, <2>1
  <2> HIDE DEF j, x, y, T, first
  <2>6. y = AddEc(x, ip(j), FALSE)
    BY <2>2 DEF Step
  <2>7. Proper(y) /\ y.ports = x.ports /\ Coarse(y, first(j))
    <3> DEFINE r == ip(j)
               before == first(k)
               o == FALSE
    <3>1. Proper(x) /\ Coarse(x, before) /\ r \in Ranges /\ o \in BOOLEAN
      BY <2>3, <2>5
    <3>2. y = AddEc(x, r, o)
      BY <2>6
    <3> HIDE DEF r, before, o
    <3>3. Proper(y) /\ y.ports = x.ports /\ Coarse(y, before \cup {r})
      BY <3>1, <3>2, AddEcCoarse
    <3> QED
      BY <2>4, <3>3 DEF r, before
  <2>8. Owned(y, A)
    <3> DEFINE more == A \cup (IF FALSE THEN {ip(j).lb} ELSE {})
    <3>1. more = A
      OBVIOUS
    <3>2. Owned(y, more)
      BY <2>3, <2>5, <2>6, AddEcOwned
    <3> QED
      BY <3>1, <3>2
  <2> QED
    BY <2>3, <2>7, <2>8 DEF j, y
<1>11. N \in T
  <2> HIDE DEF T
  <2> QED
    BY <1>2, <1>9, <1>10, NatSetInduction
<1>12. Good(n, N)
  BY <1>1, <1>11
<1> QED
  BY <1>12 DEF N, ip, DstIps
-----------------------------------------------------------------------------
(* The connections of a specification, and the iterators over them         *)

\* A specification has connections if it has sources, ports, and, where only owned
\* destinations are asked for, an owned address in its prefix.
LEMMA ConnectionsExist ==
  ASSUME NEW m, Proper(m), NEW ranges, Coarse(m, ranges),
         NEW A \in SUBSET Addresses, Owned(m, A),
         NEW spec, spec.dst_ip \in ranges, spec.dst_ip \in Ranges,
         IsFiniteSet(spec.src_nodes), spec.src_nodes # {},
         IsFiniteSet(spec.dst_ports), IsFiniteSet(m.ports),
         spec.dst_ports # {} \/ spec.protocol = "icmp" \/ m.ports # {},
         spec.owned_dst_only => \E a \in A : Has(spec.dst_ip, a)
  PROVE  /\ IsFiniteSet(ComputeConnections(m, spec))
         /\ ComputeConnections(m, spec) # {}
<1> DEFINE srcs == spec.src_nodes
           ports == IF spec.dst_ports # {} THEN spec.dst_ports
                    ELSE IF spec.protocol = "icmp" THEN {0} ELSE m.ports
           range == spec.dst_ip
           ecs == GetOverlappedEcs(m, range, spec.owned_dst_only)
           conns == [src : srcs, port : ports, ec : ecs]
<1>1. IsFiniteSet(ports) /\ ports # {}
  BY FS_Singleton
<1>2. range \in Ranges /\ range.lb \in Addresses /\ range.ub \in Addresses /\ range.lb <= range.ub
  BY DEF Ranges
<1>3. ASSUME NEW a \in Addresses, Has(range, a), NEW e \in Nat, In(m, a, e),
             spec.owned_dst_only => e \in m.owned_ecs
      PROVE  e \in ecs
  <2>1. PICK r \in m.allranges : r.ec = e /\ Has(r, a)
    BY <1>3 DEF In
  <2>2. r.lb \in Addresses /\ r.ub \in Addresses /\ r.lb <= r.ub /\ e \in 1 .. m.all_ecs
    BY <2>1 DEF Proper, Mgrs, EcRanges
  <2>3. Overlaps(r, range)
    BY <1>2, <1>3, <2>1, <2>2, OverlapsShared
  <2> QED
    BY <1>3, <2>1, <2>2, <2>3 DEF GetOverlappedEcs, OverlappedRanges
<1>4. ecs # {}
  <2>1. CASE spec.owned_dst_only
    <3>1. PICK a \in A : Has(range, a)
      BY <2>1
    <3>2. PICK e \in m.owned_ecs : In(m, a, e)
      BY DEF Owned
    <3> QED
      BY <1>3, <3>1, <3>2 DEF Proper, Mgrs
  <2>2. CASE ~spec.owned_dst_only
    <3>1. Has(range, range.lb)
      BY <1>2, AddressFacts DEF Has
    <3>2. ~InNone(m, range.lb)
      BY <1>2, <3>1 DEF Coarse
    <3>3. PICK e \in Nat : In(m, range.lb, e)
      BY <1>2, <3>2, OneClass
    <3> QED
      BY <1>2, <1>3, <2>2, <3>1, <3>3
  <2> QED
    BY <2>1, <2>2
<1>5. IsFiniteSet(ecs)
  <2>1. m.all_ecs \in Nat /\ m.owned_ecs \subseteq 1 .. m.all_ecs
    BY DEF Proper, Mgrs
  <2>2. ecs \in SUBSET (1 .. m.all_ecs)
    BY <2>1 DEF GetOverlappedEcs
  <2>3. IsFiniteSet(1 .. m.all_ecs)
    BY <2>1, FS_Interval
  <2> HIDE DEF ecs
  <2> QED
    BY <2>2, <2>3, FS_Subset
<1> HIDE DEF srcs, ports, ecs
<1>6. IsFiniteSet(conns)
  <2> DEFINE triples == (srcs \X ports) \X ecs
             f == [t \in triples |-> [src |-> t[1][1], port |-> t[1][2], ec |-> t[2]]]
  <2>1. IsFiniteSet(triples)
    BY <1>1, <1>5, FS_Product DEF srcs
  <2>2. \A t \in triples : f[t] \in conns
    OBVIOUS
  <2>3. ASSUME NEW c \in conns
        PROVE  \E t \in triples : f[t] = c
    <3>1. <<<<c.src, c.port>>, c.ec>> \in triples
      OBVIOUS
    <3>2. f[<<<<c.src, c.port>>, c.ec>>] = c
      BY <3>1
    <3> QED
      BY <3>1, <3>2
  <2>4. DOMAIN f = triples /\ f = [t \in DOMAIN f |-> f[t]]
    OBVIOUS
  <2> HIDE DEF f, triples, conns
  <2>5. f \in Surjection(triples, conns)
    BY <2>2, <2>3, <2>4 DEF Surjection
  <2> QED
    BY <2>1, <2>5, FS_Surjection
<1>7. conns # {}
  <2>1. PICK s \in srcs, p \in ports, e \in ecs : TRUE
    BY <1>1, <1>4 DEF srcs
  <2>2. [src |-> s, port |-> p, ec |-> e] \in conns
    OBVIOUS
  <2> QED
    BY <2>2
<1>8. ComputeConnections(m, spec) = conns
  BY DEF ComputeConnections, conns, srcs, ports, ecs, range
<1> QED
  BY <1>6, <1>7, <1>8

\* The iterators of a matrix are in range.
InRange(matrix) ==
  LET n == Len(matrix.product) IN
  /\ matrix \in [product : {matrix.product}, itrs : [1 .. n -> Nat], traversed_all : BOOLEAN]
  /\ n \in Nat /\ DOMAIN matrix.product = 1 .. n
  /\ \A k \in 1 .. n : /\ Len(matrix.product[k]) \in Nat
                       /\ DOMAIN matrix.product[k] = 1 .. Len(matrix.product[k])
                       /\ matrix.itrs[k] \in 1 .. Len(matrix.product[k])

LEMMA MatrixInRange ==
  ASSUME NEW N \in Nat, NEW sets, DOMAIN sets = 1 .. N,
         \A i \in 1 .. N : IsFiniteSet(sets[i]) /\ sets[i] # {}
  PROVE  InRange(Matrix(sets))
<1> DEFINE seqs == [i \in 1 .. N |-> SetToSeq(sets[i])]
           ones == [i \in 1 .. N |-> 1]
<1>1. Matrix(sets) = [product |-> seqs, itrs |-> ones, traversed_all |-> FALSE]
  BY DEF Matrix
<1>2. ASSUME NEW i \in 1 .. N
      PROVE  /\ Len(seqs[i]) \in Nat /\ DOMAIN seqs[i] = 1 .. Len(seqs[i])
             /\ 1 \in 1 .. Len(seqs[i])
  <2> DEFINE S == sets[i]
             n == Len(SetToSeq(S))
  <2>1. IsFiniteSet(S) /\ S # {}
    OBVIOUS
  <2> HIDE DEF S
  <2>2. /\ n \in Nat /\ SetToSeq(S) \in [1 .. n -> S]
        /\ \A x \in S : \E j \in 1 .. n : SetToSeq(S)[j] = x
    BY <2>1, SetToSeqOnce
  <2>3. 1 .. n # {}
    BY <2>1, <2>2
  <2>4. seqs[i] = SetToSeq(S)
    BY DEF S
  <2> HIDE DEF seqs, n
  <2>5. DOMAIN SetToSeq(S) = 1 .. n
    BY <2>2
  <2>6. n \in Nat /\ 1 <= n
    BY <2>2, <2>3
  <2> QED
    BY <2>4, <2>5, <2>6 DEF n
<1>3. Len(seqs) = N /\ DOMAIN seqs = 1 .. N
  OBVIOUS
<1>4. ones \in [1 .. N -> Nat] /\ \A i \in 1 .. N : ones[i] = 1
  OBVIOUS
<1> HIDE DEF seqs, ones
<1> QED
  BY <1>1, <1>2, <1>3, <1>4 DEF InRange

LEMMA ResetInRange == ASSUME NEW x, InRange(x) PROVE InRange(ResetMatrix(x))
<1> DEFINE n == Len(x.product)
           ones == [i \in 1 .. n |-> 1]
<1>1. /\ x = [product |-> x.product, itrs |-> x.itrs, traversed_all |-> x.traversed_all]
      /\ DOMAIN x.itrs = 1 .. n
  BY DEF InRange
<1>2. ResetMatrix(x) = [product |-> x.product, itrs |-> ones, traversed_all |-> FALSE]
  <2>1. [i \in DOMAIN x.itrs |-> 1] = ones
    BY <1>1
  <2>2. ResetMatrix(x) = [x EXCEPT !.itrs = ones, !.traversed_all = FALSE]
    BY <2>1 DEF ResetMatrix
  <2> HIDE DEF ones
  <2> QED
    BY <1>1, <2>2
<1>3. ones \in [1 .. n -> Nat] /\ \A i \in 1 .. n : ones[i] = 1
  OBVIOUS
<1>4. \A k \in 1 .. n : Len(x.product[k]) \in Nat /\ 1 \in 1 .. Len(x.product[k])
  BY DEF InRange
<1> HIDE DEF ones
<1> QED
  BY <1>2, <1>3, <1>4 DEF InRange

\* Only an iterator that is not at the end of its set is advanced.
LEMMA AdvancedInRange == ASSUME NEW x, InRange(x) PROVE InRange(Advanced(x))
<1> DEFINE n == Len(x.product)
           ahead == {i \in 1 .. n : x.itrs[i] < Len(x.product[i])}
           i0 == IF ahead = {} THEN n + 1 ELSE Min(ahead)
           moved == [i \in 1 .. n |-> IF i < i0 THEN 1
                                      ELSE IF i = i0 THEN x.itrs[i] + 1 ELSE x.itrs[i]]
           done == i0 = n + 1
<1>1. /\ x = [product |-> x.product, itrs |-> x.itrs, traversed_all |-> x.traversed_all]
      /\ DOMAIN x.itrs = 1 .. n /\ x.traversed_all \in BOOLEAN
  BY DEF InRange
<1>2. CASE x.traversed_all
  BY <1>2 DEF Advanced
<1>3. CASE ~x.traversed_all
  <2>1. Advanced(x) = [product |-> x.product, itrs |-> moved, traversed_all |-> done]
    BY <1>1, <1>3 DEF Advanced
  <2>2. n \in Nat /\ ahead \in SUBSET Nat /\ ahead \subseteq 1 .. n
    BY DEF InRange
  <2>3. i0 \in Nat /\ (i0 \in 1 .. n => i0 \in ahead)
    <3>1. CASE ahead = {}
      BY <2>2, <3>1
    <3>2. CASE ahead # {}
      <4> HIDE DEF ahead
      <4>1. PICK y \in ahead : \A z \in ahead : y <= z
        BY <2>2, <3>2, LeastNatural
      <4>2. Min(ahead) \in ahead
        BY <4>1 DEF Min
      <4> QED
        BY <2>2, <3>2, <4>2
    <3> QED
      BY <3>1, <3>2
  <2>4. ASSUME NEW k \in 1 .. n
        PROVE  /\ Len(x.product[k]) \in Nat /\ moved[k] \in 1 .. Len(x.product[k])
               /\ moved[k] \in Nat
    <3>1. Len(x.product[k]) \in Nat /\ x.itrs[k] \in 1 .. Len(x.product[k])
      BY DEF InRange
    <3>2. k = i0 => x.itrs[k] < Len(x.product[k])
      BY <2>3
    <3> HIDE DEF i0, n
    <3>3. moved[k] \in {1, x.itrs[k]} \/ (k = i0 /\ moved[k] = x.itrs[k] + 1)
      OBVIOUS
    <3> HIDE DEF moved
    <3> QED
      BY <3>1, <3>2, <3>3
  <2>5. moved \in [1 .. n -> Nat]
    <3> HIDE DEF n, i0
    <3>1. moved = [i \in 1 .. n |-> moved[i]]
      OBVIOUS
    <3> HIDE DEF moved
    <3> QED
      BY <2>4, <3>1
  <2>6. done \in BOOLEAN
    OBVIOUS
  <2> HIDE DEF moved, done
  <2> QED
    BY <2>1, <2>4, <2>5, <2>6 DEF InRange
<1> QED
  BY <1>1, <1>2, <1>3
AllInRange(matrices) ==
  /\ Len(matrices) \in Nat /\ DOMAIN matrices = 1 .. Len(matrices)
  /\ \A i \in 1 .. Len(matrices) : InRange(matrices[i])

LEMMA MatricesInRange ==
  ASSUME NEW m, NEW inv, Len(inv.specs) \in Nat, DOMAIN inv.specs = 1 .. Len(inv.specs),
         \A i \in 1 .. Len(inv.specs) :
           /\ IsFiniteSet(ComputeConnections(m, inv.specs[i]))
           /\ ComputeConnections(m, inv.specs[i]) # {}
  PROVE  AllInRange(MatricesOf(m, inv))
<1> DEFINE N == Len(inv.specs)
           sets == [i \in 1 .. N |-> ComputeConnections(m, inv.specs[i])]
           each == [i \in 1 .. N |-> Matrix(<<sets[i]>>)]
<1>1. \A i \in 1 .. N : IsFiniteSet(sets[i]) /\ sets[i] # {}
  OBVIOUS
<1>2. MatricesOf(m, inv) = IF inv.correlated THEN each ELSE <<Matrix(sets)>>
  BY DEF MatricesOf
<1>3. DOMAIN sets = 1 .. N /\ N \in Nat
  OBVIOUS
<1> HIDE DEF N, sets
<1>4. InRange(Matrix(sets))
  BY <1>1, <1>3, MatrixInRange
<1>5. \A i \in 1 .. N : InRange(Matrix(<<sets[i]>>))
  <2> SUFFICES ASSUME NEW i \in 1 .. N PROVE InRange(Matrix(<<sets[i]>>))
    OBVIOUS
  <2> DEFINE one == <<sets[i]>>
  <2>1. DOMAIN one = 1 .. 1 /\ \A j \in 1 .. 1 : one[j] = sets[i]
    OBVIOUS
  <2> HIDE DEF one
  <2>2. InRange(Matrix(one))
    BY <1>1, <2>1, MatrixInRange
  <2> QED
    BY <2>2 DEF one
<1>6. AllInRange(each)
  <2>1. Len(each) = N /\ DOMAIN each = 1 .. N /\ \A i \in 1 .. N : InRange(each[i])
    BY <1>3, <1>5
  <2> QED
    BY <1>3, <2>1 DEF AllInRange
<1>7. AllInRange(<<Matrix(sets)>>)
  <2> DEFINE one == <<Matrix(sets)>>
  <2>1. Len(one) = 1 /\ DOMAIN one = 1 .. 1 /\ \A i \in 1 .. 1 : one[i] = Matrix(sets)
    OBVIOUS
  <2> HIDE DEF one
  <2>2. AllInRange(one)
    BY <1>4, <2>1 DEF AllInRange
  <2> QED
    BY <2>2 DEF one
<1> QED
  BY <1>2, <1>6, <1>7

LEMMA SetConnsInRange ==
  ASSUME NEW correlated, NEW x, AllInRange(x), NEW conns
  PROVE  AllInRange(SetConns(correlated, x, conns).matrices)
<1> DEFINE n == Len(x)
           some == {i \in 1 .. n : NextConns(x[i]) # <<>>}
           i0 == IF some = {} THEN n + 1 ELSE Min(some)
           y == [i \in 1 .. n |->
                  IF i < i0 /\ correlated THEN ResetMatrix(x[i])
                  ELSE IF i = i0 THEN Advanced(x[i]) ELSE x[i]]
<1>1. SetConns(correlated, x, conns).matrices = y
  BY DEF SetConns
<1>2. n \in Nat /\ \A i \in 1 .. n : InRange(x[i])
  BY DEF AllInRange
<1> HIDE DEF i0, n
<1>3. \A i \in 1 .. n : y[i] \in {ResetMatrix(x[i]), Advanced(x[i]), x[i]}
  OBVIOUS
<1>4. Len(y) = n /\ DOMAIN y = 1 .. n
  BY <1>2
<1> HIDE DEF y
<1>5. \A i \in 1 .. n : InRange(y[i])
  BY <1>2, <1>3, ResetInRange, AdvancedInRange
<1> QED
  BY <1>1, <1>2, <1>4, <1>5 DEF AllInRange

-----------------------------------------------------------------------------
(* Going through a product, the first position fastest                     *)

Vectors(n, lo, hi) == {v \in [1 .. n -> Nat] : \A k \in 1 .. n : lo <= v[k] /\ v[k] <= hi[k]}

\* Vector a comes before b: the last position at which they differ decides.
Before(n, a, b) == \E k \in 1 .. n : a[k] < b[k] /\ \A j \in k + 1 .. n : a[j] = b[j]

\* Two vectors differ at a last position.
LEMMA LastDifference ==
  ASSUME NEW n \in Nat, NEW a \in [1 .. n -> Nat], NEW b \in [1 .. n -> Nat], a # b
  PROVE  \E k \in 1 .. n : a[k] # b[k] /\ \A j \in k + 1 .. n : a[j] = b[j]
<1> DEFINE T == {m \in Nat : m < n /\ a[n - m] # b[n - m]}
<1>1. PICK i \in 1 .. n : a[i] # b[i]
  OBVIOUS
<1>2. n - i \in T
  <2>1. n - (n - i) = i /\ n - i \in Nat /\ n - i < n
    OBVIOUS
  <2> QED
    BY <1>1, <2>1
<1>3. PICK x \in T : \A y \in T : x <= y
  <2> HIDE DEF T
  <2>1. T \in SUBSET Nat
    BY DEF T
  <2> QED
    BY <1>2, <2>1, LeastNatural
<1>4. n - x \in 1 .. n /\ a[n - x] # b[n - x]
  BY <1>3
<1>5. ASSUME NEW j \in (n - x) + 1 .. n
      PROVE  a[j] = b[j]
  <2>1. n - j \in Nat /\ n - j < x /\ n - (n - j) = j /\ n - j < n
    BY <1>3
  <2>2. n - j \notin T
    <3> HIDE DEF T
    <3>1. x \in Nat
      BY <1>3 DEF T
    <3> QED
      BY <1>3, <2>1, <3>1
  <2> QED
    BY <2>1, <2>2
<1> QED
  BY <1>4, <1>5

\* The vectors go from lo at each position to hi.
Bounds(n, lo, hi) ==
  n \in Nat /\ lo \in Nat /\ hi \in [1 .. n -> Nat] /\ \A k \in 1 .. n : lo <= hi[k]

\* w follows v: the first position of v that is not at its end is advanced, those
\* before it start again.
Follows(n, lo, hi, v, w, k) ==
  /\ k \in 1 .. n /\ v[k] < hi[k] /\ \A j \in 1 .. n : j < k => v[j] = hi[j]
  /\ w = [j \in 1 .. n |-> IF j < k THEN lo ELSE IF j = k THEN v[j] + 1 ELSE v[j]]

LEMMA FollowsFacts ==
  ASSUME NEW n, NEW lo, NEW hi, Bounds(n, lo, hi),
         NEW v \in Vectors(n, lo, hi), NEW w, NEW k, Follows(n, lo, hi, v, w, k)
  PROVE  /\ w \in Vectors(n, lo, hi)
         /\ \A u \in Vectors(n, lo, hi) : Before(n, u, w) <=> Before(n, u, v) \/ u = v
<1> /\ n \in Nat /\ lo \in Nat /\ hi \in [1 .. n -> Nat] /\ k \in 1 .. n
    /\ \A j \in 1 .. n : lo <= hi[j]
  BY DEF Bounds, Follows
<1>1. /\ v \in [1 .. n -> Nat] /\ \A j \in 1 .. n : lo <= v[j] /\ v[j] <= hi[j]
      /\ v[k] < hi[k] /\ \A j \in 1 .. n : j < k => v[j] = hi[j]
      /\ w = [j \in 1 .. n |-> IF j < k THEN lo ELSE IF j = k THEN v[j] + 1 ELSE v[j]]
  BY DEF Vectors, Follows
<1>2. w \in [1 .. n -> Nat] /\ \A j \in 1 .. n : lo <= w[j] /\ w[j] <= hi[j]
  <2>1. w \in [1 .. n -> Nat]
    BY <1>1
  <2>2. ASSUME NEW j \in 1 .. n
        PROVE  lo <= w[j] /\ w[j] <= hi[j]
    <3>1. /\ w[j] = IF j < k THEN lo ELSE IF j = k THEN v[j] + 1 ELSE v[j]
          /\ v[j] \in Nat /\ hi[j] \in Nat /\ lo <= v[j] /\ v[j] <= hi[j] /\ lo <= hi[j]
          /\ j = k => v[j] < hi[j]
      BY <1>1
    <3> QED
      BY <3>1
  <2> QED
    BY <2>1, <2>2
<1>3. \A j \in 1 .. n : /\ j < k => w[j] = lo
                        /\ j = k => w[j] = v[j] + 1
                        /\ j > k => w[j] = v[j]
  BY <1>1
<1>4. w[k] = v[k] + 1
  BY <1>3
<1>5. ASSUME NEW u \in Vectors(n, lo, hi), Before(n, u, v)
      PROVE  Before(n, u, w)
  <2>1. PICK i \in 1 .. n : u[i] < v[i] /\ \A j \in i + 1 .. n : u[j] = v[j]
    BY <1>5 DEF Before
  <2>2. u \in [1 .. n -> Nat]
    BY DEF Vectors
  <2>3. CASE i > k
    <3>1. \A j \in i .. n : w[j] = v[j]
      BY <1>3, <2>3
    <3>2. u[i] < w[i] /\ \A j \in i + 1 .. n : u[j] = w[j]
      BY <2>1, <3>1
    <3> QED
      BY <3>2 DEF Before
  <2>4. CASE ~(i > k)
    <3>1. u[k] <= v[k]
      <4>1. CASE i = k
        BY <1>1, <2>1, <2>2, <4>1
      <4>2. CASE i # k
        <5>1. k \in i + 1 .. n
          BY <2>4, <4>2
        <5> QED
          BY <1>1, <2>1, <2>2, <5>1
      <4> QED
        BY <4>1, <4>2
    <3>2. u[k] < w[k]
      BY <1>1, <1>4, <2>2, <3>1
    <3>3. \A j \in k + 1 .. n : u[j] = w[j]
      BY <1>3, <2>1, <2>4
    <3> QED
      BY <3>2, <3>3 DEF Before
  <2> QED
    BY <2>3, <2>4
<1>6. Before(n, v, w)
  <2>1. v[k] < w[k] /\ \A j \in k + 1 .. n : v[j] = w[j]
    BY <1>1, <1>3, <1>4
  <2> QED
    BY <2>1 DEF Before
<1>7. ASSUME NEW u \in Vectors(n, lo, hi), Before(n, u, w), u # v
      PROVE  Before(n, u, v)
  <2>1. PICK i \in 1 .. n : u[i] < w[i] /\ \A j \in i + 1 .. n : u[j] = w[j]
    BY <1>7 DEF Before
  <2>2. u \in [1 .. n -> Nat] /\ \A j \in 1 .. n : lo <= u[j] /\ u[j] <= hi[j]
    BY DEF Vectors
  <2>3. i >= k
    <3> SUFFICES ASSUME i < k PROVE FALSE
      OBVIOUS
    <3>1. w[i] = lo /\ lo <= u[i] /\ u[i] \in Nat
      BY <1>3, <2>2
    <3> QED
      BY <2>1, <3>1
  <2>4. PICK m \in 1 .. n : u[m] # v[m] /\ \A j \in m + 1 .. n : u[j] = v[j]
    <3>1. n \in Nat /\ u \in [1 .. n -> Nat] /\ v \in [1 .. n -> Nat] /\ u # v
      BY <1>1, <1>7, <2>2
    <3> QED
      BY <3>1, LastDifference
  <2>5. u[m] < v[m]
    <3>1. CASE m < k
      <4>1. v[m] = hi[m] /\ u[m] <= hi[m] /\ u[m] \in Nat /\ hi[m] \in Nat
        BY <1>1, <2>2, <3>1
      <4> QED
        BY <2>4, <4>1
    <3>2. CASE m = k
      <4>1. CASE i = k
        <5>1. u[k] < v[k] + 1 /\ u[k] \in Nat /\ v[k] \in Nat
          BY <1>1, <1>4, <2>1, <2>2, <4>1
        <5> QED
          BY <2>4, <3>2, <5>1
      <4>2. CASE i # k
        <5>1. i \in m + 1 .. n /\ w[i] = v[i]
          BY <1>3, <2>3, <3>2, <4>2
        <5>2. u[i] = v[i] /\ u[i] < v[i] /\ v[i] \in Nat
          BY <1>1, <2>1, <2>4, <5>1
        <5> QED
          BY <5>2
      <4> QED
        BY <4>1, <4>2
    <3>3. CASE m > k
      <4>1. w[m] = v[m]
        BY <1>3, <3>3
      <4>2. i >= m
        BY <2>1, <2>4, <4>1
      <4>3. i = m
        <5> SUFFICES ASSUME i # m PROVE FALSE
          BY <4>2
        <5>1. i \in m + 1 .. n /\ w[i] = v[i]
          BY <1>3, <3>3, <4>2
        <5>2. u[i] = v[i] /\ u[i] < v[i] /\ v[i] \in Nat
          BY <1>1, <2>1, <2>4, <5>1
        <5> QED
          BY <5>2
      <4> QED
        BY <2>1, <4>1, <4>3
    <3> QED
      BY <3>1, <3>2, <3>3
  <2> QED
    BY <2>4, <2>5 DEF Before
<1> QED
  BY <1>2, <1>5, <1>6, <1>7 DEF Vectors

\* No vector comes before itself, all others before the one that is at the end
\* everywhere, and none before the first.
LEMMA BeforeFacts ==
  ASSUME NEW n, NEW lo, NEW hi, Bounds(n, lo, hi), NEW v \in Vectors(n, lo, hi)
  PROVE  /\ ~Before(n, v, v)
         /\ v = hi => \A u \in Vectors(n, lo, hi) : u = v \/ Before(n, u, v)
         /\ (\A k \in 1 .. n : v[k] = lo) => \A u \in Vectors(n, lo, hi) : ~Before(n, u, v)
<1>1. \A u \in Vectors(n, lo, hi) :
        u \in [1 .. n -> Nat] /\ \A k \in 1 .. n : lo <= u[k] /\ u[k] <= hi[k]
  BY DEF Vectors
<1> n \in Nat /\ lo \in Nat /\ hi \in [1 .. n -> Nat]
  BY DEF Bounds
<1>2. ~Before(n, v, v)
  BY <1>1 DEF Before
<1>3. ASSUME v = hi, NEW u \in Vectors(n, lo, hi), u # v
      PROVE  Before(n, u, v)
  <2>1. PICK k \in 1 .. n : u[k] # v[k] /\ \A j \in k + 1 .. n : u[j] = v[j]
    BY <1>1, <1>3, LastDifference
  <2>2. u[k] < v[k]
    BY <1>1, <1>3, <2>1
  <2> QED
    BY <2>1, <2>2 DEF Before
<1>4. ASSUME \A k \in 1 .. n : v[k] = lo, NEW u \in Vectors(n, lo, hi)
      PROVE  ~Before(n, u, v)
  BY <1>1, <1>4 DEF Before
<1> QED
  BY <1>2, <1>3, <1>4

\* The vectors from 1 to hi are as many as the product of its elements.
LEMMA VectorsCount ==
  ASSUME NEW n \in Nat, NEW hi \in [1 .. n -> Nat],
         NEW num, num[0] = 1, \A k \in 1 .. n : num[k] = num[k - 1] * hi[k]
  PROVE  IsFiniteSet(Vectors(n, 1, hi)) /\ Cardinality(Vectors(n, 1, hi)) = num[n]
<1> DEFINE V(k) == Vectors(k, 1, hi)
           T == {k \in Nat : k <= n => IsFiniteSet(V(k)) /\ Cardinality(V(k)) = num[k]}
<1>1. 0 \in T
  <2> DEFINE e == [k \in 1 .. 0 |-> 0]
  <2>1. V(0) = {e}
    <3>1. \A v : v \in [1 .. 0 -> Nat] <=> v = e
      <4>1. \A k : k \notin 1 .. 0
        OBVIOUS
      <4> DEFINE none == 1 .. 0
      <4> HIDE DEF none
      <4>2. \A v : v \in [none -> Nat] <=> v = [k \in none |-> 0]
        BY <4>1 DEF none
      <4> QED
        BY <4>2 DEF none
    <3>2. \A v : v \in V(0) <=> v \in [1 .. 0 -> Nat]
      BY DEF Vectors
    <3> HIDE DEF V, e
    <3> QED
      BY <3>1, <3>2
  <2> HIDE DEF e
  <2>2. IsFiniteSet({e}) /\ Cardinality({e}) = 1
    BY FS_Singleton
  <2> QED
    BY <2>1, <2>2 DEF e
<1>2. ASSUME NEW k \in Nat, k \in T
      PROVE  k + 1 \in T
  <2> SUFFICES ASSUME k + 1 <= n
               PROVE  IsFiniteSet(V(k + 1)) /\ Cardinality(V(k + 1)) = num[k + 1]
    OBVIOUS
  <2> DEFINE j == k + 1
             E == 1 .. hi[j]
             A == V(k) \X E
             B == V(j)
             f == [t \in A |-> [i \in 1 .. j |-> IF i = j THEN t[2] ELSE t[1][i]]]
  <2>1. /\ j \in 1 .. n /\ j - 1 = k /\ hi[j] \in Nat
        /\ \A i : i \in 1 .. j <=> i \in 1 .. k \/ i = j
        /\ j \notin 1 .. k /\ 1 .. k \subseteq 1 .. n
    <3>1. j \in 1 .. n
      OBVIOUS
    <3>2. hi[j] \in Nat
      BY <3>1
    <3> QED
      BY <3>1, <3>2
  <2>2. IsFiniteSet(V(k)) /\ Cardinality(V(k)) = num[k]
    BY <1>2
  <2>3. IsFiniteSet(E) /\ Cardinality(E) = hi[j]
    <3> DEFINE h == hi[j]
    <3>1. h \in Nat
      BY <2>1
    <3> HIDE DEF h
    <3>2. 1 \in Int /\ h \in Int
      BY <3>1
    <3>3. IsFiniteSet(1 .. h) /\ Cardinality(1 .. h) = IF 1 > h THEN 0 ELSE h - 1 + 1
      BY <3>2, FS_Interval
    <3> QED
      BY <3>1, <3>3 DEF h
  <2>4. num[j] = num[k] * hi[j]
    BY <2>1
  <2> HIDE DEF j
  <2>5. \A a : a \in V(k) <=> a \in [1 .. k -> Nat] /\ \A i \in 1 .. k : 1 <= a[i] /\ a[i] <= hi[i]
    BY DEF Vectors
  <2>6. \A b : b \in B <=> b \in [1 .. j -> Nat] /\ \A i \in 1 .. j : 1 <= b[i] /\ b[i] <= hi[i]
    BY DEF Vectors
  <2>7. \A e : e \in E <=> e \in Nat /\ 1 <= e /\ e <= hi[j]
    BY <2>1
  <2>8. ASSUME NEW t \in A
        PROVE  f[t] \in B
    <3>1. t[1] \in V(k) /\ t[2] \in E
      OBVIOUS
    <3>2. f[t] = [i \in 1 .. j |-> IF i = j THEN t[2] ELSE t[1][i]]
      OBVIOUS
    <3> DEFINE a == t[1]
               e == t[2]
               b == f[t]
    <3>3. b = [i \in 1 .. j |-> IF i = j THEN e ELSE a[i]]
      BY <3>2
    <3> HIDE DEF f, A, B, E, V, a, e, b
    <3>4. /\ a \in [1 .. k -> Nat] /\ \A i \in 1 .. k : 1 <= a[i] /\ a[i] <= hi[i]
          /\ e \in Nat /\ 1 <= e /\ e <= hi[j]
      BY <2>5, <2>7, <3>1 DEF a, e
    <3>5. b \in [1 .. j -> Nat]
      BY <2>1, <3>3, <3>4
    <3>6. \A i \in 1 .. j : 1 <= b[i] /\ b[i] <= hi[i]
      BY <2>1, <3>3, <3>4
    <3> QED
      BY <2>6, <3>5, <3>6 DEF b
  <2>9. ASSUME NEW s \in A, NEW t \in A, f[s] = f[t]
        PROVE  s = t
    <3>1. s[1] \in V(k) /\ t[1] \in V(k) /\ s = <<s[1], s[2]>> /\ t = <<t[1], t[2]>>
      OBVIOUS
    <3>2. \A i \in 1 .. j : f[s][i] = (IF i = j THEN s[2] ELSE s[1][i])
      OBVIOUS
    <3>3. \A i \in 1 .. j : f[t][i] = (IF i = j THEN t[2] ELSE t[1][i])
      OBVIOUS
    <3> HIDE DEF f, A, B, E, V
    <3>4. s[2] = t[2] /\ \A i \in 1 .. k : s[1][i] = t[1][i]
      BY <2>1, <2>9, <3>2, <3>3
    <3>5. s[1] = t[1]
      <4> DEFINE a == s[1]
                 b == t[1]
      <4>1. a \in [1 .. k -> Nat] /\ b \in [1 .. k -> Nat] /\ \A i \in 1 .. k : a[i] = b[i]
        BY <2>5, <3>1, <3>4
      <4> HIDE DEF a, b
      <4>2. a = b
        BY <4>1
      <4> QED
        BY <4>2 DEF a, b
    <3> QED
      BY <3>1, <3>4, <3>5
  <2>10. ASSUME NEW b \in B
         PROVE  \E t \in A : f[t] = b
    <3> DEFINE a == [i \in 1 .. k |-> b[i]]
               t == <<a, b[j]>>
    <3>1. t \in A
      <4>1. a \in V(k) /\ b[j] \in E
        <5> HIDE DEF B, E, V
        <5>1. b \in [1 .. j -> Nat] /\ \A i \in 1 .. j : 1 <= b[i] /\ b[i] <= hi[i]
          BY <2>6
        <5>2. b[j] \in E
          BY <2>1, <2>7, <5>1
        <5>3. a \in [1 .. k -> Nat] /\ \A i \in 1 .. k : a[i] = b[i]
          BY <2>1, <5>1
        <5>4. \A i \in 1 .. k : 1 <= a[i] /\ a[i] <= hi[i]
          BY <2>1, <5>1, <5>3
        <5> HIDE DEF a
        <5> QED
          BY <2>5, <5>2, <5>3, <5>4
      <4> HIDE DEF a, E, V
      <4> QED
        BY <4>1
    <3>2. f[t] = [i \in 1 .. j |-> IF i = j THEN b[j] ELSE a[i]]
      <4> HIDE DEF A, a
      <4> QED
        BY <3>1
    <3>3. [i \in 1 .. j |-> IF i = j THEN b[j] ELSE a[i]] = b
      <4>1. b = [i \in 1 .. j |-> b[i]]
        <5> HIDE DEF B
        <5> QED
          BY <2>6
      <4> QED
        BY <2>1, <4>1
    <3> HIDE DEF f, A, B, t
    <3> QED
      BY <3>1, <3>2, <3>3
  <2>11. f \in Bijection(A, B)
    <3>1. f = [t \in A |-> f[t]]
      OBVIOUS
    <3> HIDE DEF f, A, B
    <3>2. f \in [A -> B]
      BY <2>8, <3>1
    <3> QED
      BY <2>9, <2>10, <3>2 DEF Bijection, Injection, Surjection, IsInjective
  <2>12. IsFiniteSet(A) /\ Cardinality(A) = num[k] * hi[j]
    <3> DEFINE C == V(k)
    <3>1. IsFiniteSet(C) /\ Cardinality(C) = num[k]
      BY <2>2
    <3> HIDE DEF C, E
    <3>2. IsFiniteSet(C \X E) /\ Cardinality(C \X E) = num[k] * hi[j]
      BY <2>3, <3>1, FS_Product
    <3> QED
      BY <3>2 DEF C
  <2> HIDE DEF f, A, B
  <2>13. IsFiniteSet(B) /\ Cardinality(B) = num[j]
    BY <2>4, <2>11, <2>12, FS_Bijection DEF ExistsBijection
  <2> QED
    BY <2>13 DEF B, j
<1>3. n \in T
  <2> HIDE DEF T
  <2> QED
    BY <1>1, <1>2, NatSetInduction
<1> QED
  BY <1>3

\* The number of connections of a matrix is that of the vectors over its sets.
LEMMA NumConnsFacts ==
  ASSUME NEW x, NEW n \in Nat, Len(x.product) = n, NEW hi \in [1 .. n -> Nat],
         \A k \in 1 .. n : Len(x.product[k]) = hi[k]
  PROVE  NumConns(x) = Cardinality(Vectors(n, 1, hi))
<1> DEFINE num[k \in 0 .. n] == IF k = 0 THEN 1 ELSE num[k - 1] * Len(x.product[k])
           D == [t \in Nat \X (1 .. n) |-> t[1] * hi[t[2]]]
<1>1. NumConns(x) = num[n]
  BY DEF NumConns
<1>2. D \in Bodies(Nat, n) /\ \A m \in Nat : \A k \in 1 .. n : D[<<m, k>>] = m * hi[k]
  <2>1. ASSUME NEW t \in Nat \X (1 .. n)
        PROVE  t[1] * hi[t[2]] \in Nat
    <3>1. t[1] \in Nat /\ hi[t[2]] \in Nat
      OBVIOUS
    <3> QED
      BY <3>1
  <2> QED
    BY <2>1 DEF Bodies
<1> HIDE DEF D
<1>3. PICK g \in [0 .. n -> Nat] : Iterates(g, 1, D, n)
  BY <1>2, LoopRuns
<1>4. g[0] = 1 /\ \A k \in 1 .. n : g[k] = g[k - 1] * hi[k]
  <2>1. ASSUME NEW k \in 1 .. n
        PROVE  g[k] = g[k - 1] * hi[k]
    <3>1. k - 1 \in 0 .. n /\ g[k] = D[<<g[k - 1], k>>]
      BY <1>3 DEF Iterates
    <3> QED
      BY <1>2, <3>1
  <2> QED
    BY <1>3, <2>1 DEF Iterates
<1>5. g = [k \in 0 .. n |-> IF k = 0 THEN 1 ELSE g[k - 1] * Len(x.product[k])]
  <2>1. ASSUME NEW k \in 0 .. n
        PROVE  g[k] = IF k = 0 THEN 1 ELSE g[k - 1] * Len(x.product[k])
    <3>1. k # 0 => k \in 1 .. n
      OBVIOUS
    <3> QED
      BY <1>4, <3>1
  <2> QED
    BY <2>1
<1>6. num = [k \in 0 .. n |-> IF k = 0 THEN 1 ELSE num[k - 1] * Len(x.product[k])]
  BY <1>5
<1> HIDE DEF num
<1>7. num[0] = 1 /\ \A k \in 1 .. n : num[k] = num[k - 1] * hi[k]
  <2>1. 0 \in 0 .. n /\ num[0] = 1
    BY <1>6
  <2>2. ASSUME NEW k \in 1 .. n
        PROVE  num[k] = num[k - 1] * hi[k]
    <3>1. k \in 0 .. n /\ k # 0
      OBVIOUS
    <3>2. num[k] = num[k - 1] * Len(x.product[k])
      BY <1>6, <3>1
    <3> QED
      BY <3>2
  <2> QED
    BY <2>1, <2>2
<1>8. Cardinality(Vectors(n, 1, hi)) = num[n]
  BY <1>7, VectorsCount
<1> QED
  BY <1>1, <1>8

\* A list without repetitions of S, and one more element.
LEMMA BijectionMore ==
  ASSUME NEW N \in Nat, NEW S, NEW f \in Bijection(1 .. N, S), NEW d, d \notin S
  PROVE  [p \in 1 .. N + 1 |-> IF p = N + 1 THEN d ELSE f[p]] \in Bijection(1 .. N + 1, S \cup {d})
<1> DEFINE M == N + 1
           g == [p \in 1 .. M |-> IF p = M THEN d ELSE f[p]]
<1>1. /\ f \in [1 .. N -> S]
      /\ \A p, q \in 1 .. N : f[p] = f[q] => p = q
      /\ \A s \in S : \E p \in 1 .. N : f[p] = s
  BY DEF Bijection, Injection, Surjection, IsInjective
<1>2. /\ M \notin 1 .. N /\ M \in 1 .. M
      /\ \A p : p \in 1 .. M <=> p \in 1 .. N \/ p = M
  OBVIOUS
<1> HIDE DEF M
<1>3. g \in [1 .. M -> S \cup {d}]
  BY <1>1, <1>2
<1>4. g[M] = d /\ \A p \in 1 .. N : g[p] = f[p] /\ f[p] \in S
  BY <1>1, <1>2
<1> HIDE DEF g
<1>5. \A p, q \in 1 .. M : g[p] = g[q] => p = q
  BY <1>1, <1>2, <1>4
<1>6. \A s \in S \cup {d} : \E p \in 1 .. M : g[p] = s
  BY <1>1, <1>2, <1>4
<1>7. g \in Bijection(1 .. M, S \cup {d})
  BY <1>3, <1>5, <1>6 DEF Bijection, Injection, Surjection, IsInjective
<1> QED
  BY <1>7 DEF M, g

-----------------------------------------------------------------------------
(* Flattening                                                              *)

LEMMA FlattenOne ==
  ASSUME NEW s
  PROVE  FlattenSeq(<<s>>) = s
<1> DEFINE one == <<s>>
           flatten[i \in 1 .. 1] == IF i = 1 THEN one[i] ELSE flatten[i - 1] \o one[i]
<1>1. FlattenSeq(one) = flatten[1]
  BY DEF FlattenSeq
<1> DEFINE g == [i \in 1 .. 1 |-> s]
<1>2. g = [i \in 1 .. 1 |-> IF i = 1 THEN one[i] ELSE g[i - 1] \o one[i]]
  OBVIOUS
<1>3. flatten = [i \in 1 .. 1 |-> IF i = 1 THEN one[i] ELSE flatten[i - 1] \o one[i]]
  BY <1>2
<1> HIDE DEF flatten
<1> QED
  BY <1>1, <1>3

\* Lists of at most one element: flattened, they are shorter than the list of them
\* if one is empty.
Units(N, X, s) ==
  /\ N \in Nat \ {0} /\ s \in [1 .. N -> Seq(X)]
  /\ \A i \in 1 .. N : s[i] = <<>> \/ \E x \in X : s[i] = <<x>>

LEMMA FlattenUnits ==
  ASSUME NEW N, NEW X, NEW s, Units(N, X, s)
  PROVE  /\ FlattenSeq(s) \in Seq(X)
         /\ Len(FlattenSeq(s)) = N <=> \A i \in 1 .. N : s[i] # <<>>
         /\ Len(FlattenSeq(s)) = N => \A i \in 1 .. N : FlattenSeq(s)[i] = s[i][1]
<1> DEFINE flatten[i \in 1 .. N] == IF i = 1 THEN s[i] ELSE flatten[i - 1] \o s[i]
           S == Seq(X)
           D == [t \in S \X (1 .. N) |-> t[1] \o s[t[2]]]
<1> /\ N \in Nat \ {0} /\ s \in [1 .. N -> Seq(X)]
    /\ \A i \in 1 .. N : s[i] = <<>> \/ \E x \in X : s[i] = <<x>>
  BY DEF Units
<1>1. FlattenSeq(s) = flatten[N]
  <2>1. Len(s) = N
    OBVIOUS
  <2> QED
    BY <2>1 DEF FlattenSeq
<1>2. D \in Bodies(S, N) /\ \A v \in S : \A i \in 1 .. N : D[<<v, i>>] = v \o s[i]
  <2>1. ASSUME NEW t \in S \X (1 .. N)
        PROVE  t[1] \o s[t[2]] \in S
    <3>1. t[1] \in Seq(X) /\ s[t[2]] \in Seq(X)
      OBVIOUS
    <3> QED
      BY <3>1
  <2> HIDE DEF S
  <2> QED
    BY <2>1 DEF Bodies
<1>3. <<>> \in S /\ N \in Nat
  OBVIOUS
<1> HIDE DEF D, S
<1>4. PICK g \in [0 .. N -> S] : Iterates(g, <<>>, D, N)
  BY <1>2, <1>3, LoopRuns
<1>5. g[0] = <<>> /\ \A i \in 1 .. N : g[i] = g[i - 1] \o s[i] /\ g[i - 1] \in S /\ g[i] \in S
  <2>1. ASSUME NEW i \in 1 .. N
        PROVE  g[i] = g[i - 1] \o s[i] /\ g[i - 1] \in S /\ g[i] \in S
    <3>1. i - 1 \in 0 .. N /\ i \in 0 .. N /\ g[i] = D[<<g[i - 1], i>>]
      BY <1>4 DEF Iterates
    <3> QED
      BY <1>2, <1>4, <3>1
  <2> QED
    BY <1>4, <2>1 DEF Iterates
<1>6. flatten = [i \in 1 .. N |-> IF i = 1 THEN s[i] ELSE flatten[i - 1] \o s[i]]
  <2> DEFINE h == [i \in 1 .. N |-> g[i]]
  <2>1. ASSUME NEW i \in 1 .. N
        PROVE  h[i] = IF i = 1 THEN s[i] ELSE h[i - 1] \o s[i]
    <3>1. CASE i = 1
      <4>1. g[1] = <<>> \o s[1] /\ s[1] \in Seq(X)
        <5>1. 1 \in 1 .. N /\ 1 - 1 = 0
          OBVIOUS
        <5>2. g[1] = g[0] \o s[1]
          BY <1>5, <5>1
        <5> QED
          BY <1>5, <5>1, <5>2
      <4>2. g[1] = s[1]
        BY <4>1
      <4> QED
        BY <3>1, <4>2
    <3>2. CASE i # 1
      <4>1. i - 1 \in 1 .. N
        BY <3>2
      <4> QED
        BY <1>5, <3>2, <4>1
    <3> QED
      BY <3>1, <3>2
  <2>2. h = [i \in 1 .. N |-> IF i = 1 THEN s[i] ELSE h[i - 1] \o s[i]]
    <3>1. h = [i \in 1 .. N |-> h[i]]
      OBVIOUS
    <3> HIDE DEF h
    <3> QED
      BY <2>1, <3>1
  <2> HIDE DEF h
  <2> QED
    BY <2>2
<1> HIDE DEF flatten
<1> DEFINE Good(k, v) ==
             /\ v \in Seq(X) /\ Len(v) <= k
             /\ (\A i \in 1 .. k : s[i] # <<>>) => Len(v) = k
             /\ Len(v) = k => \A i \in 1 .. k : s[i] # <<>> /\ v[i] = s[i][1]
           T == {k \in Nat : k + 1 <= N => Good(k + 1, flatten[k + 1])}
<1>7. 0 \in T
  <2>1. 1 \in 1 .. N /\ flatten[1] = s[1]
    BY <1>6
  <2>2. s[1] = <<>> \/ \E x \in X : s[1] = <<x>>
    BY <2>1
  <2>3. \A i : i \in 1 .. 1 <=> i = 1
    OBVIOUS
  <2>4. Good(1, s[1])
    <3>1. CASE s[1] = <<>>
      BY <2>3, <3>1
    <3>2. ASSUME NEW x \in X, s[1] = <<x>>
          PROVE  Good(1, s[1])
      <4> DEFINE v == s[1]
      <4>1. v \in Seq(X) /\ Len(v) = 1 /\ v[1] = x /\ v # <<>>
        BY <3>2
      <4>2. v = s[1]
        OBVIOUS
      <4> HIDE DEF v
      <4>3. Good(1, v)
        BY <2>3, <4>1, <4>2
      <4> QED
        BY <4>2, <4>3
    <3> QED
      BY <2>2, <3>1, <3>2
  <2> HIDE DEF Good
  <2> QED
    BY <2>1, <2>4
<1>8. ASSUME NEW m \in Nat, m \in T
      PROVE  m + 1 \in T
  <2> SUFFICES ASSUME (m + 1) + 1 <= N
               PROVE  Good((m + 1) + 1, flatten[(m + 1) + 1])
    OBVIOUS
  <2> DEFINE k == m + 1
             j == k + 1
             v == flatten[k]
             w == flatten[j]
  <2>1. /\ k \in Nat /\ k # 0 /\ j \in 1 .. N /\ k \in 1 .. N /\ j # 1 /\ j - 1 = k
        /\ \A i : i \in 1 .. j <=> i \in 1 .. k \/ i = j
    OBVIOUS
  <2>2. Good(k, v)
    BY <1>8, <2>1
  <2>3. w = v \o s[j]
    BY <1>6, <2>1
  <2>4. j = k + 1 /\ (s[j] = <<>> \/ \E x \in X : s[j] = <<x>>)
    BY <2>1
  <2> HIDE DEF j, k, v, w
  <2>5. CASE s[j] = <<>>
    <3>1. w = v
      BY <2>2, <2>3, <2>5
    <3>2. Len(w) < j /\ j \in 1 .. j
      BY <2>1, <2>2, <2>4, <3>1
    <3> QED
      BY <2>2, <2>4, <2>5, <3>1, <3>2 DEF j, k, w
  <2>6. ASSUME NEW x \in X, s[j] = <<x>>
        PROVE  Good(j, w)
    <3>1. /\ w \in Seq(X) /\ Len(w) = Len(v) + 1 /\ w[Len(v) + 1] = x
          /\ \A i \in 1 .. Len(v) : w[i] = v[i]
      <4>1. v \in Seq(X)
        BY <2>2
      <4>2. w = v \o <<x>>
        BY <2>3, <2>6
      <4> QED
        BY <4>1, <4>2
    <3>2. s[j] # <<>> /\ s[j][1] = x
      BY <2>6
    <3>3. Len(v) \in Nat
      BY <2>2
    <3>4. Len(w) <= j /\ (Len(w) = j <=> Len(v) = k)
      BY <2>1, <2>2, <2>4, <3>1, <3>3
    <3>5. (\A i \in 1 .. j : s[i] # <<>>) => Len(w) = j
      BY <2>1, <2>2, <3>4
    <3>6. ASSUME Len(w) = j, NEW i \in 1 .. j
          PROVE  s[i] # <<>> /\ w[i] = s[i][1]
      <4>1. CASE i = j
        BY <2>4, <3>1, <3>2, <3>4, <3>6, <4>1
      <4>2. CASE i \in 1 .. k
        BY <2>2, <3>1, <3>4, <3>6, <4>2
      <4> QED
        BY <2>1, <4>1, <4>2
    <3> QED
      BY <3>1, <3>4, <3>5, <3>6
  <2> HIDE DEF Good
  <2> QED
    BY <2>4, <2>5, <2>6 DEF j, k, w
<1>9. Good(N, flatten[N])
  <2>1. N - 1 \in Nat /\ (N - 1) + 1 = N
    OBVIOUS
  <2>2. N - 1 \in T
    <3> HIDE DEF T
    <3> QED
      BY <1>7, <1>8, <2>1, NatSetInduction
  <2> HIDE DEF Good
  <2> QED
    BY <2>1, <2>2
<1> QED
  BY <1>1, <1>9

-----------------------------------------------------------------------------
(* Advancing the iterators                                                 *)

LEMMA MinLeast ==
  ASSUME NEW S \in SUBSET Nat, S # {}
  PROVE  Min(S) \in S /\ \A y \in S : Min(S) <= y
<1>1. \E x \in S : \A y \in S : x <= y
  BY LeastNatural
<1> QED
  BY <1>1 DEF Min

\* A matrix over n sets of hi elements.
At(product, v, done) == [product |-> product, itrs |-> v, traversed_all |-> done]

Sized(n, product, hi) ==
  Bounds(n, 1, hi) /\ Len(product) = n /\ \A k \in 1 .. n : Len(product[k]) = hi[k]

\* If it has come to v it goes to the vector that follows, or ends.
LEMMA AdvancedFollows ==
  ASSUME NEW n, NEW product, NEW hi, Sized(n, product, hi), NEW v \in Vectors(n, 1, hi)
  PROVE  \E w \in Vectors(n, 1, hi), e \in BOOLEAN :
           /\ Advanced(At(product, v, FALSE)) = At(product, w, e)
           /\ e => v = hi /\ w = [k \in 1 .. n |-> 1]
           /\ ~e => \E k \in 1 .. n : Follows(n, 1, hi, v, w, k)
<1> DEFINE x == At(product, v, FALSE)
           ahead == {i \in 1 .. n : x.itrs[i] < Len(x.product[i])}
           i0 == IF ahead = {} THEN n + 1 ELSE Min(ahead)
           w == [i \in 1 .. n |-> IF i < i0 THEN 1 ELSE IF i = i0 THEN x.itrs[i] + 1 ELSE x.itrs[i]]
           e == i0 = n + 1
<1> /\ n \in Nat /\ hi \in [1 .. n -> Nat] /\ \A k \in 1 .. n : 1 <= hi[k]
    /\ Len(product) = n /\ \A k \in 1 .. n : Len(product[k]) = hi[k]
  BY DEF Sized, Bounds
<1>1. /\ x = [product |-> product, itrs |-> v, traversed_all |-> FALSE]
      /\ x.product = product /\ x.itrs = v /\ x.traversed_all = FALSE
      /\ v \in [1 .. n -> Nat] /\ \A k \in 1 .. n : 1 <= v[k] /\ v[k] <= hi[k]
      /\ DOMAIN x.itrs = 1 .. n /\ Len(x.product) = n
  BY DEF Vectors, At
<1> HIDE DEF x
<1>2. Advanced(x) = At(product, w, e)
  BY <1>1 DEF Advanced, At
<1>3. \A i : i \in ahead <=> i \in 1 .. n /\ v[i] < hi[i]
  BY <1>1
<1>4. w = [i \in 1 .. n |-> IF i < i0 THEN 1 ELSE IF i = i0 THEN v[i] + 1 ELSE v[i]]
  BY <1>1
<1> HIDE DEF ahead
<1>5. CASE ahead = {}
  <2>1. i0 = n + 1
    BY <1>5
  <2> HIDE DEF i0
  <2>2. w = [k \in 1 .. n |-> 1] /\ e
    BY <2>1
  <2>3. \A k \in 1 .. n : v[k] = hi[k]
    <3> SUFFICES ASSUME NEW k \in 1 .. n PROVE v[k] = hi[k]
      OBVIOUS
    <3>1. ~(v[k] < hi[k])
      BY <1>3, <1>5
    <3> QED
      BY <1>1, <3>1
  <2>4. v = hi
    BY <1>1, <2>3
  <2>5. w \in Vectors(n, 1, hi)
    <3>1. w \in [1 .. n -> Nat] /\ \A k \in 1 .. n : w[k] = 1 /\ 1 <= hi[k]
      BY <2>2
    <3> HIDE DEF w
    <3>2. \A k \in 1 .. n : 1 <= w[k] /\ w[k] <= hi[k]
      BY <3>1
    <3> QED
      BY <3>1, <3>2 DEF Vectors
  <2>6. e \in BOOLEAN
    OBVIOUS
  <2> HIDE DEF w, e
  <2> QED
    BY <1>2, <2>2, <2>4, <2>5, <2>6 DEF x
<1>6. CASE ahead # {}
  <2>1. /\ ahead \in SUBSET Nat /\ i0 = Min(ahead)
    BY <1>3, <1>6
  <2>2. i0 \in ahead /\ \A y \in ahead : i0 <= y
    BY <1>6, <2>1, MinLeast
  <2>3. i0 \in 1 .. n /\ v[i0] < hi[i0]
    BY <1>3, <2>2
  <2> HIDE DEF i0
  <2>4. ~e
    BY <2>3
  <2>5. ASSUME NEW j \in 1 .. n, j < i0
        PROVE  v[j] = hi[j]
    <3>1. j \notin ahead
      BY <2>2, <2>3, <2>5
    <3>2. ~(v[j] < hi[j])
      BY <1>3, <3>1
    <3> QED
      BY <1>1, <3>2
  <2> HIDE DEF w, e
  <2>6. Follows(n, 1, hi, v, w, i0)
    BY <1>4, <2>3, <2>5 DEF Follows
  <2>7. w \in Vectors(n, 1, hi)
    BY <2>6, FollowsFacts DEF Sized
  <2>8. e \in BOOLEAN
    BY DEF e
  <2> QED
    BY <1>2, <2>3, <2>4, <2>6, <2>7, <2>8 DEF x
<1> QED
  BY <1>5, <1>6

\* The connections a matrix of several sets gives, in order.
Vector(product, n, v) == [i \in 1 .. n |-> product[i][v[i]]]

\* set_conns with one matrix of all specifications.
AfterProduct(n, product, hi, v, done, r) ==
  /\ r.found <=> ~done
  /\ done => r.matrices = <<At(product, v, done)>>
  /\ ~done =>
       /\ r.conns = <<Vector(product, n, v)>>
       /\ \E w \in Vectors(n, 1, hi), e \in BOOLEAN :
            /\ r.matrices = <<At(product, w, e)>>
            /\ \A u \in Vectors(n, 1, hi) :
                 e \/ Before(n, u, w) <=> Before(n, u, v) \/ u = v

LEMMA NextOfProduct ==
  ASSUME NEW n, n # 0, NEW product, NEW hi, Sized(n, product, hi),
         NEW v \in Vectors(n, 1, hi), NEW done \in BOOLEAN, NEW conns,
         NEW r, r = SetConns(FALSE, <<At(product, v, done)>>, conns)
  PROVE  AfterProduct(n, product, hi, v, done, r)
<1> DEFINE x == At(product, v, done)
           all == <<x>>
           some == {i \in 1 .. 1 : NextConns(all[i]) # <<>>}
           i0 == IF some = {} THEN 1 + 1 ELSE Min(some)
           ms == [i \in 1 .. 1 |-> IF i = i0 THEN Advanced(all[i]) ELSE all[i]]
           cs == [i \in 1 .. 1 |-> IF i < i0 THEN <<>>
                                   ELSE IF i = i0 THEN NextConns(all[i]) ELSE conns[i]]
<1>1. Len(all) = 1 /\ all[1] = x
  OBVIOUS
<1>2. /\ x.product = product /\ x.itrs = v /\ x.traversed_all = done
      /\ v \in [1 .. n -> Nat] /\ DOMAIN v = 1 .. n /\ n \in Nat
  BY DEF Vectors, At, Sized, Bounds
<1> HIDE DEF all, x
<1>3. (r.found <=> some # {})
  BY <1>1 DEF SetConns, all, x
<1>4. r.matrices = ms /\ r.conns = cs
  BY <1>1 DEF SetConns, all, x
<1>5. CASE done
  <2>1. some = {}
    <3>1. NextConns(x) = <<>>
      BY <1>2, <1>5 DEF NextConns
    <3>2. \A i : i \in 1 .. 1 <=> i = 1
      OBVIOUS
    <3> QED
      BY <1>1, <3>1, <3>2
  <2>2. ms = [i \in 1 .. 1 |-> all[i]]
    BY <2>1
  <2>3. ms = <<x>>
    BY <1>1, <2>2
  <2> QED
    BY <1>3, <1>4, <1>5, <2>1, <2>3 DEF x, AfterProduct
<1>6. CASE ~done
  <2>1. NextConns(x) = Vector(product, n, v)
    BY <1>2, <1>6 DEF NextConns, Vector
  <2>2. Vector(product, n, v) # <<>>
    <3>1. 1 \in DOMAIN Vector(product, n, v) /\ 1 \notin DOMAIN <<>>
      BY <1>2 DEF Vector
    <3> QED
      BY <3>1
  <2>3. some = {1}
    <3>1. \A i : i \in 1 .. 1 <=> i = 1
      OBVIOUS
    <3> QED
      BY <1>1, <2>1, <2>2, <3>1
  <2>4. i0 = 1
    <3>1. {1} \in SUBSET Nat /\ {1} # {}
      OBVIOUS
    <3>2. Min({1}) = 1
      BY <3>1, MinLeast
    <3> QED
      BY <2>3, <3>2
  <2> HIDE DEF i0
  <2>5. ms = <<Advanced(x)>> /\ cs = <<NextConns(x)>>
    BY <1>1, <2>4
  <2>6. PICK w \in Vectors(n, 1, hi), e \in BOOLEAN :
           /\ Advanced(x) = At(product, w, e)
           /\ e => v = hi /\ w = [k \in 1 .. n |-> 1]
           /\ ~e => \E k \in 1 .. n : Follows(n, 1, hi, v, w, k)
    <3> HIDE DEF ms, cs, some
    <3>1. x = At(product, v, FALSE)
      BY <1>6 DEF x
    <3> QED
      BY <3>1, AdvancedFollows
  <2>7. \A u \in Vectors(n, 1, hi) : e \/ Before(n, u, w) <=> Before(n, u, v) \/ u = v
    <3> HIDE DEF ms, cs, some
    <3>1. Bounds(n, 1, hi)
      BY DEF Sized
    <3>2. CASE e
      <4>1. \A u \in Vectors(n, 1, hi) : u = v \/ Before(n, u, v)
        BY <2>6, <3>1, <3>2, BeforeFacts
      <4> QED
        BY <3>2, <4>1
    <3>3. CASE ~e
      BY <2>6, <3>1, <3>3, FollowsFacts
    <3> QED
      BY <3>2, <3>3
  <2>8. r.found /\ r.matrices = <<At(product, w, e)>> /\ r.conns = <<Vector(product, n, v)>>
    BY <1>3, <1>4, <2>1, <2>3, <2>5, <2>6
  <2> HIDE DEF ms, cs, some
  <2> QED
    BY <1>6, <2>7, <2>8 DEF AfterProduct
<1> QED
  BY <1>5, <1>6

\* A matrix of one set, after its d-th connection: it starts again after the last.
Digit(seq, d) == At(<<seq>>, <<IF d < Len(seq) THEN d + 1 ELSE 1>>, d = Len(seq))

LEMMA NextDigit ==
  ASSUME NEW seq, Len(seq) \in Nat, Len(seq) # 0, NEW d \in 0 .. Len(seq)
  PROVE  /\ NextConns(Digit(seq, d)) = IF d = Len(seq) THEN <<>> ELSE <<seq[d + 1]>>
         /\ d < Len(seq) => Advanced(Digit(seq, d)) = Digit(seq, d + 1)
         /\ ResetMatrix(Digit(seq, d)) = Digit(seq, 0)
<1> DEFINE p == <<seq>>
           v == IF d < Len(seq) THEN d + 1 ELSE 1
           t == <<v>>
           done == d = Len(seq)
           x == At(p, t, done)
<1>1. Digit(seq, d) = x /\ x = [product |-> p, itrs |-> t, traversed_all |-> done]
  BY DEF Digit, At
<1>2. Len(p) = 1 /\ p[1] = seq /\ DOMAIN t = 1 .. 1 /\ t[1] = v /\ Len(t) = 1
  OBVIOUS
<1> HIDE DEF p, t, x
<1>3. x.product = p /\ x.itrs = t /\ x.traversed_all = done
  BY <1>1
<1>4. NextConns(x) = IF done THEN <<>> ELSE <<seq[d + 1]>>
  <2>1. CASE done
    BY <1>3, <2>1 DEF NextConns
  <2>2. CASE ~done
    <3>1. d < Len(seq) /\ v = d + 1
      BY <2>2
    <3>2. NextConns(x) = [i \in 1 .. 1 |-> p[i][t[i]]]
      BY <1>2, <1>3, <2>2 DEF NextConns
    <3>3. [i \in 1 .. 1 |-> p[i][t[i]]] = <<seq[d + 1]>>
      BY <1>2, <3>1
    <3> QED
      BY <2>2, <3>2, <3>3
  <2> QED
    BY <2>1, <2>2
<1>5. ResetMatrix(x) = Digit(seq, 0)
  <2>1. [i \in DOMAIN t |-> 1] = <<1>>
    BY <1>2
  <2>2. ResetMatrix(x) = [x EXCEPT !.itrs = <<1>>, !.traversed_all = FALSE]
    BY <1>3, <2>1 DEF ResetMatrix
  <2>3. ResetMatrix(x) = At(p, <<1>>, FALSE)
    <3> DEFINE one == <<1>>
    <3> HIDE DEF one, done
    <3>1. ResetMatrix(x) = [x EXCEPT !.itrs = one, !.traversed_all = FALSE]
      BY <2>2 DEF one
    <3>2. x = [product |-> x.product, itrs |-> x.itrs, traversed_all |-> x.traversed_all]
      BY <1>1
    <3>3. ResetMatrix(x) = [product |-> x.product, itrs |-> one, traversed_all |-> FALSE]
      BY <3>1, <3>2
    <3> QED
      BY <1>3, <3>3 DEF At, one
  <2>4. (IF 0 < Len(seq) THEN 0 + 1 ELSE 1) = 1 /\ (0 = Len(seq)) = FALSE
    OBVIOUS
  <2>5. Digit(seq, 0) = At(p, <<1>>, FALSE)
    BY <2>4 DEF Digit, p
  <2> QED
    BY <2>3, <2>5
<1>6. ASSUME d < Len(seq)
      PROVE  Advanced(x) = Digit(seq, d + 1)
  <2> DEFINE hi == <<Len(seq)>>
             f == d + 1 = Len(seq)
             next == IF d + 1 < Len(seq) THEN (d + 1) + 1 ELSE 1
  <2>1. ~done /\ v = d + 1 /\ \A k : k \in 1 .. 1 <=> k = 1
    BY <1>6
  <2>2. hi \in [1 .. 1 -> Nat] /\ hi[1] = Len(seq)
    OBVIOUS
  <2> HIDE DEF hi
  <2>3. Sized(1, p, hi)
    BY <1>2, <2>1, <2>2 DEF Sized, Bounds
  <2>4. t \in Vectors(1, 1, hi)
    <3>1. t = [k \in 1 .. 1 |-> v] /\ v \in Nat /\ 1 <= v /\ v <= Len(seq)
      BY <1>6, <2>1 DEF t
    <3> HIDE DEF v
    <3>2. t \in [1 .. 1 -> Nat] /\ t[1] = v
      BY <3>1
    <3> QED
      BY <2>1, <2>2, <3>1, <3>2 DEF Vectors
  <2>5. x = At(p, t, FALSE)
    BY <2>1 DEF x
  <2>6. PICK w \in Vectors(1, 1, hi), e \in BOOLEAN :
           /\ Advanced(x) = At(p, w, e)
           /\ e => t = hi /\ w = [k \in 1 .. 1 |-> 1]
           /\ ~e => \E k \in 1 .. 1 : Follows(1, 1, hi, t, w, k)
    BY <2>3, <2>4, <2>5, AdvancedFollows
  <2>7. w = <<next>> /\ (e <=> f)
    <3>1. CASE e
      <4>1. f /\ w = [k \in 1 .. 1 |-> 1]
        BY <1>2, <2>1, <2>2, <2>6, <3>1
      <4>2. next = 1 /\ [k \in 1 .. 1 |-> 1] = <<1>>
        BY <4>1
      <4> QED
        BY <3>1, <4>1, <4>2
    <3>2. CASE ~e
      <4>1. /\ t[1] < hi[1] /\ w = [j \in 1 .. 1 |-> IF j < 1 THEN 1 ELSE IF j = 1 THEN t[j] + 1 ELSE t[j]]
        BY <2>1, <2>6, <3>2 DEF Follows
      <4>2. ~f /\ next = t[1] + 1
        BY <1>2, <1>6, <2>1, <2>2, <4>1
      <4>3. w = <<t[1] + 1>>
        BY <4>1
      <4> HIDE DEF next, f
      <4> QED
        BY <3>2, <4>2, <4>3
    <3> QED
      BY <3>1, <3>2
  <2>8. Digit(seq, d + 1) = At(p, <<next>>, f)
    BY DEF Digit, p
  <2>9. f \in BOOLEAN
    OBVIOUS
  <2> HIDE DEF f, next
  <2>10. e = f
    BY <2>7, <2>9
  <2> QED
    BY <2>6, <2>7, <2>8, <2>10
<1> QED
  BY <1>1, <1>4, <1>5, <1>6

\* The matrices of correlated invariants, and the connections, after those of d.
Digits(seqs, n, d) == [i \in 1 .. n |-> Digit(seqs[i], d[i])]
Singles(seqs, n, d) == [i \in 1 .. n |-> IF d[i] = 0 THEN <<>> ELSE <<seqs[i][d[i]]>>]

\* set_conns with a matrix for each specification.
AfterDigits(n, seqs, hi, d, r) ==
  /\ r.found <=> d # hi
  /\ d # hi =>
       \E w \in Vectors(n, 0, hi) :
         /\ r.matrices = Digits(seqs, n, w) /\ r.conns = Singles(seqs, n, w)
         /\ \A u \in Vectors(n, 0, hi) : Before(n, u, w) <=> Before(n, u, d) \/ u = d

LEMMA NextOfDigits ==
  ASSUME NEW n, NEW seqs, NEW hi, Sized(n, seqs, hi), NEW d \in Vectors(n, 0, hi),
         NEW r, r = SetConns(TRUE, Digits(seqs, n, d), Singles(seqs, n, d))
  PROVE  AfterDigits(n, seqs, hi, d, r)
<1> DEFINE x == Digits(seqs, n, d)
           c == Singles(seqs, n, d)
           some == {i \in 1 .. n : NextConns(x[i]) # <<>>}
           i0 == IF some = {} THEN n + 1 ELSE Min(some)
           ms == [i \in 1 .. n |-> IF i < i0 THEN ResetMatrix(x[i])
                                   ELSE IF i = i0 THEN Advanced(x[i]) ELSE x[i]]
           cs == [i \in 1 .. n |-> IF i < i0 THEN <<>>
                                   ELSE IF i = i0 THEN NextConns(x[i]) ELSE c[i]]
           w == [i \in 1 .. n |-> IF i < i0 THEN 0 ELSE IF i = i0 THEN d[i] + 1 ELSE d[i]]
<1> /\ n \in Nat /\ hi \in [1 .. n -> Nat] /\ \A k \in 1 .. n : 1 <= hi[k]
    /\ Len(seqs) = n /\ \A k \in 1 .. n : Len(seqs[k]) = hi[k]
  BY DEF Sized, Bounds
<1>1. Bounds(n, 0, hi)
  BY DEF Bounds
<1>2. d \in [1 .. n -> Nat] /\ \A k \in 1 .. n : d[k] \in Nat /\ d[k] <= hi[k] /\ d[k] \in 0 .. hi[k]
  BY DEF Vectors
<1>3. Len(x) = n
  BY DEF Digits
<1>4. \A i \in 1 .. n : /\ x[i] = Digit(seqs[i], d[i])
                        /\ c[i] = IF d[i] = 0 THEN <<>> ELSE <<seqs[i][d[i]]>>
  BY DEF Digits, Singles
<1> HIDE DEF x, c
<1>5. r.found <=> some # {}
  BY <1>3 DEF SetConns, x, c
<1>6. r.matrices = ms /\ r.conns = cs
  BY <1>3 DEF SetConns, x, c
<1> HIDE DEF ms, cs, w
<1>7. ASSUME NEW i \in 1 .. n
      PROVE  /\ NextConns(x[i]) = IF d[i] = hi[i] THEN <<>> ELSE <<seqs[i][d[i] + 1]>>
             /\ d[i] < hi[i] => Advanced(x[i]) = Digit(seqs[i], d[i] + 1)
             /\ ResetMatrix(x[i]) = Digit(seqs[i], 0)
  <2> DEFINE s == seqs[i]
             e == d[i]
  <2>1. Len(s) \in Nat /\ Len(s) # 0 /\ e \in 0 .. Len(s) /\ Len(s) = hi[i] /\ x[i] = Digit(s, e)
    <3>1. Len(s) = hi[i] /\ hi[i] \in Nat /\ 1 <= hi[i] /\ e \in 0 .. hi[i]
      BY <1>2
    <3>2. x[i] = Digit(s, e)
      BY <1>4
    <3> HIDE DEF s, e
    <3> QED
      BY <3>1, <3>2
  <2> HIDE DEF s, e
  <2>2. /\ NextConns(Digit(s, e)) = IF e = Len(s) THEN <<>> ELSE <<s[e + 1]>>
        /\ e < Len(s) => Advanced(Digit(s, e)) = Digit(s, e + 1)
        /\ ResetMatrix(Digit(s, e)) = Digit(s, 0)
    BY <2>1, NextDigit
  <2> QED
    BY <2>1, <2>2 DEF s, e
<1>8. \A i : i \in some <=> i \in 1 .. n /\ d[i] < hi[i]
  <2>1. ASSUME NEW i \in 1 .. n
        PROVE  i \in some <=> d[i] < hi[i]
    <3>1. CASE d[i] = hi[i]
      <4>1. NextConns(x[i]) = <<>>
        BY <1>7, <3>1
      <4>2. ~(d[i] < hi[i])
        BY <1>2, <3>1
      <4> QED
        BY <4>1, <4>2
    <3>2. CASE d[i] # hi[i]
      <4>1. NextConns(x[i]) = <<seqs[i][d[i] + 1]>>
        BY <1>7, <3>2
      <4>2. NextConns(x[i]) # <<>>
        BY <4>1
      <4> QED
        BY <1>2, <3>2, <4>2
    <3> QED
      BY <3>1, <3>2
  <2> QED
    BY <2>1
<1> HIDE DEF some
<1>9. some = {} <=> d = hi
  <2>1. ASSUME some = {}
        PROVE  d = hi
    <3>1. ASSUME NEW i \in 1 .. n
          PROVE  d[i] = hi[i]
      <4>1. ~(d[i] < hi[i])
        BY <1>8, <2>1
      <4> QED
        BY <1>2, <4>1
    <3> QED
      BY <1>2, <3>1
  <2>2. ASSUME d = hi, NEW i \in some
        PROVE  FALSE
    BY <1>8, <2>2
  <2> QED
    BY <2>1, <2>2
<1>10. ASSUME d # hi
       PROVE  \E u \in Vectors(n, 0, hi) :
                /\ r.matrices = Digits(seqs, n, u) /\ r.conns = Singles(seqs, n, u)
                /\ \A v \in Vectors(n, 0, hi) : Before(n, v, u) <=> Before(n, v, d) \/ v = d
  <2>1. some \in SUBSET Nat /\ some # {} /\ i0 = Min(some)
    BY <1>8, <1>9, <1>10
  <2>2. i0 \in some /\ \A y \in some : i0 <= y
    BY <2>1, MinLeast
  <2>3. i0 \in 1 .. n /\ d[i0] < hi[i0]
    BY <1>8, <2>2
  <2> HIDE DEF i0
  <2>4. ASSUME NEW j \in 1 .. n, j < i0
        PROVE  d[j] = hi[j]
    <3>1. j \notin some
      BY <2>2, <2>3, <2>4
    <3>2. ~(d[j] < hi[j])
      BY <1>8, <3>1
    <3> QED
      BY <1>2, <3>2
  <2>5. Follows(n, 0, hi, d, w, i0)
    BY <2>3, <2>4 DEF Follows, w
  <2>6. ms = Digits(seqs, n, w)
    <3>1. ASSUME NEW i \in 1 .. n
          PROVE  ms[i] = Digit(seqs[i], w[i])
      <4>1. i = i0 => Advanced(x[i]) = Digit(seqs[i], d[i] + 1)
        BY <1>7, <2>3
      <4>2. x[i] = Digit(seqs[i], d[i]) /\ ResetMatrix(x[i]) = Digit(seqs[i], 0)
        BY <1>4, <1>7
      <4>3. /\ ms[i] = IF i < i0 THEN ResetMatrix(x[i]) ELSE IF i = i0 THEN Advanced(x[i]) ELSE x[i]
            /\ w[i] = IF i < i0 THEN 0 ELSE IF i = i0 THEN d[i] + 1 ELSE d[i]
        BY DEF ms, w
      <4> QED
        BY <4>1, <4>2, <4>3
    <3>2. ms = [i \in 1 .. n |-> ms[i]]
      BY DEF ms
    <3> QED
      BY <3>1, <3>2 DEF Digits
  <2>7. cs = Singles(seqs, n, w)
    <3>1. ASSUME NEW i \in 1 .. n
          PROVE  cs[i] = IF w[i] = 0 THEN <<>> ELSE <<seqs[i][w[i]]>>
      <4>1. i = i0 => NextConns(x[i]) = <<seqs[i][d[i] + 1]>> /\ d[i] + 1 # 0
        <5>1. i = i0 => d[i] # hi[i] /\ d[i] + 1 # 0
          BY <1>2, <2>3
        <5> QED
          BY <1>7, <5>1
      <4>2. c[i] = IF d[i] = 0 THEN <<>> ELSE <<seqs[i][d[i]]>>
        BY <1>4
      <4>3. /\ cs[i] = IF i < i0 THEN <<>> ELSE IF i = i0 THEN NextConns(x[i]) ELSE c[i]
            /\ w[i] = IF i < i0 THEN 0 ELSE IF i = i0 THEN d[i] + 1 ELSE d[i]
        BY DEF cs, w
      <4> QED
        BY <4>1, <4>2, <4>3
    <3>2. cs = [i \in 1 .. n |-> cs[i]]
      BY DEF cs
    <3> QED
      BY <3>1, <3>2 DEF Singles
  <2>8. /\ w \in Vectors(n, 0, hi)
        /\ \A u \in Vectors(n, 0, hi) : Before(n, u, w) <=> Before(n, u, d) \/ u = d
    BY <1>1, <2>5, FollowsFacts
  <2> QED
    BY <1>6, <2>6, <2>7, <2>8
<1>11. r.found <=> d # hi
  BY <1>5, <1>9
<1> QED
  BY <1>10, <1>11, Zenon DEF AfterDigits

-----------------------------------------------------------------------------
(* The combinations of connections                                         *)

\* The connections of n specifications, in the order of their iterators.
Listed(n, sets, seqs, hi) ==
  /\ n \in Nat
  /\ \A i \in 1 .. n : IsFiniteSet(sets[i]) /\ sets[i] # {}
  /\ seqs = [i \in 1 .. n |-> SetToSeq(sets[i])]
  /\ hi = [i \in 1 .. n |-> Len(seqs[i])]

\* The h elements of q are those of S, each once.
Enumerates(q, h, S) ==
  /\ h \in Nat /\ 1 <= h
  /\ \A j \in 1 .. h : q[j] \in S
  /\ \A j, k \in 1 .. h : q[j] = q[k] => j = k
  /\ \A x \in S : \E j \in 1 .. h : q[j] = x

LEMMA ListedFacts ==
  ASSUME NEW n, NEW sets, NEW seqs, NEW hi, Listed(n, sets, seqs, hi)
  PROVE  /\ Sized(n, seqs, hi)
         /\ \A i \in 1 .. n : Enumerates(seqs[i], hi[i], sets[i])
<1> /\ n \in Nat /\ seqs = [i \in 1 .. n |-> SetToSeq(sets[i])]
    /\ hi = [i \in 1 .. n |-> Len(seqs[i])]
  BY DEF Listed
<1>1. ASSUME NEW i \in 1 .. n
      PROVE  /\ Enumerates(seqs[i], hi[i], sets[i])
             /\ hi[i] \in Nat /\ 1 <= hi[i] /\ Len(seqs[i]) = hi[i]
  <2> DEFINE S == sets[i]
             q == SetToSeq(S)
             h == Len(q)
  <2>1. IsFiniteSet(S) /\ S # {}
    BY DEF Listed
  <2>2. q = seqs[i] /\ h = hi[i] /\ Len(seqs[i]) = hi[i]
    OBVIOUS
  <2> HIDE DEF S
  <2>3. /\ h \in Nat /\ q \in [1 .. h -> S]
        /\ \A j, k \in 1 .. h : q[j] = q[k] => j = k
        /\ \A x \in S : \E j \in 1 .. h : q[j] = x
    BY <2>1, SetToSeqOnce
  <2> HIDE DEF q, h
  <2>4. 1 <= h
    BY <2>1, <2>3
  <2>5. \A j \in 1 .. h : q[j] \in S
    BY <2>3
  <2>6. Enumerates(q, h, S)
    BY <2>3, <2>4, <2>5 DEF Enumerates
  <2> QED
    BY <2>2, <2>3, <2>4, <2>6 DEF S
<1>2. Sized(n, seqs, hi)
  <2>1. hi \in [1 .. n -> Nat] /\ \A i \in 1 .. n : 1 <= hi[i] /\ Len(seqs[i]) = hi[i]
    <3>1. hi = [i \in 1 .. n |-> hi[i]]
      OBVIOUS
    <3> QED
      BY <1>1, <3>1
  <2>2. Len(seqs) = n
    OBVIOUS
  <2> QED
    BY <2>1, <2>2 DEF Sized, Bounds
<1> QED
  BY <1>1, <1>2

\* The matrices of an invariant before its first connections.
LEMMA FirstMatrices ==
  ASSUME NEW n, NEW sets, NEW seqs, NEW hi, Listed(n, sets, seqs, hi),
         sets = [i \in 1 .. n |-> sets[i]]
  PROVE  /\ Matrix(sets) = At(seqs, [i \in 1 .. n |-> 1], FALSE)
         /\ [i \in DOMAIN sets |-> Matrix(<<sets[i]>>)] = Digits(seqs, n, [i \in 1 .. n |-> 0])
<1> seqs = [i \in 1 .. n |-> SetToSeq(sets[i])]
  BY DEF Listed
<1> Sized(n, seqs, hi)
  BY ListedFacts
<1> /\ n \in Nat /\ \A k \in 1 .. n : 1 <= hi[k] /\ hi[k] \in Nat /\ Len(seqs[k]) = hi[k]
  BY DEF Sized, Bounds
<1>1. DOMAIN sets = 1 .. n
  OBVIOUS
<1>2. Matrix(sets) = At(seqs, [i \in 1 .. n |-> 1], FALSE)
  BY <1>1 DEF Matrix, At
<1>3. ASSUME NEW i \in 1 .. n
      PROVE  Matrix(<<sets[i]>>) = Digit(seqs[i], 0)
  <2> DEFINE s == sets[i]
             one == <<s>>
             q == SetToSeq(s)
             h == Len(q)
  <2>1. q = seqs[i] /\ h \in Nat /\ 0 < h
    OBVIOUS
  <2>2. DOMAIN one = 1 .. 1 /\ one[1] = s
    OBVIOUS
  <2> HIDE DEF one, q, h
  <2>3. [j \in 1 .. 1 |-> SetToSeq(one[j])] = <<q>>
    BY <2>2 DEF q
  <2>4. [j \in 1 .. 1 |-> 1] = <<1>>
    OBVIOUS
  <2>5. Matrix(one) = At(<<q>>, <<1>>, FALSE)
    BY <2>2, <2>3, <2>4 DEF Matrix, At
  <2>6. (IF 0 < h THEN 0 + 1 ELSE 1) = 1 /\ (0 = h) = FALSE
    BY <2>1
  <2>7. Digit(q, 0) = At(<<q>>, <<1>>, FALSE)
    BY <2>6 DEF Digit, h
  <2> QED
    BY <2>1, <2>5, <2>7 DEF one, s
<1> QED
  BY <1>1, <1>2, <1>3 DEF Digits

\* Each combination is that of one vector.
LEMMA CombinationVector ==
  ASSUME NEW n, NEW sets, NEW seqs, NEW hi, Listed(n, sets, seqs, hi),
         NEW c, c = [i \in 1 .. n |-> c[i]], \A i \in 1 .. n : c[i] \in sets[i]
  PROVE  \E v \in Vectors(n, 1, hi) :
           /\ c = Vector(seqs, n, v)
           /\ \A u \in Vectors(n, 1, hi) : Vector(seqs, n, u) = c => u = v
<1>1. \A i \in 1 .. n : Enumerates(seqs[i], hi[i], sets[i])
  BY ListedFacts
<1> DEFINE v == [i \in 1 .. n |-> CHOOSE j \in 1 .. hi[i] : seqs[i][j] = c[i]]
<1>2. \A i \in 1 .. n : v[i] \in 1 .. hi[i] /\ seqs[i][v[i]] = c[i]
  <2> SUFFICES ASSUME NEW i \in 1 .. n
               PROVE  v[i] \in 1 .. hi[i] /\ seqs[i][v[i]] = c[i]
    OBVIOUS
  <2>1. \E j \in 1 .. hi[i] : seqs[i][j] = c[i]
    BY <1>1 DEF Enumerates
  <2> QED
    BY <2>1
<1>3. v = [i \in 1 .. n |-> v[i]]
  OBVIOUS
<1> HIDE DEF v
<1>4. v \in [1 .. n -> Nat] /\ \A i \in 1 .. n : 1 <= v[i] /\ v[i] <= hi[i]
  <2>1. \A i \in 1 .. n : v[i] \in Nat /\ 1 <= v[i] /\ v[i] <= hi[i]
    BY <1>1, <1>2 DEF Enumerates
  <2> QED
    BY <1>3, <2>1
<1>5. v \in Vectors(n, 1, hi)
  BY <1>4 DEF Vectors
<1>6. c = Vector(seqs, n, v)
  BY <1>2 DEF Vector
<1>7. ASSUME NEW u \in Vectors(n, 1, hi), Vector(seqs, n, u) = c
      PROVE  u = v
  <2>1. u \in [1 .. n -> Nat] /\ \A i \in 1 .. n : 1 <= u[i] /\ u[i] <= hi[i]
    BY DEF Vectors
  <2>2. ASSUME NEW i \in 1 .. n
        PROVE  u[i] = v[i]
    <3>1. u[i] \in 1 .. hi[i]
      BY <1>1, <2>1 DEF Enumerates
    <3>2. seqs[i][u[i]] = c[i]
      <4>1. Vector(seqs, n, u)[i] = seqs[i][u[i]]
        BY DEF Vector
      <4> QED
        BY <1>7, <4>1
    <3> QED
      BY <1>1, <1>2, <3>1, <3>2 DEF Enumerates
  <2>3. u = [i \in 1 .. n |-> u[i]] /\ v = [i \in 1 .. n |-> v[i]]
    BY <1>4, <2>1
  <2> QED
    BY <2>2, <2>3
<1> QED
  BY <1>5, <1>6, <1>7

\* Flattened, the connections of correlated invariants are a combination only if all
\* of them have one.
LEMMA SinglesFlatten ==
  ASSUME NEW n, n # 0, NEW sets, NEW seqs, NEW hi, Listed(n, sets, seqs, hi),
         NEW v \in Vectors(n, 0, hi)
  PROVE  /\ v \in Vectors(n, 1, hi) => FlattenSeq(Singles(seqs, n, v)) = Vector(seqs, n, v)
         /\ v \notin Vectors(n, 1, hi) => Len(FlattenSeq(Singles(seqs, n, v))) # n
<1> DEFINE X == UNION {sets[i] : i \in 1 .. n}
           s == Singles(seqs, n, v)
           f == FlattenSeq(s)
<1> n \in Nat
  BY DEF Listed
<1>1. \A i \in 1 .. n : hi[i] \in Nat /\ \A j \in 1 .. hi[i] : seqs[i][j] \in sets[i]
  BY ListedFacts DEF Enumerates
<1>2. v \in [1 .. n -> Nat] /\ \A i \in 1 .. n : v[i] <= hi[i]
  BY DEF Vectors
<1>3. s = [i \in 1 .. n |-> IF v[i] = 0 THEN <<>> ELSE <<seqs[i][v[i]]>>]
  BY DEF Singles
<1> HIDE DEF s
<1>4. ASSUME NEW i \in 1 .. n
      PROVE  /\ v[i] = 0 => s[i] = <<>>
             /\ v[i] # 0 => s[i] # <<>> /\ s[i][1] = seqs[i][v[i]]
             /\ s[i] = <<>> \/ \E x \in X : s[i] = <<x>>
  <2>1. CASE v[i] = 0
    BY <1>3, <2>1
  <2>2. CASE v[i] # 0
    <3> DEFINE x == seqs[i][v[i]]
    <3>1. v[i] \in 1 .. hi[i]
      BY <1>1, <1>2, <2>2
    <3>2. x \in X
      BY <1>1, <3>1
    <3>3. s[i] = <<x>>
      BY <1>3, <2>2
    <3> HIDE DEF X
    <3> QED
      BY <2>2, <3>2, <3>3
  <2> QED
    BY <2>1, <2>2
<1> HIDE DEF X
<1>5. Units(n, X, s)
  <2>1. \A i \in 1 .. n : s[i] \in Seq(X)
    <3> SUFFICES ASSUME NEW i \in 1 .. n PROVE s[i] \in Seq(X)
      OBVIOUS
    <3> DEFINE t == s[i]
    <3>1. t = <<>> \/ \E x \in X : t = <<x>>
      BY <1>4
    <3> HIDE DEF t
    <3>2. t \in Seq(X)
      <4>1. \A x \in X : <<x>> \in Seq(X)
        OBVIOUS
      <4>2. <<>> \in Seq(X)
        OBVIOUS
      <4> QED
        BY <3>1, <4>1, <4>2
    <3> QED
      BY <3>2 DEF t
  <2>2. s = [i \in 1 .. n |-> s[i]]
    BY <1>3
  <2>3. s \in [1 .. n -> Seq(X)]
    BY <2>1, <2>2
  <2> QED
    BY <1>4, <2>3 DEF Units
<1>6. /\ f \in Seq(X)
      /\ Len(f) = n <=> \A i \in 1 .. n : s[i] # <<>>
      /\ Len(f) = n => \A i \in 1 .. n : f[i] = s[i][1]
  BY <1>5, FlattenUnits
<1> HIDE DEF f
<1>7. v \in Vectors(n, 1, hi) <=> \A i \in 1 .. n : v[i] # 0
  <2>1. \A i \in 1 .. n : v[i] # 0 <=> 1 <= v[i]
    BY <1>2
  <2> QED
    BY <1>2, <2>1 DEF Vectors
<1>8. (\A i \in 1 .. n : v[i] # 0) <=> \A i \in 1 .. n : s[i] # <<>>
  BY <1>4
<1>9. ASSUME Len(f) = n, \A i \in 1 .. n : v[i] # 0
      PROVE  f = Vector(seqs, n, v)
  <2>1. f = [i \in 1 .. n |-> f[i]]
    BY <1>6, <1>9
  <2>2. \A i \in 1 .. n : f[i] = seqs[i][v[i]]
    BY <1>4, <1>6, <1>9
  <2> QED
    BY <2>1, <2>2 DEF Vector
<1> QED
  BY <1>6, <1>7, <1>8, <1>9 DEF f, s
=============================================================================
