---------------------------- MODULE QueueTheorems ----------------------------
(***************************************************************************)
(* Facts about Min, Max, RemoveAt and InsertAt of the community modules,   *)
(* and about the order of elements in a sequence.                          *)
(***************************************************************************)
EXTENDS Naturals, Integers, Sequences, FiniteSets, SequencesExt, SequenceTheorems,
        WellFoundedInduction, TLAPS

\* A non-empty set of naturals has a smallest element, and Min finds it.
LEMMA MinInSet ==
    ASSUME NEW S, S \subseteq Nat, S # {}
    PROVE  Min(S) \in S /\ \A y \in S : Min(S) <= y
<1>1. \E x \in S : \A y \in S : ~(<<y, x>> \in OpToRel(<, Nat))
  BY WFMin, NatLessThanWellFounded
<1>2. OpToRel(<, Nat) = {ss \in Nat \X Nat : ss[1] < ss[2]}
  BY DEF OpToRel
<1>3. \E x \in S : \A y \in S : ~(<<y, x>> \in {ss \in Nat \X Nat : ss[1] < ss[2]})
  BY <1>1, <1>2, Zenon
<1>4. PICK x \in S : \A y \in S : ~(<<y, x>> \in {ss \in Nat \X Nat : ss[1] < ss[2]})
  BY <1>3
<1>5. ASSUME NEW y \in S
      PROVE  x <= y
  <2>1. <<y, x>> \in Nat \X Nat /\ <<y, x>>[1] = y /\ <<y, x>>[2] = x
    OBVIOUS
  <2>2. ~(y < x)
    BY <2>1, <1>4, Zenon
  <2> QED
    BY <2>2
<1> QED
  BY <1>5 DEF Min

\* A non-empty set of positions has a largest one, and Max finds it.
LEMMA MaxInSet ==
    ASSUME NEW n \in Nat, NEW S, S \subseteq 1..n, S # {}
    PROVE  Max(S) \in S /\ \A j \in S : j <= Max(S)
<1>1. PICK T : T = {n - i : i \in S}
  OBVIOUS
<1>2. T \subseteq Nat
  BY <1>1
<1>3. T # {}
  BY <1>1
<1>4. Min(T) \in T /\ \A y \in T : Min(T) <= y
  BY <1>2, <1>3, MinInSet
<1>5. PICK i \in S : Min(T) = n - i
  BY <1>1, <1>4
<1>6. \A j \in S : n - i <= n - j
  BY <1>1, <1>4, <1>5
<1>7. \A j \in S : i >= j
  BY <1>6
<1> QED
  BY <1>7 DEF Max

\* What RemoveAt returns: all other elements, in order.
LEMMA RemoveAtProperties ==
    ASSUME NEW S, NEW q \in Seq(S), NEW i \in 1..Len(q)
    PROVE  /\ RemoveAt(q, i) \in Seq(S)
           /\ Len(RemoveAt(q, i)) = Len(q) - 1
           /\ \A j \in 1..(Len(q) - 1) :
                 RemoveAt(q, i)[j] = IF j < i THEN q[j] ELSE q[j + 1]
<1>1. PICK a : a = SubSeq(q, 1, i - 1)
  OBVIOUS
<1>2. PICK b : b = SubSeq(q, i + 1, Len(q))
  OBVIOUS
<1>3. a \in Seq(S) /\ Len(a) = i - 1 /\ \A j \in 1..(i - 1) : a[j] = q[j]
  BY <1>1, SubSeqProperties
<1>4. b \in Seq(S) /\ Len(b) = Len(q) - i /\ \A j \in 1..(Len(q) - i) : b[j] = q[i + j]
  BY <1>2, SubSeqProperties
<1>5. PICK r : r = a \o b
  OBVIOUS
<1>6. /\ r \in Seq(S)
      /\ Len(r) = Len(a) + Len(b)
      /\ \A j \in 1..(Len(a) + Len(b)) : r[j] = IF j <= Len(a) THEN a[j] ELSE b[j - Len(a)]
  BY <1>3, <1>4, <1>5, ConcatProperties
<1>7. RemoveAt(q, i) = r
  BY <1>1, <1>2, <1>5 DEF RemoveAt
<1>8. /\ Len(r) = Len(q) - 1
      /\ \A j \in 1..(Len(q) - 1) : r[j] = IF j <= i - 1 THEN a[j] ELSE b[j - i + 1]
  BY <1>3, <1>4, <1>6
<1>9. ASSUME NEW j \in 1..(Len(q) - 1)
      PROVE  r[j] = IF j < i THEN q[j] ELSE q[j + 1]
  <2>1. CASE j < i
    BY <2>1, <1>3, <1>8
  <2>2. CASE j >= i
    <3>1. r[j] = b[j - i + 1]
      BY <2>2, <1>8
    <3>2. j - i + 1 \in 1..(Len(q) - i) /\ i + (j - i + 1) = j + 1
      BY <2>2
    <3>3. b[j - i + 1] = q[i + (j - i + 1)]
      BY <3>2, <1>4
    <3> QED
      BY <2>2, <3>1, <3>2, <3>3
  <2> QED
    BY <2>1, <2>2
<1> QED
  BY <1>6, <1>7, <1>8, <1>9

\* What InsertAt returns: the new element at its position, the others in order.
LEMMA InsertAtProperties ==
    ASSUME NEW S, NEW q \in Seq(S), NEW i \in 1..(Len(q) + 1), NEW e \in S
    PROVE  /\ InsertAt(q, i, e) \in Seq(S)
           /\ Len(InsertAt(q, i, e)) = Len(q) + 1
           /\ \A j \in 1..(Len(q) + 1) :
                 InsertAt(q, i, e)[j] = IF j < i THEN q[j] ELSE IF j = i THEN e ELSE q[j - 1]
<1>1. PICK a : a = SubSeq(q, 1, i - 1)
  OBVIOUS
<1>2. PICK b : b = SubSeq(q, i, Len(q))
  OBVIOUS
<1>3. PICK m : m = <<e>>
  OBVIOUS
<1>4. a \in Seq(S) /\ Len(a) = i - 1 /\ \A j \in 1..(i - 1) : a[j] = q[j]
  BY <1>1, SubSeqProperties
<1>5. /\ b \in Seq(S) /\ Len(b) = Len(q) - i + 1
      /\ \A j \in 1..(Len(q) - i + 1) : b[j] = q[i + j - 1]
  BY <1>2, SubSeqProperties
<1>6. m \in Seq(S) /\ Len(m) = 1 /\ m[1] = e
  BY <1>3
<1>7. PICK am : am = a \o m
  OBVIOUS
<1>8. /\ am \in Seq(S)
      /\ Len(am) = Len(a) + Len(m)
      /\ \A j \in 1..(Len(a) + Len(m)) : am[j] = IF j <= Len(a) THEN a[j] ELSE m[j - Len(a)]
  BY <1>4, <1>6, <1>7, ConcatProperties
<1>9. PICK r : r = am \o b
  OBVIOUS
<1>. am \in Seq(S) /\ b \in Seq(S)
  BY <1>5, <1>8
<1>10. /\ r \in Seq(S)
       /\ Len(r) = Len(am) + Len(b)
       /\ \A j \in 1..(Len(am) + Len(b)) : r[j] = IF j <= Len(am) THEN am[j] ELSE b[j - Len(am)]
  BY <1>9, ConcatProperties
<1>11. InsertAt(q, i, e) = r
  BY <1>1, <1>2, <1>3, <1>7, <1>9 DEF InsertAt
<1>12. /\ Len(r) = Len(q) + 1
       /\ \A j \in 1..i : am[j] = IF j <= i - 1 THEN a[j] ELSE e
       /\ \A j \in 1..(Len(q) + 1) : r[j] = IF j <= i THEN am[j] ELSE b[j - i]
  BY <1>4, <1>5, <1>6, <1>8, <1>10
<1>13. ASSUME NEW j \in 1..(Len(q) + 1)
       PROVE  r[j] = IF j < i THEN q[j] ELSE IF j = i THEN e ELSE q[j - 1]
  <2>1. CASE j < i
    BY <2>1, <1>4, <1>12
  <2>2. CASE j = i
    BY <2>2, <1>12
  <2>3. CASE j > i
    <3>1. r[j] = b[j - i]
      BY <2>3, <1>12
    <3>2. j - i \in 1..(Len(q) - i + 1) /\ i + (j - i) - 1 = j - 1
      BY <2>3
    <3>3. b[j - i] = q[i + (j - i) - 1]
      BY <3>2, <1>5
    <3> QED
      BY <2>3, <3>1, <3>2, <3>3
  <2> QED
    BY <2>1, <2>2, <2>3
<1> QED
  BY <1>10, <1>11, <1>12, <1>13

\* Every value has at most one position in q.
Once(q) == \A i, j \in 1..Len(q) : q[i] = q[j] => i = j

\* Some s is in front of some t.
AheadIn(q, s, t) == \E i, j \in 1..Len(q) : i < j /\ q[i] = s /\ q[j] = t

\* A subsequence, described by the positions that its elements have in q, keeps
\* the order of its elements.
LEMMA SubsequenceOrder ==
    ASSUME NEW S, NEW q \in Seq(S), NEW r \in Seq(S),
           NEW m \in [1..Len(r) -> 1..Len(q)],
           \A i \in 1..Len(r) : r[i] = q[m[i]],
           \A i, j \in 1..Len(r) : i < j => m[i] < m[j],
           Once(q)
    PROVE  \A i, j \in 1..Len(r) : AheadIn(r, r[i], r[j]) <=> AheadIn(q, r[i], r[j])
<1> SUFFICES ASSUME NEW i \in 1..Len(r), NEW j \in 1..Len(r)
             PROVE  AheadIn(r, r[i], r[j]) <=> AheadIn(q, r[i], r[j])
  OBVIOUS
<1>1. Len(r) \in Nat /\ Len(q) \in Nat
  OBVIOUS
<1>2. ASSUME AheadIn(r, r[i], r[j])
      PROVE  AheadIn(q, r[i], r[j])
  <2>1. PICK a \in 1..Len(r), b \in 1..Len(r) : a < b /\ r[a] = r[i] /\ r[b] = r[j]
    BY <1>2 DEF AheadIn
  <2>2. m[a] \in 1..Len(q) /\ m[b] \in 1..Len(q) /\ m[a] < m[b]
    BY <2>1
  <2>3. q[m[a]] = r[i] /\ q[m[b]] = r[j]
    BY <2>1
  <2> QED
    BY <2>2, <2>3 DEF AheadIn
<1>3. ASSUME AheadIn(q, r[i], r[j])
      PROVE  AheadIn(r, r[i], r[j])
  <2>1. PICK a \in 1..Len(q), b \in 1..Len(q) : a < b /\ q[a] = r[i] /\ q[b] = r[j]
    BY <1>3 DEF AheadIn
  <2>2. m[i] \in 1..Len(q) /\ m[j] \in 1..Len(q) /\ q[m[i]] = r[i] /\ q[m[j]] = r[j]
    OBVIOUS
  <2>3. a = m[i] /\ b = m[j]
    BY <2>1, <2>2 DEF Once
  <2>4. ~(m[j] < m[i]) /\ m[i] # m[j]
    BY <2>1, <2>2, <2>3
  <2>5. i < j
    BY <1>1, <2>4
  <2> QED
    BY <2>5 DEF AheadIn
<1> QED
  BY <1>2, <1>3

\* Removing an element keeps the order of the others.
LEMMA RemoveAtOrder ==
    ASSUME NEW S, NEW q \in Seq(S), NEW e \in 1..Len(q), Once(q)
    PROVE  LET r == RemoveAt(q, e)
           IN  \A i, j \in 1..Len(r) : AheadIn(r, r[i], r[j]) <=> AheadIn(q, r[i], r[j])
<1>1. PICK r : r = RemoveAt(q, e)
  OBVIOUS
<1>2. /\ r \in Seq(S) /\ Len(r) = Len(q) - 1 /\ Len(q) \in Nat
      /\ \A j \in 1..(Len(q) - 1) : r[j] = IF j < e THEN q[j] ELSE q[j + 1]
  BY <1>1, RemoveAtProperties
<1>3. PICK m : m = [i \in 1..Len(r) |-> IF i < e THEN i ELSE i + 1]
  OBVIOUS
<1>4. m \in [1..Len(r) -> 1..Len(q)]
  BY <1>2, <1>3
<1>5. \A i \in 1..Len(r) : r[i] = q[m[i]]
  BY <1>2, <1>3
<1>6. \A i, j \in 1..Len(r) : i < j => m[i] < m[j]
  BY <1>2, <1>3
<1>7. \A i, j \in 1..Len(r) : AheadIn(r, r[i], r[j]) <=> AheadIn(q, r[i], r[j])
  BY <1>2, <1>4, <1>5, <1>6, SubsequenceOrder
<1> QED
  BY <1>1, <1>7

\* A suffix has the order of the whole sequence.
LEMMA SuffixOrder ==
    ASSUME NEW S, NEW q \in Seq(S), NEW r \in Seq(S), NEW n \in Nat, Once(q),
           \A i \in 1..Len(r) : r[i] = q[n + i] /\ n + i \in 1..Len(q)
    PROVE  \A i, j \in 1..Len(r) : AheadIn(r, r[i], r[j]) <=> AheadIn(q, r[i], r[j])
<1>1. Len(r) \in Nat /\ Len(q) \in Nat
  OBVIOUS
<1>2. PICK m : m = [i \in 1..Len(r) |-> n + i]
  OBVIOUS
<1>3. m \in [1..Len(r) -> 1..Len(q)]
  BY <1>2
<1>4. \A i \in 1..Len(r) : r[i] = q[m[i]]
  BY <1>2
<1>5. \A i, j \in 1..Len(r) : i < j => m[i] < m[j]
  BY <1>1, <1>2
<1> QED
  BY <1>3, <1>4, <1>5, SubsequenceOrder

\* Inserting an element keeps the order of the others, and tells where it is.
LEMMA InsertAtOrder ==
    ASSUME NEW S, NEW q \in Seq(S), NEW p \in 1..(Len(q) + 1), NEW e \in S,
           Once(InsertAt(q, p, e))
    PROVE  LET r == InsertAt(q, p, e)
           IN  /\ \A i, j \in 1..Len(q) : AheadIn(q, q[i], q[j]) <=> AheadIn(r, q[i], q[j])
               /\ \A i \in 1..Len(q) : i < p => AheadIn(r, q[i], e) /\ ~AheadIn(r, e, q[i])
               /\ \E i \in 1..Len(r) : r[i] = e
               /\ \A i \in 1..Len(q) : \E j \in 1..Len(r) : r[j] = q[i]
<1>1. PICK r : r = InsertAt(q, p, e)
  OBVIOUS
<1>2. /\ r \in Seq(S) /\ Len(r) = Len(q) + 1 /\ Len(q) \in Nat
      /\ \A j \in 1..(Len(q) + 1) : r[j] = IF j < p THEN q[j] ELSE IF j = p THEN e ELSE q[j - 1]
  <2>1. /\ InsertAt(q, p, e) \in Seq(S)
        /\ Len(InsertAt(q, p, e)) = Len(q) + 1
        /\ \A j \in 1..(Len(q) + 1) :
              InsertAt(q, p, e)[j] = IF j < p THEN q[j] ELSE IF j = p THEN e ELSE q[j - 1]
    BY InsertAtProperties, SMTT(60)
  <2>2. Len(q) \in Nat
    OBVIOUS
  <2> QED
    BY <1>1, <2>1, <2>2, Zenon
<1>3. PICK m : m = [i \in 1..Len(q) |-> IF i < p THEN i ELSE i + 1]
  OBVIOUS
<1>4. m \in [1..Len(q) -> 1..Len(r)]
  BY <1>2, <1>3
<1>5. ASSUME NEW i \in 1..Len(q)
      PROVE  q[i] = r[m[i]]
  <2>1. CASE i < p
    BY <1>2, <1>3, <2>1
  <2>2. CASE ~(i < p)
    <3>1. m[i] = i + 1 /\ i + 1 \in 1..(Len(q) + 1) /\ ~(i + 1 < p) /\ i + 1 # p /\ (i + 1) - 1 = i
      BY <1>2, <1>3, <2>2
    <3> QED
      BY <1>2, <3>1
  <2> QED
    BY <2>1, <2>2
<1>6. \A i, j \in 1..Len(q) : i < j => m[i] < m[j]
  BY <1>2, <1>3
<1>7. Once(r)
  BY <1>1
<1>8. \A i, j \in 1..Len(q) : AheadIn(q, q[i], q[j]) <=> AheadIn(r, q[i], q[j])
  BY <1>2, <1>4, <1>5, <1>6, <1>7, SubsequenceOrder
<1>9. p \in 1..Len(r) /\ r[p] = e
  BY <1>2
<1>10. ASSUME NEW i \in 1..Len(q), i < p
       PROVE  AheadIn(r, q[i], e) /\ ~AheadIn(r, e, q[i])
  <2>1. i \in 1..Len(r) /\ r[i] = q[i]
    BY <1>2, <1>10
  <2>2. AheadIn(r, q[i], e)
    BY <1>9, <1>10, <2>1 DEF AheadIn
  <2>3. ASSUME AheadIn(r, e, q[i])
        PROVE  FALSE
    <3>1. PICK a \in 1..Len(r), b \in 1..Len(r) : a < b /\ r[a] = e /\ r[b] = q[i]
      BY <2>3 DEF AheadIn
    <3>2. a = p /\ b = i
      BY <1>7, <1>9, <2>1, <3>1 DEF Once
    <3> QED
      BY <1>2, <1>10, <3>1, <3>2
  <2> QED
    BY <2>2, <2>3
<1>11. \A i \in 1..Len(q) : \E j \in 1..Len(r) : r[j] = q[i]
  BY <1>4, <1>5
<1> QED
  BY <1>1, <1>8, <1>9, <1>10, <1>11

=============================================================================
