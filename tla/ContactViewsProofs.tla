------------------------- MODULE ContactViewsProofs -------------------------
(***************************************************************************)
(* Proofs about ContactViews, for every set of contacts and values, every  *)
(* limit and every number of changes and calls.                            *)
(*                                                                         *)
(* The argument goes from the client to the full view.  A ViewResource     *)
(* (r) whose client is not misled follows a list of contacts: what the     *)
(* client has, with the pending change applied, is that list, with current *)
(* data or none (Follows).  handleChange() and flushChanges() preserve     *)
(* this for every signal that describes a change of the list               *)
(* (HandledChange).  The list is given by the mapping of the FilteredView  *)
(* and by who is at which index of the full view (Consistent), and each of *)
(* the signals of the full view keeps these in line (AddKeeps, RemoveKeeps,*)
(* ModifyKeeps).  The invariant adds which contacts the view has, as far   *)
(* as the running callback got (Exact, LoopOK), and that the full view is  *)
(* sorted and has each contact once (FullOK).  While setCompare() tells    *)
(* about the new order, the view is in line with a mixture of the new and  *)
(* the old order (Held).                                                   *)
(***************************************************************************)
EXTENDS ContactViews, QueueTheorems, FiniteSetTheorems

(***************************************************************************)
(* Sequences, and what a client makes of a change (Apply).                 *)
(***************************************************************************)

\* A function on 1..n is a sequence of length n.
LEMMA FunctionIsSeq ==
    ASSUME NEW S, NEW n \in Nat, NEW f \in [1..n -> S]
    PROVE  f \in Seq(S) /\ Len(f) = n /\ DOMAIN f = 1..n
  OBVIOUS

\* Domain and elements of a sequence.
LEMMA SeqFacts ==
    ASSUME NEW S, NEW q \in Seq(S)
    PROVE  Len(q) \in Nat /\ DOMAIN q = 1..Len(q) /\ \A i \in 1..Len(q) : q[i] \in S
  OBVIOUS

\* A set of positions that has all smaller ones with each of them is a prefix.
LEMMA PrefixCardinality ==
    ASSUME NEW n \in Nat, NEW S, S \subseteq 1..n,
           \A i \in S, j \in 1..n : j < i => j \in S
    PROVE  Cardinality(S) \in 0..n /\ \A i \in 1..n : i \in S <=> i <= Cardinality(S)
<1>1. CASE S = {}
  <2>1. Cardinality(S) = 0
    BY <1>1, FS_EmptySet
  <2> QED
    BY <1>1, <2>1
<1>2. CASE S # {}
  <2>1. PICK k : k = Max(S)
    OBVIOUS
  <2>2. k \in S /\ \A j \in S : j <= k
    BY <1>2, <2>1, MaxInSet
  <2>3. k \in 1..n
    BY <2>2
  <2>4. \A j \in S : j \in 1..k
    BY <2>2, <2>3
  <2>8. ASSUME NEW j \in 1..k
        PROVE  j \in S
    <3>1. j \in 1..n /\ (j = k \/ j < k)
      BY <2>3
    <3> QED
      BY <2>2, <3>1
  <2>7. S = 1..k
    BY <2>4, <2>8, Zenon
  <2>5. Cardinality(1..k) = k
    BY <2>3, FS_Interval
  <2>6. Cardinality(S) = k
    BY <2>7, <2>5
  <2> QED
    BY <2>3, <2>6, <2>7
<1> QED
  BY <1>1, <1>2

\* The first n elements, and those behind.
LEMMA TakeProperties ==
    ASSUME NEW S, NEW q \in Seq(S), NEW n \in Nat, n <= Len(q)
    PROVE  /\ Take(q, n) \in Seq(S) /\ Len(Take(q, n)) = n
           /\ \A i \in 1..n : Take(q, n)[i] = q[i]
<1>1. Take(q, n) = SubSeq(q, 1, n)
  BY DEF Take
<1> QED
  BY <1>1, SubSeqProperties

\* Length and elements of what Drop() leaves.
LEMMA DropProperties ==
    ASSUME NEW S, NEW q \in Seq(S), NEW n \in Nat, n <= Len(q)
    PROVE  /\ Drop(q, n) \in Seq(S) /\ Len(Drop(q, n)) = Len(q) - n
           /\ \A i \in 1..(Len(q) - n) : Drop(q, n)[i] = q[n + i]
<1>1. /\ SubSeq(q, n + 1, Len(q)) \in Seq(S)
      /\ Len(SubSeq(q, n + 1, Len(q))) = Len(q) - n
      /\ \A i \in 1..(Len(q) - n) : SubSeq(q, n + 1, Len(q))[i] = q[n + i]
  BY SubSeqProperties
<1> QED
  BY <1>1 DEF Drop

\* Length and elements of a list put together from three parts, as in Apply().
LEMMA ConcatThree ==
    ASSUME NEW S, NEW a \in Seq(S), NEW b \in Seq(S), NEW c \in Seq(S)
    PROVE  /\ a \o b \o c \in Seq(S)
           /\ Len(a \o b \o c) = Len(a) + Len(b) + Len(c)
           /\ \A i \in 1..Len(a) : (a \o b \o c)[i] = a[i]
           /\ \A i \in 1..Len(b) : (a \o b \o c)[Len(a) + i] = b[i]
           /\ \A i \in 1..Len(c) : (a \o b \o c)[Len(a) + Len(b) + i] = c[i]
<1>1. PICK d : d = a \o b
  OBVIOUS
<1>2. /\ d \in Seq(S) /\ Len(d) = Len(a) + Len(b)
      /\ \A i \in 1..(Len(a) + Len(b)) : d[i] = IF i <= Len(a) THEN a[i] ELSE b[i - Len(a)]
  BY <1>1, ConcatProperties
<1>3. PICK r : r = d \o c
  OBVIOUS
<1>4. /\ r \in Seq(S) /\ Len(r) = Len(d) + Len(c)
      /\ \A i \in 1..(Len(d) + Len(c)) : r[i] = IF i <= Len(d) THEN d[i] ELSE c[i - Len(d)]
  <2>1. d \in Seq(S)
    BY <1>2
  <2> QED
    BY <1>3, <2>1, ConcatProperties
<1>5. Len(a) \in Nat /\ Len(b) \in Nat /\ Len(c) \in Nat
  OBVIOUS
<1>6. \A i \in 1..Len(a) : r[i] = a[i]
  BY <1>2, <1>4, <1>5
<1>7. ASSUME NEW i \in 1..Len(b)
      PROVE  r[Len(a) + i] = b[i]
  <2>1. Len(a) + i \in 1..(Len(a) + Len(b)) /\ ~(Len(a) + i <= Len(a)) /\ (Len(a) + i) - Len(a) = i
    BY <1>5
  <2>2. r[Len(a) + i] = d[Len(a) + i]
    BY <1>2, <1>4, <1>5, <2>1
  <2> QED
    BY <1>2, <2>1, <2>2
<1>8. ASSUME NEW i \in 1..Len(c)
      PROVE  r[Len(a) + Len(b) + i] = c[i]
  <2>1. /\ Len(d) + i \in 1..(Len(d) + Len(c)) /\ ~(Len(d) + i <= Len(d)) /\ (Len(d) + i) - Len(d) = i
        /\ Len(a) + Len(b) + i = Len(d) + i
    BY <1>2, <1>5
  <2> QED
    BY <1>4, <2>1
<1>9. a \o b \o c = r
  BY <1>1, <1>3
<1> QED
  BY <1>2, <1>4, <1>6, <1>7, <1>8, <1>9

\* What the client has for a contact, and what it has before reading it.
AgentEntry == [id : Contacts, data : Values \cup {Unread}]
Untold(id) == [id |-> id, data |-> Unread]

\* The entries which a client adds for the IDs of a change.
LEMMA NewEntries ==
    ASSUME NEW ids \in Seq(Contacts), NEW new, new = [i \in 1..Len(ids) |-> [id |-> ids[i], data |-> Unread]]
    PROVE  new \in Seq(AgentEntry) /\ Len(new) = Len(ids) /\ \A i \in 1..Len(ids) : new[i] = Untold(ids[i])
<1>1. Len(ids) \in Nat /\ \A i \in 1..Len(ids) : ids[i] \in Contacts
  OBVIOUS
<1>2. \A i \in 1..Len(ids) : new[i] = Untold(ids[i])
  BY <1>1 DEF Untold
<1>3. new \in [1..Len(ids) -> AgentEntry]
  BY <1>1 DEF AgentEntry
<1> QED
  BY <1>1, <1>2, <1>3, FunctionIsSeq

\* What a client makes of a change.
LEMMA ApplyAdded ==
    ASSUME NEW a \in Seq(AgentEntry), NEW c \in Change, c.call = "added", c.start <= Len(a)
    PROVE  /\ Apply(a, c) \in Seq(AgentEntry)
           /\ Len(Apply(a, c)) = Len(a) + Len(c.ids)
           /\ \A i \in 1..Len(Apply(a, c)) :
                 Apply(a, c)[i] = IF i <= c.start THEN a[i]
                                  ELSE IF i <= c.start + Len(c.ids) THEN Untold(c.ids[i - c.start])
                                  ELSE a[i - Len(c.ids)]
<1>1. c.ids \in Seq(Contacts) /\ c.start \in Nat /\ Len(c.ids) \in Nat /\ Len(a) \in Nat
  BY DEF Change
<1>2. CASE Len(c.ids) = 0
  <2>1. Apply(a, c) = a
    BY <1>2 DEF Apply
  <2> QED
    BY <1>1, <1>2, <2>1
<1>3. CASE Len(c.ids) # 0
  <2>1. PICK new : new = [i \in 1..Len(c.ids) |-> [id |-> c.ids[i], data |-> Unread]]
    OBVIOUS
  <2>2. new \in Seq(AgentEntry) /\ Len(new) = Len(c.ids) /\ \A i \in 1..Len(c.ids) : new[i] = Untold(c.ids[i])
    BY <1>1, <2>1, NewEntries
  <2>3. PICK t : t = Take(a, c.start)
    OBVIOUS
  <2>4. PICK d : d = Drop(a, c.start)
    OBVIOUS
  <2>5. t \in Seq(AgentEntry) /\ Len(t) = c.start /\ \A i \in 1..c.start : t[i] = a[i]
    BY <1>1, <2>3, TakeProperties
  <2>6. d \in Seq(AgentEntry) /\ Len(d) = Len(a) - c.start /\ \A i \in 1..(Len(a) - c.start) : d[i] = a[c.start + i]
    BY <1>1, <2>4, DropProperties
  <2>7. PICK r : r = t \o new \o d
    OBVIOUS
  <2>8. Apply(a, c) = r
    BY <1>3, <2>1, <2>3, <2>4, <2>7 DEF Apply
  <2>9. /\ r \in Seq(AgentEntry)
        /\ Len(r) = Len(t) + Len(new) + Len(d)
        /\ \A i \in 1..Len(t) : r[i] = t[i]
        /\ \A i \in 1..Len(new) : r[Len(t) + i] = new[i]
        /\ \A i \in 1..Len(d) : r[Len(t) + Len(new) + i] = d[i]
    <3>1. t \in Seq(AgentEntry) /\ new \in Seq(AgentEntry) /\ d \in Seq(AgentEntry)
      BY <2>2, <2>5, <2>6
    <3> QED
      BY <2>7, <3>1, ConcatThree
  <2>10. Len(r) = Len(a) + Len(c.ids)
    BY <1>1, <2>2, <2>5, <2>6, <2>9
  <2>11. ASSUME NEW i \in 1..Len(r)
         PROVE  r[i] = IF i <= c.start THEN a[i]
                       ELSE IF i <= c.start + Len(c.ids) THEN Untold(c.ids[i - c.start])
                       ELSE a[i - Len(c.ids)]
    <3>1. CASE i <= c.start
      BY <1>1, <2>5, <2>9, <3>1
    <3>2. CASE ~(i <= c.start) /\ i <= c.start + Len(c.ids)
      <4>1. i - c.start \in 1..Len(c.ids) /\ c.start + (i - c.start) = i
        BY <1>1, <3>2
      <4>2. r[c.start + (i - c.start)] = new[i - c.start]
        BY <2>2, <2>5, <2>9, <4>1
      <4> QED
        BY <2>2, <3>2, <4>1, <4>2
    <3>3. CASE ~(i <= c.start) /\ ~(i <= c.start + Len(c.ids))
      <4>1. /\ i - c.start - Len(c.ids) \in 1..(Len(a) - c.start)
            /\ c.start + Len(c.ids) + (i - c.start - Len(c.ids)) = i
            /\ c.start + (i - c.start - Len(c.ids)) = i - Len(c.ids)
        BY <1>1, <2>10, <3>3, SMTT(30)
      <4>2. r[c.start + Len(c.ids) + (i - c.start - Len(c.ids))] = d[i - c.start - Len(c.ids)]
        BY <2>2, <2>5, <2>6, <2>9, <4>1
      <4>3. d[i - c.start - Len(c.ids)] = a[i - Len(c.ids)]
        BY <2>6, <4>1
      <4> QED
        BY <3>3, <4>1, <4>2, <4>3
    <3> QED
      BY <3>1, <3>2, <3>3
  <2> QED
    BY <2>8, <2>9, <2>10, <2>11
<1> QED
  BY <1>2, <1>3

\* The client forgets what it has read of modified contacts.
LEMMA ApplyModified ==
    ASSUME NEW a \in Seq(AgentEntry), NEW c \in Change, c.call = "modified", c.start + Len(c.ids) <= Len(a)
    PROVE  /\ Apply(a, c) \in Seq(AgentEntry)
           /\ Len(Apply(a, c)) = Len(a)
           /\ \A i \in 1..Len(Apply(a, c)) :
                 Apply(a, c)[i] = IF c.start < i /\ i <= c.start + Len(c.ids)
                                  THEN Untold(c.ids[i - c.start]) ELSE a[i]
<1>1. c.ids \in Seq(Contacts) /\ c.start \in Nat /\ Len(c.ids) \in Nat /\ Len(a) \in Nat
  BY DEF Change
<1>2. CASE Len(c.ids) = 0
  <2>1. Apply(a, c) = a
    BY <1>2 DEF Apply
  <2> QED
    BY <1>1, <1>2, <2>1
<1>3. CASE Len(c.ids) # 0
  <2>1. PICK new : new = [i \in 1..Len(c.ids) |-> [id |-> c.ids[i], data |-> Unread]]
    OBVIOUS
  <2>2. new \in Seq(AgentEntry) /\ Len(new) = Len(c.ids) /\ \A i \in 1..Len(c.ids) : new[i] = Untold(c.ids[i])
    BY <1>1, <2>1, NewEntries
  <2>3. PICK t : t = Take(a, c.start)
    OBVIOUS
  <2>4. PICK n : n = c.start + Len(c.ids)
    OBVIOUS
  <2>5. n \in Nat /\ n <= Len(a) /\ c.start <= Len(a)
    BY <1>1, <2>4
  <2>6. PICK d : d = Drop(a, n)
    OBVIOUS
  <2>7. t \in Seq(AgentEntry) /\ Len(t) = c.start /\ \A i \in 1..c.start : t[i] = a[i]
    BY <1>1, <2>3, <2>5, TakeProperties
  <2>8. d \in Seq(AgentEntry) /\ Len(d) = Len(a) - n /\ \A i \in 1..(Len(a) - n) : d[i] = a[n + i]
    BY <1>1, <2>5, <2>6, DropProperties
  <2>9. PICK r : r = t \o new \o d
    OBVIOUS
  <2>10. Apply(a, c) = r
    BY <1>3, <2>1, <2>3, <2>4, <2>6, <2>9 DEF Apply
  <2>11. /\ r \in Seq(AgentEntry)
         /\ Len(r) = Len(t) + Len(new) + Len(d)
         /\ \A i \in 1..Len(t) : r[i] = t[i]
         /\ \A i \in 1..Len(new) : r[Len(t) + i] = new[i]
         /\ \A i \in 1..Len(d) : r[Len(t) + Len(new) + i] = d[i]
    <3>1. t \in Seq(AgentEntry) /\ new \in Seq(AgentEntry) /\ d \in Seq(AgentEntry)
      BY <2>2, <2>7, <2>8
    <3> QED
      BY <2>9, <3>1, ConcatThree, SMTT(30)
  <2>12. Len(r) = Len(a)
    BY <1>1, <2>2, <2>4, <2>5, <2>7, <2>8, <2>11
  <2>13. ASSUME NEW i \in 1..Len(r)
         PROVE  r[i] = IF c.start < i /\ i <= c.start + Len(c.ids) THEN Untold(c.ids[i - c.start]) ELSE a[i]
    <3>1. CASE i <= c.start
      BY <1>1, <2>7, <2>11, <3>1
    <3>2. CASE c.start < i /\ i <= c.start + Len(c.ids)
      <4>1. i - c.start \in 1..Len(c.ids) /\ c.start + (i - c.start) = i
        BY <1>1, <3>2
      <4>2. r[c.start + (i - c.start)] = new[i - c.start]
        BY <2>2, <2>7, <2>11, <4>1
      <4> QED
        BY <2>2, <3>2, <4>1, <4>2
    <3>3. CASE n < i
      <4>1. i - n \in 1..(Len(a) - n) /\ n + (i - n) = i
        BY <1>1, <2>5, <2>12, <3>3
      <4>2. r[n + (i - n)] = d[i - n]
        BY <1>1, <2>2, <2>4, <2>7, <2>8, <2>11, <4>1
      <4>3. d[i - n] = a[i]
        BY <2>8, <4>1
      <4>4. ~(i <= c.start + Len(c.ids))
        BY <1>1, <2>4, <3>3
      <4> QED
        BY <4>1, <4>2, <4>3, <4>4
    <3>4. i <= c.start \/ (c.start < i /\ i <= c.start + Len(c.ids)) \/ n < i
      BY <1>1, <2>4
    <3> QED
      BY <3>1, <3>2, <3>3, <3>4
  <2> QED
    BY <2>10, <2>11, <2>12, <2>13
<1> QED
  BY <1>2, <1>3

\* The client removes contacts from its list.
LEMMA ApplyRemoved ==
    ASSUME NEW a \in Seq(AgentEntry), NEW c \in Change, c.call = "removed", c.start + Len(c.ids) <= Len(a)
    PROVE  /\ Apply(a, c) \in Seq(AgentEntry)
           /\ Len(Apply(a, c)) = Len(a) - Len(c.ids)
           /\ \A i \in 1..Len(Apply(a, c)) :
                 Apply(a, c)[i] = IF i <= c.start THEN a[i] ELSE a[i + Len(c.ids)]
<1>1. c.ids \in Seq(Contacts) /\ c.start \in Nat /\ Len(c.ids) \in Nat /\ Len(a) \in Nat
  BY DEF Change
<1>2. CASE Len(c.ids) = 0
  <2>1. Apply(a, c) = a
    BY <1>2 DEF Apply
  <2> QED
    BY <1>1, <1>2, <2>1
<1>3. CASE Len(c.ids) # 0
  <2>3. PICK t : t = Take(a, c.start)
    OBVIOUS
  <2>4. PICK n : n = c.start + Len(c.ids)
    OBVIOUS
  <2>5. n \in Nat /\ n <= Len(a) /\ c.start <= Len(a)
    BY <1>1, <2>4
  <2>6. PICK d : d = Drop(a, n)
    OBVIOUS
  <2>7. t \in Seq(AgentEntry) /\ Len(t) = c.start /\ \A i \in 1..c.start : t[i] = a[i]
    BY <1>1, <2>3, <2>5, TakeProperties
  <2>8. d \in Seq(AgentEntry) /\ Len(d) = Len(a) - n /\ \A i \in 1..(Len(a) - n) : d[i] = a[n + i]
    BY <1>1, <2>5, <2>6, DropProperties
  <2>9. PICK r : r = t \o d
    OBVIOUS
  <2>10. Apply(a, c) = r
    BY <1>3, <2>3, <2>4, <2>6, <2>9 DEF Apply
  <2>11. /\ r \in Seq(AgentEntry)
         /\ Len(r) = Len(t) + Len(d)
         /\ \A i \in 1..(Len(t) + Len(d)) : r[i] = IF i <= Len(t) THEN t[i] ELSE d[i - Len(t)]
    <3>1. t \in Seq(AgentEntry) /\ d \in Seq(AgentEntry)
      BY <2>7, <2>8
    <3> QED
      BY <2>9, <3>1, ConcatProperties
  <2>12. Len(r) = Len(a) - Len(c.ids)
    BY <1>1, <2>4, <2>5, <2>7, <2>8, <2>11
  <2>13. ASSUME NEW i \in 1..Len(r)
         PROVE  r[i] = IF i <= c.start THEN a[i] ELSE a[i + Len(c.ids)]
    <3>1. CASE i <= c.start
      BY <1>1, <2>7, <2>11, <3>1
    <3>2. CASE c.start < i
      <4>1. i - c.start \in 1..(Len(a) - n) /\ n + (i - c.start) = i + Len(c.ids)
        <5>1. i \in 1..(Len(a) - Len(c.ids))
          BY <2>12
        <5>2. c.start \in Nat /\ Len(c.ids) \in Nat /\ Len(a) \in Nat /\ n \in Nat
          BY <1>1, <2>5
        <5> QED
          BY <2>4, <3>2, <5>1, <5>2
      <4>2. r[i] = d[i - c.start]
        BY <1>1, <2>7, <2>11, <3>2
      <4>3. d[i - c.start] = a[i + Len(c.ids)]
        BY <2>8, <4>1
      <4>4. ~(i <= c.start)
        BY <1>1, <3>2
      <4> QED
        BY <4>2, <4>3, <4>4
    <3> QED
      BY <1>1, <3>1, <3>2
  <2> QED
    BY <2>10, <2>11, <2>12, <2>13
<1> QED
  BY <1>2, <1>3

(***************************************************************************)
(* ViewResource: the pending change and what the client was told last.     *)
(***************************************************************************)

\* Types of the resource, as long as the client is not misled.
ResourceType ==
    [pending : Change, last : Change, agent : Seq(AgentEntry), misled : BOOLEAN]

\* The pending change can be applied to the client's list.
Fits(r) ==
    IF r.pending.call = "added" THEN r.pending.start <= Len(r.agent)
    ELSE r.pending.start + Len(r.pending.ids) <= Len(r.agent)

\* What m_lastChange covers was not read by the client since.
Told(r) ==
    /\ r.last.start + Len(r.last.ids) <= Len(r.agent)
    /\ \A i \in 1..Len(r.last.ids) : r.agent[r.last.start + i] = Untold(r.last.ids[i])

\* The resource of a client which is not misled.
ResourceOK(r) == r \in ResourceType /\ Fits(r) /\ Told(r) /\ ~r.misled

\* The client's list once the pending change has reached it.
Mirrored(r) == Apply(r.agent, r.pending)

\* n is the list m with e inserted at an index, without the element at an
\* index, and with e at an index instead.
Inserted(m, at, e, n) ==
    /\ Len(n) = Len(m) + 1
    /\ \A i \in 1..Len(n) : n[i] = IF i <= at THEN m[i] ELSE IF i = at + 1 THEN e ELSE m[i - 1]
Erased(m, at, n) ==
    /\ Len(n) = Len(m) - 1
    /\ \A i \in 1..Len(n) : n[i] = IF i <= at THEN m[i] ELSE m[i + 1]
Replaced(m, at, e, n) ==
    /\ Len(n) = Len(m)
    /\ \A i \in 1..Len(n) : n[i] = IF i = at + 1 THEN e ELSE m[i]

\* Fields of a resource.
LEMMA ResourceFields ==
    ASSUME NEW p, NEW l, NEW a, NEW m
    PROVE  /\ Resource(p, l, a, m).pending = p /\ Resource(p, l, a, m).last = l
           /\ Resource(p, l, a, m).agent = a /\ Resource(p, l, a, m).misled = m
  BY DEF Resource

\* The empty change.
LEMMA NoChangeType == NoChange \in Change /\ NoChange.ids = <<>> /\ NoChange.start = 0 /\ Len(NoChange.ids) = 0
<1>1. <<>> \in Seq(Contacts)
  OBVIOUS
<1> QED
  BY <1>1 DEF NoChange, Change, Calls

\* Fields of a change.
LEMMA ChangeFields ==
    ASSUME NEW c \in Change
    PROVE  c.call \in Calls /\ c.start \in Nat /\ c.ids \in Seq(Contacts) /\ Len(c.ids) \in Nat
  BY DEF Change

\* Fields of a resource have their types.
LEMMA ResourceTyped ==
    ASSUME NEW r \in ResourceType
    PROVE  r.pending \in Change /\ r.last \in Change /\ r.agent \in Seq(AgentEntry) /\ r.misled \in BOOLEAN
           /\ Len(r.agent) \in Nat
  BY DEF ResourceType

\* A resource made of fields with their types.
LEMMA ResourceIsTyped ==
    ASSUME NEW p \in Change, NEW l \in Change, NEW a \in Seq(AgentEntry), NEW m \in BOOLEAN
    PROVE  Resource(p, l, a, m) \in ResourceType
  BY DEF Resource, ResourceType

\* A mirrored list is a list.
LEMMA MirroredType ==
    ASSUME NEW r, ResourceOK(r)
    PROVE  Mirrored(r) \in Seq(AgentEntry) /\ Len(Mirrored(r)) \in Nat
<1>1. r.pending \in Change /\ r.agent \in Seq(AgentEntry) /\ Fits(r)
  BY ResourceTyped DEF ResourceOK
<1>2. r.pending.call \in {"added", "removed", "modified"}
  BY <1>1, ChangeFields DEF Calls
<1>3. Mirrored(r) \in Seq(AgentEntry)
  <2>1. CASE r.pending.call = "added"
    BY <1>1, <2>1, ApplyAdded DEF Fits, Mirrored
  <2>2. CASE r.pending.call = "removed"
    BY <1>1, <2>2, ApplyRemoved DEF Fits, Mirrored
  <2>3. CASE r.pending.call = "modified"
    BY <1>1, <2>3, ApplyModified DEF Fits, Mirrored
  <2> QED
    BY <1>2, <2>1, <2>2, <2>3
<1> QED
  BY <1>3

\* An empty change changes nothing.
LEMMA NothingPending ==
    ASSUME NEW a, NEW c, c.ids = <<>>
    PROVE  Apply(a, c) = a
<1>1. Len(c.ids) = 0
  OBVIOUS
<1> QED
  BY <1>1 DEF Apply

\* flushChanges() gives the client what it was going to get.
LEMMA FlushedResource ==
    ASSUME NEW r, ResourceOK(r)
    PROVE  LET f == flushChanges(r)
           IN  /\ ResourceOK(f)
               /\ f.pending \in Change /\ f.pending.ids = <<>>
               /\ f.agent = Mirrored(r) /\ Mirrored(f) = Mirrored(r)
<1>1. PICK f : f = flushChanges(r)
  OBVIOUS
<1>2. r.pending \in Change /\ r.last \in Change /\ r.agent \in Seq(AgentEntry) /\ Fits(r) /\ Told(r) /\ ~r.misled /\ r.misled \in BOOLEAN
      /\ Len(r.agent) \in Nat
  BY ResourceTyped DEF ResourceOK
<1>3. CASE r.pending.ids = <<>>
  <2>1. f = r
    BY <1>1, <1>3 DEF flushChanges
  <2>2. Mirrored(r) = r.agent
    BY <1>3, NothingPending DEF Mirrored
  <2> QED
    BY <1>1, <1>2, <1>3, <2>1, <2>2
<1>4. CASE r.pending.ids # <<>>
  <2>1. PICK l : l = IF r.pending.call = "modified" THEN r.pending ELSE NoChange
    OBVIOUS
  <2>2. PICK m : m = Mirrored(r)
    OBVIOUS
  <2>3. f = Resource(NoChange, l, m, r.misled)
    BY <1>1, <1>2, <1>4, <2>1, <2>2 DEF flushChanges, Mirrored
  <2>4. f.pending = NoChange /\ f.last = l /\ f.agent = m /\ f.misled = r.misled
    BY <2>3, ResourceFields
  <2>5. m \in Seq(AgentEntry) /\ Len(m) \in Nat
    BY <2>2, MirroredType
  <2>6. l \in Change
    BY <1>2, <2>1, NoChangeType
  <2>7. f \in ResourceType
    BY <1>2, <2>3, <2>5, <2>6, NoChangeType, ResourceIsTyped
  <2>8. Fits(f)
    BY <2>4, <2>5, NoChangeType DEF Fits, NoChange
  <2>9. Told(f)
    <3>1. CASE r.pending.call = "modified"
      <4>1. l = r.pending
        BY <2>1, <3>1
      <4>2. r.pending.start + Len(r.pending.ids) <= Len(r.agent)
        BY <1>2, <3>1 DEF Fits
      <4>3. /\ Len(m) = Len(r.agent)
            /\ \A i \in 1..Len(m) :
                 m[i] = IF r.pending.start < i /\ i <= r.pending.start + Len(r.pending.ids)
                        THEN Untold(r.pending.ids[i - r.pending.start]) ELSE r.agent[i]
        BY <1>2, <2>2, <3>1, <4>2, ApplyModified DEF Mirrored
      <4>4. ASSUME NEW i \in 1..Len(l.ids)
            PROVE  m[l.start + i] = Untold(l.ids[i])
        <5>1. l.start \in Nat /\ Len(l.ids) \in Nat
          BY <2>6, ChangeFields
        <5>2. l.start + i \in 1..Len(m) /\ l.start < l.start + i /\ l.start + i <= l.start + Len(l.ids) /\ (l.start + i) - l.start = i
          BY <1>2, <4>1, <4>2, <4>3, <5>1, SMTT(30)
        <5> QED
          BY <4>1, <4>3, <5>2
      <4> QED
        BY <2>4, <4>1, <4>2, <4>3, <4>4 DEF Told
    <3>2. CASE r.pending.call # "modified"
      <4>1. l = NoChange
        BY <2>1, <3>2
      <4> QED
        BY <2>4, <2>5, <4>1, NoChangeType DEF Told
    <3> QED
      BY <3>1, <3>2
  <2>10. Mirrored(f) = m
    BY <2>4, NoChangeType, NothingPending DEF Mirrored
  <2>11. ResourceOK(f)
    BY <1>2, <2>4, <2>7, <2>8, <2>9 DEF ResourceOK
  <2> QED
    BY <1>1, <2>2, <2>4, <2>10, <2>11, NoChangeType
<1> QED
  BY <1>3, <1>4

\* A change that announces one contact.
Single(call, start, id) == [call |-> call, start |-> start, ids |-> <<id>>]

\* Fields of a change that announces one contact.
LEMMA SingleType ==
    ASSUME NEW call \in Calls, NEW start \in Nat, NEW id \in Contacts
    PROVE  LET c == Single(call, start, id)
           IN  /\ c \in Change /\ c.call = call /\ c.start = start /\ c.ids = <<id>>
               /\ Len(c.ids) = 1 /\ c.ids[1] = id /\ c.ids # <<>>
<1>1. <<id>> \in Seq(Contacts) /\ Len(<<id>>) = 1 /\ <<id>>[1] = id /\ <<id>> # <<>>
  OBVIOUS
<1> QED
  BY <1>1 DEF Single, Change

\* What a client makes of a change that announces one contact.
LEMMA ApplySingle ==
    ASSUME NEW a \in Seq(AgentEntry), NEW start \in Nat, NEW id \in Contacts
    PROVE  /\ start <= Len(a) => Inserted(a, start, Untold(id), Apply(a, Single("added", start, id)))
           /\ start < Len(a) => Erased(a, start, Apply(a, Single("removed", start, id)))
           /\ start < Len(a) => Replaced(a, start, Untold(id), Apply(a, Single("modified", start, id)))
<1>1. Len(a) \in Nat
  OBVIOUS
<1>2. ASSUME start <= Len(a)
      PROVE  Inserted(a, start, Untold(id), Apply(a, Single("added", start, id)))
  <2>1. PICK c : c = Single("added", start, id)
    OBVIOUS
  <2>2. c \in Change /\ c.call = "added" /\ c.start = start /\ Len(c.ids) = 1 /\ c.ids[1] = id
    BY <2>1, SingleType DEF Calls
  <2>3. /\ Len(Apply(a, c)) = Len(a) + 1
        /\ \A i \in 1..Len(Apply(a, c)) :
              Apply(a, c)[i] = IF i <= start THEN a[i]
                               ELSE IF i <= start + 1 THEN Untold(c.ids[i - start]) ELSE a[i - 1]
    <3>1. c.start <= Len(a)
      BY <1>2, <2>2
    <3>2. /\ Len(Apply(a, c)) = Len(a) + Len(c.ids)
          /\ \A i \in 1..Len(Apply(a, c)) :
                 Apply(a, c)[i] = IF i <= c.start THEN a[i]
                                  ELSE IF i <= c.start + Len(c.ids) THEN Untold(c.ids[i - c.start])
                                  ELSE a[i - Len(c.ids)]
      BY <2>2, <3>1, ApplyAdded
    <3> QED
      BY <2>2, <3>2
  <2>4. \A i \in 1..Len(Apply(a, c)) :
              Apply(a, c)[i] = IF i <= start THEN a[i] ELSE IF i = start + 1 THEN Untold(id) ELSE a[i - 1]
    BY <1>1, <2>2, <2>3
  <2> QED
    BY <2>1, <2>3, <2>4 DEF Inserted
<1>3. ASSUME start < Len(a)
      PROVE  Erased(a, start, Apply(a, Single("removed", start, id)))
  <2>1. PICK c : c = Single("removed", start, id)
    OBVIOUS
  <2>2. c \in Change /\ c.call = "removed" /\ c.start = start /\ Len(c.ids) = 1 /\ c.ids[1] = id
    BY <2>1, SingleType DEF Calls
  <2>3. c.start + Len(c.ids) <= Len(a)
    BY <1>1, <1>3, <2>2
  <2>4. /\ Len(Apply(a, c)) = Len(a) - 1
        /\ \A i \in 1..Len(Apply(a, c)) : Apply(a, c)[i] = IF i <= start THEN a[i] ELSE a[i + 1]
    BY <2>2, <2>3, ApplyRemoved, ZenonT(30)
  <2> QED
    BY <2>1, <2>4 DEF Erased
<1>4. ASSUME start < Len(a)
      PROVE  Replaced(a, start, Untold(id), Apply(a, Single("modified", start, id)))
  <2>1. PICK c : c = Single("modified", start, id)
    OBVIOUS
  <2>2. c \in Change /\ c.call = "modified" /\ c.start = start /\ Len(c.ids) = 1 /\ c.ids[1] = id
    BY <2>1, SingleType DEF Calls
  <2>3. c.start + Len(c.ids) <= Len(a)
    BY <1>1, <1>4, <2>2
  <2>4. /\ Len(Apply(a, c)) = Len(a)
        /\ \A i \in 1..Len(Apply(a, c)) :
              Apply(a, c)[i] = IF start < i /\ i <= start + 1 THEN Untold(c.ids[i - start]) ELSE a[i]
    BY <2>2, <2>3, ApplyModified
  <2>5. \A i \in 1..Len(Apply(a, c)) : Apply(a, c)[i] = IF i = start + 1 THEN Untold(id) ELSE a[i]
    BY <1>1, <2>2, <2>4
  <2> QED
    BY <2>1, <2>4, <2>5 DEF Replaced
<1> QED
  BY <1>2, <1>3, <1>4

\* The client has room for one change.
Possible(call, start, n) == IF call = "added" THEN start <= n ELSE start < n

\* The list after one change.
Changed(call, m, start, id, n) ==
    CASE call = "added" -> Inserted(m, start, Untold(id), n)
      [] call = "removed" -> Erased(m, start, n)
      [] call = "modified" -> Replaced(m, start, Untold(id), n)

\* A change which becomes the pending one while nothing else is pending.
LEMMA PendingSingle ==
    ASSUME NEW r, ResourceOK(r), r.pending.ids = <<>>,
           NEW call \in Calls, NEW start \in Nat, NEW id \in Contacts, Possible(call, start, Len(r.agent)),
           NEW x, x = Resource(Single(call, start, id), r.last, r.agent, r.misled)
    PROVE  ResourceOK(x) /\ Changed(call, Mirrored(r), start, id, Mirrored(x))
<1>1. r.last \in Change /\ r.agent \in Seq(AgentEntry) /\ r.misled \in BOOLEAN /\ ~r.misled /\ Told(r) /\ Len(r.agent) \in Nat
  BY ResourceTyped DEF ResourceOK
<1>2. PICK c : c = Single(call, start, id)
  OBVIOUS
<1>3. c \in Change /\ c.call = call /\ c.start = start /\ Len(c.ids) = 1
  BY <1>2, SingleType
<1>4. x.pending = c /\ x.last = r.last /\ x.agent = r.agent /\ x.misled = r.misled
  BY <1>2, ResourceFields
<1>5. x \in ResourceType
  BY <1>1, <1>2, <1>3, ResourceIsTyped
<1>6. Fits(x)
  <2>1. CASE call = "added"
    BY <1>3, <1>4, <2>1 DEF Fits, Possible
  <2>2. CASE call # "added"
    <3>1. start + 1 <= Len(r.agent)
      BY <1>1, <2>2 DEF Possible
    <3> QED
      BY <1>3, <1>4, <2>2, <3>1 DEF Fits
  <2> QED
    BY <2>1, <2>2
<1>7. Told(x)
  BY <1>1, <1>4 DEF Told
<1>8. ResourceOK(x)
  BY <1>1, <1>4, <1>5, <1>6, <1>7 DEF ResourceOK
<1>9. Mirrored(r) = r.agent /\ Mirrored(x) = Apply(r.agent, c)
  BY <1>4, NothingPending DEF Mirrored
<1>10. call \in {"added", "removed", "modified"}
  BY DEF Calls
<1>11. Changed(call, r.agent, start, id, Apply(r.agent, c))
  <2>1. CASE call = "added"
    BY <1>1, <1>2, <2>1, ApplySingle DEF Possible, Changed
  <2>2. CASE call = "removed"
    BY <1>1, <1>2, <2>2, ApplySingle DEF Possible, Changed
  <2>3. CASE call = "modified"
    BY <1>1, <1>2, <2>3, ApplySingle DEF Possible, Changed
  <2> QED
    BY <1>10, <2>1, <2>2, <2>3
<1> QED
  BY <1>8, <1>9, <1>11

\* A change made of fields with their types.
LEMMA ChangeRecord ==
    ASSUME NEW call \in Calls, NEW start \in Nat, NEW ids \in Seq(Contacts),
           NEW c, c = [call |-> call, start |-> start, ids |-> ids]
    PROVE  c \in Change /\ c.call = call /\ c.start = start /\ c.ids = ids
  BY DEF Change

\* Length and elements after InsertAt() in the IDs of a change.
LEMMA InsertContact ==
    ASSUME NEW ids \in Seq(Contacts), NEW j \in 1..(Len(ids) + 1), NEW id \in Contacts
    PROVE  /\ InsertAt(ids, j, id) \in Seq(Contacts) /\ Len(InsertAt(ids, j, id)) = Len(ids) + 1
           /\ \A i \in 1..(Len(ids) + 1) :
                 InsertAt(ids, j, id)[i] = IF i < j THEN ids[i] ELSE IF i = j THEN id ELSE ids[i - 1]
  BY InsertAtProperties, SMTT(60)

\* Extending the pending 'added' by a contact in it or behind it is adding
\* that contact afterwards.
LEMMA ExtendAdded ==
    ASSUME NEW a \in Seq(AgentEntry), NEW p \in Change, p.call = "added", p.start <= Len(a),
           NEW start \in Nat, NEW id \in Contacts, p.start <= start, start <= Len(Apply(a, p)),
           NEW c, c = Extend(p, "added", start, id), c.ids # <<>>
    PROVE  c \in Change /\ c.call = "added" /\ c.start <= Len(a) /\ Inserted(Apply(a, p), start, Untold(id), Apply(a, c))
<1>0. p.ids \in Seq(Contacts)
  BY ChangeFields
<1>1. p.start \in Nat /\ Len(p.ids) \in Nat /\ Len(a) \in Nat
  BY ChangeFields
<1>2. start <= p.start + Len(p.ids)
  BY <1>1, NoChangeType DEF Extend
<1>3. PICK ids \in Seq(Contacts) : ids = p.ids
  BY <1>0
<1>4. PICK j \in 1..(Len(ids) + 1) : j = start - p.start + 1
  BY <1>1, <1>2, <1>3
<1>5. PICK q : q = InsertAt(ids, j, id)
  OBVIOUS
<1>6. /\ q \in Seq(Contacts) /\ Len(q) = Len(ids) + 1
      /\ \A i \in 1..(Len(ids) + 1) : q[i] = IF i < j THEN ids[i] ELSE IF i = j THEN id ELSE ids[i - 1]
  <2>1. /\ InsertAt(ids, j, id) \in Seq(Contacts) /\ Len(InsertAt(ids, j, id)) = Len(ids) + 1
        /\ \A i \in 1..(Len(ids) + 1) :
              InsertAt(ids, j, id)[i] = IF i < j THEN ids[i] ELSE IF i = j THEN id ELSE ids[i - 1]
    BY InsertContact, ZenonT(30)
  <2> QED
    BY <1>5, <2>1, Zenon
<1>7. c = [call |-> "added", start |-> p.start, ids |-> q]
  BY <1>1, <1>2, <1>3, <1>4, <1>5 DEF Extend
<1>8. c \in Change /\ c.call = "added" /\ c.start = p.start /\ c.ids = q
  BY <1>1, <1>6, <1>7, ChangeRecord DEF Calls
<1>9. PICK m : m = Apply(a, p)
  OBVIOUS
<1>10. PICK n : n = Apply(a, c)
  OBVIOUS
<1>11. /\ Len(m) = Len(a) + Len(p.ids)
       /\ \A i \in 1..Len(m) :
                 m[i] = IF i <= p.start THEN a[i]
                        ELSE IF i <= p.start + Len(p.ids) THEN Untold(p.ids[i - p.start])
                        ELSE a[i - Len(p.ids)]
  BY <1>9, ApplyAdded
<1>12. c.start <= Len(a)
  BY <1>8
<1>13. /\ Len(n) = Len(a) + Len(c.ids)
       /\ \A i \in 1..Len(n) :
                 n[i] = IF i <= c.start THEN a[i]
                        ELSE IF i <= c.start + Len(c.ids) THEN Untold(c.ids[i - c.start])
                        ELSE a[i - Len(c.ids)]
  BY <1>8, <1>10, <1>12, ApplyAdded
<1>14. PICK k \in Nat, l \in Nat, s \in Nat : k = Len(a) /\ l = Len(ids) /\ s = p.start
  BY <1>1
<1>15. s <= k /\ s <= start /\ start <= s + l /\ j = start - s + 1
  BY <1>2, <1>3, <1>4, <1>14
<1>16. /\ Len(m) = k + l
       /\ \A i \in 1..(k + l) : m[i] = IF i <= s THEN a[i]
                                       ELSE IF i <= s + l THEN Untold(ids[i - s]) ELSE a[i - l]
  BY <1>3, <1>11, <1>14
<1>17. Len(c.ids) = l + 1 /\ c.start = s /\ k + (l + 1) = k + l + 1
  BY <1>6, <1>8, <1>14
<1>18. /\ Len(n) = k + l + 1
       /\ \A i \in 1..(k + l + 1) : n[i] = IF i <= s THEN a[i]
                                           ELSE IF i <= s + (l + 1) THEN Untold(q[i - s]) ELSE a[i - (l + 1)]
  BY <1>8, <1>13, <1>14, <1>17
<1>19. \A i \in 1..(l + 1) : q[i] = IF i < start - s + 1 THEN ids[i] ELSE IF i = start - s + 1 THEN id ELSE ids[i - 1]
  BY <1>6, <1>14, <1>15
<1>20. ASSUME NEW i \in 1..(k + l + 1)
       PROVE  n[i] = IF i <= start THEN m[i] ELSE IF i = start + 1 THEN Untold(id) ELSE m[i - 1]
  <2>1. CASE i <= s
    <3>1. i <= start /\ i \in 1..(k + l)
      BY <1>15, <2>1
    <3>2. n[i] = a[i]
      BY <1>18, <2>1
    <3>3. m[i] = a[i]
      BY <1>16, <2>1, <3>1
    <3> QED
      BY <3>1, <3>2, <3>3
  <2>2. CASE s < i /\ i <= start
    <3>1. /\ i - s \in 1..(l + 1) /\ i - s < start - s + 1 /\ i \in 1..(k + l)
          /\ i <= s + l /\ i <= s + (l + 1) /\ ~(i <= s)
      BY <1>15, <2>2
    <3>2. n[i] = Untold(q[i - s])
      BY <1>18, <3>1
    <3>3. m[i] = Untold(ids[i - s])
      BY <1>16, <3>1
    <3>4. q[i - s] = ids[i - s]
      BY <1>19, <3>1
    <3> QED
      BY <2>2, <3>2, <3>3, <3>4
  <2>3. CASE i = start + 1
    <3>1. i - s \in 1..(l + 1) /\ i - s = start - s + 1 /\ i <= s + (l + 1) /\ ~(i <= s) /\ ~(i <= start)
      BY <1>15, <2>3
    <3>2. n[i] = Untold(q[i - s])
      BY <1>18, <3>1
    <3>3. q[i - s] = id
      BY <1>19, <3>1
    <3> QED
      BY <2>3, <3>1, <3>2, <3>3
  <2>4. CASE start + 1 < i /\ i <= s + (l + 1)
    <3>1. /\ i - s \in 1..(l + 1) /\ ~(i - s < start - s + 1) /\ i - s # start - s + 1
          /\ (i - s) - 1 = (i - 1) - s /\ i - 1 \in 1..(k + l) /\ ~(i <= s) /\ ~(i <= start)
          /\ ~(i - 1 <= s) /\ i - 1 <= s + l /\ i # start + 1
      BY <1>15, <2>4
    <3>2. q[i - s] = ids[(i - 1) - s]
      BY <1>19, <3>1
    <3>3. m[i - 1] = Untold(ids[(i - 1) - s])
      BY <1>16, <3>1
    <3>4. n[i] = Untold(q[i - s])
      BY <1>18, <2>4, <3>1
    <3> QED
      BY <3>1, <3>2, <3>3, <3>4
  <2>5. CASE s + (l + 1) < i
    <3>1. /\ i - 1 \in 1..(k + l) /\ ~(i <= s) /\ ~(i <= start) /\ ~(i - 1 <= s) /\ ~(i - 1 <= s + l)
          /\ i # start + 1 /\ ~(i <= s + (l + 1)) /\ (i - 1) - l = i - (l + 1)
      BY <1>15, <2>5
    <3>2. m[i - 1] = a[(i - 1) - l]
      BY <1>16, <3>1
    <3>3. n[i] = a[i - (l + 1)]
      BY <1>18, <3>1
    <3> QED
      BY <3>1, <3>2, <3>3
  <2> QED
    BY <1>15, <2>1, <2>2, <2>3, <2>4, <2>5
<1> QED
  BY <1>8, <1>9, <1>10, <1>12, <1>16, <1>18, <1>20 DEF Inserted

\* Extending the pending 'removed' is removing the contact afterwards.
LEMMA ExtendRemoved ==
    ASSUME NEW a \in Seq(AgentEntry), NEW p \in Change, p.call = "removed", p.start + Len(p.ids) <= Len(a),
           NEW start \in Nat, NEW id \in Contacts, start < Len(Apply(a, p)),
           NEW c, c = Extend(p, "removed", start, id), c.ids # <<>>
    PROVE  c \in Change /\ c.call = "removed" /\ c.start + Len(c.ids) <= Len(a) /\ Erased(Apply(a, p), start, Apply(a, c))
<1>0. p.ids \in Seq(Contacts)
  BY ChangeFields
<1>1. p.start \in Nat /\ Len(p.ids) \in Nat /\ Len(a) \in Nat
  BY ChangeFields
<1>2. start + 1 = p.start \/ start = p.start
  BY <1>1, NoChangeType DEF Extend
<1>3. PICK q : q = c.ids
  OBVIOUS
<1>4. c = [call |-> "removed", start |-> start, ids |-> q] /\ q \in Seq(Contacts) /\ Len(q) = Len(p.ids) + 1
  <2>1. CASE start + 1 = p.start
    <3>1. c = [call |-> "removed", start |-> start, ids |-> <<id>> \o p.ids]
      BY <2>1 DEF Extend
    <3>2. <<id>> \in Seq(Contacts) /\ Len(<<id>>) = 1
      OBVIOUS
    <3>3. <<id>> \o p.ids \in Seq(Contacts) /\ Len(<<id>> \o p.ids) = 1 + Len(p.ids)
      BY <1>0, <3>2, ConcatProperties
    <3>4. q = <<id>> \o p.ids
      BY <1>3, <3>1
    <3>5. 1 + Len(p.ids) = Len(p.ids) + 1
      BY <1>1
    <3> QED
      BY <3>1, <3>3, <3>4, <3>5
  <2>2. CASE start = p.start
    <3>1. c = [call |-> "removed", start |-> start, ids |-> Append(p.ids, id)]
      BY <1>1, <2>2 DEF Extend
    <3>2. Append(p.ids, id) \in Seq(Contacts) /\ Len(Append(p.ids, id)) = Len(p.ids) + 1
      BY <1>0
    <3>3. q = Append(p.ids, id)
      BY <1>3, <3>1
    <3> QED
      BY <3>1, <3>2, <3>3
  <2> QED
    BY <1>2, <2>1, <2>2
<1>5. c \in Change /\ c.call = "removed" /\ c.start = start /\ Len(c.ids) = Len(p.ids) + 1
  BY <1>4, ChangeRecord DEF Calls
<1>6. PICK m : m = Apply(a, p)
  OBVIOUS
<1>7. /\ Len(m) = Len(a) - Len(p.ids)
      /\ \A i \in 1..Len(m) : m[i] = IF i <= p.start THEN a[i] ELSE a[i + Len(p.ids)]
  BY <1>6, ApplyRemoved
<1>8. c.start + Len(c.ids) <= Len(a)
  BY <1>1, <1>5, <1>6, <1>7
<1>9. PICK n : n = Apply(a, c)
  OBVIOUS
<1>10. /\ Len(n) = Len(a) - Len(c.ids)
       /\ \A i \in 1..Len(n) : n[i] = IF i <= c.start THEN a[i] ELSE a[i + Len(c.ids)]
  BY <1>5, <1>8, <1>9, ApplyRemoved
<1>11. Len(n) = Len(m) - 1
  BY <1>1, <1>5, <1>7, <1>10
<1>12. ASSUME NEW i \in 1..Len(n)
       PROVE  n[i] = IF i <= start THEN m[i] ELSE m[i + 1]
  <2>1. i \in Nat /\ i \in 1..Len(m) /\ i + 1 \in 1..Len(m)
    BY <1>1, <1>7, <1>11
  <2>2. n[i] = IF i <= start THEN a[i] ELSE a[i + (Len(p.ids) + 1)]
    BY <1>5, <1>10
  <2>3. CASE i <= start
    <3>1. i <= p.start
      BY <1>1, <1>2, <2>1, <2>3
    <3> QED
      BY <1>7, <2>1, <2>2, <2>3, <3>1
  <2>4. CASE ~(i <= start)
    <3>1. ~(i + 1 <= p.start) /\ (i + 1) + Len(p.ids) = i + (Len(p.ids) + 1)
      <4>1. PICK s \in Nat, l \in Nat, k \in Nat : s = p.start /\ l = Len(p.ids) /\ k = i
        BY <1>1, <2>1
      <4>2. start + 1 = s \/ start = s
        BY <1>2, <4>1
      <4>3. ~(k <= start)
        BY <2>4, <4>1
      <4>4. ~(k + 1 <= s) /\ (k + 1) + l = k + (l + 1)
        BY <4>2, <4>3
      <4> QED
        BY <4>1, <4>4
    <3>2. m[i + 1] = a[(i + 1) + Len(p.ids)]
      BY <1>7, <2>1, <3>1
    <3> QED
      BY <2>2, <2>4, <3>1, <3>2
  <2> QED
    BY <2>3, <2>4
<1> QED
  BY <1>5, <1>6, <1>8, <1>9, <1>11, <1>12 DEF Erased

\* Extending the pending 'modified' is modifying the contact afterwards.
LEMMA ExtendModified ==
    ASSUME NEW a \in Seq(AgentEntry), NEW p \in Change, p.call = "modified", p.start + Len(p.ids) <= Len(a),
           NEW start \in Nat, NEW id \in Contacts, start < Len(Apply(a, p)),
           NEW c, c = Extend(p, "modified", start, id), c.ids # <<>>
    PROVE  /\ c \in Change /\ c.call = "modified" /\ c.start + Len(c.ids) <= Len(a)
           /\ Replaced(Apply(a, p), start, Untold(id), Apply(a, c))
<1>0. p.ids \in Seq(Contacts)
  BY ChangeFields
<1>1. p.start \in Nat /\ Len(p.ids) \in Nat /\ Len(a) \in Nat
  BY ChangeFields
<1>2. PICK m : m = Apply(a, p)
  OBVIOUS
<1>3. /\ Len(m) = Len(a)
      /\ \A i \in 1..Len(m) : m[i] = IF p.start < i /\ i <= p.start + Len(p.ids)
                                     THEN Untold(p.ids[i - p.start]) ELSE a[i]
  BY <1>2, ApplyModified
<1>4. start < Len(a)
  BY <1>2, <1>3
<1>5. ASSUME NEW first \in Nat, NEW ids \in Seq(Contacts),
             c = [call |-> "modified", start |-> first, ids |-> ids],
             first + Len(ids) <= Len(a),
             \A i \in 1..Len(a) :
                (IF first < i /\ i <= first + Len(ids) THEN Untold(ids[i - first]) ELSE a[i])
                  = IF i = start + 1 THEN Untold(id)
                    ELSE IF p.start < i /\ i <= p.start + Len(p.ids) THEN Untold(p.ids[i - p.start]) ELSE a[i]
      PROVE  /\ c \in Change /\ c.call = "modified" /\ c.start + Len(c.ids) <= Len(a)
             /\ Replaced(Apply(a, p), start, Untold(id), Apply(a, c))
  <2>1. c \in Change /\ c.call = "modified" /\ c.start = first /\ c.ids = ids
    BY <1>5, ChangeRecord DEF Calls
  <2>2. c.start + Len(c.ids) <= Len(a)
    BY <1>5, <2>1
  <2>3. PICK n : n = Apply(a, c)
    OBVIOUS
  <2>4. /\ Len(n) = Len(a)
        /\ \A i \in 1..Len(n) : n[i] = IF c.start < i /\ i <= c.start + Len(c.ids)
                                       THEN Untold(c.ids[i - c.start]) ELSE a[i]
    BY <2>1, <2>2, <2>3, ApplyModified
  <2>5. \A i \in 1..Len(n) : n[i] = IF i = start + 1 THEN Untold(id) ELSE m[i]
    BY <1>3, <1>5, <2>1, <2>4
  <2> QED
    BY <1>2, <1>3, <2>1, <2>2, <2>3, <2>4, <2>5 DEF Replaced
<1>6. CASE start + 1 = p.start
  <2>1. PICK q : q = <<id>> \o p.ids
    OBVIOUS
  <2>2. c = [call |-> "modified", start |-> start, ids |-> q]
    BY <1>6, <2>1 DEF Extend
  <2>3. <<id>> \in Seq(Contacts) /\ Len(<<id>>) = 1 /\ <<id>>[1] = id
    OBVIOUS
  <2>4. /\ q \in Seq(Contacts) /\ Len(q) = 1 + Len(p.ids)
        /\ \A i \in 1..(1 + Len(p.ids)) : q[i] = IF i <= 1 THEN <<id>>[i] ELSE p.ids[i - 1]
    BY <1>0, <2>1, <2>3, ConcatProperties
  <2>5. start + Len(q) <= Len(a)
    BY <1>1, <1>6, <2>4
  <2>6. ASSUME NEW i \in 1..Len(a)
        PROVE  (IF start < i /\ i <= start + Len(q) THEN Untold(q[i - start]) ELSE a[i])
                  = IF i = start + 1 THEN Untold(id)
                    ELSE IF p.start < i /\ i <= p.start + Len(p.ids) THEN Untold(p.ids[i - p.start]) ELSE a[i]
    <3>1. CASE i = start + 1
      <4>1. i - start = 1 /\ start < i /\ i <= start + Len(q) /\ q[1] = id
        BY <1>1, <2>3, <2>4, <3>1
      <4> QED
        BY <3>1, <4>1
    <3>2. CASE i # start + 1 /\ start < i /\ i <= start + Len(q)
      <4>1. i - start \in 1..(1 + Len(p.ids)) /\ ~(i - start <= 1) /\ (i - start) - 1 = i - p.start
        BY <1>1, <1>6, <2>4, <3>2
      <4>2. q[i - start] = p.ids[i - p.start]
        BY <2>4, <4>1
      <4>3. p.start < i /\ i <= p.start + Len(p.ids)
        BY <1>1, <1>6, <2>4, <3>2
      <4> QED
        BY <3>2, <4>2, <4>3
    <3>3. CASE i # start + 1 /\ ~(start < i /\ i <= start + Len(q))
      <4>1. ~(p.start < i /\ i <= p.start + Len(p.ids))
        BY <1>1, <1>6, <2>4, <3>3
      <4> QED
        BY <3>3, <4>1
    <3> QED
      BY <3>1, <3>2, <3>3
  <2> QED
    BY <1>5, <2>2, <2>4, <2>5, <2>6
<1>7. CASE start + 1 # p.start /\ start = p.start + Len(p.ids)
  <2>1. PICK q : q = Append(p.ids, id)
    OBVIOUS
  <2>2. c = [call |-> "modified", start |-> p.start, ids |-> q]
    BY <1>7, <2>1 DEF Extend
  <2>4. /\ q \in Seq(Contacts) /\ Len(q) = Len(p.ids) + 1
        /\ \A i \in 1..Len(p.ids) : q[i] = p.ids[i]
        /\ q[Len(p.ids) + 1] = id
    BY <1>0, <2>1
  <2>5. p.start + Len(q) <= Len(a)
    BY <1>1, <1>4, <1>7, <2>4
  <2>6. ASSUME NEW i \in 1..Len(a)
        PROVE  (IF p.start < i /\ i <= p.start + Len(q) THEN Untold(q[i - p.start]) ELSE a[i])
                  = IF i = start + 1 THEN Untold(id)
                    ELSE IF p.start < i /\ i <= p.start + Len(p.ids) THEN Untold(p.ids[i - p.start]) ELSE a[i]
    <3>1. CASE i = start + 1
      <4>1. i - p.start = Len(p.ids) + 1 /\ p.start < i /\ i <= p.start + Len(q)
        BY <1>1, <1>7, <2>4, <3>1
      <4> QED
        BY <2>4, <3>1, <4>1
    <3>2. CASE i # start + 1 /\ p.start < i /\ i <= p.start + Len(q)
      <4>1. i - p.start \in 1..Len(p.ids) /\ i <= p.start + Len(p.ids)
        <5>1. Len(q) = Len(p.ids) + 1
          BY <2>4
        <5>2. i <= p.start + Len(p.ids)
          BY <1>1, <1>7, <3>2, <5>1
        <5> QED
          BY <1>1, <3>2, <5>2
      <4>2. q[i - p.start] = p.ids[i - p.start]
        BY <2>4, <4>1
      <4> QED
        BY <3>2, <4>1, <4>2
    <3>3. CASE i # start + 1 /\ ~(p.start < i /\ i <= p.start + Len(q))
      <4>1. ~(p.start < i /\ i <= p.start + Len(p.ids))
        BY <1>1, <2>4, <3>3
      <4> QED
        BY <3>3, <4>1
    <3> QED
      BY <3>1, <3>2, <3>3
  <2> QED
    BY <1>1, <1>5, <2>2, <2>4, <2>5, <2>6
<1>8. CASE start + 1 # p.start /\ start # p.start + Len(p.ids)
  <2>1. p.start <= start /\ start < p.start + Len(p.ids)
    BY <1>8, NoChangeType DEF Extend, Covers
  <2>2. PICK k : k = start - p.start + 1
    OBVIOUS
  <2>3. k \in 1..Len(p.ids)
    BY <1>1, <2>1, <2>2
  <2>4. PICK q : q = [p.ids EXCEPT ![k] = id]
    OBVIOUS
  <2>5. c = [call |-> "modified", start |-> p.start, ids |-> q]
    BY <1>8, <2>1, <2>2, <2>4 DEF Extend, Covers
  <2>6. q \in Seq(Contacts) /\ Len(q) = Len(p.ids) /\ \A i \in 1..Len(p.ids) : q[i] = IF i = k THEN id ELSE p.ids[i]
    BY <1>0, <1>1, <2>3, <2>4
  <2>7. p.start + Len(q) <= Len(a)
    BY <2>6
  <2>8. ASSUME NEW i \in 1..Len(a)
        PROVE  (IF p.start < i /\ i <= p.start + Len(q) THEN Untold(q[i - p.start]) ELSE a[i])
                  = IF i = start + 1 THEN Untold(id)
                    ELSE IF p.start < i /\ i <= p.start + Len(p.ids) THEN Untold(p.ids[i - p.start]) ELSE a[i]
    <3>1. CASE p.start < i /\ i <= p.start + Len(q)
      <4>1. i - p.start \in 1..Len(p.ids) /\ (i - p.start = k <=> i = start + 1)
        BY <1>1, <2>2, <2>6, <3>1, SMTT(30)
      <4> QED
        BY <2>6, <3>1, <4>1
    <3>2. CASE ~(p.start < i /\ i <= p.start + Len(q))
      <4>1. i # start + 1
        BY <1>1, <2>1, <2>6, <3>2
      <4> QED
        BY <2>6, <3>2, <4>1
    <3> QED
      BY <3>1, <3>2
  <2> QED
    BY <1>1, <1>5, <2>5, <2>6, <2>7, <2>8
<1> QED
  BY <1>6, <1>7, <1>8

\* Replacing the pending change keeps the rest.
LEMMA OtherPending ==
    ASSUME NEW r, ResourceOK(r), NEW c \in Change,
           IF c.call = "added" THEN c.start <= Len(r.agent) ELSE c.start + Len(c.ids) <= Len(r.agent),
           NEW x, x = Resource(c, r.last, r.agent, FALSE)
    PROVE  ResourceOK(x) /\ Mirrored(x) = Apply(r.agent, c)
<1>1. r.last \in Change /\ r.agent \in Seq(AgentEntry) /\ Told(r)
  BY ResourceTyped DEF ResourceOK
<1>2. x.pending = c /\ x.last = r.last /\ x.agent = r.agent /\ ~x.misled
  BY DEF Resource
<1>3. x \in ResourceType
  BY <1>1, ResourceIsTyped
<1>4. Fits(x)
  BY <1>2 DEF Fits
<1>5. Told(x)
  BY <1>1, <1>2 DEF Told
<1> QED
  BY <1>2, <1>3, <1>4, <1>5 DEF ResourceOK, Mirrored

\* The client is told what it is told already.
LEMMA RedundantChange ==
    ASSUME NEW r, ResourceOK(r), r.pending.ids = <<>>, NEW start \in Nat, NEW id \in Contacts,
           Covers(r.last, start), r.last.ids[start - r.last.start + 1] = id
    PROVE  Replaced(Mirrored(r), start, Untold(id), Mirrored(r))
<1>1. r.last \in Change /\ r.agent \in Seq(AgentEntry) /\ Told(r)
  BY ResourceTyped DEF ResourceOK
<1>2. r.last.start \in Nat /\ Len(r.last.ids) \in Nat
  BY <1>1, ChangeFields
<1>3. Mirrored(r) = r.agent
  BY NothingPending DEF Mirrored
<1>4. PICK s \in Nat, l \in Nat : s = r.last.start /\ l = Len(r.last.ids)
  BY <1>2
<1>5. s <= start /\ start < s + l
  BY <1>4 DEF Covers
<1>6. start - s + 1 \in 1..l /\ s + (start - s + 1) = start + 1
  BY <1>5
<1>7. \A i \in 1..l : r.agent[s + i] = Untold(r.last.ids[i])
  BY <1>1, <1>4 DEF Told
<1>8. r.agent[s + (start - s + 1)] = Untold(r.last.ids[start - s + 1])
  BY <1>6, <1>7
<1>9. r.agent[start + 1] = Untold(id)
  BY <1>4, <1>6, <1>8
<1> QED
  BY <1>3, <1>9 DEF Replaced

\* A contact which is removed and comes back at the same place is modified.
LEMMA Readded ==
    ASSUME NEW a \in Seq(AgentEntry), NEW p \in Change, NEW start \in Nat, NEW id \in Contacts,
           p.call = "removed", p.start = start, p.ids = <<id>>, start < Len(a)
    PROVE  Inserted(Apply(a, p), start, Untold(id), Apply(a, Single("modified", start, id)))
<1>1. Len(a) \in Nat /\ Len(p.ids) = 1
  OBVIOUS
<1>2. PICK m : m = Apply(a, p)
  OBVIOUS
<1>3. p.start + Len(p.ids) <= Len(a)
  BY <1>1
<1>4. /\ Len(m) = Len(a) - 1
      /\ \A i \in 1..Len(m) : m[i] = IF i <= start THEN a[i] ELSE a[i + 1]
  BY <1>1, <1>2, <1>3, ApplyRemoved
<1>5. PICK n : n = Apply(a, Single("modified", start, id))
  OBVIOUS
<1>6. Len(n) = Len(a) /\ \A i \in 1..Len(n) : n[i] = IF i = start + 1 THEN Untold(id) ELSE a[i]
  BY <1>5, ApplySingle DEF Replaced
<1>7. ASSUME NEW i \in 1..Len(n)
      PROVE  n[i] = IF i <= start THEN m[i] ELSE IF i = start + 1 THEN Untold(id) ELSE m[i - 1]
  <2>1. PICK k \in Nat : k = Len(a) /\ Len(m) = k - 1 /\ i \in 1..k /\ start < k
    BY <1>1, <1>4, <1>6
  <2>2. CASE i <= start
    <3>1. i \in 1..Len(m) /\ i # start + 1
      BY <2>1, <2>2
    <3> QED
      BY <1>4, <1>6, <2>2, <3>1
  <2>3. CASE i = start + 1
    BY <1>6, <2>3
  <2>4. CASE i > start + 1
    <3>1. i - 1 \in 1..Len(m) /\ ~(i - 1 <= start) /\ (i - 1) + 1 = i /\ ~(i <= start) /\ i # start + 1
      BY <2>1, <2>4
    <3>2. m[i - 1] = a[i]
      BY <1>4, <3>1
    <3> QED
      BY <1>6, <3>1, <3>2
  <2> QED
    BY <2>1, <2>2, <2>3, <2>4
<1> QED
  BY <1>1, <1>2, <1>4, <1>5, <1>6, <1>7 DEF Inserted

\* Extending the pending change.
LEMMA Extended ==
    ASSUME NEW r, ResourceOK(r), NEW call \in Calls, NEW start \in Nat, NEW id \in Contacts,
           r.pending.call = call, Possible(call, start, Len(Mirrored(r))),
           ~(call = "added" /\ start < r.pending.start),
           NEW c, c = Extend(r.pending, call, start, id), c.ids # <<>>,
           NEW x, x = Resource(c, r.last, r.agent, FALSE)
    PROVE  ResourceOK(x) /\ Changed(call, Mirrored(r), start, id, Mirrored(x))
<1>1. r.pending \in Change /\ r.agent \in Seq(AgentEntry) /\ Fits(r)
  BY ResourceTyped DEF ResourceOK
<1>2. call \in {"added", "removed", "modified"}
  BY DEF Calls
<1>3. r.pending.start \in Nat
  BY <1>1, ChangeFields
<1>4. CASE call = "added"
  <2>1. r.pending.start <= Len(r.agent) /\ r.pending.start <= start /\ start <= Len(Apply(r.agent, r.pending))
    BY <1>1, <1>3, <1>4 DEF Fits, Possible, Mirrored
  <2>2. c \in Change /\ c.call = "added" /\ c.start <= Len(r.agent)
        /\ Inserted(Apply(r.agent, r.pending), start, Untold(id), Apply(r.agent, c))
    BY <1>1, <1>4, <2>1, ExtendAdded
  <2>3. ResourceOK(x) /\ Mirrored(x) = Apply(r.agent, c)
    BY <2>2, OtherPending
  <2> QED
    BY <1>4, <2>2, <2>3 DEF Changed, Mirrored
<1>5. CASE call = "removed"
  <2>1. r.pending.start + Len(r.pending.ids) <= Len(r.agent) /\ start < Len(Apply(r.agent, r.pending))
    BY <1>1, <1>5 DEF Fits, Possible, Mirrored
  <2>2. c \in Change /\ c.call = "removed" /\ c.start + Len(c.ids) <= Len(r.agent)
        /\ Erased(Apply(r.agent, r.pending), start, Apply(r.agent, c))
    BY <1>1, <1>5, <2>1, ExtendRemoved
  <2>3. ResourceOK(x) /\ Mirrored(x) = Apply(r.agent, c)
    BY <2>2, OtherPending
  <2> QED
    BY <1>5, <2>2, <2>3 DEF Changed, Mirrored
<1>6. CASE call = "modified"
  <2>1. r.pending.start + Len(r.pending.ids) <= Len(r.agent) /\ start < Len(Apply(r.agent, r.pending))
    BY <1>1, <1>6 DEF Fits, Possible, Mirrored
  <2>2. c \in Change /\ c.call = "modified" /\ c.start + Len(c.ids) <= Len(r.agent)
        /\ Replaced(Apply(r.agent, r.pending), start, Untold(id), Apply(r.agent, c))
    BY <1>1, <1>6, <2>1, ExtendModified
  <2>3. ResourceOK(x) /\ Mirrored(x) = Apply(r.agent, c)
    BY <2>2, OtherPending
  <2> QED
    BY <1>6, <2>2, <2>3 DEF Changed, Mirrored
<1> QED
  BY <1>2, <1>4, <1>5, <1>6

\* handleChange() merges or flushes, and the client ends up with the same list.
LEMMA HandledChange ==
    ASSUME NEW r, ResourceOK(r), NEW call \in Calls, NEW start \in Nat, NEW id \in Contacts,
           Possible(call, start, Len(Mirrored(r))),
           NEW x, x = handleChange(r, call, start, id), ~x.misled
    PROVE  ResourceOK(x) /\ Changed(call, Mirrored(r), start, id, Mirrored(x))
<1>1. r.pending \in Change /\ r.agent \in Seq(AgentEntry) /\ Fits(r) /\ ~r.misled /\ r.misled \in BOOLEAN
  BY ResourceTyped DEF ResourceOK
<1>2. PICK new : new = Single(call, start, id)
  OBVIOUS
<1>3. PICK e : e = IF r.pending.call = call THEN Extend(r.pending, call, start, id) ELSE NoChange
  OBVIOUS
<1>4. PICK f : f = flushChanges(r)
  OBVIOUS
<1>5. r.misled = FALSE
  BY <1>1
<1>6. x = IF r.pending.ids = <<>> /\ Redundant(r.last, call, start)
          THEN Resource(r.pending, r.last, r.agent, r.misled \/ r.last.ids[start - r.last.start + 1] # id)
          ELSE IF r.pending.ids = <<>> THEN Resource(new, r.last, r.agent, r.misled)
          ELSE IF e.ids # <<>>
               THEN Resource(e, r.last, r.agent, r.misled \/ (call = "added" /\ start < r.pending.start))
          ELSE IF r.pending.call = "removed" /\ call = "added" /\ start = r.pending.start /\ r.pending.ids = <<id>>
               THEN Resource(Single("modified", start, id), r.last, r.agent, r.misled)
          ELSE Resource(new, f.last, f.agent, f.misled)
  BY <1>2, <1>3, <1>4, Zenon DEF handleChange, Single
<1>7. CASE r.pending.ids = <<>> /\ Redundant(r.last, call, start)
  <2>1. PICK b : b = (r.misled \/ r.last.ids[start - r.last.start + 1] # id)
    OBVIOUS
  <2>2. x = Resource(r.pending, r.last, r.agent, b)
    BY <1>6, <1>7, <2>1, Zenon
  <2>3. x.misled = b
    BY <2>2, ResourceFields
  <2>4. ~b
    BY <2>3
  <2>5. r.last.ids[start - r.last.start + 1] = id /\ b = FALSE
    BY <1>5, <2>1, <2>4
  <2>6. call = "modified" /\ Covers(r.last, start)
    BY <1>7 DEF Redundant
  <2>7. Replaced(Mirrored(r), start, Untold(id), Mirrored(r))
    BY <1>7, <2>5, <2>6, RedundantChange
  <2>8. x = Resource(r.pending, r.last, r.agent, FALSE)
    BY <2>2, <2>5
  <2>9. ResourceOK(x) /\ Mirrored(x) = Mirrored(r)
    BY <1>1, <2>8, OtherPending DEF Fits, Mirrored
  <2> QED
    BY <2>6, <2>7, <2>9 DEF Changed
<1>8. CASE r.pending.ids = <<>> /\ ~Redundant(r.last, call, start)
  <2>1. x = Resource(new, r.last, r.agent, r.misled)
    BY <1>6, <1>8
  <2>2. Mirrored(r) = r.agent
    BY <1>8, NothingPending DEF Mirrored
  <2> QED
    BY <1>2, <1>8, <2>1, <2>2, PendingSingle
<1>9. CASE r.pending.ids # <<>> /\ e.ids # <<>>
  <2>1. PICK b : b = (r.misled \/ (call = "added" /\ start < r.pending.start))
    OBVIOUS
  <2>2. x = Resource(e, r.last, r.agent, b)
    BY <1>6, <1>9, <2>1, Zenon
  <2>3. x.misled = b
    BY <2>2, ResourceFields
  <2>4. ~b
    BY <2>3
  <2>5. ~(call = "added" /\ start < r.pending.start) /\ b = FALSE
    BY <1>5, <2>1, <2>4
  <2>6. r.pending.call = call /\ e = Extend(r.pending, call, start, id)
    BY <1>3, <1>9, NoChangeType
  <2>7. x = Resource(e, r.last, r.agent, FALSE)
    BY <2>2, <2>5
  <2> QED
    BY <1>9, <2>5, <2>6, <2>7, Extended
<1>10. CASE /\ r.pending.ids # <<>> /\ ~(e.ids # <<>>)
            /\ r.pending.call = "removed" /\ call = "added" /\ start = r.pending.start /\ r.pending.ids = <<id>>
  <2>1. x = Resource(Single("modified", start, id), r.last, r.agent, FALSE)
    BY <1>5, <1>6, <1>10
  <2>2. start + 1 <= Len(r.agent) /\ start < Len(r.agent)
    <3>1. Len(r.pending.ids) = 1 /\ Len(r.agent) \in Nat
      BY <1>1, <1>10
    <3>2. r.pending.start + Len(r.pending.ids) <= Len(r.agent)
      BY <1>1, <1>10 DEF Fits
    <3> QED
      BY <1>10, <3>1, <3>2
  <2>3. Inserted(Apply(r.agent, r.pending), start, Untold(id), Apply(r.agent, Single("modified", start, id)))
    BY <1>1, <1>10, <2>2, Readded
  <2>4. PICK c : c = Single("modified", start, id)
    OBVIOUS
  <2>5. c \in Change /\ c.call = "modified" /\ c.start = start /\ Len(c.ids) = 1
    BY <2>4, SingleType DEF Calls
  <2>6. ResourceOK(x) /\ Mirrored(x) = Apply(r.agent, c)
    BY <2>1, <2>2, <2>4, <2>5, OtherPending
  <2> QED
    BY <1>10, <2>3, <2>4, <2>6 DEF Changed, Mirrored
<1>11. CASE /\ r.pending.ids # <<>> /\ ~(e.ids # <<>>)
            /\ ~(r.pending.call = "removed" /\ call = "added" /\ start = r.pending.start /\ r.pending.ids = <<id>>)
  <2>1. x = Resource(new, f.last, f.agent, f.misled)
    BY <1>6, <1>11, Zenon
  <2>2. ResourceOK(f) /\ f.pending.ids = <<>> /\ f.agent = Mirrored(r) /\ Mirrored(f) = Mirrored(r)
    BY <1>4, FlushedResource
  <2>3. Possible(call, start, Len(f.agent))
    BY <2>2
  <2>4. ResourceOK(x) /\ Changed(call, Mirrored(f), start, id, Mirrored(x))
    BY <1>2, <2>1, <2>2, <2>3, PendingSingle
  <2> QED
    BY <2>2, <2>4
<1> QED
  BY <1>7, <1>8, <1>9, <1>10, <1>11

\* A client stays misled.
LEMMA FlushedMisled ==
    ASSUME NEW r, r.misled
    PROVE  flushChanges(r).misled
<1>1. CASE r.pending.ids = <<>>
  BY <1>1 DEF flushChanges
<1>2. CASE r.pending.ids # <<>>
  BY <1>2 DEF flushChanges, Resource
<1> QED
  BY <1>1, <1>2

\* A client which was misled once is not followed any more.
LEMMA HandledMisled ==
    ASSUME NEW r, r.misled, NEW call, NEW start, NEW id
    PROVE  handleChange(r, call, start, id).misled
<1>1. PICK f : f = flushChanges(r)
  OBVIOUS
<1>2. f.misled
  BY <1>1, FlushedMisled
<1>3. ASSUME NEW p, NEW l, NEW a, NEW m, m
      PROVE  Resource(p, l, a, m).misled
  BY <1>3 DEF Resource
<1> QED
  BY <1>1, <1>2, <1>3 DEF handleChange

(***************************************************************************)
(* A client follows a list of contacts.                                    *)
(***************************************************************************)
\* The list m has the contacts q, with current data as far as they were read.
Agrees(m, q, val, mods) ==
    /\ Len(m) = Len(q)
    /\ \A i \in 1..Len(q) :
          /\ m[i].id = q[i]
          /\ m[i].data \in {Unread, val[q[i]]} \/ q[i] \in mods

\* The client, unless misled, is going to have the contacts q.
Follows(r, q, val, mods) == r.misled \/ (ResourceOK(r) /\ Agrees(Mirrored(r), q, val, mods))

\* Fields of an entry which was not read.
LEMMA UntoldFields == \A id : Untold(id).id = id /\ Untold(id).data = Unread
  BY DEF Untold

\* handleChange(): the client follows a list in which a contact is added.
LEMMA FollowsAdded ==
    ASSUME NEW r, NEW q \in Seq(Contacts), NEW val, NEW mods, Follows(r, q, val, mods),
           NEW start \in Nat, start <= Len(q), NEW id \in Contacts, NEW q2, Inserted(q, start, id, q2)
    PROVE  Follows(handleChange(r, "added", start, id), q2, val, mods)
<1>1. PICK x : x = handleChange(r, "added", start, id)
  OBVIOUS
<1>2. CASE r.misled \/ x.misled
  BY <1>1, <1>2, HandledMisled DEF Follows
<1>3. CASE ~r.misled /\ ~x.misled
  <2>1. ResourceOK(r) /\ Agrees(Mirrored(r), q, val, mods)
    BY <1>3 DEF Follows
  <2>2. PICK m : m = Mirrored(r)
    OBVIOUS
  <2>3. PICK n : n = Mirrored(x)
    OBVIOUS
  <2>4. Possible("added", start, Len(Mirrored(r)))
    BY <2>1 DEF Agrees, Possible
  <2>5. ResourceOK(x) /\ Inserted(m, start, Untold(id), n)
    BY <1>1, <1>3, <2>1, <2>2, <2>3, <2>4, HandledChange DEF Changed, Calls
  <2>6. PICK k \in Nat : k = Len(q) /\ start <= k
    OBVIOUS
  <2>7. Len(m) = k /\ Len(n) = k + 1 /\ Len(q2) = k + 1
    BY <2>1, <2>2, <2>5, <2>6 DEF Agrees, Inserted
  <2>8. ASSUME NEW i \in 1..(k + 1)
        PROVE  n[i].id = q2[i] /\ (n[i].data \in {Unread, val[q2[i]]} \/ q2[i] \in mods)
    <3>1. n[i] = IF i <= start THEN m[i] ELSE IF i = start + 1 THEN Untold(id) ELSE m[i - 1]
      BY <2>5, <2>7 DEF Inserted
    <3>2. q2[i] = IF i <= start THEN q[i] ELSE IF i = start + 1 THEN id ELSE q[i - 1]
      BY <2>7 DEF Inserted
    <3>3. \A j \in 1..k : m[j].id = q[j] /\ (m[j].data \in {Unread, val[q[j]]} \/ q[j] \in mods)
      BY <2>1, <2>2, <2>6 DEF Agrees
    <3>4. CASE i <= start
      <4>1. i \in 1..k
        BY <2>6, <3>4
      <4> QED
        BY <3>1, <3>2, <3>3, <3>4, <4>1
    <3>5. CASE i = start + 1
      <4>1. n[i] = Untold(id) /\ q2[i] = id
        BY <3>1, <3>2, <3>5
      <4> QED
        BY <4>1, UntoldFields
    <3>6. CASE ~(i <= start) /\ i # start + 1
      <4>1. i - 1 \in 1..k
        BY <3>6
      <4>2. n[i] = m[i - 1] /\ q2[i] = q[i - 1]
        BY <3>1, <3>2, <3>6
      <4> QED
        BY <3>3, <4>1, <4>2
    <3> QED
      BY <3>4, <3>5, <3>6
  <2>9. Agrees(n, q2, val, mods)
    BY <2>7, <2>8 DEF Agrees
  <2> QED
    BY <1>1, <2>3, <2>5, <2>9 DEF Follows
<1> QED
  BY <1>2, <1>3

\* The same for a contact that is removed, which need not be modified anymore.
LEMMA FollowsRemoved ==
    ASSUME NEW r, NEW q \in Seq(Contacts), NEW val, NEW mods, NEW mods2, Follows(r, q, val, mods),
           NEW start \in Nat, start < Len(q), NEW id \in Contacts, NEW q2, Erased(q, start, q2),
           \A i \in 1..Len(q) : i # start + 1 /\ q[i] \in mods => q[i] \in mods2
    PROVE  Follows(handleChange(r, "removed", start, id), q2, val, mods2)
<1>1. PICK x : x = handleChange(r, "removed", start, id)
  OBVIOUS
<1>2. CASE r.misled \/ x.misled
  BY <1>1, <1>2, HandledMisled DEF Follows
<1>3. CASE ~r.misled /\ ~x.misled
  <2>1. ResourceOK(r) /\ Agrees(Mirrored(r), q, val, mods)
    BY <1>3 DEF Follows
  <2>2. PICK m : m = Mirrored(r)
    OBVIOUS
  <2>3. PICK n : n = Mirrored(x)
    OBVIOUS
  <2>4. Possible("removed", start, Len(Mirrored(r)))
    BY <2>1 DEF Agrees, Possible
  <2>5. ResourceOK(x) /\ Erased(m, start, n)
    BY <1>1, <1>3, <2>1, <2>2, <2>3, <2>4, HandledChange DEF Changed, Calls
  <2>6. PICK k \in Nat : k = Len(q) /\ start < k
    OBVIOUS
  <2>7. Len(m) = k /\ Len(n) = k - 1 /\ Len(q2) = k - 1
    BY <2>1, <2>2, <2>5, <2>6 DEF Agrees, Erased
  <2>8. ASSUME NEW i \in 1..(k - 1)
        PROVE  n[i].id = q2[i] /\ (n[i].data \in {Unread, val[q2[i]]} \/ q2[i] \in mods2)
    <3>1. n[i] = IF i <= start THEN m[i] ELSE m[i + 1]
      BY <2>5, <2>7 DEF Erased
    <3>2. q2[i] = IF i <= start THEN q[i] ELSE q[i + 1]
      BY <2>7 DEF Erased
    <3>3. \A j \in 1..k : m[j].id = q[j] /\ (m[j].data \in {Unread, val[q[j]]} \/ q[j] \in mods)
      BY <2>1, <2>2, <2>6 DEF Agrees
    <3>4. \A j \in 1..k : j # start + 1 /\ q[j] \in mods => q[j] \in mods2
      BY <2>6
    <3>5. PICK j \in 1..k : j # start + 1 /\ n[i] = m[j] /\ q2[i] = q[j]
      <4>1. CASE i <= start
        <5>1. i \in 1..k /\ i # start + 1
          BY <4>1
        <5> QED
          BY <3>1, <3>2, <4>1, <5>1
      <4>2. CASE ~(i <= start)
        <5>1. i + 1 \in 1..k /\ i + 1 # start + 1
          BY <4>2
        <5> QED
          BY <3>1, <3>2, <4>2, <5>1
      <4> QED
        BY <4>1, <4>2
    <3> QED
      BY <3>3, <3>4, <3>5
  <2>9. Agrees(n, q2, val, mods2)
    BY <2>7, <2>8 DEF Agrees
  <2> QED
    BY <1>1, <2>3, <2>5, <2>9 DEF Follows
<1> QED
  BY <1>2, <1>3

\* The same for a contact that is modified, or replaced by another one.
LEMMA FollowsModified ==
    ASSUME NEW r, NEW q \in Seq(Contacts), NEW val, NEW mods, NEW mods2, Follows(r, q, val, mods),
           NEW start \in Nat, start < Len(q), NEW id \in Contacts, NEW q2, Replaced(q, start, id, q2),
           \A i \in 1..Len(q) : i # start + 1 /\ q[i] \in mods => q[i] \in mods2
    PROVE  Follows(handleChange(r, "modified", start, id), q2, val, mods2)
<1>1. PICK x : x = handleChange(r, "modified", start, id)
  OBVIOUS
<1>2. CASE r.misled \/ x.misled
  BY <1>1, <1>2, HandledMisled DEF Follows
<1>3. CASE ~r.misled /\ ~x.misled
  <2>1. ResourceOK(r) /\ Agrees(Mirrored(r), q, val, mods)
    BY <1>3 DEF Follows
  <2>2. PICK m : m = Mirrored(r)
    OBVIOUS
  <2>3. PICK n : n = Mirrored(x)
    OBVIOUS
  <2>4. Possible("modified", start, Len(Mirrored(r)))
    BY <2>1 DEF Agrees, Possible
  <2>5. ResourceOK(x) /\ Replaced(m, start, Untold(id), n)
    BY <1>1, <1>3, <2>1, <2>2, <2>3, <2>4, HandledChange DEF Changed, Calls
  <2>6. PICK k \in Nat : k = Len(q) /\ start < k
    OBVIOUS
  <2>7. Len(m) = k /\ Len(n) = k /\ Len(q2) = k
    BY <2>1, <2>2, <2>5, <2>6 DEF Agrees, Replaced
  <2>8. ASSUME NEW i \in 1..k
        PROVE  n[i].id = q2[i] /\ (n[i].data \in {Unread, val[q2[i]]} \/ q2[i] \in mods2)
    <3>1. n[i] = IF i = start + 1 THEN Untold(id) ELSE m[i]
      BY <2>5, <2>7 DEF Replaced
    <3>2. q2[i] = IF i = start + 1 THEN id ELSE q[i]
      BY <2>7 DEF Replaced
    <3>3. m[i].id = q[i] /\ (m[i].data \in {Unread, val[q[i]]} \/ q[i] \in mods)
      BY <2>1, <2>2, <2>6 DEF Agrees
    <3>4. i # start + 1 /\ q[i] \in mods => q[i] \in mods2
      BY <2>6
    <3>5. CASE i = start + 1
      <4>1. n[i] = Untold(id) /\ q2[i] = id
        BY <3>1, <3>2, <3>5
      <4> QED
        BY <4>1, UntoldFields
    <3>6. CASE i # start + 1
      BY <3>1, <3>2, <3>3, <3>4, <3>6
    <3> QED
      BY <3>5, <3>6
  <2>9. Agrees(n, q2, val, mods2)
    BY <2>7, <2>8 DEF Agrees
  <2> QED
    BY <1>1, <2>3, <2>5, <2>9 DEF Follows
<1> QED
  BY <1>2, <1>3

\* The same for flushChanges().
LEMMA FollowsFlushed ==
    ASSUME NEW r, NEW q, NEW val, NEW mods, Follows(r, q, val, mods)
    PROVE  Follows(flushChanges(r), q, val, mods)
  BY FlushedMisled, FlushedResource DEF Follows

\* Data of contacts may change if these are among the modified ones.
LEMMA FollowsData ==
    ASSUME NEW r, NEW q, NEW val, NEW mods, NEW val2, NEW mods2, Follows(r, q, val, mods),
           \A i \in 1..Len(q) : /\ val2[q[i]] = val[q[i]] \/ q[i] \in mods2
                                /\ q[i] \in mods => q[i] \in mods2
    PROVE  Follows(r, q, val2, mods2)
<1>1. CASE r.misled
  BY <1>1 DEF Follows
<1>2. CASE ~r.misled
  <2>1. ResourceOK(r) /\ Agrees(Mirrored(r), q, val, mods)
    BY <1>2 DEF Follows
  <2>2. PICK m : m = Mirrored(r)
    OBVIOUS
  <2>3. ASSUME NEW i \in 1..Len(q)
        PROVE  m[i].id = q[i] /\ (m[i].data \in {Unread, val2[q[i]]} \/ q[i] \in mods2)
    BY <2>1, <2>2 DEF Agrees
  <2>4. Agrees(m, q, val2, mods2)
    BY <2>1, <2>2, <2>3 DEF Agrees
  <2> QED
    BY <2>1, <2>2, <2>4 DEF Follows
<1> QED
  BY <1>1, <1>2

\* Only the list matters, not how it is written.
LEMMA FollowsSame ==
    ASSUME NEW r, NEW q, NEW q2, NEW val, NEW mods, Follows(r, q, val, mods),
           Len(q2) = Len(q), \A i \in 1..Len(q) : q2[i] = q[i]
    PROVE  Follows(r, q2, val, mods)
  BY DEF Follows, Agrees

(***************************************************************************)
(* FilteredView: the mapping, and the client which follows it.             *)
(***************************************************************************)

\* Types of the view.
ViewType ==
    [open : BOOLEAN, filter : SUBSET Values, max : Limits \cup {Unlimited},
     local2parent : Seq(Int), fill : BOOLEAN, replaced : BOOLEAN]

\* A list of numbers in strictly ascending order.
Increasing(l) == \A i, j \in 1..Len(l) : i < j => l[i] < l[j]

\* l maps to indices below n.
Mapping(l, n) ==
    /\ l \in Seq(Int)
    /\ Increasing(l)
    /\ \A i \in 1..Len(l) : 0 <= l[i] /\ l[i] < n

\* Index p of the full view is in the view.
Has(l, p) == \E i \in 1..Len(l) : l[i] = p

\* Who is at which of n indices of the full view.
Holders(n) == [0..(n - 1) -> Contacts]

\* The contacts of a view if h says who is at which index of the full view.
Names(h, l) == [i \in 1..Len(l) |-> h[l[i]]]

\* A view and its resource, w, fit to the full view with n entries of the
\* contacts h: the client follows the contacts of the view.
Consistent(w, n, h, val, mods) ==
    /\ w.view \in ViewType
    /\ Mapping(w.view.local2parent, n)
    /\ Follows(w.res, Names(h, w.view.local2parent), val, mods)

\* Two views for the same search.
SameSearch(v, w) ==
    v.open = w.open /\ v.filter = w.filter /\ v.max = w.max /\ v.replaced = w.replaced

\* Length and elements of a mapping.
LEMMA MappingFacts ==
    ASSUME NEW l, NEW n \in Nat, Mapping(l, n)
    PROVE  /\ l \in Seq(Int) /\ Len(l) \in Nat /\ DOMAIN l = 1..Len(l)
           /\ \A i \in 1..Len(l) : l[i] \in Nat /\ l[i] \in 0..(n - 1)
           /\ \A i, j \in 1..Len(l) : i < j => l[i] < l[j]
  BY DEF Mapping, Increasing

\* The contacts of a mapping.
LEMMA NamesType ==
    ASSUME NEW n \in Nat, NEW l, Mapping(l, n), NEW h \in Holders(n)
    PROVE  /\ Names(h, l) \in Seq(Contacts) /\ Len(Names(h, l)) = Len(l)
           /\ \A i \in 1..Len(l) : Names(h, l)[i] = h[l[i]] /\ h[l[i]] \in Contacts
<1>1. Len(l) \in Nat /\ \A i \in 1..Len(l) : l[i] \in 0..(n - 1)
  BY MappingFacts
<1>2. \A i \in 1..Len(l) : h[l[i]] \in Contacts
  BY <1>1 DEF Holders
<1>3. Names(h, l) \in [1..Len(l) -> Contacts]
  BY <1>2 DEF Names
<1>4. Names(h, l) \in Seq(Contacts) /\ Len(Names(h, l)) = Len(l)
  BY <1>1, <1>3, FunctionIsSeq
<1> QED
  BY <1>2, <1>4 DEF Names

\* A view with another mapping is for the same search.
LEMMA WithFields ==
    ASSUME NEW w, w.view \in ViewType, NEW l \in Seq(Int), NEW fill \in BOOLEAN, NEW r,
           NEW y, y = With(w, l, fill, r)
    PROVE  /\ y.res = r /\ y.view \in ViewType
           /\ y.view.local2parent = l /\ y.view.fill = fill /\ SameSearch(y.view, w.view)
<1>1. y.view = [w.view EXCEPT !.local2parent = l, !.fill = fill] /\ y.res = r
  BY DEF With
<1>2. y.view \in ViewType
  BY <1>1 DEF ViewType
<1> QED
  BY <1>1, <1>2 DEF ViewType, SameSearch

\* Fields of a view have their types.
LEMMA ViewFields ==
    ASSUME NEW v \in ViewType
    PROVE  /\ v.open \in BOOLEAN /\ v.fill \in BOOLEAN /\ v.filter \subseteq Values
           /\ v.max \in Limits \cup {Unlimited} /\ v.local2parent \in Seq(Int)
  BY DEF ViewType

\* lower_bound() splits a mapping.
LEMMA LowerBound ==
    ASSUME NEW n \in Nat, NEW l, Mapping(l, n), NEW p \in Nat
    PROVE  lower_bound(l, p) \in 0..Len(l) /\ \A i \in 1..Len(l) : l[i] < p <=> i <= lower_bound(l, p)
<1>1. Len(l) \in Nat /\ DOMAIN l = 1..Len(l) /\ \A i \in 1..Len(l) : l[i] \in Nat
  BY MappingFacts
<1>2. \A i, j \in 1..Len(l) : i < j => l[i] < l[j]
  BY MappingFacts
<1>3. PICK S : S = {i \in 1..Len(l) : l[i] < p}
  OBVIOUS
<1>4. S \subseteq 1..Len(l)
  BY <1>3
<1>5. ASSUME NEW i \in S, NEW j \in 1..Len(l), j < i
      PROVE  j \in S
  <2>1. i \in 1..Len(l) /\ l[i] < p
    BY <1>3
  <2>2. l[j] < l[i] /\ l[j] \in Nat /\ l[i] \in Nat
    BY <1>1, <1>2, <1>5, <2>1
  <2> QED
    BY <1>3, <2>1, <2>2
<1>6. Cardinality(S) \in 0..Len(l) /\ \A i \in 1..Len(l) : i \in S <=> i <= Cardinality(S)
  BY <1>1, <1>4, <1>5, PrefixCardinality
<1>7. lower_bound(l, p) = Cardinality(S)
  BY <1>1, <1>3 DEF lower_bound
<1>8. \A i \in 1..Len(l) : i \in S <=> l[i] < p
  BY <1>3
<1> QED
  BY <1>6, <1>7, <1>8

\* Length and elements of a shifted mapping.
LEMMA ShiftedFacts ==
    ASSUME NEW l \in Seq(Int), NEW at \in Nat, NEW d \in Int
    PROVE  /\ Shifted(l, at, d) \in Seq(Int) /\ Len(Shifted(l, at, d)) = Len(l)
           /\ \A i \in 1..Len(l) : Shifted(l, at, d)[i] = IF i > at THEN l[i] + d ELSE l[i]
<1>1. Len(l) \in Nat /\ DOMAIN l = 1..Len(l) /\ \A i \in 1..Len(l) : l[i] \in Int
  OBVIOUS
<1>2. Shifted(l, at, d) \in [1..Len(l) -> Int]
  BY <1>1 DEF Shifted
<1>3. Shifted(l, at, d) \in Seq(Int) /\ Len(Shifted(l, at, d)) = Len(l)
  BY <1>1, <1>2, FunctionIsSeq
<1> QED
  BY <1>1, <1>3 DEF Shifted

\* All but the contact at index at keep their modification.
Spared(h, l, at, mods, mods2) ==
    \A i \in 1..Len(l) : i # at + 1 /\ h[l[i]] \in mods => h[l[i]] \in mods2

\* The view y is w without index at, and its client knows.
EraseResult(y, w, at, fill, n, h, val, mods) ==
    /\ Consistent(y, n, h, val, mods)
    /\ SameSearch(y.view, w.view) /\ y.view.fill = fill
    /\ Erased(w.view.local2parent, at, y.view.local2parent)

\* Removing an index of the view keeps view and client consistent.
LEMMA EraseKeeps ==
    ASSUME NEW n \in Nat, NEW h \in Holders(n), NEW val, NEW mods, NEW mods2,
           NEW w, Consistent(w, n, h, val, mods),
           NEW at \in Nat, at < Len(w.view.local2parent), NEW id \in Contacts, NEW fill \in BOOLEAN,
           Spared(h, w.view.local2parent, at, mods, mods2),
           NEW y, y = EraseLocal(w, at, id, fill)
    PROVE  EraseResult(y, w, at, fill, n, h, val, mods2)
<1>1. w.view \in ViewType /\ Mapping(w.view.local2parent, n)
      /\ Follows(w.res, Names(h, w.view.local2parent), val, mods)
  BY DEF Consistent
<1>2. PICK l : l = w.view.local2parent
  OBVIOUS
<1>3. /\ l \in Seq(Int) /\ Len(l) \in Nat
      /\ \A i \in 1..Len(l) : l[i] \in Nat /\ l[i] \in 0..(n - 1)
      /\ \A i, j \in 1..Len(l) : i < j => l[i] < l[j]
  BY <1>1, <1>2, MappingFacts
<1>4. PICK k \in Nat : k = Len(l)
  BY <1>3
<1>5. at + 1 \in 1..k
  BY <1>2, <1>4
<1>6. PICK l2 : l2 = RemoveAt(l, at + 1)
  OBVIOUS
<1>7. /\ l2 \in Seq(Int) /\ Len(l2) = k - 1
      /\ \A i \in 1..(k - 1) : l2[i] = IF i < at + 1 THEN l[i] ELSE l[i + 1]
  <2>1. l \in Seq(Int) /\ at + 1 \in 1..Len(l)
    BY <1>3, <1>4, <1>5
  <2> QED
    BY <1>4, <1>6, <2>1, RemoveAtProperties
<1>8. \A i \in 1..(k - 1) : l2[i] = IF i <= at THEN l[i] ELSE l[i + 1]
  BY <1>7
<1>9. Erased(l, at, l2)
  BY <1>4, <1>7, <1>8 DEF Erased
<1>10. y = With(w, l2, fill, handleChange(w.res, "removed", at, id))
  BY <1>2, <1>6 DEF EraseLocal
<1>11. /\ y.res = handleChange(w.res, "removed", at, id) /\ y.view \in ViewType
       /\ y.view.local2parent = l2 /\ y.view.fill = fill /\ SameSearch(y.view, w.view)
  BY <1>1, <1>7, <1>10, WithFields
<1>12. Mapping(l2, n)
  <2>1. ASSUME NEW i \in 1..(k - 1)
        PROVE  0 <= l2[i] /\ l2[i] < n
    <3>1. PICK a \in 1..k : l2[i] = l[a]
      BY <1>8
    <3>2. l[a] \in 0..(n - 1)
      BY <1>3, <1>4
    <3> QED
      BY <3>1, <3>2
  <2>2. ASSUME NEW i \in 1..(k - 1), NEW j \in 1..(k - 1), i < j
        PROVE  l2[i] < l2[j]
    <3>1. PICK a \in 1..k : a = (IF i <= at THEN i ELSE i + 1) /\ l2[i] = l[a]
      BY <1>8
    <3>2. PICK b \in 1..k : b = (IF j <= at THEN j ELSE j + 1) /\ l2[j] = l[b]
      BY <1>8
    <3>3. a < b
      BY <2>2, <3>1, <3>2
    <3> QED
      BY <1>3, <1>4, <3>1, <3>2, <3>3
  <2> QED
    BY <1>7, <2>1, <2>2 DEF Mapping, Increasing
<1>13. PICK q : q = Names(h, l)
  OBVIOUS
<1>14. PICK q2 : q2 = Names(h, l2)
  OBVIOUS
<1>15. q \in Seq(Contacts) /\ Len(q) = k /\ \A i \in 1..k : q[i] = h[l[i]]
  BY <1>1, <1>2, <1>4, <1>13, NamesType
<1>16. Len(q2) = k - 1 /\ \A i \in 1..(k - 1) : q2[i] = h[l2[i]]
  <2>1. Len(l2) = k - 1
    BY <1>7
  <2>2. Len(q2) = Len(l2) /\ \A i \in 1..Len(l2) : q2[i] = h[l2[i]]
    BY <1>12, <1>14, NamesType
  <2> QED
    BY <2>1, <2>2
<1>17. ASSUME NEW i \in 1..(k - 1)
       PROVE  q2[i] = IF i <= at THEN q[i] ELSE q[i + 1]
  <2>1. i \in 1..k /\ i + 1 \in 1..k
    OBVIOUS
  <2> QED
    BY <1>8, <1>15, <1>16, <2>1, SMTT(30)
<1>18. Erased(q, at, q2)
  BY <1>15, <1>16, <1>17 DEF Erased
<1>19. \A i \in 1..Len(q) : i # at + 1 /\ q[i] \in mods => q[i] \in mods2
  BY <1>2, <1>4, <1>15 DEF Spared
<1>20. at < Len(q) /\ Follows(w.res, q, val, mods)
  BY <1>1, <1>2, <1>4, <1>13, <1>15
<1>21. Follows(y.res, q2, val, mods2)
  BY <1>11, <1>15, <1>18, <1>19, <1>20, FollowsRemoved
<1> QED
  BY <1>2, <1>9, <1>11, <1>12, <1>14, <1>21 DEF Consistent, EraseResult

\* A mapping without one of its indices has all others.
LEMMA HasErased ==
    ASSUME NEW n \in Nat, NEW l, Mapping(l, n), NEW at \in Nat, at < Len(l), NEW l2, Erased(l, at, l2)
    PROVE  \A x : Has(l2, x) <=> Has(l, x) /\ x # l[at + 1]
<1>1. PICK k \in Nat : k = Len(l) /\ Len(l2) = k - 1 /\ at < k
  BY MappingFacts DEF Erased
<1>2. \A i, j \in 1..k : i < j => l[i] < l[j]
  BY <1>1, MappingFacts
<1>3. \A i \in 1..k : l[i] \in Nat
  BY <1>1, MappingFacts
<1>4. \A i \in 1..(k - 1) : l2[i] = IF i <= at THEN l[i] ELSE l[i + 1]
  BY <1>1 DEF Erased
<1>5. \A i \in 1..k : i # at + 1 => l[i] # l[at + 1]
  <2>1. at + 1 \in 1..k
    BY <1>1
  <2> QED
    BY <1>2, <1>3, <2>1
<1> SUFFICES ASSUME NEW x
             PROVE  Has(l2, x) <=> Has(l, x) /\ x # l[at + 1]
  OBVIOUS
<1>6. ASSUME Has(l2, x)
      PROVE  Has(l, x) /\ x # l[at + 1]
  <2>1. PICK i \in 1..(k - 1) : l2[i] = x
    BY <1>1, <1>6 DEF Has
  <2>2. PICK j \in 1..k : j # at + 1 /\ l2[i] = l[j]
    <3>1. i \in 1..k /\ i + 1 \in 1..k /\ (i <= at => i # at + 1) /\ (~(i <= at) => i + 1 # at + 1)
      BY <1>1
    <3> QED
      BY <1>4, <3>1
  <2> QED
    BY <1>1, <1>5, <2>1, <2>2 DEF Has
<1>7. ASSUME Has(l, x), x # l[at + 1]
      PROVE  Has(l2, x)
  <2>1. PICK i \in 1..k : l[i] = x
    BY <1>1, <1>7 DEF Has
  <2>2. i # at + 1
    BY <1>7, <2>1
  <2>3. CASE i <= at
    <3>1. i \in 1..(k - 1)
      BY <1>1, <2>3
    <3> QED
      BY <1>1, <1>4, <2>1, <2>3, <3>1 DEF Has
  <2>4. CASE ~(i <= at)
    <3>1. i - 1 \in 1..(k - 1) /\ ~(i - 1 <= at) /\ (i - 1) + 1 = i
      BY <1>1, <2>2, <2>4
    <3>2. l2[i - 1] = l[i]
      BY <1>4, <3>1
    <3> QED
      BY <1>1, <2>1, <3>1, <3>2 DEF Has
  <2> QED
    BY <2>3, <2>4
<1> QED
  BY <1>6, <1>7

\* Length and elements after InsertAt().
LEMMA InsertInto ==
    ASSUME NEW S, NEW l \in Seq(S), NEW j \in 1..(Len(l) + 1), NEW p \in S
    PROVE  /\ InsertAt(l, j, p) \in Seq(S) /\ Len(InsertAt(l, j, p)) = Len(l) + 1
           /\ \A i \in 1..(Len(l) + 1) :
                 InsertAt(l, j, p)[i] = IF i < j THEN l[i] ELSE IF i = j THEN p ELSE l[i - 1]
  BY InsertAtProperties, SMTT(60)

\* Index at of the mapping is the place for p, which it does not have.
Splits(l, p, at) ==
    /\ at \in 0..Len(l)
    /\ \A i \in 1..Len(l) : l[i] # p /\ (l[i] < p <=> i <= at)

\* The mapping l2 has p in addition.
Extends(l2, l, p) == \A x : Has(l2, x) <=> Has(l, x) \/ x = p

\* Inserting a missing index at its place keeps view and client consistent.
LEMMA InsertKeeps ==
    ASSUME NEW n \in Nat, NEW h \in Holders(n), NEW val, NEW mods,
           NEW w, Consistent(w, n, h, val, mods),
           NEW p \in Nat, p < n, NEW at \in Nat, Splits(w.view.local2parent, p, at),
           NEW c, c = h[p], NEW y, y = InsertLocal(w, at, p, c)
    PROVE  /\ Consistent(y, n, h, val, mods)
           /\ SameSearch(y.view, w.view) /\ y.view.fill = w.view.fill
           /\ Extends(y.view.local2parent, w.view.local2parent, p)
<1>0. c \in Contacts /\ h[p] = c
  BY DEF Holders
<1>1. w.view \in ViewType /\ Mapping(w.view.local2parent, n)
      /\ Follows(w.res, Names(h, w.view.local2parent), val, mods)
  BY DEF Consistent
<1>2. PICK l : l = w.view.local2parent
  OBVIOUS
<1>3. /\ l \in Seq(Int) /\ Len(l) \in Nat
      /\ \A i \in 1..Len(l) : l[i] \in Nat /\ l[i] \in 0..(n - 1)
      /\ \A i, j \in 1..Len(l) : i < j => l[i] < l[j]
  BY <1>1, <1>2, MappingFacts
<1>4. PICK k \in Nat : k = Len(l) /\ at <= k
  BY <1>2, <1>3 DEF Splits
<1>5. /\ \A i \in 1..k : l[i] < p <=> i <= at
      /\ \A i \in 1..k : l[i] # p
  BY <1>2, <1>4 DEF Splits
<1>6. PICK l2 : l2 = InsertAt(l, at + 1, p)
  OBVIOUS
<1>7. /\ l2 \in Seq(Int) /\ Len(l2) = k + 1
      /\ \A i \in 1..(k + 1) : l2[i] = IF i < at + 1 THEN l[i] ELSE IF i = at + 1 THEN p ELSE l[i - 1]
  <2>5. PICK S : S = Int
    OBVIOUS
  <2>1. PICK q \in Seq(S), x \in S : q = l /\ x = p
    BY <1>3, <2>5
  <2>2. PICK j \in 1..(Len(q) + 1) : j = at + 1
    BY <1>4, <2>1
  <2>3. /\ InsertAt(q, j, x) \in Seq(S) /\ Len(InsertAt(q, j, x)) = Len(q) + 1
        /\ \A i \in 1..(Len(q) + 1) :
              InsertAt(q, j, x)[i] = IF i < j THEN q[i] ELSE IF i = j THEN x ELSE q[i - 1]
    BY InsertInto, SMTT(60)
  <2>4. l2 = InsertAt(q, j, x)
    BY <1>6, <2>1, <2>2
  <2>6. l2 \in Seq(Int)
    BY <2>3, <2>4, <2>5, Zenon
  <2> QED
    BY <1>4, <2>1, <2>2, <2>3, <2>4, <2>6
<1>8. \A i \in 1..(k + 1) : l2[i] = IF i <= at THEN l[i] ELSE IF i = at + 1 THEN p ELSE l[i - 1]
  BY <1>7
<1>9. y = With(w, l2, w.view.fill, handleChange(w.res, "added", at, c))
  BY <1>2, <1>6 DEF InsertLocal
<1>10. w.view.fill \in BOOLEAN
  BY <1>1, ViewFields
<1>11. /\ y.res = handleChange(w.res, "added", at, c) /\ y.view \in ViewType
       /\ y.view.local2parent = l2 /\ y.view.fill = w.view.fill /\ SameSearch(y.view, w.view)
  BY <1>1, <1>7, <1>9, <1>10, WithFields
<1>12. Mapping(l2, n)
  <2>1. ASSUME NEW i \in 1..(k + 1)
        PROVE  0 <= l2[i] /\ l2[i] < n
    <3>1. l2[i] = p \/ \E a \in 1..k : l2[i] = l[a]
      <4>1. CASE i <= at
        BY <1>4, <1>8, <4>1
      <4>2. CASE i = at + 1
        BY <1>8, <4>2
      <4>3. CASE ~(i <= at) /\ i # at + 1
        <5>1. i - 1 \in 1..k
          BY <1>4, <4>3
        <5> QED
          BY <1>8, <4>3, <5>1
      <4> QED
        BY <4>1, <4>2, <4>3
    <3>2. \A a \in 1..k : l[a] \in 0..(n - 1)
      BY <1>3, <1>4
    <3> QED
      BY <3>1, <3>2
  <2>2. ASSUME NEW i \in 1..(k + 1), NEW j \in 1..(k + 1), i < j
        PROVE  l2[i] < l2[j]
    <3>1. \A a, b \in 1..k : a < b => l[a] < l[b]
      BY <1>3, <1>4
    <3>2. \A a \in 1..k : l[a] \in Nat
      BY <1>3, <1>4
    <3>3. CASE j <= at
      <4>1. i \in 1..k /\ j \in 1..k /\ i <= at
        BY <1>4, <2>2, <3>3
      <4> QED
        BY <1>8, <2>2, <3>1, <3>3, <4>1
    <3>4. CASE j = at + 1
      <4>1. i \in 1..k /\ i <= at
        BY <1>4, <2>2, <3>4
      <4>2. l2[i] = l[i] /\ l2[j] = p
        BY <1>8, <3>4, <4>1
      <4> QED
        BY <1>5, <4>1, <4>2
    <3>5. CASE at + 1 < j /\ i <= at
      <4>1. i \in 1..k /\ j - 1 \in 1..k /\ i < j - 1
        BY <1>4, <3>5
      <4>2. l2[i] = l[i] /\ l2[j] = l[j - 1]
        BY <1>8, <3>5, <4>1
      <4> QED
        BY <3>1, <4>1, <4>2
    <3>6. CASE at + 1 < j /\ i = at + 1
      <4>1. j - 1 \in 1..k /\ ~(j - 1 <= at)
        BY <1>4, <3>6
      <4>2. l2[i] = p /\ l2[j] = l[j - 1]
        BY <1>8, <3>6
      <4>3. ~(l[j - 1] < p) /\ l[j - 1] # p /\ l[j - 1] \in Nat
        BY <1>5, <3>2, <4>1
      <4> QED
        BY <4>2, <4>3
    <3>7. CASE at + 1 < j /\ at + 1 < i
      <4>1. i - 1 \in 1..k /\ j - 1 \in 1..k /\ i - 1 < j - 1
        BY <1>4, <2>2, <3>7
      <4>2. l2[i] = l[i - 1] /\ l2[j] = l[j - 1]
        BY <1>8, <3>7
      <4> QED
        BY <3>1, <4>1, <4>2
    <3> QED
      BY <2>2, <3>3, <3>4, <3>5, <3>6, <3>7
  <2> QED
    BY <1>7, <2>1, <2>2 DEF Mapping, Increasing
<1>13. PICK q : q = Names(h, l)
  OBVIOUS
<1>14. PICK q2 : q2 = Names(h, l2)
  OBVIOUS
<1>15. q \in Seq(Contacts) /\ Len(q) = k /\ \A i \in 1..k : q[i] = h[l[i]]
  BY <1>1, <1>2, <1>4, <1>13, NamesType
<1>16. Len(q2) = k + 1 /\ \A i \in 1..(k + 1) : q2[i] = h[l2[i]]
  <2>1. Len(l2) = k + 1
    BY <1>7
  <2>2. Len(q2) = Len(l2) /\ \A i \in 1..Len(l2) : q2[i] = h[l2[i]]
    BY <1>12, <1>14, NamesType
  <2> QED
    BY <2>1, <2>2
<1>17. ASSUME NEW i \in 1..(k + 1)
       PROVE  q2[i] = IF i <= at THEN q[i] ELSE IF i = at + 1 THEN c ELSE q[i - 1]
  <2>1. CASE i <= at
    <3>1. i \in 1..k
      BY <1>4, <2>1
    <3> QED
      BY <1>8, <1>15, <1>16, <2>1, <3>1
  <2>2. CASE i = at + 1
    BY <1>0, <1>8, <1>16, <2>2
  <2>3. CASE ~(i <= at) /\ i # at + 1
    <3>1. i - 1 \in 1..k
      BY <1>4, <2>3
    <3>2. l2[i] = l[i - 1] /\ q2[i] = h[l2[i]] /\ q[i - 1] = h[l[i - 1]]
      BY <1>8, <1>15, <1>16, <2>3, <3>1
    <3> QED
      BY <2>3, <3>2
  <2> QED
    BY <2>1, <2>2, <2>3
<1>18. Inserted(q, at, c, q2)
  BY <1>15, <1>16, <1>17 DEF Inserted
<1>19. at <= Len(q) /\ Follows(w.res, q, val, mods) /\ c \in Contacts
  BY <1>0, <1>1, <1>2, <1>4, <1>13, <1>15
<1>20. Follows(y.res, q2, val, mods)
  BY <1>4, <1>11, <1>15, <1>18, <1>19, FollowsAdded
<1>21. ASSUME NEW x
       PROVE  Has(l2, x) <=> Has(l, x) \/ x = p
  <2>1. ASSUME Has(l2, x)
        PROVE  Has(l, x) \/ x = p
    <3>1. PICK i \in 1..(k + 1) : l2[i] = x
      BY <1>7, <2>1 DEF Has
    <3>2. CASE i <= at
      <4>1. i \in 1..k /\ l2[i] = l[i]
        BY <1>4, <1>8, <3>2
      <4> QED
        BY <1>4, <3>1, <4>1 DEF Has
    <3>3. CASE i = at + 1
      BY <1>8, <3>1, <3>3
    <3>4. CASE ~(i <= at) /\ i # at + 1
      <4>1. i - 1 \in 1..k /\ l2[i] = l[i - 1]
        BY <1>4, <1>8, <3>4
      <4> QED
        BY <1>4, <3>1, <4>1 DEF Has
    <3> QED
      BY <3>2, <3>3, <3>4
  <2>2. ASSUME Has(l, x)
        PROVE  Has(l2, x)
    <3>1. PICK i \in 1..k : l[i] = x
      BY <1>4, <2>2 DEF Has
    <3>2. CASE i <= at
      <4>1. i \in 1..(k + 1) /\ l2[i] = l[i]
        BY <1>8, <3>2
      <4> QED
        BY <1>7, <3>1, <4>1 DEF Has
    <3>3. CASE ~(i <= at)
      <4>1. i + 1 \in 1..(k + 1) /\ ~(i + 1 <= at) /\ i + 1 # at + 1 /\ (i + 1) - 1 = i
        BY <3>3
      <4>2. l2[i + 1] = l[i]
        BY <1>8, <4>1
      <4> QED
        BY <1>7, <3>1, <4>1, <4>2 DEF Has
    <3> QED
      BY <3>2, <3>3
  <2>3. Has(l2, p)
    <3>1. at + 1 \in 1..(k + 1) /\ ~(at + 1 <= at)
      BY <1>4
    <3>2. l2[at + 1] = p
      BY <1>8, <3>1
    <3> QED
      BY <1>7, <3>1, <3>2 DEF Has
  <2> QED
    BY <2>1, <2>2, <2>3
<1> QED
  BY <1>2, <1>11, <1>12, <1>14, <1>20, <1>21 DEF Consistent, Extends

\* g is h with one more contact at index p.
MovedUp(h, g, n, p) == \A x \in 0..(n - 1) : h[x] = g[IF x < p THEN x ELSE x + 1]

\* The mapping l2 has what l has, one index further behind p.
HasUp(l2, l, n, p) ==
    \A x \in 0..n : x # p => (Has(l2, x) <=> Has(l, IF x < p THEN x ELSE x - 1))

\* The entries e are those of the contacts g.
Holds(e, m, g) == \A x \in 0..(m - 1) : e[x + 1].id = g[x]

\* The full view has a new entry at index p: the others move up.
LEMMA ShiftUp ==
    ASSUME NEW n \in Nat, NEW h \in Holders(n), NEW val, NEW mods,
           NEW w, Consistent(w, n, h, val, mods),
           NEW m \in Nat, m = n + 1, NEW g \in Holders(m), NEW p \in Nat, p <= n,
           MovedUp(h, g, n, p), NEW at \in Nat, at = lower_bound(w.view.local2parent, p),
           NEW y, y = With(w, Shifted(w.view.local2parent, at, 1), w.view.fill, w.res)
    PROVE  /\ Consistent(y, m, g, val, mods)
           /\ SameSearch(y.view, w.view) /\ y.view.fill = w.view.fill
           /\ Len(y.view.local2parent) = Len(w.view.local2parent)
           /\ Splits(y.view.local2parent, p, at)
           /\ HasUp(y.view.local2parent, w.view.local2parent, n, p)
<1>1. w.view \in ViewType /\ Mapping(w.view.local2parent, n)
      /\ Follows(w.res, Names(h, w.view.local2parent), val, mods)
  BY DEF Consistent
<1>2. PICK l : l = w.view.local2parent
  OBVIOUS
<1>3. l \in Seq(Int) /\ \A i \in 1..Len(l) : l[i] \in Nat /\ l[i] \in 0..(n - 1)
  BY <1>1, <1>2, MappingFacts
<1>4. PICK k \in Nat : k = Len(l)
  BY <1>3
<1>5. \A i, j \in 1..k : i < j => l[i] < l[j]
  BY <1>1, <1>2, <1>4, MappingFacts
<1>6. at \in 0..k /\ \A i \in 1..k : l[i] < p <=> i <= at
  <2>1. p \in Nat
    OBVIOUS
  <2>2. lower_bound(l, p) \in 0..Len(l) /\ \A i \in 1..Len(l) : l[i] < p <=> i <= lower_bound(l, p)
    BY <1>1, <1>2, <2>1, LowerBound
  <2> QED
    BY <1>2, <1>4, <2>2
<1>7. PICK s : s = Shifted(l, at, 1)
  OBVIOUS
<1>8. s \in Seq(Int) /\ Len(s) = k /\ \A i \in 1..k : s[i] = IF i > at THEN l[i] + 1 ELSE l[i]
  BY <1>3, <1>4, <1>6, <1>7, ShiftedFacts
<1>9. \A i \in 1..k : l[i] \in 0..(n - 1) /\ l[i] \in Nat
  BY <1>3, <1>4
<1>10. \A i \in 1..k : s[i] = (IF l[i] < p THEN l[i] ELSE l[i] + 1) /\ s[i] \in 0..(m - 1)
  BY <1>6, <1>8, <1>9
<1>11. \A i \in 1..k : s[i] # p /\ (s[i] < p <=> i <= at)
  BY <1>6, <1>9, <1>10
<1>12. Mapping(s, m)
  <2>1. ASSUME NEW i \in 1..k, NEW j \in 1..k, i < j
        PROVE  s[i] < s[j]
    <3>1. l[i] < l[j] /\ l[i] \in Nat /\ l[j] \in Nat
      BY <1>5, <1>9, <2>1
    <3> QED
      BY <1>10, <3>1
  <2>2. \A i \in 1..k : 0 <= s[i] /\ s[i] < m
    BY <1>10
  <2> QED
    BY <1>8, <2>1, <2>2 DEF Mapping, Increasing
<1>13. w.view.fill \in BOOLEAN
  BY <1>1, ViewFields
<1>14. /\ y.res = w.res /\ y.view \in ViewType
       /\ y.view.local2parent = s /\ y.view.fill = w.view.fill /\ SameSearch(y.view, w.view)
  BY <1>1, <1>2, <1>7, <1>8, <1>13, WithFields
<1>15. Len(Names(h, l)) = k /\ \A i \in 1..k : Names(h, l)[i] = h[l[i]]
  BY <1>1, <1>2, <1>4, NamesType
<1>16. Len(Names(g, s)) = k /\ \A i \in 1..k : Names(g, s)[i] = g[s[i]]
  <2>1. Len(Names(g, s)) = Len(s) /\ \A i \in 1..Len(s) : Names(g, s)[i] = g[s[i]]
    BY <1>12, NamesType
  <2> QED
    BY <1>8, <2>1
<1>17. \A i \in 1..k : Names(g, s)[i] = Names(h, l)[i]
  <2>1. ASSUME NEW i \in 1..k
        PROVE  g[s[i]] = h[l[i]]
    <3>1. PICK a \in 0..(n - 1) : a = l[i] /\ s[i] = IF a < p THEN a ELSE a + 1
      BY <1>9, <1>10
    <3> QED
      BY <3>1 DEF MovedUp
  <2> QED
    BY <1>15, <1>16, <2>1
<1>18. Follows(w.res, Names(g, s), val, mods)
  <2>1. Follows(w.res, Names(h, l), val, mods)
    BY <1>1, <1>2
  <2>2. Len(Names(g, s)) = Len(Names(h, l)) /\ \A i \in 1..Len(Names(h, l)) : Names(g, s)[i] = Names(h, l)[i]
    BY <1>15, <1>16, <1>17
  <2> QED
    BY <2>1, <2>2, FollowsSame, Zenon
<1>19. ASSUME NEW x \in 0..n, x # p
       PROVE  Has(s, x) <=> Has(l, IF x < p THEN x ELSE x - 1)
  <2>1. ASSUME NEW i \in 1..k
        PROVE  s[i] = x <=> l[i] = (IF x < p THEN x ELSE x - 1)
    <3>1. PICK a \in Nat : a = l[i] /\ s[i] = IF a < p THEN a ELSE a + 1
      BY <1>9, <1>10
    <3> QED
      BY <1>19, <3>1
  <2> QED
    BY <1>4, <1>8, <2>1, Zenon DEF Has
<1>20. Consistent(y, m, g, val, mods)
  BY <1>12, <1>14, <1>18 DEF Consistent
<1>21. Splits(s, p, at) /\ HasUp(s, l, n, p)
  BY <1>6, <1>8, <1>11, <1>19 DEF Splits, HasUp
<1> QED
  BY <1>2, <1>4, <1>8, <1>14, <1>20, <1>21

\* The view y has what w has, and p only if it is to be in the view.
Added(y, w, n, p, shown) ==
    /\ \A x \in 0..n : x # p /\ Has(y, x) => Has(w.local2parent, IF x < p THEN x ELSE x - 1)
    /\ w.max = Unlimited =>
         \A x \in 0..n : x # p /\ ~Has(y, x) => ~Has(w.local2parent, IF x < p THEN x ELSE x - 1)
    /\ Has(y, p) => shown
    /\ w.max = Unlimited /\ ~Has(y, p) => ~shown

\* The view u is z without its last entry, and has a place for p.
RoomResult(u, z, p, at, fill, m, g, val, mods) ==
    /\ Consistent(u, m, g, val, mods)
    /\ SameSearch(u.view, z.view) /\ u.view.fill = fill
    /\ Splits(u.view.local2parent, p, at)
    /\ \A x : Has(u.view.local2parent, x) => Has(z.view.local2parent, x)

\* FilteredView::addIndividual() makes room in a full view.
LEMMA RoomKeeps ==
    ASSUME NEW m \in Nat, NEW g \in Holders(m), NEW val, NEW mods,
           NEW z, Consistent(z, m, g, val, mods), NEW p \in Nat,
           NEW at \in Nat, Splits(z.view.local2parent, p, at), at < Len(z.view.local2parent),
           NEW j \in Nat, j = Len(z.view.local2parent) - 1,
           NEW c \in Contacts, NEW fill \in BOOLEAN, NEW u, u = EraseLocal(z, j, c, fill)
    PROVE  RoomResult(u, z, p, at, fill, m, g, val, mods)
<1>1. PICK l : l = z.view.local2parent
  OBVIOUS
<1>2. Mapping(l, m)
  BY <1>1 DEF Consistent
<1>3. PICK k \in Nat : k = Len(l) /\ j = k - 1 /\ at < k
  BY <1>1, <1>2, MappingFacts
<1>4. \A i \in 1..k : l[i] # p /\ (l[i] < p <=> i <= at)
  BY <1>1, <1>3 DEF Splits
<1>5. Spared(g, z.view.local2parent, j, mods, mods)
  BY DEF Spared
<1>6. j < Len(z.view.local2parent)
  BY <1>1, <1>3
<1>7. EraseResult(u, z, j, fill, m, g, val, mods)
  BY <1>5, <1>6, EraseKeeps
<1>8. PICK l2 : l2 = u.view.local2parent
  OBVIOUS
<1>9. Len(l2) = k - 1 /\ \A i \in 1..(k - 1) : l2[i] = l[i]
  <2>1. Len(l2) = k - 1 /\ \A i \in 1..(k - 1) : l2[i] = IF i <= j THEN l[i] ELSE l[i + 1]
    BY <1>1, <1>3, <1>7, <1>8 DEF Erased, EraseResult
  <2> QED
    BY <1>3, <2>1
<1>10. \A x : Has(l2, x) => Has(l, x)
  <2>1. ASSUME NEW x, NEW i \in 1..(k - 1), l2[i] = x
        PROVE  Has(l, x)
    <3>1. i \in 1..Len(l) /\ l[i] = x
      BY <1>3, <1>9, <2>1
    <3> QED
      BY <3>1 DEF Has
  <2> QED
    BY <1>9, <2>1 DEF Has
<1>11. at \in 0..(k - 1) /\ \A i \in 1..(k - 1) : l2[i] # p /\ (l2[i] < p <=> i <= at)
  <2>1. at \in 0..(k - 1)
    BY <1>3
  <2>2. \A i \in 1..(k - 1) : i \in 1..k
    BY <1>3
  <2> QED
    BY <1>4, <1>9, <2>1, <2>2
<1>12. Splits(l2, p, at)
  BY <1>9, <1>11 DEF Splits
<1> QED
  BY <1>1, <1>7, <1>8, <1>10, <1>12 DEF EraseResult, RoomResult

\* FilteredView::addIndividual() keeps view and client in line with the full view.
LEMMA AddKeeps ==
    ASSUME NEW n \in Nat, NEW h \in Holders(n), NEW val, NEW mods,
           NEW w, Consistent(w, n, h, val, mods),
           NEW m \in Nat, m = n + 1, NEW g \in Holders(m), NEW p \in Nat, p <= n,
           MovedUp(h, g, n, p), NEW e, Holds(e, m, g),
           NEW y, y = AddToView(e, val, w, p)
    PROVE  /\ Consistent(y, m, g, val, mods)
           /\ SameSearch(y.view, w.view) /\ y.view.fill = w.view.fill
           /\ Added(y.view.local2parent, w.view, n, p, val[g[p]] \in w.view.filter)
<1>0. Mapping(w.view.local2parent, n)
  BY DEF Consistent
<1>1. PICK at \in Nat : at = lower_bound(w.view.local2parent, p)
  BY <1>0, LowerBound
<1>2. PICK z : z = With(w, Shifted(w.view.local2parent, at, 1), w.view.fill, w.res)
  OBVIOUS
<1>3. /\ Consistent(z, m, g, val, mods)
      /\ SameSearch(z.view, w.view) /\ z.view.fill = w.view.fill
      /\ Len(z.view.local2parent) = Len(w.view.local2parent)
      /\ Splits(z.view.local2parent, p, at)
      /\ HasUp(z.view.local2parent, w.view.local2parent, n, p)
  BY <1>1, <1>2, ShiftUp
<1>4. PICK l : l = z.view.local2parent
  OBVIOUS
<1>5. z.view \in ViewType /\ Mapping(l, m)
  BY <1>3, <1>4 DEF Consistent
<1>6. PICK k \in Nat : k = Len(l) /\ k = Len(w.view.local2parent)
  <2>1. Len(l) \in Nat
    BY <1>5, MappingFacts
  <2> QED
    BY <1>3, <1>4, <2>1
<1>8. ~Has(l, p)
  BY <1>3, <1>4 DEF Has, Splits
<1>9. e[p + 1].id = g[p] /\ g[p] \in Contacts
  BY DEF Holds, Holders
<1>10. Matches(val, w.view.filter, e[p + 1]) <=> val[g[p]] \in w.view.filter
  BY <1>9 DEF Matches
<1>11. PICK last : last = l[k]
  OBVIOUS
<1>12. PICK u : u = IF k > at /\ IsFull(w.view) THEN EraseLocal(z, k - 1, e[last + 1].id, w.view.fill) ELSE z
  OBVIOUS
<1>13. y = IF Matches(val, w.view.filter, e[p + 1]) /\ Included(w.view, at)
           THEN InsertLocal(u, at, p, g[p]) ELSE z
  BY <1>1, <1>2, <1>4, <1>6, <1>9, <1>11, <1>12, Zenon DEF AddToView
<1>14. ASSUME w.view.max = Unlimited
       PROVE  Included(w.view, at) /\ ~IsFull(w.view)
  BY <1>14 DEF Included, IsFull
<1>15. CASE ~(Matches(val, w.view.filter, e[p + 1]) /\ Included(w.view, at))
  <2>1. y = z
    BY <1>13, <1>15
  <2>2. w.view.max = Unlimited => val[g[p]] \notin w.view.filter
    BY <1>10, <1>14, <1>15
  <2>3. Added(l, w.view, n, p, val[g[p]] \in w.view.filter)
    BY <1>3, <1>4, <1>8, <2>2 DEF Added, HasUp
  <2> QED
    BY <1>3, <1>4, <2>1, <2>3
<1>16. CASE Matches(val, w.view.filter, e[p + 1]) /\ Included(w.view, at)
  <2>1. y = InsertLocal(u, at, p, g[p])
    BY <1>13, <1>16
  <2>2. /\ Consistent(u, m, g, val, mods)
        /\ SameSearch(u.view, w.view) /\ u.view.fill = w.view.fill
        /\ Splits(u.view.local2parent, p, at)
        /\ \A x : Has(u.view.local2parent, x) => Has(l, x)
        /\ w.view.max = Unlimited => u = z
    <3>1. CASE ~(k > at /\ IsFull(w.view))
      <4>1. u = z
        BY <1>12, <3>1
      <4> QED
        BY <1>3, <1>4, <1>6, <4>1
    <3>2. CASE k > at /\ IsFull(w.view)
      <4>1. u = EraseLocal(z, k - 1, e[last + 1].id, w.view.fill)
        BY <1>12, <3>2
      <4>2. k \in 1..k /\ k - 1 \in Nat
        BY <1>6, <3>2
      <4>3. last \in 0..(m - 1)
        <5>1. \A i \in 1..k : l[i] \in 0..(m - 1)
          BY <1>5, <1>6, MappingFacts
        <5> QED
          BY <1>11, <4>2, <5>1
      <4>4. e[last + 1].id \in Contacts
        BY <4>3 DEF Holds, Holders
      <4>5. w.view.fill \in BOOLEAN
        BY <1>3, <1>5, ViewFields
      <4>6. PICK j \in Nat, c \in Contacts : j = k - 1 /\ c = e[last + 1].id
        BY <4>2, <4>4
      <4>7. /\ u = EraseLocal(z, j, c, w.view.fill) /\ j = Len(z.view.local2parent) - 1
            /\ at < Len(z.view.local2parent)
        BY <1>4, <1>6, <3>2, <4>1, <4>2, <4>6
      <4>8. RoomResult(u, z, p, at, w.view.fill, m, g, val, mods)
        BY <1>3, <4>5, <4>7, RoomKeeps
      <4>13. SameSearch(u.view, w.view)
        BY <1>3, <4>8 DEF SameSearch, RoomResult
      <4> QED
        BY <1>4, <1>14, <3>2, <4>8, <4>13 DEF RoomResult
    <3> QED
      BY <3>1, <3>2
  <2>4. /\ Consistent(y, m, g, val, mods)
        /\ SameSearch(y.view, u.view) /\ y.view.fill = u.view.fill
        /\ Extends(y.view.local2parent, u.view.local2parent, p)
    <3>1. PICK c : c = g[p]
      OBVIOUS
    <3>2. p < m /\ y = InsertLocal(u, at, p, c)
      BY <2>1, <3>1
    <3> QED
      BY <2>2, <3>1, <3>2, InsertKeeps
  <2>5. SameSearch(y.view, w.view) /\ y.view.fill = w.view.fill
    BY <2>2, <2>4 DEF SameSearch
  <2>6. Has(y.view.local2parent, p) /\ val[g[p]] \in w.view.filter
    BY <1>10, <1>16, <2>4 DEF Extends
  <2>7. \A x \in 0..n : x # p /\ Has(y.view.local2parent, x) =>
                 Has(w.view.local2parent, IF x < p THEN x ELSE x - 1)
    BY <1>3, <1>4, <2>2, <2>4 DEF Extends, HasUp
  <2>8. ASSUME w.view.max = Unlimited, NEW x \in 0..n, x # p, ~Has(y.view.local2parent, x)
        PROVE  ~Has(w.view.local2parent, IF x < p THEN x ELSE x - 1)
    <3>1. ~Has(z.view.local2parent, x)
      BY <2>2, <2>4, <2>8 DEF Extends
    <3> QED
      BY <1>3, <2>8, <3>1 DEF HasUp
  <2>9. Added(y.view.local2parent, w.view, n, p, val[g[p]] \in w.view.filter)
    BY <2>6, <2>7, <2>8 DEF Added
  <2> QED
    BY <2>4, <2>5, <2>9
<1> QED
  BY <1>15, <1>16

\* All but the contact at index p of the full view keep their modification.
SparedAll(h, n, p, mods, mods2) ==
    \A x \in 0..(n - 1) : x # p /\ h[x] \in mods => h[x] \in mods2

\* The mapping l2 has what l has, one index earlier behind p.
HasDown(l2, l, m, p) == \A x \in 0..(m - 1) : Has(l2, x) <=> Has(l, IF x < p THEN x ELSE x + 1)

\* The view y is w without p, which the full view does not have anymore.
RemoveResult(y, w, p, m, g, val, mods) ==
    /\ Consistent(y, m, g, val, mods)
    /\ SameSearch(y.view, w.view)
    /\ HasDown(y.view.local2parent, w.view.local2parent, m, p)

\* The mapping s is l with the indices behind p moved down.
ShiftedDown(s, l, m, p, g, h) ==
    /\ Mapping(s, m) /\ Len(s) = Len(l)
    /\ \A i \in 1..Len(l) : g[s[i]] = h[l[i]]
    /\ HasDown(s, l, m, p)

\* The mapping l2 is l without its index at and with those behind moved down.
ErasedDown(l2, l, at, m, p, g, h) ==
    /\ Mapping(l2, m) /\ Len(l2) = Len(l) - 1
    /\ \A i \in 1..(Len(l) - 1) : g[l2[i]] = IF i <= at THEN h[l[i]] ELSE h[l[i + 1]]
    /\ HasDown(l2, l, m, p)

\* Mapping and names after the indices behind p moved down, p not being in the view.
LEMMA ShiftDown ==
    ASSUME NEW m \in Nat, NEW n \in Nat, n = m + 1, NEW h \in Holders(n), NEW g \in Holders(m),
           NEW p \in Nat, p < n, MovedUp(g, h, m, p),
           NEW l, Mapping(l, n), NEW at \in Nat, Splits(l, p, at), NEW s, s = Shifted(l, at, -1)
    PROVE  ShiftedDown(s, l, m, p, g, h)
<1>1. PICK k \in Nat : k = Len(l)
  BY MappingFacts
<1>2. l \in Seq(Int) /\ \A i \in 1..k : l[i] \in Nat /\ l[i] \in 0..(n - 1)
  BY <1>1, MappingFacts
<1>3. \A i, j \in 1..k : i < j => l[i] < l[j]
  BY <1>1, MappingFacts
<1>4. \A i \in 1..k : l[i] # p /\ (l[i] < p <=> i <= at)
  BY <1>1 DEF Splits
<1>5. s \in Seq(Int) /\ Len(s) = k /\ \A i \in 1..k : s[i] = IF i > at THEN l[i] + (-1) ELSE l[i]
  BY <1>1, <1>2, ShiftedFacts
<1>6. \A i \in 1..k : s[i] = (IF l[i] < p THEN l[i] ELSE l[i] - 1) /\ s[i] \in 0..(m - 1)
  <2>1. ASSUME NEW i \in 1..k
        PROVE  s[i] = (IF l[i] < p THEN l[i] ELSE l[i] - 1) /\ s[i] \in 0..(m - 1)
    <3>1. PICK a \in Nat : a = l[i] /\ a <= m /\ a # p /\ (a < p <=> i <= at)
      BY <1>2, <1>4
    <3>2. s[i] = IF i > at THEN a + (-1) ELSE a
      BY <1>5, <3>1
    <3> QED
      BY <3>1, <3>2
  <2> QED
    BY <2>1
<1>7. Mapping(s, m)
  <2>1. ASSUME NEW i \in 1..k, NEW j \in 1..k, i < j
        PROVE  s[i] < s[j]
    <3>1. PICK a \in Nat, b \in Nat : a = l[i] /\ b = l[j] /\ a < b /\ a # p /\ b # p
      BY <1>2, <1>3, <1>4, <2>1
    <3>2. s[i] = (IF a < p THEN a ELSE a - 1) /\ s[j] = (IF b < p THEN b ELSE b - 1)
      BY <1>6, <3>1
    <3> QED
      BY <3>1, <3>2
  <2>2. \A i \in 1..k : 0 <= s[i] /\ s[i] < m
    BY <1>6
  <2> QED
    BY <1>5, <2>1, <2>2 DEF Mapping, Increasing
<1>8. ASSUME NEW i \in 1..k
      PROVE  g[s[i]] = h[l[i]]
  <2>1. PICK a \in Nat, b \in 0..(m - 1) :
           a = l[i] /\ a # p /\ b = s[i] /\ b = IF a < p THEN a ELSE a - 1
    BY <1>2, <1>4, <1>6
  <2>2. a = IF b < p THEN b ELSE b + 1
    BY <2>1
  <2>3. g[b] = h[IF b < p THEN b ELSE b + 1]
    BY DEF MovedUp
  <2> QED
    BY <2>1, <2>2, <2>3
<1>9. ASSUME NEW x \in 0..(m - 1)
      PROVE  Has(s, x) <=> Has(l, IF x < p THEN x ELSE x + 1)
  <2>1. ASSUME NEW i \in 1..k
        PROVE  s[i] = x <=> l[i] = (IF x < p THEN x ELSE x + 1)
    <3>1. PICK a \in Nat : a = l[i] /\ a # p /\ s[i] = IF a < p THEN a ELSE a - 1
      BY <1>2, <1>4, <1>6
    <3> QED
      BY <3>1
  <2> QED
    BY <1>1, <1>5, <2>1, Zenon DEF Has
<1> QED
  BY <1>1, <1>5, <1>7, <1>8, <1>9 DEF HasDown, ShiftedDown

\* The same if index at of the view, which is p, is removed, too.
LEMMA ShiftDownErased ==
    ASSUME NEW m \in Nat, NEW n \in Nat, n = m + 1, NEW h \in Holders(n), NEW g \in Holders(m),
           NEW p \in Nat, p < n, MovedUp(g, h, m, p),
           NEW l, Mapping(l, n), NEW at \in Nat, at < Len(l), l[at + 1] = p,
           NEW l2, l2 = RemoveAt(Shifted(l, at, -1), at + 1)
    PROVE  ErasedDown(l2, l, at, m, p, g, h)
<1>1. PICK k \in Nat : k = Len(l) /\ at < k
  BY MappingFacts
<1>2. l \in Seq(Int) /\ \A i \in 1..k : l[i] \in Nat /\ l[i] \in 0..(n - 1)
  BY <1>1, MappingFacts
<1>3. \A i, j \in 1..k : i < j => l[i] < l[j]
  BY <1>1, MappingFacts
<1>4. PICK s : s = Shifted(l, at, -1)
  OBVIOUS
<1>5. s \in Seq(Int) /\ Len(s) = k /\ \A i \in 1..k : s[i] = IF i > at THEN l[i] + (-1) ELSE l[i]
  BY <1>1, <1>2, <1>4, ShiftedFacts, SMTT(30)
<1>6. /\ l2 \in Seq(Int) /\ Len(l2) = k - 1
      /\ \A i \in 1..(k - 1) : l2[i] = IF i < at + 1 THEN s[i] ELSE s[i + 1]
  <2>1. s \in Seq(Int) /\ at + 1 \in 1..Len(s)
    BY <1>1, <1>5
  <2> QED
    BY <1>4, <1>5, <2>1, RemoveAtProperties, ZenonT(30)
<1>7. \A i \in 1..k : (i <= at => l[i] < p) /\ (i > at + 1 => l[i] > p) /\ (i = at + 1 => l[i] = p)
  <2>1. at + 1 \in 1..k
    BY <1>1
  <2> QED
    BY <1>2, <1>3, <2>1
\* the index in l of an index in l2
<1>8. ASSUME NEW i \in 1..(k - 1)
      PROVE  \E j \in 1..k, a \in Nat :
                /\ j = (IF i <= at THEN i ELSE i + 1) /\ a = l[j] /\ a # p /\ a <= m
                /\ l2[i] = IF a < p THEN a ELSE a - 1
  <2>1. CASE i <= at
    <3>1. i \in 1..k /\ i < at + 1 /\ ~(i > at)
      BY <1>1, <2>1
    <3>2. PICK a \in Nat : a = l[i] /\ a < p /\ a <= m
      BY <1>2, <1>7, <2>1, <3>1, SMTT(30)
    <3>3. l2[i] = a
      BY <1>5, <1>6, <3>1, <3>2
    <3> QED
      BY <2>1, <3>1, <3>2, <3>3
  <2>2. CASE ~(i <= at)
    <3>1. PICK j \in 1..k : j = i + 1 /\ j > at /\ j > at + 1
      BY <1>1, <2>2
    <3>2. PICK a \in Nat : a = l[j] /\ a > p /\ a <= m
      BY <1>2, <1>7, <3>1, SMTT(30)
    <3>3. l2[i] = s[j] /\ s[j] = a + (-1)
      <4>1. s[j] = a + (-1)
        BY <1>5, <3>1, <3>2
      <4>2. ~(i < at + 1)
        BY <2>2
      <4> QED
        BY <1>6, <3>1, <4>1, <4>2
    <3> QED
      BY <2>2, <3>1, <3>2, <3>3
  <2> QED
    BY <2>1, <2>2
<1>9. Mapping(l2, m)
  <2>1. ASSUME NEW i \in 1..(k - 1)
        PROVE  0 <= l2[i] /\ l2[i] < m
    <3>1. PICK j \in 1..k, a \in Nat :
                /\ j = (IF i <= at THEN i ELSE i + 1) /\ a = l[j] /\ a # p /\ a <= m
                /\ l2[i] = IF a < p THEN a ELSE a - 1
      BY <1>8
    <3> QED
      BY <3>1, SMTT(30)
  <2>2. ASSUME NEW i \in 1..(k - 1), NEW i2 \in 1..(k - 1), i < i2
        PROVE  l2[i] < l2[i2]
    <3>1. PICK j \in 1..k, a \in Nat :
                /\ j = (IF i <= at THEN i ELSE i + 1) /\ a = l[j] /\ a # p /\ a <= m
                /\ l2[i] = IF a < p THEN a ELSE a - 1
      BY <1>8
    <3>2. PICK j2 \in 1..k, a2 \in Nat :
                /\ j2 = (IF i2 <= at THEN i2 ELSE i2 + 1) /\ a2 = l[j2] /\ a2 # p /\ a2 <= m
                /\ l2[i2] = IF a2 < p THEN a2 ELSE a2 - 1
      BY <1>8
    <3>3. j < j2
      BY <2>2, <3>1, <3>2
    <3>4. a < a2
      BY <1>3, <3>1, <3>2, <3>3
    <3>5. a # p /\ a2 # p
      BY <3>1, <3>2
    <3>6. (IF a < p THEN a ELSE a - 1) < (IF a2 < p THEN a2 ELSE a2 - 1)
      BY <3>4, <3>5
    <3> QED
      BY <3>1, <3>2, <3>6, Zenon
  <2> QED
    BY <1>6, <2>1, <2>2 DEF Mapping, Increasing
<1>10. ASSUME NEW i \in 1..(k - 1)
       PROVE  g[l2[i]] = IF i <= at THEN h[l[i]] ELSE h[l[i + 1]]
  <2>1. PICK j \in 1..k, a \in Nat :
                /\ j = (IF i <= at THEN i ELSE i + 1) /\ a = l[j] /\ a # p /\ a <= m
                /\ l2[i] = IF a < p THEN a ELSE a - 1
    BY <1>8
  <2>2. PICK b \in 0..(m - 1) : b = l2[i] /\ a = IF b < p THEN b ELSE b + 1
    <3>1. a # p /\ a <= m /\ p <= m
      BY <2>1
    <3>2. \/ a < p /\ a \in 0..(m - 1)
          \/ ~(a < p) /\ a - 1 \in 0..(m - 1) /\ ~(a - 1 < p) /\ (a - 1) + 1 = a
      BY <3>1
    <3> QED
      BY <2>1, <3>2
  <2>3. g[b] = h[a]
    BY <2>2 DEF MovedUp
  <2> QED
    BY <2>1, <2>2, <2>3
<1>11. ASSUME NEW x \in 0..(m - 1)
       PROVE  Has(l2, x) <=> Has(l, IF x < p THEN x ELSE x + 1)
  <2>1. ASSUME NEW i \in 1..(k - 1), l2[i] = x
        PROVE  \E j \in 1..k : l[j] = IF x < p THEN x ELSE x + 1
    <3>1. PICK j \in 1..k, a \in Nat :
                /\ j = (IF i <= at THEN i ELSE i + 1) /\ a = l[j] /\ a # p /\ a <= m
                /\ l2[i] = IF a < p THEN a ELSE a - 1
      BY <1>8
    <3>2. a = IF x < p THEN x ELSE x + 1
      BY <2>1, <3>1, SMTT(30)
    <3> QED
      BY <3>1, <3>2
  <2>2. ASSUME NEW j \in 1..k, l[j] = IF x < p THEN x ELSE x + 1
        PROVE  \E i \in 1..(k - 1) : l2[i] = x
    <3>1. l[j] # p
      BY <2>2
    <3>2. j # at + 1
      BY <3>1, <1>7
    <3>3. PICK i \in 1..(k - 1) : j = IF i <= at THEN i ELSE i + 1
      <4>1. CASE j <= at
        <5>1. j \in 1..(k - 1)
          BY <1>1, <4>1
        <5> QED
          BY <4>1, <5>1
      <4>2. CASE ~(j <= at)
        <5>1. j - 1 \in 1..(k - 1) /\ ~(j - 1 <= at) /\ j = (j - 1) + 1
          BY <1>1, <3>2, <4>2
        <5> QED
          BY <5>1
      <4> QED
        BY <4>1, <4>2
    <3>4. PICK j2 \in 1..k, a \in Nat :
                /\ j2 = (IF i <= at THEN i ELSE i + 1) /\ a = l[j2] /\ a # p /\ a <= m
                /\ l2[i] = IF a < p THEN a ELSE a - 1
      BY <1>8
    <3>5. a = IF x < p THEN x ELSE x + 1
      BY <2>2, <3>3, <3>4
    <3> QED
      BY <3>4, <3>5
  <2> QED
    BY <1>1, <1>6, <2>1, <2>2, Zenon DEF Has
<1> QED
  BY <1>1, <1>6, <1>9, <1>10, <1>11 DEF HasDown, ErasedDown

\* Whether or not index p is in the view.
LEMMA Located ==
    ASSUME NEW n \in Nat, NEW l, Mapping(l, n), NEW p \in Nat,
           NEW at \in Nat, at = lower_bound(l, p)
    PROVE  /\ ~(at < Len(l) /\ l[at + 1] = p) => Splits(l, p, at) /\ ~Has(l, p)
           /\ (at < Len(l) /\ l[at + 1] = p) => Has(l, p)
<1>1. PICK k \in Nat : k = Len(l)
  BY MappingFacts
<1>2. at \in 0..k /\ \A i \in 1..k : l[i] < p <=> i <= at
  BY <1>1, LowerBound
<1>3. \A i, j \in 1..k : i < j => l[i] < l[j]
  BY <1>1, MappingFacts
<1>4. \A i \in 1..k : l[i] \in Nat
  BY <1>1, MappingFacts
<1>5. ASSUME ~(at < k /\ l[at + 1] = p), NEW i \in 1..k
      PROVE  l[i] # p
  <2>1. SUFFICES ASSUME l[i] = p
                 PROVE  FALSE
    OBVIOUS
  <2>2. ~(i <= at)
    BY <1>2, <2>1
  <2>3. PICK j \in 1..k : j = at + 1 /\ (j < i \/ j = i) /\ ~(j <= at)
    BY <1>2, <2>2
  <2>4. j # i
    BY <1>5, <2>1, <2>3
  <2>5. l[j] < p
    BY <1>3, <2>1, <2>3, <2>4
  <2> QED
    BY <1>2, <2>3, <2>5
<1>6. ASSUME at < k, l[at + 1] = p
      PROVE  Has(l, p)
  <2>1. at + 1 \in 1..k
    BY <1>6
  <2> QED
    BY <1>1, <1>6, <2>1 DEF Has
<1>7. ASSUME ~(at < k /\ l[at + 1] = p)
      PROVE  Splits(l, p, at) /\ ~Has(l, p)
  <2>1. \A i \in 1..k : l[i] # p
    BY <1>5, <1>7
  <2> QED
    BY <1>1, <1>2, <2>1 DEF Splits, Has
<1> QED
  BY <1>1, <1>6, <1>7

\* The holders, data and modifications of the contacts in the view are the same.
Alike(l, h, val, mods, h2, val2, mods2) ==
    \A i \in 1..Len(l) :
        /\ h2[l[i]] = h[l[i]]
        /\ val2[h[l[i]]] = val[h[l[i]]] \/ h[l[i]] \in mods2
        /\ h[l[i]] \in mods => h[l[i]] \in mods2

\* View and client stay consistent if the full view differs only in what is
\* not in the view.
LEMMA ConsistentOther ==
    ASSUME NEW n \in Nat, NEW h \in Holders(n), NEW val, NEW mods,
           NEW w, Consistent(w, n, h, val, mods),
           NEW n2 \in Nat, NEW h2 \in Holders(n2), NEW val2, NEW mods2,
           Mapping(w.view.local2parent, n2),
           Alike(w.view.local2parent, h, val, mods, h2, val2, mods2)
    PROVE  Consistent(w, n2, h2, val2, mods2)
<1>1. w.view \in ViewType /\ Mapping(w.view.local2parent, n)
      /\ Follows(w.res, Names(h, w.view.local2parent), val, mods)
  BY DEF Consistent
<1>2. PICK l : l = w.view.local2parent
  OBVIOUS
<1>3. PICK q : q = Names(h, l)
  OBVIOUS
<1>4. Len(q) = Len(l) /\ \A i \in 1..Len(l) : q[i] = h[l[i]]
  BY <1>1, <1>2, <1>3, NamesType
<1>5. PICK q2 : q2 = Names(h2, l)
  OBVIOUS
<1>6. Len(q2) = Len(l) /\ \A i \in 1..Len(l) : q2[i] = h2[l[i]]
  BY <1>2, <1>5, NamesType
<1>7. \A i \in 1..Len(q) : /\ val2[q[i]] = val[q[i]] \/ q[i] \in mods2
                           /\ q[i] \in mods => q[i] \in mods2
  BY <1>2, <1>4 DEF Alike
<1>8. Follows(w.res, q, val2, mods2)
  BY <1>1, <1>2, <1>3, <1>7, FollowsData
<1>9. Len(q2) = Len(q) /\ \A i \in 1..Len(q) : q2[i] = q[i]
  BY <1>2, <1>4, <1>6 DEF Alike
<1>10. Follows(w.res, q2, val2, mods2)
  BY <1>8, <1>9, FollowsSame
<1> QED
  BY <1>1, <1>2, <1>5, <1>10 DEF Consistent

\* FilteredView::removeIndividual() keeps view and client in line with the full view.
LEMMA RemoveKeeps ==
    ASSUME NEW m \in Nat, NEW n \in Nat, n = m + 1, NEW h \in Holders(n), NEW g \in Holders(m),
           NEW p \in Nat, p < n, MovedUp(g, h, m, p), NEW val, NEW mods, NEW mods2,
           NEW w, Consistent(w, n, h, val, mods), SparedAll(h, n, p, mods, mods2),
           NEW id \in Contacts, NEW y, y = RemoveFromView(w, p, id)
    PROVE  RemoveResult(y, w, p, m, g, val, mods2)
<1>1. w.view \in ViewType /\ Mapping(w.view.local2parent, n)
      /\ Follows(w.res, Names(h, w.view.local2parent), val, mods)
  BY DEF Consistent
<1>2. PICK l : l = w.view.local2parent
  OBVIOUS
<1>3. Mapping(l, n) /\ l \in Seq(Int)
  BY <1>1, <1>2, MappingFacts
<1>4. PICK k \in Nat : k = Len(l)
  BY <1>3, MappingFacts
<1>5. PICK at \in Nat : at = lower_bound(l, p)
  BY <1>3, LowerBound
<1>6. PICK s : s = Shifted(l, at, -1)
  OBVIOUS
<1>7. s \in Seq(Int)
  BY <1>3, <1>6, ShiftedFacts
<1>8. w.view.fill \in BOOLEAN
  BY <1>1, ViewFields
<1>9. PICK z : z = With(w, s, w.view.fill, w.res)
  OBVIOUS
<1>10. z.res = w.res /\ z.view \in ViewType /\ z.view.local2parent = s /\ SameSearch(z.view, w.view)
  BY <1>1, <1>7, <1>8, <1>9, WithFields
<1>11. y = IF at < Len(l) /\ l[at + 1] = p THEN EraseLocal(z, at, id, TRUE) ELSE z
  BY <1>2, <1>5, <1>6, <1>9, Zenon DEF RemoveFromView
<1>12. PICK q : q = Names(h, l)
  OBVIOUS
<1>13. q \in Seq(Contacts) /\ Len(q) = k /\ \A i \in 1..k : q[i] = h[l[i]]
  BY <1>3, <1>4, <1>12, NamesType
<1>14. Follows(w.res, q, val, mods)
  BY <1>1, <1>2, <1>12
<1>15. CASE ~(at < Len(l) /\ l[at + 1] = p)
  <2>1. Splits(l, p, at)
    BY <1>3, <1>5, <1>15, Located
  <2>2. /\ Mapping(s, m) /\ Len(s) = Len(l)
        /\ \A i \in 1..Len(l) : g[s[i]] = h[l[i]]
        /\ HasDown(s, l, m, p)
    <3>1. ShiftedDown(s, l, m, p, g, h)
      BY <1>3, <1>6, <2>1, ShiftDown
    <3> QED
      BY <3>1 DEF ShiftedDown
  <2>3. ASSUME NEW i \in 1..k
        PROVE  q[i] \in mods => q[i] \in mods2
    <3>1. PICK x \in 0..(n - 1) : x = l[i]
      BY <1>3, <1>4, MappingFacts
    <3>2. x # p
      BY <1>4, <2>1, <3>1 DEF Splits
    <3> QED
      BY <1>13, <3>1, <3>2 DEF SparedAll
  <2>4. Follows(w.res, q, val, mods2)
    BY <1>13, <1>14, <2>3, FollowsData
  <2>5. PICK q2 : q2 = Names(g, s)
    OBVIOUS
  <2>6. Len(q2) = Len(s) /\ \A i \in 1..Len(s) : q2[i] = g[s[i]]
    BY <2>2, <2>5, NamesType
  <2>7. Len(q2) = Len(q) /\ \A i \in 1..Len(q) : q2[i] = q[i]
    BY <1>4, <1>13, <2>2, <2>6
  <2>8. Follows(w.res, q2, val, mods2)
    BY <2>4, <2>7, FollowsSame
  <2>9. y = z
    BY <1>11, <1>15
  <2> QED
    BY <1>2, <1>10, <2>2, <2>5, <2>8, <2>9 DEF Consistent, RemoveResult
<1>16. CASE at < Len(l) /\ l[at + 1] = p
  <2>1. PICK l2 : l2 = RemoveAt(s, at + 1)
    OBVIOUS
  <2>2. /\ Mapping(l2, m) /\ Len(l2) = Len(l) - 1
        /\ \A i \in 1..(Len(l) - 1) : g[l2[i]] = IF i <= at THEN h[l[i]] ELSE h[l[i + 1]]
        /\ HasDown(l2, l, m, p)
    <3>1. at < Len(l) /\ l[at + 1] = p /\ l2 = RemoveAt(Shifted(l, at, -1), at + 1)
      BY <1>6, <1>16, <2>1
    <3>2. ErasedDown(l2, l, at, m, p, g, h)
      BY <1>3, <3>1, ShiftDownErased
    <3> QED
      BY <3>2 DEF ErasedDown
  <2>3. l2 \in Seq(Int)
    BY <2>2, MappingFacts
  <2>4. PICK fill \in BOOLEAN : fill = TRUE
    OBVIOUS
  <2>14. y = With(z, l2, fill, handleChange(w.res, "removed", at, id))
    BY <1>10, <1>11, <1>16, <2>1, <2>4 DEF EraseLocal
  <2>5. /\ y.res = handleChange(w.res, "removed", at, id) /\ y.view \in ViewType
        /\ y.view.local2parent = l2 /\ SameSearch(y.view, z.view)
    BY <1>10, <2>3, <2>14, WithFields
  <2>6. ASSUME NEW i \in 1..Len(q), i # at + 1, q[i] \in mods
        PROVE  q[i] \in mods2
    <3>1. PICK x \in 0..(n - 1) : x = l[i]
      BY <1>3, <1>4, <1>13, MappingFacts
    <3>2. x # p
      <4>1. at + 1 \in 1..k /\ i \in 1..k
        BY <1>4, <1>13, <1>16
      <4>2. \A a, b \in 1..k : a < b => l[a] < l[b]
        BY <1>3, <1>4, MappingFacts
      <4>3. l[i] < p \/ l[i] > p
        BY <1>16, <2>6, <4>1, <4>2
      <4> QED
        BY <3>1, <4>3
    <3> QED
      BY <1>13, <2>6, <3>1, <3>2 DEF SparedAll
  <2>7. PICK q2 : q2 = Names(g, l2)
    OBVIOUS
  <2>8. Len(q2) = Len(l2) /\ \A i \in 1..Len(l2) : q2[i] = g[l2[i]]
    BY <2>2, <2>7, NamesType
  <2>9. ASSUME NEW i \in 1..(k - 1)
        PROVE  q2[i] = IF i <= at THEN q[i] ELSE q[i + 1]
    <3>1. i \in 1..k /\ i + 1 \in 1..k /\ Len(l2) = k - 1
      BY <1>4, <2>2
    <3> QED
      BY <1>4, <1>13, <2>2, <2>8, <3>1
  <2>10. Erased(q, at, q2)
    BY <1>4, <1>13, <2>2, <2>8, <2>9 DEF Erased
  <2>11. at < Len(q)
    BY <1>4, <1>13, <1>16
  <2>12. Follows(y.res, q2, val, mods2)
    BY <1>13, <1>14, <2>5, <2>6, <2>10, <2>11, FollowsRemoved
  <2>13. SameSearch(y.view, w.view)
    BY <1>10, <2>5 DEF SameSearch
  <2> QED
    BY <1>2, <2>2, <2>5, <2>7, <2>12, <2>13 DEF Consistent, RemoveResult
<1> QED
  BY <1>15, <1>16

\* Another contact is at index p, or another state of the same.
SameBut(h, g, n, p) == \A x \in 0..(n - 1) : x # p => g[x] = h[x]

\* Index p is in the mapping l2 of the view v only if it is to be there.
Rechecked(l2, v, p, shown) ==
    /\ \A x : x # p => (Has(l2, x) <=> Has(v.local2parent, x))
    /\ Has(l2, p) => shown
    /\ v.max = Unlimited /\ ~Has(l2, p) => ~shown

\* The view y is w after index p was checked again.
ModifyResult(y, w, p, n, g, val, mods) ==
    /\ Consistent(y, n, g, val, mods)
    /\ SameSearch(y.view, w.view)
    /\ Rechecked(y.view.local2parent, w.view, p, val[g[p]] \in w.view.filter)

\* A change of index p does not matter for a view which does not have it.
LEMMA OthersAlike ==
    ASSUME NEW n \in Nat, NEW h, NEW g, NEW p \in Nat, SameBut(h, g, n, p),
           NEW val, NEW mods, NEW mods2, SparedAll(h, n, p, mods, mods2),
           NEW l, Mapping(l, n), ~Has(l, p)
    PROVE  Alike(l, h, val, mods, g, val, mods2)
<1>1. ASSUME NEW i \in 1..Len(l)
      PROVE  l[i] \in 0..(n - 1) /\ l[i] # p
  BY <1>1, MappingFacts DEF Has
<1> QED
  BY <1>1 DEF Alike, SparedAll, SameBut

\* FilteredView::modifyIndividual() keeps view and client in line with the full view.
LEMMA ModifyKeeps ==
    ASSUME NEW n \in Nat, NEW h \in Holders(n), NEW g \in Holders(n),
           NEW p \in Nat, p < n, SameBut(h, g, n, p), NEW val, NEW mods, NEW mods2,
           NEW w, Consistent(w, n, h, val, mods), SparedAll(h, n, p, mods, mods2),
           NEW e, e[p + 1].id = g[p], NEW y, y = ModifyInView(e, val, w, p)
    PROVE  ModifyResult(y, w, p, n, g, val, mods2)
<1>1. w.view \in ViewType /\ Mapping(w.view.local2parent, n)
      /\ Follows(w.res, Names(h, w.view.local2parent), val, mods)
  BY DEF Consistent
<1>2. PICK l : l = w.view.local2parent
  OBVIOUS
<1>3. Mapping(l, n) /\ l \in Seq(Int)
  BY <1>1, <1>2, MappingFacts
<1>4. PICK k \in Nat : k = Len(l)
  BY <1>3, MappingFacts
<1>5. PICK at \in Nat : at = lower_bound(l, p)
  BY <1>3, LowerBound
<1>6. PICK c \in Contacts : c = g[p]
  BY DEF Holders
<1>7. w.view.fill \in BOOLEAN
  BY <1>1, ViewFields
<1>8. PICK shown : shown <=> at < Len(l) /\ l[at + 1] = p
  OBVIOUS
<1>9. Matches(val, w.view.filter, e[p + 1]) <=> val[c] \in w.view.filter
  BY <1>6 DEF Matches
<1>10. y = IF shown /\ val[c] \in w.view.filter
           THEN With(w, l, w.view.fill, handleChange(w.res, "modified", at, c))
           ELSE IF shown THEN EraseLocal(w, at, c, TRUE)
           ELSE IF val[c] \in w.view.filter /\ Included(w.view, at) THEN InsertLocal(w, at, p, c)
           ELSE w
  <2>1. e[p + 1].id = c
    BY <1>6
  <2> QED
    BY <1>2, <1>5, <1>8, <1>9, <2>1, Zenon DEF ModifyInView
<1>11. ~shown => Splits(l, p, at) /\ ~Has(l, p)
  BY <1>3, <1>5, <1>8, Located
<1>12. ASSUME shown
       PROVE  Has(l, p) /\ at < k /\ l[at + 1] = p
  BY <1>3, <1>4, <1>5, <1>8, <1>12, Located
<1>13. SameSearch(w.view, w.view)
  BY DEF SameSearch
<1>14. ASSUME shown, NEW i \in 1..k, i # at + 1
       PROVE  l[i] \in 0..(n - 1) /\ l[i] # p
  <2>1. at + 1 \in 1..k
    BY <1>12, <1>14
  <2>2. \A a, b \in 1..k : a < b => l[a] < l[b]
    BY <1>3, <1>4, MappingFacts
  <2>3. l[i] \in 0..(n - 1)
    BY <1>3, <1>4, MappingFacts
  <2>4. l[i] < p \/ l[i] > p
    BY <1>12, <1>14, <2>1, <2>2
  <2> QED
    BY <2>3, <2>4
<1>15. CASE shown /\ val[c] \in w.view.filter
  <2>1. y = With(w, l, w.view.fill, handleChange(w.res, "modified", at, c))
    BY <1>10, <1>15
  <2>2. /\ y.res = handleChange(w.res, "modified", at, c) /\ y.view \in ViewType
        /\ y.view.local2parent = l /\ SameSearch(y.view, w.view)
    BY <1>1, <1>3, <1>7, <2>1, WithFields
  <2>3. PICK q : q = Names(h, l)
    OBVIOUS
  <2>4. q \in Seq(Contacts) /\ Len(q) = k /\ \A i \in 1..k : q[i] = h[l[i]]
    BY <1>3, <1>4, <2>3, NamesType
  <2>5. PICK q2 : q2 = Names(g, l)
    OBVIOUS
  <2>6. Len(q2) = k /\ \A i \in 1..k : q2[i] = g[l[i]]
    BY <1>3, <1>4, <2>5, NamesType
  <2>7. ASSUME NEW i \in 1..k
        PROVE  q2[i] = IF i = at + 1 THEN c ELSE q[i]
    <3>1. CASE i = at + 1
      BY <1>6, <1>12, <1>15, <2>6, <3>1
    <3>2. CASE i # at + 1
      BY <1>14, <1>15, <2>4, <2>6, <3>2 DEF SameBut
    <3> QED
      BY <3>1, <3>2
  <2>8. Replaced(q, at, c, q2)
    BY <2>4, <2>6, <2>7 DEF Replaced
  <2>9. ASSUME NEW i \in 1..Len(q), i # at + 1, q[i] \in mods
        PROVE  q[i] \in mods2
    BY <1>14, <1>15, <2>4, <2>9 DEF SparedAll
  <2>10. at < Len(q) /\ Follows(w.res, q, val, mods)
    BY <1>1, <1>2, <1>12, <1>15, <2>3, <2>4
  <2>11. Follows(y.res, q2, val, mods2)
    BY <2>2, <2>4, <2>8, <2>9, <2>10, FollowsModified
  <2>12. Rechecked(l, w.view, p, val[g[p]] \in w.view.filter)
    BY <1>2, <1>6, <1>12, <1>15 DEF Rechecked
  <2> QED
    BY <1>3, <2>2, <2>5, <2>11, <2>12 DEF Consistent, ModifyResult
<1>16. CASE shown /\ val[c] \notin w.view.filter
  <2>1. PICK fill \in BOOLEAN : fill = TRUE
    OBVIOUS
  <2>2. y = EraseLocal(w, at, c, fill)
    BY <1>10, <1>16, <2>1
  <2>3. at < Len(w.view.local2parent)
    BY <1>2, <1>4, <1>12, <1>16
  <2>4. Spared(h, w.view.local2parent, at, mods, mods2)
    BY <1>2, <1>4, <1>14, <1>16 DEF Spared, SparedAll
  <2>5. EraseResult(y, w, at, fill, n, h, val, mods2)
    BY <2>2, <2>3, <2>4, EraseKeeps
  <2>6. PICK l2 : l2 = y.view.local2parent
    OBVIOUS
  <2>7. Consistent(y, n, h, val, mods2) /\ SameSearch(y.view, w.view) /\ Erased(l, at, l2) /\ Mapping(l2, n)
    BY <1>2, <2>5, <2>6 DEF EraseResult, Consistent
  <2>8. \A x : Has(l2, x) <=> Has(l, x) /\ x # l[at + 1]
    BY <1>2, <1>3, <2>3, <2>7, HasErased
  <2>9. \A x : Has(l2, x) <=> Has(l, x) /\ x # p
    BY <1>12, <1>16, <2>8
  <2>10. SparedAll(h, n, p, mods2, mods2)
    BY DEF SparedAll
  <2>11. Alike(l2, h, val, mods2, g, val, mods2)
    BY <2>7, <2>9, <2>10, OthersAlike
  <2>12. Consistent(y, n, g, val, mods2)
    BY <2>6, <2>7, <2>11, ConsistentOther
  <2>13. Rechecked(l2, w.view, p, val[g[p]] \in w.view.filter)
    BY <1>2, <1>6, <1>16, <2>9 DEF Rechecked
  <2> QED
    BY <2>6, <2>7, <2>12, <2>13 DEF ModifyResult
<1>17. ASSUME ~shown
       PROVE  Consistent(w, n, g, val, mods2)
  <2>1. Alike(l, h, val, mods, g, val, mods2)
    BY <1>3, <1>11, <1>17, OthersAlike
  <2> QED
    BY <1>2, <1>3, <2>1, ConsistentOther
<1>18. CASE ~shown /\ val[c] \in w.view.filter /\ Included(w.view, at)
  <2>1. y = InsertLocal(w, at, p, c)
    BY <1>10, <1>18
  <2>2. Splits(w.view.local2parent, p, at) /\ Consistent(w, n, g, val, mods2)
    BY <1>2, <1>11, <1>17, <1>18
  <2>3. /\ Consistent(y, n, g, val, mods2)
        /\ SameSearch(y.view, w.view) /\ y.view.fill = w.view.fill
        /\ Extends(y.view.local2parent, w.view.local2parent, p)
    BY <1>6, <2>1, <2>2, InsertKeeps
  <2>4. Rechecked(y.view.local2parent, w.view, p, val[g[p]] \in w.view.filter)
    BY <1>6, <1>18, <2>3 DEF Rechecked, Extends
  <2> QED
    BY <2>3, <2>4 DEF ModifyResult
<1>19. CASE ~shown /\ ~(val[c] \in w.view.filter /\ Included(w.view, at))
  <2>1. y = w
    BY <1>10, <1>19
  <2>2. w.view.max = Unlimited => Included(w.view, at)
    BY DEF Included
  <2>3. Rechecked(l, w.view, p, val[g[p]] \in w.view.filter)
    BY <1>2, <1>6, <1>11, <1>19, <2>2 DEF Rechecked
  <2> QED
    BY <1>2, <1>13, <1>17, <1>19, <2>1, <2>3 DEF ModifyResult
<1> QED
  BY <1>15, <1>16, <1>18, <1>19

(***************************************************************************)
(* FullView: the sorted entries.                                           *)
(***************************************************************************)

\* An entry of the full view.
EntryType == [id : Contacts, criteria : Values]

\* The entries of the full view: sorted, and one per contact.
FullOK(e, o) ==
    /\ e \in Seq(EntryType)
    /\ \A i, j \in 1..Len(e) : e[i].id = e[j].id => i = j
    /\ \A i, j \in 1..Len(e) : i < j => ~Less(o, e[j].criteria, e[i].criteria)

\* Who is at which index of the full view.
HoldersOf(e) == [x \in 0..(Len(e) - 1) |-> e[x + 1].id]

\* Comparing with a sort order is asymmetric and transitive.
LEMMA LessFacts ==
    ASSUME NEW o, NEW a \in Int, NEW b \in Int, NEW c \in Int
    PROVE  /\ Less(o, a, b) => ~Less(o, b, a)
           /\ ~Less(o, b, a) /\ ~Less(o, c, b) => ~Less(o, c, a)
           /\ Less(o, b, c) /\ ~Less(o, b, a) => Less(o, a, c)
<1>1. CASE o = "up"
  BY <1>1 DEF Less
<1>2. CASE o # "up"
  BY <1>2 DEF Less
<1> QED
  BY <1>1, <1>2

\* Entries of the full view have their types.
LEMMA EntryFacts ==
    ASSUME NEW e \in Seq(EntryType)
    PROVE  /\ Len(e) \in Nat /\ DOMAIN e = 1..Len(e)
           /\ \A i \in 1..Len(e) : /\ e[i] \in EntryType /\ e[i].id \in Contacts
                                   /\ e[i].criteria \in Values /\ e[i].criteria \in Int
<1>1. Values \subseteq Int
  BY ConstantsAssumption
<1>2. Len(e) \in Nat /\ DOMAIN e = 1..Len(e) /\ \A i \in 1..Len(e) : e[i] \in EntryType
  BY SeqFacts
<1> QED
  BY <1>1, <1>2 DEF EntryType

\* The contacts at the indices of the full view.
LEMMA HoldersOfFacts ==
    ASSUME NEW e \in Seq(EntryType), NEW n \in Nat, n = Len(e)
    PROVE  HoldersOf(e) \in Holders(n) /\ Holds(e, n, HoldersOf(e))
           /\ \A x \in 0..(n - 1) : HoldersOf(e)[x] = e[x + 1].id
<1>1. \A i \in 1..n : e[i].id \in Contacts
  BY EntryFacts
<1>2. \A x \in 0..(n - 1) : e[x + 1].id \in Contacts
  <2>1. \A x \in 0..(n - 1) : x + 1 \in 1..n
    OBVIOUS
  <2> QED
    BY <1>1, <2>1
<1> QED
  BY <1>2 DEF Holders, Holds, HoldersOf

\* The index of a contact which the full view has.
LEMMA IndexOfFacts ==
    ASSUME NEW e \in Seq(EntryType), NEW id, \E i \in 1..Len(e) : e[i].id = id
    PROVE  /\ IndexOf(e, id) \in Nat /\ IndexOf(e, id) < Len(e) /\ IndexOf(e, id) + 1 \in 1..Len(e)
           /\ e[IndexOf(e, id) + 1].id = id
<1>1. Len(e) \in Nat /\ DOMAIN e = 1..Len(e)
  BY EntryFacts
<1>2. PICK j : j = CHOOSE i \in DOMAIN e : e[i].id = id
  OBVIOUS
<1>3. j \in 1..Len(e) /\ e[j].id = id
  BY <1>1, <1>2
<1>4. IndexOf(e, id) = j - 1
  BY <1>2 DEF IndexOf
<1> QED
  BY <1>1, <1>3, <1>4

\* addIndividual(): lower_bound() is the place for a new entry.
LEMMA InsertionPointSplits ==
    ASSUME NEW o, NEW e, FullOK(e, o), NEW data \in EntryType
    PROVE  /\ InsertionPoint(o, e, data) \in 0..Len(e)
           /\ \A i \in 1..Len(e) : Less(o, e[i].criteria, data.criteria) <=> i <= InsertionPoint(o, e, data)
<1>0. e \in Seq(EntryType)
  BY DEF FullOK
<1>1. Len(e) \in Nat /\ DOMAIN e = 1..Len(e) /\ \A i \in 1..Len(e) : e[i].criteria \in Int
  BY <1>0, EntryFacts
<1>2. data.criteria \in Int
  BY ConstantsAssumption DEF EntryType
<1>3. PICK S : S = {i \in 1..Len(e) : Less(o, e[i].criteria, data.criteria)}
  OBVIOUS
<1>4. S \subseteq 1..Len(e)
  BY <1>3
<1>5. ASSUME NEW i \in S, NEW j \in 1..Len(e), j < i
      PROVE  j \in S
  <2>1. i \in 1..Len(e) /\ Less(o, e[i].criteria, data.criteria)
    BY <1>3
  <2>2. ~Less(o, e[i].criteria, e[j].criteria)
    BY <1>5, <2>1 DEF FullOK
  <2>3. PICK a \in Int, b \in Int, c \in Int : a = e[j].criteria /\ b = e[i].criteria /\ c = data.criteria
    BY <1>1, <1>2, <2>1
  <2>4. Less(o, a, c)
    BY <2>1, <2>2, <2>3, LessFacts
  <2> QED
    BY <1>3, <2>3, <2>4
<1>6. Cardinality(S) \in 0..Len(e) /\ \A i \in 1..Len(e) : i \in S <=> i <= Cardinality(S)
  BY <1>1, <1>4, <1>5, PrefixCardinality
<1>7. InsertionPoint(o, e, data) = Cardinality(S)
  BY <1>1, <1>3 DEF InsertionPoint
<1>8. \A i \in 1..Len(e) : i \in S <=> Less(o, e[i].criteria, data.criteria)
  BY <1>3
<1> QED
  BY <1>6, <1>7, <1>8

\* The full view e2 has one more entry than e, at index p.
Grown(e2, e, o, p, id) ==
    /\ FullOK(e2, o) /\ Len(e2) = Len(e) + 1
    /\ MovedUp(HoldersOf(e), HoldersOf(e2), Len(e), p)
    /\ e2[p + 1].id = id

\* addIndividual(): the full view stays sorted.
LEMMA FullViewAdd ==
    ASSUME NEW o, NEW e, FullOK(e, o), NEW data \in EntryType,
           \A i \in 1..Len(e) : e[i].id # data.id,
           NEW p \in Nat, p = InsertionPoint(o, e, data),
           NEW e2, e2 = InsertAt(e, p + 1, data)
    PROVE  p <= Len(e) /\ Grown(e2, e, o, p, data.id)
<1>1. /\ e \in Seq(EntryType)
      /\ \A i, j \in 1..Len(e) : e[i].id = e[j].id => i = j
      /\ \A i, j \in 1..Len(e) : i < j => ~Less(o, e[j].criteria, e[i].criteria)
  BY DEF FullOK
<1>2. PICK n \in Nat : n = Len(e)
  BY <1>1
<1>3. p \in 0..n /\ \A i \in 1..n : Less(o, e[i].criteria, data.criteria) <=> i <= p
  BY <1>2, InsertionPointSplits
<1>4. /\ e2 \in Seq(EntryType) /\ Len(e2) = n + 1
      /\ \A i \in 1..(n + 1) : e2[i] = IF i < p + 1 THEN e[i] ELSE IF i = p + 1 THEN data ELSE e[i - 1]
  <2>1. PICK j \in 1..(Len(e) + 1) : j = p + 1
    BY <1>2, <1>3
  <2>2. /\ InsertAt(e, j, data) \in Seq(EntryType) /\ Len(InsertAt(e, j, data)) = Len(e) + 1
        /\ \A i \in 1..(Len(e) + 1) :
              InsertAt(e, j, data)[i] = IF i < j THEN e[i] ELSE IF i = j THEN data ELSE e[i - 1]
    BY <1>1, InsertInto
  <2>3. e2 = InsertAt(e, j, data)
    BY <2>1
  <2> QED
    BY <1>2, <2>1, <2>2, <2>3
<1>5. ASSUME NEW i \in 1..(n + 1)
      PROVE  \/ i = p + 1 /\ e2[i] = data
             \/ i <= p /\ i \in 1..n /\ e2[i] = e[i]
             \/ i > p + 1 /\ i - 1 \in 1..n /\ e2[i] = e[i - 1]
  <2>1. CASE i <= p
    <3>1. i < p + 1 /\ i \in 1..n
      BY <1>3, <2>1
    <3> QED
      BY <1>4, <2>1, <3>1
  <2>2. CASE i = p + 1
    BY <1>4, <2>2
  <2>3. CASE i > p + 1
    <3>1. ~(i < p + 1) /\ i # p + 1 /\ i - 1 \in 1..n
      BY <1>3, <2>3
    <3> QED
      BY <1>4, <2>3, <3>1
  <2> QED
    BY <2>1, <2>2, <2>3
<1>6. ASSUME NEW i \in 1..(n + 1), NEW j \in 1..(n + 1), e2[i].id = e2[j].id
      PROVE  i = j
  <2>1. \A a \in 1..n : e[a].id # data.id
    BY <1>2
  <2>2. \A a, b \in 1..n : e[a].id = e[b].id => a = b
    BY <1>1, <1>2
  <2>3. CASE i = p + 1
    BY <1>5, <1>6, <2>1, <2>3, SMTT(30)
  <2>4. CASE i <= p
    <3>1. i \in 1..n /\ e2[i] = e[i]
      BY <1>5, <2>4
    <3>2. j <= p \/ j > p + 1
      BY <1>5, <1>6, <2>1, <3>1
    <3>3. CASE j <= p
      BY <1>5, <1>6, <2>2, <3>1, <3>3
    <3>4. CASE j > p + 1
      <4>1. j - 1 \in 1..n /\ e2[j] = e[j - 1]
        BY <1>5, <3>4
      <4>2. i = j - 1
        BY <1>6, <2>2, <3>1, <4>1
      <4> QED
        BY <2>4, <3>4, <4>2
    <3> QED
      BY <3>2, <3>3, <3>4
  <2>5. CASE i > p + 1
    <3>1. i - 1 \in 1..n /\ e2[i] = e[i - 1]
      BY <1>5, <2>5
    <3>2. j <= p \/ j > p + 1
      BY <1>5, <1>6, <2>1, <3>1
    <3>3. CASE j <= p
      <4>1. j \in 1..n /\ e2[j] = e[j]
        BY <1>5, <3>3
      <4>2. j = i - 1
        BY <1>6, <2>2, <3>1, <4>1
      <4> QED
        BY <2>5, <3>3, <4>2
    <3>4. CASE j > p + 1
      <4>1. j - 1 \in 1..n /\ e2[j] = e[j - 1]
        BY <1>5, <3>4
      <4>2. i - 1 = j - 1
        BY <1>6, <2>2, <3>1, <4>1
      <4> QED
        BY <4>2
    <3> QED
      BY <3>2, <3>3, <3>4
  <2> QED
    BY <2>3, <2>4, <2>5
<1>7. ASSUME NEW i \in 1..(n + 1), NEW j \in 1..(n + 1), i < j
      PROVE  ~Less(o, e2[j].criteria, e2[i].criteria)
  <2>1. data.criteria \in Int /\ \A a \in 1..n : e[a].criteria \in Int
    BY <1>1, <1>2, EntryFacts, ConstantsAssumption DEF EntryType
  <2>2. \A a, b \in 1..n : a < b => ~Less(o, e[b].criteria, e[a].criteria)
    BY <1>1, <1>2
  <2>3. CASE j <= p
    <3>1. i <= p
      BY <1>7, <2>3
    <3> QED
      BY <1>5, <1>7, <2>2, <2>3, <3>1
  <2>4. CASE j = p + 1
    <3>1. i <= p
      BY <1>7, <2>4
    <3>2. i \in 1..n /\ e2[i] = e[i] /\ e2[j] = data
      BY <1>5, <2>4, <3>1
    <3>3. Less(o, e[i].criteria, data.criteria)
      BY <1>3, <3>1, <3>2
    <3> QED
      BY <2>1, <3>2, <3>3, LessFacts
  <2>5. CASE j > p + 1
    <3>1. PICK b \in 1..n : b = j - 1 /\ e2[j] = e[b]
      BY <1>5, <2>5
    <3>2. CASE i <= p
      <4>1. i \in 1..n /\ e2[i] = e[i] /\ i < b
        BY <1>5, <2>5, <3>1, <3>2
      <4> QED
        BY <2>2, <3>1, <4>1
    <3>3. CASE i = p + 1
      <4>1. e2[i] = data /\ ~(b <= p)
        BY <1>5, <2>5, <3>1, <3>3
      <4> QED
        BY <1>3, <3>1, <4>1
    <3>4. CASE i > p + 1
      <4>1. PICK a \in 1..n : a = i - 1 /\ e2[i] = e[a]
        BY <1>5, <3>4
      <4>2. a < b
        BY <1>7, <3>1, <4>1
      <4> QED
        BY <2>2, <3>1, <4>1, <4>2
    <3> QED
      BY <3>2, <3>3, <3>4
  <2> QED
    BY <2>3, <2>4, <2>5
<1>8. FullOK(e2, o)
  BY <1>4, <1>6, <1>7 DEF FullOK
<1>9. MovedUp(HoldersOf(e), HoldersOf(e2), n, p)
  <2>1. \A x \in 0..(n - 1) : HoldersOf(e)[x] = e[x + 1].id
    BY <1>1, <1>2, HoldersOfFacts
  <2>2. PICK m \in Nat : m = n + 1
    OBVIOUS
  <2>3. \A x \in 0..(m - 1) : HoldersOf(e2)[x] = e2[x + 1].id
    BY <1>4, <2>2, HoldersOfFacts
  <2>4. ASSUME NEW x \in 0..(n - 1)
        PROVE  HoldersOf(e)[x] = HoldersOf(e2)[IF x < p THEN x ELSE x + 1]
    <3>1. x \in 0..(m - 1) /\ x + 1 \in 0..(m - 1) /\ x + 1 \in 1..(n + 1) /\ (x + 1) + 1 \in 1..(n + 1)
      BY <2>2
    <3>2. CASE x < p
      <4>1. x + 1 <= p
        BY <3>2
      <4>2. e2[x + 1] = e[x + 1]
        BY <1>5, <3>1, <4>1
      <4> QED
        BY <2>1, <2>3, <3>1, <3>2, <4>2
    <3>3. CASE ~(x < p)
      <4>1. (x + 1) + 1 > p + 1 /\ ((x + 1) + 1) - 1 = x + 1
        BY <3>3
      <4>2. e2[(x + 1) + 1] = e[x + 1]
        BY <1>5, <3>1, <4>1
      <4> QED
        BY <2>1, <2>3, <3>1, <3>3, <4>2
    <3> QED
      BY <3>2, <3>3
  <2> QED
    BY <2>4 DEF MovedUp
<1>10. e2[p + 1] = data
  <2>1. p + 1 \in 1..(n + 1)
    BY <1>3
  <2> QED
    BY <1>5, <2>1
<1> QED
  BY <1>2, <1>3, <1>4, <1>8, <1>9, <1>10 DEF Grown

\* The full view e2 has one entry less than e, the one at index p.
Shrunk(e2, e, o, p) ==
    /\ FullOK(e2, o) /\ Len(e) = Len(e2) + 1
    /\ MovedUp(HoldersOf(e2), HoldersOf(e), Len(e2), p)
    /\ \A i \in 1..Len(e2) : e2[i].id # e[p + 1].id

\* removeIndividual(): the full view stays sorted.
LEMMA FullViewRemove ==
    ASSUME NEW o, NEW e, FullOK(e, o), NEW p \in Nat, p < Len(e),
           NEW e2, e2 = RemoveAt(e, p + 1)
    PROVE  Shrunk(e2, e, o, p)
<1>1. /\ e \in Seq(EntryType)
      /\ \A i, j \in 1..Len(e) : e[i].id = e[j].id => i = j
      /\ \A i, j \in 1..Len(e) : i < j => ~Less(o, e[j].criteria, e[i].criteria)
  BY DEF FullOK
<1>2. PICK n \in Nat : n = Len(e) /\ p + 1 \in 1..n
  BY <1>1
<1>3. PICK m \in Nat : m = n - 1
  BY <1>2
<1>4. /\ e2 \in Seq(EntryType) /\ Len(e2) = m
      /\ \A i \in 1..m : e2[i] = IF i < p + 1 THEN e[i] ELSE e[i + 1]
  BY <1>1, <1>2, <1>3, RemoveAtProperties
<1>5. ASSUME NEW i \in 1..m
      PROVE  \E a \in 1..n : a = (IF i <= p THEN i ELSE i + 1) /\ e2[i] = e[a]
  <2>1. CASE i <= p
    <3>1. i < p + 1 /\ i \in 1..n
      BY <1>3, <2>1
    <3> QED
      BY <1>4, <2>1, <3>1
  <2>2. CASE ~(i <= p)
    <3>1. ~(i < p + 1) /\ i + 1 \in 1..n
      BY <1>3, <2>2
    <3> QED
      BY <1>4, <2>2, <3>1
  <2> QED
    BY <2>1, <2>2
<1>6. ASSUME NEW i \in 1..m, NEW j \in 1..m
      PROVE  /\ e2[i].id = e2[j].id => i = j
             /\ i < j => ~Less(o, e2[j].criteria, e2[i].criteria)
  <2>1. PICK a \in 1..n : a = (IF i <= p THEN i ELSE i + 1) /\ e2[i] = e[a]
    BY <1>5
  <2>2. PICK b \in 1..n : b = (IF j <= p THEN j ELSE j + 1) /\ e2[j] = e[b]
    BY <1>5
  <2>3. (a = b => i = j) /\ (i < j => a < b)
    BY <2>1, <2>2
  <2> QED
    BY <1>1, <1>2, <2>1, <2>2, <2>3
<1>7. FullOK(e2, o)
  BY <1>4, <1>6 DEF FullOK
<1>8. MovedUp(HoldersOf(e2), HoldersOf(e), m, p)
  <2>1. \A x \in 0..(n - 1) : HoldersOf(e)[x] = e[x + 1].id
    BY <1>1, <1>2, HoldersOfFacts
  <2>2. \A x \in 0..(m - 1) : HoldersOf(e2)[x] = e2[x + 1].id
    BY <1>4, HoldersOfFacts
  <2>3. ASSUME NEW x \in 0..(m - 1)
        PROVE  HoldersOf(e2)[x] = HoldersOf(e)[IF x < p THEN x ELSE x + 1]
    <3>1. x \in 0..(n - 1) /\ x + 1 \in 0..(n - 1) /\ x + 1 \in 1..m
      BY <1>3
    <3>2. PICK a \in 1..n : a = (IF x + 1 <= p THEN x + 1 ELSE (x + 1) + 1) /\ e2[x + 1] = e[a]
      BY <1>5, <3>1
    <3>3. CASE x < p
      <4>1. a = x + 1
        BY <3>2, <3>3
      <4> QED
        BY <2>1, <2>2, <3>1, <3>2, <3>3, <4>1
    <3>4. CASE ~(x < p)
      <4>1. a = (x + 1) + 1
        BY <3>2, <3>4
      <4> QED
        BY <2>1, <2>2, <3>1, <3>2, <3>4, <4>1
    <3> QED
      BY <3>3, <3>4
  <2> QED
    BY <2>3 DEF MovedUp
<1>9. ASSUME NEW i \in 1..m
      PROVE  e2[i].id # e[p + 1].id
  <2>1. PICK a \in 1..n : a = (IF i <= p THEN i ELSE i + 1) /\ e2[i] = e[a]
    BY <1>5
  <2>2. a # p + 1
    BY <2>1
  <2> QED
    BY <1>1, <1>2, <2>1, <2>2
<1> QED
  BY <1>2, <1>3, <1>4, <1>7, <1>8, <1>9 DEF Shrunk

\* An entry of the full view that has its place between the others changed.
InPlace(e, o, p, data) ==
    /\ data.id = e[p + 1].id
    /\ \/ data.criteria = e[p + 1].criteria
       \/ /\ p > 0 => Less(o, e[p].criteria, data.criteria)
          /\ p + 1 < Len(e) => Less(o, data.criteria, e[p + 2].criteria)

\* The same contacts at the same indices.
Edited(e2, e, o) == FullOK(e2, o) /\ Len(e2) = Len(e) /\ HoldersOf(e2) = HoldersOf(e)

\* modifyIndividual(): an entry which still is between its neighbours stays there.
LEMMA FullViewModify ==
    ASSUME NEW o, NEW e, FullOK(e, o), NEW p \in Nat, p < Len(e), NEW data \in EntryType,
           InPlace(e, o, p, data),
           NEW e2, e2 = [e EXCEPT ![p + 1] = data]
    PROVE  Edited(e2, e, o)
<1>1. /\ e \in Seq(EntryType)
      /\ \A i, j \in 1..Len(e) : e[i].id = e[j].id => i = j
      /\ \A i, j \in 1..Len(e) : i < j => ~Less(o, e[j].criteria, e[i].criteria)
  BY DEF FullOK
<1>2. PICK n \in Nat : n = Len(e)
  BY <1>1
<1>3. PICK k \in 1..n : k = p + 1
  BY <1>2
<1>4. e2 \in Seq(EntryType) /\ Len(e2) = n /\ \A i \in 1..n : e2[i] = IF i = k THEN data ELSE e[i]
  <2>1. DOMAIN e = 1..n /\ \A i \in 1..n : e[i] \in EntryType
    BY <1>1, <1>2, SeqFacts
  <2>2. e2 \in [1..n -> EntryType] /\ \A i \in 1..n : e2[i] = IF i = k THEN data ELSE e[i]
    BY <1>1, <1>2, <1>3, <2>1
  <2> QED
    BY <2>2, FunctionIsSeq
<1>5. \A i \in 1..n : e2[i].id = e[i].id
  BY <1>3, <1>4 DEF InPlace
<1>6. \A i \in 1..n : e[i].criteria \in Int
  BY <1>1, <1>2, EntryFacts
<1>7. data.criteria \in Int
  BY ConstantsAssumption DEF EntryType
<1>8. \A i, j \in 1..n : i < j => ~Less(o, e[j].criteria, e[i].criteria)
  BY <1>1, <1>2
<1>9. ASSUME NEW i \in 1..n, i < k
      PROVE  ~Less(o, data.criteria, e[i].criteria)
  <2>1. CASE data.criteria = e[k].criteria
    BY <1>8, <1>9, <2>1
  <2>2. CASE data.criteria # e[k].criteria
    <3>1. p > 0 /\ p \in 1..n
      BY <1>3, <1>9
    <3>2. Less(o, e[p].criteria, data.criteria)
      BY <1>3, <2>2, <3>1 DEF InPlace
    <3>3. i = p \/ ~Less(o, e[p].criteria, e[i].criteria)
      BY <1>3, <1>8, <1>9, <3>1
    <3>4. PICK a \in Int, b \in Int, c \in Int : a = e[i].criteria /\ b = e[p].criteria /\ c = data.criteria
      BY <1>6, <1>7, <3>1
    <3>5. Less(o, a, c)
      BY <3>2, <3>3, <3>4, LessFacts
    <3>6. ~Less(o, c, a)
      BY <3>5, LessFacts
    <3> QED
      BY <3>4, <3>6
  <2> QED
    BY <2>1, <2>2
<1>10. ASSUME NEW j \in 1..n, k < j
       PROVE  ~Less(o, e[j].criteria, data.criteria)
  <2>1. CASE data.criteria = e[k].criteria
    BY <1>8, <1>10, <2>1
  <2>2. CASE data.criteria # e[k].criteria
    <3>1. PICK s \in 1..n : s = p + 2 /\ p + 1 < n
      BY <1>3, <1>10
    <3>2. Less(o, data.criteria, e[s].criteria)
      BY <1>2, <1>3, <2>2, <3>1 DEF InPlace
    <3>3. j = s \/ ~Less(o, e[j].criteria, e[s].criteria)
      BY <1>3, <1>8, <1>10, <3>1
    <3>4. PICK a \in Int, b \in Int, c \in Int : a = e[j].criteria /\ b = e[s].criteria /\ c = data.criteria
      BY <1>6, <1>7, <3>1
    <3>5. Less(o, c, b) /\ (a = b \/ ~Less(o, a, b))
      BY <3>2, <3>3, <3>4
    <3>6. ~Less(o, b, c)
      BY <3>5, LessFacts
    <3>7. ~Less(o, a, c)
      BY <3>5, <3>6, LessFacts
    <3> QED
      BY <3>4, <3>7
  <2> QED
    BY <2>1, <2>2
<1>11. ASSUME NEW i \in 1..n, NEW j \in 1..n, i < j
       PROVE  ~Less(o, e2[j].criteria, e2[i].criteria)
  <2>1. CASE i = k
    <3>1. j # k /\ e2[i] = data /\ e2[j] = e[j]
      BY <1>4, <1>11, <2>1
    <3> QED
      BY <1>10, <1>11, <2>1, <3>1
  <2>2. CASE j = k
    <3>1. i # k /\ e2[j] = data /\ e2[i] = e[i]
      BY <1>4, <1>11, <2>2
    <3> QED
      BY <1>9, <1>11, <2>2, <3>1
  <2>3. CASE i # k /\ j # k
    BY <1>4, <1>8, <1>11, <2>3
  <2> QED
    BY <2>1, <2>2, <2>3
<1>12. FullOK(e2, o)
  BY <1>1, <1>2, <1>4, <1>5, <1>11 DEF FullOK
<1>13. HoldersOf(e2) = HoldersOf(e)
  <2>1. \A x \in 0..(n - 1) : e2[x + 1].id = e[x + 1].id
    <3>1. \A x \in 0..(n - 1) : x + 1 \in 1..n
      OBVIOUS
    <3> QED
      BY <1>5, <3>1
  <2> QED
    BY <1>2, <1>4, <2>1 DEF HoldersOf
<1> QED
  BY <1>2, <1>4, <1>12, <1>13 DEF Edited

\* The full view e2 has the contacts of e in the order o2.
Reordered(e2, e, o2, perm, n) ==
    /\ FullOK(e2, o2) /\ Len(e2) = n
    /\ \A i \in 1..n : e2[i].id = e[perm[i]].id /\ perm[i] \in 1..n

\* setCompare(): the same contacts with new criteria in another order.
LEMMA FullViewReorder ==
    ASSUME NEW o, NEW e, FullOK(e, o), NEW val \in [Contacts -> Values], NEW n \in Nat, n = Len(e),
           NEW perm \in Bijection(1..n, 1..n),
           NEW e2, e2 = [i \in 1..n |-> Entry(val, e[perm[i]].id)],
           NEW o2, Sorted(o2, e2)
    PROVE  Reordered(e2, e, o2, perm, n)
<1>1. e \in Seq(EntryType) /\ \A i, j \in 1..n : e[i].id = e[j].id => i = j
  BY DEF FullOK
<1>2. \A i \in 1..n : e[i].id \in Contacts
  BY <1>1, EntryFacts
<1>3. \A i, j \in 1..n : perm[i] \in 1..n /\ (perm[i] = perm[j] => i = j)
  BY DEF Bijection, Injection, IsInjective
<1>4. \A i \in 1..n : e2[i] \in EntryType /\ e2[i].id = e[perm[i]].id
  BY <1>2, <1>3 DEF Entry, EntryType
<1>5. e2 \in [1..n -> EntryType]
  BY <1>4
<1>6. e2 \in Seq(EntryType) /\ Len(e2) = n /\ DOMAIN e2 = 1..n
  BY <1>5, FunctionIsSeq
<1>7. ASSUME NEW i \in 1..n, NEW j \in 1..n, e2[i].id = e2[j].id
      PROVE  i = j
  <2>1. perm[i] \in 1..n /\ perm[j] \in 1..n /\ e[perm[i]].id = e[perm[j]].id
    BY <1>3, <1>4, <1>7
  <2>2. perm[i] = perm[j]
    BY <1>1, <2>1
  <2> QED
    BY <1>3, <2>2
<1>8. \A i, j \in 1..n : i < j => ~Less(o2, e2[j].criteria, e2[i].criteria)
  BY <1>6 DEF Sorted
<1> QED
  BY <1>3, <1>4, <1>6, <1>7, <1>8 DEF FullOK, Reordered

(***************************************************************************)
(* The invariant.                                                          *)
(***************************************************************************)

\* Types of the callback.
LoopType ==
    [kind : {"none", "removing", "adding", "examining", "filling", "refining", "sorting"},
     next : Nat, flush : BOOLEAN, filter : SUBSET Values, old : Seq(Contacts)]

\* Callbacks which do not loop over the view or over the full view.
Plain == {"none", "removing", "adding", "examining"}

\* Who the view takes for the contact at which index: setCompare() has not
\* told about the new order from its index on.
Held(lp, e) ==
    [x \in 0..(Len(e) - 1) |-> IF lp.kind = "sorting" /\ x >= lp.next THEN lp.old[x + 1] ELSE e[x + 1].id]

\* Why index p, with a contact whose data is x, may be missing in the view.
Skipping(v, lp, p, x) ==
    \/ v.max # Unlimited
    \/ lp.kind = "filling" /\ p >= lp.next
    \/ x \notin (IF lp.kind = "refining" THEN lp.filter ELSE v.filter)

\* The view has what matches its filter, as far as the callback got, unless it
\* was made for another filter.
Exact(v, lp, n, h, val, mods) ==
    v.open => \A p \in 0..(n - 1) :
        \/ v.replaced
        \/ h[p] \in mods
        \/ Has(v.local2parent, p) /\ val[h[p]] \in v.filter
        \/ ~Has(v.local2parent, p) /\ Skipping(v, lp, p, val[h[p]])

\* fillViewCb() has nothing in the view that it did not reach yet.
FillingOK(v, lp, n) ==
    v.open /\ lp.next <= n /\ \A i \in 1..Len(v.local2parent) : v.local2parent[i] < lp.next

\* replaceFilter() has checked what is in the view before its index.
RefiningOK(v, lp, h, val) ==
    /\ v.open
    /\ lp.next <= Len(v.local2parent)
    /\ \A i \in 1..lp.next : val[h[v.local2parent[i]]] \in lp.filter

\* setCompare() has the old order of all contacts.
SortingOK(v, lp, n) == v.open /\ lp.next <= n /\ Len(lp.old) = n

\* What the running callback relies on.
LoopOK(v, lp, n, h, val) ==
    /\ lp.kind = "filling" => FillingOK(v, lp, n)
    /\ lp.kind = "refining" => RefiningOK(v, lp, h, val)
    /\ lp.kind = "sorting" => SortingOK(v, lp, n)

\* The view v and its client, r, are in line with the full view.
InLine(v, r, lp, n, h, val, mods) ==
    /\ Consistent([view |-> v, res |-> r], n, h, val, mods)
    /\ ~v.open => v = NoView /\ r = NoResource
    /\ Exact(v, lp, n, h, val, mods)
    /\ LoopOK(v, lp, n, h, val)

\* Types of everything but entries, view and resource.  Modifications that are
\* going to be examined are those the full view has listened to.
FullTypes ==
    /\ value \in [Contacts -> Values]
    /\ order \in {"up", "down"}
    /\ modifications \subseteq Present
    /\ notify \in [Contacts -> Notify]
    /\ \A c \in modifications : notify[c] = "on"
    /\ {idle, quiescent, undefined} \subseteq BOOLEAN
    /\ stimuli \in Nat
    /\ loop \in LoopType

\* The inductive invariant.
IInv ==
    /\ FullTypes
    /\ FullOK(entries, order)
    /\ InLine(view, res, loop, Len(entries), Held(loop, entries), value, Unexamined)

\* Start of a callback.
LEMMA LoopIsTyped ==
    ASSUME NEW kind \in {"none", "removing", "adding", "examining", "filling", "refining", "sorting"},
           NEW next \in Nat
    PROVE  Loop(kind, next) \in LoopType
<1>1. <<>> \in Seq(Contacts)
  OBVIOUS
<1> QED
  BY <1>1 DEF Loop, LoopType

\* Who the view takes for the contacts, outside of setCompare() and in it.
LEMMA HeldType ==
    ASSUME NEW e \in Seq(EntryType), NEW n \in Nat, n = Len(e), NEW lp \in LoopType,
           lp.kind = "sorting" => Len(lp.old) = n
    PROVE  /\ Held(lp, e) \in Holders(n)
           /\ lp.kind # "sorting" => Held(lp, e) = HoldersOf(e)
           /\ \A x \in 0..(n - 1) :
                 Held(lp, e)[x] = IF lp.kind = "sorting" /\ x >= lp.next THEN lp.old[x + 1] ELSE e[x + 1].id
<1>1. \A x \in 0..(n - 1) : e[x + 1].id \in Contacts
  <2>1. \A i \in 1..n : e[i].id \in Contacts
    BY EntryFacts
  <2>2. \A x \in 0..(n - 1) : x + 1 \in 1..n
    OBVIOUS
  <2> QED
    BY <2>1, <2>2
<1>2. ASSUME lp.kind = "sorting", NEW x \in 0..(n - 1)
      PROVE  lp.old[x + 1] \in Contacts
  <2>1. lp.old \in Seq(Contacts) /\ Len(lp.old) = n
    BY <1>2 DEF LoopType
  <2>2. x + 1 \in 1..n
    OBVIOUS
  <2> QED
    BY <2>1, <2>2, SeqFacts
<1>3. \A x \in 0..(n - 1) :
        (IF lp.kind = "sorting" /\ x >= lp.next THEN lp.old[x + 1] ELSE e[x + 1].id) \in Contacts
  BY <1>1, <1>2
<1>4. ASSUME lp.kind # "sorting"
      PROVE  Held(lp, e) = HoldersOf(e)
  BY <1>4 DEF Held, HoldersOf
<1> QED
  BY <1>3, <1>4 DEF Held, Holders

\* The view which does not exist.
LEMMA NoViewType ==
    /\ NoView \in ViewType /\ ~NoView.open /\ ~NoView.fill /\ NoView.local2parent = <<>>
    /\ NoView.max = Unlimited /\ NoView.filter = {}
<1>1. <<>> \in Seq(Int)
  OBVIOUS
<1> QED
  BY <1>1 DEF NoView, ViewType

\* An empty view, and its client who was not told anything.
LEMMA EmptyConsistent ==
    ASSUME NEW v \in ViewType, v.local2parent = <<>>, NEW n, NEW h, NEW val, NEW mods
    PROVE  Consistent([view |-> v, res |-> NoResource], n, h, val, mods)
<1>1. Len(<<>>) = 0 /\ <<>> \in Seq(AgentEntry) /\ <<>> \in Seq(Int)
  OBVIOUS
<1>2. Mapping(<<>>, n)
  BY <1>1 DEF Mapping, Increasing
<1>3. NoResource \in ResourceType /\ NoResource.pending = NoChange /\ NoResource.last = NoChange
      /\ NoResource.agent = <<>> /\ NoResource.misled = FALSE
  <2>1. NoResource.pending = NoChange /\ NoResource.last = NoChange
        /\ NoResource.agent = <<>> /\ NoResource.misled = FALSE
    BY DEF NoResource, Resource
  <2>2. NoResource \in ResourceType
    BY <1>1, NoChangeType, ResourceIsTyped DEF NoResource
  <2> QED
    BY <2>1, <2>2
<1>4. Fits(NoResource) /\ Told(NoResource)
  <2>1. NoChange.start + Len(NoChange.ids) <= Len(<<>>) /\ NoChange.start <= Len(<<>>)
    BY <1>1, NoChangeType
  <2> QED
    BY <1>3, <2>1, NoChangeType DEF Fits, Told
<1>5. Mirrored(NoResource) = <<>>
  BY <1>3, NoChangeType, NothingPending DEF Mirrored
<1>6. Len(Names(h, <<>>)) = 0
  BY <1>1 DEF Names
<1>7. Follows(NoResource, Names(h, <<>>), val, mods)
  BY <1>1, <1>3, <1>4, <1>5, <1>6 DEF Follows, Agrees, ResourceOK
<1> QED
  BY <1>2, <1>7 DEF Consistent

\* Nothing is to be kept without a view.
LEMMA ClosedInLine ==
    ASSUME NEW lp, lp.kind \in Plain, NEW n, NEW h, NEW val, NEW mods
    PROVE  InLine(NoView, NoResource, lp, n, h, val, mods)
<1>1. Consistent([view |-> NoView, res |-> NoResource], n, h, val, mods)
  BY NoViewType, EmptyConsistent
<1> QED
  BY <1>1, NoViewType DEF InLine, Exact, LoopOK, Plain

\* Outside of the loops over the view it does not matter where the callback is.
LEMMA PlainInLine ==
    ASSUME NEW v, NEW r, NEW n, NEW h, NEW val, NEW mods,
           NEW lp, lp.kind \in Plain, InLine(v, r, lp, n, h, val, mods),
           NEW lp2, lp2.kind \in Plain
    PROVE  InLine(v, r, lp2, n, h, val, mods)
<1>1. Exact(v, lp2, n, h, val, mods) /\ LoopOK(v, lp2, n, h, val)
  BY DEF InLine, Exact, Skipping, LoopOK, Plain
<1> QED
  BY <1>1 DEF InLine

\* flushChanges() sends what is pending.
LEMMA FlushInLine ==
    ASSUME NEW v, v.open, NEW r, NEW lp, NEW n, NEW h, NEW val, NEW mods, InLine(v, r, lp, n, h, val, mods)
    PROVE  InLine(v, flushChanges(r), lp, n, h, val, mods)
<1>1. Consistent([view |-> v, res |-> r], n, h, val, mods)
  BY DEF InLine
<1>2. v \in ViewType /\ Mapping(v.local2parent, n) /\ Follows(r, Names(h, v.local2parent), val, mods)
  BY <1>1 DEF Consistent
<1>3. Consistent([view |-> v, res |-> flushChanges(r)], n, h, val, mods)
  BY <1>2, FollowsFlushed DEF Consistent
<1> QED
  BY <1>3 DEF InLine

\* fillViewCb() starts behind the last entry of the view.
LEMMA FillingInLine ==
    ASSUME NEW v, v.open, NEW r, NEW lp, lp.kind \in Plain, NEW n \in Nat, NEW h, NEW val, NEW mods,
           InLine(v, r, lp, n, h, val, mods), NEW flush \in BOOLEAN
    PROVE  Filling(v, flush) \in LoopType /\ Filling(v, flush).kind = "filling"
           /\ InLine(v, r, Filling(v, flush), n, h, val, mods)
<1>1. Mapping(v.local2parent, n)
  BY DEF InLine, Consistent
<1>2. PICK l : l = v.local2parent
  OBVIOUS
<1>3. PICK k \in Nat : k = Len(l)
  BY <1>1, <1>2, MappingFacts
<1>4. \A i \in 1..k : l[i] \in 0..(n - 1)
  BY <1>1, <1>2, <1>3, MappingFacts
<1>5. \A i, j \in 1..k : i < j => l[i] < l[j]
  BY <1>1, <1>2, <1>3, MappingFacts
<1>6. PICK next : next = IF l = <<>> THEN 0 ELSE l[Len(l)] + 1
  OBVIOUS
<1>7. next \in Nat /\ next <= n /\ \A i \in 1..k : l[i] < next
  <2>1. CASE l = <<>>
    <3>1. k = 0 /\ next = 0
      BY <1>3, <1>6, <2>1
    <3> QED
      BY <3>1
  <2>2. CASE l # <<>>
    <3>1. k \in 1..k
      <4>1. l \in Seq(Int)
        BY <1>1, <1>2, MappingFacts
      <4> QED
        BY <1>3, <2>2, <4>1
    <3>2. PICK x \in 0..(n - 1) : x = l[k]
      BY <1>4, <3>1
    <3>3. next = x + 1
      BY <1>3, <1>6, <2>2, <3>2
    <3>4. ASSUME NEW i \in 1..k
          PROVE  l[i] <= x
      <4>1. i = k \/ i < k
        OBVIOUS
      <4>2. l[i] \in 0..(n - 1)
        BY <1>4
      <4> QED
        BY <1>5, <3>1, <3>2, <4>1, <4>2
    <3> QED
      BY <1>4, <3>3, <3>4
  <2> QED
    BY <2>1, <2>2
<1>8. PICK lp2 : lp2 = Filling(v, flush)
  OBVIOUS
<1>9. lp2 = [Loop("filling", next) EXCEPT !.flush = flush]
  BY <1>2, <1>6, <1>8 DEF Filling
<1>10. lp2 \in LoopType /\ lp2.kind = "filling" /\ lp2.next = next
  <2>1. <<>> \in Seq(Contacts)
    OBVIOUS
  <2>2. Loop("filling", next) \in LoopType
    BY <1>7, <2>1 DEF Loop, LoopType
  <2> QED
    BY <1>9, <2>2 DEF LoopType, Loop
<1>11. FillingOK(v, lp2, n)
  BY <1>2, <1>3, <1>7, <1>10 DEF FillingOK
<1>12. LoopOK(v, lp2, n, h, val)
  BY <1>10, <1>11 DEF LoopOK
<1>13. Exact(v, lp2, n, h, val, mods)
  BY <1>10 DEF InLine, Exact, Skipping, Plain
<1> QED
  BY <1>8, <1>10, <1>12, <1>13 DEF InLine

\* m_quiescenceSignal reaches view and client.
LEMMA SignalInLine ==
    ASSUME NEW v, NEW r, NEW lp, lp.kind \in Plain, NEW n \in Nat, NEW h, NEW val, NEW mods,
           InLine(v, r, lp, n, h, val, mods), NEW q \in BOOLEAN
    PROVE  /\ Following(q, v) \in LoopType /\ Following(q, v).kind # "sorting"
           /\ InLine(v, Forwarded(q, v, r), Following(q, v), n, h, val, mods)
<1>1. NoLoop \in LoopType /\ NoLoop.kind = "none" /\ NoLoop.kind \in Plain
  <2>1. <<>> \in Seq(Contacts)
    OBVIOUS
  <2> QED
    BY <2>1 DEF NoLoop, Loop, LoopType, Plain
<1>2. InLine(v, r, NoLoop, n, h, val, mods)
  BY <1>1, PlainInLine
<1>3. CASE q /\ v.open /\ v.fill
  <2>1. PICK flush \in BOOLEAN : flush = TRUE
    OBVIOUS
  <2>2. Following(q, v) = Filling(v, flush) /\ Forwarded(q, v, r) = r
    BY <1>3, <2>1 DEF Following, Forwarded
  <2>3. Filling(v, flush) \in LoopType /\ Filling(v, flush).kind = "filling"
           /\ InLine(v, r, Filling(v, flush), n, h, val, mods)
    BY <1>3, FillingInLine
  <2> QED
    BY <2>2, <2>3
<1>4. CASE q /\ v.open /\ ~v.fill
  <2>1. Following(q, v) = NoLoop /\ Forwarded(q, v, r) = flushChanges(r)
    BY <1>4 DEF Following, Forwarded
  <2>2. InLine(v, flushChanges(r), NoLoop, n, h, val, mods)
    BY <1>2, <1>4, FlushInLine
  <2> QED
    BY <1>1, <2>1, <2>2
<1>5. CASE ~(q /\ v.open)
  <2>1. Following(q, v) = NoLoop /\ Forwarded(q, v, r) = r
    BY <1>5 DEF Following, Forwarded
  <2> QED
    BY <1>1, <1>2, <2>1
<1> QED
  BY <1>3, <1>4, <1>5

\* readContacts(): the client has the current data of a contact.
LEMMA FollowsRead ==
    ASSUME NEW r, NEW q \in Seq(Contacts), NEW val \in [Contacts -> Values], NEW mods,
           Follows(r, q, val, mods), NEW id \in Contacts, NEW f, f = flushChanges(r),
           NEW last, last = (IF \E i \in 1..Len(q) : q[i] = id /\ Covers(f.last, i - 1) THEN NoChange ELSE f.last),
           NEW agent, agent = [i \in DOMAIN f.agent |-> IF i \in 1..Len(q) /\ q[i] = id
                                                        THEN [id |-> f.agent[i].id, data |-> val[id]]
                                                        ELSE f.agent[i]],
           NEW r2, r2 = Resource(f.pending, last, agent, f.misled)
    PROVE  Follows(r2, q, val, mods)
<1>1. r2.pending = f.pending /\ r2.last = last /\ r2.agent = agent /\ r2.misled = f.misled
  BY ResourceFields
<1>2. CASE r.misled
  BY <1>1, <1>2, FlushedMisled DEF Follows
<1>3. CASE ~r.misled
  <2>1. ResourceOK(r) /\ Agrees(Mirrored(r), q, val, mods)
    BY <1>3 DEF Follows
  <2>2. ResourceOK(f) /\ f.pending \in Change /\ f.pending.ids = <<>> /\ f.agent = Mirrored(r)
    BY <2>1, FlushedResource
  <2>3. /\ f.agent \in Seq(AgentEntry) /\ Len(f.agent) = Len(q)
        /\ \A i \in 1..Len(q) : /\ f.agent[i].id = q[i]
                                /\ f.agent[i].data \in {Unread, val[q[i]]} \/ q[i] \in mods
    BY <2>1, <2>2, ResourceTyped DEF ResourceOK, Agrees
  <2>4. PICK a : a = f.agent
    OBVIOUS
  <2>5. PICK k \in Nat : k = Len(q) /\ k = Len(a)
    BY <2>3, <2>4
  <2>6. DOMAIN a = 1..k /\ \A i \in 1..k : a[i] \in AgentEntry
    BY <2>3, <2>4, <2>5, SeqFacts
  <2>7. val[id] \in Values
    OBVIOUS
  <2>8. /\ agent \in [1..k -> AgentEntry]
        /\ \A i \in 1..k : agent[i] = IF q[i] = id THEN [id |-> a[i].id, data |-> val[id]] ELSE a[i]
    <3>1. \A i \in 1..k : [id |-> a[i].id, data |-> val[id]] \in AgentEntry
      BY <2>6, <2>7 DEF AgentEntry
    <3>2. agent = [i \in 1..k |-> IF i \in 1..k /\ q[i] = id THEN [id |-> a[i].id, data |-> val[id]] ELSE a[i]]
      BY <2>4, <2>5, <2>6
    <3> QED
      BY <2>6, <3>1, <3>2
  <2>9. agent \in Seq(AgentEntry) /\ Len(agent) = k
    BY <2>8, FunctionIsSeq
  <2>10. f.last \in Change /\ f.misled \in BOOLEAN /\ Fits(f) /\ Told(f) /\ ~f.misled
    BY <2>2, ResourceTyped DEF ResourceOK
  <2>11. last \in Change
    BY <2>10, NoChangeType
  <2>12. r2 \in ResourceType
    BY <2>2, <2>9, <2>10, <2>11, ResourceIsTyped
  <2>13. Fits(r2)
    BY <1>1, <2>4, <2>5, <2>9, <2>10 DEF Fits
  <2>14. Told(r2)
    <3>1. CASE \E i \in 1..Len(q) : q[i] = id /\ Covers(f.last, i - 1)
      <4>1. last = NoChange
        BY <3>1
      <4>2. NoChange.start + Len(NoChange.ids) <= k
        BY NoChangeType
      <4>3. \A i \in 1..Len(NoChange.ids) : agent[NoChange.start + i] = Untold(NoChange.ids[i])
        BY NoChangeType
      <4>4. r2.last = NoChange /\ Len(r2.agent) = k
        BY <1>1, <2>9, <4>1
      <4>5. r2.last.start + Len(r2.last.ids) <= Len(r2.agent)
        BY <4>2, <4>4
      <4>6. \A i \in 1..Len(r2.last.ids) : r2.agent[r2.last.start + i] = Untold(r2.last.ids[i])
        <5>1. Len(r2.last.ids) = 0
          BY <4>4, NoChangeType, ZenonT(30)
        <5>2. \A i : i \notin 1..0
          OBVIOUS
        <5> QED
          BY <5>1, <5>2, ZenonT(30)
      <4> QED
        BY <4>5, <4>6 DEF Told
    <3>2. CASE ~\E i \in 1..Len(q) : q[i] = id /\ Covers(f.last, i - 1)
      <4>1. last = f.last
        BY <3>2
      <4>2. PICK s \in Nat, m \in Nat : s = f.last.start /\ m = Len(f.last.ids)
        BY <2>10, ChangeFields
      <4>3. s + m <= k /\ \A i \in 1..m : a[s + i] = Untold(f.last.ids[i])
        BY <2>4, <2>5, <2>10, <4>2 DEF Told
      <4>4. ASSUME NEW i \in 1..m
            PROVE  agent[s + i] = a[s + i]
        <5>1. PICK j \in 1..k : j = s + i /\ s <= j - 1 /\ j - 1 < s + m
          BY <4>3
        <5>2. Covers(f.last, j - 1)
          BY <4>2, <5>1 DEF Covers
        <5>3. q[j] # id
          BY <2>5, <3>2, <5>2
        <5> QED
          BY <2>8, <5>1, <5>3
      <4>5. r2.last.start = s /\ Len(r2.last.ids) = m /\ r2.agent = agent /\ r2.last.ids = f.last.ids
        BY <1>1, <4>1, <4>2
      <4>6. \A i \in 1..m : agent[s + i] = Untold(f.last.ids[i])
        BY <4>3, <4>4
      <4>7. r2.last.start + Len(r2.last.ids) <= Len(r2.agent)
        BY <2>9, <4>3, <4>5
      <4>8. ASSUME NEW i \in 1..Len(r2.last.ids)
            PROVE  r2.agent[r2.last.start + i] = Untold(r2.last.ids[i])
        <5>1. i \in 1..m
          BY <4>5
        <5>2. agent[s + i] = Untold(f.last.ids[i])
          BY <4>6, <5>1
        <5> QED
          BY <4>5, <5>2
      <4> QED
        BY <4>7, <4>8 DEF Told
    <3> QED
      BY <3>1, <3>2
  <2>15. Mirrored(r2) = agent
    <3>1. r2.pending.ids = <<>> /\ r2.agent = agent
      BY <1>1, <2>2
    <3> QED
      BY <3>1, NothingPending DEF Mirrored
  <2>16. ASSUME NEW i \in 1..k
         PROVE  agent[i].id = q[i] /\ (agent[i].data \in {Unread, val[q[i]]} \/ q[i] \in mods)
    <3>1. CASE q[i] = id
      BY <2>3, <2>4, <2>5, <2>8, <3>1
    <3>2. CASE q[i] # id
      BY <2>3, <2>4, <2>5, <2>8, <3>2
    <3> QED
      BY <3>1, <3>2
  <2>17. Agrees(agent, q, val, mods)
    BY <2>5, <2>9, <2>16 DEF Agrees
  <2> QED
    BY <1>1, <2>10, <2>12, <2>13, <2>14, <2>15, <2>17 DEF Follows, ResourceOK
<1> QED
  BY <1>2, <1>3

(***************************************************************************)
(* Signals of the full view, in terms of the invariant.                    *)
(***************************************************************************)
\* What InLine means for a view outside of the loops over it.
PlainExact(v, n, h, val, mods) ==
    \A p \in 0..(n - 1) :
        \/ v.replaced
        \/ h[p] \in mods
        \/ Has(v.local2parent, p) /\ val[h[p]] \in v.filter
        \/ ~Has(v.local2parent, p) /\ (v.max # Unlimited \/ val[h[p]] \notin v.filter)

\* What the invariant says of an open view between the loops over it.
LEMMA OpenPlain ==
    ASSUME NEW v, v.open, NEW r, NEW lp, lp.kind \in Plain, NEW n, NEW h, NEW val, NEW mods
    PROVE  InLine(v, r, lp, n, h, val, mods)
             <=> Consistent([view |-> v, res |-> r], n, h, val, mods) /\ PlainExact(v, n, h, val, mods)
<1>1. Exact(v, lp, n, h, val, mods) <=> PlainExact(v, n, h, val, mods)
  BY DEF Exact, PlainExact, Skipping, Plain
<1>2. LoopOK(v, lp, n, h, val)
  BY DEF LoopOK, Plain
<1> QED
  BY <1>1, <1>2 DEF InLine

\* A pair of view and resource is made of these two.
LEMMA ConsistentBoth ==
    ASSUME NEW w, NEW n, NEW h, NEW val, NEW mods
    PROVE  Consistent([view |-> w.view, res |-> w.res], n, h, val, mods) <=> Consistent(w, n, h, val, mods)
  BY DEF Consistent

\* Data and pending modifications changed in a way that the view does not
\* know yet, or does not care about.
SameData(n, h, val, mods, val2, mods2) ==
    \A x \in 0..(n - 1) : /\ val2[h[x]] = val[h[x]] \/ h[x] \in mods2
                          /\ h[x] \in mods => h[x] \in mods2

\* View and client stay in line if data changes in the allowed way.
LEMMA DataInLine ==
    ASSUME NEW v, v.open, NEW r, NEW lp, lp.kind \in Plain, NEW n \in Nat, NEW h \in Holders(n),
           NEW val, NEW mods, InLine(v, r, lp, n, h, val, mods),
           NEW val2, NEW mods2, SameData(n, h, val, mods, val2, mods2)
    PROVE  InLine(v, r, lp, n, h, val2, mods2)
<1>1. PICK w : w = [view |-> v, res |-> r]
  OBVIOUS
<1>2. w.view = v /\ Consistent(w, n, h, val, mods) /\ PlainExact(v, n, h, val, mods)
  BY <1>1, OpenPlain
<1>3. Mapping(w.view.local2parent, n)
  BY <1>2 DEF Consistent
<1>4. Alike(w.view.local2parent, h, val, mods, h, val2, mods2)
  BY <1>3, MappingFacts DEF Alike, SameData
<1>5. Consistent(w, n, h, val2, mods2)
  BY <1>2, <1>3, <1>4, ConsistentOther
<1>6. PlainExact(v, n, h, val2, mods2)
  <2>1. ASSUME NEW p \in 0..(n - 1)
        PROVE  \/ v.replaced
               \/ h[p] \in mods2
               \/ Has(v.local2parent, p) /\ val2[h[p]] \in v.filter
               \/ ~Has(v.local2parent, p) /\ (v.max # Unlimited \/ val2[h[p]] \notin v.filter)
    <3>1. (val2[h[p]] = val[h[p]] \/ h[p] \in mods2) /\ (h[p] \in mods => h[p] \in mods2)
      BY DEF SameData
    <3>2. \/ v.replaced
          \/ h[p] \in mods
          \/ Has(v.local2parent, p) /\ val[h[p]] \in v.filter
          \/ ~Has(v.local2parent, p) /\ (v.max # Unlimited \/ val[h[p]] \notin v.filter)
      BY <1>2 DEF PlainExact
    <3> QED
      BY <3>1, <3>2
  <2> QED
    BY <2>1 DEF PlainExact
<1> QED
  BY <1>1, <1>5, <1>6, OpenPlain

\* A view that is still open, in line with the full view.
OpenInLine(w, lp, n, h, val, mods) == w.view.open /\ InLine(w.view, w.res, lp, n, h, val, mods)

\* The full view has one more entry.
LEMMA AddInLine ==
    ASSUME NEW v, v.open, NEW r, NEW lp, lp.kind \in Plain,
           NEW o, NEW e, FullOK(e, o), NEW n \in Nat, n = Len(e), NEW val, NEW mods,
           InLine(v, r, lp, n, HoldersOf(e), val, mods),
           NEW p \in Nat, p <= n, NEW e2, NEW id, Grown(e2, e, o, p, id), NEW m \in Nat, m = Len(e2),
           NEW w, w = AddToView(e2, val, [view |-> v, res |-> r], p)
    PROVE  OpenInLine(w, lp, m, HoldersOf(e2), val, mods)
<1>1. PICK w0 : w0 = [view |-> v, res |-> r]
  OBVIOUS
<1>2. PICK h : h = HoldersOf(e)
  OBVIOUS
<1>3. PICK g : g = HoldersOf(e2)
  OBVIOUS
<1>4. w0.view = v /\ Consistent(w0, n, h, val, mods) /\ PlainExact(v, n, h, val, mods)
  BY <1>1, <1>2, OpenPlain
<1>5. m = n + 1 /\ FullOK(e2, o) /\ MovedUp(h, g, n, p)
  BY <1>2, <1>3 DEF Grown
<1>6. e \in Seq(EntryType) /\ e2 \in Seq(EntryType)
  BY <1>5 DEF FullOK
<1>7. h \in Holders(n) /\ g \in Holders(m) /\ Holds(e2, m, g)
  BY <1>2, <1>3, <1>6, HoldersOfFacts
<1>8. w = AddToView(e2, val, w0, p)
  BY <1>1
<1>9. /\ Consistent(w, m, g, val, mods)
      /\ SameSearch(w.view, w0.view) /\ w.view.fill = w0.view.fill
      /\ Added(w.view.local2parent, w0.view, n, p, val[g[p]] \in w0.view.filter)
  BY <1>4, <1>5, <1>7, <1>8, AddKeeps
<1>10. w.view.open /\ w.view.filter = v.filter /\ w.view.max = v.max /\ w.view.replaced = v.replaced
  BY <1>4, <1>9 DEF SameSearch
<1>11. PICK l2 : l2 = w.view.local2parent
  OBVIOUS
<1>12. Added(l2, v, n, p, val[g[p]] \in v.filter)
  BY <1>4, <1>9, <1>11
<1>13. ASSUME NEW x \in 0..(m - 1)
       PROVE  \/ v.replaced
              \/ g[x] \in mods
              \/ Has(l2, x) /\ val[g[x]] \in v.filter
              \/ ~Has(l2, x) /\ (v.max # Unlimited \/ val[g[x]] \notin v.filter)
  <2>1. x \in 0..n
    BY <1>5
  <2>2. CASE x = p
    BY <1>12, <2>2 DEF Added
  <2>3. CASE x # p
    <3>1. PICK y \in 0..(n - 1) : y = (IF x < p THEN x ELSE x - 1) /\ x = IF y < p THEN y ELSE y + 1
      BY <2>1, <2>3
    <3>2. h[y] = g[x]
      BY <1>5, <3>1 DEF MovedUp
    <3>3. Has(l2, x) => Has(v.local2parent, y)
      BY <1>12, <2>1, <2>3, <3>1 DEF Added
    <3>4. v.max = Unlimited /\ ~Has(l2, x) => ~Has(v.local2parent, y)
      BY <1>12, <2>1, <2>3, <3>1 DEF Added
    <3>5. \/ v.replaced
          \/ h[y] \in mods
          \/ Has(v.local2parent, y) /\ val[h[y]] \in v.filter
          \/ ~Has(v.local2parent, y) /\ (v.max # Unlimited \/ val[h[y]] \notin v.filter)
      BY <1>4 DEF PlainExact
    <3> QED
      BY <3>2, <3>3, <3>4, <3>5
  <2> QED
    BY <2>2, <2>3
<1>14. PlainExact(w.view, m, g, val, mods)
  BY <1>10, <1>11, <1>13 DEF PlainExact
<1>15. Consistent([view |-> w.view, res |-> w.res], m, g, val, mods)
  BY <1>9, ConsistentBoth
<1> QED
  BY <1>3, <1>10, <1>14, <1>15, OpenPlain DEF OpenInLine

\* The full view has one entry less.
LEMMA RemoveInLine ==
    ASSUME NEW v, v.open, NEW r, NEW lp, lp.kind \in Plain,
           NEW o, NEW e, FullOK(e, o), NEW n \in Nat, n = Len(e), NEW val, NEW mods,
           InLine(v, r, lp, n, HoldersOf(e), val, mods),
           NEW p \in Nat, p < n, NEW id, id = e[p + 1].id,
           NEW e2, e2 = RemoveAt(e, p + 1), NEW m \in Nat, m = Len(e2),
           NEW mods2, mods2 = mods \ {id},
           NEW w, w = RemoveFromView([view |-> v, res |-> r], p, id)
    PROVE  OpenInLine(w, lp, m, HoldersOf(e2), val, mods2)
<1>1. PICK w0 : w0 = [view |-> v, res |-> r]
  OBVIOUS
<1>2. PICK h : h = HoldersOf(e)
  OBVIOUS
<1>3. PICK g : g = HoldersOf(e2)
  OBVIOUS
<1>4. w0.view = v /\ Consistent(w0, n, h, val, mods) /\ PlainExact(v, n, h, val, mods)
  BY <1>1, <1>2, OpenPlain
<1>5. /\ FullOK(e2, o) /\ n = m + 1 /\ MovedUp(g, h, m, p)
      /\ \A i \in 1..m : e2[i].id # id
  <2>1. Shrunk(e2, e, o, p)
    BY FullViewRemove
  <2> QED
    BY <1>2, <1>3, <2>1 DEF Shrunk
<1>6. e \in Seq(EntryType) /\ e2 \in Seq(EntryType)
  BY <1>5 DEF FullOK
<1>7. /\ h \in Holders(n) /\ g \in Holders(m)
      /\ \A x \in 0..(n - 1) : h[x] = e[x + 1].id
      /\ \A x \in 0..(m - 1) : g[x] = e2[x + 1].id
  BY <1>2, <1>3, <1>6, HoldersOfFacts
<1>8. id \in Contacts
  <2>1. p + 1 \in 1..n
    OBVIOUS
  <2> QED
    BY <1>6, <2>1, EntryFacts
<1>10. SparedAll(h, n, p, mods, mods2)
  <2>1. ASSUME NEW x \in 0..(n - 1), x # p
        PROVE  h[x] # id
    <3>1. x + 1 \in 1..n /\ p + 1 \in 1..n /\ x + 1 # p + 1
      BY <2>1
    <3> QED
      BY <1>7, <3>1 DEF FullOK
  <2> QED
    BY <2>1 DEF SparedAll
<1>11. w = RemoveFromView(w0, p, id)
  BY <1>1
<1>12. RemoveResult(w, w0, p, m, g, val, mods2)
  BY <1>4, <1>5, <1>7, <1>8, <1>10, <1>11, RemoveKeeps
<1>13. PICK l2 : l2 = w.view.local2parent
  OBVIOUS
<1>14. /\ Consistent(w, m, g, val, mods2) /\ HasDown(l2, v.local2parent, m, p)
       /\ w.view.open /\ w.view.filter = v.filter /\ w.view.max = v.max /\ w.view.replaced = v.replaced
  BY <1>4, <1>12, <1>13 DEF RemoveResult, SameSearch
<1>15. ASSUME NEW x \in 0..(m - 1)
       PROVE  \/ v.replaced
              \/ g[x] \in mods2
              \/ Has(l2, x) /\ val[g[x]] \in v.filter
              \/ ~Has(l2, x) /\ (v.max # Unlimited \/ val[g[x]] \notin v.filter)
  <2>1. PICK y \in 0..(n - 1) : y = IF x < p THEN x ELSE x + 1
    BY <1>5
  <2>2. g[x] = h[y]
    BY <1>5, <2>1 DEF MovedUp
  <2>3. Has(l2, x) <=> Has(v.local2parent, y)
    BY <1>14, <2>1 DEF HasDown
  <2>4. \/ v.replaced
        \/ h[y] \in mods
        \/ Has(v.local2parent, y) /\ val[h[y]] \in v.filter
        \/ ~Has(v.local2parent, y) /\ (v.max # Unlimited \/ val[h[y]] \notin v.filter)
    BY <1>4 DEF PlainExact
  <2>5. h[y] \in mods => h[y] \in mods2
    <3>1. y # p
      BY <2>1
    <3> QED
      BY <1>10, <3>1 DEF SparedAll
  <2> QED
    BY <2>2, <2>3, <2>4, <2>5
<1>16. PlainExact(w.view, m, g, val, mods2)
  BY <1>13, <1>14, <1>15 DEF PlainExact
<1>17. Consistent([view |-> w.view, res |-> w.res], m, g, val, mods2)
  BY <1>14, ConsistentBoth
<1> QED
  BY <1>3, <1>14, <1>16, <1>17, OpenPlain DEF OpenInLine

\* An entry of the full view changed, its index did not.
LEMMA ModifyInLine ==
    ASSUME NEW v, v.open, NEW r, NEW lp, lp.kind \in Plain,
           NEW n \in Nat, NEW h \in Holders(n), NEW val, NEW mods,
           InLine(v, r, lp, n, h, val, mods),
           NEW p \in Nat, p < n, NEW e, e[p + 1].id = h[p],
           NEW mods2, SparedAll(h, n, p, mods, mods2),
           NEW w, w = ModifyInView(e, val, [view |-> v, res |-> r], p)
    PROVE  OpenInLine(w, lp, n, h, val, mods2)
<1>1. PICK w0 : w0 = [view |-> v, res |-> r]
  OBVIOUS
<1>2. w0.view = v /\ Consistent(w0, n, h, val, mods) /\ PlainExact(v, n, h, val, mods)
  BY <1>1, OpenPlain
<1>3. SameBut(h, h, n, p)
  BY DEF SameBut
<1>4. w = ModifyInView(e, val, w0, p)
  BY <1>1
<1>5. ModifyResult(w, w0, p, n, h, val, mods2)
  BY <1>2, <1>3, <1>4, ModifyKeeps
<1>6. PICK l2 : l2 = w.view.local2parent
  OBVIOUS
<1>7. /\ Consistent(w, n, h, val, mods2)
      /\ w.view.open /\ w.view.filter = v.filter /\ w.view.max = v.max /\ w.view.replaced = v.replaced
      /\ Rechecked(l2, v, p, val[h[p]] \in v.filter)
  BY <1>2, <1>5, <1>6 DEF ModifyResult, SameSearch
<1>8. ASSUME NEW x \in 0..(n - 1)
      PROVE  \/ v.replaced
             \/ h[x] \in mods2
             \/ Has(l2, x) /\ val[h[x]] \in v.filter
             \/ ~Has(l2, x) /\ (v.max # Unlimited \/ val[h[x]] \notin v.filter)
  <2>1. CASE x = p
    BY <1>7, <2>1 DEF Rechecked
  <2>2. CASE x # p
    <3>1. Has(l2, x) <=> Has(v.local2parent, x)
      BY <1>7, <2>2 DEF Rechecked
    <3>2. \/ v.replaced
          \/ h[x] \in mods
          \/ Has(v.local2parent, x) /\ val[h[x]] \in v.filter
          \/ ~Has(v.local2parent, x) /\ (v.max # Unlimited \/ val[h[x]] \notin v.filter)
      BY <1>2 DEF PlainExact
    <3>3. h[x] \in mods => h[x] \in mods2
      BY <2>2 DEF SparedAll
    <3> QED
      BY <3>1, <3>2, <3>3
  <2> QED
    BY <2>1, <2>2
<1>9. PlainExact(w.view, n, h, val, mods2)
  BY <1>6, <1>7, <1>8 DEF PlainExact
<1>10. Consistent([view |-> w.view, res |-> w.res], n, h, val, mods2)
  BY <1>7, ConsistentBoth
<1> QED
  BY <1>7, <1>9, <1>10, OpenPlain DEF OpenInLine

\* What the invariant says, for use in the steps below.
LEMMA StateFacts ==
    ASSUME IInv
    PROVE  /\ Len(entries) \in Nat /\ entries \in Seq(EntryType) /\ FullOK(entries, order)
           /\ loop \in LoopType
           /\ Held(loop, entries) \in Holders(Len(entries))
           /\ loop.kind # "sorting" => Held(loop, entries) = HoldersOf(entries)
           /\ InLine(view, res, loop, Len(entries), Held(loop, entries), value, Unexamined)
           /\ view \in ViewType /\ view.open \in BOOLEAN
           /\ ~view.open => view = NoView /\ res = NoResource
           /\ value \in [Contacts -> Values]
           /\ HoldersOf(entries) \in Holders(Len(entries))
           /\ \A x \in 0..(Len(entries) - 1) : HoldersOf(entries)[x] = entries[x + 1].id
<1>1. /\ loop \in LoopType /\ FullOK(entries, order) /\ value \in [Contacts -> Values]
      /\ InLine(view, res, loop, Len(entries), Held(loop, entries), value, Unexamined)
  BY DEF IInv, FullTypes
<1>2. entries \in Seq(EntryType)
  BY <1>1 DEF FullOK
<1>3. PICK n \in Nat : n = Len(entries)
  BY <1>2
<1>4. loop.kind = "sorting" => Len(loop.old) = n
  BY <1>1, <1>3 DEF InLine, LoopOK, SortingOK
<1>5. Held(loop, entries) \in Holders(n) /\ (loop.kind # "sorting" => Held(loop, entries) = HoldersOf(entries))
  BY <1>1, <1>2, <1>3, <1>4, HeldType
<1>6. view \in ViewType
  BY <1>1 DEF InLine, Consistent
<1>8. view.open \in BOOLEAN
  BY <1>6, ViewFields
<1>9. ~view.open => view = NoView /\ res = NoResource
  BY <1>1 DEF InLine
<1>10. HoldersOf(entries) \in Holders(n) /\ \A x \in 0..(n - 1) : HoldersOf(entries)[x] = entries[x + 1].id
  BY <1>2, <1>3, HoldersOfFacts
<1> QED
  BY <1>1, <1>2, <1>3, <1>5, <1>6, <1>8, <1>9, <1>10

\* Start of a callback without a loop over the view.
LEMMA PlainLoop ==
    ASSUME NEW kind \in Plain, NEW next \in Nat
    PROVE  Loop(kind, next) \in LoopType /\ Loop(kind, next).kind \in Plain /\ Loop(kind, next).kind # "sorting"
<1>1. <<>> \in Seq(Contacts)
  OBVIOUS
<1> QED
  BY <1>1 DEF Loop, LoopType, Plain

\* A step to a state outside of the loops over the view, or into one of these
\* but sorting, keeps the invariant if view and client are in line afterwards.
LEMMA Reached ==
    ASSUME FullTypes', FullOK(entries, order)', loop'.kind # "sorting",
           InLine(view', res', loop', Len(entries'), HoldersOf(entries'), value', Unexamined')
    PROVE  IInv'
<1>1. loop' \in LoopType /\ entries' \in Seq(EntryType)
  BY DEF FullTypes, FullOK
<1>2. PICK n \in Nat : n = Len(entries')
  BY <1>1
<1>3. Held(loop', entries') = HoldersOf(entries')
  BY <1>1, <1>2, HeldType
<1> QED
  BY <1>3 DEF IInv

\* What is unexamined depends on the pending modifications and the signals.
LEMMA SameUnexamined ==
    ASSUME UNCHANGED <<modifications, notify>>
    PROVE  Unexamined' = Unexamined
  BY DEF Unexamined

\* An individual which is examined, new or gone is not unexamined.
LEMMA Examined ==
    ASSUME FullTypes, NEW id \in Contacts, modifications' = modifications \ {id},
           notify' = [notify EXCEPT ![id] = notify'[id]], notify'[id] \in {"on", "off"}
    PROVE  Unexamined' = Unexamined \ {id}
<1>1. notify \in [Contacts -> Notify] /\ notify' \in [Contacts -> Notify]
  BY DEF FullTypes, Notify
<1>2. \A c \in Contacts : notify'[c] = "missed" <=> c # id /\ notify[c] = "missed"
  BY <1>1
<1> QED
  BY <1>2 DEF Unexamined

\* folks announces changes: individualsChanged() starts.
LEMMA ChangedInv ==
    ASSUME IInv, individualsChanged
    PROVE  IInv'
<1>1. /\ loop.kind \in Plain /\ loop.kind # "sorting"
      /\ loop' = Loop("removing", 0) /\ stimuli' = stimuli + 1
      /\ UNCHANGED <<entries, value, order, modifications, notify, idle, quiescent, view, res, undefined>>
  BY DEF individualsChanged, Happens, MainLoop, Plain
<1>2. loop' \in LoopType /\ loop'.kind \in Plain /\ loop'.kind # "sorting"
  BY <1>1, PlainLoop DEF Plain
<1>3. InLine(view, res, loop, Len(entries), HoldersOf(entries), value, Unexamined)
  BY <1>1, StateFacts
<1>4. InLine(view, res, loop', Len(entries), HoldersOf(entries), value, Unexamined)
  BY <1>1, <1>2, <1>3, PlainInLine
<1>5. FullTypes'
  BY <1>1, <1>2 DEF IInv, FullTypes, Present
<1>6. FullOK(entries, order)'
  BY <1>1 DEF IInv
<1>7. Unexamined' = Unexamined
  BY <1>1, SameUnexamined
<1> QED
  BY <1>1, <1>2, <1>4, <1>5, <1>6, <1>7, Reached

\* individualsChanged() ends.
LEMMA ChangesDoneInv ==
    ASSUME IInv, changesDone
    PROVE  IInv'
<1>1. /\ loop.kind \in Plain /\ loop.kind # "sorting"
      /\ loop' = Loop("none", 0)
      /\ UNCHANGED <<entries, value, order, modifications, notify, idle, quiescent, view, res, undefined, stimuli>>
  BY DEF changesDone, NoLoop, Plain
<1>2. loop' \in LoopType /\ loop'.kind \in Plain /\ loop'.kind # "sorting"
  BY <1>1, PlainLoop DEF Plain
<1>3. InLine(view, res, loop, Len(entries), HoldersOf(entries), value, Unexamined)
  BY <1>1, StateFacts
<1>4. InLine(view, res, loop', Len(entries), HoldersOf(entries), value, Unexamined)
  BY <1>1, <1>2, <1>3, PlainInLine
<1>5. FullTypes'
  BY <1>1, <1>2 DEF IInv, FullTypes, Present
<1>6. FullOK(entries, order)'
  BY <1>1 DEF IInv
<1>7. Unexamined' = Unexamined
  BY <1>1, SameUnexamined
<1> QED
  BY <1>1, <1>2, <1>4, <1>5, <1>6, <1>7, Reached

\* The contacts which the full view has.
LEMMA PresentFacts ==
    ASSUME NEW e \in Seq(EntryType)
    PROVE  /\ \A id : id \in {e[i].id : i \in DOMAIN e} <=> \E i \in 1..Len(e) : e[i].id = id
           /\ {e[i].id : i \in DOMAIN e} \subseteq Contacts
<1>1. DOMAIN e = 1..Len(e) /\ \A i \in 1..Len(e) : e[i].id \in Contacts
  BY EntryFacts
<1> QED
  BY <1>1

\* The view is open, and in line with the full view e.
Ready(v, r, lp, e, o, val, mods) ==
    /\ v.open /\ lp.kind \in Plain /\ FullOK(e, o)
    /\ InLine(v, r, lp, Len(e), HoldersOf(e), val, mods)

\* A removed entry keeps everything ready.
LEMMA RemoveStep ==
    ASSUME NEW v, NEW r, NEW lp, NEW e, NEW o, NEW val, NEW mods, Ready(v, r, lp, e, o, val, mods),
           NEW p \in Nat, p < Len(e), NEW id, id = e[p + 1].id,
           NEW mods2, mods2 = mods \ {id}, NEW e2, e2 = RemoveAt(e, p + 1),
           NEW w, w = RemoveFromView([view |-> v, res |-> r], p, id)
    PROVE  Ready(w.view, w.res, lp, e2, o, val, mods2)
<1>1. v.open /\ lp.kind \in Plain /\ FullOK(e, o) /\ InLine(v, r, lp, Len(e), HoldersOf(e), val, mods)
  BY DEF Ready
<1>2. PICK n \in Nat : n = Len(e) /\ p < n
  BY <1>1 DEF FullOK
<1>3. Shrunk(e2, e, o, p)
  BY <1>1, FullViewRemove
<1>4. FullOK(e2, o)
  BY <1>3 DEF Shrunk
<1>5. PICK m \in Nat : m = Len(e2)
  BY <1>4 DEF FullOK
<1>6. InLine(v, r, lp, n, HoldersOf(e), val, mods)
  BY <1>1, <1>2
<1>7. OpenInLine(w, lp, m, HoldersOf(e2), val, mods2)
  BY <1>1, <1>2, <1>5, <1>6, RemoveInLine, ZenonT(30)
<1> QED
  BY <1>1, <1>4, <1>5, <1>7 DEF Ready, OpenInLine

\* A new entry at its place keeps everything ready.
LEMMA AddStep ==
    ASSUME NEW v, NEW r, NEW lp, NEW e, NEW o, NEW val, NEW mods, Ready(v, r, lp, e, o, val, mods),
           NEW data \in EntryType, \A i \in 1..Len(e) : e[i].id # data.id,
           NEW p \in Nat, p = InsertionPoint(o, e, data), NEW e2, e2 = InsertAt(e, p + 1, data),
           NEW w, w = AddToView(e2, val, [view |-> v, res |-> r], p)
    PROVE  Ready(w.view, w.res, lp, e2, o, val, mods)
<1>1. v.open /\ lp.kind \in Plain /\ FullOK(e, o) /\ InLine(v, r, lp, Len(e), HoldersOf(e), val, mods)
  BY DEF Ready
<1>2. p <= Len(e) /\ Grown(e2, e, o, p, data.id)
  BY <1>1, FullViewAdd
<1>3. PICK n \in Nat : n = Len(e) /\ p <= n
  BY <1>1, <1>2 DEF FullOK
<1>4. FullOK(e2, o)
  BY <1>2 DEF Grown
<1>5. PICK m \in Nat : m = Len(e2)
  BY <1>4 DEF FullOK
<1>6. InLine(v, r, lp, n, HoldersOf(e), val, mods)
  BY <1>1, <1>3
<1>7. OpenInLine(w, lp, m, HoldersOf(e2), val, mods)
  BY <1>1, <1>2, <1>3, <1>5, <1>6, AddInLine
<1> QED
  BY <1>1, <1>4, <1>5, <1>7 DEF Ready, OpenInLine

\* An entry modified in place keeps everything ready.
LEMMA ModifyStep ==
    ASSUME NEW v, NEW r, NEW lp, NEW e, NEW o, NEW val, NEW mods, Ready(v, r, lp, e, o, val, mods),
           NEW data \in EntryType, NEW p \in Nat, p < Len(e), InPlace(e, o, p, data),
           NEW mods2, mods2 = mods \ {data.id}, NEW e2, e2 = [e EXCEPT ![p + 1] = data],
           NEW w, w = ModifyInView(e2, val, [view |-> v, res |-> r], p)
    PROVE  Ready(w.view, w.res, lp, e2, o, val, mods2)
<1>1. v.open /\ lp.kind \in Plain /\ FullOK(e, o) /\ InLine(v, r, lp, Len(e), HoldersOf(e), val, mods)
  BY DEF Ready
<1>2. FullOK(e2, o) /\ Len(e2) = Len(e) /\ HoldersOf(e2) = HoldersOf(e)
  <2>1. Edited(e2, e, o)
    BY <1>1, FullViewModify
  <2> QED
    BY <2>1 DEF Edited
<1>3. PICK n \in Nat : n = Len(e) /\ p < n
  BY <1>1 DEF FullOK
<1>4. e \in Seq(EntryType) /\ e2 \in Seq(EntryType) /\ \A i, j \in 1..n : e[i].id = e[j].id => i = j
  BY <1>1, <1>2, <1>3 DEF FullOK
<1>5. PICK h \in Holders(n) : h = HoldersOf(e) /\ (\A x \in 0..(n - 1) : h[x] = e[x + 1].id) /\ h = HoldersOf(e2)
  BY <1>2, <1>3, <1>4, HoldersOfFacts
<1>6. \A x \in 0..(n - 1) : h[x] = e2[x + 1].id
  <2>1. n = Len(e2) /\ e2 \in Seq(EntryType)
    BY <1>2, <1>3, <1>4
  <2>2. \A x \in 0..(n - 1) : HoldersOf(e2)[x] = e2[x + 1].id
    BY <2>1, HoldersOfFacts
  <2> QED
    BY <1>5, <2>2
<1>7. e2[p + 1].id = h[p] /\ h[p] = data.id
  <2>1. p \in 0..(n - 1)
    BY <1>3
  <2> QED
    BY <1>5, <1>6, <2>1 DEF InPlace
<1>8. SparedAll(h, n, p, mods, mods2)
  <2>1. ASSUME NEW x \in 0..(n - 1), x # p
        PROVE  h[x] # h[p]
    <3>1. x + 1 \in 1..n /\ p + 1 \in 1..n /\ x + 1 # p + 1 /\ p \in 0..(n - 1)
      BY <1>3, <2>1
    <3> QED
      BY <1>4, <1>5, <3>1
  <2> QED
    BY <1>7, <2>1 DEF SparedAll
<1>9. InLine(v, r, lp, n, h, val, mods)
  BY <1>1, <1>3, <1>5
<1>10. OpenInLine(w, lp, n, h, val, mods2)
  BY <1>1, <1>3, <1>7, <1>8, <1>9, ModifyInLine
<1> QED
  BY <1>1, <1>2, <1>3, <1>5, <1>10 DEF Ready, OpenInLine

\* Data that changes in the allowed way keeps everything ready.
LEMMA DataStep ==
    ASSUME NEW v, NEW r, NEW lp, NEW e, NEW o, NEW val, NEW mods, Ready(v, r, lp, e, o, val, mods),
           NEW val2, NEW mods2, SameData(Len(e), HoldersOf(e), val, mods, val2, mods2)
    PROVE  Ready(v, r, lp, e, o, val2, mods2)
<1>1. v.open /\ lp.kind \in Plain /\ FullOK(e, o) /\ InLine(v, r, lp, Len(e), HoldersOf(e), val, mods)
  BY DEF Ready
<1>2. PICK n \in Nat : n = Len(e)
  BY <1>1 DEF FullOK
<1>3. HoldersOf(e) \in Holders(n)
  BY <1>1, <1>2, HoldersOfFacts DEF FullOK
<1>4. InLine(v, r, lp, n, HoldersOf(e), val2, mods2)
  BY <1>1, <1>2, <1>3, DataInLine
<1> QED
  BY <1>1, <1>2, <1>4 DEF Ready

\* Data of a contact which the full view does not have.
LEMMA ForeignData ==
    ASSUME NEW e \in Seq(EntryType), NEW id, \A i \in 1..Len(e) : e[i].id # id,
           NEW val \in [Contacts -> Values], NEW x, NEW val2, val2 = [val EXCEPT ![id] = x],
           NEW mods, NEW mods2, mods \ {id} \subseteq mods2
    PROVE  SameData(Len(e), HoldersOf(e), val, mods, val2, mods2)
<1>1. PICK n \in Nat : n = Len(e)
  OBVIOUS
<1>2. HoldersOf(e) \in Holders(n) /\ \A y \in 0..(n - 1) : HoldersOf(e)[y] = e[y + 1].id
  BY <1>1, HoldersOfFacts
<1>3. ASSUME NEW y \in 0..(n - 1)
      PROVE  HoldersOf(e)[y] # id /\ HoldersOf(e)[y] \in Contacts
  <2>1. y + 1 \in 1..n
    OBVIOUS
  <2> QED
    BY <1>1, <1>2, <2>1 DEF Holders
<1>4. \A y \in 0..(n - 1) : val2[HoldersOf(e)[y]] = val[HoldersOf(e)[y]]
  BY <1>3
<1> QED
  BY <1>1, <1>3, <1>4 DEF SameData

(***************************************************************************)
(* The actions, one by one.                                                *)
(***************************************************************************)

\* The invariant, for an open view and outside of the loops over it.
LEMMA IsReady ==
    ASSUME IInv, view.open, loop.kind \in Plain, NEW lp, lp.kind \in Plain
    PROVE  Ready(view, res, lp, entries, order, value, Unexamined)
<1>1. loop.kind # "sorting"
  BY DEF Plain
<1>2. FullOK(entries, order) /\ InLine(view, res, loop, Len(entries), HoldersOf(entries), value, Unexamined)
  BY <1>1, StateFacts
<1>3. InLine(view, res, lp, Len(entries), HoldersOf(entries), value, Unexamined)
  BY <1>2, PlainInLine
<1> QED
  BY <1>2, <1>3 DEF Ready

\* Back to the invariant with an open view.
LEMMA ReachedReady ==
    ASSUME FullTypes', Ready(view', res', loop', entries', order', value', Unexamined')
    PROVE  IInv'
<1>1. loop'.kind # "sorting" /\ FullOK(entries, order)'
  BY DEF Ready, Plain
<1>2. InLine(view', res', loop', Len(entries'), HoldersOf(entries'), value', Unexamined')
  BY DEF Ready
<1> QED
  BY <1>1, <1>2, Reached

\* Back to the invariant without a view.
LEMMA ReachedClosed ==
    ASSUME FullTypes', FullOK(entries, order)', loop'.kind \in Plain, view' = NoView, res' = NoResource
    PROVE  IInv'
<1>1. loop'.kind # "sorting"
  BY DEF Plain
<1>2. InLine(view', res', loop', Len(entries'), HoldersOf(entries'), value', Unexamined')
  BY ClosedInLine
<1> QED
  BY <1>1, <1>2, Reached

\* The full view has the entry x.
HasEntry(e, x) == \E j \in 1..Len(e) : e[j] = x

\* Removing the entry of a contact leaves the others.
LEMMA OthersPresent ==
    ASSUME NEW o, NEW e, FullOK(e, o), NEW p \in Nat, p < Len(e), NEW e2, e2 = RemoveAt(e, p + 1),
           NEW i \in 1..Len(e), i # p + 1
    PROVE  HasEntry(e2, e[i])
<1>1. e \in Seq(EntryType)
  BY DEF FullOK
<1>2. PICK n \in Nat : n = Len(e) /\ p + 1 \in 1..n
  BY <1>1
<1>3. Len(e2) = n - 1 /\ \A j \in 1..(n - 1) : e2[j] = IF j < p + 1 THEN e[j] ELSE e[j + 1]
  BY <1>1, <1>2, RemoveAtProperties
<1>4. ASSUME i < p + 1
      PROVE  \E j \in 1..Len(e2) : e2[j] = e[i]
  <2>1. i \in 1..(n - 1)
    BY <1>2, <1>4
  <2> QED
    BY <1>3, <1>4, <2>1
<1>5. ASSUME i > p + 1
      PROVE  \E j \in 1..Len(e2) : e2[j] = e[i]
  <2>1. i - 1 \in 1..(n - 1) /\ ~(i - 1 < p + 1) /\ (i - 1) + 1 = i
    BY <1>2, <1>5
  <2> QED
    BY <1>3, <2>1
<1>6. \E j \in 1..Len(e2) : e2[j] = e[i]
  BY <1>2, <1>4, <1>5
<1> QED
  BY <1>6 DEF HasEntry

\* The full view e2 has all entries of e, and the entry data.
Keeps(e2, e, data) ==
    /\ \A i \in 1..Len(e) : \E j \in 1..Len(e2) : e2[j] = e[i]
    /\ \E j \in 1..Len(e2) : e2[j] = data

\* Inserting an entry leaves the others.
LEMMA AllPresent ==
    ASSUME NEW e \in Seq(EntryType), NEW p \in Nat, p <= Len(e), NEW data \in EntryType,
           NEW e2, e2 = InsertAt(e, p + 1, data)
    PROVE  Keeps(e2, e, data)
<1>1. PICK n \in Nat : n = Len(e)
  OBVIOUS
<1>2. PICK k \in 1..(n + 1) : k = p + 1
  BY <1>1
<1>3. Len(e2) = n + 1 /\ \A j \in 1..(n + 1) : e2[j] = IF j < k THEN e[j] ELSE IF j = k THEN data ELSE e[j - 1]
  <2>1. PICK j \in 1..(Len(e) + 1) : j = p + 1
    BY <1>1
  <2>2. /\ Len(InsertAt(e, j, data)) = Len(e) + 1
        /\ \A i \in 1..(Len(e) + 1) :
              InsertAt(e, j, data)[i] = IF i < j THEN e[i] ELSE IF i = j THEN data ELSE e[i - 1]
    BY InsertInto
  <2>3. e2 = InsertAt(e, j, data) /\ j = k
    BY <1>2, <2>1
  <2> QED
    BY <1>1, <2>2, <2>3
<1>4. ASSUME NEW i \in 1..n
      PROVE  \E j \in 1..(n + 1) : e2[j] = e[i]
  <2>1. CASE i < k
    <3>1. i \in 1..(n + 1)
      OBVIOUS
    <3> QED
      BY <1>3, <2>1, <3>1
  <2>2. CASE ~(i < k)
    <3>1. i + 1 \in 1..(n + 1) /\ ~(i + 1 < k) /\ i + 1 # k /\ (i + 1) - 1 = i
      BY <1>2, <2>2
    <3> QED
      BY <1>3, <3>1
  <2> QED
    BY <2>1, <2>2
<1>5. e2[k] = data
  BY <1>3
<1> QED
  BY <1>1, <1>2, <1>3, <1>4, <1>5 DEF Keeps

\* removeIndividual() keeps the invariant.
LEMMA RemoveInv ==
    ASSUME IInv, NEW id \in Contacts, removeIndividual(id)
    PROVE  IInv'
<1>1. /\ loop.kind \in Plain /\ loop.kind # "sorting" /\ loop.next \in Nat
      /\ loop' = Loop("removing", loop.next + 1)
      /\ id \in Present
      /\ entries' = RemoveAt(entries, IndexOf(entries, id) + 1)
      /\ modifications' = modifications \ {id} /\ notify' = [notify EXCEPT ![id] = "off"]
      /\ value' = [value EXCEPT ![id] = NoData] /\ idle' = TRUE
      /\ Signal(RemoveFromView(Both, IndexOf(entries, id), id))
      /\ UNCHANGED <<order, quiescent, undefined, stimuli>>
  <2>1. loop.next \in Nat
    BY DEF IInv, FullTypes, LoopType
  <2> QED
    BY <2>1 DEF removeIndividual, Plain
<1>2. PICK lp : lp = loop'
  OBVIOUS
<1>3. lp \in LoopType /\ lp.kind \in Plain /\ lp.kind # "sorting"
  BY <1>1, <1>2, PlainLoop DEF Plain
<1>4. entries \in Seq(EntryType) /\ FullOK(entries, order) /\ value \in [Contacts -> Values]
  BY StateFacts
<1>5. PICK n \in Nat : n = Len(entries)
  BY StateFacts
<1>6. PICK p \in Nat : p = IndexOf(entries, id) /\ p < n /\ p + 1 \in 1..n /\ entries[p + 1].id = id
  <2>1. \E i \in 1..Len(entries) : entries[i].id = id
    BY <1>1, <1>4, PresentFacts DEF Present
  <2> QED
    BY <1>4, <1>5, <2>1, IndexOfFacts
<1>7. PICK e2 : e2 = RemoveAt(entries, p + 1)
  OBVIOUS
<1>8. entries' = e2
  BY <1>1, <1>6, <1>7
<1>9. FullOK(e2, order) /\ (\A i \in 1..Len(e2) : e2[i].id # id) /\ e2 \in Seq(EntryType)
  <2>1. p < Len(entries)
    BY <1>5, <1>6
  <2>2. Shrunk(e2, entries, order, p)
    BY <1>4, <1>7, <2>1, FullViewRemove
  <2> QED
    BY <1>5, <1>6, <2>2 DEF Shrunk, FullOK
<1>18. FullTypes /\ notify' \in [Contacts -> Notify] /\ notify'[id] = "off"
       /\ \A c \in Contacts : c # id => notify'[c] = notify[c]
  BY <1>1 DEF IInv, FullTypes, Notify
<1>10. ASSUME view.open
       PROVE  Ready(view', res', lp, entries', order', value', Unexamined')
  <2>1. PICK mods2 : mods2 = Unexamined \ {id}
    OBVIOUS
  <2>2. PICK w : w = RemoveFromView([view |-> view, res |-> res], p, id)
    OBVIOUS
  <2>3. view' = w.view /\ res' = w.res /\ Unexamined' = mods2
    <3>1. Unexamined' = Unexamined \ {id}
      BY <1>1, <1>18, Examined
    <3> QED
      BY <1>1, <1>6, <1>10, <2>1, <2>2, <3>1 DEF Signal, Both
  <2>4. Ready(view, res, lp, entries, order, value, Unexamined)
    BY <1>1, <1>3, <1>10, IsReady
  <2>5. p < Len(entries) /\ id = entries[p + 1].id
    BY <1>5, <1>6
  <2>6. Ready(w.view, w.res, lp, e2, order, value, mods2)
    BY <1>7, <2>1, <2>2, <2>4, <2>5, RemoveStep
  <2>7. PICK val2 : val2 = [value EXCEPT ![id] = NoData] /\ val2 = value'
    BY <1>1
  <2>8. SameData(Len(e2), HoldersOf(e2), value, mods2, val2, mods2)
    BY <1>4, <1>9, <2>7, ForeignData
  <2>9. Ready(w.view, w.res, lp, e2, order, val2, mods2)
    BY <2>6, <2>8, DataStep
  <2> QED
    BY <1>1, <1>2, <1>8, <2>3, <2>7, <2>9
<1>11. ASSUME ~view.open
       PROVE  view' = NoView /\ res' = NoResource
  BY <1>1, <1>11, StateFacts DEF Signal, Both
<1>12. NoData \in Values
  BY ConstantsAssumption DEF NoData
<1>13. \A c \in Present : c # id => c \in Present'
  <2>1. \A c : c \in Present' <=> \E i \in 1..Len(e2) : e2[i].id = c
    BY <1>8, <1>9, PresentFacts DEF Present
  <2>2. \A c : c \in Present <=> \E i \in 1..n : entries[i].id = c
    BY <1>4, <1>5, PresentFacts DEF Present
  <2>3. ASSUME NEW i \in 1..n, entries[i].id # id
        PROVE  \E j \in 1..Len(e2) : e2[j] = entries[i]
    <3>1. p < Len(entries) /\ i # p + 1 /\ i \in 1..Len(entries)
      BY <1>5, <1>6, <2>3
    <3>2. HasEntry(e2, entries[i])
      BY <1>4, <1>7, <3>1, OthersPresent
    <3> QED
      BY <3>2 DEF HasEntry
  <2> QED
    BY <2>1, <2>2, <2>3
<1>14. FullTypes'
  <2>1. modifications \subseteq Contacts
    BY <1>4, PresentFacts DEF IInv, FullTypes, Present
  <2>2. \A c \in modifications' : notify'[c] = "on"
    BY <1>1, <1>18, <2>1 DEF FullTypes
  <2> QED
    BY <1>1, <1>2, <1>3, <1>4, <1>12, <1>13, <1>18, <2>2 DEF IInv, FullTypes
<1>15. FullOK(entries, order)'
  BY <1>1, <1>8, <1>9
<1>16. CASE view.open
  BY <1>2, <1>10, <1>14, <1>16, ReachedReady
<1>17. CASE ~view.open
  BY <1>2, <1>3, <1>11, <1>14, <1>15, <1>17, ReachedClosed
<1> QED
  BY <1>16, <1>17

\* addIndividual() keeps the invariant.
LEMMA AddInv ==
    ASSUME IInv, NEW id \in Contacts, NEW v \in Values, addIndividual(id, v)
    PROVE  IInv'
<1>1. PICK data : data = [id |-> id, criteria |-> v]
  OBVIOUS
<1>2. data \in EntryType /\ data.id = id
  BY <1>1 DEF EntryType
<1>3. PICK p : p = InsertionPoint(order, entries, data)
  OBVIOUS
<1>4. PICK count : count = IF loop.kind = "adding" THEN loop.next ELSE 0
  OBVIOUS
<1>5. /\ loop.kind \in Plain
      /\ id \notin Present
      /\ entries' = InsertAt(entries, p + 1, data)
      /\ value' = [value EXCEPT ![id] = v] /\ idle' = TRUE
      /\ notify' = [notify EXCEPT ![id] = "on"]
      /\ Signal(AddToView(entries', value', Both, p))
      /\ loop' = Loop("adding", count + 1)
      /\ UNCHANGED <<order, modifications, quiescent, undefined, stimuli>>
  BY <1>1, <1>3, <1>4 DEF addIndividual, Plain
<1>6. PICK lp : lp = loop'
  OBVIOUS
<1>7. lp \in LoopType /\ lp.kind \in Plain
  <2>1. count + 1 \in Nat
    BY <1>4 DEF IInv, FullTypes, LoopType
  <2> QED
    BY <1>5, <1>6, <2>1, PlainLoop DEF Plain
<1>8. entries \in Seq(EntryType) /\ FullOK(entries, order) /\ value \in [Contacts -> Values] /\ Len(entries) \in Nat
  BY StateFacts
<1>9. p \in Nat /\ p <= Len(entries)
  BY <1>2, <1>3, <1>8, InsertionPointSplits
<1>10. \A i \in 1..Len(entries) : entries[i].id # id
  BY <1>5, <1>8, PresentFacts DEF Present
<1>11. PICK e2 : e2 = InsertAt(entries, p + 1, data)
  OBVIOUS
<1>12. entries' = e2
  BY <1>5, <1>11
<1>13. \A i \in 1..Len(entries) : entries[i].id # data.id
  BY <1>2, <1>10
<1>14. FullOK(e2, order) /\ e2 \in Seq(EntryType)
  <2>1. Grown(e2, entries, order, p, data.id)
    BY <1>2, <1>3, <1>8, <1>9, <1>11, <1>13, FullViewAdd
  <2> QED
    BY <2>1 DEF Grown, FullOK
<1>22. FullTypes /\ notify' \in [Contacts -> Notify] /\ notify'[id] = "on"
       /\ (\A c \in Contacts : c # id => notify'[c] = notify[c])
       /\ modifications' = modifications \ {id}
  BY <1>5 DEF IInv, FullTypes, Notify
<1>15. ASSUME view.open
       PROVE  Ready(view', res', lp, entries', order', value', Unexamined')
  <2>0. PICK mods2 : mods2 = Unexamined' /\ mods2 = Unexamined \ {id}
    BY <1>5, <1>22, Examined
  <2>1. PICK val2 : val2 = [value EXCEPT ![id] = v] /\ val2 = value'
    BY <1>5
  <2>2. PICK w : w = AddToView(e2, val2, [view |-> view, res |-> res], p)
    OBVIOUS
  <2>3. view' = w.view /\ res' = w.res
    BY <1>5, <1>12, <1>15, <2>1, <2>2 DEF Signal, Both
  <2>4. Ready(view, res, lp, entries, order, value, Unexamined)
    BY <1>5, <1>7, <1>15, IsReady
  <2>5. SameData(Len(entries), HoldersOf(entries), value, Unexamined, val2, mods2)
    <3>1. Unexamined \ {id} \subseteq mods2
      BY <2>0
    <3> QED
      BY <1>8, <1>10, <2>1, <3>1, ForeignData
  <2>6. Ready(view, res, lp, entries, order, val2, mods2)
    BY <2>4, <2>5, DataStep
  <2>7. Ready(w.view, w.res, lp, e2, order, val2, mods2)
    BY <1>2, <1>3, <1>9, <1>11, <1>13, <2>2, <2>6, AddStep
  <2> QED
    BY <1>5, <1>12, <2>0, <2>1, <2>3, <2>7
<1>16. ASSUME ~view.open
       PROVE  view' = NoView /\ res' = NoResource
  BY <1>5, <1>16, StateFacts DEF Signal, Both
<1>17. \A c \in Present : c \in Present'
  <2>1. \A c : c \in Present' <=> \E i \in 1..Len(e2) : e2[i].id = c
    BY <1>12, <1>14, PresentFacts DEF Present
  <2>2. \A c : c \in Present <=> \E i \in 1..Len(entries) : entries[i].id = c
    BY <1>8, PresentFacts DEF Present
  <2>3. \A i \in 1..Len(entries) : \E j \in 1..Len(e2) : e2[j] = entries[i]
    <3>1. Keeps(e2, entries, data)
      BY <1>2, <1>8, <1>9, <1>11, AllPresent
    <3> QED
      BY <3>1 DEF Keeps
  <2> QED
    BY <2>1, <2>2, <2>3
<1>18. FullTypes'
  <2>1. modifications \subseteq Contacts
    BY <1>8, PresentFacts DEF IInv, FullTypes, Present
  <2>2. \A c \in modifications' : notify'[c] = "on"
    BY <1>5, <1>22, <2>1 DEF FullTypes
  <2> QED
    BY <1>5, <1>6, <1>7, <1>8, <1>17, <1>22, <2>2 DEF IInv, FullTypes
<1>19. FullOK(entries, order)'
  BY <1>5, <1>12, <1>14
<1>20. CASE view.open
  BY <1>6, <1>15, <1>18, <1>20, ReachedReady
<1>21. CASE ~view.open
  BY <1>6, <1>7, <1>16, <1>18, <1>19, <1>21, ReachedClosed
<1> QED
  BY <1>20, <1>21

\* individualModified() only notes that the contact has to be examined.
LEMMA ModifiedInv ==
    ASSUME IInv, NEW id \in Contacts, NEW v \in Values, individualModified(id, v)
    PROVE  IInv'
<1>1. /\ loop.kind = "none" /\ loop' = loop /\ id \in Present
      /\ value' = [value EXCEPT ![id] = v]
      /\ modifications' = modifications \cup {id} /\ notify[id] = "on"
      /\ idle' = TRUE /\ stimuli' = stimuli + 1
      /\ UNCHANGED <<entries, order, notify, quiescent, view, res, undefined>>
  BY DEF individualModified, Happens, MainLoop
<1>2. loop.kind \in Plain
  BY <1>1 DEF Plain
<1>3. entries \in Seq(EntryType) /\ FullOK(entries, order) /\ value \in [Contacts -> Values]
  BY StateFacts
<1>4. FullTypes'
  BY <1>1, <1>3 DEF IInv, FullTypes, Present
<1>5. FullOK(entries, order)'
  BY <1>1, <1>3
<1>6. CASE view.open
  <2>1. Ready(view, res, loop, entries, order, value, Unexamined)
    BY <1>2, <1>6, IsReady
  <2>2. PICK val2, mods2 : val2 = value' /\ mods2 = Unexamined'
    OBVIOUS
  <2>3. SameData(Len(entries), HoldersOf(entries), value, Unexamined, val2, mods2)
    <3>1. HoldersOf(entries) \in Holders(Len(entries))
      BY StateFacts
    <3>2. \A x \in 0..(Len(entries) - 1) : HoldersOf(entries)[x] \in Contacts
      BY <3>1 DEF Holders
    <3>3. \A c \in Contacts : (val2[c] = value[c] \/ c \in mods2) /\ (c \in Unexamined => c \in mods2)
      BY <1>1, <1>3, <2>2 DEF Unexamined
    <3> QED
      BY <3>2, <3>3 DEF SameData
  <2>4. Ready(view, res, loop, entries, order, val2, mods2)
    BY <2>1, <2>3, DataStep
  <2>5. Ready(view', res', loop', entries', order', value', Unexamined')
    BY <1>1, <2>2, <2>4
  <2> QED
    BY <1>4, <2>5, ReachedReady
<1>7. CASE ~view.open
  <2>1. view' = NoView /\ res' = NoResource /\ loop'.kind \in Plain
    BY <1>1, <1>2, <1>7, StateFacts
  <2> QED
    BY <1>4, <1>5, <2>1, ReachedClosed
<1> QED
  BY <1>6, <1>7

\* A modification nobody listens to makes the contact one that is not examined.
LEMMA UnseenInv ==
    ASSUME IInv, NEW id \in Contacts, NEW v \in Values, unseenModification(id, v)
    PROVE  IInv'
<1>1. /\ loop.kind = "none" /\ loop' = loop /\ id \in Present
      /\ value' = [value EXCEPT ![id] = v]
      /\ notify[id] # "on" /\ notify' = [notify EXCEPT ![id] = "missed"] /\ stimuli' = stimuli + 1
      /\ UNCHANGED <<entries, order, modifications, idle, quiescent, view, res, undefined>>
  BY DEF unseenModification, Happens, MainLoop
<1>2. loop.kind \in Plain
  BY <1>1 DEF Plain
<1>3. entries \in Seq(EntryType) /\ FullOK(entries, order) /\ value \in [Contacts -> Values]
  BY StateFacts
<1>8. /\ notify' \in [Contacts -> Notify] /\ notify'[id] = "missed"
      /\ \A c \in Contacts : c # id => notify'[c] = notify[c]
  BY <1>1 DEF IInv, FullTypes, Notify
<1>4. FullTypes'
  <2>1. modifications \subseteq Contacts
    BY <1>3, PresentFacts DEF IInv, FullTypes, Present
  <2>2. \A c \in modifications' : notify'[c] = "on"
    BY <1>1, <1>8, <2>1 DEF IInv, FullTypes
  <2> QED
    BY <1>1, <1>3, <1>8, <2>2 DEF IInv, FullTypes, Present
<1>5. FullOK(entries, order)'
  BY <1>1, <1>3
<1>6. CASE view.open
  <2>1. Ready(view, res, loop, entries, order, value, Unexamined)
    BY <1>2, <1>6, IsReady
  <2>2. PICK val2, mods2 : val2 = value' /\ mods2 = Unexamined'
    OBVIOUS
  <2>3. SameData(Len(entries), HoldersOf(entries), value, Unexamined, val2, mods2)
    <3>1. HoldersOf(entries) \in Holders(Len(entries))
      BY StateFacts
    <3>2. \A x \in 0..(Len(entries) - 1) : HoldersOf(entries)[x] \in Contacts
      BY <3>1 DEF Holders
    <3>3. \A c \in Contacts : (val2[c] = value[c] \/ c \in mods2) /\ (c \in Unexamined => c \in mods2)
      BY <1>1, <1>3, <1>8, <2>2 DEF Unexamined
    <3> QED
      BY <3>2, <3>3 DEF SameData
  <2>4. Ready(view, res, loop, entries, order, val2, mods2)
    BY <2>1, <2>3, DataStep
  <2>5. Ready(view', res', loop', entries', order', value', Unexamined')
    BY <1>1, <2>2, <2>4
  <2> QED
    BY <1>4, <2>5, ReachedReady
<1>7. CASE ~view.open
  <2>1. view' = NoView /\ res' = NoResource /\ loop'.kind \in Plain
    BY <1>1, <1>2, <1>7, StateFacts
  <2> QED
    BY <1>4, <1>5, <2>1, ReachedClosed
<1> QED
  BY <1>6, <1>7

\* onIdle() examines one contact: it is moved, which is a removal followed by
\* an addition, or modified in place.
LEMMA ModifyInv ==
    ASSUME IInv, NEW id \in Contacts, modifyIndividual(id)
    PROVE  IInv'
<1>1. PICK p : p = IndexOf(entries, id)
  OBVIOUS
<1>2. PICK data : data = Entry(value, id)
  OBVIOUS
<1>3. PICK others : others = RemoveAt(entries, p + 1)
  OBVIOUS
<1>4. PICK new : new = InsertionPoint(order, others, data)
  OBVIOUS
<1>5. PICK misplaced : misplaced <=>
        /\ data.criteria # entries[p + 1].criteria
        /\ \/ p > 0 /\ ~Less(order, entries[p].criteria, data.criteria)
           \/ p + 1 < Len(entries) /\ ~Less(order, data.criteria, entries[p + 2].criteria)
  OBVIOUS
<1>6. /\ loop.kind \in Plain /\ id \in modifications
      /\ modifications' = modifications \ {id}
      /\ \/ /\ misplaced
            /\ entries' = InsertAt(others, new + 1, data)
            /\ Signal(AddToView(entries', value, RemoveFromView(Both, p, id), new))
         \/ /\ ~misplaced
            /\ entries' = [entries EXCEPT ![p + 1] = data]
            /\ Signal(ModifyInView(entries', value, Both, p))
      /\ loop' = Loop("examining", 0)
      /\ UNCHANGED <<value, order, notify, idle, quiescent, undefined, stimuli>>
  BY <1>1, <1>2, <1>3, <1>4, <1>5 DEF modifyIndividual, Plain
<1>7. PICK lp : lp = loop'
  OBVIOUS
<1>8. lp \in LoopType /\ lp.kind \in Plain
  BY <1>6, <1>7, PlainLoop DEF Plain
<1>9. entries \in Seq(EntryType) /\ FullOK(entries, order) /\ value \in [Contacts -> Values] /\ Len(entries) \in Nat
  BY StateFacts
<1>10. id \in Present
  BY <1>6 DEF IInv, FullTypes
<1>11. p \in Nat /\ p < Len(entries) /\ p + 1 \in 1..Len(entries) /\ entries[p + 1].id = id
  <2>1. \E i \in 1..Len(entries) : entries[i].id = id
    BY <1>9, <1>10, PresentFacts DEF Present
  <2> QED
    BY <1>1, <1>9, <2>1, IndexOfFacts
<1>12. data \in EntryType /\ data.id = id
  BY <1>2, <1>9 DEF Entry, EntryType
<1>13. PICK mods2 : mods2 = Unexamined \ {id} /\ mods2 = Unexamined'
  <2>1. FullTypes /\ notify'[id] \in {"on", "off"} /\ notify' = [notify EXCEPT ![id] = notify'[id]]
    BY <1>6 DEF IInv, FullTypes
  <2> QED
    BY <1>6, <2>1, Examined
<1>14. PICK e2 : e2 = entries'
  OBVIOUS
<1>15. ASSUME view.open
       PROVE  Ready(view, res, lp, entries, order, value, Unexamined)
  BY <1>6, <1>8, <1>15, IsReady
\* what has to be shown in both cases
<1>16. ASSUME FullOK(e2, order), \A c \in Present : c # id => c \in Present',
              view.open => Ready(view', res', lp, e2, order, value, mods2),
              ~view.open => view' = NoView /\ res' = NoResource
       PROVE  IInv'
  <2>1. FullTypes'
    BY <1>6, <1>7, <1>8, <1>16 DEF IInv, FullTypes
  <2>2. FullOK(entries, order)'
    BY <1>6, <1>14, <1>16
  <2>3. CASE view.open
    <3>1. Ready(view', res', loop', entries', order', value', Unexamined')
      BY <1>6, <1>7, <1>13, <1>14, <1>16, <2>3
    <3> QED
      BY <2>1, <3>1, ReachedReady
  <2>4. CASE ~view.open
    BY <1>7, <1>8, <1>16, <2>1, <2>2, <2>4, ReachedClosed
  <2> QED
    BY <2>3, <2>4
<1>17. ASSUME ~view.open
       PROVE  view' = NoView /\ res' = NoResource
  BY <1>6, <1>17, StateFacts DEF Signal, Both
<1>18. \A c : c \in Present <=> \E i \in 1..Len(entries) : entries[i].id = c
  BY <1>9, PresentFacts DEF Present
<1>19. CASE misplaced
  <2>1. Shrunk(others, entries, order, p)
    BY <1>3, <1>9, <1>11, FullViewRemove
  <2>2. FullOK(others, order) /\ others \in Seq(EntryType) /\ \A i \in 1..Len(others) : others[i].id # data.id
    BY <1>11, <1>12, <2>1 DEF Shrunk, FullOK
  <2>3. e2 = InsertAt(others, new + 1, data)
    BY <1>6, <1>14, <1>19
  <2>4. new \in Nat /\ new <= Len(others)
    BY <1>4, <1>12, <2>2, InsertionPointSplits
  <2>5. Grown(e2, others, order, new, data.id)
    BY <1>4, <1>12, <2>2, <2>3, <2>4, FullViewAdd
  <2>6. FullOK(e2, order) /\ e2 \in Seq(EntryType)
    BY <2>5 DEF Grown, FullOK
  <2>7. ASSUME NEW c \in Present, c # id
        PROVE  c \in Present'
    <3>1. PICK i \in 1..Len(entries) : entries[i].id = c
      BY <1>18
    <3>2. i # p + 1
      BY <1>11, <2>7, <3>1
    <3>3. PICK j \in 1..Len(others) : others[j] = entries[i]
      <4>1. p \in Nat /\ p < Len(entries) /\ i # p + 1 /\ i \in 1..Len(entries)
        BY <1>11, <3>2
      <4>2. FullOK(entries, order)
        BY <1>9
      <4>3. HasEntry(others, entries[i])
        BY <1>3, <4>1, <4>2, OthersPresent
      <4> QED
        BY <4>3 DEF HasEntry
    <3>4. Keeps(e2, others, data)
      BY <1>12, <2>2, <2>3, <2>4, AllPresent
    <3>5. PICK k \in 1..Len(e2) : e2[k] = others[j]
      BY <3>4 DEF Keeps
    <3>6. e2[k].id = c
      BY <3>1, <3>3, <3>5
    <3> QED
      BY <1>14, <2>6, <3>6, PresentFacts DEF Present
  <2>8. ASSUME view.open
        PROVE  Ready(view', res', lp, e2, order, value, mods2)
    <3>1. PICK w1 : w1 = RemoveFromView([view |-> view, res |-> res], p, id)
      OBVIOUS
    <3>2. Ready(view, res, lp, entries, order, value, Unexamined)
      BY <1>15, <2>8
    <3>3. id = entries[p + 1].id /\ p < Len(entries) /\ p \in Nat
      BY <1>11
    <3>4. Ready(w1.view, w1.res, lp, others, order, value, mods2)
      BY <1>3, <1>13, <3>1, <3>2, <3>3, RemoveStep
    <3>5. w1 = [view |-> w1.view, res |-> w1.res]
      BY <3>1 DEF RemoveFromView, EraseLocal, With
    <3>6. PICK w2 : w2 = AddToView(e2, value, [view |-> w1.view, res |-> w1.res], new)
      OBVIOUS
    <3>7. Ready(w2.view, w2.res, lp, e2, order, value, mods2)
      BY <1>4, <1>12, <2>2, <2>3, <2>4, <3>4, <3>6, AddStep
    <3>8. w2 = AddToView(entries', value, RemoveFromView(Both, p, id), new)
      BY <1>14, <3>1, <3>5, <3>6 DEF Both
    <3>9. view' = w2.view /\ res' = w2.res
      BY <1>6, <1>19, <2>8, <3>8 DEF Signal
    <3> QED
      BY <3>7, <3>9
  <2> QED
    BY <1>16, <1>17, <2>6, <2>7, <2>8
<1>20. CASE ~misplaced
  <2>1. InPlace(entries, order, p, data)
    BY <1>5, <1>11, <1>12, <1>20 DEF InPlace
  <2>2. e2 = [entries EXCEPT ![p + 1] = data]
    BY <1>6, <1>14, <1>20
  <2>3. Edited(e2, entries, order)
    BY <1>9, <1>11, <1>12, <2>1, <2>2, FullViewModify
  <2>4. FullOK(e2, order) /\ Len(e2) = Len(entries) /\ e2 \in Seq(EntryType)
    BY <2>3 DEF Edited, FullOK
  <2>5. \A i \in 1..Len(entries) : e2[i].id = entries[i].id
    BY <1>9, <1>11, <1>12, <2>2
  <2>6. \A c \in Present : c \in Present'
    <3>1. \A c : c \in Present' <=> \E i \in 1..Len(e2) : e2[i].id = c
      BY <1>14, <2>4, PresentFacts DEF Present
    <3> QED
      BY <1>18, <2>4, <2>5, <3>1
  <2>7. ASSUME view.open
        PROVE  Ready(view', res', lp, e2, order, value, mods2)
    <3>1. PICK w : w = ModifyInView(e2, value, [view |-> view, res |-> res], p)
      OBVIOUS
    <3>2. Ready(view, res, lp, entries, order, value, Unexamined)
      BY <1>15, <2>7
    <3>3. mods2 = Unexamined \ {data.id}
      BY <1>12, <1>13
    <3>4. Ready(w.view, w.res, lp, e2, order, value, mods2)
      BY <1>11, <1>12, <2>1, <2>2, <3>1, <3>2, <3>3, ModifyStep
    <3>5. view' = w.view /\ res' = w.res
      BY <1>6, <1>14, <1>20, <2>7, <3>1 DEF Signal, Both
    <3> QED
      BY <3>4, <3>5
  <2> QED
    BY <1>16, <1>17, <2>4, <2>6, <2>7
<1> QED
  BY <1>19, <1>20

\* A step which leaves the full view alone and ends outside of setCompare().
LEMMA ReachedSame ==
    ASSUME IInv, UNCHANGED <<entries, value, order, modifications, notify>>,
           {idle', quiescent', undefined'} \subseteq BOOLEAN, stimuli' \in Nat,
           loop' \in LoopType, loop'.kind # "sorting",
           InLine(view', res', loop', Len(entries), HoldersOf(entries), value, Unexamined)
    PROVE  IInv'
<1>1. FullTypes'
  BY DEF IInv, FullTypes, Present
<1>2. FullOK(entries, order)'
  BY DEF IInv
<1>3. InLine(view', res', loop', Len(entries'), HoldersOf(entries'), value', Unexamined')
  <2>1. Unexamined' = Unexamined
    BY SameUnexamined
  <2> QED
    BY <2>1
<1> QED
  BY <1>1, <1>2, <1>3, Reached

\* Flags and counters have their types.
LEMMA Flags ==
    ASSUME IInv
    PROVE  idle \in BOOLEAN /\ quiescent \in BOOLEAN /\ undefined \in BOOLEAN /\ stimuli \in Nat
  BY DEF IInv, FullTypes

\* onIdle() ends with the quiescence signal.
LEMMA OnIdleInv ==
    ASSUME IInv, onIdle
    PROVE  IInv'
<1>1. /\ loop.kind \in Plain /\ loop.kind # "sorting" /\ idle' = FALSE
      /\ view' = view /\ res' = Forwarded(quiescent, view, res) /\ loop' = Following(quiescent, view)
      /\ UNCHANGED <<entries, value, order, modifications, notify, quiescent, undefined, stimuli>>
  BY DEF onIdle, m_quiescenceSignal, Plain
<1>2. Len(entries) \in Nat /\ InLine(view, res, loop, Len(entries), HoldersOf(entries), value, Unexamined)
  BY <1>1, StateFacts
<1>3. quiescent \in BOOLEAN /\ undefined \in BOOLEAN /\ stimuli \in Nat
  BY Flags
<1>4. /\ loop' \in LoopType /\ loop'.kind # "sorting"
      /\ InLine(view', res', loop', Len(entries), HoldersOf(entries), value, Unexamined)
  BY <1>1, <1>2, <1>3, SignalInLine
<1> QED
  BY <1>1, <1>3, <1>4, ReachedSame

\* folks becomes quiescent.
LEMMA QuiescenceInv ==
    ASSUME IInv, quiescenceChanged
    PROVE  IInv'
<1>1. /\ loop.kind \in Plain /\ loop.kind # "sorting" /\ quiescent' = TRUE
      /\ view' = view /\ res' = Forwarded(TRUE, view, res) /\ loop' = Following(TRUE, view)
      /\ UNCHANGED <<entries, value, order, modifications, notify, idle, undefined, stimuli>>
  BY DEF quiescenceChanged, m_quiescenceSignal, MainLoop, Plain
<1>2. Len(entries) \in Nat /\ InLine(view, res, loop, Len(entries), HoldersOf(entries), value, Unexamined)
  BY <1>1, StateFacts
<1>3. idle \in BOOLEAN /\ undefined \in BOOLEAN /\ stimuli \in Nat
  BY Flags
<1>4. PICK q \in BOOLEAN : q = TRUE
  OBVIOUS
<1>5. res' = Forwarded(q, view, res) /\ loop' = Following(q, view)
  BY <1>1, <1>4
<1>6. /\ loop' \in LoopType /\ loop'.kind # "sorting"
      /\ InLine(view', res', loop', Len(entries), HoldersOf(entries), value, Unexamined)
  BY <1>1, <1>2, <1>5, SignalInLine
<1> QED
  BY <1>1, <1>3, <1>6, ReachedSame

\* fillViewCb() starts by itself.
LEMMA FillOnIdleInv ==
    ASSUME IInv, fillViewOnIdle
    PROVE  IInv'
<1>1. /\ loop.kind \in Plain /\ loop.kind # "sorting" /\ view.fill
      /\ loop' = Filling(view, FALSE)
      /\ UNCHANGED <<entries, value, order, modifications, notify, idle, quiescent, view, res, undefined, stimuli>>
  BY DEF fillViewOnIdle, MainLoop, Plain
<1>2. Len(entries) \in Nat /\ InLine(view, res, loop, Len(entries), HoldersOf(entries), value, Unexamined)
  BY <1>1, StateFacts
<1>3. view.open
  BY <1>1, StateFacts, NoViewType
<1>4. PICK flush \in BOOLEAN : flush = FALSE
  OBVIOUS
<1>5. loop' = Filling(view, flush)
  BY <1>1, <1>4
<1>6. /\ loop' \in LoopType /\ loop'.kind = "filling"
      /\ InLine(view, res, loop', Len(entries), HoldersOf(entries), value, Unexamined)
  BY <1>1, <1>2, <1>3, <1>5, FillingInLine
<1> QED
  BY <1>1, <1>6, Flags, ReachedSame

\* The client closes its view.
LEMMA CloseInv ==
    ASSUME IInv, Close
    PROVE  IInv'
<1>1. /\ loop' = loop /\ loop.kind \in Plain /\ view' = NoView /\ res' = NoResource
      /\ UNCHANGED <<entries, value, order, modifications, notify, idle, quiescent, undefined, stimuli>>
  BY DEF Close, MainLoop, Plain
<1>2. loop' \in LoopType /\ loop'.kind # "sorting"
  BY <1>1, StateFacts DEF Plain
<1>3. InLine(view', res', loop', Len(entries), HoldersOf(entries), value, Unexamined)
  BY <1>1, ClosedInLine
<1> QED
  BY <1>1, <1>2, <1>3, Flags, ReachedSame

\* A new view starts empty and is filled.
LEMMA SearchInv ==
    ASSUME IInv, NEW filter \in Filters, NEW max \in Limits, Search(filter, max)
    PROVE  IInv'
<1>1. /\ view' = [NoView EXCEPT !.open = TRUE, !.filter = filter, !.max = max]
      /\ res' = NoResource
      /\ loop' = [Loop("filling", 0) EXCEPT !.flush = quiescent] /\ stimuli' = stimuli + 1
      /\ UNCHANGED <<entries, value, order, modifications, notify, idle, quiescent, undefined>>
  BY DEF Search, Happens
<1>2. PICK v : v = view'
  OBVIOUS
<1>3. v \in ViewType /\ v.open /\ v.local2parent = <<>>
  <2>1. filter \subseteq Values
    BY DEF Filters
  <2> QED
    BY <1>1, <1>2, <2>1, NoViewType DEF ViewType
<1>4. PICK lp : lp = loop'
  OBVIOUS
<1>5. lp \in LoopType /\ lp.kind = "filling" /\ lp.next = 0
  <2>1. Loop("filling", 0) \in LoopType
    BY LoopIsTyped
  <2>2. Loop("filling", 0).kind = "filling" /\ Loop("filling", 0).next = 0
    BY DEF Loop
  <2> QED
    BY <1>1, <1>4, <2>1, <2>2, Flags DEF LoopType
<1>6. PICK n \in Nat : n = Len(entries)
  BY StateFacts
<1>7. PICK h : h = HoldersOf(entries)
  OBVIOUS
<1>8. Len(v.local2parent) = 0 /\ \A p : ~Has(v.local2parent, p)
  BY <1>3 DEF Has
<1>9. Consistent([view |-> v, res |-> NoResource], n, h, value, Unexamined)
  BY <1>3, EmptyConsistent
<1>10. Exact(v, lp, n, h, value, Unexamined)
  BY <1>5, <1>8 DEF Exact, Skipping
<1>11. LoopOK(v, lp, n, h, value)
  BY <1>3, <1>5, <1>6, <1>8 DEF LoopOK, FillingOK
<1>12. InLine(v, NoResource, lp, n, h, value, Unexamined)
  BY <1>3, <1>9, <1>10, <1>11 DEF InLine
<1>13. loop' \in LoopType /\ loop'.kind # "sorting"
       /\ InLine(view', res', loop', Len(entries), HoldersOf(entries), value, Unexamined)
  BY <1>1, <1>2, <1>4, <1>5, <1>6, <1>7, <1>12
<1> QED
  BY <1>1, <1>13, Flags, ReachedSame

\* replaceFilter() with a stricter filter starts.
LEMMA RefineSearchInv ==
    ASSUME IInv, NEW filter \in Filters, RefineSearch(filter)
    PROVE  IInv'
<1>1. /\ loop.kind \in Plain /\ loop.kind # "sorting" /\ view.open
      /\ view.replaced \/ filter \subseteq view.filter
      /\ loop' = [Loop("refining", 0) EXCEPT !.filter = filter] /\ stimuli' = stimuli + 1
      /\ UNCHANGED <<entries, value, order, modifications, notify, idle, quiescent, view, res, undefined>>
  BY DEF RefineSearch, Happens, MainLoop, Plain
<1>2. PICK lp : lp = loop'
  OBVIOUS
<1>3. lp \in LoopType /\ lp.kind = "refining" /\ lp.next = 0 /\ lp.filter = filter
  <2>1. Loop("refining", 0) \in LoopType
    BY LoopIsTyped
  <2>2. Loop("refining", 0).kind = "refining" /\ Loop("refining", 0).next = 0
    BY DEF Loop
  <2>3. filter \subseteq Values
    BY DEF Filters
  <2> QED
    BY <1>1, <1>2, <2>1, <2>2, <2>3 DEF LoopType
<1>4. PICK n \in Nat : n = Len(entries)
  BY StateFacts
<1>5. PICK h : h = HoldersOf(entries)
  OBVIOUS
<1>6. InLine(view, res, loop, n, h, value, Unexamined)
  BY <1>1, <1>4, <1>5, StateFacts
<1>7. Exact(view, lp, n, h, value, Unexamined)
  BY <1>1, <1>3, <1>6 DEF InLine, Exact, Skipping, Plain
<1>8. Len(view.local2parent) \in Nat
  BY <1>6, MappingFacts DEF InLine, Consistent
<1>9. LoopOK(view, lp, n, h, value)
  BY <1>1, <1>3, <1>8 DEF LoopOK, RefiningOK
<1>10. InLine(view, res, lp, n, h, value, Unexamined)
  BY <1>6, <1>7, <1>9 DEF InLine
<1>11. loop' \in LoopType /\ loop'.kind # "sorting"
       /\ InLine(view', res', loop', Len(entries), HoldersOf(entries), value, Unexamined)
  BY <1>1, <1>2, <1>3, <1>4, <1>5, <1>10
<1> QED
  BY <1>1, <1>11, Flags, ReachedSame

\* fillViewCb() ends: a view without limit has seen all entries.
LEMMA FillDoneInv ==
    ASSUME IInv, fillViewDone
    PROVE  IInv'
<1>1. /\ loop.kind = "filling" /\ loop.kind # "sorting"
      /\ (IsFull(view) \/ loop.next = Len(entries))
      /\ view' = [view EXCEPT !.fill = FALSE]
      /\ res' = IF loop.flush THEN flushChanges(res) ELSE res
      /\ loop' = NoLoop
      /\ UNCHANGED <<entries, value, order, modifications, notify, idle, quiescent, undefined, stimuli>>
  BY DEF fillViewDone
<1>2. PICK n \in Nat : n = Len(entries)
  BY StateFacts
<1>3. PICK h : h = HoldersOf(entries)
  OBVIOUS
<1>4. InLine(view, res, loop, n, h, value, Unexamined)
  BY <1>1, <1>2, <1>3, StateFacts
<1>5. view.open
  BY <1>1, <1>4 DEF InLine, LoopOK, FillingOK
<1>6. PICK r : r = res'
  OBVIOUS
<1>7. InLine(view, r, loop, n, h, value, Unexamined)
  <2>1. InLine(view, flushChanges(res), loop, n, h, value, Unexamined)
    BY <1>4, <1>5, FlushInLine
  <2> QED
    BY <1>1, <1>4, <1>6, <2>1
<1>8. PICK v : v = view'
  OBVIOUS
<1>9. v \in ViewType /\ SameSearch(v, view) /\ v.local2parent = view.local2parent
  BY <1>1, <1>8, StateFacts DEF ViewType, SameSearch
<1>10. Consistent([view |-> v, res |-> r], n, h, value, Unexamined)
  BY <1>7, <1>9 DEF InLine, Consistent
<1>11. PlainExact(v, n, h, value, Unexamined)
  <2>1. view.max = Unlimited => loop.next = n
    BY <1>1, <1>2 DEF IsFull, Included
  <2>2. loop.next \in Nat
    BY StateFacts DEF LoopType
  <2>3. ASSUME NEW p \in 0..(n - 1)
        PROVE  \/ v.replaced
               \/ h[p] \in Unexamined
               \/ Has(v.local2parent, p) /\ value[h[p]] \in v.filter
               \/ ~Has(v.local2parent, p) /\ (v.max # Unlimited \/ value[h[p]] \notin v.filter)
    <3>1. \/ view.replaced
          \/ h[p] \in Unexamined
          \/ Has(view.local2parent, p) /\ value[h[p]] \in view.filter
          \/ ~Has(view.local2parent, p) /\ Skipping(view, loop, p, value[h[p]])
      BY <1>4, <1>5 DEF InLine, Exact
    <3>2. Skipping(view, loop, p, value[h[p]]) => view.max # Unlimited \/ value[h[p]] \notin view.filter
      BY <1>1, <2>1, <2>2 DEF Skipping
    <3>3. v.max = view.max /\ v.filter = view.filter /\ v.replaced = view.replaced
      BY <1>9 DEF SameSearch
    <3> QED
      BY <1>9, <3>1, <3>2, <3>3
  <2> QED
    BY <2>3 DEF PlainExact
<1>12. loop' \in LoopType /\ loop'.kind \in Plain /\ loop'.kind # "sorting"
  BY <1>1, PlainLoop DEF NoLoop, Plain
<1>13. InLine(view', res', loop', Len(entries), HoldersOf(entries), value, Unexamined)
  BY <1>2, <1>3, <1>5, <1>6, <1>8, <1>9, <1>10, <1>11, <1>12, OpenPlain DEF SameSearch
<1> QED
  BY <1>1, <1>12, <1>13, Flags, ReachedSame

\* setCompare() ends: the view knows all contacts at their new indices.
LEMMA SortDoneInv ==
    ASSUME IInv, sortDone
    PROVE  IInv'
<1>1. /\ loop.kind = "sorting" /\ loop.next = Len(entries)
      /\ view' = view /\ res' = Forwarded(quiescent, view, res) /\ loop' = Following(quiescent, view)
      /\ UNCHANGED <<entries, value, order, modifications, notify, idle, quiescent, undefined, stimuli>>
  BY DEF sortDone, m_quiescenceSignal
<1>2. PICK n \in Nat : n = Len(entries)
  BY StateFacts
<1>3. Held(loop, entries) = HoldersOf(entries)
  BY <1>1, <1>2 DEF Held, HoldersOf
<1>4. InLine(view, res, loop, n, HoldersOf(entries), value, Unexamined)
  BY <1>2, <1>3, StateFacts
<1>5. view.open
  BY <1>1, <1>4 DEF InLine, LoopOK, SortingOK
<1>6. PICK lp : lp = NoLoop
  OBVIOUS
<1>7. lp.kind \in Plain
  BY <1>6, PlainLoop DEF NoLoop, Plain
<1>8. InLine(view, res, lp, n, HoldersOf(entries), value, Unexamined)
  <2>1. PlainExact(view, n, HoldersOf(entries), value, Unexamined)
    BY <1>1, <1>4, <1>5 DEF InLine, Exact, Skipping, PlainExact
  <2> QED
    BY <1>4, <1>5, <1>7, <2>1, OpenPlain DEF InLine
<1>9. quiescent \in BOOLEAN
  BY Flags
<1>10. /\ loop' \in LoopType /\ loop'.kind # "sorting"
       /\ InLine(view', res', loop', Len(entries), HoldersOf(entries), value, Unexamined)
  BY <1>1, <1>2, <1>7, <1>8, <1>9, SignalInLine
<1> QED
  BY <1>1, <1>10, Flags, ReachedSame

\* replaceFilter() ends: all contacts left in the view match the new filter.
LEMMA RefineDoneInv ==
    ASSUME IInv, refineDone
    PROVE  IInv'
<1>1. PICK v : v = [view EXCEPT !.filter = loop.filter]
  OBVIOUS
<1>2. /\ loop.kind = "refining" /\ loop.kind # "sorting" /\ loop.next = Len(view.local2parent)
      /\ view' = v /\ res' = Forwarded(quiescent, v, res) /\ loop' = Following(quiescent, v)
      /\ UNCHANGED <<entries, value, order, modifications, notify, idle, quiescent, undefined, stimuli>>
  BY <1>1 DEF refineDone, m_quiescenceSignal
<1>3. PICK n \in Nat : n = Len(entries)
  BY StateFacts
<1>4. PICK h : h = HoldersOf(entries)
  OBVIOUS
<1>5. InLine(view, res, loop, n, h, value, Unexamined)
  BY <1>2, <1>3, <1>4, StateFacts
<1>6. RefiningOK(view, loop, h, value)
  BY <1>2, <1>5 DEF InLine, LoopOK
<1>7. /\ v \in ViewType /\ v.open /\ v.max = view.max /\ v.local2parent = view.local2parent
      /\ v.filter = loop.filter /\ v.replaced = view.replaced
  BY <1>1, <1>6, StateFacts DEF ViewType, LoopType, RefiningOK
<1>8. Consistent([view |-> v, res |-> res], n, h, value, Unexamined)
  BY <1>5, <1>7 DEF InLine, Consistent
<1>9. PlainExact(v, n, h, value, Unexamined)
  <2>1. ASSUME NEW p \in 0..(n - 1)
        PROVE  \/ v.replaced
               \/ h[p] \in Unexamined
               \/ Has(v.local2parent, p) /\ value[h[p]] \in v.filter
               \/ ~Has(v.local2parent, p) /\ (v.max # Unlimited \/ value[h[p]] \notin v.filter)
    <3>1. \/ view.replaced
          \/ h[p] \in Unexamined
          \/ Has(view.local2parent, p)
          \/ ~Has(view.local2parent, p) /\ Skipping(view, loop, p, value[h[p]])
      BY <1>5, <1>6 DEF InLine, Exact, RefiningOK
    <3>2. Skipping(view, loop, p, value[h[p]]) => view.max # Unlimited \/ value[h[p]] \notin loop.filter
      BY <1>2 DEF Skipping
    <3>3. Has(view.local2parent, p) => value[h[p]] \in loop.filter
      BY <1>2, <1>6 DEF Has, RefiningOK
    <3> QED
      BY <1>7, <3>1, <3>2, <3>3
  <2> QED
    BY <2>1 DEF PlainExact
<1>10. PICK lp : lp = NoLoop
  OBVIOUS
<1>11. lp.kind \in Plain
  BY <1>10, PlainLoop DEF NoLoop, Plain
<1>12. InLine(v, res, lp, n, h, value, Unexamined)
  BY <1>7, <1>8, <1>9, <1>11, OpenPlain
<1>13. quiescent \in BOOLEAN
  BY Flags
<1>14. /\ loop' \in LoopType /\ loop'.kind # "sorting"
       /\ InLine(view', res', loop', Len(entries), HoldersOf(entries), value, Unexamined)
  BY <1>2, <1>3, <1>4, <1>11, <1>12, <1>13, SignalInLine
<1> QED
  BY <1>2, <1>14, Flags, ReachedSame

\* One contact of the view is checked again in replaceFilter().
LEMMA RefineInv ==
    ASSUME IInv, refine
    PROVE  IInv'
<1>1. PICK data : data = entries[view.local2parent[loop.next + 1] + 1]
  OBVIOUS
<1>2. PICK w0 : w0 = [view |-> view, res |-> res]
  OBVIOUS
<1>3. PICK w : w = EraseLocal(w0, loop.next, data.id, TRUE)
  OBVIOUS
<1>4. /\ loop.kind = "refining" /\ loop.kind # "sorting" /\ loop.next < Len(view.local2parent)
      /\ \/ /\ Matches(value, loop.filter, data)
            /\ loop' = [loop EXCEPT !.next = @ + 1]
            /\ view' = view /\ res' = res
         \/ /\ ~Matches(value, loop.filter, data)
            /\ view' = w.view /\ res' = w.res
            /\ loop' = loop
      /\ UNCHANGED <<entries, value, order, modifications, notify, idle, quiescent, undefined, stimuli>>
  BY <1>1, <1>2, <1>3 DEF refine, Both
<1>5. PICK n \in Nat : n = Len(entries)
  BY StateFacts
<1>6. PICK h \in Holders(n) : h = HoldersOf(entries) /\ \A x \in 0..(n - 1) : h[x] = entries[x + 1].id
  BY <1>5, StateFacts
<1>7. InLine(view, res, loop, n, h, value, Unexamined)
  BY <1>4, <1>5, <1>6, StateFacts
<1>8. RefiningOK(view, loop, h, value)
  BY <1>4, <1>7 DEF InLine, LoopOK
<1>9. loop \in LoopType /\ loop.next \in Nat
  BY StateFacts DEF LoopType
<1>10. PICK l : l = view.local2parent
  OBVIOUS
<1>11. Mapping(l, n)
  BY <1>7, <1>10 DEF InLine, Consistent
<1>12. PICK k \in Nat : k = Len(l)
  BY <1>11, MappingFacts
<1>13. PICK at \in Nat : at = loop.next /\ at < k /\ at + 1 \in 1..k
  BY <1>4, <1>9, <1>10, <1>12
<1>14. PICK p \in 0..(n - 1) : p = l[at + 1]
  BY <1>11, <1>12, <1>13, MappingFacts
<1>15. data.id = h[p] /\ h[p] \in Contacts
  BY <1>1, <1>6, <1>10, <1>13, <1>14 DEF Holders
<1>16. CASE Matches(value, loop.filter, data)
  <2>1. view' = view /\ res' = res /\ loop' = [loop EXCEPT !.next = @ + 1]
    BY <1>4, <1>16
  <2>2. PICK lp : lp = loop'
    OBVIOUS
  <2>3. lp \in LoopType /\ lp.kind = "refining" /\ lp.next = at + 1 /\ lp.filter = loop.filter
    BY <1>4, <1>9, <1>13, <2>1, <2>2 DEF LoopType
  <2>4. value[h[p]] \in loop.filter
    BY <1>15, <1>16 DEF Matches
  <2>5. \A i \in 1..(at + 1) : value[h[l[i]]] \in loop.filter
    <3>1. \A i \in 1..at : value[h[l[i]]] \in loop.filter
      BY <1>8, <1>10, <1>13 DEF RefiningOK
    <3>2. \A i \in 1..(at + 1) : i \in 1..at \/ i = at + 1
      OBVIOUS
    <3> QED
      BY <1>14, <2>4, <3>1, <3>2
  <2>6. RefiningOK(view, lp, h, value)
    BY <1>8, <1>10, <1>12, <1>13, <2>3, <2>5 DEF RefiningOK
  <2>7. LoopOK(view, lp, n, h, value)
    BY <2>3, <2>6 DEF LoopOK
  <2>8. Exact(view, lp, n, h, value, Unexamined)
    BY <1>4, <1>7, <2>3 DEF InLine, Exact, Skipping
  <2>9. InLine(view, res, lp, n, h, value, Unexamined)
    BY <1>7, <2>7, <2>8 DEF InLine
  <2>10. /\ loop' \in LoopType /\ loop'.kind # "sorting"
         /\ InLine(view', res', loop', Len(entries), HoldersOf(entries), value, Unexamined)
    BY <1>5, <1>6, <2>1, <2>2, <2>3, <2>9
  <2> QED
    BY <1>4, <2>10, Flags, ReachedSame
<1>17. CASE ~Matches(value, loop.filter, data)
  <2>1. view' = w.view /\ res' = w.res /\ loop' = loop
    BY <1>4, <1>17
  <2>2. Consistent(w0, n, h, value, Unexamined) /\ w0.view = view
    BY <1>2, <1>7 DEF InLine
  <2>3. Spared(h, w0.view.local2parent, at, Unexamined, Unexamined)
    BY DEF Spared
  <2>4. at < Len(w0.view.local2parent)
    BY <1>10, <1>12, <1>13, <2>2
  <2>5. PICK fill \in BOOLEAN : fill = TRUE
    OBVIOUS
  <2>6. PICK id \in Contacts : id = h[p]
    BY <1>15
  <2>7. w = EraseLocal(w0, at, id, fill)
    BY <1>3, <1>13, <1>15, <2>5, <2>6
  <2>8. EraseResult(w, w0, at, fill, n, h, value, Unexamined)
    BY <2>2, <2>3, <2>4, <2>7, EraseKeeps
  <2>9. PICK l2 : l2 = w.view.local2parent
    OBVIOUS
  <2>10. /\ Consistent(w, n, h, value, Unexamined) /\ Erased(l, at, l2)
         /\ w.view.open = view.open /\ w.view.filter = view.filter /\ w.view.max = view.max
         /\ w.view.replaced = view.replaced
    BY <1>10, <2>2, <2>8, <2>9 DEF EraseResult, SameSearch
  <2>11. \A x : Has(l2, x) <=> Has(l, x) /\ x # p
    BY <1>11, <1>12, <1>13, <1>14, <2>10, HasErased
  <2>12. value[h[p]] \notin loop.filter
    BY <1>15, <1>17 DEF Matches
  <2>13. Exact(w.view, loop, n, h, value, Unexamined)
    <3>1. ASSUME NEW x \in 0..(n - 1)
          PROVE  \/ view.replaced
                 \/ h[x] \in Unexamined
                 \/ Has(l2, x) /\ value[h[x]] \in view.filter
                 \/ ~Has(l2, x) /\ (view.max # Unlimited \/ value[h[x]] \notin loop.filter)
      <4>1. \/ view.replaced
            \/ h[x] \in Unexamined
            \/ Has(l, x) /\ value[h[x]] \in view.filter
            \/ ~Has(l, x) /\ (view.max # Unlimited \/ value[h[x]] \notin loop.filter)
        BY <1>4, <1>7, <1>8, <1>10 DEF InLine, Exact, Skipping, RefiningOK
      <4> QED
        BY <2>11, <2>12, <4>1
    <3> QED
      BY <1>4, <2>9, <2>10, <3>1 DEF Exact, Skipping
  <2>14. Len(l2) = k - 1 /\ \A i \in 1..(k - 1) : l2[i] = IF i <= at THEN l[i] ELSE l[i + 1]
    BY <1>12, <2>10 DEF Erased
  <2>15. RefiningOK(w.view, loop, h, value)
    <3>1. \A i \in 1..at : i \in 1..(k - 1) /\ i <= at
      BY <1>13
    <3>2. \A i \in 1..at : value[h[l2[i]]] \in loop.filter
      BY <1>8, <1>10, <1>13, <2>14, <3>1 DEF RefiningOK
    <3>3. at <= Len(l2)
      BY <1>13, <2>14
    <3> QED
      BY <1>8, <1>13, <2>9, <2>10, <3>2, <3>3 DEF RefiningOK
  <2>16. LoopOK(w.view, loop, n, h, value)
    BY <1>4, <2>15 DEF LoopOK
  <2>17. Consistent([view |-> w.view, res |-> w.res], n, h, value, Unexamined)
    BY <2>10, ConsistentBoth
  <2>18. InLine(w.view, w.res, loop, n, h, value, Unexamined)
    BY <1>8, <2>10, <2>13, <2>16, <2>17 DEF InLine, RefiningOK
  <2>19. /\ loop' \in LoopType /\ loop'.kind # "sorting"
         /\ InLine(view', res', loop', Len(entries), HoldersOf(entries), value, Unexamined)
    BY <1>4, <1>5, <1>6, <1>9, <2>1, <2>18
  <2> QED
    BY <1>4, <2>19, Flags, ReachedSame
<1> QED
  BY <1>16, <1>17

\* A mapping to the first indices, seen from all or only from these.
LEMMA ConsistentPart ==
    ASSUME NEW n \in Nat, NEW h \in Holders(n), NEW val, NEW mods,
           NEW w, Consistent(w, n, h, val, mods),
           NEW m \in Nat, NEW g \in Holders(m), Mapping(w.view.local2parent, m),
           \A x \in Nat : x < m /\ x < n => g[x] = h[x]
    PROVE  Consistent(w, m, g, val, mods)
<1>1. PICK l : l = w.view.local2parent
  OBVIOUS
<1>2. Mapping(l, n) /\ Mapping(l, m)
  BY <1>1 DEF Consistent
<1>3. ASSUME NEW i \in 1..Len(l)
      PROVE  g[l[i]] = h[l[i]]
  <2>1. l[i] \in Nat /\ l[i] \in 0..(n - 1)
    BY <1>2, MappingFacts
  <2>2. l[i] \in 0..(m - 1)
    BY <1>2, MappingFacts
  <2> QED
    BY <2>1, <2>2
<1>4. Alike(w.view.local2parent, h, val, mods, g, val, mods)
  BY <1>1, <1>3 DEF Alike
<1> QED
  BY <1>4, ConsistentOther

\* A mapping to few indices is one to more indices.
LEMMA MappingWider ==
    ASSUME NEW m \in Nat, NEW n \in Nat, m <= n, NEW l, Mapping(l, m)
    PROVE  Mapping(l, n)
<1>1. l \in Seq(Int) /\ Increasing(l)
  BY DEF Mapping
<1>2. ASSUME NEW i \in 1..Len(l)
      PROVE  0 <= l[i] /\ l[i] < n
  <2>1. l[i] \in 0..(m - 1)
    BY MappingFacts
  <2> QED
    BY <2>1
<1> QED
  BY <1>1, <1>2 DEF Mapping

\* fillViewCb() offers the next entry of the full view to a view that has
\* nothing behind it, as if that entry were new.
LEMMA FillInv ==
    ASSUME IInv, fillView
    PROVE  IInv'
<1>1. PICK w0 : w0 = [view |-> view, res |-> res]
  OBVIOUS
<1>2. PICK w : w = AddToView(entries, value, w0, loop.next)
  OBVIOUS
<1>3. /\ loop.kind = "filling" /\ loop.kind # "sorting" /\ loop.next < Len(entries)
      /\ view' = w.view /\ res' = w.res /\ loop' = [loop EXCEPT !.next = @ + 1]
      /\ UNCHANGED <<entries, value, order, modifications, notify, idle, quiescent, undefined, stimuli>>
  BY <1>1, <1>2 DEF fillView, Both
<1>4. PICK n \in Nat : n = Len(entries)
  BY StateFacts
<1>5. PICK h \in Holders(n) : h = HoldersOf(entries) /\ \A x \in 0..(n - 1) : h[x] = entries[x + 1].id
  BY <1>4, StateFacts
<1>6. InLine(view, res, loop, n, h, value, Unexamined)
  BY <1>3, <1>4, <1>5, StateFacts
<1>7. PICK q \in Nat : q = loop.next /\ q < n
  BY <1>3, <1>4, StateFacts DEF LoopType
<1>8. PICK m \in Nat : m = q + 1 /\ m <= n
  BY <1>7
<1>9. FillingOK(view, loop, n)
  BY <1>3, <1>6 DEF InLine, LoopOK
<1>10. PICK l : l = view.local2parent
  OBVIOUS
<1>11. Consistent(w0, n, h, value, Unexamined) /\ w0.view = view /\ Mapping(l, n)
  BY <1>1, <1>6, <1>10 DEF InLine, Consistent
<1>12. Mapping(l, q)
  <2>1. \A i \in 1..Len(l) : l[i] < q
    BY <1>7, <1>9, <1>10 DEF FillingOK
  <2> QED
    BY <1>11, <2>1 DEF Mapping
<1>13. PICK h1 : h1 = [x \in 0..(q - 1) |-> h[x]]
  OBVIOUS
<1>14. PICK g : g = [x \in 0..(m - 1) |-> h[x]]
  OBVIOUS
<1>15. h1 \in Holders(q) /\ \A x \in 0..(q - 1) : h1[x] = h[x]
  <2>1. \A x \in 0..(q - 1) : x \in 0..(n - 1)
    BY <1>7
  <2> QED
    BY <1>13, <2>1 DEF Holders
<1>16. g \in Holders(m) /\ \A x \in 0..(m - 1) : g[x] = h[x] /\ x \in 0..(n - 1)
  <2>1. \A x \in 0..(m - 1) : x \in 0..(n - 1)
    BY <1>8
  <2> QED
    BY <1>14, <2>1 DEF Holders
<1>17. Consistent(w0, q, h1, value, Unexamined)
  <2>1. \A x \in Nat : x < q /\ x < n => h1[x] = h[x]
    BY <1>15
  <2> QED
    BY <1>10, <1>11, <1>12, <1>15, <2>1, ConsistentPart
<1>18. MovedUp(h1, g, q, q)
  <2>1. ASSUME NEW x \in 0..(q - 1)
        PROVE  h1[x] = g[IF x < q THEN x ELSE x + 1]
    <3>1. x < q /\ x \in 0..(m - 1)
      BY <1>8
    <3> QED
      BY <1>15, <1>16, <3>1
  <2> QED
    BY <2>1 DEF MovedUp
<1>19. Holds(entries, m, g)
  BY <1>5, <1>16 DEF Holds
<1>20. w = AddToView(entries, value, w0, q)
  BY <1>2, <1>7
<1>21. /\ Consistent(w, m, g, value, Unexamined)
       /\ SameSearch(w.view, w0.view) /\ w.view.fill = w0.view.fill
       /\ Added(w.view.local2parent, w0.view, q, q, value[g[q]] \in w0.view.filter)
  <2>1. q <= q
    OBVIOUS
  <2> QED
    BY <1>8, <1>15, <1>16, <1>17, <1>18, <1>19, <1>20, <2>1, AddKeeps
<1>22. PICK l2 : l2 = w.view.local2parent
  OBVIOUS
<1>23. /\ w.view.open /\ w.view.filter = view.filter /\ w.view.max = view.max
       /\ w.view.replaced = view.replaced
       /\ Mapping(l2, m) /\ Added(l2, view, q, q, value[g[q]] \in view.filter)
  BY <1>9, <1>11, <1>21, <1>22 DEF SameSearch, Consistent, FillingOK
<1>24. Consistent(w, n, h, value, Unexamined)
  <2>1. Mapping(w.view.local2parent, n)
    BY <1>8, <1>22, <1>23, MappingWider
  <2>2. \A x \in Nat : x < n /\ x < m => h[x] = g[x]
    BY <1>16
  <2> QED
    BY <1>16, <1>21, <2>1, <2>2, ConsistentPart
<1>25. PICK lp : lp = loop'
  OBVIOUS
<1>26. lp \in LoopType /\ lp.kind = "filling" /\ lp.next = m
  <2>1. loop \in LoopType
    BY StateFacts
  <2> QED
    BY <1>3, <1>7, <1>8, <1>25, <2>1 DEF LoopType
<1>27. ASSUME NEW x \in 0..(n - 1)
       PROVE  \/ view.replaced
              \/ h[x] \in Unexamined
              \/ Has(l2, x) /\ value[h[x]] \in view.filter
              \/ ~Has(l2, x) /\ (view.max # Unlimited \/ x >= m \/ value[h[x]] \notin view.filter)
  <2>1. CASE x < q
    <3>1. \/ view.replaced
          \/ h[x] \in Unexamined
          \/ Has(l, x) /\ value[h[x]] \in view.filter
          \/ ~Has(l, x) /\ (view.max # Unlimited \/ value[h[x]] \notin view.filter)
      BY <1>3, <1>6, <1>7, <1>9, <1>10, <2>1 DEF InLine, Exact, Skipping, FillingOK
    <3>2. x \in 0..q /\ x # q
      BY <2>1
    <3>3. Has(l2, x) => Has(l, x)
      BY <1>10, <1>23, <2>1, <3>2 DEF Added
    <3>4. view.max = Unlimited /\ ~Has(l2, x) => ~Has(l, x)
      BY <1>10, <1>23, <2>1, <3>2 DEF Added
    <3> QED
      BY <3>1, <3>3, <3>4
  <2>2. CASE x = q
    <3>1. g[q] = h[x]
      BY <1>8, <1>16, <2>2
    <3> QED
      BY <1>23, <2>2, <3>1 DEF Added
  <2>3. CASE x > q
    <3>1. ~Has(l2, x)
      <4>1. \A i \in 1..Len(l2) : l2[i] \in 0..(m - 1)
        BY <1>23, MappingFacts
      <4> QED
        BY <1>8, <2>3, <4>1 DEF Has
    <3> QED
      BY <1>8, <2>3, <3>1
  <2> QED
    BY <1>7, <2>1, <2>2, <2>3
<1>28. Exact(w.view, lp, n, h, value, Unexamined)
  BY <1>22, <1>23, <1>26, <1>27 DEF Exact, Skipping
<1>29. LoopOK(w.view, lp, n, h, value)
  <2>1. \A i \in 1..Len(l2) : l2[i] < m
    BY <1>23 DEF Mapping
  <2>2. FillingOK(w.view, lp, n)
    BY <1>8, <1>22, <1>23, <1>26, <2>1 DEF FillingOK
  <2> QED
    BY <1>26, <2>2 DEF LoopOK
<1>30. Consistent([view |-> w.view, res |-> w.res], n, h, value, Unexamined)
  BY <1>24, ConsistentBoth
<1>31. InLine(w.view, w.res, lp, n, h, value, Unexamined)
  BY <1>23, <1>28, <1>29, <1>30 DEF InLine
<1>32. /\ loop' \in LoopType /\ loop'.kind # "sorting"
       /\ InLine(view', res', loop', Len(entries), HoldersOf(entries), value, Unexamined)
  BY <1>3, <1>4, <1>5, <1>25, <1>26, <1>31
<1> QED
  BY <1>3, <1>32, Flags, ReachedSame

\* readContacts() clears m_lastChange for what the client reads.
LEMMA ReadInv ==
    ASSUME IInv, NEW id \in Contacts, ReadContacts(id)
    PROVE  IInv'
<1>1. PICK f : f = flushChanges(res)
  OBVIOUS
<1>2. PICK l : l = view.local2parent
  OBVIOUS
<1>3. PICK last : last = IF \E i \in DOMAIN l : entries[l[i] + 1].id = id /\ Covers(f.last, i - 1)
                         THEN NoChange ELSE f.last
  OBVIOUS
<1>4. PICK agent : agent = [i \in DOMAIN f.agent |-> IF i \in DOMAIN l /\ entries[l[i] + 1].id = id
                                                     THEN [id |-> f.agent[i].id, data |-> value[id]]
                                                     ELSE f.agent[i]]
  OBVIOUS
<1>5. /\ loop.kind \in Plain /\ loop.kind # "sorting" /\ view.open /\ view' = view /\ loop' = loop
      /\ res' = Resource(f.pending, last, agent, f.misled)
      /\ UNCHANGED <<entries, value, order, modifications, notify, idle, quiescent, undefined, stimuli>>
  BY <1>1, <1>2, <1>3, <1>4 DEF ReadContacts, MainLoop, Plain
<1>6. PICK n \in Nat : n = Len(entries)
  BY StateFacts
<1>7. PICK h \in Holders(n) : h = HoldersOf(entries) /\ \A x \in 0..(n - 1) : h[x] = entries[x + 1].id
  BY <1>6, StateFacts
<1>8. InLine(view, res, loop, n, h, value, Unexamined)
  BY <1>5, <1>6, <1>7, StateFacts
<1>9. Mapping(l, n) /\ Follows(res, Names(h, l), value, Unexamined) /\ view \in ViewType
  BY <1>2, <1>8 DEF InLine, Consistent
<1>10. PICK q \in Seq(Contacts) : q = Names(h, l)
  BY <1>9, NamesType
<1>11. DOMAIN l = 1..Len(q) /\ \A i \in 1..Len(q) : q[i] = entries[l[i] + 1].id
  <2>1. Len(q) = Len(l) /\ \A i \in 1..Len(l) : q[i] = h[l[i]]
    BY <1>9, <1>10, NamesType
  <2>2. DOMAIN l = 1..Len(l) /\ \A i \in 1..Len(l) : l[i] \in 0..(n - 1)
    BY <1>9, MappingFacts
  <2> QED
    BY <1>7, <2>1, <2>2
<1>12. last = IF \E i \in 1..Len(q) : q[i] = id /\ Covers(f.last, i - 1) THEN NoChange ELSE f.last
  BY <1>3, <1>11
<1>13. agent = [i \in DOMAIN f.agent |-> IF i \in 1..Len(q) /\ q[i] = id
                                         THEN [id |-> f.agent[i].id, data |-> value[id]]
                                         ELSE f.agent[i]]
  <2>1. \A i : (i \in DOMAIN l /\ entries[l[i] + 1].id = id) <=> (i \in 1..Len(q) /\ q[i] = id)
    BY <1>11
  <2> QED
    BY <1>4, <2>1
<1>14. value \in [Contacts -> Values]
  BY StateFacts
<1>15. Follows(res, q, value, Unexamined)
  BY <1>9, <1>10
<1>16. PICK r : r = Resource(f.pending, last, agent, f.misled)
  OBVIOUS
<1>17. Follows(r, q, value, Unexamined)
  BY <1>1, <1>12, <1>13, <1>14, <1>15, <1>16, FollowsRead
<1>18. Consistent([view |-> view, res |-> r], n, h, value, Unexamined)
  BY <1>2, <1>9, <1>10, <1>17 DEF Consistent
<1>19. InLine(view, r, loop, n, h, value, Unexamined)
  BY <1>5, <1>8, <1>18 DEF InLine
<1>20. /\ loop' \in LoopType /\ loop'.kind # "sorting"
       /\ InLine(view', res', loop', Len(entries), HoldersOf(entries), value, Unexamined)
  BY <1>5, <1>6, <1>7, <1>16, <1>19, StateFacts
<1> QED
  BY <1>5, <1>20, Flags, ReachedSame

\* setCompare(): the view does not know about the new order yet.
LEMMA SortInv ==
    ASSUME IInv, NEW new \in {"up", "down"}, NEW perm \in Bijection(DOMAIN entries, DOMAIN entries),
           SetSortOrder(new, perm)
    PROVE  IInv'
<1>1. /\ loop.kind \in Plain /\ loop.kind # "sorting" /\ order' = new /\ stimuli' = stimuli + 1
      /\ entries' = [i \in DOMAIN entries |-> Entry(value, entries[perm[i]].id)]
      /\ Sorted(order', entries')
      /\ loop' = IF view.open THEN [Loop("sorting", 0) EXCEPT !.old = IDs(entries)] ELSE NoLoop
      /\ UNCHANGED <<value, modifications, notify, idle, quiescent, view, res, undefined>>
  BY DEF SetSortOrder, Happens, MainLoop, Plain
<1>2. PICK n \in Nat : n = Len(entries) /\ DOMAIN entries = 1..n
  BY StateFacts, EntryFacts
<1>3. entries \in Seq(EntryType) /\ FullOK(entries, order) /\ value \in [Contacts -> Values] /\ loop \in LoopType
  BY StateFacts
<1>4. PICK e2 : e2 = [i \in 1..n |-> Entry(value, entries[perm[i]].id)]
  OBVIOUS
<1>5. entries' = e2
  BY <1>1, <1>2, <1>4
<1>6. perm \in Bijection(1..n, 1..n) /\ Sorted(new, e2)
  BY <1>1, <1>2, <1>5
<1>7. /\ FullOK(e2, new) /\ Len(e2) = n
      /\ \A i \in 1..n : e2[i].id = entries[perm[i]].id /\ perm[i] \in 1..n
  <2>1. Reordered(e2, entries, new, perm, n)
    BY <1>2, <1>3, <1>4, <1>6, FullViewReorder
  <2> QED
    BY <2>1 DEF Reordered
<1>8. e2 \in Seq(EntryType)
  BY <1>7 DEF FullOK
<1>9. \A c \in Present : c \in Present'
  <2>1. \A c : c \in Present' <=> \E i \in 1..n : e2[i].id = c
    BY <1>5, <1>7, <1>8, PresentFacts DEF Present
  <2>2. \A c : c \in Present <=> \E i \in 1..n : entries[i].id = c
    BY <1>2, <1>3, PresentFacts DEF Present
  <2>3. \A j \in 1..n : \E i \in 1..n : perm[i] = j
    BY <1>6 DEF Bijection, Surjection
  <2>4. ASSUME NEW j \in 1..n
        PROVE  \E i \in 1..n : e2[i].id = entries[j].id
    <3>1. PICK i \in 1..n : perm[i] = j
      BY <2>3
    <3>2. e2[i].id = entries[perm[i]].id
      BY <1>7
    <3> QED
      BY <3>1, <3>2
  <2> QED
    BY <2>1, <2>2, <2>4
<1>10. FullOK(entries, order)'
  BY <1>1, <1>5, <1>7
<1>11. PICK h \in Holders(n) : h = HoldersOf(entries) /\ \A x \in 0..(n - 1) : h[x] = entries[x + 1].id
  BY <1>2, StateFacts
<1>12. InLine(view, res, loop, n, h, value, Unexamined)
  BY <1>1, <1>2, <1>11, StateFacts
<1>13. CASE view.open
  <2>1. PICK lp : lp = [Loop("sorting", 0) EXCEPT !.old = IDs(entries)]
    OBVIOUS
  <2>2. /\ IDs(entries) \in Seq(Contacts) /\ Len(IDs(entries)) = n
        /\ \A i \in 1..n : IDs(entries)[i] = entries[i].id
    <3>1. IDs(entries) = [i \in 1..n |-> entries[i].id]
      BY <1>2 DEF IDs
    <3>2. \A i \in 1..n : entries[i].id \in Contacts
      BY <1>2, <1>3, EntryFacts
    <3>3. IDs(entries) \in [1..n -> Contacts]
      BY <3>1, <3>2
    <3> QED
      BY <3>1, <3>3, FunctionIsSeq
  <2>3. lp \in LoopType /\ lp.kind = "sorting" /\ lp.next = 0 /\ lp.old = IDs(entries)
    <3>1. Loop("sorting", 0) \in LoopType
      BY LoopIsTyped
    <3>2. Loop("sorting", 0).kind = "sorting" /\ Loop("sorting", 0).next = 0
      BY DEF Loop
    <3> QED
      BY <2>1, <2>2, <3>1, <3>2 DEF LoopType
  <2>4. loop' = lp
    BY <1>1, <1>13, <2>1
  <2>5. Held(lp, e2) = h
    <3>1. Held(lp, e2) \in Holders(n)
      BY <1>7, <1>8, <2>2, <2>3, HeldType
    <3>2. ASSUME NEW x \in 0..(n - 1)
          PROVE  Held(lp, e2)[x] = h[x]
      <4>1. Held(lp, e2)[x] = lp.old[x + 1]
        BY <1>7, <2>3 DEF Held
      <4>2. x + 1 \in 1..n
        OBVIOUS
      <4> QED
        BY <1>11, <2>2, <2>3, <4>1, <4>2
    <3> QED
      BY <3>1, <3>2 DEF Holders
  <2>6. Exact(view, lp, n, h, value, Unexamined)
    BY <1>1, <1>12, <2>3 DEF InLine, Exact, Skipping, Plain
  <2>7. LoopOK(view, lp, n, h, value)
    BY <1>13, <2>2, <2>3 DEF LoopOK, SortingOK
  <2>8. InLine(view, res, lp, n, h, value, Unexamined)
    BY <1>12, <2>6, <2>7 DEF InLine
  <2>9. InLine(view, res, loop, Len(entries), Held(loop, entries), value, Unexamined)'
    <3>1. Unexamined' = Unexamined
      BY <1>1, SameUnexamined
    <3> QED
      BY <1>1, <1>5, <1>7, <2>4, <2>5, <2>8, <3>1
  <2>10. FullTypes'
    BY <1>1, <1>9, <2>3, <2>4 DEF IInv, FullTypes
  <2> QED
    BY <1>10, <2>9, <2>10 DEF IInv
<1>14. CASE ~view.open
  <2>1. view' = NoView /\ res' = NoResource
    BY <1>1, <1>14, StateFacts
  <2>2. loop' \in LoopType /\ loop'.kind \in Plain
    BY <1>1, <1>14, PlainLoop DEF NoLoop, Plain
  <2>3. FullTypes'
    BY <1>1, <1>9, <2>2 DEF IInv, FullTypes
  <2> QED
    BY <1>10, <2>1, <2>2, <2>3, ReachedClosed
<1> QED
  BY <1>13, <1>14

\* One index of the old and the new order is compared.
LEMMA CompareInv ==
    ASSUME IInv, compareOld
    PROVE  IInv'
<1>1. PICK w0 : w0 = [view |-> view, res |-> res]
  OBVIOUS
<1>2. PICK w : w = IF entries[loop.next + 1].id # loop.old[loop.next + 1]
                   THEN ModifyInView(entries, value, w0, loop.next) ELSE w0
  OBVIOUS
<1>3. /\ loop.kind = "sorting" /\ loop.next < Len(entries)
      /\ view' = w.view /\ res' = w.res /\ loop' = [loop EXCEPT !.next = @ + 1]
      /\ UNCHANGED <<entries, value, order, modifications, notify, idle, quiescent, undefined, stimuli>>
  BY <1>1, <1>2 DEF compareOld, Both
<1>4. PICK n \in Nat : n = Len(entries)
  BY StateFacts
<1>5. loop \in LoopType /\ entries \in Seq(EntryType)
  BY StateFacts
<1>6. PICK p \in Nat : p = loop.next /\ p < n /\ p \in 0..(n - 1)
  BY <1>3, <1>4, <1>5 DEF LoopType
<1>7. PICK lp : lp = loop'
  OBVIOUS
<1>8. lp \in LoopType /\ lp.kind = "sorting" /\ lp.next = p + 1 /\ lp.old = loop.old
  BY <1>3, <1>5, <1>6, <1>7 DEF LoopType
<1>9. PICK h \in Holders(n) : h = Held(loop, entries)
  BY <1>4, StateFacts
<1>10. InLine(view, res, loop, n, h, value, Unexamined)
  BY <1>4, <1>9, StateFacts
<1>11. SortingOK(view, loop, n)
  BY <1>3, <1>10 DEF InLine, LoopOK
<1>12. Len(loop.old) = n
  BY <1>11 DEF SortingOK
<1>13. PICK g \in Holders(n) : g = Held(lp, entries)
  BY <1>4, <1>5, <1>8, <1>12, HeldType
<1>14. \A x \in 0..(n - 1) : h[x] = IF x >= p THEN loop.old[x + 1] ELSE entries[x + 1].id
  BY <1>3, <1>4, <1>6, <1>9 DEF Held
<1>15. \A x \in 0..(n - 1) : g[x] = IF x >= p + 1 THEN loop.old[x + 1] ELSE entries[x + 1].id
  BY <1>4, <1>8, <1>13 DEF Held
<1>16. SameBut(h, g, n, p)
  <2>1. ASSUME NEW x \in 0..(n - 1), x # p
        PROVE  g[x] = h[x]
    <3>1. x >= p <=> x >= p + 1
      BY <2>1
    <3> QED
      BY <1>14, <1>15, <3>1
  <2> QED
    BY <2>1 DEF SameBut
<1>17. g[p] = entries[p + 1].id /\ h[p] = loop.old[p + 1]
  <2>1. ~(p >= p + 1) /\ p >= p
    OBVIOUS
  <2> QED
    BY <1>6, <1>14, <1>15, <2>1
<1>18. Consistent(w0, n, h, value, Unexamined) /\ w0.view = view
  BY <1>1, <1>10 DEF InLine
\* what has to be shown in both cases
<1>19. ASSUME Consistent(w, n, g, value, Unexamined), SameSearch(w.view, view),
              \A x \in 0..(n - 1) :
                 \/ view.replaced
                 \/ g[x] \in Unexamined
                 \/ Has(w.view.local2parent, x) /\ value[g[x]] \in view.filter
                 \/ /\ ~Has(w.view.local2parent, x)
                    /\ view.max # Unlimited \/ value[g[x]] \notin view.filter
       PROVE  IInv'
  <2>1. w.view.open /\ w.view.filter = view.filter /\ w.view.max = view.max
        /\ w.view.replaced = view.replaced
    BY <1>11, <1>19 DEF SameSearch, SortingOK
  <2>2. Exact(w.view, lp, n, g, value, Unexamined)
    BY <1>8, <1>19, <2>1 DEF Exact, Skipping
  <2>3. LoopOK(w.view, lp, n, g, value)
    BY <1>6, <1>8, <1>12, <2>1 DEF LoopOK, SortingOK
  <2>4. Consistent([view |-> w.view, res |-> w.res], n, g, value, Unexamined)
    BY <1>19, ConsistentBoth
  <2>5. InLine(w.view, w.res, lp, n, g, value, Unexamined)
    BY <2>1, <2>2, <2>3, <2>4 DEF InLine
  <2>6. InLine(view, res, loop, Len(entries), Held(loop, entries), value, Unexamined)'
    <3>1. Unexamined' = Unexamined
      BY <1>3, SameUnexamined
    <3> QED
      BY <1>3, <1>4, <1>7, <1>13, <2>5, <3>1
  <2>7. FullTypes'
    BY <1>3, <1>7, <1>8 DEF IInv, FullTypes, Present
  <2>8. FullOK(entries, order)'
    BY <1>3 DEF IInv
  <2> QED
    BY <2>6, <2>7, <2>8 DEF IInv
<1>20. ASSUME NEW x \in 0..(n - 1)
       PROVE  \/ view.replaced
              \/ h[x] \in Unexamined
              \/ Has(view.local2parent, x) /\ value[h[x]] \in view.filter
              \/ ~Has(view.local2parent, x) /\ (view.max # Unlimited \/ value[h[x]] \notin view.filter)
  BY <1>3, <1>10, <1>11 DEF InLine, Exact, Skipping, SortingOK
<1>21. CASE entries[p + 1].id # loop.old[p + 1]
  <2>1. w = ModifyInView(entries, value, w0, p)
    BY <1>2, <1>6, <1>21
  <2>2. SparedAll(h, n, p, Unexamined, Unexamined)
    BY DEF SparedAll
  <2>3. ModifyResult(w, w0, p, n, g, value, Unexamined)
    BY <1>6, <1>16, <1>17, <1>18, <2>1, <2>2, ModifyKeeps
  <2>4. PICK l2 : l2 = w.view.local2parent
    OBVIOUS
  <2>5. /\ Consistent(w, n, g, value, Unexamined) /\ SameSearch(w.view, view)
        /\ Rechecked(l2, view, p, value[g[p]] \in view.filter)
    BY <1>18, <2>3, <2>4 DEF ModifyResult
  <2>6. ASSUME NEW x \in 0..(n - 1)
        PROVE  \/ view.replaced
               \/ g[x] \in Unexamined
               \/ Has(l2, x) /\ value[g[x]] \in view.filter
               \/ ~Has(l2, x) /\ (view.max # Unlimited \/ value[g[x]] \notin view.filter)
    <3>1. CASE x = p
      BY <2>5, <3>1 DEF Rechecked
    <3>2. CASE x # p
      <4>1. g[x] = h[x] /\ (Has(l2, x) <=> Has(view.local2parent, x))
        BY <1>16, <2>5, <3>2 DEF SameBut, Rechecked
      <4> QED
        BY <1>20, <4>1
    <3> QED
      BY <3>1, <3>2
  <2> QED
    BY <1>19, <2>4, <2>5, <2>6
<1>22. CASE entries[p + 1].id = loop.old[p + 1]
  <2>1. w = w0
    BY <1>2, <1>6, <1>22
  <2>2. g = h
    <3>1. \A x \in 0..(n - 1) : g[x] = h[x]
      BY <1>16, <1>17, <1>22 DEF SameBut
    <3> QED
      BY <3>1 DEF Holders
  <2>3. Consistent(w, n, g, value, Unexamined) /\ SameSearch(w.view, view) /\ w.view = view
    BY <1>18, <2>1, <2>2 DEF SameSearch
  <2> QED
    BY <1>19, <1>20, <2>2, <2>3
<1> QED
  BY <1>21, <1>22

\* Nothing is said of a client that was misled.
LEMMA MisledInLine ==
    ASSUME NEW v, v.open, NEW r, NEW lp, NEW n, NEW h, NEW val, NEW mods, InLine(v, r, lp, n, h, val, mods),
           NEW r2, r2.misled = TRUE
    PROVE  InLine(v, r2, lp, n, h, val, mods)
<1>1. Consistent([view |-> v, res |-> r2], n, h, val, mods)
  BY DEF InLine, Consistent, Follows
<1> QED
  BY <1>1 DEF InLine

\* The matching entries in ascending order are a mapping.
LEMMA AscendingMapping ==
    ASSUME NEW n \in Nat, NEW S, S \subseteq 0..(n - 1), NEW q \in Ascending(S)
    PROVE  Mapping(q, n) /\ \A p : Has(q, p) <=> p \in S
<1>1. PICK k \in Nat : k = Cardinality(S)
  <2>1. IsFiniteSet(0..(n - 1))
    BY FS_Interval
  <2>2. IsFiniteSet(S)
    BY <2>1, FS_Subset
  <2> QED
    BY <2>2, FS_CardinalityType
<1>2. q \in [1..k -> S] /\ (\A p \in S : \E i \in 1..k : q[i] = p) /\ \A i, j \in 1..k : i < j => q[i] < q[j]
  BY <1>1 DEF Ascending
<1>3. S \subseteq Int
  OBVIOUS
<1>4. q \in [1..k -> Int]
  BY <1>2, <1>3
<1>5. q \in Seq(Int) /\ Len(q) = k
  BY <1>4, FunctionIsSeq
<1>6. \A i \in 1..k : q[i] \in 0..(n - 1)
  BY <1>2
<1>7. Mapping(q, n)
  BY <1>2, <1>5, <1>6 DEF Mapping, Increasing
<1>8. \A p : Has(q, p) <=> p \in S
  BY <1>2, <1>5 DEF Has
<1> QED
  BY <1>7, <1>8

\* The first elements of a mapping are a mapping.
LEMMA TakeMapping ==
    ASSUME NEW n \in Nat, NEW q, Mapping(q, n), NEW k \in Nat
    PROVE  Mapping(Take(q, k), n) /\ \A p : Has(Take(q, k), p) => Has(q, p)
<1>1. q \in Seq(Int) /\ Len(q) \in Nat
  BY MappingFacts
<1>2. PICK m \in Nat : m = (IF k < Len(q) THEN k ELSE Len(q)) /\ m <= Len(q)
  BY <1>1
<1>3. PICK t : t = Take(q, k)
  OBVIOUS
<1>4. t = SubSeq(q, 1, m)
  BY <1>2, <1>3 DEF Take
<1>5. t \in Seq(Int) /\ Len(t) = m /\ \A i \in 1..m : t[i] = q[i] /\ i \in 1..Len(q)
  BY <1>1, <1>2, <1>4, SubSeqProperties
<1>6. Mapping(t, n)
  <2>1. \A i, j \in 1..m : i < j => t[i] < t[j]
    BY <1>5, MappingFacts
  <2>2. \A i \in 1..m : 0 <= t[i] /\ t[i] < n
    BY <1>5 DEF Mapping
  <2> QED
    BY <1>5, <2>1, <2>2 DEF Mapping, Increasing
<1>7. \A p : Has(t, p) => Has(q, p)
  BY <1>5 DEF Has
<1> QED
  BY <1>3, <1>6, <1>7

\* The mapping of replaceFilter() for the filter: all matching entries, up to the limit.
LEMMA ReplacedExact ==
    ASSUME NEW n \in Nat, NEW h, NEW val, NEW mods,
           NEW S, S \subseteq 0..(n - 1), NEW q \in Ascending(S),
           NEW v \in ViewType, v.local2parent = (IF v.max = Unlimited THEN q ELSE Take(q, v.max)),
           \A p \in 0..(n - 1) : p \in S <=> val[h[p]] \in v.filter
    PROVE  Mapping(v.local2parent, n) /\ PlainExact(v, n, h, val, mods)
<1>1. Mapping(q, n) /\ \A p : Has(q, p) <=> p \in S
  BY AscendingMapping
<1>2. CASE v.max = Unlimited
  <2>1. v.local2parent = q
    BY <1>2
  <2> QED
    BY <1>1, <2>1 DEF PlainExact
<1>3. CASE v.max # Unlimited
  <2>1. PICK k \in Nat : k = v.max
    BY <1>3, ViewFields, ConstantsAssumption
  <2>2. v.local2parent = Take(q, k)
    BY <1>3, <2>1
  <2>3. Mapping(Take(q, k), n) /\ \A p : Has(Take(q, k), p) => Has(q, p)
    BY <1>1, TakeMapping
  <2> QED
    BY <1>1, <1>3, <2>2, <2>3 DEF PlainExact
<1> QED
  BY <1>2, <1>3

\* replaceFilter() with any filter has an ascending mapping, which is that of m_filter
\* only if the filter is the same; its signals are not relied upon.
LEMMA ReplaceInv ==
    ASSUME IInv, NEW filter \in Filters, ReplaceSearch(filter)
    PROVE  IInv'
<1>1. PICK S : S = {p \in 0..(Len(entries) - 1) : Matches(value, filter, entries[p + 1])}
  OBVIOUS
<1>2. /\ loop.kind \in Plain /\ loop.kind # "sorting" /\ view.open /\ stimuli' = stimuli + 1
      /\ UNCHANGED <<entries, value, order, modifications, notify, idle, quiescent>>
  BY DEF ReplaceSearch, Happens, MainLoop, Plain
<1>3. PICK n \in Nat : n = Len(entries)
  BY StateFacts
<1>4. PICK h \in Holders(n) : h = HoldersOf(entries) /\ \A x \in 0..(n - 1) : h[x] = entries[x + 1].id
  BY <1>3, StateFacts
<1>5. InLine(view, res, loop, n, h, value, Unexamined)
  BY <1>2, <1>3, <1>4, StateFacts
<1>6. \/ view' = view /\ res' = res /\ loop' = loop /\ undefined' = TRUE
      \/ \E matching \in Ascending(S) :
            LET new == IF view.max = Unlimited THEN matching ELSE Take(matching, view.max)
                v == Remapped(view, new, filter)
            IN /\ view' = v /\ loop' = Following(quiescent, v) /\ undefined' = undefined
               /\ \E r : res' = Resource(r.pending, r.last, r.agent, TRUE)
  BY <1>1 DEF ReplaceSearch
<1>7. CASE view' = view /\ res' = res /\ loop' = loop /\ undefined' = TRUE
  <2>1. /\ loop' \in LoopType /\ loop'.kind # "sorting"
        /\ InLine(view', res', loop', Len(entries), HoldersOf(entries), value, Unexamined)
    BY <1>2, <1>3, <1>4, <1>5, <1>7, StateFacts
  <2> QED
    BY <1>2, <1>7, <2>1, Flags, ReachedSame
<1>8. ASSUME NEW matching \in Ascending(S), NEW new, NEW v, NEW r,
             new = (IF view.max = Unlimited THEN matching ELSE Take(matching, view.max)),
             v = Remapped(view, new, filter),
             view' = v, loop' = Following(quiescent, v), undefined' = undefined,
             res' = Resource(r.pending, r.last, r.agent, TRUE)
      PROVE  IInv'
  <2>1. S \subseteq 0..(n - 1)
    BY <1>1, <1>3
  <2>2. Mapping(new, n)
    <3>1. Mapping(matching, n)
      BY <2>1, AscendingMapping
    <3>2. CASE view.max # Unlimited
      <4>1. PICK k \in Nat : k = view.max
        BY <3>2, StateFacts, ViewFields, ConstantsAssumption
      <4> QED
        BY <1>8, <3>1, <3>2, <4>1, TakeMapping
    <3> QED
      BY <1>8, <3>1, <3>2
  <2>3. /\ v \in ViewType /\ v.open /\ v.local2parent = new /\ v.max = view.max /\ v.filter = view.filter
        /\ filter # view.filter => v.replaced
    <3>1. new \in Seq(Int)
      BY <2>2 DEF Mapping
    <3>2. PICK b \in BOOLEAN : b = (filter # view.filter)
      OBVIOUS
    <3>3. v = [view EXCEPT !.local2parent = new, !.replaced = b]
      BY <1>8, <3>2 DEF Remapped
    <3> QED
      BY <1>2, <3>1, <3>2, <3>3, StateFacts DEF ViewType
  <2>4. filter = view.filter => \A p \in 0..(n - 1) : p \in S <=> value[h[p]] \in v.filter
    BY <1>1, <1>3, <1>4, <2>3 DEF Matches
  <2>5. PlainExact(v, n, h, value, Unexamined)
    <3>1. v.local2parent = IF v.max = Unlimited THEN matching ELSE Take(matching, v.max)
      BY <1>8, <2>3
    <3>2. CASE filter = view.filter
      <4>1. v \in ViewType /\ \A p \in 0..(n - 1) : p \in S <=> value[h[p]] \in v.filter
        BY <2>3, <2>4, <3>2
      <4> QED
        BY <2>1, <3>1, <4>1, ReplacedExact
    <3>3. CASE filter # view.filter
      BY <2>3, <3>3 DEF PlainExact
    <3> QED
      BY <3>2, <3>3
  <2>6. PICK r2 : r2 = res'
    OBVIOUS
  <2>7. r2.misled = TRUE
    BY <1>8, <2>6 DEF Resource
  <2>8. Consistent([view |-> v, res |-> r2], n, h, value, Unexamined)
    BY <2>2, <2>3, <2>7 DEF Consistent, Follows
  <2>9. InLine(v, r2, loop, n, h, value, Unexamined)
    BY <1>2, <2>3, <2>5, <2>8, OpenPlain
  <2>10. quiescent \in BOOLEAN
    BY Flags
  <2>11. /\ Following(quiescent, v) \in LoopType /\ Following(quiescent, v).kind # "sorting"
         /\ InLine(v, Forwarded(quiescent, v, r2), Following(quiescent, v), n, h, value, Unexamined)
    BY <1>2, <2>9, <2>10, SignalInLine
  <2>12. InLine(v, r2, Following(quiescent, v), n, h, value, Unexamined)
    BY <2>3, <2>7, <2>11, MisledInLine
  <2>13. /\ loop' \in LoopType /\ loop'.kind # "sorting"
         /\ InLine(view', res', loop', Len(entries), HoldersOf(entries), value, Unexamined)
    BY <1>3, <1>4, <1>8, <2>6, <2>11, <2>12
  <2> QED
    BY <1>2, <1>8, <2>13, Flags, ReachedSame
<1> QED
  BY <1>6, <1>7, <1>8

\* The initial states satisfy the invariant.
LEMMA InitInv ==
    ASSUME Init
    PROVE  IInv
<1>0. PICK n \in 0..MaxStart : \E ids \in Injection(1..n, Contacts) :
          entries = [i \in DOMAIN ids |-> Entry(value, ids[i])]
  BY DEF Init
<1>1. PICK ids \in Injection(1..n, Contacts) : entries = [i \in DOMAIN ids |-> Entry(value, ids[i])]
  BY <1>0
<1>2. /\ value \in [Contacts -> Values] /\ order = "up" /\ Sorted(order, entries)
      /\ modifications = {} /\ notify = [c \in Contacts |-> "off"]
      /\ idle = FALSE /\ quiescent \in BOOLEAN
      /\ view = NoView /\ res = NoResource /\ loop = Loop("none", 0)
      /\ undefined = FALSE /\ stimuli = 0
  BY DEF Init, NoLoop
<1>3. n \in Nat
  BY ConstantsAssumption
<1>4. ids \in [1..n -> Contacts] /\ \A i, j \in 1..n : ids[i] = ids[j] => i = j
  BY <1>1 DEF Injection, IsInjective
<1>5. \A i \in 1..n : Entry(value, ids[i]) \in EntryType /\ Entry(value, ids[i]).id = ids[i]
  BY <1>2, <1>4 DEF Entry, EntryType
<1>6. /\ entries \in [1..n -> EntryType]
      /\ \A i \in 1..n : entries[i].id = ids[i]
  BY <1>1, <1>4, <1>5
<1>7. entries \in Seq(EntryType) /\ Len(entries) = n /\ DOMAIN entries = 1..n
  BY <1>3, <1>6, FunctionIsSeq
<1>8. FullOK(entries, order)
  <2>1. \A i, j \in 1..n : entries[i].id = entries[j].id => i = j
    BY <1>4, <1>6
  <2>2. \A i, j \in 1..n : i < j => ~Less(order, entries[j].criteria, entries[i].criteria)
    BY <1>2, <1>7 DEF Sorted
  <2> QED
    BY <1>7, <2>1, <2>2 DEF FullOK
<1>9. loop \in LoopType /\ loop.kind \in Plain
  BY <1>2, PlainLoop DEF Plain
<1>10. FullTypes
  BY <1>2, <1>9 DEF FullTypes, Notify
<1>11. InLine(view, res, loop, Len(entries), Held(loop, entries), value, Unexamined)
  BY <1>2, <1>9, ClosedInLine
<1> QED
  BY <1>8, <1>10, <1>11 DEF IInv

\* Every step keeps the invariant.
LEMMA StepInv ==
    ASSUME IInv, [Next]_vars
    PROVE  IInv'
<1>1. CASE Next
  <2>1. CASE individualsChanged
    BY <2>1, ChangedInv
  <2>2. CASE \E id \in Contacts : removeIndividual(id)
    BY <2>2, RemoveInv
  <2>3. CASE \E id \in Contacts, v \in Values : addIndividual(id, v)
    BY <2>3, AddInv
  <2>4. CASE \E id \in Contacts, v \in Values : individualModified(id, v)
    BY <2>4, ModifiedInv
  <2>5. CASE changesDone
    BY <2>5, ChangesDoneInv
  <2>6. CASE \E id \in Contacts : modifyIndividual(id)
    BY <2>6, ModifyInv
  <2>7. CASE onIdle
    BY <2>7, OnIdleInv
  <2>8. CASE quiescenceChanged
    BY <2>8, QuiescenceInv
  <2>9. CASE fillViewOnIdle
    BY <2>9, FillOnIdleInv
  <2>10. CASE fillView
    BY <2>10, FillInv
  <2>11. CASE fillViewDone
    BY <2>11, FillDoneInv
  <2>12. CASE \E filter \in Filters, max \in Limits : Search(filter, max)
    BY <2>12, SearchInv
  <2>13. CASE Close
    BY <2>13, CloseInv
  <2>14. CASE \E filter \in Filters : RefineSearch(filter)
    BY <2>14, RefineSearchInv
  <2>15. CASE \E filter \in Filters : ReplaceSearch(filter)
    BY <2>15, ReplaceInv
  <2>16. CASE refine
    BY <2>16, RefineInv
  <2>17. CASE refineDone
    BY <2>17, RefineDoneInv
  <2>18. CASE \E id \in Contacts : ReadContacts(id)
    BY <2>18, ReadInv
  <2>19. CASE \E new \in {"up", "down"}, perm \in Bijection(DOMAIN entries, DOMAIN entries) :
                 SetSortOrder(new, perm)
    BY <2>19, SortInv
  <2>20. CASE compareOld
    BY <2>20, CompareInv
  <2>21. CASE sortDone
    BY <2>21, SortDoneInv
  <2>22. CASE \E id \in Contacts, v \in Values : unseenModification(id, v)
    BY <2>22, UnseenInv
  <2> QED
    BY <1>1, <2>1, <2>2, <2>3, <2>4, <2>5, <2>6, <2>7, <2>8, <2>9, <2>10, <2>11, <2>12, <2>13,
       <2>14, <2>15, <2>16, <2>17, <2>18, <2>19, <2>20, <2>21, <2>22 DEF Next
<1>2. CASE UNCHANGED vars
  BY <1>2 DEF vars, IInv, FullTypes, Present, Unexamined
<1> QED
  BY <1>1, <1>2

(***************************************************************************)
(* Nothing is left behind.                                                 *)
(***************************************************************************)
\* While folks is quiescent and no onIdle() is due, nothing is pending in the
\* main loop or in individualsChanged(), and fillViewCb() forwards the signal.
Quiet ==
    /\ loop.kind = "examining" => idle
    /\ view.open /\ quiescent /\ ~idle =>
         /\ loop.kind \in {"none", "removing", "adding"} => ~view.fill /\ res.pending.ids = <<>>
         /\ loop.kind = "filling" => loop.flush

\* Nothing is pending after flushChanges().
LEMMA FlushedEmpty ==
    ASSUME NEW r
    PROVE  flushChanges(r).pending.ids = <<>>
<1>1. CASE r.pending.ids = <<>>
  BY <1>1 DEF flushChanges
<1>2. CASE r.pending.ids # <<>>
  BY <1>2, NoChangeType DEF flushChanges, Resource
<1> QED
  BY <1>1, <1>2

\* After m_quiescenceSignal nothing is left behind, or fillViewCb() will see to it.
LEMMA SignalQuiet ==
    ASSUME NEW q, NEW v, NEW r, view' = v, res'.pending = Forwarded(q, v, r).pending, loop' = Following(q, v),
           q = quiescent'
    PROVE  Quiet'
<1>1. /\ Filling(v, TRUE).kind = "filling" /\ Filling(v, TRUE).flush
      /\ NoLoop.kind = "none"
  BY DEF Filling, NoLoop, Loop
<1>2. CASE q /\ v.open /\ v.fill
  <2>1. loop' = Filling(v, TRUE)
    BY <1>2 DEF Following
  <2> QED
    BY <1>1, <2>1 DEF Quiet
<1>3. CASE q /\ v.open /\ ~v.fill
  <2>1. loop' = NoLoop /\ res'.pending.ids = <<>>
    BY <1>3, FlushedEmpty DEF Following, Forwarded
  <2> QED
    BY <1>1, <1>3, <2>1 DEF Quiet
<1>4. CASE ~(q /\ v.open)
  <2>1. loop' = NoLoop
    BY <1>4 DEF Following
  <2> QED
    BY <1>1, <1>4, <2>1 DEF Quiet
<1> QED
  BY <1>2, <1>3, <1>4

\* Which callback it is.
LEMMA LoopKind ==
    \A next : /\ Loop("none", next).kind = "none" /\ Loop("removing", next).kind = "removing"
              /\ Loop("adding", next).kind = "adding" /\ Loop("examining", next).kind = "examining"
              /\ NoLoop.kind = "none"
  BY DEF NoLoop, Loop

\* Every step keeps Quiet.
LEMMA StepQuiet ==
    ASSUME IInv, Quiet, [Next]_vars
    PROVE  Quiet'
<1>1. CASE individualsChanged
  BY <1>1, LoopKind DEF individualsChanged, Happens, MainLoop, Quiet
<1>2. CASE \E id \in Contacts : removeIndividual(id)
  <2>1. idle' = TRUE
    BY <1>2 DEF removeIndividual
  <2> QED
    BY <2>1 DEF Quiet
<1>3. CASE \E id \in Contacts, v \in Values : addIndividual(id, v) \/ individualModified(id, v)
  <2>1. idle' = TRUE
    BY <1>3 DEF addIndividual, individualModified
  <2> QED
    BY <2>1 DEF Quiet
<1>4. CASE changesDone
  BY <1>4, LoopKind DEF changesDone, Quiet
<1>5. CASE \E id \in Contacts : modifyIndividual(id)
  <2>1. idle' = idle /\ idle
    BY <1>5 DEF modifyIndividual
  <2> QED
    BY <2>1 DEF Quiet
<1>6. CASE onIdle
  BY <1>6, SignalQuiet DEF onIdle, m_quiescenceSignal
<1>7. CASE quiescenceChanged
  BY <1>7, SignalQuiet DEF quiescenceChanged, m_quiescenceSignal
<1>8. CASE fillViewOnIdle
  <2>1. loop.kind = "none" /\ view.fill /\ loop' = Filling(view, FALSE) /\ UNCHANGED <<view, idle, quiescent>>
    BY <1>8 DEF fillViewOnIdle, MainLoop
  <2>2. loop'.kind = "filling"
    BY <2>1 DEF Filling, Loop
  <2>3. ~(view.open /\ quiescent /\ ~idle)
    BY <2>1 DEF Quiet
  <2> QED
    BY <2>1, <2>2, <2>3 DEF Quiet
<1>9. CASE fillView
  <2>1. loop.kind = "filling" /\ loop' = [loop EXCEPT !.next = @ + 1] /\ UNCHANGED <<idle, quiescent>>
    BY <1>9 DEF fillView
  <2>2. loop'.kind = "filling" /\ loop'.flush = loop.flush
    BY <2>1, StateFacts DEF LoopType
  <2>3. view.open
    BY <2>1, StateFacts DEF InLine, LoopOK, FillingOK
  <2> QED
    BY <2>1, <2>2, <2>3 DEF Quiet
<1>10. CASE fillViewDone
  <2>1. /\ loop.kind = "filling" /\ view' = [view EXCEPT !.fill = FALSE] /\ loop' = NoLoop
        /\ res' = IF loop.flush THEN flushChanges(res) ELSE res
        /\ UNCHANGED <<idle, quiescent>>
    BY <1>10 DEF fillViewDone
  <2>2. view.open
    BY <2>1, StateFacts DEF InLine, LoopOK, FillingOK
  <2>3. ~view'.fill
    BY <2>1, StateFacts DEF ViewType
  <2>4. quiescent /\ ~idle => res'.pending.ids = <<>>
    BY <2>1, <2>2, FlushedEmpty DEF Quiet
  <2> QED
    BY <2>1, <2>3, <2>4, LoopKind DEF Quiet
<1>11. CASE \E filter \in Filters, max \in Limits : Search(filter, max)
  <2>1. loop' = [Loop("filling", 0) EXCEPT !.flush = quiescent] /\ quiescent' = quiescent
    BY <1>11 DEF Search
  <2>2. loop'.kind = "filling" /\ loop'.flush = quiescent
    BY <2>1 DEF Loop
  <2> QED
    BY <2>1, <2>2 DEF Quiet
<1>12. CASE Close
  <2>1. ~view'.open /\ loop'.kind = "none"
    BY <1>12, NoViewType DEF Close, MainLoop
  <2> QED
    BY <2>1 DEF Quiet
<1>13. CASE \E filter \in Filters : RefineSearch(filter)
  <2>1. PICK filter : loop' = [Loop("refining", 0) EXCEPT !.filter = filter]
    BY <1>13 DEF RefineSearch
  <2>2. loop'.kind = "refining"
    BY <2>1 DEF Loop
  <2> QED
    BY <2>2 DEF Quiet
<1>14. CASE \E filter \in Filters : ReplaceSearch(filter)
  <2>1. /\ loop.kind = "none" /\ UNCHANGED <<idle, quiescent>>
        /\ \/ view' = view /\ res' = res /\ loop' = loop
           \/ \E v, r : LET f == Forwarded(quiescent, v, r)
                        IN /\ view' = v /\ loop' = Following(quiescent, v)
                           /\ res' = Resource(f.pending, f.last, f.agent, TRUE)
    BY <1>14, ZenonT(30) DEF ReplaceSearch, Happens, MainLoop
  <2>2. CASE view' = view /\ res' = res /\ loop' = loop
    BY <2>1, <2>2 DEF Quiet
  <2>3. ASSUME NEW v, NEW r, NEW f, f = Forwarded(quiescent, v, r),
               view' = v, loop' = Following(quiescent, v), res' = Resource(f.pending, f.last, f.agent, TRUE)
        PROVE  Quiet'
    <3>1. res'.pending = Forwarded(quiescent, v, r).pending
      BY <2>3 DEF Resource
    <3> QED
      BY <2>1, <2>3, <3>1, SignalQuiet
  <2> QED
    BY <2>1, <2>2, <2>3
<1>15. CASE refine
  <2>1. loop'.kind = "refining"
    <3>1. loop.kind = "refining" /\ (loop' = loop \/ loop' = [loop EXCEPT !.next = @ + 1])
      BY <1>15 DEF refine
    <3> QED
      BY <3>1, StateFacts DEF LoopType
  <2> QED
    BY <2>1 DEF Quiet
<1>16. CASE refineDone
  BY <1>16, SignalQuiet DEF refineDone, m_quiescenceSignal
<1>17. CASE \E id \in Contacts : ReadContacts(id)
  <2>1. /\ loop.kind = "none" /\ UNCHANGED <<loop, view, idle, quiescent>>
        /\ \E last, agent, misled : res' = Resource(flushChanges(res).pending, last, agent, misled)
    BY <1>17 DEF ReadContacts, MainLoop
  <2>2. res'.pending = flushChanges(res).pending
    BY <2>1 DEF Resource
  <2> QED
    BY <2>1, <2>2, FlushedEmpty DEF Quiet
<1>18. CASE \E new \in {"up", "down"}, perm \in Bijection(DOMAIN entries, DOMAIN entries) :
                 SetSortOrder(new, perm)
  <2>1. /\ view' = view
        /\ loop' = IF view.open THEN [Loop("sorting", 0) EXCEPT !.old = IDs(entries)] ELSE NoLoop
    BY <1>18 DEF SetSortOrder
  <2>2. [Loop("sorting", 0) EXCEPT !.old = IDs(entries)].kind = "sorting"
    BY DEF Loop
  <2> QED
    BY <2>1, <2>2, LoopKind DEF Quiet
<1>19. CASE compareOld
  <2>1. loop'.kind = "sorting"
    <3>1. loop.kind = "sorting" /\ loop' = [loop EXCEPT !.next = @ + 1]
      BY <1>19 DEF compareOld
    <3> QED
      BY <3>1, StateFacts DEF LoopType
  <2> QED
    BY <2>1 DEF Quiet
<1>20. CASE sortDone
  BY <1>20, SignalQuiet DEF sortDone, m_quiescenceSignal
<1>21. CASE UNCHANGED vars
  BY <1>21 DEF vars, Quiet
<1>22. CASE \E id \in Contacts, v \in Values : unseenModification(id, v)
  BY <1>22 DEF unseenModification, Quiet
<1> QED
  BY <1>1, <1>2, <1>3, <1>4, <1>5, <1>6, <1>7, <1>8, <1>9, <1>10, <1>11, <1>12, <1>13,
     <1>14, <1>15, <1>16, <1>17, <1>18, <1>19, <1>20, <1>21, <1>22 DEF Next

(***************************************************************************)
(* The theorems.                                                           *)
(***************************************************************************)
\* The combined invariant holds in every state.
THEOREM InvariantHolds == Spec => [](IInv /\ Quiet)
<1>1. Init => IInv /\ Quiet
  <2>1. Init => Quiet
    BY NoViewType, LoopKind DEF Init, Quiet
  <2> QED
    BY <2>1, InitInv
<1>2. IInv /\ Quiet /\ [Next]_vars => (IInv /\ Quiet)'
  BY StepInv, StepQuiet
<1> QED
  BY <1>1, <1>2, PTL DEF Spec

\* What the invariant says about a client which was not misled.
LEMMA ClientFacts ==
    ASSUME IInv, ~res.misled
    PROVE  /\ ResourceOK(res) /\ Mirror \in Seq(AgentEntry) /\ DOMAIN Mirror = DOMAIN view.local2parent
           /\ \A i \in DOMAIN Mirror :
                 /\ Mirror[i].id = Held(loop, entries)[view.local2parent[i]]
                 /\ Mirror[i].data \in {Unread, value[Mirror[i].id]} \/ Mirror[i].id \in Unexamined
<1>1. PICK l : l = view.local2parent
  OBVIOUS
<1>2. PICK n \in Nat : n = Len(entries)
  BY StateFacts
<1>3. PICK h \in Holders(n) : h = Held(loop, entries)
  BY <1>2, StateFacts
<1>4. PICK q : q = Names(h, l)
  OBVIOUS
<1>5. Mapping(l, n) /\ Follows(res, q, value, Unexamined)
  BY <1>1, <1>2, <1>3, <1>4, StateFacts DEF InLine, Consistent
<1>6. ResourceOK(res) /\ Agrees(Mirrored(res), q, value, Unexamined) /\ Mirrored(res) = Mirror
  BY <1>5 DEF Follows, Mirrored, Mirror
<1>7. Mirror \in Seq(AgentEntry)
  BY <1>6, MirroredType
<1>8. Len(q) = Len(l) /\ \A i \in 1..Len(l) : q[i] = h[l[i]]
  BY <1>4, <1>5, NamesType
<1>9. DOMAIN l = 1..Len(l)
  BY <1>5, MappingFacts
<1>10. PICK m : m = Mirror
  OBVIOUS
<1>11. DOMAIN m = 1..Len(l) /\ Len(m) = Len(l)
  BY <1>6, <1>7, <1>8, <1>10, SeqFacts DEF Agrees
<1>12. ASSUME NEW i \in 1..Len(l)
       PROVE  m[i].id = h[l[i]] /\ (m[i].data \in {Unread, value[m[i].id]} \/ m[i].id \in Unexamined)
  BY <1>6, <1>8, <1>10 DEF Agrees
<1> QED
  BY <1>1, <1>3, <1>6, <1>7, <1>9, <1>10, <1>11, <1>12

\* The invariant implies the types.
LEMMA TypeFollows ==
    ASSUME IInv
    PROVE  TypeOK
<1>1. entries \in Seq([id : Contacts, criteria : Values])
  BY StateFacts DEF EntryType
<1>2. /\ value \in [Contacts -> Values] /\ order \in {"up", "down"} /\ modifications \subseteq Present
      /\ notify \in [Contacts -> Notify]
      /\ {idle, quiescent, undefined} \subseteq BOOLEAN /\ stimuli \in Nat
  BY DEF IInv, FullTypes
<1>3. view.local2parent \in Seq(Nat)
  <2>1. PICK l : l = view.local2parent
    OBVIOUS
  <2>2. PICK n \in Nat : n = Len(entries)
    BY StateFacts
  <2>3. Mapping(l, n)
    BY <2>1, <2>2, StateFacts DEF InLine, Consistent
  <2>4. l \in Seq(Int) /\ Len(l) \in Nat /\ \A i \in 1..Len(l) : l[i] \in Nat
    BY <2>3, MappingFacts
  <2> QED
    BY <2>1, <2>4
<1>4. view \in [open : BOOLEAN, filter : SUBSET Values, max : Limits \cup {Unlimited},
                local2parent : Seq(Nat), fill : BOOLEAN, replaced : BOOLEAN]
  BY <1>3, StateFacts DEF ViewType
<1>5. res.misled \/ res \in [pending : Change, last : Change, misled : BOOLEAN,
                             agent : Seq([id : Contacts, data : Values \cup {Unread}])]
  BY ClientFacts DEF ResourceOK, ResourceType, AgentEntry
<1>6. loop \in [kind : {"none", "removing", "adding", "examining", "filling", "refining", "sorting"},
                next : Nat, flush : BOOLEAN, filter : SUBSET Values, old : Seq(Contacts)]
  BY StateFacts DEF LoopType
<1> QED
  BY <1>1, <1>2, <1>4, <1>5, <1>6 DEF TypeOK

\* All objects have their types in every state, for all contacts, values and limits.
THEOREM TypeCorrect == Spec => []TypeOK
<1>1. IInv => TypeOK
  BY TypeFollows
<1> QED
  BY <1>1, InvariantHolds, PTL

\* The invariant implies that the view is exact.
LEMMA ExactFollows ==
    ASSUME IInv
    PROVE  ViewExact
<1>1. PICK l : l = view.local2parent
  OBVIOUS
<1>2. PICK n \in Nat : n = Len(entries) /\ DOMAIN entries = 1..n
  BY StateFacts, EntryFacts
<1>3. Sorted(order, entries)
  BY <1>2, StateFacts DEF FullOK, Sorted
<1>4. Mapping(l, n)
  BY <1>1, <1>2, StateFacts DEF InLine, Consistent
<1>5. DOMAIN l = 1..Len(l) /\ \A i, j \in DOMAIN l : i < j => l[i] < l[j]
  BY <1>4, MappingFacts
<1>6. \A p : p \in ToSet(l) <=> Has(l, p)
  BY <1>5 DEF ToSet, Has
<1>7. ASSUME MainLoop, view.open, ~view.replaced, NEW p \in 0..(n - 1)
      PROVE  \/ entries[p + 1].id \in Unexamined
             \/ p \in ToSet(l) /\ Matches(value, view.filter, entries[p + 1])
             \/ p \notin ToSet(l) /\ (view.max = Unlimited => ~Matches(value, view.filter, entries[p + 1]))
  <2>1. loop.kind = "none"
    BY <1>7 DEF MainLoop
  <2>2. PICK h : h = HoldersOf(entries) /\ h[p] = entries[p + 1].id
    BY <1>2, StateFacts
  <2>3. InLine(view, res, loop, n, h, value, Unexamined)
    BY <1>2, <2>1, <2>2, StateFacts
  <2>4. PlainExact(view, n, h, value, Unexamined)
    BY <1>7, <2>1, <2>3 DEF InLine, Exact, Skipping, PlainExact
  <2> QED
    BY <1>1, <1>6, <1>7, <2>2, <2>4 DEF PlainExact, Matches
<1> QED
  BY <1>1, <1>2, <1>3, <1>5, <1>7 DEF ViewExact, Exactly

\* FullView and FilteredView: the entries stay sorted by the current criteria
\* and order, the mapping ascending, and a view without limit has exactly the
\* contacts that match its filter, for every number of contacts and every
\* sequence of changes, searches and sort orders.  Contacts may differ which
\* onIdle() has still to examine or which were there before the full view and
\* changed since, as doStart() does not listen to these; and all if the filter
\* was replaced by ReplaceSearch().
THEOREM ViewExactHolds == Spec => []ViewExact
<1>1. IInv => ViewExact
  BY ExactFollows
<1> QED
  BY <1>1, InvariantHolds, PTL

\* The invariant implies that the client has the view.
LEMMA MirrorFollows ==
    ASSUME IInv
    PROVE  AgentMirrors
<1>1. SUFFICES ASSUME ~res.misled, loop.kind # "sorting"
               PROVE  IDs(Mirror) = Shown
  BY DEF AgentMirrors
<1>2. PICK l : l = view.local2parent
  OBVIOUS
<1>3. PICK n \in Nat : n = Len(entries)
  BY StateFacts
<1>4. PICK m : m = Mirror
  OBVIOUS
<1>5. DOMAIN m = DOMAIN l /\ \A i \in DOMAIN m : m[i].id = HoldersOf(entries)[l[i]]
  BY <1>1, <1>2, <1>4, StateFacts, ClientFacts
<1>6. Mapping(l, n)
  BY <1>2, <1>3, StateFacts DEF InLine, Consistent
<1>7. \A i \in DOMAIN l : l[i] \in 0..(n - 1)
  BY <1>6, MappingFacts
<1>8. \A x \in 0..(n - 1) : HoldersOf(entries)[x] = entries[x + 1].id
  BY <1>3, StateFacts
<1>9. \A i \in DOMAIN l : m[i].id = entries[l[i] + 1].id
  BY <1>5, <1>7, <1>8
<1>10. IDs(m) = [i \in DOMAIN l |-> m[i].id] /\ Shown = [i \in DOMAIN l |-> entries[l[i] + 1].id]
  BY <1>2, <1>5 DEF IDs, Shown
<1> QED
  BY <1>4, <1>9, <1>10

\* ViewResource: however handleChange() and flushChanges() merge, drop and
\* send the signals of the view, a client's list plus the pending change is the
\* view, unless one of the three known faults has misled the client.
THEOREM AgentMirrorsHolds == Spec => []AgentMirrors
<1>1. IInv => AgentMirrors
  BY MirrorFollows
<1> QED
  BY <1>1, InvariantHolds, PTL

\* ViewResource::readContacts and handleChange(): data which a client has read
\* is current, or it is told about a change of it, also when 'modified'
\* signals are dropped as redundant and contacts change their index.  This is
\* for every contact that doAddIndividual() listens to: one that doStart() found
\* may have changed unseen.
THEOREM AgentFreshHolds == Spec => []AgentFresh
<1>1. IInv => AgentFresh
  <2>1. ASSUME IInv, ~res.misled, NEW i \in DOMAIN Mirror
        PROVE  Mirror[i].data \in {Unread, value[Mirror[i].id]} \/ Mirror[i].id \in Unexamined
    BY <2>1, ClientFacts
  <2> QED
    BY <2>1 DEF AgentFresh
<1> QED
  BY <1>1, InvariantHolds, PTL

\* FullView::onIdle, FilteredView::parentQuiescent and ViewResource::quiescent:
\* with folks quiescent and no onIdle() due, no view is waiting to be filled
\* and no change is waiting to be sent.
THEOREM NothingStuckHolds == Spec => []NothingStuck
<1>1. Quiet => NothingStuck
  BY DEF Quiet, NothingStuck, MainLoop
<1> QED
  BY <1>1, InvariantHolds, PTL
=============================================================================
