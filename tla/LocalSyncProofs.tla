--------------------------- MODULE LocalSyncProofs ---------------------------
(***************************************************************************)
(* Proofs about LocalSync, for every number of calls and every set of      *)
(* faults.                                                                 *)
(*                                                                         *)
(* A call of the parent is in exactly one place: on its way to the child,  *)
(* held by the child, answered by a reply on its way to the parent, or     *)
(* done.  The invariant says which places exclude each other (Outstanding),*)
(* what a reply that is still wanted says of the child (Wanted), that a    *)
(* child which was started waits whenever it is the turn of the parent     *)
(* (Turn), what is known of the report (Reported) and why anything has     *)
(* failed (Blamed).  The order of the messages does not matter for these,  *)
(* except that there is never more than one call on its way (Single).      *)
(***************************************************************************)
EXTENDS LocalSync, SequenceTheorems, TLAPS

\* Messages, and the states of parent and child, hold values of their types.
ChildMsgs ==
    [type : {"StartSync"}, call : Nat] \cup [type : {"SendMsg"}, call : Nat, msg : Nat, final : BOOLEAN]
    \cup [type : {"ack"}] \cup [type : {"password"}, ok : BOOLEAN]
ParentMsgs ==
    [type : {"connect"}] \cup [type : {"reply"}, call : Nat, ok : BOOLEAN, msg : Nat]
    \cup [type : {"StoreSyncReport"}, report : Reports] \cup [type : {"AskPassword"}]
ParentType ==
    [pc : {"wait", "loop", "engine", "winding", "closing", "end", "crashed"},
     status : Status, proxy : BOOLEAN, connected : BOOLEAN, quit : BOOLEAN, killed : BOOLEAN,
     calls : Nat, pending : SUBSET Nat, out : Nat, in : Nat, report : Reports,
     result : {"OK", "engine", "transport", "child", "aborted"}, asked : BOOLEAN, aborted : BOOLEAN]
ChildType ==
    [pc : {"start", "waitSync", "engine", "wait", "password", "ack", "iterate", "gone"},
     status : Status, reply : Nat, in : Nat, final : BOOLEAN, out : Nat, lost : BOOLEAN,
     acked : BOOLEAN, report : Reports, exit : {"none", "0", "1", "killed", "crashed"},
     started : BOOLEAN, asked : BOOLEAN, kill : BOOLEAN]

\* The messages on their way, in any order.
C == ToSet(toChild)
P == ToSet(toParent)

IsCall(m) == m.type \in {"StartSync", "SendMsg"}
Here(p) == p.pc \notin {"end", "crashed"}

\* At most one call is on its way to the child.
Single(q) == \A i, j \in 1..Len(q) : IsCall(q[i]) /\ IsCall(q[j]) => i = j

\* What the two processes know of each other.
Connected(p, c, cs, ps) ==
    /\ p.connected <=> p.calls > 0
    /\ p.proxy \/ p.asked => p.connected
    /\ p.connected /\ ~p.proxy => c.pc = "gone" /\ c.exit # "0"
    /\ p.calls = 0 => /\ c.pc \in {"start", "waitSync", "gone"} /\ c.exit # "0" /\ c.reply = 0
                      /\ cs = {} /\ p.pending = {} /\ p.pc \in {"wait", "loop", "winding", "end", "crashed"}
                      /\ ~c.started
                      /\ \A m \in ps : m.type = "connect"
    /\ p.calls = 0 /\ (p.pc = "winding" \/ p.status = "FAILED") => p.quit
    /\ p.calls = 0 => p.status # "GOT_REPLY"
    /\ c.pc = "start" => ps = {} /\ p.calls = 0
    /\ \A m \in ps : m.type = "connect" => p.calls = 0
    /\ c.pc = "gone" => cs = {}
    /\ p.quit => c.pc = "gone"
    /\ c.lost => ~Here(p)
    /\ c.exit # "none" => c.pc = "gone"

\* A call is in one place only.
Outstanding(p, c, cs, ps) ==
    /\ \A m \in cs : IsCall(m) => /\ m.call > 0 /\ m.call <= p.calls /\ m.call # c.reply
                                  /\ Here(p) => m.call \in p.pending
    /\ \A m \in cs : m.type = "StartSync" => c.pc = "waitSync" /\ ~c.started
    /\ \A m \in cs : m.type = "SendMsg" => m.msg = p.out
    /\ \A m \in ps : m.type = "reply" => /\ m.call > 0 /\ m.call <= p.calls
                                         /\ \A n \in cs : IsCall(n) => n.call # m.call
    /\ c.reply <= p.calls
    /\ c.pc = "wait" /\ c.status = "GOT_REPLY" =>
         /\ c.in = p.out
         /\ Here(p) => c.reply \in p.pending
         /\ \A m \in ps : m.type = "reply" => m.call # c.reply
    /\ Here(p) => p.pending \subseteq {p.calls} /\ 0 \notin p.pending
    /\ Here(p) /\ p.status = "GOT_REPLY" => p.pending = {}
    /\ p.pc \in {"wait", "loop"} /\ p.status = "FAILED" /\ p.proxy /\ ~p.quit => p.pending = {}
    /\ p.pc = "engine" => p.pending = {}
    /\ p.pc = "winding" /\ p.proxy /\ ~p.aborted /\ ~p.quit => p.pending = {}

\* A reply that is still wanted carries the child's last message, and the child has
\* no other call to answer.
Wanted(p, c, ps) ==
    /\ Here(p) => \A m \in ps : m.type = "reply" /\ m.ok /\ m.msg # 0 /\ m.call \in p.pending =>
                    m.msg = c.out /\ c.reply = 0
    /\ p.pc \in {"wait", "loop"} /\ p.status = "GOT_REPLY" /\ p.in # 0 => p.in = c.out /\ c.reply = 0

\* The child waits for the parent.
Waits(c) == c.pc = "wait" /\ c.status = "ACTIVE" /\ c.reply = 0

\* After the session was started parent and child take turns.
Turn(p, c, cs, ps) ==
    /\ c.final \/ (\E m \in cs : m.type = "SendMsg" /\ m.final) => p.pc \in {"closing", "end", "crashed"}
    /\ Here(p) /\ c.started =>
         /\ (\E m \in cs : m.type = "SendMsg") => Waits(c)
         /\ p.pc # "closing" /\ c.pc # "gone" /\ p.pending = {} => Waits(c)
         /\ p.pc # "closing" /\ c.pc # "gone"
            /\ (\E m \in ps : m.type = "reply" /\ m.ok /\ m.call \in p.pending) => Waits(c)

\* The report is the last thing the child says, and is acknowledged when it is known.
Reported(p, c, cs, ps) ==
    /\ c.pc \notin {"ack", "iterate", "gone"} => c.report = "none" /\ ~c.acked
    /\ p.report \in {"none", c.report}
    /\ \A m \in ps : m.type = "StoreSyncReport" => m.report = c.report /\ c.report # "none"
    /\ (\E m \in cs : m.type = "ack") \/ c.acked => p.report = c.report /\ p.connected
    /\ (\E m \in cs : m.type = "ack") => c.report # "none"
    /\ c.exit = "0" => c.acked \/ c.lost

\* StartSync() has failed.
Refused(p, c, cs) == p.calls > 0 /\ ~c.started /\ \A m \in cs : m.type # "StartSync"

\* The child is gone and its end is no failure that it reported.
Unexplained(c) == c.pc = "gone" /\ (c.exit # "0" \/ c.lost \/ c.report # "failed")

\* Why anything has failed.
Blamed(p, c, cs, ps) ==
    /\ Here(p) => \A m \in ps : m.type = "reply" /\ ~m.ok => Refused(p, c, cs)
    /\ p.pc \in {"wait", "loop"} /\ p.status = "FAILED" => Refused(p, c, cs) \/ Unexplained(c)
    /\ p.status = "CANCELED" => p.aborted
    /\ p.result = "transport" => Refused(p, c, cs) \/ Unexplained(c)

IInv ==
    /\ parent \in ParentType /\ child \in ChildType
    /\ toChild \in Seq(ChildMsgs) /\ toParent \in Seq(ParentMsgs)
    /\ Single(toChild)
    /\ parent.calls = 0 => Len(toParent) <= 1
    /\ Connected(parent, child, C, P)
    /\ Outstanding(parent, child, C, P)
    /\ Wanted(parent, child, P)
    /\ Turn(parent, child, C, P)
    /\ Reported(parent, child, C, P)
    /\ Blamed(parent, child, C, P)

-----------------------------------------------------------------------------
(***************************************************************************)
(* Queues of messages.                                                     *)
(***************************************************************************)

\* Taking the first message
LEMMA TailOf ==
    ASSUME NEW S, NEW q \in Seq(S), q # <<>>
    PROVE  /\ Head(q) \in ToSet(q) /\ Head(q) \in S /\ Tail(q) \in Seq(S) /\ Len(Tail(q)) = Len(q) - 1
           /\ ToSet(Tail(q)) \subseteq ToSet(q)
           /\ \A m \in ToSet(q) : m = Head(q) \/ m \in ToSet(Tail(q))
           /\ Single(q) => Single(Tail(q))
           /\ Single(q) /\ IsCall(Head(q)) => \A m \in ToSet(Tail(q)) : ~IsCall(m)
<1>1. Len(q) \in Nat /\ Len(q) > 0 /\ Head(q) = q[1] /\ DOMAIN q = 1..Len(q)
  OBVIOUS
<1>2. Tail(q) \in Seq(S) /\ Len(Tail(q)) = Len(q) - 1 /\ DOMAIN Tail(q) = 1..(Len(q) - 1)
      /\ \A i \in 1..(Len(q) - 1) : Tail(q)[i] = q[i + 1]
  OBVIOUS
<1>3. ToSet(Tail(q)) \subseteq ToSet(q)
  BY <1>1, <1>2 DEF ToSet
<1>4. ASSUME NEW m \in ToSet(q)
      PROVE  m = Head(q) \/ m \in ToSet(Tail(q))
  <2>1. PICK i \in 1..Len(q) : m = q[i]
    BY <1>1 DEF ToSet
  <2>2. CASE i = 1
    BY <1>1, <2>1, <2>2
  <2>3. CASE i # 1
    <3>1. i - 1 \in 1..(Len(q) - 1) /\ Tail(q)[i - 1] = q[i]
      BY <1>1, <1>2, <2>1, <2>3
    <3>2. QED
      BY <1>2, <2>1, <3>1 DEF ToSet
  <2>4. QED
    BY <2>2, <2>3
<1>5. Single(q) => Single(Tail(q))
  <2> SUFFICES ASSUME Single(q), NEW i \in 1..(Len(q) - 1), NEW j \in 1..(Len(q) - 1),
                      IsCall(q[i + 1]), IsCall(q[j + 1])
               PROVE  i = j
    BY <1>2 DEF Single
  <2>1. i + 1 \in 1..Len(q) /\ j + 1 \in 1..Len(q)
    BY <1>1
  <2>2. i + 1 = j + 1
    BY <2>1 DEF Single
  <2>3. QED
    BY <1>1, <2>2
<1>6. ASSUME Single(q), IsCall(Head(q)), NEW m \in ToSet(Tail(q))
      PROVE  ~IsCall(m)
  <2>1. PICK i \in 1..(Len(q) - 1) : m = q[i + 1]
    BY <1>2 DEF ToSet
  <2>2. i + 1 \in 1..Len(q) /\ i + 1 # 1 /\ 1 \in 1..Len(q)
    BY <1>1, <2>1
  <2>3. QED
    BY <1>1, <1>6, <2>1, <2>2 DEF Single
<1>7. Head(q) \in ToSet(q) /\ Head(q) \in S
  BY <1>1 DEF ToSet
<1>8. QED
  BY <1>2, <1>3, <1>4, <1>5, <1>6, <1>7

\* Sending a message
LEMMA AppendOf ==
    ASSUME NEW S, NEW q \in Seq(S), NEW m \in S
    PROVE  /\ Append(q, m) \in Seq(S)
           /\ ToSet(Append(q, m)) = ToSet(q) \cup {m}
           /\ Single(q) /\ (~IsCall(m) \/ \A n \in ToSet(q) : ~IsCall(n)) => Single(Append(q, m))
<1>1. Len(q) \in Nat /\ DOMAIN q = 1..Len(q)
  OBVIOUS
<1>2. Append(q, m) \in Seq(S) /\ Len(Append(q, m)) = Len(q) + 1 /\ DOMAIN Append(q, m) = 1..(Len(q) + 1)
      /\ (\A i \in 1..Len(q) : Append(q, m)[i] = q[i]) /\ Append(q, m)[Len(q) + 1] = m
  OBVIOUS
<1>3. 1..(Len(q) + 1) = 1..Len(q) \cup {Len(q) + 1}
  BY <1>1
<1>4. ToSet(Append(q, m)) = ToSet(q) \cup {m}
  BY <1>1, <1>2, <1>3 DEF ToSet
<1>5. ASSUME Single(q), ~IsCall(m) \/ \A n \in ToSet(q) : ~IsCall(n)
      PROVE  Single(Append(q, m))
  <2>1. CASE ~IsCall(m)
    <3> SUFFICES ASSUME NEW i \in 1..(Len(q) + 1), NEW j \in 1..(Len(q) + 1),
                        IsCall(Append(q, m)[i]), IsCall(Append(q, m)[j])
                 PROVE  i = j
      BY <1>2 DEF Single
    <3>1. i \in 1..Len(q) /\ j \in 1..Len(q)
      BY <1>2, <1>3, <2>1
    <3>2. QED
      BY <1>2, <1>5, <3>1 DEF Single
  <2>2. CASE \A n \in ToSet(q) : ~IsCall(n)
    <3> SUFFICES ASSUME NEW i \in 1..(Len(q) + 1), NEW j \in 1..(Len(q) + 1),
                        IsCall(Append(q, m)[i]), IsCall(Append(q, m)[j])
                 PROVE  i = j
      BY <1>2 DEF Single
    <3>1. \A k \in 1..Len(q) : q[k] \in ToSet(q)
      BY <1>1 DEF ToSet
    <3>2. i = Len(q) + 1 /\ j = Len(q) + 1
      BY <1>2, <1>3, <2>2, <3>1
    <3>3. QED
      BY <3>2
  <2>3. QED
    BY <1>5, <2>1, <2>2
<1>6. QED
  BY <1>2, <1>4, <1>5

\* Sending several messages
LEMMA CatOf ==
    ASSUME NEW S, NEW q \in Seq(S), NEW r \in Seq(S)
    PROVE  q \o r \in Seq(S) /\ ToSet(q \o r) = ToSet(q) \cup ToSet(r) /\ Len(q \o r) = Len(q) + Len(r)
<1>1. Len(q) \in Nat /\ Len(r) \in Nat /\ DOMAIN q = 1..Len(q) /\ DOMAIN r = 1..Len(r)
  OBVIOUS
<1>2. q \o r \in Seq(S) /\ Len(q \o r) = Len(q) + Len(r) /\ DOMAIN (q \o r) = 1..(Len(q) + Len(r))
      /\ \A i \in 1..(Len(q) + Len(r)) : (q \o r)[i] = IF i <= Len(q) THEN q[i] ELSE r[i - Len(q)]
  OBVIOUS
<1>3. ToSet(q \o r) \subseteq ToSet(q) \cup ToSet(r)
  <2> SUFFICES ASSUME NEW i \in 1..(Len(q) + Len(r)) PROVE (q \o r)[i] \in ToSet(q) \cup ToSet(r)
    BY <1>2 DEF ToSet
  <2>1. CASE i <= Len(q)
    <3>1. i \in 1..Len(q) /\ (q \o r)[i] = q[i]
      BY <1>1, <1>2, <2>1
    <3>2. QED
      BY <1>1, <3>1 DEF ToSet
  <2>2. CASE ~(i <= Len(q))
    <3>1. i - Len(q) \in 1..Len(r) /\ (q \o r)[i] = r[i - Len(q)]
      BY <1>1, <1>2, <2>2
    <3>2. QED
      BY <1>1, <3>1 DEF ToSet
  <2>3. QED
    BY <2>1, <2>2
<1>4. ToSet(q) \subseteq ToSet(q \o r)
  <2> SUFFICES ASSUME NEW i \in 1..Len(q) PROVE q[i] \in ToSet(q \o r)
    BY <1>1 DEF ToSet
  <2>1. i \in 1..(Len(q) + Len(r)) /\ (q \o r)[i] = q[i]
    BY <1>1, <1>2
  <2>2. QED
    BY <1>2, <2>1 DEF ToSet
<1>5. ToSet(r) \subseteq ToSet(q \o r)
  <2> SUFFICES ASSUME NEW i \in 1..Len(r) PROVE r[i] \in ToSet(q \o r)
    BY <1>1 DEF ToSet
  <2>1. Len(q) + i \in 1..(Len(q) + Len(r)) /\ (q \o r)[Len(q) + i] = r[i]
    BY <1>1, <1>2
  <2>2. QED
    BY <1>2, <2>1 DEF ToSet
<1>6. QED
  BY <1>2, <1>3, <1>4, <1>5

\* A broken connection delivers a prefix.
LEMMA PrefixOf ==
    ASSUME NEW S, NEW q \in Seq(S), NEW r \in Prefixes(q)
    PROVE  r \in Seq(S) /\ ToSet(r) \subseteq ToSet(q) /\ Len(r) <= Len(q)
<1>1. Len(q) \in Nat /\ DOMAIN q = 1..Len(q)
  OBVIOUS
<1>2. PICK l \in 0..Len(q) : r = SubSeq(q, 1, l)
  BY DEF Prefixes
<1>3. r \in Seq(S) /\ Len(r) = l /\ DOMAIN r = 1..l /\ \A i \in 1..l : r[i] = q[i]
  BY <1>1, <1>2
<1>4. 1..l \subseteq 1..Len(q)
  BY <1>1, <1>2
<1>5. ToSet(r) \subseteq ToSet(q)
  BY <1>1, <1>3, <1>4 DEF ToSet
<1>6. QED
  BY <1>1, <1>2, <1>3, <1>5

\* Nothing, one and two messages
LEMMA FewMessages ==
    /\ ToSet(<<>>) = {} /\ Len(<<>>) = 0 /\ Single(<<>>)
    /\ \A S : <<>> \in Seq(S)
    /\ \A S : \A a \in S : <<a>> \in Seq(S) /\ ToSet(<<a>>) = {a} /\ Len(<<a>>) = 1
<1>1. ToSet(<<>>) = {} /\ Len(<<>>) = 0 /\ Single(<<>>)
  BY DEF ToSet, Single
<1>2. ASSUME NEW S, NEW a \in S
      PROVE  <<a>> \in Seq(S) /\ ToSet(<<a>>) = {a} /\ Len(<<a>>) = 1
  BY <1>2 DEF ToSet
<1>3. QED
  BY <1>1, <1>2

-----------------------------------------------------------------------------
(***************************************************************************)
(* Steps of the parent.                                                    *)
(***************************************************************************)

\* Nothing is said.
Quiet == UNCHANGED <<toChild, toParent>>

\* The parent continues somewhere else.
LEMMA ParentGoes ==
    ASSUME IInv, parent.pc = "wait", NEW pc \in {"engine", "loop"}, parent' = [parent EXCEPT !.pc = pc],
           pc = "engine" => parent.status = "GOT_REPLY",
           UNCHANGED <<child, toChild, toParent>>
    PROVE  IInv'
<1> USE DEF IInv
<1>1. C' = C /\ P' = P
  BY DEF C, P
<1>2. parent' \in ParentType
  BY ZenonT(60) DEF ParentType
<1>3. parent'.pc = pc
      /\ parent'.status = parent.status /\ parent'.proxy = parent.proxy /\ parent'.connected = parent.connected /\ parent'.quit = parent.quit /\ parent'.killed = parent.killed
      /\ parent'.calls = parent.calls /\ parent'.pending = parent.pending /\ parent'.out = parent.out /\ parent'.in = parent.in /\ parent'.report = parent.report
      /\ parent'.result = parent.result /\ parent'.asked = parent.asked /\ parent'.aborted = parent.aborted
  BY DEF ParentType
<1>4. Here(parent) /\ Here(parent')
  BY <1>3 DEF Here
<1>5. Connected(parent', child', C', P')
  BY <1>1, <1>3, <1>4 DEF Connected
<1>6. Outstanding(parent', child', C', P')
  BY <1>1, <1>3, <1>4 DEF Outstanding
<1>7. Wanted(parent', child', P')
  BY <1>1, <1>3, <1>4 DEF Wanted
<1>8. Turn(parent', child', C', P')
  BY <1>1, <1>3, <1>4 DEF Turn
<1>9. Reported(parent', child', C', P')
  BY <1>1, <1>3 DEF Reported
<1>10. Blamed(parent', child', C', P')
  BY <1>1, <1>3, <1>4 DEF Blamed, Refused
<1>11. QED
  BY <1>1, <1>2, <1>3, <1>5, <1>6, <1>7, <1>8, <1>9, <1>10

\* What Fail does
FailRel(p, why, y) ==
    /\ y \in ParentType
    /\ y.result = IF p.result = "OK" THEN why ELSE p.result
    /\ y.pc = IF p.aborted THEN "end" ELSE "winding"
    /\ y.status = p.status /\ y.proxy = p.proxy /\ y.connected = p.connected /\ y.quit = p.quit /\ y.killed = p.killed
    /\ y.calls = p.calls /\ y.pending = p.pending /\ y.out = p.out /\ y.in = p.in /\ y.report = p.report
    /\ y.asked = p.asked /\ y.aborted = p.aborted

\* An error ends the loop or makes the engine wind down.
LEMMA FailIs ==
    ASSUME NEW p \in ParentType, NEW why \in {"engine", "transport", "child", "aborted"}
    PROVE  FailRel(p, why, Fail(p, why))
<1>1. PICK result : result = IF p.result = "OK" THEN why ELSE p.result
  OBVIOUS
<1>2. PICK pc : pc = IF p.aborted THEN "end" ELSE "winding"
  OBVIOUS
<1>3. PICK y : y = [p EXCEPT !.result = result, !.pc = pc]
  OBVIOUS
<1>4. Fail(p, why) = y
  BY <1>1, <1>2, <1>3, Zenon DEF Fail
<1>5. result \in {"OK", "engine", "transport", "child", "aborted"}
      /\ pc \in {"wait", "loop", "engine", "winding", "closing", "end", "crashed"}
  BY <1>1, <1>2 DEF ParentType
<1>6. y \in ParentType
  BY <1>3, <1>5, ZenonT(60) DEF ParentType
<1>7. y.result = result /\ y.pc = pc
      /\ y.status = p.status /\ y.proxy = p.proxy /\ y.connected = p.connected /\ y.quit = p.quit /\ y.killed = p.killed
      /\ y.calls = p.calls /\ y.pending = p.pending /\ y.out = p.out /\ y.in = p.in /\ y.report = p.report
      /\ y.asked = p.asked /\ y.aborted = p.aborted
  BY <1>3 DEF ParentType
<1>8. QED
  BY <1>1, <1>2, <1>4, <1>6, <1>7 DEF FailRel

\* doSync() of the parent fails.
LEMMA FailKeeps ==
    ASSUME IInv, parent.pc \in {"wait", "engine"}, NEW status \in {parent.status, "FAILED"},
           NEW why \in {"engine", "transport", "child", "aborted"},
           parent' = Fail([parent EXCEPT !.status = status], why),
           why = "transport" => Refused(parent, child, C) \/ Unexplained(child),
           ~parent.aborted /\ parent.proxy /\ ~parent.quit => parent.pending = {},
           ~parent.aborted /\ parent.calls = 0 => parent.quit,
           parent.calls = 0 /\ status # parent.status => parent.quit,
           UNCHANGED <<child, toChild, toParent>>
    PROVE  IInv'
<1> USE DEF IInv
<1>1. C' = C /\ P' = P
  BY DEF C, P
<1>2. PICK p : p = [parent EXCEPT !.status = status]
  OBVIOUS
<1>3. status \in Status
  BY DEF ParentType, Status
<1>4. p \in ParentType
  BY <1>2, <1>3, ZenonT(60) DEF ParentType
<1>5. p.status = status
      /\ p.pc = parent.pc /\ p.proxy = parent.proxy /\ p.connected = parent.connected /\ p.quit = parent.quit /\ p.killed = parent.killed
      /\ p.calls = parent.calls /\ p.pending = parent.pending /\ p.out = parent.out /\ p.in = parent.in /\ p.report = parent.report
      /\ p.result = parent.result /\ p.asked = parent.asked /\ p.aborted = parent.aborted
  BY <1>2 DEF ParentType
<1>6. FailRel(p, why, parent')
  BY <1>2, <1>4, FailIs
<1>7. parent' \in ParentType /\ parent'.status = status
      /\ parent'.result = (IF parent.result = "OK" THEN why ELSE parent.result)
      /\ parent'.pc = (IF parent.aborted THEN "end" ELSE "winding")
      /\ parent'.proxy = parent.proxy /\ parent'.connected = parent.connected /\ parent'.quit = parent.quit /\ parent'.killed = parent.killed /\ parent'.calls = parent.calls
      /\ parent'.pending = parent.pending /\ parent'.out = parent.out /\ parent'.in = parent.in /\ parent'.report = parent.report /\ parent'.asked = parent.asked
      /\ parent'.aborted = parent.aborted
  BY <1>5, <1>6 DEF FailRel
<1>8. Here(parent) /\ (Here(parent') <=> ~parent.aborted) /\ (parent.aborted => parent'.pc = "end")
      /\ (~parent.aborted => parent'.pc = "winding")
  BY <1>7 DEF Here
<1>9. Connected(parent', child', C', P')
  BY <1>1, <1>7, <1>8 DEF Connected
<1>10. Outstanding(parent', child', C', P')
  BY <1>1, <1>7, <1>8 DEF Outstanding
<1>11. Wanted(parent', child', P')
  BY <1>1, <1>7, <1>8 DEF Wanted
<1>12. Turn(parent', child', C', P')
  BY <1>1, <1>7, <1>8 DEF Turn
<1>13. Reported(parent', child', C', P')
  BY <1>1, <1>7 DEF Reported
<1>14. Blamed(parent', child', C', P')
  BY <1>1, <1>7, <1>8 DEF Blamed, Refused
<1>15. QED
  BY <1>1, <1>7, <1>9, <1>10, <1>11, <1>12, <1>13, <1>14

\* wait() of the parent
LEMMA ParentWaitKeeps ==
    ASSUME IInv, ParentWait
    PROVE  IInv'
<1> USE DEF IInv
<1>1. parent.pc = "wait" /\ UNCHANGED <<child, toChild, toParent>> /\ Here(parent)
  BY DEF ParentWait, Here
<1>2. CASE parent.status = "GOT_REPLY" /\ parent' = [parent EXCEPT !.pc = "engine"]
  BY <1>1, <1>2, ParentGoes
<1>3. CASE parent.status = "ACTIVE" /\ ~parent.quit /\ parent' = [parent EXCEPT !.pc = "loop"]
  BY <1>1, <1>3, ParentGoes
<1>4. CASE /\ parent.status \in {"FAILED", "CANCELED"}
           /\ parent' = Fail(parent, IF parent.aborted THEN "aborted" ELSE "transport")
  <2>1. PICK why \in {"engine", "transport", "child", "aborted"} :
          why = IF parent.aborted THEN "aborted" ELSE "transport"
    OBVIOUS
  <2>2. parent = [parent EXCEPT !.status = parent.status]
    BY DEF ParentType
  <2>3. parent' = Fail([parent EXCEPT !.status = parent.status], why)
    BY <1>4, <2>1, <2>2
  <2>4. ~parent.aborted => parent.status = "FAILED"
    BY <1>4 DEF Blamed
  <2>5. why = "transport" => Refused(parent, child, C) \/ Unexplained(child)
    BY <1>1, <2>1, <2>4 DEF Blamed
  <2>6. ~parent.aborted /\ parent.proxy /\ ~parent.quit => parent.pending = {}
    BY <1>1, <2>4 DEF Outstanding
  <2>7. ~parent.aborted /\ parent.calls = 0 => parent.quit
    BY <2>4 DEF Connected
  <2>8. QED
    BY <1>1, <2>3, <2>5, <2>6, <2>7, FailKeeps
<1>5. CASE /\ parent.status = "ACTIVE" /\ parent.quit
           /\ parent' = Fail([parent EXCEPT !.status = "FAILED"],
                             IF parent.report \in {"failed", "bare"} THEN "child" ELSE "transport")
  <2>1. PICK why \in {"engine", "transport", "child", "aborted"} :
          why = IF parent.report \in {"failed", "bare"} THEN "child" ELSE "transport"
    OBVIOUS
  <2>2. parent' = Fail([parent EXCEPT !.status = "FAILED"], why)
    BY <1>5, <2>1
  <2>3. child.pc = "gone" /\ (child.exit = "0" => parent.report = child.report \/ child.lost)
    BY <1>5 DEF Connected, Reported
  <2>4. why = "transport" => Unexplained(child)
    BY <2>1, <2>3 DEF Unexplained
  <2>5. QED
    BY <1>1, <1>5, <2>2, <2>4, FailKeeps
<1>6. QED
  BY <1>2, <1>3, <1>4, <1>5 DEF ParentWait

\* A message to the child, of the server engine or while it winds down
LEMMA SendKeeps ==
    ASSUME IInv, parent.pc \in {"engine", "winding"}, parent.proxy, ~parent.aborted,
           NEW final \in BOOLEAN, NEW next \in {"closing", "wait", "end"},
           final => next = "closing", next = "end" <=> parent.pc = "winding",
           Send(final, next), UNCHANGED <<child, toParent>>
    PROVE  IInv'
<1> USE DEF IInv
<1>1. parent.calls \in Nat /\ parent.out \in Nat /\ parent.pending \in SUBSET Nat
  BY DEF ParentType
<1>2. PICK call : call = parent.calls + 1
  OBVIOUS
<1>3. PICK out : out = parent.out + 1
  OBVIOUS
<1>4. PICK pending : pending = parent.pending \cup {call}
  OBVIOUS
<1>5. PICK msg : msg = [type |-> "SendMsg", call |-> call, msg |-> out, final |-> final]
  OBVIOUS
<1>6. parent' = [parent EXCEPT !.status = "ACTIVE", !.calls = call, !.pending = pending, !.out = out, !.pc = next]
  BY <1>2, <1>3, <1>4 DEF Send
<1>7. toChild' = IF child.pc = "gone" THEN toChild ELSE Append(toChild, msg)
  BY <1>2, <1>3, <1>5 DEF Send, SentToChild, ChildGone
<1>8. call \in Nat /\ out \in Nat /\ pending \in SUBSET Nat /\ call > parent.calls /\ call > 0
  BY <1>1, <1>2, <1>3, <1>4
<1>9. parent' \in ParentType
  <2>1. "ACTIVE" \in Status /\ next \in {"wait", "loop", "engine", "winding", "closing", "end", "crashed"}
    BY DEF Status
  <2>2. QED
    BY <1>6, <1>8, <2>1, ZenonT(60) DEF ParentType
<1>10. parent'.status = "ACTIVE" /\ parent'.calls = call /\ parent'.pending = pending /\ parent'.out = out
       /\ parent'.pc = next
       /\ parent'.proxy = parent.proxy /\ parent'.connected = parent.connected /\ parent'.quit = parent.quit /\ parent'.killed = parent.killed /\ parent'.in = parent.in
       /\ parent'.report = parent.report /\ parent'.result = parent.result /\ parent'.asked = parent.asked /\ parent'.aborted = parent.aborted
  BY <1>6 DEF ParentType
<1>11. Here(parent) /\ (Here(parent') <=> next # "end") /\ parent.connected
  BY <1>10 DEF Here, Connected
<1>12. child.pc # "gone" => parent.pending = {}
  BY DEF Outstanding, Connected
<1>13. parent.calls > 0
  BY <1>11 DEF Connected
<1>14. child.pc # "gone" => \A m \in C : ~IsCall(m)
  BY <1>11, <1>12 DEF Outstanding
<1>15. msg \in ChildMsgs
  BY <1>5, <1>8 DEF ChildMsgs
<1>16. msg.type = "SendMsg" /\ msg.call = call /\ msg.msg = out /\ (msg.final <=> final) /\ IsCall(msg)
  BY <1>5 DEF IsCall
<1>17. toChild' \in Seq(ChildMsgs) /\ Single(toChild') /\ P' = P
       /\ (IF child.pc = "gone" THEN C' = C ELSE C' = C \cup {msg})
  BY <1>7, <1>14, <1>15, AppendOf DEF C, P
<1>18. child.pc = "gone" => C = {}
  BY DEF Connected
<1>19. Connected(parent', child', C', P')
  BY <1>8, <1>10, <1>11, <1>13, <1>17 DEF Connected
<1>20. child.reply \in Nat /\ child.reply <= parent.calls
  BY DEF Outstanding, ChildType
<1>21. Outstanding(parent', child', C', P')
  <2>1. \A m \in C' : IsCall(m) => m = msg /\ child.pc # "gone"
    BY <1>14, <1>17, <1>18
  <2>2. \A m \in P' : m.type = "reply" => m.call > 0 /\ m.call <= call /\ m.call # call
    <3>1. \A m \in P : m.type = "reply" => m.call > 0 /\ m.call <= parent.calls
      BY DEF Outstanding
    <3>2. \A m \in P : m.type = "reply" => m.call \in Nat
      BY DEF P, ToSet, ParentMsgs
    <3>3. QED
      BY <1>1, <1>2, <1>17, <3>1, <3>2
  <2>3. ~(child.pc = "wait" /\ child.status = "GOT_REPLY")
    BY <1>11, <1>12 DEF Outstanding
  <2>4. next # "end" => pending = {call}
    BY <1>4 DEF Outstanding
  <2>5. call # child.reply /\ child.reply <= call
    BY <1>1, <1>2, <1>20
  <2>6. \A m \in C' : m.type \in {"StartSync", "SendMsg"} => m = msg /\ child.pc # "gone"
    BY <2>1 DEF IsCall
  <2>7. call \in pending
    BY <1>4
  <2>8. QED
    BY <1>8, <1>10, <1>11, <1>16, <2>1, <2>2, <2>3, <2>4, <2>5, <2>6, <2>7 DEF Outstanding
<1>22. \A m \in P : m.type = "reply" => m.call # call
  <2>1. \A m \in P : m.type = "reply" => m.call <= parent.calls /\ m.call \in Nat
    BY DEF Outstanding, P, ToSet, ParentMsgs
  <2>2. QED
    BY <1>1, <1>2, <2>1
<1>23. Wanted(parent', child', P')
  BY <1>4, <1>10, <1>11, <1>17, <1>22 DEF Wanted
<1>24. Turn(parent', child', C', P')
  <2>1. ~child.final /\ (\A m \in C : m.type = "SendMsg" => ~m.final)
    BY <1>11 DEF Turn
  <2>2. child.started /\ child.pc # "gone" => Waits(child)
    BY <1>11, <1>12 DEF Turn
  <2>3. QED
    BY <1>4, <1>10, <1>11, <1>16, <1>17, <1>18, <1>22, <2>1, <2>2 DEF Turn
<1>25. Reported(parent', child', C', P')
  BY <1>10, <1>16, <1>17 DEF Reported
<1>26. Blamed(parent', child', C', P')
  BY <1>8, <1>10, <1>11, <1>13, <1>16, <1>17 DEF Blamed, Refused
<1>27. QED
  BY <1>8, <1>9, <1>10, <1>17, <1>19, <1>21, <1>23, <1>24, <1>25, <1>26

\* The server engine answers or fails.
LEMMA ParentEngineKeeps ==
    ASSUME IInv, ParentEngine
    PROVE  IInv'
<1> USE DEF IInv
<1>1. parent.pc = "engine" /\ UNCHANGED <<child, toParent>> /\ Here(parent)
  BY DEF ParentEngine, Here
<1>2. parent.pending = {} /\ parent.calls # 0 /\ parent.calls \in Nat
  BY <1>1 DEF Outstanding, Connected, ParentType
<1>3. parent = [parent EXCEPT !.status = parent.status]
  BY DEF ParentType
<1>4. CASE \E why \in {"aborted", "engine"} : parent' = Fail(parent, why) /\ toChild' = toChild
  BY <1>1, <1>2, <1>3, <1>4, FailKeeps
<1>5. CASE ~parent.aborted /\ \E final \in BOOLEAN : Send(final, IF final THEN "closing" ELSE "wait")
  <2>1. PICK final \in BOOLEAN : Send(final, IF final THEN "closing" ELSE "wait")
    BY <1>5
  <2>2. PICK next \in {"closing", "wait", "end"} : next = IF final THEN "closing" ELSE "wait"
    OBVIOUS
  <2>3. Send(final, next) /\ next # "end" /\ (final => next = "closing")
    BY <2>1, <2>2
  <2>4. CASE parent.proxy
    BY <1>1, <1>5, <2>3, <2>4, SendKeeps
  <2>5. CASE ~parent.proxy
    <3>1. parent' = Fail([parent EXCEPT !.status = "FAILED"], "transport") /\ toChild' = toChild
      BY <2>3, <2>5 DEF Send
    <3>2. Unexplained(child)
      BY <1>2, <2>5 DEF Connected, Unexplained
    <3>3. QED
      BY <1>1, <1>2, <3>1, <3>2, FailKeeps
  <2>6. QED
    BY <2>4, <2>5
<1>6. QED
  BY <1>4, <1>5 DEF ParentEngine

\* The parent ends, for whatever reason.
LEMMA ParentEnds ==
    ASSUME IInv, Here(parent), NEW pc \in {"end", "crashed"}, NEW status \in {parent.status, "INACTIVE"},
           parent' = [parent EXCEPT !.pc = pc, !.status = status], UNCHANGED <<child, toChild, toParent>>
    PROVE  IInv'
<1> USE DEF IInv
<1>1. C' = C /\ P' = P
  BY DEF C, P
<1>2. status \in Status /\ pc \in {"wait", "loop", "engine", "winding", "closing", "end", "crashed"}
  BY DEF ParentType, Status
<1>3. parent' \in ParentType
  BY <1>2, ZenonT(60) DEF ParentType
<1>4. parent'.pc = pc /\ parent'.status = status
      /\ parent'.proxy = parent.proxy /\ parent'.connected = parent.connected /\ parent'.quit = parent.quit /\ parent'.killed = parent.killed /\ parent'.calls = parent.calls
      /\ parent'.pending = parent.pending /\ parent'.out = parent.out /\ parent'.in = parent.in /\ parent'.report = parent.report /\ parent'.result = parent.result
      /\ parent'.asked = parent.asked /\ parent'.aborted = parent.aborted
  BY DEF ParentType
<1>5. ~Here(parent')
  BY <1>4 DEF Here
<1>6. Connected(parent', child', C', P')
  BY <1>1, <1>4, <1>5 DEF Connected
<1>7. Outstanding(parent', child', C', P')
  BY <1>1, <1>4, <1>5 DEF Outstanding
<1>8. Wanted(parent', child', P') /\ Turn(parent', child', C', P') /\ Reported(parent', child', C', P')
  BY <1>1, <1>4, <1>5 DEF Wanted, Turn, Reported
<1>9. Blamed(parent', child', C', P')
  BY <1>1, <1>4, <1>5 DEF Blamed, Refused
<1>10. QED
  BY <1>1, <1>3, <1>4, <1>6, <1>7, <1>8, <1>9

\* The engine winds down.
LEMMA ParentWindingKeeps ==
    ASSUME IInv, ParentWinding
    PROVE  IInv'
<1>1. parent.pc = "winding" /\ UNCHANGED <<child, toParent>> /\ Here(parent)
  BY DEF ParentWinding, Here
<1>2. CASE parent' = [parent EXCEPT !.pc = "end"] /\ toChild' = toChild
  <2>1. [parent EXCEPT !.pc = "end"] = [parent EXCEPT !.pc = "end", !.status = parent.status]
    BY DEF IInv, ParentType
  <2>2. QED
    BY <1>1, <1>2, <2>1, ParentEnds
<1>3. CASE parent.proxy /\ ~parent.aborted /\ Send(FALSE, "end")
  BY <1>1, <1>3, SendKeeps
<1>4. QED
  BY <1>2, <1>3 DEF ParentWinding

\* shutdown() of the parent
LEMMA ParentClosingKeeps ==
    ASSUME IInv, ParentClosing
    PROVE  IInv'
<1>1. Here(parent) /\ UNCHANGED <<child, toChild, toParent>>
  BY DEF ParentClosing, Here
<1>2. PICK status \in {parent.status, "INACTIVE"} :
        status = IF parent.status = "ACTIVE" THEN "INACTIVE" ELSE parent.status
  OBVIOUS
<1>3. parent' = [parent EXCEPT !.pc = "end", !.status = status]
  BY <1>2 DEF ParentClosing
<1>4. QED
  BY <1>1, <1>3, ParentEnds

\* The parent crashes.
LEMMA ParentDiesKeeps ==
    ASSUME IInv, ParentDies
    PROVE  IInv'
<1>1. Here(parent) /\ UNCHANGED <<child, toChild, toParent>> /\ parent' = [parent EXCEPT !.pc = "crashed"]
  BY DEF ParentDies, ParentRunsLoop, ParentGone, Here
<1>2. [parent EXCEPT !.pc = "crashed"] = [parent EXCEPT !.pc = "crashed", !.status = parent.status]
  BY DEF IInv, ParentType
<1>3. QED
  BY <1>1, <1>2, ParentEnds

\* What storing a reply does
StoredRel(p, ok, msg, y) ==
    /\ y \in ParentType
    /\ y.pc = IF p.pc = "loop" THEN "wait" ELSE p.pc
    /\ IF ok THEN y.status = "GOT_REPLY" /\ y.in = msg
       ELSE IF p.report \in {"none", "bare"} THEN y.status = "FAILED" /\ y.in = p.in
       ELSE y.status = p.status /\ y.in = p.in
    /\ y.proxy = p.proxy /\ y.connected = p.connected /\ y.quit = p.quit /\ y.killed = p.killed /\ y.calls = p.calls
    /\ y.pending = p.pending /\ y.out = p.out /\ y.report = p.report /\ y.result = p.result /\ y.asked = p.asked
    /\ y.aborted = p.aborted

\* The reply of a call is stored, or its failure.
LEMMA StoredIs ==
    ASSUME NEW p \in ParentType, NEW m, m.ok \in BOOLEAN, m.msg \in Nat
    PROVE  StoredRel(p, m.ok, m.msg, storeReplyMsg(p, m))
<1>1. PICK status : status = IF m.ok THEN "GOT_REPLY" ELSE IF p.report \in {"none", "bare"} THEN "FAILED" ELSE p.status
  OBVIOUS
<1>2. PICK in : in = IF m.ok THEN m.msg ELSE p.in
  OBVIOUS
<1>3. PICK pc : pc = IF p.pc = "loop" THEN "wait" ELSE p.pc
  OBVIOUS
<1>4. PICK x : x = [p EXCEPT !.status = status, !.in = in]
  OBVIOUS
<1>5. PICK y : y = [x EXCEPT !.pc = pc]
  OBVIOUS
<1>6. status \in Status /\ in \in Nat /\ pc \in {"wait", "loop", "engine", "winding", "closing", "end", "crashed"}
  BY <1>1, <1>2, <1>3 DEF Status, ParentType
<1>7. x \in ParentType
  BY <1>4, <1>6, ZenonT(60) DEF ParentType
<1>8. x.status = status /\ x.in = in
      /\ x.pc = p.pc /\ x.proxy = p.proxy /\ x.connected = p.connected /\ x.quit = p.quit /\ x.killed = p.killed
      /\ x.calls = p.calls /\ x.pending = p.pending /\ x.out = p.out /\ x.report = p.report /\ x.result = p.result
      /\ x.asked = p.asked /\ x.aborted = p.aborted
  BY <1>4 DEF ParentType
<1>9. y \in ParentType
  BY <1>5, <1>6, <1>7, ZenonT(60) DEF ParentType
<1>10. y.pc = pc
       /\ y.status = x.status /\ y.proxy = x.proxy /\ y.connected = x.connected /\ y.quit = x.quit /\ y.killed = x.killed
       /\ y.calls = x.calls /\ y.pending = x.pending /\ y.out = x.out /\ y.in = x.in /\ y.report = x.report
       /\ y.result = x.result /\ y.asked = x.asked /\ y.aborted = x.aborted
  BY <1>5, <1>7 DEF ParentType
<1>11. x = IF m.ok THEN [p EXCEPT !.status = "GOT_REPLY", !.in = m.msg]
           ELSE IF p.report \in {"none", "bare"} THEN [p EXCEPT !.status = "FAILED"] ELSE p
  BY <1>1, <1>2, <1>4 DEF ParentType
<1>12. storeReplyMsg(p, m) = g_main_loop_quit(x)
  BY <1>11, Zenon DEF storeReplyMsg
<1>13. g_main_loop_quit(x) = y
  BY <1>3, <1>5, <1>8 DEF g_main_loop_quit
<1>14. QED
  BY <1>1, <1>2, <1>3, <1>8, <1>9, <1>10, <1>12, <1>13 DEF StoredRel

\* A call is done, because its reply has arrived or because the connection is lost.
LEMMA CallDone ==
    ASSUME IInv, Here(parent), NEW m, m.ok \in BOOLEAN, m.msg \in Nat, m.type = "reply", m.call \in parent.pending,
           m \in P \/ (child.pc = "gone" /\ ~m.ok),
           parent' = storeReplyMsg([parent EXCEPT !.pending = @ \ {m.call}], m),
           toParent' \in Seq(ParentMsgs), P' \subseteq P, UNCHANGED <<child, toChild>>
    PROVE  IInv'
<1> USE DEF IInv
<1>1. C' = C
  BY DEF C
<1>2. PICK pending : pending = parent.pending \ {m.call}
  OBVIOUS
<1>3. parent.pending = {m.call} /\ m.call = parent.calls /\ m.call # 0 /\ pending = {}
  BY <1>2 DEF Outstanding
<1>4. PICK p : p = [parent EXCEPT !.pending = pending]
  OBVIOUS
<1>5. p \in ParentType
  <2>1. pending \in SUBSET Nat
    BY <1>3
  <2>2. QED
    BY <1>4, <2>1, ZenonT(60) DEF ParentType
<1>6. p.pending = {}
      /\ p.pc = parent.pc /\ p.status = parent.status /\ p.proxy = parent.proxy /\ p.connected = parent.connected /\ p.quit = parent.quit
      /\ p.killed = parent.killed /\ p.calls = parent.calls /\ p.out = parent.out /\ p.in = parent.in /\ p.report = parent.report
      /\ p.result = parent.result /\ p.asked = parent.asked /\ p.aborted = parent.aborted
  BY <1>3, <1>4 DEF ParentType
<1>7. StoredRel(p, m.ok, m.msg, parent')
  BY <1>2, <1>4, <1>5, StoredIs
<1>8. parent' \in ParentType /\ parent'.pending = {}
      /\ parent'.pc = (IF parent.pc = "loop" THEN "wait" ELSE parent.pc)
      /\ (m.ok => parent'.status = "GOT_REPLY" /\ parent'.in = m.msg)
      /\ (~m.ok => parent'.in = parent.in /\ parent'.status \in {parent.status, "FAILED"}
                   /\ (parent'.status # parent.status => parent.report \in {"none", "bare"}))
      /\ parent'.proxy = parent.proxy /\ parent'.connected = parent.connected /\ parent'.quit = parent.quit /\ parent'.killed = parent.killed /\ parent'.calls = parent.calls
      /\ parent'.out = parent.out /\ parent'.report = parent.report /\ parent'.result = parent.result /\ parent'.asked = parent.asked /\ parent'.aborted = parent.aborted
  BY <1>6, <1>7 DEF StoredRel
<1>9. Here(parent') /\ (parent'.pc \in {"wait", "loop"} <=> parent.pc \in {"wait", "loop"})
      /\ (parent'.pc = "closing" <=> parent.pc = "closing") /\ parent'.pc \notin {"end", "crashed"}
      /\ (parent'.pc = "winding" <=> parent.pc = "winding") /\ parent.pc # "engine" /\ parent'.pc # "engine"
  BY <1>3, <1>8 DEF Here, Outstanding
<1>10. \A n \in C : ~IsCall(n)
  <2>1. CASE child.pc = "gone"
    BY <2>1 DEF Connected
  <2>2. CASE m \in P
    BY <1>3, <2>2 DEF Outstanding
  <2>3. QED
    BY <2>1, <2>2
<1>11. ~(child.pc = "wait" /\ child.status = "GOT_REPLY")
  <2>1. CASE child.pc = "gone"
    BY <2>1
  <2>2. CASE m \in P
    BY <1>3, <2>2 DEF Outstanding
  <2>3. QED
    BY <2>1, <2>2
<1>12. child.started /\ parent.pc # "closing" /\ child.pc # "gone" => Waits(child)
  BY DEF Turn, Blamed, Refused
<1>13. parent.calls > 0
  BY <1>3 DEF ParentType
<1>14. Connected(parent', child', C', P')
  BY <1>1, <1>8, <1>9, <1>13 DEF Connected
<1>15. Outstanding(parent', child', C', P')
  BY <1>1, <1>8, <1>9, <1>10, <1>11 DEF Outstanding
<1>16. m.ok /\ m.msg # 0 => m.msg = child.out /\ child.reply = 0
  BY DEF Wanted
<1>17. Wanted(parent', child', P')
  BY <1>3, <1>8, <1>9, <1>16 DEF Wanted
<1>18. Turn(parent', child', C', P')
  <2>1. \A n \in C' : n.type # "SendMsg"
    BY <1>1, <1>10 DEF IsCall
  <2>2. child.final => parent'.pc \in {"closing", "end", "crashed"}
    BY <1>9 DEF Turn, Here
  <2>3. QED
    BY <1>8, <1>9, <1>12, <2>1, <2>2 DEF Turn
<1>19. Reported(parent', child', C', P')
  BY <1>1, <1>8 DEF Reported
<1>20. ~m.ok /\ parent.report \in {"none", "bare"} => Refused(parent, child, C) \/ Unexplained(child)
  <2>1. CASE child.pc = "gone"
    <3>1. child.exit = "0" => parent.report = child.report
      BY DEF Reported, Connected
    <3>2. QED
      BY <2>1, <3>1 DEF Unexplained
  <2>2. CASE m \in P
    BY <2>2 DEF Blamed
  <2>3. QED
    BY <2>1, <2>2
<1>21. Blamed(parent', child', C', P')
  BY <1>1, <1>8, <1>9, <1>20 DEF Blamed, Refused
<1>22. QED
  BY <1>1, <1>8, <1>13, <1>14, <1>15, <1>17, <1>18, <1>19, <1>21

\* A pending call fails after the connection was lost.
LEMMA CallFailsKeeps ==
    ASSUME IInv, CallFails
    PROVE  IInv'
<1>1. Here(parent) /\ child.pc = "gone" /\ UNCHANGED <<child, toChild, toParent>>
  BY DEF CallFails, ParentRunsLoop, ParentGone, Here, ChildGone
<1>2. PICK call \in parent.pending :
        parent' = storeReplyMsg([parent EXCEPT !.pending = @ \ {call}], Error(call))
  BY DEF CallFails
<1>3. PICK m : m = Error(call)
  OBVIOUS
<1>4. m.ok \in BOOLEAN /\ ~m.ok /\ m.msg \in Nat /\ m.type = "reply" /\ m.call = call
  BY <1>3 DEF Error
<1>5. P' = P /\ toParent' \in Seq(ParentMsgs)
  BY <1>1 DEF P, IInv
<1>6. QED
  BY <1>1, <1>2, <1>3, <1>4, <1>5, CallDone

\* The child has connected.
LEMMA ConnectKeeps ==
    ASSUME IInv, Here(parent), NEW m \in P, m.type = "connect", onChildConnect,
           toParent' \in Seq(ParentMsgs), P' = {}, UNCHANGED child
    PROVE  IInv'
<1> USE DEF IInv
<1>1. parent.calls = 0 /\ C = {}
  BY DEF Connected
<1>2. parent' = [parent EXCEPT !.connected = TRUE, !.proxy = TRUE, !.calls = 1, !.pending = {1}]
  BY DEF onChildConnect
<1>3. parent' \in ParentType
  <2>1. 1 \in Nat /\ {1} \in SUBSET Nat
    OBVIOUS
  <2>2. QED
    BY <1>2, <2>1, ZenonT(60) DEF ParentType
<1>4. parent'.connected /\ parent'.proxy /\ parent'.calls = 1 /\ parent'.pending = {1}
      /\ parent'.pc = parent.pc /\ parent'.status = parent.status /\ parent'.quit = parent.quit /\ parent'.killed = parent.killed /\ parent'.out = parent.out
      /\ parent'.in = parent.in /\ parent'.report = parent.report /\ parent'.result = parent.result /\ parent'.asked = parent.asked /\ parent'.aborted = parent.aborted
  BY <1>2 DEF ParentType
<1>5. PICK n : n = [type |-> "StartSync", call |-> 1]
  OBVIOUS
<1>6. n \in ChildMsgs /\ n.type = "StartSync" /\ n.call = 1
  BY <1>5 DEF ChildMsgs
<1>7. toChild' = IF child.pc = "gone" THEN toChild ELSE Append(toChild, n)
  BY <1>5 DEF onChildConnect, SentToChild, ChildGone
<1>8. toChild' \in Seq(ChildMsgs) /\ Single(toChild') /\ (IF child.pc = "gone" THEN C' = {} ELSE C' = {n})
  BY <1>1, <1>6, <1>7, AppendOf DEF C
<1>9. Here(parent') /\ child.pc \in {"start", "waitSync", "gone"} /\ child.exit # "0" /\ child.reply = 0
      /\ ~child.started /\ parent.pc \in {"wait", "loop", "winding"} /\ ~child.lost
      /\ parent.status # "GOT_REPLY" /\ (parent.pc = "winding" \/ parent.status = "FAILED" => parent.quit)
      /\ (parent.quit => child.pc = "gone") /\ child.pc # "start"
  BY <1>1, <1>4 DEF Connected, Here
<1>10. Connected(parent', child', C', P')
  BY <1>4, <1>8, <1>9 DEF Connected
<1>11. Outstanding(parent', child', C', P')
  BY <1>4, <1>6, <1>8, <1>9 DEF Outstanding, IsCall
<1>12. Wanted(parent', child', P')
  BY <1>4, <1>9 DEF Wanted
<1>13. Turn(parent', child', C', P')
  <2>1. ~child.final
    BY <1>9 DEF Turn
  <2>2. QED
    BY <1>4, <1>6, <1>8, <1>9, <2>1 DEF Turn
<1>14. Reported(parent', child', C', P')
  BY <1>1, <1>4, <1>6, <1>8 DEF Reported
<1>15. Blamed(parent', child', C', P')
  <2>1. parent.result = "transport" \/ (parent.pc \in {"wait", "loop"} /\ parent.status = "FAILED") => Unexplained(child)
    BY <1>1 DEF Blamed, Refused
  <2>2. parent.status = "CANCELED" => parent.aborted
    BY DEF Blamed
  <2>3. QED
    BY <1>4, <2>1, <2>2 DEF Blamed
<1>16. QED
  BY <1>3, <1>4, <1>8, <1>10, <1>11, <1>12, <1>13, <1>14, <1>15

\* The parent learns or says something that is no call: the report of the child or a
\* password.
LEMMA Informed ==
    ASSUME IInv, Here(parent), NEW report \in {parent.report, child.report}, NEW asked \in BOOLEAN,
           parent' = [parent EXCEPT !.report = report, !.asked = asked],
           NEW n \in ChildMsgs, n.type \in {"ack", "password"},
           n.type = "ack" => report = child.report /\ child.report # "none", parent.connected,
           toChild' = toChild \/ (child.pc # "gone" /\ toChild' = Append(toChild, n)),
           toParent' \in Seq(ParentMsgs), P' \subseteq P, Len(toParent') <= Len(toParent), UNCHANGED child
    PROVE  IInv'
<1> USE DEF IInv
<1>1. parent' \in ParentType
  <2>1. report \in Reports
    BY DEF ParentType, ChildType
  <2>2. QED
    BY <2>1, ZenonT(60) DEF ParentType
<1>2. parent'.report = report
      /\ parent'.pc = parent.pc /\ parent'.status = parent.status /\ parent'.proxy = parent.proxy /\ parent'.connected = parent.connected /\ parent'.quit = parent.quit
      /\ parent'.killed = parent.killed /\ parent'.calls = parent.calls /\ parent'.pending = parent.pending /\ parent'.out = parent.out /\ parent'.in = parent.in
      /\ parent'.result = parent.result /\ parent'.aborted = parent.aborted
  BY DEF ParentType
<1>3. ~IsCall(n)
  BY DEF IsCall
<1>4. toChild' \in Seq(ChildMsgs) /\ Single(toChild') /\ (C' = C \/ (C' = C \cup {n} /\ child.pc # "gone" /\ child' = child))
  <2>1. CASE toChild' = toChild
    BY <2>1 DEF C
  <2>2. CASE child.pc # "gone" /\ toChild' = Append(toChild, n)
    BY <1>3, <2>2, AppendOf DEF C
  <2>3. QED
    BY <2>1, <2>2
<1>5. Here(parent') /\ (\A m \in C' : IsCall(m) \/ m.type \in {"StartSync", "SendMsg"} => m \in C)
      /\ (\A m \in C' : m.type = "ack" => m \in C \/ n.type = "ack") /\ C \subseteq C'
  BY <1>2, <1>3, <1>4 DEF Here, IsCall
<1>6. parent'.calls = 0 => Len(toParent') <= 1
  BY <1>2
<1>7. parent.calls # 0
  BY DEF Connected, ParentType
<1>8. Connected(parent', child', C', P')
  BY <1>2, <1>4, <1>5, <1>7 DEF Connected
<1>9. Outstanding(parent', child', C', P')
  BY <1>2, <1>5 DEF Outstanding
<1>10. Wanted(parent', child', P')
  BY <1>2, <1>5 DEF Wanted
<1>11. Turn(parent', child', C', P')
  BY <1>2, <1>5 DEF Turn, Here
<1>12. Reported(parent', child', C', P')
  BY <1>2, <1>5 DEF Reported, Connected
<1>13. Blamed(parent', child', C', P')
  BY <1>2, <1>5 DEF Blamed, Refused
<1>14. QED
  BY <1>1, <1>4, <1>6, <1>8, <1>9, <1>10, <1>11, <1>12, <1>13

\* A message arrives at the parent.
LEMMA ParentReceiveKeeps ==
    ASSUME IInv, ParentReceive
    PROVE  IInv'
<1>1. Here(parent) /\ toParent # <<>> /\ toParent' = Tail(toParent) /\ child' = child
  BY DEF ParentReceive, ParentRunsLoop, ParentGone, Here
<1>2. PICK m : m = Head(toParent)
  OBVIOUS
<1>3. toParent \in Seq(ParentMsgs) /\ toChild \in Seq(ChildMsgs) /\ Len(toParent) \in Nat
  BY DEF IInv
<1>4. m \in P /\ m \in ParentMsgs /\ toParent' \in Seq(ParentMsgs) /\ P' \subseteq P /\ Len(toParent') = Len(toParent) - 1
  BY <1>1, <1>2, <1>3, TailOf DEF P
<1>5. Len(toParent') <= Len(toParent)
  BY <1>3, <1>4
<1>6. parent = [parent EXCEPT !.report = parent.report, !.asked = parent.asked]
      /\ parent.report \in Reports /\ parent.asked \in BOOLEAN /\ parent.proxy \in BOOLEAN
  BY DEF IInv, ParentType
<1>7. /\ m.type = "connect" => onChildConnect
      /\ m.type = "reply" => ReceiveReply(m)
      /\ m.type = "StoreSyncReport" /\ parent.proxy =>
           parent' = storeSyncReport(parent, m.report) /\ toChild' = SentToChild([type |-> "ack"])
      /\ m.type = "AskPassword" /\ parent.proxy => parent' = [parent EXCEPT !.asked = TRUE] /\ toChild' = toChild
      /\ m.type \in {"StoreSyncReport", "AskPassword"} /\ ~parent.proxy => parent' = parent /\ toChild' = toChild
  BY <1>2, <1>4 DEF ParentReceive, ParentMsgs
<1>8. PICK ack : ack = [type |-> "ack"]
  OBVIOUS
<1>9. ack \in ChildMsgs /\ ack.type = "ack"
  BY <1>8 DEF ChildMsgs
<1>10. PICK password : password = [type |-> "password", ok |-> TRUE]
  OBVIOUS
<1>11. password \in ChildMsgs /\ password.type = "password"
  BY <1>10 DEF ChildMsgs
<1>12. CASE m.type = "connect"
  <2>1. parent.calls = 0 /\ Len(toParent) <= 1
    BY <1>4, <1>12 DEF IInv, Connected
  <2>2. Len(toParent') = 0
    BY <1>1, <1>3, <1>4, <2>1
  <2>3. P' = {}
    <3>1. toParent' = <<>>
      BY <1>4, <2>2
    <3>2. QED
      BY <3>1, FewMessages DEF P
  <2>4. QED
    BY <1>1, <1>4, <1>7, <1>12, <2>3, ConnectKeeps
<1>13. CASE m.type = "reply"
  <2>1. ReceiveReply(m) /\ m.ok \in BOOLEAN /\ m.msg \in Nat
    BY <1>4, <1>7, <1>13 DEF ParentMsgs
  <2>2. CASE m.call \in parent.pending
    <3>1. parent' = storeReplyMsg([parent EXCEPT !.pending = @ \ {m.call}], m) /\ toChild' = toChild
      BY <2>1, <2>2 DEF ReceiveReply
    <3>2. QED
      BY <1>1, <1>4, <1>13, <2>1, <2>2, <3>1, CallDone
  <2>3. CASE m.call \notin parent.pending
    <3>1. parent' = parent /\ toChild' = toChild
      BY <2>1, <2>3 DEF ReceiveReply
    <3>2. parent.connected
      BY <1>4, <1>13 DEF IInv, Connected, ParentType
    <3>3. QED
      BY <1>1, <1>4, <1>5, <1>6, <1>11, <3>1, <3>2, Informed
  <2>4. QED
    BY <2>2, <2>3
<1>14. CASE m.type \in {"StoreSyncReport", "AskPassword"}
  <2>1. parent.connected
    BY <1>4, <1>14 DEF IInv, Connected, ParentType
  <2>2. CASE ~parent.proxy
    BY <1>1, <1>4, <1>5, <1>6, <1>7, <1>11, <1>14, <2>1, <2>2, Informed
  <2>3. CASE parent.proxy /\ m.type = "AskPassword"
    <3>1. [parent EXCEPT !.asked = TRUE] = [parent EXCEPT !.report = parent.report, !.asked = TRUE]
      BY DEF IInv, ParentType
    <3>2. QED
      BY <1>1, <1>4, <1>5, <1>6, <1>7, <1>11, <2>1, <2>3, <3>1, Informed
  <2>4. CASE parent.proxy /\ m.type = "StoreSyncReport"
    <3>1. parent' = [parent EXCEPT !.report = m.report]
      BY <1>7, <2>4 DEF storeSyncReport
    <3>2. [parent EXCEPT !.report = m.report] = [parent EXCEPT !.report = m.report, !.asked = parent.asked]
      BY DEF IInv, ParentType
    <3>3. m.report = child.report /\ child.report # "none"
      BY <1>4, <2>4 DEF IInv, Reported
    <3>4. toChild' = toChild \/ (child.pc # "gone" /\ toChild' = Append(toChild, ack))
      BY <1>7, <1>8, <2>4 DEF SentToChild, ChildGone
    <3>5. QED
      BY <1>1, <1>4, <1>5, <1>6, <1>9, <2>1, <3>1, <3>2, <3>3, <3>4, Informed
  <2>5. QED
    BY <1>6, <1>14, <2>2, <2>3, <2>4
<1>15. m.type \in {"connect", "reply", "StoreSyncReport", "AskPassword"}
  BY <1>4 DEF ParentMsgs
<1>16. QED
  BY <1>12, <1>13, <1>14, <1>15

\* The user answers.
LEMMA AnswerPasswordKeeps ==
    ASSUME IInv, AnswerPassword
    PROVE  IInv'
<1>1. Here(parent) /\ parent.asked /\ UNCHANGED <<child, toParent>> /\ parent' = [parent EXCEPT !.asked = FALSE]
  BY DEF AnswerPassword, ParentRunsLoop, ParentGone, Here
<1>2. PICK ok \in BOOLEAN : toChild' = SentToChild([type |-> "password", ok |-> ok])
  BY DEF AnswerPassword
<1>3. PICK n : n = [type |-> "password", ok |-> ok]
  OBVIOUS
<1>4. n \in ChildMsgs /\ n.type = "password"
  BY <1>3 DEF ChildMsgs
<1>5. toChild' = toChild \/ (child.pc # "gone" /\ toChild' = Append(toChild, n))
  BY <1>2, <1>3 DEF SentToChild, ChildGone
<1>6. [parent EXCEPT !.asked = FALSE] = [parent EXCEPT !.report = parent.report, !.asked = FALSE]
  BY DEF IInv, ParentType
<1>7. toParent' \in Seq(ParentMsgs) /\ P' = P /\ Len(toParent') <= Len(toParent)
  BY <1>1 DEF IInv, P
<1>8. parent.connected
  BY <1>1 DEF IInv, Connected
<1>9. QED
  BY <1>1, <1>4, <1>5, <1>6, <1>7, <1>8, Informed

\* The child has quit.
LEMMA ChildWatchKeeps ==
    ASSUME IInv, ChildWatch
    PROVE  IInv'
<1> USE DEF IInv
<1>1. Here(parent) /\ child.pc = "gone" /\ ~parent.quit /\ UNCHANGED <<child, toChild, toParent>>
  BY DEF ChildWatch, ParentRunsLoop, ParentGone, Here, ChildGone
<1>2. C' = C /\ P' = P
  BY <1>1 DEF C, P
<1>3. PICK pc : pc = IF parent.pc = "loop" THEN "wait" ELSE parent.pc
  OBVIOUS
<1>4. PICK x : x = [parent EXCEPT !.quit = TRUE]
  OBVIOUS
<1>5. x \in ParentType
  BY <1>4, ZenonT(60) DEF ParentType
<1>6. PICK p : p = [x EXCEPT !.pc = pc]
  OBVIOUS
<1>7. p = g_main_loop_quit(x)
  <2>1. x.pc = parent.pc
    BY <1>4 DEF ParentType
  <2>2. QED
    BY <1>3, <1>6, <2>1 DEF g_main_loop_quit
<1>8. pc \in {"wait", "loop", "engine", "winding", "closing", "end", "crashed"}
  BY <1>3 DEF ParentType
<1>9. p \in ParentType
  BY <1>5, <1>6, <1>8, ZenonT(60) DEF ParentType
<1>10. p.pc = pc /\ p.quit
       /\ p.status = parent.status /\ p.proxy = parent.proxy /\ p.connected = parent.connected /\ p.killed = parent.killed /\ p.calls = parent.calls
       /\ p.pending = parent.pending /\ p.out = parent.out /\ p.in = parent.in /\ p.report = parent.report /\ p.result = parent.result
       /\ p.asked = parent.asked /\ p.aborted = parent.aborted
  BY <1>4, <1>6 DEF ParentType
<1>11. parent' = IF (~p.connected \/ child.exit # "0") /\ ~(child.exit = "killed" /\ p.killed)
                 THEN onFailure(p) ELSE p
  BY <1>4, <1>7, Zenon DEF ChildWatch, checkCompletion
<1>12. PICK failed \in BOOLEAN :
         failed = ((~p.connected \/ child.exit # "0") /\ ~(child.exit = "killed" /\ p.killed))
  OBVIOUS
<1>13. failed => child.exit # "0"
  <2>1. ~parent.connected => parent.calls = 0
    BY DEF Connected, ParentType
  <2>2. ~parent.connected => child.exit # "0"
    BY <2>1 DEF Connected
  <2>3. QED
    BY <1>10, <1>12, <2>2
<1>14. /\ parent' \in ParentType /\ parent'.pc = pc /\ parent'.quit
       /\ IF failed THEN parent'.status = "FAILED" /\ ~parent'.proxy
          ELSE parent'.status = parent.status /\ parent'.proxy = parent.proxy
       /\ parent'.connected = parent.connected /\ parent'.killed = parent.killed /\ parent'.calls = parent.calls /\ parent'.pending = parent.pending /\ parent'.out = parent.out
       /\ parent'.in = parent.in /\ parent'.report = parent.report /\ parent'.result = parent.result /\ parent'.asked = parent.asked /\ parent'.aborted = parent.aborted
  <2>1. CASE failed
    <3>1. parent' = [p EXCEPT !.status = "FAILED", !.proxy = FALSE]
      BY <1>11, <1>12, <2>1 DEF onFailure
    <3>2. "FAILED" \in Status
      BY DEF Status
    <3>3. parent' \in ParentType
      BY <1>9, <3>1, <3>2, ZenonT(60) DEF ParentType
    <3>4. QED
      BY <1>9, <1>10, <2>1, <3>1, <3>3 DEF ParentType
  <2>2. CASE ~failed
    <3>1. parent' = p
      BY <1>11, <1>12, <2>2
    <3>2. QED
      BY <1>9, <1>10, <2>2, <3>1
  <2>3. QED
    BY <2>1, <2>2
<1>15. Here(parent') /\ (pc \in {"wait", "loop"} <=> parent.pc \in {"wait", "loop"})
       /\ (pc = "closing" <=> parent.pc = "closing") /\ (pc = "engine" <=> parent.pc = "engine")
       /\ (pc = "winding" <=> parent.pc = "winding") /\ pc \notin {"end", "crashed"}
  BY <1>1, <1>3, <1>14 DEF Here
<1>16. Connected(parent', child', C', P')
  BY <1>1, <1>2, <1>13, <1>14, <1>15 DEF Connected, Here
<1>17. Outstanding(parent', child', C', P')
  BY <1>1, <1>2, <1>14, <1>15 DEF Outstanding
<1>18. Wanted(parent', child', P')
  BY <1>1, <1>2, <1>14, <1>15 DEF Wanted
<1>19. Turn(parent', child', C', P')
  BY <1>1, <1>2, <1>14, <1>15 DEF Turn, Here
<1>20. Reported(parent', child', C', P')
  BY <1>1, <1>2, <1>14 DEF Reported
<1>21. Blamed(parent', child', C', P')
  BY <1>1, <1>2, <1>13, <1>14, <1>15 DEF Blamed, Refused, Unexplained
<1>22. QED
  BY <1>1, <1>2, <1>14, <1>16, <1>17, <1>18, <1>19, <1>20, <1>21

\* The sync is aborted.
LEMMA AbortKeeps ==
    ASSUME IInv, Abort
    PROVE  IInv'
<1> USE DEF IInv
<1>1. Here(parent) /\ UNCHANGED <<toChild, toParent>>
  BY DEF Abort, ParentRunsLoop, ParentGone, Here
<1>2. C' = C /\ P' = P
  BY <1>1 DEF C, P
<1>3. PICK x : x = [parent EXCEPT !.aborted = TRUE]
  OBVIOUS
<1>4. x \in ParentType
  BY <1>3, ZenonT(60) DEF ParentType
<1>5. x.aborted
      /\ x.pc = parent.pc /\ x.status = parent.status /\ x.proxy = parent.proxy /\ x.connected = parent.connected /\ x.quit = parent.quit
      /\ x.killed = parent.killed /\ x.calls = parent.calls /\ x.pending = parent.pending /\ x.out = parent.out /\ x.in = parent.in
      /\ x.report = parent.report /\ x.result = parent.result /\ x.asked = parent.asked
  BY <1>3 DEF ParentType
<1>6. PICK killed \in BOOLEAN : killed = (x.killed \/ ~x.quit)
  OBVIOUS
<1>7. parent' = [x EXCEPT !.status = "CANCELED", !.killed = killed]
  BY <1>3, <1>6, Zenon DEF Abort, cancel
<1>8. parent' \in ParentType
  <2>1. "CANCELED" \in Status
    BY DEF Status
  <2>2. QED
    BY <1>4, <1>7, <2>1, ZenonT(60) DEF ParentType
<1>9. parent'.status = "CANCELED" /\ parent'.aborted
      /\ parent'.pc = parent.pc /\ parent'.proxy = parent.proxy /\ parent'.connected = parent.connected /\ parent'.quit = parent.quit /\ parent'.calls = parent.calls
      /\ parent'.pending = parent.pending /\ parent'.out = parent.out /\ parent'.in = parent.in /\ parent'.report = parent.report /\ parent'.result = parent.result
      /\ parent'.asked = parent.asked
  BY <1>4, <1>5, <1>7 DEF ParentType
<1>10. PICK kill \in BOOLEAN : child' = [child EXCEPT !.kill = kill]
  <2>1. PICK k \in BOOLEAN : k = (~ChildGone /\ parent'.killed)
    OBVIOUS
  <2>2. QED
    BY <2>1 DEF Abort
<1>11. child' \in ChildType
  BY <1>10, ZenonT(60) DEF ChildType
<1>12. child'.pc = child.pc /\ child'.status = child.status /\ child'.reply = child.reply /\ child'.in = child.in /\ child'.final = child.final
       /\ child'.out = child.out /\ child'.lost = child.lost /\ child'.acked = child.acked /\ child'.report = child.report /\ child'.exit = child.exit
       /\ child'.started = child.started /\ child'.asked = child.asked
  BY <1>10 DEF ChildType
<1>13. Here(parent')
  BY <1>1, <1>9 DEF Here
<1>14. Connected(parent', child', C', P')
  BY <1>1, <1>2, <1>9, <1>12, <1>13 DEF Connected
<1>15. Outstanding(parent', child', C', P')
  BY <1>1, <1>2, <1>9, <1>12, <1>13 DEF Outstanding
<1>16. Wanted(parent', child', P')
  BY <1>1, <1>2, <1>9, <1>12, <1>13 DEF Wanted
<1>17. Turn(parent', child', C', P')
  BY <1>1, <1>2, <1>9, <1>12, <1>13 DEF Turn, Waits
<1>18. Reported(parent', child', C', P')
  BY <1>1, <1>2, <1>9, <1>12 DEF Reported
<1>19. Blamed(parent', child', C', P')
  BY <1>1, <1>2, <1>9, <1>12, <1>13 DEF Blamed, Refused, Unexplained
<1>20. QED
  BY <1>1, <1>2, <1>8, <1>9, <1>11, <1>14, <1>15, <1>16, <1>17, <1>18, <1>19

-----------------------------------------------------------------------------
(***************************************************************************)
(* Steps of the child.                                                     *)
(***************************************************************************)

\* What the child says reaches the parent if that is still there.
LEMMA Said ==
    ASSUME toParent \in Seq(ParentMsgs), NEW r \in Seq(ParentMsgs)
    PROVE  /\ SentToParent(r) \in Seq(ParentMsgs)
           /\ ~Here(parent) => SentToParent(r) = toParent
           /\ Here(parent) => ToSet(SentToParent(r)) = P \cup ToSet(r) /\ Len(SentToParent(r)) = Len(toParent) + Len(r)
<1>1. SentToParent(r) = IF Here(parent) THEN toParent \o r ELSE toParent
  BY DEF SentToParent, ParentGone, Here
<1>2. QED
  BY <1>1, CatOf DEF P

\* The process of the child ends.
LEMMA QuitKeeps ==
    ASSUME IInv, child.pc # "gone", NEW exit \in {"0", "1", "killed", "crashed"}, Quit(exit),
           exit = "0" => (child.acked \/ child.lost) /\ child.pc = "ack"
    PROVE  IInv'
<1> USE DEF IInv
<1>1. parent' = parent /\ toChild' = <<>> /\ child' = [child EXCEPT !.pc = "gone", !.exit = exit]
      /\ (toParent' = toParent \/ toParent' \in Prefixes(toParent))
  BY DEF Quit
<1>2. toChild' \in Seq(ChildMsgs) /\ Single(toChild') /\ C' = {}
  BY <1>1, FewMessages DEF C
<1>3. toParent' \in Seq(ParentMsgs) /\ P' \subseteq P /\ Len(toParent') <= Len(toParent)
  <2>1. CASE toParent' = toParent
    BY <2>1 DEF P
  <2>2. CASE toParent' \in Prefixes(toParent)
    BY <2>2, PrefixOf DEF P
  <2>3. QED
    BY <1>1, <2>1, <2>2
<1>4. child' \in ChildType
  BY <1>1, ZenonT(60) DEF ChildType
<1>5. child'.pc = "gone" /\ child'.exit = exit
      /\ child'.status = child.status /\ child'.reply = child.reply /\ child'.in = child.in /\ child'.final = child.final /\ child'.out = child.out
      /\ child'.lost = child.lost /\ child'.acked = child.acked /\ child'.report = child.report /\ child'.started = child.started /\ child'.asked = child.asked
      /\ child'.kill = child.kill
  BY <1>1 DEF ChildType
<1>6. parent'.calls = 0 => Len(toParent') <= 1
  <2>1. Len(toParent) \in Nat /\ Len(toParent') \in Nat
    BY <1>3
  <2>2. QED
    BY <1>1, <1>3, <2>1
<1>7. Connected(parent', child', C', P')
  BY <1>1, <1>2, <1>3, <1>5 DEF Connected
<1>8. Outstanding(parent', child', C', P')
  BY <1>1, <1>2, <1>3, <1>5 DEF Outstanding
<1>9. Wanted(parent', child', P') /\ Turn(parent', child', C', P')
  BY <1>1, <1>2, <1>3, <1>5 DEF Wanted, Turn
<1>10. Reported(parent', child', C', P')
  BY <1>1, <1>2, <1>3, <1>5 DEF Reported
<1>11. Blamed(parent', child', C', P')
  BY <1>1, <1>2, <1>3, <1>5 DEF Blamed, Refused, Unexplained
<1>12. QED
  BY <1>1, <1>2, <1>3, <1>4, <1>6, <1>7, <1>8, <1>9, <1>10, <1>11

\* The child connects.
LEMMA ChildConnectKeeps ==
    ASSUME IInv, Connect
    PROVE  IInv'
<1> USE DEF IInv
<1>1. child.pc = "start" /\ parent.calls = 0 /\ P = {} /\ C = {}
  BY DEF Connect, Connected
<1>2. CASE ~Here(parent)
  BY <1>1, <1>2, QuitKeeps DEF Connect, ParentGone, Here
<1>3. CASE Here(parent)
  <2>1. child' = [child EXCEPT !.pc = "waitSync"] /\ UNCHANGED <<parent, toChild>>
        /\ toParent' = SentToParent(<<[type |-> "connect"]>>)
    BY <1>3 DEF Connect, ParentGone, Here
  <2>2. PICK m : m = [type |-> "connect"]
    OBVIOUS
  <2>3. m \in ParentMsgs /\ m.type = "connect"
    BY <2>2 DEF ParentMsgs
  <2>4. <<m>> \in Seq(ParentMsgs) /\ ToSet(<<m>>) = {m} /\ Len(<<m>>) = 1
    BY <2>3, FewMessages
  <2>5. toParent' \in Seq(ParentMsgs) /\ P' = P \cup {m} /\ Len(toParent') = Len(toParent) + 1
    BY <1>3, <2>1, <2>2, <2>4, Said DEF P
  <2>6. Len(toParent) = 0
    <3>1. \A i \in 1..Len(toParent) : toParent[i] \in P
      BY DEF P, ToSet
    <3>2. Len(toParent) \in Nat
      OBVIOUS
    <3>3. QED
      BY <1>1, <3>1, <3>2
  <2>7. child' \in ChildType
    BY <2>1, ZenonT(60) DEF ChildType
  <2>8. child'.pc = "waitSync"
        /\ child'.status = child.status /\ child'.reply = child.reply /\ child'.in = child.in /\ child'.final = child.final /\ child'.out = child.out
        /\ child'.lost = child.lost /\ child'.acked = child.acked /\ child'.report = child.report /\ child'.exit = child.exit /\ child'.started = child.started
        /\ child'.asked = child.asked /\ child'.kill = child.kill
    BY <2>1 DEF ChildType
  <2>9. C' = C
    BY <2>1 DEF C
  <2>10. \A n \in P' : n.type = "connect"
    BY <1>1, <2>3, <2>5
  <2>11. Connected(parent', child', C', P')
    BY <1>1, <2>1, <2>8, <2>9, <2>10 DEF Connected
  <2>12. Outstanding(parent', child', C', P')
    BY <1>1, <2>1, <2>8, <2>9, <2>10 DEF Outstanding
  <2>13. Wanted(parent', child', P') /\ Turn(parent', child', C', P')
    BY <1>1, <2>1, <2>8, <2>9, <2>10 DEF Wanted, Turn, Connected
  <2>14. Reported(parent', child', C', P')
    BY <1>1, <2>1, <2>8, <2>9, <2>10 DEF Reported
  <2>15. Blamed(parent', child', C', P')
    BY <1>1, <2>1, <2>8, <2>9, <2>10 DEF Blamed, Refused, Unexplained
  <2>16. Len(toParent') <= 1 /\ Single(toChild') /\ toChild' \in Seq(ChildMsgs) /\ parent' \in ParentType
    <3>1. Len(toParent') <= 1
      BY <2>5, <2>6
    <3>2. Single(toChild') /\ toChild' \in Seq(ChildMsgs) /\ parent' \in ParentType
      <4>1. toChild' = toChild /\ parent' = parent
        BY <2>1
      <4>2. Single(toChild) /\ toChild \in Seq(ChildMsgs) /\ parent \in ParentType
        OBVIOUS
      <4>3. QED
        BY <4>1, <4>2, Zenon
    <3>3. QED
      BY <3>1, <3>2
  <2>17. QED
    BY <2>5, <2>7, <2>11, <2>12, <2>13, <2>14, <2>15, <2>16
<1>4. QED
  BY <1>2, <1>3

\* The child reports, possibly after the last reply.
LEMMA ReportKeeps ==
    ASSUME IInv, child.pc \in {"engine", "wait", "password"}, child.pc = "wait" => child.lost,
           NEW report \in {"ok", "failed", "bare"}, NEW pc \in {"ack", "iterate"},
           NEW status \in {child.status, "CLOSED"}, NEW reply \in {child.reply, 0},
           child' = [child EXCEPT !.status = status, !.reply = reply, !.report = report, !.pc = pc],
           NEW r \in Seq(ParentMsgs), toParent' = SentToParent(r),
           \A m \in ToSet(r) : \/ m.type = "StoreSyncReport" /\ m.report = report
                               \/ /\ m.type = "reply" /\ m.ok /\ m.msg = 0 /\ m.call = child.reply
                                  /\ child.reply # 0 /\ child.final,
           toChild' \in Seq(ChildMsgs), Single(toChild'), C' \subseteq C, parent' = parent
    PROVE  IInv'
<1> USE DEF IInv
<1>1. child' \in ChildType
  <2>1. status \in Status /\ reply \in Nat /\ report \in Reports
    BY DEF ChildType, Status, Reports
  <2>2. QED
    BY <2>1, ZenonT(60) DEF ChildType
<1>2. child'.status = status /\ child'.reply = reply /\ child'.report = report /\ child'.pc = pc
      /\ child'.in = child.in /\ child'.final = child.final /\ child'.out = child.out /\ child'.lost = child.lost /\ child'.acked = child.acked
      /\ child'.exit = child.exit /\ child'.started = child.started /\ child'.asked = child.asked /\ child'.kill = child.kill
  BY DEF ChildType
<1>3. toParent' \in Seq(ParentMsgs) /\ (~Here(parent) => P' = P) /\ (Here(parent) => P' = P \cup ToSet(r))
  BY Said DEF P
<1>4. \A m \in P' : \/ m \in P
                    \/ m.type = "StoreSyncReport" /\ m.report = report
                    \/ /\ m.type = "reply" /\ m.ok /\ m.msg = 0 /\ m.call = child.reply
                       /\ child.reply # 0 /\ child.final
  BY <1>3
<1>5. parent.calls # 0
  BY DEF Connected
<1>6. child.report = "none" /\ ~child.acked /\ parent.report = "none"
      /\ (\A m \in P : m.type # "StoreSyncReport") /\ (\A m \in C : m.type # "ack")
  BY DEF Reported
<1>7. Here(parent) => ~Waits(child) /\ ~child.lost
  BY DEF Waits, Connected
<1>8. Connected(parent', child', C', P')
  BY <1>2, <1>4, <1>5 DEF Connected
<1>9. child.reply \in Nat /\ reply <= parent.calls /\ (child.reply # 0 => child.reply > 0)
  BY DEF ChildType, ParentType, Outstanding
<1>10. Outstanding(parent', child', C', P')
  <2>1. \A m \in C' : IsCall(m) => m.call # child.reply /\ m.call > 0 /\ m.call # reply
    BY DEF Outstanding
  <2>2. \A m \in C' : m.type # "StartSync"
    BY DEF Outstanding
  <2>3. \A m \in P' : m.type = "reply" => m \in P \/ (m.call = child.reply /\ child.reply > 0)
    BY <1>4, <1>9
  <2>4. \A m \in P' : m.type = "reply" => /\ m.call > 0 /\ m.call <= parent.calls
                                          /\ \A n \in C' : IsCall(n) => n.call # m.call
    BY <2>1, <2>3 DEF Outstanding
  <2>5. QED
    BY <1>2, <1>9, <2>1, <2>2, <2>4 DEF Outstanding
<1>11. Wanted(parent', child', P')
  BY <1>2, <1>4 DEF Wanted
<1>12. Turn(parent', child', C', P')
  <2>1. child'.final \/ (\E m \in C' : m.type = "SendMsg" /\ m.final) => parent'.pc \in {"closing", "end", "crashed"}
    BY <1>2 DEF Turn
  <2>2. ASSUME Here(parent), child.started
        PROVE  /\ \A m \in C' : m.type # "SendMsg"
               /\ parent.pc # "closing" => parent.pending # {}
               /\ parent.pc # "closing" => \A m \in P' : ~(m.type = "reply" /\ m.ok /\ m.call \in parent.pending)
    <3>1. \A m \in C : m.type # "SendMsg"
      BY <1>7, <2>2 DEF Turn
    <3>2. parent.pc # "closing" => parent.pending # {}
      BY <1>7, <2>2 DEF Turn
    <3>3. parent.pc # "closing" => \A m \in P : ~(m.type = "reply" /\ m.ok /\ m.call \in parent.pending)
      BY <1>7, <2>2 DEF Turn
    <3>4. child.final => parent.pc = "closing"
      BY <2>2 DEF Turn, Here
    <3>5. QED
      BY <1>4, <3>1, <3>2, <3>3, <3>4
  <2>3. QED
    BY <1>2, <2>1, <2>2 DEF Turn
<1>13. Reported(parent', child', C', P')
  BY <1>2, <1>4, <1>6 DEF Reported, Connected
<1>14. Blamed(parent', child', C', P')
  BY <1>2, <1>4 DEF Blamed, Refused, Unexplained
<1>15. QED
  BY <1>1, <1>3, <1>5, <1>8, <1>10, <1>11, <1>12, <1>13, <1>14

\* sync() of the child fails.
LEMMA SyncFailsKeeps ==
    ASSUME IInv, child.pc \in {"engine", "wait", "password"}, child.pc = "wait" => child.lost, SyncFails
    PROVE  IInv'
<1>1. PICK report \in {"failed", "bare"} :
        /\ child' \in {Returned(child, report), [child EXCEPT !.report = report, !.pc = "iterate"]}
        /\ toParent' = SentToParent(SyncReport(report))
  BY DEF SyncFails
<1>2. PICK pc \in {"ack", "iterate"} : child' = [child EXCEPT !.report = report, !.pc = pc]
  BY <1>1 DEF Returned
<1>3. child' = [child EXCEPT !.status = child.status, !.reply = child.reply, !.report = report, !.pc = pc]
  BY <1>2 DEF IInv, ChildType
<1>4. PICK m : m = [type |-> "StoreSyncReport", report |-> report]
  OBVIOUS
<1>5. m \in ParentMsgs /\ m.type = "StoreSyncReport" /\ m.report = report
  BY <1>4 DEF ParentMsgs, Reports
<1>6. <<m>> \in Seq(ParentMsgs) /\ ToSet(<<m>>) = {m} /\ toParent' = SentToParent(<<m>>)
  BY <1>1, <1>4, <1>5, FewMessages DEF SyncReport
<1>7. UNCHANGED <<parent, toChild>>
  BY DEF SyncFails
<1>8. toChild' \in Seq(ChildMsgs) /\ Single(toChild') /\ C' = C
  BY <1>7 DEF IInv, C
<1>9. QED
  BY <1>3, <1>5, <1>6, <1>7, <1>8, ReportKeeps

\* The child goes on without saying anything, or asks for a password.
LEMMA ChildGoes ==
    ASSUME IInv, child.pc \in {"engine", "wait", "password"}, child.pc = "wait" => child.status = "GOT_REPLY",
           NEW pc \in {"engine", "password"}, NEW asked \in BOOLEAN,
           child' = [child EXCEPT !.pc = pc, !.asked = asked],
           toParent' \in Seq(ParentMsgs), \A m \in P' : m \in P \/ m.type = "AskPassword",
           toChild' \in Seq(ChildMsgs), Single(toChild'), C' \subseteq C, parent' = parent
    PROVE  IInv'
<1> USE DEF IInv
<1>1. child' \in ChildType
  BY ZenonT(60) DEF ChildType
<1>2. child'.pc = pc
      /\ child'.status = child.status /\ child'.reply = child.reply /\ child'.in = child.in /\ child'.final = child.final /\ child'.out = child.out
      /\ child'.lost = child.lost /\ child'.acked = child.acked /\ child'.report = child.report /\ child'.exit = child.exit /\ child'.started = child.started
      /\ child'.kill = child.kill
  BY DEF ChildType
<1>3. ~Waits(child) /\ parent.calls # 0 /\ (\A m \in C : m.type # "StartSync")
  BY DEF Waits, Connected, Outstanding
<1>4. Connected(parent', child', C', P')
  BY <1>2, <1>3 DEF Connected
<1>5. \A m \in P' : m.type \in {"reply", "connect", "StoreSyncReport"} => m \in P
  OBVIOUS
<1>6. Outstanding(parent', child', C', P')
  BY <1>2, <1>3, <1>5 DEF Outstanding
<1>7. Wanted(parent', child', P')
  BY <1>2, <1>5 DEF Wanted
<1>8. Turn(parent', child', C', P')
  BY <1>2, <1>3, <1>5 DEF Turn
<1>9. Reported(parent', child', C', P')
  BY <1>2, <1>5 DEF Reported
<1>10. Blamed(parent', child', C', P')
  BY <1>2, <1>5 DEF Blamed, Refused, Unexplained
<1>11. QED
  BY <1>1, <1>3, <1>4, <1>6, <1>7, <1>8, <1>9, <1>10

\* The child sends its next message as reply.
LEMMA AnsweredKeeps ==
    ASSUME IInv, child.pc = "engine", child.reply # 0, ~child.final,
           child' = Answered(child), toParent' = SentToParent(<<Reply(child.reply, child.out + 1)>>),
           UNCHANGED <<parent, toChild>>
    PROVE  IInv'
<1> USE DEF IInv
<1>1. C' = C
  BY DEF C
<1>2. PICK out : out = child.out + 1
  OBVIOUS
<1>3. out \in Nat /\ child.reply \in Nat /\ child.reply > 0 /\ parent.calls \in Nat /\ parent.calls # 0
      /\ child.reply <= parent.calls
  BY <1>2 DEF ChildType, ParentType, Outstanding, Connected
<1>4. child' = [child EXCEPT !.status = "ACTIVE", !.out = out, !.reply = 0, !.pc = "wait"]
  BY <1>2 DEF Answered
<1>5. child' \in ChildType
  <2>1. "ACTIVE" \in Status /\ 0 \in Nat
    BY DEF Status
  <2>2. QED
    BY <1>3, <1>4, <2>1, ZenonT(60) DEF ChildType
<1>6. child'.status = "ACTIVE" /\ child'.out = out /\ child'.reply = 0 /\ child'.pc = "wait"
      /\ child'.in = child.in /\ child'.final = child.final /\ child'.lost = child.lost /\ child'.acked = child.acked /\ child'.report = child.report
      /\ child'.exit = child.exit /\ child'.started = child.started /\ child'.asked = child.asked /\ child'.kill = child.kill
  BY <1>4 DEF ChildType
<1>7. PICK r : r = Reply(child.reply, out)
  OBVIOUS
<1>8. r \in ParentMsgs /\ r.type = "reply" /\ r.ok /\ r.call = child.reply /\ r.msg = out
  BY <1>3, <1>7 DEF Reply, ParentMsgs
<1>9. <<r>> \in Seq(ParentMsgs) /\ ToSet(<<r>>) = {r} /\ toParent' = SentToParent(<<r>>)
  BY <1>2, <1>7, <1>8, FewMessages
<1>10. toParent' \in Seq(ParentMsgs) /\ (\A m \in P' : m \in P \/ (m = r /\ Here(parent)))
  BY <1>9, Said DEF P
<1>11. Waits(child')
  BY <1>6 DEF Waits
<1>12. Connected(parent', child', C', P')
  BY <1>1, <1>3, <1>6, <1>8, <1>10 DEF Connected
<1>13. Outstanding(parent', child', C', P')
  <2>1. \A m \in P' : m.type = "reply" => /\ m.call > 0 /\ m.call <= parent.calls
                                          /\ \A n \in C : IsCall(n) => n.call # m.call
    BY <1>3, <1>8, <1>10 DEF Outstanding
  <2>2. \A m \in C : IsCall(m) => m.call # 0
    BY DEF Outstanding
  <2>3. \A m \in C : m.type # "StartSync"
    BY DEF Outstanding
  <2>4. QED
    BY <1>1, <1>3, <1>6, <2>1, <2>2, <2>3 DEF Outstanding
<1>14. Wanted(parent', child', P')
  BY <1>6, <1>8, <1>10 DEF Wanted
<1>15. Turn(parent', child', C', P')
  BY <1>1, <1>6, <1>11 DEF Turn
<1>16. Reported(parent', child', C', P')
  BY <1>1, <1>6, <1>8, <1>10 DEF Reported
<1>17. Blamed(parent', child', C', P')
  BY <1>1, <1>6, <1>8, <1>10 DEF Blamed, Refused, Unexplained
<1>18. QED
  BY <1>1, <1>3, <1>5, <1>10, <1>12, <1>13, <1>14, <1>15, <1>16, <1>17

\* The client engine
LEMMA ChildEngineKeeps ==
    ASSUME IInv, ChildEngine
    PROVE  IInv'
<1>1. child.pc = "engine" /\ child \in ChildType /\ toParent \in Seq(ParentMsgs)
      /\ toChild \in Seq(ChildMsgs) /\ Single(toChild)
  BY DEF ChildEngine, IInv
<1>2. CASE SyncFails
  BY <1>1, <1>2, SyncFailsKeeps
<1>3. CASE /\ child' = [child EXCEPT !.asked = TRUE, !.pc = "password"]
           /\ toParent' = SentToParent(<<[type |-> "AskPassword"]>>)
           /\ UNCHANGED <<parent, toChild>>
  <2>1. PICK m : m = [type |-> "AskPassword"]
    OBVIOUS
  <2>2. m \in ParentMsgs /\ m.type = "AskPassword"
    BY <2>1 DEF ParentMsgs
  <2>3. <<m>> \in Seq(ParentMsgs) /\ ToSet(<<m>>) = {m} /\ toParent' = SentToParent(<<m>>)
    BY <1>3, <2>1, <2>2, FewMessages
  <2>4. toParent' \in Seq(ParentMsgs) /\ \A n \in P' : n \in P \/ n.type = "AskPassword"
    BY <1>1, <2>2, <2>3, Said DEF P
  <2>5. child' = [child EXCEPT !.pc = "password", !.asked = TRUE] /\ C' = C
    BY <1>1, <1>3 DEF ChildType, C
  <2>6. QED
    BY <1>1, <1>3, <2>4, <2>5, ChildGoes
<1>4. CASE /\ ~child.final /\ child.reply # 0
           /\ child' = Answered(child)
           /\ toParent' = SentToParent(<<Reply(child.reply, child.out + 1)>>)
           /\ UNCHANGED <<parent, toChild>>
  BY <1>1, <1>4, AnsweredKeeps
<1>5. CASE /\ child.final
           /\ child' = Returned([child EXCEPT !.status = "CLOSED", !.reply = 0], "ok")
           /\ toParent' = SentToParent((IF child.reply = 0 THEN <<>> ELSE <<Reply(child.reply, 0)>>)
                                       \o SyncReport("ok"))
           /\ UNCHANGED <<parent, toChild>>
  <2>1. child' = [child EXCEPT !.status = "CLOSED", !.reply = 0, !.report = "ok", !.pc = "ack"]
    BY <1>1, <1>5 DEF Returned, ChildType
  <2>2. PICK m : m = [type |-> "StoreSyncReport", report |-> "ok"]
    OBVIOUS
  <2>3. m \in ParentMsgs /\ m.type = "StoreSyncReport" /\ m.report = "ok"
    BY <2>2 DEF ParentMsgs, Reports
  <2>4. PICK n : n = Reply(child.reply, 0)
    OBVIOUS
  <2>5. n \in ParentMsgs /\ n.type = "reply" /\ n.ok /\ n.call = child.reply /\ n.msg = 0
    BY <1>1, <2>4 DEF Reply, ParentMsgs, ChildType
  <2>6. PICK q : q = IF child.reply = 0 THEN <<>> ELSE <<n>>
    OBVIOUS
  <2>7. q \in Seq(ParentMsgs) /\ <<m>> \in Seq(ParentMsgs) /\ ToSet(<<m>>) = {m}
        /\ \A k \in ToSet(q) : k = n /\ child.reply # 0
    <3>1. CASE child.reply = 0
      BY <2>3, <2>6, <3>1, FewMessages
    <3>2. CASE child.reply # 0
      BY <2>3, <2>5, <2>6, <3>2, FewMessages
    <3>3. QED
      BY <3>1, <3>2
  <2>8. PICK r : r = q \o <<m>>
    OBVIOUS
  <2>9. r \in Seq(ParentMsgs) /\ \A k \in ToSet(r) : k = m \/ (k = n /\ child.reply # 0)
    <3>4. q \in Seq(ParentMsgs) /\ <<m>> \in Seq(ParentMsgs)
      BY <2>7
    <3>5. q \o <<m>> \in Seq(ParentMsgs) /\ ToSet(q \o <<m>>) = ToSet(q) \cup ToSet(<<m>>)
      BY <3>4, CatOf, Zenon
    <3>1. r \in Seq(ParentMsgs) /\ ToSet(r) = ToSet(q) \cup ToSet(<<m>>)
      BY <2>8, <3>5, Zenon
    <3>2. ToSet(<<m>>) = {m} /\ \A k \in ToSet(q) : k = n /\ child.reply # 0
      BY <2>7
    <3>3. QED
      BY <3>1, <3>2, Zenon
  <2>10. toParent' = SentToParent(r)
    BY <1>5, <2>2, <2>4, <2>6, <2>8 DEF SyncReport
  <2>11. C' = C /\ toChild' = toChild /\ parent' = parent
    BY <1>5 DEF C
  <2>12. \A k \in ToSet(r) : \/ k.type = "StoreSyncReport" /\ k.report = "ok"
                             \/ /\ k.type = "reply" /\ k.ok /\ k.msg = 0 /\ k.call = child.reply
                                /\ child.reply # 0 /\ child.final
    BY <1>5, <2>3, <2>5, <2>9
  <2>13. QED
    BY <1>1, <2>1, <2>9, <2>10, <2>11, <2>12, ReportKeeps
<1>6. QED
  BY <1>2, <1>3, <1>4, <1>5 DEF ChildEngine

\* wait() of the child
LEMMA ChildWaitKeeps ==
    ASSUME IInv, ChildWait
    PROVE  IInv'
<1>1. child.pc = "wait" /\ child \in ChildType /\ toParent \in Seq(ParentMsgs)
      /\ toChild \in Seq(ChildMsgs) /\ Single(toChild)
  BY DEF ChildWait, IInv
<1>2. CASE /\ child.status = "GOT_REPLY"
           /\ child' = [child EXCEPT !.pc = "engine"]
           /\ UNCHANGED <<parent, toChild, toParent>>
  <2>1. child' = [child EXCEPT !.pc = "engine", !.asked = child.asked] /\ child.asked \in BOOLEAN
    BY <1>1, <1>2 DEF ChildType
  <2>2. C' = C /\ P' = P
    BY <1>2 DEF C, P
  <2>3. QED
    BY <1>1, <1>2, <2>1, <2>2, ChildGoes
<1>3. CASE child.lost /\ SyncFails
  BY <1>1, <1>3, SyncFailsKeeps
<1>4. QED
  BY <1>2, <1>3 DEF ChildWait

\* Everything else that ends the child or makes its sync fail
LEMMA ChildEndsKeeps ==
    ASSUME IInv, NoParent \/ NoPassword \/ Acknowledged \/ Iterate \/ Killed \/ ChildDies
    PROVE  IInv'
<1>1. CASE NoParent \/ Iterate \/ Killed \/ ChildDies
  <2>1. child.pc # "gone" /\ \E exit \in {"1", "killed", "crashed"} : Quit(exit)
    BY <1>1 DEF NoParent, Iterate, Killed, ChildDies, ChildGone
  <2>2. QED
    BY <2>1, QuitKeeps
<1>2. CASE Acknowledged
  BY <1>2, QuitKeeps DEF Acknowledged
<1>3. CASE NoPassword
  BY <1>3, SyncFailsKeeps DEF NoPassword
<1>4. QED
  BY <1>1, <1>2, <1>3

\* The connection to the parent is lost.
LEMMA ConnectionLostKeeps ==
    ASSUME IInv, ConnectionLost
    PROVE  IInv'
<1> USE DEF IInv
<1>1. child.pc # "gone" /\ ~Here(parent) /\ child' = [child EXCEPT !.lost = TRUE]
      /\ UNCHANGED <<parent, toChild, toParent>>
  BY DEF ConnectionLost, ParentGone, Here
<1>2. C' = C /\ P' = P
  BY <1>1 DEF C, P
<1>3. child' \in ChildType
  BY <1>1, ZenonT(60) DEF ChildType
<1>4. child'.lost
      /\ child'.pc = child.pc /\ child'.status = child.status /\ child'.reply = child.reply /\ child'.in = child.in /\ child'.final = child.final
      /\ child'.out = child.out /\ child'.acked = child.acked /\ child'.report = child.report /\ child'.exit = child.exit /\ child'.started = child.started
      /\ child'.asked = child.asked /\ child'.kill = child.kill
  BY <1>1 DEF ChildType
<1>5. Connected(parent', child', C', P')
  BY <1>1, <1>2, <1>4 DEF Connected
<1>6. Outstanding(parent', child', C', P')
  BY <1>1, <1>2, <1>4 DEF Outstanding
<1>7. Wanted(parent', child', P') /\ Turn(parent', child', C', P') /\ Reported(parent', child', C', P')
  BY <1>1, <1>2, <1>4 DEF Wanted, Turn, Waits, Reported
<1>8. Blamed(parent', child', C', P')
  BY <1>1, <1>2, <1>4 DEF Blamed, Refused, Unexplained
<1>9. QED
  BY <1>1, <1>2, <1>3, <1>5, <1>6, <1>7, <1>8

-----------------------------------------------------------------------------
(***************************************************************************)
(* Child: calls and answers of the parent.                                 *)
(***************************************************************************)

\* A call has reached the child, which holds it or refuses it, and may refuse an
\* older one.  As long as the parent is there, no other call is pending.
LEMMA CallTaken ==
    ASSUME IInv, child.pc \notin {"start", "iterate", "gone"}, child' \in ChildType,
           NEW m \in C, m \in ChildMsgs, IsCall(m),
           child'.out = child.out, child'.lost = child.lost, child'.acked = child.acked, child'.report = child.report, child'.exit = child.exit
          , child'.asked = child.asked, child'.kill = child.kill,
           child'.pc = child.pc \/ (m.type = "StartSync" /\ child'.pc \in {"waitSync", "engine"}),
           child'.reply \in {0, m.call},
           child'.final => child.final \/ (m.type = "SendMsg" /\ m.final),
           child'.pc = "wait" /\ child'.status = "GOT_REPLY" =>
               \/ m.type = "SendMsg" /\ child'.in = m.msg /\ child'.reply = m.call
               \/ child'.in = child.in /\ child.pc = "wait" /\ child.status = "GOT_REPLY" /\ child'.reply = 0,
           child'.started = child.started \/ (m.type = "StartSync" /\ P' \subseteq P),
           \A n \in P' : \/ n \in P
                         \/ /\ n.type = "reply" /\ ~n.ok /\ n.call \in {child.reply, m.call} \ {0}
                            /\ n.call = m.call => child'.pc # "wait" \/ child'.reply = 0
                            /\ Here(parent) => ~child.started,
           toChild' \in Seq(ChildMsgs), Single(toChild'), toParent' \in Seq(ParentMsgs),
           C' \subseteq C, \A n \in C : n = m \/ n \in C', \A n \in C' : ~IsCall(n),
           parent' = parent
    PROVE  IInv'
<1> USE DEF IInv
<1>1. m.call > 0 /\ m.call <= parent.calls /\ m.call # child.reply /\ (Here(parent) => m.call \in parent.pending)
      /\ (m.type = "StartSync" => child.pc = "waitSync" /\ ~child.started)
      /\ (m.type = "SendMsg" => m.msg = parent.out)
      /\ \A n \in P : n.type = "reply" => n.call > 0 /\ n.call <= parent.calls /\ n.call # m.call
  BY DEF Outstanding
<1>2. parent.calls \in Nat /\ m.call \in Nat /\ child.reply \in Nat /\ parent.calls # 0 /\ parent.calls > 0
  BY <1>1 DEF ParentType, ChildType, ChildMsgs, IsCall, Connected
<1>3. Here(parent) => parent.pending = {m.call}
  BY <1>1 DEF Outstanding
<1>4. Here(parent) => parent.status # "GOT_REPLY"
  BY <1>3 DEF Outstanding
<1>5. \A n \in P' : n.type = "reply" => n.call > 0 /\ n.call <= parent.calls
  <2>1. child.reply <= parent.calls
    BY DEF Outstanding
  <2>2. QED
    BY <1>1, <1>2, <2>1
<1>6. \A n \in P' : n.type = "reply" /\ n.ok => n \in P /\ (Here(parent) => n.call \notin parent.pending)
  BY <1>1, <1>3
<1>7. \A n \in P' : n.type \in {"connect", "StoreSyncReport"} => n \in P
  OBVIOUS
<1>8. child'.pc \notin {"start", "gone"} /\ (child'.pc \notin {"ack", "iterate", "gone"} =>
          child.pc \notin {"ack", "iterate", "gone"})
  BY <1>1
<1>9. \A n \in C' : n.type # "StartSync" /\ n.type # "SendMsg"
  BY DEF IsCall
<1>10. Connected(parent', child', C', P')
  BY <1>2, <1>7, <1>8 DEF Connected
<1>11. Outstanding(parent', child', C', P')
  <2>1. child'.reply <= parent.calls
    BY <1>1, <1>2
  <2>2. ASSUME child'.pc = "wait", child'.status = "GOT_REPLY"
        PROVE  /\ child'.in = parent.out
               /\ Here(parent) => child'.reply \in parent.pending
               /\ \A n \in P' : n.type = "reply" => n.call # child'.reply
    <3>1. CASE m.type = "SendMsg" /\ child'.in = m.msg /\ child'.reply = m.call
      BY <1>1, <1>2, <2>2, <3>1
    <3>2. CASE child'.in = child.in /\ child.pc = "wait" /\ child.status = "GOT_REPLY" /\ child'.reply = 0
      <4>1. child.in = parent.out /\ (Here(parent) => child.reply \in parent.pending)
        BY <3>2 DEF Outstanding
      <4>2. ~Here(parent)
        BY <1>1, <1>3, <4>1
      <4>3. \A n \in P' : n.type = "reply" => n.call # 0
        BY <1>5
      <4>4. QED
        BY <3>2, <4>1, <4>2, <4>3
    <3>3. QED
      BY <2>2, <3>1, <3>2
  <2>3. /\ Here(parent) => parent.pending \subseteq {parent.calls} /\ 0 \notin parent.pending
        /\ Here(parent) /\ parent.status = "GOT_REPLY" => parent.pending = {}
        /\ parent.pc \in {"wait", "loop"} /\ parent.status = "FAILED" /\ parent.proxy /\ ~parent.quit => parent.pending = {}
        /\ parent.pc = "engine" => parent.pending = {}
        /\ parent.pc = "winding" /\ parent.proxy /\ ~parent.aborted /\ ~parent.quit => parent.pending = {}
    BY DEF Outstanding
  <2>4. QED
    BY <1>5, <1>9, <2>1, <2>2, <2>3 DEF Outstanding
<1>12. Wanted(parent', child', P')
  BY <1>4, <1>6 DEF Wanted, Here
<1>13. Turn(parent', child', C', P')
  BY <1>3, <1>6, <1>9 DEF Turn
<1>14. Reported(parent', child', C', P')
  BY <1>7, <1>8 DEF Reported
<1>15. Blamed(parent', child', C', P')
  <2>1. Refused(parent, child, C) => Refused(parent, child', C')
    BY <1>9 DEF Refused
  <2>2. ~Unexplained(child)
    BY DEF Unexplained
  <2>3. ASSUME Here(parent), NEW n \in P', n.type = "reply", ~n.ok
        PROVE  Refused(parent, child', C')
    <3>1. CASE n \in P
      BY <2>1, <2>3, <3>1 DEF Blamed
    <3>2. CASE n \notin P
      <4>1. ~child.started /\ child'.started = child.started
        BY <2>3, <3>2
      <4>2. QED
        BY <1>2, <1>9, <4>1 DEF Refused
    <3>3. QED
      BY <3>1, <3>2
  <2>4. QED
    BY <2>1, <2>2, <2>3 DEF Blamed
<1>16. QED
  BY <1>2, <1>10, <1>11, <1>12, <1>13, <1>14, <1>15

\* Refusing a call and, before it, an older one
LEMMA RefusedCalls ==
    ASSUME NEW call \in Nat, NEW old \in Nat
    PROVE  /\ <<Error(call)>> \in Seq(ParentMsgs) /\ ToSet(<<Error(call)>>) = {Error(call)}
           /\ (IF old = 0 THEN <<>> ELSE <<Error(old)>>) \in Seq(ParentMsgs)
           /\ ToSet(IF old = 0 THEN <<>> ELSE <<Error(old)>>) = IF old = 0 THEN {} ELSE {Error(old)}
           /\ (IF old = 0 THEN <<>> ELSE <<Error(old)>>) \o <<Error(call)>> \in Seq(ParentMsgs)
           /\ ToSet((IF old = 0 THEN <<>> ELSE <<Error(old)>>) \o <<Error(call)>>)
                = (IF old = 0 THEN {} ELSE {Error(old)}) \cup {Error(call)}
<1>1. \A n \in Nat : Error(n) \in ParentMsgs
  BY DEF Error, ParentMsgs
<1>2. \A n \in Nat : <<Error(n)>> \in Seq(ParentMsgs) /\ ToSet(<<Error(n)>>) = {Error(n)}
  BY <1>1, FewMessages
<1>3. PICK q : q = IF old = 0 THEN <<>> ELSE <<Error(old)>>
  OBVIOUS
<1>4. q \in Seq(ParentMsgs) /\ ToSet(q) = IF old = 0 THEN {} ELSE {Error(old)}
  BY <1>2, <1>3, FewMessages
<1>5. q \in Seq(ParentMsgs) /\ <<Error(call)>> \in Seq(ParentMsgs)
  BY <1>2, <1>4
<1>6. q \o <<Error(call)>> \in Seq(ParentMsgs) /\ ToSet(q \o <<Error(call)>>) = ToSet(q) \cup ToSet(<<Error(call)>>)
  BY <1>5, CatOf, Zenon
<1>7. QED
  BY <1>2, <1>3, <1>4, <1>6, Zenon

\* startSync()
LEMMA StartSyncKeeps ==
    ASSUME IInv, child.pc \notin {"start", "iterate", "gone"}, NEW m \in C, m \in ChildMsgs, m.type = "StartSync",
           startSync(m.call), toChild' \in Seq(ChildMsgs), Single(toChild'),
           C' \subseteq C, \A n \in C : n = m \/ n \in C', \A n \in C' : ~IsCall(n), parent' = parent
    PROVE  IInv'
<1>1. child \in ChildType /\ toParent \in Seq(ParentMsgs) /\ IsCall(m) /\ m.call \in Nat
      /\ child.pc = "waitSync" /\ ~child.started
  BY DEF IInv, IsCall, ChildMsgs, Outstanding
<1>2. "ACTIVE" \in Status
  BY DEF Status
<1>3. CASE /\ child' = [child EXCEPT !.reply = m.call, !.status = "ACTIVE", !.started = TRUE, !.pc = "engine"]
           /\ UNCHANGED toParent
  <2>1. child' \in ChildType
    BY <1>1, <1>2, <1>3, ZenonT(60) DEF ChildType
  <2>2. child'.pc = "engine" /\ child'.reply = m.call
        /\ child'.in = child.in /\ child'.final = child.final /\ child'.out = child.out /\ child'.lost = child.lost /\ child'.acked = child.acked
        /\ child'.report = child.report /\ child'.exit = child.exit /\ child'.asked = child.asked /\ child'.kill = child.kill
    BY <1>1, <1>3 DEF ChildType
  <2>3. P' = P /\ toParent' \in Seq(ParentMsgs)
    BY <1>1, <1>3 DEF P
  <2>4. QED
    BY <1>1, <2>1, <2>2, <2>3, CallTaken
<1>4. ASSUME NEW pc \in {"waitSync", "engine"}, child' = [child EXCEPT !.reply = m.call, !.pc = pc],
             toParent' = SentToParent(<<Error(m.call)>>)
      PROVE  IInv'
  <2>1. child' \in ChildType
    BY <1>1, <1>4, ZenonT(60) DEF ChildType
  <2>2. child'.pc = pc /\ child'.reply = m.call
        /\ child'.status = child.status /\ child'.in = child.in /\ child'.final = child.final /\ child'.out = child.out /\ child'.lost = child.lost
        /\ child'.acked = child.acked /\ child'.report = child.report /\ child'.exit = child.exit /\ child'.started = child.started /\ child'.asked = child.asked
        /\ child'.kill = child.kill
    BY <1>1, <1>4 DEF ChildType
  <2>3. <<Error(m.call)>> \in Seq(ParentMsgs) /\ ToSet(<<Error(m.call)>>) = {Error(m.call)}
    BY <1>1, RefusedCalls
  <2>4. toParent' \in Seq(ParentMsgs) /\ \A n \in P' : n \in P \/ n = Error(m.call)
    BY <1>1, <1>4, <2>3, Said DEF P
  <2>5. Error(m.call).type = "reply" /\ ~Error(m.call).ok /\ Error(m.call).call = m.call
    BY DEF Error
  <2>6. m.call # 0
    BY <1>1 DEF IInv, Outstanding
  <2>7. \A n \in P' : \/ n \in P
                      \/ n.type = "reply" /\ ~n.ok /\ n.call = m.call
    BY <2>4, <2>5
  <2>8. QED
    BY <1>1, <1>4, <2>1, <2>2, <2>4, <2>6, <2>7, CallTaken
<1>5. QED
  BY <1>3, <1>4 DEF startSync

\* sendMsg()
LEMMA SendMsgKeeps ==
    ASSUME IInv, child.pc \notin {"start", "iterate", "gone"}, NEW m \in C, m \in ChildMsgs, m.type = "SendMsg",
           sendMsg(m), toChild' \in Seq(ChildMsgs), Single(toChild'),
           C' \subseteq C, \A n \in C : n = m \/ n \in C', \A n \in C' : ~IsCall(n), parent' = parent
    PROVE  IInv'
<1>1. child \in ChildType /\ toParent \in Seq(ParentMsgs) /\ IsCall(m) /\ m.call \in Nat /\ m.msg \in Nat
      /\ m.final \in BOOLEAN /\ child.reply \in Nat
  BY DEF IInv, IsCall, ChildMsgs, ChildType
<1>2. Here(parent) /\ child.started => child.status = "ACTIVE" /\ child.reply = 0
  BY DEF IInv, Turn, Waits
<1>3. m.call # 0 /\ m.call # child.reply
  BY <1>1 DEF IInv, Outstanding
<1>4. PICK old : old = IF child.reply = 0 THEN <<>> ELSE <<Error(child.reply)>>
  OBVIOUS
<1>5. \A k \in Nat : Error(k).type = "reply" /\ ~Error(k).ok /\ Error(k).call = k
  BY DEF Error
<1>6. CASE child.status = "ACTIVE"
  <2>1. /\ child' = [child EXCEPT !.reply = m.call, !.in = m.msg, !.final = m.final, !.status = "GOT_REPLY"]
        /\ toParent' = SentToParent(old)
    BY <1>4, <1>6 DEF sendMsg
  <2>2. "GOT_REPLY" \in Status
    BY DEF Status
  <2>3. child' \in ChildType
    BY <1>1, <2>1, <2>2, ZenonT(60) DEF ChildType
  <2>4. child'.reply = m.call /\ child'.in = m.msg /\ child'.final = m.final /\ child'.status = "GOT_REPLY"
        /\ child'.pc = child.pc /\ child'.out = child.out /\ child'.lost = child.lost /\ child'.acked = child.acked /\ child'.report = child.report
        /\ child'.exit = child.exit /\ child'.started = child.started /\ child'.asked = child.asked /\ child'.kill = child.kill
    BY <1>1, <2>1 DEF ChildType
  <2>5. old \in Seq(ParentMsgs) /\ ToSet(old) = IF child.reply = 0 THEN {} ELSE {Error(child.reply)}
    BY <1>1, <1>4, RefusedCalls
  <2>6. toParent' \in Seq(ParentMsgs)
        /\ \A n \in P' : n \in P \/ (Here(parent) /\ child.reply # 0 /\ n = Error(child.reply))
    BY <1>1, <2>1, <2>5, Said DEF P
  <2>7. \A n \in P' : \/ n \in P
                      \/ /\ n.type = "reply" /\ ~n.ok /\ n.call = child.reply /\ child.reply # 0
                         /\ ~child.started
    BY <1>1, <1>2, <1>5, <2>6
  <2>8. QED
    BY <1>1, <1>3, <2>3, <2>4, <2>6, <2>7, CallTaken
<1>7. CASE child.status # "ACTIVE"
  <2>1. /\ child' = [child EXCEPT !.reply = 0]
        /\ toParent' = SentToParent(old \o <<Error(m.call)>>)
    BY <1>4, <1>7 DEF sendMsg
  <2>3. child' \in ChildType
    BY <1>1, <2>1, ZenonT(60) DEF ChildType
  <2>4. child'.reply = 0
        /\ child'.pc = child.pc /\ child'.status = child.status /\ child'.in = child.in /\ child'.final = child.final /\ child'.out = child.out
        /\ child'.lost = child.lost /\ child'.acked = child.acked /\ child'.report = child.report /\ child'.exit = child.exit /\ child'.started = child.started
        /\ child'.asked = child.asked /\ child'.kill = child.kill
    BY <1>1, <2>1 DEF ChildType
  <2>5. PICK r : r = old \o <<Error(m.call)>>
    OBVIOUS
  <2>6. r \in Seq(ParentMsgs) /\ ToSet(r) = (IF child.reply = 0 THEN {} ELSE {Error(child.reply)}) \cup {Error(m.call)}
    BY <1>1, <1>4, <2>5, RefusedCalls, Zenon
  <2>7. toParent' \in Seq(ParentMsgs)
        /\ \A n \in P' : n \in P \/ (Here(parent) /\ n \in ToSet(r))
    BY <1>1, <2>1, <2>5, <2>6, Said DEF P
  <2>8. \A n \in P' : \/ n \in P
                      \/ Here(parent) /\ child.reply # 0 /\ n = Error(child.reply)
                      \/ Here(parent) /\ n = Error(m.call)
    BY <2>6, <2>7
  <2>9. \A n \in P' : \/ n \in P
                      \/ /\ n.type = "reply" /\ ~n.ok /\ n.call \in {child.reply, m.call} \ {0}
                         /\ ~child.started
    BY <1>1, <1>2, <1>3, <1>5, <1>7, <2>8
  <2>10. QED
    BY <1>1, <1>3, <2>3, <2>4, <2>7, <2>9, CallTaken
<1>8. QED
  BY <1>6, <1>7

\* An answer lets the child go on: its report was acknowledged, or it has a password.
LEMMA AnswerTaken ==
    ASSUME IInv, child.pc \notin {"start", "iterate", "gone"}, NEW acked \in BOOLEAN,
           NEW pc, pc = child.pc \/ (child.pc = "password" /\ pc = "engine"),
           child' = [child EXCEPT !.acked = acked, !.pc = pc],
           acked # child.acked => acked /\ \E m \in C : m.type = "ack",
           toChild' \in Seq(ChildMsgs), Single(toChild'), C' \subseteq C,
           \A n \in C : IsCall(n) => n \in C',
           UNCHANGED <<parent, toParent>>
    PROVE  IInv'
<1> USE DEF IInv
<1>1. P' = P
  BY DEF P
<1>2. child' \in ChildType
  <2>1. pc \in {"start", "waitSync", "engine", "wait", "password", "ack", "iterate", "gone"}
    BY DEF ChildType
  <2>2. QED
    BY <2>1, ZenonT(60) DEF ChildType
<1>3. child'.acked = acked /\ child'.pc = pc
      /\ child'.status = child.status /\ child'.reply = child.reply /\ child'.in = child.in /\ child'.final = child.final /\ child'.out = child.out
      /\ child'.lost = child.lost /\ child'.report = child.report /\ child'.exit = child.exit /\ child'.started = child.started /\ child'.asked = child.asked
      /\ child'.kill = child.kill
  BY DEF ChildType
<1>4. Connected(parent', child', C', P')
  BY <1>1, <1>3 DEF Connected
<1>5. Outstanding(parent', child', C', P')
  BY <1>1, <1>3 DEF Outstanding
<1>6. Wanted(parent', child', P')
  BY <1>1, <1>3 DEF Wanted
<1>7. Turn(parent', child', C', P')
  BY <1>1, <1>3 DEF Turn, Waits
<1>8. Reported(parent', child', C', P')
  <2>1. acked => acked = child.acked \/ \E m \in C : m.type = "ack"
    OBVIOUS
  <2>2. acked => child.pc \in {"ack", "iterate", "gone"} /\ parent.report = child.report /\ parent.connected
    BY <2>1 DEF Reported
  <2>3. child.exit # "0"
    BY DEF Connected
  <2>4. QED
    BY <1>1, <1>3, <2>2, <2>3 DEF Reported
<1>9. Blamed(parent', child', C', P')
  <2>1. Refused(parent, child, C) => Refused(parent, child', C')
    BY <1>3 DEF Refused
  <2>2. ~Unexplained(child)
    BY DEF Unexplained
  <2>3. QED
    BY <1>1, <1>3, <2>1, <2>2 DEF Blamed
<1>10. QED
  BY <1>1, <1>2, <1>4, <1>5, <1>6, <1>7, <1>8, <1>9

\* Whatever the child receives
LEMMA ChildReceiveKeeps ==
    ASSUME IInv, ChildReceive
    PROVE  IInv'
<1>1. child.pc \notin {"start", "iterate", "gone"} /\ toChild # <<>> /\ toChild' = Tail(toChild) /\ parent' = parent
  BY DEF ChildReceive
<1>2. child \in ChildType /\ toChild \in Seq(ChildMsgs) /\ Single(toChild) /\ toParent \in Seq(ParentMsgs)
  BY DEF IInv
<1>3. PICK m : m = Head(toChild)
  OBVIOUS
<1>4. /\ m \in C /\ m \in ChildMsgs /\ toChild' \in Seq(ChildMsgs) /\ Single(toChild') /\ C' \subseteq C
      /\ \A n \in C : n = m \/ n \in C'
      /\ IsCall(m) => \A n \in C' : ~IsCall(n)
  BY <1>1, <1>2, <1>3, TailOf DEF C
<1>5. CASE m.type = "StartSync"
  <2>1. startSync(m.call)
    BY <1>3, <1>5 DEF ChildReceive
  <2>2. \A n \in C' : ~IsCall(n)
    BY <1>4, <1>5 DEF IsCall
  <2>3. QED
    BY <1>1, <1>4, <1>5, <2>1, <2>2, StartSyncKeeps
<1>6. CASE m.type = "SendMsg"
  <2>1. sendMsg(m)
    BY <1>3, <1>6 DEF ChildReceive
  <2>2. \A n \in C' : ~IsCall(n)
    BY <1>4, <1>6 DEF IsCall
  <2>3. QED
    BY <1>1, <1>4, <1>6, <2>1, <2>2, SendMsgKeeps
<1>7. CASE m.type = "ack"
  <2>1. child' = [child EXCEPT !.acked = TRUE] /\ toParent' = toParent
    BY <1>3, <1>7 DEF ChildReceive
  <2>2. child' = [child EXCEPT !.acked = TRUE, !.pc = child.pc]
    BY <1>2, <2>1 DEF ChildType
  <2>3. \A n \in C : IsCall(n) => n \in C'
    BY <1>4, <1>7 DEF IsCall
  <2>4. QED
    BY <1>1, <1>4, <1>7, <2>1, <2>2, <2>3, AnswerTaken
<1>8. CASE m.type = "password" /\ (m.ok \/ child.pc # "password")
  <2>1. child' = [child EXCEPT !.pc = IF @ = "password" THEN "engine" ELSE @] /\ toParent' = toParent
    BY <1>3, <1>8 DEF ChildReceive
  <2>2. PICK pc : pc = IF child.pc = "password" THEN "engine" ELSE child.pc
    OBVIOUS
  <2>3. child' = [child EXCEPT !.acked = child.acked, !.pc = pc] /\ child.acked \in BOOLEAN
    BY <1>2, <2>1, <2>2 DEF ChildType
  <2>4. \A n \in C : IsCall(n) => n \in C'
    BY <1>4, <1>8 DEF IsCall
  <2>5. QED
    BY <1>1, <1>4, <1>8, <2>1, <2>2, <2>3, <2>4, AnswerTaken
<1>9. CASE m.type = "password" /\ ~m.ok /\ child.pc = "password"
  <2>1. child' = Returned(child, "failed") /\ toParent' = SentToParent(SyncReport("failed"))
    BY <1>3, <1>9 DEF ChildReceive
  <2>2. child' = [child EXCEPT !.status = child.status, !.reply = child.reply, !.report = "failed", !.pc = "ack"]
    BY <1>2, <2>1 DEF Returned, ChildType
  <2>3. PICK n : n = [type |-> "StoreSyncReport", report |-> "failed"]
    OBVIOUS
  <2>4. n \in ParentMsgs /\ n.type = "StoreSyncReport" /\ n.report = "failed"
    BY <2>3 DEF ParentMsgs, Reports
  <2>5. <<n>> \in Seq(ParentMsgs) /\ ToSet(<<n>>) = {n} /\ toParent' = SentToParent(<<n>>)
    BY <2>1, <2>3, <2>4, FewMessages DEF SyncReport
  <2>6. QED
    BY <1>1, <1>4, <1>9, <2>2, <2>4, <2>5, ReportKeeps
<1>10. m.type \in {"StartSync", "SendMsg", "ack", "password"}
  BY <1>4 DEF ChildMsgs
<1>11. QED
  BY <1>5, <1>6, <1>7, <1>8, <1>9, <1>10

-----------------------------------------------------------------------------
(***************************************************************************)
(* The inductive invariant and what follows from it.                       *)
(***************************************************************************)

\* It holds when start() has been called.
LEMMA Initially == Init => IInv
<1> SUFFICES ASSUME Init
             PROVE  IInv
  OBVIOUS
<1>1. parent \in ParentType
  BY DEF Init, ParentType, Status, Reports
<1>2. child \in ChildType
  BY DEF Init, ChildType, Status, Reports
<1>3. C = {} /\ P = {} /\ toChild \in Seq(ChildMsgs) /\ toParent \in Seq(ParentMsgs) /\ Single(toChild)
      /\ Len(toParent) = 0
  BY FewMessages DEF Init, C, P
<1>4. Connected(parent, child, C, P)
  BY <1>3 DEF Init, Connected
<1>5. Outstanding(parent, child, C, P)
  BY <1>3 DEF Init, Outstanding
<1>6. Wanted(parent, child, P) /\ Turn(parent, child, C, P) /\ Reported(parent, child, C, P)
  BY <1>3 DEF Init, Wanted, Turn, Waits, Reported
<1>7. Blamed(parent, child, C, P)
  BY <1>3 DEF Init, Blamed
<1>8. Len(toParent) <= 1
  BY <1>3
<1>9. QED
  BY <1>1, <1>2, <1>3, <1>4, <1>5, <1>6, <1>7, <1>8 DEF IInv

\* Every step of the two processes keeps it.
LEMMA Inductive == IInv /\ [Next]_vars => IInv'
<1> SUFFICES ASSUME IInv, [Next]_vars
             PROVE  IInv'
  OBVIOUS
<1>1. CASE Parent
  BY <1>1, ParentWaitKeeps, ParentEngineKeeps, ParentWindingKeeps, ParentClosingKeeps DEF Parent
<1>2. CASE ParentEvent
  BY <1>2, ParentReceiveKeeps, CallFailsKeeps, ChildWatchKeeps DEF ParentEvent
<1>3. CASE AnswerPassword \/ Abort \/ ParentDies
  BY <1>3, AnswerPasswordKeeps, AbortKeeps, ParentDiesKeeps
<1>4. CASE Child
  BY <1>4, ChildConnectKeeps, ChildEngineKeeps, ChildWaitKeeps, ChildEndsKeeps DEF Child
<1>5. CASE ChildEvent \/ ChildDies
  BY <1>5, ChildReceiveKeeps, ConnectionLostKeeps, ChildEndsKeeps DEF ChildEvent
<1>6. CASE UNCHANGED vars
  <2>1. parent' = parent /\ child' = child /\ toChild' = toChild /\ toParent' = toParent
    BY <1>6 DEF vars
  <2>2. C' = C /\ P' = P
    BY <2>1 DEF C, P
  <2>3. Single(toChild')
    BY <2>1, Zenon DEF IInv
  <2>4. parent' \in ParentType /\ child' \in ChildType /\ toChild' \in Seq(ChildMsgs) /\ toParent' \in Seq(ParentMsgs)
    BY <2>1, Zenon DEF IInv
  <2>5. parent'.calls = 0 => Len(toParent') <= 1
    BY <2>1, Zenon DEF IInv
  <2>6. /\ Connected(parent', child', C', P') /\ Outstanding(parent', child', C', P') /\ Wanted(parent', child', P')
        /\ Turn(parent', child', C', P') /\ Reported(parent', child', C', P') /\ Blamed(parent', child', C', P')
    BY <2>1, <2>2, Zenon DEF IInv
  <2>7. QED
    BY <2>3, <2>4, <2>5, <2>6 DEF IInv
<1>7. QED
  BY <1>1, <1>2, <1>3, <1>4, <1>5, <1>6 DEF Next

\* The inductive invariant of local syncs
LEMMA Always == Spec => []IInv
<1>1. QED
  BY Initially, Inductive, PTL DEF Spec

\* Neither side of the shared memory writes its next message before the other one has
\* read the current one (LocalTransportAgent: messages are passed without copying),
\* whatever calls fail, are cancelled or are answered twice.
THEOREM NotOverwrittenHolds == Spec => []NotOverwritten
<1>1. ASSUME IInv
      PROVE  NotOverwritten
  <2>1. child.pc = "wait" /\ child.status = "GOT_REPLY" => child.in = parent.out
    BY <1>1 DEF IInv, Outstanding
  <2>2. parent.pc = "wait" /\ parent.status = "GOT_REPLY" /\ parent.in # 0 => parent.in = child.out
    BY <1>1 DEF IInv, Wanted
  <2>3. QED
    BY <2>1, <2>2 DEF NotOverwritten
<1>2. QED
  BY <1>1, Always, PTL

\* The parent has the child's report when it learns that the child has quit regularly:
\* step() of the child waits for the acknowledgement of StoreSyncReport().
THEOREM ReportKnownHolds == Spec => []ReportKnown
<1>1. ASSUME IInv
      PROVE  ReportKnown
  <2>1. child.exit = "0" /\ ~child.lost => child.acked
    BY <1>1 DEF IInv, Reported
  <2>2. child.acked => parent.report = child.report
    BY <1>1 DEF IInv, Reported
  <2>3. QED
    BY <2>1, <2>2 DEF ReportKnown
<1>2. QED
  BY <1>1, Always, PTL

\* doSync() of the parent blames the transport only if no report explains the failure,
\* although the pending call fails before the child is known to have quit
\* (storeReplyMsg()).
THEOREM CauseReportedHolds == Spec => []CauseReported
<1>1. ASSUME IInv
      PROVE  CauseReported
  <2>1. parent.result = "transport" => Refused(parent, child, C) \/ Unexplained(child)
    BY <1>1 DEF IInv, Blamed
  <2>2. QED
    BY <2>1 DEF CauseReported, Refused, Unexplained
<1>2. QED
  BY <1>1, Always, PTL
=============================================================================
