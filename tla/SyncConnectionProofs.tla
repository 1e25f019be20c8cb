------------------------ MODULE SyncConnectionProofs ------------------------
(***************************************************************************)
(* Proofs about SyncConnection, for every number of messages and with or   *)
(* without a timeout.                                                      *)
(*                                                                         *)
(* The properties relate the server's side to a helper that is a few calls *)
(* or signals behind. What makes them inductive is the content of the two  *)
(* channels: while the connection can be used at most one message is on    *)
(* its way, in one direction, and its direction follows from the states of *)
(* both sides (Turn); once it cannot be used, only reports about its end   *)
(* are added to the calls (CallsTo), and a helper that waits has one       *)
(* coming (Told); after a regular end none of them is an error (Closed).   *)
(***************************************************************************)
EXTENDS SyncConnection, FiniteSetTheorems, TLAPS

\* What the helper is told about the connection: it is broken, or it ended regularly.
Broken == ConnectionState(TRUE)
Ended == ConnectionState(FALSE)

-----------------------------------------------------------------------------
(***************************************************************************)
(* The inductive invariant.                                                *)
(***************************************************************************)

\* The peer can use a connection until it fails, is closed or loses its owner; each
\* of these settles its state.
Owned(c) ==
    /\ c.life = "attached" =>
         /\ c.state \in {"SETUP", "PROCESSING", "WAITING", "FINAL"}
         /\ ~c.abortSent /\ ~c.failure
         /\ c.session # "done"
         /\ c.session = "none" => c.state = "SETUP"
         /\ c.session \in {"queued", "starting"} => c.state = "PROCESSING"
         /\ c.session = "running" => c.state # "SETUP"
    /\ c.life # "attached" => c.state \in {"FAILED", "DONE"}
    /\ c.state = "DONE" => ~c.failure /\ ~c.abortSent /\ c.session \in {"running", "done"}
    /\ c.state = "FAILED" => c.abortSent
    /\ c.timer => c.state \in {"WAITING", "FAILED"} /\ c.life # "destroyed"

\* The session hears of the connection as long as that exists.
Relayed(c) ==
    /\ c.session = "running" /\ c.life # "destroyed" => c.relay
    /\ c.relay => c.life # "destroyed"
    /\ c.session # "running" => c.calls = <<>>

\* Signals without Abort
Replies(c) == IF c.abortSent THEN Len(c.signals) - 1 ELSE Len(c.signals)

\* Only an Abort ends the signals for good, and each reply has its message.
Replied(c) ==
    /\ c.abortSent => Len(c.signals) > 0 /\ c.signals[Len(c.signals)] = "Abort"
    /\ \A i \in 1..Replies(c) : c.signals[i] # "Abort"
    /\ \A i \in 1..Replies(c) :
          c.signals[i] = "Final" => i = Replies(c) /\ c.state \in {"FINAL", "DONE", "FAILED"}
    /\ Replies(c) <= c.received
    /\ c.state = "SETUP" => c.received = 0
    /\ c.state = "PROCESSING" => Replies(c) < c.received

\* The first signal on its way to the server
First(a, s) == Len(a.signals) > 0 /\ a.signals[1] = s

\* No message or end of messages is on its way to the server.
Quiet(a) == Len(a.signals) > 0 => a.signals[1] = "Result"

\* What is on its way to the server follows from the state of the agent.
SignalsOf(a) ==
    /\ ~a.started => a = NoAgent
    /\ Len(a.signals) = (IF a.result = "none" THEN 0 ELSE 1) + (IF Quiet(a) THEN 0 ELSE 1)
    /\ a.result # "none" => a.signals[Len(a.signals)] = "Result"
    /\ a.state \in {"NONE", "PROCESSING"} => Quiet(a)
    /\ a.state = "WAITING" => ~First(a, "Shutdown")
    /\ a.state = "FINAL" => ~First(a, "Message")

\* Reports about the state of the connection come last.
CallsTo(c, a) ==
    /\ \A k \in 2..Len(c.calls) : c.calls[k] \in {Broken, Ended}
    /\ c.session = "running" =>
         (~a.started <=> Len(c.calls) > 0 /\ c.calls[1] = Sync)
    /\ Len(c.calls) > 0 /\ c.calls[1] = StoreMessage =>
         (a.state = "WAITING" \/ a.result # "none") /\ Quiet(a)

\* Both sides of a usable connection agree on whose turn it is.
Turn(c, a) ==
    /\ Len(c.calls) <= 1
    /\ Len(c.calls) = 1 => c.calls[1] \in {Sync, StoreMessage}
    /\ a.state \in {"NONE", "PROCESSING", "WAITING", "FINAL"}
    /\ First(a, "Message") => c.state = "PROCESSING" /\ a.state = "WAITING" /\ c.calls = <<>>
    /\ First(a, "Shutdown") => c.state = "PROCESSING" /\ a.state = "FINAL" /\ c.calls = <<>>
    /\ c.state \in {"WAITING", "FINAL"} => a.state = c.state /\ c.calls = <<>> /\ Quiet(a)
    /\ a.result = "none" /\ Quiet(a) /\ a.state = "WAITING" => c.state = "WAITING" \/ c.calls # <<>>
    /\ a.result = "none" /\ Quiet(a) /\ a.state = "FINAL" => c.state = "FINAL"

\* The helper will hear of a connection that cannot be used any more.
Told(c, a) ==
    a.result = "none" /\ Len(a.signals) = 0 /\ Len(c.calls) = 0 =>
        a.state # "WAITING" /\ (a.state = "FINAL" => c.relay)

\* A regular end is not followed by an error.
Closed(c, a) ==
    /\ a.state \in {"FINAL", "DONE", "FAILED"} /\ Quiet(a)
    /\ \A k \in 1..Len(c.calls) : c.calls[k] = Ended

Together(c, a) ==
    /\ c.session # "running" => a = NoAgent
    /\ SignalsOf(a)
    /\ CallsTo(c, a)
    /\ c.session = "running" /\ c.life = "attached" => Turn(c, a)
    /\ c.session = "running" /\ c.life # "attached" => Told(c, a)
    /\ c.session = "running" /\ c.state = "DONE" => Closed(c, a)

Alone(c) == c \in Connections /\ Owned(c) /\ Relayed(c) /\ Replied(c)

IInv == agent \in Agents /\ Alone(con) /\ Together(con, agent)

-----------------------------------------------------------------------------
(***************************************************************************)
(* What the state transformers do, field by field.                         *)
(***************************************************************************)

TellRel(x, error, y) ==
    /\ y \in Connections
    /\ y.state = x.state /\ y.failure = x.failure /\ y.abortSent = x.abortSent /\ y.timer = x.timer
    /\ y.life = x.life /\ y.received = x.received /\ y.signals = x.signals /\ y.session = x.session
    /\ y.relay = x.relay
    /\ y.calls = IF x.session = "running" THEN Append(x.calls, IF error THEN Broken ELSE Ended)
                 ELSE x.calls

StatusRel(x, error, y) ==
    /\ y \in Connections
    /\ y.state = x.state /\ y.failure = x.failure /\ y.abortSent = x.abortSent /\ y.timer = x.timer
    /\ y.life = x.life /\ y.received = x.received /\ y.signals = x.signals /\ y.session = x.session
    /\ y.relay = x.relay
    /\ y.calls = IF x.relay /\ x.session = "running"
                 THEN Append(x.calls, IF error THEN Broken ELSE Ended) ELSE x.calls

AbortRel(x, y) ==
    /\ y \in Connections
    /\ y.state = x.state /\ y.failure = x.failure /\ y.timer = x.timer /\ y.life = x.life
    /\ y.received = x.received /\ y.session = x.session /\ y.relay = x.relay /\ y.calls = x.calls
    /\ y.abortSent
    /\ y.signals = IF x.abortSent THEN x.signals ELSE Append(x.signals, "Abort")

FailRel(x, y) ==
    /\ y \in Connections
    /\ y.state = "FAILED" /\ y.life = "detached" /\ y.failure /\ y.abortSent
    /\ y.timer = x.timer /\ y.received = x.received /\ y.session = x.session /\ y.relay = x.relay
    /\ y.signals = IF x.abortSent THEN x.signals ELSE Append(x.signals, "Abort")
    /\ y.calls = IF x.relay /\ x.session = "running" THEN Append(x.calls, Broken)
                 ELSE x.calls

DestroyRel(x, y) ==
    /\ y \in Connections
    /\ y.life = "destroyed" /\ ~y.timer /\ ~y.relay
    /\ y.state = IF x.state = "DONE" THEN "DONE" ELSE "FAILED"
    /\ x.state = "DONE" => y.abortSent = x.abortSent /\ y.signals = x.signals
    /\ x.state # "DONE" =>
         y.abortSent /\ y.signals = IF x.abortSent THEN x.signals ELSE Append(x.signals, "Abort")
    /\ y.session = IF x.session = "queued" THEN "done" ELSE x.session
    /\ y.failure = x.failure /\ y.received = x.received
    /\ y.calls = IF x.relay /\ x.session = "running"
                 THEN Append(x.calls, IF x.failure THEN Broken ELSE Ended) ELSE x.calls

\* The four calls differ.
LEMMA CallsDiffer ==
    /\ Sync \in Calls /\ StoreMessage \in Calls
    /\ Broken \in Calls /\ Ended \in Calls
    /\ Sync # StoreMessage /\ Broken # Ended
    /\ Broken # Sync /\ Broken # StoreMessage /\ Ended # Sync /\ Ended # StoreMessage
  BY DEF Calls, Sync, StoreMessage, ConnectionState, Broken, Ended

\* The argument of a call about the state of the connection
LEMMA ConnectionStateIs ==
    ASSUME NEW error \in BOOLEAN
    PROVE  ConnectionState(error) = IF error THEN Broken ELSE Ended
  BY DEF ConnectionState, Broken, Ended

\* Appending to a sequence
LEMMA AppendIs ==
    ASSUME NEW S, NEW q \in Seq(S), NEW e \in S
    PROVE  /\ Append(q, e) \in Seq(S)
           /\ Len(Append(q, e)) = Len(q) + 1
           /\ Len(q) \in Nat
           /\ \A i \in 1..Len(q) : Append(q, e)[i] = q[i]
           /\ Append(q, e)[Len(q) + 1] = e
  OBVIOUS

\* Tail of a sequence
LEMMA TailIs ==
    ASSUME NEW S, NEW q \in Seq(S), q # <<>>
    PROVE  /\ Tail(q) \in Seq(S)
           /\ Len(Tail(q)) = Len(q) - 1
           /\ Len(q) \in Nat \ {0}
           /\ \A i \in 1..(Len(q) - 1) : Tail(q)[i] = q[i + 1]
           /\ Head(q) = q[1]
  OBVIOUS

\* Session::connectionState()
LEMMA TellIs ==
    ASSUME NEW x \in Connections, NEW error \in BOOLEAN
    PROVE  TellRel(x, error, Tell(x, error))
<1>1. CASE x.session = "running"
  <2>1. PICK e \in Calls : e = IF error THEN Broken ELSE Ended
    BY CallsDiffer
  <2>2. PICK calls : calls = Append(x.calls, e)
    OBVIOUS
  <2>3. calls \in Seq(Calls)
    <3>1. x.calls \in Seq(Calls)
      BY DEF Connections
    <3>2. QED
      BY <2>2, <3>1, AppendIs
  <2>4. [x EXCEPT !.calls = calls] \in Connections
    BY <2>3, Zenon DEF Connections
  <2>5. QED
    <3>1. Tell(x, error) = [x EXCEPT !.calls = calls]
      BY <1>1, <2>1, <2>2, ConnectionStateIs DEF Tell
    <3>2. QED
      BY <1>1, <2>1, <2>2, <2>4, <3>1 DEF TellRel, Connections
<1>2. CASE x.session # "running"
  BY <1>2 DEF Tell, TellRel
<1>3. QED
  BY <1>1, <1>2

\* m_statusSignal
LEMMA StatusIs ==
    ASSUME NEW x \in Connections, NEW error \in BOOLEAN
    PROVE  StatusRel(x, error, Status(x, error))
<1>1. CASE x.relay
  BY <1>1, TellIs DEF Status, StatusRel, TellRel
<1>2. CASE ~x.relay
  BY <1>2 DEF Status, StatusRel
<1>3. QED
  BY <1>1, <1>2

\* Connection::abort()
LEMMA SendAbortIs ==
    ASSUME NEW x \in Connections
    PROVE  AbortRel(x, SendAbort(x))
<1>1. CASE ~x.abortSent
  <2>1. x.signals \in Seq({"Reply", "Final", "Abort"})
    BY DEF Connections
  <2>2. PICK signals : signals = Append(x.signals, "Abort")
    OBVIOUS
  <2>3. signals \in Seq({"Reply", "Final", "Abort"})
    BY <2>1, <2>2, AppendIs
  <2>4. [x EXCEPT !.abortSent = TRUE, !.signals = signals] \in Connections
    BY <2>3, Zenon DEF Connections
  <2>5. QED
    BY <1>1, <2>2, <2>4 DEF SendAbort, SendAbortAgain, AbortRel, Connections
<1>2. CASE x.abortSent
  BY <1>2 DEF SendAbort, AbortRel
<1>3. QED
  BY <1>1, <1>2

\* Connection::failed()
LEMMA FailedIs ==
    ASSUME NEW x \in Connections
    PROVE  FailRel(x, Failed(x))
<1>1. PICK u : u = SendAbort(x)
  OBVIOUS
<1>2. AbortRel(x, u)
  BY <1>1, SendAbortIs
<1>3. PICK v : v = [u EXCEPT !.failure = TRUE, !.state = "FAILED"]
  OBVIOUS
<1>4. v \in Connections
  BY <1>2, <1>3, Zenon DEF Connections, States, AbortRel
<1>5. v.state = "FAILED" /\ v.failure
      /\ v.abortSent = u.abortSent /\ v.timer = u.timer /\ v.life = u.life /\ v.received = u.received
      /\ v.signals = u.signals /\ v.session = u.session /\ v.relay = u.relay /\ v.calls = u.calls
  BY <1>2, <1>3 DEF Connections, AbortRel
<1>6. PICK w : w = Status(v, TRUE)
  OBVIOUS
<1>7. StatusRel(v, TRUE, w)
  BY <1>4, <1>6, StatusIs
<1>8. PICK z : z = [w EXCEPT !.life = "detached"]
  OBVIOUS
<1>9. z \in Connections
  BY <1>7, <1>8, Zenon DEF Connections, StatusRel
<1>10. z.life = "detached"
       /\ z.state = w.state /\ z.failure = w.failure /\ z.abortSent = w.abortSent /\ z.timer = w.timer
       /\ z.received = w.received /\ z.signals = w.signals /\ z.session = w.session /\ z.relay = w.relay
       /\ z.calls = w.calls
  BY <1>7, <1>8 DEF Connections, StatusRel
<1>11. FailRel(x, z)
  BY <1>2, <1>5, <1>7, <1>9, <1>10 DEF AbortRel, StatusRel, FailRel
<1>12. QED
  BY <1>1, <1>3, <1>6, <1>8, <1>11 DEF Failed

\* ~Connection()
LEMMA DestroyIs ==
    ASSUME NEW x \in Connections
    PROVE  DestroyRel(x, Destroy(x))
<1>1. PICK u : u = SendAbort(x)
  OBVIOUS
<1>2. AbortRel(x, u)
  BY <1>1, SendAbortIs
<1>3. PICK f : f = [u EXCEPT !.state = "FAILED"]
  OBVIOUS
<1>4. f \in Connections
  BY <1>2, <1>3, Zenon DEF Connections, States, AbortRel
<1>5. f.state = "FAILED"
      /\ f.failure = u.failure /\ f.abortSent = u.abortSent /\ f.timer = u.timer /\ f.life = u.life
      /\ f.received = u.received /\ f.signals = u.signals /\ f.session = u.session /\ f.relay = u.relay
      /\ f.calls = u.calls
  BY <1>2, <1>3 DEF Connections, AbortRel
<1>6. PICK v : v = IF x.state = "DONE" THEN x ELSE f
  OBVIOUS
<1>7. /\ v \in Connections
      /\ v.state = IF x.state = "DONE" THEN "DONE" ELSE "FAILED"
      /\ x.state = "DONE" => v.abortSent = x.abortSent /\ v.signals = x.signals
      /\ x.state # "DONE" =>
           v.abortSent /\ v.signals = IF x.abortSent THEN x.signals ELSE Append(x.signals, "Abort")
      /\ v.failure = x.failure /\ v.timer = x.timer /\ v.life = x.life /\ v.received = x.received
      /\ v.session = x.session /\ v.relay = x.relay /\ v.calls = x.calls
  BY <1>2, <1>4, <1>5, <1>6 DEF AbortRel
<1>8. x.failure \in BOOLEAN
  BY DEF Connections
<1>9. PICK w : w = Status(v, x.failure)
  OBVIOUS
<1>10. StatusRel(v, x.failure, w)
  BY <1>7, <1>8, <1>9, StatusIs
<1>11. PICK session : session = IF w.session = "queued" THEN "done" ELSE w.session
  OBVIOUS
<1>12. session \in {"none", "queued", "starting", "running", "done"}
  BY <1>10, <1>11 DEF Connections, StatusRel
<1>13. PICK z : z = [w EXCEPT !.life = "destroyed", !.timer = FALSE, !.relay = FALSE, !.session = session]
  OBVIOUS
<1>14. z \in Connections
  BY <1>10, <1>12, <1>13, Zenon DEF Connections, StatusRel
<1>15. z.life = "destroyed" /\ ~z.timer /\ ~z.relay /\ z.session = session
       /\ z.state = w.state /\ z.failure = w.failure /\ z.abortSent = w.abortSent /\ z.received = w.received
       /\ z.signals = w.signals /\ z.calls = w.calls
  BY <1>10, <1>13 DEF Connections, StatusRel
<1>16. DestroyRel(x, z)
  BY <1>7, <1>10, <1>11, <1>14, <1>15 DEF StatusRel, DestroyRel
<1>17. QED
  BY <1>1, <1>3, <1>6, <1>9, <1>11, <1>13, <1>16 DEF Destroy

-----------------------------------------------------------------------------
(***************************************************************************)
(* A connection that ends with a failure.                                  *)
(***************************************************************************)

\* Calls were added, each of them about the state of the connection.
Longer(p, q) ==
    /\ Len(p) <= Len(q)
    /\ \A k \in 1..Len(p) : q[k] = p[k]
    /\ \A k \in 1..Len(q) : k > Len(p) => q[k] \in {Broken, Ended}

\* The connection fails, be it that failed() or the destructor is called.
EndsRel(x, y) ==
    /\ y \in Connections
    /\ y.state = "FAILED" /\ y.abortSent /\ y.received = x.received
    /\ y.signals = IF x.abortSent THEN x.signals ELSE Append(x.signals, "Abort")
    /\ \/ y.life = "destroyed" /\ ~y.relay /\ ~y.timer
       \/ y.life = "detached" /\ x.life # "destroyed" /\ y.relay = x.relay
    /\ y.session = x.session \/ (x.session = "queued" /\ y.session = "done")
    /\ IF x.relay /\ x.session = "running" THEN Longer(x.calls, y.calls) /\ Len(y.calls) > Len(x.calls)
       ELSE y.calls = x.calls

\* A call about the state of the connection is added.
LEMMA LongerIs ==
    ASSUME NEW p \in Seq(Calls), NEW e \in {Broken, Ended}
    PROVE  Longer(p, Append(p, e)) /\ Len(Append(p, e)) > Len(p)
<1>1. PICK q : q = Append(p, e)
  OBVIOUS
<1>2. e \in Calls
  BY CallsDiffer
<1>3. /\ Len(q) = Len(p) + 1 /\ Len(p) \in Nat
      /\ \A i \in 1..Len(p) : q[i] = p[i]
      /\ q[Len(q)] = e
  BY <1>1, <1>2, AppendIs
<1>4. Longer(p, q) /\ Len(q) > Len(p)
  BY <1>3 DEF Longer
<1>5. QED
  BY <1>1, <1>4

\* The end of a connection keeps the protocol with the peer, and the helper is told.
LEMMA EndKeeps ==
    ASSUME NEW x, NEW y, NEW a \in Agents, Alone(x), Together(x, a), x.state # "DONE", EndsRel(x, y)
    PROVE  Alone(y) /\ Together(y, a)
<1> USE DEF Alone, EndsRel
<1>1. Owned(y)
  BY DEF Owned
<1>2. Relayed(y)
  BY DEF Relayed
<1>3. Replied(y)
  <2>1. x.signals \in Seq({"Reply", "Final", "Abort"})
    BY DEF Connections
  <2>2. CASE x.abortSent
    BY <2>2 DEF Replied, Replies, Connections
  <2>3. CASE ~x.abortSent
    <3>1. y.signals = Append(x.signals, "Abort")
      BY <2>3
    <3>2. /\ Len(y.signals) = Len(x.signals) + 1 /\ y.signals[Len(y.signals)] = "Abort"
          /\ \A i \in 1..Len(x.signals) : y.signals[i] = x.signals[i]
          /\ Len(x.signals) \in Nat
      BY <2>1, <3>1, AppendIs
    <3>3. Replies(y) = Len(x.signals) /\ Replies(x) = Len(x.signals)
      BY <2>3, <3>2 DEF Replies
    <3>4. x.received \in Nat
      BY DEF Connections
    <3>5. \A i \in 1..Replies(y) : i \in 1..Replies(x) /\ y.signals[i] = x.signals[i]
      BY <3>2, <3>3
    <3>6. Replies(y) <= y.received /\ y.state # "PROCESSING"
      BY <3>3 DEF Replied
    <3>7. \A i \in 1..Replies(y) : y.signals[i] # "Abort" /\ (y.signals[i] = "Final" => i = Replies(y))
      BY <3>3, <3>5 DEF Replied
    <3>8. y.state = "FAILED" /\ y.abortSent /\ Len(y.signals) > 0
      BY <3>2
    <3>9. QED
      BY <3>2, <3>6, <3>7, <3>8, Zenon DEF Replied
  <2>4. QED
    BY <2>2, <2>3
<1>4. Together(y, a)
  <2> USE DEF Together
  <2>1. y.session # "running" => a = NoAgent
    OBVIOUS
  <2>2. Len(x.calls) \in Nat /\ Len(y.calls) \in Nat
    BY DEF Connections
  <2>3. CallsTo(y, a)
    <3>1. CASE x.relay /\ x.session = "running"
      BY <2>2, <3>1, CallsDiffer DEF CallsTo, Longer
    <3>2. CASE ~(x.relay /\ x.session = "running")
      BY <3>2 DEF CallsTo
    <3>3. QED
      BY <3>1, <3>2
  <2>4. y.session = "running" => Told(y, a)
    <3>1. CASE x.relay /\ x.session = "running"
      BY <2>2, <3>1 DEF Told
    <3>2. CASE ~x.relay /\ x.session = "running"
      BY <3>2 DEF Told, Relayed
    <3>3. QED
      BY <3>1, <3>2
  <2>5. QED
    BY <2>1, <2>3, <2>4
<1>5. QED
  BY <1>1, <1>2, <1>3, <1>4

\* failed()
LEMMA FailKeeps ==
    ASSUME NEW x, NEW a \in Agents, Alone(x), Together(x, a), x.state # "DONE", x.life # "destroyed"
    PROVE  Alone(Failed(x)) /\ Together(Failed(x), a)
<1>1. PICK y : y = Failed(x)
  OBVIOUS
<1>2. FailRel(x, y)
  BY <1>1, FailedIs DEF Alone
<1>3. x.calls \in Seq(Calls) /\ Broken \in Calls
  BY CallsDiffer DEF Alone, Connections
<1>4. Longer(x.calls, Append(x.calls, Broken))
      /\ Len(Append(x.calls, Broken)) > Len(x.calls)
  BY <1>3, LongerIs
<1>5. EndsRel(x, y)
  <2>1. CASE x.relay /\ x.session = "running"
    BY <1>2, <1>4, <2>1 DEF FailRel, EndsRel
  <2>2. CASE ~(x.relay /\ x.session = "running")
    BY <1>2, <2>2 DEF FailRel, EndsRel
  <2>3. QED
    BY <2>1, <2>2
<1>6. QED
  BY <1>1, <1>5, EndKeeps

\* The destructor, be it after a failure or after a regular end
LEMMA DestroyKeeps ==
    ASSUME NEW x, NEW a \in Agents, Alone(x), Together(x, a), x.life # "destroyed"
    PROVE  Alone(Destroy(x)) /\ Together(Destroy(x), a)
<1>1. PICK y : y = Destroy(x)
  OBVIOUS
<1>2. DestroyRel(x, y)
  BY <1>1, DestroyIs DEF Alone
<1>3. x.calls \in Seq(Calls) /\ x.failure \in BOOLEAN
  BY DEF Alone, Connections
<1>4. PICK e \in {Broken, Ended} : e = IF x.failure THEN Broken ELSE Ended
  OBVIOUS
<1>5. Longer(x.calls, Append(x.calls, e)) /\ Len(Append(x.calls, e)) > Len(x.calls)
  BY <1>3, LongerIs
<1>6. CASE x.state # "DONE"
  <2>1. EndsRel(x, y)
    <3>1. CASE x.relay /\ x.session = "running"
      BY <1>2, <1>4, <1>5, <1>6, <3>1 DEF DestroyRel, EndsRel
    <3>2. CASE ~(x.relay /\ x.session = "running")
      BY <1>2, <1>6, <3>2 DEF DestroyRel, EndsRel
    <3>3. QED
      BY <3>1, <3>2
  <2>2. QED
    BY <1>1, <1>6, <2>1, EndKeeps
<1>7. CASE x.state = "DONE"
  <2> USE <1>2, <1>7 DEF Alone, DestroyRel
  <2>1. Owned(y) /\ Relayed(y)
    BY DEF Owned, Relayed
  <2>2. Replied(y)
    BY DEF Replied, Replies
  <2>3. Len(x.calls) \in Nat
    BY DEF Connections
  <2>4. CallsTo(y, a) /\ (y.session = "running" => Told(y, a) /\ Closed(y, a))
    <3>1. CASE x.relay /\ x.session = "running"
      <4>1. y.calls = Append(x.calls, Ended) /\ y.session = "running"
        BY <3>1 DEF Owned
      <4>2. /\ Len(y.calls) = Len(x.calls) + 1 /\ y.calls[Len(x.calls) + 1] = Ended
            /\ \A k \in 1..Len(x.calls) : y.calls[k] = x.calls[k]
        <5>1. PICK q : q = Append(x.calls, Ended)
          OBVIOUS
        <5>2. /\ Len(q) = Len(x.calls) + 1 /\ q[Len(x.calls) + 1] = Ended
              /\ \A k \in 1..Len(x.calls) : q[k] = x.calls[k]
          BY <1>3, <5>1, CallsDiffer, AppendIs
        <5>3. QED
          BY <4>1, <5>1, <5>2
      <4>3. CallsTo(y, a)
        BY <2>3, <3>1, <4>1, <4>2, CallsDiffer DEF CallsTo, Together
      <4>4. Told(y, a)
        BY <2>3, <4>2 DEF Told
      <4>5. Closed(y, a)
        BY <2>3, <3>1, <4>2 DEF Closed, Together
      <4>6. QED
        BY <4>3, <4>4, <4>5
    <3>2. CASE ~x.relay /\ x.session = "running"
      BY <3>2 DEF Relayed
    <3>3. CASE x.session # "running"
      BY <3>3 DEF CallsTo, Together
    <3>4. QED
      BY <3>1, <3>2, <3>3
  <2>5. Together(y, a)
    BY <2>4 DEF Together, Owned
  <2>6. QED
    BY <1>1, <2>1, <2>2, <2>5
<1>8. QED
  BY <1>6, <1>7

-----------------------------------------------------------------------------
(***************************************************************************)
(* Actions of the peer.                                                    *)
(***************************************************************************)

\* The first message of the peer
LEMMA ProcessFirstKeeps ==
    ASSUME IInv, ProcessFirst
    PROVE  IInv'
<1> USE DEF IInv, Alone
<1>1. PICK session \in {"queued", "starting"} :
         con' = [con EXCEPT !.state = "PROCESSING", !.session = session, !.received = 1]
  BY DEF ProcessFirst
<1>2. con.life = "attached" /\ con.state = "SETUP" /\ agent' = agent
  BY DEF ProcessFirst
<1>3. 1 \in 0..MaxMessages
  BY ConnectionAssumption
<1>4. con' \in Connections
  BY <1>1, <1>3, Zenon DEF Connections, States
<1>5. con'.state = "PROCESSING" /\ con'.session = session /\ con'.received = 1
      /\ con'.failure = con.failure /\ con'.abortSent = con.abortSent /\ con'.timer = con.timer
      /\ con'.life = con.life /\ con'.signals = con.signals /\ con'.relay = con.relay /\ con'.calls = con.calls
  BY <1>1 DEF Connections
<1>6. con.session = "none" /\ con.calls = <<>> /\ agent = NoAgent
  BY <1>2 DEF Owned, Relayed, Together, Connections
<1>7. Owned(con') /\ Relayed(con')
  BY <1>2, <1>5, <1>6 DEF Owned, Relayed
<1>8. Len(con.signals) = 0 /\ ~con.abortSent
  <2>1. Len(con.signals) \in Nat
    BY DEF Connections
  <2>2. QED
    BY <1>2, <2>1 DEF Owned, Replied, Replies
<1>9. Replied(con')
  BY <1>5, <1>8 DEF Replied, Replies
<1>10. Together(con', agent')
  BY <1>2, <1>5, <1>6 DEF Together, CallsTo
<1>11. QED
  BY <1>2, <1>4, <1>7, <1>9, <1>10

\* Messages that are refused
LEMMA ProcessRefusedKeeps ==
    ASSUME IInv, ProcessUnusable \/ ProcessUnexpected
    PROVE  IInv'
<1>1. con.life = "attached" /\ con.state # "DONE" /\ con' = Failed(con) /\ agent' = agent
  BY DEF ProcessUnusable, ProcessUnexpected
<1>2. Alone(Failed(con)) /\ Together(Failed(con), agent)
  BY <1>1, FailKeeps DEF IInv
<1>3. QED
  BY <1>1, <1>2 DEF IInv

\* The next message of the peer, passed on to the helper
LEMMA ProcessNextKeeps ==
    ASSUME IInv, ProcessNext
    PROVE  IInv'
<1> USE DEF IInv, Alone
<1>1. con.life = "attached" /\ con.state = "WAITING" /\ con.received < MaxMessages /\ agent' = agent
  BY DEF ProcessNext
<1>2. con.session = "running" /\ con.relay /\ con.calls = <<>>
  BY <1>1 DEF Owned, Relayed, Together, Turn, Connections
<1>3. PICK calls : calls = Append(con.calls, StoreMessage)
  OBVIOUS
<1>4. calls \in Seq(Calls) /\ Len(calls) = 1 /\ calls[1] = StoreMessage /\ calls # <<>>
  BY <1>2, <1>3, CallsDiffer
<1>5. PICK n : n = con.received + 1
  OBVIOUS
<1>6. n \in 0..MaxMessages
  BY <1>1, <1>5, ConnectionAssumption DEF Connections
<1>7. con' = [con EXCEPT !.received = n, !.calls = calls, !.state = "PROCESSING", !.timer = FALSE]
  BY <1>2, <1>3, <1>5 DEF ProcessNext, StopTimer, Connections
<1>8. con' \in Connections
  BY <1>4, <1>6, <1>7, Zenon DEF Connections, States
<1>9. con'.state = "PROCESSING" /\ ~con'.timer /\ con'.received = n /\ con'.calls = calls
      /\ con'.failure = con.failure /\ con'.abortSent = con.abortSent /\ con'.session = con.session
      /\ con'.life = con.life /\ con'.signals = con.signals /\ con'.relay = con.relay
  BY <1>7 DEF Connections
<1>10. Owned(con') /\ Relayed(con')
  BY <1>1, <1>2, <1>9 DEF Owned, Relayed
<1>11. Replied(con')
  <2>1. Len(con.signals) \in Nat /\ con.received \in Nat
    BY DEF Connections
  <2>2. ~con.abortSent
    BY <1>1 DEF Owned
  <2>3. QED
    BY <1>1, <1>5, <1>9, <2>1, <2>2 DEF Replied, Replies
<1>12. agent.state = "WAITING" /\ Quiet(agent) /\ agent.started
  <2>1. agent.state = "WAITING" /\ Quiet(agent)
    BY <1>1, <1>2 DEF Together, Turn
  <2>2. QED
    BY <2>1 DEF Together, SignalsOf, NoAgent
<1>13. Together(con', agent')
  <2>1. CallsTo(con', agent)
    <3>1. 2..Len(con'.calls) = {}
      <4>1. Len(con'.calls) = 1
        BY <1>4, <1>9
      <4>2. QED
        BY <4>1
    <3>2. con'.calls[1] = StoreMessage /\ con'.calls[1] # Sync
      BY <1>4, <1>9, CallsDiffer
    <3>3. QED
      BY <1>12, <3>1, <3>2 DEF CallsTo
  <2>2. Turn(con', agent)
    <3>1. ~First(agent, "Message") /\ ~First(agent, "Shutdown")
      BY <1>12 DEF Quiet, First
    <3>2. Len(con'.calls) = 1 /\ con'.calls # <<>> /\ con'.calls[1] = StoreMessage
      BY <1>4, <1>9
    <3>3. QED
      BY <1>9, <1>12, <3>1, <3>2 DEF Turn
  <2>3. QED
    BY <1>1, <1>2, <1>9, <2>1, <2>2 DEF Together
<1>14. QED
  BY <1>1, <1>8, <1>10, <1>11, <1>13

\* Close(), be it regular or not
LEMMA CloseKeeps ==
    ASSUME IInv, NEW normal \in BOOLEAN, Close(normal)
    PROVE  IInv'
<1> USE DEF IInv, Alone
<1>1. con.life = "attached" /\ agent' = agent
  BY DEF Close
<1>2. PICK x : x = [con EXCEPT !.life = "detached"]
  OBVIOUS
<1>3. x \in Connections
  BY <1>2, Zenon DEF Connections
<1>4. x.life = "detached" /\ x.state = con.state
      /\ x.failure = con.failure /\ x.abortSent = con.abortSent /\ x.session = con.session
      /\ x.timer = con.timer /\ x.signals = con.signals /\ x.relay = con.relay
      /\ x.received = con.received /\ x.calls = con.calls
  BY <1>2 DEF Connections
<1>5. ~con.abortSent /\ ~con.failure /\ con.state # "DONE"
  BY <1>1 DEF Owned
<1>6. CASE normal /\ con.state = "FINAL"
  <2>1. PICK y : y = [x EXCEPT !.state = "DONE"]
    OBVIOUS
  <2>2. y \in Connections
    BY <1>3, <2>1, Zenon DEF Connections, States
  <2>3. y.state = "DONE" /\ y.life = x.life
        /\ y.failure = x.failure /\ y.abortSent = x.abortSent /\ y.session = x.session
        /\ y.timer = x.timer /\ y.signals = x.signals /\ y.relay = x.relay
        /\ y.received = x.received /\ y.calls = x.calls
    BY <1>3, <2>1 DEF Connections
  <2>4. con' = Status(y, FALSE)
    BY <1>2, <1>6, <2>1 DEF Close
  <2>5. StatusRel(y, FALSE, con')
    BY <2>2, <2>4, StatusIs
  <2>6. con.session = "running" /\ con.relay /\ con.calls = <<>> /\ agent.state = "FINAL" /\ Quiet(agent)
    BY <1>1, <1>6 DEF Owned, Relayed, Together, Turn, Connections
  <2>7. con'.calls = Append(con.calls, Ended)
    BY <1>4, <2>3, <2>5, <2>6 DEF StatusRel
  <2>8. Len(con'.calls) = 1 /\ con'.calls[1] = Ended
    BY <2>6, <2>7
  <2>9. con' \in Connections /\ con'.state = "DONE" /\ con'.life = "detached" /\ ~con'.failure
        /\ ~con'.abortSent /\ con'.session = "running" /\ con'.relay /\ con'.timer = con.timer
        /\ con'.signals = con.signals /\ con'.received = con.received
    BY <1>4, <1>5, <2>3, <2>5, <2>6 DEF StatusRel
  <2>10. Owned(con') /\ Relayed(con')
    BY <1>6, <2>9 DEF Owned, Relayed
  <2>11. Replied(con')
    BY <1>5, <1>6, <2>9 DEF Replied, Replies
  <2>12. agent.started
    BY <2>6 DEF Together, SignalsOf, NoAgent
  <2>13. CallsTo(con', agent)
    <3>1. 2..Len(con'.calls) = {}
      BY <2>8
    <3>2. con'.calls[1] # StoreMessage /\ con'.calls[1] # Sync
      BY <2>8, CallsDiffer
    <3>3. QED
      BY <2>12, <3>1, <3>2 DEF CallsTo
  <2>14. Told(con', agent)
    BY <2>8 DEF Told
  <2>15. Closed(con', agent)
    BY <2>6, <2>8 DEF Closed
  <2>16. Together(con', agent)
    BY <2>9, <2>13, <2>14, <2>15 DEF Together
  <2>17. QED
    BY <1>1, <2>9, <2>10, <2>11, <2>16
<1>7. CASE ~(normal /\ con.state = "FINAL")
  <2>1. PICK y : y = Status(x, TRUE)
    OBVIOUS
  <2>2. StatusRel(x, TRUE, y)
    BY <1>3, <2>1, StatusIs
  <2>3. con' = Failed(y)
    BY <1>2, <1>7, <2>1 DEF Close
  <2>4. FailRel(y, con')
    BY <2>2, <2>3, FailedIs DEF StatusRel
  <2>5. EndsRel(con, con')
    <3>1. CASE con.relay /\ con.session = "running"
      <4>1. con.calls \in Seq(Calls) /\ y.calls \in Seq(Calls)
        BY <2>2 DEF Connections, StatusRel
      <4>2. y.calls = Append(con.calls, Broken)
        BY <1>4, <2>2, <3>1 DEF StatusRel
      <4>3. con'.calls = Append(y.calls, Broken)
        BY <1>4, <2>2, <2>4, <3>1 DEF StatusRel, FailRel
      <4>4. Longer(con.calls, y.calls) /\ Len(y.calls) > Len(con.calls)
        BY <4>1, <4>2, LongerIs
      <4>5. Longer(y.calls, con'.calls) /\ Len(con'.calls) > Len(y.calls)
        BY <4>1, <4>3, LongerIs
      <4>6. con'.calls \in Seq(Calls)
        BY <2>4 DEF FailRel, Connections
      <4>7. Len(con.calls) \in Nat /\ Len(y.calls) \in Nat /\ Len(con'.calls) \in Nat
        BY <4>1, <4>6
      <4>8. Longer(con.calls, con'.calls) /\ Len(con'.calls) > Len(con.calls)
        BY <4>4, <4>5, <4>7 DEF Longer
      <4>9. QED
        BY <1>1, <1>4, <2>2, <2>4, <3>1, <4>8 DEF StatusRel, FailRel, EndsRel
    <3>2. CASE ~(con.relay /\ con.session = "running")
      BY <1>1, <1>4, <2>2, <2>4, <3>2 DEF StatusRel, FailRel, EndsRel
    <3>3. QED
      BY <3>1, <3>2
  <2>6. QED
    BY <1>1, <1>5, <2>5, EndKeeps
<1>8. QED
  BY <1>6, <1>7

\* The client vanishes, or the last reference to the connection is dropped.
LEMMA DestroyedKeeps ==
    ASSUME IInv, Vanish \/ DelayedDeletion
    PROVE  IInv'
<1>1. con.life # "destroyed" /\ con' = Destroy(con) /\ agent' = agent
  BY DEF Vanish, DelayedDeletion
<1>2. Alone(Destroy(con)) /\ Together(Destroy(con), agent)
  BY <1>1, DestroyKeeps DEF IInv
<1>3. QED
  BY <1>1, <1>2 DEF IInv

-----------------------------------------------------------------------------
(***************************************************************************)
(* Actions of the server.                                                  *)
(***************************************************************************)

\* The timeout for the next message
LEMMA TimedOutKeeps ==
    ASSUME IInv, TimedOut
    PROVE  IInv'
<1> USE DEF IInv
<1>1. con.timer /\ agent' = agent
  BY DEF TimedOut
<1>2. PICK x : x = [con EXCEPT !.timer = FALSE]
  OBVIOUS
<1>3. x \in Connections
  BY <1>2, Zenon DEF Connections, Alone
<1>4. ~x.timer /\ x.state = con.state /\ x.life = con.life
      /\ x.failure = con.failure /\ x.abortSent = con.abortSent /\ x.session = con.session
      /\ x.signals = con.signals /\ x.relay = con.relay
      /\ x.received = con.received /\ x.calls = con.calls
  BY <1>2 DEF Connections, Alone
<1>5. con.state # "DONE" /\ con.life # "destroyed"
  BY <1>1 DEF Alone, Owned
<1>6. Alone(x)
  BY <1>3, <1>4 DEF Alone, Owned, Relayed, Replied, Replies
<1>7. Together(x, agent)
  BY <1>4 DEF Together, CallsTo, Turn, Told, Closed
<1>8. con' = Failed(x)
  BY <1>2 DEF TimedOut
<1>9. Alone(Failed(x)) /\ Together(Failed(x), agent)
  BY <1>4, <1>5, <1>6, <1>7, FailKeeps
<1>10. QED
  BY <1>1, <1>8, <1>9

\* A session whose end destroys the connection unless that was given up before
LEMMA DoneCbKeeps ==
    ASSUME NEW x, Alone(x), x.session \in {"queued", "starting", "running"}
    PROVE  Alone(DoneCb(x)) /\ Together(DoneCb(x), NoAgent)
<1> USE DEF Alone
<1>1. PICK y : y = [x EXCEPT !.session = "done", !.calls = <<>>]
  OBVIOUS
<1>2. y \in Connections
  <2>1. <<>> \in Seq(Calls)
    OBVIOUS
  <2>2. QED
    BY <1>1, <2>1, Zenon DEF Connections
<1>3. y.session = "done" /\ y.calls = <<>> /\ y.relay = x.relay
      /\ y.state = x.state /\ y.failure = x.failure /\ y.abortSent = x.abortSent
      /\ y.timer = x.timer /\ y.life = x.life /\ y.received = x.received /\ y.signals = x.signals
  BY <1>1 DEF Connections
<1>4. PICK z : z = DoneCb(x)
  OBVIOUS
<1>5. NoAgent.started = FALSE /\ NoAgent.state = "NONE" /\ NoAgent.result = "none" /\ Len(NoAgent.signals) = 0
  BY DEF NoAgent
<1>6. SignalsOf(NoAgent)
  BY <1>5 DEF SignalsOf, Quiet, First
<1>7. CASE x.life = "attached"
  <2>1. z = Destroy(y)
    BY <1>1, <1>3, <1>4, <1>7 DEF DoneCb, ShutdownConnection
  <2>2. DestroyRel(y, z)
    BY <1>2, <2>1, DestroyIs
  <2>3. x.state # "DONE" /\ ~x.abortSent
    BY <1>7 DEF Owned
  <2>4. z.life = "destroyed" /\ ~z.relay /\ z.session = "done" /\ z.calls = <<>> /\ ~z.timer
        /\ z.state = "FAILED" /\ z.abortSent /\ z.received = x.received
        /\ z.signals = Append(x.signals, "Abort") /\ z \in Connections
    BY <1>3, <2>2, <2>3 DEF DestroyRel
  <2>5. Owned(z) /\ Relayed(z)
    BY <2>4 DEF Owned, Relayed
  <2>6. Replied(z)
    <3>1. x.signals \in Seq({"Reply", "Final", "Abort"}) /\ x.received \in Nat
      BY DEF Connections
    <3>2. /\ Len(z.signals) = Len(x.signals) + 1 /\ z.signals[Len(z.signals)] = "Abort"
          /\ \A i \in 1..Len(x.signals) : z.signals[i] = x.signals[i]
          /\ Len(x.signals) \in Nat
      BY <2>4, <3>1, AppendIs
    <3>3. Replies(z) = Len(x.signals) /\ Replies(x) = Len(x.signals)
      BY <2>3, <2>4, <3>2 DEF Replies
    <3>4. \A i \in 1..Replies(z) : z.signals[i] # "Abort" /\ (z.signals[i] = "Final" => i = Replies(z))
      BY <3>2, <3>3 DEF Replied
    <3>5. Replies(z) <= z.received /\ Len(z.signals) > 0
      BY <2>4, <3>2, <3>3 DEF Replied
    <3>6. QED
      BY <2>4, <3>2, <3>4, <3>5, Zenon DEF Replied
  <2>7. Together(z, NoAgent)
    BY <1>5, <1>6, <2>4 DEF Together, CallsTo
  <2>8. QED
    BY <1>4, <2>4, <2>5, <2>6, <2>7
<1>8. CASE x.life # "attached"
  <2>1. z = y
    BY <1>1, <1>3, <1>4, <1>8 DEF DoneCb, ShutdownConnection
  <2>2. Owned(y) /\ Relayed(y)
    BY <1>3, <1>8 DEF Owned, Relayed
  <2>3. Replied(y)
    BY <1>3 DEF Replied, Replies
  <2>4. Together(y, NoAgent)
    BY <1>3, <1>5, <1>6 DEF Together, CallsTo
  <2>5. QED
    BY <1>2, <1>4, <2>1, <2>2, <2>3, <2>4
<1>9. QED
  BY <1>7, <1>8

\* There is always a value for the helper that has not been started.
LEMMA NoAgentIs == NoAgent \in Agents
<1>1. <<>> \in Seq({"Message", "Shutdown", "Result"})
  OBVIOUS
<1>2. QED
  BY <1>1, Zenon DEF NoAgent, Agents, States

\* The session is removed from the queue.
LEMMA KillQueuedKeeps ==
    ASSUME IInv, KillQueued
    PROVE  IInv'
<1> USE DEF IInv, Alone
<1>1. con.session = "queued" /\ agent' = agent /\ con.calls = <<>> /\ agent = NoAgent
  BY DEF KillQueued, Relayed, Together
<1>2. PICK x : x = ShutdownConnection(con)
  OBVIOUS
<1>3. Alone(x) /\ Together(x, agent) /\ x.session \in {"queued", "done"} /\ x.life # "attached"
  <2>1. CASE con.life = "attached"
    <3>1. x = Destroy(con)
      BY <1>2, <2>1 DEF ShutdownConnection
    <3>2. DestroyRel(con, x)
      BY <3>1, DestroyIs
    <3>3. Alone(Destroy(con)) /\ Together(Destroy(con), agent)
      BY <2>1, DestroyKeeps
    <3>4. QED
      BY <1>1, <3>1, <3>2, <3>3 DEF DestroyRel
  <2>2. CASE con.life # "attached"
    BY <1>1, <1>2, <2>2 DEF ShutdownConnection
  <2>3. QED
    BY <2>1, <2>2
<1>4. con' = [x EXCEPT !.session = "done"]
  BY <1>2 DEF KillQueued
<1>5. con' \in Connections
  BY <1>3, <1>4, Zenon DEF Connections
<1>6. con'.session = "done" /\ con'.calls = x.calls /\ con'.relay = x.relay
      /\ con'.state = x.state /\ con'.failure = x.failure /\ con'.abortSent = x.abortSent
      /\ con'.timer = x.timer /\ con'.life = x.life /\ con'.received = x.received /\ con'.signals = x.signals
  BY <1>3, <1>4 DEF Connections
<1>7. Owned(con') /\ Relayed(con')
  BY <1>3, <1>6 DEF Owned, Relayed
<1>8. Replied(con')
  BY <1>3, <1>6 DEF Replied, Replies
<1>9. Together(con', agent)
  BY <1>1, <1>3, <1>6 DEF Together, CallsTo
<1>10. QED
  BY <1>1, <1>5, <1>7, <1>8, <1>9

\* The session becomes active.
LEMMA ActivateKeeps ==
    ASSUME IInv, Activate
    PROVE  IInv'
<1> USE DEF IInv, Alone
<1>1. con.session = "queued" /\ agent' = agent /\ con' = [con EXCEPT !.session = "starting"]
  BY DEF Activate
<1>2. con' \in Connections
  BY <1>1, Zenon DEF Connections
<1>3. con'.session = "starting" /\ con'.calls = con.calls /\ con'.relay = con.relay
      /\ con'.state = con.state /\ con'.failure = con.failure /\ con'.abortSent = con.abortSent
      /\ con'.timer = con.timer /\ con'.life = con.life /\ con'.received = con.received
      /\ con'.signals = con.signals
  BY <1>1 DEF Connections
<1>4. Owned(con') /\ Relayed(con')
  BY <1>1, <1>3 DEF Owned, Relayed
<1>5. Replied(con')
  BY <1>3 DEF Replied, Replies
<1>6. Together(con', agent)
  BY <1>1, <1>3 DEF Together, CallsTo
<1>7. QED
  BY <1>1, <1>2, <1>4, <1>5, <1>6

\* The helper connects and is asked to run the sync.
LEMMA HelperConnectKeeps ==
    ASSUME IInv, HelperConnect
    PROVE  IInv'
<1> USE DEF IInv, Alone
<1>1. con.session = "starting" /\ agent' = agent
  BY DEF HelperConnect
<1>2. PICK relay \in BOOLEAN : relay = (con.life # "destroyed")
  OBVIOUS
<1>3. PICK calls : calls = <<Sync>>
  OBVIOUS
<1>4. calls \in Seq(Calls) /\ Len(calls) = 1 /\ calls[1] = Sync
  BY <1>3, CallsDiffer
<1>5. con' = [con EXCEPT !.session = "running", !.relay = relay, !.calls = calls]
  BY <1>2, <1>3 DEF HelperConnect
<1>6. con' \in Connections
  BY <1>2, <1>4, <1>5, Zenon DEF Connections
<1>7. con'.session = "running" /\ con'.calls = calls /\ con'.relay = relay
      /\ con'.state = con.state /\ con'.failure = con.failure /\ con'.abortSent = con.abortSent
      /\ con'.timer = con.timer /\ con'.life = con.life /\ con'.received = con.received
      /\ con'.signals = con.signals
  BY <1>5 DEF Connections
<1>8. Owned(con') /\ Relayed(con')
  BY <1>1, <1>2, <1>7 DEF Owned, Relayed
<1>9. Replied(con')
  BY <1>7 DEF Replied, Replies
<1>10. agent = NoAgent /\ NoAgent.started = FALSE /\ NoAgent.state = "NONE" /\ NoAgent.result = "none"
       /\ Len(NoAgent.signals) = 0
  BY <1>1 DEF Together, NoAgent
<1>11. CallsTo(con', agent)
  <2>1. Len(con'.calls) = 1 /\ con'.calls[1] = Sync
    BY <1>4, <1>7
  <2>2. 2..Len(con'.calls) = {}
    BY <2>1
  <2>3. QED
    BY <1>10, <2>1, <2>2, CallsDiffer DEF CallsTo
<1>12. con.life = "attached" => Turn(con', agent)
  <2>1. Len(con'.calls) = 1 /\ con'.calls[1] = Sync
    BY <1>4, <1>7
  <2>2. con.life = "attached" => con'.state = "PROCESSING"
    BY <1>1, <1>7 DEF Owned
  <2>3. QED
    BY <1>10, <2>1, <2>2 DEF Turn, First
<1>13. Told(con', agent) /\ con'.state # "DONE"
  BY <1>1, <1>7, <1>10 DEF Told, Owned
<1>14. Together(con', agent)
  BY <1>1, <1>7, <1>11, <1>12, <1>13 DEF Together
<1>15. QED
  BY <1>1, <1>6, <1>8, <1>9, <1>14

\* The session ends without an answer of the helper.
LEMMA SessionEndsKeeps ==
    ASSUME IInv, SessionEnds
    PROVE  IInv'
  BY DoneCbKeeps, NoAgentIs DEF IInv, SessionEnds

\* A message or the end of messages is taken from the signals of the helper.
LEMMA SignalTaken ==
    ASSUME NEW a \in Agents, SignalsOf(a), ~Quiet(a), NEW b, b = [a EXCEPT !.signals = Tail(@)]
    PROVE  /\ b \in Agents /\ a.started
           /\ b.started = a.started /\ b.state = a.state /\ b.error = a.error /\ b.ending = a.ending
           /\ b.result = a.result
           /\ SignalsOf(b) /\ Quiet(b)
<1>1. a.signals \in Seq({"Message", "Shutdown", "Result"}) /\ Len(a.signals) \in Nat
  BY DEF Agents
<1>2. Len(a.signals) > 0
  BY DEF Quiet
<1>3. PICK q : q = Tail(a.signals)
  OBVIOUS
<1>4. a.signals # <<>>
  BY <1>2
<1>5. /\ q \in Seq({"Message", "Shutdown", "Result"}) /\ Len(q) = Len(a.signals) - 1
      /\ \A i \in 1..(Len(a.signals) - 1) : q[i] = a.signals[i + 1]
  BY <1>1, <1>3, <1>4, TailIs
<1>6. b = [a EXCEPT !.signals = q]
  BY <1>3
<1>7. b \in Agents
  BY <1>5, <1>6, Zenon DEF Agents
<1>8. b.started = a.started /\ b.state = a.state /\ b.error = a.error /\ b.ending = a.ending
      /\ b.result = a.result /\ b.signals = q
  BY <1>6 DEF Agents
<1>9. a.started
  BY <1>4 DEF SignalsOf, NoAgent
<1>10. Len(a.signals) = (IF a.result = "none" THEN 1 ELSE 2)
  BY DEF SignalsOf
<1>11. CASE a.result = "none"
  <2>1. Len(b.signals) = 0
    BY <1>5, <1>8, <1>10, <1>11
  <2>2. Quiet(b) /\ ~First(b, "Message") /\ ~First(b, "Shutdown")
    BY <2>1 DEF Quiet, First
  <2>3. SignalsOf(b)
    BY <1>8, <1>9, <1>11, <2>1, <2>2 DEF SignalsOf
  <2>4. QED
    BY <1>7, <1>8, <1>9, <2>2, <2>3
<1>12. CASE a.result # "none"
  <2>1. Len(b.signals) = 1 /\ b.signals[1] = "Result"
    BY <1>1, <1>5, <1>8, <1>10, <1>12 DEF SignalsOf
  <2>2. Quiet(b) /\ ~First(b, "Message") /\ ~First(b, "Shutdown")
    BY <2>1 DEF Quiet, First
  <2>3. SignalsOf(b)
    BY <1>8, <1>9, <1>12, <2>1, <2>2 DEF SignalsOf
  <2>4. QED
    BY <1>7, <1>8, <1>9, <2>2, <2>3
<1>13. QED
  BY <1>11, <1>12

\* The helper is told that its message or its end came too late.
LEMMA TellKeeps ==
    ASSUME NEW x, NEW a \in Agents, NEW b \in Agents, Alone(x), Together(x, a),
           x.session = "running", x.life # "attached", x.state # "DONE", ~Quiet(a), a.started,
           b.started = a.started, b.state = a.state, b.result = a.result, SignalsOf(b), Quiet(b)
    PROVE  Alone(Tell(x, TRUE)) /\ Together(Tell(x, TRUE), b)
<1> USE DEF Alone
<1>1. PICK y : y = Tell(x, TRUE)
  OBVIOUS
<1>2. TellRel(x, TRUE, y)
  BY <1>1, TellIs
<1>3. x.calls \in Seq(Calls) /\ y.calls = Append(x.calls, Broken)
  BY <1>2 DEF TellRel, Connections
<1>4. Longer(x.calls, y.calls) /\ Len(y.calls) > Len(x.calls) /\ Len(x.calls) \in Nat
  BY <1>3, LongerIs
<1>5. Owned(y) /\ Relayed(y)
  BY <1>2 DEF TellRel, Owned, Relayed
<1>6. Replied(y)
  BY <1>2 DEF TellRel, Replied, Replies
<1>7. CallsTo(y, b)
  <2>1. Len(x.calls) > 0 => x.calls[1] # Sync /\ x.calls[1] # StoreMessage
    BY DEF Together, CallsTo
  <2>2. Len(y.calls) \in Nat
    BY <1>2 DEF TellRel, Connections
  <2>3. y.calls[1] # Sync /\ y.calls[1] # StoreMessage
    BY <1>4, <2>1, <2>2, CallsDiffer DEF Longer
  <2>4. \A k \in 2..Len(y.calls) : y.calls[k] \in {Broken, Ended}
    BY <1>4, <2>2 DEF Longer, Together, CallsTo
  <2>5. QED
    BY <2>3, <2>4 DEF CallsTo
<1>8. Told(y, b)
  BY <1>2, <1>4 DEF TellRel, Told, Connections
<1>9. Together(y, b)
  BY <1>2, <1>7, <1>8 DEF TellRel, Together
<1>10. QED
  BY <1>1, <1>2, <1>5, <1>6, <1>9 DEF TellRel

\* A reply to the peer
LEMMA ReplySent ==
    ASSUME NEW x, Alone(x), x.life = "attached", x.state = "PROCESSING", NEW y \in Connections,
           NEW s \in {"Reply", "Final"}, y.signals = Append(x.signals, s),
           y.received = x.received, ~y.abortSent, y.state = (IF s = "Reply" THEN "WAITING" ELSE "FINAL")
    PROVE  Replied(y)
<1>1. x.signals \in Seq({"Reply", "Final", "Abort"}) /\ x.received \in Nat /\ ~x.abortSent
  BY DEF Connections, Alone, Owned
<1>2. /\ Len(y.signals) = Len(x.signals) + 1 /\ y.signals[Len(y.signals)] = s
      /\ \A i \in 1..Len(x.signals) : y.signals[i] = x.signals[i]
      /\ Len(x.signals) \in Nat
  BY <1>1, AppendIs
<1>3. Replies(y) = Len(x.signals) + 1 /\ Replies(x) = Len(x.signals)
  BY <1>1, <1>2 DEF Replies
<1>4. \A i \in 1..Len(x.signals) : x.signals[i] # "Abort" /\ x.signals[i] # "Final"
  BY <1>3 DEF Alone, Replied
<1>5. \A i \in 1..Replies(y) : i \in 1..Len(x.signals) \/ i = Replies(y)
  BY <1>2, <1>3
<1>6. y.signals[Replies(y)] = s
  BY <1>2, <1>3
<1>7. \A i \in 1..Replies(y) : y.signals[i] # "Abort" /\ (y.signals[i] = "Final" => i = Replies(y) /\ s = "Final")
  BY <1>2, <1>4, <1>5, <1>6
<1>8. Replies(y) <= y.received
  BY <1>1, <1>2, <1>3 DEF Alone, Replied
<1>9. y.state # "SETUP" /\ y.state # "PROCESSING" /\ (s = "Final" => y.state = "FINAL")
  OBVIOUS
<1>10. QED
  BY <1>7, <1>8, <1>9, Zenon DEF Replied

\* A message of the helper
LEMMA SendViaConnectionKeeps ==
    ASSUME NEW x, NEW a \in Agents, NEW b \in Agents, Alone(x), Together(x, a),
           x.session = "running", First(a, "Message"), a.started,
           b.started = a.started, b.state = a.state, b.result = a.result, SignalsOf(b), Quiet(b)
    PROVE  Alone(SendViaConnection(x)) /\ Together(SendViaConnection(x), b)
<1> USE DEF Alone
<1>1. ~Quiet(a) /\ x.state # "DONE"
  <2>1. ~Quiet(a)
    BY DEF First, Quiet
  <2>2. QED
    BY <2>1 DEF Together, Closed
<1>2. CASE x.life # "attached"
  <2>1. SendViaConnection(x) = Tell(x, TRUE)
    BY <1>2 DEF SendViaConnection, Owned
  <2>2. QED
    BY <1>1, <1>2, <2>1, TellKeeps
<1>3. CASE x.life = "attached"
  <2>1. x.state = "PROCESSING" /\ a.state = "WAITING" /\ x.calls = <<>>
    BY <1>3 DEF Together, Turn
  <2>2. PICK y : y = SendViaConnection(x)
    OBVIOUS
  <2>3. PICK signals : signals = Append(x.signals, "Reply")
    OBVIOUS
  <2>4. signals \in Seq({"Reply", "Final", "Abort"})
    BY <2>3, AppendIs DEF Connections
  <2>5. y = [x EXCEPT !.timer = HasTimeout, !.state = "WAITING", !.signals = signals]
    BY <1>3, <2>1, <2>2, <2>3 DEF SendViaConnection, ActivateTimeout, Connections
  <2>6. y \in Connections
    BY <2>4, <2>5, ConnectionAssumption, Zenon DEF Connections, States
  <2>7. y.state = "WAITING" /\ y.signals = signals /\ y.timer = HasTimeout
        /\ y.failure = x.failure /\ y.abortSent = x.abortSent /\ y.session = x.session
        /\ y.life = x.life /\ y.received = x.received /\ y.relay = x.relay /\ y.calls = x.calls
    BY <2>5 DEF Connections
  <2>8. Owned(y) /\ Relayed(y) /\ ~y.abortSent
    BY <1>3, <2>7 DEF Owned, Relayed
  <2>9. Replied(y)
    BY <1>3, <2>1, <2>3, <2>6, <2>7, <2>8, ReplySent
  <2>10. ~First(b, "Message") /\ ~First(b, "Shutdown") /\ Len(y.calls) = 0
    BY <2>1, <2>7 DEF First, Quiet
  <2>11. CallsTo(y, b)
    BY <2>10 DEF CallsTo
  <2>12. Turn(y, b)
    BY <2>1, <2>7, <2>10 DEF Turn
  <2>13. Together(y, b)
    BY <1>3, <2>7, <2>11, <2>12 DEF Together
  <2>14. QED
    BY <2>2, <2>6, <2>8, <2>9, <2>13
<1>4. QED
  BY <1>2, <1>3

\* The end of the messages of the helper
LEMMA SendFinalMsgKeeps ==
    ASSUME NEW x, NEW a \in Agents, NEW b \in Agents, Alone(x), Together(x, a),
           x.session = "running", First(a, "Shutdown"), a.started,
           b.started = a.started, b.state = a.state, b.result = a.result, SignalsOf(b), Quiet(b)
    PROVE  Alone(SendFinalMsg(x)) /\ Together(SendFinalMsg(x), b)
<1> USE DEF Alone
<1>1. ~Quiet(a) /\ x.state # "DONE"
  <2>1. ~Quiet(a)
    BY DEF First, Quiet
  <2>2. QED
    BY <2>1 DEF Together, Closed
<1>2. CASE x.life = "destroyed"
  <2>1. SendFinalMsg(x) = Tell(x, TRUE)
    BY <1>2 DEF SendFinalMsg
  <2>2. QED
    BY <1>1, <1>2, <2>1, TellKeeps
<1>3. CASE x.life = "detached"
  <2>1. SendFinalMsg(x) = x
    BY <1>3 DEF SendFinalMsg, Owned
  <2>2. x.relay
    BY <1>3 DEF Relayed
  <2>3. a.state # "WAITING"
    BY DEF Together, SignalsOf
  <2>4. Told(x, b)
    BY <2>2, <2>3 DEF Told
  <2>5. CallsTo(x, b)
    BY <1>1 DEF CallsTo, Together
  <2>6. Together(x, b)
    BY <1>1, <1>3, <2>4, <2>5 DEF Together
  <2>7. QED
    BY <2>1, <2>6
<1>4. CASE x.life = "attached"
  <2>1. x.state = "PROCESSING" /\ a.state = "FINAL" /\ x.calls = <<>>
    BY <1>4 DEF Together, Turn
  <2>2. PICK y : y = SendFinalMsg(x)
    OBVIOUS
  <2>3. PICK signals : signals = Append(x.signals, "Final")
    OBVIOUS
  <2>4. signals \in Seq({"Reply", "Final", "Abort"})
    BY <2>3, AppendIs DEF Connections
  <2>5. y = [x EXCEPT !.state = "FINAL", !.signals = signals]
    BY <1>4, <2>1, <2>2, <2>3 DEF SendFinalMsg, Connections
  <2>6. y \in Connections
    BY <2>4, <2>5, Zenon DEF Connections, States
  <2>7. y.state = "FINAL" /\ y.signals = signals /\ y.timer = x.timer
        /\ y.failure = x.failure /\ y.abortSent = x.abortSent /\ y.session = x.session
        /\ y.life = x.life /\ y.received = x.received /\ y.relay = x.relay /\ y.calls = x.calls
    BY <2>5 DEF Connections
  <2>8. Owned(y) /\ Relayed(y) /\ ~y.abortSent
    BY <1>4, <2>1, <2>7 DEF Owned, Relayed
  <2>9. Replied(y)
    BY <1>4, <2>1, <2>3, <2>6, <2>7, <2>8, ReplySent
  <2>10. ~First(b, "Message") /\ ~First(b, "Shutdown") /\ Len(y.calls) = 0
    BY <2>1, <2>7 DEF First, Quiet
  <2>11. CallsTo(y, b)
    BY <2>10 DEF CallsTo
  <2>12. Turn(y, b)
    BY <2>1, <2>7, <2>10 DEF Turn
  <2>13. Together(y, b)
    BY <1>4, <2>7, <2>11, <2>12 DEF Together
  <2>14. QED
    BY <2>2, <2>6, <2>8, <2>9, <2>13
<1>5. x.life \in {"attached", "detached", "destroyed"}
  BY DEF Connections
<1>6. QED
  BY <1>2, <1>3, <1>4, <1>5

\* A signal of the helper or its answer
LEMMA SessionReceiveKeeps ==
    ASSUME IInv, SessionReceive
    PROVE  IInv'
<1> USE DEF IInv
<1>1. con.session = "running" /\ agent.signals # <<>>
  BY DEF SessionReceive
<1>2. PICK s : s = Head(agent.signals)
  OBVIOUS
<1>3. agent.signals \in Seq({"Message", "Shutdown", "Result"})
  BY DEF Agents
<1>4. s = agent.signals[1] /\ s \in {"Message", "Shutdown", "Result"} /\ Len(agent.signals) > 0
  BY <1>1, <1>2, <1>3
<1>5. CASE s = "Result"
  <2>1. con' = DoneCb(con) /\ agent' = NoAgent
    BY <1>2, <1>5 DEF SessionReceive
  <2>2. QED
    BY <1>1, <2>1, DoneCbKeeps, NoAgentIs
<1>6. CASE s # "Result"
  <2>1. agent' = [agent EXCEPT !.signals = Tail(@)]
    BY <1>2, <1>6 DEF SessionReceive
  <2>2. ~Quiet(agent)
    BY <1>4, <1>6 DEF Quiet
  <2>3. SignalsOf(agent)
    BY DEF Together
  <2>4. /\ agent' \in Agents /\ agent.started
        /\ agent'.started = agent.started /\ agent'.state = agent.state /\ agent'.result = agent.result
        /\ SignalsOf(agent') /\ Quiet(agent')
    BY <2>1, <2>2, <2>3, SignalTaken
  <2>5. CASE s = "Message"
    <3>1. con' = SendViaConnection(con)
      BY <1>2, <2>5 DEF SessionReceive
    <3>2. First(agent, "Message")
      BY <1>4, <2>5 DEF First
    <3>3. QED
      BY <1>1, <2>4, <3>1, <3>2, SendViaConnectionKeeps
  <2>6. CASE s = "Shutdown"
    <3>1. con' = SendFinalMsg(con)
      BY <1>2, <2>6 DEF SessionReceive
    <3>2. First(agent, "Shutdown")
      BY <1>4, <2>6 DEF First
    <3>3. QED
      BY <1>1, <2>4, <3>1, <3>2, SendFinalMsgKeeps
  <2>7. QED
    BY <1>4, <1>6, <2>5, <2>6
<1>7. QED
  BY <1>5, <1>6

-----------------------------------------------------------------------------
(***************************************************************************)
(* Actions of the helper.                                                  *)
(***************************************************************************)

\* A call reaches the helper.
LEMMA CallTaken ==
    ASSUME NEW x, NEW a, Alone(x), CallsTo(x, a), x.calls # <<>>, NEW y, y = [x EXCEPT !.calls = Tail(@)]
    PROVE  /\ Alone(y) /\ y.session = x.session /\ y.state = x.state /\ y.life = x.life /\ y.relay = x.relay
           /\ Len(x.calls) \in Nat \ {0} /\ Len(y.calls) = Len(x.calls) - 1
           /\ \A k \in 1..Len(y.calls) : k + 1 \in 2..Len(x.calls) /\ y.calls[k] = x.calls[k + 1]
           /\ \A k \in 1..Len(y.calls) : y.calls[k] \in {Broken, Ended}
<1> USE DEF Alone
<1>1. PICK q : q = Tail(x.calls)
  OBVIOUS
<1>2. x.calls \in Seq(Calls)
  BY DEF Connections
<1>3. /\ q \in Seq(Calls) /\ Len(q) = Len(x.calls) - 1 /\ Len(x.calls) \in Nat \ {0}
      /\ \A i \in 1..(Len(x.calls) - 1) : q[i] = x.calls[i + 1]
  BY <1>1, <1>2, TailIs
<1>4. y = [x EXCEPT !.calls = q]
  BY <1>1
<1>5. y \in Connections
  BY <1>3, <1>4, Zenon DEF Connections
<1>6. y.calls = q /\ y.session = x.session /\ y.relay = x.relay
      /\ y.state = x.state /\ y.failure = x.failure /\ y.abortSent = x.abortSent
      /\ y.timer = x.timer /\ y.life = x.life /\ y.received = x.received /\ y.signals = x.signals
  BY <1>4 DEF Connections
<1>7. x.session = "running"
  BY DEF Relayed
<1>8. Owned(y) /\ Relayed(y) /\ Replied(y)
  BY <1>6, <1>7 DEF Owned, Relayed, Replied, Replies
<1>9. \A k \in 1..Len(q) : k + 1 \in 2..Len(x.calls) /\ q[k] = x.calls[k + 1]
  BY <1>3
<1>10. \A k \in 1..Len(q) : q[k] \in {Broken, Ended}
  BY <1>9 DEF CallsTo
<1>11. QED
  BY <1>3, <1>5, <1>6, <1>8, <1>9, <1>10

\* A call of the server
LEMMA HelperReceiveKeeps ==
    ASSUME IInv, HelperReceive
    PROVE  IInv'
<1> USE DEF IInv
<1>1. con.calls # <<>> /\ con' = [con EXCEPT !.calls = Tail(@)]
  BY DEF HelperReceive
<1>2. CallsTo(con, agent) /\ SignalsOf(agent)
  BY DEF Together
<1>3. /\ Alone(con') /\ con'.session = con.session /\ con'.state = con.state /\ con'.life = con.life
      /\ con'.relay = con.relay
      /\ Len(con.calls) \in Nat \ {0} /\ Len(con'.calls) = Len(con.calls) - 1
      /\ \A k \in 1..Len(con'.calls) : k + 1 \in 2..Len(con.calls) /\ con'.calls[k] = con.calls[k + 1]
      /\ \A k \in 1..Len(con'.calls) : con'.calls[k] \in {Broken, Ended}
  BY <1>1, <1>2, CallTaken
<1>4. PICK c : c = con.calls[1]
  OBVIOUS
<1>5. c \in {Sync, StoreMessage, Broken, Ended} /\ c = Head(con.calls)
  <2>1. con.calls \in Seq(Calls)
    BY DEF Alone, Connections
  <2>2. c \in Calls /\ c = Head(con.calls)
    BY <1>1, <1>4, <2>1
  <2>3. QED
    BY <2>2 DEF Calls, Broken, Ended
<1>6. con.session = "running"
  BY <1>1 DEF Alone, Relayed
<1>7. Len(con'.calls) > 0 => con'.calls[1] # Sync /\ con'.calls[1] # StoreMessage
  BY <1>3, CallsDiffer
<1>8. \A k \in 2..Len(con'.calls) : con'.calls[k] \in {Broken, Ended}
  BY <1>3
<1>9. ASSUME NEW b, b.started PROVE CallsTo(con', b)
  BY <1>7, <1>8, <1>9 DEF CallsTo
<1>10. con.state = "DONE" => c = Ended /\ \A k \in 1..Len(con'.calls) : con'.calls[k] = Ended
  <2>1. con.state = "DONE" => \A k \in 1..Len(con.calls) : con.calls[k] = Ended
    BY <1>6 DEF Together, Closed
  <2>2. 1 \in 1..Len(con.calls)
    BY <1>3
  <2>3. QED
    BY <1>3, <1>4, <2>1, <2>2
<1>11. con.life = "attached" =>
         /\ con.calls[1] \in {Sync, StoreMessage} /\ Len(con'.calls) = 0 /\ con'.state = "PROCESSING"
         /\ agent.state \in {"NONE", "PROCESSING", "WAITING", "FINAL"}
         /\ ~First(agent, "Message") /\ ~First(agent, "Shutdown")
  <2> HAVE con.life = "attached"
  <2>1. Turn(con, agent)
    BY <1>6 DEF Together
  <2>2. Len(con.calls) <= 1
    BY <2>1 DEF Turn
  <2>3. Len(con.calls) = 1 /\ Len(con'.calls) = 0
    <3>1. Len(con.calls) \in Nat \ {0} /\ Len(con'.calls) = Len(con.calls) - 1
      BY <1>3
    <3>2. \A m, n : m \in Nat \ {0} /\ m <= 1 /\ n = m - 1 => m = 1 /\ n = 0
      OBVIOUS
    <3>3. QED
      BY <2>2, <3>1, <3>2, Zenon
  <2>4. con.state \in {"PROCESSING", "WAITING", "FINAL"}
    BY <1>6 DEF Alone, Owned
  <2>5. con.calls[1] \in {Sync, StoreMessage} /\ con.state = "PROCESSING"
    BY <1>1, <2>1, <2>3, <2>4 DEF Turn
  <2>6. /\ agent.state \in {"NONE", "PROCESSING", "WAITING", "FINAL"}
        /\ ~First(agent, "Message") /\ ~First(agent, "Shutdown")
    BY <1>1, <2>1 DEF Turn
  <2>7. QED
    BY <1>3, <2>3, <2>5, <2>6
<1>12. CASE c = Sync
  <2>1. agent = NoAgent /\ ~agent.started
    BY <1>2, <1>3, <1>4, <1>6, <1>12 DEF CallsTo, SignalsOf
  <2>2. agent.state = "NONE" /\ agent.result = "none" /\ Len(agent.signals) = 0 /\ agent.error = FALSE
    BY <2>1 DEF NoAgent
  <2>3. agent' = [agent EXCEPT !.started = TRUE]
    BY <1>5, <1>12 DEF HelperReceive
  <2>4. agent' \in Agents
    BY <2>3, Zenon DEF Agents
  <2>5. agent'.started = TRUE /\ agent'.state = "NONE" /\ agent'.result = agent.result
        /\ agent'.signals = agent.signals
    BY <2>2, <2>3 DEF Agents
  <2>6. Quiet(agent') /\ ~First(agent', "Message") /\ ~First(agent', "Shutdown")
    BY <2>2, <2>5 DEF Quiet, First
  <2>7. SignalsOf(agent')
    BY <2>2, <2>5, <2>6 DEF SignalsOf
  <2>8. con.life = "attached" => Turn(con', agent')
    BY <1>11, <2>2, <2>5, <2>6 DEF Turn
  <2>9. Told(con', agent')
    BY <2>5 DEF Told
  <2>10. con.state # "DONE"
    BY <1>10, <1>12, CallsDiffer
  <2>11. Together(con', agent')
    BY <1>3, <1>6, <1>9, <2>5, <2>7, <2>8, <2>9, <2>10 DEF Together
  <2>12. QED
    BY <1>3, <2>4, <2>11
<1>13. CASE c # Sync /\ (agent.state = "NONE" \/ agent.result # "none")
  <2>1. agent' = agent
    BY <1>5, <1>13 DEF HelperReceive
  <2>2. agent.started
    BY <1>2, <1>3, <1>4, <1>6, <1>13 DEF CallsTo, Agents
  <2>3. con.life = "attached" => agent.result # "none"
    BY <1>2, <1>3, <1>4, <1>11, <1>13 DEF CallsTo
  <2>4. con.life = "attached" => Turn(con', agent)
    BY <1>11, <2>3 DEF Turn
  <2>5. Told(con', agent)
    BY <1>13 DEF Told
  <2>6. con.state = "DONE" => Closed(con', agent)
    <3>1. con.state = "DONE" => Closed(con, agent)
      BY <1>6 DEF Together
    <3>2. QED
      BY <1>10, <3>1 DEF Closed
  <2>7. Together(con', agent)
    BY <1>2, <1>3, <1>6, <1>9, <2>2, <2>4, <2>5, <2>6 DEF Together
  <2>8. QED
    BY <1>3, <2>1, <2>7
<1>14. CASE c = StoreMessage /\ agent.state # "NONE" /\ agent.result = "none"
  <2>1. agent.state = "WAITING" /\ Quiet(agent)
    BY <1>2, <1>3, <1>4, <1>14 DEF CallsTo
  <2>2. agent.started /\ agent.error \in BOOLEAN
    BY <1>2, <1>14 DEF SignalsOf, NoAgent, Agents
  <2>3. agent' = [agent EXCEPT !.state = "PROCESSING"]
    BY <1>5, <1>14, <2>1, CallsDiffer DEF HelperReceive, AgentStoreMessage
  <2>4. agent' \in Agents
    BY <2>3, Zenon DEF Agents, States
  <2>5. agent'.started = agent.started /\ agent'.state = "PROCESSING"
        /\ agent'.result = agent.result /\ agent'.signals = agent.signals
    BY <2>3 DEF Agents
  <2>6. SignalsOf(agent')
    <3>1. Quiet(agent') = Quiet(agent)
      BY <2>5 DEF Quiet
    <3>2. QED
      BY <1>2, <2>1, <2>2, <2>5, <3>1 DEF SignalsOf
  <2>7. ~First(agent', "Message") /\ ~First(agent', "Shutdown")
    BY <2>1, <2>5 DEF Quiet, First
  <2>8. con.life = "attached" => Turn(con', agent')
    BY <1>11, <2>5, <2>7 DEF Turn
  <2>9. Told(con', agent')
    BY <2>5 DEF Told
  <2>10. con.state # "DONE"
    BY <1>10, <1>14, CallsDiffer
  <2>11. Together(con', agent')
    BY <1>3, <1>6, <1>9, <2>2, <2>5, <2>6, <2>8, <2>9, <2>10 DEF Together
  <2>12. QED
    BY <1>3, <2>4, <2>11
<1>15. CASE c \in {Broken, Ended} /\ agent.state # "NONE" /\ agent.result = "none"
  <2>1. Broken.error = TRUE /\ Ended.error = FALSE
    BY DEF Broken, Ended, ConnectionState
  <2>2. agent.started
    BY <1>2, <1>15 DEF SignalsOf, NoAgent
  <2>3. agent' = StoreState(agent, c.error)
    BY <1>5, <1>15, CallsDiffer DEF HelperReceive
  <2>4. PICK state \in {"FAILED", "DONE"}, error \in BOOLEAN :
           agent' = [agent EXCEPT !.state = state, !.error = error]
    <3>1. CASE c = Broken
      <4>1. agent' = [agent EXCEPT !.state = "FAILED", !.error = TRUE]
        BY <2>1, <2>3, <3>1 DEF StoreState
      <4>2. QED
        BY <4>1
    <3>2. CASE c = Ended
      <4>1. PICK state \in {"FAILED", "DONE"} : agent' = [agent EXCEPT !.state = state]
        BY <2>1, <2>3, <3>2 DEF StoreState
      <4>2. agent' = [agent EXCEPT !.state = state, !.error = agent.error] /\ agent.error \in BOOLEAN
        BY <4>1 DEF Agents
      <4>3. QED
        BY <4>2
    <3>3. QED
      BY <1>15, <3>1, <3>2
  <2>5. agent' \in Agents
    BY <2>4, Zenon DEF Agents, States
  <2>6. agent'.started = agent.started /\ agent'.state = state
        /\ agent'.result = agent.result /\ agent'.signals = agent.signals
    BY <2>4 DEF Agents
  <2>7. Quiet(agent') = Quiet(agent)
    BY <2>6 DEF Quiet
  <2>8. SignalsOf(agent')
    BY <1>2, <2>2, <2>4, <2>6, <2>7 DEF SignalsOf
  <2>9. con.life # "attached"
    BY <1>4, <1>11, <1>15, CallsDiffer
  <2>10. Told(con', agent')
    BY <2>4, <2>6 DEF Told
  <2>11. con.state = "DONE" => Closed(con', agent')
    <3>1. con.state = "DONE" => Closed(con, agent)
      BY <1>6 DEF Together
    <3>2. QED
      BY <1>10, <2>4, <2>6, <2>7, <3>1 DEF Closed
  <2>12. Together(con', agent')
    BY <1>3, <1>6, <1>9, <2>2, <2>6, <2>8, <2>9, <2>10, <2>11 DEF Together
  <2>13. QED
    BY <1>3, <2>5, <2>12
<1>16. QED
  BY <1>5, <1>12, <1>13, <1>14, <1>15

\* The engine gets its transport.
LEMMA CreateAgentKeeps ==
    ASSUME IInv, CreateAgent
    PROVE  IInv'
<1> USE DEF IInv
<1>1. agent.started /\ agent.state = "NONE" /\ agent.result = "none" /\ con' = con
      /\ agent' = [agent EXCEPT !.state = "PROCESSING"]
  BY DEF CreateAgent
<1>2. agent' \in Agents
  BY <1>1, Zenon DEF Agents, States
<1>3. agent'.started = agent.started /\ agent'.state = "PROCESSING"
      /\ agent'.result = agent.result /\ agent'.signals = agent.signals
  BY <1>1 DEF Agents
<1>4. Quiet(agent') = Quiet(agent) /\ First(agent', "Message") = First(agent, "Message")
      /\ First(agent', "Shutdown") = First(agent, "Shutdown")
  BY <1>3 DEF Quiet, First
<1>5. con.session = "running"
  BY <1>1 DEF Together, NoAgent
<1>6. SignalsOf(agent')
  BY <1>1, <1>3, <1>4 DEF Together, SignalsOf
<1>7. CallsTo(con, agent')
  BY <1>1, <1>3, <1>4 DEF Together, CallsTo
<1>8. con.life = "attached" => Turn(con, agent')
  BY <1>1, <1>3, <1>4, <1>5 DEF Together, Turn
<1>9. Told(con, agent') /\ con.state # "DONE"
  BY <1>1, <1>3, <1>5 DEF Told, Together, Closed
<1>10. QED
  BY <1>1, <1>2, <1>3, <1>5, <1>6, <1>7, <1>8, <1>9 DEF Together

\* The engine replies or is done: nothing is on its way in the other direction.
LEMMA EngineSendKeeps ==
    ASSUME IInv, EngineSend \/ EngineShutdown
    PROVE  IInv'
<1> USE DEF IInv
<1>1. agent.state = "PROCESSING" /\ agent.result = "none" /\ con' = con
  BY DEF EngineSend, EngineShutdown
<1>2. SignalsOf(agent) /\ agent.signals \in Seq({"Message", "Shutdown", "Result"})
  BY DEF Together, Agents
<1>3. Quiet(agent) /\ agent.started /\ Len(agent.signals) = 0
  BY <1>1, <1>2 DEF SignalsOf, NoAgent
<1>4. agent.signals = <<>>
  BY <1>2, <1>3
<1>5. PICK s \in {"Message", "Shutdown"} : s = IF EngineSend THEN "Message" ELSE "Shutdown"
  OBVIOUS
<1>6. PICK signals : signals = Append(agent.signals, s)
  OBVIOUS
<1>7. signals \in Seq({"Message", "Shutdown", "Result"}) /\ Len(signals) = 1 /\ signals[1] = s
  BY <1>4, <1>6
<1>8. /\ agent' \in Agents /\ agent'.started = agent.started
      /\ agent'.state = IF s = "Message" THEN "WAITING" ELSE "FINAL"
      /\ agent'.result = agent.result /\ agent'.signals = signals
  <2>1. CASE EngineSend
    <3>1. agent' = [agent EXCEPT !.state = "WAITING", !.signals = signals]
      BY <1>5, <1>6, <2>1 DEF EngineSend
    <3>2. agent' \in Agents
      BY <1>7, <3>1, Zenon DEF Agents, States
    <3>3. QED
      BY <1>5, <2>1, <3>1, <3>2 DEF Agents
  <2>2. CASE ~EngineSend
    <3>1. agent' = [agent EXCEPT !.state = "FINAL", !.ending = TRUE, !.signals = signals]
      BY <1>5, <1>6, <2>2 DEF EngineShutdown
    <3>2. agent' \in Agents
      BY <1>7, <3>1, Zenon DEF Agents, States
    <3>3. QED
      BY <1>5, <2>2, <3>1, <3>2 DEF Agents
  <2>3. QED
    BY <2>1, <2>2
<1>9. Len(agent'.signals) = 1 /\ agent'.signals[1] = s
  BY <1>7, <1>8
<1>10. /\ ~Quiet(agent')
       /\ First(agent', "Message") <=> s = "Message"
       /\ First(agent', "Shutdown") <=> s = "Shutdown"
  BY <1>9 DEF Quiet, First
<1>11. SignalsOf(agent')
  BY <1>1, <1>3, <1>8, <1>9, <1>10 DEF SignalsOf
<1>12. con.session = "running" /\ con.state # "DONE"
  <2>1. con.session = "running"
    BY <1>1 DEF Together, NoAgent
  <2>2. QED
    BY <1>1, <2>1 DEF Together, Closed
<1>13. Len(con.calls) > 0 => con.calls[1] # Sync /\ con.calls[1] # StoreMessage
  BY <1>1, <1>3, <1>12 DEF Together, CallsTo
<1>14. CallsTo(con, agent')
  BY <1>3, <1>8, <1>13 DEF Together, CallsTo
<1>15. con.life = "attached" => Turn(con, agent')
  <2> HAVE con.life = "attached"
  <2>1. Turn(con, agent)
    BY <1>12 DEF Together
  <2>2. con.calls \in Seq(Calls)
    BY DEF Alone, Connections
  <2>3. Len(con.calls) = 0
    <3>1. Len(con.calls) \in Nat /\ Len(con.calls) <= 1
      BY <2>1, <2>2 DEF Turn
    <3>2. Len(con.calls) = 1 => con.calls[1] \in {Sync, StoreMessage}
      BY <2>1 DEF Turn
    <3>3. Len(con.calls) # 1
      BY <1>13, <3>2
    <3>4. \A m : m \in Nat /\ m <= 1 /\ m # 1 => m = 0
      OBVIOUS
    <3>5. QED
      BY <3>1, <3>3, <3>4, Zenon
  <2>4. con.calls = <<>>
    BY <2>2, <2>3
  <2>5. con.state = "PROCESSING"
    BY <1>1, <1>12, <2>1 DEF Turn, Alone, Owned
  <2>6. QED
    BY <1>8, <1>10, <2>3, <2>4, <2>5 DEF Turn
<1>16. Told(con, agent')
  BY <1>9 DEF Told
<1>17. Together(con, agent')
  BY <1>11, <1>12, <1>14, <1>15, <1>16 DEF Together
<1>18. QED
  BY <1>1, <1>8, <1>17

\* The sync ends.
LEMMA EngineEndKeeps ==
    ASSUME IInv, NEW result \in {"success", "failure", "aborted"}, EngineEnd(result)
    PROVE  IInv'
<1> USE DEF IInv
<1>1. agent.started /\ agent.result = "none" /\ con' = con
      /\ agent' = [agent EXCEPT !.result = result, !.signals = Append(@, "Result")]
  BY DEF EngineEnd
<1>2. SignalsOf(agent) /\ agent.signals \in Seq({"Message", "Shutdown", "Result"})
  BY DEF Together, Agents
<1>3. PICK signals : signals = Append(agent.signals, "Result")
  OBVIOUS
<1>4. /\ signals \in Seq({"Message", "Shutdown", "Result"})
      /\ Len(signals) = Len(agent.signals) + 1 /\ Len(agent.signals) \in Nat
      /\ \A i \in 1..Len(agent.signals) : signals[i] = agent.signals[i]
      /\ signals[Len(agent.signals) + 1] = "Result"
  BY <1>2, <1>3, AppendIs
<1>5. agent' = [agent EXCEPT !.result = result, !.signals = signals]
  BY <1>1, <1>3
<1>6. agent' \in Agents
  BY <1>4, <1>5, Zenon DEF Agents
<1>7. agent'.started = agent.started /\ agent'.state = agent.state
      /\ agent'.result = result /\ agent'.signals = signals
  BY <1>5 DEF Agents
<1>8. Len(signals) > 0 /\ (Len(agent.signals) > 0 => signals[1] = agent.signals[1])
      /\ (Len(agent.signals) = 0 => signals[1] = "Result")
  BY <1>4
<1>9. /\ Quiet(agent') <=> Quiet(agent)
      /\ First(agent', "Message") <=> First(agent, "Message")
      /\ First(agent', "Shutdown") <=> First(agent, "Shutdown")
  BY <1>4, <1>7, <1>8 DEF Quiet, First
<1>10. SignalsOf(agent')
  BY <1>1, <1>2, <1>4, <1>7, <1>9 DEF SignalsOf
<1>11. CallsTo(con, agent')
  BY <1>1, <1>7, <1>9 DEF Together, CallsTo
<1>12. con.session = "running"
  BY <1>1 DEF Together, NoAgent
<1>13. con.life = "attached" => Turn(con, agent')
  BY <1>7, <1>9, <1>12 DEF Together, Turn
<1>14. con.state = "DONE" => Closed(con, agent')
  BY <1>7, <1>9, <1>12 DEF Together, Closed
<1>15. Told(con, agent')
  BY <1>7 DEF Told
<1>16. QED
  BY <1>1, <1>6, <1>10, <1>11, <1>12, <1>13, <1>14, <1>15 DEF Together

-----------------------------------------------------------------------------
(***************************************************************************)
(* The invariant holds always.                                             *)
(***************************************************************************)

\* The connection that Server::connect() creates
LEMMA Initially == Init => IInv
<1> SUFFICES ASSUME Init PROVE IInv
  OBVIOUS
<1> USE DEF Init
<1>1. <<>> \in Seq(Calls) /\ <<>> \in Seq({"Reply", "Final", "Abort"}) /\ 0 \in 0..MaxMessages
  BY ConnectionAssumption
<1>2. con \in Connections
  BY <1>1, Zenon DEF Connections, States
<1>3. agent \in Agents /\ agent = NoAgent
  BY NoAgentIs
<1>4. Owned(con) /\ Relayed(con) /\ Replied(con)
  BY DEF Owned, Relayed, Replied, Replies
<1>5. Together(con, agent)
  BY DEF Together, SignalsOf, Quiet, First, CallsTo, NoAgent
<1>6. QED
  BY <1>2, <1>3, <1>4, <1>5 DEF IInv, Alone

\* Every step, of the peer, of the server and of the helper, keeps the invariant.
LEMMA Inductive == IInv /\ [Next]_vars => IInv'
<1> SUFFICES ASSUME IInv, [Next]_vars PROVE IInv'
  OBVIOUS
<1>1. CASE ProcessFirst
  BY <1>1, ProcessFirstKeeps
<1>2. CASE ProcessUnusable \/ ProcessUnexpected
  BY <1>2, ProcessRefusedKeeps
<1>3. CASE ProcessNext
  BY <1>3, ProcessNextKeeps
<1>4. CASE \E normal \in BOOLEAN : Close(normal)
  BY <1>4, CloseKeeps
<1>5. CASE Vanish \/ DelayedDeletion
  BY <1>5, DestroyedKeeps
<1>6. CASE TimedOut
  BY <1>6, TimedOutKeeps
<1>7. CASE KillQueued
  BY <1>7, KillQueuedKeeps
<1>8. CASE Activate
  BY <1>8, ActivateKeeps
<1>9. CASE HelperConnect
  BY <1>9, HelperConnectKeeps
<1>10. CASE SessionEnds
  BY <1>10, SessionEndsKeeps
<1>11. CASE SessionReceive
  BY <1>11, SessionReceiveKeeps
<1>12. CASE HelperReceive
  BY <1>12, HelperReceiveKeeps
<1>13. CASE CreateAgent
  BY <1>13, CreateAgentKeeps
<1>14. CASE EngineSend \/ EngineShutdown
  BY <1>14, EngineSendKeeps
<1>15. CASE \E result \in {"success", "failure", "aborted"} : EngineEnd(result)
  BY <1>15, EngineEndKeeps
<1>16. CASE UNCHANGED vars
  BY <1>16 DEF vars, IInv
<1>17. QED
  BY <1>1, <1>2, <1>3, <1>4, <1>5, <1>6, <1>7, <1>8, <1>9, <1>10, <1>11, <1>12, <1>13, <1>14, <1>15,
     <1>16 DEF Next

\* The invariant of all reachable states
LEMMA Always == Spec => []IInv
  BY Initially, Inductive, PTL DEF Spec

-----------------------------------------------------------------------------
(***************************************************************************)
(* What the invariant implies.                                             *)
(***************************************************************************)

\* Connection, session and agent only hold values of their types.
THEOREM TypeCorrect == Spec => []TypeOK
<1>1. IInv => TypeOK
  BY DEF IInv, Alone, TypeOK
<1>2. QED
  BY <1>1, Always, PTL

\* What the peer gets from Connection: at most one Abort, which comes last, no reply
\* after the final one, and no reply to a message it did not send.
THEOREM ReplyProtocolHolds == Spec => []ReplyProtocol
<1>1. ASSUME IInv PROVE ReplyProtocol
  <2> USE <1>1
  <2>1. Replied(con) /\ con.abortSent \in BOOLEAN /\ con.received \in Nat
    BY DEF IInv, Alone, Connections
  <2>2. PICK n : n = Len(con.signals)
    OBVIOUS
  <2>3. n \in Nat
    BY <2>2 DEF IInv, Alone, Connections
  <2>4. PICK m : m = Replies(con)
    OBVIOUS
  <2>5. m \in Nat /\ m <= con.received /\ (m = n \/ (m + 1 = n /\ con.signals[n] = "Abort"))
    BY <2>1, <2>2, <2>3, <2>4 DEF Replied, Replies
  <2>6. \A i \in 1..m : con.signals[i] # "Abort" /\ (con.signals[i] = "Final" => i = m)
    BY <2>1, <2>4 DEF Replied
  <2>7. con.signals \in Seq({"Reply", "Final", "Abort"})
    BY DEF IInv, Alone, Connections
  <2>8. \A i \in 1..n : con.signals[i] \in {"Reply", "Final", "Abort"}
    BY <2>2, <2>7
  <2>9. \A i, j \in 1..n :
          i < j => \/ con.signals[i] = "Reply"
                   \/ con.signals[i] = "Final" /\ con.signals[j] = "Abort"
    <3> SUFFICES ASSUME NEW i \in 1..n, NEW j \in 1..n, i < j
                 PROVE  \/ con.signals[i] = "Reply"
                        \/ con.signals[i] = "Final" /\ con.signals[j] = "Abort"
      OBVIOUS
    <3>1. i \in 1..m
      BY <2>3, <2>5
    <3>2. con.signals[i] # "Reply" => i = m /\ con.signals[i] = "Final"
      BY <2>6, <2>8, <3>1
    <3>3. i = m => j = n /\ con.signals[n] = "Abort"
      BY <2>3, <2>5
    <3>4. QED
      BY <3>2, <3>3
  <2>10. {i \in 1..n : con.signals[i] # "Abort"} = 1..m
    BY <2>3, <2>5, <2>6
  <2>11. Cardinality(1..m) = m
    BY <2>5, FS_Interval
  <2>12. QED
    BY <2>2, <2>5, <2>9, <2>10, <2>11 DEF ReplyProtocol
<1>2. QED
  BY <1>1, Always, PTL

\* A helper that waits for the peer always has something coming: it is not forgotten
\* when the connection fails, is closed or vanishes while its signal is on its way.
THEOREM HelperNotStrandedHolds == Spec => []HelperNotStranded
<1>1. ASSUME IInv, agent.result = "none", agent.signals = <<>>, con.calls = <<>>
      PROVE  /\ agent.state = "WAITING" =>
                  con.relay /\ con.life = "attached" /\ con.state = "WAITING"
             /\ agent.state = "FINAL" =>
                  con.relay /\ (con.life = "attached" => con.state = "FINAL")
  <2> USE <1>1 DEF IInv
  <2>1. Len(agent.signals) = 0 /\ Len(con.calls) = 0 /\ Quiet(agent)
    BY DEF Quiet
  <2>2. CASE con.session # "running"
    BY <2>2 DEF Together, NoAgent
  <2>3. CASE con.session = "running" /\ con.life = "attached"
    <3>1. con.relay
      BY <2>3 DEF Alone, Relayed
    <3>2. Turn(con, agent)
      BY <2>3 DEF Together
    <3>3. QED
      BY <2>1, <2>3, <3>1, <3>2 DEF Turn
  <2>4. CASE con.session = "running" /\ con.life # "attached"
    BY <2>1, <2>4 DEF Together, Told
  <2>5. QED
    BY <2>2, <2>3, <2>4
<1>2. IInv => HelperNotStranded
  BY <1>1 DEF HelperNotStranded
<1>3. QED
  BY <1>2, Always, PTL

\* Server and helper agree on whose turn it is: no message between them is refused as
\* unexpected by the side that receives it.
THEOREM InStepHolds == Spec => []InStep
<1>1. ASSUME IInv PROVE InStep
  <2> USE <1>1 DEF IInv
  <2>1. ASSUME con.calls # <<>>, Head(con.calls) = StoreMessage
        PROVE  agent.state \in {"WAITING", "FAILED"} \/ agent.result # "none"
    <3>1. con.calls \in Seq(Calls)
      BY DEF Alone, Connections
    <3>2. Len(con.calls) > 0 /\ con.calls[1] = StoreMessage
      BY <2>1, <3>1
    <3>3. QED
      BY <3>2 DEF Together, CallsTo
  <2>2. ASSUME agent.signals # <<>>, Head(agent.signals) = "Message", con.life = "attached"
        PROVE  con.state = "PROCESSING"
    <3>1. agent.signals \in Seq({"Message", "Shutdown", "Result"})
      BY DEF Agents
    <3>2. First(agent, "Message")
      BY <2>2, <3>1 DEF First
    <3>3. con.session = "running"
      BY <2>2 DEF Together, NoAgent
    <3>4. QED
      BY <2>2, <3>2, <3>3 DEF Together, Turn
  <2>3. QED
    BY <2>1, <2>2 DEF InStep
<1>2. QED
  BY <1>1, Always, PTL

\* The end of a session leaves the state of a connection that nobody owns alone.
LEMMA DoneCbState ==
    ASSUME NEW x \in Connections, x.life # "attached"
    PROVE  DoneCb(x).state = x.state
<1>1. PICK y : y = [x EXCEPT !.session = "done", !.calls = <<>>]
  OBVIOUS
<1>2. y.life = x.life /\ y.state = x.state
  BY <1>1 DEF Connections
<1>3. QED
  BY <1>1, <1>2 DEF DoneCb, ShutdownConnection

\* A step after a regular end
LEMMA DoneStep ==
    ASSUME IInv, Next, con.state = "DONE"
    PROVE  con'.state = "DONE" /\ (agent'.error => agent.error)
<1> USE DEF IInv
<1>1. con \in Connections /\ con.life # "attached" /\ ~con.timer /\ con.session \in {"running", "done"}
  BY DEF Alone, Owned, Connections
<1>2. con.session = "running" => Closed(con, agent)
  BY DEF Together
<1>3. NoAgent.error = FALSE
  BY DEF NoAgent
<1>4. CASE DelayedDeletion
  <2>1. con' = Destroy(con) /\ agent' = agent
    BY <1>4 DEF DelayedDeletion
  <2>2. DestroyRel(con, Destroy(con))
    BY <1>1, DestroyIs
  <2>3. QED
    BY <2>1, <2>2 DEF DestroyRel
<1>5. CASE SessionEnds
  BY <1>1, <1>3, <1>5, DoneCbState DEF SessionEnds
<1>6. CASE SessionReceive
  <2>1. con.session = "running" /\ agent.signals # <<>>
    BY <1>6 DEF SessionReceive
  <2>2. agent.signals \in Seq({"Message", "Shutdown", "Result"})
    BY DEF Agents
  <2>3. Head(agent.signals) = "Result"
    BY <1>2, <2>1, <2>2 DEF Closed, Quiet
  <2>4. con' = DoneCb(con) /\ agent' = NoAgent
    BY <1>6, <2>3 DEF SessionReceive
  <2>5. QED
    BY <1>1, <1>3, <2>4, DoneCbState
<1>7. CASE HelperReceive
  <2>1. con.calls # <<>> /\ con' = [con EXCEPT !.calls = Tail(@)]
    BY <1>7 DEF HelperReceive
  <2>2. con'.state = con.state
    BY <1>1, <2>1 DEF Connections
  <2>3. con.calls \in Seq(Calls) /\ con.session = "running"
    BY <2>1 DEF Alone, Connections, Relayed
  <2>4. Head(con.calls) = Ended
    BY <1>2, <2>1, <2>3 DEF Closed
  <2>5. Ended.error = FALSE
    BY DEF Ended, ConnectionState
  <2>6. agent' = agent \/ agent' = StoreState(agent, FALSE)
    BY <1>7, <2>4, <2>5, CallsDiffer DEF HelperReceive
  <2>7. agent'.error = agent.error
    BY <2>6 DEF StoreState, Agents
  <2>8. QED
    BY <2>2, <2>7
<1>8. CASE CreateAgent \/ EngineSend \/ EngineShutdown
  <2>1. con' = con
    BY <1>8 DEF CreateAgent, EngineSend, EngineShutdown
  <2>2. agent'.error = agent.error
    BY <1>8 DEF CreateAgent, EngineSend, EngineShutdown, Agents
  <2>3. QED
    BY <2>1, <2>2
<1>9. CASE \E result \in {"success", "failure", "aborted"} : EngineEnd(result)
  <2>1. PICK result \in {"success", "failure", "aborted"} : EngineEnd(result)
    BY <1>9
  <2>2. con' = con /\ agent'.error = agent.error
    BY <2>1 DEF EngineEnd, Agents
  <2>3. QED
    BY <2>2
<1>10. ~ProcessFirst /\ ~ProcessUnusable /\ ~ProcessNext /\ ~ProcessUnexpected /\ ~Vanish
  BY <1>1 DEF ProcessFirst, ProcessUnusable, ProcessNext, ProcessUnexpected, Vanish
<1>11. \A normal \in BOOLEAN : ~Close(normal)
  BY <1>1 DEF Close
<1>12. ~TimedOut /\ ~KillQueued /\ ~Activate /\ ~HelperConnect
  BY <1>1 DEF TimedOut, KillQueued, Activate, HelperConnect
<1>13. QED
  BY <1>4, <1>5, <1>6, <1>7, <1>8, <1>9, <1>10, <1>11, <1>12 DEF Next

\* Close() after the final reply settles the outcome: no step of server or helper turns
\* a finished connection into a failed one or records an error of the transport.
THEOREM RegularCloseFinalHolds == Spec => RegularCloseFinal
<1>1. IInv /\ [Next]_vars =>
        [con.state = "DONE" => con'.state = "DONE" /\ (agent'.error => agent.error)]_vars
  BY DoneStep
<1>2. QED
  BY <1>1, Always, PTL DEF Spec, RegularCloseFinal
=============================================================================
