--------------------------- MODULE SyncLoopProofs ---------------------------
(***************************************************************************)
(* Proofs about SyncLoop, for every agent, retry duration and number of    *)
(* signals, freezes and steps of the engine.                               *)
(*                                                                         *)
(* The loop keeps its place in two variables: the command for the engine   *)
(* and, in prev, the command to return to after an inserted one.  The      *)
(* invariant is about what prev may be wherever it is used (Returns), what *)
(* the engine was told (Told), what still has to be processed (Unread) and *)
(* the clock and counters of a client that may have to send again (Clock). *)
(***************************************************************************)
EXTENDS SyncLoop, TLAPS

Places == {"top", "frozen", "step", "dispatch", "send", "wait", "sleep", "shutdown", "closing", "end"}

\* The loop has been left.
Over(l) == l.pc \in {"shutdown", "closing", "end"}

\* SuspendFlags, agent, engine and loop hold values of their types.
FlagsType ==
    [state : {"NORMAL", "SUSPEND", "ABORT"}, pipe : BOOLEAN, signals : Nat, raced : BOOLEAN]
AgentType == [kind : {"soup", "dbus"}, state : SoupStates \cup DBusStates]
EngineType ==
    [turn : {"ours", "sent", "theirs", "finishing"}, fresh : BOOLEAN, calls : Nat,
     script : BOOLEAN, aborts : Nat, suspended : BOOLEAN, stale : BOOLEAN]
LoopType ==
    [pc : Places, cmd : Commands, prev : Commands, aborting : BOOLEAN, suspending : 0..2,
     status : {"OK", "error"}, requestNum : 0..2, retries : Nat,
     buffer : BOOLEAN, freeze : {"NONE", "RUNNING", "FROZEN"}, waited : 0..RetryDuration,
     rested : BOOLEAN, failed : BOOLEAN, freezes : Nat]

\* What the loop does with a command depends on where it is; it only sleeps in time.
Placed(l) ==
    /\ l.pc = "dispatch" => l.cmd \in {"OK", "PROGRESS", "DONE", "SENDDATA", "ERROR", "RESTART",
                                     "RESENDDATA", "NEEDDATA"}
    /\ l.pc = "send" => l.cmd \in {"SENDDATA", "RESENDDATA"}
    /\ l.pc \in {"wait", "sleep"} => l.cmd = "NEEDDATA"
    /\ l.pc = "sleep" => l.waited < RetryDuration

\* Requests are never taken back; one that has been acted upon has been made.
Asked(f, l) ==
    /\ f.raced => f.state = "ABORT"
    /\ l.suspending > 0 \/ l.cmd = "SUSPEND" \/ l.prev = "SUSPEND" => f.state # "NORMAL"

\* The engine was told to abort if and only if the loop remembers that it is aborting,
\* and then winds down without waiting for the peer.
Told(e, l) ==
    /\ e.aborts <= 1
    /\ e.aborts = 1 => l.aborting /\ (e.turn = "finishing" \/ Over(l))
    /\ l.aborting => e.aborts = 1 \/ (l.pc = "step" /\ l.cmd = "ABORT")
    /\ l.pc = "step" /\ l.cmd = "ABORT" => l.aborting /\ e.aborts = 0
    /\ l.pc = "frozen" => ~l.aborting /\ l.suspending = 0 /\ l.cmd # "ABORT"
    /\ l.pc \in {"wait", "sleep"} => ~l.aborting
    /\ l.cmd = "NEEDDATA" => ~l.aborting /\ l.pc # "step"

\* What an inserted command returns to.
Returns(l) ==
    /\ l.pc = "top" /\ l.cmd \in {"GOTDATA", "SUSPEND"} => l.prev = l.cmd
    /\ l.prev = "ABORT" =>
         \/ l.pc = "top" /\ l.cmd = "ABORT" /\ ~l.aborting
         \/ l.pc = "step" /\ l.cmd = "ABORT"
         \/ l.pc = "dispatch" /\ l.cmd \in {"OK", "PROGRESS"}
         \/ Over(l)
    /\ l.suspending = 1 =>
         l.prev \in {"GOTDATA", "SUSPEND"} /\ l.pc \notin {"frozen", "send", "wait", "sleep"}
    /\ l.aborting /\ l.suspending # 1 =>
         \/ l.prev \in {"STEP", "SENTDATA"}
         \/ l.pc = "step" /\ l.cmd \in {"ABORT", "SUSPEND", "GOTDATA"}
         \/ l.pc = "dispatch" /\ l.cmd \in {"OK", "PROGRESS", "DONE", "ERROR"}
         \/ Over(l)

\* A reply waits in the engine wherever the loop is about to let it be processed.
Unread(f, e, l) ==
    /\ e.stale => f.raced
    /\ ~f.raced /\ l.cmd = "GOTDATA" /\ l.pc \in {"top", "frozen", "step"} => e.fresh
    /\ ~f.raced /\ l.suspending = 1 /\ l.prev = "GOTDATA" =>
         \/ /\ e.fresh /\ f.state = "SUSPEND"
            /\ \/ l.pc = "top" /\ l.cmd = "GOTDATA"
               \/ l.pc = "top" /\ l.cmd = "ABORT" /\ ~l.aborting
               \/ l.pc = "step" /\ l.cmd \in {"SUSPEND", "ABORT"}
               \/ l.pc = "dispatch" /\ l.cmd \in {"OK", "PROGRESS"}
         \/ Over(l)

\* A client has sent a message and not seen yet what became of it.
Sent(l) ==
    \/ l.pc \in {"top", "frozen", "step"} /\ l.cmd = "SENTDATA" /\ ~l.aborting
    \/ l.pc \in {"top", "frozen", "dispatch"} /\ l.cmd = "NEEDDATA"

\* Without requests: a message that is sent again is still there, time has passed
\* since it was sent, and each time it was sent again is accounted for.
Clock(a, e, l) ==
    /\ l.cmd = "RESENDDATA" /\ ~Over(l) =>
         /\ l.buffer /\ l.rested /\ l.requestNum > 1
         /\ l.retries <= l.waited /\ l.retries < RetryDuration
    /\ Sent(l) \/ l.pc \in {"wait", "sleep"} =>
         l.buffer /\ l.requestNum > 0 /\ l.retries <= l.waited
    /\ l.cmd = "NEEDDATA" => e.turn = "theirs"
    /\ l.pc \in {"wait", "sleep"} => e.turn = "theirs"
    /\ Sent(l) \/ l.pc = "wait" =>
         /\ a.state \in {"ACTIVE", "GOT_REPLY", "GOT_OTHER", "FAILED", "FAILED_EARLY", "TIME_OUT"}
         /\ a.state = "TIME_OUT" => l.rested
         /\ l.rested => l.retries < l.waited \/ l.waited = RetryDuration
    /\ l.pc = "sleep" => l.waited + 1 < RetryDuration /\ l.requestNum > 1

\* A client only has something new to send after a reply.
Fresh(e, l) ==
    /\ l.cmd = "GOTDATA" /\ l.pc \in {"top", "frozen", "step"} => l.retries = 0
    /\ ~l.aborting /\ e.turn = "ours" => l.retries = 0
    /\ ~l.aborting /\ e.turn = "finishing" => e.calls = MaxCalls
    /\ ~l.aborting /\ l.cmd = "SENDDATA" /\ l.pc \in {"dispatch", "send"} => l.retries = 0
    /\ l.cmd # "TRANSPFAIL"

\* Only a client sends again.
Client(a, l) ==
    a.kind = "dbus" => l.cmd # "RESENDDATA" /\ l.prev # "RESENDDATA" /\ l.pc # "sleep"

IInv ==
    /\ flags \in FlagsType /\ agent \in AgentType /\ engine \in EngineType /\ loop \in LoopType
    /\ Placed(loop)
    /\ Asked(flags, loop)
    /\ Told(engine, loop)
    /\ Returns(loop)
    /\ Unread(flags, engine, loop)
    /\ flags.state = "NORMAL" /\ agent.kind = "soup" => Clock(agent, engine, loop) /\ Fresh(engine, loop)
    /\ Client(agent, loop)
    /\ ErrorReported

-----------------------------------------------------------------------------
(***************************************************************************)
(* What the operators of the loop do, field by field.                      *)
(***************************************************************************)

\* The smaller of two numbers
LEMMA MinIs ==
    ASSUME NEW a \in Nat, NEW b \in Nat
    PROVE  Min({a, b}) = IF a <= b THEN a ELSE b
<1>1. PICK m \in {a, b} : \A y \in {a, b} : m =< y
  OBVIOUS
<1>2. \A n \in {a, b} : (\A y \in {a, b} : n =< y) => n = m
  BY <1>1
<1>3. (CHOOSE x \in {a, b} : \A y \in {a, b} : x =< y) = m
  BY <1>1, <1>2
<1>4. QED
  BY <1>1, <1>3 DEF Min

TailRel(x, y) ==
    /\ y \in LoopType
    /\ y.cmd = IF x.aborting /\ x.cmd = "ABORT" THEN "DONE" ELSE x.cmd
    /\ y.prev = y.cmd
    /\ y.pc = IF y.cmd \in {"DONE", "ERROR"} THEN "shutdown" ELSE "top"
    /\ y.aborting = x.aborting /\ y.suspending = x.suspending /\ y.status = x.status
    /\ y.requestNum = x.requestNum /\ y.retries = x.retries /\ y.buffer = x.buffer
    /\ y.freeze = x.freeze /\ y.waited = x.waited /\ y.rested = x.rested
    /\ y.failed = x.failed /\ y.freezes = x.freezes

CatchRel(x, y) ==
    /\ y \in LoopType
    /\ x.aborting => y.cmd = "DONE"
    /\ y.cmd \in {"DONE", "ABORT"}
    /\ y.pc = IF y.cmd = "DONE" THEN "shutdown" ELSE "top"
    /\ y.status # x.status => y.status = "error"
    /\ y.failed /\ ~x.failed => y.status = "error"
    /\ y.prev = x.prev /\ y.aborting = x.aborting /\ y.suspending = x.suspending
    /\ y.requestNum = x.requestNum /\ y.retries = x.retries /\ y.buffer = x.buffer
    /\ y.freeze = x.freeze /\ y.waited = x.waited /\ y.rested = x.rested
    /\ y.freezes = x.freezes

AgainRel(x, cmd, y) ==
    /\ y \in LoopType
    /\ y.cmd = cmd /\ y.pc = "top"
    /\ y.prev = x.prev /\ y.aborting = x.aborting /\ y.suspending = x.suspending
    /\ y.status = x.status /\ y.requestNum = x.requestNum /\ y.retries = x.retries
    /\ y.buffer = x.buffer /\ y.freeze = x.freeze /\ y.waited = x.waited
    /\ y.rested = x.rested /\ y.failed = x.failed /\ y.freezes = x.freezes

\* The end of the try block
LEMMA TailIs ==
    ASSUME NEW x \in LoopType
    PROVE  TailRel(x, Tail(x))
<1>1. PICK cmd : cmd = IF x.aborting /\ x.cmd = "ABORT" THEN "DONE" ELSE x.cmd
  OBVIOUS
<1>2. PICK pc : pc = IF cmd \in {"DONE", "ERROR"} THEN "shutdown" ELSE "top"
  OBVIOUS
<1>3. cmd \in Commands /\ pc \in Places
  BY <1>1, <1>2 DEF LoopType, Commands, Places
<1>4. PICK y : y = [x EXCEPT !.cmd = cmd, !.prev = cmd, !.pc = pc]
  OBVIOUS
<1>5. y \in LoopType
  BY <1>3, <1>4, ZenonT(60) DEF LoopType
<1>6. Tail(x) = y
  BY <1>1, <1>2, <1>4 DEF Tail, Ended
<1>7. y.cmd = cmd /\ y.prev = cmd /\ y.pc = pc
      /\ y.aborting = x.aborting /\ y.suspending = x.suspending /\ y.status = x.status
      /\ y.requestNum = x.requestNum /\ y.retries = x.retries /\ y.buffer = x.buffer
      /\ y.freeze = x.freeze /\ y.waited = x.waited /\ y.rested = x.rested
      /\ y.failed = x.failed /\ y.freezes = x.freezes
  BY <1>4 DEF LoopType
<1>8. QED
  BY <1>1, <1>2, <1>5, <1>6, <1>7 DEF TailRel

\* The handlers of exceptions
LEMMA CatchIs ==
    ASSUME NEW x \in LoopType, NEW exception
    PROVE  CatchRel(x, Catch(x, exception))
<1>1. PICK asked \in BOOLEAN : asked = \/ exception = "USERSUSPEND" /\ x.suspending > 0
                                       \/ exception # "other" /\ x.aborting
  OBVIOUS
<1>2. PICK cmd : cmd = IF asked \/ x.aborting THEN "DONE" ELSE "ABORT"
  OBVIOUS
<1>3. PICK pc : pc = IF cmd \in {"DONE", "ERROR"} THEN "shutdown" ELSE "top"
  OBVIOUS
<1>4. PICK status : status = IF asked THEN x.status ELSE "error"
  OBVIOUS
<1>5. PICK failed \in BOOLEAN : failed = (x.failed \/ ~(asked \/ x.aborting))
  OBVIOUS
<1>6. cmd \in Commands /\ pc \in Places /\ status \in {"OK", "error"}
  BY <1>2, <1>3, <1>4 DEF LoopType, Commands, Places
<1>7. PICK y : y = [x EXCEPT !.cmd = cmd, !.status = status, !.failed = failed, !.pc = pc]
  OBVIOUS
<1>8. y \in LoopType
  BY <1>6, <1>7, ZenonT(60) DEF LoopType
<1>9. Catch(x, exception) = y
  BY <1>1, <1>2, <1>3, <1>4, <1>5, <1>7, Zenon DEF Catch, Ended
<1>10. y.cmd = cmd /\ y.status = status /\ y.failed = failed /\ y.pc = pc
       /\ y.prev = x.prev /\ y.aborting = x.aborting /\ y.suspending = x.suspending
       /\ y.requestNum = x.requestNum /\ y.retries = x.retries /\ y.buffer = x.buffer
       /\ y.freeze = x.freeze /\ y.waited = x.waited /\ y.rested = x.rested
       /\ y.freezes = x.freezes
  BY <1>7 DEF LoopType
<1>11. QED
  BY <1>2, <1>3, <1>4, <1>5, <1>8, <1>9, <1>10 DEF CatchRel

\* continue
LEMMA AgainIs ==
    ASSUME loop \in LoopType, NEW cmd \in Commands
    PROVE  AgainRel(loop, cmd, Again(cmd))
<1>1. PICK y : y = [loop EXCEPT !.cmd = cmd, !.pc = "top"]
  OBVIOUS
<1>2. "top" \in Places
  BY DEF Places
<1>3. y \in LoopType
  BY <1>1, <1>2, ZenonT(60) DEF LoopType
<1>4. y.cmd = cmd /\ y.pc = "top"
      /\ y.prev = loop.prev /\ y.aborting = loop.aborting /\ y.suspending = loop.suspending
      /\ y.status = loop.status /\ y.requestNum = loop.requestNum /\ y.retries = loop.retries
      /\ y.buffer = loop.buffer /\ y.freeze = loop.freeze /\ y.waited = loop.waited
      /\ y.rested = loop.rested /\ y.failed = loop.failed /\ y.freezes = loop.freezes
  BY <1>1 DEF LoopType
<1>5. QED
  BY <1>1, <1>3, <1>4 DEF Again, AgainRel

\* Signals are seen: requests stay, and only an abort changes the agent.
Seen ==
    /\ flags' \in FlagsType /\ flags'.state = flags.state /\ flags'.raced = flags.raced
    /\ agent' \in AgentType /\ agent'.kind = agent.kind
    /\ flags.state # "ABORT" => agent' = agent

\* printSignals()
LEMMA SignalsSeen ==
    ASSUME flags \in FlagsType, agent \in AgentType, printSignals
    PROVE  Seen
<1>1. flags' = [flags EXCEPT !.pipe = FALSE]
  BY DEF printSignals
<1>2. flags' \in FlagsType
  BY <1>1, Zenon DEF FlagsType
<1>3. flags'.state = flags.state /\ flags'.raced = flags.raced
  BY <1>1 DEF FlagsType
<1>4. CASE agent' = agent
  BY <1>2, <1>3, <1>4 DEF Seen
<1>5. CASE agent' # agent
  <2>1. flags.state = "ABORT" /\ agent' \in Cancelled(agent)
    BY <1>5 DEF printSignals
  <2>2. PICK state \in {"CANCELED", "FAILED", "FAILED_EARLY"} : agent' = [agent EXCEPT !.state = state]
    BY <1>5, <2>1 DEF Cancelled, Failure
  <2>3. state \in SoupStates \cup DBusStates
    BY <2>2 DEF SoupStates
  <2>4. agent' \in AgentType
    BY <2>2, <2>3, Zenon DEF AgentType
  <2>5. agent'.kind = agent.kind
    BY <2>2 DEF AgentType
  <2>6. QED
    BY <1>2, <1>3, <2>1, <2>4, <2>5 DEF Seen
<1>6. QED
  BY <1>4, <1>5

\* Nothing happens to flags and agent.
LEMMA NothingSeen ==
    ASSUME flags \in FlagsType, agent \in AgentType, UNCHANGED <<flags, agent>>
    PROVE  Seen
  BY DEF Seen

-----------------------------------------------------------------------------
(***************************************************************************)
(* The steps of the loop.                                                  *)
(***************************************************************************)

\* What Top makes of the command: it is kept, replaced by an abort that the engine has
\* not been told, by what an abort or a suspend was inserted for, or by a suspend.
Kept(y) ==
    /\ y.cmd = loop.cmd /\ y.cmd \notin {"ABORT", "SUSPEND"}
    /\ y.aborting = loop.aborting /\ y.suspending = loop.suspending
    /\ ~(flags.state = "SUSPEND" /\ loop.cmd = "GOTDATA")
Aborts(y) ==
    /\ y.cmd = "ABORT" /\ ~loop.aborting /\ y.aborting /\ y.suspending = loop.suspending
    /\ loop.cmd # "ABORT" => flags.state = "ABORT"
ReturnsFromAbort(y) ==
    /\ y.cmd = loop.prev /\ loop.prev # "SUSPEND" /\ loop.aborting /\ y.aborting
    /\ y.suspending = loop.suspending
    /\ loop.cmd # "ABORT" => flags.state = "ABORT" /\ loop.cmd \in {"RESENDDATA", "SENTDATA", "NEEDDATA"}
Suspends(y) ==
    /\ y.cmd = "SUSPEND" /\ loop.suspending = 0 /\ y.suspending = 1
    /\ \/ (loop.cmd = "SUSPEND" \/ (loop.cmd = "GOTDATA" /\ flags.state = "SUSPEND")) /\ y.aborting = loop.aborting
       \/ loop.prev = "SUSPEND" /\ loop.aborting /\ y.aborting
ReturnsFromSuspend(y) ==
    /\ y.cmd = loop.prev /\ loop.suspending > 0 /\ y.suspending = 2
    /\ \/ (loop.cmd = "SUSPEND" \/ (loop.cmd = "GOTDATA" /\ flags.state = "SUSPEND")) /\ y.aborting = loop.aborting
       \/ loop.prev = "SUSPEND" /\ loop.aborting /\ y.aborting

TopRel(y) ==
    /\ y \in LoopType
    /\ Kept(y) \/ Aborts(y) \/ ReturnsFromAbort(y) \/ Suspends(y) \/ ReturnsFromSuspend(y)
    /\ y.pc \in {"frozen", "dispatch", "step"}
    /\ y.pc = "frozen" => ~y.aborting /\ y.suspending = 0
    /\ y.pc = "dispatch" => y.cmd = "NEEDDATA"
    /\ y.pc = "step" => y.cmd # "NEEDDATA"
    /\ y.prev = loop.prev /\ y.status = loop.status /\ y.requestNum = loop.requestNum
    /\ y.retries = loop.retries /\ y.buffer = loop.buffer /\ y.freeze = loop.freeze
    /\ y.waited = loop.waited /\ y.rested = loop.rested /\ y.failed = loop.failed
    /\ y.freezes = loop.freezes

\* The choice of the command
LEMMA TopIs ==
    ASSUME loop \in LoopType, Top
    PROVE  TopRel(loop')
<1>1. PICK c1 : c1 = IF Suspended /\ loop.cmd = "GOTDATA" THEN "SUSPEND" ELSE loop.cmd
  OBVIOUS
<1>2. PICK c2 : c2 = IF Aborted /\ c1 \in {"RESENDDATA", "SENTDATA", "NEEDDATA"} THEN "ABORT" ELSE c1
  OBVIOUS
<1>3. PICK c3 : c3 = ToldOnce(c2)
  OBVIOUS
<1>4. PICK c4 : c4 = IF c3 = "SUSPEND" /\ loop.suspending > 0 THEN loop.prev ELSE c3
  OBVIOUS
<1>5. PICK aborting \in BOOLEAN : aborting = (loop.aborting \/ c2 = "ABORT")
  OBVIOUS
<1>6. loop.suspending \in 0..2 /\ loop.cmd \in Commands /\ loop.prev \in Commands /\ loop.aborting \in BOOLEAN
  BY DEF LoopType
<1>7. PICK suspending : suspending = IF c3 = "SUSPEND" THEN Min({loop.suspending + 1, 2}) ELSE loop.suspending
  OBVIOUS
<1>8. c3 = "SUSPEND" => suspending = IF loop.suspending = 0 THEN 1 ELSE 2
  <2>1. Min({loop.suspending + 1, 2}) = IF loop.suspending + 1 <= 2 THEN loop.suspending + 1 ELSE 2
    BY <1>6, MinIs
  <2>2. QED
    BY <1>6, <1>7, <2>1
<1>9. suspending \in 0..2
  BY <1>6, <1>7, <1>8
<1>10. PICK pc : pc = IF ~aborting /\ suspending = 0 /\ loop.freeze = "FROZEN" THEN "frozen"
                      ELSE IF c4 = "NEEDDATA" THEN "dispatch" ELSE "step"
  OBVIOUS
<1>11. pc \in Places /\ c4 \in Commands
  BY <1>1, <1>2, <1>3, <1>4, <1>6, <1>10 DEF Places, Commands, ToldOnce
<1>12. loop' = [loop EXCEPT !.cmd = c4, !.aborting = aborting, !.suspending = suspending, !.pc = pc]
  BY <1>1, <1>2, <1>3, <1>4, <1>5, <1>7, <1>10, Zenon DEF Top
<1>13. loop' \in LoopType
  BY <1>9, <1>11, <1>12, ZenonT(60) DEF LoopType
<1>14. loop'.cmd = c4 /\ loop'.aborting = aborting /\ loop'.suspending = suspending /\ loop'.pc = pc
       /\ loop'.prev = loop.prev /\ loop'.status = loop.status /\ loop'.requestNum = loop.requestNum
       /\ loop'.retries = loop.retries /\ loop'.buffer = loop.buffer /\ loop'.freeze = loop.freeze
       /\ loop'.waited = loop.waited /\ loop'.rested = loop.rested /\ loop'.failed = loop.failed
       /\ loop'.freezes = loop.freezes
  BY <1>12 DEF LoopType
<1>15. Kept(loop') \/ Aborts(loop') \/ ReturnsFromAbort(loop') \/ Suspends(loop') \/ ReturnsFromSuspend(loop')
  <2>1. CASE c3 = "SUSPEND"
    <3>1. \/ (loop.cmd = "SUSPEND" \/ (loop.cmd = "GOTDATA" /\ flags.state = "SUSPEND")) /\ aborting = loop.aborting
          \/ loop.prev = "SUSPEND" /\ loop.aborting /\ aborting
      BY <1>1, <1>2, <1>3, <1>5, <1>6, <2>1 DEF ToldOnce, Suspended
    <3>2. CASE loop.suspending = 0
      BY <1>4, <1>8, <1>14, <2>1, <3>1, <3>2 DEF Suspends
    <3>3. CASE loop.suspending > 0
      BY <1>4, <1>8, <1>14, <2>1, <3>1, <3>3 DEF ReturnsFromSuspend
    <3>4. QED
      BY <1>6, <3>2, <3>3
  <2>2. CASE c3 # "SUSPEND" /\ c2 = "ABORT" /\ ~loop.aborting
    BY <1>1, <1>2, <1>3, <1>4, <1>5, <1>7, <1>14, <2>2 DEF ToldOnce, Aborts, Aborted
  <2>3. CASE c3 # "SUSPEND" /\ c2 = "ABORT" /\ loop.aborting
    BY <1>1, <1>2, <1>3, <1>4, <1>5, <1>7, <1>14, <2>3 DEF ToldOnce, ReturnsFromAbort, Aborted
  <2>4. CASE c3 # "SUSPEND" /\ c2 # "ABORT"
    BY <1>1, <1>2, <1>3, <1>4, <1>5, <1>6, <1>7, <1>14, <2>4 DEF ToldOnce, Kept, Suspended
  <2>5. QED
    BY <2>1, <2>2, <2>3, <2>4
<1>16. QED
  BY <1>10, <1>13, <1>14, <1>15 DEF TopRel

\* The command for the engine is chosen.
LEMMA TopKeeps ==
    ASSUME IInv, Top
    PROVE  IInv'
<1> USE DEF IInv
<1>1. loop.pc = "top" /\ engine' = engine /\ printSignals
  BY DEF Top
<1>2. Seen
  BY <1>1, SignalsSeen
<1>3. TopRel(loop')
  BY TopIs
<1>4. flags' \in FlagsType /\ agent' \in AgentType /\ engine' \in EngineType /\ loop' \in LoopType
  BY <1>1, <1>2, <1>3 DEF Seen, TopRel
<1>5. ErrorReported' /\ Placed(loop')
  BY <1>3 DEF ErrorReported, Placed, TopRel
<1>6. loop.suspending \in 0..2 /\ loop.aborting \in BOOLEAN
  BY DEF LoopType
\* A return is only to a command that was interrupted.
<1>7. ReturnsFromAbort(loop') => loop.prev \in {"STEP", "SENTDATA", "GOTDATA"}
                                 /\ (loop.prev = "GOTDATA" => loop.suspending = 1 /\ flags.raced)
  BY <1>1, <1>6 DEF ReturnsFromAbort, Returns, Over, Unread
<1>8. ReturnsFromSuspend(loop') => /\ loop.prev \in {"GOTDATA", "SUSPEND"}
                                   /\ loop.prev = "GOTDATA" => loop.cmd = "GOTDATA" /\ flags.state = "SUSPEND"
  BY <1>1, <1>6 DEF ReturnsFromSuspend, Returns, Over
<1>9. Suspends(loop') => loop.cmd \in {"SUSPEND", "GOTDATA"} /\ loop'.aborting = loop.aborting
                         /\ loop.prev = loop.cmd /\ (loop.cmd = "GOTDATA" => flags.state = "SUSPEND")
  BY <1>1, <1>6 DEF Suspends, Returns, Over
<1>10. Asked(flags', loop')
  BY <1>1, <1>2, <1>3, <1>7, <1>8, <1>9 DEF Asked, Seen, TopRel, Kept, Aborts, ReturnsFromAbort, Suspends, ReturnsFromSuspend
<1>11. Told(engine', loop')
  BY <1>1, <1>3, <1>6, <1>7, <1>8, <1>9 DEF Told, TopRel, Kept, Aborts, ReturnsFromAbort, Suspends, ReturnsFromSuspend, Over, EngineType
<1>12. Returns(loop')
  BY <1>1, <1>3, <1>6, <1>7, <1>8, <1>9 DEF Returns, TopRel, Kept, Aborts, ReturnsFromAbort, Suspends, ReturnsFromSuspend, Over
<1>13. Unread(flags', engine', loop')
  BY <1>1, <1>2, <1>3, <1>6, <1>7, <1>8, <1>9 DEF Unread, Seen, TopRel, Kept, Aborts, ReturnsFromAbort, Suspends, ReturnsFromSuspend, Over
<1>14. flags'.state = "NORMAL" /\ agent'.kind = "soup" => Clock(agent', engine', loop') /\ Fresh(engine', loop')
  BY <1>1, <1>2, <1>3, <1>6, <1>7, <1>8, <1>9
     DEF Clock, Fresh, Sent, Asked, Seen, TopRel, Kept, Aborts, ReturnsFromAbort, Suspends, ReturnsFromSuspend, Over
<1>15. Client(agent', loop')
  BY <1>1, <1>2, <1>3, <1>7, <1>8, <1>9 DEF Client, Seen, TopRel, Kept, Aborts, ReturnsFromAbort, Suspends, ReturnsFromSuspend
<1>16. QED
  BY <1>4, <1>5, <1>10, <1>11, <1>12, <1>13, <1>14, <1>15

\* A frozen sync continues.
LEMMA ThawKeeps ==
    ASSUME IInv, Thaw
    PROVE  IInv'
<1> USE DEF IInv
<1>1. loop.pc = "frozen" /\ engine' = engine /\ printSignals
  BY DEF Thaw
<1>2. Seen
  BY <1>1, SignalsSeen
<1>3. PICK waited \in {loop.waited, RetryDuration} :
         loop' = [loop EXCEPT !.waited = waited, !.pc = IF loop.cmd = "NEEDDATA" THEN "dispatch" ELSE "step"]
  BY DEF Thaw
<1>4. PICK pc : pc = IF loop.cmd = "NEEDDATA" THEN "dispatch" ELSE "step"
  OBVIOUS
<1>5. loop.waited \in 0..RetryDuration /\ loop.retries \in Nat /\ RetryDuration \in Nat
  BY ConstantsAssumption DEF LoopType
<1>6. pc \in Places /\ waited \in 0..RetryDuration /\ waited >= loop.waited
  BY <1>3, <1>4, <1>5 DEF Places
<1>7. loop' = [loop EXCEPT !.waited = waited, !.pc = pc]
  BY <1>3, <1>4
<1>8. loop' \in LoopType
  BY <1>6, <1>7, ZenonT(60) DEF LoopType
<1>9. loop'.waited = waited /\ loop'.pc = pc
      /\ loop'.cmd = loop.cmd /\ loop'.prev = loop.prev /\ loop'.aborting = loop.aborting
      /\ loop'.suspending = loop.suspending /\ loop'.status = loop.status /\ loop'.requestNum = loop.requestNum
      /\ loop'.retries = loop.retries /\ loop'.buffer = loop.buffer /\ loop'.freeze = loop.freeze
      /\ loop'.rested = loop.rested /\ loop'.failed = loop.failed /\ loop'.freezes = loop.freezes
  BY <1>7 DEF LoopType
<1>10. Asked(flags', loop') /\ ErrorReported' /\ Placed(loop')
  BY <1>2, <1>4, <1>9 DEF Asked, Seen, ErrorReported, Placed
<1>11. Told(engine', loop')
  BY <1>1, <1>4, <1>9 DEF Told, Over
<1>12. Returns(loop')
  BY <1>1, <1>4, <1>9 DEF Returns, Told, Over
<1>13. Unread(flags', engine', loop')
  BY <1>1, <1>2, <1>4, <1>9 DEF Unread, Seen, Over, Told
<1>14. flags'.state = "NORMAL" /\ agent'.kind = "soup" => Clock(agent', engine', loop') /\ Fresh(engine', loop')
  BY <1>1, <1>2, <1>4, <1>5, <1>6, <1>9 DEF Clock, Fresh, Sent, Seen, Over
<1>15. Client(agent', loop')
  BY <1>2, <1>4, <1>9 DEF Client, Seen
<1>16. QED
  BY <1>1, <1>2, <1>8, <1>10, <1>11, <1>12, <1>13, <1>14, <1>15 DEF Seen

\* What SessionStep() returns
LEMMA ResultsAre ==
    ASSUME NEW cmd, NEW result \in Results(cmd)
    PROVE  /\ result \in {"OK", "PROGRESS", "DONE", "SENDDATA", "ERROR", "RESTART", "RESENDDATA", "NEEDDATA"}
           /\ result = "RESENDDATA" <=> cmd = "RESENDDATA"
           /\ result = "NEEDDATA" => cmd = "SENTDATA" /\ engine.aborts = 0
           /\ cmd \in {"ABORT", "SUSPEND", "TRANSPFAIL"} => result \in {"OK", "PROGRESS"}
           /\ result = "SENDDATA" =>
                ~Exhausted /\ (engine.turn = "ours" \/ (engine.turn = "finishing" /\ cmd = "STEP"))
           /\ result = "RESTART" => engine.turn = "finishing" /\ engine.aborts = 0 /\ ~Exhausted
           /\ cmd = "SENTDATA" /\ result # "NEEDDATA" =>
                result = "OK" /\ (ServerMode \/ Exhausted \/ engine.aborts > 0)
<1>1. CASE cmd = "RESENDDATA"
  BY <1>1 DEF Results
<1>2. CASE cmd \in {"ABORT", "SUSPEND", "TRANSPFAIL"}
  BY <1>2 DEF Results
<1>3. CASE cmd = "SENTDATA"
  <2>1. Results(cmd) = {x \in {"NEEDDATA"} : ~Exhausted /\ engine.aborts = 0}
                       \cup {x \in {"OK"} : ServerMode \/ Exhausted \/ engine.aborts > 0}
    BY <1>3 DEF Results
  <2>2. QED
    BY <1>3, <2>1
<1>4. CASE cmd \notin {"RESENDDATA", "ABORT", "SUSPEND", "TRANSPFAIL", "SENTDATA"}
  <2>1. Results(cmd) =
          IF Exhausted THEN {"DONE"}
          ELSE {"OK", "PROGRESS", "DONE"}
               \cup {x \in {"SENDDATA"} : engine.turn = "ours" \/ (engine.turn = "finishing" /\ cmd = "STEP")}
               \cup {x \in {"ERROR"} : engine.turn = "finishing"}
               \cup {x \in {"RESTART"} : engine.turn = "finishing" /\ engine.aborts = 0}
    BY <1>4 DEF Results
  <2>2. QED
    BY <1>4, <2>1
<1>5. QED
  BY <1>1, <1>2, <1>3, <1>4

CalledRel(cmd, y) ==
    /\ y \in EngineType
    /\ engine.calls = MaxCalls => y.calls = MaxCalls
    /\ cmd # "ABORT" => y.aborts = engine.aborts
    /\ cmd = "ABORT" /\ engine.aborts = 0 => y.aborts = 1
    /\ y.stale => engine.stale \/ (cmd = "GOTDATA" /\ ~engine.fresh)
    /\ cmd # "GOTDATA" => y.fresh = engine.fresh
    /\ y.turn = engine.turn /\ y.script = engine.script

\* The engine is called.
LEMMA CalledIs ==
    ASSUME engine \in EngineType, NEW cmd
    PROVE  CalledRel(cmd, Called(cmd))
<1>1. PICK calls : calls = Min({engine.calls + 1, MaxCalls})
  OBVIOUS
<1>2. PICK aborts : aborts = IF cmd = "ABORT" THEN Min({engine.aborts + 1, 2}) ELSE engine.aborts
  OBVIOUS
<1>3. PICK suspended \in BOOLEAN : suspended = (engine.suspended \/ cmd = "SUSPEND")
  OBVIOUS
<1>4. PICK stale \in BOOLEAN : stale = (engine.stale \/ (cmd = "GOTDATA" /\ ~engine.fresh))
  OBVIOUS
<1>5. PICK fresh \in BOOLEAN : fresh = (engine.fresh /\ cmd # "GOTDATA")
  OBVIOUS
<1>6. engine.calls \in Nat /\ engine.aborts \in Nat /\ engine.fresh \in BOOLEAN /\ MaxCalls \in Nat
  BY ConstantsAssumption DEF EngineType
<1>7. calls \in Nat /\ (engine.calls = MaxCalls => calls = MaxCalls)
  <2>1. calls = IF engine.calls + 1 <= MaxCalls THEN engine.calls + 1 ELSE MaxCalls
    BY <1>1, <1>6, MinIs
  <2>2. QED
    BY <1>6, <2>1
<1>8. aborts \in Nat /\ (cmd # "ABORT" => aborts = engine.aborts) /\ (cmd = "ABORT" /\ engine.aborts = 0 => aborts = 1)
  <2>1. Min({engine.aborts + 1, 2}) = IF engine.aborts + 1 <= 2 THEN engine.aborts + 1 ELSE 2
    BY <1>6, MinIs
  <2>2. QED
    BY <1>2, <1>6, <2>1
<1>9. PICK y : y = [engine EXCEPT !.calls = calls, !.aborts = aborts, !.suspended = suspended,
                                  !.stale = stale, !.fresh = fresh]
  OBVIOUS
<1>10. y \in EngineType
  BY <1>7, <1>8, <1>9, ZenonT(60) DEF EngineType
<1>11. y.calls = calls /\ y.aborts = aborts /\ y.stale = stale /\ y.fresh = fresh
       /\ y.turn = engine.turn /\ y.script = engine.script
  BY <1>9 DEF EngineType
<1>12. Called(cmd) = y
  BY <1>1, <1>2, <1>3, <1>4, <1>5, <1>9, Zenon DEF Called
<1>13. QED
  BY <1>4, <1>5, <1>6, <1>7, <1>8, <1>10, <1>11, <1>12 DEF CalledRel

\* The engine returns a result.
LEMMA ResultKeeps ==
    ASSUME IInv, loop.pc = "step", NEW result \in Results(loop.cmd), NEW script \in BOOLEAN,
           engine' = [Called(loop.cmd) EXCEPT !.turn = TurnAfter(loop.cmd, result), !.script = script],
           loop' = [loop EXCEPT !.cmd = result, !.pc = "dispatch"], UNCHANGED <<flags, agent>>
    PROVE  IInv'
<1> USE DEF IInv
<1>1. PICK u : u = Called(loop.cmd)
  OBVIOUS
<1>2. CalledRel(loop.cmd, u)
  BY <1>1, CalledIs
<1>3. PICK turn : turn = TurnAfter(loop.cmd, result)
  OBVIOUS
<1>4. turn \in {"ours", "sent", "theirs", "finishing"}
  BY <1>3 DEF TurnAfter, EngineType
<1>5. engine' = [u EXCEPT !.turn = turn, !.script = script]
  BY <1>1, <1>3
<1>6. engine' \in EngineType
  BY <1>2, <1>4, <1>5, ZenonT(60) DEF EngineType, CalledRel
<1>7. engine'.turn = turn /\ engine'.calls = u.calls /\ engine'.aborts = u.aborts /\ engine'.stale = u.stale
      /\ engine'.fresh = u.fresh
  BY <1>2, <1>5 DEF EngineType, CalledRel
<1>8. /\ result \in {"OK", "PROGRESS", "DONE", "SENDDATA", "ERROR", "RESTART", "RESENDDATA", "NEEDDATA"}
      /\ result = "RESENDDATA" <=> loop.cmd = "RESENDDATA"
      /\ result = "NEEDDATA" => loop.cmd = "SENTDATA" /\ engine.aborts = 0
      /\ loop.cmd \in {"ABORT", "SUSPEND", "TRANSPFAIL"} => result \in {"OK", "PROGRESS"}
      /\ result = "SENDDATA" =>
           ~Exhausted /\ (engine.turn = "ours" \/ (engine.turn = "finishing" /\ loop.cmd = "STEP"))
      /\ result = "RESTART" => engine.turn = "finishing" /\ engine.aborts = 0 /\ ~Exhausted
      /\ loop.cmd = "SENTDATA" /\ result # "NEEDDATA" =>
           result = "OK" /\ (ServerMode \/ Exhausted \/ engine.aborts > 0)
  BY ResultsAre
<1>9. result \in Commands /\ "dispatch" \in Places
  BY <1>8 DEF Commands, Places
<1>10. loop' \in LoopType
  BY <1>9, ZenonT(60) DEF LoopType
<1>11. loop'.cmd = result /\ loop'.pc = "dispatch"
       /\ loop'.prev = loop.prev /\ loop'.aborting = loop.aborting /\ loop'.suspending = loop.suspending
       /\ loop'.status = loop.status /\ loop'.requestNum = loop.requestNum /\ loop'.retries = loop.retries
       /\ loop'.buffer = loop.buffer /\ loop'.freeze = loop.freeze /\ loop'.waited = loop.waited
       /\ loop'.rested = loop.rested /\ loop'.failed = loop.failed /\ loop'.freezes = loop.freezes
  BY DEF LoopType
<1>12. Asked(flags', loop') /\ ErrorReported' /\ Client(agent', loop') /\ Placed(loop')
  BY <1>8, <1>11 DEF Asked, ErrorReported, Client, Placed
<1>13. engine.aborts \in Nat /\ loop.aborting \in BOOLEAN /\ engine.aborts <= 1
  BY DEF EngineType, LoopType, Told
<1>14. engine'.aborts = IF loop.cmd = "ABORT" THEN 1 ELSE engine.aborts
  BY <1>2, <1>7 DEF CalledRel, Told
<1>15. engine.aborts > 0 \/ loop.cmd = "ABORT" => turn = "finishing"
  BY <1>3 DEF TurnAfter
<1>16. Told(engine', loop')
  BY <1>7, <1>8, <1>11, <1>13, <1>14, <1>15 DEF Told, Over
<1>17. Returns(loop')
  BY <1>8, <1>11, <1>13 DEF Returns, Told, Over
<1>18. Unread(flags', engine', loop')
  BY <1>2, <1>7, <1>8, <1>11 DEF Unread, CalledRel, Over
<1>19. flags'.state = "NORMAL" /\ agent'.kind = "soup" => Clock(agent', engine', loop') /\ Fresh(engine', loop')
  <2> HAVE flags'.state = "NORMAL" /\ agent'.kind = "soup"
  <2>1. Clock(agent, engine, loop) /\ Fresh(engine, loop) /\ ~ServerMode
    BY DEF ServerMode
  <2>2. ~loop.aborting => engine.aborts = 0 /\ loop.cmd # "ABORT"
    BY <1>13 DEF Told
  <2>3. Clock(agent', engine', loop')
    BY <1>3, <1>7, <1>8, <1>11, <1>13, <2>1, <2>2 DEF Clock, Sent, TurnAfter, Over, Told
  <2>4. ~loop.aborting /\ engine'.turn = "ours" => loop.retries = 0
    BY <1>3, <1>7, <1>8, <2>1, <2>2 DEF Fresh, TurnAfter, Exhausted
  <2>5. ~loop.aborting /\ engine'.turn = "finishing" => engine'.calls = MaxCalls
    BY <1>2, <1>3, <1>7, <1>8, <1>13, <2>1, <2>2 DEF Fresh, TurnAfter, Exhausted, CalledRel
  <2>6. Fresh(engine', loop')
    BY <1>8, <1>11, <1>13, <2>1, <2>4, <2>5 DEF Fresh, Exhausted
  <2>7. QED
    BY <2>3, <2>6
<1>20. QED
  BY <1>6, <1>10, <1>12, <1>16, <1>17, <1>18, <1>19

\* An exception is caught; the engine may have been called.
LEMMA CatchKeeps ==
    ASSUME IInv, NEW x \in LoopType, CatchRel(x, loop'), x = loop \/ agent.kind = "dbus",
           x.cmd = loop.cmd, x.prev = loop.prev, x.aborting = loop.aborting, x.suspending = loop.suspending,
           x.status = loop.status, x.failed = loop.failed,
           loop.pc # "top", ~Over(loop), Seen,
           engine' \in EngineType,
           engine'.aborts = IF loop.pc = "step" /\ loop.cmd = "ABORT" THEN 1 ELSE engine.aborts,
           engine'.turn = engine.turn,
           engine.calls = MaxCalls => engine'.calls = MaxCalls,
           engine'.stale => engine.stale \/ (loop.cmd = "GOTDATA" /\ ~engine.fresh /\ loop.pc = "step"),
           loop.cmd # "GOTDATA" => engine'.fresh = engine.fresh
    PROVE  IInv'
<1> USE DEF IInv, CatchRel, Seen
<1>1. loop' \in LoopType /\ loop.aborting \in BOOLEAN /\ engine.aborts \in Nat
  BY DEF LoopType, EngineType
<1>2. loop'.pc \in {"top", "shutdown"} /\ (loop'.pc = "top" => loop'.cmd = "ABORT" /\ ~loop'.aborting)
  BY DEF LoopType
<1>3. Asked(flags', loop') /\ ErrorReported' /\ Client(agent', loop') /\ Placed(loop')
  BY <1>2 DEF Asked, ErrorReported, Client, Placed
<1>4. Told(engine', loop')
  BY <1>1, <1>2 DEF Told, Over
<1>5. Returns(loop')
  BY <1>1, <1>2 DEF Returns, Over
<1>6. Unread(flags', engine', loop')
  BY <1>1, <1>2 DEF Unread, Over
<1>7. flags'.state = "NORMAL" /\ agent'.kind = "soup" => Clock(agent', engine', loop') /\ Fresh(engine', loop')
  BY <1>1, <1>2 DEF Clock, Fresh, Sent, Over
<1>8. QED
  BY <1>1, <1>3, <1>4, <1>5, <1>6, <1>7

\* The engine makes a step or throws.
LEMMA SessionStepKeeps ==
    ASSUME IInv, SessionStep
    PROVE  IInv'
<1>1. loop.pc = "step" /\ UNCHANGED <<flags, agent>>
  BY DEF SessionStep
<1>2. CASE \E result \in Results(loop.cmd), script \in BOOLEAN :
             /\ engine.script => script
             /\ engine' = [Called(loop.cmd) EXCEPT !.turn = TurnAfter(loop.cmd, result), !.script = script]
             /\ loop' = [loop EXCEPT !.cmd = result, !.pc = "dispatch"]
  BY <1>1, <1>2, ResultKeeps
<1>3. CASE \E exception \in Exceptions :
             /\ engine' = Called(loop.cmd)
             /\ loop' = Catch(loop, exception)
  <2>1. PICK exception \in Exceptions : engine' = Called(loop.cmd) /\ loop' = Catch(loop, exception)
    BY <1>3
  <2>2. CatchRel(loop, loop') /\ loop \in LoopType
    BY <2>1, CatchIs DEF IInv
  <2>3. CalledRel(loop.cmd, engine')
    BY <2>1, CalledIs DEF IInv
  <2>4. Seen
    BY <1>1, NothingSeen DEF IInv
  <2>5. /\ engine' \in EngineType
        /\ engine'.aborts = IF loop.pc = "step" /\ loop.cmd = "ABORT" THEN 1 ELSE engine.aborts
        /\ engine'.turn = engine.turn
        /\ engine.calls = MaxCalls => engine'.calls = MaxCalls
        /\ engine'.stale => engine.stale \/ (loop.cmd = "GOTDATA" /\ ~engine.fresh /\ loop.pc = "step")
        /\ loop.cmd # "GOTDATA" => engine'.fresh = engine.fresh
    BY <1>1, <2>3 DEF CalledRel, IInv, Told
  <2>6. ~Over(loop) /\ loop.pc # "top"
    BY <1>1 DEF Over
  <2>7. QED
    BY <2>2, <2>4, <2>5, <2>6, CatchKeeps
<1>4. QED
  BY <1>2, <1>3 DEF SessionStep

\* A message is not sent, the engine is told to abort.
LEMMA StopKeeps ==
    ASSUME IInv, Stop
    PROVE  IInv'
<1> USE DEF IInv
<1>1. loop.pc = "dispatch" /\ loop.cmd = "SENDDATA" /\ engine' = engine /\ loop' = Again("ABORT")
  BY DEF Stop, Stopped
<1>2. Seen
  BY SignalsSeen, NothingSeen DEF Stop
<1>3. AgainRel(loop, "ABORT", loop')
  BY <1>1, AgainIs DEF Commands
<1> USE <1>1, <1>2, <1>3 DEF Seen, AgainRel
<1>4. Asked(flags', loop') /\ ErrorReported' /\ Client(agent', loop') /\ Placed(loop')
  BY DEF Asked, ErrorReported, Client, Placed
<1>5. Told(engine', loop')
  BY DEF Told, Over
<1>6. Returns(loop')
  BY DEF Returns, Over
<1>7. Unread(flags', engine', loop')
  BY DEF Unread, Over
<1>8. flags'.state = "NORMAL" /\ agent'.kind = "soup" => Clock(agent', engine', loop') /\ Fresh(engine', loop')
  BY DEF Clock, Fresh, Sent, Over
<1>9. QED
  BY <1>4, <1>5, <1>6, <1>7, <1>8

\* The loop continues with a step of the engine.
LEMMA NextStepKeeps ==
    ASSUME IInv, loop.pc = "dispatch", loop.suspending # 1, loop.cmd \in {"OK", "PROGRESS", "RESTART"},
           NEW status \in {"OK", "error"}, loop.status = "error" => status = "error",
           NEW retries \in {0, loop.retries},
           loop' = Tail([loop EXCEPT !.cmd = "STEP", !.status = status, !.retries = retries]),
           Seen, engine' = engine
    PROVE  IInv'
<1> USE DEF IInv, Seen
<1>1. PICK x : x = [loop EXCEPT !.cmd = "STEP", !.status = status, !.retries = retries]
  OBVIOUS
<1>2. "STEP" \in Commands /\ retries \in Nat /\ loop.retries \in Nat
  BY DEF Commands, LoopType
<1>3. x \in LoopType
  BY <1>1, <1>2, ZenonT(60) DEF LoopType
<1>4. x.cmd = "STEP" /\ x.status = status /\ x.retries = retries
      /\ x.pc = loop.pc /\ x.prev = loop.prev /\ x.aborting = loop.aborting
      /\ x.suspending = loop.suspending /\ x.requestNum = loop.requestNum /\ x.buffer = loop.buffer
      /\ x.freeze = loop.freeze /\ x.waited = loop.waited /\ x.rested = loop.rested
      /\ x.failed = loop.failed /\ x.freezes = loop.freezes
  BY <1>1 DEF LoopType
<1>5. TailRel(x, loop')
  BY <1>1, <1>3, TailIs
<1>6. loop' \in LoopType /\ loop'.cmd = "STEP" /\ loop'.prev = "STEP" /\ loop'.pc = "top"
      /\ loop'.status = status /\ loop'.retries = retries
      /\ loop'.aborting = loop.aborting /\ loop'.suspending = loop.suspending /\ loop'.requestNum = loop.requestNum
      /\ loop'.buffer = loop.buffer /\ loop'.freeze = loop.freeze /\ loop'.waited = loop.waited
      /\ loop'.rested = loop.rested /\ loop'.failed = loop.failed /\ loop'.freezes = loop.freezes
  BY <1>4, <1>5 DEF TailRel
<1>7. Asked(flags', loop') /\ ErrorReported' /\ Client(agent', loop') /\ Placed(loop')
  BY <1>6 DEF Asked, ErrorReported, Client, Placed, LoopType
<1>8. Told(engine', loop')
  BY <1>6 DEF Told, Over
<1>9. Returns(loop') /\ Unread(flags', engine', loop')
  BY <1>6 DEF Returns, Unread, Over
<1>10. flags'.state = "NORMAL" /\ agent'.kind = "soup" => Clock(agent', engine', loop') /\ Fresh(engine', loop')
  BY <1>6 DEF Clock, Fresh, Sent, Over
<1>11. QED
  BY <1>6, <1>7, <1>8, <1>9, <1>10

\* The result of the engine is handled.
LEMMA DispatchKeeps ==
    ASSUME IInv, Dispatch
    PROVE  IInv'
<1> USE DEF IInv
<1>1. loop.pc = "dispatch" /\ engine' = engine
  BY DEF Dispatch
<1>2. Seen
  BY SignalsSeen, NothingSeen DEF Dispatch
<1>3. loop.prev \in Commands /\ loop.status \in {"OK", "error"}
  BY DEF LoopType
<1>4. CASE loop.suspending = 1
  <2>1. loop' = Again(loop.prev)
    BY <1>4 DEF Dispatch, Restore
  <2>2. AgainRel(loop, loop.prev, loop')
    BY <1>3, <2>1, AgainIs
  <2> USE <1>1, <1>2, <1>4, <2>2 DEF Seen, AgainRel
  <2>3. Asked(flags', loop') /\ ErrorReported' /\ Client(agent', loop') /\ Placed(loop')
    BY DEF Asked, ErrorReported, Client, Placed
  <2>4. loop.prev \in {"GOTDATA", "SUSPEND"} /\ flags.state # "NORMAL"
    BY DEF Returns, Asked
  <2>5. Told(engine', loop')
    BY <2>4 DEF Told, Over
  <2>6. Returns(loop')
    BY <2>4 DEF Returns, Over
  <2>7. Unread(flags', engine', loop')
    BY <2>4 DEF Unread, Over
  <2>8. QED
    BY <2>3, <2>4, <2>5, <2>6, <2>7
<1>5. CASE loop.suspending # 1 /\ loop.cmd \in {"OK", "PROGRESS", "RESTART"}
  <2>1. PICK status \in {"OK", "error"}, retries \in {0, loop.retries} :
          /\ loop.status = "error" => status = "error"
          /\ loop' = Tail([loop EXCEPT !.cmd = "STEP", !.status = status, !.retries = retries])
    <3>1. CASE loop.cmd = "OK"
      <4>1. loop' = Tail([loop EXCEPT !.cmd = "STEP"])
        BY <1>5, <3>1 DEF Dispatch, Restore
      <4>2. [loop EXCEPT !.cmd = "STEP"] =
              [loop EXCEPT !.cmd = "STEP", !.status = loop.status, !.retries = loop.retries]
        BY DEF LoopType
      <4>3. QED
        BY <1>3, <4>1, <4>2
    <3>2. CASE loop.cmd = "PROGRESS"
      <4>1. PICK status \in {"OK", "error"} :
              loop' = Tail([loop EXCEPT !.cmd = "STEP", !.status = IF @ = "OK" THEN status ELSE @])
        BY <1>5, <3>2 DEF Dispatch, Restore
      <4>2. PICK new \in {"OK", "error"} : new = IF loop.status = "OK" THEN status ELSE loop.status
        BY <1>3
      <4>3. [loop EXCEPT !.cmd = "STEP", !.status = IF @ = "OK" THEN status ELSE @] =
              [loop EXCEPT !.cmd = "STEP", !.status = new, !.retries = loop.retries]
        BY <4>2 DEF LoopType
      <4>4. loop.status = "error" => new = "error"
        BY <4>2
      <4>5. QED
        BY <4>1, <4>3, <4>4
    <3>3. CASE loop.cmd = "RESTART"
      <4>1. loop' = Tail([loop EXCEPT !.cmd = "STEP", !.retries = 0])
        BY <1>5, <3>3 DEF Dispatch, Restore
      <4>2. [loop EXCEPT !.cmd = "STEP", !.retries = 0] =
              [loop EXCEPT !.cmd = "STEP", !.status = loop.status, !.retries = 0]
        BY DEF LoopType
      <4>3. QED
        BY <1>3, <4>1, <4>2
    <3>4. QED
      BY <1>5, <3>1, <3>2, <3>3
  <2>2. QED
    BY <1>1, <1>2, <1>5, <2>1, NextStepKeeps
<1>6. CASE loop.suspending # 1 /\ loop.cmd \in {"SENDDATA", "RESENDDATA", "NEEDDATA"}
  <2>1. PICK pc \in {"send", "wait"} : /\ loop' = [loop EXCEPT !.pc = pc]
                                       /\ pc = "wait" <=> loop.cmd = "NEEDDATA"
    <3>1. CASE loop.cmd = "NEEDDATA"
      BY <1>6, <3>1 DEF Dispatch, Restore
    <3>2. CASE loop.cmd # "NEEDDATA"
      BY <1>6, <3>2 DEF Dispatch, Restore
    <3>3. QED
      BY <3>1, <3>2
  <2>2. pc \in Places
    BY <2>1 DEF Places
  <2>3. loop' \in LoopType
    BY <2>1, <2>2, ZenonT(60) DEF LoopType
  <2>4. loop'.pc = pc
        /\ loop'.cmd = loop.cmd /\ loop'.prev = loop.prev /\ loop'.aborting = loop.aborting
        /\ loop'.suspending = loop.suspending /\ loop'.status = loop.status /\ loop'.requestNum = loop.requestNum
        /\ loop'.retries = loop.retries /\ loop'.buffer = loop.buffer /\ loop'.freeze = loop.freeze
        /\ loop'.waited = loop.waited /\ loop'.rested = loop.rested /\ loop'.failed = loop.failed
        /\ loop'.freezes = loop.freezes
    BY <2>1 DEF LoopType
  <2> USE <1>1, <1>2, <1>6, <2>1, <2>3, <2>4 DEF Seen
  <2>5. Asked(flags', loop') /\ ErrorReported' /\ Client(agent', loop') /\ Placed(loop')
    BY DEF Asked, ErrorReported, Client, Placed
  <2>6. Told(engine', loop')
    BY DEF Told, Over
  <2>7. Returns(loop') /\ Unread(flags', engine', loop')
    BY DEF Returns, Unread, Over
  <2>8. flags'.state = "NORMAL" /\ agent'.kind = "soup" => Clock(agent', engine', loop') /\ Fresh(engine', loop')
    BY DEF Clock, Fresh, Sent, Over
  <2>9. QED
    BY <2>5, <2>6, <2>7, <2>8
<1>7. CASE loop.suspending # 1 /\ loop.cmd \in {"DONE", "ERROR"}
  <2>1. loop' = Tail(loop)
    BY <1>7 DEF Dispatch, Restore
  <2>2. TailRel(loop, loop')
    BY <2>1, TailIs
  <2> USE <1>1, <1>2, <1>7, <2>2 DEF Seen, TailRel
  <2>3. Over(loop') /\ loop'.pc = "shutdown" /\ loop'.cmd = loop.cmd
    BY DEF Over
  <2>4. Asked(flags', loop') /\ ErrorReported' /\ Client(agent', loop') /\ Placed(loop')
    BY <2>3 DEF Asked, ErrorReported, Client, Placed
  <2>5. Told(engine', loop')
    BY <2>3 DEF Told
  <2>6. Returns(loop') /\ Unread(flags', engine', loop')
    BY <2>3 DEF Returns, Unread
  <2>7. flags'.state = "NORMAL" /\ agent'.kind = "soup" => Clock(agent', engine', loop') /\ Fresh(engine', loop')
    BY <2>3 DEF Clock, Fresh, Sent
  <2>8. QED
    BY <2>4, <2>5, <2>6, <2>7
<1>8. QED
  BY <1>1, <1>4, <1>5, <1>6, <1>7 DEF Placed

\* A message goes out, for the first time or again.
LEMMA SendKeeps ==
    ASSUME IInv, Send
    PROVE  IInv'
<1> USE DEF IInv
<1>1. loop.pc = "send" /\ UNCHANGED <<flags, engine>> /\ loop.cmd \in {"SENDDATA", "RESENDDATA"}
  BY DEF Send, Placed
<1>2. PICK requestNum : requestNum = IF loop.cmd = "SENDDATA" THEN Min({loop.requestNum + 1, 2}) ELSE loop.requestNum
  OBVIOUS
<1>3. PICK buffer \in BOOLEAN : buffer = (loop.buffer \/ loop.cmd = "SENDDATA")
  OBVIOUS
<1>4. PICK waited : waited = IF loop.cmd = "SENDDATA" THEN 0 ELSE loop.waited
  OBVIOUS
<1>5. loop.requestNum \in 0..2 /\ loop.waited \in 0..RetryDuration /\ RetryDuration \in Nat /\ loop.retries \in Nat
  BY ConstantsAssumption DEF LoopType
<1>6. requestNum \in 0..2 /\ (loop.cmd = "SENDDATA" => requestNum > 0)
  <2>1. Min({loop.requestNum + 1, 2}) = IF loop.requestNum + 1 <= 2 THEN loop.requestNum + 1 ELSE 2
    BY <1>5, MinIs
  <2>2. QED
    BY <1>2, <1>5, <2>1
<1>7. waited \in 0..RetryDuration
  BY <1>4, <1>5
<1>8. PICK x : x = [loop EXCEPT !.requestNum = requestNum, !.buffer = buffer, !.rested = FALSE, !.waited = waited]
  OBVIOUS
<1>9. x \in LoopType
  BY <1>6, <1>7, <1>8, ZenonT(60) DEF LoopType
<1>10. x.requestNum = requestNum /\ x.buffer = buffer /\ ~x.rested /\ x.waited = waited
       /\ x.pc = loop.pc /\ x.cmd = loop.cmd /\ x.prev = loop.prev
       /\ x.aborting = loop.aborting /\ x.suspending = loop.suspending /\ x.status = loop.status
       /\ x.retries = loop.retries /\ x.freeze = loop.freeze /\ x.failed = loop.failed
       /\ x.freezes = loop.freezes
  BY <1>8 DEF LoopType
<1>11. IF ServerMode /\ agent.state # "PROCESSING"
       THEN loop' = Catch(x, "other") /\ UNCHANGED agent
       ELSE /\ loop' = Tail([x EXCEPT !.cmd = "SENTDATA"])
            /\ agent' = [agent EXCEPT !.state = IF ServerMode THEN "WAITING" ELSE "ACTIVE"]
  BY <1>2, <1>3, <1>4, <1>8, Zenon DEF Send
<1>12. CASE ServerMode /\ agent.state # "PROCESSING"
  <2>1. loop' = Catch(x, "other") /\ UNCHANGED <<flags, agent>>
    BY <1>1, <1>11, <1>12
  <2>2. CatchRel(x, loop') /\ Seen
    BY <1>9, <2>1, CatchIs, NothingSeen
  <2>3. ~Over(loop) /\ agent.kind = "dbus"
    BY <1>1, <1>12 DEF Over, ServerMode
  <2>4. QED
    BY <1>1, <1>9, <1>10, <2>2, <2>3, CatchKeeps
<1>13. CASE ~(ServerMode /\ agent.state # "PROCESSING")
  <2>1. PICK state : state = IF ServerMode THEN "WAITING" ELSE "ACTIVE"
    OBVIOUS
  <2>2. agent' = [agent EXCEPT !.state = state]
    BY <1>11, <1>13, <2>1
  <2>3. state \in SoupStates \cup DBusStates
    BY <2>1 DEF SoupStates, DBusStates
  <2>4. agent' \in AgentType
    BY <2>2, <2>3, Zenon DEF AgentType
  <2>5. agent'.kind = agent.kind /\ (agent.kind = "soup" => agent'.state = "ACTIVE")
    BY <2>1, <2>2 DEF AgentType, ServerMode
  <2>6. PICK y : y = [x EXCEPT !.cmd = "SENTDATA"]
    OBVIOUS
  <2>7. y \in LoopType
    <3>1. "SENTDATA" \in Commands
      BY DEF Commands
    <3>2. QED
      BY <1>9, <2>6, <3>1, ZenonT(60) DEF LoopType
  <2>8. y.cmd = "SENTDATA"
        /\ y.pc = x.pc /\ y.prev = x.prev /\ y.aborting = x.aborting
        /\ y.suspending = x.suspending /\ y.status = x.status /\ y.requestNum = x.requestNum
        /\ y.retries = x.retries /\ y.buffer = x.buffer /\ y.freeze = x.freeze
        /\ y.waited = x.waited /\ y.rested = x.rested /\ y.failed = x.failed
        /\ y.freezes = x.freezes
    BY <1>9, <2>6 DEF LoopType
  <2>9. TailRel(y, loop')
    BY <1>11, <1>13, <2>6, <2>7, TailIs
  <2>10. loop' \in LoopType /\ loop'.cmd = "SENTDATA" /\ loop'.prev = "SENTDATA" /\ loop'.pc = "top"
         /\ loop'.requestNum = requestNum /\ loop'.buffer = buffer /\ ~loop'.rested /\ loop'.waited = waited
         /\ loop'.aborting = loop.aborting /\ loop'.suspending = loop.suspending /\ loop'.status = loop.status
         /\ loop'.retries = loop.retries /\ loop'.freeze = loop.freeze /\ loop'.failed = loop.failed
         /\ loop'.freezes = loop.freezes
    BY <1>10, <2>8, <2>9 DEF TailRel
  <2>11. Asked(flags', loop') /\ ErrorReported' /\ Client(agent', loop') /\ Placed(loop')
    BY <1>1, <2>5, <2>10 DEF Asked, ErrorReported, Client, Placed
  <2>12. Told(engine', loop')
    BY <1>1, <2>10 DEF Told, Over
  <2>13. Returns(loop') /\ Unread(flags', engine', loop')
    BY <1>1, <2>10 DEF Returns, Unread, Over
  <2>14. flags'.state = "NORMAL" /\ agent'.kind = "soup" => Clock(agent', engine', loop') /\ Fresh(engine', loop')
    <3> HAVE flags'.state = "NORMAL" /\ agent'.kind = "soup"
    <3>1. Clock(agent, engine, loop) /\ Fresh(engine, loop)
      BY <1>1, <2>5
    <3>2. Fresh(engine', loop')
      BY <1>1, <2>10, <3>1 DEF Fresh
    <3>3. ~loop.aborting => buffer /\ requestNum > 0 /\ loop.retries <= waited
      <4>1. CASE loop.cmd = "SENDDATA"
        <5>1. ~loop.aborting => loop.retries = 0
          BY <1>1, <3>1, <4>1 DEF Fresh
        <5>2. waited = 0 /\ buffer /\ requestNum > 0
          BY <1>3, <1>4, <1>6, <4>1
        <5>3. QED
          BY <5>1, <5>2
      <4>2. CASE loop.cmd = "RESENDDATA"
        <5>1. loop.buffer /\ loop.requestNum > 1 /\ loop.retries <= loop.waited
          BY <1>1, <3>1, <4>2 DEF Clock, Over
        <5>2. waited = loop.waited /\ requestNum = loop.requestNum /\ buffer
          BY <1>2, <1>3, <1>4, <4>2, <5>1
        <5>3. QED
          BY <1>5, <5>1, <5>2
      <4>3. QED
        BY <1>1, <4>1, <4>2
    <3>4. agent'.state = "ACTIVE"
      BY <2>5
    <3>5. Clock(agent', engine', loop')
      BY <2>10, <3>3, <3>4 DEF Clock, Sent
    <3>6. QED
      BY <3>2, <3>5
  <2>15. QED
    BY <1>1, <2>4, <2>10, <2>11, <2>12, <2>13, <2>14
<1>14. QED
  BY <1>12, <1>13

\* The request of a client ends.
LEMMA SoupDoneKeeps ==
    ASSUME IInv, SoupDone
    PROVE  IInv'
<1> USE DEF IInv
<1>1. loop.pc \in {"wait", "frozen"} /\ agent.kind = "soup" /\ UNCHANGED <<flags, engine>>
  BY DEF SoupDone
<1>2. PICK state \in {"GOT_REPLY", "GOT_OTHER", "FAILED", "FAILED_EARLY", "TIME_OUT"}, late \in BOOLEAN :
        /\ state = "TIME_OUT" => late
        /\ agent' = [agent EXCEPT !.state = state]
        /\ loop' = IF late THEN [loop EXCEPT !.waited = Min({@ + 1, RetryDuration}), !.rested = TRUE] ELSE loop
  BY DEF SoupDone, Failure
<1>3. state \in SoupStates \cup DBusStates
  BY <1>2 DEF SoupStates
<1>4. agent' \in AgentType
  BY <1>2, <1>3, Zenon DEF AgentType
<1>5. agent'.kind = agent.kind /\ agent'.state = state
  BY <1>2 DEF AgentType
<1>6. PICK waited : waited = Min({loop.waited + 1, RetryDuration})
  OBVIOUS
<1>7. loop.waited \in 0..RetryDuration /\ RetryDuration \in Nat /\ loop.retries \in Nat
  BY ConstantsAssumption DEF LoopType
<1>8. waited = IF loop.waited + 1 <= RetryDuration THEN loop.waited + 1 ELSE RetryDuration
  BY <1>6, <1>7, MinIs
<1>9. waited \in 0..RetryDuration /\ waited >= loop.waited /\ (waited = loop.waited + 1 \/ waited = RetryDuration)
  BY <1>7, <1>8
<1>10. /\ loop' \in LoopType
       /\ IF late THEN loop'.waited = waited /\ loop'.rested ELSE loop'.waited = loop.waited /\ loop'.rested = loop.rested
       /\ loop'.pc = loop.pc /\ loop'.cmd = loop.cmd /\ loop'.prev = loop.prev
       /\ loop'.aborting = loop.aborting /\ loop'.suspending = loop.suspending /\ loop'.status = loop.status
       /\ loop'.requestNum = loop.requestNum /\ loop'.retries = loop.retries /\ loop'.buffer = loop.buffer
       /\ loop'.freeze = loop.freeze /\ loop'.failed = loop.failed /\ loop'.freezes = loop.freezes
  <2>1. CASE late
    <3>1. loop' = [loop EXCEPT !.waited = waited, !.rested = TRUE]
      BY <1>2, <1>6, <2>1
    <3>2. loop' \in LoopType
      BY <1>9, <3>1, ZenonT(60) DEF LoopType
    <3>3. QED
      BY <2>1, <3>1, <3>2 DEF LoopType
  <2>2. CASE ~late
    BY <1>2, <2>2
  <2>3. QED
    BY <2>1, <2>2
<1>11. Asked(flags', loop') /\ ErrorReported' /\ Client(agent', loop') /\ Placed(loop')
  BY <1>1, <1>5, <1>10 DEF Asked, ErrorReported, Client, Placed
<1>12. Told(engine', loop')
  BY <1>1, <1>10 DEF Told, Over
<1>13. Returns(loop') /\ Unread(flags', engine', loop')
  BY <1>1, <1>10 DEF Returns, Unread, Over
<1>14. flags.state = "NORMAL" => Fresh(engine', loop')
  BY <1>1, <1>10 DEF Fresh
<1>15. flags.state = "NORMAL" => Clock(agent', engine', loop')
  <2> HAVE flags.state = "NORMAL"
  <2>1. Clock(agent, engine, loop)
    BY <1>1
  <2>2. loop.retries <= loop.waited => loop'.retries <= loop'.waited
    BY <1>7, <1>9, <1>10
  <2>7. loop.cmd = "RESENDDATA" => loop'.rested
    BY <1>1, <1>10, <2>1 DEF Clock, Over
  <2>3. Sent(loop) \/ loop.pc = "wait" =>
          (loop'.rested => loop'.retries < loop'.waited \/ loop'.waited = RetryDuration)
    <3> HAVE Sent(loop) \/ loop.pc = "wait"
    <3>1. loop.rested => loop.retries < loop.waited \/ loop.waited = RetryDuration
      BY <2>1 DEF Clock
    <3>2. CASE ~late
      BY <1>10, <3>1, <3>2
    <3>3. CASE late
      <4>1. loop.retries <= loop.waited
        BY <2>1 DEF Clock
      <4>2. loop.retries < waited \/ waited = RetryDuration
        BY <1>7, <1>9, <4>1
      <4>3. QED
        BY <1>10, <3>3, <4>2
    <3>4. QED
      BY <3>2, <3>3
  <2>4. agent'.state = "TIME_OUT" => loop'.rested
    BY <1>2, <1>5, <1>10
  <2>5. Sent(loop') <=> Sent(loop)
    BY <1>10 DEF Sent
  <2>6. QED
    BY <1>1, <1>2, <1>5, <1>10, <2>1, <2>2, <2>3, <2>4, <2>5, <2>7 DEF Clock, Over
<1>16. QED
  BY <1>1, <1>4, <1>5, <1>10, <1>11, <1>12, <1>13, <1>14, <1>15

\* A reply is handed to the engine.
LEMMA GotReplyKeeps ==
    ASSUME IInv, loop.pc = "wait", GotReply, UNCHANGED <<flags, agent>>
    PROVE  IInv'
<1> USE DEF IInv
<1>1. PICK x : x = [loop EXCEPT !.cmd = "GOTDATA", !.retries = 0, !.buffer = FALSE]
  OBVIOUS
<1>2. x \in LoopType
  <2>1. "GOTDATA" \in Commands /\ 0 \in Nat
    BY DEF Commands
  <2>2. QED
    BY <1>1, <2>1, ZenonT(60) DEF LoopType
<1>3. x.cmd = "GOTDATA" /\ x.retries = 0 /\ ~x.buffer
      /\ x.pc = loop.pc /\ x.prev = loop.prev /\ x.aborting = loop.aborting
      /\ x.suspending = loop.suspending /\ x.status = loop.status /\ x.requestNum = loop.requestNum
      /\ x.freeze = loop.freeze /\ x.waited = loop.waited /\ x.rested = loop.rested
      /\ x.failed = loop.failed /\ x.freezes = loop.freezes
  BY <1>1 DEF LoopType
<1>4. TailRel(x, loop')
  BY <1>1, <1>2, TailIs DEF GotReply
<1>5. loop' \in LoopType /\ loop'.cmd = "GOTDATA" /\ loop'.prev = "GOTDATA" /\ loop'.pc = "top"
      /\ loop'.retries = 0
      /\ loop'.aborting = loop.aborting /\ loop'.suspending = loop.suspending /\ loop'.status = loop.status
      /\ loop'.requestNum = loop.requestNum /\ loop'.freeze = loop.freeze /\ loop'.waited = loop.waited
      /\ loop'.rested = loop.rested /\ loop'.failed = loop.failed /\ loop'.freezes = loop.freezes
  BY <1>3, <1>4 DEF TailRel
<1>6. engine' = [engine EXCEPT !.fresh = TRUE, !.turn = "ours"]
  BY DEF GotReply
<1>7. engine' \in EngineType
  BY <1>6, ZenonT(60) DEF EngineType
<1>8. engine'.fresh /\ engine'.turn = "ours" /\ engine'.aborts = engine.aborts /\ engine'.stale = engine.stale
  BY <1>6 DEF EngineType
<1>9. Asked(flags', loop') /\ ErrorReported' /\ Client(agent', loop') /\ Placed(loop')
  BY <1>5 DEF Asked, ErrorReported, Client, Placed
<1>10. ~loop.aborting
  BY DEF Told
<1>11. Told(engine', loop')
  BY <1>5, <1>8, <1>10 DEF Told
<1>12. Returns(loop') /\ Unread(flags', engine', loop')
  BY <1>5, <1>8, <1>10 DEF Returns, Unread, Over
<1>13. flags'.state = "NORMAL" /\ agent'.kind = "soup" => Clock(agent', engine', loop') /\ Fresh(engine', loop')
  BY <1>5, <1>8 DEF Clock, Fresh, Sent, Over
<1>14. QED
  BY <1>5, <1>7, <1>9, <1>11, <1>12, <1>13

\* The loop leaves the wait for a reply with another command.
LEMMA LeaveWait ==
    ASSUME IInv, loop.pc \in {"wait", "sleep"}, NEW x \in LoopType, NEW cmd \in Commands,
           cmd \notin {"GOTDATA", "DONE", "ERROR"},
           cmd = "SUSPEND" => flags.state # "NORMAL",
           cmd = "RESENDDATA" => agent.kind = "soup",
           flags.state = "NORMAL" /\ agent.kind = "soup" =>
             /\ cmd = "RESENDDATA" /\ x.buffer /\ x.rested /\ x.requestNum > 1
             /\ x.retries <= x.waited /\ x.retries < RetryDuration,
           x.cmd = cmd, x.aborting = loop.aborting, x.suspending = loop.suspending,
           x.status = loop.status, x.failed = loop.failed,
           loop' = Tail(x), flags' \in FlagsType, flags'.state = flags.state, flags'.raced = flags.raced,
           agent' \in AgentType, agent'.kind = agent.kind, engine' = engine
    PROVE  IInv'
<1> USE DEF IInv
<1>1. TailRel(x, loop')
  BY TailIs
<1>2. ~loop.aborting /\ loop.suspending # 1
  BY DEF Told, Returns
<1>3. loop' \in LoopType /\ loop'.cmd = cmd /\ loop'.prev = cmd /\ loop'.pc = "top"
      /\ ~loop'.aborting /\ loop'.suspending = loop.suspending /\ loop'.status = loop.status
      /\ loop'.failed = loop.failed /\ loop'.buffer = x.buffer /\ loop'.rested = x.rested
      /\ loop'.requestNum = x.requestNum /\ loop'.retries = x.retries /\ loop'.waited = x.waited
  BY <1>1, <1>2 DEF TailRel
<1>4. Asked(flags', loop') /\ ErrorReported' /\ Client(agent', loop') /\ Placed(loop')
  BY <1>3 DEF Asked, ErrorReported, Client, Placed
<1>5. Told(engine', loop')
  BY <1>2, <1>3 DEF Told
<1>6. Returns(loop') /\ Unread(flags', engine', loop')
  BY <1>2, <1>3 DEF Returns, Unread, Over
<1>7. flags'.state = "NORMAL" /\ agent'.kind = "soup" => Clock(agent', engine', loop') /\ Fresh(engine', loop')
  <2> HAVE flags'.state = "NORMAL" /\ agent'.kind = "soup"
  <2>1. Clock(agent, engine, loop) /\ Fresh(engine, loop)
    OBVIOUS
  <2>2. engine.turn = "theirs"
    BY <2>1 DEF Clock
  <2>3. Clock(agent', engine', loop')
    BY <1>3 DEF Clock, Sent
  <2>4. Fresh(engine', loop')
    BY <1>3, <2>2 DEF Fresh
  <2>5. QED
    BY <2>3, <2>4
<1>8. QED
  BY <1>3, <1>4, <1>5, <1>6, <1>7

\* The message of a client is sent again.
LEMMA ResendKeeps ==
    ASSUME IInv, loop.pc \in {"wait", "sleep"}, agent.kind = "soup", NEW z \in LoopType,
           z.aborting = loop.aborting, z.suspending = loop.suspending, z.status = loop.status,
           z.failed = loop.failed,
           flags.state = "NORMAL" =>
             z.buffer /\ z.rested /\ z.requestNum > 1 /\ z.retries < z.waited /\ z.waited < RetryDuration,
           loop' = Resend(z), Seen, engine' = engine
    PROVE  IInv'
<1>1. z.retries \in Nat /\ z.waited \in 0..RetryDuration /\ RetryDuration \in Nat
  BY ConstantsAssumption DEF LoopType
<1>2. PICK retries : retries = z.retries + 1
  OBVIOUS
<1>3. retries \in Nat /\ "RESENDDATA" \in Commands
  BY <1>1, <1>2 DEF Commands
<1>4. PICK x : x = [z EXCEPT !.cmd = "RESENDDATA", !.retries = retries]
  OBVIOUS
<1>5. x \in LoopType
  BY <1>3, <1>4, ZenonT(60) DEF LoopType
<1>6. x.cmd = "RESENDDATA" /\ x.retries = retries
      /\ x.pc = z.pc /\ x.prev = z.prev /\ x.aborting = z.aborting
      /\ x.suspending = z.suspending /\ x.status = z.status /\ x.requestNum = z.requestNum
      /\ x.buffer = z.buffer /\ x.freeze = z.freeze /\ x.waited = z.waited
      /\ x.rested = z.rested /\ x.failed = z.failed /\ x.freezes = z.freezes
  BY <1>4 DEF LoopType
<1>7. loop' = Tail(x)
  BY <1>2, <1>4, Zenon DEF Resend
<1>8. flags.state = "NORMAL" => retries <= z.waited /\ retries < RetryDuration
  BY <1>1, <1>2
<1>9. flags' \in FlagsType /\ flags'.state = flags.state /\ flags'.raced = flags.raced
      /\ agent' \in AgentType /\ agent'.kind = agent.kind
  BY DEF Seen
<1>10. QED
  BY <1>3, <1>5, <1>6, <1>7, <1>8, <1>9, LeaveWait

\* What interrupts the wait for a reply is a request.
LEMMA InterruptedKeeps ==
    ASSUME IInv, loop.pc = "wait", flags.state # "NORMAL", loop' = Interrupted, Seen, engine' = engine
    PROVE  IInv'
<1>1. flags.state \in {"SUSPEND", "ABORT"} /\ loop \in LoopType
  BY DEF IInv, FlagsType
<1>2. flags.state \in Commands /\ flags.state \notin {"GOTDATA", "DONE", "ERROR", "RESENDDATA"}
  BY <1>1 DEF Commands
<1>3. PICK x : x = [loop EXCEPT !.cmd = flags.state]
  OBVIOUS
<1>4. x \in LoopType
  BY <1>1, <1>2, <1>3, ZenonT(60) DEF LoopType
<1>5. x.cmd = flags.state
      /\ x.pc = loop.pc /\ x.prev = loop.prev /\ x.aborting = loop.aborting
      /\ x.suspending = loop.suspending /\ x.status = loop.status /\ x.requestNum = loop.requestNum
      /\ x.retries = loop.retries /\ x.buffer = loop.buffer /\ x.freeze = loop.freeze
      /\ x.waited = loop.waited /\ x.rested = loop.rested /\ x.failed = loop.failed
      /\ x.freezes = loop.freezes
  BY <1>1, <1>3 DEF LoopType
<1>6. loop' = Tail(x)
  BY <1>3 DEF Interrupted
<1>7. flags' \in FlagsType /\ flags'.state = flags.state /\ flags'.raced = flags.raced
      /\ agent' \in AgentType /\ agent'.kind = agent.kind
  BY DEF Seen
<1>8. QED
  BY <1>2, <1>4, <1>5, <1>6, <1>7, LeaveWait

\* The wait for a reply fails.
LEMMA FailKeeps ==
    ASSUME IInv, loop.pc = "wait", NEW exception, loop' = Catch(loop, exception), Seen, engine' = engine
    PROVE  IInv'
<1>1. loop \in LoopType /\ CatchRel(loop, loop') /\ engine \in EngineType
  BY CatchIs DEF IInv
<1>2. loop.pc # "top" /\ ~Over(loop) /\ loop.pc # "step"
  BY DEF Over
<1>3. QED
  BY <1>1, <1>2, CatchKeeps

\* A client handles the end of its request.
LEMMA SoupWaitKeeps ==
    ASSUME IInv, SoupWait
    PROVE  IInv'
<1>1. loop.pc = "wait" /\ agent.kind = "soup" /\ agent.state # "ACTIVE" /\ loop.cmd = "NEEDDATA"
  BY DEF SoupWait, IInv, Placed
<1>2. flags \in FlagsType /\ agent \in AgentType /\ loop \in LoopType /\ engine \in EngineType
  BY DEF IInv
<1>3. loop.retries \in Nat /\ loop.waited \in 0..RetryDuration /\ RetryDuration \in Nat
      /\ loop.requestNum \in 0..2 /\ loop.rested \in BOOLEAN
  BY <1>2, ConstantsAssumption DEF LoopType
<1>4. flags.state = "NORMAL" =>
        /\ agent.state \in {"GOT_REPLY", "GOT_OTHER", "FAILED", "FAILED_EARLY", "TIME_OUT"}
        /\ agent.state = "TIME_OUT" => loop.rested
        /\ loop.rested => loop.retries < loop.waited \/ loop.waited = RetryDuration
        /\ loop.buffer /\ loop.requestNum > 0 /\ loop.retries <= loop.waited
  BY <1>1 DEF IInv, Clock
<1>5. CASE agent.state = "GOT_REPLY"
  BY <1>1, <1>5, GotReplyKeeps DEF SoupWait
<1>6. CASE agent.state = "TIME_OUT"
  <2>1. loop' = (IF GiveUp(0) THEN Catch(loop, "other") ELSE Resend(loop)) /\ UNCHANGED <<flags, agent, engine>>
    BY <1>6 DEF SoupWait
  <2>2. Seen
    BY <1>2, <2>1, NothingSeen
  <2>3. CASE GiveUp(0)
    BY <1>1, <2>1, <2>2, <2>3, FailKeeps
  <2>4. CASE ~GiveUp(0)
    <3>1. loop.waited < RetryDuration /\ loop.requestNum # 1
      BY <1>3, <2>4 DEF GiveUp
    <3>2. flags.state = "NORMAL" => loop.buffer /\ loop.rested /\ loop.requestNum > 1
                                    /\ loop.retries < loop.waited /\ loop.waited < RetryDuration
      BY <1>3, <1>4, <1>6, <3>1
    <3>3. QED
      BY <1>1, <1>2, <2>1, <2>2, <2>4, <3>2, ResendKeeps
  <2>5. QED
    BY <2>3, <2>4
<1>7. CASE agent.state \in {"FAILED", "GOT_OTHER"}
  <2>1. /\ loop' = IF flags.state # "NORMAL" THEN Interrupted
                   ELSE IF GiveUp(Pause) THEN Catch(loop, "other")
                   ELSE IF Pause > 0 THEN [loop EXCEPT !.pc = "sleep"]
                   ELSE Resend(loop)
        /\ printSignals /\ engine' = engine
    BY <1>7 DEF SoupWait
  <2>2. Seen
    BY <1>2, <2>1, SignalsSeen
  <2>3. CASE flags.state # "NORMAL"
    BY <1>1, <2>1, <2>2, <2>3, InterruptedKeeps
  <2>4. CASE flags.state = "NORMAL" /\ GiveUp(Pause)
    BY <1>1, <2>1, <2>2, <2>4, FailKeeps
  <2>5. CASE flags.state = "NORMAL" /\ ~GiveUp(Pause) /\ loop.rested
    <3>1. Pause = 0
      BY <2>5 DEF Pause
    <3>2. loop' = Resend(loop)
      BY <2>1, <2>5, <3>1
    <3>3. loop.waited < RetryDuration /\ loop.requestNum # 1
      BY <1>3, <2>5, <3>1 DEF GiveUp
    <3>4. loop.buffer /\ loop.rested /\ loop.requestNum > 1
          /\ loop.retries < loop.waited /\ loop.waited < RetryDuration
      BY <1>3, <1>4, <2>5, <3>3
    <3>5. QED
      BY <1>1, <1>2, <2>1, <2>2, <3>2, <3>4, ResendKeeps
  <2>6. CASE flags.state = "NORMAL" /\ ~GiveUp(Pause) /\ ~loop.rested
    <3>1. Pause = 1
      BY <2>6 DEF Pause
    <3>2. loop' = [loop EXCEPT !.pc = "sleep"]
      BY <2>1, <2>6, <3>1
    <3>3. loop.waited + 1 < RetryDuration /\ loop.requestNum # 1
      BY <1>3, <2>6, <3>1 DEF GiveUp
    <3>4. loop' \in LoopType
      <4>1. "sleep" \in Places
        BY DEF Places
      <4>2. QED
        BY <1>2, <3>2, <4>1, ZenonT(60) DEF LoopType
    <3>5. loop'.pc = "sleep"
          /\ loop'.cmd = loop.cmd /\ loop'.prev = loop.prev /\ loop'.aborting = loop.aborting
          /\ loop'.suspending = loop.suspending /\ loop'.status = loop.status /\ loop'.requestNum = loop.requestNum
          /\ loop'.retries = loop.retries /\ loop'.buffer = loop.buffer /\ loop'.freeze = loop.freeze
          /\ loop'.waited = loop.waited /\ loop'.rested = loop.rested /\ loop'.failed = loop.failed
          /\ loop'.freezes = loop.freezes
      BY <1>2, <3>2 DEF LoopType
    <3>6. flags' \in FlagsType /\ flags'.state = "NORMAL" /\ flags'.raced = flags.raced /\ agent' = agent
      BY <2>2, <2>6 DEF Seen
    <3>7. loop.waited < RetryDuration /\ loop.requestNum > 1
      BY <1>3, <1>4, <2>6, <3>3
    <3>8. Asked(flags', loop') /\ ErrorReported' /\ Client(agent', loop') /\ Placed(loop')
      BY <1>1, <3>5, <3>6, <3>7, <2>6 DEF IInv, Asked, ErrorReported, Client, Placed
    <3>9. Told(engine', loop') /\ Returns(loop')
      BY <1>1, <2>1, <3>5 DEF IInv, Told, Returns, Over
    <3>10. Unread(flags', engine', loop')
      BY <1>1, <2>1, <3>5, <3>6 DEF IInv, Unread, Over
    <3>11. Clock(agent', engine', loop') /\ Fresh(engine', loop')
      <4>1. Clock(agent, engine, loop) /\ Fresh(engine, loop)
        BY <1>1, <2>6 DEF IInv
      <4>2. loop'.waited + 1 < RetryDuration /\ loop'.requestNum > 1
        BY <3>3, <3>5, <3>7
      <4>3. Clock(agent', engine', loop')
        BY <1>1, <2>1, <3>5, <3>6, <4>1, <4>2 DEF Clock, Sent
      <4>4. Fresh(engine', loop')
        BY <1>1, <2>1, <3>5, <4>1 DEF Fresh
      <4>5. QED
        BY <4>3, <4>4
    <3>12. QED
      BY <1>2, <2>1, <3>4, <3>6, <3>8, <3>9, <3>10, <3>11 DEF IInv
  <2>7. QED
    BY <2>3, <2>4, <2>5, <2>6
<1>8. CASE agent.state = "CANCELED"
  <2>1. /\ loop' = IF flags.state # "NORMAL" THEN Interrupted ELSE Catch(loop, "engine")
        /\ printSignals /\ engine' = engine
    BY <1>8 DEF SoupWait
  <2>2. Seen
    BY <1>2, <2>1, SignalsSeen
  <2>3. flags.state # "NORMAL"
    BY <1>4, <1>8
  <2>4. QED
    BY <1>1, <2>1, <2>2, <2>3, InterruptedKeeps
<1>11. CASE agent.state = "FAILED_EARLY"
  <2>1. loop' = Catch(loop, "other") /\ UNCHANGED <<flags, agent, engine>>
    BY <1>11 DEF SoupWait
  <2>2. Seen
    BY <1>2, <2>1, NothingSeen
  <2>3. QED
    BY <1>1, <2>1, <2>2, FailKeeps
<1>9. CASE agent.state \notin {"GOT_REPLY", "TIME_OUT", "FAILED", "FAILED_EARLY", "GOT_OTHER", "CANCELED"}
  <2>1. loop' = Tail([loop EXCEPT !.cmd = "TRANSPFAIL"]) /\ UNCHANGED <<flags, agent, engine>>
    BY <1>9 DEF SoupWait
  <2>2. flags.state # "NORMAL"
    BY <1>4, <1>9
  <2>3. "TRANSPFAIL" \in Commands
    BY DEF Commands
  <2>4. PICK x : x = [loop EXCEPT !.cmd = "TRANSPFAIL"]
    OBVIOUS
  <2>5. x \in LoopType
    BY <1>2, <2>3, <2>4, ZenonT(60) DEF LoopType
  <2>6. x.cmd = "TRANSPFAIL"
        /\ x.pc = loop.pc /\ x.prev = loop.prev /\ x.aborting = loop.aborting
        /\ x.suspending = loop.suspending /\ x.status = loop.status /\ x.requestNum = loop.requestNum
        /\ x.retries = loop.retries /\ x.buffer = loop.buffer /\ x.freeze = loop.freeze
        /\ x.waited = loop.waited /\ x.rested = loop.rested /\ x.failed = loop.failed
        /\ x.freezes = loop.freezes
    BY <1>2, <2>4 DEF LoopType
  <2>7. QED
    BY <1>1, <1>2, <2>1, <2>2, <2>3, <2>4, <2>5, <2>6, LeaveWait
<1>10. QED
  BY <1>5, <1>6, <1>7, <1>8, <1>9, <1>11

\* The pause before a message is sent again is over.
LEMMA SleepKeeps ==
    ASSUME IInv, Sleep
    PROVE  IInv'
<1>1. loop.pc = "sleep" /\ UNCHANGED <<flags, agent, engine>>
  BY DEF Sleep
<1>2. flags \in FlagsType /\ agent \in AgentType /\ loop \in LoopType /\ loop.waited < RetryDuration
  BY <1>1 DEF IInv, Placed
<1>3. agent.kind = "soup"
  BY <1>1 DEF IInv, Client, AgentType
<1>4. Seen
  BY <1>1, <1>2, NothingSeen
<1>5. loop.retries \in Nat /\ loop.waited \in 0..RetryDuration /\ RetryDuration \in Nat
  BY <1>2, ConstantsAssumption DEF LoopType
<1>6. CASE loop' = Resend([loop EXCEPT !.waited = @ + 1, !.rested = TRUE])
  <2>1. PICK waited : waited = loop.waited + 1
    OBVIOUS
  <2>2. waited \in 0..RetryDuration
    BY <1>2, <1>5, <2>1
  <2>3. PICK z : z = [loop EXCEPT !.waited = waited, !.rested = TRUE]
    OBVIOUS
  <2>4. z \in LoopType
    BY <1>2, <2>2, <2>3, ZenonT(60) DEF LoopType
  <2>5. z.waited = waited /\ z.rested
        /\ z.pc = loop.pc /\ z.cmd = loop.cmd /\ z.prev = loop.prev
        /\ z.aborting = loop.aborting /\ z.suspending = loop.suspending /\ z.status = loop.status
        /\ z.requestNum = loop.requestNum /\ z.retries = loop.retries /\ z.buffer = loop.buffer
        /\ z.freeze = loop.freeze /\ z.failed = loop.failed /\ z.freezes = loop.freezes
    BY <1>2, <2>3 DEF LoopType
  <2>6. loop' = Resend(z)
    BY <1>6, <2>1, <2>3
  <2>7. flags.state = "NORMAL" => loop.buffer /\ loop.requestNum > 1 /\ loop.retries <= loop.waited
                                  /\ loop.waited + 1 < RetryDuration
    BY <1>1, <1>3 DEF IInv, Clock
  <2>8. flags.state = "NORMAL" => loop.retries < waited /\ waited < RetryDuration
    BY <1>5, <2>1, <2>7
  <2>9. QED
    BY <1>1, <1>3, <1>4, <2>4, <2>5, <2>6, <2>7, <2>8, ResendKeeps
<1>7. CASE flags.state # "NORMAL" /\ loop' = Resend(loop)
  BY <1>1, <1>2, <1>3, <1>4, <1>7, ResendKeeps
<1>8. QED
  BY <1>6, <1>7 DEF Sleep

\* A server waits for one event.
LEMMA DBusWaitKeeps ==
    ASSUME IInv, DBusWait
    PROVE  IInv'
<1>1. loop.pc = "wait" /\ agent.kind = "dbus" /\ loop.cmd = "NEEDDATA"
  BY DEF DBusWait, IInv, Placed
<1>2. flags \in FlagsType /\ agent \in AgentType /\ loop \in LoopType
  BY DEF IInv
<1>3. CASE agent.state = "PROCESSING"
  BY <1>1, <1>3, GotReplyKeeps DEF DBusWait
<1>4. CASE agent.state = "WAITING"
  <2>1. loop' = Tail(loop) /\ UNCHANGED <<flags, engine>>
    BY <1>4 DEF DBusWait
  <2>2. PICK state \in {"PROCESSING", "LOST", "WAITING"} : agent' = [agent EXCEPT !.state = state]
    <3>1. CASE agent' = agent
      BY <1>2, <1>4, <3>1 DEF AgentType
    <3>2. CASE agent' # agent
      BY <1>4, <3>2 DEF DBusWait
    <3>3. QED
      BY <3>1, <3>2
  <2>3. state \in SoupStates \cup DBusStates
    BY <2>2 DEF DBusStates
  <2>4. agent' \in AgentType
    BY <1>2, <2>2, <2>3, Zenon DEF AgentType
  <2>5. agent'.kind = agent.kind
    BY <1>2, <2>2 DEF AgentType
  <2>6. "NEEDDATA" \in Commands
    BY DEF Commands
  <2>7. QED
    BY <1>1, <1>2, <2>1, <2>4, <2>5, <2>6, LeaveWait
<1>5. CASE agent.state \notin {"PROCESSING", "WAITING"}
  <2>1. loop' = Catch(loop, "other") /\ UNCHANGED <<flags, agent, engine>>
    BY <1>5 DEF DBusWait
  <2>2. Seen
    BY <1>2, <2>1, NothingSeen
  <2>3. QED
    BY <1>1, <2>1, <2>2, FailKeeps
<1>6. QED
  BY <1>3, <1>4, <1>5

-----------------------------------------------------------------------------
(***************************************************************************)
(* After the loop, and events from outside.                                *)
(***************************************************************************)

\* Once the loop has been left, only failures are added.
LEMMA OverKeeps ==
    ASSUME IInv, Over(loop), NEW pc \in {"shutdown", "closing", "end"}, NEW freeze \in {"NONE", loop.freeze},
           NEW status \in {loop.status, "error"},
           loop' = [loop EXCEPT !.pc = pc, !.freeze = freeze, !.status = status],
           agent' \in AgentType, agent'.kind = agent.kind, UNCHANGED <<flags, engine>>
    PROVE  IInv'
<1> USE DEF IInv
<1>1. pc \in Places /\ freeze \in {"NONE", "RUNNING", "FROZEN"} /\ status \in {"OK", "error"}
  BY DEF Places, LoopType
<1>2. loop' \in LoopType
  BY <1>1, ZenonT(60) DEF LoopType
<1>3. loop'.pc = pc /\ loop'.status = status
      /\ loop'.cmd = loop.cmd /\ loop'.prev = loop.prev /\ loop'.aborting = loop.aborting
      /\ loop'.suspending = loop.suspending /\ loop'.requestNum = loop.requestNum /\ loop'.retries = loop.retries
      /\ loop'.buffer = loop.buffer /\ loop'.waited = loop.waited /\ loop'.rested = loop.rested
      /\ loop'.failed = loop.failed /\ loop'.freezes = loop.freezes
  BY DEF LoopType
<1>4. Over(loop')
  BY <1>3 DEF Over
<1>5. Asked(flags', loop') /\ ErrorReported' /\ Client(agent', loop') /\ Placed(loop')
  BY <1>3 DEF Asked, ErrorReported, Client, Placed
<1>6. Told(engine', loop')
  BY <1>3, <1>4 DEF Told, Over
<1>7. Returns(loop') /\ Unread(flags', engine', loop')
  BY <1>3, <1>4 DEF Returns, Unread, Over
<1>8. flags'.state = "NORMAL" /\ agent'.kind = "soup" => Clock(agent', engine', loop') /\ Fresh(engine', loop')
  BY <1>3, <1>4 DEF Clock, Fresh, Sent, Over
<1>9. QED
  BY <1>2, <1>5, <1>6, <1>7, <1>8

\* The agent is shut down after a sync without failure.
LEMMA ShutdownKeeps ==
    ASSUME IInv, Shutdown
    PROVE  IInv'
<1>1. loop.pc = "shutdown" /\ UNCHANGED <<flags, engine>> /\ loop \in LoopType /\ agent \in AgentType
  BY DEF Shutdown, IInv
<1>2. Over(loop)
  BY <1>1 DEF Over
<1>3. CASE loop.status = "OK" /\ ~Aborted
  <2>1. PICK state : state = IF agent.kind = "soup" THEN "CLOSED"
                             ELSE IF agent.state = "PROCESSING" THEN "FINAL" ELSE agent.state
    OBVIOUS
  <2>2. state \in SoupStates \cup DBusStates
    BY <1>1, <2>1 DEF SoupStates, DBusStates, AgentType
  <2>3. agent' = [agent EXCEPT !.state = state]
    BY <1>3, <2>1 DEF Shutdown
  <2>4. agent' \in AgentType
    BY <1>1, <2>2, <2>3, Zenon DEF AgentType
  <2>5. agent'.kind = agent.kind
    BY <1>1, <2>3 DEF AgentType
  <2>6. loop' = [loop EXCEPT !.pc = "closing"]
    BY <1>3 DEF Shutdown
  <2>7. loop' = [loop EXCEPT !.pc = "closing", !.freeze = loop.freeze, !.status = loop.status]
    BY <1>1, <2>6 DEF LoopType
  <2>8. QED
    BY <1>1, <1>2, <2>4, <2>5, <2>7, OverKeeps
<1>4. CASE ~(loop.status = "OK" /\ ~Aborted)
  <2>1. loop' = [loop EXCEPT !.pc = "end", !.freeze = "NONE"] /\ agent' = agent
    BY <1>4 DEF Shutdown
  <2>2. loop' = [loop EXCEPT !.pc = "end", !.freeze = "NONE", !.status = loop.status]
    BY <1>1, <2>1 DEF LoopType
  <2>3. QED
    BY <1>1, <1>2, <2>1, <2>2, OverKeeps
<1>5. QED
  BY <1>3, <1>4

\* The last reply of a server is delivered or lost.
LEMMA ClosingKeeps ==
    ASSUME IInv, Closing
    PROVE  IInv'
<1>1. loop.pc = "closing" /\ UNCHANGED <<flags, engine>> /\ loop \in LoopType /\ agent \in AgentType
  BY DEF Closing, IInv
<1>2. Over(loop)
  BY <1>1 DEF Over
<1>3. CASE ~Aborted /\ agent.state = "FINAL"
  <2>1. loop' = loop
    BY <1>3 DEF Closing
  <2>2. loop' = [loop EXCEPT !.pc = "closing", !.freeze = loop.freeze, !.status = loop.status]
    BY <1>1, <2>1 DEF LoopType
  <2>3. PICK state \in {"DONE", "LOST", "FINAL"} : agent' = [agent EXCEPT !.state = state]
    <3>1. CASE agent' = agent
      BY <1>1, <1>3, <3>1 DEF AgentType
    <3>2. CASE agent' # agent
      BY <1>3, <3>2 DEF Closing
    <3>3. QED
      BY <3>1, <3>2
  <2>4. state \in SoupStates \cup DBusStates
    BY <2>3 DEF DBusStates
  <2>5. agent' \in AgentType
    BY <1>1, <2>3, <2>4, Zenon DEF AgentType
  <2>6. agent'.kind = agent.kind
    BY <1>1, <2>3 DEF AgentType
  <2>7. QED
    BY <1>1, <1>2, <2>2, <2>5, <2>6, OverKeeps
<1>4. CASE ~(~Aborted /\ agent.state = "FINAL")
  <2>1. PICK status \in {loop.status, "error"} :
          status = IF agent.state = "LOST" /\ ~Aborted THEN "error" ELSE loop.status
    OBVIOUS
  <2>2. loop' = [loop EXCEPT !.pc = "end", !.freeze = "NONE", !.status = status] /\ agent' = agent
    BY <1>4, <2>1, Zenon DEF Closing
  <2>3. QED
    BY <1>1, <1>2, <2>2, OverKeeps
<1>5. QED
  BY <1>3, <1>4

\* A signal arrives: requests only get stronger.
LEMMA SignalKeeps ==
    ASSUME IInv, NEW sig \in {"SIGINT", "SIGTERM"}, handleSignal(sig)
    PROVE  IInv'
<1> USE DEF IInv
<1>1. UNCHANGED <<agent, engine, loop>>
  BY DEF handleSignal
<1>2. PICK new \in NextStates(sig) :
        flags' = [flags EXCEPT !.state = new, !.pipe = TRUE, !.signals = @ + 1,
                               !.raced = @ \/ (new = "ABORT" /\ loop.suspending = 1)]
  BY DEF handleSignal
<1>3. new \in {"SUSPEND", "ABORT"} /\ (flags.state = "ABORT" => new = "ABORT")
  BY <1>2 DEF NextStates
<1>4. PICK signals : signals = flags.signals + 1
  OBVIOUS
<1>5. PICK raced \in BOOLEAN : raced = (flags.raced \/ (new = "ABORT" /\ loop.suspending = 1))
  OBVIOUS
<1>6. signals \in Nat
  BY <1>4 DEF FlagsType
<1>7. flags' = [flags EXCEPT !.state = new, !.pipe = TRUE, !.signals = signals, !.raced = raced]
  BY <1>2, <1>4, <1>5, Zenon
<1>8. flags' \in FlagsType
  BY <1>3, <1>6, <1>7, ZenonT(60) DEF FlagsType
<1>9. flags'.state = new /\ flags'.raced = raced
  BY <1>7 DEF FlagsType
<1>10. Asked(flags', loop') /\ ErrorReported' /\ Client(agent', loop') /\ Placed(loop')
  BY <1>1, <1>3, <1>5, <1>9 DEF Asked, ErrorReported, Client, Placed
<1>11. Unread(flags', engine', loop')
  BY <1>1, <1>3, <1>5, <1>9 DEF Unread
<1>12. flags'.state # "NORMAL"
  BY <1>3, <1>9
<1>13. QED
  BY <1>1, <1>8, <1>10, <1>11, <1>12

\* glib sees the bytes that a signal left in the pipe.
LEMMA ChannelKeeps ==
    ASSUME IInv, SignalChannelReady
    PROVE  IInv'
<1> USE DEF IInv
<1>1. Seen /\ UNCHANGED <<engine, loop>>
  BY SignalsSeen DEF SignalChannelReady
<1>2. Asked(flags', loop') /\ ErrorReported' /\ Client(agent', loop') /\ Unread(flags', engine', loop')
  BY <1>1 DEF Seen, Asked, ErrorReported, Client, Unread
<1>3. flags'.state = "NORMAL" /\ agent'.kind = "soup" => Clock(agent', engine', loop') /\ Fresh(engine', loop')
  BY <1>1 DEF Seen
<1>4. QED
  BY <1>1, <1>2, <1>3 DEF Seen

\* The sync is frozen or thawed.
LEMMA FreezeKeeps ==
    ASSUME IInv, NEW freeze \in {"RUNNING", "FROZEN"}, setFreeze(freeze)
    PROVE  IInv'
<1> USE DEF IInv
<1>1. UNCHANGED <<flags, agent, engine>>
  BY DEF setFreeze
<1>2. PICK freezes : freezes = loop.freezes + 1
  OBVIOUS
<1>3. freezes \in Nat
  BY <1>2 DEF LoopType
<1>4. loop' = [loop EXCEPT !.freeze = freeze, !.freezes = freezes]
  BY <1>2, Zenon DEF setFreeze
<1>5. loop' \in LoopType
  BY <1>3, <1>4, ZenonT(60) DEF LoopType
<1>6. loop'.pc = loop.pc /\ loop'.cmd = loop.cmd /\ loop'.prev = loop.prev
      /\ loop'.aborting = loop.aborting /\ loop'.suspending = loop.suspending /\ loop'.status = loop.status
      /\ loop'.requestNum = loop.requestNum /\ loop'.retries = loop.retries /\ loop'.buffer = loop.buffer
      /\ loop'.waited = loop.waited /\ loop'.rested = loop.rested /\ loop'.failed = loop.failed
  BY <1>4 DEF LoopType
<1>7. Asked(flags', loop') /\ ErrorReported' /\ Client(agent', loop') /\ Placed(loop')
  BY <1>1, <1>6 DEF Asked, ErrorReported, Client, Placed
<1>8. Told(engine', loop')
  BY <1>1, <1>6 DEF Told, Over
<1>9. Returns(loop') /\ Unread(flags', engine', loop')
  BY <1>1, <1>6 DEF Returns, Unread, Over
<1>10. flags'.state = "NORMAL" /\ agent'.kind = "soup" => Clock(agent', engine', loop') /\ Fresh(engine', loop')
  BY <1>1, <1>6 DEF Clock, Fresh, Sent, Over
<1>11. QED
  BY <1>1, <1>5, <1>7, <1>8, <1>9, <1>10

-----------------------------------------------------------------------------
(***************************************************************************)
(* The theorems.                                                           *)
(***************************************************************************)

\* doSync() starts in a state of the invariant.
LEMMA Initially ==
    Init => IInv
<1> SUFFICES ASSUME Init PROVE IInv
  OBVIOUS
<1>1. agent.kind \in {"soup", "dbus"} /\ agent \in AgentType
  BY DEF Init, AgentType, SoupStates, DBusStates
<1>2. PICK first : first = IF ServerMode THEN "GOTDATA" ELSE "CLIENTSTART"
  OBVIOUS
<1>3. first \in {"GOTDATA", "CLIENTSTART"} /\ (first = "GOTDATA" <=> agent.kind = "dbus")
  BY <1>2 DEF ServerMode
<1>4. flags = [state |-> "NORMAL", pipe |-> FALSE, signals |-> 0, raced |-> FALSE]
  BY DEF Init
<1>5. PICK fresh \in BOOLEAN : fresh = ServerMode
  BY DEF ServerMode
<1>6. engine = [turn |-> "ours", fresh |-> fresh, calls |-> 0, script |-> FALSE, aborts |-> 0,
                suspended |-> FALSE, stale |-> FALSE]
  BY <1>5 DEF Init
<1>7. loop = [pc |-> "top", cmd |-> first, prev |-> first, aborting |-> FALSE, suspending |-> 0,
              status |-> "OK", requestNum |-> 0, retries |-> 0, buffer |-> FALSE,
              freeze |-> "RUNNING", waited |-> 0, rested |-> FALSE, failed |-> FALSE, freezes |-> 0]
  BY <1>2 DEF Init
<1>8. flags \in FlagsType
  BY <1>4 DEF FlagsType
<1>9. engine \in EngineType
  BY <1>6 DEF EngineType
<1>10. loop \in LoopType
  <2>1. first \in Commands /\ "top" \in Places /\ 0 \in 0..RetryDuration /\ 0 \in 0..2
    BY <1>3, ConstantsAssumption DEF Commands, Places
  <2>2. QED
    BY <1>7, <2>1 DEF LoopType
<1>11. loop.pc = "top" /\ loop.cmd = first /\ loop.prev = first /\ ~loop.aborting /\ loop.suspending = 0
       /\ loop.retries = 0 /\ ~loop.failed
  BY <1>7
<1>12. flags.state = "NORMAL" /\ ~flags.raced /\ engine.turn = "ours" /\ engine.aborts = 0 /\ ~engine.stale
       /\ (engine.fresh <=> agent.kind = "dbus")
  BY <1>4, <1>5, <1>6 DEF ServerMode
<1>13. Asked(flags, loop) /\ ErrorReported /\ Client(agent, loop) /\ Placed(loop)
  BY <1>3, <1>11, <1>12 DEF Asked, ErrorReported, Client, Placed
<1>14. Told(engine, loop) /\ Returns(loop)
  BY <1>3, <1>11, <1>12 DEF Told, Returns, Over
<1>15. Unread(flags, engine, loop)
  BY <1>3, <1>11, <1>12 DEF Unread
<1>16. agent.kind = "soup" => Clock(agent, engine, loop) /\ Fresh(engine, loop)
  BY <1>3, <1>11, <1>12 DEF Clock, Fresh, Sent
<1>17. QED
  BY <1>1, <1>8, <1>9, <1>10, <1>13, <1>14, <1>15, <1>16 DEF IInv

\* Every step keeps the invariant.
LEMMA Inductive ==
    IInv /\ [Next]_vars => IInv'
<1> SUFFICES ASSUME IInv, [Next]_vars PROVE IInv'
  OBVIOUS
<1>1. CASE UNCHANGED vars
  BY <1>1 DEF vars, IInv, ErrorReported
<1>2. CASE DoSync
  BY <1>2, TopKeeps, ThawKeeps, SessionStepKeeps, StopKeeps, DispatchKeeps, SendKeeps, SoupWaitKeeps,
     SleepKeeps, DBusWaitKeeps, ShutdownKeeps, ClosingKeeps DEF DoSync
<1>3. CASE SoupDone \/ SignalChannelReady
  BY <1>3, SoupDoneKeeps, ChannelKeeps
<1>4. CASE \E sig \in {"SIGINT", "SIGTERM"} : handleSignal(sig)
  BY <1>4, SignalKeeps
<1>5. CASE \E freeze \in {"RUNNING", "FROZEN"} : setFreeze(freeze)
  BY <1>5, FreezeKeeps
<1>6. QED
  BY <1>1, <1>2, <1>3, <1>4, <1>5 DEF Next

\* The invariant always holds.
THEOREM Always == Spec => []IInv
  BY Initially, Inductive, PTL DEF Spec

\* SyncContext::doSync() tells the engine to abort at most once, however many signals
\* arrive, steps fail and messages cannot be sent while it shuts down.
THEOREM AbortOnceHolds == Spec => []AbortOnce
<1>1. IInv => AbortOnce
  BY DEF IInv, Told, AbortOnce
<1>2. QED
  BY <1>1, Always, PTL

\* doSync() only lets the engine process a reply which was written into it and not
\* processed yet, unless an abort request overtakes a suspend request.
THEOREM GotDataFreshHolds == Spec => []GotDataFresh
<1>1. IInv => GotDataFresh
  BY DEF IInv, Unread, GotDataFresh
<1>2. QED
  BY <1>1, Always, PTL

\* doSync() sends a message again only as a client that still has it, after the retry
\* interval and within the retry duration, unless it was asked to suspend or abort.
THEOREM RetryPaceHolds == Spec => []RetryPace
<1>1. IInv => RetryPace
  <2> SUFFICES ASSUME IInv, loop.pc = "send", loop.cmd = "RESENDDATA", flags.state = "NORMAL"
               PROVE  /\ loop.buffer /\ loop.rested /\ ~ServerMode /\ loop.requestNum > 1
                      /\ loop.retries <= loop.waited /\ loop.retries < RetryDuration
    BY DEF RetryPace
  <2>1. agent.kind = "soup"
    BY DEF IInv, Client, AgentType
  <2>2. QED
    BY <2>1 DEF IInv, Clock, Over, ServerMode
<1>2. QED
  BY <1>1, Always, PTL

\* doSync() never returns success after a failure that was not the answer to a request.
THEOREM ErrorReportedHolds == Spec => []ErrorReported
<1>1. IInv => ErrorReported
  BY DEF IInv
<1>2. QED
  BY <1>1, Always, PTL
=============================================================================
