-------------------------- MODULE SyncServerProofs --------------------------
(***************************************************************************)
(* Safety of the session scheduler, proved for every number of clients,    *)
(* sessions and peers. IInv is the inductive invariant. LockHolder and     *)
(* RunningIsProtected are not inductive by themselves: that the session    *)
(* taken from the queue may get the lock depends on what is known of the   *)
(* queue (QueueIdle, QueueOnce), that a session which is being created may *)
(* be enqueued on UnbornIdle and Creating, and that the lock is released   *)
(* before its holder is gone on the order of steps inside doneCb(). That   *)
(* a session which ends has an error depends on Clean: an idle session has *)
(* no helper.                                                              *)
(*                                                                         *)
(* Each state transformer has a lemma that says what it keeps, and how its *)
(* result is related to its argument: who left the queue and got the lock  *)
(* (Turn), what the idle signal said (Quiet, Told), how sessions ended     *)
(* (Outcome). The lemma of an action combines those of the transformers    *)
(* that it applies.                                                        *)
(***************************************************************************)
EXTENDS SyncServerRefinement, QueueTheorems

\* y has the session lives, references, peers and shutdown state of x.
Same(x, y) ==
    /\ y.life = x.life
    /\ y.refs = x.refs
    /\ y.peer = x.peer
    /\ y.shutdownRequested = x.shutdownRequested
    /\ y.fileMod = x.fileMod

\* The timers that end the main loop are the same.
Timers(x, y) == y.shutdownTimer = x.shutdownTimer /\ y.quitPending = x.quitPending

\* Queue, lock and status are the same.
SameLock(x, y) ==
    /\ y.workQueue = x.workQueue
    /\ y.activeSession = x.activeSession
    /\ y.syncSession = x.syncSession
    /\ y.status = x.status

\* The holder of the main lock is the one session that is active or running.
LockIs(x) == \A t \in Sessions : x.activeSession = t <=> x.status[t] \in {"ACTIVE", "RUNNING"}

\* m_syncSession is the running session.
SyncIs(x) == \A t \in Sessions : x.syncSession = t <=> x.status[t] = "RUNNING"

\* The queue holds sessions that were created, and its live entries are idle.
QueueIdle(x) ==
    \A i \in 1..Len(x.workQueue) :
       /\ x.life[x.workQueue[i]] # "unborn"
       /\ x.life[x.workQueue[i]] = "alive" => x.status[x.workQueue[i]] = "IDLE"

\* No session has two entries in the queue.
QueueOnce(x) == \A i, j \in 1..Len(x.workQueue) : x.workQueue[i] = x.workQueue[j] => i = j

\* A session that was not created yet is idle and nobody refers to it.
UnbornIdle(x) ==
    \A t \in Sessions : x.life[t] = "unborn" =>
       x.status[t] = "IDLE" /\ \A c \in Clients : x.refs[t][c] = 0

\* A timer that ends the main loop runs only after a shutdown was requested and
\* while nobody holds the lock; a file modification requests a shutdown.
Ending(x) ==
    /\ x.shutdownTimer \/ x.quitPending => x.activeSession = None /\ x.shutdownRequested
    /\ x.fileMod # "never" => x.shutdownRequested

\* What every transformer keeps between x and its result.
Consistent(x) ==
    LockIs(x) /\ SyncIs(x) /\ QueueIdle(x) /\ QueueOnce(x) /\ UnbornIdle(x) /\ Ending(x)

\* The holder of the lock is alive. Kept apart from Consistent because ~Session()
\* calls doneCb() while the dying session may still hold the lock.
HolderAlive(x) == \A t \in Sessions : x.activeSession = t => x.life[t] = "alive"

\* What changes from x to y when sessions are activated: only queued sessions and
\* those in D change their status, and nobody new gets the lock during a shutdown.
Frame(x, y, D) ==
    /\ Same(x, y)
    /\ x.shutdownRequested => y.activeSession \in {x.activeSession, None}
    /\ Queued(y) \subseteq Queued(x)
    /\ \A t \in Sessions : t \notin Queued(x) \cup D => y.status[t] = x.status[t]

\* s has an entry in front of one of t.
Ahead(x, s, t) == AheadIn(x.workQueue, s, t)

\* Only sessions leave the queue, the others keep their order, and the lock goes to
\* nobody or to a live session that was in front of all which remain in the queue.
Turn(x, y) ==
    /\ \A t \in Sessions : /\ y.life[t] = "alive" => x.life[t] = "alive"
                           /\ y.life[t] = "unborn" <=> x.life[t] = "unborn"
    /\ Queued(y) \subseteq Queued(x)
    /\ \A t, u \in Queued(y) : Ahead(y, t, u) <=> Ahead(x, t, u)
    /\ \/ y.activeSession \in {x.activeSession, None}
       \/ /\ y.activeSession \in Queued(x) \ Queued(y)
          /\ x.life[y.activeSession] = "alive"
          /\ \A t \in Queued(y) : Ahead(x, y.activeSession, t)

\* An idle server stays idle, "idle" is only signalled when it is, and "busy" never.
Quiet(x, y) ==
    /\ IsIdle(x) => IsIdle(y)
    /\ x.idleSeen => y.idleSeen
    /\ y.idleSeen => x.idleSeen \/ IsIdle(y)

\* A server which becomes idle signals that.
Told(x, y) == IsIdle(y) => y.idleSeen \/ (IsIdle(x) /\ ~x.idleSeen)

\* An idle session has no error and no helper.
Clean(x) ==
    \A t \in Sessions : x.status[t] = "IDLE" => x.error[t] = "none" /\ x.proc[t] = "none"

\* Errors stay, and a session which ends has one unless it is in E.
Outcome(x, y, E) ==
    Clean(x) =>
       /\ Clean(y)
       /\ \A t \in Sessions : x.error[t] # "none" => y.error[t] = x.error[t]
       /\ \A t \in Sessions \ E :
             x.status[t] # "DONE" /\ y.status[t] = "DONE" => y.error[t] # "none"

\* No reply of a helper is consumed, and no session ends without error.
Calm(x, y) == y.reply = x.reply /\ Outcome(x, y, {})

\* What checkQueue() and its callers do to the queue, the lock and the sessions.
Course(x, y, E) == Turn(x, y) /\ Quiet(x, y) /\ y.reply = x.reply /\ Outcome(x, y, E)

\* What a handler does that adds no session to the queue.
Move(x, y, E) == Turn(x, y) /\ Quiet(x, y) /\ Told(x, y) /\ Outcome(x, y, E)

\* s was activated in an idle x, but could not be started.
FailedNow(x, y, s) == IsIdle(x) /\ y.status[s] = "DONE" /\ y.proc[s] = "quit"

\* u is x with a live s that was added to the queue, behind all live entries.
Joined(x, s, u) ==
    /\ \A t \in Sessions : u.life[t] = IF t = s THEN "alive" ELSE x.life[t]
    /\ u.activeSession = x.activeSession
    /\ Queued(u) = Queued(x) \cup {s}
    /\ ~Ahead(u, s, s)
    /\ \A t, v \in Queued(x) : Ahead(u, t, v) <=> Ahead(x, t, v)
    /\ \A t \in Queued(x) : x.life[t] = "alive" => Ahead(u, t, s) /\ ~Ahead(u, s, t)

-----------------------------------------------------------------------------
(* The inductive invariant. *)

\* Of the live sessions of a peer at most one is queued.
PeerOnce(x) ==
    \A s, t \in Queued(x) :
       /\ x.life[s] = "alive" /\ x.life[t] = "alive"
       /\ x.peer[s] # None /\ x.peer[s] = x.peer[t]
       => s = t

\* The last signal was "idle" only if the server is.
Heard(x) == x.idleSeen => IsIdle(x)

\* The state part of the inductive invariant.
Good(x) == x \in State /\ Consistent(x) /\ HolderAlive(x) /\ PeerOnce(x) /\ Heard(x)

\* While killSessionsAsync() runs for a new session, that session is alive, idle
\* and not queued yet.
Creating ==
    pc.loop = "kill" =>
       /\ pc.who \in Sessions
       /\ srv.life[pc.who] = "alive"
       /\ srv.status[pc.who] = "IDLE"
       /\ pc.who \notin Queued(srv)

\* The inductive invariant.
IInv == Good(srv) /\ Clean(srv) /\ pc \in PC /\ Creating

\* The step form of NoActivationAfterShutdown.
LockKept == srv.shutdownRequested => srv'.activeSession \in {srv.activeSession, None}

\* The sessions whose helper's answer a step handles.
Answered == {t \in Sessions : srv.reply[t] /\ ~srv'.reply[t]}

\* What a step keeps of the state.
Preserved == Good(srv') /\ LockKept /\ Outcome(srv, srv', Answered)

\* A step that adds no session to the queue.
Moved == Good(srv') /\ LockKept /\ Move(srv, srv', Answered)

\* A step that adds s to the queue; if the server is idle then, it says so unless it
\* was idle and s could not be started.
Came(s) ==
    /\ Preserved
    /\ \E u : Joined(srv, s, u) /\ Turn(u, srv')
    /\ IsIdle(srv') => srv'.idleSeen \/ StartFailed

\* A step that only creates s.
Created(s) ==
    /\ Preserved
    /\ \A t \in Sessions : srv'.life[t] = IF t = s THEN "alive" ELSE srv.life[t]
    /\ srv'.workQueue = srv.workQueue /\ srv'.activeSession = srv.activeSession

\* The step form of IdleSignalAccurate.
SignalKept == IdleSignalled => IdleSignalled' \/ StartFailed

\* What a step does to those who wait: nobody arrives, the new session or the one
\* for which killSessionsAsync() ran arrives, or one is created that will.
Moves ==
    \/ Turn(srv, srv') /\ (pc' = pc \/ (pc.loop # "kill" /\ pc'.loop # "kill"))
    \/ \E s \in Sessions :
          /\ Came(s) /\ pc'.loop # "kill"
          /\ IF pc.loop = "kill" THEN pc.who = s ELSE srv.life[s] = "unborn"
    \/ \E s \in Sessions :
          /\ Created(s) /\ srv.life[s] = "unborn"
          /\ pc.loop # "kill" /\ pc' = [loop |-> "kill", who |-> s]

-----------------------------------------------------------------------------
(* Lemmas about the relations. *)

\* Status, errors and helpers are the same.
LEMMA SameOutcome ==
    ASSUME NEW x, NEW y, NEW E, y.status = x.status, y.error = x.error, y.proc = x.proc
    PROVE  Outcome(x, y, E)
BY DEF Outcome, Clean

\* Outcomes of two steps.
LEMMA OutcomeTrans ==
    ASSUME NEW x, NEW u, NEW y, NEW E, NEW G, NEW H, Outcome(x, u, E), Outcome(u, y, G),
           E \subseteq H, G \subseteq H
    PROVE  Outcome(x, y, H)
<1> SUFFICES ASSUME Clean(x)
             PROVE  /\ Clean(y)
                    /\ \A t \in Sessions : x.error[t] # "none" => y.error[t] = x.error[t]
                    /\ \A t \in Sessions \ H :
                          x.status[t] # "DONE" /\ y.status[t] = "DONE" => y.error[t] # "none"
  BY DEF Outcome
<1>1. /\ Clean(u)
      /\ \A t \in Sessions : x.error[t] # "none" => u.error[t] = x.error[t]
      /\ \A t \in Sessions \ E :
            x.status[t] # "DONE" /\ u.status[t] = "DONE" => u.error[t] # "none"
  BY DEF Outcome
<1>2. /\ Clean(y)
      /\ \A t \in Sessions : u.error[t] # "none" => y.error[t] = u.error[t]
      /\ \A t \in Sessions \ G :
            u.status[t] # "DONE" /\ y.status[t] = "DONE" => y.error[t] # "none"
  BY <1>1 DEF Outcome
<1> QED
  BY <1>1, <1>2

\* Turns of two steps.
LEMMA TurnTrans ==
    ASSUME NEW x, NEW u, NEW y, Turn(x, u), Turn(u, y), Queued(x) \subseteq Sessions
    PROVE  Turn(x, y)
<1>1. \A t \in Sessions : /\ y.life[t] = "alive" => x.life[t] = "alive"
                          /\ y.life[t] = "unborn" <=> x.life[t] = "unborn"
  BY DEF Turn
<1>2. Queued(y) \subseteq Queued(u) /\ Queued(u) \subseteq Queued(x)
  BY DEF Turn
<1>3. \A t, v \in Queued(y) : Ahead(y, t, v) <=> Ahead(x, t, v)
  BY <1>2 DEF Turn
<1>4. CASE y.activeSession \in {u.activeSession, None}
  BY <1>1, <1>2, <1>3, <1>4 DEF Turn
<1>5. CASE /\ y.activeSession \in Queued(u) \ Queued(y)
           /\ u.life[y.activeSession] = "alive"
           /\ \A t \in Queued(y) : Ahead(u, y.activeSession, t)
  <2>1. y.activeSession \in Queued(x) \ Queued(y)
    BY <1>2, <1>5
  <2>2. x.life[y.activeSession] = "alive"
    BY <1>5, <2>1 DEF Turn
  <2>3. \A t \in Queued(y) : Ahead(x, y.activeSession, t)
    BY <1>2, <1>5 DEF Turn
  <2> QED
    BY <1>1, <1>2, <1>3, <2>1, <2>2, <2>3 DEF Turn
<1> QED
  BY <1>4, <1>5 DEF Turn

\* The course of two steps.
LEMMA CourseTrans ==
    ASSUME NEW x, NEW u, NEW y, NEW E, NEW G, NEW H, Course(x, u, E), Course(u, y, G),
           E \subseteq H, G \subseteq H, Queued(x) \subseteq Sessions
    PROVE  Course(x, y, H)
<1>1. Turn(x, y)
  BY TurnTrans DEF Course
<1>2. Outcome(x, y, H)
  BY OutcomeTrans DEF Course
<1>3. Quiet(x, y)
  BY DEF Course, Quiet
<1> QED
  BY <1>1, <1>2, <1>3 DEF Course

\* A step that touches neither queue nor lock nor the idle signal.
LEMMA StillCourse ==
    ASSUME NEW x, NEW y, NEW E, y.workQueue = x.workQueue, y.activeSession = x.activeSession,
           y.idleSeen = x.idleSeen, y.reply = x.reply, Outcome(x, y, E),
           \A t \in Sessions : /\ y.life[t] = "alive" => x.life[t] = "alive"
                               /\ y.life[t] = "unborn" <=> x.life[t] = "unborn"
    PROVE  Course(x, y, E) /\ Told(x, y)
<1>1. Queued(y) = Queued(x) /\ \A t, u \in Queued(y) : Ahead(y, t, u) <=> Ahead(x, t, u)
  BY DEF Queued, Ahead
<1>2. IsIdle(y) <=> IsIdle(x)
  BY DEF IsIdle
<1> QED
  BY <1>1, <1>2 DEF Course, Turn, Quiet, Told

\* A step that touches neither queue nor lock nor the idle signal.
LEMMA StillMove ==
    ASSUME NEW x, NEW y, NEW E, SameLock(x, y), y.idleSeen = x.idleSeen, Outcome(x, y, E),
           \A t \in Sessions : /\ y.life[t] = "alive" => x.life[t] = "alive"
                               /\ y.life[t] = "unborn" <=> x.life[t] = "unborn"
    PROVE  Move(x, y, E)
<1>1. Queued(y) = Queued(x) /\ \A t, u \in Queued(y) : Ahead(y, t, u) <=> Ahead(x, t, u)
  BY DEF Queued, Ahead, SameLock
<1>2. IsIdle(y) <=> IsIdle(x)
  BY DEF IsIdle, SameLock
<1> QED
  BY <1>1, <1>2 DEF Move, Turn, Quiet, Told, SameLock

\* Moves of two steps.
LEMMA MoveTrans ==
    ASSUME NEW x, NEW u, NEW y, NEW E, NEW G, NEW H, Move(x, u, E), Move(u, y, G),
           E \subseteq H, G \subseteq H, Queued(x) \subseteq Sessions
    PROVE  Move(x, y, H)
<1>1. Turn(x, y)
  BY TurnTrans DEF Move
<1>2. Outcome(x, y, H)
  BY OutcomeTrans DEF Move
<1>3. Quiet(x, y) /\ Told(x, y)
  BY DEF Move, Quiet, Told
<1> QED
  BY <1>1, <1>2, <1>3 DEF Move

\* A move keeps what is known of peers and of the idle signal.
LEMMA MoveKeeps ==
    ASSUME NEW x, NEW y, Turn(x, y), Quiet(x, y), y.peer = x.peer, Queued(x) \subseteq Sessions,
           PeerOnce(x), Heard(x)
    PROVE  PeerOnce(y) /\ Heard(y)
<1>1. Heard(y)
  BY DEF Heard, Quiet
<1>2. \A t \in Queued(y) : t \in Queued(x) /\ (y.life[t] = "alive" => x.life[t] = "alive")
  BY DEF Turn
<1>3. PeerOnce(y)
  BY <1>2 DEF PeerOnce
<1> QED
  BY <1>1, <1>3

-----------------------------------------------------------------------------
(* Lemmas about the transformers: types and fields, then the invariant. *)

\* The types of the fields that the invariant mentions.
LEMMA Types ==
    ASSUME NEW x \in State
    PROVE  /\ x.workQueue \in Seq(Sessions)
           /\ x.activeSession \in Sessions \cup {None}
           /\ x.syncSession \in Sessions \cup {None}
           /\ x.life \in [Sessions -> {"unborn", "alive", "destroyed"}]
           /\ x.status \in [Sessions -> {"IDLE", "ACTIVE", "RUNNING", "DONE"}]
           /\ x.refs \in [Sessions -> [Clients -> 0..MaxAttach]]
           /\ x.shutdownRequested \in BOOLEAN
           /\ x.shutdownTimer \in BOOLEAN
           /\ x.quitPending \in BOOLEAN
BY DEF State

\* Setting one of the flags of a session keeps the type.
LEMMA FlagTypes ==
    ASSUME NEW x \in State, NEW s \in Sessions, NEW b \in BOOLEAN
    PROVE  /\ [x EXCEPT !.delayed[s] = b] \in State
           /\ [x EXCEPT !.wasAborted[s] = b] \in State
           /\ [x EXCEPT !.helper[s] = b] \in State
           /\ [x EXCEPT !.reply[s] = b] \in State
           /\ [x EXCEPT !.closing[s] = b] \in State
<1>1. [x EXCEPT !.delayed[s] = b] \in State
  BY ZenonT(60) DEF State
<1>2. [x EXCEPT !.wasAborted[s] = b] \in State
  BY ZenonT(60) DEF State
<1>3. [x EXCEPT !.helper[s] = b] \in State
  BY ZenonT(60) DEF State
<1>4. [x EXCEPT !.reply[s] = b] \in State
  BY ZenonT(60) DEF State
<1>5. [x EXCEPT !.closing[s] = b] \in State
  BY ZenonT(60) DEF State
<1> QED
  BY <1>1, <1>2, <1>3, <1>4, <1>5

\* Changing the queue changes nothing else.
LEMMA QueueFields ==
    ASSUME NEW x \in State, NEW r \in Seq(Sessions)
    PROVE  LET y == [x EXCEPT !.workQueue = r]
           IN  /\ y \in State /\ Same(x, y) /\ Timers(x, y)
               /\ y.workQueue = r
               /\ y.activeSession = x.activeSession
               /\ y.syncSession = x.syncSession
               /\ y.status = x.status
               /\ y.idleSeen = x.idleSeen /\ Calm(x, y)
<1> DEFINE y == [x EXCEPT !.workQueue = r]
<1>1. y \in State
  BY ZenonT(60) DEF State
<1>2. Same(x, y) /\ Timers(x, y)
  BY DEF State, Same, Timers
<1>3. /\ y.workQueue = r
      /\ y.activeSession = x.activeSession
      /\ y.syncSession = x.syncSession
      /\ y.status = x.status
  BY DEF State
<1>4. y.idleSeen = x.idleSeen /\ Calm(x, y)
  <2>1. y.idleSeen = x.idleSeen /\ y.reply = x.reply /\ y.error = x.error /\ y.proc = x.proc
    BY DEF State
  <2> QED
    BY <1>3, <2>1, SameOutcome DEF Calm
<1> QED
  BY <1>1, <1>2, <1>3, <1>4

\* m_idleSignal affects neither the queue nor the lock.
LEMMA IdleSeenFields ==
    ASSUME NEW x \in State, NEW b \in BOOLEAN
    PROVE  LET y == [x EXCEPT !.idleSeen = b]
           IN  /\ y \in State /\ Same(x, y) /\ Timers(x, y) /\ SameLock(x, y)
               /\ y.idleSeen = b /\ y.proc = x.proc /\ Calm(x, y)
<1> DEFINE y == [x EXCEPT !.idleSeen = b]
<1>1. y \in State
  BY ZenonT(60) DEF State
<1>2. Same(x, y) /\ Timers(x, y) /\ SameLock(x, y)
  BY DEF State, Same, Timers, SameLock
<1>3. y.idleSeen = b /\ y.proc = x.proc /\ Calm(x, y)
  <2>1. /\ y.idleSeen = b /\ y.reply = x.reply /\ y.error = x.error /\ y.proc = x.proc
        /\ y.status = x.status
    BY DEF State
  <2> QED
    BY <2>1, SameOutcome DEF Calm
<1> QED
  BY <1>1, <1>2, <1>3

\* runOperationAsync() makes s the running sync session and keeps the lock as is.
LEMMA RunOperationFields ==
    ASSUME NEW x \in State, NEW s \in Sessions, NEW op \in Operations \cup {"sync"}
    PROVE  LET y == RunOperation(x, s, op)
           IN  /\ y \in State
               /\ Same(x, y) /\ Timers(x, y)
               /\ y.workQueue = x.workQueue
               /\ y.activeSession = x.activeSession
               /\ y.syncSession = s
               /\ y.status = [x.status EXCEPT ![s] = "RUNNING"]
               /\ y.idleSeen = x.idleSeen /\ Calm(x, y)
<1> DEFINE y == RunOperation(x, s, op)
<1>1. y \in State
  BY ZenonT(60) DEF State, RunOperation
<1>2. Same(x, y) /\ Timers(x, y)
  BY SMT DEF State, RunOperation, Same, Timers
<1>3. /\ y.workQueue = x.workQueue
               /\ y.activeSession = x.activeSession
               /\ y.syncSession = s
               /\ y.status = [x.status EXCEPT ![s] = "RUNNING"]
  BY SMT DEF State, RunOperation
<1>4. y.idleSeen = x.idleSeen /\ Calm(x, y)
  <2>1. /\ y.idleSeen = x.idleSeen /\ y.reply = x.reply /\ y.error = x.error
        /\ y.proc = [x.proc EXCEPT ![s] = "starting"]
    BY SMT DEF State, RunOperation
  <2>2. \A t \in Sessions \ {s} : y.status[t] = x.status[t] /\ y.proc[t] = x.proc[t]
    BY <1>3, <2>1 DEF State
  <2>3. y.status[s] = "RUNNING"
    BY <1>3 DEF State
  <2> QED
    BY <2>1, <2>2, <2>3 DEF Calm, Outcome, Clean
<1> QED
  BY <1>1, <1>2, <1>3, <1>4

\* activateSession() gives the lock to s, which becomes active or running.
LEMMA ActivateSessionFields ==
    ASSUME NEW x \in State, NEW s \in Sessions
    PROVE  LET y == ActivateSession(x, s)
           IN  /\ y \in State
               /\ Same(x, y) /\ Timers(x, y)
               /\ y.workQueue = x.workQueue
               /\ y.activeSession = s
               /\ \/ /\ y.syncSession = s
                     /\ y.status = [x.status EXCEPT ![s] = "RUNNING"]
                  \/ /\ y.syncSession = x.syncSession
                     /\ y.status = [x.status EXCEPT ![s] = "ACTIVE"]
               /\ y.idleSeen = x.idleSeen /\ Calm(x, y)
<1> DEFINE z == [x EXCEPT !.activeSession = s,
                    !.status[s] = "ACTIVE",
                    !.syncStatus[s] = IF @ = "QUEUEING" THEN "IDLE" ELSE @]
<1>2. z \in State
  BY ZenonT(60) DEF State
<1>3. Same(x, z) /\ Timers(x, z)
  BY SMT DEF State, Same, Timers
<1>4. /\ z.workQueue = x.workQueue
      /\ z.activeSession = s
      /\ z.syncSession = x.syncSession
      /\ z.status = [x.status EXCEPT ![s] = "ACTIVE"]
  BY SMT DEF State
<1>5. [z.status EXCEPT ![s] = "RUNNING"] = [x.status EXCEPT ![s] = "RUNNING"]
  <2>1. x.status \in [Sessions -> {"IDLE", "ACTIVE", "RUNNING", "DONE"}]
    BY DEF State
  <2> QED BY <1>4, <2>1
<1>9. z.idleSeen = x.idleSeen /\ Calm(x, z)
  <2>1. /\ z.idleSeen = x.idleSeen /\ z.reply = x.reply /\ z.error = x.error
        /\ z.proc = x.proc
    BY SMT DEF State
  <2>2. \A t \in Sessions \ {s} : z.status[t] = x.status[t]
    BY <1>4 DEF State
  <2>3. z.status[s] = "ACTIVE"
    BY <1>4 DEF State
  <2> QED
    BY <2>1, <2>2, <2>3 DEF Calm, Outcome, Clean
<1>6. ActivateSession(x, s) = IF Autostart(x, s) THEN RunOperation(z, s, "sync") ELSE z
  BY DEF ActivateSession
<1> HIDE DEF z
<1>7. CASE Autostart(x, s)
  <2>1. PICK y : y = RunOperation(z, s, "sync")
    OBVIOUS
  <2>2. /\ y \in State /\ Same(z, y) /\ Timers(z, y)
        /\ y.workQueue = z.workQueue /\ y.activeSession = z.activeSession
        /\ y.syncSession = s /\ y.status = [z.status EXCEPT ![s] = "RUNNING"]
        /\ y.idleSeen = z.idleSeen /\ Calm(z, y)
    BY <1>2, <2>1, RunOperationFields
  <2>3. y.idleSeen = x.idleSeen /\ Calm(x, y)
    BY <1>9, <2>2, OutcomeTrans DEF Calm
  <2>4. Same(x, y) /\ Timers(x, y)
    BY <1>3, <2>2 DEF Same, Timers
  <2> QED
    BY <1>4, <1>5, <1>6, <1>7, <2>1, <2>2, <2>3, <2>4
<1>8. CASE ~Autostart(x, s)
  BY <1>2, <1>3, <1>4, <1>6, <1>8, <1>9
<1> QED
  BY <1>7, <1>8

\* Sessions that fail inside activateSession() are done, the lock stays free.
LEMMA ActivateAndFailFields ==
    ASSUME NEW x \in State, NEW S \in SUBSET Sessions
    PROVE  LET y == ActivateAndFail(x, S)
           IN  /\ y \in State
               /\ Same(x, y) /\ Timers(x, y)
               /\ y.workQueue = x.workQueue
               /\ y.activeSession = x.activeSession
               /\ y.syncSession = x.syncSession
               /\ y.status = [t \in Sessions |-> IF t \in S THEN "DONE" ELSE x.status[t]]
               /\ \A t \in S : y.proc[t] = "quit"
               /\ y.idleSeen = x.idleSeen
               /\ (\A t \in S : x.status[t] = "IDLE") => Calm(x, y)
<1> DEFINE y == ActivateAndFail(x, S)
<1>1. y \in State
  <2> DEFINE f1 == [s \in Sessions |-> IF s \in S THEN "DONE" ELSE x.status[s]]
             f2 == [s \in Sessions |-> IF s \in S THEN "DONE" ELSE x.syncStatus[s]]
             f3 == [s \in Sessions |-> IF s \in S THEN "sync" ELSE x.runOperation[s]]
             f4 == [s \in Sessions |-> IF s \in S THEN "failed" ELSE x.error[s]]
             f5 == [s \in Sessions |-> IF s \in S THEN "quit" ELSE x.proc[s]]
             f6 == [s \in Sessions |-> IF s \in S /\ x.conn[s] = "open" THEN "gone" ELSE x.conn[s]]
             f7 == [s \in Sessions |-> s \in S \/ x.delayed[s]]
             f8 == IF x.autoSession \in S THEN None ELSE x.autoSession
  <2>1. /\ f1 \in [Sessions -> {"IDLE", "ACTIVE", "RUNNING", "DONE"}]
        /\ f2 \in [Sessions -> {"QUEUEING", "IDLE", "RUNNING", "ABORT", "SUSPEND", "DONE"}]
        /\ f3 \in [Sessions -> Operations \cup {"sync", None}]
        /\ f4 \in [Sessions -> {"none", "userabort", "failed"}]
        /\ f5 \in [Sessions -> {"none", "starting", "connected", "quit"}]
        /\ f6 \in [Sessions -> {"none", "open", "closing", "gone"}]
        /\ f8 \in Sessions \cup {None}
    BY SMT DEF State
  <2>2. f7 \in [Sessions -> BOOLEAN]
    BY ZenonT(60) DEF State
  <2>3. y = [x EXCEPT !.status = f1, !.syncStatus = f2, !.runOperation = f3, !.error = f4,
                      !.proc = f5, !.conn = f6, !.delayed = f7, !.autoSession = f8]
    BY DEF ActivateAndFail
  <2> HIDE DEF f1, f2, f3, f4, f5, f6, f7, f8, y
  <2> QED
    BY <2>1, <2>2, <2>3, ZenonT(60) DEF State
<1>2. Same(x, y) /\ Timers(x, y)
  BY SMT DEF State, ActivateAndFail, Same, Timers
<1>3.  /\ y.workQueue = x.workQueue
               /\ y.activeSession = x.activeSession
               /\ y.syncSession = x.syncSession
               /\ y.status = [t \in Sessions |-> IF t \in S THEN "DONE" ELSE x.status[t]]
  BY SMT DEF State, ActivateAndFail
<1>4. y.idleSeen = x.idleSeen /\ y.reply = x.reply
  BY SMT DEF State, ActivateAndFail
<1>5. /\ y.error = [t \in Sessions |-> IF t \in S THEN "failed" ELSE x.error[t]]
      /\ y.proc = [t \in Sessions |-> IF t \in S THEN "quit" ELSE x.proc[t]]
  BY SMT DEF State, ActivateAndFail
<1>6. ASSUME \A t \in S : x.status[t] = "IDLE"
      PROVE  Calm(x, y)
  <2> HIDE DEF y
  <2>1. ASSUME NEW t \in Sessions, Clean(x)
        PROVE  /\ y.status[t] = "IDLE" => y.error[t] = "none" /\ y.proc[t] = "none"
               /\ x.error[t] # "none" => y.error[t] = x.error[t]
               /\ x.status[t] # "DONE" /\ y.status[t] = "DONE" => y.error[t] # "none"
    <3>1. CASE t \in S
      <4>1. x.error[t] = "none"
        BY <1>6, <2>1, <3>1 DEF Clean
      <4>2. y.error[t] = "failed" /\ y.status[t] = "DONE"
        BY <1>3, <1>5, <3>1
      <4> QED
        BY <4>1, <4>2
    <3>2. CASE t \notin S
      <4>1. y.error[t] = x.error[t] /\ y.proc[t] = x.proc[t] /\ y.status[t] = x.status[t]
        BY <1>3, <1>5, <3>2
      <4> QED
        BY <2>1, <4>1 DEF Clean
    <3> QED
      BY <3>1, <3>2
  <2>2. Outcome(x, y, {})
    BY <2>1 DEF Outcome, Clean
  <2> QED
    BY <1>4, <2>2 DEF Calm
<1>7. \A t \in S : y.proc[t] = "quit"
  BY <1>5
<1> QED
  BY <1>1, <1>2, <1>3, <1>4, <1>6, <1>7

\* enqueue() adds exactly one entry for a session that has none.
LEMMA InsertEntryProperties ==
    ASSUME NEW x \in State, NEW s \in Sessions, s \notin Queued(x), QueueOnce(x)
    PROVE  LET r == InsertEntry(x, s)
           IN  /\ r \in Seq(Sessions)
               /\ \A i \in 1..Len(r) : r[i] = s \/ r[i] \in Queued(x)
               /\ \A i, j \in 1..Len(r) : r[i] = r[j] => i = j
               /\ \E i \in 1..Len(r) : r[i] = s
               /\ \A t \in Queued(x) : \E i \in 1..Len(r) : r[i] = t
               /\ \A t, v \in Queued(x) : AheadIn(r, t, v) <=> AheadIn(x.workQueue, t, v)
               /\ \A t \in Queued(x) :
                     x.life[t] = "alive" => AheadIn(r, t, s) /\ ~AheadIn(r, s, t)
<1> DEFINE q == x.workQueue
           live == {i \in 1..Len(q) : Alive(x, q[i])}
<1>0. PICK p : p = IF live = {} THEN 1 ELSE Max(live) + 1
  OBVIOUS
<1>1. q \in Seq(Sessions) /\ Len(q) \in Nat
  BY Types
<1>2. p \in 1..(Len(q) + 1)
  <2>1. CASE live = {}
    BY <1>0, <1>1, <2>1
  <2>2. CASE live # {}
    <3>1. live \subseteq 1..Len(q)
      OBVIOUS
    <3>2. p = Max(live) + 1
      BY <1>0, <2>2
    <3> HIDE DEF live
    <3>3. Max(live) \in live
      BY <1>1, <2>2, <3>1, MaxInSet
    <3>4. Max(live) \in 1..Len(q)
      BY <3>1, <3>3
    <3> QED
      BY <1>1, <3>2, <3>4
  <2> QED
    BY <2>1, <2>2
<1>3. PICK r : r = InsertAt(q, p, s)
  OBVIOUS
<1>4. InsertEntry(x, s) = r
  BY <1>0, <1>3 DEF InsertEntry
<1>5. /\ r \in Seq(Sessions) /\ Len(r) = Len(q) + 1
      /\ \A j \in 1..(Len(q) + 1) : r[j] = IF j < p THEN q[j] ELSE IF j = p THEN s ELSE q[j - 1]
  <2> HIDE DEF q
  <2>1. /\ InsertAt(q, p, s) \in Seq(Sessions)
        /\ Len(InsertAt(q, p, s)) = Len(q) + 1
        /\ \A j \in 1..(Len(q) + 1) :
              InsertAt(q, p, s)[j] = IF j < p THEN q[j] ELSE IF j = p THEN s ELSE q[j - 1]
    BY <1>1, <1>2, InsertAtProperties, SMTT(60)
  <2> QED
    BY <1>3, <2>1
<1>6. \A k \in 1..Len(q) : q[k] \in Queued(x)
  BY DEF Queued
<1>7. \A i \in 1..Len(r) : r[i] = s \/ r[i] \in Queued(x)
  BY <1>1, <1>2, <1>5, <1>6
<1>8. ASSUME NEW i \in 1..Len(r), NEW j \in 1..Len(r), r[i] = r[j]
      PROVE  i = j
  <2>1. \A k \in 1..Len(r) : k # p =>
           LET m == IF k < p THEN k ELSE k - 1 IN m \in 1..Len(q) /\ r[k] = q[m]
    BY <1>1, <1>2, <1>5
  <2>2. \A k \in 1..Len(r) : r[k] = s => k = p
    BY <1>6, <2>1
  <2>3. r[p] = s
    BY <1>2, <1>5
  <2>4. CASE i = p \/ j = p
    BY <1>8, <2>2, <2>3, <2>4
  <2>5. CASE i # p /\ j # p
    <3>1. (IF i < p THEN i ELSE i - 1) = (IF j < p THEN j ELSE j - 1)
      BY <1>8, <2>1, <2>5 DEF QueueOnce
    <3> QED
      BY <1>1, <1>2, <1>5, <2>5, <3>1
  <2> QED
    BY <2>4, <2>5
<1>9. \A i \in 1..Len(q) : x.life[q[i]] = "alive" => i < p
  <2>1. ASSUME NEW i \in live
        PROVE  i < p
    <3>1. live \subseteq 1..Len(q) /\ live # {}
      BY <2>1
    <3>2. p = Max(live) + 1
      BY <1>0, <3>1
    <3> HIDE DEF live
    <3>3. Max(live) \in live /\ i <= Max(live)
      BY <1>1, <2>1, <3>1, MaxInSet
    <3>4. live \subseteq Nat
      BY <1>1, <3>1
    <3>5. i \in Nat /\ Max(live) \in Nat
      BY <2>1, <3>3, <3>4
    <3> HIDE DEF q
    <3> QED
      BY <3>2, <3>3, <3>5
  <2> QED
    BY <2>1 DEF Alive
<1>10. /\ \A i, j \in 1..Len(q) : AheadIn(q, q[i], q[j]) <=> AheadIn(r, q[i], q[j])
       /\ \A i \in 1..Len(q) : i < p => AheadIn(r, q[i], s) /\ ~AheadIn(r, s, q[i])
       /\ \E i \in 1..Len(r) : r[i] = s
       /\ \A i \in 1..Len(q) : \E j \in 1..Len(r) : r[j] = q[i]
  <2>1. Once(InsertAt(q, p, s))
    BY <1>3, <1>8 DEF Once
  <2> HIDE DEF q
  <2>2. LET z == InsertAt(q, p, s)
        IN  /\ \A i, j \in 1..Len(q) : AheadIn(q, q[i], q[j]) <=> AheadIn(z, q[i], q[j])
            /\ \A i \in 1..Len(q) : i < p => AheadIn(z, q[i], s) /\ ~AheadIn(z, s, q[i])
            /\ \E i \in 1..Len(z) : z[i] = s
            /\ \A i \in 1..Len(q) : \E j \in 1..Len(z) : z[j] = q[i]
    BY <1>1, <1>2, <2>1, InsertAtOrder, SMTT(60)
  <2> QED
    BY <1>3, <2>2
<1>11. \A t \in Queued(x) : \E i \in 1..Len(q) : t = q[i]
  BY DEF Queued
<1>12. \A t, v \in Queued(x) : AheadIn(r, t, v) <=> AheadIn(q, t, v)
  BY <1>10, <1>11, Zenon
<1>13. \A t \in Queued(x) : \E i \in 1..Len(r) : r[i] = t
  <2> SUFFICES ASSUME NEW t \in Queued(x)
               PROVE  \E i \in 1..Len(r) : r[i] = t
    OBVIOUS
  <2>1. PICK k \in 1..Len(q) : t = q[k]
    BY <1>11
  <2>2. \E j \in 1..Len(r) : r[j] = q[k]
    BY <1>10
  <2> QED
    BY <2>1, <2>2
<1>14. \A t \in Queued(x) : x.life[t] = "alive" => AheadIn(r, t, s) /\ ~AheadIn(r, s, t)
  BY <1>9, <1>10, <1>11, Zenon
<1> QED
  BY <1>4, <1>5, <1>7, <1>8, <1>10, <1>12, <1>13, <1>14

\* dequeue() removes the only entry of a live session.
LEMMA WithoutEntryProperties ==
    ASSUME NEW x \in State, NEW s \in Sessions, QueueOnce(x)
    PROVE  LET r == WithoutEntry(x, s)
           IN  /\ r \in Seq(Sessions)
               /\ \A i \in 1..Len(r) : \E k \in 1..Len(x.workQueue) :
                     r[i] = x.workQueue[k] /\ (x.life[s] = "alive" => r[i] # s)
               /\ \A i, j \in 1..Len(r) : r[i] = r[j] => i = j
               /\ \A i, j \in 1..Len(r) :
                     AheadIn(r, r[i], r[j]) <=> AheadIn(x.workQueue, r[i], r[j])
               /\ x.workQueue = <<>> => r = <<>>
<1> DEFINE q == x.workQueue
<1>1. q \in Seq(Sessions) /\ Len(q) \in Nat
  BY Types
<1>2. CASE ~(Alive(x, s) /\ \E i \in 1..Len(q) : q[i] = s)
  <2>1. WithoutEntry(x, s) = q
    BY <1>2 DEF WithoutEntry
  <2>2. /\ q \in Seq(Sessions)
        /\ \A i \in 1..Len(q) : \E k \in 1..Len(q) :
              q[i] = q[k] /\ (x.life[s] = "alive" => q[i] # s)
        /\ \A i, j \in 1..Len(q) : q[i] = q[j] => i = j
    BY <1>1, <1>2 DEF QueueOnce, Alive
  <2> HIDE DEF q
  <2> QED
    BY <2>1, <2>2 DEF q
<1>3. CASE Alive(x, s) /\ \E i \in 1..Len(q) : q[i] = s
  <2>1. PICK e \in 1..Len(q) : q[e] = s /\ e = CHOOSE i \in 1..Len(q) : q[i] = s
    BY <1>3
  <2>2. PICK r : r = RemoveAt(q, e)
    OBVIOUS
  <2>3. WithoutEntry(x, s) = r
    BY <1>3, <2>1, <2>2 DEF WithoutEntry
  <2>4. /\ r \in Seq(Sessions) /\ Len(r) = Len(q) - 1
        /\ \A j \in 1..(Len(q) - 1) : r[j] = IF j < e THEN q[j] ELSE q[j + 1]
    BY <1>1, <2>1, <2>2, RemoveAtProperties
  <2>5. \A i \in 1..Len(r) :
           LET m == IF i < e THEN i ELSE i + 1
           IN  m \in 1..Len(q) /\ m # e /\ r[i] = q[m]
    <3> SUFFICES ASSUME NEW i \in 1..Len(r)
                 PROVE  LET m == IF i < e THEN i ELSE i + 1
                        IN  m \in 1..Len(q) /\ m # e /\ r[i] = q[m]
      OBVIOUS
    <3>0. i \in 1..(Len(q) - 1) /\ r[i] = IF i < e THEN q[i] ELSE q[i + 1]
      BY <1>1, <2>4
    <3>1. CASE i < e
      <4>1. i \in 1..Len(q) /\ i # e /\ r[i] = q[i]
        BY <1>1, <3>0, <3>1
      <4> QED
        BY <3>1, <4>1
    <3>2. CASE i >= e
      <4>1. i + 1 \in 1..Len(q) /\ i + 1 # e /\ r[i] = q[i + 1] /\ ~(i < e)
        BY <1>1, <3>0, <3>2
      <4> QED
        BY <3>2, <4>1
    <3> QED
      BY <1>1, <2>1, <2>4, <3>1, <3>2
  <2>6. \A i \in 1..Len(r) : \E k \in 1..Len(q) : r[i] = q[k] /\ r[i] # s
    BY <2>1, <2>5 DEF QueueOnce
  <2>7. ASSUME NEW i \in 1..Len(r), NEW j \in 1..Len(r), r[i] = r[j]
        PROVE  i = j
    <3>1. (IF i < e THEN i ELSE i + 1) = (IF j < e THEN j ELSE j + 1)
      BY <2>5, <2>7 DEF QueueOnce
    <3> QED
      BY <1>1, <2>1, <2>4, <3>1
  <2>8. \A i, j \in 1..Len(r) : AheadIn(r, r[i], r[j]) <=> AheadIn(q, r[i], r[j])
    <3>1. Once(q)
      BY DEF QueueOnce, Once
    <3> HIDE DEF q
    <3> QED
      BY <1>1, <2>1, <2>2, <3>1, RemoveAtOrder
  <2>9. q # <<>>
    BY <1>1, <2>1
  <2> HIDE DEF q
  <2> QED
    BY <2>3, <2>4, <2>6, <2>7, <2>8, <2>9 DEF q
<1> QED
  BY <1>2, <1>3

\* Consistent and HolderAlive only depend on the fields of Same, Timers and SameLock.
LEMMA SameConsistent ==
    ASSUME NEW x, NEW y, Same(x, y), Timers(x, y), SameLock(x, y)
    PROVE  /\ Consistent(x) => Consistent(y)
           /\ HolderAlive(x) => HolderAlive(y)
           /\ Queued(y) = Queued(x)
BY DEF Consistent, LockIs, SyncIs, QueueIdle, QueueOnce, UnbornIdle, Ending, HolderAlive,
       Queued, Same, Timers, SameLock

\* checkQueue() keeps the state consistent: the session it activates was idle,
\* alive and not queued twice, and the sessions whose start failed left the queue.
LEMMA CheckQueueConsistent ==
    ASSUME NEW x \in State, NEW F, Consistent(x), HolderAlive(x)
    PROVE  LET y == CheckQueue(x, F)
           IN  /\ y \in State /\ Consistent(y) /\ HolderAlive(y)
               /\ Frame(x, y, {}) /\ Course(x, y, {})
               /\ IsIdle(y) => \A t \in Queued(x) : x.life[t] = "alive" =>
                     y.idleSeen /\ y.status[t] = "DONE" /\ y.proc[t] = "quit"
<1> DEFINE q == x.workQueue
           live == {i \in 1..Len(q) : Alive(x, q[i])}
           ready == {i \in live : ~(q[i] \in F /\ Autostart(x, q[i]))}
           first == IF ready = {} THEN Len(q) + 1 ELSE Min(ready)
           failed == {q[i] : i \in {j \in live : j < first}}
           rest == SubSeq(q, first + 1, Len(q))
           u == [x EXCEPT !.workQueue = rest]
           v == ActivateAndFail(u, failed)
<1>0. q \in Seq(Sessions) /\ Len(q) \in Nat
  BY Types
<1>1. CASE x.activeSession # None
  <2>1. CheckQueue(x, F) = x
    BY <1>1 DEF CheckQueue
  <2>2. Course(x, x, {})
    BY StillCourse, SameOutcome
  <2> QED
    BY <1>1, <2>1, <2>2 DEF Frame, Same, IsIdle
<1>2. CASE x.activeSession = None /\ x.shutdownRequested
  <2> DEFINE w == [x EXCEPT !.quitPending = @ \/ ~x.shutdownTimer]
  <2>1. CheckQueue(x, F) = w
    BY <1>2 DEF CheckQueue
  <2>2. w \in State
    <3>1. PICK b \in BOOLEAN : b = (x.quitPending \/ ~x.shutdownTimer)
      OBVIOUS
    <3>2. [x EXCEPT !.quitPending = b] \in State
      BY ZenonT(60) DEF State
    <3> QED
      BY <3>1, <3>2
  <2>3. /\ Same(x, w) /\ w.workQueue = x.workQueue /\ w.activeSession = x.activeSession
        /\ w.syncSession = x.syncSession /\ w.status = x.status
    BY DEF State, Same
  <2>6. /\ w.idleSeen = x.idleSeen /\ w.reply = x.reply
        /\ w.error = x.error /\ w.proc = x.proc
    BY DEF State
  <2> HIDE DEF w
  <2>7. Course(x, w, {})
    BY <2>3, <2>6, StillCourse, SameOutcome DEF Same
  <2>4. Consistent(w) /\ HolderAlive(w)
    BY <1>2, <2>3 DEF Consistent, LockIs, SyncIs, QueueIdle, QueueOnce, UnbornIdle, Ending,
                      HolderAlive, Same
  <2>5. Frame(x, w, {})
    BY <2>3 DEF Frame, Queued
  <2> QED
    <3>1. IsIdle(w) => Queued(x) = {}
      BY <1>0, <2>3 DEF Queued, IsIdle
    <3> QED
      BY <2>1, <2>2, <2>4, <2>5, <2>7, <3>1
<1>3. CASE x.activeSession = None /\ ~x.shutdownRequested
  <2>1. /\ live \subseteq 1..Len(q) /\ ready \subseteq live
        /\ \A i \in 1..Len(q) : q[i] \in Sessions
    BY <1>0
  <2>2. first \in 1..(Len(q) + 1) /\ (ready # {} => first \in ready)
    <3>1. CASE ready = {}
      BY <1>0, <3>1
    <3>2. CASE ready # {}
      <4>1. ready \subseteq Nat
        BY <2>1, <1>0
      <4> HIDE DEF ready, live
      <4>2. first \in ready
        BY <3>2, <4>1, MinInSet
      <4> HIDE DEF first
      <4> QED
        BY <1>0, <2>1, <4>2
    <3> QED
      BY <3>1, <3>2
  <2> HIDE DEF first
  <2>3. failed \in SUBSET Sessions
    BY <2>1
  <2>4. /\ rest \in Seq(Sessions)
        /\ Len(rest) = IF first + 1 <= Len(q) THEN Len(q) - first ELSE 0
        /\ \A i \in 1..(Len(q) - first) : rest[i] = q[first + i]
    <3>1. first + 1 \in Int /\ Len(q) \in Int /\ \A i \in (first + 1)..Len(q) : q[i] \in Sessions
      BY <1>0, <2>2
    <3> QED
      BY <1>0, <2>2, <3>1, SubSeqProperties
  <2>5. /\ Len(rest) \in Nat /\ 1..Len(rest) \subseteq 1..(Len(q) - first)
        /\ \A i \in 1..Len(rest) : rest[i] = q[first + i] /\ first + i \in 1..Len(q)
    BY <1>0, <2>2, <2>4
  <2> HIDE DEF rest
  <2>6. /\ u \in State /\ Same(x, u) /\ Timers(x, u)
        /\ u.workQueue = rest /\ u.activeSession = None
        /\ u.syncSession = x.syncSession /\ u.status = x.status
        /\ u.idleSeen = x.idleSeen /\ Calm(x, u)
    <3>1. u \in State
      BY <2>4, ZenonT(60) DEF State
    <3>2. Same(x, u) /\ Timers(x, u)
      BY DEF State, Same, Timers
    <3>3. /\ u.workQueue = rest /\ u.activeSession = None
          /\ u.syncSession = x.syncSession /\ u.status = x.status
      BY <1>3 DEF State
    <3>4. u.idleSeen = x.idleSeen /\ Calm(x, u)
      BY <2>4, QueueFields
    <3> QED
      BY <3>1, <3>2, <3>3, <3>4
  <2> HIDE DEF u
  <2>7. /\ v \in State /\ Same(u, v) /\ Timers(u, v)
        /\ v.workQueue = rest /\ v.activeSession = None
        /\ v.syncSession = x.syncSession
        /\ v.status = [t \in Sessions |-> IF t \in failed THEN "DONE" ELSE x.status[t]]
        /\ v.idleSeen = x.idleSeen
        /\ (\A t \in failed : x.status[t] = "IDLE") => Calm(u, v)
    <3> HIDE DEF failed
    <3> QED
      BY <2>3, <2>6, ActivateAndFailFields
  <2>16. \A t \in failed : v.proc[t] = "quit"
    <3> HIDE DEF failed
    <3> QED
      BY <2>3, <2>6, ActivateAndFailFields
  <2>8. \A t \in failed : x.status[t] = "IDLE" /\ x.life[t] = "alive" /\ t \in Queued(x)
    BY <2>1 DEF Consistent, QueueIdle, Alive, Queued
  <2>9. \A i \in 1..Len(rest) : rest[i] \notin failed
    BY <1>0, <2>1, <2>2, <2>5 DEF Consistent, QueueOnce
  <2> HIDE DEF failed, v
  <2>10. Consistent(v)
    <3>1. LockIs(v)
      BY <1>3, <2>7, <2>8, Types DEF Consistent, LockIs
    <3>2. SyncIs(v)
      BY <2>7, <2>8, Types DEF Consistent, SyncIs
    <3>3. QueueIdle(v)
      <4>1. v.life = x.life
        BY <2>6, <2>7 DEF Same
      <4>2. \A i \in 1..Len(rest) : v.status[rest[i]] = x.status[rest[i]]
        BY <2>1, <2>5, <2>7, <2>9
      <4>3. \A i \in 1..Len(rest) :
               /\ x.life[rest[i]] # "unborn"
               /\ x.life[rest[i]] = "alive" => x.status[rest[i]] = "IDLE"
        BY <2>5 DEF Consistent, QueueIdle
      <4> QED
        BY <2>7, <4>1, <4>2, <4>3 DEF QueueIdle
    <3>4. QueueOnce(v)
      <4>1. ASSUME NEW i \in 1..Len(rest), NEW j \in 1..Len(rest), rest[i] = rest[j]
            PROVE  i = j
        <5>1. first + i = first + j
          BY <2>5, <4>1 DEF Consistent, QueueOnce
        <5> QED
          BY <1>0, <2>2, <2>5, <5>1
      <4> QED
        BY <2>7, <4>1 DEF QueueOnce
    <3>5. UnbornIdle(v)
      BY <2>6, <2>7, <2>8, Types DEF Consistent, UnbornIdle, Same
    <3>6. Ending(v)
      BY <1>3, <2>6, <2>7 DEF Consistent, Ending, Same, Timers
    <3> QED
      BY <3>1, <3>2, <3>3, <3>4, <3>5, <3>6 DEF Consistent
  <2>11. /\ Same(x, v) /\ Queued(v) \subseteq Queued(x)
         /\ \A t \in Sessions : t \notin Queued(x) => v.status[t] = x.status[t]
    <3>1. Same(x, v)
      BY <2>6, <2>7 DEF Same
    <3>2. Queued(v) \subseteq Queued(x)
      BY <2>5, <2>7 DEF Queued
    <3>3. \A t \in Sessions : t \notin Queued(x) => v.status[t] = x.status[t]
      BY <2>7, <2>8
    <3> QED
      BY <3>1, <3>2, <3>3
  <2>14. Calm(x, v)
    BY <2>6, <2>7, <2>8, OutcomeTrans DEF Calm
  <2>15. \A i, j \in 1..Len(rest) : AheadIn(rest, rest[i], rest[j]) <=> AheadIn(q, rest[i], rest[j])
    <3>1. Once(q) /\ first \in Nat
      BY <1>0, <2>2 DEF Consistent, QueueOnce, Once
    <3> HIDE DEF q
    <3> QED
      BY <1>0, <2>4, <2>5, <3>1, SuffixOrder
  <2>12. CASE ready = {}
    <3> DEFINE w == [v EXCEPT !.idleSeen = @ \/ failed # {}]
    <3>1. CheckQueue(x, F) = w
      BY <1>3, <2>12 DEF CheckQueue, v, u, rest, failed, first
    <3>2. (v.idleSeen \/ failed # {}) \in BOOLEAN
      OBVIOUS
    <3>3. /\ w \in State /\ Same(v, w) /\ Timers(v, w) /\ SameLock(v, w) /\ Calm(v, w)
          /\ w.idleSeen = (v.idleSeen \/ failed # {}) /\ w.proc = v.proc
      BY <2>7, <3>2, IdleSeenFields
    <3> HIDE DEF w
    <3>5. Consistent(w) /\ HolderAlive(w)
      BY <2>7, <2>10, <3>3, ServerAssumption
         DEF Consistent, LockIs, SyncIs, QueueIdle, QueueOnce, UnbornIdle, Ending, HolderAlive,
             Same, Timers, SameLock
    <3>6. Frame(x, w, {})
      BY <1>3, <2>7, <2>11, <3>3 DEF Frame, Same, Queued, SameLock
    <3>7. rest = <<>>
      <4>1. first = Len(q) + 1
        BY <2>12 DEF first
      <4>2. Len(rest) = 0
        BY <1>0, <2>4, <4>1
      <4> QED
        BY <2>4, <4>2
    <3>8. w.activeSession = None /\ w.workQueue = <<>> /\ Queued(w) = {}
      BY <2>7, <3>3, <3>7 DEF SameLock, Queued
    <3>9. Turn(x, w)
      BY <3>6, <3>8 DEF Turn, Frame, Same
    <3>10. Quiet(x, w)
      BY <2>7, <3>3, <3>8 DEF Quiet, IsIdle
    <3>11. Course(x, w, {})
      BY <2>14, <3>3, <3>9, <3>10, OutcomeTrans DEF Course, Calm
    <3> QED
      <4>1. ASSUME NEW t \in Queued(x), x.life[t] = "alive"
            PROVE  w.idleSeen /\ w.status[t] = "DONE" /\ w.proc[t] = "quit"
        <5>1. PICK i \in 1..Len(q) : t = q[i]
          BY <4>1 DEF Queued
        <5>2. i \in live /\ first = Len(q) + 1
          BY <2>12, <4>1, <5>1 DEF Alive, first
        <5>3. i < first
          BY <1>0, <5>2
        <5>4. t \in failed
          BY <5>1, <5>2, <5>3 DEF failed
        <5> QED
          BY <2>3, <2>7, <2>16, <3>3, <5>4 DEF SameLock
      <4> QED
        BY <3>1, <3>3, <3>5, <3>6, <3>11, <4>1
  <2>13. CASE ready # {}
    <3> DEFINE s == q[first]
               w == ActivateSession(v, s)
    <3>1. CheckQueue(x, F) = w
      BY <1>3, <2>13 DEF CheckQueue, v, u, rest, failed, first
    <3>2. /\ s \in Sessions /\ x.life[s] = "alive" /\ x.status[s] = "IDLE"
          /\ s \in Queued(x) /\ s \notin failed
          /\ \A i \in 1..Len(rest) : rest[i] # s
      <4>1. first \in 1..Len(q) /\ Alive(x, q[first])
        BY <2>1, <2>2, <2>13
      <4>2. s \in Sessions /\ x.life[s] = "alive" /\ x.status[s] = "IDLE" /\ s \in Queued(x)
        BY <2>1, <4>1 DEF Consistent, QueueIdle, Alive, Queued
      <4>3. s \notin failed
        BY <1>0, <4>1 DEF Consistent, QueueOnce, failed
      <4>4. \A i \in 1..Len(rest) : rest[i] # s
        BY <1>0, <2>5, <4>1 DEF Consistent, QueueOnce
      <4> QED
        BY <4>2, <4>3, <4>4
    <3> HIDE DEF s
    <3>3. /\ w \in State /\ Same(v, w) /\ Timers(v, w)
          /\ w.workQueue = rest /\ w.activeSession = s
          /\ \/ /\ w.syncSession = s
                /\ w.status = [v.status EXCEPT ![s] = "RUNNING"]
             \/ /\ w.syncSession = v.syncSession
                /\ w.status = [v.status EXCEPT ![s] = "ACTIVE"]
          /\ w.idleSeen = v.idleSeen /\ Calm(v, w)
      BY <2>7, <3>2, ActivateSessionFields
    <3> HIDE DEF w
    <3>4. LockIs(w)
      BY <2>7, <2>10, <3>2, <3>3, ServerAssumption, Types DEF Consistent, LockIs
    <3>20. /\ \A t \in Sessions \ {s} : w.status[t] = v.status[t]
           /\ \A t \in Sessions : v.status[t] # "RUNNING" /\ v.syncSession # t
      BY <2>7, <2>10, <3>2, <3>3, ServerAssumption, Types DEF Consistent, LockIs, SyncIs
    <3>21. w.status[s] = IF w.syncSession = s THEN "RUNNING" ELSE "ACTIVE"
      BY <2>7, <3>2, <3>3, <3>20, Types
    <3>22. w.syncSession \in {s, v.syncSession}
      BY <3>3
    <3>5. SyncIs(w)
      BY <3>2, <3>20, <3>21, <3>22 DEF SyncIs
    <3>6. QueueIdle(w)
      BY <2>5, <2>7, <2>10, <3>2, <3>3, Types DEF Consistent, QueueIdle, Same
    <3>7. QueueOnce(w)
      BY <2>7, <2>10, <3>3 DEF Consistent, QueueOnce
    <3>8. UnbornIdle(w)
      <4>1. ASSUME NEW t \in Sessions, w.life[t] = "unborn"
            PROVE  w.status[t] = v.status[t] /\ v.life[t] = "unborn"
        BY <2>6, <2>7, <3>2, <3>3, <4>1, Types DEF Same
      <4> QED
        BY <2>10, <3>3, <4>1 DEF Consistent, UnbornIdle, Same
    <3>9. Ending(w)
      BY <1>3, <2>6, <2>7, <2>10, <3>3 DEF Consistent, Ending, Same, Timers
    <3>10. HolderAlive(w)
      BY <2>11, <3>2, <3>3 DEF HolderAlive, Same
    <3>11. Frame(x, w, {})
      <4>1. Queued(w) = Queued(v)
        BY <2>7, <3>3 DEF Queued
      <4>2. Same(x, w) /\ Queued(w) \subseteq Queued(x)
        BY <2>11, <3>3, <4>1 DEF Same
      <4>3. \A t \in Sessions : t \notin Queued(x) => w.status[t] = x.status[t]
        BY <2>11, <3>2, <3>20
      <4> QED
        BY <1>3, <4>2, <4>3 DEF Frame
    <3>12. /\ first \in 1..Len(q) /\ s = q[first]
      BY <2>1, <2>2, <2>13 DEF s
    <3>13. \A t \in Queued(w) : \E i \in 1..Len(rest) : t = rest[i]
      BY <3>3 DEF Queued
    <3>14. \A t, z \in Queued(w) : Ahead(w, t, z) <=> Ahead(x, t, z)
      BY <2>15, <3>3, <3>13 DEF Ahead
    <3>15. \A t \in Queued(w) : Ahead(x, s, t)
      <4> SUFFICES ASSUME NEW t \in Queued(w)
                   PROVE  Ahead(x, s, t)
        OBVIOUS
      <4>1. PICK i \in 1..Len(rest) : t = rest[i]
        BY <3>13
      <4>2. first + i \in 1..Len(q) /\ t = q[first + i] /\ first < first + i
        BY <1>0, <2>2, <2>5, <4>1
      <4> QED
        BY <3>12, <4>2 DEF Ahead, AheadIn
    <3>16. s \notin Queued(w)
      BY <3>2, <3>13
    <3>17. Turn(x, w)
      BY <3>2, <3>3, <3>11, <3>14, <3>15, <3>16 DEF Turn, Frame, Same
    <3>18. Quiet(x, w)
      <4>1. q # <<>>
        BY <1>0, <3>12
      <4> QED
        BY <2>7, <3>3, <4>1 DEF Quiet, IsIdle
    <3>19. Course(x, w, {})
      BY <2>14, <3>3, <3>17, <3>18, OutcomeTrans DEF Course, Calm
    <3> QED
      <4>1. ~IsIdle(w)
        BY <3>2, <3>3, ServerAssumption DEF IsIdle
      <4> QED
        BY <3>1, <3>3, <3>4, <3>5, <3>6, <3>7, <3>8, <3>9, <3>10, <3>11, <3>19, <4>1 DEF Consistent
  <2> QED
    BY <2>12, <2>13
<1> QED
  BY <1>1, <1>2, <1>3, Types

\* enqueue() of a new idle session keeps the state consistent.
LEMMA EnqueueConsistent ==
    ASSUME NEW x \in State, NEW s \in Sessions, NEW F, Consistent(x), HolderAlive(x),
           x.life[s] = "alive", x.status[s] = "IDLE", s \notin Queued(x)
    PROVE  LET y == Enqueue(x, s, F)
           IN  /\ y \in State /\ Consistent(y) /\ HolderAlive(y)
               /\ x.shutdownRequested => y.activeSession \in {x.activeSession, None}
               /\ Same(x, y) /\ Calm(x, y)
               /\ (x.idleSeen => IsIdle(x)) => (y.idleSeen => IsIdle(y))
               /\ IsIdle(y) => y.idleSeen \/ FailedNow(x, y, s)
               /\ \E u : Joined(x, s, u) /\ Turn(u, y)
<1>1. PICK r : r = InsertEntry(x, s)
  OBVIOUS
<1>2. /\ r \in Seq(Sessions)
      /\ \A i \in 1..Len(r) : r[i] = s \/ r[i] \in Queued(x)
      /\ \A i, j \in 1..Len(r) : r[i] = r[j] => i = j
      /\ \E i \in 1..Len(r) : r[i] = s
      /\ \A t \in Queued(x) : \E i \in 1..Len(r) : r[i] = t
      /\ \A t, v \in Queued(x) : AheadIn(r, t, v) <=> AheadIn(x.workQueue, t, v)
      /\ \A t \in Queued(x) : x.life[t] = "alive" => AheadIn(r, t, s) /\ ~AheadIn(r, s, t)
  BY <1>1, InsertEntryProperties DEF Consistent
<1>3. PICK u : u = [x EXCEPT !.workQueue = r]
  OBVIOUS
<1>4. /\ u \in State /\ Same(x, u) /\ Timers(x, u)
      /\ u.workQueue = r
      /\ u.activeSession = x.activeSession
      /\ u.syncSession = x.syncSession
      /\ u.status = x.status
      /\ u.idleSeen = x.idleSeen /\ Calm(x, u)
  BY <1>2, <1>3, QueueFields
<1>13. Queued(u) = Queued(x) \cup {s}
  <2>1. Queued(u) = {r[i] : i \in 1..Len(r)}
    BY <1>4 DEF Queued
  <2>2. s \in {r[i] : i \in 1..Len(r)}
    BY <1>2
  <2>3. \A t \in Queued(x) : t \in {r[i] : i \in 1..Len(r)}
    BY <1>2
  <2>4. \A t \in {r[i] : i \in 1..Len(r)} : t = s \/ t \in Queued(x)
    BY <1>2
  <2> QED
    BY <2>1, <2>2, <2>3, <2>4, Zenon
<1>14. Joined(x, s, u)
  <2>1. \A t \in Sessions : u.life[t] = IF t = s THEN "alive" ELSE x.life[t]
    BY <1>4 DEF Same
  <2>2. ~Ahead(u, s, s)
    BY <1>2, <1>4 DEF Ahead, AheadIn
  <2> QED
    BY <1>2, <1>4, <1>13, <2>1, <2>2 DEF Joined, Ahead
<1>5. \A t \in Queued(x) : x.life[t] # "unborn" /\ (x.life[t] = "alive" => x.status[t] = "IDLE")
  BY DEF Queued, Consistent, QueueIdle
<1>6. Consistent(u) /\ HolderAlive(u)
  <2>1. QueueIdle(u)
    BY <1>2, <1>4, <1>5 DEF QueueIdle, Same
  <2>2. QueueOnce(u)
    BY <1>2, <1>4 DEF QueueOnce
  <2> QED
    BY <1>4, <2>1, <2>2 DEF Consistent, LockIs, SyncIs, UnbornIdle, Ending, HolderAlive, Same, Timers
<1>7. PICK v : v = CheckQueue(u, F)
  OBVIOUS
<1>8. /\ v \in State /\ Consistent(v) /\ HolderAlive(v) /\ Frame(u, v, {}) /\ Course(u, v, {})
      /\ IsIdle(v) => \A t \in Queued(u) : u.life[t] = "alive" =>
            v.idleSeen /\ v.status[t] = "DONE" /\ v.proc[t] = "quit"
  BY <1>4, <1>6, <1>7, CheckQueueConsistent
<1>9. x.shutdownRequested => v.activeSession \in {x.activeSession, None}
  BY <1>4, <1>8 DEF Frame, Same
<1>10. Enqueue(x, s, F) = IF IsIdle(x) THEN [v EXCEPT !.idleSeen = FALSE] ELSE v
  BY <1>1, <1>3, <1>7 DEF Enqueue, SignalBusy
<1>11. PICK w : w = [v EXCEPT !.idleSeen = FALSE]
  OBVIOUS
<1>12. /\ w \in State /\ Consistent(w) /\ HolderAlive(w) /\ w.activeSession = v.activeSession
       /\ Same(v, w) /\ SameLock(v, w) /\ w.idleSeen = FALSE /\ w.proc = v.proc /\ Calm(v, w)
  <2>1. /\ w \in State /\ Same(v, w) /\ Timers(v, w) /\ SameLock(v, w)
        /\ w.idleSeen = FALSE /\ w.proc = v.proc /\ Calm(v, w)
    BY <1>8, <1>11, IdleSeenFields
  <2> QED
    BY <1>8, <2>1 DEF Consistent, LockIs, SyncIs, QueueIdle, QueueOnce, UnbornIdle, Ending,
                      HolderAlive, Same, Timers, SameLock
<1>15. Same(x, v) /\ Calm(x, v) /\ Turn(u, v)
  <2>1. Calm(u, v) /\ Turn(u, v)
    BY <1>8 DEF Course, Calm
  <2>2. Calm(x, v)
    BY <1>4, <2>1, OutcomeTrans DEF Calm
  <2> QED
    BY <1>4, <1>8, <2>1, <2>2 DEF Frame, Same
<1>16. Same(x, w) /\ Calm(x, w) /\ Turn(u, w)
  <2>1. Calm(x, w)
    BY <1>12, <1>15, OutcomeTrans DEF Calm
  <2>2. Queued(w) = Queued(v) /\ (\A a, b \in Queued(w) : Ahead(w, a, b) <=> Ahead(v, a, b))
    BY <1>12 DEF SameLock, Queued, Ahead
  <2>3. Turn(u, w)
    BY <1>12, <1>15, <2>2 DEF Turn, Same
  <2> QED
    BY <1>12, <1>15, <2>1, <2>3 DEF Same
<1>17. /\ IsIdle(v) => v.idleSeen
       /\ IsIdle(x) /\ IsIdle(w) => FailedNow(x, w, s)
  <2>1. s \in Queued(u) /\ u.life[s] = "alive"
    BY <1>4, <1>13 DEF Same
  <2> QED
    BY <1>8, <1>12, <2>1 DEF SameLock, IsIdle, FailedNow
<1>18. CASE IsIdle(x)
  <2>1. Enqueue(x, s, F) = w
    BY <1>10, <1>11, <1>18
  <2> QED
    BY <1>9, <1>12, <1>14, <1>16, <1>17, <1>18, <2>1
<1>19. CASE ~IsIdle(x)
  <2>1. Enqueue(x, s, F) = v
    BY <1>10, <1>19
  <2>2. ~x.idleSeen => (v.idleSeen => IsIdle(v))
    BY <1>4, <1>8 DEF Course, Quiet
  <2> QED
    BY <1>8, <1>9, <1>14, <1>15, <1>17, <1>19, <2>1, <2>2
<1> QED
  BY <1>18, <1>19

\* dequeue() of a session that is done restores consistency: the lock it may hold
\* is released and handed on, and its entry is removed unless it is being destructed.
LEMMA DequeueConsistent ==
    ASSUME NEW x \in State, NEW s \in Sessions, NEW F,
           \A t \in Sessions \ {s} : x.activeSession = t <=> x.status[t] \in {"ACTIVE", "RUNNING"},
           \A t \in Sessions \ {s} : x.activeSession = t => x.life[t] = "alive",
           SyncIs(x), QueueOnce(x), UnbornIdle(x), Ending(x),
           \A i \in 1..Len(x.workQueue) :
              /\ x.life[x.workQueue[i]] # "unborn"
              /\ x.workQueue[i] # s /\ x.life[x.workQueue[i]] = "alive"
                    => x.status[x.workQueue[i]] = "IDLE",
           x.status[s] = "DONE"
    PROVE  LET y == Dequeue(x, s, F)
           IN  /\ y \in State /\ Consistent(y) /\ HolderAlive(y)
               /\ Frame(x, y, {}) /\ Course(x, y, {}) /\ Told(x, y)
<1>1. PICK r : r = WithoutEntry(x, s)
  OBVIOUS
<1>2. /\ r \in Seq(Sessions)
      /\ \A i \in 1..Len(r) : \E k \in 1..Len(x.workQueue) :
            r[i] = x.workQueue[k] /\ (x.life[s] = "alive" => r[i] # s)
      /\ \A i, j \in 1..Len(r) : r[i] = r[j] => i = j
      /\ \A i, j \in 1..Len(r) : AheadIn(r, r[i], r[j]) <=> AheadIn(x.workQueue, r[i], r[j])
      /\ x.workQueue = <<>> => r = <<>>
  <2>1. LET z == WithoutEntry(x, s)
        IN  /\ z \in Seq(Sessions)
            /\ \A i \in 1..Len(z) : \E k \in 1..Len(x.workQueue) :
                  z[i] = x.workQueue[k] /\ (x.life[s] = "alive" => z[i] # s)
            /\ \A i, j \in 1..Len(z) : z[i] = z[j] => i = j
            /\ \A i, j \in 1..Len(z) :
                  AheadIn(z, z[i], z[j]) <=> AheadIn(x.workQueue, z[i], z[j])
            /\ x.workQueue = <<>> => z = <<>>
    BY WithoutEntryProperties, SMTT(60)
  <2> QED
    BY <1>1, <2>1
<1>3. PICK u : u = [x EXCEPT !.workQueue = r]
  OBVIOUS
<1>4. /\ u \in State /\ Same(x, u) /\ Timers(x, u)
      /\ u.workQueue = r
      /\ u.activeSession = x.activeSession
      /\ u.syncSession = x.syncSession
      /\ u.status = x.status
      /\ u.idleSeen = x.idleSeen /\ Calm(x, u)
  BY <1>2, <1>3, QueueFields
<1>5. x.syncSession # s
  BY DEF SyncIs
<1>6. /\ SyncIs(u) /\ QueueOnce(u) /\ QueueIdle(u) /\ UnbornIdle(u) /\ Ending(u)
      /\ Queued(u) \subseteq Queued(x)
  <2>1. QueueIdle(u)
    BY <1>2, <1>4 DEF QueueIdle, Same
  <2>2. Queued(u) \subseteq Queued(x)
    BY <1>2, <1>4 DEF Queued
  <2>3. QueueOnce(u)
    BY <1>2, <1>4 DEF QueueOnce
  <2> QED
    BY <1>4, <2>1, <2>2, <2>3 DEF SyncIs, UnbornIdle, Ending, Same, Timers
<1>14. Queued(x) \subseteq Sessions
  BY Types DEF Queued
<1>15. Course(x, u, {})
  <2>1. \A t \in Queued(u) : \E i \in 1..Len(r) : t = r[i]
    BY <1>4 DEF Queued
  <2>2. \A t, z \in Queued(u) : Ahead(u, t, z) <=> Ahead(x, t, z)
    BY <1>2, <1>4, <2>1 DEF Ahead
  <2>3. Turn(x, u)
    BY <1>4, <1>6, <2>2 DEF Turn, Same
  <2>4. Quiet(x, u)
    BY <1>2, <1>4 DEF Quiet, IsIdle
  <2> QED
    BY <1>4, <2>3, <2>4 DEF Course, Calm
<1>7. PICK v : v = IF x.activeSession = s THEN ReleaseLock(u, F) ELSE u
  OBVIOUS
<1>8. v \in State /\ Consistent(v) /\ HolderAlive(v) /\ Frame(x, v, {}) /\ Course(x, v, {})
  <2>1. CASE x.activeSession = s
    <3>1. PICK w : w = [u EXCEPT !.activeSession = None,
                                 !.shutdownTimer = @ \/ u.fileMod = "recent"]
      OBVIOUS
    <3>2. w \in State
      <4>1. PICK b \in BOOLEAN : b = (u.shutdownTimer \/ u.fileMod = "recent")
        OBVIOUS
      <4>2. w = [u EXCEPT !.activeSession = None, !.shutdownTimer = b]
        BY <3>1, <4>1
      <4> QED
        BY <1>4, <4>2, ZenonT(60) DEF State
    <3>3. Same(u, w) /\ w.workQueue = u.workQueue /\ w.status = u.status
      BY <1>4, <3>1 DEF State, Same
    <3>4. /\ w.activeSession = None /\ w.syncSession = u.syncSession
          /\ w.quitPending = u.quitPending
      BY <1>4, <3>1 DEF State
    <3>5. w.shutdownTimer => u.shutdownTimer \/ u.fileMod = "recent"
      BY <1>4, <3>1 DEF State
    <3>6. LockIs(w) /\ HolderAlive(w)
      BY <1>4, <2>1, <3>3, <3>4, ServerAssumption DEF LockIs, HolderAlive
    <3>7. Consistent(w)
      BY <1>6, <3>3, <3>4, <3>5, <3>6
         DEF Consistent, SyncIs, QueueIdle, QueueOnce, UnbornIdle, Ending, Same
    <3>8. v = CheckQueue(w, F)
      BY <1>7, <2>1, <3>1 DEF ReleaseLock
    <3>9. v \in State /\ Consistent(v) /\ HolderAlive(v) /\ Frame(w, v, {}) /\ Course(w, v, {})
      BY <3>2, <3>6, <3>7, <3>8, CheckQueueConsistent
    <3>10. Queued(w) = Queued(u)
      BY <3>3 DEF Queued
    <3>11. Frame(x, v, {})
      BY <1>4, <1>6, <3>3, <3>4, <3>9, <3>10 DEF Frame, Same
    <3>12. /\ w.idleSeen = u.idleSeen /\ w.reply = u.reply
           /\ w.error = u.error /\ w.proc = u.proc
      BY <1>4, <3>1 DEF State
    <3>13. Course(u, w, {})
      <4>1. Turn(u, w)
        BY <3>3, <3>4, <3>10 DEF Turn, Ahead, Same
      <4>2. Quiet(u, w)
        BY <3>3, <3>4, <3>12 DEF Quiet, IsIdle
      <4> QED
        BY <3>3, <3>12, <4>1, <4>2, SameOutcome DEF Course
    <3>14. Queued(u) \subseteq Sessions
      BY <1>6, <1>14
    <3>15. Course(u, v, {})
      BY <3>9, <3>13, <3>14, CourseTrans
    <3>16. Course(x, v, {})
      BY <1>14, <1>15, <3>15, CourseTrans
    <3> QED
      BY <3>9, <3>11, <3>16
  <2>2. CASE x.activeSession # s
    <3>1. v = u
      BY <1>7, <2>2
    <3>2. LockIs(u) /\ HolderAlive(u)
      BY <1>4, <2>2 DEF LockIs, HolderAlive, Same
    <3>3. Frame(x, u, {})
      BY <1>4, <1>6 DEF Frame
    <3> QED
      BY <1>4, <1>6, <1>15, <3>1, <3>2, <3>3 DEF Consistent
  <2> QED
    BY <2>1, <2>2
<1>9. Dequeue(x, s, F) = IF ~IsIdle(x) /\ IsIdle(v) THEN [v EXCEPT !.idleSeen = TRUE] ELSE v
  BY <1>1, <1>3, <1>5, <1>7 DEF Dequeue, SignalIdle
<1>10. PICK z : z = [v EXCEPT !.idleSeen = TRUE]
  OBVIOUS
<1>11. /\ z \in State /\ Same(v, z) /\ Timers(v, z) /\ SameLock(v, z)
       /\ z.idleSeen = TRUE /\ Calm(v, z)
  BY <1>8, <1>10, IdleSeenFields
<1>12. Consistent(z) /\ HolderAlive(z) /\ Queued(z) = Queued(v)
  BY <1>8, <1>11, SameConsistent
<1>13. Frame(x, z, {})
  BY <1>8, <1>11, <1>12 DEF Frame, Same, SameLock
<1>16. CASE ~IsIdle(x) /\ IsIdle(v)
  <2>1. IsIdle(z)
    BY <1>11, <1>16 DEF IsIdle, SameLock
  <2>2. Turn(v, z)
    BY <1>11, <1>12 DEF Turn, Ahead, Same, SameLock
  <2>3. Course(v, z, {})
    BY <1>11, <2>1, <2>2 DEF Course, Calm, Quiet
  <2>4. Course(x, z, {})
    BY <1>8, <1>14, <2>3, CourseTrans
  <2>5. Told(x, z)
    BY <1>11 DEF Told
  <2>6. Dequeue(x, s, F) = z
    BY <1>9, <1>10, <1>16
  <2> QED
    BY <1>11, <1>12, <1>13, <2>4, <2>5, <2>6
<1>17. CASE ~(~IsIdle(x) /\ IsIdle(v))
  <2>1. Dequeue(x, s, F) = v
    BY <1>9, <1>17
  <2>2. Told(x, v)
    BY <1>8, <1>17 DEF Told, Course, Quiet
  <2> QED
    BY <1>8, <2>1, <2>2
<1> QED
  BY <1>16, <1>17

\* doneCb() leaves a consistent state, also for the dying holder of the lock.
LEMMA DoneCbConsistent ==
    ASSUME NEW x \in State, NEW s \in Sessions, NEW success, NEW F, Consistent(x),
           x.life[s] # "unborn",
           \A t \in Sessions \ {s} : x.activeSession = t => x.life[t] = "alive"
    PROVE  LET y == DoneCb(x, s, success, F)
           IN  /\ y \in State /\ Consistent(y) /\ HolderAlive(y) /\ Frame(x, y, {s})
               /\ Course(x, y, IF success THEN {s} ELSE {}) /\ Told(x, y)
<1>0. PICK E : E = IF success THEN {s} ELSE {}
  OBVIOUS
<1>3. Queued(x) \subseteq Sessions
  BY Types DEF Queued
<1>1. CASE x.status[s] = "DONE"
  <2>1. DoneCb(x, s, success, F) = x
    BY <1>1 DEF DoneCb
  <2>2. HolderAlive(x)
    BY <1>1 DEF HolderAlive, Consistent, LockIs
  <2>3. Frame(x, x, {s})
    BY DEF Frame, Same
  <2>4. Course(x, x, E) /\ Told(x, x)
    BY StillCourse, SameOutcome
  <2> QED
    BY <1>0, <2>1, <2>2, <2>3, <2>4
<1>2. CASE x.status[s] # "DONE"
  <2> DEFINE auto == x.autoSession = s /\ x.runOperation[s] # None
  <2>1. PICK e \in {"none", "userabort", "failed"} : e = ErrorOf(success, x.error[s])
    BY DEF ErrorOf, State
  <2>2. PICK cn \in {"none", "open", "closing", "gone"} :
          cn = IF x.conn[s] = "open" THEN "gone" ELSE x.conn[s]
    BY DEF State
  <2>3. PICK au \in Sessions \cup {None} : au = IF auto THEN None ELSE x.autoSession
    BY DEF State
  <2>4. PICK dl \in BOOLEAN : dl = (x.delayed[s] \/ auto)
    OBVIOUS
  <2>5. PICK d : d = [x EXCEPT !.status[s] = "DONE",
                               !.syncStatus[s] = "DONE",
                               !.error[s] = e,
                               !.conn[s] = cn,
                               !.autoSession = au,
                               !.delayed[s] = dl,
                               !.helper[s] = FALSE]
    OBVIOUS
  <2>6. d \in State
    <3>1. PICK d1 : d1 = [x EXCEPT !.status[s] = "DONE",
                                   !.syncStatus[s] = "DONE",
                                   !.error[s] = e,
                                   !.conn[s] = cn,
                                   !.autoSession = au]
      OBVIOUS
    <3>2. d1 \in State
      BY <3>1, ZenonT(60) DEF State
    <3>3. [d1 EXCEPT !.delayed[s] = dl] \in State
      BY <3>2, FlagTypes
    <3>4. [[d1 EXCEPT !.delayed[s] = dl] EXCEPT !.helper[s] = FALSE] \in State
      BY <3>3, FlagTypes
    <3>5. d = [[d1 EXCEPT !.delayed[s] = dl] EXCEPT !.helper[s] = FALSE]
      BY <2>5, <3>1
    <3> QED
      BY <3>4, <3>5
  <2>7. Same(x, d) /\ Timers(x, d)
    BY <2>5 DEF State, Same, Timers
  <2>8. /\ d.workQueue = x.workQueue
        /\ d.activeSession = x.activeSession
        /\ d.syncSession = x.syncSession
        /\ d.status = [x.status EXCEPT ![s] = "DONE"]
    BY <2>5 DEF State
  <2>21. d.idleSeen = x.idleSeen /\ d.reply = x.reply
    BY <2>5 DEF State
  <2>22. d.error = [x.error EXCEPT ![s] = e] /\ d.proc = x.proc
    BY <2>5 DEF State
  <2>23. Outcome(x, d, E)
    <3>1. \A t \in Sessions \ {s} : d.status[t] = x.status[t] /\ d.error[t] = x.error[t]
      BY <2>8, <2>22 DEF State
    <3>2. d.status[s] = "DONE" /\ d.error[s] = e
      BY <2>8, <2>22 DEF State
    <3>3. x.error[s] # "none" => e = x.error[s]
      BY <2>1 DEF ErrorOf
    <3>4. ~success => e # "none"
      BY <2>1 DEF ErrorOf
    <3>5. success => s \in E
      BY <1>0
    <3> QED
      BY <2>22, <3>1, <3>2, <3>3, <3>4, <3>5 DEF Outcome, Clean
  <2>24. Course(x, d, E)
    BY <2>7, <2>8, <2>21, <2>23, StillCourse DEF Same
  <2>9. PICK r : r = RemoveSyncSession(d, s)
    OBVIOUS
  <2>10. DoneCb(x, s, success, F) = Dequeue(r, s, F)
    BY <1>2, <2>1, <2>2, <2>3, <2>4, <2>5, <2>9 DEF DoneCb
  <2>11. /\ r \in State /\ Same(d, r) /\ Timers(d, r)
         /\ r.workQueue = d.workQueue
         /\ r.activeSession = d.activeSession
         /\ r.syncSession = IF d.syncSession = s THEN None ELSE d.syncSession
         /\ r.status = d.status
         /\ r.idleSeen = d.idleSeen /\ r.reply = d.reply
         /\ r.error = d.error /\ r.proc = d.proc
    <3>1. CASE d.syncSession = s
      <4>1. r = [d EXCEPT !.syncSession = None, !.delayed[s] = TRUE]
        BY <2>9, <3>1 DEF RemoveSyncSession
      <4>2. r \in State
        <5>1. [d EXCEPT !.syncSession = None] \in State
          BY <2>6, ZenonT(60) DEF State
        <5>2. [[d EXCEPT !.syncSession = None] EXCEPT !.delayed[s] = TRUE] \in State
          BY <5>1, FlagTypes
        <5> QED
          BY <4>1, <5>2
      <4>3. Same(d, r) /\ Timers(d, r)
        BY <2>6, <4>1 DEF State, Same, Timers
      <4>4. /\ r.workQueue = d.workQueue
            /\ r.activeSession = d.activeSession
            /\ r.syncSession = None
            /\ r.status = d.status
            /\ r.idleSeen = d.idleSeen /\ r.reply = d.reply
            /\ r.error = d.error /\ r.proc = d.proc
        BY <2>6, <4>1 DEF State
      <4> QED
        BY <3>1, <4>2, <4>3, <4>4
    <3>2. CASE d.syncSession # s
      <4>1. r = d
        BY <2>9, <3>2 DEF RemoveSyncSession
      <4> QED
        BY <2>6, <3>2, <4>1 DEF Same, Timers
    <3> QED
      BY <3>1, <3>2
  <2>12. /\ r.status[s] = "DONE"
         /\ \A t \in Sessions \ {s} : r.status[t] = x.status[t]
         /\ r.workQueue = x.workQueue /\ r.activeSession = x.activeSession
         /\ Same(x, r) /\ Timers(x, r)
    BY <2>7, <2>8, <2>11, Types DEF Same, Timers
  <2>13. SyncIs(r)
    BY <2>8, <2>11, <2>12, ServerAssumption DEF Consistent, SyncIs
  <2>14. QueueOnce(r) /\ UnbornIdle(r) /\ Ending(r)
    BY <2>12 DEF Consistent, QueueOnce, UnbornIdle, Ending, Same, Timers
  <2>15. \A i \in 1..Len(r.workQueue) :
            /\ r.life[r.workQueue[i]] # "unborn"
            /\ r.workQueue[i] # s /\ r.life[r.workQueue[i]] = "alive"
                  => r.status[r.workQueue[i]] = "IDLE"
    <3>1. \A i \in 1..Len(x.workQueue) : x.workQueue[i] \in Sessions
      BY Types
    <3> QED
      BY <2>12, <3>1 DEF Consistent, QueueIdle, Same
  <2>16. /\ \A t \in Sessions \ {s} : r.activeSession = t <=> r.status[t] \in {"ACTIVE", "RUNNING"}
         /\ \A t \in Sessions \ {s} : r.activeSession = t => r.life[t] = "alive"
    BY <2>12 DEF Consistent, LockIs, Same
  <2>17. PICK y : y = Dequeue(r, s, F)
    OBVIOUS
  <2>18. /\ y \in State /\ Consistent(y) /\ HolderAlive(y) /\ Frame(r, y, {})
         /\ Course(r, y, {}) /\ Told(r, y)
    BY <2>11, <2>12, <2>13, <2>14, <2>15, <2>16, <2>17, DequeueConsistent
  <2>19. Queued(r) = Queued(x)
    BY <2>12 DEF Queued
  <2>20. Frame(x, y, {s})
    BY <2>12, <2>18, <2>19 DEF Frame, Same
  <2>25. Course(d, r, {})
    BY <2>11, StillCourse, SameOutcome DEF Same
  <2>26. Queued(r) = Queued(d) /\ Queued(d) = Queued(x)
    BY <2>8, <2>11 DEF Queued
  <2>27. Course(d, y, {})
    BY <1>3, <2>18, <2>25, <2>26, CourseTrans
  <2>28. Course(x, y, E)
    BY <1>3, <2>24, <2>27, CourseTrans
  <2>29. Told(x, y)
    BY <2>11, <2>12, <2>18, <2>21 DEF Told, IsIdle
  <2> QED
    BY <1>0, <2>10, <2>17, <2>18, <2>20, <2>28, <2>29
<1> QED
  BY <1>1, <1>2

\* Fields that the invariant does not mention may change freely.
LEMMA SameGood ==
    ASSUME NEW x, NEW y, Good(x), y \in State, Same(x, y), Timers(x, y), SameLock(x, y),
           y.idleSeen = x.idleSeen
    PROVE  /\ Good(y) /\ Queued(y) = Queued(x) /\ y.activeSession = x.activeSession
           /\ \A E : Outcome(x, y, E) => Move(x, y, E)
<1>1. Consistent(y) /\ HolderAlive(y) /\ Queued(y) = Queued(x)
  BY SameConsistent DEF Good
<1>2. PeerOnce(y)
  BY <1>1 DEF Good, PeerOnce, Same
<1>3. Heard(y)
  BY DEF Good, Heard, IsIdle, SameLock
<1>4. \A E : Outcome(x, y, E) => Move(x, y, E)
  BY StillMove DEF Same
<1> QED
  BY <1>1, <1>2, <1>3, <1>4 DEF Good, SameLock

\* delaySessionDestruction() keeps the invariant.
LEMMA DelayedGood ==
    ASSUME NEW x, NEW s \in Sessions, NEW b \in BOOLEAN, Good(x)
    PROVE  LET y == [x EXCEPT !.delayed[s] = b]
           IN  Good(y) /\ Same(x, y) /\ SameLock(x, y) /\ Move(x, y, {}) /\ Calm(x, y)
<1>1. PICK y : y = [x EXCEPT !.delayed[s] = b]
  OBVIOUS
<1>2. y \in State
  BY <1>1, FlagTypes DEF Good
<1>3. Same(x, y) /\ Timers(x, y) /\ SameLock(x, y)
  BY <1>1 DEF Good, State, Same, Timers, SameLock
<1>4. y.idleSeen = x.idleSeen /\ y.reply = x.reply /\ y.error = x.error /\ y.proc = x.proc
  BY <1>1 DEF Good, State
<1>5. Outcome(x, y, {})
  BY <1>3, <1>4, SameOutcome DEF SameLock
<1> QED
  BY <1>1, <1>2, <1>3, <1>4, <1>5, SameGood DEF Calm

\* The state of a connection is not part of the invariant.
LEMMA ConnGood ==
    ASSUME NEW x, NEW s \in Sessions, NEW v \in {"none", "open", "closing", "gone"}, Good(x)
    PROVE  LET y == [x EXCEPT !.conn[s] = v]
           IN  Good(y) /\ Same(x, y) /\ SameLock(x, y) /\ Move(x, y, {}) /\ Calm(x, y)
<1>1. PICK y : y = [x EXCEPT !.conn[s] = v]
  OBVIOUS
<1>2. y \in State
  BY <1>1, ZenonT(60) DEF Good, State
<1>3. Same(x, y) /\ Timers(x, y) /\ SameLock(x, y)
  BY <1>1 DEF Good, State, Same, Timers, SameLock
<1>4. y.idleSeen = x.idleSeen /\ y.reply = x.reply /\ y.error = x.error /\ y.proc = x.proc
  BY <1>1 DEF Good, State
<1>5. Outcome(x, y, {})
  BY <1>3, <1>4, SameOutcome DEF SameLock
<1> QED
  BY <1>1, <1>2, <1>3, <1>4, <1>5, SameGood DEF Calm

\* The state of the helper process of a session that is not idle may change.
LEMMA ProcGood ==
    ASSUME NEW x, NEW s \in Sessions, NEW v \in {"none", "starting", "connected", "quit"},
           Good(x), x.status[s] # "IDLE"
    PROVE  LET y == [x EXCEPT !.proc[s] = v]
           IN  Good(y) /\ Same(x, y) /\ SameLock(x, y) /\ Move(x, y, {}) /\ Calm(x, y)
<1>1. PICK y : y = [x EXCEPT !.proc[s] = v]
  OBVIOUS
<1>2. y \in State
  BY <1>1, ZenonT(60) DEF Good, State
<1>3. Same(x, y) /\ Timers(x, y) /\ SameLock(x, y)
  BY <1>1 DEF Good, State, Same, Timers, SameLock
<1>4. /\ y.idleSeen = x.idleSeen /\ y.reply = x.reply /\ y.error = x.error
      /\ \A t \in Sessions \ {s} : y.proc[t] = x.proc[t]
  BY <1>1 DEF Good, State
<1>5. Outcome(x, y, {})
  BY <1>3, <1>4 DEF SameLock, Outcome, Clean
<1> QED
  BY <1>1, <1>2, <1>3, <1>4, <1>5, SameGood DEF Calm

\* The references to an existing session may change.
LEMMA RefsFields ==
    ASSUME NEW x, NEW s \in Sessions, NEW c \in Clients, NEW n \in 0..MaxAttach,
           Good(x), x.life[s] # "unborn"
    PROVE  LET y == [x EXCEPT !.refs[s][c] = n]
           IN  /\ Good(y) /\ SameLock(x, y) /\ Move(x, y, {}) /\ Calm(x, y)
               /\ y.life = x.life /\ y.peer = x.peer /\ y.shutdownRequested = x.shutdownRequested
<1>1. PICK y : y = [x EXCEPT !.refs[s][c] = n]
  OBVIOUS
<1>2. x \in State
  BY DEF Good
<1>3. y \in State
  <2>1. PICK f : f = [x.refs EXCEPT ![s][c] = n]
    OBVIOUS
  <2>2. f \in [Sessions -> [Clients -> 0..MaxAttach]]
    BY <1>2, <2>1, Types
  <2>3. y = [x EXCEPT !.refs = f]
    BY <1>1, <2>1, Zenon
  <2> QED
    BY <1>2, <2>2, <2>3, ZenonT(60) DEF State
<1>4. Timers(x, y) /\ SameLock(x, y)
  BY <1>1, <1>2 DEF State, Timers, SameLock
<1>5. /\ y.life = x.life /\ y.peer = x.peer /\ y.shutdownRequested = x.shutdownRequested
      /\ y.fileMod = x.fileMod /\ y.refs = [x.refs EXCEPT ![s][c] = n]
  BY <1>1, <1>2 DEF State
<1>6. UnbornIdle(y)
  <2>1. \A t \in Sessions \ {s} : y.refs[t] = x.refs[t]
    BY <1>2, <1>5, Types
  <2> QED
    BY <1>4, <1>5, <2>1 DEF Good, Consistent, UnbornIdle, SameLock
<1>7. Consistent(y) /\ HolderAlive(y)
  BY <1>4, <1>5, <1>6
     DEF Good, Consistent, LockIs, SyncIs, QueueIdle, QueueOnce, Ending, HolderAlive, Timers, SameLock
<1>8. y.idleSeen = x.idleSeen /\ y.reply = x.reply /\ y.error = x.error /\ y.proc = x.proc
  BY <1>1, <1>2 DEF State
<1>9. Outcome(x, y, {})
  BY <1>4, <1>8, SameOutcome DEF SameLock
<1>10. Move(x, y, {})
  BY <1>4, <1>5, <1>8, <1>9, StillMove
<1>11. PeerOnce(y) /\ Heard(y)
  BY <1>4, <1>5, <1>8 DEF Good, PeerOnce, Heard, Queued, IsIdle, SameLock
<1> QED
  BY <1>1, <1>3, <1>4, <1>5, <1>7, <1>8, <1>9, <1>10, <1>11 DEF Good, Calm

\* createSession() yields a live, idle session that is not queued.
LEMMA CreateSessionGood ==
    ASSUME NEW x, NEW s \in Sessions, NEW k \in {"client", "connection", "autosync"},
           NEW p \in Peers \cup {None}, Good(x), x.life[s] = "unborn"
    PROVE  LET y == CreateSession(x, s, k, p)
           IN  /\ Good(y) /\ y.life[s] = "alive" /\ y.status[s] = "IDLE" /\ s \notin Queued(y)
               /\ y.life = [x.life EXCEPT ![s] = "alive"] /\ y.peer[s] = p
               /\ SameLock(x, y) /\ y.idleSeen = x.idleSeen /\ Calm(x, y)
               /\ y.shutdownRequested = x.shutdownRequested
<1>1. PICK y : y = [x EXCEPT !.life[s] = "alive", !.kind[s] = k, !.peer[s] = p]
  OBVIOUS
<1>2. y = CreateSession(x, s, k, p)
  BY <1>1 DEF CreateSession
<1>3. x \in State
  BY DEF Good
<1>4. y \in State
  BY <1>1, <1>3, ZenonT(60) DEF State
<1>5. Timers(x, y) /\ SameLock(x, y)
  BY <1>1, <1>3 DEF State, Timers, SameLock
<1>6. /\ y.life = [x.life EXCEPT ![s] = "alive"] /\ y.shutdownRequested = x.shutdownRequested
      /\ y.fileMod = x.fileMod /\ y.refs = x.refs
  BY <1>1, <1>3 DEF State
<1>7. \A i \in 1..Len(x.workQueue) : x.workQueue[i] # s /\ x.workQueue[i] \in Sessions
  BY <1>3, Types DEF Good, Consistent, QueueIdle
<1>8. y.life[s] = "alive" /\ y.status[s] = "IDLE" /\ s \notin Queued(y)
  BY <1>3, <1>5, <1>6, <1>7, Types DEF Good, Consistent, UnbornIdle, SameLock, Queued
<1>9. \A t \in Sessions \ {s} : y.life[t] = x.life[t]
  BY <1>3, <1>6, Types
<1>10. HolderAlive(y)
  BY <1>5, <1>8, <1>9 DEF Good, HolderAlive, SameLock
<1>11. QueueIdle(y)
  BY <1>5, <1>7, <1>9 DEF Good, Consistent, QueueIdle, SameLock
<1>12. UnbornIdle(y)
  BY <1>5, <1>6, <1>8, <1>9 DEF Good, Consistent, UnbornIdle, SameLock
<1>13. LockIs(y) /\ SyncIs(y) /\ QueueOnce(y) /\ Ending(y)
  BY <1>5, <1>6 DEF Good, Consistent, LockIs, SyncIs, QueueOnce, Ending, Timers, SameLock
<1>14. /\ y.idleSeen = x.idleSeen /\ y.reply = x.reply /\ y.error = x.error /\ y.proc = x.proc
       /\ y.peer[s] = p /\ \A t \in Sessions \ {s} : y.peer[t] = x.peer[t]
  BY <1>1, <1>3 DEF State
<1>15. PeerOnce(y)
  <2>1. \A t \in Queued(y) : t \in Queued(x) /\ t \in Sessions \ {s}
    BY <1>5, <1>7 DEF Queued, SameLock
  <2> QED
    BY <1>9, <1>14, <2>1 DEF Good, PeerOnce
<1>16. Heard(y)
  BY <1>5, <1>14 DEF Good, Heard, IsIdle, SameLock
<1>17. Calm(x, y)
  BY <1>5, <1>14, SameOutcome DEF Calm, SameLock
<1> QED
  BY <1>2, <1>4, <1>5, <1>6, <1>8, <1>10, <1>11, <1>12, <1>13, <1>14, <1>15, <1>16, <1>17
     DEF Good, Consistent

\* enqueue() of a new session keeps the invariant if its peer has no other session
\* in the queue.
LEMMA EnqueueGood ==
    ASSUME NEW x, NEW s \in Sessions, NEW F, Good(x),
           x.life[s] = "alive", x.status[s] = "IDLE", s \notin Queued(x),
           \A t \in Queued(x) : x.life[t] = "alive" /\ x.peer[t] = x.peer[s] => x.peer[s] = None
    PROVE  LET y == Enqueue(x, s, F)
           IN  /\ Good(y) /\ Calm(x, y)
               /\ x.shutdownRequested => y.activeSession \in {x.activeSession, None}
               /\ IsIdle(y) => y.idleSeen \/ FailedNow(x, y, s)
               /\ \E u : Joined(x, s, u) /\ Turn(u, y)
<1>1. PICK y : y = Enqueue(x, s, F)
  OBVIOUS
<1>2. /\ y \in State /\ Consistent(y) /\ HolderAlive(y)
      /\ x.shutdownRequested => y.activeSession \in {x.activeSession, None}
      /\ Same(x, y) /\ Calm(x, y)
      /\ (x.idleSeen => IsIdle(x)) => (y.idleSeen => IsIdle(y))
      /\ IsIdle(y) => y.idleSeen \/ FailedNow(x, y, s)
      /\ \E u : Joined(x, s, u) /\ Turn(u, y)
  BY <1>1, EnqueueConsistent DEF Good
<1>3. Heard(y)
  BY <1>2 DEF Good, Heard
<1>4. PICK u : Joined(x, s, u) /\ Turn(u, y)
  BY <1>2
<1>5. \A t \in Queued(y) : t \in Queued(x) \cup {s}
  BY <1>4 DEF Joined, Turn
<1>6. PeerOnce(y)
  BY <1>2, <1>5 DEF Good, PeerOnce, Same
<1> QED
  BY <1>1, <1>2, <1>3, <1>6 DEF Good

\* doneCb() of an existing session keeps the invariant.
LEMMA DoneCbGood ==
    ASSUME NEW x, NEW s \in Sessions, NEW success, NEW F, Good(x), x.life[s] # "unborn"
    PROVE  LET y == DoneCb(x, s, success, F)
           IN  /\ Good(y) /\ Move(x, y, IF success THEN {s} ELSE {}) /\ y.reply = x.reply
               /\ x.shutdownRequested => y.activeSession \in {x.activeSession, None}
<1>1. PICK y : y = DoneCb(x, s, success, F)
  OBVIOUS
<1>2. /\ y \in State /\ Consistent(y) /\ HolderAlive(y) /\ Frame(x, y, {s})
      /\ Course(x, y, IF success THEN {s} ELSE {}) /\ Told(x, y)
  BY <1>1, DoneCbConsistent DEF Good, HolderAlive
<1>3. Queued(x) \subseteq Sessions
  BY Types DEF Good, Queued
<1>4. PeerOnce(y) /\ Heard(y)
  BY <1>2, <1>3, MoveKeeps DEF Good, Course, Frame, Same
<1> QED
  BY <1>1, <1>2, <1>4 DEF Good, Frame, Course, Move

\* doneCb(false): nobody ends without an error.
LEMMA DoneCbFails ==
    ASSUME NEW x, NEW s \in Sessions, NEW F, Good(x), x.life[s] # "unborn"
    PROVE  LET y == DoneCb(x, s, FALSE, F)
           IN  /\ Good(y) /\ Move(x, y, {})
               /\ x.shutdownRequested => y.activeSession \in {x.activeSession, None}
<1>1. PICK b : b = FALSE
  OBVIOUS
<1>2. PICK y : y = DoneCb(x, s, b, F)
  OBVIOUS
<1>3. /\ Good(y) /\ Move(x, y, IF b THEN {s} ELSE {})
      /\ x.shutdownRequested => y.activeSession \in {x.activeSession, None}
  BY <1>2, DoneCbGood
<1>4. Move(x, y, {})
  BY <1>1, <1>3
<1> QED
  BY <1>1, <1>2, <1>3, <1>4

\* ~Session() never leaves a destructed session with the lock behind.
LEMMA CollectGood ==
    ASSUME NEW x, NEW s \in Sessions, NEW F, Good(x)
    PROVE  LET y == Collect(x, s, F)
           IN  /\ Good(y) /\ Move(x, y, {})
               /\ x.shutdownRequested => y.activeSession \in {x.activeSession, None}
               /\ Queued(y) \subseteq Queued(x)
               /\ \A t \in Sessions \ {s} : y.life[t] = x.life[t]
               /\ \A t \in Sessions \ {s} : t \notin Queued(x) => y.status[t] = x.status[t]
<1>1. CASE ~(Alive(x, s) /\ ~Owned(x, s))
  <2>1. Outcome(x, x, {})
    BY SameOutcome
  <2>2. Move(x, x, {})
    BY <2>1, StillMove DEF SameLock
  <2> QED
    BY <1>1, <2>2 DEF Collect
<1>2. CASE Alive(x, s) /\ ~Owned(x, s)
  <2>1. PICK u : u = [x EXCEPT !.life[s] = "destroyed",
                               !.proc[s] = "none",
                               !.reply[s] = FALSE,
                               !.closing[s] = FALSE,
                               !.wasAborted[s] = FALSE]
    OBVIOUS
  <2>2. x \in State
    BY DEF Good
  <2>3. u \in State
    <3>1. PICK u1 : u1 = [x EXCEPT !.life[s] = "destroyed", !.proc[s] = "none"]
      OBVIOUS
    <3>2. u1 \in State
      BY <2>2, <3>1, ZenonT(60) DEF State
    <3>3. PICK u2 : u2 = [u1 EXCEPT !.reply[s] = FALSE]
      OBVIOUS
    <3>4. u2 \in State
      BY <3>2, <3>3, FlagTypes
    <3>5. PICK u3 : u3 = [u2 EXCEPT !.closing[s] = FALSE]
      OBVIOUS
    <3>6. u3 \in State
      BY <3>4, <3>5, FlagTypes
    <3>7. [u3 EXCEPT !.wasAborted[s] = FALSE] \in State
      BY <3>6, FlagTypes
    <3>8. u = [u3 EXCEPT !.wasAborted[s] = FALSE]
      BY <2>1, <3>1, <3>3, <3>5
    <3> QED
      BY <3>7, <3>8
  <2>4. Timers(x, u) /\ SameLock(x, u)
    BY <2>1, <2>2 DEF State, Timers, SameLock
  <2>5. /\ u.life = [x.life EXCEPT ![s] = "destroyed"] /\ u.shutdownRequested = x.shutdownRequested
        /\ u.fileMod = x.fileMod /\ u.refs = x.refs
        /\ u.peer = x.peer /\ u.idleSeen = x.idleSeen
    BY <2>1, <2>2 DEF State
  <2>6. /\ \A t \in Sessions \ {s} : u.life[t] = x.life[t]
        /\ u.life[s] = "destroyed"
        /\ \A i \in 1..Len(x.workQueue) : x.workQueue[i] \in Sessions
    BY <2>2, <2>5, Types
  <2>7. QueueIdle(u) /\ UnbornIdle(u)
    BY <2>4, <2>5, <2>6 DEF Good, Consistent, QueueIdle, UnbornIdle, SameLock
  <2>8. LockIs(u) /\ SyncIs(u) /\ QueueOnce(u) /\ Ending(u)
    BY <2>4, <2>5 DEF Good, Consistent, LockIs, SyncIs, QueueOnce, Ending, Timers, SameLock
  <2>9. \A t \in Sessions \ {s} : u.activeSession = t => u.life[t] = "alive"
    BY <2>4, <2>6 DEF Good, HolderAlive, SameLock
  <2>10. PICK y : y = DoneCb(u, s, FALSE, F)
    OBVIOUS
  <2>11. /\ y \in State /\ Consistent(y) /\ HolderAlive(y) /\ Frame(u, y, {s})
         /\ Course(u, y, {}) /\ Told(u, y)
    <3>1. Consistent(u) /\ u.life[s] # "unborn"
      BY <2>6, <2>7, <2>8 DEF Consistent
    <3> QED
      BY <2>3, <2>9, <2>10, <3>1, DoneCbConsistent
  <2>12. Collect(x, s, F) = y
    BY <1>2, <2>1, <2>10 DEF Collect
  <2>13. Queued(u) = Queued(x) /\ Queued(x) \subseteq Sessions
    BY <2>4, <2>6 DEF Queued, SameLock
  <2>14. Outcome(x, u, {})
    <3>1. u.error = x.error /\ u.proc = [x.proc EXCEPT ![s] = "none"]
      BY <2>1, <2>2 DEF State
    <3>2. \A t \in Sessions : u.proc[t] = "none" \/ u.proc[t] = x.proc[t]
      BY <2>2, <3>1 DEF State
    <3> QED
      BY <2>4, <3>1, <3>2 DEF SameLock, Outcome, Clean
  <2>15. Move(x, u, {})
    BY <1>2, <2>4, <2>5, <2>6, <2>14, StillMove DEF Alive
  <2>16. Move(x, y, {})
    <3>1. Move(u, y, {})
      BY <2>11 DEF Course, Move
    <3> QED
      BY <2>13, <2>15, <3>1, MoveTrans
  <2>17. PeerOnce(y) /\ Heard(y)
    <3>1. y.peer = x.peer
      BY <2>5, <2>11 DEF Frame, Same
    <3> QED
      BY <2>13, <2>16, <3>1, MoveKeeps DEF Good, Move
  <2> QED
    BY <2>4, <2>5, <2>6, <2>11, <2>12, <2>13, <2>16, <2>17 DEF Good, Frame, Same, SameLock
<1> QED
  BY <1>1, <1>2

\* Client::detach() keeps the invariant, also when it ends the session.
LEMMA ClientDetachGood ==
    ASSUME NEW x, NEW c \in Clients, NEW s \in Sessions, NEW F, Good(x), x.refs[s][c] > 0
    PROVE  LET y == ClientDetach(x, c, s, F)
           IN  /\ Good(y) /\ Move(x, y, {})
               /\ x.shutdownRequested => y.activeSession \in {x.activeSession, None}
<1>1. PICK n : n = x.refs[s][c] - 1
  OBVIOUS
<1>2. x \in State /\ x.refs \in [Sessions -> [Clients -> 0..MaxAttach]]
  BY Types DEF Good
<1>3. n \in 0..MaxAttach /\ x.life[s] # "unborn"
  BY <1>1, <1>2, ServerAssumption DEF Good, Consistent, UnbornIdle
<1>4. PICK u : u = [x EXCEPT !.refs[s][c] = n]
  OBVIOUS
<1>5. /\ Good(u) /\ SameLock(x, u) /\ Move(x, u, {})
      /\ u.life = x.life /\ u.shutdownRequested = x.shutdownRequested
  BY <1>3, <1>4, RefsFields
<1>6. PICK d : d = [u EXCEPT !.delayed[s] = TRUE]
  OBVIOUS
<1>7. Good(d) /\ Same(u, d) /\ SameLock(u, d) /\ Move(u, d, {})
  BY <1>5, <1>6, DelayedGood
<1>8. PICK y : y = DoneCb(d, s, FALSE, F)
  OBVIOUS
<1>9. /\ Good(y) /\ Move(d, y, {})
      /\ d.shutdownRequested => y.activeSession \in {d.activeSession, None}
  <2>1. d.life[s] # "unborn"
    BY <1>3, <1>5, <1>7 DEF Same
  <2> QED
    BY <1>7, <1>8, <2>1, DoneCbFails
<1>10. ClientDetach(x, c, s, F) = IF LastOwner(x, c, s) THEN y ELSE u
  BY <1>1, <1>4, <1>6, <1>8 DEF ClientDetach
<1>11. Move(x, y, {})
  <2>1. Queued(x) \subseteq Sessions /\ Queued(d) = Queued(x)
    BY <1>2, <1>5, <1>7, Types DEF Queued, SameLock
  <2>2. Move(x, d, {})
    BY <1>5, <1>7, <2>1, MoveTrans
  <2> QED
    BY <1>9, <2>1, <2>2, MoveTrans
<1> QED
  BY <1>5, <1>7, <1>9, <1>10, <1>11 DEF Same, SameLock

-----------------------------------------------------------------------------
(* The initial state, one lemma per action, and the step. *)

\* In the main loop no session is only half created.
LEMMA ReadyCreating ==
    ASSUME pc' = Ready
    PROVE  pc' \in PC /\ Creating'
BY DEF Ready, PC, Creating

\* The server starts in a state that satisfies the invariant.
LEMMA InitGood == Init => IInv
<1> SUFFICES ASSUME Init
             PROVE  IInv
  OBVIOUS
<1>1. srv \in State
  BY ServerAssumption DEF Init, State
<1>2. /\ srv.workQueue = <<>> /\ srv.activeSession = None /\ srv.syncSession = None
      /\ ~srv.shutdownTimer /\ ~srv.quitPending /\ srv.fileMod = "never" /\ srv.idleSeen
      /\ \A s \in Sessions : srv.status[s] = "IDLE" /\ \A c \in Clients : srv.refs[s][c] = 0
      /\ \A s \in Sessions : srv.error[s] = "none" /\ srv.proc[s] = "none"
  BY DEF Init
<1>3. Consistent(srv) /\ HolderAlive(srv)
  BY <1>2, ServerAssumption DEF Consistent, LockIs, SyncIs, QueueIdle, QueueOnce, UnbornIdle,
                               Ending, HolderAlive
<1>4. pc \in PC /\ Creating
  BY DEF Init, Ready, PC, Creating
<1>5. PeerOnce(srv) /\ Heard(srv) /\ Clean(srv)
  BY <1>2 DEF PeerOnce, Queued, Heard, IsIdle, Clean
<1> QED
  BY <1>1, <1>3, <1>4, <1>5 DEF IInv, Good

\* What a step without an answer of a helper does is a step.
LEMMA NoAnswer ==
    ASSUME Outcome(srv, srv', {})
    PROVE  Outcome(srv, srv', Answered)
BY DEF Outcome

\* Without an answer of a helper.
LEMMA MoveStep ==
    ASSUME Good(srv'), LockKept, Move(srv, srv', {})
    PROVE  Moved
BY NoAnswer DEF Moved, Move

\* A new session which is enqueued.
LEMMA CameStep ==
    ASSUME NEW s \in Sessions, NEW x, NEW F \in Failures, Good(srv), Good(x), Outcome(srv, x, {}),
           SameLock(srv, x), s \notin Queued(srv),
           x.shutdownRequested = srv.shutdownRequested,
           \A t \in Sessions : x.life[t] = IF t = s THEN "alive" ELSE srv.life[t],
           x.status[s] = "IDLE",
           \A t \in Queued(x) : x.life[t] = "alive" /\ x.peer[t] = x.peer[s] => x.peer[s] = None,
           srv' = Enqueue(x, s, F)
    PROVE  Came(s)
<1>1. Queued(x) = Queued(srv)
  BY DEF Queued, SameLock
<1>2. LET z == Enqueue(x, s, F)
      IN  /\ Good(z) /\ Calm(x, z)
          /\ x.shutdownRequested => z.activeSession \in {x.activeSession, None}
          /\ IsIdle(z) => z.idleSeen \/ FailedNow(x, z, s)
          /\ \E u : Joined(x, s, u) /\ Turn(u, z)
  BY <1>1, EnqueueGood, SMTT(60)
<1>3. /\ Good(srv') /\ Outcome(x, srv', {})
      /\ x.shutdownRequested => srv'.activeSession \in {x.activeSession, None}
      /\ IsIdle(srv') => srv'.idleSeen \/ FailedNow(x, srv', s)
      /\ \E u : Joined(x, s, u) /\ Turn(u, srv')
  BY <1>2 DEF Calm
<1>4. Outcome(srv, srv', Answered)
  BY <1>3, OutcomeTrans, NoAnswer
<1>5. IsIdle(srv') => srv'.idleSeen \/ StartFailed
  BY <1>3 DEF FailedNow, StartFailed, SameLock, IsIdle
<1>6. PICK u : Joined(x, s, u) /\ Turn(u, srv')
  BY <1>3
<1>7. \A t, v \in Queued(srv) : Ahead(x, t, v) <=> Ahead(srv, t, v)
  BY DEF Ahead, SameLock
<1>8. \A t \in Queued(srv) : t \in Sessions \ {s}
  BY Types DEF Good, Queued
<1>9. Joined(srv, s, u)
  BY <1>1, <1>6, <1>7, <1>8 DEF Joined, SameLock
<1>10. LockKept
  BY <1>3 DEF LockKept, SameLock
<1> QED
  BY <1>3, <1>4, <1>5, <1>6, <1>9, <1>10 DEF Came, Preserved

\* A client's session has no peer.
LEMMA StartSessionStep ==
    ASSUME IInv, NEW c \in Clients, NEW s \in Sessions, StartSession(c, s)
    PROVE  Came(s)
<1>1. PICK x : x = CreateSession(srv, s, "client", None)
  OBVIOUS
<1>2. /\ Good(x) /\ x.life[s] = "alive" /\ x.status[s] = "IDLE" /\ s \notin Queued(x)
      /\ x.life = [srv.life EXCEPT ![s] = "alive"] /\ x.peer[s] = None
      /\ SameLock(srv, x) /\ Calm(srv, x)
      /\ x.shutdownRequested = srv.shutdownRequested
  BY <1>1, CreateSessionGood DEF IInv, StartSession
<1>3. PICK y : y = [x EXCEPT !.refs[s][c] = 1]
  OBVIOUS
<1>4. /\ Good(y) /\ SameLock(x, y) /\ y.life = x.life /\ y.peer = x.peer /\ Calm(x, y)
      /\ y.shutdownRequested = x.shutdownRequested
  <2>1. PICK n \in 0..MaxAttach : n = 1
    BY ServerAssumption
  <2>2. PICK z : z = [x EXCEPT !.refs[s][c] = n]
    OBVIOUS
  <2>3. /\ Good(z) /\ SameLock(x, z) /\ Move(x, z, {}) /\ Calm(x, z)
        /\ z.life = x.life /\ z.peer = x.peer /\ z.shutdownRequested = x.shutdownRequested
    <3>1. Good(x) /\ x.life[s] # "unborn"
      BY <1>2
    <3> QED
      BY <2>2, <3>1, RefsFields
  <2>4. z = y
    BY <1>3, <2>1, <2>2
  <2> QED
    BY <2>3, <2>4
<1>5. srv' = Enqueue(y, s, {}) /\ {} \in Failures
  BY <1>1, <1>3 DEF StartSession, Failures
<1>6. Outcome(srv, y, {})
  BY <1>2, <1>4, OutcomeTrans DEF Calm
<1>7. SameLock(srv, y) /\ s \notin Queued(srv) /\ y.status[s] = "IDLE"
  BY <1>2, <1>4 DEF SameLock, Queued
<1>8. \A t \in Sessions : y.life[t] = IF t = s THEN "alive" ELSE srv.life[t]
  BY <1>2, <1>4, Types DEF IInv, Good
<1> QED
  BY <1>2, <1>4, <1>5, <1>6, <1>7, <1>8, CameStep DEF IInv

\* The step Attach.
LEMMA AttachStep ==
    ASSUME IInv, NEW c \in Clients, NEW s \in Sessions, Attach(c, s)
    PROVE  Moved
<1>1. srv.refs \in [Sessions -> [Clients -> 0..MaxAttach]]
  BY Types DEF IInv, Good
<1>2. PICK n : n = srv.refs[s][c] + 1
  OBVIOUS
<1>3. n \in 0..MaxAttach
  BY <1>1, <1>2, ServerAssumption DEF Attach
<1>4. srv' = [srv EXCEPT !.refs[s][c] = n] /\ srv.life[s] # "unborn"
  BY <1>2 DEF Attach, Alive
<1>5. Good(srv') /\ LockKept /\ Move(srv, srv', {})
  BY <1>3, <1>4, RefsFields DEF IInv, LockKept, SameLock
<1> QED
  BY <1>5, MoveStep

\* The step Detach.
LEMMA DetachStep ==
    ASSUME IInv, NEW c \in Clients, NEW s \in Sessions, Detach(c, s)
    PROVE  Moved
<1>1. PICK F : srv' = ClientDetach(srv, c, s, F)
  BY DEF Detach
<1>2. srv.refs[s][c] > 0
  BY DEF Detach
<1>3. Good(srv') /\ LockKept /\ Move(srv, srv', {})
  BY <1>1, <1>2, ClientDetachGood DEF IInv, LockKept
<1> QED
  BY <1>3, MoveStep

\* The step ClientGoneDetach.
LEMMA ClientGoneDetachStep ==
    ASSUME IInv, NEW c \in Clients, ClientGoneDetach(c)
    PROVE  Moved
<1>1. PICK s \in Sessions, F \in Failures : srv.refs[s][c] > 0 /\ srv' = ClientDetach(srv, c, s, F)
  BY DEF ClientGoneDetach
<1>2. Good(srv') /\ LockKept /\ Move(srv, srv', {})
  BY <1>1, ClientDetachGood DEF IInv, LockKept
<1> QED
  BY <1>2, MoveStep

\* A server alerted notification enqueues its session at once, a SyncML message
\* first creates it only.
LEMMA ConnectionProcessStep ==
    ASSUME IInv, NEW s \in Sessions, NEW p \in Peers \cup {None}, ConnectionProcess(s, p)
    PROVE  \/ p = None /\ pc' = pc /\ Came(s)
           \/ pc' = [loop |-> "kill", who |-> s] /\ Creating' /\ Created(s)
<1>1. PICK u : u = CreateSession(srv, s, "connection", p)
  OBVIOUS
<1>2. /\ Good(u) /\ u.life[s] = "alive" /\ u.status[s] = "IDLE" /\ s \notin Queued(u)
      /\ u.life = [srv.life EXCEPT ![s] = "alive"] /\ u.peer[s] = p
      /\ SameLock(srv, u) /\ Calm(srv, u)
      /\ u.shutdownRequested = srv.shutdownRequested
  BY <1>1, CreateSessionGood DEF IInv, ConnectionProcess
<1>3. PICK x : x = [u EXCEPT !.conn[s] = "open"]
  OBVIOUS
<1>4. Good(x) /\ Same(u, x) /\ SameLock(u, x) /\ Calm(u, x)
  BY <1>2, <1>3, ConnGood
<1>5. Outcome(srv, x, {})
  BY <1>2, <1>4, OutcomeTrans DEF Calm
<1>6. /\ SameLock(srv, x) /\ s \notin Queued(srv) /\ s \notin Queued(x)
      /\ x.life[s] = "alive" /\ x.status[s] = "IDLE" /\ x.peer[s] = p
      /\ x.shutdownRequested = srv.shutdownRequested
  BY <1>2, <1>4 DEF Same, SameLock, Queued
<1>7. \A t \in Sessions : x.life[t] = IF t = s THEN "alive" ELSE srv.life[t]
  BY <1>2, <1>4, Types DEF IInv, Good, Same
<1>8. CASE p = None
  <2>1. PICK F \in Failures : srv' = Enqueue(x, s, F)
    BY <1>1, <1>3, <1>8 DEF ConnectionProcess
  <2>2. pc' = pc
    BY <1>8 DEF ConnectionProcess
  <2>3. Came(s)
    BY <1>4, <1>5, <1>6, <1>7, <1>8, <2>1, CameStep DEF IInv
  <2> QED
    BY <1>8, <2>2, <2>3
<1>9. CASE p # None
  <2>1. srv' = x /\ pc' = [loop |-> "kill", who |-> s]
    BY <1>1, <1>3, <1>9 DEF ConnectionProcess
  <2>2. Creating'
    BY <1>6, <2>1 DEF Creating, Queued
  <2>3. Preserved
    BY <1>4, <1>5, <1>6, <2>1, NoAnswer DEF Preserved, LockKept, SameLock
  <2> QED
    BY <1>6, <1>7, <2>1, <2>2, <2>3 DEF Created, SameLock
<1> QED
  BY <1>8, <1>9

\* killSessionsAsync() takes one session out of the queue, which is destructed at
\* once if nobody else owns it.
LEMMA KillQueuedStep ==
    ASSUME IInv, NEW s \in Sessions, KillQueued(s)
    PROVE  Preserved /\ Turn(srv, srv') /\ pc' \in PC /\ Creating'
<1> DEFINE q == srv.workQueue
<1>1. q \in Seq(Sessions) /\ Len(q) \in Nat
  BY Types DEF IInv, Good
<1>2. PICK i : i = Min(ToKill(srv, s))
  OBVIOUS
<1>3. i \in 1..Len(q) /\ q[i] \in Sessions
  <2>1. ToKill(srv, s) \subseteq 1..Len(q)
    BY DEF ToKill
  <2>2. ToKill(srv, s) \subseteq Nat /\ ToKill(srv, s) # {}
    BY <1>1, <2>1 DEF KillQueued
  <2>3. i \in ToKill(srv, s)
    BY <1>2, <2>2, MinInSet
  <2> QED
    BY <1>1, <2>1, <2>3
<1>4. PICK r : r = RemoveAt(q, i)
  OBVIOUS
<1>5. /\ r \in Seq(Sessions) /\ Len(r) = Len(q) - 1
      /\ \A j \in 1..(Len(q) - 1) : r[j] = IF j < i THEN q[j] ELSE q[j + 1]
  BY <1>1, <1>3, <1>4, RemoveAtProperties
<1>6. PICK u : u = [srv EXCEPT !.workQueue = r]
  OBVIOUS
<1>7. /\ u \in State /\ Same(srv, u) /\ Timers(srv, u) /\ u.workQueue = r
      /\ u.activeSession = srv.activeSession /\ u.syncSession = srv.syncSession
      /\ u.status = srv.status /\ u.idleSeen = srv.idleSeen /\ Calm(srv, u)
  BY <1>5, <1>6, QueueFields DEF IInv, Good
<1>8. \A j \in 1..Len(r) :
         LET m == IF j < i THEN j ELSE j + 1 IN m \in 1..Len(q) /\ r[j] = q[m]
  <2> SUFFICES ASSUME NEW j \in 1..Len(r)
               PROVE  LET m == IF j < i THEN j ELSE j + 1 IN m \in 1..Len(q) /\ r[j] = q[m]
    OBVIOUS
  <2>1. j \in 1..(Len(q) - 1) /\ r[j] = IF j < i THEN q[j] ELSE q[j + 1]
    BY <1>1, <1>5
  <2>2. CASE j < i
    BY <1>1, <1>3, <2>1, <2>2
  <2>3. CASE ~(j < i)
    BY <1>1, <1>3, <2>1, <2>3
  <2> QED
    BY <2>2, <2>3
<1>9. Queued(u) \subseteq Queued(srv) /\ Queued(srv) \subseteq Sessions
  BY <1>1, <1>7, <1>8 DEF Queued
<1>23. Turn(srv, u)
  <2>1. Once(q)
    BY DEF IInv, Good, Consistent, QueueOnce, Once
  <2>2. \A j, k \in 1..Len(r) : AheadIn(r, r[j], r[k]) <=> AheadIn(q, r[j], r[k])
    BY <1>1, <1>3, <1>4, <2>1, RemoveAtOrder
  <2>3. \A t, v \in Queued(u) : Ahead(u, t, v) <=> Ahead(srv, t, v)
    BY <1>7, <2>2 DEF Queued, Ahead
  <2> QED
    BY <1>7, <1>9, <2>3 DEF Turn, Same
<1>10. Good(u)
  <2>1. QueueIdle(u)
    BY <1>7, <1>8 DEF IInv, Good, Consistent, QueueIdle, Same
  <2>2. QueueOnce(u)
    <3>1. ASSUME NEW j \in 1..Len(r), NEW k \in 1..Len(r), r[j] = r[k]
          PROVE  j = k
      <4>1. (IF j < i THEN j ELSE j + 1) = (IF k < i THEN k ELSE k + 1)
        BY <1>8, <3>1 DEF IInv, Good, Consistent, QueueOnce
      <4> QED
        BY <1>1, <1>3, <1>5, <4>1
    <3> QED
      BY <1>7, <3>1 DEF QueueOnce
  <2>3. PeerOnce(u)
    BY <1>7, <1>9 DEF IInv, Good, PeerOnce, Same
  <2>4. Heard(u)
    <3>1. q # <<>>
      BY <1>1, <1>3
    <3>2. ~IsIdle(srv)
      BY <3>1 DEF IsIdle
    <3> QED
      BY <1>7, <3>2 DEF IInv, Good, Heard
  <2> QED
    BY <1>7, <2>1, <2>2, <2>3, <2>4
       DEF IInv, Good, Consistent, LockIs, SyncIs, UnbornIdle, Ending, HolderAlive, Same, Timers
<1>11. PICK k \in Sessions : k = q[i]
  BY <1>3
<1>12. PICK v \in {"none", "open", "closing", "gone"} :
          v = IF srv.conn[k] = "open" THEN "gone" ELSE srv.conn[k]
  BY DEF IInv, Good, State
<1>13. PICK x : x = [u EXCEPT !.conn[k] = v]
  OBVIOUS
<1>14. Good(x) /\ Same(u, x) /\ SameLock(u, x) /\ Move(u, x, {})
  BY <1>10, <1>13, ConnGood
<1>15. srv' = Collect(x, k, {})
  <2>1. x = [srv EXCEPT !.workQueue = r, !.conn[k] = v]
    BY <1>6, <1>13
  <2> QED
    BY <1>2, <1>4, <1>11, <1>12, <2>1 DEF KillQueued
<1>16. Queued(x) = Queued(u)
  BY <1>14 DEF SameLock, Queued
<1>17. /\ Good(srv') /\ Move(x, srv', {})
       /\ x.shutdownRequested => srv'.activeSession \in {x.activeSession, None}
       /\ Queued(srv') \subseteq Queued(x)
       /\ \A t \in Sessions \ {k} : srv'.life[t] = x.life[t]
       /\ \A t \in Sessions \ {k} : t \notin Queued(x) => srv'.status[t] = x.status[t]
  BY <1>14, <1>15, CollectGood
<1>24. Move(u, srv', {})
  BY <1>9, <1>14, <1>17, MoveTrans
<1>25. Turn(srv, srv')
  BY <1>9, <1>23, <1>24, TurnTrans DEF Move
<1>26. Outcome(srv, srv', Answered)
  BY <1>7, <1>24, OutcomeTrans, NoAnswer DEF Calm, Move
<1>18. Preserved
  BY <1>7, <1>14, <1>17, <1>26 DEF Preserved, LockKept, Same, SameLock
<1>19. pc = [loop |-> "kill", who |-> s] /\ pc' = pc
  BY DEF KillQueued
<1>20. /\ s # k /\ srv.life[s] = "alive" /\ srv.status[s] = "IDLE" /\ s \notin Queued(srv)
  BY <1>3, <1>11, <1>19 DEF IInv, Creating, Queued
<1>21. srv'.life[s] = "alive" /\ srv'.status[s] = "IDLE" /\ s \notin Queued(srv')
  BY <1>7, <1>9, <1>14, <1>16, <1>17, <1>20 DEF Same, SameLock
<1>22. pc' \in PC /\ Creating'
  BY <1>19, <1>21 DEF PC, Creating, Queued
<1> QED
  BY <1>18, <1>22, <1>25

\* The loop of killSessionsAsync() is over only when the queue has no live session
\* of the peer.
LEMMA KillDoneStep ==
    ASSUME IInv, NEW s \in Sessions, KillDone(s)
    PROVE  Came(s)
<1>1. PICK F \in Failures : srv' = Enqueue(srv, s, F)
  BY DEF KillDone
<1>2. pc = [loop |-> "kill", who |-> s]
  BY DEF KillDone
<1>3. srv.life[s] = "alive" /\ srv.status[s] = "IDLE" /\ s \notin Queued(srv)
  BY <1>2 DEF IInv, Creating
<1>4. \A t \in Queued(srv) : ~(srv.life[t] = "alive" /\ srv.peer[t] = srv.peer[s])
  BY DEF KillDone, ToKill, Queued, Alive
<1>5. SameLock(srv, srv) /\ Outcome(srv, srv, {})
  BY SameOutcome DEF SameLock
<1>6. \A t \in Sessions : srv.life[t] = IF t = s THEN "alive" ELSE srv.life[t]
  BY <1>3
<1> QED
  BY <1>1, <1>3, <1>4, <1>5, <1>6, CameStep DEF IInv

\* The step ConnectionFailed.
LEMMA ConnectionFailedStep ==
    ASSUME IInv, NEW s \in Sessions, ConnectionFailed(s)
    PROVE  Moved
<1>1. Good(srv') /\ LockKept /\ Move(srv, srv', {})
  BY ConnGood DEF IInv, ConnectionFailed, LockKept, SameLock
<1> QED
  BY <1>1, MoveStep

\* A step that drops an owner, and then the session if that was the last one.
LEMMA CollectStep ==
    ASSUME NEW s \in Sessions, NEW x, NEW F, Good(srv), Good(x), Same(srv, x), SameLock(srv, x),
           Move(srv, x, {}), srv' = Collect(x, s, F)
    PROVE  Moved
<1>1. /\ Good(srv') /\ Move(x, srv', {})
      /\ x.shutdownRequested => srv'.activeSession \in {x.activeSession, None}
  BY CollectGood
<1>2. Queued(srv) \subseteq Sessions
  BY Types DEF Good, Queued
<1>3. Move(srv, srv', {})
  BY <1>1, <1>2, MoveTrans
<1> QED
  BY <1>1, <1>3, MoveStep DEF LockKept, Same, SameLock

\* The step ConnectionDestroyed.
LEMMA ConnectionDestroyedStep ==
    ASSUME IInv, NEW s \in Sessions, ConnectionDestroyed(s)
    PROVE  Moved
<1>1. PICK F : srv' = Collect([srv EXCEPT !.conn[s] = "gone"], s, F)
  BY DEF ConnectionDestroyed
<1>2. PICK x : x = [srv EXCEPT !.conn[s] = "gone"]
  OBVIOUS
<1>3. Good(x) /\ Same(srv, x) /\ SameLock(srv, x) /\ Move(srv, x, {})
  BY <1>2, ConnGood DEF IInv
<1> QED
  BY <1>1, <1>2, <1>3, CollectStep DEF IInv

\* The session of an automatic sync is enqueued while the server is idle.
LEMMA StartAutoSyncStep ==
    ASSUME IInv, NEW s \in Sessions, NEW p \in Peers \cup {None}, StartAutoSync(s, p)
    PROVE  Came(s)
<1>1. PICK x : x = CreateSession(srv, s, "autosync", p)
  OBVIOUS
<1>2. /\ Good(x) /\ x.life[s] = "alive" /\ x.status[s] = "IDLE" /\ s \notin Queued(x)
      /\ x.life = [srv.life EXCEPT ![s] = "alive"]
      /\ SameLock(srv, x) /\ Calm(srv, x)
      /\ x.shutdownRequested = srv.shutdownRequested
  BY <1>1, CreateSessionGood DEF IInv, StartAutoSync
<1>3. PICK f : f = [t \in Sessions |-> t = srv.autoSession \/ x.delayed[t]]
  OBVIOUS
<1>4. f \in [Sessions -> BOOLEAN]
  BY <1>3
<1>5. PICK y : y = [x EXCEPT !.delayed = f, !.autoSession = s]
  OBVIOUS
<1>6. y \in State
  BY <1>2, <1>4, <1>5, ZenonT(60) DEF Good, State
<1>7. Same(x, y) /\ Timers(x, y) /\ SameLock(x, y)
  BY <1>2, <1>5 DEF Good, State, Same, Timers, SameLock
<1>8. y.idleSeen = x.idleSeen /\ y.error = x.error /\ y.proc = x.proc
  BY <1>2, <1>5 DEF Good, State
<1>9. Good(y)
  BY <1>2, <1>6, <1>7, <1>8, SameGood
<1>10. PICK F \in Failures : srv' = Enqueue(y, s, F)
  BY <1>1, <1>3, <1>5 DEF StartAutoSync
<1>11. Outcome(srv, y, {})
  <2>1. Outcome(x, y, {})
    BY <1>7, <1>8, SameOutcome DEF SameLock
  <2> QED
    BY <1>2, <2>1, OutcomeTrans DEF Calm
<1>12. /\ SameLock(srv, y) /\ s \notin Queued(srv) /\ y.status[s] = "IDLE"
       /\ y.shutdownRequested = srv.shutdownRequested
  BY <1>2, <1>7 DEF Same, SameLock, Queued
<1>13. \A t \in Sessions : y.life[t] = IF t = s THEN "alive" ELSE srv.life[t]
  BY <1>2, <1>7, Types DEF IInv, Good, Same
<1>14. Queued(y) = {}
  BY <1>12 DEF Queued, StartAutoSync, IsIdle, SameLock
<1> QED
  BY <1>9, <1>10, <1>11, <1>12, <1>13, <1>14, CameStep DEF IInv

\* A step that ends with doneCb().
LEMMA DoneCbStep ==
    ASSUME NEW s \in Sessions, NEW x, NEW success, NEW F, Good(srv), Good(x), Same(srv, x),
           SameLock(srv, x), Move(srv, x, {}), x.life[s] # "unborn",
           success => s \in Answered, srv' = DoneCb(x, s, success, F)
    PROVE  Moved
<1>1. PICK E : E = IF success THEN {s} ELSE {}
  OBVIOUS
<1>2. /\ Good(srv') /\ Move(x, srv', IF success THEN {s} ELSE {})
      /\ x.shutdownRequested => srv'.activeSession \in {x.activeSession, None}
  BY DoneCbGood
<1>3. Move(x, srv', E)
  BY <1>1, <1>2
<1>4. Queued(srv) \subseteq Sessions /\ {} \subseteq Answered /\ E \subseteq Answered
  BY <1>1, Types DEF Good, Queued
<1>5. Move(srv, srv', Answered)
  BY <1>3, <1>4, MoveTrans
<1> QED
  BY <1>2, <1>5 DEF Moved, LockKept, Same, SameLock

\* The step StartOperation.
LEMMA StartOperationStep ==
    ASSUME IInv, NEW s \in Sessions, NEW op \in Operations, StartOperation(s, op)
    PROVE  Moved
<1>1. PICK x : x = RunOperation(srv, s, op)
  OBVIOUS
<1>2. /\ x \in State /\ Same(srv, x) /\ Timers(srv, x) /\ x.workQueue = srv.workQueue
      /\ x.activeSession = srv.activeSession /\ x.syncSession = s
      /\ x.status = [srv.status EXCEPT ![s] = "RUNNING"]
      /\ x.idleSeen = srv.idleSeen /\ Calm(srv, x)
  BY <1>1, RunOperationFields DEF IInv, Good
<1>3. srv.activeSession = s /\ srv.status[s] = "ACTIVE" /\ srv.life[s] = "alive"
  BY DEF IInv, Good, Consistent, LockIs, StartOperation, Alive
<1>4. \A t \in Sessions : x.status[t] = IF t = s THEN "RUNNING" ELSE srv.status[t]
  BY <1>2, Types DEF IInv, Good
<1>5. LockIs(x) /\ SyncIs(x) /\ HolderAlive(x)
  BY <1>2, <1>3, <1>4 DEF IInv, Good, Consistent, LockIs, SyncIs, HolderAlive, Same
<1>6. QueueIdle(x)
  <2>1. \A i \in 1..Len(srv.workQueue) : srv.workQueue[i] \in Sessions /\ srv.workQueue[i] # s
    BY <1>3, Types DEF IInv, Good, Consistent, QueueIdle
  <2> QED
    BY <1>2, <1>4, <2>1 DEF IInv, Good, Consistent, QueueIdle, Same
<1>7. QueueOnce(x) /\ UnbornIdle(x) /\ Ending(x)
  BY <1>2, <1>3, <1>4 DEF IInv, Good, Consistent, QueueOnce, UnbornIdle, Ending, Same, Timers
<1>8. PeerOnce(x) /\ Heard(x)
  BY <1>2 DEF IInv, Good, PeerOnce, Heard, Queued, IsIdle, Same
<1>9. Good(x)
  BY <1>2, <1>5, <1>6, <1>7, <1>8 DEF Good, Consistent
<1>10. Move(srv, x, {})
  <2>1. Queued(x) = Queued(srv) /\ \A t, u \in Queued(x) : Ahead(x, t, u) <=> Ahead(srv, t, u)
    BY <1>2 DEF Queued, Ahead
  <2>2. IsIdle(x) <=> IsIdle(srv)
    BY <1>2 DEF IsIdle
  <2> QED
    BY <1>2, <2>1, <2>2 DEF Move, Turn, Quiet, Told, Same, Calm
<1>11. PICK F : srv' = IF s \in F THEN DoneCb([x EXCEPT !.proc[s] = "quit"], s, FALSE, F) ELSE x
  BY <1>1 DEF StartOperation
<1>12. PICK y : y = [x EXCEPT !.proc[s] = "quit"]
  OBVIOUS
<1>13. Good(y) /\ Same(x, y) /\ SameLock(x, y) /\ Move(x, y, {})
  <2>1. x.status[s] # "IDLE"
    BY <1>4
  <2> QED
    BY <1>9, <1>12, <2>1, ProcGood
<1>14. Move(srv, y, {})
  <2>1. Queued(srv) \subseteq Sessions
    BY Types DEF IInv, Good, Queued
  <2> QED
    BY <1>10, <1>13, <2>1, MoveTrans
<1>15. CASE s \notin F
  <2>1. srv' = x
    BY <1>11, <1>15
  <2> QED
    BY <1>2, <1>9, <1>10, <2>1, MoveStep DEF LockKept
<1>16. CASE s \in F
  <2>1. PICK z : z = DoneCb(y, s, FALSE, F)
    OBVIOUS
  <2>2. srv' = z
    BY <1>11, <1>12, <1>16, <2>1
  <2>3. y.life[s] # "unborn"
    BY <1>2, <1>3, <1>13 DEF Same
  <2>5. /\ Good(z) /\ Move(y, z, {})
        /\ y.shutdownRequested => z.activeSession \in {y.activeSession, None}
    BY <1>13, <2>1, <2>3, DoneCbFails
  <2>6. Move(srv, z, {})
    <3>1. Queued(srv) \subseteq Sessions
      BY Types DEF IInv, Good, Queued
    <3> QED
      BY <1>14, <2>5, <3>1, MoveTrans
  <2>7. y.shutdownRequested = srv.shutdownRequested /\ y.activeSession = srv.activeSession
    BY <1>2, <1>13 DEF Same, SameLock
  <2> QED
    BY <2>2, <2>5, <2>6, <2>7, MoveStep DEF LockKept
<1> QED
  BY <1>15, <1>16

\* A step that only changes fields the invariant does not mention.
LEMMA SameStep ==
    ASSUME IInv, srv' \in State, Same(srv, srv'), Timers(srv, srv'), SameLock(srv, srv'),
           srv'.idleSeen = srv.idleSeen, Outcome(srv, srv', {})
    PROVE  Moved
BY SameGood, MoveStep DEF IInv, LockKept

\* The step Interrupt.
LEMMA InterruptStep ==
    ASSUME IInv, NEW s \in Sessions, NEW from, NEW to \in {"ABORT", "SUSPEND"}, Interrupt(s, from, to)
    PROVE  Moved
<1>1. PICK b \in BOOLEAN : b = (srv.wasAborted[s] \/ srv.proc[s] # "none")
  OBVIOUS
<1>2. PICK v \in {"QUEUEING", "IDLE", "RUNNING", "ABORT", "SUSPEND", "DONE"} :
         v = IF srv.syncStatus[s] \in from THEN to ELSE srv.syncStatus[s]
  BY DEF IInv, Good, State
<1>3. srv' = [srv EXCEPT !.wasAborted[s] = b, !.syncStatus[s] = v]
  BY <1>1, <1>2 DEF Interrupt
<1>4. srv' \in State
  <2>1. [srv EXCEPT !.wasAborted[s] = b] \in State
    BY FlagTypes DEF IInv, Good
  <2>2. PICK u \in State : u = [srv EXCEPT !.wasAborted[s] = b]
    BY <2>1
  <2>3. [u EXCEPT !.syncStatus[s] = v] \in State
    BY ZenonT(60) DEF State
  <2> QED
    BY <1>3, <2>2, <2>3
<1>5. Same(srv, srv') /\ Timers(srv, srv') /\ SameLock(srv, srv')
  BY <1>3 DEF IInv, Good, State, Same, Timers, SameLock
<1>6. srv'.idleSeen = srv.idleSeen /\ srv'.error = srv.error /\ srv'.proc = srv.proc
  BY <1>3 DEF IInv, Good, State
<1>7. Outcome(srv, srv', {})
  BY <1>5, <1>6, SameOutcome DEF SameLock
<1> QED
  BY <1>4, <1>5, <1>6, <1>7, SameStep

\* The step SetFreeze.
LEMMA SetFreezeStep ==
    ASSUME IInv, NEW s \in Sessions, SetFreeze(s)
    PROVE  Moved
<1>1. PICK v \in {"running", "quit", "restart", "crashed"} :
         v = IF srv.helper[s] THEN srv.loop ELSE "crashed"
  BY DEF IInv, Good, State
<1>2. srv' = [srv EXCEPT !.loop = v]
  BY <1>1 DEF SetFreeze
<1>3. srv' \in State
  BY <1>2, ZenonT(60) DEF IInv, Good, State
<1>4. Same(srv, srv') /\ Timers(srv, srv') /\ SameLock(srv, srv')
  BY <1>2 DEF IInv, Good, State, Same, Timers, SameLock
<1>5. srv'.idleSeen = srv.idleSeen /\ srv'.error = srv.error /\ srv'.proc = srv.proc
  BY <1>2 DEF IInv, Good, State
<1>6. Outcome(srv, srv', {})
  BY <1>4, <1>5, SameOutcome DEF SameLock
<1> QED
  BY <1>3, <1>4, <1>5, <1>6, SameStep

\* The step HelperConnect: only a session that is not idle has a helper.
LEMMA HelperConnectStep ==
    ASSUME IInv, NEW s \in Sessions, HelperConnect(s)
    PROVE  Moved
<1>1. srv' = [srv EXCEPT !.proc[s] = "connected", !.helper[s] = TRUE, !.reply[s] = TRUE]
  BY DEF HelperConnect
<1>2. srv.status[s] # "IDLE"
  BY DEF HelperConnect, IInv, Clean
<1>3. srv' \in State
  <2>1. PICK u : u = [srv EXCEPT !.proc[s] = "connected"]
    OBVIOUS
  <2>2. u \in State
    BY <1>2, <2>1, ProcGood DEF IInv, Good
  <2>3. PICK v : v = [u EXCEPT !.helper[s] = TRUE]
    OBVIOUS
  <2>4. v \in State
    BY <2>2, <2>3, FlagTypes
  <2>5. [v EXCEPT !.reply[s] = TRUE] \in State
    BY <2>4, FlagTypes
  <2> QED
    BY <1>1, <2>1, <2>3, <2>5
<1>4. Same(srv, srv') /\ Timers(srv, srv') /\ SameLock(srv, srv')
  BY <1>1 DEF IInv, Good, State, Same, Timers, SameLock
<1>5. /\ srv'.idleSeen = srv.idleSeen /\ srv'.error = srv.error
      /\ \A t \in Sessions \ {s} : srv'.proc[t] = srv.proc[t]
  BY <1>1 DEF IInv, Good, State
<1>6. Outcome(srv, srv', {})
  BY <1>2, <1>4, <1>5 DEF SameLock, Outcome, Clean
<1> QED
  BY <1>3, <1>4, <1>5, <1>6, SameStep

\* The step HelperReply: the only one in which a session may end without an error.
LEMMA HelperReplyStep ==
    ASSUME IInv, NEW s \in Sessions, NEW success \in BOOLEAN, HelperReply(s, success)
    PROVE  Moved
<1>1. PICK x : x = [srv EXCEPT !.reply[s] = FALSE]
  OBVIOUS
<1>2. x \in State
  BY <1>1, FlagTypes DEF IInv, Good
<1>3. Same(srv, x) /\ Timers(srv, x) /\ SameLock(srv, x)
  BY <1>1 DEF IInv, Good, State, Same, Timers, SameLock
<1>4. x.idleSeen = srv.idleSeen /\ x.error = srv.error /\ x.proc = srv.proc /\ ~x.reply[s]
  BY <1>1 DEF IInv, Good, State
<1>5. Outcome(srv, x, {})
  BY <1>3, <1>4, SameOutcome DEF SameLock
<1>6. Good(x) /\ Move(srv, x, {}) /\ x.life[s] # "unborn"
  BY <1>2, <1>3, <1>4, <1>5, SameGood DEF IInv, HelperReply, Alive, Same
<1>7. PICK F : srv' = DoneCb(x, s, success, F)
  BY <1>1 DEF HelperReply
<1>8. srv'.reply = x.reply
  <2>1. PICK b : b = success
    OBVIOUS
  <2>2. PICK y : y = DoneCb(x, s, b, F)
    OBVIOUS
  <2>3. /\ Good(y) /\ Move(x, y, IF b THEN {s} ELSE {}) /\ y.reply = x.reply
        /\ x.shutdownRequested => y.activeSession \in {x.activeSession, None}
    <3>1. Good(x) /\ x.life[s] # "unborn"
      BY <1>6
    <3> QED
      BY <2>2, <3>1, DoneCbGood
  <2> QED
    BY <1>7, <2>1, <2>2, <2>3
<1>9. s \in Answered
  BY <1>4, <1>8 DEF Answered, HelperReply
<1> QED
  BY <1>3, <1>6, <1>7, <1>9, DoneCbStep DEF IInv

\* The step HelperQuit: only a session that is not idle has a helper.
LEMMA HelperQuitStep ==
    ASSUME IInv, NEW s \in Sessions, NEW regular \in BOOLEAN, HelperQuit(s, regular)
    PROVE  Moved
<1> DEFINE userabort == /\ srv.status[s] # "DONE"
                        /\ srv.wasAborted[s]
                        /\ regular
                        /\ srv.error[s] = "none"
<1>1. PICK e \in {"none", "userabort", "failed"} :
         e = IF userabort THEN "userabort" ELSE srv.error[s]
  BY DEF IInv, Good, State
<1>2. PICK x : x = [srv EXCEPT !.proc[s] = "quit", !.closing[s] = TRUE, !.error[s] = e]
  OBVIOUS
<1>3. srv.status[s] # "IDLE"
  BY DEF HelperQuit, IInv, Clean
<1>4. x \in State
  <2>1. PICK u : u = [srv EXCEPT !.proc[s] = "quit"]
    OBVIOUS
  <2>2. u \in State
    BY <1>3, <2>1, ProcGood DEF IInv, Good
  <2>3. PICK v : v = [u EXCEPT !.closing[s] = TRUE]
    OBVIOUS
  <2>4. v \in State
    BY <2>2, <2>3, FlagTypes
  <2>5. [v EXCEPT !.error[s] = e] \in State
    BY <2>4, ZenonT(60) DEF State
  <2> QED
    BY <1>2, <2>1, <2>3, <2>5
<1>5. Same(srv, x) /\ Timers(srv, x) /\ SameLock(srv, x)
  BY <1>2 DEF IInv, Good, State, Same, Timers, SameLock
<1>6. /\ x.idleSeen = srv.idleSeen /\ x.error[s] = e
      /\ \A t \in Sessions \ {s} : x.error[t] = srv.error[t] /\ x.proc[t] = srv.proc[t]
  BY <1>2 DEF IInv, Good, State
<1>7. Outcome(srv, x, {})
  <2>1. srv.error[s] # "none" => x.error[s] = srv.error[s]
    BY <1>1, <1>6
  <2> QED
    BY <1>3, <1>5, <1>6, <2>1 DEF SameLock, Outcome, Clean
<1>8. Good(x) /\ Move(srv, x, {}) /\ x.life[s] # "unborn"
  BY <1>4, <1>5, <1>6, <1>7, SameGood DEF IInv, HelperQuit, Alive, Same
<1>9. PICK F : srv' = IF srv.proc[s] = "starting" THEN DoneCb(x, s, FALSE, F) ELSE x
  BY <1>1, <1>2 DEF HelperQuit
<1>10. CASE srv.proc[s] = "starting"
  <2>1. srv' = DoneCb(x, s, FALSE, F)
    BY <1>9, <1>10
  <2> QED
    BY <1>5, <1>8, <2>1, DoneCbStep DEF IInv
<1>11. CASE srv.proc[s] # "starting"
  <2>1. srv' = x
    BY <1>9, <1>11
  <2> QED
    BY <1>5, <1>8, <2>1, MoveStep DEF LockKept, SameLock
<1> QED
  BY <1>10, <1>11

\* The step HelperQuitTimeout.
LEMMA HelperQuitTimeoutStep ==
    ASSUME IInv, NEW s \in Sessions, HelperQuitTimeout(s)
    PROVE  Moved
<1>1. PICK x : x = [srv EXCEPT !.closing[s] = FALSE]
  OBVIOUS
<1>2. x \in State
  BY <1>1, FlagTypes DEF IInv, Good
<1>3. Same(srv, x) /\ Timers(srv, x) /\ SameLock(srv, x)
  BY <1>1 DEF IInv, Good, State, Same, Timers, SameLock
<1>4. x.idleSeen = srv.idleSeen /\ x.error = srv.error /\ x.proc = srv.proc
  BY <1>1 DEF IInv, Good, State
<1>5. Outcome(srv, x, {})
  BY <1>3, <1>4, SameOutcome DEF SameLock
<1>6. Good(x) /\ Move(srv, x, {}) /\ x.life[s] # "unborn"
  BY <1>2, <1>3, <1>4, <1>5, SameGood DEF IInv, HelperQuitTimeout, Alive, Same
<1>7. PICK F : srv' = DoneCb(x, s, FALSE, F)
  BY <1>1 DEF HelperQuitTimeout
<1> QED
  BY <1>3, <1>6, <1>7, DoneCbStep DEF IInv

\* The step SessionExpired.
LEMMA SessionExpiredStep ==
    ASSUME IInv, NEW s \in Sessions, SessionExpired(s)
    PROVE  Moved
<1>1. PICK x : x = [srv EXCEPT !.delayed[s] = FALSE]
  OBVIOUS
<1>2. Good(x) /\ Same(srv, x) /\ SameLock(srv, x) /\ Move(srv, x, {})
  BY <1>1, DelayedGood DEF IInv
<1>3. PICK F : srv' = Collect(x, s, F)
  BY <1>1 DEF SessionExpired
<1> QED
  BY <1>2, <1>3, CollectStep DEF IInv

\* A step that may start a timer, request a shutdown or leave the main loop, and
\* leaves the sessions alone.
LEMMA EndingStep ==
    ASSUME IInv, srv' \in State, SameLock(srv, srv'), Ending(srv'),
           srv'.life = srv.life, srv'.refs = srv.refs, srv'.peer = srv.peer,
           srv'.idleSeen = srv.idleSeen, srv'.error = srv.error, srv'.proc = srv.proc
    PROVE  Moved
<1>1. Consistent(srv') /\ HolderAlive(srv')
  BY DEF IInv, Good, Consistent, LockIs, SyncIs, QueueIdle, QueueOnce, UnbornIdle,
         HolderAlive, SameLock
<1>2. PeerOnce(srv') /\ Heard(srv')
  BY DEF IInv, Good, PeerOnce, Heard, Queued, IsIdle, SameLock
<1>3. Outcome(srv, srv', {})
  BY SameOutcome DEF SameLock
<1>4. Move(srv, srv', {})
  BY <1>3, StillMove
<1> QED
  BY <1>1, <1>2, <1>4, MoveStep DEF Good, LockKept, SameLock

\* The step FileModified.
LEMMA FileModifiedStep ==
    ASSUME IInv, FileModified
    PROVE  Moved
<1>1. PICK b \in BOOLEAN : b = (srv.shutdownTimer \/ srv.activeSession = None)
  OBVIOUS
<1>2. srv' = [srv EXCEPT !.fileMod = "recent", !.shutdownTimer = b, !.shutdownRequested = TRUE]
  BY <1>1 DEF FileModified
<1>3. srv' \in State
  BY <1>2, ZenonT(60) DEF IInv, Good, State
<1>4. /\ SameLock(srv, srv') /\ srv'.life = srv.life /\ srv'.refs = srv.refs
      /\ srv'.peer = srv.peer
      /\ srv'.idleSeen = srv.idleSeen /\ srv'.error = srv.error /\ srv'.proc = srv.proc
  BY <1>2 DEF IInv, Good, State, SameLock
<1>5. srv'.shutdownTimer = b /\ srv'.quitPending = srv.quitPending /\ srv'.shutdownRequested
  BY <1>2 DEF IInv, Good, State
<1>6. Ending(srv')
  BY <1>1, <1>4, <1>5 DEF IInv, Good, Consistent, Ending, SameLock
<1> QED
  BY <1>3, <1>4, <1>6, EndingStep

\* The step QuiescencePassed.
LEMMA QuiescencePassedStep ==
    ASSUME IInv, QuiescencePassed
    PROVE  Moved
<1>1. srv' = [srv EXCEPT !.fileMod = "old"] /\ srv.fileMod = "recent"
  BY DEF QuiescencePassed
<1>2. srv' \in State
  BY <1>1, ZenonT(60) DEF IInv, Good, State
<1>3. /\ SameLock(srv, srv') /\ srv'.life = srv.life /\ srv'.refs = srv.refs
      /\ srv'.peer = srv.peer
      /\ srv'.idleSeen = srv.idleSeen /\ srv'.error = srv.error /\ srv'.proc = srv.proc
  BY <1>1 DEF IInv, Good, State, SameLock
<1>4. Timers(srv, srv') /\ srv'.shutdownRequested = srv.shutdownRequested
  BY <1>1 DEF IInv, Good, State, Timers
<1>5. Ending(srv')
  BY <1>1, <1>3, <1>4 DEF IInv, Good, Consistent, Ending, SameLock, Timers
<1> QED
  BY <1>2, <1>3, <1>5, EndingStep

\* Leaving the main loop.
LEMMA LoopEndStep ==
    ASSUME IInv, NEW v \in {"quit", "restart"}, srv' = [srv EXCEPT !.loop = v]
    PROVE  Moved
<1>1. srv' \in State
  BY ZenonT(60) DEF IInv, Good, State
<1>2. Same(srv, srv') /\ Timers(srv, srv') /\ SameLock(srv, srv')
  BY DEF IInv, Good, State, Same, Timers, SameLock
<1>3. srv'.idleSeen = srv.idleSeen /\ srv'.error = srv.error /\ srv'.proc = srv.proc
  BY DEF IInv, Good, State
<1>4. Outcome(srv, srv', {})
  BY <1>2, <1>3, SameOutcome DEF SameLock
<1> QED
  BY <1>1, <1>2, <1>3, <1>4, SameStep

\* Requesting a shutdown and leaving the main loop.
LEMMA TerminateStep ==
    ASSUME IInv, srv' = [srv EXCEPT !.shutdownRequested = TRUE, !.loop = "quit"]
    PROVE  Moved
<1>1. srv' \in State
  BY ZenonT(60) DEF IInv, Good, State
<1>2. /\ SameLock(srv, srv') /\ srv'.life = srv.life /\ srv'.refs = srv.refs
      /\ srv'.peer = srv.peer
      /\ srv'.idleSeen = srv.idleSeen /\ srv'.error = srv.error /\ srv'.proc = srv.proc
  BY DEF IInv, Good, State, SameLock
<1>3. Timers(srv, srv') /\ srv'.shutdownRequested
  BY DEF IInv, Good, State, Timers
<1>4. Ending(srv')
  BY <1>2, <1>3 DEF IInv, Good, Consistent, Ending, SameLock, Timers
<1> QED
  BY <1>1, <1>2, <1>4, EndingStep

\* A signal that says "idle" whenever the server is idle is right.
LEMMA SignalRight ==
    ASSUME Good(srv'), IsIdle(srv') => srv'.idleSeen
    PROVE  IdleSignalled'
<1>1. srv'.idleSeen \in BOOLEAN /\ IsIdle(srv') \in BOOLEAN
  BY DEF Good, State, IsIdle
<1>2. srv'.idleSeen = IsIdle(srv')
  BY <1>1 DEF Good, Heard
<1> QED
  BY <1>2 DEF IdleSignalled, IsIdle

\* A step outside of killSessionsAsync() that adds nobody to the queue.
LEMMA MovedGood ==
    ASSUME IInv, Moved, pc.loop # "kill", pc' \in PC, pc'.loop # "kill"
    PROVE  IInv' /\ Preserved /\ Moves /\ SignalKept
<1>1. Preserved /\ Moves
  BY DEF Moved, Move, Preserved, Moves
<1>2. Clean(srv')
  BY DEF Moved, Move, Outcome, IInv
<1>3. Good(srv') /\ (IsIdle(srv') => srv'.idleSeen \/ (IsIdle(srv) /\ ~srv.idleSeen))
  BY DEF Moved, Move, Told
<1>4. Creating' /\ SignalKept
  BY <1>3, SignalRight DEF Creating, SignalKept, IdleSignalled, IsIdle
<1> QED
  BY <1>1, <1>2, <1>4 DEF IInv, Moved, Good, Clean, Consistent, LockIs, SyncIs, QueueIdle, QueueOnce,
                          UnbornIdle, Ending, HolderAlive, PeerOnce, Heard, IsIdle, Queued

\* A step between two iterations of the main loop that adds nobody to the queue.
LEMMA MainLoopStep ==
    ASSUME IInv, Moved, pc = Ready, pc' = pc
    PROVE  IInv' /\ Preserved /\ Moves /\ SignalKept
BY MovedGood DEF Ready, PC

\* A step that adds a session to the queue.
LEMMA CameGood ==
    ASSUME IInv, NEW s \in Sessions, Came(s), pc' = Ready,
           IF pc.loop = "kill" THEN pc.who = s ELSE srv.life[s] = "unborn"
    PROVE  IInv' /\ Preserved /\ Moves /\ SignalKept
<1>1. pc' \in PC /\ pc'.loop # "kill" /\ Creating'
  BY ReadyCreating DEF Ready
<1>2. Preserved /\ Moves
  BY <1>1 DEF Came, Moves
<1>3. Clean(srv')
  BY DEF Came, Preserved, Outcome, IInv
<1>4. SignalKept
  BY SignalRight DEF Came, Preserved, SignalKept
<1> QED
  BY <1>1, <1>2, <1>3, <1>4
     DEF IInv, Preserved, Good, Clean, Consistent, LockIs, SyncIs, QueueIdle, QueueOnce,
         UnbornIdle, Ending, HolderAlive, PeerOnce, Heard, IsIdle, Queued

\* A step inside of killSessionsAsync(), or one which begins it.
LEMMA KillGood ==
    ASSUME IInv, Preserved, pc' \in PC, pc'.loop = "kill", Creating'
    PROVE  IInv' /\ SignalKept
<1>1. Clean(srv')
  BY DEF Preserved, Outcome, IInv
<1>2. SignalKept
  BY DEF SignalKept, IdleSignalled
<1> QED
  BY <1>1, <1>2
     DEF IInv, Preserved, Good, Clean, Consistent, LockIs, SyncIs, QueueIdle, QueueOnce,
         UnbornIdle, Ending, HolderAlive, PeerOnce, Heard, IsIdle, Queued

\* Every step preserves the invariant, never hands on the lock after a shutdown was
\* requested, keeps the errors, lets sessions wait, leave and take their turn, and
\* leaves the idle signal right unless a start failed.
LEMMA StepGood == IInv /\ Next => IInv' /\ Preserved /\ Moves /\ SignalKept
<1> SUFFICES ASSUME IInv, Next
             PROVE  IInv' /\ Preserved /\ Moves /\ SignalKept
  OBVIOUS
<1>1. CASE \E c \in Clients, s \in Sessions : Attach(c, s) \/ Detach(c, s)
  <2>1. PICK c \in Clients, s \in Sessions : Attach(c, s) \/ Detach(c, s)
    BY <1>1
  <2>2. pc = Ready /\ pc' = pc
    BY <2>1 DEF Attach, Detach, InMainLoop
  <2> QED
    BY <2>1, <2>2, AttachStep, DetachStep, MainLoopStep
<1>2. CASE \E c \in Clients, s \in Sessions : StartSession(c, s)
  <2>1. PICK c \in Clients, s \in Sessions : StartSession(c, s)
    BY <1>2
  <2>2. Came(s)
    BY <2>1, StartSessionStep
  <2>3. pc' = Ready /\ pc.loop # "kill" /\ srv.life[s] = "unborn"
    BY <2>1 DEF StartSession, InMainLoop, Ready
  <2> QED
    BY <2>2, <2>3, CameGood
<1>3. CASE \E c \in Clients : ClientGone(c)
  <2>1. PICK c \in Clients : ClientGone(c)
    BY <1>3
  <2>2. srv' = srv /\ pc' = [loop |-> "clientGone", who |-> c] /\ pc = Ready
    BY <2>1 DEF ClientGone, InMainLoop
  <2>3. Move(srv, srv, {})
    BY SameOutcome, StillMove DEF SameLock
  <2>4. Moved
    BY <2>2, <2>3, MoveStep DEF IInv, LockKept
  <2>5. pc.loop # "kill" /\ pc' \in PC /\ pc'.loop # "kill"
    BY <2>2 DEF Ready, PC
  <2> QED
    BY <2>4, <2>5, MovedGood
<1>4. CASE \E c \in Clients : ClientGoneDetach(c)
  <2>1. PICK c \in Clients : ClientGoneDetach(c)
    BY <1>4
  <2>2. pc = [loop |-> "clientGone", who |-> c] /\ (pc' = pc \/ pc' = Ready)
    BY <2>1 DEF ClientGoneDetach
  <2>3. pc.loop # "kill" /\ pc' \in PC /\ pc'.loop # "kill"
    BY <2>2 DEF Ready, PC
  <2> QED
    BY <2>1, <2>3, ClientGoneDetachStep, MovedGood
<1>5. CASE \E s \in Sessions, p \in Peers \cup {None} : ConnectionProcess(s, p)
  <2>1. PICK s \in Sessions, p \in Peers \cup {None} : ConnectionProcess(s, p)
    BY <1>5
  <2>2. pc = Ready /\ pc.loop # "kill" /\ srv.life[s] = "unborn"
    BY <2>1 DEF ConnectionProcess, InMainLoop, Ready
  <2>3. CASE pc' = pc /\ Came(s)
    BY <2>2, <2>3, CameGood
  <2>4. CASE pc' = [loop |-> "kill", who |-> s] /\ Creating' /\ Created(s)
    <3>1. pc' \in PC /\ pc'.loop = "kill"
      BY <2>4 DEF PC
    <3>2. Preserved /\ Moves
      BY <2>2, <2>4 DEF Created, Moves
    <3> QED
      BY <2>4, <3>1, <3>2, KillGood
  <2> QED
    BY <2>1, <2>3, <2>4, ConnectionProcessStep
<1>6. CASE \E s \in Sessions, p \in Peers \cup {None} : StartAutoSync(s, p)
  <2>1. PICK s \in Sessions, p \in Peers \cup {None} : StartAutoSync(s, p)
    BY <1>6
  <2>2. Came(s)
    BY <2>1, StartAutoSyncStep
  <2>3. pc' = Ready /\ pc.loop # "kill" /\ srv.life[s] = "unborn"
    BY <2>1 DEF StartAutoSync, InMainLoop, Ready
  <2> QED
    BY <2>2, <2>3, CameGood
<1>7. CASE \E s \in Sessions : KillQueued(s)
  <2>1. PICK s \in Sessions : KillQueued(s)
    BY <1>7
  <2>2. pc' = pc /\ pc'.loop = "kill"
    BY <2>1 DEF KillQueued
  <2>3. Preserved /\ Turn(srv, srv') /\ pc' \in PC /\ Creating'
    BY <2>1, KillQueuedStep
  <2>4. Moves
    BY <2>2, <2>3 DEF Moves
  <2> QED
    BY <2>2, <2>3, <2>4, KillGood
<1>8. CASE \E s \in Sessions : KillDone(s)
  <2>1. PICK s \in Sessions : KillDone(s)
    BY <1>8
  <2>2. Came(s)
    BY <2>1, KillDoneStep
  <2>3. pc' = Ready /\ pc.loop = "kill" /\ pc.who = s
    BY <2>1 DEF KillDone
  <2> QED
    BY <2>2, <2>3, CameGood
<1>9. CASE \E s \in Sessions : ConnectionFailed(s) \/ ConnectionDestroyed(s) \/ SessionExpired(s)
  <2>1. PICK s \in Sessions : ConnectionFailed(s) \/ ConnectionDestroyed(s) \/ SessionExpired(s)
    BY <1>9
  <2>2. pc = Ready /\ pc' = pc
    BY <2>1 DEF ConnectionFailed, ConnectionDestroyed, SessionExpired, InMainLoop
  <2> QED
    BY <2>1, <2>2, ConnectionFailedStep, ConnectionDestroyedStep, SessionExpiredStep, MainLoopStep
<1>10. CASE \E s \in Sessions, op \in Operations : StartOperation(s, op)
  <2>1. PICK s \in Sessions, op \in Operations : StartOperation(s, op)
    BY <1>10
  <2>2. pc = Ready /\ pc' = pc
    BY <2>1 DEF StartOperation, InMainLoop
  <2> QED
    BY <2>1, <2>2, StartOperationStep, MainLoopStep
<1>11. CASE \E s \in Sessions : Abort(s) \/ Suspend(s) \/ SetFreeze(s)
  <2>1. PICK s \in Sessions : Abort(s) \/ Suspend(s) \/ SetFreeze(s)
    BY <1>11
  <2>2. pc = Ready /\ pc' = pc
    BY <2>1 DEF Abort, Suspend, Interrupt, SetFreeze, InMainLoop
  <2>3. Moved
    BY <2>1, InterruptStep, SetFreezeStep DEF Abort, Suspend
  <2> QED
    BY <2>2, <2>3, MainLoopStep
<1>12. CASE \E s \in Sessions : HelperStep(s)
  <2>1. PICK s \in Sessions : HelperStep(s)
    BY <1>12
  <2>2. pc = Ready /\ pc' = pc
    BY <2>1 DEF HelperStep, HelperConnect, HelperReply, HelperQuit, HelperQuitTimeout, InMainLoop
  <2>3. Moved
    BY <2>1, HelperConnectStep, HelperReplyStep, HelperQuitStep, HelperQuitTimeoutStep DEF HelperStep
  <2> QED
    BY <2>2, <2>3, MainLoopStep
<1>13. CASE FileModified \/ QuiescencePassed
  <2>1. pc = Ready /\ pc' = pc
    BY <1>13 DEF FileModified, QuiescencePassed, InMainLoop
  <2> QED
    BY <1>13, <2>1, FileModifiedStep, QuiescencePassedStep, MainLoopStep
<1>14. CASE Shutdown \/ QuitLoop \/ AutoTerminate \/ Signalled
  <2>1. pc = Ready /\ pc' = pc
    BY <1>14 DEF Shutdown, QuitLoop, AutoTerminate, Signalled, InMainLoop
  <2>2. Moved
    <3>1. CASE Shutdown \/ QuitLoop
      <4>1. \E v \in {"quit", "restart"} : srv' = [srv EXCEPT !.loop = v]
        BY <3>1 DEF Shutdown, QuitLoop
      <4> QED
        BY <4>1, LoopEndStep
    <3>2. CASE AutoTerminate \/ Signalled
      BY <3>2, TerminateStep DEF AutoTerminate, Signalled
    <3> QED
      BY <1>14, <3>1, <3>2
  <2> QED
    BY <2>1, <2>2, MainLoopStep
<1> QED
  BY <1>1, <1>2, <1>3, <1>4, <1>5, <1>6, <1>7, <1>8, <1>9, <1>10, <1>11, <1>12, <1>13, <1>14
     DEF Next

-----------------------------------------------------------------------------
(* The theorems. *)

\* The inductive invariant holds in every reachable state, for any number of
\* clients, sessions and peers.
THEOREM Invariance == Spec => []IInv
<1>1. IInv /\ [Next]_vars => IInv'
  <2>1. IInv /\ UNCHANGED vars => IInv'
    BY DEF vars, IInv, Good, Creating, Consistent, LockIs, SyncIs, QueueIdle, QueueOnce, UnbornIdle,
           Ending, HolderAlive, PeerOnce, Heard, Clean, IsIdle, Queued
  <2> QED
    BY <2>1, StepGood
<1> QED
  BY <1>1, InitGood, PTL DEF Spec

\* All members of the server and its sessions keep their types; in particular no
\* client's reference count for a session gets negative or exceeds its bound.
THEOREM TypeCorrect == Spec => []TypeOK
<1>1. IInv => TypeOK
  BY DEF IInv, Good, TypeOK
<1> QED
  BY <1>1, Invariance, PTL

\* Mutual exclusion of sessions: the holder of m_activeSession is the one session
\* that is active or running, and it is alive.
THEOREM LockHolderSafe == Spec => []LockHolder
<1>1. IInv => LockHolder
  BY DEF IInv, Good, Consistent, LockIs, HolderAlive, LockHolder, Alive
<1> QED
  BY <1>1, Invariance, PTL

\* checkQueue() only ever finds idle sessions in m_workQueue, each of them once, so
\* that activateSession() never throws its "internal error".
THEOREM OnlyIdleQueuedSafe == Spec => []OnlyIdleQueued
<1>1. IInv => OnlyIdleQueued
  BY DEF IInv, Good, Consistent, QueueIdle, QueueOnce, OnlyIdleQueued, Queued, Alive
<1> QED
  BY <1>1, Invariance, PTL

\* m_syncSession refers to a session exactly while that session is running.
THEOREM RunningIsProtectedSafe == Spec => []RunningIsProtected
<1>1. IInv => RunningIsProtected
  BY DEF IInv, Good, Consistent, SyncIs, RunningIsProtected
<1> QED
  BY <1>1, Invariance, PTL

\* Neither m_shutdownTimer nor the timeout of checkQueue() ends the server while a
\* session is active.
THEOREM NoShutdownWhileActiveSafe == Spec => []NoShutdownWhileActive
<1>1. IInv => NoShutdownWhileActive
  BY DEF IInv, Good, Consistent, Ending, NoShutdownWhileActive
<1> QED
  BY <1>1, Invariance, PTL

\* AutoTerm never believes the server to be idle while a session is queued or active,
\* whichever helpers cannot be started.
THEOREM NoAutoTermWhileBusySafe == Spec => []NoAutoTermWhileBusy
<1>1. IInv => NoAutoTermWhileBusy
  BY DEF IInv, Good, Heard, NoAutoTermWhileBusy
<1> QED
  BY <1>1, Invariance, PTL

\* After killSessionsAsync() the queue holds at most one live session of each peer.
THEOREM OneWaitingPerPeerSafe == Spec => []OneWaitingPerPeer
<1>1. IInv => OneWaitingPerPeer
  BY DEF IInv, Good, PeerOnce, OneWaitingPerPeer, Alive
<1> QED
  BY <1>1, Invariance, PTL

\* Whichever helpers cannot be started, every step leaves the listeners of
\* m_idleSignal with the value of isIdle(), except for an enqueue() in an idle server
\* whose own session cannot be started.
THEOREM IdleSignalAccurateSafe == Spec => IdleSignalAccurate
<1>1. IInv /\ [Next]_vars => [IdleSignalled => IdleSignalled' \/ StartFailed]_vars
  BY StepGood DEF SignalKept
<1> QED
  BY <1>1, Invariance, PTL DEF Spec, IdleSignalAccurate

\* Once a shutdown was requested, no further session gets the main lock.
THEOREM NoActivationAfterShutdownSafe == Spec => NoActivationAfterShutdown
<1>1. IInv /\ [Next]_vars
        => [srv.shutdownRequested => srv'.activeSession \in {srv.activeSession, None}]_vars
  BY StepGood DEF Preserved, LockKept
<1> QED
  BY <1>1, Invariance, PTL DEF Spec, NoActivationAfterShutdown

\* The first error of a session is never replaced by a later one.
THEOREM ErrorIsStickySafe == Spec => ErrorIsSticky
<1>1. IInv /\ [Next]_vars
        => [\A s \in Sessions : srv.error[s] # "none" => srv'.error[s] = srv.error[s]]_vars
  BY StepGood DEF Preserved, Outcome, IInv
<1> QED
  BY <1>1, Invariance, PTL DEF Spec, ErrorIsSticky

\* No session ends without an error unless the step handles its helper's answer.
THEOREM SuccessNeedsReplySafe == Spec => SuccessNeedsReply
<1>1. IInv /\ Next
        => \A s \in Sessions :
              /\ srv.status[s] # "DONE"
              /\ srv'.status[s] = "DONE"
              /\ srv'.error[s] = "none"
              => srv.reply[s] /\ ~srv'.reply[s]
  <2> SUFFICES ASSUME IInv, Next, NEW s \in Sessions, srv.status[s] # "DONE",
                      srv'.status[s] = "DONE", srv'.error[s] = "none"
               PROVE  srv.reply[s] /\ ~srv'.reply[s]
    OBVIOUS
  <2>1. Outcome(srv, srv', Answered) /\ Clean(srv)
    BY StepGood DEF Preserved, IInv
  <2>2. s \in Answered
    BY <2>1 DEF Outcome
  <2> QED
    BY <2>2 DEF Answered
<1>2. IInv /\ [Next]_vars
        => [\A s \in Sessions :
              /\ srv.status[s] # "DONE"
              /\ srv'.status[s] = "DONE"
              /\ srv'.error[s] = "none"
              => srv.reply[s] /\ ~srv'.reply[s]]_vars
  BY <1>1
<1> QED
  BY <1>2, Invariance, PTL DEF Spec, SuccessNeedsReply

-----------------------------------------------------------------------------
(***************************************************************************)
(* The scheduler implements SessionTurns. What a step of the scheduler     *)
(* does to those who wait was established with the inductive invariant     *)
(* (Moves): here it is translated into a step of SessionTurns. The         *)
(* sessions that leave in that step are those which stood in line, held    *)
(* the lock or just arrived, and now neither stand in line nor hold the    *)
(* lock.                                                                   *)
(***************************************************************************)

\* Who leaves in a step in which the sessions in C arrive.
Leaving(C) == (Waiting \cup {srv.activeSession} \cup C) \ (Waiting' \cup {srv'.activeSession})

\* The order of those who waited and of the sessions in C.
Line(C) == Order \cup (Waiting \X C)

-----------------------------------------------------------------------------

\* Those who wait are alive sessions; the holder of the lock and a session that is
\* being created are not among them.
LEMMA WaitingFacts ==
    ASSUME IInv
    PROVE  /\ Waiting \subseteq Sessions /\ None \notin Sessions
           /\ srv.activeSession \in Sessions \cup {None}
           /\ srv.activeSession \notin Waiting
           /\ \A t \in Waiting \cup ({srv.activeSession} \ {None}) : srv.life[t] = "alive"
           /\ pc.loop = "kill" => /\ pc.who \in Sessions
                                  /\ srv.life[pc.who] = "alive"
                                  /\ pc.who \notin Waiting \cup {srv.activeSession}
<1>1. /\ \A i \in 1..Len(srv.workQueue) : srv.workQueue[i] \in Sessions
      /\ srv.activeSession \in Sessions \cup {None}
  BY Types DEF IInv, Good
<1>2. Waiting \subseteq Sessions /\ None \notin Sessions
  BY <1>1, ServerAssumption DEF Waiting, Queued
<1>3. \A t \in Waiting : srv.life[t] = "alive" /\ srv.status[t] = "IDLE"
  BY DEF Waiting, Queued, Alive, IInv, Good, Consistent, QueueIdle
<1>4. srv.activeSession \in Sessions =>
         srv.life[srv.activeSession] = "alive" /\ srv.status[srv.activeSession] \in {"ACTIVE", "RUNNING"}
  BY DEF IInv, Good, Consistent, LockIs, HolderAlive
<1>5. srv.activeSession \notin Waiting
  BY <1>2, <1>3, <1>4
<1>6. pc.loop = "kill" => /\ pc.who \in Sessions
                          /\ srv.life[pc.who] = "alive"
                          /\ pc.who \notin Waiting \cup {srv.activeSession}
  BY <1>4 DEF IInv, Creating, Waiting
<1> QED
  BY <1>1, <1>2, <1>3, <1>4, <1>5, <1>6

\* The same for the state after a step.
LEMMA WaitingFactsPrime ==
    ASSUME IInv'
    PROVE  /\ Waiting' \subseteq Sessions
           /\ srv'.activeSession \in Sessions \cup {None}
           /\ srv'.activeSession \notin Waiting'
<1>1. /\ \A i \in 1..Len(srv'.workQueue) : srv'.workQueue[i] \in Sessions
      /\ srv'.activeSession \in Sessions \cup {None}
  BY Types DEF IInv, Good
<1>2. Waiting' \subseteq Sessions
  BY <1>1 DEF Waiting, Queued
<1>3. \A t \in Waiting' : srv'.status[t] = "IDLE"
  BY DEF Waiting, Queued, Alive, IInv, Good, Consistent, QueueIdle
<1>4. srv'.activeSession \in Sessions => srv'.status[srv'.activeSession] \in {"ACTIVE", "RUNNING"}
  BY DEF IInv, Good, Consistent, LockIs
<1> QED
  BY <1>1, <1>2, <1>3, <1>4, ServerAssumption

\* Order is the order of the live entries.
LEMMA OrderFacts ==
    ASSUME IInv
    PROVE  /\ \A t, v \in Waiting : <<t, v>> \in Order <=> Ahead(srv, t, v)
           /\ Order \subseteq Waiting \X Waiting
           /\ \A t, v \in Waiting : Ahead(srv, t, v) => ~Ahead(srv, v, t)
<1>1. \A t, v \in Waiting : <<t, v>> \in Order <=> InFrontOf(t, v)
  BY DEF Order
<1>2. \A t, v : InFrontOf(t, v) <=> Ahead(srv, t, v)
  BY DEF InFrontOf, Ahead, AheadIn
<1>3. Order \subseteq Waiting \X Waiting
  BY DEF Order
<1>4. \A t, v \in Waiting : Ahead(srv, t, v) => ~Ahead(srv, v, t)
  <2> SUFFICES ASSUME NEW t, NEW v, Ahead(srv, t, v), Ahead(srv, v, t)
               PROVE  FALSE
    OBVIOUS
  <2>1. PICK i, j \in 1..Len(srv.workQueue) :
           i < j /\ srv.workQueue[i] = t /\ srv.workQueue[j] = v
    BY DEF Ahead, AheadIn
  <2>2. PICK k, m \in 1..Len(srv.workQueue) :
           k < m /\ srv.workQueue[k] = v /\ srv.workQueue[m] = t
    BY DEF Ahead, AheadIn
  <2>3. i = m /\ j = k
    BY <2>1, <2>2 DEF IInv, Good, Consistent, QueueOnce
  <2>4. Len(srv.workQueue) \in Nat
    BY Types DEF IInv, Good
  <2> QED
    BY <2>1, <2>2, <2>3, <2>4
<1> QED
  BY <1>1, <1>2, <1>3, <1>4

\* The order after a step.
LEMMA OrderFactsPrime ==
    /\ \A t, v \in Waiting' : <<t, v>> \in Order' <=> Ahead(srv', t, v)
    /\ Order' \subseteq Waiting' \X Waiting'
<1>1. \A t, v \in Waiting' : <<t, v>> \in Order' <=> InFrontOf(t, v)'
  BY DEF Order
<1>2. \A t, v : InFrontOf(t, v)' <=> Ahead(srv', t, v)
  BY DEF InFrontOf, Ahead, AheadIn
<1>3. Order' \subseteq Waiting' \X Waiting'
  BY DEF Order
<1> QED
  BY <1>1, <1>2, <1>3

\* A step of SessionTurns in which the sessions in C arrive.
LEMMA StepRefines ==
    ASSUME IInv, IInv', NEW C, C \subseteq Sessions, srv.activeSession \notin C,
           Waiting' \subseteq Waiting \cup C,
           \A t, v \in Waiting' : <<t, v>> \in Order' <=> <<t, v>> \in Line(C),
           \/ srv'.activeSession \in {srv.activeSession, None}
           \/ /\ srv'.activeSession \in Waiting \cup C
              /\ \A t \in Waiting' \cup {srv'.activeSession} :
                    <<t, srv'.activeSession>> \notin Line(C),
           Gone' = Gone \cup (Leaving(C) \ {None})
    PROVE  Turns!Step(C, Leaving(C))
<1> DEFINE a == srv.activeSession
           b == srv'.activeSession
           L == Leaving(C)
           rest == (Waiting \cup C) \ L
<1>1. /\ a \notin Waiting \cup C /\ b \notin Waiting'
      /\ None \notin Waiting \cup C
  BY WaitingFacts, WaitingFactsPrime
<1>2. Order' = Line(C) \cap (Waiting' \X Waiting')
  <2>1. \A z \in Waiting' \X Waiting' : z \in Order' <=> z \in Line(C)
    OBVIOUS
  <2>2. Order' \subseteq Waiting' \X Waiting'
    BY OrderFactsPrime
  <2> QED
    BY <2>1, <2>2
<1>3. CASE b = a
  <2>1. rest = Waiting'
    BY <1>1, <1>3 DEF Leaving
  <2>2. a \notin L
    BY <1>3 DEF Leaving
  <2> QED
    BY <1>2, <1>3, <2>1, <2>2 DEF Turns!Step, Line
<1>4. CASE b # a /\ b = None
  <2>1. rest = Waiting'
    BY <1>1, <1>4 DEF Leaving
  <2>2. a \in L
    BY <1>1, <1>4 DEF Leaving
  <2> QED
    BY <1>2, <1>4, <2>1, <2>2 DEF Turns!Step, Line
<1>5. CASE b # a /\ b # None
  <2>1. b \in Waiting \cup C /\ \A t \in Waiting' \cup {b} : <<t, b>> \notin Line(C)
    BY <1>5
  <2>2. rest = Waiting' \cup {b}
    BY <1>1, <2>1 DEF Leaving
  <2>3. a \in L
    BY <1>1, <1>5 DEF Leaving
  <2>4. b \in rest /\ Waiting' = rest \ {b}
    BY <1>1, <2>2
  <2> QED
    BY <1>2, <2>1, <2>2, <2>3, <2>4 DEF Turns!Step, Line
<1> QED
  BY <1>3, <1>4, <1>5

\* Nobody arrives: sessions leave, and the first of those who remain gets the lock.
LEMMA TurnRefines ==
    ASSUME IInv, IInv', Turn(srv, srv'),
           pc' = pc \/ (pc.loop # "kill" /\ pc'.loop # "kill")
    PROVE  Turns!Next
<1>1. Waiting' \subseteq Waiting
  <2>1. \A t \in Waiting' : t \in Sessions /\ t \in Queued(srv) /\ srv'.life[t] = "alive"
    BY WaitingFactsPrime DEF Waiting, Alive, Turn
  <2> QED
    BY <2>1 DEF Waiting, Alive, Turn
<1>2. \A t \in Waiting' : t \in Queued(srv')
  BY DEF Waiting
<1>3. \A z : z \in Line({}) <=> z \in Order
  BY DEF Line
<1>4. \A t, v \in Waiting' : <<t, v>> \in Order' <=> <<t, v>> \in Line({})
  <2>1. \A t, v \in Waiting' : Ahead(srv', t, v) <=> Ahead(srv, t, v)
    BY <1>2 DEF Turn
  <2> QED
    BY <1>1, <1>3, <2>1, OrderFacts, OrderFactsPrime
<1>5. \/ srv'.activeSession \in {srv.activeSession, None}
      \/ /\ srv'.activeSession \in Waiting
         /\ \A t \in Waiting' \cup {srv'.activeSession} : <<t, srv'.activeSession>> \notin Line({})
  <2>1. SUFFICES ASSUME srv'.activeSession \in Queued(srv) \ Queued(srv'),
                        srv.life[srv'.activeSession] = "alive",
                        \A t \in Queued(srv') : Ahead(srv, srv'.activeSession, t)
                 PROVE  /\ srv'.activeSession \in Waiting
                        /\ \A t \in Waiting' \cup {srv'.activeSession} :
                              <<t, srv'.activeSession>> \notin Order
    BY <1>3 DEF Turn
  <2>2. srv'.activeSession \in Waiting
    BY <2>1 DEF Waiting, Alive
  <2>3. \A t \in Waiting' : ~Ahead(srv, t, srv'.activeSession)
    BY <1>1, <1>2, <2>1, <2>2, OrderFacts
  <2>4. ~Ahead(srv, srv'.activeSession, srv'.activeSession)
    BY <2>2, OrderFacts
  <2> QED
    BY <1>1, <2>2, <2>3, <2>4, OrderFacts
<1>6. Gone' = Gone \cup (Leaving({}) \ {None})
  <2>1. Arriving' = Arriving
    BY DEF Arriving
  <2>2. Arriving \cap (Waiting \cup {srv.activeSession}) = {}
    BY WaitingFacts DEF Arriving
  <2>3. \A t \in Sessions : srv'.life[t] # "unborn" <=> srv.life[t] # "unborn"
    BY DEF Turn
  <2>4. \A t \in Leaving({}) \ {None} : t \in Sessions /\ srv.life[t] # "unborn"
    BY WaitingFacts DEF Leaving
  <2>5. srv'.activeSession \in Waiting \cup {srv.activeSession, None}
    BY <1>5
  <2>6. \A t \in Sessions : t \in Gone' <=>
           srv.life[t] # "unborn" /\ t \notin Waiting' \cup {srv'.activeSession} \cup Arriving
    BY <2>1, <2>3 DEF Gone
  <2>7. \A t \in Sessions : t \in Gone <=>
           srv.life[t] # "unborn" /\ t \notin Waiting \cup {srv.activeSession} \cup Arriving
    BY DEF Gone
  <2>8. \A t \in Sessions : t \in Leaving({}) <=>
           t \in Waiting \cup {srv.activeSession} /\ t \notin Waiting' \cup {srv'.activeSession}
    BY DEF Leaving
  <2>9. Gone \subseteq Sessions /\ Gone' \subseteq Sessions
    BY DEF Gone
  <2>10. None \notin Sessions
    BY ServerAssumption
  <2>11. ASSUME NEW t \in Sessions
         PROVE  t \in Gone' <=> t \in Gone \/ t \in Leaving({})
    BY <1>1, <2>2, <2>4, <2>5, <2>6, <2>7, <2>8, <2>10
  <2> QED
    BY <2>4, <2>9, <2>10, <2>11
<1>7. Turns!Step({}, Leaving({}))
  BY <1>1, <1>4, <1>5, <1>6, StepRefines
<1>8. Leaving({}) \in SUBSET (Waiting \cup {srv.activeSession})
  BY DEF Leaving
<1> QED
  BY <1>7, <1>8 DEF Turns!Next

\* The session s arrives behind all others.
LEMMA CameRefines ==
    ASSUME IInv, IInv', NEW s \in Sessions, Came(s), pc'.loop # "kill",
           IF pc.loop = "kill" THEN pc.who = s ELSE srv.life[s] = "unborn"
    PROVE  Turns!Next
<1>1. PICK u : Joined(srv, s, u) /\ Turn(u, srv')
  BY DEF Came
<1>2. /\ s \notin Waiting /\ s # srv.activeSession /\ s # None
      /\ Arriving \subseteq {s} /\ Arriving' = {}
  BY WaitingFacts DEF Arriving
<1>3. \A t \in Sessions \ {s} : u.life[t] = srv.life[t]
  BY <1>1 DEF Joined
<1>4. Waiting' \subseteq Waiting \cup {s}
  <2>1. \A t \in Waiting' : t \in Sessions /\ t \in Queued(srv) \cup {s} /\ srv'.life[t] = "alive"
    BY <1>1, WaitingFactsPrime DEF Waiting, Alive, Turn, Joined
  <2> QED
    BY <1>1, <1>3, <2>1 DEF Waiting, Alive, Turn
<1>5. /\ \A t \in Waiting : t \in Queued(srv) /\ srv.life[t] = "alive"
      /\ \A t \in Waiting' : t \in Queued(srv')
  BY DEF Waiting, Alive
<1>6. \A t, v \in Waiting \cup {s} : <<t, v>> \in Line({s}) <=> Ahead(u, t, v)
  <2>1. ASSUME NEW t \in Waiting, NEW v \in Waiting
        PROVE  <<t, v>> \in Line({s}) <=> Ahead(u, t, v)
    BY <1>1, <1>2, <1>5, OrderFacts DEF Line, Joined
  <2>2. ASSUME NEW t \in Waiting
        PROVE  <<t, s>> \in Line({s}) /\ Ahead(u, t, s)
    BY <1>1, <1>5 DEF Line, Joined
  <2>3. ASSUME NEW t \in Waiting \cup {s}
        PROVE  <<s, t>> \notin Line({s}) /\ ~Ahead(u, s, t)
    BY <1>1, <1>2, <1>5, OrderFacts DEF Line, Joined
  <2> QED
    BY <2>1, <2>2, <2>3
<1>7. \A t, v \in Waiting' : <<t, v>> \in Order' <=> <<t, v>> \in Line({s})
  <2>1. \A t, v \in Waiting' : Ahead(srv', t, v) <=> Ahead(u, t, v)
    BY <1>1, <1>5 DEF Turn
  <2> QED
    BY <1>4, <1>6, <2>1, OrderFactsPrime
<1>8. \A t, v \in Waiting \cup {s} : Ahead(u, t, v) => ~Ahead(u, v, t)
  <2>1. \A t, v \in Waiting : Ahead(u, t, v) => ~Ahead(u, v, t)
    BY <1>1, <1>5, OrderFacts DEF Joined
  <2> QED
    BY <1>1, <1>5, <2>1 DEF Joined
<1>9. \/ srv'.activeSession \in {srv.activeSession, None}
      \/ /\ srv'.activeSession \in Waiting \cup {s}
         /\ \A t \in Waiting' \cup {srv'.activeSession} : <<t, srv'.activeSession>> \notin Line({s})
  <2>1. SUFFICES ASSUME srv'.activeSession \in Queued(u) \ Queued(srv'),
                        u.life[srv'.activeSession] = "alive",
                        \A t \in Queued(srv') : Ahead(u, srv'.activeSession, t)
                 PROVE  /\ srv'.activeSession \in Waiting \cup {s}
                        /\ \A t \in Waiting' \cup {srv'.activeSession} :
                              <<t, srv'.activeSession>> \notin Line({s})
    BY <1>1 DEF Turn, Joined
  <2>2. srv'.activeSession \in Waiting \cup {s}
    <3>2. Queued(srv) \subseteq Sessions
      BY Types DEF IInv, Good, Queued
    <3>1. srv'.activeSession \in Sessions
      BY <1>1, <2>1, <3>2 DEF Joined
    <3> QED
      BY <1>1, <1>3, <2>1, <3>1 DEF Waiting, Alive, Joined
  <2>3. \A t \in Waiting' : ~Ahead(u, t, srv'.activeSession)
    BY <1>4, <1>5, <1>8, <2>1, <2>2
  <2>4. ~Ahead(u, srv'.activeSession, srv'.activeSession)
    BY <1>8, <2>2
  <2> QED
    BY <1>4, <1>6, <2>2, <2>3, <2>4
<1>10. Gone' = Gone \cup (Leaving({s}) \ {None})
  <2>1. \A t \in Sessions : srv'.life[t] # "unborn" <=> (t = s \/ srv.life[t] # "unborn")
    BY <1>1, <1>3 DEF Turn, Joined
  <2>2. \A t \in Leaving({s}) \ {None} : t \in Sessions /\ (t = s \/ srv.life[t] # "unborn")
    BY WaitingFacts DEF Leaving
  <2>3. srv'.activeSession \in Waiting \cup {s, srv.activeSession, None}
    BY <1>9
  <2>4. \A t \in Sessions : t \in Gone' <=>
           (t = s \/ srv.life[t] # "unborn") /\ t \notin Waiting' \cup {srv'.activeSession}
    BY <1>2, <2>1 DEF Gone
  <2>5. s \notin Gone
    BY DEF Gone, Arriving
  <2>6. \A t \in Sessions \ {s} : t \in Gone <=>
           srv.life[t] # "unborn" /\ t \notin Waiting \cup {srv.activeSession}
    BY <1>2 DEF Gone
  <2>7. \A t \in Sessions : t \in Leaving({s}) <=>
           t \in Waiting \cup {srv.activeSession, s} /\ t \notin Waiting' \cup {srv'.activeSession}
    BY DEF Leaving
  <2>8. Gone \subseteq Sessions /\ Gone' \subseteq Sessions
    BY DEF Gone
  <2>9. None \notin Sessions
    BY ServerAssumption
  <2>10. ASSUME NEW t \in Sessions
         PROVE  t \in Gone' <=> t \in Gone \/ t \in Leaving({s})
    <3>1. CASE t = s
      BY <2>4, <2>5, <2>7, <3>1
    <3>2. CASE t # s
      BY <1>4, <2>2, <2>3, <2>4, <2>6, <2>7, <2>9, <3>2
    <3> QED
      BY <3>1, <3>2
  <2> QED
    BY <2>2, <2>8, <2>9, <2>10
<1>11. Turns!Step({s}, Leaving({s}))
  BY <1>2, <1>4, <1>7, <1>9, <1>10, StepRefines
<1>12. Leaving({s}) \in SUBSET (Waiting \cup {srv.activeSession, s})
  BY DEF Leaving
<1>13. s \in Sessions \ (Waiting \cup {srv.activeSession} \cup Gone)
  BY <1>2 DEF Gone, Arriving
<1> QED
  BY <1>11, <1>12, <1>13 DEF Turns!Next, Turns!Known

\* A session for which killSessionsAsync() starts has not arrived yet.
LEMMA CreatedRefines ==
    ASSUME IInv, NEW s \in Sessions, Created(s), srv.life[s] = "unborn",
           pc.loop # "kill", pc' = [loop |-> "kill", who |-> s]
    PROVE  UNCHANGED Turns!turns
<1>1. /\ srv'.workQueue = srv.workQueue /\ srv'.activeSession = srv.activeSession
      /\ \A t \in Sessions : srv'.life[t] = IF t = s THEN "alive" ELSE srv.life[t]
  BY DEF Created
<1>2. \A t \in Queued(srv) : t \in Sessions \ {s}
  BY Types DEF IInv, Good, Consistent, QueueIdle, Queued
<1>3. Waiting' = Waiting
  BY <1>1, <1>2 DEF Waiting, Alive, Queued
<1>4. Order' = Order
  BY <1>1, <1>3 DEF Order, InFrontOf
<1>5. Gone' = Gone
  <2>1. Arriving = {} /\ Arriving' = {s}
    BY DEF Arriving
  <2>2. \A t \in Sessions : t \in Gone' <=> t \in Gone
    BY <1>1, <1>3, <2>1 DEF Gone
  <2>3. Gone \subseteq Sessions /\ Gone' \subseteq Sessions
    BY DEF Gone
  <2> QED
    BY <2>2, <2>3
<1> QED
  BY <1>1, <1>3, <1>4, <1>5 DEF Turns!turns

\* At first nobody waits.
LEMMA InitRefines == Init => Turns!Init
<1> SUFFICES ASSUME Init
             PROVE  Turns!Init
  OBVIOUS
<1>1. srv.workQueue = <<>> /\ srv.activeSession = None /\ \A s \in Sessions : srv.life[s] = "unborn"
  BY DEF Init
<1>2. Waiting = {}
  BY <1>1 DEF Waiting, Queued
<1>3. Order = {} /\ Gone = {}
  BY <1>1, <1>2 DEF Order, Gone
<1> QED
  BY <1>1, <1>2, <1>3 DEF Turns!Init

\* Every step of the scheduler is one of SessionTurns or leaves those who wait alone.
LEMMA NextRefines == IInv /\ [Next]_vars => [Turns!Next]_(Turns!turns)
<1>1. ASSUME IInv, Next
      PROVE  Turns!Next \/ UNCHANGED Turns!turns
  <2>1. IInv' /\ Moves
    BY <1>1, StepGood
  <2> QED
    BY <1>1, <2>1, TurnRefines, CameRefines, CreatedRefines DEF Moves
<1>2. ASSUME UNCHANGED vars
      PROVE  UNCHANGED Turns!turns
  BY <1>2 DEF vars, Turns!turns, Waiting, Order, InFrontOf, Gone, Arriving, Queued, Alive
<1> QED
  BY <1>1, <1>2

\* Refinement: sessions get the main lock in the order in which they were enqueued,
\* one at a time and at most once, whatever is destructed, killed or aborted in
\* between, for any number of clients, sessions and peers.
THEOREM ImplementsTurnsHolds == Spec => ImplementsTurns
BY InitRefines, NextRefines, Invariance, PTL DEF Spec, ImplementsTurns, Turns!Spec

=============================================================================
