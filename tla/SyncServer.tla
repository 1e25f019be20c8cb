----------------------------- MODULE SyncServer -----------------------------
(***************************************************************************)
(* The session scheduler of syncevo-dbus-server: src/dbus/server/server.cpp*)
(* (work queue, main lock, delayed destruction, shutdown) together with    *)
(* the session life cycle of session.cpp, the reference counting of        *)
(* client.cpp and the part of connection.cpp and auto-sync-manager.cpp     *)
(* that creates, starts and drops sessions.                                *)
(*                                                                         *)
(* The server is one thread around a GLib main loop: a D-Bus call, a       *)
(* timeout or the end of a helper process runs its handler to completion.  *)
(* The effect of such a handler is a state transformer, an operator from   *)
(* the record srv to its next value, and a handler that calls another one  *)
(* applies its transformer; an action is one entry point of the main loop. *)
(* Two loops of the code (~Client, killSessionsAsync) are unrolled into    *)
(* steps; while one of them is under way (pc # Ready) nothing else runs.   *)
(***************************************************************************)
EXTENDS Naturals, Sequences, FiniteSets, SequencesExt

CONSTANTS
    Clients,         \* D-Bus clients
    Sessions,        \* identities for Session objects, each is created once
    Peers,           \* device IDs of the remote peers
    Operations,      \* what clients ask for, of "sync", "restore", "cmdline"
    None,            \* NULL pointer, empty device ID
    MaxAttach,       \* bound: how often one client attaches to one session
    Stimuli,         \* bound: the requests and events of this instance
    AutoSyncEnabled  \* AutoSyncManager::preventTerm()

AllStimuli ==
    {"StartSession", "Attach", "ConnectionProcess", "StartAutoSync", "Interrupt",
     "SetFreeze", "FileModified", "AutoTerminate", "Signalled"}

ASSUME ServerAssumption ==
    /\ None \notin Sessions \cup Clients \cup Peers
    /\ Operations \subseteq {"sync", "restore", "cmdline"}
    /\ Stimuli \subseteq AllStimuli
    /\ MaxAttach \in Nat \ {0}
    /\ AutoSyncEnabled \in BOOLEAN

VARIABLES
    srv,   \* the Server object and all its Session objects
    pc     \* the loop that is being unrolled, Ready in the main loop

vars == <<srv, pc>>

Ready == [loop |-> "main", who |-> None]

PC == [loop : {"main", "clientGone", "kill"}, who : Clients \cup Sessions \cup {None}]

(***************************************************************************)
(* The fields of srv, named after the members they stand for.              *)
(*   workQueue      m_workQueue, weak pointers: may hold dead sessions     *)
(*   activeSession  m_activeSession and m_activeSessionRef                 *)
(*   syncSession    m_syncSession, a strong reference                      *)
(*   idleSeen       value of the last m_idleSignal                         *)
(*   fileMod        m_lastFileMod: never, within the quiescence period     *)
(*                  ("recent") or longer ago ("old")                       *)
(*   quitPending    the zero-second timeout that runs quitLoop()           *)
(*   loop           has the main loop ended, and how                       *)
(*   autoSession    AutoSyncManager::m_session, a strong reference         *)
(* and for each session                                                    *)
(*   life           not created yet, alive, destructed                     *)
(*   kind, peer     who created it, m_peerDeviceID                         *)
(*   refs           entries for it in the clients' m_resources             *)
(*   conn           its Connection, which owns it: none, open, already     *)
(*                  removed from its client but kept by delayDeletion      *)
(*                  ("closing"), destructed                                *)
(*   delayed        a one minute timeout holds a reference                 *)
(*   status, syncStatus, runOperation, error, wasAborted  the members      *)
(*   proc           m_forkExecParent: NULL, or the state of its child      *)
(*   helper         m_helper is set                                        *)
(*   reply          the helper's Sync()/Restore()/Execute() call pends     *)
(*   closing        the one second timeout of onQuit() pends               *)
(***************************************************************************)
State ==
    [workQueue : Seq(Sessions),
     activeSession : Sessions \cup {None},
     syncSession : Sessions \cup {None},
     autoSession : Sessions \cup {None},
     idleSeen : BOOLEAN,
     shutdownRequested : BOOLEAN,
     fileMod : {"never", "recent", "old"},
     shutdownTimer : BOOLEAN,
     quitPending : BOOLEAN,
     loop : {"running", "quit", "restart", "crashed"},
     life : [Sessions -> {"unborn", "alive", "destroyed"}],
     kind : [Sessions -> {"client", "connection", "autosync"}],
     peer : [Sessions -> Peers \cup {None}],
     refs : [Sessions -> [Clients -> 0..MaxAttach]],
     conn : [Sessions -> {"none", "open", "closing", "gone"}],
     delayed : [Sessions -> BOOLEAN],
     status : [Sessions -> {"IDLE", "ACTIVE", "RUNNING", "DONE"}],
     syncStatus : [Sessions -> {"QUEUEING", "IDLE", "RUNNING", "ABORT", "SUSPEND", "DONE"}],
     runOperation : [Sessions -> Operations \cup {"sync", None}],
     error : [Sessions -> {"none", "userabort", "failed"}],
     wasAborted : [Sessions -> BOOLEAN],
     proc : [Sessions -> {"none", "starting", "connected", "quit"}],
     helper : [Sessions -> BOOLEAN],
     reply : [Sessions -> BOOLEAN],
     closing : [Sessions -> BOOLEAN]]

TypeOK == srv \in State /\ pc \in PC

\* Server::Server() followed by activate() and run(): idle, no sessions.
Init ==
    /\ srv = [workQueue |-> <<>>,
              activeSession |-> None,
              syncSession |-> None,
              autoSession |-> None,
              idleSeen |-> TRUE,
              shutdownRequested |-> FALSE,
              fileMod |-> "never",
              shutdownTimer |-> FALSE,
              quitPending |-> FALSE,
              loop |-> "running",
              life |-> [s \in Sessions |-> "unborn"],
              kind |-> [s \in Sessions |-> "client"],
              peer |-> [s \in Sessions |-> None],
              refs |-> [s \in Sessions |-> [c \in Clients |-> 0]],
              conn |-> [s \in Sessions |-> "none"],
              delayed |-> [s \in Sessions |-> FALSE],
              status |-> [s \in Sessions |-> "IDLE"],
              syncStatus |-> [s \in Sessions |-> "QUEUEING"],
              runOperation |-> [s \in Sessions |-> None],
              error |-> [s \in Sessions |-> "none"],
              wasAborted |-> [s \in Sessions |-> FALSE],
              proc |-> [s \in Sessions |-> "none"],
              helper |-> [s \in Sessions |-> FALSE],
              reply |-> [s \in Sessions |-> FALSE],
              closing |-> [s \in Sessions |-> FALSE]]
    /\ pc = Ready

-----------------------------------------------------------------------------
(***************************************************************************)
(* Predicates on a value x of srv.                                         *)
(***************************************************************************)

IsIdle(x) == x.activeSession = None /\ x.workQueue = <<>>

Alive(x, s) == x.life[s] = "alive"

\* shared_ptr<Session> owners other than the clients
OwnedByServer(x, s) ==
    \/ s \in {x.syncSession, x.autoSession}
    \/ x.conn[s] \in {"open", "closing"}
    \/ x.delayed[s]

Owned(x, s) == OwnedByServer(x, s) \/ \E c \in Clients : x.refs[s][c] > 0

\* c's entry is the last reference: it->unique() in Client::detach()
LastOwner(x, c, s) ==
    /\ x.refs[s][c] = 1
    /\ \A d \in Clients \ {c} : x.refs[s][d] = 0
    /\ ~OwnedByServer(x, s)

\* Does Session::activateSession() start a sync at once? Connection::ready()
\* and the slots of AutoSyncManager::schedule() do.
Autostart(x, s) ==
    \/ x.kind[s] = "autosync"
    \/ x.kind[s] = "connection" /\ x.conn[s] \in {"open", "closing"}

\* Session::m_priority, lower is more important: PRI_DEFAULT, PRI_CONNECTION.
Priority(x, s) == IF x.kind[s] = "connection" THEN 10 ELSE 0

-----------------------------------------------------------------------------
(***************************************************************************)
(* State transformers.                                                     *)
(***************************************************************************)

\* Session::runOperationAsync() of the active session, with addSyncSession()
\* and a successful ForkExecParent::start().
RunOperation(x, s, op) ==
    [x EXCEPT !.syncSession = s,
              !.runOperation[s] = op,
              !.status[s] = "RUNNING",
              !.syncStatus[s] = "RUNNING",
              !.proc[s] = "starting"]

\* Session::activateSession()
ActivateSession(x, s) ==
    LET y == [x EXCEPT !.activeSession = s,
                       !.status[s] = "ACTIVE",
                       !.syncStatus[s] = IF @ = "QUEUEING" THEN "IDLE" ELSE @]
    IN  IF Autostart(x, s) THEN RunOperation(y, s, "sync") ELSE y

\* Session::activateSession() of the sessions in S when starting the helper
\* throws: useHelperAsync() turns that into failureCb(), so that doneCb() ends
\* the session before activateSession() returns.
ActivateAndFail(x, S) ==
    [x EXCEPT !.status = [s \in Sessions |-> IF s \in S THEN "DONE" ELSE @[s]],
              !.syncStatus = [s \in Sessions |-> IF s \in S THEN "DONE" ELSE @[s]],
              !.runOperation = [s \in Sessions |-> IF s \in S THEN "sync" ELSE @[s]],
              !.error = [s \in Sessions |-> IF s \in S THEN "failed" ELSE @[s]],
              !.proc = [s \in Sessions |-> IF s \in S THEN "quit" ELSE @[s]],
              !.conn = [s \in Sessions |-> IF s \in S /\ @[s] = "open" THEN "gone" ELSE @[s]],
              !.delayed = [s \in Sessions |-> s \in S \/ @[s]],
              !.autoSession = IF @ \in S THEN None ELSE @]

\* Mutant: sessions are still run after a shutdown was requested.
CheckQueueIgnoringShutdown(x, Fails) ==
    IF x.activeSession # None \/ x.workQueue = <<>> THEN x
    ELSE ActivateSession([x EXCEPT !.workQueue = Tail(@)], Head(x.workQueue))

\* Mutant: nobody leaves the main loop once the active session is gone.
CheckQueueNoQuit(x, Fails) ==
    IF x.shutdownRequested THEN x ELSE CheckQueueIgnoringShutdown(x, Fails)

\* Server::checkQueue(). Fails is the set of sessions whose helper cannot be
\* started; each of them releases the lock again inside activateSession(), and
\* the dequeue() which does that continues with the rest of the queue.
CheckQueue(x, Fails) ==
    LET q == x.workQueue
        live == {i \in 1..Len(q) : Alive(x, q[i])}
        ready == {i \in live : ~(q[i] \in Fails /\ Autostart(x, q[i]))}
        first == IF ready = {} THEN Len(q) + 1 ELSE Min(ready)
        failed == {q[i] : i \in {j \in live : j < first}}
        y == ActivateAndFail([x EXCEPT !.workQueue = SubSeq(q, first + 1, Len(q))], failed)
    IN  IF x.activeSession # None THEN x
        ELSE IF x.shutdownRequested
             THEN [x EXCEPT !.quitPending = @ \/ ~x.shutdownTimer]
        ELSE IF ready = {}
             THEN [y EXCEPT !.idleSeen = @ \/ failed # {}]
        ELSE ActivateSession(y, q[first])

\* Mutant: the new session is put in front of the others.
InsertFirst(x, s) == <<s>> \o x.workQueue

\* m_workQueue with s: insert after the last live entry. The loop is meant to
\* look at priorities, but compares the priority of that entry with itself.
InsertEntry(x, s) ==
    LET live == {i \in 1..Len(x.workQueue) : Alive(x, x.workQueue[i])}
    IN  InsertAt(x.workQueue, IF live = {} THEN 1 ELSE Max(live) + 1, s)

\* Mutant: m_idleSignal(false) is missing.
NoIdleSignal(before, after) == after

\* m_idleSignal(false) at the end of enqueue()
SignalBusy(before, after) ==
    IF IsIdle(before) THEN [after EXCEPT !.idleSeen = FALSE] ELSE after

\* m_idleSignal(true) at the end of dequeue()
SignalIdle(before, after) ==
    IF ~IsIdle(before) /\ IsIdle(after) THEN [after EXCEPT !.idleSeen = TRUE] ELSE after

\* Server::enqueue()
Enqueue(x, s, Fails) ==
    SignalBusy(x, CheckQueue([x EXCEPT !.workQueue = InsertEntry(x, s)], Fails))

\* Mutant: a session which is done stays in the queue.
WithEntry(x, s) == x.workQueue

\* m_workQueue without the entry for s; a weak pointer to a session that is
\* being destructed no longer compares equal, its entry stays.
WithoutEntry(x, s) ==
    LET q == x.workQueue
    IN  IF Alive(x, s) /\ \E i \in 1..Len(q) : q[i] = s
        THEN RemoveAt(q, CHOOSE i \in 1..Len(q) : q[i] = s)
        ELSE q

\* Mutant: the lock is not released.
KeepLock(x, Fails) == x

\* Mutant: the lock is released, but not given to the next session.
DropLock(x, Fails) == [x EXCEPT !.activeSession = None]

\* The part of dequeue() for the active session
ReleaseLock(x, Fails) ==
    CheckQueue([x EXCEPT !.activeSession = None,
                         !.shutdownTimer = @ \/ x.fileMod = "recent"], Fails)

\* Server::dequeue()
Dequeue(x, s, Fails) ==
    LET y == [x EXCEPT !.workQueue = WithoutEntry(x, s)]
    IN  IF x.syncSession = s THEN x
        ELSE SignalIdle(x, IF x.activeSession = s THEN ReleaseLock(y, Fails) ELSE y)

\* Mutant: m_syncSession keeps the session that is done.
KeepSyncSession(x, s) == x

\* Server::removeSyncSession()
RemoveSyncSession(x, s) ==
    IF x.syncSession = s
    THEN [x EXCEPT !.syncSession = None, !.delayed[s] = TRUE]
    ELSE x

\* Mutant: an error recorded earlier is overwritten.
AlwaysFailed(success, error) == IF success THEN error ELSE "failed"

\* Mutant: a failure without an error code is not turned into an error.
KeepError(success, error) == error

\* m_error after doneCb(): "some kind of local, internal problem"
ErrorOf(success, error) == IF ~success /\ error = "none" THEN "failed" ELSE error

\* Session::doneCb(), including Connection::shutdown() and, for the session of
\* an automatic sync that was started, AutoSyncManager::autoSyncDone().
DoneCb(x, s, success, Fails) ==
    LET auto == x.autoSession = s /\ x.runOperation[s] # None
        y == [x EXCEPT !.status[s] = "DONE",
                       !.syncStatus[s] = "DONE",
                       !.error[s] = ErrorOf(success, @),
                       !.conn[s] = IF @ = "open" THEN "gone" ELSE @,
                       !.autoSession = IF auto THEN None ELSE @,
                       !.delayed[s] = @ \/ auto,
                       !.helper[s] = FALSE]
    IN  IF x.status[s] = "DONE" THEN x
        ELSE Dequeue(RemoveSyncSession(y, s), s, Fails)

\* The destructor runs once the last shared_ptr is gone: ~Session(). It also
\* destructs m_forkExecParent; callbacks bound to m_me have no effect any more.
Collect(x, s, Fails) ==
    IF Alive(x, s) /\ ~Owned(x, s)
    THEN DoneCb([x EXCEPT !.life[s] = "destroyed",
                          !.proc[s] = "none",
                          !.reply[s] = FALSE,
                          !.closing[s] = FALSE,
                          !.wasAborted[s] = FALSE],
                s, FALSE, Fails)
    ELSE x

\* Client::detach() of a session
ClientDetach(x, c, s, Fails) ==
    LET y == [x EXCEPT !.refs[s][c] = @ - 1]
    IN  IF LastOwner(x, c, s)
        THEN DoneCb([y EXCEPT !.delayed[s] = TRUE], s, FALSE, Fails)
        ELSE y

\* Session::createSession()
CreateSession(x, s, kind, peer) ==
    [x EXCEPT !.life[s] = "alive", !.kind[s] = kind, !.peer[s] = peer]

-----------------------------------------------------------------------------
(***************************************************************************)
(* Actions: the entry points of the main loop.                             *)
(***************************************************************************)

\* An entry point runs only while the main loop does and no loop is unrolled.
InMainLoop == srv.loop = "running" /\ pc = Ready

\* The sessions for which ForkExecParent::start() would throw in this step.
Failures == SUBSET Sessions

\* Server.StartSession()
StartSession(c, s) ==
    /\ "StartSession" \in Stimuli
    /\ InMainLoop
    /\ ~srv.shutdownRequested
    /\ srv.life[s] = "unborn"
    /\ LET x == CreateSession(srv, s, "client", None)
       IN  srv' = Enqueue([x EXCEPT !.refs[s][c] = 1], s, {})
    /\ UNCHANGED pc

\* Session.Attach()
Attach(c, s) ==
    /\ "Attach" \in Stimuli
    /\ InMainLoop
    /\ Alive(srv, s)
    /\ srv.refs[s][c] < MaxAttach
    /\ srv' = [srv EXCEPT !.refs[s][c] = @ + 1]
    /\ UNCHANGED pc

\* Mutant: a client may detach from a session that it is not attached to.
DetachUnchecked(c, s) ==
    /\ InMainLoop
    /\ Alive(srv, s)
    /\ srv' = ClientDetach(srv, c, s, {})
    /\ UNCHANGED pc

\* Session.Detach()
Detach(c, s) ==
    /\ InMainLoop
    /\ srv.refs[s][c] > 0
    /\ \E F \in Failures : srv' = ClientDetach(srv, c, s, F)
    /\ UNCHANGED pc

\* Server::clientGone(): the client's name left the bus, ~Client() begins.
ClientGone(c) ==
    /\ InMainLoop
    /\ \E s \in Sessions : srv.refs[s][c] > 0
    /\ pc' = [loop |-> "clientGone", who |-> c]
    /\ UNCHANGED srv

\* One iteration of the loop in ~Client()
ClientGoneDetach(c) ==
    /\ pc = [loop |-> "clientGone", who |-> c]
    /\ \E s \in Sessions, F \in Failures :
          /\ srv.refs[s][c] > 0
          /\ srv' = ClientDetach(srv, c, s, F)
    /\ pc' = IF \E s \in Sessions : srv'.refs[s][c] > 0 THEN pc ELSE Ready

\* Connection.Process() of the first message. A SyncML message names the peer
\* and first gets rid of that peer's earlier sessions; a server alerted
\* notification (p = None) does not.
ConnectionProcess(s, p) ==
    /\ "ConnectionProcess" \in Stimuli
    /\ InMainLoop
    /\ srv.life[s] = "unborn"
    /\ LET x == [CreateSession(srv, s, "connection", p) EXCEPT !.conn[s] = "open"]
       IN  IF p = None
           THEN /\ \E F \in Failures : srv' = Enqueue(x, s, F)
                /\ UNCHANGED pc
           ELSE /\ srv' = x
                /\ pc' = [loop |-> "kill", who |-> s]

\* Mutant: the search skips the first entry.
ToKillButFirst(x, s) ==
    {i \in 2..Len(x.workQueue) : /\ Alive(x, x.workQueue[i])
                                 /\ x.peer[x.workQueue[i]] = x.peer[s]}

\* Positions in the queue which killSessionsAsync() has to remove
ToKill(x, s) ==
    {i \in 1..Len(x.workQueue) : /\ Alive(x, x.workQueue[i])
                                 /\ x.peer[x.workQueue[i]] = x.peer[s]}

\* One iteration of the loop in Server::killSessionsAsync(): the connection is
\* shut down, which usually destructs its session, too.
KillQueued(s) ==
    /\ pc = [loop |-> "kill", who |-> s]
    /\ ToKill(srv, s) # {}
    /\ LET i == Min(ToKill(srv, s))
           k == srv.workQueue[i]
           x == [srv EXCEPT !.workQueue = RemoveAt(@, i),
                            !.conn[k] = IF @ = "open" THEN "gone" ELSE @]
       IN  srv' = Collect(x, k, {})
    /\ UNCHANGED pc

\* The loop is over. An active session of the peer gets SIGTERM, its helper
\* then ends as in HelperReply or HelperQuit; the new session is enqueued.
KillDone(s) ==
    /\ pc = [loop |-> "kill", who |-> s]
    /\ ToKill(srv, s) = {}
    /\ \E F \in Failures : srv' = Enqueue(srv, s, F)
    /\ pc' = Ready

\* Connection::close() or failed(): the client no longer owns the connection,
\* Server::delayDeletion() still does.
ConnectionFailed(s) ==
    /\ InMainLoop
    /\ srv.conn[s] = "open"
    /\ srv' = [srv EXCEPT !.conn[s] = "closing"]
    /\ UNCHANGED pc

\* ~Connection(): from delayDeletionCb(), or because its client is gone.
ConnectionDestroyed(s) ==
    /\ InMainLoop
    /\ srv.conn[s] \in {"open", "closing"}
    /\ \E F \in Failures : srv' = Collect([srv EXCEPT !.conn[s] = "gone"], s, F)
    /\ UNCHANGED pc

\* AutoSyncManager::schedule() found a task that is ready to run.
StartAutoSync(s, p) ==
    /\ "StartAutoSync" \in Stimuli
    /\ InMainLoop
    /\ AutoSyncEnabled
    /\ IsIdle(srv)
    /\ srv.life[s] = "unborn"
    /\ LET old == srv.autoSession
           x == CreateSession(srv, s, "autosync", p)
           y == [x EXCEPT !.delayed = [t \in Sessions |-> t = old \/ @[t]],
                          !.autoSession = s]
       IN  \E F \in Failures : srv' = Enqueue(y, s, F)
    /\ UNCHANGED pc

\* Session.Sync(), Restore(), Execute(). When the helper cannot be started,
\* failureCb() ends the session.
StartOperation(s, op) ==
    /\ InMainLoop
    /\ Alive(srv, s)
    /\ srv.runOperation[s] = None
    /\ srv.status[s] = "ACTIVE"
    /\ LET x == RunOperation(srv, s, op)
       IN  \E F \in Failures :
             srv' = IF s \in F
                    THEN DoneCb([x EXCEPT !.proc[s] = "quit"], s, FALSE, F)
                    ELSE x
    /\ UNCHANGED pc

\* Session.Abort() and Session.Suspend()
Interrupt(s, from, to) ==
    /\ "Interrupt" \in Stimuli
    /\ InMainLoop
    /\ Alive(srv, s)
    /\ srv.runOperation[s] \in {"sync", "cmdline"}
    /\ srv' = [srv EXCEPT !.wasAborted[s] = @ \/ srv.proc[s] # "none",
                          !.syncStatus[s] = IF @ \in from THEN to ELSE @]
    /\ UNCHANGED pc

Abort(s) == Interrupt(s, {"RUNNING", "SUSPEND"}, "ABORT")

Suspend(s) == Interrupt(s, {"RUNNING"}, "SUSPEND")

\* Session::setFreezeAsync() of the sync session, called by SuspendSync() and
\* ResumeSync() of the PIM Manager. With m_forkExecParent set it calls through
\* m_helper; a NULL m_helper is undefined behaviour, here the end of the server.
\* The answer of the helper only updates m_freeze.
SetFreeze(s) ==
    /\ "SetFreeze" \in Stimuli
    /\ InMainLoop
    /\ srv.syncSession = s
    /\ srv.proc[s] # "none"
    /\ srv' = [srv EXCEPT !.loop = IF srv.helper[s] THEN @ ELSE "crashed"]
    /\ UNCHANGED pc

\* Session::onConnect(), useHelper2() and sync2()/restore2()/execute2()
HelperConnect(s) ==
    /\ InMainLoop
    /\ Alive(srv, s)
    /\ srv.proc[s] = "starting"
    /\ srv' = [srv EXCEPT !.proc[s] = "connected", !.helper[s] = TRUE, !.reply[s] = TRUE]
    /\ UNCHANGED pc

\* Session::dbusResultCb(): the call returned, or D-Bus reports that the helper
\* died (success is FALSE then). Possible before and after onQuit().
HelperReply(s, success) ==
    /\ InMainLoop
    /\ Alive(srv, s)
    /\ srv.reply[s]
    /\ \E F \in Failures : srv' = DoneCb([srv EXCEPT !.reply[s] = FALSE], s, success, F)
    /\ UNCHANGED pc

\* Mutant: onQuit() relies on D-Bus to report that the helper is gone.
HelperQuitNoTimeout(s, regular) ==
    /\ InMainLoop
    /\ Alive(srv, s)
    /\ srv.proc[s] \in {"starting", "connected"}
    /\ LET x == [srv EXCEPT !.proc[s] = "quit"]
       IN  srv' = IF srv.proc[s] = "starting" THEN DoneCb(x, s, FALSE, {}) ELSE x
    /\ UNCHANGED pc

\* ForkExecParent::m_onQuit: Session::onQuit(), then raiseChildTermError() if
\* the helper never connected. regular: exit code 0 or killed by SIGTERM.
HelperQuit(s, regular) ==
    /\ InMainLoop
    /\ Alive(srv, s)
    /\ srv.proc[s] \in {"starting", "connected"}
    /\ LET userabort == /\ srv.status[s] # "DONE"
                        /\ srv.wasAborted[s]
                        /\ regular
                        /\ srv.error[s] = "none"
           x == [srv EXCEPT !.proc[s] = "quit",
                            !.closing[s] = TRUE,
                            !.error[s] = IF userabort THEN "userabort" ELSE @]
       IN  \E F \in Failures :
             srv' = IF srv.proc[s] = "starting" THEN DoneCb(x, s, FALSE, F) ELSE x
    /\ UNCHANGED pc

\* The one second timeout set by onQuit()
HelperQuitTimeout(s) ==
    /\ InMainLoop
    /\ Alive(srv, s)
    /\ srv.closing[s]
    /\ \E F \in Failures : srv' = DoneCb([srv EXCEPT !.closing[s] = FALSE], s, FALSE, F)
    /\ UNCHANGED pc

\* Server::sessionExpired(): the last one minute timeout drops its reference.
SessionExpired(s) ==
    /\ InMainLoop
    /\ srv.delayed[s]
    /\ \E F \in Failures : srv' = Collect([srv EXCEPT !.delayed[s] = FALSE], s, F)
    /\ UNCHANGED pc

\* Mutant: the shutdown timer is started although a session is active.
FileModifiedAlwaysTimer ==
    /\ "FileModified" \in Stimuli
    /\ InMainLoop
    /\ srv' = [srv EXCEPT !.fileMod = "recent",
                          !.shutdownTimer = TRUE,
                          !.shutdownRequested = TRUE]
    /\ UNCHANGED pc

\* Server::fileModified()
FileModified ==
    /\ "FileModified" \in Stimuli
    /\ InMainLoop
    /\ srv' = [srv EXCEPT !.fileMod = "recent",
                          !.shutdownTimer = @ \/ srv.activeSession = None,
                          !.shutdownRequested = TRUE]
    /\ UNCHANGED pc

\* SHUTDOWN_QUIESENCE_SECONDS pass after the last modification.
QuiescencePassed ==
    /\ InMainLoop
    /\ srv.fileMod = "recent"
    /\ ~srv.shutdownTimer
    /\ srv' = [srv EXCEPT !.fileMod = "old"]
    /\ UNCHANGED pc

\* Server::shutdown(), called by m_shutdownTimer
Shutdown ==
    /\ InMainLoop
    /\ srv.shutdownTimer
    /\ srv' = [srv EXCEPT !.loop = IF AutoSyncEnabled THEN "restart" ELSE "quit"]
    /\ UNCHANGED pc

\* quitLoop(), scheduled by checkQueue()
QuitLoop ==
    /\ InMainLoop
    /\ srv.quitPending
    /\ srv' = [srv EXCEPT !.loop = "quit"]
    /\ UNCHANGED pc

\* AutoTerm::checkCallback(): no client or connection holds a reference, and
\* the last m_idleSignal said that the server is idle.
AutoTerminate ==
    /\ "AutoTerminate" \in Stimuli
    /\ InMainLoop
    /\ srv.idleSeen
    /\ srv' = [srv EXCEPT !.shutdownRequested = TRUE, !.loop = "quit"]
    /\ UNCHANGED pc

\* Server::onSuspendFlagsChange(): SIGINT or SIGTERM
Signalled ==
    /\ "Signalled" \in Stimuli
    /\ InMainLoop
    /\ srv' = [srv EXCEPT !.shutdownRequested = TRUE, !.loop = "quit"]
    /\ UNCHANGED pc

HelperStep(s) ==
    \/ HelperConnect(s)
    \/ \E success \in BOOLEAN : HelperReply(s, success)
    \/ \E regular \in BOOLEAN : HelperQuit(s, regular)
    \/ HelperQuitTimeout(s)

Next ==
    \/ \E c \in Clients, s \in Sessions :
          StartSession(c, s) \/ Attach(c, s) \/ Detach(c, s)
    \/ \E c \in Clients : ClientGone(c) \/ ClientGoneDetach(c)
    \/ \E s \in Sessions, p \in Peers \cup {None} :
          ConnectionProcess(s, p) \/ StartAutoSync(s, p)
    \/ \E s \in Sessions :
          \/ KillQueued(s) \/ KillDone(s)
          \/ ConnectionFailed(s) \/ ConnectionDestroyed(s)
          \/ \E op \in Operations : StartOperation(s, op)
          \/ Abort(s) \/ Suspend(s) \/ SetFreeze(s)
          \/ HelperStep(s)
          \/ SessionExpired(s)
    \/ FileModified \/ QuiescencePassed \/ Shutdown
    \/ QuitLoop \/ AutoTerminate \/ Signalled

Spec == Init /\ [][Next]_vars

(***************************************************************************)
(* Fairness. The main loop serves every ready event source in turn, also   *)
(* when the others stay busy, hence strong fairness: an event source is    *)
(* ready only between two handlers. That a helper ends its operation is    *)
(* assumed, session.cpp has no timeout for it. Once the helper is gone,    *)
(* only the timeout of onQuit() is reliable, D-Bus need not report that    *)
(* the pending call failed. Each conjunct is WF or SF of the action, with  *)
(* the action's guard written out for its ENABLED.                         *)
(***************************************************************************)
HelperCanStep(s) ==
    /\ InMainLoop
    /\ Alive(srv, s)
    /\ srv.proc[s] \in {"starting", "connected"} \/ srv.closing[s]

LoopStep ==
    \/ \E c \in Clients : ClientGoneDetach(c)
    \/ \E s \in Sessions : KillQueued(s) \/ KillDone(s)

MainLoopFairness ==
    /\ <>[](pc # Ready) => []<><<LoopStep>>_vars
    /\ \A s \in Sessions : []<>HelperCanStep(s) => []<><<HelperStep(s)>>_vars
    /\ SF_vars(Shutdown) /\ SF_vars(QuitLoop)

\* A client which owns the active session eventually uses or leaves it, and
\* the owner of a connection eventually closes it.
HoldsLockIdly(s) ==
    InMainLoop /\ Alive(srv, s) /\ srv.status[s] = "ACTIVE" /\ srv.runOperation[s] = None

UseOrLeave(s) ==
    \/ \E op \in Operations : StartOperation(s, op)
    \/ \E c \in Clients : LastOwner(srv, c, s) /\ Detach(c, s)

ClientFairness ==
    \A s \in Sessions :
       /\ []<>HoldsLockIdly(s) => []<><<UseOrLeave(s)>>_vars
       /\ []<>(InMainLoop /\ srv.conn[s] \in {"open", "closing"})
             => []<><<ConnectionDestroyed(s)>>_vars

FairSpec == Spec /\ MainLoopFairness /\ ClientFairness

-----------------------------------------------------------------------------
(***************************************************************************)
(* Properties.                                                             *)
(***************************************************************************)

Queued(x) == {x.workQueue[i] : i \in 1..Len(x.workQueue)}

\* Only one session modifies data or configs at a time (server.h, comment on
\* m_activeSession): a session is active or running exactly while it holds the
\* main lock, and no finished or destructed session keeps the lock.
LockHolder ==
    \A s \in Sessions :
       srv.activeSession = s <=> srv.status[s] \in {"ACTIVE", "RUNNING"} /\ Alive(srv, s)

\* checkQueue() never hands a session to activateSession() that is not idle
\* ("internal error, session changing from non-idle to active"): a live entry
\* of the queue is idle and has only one entry.
OnlyIdleQueued ==
    /\ \A s \in Queued(srv) : Alive(srv, s) => srv.status[s] = "IDLE"
    /\ \A i, j \in 1..Len(srv.workQueue) :
          srv.workQueue[i] = srv.workQueue[j] => i = j

\* A running session is the one that m_syncSession keeps alive even if all
\* clients disconnect, and m_syncSession never outlives the operation.
RunningIsProtected ==
    \A s \in Sessions : srv.syncSession = s <=> srv.status[s] = "RUNNING"

\* The restart after a file modification and the delayed quitLoop() never hit
\* an active session: both are only armed while nobody holds the lock.
NoShutdownWhileActive ==
    srv.shutdownTimer \/ srv.quitPending => srv.activeSession = None

\* Automatic termination relies on m_idleSignal: as long as a session is queued
\* or active, the last signal said "not idle".
NoAutoTermWhileBusy == srv.idleSeen => IsIdle(srv)

\* A peer which connects again has at most one session waiting: the older ones
\* were removed by killSessionsAsync() before the new one was enqueued.
OneWaitingPerPeer ==
    pc = Ready =>
       \A s, t \in {u \in Queued(srv) : Alive(srv, u) /\ srv.peer[u] # None} :
          srv.peer[s] = srv.peer[t] => s = t

\* m_idleSignal keeps its listeners up to date: its last value is that of
\* isIdle() (server.h: "isIdle() has changed its value, current value included").
\* killSessionsAsync() removes entries silently, but always enqueues afterwards.
IdleSignalled == pc.loop # "kill" => srv.idleSeen = IsIdle(srv)

\* An idle server activates a session in enqueue() whose helper cannot be started:
\* dequeue() signals "idle" and only then enqueue() "not idle".
StartFailed ==
    /\ IsIdle(srv)
    /\ \E s \in Sessions :
          srv.status[s] = "IDLE" /\ srv'.status[s] = "DONE" /\ srv'.proc[s] = "quit"

\* Every handler, however often it re-enters dequeue() and checkQueue(), leaves the
\* listeners of m_idleSignal with the value of isIdle(); the one exception is the
\* start of a helper that fails inside enqueue().
IdleSignalAccurate == [][IdleSignalled => IdleSignalled' \/ StartFailed]_vars

\* The queue is sorted by priority, most important one first (server.h, comment
\* on m_workQueue).
QueueSortedByPriority ==
    \A i, j \in {k \in 1..Len(srv.workQueue) : Alive(srv, srv.workQueue[k])} :
       i < j => Priority(srv, srv.workQueue[i]) <= Priority(srv, srv.workQueue[j])

\* After a file modification the server does not just end when automatic
\* syncing is enabled, it restarts (server.h, comment on m_files).
RestartAfterModification ==
    srv.fileMod # "never" /\ AutoSyncEnabled => srv.loop # "quit"

\* Suspending the running sync via the PIM Manager suspends or fails that sync
\* (pim-manager-api.txt), the server survives it.
FreezeSurvived == srv.loop # "crashed"

\* Once a shutdown was requested, queued sessions are no longer run (server.h,
\* comment on m_files); the active one may continue.
NoActivationAfterShutdown ==
    [][srv.shutdownRequested => srv'.activeSession \in {srv.activeSession, None}]_vars

\* The first error recorded for a session is the one that is reported: neither
\* failureCb() nor doneCb() nor onQuit() overwrites it.
ErrorIsSticky ==
    [][\A s \in Sessions : srv.error[s] # "none" => srv'.error[s] = srv.error[s]]_vars

\* A session ends without an error only in the step that handles the helper's
\* answer: a helper that died, a timeout that came first, or the loss of all
\* owners never looks like success.
SuccessNeedsReply ==
    [][\A s \in Sessions :
          /\ srv.status[s] # "DONE"
          /\ srv'.status[s] = "DONE"
          /\ srv'.error[s] = "none"
          => srv.reply[s] /\ ~srv'.reply[s]]_vars

\* Every queued session is eventually taken out of the queue, or the server
\* ends (under FairSpec).
QueuedIsServed ==
    \A s \in Sessions :
       s \in Queued(srv) ~> s \notin Queued(srv) \/ srv.loop # "running"

\* Every running session eventually ends, or the server does (under FairSpec).
RunningEnds ==
    \A s \in Sessions :
       srv.status[s] = "RUNNING" ~> srv.status[s] = "DONE" \/ srv.loop # "running"

\* A requested shutdown eventually takes place, whatever session is active when
\* it is requested (under FairSpec).
ShutdownCompletes == srv.shutdownRequested ~> srv.loop # "running"

=============================================================================
