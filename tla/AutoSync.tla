------------------------------ MODULE AutoSync ------------------------------
(***************************************************************************)
(* AutoSyncManager (auto-sync-manager.cpp): when does the daemon start a   *)
(* sync by itself? The manager keeps a task for each config and has to     *)
(* leave behind something that wakes it up again each time it looks at     *)
(* them: a timer, a connection to a presence signal, or one to the idle    *)
(* signal of the server. It also holds a reference which keeps the daemon  *)
(* from terminating.                                                       *)
(*                                                                         *)
(* The server is reduced to what the manager sees of it: the active        *)
(* session, one waiting session of a client, and the idle signal. A        *)
(* session is automatic or belongs to a client, and is for one config.     *)
(*                                                                         *)
(* Time: a task is "recent" while its interval since the last sync has not *)
(* passed, a transport is "stable" once it was present for the delay. A    *)
(* timer may fire at any time, because the deadline it was set for may     *)
(* have moved.                                                             *)
(***************************************************************************)
EXTENDS Naturals, Sequences, FiniteSetsExt, SequencesExt

CONSTANTS
    NumConfigs,    \* configs are 1 .. NumConfigs, in the order of m_peerMap
    Transports,    \* transports with a presence: HTTP, Bluetooth
    Settings,      \* possible contents of a config: [interval, delay, urls]
    MaxWatches,    \* bound: connections to a presence signal that are counted
    MaxChanges,    \* bound: changes of configs
    MaxSessions    \* bound: sessions of clients

Configs == 1..NumConfigs

Other == "other"

ASSUME AutoSyncAssumption ==
    /\ NumConfigs \in Nat
    /\ Other \notin Transports
    /\ Settings \subseteq [interval : BOOLEAN, delay : BOOLEAN,
                           urls : Seq(Transports \cup {Other})]
    /\ MaxWatches \in Nat \ {0} /\ MaxChanges \in Nat /\ MaxSessions \in Nat

VARIABLES
    mgr,      \* the manager and what it sees of the server
    present,  \* transports which are present
    stable,   \* transports which have been present for long enough
    slots,    \* connections to a presence signal that it has yet to call
    changes,  \* number of config changes so far
    sessions  \* number of client sessions so far

vars == <<mgr, present, stable, slots, changes, sessions>>

NoSession == [config |-> 0, auto |-> FALSE, syncing |-> FALSE]

Sessions == [config : Configs, auto : BOOLEAN, syncing : BOOLEAN]

(***************************************************************************)
(*   task[c].known       m_peerMap has an entry                            *)
(*   task[c].interval    m_interval > 0                                    *)
(*   task[c].delay       m_delay > 0                                       *)
(*   task[c].urls        transports of m_urls, in that order               *)
(*   task[c].failure     m_permanentFailure                                *)
(*   task[c].recent      m_lastSyncTime + m_interval > now                 *)
(*   task[c].timer       m_intervalTimeout is active                       *)
(*   task[c].urlTimers   transports whose m_httpTimeout, m_btTimeout is    *)
(*                       active                                            *)
(*   watches[t]          connections from the presence signal to schedule()*)
(*   idleConnection      m_idleConnection is connected                     *)
(*   autoTermLocked      m_autoTermLocked                                  *)
(*   active, waiting     m_activeSession and m_workQueue of the server     *)
(*   unseen              history: tasks at which schedule() has not looked *)
(*                       since they were enabled, or another one that      *)
(*                       could not be started was chosen                   *)
(***************************************************************************)
Task == [known : BOOLEAN, interval : BOOLEAN, delay : BOOLEAN,
         urls : Seq(Transports \cup {Other}), failure : BOOLEAN,
         recent : BOOLEAN, timer : BOOLEAN, urlTimers : SUBSET Transports]

TypeOK ==
    /\ mgr \in [task : [Configs -> Task], watches : [Transports -> 0..MaxWatches],
                idleConnection : BOOLEAN, autoTermLocked : BOOLEAN,
                active : Sessions \cup {NoSession}, waiting : Sessions \cup {NoSession},
                unseen : SUBSET Configs]
    /\ present \subseteq Transports
    /\ stable \subseteq present
    /\ slots \in 0..MaxWatches
    /\ changes \in 0..MaxChanges
    /\ sessions \in 0..MaxSessions

NoTask ==
    [known |-> FALSE, interval |-> FALSE, delay |-> FALSE, urls |-> <<>>, failure |-> FALSE,
     recent |-> TRUE, timer |-> FALSE, urlTimers |-> {}]

Init ==
    /\ mgr = [task |-> [c \in Configs |-> NoTask], watches |-> [t \in Transports |-> 0],
              idleConnection |-> FALSE, autoTermLocked |-> FALSE,
              active |-> NoSession, waiting |-> NoSession, unseen |-> {}]
    /\ present \in SUBSET Transports
    /\ stable = {}
    /\ slots = 0
    /\ changes = 0
    /\ sessions = 0

-----------------------------------------------------------------------------
(***************************************************************************)
(* Methods of AutoSyncManager, and of the server as far as they matter, as *)
(* operators from one value of mgr to the next. "here" and "long" are the  *)
(* values of present and stable.                                           *)
(***************************************************************************)

IsIdle(x) == x.active = NoSession /\ x.waiting = NoSession

\* A task that is going to run again
MightRun(task) == task.interval /\ ~task.failure /\ task.urls # <<>>

\* AutoSyncManager::preventTerm()
PreventTerm(x) == \E c \in Configs : MightRun(x.task[c])

\* AutoSyncManager::sessionStarted()
SessionStarted(x, c) == IF x.task[c].known THEN [x EXCEPT !.task[c].recent = TRUE] ELSE x

\* AutoSyncManager::anySyncDone(): a sync of a client may enable a task again that had
\* failed, without a call of schedule().
AnySyncDone(x, c, status) ==
    [x EXCEPT !.task[c].failure = (status = "permanent"),
              !.unseen = IF x.task[c].failure /\ status # "permanent" THEN @ \cup {c} ELSE @]

\* The transport of a URL is available, and has been for long enough.
UrlReady(task, t, here, long) == t = Other \/ (t \in here /\ (task.delay => t \in long))

\* Positions of the URLs which schedule() looks at without finding one that is
\* ready
Unready(task, here, long) ==
    {i \in DOMAIN task.urls : \A j \in 1..i : ~UrlReady(task, task.urls[j], here, long)}

TaskReady(task, here, long) ==
    /\ task.interval /\ ~task.failure /\ ~task.recent
    /\ Unready(task, here, long) # DOMAIN task.urls

\* What schedule() sets up for a task: a timer for the end of the interval, or
\* timers and connections to presence signals for the URLs that are not ready
TaskTimers(task, here, long) ==
    LET waitFor == {task.urls[i] : i \in Unready(task, here, long)}
    IN  IF ~task.interval \/ task.failure THEN task
        ELSE IF task.recent THEN [task EXCEPT !.timer = TRUE]
        ELSE [task EXCEPT !.urlTimers = @ \cup (waitFor \cap here)]

\* URLs of a task for which schedule() connects to the signal of a transport
Missing(task, here, long, t) ==
    {i \in Unready(task, here, long) :
        /\ task.interval /\ ~task.failure /\ ~task.recent
        /\ task.urls[i] = t
        /\ t \notin here}

NewWatches(x, looked, here, long, t) ==
    Cardinality(UNION {{c} \X Missing(x.task[c], here, long, t) : c \in looked})

Cap(n) == IF n > MaxWatches THEN MaxWatches ELSE n

\* Mutant: the signal is not watched when the transport is missing.
LookAtTimersOnly(x, looked, here, long) ==
    [x EXCEPT !.task = [c \in Configs |->
        IF c \in looked THEN TaskTimers(@[c], here, long) ELSE @[c]]]

\* The loop of schedule() over the tasks until it finds one that is ready
LookAt(x, looked, here, long) ==
    [LookAtTimersOnly(x, looked, here, long) EXCEPT
        !.watches = [t \in Transports |-> Cap(@[t] + NewWatches(x, looked, here, long, t))]]

\* createSession() and enqueue() for an automatic sync of c in an idle server:
\* the sync starts at once. If the helper cannot be started, then the session
\* has gone through doneCb() and dequeue() already, and nobody was connected to
\* the idle signal: nothing has looked at the tasks behind c.
RunAutoSync(x, c, fails) ==
    LET y == SessionStarted(x, c)
    IN  IF fails THEN [AnySyncDone(y, c, "permanent") EXCEPT !.unseen = {d \in Configs : d > c}]
        ELSE [y EXCEPT !.active = [config |-> c, auto |-> TRUE, syncing |-> TRUE]]

\* Mutant: the idle signal is not connected when a sync was started.
ScheduleWithoutIdle(x, here, long, fails) ==
    LET y == [x EXCEPT !.idleConnection = FALSE, !.unseen = {}]
        ready == {c \in Configs : TaskReady(x.task[c], here, long)}
    IN  IF ~PreventTerm(x) THEN y
        ELSE IF ~IsIdle(x) THEN [y EXCEPT !.idleConnection = TRUE]
        ELSE IF ready = {} THEN LookAt(y, Configs, here, long)
        ELSE RunAutoSync(LookAt(y, 1..Min(ready), here, long), Min(ready), fails)

\* AutoSyncManager::schedule()
Schedule(x, here, long, fails) ==
    LET y == ScheduleWithoutIdle(x, here, long, fails)
    IN  IF PreventTerm(x) /\ (~IsIdle(x) \/ \E c \in Configs : TaskReady(x.task[c], here, long))
        THEN [y EXCEPT !.idleConnection = TRUE]
        ELSE y

\* m_idleSignal
IdleSignal(x, here, long, fails) ==
    IF x.idleConnection THEN Schedule(x, here, long, fails) ELSE x

\* The active session is done: Server::dequeue() and checkQueue()
Dequeue(x, here, long, fails) ==
    LET y == [x EXCEPT !.active = x.waiting, !.waiting = NoSession]
    IN  IF IsIdle(y) THEN IdleSignal(y, here, long, fails) ELSE y

\* The end of initConfig(): hold a reference iff a task might run
LockAutoTerm(x) == [x EXCEPT !.autoTermLocked = PreventTerm(x)]

-----------------------------------------------------------------------------
(***************************************************************************)
(* Actions. All but PresenceSlot are events of the main loop, which is     *)
(* not reached before a presence signal has called its last slot.          *)
(***************************************************************************)

MainLoop == slots = 0

\* AutoSyncManager::initConfig(): a config was found, changed or removed. A
\* new interval may make the last sync recent or not; a new task is recent.
InitConfig(c) ==
    /\ MainLoop
    /\ changes < MaxChanges
    /\ \E s \in Settings, recent \in BOOLEAN, fails \in BOOLEAN :
          /\ mgr.task[c].known \/ recent
          /\ LET x == [mgr EXCEPT !.task[c] = [@ EXCEPT !.known = TRUE,
                          !.interval = s.interval, !.delay = s.delay, !.urls = s.urls,
                          !.failure = FALSE, !.recent = recent]]
             IN  mgr' = Schedule(LockAutoTerm(x), present, stable, fails)
    /\ changes' = changes + 1
    /\ UNCHANGED <<present, stable, slots, sessions>>

\* m_intervalTimeout
IntervalTimer(c) ==
    /\ MainLoop
    /\ mgr.task[c].timer
    /\ \E fails \in BOOLEAN :
          mgr' = Schedule([mgr EXCEPT !.task[c].timer = FALSE], present, stable, fails)
    /\ UNCHANGED <<present, stable, slots, changes, sessions>>

\* m_httpTimeout, m_btTimeout
UrlTimer(c, t) ==
    /\ MainLoop
    /\ t \in mgr.task[c].urlTimers
    /\ \E fails \in BOOLEAN :
          mgr' = Schedule([mgr EXCEPT !.task[c].urlTimers = @ \ {t}], present, stable, fails)
    /\ UNCHANGED <<present, stable, slots, changes, sessions>>

IntervalPasses(c) ==
    /\ MainLoop
    /\ mgr.task[c].known
    /\ mgr.task[c].recent
    /\ mgr' = [mgr EXCEPT !.task[c].recent = FALSE]
    /\ UNCHANGED <<present, stable, slots, changes, sessions>>

DelayPasses(t) ==
    /\ MainLoop
    /\ t \in present \ stable
    /\ stable' = stable \cup {t}
    /\ UNCHANGED <<mgr, present, slots, changes, sessions>>

\* Mutant: the start time is kept when a transport disappears.
PresenceKeepsTime(t) ==
    /\ MainLoop
    /\ present' = IF t \in present THEN present \ {t} ELSE present \cup {t}
    /\ slots' = mgr.watches[t]
    /\ UNCHANGED <<mgr, stable, changes, sessions>>

\* m_httpPresenceSignal, m_btPresenceSignal: updatePresence() comes first, then
\* the connections which there are at that time.
PresenceChanges(t) ==
    /\ MainLoop
    /\ present' = IF t \in present THEN present \ {t} ELSE present \cup {t}
    /\ stable' = stable \ {t}
    /\ slots' = mgr.watches[t]
    /\ UNCHANGED <<mgr, changes, sessions>>

\* The signal calls schedule() for one of the connections.
PresenceSlot ==
    /\ slots > 0
    /\ slots' = slots - 1
    /\ \E fails \in BOOLEAN : mgr' = Schedule(mgr, present, stable, fails)
    /\ UNCHANGED <<present, stable, changes, sessions>>

\* StartSession() of a client: Server::enqueue()
ClientSession(c) ==
    /\ MainLoop
    /\ sessions < MaxSessions
    /\ mgr.waiting = NoSession
    /\ LET s == [config |-> c, auto |-> FALSE, syncing |-> FALSE]
       IN  IF mgr.active = NoSession
           THEN \E fails \in BOOLEAN :
                   mgr' = IdleSignal([mgr EXCEPT !.active = s], present, stable, fails)
           ELSE mgr' = [mgr EXCEPT !.waiting = s]
    /\ sessions' = sessions + 1
    /\ UNCHANGED <<present, stable, slots, changes>>

\* The client calls Sync().
ClientSync ==
    /\ MainLoop
    /\ mgr.active # NoSession
    /\ ~mgr.active.syncing
    /\ mgr' = SessionStarted([mgr EXCEPT !.active.syncing = TRUE], mgr.active.config)
    /\ UNCHANGED <<present, stable, slots, changes, sessions>>

\* The client leaves its session without a sync.
ClientDetach ==
    /\ MainLoop
    /\ mgr.active # NoSession
    /\ ~mgr.active.syncing
    /\ \E fails \in BOOLEAN : mgr' = Dequeue(mgr, present, stable, fails)
    /\ UNCHANGED <<present, stable, slots, changes, sessions>>

\* Session::doneCb() of a sync
SyncDone(status) ==
    /\ MainLoop
    /\ mgr.active # NoSession
    /\ mgr.active.syncing
    /\ LET c == mgr.active.config
           x == IF mgr.task[c].known THEN AnySyncDone(mgr, c, status) ELSE mgr
       IN  \E fails \in BOOLEAN : mgr' = Dequeue(x, present, stable, fails)
    /\ UNCHANGED <<present, stable, slots, changes, sessions>>

Next ==
    \/ \E c \in Configs : InitConfig(c) \/ IntervalTimer(c) \/ IntervalPasses(c)
                          \/ ClientSession(c)
    \/ \E c \in Configs, t \in Transports : UrlTimer(c, t)
    \/ \E t \in Transports : DelayPasses(t) \/ PresenceChanges(t)
    \/ PresenceSlot
    \/ ClientSync \/ ClientDetach
    \/ \E status \in {"ok", "temporary", "permanent"} : SyncDone(status)

Spec == Init /\ [][Next]_vars

\* The main loop serves its timers, time passes, and sessions end: a client
\* does not keep an unused session forever.
FairSpec ==
    /\ Spec
    /\ \A c \in Configs :
          /\ WF_vars(IntervalTimer(c)) /\ WF_vars(IntervalPasses(c))
          /\ \A t \in Transports : WF_vars(UrlTimer(c, t))
    /\ \A t \in Transports : WF_vars(DelayPasses(t))
    /\ WF_vars(PresenceSlot)
    /\ WF_vars(ClientSync \/ ClientDetach)
    /\ WF_vars(\E status \in {"ok", "temporary", "permanent"} : SyncDone(status))

-----------------------------------------------------------------------------
(***************************************************************************)
(* Properties.                                                             *)
(***************************************************************************)

\* Something will make schedule() look at a task again when it can run: a presence
\* signal that is not done yet, the idle signal of a busy server, the end of the
\* interval, or for each of its URLs a timer or the missing transport.
Wakeup(c) ==
    \/ slots > 0
    \/ ~IsIdle(mgr) /\ mgr.idleConnection
    \/ mgr.task[c].timer
    \/ \A i \in DOMAIN mgr.task[c].urls :
          LET t == mgr.task[c].urls[i]
          IN  /\ t # Other
              /\ t \in mgr.task[c].urlTimers \/ (t \notin present /\ mgr.watches[t] > 0)

\* schedule() "runs syncs that are ready, sets/updates timers for the rest"
\* (auto-sync-manager.h): no enabled task is ever forgotten, in whatever order
\* timers fire, transports come and go, configs change and sessions run.  There are
\* two ways to get out of sight (mgr.unseen) until something else calls schedule():
\* another task was chosen and could not be started (see NeverStalled), or the task had
\* failed and a client's sync of its config has enabled it again.
WakeupPending ==
    \A c \in Configs : MightRun(mgr.task[c]) /\ c \notin mgr.unseen => Wakeup(c)

\* The manager "tracks whether they are ready to run. For that it watches which
\* transports are available (and how long), which syncs run, etc."
\* (auto-sync-manager.h): while a task might run, at least some event is left
\* that makes schedule() look at the tasks, be it meant for this one or not.
NeverStalled ==
    PreventTerm(mgr) =>
        \/ slots > 0
        \/ ~IsIdle(mgr) /\ mgr.idleConnection
        \/ \E c \in Configs : mgr.task[c].timer \/ mgr.task[c].urlTimers # {}
        \/ \E t \in Transports \ present : mgr.watches[t] > 0

\* The daemon does not terminate by itself while automatic syncs are enabled
\* ("D-Bus server must not terminate while auto syncing is enabled",
\* test-dbus.py).  Only initConfig() takes the reference, and anySyncDone() may
\* enable a task as well.
AutoTermPrevented == PreventTerm(mgr) => mgr.autoTermLocked

\* Automatic syncs take place at regular intervals (under FairSpec): once config
\* 1 stays enabled with its transports available, it is synced again and again,
\* unless a client's sync has enabled it and nothing has called schedule() since.
SyncsRepeat ==
    <>[](/\ MightRun(mgr.task[1]) /\ 1 \notin mgr.unseen
         /\ ToSet(mgr.task[1].urls) \cap Transports \subseteq present)
        => []<>(mgr.active.config = 1 /\ mgr.active.syncing)

=============================================================================
