# SyncEvolution: TLA+ models, model checking and proofs

SyncEvolution synchronises calendars, contacts, tasks and memos between local
databases, SyncML servers, mobile devices, CalDAV/CardDAV services and other
local databases. This directory holds TLA+ specifications of the parts of it
that are hard to test: the D-Bus daemon `syncevo-dbus-server`, which accepts
requests from many clients and peers at once and runs the actual syncs, one at
a time, in helper processes; the loop which drives a sync through failures,
signals and retries; the two processes of a local sync; the tracking of changes
across syncs; and the contact views which the PIM Manager keeps up to date at
its clients. All paths below are relative to the root of the repository; the
daemon lives in `src/dbus/server/`, the core library in `src/syncevo/`.

## 1. Inventory

### 1.1 The daemon and how its parts interact

The daemon is a single thread around a GLib main loop. Every D-Bus call, D-Bus
signal, timeout, pipe event and child exit is a callback that runs to
completion before the next one starts. Concurrency therefore means the order
of callbacks, plus re-entrancy: a callback often calls, through several
objects, back into the object that is in the middle of an operation.

| component | state | operations | talks to |
|---|---|---|---|
| `Server` (`server.cpp`) | work queue of weak pointers, main lock (`m_activeSession`), `m_syncSession`, clients, timeouts, shutdown flags | StartSession, Connect, Attach, Detach, enqueue, dequeue, checkQueue, killSessionsAsync, fileModified, shutdown | all others |
| `Session` (`session.cpp`) | life cycle, sync status, operation, first error, helper and its process | Attach, Detach, SetConfig, Sync, Restore, Execute, Abort, Suspend, doneCb | Server, ForkExecParent, helper |
| `Client` (`client.cpp`) | list of referenced resources, attach count | attach, detach, detachAll, destructor | Server, Session |
| `Connection` (`connection.cpp`) | state SETUP to DONE/FAILED, timeout, session | Process, Close, send, sendFinalMsg, timeout, ready, shutdown | the peer's client, Session, helper |
| `AutoSyncManager` (`auto-sync-manager.cpp`) | a task for each config, own session, idle connection | initConfig, schedule, sessionStarted, autoSyncDone | Server, PresenceStatus |
| `AutoTerm` (`auto-term.h`) | reference count, check timeout | ref, unref, reset, checkCallback | Server, Connection, AutoSyncManager |
| `InfoReq` (`info-req.cpp`) | request, working, responded, done; timeout | setResponse, checkTimeout | Server, Session, clients |
| `ForkExecParent` (`src/syncevo/ForkExec.cpp`) | child, two pipes, D-Bus server | start, outputReady, watchChild, checkCompletion, stop, kill | Session, LocalTransportAgent |
| helper (`session-helper.cpp`, `dbus-sync.cpp`, `dbus-transport-agent.cpp`) | the running operation | Sync, Restore, Execute, Abort, Suspend | Session, Connection, sync engine |
| PIM Manager (`pim/`) | queue of pending operations, views | SyncPeer, SuspendSync, ResumeSync, ... | Server, Session |
| contact views (`pim/full-view.cpp`, `filtered-view.cpp`, `manager.cpp`) | sorted contacts, the subset which matches a filter, changes not sent yet | individualsChanged, onIdle, replaceFilter, setCompare, handleChange, flushChanges | libfolks, ViewAgent of a client |
| presence, ConnMan, NetworkManager, BlueZ clients | cached online status | updatePresenceStatus | AutoSyncManager |

Outside of the daemon:

| component | state | operations | talks to |
|---|---|---|---|
| `SyncContext::doSync()` | step command, aborting, suspending, retries, freeze state | the step loop, setFreeze, shutdown | sync engine, TransportAgent, SuspendFlags |
| `SuspendFlags` | normal, suspend, abort; a pipe between signal handler and program | handleSignal, printSignals | doSync, transports |
| `LocalTransportAgent`, `LocalTransportAgentChild` | status of the exchange in each process, pending D-Bus reply, report, shared memory | start, send, wait, cancel, shutdown; startSync, sendMsg, run | ForkExecParent, ForkExecChild, doSync on both sides |
| `TrackingSyncSource`, `SyncSourceRevisions` | revision of each item and of the database at the last sync, in memory and on disk | beginSync, insertItem, deleteItem, endSync, restoreData | sync engine, backends, config nodes |
| transports (Soup, Curl, OBEX, D-Bus) | status of the last message | send, wait, cancel, shutdown | doSync |

The sync engine (libsynthesis) is not part of the repository. `SyncConfig`
stores configurations, LogDir keeps session directories, backends adapt external
libraries. `PROJECT.json` lists all of these with the reason why each is not, or
only partly, modelled.

### 1.2 What is hard about it

* *Several ends for one thing.* A session ends because its helper answered,
  died, could not be started, a timeout fired, all owners vanished or a newer
  session of the same peer replaced it. Any two of these may meet.
* *Re-entrancy.* `Server::checkQueue()` activates a session, which may start a
  sync, fail, end, call `Server::dequeue()` and thus `checkQueue()` again,
  before the first call returns.
* *Ownership by reference counts.* Clients, connections, the running sync and
  one minute timeouts own a session; the lock and the queue only refer to it.
* *Delayed actions.* Shutdown and restart wait for the active session, for a
  period without file modifications, or for a zero second timeout.
* *Failures of another process.* The helper may die before it connects, during
  its operation, or right after its answer.
* *Requests that cut in.* A signal, a freeze request or an exception meets the
  sync loop at any of its steps, and the engine must hear of it once.
* *State which is derived and updated by differences.* A filtered view stores
  indices into another one that changes under it; a client rebuilds the view
  from signals that were merged on the way.
* *State on disk which is older or newer than the data.* A sync that fails or
  crashes leaves behind the database, the revision map and the peer, each at a
  different point of the sync.

`PROJECT.json` lists these hazards one by one, with the line where they bite
and the properties that cover them.

### 1.3 What makes the components correct

* Server and Session: mutual exclusion by the main lock; no lost and no
  duplicated queue entry; every queued session is served and every running one
  ends; no session is run after a shutdown request; the daemon neither shuts
  down under an active session nor hangs after a shutdown request; a session
  succeeds only because its helper said so, and reports its first error.
* Client: the last reference ends a session, a missing one is an error.
* Connection: messages alternate; one Abort at most; only Close() after the
  final message is a success; each connection ends.
* AutoTerm: no termination while in use, termination once unused.
* AutoSyncManager: an enabled task always has a wakeup pending.
* ForkExecParent: exactly one onQuit, after all output was delivered.
* doSync: the engine aborts once, gets each reply once, messages are resent at
  the configured pace, failures decide the result, requests to stop are obeyed.
* Local sync: shared memory is not overwritten while it is in use, the parent
  learns why the child failed, and no process survives the other.
* Change tracking: a change of the user is sent with the next sync, one of the
  sync itself is not.
* Contact views: a view has exactly the matching contacts in order, and the
  client can rebuild it from the signals.
* InfoReq: exactly one answer, from a client or from the timeout.

## 2. Modules

| module | contents |
|---|---|
| `SyncServer` | Server, Session, Client and the parts of Connection, AutoSyncManager, AutoTerm and ForkExecParent which create, run, own and end sessions |
| `SessionTurns` | abstract specification: sessions stand in line for one lock |
| `SyncServerRefinement` | the refinement mapping from `SyncServer` to `SessionTurns` |
| `MCSyncServer` | instances for TLC, with symmetry |
| `QueueTheorems` | lemmas on `Min`, `Max`, `RemoveAt`, `InsertAt` and suffixes of a queue: what they return, and that they keep the order of its entries |
| `SyncServerProofs` | inductive invariant and theorems about `SyncServer`, and that it implements `SessionTurns` |
| `SyncConnection` | Connection, the relay in Session, and DBusTransportAgent in the helper: one sync over D-Bus |
| `MCSyncConnection` | instances for TLC |
| `AutoSync` | AutoSyncManager, presence of transports, and what it sees of the server |
| `MCAutoSync` | instances for TLC: contents of configs |
| `ContactViews`, `MCContactViews` | FullView, FilteredView, ViewResource and a client that follows its signals |
| `SyncLoop`, `MCSyncLoop` | the loop of doSync(), SuspendFlags, and two transports: HTTP client (Soup) and D-Bus server |
| `LocalSync`, `MCLocalSync` | parent and child of a local sync: LocalTransportAgent, LocalTransportAgentChild, and what they need of ForkExec |
| `ChangeTracking`, `MCChangeTracking` | TrackingSyncSource and SyncSourceRevisions with the config node on disk |
| `SyncConnectionProofs`, `AutoSyncProofs`, `ContactViewsProofs`, `SyncLoopProofs`, `LocalSyncProofs`, `ChangeTrackingProofs` | inductive invariant and theorems about the module of that name |

### 2.1 SyncServer

The state is one record `srv` whose fields are named after the members of the
C++ classes (the comment above `State` lists them), plus `pc`. A callback of
the main loop is an action; a method it calls is an operator from one value of
`srv` to the next, so that an action contains everything the handler does,
re-entrant calls included. `Dequeue`, `CheckQueue`, `Enqueue`, `DoneCb`,
`RemoveSyncSession`, `Collect` (the destructor) and `ClientDetach` are such
operators. Recursion of the code through `activateSession()` is bounded by the
queue: `CheckQueue` computes in one expression which sessions fail to start and
which one finally gets the lock. The two loops that call back into the server
in each iteration, `~Client` and `killSessionsAsync()`, are unrolled into steps
with `pc`; no other action is enabled meanwhile.

| code | model |
|---|---|
| Server.StartSession | `StartSession` |
| Session.Attach, Session.Detach, loss of a client | `Attach`, `Detach`, `ClientGone`, `ClientGoneDetach` |
| first Connection.Process, killSessionsAsync | `ConnectionProcess`, `KillQueued`, `KillDone` |
| Connection::close, failed; destructor | `ConnectionFailed`, `ConnectionDestroyed` |
| AutoSyncManager::schedule with a ready task | `StartAutoSync` |
| Session.Sync, Restore, Execute | `StartOperation` |
| Session.Abort, Suspend, setFreezeAsync | `Abort`, `Suspend`, `SetFreeze` |
| helper connects, answers, exits; timeout of onQuit | `HelperConnect`, `HelperReply`, `HelperQuit`, `HelperQuitTimeout` |
| one minute timeout of delaySessionDestruction | `SessionExpired` |
| fileModified, shutdown, quitLoop | `FileModified`, `QuiescencePassed`, `Shutdown`, `QuitLoop` |
| AutoTerm::checkCallback, SIGINT/SIGTERM | `AutoTerminate`, `Signalled` |

Abstractions: a session has no configuration and no progress; a peer is its
device ID; the time since the last file modification is "recent" or "old"
relative to the quiescence period, and `QuiescencePassed` lets it age at any
moment. `AutoSyncEnabled` stands for `preventTerm()` and is constant. In each
step, starting a helper fails for a nondeterministic set of sessions (`Failures`).
Configurations are assumed to be valid: an exception of the configuration layer
inside `Connection::ready()` is not modelled. The number of references that one
client holds on a session is bounded by `MaxAttach`, and each session identity
is used once. `Stimuli` selects the requests and events of an instance, which
keeps each run small; all that follows from them is always enabled.

`SetFreeze` through a NULL helper is undefined behaviour in the code; the model
lets the server end as "crashed".

### 2.2 SessionTurns

Users of the daemon rely on a simple picture: sessions stand in line, one holds
the lock, a free lock goes to the one that has waited longest, nobody gets a
second turn, and anyone may leave at any time. `ImplementsTurns` states that
`SyncServer` implements it, where a dead entry of the work queue does not stand
in line, and a session which is created while `killSessionsAsync()` runs has
not arrived yet.

The line is a set (`waiting`) with an order relation (`ahead`), not a sequence:
what matters is who came before whom, and this is what the proof reasons about.
`holder` has the lock and `left` are those who never get it again. One step,
`Step(comers, L)`, lets new sessions arrive behind the others, lets any set `L`
leave, the holder included, and may give a free lock to the one of the rest that
nobody else is ahead of. The mapping takes `waiting` from the live entries of
`m_workQueue` (`Waiting`), `ahead` from their positions (`Order`), `holder` from
`m_activeSession`, and `left` is every session that was created and neither
waits, nor holds the lock, nor is still arriving (`Gone`).

### 2.3 SyncConnection

A remote peer (for example a phone behind an HTTP server) is represented by a
D-Bus client which passes the peer's messages to `Connection.Process()` and
gets replies as signals. Connection, Session and helper each keep a part of the
state of that exchange, in two processes. `con` is the server's part (Connection
and the relay in Session), `agent` the helper's. Calls to the helper and signals
from it travel in the sequences `con.calls` and `agent.signals`; the private
D-Bus connection keeps their order, but the two directions are independent.

| code | model |
|---|---|
| Connection.Process in SETUP, WAITING, any other state | `ProcessFirst` and `ProcessUnusable`, `ProcessNext`, `ProcessUnexpected` |
| Connection.Close, loss of the client | `Close`, `Vanish` |
| timeoutCb, delayed deletion | `TimedOut`, `DelayedDeletion` |
| ready, sync2, doneCb, killSessionsAsync | `Activate`, `HelperConnect`, `SessionEnds`, `KillQueued` |
| sendViaConnection, shutdownConnection, result of Sync | `SessionReceive` |
| storeMessage, storeState in the helper | `HelperReceive` |
| createTransportAgent, send, shutdown, wait | `CreateAgent`, `EngineSend`, `EngineShutdown`, `MaySucceed`, `EngineEnd` |

Abstractions: messages have no content, so a resent message that is identical to
the one being processed (which both sides ignore) is not told apart; what the
first message asks for only decides whether it is usable. An error text is empty
or not. The sync engine may answer, finish or fail whenever the transport lets
it. How the session gets the lock is the business of `SyncServer`.

### 2.4 AutoSync

`mgr` holds the tasks of the manager, its connections to signals, and the part
of the server it sees: the active session, one waiting session, and the idle
signal. `Schedule` is `schedule()`: it looks at the tasks in order, sets up
timers and presence watches until it finds one that is ready, and starts that
one. All events which lead there are actions: `InitConfig`, `IntervalTimer`,
`UrlTimer`, `PresenceSlot`, and the idle signal inside `ClientSession`,
`ClientDetach` and `SyncDone`. A presence signal calls `schedule()` once per
connection to it, one call after the other: `PresenceChanges` updates the
presence and `slots`, the calls that are left, and `PresenceSlot` makes one of
them. The main loop does nothing else in between (`MainLoop`).

Time is abstract. "recent" says that the interval since the last sync has not
passed yet, and `IntervalPasses` ends that; "stable" says that a transport has
been present for the requested delay, and `DelayPasses` lets it become so. A
timer that is set may fire at any time, which covers deadlines that were moved
by a changed config or another sync. One delay for all tasks is assumed to be
reached by one event. `Cap` counts connections to a presence signal up to
`MaxWatches`; from two on, the number of calls makes no difference to what is
scheduled. Whenever a sync is started, its helper may fail to start, and a sync
may end in any way, so that a failed task is enabled again by a client's sync of
the same config. `mgr.unseen` is a history: the tasks which `schedule()` has not
looked at since that happened, or since a task before them could not be started.
`Schedule` empties it.

### 2.5 ContactViews

`entries`, `value`, `order`, `modifications`, `notify`, `idle` and `quiescent` are
the full view and the individuals as libfolks knows them; `view` is the filtered view with
its local-to-parent mapping (`m_local2parent`), `res` the view resource with its
pending and its last change, and what the client has, whose `Apply` does what
`pim/pim-manager-api.txt` tells a client to do with each signal. The signals
between these objects are synchronous calls: operators turn a view and its
resource into the next. A callback of the main loop which loops over contacts is
one action per iteration. `loop` says which one is running and how far it got;
nothing else happens until it is done, as in the code.

| code | model |
|---|---|
| FullView::individualsChanged | `individualsChanged`, `removeIndividual`, `addIndividual`, `changesDone` |
| FullView::doStart | `Init`; later changes of these contacts are `unseenModification` |
| FullView::individualModified, quiescenceChanged | `individualModified`, `quiescenceChanged` |
| FullView::onIdle | `modifyIndividual` for each pending modification, `onIdle` |
| FullView::setCompare | `SetSortOrder`, `compareOld` for each index, `sortDone` |
| FilteredView::addIndividual, removeIndividual, modifyIndividual | `AddToView`, `RemoveFromView`, `ModifyInView` |
| FilteredView::fillViewCb, from the main loop or parentQuiescent | `fillViewOnIdle` or `Following`, then `fillView`, `fillViewDone` |
| FilteredView::replaceFilter, refine or not | `RefineSearch`, `refine`, `refineDone`, or `ReplaceSearch` |
| ViewResource::handleChange, flushChanges, readContacts | `handleChange`, `flushChanges`, `ReadContacts` |
| Manager.Search, Close | `Search`, `Close` |

A contact is an identity with a value; a filter is the set of values it matches;
the sort order is by value in either direction, and contacts with the same value
may stand in any order after `std::sort`. A view has no limit or room for one of
`Limits` contacts. `MaxStimuli` bounds the number of requests and events,
`MaxChanged` how many individuals are removed and how many are added by one
libfolks signal, `MaxStart` how many contacts libfolks had loaded before the first
Search() started the full view (after Manager.Start(), for example).

`notify` says for each contact whether the full view listens to its changes. Only
doAddIndividual() connects to that signal; contacts which doStart() takes over
are "off" until they are removed and added again, and "missed" once they have
changed, which no callback sees. Two more histories: `res.misled`, the client was sent something else
than what happened, and `view.replaced`, the mapping was made for another filter
than `m_filter`.

### 2.6 SyncLoop

`loop` is what doSync() keeps in local variables, `flags` is `SuspendFlags`
with its pipe, `agent` is the transport. `engine` is external: `Results` says
what SessionStep() may return or throw in each situation, which is as much as
the code assumes of it. Each pass of the loop is split where other things may
happen in between: `Top` (choose the command), `Thaw` (frozen), `SessionStep`,
`Stop` or `Dispatch` (look at the result), `Send`, and waiting: `SoupWait` after
`SoupDone`, `DBusWait`, `Sleep`. The callback of libsoup (`SoupDone`) runs in
whatever main loop is running, so also while the sync is frozen; a failure that it
stores then ("FAILED_EARLY") makes the next wait() throw instead of returning
FAILED, and the message is not sent again. `Tail` is the end of the try block, `Catch` the
handlers. Signals (`handleSignal`) arrive at any point, bytes in the pipe are
read by the loop itself or by glib (`SignalChannelReady`), `setFreeze` comes from
the main loop while the code waits.

Time is counted in units of the retry interval, up to `RetryDuration`. A failure
comes at once or after one unit. `MaxCalls` bounds the steps of the engine,
after which it finishes; `MaxSignals` and `MaxFreeze` bound requests. The result
"quitsync" of a local sync without changes is not modelled.

### 2.7 LocalSync

`parent` and `child` are the two processes; `toChild` and `toParent` are the two
directions of their private D-Bus connection. A D-Bus call is a numbered message
and its reply may arrive later, be an error, or never be sent. `parent.in`,
`.out` and `child.in`, `.out` number the messages in the two shared memory
blocks, which hold one message each. The main loop of each process runs only
where the code runs it: inside wait(), shutdown(), the wait for a password, and
step() in the child.

`Faults` selects what goes wrong: an abort request (`Abort`, then the child is
killed by SIGTERM), death of either process at any point, and exceptions inside
startSync(). The engines of both sides may fail or finish when it is their turn.
Suspend requests and the relay of setFreeze() are left out.

### 2.8 ChangeTracking

`db` is the database, `peer` what the other side has. `mem` and `disk` are the
config node which holds the revision of each item and the database revision: in
the code both are nodes of one file, so every flush writes everything. A sync
(`beginSync`, then `SendItem`, `PeerChange`, `PeerChangeRefused` in any order,
then `endSync` and the delay of `sleepSinceModification()`, `Awake`) may fail or
crash anywhere; the user changes the database at any time (`UserChange`).
Revisions are time stamps, `Tick` advances the clock by the resolution of
revisions; `backend` says whether databaseRevision() is supported. `due` is a
history variable: the items whose last change the code is able to find. The
local-cache modes of a server, in which `needChanges()` is false and
updateRevision() does nothing (`SyncContext.cpp:2314`), do not track changes and
are outside of the model.

## 3. Runs

Every run finishes within minutes. Except for `AutoSync`, the systems do stop:
after the daemon left its main loop, the sync ended, or bounds on stimuli are
used up, no action is enabled. These runs say `CHECK_DEADLOCK FALSE`; that what
must happen does happen is left to the liveness properties.

| run | instance | result |
|---|---|---|
| `server_clients` | 2 clients, 2 sessions, 2 operations, automatic syncs, abort, suspend, freeze, signals, file modification, helpers fail to start | `LockHolder`, `RunningIsProtected`, `NoShutdownWhileActive`, `IdleSignalAccurate`, `NoActivationAfterShutdown`, `ErrorIsSticky`, `SuccessNeedsReply` hold |
| `server_peers` | client, peer with and without device ID, 3 sessions, helpers fail to start | `TypeOK`, `OnlyIdleQueued`, `OneWaitingPerPeer`, `NoAutoTermWhileBusy` and the refinement `ImplementsTurns` hold |
| `server_liveness` | remote peer, 2 sessions, file modification, helpers fail to start, `FairSpec` | `RunningEnds`, `ShutdownCompletes`, `QueuedIsServed` hold |
| `connection` | 3 messages, timeout, `FairSpec` | `ReplyProtocol`, `HelperNotStranded`, `InStep`, `RegularCloseFinal`, `WaitingEnds` hold |
| `autosync` | 2 configs, 4 settings, HTTP comes and goes, 2 config changes, a client session, helpers fail to start, `FairSpec` | `TypeOK`, `WakeupPending`, `SyncsRepeat` hold |
| `autosync_stall` | 2 configs, helper fails to start | `NeverStalled` is violated |
| `views` | 3 contacts, 2 values, with and without limit, one of them possibly there before the view, 4 events of up to 2 removed and 2 added contacts | `ViewExact`, `AgentMirrors`, `AgentFresh`, `NothingStuck` hold |
| `sync_loop` | both transports, 8 engine steps, 2 signals, 2 freeze requests, retry duration 3, `FairSpec` | `AbortOnce`, `GotDataFresh`, `RetryPace`, `ErrorReported`, `InterruptEnds` hold |
| `loop_suspend` | D-Bus, one signal, `FairSpec` | `SuspendEnds` is violated |
| `local_sync` | 4 calls, all faults, `FairSpec` | `NotOverwritten`, `ReportKnown`, `CauseReported`, `NobodyLeftBehind`, `AbortEnds` hold |
| `tracking` | 2 items, 4 changes, 3 units of time, with and without database revision | `NoLostChange`, `NoEcho` hold |
| `tracking_rollback` | 2 items, 2 changes, 2 units of time | `MapKeptOnFailure` is violated |

The type invariants of the other modules document the shape of their state; they
were checked with the instances above and are not listed in the runs. Those of
`SyncConnection`, `ContactViews` and `ChangeTracking` are proved, and so is every
safety property of this table, see section 4.

*Bounds.* In `server_peers` three sessions are the least for which one holds the
lock and two wait, so that order in the queue, removal in its middle and dead
entries behind or before live ones occur. In `server_clients` two clients are
the least for which one leaves a session the other still uses, and two sessions
the least for which one ends while the other waits; all that this run checks is
proved for any number. One peer (and none) suffices: sessions
of different peers do not affect each other more than sessions without peer do.
Sessions and clients are interchangeable in all safety properties, hence the
symmetry sets; runs with liveness properties use no symmetry. In
`SyncConnection`, three messages are a first one, one that is answered by a
reply, and one more that meets a timeout or a final reply; the exchange repeats
from there. In `AutoSync`, two configs are the least for which one task is
behind another in the loop of `schedule()`, and two changes enable both, or
enable one and change it again. HTTP and Bluetooth are treated alike by the
code, so one transport with a presence and one without suffice. The order of
configs matters, so there is no symmetry.

In `ContactViews` three contacts are the least for which one lies between two
others, which merging of signals and shifted indices need; four events allow a
search, a change and a new filter or order after contacts were added, and two
contacts in one event are the least which are merged before anything is sent. One
contact that was there before the view is enough to stand beside others whose
changes are seen. There are 1 285 994 distinct states. More events are covered by
the proofs. In `SyncLoop` eight engine steps
allow two complete message exchanges, after which the loop is back in a state it
was in; two signals are a suspend request and the abort that overtakes it, and a
retry duration of three units has two retries before the loop gives up. In
`LocalSync` four calls are StartSync, two messages and a last one: the first,
a middle and the final message are treated differently. In `ChangeTracking` two
items are the least for which one is written while the change of another one
waits; four changes and three time stamps allow a change before, during and
after a sync and one in the same unit of time as another. The run also passes
with five changes.

*Fairness* (`FairSpec`). The main loop polls all its event sources, so a ready
timeout is served even if other sources stay busy: strong fairness, because a
source is only ready between two handlers. That a helper ends its operation
one way or the other is an assumption about the helper, the daemon has no
timeout for it; what the daemon contributes, and what the mutants break, is
that each such end is noticed. Clients are assumed not to hold the lock idly
forever and to close their connections eventually: the daemon does not enforce
that either. The formulas write the enabling condition of these actions out,
because TLC evaluates `ENABLED` of the big actions slowly.

In `SyncConnection` only the main loops of daemon and helper are fair (weakly:
a pending call, signal or timeout stays pending); neither the peer nor the sync
engine owes a step. In `AutoSync` timers and the clock are weakly fair, a client
is assumed to use or leave its session, and a sync to end; the calls of a
presence signal that was emitted (`PresenceSlot`) are made. Presence and config
changes are not fair; `SyncsRepeat` is conditional on a transport that stays.

In `SyncLoop` the code itself and glib's watch of the pipe are weakly fair. A
pending HTTP request is assumed to be answered, to fail or to time out, but not
once an abort was requested: `InterruptEnds` must hold without that. Peers,
signals and freeze requests owe nothing. In `LocalSync` both processes and their
main loops are weakly fair; the user need not answer a password request, and no
fault is assumed to happen.

### 3.1 Disagreements found

Places where a comment or document of the repository and the code disagree. The
first three are runs. The others are stated as properties, too; the config given
in brackets, which is not one of the regular runs, shows the counterexample:
`tlc -config X.cfg MCModule`.

1. `autosync_stall`: `schedule()` connects to the idle signal after `enqueue()`
   (`auto-sync-manager.cpp:376`). If the helper cannot be started, that signal
   was emitted before, and tasks behind the failed one are forgotten until a
   config changes.
2. `loop_suspend`: `DBusTransportAgent::doWait()` handles no events once a
   suspend was requested (`dbus-transport-agent.cpp:120`). A server sync that
   waits for its peer at that time spins in doSync() until it is aborted;
   `syncevo-session-full.xml:242` documents Suspend() as ending the sync.
3. `tracking_rollback`: `resetDatabaseRevision()` writes the file which also has
   the item revisions that `detectChanges()` has just updated in memory. A sync
   that fails later has thus forgotten local changes which it did not send,
   although `TrackingSyncSource.cpp:131` wants to "keep the revision map
   unchanged". They look unchanged to an incremental sync; only a slow sync, which
   compares all items, still finds them.
4. `QueueSortedByPriority` (`ServerPriority.cfg`): `Server::enqueue()` compares
   the priority of a queue entry with itself because a local variable hides the
   parameter (`server.cpp:623`). The queue is first-come, first-served, not
   "sorted by priority, most important one first" (`server.h:139`).
   `ImplementsTurns` is the property that does hold.
5. `RestartAfterModification` (`ServerRestart.cfg`): a session that ends more
   than ten seconds after the last file modification makes `checkQueue()` leave
   the main loop directly; the restart that `server.h:94` calls necessary with
   automatic syncs is skipped (`server.cpp:706`).
6. `FreezeSurvived` (`ServerFreeze.cfg`): `setFreezeAsync()` checks
   `m_forkExecParent` and uses `m_helper`, which is NULL until the helper has
   connected (`session.cpp:482`); `pim/pim-manager-api.txt:275` documents
   SuspendSync() as safe at any time.
7. `SuccessNeedsClose` (`ConnectionVanish.cfg`): a client that disappears after
   the final reply, before Close(), leads to a successful sync
   (`connection.cpp:550`, `dbus-transport-agent.cpp:81`);
   `syncevo-connection-full.xml:54` calls that a fatal error. In all other
   states the loss of the client is a failure.
8. `AgentAlwaysMirrors` (`ViewsMerge.cfg`): `handleChange()` merges a contact
   added at #start with pending ones added at #start + 1, although the contact
   which was at #start now lies between them (`pim/manager.cpp:575`); the client
   ends up with another order than `pim/pim-manager-api.txt:462` describes.
9. `ReplaceIsMirrored` (`ViewsReplace.cfg`): `replaceFilter(refine = false)`
   assigns `new_delta = delta` instead of the reverse and takes the indices of
   `LCS::lcs()`, which count from 1, for 0-based ones
   (`pim/filtered-view.cpp:244`); contacts which
   `pim/pim-manager-api.txt:420` promises to add back are in the view and
   unknown to the client.
10. `LimitedViewComplete` (`ViewsLimit.cfg`): a limited view is filled up later,
    behind its last entry (`pim/filtered-view.cpp:341`). A contact added in the
    meantime makes it skip a matching one, although
    `pim/pim-manager-api.txt:473` calls the view complete when it is quiescent.
11. `RestoredOnce` (`LoopAbort.cfg`): an abort request that arrives while the
    engine processes STEPCMD_SUSPEND leaves `suspending` at 1, and every later
    result is replaced by the command in front of which SUSPEND was put
    (`SyncContext.cpp:4145`): the engine is told again about a reply which it
    has processed.
12. `ChildFailureSeen` (`LocalReport.cfg`): when the child of a local sync fails
    after the server's last message, shutdown() only waits for its exit, and
    doSync() ignores that wait() then returns FAILED; the parent reports
    success. The comment at `SyncContext.cpp:3488` says that a failure "was
    already propagated to the parent via a TransportStatusException", by a
    function which does not exist.
13. `ViewAlwaysExact` (`ViewsFilter.cfg`): `replaceFilter(refine = false)` swaps
    the mapping, but only the other branch assigns `m_filter`
    (`pim/filtered-view.cpp:139` and `:262`). The view shows what the new filter
    of `ReplaceSearch()` matches (`pim/pim-manager-api.txt:420`), and contacts
    that are added or modified later are judged by the old one.
14. `AgentAlwaysFresh` (`ViewsPreload.cfg`): `doStart()` inserts the individuals
    which libfolks already has without connecting to "notify"
    (`pim/full-view.cpp:64`), which doAddIndividual() does (`:203`;
    `pim/full-view.h:120`: "Starts monitoring it for changes"). After
    Manager.Start() and a later Search(), changes of these contacts are never
    examined: they stay in views they no longer match, and clients are not told
    that what they have read "became invalid" (`pim/pim-manager-api.txt:436`).
15. `AutoTermPrevented` (`AutoSyncTerm.cfg`): a successful sync of a client clears
    the permanent failure of a task (`auto-sync-manager.cpp:511`), but only
    `initConfig()` takes the reference which keeps the daemon running (`:216`).
    The daemon may then terminate although, as `test/test-dbus.py:1798` says, it
    "must not terminate while auto syncing is enabled".
16. `IdleSignalled` (`ServerIdle.cfg`): `enqueue()` emits `m_idleSignal(false)`
    after `checkQueue()` (`server.cpp:632`). If the helper of the only session
    cannot be started, checkQueue() has emitted "idle" before, and the last
    signal does not have the "current value" (`server.h:446`): `AutoTerm` keeps a
    reference that nobody drops.

Smaller observations, from reading the code for the models: a redundant
"modified" change is dropped after a new sort order although another contact is
at that index; `FilteredView::modifyIndividual()` may exceed the limit; a change
of locale refilters as if the new filter could only match less
(`pim/manager.cpp:836`); a failing direct EDS search never becomes quiescent
(`pim/edsf-view.cpp:77`); `Sleep()` always returns 0 with glib although
`util.h:348` says that it returns the time left, so that one branch of doSync()
is dead; `SuspendFlags::getState()` returns SUSPEND while a suspend blocker
exists even if the state is ABORT; `handleSignal()` lacks a break after SIGINT,
so that messages to the user are lost; `LocalTransportAgentChild::run()` goes on
after it has logged that it does not start because of an abort; connections to
presence signals are never removed and multiply (`auto-sync-manager.cpp:321`);
an automatic sync whose interval is shorter than its sync starves later tasks
(`auto-sync-manager.cpp:252`); after the final reply a connection has no timeout
(`SyncContext.cpp:4483`).

No constant of a passing run switches a failure off. Where the code does not keep
its promise, the property itself names the exception, and the theorem about it has
the same one:

* `IdleSignalAccurate` is a property of steps: an accurate idle signal stays
  accurate, except in a step in which an idle server enqueues a session whose
  helper cannot be started (`StartFailed`, item 16). The safe direction,
  `NoAutoTermWhileBusy`, holds without exception.
* `WakeupPending` and `SyncsRepeat` except tasks in `mgr.unseen`: those behind a
  task that could not be started (item 1), and a task that a client's sync enables
  again (`auto-sync-manager.cpp:511`), which does not call `schedule()`.
* `ViewExact` and `AgentFresh` except a contact which was there before the full
  view and has changed since (item 14), until it is removed and added again.
* `AgentMirrors` and `AgentFresh` make an exception for a client which was misled:
  by the defects 8 and 9, or by a "modified" signal that was dropped as redundant
  after a new sort order. `ViewExact` is about all matching contacts only for
  views without limit (10), and about content only if `ReplaceSearch()` brought
  no other filter (13).
* `GotDataFresh` and `InterruptEnds` except the race of item 11 (`flags.raced`);
  `InterruptEnds` covers suspend requests only for the HTTP client, see 2.
* `NoLostChange` lists its exceptions: changes during a sync if the backend has
  a database revision (that revision is read at the end of the sync,
  `TrackingSyncSource.h:122` explains it), changes that fall into the same unit
  of time as another, an item which a failed sync added and could not record,
  and item 3. Restored items are deliberately recorded as known and not sent.

## 4. Proofs

The theorems hold for every value of the constants that the assumption of the
module allows (`ServerAssumption`, `ConnectionAssumption`,
`AutoSyncAssumption`, and the `ConstantsAssumption` of the others: bounds are natural numbers, `None` is no
session, and the like), not only for the instances above. Each proof module has
one inductive invariant `IInv` and the same outline: `Init => IInv`, one lemma per action
that shows that it keeps `IInv`, their combination, and the theorems as
consequences.

| module | theorems |
|---|---|
| `SyncServerProofs` | `TypeCorrect`, `LockHolderSafe`, `OnlyIdleQueuedSafe`, `RunningIsProtectedSafe`, `NoShutdownWhileActiveSafe`, `OneWaitingPerPeerSafe`, `NoAutoTermWhileBusySafe`; the action properties `IdleSignalAccurateSafe`, `NoActivationAfterShutdownSafe`, `ErrorIsStickySafe`, `SuccessNeedsReplySafe`; the refinement `ImplementsTurnsHolds` |
| `SyncConnectionProofs` | `TypeCorrect`, `ReplyProtocolHolds`, `HelperNotStrandedHolds`, `InStepHolds`; the action property `RegularCloseFinalHolds` |
| `AutoSyncProofs` | `TypeCorrect`, `WakeupPendingHolds` |
| `ContactViewsProofs` | `InvariantHolds`, `TypeCorrect`, `ViewExactHolds`, `AgentMirrorsHolds`, `AgentFreshHolds`, `NothingStuckHolds` |
| `SyncLoopProofs` | `AbortOnceHolds`, `GotDataFreshHolds`, `RetryPaceHolds`, `ErrorReportedHolds` |
| `LocalSyncProofs` | `NotOverwrittenHolds`, `ReportKnownHolds`, `CauseReportedHolds` |
| `ChangeTrackingProofs` | `TypeCorrect`, `NoEchoHolds`, `NoLostChangeHolds` |

No theorem has a hypothesis beyond the assumption of its module: the exceptions
listed at the end of section 3.1 are part of the properties.

### 4.1 SyncServer and its refinement

None of the properties is inductive alone. For example, that a released lock
leaves no session running (`LockHolder`) needs to know that the sync session is
the running one; that an entry taken from the queue may become active needs
`OnlyIdleQueued`; that entry is still unique only if a session is queued at most
once and never after it was done. `IInv` is the conjunction of

* `State`, the type of `srv`;
* `Consistent`: `LockIs` (lock holder is exactly the active or running
  session), `SyncIs` (sync session is exactly the running one), `QueueIdle`
  and `QueueOnce` (entries are idle, and unique), `UnbornIdle` (sessions not
  yet created are untouched and in no queue) and `Ending` (no timer while the
  lock is held);
* `HolderAlive`: the holder of the lock has not been destructed;
* `PeerOnce`: of the live sessions of a peer at most one is queued;
* `Heard`: the last idle signal was "idle" only if the server is;
* `Clean`: an idle session has no helper, so that only a session which ran ends
  without error;
* `Creating`: while `killSessionsAsync()` runs, the new session exists, is
  idle and is not yet queued.

`HolderAlive` is separate because it fails in the middle of a destructor:
`Collect` marks the session as destructed before its `doneCb()` gives up the
lock. The lemmas follow the call graph of the code. For each operator there is
a lemma that says which fields it changes (`...Fields`), one that says that
it preserves `Consistent`, and one that relates its result to its argument:
`Turn` (who left the queue, in which order the others remain, who got the lock),
`Quiet` and `Told` (what the idle signal said; with `Heard`, an idle server has said
so afterwards, unless the signal was wrong before), `Outcome` (errors stay, and who
ends without an answer of the helper has one). These relations are transitive,
so that a handler which calls several operators has them, too; `Good` is restored
for whole handlers (`DoneCbGood`, `CollectGood`, `ClientDetachGood`), each action
has a lemma (`...Step`), and `StepGood` combines them.

`StepGood` also classifies each step (`Moves`): nobody arrives, one session
arrives behind the others, or one is created for which `killSessionsAsync()` runs
first. The refinement proof maps each case to a step of `SessionTurns`. The set
that leaves is what waited, held the lock or arrived before the step and does
neither wait nor hold the lock after it (`Leaving`); `Turn` shows that the new
holder was ahead of everybody who still waits, and `QueueOnce` that the order of
the entries is one.

### 4.2 SyncConnection

The properties relate the two processes, which are several messages apart, so the
invariant is about what is on its way. `Alone` is what the server's side keeps by
itself: which states go with which owner and session (`Owned`), that the session
relays as long as the connection exists (`Relayed`), and that each reply has its
message and nothing follows an abort (`Replied`). `Together` is about both:
signals of the helper follow from its state (`SignalsOf`), reports about the
connection are the last calls (`CallsTo`), as long as the connection can be used
at most one message is on its way, in the direction that the two states imply
(`Turn`), a helper which still waits after that has a report coming (`Told`), and
after a regular end none of the reports is an error (`Closed`).

### 4.3 AutoSync

Whatever makes a timer, a watch or the connection to the idle signal disappear
calls `schedule()` again; a task that becomes enabled without such a call is in
`unseen`. `Rested` says that each enabled task outside of `unseen` has a timer, a
watch or timer for each of its transports, or an idle signal to come. `IInv` is
`TypeOK` together with `Rested`; while calls of a presence signal are outstanding
(`slots`) `Rested` need not hold, because one of those calls restores it. A lemma
shows that `schedule()` establishes `Rested` from any state of the right type, also
when the chosen task cannot be started.

### 4.4 SyncLoop

`IInv` says for each place of the loop which commands are possible (`Placed`),
that an acted upon request was made (`Asked`), that the engine was told to abort
exactly if `aborting` is set (`Told`), what `prev` holds wherever the loop may
return to it (`Returns`), and that a reply waits in the engine wherever GOTDATA
is next (`Unread`). `RetryPace` is about an undisturbed client, so the invariant
adds for the time before any request that a message which was sent is still in
the buffer and that every time it was sent again a unit of time had passed
(`Clock`, `Fresh`).

### 4.5 LocalSync

A call of the parent is on its way, held by the child, answered, or done, never
two of these (`Single`, `Outstanding`); a reply that is still wanted carries the
child's last message (`Wanted`), and a child that was started waits when it is
the parent's turn (`Turn`): together these give `NotOverwritten`. `Reported` is
the course of the report, its acknowledgement and the exit code. `Blamed` gives a
reason for each failure: StartSync() was refused, or the child is gone without
having reported a failure.

### 4.6 ChangeTracking

Any item which a sync writes brings everything in memory into the file, so
whether the next sync finds a change depends on more than the file. `Times` and
`Waited` order revisions and the clock, `Own` says where changes of the sync
itself are known, and `Due` where each change of the user that is due stands:
found between syncs (`DueIdle`); during a sync found and still to be sent
(`DueFound`), made after the sync had looked (`DueLater`), or known to the peer
(`DueDone`).

### 4.7 ContactViews

Here the state is made of lists, and each of the three objects has its own copy
of what is the same list. The argument goes from the client to the full view.

* `Follows(r, q, ...)`: a client which is not misled has the contacts `q` once the
  pending change is applied, each with current data, with none, or with its
  modification not examined (`Unexamined`: not yet, or because nobody listened). It needs `Fits` (the pending change lies
  within the client's list) and `Told` (what `m_lastChange` covers was not read
  since): that is what makes dropping a redundant signal right.
  `HandledChange` shows for each way in which `handleChange()` merges, replaces or
  flushes that the client follows the changed list.
* `Consistent`: the mapping of the filtered view is ascending and within the full
  view, and the client follows the contacts it maps to. `AddKeeps`,
  `RemoveKeeps` and `ModifyKeeps` show that each signal of the full view, with
  the shifts of indices and the removal that makes room, keeps this in line.
* `FullOK`: the entries are sorted, with each contact once. That an entry is moved
  only if it is not between its neighbours, and where `lower_bound()` puts it,
  keeps this.
* `Exact` and `LoopOK`: which contacts the view has, as far as the running callback
  got: `fillView` has not seen what is behind its index, `refine` has only
  checked what is before it.
* `Held`: while `setCompare()` runs, view and client take the contact at an index
  which it has not compared yet for the one that the old order had there. The
  view is in line with this mixture, and at the end with the new order.

`IInv` is the conjunction. `Quiet` is separate: what is pending or to be filled
while libfolks is quiescent has an idle callback armed, or a running callback
which sends it. `NothingStuck` follows from it.

The positions at which merged changes end up are those of `InsertAt`, `RemoveAt`,
`SubSeq` and concatenations, each of which has a lemma that says what is at which
position; no step needs induction over a list. The one fold in the model, the
signals of `ReplaceSearch`, is not relied upon: it sets `misled`.

### 4.8 Only model-checked

Liveness under fairness and anything with `ENABLED` is out of the proof system's
reach: `RunningEnds`, `ShutdownCompletes`, `QueuedIsServed`, `WaitingEnds`,
`SyncsRepeat`, `InterruptEnds`, `NobodyLeftBehind`, `AbortEnds`. So is induction
over data: what the signals computed by a fold in `Morph` do to a client is left
to TLC (`ReplaceIsMirrored`, which fails).

## 5. Plan

Done: `SyncServer` with its runs, the refinement, and their proofs;
`SyncConnection`, `AutoSync`, `ContactViews`, `SyncLoop`, `LocalSync` and
`ChangeTracking` with their runs and proofs of their safety properties.
To do, in this order:

1. `AutoTerm`: reference counting by clients, connections, automatic syncs and
   the idle signal, in limited and unlimited mode.
2. `ForkExecParent`: order of pipe and child events, exactly one onQuit, which
   `SyncServer` and `LocalSync` assume.
3. `InfoReq`: answer, timeout and session end in any order.
4. `MergeView`, and `MapSyncSource` on top of `ChangeTracking`.

## 6. Not modelled

Contents of configurations and databases, progress reporting, logging, the
D-Bus binding and message formats, the sync engine, the Curl and OBEX
transports, backends, the command line and the graphical interfaces: adapters
around external code, sequential formatting and parsing, or presentation. They
make up most of the lines of the repository; what is modelled is its concurrent
and failure-handling core.

Within the modelled components: MergeView, direct EDS searches and the queue of
PIM operations; SetConfig; InfoReq and password requests in the daemon; the
"quitsync" shortcut of a local sync without changes; suspend and freeze across
the two processes of a local sync; blockers of SuspendFlags; sources without
revision strings, delayed item changes (ITEM_AGAIN) and resume tokens; rotation
of session directories; migration of configurations.
