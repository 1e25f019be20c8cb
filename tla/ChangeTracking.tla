--------------------------- MODULE ChangeTracking ---------------------------
(***************************************************************************)
(* Change tracking of a data source: TrackingSyncSource on top of          *)
(* SyncSourceRevisions.  Each sync compares the revision strings of all    *)
(* items with the ones remembered in a config node (.other.ini) and tells  *)
(* the engine which items have changed since the last sync.  The node is   *)
(* kept in memory and written to disk as a whole by flush(): items and     *)
(* meta information ("databaseRevision") share one file.                   *)
(*                                                                         *)
(* The user changes items at any time, also during a sync.  A sync may     *)
(* fail, and the process may die.  The engine (libsynthesis) and the peer  *)
(* are external: changed items are read and sent in any order, changes of  *)
(* the peer are written in between, a sync without valid token is slow and *)
(* compares everything.                                                    *)
(*                                                                         *)
(* Revisions are time stamps, as in the file backend: two modifications    *)
(* in the same unit of time get the same revision.                         *)
(*                                                                         *)
(* The source tracks changes: needChanges() is true, as it is except for a *)
(* server that uses the source as cache (local-cache modes).               *)
(***************************************************************************)
EXTENDS Naturals

CONSTANTS Items,             \* LUIDs
          DatabaseRevision,  \* does databaseRevision() return something? subset of BOOLEAN
          MaxTime,           \* bound of the clock
          MaxChanges         \* bound: number of changes of the database

ASSUME ConstantsAssumption ==
    /\ DatabaseRevision \subseteq BOOLEAN
    /\ MaxTime \in Nat \ {0} /\ MaxChanges \in Nat

VARIABLES backend,   \* databaseRevision() is supported
          clock,     \* unit: m_revisionAccuracySeconds
          changes,   \* number of changes of the database so far
          db,        \* the database
          peer,      \* value which the peer has for each item
          mem,       \* m_trackingNode and m_metaNode
          disk,      \* their file
          sync,      \* the current sync
          due        \* history: items whose last change the next sync has to find, see NoLostChange

vars == <<backend, clock, changes, db, peer, mem, disk, sync, due>>

(***************************************************************************)
(* db[i].val, .rev   content, 0 if there is no such item; revision         *)
(*      .own         last written by the sync                              *)
(* mem, disk: .rev   revision of each item, 0 if there is none             *)
(*            .db    property "databaseRevision", 0 if empty               *)
(* sync.phase   "idle", "running", "sleeping" (sleepSinceModification())   *)
(*     .todo    changes not sent to the peer yet                           *)
(*     .slow    slow sync                                                  *)
(*     .modified  m_modTimeStamp                                           *)
(*     .token   a non-empty token of an earlier sync exists                *)
(*     .ok      the last sync was successful                               *)
(*     .before  history: revisions in the file when the sync began         *)
(***************************************************************************)
Node == [rev : [Items -> 0..MaxTime], db : 0..MaxChanges + 1]
SyncState ==
    [phase : {"idle", "running", "sleeping"}, todo : SUBSET Items, slow : BOOLEAN, modified : 0..MaxTime,
     token : BOOLEAN, ok : BOOLEAN, before : [Items -> 0..MaxTime]]

TypeOK ==
    /\ backend \in DatabaseRevision
    /\ clock \in 1..MaxTime
    /\ changes \in 0..MaxChanges
    /\ db \in [Items -> [val : 0..MaxChanges, rev : 0..MaxTime, own : BOOLEAN]]
    /\ peer \in [Items -> 0..MaxChanges]
    /\ mem \in Node /\ disk \in Node
    /\ sync \in SyncState
    /\ due \subseteq Items

Empty == [rev |-> [i \in Items |-> 0], db |-> 0]

Init ==
    /\ backend \in DatabaseRevision
    /\ clock = 1
    /\ changes = 0
    /\ db = [i \in Items |-> [val |-> 0, rev |-> 0, own |-> FALSE]]
    /\ peer = [i \in Items |-> 0]
    /\ mem = Empty /\ disk = Empty
    /\ sync = [phase |-> "idle", todo |-> {}, slow |-> FALSE, modified |-> 0, token |-> FALSE, ok |-> FALSE,
               before |-> Empty.rev]
    /\ due = {}

\* listAllItems() returns the revisions of existing items.
Revision(i) == IF db[i].val = 0 THEN 0 ELSE db[i].rev

\* databaseRevision(): different after each change.
databaseRevision == IF backend THEN changes + 1 ELSE 0

\* The database after another write at this time; val = 0 removes the item.
Written(i, val, own) == [db EXCEPT ![i] = [val |-> val, rev |-> clock, own |-> own]]

-----------------------------------------------------------------------------
(***************************************************************************)
(* Begin of a sync.                                                        *)
(***************************************************************************)

\* How to detect changes; depends on the token given by the engine.
ChangeMode(node, token) ==
    IF ~token THEN "CHANGES_SLOW"
    ELSE IF node.db # 0 /\ node.db = databaseRevision THEN "CHANGES_NONE"
    ELSE "CHANGES_FULL"

\* detectChanges(): new, updated and deleted items.
detectChanges(node, mode) ==
    IF mode = "CHANGES_NONE" THEN {} ELSE {i \in Items : Revision(i) # node.rev[i]}

\* detectChanges(): the node gets the current revisions, in memory only.
Tracked(node, mode) ==
    IF mode = "CHANGES_NONE" THEN node ELSE [node EXCEPT !.rev = [i \in Items |-> Revision(i)]]

\* Another process reads the file; a slow sync compares all items.
beginSync ==
    /\ sync.phase = "idle"
    /\ LET mode == ChangeMode(disk, sync.token)
       IN /\ mem' = Tracked(disk, mode)
          /\ sync' = [sync EXCEPT !.phase = "running", !.slow = mode = "CHANGES_SLOW",
                        !.todo = IF mode = "CHANGES_SLOW" THEN {i \in Items : db[i].val # peer[i]}
                                 ELSE detectChanges(disk, mode),
                        !.modified = 0, !.before = disk.rev]
    /\ UNCHANGED <<backend, clock, changes, db, peer, disk, due>>

-----------------------------------------------------------------------------
(***************************************************************************)
(* During the sync.                                                        *)
(***************************************************************************)

\* The engine reports a change.  Items that were gone when the sync began are reported
\* as such, other ones are read now; one that cannot be found any more is skipped.
SendItem(i) ==
    /\ sync.phase = "running" /\ i \in sync.todo
    /\ peer' = [peer EXCEPT ![i] = IF mem.rev[i] = 0 THEN 0 ELSE IF db[i].val = 0 THEN @ ELSE db[i].val]
    /\ sync' = [sync EXCEPT !.todo = @ \ {i}]
    /\ due' = {k \in due : k = i => peer'[i] # db[i].val}
    /\ UNCHANGED <<backend, clock, changes, db, mem, disk>>

\* resetDatabaseRevision(): "if anything goes wrong, then we don't want to rely on a
\* possibly incorrect optimization".
resetDatabaseRevision == [mem EXCEPT !.db = 0]

\* Mutant: the change is not recorded.
NotUpdated(node, i, val) == node

\* updateRevision(), deleteRevision() with needChanges(); without it, in the
\* local-cache modes, both return at once and nothing is recorded.
updateRevision(node, i, val) == [node EXCEPT !.rev[i] = IF val = 0 THEN 0 ELSE clock]

\* insertItem() and deleteItem() for a change of the peer.  The change is recorded
\* after the node was written.
PeerChange(i, val) ==
    /\ sync.phase = "running" /\ changes < MaxChanges
    /\ changes' = changes + 1
    /\ disk' = resetDatabaseRevision
    /\ db' = Written(i, val, TRUE)
    /\ mem' = updateRevision(resetDatabaseRevision, i, val)
    /\ peer' = [peer EXCEPT ![i] = val]
    /\ sync' = [sync EXCEPT !.todo = @ \ {i}, !.modified = clock]
    /\ due' = due \ {i}
    /\ UNCHANGED <<backend, clock>>

\* The same when the backend refuses the item or asks for a merge.
PeerChangeRefused ==
    /\ sync.phase = "running"
    /\ disk' = resetDatabaseRevision
    /\ mem' = resetDatabaseRevision
    /\ UNCHANGED <<backend, clock, changes, db, peer, sync, due>>

-----------------------------------------------------------------------------
(***************************************************************************)
(* End of the sync.                                                        *)
(***************************************************************************)

\* Mutant: no delay.
EndedAtOnce(ok) ==
    [sync EXCEPT !.phase = "idle", !.todo = {}, !.token = @ \/ ok, !.ok = ok]

\* sleepSinceModification() follows, after which a modification by the user cannot
\* have the same time stamp as the last one by the sync.
Ended(ok) ==
    [sync EXCEPT !.phase = IF sync.modified = clock THEN "sleeping" ELSE "idle",
                 !.todo = {}, !.token = @ \/ ok, !.ok = ok]

\* Changes found by a sync that failed after it had written the new revisions to the file.
Forgotten == {i \in sync.todo : disk.rev[i] # sync.before[i]}

\* endSync(): after success the node is written.  Otherwise "keep the revision map unchanged".
endSync(ok) ==
    /\ sync.phase = "running"
    /\ ok => sync.todo = {}
    /\ IF ok THEN /\ mem' = [mem EXCEPT !.db = databaseRevision]
                  /\ disk' = mem'
             ELSE UNCHANGED <<mem, disk>>
    /\ sync' = Ended(ok)
    /\ due' = due \ Forgotten
    /\ UNCHANGED <<backend, clock, changes, db, peer>>

Awake ==
    /\ sync.phase = "sleeping" /\ sync.modified < clock
    /\ sync' = [sync EXCEPT !.phase = "idle"]
    /\ UNCHANGED <<backend, clock, changes, db, peer, mem, disk, due>>

\* The process dies.
Crash ==
    /\ sync.phase = "running"
    /\ sync' = [sync EXCEPT !.phase = "idle", !.todo = {}, !.ok = FALSE]
    /\ due' = due \ Forgotten
    /\ UNCHANGED <<backend, clock, changes, db, peer, mem, disk>>

\* restoreData() of two items: each one is written like a change of the peer, so the
\* first one is known to the file when the second one is written.
Restore(i, j) ==
    /\ sync.phase = "idle" /\ i # j /\ changes + 2 <= MaxChanges
    /\ changes' = changes + 2
    /\ db' = [db EXCEPT ![i] = [val |-> changes + 1, rev |-> clock, own |-> FALSE],
                        ![j] = [val |-> changes + 2, rev |-> clock, own |-> FALSE]]
    /\ disk' = updateRevision([disk EXCEPT !.db = 0], i, changes + 1)
    /\ sync' = [sync EXCEPT !.ok = FALSE]
    /\ due' = due \ {i, j}
    /\ UNCHANGED <<backend, clock, peer, mem>>

-----------------------------------------------------------------------------
\* A change by the user that the next sync can find, see NoLostChange.
Noticeable(i, val) ==
    /\ sync.phase = "idle" \/ ~backend
    /\ db[i].rev < clock \/ (db[i].own /\ sync.phase = "idle" /\ sync.ok /\ sync.modified = clock)
    /\ val = 0 => disk.rev[i] # 0 /\ (sync.phase = "running" => mem.rev[i] # 0)

\* The user adds, changes or removes an item.
UserChange(i, val) ==
    /\ changes < MaxChanges
    /\ db[i].val # val
    /\ changes' = changes + 1
    /\ db' = Written(i, val, FALSE)
    /\ due' = IF Noticeable(i, val) THEN due \cup {i} ELSE due \ {i}
    /\ UNCHANGED <<backend, clock, peer, mem, disk, sync>>

Tick ==
    /\ clock < MaxTime
    /\ clock' = clock + 1
    /\ UNCHANGED <<backend, changes, db, peer, mem, disk, sync, due>>

Next ==
    \/ beginSync \/ PeerChangeRefused \/ Awake \/ Crash \/ Tick
    \/ \E ok \in BOOLEAN : endSync(ok)
    \/ \E i \in Items :
         \/ SendItem(i)
         \/ \E val \in {0, changes + 1} : PeerChange(i, val) \/ UserChange(i, val)
         \/ \E j \in Items : Restore(i, j)

Spec == Init /\ [][Next]_vars

-----------------------------------------------------------------------------
(***************************************************************************)
(* Properties.                                                             *)
(***************************************************************************)

\* The next sync would send the item.
Detectable(i) ==
    \/ ~sync.token
    \/ i \in detectChanges(disk, ChangeMode(disk, TRUE))

\* A change by the user is sent by the next sync, whatever failed or crashed before
\* or afterwards, if it was
\*   - made between syncs, or during a sync if databaseRevision() is not supported:
\*     the database revision stored at the end of a sync covers everything before;
\*   - not made in the same unit of time as another change of that item, unless the
\*     other one was made by a successful sync, which waits at its end;
\*   - not the removal of an item that was never recorded: added by a failed sync, or
\*     by the user in the course of the sync;
\*   - not already found by a sync that failed after it had written an item.
NoLostChange ==
    sync.phase = "idle" =>
        \A i \in due : db[i].val # peer[i] => Detectable(i)

\* After a successful sync, items written by it are not mistaken for changes by the user.
NoEcho ==
    sync.phase = "idle" /\ sync.ok =>
        \A i \in Items : db[i].own => disk.rev[i] = Revision(i)

\* endSync(): "The Synthesis docs say that we should rollback in case of failure.  Cannot
\* do that for data, so lets at least keep the revision map unchanged."  It must be
\* unchanged at least for changes which have not been sent.
MapKeptOnFailure == [][endSync(FALSE) => \A i \in sync.todo : disk'.rev[i] = sync.before[i]]_vars

=============================================================================
