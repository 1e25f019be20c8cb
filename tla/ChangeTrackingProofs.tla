------------------------ MODULE ChangeTrackingProofs ------------------------
(***************************************************************************)
(* NoLostChange and NoEcho of ChangeTracking, proved for every set of      *)
(* items and every bound of time and changes.                              *)
(*                                                                         *)
(* Neither is inductive: whether the file allows the next sync to find a   *)
(* change depends on what the running sync has in memory, because any item *)
(* written by it brings all of that into the file.  IInv says where each   *)
(* change that is due stands.                                              *)
(***************************************************************************)
EXTENDS ChangeTracking, TLAPS

\* Revisions in memory and in the file are never newer than the database.
Times ==
    \A i \in Items :
        /\ db[i].val # 0 => db[i].rev # 0
        /\ db[i].rev <= clock
        /\ disk.rev[i] <= db[i].rev
        /\ mem.rev[i] <= db[i].rev

\* The stored database revision is not from the future, and a successful sync has
\* waited until its last write is in the past.
Waited ==
    /\ disk.db <= changes + 1
    /\ sync.modified <= clock
    /\ sync.phase = "idle" /\ sync.ok => sync.modified < clock

\* The node knows the items written by a sync.
KnowsOwn(node) == \A i \in Items : db[i].own => node.rev[i] = Revision(i)

\* Where own changes are known: during a sync in memory, after a successful one in the
\* file, and whenever the stored database revision says that nothing has changed.
Own ==
    /\ sync.phase = "running" => KnowsOwn(mem)
    /\ sync.phase # "running" /\ sync.ok => KnowsOwn(disk)
    /\ disk.db = changes + 1 => KnowsOwn(disk)

\* The file makes the next sync skip the comparison of revisions.
Skipped == disk.db # 0 /\ disk.db = databaseRevision

\* Between syncs: the item can be found.
DueIdle(i) ==
    db[i].val # peer[i] => ~sync.token \/ (Revision(i) # disk.rev[i] /\ ~Skipped)

\* The change is older than the sync: it is still to be sent, and unless the file was
\* overwritten since, a later sync would find it, too.
DueFound(i) ==
    /\ mem.rev[i] = Revision(i)
    /\ db[i].val # peer[i] =>
         /\ i \in sync.todo
         /\ \/ ~sync.token
            \/ sync.before[i] # mem.rev[i] /\ (disk.rev[i] = sync.before[i] => ~Skipped)

\* The change was made during the sync: neither memory nor file know it.
DueLater(i) == ~backend /\ mem.rev[i] # Revision(i) /\ disk.rev[i] # Revision(i)

\* The peer has it.
DueDone(i) == db[i].val = peer[i] /\ i \notin sync.todo

Due ==
    \A i \in due : IF sync.phase = "running" THEN DueFound(i) \/ DueLater(i) \/ DueDone(i)
                   ELSE DueIdle(i)

\* The inductive invariant.
IInv == TypeOK /\ Times /\ Waited /\ Own /\ Due

-----------------------------------------------------------------------------

\* Recording a revision keeps the type of a node.
LEMMA NodeUpdate ==
    ASSUME NEW node \in Node, NEW i \in Items, NEW n \in 0..MaxTime
    PROVE  [node EXCEPT !.rev[i] = n] \in Node
<1>1. PICK rev \in [Items -> 0..MaxTime] : rev = [node.rev EXCEPT ![i] = n]
  BY DEF Node
<1>2. [node EXCEPT !.rev = rev] \in Node
  BY DEF Node
<1>3. QED
  BY <1>1, <1>2

\* beginSync(): a change that is due was found and is going to be sent, or the peer has it
\* and the comparison was skipped.
LEMMA BeginSyncKeeps ==
    ASSUME IInv, beginSync
    PROVE  IInv'
<1> USE ConstantsAssumption DEF IInv
<1>1. TypeOK'
  <2>1. \A i \in Items : Revision(i) \in 0..MaxTime
    BY DEF TypeOK, SyncState, Revision
  <2>2. mem' \in Node
    BY <2>1 DEF TypeOK, SyncState, Node, beginSync, Tracked
  <2>3. PICK slow \in BOOLEAN : slow = (ChangeMode(disk, sync.token) = "CHANGES_SLOW")
    OBVIOUS
  <2>4. PICK todo \in SUBSET Items :
           todo = IF slow THEN {i \in Items : db[i].val # peer[i]}
                  ELSE detectChanges(disk, ChangeMode(disk, sync.token))
    BY DEF detectChanges
  <2>5. sync' = [sync EXCEPT !.phase = "running", !.slow = slow, !.todo = todo,
                             !.modified = 0, !.before = disk.rev]
    BY <2>3, <2>4 DEF beginSync
  <2>6. sync' \in SyncState
    <3>1. sync \in SyncState /\ disk.rev \in [Items -> 0..MaxTime] /\ 0 \in 0..MaxTime
      BY DEF TypeOK, SyncState, Node
    <3>2. QED
      BY <2>5, <3>1, Zenon DEF SyncState
  <2>7. QED
    BY <2>2, <2>6 DEF TypeOK, SyncState, beginSync
<1>2. Times'
  BY DEF TypeOK, SyncState, Node, Times, Revision, beginSync, ChangeMode, detectChanges, Tracked
<1>3. Waited'
  BY DEF TypeOK, SyncState, Node, Waited, databaseRevision, beginSync, ChangeMode, detectChanges,
         Tracked
<1>4. Own'
  BY DEF TypeOK, SyncState, Node, Waited, Own, KnowsOwn, Revision, databaseRevision, beginSync,
         ChangeMode, detectChanges, Tracked
<1>5. Due'
  <2>1. ASSUME NEW i \in due
        PROVE  (DueFound(i) \/ DueDone(i))'
    <3>1. CASE ChangeMode(disk, sync.token) = "CHANGES_NONE"
      <4>1. sync.token /\ Skipped /\ mem' = disk /\ sync'.todo = {} /\ sync'.token
        <5>1. sync.token /\ Skipped
          <6>1. CASE ~sync.token
            BY <3>1, <6>1 DEF ChangeMode
          <6>2. CASE sync.token /\ ~Skipped
            BY <3>1, <6>2 DEF ChangeMode, Skipped
          <6>3. QED
            BY <6>1, <6>2
        <5>2. mem' = disk
          BY <3>1 DEF beginSync, Tracked
        <5>3. sync'.todo = {} /\ sync'.token = sync.token
          BY <3>1 DEF beginSync, detectChanges, TypeOK, SyncState
        <5>4. QED
          BY <5>1, <5>2, <5>3
      <4>2. db[i].val = peer[i]
        BY <4>1 DEF Due, DueIdle, beginSync
      <4>3. QED
        BY <4>1, <4>2 DEF DueDone, beginSync
    <3>2. CASE ChangeMode(disk, sync.token) = "CHANGES_SLOW"
      <4>1. ~sync.token /\ ~sync'.token /\ sync'.todo = {k \in Items : db[k].val # peer[k]}
        BY <3>2 DEF ChangeMode, beginSync, TypeOK, SyncState
      <4>2. mem'.rev = [k \in Items |-> Revision(k)]
        BY <3>2 DEF beginSync, Tracked, TypeOK, SyncState, Node
      <4>3. QED
        BY <4>1, <4>2 DEF DueFound, beginSync, TypeOK, SyncState, Revision
    <3>3. CASE ChangeMode(disk, sync.token) = "CHANGES_FULL"
      <4>1. sync'.todo = {k \in Items : Revision(k) # disk.rev[k]} /\ sync'.before = disk.rev
            /\ sync'.token = sync.token /\ (sync.token => ~Skipped)
        BY <3>3 DEF ChangeMode, beginSync, TypeOK, SyncState, detectChanges, Skipped
      <4>2. mem'.rev = [k \in Items |-> Revision(k)]
        BY <3>3 DEF beginSync, Tracked, TypeOK, SyncState, Node
      <4>3. db[i].val # peer[i] => i \in sync'.todo
        BY <3>3, <4>1 DEF Due, DueIdle, beginSync, ChangeMode, TypeOK, SyncState
      <4>4. Skipped' = Skipped
        BY DEF Skipped, databaseRevision, beginSync
      <4>5. QED
        BY <4>1, <4>2, <4>3, <4>4 DEF DueFound, beginSync, TypeOK, SyncState, Revision
    <3>4. QED
      BY <3>1, <3>2, <3>3 DEF ChangeMode
  <2>2. sync'.phase = "running" /\ due' = due
    BY DEF beginSync, TypeOK, SyncState
  <2>3. QED
    BY <2>1, <2>2 DEF Due
<1>6. QED
  BY <1>1, <1>2, <1>3, <1>4, <1>5

\* The engine sends an item; one that is older than the sync then is at the peer.
LEMMA SendItemKeeps ==
    ASSUME IInv, NEW i \in Items, SendItem(i)
    PROVE  IInv'
<1> USE ConstantsAssumption DEF IInv
<1>1. TypeOK'
  BY DEF TypeOK, SyncState, Node, databaseRevision, Revision, SendItem
<1>2. Times'
  BY DEF TypeOK, SyncState, Node, Times, Revision, SendItem
<1>3. Waited'
  BY DEF TypeOK, SyncState, Node, Waited, databaseRevision, SendItem
<1>4. Own'
  BY DEF TypeOK, SyncState, Node, Waited, Own, KnowsOwn, Revision, databaseRevision, SendItem
<1>5. Due'
  BY DEF TypeOK, SyncState, Node, Times, Waited, Due, DueIdle, DueFound, DueLater, DueDone,
         Skipped, databaseRevision, Revision, SendItem
<1>6. QED
  BY <1>1, <1>2, <1>3, <1>4, <1>5

\* insertItem(), deleteItem(): the file gets the revisions of all items from memory, which
\* hides those found by this sync until it ends.
LEMMA PeerChangeKeeps ==
    ASSUME IInv, NEW i \in Items, NEW val \in {0, changes + 1}, PeerChange(i, val)
    PROVE  IInv'
<1> USE ConstantsAssumption DEF IInv
<1>1. TypeOK'
  <2>1. disk' \in Node
    BY DEF TypeOK, SyncState, Node, PeerChange, resetDatabaseRevision
  <2>2. mem' \in Node
    <3>1. resetDatabaseRevision \in Node
      BY DEF TypeOK, SyncState, Node, resetDatabaseRevision
    <3>2. clock \in 0..MaxTime
      BY DEF TypeOK, SyncState
    <3>3. QED
      BY <3>1, <3>2 DEF PeerChange, updateRevision, Node
  <2>3. db' \in [Items -> [val : 0..MaxChanges, rev : 0..MaxTime, own : BOOLEAN]]
    <3>1. val \in 0..MaxChanges /\ clock \in 0..MaxTime
      BY DEF TypeOK, SyncState, PeerChange
    <3>2. QED
      BY <3>1 DEF TypeOK, SyncState, PeerChange, Written
  <2>4. sync' \in SyncState
    <3>1. sync \in SyncState /\ clock \in 0..MaxTime /\ sync.todo \ {i} \in SUBSET Items
      BY DEF TypeOK, SyncState
    <3>2. QED
      BY <3>1, Zenon DEF SyncState, PeerChange
  <2>5. changes' \in 0..MaxChanges /\ peer' \in [Items -> 0..MaxChanges]
    BY DEF TypeOK, SyncState, PeerChange
  <2>6. QED
    BY <2>1, <2>2, <2>3, <2>4, <2>5 DEF TypeOK, SyncState, PeerChange
<1>2. Times'
  BY DEF TypeOK, SyncState, Node, Times, Revision, PeerChange, updateRevision,
         resetDatabaseRevision, Written
<1>3. Waited'
  BY DEF TypeOK, SyncState, Node, Waited, databaseRevision, PeerChange, updateRevision,
         resetDatabaseRevision, Written
<1>4. Own'
  BY DEF TypeOK, SyncState, Node, Waited, Own, KnowsOwn, Revision, databaseRevision, PeerChange,
         updateRevision, resetDatabaseRevision, Written
<1>5. Due'
  BY DEF TypeOK, SyncState, Node, Times, Waited, Due, DueIdle, DueFound, DueLater, DueDone,
         Skipped, databaseRevision, Revision, PeerChange, updateRevision, resetDatabaseRevision,
         Written
<1>6. QED
  BY <1>1, <1>2, <1>3, <1>4, <1>5

\* The same without a change of the database.
LEMMA PeerChangeRefusedKeeps ==
    ASSUME IInv, PeerChangeRefused
    PROVE  IInv'
<1> USE ConstantsAssumption DEF IInv
<1>1. TypeOK'
  BY DEF TypeOK, SyncState, Node, databaseRevision, Revision, PeerChangeRefused,
         resetDatabaseRevision
<1>2. Times'
  BY DEF TypeOK, SyncState, Node, Times, Revision, PeerChangeRefused, resetDatabaseRevision
<1>3. Waited'
  BY DEF TypeOK, SyncState, Node, Waited, databaseRevision, PeerChangeRefused, resetDatabaseRevision
<1>4. Own'
  BY DEF TypeOK, SyncState, Node, Waited, Own, KnowsOwn, Revision, databaseRevision,
         PeerChangeRefused, resetDatabaseRevision
<1>5. Due'
  BY DEF TypeOK, SyncState, Node, Times, Waited, Due, DueIdle, DueFound, DueLater, DueDone,
         Skipped, databaseRevision, Revision, PeerChangeRefused, resetDatabaseRevision
<1>6. QED
  BY <1>1, <1>2, <1>3, <1>4, <1>5

\* endSync(): either nothing is left to send and the file has what memory has, or the
\* file is as it was before the sync for everything that was not sent.
LEMMA EndSyncKeeps ==
    ASSUME IInv, NEW ok \in BOOLEAN, endSync(ok)
    PROVE  IInv'
<1> USE ConstantsAssumption DEF IInv
<1>1. TypeOK'
  <2>1. databaseRevision \in 0..(MaxChanges + 1)
    BY DEF TypeOK, SyncState, databaseRevision
  <2>2. mem' \in Node /\ disk' \in Node
    BY <2>1 DEF TypeOK, SyncState, Node, endSync
  <2>3. PICK token \in BOOLEAN : token = (sync.token \/ ok)
    BY DEF TypeOK, SyncState
  <2>4. PICK phase \in {"idle", "sleeping"} : phase = IF sync.modified = clock THEN "sleeping" ELSE "idle"
    OBVIOUS
  <2>5. sync' = [sync EXCEPT !.phase = phase, !.todo = {}, !.token = token, !.ok = ok]
    BY <2>3, <2>4 DEF endSync, Ended, TypeOK, SyncState
  <2>6. sync' \in SyncState
    BY <2>5 DEF TypeOK, SyncState
  <2>7. QED
    BY <2>2, <2>6 DEF TypeOK, SyncState, endSync, Forgotten
<1>2. Times'
  BY DEF TypeOK, SyncState, Node, Times, Revision, endSync, Ended, Forgotten
<1>3. Waited'
  <2>1. disk'.db \in {disk.db, databaseRevision}
    BY DEF endSync, TypeOK, SyncState, Node
  <2>2. sync'.modified = sync.modified /\ (sync'.phase = "idle" => sync.modified # clock)
    BY DEF endSync, Ended, TypeOK, SyncState
  <2>3. QED
    <3>1. databaseRevision <= changes + 1
      BY DEF databaseRevision, TypeOK, SyncState
    <3>2. QED
      <4>1. disk'.db <= changes' + 1
        BY <2>1, <3>1 DEF Waited, endSync
      <4>2. sync'.modified <= clock'
        BY <2>2 DEF Waited, endSync
      <4>3. sync'.phase = "idle" => sync'.modified < clock'
        <5>1. sync.modified \in Nat /\ clock \in Nat /\ clock' = clock
          BY DEF endSync, TypeOK, SyncState
        <5>2. QED
          BY <2>2, <4>2, <5>1
      <4>4. QED
        BY <4>1, <4>2, <4>3 DEF Waited
<1>4. Own'
  BY DEF TypeOK, SyncState, Node, Waited, Own, KnowsOwn, Revision, databaseRevision, endSync,
         Ended, Forgotten
<1>5. Due'
  BY DEF TypeOK, SyncState, Node, Times, Waited, Due, DueIdle, DueFound, DueLater, DueDone,
         Skipped, databaseRevision, Revision, endSync, Ended, Forgotten
<1>6. QED
  BY <1>1, <1>2, <1>3, <1>4, <1>5

\* The end of sleepSinceModification().
LEMMA AwakeKeeps ==
    ASSUME IInv, Awake
    PROVE  IInv'
<1> USE ConstantsAssumption DEF IInv
<1>1. TypeOK'
  BY DEF TypeOK, SyncState, Node, databaseRevision, Revision, Awake
<1>2. Times'
  BY DEF TypeOK, SyncState, Node, Times, Revision, Awake
<1>3. Waited'
  BY DEF TypeOK, SyncState, Node, Waited, databaseRevision, Awake
<1>4. Own'
  BY DEF TypeOK, SyncState, Node, Waited, Own, KnowsOwn, Revision, databaseRevision, Awake
<1>5. Due'
  BY DEF TypeOK, SyncState, Node, Times, Waited, Due, DueIdle, DueFound, DueLater, DueDone,
         Skipped, databaseRevision, Revision, Awake
<1>6. QED
  BY <1>1, <1>2, <1>3, <1>4, <1>5

\* A crash leaves the file behind, like a failed sync.
LEMMA CrashKeeps ==
    ASSUME IInv, Crash
    PROVE  IInv'
<1> USE ConstantsAssumption DEF IInv
<1>1. TypeOK'
  BY DEF TypeOK, SyncState, Node, databaseRevision, Revision, Crash, Forgotten
<1>2. Times'
  BY DEF TypeOK, SyncState, Node, Times, Revision, Crash, Forgotten
<1>3. Waited'
  BY DEF TypeOK, SyncState, Node, Waited, databaseRevision, Crash, Forgotten
<1>4. Own'
  BY DEF TypeOK, SyncState, Node, Waited, Own, KnowsOwn, Revision, databaseRevision, Crash,
         Forgotten
<1>5. Due'
  BY DEF TypeOK, SyncState, Node, Times, Waited, Due, DueIdle, DueFound, DueLater, DueDone,
         Skipped, databaseRevision, Revision, Crash, Forgotten
<1>6. QED
  BY <1>1, <1>2, <1>3, <1>4, <1>5

\* restoreData().
LEMMA RestoreKeeps ==
    ASSUME IInv, NEW i \in Items, NEW j \in Items, Restore(i, j)
    PROVE  IInv'
<1> USE ConstantsAssumption DEF IInv
<1>1. TypeOK'
  <2>1. clock \in 0..MaxTime /\ changes + 1 \in 0..MaxChanges /\ changes + 2 \in 0..MaxChanges
    BY DEF TypeOK, SyncState, Restore
  <2>2. disk' \in Node
    <3>1. PICK n \in 0..MaxTime : n = IF changes + 1 = 0 THEN 0 ELSE clock
      BY <2>1
    <3>2. disk' = [[disk EXCEPT !.db = 0] EXCEPT !.rev[i] = n]
      BY <3>1 DEF Restore, updateRevision
    <3>3. PICK node : node = [disk EXCEPT !.db = 0]
      OBVIOUS
    <3>4. node \in Node
      BY <3>3 DEF TypeOK, Node
    <3>5. disk' = [node EXCEPT !.rev[i] = n]
      BY <3>2, <3>3
    <3>6. QED
      BY <3>4, <3>5, NodeUpdate
  <2>3. db' \in [Items -> [val : 0..MaxChanges, rev : 0..MaxTime, own : BOOLEAN]]
    BY <2>1 DEF TypeOK, SyncState, Restore
  <2>4. sync' \in SyncState
    BY DEF TypeOK, SyncState, Restore
  <2>5. QED
    BY <2>1, <2>2, <2>3, <2>4 DEF TypeOK, SyncState, Restore
<1>2. Times'
  BY DEF TypeOK, SyncState, Node, Times, Revision, Restore, updateRevision
<1>3. Waited'
  BY DEF TypeOK, SyncState, Node, Waited, databaseRevision, Restore, updateRevision
<1>4. Own'
  BY DEF TypeOK, SyncState, Node, Waited, Own, KnowsOwn, Revision, databaseRevision, Restore,
         updateRevision
<1>5. Due'
  BY DEF TypeOK, SyncState, Node, Times, Waited, Due, DueIdle, DueFound, DueLater, DueDone,
         Skipped, databaseRevision, Revision, Restore, updateRevision
<1>6. QED
  BY <1>1, <1>2, <1>3, <1>4, <1>5

\* A change by the user has a newer revision than anything in memory or in the file.
LEMMA UserChangeKeeps ==
    ASSUME IInv, NEW i \in Items, NEW val \in {0, changes + 1}, UserChange(i, val)
    PROVE  IInv'
<1> USE ConstantsAssumption DEF IInv
<1>1. TypeOK'
  BY DEF TypeOK, SyncState, Node, databaseRevision, Revision, UserChange, Written, Noticeable
<1>2. Times'
  BY DEF TypeOK, SyncState, Node, Times, Revision, UserChange, Written, Noticeable
<1>3. Waited'
  BY DEF TypeOK, SyncState, Node, Waited, databaseRevision, UserChange, Written, Noticeable
<1>4. Own'
  BY DEF TypeOK, SyncState, Node, Waited, Own, KnowsOwn, Revision, databaseRevision, UserChange,
         Written, Noticeable
<1>5. Due'
  BY DEF TypeOK, SyncState, Node, Times, Waited, Due, DueIdle, DueFound, DueLater, DueDone,
         Skipped, databaseRevision, Revision, UserChange, Written, Noticeable
<1>6. QED
  BY <1>1, <1>2, <1>3, <1>4, <1>5

\* Time passes.
LEMMA TickKeeps ==
    ASSUME IInv, Tick
    PROVE  IInv'
<1> USE ConstantsAssumption DEF IInv
<1>1. TypeOK'
  BY DEF TypeOK, SyncState, Node, databaseRevision, Revision, Tick
<1>2. Times'
  BY DEF TypeOK, SyncState, Node, Times, Revision, Tick
<1>3. Waited'
  BY DEF TypeOK, SyncState, Node, Waited, databaseRevision, Tick
<1>4. Own'
  BY DEF TypeOK, SyncState, Node, Waited, Own, KnowsOwn, Revision, databaseRevision, Tick
<1>5. Due'
  BY DEF TypeOK, SyncState, Node, Times, Waited, Due, DueIdle, DueFound, DueLater, DueDone,
         Skipped, databaseRevision, Revision, Tick
<1>6. QED
  BY <1>1, <1>2, <1>3, <1>4, <1>5

\* IInv is preserved by each step.
LEMMA Inductive == IInv /\ [Next]_vars => IInv'
<1> SUFFICES ASSUME IInv, [Next]_vars PROVE IInv'
  OBVIOUS
<1>1. CASE Next
  <2>1. CASE \E i \in Items :
               \/ SendItem(i)
               \/ \E val \in {0, changes + 1} : PeerChange(i, val) \/ UserChange(i, val)
               \/ \E j \in Items : Restore(i, j)
    BY <2>1, SendItemKeeps, PeerChangeKeeps, UserChangeKeeps, RestoreKeeps
  <2>2. QED
    BY <1>1, <2>1, BeginSyncKeeps, PeerChangeRefusedKeeps, AwakeKeeps, CrashKeeps, TickKeeps,
       EndSyncKeeps DEF Next
<1>2. CASE UNCHANGED vars
  BY <1>2 DEF vars, IInv, TypeOK, SyncState, Times, Waited, Own, KnowsOwn, Due, DueIdle,
         DueFound, DueLater,
              DueDone, Skipped, databaseRevision, Revision
<1>3. QED
  BY <1>1, <1>2

\* IInv holds at first.
LEMMA Initially == Init => IInv
<1> SUFFICES ASSUME Init PROVE IInv
  OBVIOUS
<1> USE ConstantsAssumption DEF Init
<1>1. Empty \in Node
  BY DEF Empty, Node
<1>2. TypeOK
  BY <1>1 DEF TypeOK, SyncState, Empty
<1>3. Times /\ Waited /\ Own /\ Due
  BY DEF Times, Waited, Own, KnowsOwn, Due, Empty, Revision
<1>4. QED
  BY <1>2, <1>3 DEF IInv

\* IInv is an invariant.
LEMMA InvariantHolds == Spec => []IInv
  BY Initially, Inductive, PTL DEF Spec

\* The state of the revision map, of its file and of the sync stays within its types.
THEOREM TypeCorrect == Spec => []TypeOK
<1>1. IInv => TypeOK
  BY DEF IInv
<1>2. QED
  BY <1>1, InvariantHolds, PTL

\* After a successful sync, the file has the current revision of each item which a sync
\* wrote: updateRevision() and endSync() miss none, also when the comparison of revisions
\* is skipped because of databaseRevision() and when earlier syncs failed or crashed.
THEOREM NoEchoHolds == Spec => []NoEcho
<1>1. IInv => NoEcho
  BY DEF IInv, Own, KnowsOwn, NoEcho
<1>2. QED
  BY <1>1, InvariantHolds, PTL

\* A noticeable change by the user is found by the next sync, in whatever way syncs before
\* it and during it fail, crash or write items, for every number of items and changes.
THEOREM NoLostChangeHolds == Spec => []NoLostChange
<1>1. ASSUME IInv PROVE NoLostChange
  <2>1. ASSUME sync.phase = "idle", NEW i \in due, db[i].val # peer[i], sync.token
        PROVE  i \in detectChanges(disk, ChangeMode(disk, TRUE))
    <3>1. DueIdle(i) /\ i \in Items
      BY <1>1, <2>1 DEF IInv, Due, TypeOK, SyncState
    <3>2. Revision(i) # disk.rev[i] /\ ~Skipped
      BY <2>1, <3>1 DEF DueIdle
    <3>3. ChangeMode(disk, TRUE) # "CHANGES_NONE"
      BY <3>2 DEF ChangeMode, Skipped
    <3>4. QED
      BY <3>1, <3>2, <3>3 DEF detectChanges
  <2>2. QED
    BY <2>1 DEF NoLostChange, Detectable
<1>2. QED
  BY <1>1, InvariantHolds, PTL

=============================================================================
