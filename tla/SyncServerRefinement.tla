------------------------ MODULE SyncServerRefinement ------------------------
(***************************************************************************)
(* The scheduler of SyncServer implements SessionTurns. A dead entry of    *)
(* the work queue no longer stands in line; a session that is only being   *)
(* created while killSessionsAsync() runs has not arrived yet.             *)
(***************************************************************************)
EXTENDS SyncServer

Waiting == {s \in Queued(srv) : Alive(srv, s)}

\* s has its entry in front of the entry of t.
InFrontOf(s, t) ==
    \E i, j \in 1..Len(srv.workQueue) :
       i < j /\ srv.workQueue[i] = s /\ srv.workQueue[j] = t

Order == {st \in Waiting \X Waiting : InFrontOf(st[1], st[2])}

Arriving == IF pc.loop = "kill" THEN {pc.who} ELSE {}

Gone ==
    {s \in Sessions : srv.life[s] # "unborn"}
       \ (Waiting \cup {srv.activeSession} \cup Arriving)

Turns == INSTANCE SessionTurns
             WITH waiting <- Waiting, ahead <- Order, holder <- srv.activeSession, left <- Gone

\* Sessions get the main lock of the server in the order in which they were
\* enqueued, one at a time and at most once, whatever is destructed, killed or
\* aborted in between.
ImplementsTurns == Turns!Spec

=============================================================================
