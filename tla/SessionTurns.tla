---------------------------- MODULE SessionTurns ----------------------------
(***************************************************************************)
(* What the scheduler of syncevo-dbus-server promises to its users: the    *)
(* sessions stand in line for one lock. A session may leave the line or    *)
(* give up the lock at any time, several at once. A free lock goes to the  *)
(* session that has been waiting longest, and nobody gets a second turn.   *)
(***************************************************************************)

CONSTANTS Sessions, None

VARIABLES
    waiting,  \* the sessions that stand in line
    ahead,    \* their order: <<s, t>> if s came before t
    holder,   \* the session that holds the lock
    left      \* the sessions that will never get it again

turns == <<waiting, ahead, holder, left>>

Known == waiting \cup {holder} \cup left

Init == waiting = {} /\ ahead = {} /\ holder = None /\ left = {}

\* The sessions in L leave; those in comers arrived in between, behind the others.
Step(comers, L) ==
    LET rest == (waiting \cup comers) \ L
        order == ahead \cup (waiting \X comers)
    IN  /\ IF holder # None /\ holder \notin L
           THEN holder' = holder /\ waiting' = rest
           ELSE \/ holder' = None /\ waiting' = rest
                \/ \E s \in rest :
                      /\ \A t \in rest : <<t, s>> \notin order
                      /\ holder' = s
                      /\ waiting' = rest \ {s}
        /\ ahead' = order \cap (waiting' \X waiting')
        /\ left' = left \cup (L \ {None})

Next ==
    \/ \E L \in SUBSET (waiting \cup {holder}) : Step({}, L)
    \/ \E s \in Sessions \ Known :
          \E L \in SUBSET (waiting \cup {holder, s}) : Step({s}, L)

Spec == Init /\ [][Next]_turns

=============================================================================
