------------------------------ MODULE SyncLoop ------------------------------
(***************************************************************************)
(* The main loop of a sync: SyncContext::doSync() drives the SyncML engine *)
(* (libsynthesis, external) step by step, moves messages between it and a  *)
(* transport agent, retries, and turns signals recorded by SuspendFlags    *)
(* into suspend and abort commands.  Two agents are modelled:              *)
(*   "soup"  SoupTransportAgent, used by a SyncML client: wait() blocks in *)
(*           the main loop, cancel() interrupts it, timeouts lead to       *)
(*           resending;                                                    *)
(*   "dbus"  DBusTransportAgent, used by a SyncML server whose messages    *)
(*           are relayed by syncevo-dbus-server: wait() handles one event. *)
(*                                                                         *)
(* Signals arrive at any time.  Other calls (setFreeze) and events of the  *)
(* transport are only handled while the main loop of glib runs.            *)
(***************************************************************************)
EXTENDS Naturals, FiniteSetsExt

CONSTANTS Agents,         \* transport agents: subset of {"soup", "dbus"}
          RetryDuration,  \* m_retryDuration in units of m_retryInterval
          MaxCalls,       \* bound: the engine is done after that many SessionStep() calls
          MaxSignals,     \* bound: number of signals sent to the process
          MaxFreeze       \* bound: number of setFreeze() calls

ASSUME ConstantsAssumption ==
    /\ Agents \subseteq {"soup", "dbus"}
    /\ {RetryDuration, MaxCalls, MaxSignals, MaxFreeze} \subseteq Nat

VARIABLES flags,   \* SuspendFlags
          agent,   \* the TransportAgent
          engine,  \* the SyncML engine
          loop     \* local variables of doSync() and the members it uses

vars == <<flags, agent, engine, loop>>

Commands == {"CLIENTSTART", "STEP", "GOTDATA", "SENTDATA", "SUSPEND", "ABORT", "TRANSPFAIL",
             "OK", "PROGRESS", "ERROR", "SENDDATA", "NEEDDATA", "RESENDDATA", "DONE", "RESTART"}
SoupStates == {"INACTIVE", "ACTIVE", "GOT_REPLY", "GOT_OTHER", "FAILED", "FAILED_EARLY", "TIME_OUT",
               "CANCELED", "CLOSED"}
DBusStates == {"PROCESSING", "WAITING", "FINAL", "DONE", "LOST"}

(***************************************************************************)
(* flags.state    m_state: NORMAL, SUSPEND or ABORT                        *)
(*      .pipe     the pipe written by handleSignal() has unread bytes      *)
(*      .signals  number of signals so far                                 *)
(*      .raced    history: an abort came right after a suspend, before the *)
(*                loop was past restoring the step (see GotDataFresh)      *)
(* agent.kind, .state   which agent; m_status or m_state of it.            *)
(*                GOT_OTHER: reply with unexpected content type;           *)
(*                FAILED_EARLY: m_failure was set before wait() is called. *)
(* engine.turn    who has to send: "ours", "sent", "theirs", "finishing"   *)
(*      .fresh    a reply was written into the engine and not processed    *)
(*      .calls    number of SessionStep() calls                            *)
(*      .script   session variable "delayedabort"                          *)
(*      .aborts   how often it was told to abort, up to 2                  *)
(*      .suspended  it was told to suspend                                 *)
(*      .stale    history: it was asked to process data it did not have    *)
(* loop.pc        where doSync() is                                        *)
(*     .cmd, .prev, .aborting, .suspending, .status, .requestNum,          *)
(*     .retries, .buffer (sendBuffer is set), .freeze (m_syncFreeze)       *)
(*     .waited    time since sendStart, in units of the retry interval     *)
(*     .rested    the retry interval is over since resendStart             *)
(*     .failed    history: an exception was caught while not aborting      *)
(*     .freezes   number of setFreeze() calls                              *)
(***************************************************************************)
TypeOK ==
    /\ flags \in [state : {"NORMAL", "SUSPEND", "ABORT"}, pipe : BOOLEAN, signals : 0..MaxSignals,
                  raced : BOOLEAN]
    /\ agent \in [kind : {"soup"}, state : SoupStates] \cup [kind : {"dbus"}, state : DBusStates]
    /\ engine \in [turn : {"ours", "sent", "theirs", "finishing"}, fresh : BOOLEAN, calls : 0..MaxCalls,
                   script : BOOLEAN, aborts : 0..2, suspended : BOOLEAN, stale : BOOLEAN]
    /\ loop \in [pc : {"top", "frozen", "step", "dispatch", "send", "wait", "sleep", "shutdown",
                       "closing", "end"},
                 cmd : Commands, prev : Commands, aborting : BOOLEAN, suspending : 0..2,
                 status : {"OK", "error"}, requestNum : 0..2, retries : 0..RetryDuration,
                 buffer : BOOLEAN, freeze : {"NONE", "RUNNING", "FROZEN"}, waited : 0..RetryDuration,
                 rested : BOOLEAN, failed : BOOLEAN, freezes : 0..MaxFreeze]

ServerMode == agent.kind = "dbus"

Init ==
    /\ flags = [state |-> "NORMAL", pipe |-> FALSE, signals |-> 0, raced |-> FALSE]
    /\ agent \in {a \in {[kind |-> "soup", state |-> "INACTIVE"], [kind |-> "dbus", state |-> "PROCESSING"]} :
                    a.kind \in Agents}
    /\ engine = [turn |-> "ours", fresh |-> ServerMode, calls |-> 0, script |-> FALSE, aborts |-> 0,
                 suspended |-> FALSE, stale |-> FALSE]
    /\ LET first == IF ServerMode THEN "GOTDATA" ELSE "CLIENTSTART"
       IN loop = [pc |-> "top", cmd |-> first, prev |-> first, aborting |-> FALSE, suspending |-> 0,
                  status |-> "OK", requestNum |-> 0, retries |-> 0, buffer |-> FALSE,
                  freeze |-> "RUNNING", waited |-> 0, rested |-> FALSE, failed |-> FALSE, freezes |-> 0]

-----------------------------------------------------------------------------
(***************************************************************************)
(* SuspendFlags.                                                           *)
(***************************************************************************)

\* A second SIGINT aborts if it comes within ABORT_INTERVAL of the first.
NextStates(sig) ==
    IF sig = "SIGTERM" \/ flags.state = "ABORT" THEN {"ABORT"}
    ELSE IF flags.state = "NORMAL" THEN {"SUSPEND"}
    ELSE {"SUSPEND", "ABORT"}

handleSignal(sig) ==
    /\ loop.pc # "end"
    /\ flags.signals < MaxSignals
    /\ \E new \in NextStates(sig) :
         flags' = [flags EXCEPT !.state = new, !.pipe = TRUE, !.signals = @ + 1,
                                !.raced = @ \/ (new = "ABORT" /\ loop.suspending = 1)]
    /\ UNCHANGED <<agent, engine, loop>>

\* What HandleSessionCallback() makes of a message that failed: wait() returns FAILED
\* if it was waiting, otherwise it will throw m_failure.
Failure == IF loop.pc = "wait" THEN "FAILED" ELSE "FAILED_EARLY"

\* cancel(): libsoup reports the cancelled message as failed, possibly at once.
Cancelled(a) ==
    CASE a.kind = "dbus" \/ a.state = "FAILED_EARLY" -> {a}
      [] a.kind = "soup" /\ a.state = "ACTIVE" -> {[a EXCEPT !.state = x] : x \in {"CANCELED", Failure}}
      [] OTHER -> {[a EXCEPT !.state = "CANCELED"]}

\* Mutant: nobody listens to m_stateChanged.
PrintSilently ==
    /\ flags' = [flags EXCEPT !.pipe = FALSE]
    /\ UNCHANGED agent

\* printSignals(), called by isAborted(), isSuspended(), isNormal() and when glib
\* sees bytes in the pipe; the only listener that matters is CancelTransport().
printSignals ==
    /\ flags' = [flags EXCEPT !.pipe = FALSE]
    /\ IF flags.pipe /\ flags.state = "ABORT" THEN agent' \in Cancelled(agent) ELSE UNCHANGED agent

Aborted == flags.state = "ABORT"
Suspended == flags.state = "SUSPEND"

-----------------------------------------------------------------------------
(***************************************************************************)
(* The engine: SessionStep() with a command returns one of these results   *)
(* or throws.  It sends when it was started or got data, is told when the  *)
(* message was sent, then waits; told to abort it winds down, which may    *)
(* include a last message, but no longer waits for an answer.              *)
(***************************************************************************)
Exhausted == engine.calls = MaxCalls

Results(cmd) ==
    CASE cmd = "RESENDDATA" -> {"RESENDDATA"}
      [] cmd \in {"ABORT", "SUSPEND", "TRANSPFAIL"} -> {"OK", "PROGRESS"}
      [] cmd = "SENTDATA" ->
            {x \in {"NEEDDATA"} : ~Exhausted /\ engine.aborts = 0}
            \cup {x \in {"OK"} : ServerMode \/ Exhausted \/ engine.aborts > 0}
      [] OTHER ->
            IF Exhausted THEN {"DONE"}
            ELSE {"OK", "PROGRESS", "DONE"}
            \cup {x \in {"SENDDATA"} : engine.turn = "ours" \/ (engine.turn = "finishing" /\ cmd = "STEP")}
            \cup {x \in {"ERROR"} : engine.turn = "finishing"}
            \cup {x \in {"RESTART"} : engine.turn = "finishing" /\ engine.aborts = 0}

\* Whose turn it is after the result.
TurnAfter(cmd, result) ==
    IF cmd \in {"ABORT", "TRANSPFAIL"} \/ engine.aborts > 0 THEN "finishing"
    ELSE IF cmd = "SENTDATA" THEN (IF result = "NEEDDATA" THEN "theirs" ELSE "finishing")
    ELSE IF result = "SENDDATA" THEN "sent"
    ELSE IF cmd = "GOTDATA" \/ result = "RESTART" THEN "ours"
    ELSE engine.turn

Called(cmd) ==
    [engine EXCEPT !.calls = Min({@ + 1, MaxCalls}),
                   !.aborts = IF cmd = "ABORT" THEN Min({@ + 1, 2}) ELSE @,
                   !.suspended = @ \/ cmd = "SUSPEND",
                   !.stale = @ \/ (cmd = "GOTDATA" /\ ~engine.fresh),
                   !.fresh = @ /\ cmd # "GOTDATA"]

\* What SessionStep() may throw.
Exceptions == {"engine", "other"} \cup {x \in {"USERSUSPEND"} : engine.suspended}

-----------------------------------------------------------------------------
(***************************************************************************)
(* The loop.  Tail: end of the try block; Again: continue; Catch: handlers.*)
(***************************************************************************)
Ended(cmd) == cmd \in {"DONE", "ERROR"}

\* "Don't tell engine to abort when it already did."
Tail(x) ==
    LET cmd == IF x.aborting /\ x.cmd = "ABORT" THEN "DONE" ELSE x.cmd
    IN [x EXCEPT !.cmd = cmd, !.prev = cmd, !.pc = IF Ended(cmd) THEN "shutdown" ELSE "top"]

Again(cmd) == [loop EXCEPT !.cmd = cmd, !.pc = "top"]

\* Mutant: only the engine's own failures are remembered.
CatchForgets(x, exception) ==
    LET asked == \/ exception = "USERSUSPEND" /\ x.suspending > 0
                 \/ exception # "other" /\ x.aborting
        cmd == IF asked \/ x.aborting THEN "DONE" ELSE "ABORT"
    IN [x EXCEPT !.cmd = cmd,
                 !.status = IF asked \/ exception = "other" THEN @ ELSE "error",
                 !.failed = @ \/ ~(asked \/ x.aborting),
                 !.pc = IF Ended(cmd) THEN "shutdown" ELSE "top"]

\* An exception that follows from a request is no error, any other is remembered
\* and the engine told to abort unless it already was.
Catch(x, exception) ==
    LET asked == \/ exception = "USERSUSPEND" /\ x.suspending > 0
                 \/ exception # "other" /\ x.aborting
        cmd == IF asked \/ x.aborting THEN "DONE" ELSE "ABORT"
    IN [x EXCEPT !.cmd = cmd,
                 !.status = IF asked THEN @ ELSE "error",
                 !.failed = @ \/ ~(asked \/ x.aborting),
                 !.pc = IF Ended(cmd) THEN "shutdown" ELSE "top"]

\* Mutant: the engine may be told again.
ToldAgain(cmd) == cmd

\* "don't abort twice: instead let engine continue with its shutdown"
ToldOnce(cmd) == IF cmd = "ABORT" /\ loop.aborting THEN loop.prev ELSE cmd

\* Choose the command for the engine.
Top ==
    /\ loop.pc = "top"
    /\ printSignals
    /\ LET c1 == IF Suspended /\ loop.cmd = "GOTDATA" THEN "SUSPEND" ELSE loop.cmd
           c2 == IF Aborted /\ c1 \in {"RESENDDATA", "SENTDATA", "NEEDDATA"} THEN "ABORT" ELSE c1
           c3 == ToldOnce(c2)
           c4 == IF c3 = "SUSPEND" /\ loop.suspending > 0 THEN loop.prev ELSE c3
           aborting == loop.aborting \/ c2 = "ABORT"
           suspending == IF c3 = "SUSPEND" THEN Min({loop.suspending + 1, 2}) ELSE loop.suspending
       IN loop' = [loop EXCEPT !.cmd = c4, !.aborting = aborting, !.suspending = suspending,
                               !.pc = IF ~aborting /\ suspending = 0 /\ loop.freeze = "FROZEN" THEN "frozen"
                                      ELSE IF c4 = "NEEDDATA" THEN "dispatch" ELSE "step"]
    /\ UNCHANGED engine

\* The sync is frozen until thawed, suspended or aborted.
Thaw ==
    /\ loop.pc = "frozen"
    /\ loop.freeze # "FROZEN" \/ flags.state # "NORMAL"
    /\ printSignals
    /\ \E waited \in {loop.waited, RetryDuration} :
         loop' = [loop EXCEPT !.waited = waited, !.pc = IF loop.cmd = "NEEDDATA" THEN "dispatch" ELSE "step"]
    /\ UNCHANGED engine

SessionStep ==
    /\ loop.pc = "step"
    /\ \/ \E result \in Results(loop.cmd), script \in BOOLEAN :
            /\ engine.script => script
            /\ engine' = [Called(loop.cmd) EXCEPT !.turn = TurnAfter(loop.cmd, result), !.script = script]
            /\ loop' = [loop EXCEPT !.cmd = result, !.pc = "dispatch"]
       \/ \E exception \in Exceptions :
            /\ engine' = Called(loop.cmd)
            /\ loop' = Catch(loop, exception)
    /\ UNCHANGED <<flags, agent>>

\* Mutant: the inserted SUSPEND is taken back again and again.
RestoreAlways == loop.suspending > 0

\* SUSPEND was inserted in front of another command, which now has to follow.
Restore == loop.suspending = 1

\* A message that must not go out.
Stopped == loop.cmd = "SENDDATA" /\ (engine.script \/ Aborted)

Stop ==
    /\ loop.pc = "dispatch" /\ Stopped
    /\ IF engine.script THEN UNCHANGED <<flags, agent>> ELSE printSignals
    /\ loop' = Again("ABORT")
    /\ UNCHANGED engine

Dispatch ==
    /\ loop.pc = "dispatch" /\ ~Stopped
    /\ IF loop.cmd = "SENDDATA" THEN printSignals ELSE UNCHANGED <<flags, agent>>
    /\ IF Restore THEN loop' = Again(loop.prev) ELSE
       CASE loop.cmd = "OK" -> loop' = Tail([loop EXCEPT !.cmd = "STEP"])
         [] loop.cmd = "PROGRESS" ->
              \E status \in {"OK", "error"} :  \* PEV_SESSIONEND brings the result of the session
                loop' = Tail([loop EXCEPT !.cmd = "STEP", !.status = IF @ = "OK" THEN status ELSE @])
         [] loop.cmd = "RESTART" -> loop' = Tail([loop EXCEPT !.cmd = "STEP", !.retries = 0])
         [] loop.cmd \in {"SENDDATA", "RESENDDATA"} -> loop' = [loop EXCEPT !.pc = "send"]
         [] loop.cmd = "NEEDDATA" -> loop' = [loop EXCEPT !.pc = "wait"]
         [] OTHER -> loop' = Tail(loop)
    /\ UNCHANGED engine

\* TransportAgent::send(); the D-Bus agent refuses unless it is its turn.
Send ==
    /\ loop.pc = "send"
    /\ LET new == loop.cmd = "SENDDATA"
           x == [loop EXCEPT !.requestNum = IF new THEN Min({@ + 1, 2}) ELSE @,
                             !.buffer = @ \/ new, !.rested = FALSE,
                             !.waited = IF new THEN 0 ELSE @]
       IN IF ServerMode /\ agent.state # "PROCESSING"
          THEN loop' = Catch(x, "other") /\ UNCHANGED agent
          ELSE /\ loop' = Tail([x EXCEPT !.cmd = "SENTDATA"])
               /\ agent' = [agent EXCEPT !.state = IF ServerMode THEN "WAITING" ELSE "ACTIVE"]
    /\ UNCHANGED <<flags, engine>>

-----------------------------------------------------------------------------
(***************************************************************************)
(* Waiting for the reply: STEPCMD_NEEDDATA.                                *)
(***************************************************************************)
GotReply ==
    /\ loop' = Tail([loop EXCEPT !.cmd = "GOTDATA", !.retries = 0, !.buffer = FALSE])
    /\ engine' = [engine EXCEPT !.fresh = TRUE, !.turn = "ours"]

\* No resending by a server, of the first message or when the time is up.
GiveUp(delay) ==
    ServerMode \/ loop.waited + delay >= RetryDuration \/ loop.requestNum = 1

Resend(x) == Tail([x EXCEPT !.cmd = "RESENDDATA", !.retries = @ + 1])

\* Mutant: resend at once.
PauseNever == 0

\* Time until the retry interval is over.
Pause == IF loop.rested THEN 0 ELSE 1

\* The message was answered, has failed or timed out, either while wait() blocks or
\* while the sync is frozen.  A failure may come at once or late.
SoupDone ==
    /\ loop.pc \in {"wait", "frozen"} /\ agent.kind = "soup" /\ agent.state = "ACTIVE"
    /\ \E state \in {"GOT_REPLY", "GOT_OTHER", Failure, "TIME_OUT"}, late \in BOOLEAN :
         /\ state = "TIME_OUT" => late
         /\ agent' = [agent EXCEPT !.state = state]
         /\ loop' = IF late THEN [loop EXCEPT !.waited = Min({@ + 1, RetryDuration}), !.rested = TRUE]
                    ELSE loop
    /\ UNCHANGED <<flags, engine>>

\* Suspend or abort instead of treating it as a failure.
Interrupted == Tail([loop EXCEPT !.cmd = flags.state])

SoupWait ==
    /\ loop.pc = "wait" /\ agent.kind = "soup" /\ agent.state # "ACTIVE"
    /\ CASE agent.state = "GOT_REPLY" -> GotReply /\ UNCHANGED <<flags, agent>>
         [] agent.state = "TIME_OUT" ->
              /\ loop' = IF GiveUp(0) THEN Catch(loop, "other") ELSE Resend(loop)
              /\ UNCHANGED <<flags, agent, engine>>
         [] agent.state = "FAILED_EARLY" -> loop' = Catch(loop, "other") /\ UNCHANGED <<flags, agent, engine>>
         [] agent.state \in {"FAILED", "GOT_OTHER"} ->
              /\ loop' = IF flags.state # "NORMAL" THEN Interrupted
                         ELSE IF GiveUp(Pause) THEN Catch(loop, "other")
                         ELSE IF Pause > 0 THEN [loop EXCEPT !.pc = "sleep"]
                         ELSE Resend(loop)
              /\ printSignals /\ UNCHANGED engine
         [] agent.state = "CANCELED" ->
              /\ loop' = IF flags.state # "NORMAL" THEN Interrupted ELSE Catch(loop, "engine")
              /\ printSignals /\ UNCHANGED engine
         [] OTHER -> loop' = Tail([loop EXCEPT !.cmd = "TRANSPFAIL"]) /\ UNCHANGED <<flags, agent, engine>>

\* Sleep() ends early when suspended or aborted, but its result does not tell.
Sleep ==
    /\ loop.pc = "sleep"
    /\ \/ loop' = Resend([loop EXCEPT !.waited = @ + 1, !.rested = TRUE])
       \/ flags.state # "NORMAL" /\ loop' = Resend(loop)
    /\ UNCHANGED <<flags, agent, engine>>

\* DBusTransportAgent::wait(): doWait() handles one event of the main loop, but none
\* when suspended or aborted; the result is ACTIVE.
DBusWait ==
    /\ loop.pc = "wait" /\ agent.kind = "dbus"
    /\ CASE agent.state = "PROCESSING" -> GotReply /\ UNCHANGED <<flags, agent>>
         [] agent.state = "WAITING" ->
              /\ loop' = Tail(loop)
              /\ \/ flags.state = "NORMAL" /\ agent' \in {[agent EXCEPT !.state = x] : x \in {"PROCESSING", "LOST"}}
                 \/ flags.state # "NORMAL" /\ UNCHANGED agent
              /\ UNCHANGED <<flags, engine>>
         [] OTHER -> loop' = Catch(loop, "other") /\ UNCHANGED <<flags, agent, engine>>

-----------------------------------------------------------------------------
(***************************************************************************)
(* After the loop.                                                         *)
(***************************************************************************)
Shutdown ==
    /\ loop.pc = "shutdown"
    /\ IF loop.status = "OK" /\ ~Aborted
       THEN /\ agent' = [agent EXCEPT !.state = IF agent.kind = "soup" THEN "CLOSED"
                                               ELSE IF @ = "PROCESSING" THEN "FINAL" ELSE @]
            /\ loop' = [loop EXCEPT !.pc = "closing"]
       ELSE loop' = [loop EXCEPT !.pc = "end", !.freeze = "NONE"] /\ UNCHANGED agent
    /\ UNCHANGED <<flags, engine>>

\* Only the D-Bus agent has to wait: until the connection is gone.
Closing ==
    /\ loop.pc = "closing"
    /\ IF ~Aborted /\ agent.state = "FINAL"
       THEN \/ /\ flags.state = "NORMAL"
               /\ agent' \in {[agent EXCEPT !.state = x] : x \in {"DONE", "LOST"}}
               /\ UNCHANGED loop
            \/ flags.state # "NORMAL" /\ UNCHANGED <<loop, agent>>
       ELSE /\ loop' = [loop EXCEPT !.pc = "end", !.freeze = "NONE",
                                    !.status = IF agent.state = "LOST" /\ ~Aborted THEN "error" ELSE @]
            /\ UNCHANGED agent
    /\ UNCHANGED <<flags, engine>>

-----------------------------------------------------------------------------
(***************************************************************************)
(* The main loop of glib runs while doSync() waits.                        *)
(***************************************************************************)
Blocked ==
    \/ loop.pc \in {"frozen", "sleep"}
    \/ loop.pc = "wait" /\ agent.state = "ACTIVE"
    \/ loop.pc = "wait" /\ agent.state = "WAITING" /\ flags.state = "NORMAL"

SignalChannelReady ==
    /\ Blocked /\ flags.pipe
    /\ printSignals
    /\ UNCHANGED <<engine, loop>>

setFreeze(freeze) ==
    /\ Blocked
    /\ loop.freezes < MaxFreeze
    /\ loop.freeze # freeze
    /\ loop' = [loop EXCEPT !.freeze = freeze, !.freezes = @ + 1]
    /\ UNCHANGED <<flags, agent, engine>>

DoSync ==
    \/ Top \/ Thaw \/ SessionStep \/ Stop \/ Dispatch \/ Send
    \/ SoupWait \/ Sleep \/ DBusWait \/ Shutdown \/ Closing

Next ==
    \/ DoSync \/ SoupDone \/ SignalChannelReady
    \/ \E sig \in {"SIGINT", "SIGTERM"} : handleSignal(sig)
    \/ \E freeze \in {"RUNNING", "FROZEN"} : setFreeze(freeze)

Spec == Init /\ [][Next]_vars

(***************************************************************************)
(* The process runs; glib sees the bytes in the pipe; a HTTP request is    *)
(* answered, fails or times out, but an abort must not depend on that.     *)
(* Neither signals nor setFreeze() are assumed to happen.                  *)
(***************************************************************************)
FairSpec == Spec /\ WF_vars(DoSync) /\ WF_vars(~Aborted /\ SoupDone) /\ WF_vars(SignalChannelReady)

-----------------------------------------------------------------------------
(***************************************************************************)
(* Properties.                                                             *)
(***************************************************************************)

\* The engine is told to abort at most once, whatever fails and whoever asks for
\* it while it shuts down ("don't abort twice").
AbortOnce == engine.aborts <= 1

\* The engine is only asked to process a reply that was written into it and not
\* processed yet, although SUSPEND is put in front of that command and the command
\* restored; except when an abort request comes while SUSPEND is processed.
GotDataFresh == engine.stale => flags.raced

\* A message is only sent again by a client that still has it, not before the
\* retry interval is over, and not more often than fits into the retry duration;
\* except that a suspend request cuts the pause short.
RetryPace ==
    loop.pc = "send" /\ loop.cmd = "RESENDDATA" /\ flags.state = "NORMAL" =>
        /\ loop.buffer /\ loop.rested /\ ~ServerMode /\ loop.requestNum > 1
        /\ loop.retries <= loop.waited /\ loop.retries < RetryDuration

\* A failure which was not the answer to a request is never forgotten.
ErrorReported == loop.failed => loop.status # "OK"

\* The sync ends after an abort request, and a client also after a suspend
\* request, whatever the peer does and even if the sync is frozen; except when
\* the abort request comes while SUSPEND is processed.
InterruptEnds ==
    (Aborted \/ (Suspended /\ ~ServerMode)) ~> (loop.pc = "end" \/ flags.raced)

\* Session.Suspend ends the sync.
SuspendEnds == Suspended ~> (loop.pc = "end")

\* The step in front of which SUSPEND was inserted is restored once.
RestoredOnce == ~engine.stale

=============================================================================
