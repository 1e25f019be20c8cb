--------------------------- MODULE SyncConnection ---------------------------
(***************************************************************************)
(* One sync whose messages travel over D-Bus: the Connection object of the *)
(* server (connection.cpp), the relay in its Session (session.cpp) and the *)
(* DBusTransportAgent in the helper process (dbus-transport-agent.cpp).    *)
(* The peer is a D-Bus client that may call Process() and Close() at any   *)
(* time, or disappear. Server and helper exchange calls and signals over a *)
(* private D-Bus connection which preserves their order; each side may be  *)
(* ahead of what the other one knows.                                      *)
(*                                                                         *)
(* As in SyncServer, a method of Connection or Session is an operator from *)
(* one value of con to the next, and an action is a main loop event.       *)
(***************************************************************************)
EXTENDS Naturals, Sequences, FiniteSets

CONSTANTS
    MaxMessages,  \* bound: messages of the peer that are accepted
    HasTimeout    \* is m_timeoutSeconds >= 0 once the sync runs?

ASSUME ConnectionAssumption ==
    /\ MaxMessages \in Nat \ {0}
    /\ HasTimeout \in BOOLEAN

VARIABLES
    con,   \* the server's side
    agent  \* the helper's side

vars == <<con, agent>>

States == {"SETUP", "PROCESSING", "WAITING", "FINAL", "DONE", "FAILED"}

\* Calls of the server. An error text is only empty or not.
Sync == [call |-> "Sync", error |-> FALSE]
StoreMessage == [call |-> "StoreMessage", error |-> FALSE]
ConnectionState(error) == [call |-> "ConnectionState", error |-> error]

Calls == {Sync, StoreMessage, ConnectionState(TRUE), ConnectionState(FALSE)}

(***************************************************************************)
(* The server's side:                                                      *)
(*   state, abortSent  m_state, m_abortSent                                *)
(*   failure           m_failure is not empty                              *)
(*   timer             m_timeout is active                                 *)
(*   life              owned by its client, only by delayDeletion(), gone  *)
(*   received          messages accepted by Process()                      *)
(*   signals           what the peer was sent: Reply, Final, Abort         *)
(*   session           m_session: not created, in the work queue, helper   *)
(*                     not connected yet, m_helper set, done               *)
(*   relay             m_statusSignal and m_messageSignal reach the session*)
(*   calls             calls on their way to the helper                    *)
(* The helper's side:                                                      *)
(*   started           Sync() was received                                 *)
(*   state, error      DBusTransportAgent::m_state, m_error is not empty;  *)
(*                     NONE while there is no agent                        *)
(*   ending            the engine waits for the end of the connection      *)
(*   result            what Sync() returned                                *)
(*   signals           signals and result on their way to the server       *)
(***************************************************************************)
Connections ==
    [state : States, failure : BOOLEAN, abortSent : BOOLEAN, timer : BOOLEAN,
     life : {"attached", "detached", "destroyed"}, received : 0..MaxMessages,
     signals : Seq({"Reply", "Final", "Abort"}),
     session : {"none", "queued", "starting", "running", "done"}, relay : BOOLEAN,
     calls : Seq(Calls)]

Agents ==
    [started : BOOLEAN, state : States \cup {"NONE"}, error : BOOLEAN, ending : BOOLEAN,
     result : {"none", "success", "failure", "aborted"},
     signals : Seq({"Message", "Shutdown", "Result"})]

TypeOK == con \in Connections /\ agent \in Agents

NoAgent ==
    [started |-> FALSE, state |-> "NONE", error |-> FALSE,
     ending |-> FALSE, result |-> "none", signals |-> <<>>]

\* Server::connect() has created the connection for a client.
Init ==
    /\ con = [state |-> "SETUP", failure |-> FALSE, abortSent |-> FALSE, timer |-> FALSE,
              life |-> "attached", received |-> 0, signals |-> <<>>,
              session |-> "none", relay |-> FALSE, calls |-> <<>>]
    /\ agent = NoAgent

-----------------------------------------------------------------------------
(***************************************************************************)
(* State transformers of the server.                                       *)
(***************************************************************************)

\* Mutant: the helper is not told about the state of the connection.
TellNothing(x, error) == x

\* Session::connectionState()
Tell(x, error) ==
    IF x.session = "running"
    THEN [x EXCEPT !.calls = Append(@, ConnectionState(error))]
    ELSE x

\* m_statusSignal
Status(x, error) == IF x.relay THEN Tell(x, error) ELSE x

\* Mutant: m_abortSent is not checked.
SendAbortAgain(x) ==
    [x EXCEPT !.abortSent = TRUE, !.signals = Append(@, "Abort")]

\* Connection::abort()
SendAbort(x) == IF x.abortSent THEN x ELSE SendAbortAgain(x)

\* Connection::failed()
Failed(x) ==
    LET y == [SendAbort(x) EXCEPT !.failure = TRUE, !.state = "FAILED"]
    IN  [Status(y, TRUE) EXCEPT !.life = "detached"]

\* ~Connection(). A session that only waits in the queue goes with it.
Destroy(x) ==
    LET y == IF x.state = "DONE" THEN x ELSE [SendAbort(x) EXCEPT !.state = "FAILED"]
    IN  [Status(y, x.failure) EXCEPT !.life = "destroyed",
                                     !.timer = FALSE,
                                     !.relay = FALSE,
                                     !.session = IF @ = "queued" THEN "done" ELSE @]

\* Connection::shutdown(): all clients drop the connection.
ShutdownConnection(x) == IF x.life = "attached" THEN Destroy(x) ELSE x

\* Session::doneCb(). What the connection still tells the helper does not
\* matter any more: Sync() has returned, or the helper is told to quit.
DoneCb(x) == ShutdownConnection([x EXCEPT !.session = "done", !.calls = <<>>])

\* Mutant: no timeout for the next message of the peer.
NoTimeout(x) == [x EXCEPT !.timer = FALSE]

\* Connection::activateTimeout()
ActivateTimeout(x) == [x EXCEPT !.timer = HasTimeout]

\* Session::sendViaConnection() and Connection::send()
SendViaConnection(x) ==
    IF x.life = "destroyed" \/ x.state # "PROCESSING" THEN Tell(x, TRUE)
    ELSE [ActivateTimeout(x) EXCEPT !.state = "WAITING", !.signals = Append(@, "Reply")]

\* Session::shutdownConnection() and Connection::sendFinalMsg(), which does
\* nothing unless a message is being processed.
SendFinalMsg(x) ==
    IF x.life = "destroyed" THEN Tell(x, TRUE)
    ELSE IF x.state = "PROCESSING"
    THEN [x EXCEPT !.state = "FINAL", !.signals = Append(@, "Final")]
    ELSE x

-----------------------------------------------------------------------------
(***************************************************************************)
(* Actions of the peer. Only the client that owns the connection can use   *)
(* it, others and former owners get an error.                              *)
(***************************************************************************)

\* Process() of the first message: its session has to wait in the work queue
\* or is activated at once.
ProcessFirst ==
    /\ con.life = "attached"
    /\ con.state = "SETUP"
    /\ \E session \in {"queued", "starting"} :
          con' = [con EXCEPT !.state = "PROCESSING", !.session = session, !.received = 1]
    /\ UNCHANGED agent

\* Process() of a first message which does not start a sync
ProcessUnusable ==
    /\ con.life = "attached"
    /\ con.state = "SETUP"
    /\ con' = Failed(con)
    /\ UNCHANGED agent

\* Mutant: the timeout stays active although the message has arrived.
StoreKeepingTimer(x) == [x EXCEPT !.state = "PROCESSING"]

\* The rest of Process() in the WAITING state
StopTimer(x) == [x EXCEPT !.state = "PROCESSING", !.timer = FALSE]

\* Process() of the next message
ProcessNext ==
    /\ con.life = "attached"
    /\ con.state = "WAITING"
    /\ con.received < MaxMessages
    /\ LET x == [con EXCEPT !.received = @ + 1,
                            !.calls = IF con.relay /\ con.session = "running"
                                      THEN Append(@, StoreMessage) ELSE @]
       IN  con' = StopTimer(x)
    /\ UNCHANGED agent

\* Mutant: a message is passed on although the last one is being processed.
ProcessAnyTime ==
    /\ con.life = "attached"
    /\ con.state = "PROCESSING"
    /\ con.relay
    /\ con' = [con EXCEPT !.calls = Append(@, StoreMessage)]
    /\ UNCHANGED agent

\* Process() when it is not the peer's turn
ProcessUnexpected ==
    /\ con.life = "attached"
    /\ con.state \in {"PROCESSING", "FINAL"}
    /\ con' = Failed(con)
    /\ UNCHANGED agent

\* Close(): only after the final reply it is regular
Close(normal) ==
    /\ con.life = "attached"
    /\ LET x == [con EXCEPT !.life = "detached"]
       IN  con' = IF normal /\ con.state = "FINAL"
                  THEN Status([x EXCEPT !.state = "DONE"], FALSE)
                  ELSE Failed(Status(x, TRUE))
    /\ UNCHANGED agent

\* The client disappears from the bus: ~Client() drops the connection.
Vanish ==
    /\ con.life = "attached"
    /\ con' = Destroy(con)
    /\ UNCHANGED agent

-----------------------------------------------------------------------------
(***************************************************************************)
(* Actions of the server.                                                  *)
(***************************************************************************)

\* Connection::timeoutCb()
TimedOut ==
    /\ con.timer
    /\ con' = Failed([con EXCEPT !.timer = FALSE])
    /\ UNCHANGED agent

\* Server::delayDeletionCb()
DelayedDeletion ==
    /\ con.life = "detached"
    /\ con' = Destroy(con)
    /\ UNCHANGED agent

\* Server::killSessionsAsync() removes the queued session of this peer.
KillQueued ==
    /\ con.session = "queued"
    /\ con' = [ShutdownConnection(con) EXCEPT !.session = "done"]
    /\ UNCHANGED agent

\* Session::activateSession() calls Connection::ready(), which starts the sync.
Activate ==
    /\ con.session = "queued"
    /\ con' = [con EXCEPT !.session = "starting"]
    /\ UNCHANGED agent

\* The helper has connected: Session::sync2()
HelperConnect ==
    /\ con.session = "starting"
    /\ con' = [con EXCEPT !.session = "running",
                          !.relay = (con.life # "destroyed"),
                          !.calls = <<Sync>>]
    /\ UNCHANGED agent

\* The session ends for another reason than the helper's answer: the helper
\* could not be started or died, or somebody aborted the session.
SessionEnds ==
    /\ con.session \in {"starting", "running"}
    /\ con' = DoneCb(con)
    /\ agent' = NoAgent

\* Signals of the helper and its answer, in the order in which they were sent
SessionReceive ==
    /\ con.session = "running"
    /\ agent.signals # <<>>
    /\ LET s == Head(agent.signals)
       IN  /\ con' = CASE s = "Message" -> SendViaConnection(con)
                       [] s = "Shutdown" -> SendFinalMsg(con)
                       [] s = "Result" -> DoneCb(con)
           /\ agent' = IF s = "Result" THEN NoAgent
                       ELSE [agent EXCEPT !.signals = Tail(@)]

-----------------------------------------------------------------------------
(***************************************************************************)
(* Actions of the helper.                                                  *)
(***************************************************************************)

\* DBusTransportAgent::storeMessage(); an unexpected message is refused.
AgentStoreMessage(a) ==
    IF a.state \in {"SETUP", "WAITING"} THEN [a EXCEPT !.state = "PROCESSING"] ELSE a

\* DBusTransportAgent::storeState()
StoreState(a, error) ==
    IF error THEN [a EXCEPT !.state = "FAILED", !.error = TRUE]
    ELSE [a EXCEPT !.state = IF @ = "FINAL" THEN "DONE" ELSE "FAILED"]

\* A call arrives. Before the agent exists and after the sync is over there is
\* nobody who listens.
HelperReceive ==
    /\ con.calls # <<>>
    /\ con' = [con EXCEPT !.calls = Tail(@)]
    /\ LET c == Head(con.calls)
       IN  agent' = IF c = Sync THEN [agent EXCEPT !.started = TRUE]
                    ELSE IF agent.state = "NONE" \/ agent.result # "none" THEN agent
                    ELSE IF c = StoreMessage THEN AgentStoreMessage(agent)
                    ELSE StoreState(agent, c.error)

\* DBusSync::createTransportAgent(), with the initial message
CreateAgent ==
    /\ agent.started
    /\ agent.state = "NONE"
    /\ agent.result = "none"
    /\ agent' = [agent EXCEPT !.state = "PROCESSING"]
    /\ UNCHANGED con

\* The engine replies: DBusTransportAgent::send()
EngineSend ==
    /\ agent.state = "PROCESSING"
    /\ agent.result = "none"
    /\ agent' = [agent EXCEPT !.state = "WAITING", !.signals = Append(@, "Message")]
    /\ UNCHANGED con

\* The engine is done: DBusTransportAgent::shutdown()
EngineShutdown ==
    /\ agent.state = "PROCESSING"
    /\ agent.result = "none"
    /\ agent' = [agent EXCEPT !.state = "FINAL", !.ending = TRUE,
                              !.signals = Append(@, "Shutdown")]
    /\ UNCHANGED con

\* DBusTransportAgent::wait() after the engine was done without an error: the
\* last message was sent, or the connection is gone and no error was recorded.
MaySucceed ==
    \/ agent.state = "WAITING"
    \/ agent.ending /\ agent.state # "FINAL" /\ ~agent.error

\* The sync is over, Sync() returns. Errors and abort requests can end it at
\* any time; an aborted sync stays apart, whatever Sync() answers then.
EngineEnd(result) ==
    /\ agent.started
    /\ agent.result = "none"
    /\ result = "success" => MaySucceed
    /\ agent' = [agent EXCEPT !.result = result, !.signals = Append(@, "Result")]
    /\ UNCHANGED con

Next ==
    \/ ProcessFirst \/ ProcessUnusable \/ ProcessNext \/ ProcessUnexpected
    \/ \E normal \in BOOLEAN : Close(normal)
    \/ Vanish
    \/ TimedOut \/ DelayedDeletion \/ KillQueued \/ Activate
    \/ HelperConnect \/ SessionEnds \/ SessionReceive
    \/ HelperReceive \/ CreateAgent \/ EngineSend \/ EngineShutdown
    \/ \E result \in {"success", "failure", "aborted"} : EngineEnd(result)

Spec == Init /\ [][Next]_vars

\* The main loops of both processes serve their event sources; the peer, the
\* engine and the work queue owe nothing.
FairSpec ==
    /\ Spec
    /\ WF_vars(TimedOut) /\ WF_vars(DelayedDeletion)
    /\ WF_vars(SessionReceive) /\ WF_vars(HelperReceive)

-----------------------------------------------------------------------------
(***************************************************************************)
(* Properties.                                                             *)
(***************************************************************************)

\* What the peer sees (syncevo-connection-full.xml): Abort is sent at most once
\* and no reply follows it, no reply follows the final one, and every reply
\* answers a message of the peer.
ReplyProtocol ==
    /\ \A i, j \in 1..Len(con.signals) :
          i < j => \/ con.signals[i] = "Reply"
                   \/ con.signals[i] = "Final" /\ con.signals[j] = "Abort"
    /\ Cardinality({i \in 1..Len(con.signals) : con.signals[i] # "Abort"}) <= con.received

\* A helper that waits for the peer is never left alone ("otherwise it will
\* never know that its message went into nirvana and that it is waiting for a
\* reply that will never come", session.cpp): something is on its way, or the
\* connection is in the corresponding state, or is about to report its end.
HelperNotStranded ==
    \/ agent.result # "none"
    \/ agent.signals # <<>>
    \/ con.calls # <<>>
    \/ /\ agent.state = "WAITING" =>
             con.relay /\ con.life = "attached" /\ con.state = "WAITING"
       /\ agent.state = "FINAL" =>
             con.relay /\ (con.life = "attached" => con.state = "FINAL")

\* Both sides agree on whose turn it is, although each one changes its state
\* before the other one knows: the helper never refuses a message of the peer
\* as unexpected, and a live connection never refuses one of the helper.
InStep ==
    /\ con.calls # <<>> /\ Head(con.calls) = StoreMessage =>
          agent.state \in {"WAITING", "FAILED"} \/ agent.result # "none"
    /\ agent.signals # <<>> /\ Head(agent.signals) = "Message" /\ con.life = "attached" =>
          con.state = "PROCESSING"

\* Close() after the final reply settles the outcome: no timeout, late signal or
\* destructor turns it into a failure of the connection or of the transport.
RegularCloseFinal ==
    [][con.state = "DONE" => con'.state = "DONE" /\ (agent'.error => agent.error)]_vars

\* A sync which waited for the end of its connection is only successful if the
\* peer closed it after the final reply; if the caller disappears from the bus,
\* there was a fatal error (syncevo-connection-full.xml, argument of Close()).
SuccessNeedsClose ==
    agent.result = "success" /\ agent.ending => con.state = "DONE"

\* A helper does not wait forever for a message of the peer (under FairSpec,
\* with a timeout), whatever becomes of peer, connection and session.
WaitingEnds == agent.state = "WAITING" ~> agent.state # "WAITING" \/ agent.result # "none"

=============================================================================
