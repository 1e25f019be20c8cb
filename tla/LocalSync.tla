----------------------------- MODULE LocalSync -----------------------------
(***************************************************************************)
(* Local sync: syncevo-local-sync is forked by the process that runs the   *)
(* SyncML server side, and both exchange messages as calls and replies on  *)
(* a private D-Bus connection.  The parent calls StartSync() and SendMsg();*)
(* the child's next message is the reply of the call.  The child reports   *)
(* its result with StoreSyncReport() before it quits.                      *)
(*                                                                         *)
(* Modelled are LocalTransportAgent (parent), LocalTransportAgentChild,    *)
(* the parts of ForkExec they use, and, as far as they use the agents, the *)
(* two doSync() loops.  D-Bus is external: messages arrive in order unless *)
(* the connection is lost; a call whose connection is lost fails.  Events  *)
(* of the main loop may be handled while an agent waits and, because data  *)
(* sources run the main loop too, while the engine works.                  *)
(***************************************************************************)
EXTENDS Naturals, Sequences, SequencesExt

CONSTANTS MaxCalls,   \* bound: number of calls made by the parent
          Faults      \* what may go wrong, see ASSUME

ASSUME ConstantsAssumption ==
    /\ MaxCalls \in Nat \ {0}
    /\ Faults \subseteq {"abort", "child dies", "parent dies", "StartSync"}

VARIABLES parent,    \* LocalTransportAgent, its ForkExecParent and doSync() of the parent
          child,     \* LocalTransportAgentChild, its ForkExecChild and the child's sync
          toChild,   \* calls and answers on their way to the child
          toParent   \* replies and calls on their way to the parent

vars == <<parent, child, toChild, toParent>>

Reports == {"none", "ok", "failed", "bare"}   \* "bare": failed, without any source in it
Status == {"INACTIVE", "ACTIVE", "GOT_REPLY", "FAILED", "CANCELED", "CLOSED"}

(***************************************************************************)
(* parent.pc       "wait", "loop" (g_main_loop_run() in wait()), "engine", *)
(*                 "winding" (told to abort), "closing" (shutdown()),      *)
(*                 "end" (agent destructed), "crashed"                     *)
(*       .status   m_status                                                *)
(*       .proxy    m_child and m_parent are set                            *)
(*       .connected, .quit, .killed   m_hasConnected, m_hasQuit,           *)
(*                 m_sigTermSent of ForkExecParent                         *)
(*       .calls, .pending   number of calls; those without reply           *)
(*       .out, .in  messages written to the own buffer; the one in m_replyMsg *)
(*       .report   m_clientReport                                          *)
(*       .result   result of doSync()                                      *)
(*       .asked    a password request waits for the user                   *)
(*       .aborted  SuspendFlags                                            *)
(* child.pc        "start", "waitSync", "engine", "wait", "password",      *)
(*                 "ack", "iterate" (after failure), "gone"                *)
(*      .status    m_status                                                *)
(*      .reply     m_msgToParent: the call it belongs to, 0 for NULL       *)
(*      .in, .final   message in m_message, and whether it is the last one *)
(*      .out       messages written to the own buffer                      *)
(*      .lost      DISCONNECTED, abort flag set                            *)
(*      .acked     m_reportSent                                            *)
(*      .report    m_clientReport                                          *)
(*      .exit      exit status                                             *)
(*      .started   startSync() succeeded                                   *)
(*      .asked     a password was requested                                *)
(*      .kill      SIGTERM is on its way                                   *)
(***************************************************************************)
TypeOK ==
    /\ parent \in [pc : {"wait", "loop", "engine", "winding", "closing", "end", "crashed"},
                   status : Status \ {"CLOSED"}, proxy : BOOLEAN, connected : BOOLEAN, quit : BOOLEAN,
                   killed : BOOLEAN, calls : 0..MaxCalls, pending : SUBSET (1..MaxCalls),
                   out : 0..MaxCalls, in : 0..MaxCalls, report : Reports,
                   result : {"OK", "engine", "transport", "child", "aborted"},
                   asked : BOOLEAN, aborted : BOOLEAN]
    /\ child \in [pc : {"start", "waitSync", "engine", "wait", "password", "ack", "iterate", "gone"},
                  status : Status \ {"CANCELED"}, reply : 0..MaxCalls, in : 0..MaxCalls, final : BOOLEAN,
                  out : 0..MaxCalls, lost : BOOLEAN, acked : BOOLEAN, report : Reports,
                  exit : {"none", "0", "1", "killed", "crashed"}, started : BOOLEAN, asked : BOOLEAN,
                  kill : BOOLEAN]

\* start() was called, the first message has to come from the child.
Init ==
    /\ parent = [pc |-> "wait", status |-> "ACTIVE", proxy |-> FALSE, connected |-> FALSE, quit |-> FALSE,
                 killed |-> FALSE, calls |-> 0, pending |-> {}, out |-> 0, in |-> 0, report |-> "none",
                 result |-> "OK", asked |-> FALSE, aborted |-> FALSE]
    /\ child = [pc |-> "start", status |-> "INACTIVE", reply |-> 0, in |-> 0, final |-> FALSE, out |-> 0,
                lost |-> FALSE, acked |-> FALSE, report |-> "none", exit |-> "none", started |-> FALSE,
                asked |-> FALSE, kill |-> FALSE]
    /\ toChild = <<>>
    /\ toParent = <<>>

ParentGone == parent.pc \in {"end", "crashed"}
ChildGone == child.pc = "gone"

\* Messages that reach the other side as long as it is there.
SentToChild(msg) == IF ChildGone THEN toChild ELSE Append(toChild, msg)
SentToParent(msgs) == IF ParentGone THEN toParent ELSE toParent \o msgs

Reply(call, msg) == [type |-> "reply", call |-> call, ok |-> TRUE, msg |-> msg]
Error(call) == [type |-> "reply", call |-> call, ok |-> FALSE, msg |-> 0]

-----------------------------------------------------------------------------
(***************************************************************************)
(* Parent: doSync() and the calls it makes.                                *)
(***************************************************************************)

\* An error is remembered and the engine told to abort, see module SyncLoop.
Fail(p, why) ==
    [p EXCEPT !.result = IF @ = "OK" THEN why ELSE @, !.pc = IF p.aborted THEN "end" ELSE "winding"]

\* wait(): returns unless ACTIVE, checks for a child that has quit, and runs the
\* main loop until an event quits it.
ParentWait ==
    /\ parent.pc = "wait"
    /\ \/ /\ parent.status = "GOT_REPLY"
          /\ parent' = [parent EXCEPT !.pc = "engine"]
       \/ /\ parent.status \in {"FAILED", "CANCELED"}
          /\ parent' = Fail(parent, IF parent.aborted THEN "aborted" ELSE "transport")
       \/ /\ parent.status = "ACTIVE" /\ parent.quit
          /\ parent' = Fail([parent EXCEPT !.status = "FAILED"],
                            IF parent.report \in {"failed", "bare"} THEN "child" ELSE "transport")
       \/ /\ parent.status = "ACTIVE" /\ ~parent.quit
          /\ parent' = [parent EXCEPT !.pc = "loop"]
    /\ UNCHANGED <<child, toChild, toParent>>

\* send(), followed by what doSync() does next.
Send(final, next) ==
    IF parent.proxy
    THEN LET call == parent.calls + 1
         IN /\ parent' = [parent EXCEPT !.status = "ACTIVE", !.calls = call, !.pending = @ \cup {call},
                                        !.out = @ + 1, !.pc = next]
            /\ toChild' = SentToChild([type |-> "SendMsg", call |-> call, msg |-> parent.out + 1,
                                       final |-> final])
    ELSE parent' = Fail([parent EXCEPT !.status = "FAILED"], "transport") /\ UNCHANGED toChild

\* The server engine answers the child's message: with the last message of the
\* session, after which shutdown() follows, or with one that needs an answer.
ParentEngine ==
    /\ parent.pc = "engine"
    /\ \/ /\ parent.aborted
          /\ parent' = Fail(parent, "aborted")
          /\ UNCHANGED toChild
       \/ /\ ~parent.aborted
          /\ parent' = Fail(parent, "engine")
          /\ UNCHANGED toChild
       \/ /\ ~parent.aborted /\ parent.calls < MaxCalls
          /\ \E final \in BOOLEAN :
               /\ parent.calls + 1 = MaxCalls => final
               /\ Send(final, IF final THEN "closing" ELSE "wait")
    /\ UNCHANGED <<child, toParent>>

\* The engine may send a last message before the sync ends.
ParentWinding ==
    /\ parent.pc = "winding"
    /\ \/ parent' = [parent EXCEPT !.pc = "end"] /\ UNCHANGED toChild
       \/ /\ parent.proxy /\ ~parent.aborted /\ parent.calls < MaxCalls
          /\ Send(FALSE, "end")
    /\ UNCHANGED <<child, toParent>>

\* shutdown() blocks until the child has quit, wait(TRUE) does not block.
ParentClosing ==
    /\ parent.pc = "closing" /\ parent.quit
    /\ parent' = [parent EXCEPT !.pc = "end", !.status = IF @ = "ACTIVE" THEN "INACTIVE" ELSE @]
    /\ UNCHANGED <<child, toChild, toParent>>

-----------------------------------------------------------------------------
(***************************************************************************)
(* Parent: events of the main loop.                                        *)
(***************************************************************************)

g_main_loop_quit(p) == [p EXCEPT !.pc = IF @ = "loop" THEN "wait" ELSE @]

\* Mutant: each error is a failure of the transport.
StoreReplyFailed(p, msg) ==
    g_main_loop_quit(IF msg.ok THEN [p EXCEPT !.status = "GOT_REPLY", !.in = msg.msg]
                     ELSE [p EXCEPT !.status = "FAILED"])

\* storeReplyMsg(): "only an error if the client hasn't shut down normally",
\* which is told from a report with sources in it.
storeReplyMsg(p, msg) ==
    g_main_loop_quit(IF msg.ok THEN [p EXCEPT !.status = "GOT_REPLY", !.in = msg.msg]
                     ELSE IF p.report \in {"none", "bare"} THEN [p EXCEPT !.status = "FAILED"]
                     ELSE p)

\* A reply for a call that was answered before is ignored by D-Bus.
ReceiveReply(msg) ==
    /\ parent' = IF msg.call \in parent.pending
                 THEN storeReplyMsg([parent EXCEPT !.pending = @ \ {msg.call}], msg) ELSE parent
    /\ UNCHANGED toChild

storeSyncReport(p, report) == [p EXCEPT !.report = report]

\* newClientConnection() and onChildConnect(), which calls StartSync().
onChildConnect ==
    /\ parent' = [parent EXCEPT !.connected = TRUE, !.proxy = TRUE, !.calls = 1, !.pending = {1}]
    /\ toChild' = SentToChild([type |-> "StartSync", call |-> 1])

ParentRunsLoop == ~ParentGone

ParentReceive ==
    /\ ParentRunsLoop /\ toParent # <<>>
    /\ toParent' = Tail(toParent)
    /\ LET msg == Head(toParent)
       IN CASE msg.type = "connect" -> onChildConnect
            [] msg.type = "reply" -> ReceiveReply(msg)
            [] msg.type = "StoreSyncReport" /\ parent.proxy ->
                 /\ parent' = storeSyncReport(parent, msg.report)
                 /\ toChild' = SentToChild([type |-> "ack"])
            [] msg.type = "AskPassword" /\ parent.proxy ->
                 parent' = [parent EXCEPT !.asked = TRUE] /\ UNCHANGED toChild
            [] OTHER -> UNCHANGED <<parent, toChild>>
    /\ UNCHANGED child

\* The connection is lost: pending calls fail.
CallFails ==
    /\ ParentRunsLoop /\ ChildGone /\ toParent = <<>>
    /\ \E call \in parent.pending :
         parent' = storeReplyMsg([parent EXCEPT !.pending = @ \ {call}], Error(call))
    /\ UNCHANGED <<child, toChild, toParent>>

\* GotPassword() or PasswordException().
AnswerPassword ==
    /\ ParentRunsLoop /\ parent.asked
    /\ parent' = [parent EXCEPT !.asked = FALSE]
    /\ \E ok \in BOOLEAN : toChild' = SentToChild([type |-> "password", ok |-> ok])
    /\ UNCHANGED <<child, toParent>>

onFailure(p) == [p EXCEPT !.status = "FAILED", !.proxy = FALSE]

\* watchChildCallback() and checkCompletion(): a failure unless the child quit
\* regularly or we killed it.
checkCompletion ==
    LET p == g_main_loop_quit([parent EXCEPT !.quit = TRUE])
    IN parent' = IF (~p.connected \/ child.exit # "0") /\ ~(child.exit = "killed" /\ p.killed)
                 THEN onFailure(p) ELSE p

ChildWatch ==
    /\ ParentRunsLoop /\ ChildGone /\ ~parent.quit
    /\ checkCompletion
    /\ UNCHANGED <<child, toChild, toParent>>

\* Mutant: the child is left alone.
CancelWithoutKill(p) == [p EXCEPT !.status = "CANCELED"]

\* cancel(): stop() sends SIGINT and SIGTERM.  The main loop goes on until the
\* child has quit.
cancel(p) == [p EXCEPT !.status = "CANCELED", !.killed = @ \/ ~p.quit]

\* Abort request: CancelTransport().
Abort ==
    /\ "abort" \in Faults
    /\ ParentRunsLoop /\ ~parent.aborted
    /\ parent' = cancel([parent EXCEPT !.aborted = TRUE])
    /\ child' = [child EXCEPT !.kill = ~ChildGone /\ parent'.killed]
    /\ UNCHANGED <<toChild, toParent>>

ParentDies ==
    /\ "parent dies" \in Faults
    /\ ParentRunsLoop
    /\ parent' = [parent EXCEPT !.pc = "crashed"]
    /\ UNCHANGED <<child, toChild, toParent>>

-----------------------------------------------------------------------------
(***************************************************************************)
(* Child: run() and the calls of doSync().                                 *)
(***************************************************************************)

\* The process ends and with it the connection.
Quit(exit) ==
    /\ child' = [child EXCEPT !.pc = "gone", !.exit = exit]
    /\ toChild' = <<>>
    /\ toParent' \in IF exit = "0" THEN {toParent} ELSE Prefixes(toParent)
    /\ UNCHANGED parent

\* ForkExecChild::connect()
Connect ==
    /\ child.pc = "start"
    /\ IF ParentGone THEN Quit("1")
       ELSE /\ child' = [child EXCEPT !.pc = "waitSync"]
            /\ toParent' = SentToParent(<<[type |-> "connect"]>>)
            /\ UNCHANGED <<parent, toChild>>

SyncReport(report) == <<[type |-> "StoreSyncReport", report |-> report]>>

\* Mutant: no acknowledgement needed.
ReturnedAtOnce(c, report) == [c EXCEPT !.report = report, !.pc = "ack", !.acked = TRUE]

\* sync() has returned: send the report and wait for its acknowledgement.
Returned(c, report) == [c EXCEPT !.report = report, !.pc = "ack"]

\* sync() has failed, which is no exception unless the configuration is unusable.
SyncFails ==
    /\ \E report \in {"failed", "bare"} :
         /\ child' \in {Returned(child, report), [child EXCEPT !.report = report, !.pc = "iterate"]}
         /\ toParent' = SentToParent(SyncReport(report))
    /\ UNCHANGED <<parent, toChild>>

\* send() of the child, with a reply to send it with.
Answered(c) == [c EXCEPT !.status = "ACTIVE", !.out = @ + 1, !.reply = 0, !.pc = "wait"]

\* The client engine: ask for a password first, send the next message, finish
\* after the last message of the server, or fail.
ChildEngine ==
    /\ child.pc = "engine"
    /\ \/ SyncFails
       \/ /\ ~child.asked /\ child.out = 0
          /\ child' = [child EXCEPT !.asked = TRUE, !.pc = "password"]
          /\ toParent' = SentToParent(<<[type |-> "AskPassword"]>>)
          /\ UNCHANGED <<parent, toChild>>
       \/ /\ ~child.final /\ child.reply # 0 /\ child.out < MaxCalls
          /\ child' = Answered(child)
          /\ toParent' = SentToParent(<<Reply(child.reply, child.out + 1)>>)
          /\ UNCHANGED <<parent, toChild>>
       \/ /\ child.final
          /\ child' = Returned([child EXCEPT !.status = "CLOSED", !.reply = 0], "ok")
          /\ toParent' = SentToParent((IF child.reply = 0 THEN <<>> ELSE <<Reply(child.reply, 0)>>)
                                      \o SyncReport("ok"))
          /\ UNCHANGED <<parent, toChild>>

\* Mutant: only a message ends wait().
WaitForMessage ==
    /\ child.pc = "wait" /\ child.status = "GOT_REPLY"
    /\ child' = [child EXCEPT !.pc = "engine"]
    /\ UNCHANGED <<parent, toChild, toParent>>

\* wait(): returns with a message; without parent it fails or returns ACTIVE, after
\* which doSync() tells the engine to abort.
ChildWait ==
    /\ child.pc = "wait"
    /\ \/ /\ child.status = "GOT_REPLY"
          /\ child' = [child EXCEPT !.pc = "engine"]
          /\ UNCHANGED <<parent, toChild, toParent>>
       \/ child.status # "GOT_REPLY" /\ child.lost /\ SyncFails

\* step(): "local transport child no longer has a parent, terminating".
NoParent == child.pc \in {"waitSync", "iterate"} /\ child.lost /\ Quit("1")

\* A password is needed, but the request failed.
NoPassword == child.pc = "password" /\ child.lost /\ SyncFails

Acknowledged == child.pc = "ack" /\ (child.acked \/ child.lost) /\ Quit("0")

-----------------------------------------------------------------------------
(***************************************************************************)
(* Child: events of the main loop.                                         *)
(***************************************************************************)

\* startSync() may fail before or after m_client was created; D-Bus turns the
\* exception into an error although m_msgToParent stays set.
startSync(call) ==
    \/ /\ child' = [child EXCEPT !.reply = call, !.status = "ACTIVE", !.started = TRUE, !.pc = "engine"]
       /\ UNCHANGED toParent
    \/ /\ "StartSync" \in Faults
       /\ \E pc \in {"waitSync", "engine"} : child' = [child EXCEPT !.reply = call, !.pc = pc]
       /\ toParent' = SentToParent(<<Error(call)>>)

\* Mutant: the call is answered when the message has arrived.
SendMsgAnswered(msg) ==
    /\ child' = [child EXCEPT !.reply = msg.call, !.in = msg.msg, !.final = msg.final, !.status = "GOT_REPLY"]
    /\ toParent' = SentToParent(<<Reply(msg.call, child.out)>>)

\* sendMsg(): the reply of an older call is cancelled; only expected when ACTIVE.
sendMsg(msg) ==
    LET old == IF child.reply = 0 THEN <<>> ELSE <<Error(child.reply)>>
    IN IF child.status = "ACTIVE"
       THEN /\ child' = [child EXCEPT !.reply = msg.call, !.in = msg.msg, !.final = msg.final,
                                      !.status = "GOT_REPLY"]
            /\ toParent' = SentToParent(old)
       ELSE /\ child' = [child EXCEPT !.reply = 0]
            /\ toParent' = SentToParent(old \o <<Error(msg.call)>>)

ChildReceive ==
    /\ child.pc \notin {"start", "iterate", "gone"} /\ toChild # <<>>
    /\ toChild' = Tail(toChild)
    /\ LET msg == Head(toChild)
       IN CASE msg.type = "StartSync" -> startSync(msg.call)
            [] msg.type = "SendMsg" -> sendMsg(msg)
            [] msg.type = "ack" -> child' = [child EXCEPT !.acked = TRUE] /\ UNCHANGED toParent
            [] msg.type = "password" /\ (msg.ok \/ child.pc # "password") ->
                 /\ child' = [child EXCEPT !.pc = IF @ = "password" THEN "engine" ELSE @]
                 /\ UNCHANGED toParent
            [] OTHER ->
                 /\ child' = Returned(child, "failed")
                 /\ toParent' = SentToParent(SyncReport("failed"))
    /\ UNCHANGED parent

\* After a failure one event is handled, whatever it is.
Iterate == child.pc = "iterate" /\ toChild # <<>> /\ Quit("1")

\* connectionLost(), onParentQuit()
ConnectionLost ==
    /\ child.pc \notin {"start", "gone"} /\ ParentGone /\ ~child.lost
    /\ child' = [child EXCEPT !.lost = TRUE]
    /\ UNCHANGED <<parent, toChild, toParent>>

\* SIGINT and SIGTERM have their default action at first, later SIGTERM still
\* kills (abortLocalSync()).
Killed == child.kill /\ ~ChildGone /\ Quit("killed")

ChildDies == "child dies" \in Faults /\ ~ChildGone /\ Quit("crashed")

-----------------------------------------------------------------------------
Parent == ParentWait \/ ParentEngine \/ ParentWinding \/ ParentClosing
ParentEvent == ParentReceive \/ CallFails \/ ChildWatch
Child == Connect \/ ChildEngine \/ ChildWait \/ NoParent \/ NoPassword \/ Acknowledged
ChildEvent == ChildReceive \/ Iterate \/ ConnectionLost \/ Killed

Next ==
    \/ Parent \/ ParentEvent \/ AnswerPassword \/ Abort \/ ParentDies
    \/ Child \/ ChildEvent \/ ChildDies

Spec == Init /\ [][Next]_vars

(***************************************************************************)
(* Both processes run and get their events.  The user need not answer a    *)
(* password request, and no fault is assumed to happen.                    *)
(***************************************************************************)
FairSpec ==
    /\ Spec
    /\ WF_vars(Parent) /\ WF_vars(ParentReceive) /\ WF_vars(CallFails) /\ WF_vars(ChildWatch)
    /\ WF_vars(Child) /\ WF_vars(ChildReceive) /\ WF_vars(Iterate)
    /\ WF_vars(ConnectionLost) /\ WF_vars(Killed)

-----------------------------------------------------------------------------
(***************************************************************************)
(* Properties.                                                             *)
(***************************************************************************)

\* Messages stay in shared memory and are never copied before they are processed:
\* neither side writes its next message while the other one has yet to read the
\* current one, whatever calls fail, are cancelled or answered twice.
NotOverwritten ==
    /\ child.pc = "wait" /\ child.status = "GOT_REPLY" => child.in = parent.out
    /\ parent.pc = "wait" /\ parent.status = "GOT_REPLY" /\ parent.in # 0 => parent.in = child.out

\* When the parent learns that the child has quit regularly, it has the child's report.
ReportKnown ==
    parent.quit /\ child.exit = "0" /\ ~child.lost => parent.report = child.report

\* The parent blames the transport only if there is no report which explains the
\* failure: a child that fails and quits regularly is the cause, although its
\* pending reply fails first.  Left out: a report without any source in it ("bare"),
\* which explains nothing, and a child whose startSync() failed: the error of that
\* call reaches the parent before the report.
CauseReported ==
    parent.result = "transport" /\ child.exit = "0" /\ ~child.lost /\ child.started =>
        child.report # "failed"

\* Neither process stays behind: when one is gone, for whatever reason, the other
\* one ends, too.
NobodyLeftBehind == (ParentGone \/ ChildGone) ~> (ParentGone /\ ChildGone)

\* An abort request ends both, even if the child waits for a password.
AbortEnds == parent.aborted ~> (ParentGone /\ ChildGone)

\* A sync is only successful for the parent if it was successful for the child.
ChildFailureSeen ==
    parent.pc = "end" /\ parent.result = "OK" /\ ~parent.aborted => child.exit = "0" /\ child.report = "ok"

=============================================================================
