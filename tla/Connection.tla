----------------------------- MODULE Connection -----------------------------
(***************************************************************************)
(* DeviceConnection: the supervisor with its read, ping and stream tasks,  *)
(* reconnection with back-off, the event-stream flag, and close().         *)
(*                                                                         *)
(* A call is in its send, awaits its future, or has been answered and has  *)
(* not run yet (module Rpc has the ids, the registry and the frames);      *)
(* sockets are at the level of what the client holds open.                 *)
(***************************************************************************)
EXTENDS Naturals, FiniteSets

CONSTANTS
    Users,        \* tasks that make ordinary calls
    Ensurers,     \* those of them whose call is ensure_event_stream
    Subscribers,  \* tasks that wait on the event bus
    Overflow      \* the first attempt whose back-off factor ** attempt overflows

ASSUME ConnectionAssumption ==
    /\ Ensurers \subseteq Users
    /\ Overflow \in Nat \ {0}
    /\ "ping" \notin Users /\ "stream" \notin Users

VARIABLES
    reconnect,  \* _reconnect_enabled, fixed at construction
    state,      \* _state
    sup,        \* where the supervisor task stands
    attempt,    \* _attempt
    closer,     \* where close() stands; _closing is set by its first step
    socket,     \* transport._conn: "none", "live" or "dead"
    leaked,     \* a replaced socket is still open
    agent,      \* on the socket it "answers", is "silent" (reads, does not
                \* answer) or "deaf" (does not read: sends stall)
    streaming,  \* the agent pushes events on the socket
    flag,       \* _stream_enabled
    task,       \* the three tasks of _run_io
    call,       \* where each caller is in its call
    busClosed,  \* EventBus._closed
    sub         \* each subscriber's queue: "off", "empty" or "sentinel"

vars == <<reconnect, state, sup, attempt, closer, socket, leaked, agent,
          streaming, flag, task, call, busClosed, sub>>
netVars == <<socket, leaked, agent, streaming>>
supVars == <<reconnect, state, sup, attempt, closer>>
busVars == <<busClosed, sub>>

Callers == Users \cup {"ping", "stream"}
closing == closer # "no"
Frozen == sup = "frozen"        \* the event loop itself no longer turns

Idle == [t \in {"read", "ping", "stream"} |-> "off"]
Started == [read |-> "on", ping |-> "sleep", stream |-> "new"]
NoCalls == [k \in Callers |-> "none"]

-----------------------------------------------------------------------------
(* Calls.  On the present socket a call is in "send", has been "sent", is  *)
(* "handled" by the agent and "answered" (its caller has not run yet).  On *)
(* a replaced socket it has "strayed", still in send, or is "old".  One    *)
(* that cancel_all has failed while in send is "failed", and once that     *)
(* socket is replaced it is "stuck".                                       *)

InSend == {"send", "failed"}
Armed == {"sent", "handled", "answered", "old"}     \* its deadline is running
Unsettled == {"send", "strayed", "sent", "handled", "old"}
Enables(k) == k \in Ensurers \cup {"stream"}        \* the setEventStream calls

(* The caller's task can run: _run_io has not cancelled it.                *)
Runs(k) == ~ Frozen /\ (k \in Users \/ sup = "io")

BeginCall(u) ==
    /\ ~ Frozen
    /\ call[u] = "none"
    /\ u \in Ensurers => ~ flag
    /\ socket = "live"
    /\ call' = [call EXCEPT ![u] = "send"]
    /\ UNCHANGED <<supVars, netVars, flag, task, busVars>>

(* The call ends without an answer: the ping task ends with it, the stream *)
(* task swallows it.                                                       *)
Fails(k) ==
    /\ call' = [call EXCEPT ![k] = "none"]
    /\ task' = CASE k = "ping" -> [task EXCEPT !["ping"] = "failed"]
                 [] k = "stream" -> [task EXCEPT !["stream"] = "off"]
                 [] OTHER -> task
    /\ UNCHANGED <<supVars, netVars, flag, busVars>>

(* Flow control lets the send return once the agent reads.                 *)
SendReturns(k) ==
    /\ Runs(k)
    /\ socket # "dead"
    /\ agent # "deaf"
    /\ \/ call[k] = "send" /\ call' = [call EXCEPT ![k] = "sent"]
       \/ call[k] = "failed" /\ call' = [call EXCEPT ![k] = "none"]
    /\ UNCHANGED <<supVars, netVars, flag, task, busVars>>

(* A socket that is lost or closed ends the sends on it.                   *)
SendFails(k) ==
    /\ Runs(k)
    /\ socket = "dead" \/ closer = "done"
    /\ call[k] \in InSend
    /\ Fails(k)

(* A send on a socket that was replaced while open: nobody closes it.      *)
OldSendEnds(k) ==
    /\ Runs(k)
    /\ \/ call[k] = "strayed" /\ call' = [call EXCEPT ![k] = "old"]
       \/ call[k] \in {"strayed", "stuck"} /\ call' = [call EXCEPT ![k] = "none"]
    /\ UNCHANGED <<supVars, netVars, flag, task, busVars>>

AgentHandles(k) ==
    /\ call[k] = "sent"
    /\ socket = "live"
    /\ agent = "answers"
    /\ call' = [call EXCEPT ![k] = "handled"]
    /\ streaming' = (streaming \/ Enables(k))
    /\ UNCHANGED <<supVars, socket, leaked, agent, flag, task, busVars>>

(* The reader delivers the reply: the future is resolved.                  *)
ReplyArrives(k) ==
    /\ sup = "io"
    /\ task["read"] = "on"
    /\ call[k] = "handled"
    /\ socket = "live"
    /\ call' = [call EXCEPT ![k] = "answered"]
    /\ UNCHANGED <<supVars, netVars, flag, task, busVars>>

(* The caller runs again, whatever has become of the connection.           *)
Resume(k) ==
    /\ Runs(k)
    /\ call[k] = "answered"
    /\ call' = [call EXCEPT ![k] = "none"]
    /\ flag' = (flag \/ Enables(k))
    /\ task' = CASE k = "ping" -> [task EXCEPT !["ping"] = "sleep"]
                 [] k = "stream" -> [task EXCEPT !["stream"] = "off"]
                 [] OTHER -> task
    /\ UNCHANGED <<supVars, netVars, busVars>>

CallTimesOutUniform(k) ==                                   \* mutant
    /\ Runs(k)
    /\ call[k] \in Armed
    /\ call' = [call EXCEPT ![k] = "none"]
    /\ task' = CASE k = "ping" -> [task EXCEPT !["ping"] = "failed"]
                 [] k = "stream" -> [task EXCEPT !["stream"] = "failed"]
                 [] OTHER -> task
    /\ UNCHANGED <<supVars, netVars, flag, busVars>>

CallTimesOutForgiving(k) ==                                 \* mutant
    /\ Runs(k)
    /\ call[k] \in Armed
    /\ call' = [call EXCEPT ![k] = "none"]
    /\ task' = CASE k = "ping" -> [task EXCEPT !["ping"] = "sleep"]
                 [] k = "stream" -> [task EXCEPT !["stream"] = "off"]
                 [] OTHER -> task
    /\ UNCHANGED <<supVars, netVars, flag, busVars>>

(* The deadline begins after send has returned, and beats a reply that the *)
(* caller has not seen.                                                    *)
CallTimesOut(k) ==
    /\ Runs(k)
    /\ call[k] \in Armed
    /\ Fails(k)

(* The task that calls is cancelled, in the send or after it.              *)
CallCancelled(u) ==
    /\ ~ Frozen
    /\ call[u] # "none"
    /\ call' = [call EXCEPT ![u] = "none"]
    /\ UNCHANGED <<supVars, netVars, flag, task, busVars>>

(* cancel_all fails the futures.  A caller that awaits its future is out   *)
(* of the call with that; one in send is not, and one already answered     *)
(* keeps its answer.                                                       *)
CancelAll ==
    [k \in Callers |->
        CASE call[k] = "send" -> "failed"
          [] call[k] = "strayed" -> "stuck"
          [] call[k] \in {"sent", "handled", "old"} -> "none"
          [] OTHER -> call[k]]

(* The tasks of _run_io are cancelled and gathered.                        *)
TasksOut(calls) == [calls EXCEPT !["ping"] = "none", !["stream"] = "none"]

-----------------------------------------------------------------------------
(* EventBus                                                                *)

SubscribeBlind(w) ==                                        \* mutant
    /\ ~ Frozen
    /\ sub[w] = "off"
    /\ sub' = [sub EXCEPT ![w] = "empty"]
    /\ UNCHANGED <<supVars, netVars, flag, task, call, busClosed>>

Subscribe(w) ==
    /\ ~ Frozen
    /\ sub[w] = "off"
    /\ sub' = [sub EXCEPT ![w] = IF busClosed THEN "sentinel" ELSE "empty"]
    /\ UNCHANGED <<supVars, netVars, flag, task, call, busClosed>>

Unsubscribe(w) ==
    /\ ~ Frozen
    /\ sub[w] # "off"
    /\ sub' = [sub EXCEPT ![w] = "off"]
    /\ UNCHANGED <<supVars, netVars, flag, task, call, busClosed>>

WakeAll == sub' = [w \in Subscribers |->
                      IF sub[w] = "empty" THEN "sentinel" ELSE sub[w]]
InterruptNobody == UNCHANGED <<busClosed, sub>>              \* mutant
Interrupt == WakeAll /\ UNCHANGED busClosed
CloseBus == WakeAll /\ busClosed' = TRUE

-----------------------------------------------------------------------------
(* The tasks of _run_io                                                    *)

ReadFails ==
    /\ ~ Frozen
    /\ sup = "io"
    /\ task["read"] = "on"
    /\ socket = "dead"
    /\ task' = [task EXCEPT !["read"] = "failed"]
    /\ UNCHANGED <<supVars, netVars, flag, call, busVars>>

PingFires ==
    /\ sup = "io"
    /\ task["ping"] = "sleep"
    /\ \/ /\ socket = "live"
          /\ task' = [task EXCEPT !["ping"] = "calling"]
          /\ call' = [call EXCEPT !["ping"] = "send"]
       \/ /\ socket # "live"
          /\ task' = [task EXCEPT !["ping"] = "failed"]
          /\ UNCHANGED call
    /\ UNCHANGED <<supVars, netVars, flag, busVars>>

StreamStarts ==
    /\ sup = "io"
    /\ task["stream"] = "new"
    /\ \/ /\ socket = "live" /\ ~ flag
          /\ task' = [task EXCEPT !["stream"] = "calling"]
          /\ call' = [call EXCEPT !["stream"] = "send"]
       \/ /\ socket # "live" \/ flag
          /\ task' = [task EXCEPT !["stream"] = "off"]
          /\ UNCHANGED call
    /\ UNCHANGED <<supVars, netVars, flag, busVars>>

-----------------------------------------------------------------------------
(* _supervise                                                              *)

EnterIoKeepsFlag ==                                         \* mutant
    /\ sup' = "io"
    /\ state' = "connected"
    /\ attempt' = 0
    /\ UNCHANGED flag
    /\ task' = Started

(* The head of the loop: CONNECTED, and _run_io creates its tasks.         *)
EnterIo ==
    /\ sup' = "io"
    /\ state' = "connected"
    /\ attempt' = 0
    /\ flag' = FALSE
    /\ task' = Started

Start ==
    /\ sup = "start"
    /\ ~ closing
    /\ EnterIo
    /\ UNCHANGED <<reconnect, closer, netVars, call, busVars>>

(* asyncio.wait(FIRST_COMPLETED) returns, or close() cancels it; the       *)
(* "finally" cancels the tasks and gathers them.                           *)
IoEnds ==
    /\ sup = "io"
    /\ \/ task["read"] = "failed"
       \/ task["ping"] = "failed"
       \/ closing
    /\ sup' = "draining"
    /\ UNCHANGED <<reconnect, state, attempt, closer, netVars, flag, task, call,
                   busVars>>

(* After _on_drop: the next turn of the loop up to its first await.        *)
NextTurn ==
    \/ /\ reconnect
       /\ state' = "reconnecting"
       /\ attempt < Overflow
       /\ attempt' = attempt + 1
       /\ sup' = "backoff"
       /\ Interrupt
    \/ /\ ~ reconnect
       /\ state' = "closed"
       /\ UNCHANGED attempt
       /\ sup' = "ended"
       /\ CloseBus

DropForgetsStream ==                                        \* mutant
    /\ sup = "draining"
    /\ ~ closing
    /\ task' = [task EXCEPT !["read"] = "off", !["ping"] = "off"]
    /\ call' = CancelAll
    /\ NextTurn
    /\ UNCHANGED <<reconnect, closer, netVars, flag>>

Drop ==
    /\ sup = "draining"
    /\ ~ closing
    /\ task' = Idle
    /\ call' = TasksOut(CancelAll)
    /\ NextTurn
    /\ UNCHANGED <<reconnect, closer, netVars, flag>>

BackoffOver ==
    /\ sup = "backoff"
    /\ ~ closing
    /\ sup' = "opening"
    /\ UNCHANGED <<reconnect, state, attempt, closer, netVars, flag, task, call,
                   busVars>>

(* The handshake takes turns of the loop: a caller that was answered, or   *)
(* whose send failed with its socket, was made ready before it is over.    *)
ReadyHaveRun ==
    \A k \in Callers : /\ call[k] # "answered"
                       /\ socket = "live" \/ call[k] \notin InSend

Replaced ==
    [k \in Callers |->
        CASE call[k] = "send" -> "strayed"
          [] call[k] = "failed" -> "stuck"
          [] call[k] \in {"sent", "handled"} -> "old"
          [] OTHER -> call[k]]

OpenSucceedsLate ==                                         \* mutant
    /\ sup = "opening"
    /\ EnterIo
    /\ leaked' = (leaked \/ socket = "live")
    /\ socket' = "live"
    /\ agent' = "answers"
    /\ streaming' = FALSE
    /\ ReadyHaveRun
    /\ call' = Replaced
    /\ UNCHANGED <<reconnect, closer, busVars>>

(* WsClient.open replaces _conn without closing what it held.              *)
OpenSucceeds ==
    /\ sup = "opening"
    /\ ~ closing
    /\ EnterIo
    /\ leaked' = (leaked \/ socket = "live")
    /\ socket' = "live"
    /\ agent' = "answers"
    /\ streaming' = FALSE
    /\ ReadyHaveRun
    /\ call' = Replaced
    /\ UNCHANGED <<reconnect, closer, busVars>>

OpenFailsGivesUp ==                                         \* mutant
    /\ sup = "opening"
    /\ ~ closing
    /\ call' = CancelAll
    /\ sup' = "ended"
    /\ UNCHANGED <<state, attempt, busVars>>
    /\ UNCHANGED <<reconnect, closer, netVars, flag, task>>

OpenFails ==
    /\ sup = "opening"
    /\ ~ closing
    /\ call' = CancelAll
    /\ NextTurn
    /\ UNCHANGED <<reconnect, closer, netVars, flag, task>>

(* From attempt Overflow on, next_delay raises before "attempt += 1" and   *)
(* before any await; the loop catches it and tries again, for ever.        *)
OpenFailsAtOverflow ==
    /\ sup = "opening"
    /\ ~ closing
    /\ attempt >= Overflow
    /\ call' = CancelAll
    /\ state' = "reconnecting"
    /\ sup' = "frozen"
    /\ Interrupt
    /\ UNCHANGED <<reconnect, attempt, closer, netVars, flag, task>>

SupervisorSleepsOn ==                                       \* mutant
    /\ closing
    /\ sup \in {"start", "draining", "opening"}
    /\ sup' = "ended"
    /\ task' = Idle
    /\ call' = TasksOut(call)
    /\ UNCHANGED <<reconnect, state, attempt, closer, netVars, flag, busVars>>

(* CancelledError leaves _supervise, out of the gather or out of an await. *)
SupervisorCancelled ==
    /\ closing
    /\ sup \in {"start", "draining", "backoff", "opening"}
    /\ sup' = "ended"
    /\ task' = Idle
    /\ call' = TasksOut(call)
    /\ UNCHANGED <<reconnect, state, attempt, closer, netVars, flag, busVars>>

-----------------------------------------------------------------------------
(* close()                                                                 *)

CloseBegins ==
    /\ ~ Frozen
    /\ closer = "no"
    /\ closer' = "awaiting"
    /\ state' = "closed"
    /\ UNCHANGED <<reconnect, sup, attempt, netVars, flag, task, call, busVars>>

(* The supervisor has ended: fail the futures, wake the waits, and take    *)
(* the socket out of the transport to close it.                            *)
CloseReleases ==
    /\ closer = "awaiting"
    /\ sup = "ended"
    /\ closer' = "transport"
    /\ call' = CancelAll
    /\ CloseBus
    /\ socket' = "none"
    /\ UNCHANGED <<reconnect, state, sup, attempt, leaked, agent, streaming, flag,
                   task>>

CloseEnds ==
    /\ closer = "transport"
    /\ closer' = "done"
    /\ UNCHANGED <<reconnect, state, sup, attempt, netVars, flag, task, call,
                   busVars>>

-----------------------------------------------------------------------------
(* The agent and the network                                               *)

SocketDies ==
    /\ socket = "live"
    /\ socket' = "dead"
    /\ agent' = "silent"
    /\ streaming' = FALSE
    /\ UNCHANGED <<supVars, leaked, flag, task, call, busVars>>

(* The agent hangs, stops reading, or comes back to itself.                *)
AgentTurns ==
    /\ socket = "live"
    /\ agent' \in {"answers", "silent", "deaf"} \ {agent}
    /\ UNCHANGED <<supVars, socket, leaked, streaming, flag, task, call, busVars>>

-----------------------------------------------------------------------------
(* connect() has just opened the first socket and created the supervisor.  *)
Init ==
    /\ reconnect \in BOOLEAN
    /\ state = "connecting"
    /\ sup = "start"
    /\ attempt = 0
    /\ closer = "no"
    /\ socket = "live"
    /\ leaked = FALSE
    /\ agent = "answers"
    /\ streaming = FALSE
    /\ flag = FALSE
    /\ task = Idle
    /\ call = NoCalls
    /\ busClosed = FALSE
    /\ sub = [w \in Subscribers |-> "off"]

Proceed(k) ==
    SendReturns(k) \/ SendFails(k) \/ CallTimesOut(k) \/ Resume(k)
Calls == \/ \E u \in Users : BeginCall(u) \/ CallCancelled(u)
         \/ \E k \in Callers :
               AgentHandles(k) \/ ReplyArrives(k) \/ OldSendEnds(k) \/ Proceed(k)
Bus == \E w \in Subscribers : Subscribe(w) \/ Unsubscribe(w)
Tasks == ReadFails \/ PingFires \/ StreamStarts
Close == CloseBegins \/ CloseReleases \/ CloseEnds
Environment == SocketDies \/ AgentTurns

Supervisor ==
    \/ Start
    \/ IoEnds
    \/ Drop
    \/ BackoffOver
    \/ OpenSucceeds
    \/ OpenFails
    \/ SupervisorCancelled

(* Next assumes that an outage ends before the back-off overflows (1024    *)
(* attempts with the default factor of 2: about eight and a half hours at  *)
(* the 30 s cap); LongOutageNext does not.                                 *)
Next == Calls \/ Bus \/ Tasks \/ Close \/ Environment \/ Supervisor
LongOutageNext == Next \/ OpenFailsAtOverflow

(* Timers fire and ready tasks run; an attempt to open ends within         *)
(* open_timeout; a call goes on, but its send may stall while the agent    *)
(* does not read, or for ever on a replaced socket.  close_timeout bounds  *)
(* the closing handshake, whose close frame waits behind stalled sends.    *)
LoopFairness ==
    /\ WF_vars(Tasks)
    /\ WF_vars(PingFires)
    /\ WF_vars(Start \/ IoEnds \/ Drop \/ BackoffOver \/ SupervisorCancelled)
    /\ WF_vars(CloseReleases)
    /\ WF_vars(agent # "deaf" /\ CloseEnds)
    /\ \A k \in Callers : WF_vars(Proceed(k))

(* The device is there: it is not unreachable at every attempt.            *)
DeviceReachable == SF_vars(OpenSucceeds)

Spec == Init /\ [][Next]_vars
FairSpec == Spec /\ LoopFairness /\ DeviceReachable
LongOutageSpec ==
    Init /\ [][LongOutageNext]_vars /\ LoopFairness /\ DeviceReachable

-----------------------------------------------------------------------------
(* Properties                                                              *)

TypeOK ==
    /\ reconnect \in BOOLEAN
    /\ state \in {"connecting", "connected", "reconnecting", "closed"}
    /\ sup \in {"start", "io", "draining", "backoff", "opening", "frozen", "ended"}
    /\ attempt \in 0..Overflow
    /\ closer \in {"no", "awaiting", "transport", "done"}
    /\ socket \in {"none", "live", "dead"}
    /\ leaked \in BOOLEAN
    /\ agent \in {"answers", "silent", "deaf"}
    /\ streaming \in BOOLEAN /\ flag \in BOOLEAN
    /\ task["read"] \in {"off", "on", "failed"}
    /\ task["ping"] \in {"off", "sleep", "calling", "failed"}
    /\ task["stream"] \in {"off", "new", "calling"}
    /\ call \in [Callers -> {"none", "answered", "failed", "stuck"} \cup Unsettled]
    /\ busClosed \in BOOLEAN
    /\ sub \in [Subscribers -> {"off", "empty", "sentinel"}]

(* Outside _run_io nothing of it is left: no reader competes with the next *)
(* connection's reader, no ping or setEventStream of a dead connection is  *)
(* still in flight when the next one starts.                               *)
QuietBetweenConnections ==
    sup \notin {"io", "draining"} =>
        /\ task = Idle
        /\ call["ping"] = "none" /\ call["stream"] = "none"

(* ensure_event_stream returning early is right: on a connection that is   *)
(* up, the flag is only set if this very connection pushes events.         *)
StreamFlagSound ==
    sup = "io" /\ socket = "live" /\ flag => streaming

(* Once the bus is closed nobody sleeps on it, and once close() has         *)
(* released the connection no call waits for a reply any more, whenever    *)
(* they subscribed or called.  A caller can then only be about to take its *)
(* answer, or be in a send; and in a send on a replaced socket only where  *)
(* one was replaced while open, after a missed heartbeat.                  *)
NobodyStranded ==
    /\ busClosed => \A w \in Subscribers : sub[w] # "empty"
    /\ closer \in {"transport", "done"} =>
           busClosed /\ \A k \in Callers : call[k] \notin Unsettled
    /\ (\E k \in Callers : call[k] \in {"strayed", "stuck"}) => leaked

(* The promise of the connection to those who use it: whatever its tasks   *)
(* are doing, a drop, a failed attempt and a close each settle every call  *)
(* and wake every wait in one step (a caller in send learns of it when the *)
(* send ends), nobody falls asleep on a closed bus, and a reconnected link *)
(* starts with the stream flag cleared.                                    *)
Contract == INSTANCE Link WITH
    Callers <- Callers,
    Sleepers <- Subscribers,
    link <- IF busClosed THEN "closed" ELSE IF attempt = 0 THEN "up" ELSE "down",
    enabled <- flag,
    unsettled <- {k \in Callers : call[k] \in Unsettled},
    asleep <- {w \in Subscribers : sub[w] = "empty"}

ImplementsLink == Contract!Spec

(* close() is final: whatever the supervisor was doing, the state stays    *)
(* CLOSED, no socket is opened and no I/O starts again.                    *)
ClosedForGood ==
    [][closing => /\ state' = "closed"
                  /\ socket' \in {socket, "dead", "none"}
                  /\ sup' = "io" => sup = "io"]_vars

(* docs/fleet.md: a dropped socket is repaired automatically with backoff,  *)
(* unless the connection is closed.                                        *)
Reconnects == state = "reconnecting" ~> state \in {"connected", "closed"}

(* A silent agent is noticed, although its socket never fails: one that    *)
(* reads and does not answer.  One that does not even read can hold the    *)
(* ping in its send, before its deadline begins (AgentTurns, and           *)
(* CallTerminates in Rpc), and nothing is promised of it.                  *)
HangDetected == sup = "io" /\ agent = "silent" ~> sup # "io" \/ agent # "silent"

(* close() returns, from whatever state the supervisor is in, and then     *)
(* every caller leaves its call, except from a send on a replaced socket.  *)
(* While the agent does not read, the socket's own close() may have to     *)
(* wait: then close() has done all but that.                               *)
CloseReturns ==
    closer = "awaiting" ~>
        \/ closer = "done" /\ \A k \in Callers : call[k] \in {"none", "stuck"}
        \/ closer = "transport" /\ agent = "deaf"

(* DeviceConnection.close: "Stop the supervisor, fail pending              *)
(* calls/waiters, close the socket."                                       *)
SocketsReleased == closer = "done" => ~ leaked
=============================================================================
