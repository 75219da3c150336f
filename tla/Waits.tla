------------------------------- MODULE Waits -------------------------------
(***************************************************************************)
(* WaitEngine over one device connection: EventBus with real queues, the   *)
(* event half of DeviceConnection, and the agent as the waits see it.      *)
(*                                                                         *)
(* A member of Waiters is one execution of wait_until, a member of         *)
(* Toasters one of wait_toast.  A tree is abstracted to its screen number  *)
(* and to whether the predicate finds what it looks for; "blank" is a      *)
(* screen without an active window.                                        *)
(***************************************************************************)
EXTENDS Integers, Sequences, FiniteSets

CONSTANTS
    Waiters,    \* the executions of WaitEngine.wait_until
    Toasters,   \* the executions of WaitEngine.wait_toast
    Stream,     \* the task that runs _enable_stream_best_effort
    MaxScreen,  \* bound: settled changes in one life of the agent
    MaxToasts,  \* bound: toasts
    MaxWaits,   \* bound: waits running at a time
    None

ASSUME WaitsAssumption ==
    /\ Waiters \cap Toasters = {}
    /\ Stream \notin Waiters \cup Toasters
    /\ MaxScreen \in Nat /\ MaxToasts \in Nat

VARIABLES
    pc,         \* where each wait stands
    queue,      \* its subscription: the events it has not consumed
    last,       \* last_screen of a wait_until
    reply,      \* the settled future it has not resumed from
    since,      \* history: a toast was read since this wait_toast began
    link,       \* the connection: "up", "down" or "closed"
    enabled,    \* DeviceConnection._stream_enabled
    buffered,   \* _last_toast holds a toast within the lookback window
    shown,      \* the agent's screen
    dirty,      \* it changed and the debounce has not fired yet
    screen,     \* the agent's screen counter
    pushing,    \* its event stream to this connection: "off", "asked", "on"
    draft,      \* the dump the agent has taken for a wait and not yet sent
    wire,       \* frames sent and not yet read
    raised      \* toasts shown so far

waitVars == <<pc, queue, last, reply, since>>
connVars == <<link, enabled, buffered>>
agentVars == <<shown, dirty, screen, pushing, draft, wire, raised>>
vars == <<waitVars, connVars, agentVars>>

Waits == Waiters \cup Toasters
Tasks == Waits \cup {Stream}
Contents == {"match", "other", "blank"}

Answer(st) == [st |-> st, screen |-> -1]
Trees == [st : {"match", "other"}, screen : 0..MaxScreen]
Dumps == {Answer("blank")} \cup Trees
Answers == {Answer("enabled"), Answer("lost")} \cup Dumps
Event(kind, n) == [kind |-> kind, n |-> n]
Closed == Event("closed", 0)
Toast == Event("toast", 0)
Events == {Closed, Toast} \cup [kind : {"screen"}, n : 1..MaxScreen]
Replies == [of : Tasks, answer : Answers]

ASSUME NoneAssumption == None \notin Answers

(* A request is out: read by the agent, or ("mute") written to a socket    *)
(* that the client no longer reads.                                        *)
Awaiting(a) == pc[a] \in {"stream", "dump", "mute"}

(* Held in a send that flow control does not let return: no deadline of    *)
(* the call is armed, and neither its future nor its queue is looked at    *)
(* again, for when this send ends, if ever, the call fails.  (A send that  *)
(* returns to a wait for a reply is a request that the agent sees late.)   *)
Held(a) == pc[a] = "stuck"
Unsettled(a) == (Awaiting(a) \/ Held(a)) /\ reply[a] = None

-----------------------------------------------------------------------------
(* EventBus                                                                *)

Running(a) == a # Stream /\ (Awaiting(a) \/ pc[a] = "wait")
SubscribedLate(a) == pc[a] = "wait"                       \* mutant
Subscribed(a) == Running(a)
Emit(e) ==
    queue' = [a \in Tasks |-> IF Subscribed(a) THEN Append(queue[a], e)
                                               ELSE queue[a]]
SubscriptionBlind == <<>>                                 \* mutant
Subscription == IF link = "closed" THEN <<Closed>> ELSE <<>>

(* The wait ends; leaving the "with" block unsubscribes it, and an answer  *)
(* to it that is still to come would be dropped (Rpc).                     *)
End(a, result) ==
    /\ pc' = [pc EXCEPT ![a] = result]
    /\ queue' = [queue EXCEPT ![a] = <<>>]
    /\ reply' = [reply EXCEPT ![a] = None]
    /\ last' = [w \in Waiters |-> IF w = a THEN -1 ELSE last[w]]
    /\ since' = [t \in Toasters |-> IF t = a THEN FALSE ELSE since[t]]
    /\ draft' = [draft EXCEPT ![a] = None]

(* a sends a request while it holds the queue q, and awaits the reply.     *)
(* The send may be held, whatever the link (the stream task of the         *)
(* connection is then cancelled with it).  Without a link the send fails,  *)
(* unless the old socket is still open (a missed heartbeat) and takes it.  *)
Request(a, q, kind) ==
    \/ /\ pc' = [pc EXCEPT ![a] = IF link = "up" THEN kind ELSE "mute"]
       /\ queue' = [queue EXCEPT ![a] = q]
       /\ reply' = [reply EXCEPT ![a] = None]
       /\ pushing' = IF link = "up" /\ kind = "stream" /\ pushing = "off"
                     THEN "asked" ELSE pushing
       /\ UNCHANGED <<last, since, draft>>
    \/ /\ a # Stream
       /\ pc' = [pc EXCEPT ![a] = "stuck"]
       /\ queue' = [queue EXCEPT ![a] = <<>>]
       /\ reply' = [reply EXCEPT ![a] = None]
       /\ UNCHANGED <<last, since, draft, pushing>>
    \/ /\ link # "up"
       /\ End(a, "failed")
       /\ UNCHANGED pushing

(* Nothing to send: go to the queue.                                       *)
Listen(a, q) ==
    /\ pc' = [pc EXCEPT ![a] = "wait"]
    /\ queue' = [queue EXCEPT ![a] = q]
    /\ reply' = [reply EXCEPT ![a] = None]
    /\ UNCHANGED <<since, draft>>

-----------------------------------------------------------------------------
(* wait_until                                                              *)

agentRest == <<shown, dirty, screen, wire, raised>>

(* Subscribe, then ensure_event_stream, then the first dump.               *)
Start(w) ==
    /\ pc[w] = "idle"
    /\ Request(w, Subscription, IF enabled THEN "dump" ELSE "stream")
    /\ UNCHANGED <<connVars, agentRest>>

StreamReady(w) ==
    /\ pc[w] = "stream"
    /\ reply[w] = Answer("enabled")
    /\ enabled' = TRUE
    /\ Request(w, queue[w], "dump")
    /\ UNCHANGED <<link, buffered, agentRest>>

DumpReadyAhead(w) ==                                      \* mutant
    /\ pc[w] = "dump"
    /\ reply[w] \in Trees
    /\ Listen(w, queue[w])
    /\ last' = [last EXCEPT ![w] = reply[w].screen + 1]
    /\ UNCHANGED <<connVars, pushing, agentRest>>

(* A dump came back.  No active window: go on with the same baseline.      *)
DumpReady(w) ==
    /\ pc[w] = "dump"
    /\ reply[w] \in Dumps
    /\ \/ reply[w].st = "match" /\ End(w, "found")
       \/ /\ reply[w].st = "other"
          /\ Listen(w, queue[w])
          /\ last' = [last EXCEPT ![w] = reply[w].screen]
       \/ /\ reply[w].st = "blank"
          /\ Listen(w, queue[w])
          /\ UNCHANGED last
    /\ UNCHANGED <<connVars, pushing, agentRest>>

(* The next event: the sentinel, news, or nothing to a wait_until.         *)
Consume(w) ==
    /\ pc[w] = "wait"
    /\ queue[w] # <<>>
    /\ LET e == Head(queue[w])
           q == Tail(queue[w])
       IN \/ e = Closed /\ End(w, "failed") /\ UNCHANGED pushing
          \/ /\ e = Toast \/ (e.kind = "screen" /\ e.n <= last[w])
             /\ Listen(w, q)
             /\ UNCHANGED <<last, pushing>>
          \/ /\ e.kind = "screen" /\ e.n > last[w]
             /\ Request(w, q, "dump")
    /\ UNCHANGED <<connVars, agentRest>>

-----------------------------------------------------------------------------
(* wait_toast                                                              *)

(* recent_toast: hand out the buffered toast and forget it.                *)
TakeBuffered(t) ==
    /\ buffered
    /\ buffered' = FALSE
    /\ End(t, "found")
    /\ UNCHANGED pushing

StartToast(t) ==
    /\ pc[t] = "idle"
    /\ \/ TakeBuffered(t)
       \/ /\ ~ buffered /\ ~ enabled
          /\ Request(t, Subscription, "stream")
          /\ UNCHANGED buffered
       \/ /\ ~ buffered /\ enabled
          /\ Listen(t, Subscription)
          /\ UNCHANGED <<last, buffered, pushing>>
    /\ UNCHANGED <<link, enabled, agentRest>>

(* The stream is on: look at the buffer again, then at the queue.          *)
ToastStreamReady(t) ==
    /\ pc[t] = "stream"
    /\ reply[t] = Answer("enabled")
    /\ enabled' = TRUE
    /\ \/ TakeBuffered(t)
       \/ /\ ~ buffered
          /\ Listen(t, queue[t])
          /\ UNCHANGED <<last, buffered, pushing>>
    /\ UNCHANGED <<link, agentRest>>

ConsumeToastDeaf(t) ==                                    \* mutant
    /\ pc[t] = "wait"
    /\ queue[t] # <<>>
    /\ IF Head(queue[t]) = Toast THEN End(t, "found")
       ELSE Listen(t, Tail(queue[t])) /\ UNCHANGED last
    /\ UNCHANGED <<connVars, pushing, agentRest>>

ConsumeToast(t) ==
    /\ pc[t] = "wait"
    /\ queue[t] # <<>>
    /\ LET e == Head(queue[t])
       IN \/ e = Closed /\ End(t, "failed")
          \/ e = Toast /\ End(t, "found")
          \/ e.kind = "screen" /\ Listen(t, Tail(queue[t])) /\ UNCHANGED last
    /\ UNCHANGED <<connVars, pushing, agentRest>>

-----------------------------------------------------------------------------
(* The other ways out of an await.                                         *)

(* The call, its send over, ends by its own deadline, by an error of the   *)
(* agent other than "no active window", or by the loss of the link.        *)
CallFails(a) ==
    /\ Awaiting(a)
    /\ reply[a] \in {None, Answer("lost")}
    /\ End(a, "failed")
    /\ UNCHANGED <<connVars, pushing, agentRest>>

(* The held send returns, its future failed or its deadline then over, or  *)
(* the socket is lost at last.                                             *)
SendEnds(a) ==
    /\ Held(a)
    /\ End(a, "failed")
    /\ UNCHANGED <<connVars, pushing, agentRest>>

(* asyncio.timeout around the whole wait, or the caller is cancelled.      *)
Abandon(a) ==
    /\ Running(a) \/ Held(a)
    /\ End(a, "failed")
    /\ UNCHANGED <<connVars, pushing, agentRest>>

-----------------------------------------------------------------------------
(* The connection                                                          *)

(* The connection's own request for the stream.                            *)
OpenStream ==
    /\ pc[Stream] = "idle"
    /\ link = "up"
    /\ IF enabled THEN End(Stream, "found") /\ UNCHANGED pushing
                  ELSE Request(Stream, <<>>, "stream")
    /\ UNCHANGED <<connVars, agentRest>>

StreamOpened ==
    /\ pc[Stream] = "stream"
    /\ reply[Stream] = Answer("enabled")
    /\ enabled' = TRUE
    /\ End(Stream, "found")
    /\ UNCHANGED <<link, buffered, pushing, agentRest>>

(* FrameRouter hands a reply to its future and an event to _handle_event.  *)
Deliver ==
    /\ wire # <<>>
    /\ wire' = Tail(wire)
    /\ LET f == Head(wire)
       IN \/ /\ f \in Replies
             /\ reply' = [reply EXCEPT ![f.of] =
                            IF pc[f.of] \in {"stream", "dump"} /\ @ = None
                            THEN f.answer ELSE @]
             /\ UNCHANGED <<queue, since, buffered>>
          \/ /\ f \in Events /\ f # Toast
             /\ Emit(f)
             /\ UNCHANGED <<reply, since, buffered>>
          \/ /\ f = Toast
             /\ buffered' = TRUE
             /\ since' = [t \in Toasters |-> Running(t)]
             /\ Emit(f)
             /\ UNCHANGED reply
    /\ UNCHANGED <<pc, last, link, enabled, shown, dirty, screen, pushing,
                   draft, raised>>

(* The buffered toast is now older than the lookback window.               *)
Age ==
    /\ buffered
    /\ buffered' = FALSE
    /\ UNCHANGED <<waitVars, link, enabled, agentVars>>

(* cancel_all, then the sentinel to every subscriber.                      *)
Disconnect ==
    /\ reply' = [a \in Tasks |-> IF Unsettled(a) THEN Answer("lost") ELSE reply[a]]
    /\ Emit(Closed)
    /\ pushing' = "off"
    /\ draft' = [a \in Tasks |-> None]
    /\ wire' = <<>>
    /\ UNCHANGED <<pc, last, since, enabled, buffered, shown, dirty, screen,
                   raised>>

Drop ==
    /\ link = "up"
    /\ link' = "down"
    /\ Disconnect

Close ==
    /\ link # "closed"
    /\ link' = "closed"
    /\ Disconnect

(* What holds an await no longer; a back-off sleep lets all of it run.     *)
Ready(a) ==
    /\ ~ Held(a)
    /\ reply[a] # None \/ (pc[a] = "wait" /\ queue[a] # <<>>)

ReopenFlagKept ==                                         \* mutant
    /\ link = "down"
    /\ \A a \in Tasks : ~ Ready(a)
    /\ link' = "up"
    /\ pc' = [pc EXCEPT ![Stream] = "idle"]
    /\ UNCHANGED <<queue, last, reply, since, enabled, buffered, agentVars>>

(* The supervisor comes back after its back-off sleep; by then every task  *)
(* that the drop made ready has run.                                       *)
Reopen ==
    /\ link = "down"
    /\ \A a \in Tasks : ~ Ready(a)
    /\ link' = "up"
    /\ enabled' = FALSE
    /\ pc' = [pc EXCEPT ![Stream] = "idle"]
    /\ UNCHANGED <<queue, last, reply, since, buffered, agentVars>>

(* An attempt to reconnect has failed, after a back-off sleep like it.     *)
OpenFails ==
    /\ link = "down"
    /\ \A a \in Tasks : ~ Ready(a)
    /\ Disconnect
    /\ UNCHANGED link

-----------------------------------------------------------------------------
(* The agent                                                               *)

Send(f) == wire' = Append(wire, f)
Push(e) == IF pushing = "on" THEN Send(e) ELSE UNCHANGED wire

Change ==
    /\ screen < MaxScreen
    /\ shown' \in Contents \ {shown}
    /\ dirty' = TRUE
    /\ UNCHANGED <<waitVars, connVars, screen, pushing, draft, wire, raised>>

(* The burst is over: one event with a fresh screen number.                *)
Settle ==
    /\ dirty
    /\ dirty' = FALSE
    /\ screen' = screen + 1
    /\ Push(Event("screen", screen + 1))
    /\ UNCHANGED <<waitVars, connVars, shown, pushing, draft, raised>>

RaiseToast ==
    /\ raised < MaxToasts
    /\ raised' = raised + 1
    /\ Push(Toast)
    /\ UNCHANGED <<waitVars, connVars, shown, dirty, screen, pushing, draft>>

TurnOn ==
    /\ pushing = "asked"
    /\ pushing' = "on"
    /\ UNCHANGED <<waitVars, connVars, agentRest, draft>>

Unanswered(a) ==
    /\ reply[a] = None
    /\ draft[a] = None
    /\ \A k \in 1..Len(wire) : wire[k] \in Replies => wire[k].of # a

ConfirmStream(a) ==
    /\ pc[a] = "stream"
    /\ pushing = "on"
    /\ Unanswered(a)
    /\ Send([of |-> a, answer |-> Answer("enabled")])
    /\ UNCHANGED <<waitVars, connVars, shown, dirty, screen, pushing, draft, raised>>

(* The hierarchy is read at one moment and sent at a later one.            *)
TakeDump(w) ==
    /\ pc[w] = "dump"
    /\ Unanswered(w)
    /\ draft' = [draft EXCEPT ![w] = IF shown = "blank" THEN Answer("blank")
                                     ELSE [st |-> shown, screen |-> screen]]
    /\ UNCHANGED <<waitVars, connVars, pushing, agentRest>>

SendDump(w) ==
    /\ draft[w] # None
    /\ Send([of |-> w, answer |-> draft[w]])
    /\ draft' = [draft EXCEPT ![w] = None]
    /\ UNCHANGED <<waitVars, connVars, shown, dirty, screen, pushing, raised>>

(* While the link is down the agent may restart and count from zero.       *)
Restart ==
    /\ screen' = 0
    /\ dirty' = FALSE
    /\ UNCHANGED <<waitVars, connVars, shown, pushing, draft, wire, raised>>

-----------------------------------------------------------------------------

Init ==
    /\ pc = [a \in Tasks |-> "idle"]
    /\ queue = [a \in Tasks |-> <<>>]
    /\ last = [w \in Waiters |-> -1]
    /\ reply = [a \in Tasks |-> None]
    /\ since = [t \in Toasters |-> FALSE]
    /\ link = "up" /\ enabled = FALSE /\ buffered = FALSE
    /\ shown = "other" /\ dirty = FALSE /\ screen = 0
    /\ pushing = "off"
    /\ draft = [a \in Tasks |-> None]
    /\ wire = <<>>
    /\ raised = 0

Client ==
    \/ /\ Cardinality({a \in Waits : Running(a) \/ Held(a)}) < MaxWaits
       /\ \/ \E w \in Waiters : Start(w)
          \/ \E t \in Toasters : StartToast(t)
    \/ \E w \in Waiters : StreamReady(w) \/ DumpReady(w) \/ Consume(w)
    \/ \E t \in Toasters : ToastStreamReady(t) \/ ConsumeToast(t)
    \/ \E a \in Tasks : CallFails(a) \/ SendEnds(a) \/ Abandon(a)
    \/ OpenStream \/ StreamOpened \/ Deliver \/ Age
    \/ Drop \/ Close \/ Reopen \/ OpenFails

(* What the agent does once the connection is closed concerns nobody.      *)
Agent ==
    \/ link # "closed" /\ (Change \/ Settle)
    \/ link = "up" /\ (RaiseToast \/ TurnOn)
    \/ link = "down" /\ Restart
    \/ \E a \in Tasks : ConfirmStream(a)
    \/ \E w \in Waiters : TakeDump(w) \/ SendDump(w)

Next == Client \/ Agent

(* Every wait gets on: its task runs when it is ready, and a call that     *)
(* nobody answers ends by its own deadline, once its send has returned     *)
(* (AfterDeadline in Rpc).  A held send promises nothing.                  *)
LoopFairness ==
    /\ \A w \in Waiters :
           WF_vars(StreamReady(w) \/ DumpReady(w) \/ Consume(w) \/ CallFails(w))
    /\ \A t \in Toasters :
           WF_vars(ToastStreamReady(t) \/ ConsumeToast(t) \/ CallFails(t))

Spec == Init /\ [][Next]_vars
FairSpec == Spec /\ LoopFairness

-----------------------------------------------------------------------------
(* Properties                                                              *)

TypeOK ==
    /\ pc \in [Tasks -> {"idle", "stream", "dump", "mute", "stuck", "wait", "found",
                     "failed"}]
    /\ queue \in [Tasks -> Seq(Events)]
    /\ last \in [Waiters -> -1..MaxScreen]
    /\ reply \in [Tasks -> Answers \cup {None}]
    /\ since \in [Toasters -> BOOLEAN]
    /\ link \in {"up", "down", "closed"}
    /\ enabled \in BOOLEAN /\ buffered \in BOOLEAN
    /\ shown \in Contents /\ dirty \in BOOLEAN /\ screen \in 0..MaxScreen
    /\ pushing \in {"off", "asked", "on"}
    /\ draft \in [Tasks -> Dumps \cup {None}]
    /\ wire \in Seq(Events \cup Replies)
    /\ raised \in 0..MaxToasts

(* The wait sleeps: it has consumed everything its subscription received.  *)
Blocked(a) == pc[a] = "wait" /\ queue[a] = <<>>

(* No change is missed: once the screen has settled on what a wait_until   *)
(* looks for and its event is not on its way, the wait is not asleep,      *)
(* however the change fell between its subscription and its dumps.         *)
NoMissedChange ==
    \A w \in Waiters : Blocked(w) /\ wire = <<>> /\ ~ dirty => shown # "match"

(* A sleeping wait_until has a live connection on which the agent sends    *)
(* events; none sleeps on through a drop, a reconnect or a close.          *)
StreamBehindWait == \A w \in Waiters : Blocked(w) => link = "up" /\ pushing = "on"

(* No toast that arrives after wait_toast was called goes past it, neither *)
(* while the stream is being enabled nor between the buffer and the queue. *)
NoMissedToast == \A t \in Toasters : Blocked(t) => ~ since[t]

(* The waits ask no more of the connection than Connection is shown to     *)
(* give, and with real queues the promise still holds: a drop, a failed    *)
(* attempt and a close leave no call unsettled and nobody asleep on an     *)
(* empty queue, and nobody gets to sleep once the bus is closed.           *)
Contract == INSTANCE Link WITH
    Callers <- Tasks,
    Sleepers <- Waits,
    link <- link,
    enabled <- enabled,
    unsettled <- {a \in Tasks : Unsettled(a)},
    asleep <- {a \in Waits : Blocked(a)}

ImplementsLink == Contract!Spec

(* A wait that was subscribed when the connection dropped ends without     *)
(* waiting for its own deadline, unless one of its requests is held in its *)
(* send (AgentTurns in Connection, CallTerminates in Rpc).                 *)
InterruptEnds ==
    \A a \in Waits : (\E k \in 1..Len(queue[a]) : queue[a][k] = Closed)
                        ~> pc[a] \in {"found", "failed", "stuck"}
=============================================================================
