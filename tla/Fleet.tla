------------------------------- MODULE Fleet -------------------------------
(***************************************************************************)
(* FleetController's lifecycle: AdbWatcher's event queue, the watch task   *)
(* with _handle_attach and _handle_detach, PortAllocator, adb's forwards,  *)
(* wait_ready and stop().  One life of a controller, from start to stop.   *)
(*                                                                         *)
(* A DeviceConnection is taken at the level of module Connection: open     *)
(* while its supervisor runs and may dial the port again.                  *)
(***************************************************************************)
EXTENDS Integers, Sequences, FiniteSets

CONSTANTS
    Serials,    \* device serials
    FirstPort,  \* config.port_range
    LastPort,
    Waiters,    \* tasks that call wait_ready
    MaxEvents,  \* bound on the queue of unhandled presence changes
    None        \* Python's None

ASSUME FleetAssumption ==
    /\ FirstPort \in Nat /\ LastPort \in Nat /\ FirstPort <= LastPort
    /\ MaxEvents \in Nat
    /\ None \notin Serials /\ None \notin Int

VARIABLES
    plugged,   \* the devices adb sees in the "device" state
    tracking,  \* the thread in AdbWatcher.events still runs
    events,    \* the watcher's asyncio queue
    phase,     \* "running", then stop(): "stopping", "clearing", "stopped"
    at,        \* the await where the task running a handler stands
    hand,      \* the serial that handler is about
    todo,      \* what stop() has yet to detach
    registry,  \* _registry
    indexed,   \* TagIndex: the serials it still lists
    port,      \* PortAllocator._by_serial; _used is its range
    forward,   \* adb's forwards: the device behind each local port
    open,      \* the connections whose supervisor is running
    told,      \* serials announced by on_attached and not by on_detached
    logged,    \* present devices whose last failed attach was logged
    orphans,   \* adb calls that still run in a thread nobody awaits
    wait       \* wait_ready: what each waiter waits for, and whether it sleeps

vars == <<plugged, tracking, events, phase, at, hand, todo, registry, indexed,
          port, forward, open, told, logged, orphans, wait>>
adbVars == <<plugged, tracking, forward>>
deviceVars == <<registry, indexed, open, told>>
stopVars == <<phase, todo, orphans>>

Ports == FirstPort..LastPort
Event == [serial : Serials, present : BOOLEAN]
AdbCall == [op : {"forward", "remove"}, serial : Serials, port : Ports]
AtRest == [state |-> "off", missing |-> {}]

(* The handler is done: its task waits for the next event, or is stop().   *)
Resting == IF phase = "clearing" THEN "ended" ELSE "idle"

-----------------------------------------------------------------------------
(* PortAllocator                                                           *)

Used == {port[s] : s \in Serials} \ {None}

AcquireUsed(s, p) ==                                        \* mutant
    \/ port[s] # None /\ p = port[s]
    \/ port[s] = None /\ p = FirstPort

(* acquire returns p: the port s holds, or the lowest free one.            *)
Acquire(s, p) ==
    \/ port[s] # None /\ p = port[s]
    \/ /\ port[s] = None
       /\ p \in Ports \ Used
       /\ \A q \in Ports \ Used : p <= q

Full(s) == port[s] = None /\ Ports \subseteq Used
Release(s) == port' = [port EXCEPT ![s] = None]

-----------------------------------------------------------------------------
(* _handle_attach                                                          *)

Known(s) ==
    /\ s \in registry
    /\ UNCHANGED <<adbVars, stopVars, deviceVars, port, logged, at, hand, wait>>

NoPortKills(s) ==                                           \* mutant
    /\ s \notin registry
    /\ Full(s)
    /\ logged' = logged \cup ({s} \cap plugged)
    /\ at' = "ended"
    /\ UNCHANGED <<adbVars, stopVars, deviceVars, port, hand, wait>>

NoPortLeft(s) ==
    /\ s \notin registry
    /\ Full(s)
    /\ logged' = logged \cup ({s} \cap plugged)
    /\ UNCHANGED <<adbVars, stopVars, deviceVars, port, at, hand, wait>>

BeginAttach(s) ==
    /\ s \notin registry
    /\ \E p \in Ports : Acquire(s, p) /\ port' = [port EXCEPT ![s] = p]
    /\ at' = "forwarding"
    /\ hand' = s
    /\ UNCHANGED <<adbVars, stopVars, deviceVars, logged, wait>>

HandleAttach(s) == Known(s) \/ NoPortLeft(s) \/ BeginAttach(s)

ForwardSucceeds ==
    /\ at = "forwarding"
    /\ hand \in plugged
    /\ forward' = [forward EXCEPT ![port[hand]] = hand]
    /\ at' = "connecting"
    /\ UNCHANGED <<plugged, tracking, events, stopVars, deviceVars, port, hand,
                   logged, wait>>

GiveUp ==
    /\ Release(hand)
    /\ logged' = logged \cup ({hand} \cap plugged)
    /\ at' = Resting
    /\ UNCHANGED <<adbVars, events, stopVars, deviceVars, hand, wait>>

ForwardFailsUnnoticed ==                                    \* mutant
    /\ at = "forwarding"
    /\ at' = "connecting"
    /\ UNCHANGED <<adbVars, events, stopVars, deviceVars, port, hand, logged, wait>>
ForwardFails == at = "forwarding" /\ GiveUp

ConnectFailsKeepsPort ==                                    \* mutant
    /\ at = "connecting"
    /\ logged' = logged \cup ({hand} \cap plugged)
    /\ at' = Resting
    /\ UNCHANGED <<adbVars, events, stopVars, deviceVars, port, hand, wait>>
ConnectFails == at = "connecting" /\ GiveUp

Announce ==
    /\ registry' = registry \cup {hand}
    /\ indexed' = indexed \cup {hand}
    /\ open' = open \cup {hand}
    /\ told' = told \cup {hand}

(* The registration wakes wait_ready; every step up to the callbacks runs  *)
(* without an await.  Dialling a port reaches whatever adb has behind it.  *)
Wake == wait' = [w \in Waiters |-> IF wait[w].state = "asleep"
                                   THEN [wait[w] EXCEPT !.state = "woken"]
                                   ELSE wait[w]]

ConnectSucceedsQuietly ==                                   \* mutant
    /\ at = "connecting"
    /\ forward[port[hand]] \in plugged
    /\ Announce
    /\ at' = Resting
    /\ UNCHANGED <<adbVars, events, stopVars, port, hand, logged, wait>>

ConnectSucceeds ==
    /\ at = "connecting"
    /\ forward[port[hand]] \in plugged
    /\ Announce
    /\ Wake
    /\ at' = Resting
    /\ UNCHANGED <<adbVars, events, stopVars, port, hand, logged>>

-----------------------------------------------------------------------------
(* _handle_detach                                                          *)

Unknown(s) ==
    /\ s \notin registry
    /\ UNCHANGED <<deviceVars, at, hand>>

BeginDetachNoPop(s) ==                                      \* mutant
    /\ s \in registry
    /\ indexed' = indexed \ {s}
    /\ at' = "closing"
    /\ hand' = s
    /\ UNCHANGED <<registry, open, told>>

BeginDetach(s) ==
    /\ s \in registry
    /\ registry' = registry \ {s}
    /\ indexed' = indexed \ {s}
    /\ at' = "closing"
    /\ hand' = s
    /\ UNCHANGED <<open, told>>

HandleDetach(s) ==
    /\ Unknown(s) \/ BeginDetach(s)
    /\ UNCHANGED <<adbVars, stopVars, port, logged, wait>>

(* connection.close(): the supervisor has ended, the socket is next.       *)
SupervisorEnds ==
    /\ at = "closing"
    /\ open' = open \ {hand}
    /\ at' = "hanging up"
    /\ UNCHANGED <<adbVars, events, stopVars, registry, indexed, told, port, hand,
                   logged, wait>>

HungUpReleases ==                                           \* mutant
    /\ at = "hanging up"
    /\ at' = "removing"
    /\ Release(hand)
    /\ UNCHANGED <<adbVars, events, stopVars, deviceVars, hand, logged, wait>>

HungUp ==
    /\ at = "hanging up"
    /\ at' = "removing"
    /\ UNCHANGED <<adbVars, events, stopVars, deviceVars, port, hand, logged, wait>>

(* remove_forward returns or raises; either way the port is released.      *)
ForwardRemoved ==
    /\ at = "removing"
    /\ \/ forward' = [forward EXCEPT ![port[hand]] = None]
       \/ UNCHANGED forward
    /\ Release(hand)
    /\ told' = told \ {hand}
    /\ at' = Resting
    /\ UNCHANGED <<plugged, tracking, events, stopVars, registry, indexed, open,
                   hand, logged, wait>>

-----------------------------------------------------------------------------
(* _watch and the queue of AdbWatcher                                      *)

TakeEvent ==
    /\ at = "idle"
    /\ events # <<>>
    /\ LET e == Head(events)
       IN  IF e.present THEN HandleAttach(e.serial) ELSE HandleDetach(e.serial)
    /\ events' = Tail(events)

(* The queue ends with the sentinel of a thread that lost the adb server.  *)
WatchEnds ==
    /\ at = "idle"
    /\ events = <<>>
    /\ ~ tracking
    /\ at' = "ended"
    /\ UNCHANGED <<adbVars, events, stopVars, deviceVars, port, hand, logged, wait>>

Report(s, present) ==
    events' = IF tracking THEN Append(events, [serial |-> s, present |-> present])
                          ELSE events

Plug(s) ==
    /\ s \notin plugged
    /\ tracking => Len(events) < MaxEvents
    /\ plugged' = plugged \cup {s}
    /\ Report(s, TRUE)
    /\ UNCHANGED <<tracking, forward, logged, stopVars, deviceVars, port, at, hand, wait>>

(* adb may drop the forwards of a device that went away.                   *)
Unplug(s) ==
    /\ s \in plugged
    /\ tracking => Len(events) < MaxEvents
    /\ plugged' = plugged \ {s}
    /\ Report(s, FALSE)
    /\ \/ UNCHANGED forward
       \/ forward' = [p \in Ports |-> IF forward[p] = s THEN None ELSE forward[p]]
    /\ logged' = logged \ {s}
    /\ UNCHANGED <<tracking, stopVars, deviceVars, port, at, hand, wait>>

TrackingEnds ==
    /\ tracking
    /\ tracking' = FALSE
    /\ UNCHANGED <<plugged, forward, events, stopVars, deviceVars, port, at, hand,
                   logged, wait>>

-----------------------------------------------------------------------------
(* wait_ready: clear the signal, compare, sleep - without an await between *)

Missing(present) == present \ registry
Settle(w, present) ==
    wait' = [wait EXCEPT ![w] = IF Missing(present) = {} THEN AtRest
                                ELSE [state |-> "asleep", missing |-> present]]

WaitReady(w) ==
    /\ wait[w].state = "off"
    /\ Settle(w, plugged)
    /\ UNCHANGED <<adbVars, events, stopVars, deviceVars, port, at, hand, logged>>

Rechecks(w) ==
    /\ wait[w].state = "woken"
    /\ Settle(w, wait[w].missing)
    /\ UNCHANGED <<adbVars, events, stopVars, deviceVars, port, at, hand, logged>>

ReadyTimeout(w) ==
    /\ wait[w].state # "off"
    /\ wait' = [wait EXCEPT ![w] = AtRest]
    /\ UNCHANGED <<adbVars, events, stopVars, deviceVars, port, at, hand, logged>>

-----------------------------------------------------------------------------
(* stop()                                                                  *)

InFlight ==
    CASE at = "forwarding" ->
            {[op |-> "forward", serial |-> hand, port |-> port[hand]]}
      [] at = "removing" ->
            {[op |-> "remove", serial |-> hand, port |-> port[hand]]}
      [] OTHER -> {}

(* The watch task is cancelled where it stands.  A thread that runs an adb *)
(* call is not stopped by that; and close() takes the cancellation for the *)
(* supervisor's own, so that the handler goes on, and the watch with it.   *)
StopCancels ==
    /\ phase = "running"
    /\ phase' = "stopping"
    /\ at' = IF at = "closing" THEN "closing" ELSE "ended"
    /\ orphans' = orphans \cup InFlight
    /\ UNCHANGED <<adbVars, events, deviceVars, port, hand, todo, logged, wait>>

StopSweepsNothing ==                                        \* mutant
    /\ phase = "stopping"
    /\ at = "ended"
    /\ phase' = "clearing"
    /\ todo' = {}
    /\ UNCHANGED <<adbVars, events, orphans, deviceVars, port, at, hand, logged, wait>>
StopSweeps ==
    /\ phase = "stopping"
    /\ at = "ended"
    /\ phase' = "clearing"
    /\ todo' = registry
    /\ UNCHANGED <<adbVars, events, orphans, deviceVars, port, at, hand, logged, wait>>

StopDetaches(s) ==
    /\ phase = "clearing"
    /\ at = "ended"
    /\ s \in todo
    /\ todo' = todo \ {s}
    /\ BeginDetach(s)
    /\ UNCHANGED <<adbVars, events, phase, orphans, port, logged, wait>>

StopReturns ==
    /\ phase = "clearing"
    /\ at = "ended"
    /\ todo = {}
    /\ phase' = "stopped"
    /\ UNCHANGED <<adbVars, events, orphans, todo, deviceVars, port, at, hand, logged,
                   wait>>

OrphanEnds(o) ==
    /\ orphans' = orphans \ {o}
    /\ \/ UNCHANGED forward
       \/ /\ o.op = "forward"
          /\ o.serial \in plugged
          /\ forward' = [forward EXCEPT ![o.port] = o.serial]
       \/ /\ o.op = "remove"
          /\ forward' = [forward EXCEPT ![o.port] = None]
    /\ UNCHANGED <<plugged, tracking, events, phase, todo, deviceVars, port, at, hand,
                   logged, wait>>

-----------------------------------------------------------------------------
(* start() has created the watch task; the devices present by then are     *)
(* reported like those that come later.                                    *)
Init ==
    /\ plugged = {}
    /\ tracking = TRUE
    /\ events = <<>>
    /\ phase = "running"
    /\ at = "idle"
    /\ hand = None
    /\ todo = {}
    /\ registry = {} /\ indexed = {} /\ open = {} /\ told = {} /\ logged = {}
    /\ port = [s \in Serials |-> None]
    /\ forward = [p \in Ports |-> None]
    /\ orphans = {}
    /\ wait = [w \in Waiters |-> AtRest]

Handler ==
    \/ TakeEvent \/ WatchEnds
    \/ ForwardSucceeds \/ ForwardFails \/ ConnectSucceeds \/ ConnectFails
    \/ SupervisorEnds \/ HungUp \/ ForwardRemoved
Stop ==
    \/ StopCancels \/ StopSweeps \/ StopReturns
    \/ \E s \in Serials : StopDetaches(s)
Ready == \E w \in Waiters : WaitReady(w) \/ Rechecks(w) \/ ReadyTimeout(w)
Environment ==
    \/ \E s \in Serials : Plug(s) \/ Unplug(s)
    \/ TrackingEnds
    \/ \E o \in orphans : OrphanEnds(o)

Next == Handler \/ Stop \/ Ready \/ Environment

(* The loop runs what is ready, an attempt to connect has a deadline, and  *)
(* adb calls return (nothing in the code bounds them).                     *)
Spec == Init /\ [][Next]_vars
FairSpec ==
    /\ Spec
    /\ WF_vars(Handler)
    /\ WF_vars(StopSweeps \/ StopReturns \/ \E s \in Serials : StopDetaches(s))

-----------------------------------------------------------------------------
(* Properties                                                              *)

TypeOK ==
    /\ plugged \subseteq Serials
    /\ tracking \in BOOLEAN
    /\ events \in Seq(Event)
    /\ phase \in {"running", "stopping", "clearing", "stopped"}
    /\ at \in {"idle", "forwarding", "connecting", "closing", "hanging up",
               "removing", "ended"}
    /\ hand \in Serials \cup {None}
    /\ todo \subseteq Serials
    /\ registry \subseteq Serials /\ indexed \subseteq Serials
    /\ open \subseteq Serials /\ told \subseteq Serials /\ logged \subseteq Serials
    /\ port \in [Serials -> Ports \cup {None}]
    /\ forward \in [Ports -> Serials \cup {None}]
    /\ orphans \subseteq AdbCall
    /\ wait \in [Waiters -> [state : {"off", "asleep", "woken"},
                             missing : SUBSET Serials]]

(* A supervisor that reconnects dials its own device or a closed port,     *)
(* never another device: it ends before its port can be given away.        *)
NoMisdial ==
    \A s \in open : port[s] # None /\ forward[port[s]] \in {s, None}

(* A registered device can be used: unless news of it is still queued, the *)
(* forward its connection dials is there.                                  *)
AttachedUsable ==
    \A s \in registry \cap plugged :
        tracking /\ (\A k \in 1..Len(events) : events[k].serial # s) =>
            forward[port[s]] = s

(* Until stop() is called, every path out of a handler leaves ports,       *)
(* connections, the tag index and the listeners' view with the registered  *)
(* devices only.                                                           *)
NothingStray ==
    phase = "running" =>
        LET handled == IF at \in {"idle", "ended"} THEN {} ELSE {hand}
        IN  /\ indexed = registry
            /\ {s \in Serials : port[s] # None} \cup open \cup told
                    \subseteq registry \cup handled
            /\ registry \subseteq open \cap told

(* wait_ready does not sleep through the last registration it waits for.   *)
NoLostWakeup ==
    \A w \in Waiters : wait[w].state = "asleep" =>
        \E s \in wait[w].missing : s \notin registry

(* stop() leaves no device registered and no connection that could         *)
(* reconnect, even one that was attached after stop() began.               *)
StopEmpties == phase = "stopped" => registry = {} /\ open = {}

Watching == tracking /\ phase = "running"

(* A device that stays away is detached.                                   *)
Departs ==
    \A s \in Serials :
        <>[](s \notin plugged) => <>[](s \notin registry) \/ <>(~ Watching)

(* A device that stays is attached, unless its own attach failed: another  *)
(* device's failure does not end the watch.                                *)
Arrives ==
    \A s \in Serials :
        <>[](s \in plugged) =>
            <>[](s \in registry) \/ <>[](s \in logged) \/ <>(~ Watching)

(* docs/architecture.md: "Clean cancellation. close()/stop() cancel and    *)
(* await every task."                                                      *)
StopEnds == phase = "stopping" ~> phase = "stopped"

(* FleetController.stop: "Stop watching and tear down every device,        *)
(* forward, and port."                                                     *)
AllTornDown ==
    phase = "stopped" /\ orphans = {} =>
        /\ \A p \in Ports : forward[p] = None
        /\ \A s \in Serials : port[s] = None
=============================================================================
