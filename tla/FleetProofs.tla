----------------------------- MODULE FleetProofs -----------------------------
(***************************************************************************)
(* What Fleet promises for any devices, ports and waiters: which device a  *)
(* port reaches, what the handlers leave behind, what stop() leaves open,  *)
(* and that no wait_ready sleeps through a registration.                   *)
(***************************************************************************)
EXTENDS Fleet, SequenceTheorems, TLAPS

Busy == at \in {"forwarding", "connecting", "closing", "hanging up", "removing"}
Attaching == at \in {"forwarding", "connecting"}
Detaching == at \in {"closing", "hanging up", "removing"}

(* The device a handler is about is not registered, or no longer; it holds *)
(* its port until the handler is done, as a registered device does.  One   *)
(* that is being attached has not been announced yet.                      *)
HandInv ==
    /\ Busy => hand \in Serials /\ hand \notin registry /\ port[hand] # None
    /\ \A s \in registry : port[s] # None
    /\ phase = "running" /\ Attaching => hand \notin told

(* No port is given to two devices.                                        *)
PortInv == \A s, t \in Serials : port[s] # None /\ port[s] = port[t] => s = t

(* The supervisors that run are those of the registered devices and that   *)
(* of the one which is being closed.                                       *)
OpenInv ==
    /\ registry \subseteq open
    /\ \A s \in open : s \in registry \/ (at = "closing" /\ s = hand)

(* Behind the port of a connection there is its device, or nothing.        *)
DialInv ==
    /\ \A s \in open : forward[port[s]] \in {s, None}
    /\ at = "connecting" => forward[port[hand]] \in {hand, None}

(* An adb call that stop() left behind is about a port whose device still  *)
(* holds it, is not registered and is not being detached.                  *)
OrphanInv ==
    \A o \in orphans :
        /\ phase # "running"
        /\ port[o.serial] = o.port /\ o.serial \notin registry
        /\ at = "ended" \/ (phase = "clearing" /\ Detaching /\ hand # o.serial)

(* Once the watch task has ended, nothing is attached; what stop() has not *)
(* yet detached is on its list.                                            *)
StopInv ==
    /\ phase = "clearing" => registry \subseteq todo /\ (at = "ended" \/ Detaching)
    /\ phase = "stopped" => registry = {} /\ at = "ended"

(* A device that is attached, or about to be.                              *)
Attached(s) == s \in registry \/ (Attaching /\ s = hand)
Silent(s, i, j) == \A m \in 1..Len(events) : i < m /\ m < j => events[m].serial # s
Mute(s) == \A m \in 1..Len(events) : events[m].serial # s

(* The news of a device alternate; the last of it is how the device is,    *)
(* and the first of it, for one that is attached, that it is gone.         *)
NewsInv ==
    /\ \A i, j \in 1..Len(events) :
          i < j /\ events[i].serial = events[j].serial /\ Silent(events[i].serial, i, j)
              => ~ (events[i].present <=> events[j].present)
    /\ tracking =>
          \A i \in 1..Len(events) :
             Silent(events[i].serial, i, Len(events) + 1) =>
                 (events[i].present <=> events[i].serial \in plugged)
    /\ \A j \in 1..Len(events) :
          Attached(events[j].serial) /\ Silent(events[j].serial, 0, j) =>
              ~ events[j].present
    /\ tracking => \A s \in Serials : Attached(s) /\ Mute(s) => s \in plugged

UsableInv ==
    tracking => \A s \in registry : s \in plugged /\ Mute(s) => forward[port[s]] = s

IInv ==
    /\ TypeOK
    /\ HandInv /\ PortInv /\ OpenInv /\ DialInv /\ OrphanInv /\ StopInv
    /\ NewsInv /\ UsableInv
    /\ NothingStray /\ NoLostWakeup

-----------------------------------------------------------------------------
(* Types.                                                                  *)

(* What the watch task does with the next event.                           *)
LEMMA TakeEventIs ==
  ASSUME TypeOK, TakeEvent
  PROVE  \E s \in Serials :
            /\ at = "idle" /\ 1 \in 1..Len(events) /\ events[1].serial = s
            /\ events' = Tail(events)
            /\ \/ events[1].present /\ (Known(s) \/ NoPortLeft(s) \/ BeginAttach(s))
               \/ /\ ~ events[1].present
                  /\ Unknown(s) \/ BeginDetach(s)
                  /\ UNCHANGED <<adbVars, stopVars, port, logged, wait>>
<1>1. events \in Seq(Event) /\ events # <<>>
  BY DEF TypeOK, TakeEvent
<1>2. Head(events) = events[1] /\ 1 \in 1..Len(events) /\ events[1] \in Event
  BY <1>1
<1>3. events[1].serial \in Serials
  BY <1>2 DEF Event
<1> QED
  BY <1>2, <1>3 DEF TakeEvent, HandleAttach, HandleDetach

(* The watch takes the first event and leaves the others in their order.   *)
LEMMA TailEvents ==
  ASSUME TypeOK, events # <<>>
  PROVE  /\ Tail(events) \in Seq(Event)
         /\ Len(Tail(events)) = Len(events) - 1
         /\ \A k \in 1..Len(events) - 1 : Tail(events)[k] = events[k + 1]
  BY HeadTailProperties DEF TypeOK

(* The adb call that a handler awaits is about its own device and port.    *)
LEMMA InFlightIs ==
  ASSUME TypeOK, HandInv
  PROVE  \A o \in InFlight :
            /\ o \in AdbCall /\ at \in {"forwarding", "removing"}
            /\ o.serial = hand /\ o.port = port[hand]
<1>1. CASE at = "forwarding"
  <2>1. InFlight = {[op |-> "forward", serial |-> hand, port |-> port[hand]]}
    BY <1>1 DEF InFlight
  <2>2. hand \in Serials /\ port[hand] \in Ports
    BY <1>1 DEF HandInv, Busy, Attaching, TypeOK
  <2> QED
    BY <1>1, <2>1, <2>2 DEF AdbCall
<1>2. CASE at = "removing"
  <2>1. InFlight = {[op |-> "remove", serial |-> hand, port |-> port[hand]]}
    BY <1>2 DEF InFlight
  <2>2. hand \in Serials /\ port[hand] \in Ports
    BY <1>2 DEF HandInv, Busy, Attaching, TypeOK
  <2> QED
    BY <1>2, <2>1, <2>2 DEF AdbCall
<1>3. CASE at \notin {"forwarding", "removing"}
  <2>1. InFlight = {}
    BY <1>3 DEF InFlight
  <2> QED
    BY <2>1
<1> QED
  BY <1>1, <1>2, <1>3

(* A wait_ready sleeps only after it has found a device missing.           *)
Waits == [state : {"off", "asleep", "woken"}, missing : SUBSET Serials]

(* A waiter goes to sleep only if a device it waits for is missing.        *)
LEMMA WaitIs ==
  ASSUME TypeOK, NEW w \in Waiters, WaitReady(w) \/ Rechecks(w) \/ ReadyTimeout(w)
  PROVE  \E r \in Waits :
            /\ wait' = [wait EXCEPT ![w] = r]
            /\ r.state = "asleep" => \E s \in r.missing : s \notin registry
<1>1. ASSUME NEW present \in SUBSET Serials, Settle(w, present)
      PROVE  \E r \in Waits :
                /\ wait' = [wait EXCEPT ![w] = r]
                /\ r.state = "asleep" => \E s \in r.missing : s \notin registry
  <2>1. CASE Missing(present) = {}
    <3>1. wait' = [wait EXCEPT ![w] = AtRest]
      BY <1>1, <2>1 DEF Settle
    <3>2. AtRest \in Waits /\ AtRest.state = "off"
      BY DEF AtRest, Waits
    <3> QED
      BY <3>1, <3>2
  <2>2. CASE Missing(present) # {}
    <3> DEFINE r == [state |-> "asleep", missing |-> present]
    <3>1. wait' = [wait EXCEPT ![w] = r]
      BY <1>1, <2>2 DEF Settle
    <3>2. r \in Waits
      BY DEF Waits
    <3>3. \E s \in r.missing : s \notin registry
      BY <2>2 DEF Missing
    <3> QED
      BY <3>1, <3>2, <3>3
  <2> QED
    BY <2>1, <2>2
<1>2. CASE WaitReady(w)
  BY <1>1, <1>2 DEF WaitReady, TypeOK
<1>3. CASE Rechecks(w)
  <2>1. wait[w].missing \in SUBSET Serials
    BY DEF TypeOK
  <2> QED
    BY <1>1, <1>3, <2>1 DEF Rechecks
<1>4. CASE ReadyTimeout(w)
  <2>1. AtRest \in Waits /\ AtRest.state = "off"
    BY DEF AtRest, Waits
  <2> QED
    BY <1>4, <2>1 DEF ReadyTimeout
<1> QED
  BY <1>2, <1>3, <1>4

(* Every action keeps the types; HandInv says which device is in hand.     *)
LEMMA TypeNext == TypeOK /\ HandInv /\ [Next]_vars => TypeOK'
<1> SUFFICES ASSUME TypeOK, HandInv, [Next]_vars PROVE TypeOK'
  OBVIOUS
<1>1. CASE TakeEvent
  <2>1. events' \in Seq(Event)
    BY <1>1, TailEvents DEF TakeEvent
  <2>2. PICK s \in Serials :
            \/ Known(s) \/ NoPortLeft(s) \/ BeginAttach(s)
            \/ /\ Unknown(s) \/ BeginDetach(s)
               /\ UNCHANGED <<adbVars, stopVars, port, logged, wait>>
    BY <1>1, TakeEventIs
  <2>3. CASE Known(s)
    BY <2>1, <2>3 DEF Known, TypeOK, adbVars, stopVars, deviceVars
  <2>4. CASE NoPortLeft(s)
    BY <2>1, <2>4 DEF NoPortLeft, TypeOK, adbVars, stopVars, deviceVars
  <2>5. CASE BeginAttach(s)
    BY <2>1, <2>5 DEF BeginAttach, TypeOK, adbVars, stopVars, deviceVars
  <2>6. CASE /\ Unknown(s) \/ BeginDetach(s)
             /\ UNCHANGED <<adbVars, stopVars, port, logged, wait>>
    BY <2>1, <2>6 DEF Unknown, BeginDetach, TypeOK, adbVars, stopVars, deviceVars
  <2> QED
    BY <2>2, <2>3, <2>4, <2>5, <2>6
<1>2. CASE WatchEnds
  BY <1>2 DEF WatchEnds, TypeOK, adbVars, stopVars, deviceVars
<1>3. CASE ForwardSucceeds
  <2>1. hand \in Serials /\ port[hand] \in Ports
    BY <1>3 DEF ForwardSucceeds, HandInv, Busy, Attaching, TypeOK
  <2> QED
    BY <1>3, <2>1 DEF ForwardSucceeds, TypeOK, stopVars, deviceVars
<1>4. CASE ForwardFails \/ ConnectFails
  BY <1>4 DEF ForwardFails, ConnectFails, GiveUp, Release, Resting, TypeOK, adbVars,
              stopVars, deviceVars
<1>5. CASE ConnectSucceeds
  <2>1. hand \in Serials
    BY <1>5 DEF ConnectSucceeds, HandInv, Busy, Attaching
  <2>2. wait' \in [Waiters -> [state : {"off", "asleep", "woken"}, missing : SUBSET Serials]]
    BY <1>5 DEF ConnectSucceeds, Wake, TypeOK
  <2> QED
    BY <1>5, <2>1, <2>2 DEF ConnectSucceeds, Announce, Resting, TypeOK, adbVars, stopVars
<1>6. CASE SupervisorEnds \/ HungUp
  BY <1>6 DEF SupervisorEnds, HungUp, TypeOK, adbVars, stopVars, deviceVars
<1>7. CASE ForwardRemoved
  <2>1. forward' \in [Ports -> Serials \cup {None}]
    BY <1>7 DEF ForwardRemoved, TypeOK
  <2> QED
    BY <1>7, <2>1 DEF ForwardRemoved, Release, Resting, TypeOK, stopVars
<1>8. CASE StopCancels
  <2>1. InFlight \subseteq AdbCall
    BY InFlightIs DEF AdbCall
  <2> QED
    BY <1>8, <2>1 DEF StopCancels, TypeOK, adbVars, deviceVars
<1>9. CASE StopSweeps \/ StopReturns
  BY <1>9 DEF StopSweeps, StopReturns, TypeOK, adbVars, deviceVars
<1>10. ASSUME NEW s \in Serials, StopDetaches(s) PROVE TypeOK'
  BY <1>10 DEF StopDetaches, BeginDetach, TypeOK, adbVars
<1>11. ASSUME NEW w \in Waiters, WaitReady(w) \/ Rechecks(w) \/ ReadyTimeout(w)
       PROVE  TypeOK'
  <2>1. PICK r \in Waits : wait' = [wait EXCEPT ![w] = r]
    BY <1>11, WaitIs
  <2>2. wait' \in [Waiters -> Waits]
    BY <2>1 DEF TypeOK, Waits
  <2> QED
    BY <1>11, <2>2 DEF WaitReady, Rechecks, ReadyTimeout, TypeOK, Waits, adbVars, stopVars,
                       deviceVars
<1>12. ASSUME NEW s \in Serials, Plug(s) PROVE TypeOK'
  <2>1. events' \in Seq(Event)
    BY <1>12, AppendProperties DEF Plug, Report, Event, TypeOK
  <2> QED
    BY <1>12, <2>1 DEF Plug, TypeOK, stopVars, deviceVars
<1>13. ASSUME NEW s \in Serials, Unplug(s) PROVE TypeOK'
  <2>1. events' \in Seq(Event)
    BY <1>13, AppendProperties DEF Unplug, Report, Event, TypeOK
  <2>2. forward' \in [Ports -> Serials \cup {None}]
    BY <1>13 DEF Unplug, TypeOK
  <2> QED
    BY <1>13, <2>1, <2>2 DEF Unplug, TypeOK, stopVars, deviceVars
<1>14. CASE TrackingEnds
  BY <1>14 DEF TrackingEnds, TypeOK, stopVars, deviceVars
<1>15. ASSUME NEW o \in orphans, OrphanEnds(o) PROVE TypeOK'
  <2>1. forward' \in [Ports -> Serials \cup {None}]
    BY <1>15 DEF OrphanEnds, AdbCall, TypeOK
  <2> QED
    BY <1>15, <2>1 DEF OrphanEnds, TypeOK, deviceVars
<1>16. CASE UNCHANGED vars
  BY <1>16 DEF vars, TypeOK
<1> QED
  BY <1>1, <1>2, <1>3, <1>4, <1>5, <1>6, <1>7, <1>8, <1>9, <1>10, <1>11, <1>12, <1>13,
     <1>14, <1>15, <1>16 DEF Next, Handler, Stop, Ready, Environment
-----------------------------------------------------------------------------
(* Devices, ports and connections.                                         *)

(* Everything but the news, which only the queue is about.                 *)
DevInv == HandInv /\ PortInv /\ OpenInv /\ DialInv /\ OrphanInv /\ StopInv /\ NothingStray

devVars == <<phase, at, hand, todo, registry, indexed, port, forward, open, told, orphans>>

(* A step that touches no device and no port.                              *)
LEMMA DevFrame == DevInv /\ UNCHANGED devVars => DevInv'
  BY DEF devVars, DevInv, HandInv, Busy, Attaching, PortInv, OpenInv, DialInv, OrphanInv, Detaching,
         StopInv, NothingStray

(* An attach begins: a port that nobody has, in the hand of the handler.   *)
LEMMA AttachInv ==
  ASSUME TypeOK, DevInv, at = "idle", NEW s \in Serials, BeginAttach(s)
  PROVE  DevInv'
<1>1. PICK p \in Ports : /\ p = port[s] \/ (port[s] = None /\ \A t \in Serials : port[t] # p)
                        /\ port' = [port EXCEPT ![s] = p]
  <2>1. ASSUME NEW p \in Ports \ Used, NEW t \in Serials PROVE port[t] # p
    BY FleetAssumption DEF Used, Ports
  <2> QED
    BY <2>1 DEF BeginAttach, Acquire
<1>2. /\ s \notin registry /\ at' = "forwarding" /\ hand' = s
      /\ UNCHANGED <<phase, todo, registry, indexed, forward, open, told, orphans>>
  BY DEF BeginAttach, adbVars, stopVars, deviceVars
<1>3. p # None
  BY FleetAssumption DEF Ports
<1>4. port' \in [Serials -> Ports \cup {None}] /\ port'[s] = p
      /\ \A t \in Serials : t # s => port'[t] = port[t]
  BY <1>1 DEF TypeOK
<1>5. HandInv'
  <2>1. phase = "running" => s \notin told
    BY <1>2 DEF DevInv, NothingStray
  <2> QED
    BY <1>2, <1>3, <1>4, <2>1 DEF DevInv, HandInv, Busy, Attaching, TypeOK
<1>6. PortInv'
  BY <1>1, <1>3, <1>4 DEF DevInv, PortInv
<1>7. OpenInv' /\ open = registry
  BY <1>2 DEF DevInv, OpenInv
<1>8. DialInv'
  BY <1>2, <1>4, <1>7 DEF DevInv, DialInv, TypeOK
<1>9. orphans = {}
  BY DEF DevInv, OrphanInv, Detaching
<1>10. OrphanInv' /\ StopInv'
  BY <1>2, <1>9 DEF DevInv, OrphanInv, StopInv, Detaching
<1>11. NothingStray'
  BY <1>2, <1>4 DEF DevInv, NothingStray
<1> QED
  BY <1>5, <1>6, <1>7, <1>8, <1>10, <1>11 DEF DevInv

(* An attach fails and gives its port back.                                *)
LEMMA GiveUpInv ==
  ASSUME TypeOK, DevInv, Attaching, GiveUp
  PROVE  DevInv'
<1>1. hand \in Serials /\ hand \notin registry /\ phase # "clearing" /\ phase # "stopped"
  BY DEF Attaching, Detaching, DevInv, HandInv, Busy, StopInv
<1>2. /\ at' = "idle"
      /\ UNCHANGED <<phase, todo, hand, registry, indexed, forward, open, told, orphans>>
  BY <1>1 DEF GiveUp, Resting, adbVars, stopVars, deviceVars
<1>3. port'[hand] = None /\ \A t \in Serials : t # hand => port'[t] = port[t]
  BY <1>1 DEF GiveUp, Release, TypeOK
<1>4. HandInv' /\ OpenInv'
  BY <1>1, <1>2, <1>3 DEF DevInv, HandInv, OpenInv, Busy, Attaching, TypeOK
<1>5. PortInv'
  BY <1>3 DEF DevInv, PortInv
<1>6. DialInv'
  BY <1>1, <1>2, <1>3 DEF DevInv, DialInv, OpenInv, Attaching, TypeOK
<1>7. orphans = {}
  BY DEF DevInv, OrphanInv, Detaching, Attaching
<1>8. OrphanInv' /\ StopInv'
  BY <1>1, <1>2, <1>7 DEF DevInv, OrphanInv, StopInv
<1>9. NothingStray'
  <2> SUFFICES ASSUME phase = "running"
               PROVE  /\ indexed = registry
                      /\ \A s \in Serials : port'[s] # None => s \in registry
                      /\ open \subseteq registry /\ told \subseteq registry
                      /\ registry \subseteq open \cap told
    BY <1>2 DEF NothingStray
  <2>1. /\ indexed = registry /\ registry \subseteq open \cap told
        /\ \A s \in Serials : port[s] # None => s \in registry \cup {hand}
        /\ open \cup told \subseteq registry \cup {hand}
    BY DEF DevInv, NothingStray, Attaching
  <2>2. hand \notin open /\ hand \notin told
    BY <1>1 DEF DevInv, HandInv, OpenInv, Attaching
  <2> QED
    BY <1>3, <2>1, <2>2
<1> QED
  BY <1>4, <1>5, <1>6, <1>8, <1>9 DEF DevInv

(* An attach succeeds: connection, tag, registry and announcement at once. *)
LEMMA ConnectInv ==
  ASSUME TypeOK, DevInv, ConnectSucceeds
  PROVE  DevInv'
<1>1. /\ at = "connecting" /\ hand \in Serials /\ hand \notin registry
      /\ phase # "clearing" /\ phase # "stopped" /\ port[hand] # None
  BY DEF ConnectSucceeds, Detaching, DevInv, HandInv, Busy, Attaching, StopInv
<1>2. /\ at' = "idle"
      /\ registry' = registry \cup {hand} /\ indexed' = indexed \cup {hand}
      /\ open' = open \cup {hand} /\ told' = told \cup {hand}
      /\ UNCHANGED <<phase, todo, hand, port, forward, orphans>>
  BY <1>1 DEF ConnectSucceeds, Announce, Resting, adbVars, stopVars
<1>3. HandInv' /\ OpenInv' /\ PortInv' /\ DialInv'
  BY <1>1, <1>2 DEF DevInv, HandInv, OpenInv, Busy, Attaching, PortInv, DialInv
<1>4. orphans = {}
  BY <1>1 DEF DevInv, OrphanInv, Detaching
<1>5. OrphanInv' /\ StopInv'
  BY <1>1, <1>2, <1>4 DEF DevInv, OrphanInv, StopInv
<1>6. NothingStray'
  BY <1>1, <1>2 DEF DevInv, NothingStray
<1> QED
  BY <1>3, <1>5, <1>6 DEF DevInv

(* A detach begins, of the watch or of stop().                             *)
LEMMA DetachInv ==
  ASSUME TypeOK, DevInv, NEW s \in Serials, BeginDetach(s),
         UNCHANGED <<phase, port, forward, orphans>>,
         \/ at = "idle" /\ UNCHANGED todo
         \/ phase = "clearing" /\ at = "ended" /\ todo' = todo \ {s}
  PROVE  DevInv'
<1>1. /\ s \in registry /\ at' = "closing" /\ hand' = s /\ port[s] # None
      /\ registry' = registry \ {s} /\ indexed' = indexed \ {s}
      /\ UNCHANGED <<open, told>>
  BY DEF BeginDetach, DevInv, HandInv
<1>2. HandInv' /\ OpenInv' /\ PortInv' /\ DialInv'
  BY <1>1 DEF DevInv, HandInv, OpenInv, Busy, Attaching, PortInv, DialInv
<1>3. OrphanInv'
  BY <1>1 DEF DevInv, OrphanInv, Detaching
<1>4. StopInv'
  BY <1>1 DEF DevInv, StopInv, Detaching
<1>5. NothingStray'
  BY <1>1 DEF DevInv, NothingStray
<1> QED
  BY <1>2, <1>3, <1>4, <1>5 DEF DevInv

(* A detach ends, and with it the claim on the port.                       *)
LEMMA RemovedInv ==
  ASSUME TypeOK, DevInv, ForwardRemoved
  PROVE  DevInv'
<1>1. hand \in Serials /\ hand \notin registry /\ at = "removing" /\ port[hand] # None
  BY DEF ForwardRemoved, DevInv, HandInv, Busy, Attaching
<1>2. /\ at' = Resting /\ told' = told \ {hand}
      /\ UNCHANGED <<phase, todo, hand, registry, indexed, open, orphans>>
  BY DEF ForwardRemoved, stopVars
<1>3. port'[hand] = None /\ \A t \in Serials : t # hand => port'[t] = port[t]
  BY <1>1 DEF ForwardRemoved, Release, TypeOK
<1>4. \A p \in Ports : forward'[p] \in {forward[p], None}
  BY DEF ForwardRemoved, TypeOK
<1>5. HandInv' /\ OpenInv'
  BY <1>1, <1>2, <1>3 DEF DevInv, HandInv, OpenInv, Busy, Attaching, Resting, TypeOK
<1>6. PortInv'
  BY <1>3 DEF DevInv, PortInv
<1>7. DialInv'
  <2>1. ASSUME NEW s \in open PROVE forward'[port'[s]] \in {s, None}
    <3>1. s \in registry /\ port'[s] = port[s] /\ port[s] \in Ports
      BY <1>1, <1>3, <2>1 DEF DevInv, OpenInv, HandInv, TypeOK
    <3> QED
      BY <1>4, <2>1, <3>1 DEF DevInv, DialInv
  <2> QED
    BY <1>2, <2>1 DEF DialInv, Resting
<1>8. OrphanInv'
  BY <1>1, <1>2, <1>3 DEF DevInv, OrphanInv, Detaching, Resting, TypeOK, AdbCall
<1>9. StopInv'
  BY <1>1, <1>2 DEF DevInv, StopInv, Resting
<1>10. NothingStray'
  BY <1>1, <1>2, <1>3 DEF DevInv, NothingStray, Resting, OpenInv
<1> QED
  BY <1>5, <1>6, <1>7, <1>8, <1>9, <1>10 DEF DevInv

(* An adb call that nobody awaits any more ends, with its effect or none.  *)
LEMMA OrphanEndsInv ==
  ASSUME TypeOK, DevInv, NEW o \in orphans, OrphanEnds(o)
  PROVE  DevInv'
<1>1. /\ orphans' = orphans \ {o}
      /\ UNCHANGED <<phase, at, hand, todo, registry, indexed, port, open, told>>
  BY DEF OrphanEnds, deviceVars
<1>2. \A p \in Ports : p # o.port => forward'[p] = forward[p]
  BY DEF OrphanEnds, TypeOK, AdbCall
<1>3. /\ o.serial \in Serials /\ port[o.serial] = o.port /\ o.serial \notin open
      /\ at # "connecting" /\ o.port # None
  <2>1. o \in AdbCall
    BY DEF TypeOK
  <2>2. o.port # None
    BY <2>1, FleetAssumption DEF AdbCall, Ports
  <2>3. port[o.serial] = o.port /\ o.serial \notin registry
    BY DEF DevInv, OrphanInv
  <2>4. at = "ended" \/ (Detaching /\ hand # o.serial)
    BY DEF DevInv, OrphanInv
  <2> QED
    BY <2>1, <2>2, <2>3, <2>4 DEF AdbCall, DevInv, OpenInv, Detaching
<1>4. DialInv'
  <2>1. ASSUME NEW s \in open PROVE forward[port[s]]' \in {s, None}
    <3>1. port[s] \in Ports /\ port[s] # o.port
      BY <1>3 DEF DevInv, PortInv, OpenInv, HandInv, TypeOK, Busy
    <3> QED
      BY <1>1, <1>2, <3>1 DEF DevInv, DialInv
  <2> QED
    BY <1>1, <1>3, <2>1 DEF DialInv
<1> QED
  BY <1>1, <1>4
  DEF DevInv, HandInv, Busy, Attaching, PortInv, OpenInv, OrphanInv, Detaching, StopInv, NothingStray

(* Every action keeps devices, ports and forwards in order.                *)
LEMMA DevNext == TypeOK /\ DevInv /\ [Next]_vars => DevInv'
<1> SUFFICES ASSUME TypeOK, DevInv, [Next]_vars PROVE DevInv'
  OBVIOUS
<1>1. CASE TakeEvent
  <2>1. PICK s \in Serials :
            /\ at = "idle"
            /\ \/ Known(s) \/ NoPortLeft(s) \/ BeginAttach(s)
               \/ /\ Unknown(s) \/ BeginDetach(s)
                  /\ UNCHANGED <<adbVars, stopVars, port, logged, wait>>
    BY <1>1, TakeEventIs
  <2>2. CASE Known(s) \/ NoPortLeft(s)
    BY <2>2, DevFrame DEF Known, NoPortLeft, adbVars, stopVars, deviceVars, devVars
  <2>3. CASE BeginAttach(s)
    BY <2>1, <2>3, AttachInv
  <2>4. CASE Unknown(s) /\ UNCHANGED <<adbVars, stopVars, port, logged, wait>>
    BY <2>4, DevFrame DEF Unknown, adbVars, stopVars, deviceVars, devVars
  <2>5. CASE BeginDetach(s) /\ UNCHANGED <<adbVars, stopVars, port, logged, wait>>
    BY <2>1, <2>5, DetachInv DEF adbVars, stopVars
  <2> QED
    BY <2>1, <2>2, <2>3, <2>4, <2>5
<1>2. CASE WatchEnds
  <2>1. /\ at = "idle" /\ at' = "ended"
        /\ UNCHANGED <<phase, hand, todo, registry, indexed, port, forward, open, told,
                        orphans>>
    BY <1>2 DEF WatchEnds, adbVars, stopVars, deviceVars
  <2> QED
    BY <2>1 DEF DevInv, HandInv, Busy, Attaching, PortInv, OpenInv, DialInv, OrphanInv,
                Detaching, StopInv, NothingStray
<1>3. CASE ForwardSucceeds
  <2>1. /\ at = "forwarding" /\ at' = "connecting" /\ hand \in Serials
        /\ forward' = [forward EXCEPT ![port[hand]] = hand] /\ port[hand] \in Ports
        /\ hand \notin registry
        /\ UNCHANGED <<phase, hand, todo, registry, indexed, port, open, told, orphans>>
    BY <1>3 DEF ForwardSucceeds, stopVars, deviceVars, DevInv, HandInv, Busy, TypeOK
  <2>2. \A s \in open : port[s] \in Ports /\ port[s] # port[hand]
    BY <2>1 DEF DevInv, OpenInv, HandInv, PortInv, TypeOK
  <2>3. DialInv'
    BY <2>1, <2>2 DEF DevInv, DialInv, TypeOK
  <2> QED
    BY <2>1, <2>3 DEF DevInv, HandInv, Busy, Attaching, PortInv, OpenInv, OrphanInv,
                Detaching, StopInv, NothingStray
<1>4. CASE ForwardFails \/ ConnectFails
  BY <1>4, GiveUpInv DEF ForwardFails, ConnectFails, Attaching
<1>5. CASE ConnectSucceeds
  BY <1>5, ConnectInv
<1>6. CASE SupervisorEnds
  <2>1. /\ at = "closing" /\ at' = "hanging up" /\ open' = open \ {hand}
        /\ UNCHANGED <<phase, hand, todo, registry, indexed, port, forward, told, orphans>>
    BY <1>6 DEF SupervisorEnds, adbVars, stopVars
  <2> QED
    BY <2>1 DEF DevInv, HandInv, Busy, Attaching, PortInv, OpenInv, DialInv, OrphanInv,
                Detaching, StopInv, NothingStray
<1>7. CASE HungUp
  <2>1. /\ at = "hanging up" /\ at' = "removing"
        /\ UNCHANGED <<phase, hand, todo, registry, indexed, port, forward, open, told,
                        orphans>>
    BY <1>7 DEF HungUp, adbVars, stopVars, deviceVars
  <2> QED
    BY <2>1 DEF DevInv, HandInv, Busy, Attaching, PortInv, OpenInv, DialInv, OrphanInv,
                Detaching, StopInv, NothingStray
<1>8. CASE ForwardRemoved
  BY <1>8, RemovedInv
<1>9. CASE StopCancels
  <2>1. /\ phase = "running" /\ phase' = "stopping"
        /\ at' = IF at = "closing" THEN "closing" ELSE "ended"
        /\ orphans' = orphans \cup InFlight
        /\ UNCHANGED <<hand, todo, registry, indexed, port, forward, open, told>>
    BY <1>9 DEF StopCancels, adbVars, deviceVars
  <2>2. orphans = {}
    BY <2>1 DEF DevInv, OrphanInv
  <2>3. OrphanInv'
    BY <2>1, <2>2, InFlightIs DEF DevInv, OrphanInv, HandInv, Busy
  <2> QED
    BY <2>1, <2>3 DEF DevInv, HandInv, Busy, Attaching, PortInv, OpenInv, DialInv,
                      StopInv, NothingStray
<1>10. CASE StopSweeps \/ StopReturns
  <2>1. /\ at = "ended" /\ at' = "ended"
        /\ \/ phase = "stopping" /\ phase' = "clearing" /\ todo' = registry
           \/ phase = "clearing" /\ phase' = "stopped" /\ todo = {} /\ todo' = todo
        /\ UNCHANGED <<hand, registry, indexed, port, forward, open, told, orphans>>
    BY <1>10 DEF StopSweeps, StopReturns, adbVars, deviceVars
  <2> QED
    BY <2>1 DEF DevInv, HandInv, Busy, Attaching, PortInv, OpenInv, DialInv, OrphanInv,
                Detaching, StopInv, NothingStray
<1>11. ASSUME NEW s \in Serials, StopDetaches(s) PROVE DevInv'
  BY <1>11, DetachInv DEF StopDetaches, adbVars
<1>12. ASSUME NEW w \in Waiters, WaitReady(w) \/ Rechecks(w) \/ ReadyTimeout(w)
       PROVE  DevInv'
  BY <1>12, DevFrame
  DEF WaitReady, Rechecks, ReadyTimeout, adbVars, stopVars, deviceVars, devVars
<1>13. ASSUME NEW s \in Serials, Plug(s) PROVE DevInv'
  BY <1>13, DevFrame DEF Plug, stopVars, deviceVars, devVars
<1>14. ASSUME NEW s \in Serials, Unplug(s) PROVE DevInv'
  <2>1. /\ \A p \in Ports : forward'[p] \in {forward[p], None}
        /\ UNCHANGED <<phase, at, hand, todo, registry, indexed, port, open, told, orphans>>
    BY <1>14 DEF Unplug, stopVars, deviceVars, TypeOK
  <2>2. \A t \in open : port[t] \in Ports
    BY DEF DevInv, OpenInv, HandInv, Busy, TypeOK
  <2>3. at = "connecting" => port[hand] \in Ports
    BY DEF DevInv, HandInv, Busy, TypeOK
  <2>4. DialInv'
    BY <2>1, <2>2, <2>3 DEF DevInv, DialInv
  <2> QED
    BY <2>1, <2>4 DEF DevInv, HandInv, Busy, Attaching, PortInv, OpenInv, OrphanInv,
                Detaching, StopInv, NothingStray
<1>15. CASE TrackingEnds
  BY <1>15, DevFrame DEF TrackingEnds, stopVars, deviceVars, devVars
<1>16. ASSUME NEW o \in orphans, OrphanEnds(o) PROVE DevInv'
  BY <1>16, OrphanEndsInv
<1>17. CASE UNCHANGED vars
  BY <1>17, DevFrame DEF vars, devVars
<1> QED
  BY <1>1, <1>2, <1>3, <1>4, <1>5, <1>6, <1>7, <1>8, <1>9, <1>10, <1>11, <1>12, <1>13,
     <1>14, <1>15, <1>16, <1>17 DEF Next, Handler, Stop, Ready, Environment
-----------------------------------------------------------------------------
(* The news in the queue.                                                  *)

(* The watch task takes the next event.                                    *)
LEMMA TakeNews ==
  ASSUME TypeOK, NewsInv, events # <<>>, events' = Tail(events),
         UNCHANGED <<tracking, plugged>>,
         \A t \in Serials :
            Attached(t)' => IF t = events[1].serial THEN events[1].present ELSE Attached(t)
  PROVE  NewsInv'
<1> DEFINE n == Len(events)
<1>1. /\ n \in Nat /\ n >= 1 /\ Len(events') = n - 1
      /\ \A k \in 1..n - 1 : events'[k] = events[k + 1]
      /\ \A k \in 1..n : events[k].serial \in Serials
  <2>1. events \in Seq(Event)
    BY DEF TypeOK
  <2>2. \A k \in 1..n : events[k] \in Event
    BY <2>1
  <2>3. \A k \in 1..n : events[k].serial \in Serials
    BY <2>2 DEF Event
  <2>4. n \in Nat /\ n >= 1
    BY <2>1
  <2> QED
    BY <2>3, <2>4, TailEvents
<1> HIDE DEF n
<1>2. ASSUME NEW i \in 1..n - 1, NEW j \in 1..n - 1, i < j,
             events'[i].serial = events'[j].serial,
             \A m \in 1..n - 1 : i < m /\ m < j => events'[m].serial # events'[i].serial
      PROVE  ~ (events'[i].present <=> events'[j].present)
  <2>1. i + 1 \in 1..n /\ j + 1 \in 1..n /\ i + 1 < j + 1
    BY <1>1, <1>2
  <2>2. \A m \in 1..n : i + 1 < m /\ m < j + 1 => events[m].serial # events'[i].serial
    <3> SUFFICES ASSUME NEW m \in 1..n, i + 1 < m, m < j + 1
                 PROVE  events[m].serial # events'[i].serial
      OBVIOUS
    <3>1. m - 1 \in 1..n - 1 /\ i < m - 1 /\ m - 1 < j /\ (m - 1) + 1 = m
      BY <1>1
    <3> QED
      BY <1>1, <1>2, <3>1
  <2> QED
    BY <1>1, <1>2, <2>1, <2>2 DEF NewsInv, Silent, n
<1>3. ASSUME tracking, NEW i \in 1..n - 1,
             \A m \in 1..n - 1 : i < m /\ m < n => events'[m].serial # events'[i].serial
      PROVE  events'[i].present <=> events'[i].serial \in plugged
  <2>1. i + 1 \in 1..n
    BY <1>1
  <2>2. \A m \in 1..n : i + 1 < m /\ m < n + 1 => events[m].serial # events'[i].serial
    <3> SUFFICES ASSUME NEW m \in 1..n, i + 1 < m, m < n + 1
                 PROVE  events[m].serial # events'[i].serial
      OBVIOUS
    <3>1. m - 1 \in 1..n - 1 /\ i < m - 1 /\ m - 1 < n /\ (m - 1) + 1 = m
      BY <1>1
    <3> QED
      BY <1>1, <1>3, <3>1
  <2> QED
    BY <1>1, <1>3, <2>1, <2>2 DEF NewsInv, Silent, n
<1>4. ASSUME NEW j \in 1..n - 1, NEW t \in Serials, t = events'[j].serial, Attached(t)',
             \A m \in 1..n - 1 : 0 < m /\ m < j => events'[m].serial # events'[j].serial
      PROVE  ~ events'[j].present
  <2>1. j + 1 \in 1..n /\ 1 \in 1..n /\ 1 < j + 1 /\ t = events[j + 1].serial
    BY <1>1, <1>4
  <2>2. \A m \in 1..n : 1 < m /\ m < j + 1 => events[m].serial # t
    <3> SUFFICES ASSUME NEW m \in 1..n, 1 < m, m < j + 1 PROVE events[m].serial # t
      OBVIOUS
    <3>1. m - 1 \in 1..n - 1 /\ 0 < m - 1 /\ m - 1 < j /\ (m - 1) + 1 = m
      BY <1>1
    <3> QED
      BY <1>1, <1>4, <3>1
  <2>3. CASE t = events[1].serial
    <3>1. events[1].present
      BY <1>4, <2>3
    <3>2. Silent(events[1].serial, 1, j + 1)
      BY <2>2, <2>3 DEF Silent, n
    <3>3. ~ (events[1].present <=> events[j + 1].present)
      BY <2>1, <2>3, <3>2 DEF NewsInv, n
    <3> QED
      BY <1>1, <3>1, <3>3
  <2>4. CASE t # events[1].serial
    <3>1. Attached(t)
      BY <1>4, <2>1, <2>4
    <3>2. \A m \in 1..n : 0 < m /\ m < j + 1 => events[m].serial # t
      BY <1>1, <2>2, <2>4
    <3> QED
      BY <1>1, <2>1, <3>1, <3>2 DEF NewsInv, Silent, n
  <2> QED
    BY <2>3, <2>4
<1>5. ASSUME tracking, NEW t \in Serials, Attached(t)',
             \A m \in 1..n - 1 : events'[m].serial # t
      PROVE  t \in plugged
  <2>1. \A m \in 1..n : 1 < m => events[m].serial # t
    <3> SUFFICES ASSUME NEW m \in 1..n, 1 < m PROVE events[m].serial # t
      OBVIOUS
    <3>1. m - 1 \in 1..n - 1 /\ (m - 1) + 1 = m
      BY <1>1
    <3> QED
      BY <1>1, <1>5, <3>1
  <2>2. CASE t = events[1].serial
    <3>1. events[1].present
      BY <1>5, <2>2
    <3>2. 1 \in 1..n
      BY <1>1
    <3> QED
      BY <1>1, <1>5, <2>1, <2>2, <3>1, <3>2 DEF NewsInv, Silent, n
  <2>3. CASE t # events[1].serial
    <3>1. \A m \in 1..n : events[m].serial # t
      BY <1>1, <2>1, <2>3
    <3> QED
      BY <1>5, <2>3, <3>1 DEF NewsInv, Mute, n
  <2> QED
    BY <2>2, <2>3
<1>6. \A i, j \in 1..Len(events') :
          i < j /\ events'[i].serial = events'[j].serial /\ Silent(events[i].serial, i, j)'
              => ~ (events'[i].present <=> events'[j].present)
  BY <1>1, <1>2 DEF Silent
<1>7. tracking' =>
          \A i \in 1..Len(events') :
             Silent(events[i].serial, i, Len(events) + 1)' =>
                 (events'[i].present <=> events'[i].serial \in plugged')
  <2>1. Len(events') + 1 = n
    BY <1>1
  <2> QED
    BY <1>1, <1>3, <2>1 DEF Silent
<1>8. \A j \in 1..Len(events') :
          Attached(events[j].serial)' /\ Silent(events[j].serial, 0, j)' =>
              ~ events'[j].present
  BY <1>1, <1>4 DEF Silent, Attached, Attaching
<1>9. tracking' => \A t \in Serials : Attached(t)' /\ Mute(t)' => t \in plugged'
  BY <1>1, <1>5 DEF Mute
<1> QED
  BY <1>6, <1>7, <1>8, <1>9 DEF NewsInv

(* A device comes or goes while adb is tracked.                            *)
LEMMA ReportNews ==
  ASSUME TypeOK, NewsInv, tracking, NEW s \in Serials, NEW b \in BOOLEAN,
         events' = Append(events, [serial |-> s, present |-> b]),
         UNCHANGED <<tracking, at, hand, registry>>,
         s \in plugged <=> ~ b, s \in plugged' <=> b,
         \A t : t # s => (t \in plugged <=> t \in plugged')
  PROVE  NewsInv'
<1> DEFINE n == Len(events)
           e == [serial |-> s, present |-> b]
<1>1. /\ n \in Nat /\ Len(events') = n + 1
      /\ \A k \in 1..n : events'[k] = events[k]
      /\ events'[n + 1] = e
      /\ \A k \in 1..n + 1 : events'[k].serial \in Serials
  <2>1. events \in Seq(Event)
    BY DEF TypeOK
  <2>2. e \in Event
    BY DEF Event
  <2> HIDE DEF e
  <2>3. events' = Append(events, e)
    BY DEF e
  <2>4. events' \in Seq(Event)
    BY <2>1, <2>2, <2>3, AppendProperties
  <2>5. \A k \in 1..Len(events') : events'[k].serial \in Serials
    <3>1. \A k \in 1..Len(events') : events'[k] \in Event
      BY <2>4
    <3> QED
      BY <3>1 DEF Event
  <2> QED
    BY <2>1, <2>2, <2>3, <2>5, AppendProperties
<1>2. e.serial = s /\ (e.present <=> b)
  OBVIOUS
<1> HIDE DEF n, e
<1>3. ASSUME NEW i \in 1..n + 1, NEW j \in 1..n + 1, i < j,
             events'[i].serial = events'[j].serial,
             \A m \in 1..n + 1 : i < m /\ m < j => events'[m].serial # events'[i].serial
      PROVE  ~ (events'[i].present <=> events'[j].present)
  <2>1. i \in 1..n
    BY <1>1, <1>3
  <2>2. \A m \in 1..n : i < m /\ m < j => events[m].serial # events[i].serial
    BY <1>1, <1>3, <2>1
  <2>3. CASE j = n + 1
    <3>1. events[i].present <=> events[i].serial \in plugged
      BY <1>1, <2>1, <2>2, <2>3 DEF NewsInv, Silent, n
    <3> QED
      BY <1>1, <1>2, <1>3, <2>1, <2>3, <3>1
  <2>4. CASE j \in 1..n
    BY <1>1, <1>3, <2>1, <2>2, <2>4 DEF NewsInv, Silent, n
  <2> QED
    BY <1>1, <2>3, <2>4
<1>4. ASSUME NEW i \in 1..n + 1,
             \A m \in 1..n + 1 : i < m /\ m < n + 2 => events'[m].serial # events'[i].serial
      PROVE  events'[i].present <=> events'[i].serial \in plugged'
  <2>1. CASE i = n + 1
    BY <1>1, <1>2, <2>1
  <2>2. CASE i \in 1..n
    <3>1. events[i].serial # s
      BY <1>1, <1>2, <1>4, <2>2
    <3>2. \A m \in 1..n : i < m /\ m < n + 1 => events[m].serial # events[i].serial
      BY <1>1, <1>4, <2>2
    <3> QED
      BY <1>1, <2>2, <3>1, <3>2 DEF NewsInv, Silent, n
  <2> QED
    BY <1>1, <2>1, <2>2
<1>5. ASSUME NEW j \in 1..n + 1, NEW t \in Serials, t = events'[j].serial, Attached(t)',
             \A m \in 1..n + 1 : 0 < m /\ m < j => events'[m].serial # events'[j].serial
      PROVE  ~ events'[j].present
  <2>1. \A u : Attached(u)' <=> Attached(u)
    BY DEF Attached, Attaching
  <2>2. CASE j = n + 1
    <3>1. Mute(s) /\ Attached(s)
      BY <1>1, <1>2, <1>5, <2>1, <2>2 DEF Mute, n
    <3>2. s \in plugged
      BY <3>1 DEF NewsInv
    <3> QED
      BY <1>1, <1>2, <2>2, <3>2
  <2>3. CASE j \in 1..n
    <3>1. Attached(events[j].serial)
      BY <1>1, <1>5, <2>1, <2>3
    <3>2. \A m \in 1..n : 0 < m /\ m < j => events[m].serial # events[j].serial
      BY <1>1, <1>5, <2>3
    <3> QED
      BY <1>1, <2>3, <3>1, <3>2 DEF NewsInv, Silent, n
  <2> QED
    BY <1>1, <2>2, <2>3
<1>6. ASSUME NEW t \in Serials, Attached(t)',
             \A m \in 1..n + 1 : events'[m].serial # t
      PROVE  t \in plugged'
  <2>1. t # s /\ Mute(t)
    BY <1>1, <1>2, <1>6 DEF Mute, n
  <2>2. Attached(t)
    BY <1>6 DEF Attached, Attaching
  <2> QED
    BY <2>1, <2>2 DEF NewsInv
<1>7. (n + 1) + 1 = n + 2
  BY <1>1
<1>8. \A i, j \in 1..Len(events') :
          i < j /\ events'[i].serial = events'[j].serial /\ Silent(events[i].serial, i, j)'
              => ~ (events'[i].present <=> events'[j].present)
  BY <1>1, <1>3 DEF Silent
<1>9. tracking' =>
          \A i \in 1..Len(events') :
             Silent(events[i].serial, i, Len(events) + 1)' =>
                 (events'[i].present <=> events'[i].serial \in plugged')
  BY <1>1, <1>4, <1>7 DEF Silent
<1>10. \A j \in 1..Len(events') :
          Attached(events[j].serial)' /\ Silent(events[j].serial, 0, j)' =>
              ~ events'[j].present
  BY <1>1, <1>5 DEF Silent, Attached, Attaching
<1>11. tracking' => \A t \in Serials : Attached(t)' /\ Mute(t)' => t \in plugged'
  BY <1>1, <1>6 DEF Mute
<1> QED
  BY <1>8, <1>9, <1>10, <1>11 DEF NewsInv

(* A step that leaves the queue alone attaches no other device.            *)
LEMMA KeepNews ==
  ASSUME NewsInv, UNCHANGED events, \A s : Attached(s)' => Attached(s),
         tracking' => tracking /\ UNCHANGED plugged
  PROVE  NewsInv'
<1>1. /\ \A s, i, j : Silent(s, i, j)' <=> Silent(s, i, j)
      /\ \A s : Mute(s)' <=> Mute(s)
  BY DEF Silent, Mute
<1> QED
  BY <1>1 DEF NewsInv

(* Every action keeps the queued news true to what is plugged in.          *)
LEMMA NewsNext == TypeOK /\ DevInv /\ NewsInv /\ [Next]_vars => NewsInv'
<1> SUFFICES ASSUME TypeOK, DevInv, NewsInv, [Next]_vars PROVE NewsInv'
  OBVIOUS
<1>1. CASE TakeEvent
  <2>1. PICK s \in Serials :
            /\ at = "idle" /\ 1 \in 1..Len(events) /\ events[1].serial = s
            /\ events' = Tail(events)
            /\ \/ events[1].present /\ (Known(s) \/ NoPortLeft(s) \/ BeginAttach(s))
               \/ /\ ~ events[1].present
                  /\ Unknown(s) \/ BeginDetach(s)
                  /\ UNCHANGED <<adbVars, stopVars, port, logged, wait>>
    BY <1>1, TakeEventIs
  <2>2. UNCHANGED <<tracking, plugged>>
    BY <2>1 DEF Known, NoPortLeft, BeginAttach, adbVars
  <2>3. ASSUME NEW t \in Serials, Attached(t)'
        PROVE  IF t = s THEN events[1].present ELSE Attached(t)
    <3>1. CASE Known(s) \/ NoPortLeft(s)
      BY <2>1, <2>3, <3>1 DEF Known, NoPortLeft, Attached, Attaching, deviceVars, Unknown,
                              BeginDetach
    <3>2. CASE BeginAttach(s)
      BY <2>1, <2>3, <3>2 DEF BeginAttach, Attached, Attaching, deviceVars, Unknown,
                              BeginDetach
    <3>3. CASE ~ events[1].present /\ Unknown(s)
      BY <2>1, <2>3, <3>3 DEF Unknown, Attached, Attaching, deviceVars
    <3>4. CASE ~ events[1].present /\ BeginDetach(s)
      BY <2>1, <2>3, <3>4 DEF BeginDetach, Attached, Attaching
    <3> QED
      BY <2>1, <3>1, <3>2, <3>3, <3>4
  <2>4. events # <<>>
    BY <1>1 DEF TakeEvent
  <2> QED
    BY <2>1, <2>2, <2>3, <2>4, TakeNews
<1>2. ASSUME NEW s \in Serials, NEW b \in BOOLEAN, Report(s, b),
             UNCHANGED <<tracking, at, hand, registry>>,
             s \in plugged <=> ~ b, s \in plugged' <=> b,
             \A t : t # s => (t \in plugged <=> t \in plugged')
      PROVE  NewsInv'
  <2>1. CASE tracking
    <3>1. events' = Append(events, [serial |-> s, present |-> b])
      BY <1>2, <2>1 DEF Report
    <3> QED
      BY <1>2, <2>1, <3>1, ReportNews
  <2>2. CASE ~ tracking
    <3>1. UNCHANGED events /\ ~ tracking'
      BY <1>2, <2>2 DEF Report
    <3>2. \A t : Attached(t)' => Attached(t)
      BY <1>2 DEF Attached, Attaching
    <3> QED
      BY <3>1, <3>2, KeepNews
  <2> QED
    BY <2>1, <2>2
<1>3. ASSUME NEW s \in Serials, Plug(s) PROVE NewsInv'
  BY <1>2, <1>3 DEF Plug, deviceVars
<1>4. ASSUME NEW s \in Serials, Unplug(s) PROVE NewsInv'
  BY <1>2, <1>4 DEF Unplug, deviceVars
<1>5. CASE TrackingEnds
  BY <1>5, KeepNews DEF TrackingEnds, deviceVars, Attached, Attaching
<1>6. ASSUME NEW s \in Serials, StopDetaches(s) PROVE NewsInv'
  BY <1>6, KeepNews DEF StopDetaches, BeginDetach, adbVars, Attached, Attaching
<1>7. CASE ConnectSucceeds
  BY <1>7, KeepNews
  DEF ConnectSucceeds, Announce, Resting, adbVars, Attached, Attaching
<1>8. CASE WatchEnds \/ ForwardSucceeds \/ ForwardFails \/ ConnectFails
  BY <1>8, KeepNews
  DEF WatchEnds, ForwardSucceeds, ForwardFails, ConnectFails, GiveUp, Resting, adbVars,
      deviceVars, Attached, Attaching
<1>9. CASE SupervisorEnds \/ HungUp \/ ForwardRemoved
  <2>1. /\ UNCHANGED <<events, tracking, plugged, registry>> /\ Detaching
        /\ at' \in {"hanging up", "removing", Resting}
    BY <1>9
    DEF SupervisorEnds, HungUp, ForwardRemoved, adbVars, deviceVars, Detaching
  <2>2. ASSUME NEW s, Attached(s)' PROVE Attached(s)
    BY <2>1, <2>2 DEF Attached, Attaching, Resting
  <2> QED
    BY <2>1, <2>2, KeepNews
<1>10. CASE StopCancels \/ StopSweeps \/ StopReturns
  BY <1>10, KeepNews
  DEF StopCancels, StopSweeps, StopReturns, adbVars, deviceVars, Attached, Attaching
<1>11. ASSUME NEW w \in Waiters, WaitReady(w) \/ Rechecks(w) \/ ReadyTimeout(w)
       PROVE  NewsInv'
  BY <1>11, KeepNews
  DEF WaitReady, Rechecks, ReadyTimeout, adbVars, deviceVars, Attached, Attaching
<1>12. ASSUME NEW o \in orphans, OrphanEnds(o) PROVE NewsInv'
  BY <1>12, KeepNews DEF OrphanEnds, deviceVars, Attached, Attaching
<1>13. CASE UNCHANGED vars
  BY <1>13, KeepNews DEF vars, Attached, Attaching
<1> QED
  BY <1>1, <1>3, <1>4, <1>5, <1>6, <1>7, <1>8, <1>9, <1>10, <1>11, <1>12, <1>13
  DEF Next, Handler, Stop, Ready, Environment

-----------------------------------------------------------------------------
(* The forward of a device that is there, and the waits for it.            *)

(* Registrations that go and forwards that stay disturb nothing.           *)
LEMMA KeepUsable ==
  ASSUME UsableInv, UNCHANGED <<events, port>>, registry' \subseteq registry,
         tracking' => tracking /\ UNCHANGED plugged,
         \A s \in registry' : forward[port[s]] = s => forward'[port[s]] = s
  PROVE  UsableInv'
  BY DEF UsableInv, Mute

(* Every action leaves a registered device usable, or news of it queued.   *)
LEMMA UsableNext == TypeOK /\ DevInv /\ NewsInv /\ UsableInv /\ [Next]_vars => UsableInv'
<1> SUFFICES ASSUME TypeOK, DevInv, NewsInv, UsableInv, [Next]_vars PROVE UsableInv'
  OBVIOUS
<1>1. CASE TakeEvent
  <2>1. PICK s \in Serials :
            /\ at = "idle" /\ 1 \in 1..Len(events) /\ events[1].serial = s
            /\ events' = Tail(events)
            /\ \/ events[1].present /\ (Known(s) \/ NoPortLeft(s) \/ BeginAttach(s))
               \/ /\ ~ events[1].present
                  /\ Unknown(s) \/ BeginDetach(s)
                  /\ UNCHANGED <<adbVars, stopVars, port, logged, wait>>
    BY <1>1, TakeEventIs
  <2>2. /\ UNCHANGED <<tracking, plugged, forward>>
        /\ registry' \subseteq registry /\ (~ events[1].present => s \notin registry')
        /\ \A t \in registry : port'[t] = port[t]
    BY <2>1
    DEF Known, NoPortLeft, BeginAttach, Unknown, BeginDetach, adbVars, deviceVars, TypeOK
  <2>3. s \notin registry'
    <3>1. Silent(events[1].serial, 0, 1)
      BY DEF Silent
    <3>2. CASE s \in registry
      <4>1. Attached(events[1].serial)
        BY <2>1, <3>2 DEF Attached
      <4>2. ~ events[1].present
        BY <2>1, <3>1, <4>1 DEF NewsInv
      <4> QED
        BY <2>2, <4>2
    <3> QED
      BY <2>2, <3>2
  <2>4. ASSUME NEW t \in registry', Mute(t)' PROVE Mute(t)
    <3>1. /\ Len(events) \in Nat /\ Len(events') = Len(events) - 1
          /\ \A k \in 1..Len(events) - 1 : events'[k] = events[k + 1]
      BY <1>1, <2>1, TailEvents DEF TakeEvent, TypeOK
    <3>2. ASSUME NEW m \in 1..Len(events) PROVE events[m].serial # t
      <4>1. CASE m = 1
        BY <2>1, <2>3, <2>4, <4>1
      <4>2. CASE m # 1
        <5>1. m - 1 \in 1..Len(events) - 1 /\ (m - 1) + 1 = m
          BY <3>1, <4>2
        <5> QED
          BY <2>4, <3>1, <5>1 DEF Mute
      <4> QED
        BY <4>1, <4>2
    <3> QED
      BY <3>2 DEF Mute
  <2> QED
    BY <2>2, <2>4 DEF UsableInv
<1>2. ASSUME NEW s \in Serials, NEW b \in BOOLEAN, Report(s, b),
             UNCHANGED <<tracking, port, registry>>,
             \A t : t # s => (t \in plugged <=> t \in plugged'),
             \A t \in registry : t # s /\ forward[port[t]] = t => forward'[port[t]] = t
      PROVE  UsableInv'
  <2>1. CASE tracking
    <3>1. /\ Len(events) \in Nat /\ Len(events') = Len(events) + 1
          /\ \A k \in 1..Len(events) : events'[k] = events[k]
          /\ events'[Len(events) + 1] = [serial |-> s, present |-> b]
      <4>1. events \in Seq(Event)
        BY DEF TypeOK
      <4>2. [serial |-> s, present |-> b] \in Event
        BY DEF Event
      <4>3. events' = Append(events, [serial |-> s, present |-> b])
        BY <1>2, <2>1 DEF Report
      <4> HIDE DEF Event
      <4> QED
        BY <4>1, <4>2, <4>3, AppendProperties
    <3>2. ASSUME NEW t, Mute(t)' PROVE t # s /\ Mute(t)
      BY <3>1, <3>2 DEF Mute
    <3> QED
      BY <1>2, <3>2 DEF UsableInv
  <2>2. CASE ~ tracking
    BY <1>2, <2>2 DEF UsableInv
  <2> QED
    BY <2>1, <2>2
<1>3. ASSUME NEW s \in Serials, Plug(s) PROVE UsableInv'
  BY <1>2, <1>3 DEF Plug, deviceVars
<1>4. ASSUME NEW s \in Serials, Unplug(s) PROVE UsableInv'
  <2>1. ASSUME NEW t \in registry, t # s, forward[port[t]] = t PROVE forward'[port[t]] = t
    <3>1. port[t] \in Ports
      BY <2>1 DEF DevInv, HandInv, TypeOK
    <3> QED
      BY <1>4, <2>1, <3>1 DEF Unplug
  <2> QED
    BY <1>2, <1>4, <2>1 DEF Unplug, deviceVars
<1>5. CASE ConnectSucceeds
  <2>1. forward[port[hand]] = hand
    BY <1>5, FleetAssumption DEF ConnectSucceeds, DevInv, DialInv, TypeOK
  <2> QED
    BY <1>5, <2>1 DEF ConnectSucceeds, Announce, adbVars, UsableInv, Mute
<1>6. CASE ForwardSucceeds
  <2>1. ASSUME NEW s \in registry PROVE port[s] # port[hand] /\ port[s] \in Ports
    BY <1>6 DEF ForwardSucceeds, DevInv, HandInv, Busy, PortInv, TypeOK
  <2>2. \A s \in registry : forward'[port[s]] = forward[port[s]]
    BY <1>6, <2>1 DEF ForwardSucceeds, TypeOK
  <2> QED
    BY <1>6, <2>2, KeepUsable DEF ForwardSucceeds, deviceVars
<1>7. CASE ForwardRemoved
  <2>1. hand \in Serials /\ hand \notin registry
    BY <1>7 DEF ForwardRemoved, DevInv, HandInv, Busy
  <2>2. ASSUME NEW s \in registry
        PROVE  port[s] # port[hand] /\ port[s] \in Ports /\ port'[s] = port[s]
    BY <1>7, <2>1 DEF ForwardRemoved, Release, DevInv, HandInv, PortInv, TypeOK
  <2>3. \A s \in registry : forward'[port[s]] = forward[port[s]]
    BY <1>7, <2>2 DEF ForwardRemoved, TypeOK
  <2> QED
    BY <1>7, <2>2, <2>3 DEF ForwardRemoved, UsableInv, Mute
<1>8. ASSUME NEW o \in orphans, OrphanEnds(o) PROVE UsableInv'
  <2>1. /\ o \in AdbCall /\ o.port # None
        /\ port[o.serial] = o.port /\ o.serial \notin registry
    <3>1. o \in AdbCall
      BY DEF TypeOK
    <3>2. o.port # None
      BY <3>1, FleetAssumption DEF AdbCall, Ports
    <3> QED
      BY <3>1, <3>2 DEF DevInv, OrphanInv
  <2>2. ASSUME NEW s \in registry PROVE port[s] # o.port /\ port[s] \in Ports
    BY <2>1 DEF AdbCall, DevInv, HandInv, PortInv, TypeOK
  <2>3. \A s \in registry : forward'[port[s]] = forward[port[s]]
    BY <1>8, <2>1, <2>2 DEF OrphanEnds, TypeOK, AdbCall
  <2> QED
    BY <1>8, <2>3, KeepUsable DEF OrphanEnds, deviceVars
<1>9. CASE ForwardFails \/ ConnectFails
  <2>1. hand \notin registry
    BY <1>9 DEF ForwardFails, ConnectFails, DevInv, HandInv, Busy
  <2>2. \A s \in registry : port'[s] = port[s]
    BY <1>9, <2>1 DEF ForwardFails, ConnectFails, GiveUp, Release, TypeOK
  <2> QED
    BY <1>9, <2>2
    DEF ForwardFails, ConnectFails, GiveUp, adbVars, deviceVars, UsableInv, Mute
<1>10. CASE WatchEnds \/ SupervisorEnds \/ HungUp
  <2>1. UNCHANGED <<events, port, registry, tracking, plugged, forward>>
    BY <1>10 DEF WatchEnds, SupervisorEnds, HungUp, adbVars, deviceVars
  <2> QED
    BY <2>1, KeepUsable
<1>11. CASE StopCancels \/ StopSweeps \/ StopReturns
  BY <1>11, KeepUsable DEF StopCancels, StopSweeps, StopReturns, adbVars, deviceVars
<1>12. ASSUME NEW s \in Serials, StopDetaches(s) PROVE UsableInv'
  BY <1>12, KeepUsable DEF StopDetaches, BeginDetach, adbVars
<1>13. ASSUME NEW w \in Waiters, WaitReady(w) \/ Rechecks(w) \/ ReadyTimeout(w)
       PROVE  UsableInv'
  BY <1>13, KeepUsable DEF WaitReady, Rechecks, ReadyTimeout, adbVars, deviceVars
<1>14. CASE TrackingEnds
  BY <1>14, KeepUsable DEF TrackingEnds, deviceVars
<1>15. CASE UNCHANGED vars
  BY <1>15, KeepUsable DEF vars
<1> QED
  BY <1>1, <1>3, <1>4, <1>5, <1>6, <1>7, <1>8, <1>9, <1>10, <1>11, <1>12, <1>13, <1>14,
     <1>15 DEF Next, Handler, Stop, Ready, Environment

(* A registration wakes every waiter.                                      *)
LEMMA WakeNext == TypeOK /\ NoLostWakeup /\ [Next]_vars => NoLostWakeup'
<1> SUFFICES ASSUME TypeOK, NoLostWakeup, [Next]_vars PROVE NoLostWakeup'
  OBVIOUS
<1>1. ASSUME NEW w \in Waiters, WaitReady(w) \/ Rechecks(w) \/ ReadyTimeout(w)
      PROVE  NoLostWakeup'
  <2>1. PICK r \in Waits :
            /\ wait' = [wait EXCEPT ![w] = r]
            /\ r.state = "asleep" => \E s \in r.missing : s \notin registry
    BY <1>1, WaitIs
  <2>2. UNCHANGED registry
    BY <1>1 DEF WaitReady, Rechecks, ReadyTimeout, deviceVars
  <2> QED
    BY <2>1, <2>2 DEF NoLostWakeup, TypeOK
<1>2. CASE ConnectSucceeds
  <2>1. \A w \in Waiters : wait'[w].state # "asleep"
    BY <1>2 DEF ConnectSucceeds, Wake, TypeOK
  <2> QED
    BY <2>1 DEF NoLostWakeup
<1>3. ASSUME UNCHANGED wait, registry' \subseteq registry PROVE NoLostWakeup'
  BY <1>3 DEF NoLostWakeup
<1>4. CASE TakeEvent
  <2>1. UNCHANGED wait /\ registry' \subseteq registry
    BY <1>4
    DEF TakeEvent, HandleAttach, HandleDetach, Known, NoPortLeft, BeginAttach, Unknown,
        BeginDetach, deviceVars
  <2> QED
    BY <1>3, <2>1
<1>5. CASE WatchEnds \/ ForwardSucceeds \/ ForwardFails \/ ConnectFails
  BY <1>3, <1>5
  DEF WatchEnds, ForwardSucceeds, ForwardFails, ConnectFails, GiveUp, deviceVars
<1>6. CASE SupervisorEnds \/ HungUp \/ ForwardRemoved
  BY <1>3, <1>6 DEF SupervisorEnds, HungUp, ForwardRemoved, deviceVars
<1>7. CASE StopCancels \/ StopSweeps \/ StopReturns \/ TrackingEnds
  BY <1>3, <1>7 DEF StopCancels, StopSweeps, StopReturns, TrackingEnds, deviceVars
<1>8. ASSUME NEW s \in Serials, StopDetaches(s) \/ Plug(s) \/ Unplug(s)
      PROVE  NoLostWakeup'
  BY <1>3, <1>8 DEF StopDetaches, BeginDetach, Plug, Unplug, deviceVars
<1>9. ASSUME NEW o \in orphans, OrphanEnds(o) PROVE NoLostWakeup'
  BY <1>3, <1>9 DEF OrphanEnds, deviceVars
<1>10. CASE UNCHANGED vars
  BY <1>3, <1>10 DEF vars
<1> QED
  BY <1>1, <1>2, <1>4, <1>5, <1>6, <1>7, <1>8, <1>9, <1>10
  DEF Next, Handler, Stop, Ready, Environment

-----------------------------------------------------------------------------
(* The theorems.                                                           *)

(* Nothing is registered and no port is taken at first.                    *)
LEMMA InitInductive == Init => IInv
<1> SUFFICES ASSUME Init PROVE IInv
  OBVIOUS
<1>1. TypeOK
  BY EmptySeq DEF Init, TypeOK, AtRest
<1>2. /\ HandInv /\ PortInv /\ OpenInv /\ DialInv /\ OrphanInv /\ StopInv
      /\ NothingStray
  BY DEF Init, HandInv, Busy, Attaching, PortInv, OpenInv, DialInv, OrphanInv, StopInv,
         NothingStray
<1>3. NewsInv /\ UsableInv
  BY DEF Init, NewsInv, UsableInv, Attached, Attaching
<1>4. NoLostWakeup
  BY DEF Init, NoLostWakeup, AtRest
<1> QED
  BY <1>1, <1>2, <1>3, <1>4 DEF IInv

(* The invariant always holds.                                             *)
LEMMA InductiveHolds == Spec => []IInv
<1>1. IInv /\ [Next]_vars => IInv'
  BY TypeNext, DevNext, NewsNext, UsableNext, WakeNext DEF IInv, DevInv
<1> QED
  BY <1>1, InitInductive, PTL DEF Spec

(* The model's values stay within their types, for any devices, ports and  *)
(* waiters.                                                                *)
THEOREM TypeCorrect == Spec => []TypeOK
<1>1. IInv => TypeOK
  BY DEF IInv
<1> QED
  BY <1>1, InductiveHolds, PTL

(* A supervisor that reconnects never reaches another device through its   *)
(* port: the port is not given away before the supervisor has ended.       *)
THEOREM NoMisdialHolds == Spec => []NoMisdial
<1>1. IInv => NoMisdial
  BY DEF IInv, TypeOK, NoMisdial, OpenInv, HandInv, Busy, DialInv
<1> QED
  BY <1>1, InductiveHolds, PTL

(* A registered device that is still plugged in has its forward, unless    *)
(* news of it waits in the queue.                                          *)
THEOREM AttachedUsableHolds == Spec => []AttachedUsable
<1>1. IInv => AttachedUsable
  BY DEF IInv, UsableInv, Mute, AttachedUsable
<1> QED
  BY <1>1, InductiveHolds, PTL

(* Every way out of a handler returns the port, closes the connection and  *)
(* takes back what was announced.                                          *)
THEOREM NothingStrayHolds == Spec => []NothingStray
<1>1. IInv => NothingStray
  BY DEF IInv
<1> QED
  BY <1>1, InductiveHolds, PTL

(* stop() leaves no device registered and no supervisor running.           *)
THEOREM StopEmptiesHolds == Spec => []StopEmpties
<1>1. IInv => StopEmpties
  BY DEF IInv, OpenInv, StopInv, StopEmpties
<1> QED
  BY <1>1, InductiveHolds, PTL

(* wait_ready never sleeps once the last device it waits for has been      *)
(* registered.                                                             *)
THEOREM NoLostWakeupHolds == Spec => []NoLostWakeup
<1>1. IInv => NoLostWakeup
  BY DEF IInv
<1> QED
  BY <1>1, InductiveHolds, PTL
=============================================================================
