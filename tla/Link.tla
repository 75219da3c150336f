-------------------------------- MODULE Link --------------------------------
(***************************************************************************)
(* What a device connection promises to those who use it.  It says nothing *)
(* of sockets, heartbeats, attempts or queues: only whether the link is    *)
(* up, whose calls nothing has settled, who sleeps on the event bus, and   *)
(* whether the connection believes that events are flowing.                *)
(*                                                                         *)
(* Connection implements it from below, and Waits relies on no more: both  *)
(* are shown to refine it.                                                 *)
(***************************************************************************)
CONSTANTS
    Callers,   \* tasks that call
    Sleepers   \* tasks that wait on the event bus

VARIABLES
    link,       \* "up", "down" or "closed"
    enabled,    \* _stream_enabled
    unsettled,  \* the callers with a call that nothing has settled yet
    asleep      \* the subscribers that have nothing to wake up for

vars == <<link, enabled, unsettled, asleep>>

Init ==
    /\ link = "up"
    /\ enabled = FALSE
    /\ unsettled = {}
    /\ asleep = {}

(* Calls begin and end, waits go to sleep and are woken, the stream is     *)
(* enabled.  On a closed bus nobody falls asleep.                          *)
Use ==
    /\ unsettled' \subseteq Callers
    /\ asleep' \subseteq Sleepers
    /\ enabled => enabled'
    /\ link = "closed" => asleep' \subseteq asleep
    /\ UNCHANGED link

(* Every call is failed and every wait woken, in one step.  It says        *)
(* nothing of when their tasks run: a caller that is still sending learns  *)
(* of it when its send ends.                                               *)
ReleaseAll ==
    /\ unsettled' = {}
    /\ asleep' = {}
    /\ UNCHANGED enabled

Drop == link = "up" /\ link' = "down" /\ ReleaseAll

(* An attempt to reconnect has failed: what began since is released too.   *)
Interrupt == link = "down" /\ link' = "down" /\ ReleaseAll

(* A new connection pushes no events until it is asked to.                 *)
Reopen ==
    /\ link = "down"
    /\ link' = "up"
    /\ enabled' = FALSE
    /\ UNCHANGED <<unsettled, asleep>>

(* From every state: close() also ends what began after a connection that  *)
(* does not reconnect was lost.                                            *)
Close == link' = "closed" /\ ReleaseAll

Next == Use \/ Drop \/ Interrupt \/ Reopen \/ Close
Spec == Init /\ [][Next]_vars
=============================================================================
