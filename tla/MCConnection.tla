---------------------------- MODULE MCConnection ----------------------------
EXTENDS Connection

CONSTANTS u1, u2, w1

MCUsers == {u1, u2}
MCEnsurers == {u2}
MCSubscribers == {w1}

(* The users call one at a time, alongside the ping and the stream task:   *)
(* a call that still lasts, in a stalled send too, holds the next one up.  *)
MCNext ==
    \/ \E u \in Users : \/ BeginCall(u) /\ \A v \in Users : call[v] = "none"
                        \/ CallCancelled(u)
    \/ \E k \in Callers :
          AgentHandles(k) \/ ReplyArrives(k) \/ OldSendEnds(k) \/ Proceed(k)
    \/ Bus
    \/ Tasks
    \/ Close
    \/ Environment
    \/ Supervisor

MCSpec == Init /\ [][MCNext]_vars /\ LoopFairness /\ DeviceReachable
=============================================================================
