-------------------------- MODULE ConnectionProofs --------------------------
(***************************************************************************)
(* What Connection promises for any users, subscribers and number of       *)
(* attempts: connections do not overlap, the stream flag is right, nobody  *)
(* is left stranded, close() is final, and the contract Link is kept.      *)
(***************************************************************************)
EXTENDS Connection, TLAPS

Names == {"read", "ping", "stream"}
Places == {"off", "on", "sleep", "new", "calling", "failed"}

(* The three tasks, as TypeOK does not say, are all of them.               *)
Shape == task \in [Names -> Places]

(* A setEventStream that the agent has handled on the present socket has   *)
(* made it push events there, and its caller, which sets the flag when it  *)
(* resumes, has not outlived that socket.                                  *)
HandledStreams ==
    socket = "live" =>
        \A k \in Callers :
            Enables(k) /\ call[k] \in {"handled", "answered"} => streaming

(* What close() has reached so far: the state from its first step on, the  *)
(* end of the supervisor and the socket once it has released them.         *)
Closing ==
    /\ closing => state = "closed"
    /\ closer \in {"transport", "done"} => sup = "ended" /\ socket = "none"

(* The attempt counter and the bus tell where the supervisor is: a link    *)
(* that is up has no attempts behind it, one that reconnects has some, and *)
(* only one that is over has closed the bus.                               *)
Progress ==
    /\ sup \in {"start", "io", "draining"} => attempt = 0
    /\ sup \in {"backoff", "opening"} => attempt # 0
    /\ sup = "start" => ~ flag /\ \A k \in Callers : call[k] # "answered"
    /\ busClosed => sup = "ended"

IInv ==
    /\ TypeOK
    /\ Shape
    /\ QuietBetweenConnections
    /\ HandledStreams
    /\ StreamFlagSound
    /\ NobodyStranded
    /\ Closing
    /\ Progress

-----------------------------------------------------------------------------
(* The two-valued variables.                                               *)
Switches ==
    /\ reconnect \in BOOLEAN /\ leaked \in BOOLEAN
    /\ streaming \in BOOLEAN /\ flag \in BOOLEAN /\ busClosed \in BOOLEAN

(* The two-valued variables stay two-valued.                               *)
LEMMA SwitchesTyped == TypeOK /\ [Next]_vars => Switches'
<1> SUFFICES ASSUME TypeOK, [Next]_vars PROVE Switches'
  OBVIOUS
<1> USE DEF TypeOK, Switches, supVars, netVars, busVars
<1>1. CASE Calls
  BY <1>1 DEF Calls, BeginCall, CallCancelled, AgentHandles, ReplyArrives,
              OldSendEnds, Proceed, SendReturns, SendFails, CallTimesOut, Fails, Resume
<1>2. CASE Bus \/ Tasks
  BY <1>2 DEF Bus, Subscribe, Unsubscribe, Tasks, ReadFails, PingFires, StreamStarts
<1>3. CASE Close \/ Environment
  BY <1>3 DEF Close, CloseBegins, CloseReleases, CloseEnds, CloseBus, Environment,
              SocketDies, AgentTurns
<1>4. CASE Start \/ OpenSucceeds \/ SupervisorCancelled
  BY <1>4 DEF Start, OpenSucceeds, EnterIo, SupervisorCancelled
<1>5. CASE IoEnds \/ BackoffOver \/ Drop \/ OpenFails
  BY <1>5 DEF IoEnds, BackoffOver, Drop, OpenFails, NextTurn, Interrupt, CloseBus
<1>6. CASE UNCHANGED vars
  BY <1>6 DEF vars
<1> QED
  BY <1>1, <1>2, <1>3, <1>4, <1>5, <1>6 DEF Next, Supervisor

(* connect() has been called, and nothing has happened yet.                *)
LEMMA InitInductive == Init => IInv
<1> SUFFICES ASSUME Init PROVE IInv
  OBVIOUS
<1>1. Switches
  BY DEF Init, Switches
<1>2. task \in [Names -> Places] /\ call \in [Callers -> {"none"}]
  BY DEF Init, Idle, NoCalls, Names, Places
<1>3. TypeOK
  BY <1>1, <1>2, ConnectionAssumption DEF Init, TypeOK, Switches, Idle
<1>4. Shape /\ QuietBetweenConnections /\ HandledStreams /\ NobodyStranded
  BY <1>2 DEF Init, Shape, QuietBetweenConnections, HandledStreams, NobodyStranded,
              closing, Callers
<1>5. StreamFlagSound /\ Closing /\ Progress
  BY <1>2 DEF Init, StreamFlagSound, Closing, Progress, closing
<1> QED
  BY <1>3, <1>4, <1>5 DEF IInv

(* Every action keeps the invariant.                                       *)
LEMMA NextInductive == IInv /\ [Next]_vars => IInv'
<1> SUFFICES ASSUME IInv, [Next]_vars PROVE IInv'
  OBVIOUS
<1>0. Switches'
  BY SwitchesTyped DEF IInv
<1> USE ConnectionAssumption, <1>0
    DEF Switches, IInv, TypeOK, Shape, Names, Places, QuietBetweenConnections,
        HandledStreams, StreamFlagSound, NobodyStranded, Closing, Progress,
        Callers, Enables, closing, netVars, supVars, busVars, Frozen, Unsettled
<1>1. ASSUME NEW u \in Users, BeginCall(u) \/ CallCancelled(u) PROVE IInv'
  BY <1>1 DEF BeginCall, CallCancelled
<1>2. ASSUME NEW k \in Callers, AgentHandles(k) PROVE IInv'
  <2>1. TypeOK' /\ Shape' /\ QuietBetweenConnections'
    BY <1>2 DEF AgentHandles
  <2>2. HandledStreams' /\ StreamFlagSound'
    BY <1>2 DEF AgentHandles
  <2>3. NobodyStranded' /\ Closing' /\ Progress'
    BY <1>2 DEF AgentHandles
  <2> QED
    BY <2>1, <2>2, <2>3 DEF IInv
<1>3. ASSUME NEW k \in Callers, ReplyArrives(k) PROVE IInv'
  BY <1>3 DEF ReplyArrives
<1>4. ASSUME NEW k \in Callers, SendReturns(k) \/ OldSendEnds(k) PROVE IInv'
  BY <1>4 DEF SendReturns, OldSendEnds, Runs
<1>5. ASSUME NEW k \in Callers, SendFails(k) \/ CallTimesOut(k) PROVE IInv'
  BY <1>5 DEF SendFails, CallTimesOut, Fails, Runs, InSend, Armed
<1>6. ASSUME NEW k \in Callers, Resume(k) PROVE IInv'
  BY <1>6 DEF Resume, Runs
<1>7. ASSUME NEW w \in Subscribers, Subscribe(w) \/ Unsubscribe(w) PROVE IInv'
  BY <1>7 DEF Subscribe, Unsubscribe
<1>8. CASE Tasks
  BY <1>8 DEF Tasks, ReadFails, PingFires, StreamStarts
<1>9. CASE Close
  BY <1>9 DEF Close, CloseBegins, CloseReleases, CloseEnds, CloseBus, WakeAll, CancelAll
<1>10. CASE Environment
  BY <1>10 DEF Environment, SocketDies, AgentTurns
<1>11. CASE Start
  BY <1>11 DEF Start, EnterIo, Started
<1>12. CASE OpenSucceeds
  <2>1. /\ call' \in [Callers -> {"none", "strayed", "old", "stuck"}]
        /\ \A k \in Callers : call'[k] \in {"strayed", "stuck"} => leaked'
    BY <1>12 DEF OpenSucceeds, Replaced, ReadyHaveRun, InSend
  <2>2. TypeOK' /\ Shape'
    BY <1>12, <2>1 DEF OpenSucceeds, EnterIo, Started
  <2>3. QuietBetweenConnections' /\ HandledStreams' /\ StreamFlagSound'
    BY <1>12, <2>1 DEF OpenSucceeds, EnterIo
  <2>4. NobodyStranded' /\ Closing' /\ Progress'
    BY <1>12, <2>1 DEF OpenSucceeds, EnterIo
  <2> QED
    BY <2>2, <2>3, <2>4 DEF IInv
<1>13. CASE IoEnds \/ BackoffOver
  BY <1>13 DEF IoEnds, BackoffOver
<1>14. CASE Drop
  <2>1. {"ping", "stream"} \subseteq Callers
    OBVIOUS
  <2> HIDE DEF Callers
  <2>2. \A k \in Callers : /\ call'[k] \in {"none", "answered", "failed", "stuck"}
                           /\ call'[k] = "answered" => call[k] = "answered"
                           /\ call'[k] = "stuck" => call[k] \in {"strayed", "stuck"}
    BY <1>14, <2>1 DEF Drop, CancelAll, TasksOut
  <2>3. /\ call' \in [Callers -> {"none", "answered", "failed", "stuck"}]
        /\ call'["ping"] = "none" /\ call'["stream"] = "none"
    BY <1>14, <2>1, <2>2 DEF Drop, CancelAll, TasksOut
  <2>4. TypeOK' /\ Shape'
    BY <1>14, <2>3 DEF Drop, NextTurn, Interrupt, CloseBus, WakeAll, Idle
  <2>5. QuietBetweenConnections' /\ StreamFlagSound' /\ Closing'
    BY <1>14, <2>3 DEF Drop, NextTurn
  <2>6. HandledStreams'
    BY <1>14, <2>2 DEF Drop
  <2>7. NobodyStranded' /\ Progress'
    BY <1>14, <2>2, <2>3 DEF Drop, NextTurn, Interrupt, CloseBus, WakeAll
  <2> QED
    BY <2>4, <2>5, <2>6, <2>7 DEF IInv
<1>15. CASE OpenFails
  BY <1>15 DEF OpenFails, NextTurn, Interrupt, CloseBus, WakeAll, Idle, CancelAll
<1>16. CASE SupervisorCancelled
  BY <1>16 DEF SupervisorCancelled, Idle, TasksOut
<1>17. CASE UNCHANGED vars
  BY <1>17 DEF vars
<1> QED
  BY <1>1, <1>2, <1>3, <1>4, <1>5, <1>6, <1>7, <1>8, <1>9, <1>10, <1>11, <1>12, <1>13,
     <1>14, <1>15, <1>16, <1>17
  DEF Next, Calls, Proceed, Bus, Supervisor

-----------------------------------------------------------------------------
(* Hence it always holds.                                                  *)
LEMMA InductiveHolds == Spec => []IInv
  BY InitInductive, NextInductive, PTL DEF Spec

(* The values of the supervisor, close(), the sockets, calls and queues    *)
(* stay within their types, for any number of attempts.                    *)
THEOREM TypeCorrect == Spec => []TypeOK
<1>1. IInv => TypeOK
  BY DEF IInv
<1> QED
  BY <1>1, InductiveHolds, PTL

(* No reader, ping or setEventStream of one connection is left when the    *)
(* next one starts (connection.py, the "finally" of _run_io).              *)
THEOREM ConnectionsDoNotOverlap == Spec => []QuietBetweenConnections
<1>1. IInv => QuietBetweenConnections
  BY DEF IInv
<1> QED
  BY <1>1, InductiveHolds, PTL

(* ensure_event_stream returns early only on a connection that pushes      *)
(* events, although the flag outlives the connection that set it.          *)
THEOREM StreamFlagHolds == Spec => []StreamFlagSound
<1>1. IInv => StreamFlagSound
  BY DEF IInv
<1> QED
  BY <1>1, InductiveHolds, PTL

(* Nobody is left asleep on a closed bus, no call of a connection that     *)
(* close() has released waits for a reply, and a call is held in a send on *)
(* a replaced socket only if one was replaced while open.                  *)
THEOREM NobodyIsStranded == Spec => []NobodyStranded
<1>1. IInv => NobodyStranded
  BY DEF IInv
<1> QED
  BY <1>1, InductiveHolds, PTL

-----------------------------------------------------------------------------
(* After the first step of close() the state, the socket and the           *)
(* supervisor only go towards their ends.                                  *)
LEMMA StaysClosed ==
  ASSUME IInv, [Next]_vars, closing
  PROVE  /\ state' = "closed"
         /\ socket' \in {socket, "dead", "none"}
         /\ sup' = "io" => sup = "io"
<1> USE DEF IInv, Closing, closing, supVars, netVars
<1>1. CASE Calls \/ Bus \/ Tasks
  BY <1>1 DEF Calls, BeginCall, CallCancelled, AgentHandles, ReplyArrives,
              OldSendEnds, Proceed, SendReturns, SendFails, CallTimesOut, Fails, Resume,
              Bus, Subscribe, Unsubscribe, Tasks, ReadFails, PingFires, StreamStarts
<1>2. CASE Close \/ Environment
  BY <1>2 DEF Close, CloseBegins, CloseReleases, CloseEnds, Environment, SocketDies,
              AgentTurns
<1>3. CASE Supervisor
  BY <1>3 DEF Supervisor, Start, IoEnds, Drop, BackoffOver, OpenSucceeds, OpenFails,
              SupervisorCancelled
<1>4. CASE UNCHANGED vars
  BY <1>4 DEF vars
<1> QED
  BY <1>1, <1>2, <1>3, <1>4 DEF Next

(* close() is final, wherever it finds the supervisor.                     *)
THEOREM CloseIsFinal == Spec => ClosedForGood
<1>1. IInv /\ [Next]_vars =>
        [closing => /\ state' = "closed"
                    /\ socket' \in {socket, "dead", "none"}
                    /\ sup' = "io" => sup = "io"]_vars
  BY StaysClosed
<1> QED
  BY <1>1, InductiveHolds, PTL DEF Spec, ClosedForGood

-----------------------------------------------------------------------------
(* Connection implements Link.                                             *)

asleepOf == {w \in Subscribers : sub[w] = "empty"}

(* At first nobody calls and nobody is asleep.                             *)
LEMMA InitRefines == Init => Contract!Init
  BY DEF Init, NoCalls, Unsettled, Contract!Init

(* What the users, the agent and the tasks do is only use of the link.     *)
LEMMA UseRefines ==
  ASSUME UNCHANGED <<busClosed, attempt>>,
         flag => flag',
         asleepOf' \subseteq asleepOf \/ ~ busClosed
  PROVE  Contract!Use
  BY DEF Contract!Use, asleepOf

(* cancel_all with interrupt or close settles every call and wakes every   *)
(* wait; whoever is in a send stays there, its call settled.               *)
LEMMA ReleaseRefines ==
  ASSUME call' = CancelAll \/ call' = TasksOut(CancelAll), WakeAll, flag' = flag
  PROVE  Contract!ReleaseAll
<1>1. \A k \in Callers : CancelAll[k] \notin Unsettled
  BY DEF CancelAll, Unsettled
<1>2. \A k \in Callers : TasksOut(CancelAll)[k] \in {CancelAll[k], "none"}
  BY DEF TasksOut, CancelAll
<1>3. \A k \in Callers : call'[k] \notin Unsettled
  BY <1>1, <1>2 DEF Unsettled
<1> QED
  BY <1>3 DEF WakeAll, Contract!ReleaseAll, Unsettled

(* The turn of the loop after a drop or a failed open does so too.         *)
LEMMA NextTurnRefines ==
  ASSUME IInv, sup \in {"draining", "opening"}, NextTurn, flag' = flag,
         call' = CancelAll \/ call' = TasksOut(CancelAll)
  PROVE  Contract!Next
<1>1. Contract!ReleaseAll
  BY ReleaseRefines DEF NextTurn, Interrupt, CloseBus
<1>2. ~ busClosed
  BY DEF IInv, Progress
<1>3. CASE attempt' = attempt + 1 /\ Interrupt
  <2>1. attempt' # 0 /\ ~ busClosed'
    BY <1>2, <1>3 DEF IInv, TypeOK, Interrupt
  <2> QED
    BY <1>1, <1>2, <2>1 DEF Contract!Next, Contract!Drop, Contract!Interrupt
<1>4. CASE CloseBus
  BY <1>1, <1>4 DEF CloseBus, Contract!Next, Contract!Close
<1> QED
  BY <1>3, <1>4 DEF NextTurn

(* One step of the abstract link for every step of the connection.         *)
LEMMA StepRefines == IInv /\ [Next]_vars => [Contract!Next]_(Contract!vars)
<1> SUFFICES ASSUME IInv, [Next]_vars PROVE [Contract!Next]_(Contract!vars)
  OBVIOUS
<1> USE DEF supVars, netVars, busVars
<1>1. CASE Calls \/ Tasks \/ Environment
  <2>1. UNCHANGED <<busClosed, attempt, sub>>
    BY <1>1 DEF Calls, BeginCall, CallCancelled, AgentHandles, ReplyArrives,
                OldSendEnds, Proceed, SendReturns, SendFails, CallTimesOut, Fails, Resume,
                Tasks, ReadFails, PingFires, StreamStarts, Environment, SocketDies,
                AgentTurns
  <2>2. ASSUME NEW k \in Callers, Resume(k) PROVE flag => flag'
    BY <2>2, Zenon DEF Resume
  <2>3. flag => flag' \/ \E k \in Callers : Resume(k)
    BY <1>1 DEF Calls, BeginCall, CallCancelled, AgentHandles, ReplyArrives,
                OldSendEnds, Proceed, SendReturns, SendFails, CallTimesOut, Fails,
                Tasks, ReadFails, PingFires, StreamStarts, Environment, SocketDies,
                AgentTurns
  <2> QED
    BY <2>1, <2>2, <2>3, UseRefines DEF asleepOf, Contract!Next
<1>2. CASE Bus
  <2>1. UNCHANGED <<busClosed, attempt, flag>>
    BY <1>2 DEF Bus, Subscribe, Unsubscribe
  <2>2. busClosed => asleepOf' \subseteq asleepOf
    BY <1>2 DEF Bus, Subscribe, Unsubscribe, asleepOf, IInv, TypeOK
  <2> QED
    BY <2>1, <2>2, UseRefines DEF Contract!Next
<1>3. CASE CloseReleases
  BY <1>3, ReleaseRefines DEF CloseReleases, CloseBus, Contract!Next, Contract!Close
<1>4. CASE CloseBegins \/ CloseEnds \/ IoEnds \/ BackoffOver \/ SupervisorCancelled
  <2>1. UNCHANGED <<busClosed, attempt, sub, flag>>
    BY <1>4 DEF CloseBegins, CloseEnds, IoEnds, BackoffOver, SupervisorCancelled
  <2> QED
    BY <2>1, UseRefines DEF asleepOf, Contract!Next
<1>5. CASE Start
  <2>1. UNCHANGED <<busClosed, attempt, sub>> /\ ~ flag
    BY <1>5 DEF Start, EnterIo, IInv, Progress
  <2> QED
    BY <2>1, UseRefines DEF asleepOf, Contract!Next
<1>6. CASE OpenSucceeds
  <2>1. /\ ~ busClosed /\ attempt # 0
        /\ attempt' = 0 /\ ~ flag' /\ flag' = FALSE /\ UNCHANGED <<busClosed, sub>>
    BY <1>6 DEF OpenSucceeds, EnterIo, IInv, Progress
  <2>2. \A k \in Callers : call'[k] \in Unsettled <=> call[k] \in Unsettled
    BY <1>6 DEF OpenSucceeds, Replaced, Unsettled
  <2> QED
    BY <2>1, <2>2 DEF Contract!Next, Contract!Reopen
<1>7. CASE Drop \/ OpenFails
  BY <1>7, NextTurnRefines DEF Drop, OpenFails
<1>8. CASE UNCHANGED vars
  BY <1>8 DEF vars, Contract!vars
<1> QED
  BY <1>1, <1>2, <1>3, <1>4, <1>5, <1>6, <1>7, <1>8 DEF Next, Close, Supervisor

(* The supervisor, its attempts and its tasks implement the contract Link: *)
(* a drop, a failed attempt and a close settle every call and wake every   *)
(* wait in one step, nobody falls asleep on a closed bus, and a            *)
(* reconnected link starts with the stream flag cleared.                   *)
THEOREM ConnectionImplementsLink == Spec => ImplementsLink
  BY InductiveHolds, InitRefines, StepRefines, PTL DEF Spec, ImplementsLink, Contract!Spec
=============================================================================
