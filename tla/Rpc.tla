-------------------------------- MODULE Rpc --------------------------------
(***************************************************************************)
(* Request/reply correlation over one device connection: IdGenerator,      *)
(* PendingRegistry, RpcClient._request and the reply half of FrameRouter.  *)
(*                                                                         *)
(* A member of Calls is one execution of RpcClient._request, from drawing  *)
(* an id to the "finally: pop".  The payloads of replies are abstracted to *)
(* their provenance: the call whose request the agent was answering.       *)
(***************************************************************************)
EXTENDS Integers, Sequences, FiniteSets

CONSTANTS
    Calls,   \* the executions of RpcClient._request
    Binary,  \* those made by call_binary (expects_binary=True)
    MaxId,   \* MAX_REQUEST_ID
    None     \* Python's None

ASSUME RpcAssumption ==
    /\ Binary \subseteq Calls
    /\ MaxId \in Nat
    /\ None \notin Calls
    /\ None \notin Int

VARIABLES
    counter,  \* IdGenerator._counter
    entry,    \* PendingRegistry._entries: the call whose future an id resolves
    meta,     \* _Pending.meta: the stashed first half of a two-part reply
    pc,       \* where each _request stands
    id,       \* its req_id
    fut,      \* its future; once the call is done, what the caller got
    doom,     \* "deadline" or "cancel" once its task is being cancelled
    live,     \* whether the socket it sends on is still the one being read
    link,     \* the socket: "up", "dead" (lost, not yet noticed), "down"
    inbox,    \* requests the agent has received and not answered
    wire,     \* frames sent by the agent and not yet read, in order
    served    \* the calls whose request the agent has executed

vars == <<counter, entry, meta, pc, id, fut, doom, live, link, inbox, wire,
          served>>
callVars == <<counter, pc, id, doom>>
linkVars == <<live, link>>
registry == <<entry, meta>>
agentVars == <<inbox, wire, served>>

Ids == 0..MaxId
Maybe == Calls \cup {None}

-----------------------------------------------------------------------------
(* Futures and outcomes, requests and frames.                              *)

Blank(st) == [st |-> st, head |-> None, body |-> None]
Response(st, h, b) == [st |-> st, head |-> h, body |-> b]

ReplyStates == {"text", "error", "twopart"}
FutureStates == {"none", "pending", "cancelled", "lost", "timeout", "exhausted",
                 "unencodable"} \cup ReplyStates
Future == [st : FutureStates, head : Maybe, body : Maybe]

Request == [id : Ids, of : Calls, live : BOOLEAN]
Frame == [kind : {"text", "error", "binary"}, id : Ids, of : Calls]

AnswersTo(r) ==
    {<<[kind |-> "error", id |-> r.id, of |-> r.of]>>,
     IF r.of \in Binary
     THEN <<[kind |-> "text", id |-> r.id, of |-> r.of],
            [kind |-> "binary", id |-> r.id, of |-> r.of]>>
     ELSE <<[kind |-> "text", id |-> r.id, of |-> r.of]>>}

Active == {c \in Calls : pc[c] \in {"sending", "flushing", "waiting"}}
Unencodable(c) == pc[c] = "done" /\ fut[c].st = "unencodable"
Deaf(requests) == {[r EXCEPT !.live = FALSE] : r \in requests}

-----------------------------------------------------------------------------
(* IdGenerator.next: the first id at or after the counter, cyclically,     *)
(* that is not pending.                                                    *)

Distance(i) == IF i >= counter THEN i - counter ELSE i - counter + MaxId + 1
FollowingNoWrap(i) == i + 1                               \* mutant
Following(i) == IF i = MaxId THEN 0 ELSE i + 1
Pending(i) == entry[i] # None
NextId(i) ==
    /\ ~ Pending(i)
    /\ \A j \in Ids : Pending(j) \/ Distance(i) <= Distance(j)

(* Ids that still belong to a call: its task has not run its "finally", or *)
(* the agent can still send a frame that carries the id.                   *)
Lingering ==
    {id[c] : c \in Active}
      \cup {r.id : r \in {q \in inbox : q.live}}
      \cup {wire[k].id : k \in 1..Len(wire)}

-----------------------------------------------------------------------------
(* RpcClient._request                                                      *)

Register(c, i) ==
    /\ pc[c] = "idle"
    /\ NextId(i)
    /\ counter' = Following(i)
    /\ entry' = [entry EXCEPT ![i] = c]
    /\ meta' = [meta EXCEPT ![i] = None]
    /\ pc' = [pc EXCEPT ![c] = "sending"]
    /\ id' = [id EXCEPT ![c] = i]
    /\ fut' = [fut EXCEPT ![c] = Blank("pending")]
    /\ live' = [live EXCEPT ![c] = (link = "up")]
    /\ UNCHANGED <<doom, link, agentVars>>

(* The id is registered before params is copied and encoded, outside the   *)
(* try: if that raises, the caller is gone and its entry stays.            *)
EncodeFails(c, i) ==
    /\ pc[c] = "idle"
    /\ NextId(i)
    /\ counter' = Following(i)
    /\ entry' = [entry EXCEPT ![i] = c]
    /\ meta' = [meta EXCEPT ![i] = None]
    /\ pc' = [pc EXCEPT ![c] = "done"]
    /\ fut' = [fut EXCEPT ![c] = Blank("unencodable")]
    /\ UNCHANGED <<id, doom, linkVars, agentVars>>

Exhausted(c) ==
    /\ pc[c] = "idle"
    /\ \A i \in Ids : Pending(i)
    /\ pc' = [pc EXCEPT ![c] = "done"]
    /\ fut' = [fut EXCEPT ![c] = Blank("exhausted")]
    /\ UNCHANGED <<counter, registry, id, doom, linkVars, agentVars>>

(* The write part of send, on the socket taken when the call began.        *)
Transmit(c) ==
    /\ pc[c] = "sending"
    /\ doom[c] = "none"
    /\ pc' = [pc EXCEPT ![c] = "flushing"]
    /\ inbox' = inbox \cup {[id |-> id[c], of |-> c, live |-> live[c]]}
    /\ UNCHANGED <<counter, registry, id, fut, doom, linkVars, wire, served>>

FinishNoPop(c, o) ==                                      \* mutant
    /\ pc' = [pc EXCEPT ![c] = "done"]
    /\ fut' = [fut EXCEPT ![c] = o]
    /\ id' = [id EXCEPT ![c] = None]
    /\ doom' = [doom EXCEPT ![c] = "none"]
    /\ live' = [live EXCEPT ![c] = FALSE]
    /\ UNCHANGED <<counter, registry, link, agentVars>>

(* _request ends with o: pop whatever the id now maps to, then return.     *)
Finish(c, o) ==
    /\ pc' = [pc EXCEPT ![c] = "done"]
    /\ fut' = [fut EXCEPT ![c] = o]
    /\ entry' = [entry EXCEPT ![id[c]] = None]
    /\ meta' = [meta EXCEPT ![id[c]] = None]
    /\ id' = [id EXCEPT ![c] = None]
    /\ doom' = [doom EXCEPT ![c] = "none"]
    /\ live' = [live EXCEPT ![c] = FALSE]
    /\ UNCHANGED <<counter, link, agentVars>>

(* send returns; awaiting a future that is already done does not yield.    *)
AwaitReply(c) ==
    /\ pc[c] = "flushing"
    /\ doom[c] = "none"
    /\ fut[c].st = "pending"
    /\ pc' = [pc EXCEPT ![c] = "waiting"]
    /\ UNCHANGED <<counter, registry, id, fut, doom, linkVars, agentVars>>

AlreadySettled(c) ==
    /\ pc[c] = "flushing"
    /\ doom[c] = "none"
    /\ fut[c].st # "pending"
    /\ Finish(c, fut[c])

SendFails(c) ==
    /\ pc[c] \in {"sending", "flushing"}
    /\ doom[c] = "none"
    /\ ~ live[c]
    /\ Finish(c, Blank("lost"))

CancelFuture(c) ==
    fut' = [fut EXCEPT ![c] = IF pc[c] = "waiting" /\ @.st = "pending"
                              THEN Blank("cancelled") ELSE @]

ExpireConnected(c) ==                                     \* mutant
    /\ pc[c] = "waiting"
    /\ doom[c] = "none"
    /\ live[c]
    /\ doom' = [doom EXCEPT ![c] = "deadline"]
    /\ CancelFuture(c)
    /\ UNCHANGED <<counter, registry, pc, id, linkVars, agentVars>>

(* asyncio.timeout covers the await of the future only, not the send.      *)
Expire(c) ==
    /\ pc[c] = "waiting"
    /\ doom[c] = "none"
    /\ doom' = [doom EXCEPT ![c] = "deadline"]
    /\ CancelFuture(c)
    /\ UNCHANGED <<counter, registry, pc, id, linkVars, agentVars>>

(* The caller's task is cancelled from outside.                            *)
Cancel(c) ==
    /\ c \in Active
    /\ doom[c] # "cancel"
    /\ doom' = [doom EXCEPT ![c] = "cancel"]
    /\ CancelFuture(c)
    /\ UNCHANGED <<counter, registry, pc, id, linkVars, agentVars>>

ResumeShieldedSend(c) ==                                  \* mutant
    /\ pc[c] = "waiting"
    /\ fut[c].st # "pending"
    /\ Finish(c, CASE doom[c] = "cancel" -> Blank("cancelled")
                   [] doom[c] = "deadline" -> Blank("timeout")
                   [] OTHER -> fut[c])

(* The task runs again.  A cancellation beats a deadline, and a deadline   *)
(* beats a reply that arrived before the task could run.                   *)
Resume(c) ==
    \/ /\ c \in Active
       /\ doom[c] = "cancel"
       /\ Finish(c, Blank("cancelled"))
    \/ /\ pc[c] = "waiting"
       /\ doom[c] = "deadline"
       /\ Finish(c, Blank("timeout"))
    \/ /\ pc[c] = "waiting"
       /\ doom[c] = "none"
       /\ fut[c].st # "pending"
       /\ Finish(c, fut[c])

-----------------------------------------------------------------------------
(* FrameRouter.classify and PendingRegistry: one inbound frame.            *)

(* _finish: forget the entry, set the future unless it is already done.    *)
Settle(i, r) ==
    /\ entry' = [entry EXCEPT ![i] = None]
    /\ meta' = [meta EXCEPT ![i] = None]
    /\ fut' = [fut EXCEPT ![entry[i]] = IF @.st = "pending" THEN r ELSE @]

ReceiveInOrder(f) ==                                      \* mutant
    \E i \in Ids :
        /\ Pending(i)
        /\ \A j \in Ids : Pending(j) => i <= j
        /\ Settle(i, Response(IF f.kind = "binary" THEN "twopart" ELSE f.kind,
                              f.of, None))
ReceiveUnpaired(f) ==                                     \* mutant
    IF Pending(f.id)
    THEN Settle(f.id, IF f.kind = "binary" THEN Response("twopart", f.of, f.of)
                                           ELSE Response(f.kind, f.of, None))
    ELSE UNCHANGED <<registry, fut>>
ReceiveHeadless(f) ==                                     \* mutant
    IF Pending(f.id) /\ (f.kind = "text" => entry[f.id] \notin Binary)
    THEN Settle(f.id, IF f.kind = "binary" THEN Response("twopart", None, f.of)
                                           ELSE Response(f.kind, f.of, None))
    ELSE UNCHANGED <<registry, fut>>

Receive(f) ==
    \/ /\ ~ Pending(f.id)                                 \* unknown or late
       /\ UNCHANGED <<registry, fut>>
    \/ /\ Pending(f.id)
       /\ f.kind = "error"
       /\ Settle(f.id, Response("error", f.of, None))
    \/ /\ Pending(f.id)
       /\ f.kind = "text"
       /\ entry[f.id] \notin Binary
       /\ Settle(f.id, Response("text", f.of, None))
    \/ /\ Pending(f.id)                                   \* stash the first half
       /\ f.kind = "text"
       /\ entry[f.id] \in Binary
       /\ meta' = [meta EXCEPT ![f.id] = f.of]
       /\ UNCHANGED <<entry, fut>>
    \/ /\ Pending(f.id)
       /\ f.kind = "binary"
       /\ Settle(f.id, Response("twopart", meta[f.id], f.of))

Deliver ==
    /\ wire # <<>>
    /\ Receive(Head(wire))
    /\ wire' = Tail(wire)
    /\ UNCHANGED <<callVars, linkVars, inbox, served>>

-----------------------------------------------------------------------------
(* The agent and the link, as the client experiences them.                 *)

(* The agent executes a request; its answer reaches a socket that is read  *)
(* or nobody.  It may also never get to it.                                *)
Serve(r) ==
    /\ inbox' = inbox \ {r}
    /\ served' = served \cup {r.of}
    /\ IF r.live THEN \E s \in AnswersTo(r) : wire' = wire \o s
                 ELSE UNCHANGED wire
    /\ UNCHANGED <<callVars, registry, fut, linkVars>>

(* The socket is lost; frames already buffered can still be read.          *)
Die ==
    /\ link = "up"
    /\ link' = "dead"
    /\ live' = [c \in Calls |-> FALSE]
    /\ inbox' = Deaf(inbox)
    /\ UNCHANGED <<callVars, registry, fut, wire, served>>

(* _on_drop -> cancel_all: after the reader saw the loss, after a missed   *)
(* heartbeat on a live socket, or after a failed attempt to reopen.        *)
Drop ==
    /\ link' = "down"
    /\ live' = [c \in Calls |-> FALSE]
    /\ fut' = [c \in Calls |->
                 IF fut[c].st = "pending" /\ \E i \in Ids : entry[i] = c
                 THEN Blank("lost") ELSE fut[c]]
    /\ entry' = [i \in Ids |-> None]
    /\ meta' = [i \in Ids |-> None]
    /\ inbox' = Deaf(inbox)
    /\ wire' = <<>>
    /\ UNCHANGED <<callVars, served>>

Reopen ==
    /\ link = "down"
    /\ link' = "up"
    /\ UNCHANGED <<callVars, registry, fut, live, agentVars>>

-----------------------------------------------------------------------------

Init ==
    /\ counter = 0
    /\ entry = [i \in Ids |-> None]
    /\ meta = [i \in Ids |-> None]
    /\ pc = [c \in Calls |-> "idle"]
    /\ id = [c \in Calls |-> None]
    /\ fut = [c \in Calls |-> Blank("none")]
    /\ doom = [c \in Calls |-> "none"]
    /\ live = [c \in Calls |-> FALSE]
    /\ link = "up"
    /\ inbox = {}
    /\ wire = <<>>
    /\ served = {}

Caller(c) ==
    \/ Exhausted(c)
    \/ Transmit(c)
    \/ AwaitReply(c)
    \/ AlreadySettled(c)
    \/ SendFails(c)
    \/ Expire(c)
    \/ Cancel(c)
    \/ Resume(c)

World ==
    \/ Deliver
    \/ \E r \in inbox : Serve(r)
    \/ Die
    \/ Drop
    \/ Reopen

(* The window assumption: the 2^32 ids are not used up between the sending *)
(* of a request and the moment its id is no longer in anybody's hands.     *)
Begin(c) == \E i \in Ids \ Lingering : Register(c, i) \/ EncodeFails(c, i)

Next == World \/ \E c \in Calls : Begin(c) \/ Caller(c)

(* What the event loop owes a call: timers fire and ready tasks run, so a  *)
(* call that can get on does.  The peer owes nothing: neither the write    *)
(* (back-pressure) nor the answer.                                         *)
LoopFairness ==
    \A c \in Calls : WF_vars(Expire(c) \/ Resume(c) \/ AlreadySettled(c))

Spec == Init /\ [][Next]_vars
FairSpec == Spec /\ LoopFairness

(* The most that can be asked of the network: a reader that can make       *)
(* progress does, and a lost socket is noticed by its reader and senders.  *)
NetworkFairness ==
    /\ WF_vars(Deliver)
    /\ WF_vars(link = "dead" /\ Drop)
    /\ \A c \in Calls : WF_vars(SendFails(c))
FullyFairSpec == FairSpec /\ NetworkFairness

-----------------------------------------------------------------------------
(* Properties                                                              *)

TypeOK ==
    /\ counter \in Ids
    /\ entry \in [Ids -> Maybe]
    /\ meta \in [Ids -> Maybe]
    /\ pc \in [Calls -> {"idle", "sending", "flushing", "waiting", "done"}]
    /\ id \in [Calls -> Ids \cup {None}]
    /\ fut \in [Calls -> Future]
    /\ doom \in [Calls -> {"none", "deadline", "cancel"}]
    /\ live \in [Calls -> BOOLEAN]
    /\ link \in {"up", "dead", "down"}
    /\ inbox \in SUBSET Request
    /\ wire \in Seq(Frame)
    /\ served \in SUBSET Calls

(* A reply can reach call c: its id leads to its future.                   *)
Reachable(c) == id[c] # None /\ entry[id[c]] = c

(* The registry is exactly the calls that still wait. An entry belongs to  *)
(* a running call under that call's own id, so no path through the try of  *)
(* _request (reply, error, deadline, cancellation, failed send, drop)      *)
(* leaves one behind; the one exit before the try, a request that cannot   *)
(* be encoded, does, and only it (against __contains__ in pending.py:      *)
(* "True while req_id is awaiting a reply"). A running call whose future   *)
(* is open has its entry, so no other call's "finally: pop" ever took it   *)
(* away.                                                                   *)
RegistryExact ==
    /\ \A i \in Ids : Pending(i) => \/ entry[i] \in Active /\ id[entry[i]] = i
                                   \/ Unencodable(entry[i])
    /\ \A c \in Active : fut[c].st = "pending" => Reachable(c)

(* What a caller is handed was produced for its own request, however late  *)
(* replies, timeouts, drops and id reuse interleave.                       *)
NoCrossDelivery ==
    \A c \in Calls :
        fut[c].st \in ReplyStates => /\ fut[c].head = c
                                    /\ fut[c].body \in {c, None}

(* A two-part call gets both parts of one answer or none: never the bytes  *)
(* without the metadata, and never the metadata alone as a success.        *)
TwoPartWhole ==
    \A c \in Calls :
        /\ fut[c].st = "twopart" => c \in Binary /\ fut[c].head = fut[c].body
        /\ fut[c].st = "text" => c \notin Binary

(* A call whose request is written ends: its deadline is armed, whether    *)
(* the agent answers, stalls or vanishes.                                  *)
AfterDeadline == \A c \in Calls : pc[c] = "waiting" ~> pc[c] = "done"

(* A cancelled caller always gets out, stuck in the send or not.           *)
AfterCancel == \A c \in Calls : doom[c] = "cancel" ~> pc[c] = "done"

(* docs/architecture.md: "A timeout on every external await. No call or    *)
(* wait hangs forever."                                                    *)
CallTerminates == \A c \in Calls : pc[c] = "sending" ~> pc[c] = "done"

-----------------------------------------------------------------------------
(* What the callers see of it (RpcContract).                               *)

Own(c) ==
    \/ fut[c] = Response("text", c, None) /\ c \notin Binary
    \/ fut[c] = Response("twopart", c, c) /\ c \in Binary
    \/ fut[c] = Response("error", c, None)

phaseOf == [c \in Calls |-> CASE pc[c] = "idle" -> "idle"
                             [] pc[c] = "done" -> "done"
                             [] OTHER -> "open"]
outcomeOf == [c \in Calls |-> IF pc[c] # "done" THEN "none"
                               ELSE IF fut[c].st \notin ReplyStates THEN "failed"
                               ELSE IF Own(c) THEN "own" ELSE "foreign"]

Contract == INSTANCE RpcContract
                WITH phase <- phaseOf, executed <- served, outcome <- outcomeOf

(* The registry, the ids and the frames implement the contract.            *)
ImplementsContract == Contract!Spec
=============================================================================
