------------------------------- MODULE Device -------------------------------
(***************************************************************************)
(* The Device facade over a connection that may drop: node actions under   *)
(* RetryPolicy, dumps, and ScreenState, which dumps and events both write. *)
(*                                                                         *)
(* A member of Actors is one execution of a node action (click, set_text,  *)
(* scroll, ...), of which the agent may still hold an earlier request when *)
(* it gets the next.  A dump is reduced to what ScreenState takes from it; *)
(* searching it is module Tree.  The frames that carry a screen number     *)
(* keep their order; the answers to node actions come in any.              *)
(***************************************************************************)
EXTENDS Integers, Sequences, SequencesExt, Tree

CONSTANTS
    Actors,     \* the executions of _node_action
    Readers,    \* tasks that dump
    Packages,   \* foreground apps
    Attempts,   \* config.retry.attempts
    MaxScreen,  \* bound: settled changes in one life of the agent
    None

ASSUME DeviceAssumption ==
    /\ Attempts \in Nat \ {0} /\ MaxScreen \in Nat
    /\ None \notin Packages
    /\ "event" \notin Readers

VARIABLES
    pc,         \* where each node action stands
    tries,      \* the calls it has made
    job,        \* what the agent has made of each of these calls
    acts,       \* history: how often the agent performed it
    query,      \* where each dump stands
    draft,      \* the dump the agent has taken and not yet sent
    answer,     \* the one whose caller has yet to run on
    seen,       \* ScreenState
    informed,   \* history: the agent's present screen was observed
    link,       \* the connection is up
    pushing,    \* the agent sends events over it
    wire,       \* frames with a screen number, sent and not yet read
    screen,     \* the agent's screen counter
    package,    \* its foreground app, None if it cannot tell
    dirty,      \* the screen changed and the debounce has not fired yet
    restarted   \* history: the agent has restarted

actVars == <<pc, tries, job, acts>>
agentVars == <<pushing, screen, package, dirty, restarted>>
screenVars == <<query, draft, answer, seen, informed, wire>>
vars == <<actVars, screenVars, link, agentVars>>

Observation == [screen : -1..MaxScreen, package : Packages \cup {None}]
Now == [screen |-> screen, package |-> package]
Frame(of, o) == [of |-> of, at |-> o]

-----------------------------------------------------------------------------
(* Node actions: _node_action and RetryPolicy.run                          *)

(* The next call.  While the link is down its send fails, or goes to the   *)
(* old socket and is not answered.                                         *)
Call(a) ==
    \/ /\ link
       /\ pc' = [pc EXCEPT ![a] = "asked"]
       /\ tries' = [tries EXCEPT ![a] = @ + 1]
       /\ job' = [job EXCEPT ![a][tries[a] + 1] = "queued"]
    \/ /\ ~ link
       /\ \E outcome \in {"asked", "lost"} : pc' = [pc EXCEPT ![a] = outcome]
       /\ tries' = [tries EXCEPT ![a] = @ + 1]
       /\ UNCHANGED job

(* A selector with a container is refused before anything is sent.         *)
Act(a) ==
    /\ pc[a] = "idle"
    /\ \/ pc' = [pc EXCEPT ![a] = "refused"] /\ UNCHANGED <<tries, job>>
       \/ Call(a)
    /\ UNCHANGED <<acts, screenVars, link, agentVars>>

(* The agent finds the node in a fresh tree, or answers with an error: no  *)
(* match, several, no such window, an action the node does not support.    *)
AgentFinds(a, k) ==
    /\ job[a][k] = "queued"
    /\ \E found \in {"found", "error"} : job' = [job EXCEPT ![a][k] = found]
    /\ UNCHANGED <<pc, tries, acts, screenVars, link, agentVars>>

(* performAction: FALSE if the node changed since it was found.            *)
AgentPerforms(a, k) ==
    /\ job[a][k] = "found"
    /\ \/ /\ job' = [job EXCEPT ![a][k] = "ok"]
          /\ acts' = [acts EXCEPT ![a] = @ + 1]
       \/ /\ job' = [job EXCEPT ![a][k] = "stale"]
          /\ UNCHANGED acts
    /\ UNCHANGED <<pc, tries, screenVars, link, agentVars>>

AnsweredForEver(a) ==                                       \* mutant
    /\ pc[a] = "asked"
    /\ link
    /\ LET result == job[a][tries[a]]
       IN  /\ result \in {"ok", "stale", "error"}
           /\ pc' = [pc EXCEPT ![a] = IF result = "stale" THEN "asleep" ELSE result]
    /\ UNCHANGED <<tries, job, acts, screenVars, link, agentVars>>

(* STALE is retried after a sleep, up to the last attempt; every other     *)
(* error is raised.                                                        *)
Answered(a) ==
    /\ pc[a] = "asked"
    /\ link
    /\ LET result == job[a][tries[a]]
       IN  /\ result \in {"ok", "stale", "error"}
           /\ pc' = [pc EXCEPT ![a] =
                        IF result = "stale" /\ tries[a] < Attempts THEN "asleep"
                                                                  ELSE result]
    /\ UNCHANGED <<tries, job, acts, screenVars, link, agentVars>>

Retry(a) ==
    /\ pc[a] = "asleep"
    /\ Call(a)
    /\ UNCHANGED <<acts, screenVars, link, agentVars>>

GiveUpRetries(a) ==                                         \* mutant
    /\ pc[a] = "asked"
    /\ pc' = [pc EXCEPT ![a] = IF tries[a] < Attempts THEN "asleep" ELSE "lost"]
    /\ UNCHANGED <<tries, job, acts, screenVars, link, agentVars>>

(* RpcTimeout, or the caller is cancelled; neither is retried.             *)
GiveUp(a) ==
    /\ pc[a] \in {"asked", "asleep"}
    /\ pc' = [pc EXCEPT ![a] = "lost"]
    /\ UNCHANGED <<tries, job, acts, screenVars, link, agentVars>>

-----------------------------------------------------------------------------
(* ScreenState, dump and the events                                        *)

ObserveLast(o) == seen' = o                                 \* mutant
(* A lower number is stale news; an empty package says nothing.            *)
Observe(o) ==
    seen' = IF o.screen < seen.screen THEN seen
            ELSE IF o.package = None THEN [seen EXCEPT !.screen = o.screen]
            ELSE o

Learn(o) ==
    /\ Observe(o)
    /\ informed' = (informed \/ (~ dirty /\ o = Now))

AskDump(r) ==
    /\ query[r] = "idle"
    /\ link
    /\ query' = [query EXCEPT ![r] = "asked"]
    /\ UNCHANGED <<actVars, draft, answer, seen, informed, wire, link, agentVars>>

AgentReads(r) ==
    /\ query[r] = "asked"
    /\ draft[r] = None
    /\ \A k \in DOMAIN wire : wire[k].of # r
    /\ draft' = [draft EXCEPT ![r] = Now]
    /\ UNCHANGED <<actVars, query, answer, seen, informed, wire, link, agentVars>>

AgentSends(r) ==
    /\ draft[r] # None
    /\ wire' = Append(wire, Frame(r, draft[r]))
    /\ draft' = [draft EXCEPT ![r] = None]
    /\ UNCHANGED <<actVars, query, answer, seen, informed, link, agentVars>>

(* An event is handled by the reader; the answer to a dump by its caller,  *)
(* which runs some time after the reader has resolved its future.          *)
Deliver ==
    /\ wire # <<>>
    /\ wire' = Tail(wire)
    /\ LET f == Head(wire)
       IN \/ /\ f.of = "event"
             /\ Learn(f.at)
             /\ UNCHANGED <<query, answer>>
          \/ /\ f.of # "event"
             /\ query' = [query EXCEPT ![f.of] = "answered"]
             /\ answer' = [answer EXCEPT ![f.of] = f.at]
             /\ UNCHANGED <<seen, informed>>
    /\ UNCHANGED <<actVars, draft, link, agentVars>>

DumpReturns(r) ==
    /\ query[r] = "answered"
    /\ Learn(answer[r])
    /\ query' = [query EXCEPT ![r] = "idle"]
    /\ answer' = [answer EXCEPT ![r] = None]
    /\ UNCHANGED <<actVars, draft, wire, link, agentVars>>

(* Timeout, cancellation, or an error of the agent such as no window.  An  *)
(* answer that is still to come would be dropped (Rpc).                    *)
DumpFails(r) ==
    /\ query[r] = "asked"
    /\ query' = [query EXCEPT ![r] = "idle"]
    /\ draft' = [draft EXCEPT ![r] = None]
    /\ \/ \E k \in DOMAIN wire : wire[k].of = r /\ wire' = RemoveAt(wire, k)
       \/ (\A k \in DOMAIN wire : wire[k].of # r) /\ UNCHANGED wire
    /\ UNCHANGED <<actVars, answer, seen, informed, link, agentVars>>

-----------------------------------------------------------------------------
(* The connection (module Connection), which keeps its ScreenState         *)

(* Calls fail and frames are lost; the agent goes on with what it has.     *)
Drop ==
    /\ link
    /\ link' = FALSE
    /\ pushing' = FALSE
    /\ pc' = [a \in Actors |-> IF pc[a] = "asked" THEN "lost" ELSE pc[a]]
    /\ query' = [r \in Readers |-> IF query[r] = "asked" THEN "idle" ELSE query[r]]
    /\ draft' = [r \in Readers |-> None]
    /\ wire' = <<>>
    /\ UNCHANGED <<tries, job, acts, answer, seen, informed, screen, package, dirty,
                   restarted>>

Reopen ==
    /\ ~ link
    /\ link' = TRUE
    /\ UNCHANGED <<actVars, screenVars, agentVars>>

-----------------------------------------------------------------------------
(* The agent                                                               *)

StreamOn ==
    /\ link
    /\ pushing' = TRUE
    /\ UNCHANGED <<actVars, screenVars, link, screen, package, dirty, restarted>>

Change ==
    /\ screen < MaxScreen
    /\ package' \in Packages \cup {None}
    /\ dirty' = TRUE
    /\ informed' = FALSE
    /\ UNCHANGED <<actVars, query, draft, answer, seen, wire, link, pushing,
                   screen, restarted>>

(* The burst is over: a fresh number, and an event with it.                *)
Settle ==
    /\ dirty
    /\ dirty' = FALSE
    /\ screen' = screen + 1
    /\ wire' = IF pushing THEN Append(wire, Frame("event", [Now EXCEPT !.screen = @ + 1]))
                          ELSE wire
    /\ UNCHANGED <<actVars, query, draft, answer, seen, informed, link, pushing,
                   package, restarted>>

(* A new life of the agent counts from zero.                               *)
Restart ==
    /\ ~ link
    /\ screen' = 0
    /\ dirty' = FALSE
    /\ informed' = FALSE
    /\ restarted' = TRUE
    /\ job' = [a \in Actors |-> [k \in 1..Attempts |->
                 IF job[a][k] \in {"queued", "found"} THEN "none" ELSE job[a][k]]]
    /\ UNCHANGED <<pc, tries, acts, query, draft, answer, seen, wire, link, pushing, package>>

-----------------------------------------------------------------------------

Init ==
    /\ pc = [a \in Actors |-> "idle"]
    /\ tries = [a \in Actors |-> 0]
    /\ job = [a \in Actors |-> [k \in 1..Attempts |-> "none"]]
    /\ acts = [a \in Actors |-> 0]
    /\ query = [r \in Readers |-> "idle"]
    /\ draft = [r \in Readers |-> None]
    /\ answer = [r \in Readers |-> None]
    /\ seen = [screen |-> -1, package |-> None]
    /\ informed = FALSE
    /\ link = TRUE /\ pushing = FALSE
    /\ wire = <<>>
    /\ screen = 0 /\ package \in Packages \cup {None} /\ dirty = FALSE
    /\ restarted = FALSE

Actions ==
    \E a \in Actors : \/ Act(a) \/ Answered(a) \/ Retry(a) \/ GiveUp(a)
                      \/ \E k \in 1..Attempts : AgentFinds(a, k) \/ AgentPerforms(a, k)
Screens ==
    \/ \E r \in Readers : AskDump(r) \/ AgentReads(r) \/ AgentSends(r)
                          \/ DumpReturns(r) \/ DumpFails(r)
    \/ Deliver
World == Drop \/ Reopen \/ StreamOn \/ Change \/ Settle \/ Restart

Next == Actions \/ Screens \/ World
Spec == Init /\ [][Next]_vars

-----------------------------------------------------------------------------
(* Properties                                                              *)

TypeOK ==
    /\ pc \in [Actors -> {"idle", "asked", "asleep", "refused", "ok", "stale",
                          "error", "lost"}]
    /\ tries \in [Actors -> 0..Attempts]
    /\ job \in [Actors -> [1..Attempts -> {"none", "queued", "found", "ok",
                                           "stale", "error"}]]
    /\ acts \in [Actors -> 0..Attempts]
    /\ query \in [Readers -> {"idle", "asked", "answered"}]
    /\ draft \in [Readers -> {None} \cup Observation]
    /\ answer \in [Readers -> {None} \cup Observation]
    /\ seen \in Observation
    /\ wire \in Seq([of : Readers \cup {"event"}, at : Observation])
    /\ screen \in 0..MaxScreen /\ package \in Packages \cup {None}
    /\ link \in BOOLEAN /\ pushing \in BOOLEAN /\ dirty \in BOOLEAN
    /\ informed \in BOOLEAN /\ restarted \in BOOLEAN

(* A node action is performed at most once, over all its retries, and the  *)
(* caller is told right: exactly once if it returns, not at all if it is   *)
(* refused or raises an error of the agent, Stale included.  Only after a  *)
(* timeout, a drop or a cancellation it cannot know.                       *)
ActsOnce ==
    \A a \in Actors :
        /\ acts[a] <= 1
        /\ pc[a] = "ok" => acts[a] = 1
        /\ pc[a] \in {"refused", "stale", "error", "asleep"} => acts[a] = 0

(* Once ScreenState has been told the agent's present screen, by an event  *)
(* or by a dump, no older dump or event that comes in afterwards takes it  *)
(* back, until the screen changes or the agent restarts.                   *)
ScreenSettles ==
    informed /\ ~ restarted =>
        /\ seen.screen = screen
        /\ package # None => seen.package = package

(* Device.find and find_all: whatever tree a dump has returned, the search *)
(* of it returns exactly the nodes the selector names, each once and in    *)
(* pre-order, though the containers it goes through may be nested; find    *)
(* returns the first.  Downward search and upward links agree.             *)
SearchIsExact == \A r \in Readers : query[r] = "answered" => ExactWithinBounds
=============================================================================
