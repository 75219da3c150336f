------------------------------ MODULE Executor ------------------------------
(***************************************************************************)
(* FleetExecutor.run: scenarios over a snapshot of the targets, under the  *)
(* global semaphore of the controller and an optional one of the run.      *)
(*                                                                         *)
(* A member of Runs is a place for one execution of run(); it is used      *)
(* again once nothing of the earlier execution is left.  <<r, i>> is the   *)
(* task that gather makes of _run_one for the i-th serial of run r.  The   *)
(* registry is read in one step of run() only, so what is attached is      *)
(* chosen there.  A scenario performs at most one node action, under       *)
(* RetryPolicy.                                                            *)
(***************************************************************************)
EXTENDS Integers, Sequences, SequencesExt, FiniteSets

CONSTANTS
    Runs,       \* executions of run() at a time
    Serials,    \* the configured devices
    Tagged,     \* those that carry the tag a run may name
    Lists,      \* the explicit lists a run may be given
    MaxTargets, \* bound: length of a list of serials
    GlobalCap,  \* config.concurrency
    RunCaps,    \* what each may be given as its argument concurrency, None for none
    Attempts,   \* config.retry.attempts
    Global,     \* names the semaphore of the controller
    None

ASSUME ExecutorAssumption ==
    /\ GlobalCap \in Nat \ {0} /\ Attempts \in Nat \ {0} /\ MaxTargets \in Nat
    /\ RunCaps \in [Runs -> SUBSET ((Nat \ {0}) \cup {None})] /\ None \notin Nat
    /\ Global \notin Runs /\ None \notin Runs \cup {Global}
    /\ Lists \subseteq Seq(Serials) /\ Tagged \subseteq Serials
    /\ \A l \in Lists : Len(l) <= MaxTargets
    /\ IsFiniteSet(Serials) /\ Cardinality(Serials) <= MaxTargets

VARIABLES
    phase,      \* where each run stands
    serials,    \* what its targets resolved to
    cap,        \* its argument concurrency
    results,    \* what it returned
    wanted,     \* history: the serials that its targets promise
    snapshot,   \* history: which of them were attached at that moment
    pc,         \* where each task stands
    seek,       \* the semaphore whose acquire() a task is in
    held,       \* the semaphores it has entered
    tries,      \* STALE answers to its node action
    sem         \* the value and the waiting futures of each semaphore

runVars == <<phase, serials, cap, results, wanted, snapshot>>
taskVars == <<pc, seek, held, tries, sem>>
vars == <<runVars, taskVars>>

Tasks == Runs \X (1..MaxTargets)
Sems == Runs \cup {Global}
Of(r) == {t \in Tasks : t[1] = r}
InScenario(t) == pc[t] \in {"running", "asleep", "aborting"}
Over(t) == pc[t] \in {"none", "ok", "error", "cancelled"}
Ended == {"done", "cancelled", "sunk"}
Outcome == {"ok", "error", "not connected"}

-----------------------------------------------------------------------------
(* asyncio.Semaphore                                                       *)

(* _wake_up_next: the permit passes to the future that has waited longest. *)
Wake(x) ==
    IF x.free > 0 /\ x.line # <<>>
    THEN [free |-> x.free - 1, line |-> Tail(x.line)]
    ELSE x
NoSemaphore == [free |-> 0, line |-> <<>>]
Put(x) == Wake([x EXCEPT !.free = @ + 1])

(* The line q when the futures of the tasks in S have left it.             *)
Without(q, S) ==
    LET upTo[k \in 0..Len(q)] ==
            IF k = 0 THEN <<>>
            ELSE IF q[k] \in S THEN upTo[k - 1] ELSE Append(upTo[k - 1], q[k])
    IN upTo[Len(q)]

Granted(t, s) == seek[t] = s /\ ~Contains(sem[s].line, t)

(* Nobody overtakes a waiter, not even one that has its permit and has not *)
(* resumed.                                                                *)
Locked(s) == sem[s].free = 0 \/ \E t \in Tasks : seek[t] = s

-----------------------------------------------------------------------------
(* _run_one and _invoke                                                    *)

Queue(t, s, x, h) ==
    /\ Locked(s)
    /\ pc' = [pc EXCEPT ![t] = "acquiring"]
    /\ seek' = [seek EXCEPT ![t] = s]
    /\ held' = [held EXCEPT ![t] = h]
    /\ sem' = [x EXCEPT ![s].line = Append(@, t)]

Invoke(t, x, h) ==
    /\ pc' = [pc EXCEPT ![t] = "running"]
    /\ seek' = [seek EXCEPT ![t] = None]
    /\ held' = [held EXCEPT ![t] = h \cup {Global}]
    /\ sem' = x

(* "async with self._semaphore", with the run's semaphore, if any, entered *)
(* already: h is what the task holds and x the semaphores as it leaves     *)
(* them.                                                                   *)
AskGlobal(t, x, h) ==
    \/ Queue(t, Global, x, h)
    \/ /\ ~Locked(Global)
       /\ Invoke(t, [x EXCEPT ![Global].free = @ - 1], h)

GlobalFirst(t) ==                                                  \* mutant
    \/ Queue(t, Global, sem, {})
    \/ /\ ~Locked(Global)
       /\ LET x == [sem EXCEPT ![Global].free = @ - 1]
          IN \/ Queue(t, t[1], x, {Global})
             \/ /\ ~Locked(t[1])
                /\ Invoke(t, [x EXCEPT ![t[1]].free = @ - 1], {t[1]})

RunCapOnly(t) ==                                                   \* mutant
    \/ Queue(t, t[1], sem, {})
    \/ /\ ~Locked(t[1])
       /\ pc' = [pc EXCEPT ![t] = "running"]
       /\ held' = [held EXCEPT ![t] = {t[1]}]
       /\ sem' = [sem EXCEPT ![t[1]].free = @ - 1]
       /\ UNCHANGED seek

AskRun(t) ==
    \/ Queue(t, t[1], sem, {})
    \/ /\ ~Locked(t[1])
       /\ AskGlobal(t, [sem EXCEPT ![t[1]].free = @ - 1], {t[1]})

(* The first step of a task; gather scheduled them in order.               *)
Begin(t) ==
    /\ pc[t] = "new"
    /\ \A u \in Of(t[1]) : u[2] < t[2] => pc[u] # "new"
    /\ \/ cap[t[1]] = None /\ AskGlobal(t, sem, {})
       \/ cap[t[1]] # None /\ AskRun(t)
    /\ UNCHANGED <<runVars, tries>>

(* A waiter resumes with the permit it was given.                          *)
Enter(t) ==
    /\ pc[t] = "acquiring"
    /\ \E s \in Sems :
          LET x == [sem EXCEPT ![s] = Wake(@)]
          IN /\ Granted(t, s)
             /\ \/ s = Global /\ Invoke(t, x, held[t])
                \/ s # Global /\ AskGlobal(t, x, held[t] \cup {s})
    /\ UNCHANGED <<runVars, tries>>

(* The task ends, leaving the semaphores it has entered; acquire() gives   *)
(* back a permit that was granted before the cancellation arrived.  The    *)
(* outcome of a task that outlives its run is dropped.                     *)
Exit(t, result) ==
    /\ pc' = [pc EXCEPT ![t] = IF phase[t[1]] \in Ended THEN "none" ELSE result]
    /\ seek' = [seek EXCEPT ![t] = None]
    /\ held' = [held EXCEPT ![t] = {}]
    /\ tries' = [tries EXCEPT ![t] = 0]
    /\ sem' = [s \in Sems |-> IF s \in held[t] \cup {seek[t]}
                              THEN Put(sem[s]) ELSE sem[s]]
    /\ UNCHANGED runVars

(* The scenario returns, raises an Exception, or lets a CancelledError     *)
(* out, for instance of a task of its own that it cancelled and awaited.   *)
Return(t) == pc[t] = "running" /\ Exit(t, "ok")
Raise(t) == pc[t] = "running" /\ Exit(t, "error")
CancelledInside(t) == pc[t] = "running" /\ Exit(t, "cancelled")

-----------------------------------------------------------------------------
(* RetryPolicy.run, inside a scenario                                      *)

StaleForEver(t) ==                                                 \* mutant
    /\ pc[t] = "running"
    /\ pc' = [pc EXCEPT ![t] = "asleep"]
    /\ UNCHANGED <<runVars, seek, held, tries, sem>>

Stale(t) ==
    /\ pc[t] = "running"
    /\ \/ /\ tries[t] + 1 < Attempts
          /\ pc' = [pc EXCEPT ![t] = "asleep"]
          /\ tries' = [tries EXCEPT ![t] = @ + 1]
          /\ UNCHANGED <<runVars, seek, held, sem>>
       \/ /\ tries[t] + 1 >= Attempts
          /\ Exit(t, "error")

Retry(t) ==
    /\ pc[t] = "asleep"
    /\ pc' = [pc EXCEPT ![t] = "running"]
    /\ UNCHANGED <<runVars, seek, held, tries, sem>>

-----------------------------------------------------------------------------
(* run()                                                                   *)

(* FleetController._resolve_serials.  A predicate over the tags selects    *)
(* configured devices, as a tag does.                                      *)
Selections == {[by |-> "all"], [by |-> "tag"]}
              \cup [by : {"list"}, list : Lists]
OnlyAttached(sel, attached) ==                                     \* mutant
    CASE sel.by = "all"  -> SetToSeq(attached)
      [] sel.by = "tag"  -> SetToSeq(Tagged \cap attached)
      [] sel.by = "list" -> sel.list
Resolve(sel, attached) ==
    CASE sel.by = "all"  -> SetToSeq(attached)
      [] sel.by = "tag"  -> SetToSeq(Tagged)
      [] sel.by = "list" -> sel.list

(* The same as the documentation promises it, for ResultsComplete.         *)
Promised(sel, attached) ==
    CASE sel.by = "all"  -> attached
      [] sel.by = "tag"  -> Tagged
      [] sel.by = "list" -> ToSet(sel.list)

(* The semaphore of the run is made and a task for every serial that has a *)
(* device now.                                                             *)
Start(r) ==
    /\ \A t \in Of(r) : Over(t)
    /\ phase[r] \in Ended \cup {"idle"}
    /\ \E sel \in Selections, attached \in SUBSET Serials, c \in RunCaps[r] :
          LET targets == Resolve(sel, attached)
              Connected(i) == i <= Len(targets) /\ targets[i] \in attached
          IN /\ serials' = [serials EXCEPT ![r] = targets]
             /\ wanted' = [wanted EXCEPT ![r] = Promised(sel, attached)]
             /\ snapshot' = [snapshot EXCEPT ![r] = attached \cap wanted'[r]]
             /\ cap' = [cap EXCEPT ![r] = c]
             /\ pc' = [t \in Tasks |->
                          IF t \notin Of(r) THEN pc[t]
                          ELSE IF Connected(t[2]) THEN "new" ELSE "none"]
             /\ sem' = [sem EXCEPT ![r] =
                          IF c = None THEN NoSemaphore
                          ELSE [free |-> c, line |-> <<>>]]
    /\ phase' = [phase EXCEPT ![r] = "gather"]
    /\ results' = [results EXCEPT ![r] = None]
    /\ UNCHANGED <<seek, held, tries>>

FirstOver(r) == \E t \in Of(r) : pc[t] \in {"ok", "error", "cancelled"} \* mutant

(* The future of gather is done: a task ended as cancelled, or all ended.  *)
Sunk(r) == \E t \in Of(r) : pc[t] = "cancelled"
Gathered(r) == Sunk(r) \/ \A t \in Of(r) : Over(t)

(* What run() returns: of several outcomes for a serial the last one.      *)
Outcomes(r) ==
    [s \in ToSet(serials[r]) |->
        LET mine == {t \in Of(r) : /\ pc[t] # "none"
                                   /\ serials[r][t[2]] = s}
        IN IF mine = {} THEN "not connected"
           ELSE pc[CHOOSE t \in mine : \A u \in mine : u[2] <= t[2]]]

(* run() is over: the outcomes gather has collected go with it, and once   *)
(* no task is left its semaphore.                                          *)
Leave(r, how) ==
    /\ phase' = [phase EXCEPT ![r] = how]
    /\ pc' = [t \in Tasks |-> IF t \in Of(r) /\ Over(t) THEN "none" ELSE pc[t]]
    /\ LET gone == \A t \in Of(r) : Over(t)
       IN /\ cap' = [cap EXCEPT ![r] = IF gone THEN None ELSE @]
          /\ sem' = [sem EXCEPT ![r] = IF gone THEN NoSemaphore ELSE @]
    /\ UNCHANGED <<seek, held, tries>>

LeaveRaising(r, how) ==
    /\ Leave(r, how)
    /\ serials' = [serials EXCEPT ![r] = <<>>]
    /\ wanted' = [wanted EXCEPT ![r] = {}]
    /\ snapshot' = [snapshot EXCEPT ![r] = {}]
    /\ UNCHANGED results

Finish(r) ==
    /\ Gathered(r)
    /\ \/ /\ phase[r] = "gather" /\ ~Sunk(r)
          /\ Leave(r, "done")
          /\ results' = [results EXCEPT ![r] = Outcomes(r)]
          /\ UNCHANGED <<serials, wanted, snapshot>>
       \/ phase[r] = "gather" /\ Sunk(r) /\ LeaveRaising(r, "sunk")
       \/ phase[r] = "cancelling" /\ LeaveRaising(r, "cancelled")

(* The task awaiting run() is cancelled.  gather cancels what has not      *)
(* ended: a waiting future leaves its line, one with a permit keeps it     *)
(* until the task runs.                                                    *)
OnlyBegun(r) == {t \in Of(r) : pc[t] \in {"acquiring", "running", "asleep"}} \* mutant
Cancellable(r) == {t \in Of(r) : pc[t] \in {"new", "acquiring", "running", "asleep"}}
Cancel(r) ==
    /\ phase[r] = "gather"
    /\ ~Gathered(r)
    /\ phase' = [phase EXCEPT ![r] = "cancelling"]
    /\ pc' = [t \in Tasks |-> IF t \notin Cancellable(r) THEN pc[t]
                              ELSE IF InScenario(t) THEN "aborting"
                              ELSE "stopping"]
    /\ seek' = [t \in Tasks |->
                   IF t \in Cancellable(r) /\ (\A s \in Sems : ~Granted(t, s))
                   THEN None ELSE seek[t]]
    /\ sem' = [s \in Sems |-> [sem[s] EXCEPT !.line = Without(@, Cancellable(r))]]
    /\ UNCHANGED <<serials, cap, results, wanted, snapshot, held, tries>>

(* It is cancelled when the future of gather is done and run() has not     *)
(* resumed: the outcomes are lost, and nobody else is cancelled.           *)
CancelLate(r) ==
    /\ phase[r] = "gather"
    /\ Gathered(r)
    /\ \E t \in Of(r) : pc[t] # "none"
    /\ LeaveRaising(r, IF Sunk(r) THEN "sunk" ELSE "cancelled")

(* The CancelledError unwinds a task outside and inside its scenario; the  *)
(* latter may clean up, and may turn it into a value (or an Exception,     *)
(* which makes no difference to a cancelled run).                          *)
Unwind(t) == pc[t] = "stopping" /\ Exit(t, "cancelled")
Abort(t) == pc[t] = "aborting" /\ \E o \in {"cancelled", "ok"} : Exit(t, o)

-----------------------------------------------------------------------------
Init ==
    /\ phase = [r \in Runs |-> "idle"]
    /\ serials = [r \in Runs |-> <<>>]
    /\ cap = [r \in Runs |-> None]
    /\ results = [r \in Runs |-> None]
    /\ wanted = [r \in Runs |-> {}]
    /\ snapshot = [r \in Runs |-> {}]
    /\ pc = [t \in Tasks |-> "none"]
    /\ seek = [t \in Tasks |-> None]
    /\ held = [t \in Tasks |-> {}]
    /\ tries = [t \in Tasks |-> 0]
    /\ sem = [s \in Sems |-> IF s = Global THEN [free |-> GlobalCap, line |-> <<>>]
                             ELSE NoSemaphore]

Scenario(t) == Return(t) \/ Raise(t) \/ CancelledInside(t) \/ Stale(t)

TaskStep(t) == Begin(t) \/ Enter(t) \/ Retry(t) \/ Scenario(t) \/ Unwind(t) \/ Abort(t)

Next ==
    \/ \E r \in Runs : Start(r) \/ Finish(r) \/ Cancel(r) \/ CancelLate(r)
    \/ \E t \in Tasks : TaskStep(t)

Spec == Init /\ [][Next]_vars

(* The event loop runs what is ready, the retry's sleep ends, and a        *)
(* scenario ends or gets the answer to its node action.                    *)
Fairness ==
    /\ \A r \in Runs : WF_vars(Finish(r))
    /\ \A t \in Tasks : WF_vars(TaskStep(t))
FairSpec == Spec /\ Fairness

-----------------------------------------------------------------------------
(* The type invariant: the values every variable of run(), its tasks and   *)
(* the semaphores can take.                                                *)
TypeOK ==
    /\ phase \in [Runs -> Ended \cup {"idle", "gather", "cancelling"}]
    /\ \A r \in Runs : serials[r] \in Seq(Serials) /\ Len(serials[r]) <= MaxTargets
    /\ \A r \in Runs : cap[r] \in RunCaps[r] \cup {None}
    /\ \A r \in Runs :
          results[r] # None =>
             /\ DOMAIN results[r] = ToSet(serials[r])
             /\ \A s \in DOMAIN results[r] : results[r][s] \in Outcome
    /\ wanted \in [Runs -> SUBSET Serials]
    /\ snapshot \in [Runs -> SUBSET Serials]
    /\ pc \in [Tasks -> {"none", "new", "acquiring", "running", "asleep",
                         "stopping", "aborting", "ok", "error", "cancelled"}]
    /\ seek \in [Tasks -> Sems \cup {None}]
    /\ held \in [Tasks -> SUBSET Sems]
    /\ tries \in [Tasks -> 0..Attempts - 1]
    /\ \A s \in Sems : sem[s].free \in Nat /\ ToSet(sem[s].line) \subseteq Tasks

(* However runs overlap, are cancelled or sink, at most config.concurrency *)
(* scenarios are under way in the fleet, and at most "concurrency" of one  *)
(* run that was given a cap (executor.py:194-198).                         *)
CapHolds ==
    /\ Cardinality({t \in Tasks : InScenario(t)}) <= GlobalCap
    /\ \A r \in Runs : cap[r] # None =>
          Cardinality({t \in Of(r) : InScenario(t)}) <= cap[r]

(* Every permit of the fleet that is not free is with a scenario under     *)
(* way, or on its way to a task that was waiting for nothing else: none is *)
(* lost by a cancellation, and none is kept idle by a task that still      *)
(* waits for a permit of its own run.                                      *)
GlobalPermitsWork ==
    GlobalCap - sem[Global].free =
        Cardinality({t \in Tasks : InScenario(t) \/ Granted(t, Global)})

(* A run that returns has an outcome for each serial its targets promise   *)
(* and for no other: for a tag, all configured members of it, the ones     *)
(* that were not connected at the start reported as such, and only those;  *)
(* and it leaves no task behind (executor.py:172-186,                      *)
(* controller.py:217-239).                                                 *)
ResultsComplete ==
    \A r \in Runs : phase[r] = "done" =>
        /\ DOMAIN results[r] = wanted[r]
        /\ \A s \in DOMAIN results[r] :
              results[r][s] = "not connected" <=> s \notin snapshot[r]
        /\ \A t \in Of(r) : Over(t)

(* Once gather has passed on the cancellation of run(), no scenario of     *)
(* that run starts, whether its task had not begun, was waiting or had     *)
(* been given a permit (executor.py:181).                                  *)
CancelledRunStartsNothing ==
    [][\A t \in Tasks :
          phase[t[1]] \in {"cancelling", "cancelled"} /\ ~InScenario(t)
          => pc'[t] # "running"]_vars

(* Every run ends, with results or with a CancelledError: no permit is     *)
(* lost, no waiter is passed over for ever, and a STALE answer is retried  *)
(* finitely often.                                                         *)
RunsEnd ==
    \A r \in Runs : phase[r] \in {"gather", "cancelling"} ~> phase[r] \in Ended
=============================================================================
