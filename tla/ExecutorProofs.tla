--------------------------- MODULE ExecutorProofs ---------------------------
(***************************************************************************)
(* What Executor promises for any runs, targets and caps.  CancelInv: a    *)
(* cancelled run starts no scenario.  PermitInv: every permit is free or   *)
(* with exactly one task, which is what bounds the scenarios under way.    *)
(* ResultInv: gather has a task for each attached serial, and run()        *)
(* returns an outcome for every one.  Together they give the types.        *)
(***************************************************************************)
EXTENDS Executor, FiniteSetTheorems, SequenceTheorems, TLAPS

Phases == Ended \cup {"idle", "gather", "cancelling"}
Places == {"none", "new", "acquiring", "running", "asleep", "stopping",
           "aborting", "ok", "error", "cancelled"}

(* No task of a cancelled run is where it could still come to its scenario *)
(* from: cancelling reached every one of them, whatever it was waiting for.*)
Quiet == {"none", "stopping", "aborting", "ok", "error", "cancelled"}
Reached ==
    \A t \in Tasks :
        phase[t[1]] \in {"cancelling", "cancelled"} => pc[t] \in Quiet

(* What cancelling a run rests on.                                         *)
CancelInv ==
    /\ phase \in [Runs -> Phases]
    /\ pc \in [Tasks -> Places]
    /\ Reached

(* Nothing is cancelled before it has begun (Executor's Init).             *)
LEMMA InitReached == Init => CancelInv
  BY DEF Init, CancelInv, Reached, Phases, Places, Ended, Tasks

(* A step of a task that has not been stopped leaves the phases alone, and *)
(* moves that task only.                                                   *)
LEMMA OneTask ==
  ASSUME CancelInv, NEW t \in Tasks, NEW p \in Places,
         pc' = [pc EXCEPT ![t] = p], UNCHANGED phase,
         pc[t] \in Quiet => p \in Quiet
  PROVE  CancelInv'
<1>1. t[1] \in Runs
  BY DEF Tasks
<1>2. \A u \in Tasks : pc'[u] = IF u = t THEN p ELSE pc[u]
  BY DEF CancelInv
<1> QED
  BY <1>1, <1>2 DEF CancelInv, Reached

(* What Exit does to the task: it is over, with a result or none.          *)
LEMMA ExitReached ==
  ASSUME CancelInv, NEW t \in Tasks, NEW o \in {"ok", "error", "cancelled"}, Exit(t, o)
  PROVE  CancelInv'
<1>1. PICK p \in {"none", o} : pc' = [pc EXCEPT ![t] = p]
  BY DEF Exit
<1>2. phase' = phase
  BY DEF Exit, runVars
<1> QED
  BY <1>1, <1>2, OneTask DEF Quiet, Places

(* Asking for the global permit parks the task or lets it in.              *)
LEMMA AskPlaces ==
  ASSUME NEW t, NEW x, NEW h, AskGlobal(t, x, h)
  PROVE  \E p \in {"acquiring", "running"} : pc' = [pc EXCEPT ![t] = p]
  BY DEF AskGlobal, Queue, Invoke

(* Every action keeps the invariant: the tasks one by one, then run().     *)
LEMMA NextReached == CancelInv /\ [Next]_vars => CancelInv'
<1> SUFFICES ASSUME CancelInv, [Next]_vars PROVE CancelInv'
  OBVIOUS
<1>1. ASSUME NEW t \in Tasks, Begin(t) PROVE CancelInv'
  <2>1. \E p \in {"acquiring", "running"} : pc' = [pc EXCEPT ![t] = p]
    BY <1>1, AskPlaces DEF Begin, AskRun, Queue
  <2>2. phase' = phase /\ pc[t] = "new"
    BY <1>1 DEF Begin, runVars
  <2> QED
    BY <2>1, <2>2, OneTask DEF Quiet, Places
<1>2. ASSUME NEW t \in Tasks, Enter(t) PROVE CancelInv'
  <2>1. \E p \in {"acquiring", "running"} : pc' = [pc EXCEPT ![t] = p]
    BY <1>2, AskPlaces DEF Enter, Invoke
  <2>2. phase' = phase /\ pc[t] = "acquiring"
    BY <1>2 DEF Enter, runVars
  <2> QED
    BY <2>1, <2>2, OneTask DEF Quiet, Places
<1>3. ASSUME NEW t \in Tasks, Retry(t) PROVE CancelInv'
  BY <1>3, OneTask DEF Retry, runVars, Quiet, Places
<1>4. ASSUME NEW t \in Tasks, Scenario(t) PROVE CancelInv'
  <2>1. CASE \E o \in {"ok", "error", "cancelled"} : Exit(t, o)
    BY <2>1, ExitReached
  <2>2. CASE /\ pc[t] = "running" /\ pc' = [pc EXCEPT ![t] = "asleep"]
             /\ UNCHANGED runVars
    BY <2>2, OneTask DEF runVars, Quiet, Places
  <2> QED
    BY <1>4, <2>1, <2>2 DEF Scenario, Return, Raise, CancelledInside, Stale
<1>5. ASSUME NEW t \in Tasks, Unwind(t) \/ Abort(t) PROVE CancelInv'
  BY <1>5, ExitReached DEF Unwind, Abort
<1>6. ASSUME NEW r \in Runs, Start(r) PROVE CancelInv'
  <2>1. phase' = [phase EXCEPT ![r] = "gather"]
    BY <1>6 DEF Start
  <2>2. /\ pc' \in [Tasks -> Places]
        /\ \A t \in Tasks : t \notin Of(r) => pc'[t] = pc[t]
    BY <1>6 DEF Start, CancelInv, Places
  <2> QED
    BY <2>1, <2>2 DEF CancelInv, Reached, Phases, Of, Tasks
<1>7. ASSUME NEW r \in Runs, NEW how \in Ended, Leave(r, how),
             how = "cancelled" => \A t \in Of(r) : pc[t] \in Quiet
      PROVE  CancelInv'
  <2>1. phase' = [phase EXCEPT ![r] = how]
    BY <1>7 DEF Leave
  <2>2. \A t \in Tasks : pc'[t] \in {"none", pc[t]}
    BY <1>7 DEF Leave
  <2>3. pc' \in [Tasks -> Places]
    BY <1>7 DEF Leave, CancelInv, Places
  <2>4. ASSUME NEW t \in Tasks, phase'[t[1]] \in {"cancelling", "cancelled"}
        PROVE  pc'[t] \in Quiet
    <3>1. t[1] \in Runs
      BY DEF Tasks
    <3>2. pc[t] \in Quiet
      <4>1. CASE t[1] = r
        BY <4>1, <1>7, <2>1, <2>4, <3>1 DEF CancelInv, Of, Ended
      <4>2. CASE t[1] # r
        BY <4>2, <2>1, <2>4, <3>1 DEF CancelInv, Reached
      <4> QED
        BY <4>1, <4>2
    <3> QED
      BY <3>2, <2>2 DEF Quiet
  <2>5. phase' \in [Runs -> Phases]
    BY <2>1 DEF CancelInv, Phases
  <2> QED
    BY <2>3, <2>4, <2>5 DEF CancelInv, Reached
<1>8. ASSUME NEW r \in Runs, Finish(r) PROVE CancelInv'
  <2>1. CASE phase[r] = "gather"
    BY <2>1, <1>7, <1>8 DEF Finish, LeaveRaising, Ended
  <2>2. CASE phase[r] = "cancelling"
    <3>1. \A t \in Of(r) : pc[t] \in Quiet
      BY <2>2 DEF CancelInv, Reached, Of
    <3> QED
      BY <2>2, <3>1, <1>7, <1>8 DEF Finish, LeaveRaising, Ended
  <2> QED
    BY <1>8, <2>1, <2>2 DEF Finish
<1>9. ASSUME NEW r \in Runs, CancelLate(r) PROVE CancelInv'
  <2>1. ~Sunk(r) => \A t \in Of(r) : pc[t] \in Quiet
    BY <1>9 DEF CancelLate, Gathered, Over, Quiet
  <2> QED
    BY <2>1, <1>7, <1>9 DEF CancelLate, LeaveRaising, Ended
<1>10. ASSUME NEW r \in Runs, Cancel(r) PROVE CancelInv'
  <2>1. phase' = [phase EXCEPT ![r] = "cancelling"]
    BY <1>10 DEF Cancel
  <2>2. \A t \in Tasks : /\ t \in Cancellable(r) => pc'[t] \in {"aborting", "stopping"}
                         /\ t \notin Cancellable(r) => pc'[t] = pc[t]
    BY <1>10 DEF Cancel
  <2>3. pc' \in [Tasks -> Places]
    BY <1>10 DEF Cancel, CancelInv, Places
  <2>4. \A t \in Of(r) : pc'[t] \in Quiet
    BY <2>2 DEF CancelInv, Of, Cancellable, Places, Quiet
  <2> QED
    BY <2>1, <2>2, <2>3, <2>4 DEF CancelInv, Reached, Phases, Of, Cancellable, Tasks
<1>11. CASE UNCHANGED vars
  BY <1>11 DEF vars, runVars, taskVars, CancelInv, Reached
<1> QED
  BY <1>1, <1>2, <1>3, <1>4, <1>5, <1>6, <1>8, <1>9, <1>10, <1>11
  DEF Next, TaskStep

(* The heart of the property: a task enters its scenario only from "new",  *)
(* from a line, or back from a retry; the tasks of Start have not begun.   *)
LEMMA StartsNothing ==
  ASSUME CancelInv, [Next]_vars, NEW t \in Tasks,
         phase[t[1]] \in {"cancelling", "cancelled"}, ~InScenario(t)
  PROVE  pc'[t] # "running"
<1>1. pc[t] \in Quiet /\ pc[t] # "running"
  BY DEF CancelInv, Reached, Quiet
<1>2. CASE UNCHANGED vars
  BY <1>1, <1>2 DEF vars, taskVars
<1>3. CASE \E u \in Tasks : Begin(u) \/ Enter(u) \/ Retry(u)
  <2>1. PICK u \in Tasks : Begin(u) \/ Enter(u) \/ Retry(u)
    BY <1>3
  <2>2. pc[u] \notin Quiet
    BY <2>1 DEF Begin, Enter, Retry, Quiet
  <2>3. \E p : pc' = [pc EXCEPT ![u] = p]
    BY <2>1, AskPlaces DEF Begin, Enter, Retry, AskRun, Queue, Invoke
  <2> QED
    BY <1>1, <2>2, <2>3 DEF CancelInv
<1>4. CASE \E u \in Tasks : Scenario(u) \/ Unwind(u) \/ Abort(u)
  <2>1. PICK u \in Tasks : Scenario(u) \/ Unwind(u) \/ Abort(u)
    BY <1>4
  <2>2. \E p : p # "running" /\ pc' = [pc EXCEPT ![u] = p]
    BY <2>1 DEF Scenario, Return, Raise, CancelledInside, Stale, Unwind, Abort, Exit
  <2> QED
    BY <1>1, <2>2 DEF CancelInv
<1>5. CASE \E r \in Runs : Start(r)
  <2>1. PICK r \in Runs : Start(r)
    BY <1>5
  <2>2. pc'[t] \in {pc[t], "new", "none"}
    BY <2>1 DEF Start
  <2> QED
    BY <1>1, <2>2
<1>6. CASE \E r \in Runs : Finish(r) \/ CancelLate(r) \/ Cancel(r)
  <2>1. PICK r \in Runs : Finish(r) \/ CancelLate(r) \/ Cancel(r)
    BY <1>6
  <2>2. pc'[t] \in {pc[t], "none", "aborting", "stopping"}
    BY <2>1 DEF Finish, CancelLate, LeaveRaising, Leave, Cancel
  <2> QED
    BY <1>1, <2>2
<1> QED
  BY <1>2, <1>3, <1>4, <1>5, <1>6 DEF Next, TaskStep

(* Once gather has passed on the cancellation of run(), no scenario of     *)
(* that run starts (executor.py:181, 188-198).                             *)
THEOREM CancelledRunStartsNothingHolds == Spec => CancelledRunStartsNothing
<1>1. CancelInv /\ [Next]_vars =>
        [\A t \in Tasks :
            phase[t[1]] \in {"cancelling", "cancelled"} /\ ~InScenario(t)
            => pc'[t] # "running"]_vars
  BY StartsNothing
<1> QED
  BY <1>1, InitReached, NextReached, PTL DEF Spec, CancelledRunStartsNothing

-----------------------------------------------------------------------------
(***************************************************************************)
(* Induction over the naturals, stated for a set instead of an operator.   *)
(***************************************************************************)
LEMMA Least ==
  ASSUME NEW T, T \subseteq Nat, T # {}
  PROVE  \E x \in T : \A y \in T : ~ (y < x)
<1> DEFINE R == OpToRel(<, Nat)
<1>1. IsWellFoundedOn(R, Nat)
  BY NatLessThanWellFounded
<1>2. \A x, y \in Nat : x < y => <<x, y>> \in R
  BY DEF OpToRel
<1> HIDE DEF R
<1>3. \E x \in T : \A y \in T : ~ (<<y, x>> \in R)
  BY <1>1, WFMin
<1> QED
  BY <1>2, <1>3

(* A set with 0 that contains with n also n + 1 contains every number.     *)
LEMMA Counting ==
  ASSUME NEW T, 0 \in T, \A n \in Nat : n \in T => n + 1 \in T
  PROVE  Nat \subseteq T
<1> SUFFICES ASSUME Nat \ T # {} PROVE FALSE
  OBVIOUS
<1>1. PICK x \in Nat \ T : \A y \in Nat \ T : ~ (y < x)
  BY Least
<1>2. x # 0 /\ x - 1 \in Nat /\ x - 1 < x /\ (x - 1) + 1 = x
  BY <1>1
<1> QED
  BY <1>1, <1>2

(* A set of numbers up to n has a largest one.                             *)
LEMMA Greatest ==
  ASSUME NEW n \in Nat, NEW T, T \subseteq 1..n, T # {}
  PROVE  \E x \in T : \A y \in T : y <= x
<1> DEFINE D == {d \in Nat : n - d \in T}
<1>1. PICK z \in T : TRUE
  OBVIOUS
<1>2. n - z \in Nat /\ n - (n - z) = z
  BY <1>1
<1>3. n - z \in D
  BY <1>1, <1>2
<1>4. PICK d \in D : \A e \in D : ~ (e < d)
  BY <1>3, Least
<1>5. ASSUME NEW y \in T PROVE y <= n - d
  <2>1. n - y \in Nat /\ n - (n - y) = y /\ d \in Nat
    BY <1>4
  <2>2. ~ (n - y < d)
    BY <1>4, <2>1
  <2> QED
    BY <2>1, <2>2
<1>6. n - d \in T
  BY <1>4
<1> QED
  BY <1>5, <1>6

(* A line in which nobody stands twice.                                    *)
Proper(q) ==
    q \in Seq(Tasks) /\ \A i, j \in 1..Len(q) : q[i] = q[j] => i = j

(* Who joins a line stands in it once, at its end.                         *)
LEMMA ProperAppend ==
  ASSUME NEW q, Proper(q), NEW t \in Tasks, ~ Contains(q, t)
  PROVE  /\ Proper(Append(q, t))
         /\ \A u : Contains(Append(q, t), u) <=> Contains(q, u) \/ u = t
<1>1. /\ Append(q, t) \in Seq(Tasks) /\ Len(q) \in Nat /\ Len(Append(q, t)) = Len(q) + 1
      /\ \A k \in 1..Len(q) : Append(q, t)[k] = q[k]
      /\ Append(q, t)[Len(q) + 1] = t
  BY AppendProperties DEF Proper
<1>2. \A k \in 1..Len(q) : q[k] # t
  BY DEF Contains
<1>3. \A k : k \in 1..Len(Append(q, t)) <=> k \in 1..Len(q) \/ k = Len(q) + 1
  BY <1>1
<1>4. Proper(Append(q, t))
  BY <1>1, <1>2, <1>3 DEF Proper
<1>5. \A u : Contains(Append(q, t), u) <=> Contains(q, u) \/ u = t
  BY <1>1, <1>3 DEF Contains
<1> QED
  BY <1>4, <1>5

(* Who leaves from the front stands in the line no more.                   *)
LEMMA ProperTail ==
  ASSUME NEW q, Proper(q), q # <<>>
  PROVE  /\ Proper(Tail(q)) /\ Head(q) \in Tasks /\ Contains(q, Head(q))
         /\ \A u : Contains(Tail(q), u) <=> Contains(q, u) /\ u # Head(q)
<1>1. /\ Tail(q) \in Seq(Tasks) /\ Head(q) = q[1] /\ q[1] \in Tasks
      /\ Len(q) \in Nat /\ Len(q) # 0 /\ Len(Tail(q)) = Len(q) - 1
      /\ \A k \in 1..Len(q) - 1 : Tail(q)[k] = q[k + 1]
  BY HeadTailProperties DEF Proper
<1>2. 1 \in 1..Len(q)
  BY <1>1
<1>3. \A k \in 1..Len(Tail(q)) : k + 1 \in 1..Len(q) /\ Tail(q)[k] = q[k + 1] /\ k + 1 # 1
  BY <1>1
<1>4. \A k \in 1..Len(q) : k # 1 => k - 1 \in 1..Len(Tail(q)) /\ Tail(q)[k - 1] = q[k]
  BY <1>1
<1>5. Proper(Tail(q))
  <2>1. ASSUME NEW i \in 1..Len(Tail(q)), NEW j \in 1..Len(Tail(q)), Tail(q)[i] = Tail(q)[j]
        PROVE  i = j
    <3>1. i + 1 = j + 1
      BY <1>3, <2>1 DEF Proper
    <3> QED
      BY <1>1, <3>1
  <2> QED
    BY <1>1, <2>1 DEF Proper
<1>6. Contains(q, Head(q))
  BY <1>1, <1>2 DEF Contains
<1>7. ASSUME NEW u, Contains(Tail(q), u) PROVE Contains(q, u) /\ u # Head(q)
  <2>1. PICK k \in 1..Len(Tail(q)) : Tail(q)[k] = u
    BY <1>7 DEF Contains
  <2>2. k + 1 \in 1..Len(q) /\ q[k + 1] = u /\ k + 1 # 1
    BY <1>3, <2>1
  <2> QED
    BY <1>1, <1>2, <2>2 DEF Contains, Proper
<1>8. ASSUME NEW u, Contains(q, u), u # Head(q) PROVE Contains(Tail(q), u)
  <2>1. PICK k \in 1..Len(q) : q[k] = u
    BY <1>8 DEF Contains
  <2>2. k # 1
    BY <1>1, <1>8, <2>1
  <2> QED
    BY <1>4, <2>1, <2>2 DEF Contains
<1> QED
  BY <1>1, <1>5, <1>6, <1>7, <1>8

(* Without(q, S) is q without the members of S.                            *)
LEMMA WithoutIs ==
  ASSUME NEW q, Proper(q), NEW S
  PROVE  /\ Proper(Without(q, S))
         /\ \A u : Contains(Without(q, S), u) <=> Contains(q, u) /\ u \notin S
<1> DEFINE Step(g, k) == IF k = 0 THEN <<>>
                         ELSE IF q[k] \in S THEN g[k - 1] ELSE Append(g[k - 1], q[k])
           G(n, g) == g = [k \in 0..n |-> Step(g, k)]
           T == {n \in Nat : \E g : G(n, g)}
           f == CHOOSE g : G(Len(q), g)
<1>1. Len(q) \in Nat /\ q \in Seq(Tasks)
  BY DEF Proper
<1>2. 0 \in T
  <2> DEFINE g == [k \in 0..0 |-> <<>>]
  <2>1. G(0, g)
    OBVIOUS
  <2> QED
    BY <2>1
<1>3. ASSUME NEW n \in Nat, n \in T PROVE n + 1 \in T
  <2>1. PICK g : G(n, g)
    BY <1>3
  <2> DEFINE h == [k \in 0..n + 1 |-> IF k = n + 1 THEN Step(g, n + 1) ELSE g[k]]
  <2>2. \A k \in 0..n + 1 : h[k] = IF k = n + 1 THEN Step(g, n + 1) ELSE g[k]
    OBVIOUS
  <2>3. \A k \in 0..n : h[k] = g[k] /\ k \in 0..n + 1 /\ k # n + 1
    BY <2>2
  <2>4. \A k \in 0..n + 1 : k # 0 => k - 1 \in 0..n
    OBVIOUS
  <2>5. \A k \in 0..n + 1 : Step(h, k) = Step(g, k)
    BY <2>3, <2>4
  <2>6. \A k \in 0..n : g[k] = Step(g, k)
    <3> HIDE DEF Step
    <3> QED
      BY <2>1
  <2>7. \A k \in 0..n + 1 : k = n + 1 \/ k \in 0..n
    OBVIOUS
  <2>8. h = [k \in 0..n + 1 |-> h[k]]
    OBVIOUS
  <2> HIDE DEF Step, h
  <2>9. \A k \in 0..n + 1 : h[k] = Step(h, k)
    BY <2>2, <2>3, <2>5, <2>6, <2>7
  <2>10. h = [k \in 0..n + 1 |-> Step(h, k)]
    BY <2>8, <2>9
  <2> QED
    BY <2>10
<1>4. Len(q) \in T
  <2> HIDE DEF T
  <2> QED
    BY <1>1, <1>2, <1>3, Counting
<1>5. G(Len(q), f)
  BY <1>4
<1>6. Without(q, S) = f[Len(q)]
  BY DEF Without
<1> HIDE DEF f
<1>7. /\ f[0] = <<>>
      /\ \A k \in 0..Len(q) - 1 :
            f[k + 1] = IF q[k + 1] \in S THEN f[k] ELSE Append(f[k], q[k + 1])
  <2>1. \A k \in 0..Len(q) : f[k] = Step(f, k)
    BY <1>5
  <2>2. \A k \in 0..Len(q) - 1 : k + 1 \in 0..Len(q) /\ k + 1 # 0 /\ (k + 1) - 1 = k
    BY <1>1
  <2> QED
    BY <1>1, <2>1, <2>2
<1> HIDE DEF G, T
<1> DEFINE Good(k) == /\ Proper(f[k])
                      /\ \A u : Contains(f[k], u) <=>
                                   u \notin S /\ \E i \in 1..k : q[i] = u
           U == {k \in Nat : k <= Len(q) => Good(k)}
<1>8. 0 \in U
  <2>1. Proper(f[0]) /\ \A u : ~ Contains(f[0], u)
    BY <1>7, EmptySeq DEF Proper, Contains
  <2> QED
    BY <2>1
<1>9. ASSUME NEW k \in Nat, k \in U PROVE k + 1 \in U
  <2> SUFFICES ASSUME k + 1 <= Len(q) PROVE Good(k + 1)
    OBVIOUS
  <2>1. k \in 0..Len(q) - 1 /\ k + 1 \in 1..Len(q) /\ q[k + 1] \in Tasks
    BY <1>1
  <2>2. /\ Proper(f[k])
        /\ \A u : Contains(f[k], u) <=> u \notin S /\ \E i \in 1..k : q[i] = u
    BY <1>9, <2>1
  <2>3. \A i : i \in 1..k + 1 <=> i \in 1..k \/ i = k + 1
    OBVIOUS
  <2>4. CASE q[k + 1] \in S
    <3>1. f[k + 1] = f[k]
      BY <1>7, <2>1, <2>4
    <3> QED
      BY <2>2, <2>3, <2>4, <3>1
  <2>5. CASE q[k + 1] \notin S
    <3>1. f[k + 1] = Append(f[k], q[k + 1])
      BY <1>7, <2>1, <2>5
    <3>2. ~ Contains(f[k], q[k + 1])
      <4>1. \A i \in 1..k : i \in 1..Len(q) /\ i # k + 1
        BY <1>1
      <4> QED
        BY <2>1, <2>2, <4>1 DEF Proper
    <3>3. /\ Proper(Append(f[k], q[k + 1]))
          /\ \A u : Contains(Append(f[k], q[k + 1]), u) <=> Contains(f[k], u) \/ u = q[k + 1]
      BY <2>1, <2>2, <3>2, ProperAppend
    <3> QED
      BY <2>2, <2>3, <2>5, <3>1, <3>3
  <2> QED
    BY <2>4, <2>5
<1>10. Good(Len(q))
  <2>1. Len(q) \in U
    <3> HIDE DEF U
    <3> QED
      BY <1>1, <1>8, <1>9, Counting
  <2> QED
    BY <1>1, <2>1
<1> QED
  BY <1>6, <1>10 DEF Contains

-----------------------------------------------------------------------------
(* Permits.                                                                *)

Line(s) == sem[s].line
Semaphore == [free : Nat, line : Seq(Tasks)]

SemTypes ==
    /\ pc \in [Tasks -> Places]
    /\ seek \in [Tasks -> Sems \cup {None}]
    /\ held \in [Tasks -> SUBSET Sems]
    /\ cap \in [Runs -> Nat \cup {None}]
    /\ sem \in [Sems -> Semaphore]

(* A task holds the fleet's permit exactly while it is in its scenario,    *)
(* enters the semaphore of its run first, and waits in one line at a time. *)
TaskInv(t) ==
    /\ pc[t] \in {"new", "none", "ok", "error", "cancelled"} => held[t] = {} /\ seek[t] = None
    /\ pc[t] = "acquiring" => seek[t] # None
    /\ InScenario(t) => seek[t] = None
    /\ InScenario(t) <=> Global \in held[t]
    /\ held[t] \subseteq {Global, t[1]}
    /\ seek[t] \in {None, Global, t[1]} /\ seek[t] \notin held[t]
    /\ cap[t[1]] # None /\ (InScenario(t) \/ seek[t] = Global) => t[1] \in held[t]

(* In the line of a semaphore stand, once each, tasks that wait for it.    *)
LineInv(s) ==
    /\ Proper(Line(s))
    /\ \A u \in Tasks : Contains(Line(s), u) => seek[u] = s /\ pc[u] = "acquiring"

(* Every permit of a semaphore is free or with one task, which has entered *)
(* it or has been granted it.                                              *)
With(s) == {u \in Tasks : s \in held[u] \/ Granted(u, s)}
Permits(s) == IF s = Global THEN GlobalCap ELSE IF cap[s] = None THEN 0 ELSE cap[s]
Account(s) ==
    /\ IsFiniteSet(With(s))
    /\ Cardinality(With(s)) + sem[s].free = Permits(s)

PermitInv ==
    /\ SemTypes
    /\ \A t \in Tasks : TaskInv(t)
    /\ \A s \in Sems : LineInv(s) /\ Account(s)

(* The invariant, put together from its parts after a step.                *)
LEMMA PermitAll ==
  ASSUME SemTypes', \A t \in Tasks : TaskInv(t)', \A s \in Sems : LineInv(s)' /\ Account(s)'
  PROVE  PermitInv'
  BY DEF PermitInv

(* The semaphores are told apart.                                          *)
LEMMA SemFacts ==
  /\ Global \in Sems /\ None \notin Sems /\ Runs \subseteq Sems
  /\ \A t \in Tasks : t[1] \in Runs /\ t[1] \in Sems /\ t[1] # Global
  /\ \A r \in Runs : r \in Sems /\ r # Global /\ r # None
  /\ \A s \in Sems : s # Global => s \in Runs
  BY ExecutorAssumption DEF Sems, Tasks

(* Only t moves.                                                           *)
Moves(t) ==
    /\ UNCHANGED cap
    /\ \A u \in Tasks \ {t} : pc'[u] = pc[u] /\ seek'[u] = seek[u] /\ held'[u] = held[u]

(* What one task does leaves the invariants of the others alone.           *)
LEMMA MoveInv ==
  ASSUME PermitInv, NEW t \in Tasks, Moves(t), SemTypes', TaskInv(t)',
         \A s \in Sems : LineInv(s)' /\ Account(s)'
  PROVE  PermitInv'
<1>1. ASSUME NEW u \in Tasks PROVE TaskInv(u)'
  <2>1. CASE u = t
    BY <2>1
  <2>2. CASE u # t
    <3>1. TaskInv(u)
      BY DEF PermitInv
    <3> QED
      BY <2>2, <3>1 DEF Moves, TaskInv, InScenario
  <2> QED
    BY <2>1, <2>2
<1> QED
  BY <1>1, PermitAll

(* Who is not waiting stands in no line, and who waits stands in one only. *)
LEMMA InOneLine ==
  ASSUME PermitInv, NEW t \in Tasks, NEW s \in Sems, seek[t] # s \/ pc[t] # "acquiring"
  PROVE  ~ Contains(Line(s), t)
  BY DEF PermitInv, LineInv

(* A permit that was free is now with x.                                   *)
LEMMA CountAdd ==
  ASSUME NEW S, IsFiniteSet(S), NEW x, x \notin S, NEW n, NEW m \in Nat,
         Cardinality(S) + m = n, m # 0
  PROVE  IsFiniteSet(S \cup {x}) /\ Cardinality(S \cup {x}) + (m - 1) = n
<1>1. IsFiniteSet(S \cup {x}) /\ Cardinality(S \cup {x}) = Cardinality(S) + 1
  BY FS_AddElement
<1>2. Cardinality(S) \in Nat
  BY FS_CardinalityType
<1> QED
  BY <1>1, <1>2

(* The permit of x is free again.                                          *)
LEMMA CountDrop ==
  ASSUME NEW S, IsFiniteSet(S), NEW x \in S, NEW n, NEW m \in Nat,
         Cardinality(S) + m = n
  PROVE  IsFiniteSet(S \ {x}) /\ Cardinality(S \ {x}) + (m + 1) = n
<1>1. IsFiniteSet(S \ {x}) /\ Cardinality(S \ {x}) = Cardinality(S) - 1
  BY FS_RemoveElement
<1>2. Cardinality(S) \in Nat
  BY FS_CardinalityType
<1> QED
  BY <1>1, <1>2

(* The semaphore s is not touched.                                         *)
LEMMA SemKept ==
  ASSUME PermitInv, NEW t \in Tasks, Moves(t), NEW s \in Sems, sem'[s] = sem[s],
         ~ Contains(Line(s), t),
         s \in held'[t] \/ seek'[t] = s <=> s \in held[t] \/ seek[t] = s
  PROVE  LineInv(s)' /\ Account(s)'
<1>1. LineInv(s) /\ Account(s)
  BY DEF PermitInv
<1>2. LineInv(s)'
  BY <1>1 DEF Moves, LineInv, Line
<1>3. With(s)' = With(s)
  BY DEF Moves, With, Granted, Line
<1>4. Permits(s)' = Permits(s)
  BY DEF Moves, Permits
<1> QED
  BY <1>1, <1>2, <1>3, <1>4 DEF Account

(* t takes a free permit.                                                  *)
LEMMA SemTaken ==
  ASSUME PermitInv, NEW t \in Tasks, Moves(t), NEW s \in Sems,
         sem[s].free # 0, sem'[s] = [sem[s] EXCEPT !.free = @ - 1],
         s \notin held[t], seek[t] # s, s \in held'[t]
  PROVE  LineInv(s)' /\ Account(s)'
<1>1. LineInv(s) /\ Account(s) /\ ~ Contains(Line(s), t)
  BY InOneLine DEF PermitInv
<1>2. sem'[s].line = sem[s].line /\ sem'[s].free = sem[s].free - 1 /\ sem[s].free \in Nat
  BY DEF PermitInv, SemTypes, Semaphore
<1>3. LineInv(s)'
  BY <1>1, <1>2 DEF Moves, LineInv, Line
<1>4. With(s)' = With(s) \cup {t} /\ t \notin With(s)
  BY <1>1, <1>2 DEF Moves, With, Granted, Line
<1>5. Permits(s)' = Permits(s)
  BY DEF Moves, Permits
<1> QED
  BY <1>1, <1>2, <1>3, <1>4, <1>5, CountAdd DEF Account

(* t goes to the end of the line.                                          *)
LEMMA SemJoined ==
  ASSUME PermitInv, NEW t \in Tasks, Moves(t), NEW s \in Sems,
         sem'[s] = [sem[s] EXCEPT !.line = Append(@, t)],
         s \notin held[t], seek[t] # s,
         s \notin held'[t], seek'[t] = s, pc'[t] = "acquiring"
  PROVE  LineInv(s)' /\ Account(s)'
<1>1. LineInv(s) /\ Account(s) /\ ~ Contains(Line(s), t)
  BY InOneLine DEF PermitInv
<1>2. sem'[s].line = Append(sem[s].line, t) /\ sem'[s].free = sem[s].free
  BY DEF PermitInv, SemTypes, Semaphore
<1>3. /\ Proper(sem'[s].line)
      /\ \A u : Contains(sem'[s].line, u) <=> Contains(sem[s].line, u) \/ u = t
  BY <1>1, <1>2, ProperAppend DEF LineInv, Line
<1>4. LineInv(s)'
  BY <1>1, <1>3 DEF Moves, LineInv, Line
<1>5. With(s)' = With(s)
  BY <1>1, <1>3 DEF Moves, With, Granted, Line
<1>6. Permits(s)' = Permits(s)
  BY DEF Moves, Permits
<1> QED
  BY <1>1, <1>2, <1>4, <1>5, <1>6 DEF Account

(* The first in the line is given a permit that t leaves or that was free. *)
LEMMA HeadWakes ==
  ASSUME PermitInv, NEW t \in Tasks, Moves(t), NEW s \in Sems,
         Line(s) # <<>>, Line(s)' = Tail(Line(s)), ~ Contains(Line(s), t),
         s \in held'[t] \/ seek'[t] = s => s \in held[t] \/ seek[t] = s
  PROVE  LET W == With(s) \ (IF s \in held'[t] \/ seek'[t] = s THEN {} ELSE {t})
             h == Head(Line(s))
         IN  LineInv(s)' /\ h \notin W /\ With(s)' = W \cup {h}
<1> DEFINE h == Head(Line(s))
<1>1. LineInv(s)
  BY DEF PermitInv
<1>2. /\ Proper(Line(s)') /\ h \in Tasks /\ Contains(Line(s), h)
      /\ \A u : Contains(Line(s)', u) <=> Contains(Line(s), u) /\ u # h
  BY <1>1, ProperTail DEF LineInv
<1>3. LineInv(s)'
  BY <1>1, <1>2 DEF Moves, LineInv
<1>4. /\ h # t /\ seek[h] = s /\ TaskInv(h)
  BY <1>1, <1>2 DEF LineInv, PermitInv
<1>5. s \notin held[h] /\ seek'[h] = s /\ held'[h] = held[h]
  BY <1>2, <1>4 DEF TaskInv, Moves
<1> HIDE DEF h
<1>6. ASSUME NEW u \in Tasks
      PROVE  (s \in held'[u] \/ (seek'[u] = s /\ ~ Contains(Line(s)', u))) <=>
                \/ u = h
                \/ /\ s \in held[u] \/ (seek[u] = s /\ ~ Contains(Line(s), u))
                   /\ u = t => s \in held'[t] \/ seek'[t] = s
  <2>1. CASE u = t
    BY <1>2, <1>4, <2>1
  <2>2. CASE u = h
    BY <1>2, <1>5, <2>2
  <2>3. CASE u # t /\ u # h
    BY <1>2, <2>3 DEF Moves
  <2> QED
    BY <2>1, <2>2, <2>3
<1>7. h \notin With(s)
  BY <1>2, <1>5 DEF With, Granted, Line
<1>8. With(s)' = (With(s) \ (IF s \in held'[t] \/ seek'[t] = s THEN {} ELSE {t})) \cup {h}
  BY <1>2, <1>6 DEF With, Granted, Line
<1> QED
  BY <1>3, <1>7, <1>8 DEF h

(* The next waiter is woken if there is a permit for it.                   *)
LEMMA SemWoken ==
  ASSUME PermitInv, NEW t \in Tasks, Moves(t), NEW s \in Sems, sem'[s] = Wake(sem[s]),
         ~ Contains(Line(s), t),
         s \in held'[t] \/ seek'[t] = s <=> s \in held[t] \/ seek[t] = s
  PROVE  LineInv(s)' /\ Account(s)'
<1>1. CASE sem[s].free > 0 /\ sem[s].line # <<>>
  <2>1. /\ Line(s)' = Tail(Line(s)) /\ sem'[s].free = sem[s].free - 1
        /\ sem[s].free \in Nat /\ sem[s].free # 0
    BY <1>1 DEF Wake, Line, PermitInv, SemTypes, Semaphore
  <2> DEFINE W == With(s) \ (IF s \in held'[t] \/ seek'[t] = s THEN {} ELSE {t})
             h == Head(Line(s))
  <2>2. LineInv(s)' /\ h \notin W /\ With(s)' = W \cup {h}
    BY <1>1, <2>1, HeadWakes DEF Line
  <2>3. W = With(s)
    BY DEF With, Granted
  <2>4. Account(s) /\ Permits(s)' = Permits(s)
    BY DEF PermitInv, Moves, Permits
  <2> HIDE DEF W, h
  <2>5. IsFiniteSet(W) /\ Cardinality(W) + sem[s].free = Permits(s)
    BY <2>3, <2>4 DEF Account
  <2>6. /\ IsFiniteSet(W \cup {h})
        /\ Cardinality(W \cup {h}) + (sem[s].free - 1) = Permits(s)
    <3>1. sem[s].free \in Nat /\ sem[s].free # 0 /\ h \notin W
      BY <2>1, <2>2
    <3>2. PICK m \in Nat : m = sem[s].free
      BY <3>1
    <3>3. PICK n : n = Permits(s)
      OBVIOUS
    <3>4. Cardinality(W) + m = n /\ m # 0
      BY <2>5, <3>1, <3>2, <3>3
    <3>5. IsFiniteSet(W) /\ h \notin W
      BY <2>5, <3>1
    <3>6. IsFiniteSet(W \cup {h}) /\ Cardinality(W \cup {h}) + (m - 1) = n
      BY <3>4, <3>5, CountAdd
    <3> QED
      BY <3>2, <3>3, <3>6
  <2> QED
    BY <2>1, <2>2, <2>4, <2>6 DEF Account
<1>2. CASE ~ (sem[s].free > 0 /\ sem[s].line # <<>>)
  BY <1>2, SemKept DEF Wake
<1> QED
  BY <1>1, <1>2

(* t gives its permit back.                                                *)
LEMMA SemPut ==
  ASSUME PermitInv, NEW t \in Tasks, Moves(t), NEW s \in Sems, sem'[s] = Put(sem[s]),
         ~ Contains(Line(s), t), s \in held[t] \/ seek[t] = s,
         s \notin held'[t], seek'[t] # s
  PROVE  LineInv(s)' /\ Account(s)'
<1>1. sem[s].free \in Nat /\ LineInv(s) /\ Account(s) /\ Permits(s)' = Permits(s)
  BY DEF PermitInv, SemTypes, Semaphore, Moves, Permits
<1>2. t \in With(s)
  BY DEF With, Granted, Line
<1>3. /\ IsFiniteSet(With(s) \ {t})
      /\ Cardinality(With(s) \ {t}) + (sem[s].free + 1) = Permits(s)
  BY <1>1, <1>2, CountDrop DEF Account
<1>4. CASE sem[s].line # <<>>
  <2>1. Line(s)' = Tail(Line(s)) /\ sem'[s].free = (sem[s].free + 1) - 1
    BY <1>1, <1>4 DEF Put, Wake, Line, PermitInv, SemTypes, Semaphore
  <2> DEFINE W == With(s) \ (IF s \in held'[t] \/ seek'[t] = s THEN {} ELSE {t})
             h == Head(Line(s))
  <2>2. LineInv(s)' /\ h \notin W /\ With(s)' = W \cup {h}
    BY <1>4, <2>1, HeadWakes DEF Line
  <2>3. W = With(s) \ {t}
    OBVIOUS
  <2> HIDE DEF W, h
  <2>4. sem[s].free + 1 \in Nat /\ sem[s].free + 1 # 0
    BY <1>1
  <2>5. IsFiniteSet(W) /\ Cardinality(W) + (sem[s].free + 1) = Permits(s)
    BY <1>3, <2>3
  <2>6. /\ IsFiniteSet(W \cup {h})
        /\ Cardinality(W \cup {h}) + ((sem[s].free + 1) - 1) = Permits(s)
    BY <2>2, <2>4, <2>5, CountAdd
  <2> QED
    BY <1>1, <2>1, <2>2, <2>6 DEF Account
<1>5. CASE sem[s].line = <<>>
  <2>1. sem'[s].line = sem[s].line /\ sem'[s].free = sem[s].free + 1
    BY <1>1, <1>5 DEF Put, Wake, PermitInv, SemTypes, Semaphore
  <2>2. LineInv(s)'
    BY <1>1, <2>1 DEF Moves, LineInv, Line
  <2>3. With(s)' = With(s) \ {t}
    BY <2>1 DEF Moves, With, Granted, Line
  <2> QED
    BY <1>1, <1>3, <2>1, <2>2, <2>3 DEF Account
<1> QED
  BY <1>4, <1>5

-----------------------------------------------------------------------------
(* The steps of a task.                                                    *)

(* A waiting task that has its permit is in its line no more.              *)
LEMMA AskGlobalStep ==
  ASSUME PermitInv, NEW t \in Tasks, NEW x \in [Sems -> Semaphore], NEW h,
         AskGlobal(t, x, h), UNCHANGED cap, x[Global] = sem[Global],
         h \subseteq {t[1]}, cap[t[1]] # None => t[1] \in h,
         Global \notin held[t], seek[t] # Global
  PROVE  /\ Moves(t) /\ SemTypes' /\ TaskInv(t)' /\ LineInv(Global)' /\ Account(Global)'
         /\ \A s \in Sems \ {Global} : sem'[s] = x[s]
         /\ \A s \in Sems \ {Global} : s \in held'[t] \/ seek'[t] = s <=> s \in h
<1>1. /\ pc \in [Tasks -> Places] /\ seek \in [Tasks -> Sems \cup {None}]
      /\ held \in [Tasks -> SUBSET Sems] /\ cap \in [Runs -> Nat \cup {None}]
      /\ sem \in [Sems -> Semaphore]
  BY DEF PermitInv, SemTypes
<1>2. /\ Global \in Sems /\ None \notin Sems /\ t[1] \in Sems /\ t[1] # Global /\ None # Global
      /\ h \subseteq Sems /\ Global \notin h
  BY SemFacts
<1>3. CASE Queue(t, Global, x, h)
  <2>1. /\ pc' = [pc EXCEPT ![t] = "acquiring"] /\ seek' = [seek EXCEPT ![t] = Global]
        /\ held' = [held EXCEPT ![t] = h]
        /\ sem' = [x EXCEPT ![Global].line = Append(@, t)]
    BY <1>3 DEF Queue
  <2>2. pc'[t] = "acquiring" /\ seek'[t] = Global /\ held'[t] = h /\ Moves(t)
    BY <1>1, <2>1 DEF Moves
  <2>3. /\ sem'[Global] = [sem[Global] EXCEPT !.line = Append(@, t)]
        /\ \A s \in Sems \ {Global} : sem'[s] = x[s]
    BY <1>2, <2>1
  <2>4. SemTypes'
    <3>1. sem' \in [Sems -> Semaphore]
      <4>1. Append(x[Global].line, t) \in Seq(Tasks)
        BY <1>2, AppendProperties DEF Semaphore
      <4> QED
        BY <2>1, <4>1 DEF Semaphore
    <3> QED
      BY <1>1, <1>2, <2>1, <3>1 DEF SemTypes, Places
  <2>5. TaskInv(t)'
    BY <1>2, <2>2 DEF TaskInv, InScenario, Moves
  <2>6. LineInv(Global)' /\ Account(Global)'
    BY <1>2, <2>2, <2>3, SemJoined
  <2> QED
    BY <1>2, <2>2, <2>3, <2>4, <2>5, <2>6
<1>4. CASE ~Locked(Global) /\ Invoke(t, [x EXCEPT ![Global].free = @ - 1], h)
  <2>1. /\ pc' = [pc EXCEPT ![t] = "running"] /\ seek' = [seek EXCEPT ![t] = None]
        /\ held' = [held EXCEPT ![t] = h \cup {Global}]
        /\ sem' = [x EXCEPT ![Global].free = @ - 1]
    BY <1>4 DEF Invoke
  <2>2. pc'[t] = "running" /\ seek'[t] = None /\ held'[t] = h \cup {Global} /\ Moves(t)
    BY <1>1, <2>1 DEF Moves
  <2>3. /\ sem'[Global] = [sem[Global] EXCEPT !.free = @ - 1]
        /\ \A s \in Sems \ {Global} : sem'[s] = x[s]
    BY <1>2, <2>1
  <2>4. sem[Global].free # 0 /\ sem[Global].free \in Nat
    BY <1>1, <1>2, <1>4 DEF Locked, Semaphore
  <2>5. SemTypes'
    <3>1. sem' \in [Sems -> Semaphore]
      <4>1. x[Global].free - 1 \in Nat
        BY <2>4
      <4> QED
        BY <2>1, <4>1 DEF Semaphore
    <3> QED
      BY <1>1, <1>2, <2>1, <3>1 DEF SemTypes, Places
  <2>6. TaskInv(t)'
    BY <1>2, <2>2 DEF TaskInv, InScenario, Moves
  <2>7. LineInv(Global)' /\ Account(Global)'
    BY <1>2, <2>2, <2>3, <2>4, SemTaken
  <2> QED
    BY <1>2, <2>2, <2>3, <2>5, <2>6, <2>7
<1> QED
  BY <1>3, <1>4 DEF AskGlobal

(* Who asks for the fleet's permit does not wait for one of its run.       *)
LEMMA AskSeeks ==
  ASSUME PermitInv, NEW t \in Tasks, NEW x, NEW h, AskGlobal(t, x, h)
  PROVE  seek'[t] \in {None, Global} /\ t[1] \notin {None, Global}
  BY SemFacts DEF AskGlobal, Queue, Invoke, PermitInv, SemTypes

(* The first step of a task: it waits in one of the lines, or is let in.   *)
LEMMA BeginStep ==
  ASSUME PermitInv, NEW t \in Tasks, Begin(t)
  PROVE  PermitInv'
<1>1. /\ pc[t] = "new" /\ held[t] = {} /\ seek[t] = None
      /\ \A s \in Sems : ~ Contains(Line(s), t) /\ seek[t] # s
      /\ UNCHANGED cap /\ sem \in [Sems -> Semaphore]
      /\ t[1] \in Sems /\ t[1] # Global /\ Global \in Sems
  BY InOneLine, SemFacts DEF Begin, runVars, PermitInv, TaskInv, SemTypes
<1>2. CASE cap[t[1]] = None /\ AskGlobal(t, sem, {})
  <2>1. /\ Moves(t) /\ SemTypes' /\ TaskInv(t)' /\ LineInv(Global)' /\ Account(Global)'
        /\ \A s \in Sems \ {Global} : sem'[s] = sem[s]
        /\ \A s \in Sems \ {Global} : ~ (s \in held'[t] \/ seek'[t] = s)
    BY <1>1, <1>2, AskGlobalStep
  <2>2. ASSUME NEW s \in Sems, s # Global PROVE LineInv(s)' /\ Account(s)'
    BY <1>1, <2>1, <2>2, SemKept
  <2> QED
    BY <2>1, <2>2, MoveInv
<1>3. CASE cap[t[1]] # None /\ Queue(t, t[1], sem, {})
  <2>1. /\ pc' = [pc EXCEPT ![t] = "acquiring"] /\ seek' = [seek EXCEPT ![t] = t[1]]
        /\ held' = [held EXCEPT ![t] = {}]
        /\ sem' = [sem EXCEPT ![t[1]].line = Append(@, t)]
    BY <1>3 DEF Queue
  <2>2. pc'[t] = "acquiring" /\ seek'[t] = t[1] /\ held'[t] = {} /\ Moves(t)
    BY <1>1, <2>1 DEF Moves, PermitInv, SemTypes
  <2>3. /\ sem'[t[1]] = [sem[t[1]] EXCEPT !.line = Append(@, t)]
        /\ \A s \in Sems \ {t[1]} : sem'[s] = sem[s]
    BY <1>1, <2>1
  <2>4. SemTypes'
    <3>1. sem' \in [Sems -> Semaphore]
      <4>1. Append(sem[t[1]].line, t) \in Seq(Tasks)
        BY <1>1, AppendProperties DEF Semaphore
      <4> QED
        BY <1>1, <2>1, <4>1 DEF Semaphore
    <3> QED
      BY <1>1, <2>1, <3>1 DEF PermitInv, SemTypes, Places
  <2>5. TaskInv(t)'
    BY <1>1, <2>2, SemFacts DEF TaskInv, InScenario, Moves
  <2>6. ASSUME NEW s \in Sems PROVE LineInv(s)' /\ Account(s)'
    <3>1. CASE s = t[1]
      BY <1>1, <2>2, <2>3, <3>1, SemJoined
    <3>2. CASE s # t[1]
      BY <1>1, <2>2, <2>3, <3>2, SemKept
    <3> QED
      BY <3>1, <3>2
  <2> QED
    BY <2>2, <2>4, <2>5, <2>6, MoveInv
<1>4. CASE /\ cap[t[1]] # None /\ ~Locked(t[1])
           /\ AskGlobal(t, [sem EXCEPT ![t[1]].free = @ - 1], {t[1]})
  <2>1. PICK x : x = [sem EXCEPT ![t[1]].free = @ - 1]
    OBVIOUS
  <2>2. sem[t[1]].free # 0 /\ sem[t[1]].free - 1 \in Nat
    BY <1>1, <1>4 DEF Locked, Semaphore
  <2>3. /\ x \in [Sems -> Semaphore] /\ x[Global] = sem[Global]
        /\ x[t[1]] = [sem[t[1]] EXCEPT !.free = @ - 1]
        /\ \A s \in Sems \ {t[1]} : x[s] = sem[s]
    BY <1>1, <2>1, <2>2 DEF Semaphore
  <2>4. /\ Moves(t) /\ SemTypes' /\ TaskInv(t)' /\ LineInv(Global)' /\ Account(Global)'
        /\ \A s \in Sems \ {Global} : sem'[s] = x[s]
        /\ \A s \in Sems \ {Global} : s \in held'[t] \/ seek'[t] = s <=> s \in {t[1]}
    <3>1. PICK h : h = {t[1]}
      OBVIOUS
    <3>2. /\ AskGlobal(t, x, h) /\ h \subseteq {t[1]} /\ t[1] \in h
          /\ Global \notin held[t] /\ seek[t] # Global
      BY <1>1, <1>4, <2>1, <3>1
    <3> QED
      BY <1>1, <2>3, <3>1, <3>2, AskGlobalStep
  <2>5. t[1] \in held'[t]
    <3>1. t[1] \in held'[t] \/ seek'[t] = t[1]
      BY <1>1, <2>4
    <3>2. seek'[t] # t[1]
      BY <1>4, AskSeeks
    <3> QED
      BY <3>1, <3>2
  <2>6. ASSUME NEW s \in Sems, s # Global PROVE LineInv(s)' /\ Account(s)'
    <3>1. CASE s = t[1]
      BY <1>1, <2>2, <2>3, <2>4, <2>5, <2>6, <3>1, SemTaken
    <3>2. CASE s # t[1]
      BY <1>1, <2>3, <2>4, <2>6, <3>2, SemKept
    <3> QED
      BY <3>1, <3>2
  <2> QED
    BY <2>4, <2>6, MoveInv
<1> QED
  BY <1>2, <1>3, <1>4 DEF Begin, AskRun

(* A waiter resumes: the permit it was granted becomes its own.            *)
LEMMA EnterStep ==
  ASSUME PermitInv, NEW t \in Tasks, Enter(t)
  PROVE  PermitInv'
<1>1. PICK s \in Sems :
        LET x == [sem EXCEPT ![s] = Wake(@)]
        IN /\ Granted(t, s)
           /\ \/ s = Global /\ Invoke(t, x, held[t])
              \/ s # Global /\ AskGlobal(t, x, held[t] \cup {s})
  BY DEF Enter
<1>2. PICK x : x = [sem EXCEPT ![s] = Wake(@)]
  OBVIOUS
<1>3. /\ pc[t] = "acquiring" /\ seek[t] = s /\ ~ Contains(Line(s), t) /\ UNCHANGED cap
      /\ \A z \in Sems : ~ Contains(Line(z), t)
      /\ t[1] \in Sems /\ t[1] # Global /\ Global \in Sems /\ None \notin Sems
  BY <1>1, InOneLine, SemFacts DEF Enter, runVars, Granted, Line
<1>4. /\ Global \notin held[t] /\ held[t] \subseteq {t[1]} /\ s \in {Global, t[1]}
      /\ s \notin held[t] /\ (cap[t[1]] # None /\ s = Global => t[1] \in held[t])
  BY <1>3, SemFacts DEF PermitInv, TaskInv, InScenario
<1>5. sem \in [Sems -> Semaphore] /\ Wake(sem[s]) \in Semaphore
  <2>1. sem \in [Sems -> Semaphore] /\ Proper(sem[s].line)
    BY DEF PermitInv, SemTypes, LineInv, Line
  <2>2. sem[s].line # <<>> => Tail(sem[s].line) \in Seq(Tasks)
    BY <2>1, ProperTail DEF Proper
  <2>3. sem[s].free \in Nat /\ (sem[s].free > 0 => sem[s].free - 1 \in Nat)
    BY <2>1 DEF Semaphore
  <2> QED
    BY <2>1, <2>2, <2>3 DEF Wake, Semaphore
<1>6. /\ x \in [Sems -> Semaphore] /\ x[s] = Wake(sem[s])
      /\ \A z \in Sems \ {s} : x[z] = sem[z]
  BY <1>2, <1>5
<1>7. CASE s = Global /\ Invoke(t, x, held[t])
  <2>1. /\ pc' = [pc EXCEPT ![t] = "running"] /\ seek' = [seek EXCEPT ![t] = None]
        /\ held' = [held EXCEPT ![t] = held[t] \cup {Global}] /\ sem' = x
    BY <1>7 DEF Invoke
  <2>2. /\ pc'[t] = "running" /\ seek'[t] = None /\ held'[t] = held[t] \cup {Global}
        /\ Moves(t)
    BY <1>3, <2>1 DEF Moves, PermitInv, SemTypes
  <2>3. SemTypes'
    BY <1>3, <1>4, <1>6, <2>1 DEF PermitInv, SemTypes, Places
  <2>4. TaskInv(t)'
    BY <1>3, <1>4, <1>7, <2>2, SemFacts DEF TaskInv, InScenario, Moves
  <2>5. ASSUME NEW z \in Sems PROVE LineInv(z)' /\ Account(z)'
    <3>1. CASE z = Global
      BY <1>3, <1>6, <1>7, <2>1, <2>2, <3>1, SemWoken
    <3>2. CASE z # Global
      BY <1>3, <1>6, <1>7, <2>1, <2>2, <3>2, SemKept
    <3> QED
      BY <3>1, <3>2
  <2> QED
    BY <2>2, <2>3, <2>4, <2>5, MoveInv
<1>8. CASE s # Global /\ AskGlobal(t, x, held[t] \cup {s})
  <2>1. s = t[1] /\ held[t] = {} /\ held[t] \cup {s} = {t[1]}
    BY <1>4, <1>8
  <2>2. /\ Moves(t) /\ SemTypes' /\ TaskInv(t)' /\ LineInv(Global)' /\ Account(Global)'
        /\ \A z \in Sems \ {Global} : sem'[z] = x[z]
        /\ \A z \in Sems \ {Global} : z \in held'[t] \/ seek'[t] = z <=> z \in {t[1]}
    BY <1>3, <1>4, <1>6, <1>8, <2>1, AskGlobalStep
  <2>3. ASSUME NEW z \in Sems, z # Global PROVE LineInv(z)' /\ Account(z)'
    <3>1. CASE z = s
      BY <1>3, <1>6, <2>1, <2>2, <2>3, <3>1, SemWoken
    <3>2. CASE z # s
      BY <1>3, <1>4, <1>6, <2>1, <2>2, <2>3, <3>2, SemKept
    <3> QED
      BY <3>1, <3>2
  <2> QED
    BY <2>2, <2>3, MoveInv
<1> QED
  BY <1>1, <1>2, <1>7, <1>8

(* A task ends and gives back all it has entered or was granted.           *)
LEMMA ExitStep ==
  ASSUME PermitInv, NEW t \in Tasks, NEW o \in {"ok", "error", "cancelled"}, Exit(t, o),
         pc[t] # "acquiring"
  PROVE  PermitInv'
<1>1. PICK p \in {"none", "ok", "error", "cancelled"} : pc' = [pc EXCEPT ![t] = p]
  BY DEF Exit
<1>2. /\ seek' = [seek EXCEPT ![t] = None] /\ held' = [held EXCEPT ![t] = {}]
      /\ sem' = [s \in Sems |-> IF s \in held[t] \cup {seek[t]} THEN Put(sem[s]) ELSE sem[s]]
      /\ UNCHANGED cap
  BY DEF Exit, runVars
<1>3. pc'[t] = p /\ seek'[t] = None /\ held'[t] = {} /\ Moves(t)
  BY <1>1, <1>2 DEF Moves, PermitInv, SemTypes
<1>4. SemTypes'
  <2>1. ASSUME NEW s \in Sems PROVE Put(sem[s]) \in Semaphore /\ sem[s] \in Semaphore
    <3>1. sem[s] \in Semaphore /\ Proper(sem[s].line)
      BY DEF PermitInv, SemTypes, LineInv, Line
    <3>2. sem[s].line # <<>> => Tail(sem[s].line) \in Seq(Tasks)
      BY <3>1, ProperTail DEF Proper
    <3>3. sem[s].free \in Nat /\ sem[s].free + 1 \in Nat /\ (sem[s].free + 1) - 1 \in Nat
      BY <3>1 DEF Semaphore
    <3> QED
      BY <3>1, <3>2, <3>3 DEF Put, Wake, Semaphore
  <2>2. sem' \in [Sems -> Semaphore]
    BY <1>2, <2>1
  <2> QED
    BY <1>1, <1>2, <2>2 DEF PermitInv, SemTypes, Places
<1>5. TaskInv(t)'
  BY <1>3, SemFacts DEF TaskInv, InScenario
<1>6. ASSUME NEW s \in Sems PROVE LineInv(s)' /\ Account(s)'
  <2>1. ~ Contains(Line(s), t) /\ s # None
    BY InOneLine, SemFacts
  <2>2. CASE s \in held[t] \/ seek[t] = s
    BY <1>2, <1>3, <2>1, <2>2, SemPut
  <2>3. CASE ~ (s \in held[t] \/ seek[t] = s)
    BY <1>2, <1>3, <2>1, <2>3, SemKept
  <2> QED
    BY <2>2, <2>3
<1> QED
  BY <1>3, <1>4, <1>5, <1>6, MoveInv

(* A step inside the scenario.                                             *)
LEMMA InsideStep ==
  ASSUME PermitInv, NEW t \in Tasks, NEW p \in {"running", "asleep"}, InScenario(t),
         pc' = [pc EXCEPT ![t] = p], UNCHANGED <<cap, seek, held, sem>>
  PROVE  PermitInv'
<1>1. pc'[t] = p /\ Moves(t) /\ pc[t] # "acquiring"
  BY DEF Moves, PermitInv, SemTypes, InScenario
<1>2. SemTypes'
  BY DEF PermitInv, SemTypes, Places
<1>3. TaskInv(t)'
  BY <1>1 DEF PermitInv, TaskInv, InScenario
<1>4. ASSUME NEW s \in Sems PROVE LineInv(s)' /\ Account(s)'
  BY <1>1, InOneLine, SemKept
<1> QED
  BY <1>1, <1>2, <1>3, <1>4, MoveInv

-----------------------------------------------------------------------------
(* The steps of run().                                                     *)

(* A task that is over holds nothing, so nothing is with the semaphore of  *)
(* a run whose tasks are all over.                                         *)
LEMMA NobodyHolds ==
  ASSUME PermitInv, NEW r \in Runs, \A t \in Of(r) : Over(t)
  PROVE  \A u \in Tasks : /\ r \notin held[u] /\ seek[u] # r
                          /\ u \in Of(r) => held[u] = {} /\ seek[u] = None
<1>1. ASSUME NEW u \in Tasks, u \in Of(r) PROVE held[u] = {} /\ seek[u] = None
  BY <1>1 DEF PermitInv, TaskInv, Over
<1>2. ASSUME NEW u \in Tasks, u \notin Of(r) PROVE r \notin held[u] /\ seek[u] # r
  <2>1. u[1] # r /\ r # Global /\ r # None
    BY <1>2, SemFacts DEF Of
  <2>2. held[u] \subseteq {Global, u[1]} /\ seek[u] \in {None, Global, u[1]}
    BY DEF PermitInv, TaskInv
  <2> QED
    BY <2>1, <2>2
<1>3. r # None
  BY SemFacts
<1> QED
  BY <1>1, <1>2, <1>3

(* Tasks that are over are made anew or forgotten, and with them the       *)
(* semaphore of the run.                                                   *)
LEMMA RunStep ==
  ASSUME PermitInv, NEW r \in Runs, \A t \in Of(r) : Over(t),
         NEW c \in Nat \cup {None}, cap' = [cap EXCEPT ![r] = c],
         sem' = [sem EXCEPT ![r] = IF c = None THEN NoSemaphore
                                   ELSE [free |-> c, line |-> <<>>]],
         pc' \in [Tasks -> Places],
         \A t \in Tasks : pc'[t] = pc[t] \/ (t \in Of(r) /\ pc'[t] \in {"new", "none"}),
         UNCHANGED <<seek, held>>
  PROVE  PermitInv'
<1>1. /\ cap \in [Runs -> Nat \cup {None}] /\ sem \in [Sems -> Semaphore]
      /\ None \notin Nat /\ r \in Sems /\ r # Global /\ Runs \subseteq Sems
  BY SemFacts, ExecutorAssumption DEF PermitInv, SemTypes
<1>2. PICK n \in Nat : /\ n = IF c = None THEN 0 ELSE c
                       /\ sem'[r] = [free |-> n, line |-> <<>>]
  BY <1>1 DEF NoSemaphore
<1>3. cap'[r] = c /\ \A s \in Runs : s # r => cap'[s] = cap[s]
  BY <1>1
<1>4. \A s \in Sems : s # r => sem'[s] = sem[s]
  BY <1>1
<1>5. SemTypes'
  <2>1. sem'[r] \in Semaphore
    <3>1. <<>> \in Seq(Tasks)
      OBVIOUS
    <3>2. [free |-> n, line |-> <<>>] \in Semaphore
      BY <3>1 DEF Semaphore
    <3> QED
      BY <1>2, <3>2
  <2>2. sem' \in [Sems -> Semaphore] /\ cap' \in [Runs -> Nat \cup {None}]
    BY <1>1, <2>1
  <2> QED
    BY <2>2 DEF PermitInv, SemTypes
<1>6. \A u \in Tasks : /\ r \notin held[u] /\ seek[u] # r
                       /\ u \in Of(r) => held[u] = {} /\ seek[u] = None
  BY NobodyHolds
<1>7. ASSUME NEW u \in Tasks PROVE TaskInv(u)'
  <2>1. TaskInv(u) /\ u[1] \in Runs
    BY SemFacts DEF PermitInv
  <2>2. CASE u \in Of(r)
    <3>1. pc'[u] \in {"new", "none", "ok", "error", "cancelled"}
      BY <2>2 DEF Over
    <3> QED
      BY <1>6, <2>2, <3>1, SemFacts DEF TaskInv, InScenario
  <2>3. CASE u \notin Of(r)
    <3>1. pc'[u] = pc[u] /\ cap'[u[1]] = cap[u[1]]
      BY <1>3, <2>1, <2>3 DEF Of
    <3> QED
      BY <2>1, <3>1 DEF TaskInv, InScenario
  <2> QED
    BY <2>2, <2>3
<1>8. LineInv(r)' /\ Account(r)'
  <2>1. Line(r)' = <<>> /\ \A u : ~ Contains(<<>>, u)
    BY <1>2 DEF Line, Contains
  <2>2. LineInv(r)'
    BY <2>1, EmptySeq DEF LineInv, Proper
  <2>3. With(r)' = {}
    BY <1>6 DEF With, Granted
  <2>4. Permits(r)' = n
    BY <1>1, <1>2, <1>3 DEF Permits
  <2> QED
    BY <1>2, <2>2, <2>3, <2>4, FS_EmptySet DEF Account
<1>9. ASSUME NEW s \in Sems, s # r PROVE LineInv(s)' /\ Account(s)'
  <2>1. LineInv(s) /\ Account(s) /\ sem'[s] = sem[s]
    BY <1>4, <1>9 DEF PermitInv
  <2>2. Permits(s)' = Permits(s)
    BY <1>3, <1>9, SemFacts DEF Permits
  <2>3. \A u \in Tasks : pc[u] = "acquiring" => pc'[u] = "acquiring"
    BY DEF Over
  <2>4. LineInv(s)'
    BY <2>1, <2>3 DEF LineInv, Line
  <2>5. With(s)' = With(s)
    BY <2>1 DEF With, Granted
  <2> QED
    BY <2>1, <2>2, <2>4, <2>5 DEF Account
<1>10. \A s \in Sems : LineInv(s)' /\ Account(s)'
  BY <1>8, <1>9
<1> QED
  BY <1>5, <1>7, <1>10, PermitAll

(* Start makes a semaphore that nobody has seen.                           *)
LEMMA StartStep ==
  ASSUME PermitInv, NEW r \in Runs, Start(r)
  PROVE  PermitInv'
<1>1. PICK c \in RunCaps[r] :
        /\ cap' = [cap EXCEPT ![r] = c]
        /\ sem' = [sem EXCEPT ![r] = IF c = None THEN NoSemaphore
                                     ELSE [free |-> c, line |-> <<>>]]
  BY DEF Start
<1>2. c \in Nat \cup {None}
  BY ExecutorAssumption
<1>3. /\ \A t \in Of(r) : Over(t)
      /\ UNCHANGED <<seek, held>>
  BY DEF Start
<1>4. /\ pc' \in [Tasks -> Places]
      /\ \A t \in Tasks : pc'[t] = pc[t] \/ (t \in Of(r) /\ pc'[t] \in {"new", "none"})
  BY DEF Start, PermitInv, SemTypes, Places
<1> QED
  BY <1>1, <1>2, <1>3, <1>4, RunStep

(* run() is over; its semaphore goes when no task is left.                 *)
LEMMA LeaveStep ==
  ASSUME PermitInv, NEW r \in Runs, NEW how, Leave(r, how)
  PROVE  PermitInv'
<1>1. /\ UNCHANGED <<seek, held>> /\ pc' \in [Tasks -> Places]
      /\ \A t \in Tasks :
            pc'[t] = pc[t] \/ (t \in Of(r) /\ Over(t) /\ pc'[t] = "none")
  BY DEF Leave, PermitInv, SemTypes, Places
<1>2. CASE \A t \in Of(r) : Over(t)
  <2>1. cap' = [cap EXCEPT ![r] = None] /\ sem' = [sem EXCEPT ![r] = NoSemaphore]
    BY <1>2 DEF Leave
  <2>2. \A t \in Tasks : pc'[t] = pc[t] \/ (t \in Of(r) /\ pc'[t] \in {"new", "none"})
    BY <1>1
  <2>3. PICK c \in Nat \cup {None} : c = None
    OBVIOUS
  <2> QED
    BY <1>1, <1>2, <2>1, <2>2, <2>3, RunStep
<1>3. CASE ~ \A t \in Of(r) : Over(t)
  <2>1. cap' = cap /\ sem' = sem
    <3>1. cap \in [Runs -> Nat \cup {None}] /\ sem \in [Sems -> Semaphore] /\ r \in Sems
      BY SemFacts DEF PermitInv, SemTypes
    <3>2. cap' = [cap EXCEPT ![r] = cap[r]] /\ sem' = [sem EXCEPT ![r] = sem[r]]
      BY <1>3 DEF Leave
    <3> QED
      BY <3>1, <3>2
  <2>2. SemTypes'
    BY <1>1, <2>1 DEF PermitInv, SemTypes
  <2>3. ASSUME NEW u \in Tasks PROVE TaskInv(u)'
    BY <1>1, <2>1 DEF PermitInv, TaskInv, InScenario, Over
  <2>4. ASSUME NEW s \in Sems PROVE LineInv(s)' /\ Account(s)'
    <3>1. LineInv(s) /\ Account(s)
      BY DEF PermitInv
    <3>2. \A u \in Tasks : pc[u] = "acquiring" => pc'[u] = "acquiring"
      BY <1>1 DEF Over
    <3>3. LineInv(s)'
      <4>1. Line(s)' = Line(s)
        BY <2>1 DEF Line
      <4>2. \A u \in Tasks : Contains(Line(s)', u) => seek'[u] = s /\ pc'[u] = "acquiring"
        BY <1>1, <3>1, <3>2, <4>1 DEF LineInv
      <4> QED
        BY <3>1, <4>1, <4>2 DEF LineInv
    <3>4. With(s)' = With(s) /\ Permits(s)' = Permits(s)
      BY <1>1, <2>1 DEF With, Granted, Permits
    <3> QED
      BY <2>1, <3>1, <3>3, <3>4 DEF Account
  <2> QED
    BY <2>2, <2>3, <2>4, PermitAll
<1> QED
  BY <1>2, <1>3

(* A cancelled waiter leaves its line; one with a permit still has it.     *)
LEMMA CancelStep ==
  ASSUME PermitInv, NEW r \in Runs, Cancel(r)
  PROVE  PermitInv'
<1> DEFINE C == Cancellable(r)
<1>1. /\ pc' = [t \in Tasks |-> IF t \notin C THEN pc[t]
                                ELSE IF InScenario(t) THEN "aborting" ELSE "stopping"]
      /\ seek' = [t \in Tasks |-> IF t \in C /\ (\A s \in Sems : ~Granted(t, s))
                                  THEN None ELSE seek[t]]
      /\ sem' = [s \in Sems |-> [sem[s] EXCEPT !.line = Without(@, C)]]
      /\ UNCHANGED <<cap, held>>
  BY DEF Cancel
<1>2. \A t \in C : t \in Tasks /\ pc[t] \in {"new", "acquiring", "running", "asleep"}
  BY DEF Cancellable, Of
<1> HIDE DEF C
<1>3. ASSUME NEW s \in Sems
      PROVE  /\ sem'[s].free = sem[s].free /\ sem'[s].line = Without(sem[s].line, C)
             /\ Proper(sem'[s].line) /\ sem[s] \in Semaphore
             /\ sem'[s] = [free |-> sem'[s].free, line |-> sem'[s].line]
             /\ \A u : Contains(sem'[s].line, u) <=> Contains(sem[s].line, u) /\ u \notin C
  <2>1. sem[s] \in Semaphore /\ Proper(sem[s].line)
    BY DEF PermitInv, SemTypes, LineInv, Line
  <2>2. /\ sem'[s].free = sem[s].free /\ sem'[s].line = Without(sem[s].line, C)
        /\ sem'[s] = [free |-> sem'[s].free, line |-> sem'[s].line]
    BY <1>1, <2>1 DEF Semaphore
  <2> QED
    BY <2>1, <2>2, WithoutIs
<1>4. SemTypes'
  <2>1. ASSUME NEW s \in Sems PROVE sem'[s] \in Semaphore
    <3>1. sem[s].free \in Nat
      BY <1>3 DEF Semaphore
    <3>2. sem'[s].free \in Nat /\ sem'[s].line \in Seq(Tasks)
      BY <1>3, <3>1 DEF Proper
    <3>3. PICK f \in Nat, q \in Seq(Tasks) : f = sem'[s].free /\ q = sem'[s].line
      BY <3>2
    <3>4. sem'[s] = [free |-> f, line |-> q]
      BY <1>3, <3>3
    <3> QED
      BY <3>4 DEF Semaphore
  <2>2. sem' \in [Sems -> Semaphore]
    BY <1>1, <2>1
  <2>3. pc' \in [Tasks -> Places] /\ seek' \in [Tasks -> Sems \cup {None}]
    BY <1>1 DEF PermitInv, SemTypes, Places
  <2> QED
    BY <1>1, <2>2, <2>3 DEF PermitInv, SemTypes
<1>5. ASSUME NEW u \in Tasks PROVE TaskInv(u)'
  <2>1. TaskInv(u)
    BY DEF PermitInv
  <2>2. CASE u \notin C
    <3>1. pc'[u] = pc[u] /\ seek'[u] = seek[u]
      BY <1>1, <2>2
    <3> QED
      BY <1>1, <2>1, <3>1 DEF TaskInv, InScenario
  <2>3. CASE u \in C
    <3>1. /\ pc'[u] = IF InScenario(u) THEN "aborting" ELSE "stopping"
          /\ seek'[u] \in {None, seek[u]} /\ (seek[u] = None => seek'[u] = None)
          /\ None \notin held[u] /\ None # Global
      BY <1>1, <2>3, SemFacts DEF PermitInv, SemTypes
    <3> QED
      BY <1>1, <2>1, <3>1 DEF TaskInv, InScenario
  <2> QED
    BY <2>2, <2>3
<1>6. ASSUME NEW s \in Sems PROVE LineInv(s)' /\ Account(s)'
  <2>1. LineInv(s) /\ Account(s) /\ s # None
    BY SemFacts DEF PermitInv
  <2>2. LineInv(s)'
    <3>1. ASSUME NEW u \in Tasks, Contains(sem'[s].line, u)
          PROVE  seek'[u] = s /\ pc'[u] = "acquiring"
      <4>1. u \notin C /\ Contains(Line(s), u)
        BY <1>3, <3>1 DEF Line
      <4> QED
        BY <1>1, <2>1, <4>1 DEF LineInv
    <3> QED
      BY <1>3, <3>1 DEF LineInv, Line
  <2>3. ASSUME NEW u \in Tasks
        PROVE  (seek'[u] = s /\ ~ Contains(sem'[s].line, u)) <=> Granted(u, s)
    <3>1. CASE u \in C
      BY <1>1, <1>3, <2>1, <3>1 DEF Granted
    <3>2. CASE u \notin C
      BY <1>1, <1>3, <3>2 DEF Granted
    <3> QED
      BY <3>1, <3>2
  <2>4. With(s)' = With(s) /\ Permits(s)' = Permits(s)
    BY <1>1, <2>3 DEF With, Granted, Permits
  <2> QED
    BY <1>3, <2>1, <2>2, <2>4 DEF Account
<1> QED
  BY <1>4, <1>5, <1>6, PermitAll

(* At first all permits are free.                                          *)
LEMMA InitPermits == Init => PermitInv
<1> SUFFICES ASSUME Init PROVE PermitInv
  OBVIOUS
<1>1. /\ cap = [r \in Runs |-> None] /\ pc = [t \in Tasks |-> "none"]
      /\ seek = [t \in Tasks |-> None] /\ held = [t \in Tasks |-> {}]
      /\ sem = [s \in Sems |-> IF s = Global THEN [free |-> GlobalCap, line |-> <<>>]
                               ELSE NoSemaphore]
  BY DEF Init
<1>2. ASSUME NEW s \in Sems
      PROVE  /\ sem[s].line = <<>> /\ sem[s].free = Permits(s) /\ Permits(s) \in Nat
             /\ sem[s] = [free |-> sem[s].free, line |-> sem[s].line]
  BY <1>1, SemFacts, ExecutorAssumption DEF Permits, NoSemaphore
<1>3. SemTypes
  <2>1. sem \in [Sems -> Semaphore]
    BY <1>1, <1>2, EmptySeq DEF Semaphore
  <2> QED
    BY <1>1, <2>1 DEF SemTypes, Places
<1>4. ASSUME NEW t \in Tasks PROVE TaskInv(t)
  BY <1>1, SemFacts DEF TaskInv, InScenario
<1>5. ASSUME NEW s \in Sems PROVE LineInv(s) /\ Account(s)
  <2>1. LineInv(s)
    <3>1. sem[s].line = <<>>
      BY <1>2
    <3>2. Proper(<<>>)
      BY EmptySeq DEF Proper
    <3>3. \A u : ~ Contains(<<>>, u)
      BY DEF Contains
    <3> QED
      BY <3>1, <3>2, <3>3 DEF LineInv, Line
  <2>2. With(s) = {}
    BY <1>1, SemFacts DEF With, Granted
  <2>3. IsFiniteSet(With(s)) /\ Cardinality(With(s)) = 0
    BY <2>2, FS_EmptySet
  <2>4. PICK n \in Nat : n = Permits(s)
    BY <1>2
  <2>5. sem[s].free = n /\ 0 + n = n
    <3>1. sem[s].free = Permits(s)
      BY <1>2
    <3> QED
      BY <2>4, <3>1
  <2>6. Cardinality(With(s)) + sem[s].free = Permits(s)
    BY <2>3, <2>4, <2>5
  <2> QED
    BY <2>1, <2>3, <2>6 DEF Account
<1> QED
  BY <1>3, <1>4, <1>5 DEF PermitInv

(* Every action keeps each permit in one place.                            *)
LEMMA NextPermits == PermitInv /\ [Next]_vars => PermitInv'
<1> SUFFICES ASSUME PermitInv, [Next]_vars PROVE PermitInv'
  OBVIOUS
<1>1. ASSUME NEW t \in Tasks, Begin(t) \/ Enter(t) PROVE PermitInv'
  BY <1>1, BeginStep, EnterStep
<1>2. ASSUME NEW t \in Tasks, Retry(t) PROVE PermitInv'
  BY <1>2, InsideStep DEF Retry, runVars, InScenario
<1>3. ASSUME NEW t \in Tasks, Scenario(t) PROVE PermitInv'
  <2>1. pc[t] = "running"
    BY <1>3 DEF Scenario, Return, Raise, CancelledInside, Stale
  <2>2. CASE \E o \in {"ok", "error", "cancelled"} : Exit(t, o)
    BY <2>1, <2>2, ExitStep
  <2>3. CASE pc' = [pc EXCEPT ![t] = "asleep"] /\ UNCHANGED <<runVars, seek, held, sem>>
    BY <2>1, <2>3, InsideStep DEF runVars, InScenario
  <2> QED
    BY <1>3, <2>2, <2>3 DEF Scenario, Return, Raise, CancelledInside, Stale
<1>4. ASSUME NEW t \in Tasks, Unwind(t) \/ Abort(t) PROVE PermitInv'
  BY <1>4, ExitStep DEF Unwind, Abort
<1>5. ASSUME NEW r \in Runs, Start(r) \/ Finish(r) \/ Cancel(r) \/ CancelLate(r)
      PROVE  PermitInv'
  BY <1>5, StartStep, LeaveStep, CancelStep DEF Finish, CancelLate, LeaveRaising
<1>6. CASE UNCHANGED vars
  <2>1. UNCHANGED <<pc, seek, held, cap, sem>>
    BY <1>6 DEF vars, runVars, taskVars
  <2> QED
    BY <2>1 DEF PermitInv, SemTypes, TaskInv, LineInv, Line, Account, With, Permits,
       Granted, InScenario
<1> QED
  BY <1>1, <1>2, <1>3, <1>4, <1>5, <1>6 DEF Next, TaskStep

(* However runs overlap, are cancelled or sink, at most config.concurrency *)
(* scenarios are under way in the fleet, and at most "concurrency" of one  *)
(* run that was given a cap (executor.py:194-198).                         *)
THEOREM CapHoldsAlways == Spec => []CapHolds
<1>1. PermitInv => CapHolds
  <2> SUFFICES ASSUME PermitInv PROVE CapHolds
    OBVIOUS
  <2>1. ASSUME NEW s \in Sems, NEW U, U \subseteq With(s)
        PROVE  Cardinality(U) <= Permits(s)
    <3>1. Account(s) /\ sem[s].free \in Nat
      BY DEF PermitInv, SemTypes, Semaphore
    <3>2. Cardinality(With(s)) \in Nat /\ Cardinality(U) <= Cardinality(With(s))
          /\ Cardinality(U) \in Nat
      BY <2>1, <3>1, FS_Subset, FS_CardinalityType DEF Account
    <3>3. PICK n \in Nat, m \in Nat : n = Cardinality(With(s)) /\ m = sem[s].free
      BY <3>1, <3>2
    <3>4. n + m = Permits(s)
      BY <3>1, <3>3 DEF Account
    <3> QED
      BY <3>2, <3>3, <3>4
  <2>2. {t \in Tasks : InScenario(t)} \subseteq With(Global)
    BY DEF PermitInv, TaskInv, With
  <2>3. ASSUME NEW r \in Runs, cap[r] # None
        PROVE  {t \in Of(r) : InScenario(t)} \subseteq With(r)
    BY <2>3 DEF PermitInv, TaskInv, With, Of
  <2>4. Permits(Global) = GlobalCap /\ \A r \in Runs : cap[r] # None => Permits(r) = cap[r]
    BY SemFacts DEF Permits
  <2> QED
    BY <2>1, <2>2, <2>3, <2>4, SemFacts DEF CapHolds
<1> QED
  BY <1>1, InitPermits, NextPermits, PTL DEF Spec

(* Every permit of the fleet that is not free is with a scenario under     *)
(* way, or on its way to a task that was waiting for nothing else: none is *)
(* lost by a cancellation, and none is kept idle.                          *)
THEOREM GlobalPermitsWorkAlways == Spec => []GlobalPermitsWork
<1>1. PermitInv => GlobalPermitsWork
  <2> SUFFICES ASSUME PermitInv PROVE GlobalPermitsWork
    OBVIOUS
  <2>1. {t \in Tasks : InScenario(t) \/ Granted(t, Global)} = With(Global)
    BY DEF PermitInv, TaskInv, With
  <2>2. Account(Global) /\ sem[Global].free \in Nat /\ Permits(Global) = GlobalCap
    BY SemFacts DEF PermitInv, SemTypes, Semaphore, Permits
  <2>3. PICK n \in Nat, m \in Nat : n = Cardinality(With(Global)) /\ m = sem[Global].free
    BY <2>2, FS_CardinalityType DEF Account
  <2>4. n + m = GlobalCap
    BY <2>2, <2>3 DEF Account
  <2>5. GlobalCap - m = n
    BY <2>3, <2>4
  <2> QED
    BY <2>1, <2>3, <2>5 DEF GlobalPermitsWork
<1> QED
  BY <1>1, InitPermits, NextPermits, PTL DEF Spec

-----------------------------------------------------------------------------
(* Results.                                                                *)

(* While gather runs, the tasks are those of the serials that were         *)
(* attached; what run() has returned is one outcome for every serial.      *)
Collecting(r) ==
    /\ wanted[r] = ToSet(serials[r])
    /\ \A t \in Of(r) : pc[t] # "none" => t[2] <= Len(serials[r])
    /\ \A i \in 1..Len(serials[r]) :
          serials[r][i] \in snapshot[r] <=> pc[<<r, i>>] # "none"

Returned(r) ==
    /\ wanted[r] = ToSet(serials[r])
    /\ DOMAIN results[r] = wanted[r]
    /\ \A s \in wanted[r] : /\ results[r][s] \in Outcome
                            /\ results[r][s] = "not connected" <=> s \notin snapshot[r]
    /\ \A t \in Of(r) : Over(t)

RunTypes ==
    /\ phase \in [Runs -> Phases]
    /\ serials \in [Runs -> Seq(Serials)]
    /\ \A r \in Runs : Len(serials[r]) <= MaxTargets
    /\ wanted \in [Runs -> SUBSET Serials]
    /\ snapshot \in [Runs -> SUBSET Serials]
    /\ DOMAIN results = Runs
    /\ pc \in [Tasks -> Places]

RunInv(r) ==
    /\ phase[r] = "gather" => Collecting(r)
    /\ phase[r] = "done" => Returned(r)
    /\ phase[r] # "done" => results[r] = None

ResultInv == RunTypes /\ \A r \in Runs : RunInv(r)

(* A set of serials becomes a list of it.                                  *)
LEMMA Listed ==
  ASSUME NEW S, S \subseteq Serials
  PROVE  /\ SetToSeq(S) \in Seq(Serials) /\ ToSet(SetToSeq(S)) = S
         /\ Len(SetToSeq(S)) <= MaxTargets
<1>1. /\ IsFiniteSet(S) /\ Cardinality(S) <= Cardinality(Serials) /\ Cardinality(S) \in Nat
      /\ Cardinality(Serials) \in Nat /\ Cardinality(Serials) <= MaxTargets /\ MaxTargets \in Nat
  BY ExecutorAssumption, FS_Subset, FS_CardinalityType
<1>2. PICK n \in Nat : n = Cardinality(S)
  BY <1>1
<1>3. \E f \in [1..n -> S] : IsInjective(f)
  BY <1>1, <1>2, FS_CardinalityType DEF ExistsBijection, Bijection, Injection
<1>4. PICK f \in [1..n -> S] : f = SetToSeq(S) /\ IsInjective(f)
  BY <1>2, <1>3 DEF SetToSeq
<1>5. f \in Surjection(1..n, S)
  <2>1. f \in Injection(1..n, S)
    BY <1>4 DEF Injection
  <2>2. Cardinality(1..n) = n
    <3>1. Cardinality(1..n) = IF 1 > n THEN 0 ELSE n - 1 + 1
      BY FS_Interval
    <3> QED
      BY <3>1
  <2> QED
    BY <1>1, <1>2, <2>1, <2>2, FS_Injection
<1>6. f \in Seq(S) /\ Len(f) = n /\ DOMAIN f = 1..n
  BY SeqDef
<1>7. \A x \in S : \E i \in 1..n : f[i] = x
  BY <1>5 DEF Surjection
<1>8. ToSet(f) = S
  BY <1>6, <1>7 DEF ToSet
<1>9. f \in Seq(Serials)
  BY <1>6
<1> QED
  BY <1>1, <1>2, <1>4, <1>6, <1>8, <1>9

(* Whatever the targets are, their list has the serials they promise.      *)
LEMMA Resolved ==
  ASSUME NEW sel \in Selections, NEW attached \in SUBSET Serials
  PROVE  /\ Resolve(sel, attached) \in Seq(Serials)
         /\ Len(Resolve(sel, attached)) <= MaxTargets
         /\ ToSet(Resolve(sel, attached)) = Promised(sel, attached)
         /\ Promised(sel, attached) \subseteq Serials
<1>1. CASE sel = [by |-> "all"]
  <2>1. Resolve(sel, attached) = SetToSeq(attached) /\ Promised(sel, attached) = attached
    BY <1>1 DEF Resolve, Promised
  <2> QED
    BY <2>1, Listed
<1>2. CASE sel = [by |-> "tag"]
  <2>1. Resolve(sel, attached) = SetToSeq(Tagged) /\ Promised(sel, attached) = Tagged
    BY <1>2 DEF Resolve, Promised
  <2> QED
    BY <2>1, Listed, ExecutorAssumption
<1>3. CASE \E l \in Lists : sel = [by |-> "list", list |-> l]
  <2>1. PICK l \in Lists : sel = [by |-> "list", list |-> l]
    BY <1>3
  <2>2. sel.by = "list" /\ sel.list = l
    BY <2>1
  <2>3. Resolve(sel, attached) = l /\ Promised(sel, attached) = ToSet(l)
    BY <2>2 DEF Resolve, Promised
  <2>4. l \in Seq(Serials) /\ Len(l) <= MaxTargets /\ ToSet(l) \subseteq Serials
    BY ExecutorAssumption DEF ToSet
  <2> QED
    BY <2>3, <2>4
<1> QED
  BY <1>1, <1>2, <1>3 DEF Selections

(* No run has returned at first.                                           *)
LEMMA InitResults == Init => ResultInv
<1> SUFFICES ASSUME Init PROVE ResultInv
  OBVIOUS
<1>1. RunTypes
  <2>1. <<>> \in Seq(Serials) /\ Len(<<>>) = 0 /\ 0 <= MaxTargets
    BY ExecutorAssumption
  <2> QED
    BY <2>1 DEF Init, RunTypes, Phases, Places
<1>2. \A r \in Runs : phase[r] = "idle" /\ results[r] = None
  BY DEF Init
<1> QED
  BY <1>1, <1>2 DEF ResultInv, RunInv

(* What is left alone of a run keeps its part of the invariant.            *)
LEMMA RunKept ==
  ASSUME NEW r \in Runs, RunInv(r), phase'[r] = phase[r], serials'[r] = serials[r],
         wanted'[r] = wanted[r], snapshot'[r] = snapshot[r], results'[r] = results[r],
         \A t \in Of(r) : /\ pc'[t] = "none" <=> pc[t] = "none"
                          /\ Over(t) => pc'[t] = pc[t],
         RunTypes
  PROVE  RunInv(r)'
<1>1. ASSUME phase[r] = "gather" PROVE Collecting(r)'
  <2>1. Collecting(r)
    BY <1>1 DEF RunInv
  <2>2. \A i \in 1..Len(serials[r]) : <<r, i>> \in Of(r)
    <3>1. MaxTargets \in Nat /\ Len(serials[r]) \in Nat /\ Len(serials[r]) <= MaxTargets
      BY ExecutorAssumption DEF RunTypes
    <3> QED
      BY <3>1 DEF Of, Tasks
  <2> QED
    BY <2>1, <2>2 DEF Collecting
<1>2. ASSUME phase[r] = "done" PROVE Returned(r)'
  <2>1. Returned(r)
    BY <1>2 DEF RunInv
  <2>2. \A t \in Of(r) : Over(t)'
    BY <2>1 DEF Returned, Over
  <2> QED
    BY <2>1, <2>2 DEF Returned
<1> QED
  BY <1>1, <1>2 DEF RunInv

(* A step of a task: it goes on, or ends.                                  *)
LEMMA TaskMoves ==
  ASSUME ResultInv, NEW t \in Tasks, ~ Over(t), NEW p \in Places,
         pc' = [pc EXCEPT ![t] = p], UNCHANGED runVars,
         p = "none" => phase[t[1]] \in Ended
  PROVE  ResultInv'
<1>1. RunTypes'
  BY DEF ResultInv, RunTypes, runVars
<1>2. \A u \in Tasks : pc'[u] = IF u = t THEN p ELSE pc[u]
  BY DEF ResultInv, RunTypes
<1>3. ASSUME NEW r \in Runs PROVE RunInv(r)'
  <2>1. RunInv(r) /\ RunTypes
    BY DEF ResultInv
  <2>2. \A u \in Of(r) : u \in Tasks /\ u[1] = r
    BY DEF Of
  <2>3. CASE t \notin Of(r) \/ p # "none"
    <3>1. \A u \in Of(r) : /\ pc'[u] = "none" <=> pc[u] = "none"
                           /\ Over(u) => pc'[u] = pc[u]
      BY <1>2, <2>2, <2>3 DEF Over
    <3> QED
      BY <2>1, <3>1, RunKept DEF runVars
  <2>4. CASE t \in Of(r) /\ p = "none"
    <3>1. phase[r] \in {"cancelled", "sunk"}
      BY <2>1, <2>2, <2>4 DEF RunInv, Returned, Ended
    <3> QED
      BY <2>1, <3>1 DEF RunInv, runVars
  <2> QED
    BY <2>3, <2>4
<1> QED
  BY <1>1, <1>3 DEF ResultInv

(* A task ends; only after its run is its outcome dropped.                 *)
LEMMA ExitResults ==
  ASSUME ResultInv, NEW t \in Tasks, ~ Over(t), NEW o \in {"ok", "error", "cancelled"},
         Exit(t, o)
  PROVE  ResultInv'
<1>1. PICK p \in Places : /\ pc' = [pc EXCEPT ![t] = p]
                          /\ p = "none" => phase[t[1]] \in Ended
  BY DEF Exit, Places
<1>2. UNCHANGED runVars
  BY DEF Exit
<1> QED
  BY <1>1, <1>2, TaskMoves

(* A step of run(), which leaves the other runs alone.                     *)
RunOnly(r) ==
    /\ \A q \in Runs \ {r} :
          /\ phase'[q] = phase[q] /\ serials'[q] = serials[q] /\ wanted'[q] = wanted[q]
          /\ snapshot'[q] = snapshot[q] /\ results'[q] = results[q]
    /\ \A t \in Tasks \ Of(r) : pc'[t] = pc[t]

(* For a step of run() only its own part remains to be shown.              *)
LEMMA RunMoves ==
  ASSUME ResultInv, NEW r \in Runs, RunOnly(r), RunTypes', RunInv(r)'
  PROVE  ResultInv'
<1>1. ASSUME NEW q \in Runs, q # r PROVE RunInv(q)'
  <2>1. \A t \in Of(q) : pc'[t] = pc[t]
    BY <1>1 DEF RunOnly, Of
  <2> QED
    BY <1>1, <2>1, RunKept DEF ResultInv, RunOnly
<1> QED
  BY <1>1 DEF ResultInv

(* Start makes a task for each serial of the list that is attached.        *)
LEMMA StartResults ==
  ASSUME ResultInv, NEW r \in Runs, Start(r)
  PROVE  ResultInv'
<1>1. PICK sel \in Selections, attached \in SUBSET Serials :
         LET targets == Resolve(sel, attached)
             Connected(i) == i <= Len(targets) /\ targets[i] \in attached
         IN /\ serials' = [serials EXCEPT ![r] = targets]
            /\ wanted' = [wanted EXCEPT ![r] = Promised(sel, attached)]
            /\ snapshot' = [snapshot EXCEPT ![r] = attached \cap wanted'[r]]
            /\ pc' = [t \in Tasks |->
                         IF t \notin Of(r) THEN pc[t]
                         ELSE IF Connected(t[2]) THEN "new" ELSE "none"]
  BY DEF Start
<1>2. PICK q \in Seq(Serials) : q = Resolve(sel, attached)
  BY Resolved
<1>3. PICK W \in SUBSET Serials : W = Promised(sel, attached)
  BY Resolved
<1>4. Len(q) <= MaxTargets /\ ToSet(q) = W /\ Len(q) \in Nat /\ MaxTargets \in Nat
  BY <1>2, <1>3, Resolved, ExecutorAssumption
<1>5. /\ serials' = [serials EXCEPT ![r] = q] /\ wanted' = [wanted EXCEPT ![r] = W]
      /\ snapshot' = [snapshot EXCEPT ![r] = attached \cap wanted'[r]]
      /\ pc' = [t \in Tasks |->
                   IF t \notin Of(r) THEN pc[t]
                   ELSE IF t[2] <= Len(q) /\ q[t[2]] \in attached THEN "new" ELSE "none"]
      /\ phase' = [phase EXCEPT ![r] = "gather"] /\ results' = [results EXCEPT ![r] = None]
  BY <1>1, <1>2, <1>3 DEF Start
<1>6. /\ serials'[r] = q /\ wanted'[r] = W /\ snapshot'[r] = attached \cap W
      /\ phase'[r] = "gather" /\ results'[r] = None
  BY <1>5 DEF ResultInv, RunTypes
<1>7. RunTypes'
  BY <1>4, <1>5, <1>6 DEF ResultInv, RunTypes, Phases, Places
<1>8. RunOnly(r)
  BY <1>5 DEF ResultInv, RunTypes, RunOnly
<1>9. Collecting(r)'
  <2>1. \A t \in Of(r) : pc'[t] # "none" => t[2] <= Len(q)
    BY <1>5 DEF Of
  <2>2. ASSUME NEW i \in 1..Len(q)
        PROVE  q[i] \in attached \cap W <=> pc'[<<r, i>>] # "none"
    <3>1. q[i] \in W
      BY <1>4 DEF ToSet
    <3>2. i \in 1..MaxTargets /\ i <= Len(q)
      BY <1>4
    <3>3. <<r, i>> \in Tasks /\ <<r, i>> \in Of(r) /\ <<r, i>>[2] = i
      BY <3>2 DEF Tasks, Of
    <3> QED
      BY <1>5, <3>1, <3>2, <3>3
  <2> QED
    BY <1>4, <1>6, <2>1, <2>2 DEF Collecting
<1> QED
  BY <1>6, <1>7, <1>8, <1>9, RunMoves DEF RunInv

(* A run that raises returns nothing.                                      *)
LEMMA RaiseResults ==
  ASSUME ResultInv, NEW r \in Runs, NEW how \in {"sunk", "cancelled"},
         LeaveRaising(r, how), phase[r] # "done"
  PROVE  ResultInv'
<1>1. /\ phase' = [phase EXCEPT ![r] = how] /\ serials' = [serials EXCEPT ![r] = <<>>]
      /\ wanted' = [wanted EXCEPT ![r] = {}] /\ snapshot' = [snapshot EXCEPT ![r] = {}]
      /\ results' = results
      /\ pc' = [t \in Tasks |-> IF t \in Of(r) /\ Over(t) THEN "none" ELSE pc[t]]
  BY DEF LeaveRaising, Leave
<1>2. RunTypes'
  <2>1. <<>> \in Seq(Serials) /\ Len(<<>>) = 0 /\ 0 <= MaxTargets
    BY ExecutorAssumption
  <2> QED
    BY <1>1, <2>1 DEF ResultInv, RunTypes, Phases, Places, Ended
<1>3. RunOnly(r)
  BY <1>1 DEF ResultInv, RunTypes, RunOnly
<1>4. phase'[r] = how /\ results'[r] = None
  BY <1>1 DEF ResultInv, RunInv, RunTypes
<1> QED
  BY <1>2, <1>3, <1>4, RunMoves DEF RunInv

(* The last of several outcomes for a serial is one of them.               *)
LEMMA OutcomeOf ==
  ASSUME RunTypes, NEW r \in Runs, Collecting(r), \A t \in Of(r) : Over(t), ~ Sunk(r),
         NEW s \in ToSet(serials[r])
  PROVE  /\ Outcomes(r)[s] \in Outcome
         /\ Outcomes(r)[s] = "not connected" <=> s \notin snapshot[r]
<1> DEFINE mine == {t \in Of(r) : pc[t] # "none" /\ serials[r][t[2]] = s}
<1>1. Outcomes(r)[s] = IF mine = {} THEN "not connected"
                       ELSE pc[CHOOSE t \in mine : \A u \in mine : u[2] <= t[2]]
  BY DEF Outcomes
<1>2. MaxTargets \in Nat /\ Len(serials[r]) \in Nat /\ Len(serials[r]) <= MaxTargets
  BY ExecutorAssumption DEF RunTypes
<1>3. s \notin snapshot[r] <=> mine = {}
  <2>1. ASSUME s \in snapshot[r] PROVE mine # {}
    <3>1. PICK i \in 1..Len(serials[r]) : serials[r][i] = s
      BY DEF ToSet, RunTypes
    <3>2. pc[<<r, i>>] # "none"
      BY <2>1, <3>1 DEF Collecting
    <3>3. <<r, i>> \in Of(r) /\ <<r, i>>[2] = i
      BY <1>2 DEF Of, Tasks
    <3>4. <<r, i>> \in mine
      BY <3>1, <3>2, <3>3
    <3> QED
      BY <3>4
  <2>2. ASSUME NEW t \in mine PROVE s \in snapshot[r]
    <3>1. t \in Of(r) /\ pc[t] # "none" /\ serials[r][t[2]] = s
      OBVIOUS
    <3>2. t = <<r, t[2]>> /\ t[2] \in 1..MaxTargets
      BY <3>1 DEF Of, Tasks
    <3>3. t[2] \in 1..Len(serials[r])
      BY <1>2, <3>1, <3>2 DEF Collecting
    <3>4. pc[<<r, t[2]>>] # "none"
      BY <3>1, <3>2
    <3> QED
      BY <3>1, <3>3, <3>4 DEF Collecting
  <2> QED
    BY <2>1, <2>2
<1>4. ASSUME mine # {}
      PROVE  \E t \in mine : \A u \in mine : u[2] <= t[2]
  <2> DEFINE T == {t[2] : t \in mine}
  <2>1. T \subseteq 1..MaxTargets /\ T # {}
    BY <1>4 DEF Of, Tasks
  <2>2. PICK m \in T : \A y \in T : y <= m
    BY <1>2, <2>1, Greatest
  <2> QED
    BY <2>2
<1>5. CASE mine = {}
  BY <1>1, <1>3, <1>5 DEF Outcome
<1>6. CASE mine # {}
  <2>1. PICK t \in mine : Outcomes(r)[s] = pc[t]
    BY <1>1, <1>4, <1>6
  <2>2. pc[t] \in {"ok", "error"}
    BY <2>1 DEF Over, Sunk
  <2> QED
    BY <1>3, <1>6, <2>1, <2>2 DEF Outcome
<1> QED
  BY <1>5, <1>6

(* run() returns once all its tasks are over, and none was cancelled.      *)
LEMMA ReturnResults ==
  ASSUME ResultInv, NEW r \in Runs, Leave(r, "done"), phase[r] = "gather",
         \A t \in Of(r) : Over(t), ~ Sunk(r),
         results' = [results EXCEPT ![r] = Outcomes(r)],
         UNCHANGED <<serials, wanted, snapshot>>
  PROVE  ResultInv'
<1>1. /\ phase' = [phase EXCEPT ![r] = "done"]
      /\ pc' = [t \in Tasks |-> IF t \in Of(r) /\ Over(t) THEN "none" ELSE pc[t]]
  BY DEF Leave
<1>2. RunTypes'
  BY <1>1 DEF ResultInv, RunTypes, Phases, Places, Ended
<1>3. RunOnly(r)
  BY <1>1 DEF ResultInv, RunTypes, RunOnly
<1>4. phase'[r] = "done" /\ results'[r] = Outcomes(r)
  BY <1>1 DEF ResultInv, RunTypes
<1>5. Collecting(r) /\ RunTypes
  BY DEF ResultInv, RunInv
<1>6. Returned(r)'
  <2>1. \A t \in Of(r) : Over(t)'
    BY <1>1 DEF Of, Over
  <2>2. DOMAIN Outcomes(r) = ToSet(serials[r]) /\ wanted[r] = ToSet(serials[r])
    BY <1>5 DEF Outcomes, Collecting
  <2>3. \A s \in wanted[r] : /\ Outcomes(r)[s] \in Outcome
                             /\ Outcomes(r)[s] = "not connected" <=> s \notin snapshot[r]
    BY <1>5, <2>2, OutcomeOf
  <2> QED
    BY <1>4, <2>1, <2>2, <2>3 DEF Returned
<1> QED
  BY <1>2, <1>3, <1>4, <1>6, RunMoves DEF RunInv

(* A run that is being cancelled has returned nothing.                     *)
LEMMA CancelResults ==
  ASSUME ResultInv, NEW r \in Runs, Cancel(r)
  PROVE  ResultInv'
<1>1. /\ phase' = [phase EXCEPT ![r] = "cancelling"]
      /\ pc' = [t \in Tasks |-> IF t \notin Cancellable(r) THEN pc[t]
                                ELSE IF InScenario(t) THEN "aborting" ELSE "stopping"]
      /\ UNCHANGED <<serials, results, wanted, snapshot>>
  BY DEF Cancel
<1>2. RunTypes'
  BY <1>1 DEF ResultInv, RunTypes, Phases, Places
<1>3. RunOnly(r)
  BY <1>1 DEF ResultInv, RunTypes, RunOnly, Cancellable
<1>4. phase'[r] = "cancelling" /\ results'[r] = None
  BY <1>1 DEF ResultInv, RunInv, RunTypes, Cancel
<1> QED
  BY <1>2, <1>3, <1>4, RunMoves DEF RunInv

(* Every action keeps the results complete.                                *)
LEMMA NextResults == ResultInv /\ [Next]_vars => ResultInv'
<1> SUFFICES ASSUME ResultInv, [Next]_vars PROVE ResultInv'
  OBVIOUS
<1>1. ASSUME NEW t \in Tasks, Begin(t) \/ Enter(t) PROVE ResultInv'
  <2>1. \E p \in {"acquiring", "running"} : pc' = [pc EXCEPT ![t] = p]
    BY <1>1, AskPlaces DEF Begin, AskRun, Queue, Enter, Invoke
  <2>2. UNCHANGED runVars /\ ~ Over(t)
    BY <1>1 DEF Begin, Enter, Over
  <2> QED
    BY <2>1, <2>2, TaskMoves DEF Places
<1>2. ASSUME NEW t \in Tasks, Retry(t) PROVE ResultInv'
  BY <1>2, TaskMoves DEF Retry, Places, Over
<1>3. ASSUME NEW t \in Tasks, Scenario(t) PROVE ResultInv'
  <2>1. ~ Over(t)
    BY <1>3 DEF Scenario, Return, Raise, CancelledInside, Stale, Over
  <2>2. CASE \E o \in {"ok", "error", "cancelled"} : Exit(t, o)
    BY <2>1, <2>2, ExitResults
  <2>3. CASE pc' = [pc EXCEPT ![t] = "asleep"] /\ UNCHANGED runVars
    BY <2>1, <2>3, TaskMoves DEF Places
  <2> QED
    BY <1>3, <2>2, <2>3 DEF Scenario, Return, Raise, CancelledInside, Stale
<1>4. ASSUME NEW t \in Tasks, Unwind(t) \/ Abort(t) PROVE ResultInv'
  BY <1>4, ExitResults DEF Unwind, Abort, Over
<1>5. ASSUME NEW r \in Runs, Finish(r) PROVE ResultInv'
  <2>1. CASE /\ phase[r] = "gather" /\ ~Sunk(r) /\ Leave(r, "done")
             /\ results' = [results EXCEPT ![r] = Outcomes(r)]
             /\ UNCHANGED <<serials, wanted, snapshot>>
    <3>1. \A t \in Of(r) : Over(t)
      BY <1>5, <2>1 DEF Finish, Gathered
    <3> QED
      BY <2>1, <3>1, ReturnResults
  <2> QED
    BY <1>5, <2>1, RaiseResults DEF Finish
<1>6. ASSUME NEW r \in Runs, CancelLate(r) PROVE ResultInv'
  BY <1>6, RaiseResults DEF CancelLate
<1>7. CASE UNCHANGED vars
  <2>1. UNCHANGED <<phase, serials, wanted, snapshot, results, pc>>
    BY <1>7 DEF vars, runVars, taskVars
  <2>2. RunTypes'
    BY <2>1 DEF ResultInv, RunTypes
  <2>3. ASSUME NEW r \in Runs PROVE RunInv(r)'
    BY <2>1, RunKept DEF ResultInv
  <2> QED
    BY <2>2, <2>3 DEF ResultInv
<1> QED
  BY <1>1, <1>2, <1>3, <1>4, <1>5, <1>6, <1>7, StartResults, CancelResults
  DEF Next, TaskStep

(* A run that returns has an outcome for each serial its targets promise   *)
(* and no other, "not connected" for those that were not attached at the   *)
(* start and only for those, and leaves no task (executor.py:172-186,      *)
(* controller.py:217-239).                                                 *)
THEOREM ResultsAreComplete == Spec => []ResultsComplete
<1>1. ResultInv => ResultsComplete
  BY DEF ResultInv, RunInv, Returned, ResultsComplete
<1> QED
  BY <1>1, InitResults, NextResults, PTL DEF Spec

-----------------------------------------------------------------------------
(* What is left of the types: caps and STALE answers.                      *)
CountTypes ==
    /\ cap \in [Runs -> Nat \cup {None}]
    /\ \A r \in Runs : cap[r] \in RunCaps[r] \cup {None}
    /\ tries \in [Tasks -> 0..Attempts - 1]

(* No caps and no answers at first.                                        *)
LEMMA InitCounts == Init => CountTypes
<1>1. 0 \in 0..Attempts - 1
  BY ExecutorAssumption
<1> QED
  BY <1>1 DEF Init, CountTypes

(* run() sets or forgets its cap.                                          *)
LEMMA CapSet ==
  ASSUME CountTypes, NEW r \in Runs, NEW c \in RunCaps[r] \cup {None},
         cap' = [cap EXCEPT ![r] = c], UNCHANGED tries
  PROVE  CountTypes'
<1>1. c \in Nat \cup {None}
  BY ExecutorAssumption
<1> QED
  BY <1>1 DEF CountTypes

(* A STALE answer is counted only below the number of attempts.            *)
LEMMA NextCounts == CountTypes /\ [Next]_vars => CountTypes'
<1> SUFFICES ASSUME CountTypes, [Next]_vars PROVE CountTypes'
  OBVIOUS
<1>1. Attempts \in Nat /\ 0 \in 0..Attempts - 1
  BY ExecutorAssumption
<1>2. CASE UNCHANGED <<cap, tries>>
  BY <1>2 DEF CountTypes
<1>3. ASSUME NEW t \in Tasks, NEW o, Exit(t, o) PROVE CountTypes'
  <2>1. cap' = cap /\ tries' = [tries EXCEPT ![t] = 0]
    BY <1>3 DEF Exit, runVars
  <2> QED
    BY <1>1, <2>1 DEF CountTypes
<1>4. ASSUME NEW t \in Tasks, tries[t] + 1 < Attempts,
             tries' = [tries EXCEPT ![t] = @ + 1], UNCHANGED cap
      PROVE  CountTypes'
  <2>1. tries[t] + 1 \in 0..Attempts - 1
    BY <1>1, <1>4 DEF CountTypes
  <2> QED
    BY <1>4, <2>1 DEF CountTypes
<1>5. ASSUME NEW t \in Tasks, TaskStep(t) PROVE CountTypes'
  BY <1>2, <1>3, <1>4, <1>5 DEF TaskStep, Begin, Enter, Retry, Scenario, Return, Raise,
     CancelledInside, Stale, Unwind, Abort, runVars
<1>6. ASSUME NEW r \in Runs, Start(r) PROVE CountTypes'
  BY <1>6, CapSet DEF Start
<1>7. ASSUME NEW r \in Runs, NEW how, Leave(r, how) PROVE CountTypes'
  <2>1. PICK c \in RunCaps[r] \cup {None} : cap' = [cap EXCEPT ![r] = c]
    BY <1>7 DEF Leave, CountTypes
  <2>2. tries' = tries
    BY <1>7 DEF Leave
  <2> QED
    BY <2>1, <2>2, CapSet
<1>8. ASSUME NEW r \in Runs, Cancel(r) PROVE CountTypes'
  BY <1>2, <1>8 DEF Cancel
<1>9. CASE UNCHANGED vars
  BY <1>2, <1>9 DEF vars, runVars, taskVars
<1> QED
  BY <1>5, <1>6, <1>7, <1>8, <1>9 DEF Next, Finish, CancelLate, LeaveRaising

(* Type correctness of run(), its tasks and the semaphores.                *)
THEOREM TypeCorrect == Spec => []TypeOK
<1>1. PermitInv /\ ResultInv /\ CountTypes => TypeOK
  <2> SUFFICES ASSUME PermitInv, ResultInv, CountTypes PROVE TypeOK
    OBVIOUS
  <2>1. /\ phase \in [Runs -> Ended \cup {"idle", "gather", "cancelling"}]
        /\ \A r \in Runs : serials[r] \in Seq(Serials) /\ Len(serials[r]) <= MaxTargets
        /\ wanted \in [Runs -> SUBSET Serials] /\ snapshot \in [Runs -> SUBSET Serials]
    BY DEF ResultInv, RunTypes, Phases
  <2>2. \A r \in Runs : results[r] # None =>
             /\ DOMAIN results[r] = ToSet(serials[r])
             /\ \A s \in DOMAIN results[r] : results[r][s] \in Outcome
    BY DEF ResultInv, RunInv, Returned
  <2>3. /\ pc \in [Tasks -> {"none", "new", "acquiring", "running", "asleep",
                             "stopping", "aborting", "ok", "error", "cancelled"}]
        /\ seek \in [Tasks -> Sems \cup {None}] /\ held \in [Tasks -> SUBSET Sems]
    BY DEF PermitInv, SemTypes, Places
  <2>4. \A s \in Sems : sem[s].free \in Nat /\ ToSet(sem[s].line) \subseteq Tasks
    BY DEF PermitInv, SemTypes, Semaphore, ToSet
  <2>5. tries \in [Tasks -> 0..Attempts - 1] /\ \A r \in Runs : cap[r] \in RunCaps[r] \cup {None}
    BY DEF CountTypes
  <2> QED
    BY <2>1, <2>2, <2>3, <2>4, <2>5 DEF TypeOK
<1> QED
  BY <1>1, InitPermits, NextPermits, InitResults, NextResults, InitCounts, NextCounts, PTL
  DEF Spec
=============================================================================
