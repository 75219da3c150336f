---------------------------- MODULE RpcContract ----------------------------
(***************************************************************************)
(* What a caller of RpcClient may rely on, with no ids, frames or sockets: *)
(* every call ends once; it succeeds only with the answer to its own       *)
(* request, and only after the agent executed that request; the agent may  *)
(* execute a request whose call has already failed.                        *)
(***************************************************************************)
CONSTANT Calls

VARIABLES
    phase,     \* "idle", "open" or "done"
    executed,  \* the calls whose request the agent has executed
    outcome    \* "none", "own" (its own answer) or "failed"

vars == <<phase, executed, outcome>>

Init ==
    /\ phase = [c \in Calls |-> "idle"]
    /\ executed = {}
    /\ outcome = [c \in Calls |-> "none"]

Begin(c) ==
    /\ phase[c] = "idle"
    /\ phase' = [phase EXCEPT ![c] = "open"]
    /\ UNCHANGED <<executed, outcome>>

Execute(c) ==
    /\ phase[c] # "idle"
    /\ c \notin executed
    /\ executed' = executed \cup {c}
    /\ UNCHANGED <<phase, outcome>>

Succeed(c) ==
    /\ phase[c] = "open"
    /\ c \in executed
    /\ phase' = [phase EXCEPT ![c] = "done"]
    /\ outcome' = [outcome EXCEPT ![c] = "own"]
    /\ UNCHANGED executed

(* An error that is not the agent's: deadline, cancellation, lost          *)
(* connection, no id to start with, or a request that cannot be encoded.   *)
Fail(c) ==
    /\ phase[c] # "done"
    /\ phase' = [phase EXCEPT ![c] = "done"]
    /\ outcome' = [outcome EXCEPT ![c] = "failed"]
    /\ UNCHANGED executed

Next == \E c \in Calls : Begin(c) \/ Execute(c) \/ Succeed(c) \/ Fail(c)

Spec == Init /\ [][Next]_vars
=============================================================================
