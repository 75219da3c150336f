------------------------- MODULE RpcContractProofs -------------------------
(***************************************************************************)
(* Module Rpc implements RpcContract: every step of the ids, the registry  *)
(* and the frames is a step of the contract or invisible to the callers.   *)
(***************************************************************************)
EXTENDS RpcProofs

(* What an answer presupposes: its call has begun, the agent has executed  *)
(* it, and a future that holds it holds it in the shape its call expects.  *)
Answered ==
    /\ \A r \in inbox : pc[r.of] # "idle"
    /\ \A k \in 1..Len(wire) : wire[k].of \in served
    /\ \A c \in Calls : fut[c].st \in ReplyStates => c \in served /\ Own(c)

Basis == Inductive /\ Answered

-----------------------------------------------------------------------------
(* Answered is invariant.                                                  *)

(* The step ends call c through Finish: with a reply only if its future    *)
(* holds that reply.                                                       *)
Ending(c) == \E o \in Future : /\ c \in Active
                               /\ Finish(c, o)
                               /\ o.st \in ReplyStates => o = fut[c]

(* The actions that end a running call end it through Finish.              *)
LEMMA EndingCall ==
    ASSUME TypeOK, NEW c \in Calls, AlreadySettled(c) \/ SendFails(c) \/ Resume(c)
    PROVE  Ending(c)
<1>1. c \in Active
    BY DEF AlreadySettled, SendFails, Resume, Active
<1>2. PICK o \in {Blank("lost"), Blank("cancelled"), Blank("timeout"), fut[c]} :
          Finish(c, o)
    BY DEF AlreadySettled, SendFails, Resume
<1>3. o \in Future /\ (o.st \in ReplyStates => o = fut[c])
    BY <1>2, BlankTyped DEF TypeOK, Blank, ReplyStates
<1>. QED
    BY <1>1, <1>2, <1>3 DEF Ending

(* Actions that keep the phases, the requests, the wire and the replies.   *)
LEMMA StillAnswered ==
    ASSUME Basis,
           \A c \in Calls : pc[c] # "idle" => pc'[c] # "idle",
           \A r \in inbox' : pc'[r.of] # "idle",
           wire' \in {wire, <<>>},
           served' = served,
           \A c \in Calls : fut'[c] = fut[c] \/ fut'[c].st \notin ReplyStates
    PROVE  Answered'
<1>1. \A k \in 1..Len(wire') : wire'[k].of \in served'
    <2>1. CASE wire' = wire
        BY <2>1 DEF Basis, Answered
    <2>2. CASE wire' = <<>>
        BY <2>2
    <2>. QED
        BY <2>1, <2>2
<1>2. \A c \in Calls : fut'[c].st \in ReplyStates => c \in served' /\ Own(c)'
    BY DEF Basis, Answered, Own
<1>. QED
    BY <1>1, <1>2 DEF Answered

(* A call that ends takes its future along.                                *)
LEMMA FinishAnswered ==
    ASSUME Basis, NEW c \in Active, NEW o \in Future, Finish(c, o),
           o.st \in ReplyStates => o = fut[c]
    PROVE  Answered'
<1>1. TypeOK /\ c \in Calls
    BY DEF Basis, Inductive, Active
<1>2. /\ pc' = [pc EXCEPT ![c] = "done"]
      /\ fut' = [fut EXCEPT ![c] = o]
      /\ wire' = wire /\ inbox' = inbox /\ served' = served
    BY DEF Finish, agentVars
<1>3. \A r \in inbox : r.of \in Calls
    BY <1>1 DEF TypeOK, Request
<1>4. /\ \A d \in Calls : pc[d] # "idle" => pc'[d] # "idle"
      /\ \A r \in inbox' : pc'[r.of] # "idle"
    BY <1>1, <1>2, <1>3 DEF Basis, Answered, TypeOK
<1>5. \A d \in Calls : fut'[d] = fut[d] \/ fut'[d].st \notin ReplyStates
    BY <1>1, <1>2 DEF TypeOK
<1>. QED
    BY <1>2, <1>4, <1>5, StillAnswered

(* What a delivery does to the futures.                                    *)
LEMMA DeliverAnswers ==
    ASSUME Basis, Deliver
    PROVE  \A c \in Calls :
               \/ fut'[c] = fut[c]
               \/ c \in Active /\ c \in served /\ Own(c)'
<1> DEFINE f == Head(wire)
           i == f.id
           c == entry[i]
<1>1. TypeOK /\ Receive(f) /\ wire # <<>>
    BY DEF Basis, Inductive, Deliver
<1>2. 1 \in 1..Len(wire) /\ f = wire[1]
    BY <1>1, HeadTailProperties, LenProperties, EmptySeq DEF TypeOK
<1>3. f \in Frame /\ i \in Ids /\ f.of \in served
    BY <1>1, <1>2, WireTyped DEF Basis, Answered
<1>4. ASSUME Pending(i)
      PROVE  c \in Active /\ c \in Calls /\ id[c] = i /\ f.of = c
    <2>1. c \in Active
        BY <1>2, <1>3, <1>4 DEF Basis, Inductive, LeftoverIdle
    <2>2. id[c] = i
        BY <1>3, <1>4, <2>1 DEF Basis, Inductive, RegistryExact, Unencodable, Active
    <2>. QED
        BY <1>2, <2>1, <2>2 DEF Basis, Inductive, FlightOwned, Active
<1>5. f.kind = "binary" => /\ f.of \in Binary
                           /\ Pending(i) => meta[i] = f.of
    BY <1>2 DEF Basis, Inductive, BinaryPaired
<1> HIDE DEF f
<1>6. \/ fut' = fut
      \/ /\ Pending(i)
         /\ \E r : /\ Settle(i, r)
                   /\ \/ r = Response("error", c, None)
                      \/ r = Response("text", c, None) /\ c \notin Binary
                      \/ r = Response("twopart", c, c) /\ c \in Binary
    BY <1>1, <1>4, <1>5 DEF Receive
<1>7. CASE fut' = fut
    BY <1>7
<1>8. ASSUME NEW r, Pending(i), Settle(i, r),
             \/ r = Response("error", c, None)
             \/ r = Response("text", c, None) /\ c \notin Binary
             \/ r = Response("twopart", c, c) /\ c \in Binary
      PROVE  \A d \in Calls : \/ fut'[d] = fut[d]
                              \/ d \in Active /\ d \in served /\ Own(d)'
    <2>1. PICK e \in Calls : e = c /\ e \in Active /\ e \in served
        BY <1>3, <1>4, <1>8
    <2>2. \A d \in Calls : d # e => fut'[d] = fut[d]
        BY <1>1, <1>8, <2>1 DEF Settle, TypeOK
    <2>3. fut'[e] = fut[e] \/ fut'[e] = r
        BY <1>1, <1>8, <2>1 DEF Settle, TypeOK
    <2>4. fut'[e] = r => Own(e)'
        BY <1>8, <2>1 DEF Own
    <2>. QED
        BY <2>1, <2>2, <2>3, <2>4
<1>. QED
    BY <1>6, <1>7, <1>8

(* Nothing is on the wire at first.                                        *)
LEMMA AnsweredInit == Init => Answered
<1> SUFFICES ASSUME Init PROVE Answered
    OBVIOUS
<1>1. /\ inbox = {}
      /\ Len(wire) = 0
      /\ \A c \in Calls : fut[c].st = "none"
    BY DEF Init, Blank
<1>. QED
    BY <1>1 DEF Answered, ReplyStates

(* What the agent answers it has executed.                                 *)
LEMMA ServeAnswered ==
    ASSUME Basis, NEW r \in inbox, Serve(r)
    PROVE  Answered'
<1>1. TypeOK /\ r \in Request
    BY DEF Basis, Inductive, TypeOK
<1>2. /\ pc' = pc /\ fut' = fut
      /\ inbox' = inbox \ {r}
      /\ served' = served \cup {r.of}
    BY DEF Serve, callVars
<1>3. \A k \in 1..Len(wire') : wire'[k].of \in served'
    <2>1. CASE ~ r.live
        BY <1>2, <2>1 DEF Serve, Basis, Answered
    <2>2. CASE r.live
        <3>1. PICK s \in AnswersTo(r) : wire' = wire \o s
            BY <2>2 DEF Serve
        <3>2. s \in Seq(Frame)
            BY <1>1, FrameTyped
        <3>3. \A k \in 1..Len(s) : s[k].of = r.of
            BY DEF AnswersTo
        <3>4. /\ Len(wire) \in Nat /\ Len(s) \in Nat
              /\ Len(wire') = Len(wire) + Len(s)
              /\ \A k \in 1..Len(wire') :
                    wire'[k] = IF k <= Len(wire) THEN wire[k] ELSE s[k - Len(wire)]
            BY <1>1, <3>1, <3>2, ConcatProperties, LenProperties DEF TypeOK
        <3>5. \A k \in 1..Len(wire') :
                 \/ k \in 1..Len(wire) /\ wire'[k] = wire[k]
                 \/ wire'[k].of = r.of
            BY <3>3, <3>4
        <3>. QED
            BY <1>2, <3>5 DEF Basis, Answered
    <2>. QED
        BY <2>1, <2>2
<1>4. \A c \in Calls : fut'[c].st \in ReplyStates => c \in served' /\ Own(c)'
    BY <1>2 DEF Basis, Answered, Own
<1>. QED
    BY <1>2, <1>3, <1>4 DEF Basis, Answered

(* A delivery hands on an answer that was executed, whole.                 *)
LEMMA DeliverAnswered ==
    ASSUME Basis, Deliver
    PROVE  Answered'
<1>1. TypeOK /\ wire # <<>> /\ wire' = Tail(wire)
    BY DEF Basis, Inductive, Deliver
<1>2. pc' = pc /\ inbox' = inbox /\ served' = served
    BY DEF Deliver, callVars
<1>3. \A k \in 1..Len(wire') : k+1 \in 1..Len(wire) /\ wire'[k] = wire[k+1]
    BY <1>1, HeadTailProperties, LenProperties, EmptySeq DEF TypeOK
<1>4. \A c \in Calls : fut'[c].st \in ReplyStates => c \in served' /\ Own(c)'
    <2> TAKE c \in Calls
    <2>1. CASE fut'[c] = fut[c]
        BY <1>2, <2>1 DEF Basis, Answered, Own
    <2>2. CASE c \in Active /\ c \in served /\ Own(c)'
        BY <1>2, <2>2
    <2>. QED
        BY <2>1, <2>2, DeliverAnswers
<1>. QED
    BY <1>2, <1>3, <1>4 DEF Basis, Answered

(* Every action keeps Answered.                                            *)
LEMMA AnsweredNext == Basis /\ [Next]_vars => Answered'
<1> SUFFICES ASSUME Basis, [Next]_vars PROVE Answered'
    OBVIOUS
<1>1. TypeOK
    BY DEF Basis, Inductive
<1>2. /\ \A r \in inbox : r.of \in Calls /\ pc[r.of] # "idle"
      /\ \A r \in Deaf(inbox) : r.of \in Calls /\ pc[r.of] # "idle"
    <2>1. inbox \subseteq Request
        BY <1>1 DEF TypeOK
    <2>2. \A r \in Request : [r EXCEPT !.live = FALSE].of = r.of /\ r.of \in Calls
        BY DEF Request
    <2>. QED
        BY <2>1, <2>2 DEF Deaf, Basis, Answered
<1>3. ASSUME NEW c \in Calls, Begin(c) \/ Exhausted(c) PROVE Answered'
    <2>1. /\ pc[c] = "idle"
          /\ pc' \in {[pc EXCEPT ![c] = "sending"], [pc EXCEPT ![c] = "done"]}
          /\ fut' \in {[fut EXCEPT ![c] = Blank("pending")],
                       [fut EXCEPT ![c] = Blank("unencodable")],
                       [fut EXCEPT ![c] = Blank("exhausted")]}
          /\ inbox' = inbox /\ wire' = wire /\ served' = served
        BY <1>3 DEF Begin, Register, EncodeFails, Exhausted, agentVars
    <2>2. \A d \in Calls : fut'[d] = fut[d] \/ fut'[d].st \notin ReplyStates
        BY <1>1, <2>1 DEF TypeOK, Blank, ReplyStates
    <2>3. \A d \in Calls : pc[d] # "idle" => pc'[d] # "idle"
        BY <1>1, <2>1 DEF TypeOK
    <2>. QED
        BY <1>2, <2>1, <2>2, <2>3, StillAnswered
<1>4. ASSUME NEW c \in Calls, Transmit(c) PROVE Answered'
    <2>1. /\ pc' = [pc EXCEPT ![c] = "flushing"]
          /\ inbox' = inbox \cup {[id |-> id[c], of |-> c, live |-> live[c]]}
          /\ wire' = wire /\ served' = served /\ fut' = fut
        BY <1>4 DEF Transmit
    <2>2. \A d \in Calls : pc[d] # "idle" => pc'[d] # "idle"
        BY <1>1, <2>1 DEF TypeOK
    <2>3. \A r \in inbox' : pc'[r.of] # "idle"
        BY <1>1, <1>2, <2>1 DEF TypeOK
    <2>. QED
        BY <2>1, <2>2, <2>3, StillAnswered
<1>5. ASSUME NEW c \in Calls, AwaitReply(c) \/ Expire(c) \/ Cancel(c) PROVE Answered'
    <2>1. /\ pc' \in {pc, [pc EXCEPT ![c] = "waiting"]}
          /\ inbox' = inbox /\ wire' = wire /\ served' = served
          /\ fut' = fut \/ CancelFuture(c)
        BY <1>5 DEF AwaitReply, Expire, Cancel, agentVars
    <2>2. \A d \in Calls : fut'[d] = fut[d] \/ fut'[d].st \notin ReplyStates
        BY <1>1, <2>1 DEF TypeOK, CancelFuture, Blank, ReplyStates
    <2>3. \A d \in Calls : pc[d] # "idle" => pc'[d] # "idle"
        BY <1>1, <2>1 DEF TypeOK
    <2>. QED
        BY <1>2, <2>1, <2>2, <2>3, StillAnswered
<1>6. ASSUME NEW c \in Calls, AlreadySettled(c) \/ SendFails(c) \/ Resume(c)
      PROVE  Answered'
    <2>1. AlreadySettled(c) \/ SendFails(c) \/ Resume(c)
        BY <1>6
    <2>2. Ending(c)
        BY <1>1, <2>1, EndingCall
    <2>. QED
        BY <2>2, FinishAnswered DEF Ending
<1>7. ASSUME Die \/ Drop \/ Reopen \/ UNCHANGED vars PROVE Answered'
    <2>1. /\ pc' = pc /\ served' = served
          /\ inbox' \in {inbox, Deaf(inbox)}
          /\ wire' \in {wire, <<>>}
        BY <1>7 DEF Die, Drop, Reopen, vars, callVars, agentVars
    <2>2. \A d \in Calls : fut'[d] = fut[d] \/ fut'[d].st \notin ReplyStates
        BY <1>7 DEF Die, Drop, Reopen, vars, Blank, ReplyStates
    <2>. QED
        BY <1>2, <2>1, <2>2, StillAnswered
<1>. QED
    BY <1>3, <1>4, <1>5, <1>6, <1>7, ServeAnswered, DeliverAnswered
       DEF Next, World, Caller

-----------------------------------------------------------------------------
(* The steps, as the callers see them.                                     *)

(* A step that changes no phase and no outcome is none to the callers.     *)
LEMMA Unseen ==
    ASSUME \A c \in Calls : pc'[c] = "idle" <=> pc[c] = "idle",
           \A c \in Calls : pc'[c] = "done" <=> pc[c] = "done",
           \A c \in Calls : pc[c] = "done" => fut'[c] = fut[c],
           served' = served
    PROVE  UNCHANGED Contract!vars
<1>1. phaseOf' = phaseOf
    BY DEF phaseOf
<1>2. outcomeOf' = outcomeOf
    <2>1. \A c \in Calls : pc[c] = "done" => (Own(c)' <=> Own(c))
        BY DEF Own
    <2>2. \A c \in Calls : outcomeOf'[c] = outcomeOf[c]
        <3> TAKE c \in Calls
        <3>1. CASE pc[c] # "done"
            BY <3>1 DEF outcomeOf
        <3>2. CASE pc[c] = "done"
            <4>1. pc'[c] = "done" /\ fut'[c] = fut[c] /\ (Own(c)' <=> Own(c))
                BY <2>1, <3>2
            <4>. QED
                BY <3>2, <4>1 DEF outcomeOf
        <3>. QED
            BY <3>1, <3>2
    <2>. QED
        BY <2>2 DEF outcomeOf
<1>. QED
    BY <1>1, <1>2 DEF Contract!vars

(* A call that ends does so with its own answer, or without one.           *)
LEMMA Ends ==
    ASSUME Basis, NEW c \in Active, NEW o \in Future, Finish(c, o),
           o.st \in ReplyStates => o = fut[c]
    PROVE  Contract!Succeed(c) \/ Contract!Fail(c)
<1>1. TypeOK /\ c \in Calls /\ pc[c] \notin {"idle", "done"}
    BY DEF Basis, Inductive, Active
<1>2. /\ pc' = [pc EXCEPT ![c] = "done"]
      /\ fut' = [fut EXCEPT ![c] = o]
      /\ served' = served
    BY DEF Finish, agentVars
<1>3. /\ phaseOf[c] = "open"
      /\ phaseOf' = [phaseOf EXCEPT ![c] = "done"]
    BY <1>1, <1>2 DEF phaseOf, TypeOK
<1>4. \A d \in Calls : d # c => outcomeOf'[d] = outcomeOf[d]
    <2>1. \A d \in Calls : d # c => pc'[d] = pc[d] /\ fut'[d] = fut[d]
        BY <1>1, <1>2 DEF TypeOK
    <2>2. \A d \in Calls : d # c => (Own(d)' <=> Own(d))
        BY <2>1 DEF Own
    <2>. QED
        BY <2>1, <2>2 DEF outcomeOf
<1>5. CASE o.st \in ReplyStates
    <2>1. fut'[c] = fut[c] /\ pc'[c] = "done" /\ fut'[c].st \in ReplyStates
        BY <1>1, <1>2, <1>5 DEF TypeOK
    <2>2. c \in served /\ Own(c)'
        BY <1>1, <1>5, <2>1 DEF Basis, Answered, Own
    <2>3. outcomeOf'[c] = "own"
        BY <1>1, <2>1, <2>2 DEF outcomeOf
    <2>4. outcomeOf' = [outcomeOf EXCEPT ![c] = "own"]
        BY <1>4, <2>3 DEF outcomeOf
    <2>. QED
        BY <1>2, <1>3, <2>2, <2>4 DEF Contract!Succeed
<1>6. CASE o.st \notin ReplyStates
    <2>1. outcomeOf'[c] = "failed"
        <3>1. pc'[c] = "done" /\ fut'[c].st \notin ReplyStates
            BY <1>1, <1>2, <1>6 DEF TypeOK
        <3>. QED
            BY <1>1, <3>1 DEF outcomeOf
    <2>2. outcomeOf' = [outcomeOf EXCEPT ![c] = "failed"]
        BY <1>4, <2>1 DEF outcomeOf
    <2>. QED
        BY <1>2, <1>3, <2>2 DEF Contract!Fail
<1>. QED
    BY <1>5, <1>6

(* Every reachable state is one in which the steps refine the contract.    *)
LEMMA BasisHolds == Spec => []Basis
<1>1. Init => Basis
    BY InductiveInit, AnsweredInit DEF Basis
<1>2. Basis /\ [Next]_vars => Basis'
    BY InductiveNext, AnsweredNext DEF Basis
<1>. QED
    BY <1>1, <1>2, PTL DEF Spec

(* All calls are idle at first.                                            *)
LEMMA InitRefines == Init => Contract!Init
<1> SUFFICES ASSUME Init PROVE Contract!Init
    OBVIOUS
<1>1. phaseOf = [c \in Calls |-> "idle"]
    BY DEF Init, phaseOf
<1>2. outcomeOf = [c \in Calls |-> "none"]
    BY DEF Init, outcomeOf
<1>. QED
    BY <1>1, <1>2 DEF Init, Contract!Init

(* Drawing an id opens the call; with no id left, or with a request that   *)
(* cannot be encoded, it fails.                                            *)
LEMMA BeginRefines ==
    ASSUME Basis, NEW c \in Calls, Begin(c) \/ Exhausted(c)
    PROVE  Contract!Begin(c) \/ Contract!Fail(c)
<1>1. TypeOK /\ pc[c] = "idle" /\ served' = served
    BY DEF Basis, Inductive, Begin, Register, EncodeFails, Exhausted, agentVars
<1>2. phaseOf[c] = "idle"
    BY <1>1 DEF phaseOf
<1>3. ASSUME NEW x, fut' = [fut EXCEPT ![c] = x]
      PROVE  \A d \in Calls : d # c => fut'[d] = fut[d]
    BY <1>1, <1>3 DEF TypeOK
<1>4. CASE \E i \in Ids : Register(c, i)
    <2>1. /\ pc' = [pc EXCEPT ![c] = "sending"]
          /\ fut' = [fut EXCEPT ![c] = Blank("pending")]
        BY <1>4 DEF Register
    <2>2. phaseOf' = [phaseOf EXCEPT ![c] = "open"]
        BY <1>1, <2>1 DEF phaseOf, TypeOK
    <2>3. \A d \in Calls : outcomeOf'[d] = outcomeOf[d]
        <3> TAKE d \in Calls
        <3>1. CASE d = c
            <4>1. pc'[d] = "sending" /\ pc[d] = "idle"
                BY <1>1, <2>1, <3>1 DEF TypeOK
            <4>. QED
                BY <4>1 DEF outcomeOf
        <3>2. CASE d # c
            <4>1. pc'[d] = pc[d] /\ fut'[d] = fut[d]
                BY <1>1, <2>1, <3>2 DEF TypeOK
            <4>2. Own(d)' <=> Own(d)
                BY <4>1 DEF Own
            <4>. QED
                BY <4>1, <4>2 DEF outcomeOf
        <3>. QED
            BY <3>1, <3>2
    <2>4. outcomeOf' = outcomeOf
        BY <2>3 DEF outcomeOf
    <2>. QED
        BY <1>1, <1>2, <2>2, <2>4 DEF Contract!Begin
<1>5. CASE Exhausted(c) \/ \E i \in Ids : EncodeFails(c, i)
    <2>1. /\ pc' = [pc EXCEPT ![c] = "done"]
          /\ fut' \in {[fut EXCEPT ![c] = Blank("exhausted")],
                       [fut EXCEPT ![c] = Blank("unencodable")]}
        BY <1>5 DEF Exhausted, EncodeFails
    <2>2. phaseOf' = [phaseOf EXCEPT ![c] = "done"]
        BY <1>1, <2>1 DEF phaseOf, TypeOK
    <2>3. outcomeOf'[c] = "failed"
        <3>1. pc'[c] = "done" /\ fut'[c].st \notin ReplyStates
            BY <1>1, <2>1 DEF TypeOK, Blank, ReplyStates
        <3>. QED
            BY <3>1 DEF outcomeOf
    <2>4. \A d \in Calls : d # c => outcomeOf'[d] = outcomeOf[d]
        <3> SUFFICES ASSUME NEW d \in Calls, d # c
                     PROVE  outcomeOf'[d] = outcomeOf[d]
            OBVIOUS
        <3>1. pc'[d] = pc[d] /\ fut'[d] = fut[d]
            BY <1>1, <2>1 DEF TypeOK
        <3>2. Own(d)' <=> Own(d)
            BY <3>1 DEF Own
        <3>. QED
            BY <3>1, <3>2 DEF outcomeOf
    <2>5. outcomeOf' = [outcomeOf EXCEPT ![c] = "failed"]
        BY <2>3, <2>4 DEF outcomeOf
    <2>. QED
        BY <1>1, <1>2, <2>2, <2>5 DEF Contract!Fail
<1>. QED
    BY <1>4, <1>5 DEF Begin

(* Serving a request executes it, or changes nothing a caller sees.        *)
LEMMA ServeRefines ==
    ASSUME Basis, NEW r \in inbox, Serve(r)
    PROVE  [Contract!Next]_(Contract!vars)
<1>1. /\ pc' = pc /\ fut' = fut
      /\ served' = served \cup {r.of}
    BY DEF Serve, callVars
<1>2. r.of \in Calls /\ pc[r.of] # "idle"
    BY DEF Basis, Inductive, TypeOK, Request, Answered
<1>3. /\ phaseOf[r.of] # "idle"
      /\ phaseOf' = phaseOf
      /\ outcomeOf' = outcomeOf
    BY <1>1, <1>2 DEF phaseOf, outcomeOf, Own
<1>4. CASE r.of \in served
    BY <1>1, <1>3, <1>4 DEF Contract!vars
<1>5. CASE r.of \notin served
    <2>1. Contract!Execute(r.of)
        BY <1>1, <1>3, <1>5 DEF Contract!Execute
    <2>. QED
        BY <1>2, <2>1 DEF Contract!Next
<1>. QED
    BY <1>4, <1>5

(* Every step is one of the contract, or none to the callers.              *)
LEMMA StepRefines == Basis /\ [Next]_vars => [Contract!Next]_(Contract!vars)
<1> SUFFICES ASSUME Basis, [Next]_vars PROVE [Contract!Next]_(Contract!vars)
    OBVIOUS
<1>1. TypeOK
    BY DEF Basis, Inductive
<1>2. ASSUME NEW c \in Calls, Begin(c) \/ Exhausted(c)
      PROVE  Contract!Next
    <2>1. Begin(c) \/ Exhausted(c)
        BY <1>2
    <2>. QED
        BY <2>1, BeginRefines DEF Contract!Next
<1>3. ASSUME NEW c \in Calls, AlreadySettled(c) \/ SendFails(c) \/ Resume(c)
      PROVE  Contract!Next
    <2>1. AlreadySettled(c) \/ SendFails(c) \/ Resume(c)
        BY <1>3
    <2>2. Ending(c)
        BY <1>1, <2>1, EndingCall
    <2>3. Contract!Succeed(c) \/ Contract!Fail(c)
        BY <2>2, Ends DEF Ending
    <2>. QED
        BY <2>3 DEF Contract!Next
<1>4. ASSUME NEW c \in Calls,
             Transmit(c) \/ AwaitReply(c) \/ Expire(c) \/ Cancel(c)
      PROVE  UNCHANGED Contract!vars
    <2>1. /\ pc[c] \in {"sending", "flushing", "waiting"}
          /\ pc' \in {pc, [pc EXCEPT ![c] = "flushing"],
                      [pc EXCEPT ![c] = "waiting"]}
          /\ fut' = fut \/ CancelFuture(c)
          /\ served' = served
        BY <1>4 DEF Transmit, AwaitReply, Expire, Cancel, Active, agentVars
    <2>2. \A d \in Calls : /\ pc'[d] = "idle" <=> pc[d] = "idle"
                           /\ pc'[d] = "done" <=> pc[d] = "done"
        BY <1>1, <2>1 DEF TypeOK
    <2>3. \A d \in Calls : pc[d] = "done" => fut'[d] = fut[d]
        BY <1>1, <2>1 DEF TypeOK, CancelFuture
    <2>. QED
        BY <2>1, <2>2, <2>3, Unseen
<1>5. ASSUME Deliver PROVE UNCHANGED Contract!vars
    <2>1. pc' = pc /\ served' = served
        BY <1>5 DEF Deliver, callVars
    <2>2. \A d \in Calls : pc[d] = "done" => fut'[d] = fut[d]
        <3>1. \A d \in Calls : fut'[d] = fut[d] \/ d \in Active
            BY <1>5, DeliverAnswers
        <3>. QED
            BY <3>1 DEF Active
    <2>. QED
        BY <2>1, <2>2, Unseen
<1>6. ASSUME Die \/ Drop \/ Reopen \/ UNCHANGED vars
      PROVE  UNCHANGED Contract!vars
    <2>1. pc' = pc /\ served' = served
        BY <1>6 DEF Die, Drop, Reopen, vars, callVars, agentVars
    <2>2. \A d \in Calls :
             \/ fut'[d] = fut[d]
             \/ fut[d].st = "pending" /\ \E i \in Ids : entry[i] = d
        BY <1>6 DEF Die, Drop, Reopen, vars
    <2>3. \A i \in Ids : entry[i] # None =>
              entry[i] \in Active \/ fut[entry[i]].st = "unencodable"
        BY DEF Basis, Inductive, RegistryExact, Pending, Unencodable
    <2>4. \A d \in Calls : pc[d] = "done" => fut'[d] = fut[d]
        BY <2>2, <2>3, RpcAssumption DEF Active
    <2>. QED
        BY <2>1, <2>4, Unseen
<1>. QED
    BY <1>2, <1>3, <1>4, <1>5, <1>6, ServeRefines DEF Next, World, Caller

(* The registry, the ids, the frames and the sockets implement the         *)
(* contract of RpcClient: a call ends once, succeeds only with the answer  *)
(* to its own request and only after the agent executed it.                *)
THEOREM RpcImplementsContract == Spec => ImplementsContract
<1>1. Spec => []Basis
    BY BasisHolds
<1>. QED
    BY <1>1, InitRefines, StepRefines, PTL DEF Spec, ImplementsContract, Contract!Spec
=============================================================================
