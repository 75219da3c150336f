----------------------------- MODULE RpcProofs -----------------------------
(***************************************************************************)
(* Proofs about module Rpc, for any calls and any size of the id space.    *)
(***************************************************************************)
EXTENDS Rpc, SequenceTheorems, TLAPS

-----------------------------------------------------------------------------
(* The inductive invariant.                                                *)

(* A call holds an id exactly while it runs, and no two running calls hold *)
(* the same one.                                                           *)
IdsDistinct ==
    /\ \A c \in Calls : c \in Active <=> id[c] \in Ids
    /\ \A c, d \in Active : id[c] = id[d] => c = d

(* Whatever still carries the id of a running call was made for that call. *)
FlightOwned ==
    \A c \in Active :
        /\ \A k \in 1..Len(wire) : wire[k].id = id[c] => wire[k].of = c
        /\ \A r \in inbox : r.live /\ r.id = id[c] => r.of = c

(* Nothing in flight carries an id whose entry was left behind, and no      *)
(* running call holds it.                                                  *)
LeftoverIdle ==
    \A i \in Ids : Pending(i) /\ entry[i] \notin Active =>
        /\ \A k \in 1..Len(wire) : wire[k].id # i
        /\ \A r \in inbox : r.live => r.id # i
        /\ \A c \in Active : id[c] # i

StashOwned == \A i \in Ids : Pending(i) => meta[i] \in {None, entry[i]}

(* A binary frame follows its metadata, on the wire or in the stash.       *)
BinaryPaired ==
    \A k \in 1..Len(wire) :
        wire[k].kind = "binary" =>
            /\ wire[k].of \in Binary
            /\ k > 1 => /\ wire[k-1].kind = "text"
                        /\ wire[k-1].id = wire[k].id
                        /\ wire[k-1].of = wire[k].of
            /\ k = 1 /\ Pending(wire[k].id) => meta[wire[k].id] = wire[k].of

Inductive ==
    /\ TypeOK
    /\ IdsDistinct
    /\ RegistryExact
    /\ FlightOwned
    /\ LeftoverIdle
    /\ StashOwned
    /\ BinaryPaired
    /\ NoCrossDelivery
    /\ TwoPartWhole

-----------------------------------------------------------------------------
(* Type correctness                                                        *)

(* Answers are frames.                                                     *)
LEMMA FrameTyped ==
    ASSUME NEW r \in Request, NEW s \in AnswersTo(r)
    PROVE  s \in Seq(Frame)
<1> DEFINE F(kind) == [kind |-> kind, id |-> r.id, of |-> r.of]
<1>1. F("error") \in Frame /\ F("text") \in Frame /\ F("binary") \in Frame
    BY DEF Request, Frame
<1>2. s \in {<<F("error")>>, <<F("text")>>, <<F("text"), F("binary")>>}
    BY DEF AnswersTo
<1>3. ASSUME NEW x \in Frame, NEW y \in Frame
      PROVE  <<x>> \in Seq(Frame) /\ <<x, y>> \in Seq(Frame)
    OBVIOUS
<1> HIDE DEF F
<1>. QED
    BY <1>1, <1>2, <1>3

(* Requests whose answers nobody reads are requests.                       *)
LEMMA DeafTyped ==
    ASSUME NEW requests \in SUBSET Request
    PROVE  Deaf(requests) \in SUBSET Request
<1>1. \A r \in Request : [r EXCEPT !.live = FALSE] \in Request
    BY DEF Request
<1>. QED
    BY <1>1 DEF Deaf

(* A call that ends leaves everything well typed.                          *)
LEMMA FinishTyped ==
    ASSUME TypeOK, NEW c \in Calls, NEW o \in Future, Finish(c, o)
    PROVE  TypeOK'
BY RpcAssumption DEF TypeOK, Finish, agentVars, Maybe, Future

(* So does a future that is settled.                                       *)
LEMMA SettleTyped ==
    ASSUME TypeOK, NEW i \in Ids, NEW r \in Future, Settle(i, r)
    PROVE  /\ entry' \in [Ids -> Maybe]
           /\ meta' \in [Ids -> Maybe]
           /\ fut' \in [Calls -> Future]
BY DEF TypeOK, Settle, Maybe

(* The ways to end without an answer are futures.                          *)
LEMMA BlankTyped ==
    /\ Blank("lost") \in Future
    /\ Blank("cancelled") \in Future
    /\ Blank("timeout") \in Future
    /\ Blank("exhausted") \in Future
    /\ Blank("unencodable") \in Future
    /\ Blank("pending") \in Future
    /\ Blank("none") \in Future
BY DEF Blank, Future, FutureStates, Maybe

(* The types hold at first.                                                *)
LEMMA TypeInit == Init => TypeOK
<1> SUFFICES ASSUME Init PROVE TypeOK
    OBVIOUS
<1>1. wire \in Seq(Frame)
    BY EmptySeq DEF Init
<1>. QED
    BY <1>1, BlankTyped, RpcAssumption DEF Init, TypeOK, Ids, Maybe

(* Every action keeps them; distinct ids keep the registry a function.     *)
LEMMA TypeNext == TypeOK /\ IdsDistinct /\ [Next]_vars => TypeOK'
<1> SUFFICES ASSUME TypeOK, IdsDistinct, [Next]_vars PROVE TypeOK'
    OBVIOUS
<1> USE RpcAssumption, BlankTyped
<1>1. ASSUME NEW c \in Calls, Begin(c) PROVE TypeOK'
    <2>1. PICK i \in Ids : Register(c, i) \/ EncodeFails(c, i)
        BY <1>1 DEF Begin
    <2>2. Following(i) \in Ids
        BY DEF Following, Ids
    <2>3. CASE Register(c, i)
        BY <2>2, <2>3 DEF Register, TypeOK, agentVars, Maybe
    <2>4. CASE EncodeFails(c, i)
        BY <2>2, <2>4 DEF EncodeFails, TypeOK, linkVars, agentVars, Maybe
    <2>. QED
        BY <2>1, <2>3, <2>4
<1>2. ASSUME NEW c \in Calls, Exhausted(c) PROVE TypeOK'
    BY <1>2 DEF Exhausted, TypeOK, registry, linkVars, agentVars
<1>3. ASSUME NEW c \in Calls, Transmit(c) PROVE TypeOK'
    <2>1. pc' \in [Calls -> {"idle", "sending", "flushing", "waiting", "done"}]
        BY <1>3 DEF Transmit, TypeOK
    <2>2. id[c] \in Ids
        BY <1>3 DEF Transmit, IdsDistinct, Active
    <2>3. [id |-> id[c], of |-> c, live |-> live[c]] \in Request
        BY <2>2 DEF TypeOK, Request
    <2>. QED
        BY <1>3, <2>1, <2>3 DEF Transmit, TypeOK, registry, linkVars
<1>4. ASSUME NEW c \in Calls, AwaitReply(c) PROVE TypeOK'
    BY <1>4 DEF AwaitReply, TypeOK, registry, linkVars, agentVars
<1>5. ASSUME NEW c \in Calls, AlreadySettled(c) PROVE TypeOK'
    BY <1>5, FinishTyped DEF AlreadySettled, TypeOK
<1>6. ASSUME NEW c \in Calls, SendFails(c) PROVE TypeOK'
    BY <1>6, FinishTyped DEF SendFails
<1>7. ASSUME NEW c \in Calls, Expire(c) PROVE TypeOK'
    BY <1>7 DEF Expire, CancelFuture, TypeOK, registry, linkVars, agentVars
<1>8. ASSUME NEW c \in Calls, Cancel(c) PROVE TypeOK'
    BY <1>8 DEF Cancel, CancelFuture, TypeOK, registry, linkVars, agentVars
<1>9. ASSUME NEW c \in Calls, Resume(c) PROVE TypeOK'
    BY <1>9, FinishTyped DEF Resume, TypeOK
<1>10. ASSUME Deliver PROVE TypeOK'
    <2> DEFINE f == Head(wire)
    <2>1. f \in Frame /\ wire' \in Seq(Frame)
        BY <1>10, HeadTailProperties DEF Deliver, TypeOK
    <2>2. f.id \in Ids /\ f.of \in Maybe
        BY <2>1 DEF Frame, Maybe
    <2>3. /\ Response("error", f.of, None) \in Future
          /\ Response("text", f.of, None) \in Future
          /\ Response("twopart", meta[f.id], f.of) \in Future
        BY <2>2 DEF Response, Future, FutureStates, ReplyStates, Maybe, TypeOK
    <2>4. Receive(f)
        BY <1>10 DEF Deliver
    <2>5. /\ entry' \in [Ids -> Maybe]
          /\ meta' \in [Ids -> Maybe]
          /\ fut' \in [Calls -> Future]
        <3> HIDE DEF f
        <3>. QED
            BY <2>2, <2>3, <2>4, SettleTyped DEF Receive, TypeOK, registry
    <2>. QED
        BY <1>10, <2>1, <2>5 DEF Deliver, TypeOK, callVars, linkVars
<1>11. ASSUME NEW r \in inbox, Serve(r) PROVE TypeOK'
    <2>1. r \in Request /\ r.of \in Calls
        BY DEF TypeOK, Request
    <2>2. wire' \in Seq(Frame)
        <3>1. \A s \in AnswersTo(r) : wire \o s \in Seq(Frame)
            BY <2>1, FrameTyped, ConcatProperties DEF TypeOK
        <3>2. CASE r.live
            <4>1. PICK s \in AnswersTo(r) : wire' = wire \o s
                BY <1>11, <3>2 DEF Serve
            <4>. QED
                BY <3>1, <4>1
        <3>3. CASE ~ r.live
            BY <1>11, <3>3 DEF Serve, TypeOK
        <3>. QED
            BY <3>2, <3>3
    <2>. QED
        BY <1>11, <2>1, <2>2 DEF Serve, TypeOK, callVars, registry, linkVars
<1>12. ASSUME Die PROVE TypeOK'
    <2>1. Deaf(inbox) \in SUBSET Request
        BY DeafTyped DEF TypeOK
    <2>. QED
        BY <1>12, <2>1 DEF Die, TypeOK, callVars, registry
<1>13. ASSUME Drop PROVE TypeOK'
    <2>1. Deaf(inbox) \in SUBSET Request
        BY DeafTyped DEF TypeOK
    <2>2. wire' \in Seq(Frame)
        BY <1>13, EmptySeq DEF Drop
    <2>. QED
        BY <1>13, <2>1, <2>2 DEF Drop, TypeOK, callVars, Maybe
<1>14. ASSUME Reopen PROVE TypeOK'
    BY <1>14 DEF Reopen, TypeOK, callVars, registry, agentVars
<1>15. ASSUME UNCHANGED vars PROVE TypeOK'
    BY <1>15 DEF vars, TypeOK
<1>. QED
    BY <1>1, <1>2, <1>3, <1>4, <1>5, <1>6, <1>7, <1>8, <1>9, <1>10, <1>11,
       <1>12, <1>13, <1>14, <1>15 DEF Next, World, Caller

-----------------------------------------------------------------------------
(* Preservation by the actions that touch the registry                     *)

UnencodableKept == \A c \in Calls : Unencodable(c) => Unencodable(c)'

(* A call that could not be encoded is over: its outcome never changes,    *)
(* not even when its leftover entry is cleared.                            *)
LEMMA UnencodableStays == TypeOK /\ [Next]_vars => UnencodableKept
<1> SUFFICES ASSUME TypeOK, [Next]_vars, NEW d \in Calls, Unencodable(d)
             PROVE  Unencodable(d)'
    BY DEF UnencodableKept
<1> USE DEF Unencodable
<1>1. ASSUME NEW c \in Calls, Begin(c) \/ Exhausted(c) \/ Transmit(c) \/ AwaitReply(c)
      PROVE  Unencodable(d)'
    BY <1>1 DEF Begin, Register, EncodeFails, Exhausted, Transmit, AwaitReply, TypeOK
<1>2. ASSUME NEW c \in Calls, NEW o, c \in Active, Finish(c, o) PROVE Unencodable(d)'
    BY <1>2 DEF Finish, Active, TypeOK
<1>3. ASSUME NEW c \in Calls, AlreadySettled(c) \/ SendFails(c) \/ Resume(c)
      PROVE  Unencodable(d)'
    <2>1. c \in Active
        BY <1>3 DEF AlreadySettled, SendFails, Resume, Active
    <2>. QED
        BY <1>2, <1>3, <2>1 DEF AlreadySettled, SendFails, Resume
<1>4. ASSUME NEW c \in Calls, Expire(c) \/ Cancel(c) PROVE Unencodable(d)'
    BY <1>4 DEF Expire, Cancel, CancelFuture, TypeOK
<1>5. ASSUME NEW i \in Ids, NEW r, Settle(i, r) PROVE fut'[d] = fut[d]
    BY <1>5 DEF Settle, TypeOK
<1>6. ASSUME Deliver PROVE Unencodable(d)'
    <2>1. Receive(Head(wire)) /\ pc' = pc
        BY <1>6 DEF Deliver, callVars
    <2>2. \A i \in Ids : \A r : Settle(i, r) => fut'[d] = fut[d]
        BY <1>5
    <2>3. Head(wire) \in Frame
        BY <1>6, HeadTailProperties DEF Deliver, TypeOK
    <2>4. Head(wire).id \in Ids
        BY <2>3 DEF Frame
    <2>5. fut'[d] = fut[d]
        BY <2>1, <2>2, <2>4 DEF Receive
    <2>. QED
        BY <2>1, <2>5
<1>7. ASSUME NEW r \in inbox, Serve(r) PROVE Unencodable(d)'
    BY <1>7 DEF Serve, callVars
<1>8. ASSUME Die \/ Drop \/ Reopen \/ UNCHANGED vars PROVE Unencodable(d)'
    BY <1>8 DEF Die, Drop, Reopen, vars, callVars
<1>. QED
    BY <1>1, <1>3, <1>4, <1>6, <1>7, <1>8 DEF Next, World, Caller

(* What is on the wire belongs to some call.                               *)
LEMMA WireTyped ==
    ASSUME TypeOK, NEW k \in 1..Len(wire)
    PROVE  wire[k] \in Frame /\ wire[k].id \in Ids /\ wire[k].of \in Calls
<1>1. wire[k] \in Frame
    BY ElementOfSeq DEF TypeOK
<1>. QED
    BY <1>1 DEF Frame

(* A new call takes an id that nothing in flight carries.                  *)
LEMMA RegisterStep ==
    ASSUME Inductive, UnencodableKept, NEW c \in Calls,
           NEW i \in Ids \ Lingering, Register(c, i)
    PROVE  /\ IdsDistinct' /\ RegistryExact' /\ FlightOwned' /\ LeftoverIdle'
           /\ StashOwned' /\ BinaryPaired'
<1> USE RpcAssumption
<1>1. i \in Ids \ Lingering
    OBVIOUS
<1>2. /\ c \notin Active
      /\ ~ Pending(i)
      /\ id' = [id EXCEPT ![c] = i]
      /\ entry' = [entry EXCEPT ![i] = c]
      /\ meta' = [meta EXCEPT ![i] = None]
      /\ fut' = [fut EXCEPT ![c] = Blank("pending")]
      /\ wire' = wire /\ inbox' = inbox
    BY <1>1 DEF Register, NextId, Active, agentVars
<1>3. Active' = Active \cup {c}
    BY <1>1 DEF Register, Active, Inductive, TypeOK
<1>4. \A d \in Active : id[d] # i
    BY DEF Lingering
<1>5. \A r \in inbox : r.live => r.id # i
    BY DEF Lingering
<1>6. \A k \in 1..Len(wire) : wire[k].id # i
    BY DEF Lingering
<1>7. TypeOK /\ Active \subseteq Calls
    BY DEF Inductive, Active
<1>8. IdsDistinct'
    BY <1>2, <1>3, <1>4, <1>7 DEF Inductive, IdsDistinct, TypeOK
<1>9. RegistryExact'
    <2>1. \A j \in Ids : Pending(j)' => \/ entry'[j] \in Active' /\ id'[entry'[j]] = j
                                       \/ Unencodable(entry[j])'
        BY <1>2, <1>3, <1>7
           DEF Inductive, RegistryExact, Pending, TypeOK, Maybe, UnencodableKept
    <2>2. \A d \in Active' : fut'[d].st = "pending" => Reachable(d)'
        BY <1>2, <1>3, <1>4, <1>7 DEF Inductive, RegistryExact, Reachable, TypeOK, Ids
    <2>. QED
        BY <2>1, <2>2 DEF RegistryExact
<1>10. LeftoverIdle'
    BY <1>2, <1>3, <1>4, <1>5, <1>6, <1>7
       DEF Inductive, LeftoverIdle, Lingering, NextId, Pending, TypeOK
<1>11. FlightOwned'
    BY <1>2, <1>3, <1>5, <1>6, <1>7 DEF Inductive, FlightOwned, TypeOK
<1>12. StashOwned'
    BY <1>2, <1>7 DEF Inductive, StashOwned, Pending, TypeOK
<1>13. BinaryPaired'
    <2>1. \A k \in 1..Len(wire) : wire[k].id \in Ids
        BY <1>7, WireTyped
    <2>. QED
        BY <1>2, <1>6, <1>7, <2>1 DEF Inductive, BinaryPaired, Pending, TypeOK
<1>. QED
    BY <1>8, <1>9, <1>10, <1>11, <1>12, <1>13

(* A call that cannot be encoded leaves an entry under an id that nothing  *)
(* carries, and that nobody can draw while the entry is there.             *)
LEMMA EncodeFailsStep ==
    ASSUME Inductive, UnencodableKept, NEW c \in Calls,
           NEW i \in Ids \ Lingering, EncodeFails(c, i)
    PROVE  /\ IdsDistinct' /\ RegistryExact' /\ FlightOwned' /\ LeftoverIdle'
           /\ StashOwned' /\ BinaryPaired' /\ NoCrossDelivery' /\ TwoPartWhole'
<1> USE RpcAssumption
<1>1. /\ ~ Pending(i)
      /\ entry' = [entry EXCEPT ![i] = c]
      /\ meta' = [meta EXCEPT ![i] = None]
      /\ fut' = [fut EXCEPT ![c] = Blank("unencodable")]
      /\ UNCHANGED <<id, wire, inbox>>
    BY DEF EncodeFails, NextId, agentVars
<1>2. TypeOK /\ Active \subseteq Calls
    BY DEF Inductive, Active
<1>3. Active' = Active /\ c \notin Active /\ Unencodable(c)'
    BY <1>2 DEF EncodeFails, Active, TypeOK, Unencodable, Blank
<1>4. /\ \A d \in Active : id[d] # i
      /\ \A r \in inbox : r.live => r.id # i
      /\ \A k \in 1..Len(wire) : wire[k].id # i
    BY DEF Lingering
<1>5. IdsDistinct' /\ FlightOwned'
    BY <1>1, <1>3 DEF Inductive, IdsDistinct, FlightOwned
<1>6. RegistryExact'
    <2>1. \A j \in Ids : Pending(j)' => \/ entry'[j] \in Active' /\ id'[entry'[j]] = j
                                       \/ Unencodable(entry[j])'
        <3> TAKE j \in Ids
        <3>1. CASE j = i
            BY <1>1, <1>2, <1>3, <3>1 DEF TypeOK
        <3>2. CASE j # i
            BY <1>1, <1>2, <1>3, <3>2
               DEF Inductive, RegistryExact, Pending, TypeOK, Maybe, UnencodableKept
        <3>. QED
            BY <3>1, <3>2
    <2>2. \A d \in Active' : fut'[d].st = "pending" => Reachable(d)'
        BY <1>1, <1>2, <1>3, <1>4
           DEF Inductive, RegistryExact, Reachable, TypeOK, IdsDistinct, Ids
    <2>. QED
        BY <2>1, <2>2 DEF RegistryExact
<1>7. LeftoverIdle'
    BY <1>1, <1>2, <1>3, <1>4 DEF Inductive, LeftoverIdle, Pending, TypeOK
<1>8. StashOwned'
    BY <1>1, <1>2 DEF Inductive, StashOwned, Pending, TypeOK
<1>9. BinaryPaired'
    <2>1. \A k \in 1..Len(wire) : wire[k].id \in Ids
        BY <1>2, WireTyped
    <2>. QED
        BY <1>1, <1>2, <1>4, <2>1 DEF Inductive, BinaryPaired, Pending, TypeOK
<1>10. NoCrossDelivery' /\ TwoPartWhole'
    BY <1>1, <1>2 DEF Inductive, NoCrossDelivery, TwoPartWhole, TypeOK, Blank, ReplyStates
<1>. QED
    BY <1>5, <1>6, <1>7, <1>8, <1>9, <1>10

(* A call that ends pops its own entry and no other.                       *)
LEMMA FinishStep ==
    ASSUME Inductive, UnencodableKept, NEW c \in Active, NEW o \in Future, Finish(c, o),
           o.st \in ReplyStates => o = fut[c]
    PROVE  /\ IdsDistinct' /\ RegistryExact' /\ FlightOwned' /\ LeftoverIdle'
           /\ StashOwned' /\ BinaryPaired' /\ NoCrossDelivery' /\ TwoPartWhole'
<1> USE RpcAssumption
<1>1. TypeOK /\ c \in Calls /\ Active \subseteq Calls
    BY DEF Inductive, Active
<1>2. id[c] \in Ids
    BY <1>1 DEF Inductive, IdsDistinct
<1>3. Active' = Active \ {c}
    BY <1>1 DEF Finish, Active, TypeOK
<1>4. /\ id' = [id EXCEPT ![c] = None]
      /\ entry' = [entry EXCEPT ![id[c]] = None]
      /\ meta' = [meta EXCEPT ![id[c]] = None]
      /\ fut' = [fut EXCEPT ![c] = o]
      /\ wire' = wire /\ inbox' = inbox
    BY DEF Finish, agentVars
<1>5. \A d \in Active : d # c => id[d] # id[c]
    BY DEF Inductive, IdsDistinct
<1>6. IdsDistinct'
    BY <1>1, <1>3, <1>4 DEF Inductive, IdsDistinct, TypeOK, Ids
<1>7. RegistryExact'
    <2>1. \A j \in Ids : Pending(j)' => \/ entry'[j] \in Active' /\ id'[entry'[j]] = j
                                       \/ Unencodable(entry[j])'
        BY <1>1, <1>2, <1>3, <1>4
           DEF Inductive, RegistryExact, Pending, TypeOK, Maybe, UnencodableKept
    <2>2. \A d \in Active' : fut'[d].st = "pending" => Reachable(d)'
        BY <1>1, <1>2, <1>3, <1>4, <1>5
           DEF Inductive, RegistryExact, Reachable, TypeOK, IdsDistinct
    <2>. QED
        BY <2>1, <2>2 DEF RegistryExact
<1>8. LeftoverIdle'
    BY <1>1, <1>2, <1>3, <1>4
       DEF Inductive, LeftoverIdle, RegistryExact, Unencodable, Pending, TypeOK, Active
<1>9. FlightOwned'
    BY <1>1, <1>3, <1>4 DEF Inductive, FlightOwned, TypeOK
<1>10. StashOwned'
    BY <1>1, <1>2, <1>4 DEF Inductive, StashOwned, Pending, TypeOK
<1>11. BinaryPaired'
    <2>1. \A k \in 1..Len(wire) : wire[k].id \in Ids
        BY <1>1, WireTyped
    <2>. QED
        BY <1>1, <1>2, <1>4, <2>1 DEF Inductive, BinaryPaired, Pending, TypeOK
<1>12. NoCrossDelivery' /\ TwoPartWhole'
    BY <1>1, <1>4 DEF Inductive, NoCrossDelivery, TwoPartWhole, TypeOK, ReplyStates
<1>. QED
    BY <1>6, <1>7, <1>9, <1>10, <1>11, <1>12, <1>8

(* A frame reaches the call it was made for, or nobody.                    *)
LEMMA DeliverStep ==
    ASSUME Inductive, UnencodableKept, Deliver
    PROVE  /\ IdsDistinct' /\ RegistryExact' /\ FlightOwned' /\ LeftoverIdle'
           /\ StashOwned' /\ BinaryPaired' /\ NoCrossDelivery' /\ TwoPartWhole'
<1> USE RpcAssumption
<1> DEFINE f == Head(wire)
           i == f.id
           c == entry[i]
<1>1. TypeOK
    BY DEF Inductive
<1>2. /\ wire # <<>>
      /\ Receive(f)
      /\ wire' = Tail(wire)
      /\ pc' = pc /\ id' = id /\ inbox' = inbox
      /\ Active' = Active
    BY DEF Deliver, callVars, Active
<1>3. /\ Len(wire) \in Nat
      /\ Len(wire') = Len(wire) - 1
      /\ \A k \in 1..Len(wire') : k+1 \in 1..Len(wire) /\ wire'[k] = wire[k+1]
      /\ 1 \in 1..Len(wire)
      /\ f = wire[1]
    BY <1>1, <1>2, HeadTailProperties, LenProperties, EmptySeq DEF TypeOK
<1>4. f \in Frame /\ i \in Ids /\ f.of \in Calls
    BY <1>1, <1>3, WireTyped
<1>5. ASSUME Pending(i)
      PROVE  c \in Active /\ c \in Calls /\ id[c] = i /\ f.of = c
    <2>1. c \in Active
        BY <1>3, <1>4, <1>5 DEF Inductive, LeftoverIdle
    <2>2. id[c] = i
        BY <1>4, <1>5, <2>1 DEF Inductive, RegistryExact, Unencodable, Active
    <2>. QED
        BY <1>3, <2>1, <2>2 DEF Inductive, FlightOwned, Active
<1>6. f.kind = "binary" => /\ f.of \in Binary
                           /\ Pending(i) => meta[i] = f.of
    BY <1>3 DEF Inductive, BinaryPaired
<1> HIDE DEF f
<1>7. \/ UNCHANGED <<entry, meta, fut>> /\ ~ Pending(i)
      \/ UNCHANGED <<entry, fut>> /\ Pending(i) /\ meta' = [meta EXCEPT ![i] = f.of]
      \/ \E r \in Future :
            /\ Pending(i)
            /\ Settle(i, r)
            /\ r.head = c /\ r.body \in {c, None} /\ r.st \in ReplyStates
            /\ r.st = "twopart" => c \in Binary /\ r.head = r.body
            /\ r.st = "text" => c \notin Binary
    <2>1. CASE ~ Pending(i)
        BY <1>2, <2>1 DEF Receive, registry
    <2>2. CASE Pending(i) /\ f.kind = "error"
        <3>1. Settle(i, Response("error", f.of, None))
            BY <1>2, <2>2 DEF Receive
        <3>. QED
            BY <1>4, <1>5, <2>2, <3>1
               DEF Response, Future, FutureStates, ReplyStates, Maybe
    <2>3. CASE Pending(i) /\ f.kind = "text" /\ c \notin Binary
        <3>1. Settle(i, Response("text", f.of, None))
            BY <1>2, <2>3 DEF Receive
        <3>. QED
            BY <1>4, <1>5, <2>3, <3>1
               DEF Response, Future, FutureStates, ReplyStates, Maybe
    <2>4. CASE Pending(i) /\ f.kind = "text" /\ c \in Binary
        BY <1>2, <2>4 DEF Receive
    <2>5. CASE Pending(i) /\ f.kind = "binary"
        <3>1. Settle(i, Response("twopart", meta[i], f.of))
            BY <1>2, <2>5 DEF Receive
        <3>. QED
            BY <1>4, <1>5, <1>6, <2>5, <3>1
               DEF Response, Future, FutureStates, ReplyStates, Maybe
    <2>. QED
        BY <1>4, <2>1, <2>2, <2>3, <2>4, <2>5 DEF Frame
<1>8. IdsDistinct'
    BY <1>2 DEF Inductive, IdsDistinct
<1>9. RegistryExact'
    <2> USE <1>1, <1>2, <1>4, <1>5
    <2>1. CASE UNCHANGED <<entry, fut>>
        BY <2>1 DEF Inductive, RegistryExact, Reachable, Pending, TypeOK, Maybe,
                    UnencodableKept
    <2>2. ASSUME NEW r \in Future, Pending(i), Settle(i, r), r.st \in ReplyStates
          PROVE  RegistryExact'
        <3>1. /\ entry' = [entry EXCEPT ![i] = None]
              /\ fut' = [fut EXCEPT ![c] = IF @.st = "pending" THEN r ELSE @]
              /\ r.st # "pending"
            BY <2>2 DEF Settle, ReplyStates
        <3>2. \A j \in Ids : entry'[j] # None => \/ entry'[j] \in Active /\ id[entry'[j]] = j
                                               \/ Unencodable(entry[j])'
            BY <3>1 DEF Inductive, RegistryExact, Pending, TypeOK, Maybe, UnencodableKept
        <3>3. \A d \in Active : fut'[d].st = "pending" =>
                    id[d] # None /\ entry'[id[d]] = d
            BY <2>2, <3>1
               DEF Inductive, RegistryExact, Reachable, TypeOK, Active
        <3>. QED
            BY <3>2, <3>3 DEF RegistryExact, Reachable, Pending
    <2>. QED
        BY <1>7, <2>1, <2>2
<1>10. LeftoverIdle'
    <2>1. \A j \in Ids : entry'[j] \in {entry[j], None}
        BY <1>1, <1>4, <1>7 DEF Settle, TypeOK
    <2>. QED
        BY <1>2, <1>3, <2>1 DEF Inductive, LeftoverIdle, Pending
<1>11. FlightOwned'
    BY <1>2, <1>3 DEF Inductive, FlightOwned
<1>12. StashOwned'
    BY <1>1, <1>4, <1>5, <1>7 DEF Inductive, StashOwned, Pending, Settle, TypeOK
<1>13. BinaryPaired'
    <2> SUFFICES ASSUME NEW k \in 1..Len(wire'), wire'[k].kind = "binary"
                 PROVE  /\ wire'[k].of \in Binary
                        /\ k > 1 => /\ wire'[k-1].kind = "text"
                                    /\ wire'[k-1].id = wire'[k].id
                                    /\ wire'[k-1].of = wire'[k].of
                        /\ k = 1 /\ entry'[wire'[k].id] # None =>
                              meta'[wire'[k].id] = wire'[k].of
        BY DEF BinaryPaired, Pending
    <2>1. /\ wire[k+1].of \in Binary
          /\ wire[k].kind = "text"
          /\ wire[k].id = wire[k+1].id
          /\ wire[k].of = wire[k+1].of
        BY <1>3 DEF Inductive, BinaryPaired
    <2>2. CASE k > 1
        BY <1>3, <2>1, <2>2
    <2>3. CASE k = 1
        <3>1. f.kind = "text" /\ wire'[1].id = i /\ wire'[1].of = f.of
            BY <1>3, <2>1, <2>3
        <3>2. entry'[i] # None => meta'[i] = f.of
            BY <1>1, <1>4, <1>7 DEF Pending, Settle, TypeOK
        <3>. QED
            BY <1>3, <2>1, <2>3, <3>1, <3>2
    <2>. QED
        BY <2>2, <2>3
<1>14. NoCrossDelivery' /\ TwoPartWhole'
    BY <1>1, <1>4, <1>5, <1>7
       DEF Inductive, NoCrossDelivery, TwoPartWhole, Settle, TypeOK, ReplyStates
<1>. QED
    BY <1>8, <1>9, <1>11, <1>12, <1>13, <1>14, <1>10

-----------------------------------------------------------------------------
(* Preservation by the other actions                                       *)

(* Nothing moves but the progress of the calls; requests may go deaf and   *)
(* futures may fail.                                                       *)
LEMMA QuietStep ==
    ASSUME Inductive, UnencodableKept,
           Active' = Active,
           UNCHANGED <<id, entry, meta, wire>>,
           \A r \in inbox' : r.live => r \in inbox,
           \A c \in Calls : \/ fut'[c] = fut[c]
                            \/ fut'[c].st \notin ReplyStates \cup {"pending"}
    PROVE  /\ IdsDistinct' /\ RegistryExact' /\ FlightOwned' /\ LeftoverIdle'
           /\ StashOwned' /\ BinaryPaired' /\ NoCrossDelivery' /\ TwoPartWhole'
<1>1. IdsDistinct' /\ StashOwned' /\ BinaryPaired'
    BY DEF Inductive, IdsDistinct, StashOwned, BinaryPaired, Pending
<1>2. RegistryExact'
    BY DEF Inductive, RegistryExact, Reachable, Pending, Active, TypeOK, Maybe,
           UnencodableKept
<1>3. FlightOwned' /\ LeftoverIdle'
    BY DEF Inductive, FlightOwned, LeftoverIdle, Pending
<1>4. NoCrossDelivery' /\ TwoPartWhole'
    BY DEF Inductive, NoCrossDelivery, TwoPartWhole, ReplyStates
<1>. QED
    BY <1>1, <1>2, <1>3, <1>4

(* A request on its way carries the id of the call that made it.           *)
LEMMA TransmitStep ==
    ASSUME Inductive, UnencodableKept, NEW c \in Calls, Transmit(c)
    PROVE  /\ IdsDistinct' /\ RegistryExact' /\ FlightOwned' /\ LeftoverIdle'
           /\ StashOwned' /\ BinaryPaired' /\ NoCrossDelivery' /\ TwoPartWhole'
<1>1. TypeOK /\ c \in Active
    BY DEF Inductive, Transmit, Active
<1>2. /\ Active' = Active
      /\ UNCHANGED <<id, entry, meta, wire, fut>>
      /\ inbox' = inbox \cup {[id |-> id[c], of |-> c, live |-> live[c]]}
    BY <1>1 DEF Transmit, Active, TypeOK, registry
<1>3. IdsDistinct' /\ StashOwned' /\ BinaryPaired'
    BY <1>2 DEF Inductive, IdsDistinct, StashOwned, BinaryPaired, Pending
<1>4. RegistryExact' /\ NoCrossDelivery' /\ TwoPartWhole'
    BY <1>2 DEF Inductive, RegistryExact, Reachable, Pending, NoCrossDelivery,
                TwoPartWhole, TypeOK, Maybe, UnencodableKept
<1>5. FlightOwned' /\ LeftoverIdle'
    BY <1>1, <1>2 DEF Inductive, FlightOwned, LeftoverIdle, IdsDistinct, Pending
<1>. QED
    BY <1>3, <1>4, <1>5

(* An answer carries the id of the request it answers.                     *)
LEMMA ServeStep ==
    ASSUME Inductive, UnencodableKept, NEW r \in inbox, Serve(r)
    PROVE  /\ IdsDistinct' /\ RegistryExact' /\ FlightOwned' /\ LeftoverIdle'
           /\ StashOwned' /\ BinaryPaired' /\ NoCrossDelivery' /\ TwoPartWhole'
<1>1. TypeOK /\ r \in Request
    BY DEF Inductive, TypeOK
<1>2. /\ Active' = Active
      /\ UNCHANGED <<id, entry, meta, fut>>
      /\ inbox' = inbox \ {r}
    BY DEF Serve, Active, callVars, registry
<1>3. IdsDistinct' /\ StashOwned' /\ RegistryExact' /\ NoCrossDelivery' /\ TwoPartWhole'
    BY <1>1, <1>2 DEF Inductive, IdsDistinct, StashOwned, RegistryExact, Reachable,
                      Pending, NoCrossDelivery, TwoPartWhole, TypeOK, Maybe,
                      UnencodableKept
<1>4. CASE ~ r.live
    <2>1. wire' = wire
        BY <1>4 DEF Serve
    <2>2. FlightOwned' /\ LeftoverIdle' /\ BinaryPaired'
        BY <1>2, <2>1 DEF Inductive, FlightOwned, LeftoverIdle, BinaryPaired, Pending
    <2>. QED
        BY <1>3, <2>2
<1>5. CASE r.live
    <2>1. PICK s \in AnswersTo(r) : wire' = wire \o s
        BY <1>5 DEF Serve
    <2>2. s \in Seq(Frame)
        BY <1>1, FrameTyped
    <2>3. \A k \in 1..Len(s) :
              /\ s[k].id = r.id /\ s[k].of = r.of
              /\ s[k].kind = "binary" => k > 1 /\ s[k-1].kind = "text" /\ r.of \in Binary
        <3> DEFINE F(kind) == [kind |-> kind, id |-> r.id, of |-> r.of]
        <3>1. \/ s = <<F("error")>>
              \/ s = <<F("text")>>
              \/ s = <<F("text"), F("binary")>> /\ r.of \in Binary
            BY DEF AnswersTo
        <3>. QED
            BY <3>1
    <2>4. /\ Len(wire) \in Nat /\ Len(s) \in Nat
          /\ Len(wire') = Len(wire) + Len(s)
          /\ \A k \in 1..Len(wire') :
                wire'[k] = IF k <= Len(wire) THEN wire[k] ELSE s[k - Len(wire)]
        BY <1>1, <2>1, <2>2, ConcatProperties, LenProperties DEF TypeOK
    <2>5. FlightOwned' /\ LeftoverIdle'
        <3>1. \A k \in 1..Len(wire') :
                 \/ k \in 1..Len(wire) /\ wire'[k] = wire[k]
                 \/ wire'[k].id = r.id /\ wire'[k].of = r.of
            BY <2>3, <2>4
        <3>. QED
            BY <1>2, <1>5, <3>1 DEF Inductive, FlightOwned, LeftoverIdle, Pending
    <2>6. BinaryPaired'
        <3> SUFFICES ASSUME NEW k \in 1..Len(wire'), wire'[k].kind = "binary"
                     PROVE  /\ wire'[k].of \in Binary
                            /\ k > 1 => /\ wire'[k-1].kind = "text"
                                        /\ wire'[k-1].id = wire'[k].id
                                        /\ wire'[k-1].of = wire'[k].of
                            /\ k = 1 /\ entry'[wire'[k].id] # None =>
                                  meta'[wire'[k].id] = wire'[k].of
            BY DEF BinaryPaired, Pending
        <3>1. CASE k \in 1..Len(wire)
            BY <1>2, <2>4, <3>1 DEF Inductive, BinaryPaired, Pending
        <3>2. CASE k \notin 1..Len(wire)
            <4>1. /\ k - Len(wire) \in 1..Len(s)
                  /\ wire'[k] = s[k - Len(wire)]
                BY <2>4, <3>2
            <4>2. /\ k - Len(wire) > 1
                  /\ wire'[k].of \in Binary
                  /\ wire'[k].id = r.id /\ wire'[k].of = r.of
                  /\ s[(k - Len(wire)) - 1].kind = "text"
                BY <2>3, <4>1
            <4>3. /\ (k - Len(wire)) - 1 \in 1..Len(s)
                  /\ wire'[k-1] = s[(k - Len(wire)) - 1]
                <5>1. (k - Len(wire)) - 1 \in 1..Len(s)
                    BY <2>4, <4>1, <4>2
                <5>2. /\ k - 1 \in 1..Len(wire')
                      /\ ~ (k - 1 <= Len(wire))
                      /\ (k - 1) - Len(wire) = (k - Len(wire)) - 1
                    BY <2>4, <4>1, <4>2
                <5>. QED
                    BY <2>4, <5>1, <5>2
            <4>. QED
                BY <2>3, <2>4, <4>1, <4>2, <4>3
        <3>. QED
            BY <3>1, <3>2
    <2>. QED
        BY <1>3, <2>5, <2>6
<1>. QED
    BY <1>4, <1>5

(* A drop fails every waiting call and empties the registry.               *)
LEMMA DropStep ==
    ASSUME Inductive, UnencodableKept, Drop
    PROVE  /\ IdsDistinct' /\ RegistryExact' /\ FlightOwned' /\ LeftoverIdle'
           /\ StashOwned' /\ BinaryPaired' /\ NoCrossDelivery' /\ TwoPartWhole'
<1>1. /\ Active' = Active
      /\ id' = id
      /\ entry' = [i \in Ids |-> None]
      /\ wire' = <<>>
      /\ \A r \in inbox' : ~ r.live
    <2>1. \A r \in Request : ~ [r EXCEPT !.live = FALSE].live
        BY DEF Request
    <2>. QED
        BY <2>1 DEF Drop, Active, callVars, Deaf, Inductive, TypeOK
<1>2. IdsDistinct' /\ StashOwned'
    BY <1>1 DEF Inductive, IdsDistinct, StashOwned, Pending
<1>3. FlightOwned' /\ LeftoverIdle' /\ BinaryPaired'
    <2>1. Len(wire') = 0
        BY <1>1
    <2>. QED
        BY <1>1, <2>1 DEF FlightOwned, LeftoverIdle, BinaryPaired, Pending
<1>4. \A c \in Calls :
          \/ fut'[c] = Blank("lost")
          \/ fut'[c] = fut[c] /\ (fut[c].st = "pending" => \A i \in Ids : entry[i] # c)
    BY DEF Drop
<1>5. RegistryExact'
    <2>1. \A c \in Active : fut'[c].st # "pending"
        BY <1>4 DEF Inductive, RegistryExact, Reachable, IdsDistinct, Active, Blank
    <2>. QED
        BY <1>1, <2>1 DEF RegistryExact, Pending
<1>6. NoCrossDelivery' /\ TwoPartWhole'
    BY <1>4 DEF Inductive, NoCrossDelivery, TwoPartWhole, Blank, ReplyStates
<1>. QED
    BY <1>2, <1>3, <1>5, <1>6

-----------------------------------------------------------------------------
(* The invariant holds at the start and every step keeps it.               *)

(* No call has begun.                                                      *)
LEMMA InductiveInit == Init => Inductive
<1> SUFFICES ASSUME Init PROVE Inductive
    OBVIOUS
<1> USE RpcAssumption
<1>1. TypeOK
    BY TypeInit
<1>2. /\ Active = {}
      /\ \A c \in Calls : id[c] = None /\ fut[c].st = "none"
      /\ \A i \in Ids : entry[i] = None
      /\ Len(wire) = 0
    BY DEF Init, Active, Blank
<1>3. IdsDistinct
    BY <1>2 DEF IdsDistinct, Ids
<1>4. RegistryExact /\ StashOwned
    BY <1>2 DEF RegistryExact, StashOwned, Pending
<1>5. FlightOwned /\ LeftoverIdle /\ BinaryPaired
    BY <1>2 DEF FlightOwned, LeftoverIdle, BinaryPaired, Pending
<1>6. NoCrossDelivery /\ TwoPartWhole
    BY <1>2 DEF NoCrossDelivery, TwoPartWhole, ReplyStates
<1>. QED
    BY <1>1, <1>3, <1>4, <1>5, <1>6 DEF Inductive

(* Every action keeps the invariant.                                       *)
LEMMA InductiveNext == Inductive /\ [Next]_vars => Inductive'
<1> SUFFICES ASSUME Inductive, [Next]_vars PROVE Inductive'
    OBVIOUS
<1> DEFINE Rest == /\ IdsDistinct /\ RegistryExact /\ FlightOwned /\ LeftoverIdle
                   /\ StashOwned /\ BinaryPaired /\ NoCrossDelivery /\ TwoPartWhole
<1> USE RpcAssumption
<1>1. TypeOK /\ IdsDistinct /\ TypeOK' /\ UnencodableKept
    BY TypeNext, UnencodableStays DEF Inductive
<1>2. ASSUME NEW c \in Calls, Begin(c) PROVE Rest'
    <2>1. PICK i \in Ids \ Lingering : Register(c, i) \/ EncodeFails(c, i)
        BY <1>2 DEF Begin
    <2>2. CASE Register(c, i)
        <3>1. fut' = [fut EXCEPT ![c] = Blank("pending")]
            BY <2>2 DEF Register
        <3>2. NoCrossDelivery' /\ TwoPartWhole'
            BY <1>1, <3>1
               DEF Inductive, NoCrossDelivery, TwoPartWhole, TypeOK, Blank, ReplyStates
        <3>. QED
            BY <1>1, <2>2, <3>2, RegisterStep
    <2>3. CASE EncodeFails(c, i)
        BY <1>1, <2>3, EncodeFailsStep
    <2>. QED
        BY <2>1, <2>2, <2>3
<1>3. ASSUME NEW c \in Calls, Exhausted(c) PROVE Rest'
    <2>1. /\ Active' = Active
          /\ UNCHANGED <<id, entry, meta, wire, inbox>>
          /\ fut' = [fut EXCEPT ![c] = Blank("exhausted")]
        BY <1>1, <1>3 DEF Exhausted, Active, TypeOK, registry, agentVars
    <2>2. \A d \in Calls : fut'[d] = fut[d]
                              \/ fut'[d].st \notin ReplyStates \cup {"pending"}
        BY <1>1, <2>1 DEF TypeOK, Blank, ReplyStates
    <2>. QED
        BY <1>1, <2>1, <2>2, QuietStep
<1>4. ASSUME NEW c \in Calls, Transmit(c) PROVE Rest'
    BY <1>1, <1>4, TransmitStep
<1>5. ASSUME NEW c \in Calls, AwaitReply(c) PROVE Rest'
    <2>1. Active' = Active /\ UNCHANGED <<id, entry, meta, wire, inbox, fut>>
        BY <1>1, <1>5 DEF AwaitReply, Active, TypeOK, registry, agentVars
    <2>. QED
        BY <1>1, <2>1, QuietStep
<1>6. ASSUME NEW c \in Calls, AlreadySettled(c) PROVE Rest'
    <2>1. c \in Active /\ fut[c] \in Future /\ Finish(c, fut[c])
        BY <1>1, <1>6 DEF AlreadySettled, Active, TypeOK
    <2>. QED
        BY <1>1, <2>1, FinishStep
<1>7. ASSUME NEW c \in Calls, SendFails(c) PROVE Rest'
    <2>1. /\ c \in Active
          /\ Finish(c, Blank("lost"))
          /\ Blank("lost").st \notin ReplyStates
        BY <1>7 DEF SendFails, Active, Blank, ReplyStates
    <2>. QED
        BY <1>1, <2>1, BlankTyped, FinishStep
<1>8. ASSUME NEW c \in Calls, Expire(c) \/ Cancel(c) PROVE Rest'
    <2>1. /\ Active' = Active
          /\ UNCHANGED <<id, entry, meta, wire, inbox>>
          /\ CancelFuture(c)
        BY <1>8 DEF Expire, Cancel, Active, registry, agentVars
    <2>2. \A d \in Calls : fut'[d] = fut[d]
                              \/ fut'[d].st \notin ReplyStates \cup {"pending"}
        BY <1>1, <2>1 DEF TypeOK, CancelFuture, Blank, ReplyStates
    <2>. QED
        BY <1>1, <2>1, <2>2, QuietStep
<1>9. ASSUME NEW c \in Calls, Resume(c) PROVE Rest'
    <2>1. c \in Active
        BY <1>9 DEF Resume, Active
    <2>2. /\ Blank("cancelled").st \notin ReplyStates
          /\ Blank("timeout").st \notin ReplyStates
          /\ fut[c] \in Future
        BY <1>1 DEF Blank, ReplyStates, TypeOK
    <2>3. PICK o \in {Blank("cancelled"), Blank("timeout"), fut[c]} : Finish(c, o)
        BY <1>9 DEF Resume
    <2>. QED
        BY <1>1, <2>1, <2>2, <2>3, BlankTyped, FinishStep
<1>10. ASSUME Deliver PROVE Rest'
    BY <1>1, <1>10, DeliverStep
<1>11. ASSUME NEW r \in inbox, Serve(r) PROVE Rest'
    BY <1>1, <1>11, ServeStep
<1>12. ASSUME Die PROVE Rest'
    <2>1. \A r \in Deaf(inbox) : ~ r.live
        <3>1. \A r \in Request : ~ [r EXCEPT !.live = FALSE].live
            BY DEF Request
        <3>2. inbox \subseteq Request
            BY <1>1 DEF TypeOK
        <3>. QED
            BY <3>1, <3>2 DEF Deaf
    <2>2. /\ Active' = Active
          /\ UNCHANGED <<id, entry, meta, wire, fut>>
          /\ inbox' = Deaf(inbox)
        BY <1>12 DEF Die, Active, callVars, registry
    <2>. QED
        BY <1>1, <2>1, <2>2, QuietStep
<1>13. ASSUME Drop PROVE Rest'
    BY <1>1, <1>13, DropStep
<1>14. ASSUME Reopen \/ UNCHANGED vars PROVE Rest'
    <2>1. Active' = Active /\ UNCHANGED <<id, entry, meta, wire, inbox, fut>>
        BY <1>14 DEF Reopen, vars, Active, callVars, registry, agentVars
    <2>. QED
        BY <1>1, <2>1, QuietStep
<1>15. Rest'
    BY <1>2, <1>3, <1>4, <1>5, <1>6, <1>7, <1>8, <1>9, <1>10, <1>11, <1>12,
       <1>13, <1>14 DEF Next, World, Caller
<1>. QED
    BY <1>1, <1>15 DEF Inductive

(* Hence it always holds.                                                  *)
LEMMA InductiveHolds == Spec => []Inductive
BY InductiveInit, InductiveNext, PTL DEF Spec

-----------------------------------------------------------------------------
(* What the client relies on                                               *)

(* The futures, ids, requests and frames of IdGenerator, PendingRegistry   *)
(* and RpcClient._request keep their shapes in every behaviour.            *)
THEOREM TypeCorrect == Spec => []TypeOK
<1>1. Inductive => TypeOK
    BY DEF Inductive
<1>. QED
    BY <1>1, InductiveHolds, PTL

(* An entry of the registry is a caller's that is still in _request, under *)
(* that caller's own id, or the leftover of a caller whose request could   *)
(* not be encoded (client.py registers before it encodes); and no caller   *)
(* whose future nobody has settled ever loses its entry                    *)
(* (PendingRegistry.register, _finish, pop, cancel_all).                   *)
THEOREM RegistryIsExact == Spec => []RegistryExact
<1>1. Inductive => RegistryExact
    BY DEF Inductive
<1>. QED
    BY <1>1, InductiveHolds, PTL

(* Whatever a caller gets back was the agent's answer to that caller's own *)
(* request, through timeouts, cancellations and reconnects, as long as     *)
(* every id is drawn again only once nothing carries it (RpcClient._request*)
(* and PendingRegistry._finish).                                           *)
THEOREM NoCrossDeliveryHolds == Spec => []NoCrossDelivery
<1>1. Inductive => NoCrossDelivery
    BY DEF Inductive
<1>. QED
    BY <1>1, InductiveHolds, PTL

(* A binary call gets both halves of its reply from the same request, and  *)
(* a text call never gets a binary one (FrameRouter._dispatch_binary).     *)
THEOREM TwoPartWholeHolds == Spec => []TwoPartWhole
<1>1. Inductive => TwoPartWhole
    BY DEF Inductive
<1>. QED
    BY <1>1, InductiveHolds, PTL
=============================================================================
