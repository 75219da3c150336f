----------------------------- MODULE WaitsProofs -----------------------------
(***************************************************************************)
(* What Waits promises for any waits, screens and toasts: no change and no *)
(* toast is missed, nobody sleeps through a drop, and the waits ask no     *)
(* more of the connection than the contract Link.                          *)
(***************************************************************************)
EXTENDS Waits, SequenceTheorems, TLAPS

(* The sentinel waits in the queue: the wait is about to end.              *)
HasClosed(q) == \E k \in 1..Len(q) : q[k] = Closed
Doomed(a) == HasClosed(queue[a])

(* An answer to a is on the wire.                                          *)
OnWire(a) == \E k \in 1..Len(wire) : wire[k] \in Replies /\ wire[k].of = a

(* A change that has not settled has room to settle.                       *)
DirtyInv == dirty => screen < MaxScreen

(* Without a link there is nothing on its way, and nobody waits for it.    *)
DownInv ==
    link # "up" => /\ pushing = "off" /\ wire = <<>>
                   /\ \A a \in Tasks : draft[a] = None
                   /\ \A a \in Tasks : pc[a] \in {"stream", "dump"} => reply[a] # None

(* A call has one answer, which is being taken, on the wire or read.       *)
AnswerInv ==
    /\ \A i, j \in 1..Len(wire) : wire[i] \in Replies /\ wire[j] \in Replies
          /\ wire[i].of = wire[j].of => i = j
    /\ \A a \in Tasks : draft[a] # None => ~ OnWire(a)
    /\ \A a \in Tasks : reply[a] # None \/ pc[a] \in {"idle", "wait"} =>
          draft[a] = None /\ ~ OnWire(a)
    /\ pc[Stream] \notin {"mute", "stuck", "dump", "wait"}

(* A call held in its send has no answer: nothing has settled it but the   *)
(* loss of the link.                                                       *)
HeldInv == \A a \in Tasks : Held(a) => reply[a] \in {None, Answer("lost")}

(* Who believes that events are flowing is right.                          *)
StreamInv ==
    link = "up" /\ pushing # "on" =>
        /\ ~ enabled
        /\ \A a \in Tasks : reply[a] # Answer("enabled")
        /\ \A k \in 1..Len(wire) :
              wire[k] \in Replies => wire[k].answer # Answer("enabled")

(* A wait_until that may come to sleep has a live stream behind it, or the *)
(* sentinel before it; on a closed bus every wait has the sentinel.        *)
HearInv ==
    /\ \A w \in Waiters :
          pc[w] \in {"wait", "dump"} \/ (pc[w] = "stream" /\ reply[w] = Answer("enabled"))
              => (link = "up" /\ pushing = "on") \/ Doomed(w)
    /\ link = "closed" => \A a \in Waits : Running(a) => Doomed(a)
    /\ \A t \in Toasters : pc[t] = "stream" /\ reply[t] = Answer("enabled") /\ link # "up"
              => Doomed(t)

(* News for w of a screen after number b is in its queue or on the wire.   *)
News(e, b) == e \in Events /\ e.kind = "screen" /\ e.n > b
HasNews(q, b) == \E k \in 1..Len(q) : News(q[k], b)
Pending(w, b) == HasNews(queue[w], b) \/ HasNews(wire, b)

(* To go to sleep on the baseline b is safe for w: the screen is not what  *)
(* it looks for, or it will be told.                                       *)
Safe(w, b) == b <= screen /\ (~ dirty /\ shown = "match" => Pending(w, b))

(* The answer d ends the wait, or leaves it with a safe baseline.          *)
Covers(w, d) ==
    d \in Dumps /\ d.st # "match" =>
        Safe(w, IF d.st = "blank" THEN last[w] ELSE d.screen)

ChangeOf(w) ==
    /\ pc[w] \in {"idle", "stream"} => last[w] = -1
    /\ pc[w] \in {"wait", "dump"} /\ ~ Doomed(w) =>
          /\ last[w] <= screen
          /\ pc[w] = "wait" => Safe(w, last[w])
          /\ pc[w] = "dump" =>
                /\ draft[w] # None => Covers(w, draft[w])
                /\ reply[w] # None => Covers(w, reply[w])
                /\ \A k \in 1..Len(wire) :
                      wire[k] \in Replies /\ wire[k].of = w => Covers(w, wire[k].answer)

ChangeInv == \A w \in Waiters : ChangeOf(w)

(* A toast that was read since wait_toast began is in its queue.           *)
HasToast(q) == \E k \in 1..Len(q) : q[k] = Toast
ToastInv ==
    \A t \in Toasters : since[t] => Running(t) /\ HasToast(queue[t])

Inv ==
    /\ DirtyInv /\ DownInv /\ AnswerInv /\ HeldInv /\ StreamInv /\ HearInv
    /\ ChangeInv /\ ToastInv

IInv == TypeOK /\ Inv
-----------------------------------------------------------------------------
(* Values and queues.                                                      *)

(* What a dump can say.                                                    *)
LEMMA DumpValues ==
  ASSUME NEW d \in Dumps
  PROVE  \/ d.st = "match" /\ d \in Trees
         \/ d.st = "other" /\ d \in Trees /\ d.screen \in 0..MaxScreen
         \/ d.st = "blank" /\ d = Answer("blank")
  BY DEF Dumps, Trees, Answer

(* The answers of a call are told apart.                                   *)
LEMMA AnswerValues ==
  /\ Dumps \subseteq Answers
  /\ Answer("lost") \in Answers /\ Answer("enabled") \in Answers
  /\ Answer("lost") # Answer("enabled")
  /\ Answer("enabled") \notin Dumps /\ Answer("lost") \notin Dumps
<1>1. \A st : Answer(st).st = st
  BY DEF Answer
<1>2. \A d \in Dumps : d.st \in {"match", "other", "blank"}
  BY DumpValues
<1> QED
  BY <1>1, <1>2 DEF Answers

(* What a queue can hold.                                                  *)
LEMMA EventValues ==
  ASSUME NEW e \in Events
  PROVE  \/ e = Closed /\ e.kind = "closed"
         \/ e = Toast /\ e.kind = "toast"
         \/ e # Closed /\ e # Toast /\ e.kind = "screen" /\ e.n \in 1..MaxScreen
  BY DEF Events, Event, Closed, Toast

(* The event of a screen number.                                           *)
LEMMA EventIs ==
  ASSUME NEW n \in 1..MaxScreen
  PROVE  /\ Event("screen", n) \in Events
         /\ Event("screen", n).kind = "screen" /\ Event("screen", n).n = n
  BY DEF Events, Event

(* The sentinel and a toast are told apart, and from screens.              *)
LEMMA Sentinels == Closed \in Events /\ Toast \in Events /\ Closed # Toast
  BY DEF Events, Event, Closed, Toast

(* A frame is an answer or an event, not both.                             *)
LEMMA Kinds == Events \cap Replies = {}
<1>1. \A e \in Events : DOMAIN e = {"kind", "n"}
  BY DEF Events, Event, Closed, Toast
<1>2. \A f \in Replies : DOMAIN f = {"of", "answer"}
  BY DEF Replies
<1>3. "kind" \notin {"of", "answer"}
  OBVIOUS
<1> QED
  BY <1>1, <1>2, <1>3

(* Taking the first element loses nothing but that element.                *)
LEMMA TailHas ==
  ASSUME NEW S, NEW q \in Seq(S), q # <<>>
  PROVE  /\ Tail(q) \in Seq(S) /\ Head(q) = q[1] /\ q[1] \in S
         /\ HasClosed(q) => Head(q) = Closed \/ HasClosed(Tail(q))
         /\ HasToast(q) => Head(q) = Toast \/ HasToast(Tail(q))
         /\ \A b : HasNews(q, b) => News(Head(q), b) \/ HasNews(Tail(q), b)
         /\ \A k \in 1..Len(Tail(q)) : k + 1 \in 1..Len(q) /\ Tail(q)[k] = q[k + 1]
<1>1. /\ Tail(q) \in Seq(S) /\ Head(q) = q[1] /\ q[1] \in S
      /\ Len(q) \in Nat /\ Len(Tail(q)) = Len(q) - 1
      /\ \A k \in 1..Len(q) - 1 : Tail(q)[k] = q[k + 1]
  BY HeadTailProperties
<1>2. ASSUME NEW k \in 1..Len(q), k # 1
      PROVE  k - 1 \in 1..Len(Tail(q)) /\ Tail(q)[k - 1] = q[k]
  BY <1>1, <1>2
<1>3. HasClosed(q) => Head(q) = Closed \/ HasClosed(Tail(q))
  BY <1>1, <1>2 DEF HasClosed
<1>4. HasToast(q) => Head(q) = Toast \/ HasToast(Tail(q))
  BY <1>1, <1>2 DEF HasToast
<1>5. ASSUME NEW b, HasNews(q, b) PROVE News(Head(q), b) \/ HasNews(Tail(q), b)
  BY <1>1, <1>2, <1>5 DEF HasNews
<1> QED
  BY <1>1, <1>3, <1>4, <1>5

(* Putting an element at the end loses nothing and adds that element.      *)
LEMMA AppendHas ==
  ASSUME NEW S, NEW q \in Seq(S), NEW e \in S
  PROVE  /\ Append(q, e) \in Seq(S) /\ Append(q, e) # <<>>
         /\ HasClosed(q) \/ e = Closed => HasClosed(Append(q, e))
         /\ HasToast(q) \/ e = Toast => HasToast(Append(q, e))
         /\ \A b : HasNews(q, b) \/ News(e, b) => HasNews(Append(q, e), b)
         /\ Len(Append(q, e)) = Len(q) + 1
         /\ \A k \in 1..Len(q) : Append(q, e)[k] = q[k]
         /\ Append(q, e)[Len(q) + 1] = e
<1>1. /\ Append(q, e) \in Seq(S) /\ Len(q) \in Nat /\ Len(Append(q, e)) = Len(q) + 1
      /\ \A k \in 1..Len(q) : Append(q, e)[k] = q[k]
      /\ Append(q, e)[Len(q) + 1] = e
  BY AppendProperties
<1>2. /\ \A k \in 1..Len(q) : k \in 1..Len(Append(q, e))
      /\ Len(q) + 1 \in 1..Len(Append(q, e))
  BY <1>1
<1>3. HasClosed(q) \/ e = Closed => HasClosed(Append(q, e))
  BY <1>1, <1>2 DEF HasClosed
<1>4. HasToast(q) \/ e = Toast => HasToast(Append(q, e))
  BY <1>1, <1>2 DEF HasToast
<1>5. ASSUME NEW b, HasNews(q, b) \/ News(e, b) PROVE HasNews(Append(q, e), b)
  BY <1>1, <1>2, <1>5 DEF HasNews
<1>6. Append(q, e) # <<>>
  BY <1>1
<1> QED
  BY <1>1, <1>3, <1>4, <1>5, <1>6

-----------------------------------------------------------------------------
(* What one wait does leaves the others alone.                             *)

PcTypes == {"idle", "stream", "dump", "mute", "stuck", "wait", "found", "failed"}
WaitTypes ==
    /\ pc \in [Tasks -> PcTypes]
    /\ queue \in [Tasks -> Seq(Events)]
    /\ last \in [Waiters -> -1..MaxScreen]
    /\ reply \in [Tasks -> Answers \cup {None}]
    /\ draft \in [Tasks -> Dumps \cup {None}]
    /\ since \in [Toasters -> BOOLEAN]

Others(a) ==
    /\ \A b \in Tasks \ {a} : /\ pc'[b] = pc[b] /\ queue'[b] = queue[b]
                             /\ reply'[b] = reply[b] /\ draft'[b] = draft[b]
    /\ \A w \in Waiters \ {a} : last'[w] = last[w]
    /\ \A t \in Toasters \ {a} : since'[t] = since[t]

Done == {"found", "failed"}

(* a goes on to p with the queue q and, for a wait_until, the baseline b.  *)
Goes(a, p, q, b) ==
    /\ Others(a)
    /\ pc'[a] = p /\ queue'[a] = q /\ reply'[a] = None
    /\ draft'[a] = IF p \in Done THEN None ELSE draft[a]
    /\ a \in Waiters => last'[a] = b
    /\ a \in Toasters => since'[a] = (since[a] /\ p \notin Done)

Ends(a) == \E p \in Done : Goes(a, p, <<>>, -1)

(* End ends the task a, and a only.                                        *)
LEMMA EndIs ==
  ASSUME WaitTypes, NEW a \in Tasks, NEW result \in {"found", "failed"}, End(a, result)
  PROVE  WaitTypes' /\ Ends(a)
<1>1. WaitTypes'
  <2>1. pc' \in [Tasks -> PcTypes]
    BY DEF End, WaitTypes, PcTypes
  <2>2. queue' \in [Tasks -> Seq(Events)]
    BY EmptySeq DEF End, WaitTypes
  <2>3. last' \in [Waiters -> -1..MaxScreen]
    BY WaitsAssumption DEF End, WaitTypes
  <2>4. reply' \in [Tasks -> Answers \cup {None}] /\ draft' \in [Tasks -> Dumps \cup {None}]
    BY DEF End, WaitTypes
  <2>5. since' \in [Toasters -> BOOLEAN]
    BY DEF End, WaitTypes
  <2> QED
    BY <2>1, <2>2, <2>3, <2>4, <2>5 DEF WaitTypes
<1>2. Ends(a)
  BY WaitsAssumption DEF End, WaitTypes, Ends, Goes, Others, Done
<1> QED
  BY <1>1, <1>2

(* Listen leaves a asleep on the queue q with the baseline b.              *)
LEMMA ListenIs ==
  ASSUME WaitTypes, NEW a \in Tasks, NEW q \in Seq(Events), Listen(a, q),
         NEW b \in -1..MaxScreen,
         last' = last \/ last' = [last EXCEPT ![a] = b],
         a \in Waiters => last'[a] = b
  PROVE  WaitTypes' /\ Goes(a, "wait", q, b)
<1>1. WaitTypes'
  BY DEF Listen, WaitTypes, PcTypes
<1>2. Goes(a, "wait", q, b)
  BY DEF Listen, WaitTypes, Goes, Others, Tasks, Waits, Done
<1> QED
  BY <1>1, <1>2

Asks(kind) == IF link = "up" THEN kind ELSE "mute"

(* Request leaves a in its call, held in the send of it, or with a call    *)
(* that has failed at once.                                                *)
LEMMA RequestIs ==
  ASSUME WaitTypes, NEW a \in Tasks, NEW q \in Seq(Events), NEW kind \in {"stream", "dump"},
         Request(a, q, kind)
  PROVE  /\ WaitTypes'
         /\ \/ \E p \in {kind, "mute"}, b \in {last[a]} : p = Asks(kind) /\ Goes(a, p, q, b)
            \/ a # Stream /\ Goes(a, "stuck", <<>>, last[a])
            \/ link # "up" /\ Ends(a)
         /\ pushing' = pushing \/ (link = "up" /\ pushing = "off" /\ pushing' = "asked")
<1>1. CASE link # "up" /\ End(a, "failed") /\ UNCHANGED pushing
  BY <1>1, EndIs
<1>2. CASE /\ pc' = [pc EXCEPT ![a] = IF link = "up" THEN kind ELSE "mute"]
           /\ queue' = [queue EXCEPT ![a] = q]
           /\ reply' = [reply EXCEPT ![a] = None]
           /\ pushing' = IF link = "up" /\ kind = "stream" /\ pushing = "off"
                         THEN "asked" ELSE pushing
           /\ UNCHANGED <<last, since, draft>>
  <2>1. WaitTypes'
    BY <1>2 DEF WaitTypes, PcTypes
  <2>2. \E p \in {kind, "mute"}, b \in {last[a]} : p = Asks(kind) /\ Goes(a, p, q, b)
    BY <1>2 DEF WaitTypes, Goes, Asks, Others, Tasks, Waits, Done
  <2> QED
    BY <1>2, <2>1, <2>2
<1>3. CASE /\ a # Stream
           /\ pc' = [pc EXCEPT ![a] = "stuck"]
           /\ queue' = [queue EXCEPT ![a] = <<>>]
           /\ reply' = [reply EXCEPT ![a] = None]
           /\ UNCHANGED <<last, since, draft, pushing>>
  <2>1. WaitTypes'
    BY <1>3, EmptySeq DEF WaitTypes, PcTypes
  <2>2. Goes(a, "stuck", <<>>, last[a])
    BY <1>3 DEF WaitTypes, Goes, Others, Tasks, Waits, Done
  <2> QED
    BY <1>3, <2>1, <2>2
<1> QED
  BY <1>1, <1>2, <1>3 DEF Request

(* The parts of the invariant that are about one wait alone.               *)
HearOf(a) ==
    /\ a \in Waiters =>
          (pc[a] \in {"wait", "dump"} \/ (pc[a] = "stream" /\ reply[a] = Answer("enabled"))
              => (link = "up" /\ pushing = "on") \/ Doomed(a))
    /\ link = "closed" /\ a \in Waits /\ Running(a) => Doomed(a)
    /\ a \in Toasters /\ pc[a] = "stream" /\ reply[a] = Answer("enabled") /\ link # "up"
          => Doomed(a)

(* HearInv, wait by wait.                                                  *)
LEMMA HearOfAll == HearInv <=> \A a \in Waits : HearOf(a)
<1>1. ASSUME HearInv, NEW a \in Waits PROVE HearOf(a)
  BY <1>1 DEF HearInv, HearOf, Waits
<1>2. ASSUME \A a \in Waits : HearOf(a) PROVE HearInv
  BY <1>2 DEF HearInv, HearOf, Waits
<1> QED
  BY <1>1, <1>2

ToastOf(a) == a \in Toasters /\ since[a] => Running(a) /\ HasToast(queue[a])

same == <<link, wire, screen, dirty, shown>>

(* The invariants that speak of each wait, put together after a step.      *)
LEMMA AllOf ==
  /\ (\A a \in Waits : HearOf(a)') => HearInv'
  /\ (\A a \in Waiters : ChangeOf(a)') => ChangeInv'
  /\ (\A a \in Tasks : ToastOf(a)') => ToastInv'
<1>1. (\A a \in Waits : HearOf(a)') => HearInv'
  BY DEF HearInv, HearOf, Waits
<1>2. (\A a \in Waiters : ChangeOf(a)') => ChangeInv'
  BY DEF ChangeInv
<1>3. (\A a \in Tasks : ToastOf(a)') => ToastInv'
  BY DEF ToastInv, ToastOf, Tasks, Waits
<1> QED
  BY <1>1, <1>2, <1>3

(* One task goes on: only its own part of the invariant is to be shown.    *)
LEMMA GoesInv ==
  ASSUME TypeOK, Inv, NEW a \in Tasks,
         NEW p \in {"stream", "dump", "mute", "stuck", "wait", "found", "failed"},
         NEW q, NEW b, Goes(a, p, q, b), UNCHANGED same,
         pushing' = pushing \/ (link = "up" /\ pushing = "off" /\ pushing' = "asked"),
         enabled' => enabled \/ reply[a] = Answer("enabled"),
         p \in Done \/ reply[a] # None \/ pc[a] \in {"idle", "wait"},
         p \in {"stream", "dump"} => link = "up",
         a = Stream => p \in {"stream", "found", "failed"},
         a \in Waits /\ link = "closed" /\ p \notin Done /\ p # "stuck" => HasClosed(q),
         a \in Waiters /\ p \in {"wait", "dump"} =>
            (link = "up" /\ pushing = "on") \/ HasClosed(q),
         a \in Waiters /\ p = "stream" => b = -1,
         a \in Waiters /\ p \in {"wait", "dump"} /\ ~ HasClosed(q) =>
            /\ b <= screen
            /\ p = "wait" /\ ~ dirty /\ shown = "match" => HasNews(q, b) \/ HasNews(wire, b),
         a \in Toasters /\ since[a] /\ p \notin Done => HasToast(q) /\ p # "stuck"
  PROVE  Inv'
<1>1. /\ pc'[a] = p /\ queue'[a] = q /\ reply'[a] = None
      /\ draft'[a] = IF p \in Done THEN None ELSE draft[a]
      /\ \A c \in Tasks \ {a} : /\ pc'[c] = pc[c] /\ reply'[c] = reply[c]
                               /\ draft'[c] = draft[c] /\ queue'[c] = queue[c]
      /\ \A w \in Waiters \ {a} : last'[w] = last[w]
      /\ \A t \in Toasters \ {a} : since'[t] = since[t]
      /\ (a \in Waiters => last'[a] = b)
      /\ (a \in Toasters => since'[a] = (since[a] /\ p \notin Done))
      /\ UNCHANGED <<link, wire, screen, dirty, shown>>
  BY DEF Goes, Others, same
<1>2. DirtyInv' /\ DownInv'
  BY <1>1 DEF Inv, DirtyInv, DownInv, Done
<1>3. p \in Done \/ (draft[a] = None /\ ~ OnWire(a))
  BY DEF Inv, AnswerInv
<1>4. \A c : OnWire(c)' <=> OnWire(c)
  BY <1>1 DEF OnWire
<1>5. AnswerInv'
  <2>1. pc'[Stream] \notin {"mute", "stuck", "dump", "wait"}
    BY <1>1 DEF Inv, AnswerInv, Tasks
  <2> QED
    BY <1>1, <1>3, <1>4, <2>1 DEF Inv, AnswerInv, Done
<1>6. StreamInv'
  BY <1>1, AnswerValues, NoneAssumption DEF Inv, StreamInv
<1>7. HeldInv'
  BY <1>1 DEF Inv, HeldInv, Held
<1>8. ASSUME NEW c \in Waits PROVE HearOf(c)'
  <2>1. CASE c = a
    <3>1. reply'[a] # Answer("enabled")
      BY <1>1, AnswerValues, NoneAssumption
    <3> QED
      BY <1>1, <2>1, <3>1 DEF HearOf, Doomed, Waits, Running, Awaiting, Done
  <2>2. CASE c # a
    <3>1. HearOf(c)
      BY HearOfAll DEF Inv
    <3>2. c \in Tasks
      BY DEF Tasks
    <3> QED
      BY <1>1, <2>2, <3>1, <3>2 DEF HearOf, Doomed, Running, Awaiting
  <2> QED
    BY <2>1, <2>2
<1>9. ASSUME NEW c \in Tasks PROVE ToastOf(c)'
  <2>1. CASE c = a
    BY <1>1, <2>1, WaitsAssumption DEF ToastOf, Running, Awaiting, Done
  <2>2. CASE c # a
    BY <1>1, <2>2 DEF Inv, ToastInv, ToastOf, Running, Awaiting
  <2> QED
    BY <2>1, <2>2
<1>10. ASSUME NEW c \in Waiters PROVE ChangeOf(c)'
  <2>1. CASE c = a
    BY <1>1, <1>3, <2>1 DEF ChangeOf, Doomed, Safe, Pending, OnWire, Done
  <2>2. CASE c # a
    <3>1. c \in Tasks
      BY DEF Tasks, Waits
    <3> QED
      BY <1>1, <2>2, <3>1
      DEF Inv, ChangeInv, ChangeOf, Covers, Safe, Pending, Doomed
  <2> QED
    BY <2>1, <2>2
<1>11. HearInv' /\ ChangeInv' /\ ToastInv'
  BY <1>8, <1>9, <1>10, AllOf
<1> QED
  BY <1>2, <1>5, <1>6, <1>11, <1>7 DEF Inv
-----------------------------------------------------------------------------
(* The client's steps.                                                     *)

RestTypes ==
    /\ link \in {"up", "down", "closed"}
    /\ enabled \in BOOLEAN /\ buffered \in BOOLEAN
    /\ shown \in Contents /\ dirty \in BOOLEAN /\ screen \in 0..MaxScreen
    /\ pushing \in {"off", "asked", "on"}
    /\ wire \in Seq(Events \cup Replies)
    /\ raised \in 0..MaxToasts

(* The type invariant in the two halves it is proved in.                   *)
LEMMA Types == TypeOK <=> WaitTypes /\ RestTypes
  BY DEF TypeOK, WaitTypes, RestTypes, PcTypes

(* A wait that is over asks for nothing more.                              *)
LEMMA EndStep ==
  ASSUME TypeOK, Inv, NEW a \in Tasks, NEW result \in {"found", "failed"}, End(a, result),
         UNCHANGED same, UNCHANGED pushing,
         enabled' => enabled \/ reply[a] = Answer("enabled")
  PROVE  WaitTypes' /\ Inv'
<1>1. WaitTypes' /\ Ends(a)
  BY Types, EndIs
<1>2. PICK p \in Done : Goes(a, p, <<>>, -1)
  BY <1>1 DEF Ends
<1>3. p \in {"stream", "dump", "mute", "stuck", "wait", "found", "failed"}
      /\ p \notin {"stream", "dump", "mute", "stuck", "wait"}
  BY DEF Done
<1> QED
  BY <1>1, <1>2, <1>3, GoesInv DEF Done

(* A wait goes to sleep on what it has not looked at yet.                  *)
LEMMA ListenStep ==
  ASSUME TypeOK, Inv, NEW a \in Waits, NEW q \in Seq(Events), Listen(a, q),
         NEW b \in -1..MaxScreen,
         last' = last \/ last' = [last EXCEPT ![a] = b],
         a \in Waiters => last'[a] = b,
         UNCHANGED same, UNCHANGED pushing,
         enabled' => enabled \/ reply[a] = Answer("enabled"),
         reply[a] # None \/ pc[a] \in {"idle", "wait"},
         link = "closed" => HasClosed(q),
         a \in Waiters => (link = "up" /\ pushing = "on") \/ HasClosed(q),
         a \in Waiters /\ ~ HasClosed(q) =>
            /\ b <= screen
            /\ ~ dirty /\ shown = "match" => HasNews(q, b) \/ HasNews(wire, b),
         a \in Toasters /\ since[a] => HasToast(q)
  PROVE  WaitTypes' /\ Inv'
<1>1. a \in Tasks /\ a # Stream
  BY WaitsAssumption DEF Tasks, Waits
<1>2. WaitTypes' /\ Goes(a, "wait", q, b)
  BY <1>1, Types, ListenIs
<1> QED
  BY <1>1, <1>2, GoesInv

(* A task sends a request, which crosses whatever the agent sends.         *)
LEMMA RequestStep ==
  ASSUME TypeOK, Inv, NEW a \in Tasks, NEW q \in Seq(Events),
         NEW kind \in {"stream", "dump"}, Request(a, q, kind), UNCHANGED same,
         enabled' => enabled \/ reply[a] = Answer("enabled"),
         reply[a] # None \/ pc[a] \in {"idle", "wait"},
         a = Stream => kind = "stream" /\ link = "up",
         a \in Waits /\ link = "closed" => HasClosed(q),
         a \in Waiters /\ link = "up" /\ kind = "dump" =>
            (pushing = "on" \/ HasClosed(q)) /\ (last[a] <= screen \/ HasClosed(q)),
         a \in Waiters /\ kind = "stream" => last[a] = -1,
         a \in Toasters => ~ since[a]
  PROVE  WaitTypes' /\ Inv' /\ pushing' \in {"off", "asked", "on"}
<1>1. /\ WaitTypes'
      /\ \/ \E p \in {kind, "mute"}, b \in {last[a]} : p = Asks(kind) /\ Goes(a, p, q, b)
         \/ a # Stream /\ Goes(a, "stuck", <<>>, last[a])
         \/ link # "up" /\ Ends(a)
      /\ pushing' = pushing \/ (link = "up" /\ pushing = "off" /\ pushing' = "asked")
  BY Types, RequestIs
<1>2. pushing' \in {"off", "asked", "on"}
  BY <1>1 DEF TypeOK
<1>3. CASE \E p \in {kind, "mute"}, b \in {last[a]} : p = Asks(kind) /\ Goes(a, p, q, b)
  <2>1. PICK p \in {kind, "mute"}, b \in {last[a]} : p = Asks(kind) /\ Goes(a, p, q, b)
    BY <1>3
  <2>2. /\ p \in {"stream", "dump", "mute"} /\ p \notin Done /\ p # "wait"
        /\ link = "up" => p = kind
        /\ link # "up" => p = "mute" /\ a # Stream
        /\ b = last[a]
    BY <2>1 DEF Asks, Done
  <2>3. p \in {"stream", "dump"} => link = "up"
    BY <2>2
  <2>4. a = Stream => p \in {"stream", "found", "failed"}
    BY <2>2
  <2>5. a \in Waiters /\ p \in {"wait", "dump"} =>
            (link = "up" /\ pushing = "on") \/ HasClosed(q)
    BY <2>2
  <2>6. a \in Waiters /\ p = "stream" => b = -1
    BY <2>2
  <2>7. a \in Waiters /\ p \in {"wait", "dump"} /\ ~ HasClosed(q) => b <= screen
    BY <2>2
  <2> QED
    BY <1>1, <1>2, <2>1, <2>2, <2>3, <2>4, <2>5, <2>6, <2>7, GoesInv
<1>4. CASE link # "up" /\ Ends(a)
  <2>1. PICK p \in Done : Goes(a, p, <<>>, -1)
    BY <1>4 DEF Ends
  <2>2. p \in {"stream", "dump", "mute", "stuck", "wait", "found", "failed"}
        /\ p \notin {"stream", "dump", "mute", "stuck", "wait"}
    BY DEF Done
  <2>3. pushing' = pushing
    BY <1>1, <1>4
  <2>4. p \in Done /\ p \in {"stream", "found", "failed"}
    BY DEF Done
  <2> QED
    BY <1>1, <1>2, <2>1, <2>2, <2>3, <2>4, GoesInv
<1>5. CASE a # Stream /\ Goes(a, "stuck", <<>>, last[a])
  <2>1. "stuck" \notin Done
    BY DEF Done
  <2> QED
    BY <1>1, <1>2, <1>5, <2>1, GoesInv
<1> QED
  BY <1>1, <1>2, <1>3, <1>4, <1>5

(* Rest of the type invariant when only these may have changed.            *)
LEMMA RestTyped ==
  ASSUME TypeOK, WaitTypes', UNCHANGED same, UNCHANGED raised,
         pushing' \in {"off", "asked", "on"}, enabled' \in BOOLEAN, buffered' \in BOOLEAN
  PROVE  TypeOK'
  BY DEF TypeOK, WaitTypes, PcTypes, same

(* A new queue holds the sentinel if the bus is closed already.            *)
LEMMA SubscriptionIs ==
  Subscription \in Seq(Events) /\ (link = "closed" => HasClosed(Subscription))
<1>1. <<Closed>> \in Seq(Events) /\ Len(<<Closed>>) = 1 /\ <<Closed>>[1] = Closed
  BY Sentinels
<1>2. HasClosed(<<Closed>>)
  BY <1>1 DEF HasClosed
<1> QED
  BY <1>1, <1>2, EmptySeq DEF Subscription

(* The steps of wait_until.                                                *)
LEMMA UntilStep ==
  ASSUME TypeOK, Inv, NEW w \in Waiters,
         Start(w) \/ StreamReady(w) \/ DumpReady(w) \/ Consume(w)
  PROVE  TypeOK' /\ Inv'
<1>1. /\ w \in Tasks /\ w \in Waits /\ w # Stream /\ w \notin Toasters
      /\ queue[w] \in Seq(Events) /\ reply[w] \in Answers \cup {None}
      /\ last[w] \in -1..MaxScreen /\ screen \in 0..MaxScreen
      /\ pushing \in {"off", "asked", "on"} /\ enabled \in BOOLEAN /\ buffered \in BOOLEAN
  BY WaitsAssumption DEF Tasks, Waits, TypeOK
<1>2. UNCHANGED same /\ UNCHANGED <<raised, buffered>>
  BY DEF Start, StreamReady, DumpReady, Consume, connVars, agentRest, same
<1>3. HearOf(w) /\ ChangeOf(w) /\ last[w] \in Int /\ screen \in Int /\ screen >= 0
  BY <1>1, HearOfAll, WaitsAssumption DEF Inv, ChangeInv
<1>4. CASE Start(w)
  <2>1. /\ pc[w] = "idle" /\ Request(w, Subscription, IF enabled THEN "dump" ELSE "stream")
        /\ UNCHANGED enabled
    BY <1>4 DEF Start, connVars
  <2>2. last[w] = -1
    BY <1>3, <2>1 DEF ChangeOf
  <2>3. CASE enabled
    <3>1. link = "up" => pushing = "on"
      BY <2>3 DEF Inv, StreamInv
    <3> QED
      BY <1>1, <1>2, <1>3, <2>1, <2>2, <2>3, <3>1, SubscriptionIs, RequestStep, RestTyped
  <2>4. CASE ~ enabled
    BY <1>1, <1>2, <1>3, <2>1, <2>2, <2>4, SubscriptionIs, RequestStep, RestTyped
  <2> QED
    BY <2>3, <2>4
<1>5. CASE StreamReady(w)
  <2>1. /\ pc[w] = "stream" /\ reply[w] = Answer("enabled") /\ enabled' = TRUE
        /\ Request(w, queue[w], "dump")
    BY <1>5 DEF StreamReady
  <2>2. last[w] = -1
    BY <1>3, <2>1 DEF ChangeOf
  <2>3. link = "up" => pushing = "on"
    BY <1>1, <2>1 DEF Inv, StreamInv
  <2>4. link = "closed" => HasClosed(queue[w])
    BY <1>1, <1>3, <2>1 DEF HearOf, Doomed
  <2>5. reply[w] # None
    BY <2>1, AnswerValues, NoneAssumption
  <2>6. WaitTypes' /\ Inv' /\ pushing' \in {"off", "asked", "on"}
    BY <1>1, <1>2, <1>3, <2>1, <2>2, <2>3, <2>4, <2>5, RequestStep
  <2> QED
    BY <1>1, <1>2, <2>1, <2>6, RestTyped
<1>6. CASE DumpReady(w)
  <2>1. /\ pc[w] = "dump" /\ reply[w] \in Dumps /\ UNCHANGED <<enabled, pushing>>
    BY <1>6 DEF DumpReady, connVars
  <2>2. reply[w] # None
    BY <2>1, AnswerValues, NoneAssumption
  <2>3. /\ (link = "up" /\ pushing = "on") \/ HasClosed(queue[w])
        /\ link = "closed" => HasClosed(queue[w])
    BY <1>1, <1>3, <2>1 DEF HearOf, Doomed, Running, Awaiting
  <2>4. ~ HasClosed(queue[w]) => Covers(w, reply[w])
    BY <1>3, <2>1, <2>2 DEF ChangeOf, Doomed
  <2>5. CASE reply[w].st = "match" /\ End(w, "found")
    BY <1>1, <1>2, <2>1, <2>5, EndStep, RestTyped
  <2>6. CASE /\ reply[w].st = "other" /\ Listen(w, queue[w])
             /\ last' = [last EXCEPT ![w] = reply[w].screen]
    <3> DEFINE b == reply[w].screen
    <3>1. b \in -1..MaxScreen
      BY <2>1, <2>6, DumpValues, WaitsAssumption
    <3>2. last'[w] = b
      BY <2>6 DEF TypeOK
    <3>3. ~ HasClosed(queue[w]) =>
             /\ b <= screen
             /\ ~ dirty /\ shown = "match" => HasNews(queue[w], b) \/ HasNews(wire, b)
      BY <2>1, <2>4, <2>6 DEF Covers, Safe, Pending
    <3> HIDE DEF b
    <3>4. last' = [last EXCEPT ![w] = b]
      BY <2>6 DEF b
    <3> QED
      BY <1>1, <1>2, <2>1, <2>2, <2>3, <2>6, <3>1, <3>2, <3>3, <3>4, ListenStep, RestTyped
  <2>7. CASE reply[w].st = "blank" /\ Listen(w, queue[w]) /\ UNCHANGED last
    <3>1. ~ HasClosed(queue[w]) =>
             /\ last[w] <= screen
             /\ ~ dirty /\ shown = "match" =>
                   HasNews(queue[w], last[w]) \/ HasNews(wire, last[w])
      BY <2>1, <2>4, <2>7 DEF Covers, Safe, Pending
    <3> QED
      BY <1>1, <1>2, <2>1, <2>2, <2>3, <2>7, <3>1, ListenStep, RestTyped
  <2> QED
    BY <1>6, <2>5, <2>6, <2>7 DEF DumpReady
<1>7. CASE Consume(w)
  <2> DEFINE e == Head(queue[w])
             q == Tail(queue[w])
  <2>1. pc[w] = "wait" /\ queue[w] # <<>> /\ UNCHANGED enabled
    BY <1>7 DEF Consume, connVars
  <2>2. /\ q \in Seq(Events) /\ e \in Events
        /\ HasClosed(queue[w]) => e = Closed \/ HasClosed(q)
        /\ \A b : HasNews(queue[w], b) => News(e, b) \/ HasNews(q, b)
    BY <1>1, <2>1, TailHas
  <2>3. \/ e = Closed /\ End(w, "failed") /\ UNCHANGED pushing
        \/ /\ e = Toast \/ (e.kind = "screen" /\ e.n <= last[w])
           /\ Listen(w, q) /\ UNCHANGED <<last, pushing>>
        \/ e.kind = "screen" /\ e.n > last[w] /\ Request(w, q, "dump")
    BY <1>7 DEF Consume
  <2> HIDE DEF e, q
  <2>4. e # Closed =>
           /\ (link = "up" /\ pushing = "on") \/ HasClosed(q)
           /\ link = "closed" => HasClosed(q)
    BY <1>1, <1>3, <2>1, <2>2 DEF HearOf, Doomed, Running, Awaiting
  <2>5. e # Closed /\ ~ HasClosed(q) => last[w] <= screen /\ Safe(w, last[w])
    BY <1>3, <2>1, <2>2 DEF ChangeOf, Doomed
  <2>6. CASE e = Closed /\ End(w, "failed") /\ UNCHANGED pushing
    BY <1>1, <1>2, <2>1, <2>6, EndStep, RestTyped
  <2>7. CASE /\ e = Toast \/ (e.kind = "screen" /\ e.n <= last[w])
             /\ Listen(w, q) /\ UNCHANGED <<last, pushing>>
    <3>1. e # Closed /\ ~ News(e, last[w])
      BY <1>3, <2>2, <2>7, EventValues, Sentinels DEF News
    <3>2. ~ HasClosed(q) =>
             /\ last[w] <= screen
             /\ ~ dirty /\ shown = "match" => HasNews(q, last[w]) \/ HasNews(wire, last[w])
      BY <2>2, <2>5, <3>1 DEF Safe, Pending
    <3> QED
      BY <1>1, <1>2, <2>1, <2>2, <2>4, <2>7, <3>1, <3>2, ListenStep, RestTyped
  <2>8. CASE e.kind = "screen" /\ e.n > last[w] /\ Request(w, q, "dump")
    <3>1. e # Closed
      BY <2>2, <2>8, EventValues
    <3> QED
      BY <1>1, <1>2, <2>1, <2>2, <2>4, <2>5, <2>8, <3>1, RequestStep, RestTyped
  <2> QED
    BY <2>3, <2>6, <2>7, <2>8
<1> QED
  BY <1>4, <1>5, <1>6, <1>7

(* The steps of wait_toast.                                                *)
LEMMA ToastStep ==
  ASSUME TypeOK, Inv, NEW t \in Toasters,
         StartToast(t) \/ ToastStreamReady(t) \/ ConsumeToast(t)
  PROVE  TypeOK' /\ Inv'
<1>1. /\ t \in Tasks /\ t \in Waits /\ t # Stream /\ t \notin Waiters
      /\ queue[t] \in Seq(Events)
      /\ pushing \in {"off", "asked", "on"} /\ enabled \in BOOLEAN /\ buffered \in BOOLEAN
      /\ -1 \in -1..MaxScreen
  BY WaitsAssumption DEF Tasks, Waits, TypeOK
<1>2. UNCHANGED same /\ UNCHANGED raised
  BY DEF StartToast, ToastStreamReady, ConsumeToast, connVars, agentRest, same
<1>3. HearOf(t) /\ ToastOf(t)
  BY <1>1, HearOfAll DEF Inv, ToastInv, ToastOf
<1>4. ASSUME TakeBuffered(t), enabled' \in BOOLEAN,
             enabled' => enabled \/ reply[t] = Answer("enabled")
      PROVE  TypeOK' /\ Inv'
  <2>1. End(t, "found") /\ buffered' = FALSE /\ UNCHANGED pushing
    BY <1>4 DEF TakeBuffered
  <2> QED
    BY <1>1, <1>2, <1>4, <2>1, EndStep, RestTyped
<1>5. CASE StartToast(t)
  <2>1. pc[t] = "idle" /\ UNCHANGED enabled /\ ~ since[t]
    BY <1>1, <1>3, <1>5 DEF StartToast, ToastOf, Running, Awaiting
  <2>2. CASE TakeBuffered(t)
    BY <1>1, <1>4, <2>1, <2>2
  <2>3. CASE Request(t, Subscription, "stream") /\ UNCHANGED buffered
    BY <1>1, <1>2, <2>1, <2>3, SubscriptionIs, RequestStep, RestTyped
  <2>4. CASE Listen(t, Subscription) /\ UNCHANGED <<last, buffered, pushing>>
    BY <1>1, <1>2, <2>1, <2>4, SubscriptionIs, ListenStep, RestTyped
  <2> QED
    BY <1>5, <2>2, <2>3, <2>4 DEF StartToast
<1>6. CASE ToastStreamReady(t)
  <2>1. /\ pc[t] = "stream" /\ reply[t] = Answer("enabled") /\ enabled' = TRUE
        /\ reply[t] # None
    BY <1>6, AnswerValues, NoneAssumption DEF ToastStreamReady
  <2>2. CASE TakeBuffered(t)
    BY <1>1, <1>4, <2>1, <2>2
  <2>3. CASE Listen(t, queue[t]) /\ UNCHANGED <<last, buffered, pushing>>
    <3>1. link = "closed" => HasClosed(queue[t])
      BY <1>1, <1>3, <2>1 DEF HearOf, Doomed
    <3>2. since[t] => HasToast(queue[t])
      BY <1>1, <1>3 DEF ToastOf
    <3>3. WaitTypes' /\ Inv'
      BY <1>1, <1>2, <2>1, <2>3, <3>1, <3>2, ListenStep
    <3> QED
      BY <1>1, <1>2, <2>1, <2>3, <3>3, RestTyped
  <2> QED
    BY <1>6, <2>2, <2>3 DEF ToastStreamReady
<1>7. CASE ConsumeToast(t)
  <2> DEFINE e == Head(queue[t])
             q == Tail(queue[t])
  <2>1. /\ pc[t] = "wait" /\ queue[t] # <<>> /\ UNCHANGED <<enabled, buffered, pushing>>
    BY <1>7 DEF ConsumeToast, connVars
  <2>2. /\ q \in Seq(Events) /\ e \in Events
        /\ HasClosed(queue[t]) => e = Closed \/ HasClosed(q)
        /\ HasToast(queue[t]) => e = Toast \/ HasToast(q)
    BY <1>1, <2>1, TailHas
  <2>3. \/ e = Closed /\ End(t, "failed")
        \/ e = Toast /\ End(t, "found")
        \/ e.kind = "screen" /\ Listen(t, q) /\ UNCHANGED last
    BY <1>7 DEF ConsumeToast
  <2> HIDE DEF e, q
  <2>4. CASE End(t, "failed") \/ End(t, "found")
    BY <1>1, <1>2, <2>1, <2>4, EndStep, RestTyped
  <2>5. CASE e.kind = "screen" /\ Listen(t, q) /\ UNCHANGED last
    <3>1. e # Closed /\ e # Toast
      BY <2>2, <2>5, EventValues
    <3>2. link = "closed" => HasClosed(q)
      BY <1>1, <1>3, <2>1, <2>2, <3>1 DEF HearOf, Doomed, Running, Awaiting
    <3>3. since[t] => HasToast(q)
      BY <1>1, <1>3, <2>2, <3>1 DEF ToastOf
    <3> QED
      BY <1>1, <1>2, <2>1, <2>2, <2>5, <3>2, <3>3, ListenStep, RestTyped
  <2> QED
    BY <2>3, <2>4, <2>5
<1> QED
  BY <1>5, <1>6, <1>7

(* A call ends without an answer; the stream task of the connection.       *)
LEMMA CallStep ==
  ASSUME TypeOK, Inv,
         \/ \E a \in Tasks : CallFails(a) \/ SendEnds(a) \/ Abandon(a)
         \/ OpenStream \/ StreamOpened
  PROVE  TypeOK' /\ Inv'
<1>1. /\ Stream \in Tasks /\ Stream \notin Waits /\ <<>> \in Seq(Events)
      /\ pushing \in {"off", "asked", "on"} /\ enabled \in BOOLEAN /\ buffered \in BOOLEAN
  BY WaitsAssumption, EmptySeq DEF Tasks, Waits, TypeOK
<1>2. ASSUME NEW a \in Tasks, CallFails(a) \/ SendEnds(a) \/ Abandon(a) PROVE TypeOK' /\ Inv'
  <2>1. /\ End(a, "failed") /\ UNCHANGED same
        /\ UNCHANGED <<raised, enabled, buffered, pushing>>
    BY <1>2 DEF CallFails, SendEnds, Abandon, connVars, agentRest, same
  <2> QED
    BY <1>1, <2>1, EndStep, RestTyped
<1>3. CASE OpenStream
  <2>1. /\ pc[Stream] = "idle" /\ link = "up" /\ UNCHANGED same
        /\ UNCHANGED <<raised, enabled, buffered>>
    BY <1>3 DEF OpenStream, connVars, agentRest, same
  <2>2. CASE End(Stream, "found") /\ UNCHANGED pushing
    BY <1>1, <2>1, <2>2, EndStep, RestTyped
  <2>3. CASE Request(Stream, <<>>, "stream")
    <3>1. Stream \notin Waiters /\ Stream \notin Toasters
      BY <1>1 DEF Waits
    <3> QED
      BY <1>1, <2>1, <2>3, <3>1, RequestStep, RestTyped
  <2> QED
    BY <1>3, <2>2, <2>3 DEF OpenStream
<1>4. CASE StreamOpened
  <2>1. /\ reply[Stream] = Answer("enabled") /\ enabled' = TRUE /\ End(Stream, "found")
        /\ UNCHANGED same /\ UNCHANGED <<raised, buffered, pushing>>
    BY <1>4 DEF StreamOpened, agentRest, same
  <2>2. WaitTypes' /\ Inv'
    BY <1>1, <2>1, EndStep
  <2> QED
    BY <1>1, <2>1, <2>2, RestTyped
<1> QED
  BY <1>2, <1>3, <1>4
-----------------------------------------------------------------------------
(* The connection's steps.                                                 *)

Frames == Events \cup Replies

(* Emit reaches every running wait and takes nothing from a queue.         *)
LEMMA EmitIs ==
  ASSUME TypeOK, NEW e \in Events, Emit(e)
  PROVE  /\ queue' \in [Tasks -> Seq(Events)]
         /\ \A a \in Tasks :
               /\ HasClosed(queue[a]) => HasClosed(queue'[a])
               /\ HasToast(queue[a]) => HasToast(queue'[a])
               /\ \A b : HasNews(queue[a], b) => HasNews(queue'[a], b)
               /\ Running(a) => /\ queue'[a] # <<>>
                                /\ e = Closed => HasClosed(queue'[a])
                                /\ e = Toast => HasToast(queue'[a])
                                /\ \A b : News(e, b) => HasNews(queue'[a], b)
<1> SUFFICES ASSUME NEW a \in Tasks
             PROVE  /\ queue'[a] \in Seq(Events)
                    /\ HasClosed(queue[a]) => HasClosed(queue'[a])
                    /\ HasToast(queue[a]) => HasToast(queue'[a])
                    /\ \A b : HasNews(queue[a], b) => HasNews(queue'[a], b)
                    /\ Running(a) => /\ queue'[a] # <<>>
                                     /\ e = Closed => HasClosed(queue'[a])
                                     /\ e = Toast => HasToast(queue'[a])
                                     /\ \A b : News(e, b) => HasNews(queue'[a], b)
  BY DEF Emit
<1>1. queue[a] \in Seq(Events)
  BY DEF TypeOK
<1>2. CASE Running(a)
  <2>1. queue'[a] = Append(queue[a], e)
    BY <1>2 DEF Emit, Subscribed
  <2> QED
    BY <1>1, <2>1, AppendHas
<1>3. CASE ~ Running(a)
  <2>1. queue'[a] = queue[a]
    BY <1>3 DEF Emit, Subscribed
  <2> QED
    BY <1>1, <1>3, <2>1
<1> QED
  BY <1>2, <1>3

(* The reader takes the first frame and no other.                          *)
LEMMA WireTail ==
  ASSUME TypeOK, wire # <<>>, wire' = Tail(wire)
  PROVE  /\ wire' \in Seq(Frames) /\ Head(wire) = wire[1] /\ wire[1] \in Frames
         /\ 1 \in 1..Len(wire)
         /\ \A b : HasNews(wire, b) => News(wire[1], b) \/ HasNews(wire', b)
         /\ \A k \in 1..Len(wire') : k + 1 \in 1..Len(wire) /\ wire'[k] = wire[k + 1]
         /\ \A k \in 1..Len(wire') : k \in Int /\ k + 1 # 1
<1>1. wire \in Seq(Frames)
  BY DEF TypeOK, Frames
<1>2. Len(wire) \in Nat /\ 1 \in 1..Len(wire)
  BY <1>1
<1>3. \A k \in 1..Len(wire') : k \in Int /\ k + 1 # 1
  BY <1>1
<1> QED
  BY <1>1, <1>2, <1>3, TailHas

(* The reader handles a frame: an event for all, or an answer for one.     *)
LEMMA DeliverInv ==
  ASSUME TypeOK, Inv, Deliver
  PROVE  TypeOK' /\ Inv'
<1>1. PICK f : f = wire[1]
  OBVIOUS
<1>2. /\ wire # <<>> /\ wire' = Tail(wire)
      /\ UNCHANGED <<pc, last, link, enabled, shown, dirty, screen, pushing, draft, raised>>
  BY DEF Deliver
<1>3. /\ wire' \in Seq(Frames) /\ Head(wire) = f /\ f \in Frames /\ 1 \in 1..Len(wire)
      /\ \A b : HasNews(wire, b) => News(f, b) \/ HasNews(wire', b)
      /\ \A k \in 1..Len(wire') : k + 1 \in 1..Len(wire) /\ wire'[k] = wire[k + 1]
      /\ \A k \in 1..Len(wire') : k \in Int /\ k + 1 # 1
  BY <1>1, <1>2, WireTail
<1>4. /\ link = "up"
      /\ \A a : OnWire(a)' => OnWire(a)
      /\ \A a : f \in Replies /\ f.of = a => OnWire(a) /\ ~ OnWire(a)'
      /\ \A i, j \in 1..Len(wire') : wire'[i] \in Replies /\ wire'[j] \in Replies
             /\ wire'[i].of = wire'[j].of => i = j
  <2>1. link = "up"
    BY <1>2 DEF Inv, DownInv
  <2>2. \A a : OnWire(a)' => OnWire(a)
    BY <1>3 DEF OnWire
  <2>3. ASSUME NEW a, f \in Replies, f.of = a PROVE OnWire(a) /\ ~ OnWire(a)'
    BY <1>1, <1>3, <2>3 DEF OnWire, Inv, AnswerInv
  <2>4. ASSUME NEW i \in 1..Len(wire'), NEW j \in 1..Len(wire'), wire'[i] \in Replies,
               wire'[j] \in Replies, wire'[i].of = wire'[j].of
        PROVE  i = j
    <3>1. i + 1 = j + 1
      BY <1>3, <2>4 DEF Inv, AnswerInv
    <3> QED
      BY <1>3, <3>1
  <2> QED
    BY <2>1, <2>2, <2>3, <2>4
<1>5. DirtyInv' /\ DownInv'
  BY <1>2, <1>4 DEF Inv, DirtyInv, DownInv
<1>6. CASE f \in Replies /\ UNCHANGED <<queue, since, buffered>>
           /\ reply' = [reply EXCEPT ![f.of] =
                           IF pc[f.of] \in {"stream", "dump"} /\ @ = None
                           THEN f.answer ELSE @]
  <2>1. PICK a \in Tasks : a = f.of /\ f.answer \in Answers
    BY <1>6 DEF Replies
  <2>2. OnWire(a) /\ ~ OnWire(a)'
    BY <1>4, <1>6, <2>1
  <2>3. reply[a] = None /\ draft[a] = None
    BY <2>1, <2>2 DEF Inv, AnswerInv
  <2>4. /\ reply'[a] = IF pc[a] \in {"stream", "dump"} THEN f.answer ELSE None
        /\ \A c \in Tasks : c # a => reply'[c] = reply[c]
        /\ reply' \in [Tasks -> Answers \cup {None}]
    BY <1>6, <2>1, <2>3 DEF TypeOK
  <2>5. TypeOK'
    BY <1>2, <1>3, <1>6, <2>4 DEF TypeOK, Frames
  <2>6. AnswerInv'
    BY <1>2, <1>4, <2>2, <2>3, <2>4 DEF Inv, AnswerInv
  <2>7. HeldInv'
    BY <1>2, <2>4 DEF Inv, HeldInv, Held
  <2>8. f.answer = Answer("enabled") => pushing = "on"
    BY <1>1, <1>3, <1>4, <1>6 DEF Inv, StreamInv
  <2>9. StreamInv'
    BY <1>2, <1>3, <2>1, <2>4, <2>8, AnswerValues, NoneAssumption DEF Inv, StreamInv
  <2>10. ASSUME NEW c \in Waits PROVE HearOf(c)'
    <3>1. HearOf(c) /\ c \in Tasks
      BY HearOfAll DEF Inv, Tasks
    <3> QED
      BY <1>2, <1>4, <1>6, <2>4, <2>8, <3>1, AnswerValues, NoneAssumption
      DEF HearOf, Doomed, Running, Awaiting
  <2>11. ASSUME NEW c \in Tasks PROVE ToastOf(c)'
    BY <1>2, <1>6 DEF Inv, ToastInv, ToastOf, Running, Awaiting
  <2>12. ASSUME NEW w \in Waiters PROVE ChangeOf(w)'
    <3>1. ChangeOf(w) /\ w \in Tasks
      BY DEF Inv, ChangeInv, Tasks, Waits
    <3>2. \A b : Pending(w, b) => Pending(w, b)'
      BY <1>3, <1>6, Kinds DEF Pending, News
    <3>3. \A b : Safe(w, b) => Safe(w, b)'
      BY <1>2, <3>2 DEF Safe
    <3>4. \A d : Covers(w, d) => Covers(w, d)'
      BY <1>2, <3>3 DEF Covers
    <3>5. w = a /\ pc[w] = "dump" /\ ~ Doomed(w) => Covers(w, f.answer)
      BY <1>1, <1>3, <1>6, <2>1, <3>1 DEF ChangeOf
    <3>6. Doomed(w)' <=> Doomed(w)
      BY <1>6 DEF Doomed
    <3>7. ASSUME pc[w] \in {"wait", "dump"}, ~ Doomed(w)
          PROVE  /\ last[w] <= screen
                 /\ pc[w] = "wait" => Safe(w, last[w])
                 /\ pc[w] = "dump" =>
                       /\ draft[w] # None => Covers(w, draft[w])
                       /\ reply'[w] # None => Covers(w, reply'[w])
                       /\ \A k \in 1..Len(wire') :
                             wire'[k] \in Replies /\ wire'[k].of = w =>
                                Covers(w, wire'[k].answer)
      BY <1>3, <2>4, <3>1, <3>5, <3>7 DEF ChangeOf
    <3> QED
      BY <1>2, <3>1, <3>3, <3>4, <3>6, <3>7 DEF ChangeOf
  <2>13. HearInv' /\ ChangeInv' /\ ToastInv'
    BY <2>10, <2>11, <2>12, AllOf
  <2> QED
    BY <1>5, <2>5, <2>6, <2>9, <2>13, <2>7 DEF Inv
<1>7. CASE /\ f \in Events /\ Emit(f) /\ UNCHANGED reply
           /\ \/ f # Toast /\ UNCHANGED <<since, buffered>>
              \/ f = Toast /\ buffered' = TRUE /\ since' = [t \in Toasters |-> Running(t)]
  <2>1. /\ queue' \in [Tasks -> Seq(Events)]
        /\ \A a \in Tasks :
               /\ HasClosed(queue[a]) => HasClosed(queue'[a])
               /\ HasToast(queue[a]) => HasToast(queue'[a])
               /\ \A b : HasNews(queue[a], b) => HasNews(queue'[a], b)
               /\ Running(a) => /\ f = Toast => HasToast(queue'[a])
                                /\ \A b : News(f, b) => HasNews(queue'[a], b)
    BY <1>7, EmitIs
  <2>2. TypeOK'
    <3>1. since' \in [Toasters -> BOOLEAN] /\ buffered' \in BOOLEAN
      BY <1>7 DEF TypeOK, Running, Awaiting
    <3> QED
      BY <1>2, <1>3, <1>7, <2>1, <3>1 DEF TypeOK, Frames
  <2>3. AnswerInv' /\ StreamInv'
    <3>1. AnswerInv'
      BY <1>2, <1>4, <1>7 DEF Inv, AnswerInv
    <3>2. StreamInv'
      BY <1>2, <1>3, <1>7 DEF Inv, StreamInv
    <3> QED
      BY <3>1, <3>2
  <2>4. ASSUME NEW c \in Waits PROVE HearOf(c)'
    <3>1. HearOf(c) /\ c \in Tasks
      BY HearOfAll DEF Inv, Tasks
    <3> QED
      BY <1>2, <1>7, <2>1, <3>1 DEF HearOf, Doomed, Running, Awaiting
  <2>5. ASSUME NEW c \in Tasks PROVE ToastOf(c)'
    BY <1>2, <1>7, <2>1 DEF Inv, ToastInv, ToastOf, Running, Awaiting
  <2>6. ASSUME NEW w \in Waiters PROVE ChangeOf(w)'
    <3>1. ChangeOf(w) /\ w \in Tasks /\ w # Stream
      BY WaitsAssumption DEF Inv, ChangeInv, Tasks, Waits
    <3>2. pc[w] \in {"wait", "dump"} => Running(w)
      BY <3>1 DEF Running, Awaiting
    <3>3. pc[w] \in {"wait", "dump"} => \A b : Pending(w, b) => Pending(w, b)'
      BY <1>3, <2>1, <3>1, <3>2 DEF Pending
    <3>4. pc[w] \in {"wait", "dump"} => \A b : Safe(w, b) => Safe(w, b)'
      BY <1>2, <3>3 DEF Safe
    <3>5. pc[w] \in {"wait", "dump"} => \A d : Covers(w, d) => Covers(w, d)'
      BY <1>2, <3>4 DEF Covers
    <3>6. Doomed(w) => Doomed(w)'
      BY <2>1, <3>1 DEF Doomed
    <3>7. ASSUME pc[w] \in {"wait", "dump"}, ~ Doomed(w)
          PROVE  /\ last[w] <= screen
                 /\ pc[w] = "wait" => Safe(w, last[w])
                 /\ pc[w] = "dump" =>
                       /\ draft[w] # None => Covers(w, draft[w])
                       /\ reply[w] # None => Covers(w, reply[w])
                       /\ \A k \in 1..Len(wire') :
                             wire'[k] \in Replies /\ wire'[k].of = w =>
                                Covers(w, wire'[k].answer)
      BY <1>3, <3>1, <3>7 DEF ChangeOf
    <3> QED
      BY <1>2, <1>7, <3>1, <3>4, <3>5, <3>6, <3>7 DEF ChangeOf
  <2>7. HearInv' /\ ChangeInv' /\ ToastInv'
    BY <2>4, <2>5, <2>6, AllOf
  <2> QED
    BY <1>2, <1>5, <1>7, <2>2, <2>3, <2>7 DEF Inv, HeldInv, Held
<1> QED
  BY <1>2, <1>3, <1>6, <1>7, Sentinels DEF Deliver

(* A drop puts the sentinel into every queue and fails every call.         *)
LEMMA DisconnectInv ==
  ASSUME TypeOK, Inv, Disconnect, link' \in {"down", "closed"}
  PROVE  TypeOK' /\ Inv'
<1>1. /\ queue' \in [Tasks -> Seq(Events)]
      /\ \A a \in Tasks : /\ HasToast(queue[a]) => HasToast(queue'[a])
                          /\ Running(a) => HasClosed(queue'[a])
  BY Sentinels, EmitIs DEF Disconnect
<1>2. /\ wire' = <<>> /\ pushing' = "off" /\ link' # "up"
      /\ draft' = [a \in Tasks |-> None]
      /\ UNCHANGED <<pc, last, since, enabled, buffered, shown, dirty, screen, raised>>
  BY DEF Disconnect
<1>3. \A a \in Tasks : reply'[a] = IF Unsettled(a) THEN Answer("lost") ELSE reply[a]
  BY DEF Disconnect
<1>4. TypeOK'
  <2>1. reply' \in [Tasks -> Answers \cup {None}]
    BY <1>3, AnswerValues DEF Disconnect, TypeOK
  <2>2. wire' \in Seq(Events \cup Replies)
    BY <1>2, EmptySeq
  <2> QED
    BY <1>1, <1>2, <2>1, <2>2 DEF TypeOK
<1>5. \A k \in 1..Len(wire') : FALSE
  BY <1>2
<1>6. DirtyInv' /\ DownInv'
  <2>1. \A a \in Tasks : pc'[a] \in {"stream", "dump"} => reply'[a] # None
    BY <1>2, <1>3, AnswerValues, NoneAssumption DEF Unsettled, Awaiting
  <2> QED
    BY <1>2, <2>1 DEF Inv, DirtyInv, DownInv
<1>7. AnswerInv' /\ HeldInv' /\ StreamInv'
  BY <1>2, <1>3, <1>5 DEF Inv, AnswerInv, HeldInv, Held, Unsettled, StreamInv, OnWire
<1>8. ASSUME NEW c \in Waits PROVE HearOf(c)'
  <2>1. c \in Tasks /\ c # Stream
    BY WaitsAssumption DEF Tasks, Waits
  <2> QED
    BY <1>1, <1>2, <2>1 DEF HearOf, Doomed, Running, Awaiting
<1>9. ASSUME NEW w \in Waiters PROVE ChangeOf(w)'
  <2>1. w \in Tasks /\ w # Stream
    BY WaitsAssumption DEF Tasks, Waits
  <2> QED
    BY <1>1, <1>2, <2>1 DEF Inv, ChangeInv, ChangeOf, Doomed, Running, Awaiting
<1>10. ASSUME NEW t \in Tasks PROVE ToastOf(t)'
  BY <1>1, <1>2 DEF Inv, ToastInv, ToastOf, Running, Awaiting
<1>11. HearInv' /\ ChangeInv' /\ ToastInv'
  BY <1>8, <1>9, <1>10, AllOf
<1> QED
  BY <1>4, <1>6, <1>7, <1>11 DEF Inv

(* When the supervisor reopens the link nobody waits on the old one: every *)
(* call has ended that is not held in its send, and a wait_until on its    *)
(* queue would have the sentinel.                                          *)
LEMMA NobodyLeft ==
  ASSUME TypeOK, Inv, link = "down", \A a \in Tasks : ~ Ready(a)
  PROVE  /\ \A a \in Tasks : /\ reply[a] \in {None, Answer("lost")}
                             /\ pc[a] \notin {"stream", "dump"}
         /\ \A w \in Waiters : pc[w] # "wait"
<1>1. \A a \in Tasks : reply[a] # None => Held(a)
  BY DEF Ready
<1>2. \A a \in Tasks : pc[a] \notin {"stream", "dump"}
  BY <1>1 DEF Inv, DownInv, Held
<1>3. ASSUME NEW w \in Waiters, pc[w] = "wait" PROVE FALSE
  <2>1. w \in Tasks /\ queue[w] = <<>>
    BY <1>3 DEF Ready, Held, Tasks, Waits
  <2>2. HasClosed(queue[w])
    BY <1>3 DEF Inv, HearInv, Doomed
  <2> QED
    BY <2>1, <2>2 DEF HasClosed
<1> QED
  BY <1>1, <1>2, <1>3 DEF Inv, HeldInv

(* A new connection begins with an empty wire and nobody asleep.           *)
LEMMA ReopenInv ==
  ASSUME TypeOK, Inv, Reopen
  PROVE  TypeOK' /\ Inv'
<1>1. /\ \A a \in Tasks : /\ reply[a] \in {None, Answer("lost")}
                          /\ pc[a] \notin {"stream", "dump"}
      /\ \A w \in Waiters : pc[w] # "wait"
  BY NobodyLeft DEF Reopen
<1>2. /\ link = "down" /\ link' = "up" /\ enabled' = FALSE
      /\ Stream \in Tasks /\ Stream \notin Waits
      /\ pc' = [pc EXCEPT ![Stream] = "idle"]
      /\ UNCHANGED <<queue, last, reply, since, buffered, shown, dirty, screen,
                     pushing, draft, wire, raised>>
  BY WaitsAssumption DEF Reopen, agentVars, Tasks, Waits
<1>3. pc'[Stream] = "idle" /\ \A a \in Waits : a \in Tasks /\ a # Stream /\ pc'[a] = pc[a]
  BY <1>2 DEF TypeOK, Tasks
<1>4. TypeOK'
  BY <1>2 DEF TypeOK
<1>5. /\ pushing = "off" /\ wire = <<>> /\ \A k \in 1..Len(wire) : FALSE
      /\ \A a \in Tasks : draft[a] = None
  BY <1>2 DEF Inv, DownInv
<1>6. DirtyInv' /\ DownInv'
  BY <1>2 DEF Inv, DirtyInv, DownInv
<1>7. AnswerInv' /\ HeldInv' /\ StreamInv'
  BY <1>1, <1>2, <1>3, <1>5, AnswerValues, NoneAssumption
  DEF AnswerInv, HeldInv, StreamInv, OnWire
<1>8. ASSUME NEW c \in Waits PROVE HearOf(c)'
  BY <1>1, <1>2, <1>3, <1>8 DEF HearOf
<1>9. ASSUME NEW w \in Waiters PROVE ChangeOf(w)'
  BY <1>1, <1>2, <1>3 DEF Waits, Inv, ChangeInv, ChangeOf
<1>10. ASSUME NEW t \in Tasks PROVE ToastOf(t)'
  BY <1>2, <1>3 DEF Waits, Inv, ToastInv, ToastOf, Running, Awaiting
<1>11. HearInv' /\ ChangeInv' /\ ToastInv'
  BY <1>8, <1>9, <1>10, AllOf
<1> QED
  BY <1>4, <1>6, <1>7, <1>11 DEF Inv
-----------------------------------------------------------------------------
(* The agent's steps.                                                      *)

clientVars == <<pc, queue, last, reply, since, link, enabled, buffered>>

(* Parts of the invariant that look only at the client.                    *)
LEMMA ClientKept ==
  ASSUME Inv, UNCHANGED clientVars, pushing' = pushing \/ pushing' = "on"
  PROVE  HearInv' /\ ToastInv' /\ HeldInv'
<1>1. HearInv'
  BY DEF clientVars, Inv, HearInv, Doomed, Running, Awaiting
<1>2. ToastInv'
  BY DEF clientVars, Inv, ToastInv, Running, Awaiting
<1>3. HeldInv'
  BY DEF clientVars, Inv, HeldInv, Held
<1> QED
  BY <1>1, <1>2, <1>3

(* Nothing was sent and nothing taken.                                     *)
LEMMA FramesKept ==
  ASSUME Inv, UNCHANGED <<clientVars, draft, wire>>,
         pushing' = pushing \/ (pushing' = "on" /\ link = "up")
  PROVE  DownInv' /\ AnswerInv' /\ StreamInv'
<1>1. DownInv'
  BY DEF clientVars, Inv, DownInv
<1>2. AnswerInv'
  BY DEF clientVars, Inv, AnswerInv, OnWire
<1>3. StreamInv'
  BY DEF clientVars, Inv, StreamInv
<1> QED
  BY <1>1, <1>2, <1>3

(* Without a stream every wait_until that could sleep has the sentinel.    *)
LEMMA NoStream ==
  ASSUME Inv, link # "up" \/ pushing # "on", NEW w \in Waiters, pc[w] \in {"wait", "dump"}
  PROVE  Doomed(w)
  BY DEF Inv, HearInv

(* A step that leaves all of this alone.                                   *)
LEMMA KeepInv ==
  ASSUME Inv, UNCHANGED <<pc, queue, last, reply, since, link, enabled>>,
         UNCHANGED <<shown, dirty, screen, pushing, draft, wire>>
  PROVE  Inv'
<1>1. HearInv' /\ ToastInv' /\ HeldInv'
  BY DEF Inv, HearInv, ToastInv, HeldInv, Held, Doomed, Running, Awaiting
<1>2. DownInv' /\ AnswerInv' /\ StreamInv' /\ DirtyInv'
  BY DEF Inv, DownInv, AnswerInv, OnWire, StreamInv, DirtyInv
<1>3. ChangeInv'
  BY DEF Inv, ChangeInv, ChangeOf, Doomed, Safe, Covers, Pending
<1> QED
  BY <1>1, <1>2, <1>3 DEF Inv

(* The contents change: the agent owes an event from here on.              *)
LEMMA ChangeStep ==
  ASSUME TypeOK, Inv, Change
  PROVE  TypeOK' /\ Inv'
<1>1. /\ UNCHANGED <<clientVars, draft, wire, pushing, screen, raised>>
      /\ dirty' = TRUE /\ shown' \in Contents /\ screen < MaxScreen
  BY DEF Change, clientVars, waitVars, connVars
<1>2. TypeOK'
  BY <1>1 DEF TypeOK, clientVars
<1>3. HearInv' /\ ToastInv' /\ HeldInv' /\ DownInv' /\ AnswerInv' /\ StreamInv' /\ DirtyInv'
  BY <1>1, ClientKept, FramesKept DEF DirtyInv
<1>4. ChangeInv'
  BY <1>1 DEF clientVars, Inv, ChangeInv, ChangeOf, Doomed, Safe, Covers
<1> QED
  BY <1>2, <1>3, <1>4 DEF Inv

(* The agent begins to stream.                                             *)
LEMMA TurnOnStep ==
  ASSUME TypeOK, Inv, TurnOn, link = "up"
  PROVE  TypeOK' /\ Inv'
<1>1. /\ UNCHANGED <<clientVars, draft, wire, shown, dirty, screen, raised>>
      /\ pushing' = "on"
  BY DEF TurnOn, clientVars, waitVars, connVars, agentRest
<1>2. TypeOK'
  BY <1>1 DEF TypeOK, clientVars
<1>3. HearInv' /\ ToastInv' /\ HeldInv' /\ DownInv' /\ AnswerInv' /\ StreamInv' /\ DirtyInv'
  BY <1>1, ClientKept, FramesKept DEF Inv, DirtyInv
<1>4. ChangeInv'
  BY <1>1 DEF clientVars, Inv, ChangeInv, ChangeOf, Doomed, Safe, Covers, Pending
<1> QED
  BY <1>2, <1>3, <1>4 DEF Inv

(* The agent restarts while the link is down; its numbers begin again.     *)
LEMMA RestartStep ==
  ASSUME TypeOK, Inv, Restart, link = "down"
  PROVE  TypeOK' /\ Inv'
<1>1. /\ UNCHANGED <<clientVars, draft, wire, pushing, shown, raised>>
      /\ screen' = 0 /\ dirty' = FALSE
  BY DEF Restart, clientVars, waitVars, connVars
<1>2. TypeOK'
  <2>1. 0 \in 0..MaxScreen
    BY WaitsAssumption
  <2> QED
    BY <1>1, <2>1 DEF TypeOK, clientVars
<1>3. HearInv' /\ ToastInv' /\ HeldInv' /\ DownInv' /\ AnswerInv' /\ StreamInv' /\ DirtyInv'
  BY <1>1, ClientKept, FramesKept DEF DirtyInv
<1>4. ASSUME NEW w \in Waiters PROVE ChangeOf(w)'
  BY <1>1, NoStream DEF clientVars, Inv, ChangeInv, ChangeOf, Doomed
<1>5. ChangeInv'
  BY <1>4, AllOf
<1> QED
  BY <1>2, <1>3, <1>5 DEF Inv

(* The agent reads the screen for a dump, with the number it has by then.  *)
LEMMA TakeDumpStep ==
  ASSUME TypeOK, Inv, NEW w \in Waiters, TakeDump(w)
  PROVE  TypeOK' /\ Inv'
<1>1. PICK d : d = IF shown = "blank" THEN Answer("blank") ELSE [st |-> shown, screen |-> screen]
  OBVIOUS
<1>2. /\ UNCHANGED <<clientVars, wire, pushing, shown, dirty, screen, raised>>
      /\ draft' = [draft EXCEPT ![w] = d]
      /\ pc[w] = "dump" /\ reply[w] = None /\ w \in Tasks
  BY <1>1 DEF TakeDump, Unanswered, clientVars, waitVars, connVars, agentRest, Tasks, Waits
<1>3. ~ OnWire(w)
  BY DEF TakeDump, Unanswered, OnWire
<1>4. d \in Dumps
  BY <1>1 DEF TypeOK, Contents, Dumps, Trees
<1>5. draft'[w] = d /\ \A a \in Tasks : a # w => draft'[a] = draft[a]
  BY <1>2 DEF TypeOK
<1>6. TypeOK'
  BY <1>2, <1>4 DEF TypeOK, clientVars
<1>7. link = "up"
  BY <1>2 DEF Inv, DownInv
<1>8. HearInv' /\ ToastInv' /\ HeldInv' /\ DirtyInv'
  BY <1>2, ClientKept DEF Inv, DirtyInv
<1>9. DownInv' /\ StreamInv'
  BY <1>2, <1>7 DEF clientVars, Inv, DownInv, StreamInv
<1>10. AnswerInv'
  BY <1>2, <1>3, <1>5 DEF clientVars, Inv, AnswerInv, OnWire
<1>11. ASSUME ~ Doomed(w) PROVE Covers(w, d)
  <2>1. last[w] <= screen /\ screen \in Int
    BY <1>2, <1>11, WaitsAssumption DEF Inv, ChangeInv, ChangeOf, TypeOK
  <2>2. CASE shown = "blank"
    BY <1>1, <2>1, <2>2 DEF Covers, Safe, Answer
  <2>3. CASE shown # "blank"
    BY <1>1, <2>1, <2>3 DEF Covers, Safe, TypeOK, Contents
  <2> QED
    BY <2>2, <2>3
<1>12. ASSUME NEW v \in Waiters PROVE ChangeOf(v)'
  <2>1. v \in Tasks /\ ChangeOf(v)
    BY DEF Inv, ChangeInv, Tasks, Waits
  <2> QED
    BY <1>2, <1>5, <1>11, <2>1
    DEF clientVars, ChangeOf, Doomed, Safe, Covers, Pending
<1>13. ChangeInv'
  BY <1>12, AllOf
<1> QED
  BY <1>6, <1>8, <1>9, <1>10, <1>13 DEF Inv

(* A frame is put at the end of the wire.                                  *)
LEMMA SendIs ==
  ASSUME TypeOK, NEW f \in Frames, Send(f)
  PROVE  /\ wire' \in Seq(Frames) /\ Len(wire) \in Nat
         /\ Len(wire) + 1 \in 1..Len(wire') /\ wire'[Len(wire) + 1] = f
         /\ \A k \in 1..Len(wire) : k \in 1..Len(wire') /\ wire'[k] = wire[k]
         /\ \A k \in 1..Len(wire') : k \in 1..Len(wire) \/ k = Len(wire) + 1
         /\ \A k \in 1..Len(wire') :
               wire'[k] = f \/ (k \in 1..Len(wire) /\ wire'[k] = wire[k])
         /\ \A b : HasNews(wire, b) \/ News(f, b) => HasNews(wire', b)
<1>1. wire \in Seq(Frames) /\ wire' = Append(wire, f)
  BY DEF TypeOK, Frames, Send
<1>2. /\ wire' \in Seq(Frames) /\ Len(wire) \in Nat /\ Len(wire') = Len(wire) + 1
      /\ \A k \in 1..Len(wire) : wire'[k] = wire[k]
      /\ wire'[Len(wire) + 1] = f
      /\ \A b : HasNews(wire, b) \/ News(f, b) => HasNews(wire', b)
  BY <1>1, AppendHas
<1> QED
  BY <1>2

(* An event is sent on a live stream.                                      *)
LEMMA PushStep ==
  ASSUME TypeOK, Inv, NEW e \in Events, Send(e), pushing = "on",
         UNCHANGED <<clientVars, pushing, draft>>
  PROVE  /\ wire' \in Seq(Frames)
         /\ DownInv' /\ AnswerInv' /\ StreamInv' /\ HearInv' /\ ToastInv' /\ HeldInv'
         /\ \A k \in 1..Len(wire') : wire'[k] \in Replies =>
               k \in 1..Len(wire) /\ wire'[k] = wire[k]
         /\ \A b : HasNews(wire, b) \/ News(e, b) => HasNews(wire', b)
<1>1. e \in Frames /\ e \notin Replies
  BY Kinds DEF Frames
<1>2. /\ wire' \in Seq(Frames)
      /\ \A k \in 1..Len(wire') : wire'[k] \in Replies =>
               k \in 1..Len(wire) /\ wire'[k] = wire[k]
      /\ \A b : HasNews(wire, b) \/ News(e, b) => HasNews(wire', b)
  BY <1>1, SendIs
<1>3. HearInv' /\ ToastInv' /\ HeldInv'
  BY ClientKept
<1>4. link = "up" /\ DownInv' /\ StreamInv'
  BY DEF clientVars, Inv, DownInv, StreamInv
<1>5. \A a : OnWire(a)' => OnWire(a)
  BY <1>2 DEF OnWire
<1>6. AnswerInv'
  BY <1>2, <1>5 DEF clientVars, Inv, AnswerInv
<1> QED
  BY <1>2, <1>3, <1>4, <1>6

(* The agent announces the change it owed.                                 *)
LEMMA SettleStep ==
  ASSUME TypeOK, Inv, Settle
  PROVE  TypeOK' /\ Inv'
<1>1. /\ UNCHANGED <<clientVars, pushing, draft, shown, raised>>
      /\ dirty /\ dirty' = FALSE /\ screen' = screen + 1
  BY DEF Settle, clientVars, waitVars, connVars
<1>2. screen \in 0..MaxScreen /\ screen < MaxScreen /\ MaxScreen \in Nat
  BY <1>1, WaitsAssumption DEF TypeOK, Inv, DirtyInv
<1>3. screen' \in 0..MaxScreen /\ screen' \in 1..MaxScreen
  BY <1>1, <1>2
<1>4. PICK e \in Events : e = Event("screen", screen + 1) /\ e.kind = "screen" /\ e.n = screen + 1
  BY <1>1, <1>3, EventIs
<1>5. DirtyInv'
  BY <1>1 DEF DirtyInv
<1>6. CASE pushing = "on"
  <2>1. Send(e)
    BY <1>4, <1>6 DEF Settle, Push
  <2>2. /\ wire' \in Seq(Frames)
        /\ DownInv' /\ AnswerInv' /\ StreamInv' /\ HearInv' /\ ToastInv' /\ HeldInv'
        /\ \A k \in 1..Len(wire') : wire'[k] \in Replies =>
               k \in 1..Len(wire) /\ wire'[k] = wire[k]
        /\ \A b : HasNews(wire, b) \/ News(e, b) => HasNews(wire', b)
    BY <1>1, <1>6, <2>1, PushStep
  <2>3. TypeOK'
    BY <1>1, <1>3, <2>2 DEF TypeOK, clientVars, Frames
  <2>4. ASSUME NEW w \in Waiters PROVE ChangeOf(w)'
    <3>1. ChangeOf(w) /\ last[w] \in Int
      BY WaitsAssumption DEF Inv, ChangeInv, TypeOK
    <3>2. \A b \in Int : b <= screen => Safe(w, b)'
      BY <1>1, <1>2, <1>4, <2>2 DEF Safe, Pending, News
    <3>3. ASSUME NEW d, Covers(w, d) PROVE Covers(w, d)'
      <4>1. d \in Dumps /\ d.st = "other" => d.screen \in Int
        BY DumpValues, WaitsAssumption
      <4>2. d \in Dumps /\ d.st # "match" => d.st = "blank" \/ d.st = "other"
        BY DumpValues
      <4>3. \A b \in Int : Safe(w, b) => Safe(w, b)'
        BY <3>2 DEF Safe
      <4> QED
        BY <1>1, <3>1, <3>3, <4>1, <4>2, <4>3 DEF Covers, clientVars
    <3>4. last[w] <= screen => last[w] <= screen'
      BY <1>1, <1>2, <3>1
    <3> QED
      BY <1>1, <2>2, <3>1, <3>2, <3>3, <3>4 DEF ChangeOf, clientVars, Doomed
  <2>5. ChangeInv'
    BY <2>4, AllOf
  <2> QED
    BY <1>5, <2>2, <2>3, <2>5 DEF Inv
<1>7. CASE pushing # "on"
  <2>1. wire' = wire
    BY <1>7 DEF Settle, Push
  <2>2. TypeOK'
    BY <1>1, <1>3, <2>1 DEF TypeOK, clientVars
  <2>3. HearInv' /\ ToastInv' /\ HeldInv' /\ DownInv' /\ AnswerInv' /\ StreamInv'
    BY <1>1, <2>1, ClientKept, FramesKept
  <2>4. ASSUME NEW w \in Waiters PROVE ChangeOf(w)'
    BY <1>1, <1>7, NoStream DEF clientVars, Inv, ChangeInv, ChangeOf, Doomed
  <2>5. ChangeInv'
    BY <2>4, AllOf
  <2> QED
    BY <1>5, <2>2, <2>3, <2>5 DEF Inv
<1> QED
  BY <1>6, <1>7

(* The agent announces a toast.                                            *)
LEMMA RaiseToastStep ==
  ASSUME TypeOK, Inv, RaiseToast
  PROVE  TypeOK' /\ Inv'
<1>1. /\ UNCHANGED <<clientVars, pushing, draft, shown, dirty, screen>>
      /\ raised' \in 0..MaxToasts
  BY WaitsAssumption DEF RaiseToast, clientVars, waitVars, connVars, TypeOK
<1>2. CASE pushing = "on"
  <2>1. Send(Toast)
    BY <1>2 DEF RaiseToast, Push
  <2>2. /\ wire' \in Seq(Frames)
        /\ DownInv' /\ AnswerInv' /\ StreamInv' /\ HearInv' /\ ToastInv' /\ HeldInv'
        /\ \A k \in 1..Len(wire') : wire'[k] \in Replies =>
               k \in 1..Len(wire) /\ wire'[k] = wire[k]
        /\ \A b : HasNews(wire, b) => HasNews(wire', b)
    BY <1>1, <1>2, <2>1, Sentinels, PushStep
  <2>3. TypeOK' /\ DirtyInv'
    BY <1>1, <2>2 DEF TypeOK, clientVars, Frames, Inv, DirtyInv
  <2>4. ASSUME NEW w \in Waiters PROVE ChangeOf(w)'
    <3>1. ChangeOf(w)
      BY DEF Inv, ChangeInv
    <3>2. \A b : Safe(w, b) => Safe(w, b)'
      BY <1>1, <2>2 DEF Safe, Pending, clientVars
    <3>3. \A d : Covers(w, d) => Covers(w, d)'
      BY <1>1, <3>2 DEF Covers, clientVars
    <3> QED
      BY <1>1, <2>2, <3>1, <3>2, <3>3 DEF ChangeOf, clientVars, Doomed
  <2>5. ChangeInv'
    BY <2>4, AllOf
  <2> QED
    BY <2>2, <2>3, <2>5 DEF Inv
<1>3. CASE pushing # "on"
  <2>1. wire' = wire
    BY <1>3 DEF RaiseToast, Push
  <2>2. TypeOK'
    BY <1>1, <2>1 DEF TypeOK, clientVars
  <2> QED
    BY <1>1, <2>1, <2>2, KeepInv DEF clientVars
<1> QED
  BY <1>2, <1>3

(* An answer is sent.                                                      *)
LEMMA AnswerStep ==
  ASSUME TypeOK, Inv, NEW a \in Tasks, NEW d \in Answers,
         Send([of |-> a, answer |-> d]), link = "up",
         UNCHANGED <<clientVars, pushing, shown, dirty, screen, raised>>,
         draft' = draft \/ draft' = [draft EXCEPT ![a] = None],
         draft'[a] = None, ~ OnWire(a), reply[a] = None, pc[a] \notin {"idle", "wait"},
         d = Answer("enabled") => pushing = "on",
         a \in Waiters /\ pc[a] = "dump" /\ ~ Doomed(a) => Covers(a, d)
  PROVE  TypeOK' /\ Inv'
<1>1. PICK f \in Replies : f = [of |-> a, answer |-> d] /\ f.of = a /\ f.answer = d
  BY DEF Replies
<1>2. f \in Frames
  BY DEF Frames
<1>3. /\ wire' \in Seq(Frames) /\ Len(wire) \in Nat
      /\ Len(wire) + 1 \in 1..Len(wire') /\ wire'[Len(wire) + 1] = f
      /\ \A k \in 1..Len(wire) : k \in 1..Len(wire') /\ wire'[k] = wire[k]
      /\ \A k \in 1..Len(wire') : k \in 1..Len(wire) \/ k = Len(wire) + 1
      /\ \A k \in 1..Len(wire') :
            wire'[k] = f \/ (k \in 1..Len(wire) /\ wire'[k] = wire[k])
      /\ \A b : HasNews(wire, b) => HasNews(wire', b)
  BY <1>1, <1>2, SendIs
<1>4. /\ draft' \in [Tasks -> Dumps \cup {None}]
      /\ \A c \in Tasks : draft'[c] = IF c = a THEN None ELSE draft[c]
  BY DEF TypeOK
<1>5. TypeOK'
  BY <1>3, <1>4 DEF TypeOK, clientVars, Frames
<1>6. HearInv' /\ ToastInv' /\ HeldInv' /\ DirtyInv'
  BY ClientKept DEF Inv, DirtyInv
<1>7. DownInv' /\ StreamInv'
  <2>1. DownInv'
    BY DEF clientVars, DownInv
  <2>2. StreamInv'
    BY <1>1, <1>3 DEF clientVars, Inv, StreamInv
  <2> QED
    BY <2>1, <2>2
<1>8. AnswerInv'
  <2>1. \A c : OnWire(c)' => OnWire(c) \/ c = a
    BY <1>1, <1>3 DEF OnWire
  <2>2. ASSUME NEW i \in 1..Len(wire'), NEW j \in 1..Len(wire'), wire'[i] \in Replies,
               wire'[j] \in Replies, wire'[i].of = wire'[j].of
        PROVE  i = j
    <3>1. \A k \in 1..Len(wire) : wire[k] \in Replies => wire[k].of # a
      BY DEF OnWire
    <3>2. CASE i \in 1..Len(wire) /\ j \in 1..Len(wire)
      BY <1>3, <2>2, <3>2 DEF Inv, AnswerInv
    <3>3. CASE i = Len(wire) + 1 \/ j = Len(wire) + 1
      BY <1>1, <1>3, <2>2, <3>1, <3>3
    <3> QED
      BY <1>3, <3>2, <3>3
  <2>3. /\ \A c \in Tasks : draft'[c] # None => ~ OnWire(c)'
        /\ \A c \in Tasks : reply[c] # None \/ pc[c] \in {"idle", "wait"} =>
              draft'[c] = None /\ ~ OnWire(c)'
    BY <1>4, <2>1 DEF Inv, AnswerInv
  <2> QED
    BY <2>2, <2>3 DEF clientVars, Inv, AnswerInv
<1>9. ASSUME NEW w \in Waiters PROVE ChangeOf(w)'
  <2>1. ChangeOf(w) /\ w \in Tasks
    BY DEF Inv, ChangeInv, Tasks, Waits
  <2>2. \A b : Safe(w, b) => Safe(w, b)'
    BY <1>3 DEF Safe, Pending, clientVars
  <2>3. \A c : Covers(w, c) => Covers(w, c)'
    BY <2>2 DEF Covers, clientVars
  <2>4. pc[w] = "dump" /\ ~ Doomed(w) =>
           \A k \in 1..Len(wire') : wire'[k] \in Replies /\ wire'[k].of = w =>
              Covers(w, wire'[k].answer)
    BY <1>1, <1>3, <2>1 DEF ChangeOf
  <2>5. pc[w] = "dump" /\ ~ Doomed(w) /\ draft'[w] # None => Covers(w, draft'[w])
    BY <1>4, <2>1 DEF ChangeOf
  <2> QED
    BY <2>1, <2>2, <2>3, <2>4, <2>5 DEF ChangeOf, clientVars, Doomed
<1>10. ChangeInv'
  BY <1>9, AllOf
<1> QED
  BY <1>5, <1>6, <1>7, <1>8, <1>10 DEF Inv

(* The agent answers setEventStream.                                       *)
LEMMA ConfirmStep ==
  ASSUME TypeOK, Inv, NEW a \in Tasks, ConfirmStream(a)
  PROVE  TypeOK' /\ Inv'
<1>1. /\ UNCHANGED <<clientVars, pushing, shown, dirty, screen, raised, draft>>
      /\ Send([of |-> a, answer |-> Answer("enabled")])
      /\ pc[a] = "stream" /\ pushing = "on" /\ reply[a] = None /\ draft[a] = None
  BY DEF ConfirmStream, Unanswered, clientVars, waitVars, connVars
<1>2. ~ OnWire(a)
  BY DEF ConfirmStream, Unanswered, OnWire
<1>3. link = "up"
  BY <1>1 DEF Inv, DownInv
<1> QED
  BY <1>1, <1>2, <1>3, AnswerValues, AnswerStep

(* The agent sends the dump it has read.                                   *)
LEMMA SendDumpStep ==
  ASSUME TypeOK, Inv, NEW w \in Waiters, SendDump(w)
  PROVE  TypeOK' /\ Inv'
<1>1. /\ UNCHANGED <<clientVars, pushing, shown, dirty, screen, raised>>
      /\ Send([of |-> w, answer |-> draft[w]])
      /\ draft[w] # None /\ draft' = [draft EXCEPT ![w] = None] /\ w \in Tasks
  BY DEF SendDump, clientVars, waitVars, connVars, Tasks, Waits
<1>2. PICK d \in Dumps : d = draft[w]
  BY <1>1 DEF TypeOK
<1>3. d \in Answers /\ d # Answer("enabled") /\ draft'[w] = None
  BY <1>1, AnswerValues DEF TypeOK
<1>4. link = "up" /\ ~ OnWire(w) /\ reply[w] = None /\ pc[w] \notin {"idle", "wait"}
  BY <1>1 DEF Inv, DownInv, AnswerInv
<1>5. pc[w] = "dump" /\ ~ Doomed(w) => Covers(w, d)
  BY <1>1, <1>2 DEF Inv, ChangeInv, ChangeOf
<1> QED
  BY <1>1, <1>2, <1>3, <1>4, <1>5, AnswerStep
-----------------------------------------------------------------------------
(* The invariant.                                                          *)

(* No wait has begun, and nothing is on the wire.                          *)
LEMMA InitInductive == Init => IInv
<1> SUFFICES ASSUME Init PROVE IInv
  OBVIOUS
<1>1. /\ pc = [a \in Tasks |-> "idle"] /\ queue = [a \in Tasks |-> <<>>]
      /\ last = [w \in Waiters |-> -1] /\ reply = [a \in Tasks |-> None]
      /\ since = [t \in Toasters |-> FALSE] /\ draft = [a \in Tasks |-> None]
      /\ link = "up" /\ enabled = FALSE /\ buffered = FALSE /\ shown = "other"
      /\ dirty = FALSE /\ screen = 0 /\ pushing = "off" /\ wire = <<>> /\ raised = 0
  BY DEF Init
<1>2. TypeOK
  <2>1. /\ wire \in Seq(Events \cup Replies)
        /\ queue \in [Tasks -> Seq(Events)]
    BY <1>1, EmptySeq
  <2>2. last \in [Waiters -> -1..MaxScreen] /\ screen \in 0..MaxScreen
        /\ raised \in 0..MaxToasts
    BY <1>1, WaitsAssumption
  <2> QED
    BY <1>1, <2>1, <2>2 DEF TypeOK, Contents
<1>3. \A k \in 1..Len(wire) : FALSE
  BY <1>1
<1>4. Stream \in Tasks /\ Waiters \subseteq Tasks
  BY DEF Tasks, Waits
<1>5. DirtyInv /\ DownInv /\ AnswerInv /\ StreamInv
  BY <1>1, <1>3, <1>4, AnswerValues, NoneAssumption
  DEF DirtyInv, DownInv, AnswerInv, StreamInv, OnWire
<1>6. HearInv /\ ChangeInv /\ ToastInv /\ HeldInv
  BY <1>1, <1>4 DEF HearInv, ChangeInv, ChangeOf, ToastInv, HeldInv, Tasks, Waits
<1> QED
  BY <1>2, <1>5, <1>6 DEF IInv, Inv

(* The steps of the client keep the invariant.                             *)
LEMMA ClientStep == TypeOK /\ Inv /\ Client => TypeOK' /\ Inv'
<1> SUFFICES ASSUME TypeOK, Inv, Client PROVE TypeOK' /\ Inv'
  OBVIOUS
<1>1. CASE \E w \in Waiters : Start(w) \/ StreamReady(w) \/ DumpReady(w) \/ Consume(w)
  BY <1>1, UntilStep
<1>2. CASE \E t \in Toasters : StartToast(t) \/ ToastStreamReady(t) \/ ConsumeToast(t)
  BY <1>2, ToastStep
<1>3. CASE \/ \E a \in Tasks : CallFails(a) \/ SendEnds(a) \/ Abandon(a)
           \/ OpenStream \/ StreamOpened
  BY <1>3, CallStep
<1>4. CASE Deliver
  BY <1>4, DeliverInv
<1>5. CASE Age
  <2>1. /\ UNCHANGED <<pc, queue, last, reply, since, link, enabled>>
        /\ UNCHANGED <<shown, dirty, screen, pushing, draft, wire>>
        /\ buffered' = FALSE /\ raised' = raised
    BY <1>5 DEF Age, waitVars, agentVars
  <2>2. TypeOK'
    BY <2>1 DEF TypeOK
  <2> QED
    BY <2>1, <2>2, KeepInv
<1>6. CASE Drop \/ Close \/ OpenFails
  <2>1. Disconnect /\ link' \in {"down", "closed"}
    BY <1>6 DEF Drop, Close, OpenFails
  <2> QED
    BY <2>1, DisconnectInv
<1>7. CASE Reopen
  BY <1>7, ReopenInv
<1> QED
  BY <1>1, <1>2, <1>3, <1>4, <1>5, <1>6, <1>7 DEF Client

(* The steps of the agent keep the invariant.                              *)
LEMMA AgentStep == TypeOK /\ Inv /\ Agent => TypeOK' /\ Inv'
  BY ChangeStep, SettleStep, RaiseToastStep, TurnOnStep, RestartStep, ConfirmStep,
     TakeDumpStep, SendDumpStep DEF Agent

(* Every action keeps the invariant.                                       *)
LEMMA StepInductive == IInv /\ [Next]_vars => IInv'
<1> SUFFICES ASSUME TypeOK, Inv, [Next]_vars PROVE TypeOK' /\ Inv'
  BY DEF IInv
<1>1. CASE Next
  BY <1>1, ClientStep, AgentStep DEF Next
<1>2. CASE UNCHANGED vars
  <2>1. /\ UNCHANGED <<pc, queue, last, reply, since, link, enabled>>
        /\ UNCHANGED <<shown, dirty, screen, pushing, draft, wire>>
        /\ buffered' = buffered /\ raised' = raised
    BY <1>2 DEF vars, waitVars, connVars, agentVars
  <2>2. TypeOK'
    BY <2>1 DEF TypeOK
  <2> QED
    BY <2>1, <2>2, KeepInv
<1> QED
  BY <1>1, <1>2

(* Hence it always holds.                                                  *)
LEMMA InductiveHolds == Spec => []IInv
  BY InitInductive, StepInductive, PTL DEF Spec
-----------------------------------------------------------------------------
(* The theorems.                                                           *)

(* Every variable keeps its type: queues hold events, dumps carry screen   *)
(* numbers the agent has had, an answer is one the agent can give.         *)
THEOREM TypeCorrect == Spec => []TypeOK
  BY InductiveHolds, PTL DEF IInv

(* A wait_until that sleeps while nothing is on its way does not sleep on  *)
(* the screen it looks for: subscribe-before-dump, the baseline taken from *)
(* the dump and the re-dump on newer events lose no change.                *)
THEOREM NoMissedChangeHolds == Spec => []NoMissedChange
<1>1. IInv => NoMissedChange
  <2> SUFFICES ASSUME IInv, NEW w \in Waiters, Blocked(w), wire = <<>>, ~ dirty,
                      shown = "match"
               PROVE  FALSE
    BY DEF NoMissedChange
  <2>1. pc[w] = "wait" /\ queue[w] = <<>>
    BY DEF Blocked
  <2>2. ~ Doomed(w)
    BY <2>1 DEF Doomed, HasClosed
  <2>3. Pending(w, last[w])
    BY <2>1, <2>2 DEF IInv, Inv, ChangeInv, ChangeOf, Safe
  <2> QED
    BY <2>1, <2>3 DEF Pending, HasNews
<1> QED
  BY <1>1, InductiveHolds, PTL

(* Whoever sleeps in wait_until has an open link with the stream enabled   *)
(* behind it, in every order of drops, reconnects and wake-ups.            *)
THEOREM StreamBehindWaitHolds == Spec => []StreamBehindWait
<1>1. IInv => StreamBehindWait
  BY DEF IInv, Inv, HearInv, StreamBehindWait, Blocked, Doomed, HasClosed
<1> QED
  BY <1>1, InductiveHolds, PTL

(* A toast read after wait_toast began keeps it from sleeping.             *)
THEOREM NoMissedToastHolds == Spec => []NoMissedToast
<1>1. IInv => NoMissedToast
  BY DEF IInv, Inv, ToastInv, NoMissedToast, Blocked, HasToast
<1> QED
  BY <1>1, InductiveHolds, PTL

-----------------------------------------------------------------------------
(* The refinement of Link.                                                 *)

(* The link is up at first, nobody calls and nobody is asleep.             *)
LEMMA InitRefines == Init => Contract!Init
  BY DEF Init, Contract!Init, Unsettled, Awaiting, Held, Blocked, Tasks, Waits

(* While the link stays as it is, Link lets callers and sleepers do this.  *)
LEMMA UseRefines ==
  ASSUME IInv', UNCHANGED link, enabled => enabled'
  PROVE  Contract!Next
<1>1. link' = "closed" => \A a \in Waits : ~ Blocked(a)'
  BY WaitsAssumption
  DEF IInv, Inv, HearInv, Blocked, Running, Awaiting, Doomed, HasClosed, Waits, Tasks
<1> QED
  BY <1>1 DEF Contract!Next, Contract!Use

(* The sentinel wakes every wait and cancel_all settles every call.        *)
LEMMA DisconnectRefines ==
  ASSUME TypeOK, Disconnect
  PROVE  Contract!ReleaseAll
<1>1. {a \in Tasks : Unsettled(a)}' = {}
  BY AnswerValues, NoneAssumption DEF Disconnect, Unsettled, Awaiting, Held
<1>2. ASSUME NEW a \in Waits PROVE ~ Blocked(a)'
  <2>1. a \in Tasks /\ a # Stream
    BY WaitsAssumption DEF Tasks, Waits
  <2>2. Running(a) => queue'[a] # <<>>
    BY <2>1, Sentinels, EmitIs DEF Disconnect
  <2> QED
    BY <2>1, <2>2 DEF Disconnect, Blocked, Running
<1>3. {a \in Waits : Blocked(a)}' = {}
  BY <1>2
<1> QED
  BY <1>1, <1>3 DEF Contract!ReleaseAll, Disconnect

(* A reconnect clears the flag and leaves calls and sleepers as they are.  *)
LEMMA ReopenRefines ==
  ASSUME TypeOK, Inv, Reopen
  PROVE  Contract!Reopen
<1>1. /\ link = "down" /\ link' = "up" /\ enabled' = FALSE /\ UNCHANGED <<queue, reply>>
      /\ pc' = [pc EXCEPT ![Stream] = "idle"] /\ Stream \in Tasks /\ Stream \notin Waits
  BY WaitsAssumption DEF Reopen, Tasks, Waits
<1>2. pc[Stream] \notin {"stream", "dump", "mute", "stuck"}
  BY <1>1, NobodyLeft DEF Reopen, Inv, AnswerInv
<1>3. /\ pc'[Stream] = "idle"
      /\ \A a \in Tasks : a # Stream => pc'[a] = pc[a]
      /\ Waits \subseteq Tasks
  BY <1>1 DEF TypeOK, Tasks
<1>4. {a \in Tasks : Unsettled(a)}' = {a \in Tasks : Unsettled(a)}
  BY <1>1, <1>2, <1>3 DEF Unsettled, Awaiting, Held
<1>5. {a \in Waits : Blocked(a)}' = {a \in Waits : Blocked(a)}
  BY <1>1, <1>3 DEF Blocked
<1> QED
  BY <1>1, <1>4, <1>5 DEF Contract!Reopen

(* Every step is one of Link, or none to its users.                        *)
LEMMA StepRefines == IInv /\ IInv' /\ [Next]_vars => [Contract!Next]_Contract!vars
<1> SUFFICES ASSUME IInv, IInv', [Next]_vars PROVE [Contract!Next]_Contract!vars
  OBVIOUS
<1> USE DEF IInv
<1>1. CASE UNCHANGED link /\ (enabled => enabled')
  BY <1>1, UseRefines
<1>2. CASE Drop \/ Close \/ OpenFails
  <2>1. Contract!ReleaseAll
    BY <1>2, DisconnectRefines DEF Drop, Close, OpenFails
  <2> QED
    BY <1>2, <2>1 DEF Drop, Close, OpenFails, Contract!Next, Contract!Drop,
       Contract!Close, Contract!Interrupt
<1>3. CASE Reopen
  BY <1>3, ReopenRefines DEF Contract!Next
<1>4. UNCHANGED vars => UNCHANGED link /\ (enabled => enabled')
  BY DEF vars, connVars
<1>5. Agent => UNCHANGED link /\ (enabled => enabled')
  <2>1. Agent => UNCHANGED connVars
    BY DEF Agent, Change, Settle, RaiseToast, TurnOn, Restart, ConfirmStream, TakeDump,
       SendDump
  <2> QED
    BY <2>1 DEF connVars
<1>6. Client => \/ UNCHANGED link /\ (enabled => enabled')
                \/ Drop \/ Close \/ Reopen \/ OpenFails
  BY DEF Client, Start, StartToast, StreamReady, DumpReady, Consume, ToastStreamReady,
     ConsumeToast, CallFails, SendEnds, Abandon, OpenStream, StreamOpened, Deliver, Age, connVars
<1> QED
  BY <1>1, <1>2, <1>3, <1>4, <1>5, <1>6 DEF Next

(* The waits use the connection as Link allows: a drop, a failed attempt   *)
(* and a close settle every call and leave nobody on an empty queue, and   *)
(* on a closed bus nobody gets to sleep.                                   *)
THEOREM WaitsImplementLink == Spec => ImplementsLink
  BY InductiveHolds, InitRefines, StepRefines, PTL DEF Spec, ImplementsLink, Contract!Spec
=============================================================================
