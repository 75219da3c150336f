---------------------------- MODULE DeviceProofs ----------------------------
(***************************************************************************)
(* What Device promises for any node actions, readers, packages, attempts  *)
(* and screen numbers: an action is performed at most once and its caller  *)
(* is told right, and the screen state never goes back to older news.      *)
(***************************************************************************)
EXTENDS Device, TreeProofs, SequenceTheorems, TLAPS

(* Only the last call of a node action can have been performed: those      *)
(* before it were answered STALE, or there would have been no other.       *)
LastCall(a) ==
    /\ acts[a] = IF tries[a] # 0 /\ job[a][tries[a]] = "ok" THEN 1 ELSE 0
    /\ \A k \in 1..Attempts : /\ k < tries[a] => job[a][k] = "stale"
                              /\ k > tries[a] => job[a][k] = "none"

(* What the caller has been told is what the agent made of that call.      *)
Told(a) ==
    /\ pc[a] \in {"idle", "refused"} <=> tries[a] = 0
    /\ pc[a] \in {"ok", "stale", "error"} => job[a][tries[a]] = pc[a]
    /\ pc[a] = "asleep" => tries[a] < Attempts /\ job[a][tries[a]] = "stale"

ActInv == \A a \in Actors : LastCall(a) /\ Told(a)

(* An observation of this life of the agent is not from the future, and    *)
(* one that has the present number shows the present package.              *)
Sound(o) ==
    /\ o.screen <= screen
    /\ o.screen = screen /\ ~ dirty => o.package = package

(* A reader whose dump was answered holds the answer.                      *)
AnswerInv == \A r \in Readers : query[r] = "answered" => answer[r] \in Observation

(* Whatever may still reach ScreenState is sound.                          *)
NewsSound ==
    ~ restarted =>
        /\ \A k \in 1..Len(wire) : Sound(wire[k].at)
        /\ \A r \in Readers : draft[r] # None => Sound(draft[r])
        /\ \A r \in Readers : query[r] = "answered" => Sound(answer[r])

(* So is what ScreenState has; but a package may be left over from an      *)
(* earlier screen when the present one has none to tell.                   *)
SeenSound ==
    ~ restarted =>
        /\ seen.screen <= screen
        /\ seen.screen = screen /\ ~ dirty /\ package # None =>
              seen.package = package
        /\ informed => seen.screen = screen

(* A change that has not settled is not known yet, and has room to settle. *)
DirtyInv == dirty => ~ informed /\ screen < MaxScreen

ScreenInv == AnswerInv /\ NewsSound /\ SeenSound /\ DirtyInv

IInv == TypeOK /\ ActInv /\ ScreenInv

-----------------------------------------------------------------------------
(* Node actions.                                                           *)

Outcomes == {"none", "queued", "found", "ok", "stale", "error"}

ActTypes ==
    /\ pc \in [Actors -> {"idle", "asked", "asleep", "refused", "ok", "stale",
                          "error", "lost"}]
    /\ tries \in [Actors -> 0..Attempts]
    /\ job \in [Actors -> [1..Attempts -> Outcomes]]
    /\ acts \in [Actors -> 0..Attempts]

(* Setting what the agent makes of one call of one action leaves the rest. *)
LEMMA JobSet ==
  ASSUME job \in [Actors -> [1..Attempts -> Outcomes]],
         NEW a \in Actors, NEW k \in 1..Attempts, NEW j \in Outcomes,
         job' = [job EXCEPT ![a][k] = j]
  PROVE  /\ job' \in [Actors -> [1..Attempts -> Outcomes]]
         /\ \A b \in Actors, i \in 1..Attempts :
               job'[b][i] = IF b = a /\ i = k THEN j ELSE job[b][i]
<1>1. [job[a] EXCEPT ![k] = j] \in [1..Attempts -> Outcomes]
  OBVIOUS
<1>2. job' = [job EXCEPT ![a] = [job[a] EXCEPT ![k] = j]]
  OBVIOUS
<1> QED
  BY <1>1, <1>2

(* The next call goes out after the last one was answered STALE, or as the *)
(* first.                                                                  *)
LEMMA CallInv ==
  ASSUME ActTypes, ActInv, NEW a \in Actors, pc[a] \in {"idle", "asleep"}, Call(a),
         UNCHANGED acts
  PROVE  ActTypes' /\ ActInv'
<1>1. PICK n \in 1..Attempts : n = tries[a] + 1
  BY DeviceAssumption DEF ActTypes, ActInv, Told
<1>2. tries[a] # 0 => job[a][tries[a]] = "stale"
  BY DEF ActInv, Told, ActTypes
<1>3. PICK j \in {"none", "queued"} :
          /\ job' \in [Actors -> [1..Attempts -> Outcomes]]
          /\ \A b \in Actors, i \in 1..Attempts :
                job'[b][i] = IF b = a /\ i = n THEN j ELSE job[b][i]
  <2>1. job \in [Actors -> [1..Attempts -> Outcomes]]
    BY DEF ActTypes
  <2>2. CASE job' = [job EXCEPT ![a][n] = "queued"]
    <3>1. "queued" \in Outcomes
      BY DEF Outcomes
    <3>2. \A b \in Actors, i \in 1..Attempts :
              job'[b][i] = IF b = a /\ i = n THEN "queued" ELSE job[b][i]
      BY <2>1, <2>2, <3>1, JobSet
    <3>3. job' \in [Actors -> [1..Attempts -> Outcomes]]
      BY <2>1, <2>2, <3>1, JobSet
    <3> QED
      BY <3>2, <3>3
  <2>3. CASE job' = job
    <3>1. job[a][n] = "none"
      BY <1>1 DEF ActTypes, ActInv, LastCall
    <3> QED
      BY <2>1, <2>3, <3>1
  <2> QED
    BY <1>1, <2>2, <2>3 DEF Call
<1>4. /\ pc' = [pc EXCEPT ![a] = pc'[a]] /\ pc'[a] \in {"asked", "lost"}
      /\ tries' = [tries EXCEPT ![a] = n]
  BY <1>1 DEF Call, ActTypes
<1>5. ActTypes'
  BY <1>3, <1>4 DEF ActTypes
<1>6. ASSUME NEW b \in Actors, b # a PROVE LastCall(b)' /\ Told(b)'
  BY <1>3, <1>4, <1>6 DEF ActTypes, ActInv, LastCall, Told
<1>7. LastCall(a)'
  <2>1. acts'[a] = 0 /\ tries'[a] = n /\ job'[a][n] = j
    BY <1>2, <1>3, <1>4 DEF ActTypes, ActInv, LastCall
  <2>2. ASSUME NEW k \in 1..Attempts, k < n PROVE job'[a][k] = "stale"
    BY <1>1, <1>2, <1>3, <2>2 DEF ActTypes, ActInv, LastCall
  <2>3. ASSUME NEW k \in 1..Attempts, k > n PROVE job'[a][k] = "none"
    BY <1>1, <1>3, <2>3 DEF ActTypes, ActInv, LastCall
  <2> QED
    BY <2>1, <2>2, <2>3 DEF LastCall
<1>8. Told(a)'
  BY <1>4 DEF Told, ActTypes
<1> QED
  BY <1>5, <1>6, <1>7, <1>8 DEF ActInv

(* The agent is only ever at work on the last call.                        *)
LEMMA AgentInv ==
  ASSUME ActTypes, ActInv, NEW a \in Actors, NEW k \in 1..Attempts,
         AgentFinds(a, k) \/ AgentPerforms(a, k)
  PROVE  ActTypes' /\ ActInv'
<1>1. job[a][k] \in {"queued", "found"} /\ UNCHANGED <<pc, tries>>
  BY DEF AgentFinds, AgentPerforms
<1>2. k = tries[a] /\ acts[a] = 0 /\ pc[a] \in {"asked", "lost"}
  <2>1. LastCall(a) /\ Told(a) /\ tries[a] \in 0..Attempts
    BY DEF ActTypes, ActInv
  <2>2. k = tries[a]
    BY <1>1, <2>1 DEF LastCall
  <2>3. acts[a] = 0
    BY <1>1, <2>1, <2>2 DEF LastCall
  <2>4. pc[a] \in {"asked", "lost"}
    BY <1>1, <2>1, <2>2 DEF Told, ActTypes
  <2> QED
    BY <2>2, <2>3, <2>4
<1>3. PICK j \in {"found", "error", "ok", "stale"} :
          /\ job' = [job EXCEPT ![a][k] = j]
          /\ acts' = [acts EXCEPT ![a] = IF j = "ok" THEN @ + 1 ELSE @]
  BY DEF AgentFinds, AgentPerforms, ActTypes
<1>4. ActTypes'
  BY <1>1, <1>2, <1>3, JobSet, DeviceAssumption DEF ActTypes, Outcomes
<1>5. ASSUME NEW b \in Actors PROVE LastCall(b)' /\ Told(b)'
  <2>1. \A c \in Actors, i \in 1..Attempts :
            job'[c][i] = IF c = a /\ i = k THEN j ELSE job[c][i]
    <3>1. j \in Outcomes /\ job \in [Actors -> [1..Attempts -> Outcomes]]
      BY DEF ActTypes, Outcomes
    <3> QED
      BY <1>3, <3>1, JobSet
  <2>2. CASE b = a
    BY <1>1, <1>2, <1>3, <2>1, <2>2 DEF ActTypes, ActInv, LastCall, Told
  <2>3. CASE b # a
    BY <1>1, <1>3, <2>1, <2>3 DEF ActTypes, ActInv, LastCall, Told
  <2> QED
    BY <2>2, <2>3
<1> QED
  BY <1>4, <1>5 DEF ActInv

(* Every action keeps what was performed in step with what is told.        *)
LEMMA ActNext == ActTypes /\ ActInv /\ [Next]_vars => ActTypes' /\ ActInv'
<1> SUFFICES ASSUME ActTypes, ActInv, [Next]_vars PROVE ActTypes' /\ ActInv'
  OBVIOUS
<1>1. ASSUME NEW a \in Actors, Act(a) PROVE ActTypes' /\ ActInv'
  <2>1. CASE Call(a)
    BY <1>1, <2>1, CallInv DEF Act
  <2>2. CASE pc' = [pc EXCEPT ![a] = "refused"] /\ UNCHANGED <<tries, job>>
    BY <1>1, <2>2 DEF Act, ActTypes, ActInv, LastCall, Told
  <2> QED
    BY <1>1, <2>1, <2>2 DEF Act
<1>2. ASSUME NEW a \in Actors, Answered(a) PROVE ActTypes' /\ ActInv'
  BY <1>2 DEF Answered, ActTypes, ActInv, LastCall, Told
<1>3. ASSUME NEW a \in Actors, Retry(a) PROVE ActTypes' /\ ActInv'
  BY <1>3, CallInv DEF Retry
<1>4. ASSUME NEW a \in Actors, GiveUp(a) PROVE ActTypes' /\ ActInv'
  BY <1>4 DEF GiveUp, ActTypes, ActInv, LastCall, Told
<1>5. CASE Screens
  <2>1. UNCHANGED actVars
    BY <1>5 DEF Screens, AskDump, AgentReads, AgentSends, DumpReturns, DumpFails, Deliver
  <2> QED
    BY <2>1 DEF actVars, ActTypes, ActInv, LastCall, Told
<1>6. CASE Drop
  BY <1>6 DEF Drop, ActTypes, ActInv, LastCall, Told
<1>7. CASE Restart
  <2>1. /\ job' \in [Actors -> [1..Attempts -> Outcomes]]
        /\ \A a \in Actors, k \in 1..Attempts :
              job'[a][k] = IF job[a][k] \in {"queued", "found"} THEN "none" ELSE job[a][k]
    BY <1>7 DEF Restart, ActTypes, Outcomes
  <2> QED
    BY <1>7, <2>1 DEF Restart, ActTypes, ActInv, LastCall, Told
<1>8. CASE Reopen \/ StreamOn \/ Change \/ Settle \/ UNCHANGED vars
  BY <1>8 DEF Reopen, StreamOn, Change, Settle, vars, actVars, ActTypes, ActInv, LastCall,
              Told
<1> QED
  BY <1>1, <1>2, <1>3, <1>4, <1>5, <1>6, <1>7, <1>8, AgentInv DEF Next, Actions, World
-----------------------------------------------------------------------------
(* The screen state.                                                       *)

Frames == [of : Readers \cup {"event"}, at : Observation]

ScreenTypes ==
    /\ query \in [Readers -> {"idle", "asked", "answered"}]
    /\ draft \in [Readers -> {None} \cup Observation]
    /\ answer \in [Readers -> {None} \cup Observation]
    /\ seen \in Observation
    /\ wire \in Seq(Frames)
    /\ screen \in 0..MaxScreen /\ package \in Packages \cup {None}
    /\ link \in BOOLEAN /\ pushing \in BOOLEAN /\ dirty \in BOOLEAN
    /\ informed \in BOOLEAN /\ restarted \in BOOLEAN

(* Taking one frame out of a sequence leaves frames that were in it.       *)
LEMMA RemoveAtKeeps ==
  ASSUME NEW S, NEW s \in Seq(S), NEW k \in 1..Len(s)
  PROVE  /\ RemoveAt(s, k) \in Seq(S)
         /\ \A j \in 1..Len(RemoveAt(s, k)) :
               \E i \in 1..Len(s) : RemoveAt(s, k)[j] = s[i]
<1> DEFINE p == SubSeq(s, 1, k - 1)
           q == SubSeq(s, k + 1, Len(s))
<1>1. Len(s) \in Nat /\ \A i \in 1..Len(s) : s[i] \in S
  OBVIOUS
<1>2. p \in Seq(S) /\ Len(p) = k - 1 /\ \A i \in 1..k - 1 : p[i] = s[i]
  BY <1>1, SubSeqProperties
<1>3. q \in Seq(S) /\ Len(q) = Len(s) - k /\ \A i \in 1..Len(s) - k : q[i] = s[k + i]
  BY <1>1, SubSeqProperties
<1>4. RemoveAt(s, k) = p \o q
  BY DEF RemoveAt
<1> HIDE DEF p, q
<1>5. /\ p \o q \in Seq(S)
      /\ Len(p \o q) = Len(s) - 1
      /\ \A j \in 1..Len(s) - 1 : (p \o q)[j] = IF j <= k - 1 THEN p[j] ELSE q[j - (k - 1)]
  BY <1>1, <1>2, <1>3, ConcatProperties
<1>6. ASSUME NEW j \in 1..Len(s) - 1
      PROVE  \E i \in 1..Len(s) : (p \o q)[j] = s[i]
  <2>1. CASE j <= k - 1
    BY <1>1, <1>2, <1>5, <2>1
  <2>2. CASE j > k - 1
    <3>1. j - (k - 1) \in 1..Len(s) - k /\ k + (j - (k - 1)) = j + 1
      BY <1>1, <2>2
    <3>2. (p \o q)[j] = q[j - (k - 1)]
      BY <1>1, <1>5, <2>2
    <3>3. q[j - (k - 1)] = s[j + 1]
      BY <1>3, <3>1
    <3>4. j + 1 \in 1..Len(s)
      BY <1>1
    <3> QED
      BY <3>2, <3>3, <3>4
  <2>3. j <= k - 1 \/ j > k - 1
    OBVIOUS
  <2> QED
    BY <2>1, <2>2, <2>3
<1> QED
  BY <1>4, <1>5, <1>6

(* ScreenState learns something sound: a lower number it does not take, an *)
(* equal one tells it what it would know already.                          *)
LEMMA LearnSound ==
  ASSUME ScreenTypes, SeenSound, DirtyInv, NEW o \in Observation,
         ~ restarted => Sound(o), Learn(o),
         UNCHANGED <<screen, package, dirty, restarted>>
  PROVE  seen' \in Observation /\ informed' \in BOOLEAN /\ SeenSound' /\ DirtyInv'
<1>1. /\ seen' = IF o.screen < seen.screen THEN seen
                 ELSE IF o.package = None THEN [seen EXCEPT !.screen = o.screen] ELSE o
      /\ informed' <=> informed \/ (~ dirty /\ o = Now)
      /\ informed' \in BOOLEAN
  BY DEF Learn, Observe, ScreenTypes
<1>2. o.screen \in Int /\ seen.screen \in Int /\ screen \in Int
  BY DEF ScreenTypes, Observation
<1>3. seen' \in Observation /\ seen'.screen = IF o.screen < seen.screen THEN seen.screen
                                             ELSE o.screen
  BY <1>1, <1>2 DEF ScreenTypes, Observation
<1>4. SeenSound'
  <2> SUFFICES ASSUME ~ restarted
               PROVE  /\ seen'.screen <= screen
                      /\ seen'.screen = screen /\ ~ dirty /\ package # None =>
                            seen'.package = package
                      /\ informed' => seen'.screen = screen
    BY DEF SeenSound
  <2>1. seen'.screen <= screen
    BY <1>2, <1>3 DEF SeenSound, Sound
  <2>2. ASSUME seen'.screen = screen, ~ dirty, package # None PROVE seen'.package = package
    BY <1>1, <1>2, <1>3, <2>2 DEF SeenSound, Sound, ScreenTypes, Observation
  <2>3. ASSUME informed' PROVE seen'.screen = screen
    <3>1. CASE informed
      BY <1>2, <1>3, <3>1, <2>1 DEF SeenSound
    <3>2. CASE o = Now
      BY <1>2, <1>3, <3>2, <2>1 DEF Now, SeenSound
    <3> QED
      BY <1>1, <2>3, <3>1, <3>2
  <2> QED
    BY <2>1, <2>2, <2>3
<1>5. DirtyInv'
  BY <1>1 DEF DirtyInv
<1> QED
  BY <1>1, <1>3, <1>4, <1>5

(* A step that leaves ScreenState and the agent alone and moves frames     *)
(* about, none of them from anywhere else.                                 *)
LEMMA MovesSound ==
  ASSUME ScreenTypes, ScreenInv, ScreenTypes', AnswerInv',
         UNCHANGED <<seen, informed, screen, package, dirty, restarted>>,
         ~ restarted =>
            /\ \A k \in 1..Len(wire') : Sound(wire'[k].at)
            /\ \A r \in Readers : draft'[r] # None => Sound(draft'[r])
            /\ \A r \in Readers : query'[r] = "answered" => Sound(answer'[r])
  PROVE  ScreenInv'
  BY DEF ScreenInv, NewsSound, SeenSound, DirtyInv, Sound

(* The steps of readers and reader task, one lemma each above.             *)
LEMMA ScreensInv ==
  ASSUME ScreenTypes, ScreenInv, Screens
  PROVE  ScreenTypes' /\ ScreenInv'
<1>1. ASSUME NEW r \in Readers, AskDump(r) PROVE ScreenTypes' /\ ScreenInv'
  <2>1. ScreenTypes' /\ AnswerInv'
    BY <1>1 DEF AskDump, ScreenTypes, ScreenInv, AnswerInv, agentVars
  <2> QED
    BY <1>1, <2>1, MovesSound DEF AskDump, ScreenTypes, ScreenInv, NewsSound, agentVars
<1>2. ASSUME NEW r \in Readers, AgentReads(r) PROVE ScreenTypes' /\ ScreenInv'
  <2>1. Now \in Observation /\ Sound(Now)
    BY DEF Now, Observation, Sound, ScreenTypes
  <2>2. ScreenTypes' /\ AnswerInv'
    BY <1>2, <2>1 DEF AgentReads, ScreenTypes, ScreenInv, AnswerInv, agentVars
  <2> QED
    BY <1>2, <2>1, <2>2, MovesSound
    DEF AgentReads, ScreenTypes, ScreenInv, NewsSound, agentVars
<1>3. ASSUME NEW r \in Readers, AgentSends(r) PROVE ScreenTypes' /\ ScreenInv'
  <2>1. draft[r] \in Observation /\ Frame(r, draft[r]) \in Frames
    BY <1>3 DEF AgentSends, ScreenTypes, Frame, Frames
  <2>2. /\ wire' \in Seq(Frames)
        /\ \A k \in 1..Len(wire') : \/ k \in 1..Len(wire) /\ wire'[k] = wire[k]
                                    \/ wire'[k] = Frame(r, draft[r])
    BY <1>3, <2>1, AppendProperties DEF AgentSends, ScreenTypes
  <2>3. ScreenTypes' /\ AnswerInv'
    BY <1>3, <2>2 DEF AgentSends, ScreenTypes, ScreenInv, AnswerInv, agentVars
  <2> QED
    BY <1>3, <2>1, <2>2, <2>3, MovesSound
    DEF AgentSends, ScreenTypes, ScreenInv, NewsSound, agentVars, Frame
<1>4. ASSUME NEW r \in Readers, DumpFails(r) PROVE ScreenTypes' /\ ScreenInv'
  <2>1. /\ wire' \in Seq(Frames)
        /\ \A j \in 1..Len(wire') : \E i \in 1..Len(wire) : wire'[j] = wire[i]
    <3>1. wire \in Seq(Frames) /\ DOMAIN wire = 1..Len(wire)
      BY DEF ScreenTypes
    <3>2. CASE UNCHANGED wire
      BY <3>1, <3>2
    <3>3. ASSUME NEW k \in 1..Len(wire), wire' = RemoveAt(wire, k)
          PROVE  /\ wire' \in Seq(Frames)
                 /\ \A j \in 1..Len(wire') : \E i \in 1..Len(wire) : wire'[j] = wire[i]
      BY <3>1, <3>3, RemoveAtKeeps
    <3> QED
      BY <1>4, <3>1, <3>2, <3>3 DEF DumpFails
  <2>2. ScreenTypes' /\ AnswerInv'
    BY <1>4, <2>1 DEF DumpFails, ScreenTypes, ScreenInv, AnswerInv, agentVars
  <2> QED
    BY <1>4, <2>1, <2>2, MovesSound
    DEF DumpFails, ScreenTypes, ScreenInv, NewsSound, agentVars
<1>5. ASSUME NEW r \in Readers, DumpReturns(r) PROVE ScreenTypes' /\ ScreenInv'
  <2>1. answer[r] \in Observation /\ (~ restarted => Sound(answer[r]))
    BY <1>5 DEF DumpReturns, ScreenInv, AnswerInv, NewsSound
  <2>2. seen' \in Observation /\ informed' \in BOOLEAN /\ SeenSound' /\ DirtyInv'
    BY <1>5, <2>1, LearnSound DEF DumpReturns, ScreenInv, agentVars
  <2>3. ScreenTypes' /\ AnswerInv'
    BY <1>5, <2>2 DEF DumpReturns, ScreenTypes, ScreenInv, AnswerInv, agentVars
  <2>4. NewsSound'
    BY <1>5 DEF DumpReturns, ScreenTypes, ScreenInv, NewsSound, Sound, agentVars
  <2> QED
    BY <2>2, <2>3, <2>4 DEF ScreenInv
<1>6. CASE Deliver
  <2>1. /\ Head(wire) \in Frames /\ Head(wire) = wire[1] /\ 1 \in 1..Len(wire)
        /\ Tail(wire) \in Seq(Frames)
        /\ \A k \in 1..Len(Tail(wire)) : k + 1 \in 1..Len(wire) /\ Tail(wire)[k] = wire[k + 1]
    BY <1>6, HeadTailProperties DEF Deliver, ScreenTypes
  <2>2. Head(wire).at \in Observation /\ (~ restarted => Sound(Head(wire).at))
    BY <2>1 DEF Frames, ScreenInv, NewsSound
  <2>3. CASE Head(wire).of = "event"
    <3>1. seen' \in Observation /\ informed' \in BOOLEAN /\ SeenSound' /\ DirtyInv'
      BY <1>6, <2>2, <2>3, LearnSound DEF Deliver, ScreenInv, agentVars
    <3>2. ScreenTypes' /\ AnswerInv'
      BY <1>6, <2>1, <2>3, <3>1 DEF Deliver, ScreenTypes, ScreenInv, AnswerInv, agentVars
    <3>3. NewsSound'
      BY <1>6, <2>1, <2>3 DEF Deliver, ScreenInv, NewsSound, Sound, agentVars
    <3> QED
      BY <3>1, <3>2, <3>3 DEF ScreenInv
  <2>4. CASE Head(wire).of # "event"
    <3>1. Head(wire).of \in Readers
      BY <2>1, <2>4 DEF Frames
    <3>2. ScreenTypes' /\ AnswerInv'
      BY <1>6, <2>1, <2>2, <2>4, <3>1
      DEF Deliver, ScreenTypes, ScreenInv, AnswerInv, agentVars
    <3> QED
      BY <1>6, <2>1, <2>2, <2>4, <3>1, <3>2, MovesSound
      DEF Deliver, ScreenTypes, ScreenInv, NewsSound, agentVars
  <2> QED
    BY <2>3, <2>4
<1> QED
  BY <1>1, <1>2, <1>3, <1>4, <1>5, <1>6 DEF Screens

(* The flags stay two-valued; the provers take this better by itself.      *)
Flags ==
    /\ link \in BOOLEAN /\ pushing \in BOOLEAN /\ dirty \in BOOLEAN
    /\ informed \in BOOLEAN /\ restarted \in BOOLEAN

(* The switches of the agent and the link stay switches.                   *)
LEMMA FlagsTyped == ScreenTypes /\ World => Flags'
<1> SUFFICES ASSUME Flags, World PROVE Flags'
  BY DEF ScreenTypes, Flags
<1>1. CASE Drop
  BY <1>1 DEF Drop, Flags
<1>2. CASE Reopen
  BY <1>2 DEF Reopen, Flags, screenVars, agentVars
<1>3. CASE StreamOn
  BY <1>3 DEF StreamOn, Flags, screenVars
<1>4. CASE Change
  BY <1>4 DEF Change, Flags
<1>5. CASE Settle
  BY <1>5 DEF Settle, Flags
<1>6. CASE Restart
  BY <1>6 DEF Restart, Flags
<1> QED
  BY <1>1, <1>2, <1>3, <1>4, <1>5, <1>6 DEF World

(* The burst is over: what was sound is older news now, and the event that *)
(* goes out shows the screen with its new number.                          *)
LEMMA SettleInv ==
  ASSUME ScreenTypes, ScreenInv, Settle
  PROVE  ScreenTypes' /\ ScreenInv'
<1> DEFINE o == [Now EXCEPT !.screen = @ + 1]
<1>1. /\ screen + 1 \in 0..MaxScreen
      /\ screen' = screen + 1 /\ dirty /\ ~ dirty' /\ ~ informed
      /\ UNCHANGED <<query, draft, answer, seen, informed, link, pushing, package, restarted>>
  BY DeviceAssumption DEF Settle, ScreenTypes, ScreenInv, DirtyInv
<1>2. o = [screen |-> screen + 1, package |-> package]
  BY DEF Now
<1>3. wire' \in {wire, Append(wire, Frame("event", o))}
  BY DEF Settle
<1>4. o \in Observation
  BY <1>1, <1>2 DEF Observation, ScreenTypes
<1> HIDE DEF o
<1>5. Frame("event", o) \in Frames /\ Frame("event", o).at = o
  BY <1>4 DEF Frame, Frames
<1>6. /\ wire' \in Seq(Frames)
      /\ \A k \in 1..Len(wire') : \/ k \in 1..Len(wire) /\ wire'[k] = wire[k]
                                  \/ wire'[k] = Frame("event", o)
  <2>1. wire \in Seq(Frames)
    BY DEF ScreenTypes
  <2>2. CASE wire' = wire
    BY <2>1, <2>2
  <2>3. CASE wire' = Append(wire, Frame("event", o))
    BY <1>5, <2>1, <2>3, AppendProperties
  <2> QED
    BY <1>3, <2>2, <2>3
<1>7. ScreenTypes'
  <2>1. Flags'
    BY FlagsTyped DEF World
  <2> QED
    BY <1>1, <1>6, <2>1 DEF ScreenTypes, Flags
<1>8. AnswerInv'
  BY <1>1 DEF ScreenInv, AnswerInv
<1>9. ASSUME NEW p, p.screen \in Int, Sound(p)
      PROVE  p.screen <= screen' /\ p.screen # screen'
  BY <1>1, <1>9 DEF Sound, ScreenTypes
<1>10. \A p \in Observation : p.screen \in Int
  BY DEF Observation
<1>11. NewsSound'
  <2> SUFFICES ASSUME ~ restarted
               PROVE  /\ \A k \in 1..Len(wire') : Sound(wire[k].at)'
                      /\ \A r \in Readers : draft'[r] # None => Sound(draft[r])'
                      /\ \A r \in Readers : query'[r] = "answered" => Sound(answer[r])'
    BY <1>1 DEF NewsSound
  <2>1. ASSUME NEW k \in 1..Len(wire') PROVE Sound(wire[k].at)'
    <3>1. CASE k \in 1..Len(wire) /\ wire'[k] = wire[k]
      <4>1. wire[k].at.screen \in Int /\ Sound(wire[k].at)
        <5>1. wire[k] \in Frames
          BY <3>1 DEF ScreenTypes
        <5>2. Sound(wire[k].at)
          BY <3>1 DEF ScreenInv, NewsSound
        <5> QED
          BY <1>10, <5>1, <5>2 DEF Frames
      <4> QED
        BY <1>9, <3>1, <4>1 DEF Sound
    <3>2. CASE wire'[k] = Frame("event", o)
      BY <1>1, <1>2, <1>5, <3>2 DEF Sound, ScreenTypes
    <3> QED
      BY <1>6, <3>1, <3>2
  <2>2. ASSUME NEW r \in Readers, draft'[r] # None PROVE Sound(draft[r])'
    <3>1. draft'[r] = draft[r] /\ draft[r].screen \in Int /\ Sound(draft[r])
      BY <1>1, <1>10, <2>2 DEF ScreenTypes, ScreenInv, NewsSound
    <3> QED
      BY <1>9, <3>1 DEF Sound
  <2>3. ASSUME NEW r \in Readers, query'[r] = "answered" PROVE Sound(answer[r])'
    <3>1. answer'[r] = answer[r] /\ answer[r].screen \in Int /\ Sound(answer[r])
      BY <1>1, <1>10, <2>3 DEF ScreenInv, AnswerInv, NewsSound
    <3> QED
      BY <1>9, <3>1 DEF Sound
  <2> QED
    BY <2>1, <2>2, <2>3
<1>12. seen.screen \in Int /\ screen \in Int
  BY <1>10 DEF ScreenTypes
<1>13. SeenSound'
  BY <1>1, <1>12 DEF ScreenInv, SeenSound
<1>14. DirtyInv'
  BY <1>1 DEF DirtyInv
<1> QED
  BY <1>7, <1>8, <1>11, <1>13, <1>14 DEF ScreenInv

(* The steps of the agent and the link.                                    *)
LEMMA WorldInv ==
  ASSUME ScreenTypes, ScreenInv, World
  PROVE  ScreenTypes' /\ ScreenInv'
<1> Flags'
  BY FlagsTyped
<1>1. CASE Drop
  <2>1. ScreenTypes' /\ AnswerInv'
    BY <1>1, EmptySeq DEF Drop, Flags, ScreenTypes, ScreenInv, AnswerInv
  <2> QED
    BY <1>1, <2>1, MovesSound DEF Drop, ScreenTypes, ScreenInv, NewsSound
<1>2. CASE Change
  <2>1. ScreenTypes' /\ AnswerInv'
    BY <1>2 DEF Change, Flags, ScreenTypes, ScreenInv, AnswerInv
  <2>2. DirtyInv'
    BY <1>2 DEF Change, DirtyInv
  <2>3. NewsSound' /\ SeenSound'
    BY <1>2 DEF Change, ScreenTypes, ScreenInv, NewsSound, SeenSound, Sound
  <2> QED
    BY <2>1, <2>2, <2>3 DEF ScreenInv
<1>3. CASE Restart
  <2>1. ScreenTypes' /\ AnswerInv'
    BY <1>3, DeviceAssumption DEF Restart, Flags, ScreenTypes, ScreenInv, AnswerInv
  <2>2. DirtyInv'
    BY <1>3 DEF Restart, DirtyInv
  <2>3. NewsSound' /\ SeenSound'
    BY <1>3 DEF Restart, NewsSound, SeenSound
  <2> QED
    BY <2>1, <2>2, <2>3 DEF ScreenInv
<1>4. CASE Reopen \/ StreamOn
  <2>1. UNCHANGED <<screenVars, screen, package, dirty, restarted>>
    BY <1>4 DEF Reopen, StreamOn, agentVars
  <2>2. ScreenTypes' /\ AnswerInv'
    BY <2>1 DEF screenVars, Flags, ScreenTypes, ScreenInv, AnswerInv
  <2> QED
    BY <2>1, <2>2, MovesSound DEF screenVars, ScreenInv, NewsSound
<1> QED
  BY <1>1, <1>2, <1>3, <1>4, SettleInv DEF World

(* Node actions touch neither the screen state nor what may reach it.      *)
LEMMA ActionsInv ==
  ASSUME ScreenTypes, ScreenInv, Actions \/ UNCHANGED vars
  PROVE  ScreenTypes' /\ ScreenInv'
<1>1. UNCHANGED <<screenVars, link, agentVars>>
  BY DEF Actions, Act, Answered, Retry, GiveUp, AgentFinds, AgentPerforms, vars
<1>2. ScreenTypes' /\ AnswerInv'
  BY <1>1 DEF screenVars, agentVars, ScreenTypes, ScreenInv, AnswerInv
<1> QED
  BY <1>1, <1>2, MovesSound DEF screenVars, agentVars, ScreenInv, NewsSound

-----------------------------------------------------------------------------
(* The theorems.                                                           *)

(* The type invariant in the two halves it is proved in.                   *)
LEMMA Types == TypeOK <=> ActTypes /\ ScreenTypes
  BY DEF TypeOK, ActTypes, ScreenTypes, Outcomes, Frames

(* Nothing has been asked and nothing is known at first.                   *)
LEMMA InitInductive == Init => IInv
<1> SUFFICES ASSUME Init PROVE IInv
  OBVIOUS
<1>1. ActTypes
  BY DeviceAssumption DEF Init, ActTypes, Outcomes
<1>2. ScreenTypes
  <2>1. seen \in Observation
    BY DeviceAssumption DEF Init, Observation
  <2>2. wire \in Seq(Frames)
    BY EmptySeq DEF Init
  <2>3. screen \in 0..MaxScreen
    BY DeviceAssumption DEF Init
  <2>4. Flags
    BY DEF Init, Flags
  <2> QED
    BY <2>1, <2>2, <2>3, <2>4 DEF Init, ScreenTypes, Flags
<1>3. ActInv
  BY DeviceAssumption DEF Init, ActInv, LastCall, Told
<1>4. ScreenInv
  BY DeviceAssumption, EmptySeq
  DEF Init, ScreenInv, AnswerInv, NewsSound, SeenSound, DirtyInv
<1> QED
  BY <1>1, <1>2, <1>3, <1>4, Types DEF IInv

(* The two halves together are inductive.                                  *)
LEMMA InductiveHolds == Spec => []IInv
<1>1. IInv /\ [Next]_vars => IInv'
  <2> SUFFICES ASSUME IInv, [Next]_vars PROVE IInv'
    OBVIOUS
  <2>1. ActTypes /\ ActInv /\ ScreenTypes /\ ScreenInv
    BY Types DEF IInv
  <2>2. ActTypes' /\ ActInv'
    BY <2>1, ActNext
  <2>3. ScreenTypes' /\ ScreenInv'
    BY <2>1, ScreensInv, WorldInv, ActionsInv DEF Next
  <2>4. TypeOK'
    BY <2>2, <2>3 DEF TypeOK, ActTypes, ScreenTypes, Outcomes, Frames
  <2> QED
    BY <2>2, <2>3, <2>4 DEF IInv
<1> QED
  BY <1>1, InitInductive, PTL DEF Spec

(* The model's values stay within their types, for any numbers of actions, *)
(* readers, attempts and screens.                                          *)
THEOREM TypeCorrect == Spec => []TypeOK
<1>1. IInv => TypeOK
  BY DEF IInv
<1> QED
  BY <1>1, InductiveHolds, PTL

(* A node action is performed at most once over all its retries, and the   *)
(* caller who gets a result or an error of the agent is told right.        *)
THEOREM ActsOnceHolds == Spec => []ActsOnce
<1>1. IInv => ActsOnce
  <2> SUFFICES ASSUME IInv, NEW a \in Actors
               PROVE  /\ acts[a] <= 1
                      /\ pc[a] = "ok" => acts[a] = 1
                      /\ pc[a] \in {"refused", "stale", "error", "asleep"} => acts[a] = 0
    BY DEF ActsOnce
  <2>1. LastCall(a) /\ Told(a)
    BY DEF IInv, ActInv
  <2>2. tries[a] \in Nat
    BY DEF IInv, TypeOK
  <2>3. acts[a] <= 1
    BY <2>1 DEF LastCall
  <2>4. pc[a] = "ok" => acts[a] = 1
    BY <2>1 DEF LastCall, Told
  <2>5. pc[a] \in {"refused", "stale", "error", "asleep"} => acts[a] = 0
    BY <2>1 DEF LastCall, Told
  <2> QED
    BY <2>3, <2>4, <2>5
<1> QED
  BY <1>1, InductiveHolds, PTL

(* A dump or an event that comes in late takes nothing back that           *)
(* ScreenState knows of the present screen.                                *)
THEOREM ScreenSettlesHolds == Spec => []ScreenSettles
<1>1. IInv => ScreenSettles
  BY DEF IInv, ScreenInv, SeenSound, DirtyInv, ScreenSettles
<1> QED
  BY <1>1, InductiveHolds, PTL

(* Every search of a dump is exact, whatever the tree, its labels and the  *)
(* selector: the search is (SearchesAreExact), for any bounds.             *)
THEOREM SearchIsExactHolds == Spec => []SearchIsExact
<1>1. SearchIsExact
  BY ExactWithinAnyBounds DEF SearchIsExact
<1> QED
  BY <1>1, PTL
=============================================================================
