------------------------- MODULE SlackSocketProofs -------------------------
(***************************************************************************)
(* A click acts once, and a live socket is not killed, for any number of   *)
(* worker threads, clicks and days, and whatever Slack delivers again.     *)
(***************************************************************************)
EXTENDS SlackSocket, LedgerLemmas

-----------------------------------------------------------------------------
(* The heartbeat *)

\* While the socket has stayed up since the last heartbeat, the file is no older than
\* the loop is late.
HeartbeatInv ==
  /\ late \in 0 .. Late /\ age \in 0 .. MaxAge
  /\ running /\ history.steady => socket # "down" /\ age <= late

\* The loop is less late than the probe allows.
LEMMA Limits == Late \in Nat /\ MaxAge \in Nat /\ Late < MaxAge
BY SocketAssumption DEF SocketAssumption

\* The process starts with a fresh heartbeat.
LEMMA HeartbeatInvInit == Init => HeartbeatInv
BY Limits DEF Init, HeartbeatInv

\* Every step keeps the heartbeat invariant.
LEMMA HeartbeatInvStep == HeartbeatInv /\ [Next]_vars => HeartbeatInv'
<1> SUFFICES ASSUME HeartbeatInv, [Next]_vars PROVE HeartbeatInv'
  OBVIOUS
<1> USE Limits DEF HeartbeatInv
<1>q. ASSUME UNCHANGED <<late, age, socket, running>>, history'.steady = history.steady
      PROVE  HeartbeatInv'
  BY <1>q
<1>c. ASSUME NEW id, NEW effect, Count(id, effect)
      PROVE  history'.steady = history.steady
  BY <1>c DEF Count
<1>1. CASE UNCHANGED vars
  BY <1>1, <1>q DEF vars, process
<1>2. ASSUME NEW k \in Kinds, Answer(k) PROVE HeartbeatInv'
  BY <1>2, <1>q DEF Answer, Send, process
<1>3. ASSUME NEW k \in Kinds, NEW c \in buttons, Stranger(k, c) PROVE HeartbeatInv'
  BY <1>3, <1>q DEF Stranger, Send, process
<1>4. ASSUME NEW k \in Kinds, NEW c \in buttons, NEW D \in SUBSET Days, Also(k, c, D)
      PROVE  HeartbeatInv'
  BY <1>4, <1>q DEF Also, Send, process
<1>5. CASE PostCard
  BY <1>5, <1>q DEF PostCard, process
<1>6. ASSUME NEW t \in Threads, NEW id \in DOMAIN clicks, Deliver(t, id) PROVE HeartbeatInv'
  BY <1>6, <1>q DEF Deliver, process
<1>7. ASSUME NEW t \in Threads, Ack(t) \/ AckView(t) PROVE HeartbeatInv'
  <2>1. Touch(history.did) /\ late' = late /\ socket' = socket /\ running' = running
    BY <1>7 DEF Ack, AckView
  <2>2. age' = 0 /\ (history'.steady => socket # "down")
    BY <2>1 DEF Touch
  <2> QED
    BY <2>1, <2>2
<1>8. ASSUME NEW t \in Threads, Once(t) PROVE HeartbeatInv'
  BY <1>8, <1>q DEF Once, process
<1>9. ASSUME NEW t \in Threads, Decide(t) PROVE HeartbeatInv'
  <2>1. history' = history \/ Count(threads[t].click, "decision")
    BY <1>9 DEF Decide
  <2>2. UNCHANGED <<late, age, socket, running>>
    BY <1>9 DEF Decide, process
  <2> QED
    BY <1>q, <1>c, <2>1, <2>2
<1>10. ASSUME NEW t \in Threads, Show(t) \/ Say(t) PROVE HeartbeatInv'
  BY <1>10, <1>q, <1>c DEF Show, Say, process
<1>11. ASSUME NEW t \in Threads, Apply(t) PROVE HeartbeatInv'
  BY <1>11, <1>q, <1>c DEF Apply, process
<1>12. ASSUME NEW t \in Threads, SlackFails(t) PROVE HeartbeatInv'
  BY <1>12, <1>q DEF SlackFails, process
<1>13. CASE Drop
  BY <1>13 DEF Drop
<1>14. CASE Reconnect \/ GoDeaf
  BY <1>14 DEF Reconnect, GoDeaf
<1>15. CASE Interval
  BY <1>15 DEF Interval
<1>16. CASE Wake
  BY <1>16 DEF Wake, BelievesConnected, Touch
<1>17. CASE ProbeKills \/ Crash
  BY <1>17 DEF ProbeKills, Crash, Die
<1>18. CASE Start
  BY <1>18 DEF Start
<1> QED
  BY <1>1, <1>2, <1>3, <1>4, <1>5, <1>6, <1>7, <1>8, <1>9, <1>10, <1>11, <1>12, <1>13,
     <1>14, <1>15, <1>16, <1>17, <1>18 DEF Next, Handle

\* The probe finds the file too old only when the socket has been down since it was
\* written, however long nobody clicks.
THEOREM LiveSocketStays == Spec => LiveSocketIsNotKilled
<1>1. HeartbeatInv /\ ProbeKills => ~ history.steady
  BY Limits DEF HeartbeatInv, ProbeKills
<1>2. HeartbeatInv /\ [Next]_vars => [ProbeKills => ~ history.steady]_vars
  BY <1>1
<1> QED
  BY HeartbeatInvInit, HeartbeatInvStep, <1>2, PTL DEF Spec, LiveSocketIsNotKilled

-----------------------------------------------------------------------------
(* The deliveries *)

\* The places of a thread that has passed once().
PastPcs == {"ack_view", "decide", "show", "say", "apply"}
Past(t) == threads[t].pc \in PastPcs

Did(id, e) == history.did[<<id, e>>]

DeliveryTypes ==
  /\ clicks \in Seq(Click) /\ Len(clicks) <= MaxClicks
  /\ unacked \subseteq DOMAIN clicks
  /\ threads \in [Threads -> Thread]
  /\ \A t \in Threads : threads[t] = Free \/ threads[t].click \in DOMAIN clicks
  /\ history \in [did: [Ids \X Effects -> 0 .. 2], steady: BOOLEAN]

\* What a thread is working on is in the table, and no other thread works on it.
ClaimedOnce ==
  /\ \A t \in Threads : Past(t) => DedupeKey(threads[t].click) \in handled
  /\ \A t, u \in Threads : Past(t) /\ Past(u) /\ t # u => threads[t].click # threads[u].click

\* What has been done is in the table.
DoneIsHandled ==
  \A id \in Ids, e \in Effects :
    Did(id, e) # 0 => id \in DOMAIN clicks /\ DedupeKey(id) \in handled

\* What a thread still has to do has not been done.
ToDoOf(t) ==
  LET id == threads[t].click
      pc == threads[t].pc
  IN  /\ pc = "decide" => Did(id, "decision") = 0
      /\ pc \in {"ack_view", "apply"} => \A d \in threads[t].todo : Did(id, d) = 0
      /\ pc \in {"ack_view", "apply", "say"} => Did(id, "summary") = 0

ToDoIsNotDone == \A t \in Threads : ToDoOf(t)

ActsOnce == \A id \in Ids, e \in Effects : Did(id, e) <= 1

DeliveryInv == DeliveryTypes /\ ClaimedOnce /\ DoneIsHandled /\ ToDoIsNotDone /\ ActsOnce

\* Nothing has been clicked and nothing done.
LEMMA DeliveryInvInit == Init => DeliveryInv
<1> SUFFICES ASSUME Init PROVE DeliveryInv
  OBVIOUS
<1>5. MaxClicks \in Nat
  BY SocketAssumption DEF SocketAssumption
<1>1. history = [did |-> [e \in Ids \X Effects |-> 0], steady |-> TRUE]
  BY DEF Init
<1>2. \A id \in Ids, e \in Effects : Did(id, e) = 0
  BY <1>1 DEF Did
<1>3. history \in [did: [Ids \X Effects -> 0 .. 2], steady: BOOLEAN]
  BY <1>1
<1>4. /\ clicks = <<>> /\ unacked = {}
  BY DEF Init
<1>f. Free \in Thread /\ Free.pc = "free"
  BY <1>5 DEF Free, Thread
<1>t. threads \in [Threads -> Thread]
      /\ \A t \in Threads : threads[t] = Free /\ threads[t].pc = "free"
  BY <1>f DEF Init
<1>6. DeliveryTypes
  BY <1>3, <1>4, <1>5, <1>t DEF DeliveryTypes
<1> QED
  BY <1>2, <1>4, <1>6, <1>t
     DEF DeliveryInv, ClaimedOnce, DoneIsHandled, ToDoIsNotDone, ToDoOf, ActsOnce, Past, PastPcs

\* A step that does nothing of what interactions do, moves no thread past once() and
\* only adds to what was sent and handled.
LEMMA QuietStep ==
  ASSUME DeliveryInv,
         clicks' \in Seq(Click), Len(clicks') <= MaxClicks, unacked' \subseteq DOMAIN clicks',
         \A id \in DOMAIN clicks : id \in DOMAIN clicks' /\ clicks'[id] = clicks[id],
         handled \subseteq handled',
         history' \in [did: [Ids \X Effects -> 0 .. 2], steady: BOOLEAN],
         history'.did = history.did,
         threads' \in [Threads -> Thread],
         \A t \in Threads :
           \/ threads'[t] = threads[t]
           \/ /\ threads'[t].pc \notin PastPcs
              /\ threads'[t] = Free \/ threads'[t].click \in DOMAIN clicks'
  PROVE  DeliveryInv'
<1>1. DeliveryTypes'
  BY DEF DeliveryInv, DeliveryTypes
<1>2. \A id \in Ids, e \in Effects : Did(id, e)' = Did(id, e)
  BY DEF Did
<1>3. \A id \in DOMAIN clicks : DedupeKey(id)' = DedupeKey(id)
  BY DEF DedupeKey
<1>4. \A t \in Threads : Past(t)' => Past(t) /\ threads'[t] = threads[t]
                                     /\ threads[t].click \in DOMAIN clicks
  BY DEF Past, PastPcs, DeliveryInv, DeliveryTypes, Free
<1>5. ClaimedOnce'
  BY <1>3, <1>4 DEF DeliveryInv, ClaimedOnce
<1>6. DoneIsHandled'
  BY <1>2, <1>3 DEF DeliveryInv, DoneIsHandled
<1>7. ToDoIsNotDone'
  <2> SUFFICES ASSUME NEW t \in Threads PROVE ToDoOf(t)'
    BY DEF ToDoIsNotDone
  <2>1. CASE Past(t)'
    BY <1>4, <2>1 DEF DeliveryInv, ToDoIsNotDone, ToDoOf, Did
  <2>2. CASE ~ Past(t)'
    BY <2>2 DEF ToDoOf, Past, PastPcs
  <2> QED
    BY <2>1, <2>2
<1>8. ActsOnce'
  BY <1>2 DEF DeliveryInv, ActsOnce
<1> QED
  BY <1>1, <1>5, <1>6, <1>7, <1>8 DEF DeliveryInv

\* The rest of TypeOK.
OtherTypes ==
  /\ rounds \in Seq(Round)
  /\ handled \subseteq InteractionKinds \X Ids
  /\ posted \in 0 .. MaxCards /\ buttons \subseteq 1 .. posted
  /\ socket \in {"up", "down", "deaf"} /\ running \in BOOLEAN
  /\ \A h \in Hazards : budget[h] \in 0 .. Budget[h]

\* Every interaction sent has an id within the bound.
LEMMA SentIsId == DeliveryInv => DOMAIN clicks \subseteq Ids
<1>1. MaxClicks \in Nat
  BY SocketAssumption DEF SocketAssumption
<1> QED
  BY <1>1 DEF DeliveryInv, DeliveryTypes, Ids

\* A heartbeat changes nothing of what the interactions did.
LEMMA TouchKeepsDid ==
  ASSUME history \in [did: [Ids \X Effects -> 0 .. 2], steady: BOOLEAN],
         history' = history \/ Touch(history.did)
  PROVE  /\ history' \in [did: [Ids \X Effects -> 0 .. 2], steady: BOOLEAN]
         /\ history'.did = history.did
<1>1. CASE Touch(history.did)
  <2> DEFINE up == socket # "down"
  <2>1. up \in BOOLEAN
    OBVIOUS
  <2>2. history' = [did |-> history.did, steady |-> up]
    BY <1>1 DEF Touch
  <2> HIDE DEF up
  <2> QED
    BY <2>1, <2>2
<1> QED
  BY <1>1

\* A thread that stays where it is in the table of clicks keeps the invariant when it
\* is set free or moves before once().
LEMMA ThreadsMove ==
  ASSUME DeliveryInv, NEW t \in Threads, NEW th \in Thread,
         th = Free \/ th.click \in DOMAIN clicks,
         th.pc \notin PastPcs,
         clicks' = clicks, unacked' \subseteq unacked, handled \subseteq handled',
         history' = history \/ Touch(history.did),
         threads' = [threads EXCEPT ![t] = th]
  PROVE  DeliveryInv'
<1>0. history \in [did: [Ids \X Effects -> 0 .. 2], steady: BOOLEAN]
  BY DEF DeliveryInv, DeliveryTypes
<1>1. history' \in [did: [Ids \X Effects -> 0 .. 2], steady: BOOLEAN] /\ history'.did = history.did
  BY <1>0, TouchKeepsDid
<1>2. threads' \in [Threads -> Thread] /\ \A u \in Threads : u # t => threads'[u] = threads[u]
  BY DEF DeliveryInv, DeliveryTypes
<1>3. threads'[t] = th
  BY DEF DeliveryInv, DeliveryTypes
<1>4. clicks \in Seq(Click) /\ Len(clicks) <= MaxClicks /\ unacked \subseteq DOMAIN clicks
  BY DEF DeliveryInv, DeliveryTypes
<1> QED
  BY <1>1, <1>2, <1>3, <1>4, QuietStep

\* Nothing of the deliveries moves, or all threads are gone.
LEMMA NothingMoves ==
  ASSUME DeliveryInv, clicks' = clicks, unacked' = unacked, handled' = handled,
         threads' = threads \/ threads' = [t \in Threads |-> Free],
         history' \in [did: [Ids \X Effects -> 0 .. 2], steady: BOOLEAN],
         history'.did = history.did
  PROVE  DeliveryInv'
<1>1. MaxClicks \in Nat
  BY SocketAssumption DEF SocketAssumption
<1>2. Free \in Thread /\ Free.pc \notin PastPcs
  BY <1>1 DEF Free, Thread, PastPcs
<1>3. threads' \in [Threads -> Thread]
      /\ \A t \in Threads : threads'[t] = threads[t] \/ threads'[t] = Free
  BY <1>2 DEF DeliveryInv, DeliveryTypes
<1>4. clicks \in Seq(Click) /\ Len(clicks) <= MaxClicks /\ unacked \subseteq DOMAIN clicks
  BY DEF DeliveryInv, DeliveryTypes
<1> QED
  BY <1>2, <1>3, <1>4, QuietStep

\* Something is sent.
LEMMA SendStep ==
  ASSUME DeliveryInv, NEW click \in Click, Send(click)
  PROVE  DeliveryInv'
<1>1. /\ clicks \in Seq(Click) /\ Len(clicks) < MaxClicks /\ unacked \subseteq DOMAIN clicks
      /\ clicks' = Append(clicks, click) /\ unacked' = unacked \union {Len(clicks) + 1}
      /\ threads' = threads /\ handled' = handled /\ history' = history
      /\ MaxClicks \in Nat
  BY SocketAssumption DEF Send, DeliveryInv, DeliveryTypes, SocketAssumption
<1>2. /\ clicks' \in Seq(Click) /\ Len(clicks') <= MaxClicks
      /\ unacked' \subseteq DOMAIN clicks'
      /\ \A id \in DOMAIN clicks : id \in DOMAIN clicks' /\ clicks'[id] = clicks[id]
  BY <1>1
<1>3. threads \in [Threads -> Thread]
      /\ history \in [did: [Ids \X Effects -> 0 .. 2], steady: BOOLEAN]
  BY DEF DeliveryInv, DeliveryTypes
<1> QED
  BY <1>1, <1>2, <1>3, QuietStep

\* An effect that is counted for the first time.
LEMMA CountsOnce ==
  ASSUME DeliveryInv, NEW id \in Ids, NEW e \in Effects, Did(id, e) = 0, Count(id, e)
  PROVE  /\ history' \in [did: [Ids \X Effects -> 0 .. 2], steady: BOOLEAN]
         /\ Did(id, e)' = 1
         /\ \A i \in Ids, x \in Effects : i # id \/ x # e => Did(i, x)' = Did(i, x)
<1>1. history \in [did: [Ids \X Effects -> 0 .. 2], steady: BOOLEAN]
  BY DEF DeliveryInv, DeliveryTypes
<1>2. <<id, e>> \in Ids \X Effects /\ history.did[<<id, e>>] = 0
  BY DEF Did
<1>3. history' = [history EXCEPT !.did = [history.did EXCEPT ![<<id, e>>] = 1]]
  BY <1>1, <1>2 DEF Count
<1>4. history'.did = [history.did EXCEPT ![<<id, e>>] = 1]
      /\ history' \in [did: [Ids \X Effects -> 0 .. 2], steady: BOOLEAN]
  BY <1>1, <1>2, <1>3
<1> QED
  BY <1>1, <1>2, <1>4 DEF Did

\* A thread past once() does one more thing of its click, which it had not done, and
\* goes on or is done.
LEMMA ActStep ==
  ASSUME DeliveryInv, NEW t \in Threads, Past(t),
         NEW th \in Thread, th = Free \/ th.click = threads[t].click,
         threads' = [threads EXCEPT ![t] = th],
         clicks' = clicks, unacked' \subseteq unacked, handled' = handled,
         history' \in [did: [Ids \X Effects -> 0 .. 2], steady: BOOLEAN],
         \A id \in Ids, e \in Effects :
           \/ Did(id, e)' = Did(id, e)
           \/ id = threads[t].click /\ Did(id, e)' = 1,
         ToDoOf(t)'
  PROVE  DeliveryInv'
<1>1. threads[t].click \in DOMAIN clicks /\ DedupeKey(threads[t].click) \in handled
  BY DEF DeliveryInv, DeliveryTypes, ClaimedOnce, Past, PastPcs, Free
<1>2. threads' \in [Threads -> Thread] /\ threads'[t] = th
      /\ \A u \in Threads : u # t => threads'[u] = threads[u]
  BY DEF DeliveryInv, DeliveryTypes
<1>3. DeliveryTypes'
  BY <1>1, <1>2 DEF DeliveryInv, DeliveryTypes
<1>4. \A i \in DOMAIN clicks : DedupeKey(i)' = DedupeKey(i)
  BY DEF DedupeKey
<1>5. \A u \in Threads : Past(u)' => Past(u) /\ threads'[u].click = threads[u].click
                                    /\ threads[u].click \in DOMAIN clicks
  <2> SUFFICES ASSUME NEW u \in Threads, Past(u)'
               PROVE  Past(u) /\ threads'[u].click = threads[u].click
                      /\ threads[u].click \in DOMAIN clicks
    OBVIOUS
  <2>1. CASE u = t
    BY <1>1, <1>2, <2>1 DEF Past, PastPcs, Free
  <2>2. CASE u # t
    BY <1>2, <2>2 DEF Past, PastPcs, Free, DeliveryInv, DeliveryTypes
  <2> QED
    BY <2>1, <2>2
<1>6. ClaimedOnce'
  <2>1. \A u \in Threads : Past(u)' => DedupeKey(threads[u].click)' \in handled'
    BY <1>4, <1>5 DEF DeliveryInv, ClaimedOnce, DedupeKey
  <2>2. \A u, v \in Threads :
          Past(u)' /\ Past(v)' /\ u # v => threads'[u].click # threads'[v].click
    BY <1>5 DEF DeliveryInv, ClaimedOnce
  <2> QED
    BY <2>1, <2>2 DEF ClaimedOnce
<1>7. DoneIsHandled'
  BY <1>1, <1>4 DEF DeliveryInv, DoneIsHandled
<1>8. ToDoIsNotDone'
  <2> SUFFICES ASSUME NEW u \in Threads PROVE ToDoOf(u)'
    BY DEF ToDoIsNotDone
  <2>1. CASE u # t /\ Past(u)'
    <3>1. threads'[u] = threads[u] /\ threads[u].click # threads[t].click
          /\ threads[u].click \in Ids
      BY <1>2, <1>5, <2>1, SentIsId DEF DeliveryInv, ClaimedOnce
    <3>2. \A e \in Effects : Did(threads[u].click, e)' = Did(threads[u].click, e)
      BY <3>1 DEF Did
    <3>3. threads[u].todo \subseteq Effects /\ {"decision", "summary"} \subseteq Effects
      BY DEF DeliveryInv, DeliveryTypes, Thread, Effects
    <3> QED
      BY <3>1, <3>2, <3>3 DEF DeliveryInv, ToDoIsNotDone, ToDoOf
  <2>2. CASE u # t /\ ~ Past(u)'
    BY <2>2 DEF ToDoOf, Past, PastPcs
  <2> QED
    BY <2>1, <2>2
<1>9. ActsOnce'
  BY DEF DeliveryInv, ActsOnce
<1> QED
  BY <1>3, <1>6, <1>7, <1>8, <1>9 DEF DeliveryInv

\* once() lets a click through whose key is not in the table: nothing has been done
\* of it and no thread works on it.
LEMMA OnceStep ==
  ASSUME DeliveryInv, NEW t \in Threads, ~ Past(t), NEW pc \in {"ack_view", "decide"},
         threads[t].click \in DOMAIN clicks, Fresh(threads[t].click),
         threads' = [threads EXCEPT ![t].pc = pc],
         handled' = handled \union {DedupeKey(threads[t].click)},
         clicks' = clicks, unacked' = unacked, history' = history
  PROVE  DeliveryInv'
<1> DEFINE id == threads[t].click
<1>1. threads' \in [Threads -> Thread] /\ threads'[t].pc = pc /\ threads'[t].click = id
      /\ threads'[t].todo = threads[t].todo
      /\ \A u \in Threads : u # t => threads'[u] = threads[u]
  BY DEF DeliveryInv, DeliveryTypes, Thread
<1>2. DeliveryTypes'
  BY <1>1 DEF DeliveryInv, DeliveryTypes
<1>3. \A i \in DOMAIN clicks : DedupeKey(i)' = DedupeKey(i)
  BY DEF DedupeKey
<1>4. \A u \in Threads : u # t /\ Past(u)' => Past(u) /\ threads[u].click \in DOMAIN clicks
                                             /\ threads[u].click # id
  BY <1>1 DEF Past, PastPcs, Free, DeliveryInv, DeliveryTypes, ClaimedOnce, Fresh
<1>5. ClaimedOnce'
  <2>1. \A u \in Threads : Past(u)' => DedupeKey(threads[u].click)' \in handled'
    BY <1>1, <1>3, <1>4 DEF DeliveryInv, ClaimedOnce, DedupeKey
  <2>2. \A u, v \in Threads :
          Past(u)' /\ Past(v)' /\ u # v => threads'[u].click # threads'[v].click
    BY <1>1, <1>4 DEF DeliveryInv, ClaimedOnce
  <2> QED
    BY <2>1, <2>2 DEF ClaimedOnce
<1>6. \A i \in Ids, e \in Effects : Did(i, e)' = Did(i, e)
  BY DEF Did
<1>7. DoneIsHandled' /\ ActsOnce'
  BY <1>3, <1>6 DEF DeliveryInv, DoneIsHandled, ActsOnce
<1>8. \A e \in Effects : Did(id, e) = 0
  BY SentIsId DEF DeliveryInv, DoneIsHandled, Fresh
<1>9. ToDoIsNotDone'
  <2> SUFFICES ASSUME NEW u \in Threads PROVE ToDoOf(u)'
    BY DEF ToDoIsNotDone
  <2>1. CASE u = t
    <3>1. threads[t].todo \subseteq Effects /\ {"decision", "summary"} \subseteq Effects
      BY DEF DeliveryInv, DeliveryTypes, Thread, Effects
    <3> QED
      BY <1>1, <1>8, <2>1, <3>1 DEF ToDoOf, Did
  <2>2. CASE u # t
    BY <1>1, <2>2 DEF DeliveryInv, ToDoIsNotDone, ToDoOf, Did
  <2> QED
    BY <2>1, <2>2
<1> QED
  BY <1>2, <1>5, <1>7, <1>9 DEF DeliveryInv

\* What one thread does.
LEMMA HandleStep ==
  ASSUME DeliveryInv, NEW t \in Threads, Handle(t) \/ SlackFails(t)
  PROVE  DeliveryInv'
<1> DEFINE id == threads[t].click
           To(pc) == [threads[t] EXCEPT !.pc = pc]
<1>m. MaxClicks \in Nat
  BY SocketAssumption DEF SocketAssumption
<1>t. threads \in [Threads -> Thread] /\ threads[t] \in Thread
  BY DEF DeliveryInv, DeliveryTypes
<1>h. history \in [did: [Ids \X Effects -> 0 .. 2], steady: BOOLEAN]
  BY DEF DeliveryInv, DeliveryTypes
<1>f. Free \in Thread /\ Free.pc = "free"
  BY <1>m DEF Free, Thread
<1>g. \A pc \in PastPcs \union {"once"} :
        /\ To(pc) \in Thread /\ To(pc).pc = pc /\ To(pc).click = id
        /\ To(pc).todo = threads[t].todo
        /\ Goto(t, pc) => threads' = [threads EXCEPT ![t] = To(pc)]
  BY <1>t DEF Thread, PastPcs, Goto
<1>d. Done(t) => threads' = [threads EXCEPT ![t] = Free]
  BY DEF Done
<1>a. Acknowledge(id) => unacked' \subseteq unacked
  BY DEF Acknowledge
<1>i. threads[t].pc # "free" => id \in DOMAIN clicks /\ id \in Ids
  BY <1>f, SentIsId DEF DeliveryInv, DeliveryTypes
<1>e. ASSUME Done(t), clicks' = clicks, unacked' \subseteq unacked, handled' = handled,
             history' = history \/ Touch(history.did)
      PROVE  DeliveryInv'
  BY <1>e, <1>f, <1>d, ThreadsMove DEF PastPcs
<1> HIDE DEF To
<1>1. CASE Ack(t)
  <2>1. /\ Goto(t, "once") \/ Done(t)
        /\ threads[t].pc = "ack" /\ Touch(history.did) /\ unacked' \subseteq unacked
        /\ clicks' = clicks /\ handled' = handled
    BY <1>1, <1>a DEF Ack, slack
  <2>2. CASE Goto(t, "once")
    <3>1. To("once") \in Thread /\ To("once").pc \notin PastPcs /\ To("once").click \in DOMAIN clicks
          /\ threads' = [threads EXCEPT ![t] = To("once")]
      BY <1>g, <1>i, <2>1, <2>2 DEF PastPcs
    <3> QED
      BY <2>1, <3>1, ThreadsMove
  <2> QED
    BY <1>e, <2>1, <2>2
<1>2. CASE Once(t)
  <2>1. threads[t].pc = "once" /\ clicks' = clicks /\ history' = history
    BY <1>2 DEF Once, slack
  <2>2. \/ Done(t) /\ handled' = handled /\ unacked' \subseteq unacked
        \/ \E pc \in {"ack_view", "decide"} :
             /\ Goto(t, pc) /\ Fresh(id) /\ unacked' = unacked
             /\ handled' = handled \union {DedupeKey(id)}
    BY <1>2, <1>a DEF Once
  <2>3. ASSUME NEW pc \in {"ack_view", "decide"}, Goto(t, pc), Fresh(id), unacked' = unacked,
               handled' = handled \union {DedupeKey(id)}
        PROVE  DeliveryInv'
    <3>1. threads' = [threads EXCEPT ![t].pc = pc] /\ ~ Past(t)
      BY <2>1, <2>3 DEF Goto, Past, PastPcs
    <3> QED
      BY <1>i, <2>1, <2>3, <3>1, OnceStep
  <2> QED
    BY <1>e, <2>1, <2>2, <2>3
<1>3. CASE Decide(t)
  <2>1. /\ threads[t].pc = "decide" /\ Past(t) /\ Did(id, "decision") = 0
        /\ clicks' = clicks /\ handled' = handled /\ unacked' = unacked
    BY <1>3 DEF Decide, slack, Past, PastPcs, DeliveryInv, ToDoIsNotDone, ToDoOf
  <2>2. \/ Goto(t, "show") /\ Count(id, "decision")
        \/ Done(t) /\ history' = history
    BY <1>3 DEF Decide
  <2>3. CASE Goto(t, "show") /\ Count(id, "decision")
    <3>1. /\ threads' = [threads EXCEPT ![t] = To("show")] /\ To("show") \in Thread
          /\ To("show").click = id /\ To("show").pc = "show"
      BY <1>g, <2>3 DEF PastPcs
    <3>2. /\ history' \in [did: [Ids \X Effects -> 0 .. 2], steady: BOOLEAN]
          /\ \A i \in Ids, x \in Effects : Did(i, x)' = Did(i, x) \/ (i = id /\ Did(i, x)' = 1)
      BY <1>i, <2>1, <2>3, CountsOnce DEF Effects
    <3>3. ToDoOf(t)'
      BY <1>t, <3>1 DEF ToDoOf
    <3> QED
      BY <2>1, <3>1, <3>2, <3>3, ActStep
  <2> QED
    BY <1>e, <2>1, <2>2, <2>3
<1>4. CASE Show(t) \/ SlackFails(t)
  BY <1>4, <1>e DEF Show, SlackFails, slack
<1>5. CASE Say(t)
  <2>1. /\ threads[t].pc = "say" /\ Past(t) /\ Did(id, "summary") = 0
        /\ clicks' = clicks /\ handled' = handled /\ unacked' = unacked
        /\ threads' = [threads EXCEPT ![t] = Free] /\ Count(id, "summary")
    BY <1>5, <1>d DEF Say, slack, Past, PastPcs, DeliveryInv, ToDoIsNotDone, ToDoOf
  <2>2. /\ history' \in [did: [Ids \X Effects -> 0 .. 2], steady: BOOLEAN]
        /\ \A i \in Ids, x \in Effects : Did(i, x)' = Did(i, x) \/ (i = id /\ Did(i, x)' = 1)
    BY <1>i, <2>1, CountsOnce DEF Effects
  <2>3. ToDoOf(t)'
    BY <1>t, <1>f, <2>1 DEF ToDoOf
  <2> QED
    BY <1>f, <2>1, <2>2, <2>3, ActStep
<1>6. CASE AckView(t)
  <2>1. /\ threads[t].pc = "ack_view" /\ Past(t) /\ Touch(history.did)
        /\ clicks' = clicks /\ handled' = handled /\ unacked' \subseteq unacked
        /\ Goto(t, "apply")
    BY <1>6, <1>a DEF AckView, slack, Past, PastPcs
  <2>2. /\ threads' = [threads EXCEPT ![t] = To("apply")] /\ To("apply") \in Thread
        /\ To("apply").click = id /\ To("apply").pc = "apply"
        /\ To("apply").todo = threads[t].todo
    BY <1>g, <2>1 DEF PastPcs
  <2>3. /\ history' \in [did: [Ids \X Effects -> 0 .. 2], steady: BOOLEAN]
        /\ history'.did = history.did
    BY <1>h, <2>1, TouchKeepsDid
  <2>4. \A i \in Ids, x \in Effects : Did(i, x)' = Did(i, x)
    BY <2>3 DEF Did
  <2>5. threads'[t] = To("apply")
    BY <1>t, <2>2
  <2>6. ToDoOf(t)
    BY DEF DeliveryInv, ToDoIsNotDone
  <2>7. ToDoOf(t)'
    BY <2>1, <2>2, <2>3, <2>5, <2>6 DEF ToDoOf, Did
  <2> QED
    BY <2>1, <2>2, <2>3, <2>4, <2>7, ActStep
<1>7. CASE Apply(t)
  <2>1. /\ threads[t].pc = "apply" /\ Past(t)
        /\ clicks' = clicks /\ handled' = handled /\ unacked' = unacked
    BY <1>7 DEF Apply, slack, Past, PastPcs
  <2>2. Did(id, "summary") = 0 /\ \A d \in threads[t].todo : Did(id, d) = 0
    BY <2>1 DEF DeliveryInv, ToDoIsNotDone, ToDoOf
  <2>3. CASE threads[t].todo = {}
    <3>1. Goto(t, "say") /\ history' = history
      BY <1>7, <2>3 DEF Apply
    <3>2. /\ threads' = [threads EXCEPT ![t] = To("say")] /\ To("say") \in Thread
          /\ To("say").click = id /\ To("say").pc = "say"
      BY <1>g, <3>1 DEF PastPcs
    <3>3. threads'[t] = To("say")
      BY <1>t, <3>2
    <3>4. ToDoOf(t)'
      BY <2>2, <3>1, <3>2, <3>3 DEF ToDoOf, Did
    <3>5. \A i \in Ids, x \in Effects : Did(i, x)' = Did(i, x)
      BY <3>1 DEF Did
    <3> QED
      BY <1>h, <2>1, <3>1, <3>2, <3>4, <3>5, ActStep
  <2>4. CASE threads[t].todo # {}
    <3>1. PICK d \in threads[t].todo :
            threads' = [threads EXCEPT ![t].todo = @ \ {d}] /\ Count(id, d)
      BY <1>7, <2>4 DEF Apply
    <3> DEFINE th == [threads[t] EXCEPT !.todo = @ \ {d}]
    <3>2. /\ threads' = [threads EXCEPT ![t] = th] /\ th \in Thread
          /\ th.click = id /\ th.pc = "apply" /\ th.todo = threads[t].todo \ {d}
      BY <1>t, <2>1, <3>1 DEF Thread
    <3>3. threads'[t] = th
      BY <1>t, <3>2
    <3>4. /\ d \in Effects /\ d # "summary" /\ "summary" \in Effects
          /\ threads[t].todo \subseteq Effects
      BY <1>t, SocketAssumption DEF Thread, Effects, SocketAssumption
    <3> HIDE DEF th
    <3>5. /\ history' \in [did: [Ids \X Effects -> 0 .. 2], steady: BOOLEAN]
          /\ \A i \in Ids : i = id => Did(i, d)' = 1
          /\ \A i \in Ids, x \in Effects : (i # id \/ x # d) => Did(i, x)' = Did(i, x)
      BY <1>i, <2>1, <2>2, <3>1, <3>4, CountsOnce
    <3>6. ToDoOf(t)'
      <4>1. \A x \in Effects : x # d => history'.did[<<id, x>>] = Did(id, x)
        BY <1>i, <2>1, <3>5 DEF Did
      <4> QED
        BY <2>2, <3>2, <3>3, <3>4, <4>1 DEF ToDoOf, Did
    <3>7. \A i \in Ids, x \in Effects : Did(i, x)' = Did(i, x) \/ (i = id /\ Did(i, x)' = 1)
      BY <1>i, <2>1, <3>5
    <3> QED
      BY <2>1, <3>2, <3>5, <3>6, <3>7, ActStep
  <2> QED
    BY <2>3, <2>4
<1> QED
  BY <1>1, <1>2, <1>3, <1>4, <1>5, <1>6, <1>7 DEF Handle

\* Every step keeps the order of deliveries.
LEMMA DeliveryInvStep == DeliveryInv /\ OtherTypes /\ [Next]_vars => DeliveryInv'
<1> SUFFICES ASSUME DeliveryInv, OtherTypes, [Next]_vars PROVE DeliveryInv'
  OBVIOUS
<1>m. MaxClicks \in Nat /\ MaxCards \in Nat /\ Kinds \subseteq InteractionKinds
  BY SocketAssumption DEF SocketAssumption
<1>c. posted \in 0 .. MaxCards /\ buttons \subseteq 1 .. MaxCards
  BY <1>m DEF OtherTypes
<1>h. history \in [did: [Ids \X Effects -> 0 .. 2], steady: BOOLEAN]
  BY DEF DeliveryInv, DeliveryTypes
<1>s. ASSUME NEW k \in Kinds, NEW c \in buttons, NEW D \in SUBSET Days, NEW b \in BOOLEAN,
             Send([kind |-> k, card |-> c, days |-> D, approver |-> b])
      PROVE  DeliveryInv'
  <2>1. [kind |-> k, card |-> c, days |-> D, approver |-> b] \in Click
    BY <1>m, <1>c DEF Click
  <2> QED
    BY <1>s, <2>1, SendStep
<1>1. ASSUME NEW k \in Kinds, Answer(k) PROVE DeliveryInv'
  BY <1>1, <1>s DEF Answer
<1>2. ASSUME NEW k \in Kinds, NEW c \in buttons, Stranger(k, c) PROVE DeliveryInv'
  <2> DEFINE D == IF k = "correct" THEN Days ELSE {}
  <2>1. D \in SUBSET Days
    OBVIOUS
  <2>2. Send([kind |-> k, card |-> c, days |-> D, approver |-> FALSE])
    <3>1. [kind |-> k, card |-> c, approver |-> FALSE, days |-> D]
            = [kind |-> k, card |-> c, days |-> D, approver |-> FALSE]
      OBVIOUS
    <3> QED
      BY <1>2, <3>1 DEF Stranger
  <2> QED
    BY <1>s, <2>1, <2>2
<1>3. ASSUME NEW k \in Kinds, NEW c \in buttons, NEW D \in SUBSET Days, Also(k, c, D)
      PROVE  DeliveryInv'
  BY <1>3, <1>s DEF Also
<1>4. ASSUME NEW t \in Threads, NEW id \in DOMAIN clicks, Deliver(t, id) PROVE DeliveryInv'
  <2> DEFINE th == [pc |-> IF clicks[id].kind = "correct" THEN "once" ELSE "ack",
                    click |-> id, todo |-> clicks[id].days]
  <2>1. clicks[id] \in Click /\ id \in 1 .. MaxClicks
    BY <1>m DEF DeliveryInv, DeliveryTypes
  <2>2. th \in Thread /\ th.click \in DOMAIN clicks /\ th.pc \notin PastPcs
    BY <1>m, <2>1 DEF Click, Thread, PastPcs
  <2>3. /\ threads' = [threads EXCEPT ![t] = th] /\ clicks' = clicks
        /\ unacked' = unacked /\ handled' = handled /\ history' = history
    BY <1>4 DEF Deliver, slack
  <2> HIDE DEF th
  <2> QED
    BY <2>2, <2>3, ThreadsMove
<1>5. ASSUME NEW t \in Threads, Handle(t) \/ SlackFails(t) PROVE DeliveryInv'
  BY <1>5, HandleStep
<1>6. CASE UNCHANGED vars \/ PostCard \/ Reconnect \/ GoDeaf \/ Interval
  BY <1>6, <1>h, NothingMoves DEF vars, PostCard, Reconnect, GoDeaf, Interval, slack
<1>7. CASE Drop \/ Start
  <2>1. \E b \in BOOLEAN : history' = [history EXCEPT !.steady = b]
    BY <1>7 DEF Drop, Start
  <2>2. history' \in [did: [Ids \X Effects -> 0 .. 2], steady: BOOLEAN]
        /\ history'.did = history.did
    BY <1>h, <2>1
  <2> QED
    BY <1>7, <2>2, NothingMoves DEF Drop, Start, slack
<1>8. CASE Wake
  <2>1. history' = history \/ Touch(history.did)
    BY <1>8 DEF Wake
  <2>2. history' \in [did: [Ids \X Effects -> 0 .. 2], steady: BOOLEAN]
        /\ history'.did = history.did
    BY <1>h, <2>1, TouchKeepsDid
  <2> QED
    BY <1>8, <2>2, NothingMoves DEF Wake, slack
<1>9. CASE ProbeKills \/ Crash
  BY <1>9, <1>h, NothingMoves DEF ProbeKills, Crash, Die, slack
<1> QED
  BY <1>1, <1>2, <1>3, <1>4, <1>5, <1>6, <1>7, <1>8, <1>9 DEF Next

\* The tables and cards keep their types.
LEMMA OtherTypesStep == OtherTypes /\ DeliveryInv /\ [Next]_vars => OtherTypes'
<1> SUFFICES ASSUME OtherTypes, DeliveryInv, [Next]_vars PROVE OtherTypes'
  OBVIOUS
<1> DEFINE Budgets(b) == \A h \in Hazards : b[h] \in 0 .. Budget[h]
<1>0. /\ rounds \in Seq(Round) /\ handled \subseteq InteractionKinds \X Ids
      /\ posted \in 0 .. MaxCards /\ buttons \subseteq 1 .. posted
      /\ socket \in {"up", "down", "deaf"} /\ running \in BOOLEAN
      /\ Budgets(budget)
  BY DEF OtherTypes
<1>b. ASSUME NEW h \in Hazards, Spend(h) PROVE Budgets(budget')
  <2>1. Budget[h] \in Nat /\ budget[h] \in 0 .. Budget[h] /\ budget[h] > 0
    BY <1>0, <1>b, SocketAssumption DEF SocketAssumption, Spend
  <2>2. \A g \in Hazards : budget'[g] = budget[g] \/ (g = h /\ budget'[g] = budget[g] - 1)
    BY <1>b DEF Spend
  <2> QED
    BY <1>0, <2>1, <2>2
<1>h. {"also", "stranger", "crash", "drop", "fault", "deaf"} = Hazards
  BY DEF Hazards
<1> HIDE DEF Budgets
<1>q. ASSUME UNCHANGED <<rounds, handled, posted, buttons>>, socket' \in {"up", "down", "deaf"},
             running' \in BOOLEAN, Budgets(budget')
      PROVE  OtherTypes'
  BY <1>0, <1>q DEF OtherTypes, Budgets
<1>1. ASSUME NEW k \in Kinds, Answer(k) PROVE OtherTypes'
  BY <1>0, <1>1, <1>q DEF Answer, Send, process
<1>2. ASSUME NEW k \in Kinds, NEW c \in buttons, Stranger(k, c) PROVE OtherTypes'
  BY <1>0, <1>2, <1>b, <1>h, <1>q DEF Stranger, Send, process
<1>3. ASSUME NEW k \in Kinds, NEW c \in buttons, NEW D \in SUBSET Days, Also(k, c, D)
      PROVE  OtherTypes'
  BY <1>0, <1>3, <1>b, <1>h, <1>q DEF Also, Send, process
<1>4. CASE PostCard
  <2>1. UpsertSubmission(rounds, Days, "awaiting_approval") \in Seq(Round)
    BY <1>0, UpsertFacts DEF SubmissionStates
  <2>2. MaxCards \in Nat
    BY SocketAssumption DEF SocketAssumption
  <2>3. /\ rounds' = UpsertSubmission(rounds, Days, "awaiting_approval")
        /\ posted < MaxCards /\ posted' = posted + 1
        /\ buttons' = buttons \union {posted + 1}
        /\ UNCHANGED <<handled, socket, running, budget>>
    BY <1>4 DEF PostCard, process
  <2> QED
    BY <1>0, <2>1, <2>2, <2>3 DEF OtherTypes, Budgets
<1>5. ASSUME NEW t \in Threads, NEW id \in DOMAIN clicks, Deliver(t, id) PROVE OtherTypes'
  BY <1>0, <1>5, <1>q DEF Deliver, slack, process
<1>6. ASSUME NEW t \in Threads, Ack(t) \/ AckView(t) \/ Say(t) \/ Apply(t) PROVE OtherTypes'
  BY <1>0, <1>6, <1>q DEF Ack, AckView, Say, Apply, slack, process
<1>7. ASSUME NEW t \in Threads, Once(t) PROVE OtherTypes'
  <2>1. handled' = handled \/ handled' = handled \union {DedupeKey(threads[t].click)}
    BY <1>7 DEF Once
  <2>2. DedupeKey(threads[t].click) \in InteractionKinds \X Ids
    <3>1. threads[t].click \in DOMAIN clicks /\ threads[t].click \in Ids
      BY <1>7, SentIsId DEF Once, DeliveryInv, DeliveryTypes, Free
    <3>2. clicks[threads[t].click] \in Click
      BY <3>1 DEF DeliveryInv, DeliveryTypes
    <3> QED
      BY <3>1, <3>2 DEF DedupeKey, Click
  <2>3. UNCHANGED <<rounds, posted, buttons, socket, running, budget>>
    BY <1>7 DEF Once, slack, process
  <2> QED
    BY <1>0, <2>1, <2>2, <2>3 DEF OtherTypes, Budgets
<1>8. ASSUME NEW t \in Threads, Decide(t) PROVE OtherTypes'
  <2>1. Decision(threads[t].click) \in SubmissionStates
    BY DEF Decision, SubmissionStates
  <2>2. rounds' \in Seq(Round)
    BY <1>0, <1>8, <2>1, UpdateWhereFacts DEF Decide
  <2>3. UNCHANGED <<handled, posted, buttons, socket, running, budget>>
    BY <1>8 DEF Decide, slack, process
  <2> QED
    BY <1>0, <2>2, <2>3 DEF OtherTypes, Budgets
<1>9. ASSUME NEW t \in Threads, Show(t) PROVE OtherTypes'
  <2>1. buttons' \subseteq buttons
        /\ UNCHANGED <<rounds, handled, posted, socket, running, budget>>
    BY <1>9 DEF Show, process
  <2> QED
    BY <1>0, <2>1 DEF OtherTypes, Budgets
<1>10. ASSUME NEW t \in Threads, SlackFails(t) PROVE OtherTypes'
  BY <1>0, <1>10, <1>b, <1>h, <1>q DEF SlackFails, slack, process
<1>11. CASE Drop
  BY <1>0, <1>11, <1>b, <1>h, <1>q DEF Drop, slack
<1>12. CASE GoDeaf
  BY <1>0, <1>12, <1>b, <1>h, <1>q DEF GoDeaf, slack
<1>13. CASE UNCHANGED vars \/ Reconnect \/ Interval \/ Wake
  BY <1>0, <1>13, <1>q DEF vars, Reconnect, Interval, Wake, slack, process
<1>14. CASE ProbeKills
  BY <1>0, <1>14, <1>q DEF ProbeKills, Die, slack
<1>15. CASE Crash
  BY <1>0, <1>15, <1>b, <1>h, <1>q DEF Crash, Die, slack
<1>16. CASE Start
  BY <1>0, <1>16, <1>q DEF Start, slack
<1> QED
  BY <1>1, <1>2, <1>3, <1>4, <1>5, <1>6, <1>7, <1>8, <1>9, <1>10, <1>11, <1>12, <1>13,
     <1>14, <1>15, <1>16 DEF Next, Handle

\* The other variables start within their types.
LEMMA OtherTypesInit == Init => OtherTypes
<1>1. MaxCards \in Nat /\ \A h \in Hazards : Budget[h] \in Nat
  BY SocketAssumption DEF SocketAssumption
<1> QED
  BY <1>1 DEF Init, OtherTypes

\* A click acts once however often Slack delivers it, on however many threads.
THEOREM EveryClickActsOnce == Spec => []ClickActsOnce
<1>1. DeliveryInv => ClickActsOnce
  BY DEF DeliveryInv, ActsOnce, ClickActsOnce, Did
<1> QED
  BY DeliveryInvInit, OtherTypesInit, DeliveryInvStep, OtherTypesStep, <1>1, PTL DEF Spec

\* Type correctness.
THEOREM SocketTypeCorrect == Spec => []TypeOK
<1>1. DeliveryInv /\ OtherTypes /\ HeartbeatInv => TypeOK
  <2> SUFFICES ASSUME DeliveryInv, OtherTypes, HeartbeatInv PROVE TypeOK
    OBVIOUS
  <2>1. \A t \in Threads : threads[t].click \in DOMAIN clicks \union {0}
    BY DEF DeliveryInv, DeliveryTypes, Free
  <2> QED
    BY <2>1 DEF DeliveryInv, DeliveryTypes, OtherTypes, HeartbeatInv, TypeOK
<1> QED
  BY DeliveryInvInit, OtherTypesInit, HeartbeatInvInit, DeliveryInvStep, OtherTypesStep,
     HeartbeatInvStep, <1>1, PTL DEF Spec

-----------------------------------------------------------------------------
(* The buttons *)

\* Cards are clicked on that have been posted, and a thread that is about to take the
\* buttons off the newest one has decided the claim.
ButtonsInv ==
  /\ \A id \in DOMAIN clicks : clicks[id].card <= posted
  /\ \A t \in Threads :
       threads[t].pc = "show" /\ clicks[threads[t].click].card = posted
         => StateOf(rounds) # "awaiting_approval"
  /\ WaitingHasButtons

\* A step that takes no buttons off and posts nothing keeps them, when no thread
\* comes to take them off and the claim does not begin to wait.
LEMMA ButtonsStay ==
  ASSUME DeliveryInv, ButtonsInv, posted' = posted, buttons' = buttons,
         \/ rounds' = rounds
         \/ StateOf(rounds)' # "awaiting_approval",
         \A id \in DOMAIN clicks' : IF id \in DOMAIN clicks THEN clicks'[id] = clicks[id]
                                    ELSE clicks'[id].card <= posted,
         DOMAIN clicks \subseteq DOMAIN clicks',
         \A t \in Threads : threads'[t].pc = "show" => threads'[t] = threads[t]
  PROVE  ButtonsInv'
<1>1. \A id \in DOMAIN clicks' : clicks'[id].card <= posted'
  BY DEF ButtonsInv
<1>2. ASSUME NEW t \in Threads, threads'[t].pc = "show",
             clicks'[threads'[t].click].card = posted'
      PROVE  StateOf(rounds)' # "awaiting_approval"
  <2>1. threads[t].pc = "show" /\ threads'[t] = threads[t]
    BY <1>2
  <2>2. threads[t].click \in DOMAIN clicks
    BY <2>1 DEF DeliveryInv, DeliveryTypes, Free
  <2>3. clicks[threads[t].click].card = posted
    BY <1>2, <2>1, <2>2
  <2>4. StateOf(rounds) # "awaiting_approval"
    BY <2>1, <2>3 DEF ButtonsInv
  <2> QED
    BY <2>4 DEF StateOf, Latest
<1>3. WaitingHasButtons'
  BY DEF ButtonsInv, WaitingHasButtons, StateOf, Latest
<1> QED
  BY <1>1, <1>2, <1>3 DEF ButtonsInv

\* A decision leaves the claim decided, or as it was.
LEMMA DecisionDecides ==
  ASSUME OtherTypes, NEW id, rounds' = UpdateWhere(rounds, DecideFrom(id), Decision(id))
  PROVE  /\ Takes(id) => StateOf(rounds)' # "awaiting_approval"
         /\ ~ Takes(id) => StateOf(rounds)' = StateOf(rounds)
<1>1. /\ DecideFrom(id) \in SUBSET SubmissionStates /\ Decision(id) \in SubmissionStates
      /\ Decision(id) # "awaiting_approval" /\ rounds \in Seq(Round)
  BY DEF DecideFrom, ApproveFrom, RejectFrom, Decision, SubmissionStates, OtherTypes
<1>2. StateOf(UpdateWhere(rounds, DecideFrom(id), Decision(id)))
        = IF StateOf(rounds) \in DecideFrom(id) THEN Decision(id) ELSE StateOf(rounds)
  BY <1>1, StateAfterUpdate
<1>3. StateOf(rounds)' = StateOf(rounds')
  BY DEF StateOf, Latest
<1> QED
  BY <1>1, <1>2, <1>3 DEF Takes

\* Every step keeps the buttons.
LEMMA ButtonsStep == DeliveryInv /\ OtherTypes /\ ButtonsInv /\ [Next]_vars => ButtonsInv'
<1> SUFFICES ASSUME DeliveryInv, OtherTypes, ButtonsInv, [Next]_vars PROVE ButtonsInv'
  OBVIOUS
<1>t. /\ threads \in [Threads -> Thread] /\ clicks \in Seq(Click)
      /\ posted \in 0 .. MaxCards /\ MaxCards \in Nat /\ MaxClicks \in Nat
      /\ buttons \subseteq 1 .. posted
  BY SocketAssumption DEF SocketAssumption, DeliveryInv, DeliveryTypes, OtherTypes
<1>f. Free.pc # "show"
  BY DEF Free
<1>q. ASSUME posted' = posted, buttons' = buttons, rounds' = rounds, clicks' = clicks,
             \/ threads' = threads
             \/ \E t \in Threads : Done(t) \/ \E pc \in {"once", "decide", "ack_view", "apply", "say"} : Goto(t, pc)
             \/ threads' = [t \in Threads |-> Free]
      PROVE  ButtonsInv'
  <2>1. \A t \in Threads : threads'[t].pc = "show" => threads'[t] = threads[t]
    <3>1. ASSUME NEW t \in Threads, Done(t)
          PROVE  \A u \in Threads : threads'[u].pc = "show" => threads'[u] = threads[u]
      BY <1>t, <1>f, <3>1 DEF Done
    <3>2. ASSUME NEW t \in Threads, NEW pc \in {"once", "decide", "ack_view", "apply", "say"}, Goto(t, pc)
          PROVE  \A u \in Threads : threads'[u].pc = "show" => threads'[u] = threads[u]
      BY <1>t, <3>2 DEF Goto, Thread
    <3> QED
      BY <1>f, <1>q, <3>1, <3>2
  <2> QED
    BY <1>q, <2>1, ButtonsStay
<1>s. ASSUME NEW k, NEW c \in buttons \union {posted}, NEW D, NEW b,
             Send([kind |-> k, card |-> c, days |-> D, approver |-> b]),
             posted' = posted, buttons' = buttons
      PROVE  ButtonsInv'
  <2> DEFINE click == [kind |-> k, card |-> c, days |-> D, approver |-> b]
  <2>1. clicks' = Append(clicks, click) /\ rounds' = rounds /\ threads' = threads
    BY <1>s DEF Send
  <2>2. click.card <= posted
    BY <1>t, <1>s
  <2> HIDE DEF click
  <2>3. /\ \A id \in DOMAIN clicks' : IF id \in DOMAIN clicks THEN clicks'[id] = clicks[id]
                                      ELSE clicks'[id].card <= posted
        /\ DOMAIN clicks \subseteq DOMAIN clicks'
    <3>1. DOMAIN clicks = 1 .. Len(clicks) /\ Len(clicks) \in Nat
      BY <1>t
    <3>2. /\ DOMAIN clicks' = 1 .. Len(clicks) + 1 /\ clicks'[Len(clicks) + 1] = click
          /\ \A id \in 1 .. Len(clicks) : clicks'[id] = clicks[id]
      BY <1>t, <2>1
    <3> QED
      BY <2>2, <3>1, <3>2
  <2> QED
    BY <1>s, <2>1, <2>3, ButtonsStay
<1>1. ASSUME NEW k \in Kinds, Answer(k) PROVE ButtonsInv'
  BY <1>1, <1>s DEF Answer, Send
<1>2. ASSUME NEW k \in Kinds, NEW c \in buttons, Stranger(k, c) PROVE ButtonsInv'
  <2>1. posted' = posted /\ buttons' = buttons
    BY <1>2 DEF Stranger, Send
  <2> DEFINE D == IF k = "correct" THEN Days ELSE {}
  <2>2. Send([kind |-> k, card |-> c, days |-> D, approver |-> FALSE])
    <3>1. [kind |-> k, card |-> c, approver |-> FALSE, days |-> D]
            = [kind |-> k, card |-> c, days |-> D, approver |-> FALSE]
      OBVIOUS
    <3> QED
      BY <1>2, <3>1 DEF Stranger
  <2> HIDE DEF D
  <2> QED
    BY <1>s, <2>1, <2>2
<1>3. ASSUME NEW k \in Kinds, NEW c \in buttons, NEW D \in SUBSET Days, Also(k, c, D)
      PROVE  ButtonsInv'
  BY <1>3, <1>s DEF Also, Send
<1>4. CASE PostCard
  <2>1. /\ posted' = posted + 1 /\ buttons' = buttons \union {posted + 1}
        /\ clicks' = clicks /\ threads' = threads
    BY <1>4 DEF PostCard
  <2>2. \A id \in DOMAIN clicks : clicks[id].card <= posted /\ clicks[id].card \in Int
    <3>1. \A id \in DOMAIN clicks : clicks[id] \in Click
      BY <1>t
    <3>2. \A id \in DOMAIN clicks : clicks[id].card \in 1 .. MaxCards
      BY <3>1 DEF Click
    <3> QED
      BY <1>t, <3>2 DEF ButtonsInv
  <2>3. \A t \in Threads : threads[t].pc = "show" => threads[t].click \in DOMAIN clicks
    BY DEF DeliveryInv, DeliveryTypes, Free
  <2>4. \A t \in Threads : threads[t].pc = "show" => clicks[threads[t].click].card # posted + 1
    BY <1>t, <2>2, <2>3
  <2>5. \A id \in DOMAIN clicks : clicks[id].card <= posted + 1
    BY <1>t, <2>2
  <2> QED
    BY <2>1, <2>4, <2>5 DEF ButtonsInv, WaitingHasButtons
<1>5. ASSUME NEW t \in Threads, NEW id \in DOMAIN clicks, Deliver(t, id) PROVE ButtonsInv'
  <2> DEFINE th == [pc |-> IF clicks[id].kind = "correct" THEN "once" ELSE "ack",
                    click |-> id, todo |-> clicks[id].days]
  <2>1. /\ threads' = [threads EXCEPT ![t] = th]
        /\ UNCHANGED <<rounds, buttons, posted, clicks>>
    BY <1>5 DEF Deliver, slack
  <2>2. th.pc # "show"
    OBVIOUS
  <2> HIDE DEF th
  <2>3. \A u \in Threads : threads'[u].pc = "show" => threads'[u] = threads[u]
    BY <1>t, <2>1, <2>2
  <2> QED
    BY <2>1, <2>3, ButtonsStay
<1>6. ASSUME NEW t \in Threads, Ack(t) \/ Once(t) \/ Say(t) \/ AckView(t) \/ SlackFails(t)
      PROVE  ButtonsInv'
  BY <1>6, <1>q DEF Ack, Once, Say, AckView, SlackFails, slack
<1>7. ASSUME NEW t \in Threads, Apply(t) PROVE ButtonsInv'
  <2>1. CASE threads[t].todo = {}
    BY <1>7, <1>q, <2>1 DEF Apply, slack
  <2>2. CASE threads[t].todo # {}
    <3>1. /\ \E d \in threads[t].todo : threads' = [threads EXCEPT ![t].todo = @ \ {d}]
          /\ threads[t].pc = "apply" /\ UNCHANGED <<rounds, buttons, posted, clicks>>
      BY <1>7, <2>2 DEF Apply, slack
    <3>2. \A u \in Threads : threads'[u].pc = "show" => threads'[u] = threads[u]
      BY <1>t, <3>1 DEF Thread
    <3> QED
      BY <3>1, <3>2, ButtonsStay
  <2> QED
    BY <2>1, <2>2
<1>8. ASSUME NEW t \in Threads, Decide(t) PROVE ButtonsInv'
  <2> DEFINE id == threads[t].click
  <2>1. /\ rounds' = UpdateWhere(rounds, DecideFrom(id), Decision(id))
        /\ UNCHANGED <<buttons, posted, clicks>>
        /\ IF Takes(id) THEN Goto(t, "show") ELSE Done(t)
    BY <1>8 DEF Decide, slack
  <2>2. CASE Takes(id)
    <3>1. StateOf(rounds)' # "awaiting_approval"
      BY <2>1, <2>2, DecisionDecides
    <3> QED
      BY <2>1, <3>1 DEF ButtonsInv, WaitingHasButtons
  <2>3. CASE ~ Takes(id)
    <3>1. StateOf(rounds)' = StateOf(rounds)
      BY <2>1, <2>3, DecisionDecides
    <3>2. \A u \in Threads : threads'[u].pc = "show" => threads'[u] = threads[u]
      BY <1>t, <1>f, <2>1, <2>3 DEF Done
    <3> QED
      BY <2>1, <3>1, <3>2 DEF ButtonsInv, WaitingHasButtons
  <2> QED
    BY <2>2, <2>3
<1>9. ASSUME NEW t \in Threads, Show(t) PROVE ButtonsInv'
  <2>1. /\ threads[t].pc = "show" /\ buttons' = buttons \ {clicks[threads[t].click].card}
        /\ UNCHANGED <<rounds, posted, clicks>> /\ threads' = [threads EXCEPT ![t] = Free]
    BY <1>9 DEF Show, Done
  <2>2. \A u \in Threads : threads'[u].pc = "show" => threads'[u] = threads[u]
    BY <1>t, <1>f, <2>1
  <2>3. StateOf(rounds) = "awaiting_approval" => clicks[threads[t].click].card # posted
    BY <2>1 DEF ButtonsInv
  <2> QED
    BY <2>1, <2>2, <2>3 DEF ButtonsInv, WaitingHasButtons
<1>10. CASE \/ UNCHANGED vars \/ Drop \/ Reconnect \/ GoDeaf \/ Interval \/ Wake
            \/ ProbeKills \/ Crash \/ Start
  BY <1>10, <1>q DEF vars, Drop, Reconnect, GoDeaf, Interval, Wake, ProbeKills, Crash, Die,
                     Start, slack
<1> QED
  BY <1>1, <1>2, <1>3, <1>4, <1>5, <1>6, <1>7, <1>8, <1>9, <1>10 DEF Next, Handle

\* A claim that waits for an approval has its newest card in Slack with the buttons on
\* it, for any number of threads, cards and clicks, and wherever the handlers die.
THEOREM WaitingClaimsHaveButtons == Spec => []WaitingHasButtons
<1>1. Init => ButtonsInv
  BY DEF Init, ButtonsInv, WaitingHasButtons, StateOf, Free
<1>2. ButtonsInv => WaitingHasButtons
  BY DEF ButtonsInv
<1> QED
  BY DeliveryInvInit, OtherTypesInit, DeliveryInvStep, OtherTypesStep, ButtonsStep, <1>1, <1>2,
     PTL DEF Spec

=============================================================================
