---------------------------- MODULE SlackSocket ----------------------------
(***************************************************************************)
(* How a click in Slack reaches the ledger: the Socket Mode connection of  *)
(* slackd.run, the handlers of slackd.build_app on Bolt's worker threads,  *)
(* the table slack_interaction that recognises a replay, the cards with    *)
(* their buttons, and the heartbeat file the liveness probe looks at.      *)
(*                                                                         *)
(* One period and claim type is enough: the days behind its card do not    *)
(* change here (Slackd and ClaimCycle are about that), so the digest on a  *)
(* button always matches.  What Slack does -- hold an interaction until it *)
(* is acknowledged, and deliver it again -- is outside src/.               *)
(***************************************************************************)
EXTENDS Ledger

CONSTANTS
  Key,          \* the period and claim type the cards are about
  Threads,      \* Bolt's worker threads
  MaxClicks,    \* bound: interactions people send
  MaxCards,     \* bound: cards the jobs post
  MaxAge,       \* heartbeatMaxAgeSeconds, in intervals of the loop
  Late,         \* intervals the loop may be late
  Kinds,        \* the interactions people send: subset of InteractionKinds
  Budget        \* bound: how often each thing of Hazards can happen

InteractionKinds == {"approve", "reject", "correct"}

\* Another click or modal, an unauthorised one, a dying process, a lost connection,
\* a Slack call that fails, and a connection that dies without anyone noticing.
Hazards == {"also", "stranger", "crash", "drop", "fault", "deaf"}

\* A day's name is not one of the other effects an interaction has.
ASSUME SocketAssumption ==
  /\ Key \in Keys /\ {"decision", "summary"} \intersect Days = {} /\ Kinds \subseteq InteractionKinds
  /\ {MaxClicks, MaxCards, MaxAge, Late} \subseteq Nat /\ Late < MaxAge
  /\ Budget \in [Hazards -> Nat]

VARIABLES
  rounds,     \* the rows of Key in table submission
  handled,    \* table slack_interaction: its dedupe keys
  buttons,    \* the cards that still have buttons
  posted,     \* how many cards have been posted
  clicks,     \* every interaction sent, in order
  unacked,    \* the interactions Slack has no acknowledgement of
  threads,    \* what each worker thread is doing
  socket,     \* "up", "down", or "deaf": open, but Slack delivers nothing
  running,    \* the slackd process
  age,        \* intervals since the heartbeat file was written
  late,       \* intervals since the loop of run last woke
  budget,     \* what is left of Budget
  history     \* for the properties: what each interaction did, and whether the
              \* socket stayed up since the heartbeat was written

vars == <<rounds, handled, buttons, posted, clicks, unacked, threads, socket,
          running, age, late, budget, history>>

slack == <<buttons, posted, clicks>>
process == <<socket, running, age, late>>

Click == [kind: InteractionKinds, card: 1 .. MaxCards, days: SUBSET Days,
          approver: BOOLEAN]
Ids == 1 .. MaxClicks
Effects == {"decision", "summary"} \union Days

Free == [pc |-> "free", click |-> 0, todo |-> {}]
Thread == [pc: {"free", "ack", "once", "ack_view", "decide", "show", "say", "apply"},
           click: 0 .. MaxClicks, todo: SUBSET Days]

TypeOK ==
  /\ rounds \in Seq(Round)
  /\ handled \subseteq InteractionKinds \X Ids
  /\ posted \in 0 .. MaxCards /\ buttons \subseteq 1 .. posted
  /\ clicks \in Seq(Click) /\ Len(clicks) <= MaxClicks
  /\ unacked \subseteq DOMAIN clicks
  /\ threads \in [Threads -> Thread]
  /\ \A t \in Threads : threads[t].click \in DOMAIN clicks \union {0}
  /\ socket \in {"up", "down", "deaf"} /\ running \in BOOLEAN
  /\ age \in 0 .. MaxAge /\ late \in 0 .. Late
  /\ \A h \in Hazards : budget[h] \in 0 .. Budget[h]
  /\ history \in [did: [Ids \X Effects -> 0 .. 2], steady: BOOLEAN]

-----------------------------------------------------------------------------
(* People and Slack *)

Spend(h) == budget[h] > 0 /\ budget' = [budget EXCEPT ![h] = @ - 1]

\* Nothing of what was clicked is still on its way.
Quiet == unacked = {} /\ \A t \in Threads : threads[t] = Free

Send(click) ==
  /\ Len(clicks) < MaxClicks
  /\ clicks' = Append(clicks, click)
  /\ unacked' = unacked \union {Len(clicks) + 1}
  /\ UNCHANGED <<rounds, handled, buttons, posted, threads, process, history>>

\* The person answers the newest card of a claim that waits.
Answer(kind) ==
  /\ kind # "correct" /\ posted \in buttons
  /\ StateOf(rounds) = "awaiting_approval"
  /\ Quiet /\ UNCHANGED budget
  /\ Send([kind |-> kind, card |-> posted, days |-> {}, approver |-> TRUE])

\* What else they send, at any moment: a second click before the first has been
\* answered, a click on an old card, or the modal behind the card's third button
\* (handle_correct only opens it and changes nothing).
Also(kind, card, D) ==
  /\ IF kind = "correct" THEN D # {} ELSE D = {}
  /\ Spend("also")
  /\ Send([kind |-> kind, card |-> card, days |-> D, approver |-> TRUE])

\* Anyone in the channel can click.
Stranger(kind, card) ==
  /\ Spend("stranger")
  /\ Send([kind |-> kind, card |-> card, approver |-> FALSE,
           days |-> IF kind = "correct" THEN Days ELSE {}])

\* The jobs post a card for what waits: the first one, and a new one when the
\* filing of an approved claim failed.
PostCard ==
  /\ posted < MaxCards
  /\ StateOf(rounds) \in {"none", "approved"}
  /\ rounds' = UpsertSubmission(rounds, Days, "awaiting_approval")
  /\ posted' = posted + 1
  /\ buttons' = buttons \union {posted + 1}
  /\ UNCHANGED <<handled, clicks, unacked, threads, process, budget, history>>

\* Slack delivers what is not acknowledged, and delivers it again.
Deliver(t, id) ==
  /\ running /\ socket = "up"
  /\ threads[t] = Free /\ id \in unacked
  /\ threads' = [threads EXCEPT ![t] =
       [pc |-> IF clicks[id].kind = "correct" THEN "once" ELSE "ack",
        click |-> id, todo |-> clicks[id].days]]
  /\ UNCHANGED <<rounds, handled, slack, unacked, process, budget, history>>

-----------------------------------------------------------------------------
(* The handlers of build_app *)

Authorised(id) == clicks[id].approver

Count(id, effect) ==
  history' = [history EXCEPT !.did[<<id, effect>>] = IF @ < 2 THEN @ + 1 ELSE @]

Goto(t, pc) == threads' = [threads EXCEPT ![t].pc = pc]
Done(t) == threads' = [threads EXCEPT ![t] = Free]

\* ack() travels over the socket, and is lost with it.
Acknowledge(id) == unacked' = IF socket = "up" THEN unacked \ {id} ELSE unacked

\* _touch_heartbeat.
Touch(did) ==
  /\ age' = 0
  /\ history' = [did |-> did, steady |-> socket # "down"]

\* handle_approve, handle_reject: the acknowledgement comes before anything else.
Ack(t) ==
  LET id == threads[t].click
  IN  /\ threads[t].pc = "ack"
      /\ Acknowledge(id)
      /\ Touch(history.did)
      /\ IF Authorised(id) THEN Goto(t, "once") ELSE Done(t)
      /\ UNCHANGED <<rounds, handled, slack, socket, running, late, budget>>

\* Mutant: the key is the message the button is on.
DedupeKeyOfMessage(id) == <<clicks[id].kind, clicks[id].card>>

\* Every interaction has a trigger_id of its own, and a replay has it again.
DedupeKey(id) == <<clicks[id].kind, id>>

\* Mutant: the table is not looked at.
FreshAlways(id) == TRUE

\* claim_slack_interaction: FALSE for a key that is in the table.
Fresh(id) == DedupeKey(id) \notin handled

\* once(), in a transaction of its own.
Once(t) ==
  LET id == threads[t].click
      correct == clicks[id].kind = "correct"
  IN  /\ threads[t].pc = "once"
      /\ \/ /\ correct /\ ~ Authorised(id)
            /\ Acknowledge(id)
            /\ Done(t) /\ UNCHANGED handled
         \/ /\ correct => Authorised(id)
            /\ Fresh(id)
            /\ handled' = handled \union {DedupeKey(id)}
            /\ Goto(t, IF correct THEN "ack_view" ELSE "decide")
            /\ UNCHANGED unacked
         \/ /\ correct => Authorised(id)
            /\ ~ Fresh(id)
            /\ IF correct THEN Acknowledge(id) ELSE UNCHANGED unacked
            /\ Done(t) /\ UNCHANGED handled
      /\ UNCHANGED <<rounds, slack, process, budget, history>>

\* approve_submission and reject_submission.
DecideFrom(id) == IF clicks[id].kind = "approve" THEN ApproveFrom ELSE RejectFrom

\* Mutant: the state written is not one of the table's.
DecisionKind(id) == clicks[id].kind

Decision(id) == IF clicks[id].kind = "approve" THEN "approved" ELSE "rejected"
Takes(id) == StateOf(rounds) \in DecideFrom(id)

\* Mutant: the card is updated before the row.
DecideCardFirst(t) ==
  LET id == threads[t].click
  IN  /\ threads[t].pc = "decide"
      /\ IF Takes(id) /\ clicks[id].card \in buttons
         THEN /\ buttons' = buttons \ {clicks[id].card}
              /\ UNCHANGED <<rounds, threads, history>>
         ELSE /\ rounds' = UpdateWhere(rounds, DecideFrom(id), Decision(id))
              /\ IF Takes(id) THEN Count(id, "decision") ELSE UNCHANGED history
              /\ Done(t)
              /\ UNCHANGED buttons
      /\ UNCHANGED <<handled, posted, clicks, unacked, process, budget>>

Decide(t) ==
  LET id == threads[t].click
  IN  /\ threads[t].pc = "decide"
      /\ rounds' = UpdateWhere(rounds, DecideFrom(id), Decision(id))
      /\ IF Takes(id)
         THEN Goto(t, "show") /\ Count(id, "decision")
         ELSE Done(t) /\ UNCHANGED history
      /\ UNCHANGED <<handled, slack, unacked, process, budget>>

\* chat_update: decided_card takes the buttons off.  The message an approval adds
\* to the thread after it changes nothing.
Show(t) ==
  LET id == threads[t].click
  IN  /\ threads[t].pc = "show"
      /\ buttons' = buttons \ {clicks[id].card}
      /\ Done(t)
      /\ UNCHANGED <<rounds, handled, posted, clicks, unacked, process, budget, history>>

\* The summary of a correction.
Say(t) ==
  LET id == threads[t].click
  IN  /\ threads[t].pc = "say"
      /\ Done(t)
      /\ Count(id, "summary")
      /\ UNCHANGED <<rounds, handled, slack, unacked, process, budget>>

\* A Slack call raises: Bolt logs it and the handler ends.
SlackFails(t) ==
  /\ threads[t].pc \in {"show", "say"}
  /\ Spend("fault")
  /\ Done(t)
  /\ UNCHANGED <<rounds, handled, slack, unacked, process, history>>

\* handle_corrections: acknowledged after once() and before the writes.
AckView(t) ==
  LET id == threads[t].click
  IN  /\ threads[t].pc = "ack_view"
      /\ Acknowledge(id)
      /\ Touch(history.did)
      /\ Goto(t, "apply")
      /\ UNCHANGED <<rounds, handled, slack, socket, running, late, budget>>

\* apply_override commits day by day; what it does to a row is in Slackd.
Apply(t) ==
  /\ threads[t].pc = "apply"
  /\ IF threads[t].todo = {}
     THEN Goto(t, "say") /\ UNCHANGED history
     ELSE \E d \in threads[t].todo :
            /\ threads' = [threads EXCEPT ![t].todo = @ \ {d}]
            /\ Count(threads[t].click, d)
  /\ UNCHANGED <<rounds, handled, slack, unacked, process, budget>>

Handle(t) ==
  Ack(t) \/ Once(t) \/ Decide(t) \/ Show(t) \/ Say(t) \/ AckView(t) \/ Apply(t)

-----------------------------------------------------------------------------
(* The connection, the heartbeat and the probe *)

\* The connection closes, and what was on its way is not acknowledged.
Drop ==
  /\ running /\ socket # "down"
  /\ Spend("drop")
  /\ socket' = "down"
  /\ history' = [history EXCEPT !.steady = FALSE]
  /\ UNCHANGED <<rounds, handled, slack, unacked, threads, running, age, late>>

\* The SDK may get it back, in the background.
Reconnect ==
  /\ running /\ socket = "down"
  /\ socket' = "up"
  /\ UNCHANGED <<rounds, handled, slack, unacked, threads, running, age, late, budget, history>>

GoDeaf ==
  /\ running /\ socket = "up"
  /\ Spend("deaf")
  /\ socket' = "deaf"
  /\ UNCHANGED <<rounds, handled, slack, unacked, threads, running, age, late, history>>

\* An interval passes: the file ages, and the loop is due.
Interval ==
  /\ running /\ late < Late /\ age < MaxAge
  /\ late' = late + 1 /\ age' = age + 1
  /\ UNCHANGED <<rounds, handled, slack, unacked, threads, socket, running, budget, history>>

\* Mutant: only the handlers write the heartbeat.
BelievesConnectedNever == FALSE

\* handler.client.is_connected().
BelievesConnected == socket # "down"

\* The loop of run wakes from its sleep.
Wake ==
  /\ running /\ late > 0
  /\ late' = 0
  /\ IF BelievesConnected THEN Touch(history.did) ELSE UNCHANGED <<age, history>>
  /\ UNCHANGED <<rounds, handled, slack, unacked, threads, socket, running, budget>>

Die ==
  /\ running' = FALSE /\ socket' = "down"
  /\ threads' = [t \in Threads |-> Free]
  /\ UNCHANGED <<rounds, handled, slack, unacked, age, late, history>>

\* The liveness probe finds the file too old.
ProbeKills == running /\ age = MaxAge /\ Die /\ UNCHANGED budget

\* The node goes, or the pod is replaced.
Crash == running /\ Spend("crash") /\ Die

\* A new process: connect(), and the first heartbeat.
Start ==
  /\ ~ running
  /\ running' = TRUE /\ socket' = "up" /\ age' = 0 /\ late' = 0
  /\ history' = [history EXCEPT !.steady = TRUE]
  /\ UNCHANGED <<rounds, handled, slack, unacked, threads, budget>>

-----------------------------------------------------------------------------
Init ==
  /\ rounds = <<>> /\ handled = {} /\ buttons = {} /\ posted = 0
  /\ clicks = <<>> /\ unacked = {}
  /\ threads = [t \in Threads |-> Free]
  /\ socket = "up" /\ running = TRUE /\ age = 0 /\ late = 0
  /\ budget = Budget
  /\ history = [did |-> [e \in Ids \X Effects |-> 0], steady |-> TRUE]

Next ==
  \/ \E k \in Kinds :
       \/ Answer(k)
       \/ \E c \in buttons : Stranger(k, c) \/ \E D \in SUBSET Days : Also(k, c, D)
  \/ PostCard
  \/ \E t \in Threads :
       \/ \E id \in DOMAIN clicks : Deliver(t, id)
       \/ Handle(t) \/ SlackFails(t)
  \/ Drop \/ Reconnect \/ GoDeaf \/ Interval \/ Wake \/ ProbeKills \/ Crash \/ Start

Spec == Init /\ [][Next]_vars

\* Worker threads run, Slack delivers while the socket is up, time passes, the
\* loop wakes, the kubelet probes and restarts, a person who wants the claim
\* filed clicks until it is decided, and build posts.  That a lost connection
\* comes back is not assumed.
Fairness ==
  /\ \A t \in Threads : WF_vars(Handle(t))
  /\ SF_vars(\E t \in Threads, id \in DOMAIN clicks : Deliver(t, id))
  /\ WF_vars(Interval) /\ WF_vars(Wake) /\ WF_vars(ProbeKills) /\ WF_vars(Start)
  /\ SF_vars(Answer("approve"))

FairSpec == Spec /\ Fairness

-----------------------------------------------------------------------------
(* Properties *)

\* A click acts once however often Slack delivers it: one decision, one write of
\* each day, one message ("Without this, a reconnect during an approval could
\* approve the same period twice", slackd.once).  An approval replayed after a
\* rejection or a new card would decide what nobody decided.
ClickActsOnce == \A e \in Ids \X Effects : history.did[e] <= 1

\* What waits can be decided: a claim that waits for an approval has its newest
\* card in Slack with the buttons on it, however the handlers die.
WaitingHasButtons ==
  StateOf(rounds) = "awaiting_approval" => posted \in buttons

\* No process is restarted whose socket has stayed up since the last heartbeat,
\* however quiet the week ("which is exactly what it did", slackd.run).
LiveSocketIsNotKilled == [][ProbeKills => ~ history.steady]_vars

\* An approval gets through: crashes, lost connections and failed answers cost a
\* click at most, and a socket that never comes back costs a restart, not the
\* month.
ApprovalGetsThrough ==
  StateOf(rounds) = "awaiting_approval" ~> StateOf(rounds) # "awaiting_approval"

=============================================================================
