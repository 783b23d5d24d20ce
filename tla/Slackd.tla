------------------------------- MODULE Slackd -------------------------------
(***************************************************************************)
(* What people and the nightly run do to the ledger: the Slack handlers of *)
(* slackd.py, cli.cmd_override and the record_day of cli.cmd_classify.     *)
(* Bolt runs handlers on threads of their own, each with a connection of   *)
(* its own, so an approval can be between its SELECT and its UPDATE while  *)
(* anything else runs.                                                     *)
(***************************************************************************)
EXTENDS ClaimState

\* A decided card loses its buttons, unless chat_update fails or Slack shows
\* the same card twice.
Decided(c) == cards' = cards \ {c} \/ UNCHANGED cards

\* Mutant: the digest on the button is not compared.
DigestStandsAlways(c) == TRUE

\* handle_approve up to the SELECT of approve_submission: the digest on the
\* button is that of the days now claimable.
DigestStands(c) == ClaimableDays(claimDay, c.key) = c.digest

ApproveCompare(c) ==
  /\ c \in cards
  /\ DigestStands(c)
  /\ approving' = approving \union {c}
  /\ UNCHANGED <<claimDay, submission, tasks, cards, lock, build, submit, dryRun, budget,
                 history>>

\* The UPDATE, and what handle_approve does to the card when it took.
ApproveUpdate(a) ==
  LET took == StateOf(submission[a.key]) \in ApproveFrom
  IN  /\ a \in approving
      /\ approving' = approving \ {a}
      /\ submission' = [submission EXCEPT ![a.key] = UpdateWhere(@, ApproveFrom, "approved")]
      /\ IF took
         THEN /\ Decided(a)
              /\ history' = [history EXCEPT
                   !.approved = @ \union {a},
                   !.decision[a.key] = "approved",
                   !.clicks[a.key] = 0]
         ELSE UNCHANGED <<cards, history>>
      /\ UNCHANGED <<claimDay, tasks, lock, build, submit, dryRun, budget>>

\* handle_reject.  Rejecting what no longer waits does nothing.
Reject(c) ==
  /\ c \in cards
  /\ StateOf(submission[c.key]) \in RejectFrom
  /\ submission' = [submission EXCEPT ![c.key] = UpdateWhere(@, RejectFrom, "rejected")]
  /\ Decided(c)
  /\ history' = [history EXCEPT !.decision[c.key] = "rejected"]
  /\ UNCHANGED <<claimDay, approving, tasks, lock, build, submit, dryRun, budget>>

\* Mutant: the correction is written without looking at the row.
CorrectBlindly(d, t) ==
  /\ DaysMayChange
  /\ claimDay' = [claimDay EXCEPT ![d] = [type |-> t, overridden |-> TRUE,
                     state |-> IF t = NoType THEN "excluded" ELSE "confirmed"]]
  /\ Spend("change")
  /\ UNCHANGED <<submission, approving, tasks, cards, lock, build, submit, dryRun, history>>

\* One day of handle_corrections, or cmd_override.
Correct(d, t) ==
  /\ DaysMayChange
  /\ claimDay' = ApplyOverride(claimDay, d, t)
  /\ Spend("change")
  /\ UNCHANGED <<submission, approving, tasks, cards, lock, build, submit, dryRun, history>>

\* One day of the nightly cmd_classify.
Classify(d, c) ==
  /\ DaysMayChange
  /\ claimDay' = RecordDay(claimDay, d, c)
  /\ claimDay' # claimDay
  /\ Spend("change")
  /\ UNCHANGED <<submission, approving, tasks, cards, lock, build, submit, dryRun, history>>

LedgerInput ==
  \/ \E d \in Days, t \in ClaimTypes \union {NoType} : Correct(d, t)
  \/ \E d \in Days, c \in Classification : Classify(d, c)

Decide ==
  \/ \E c \in cards : ApproveCompare(c) \/ Reject(c)
  \/ \E a \in approving : ApproveUpdate(a)

SlackdNext == LedgerInput \/ Decide

=============================================================================
