------------------------------- MODULE Ledger -------------------------------
(***************************************************************************)
(* The claim ledger of store.py: what one row of each Postgres table holds *)
(* and what each store function does to the tables.  Pure operators only;  *)
(* LedgerSpec and ClaimCycle own the variables.                            *)
(*                                                                         *)
(* `claim_day' is a function from the days to rows, because the day is its *)
(* primary key.  A day nobody recorded has the row NoRow.  `submission' is *)
(* a function from the keys (period, claim type) to the sequence of rounds *)
(* of that key: round_no is the position in the sequence.  A row's         *)
(* lines_digest is the set of days it was computed from: the hash is taken *)
(* to tell two sets of days of one claim type apart.                       *)
(***************************************************************************)
EXTENDS Naturals, Sequences, FiniteSets

CONSTANTS
  Days,        \* the dates in play
  Periods,     \* the payroll periods, numbered in calendar order
  PeriodOf,    \* PeriodOf[d] is store.period_for(d)
  ClaimTypes   \* the claim types of models.ClaimType in play

NoType == "none"

ASSUME PeriodAssumption == Periods \subseteq Nat /\ PeriodOf \in [Days -> Periods]
ASSUME ClaimTypeAssumption == NoType \notin ClaimTypes

Keys == [period: Periods, type: ClaimTypes]

-----------------------------------------------------------------------------
(* Rows *)

\* States in which a row must say what it claims (state_matches_claim_type).
ClaimStates == {"planned", "confirmed", "drafted", "submitted"}
OtherStates == {"needs_input", "excluded"}
DayStates == ClaimStates \union OtherStates

NoRow == [type |-> NoType, state |-> "unrecorded", overridden |-> FALSE]

DayRow == [type: ClaimTypes \union {NoType},
           state: DayStates \union {"unrecorded"},
           overridden: BOOLEAN]

\* The CHECK constraint state_matches_claim_type.
StateMatchesClaimType(row) == row.state \in ClaimStates => row.type # NoType

SubmissionStates == {"drafted", "awaiting_approval", "approved", "in_flight",
                     "submitted", "rejected", "failed", "needs_reconciliation"}

Round == [state: SubmissionStates, digest: SUBSET Days]

\* What a classification writes: models.DayClassification.claim_type / .state.
Classification ==
  [type: ClaimTypes, state: {"planned"}]
    \union [type: {NoType}, state: {"needs_input", "excluded"}]

ClassifiedRow(c) == [type |-> c.type, state |-> c.state, overridden |-> FALSE]

\* What the table can hold of a day before anything but classify has written.
FreshRow == {NoRow} \union {ClassifiedRow(c) : c \in Classification}

-----------------------------------------------------------------------------
(* claim_day *)

\* Mutant: the nightly run overwrites what a person decided.
RewritableOverridden(row) == row.state \notin {"submitted", "drafted"}

\* Rows the nightly record_day may replace; a day without a row is inserted.
Rewritable(row) == row.state \notin {"submitted", "drafted"} /\ ~ row.overridden

RecordDay(table, d, c) ==
  IF Rewritable(table[d])
  THEN [table EXCEPT ![d] = ClassifiedRow(c)]
  ELSE table

\* Mutant: a filed day can still be corrected.
OverridableFiled(row) == TRUE

\* Rows a human decision may replace.
Overridable(row) == row.state # "submitted"

\* Mutant: an absent day is confirmed instead of excluded.
ApplyOverrideConfirms(table, d, t) ==
  [table EXCEPT ![d] = [type |-> t, state |-> "confirmed", overridden |-> TRUE]]

ApplyOverride(table, d, t) ==
  IF Overridable(table[d])
  THEN [table EXCEPT ![d] = [type |-> t,
                             state |-> IF t = NoType THEN "excluded" ELSE "confirmed",
                             overridden |-> TRUE]]
  ELSE table

\* Rows mark_days_state may move; it inserts nothing.
Markable(row) == row.state \notin {"submitted", "unrecorded"}

MarkDaysState(table, D, s) ==
  [d \in Days |-> IF d \in D /\ Markable(table[d])
                  THEN [table[d] EXCEPT !.state = s]
                  ELSE table[d]]

\* FALSE: the UPDATE breaks the CHECK constraint, writes nothing and raises.
MarkAccepted(table, D, s) ==
  \A d \in D : StateMatchesClaimType(MarkDaysState(table, D, s)[d])

ClaimableDays(table, k) ==
  {d \in Days : /\ PeriodOf[d] = k.period
                /\ table[d].type = k.type
                /\ table[d].state \in {"planned", "confirmed", "drafted"}}

-----------------------------------------------------------------------------
(* submission: `rounds' is the sequence of rounds of one key *)

IsOpen(round) == round.state # "submitted"

Latest(rounds) == rounds[Len(rounds)]

\* The state get_submission shows, "none" when there is no row.
StateOf(rounds) == IF rounds = <<>> THEN "none" ELSE Latest(rounds).state

DigestIs(rounds, D) == rounds # <<>> /\ Latest(rounds).digest = D

\* Mutant: a failed declaration gets a new round, not a new attempt.
NeedsNewRoundOnFailure(rounds) ==
  rounds = <<>> \/ Latest(rounds).state \in {"submitted", "failed"}

\* open_round: a new round when there is none or the latest has been filed.
NeedsNewRound(rounds) == rounds = <<>> \/ ~ IsOpen(Latest(rounds))

\* Rounds the upsert's DO UPDATE leaves alone.
UpsertProtected == {"submitted", "in_flight"}

UpsertSubmission(rounds, D, s) ==
  LET row == [state |-> s, digest |-> D]
  IN  IF NeedsNewRound(rounds) THEN Append(rounds, row)
      ELSE IF Latest(rounds).state \in UpsertProtected THEN rounds
      ELSE [rounds EXCEPT ![Len(rounds)] = row]

\* UPDATE submission SET state = s WHERE <key> AND state IN S
UpdateWhere(rounds, S, s) ==
  [i \in 1 .. Len(rounds) |->
     IF rounds[i].state \in S THEN [rounds[i] EXCEPT !.state = s] ELSE rounds[i]]

ApproveFrom == {"awaiting_approval", "rejected"}

\* Mutant: a declaration in flight can be rejected.
RejectFromInFlight == {"awaiting_approval", "approved", "in_flight"}

RejectFrom == {"awaiting_approval", "approved"}

\* Mutant: set_submission_state without its `state <> submitted'.
SetFromFiled == SubmissionStates

SetFrom == SubmissionStates \ {"submitted"}

SetSubmissionState(rounds, s) == UpdateWhere(rounds, SetFrom, s)

\* The same call with digest=: the row is bound to the days given.
SetStateAndDigest(rounds, s, D) ==
  [i \in 1 .. Len(rounds) |->
     IF rounds[i].state \in SetFrom THEN [state |-> s, digest |-> D] ELSE rounds[i]]

=============================================================================
