----------------------------- MODULE LedgerSpec -----------------------------
(***************************************************************************)
(* What the ledger promises whoever calls it: any function of store.py, on *)
(* any arguments its callers can pass, in any order.  ClaimCycle, the jobs *)
(* and the Slack handlers together, implements this specification.         *)
(*                                                                         *)
(* Every function commits once, so it is one action.  approve_submission   *)
(* is two: its SELECT (the digest comparison) and its UPDATE see different *)
(* snapshots under READ COMMITTED, and other writers come in between.      *)
(***************************************************************************)
EXTENDS Ledger

CONSTANT MaxRounds   \* bound: rounds of one key

ASSUME MaxRoundsAssumption == MaxRounds \in Nat

VARIABLES
  claimDay,     \* table claim_day: [Days -> DayRow]
  submission,   \* table submission: [Keys -> Seq(Round)]
  approving     \* approvals past the digest comparison, UPDATE still to run

vars == <<claimDay, submission, approving>>

Approval == [key: Keys, digest: SUBSET Days]

\* Types, and every row within the CHECK constraint of its table.
TypeOK ==
  /\ claimDay \in [Days -> DayRow]
  /\ \A d \in Days : StateMatchesClaimType(claimDay[d])
  /\ submission \in [Keys -> Seq(Round)]
  /\ approving \subseteq Approval

Init ==
  /\ claimDay \in [Days -> FreshRow]
  /\ submission = [k \in Keys |-> <<>>]
  /\ approving = {}

-----------------------------------------------------------------------------

Record(d, c) ==
  /\ claimDay' = RecordDay(claimDay, d, c)
  /\ UNCHANGED <<submission, approving>>

Override(d, t) ==
  /\ claimDay' = ApplyOverride(claimDay, d, t)
  /\ UNCHANGED <<submission, approving>>

\* A statement that breaks the CHECK constraint raises and writes nothing.
MarkDays(D, s) ==
  /\ MarkAccepted(claimDay, D, s)
  /\ claimDay' = MarkDaysState(claimDay, D, s)
  /\ UNCHANGED <<submission, approving>>

Upsert(k, D, s) ==
  /\ NeedsNewRound(submission[k]) => Len(submission[k]) < MaxRounds
  /\ submission' = [submission EXCEPT ![k] = UpsertSubmission(@, D, s)]
  /\ UNCHANGED <<claimDay, approving>>

\* approve_submission, its SELECT: the card's digest is that of the live days.
ApproveCompare(k, D) ==
  /\ ClaimableDays(claimDay, k) = D
  /\ approving' = approving \union {[key |-> k, digest |-> D]}
  /\ UNCHANGED <<claimDay, submission>>

\* approve_submission, its UPDATE.
ApproveUpdate(a) ==
  /\ a \in approving
  /\ approving' = approving \ {a}
  /\ submission' = [submission EXCEPT ![a.key] = UpdateWhere(@, ApproveFrom, "approved")]
  /\ UNCHANGED claimDay

Reject(k) ==
  /\ submission' = [submission EXCEPT ![k] = UpdateWhere(@, RejectFrom, "rejected")]
  /\ UNCHANGED <<claimDay, approving>>

SetState(k, s) ==
  /\ submission' = [submission EXCEPT ![k] = SetSubmissionState(@, s)]
  /\ UNCHANGED <<claimDay, approving>>

SetStateWithDigest(k, s, D) ==
  /\ submission' = [submission EXCEPT ![k] = SetStateAndDigest(@, s, D)]
  /\ UNCHANGED <<claimDay, approving>>

DayStep ==
  \/ \E d \in Days, c \in Classification : Record(d, c)
  \/ \E d \in Days, t \in ClaimTypes \union {NoType} : Override(d, t)
  \/ \E D \in SUBSET Days, s \in {"drafted", "submitted", "needs_input"} : MarkDays(D, s)

SubmissionStep ==
  \/ \E k \in Keys, D \in SUBSET Days, s \in {"drafted", "awaiting_approval", "failed"} :
       Upsert(k, D, s)
  \/ \E k \in Keys, D \in SUBSET Days : ApproveCompare(k, D)
  \/ \E a \in approving : ApproveUpdate(a)
  \/ \E k \in Keys : Reject(k)
  \/ \E k \in Keys, s \in SubmissionStates \ {"rejected"} : SetState(k, s)
  \/ \E k \in Keys, D \in SUBSET Days : SetStateWithDigest(k, "awaiting_approval", D)

Next == DayStep \/ SubmissionStep

Spec == Init /\ [][Next]_vars

-----------------------------------------------------------------------------
(* Properties *)

\* A period and claim type has at most one round in motion, and it is the
\* latest: every earlier round has been filed (open_round, and the WHERE
\* clauses that select rounds by state and not by round_no).
OnlyLatestRoundOpen ==
  \A k \in Keys : \A i \in 1 .. Len(submission[k]) :
    IsOpen(submission[k][i]) => i = Len(submission[k])

\* A filed round is history: whatever is approved, rejected, upserted or set
\* later, its row stays as it was ("A filed round is history").
RoundHistoryStep ==
  \A k \in Keys : \A i \in 1 .. Len(submission[k]) :
    ~ IsOpen(submission[k][i]) =>
      i \in 1 .. Len(submission'[k]) /\ submission'[k][i] = submission[k][i]

FiledRoundIsHistory == [][RoundHistoryStep]_vars

\* A filed day keeps its row through nightly runs, overrides and marks
\* (record_day, apply_override and mark_days_state each exclude `submitted').
DayHistoryStep ==
  \A d \in Days : claimDay[d].state = "submitted" => claimDay'[d] = claimDay[d]

FiledDayIsHistory == [][DayHistoryStep]_vars

\* A human's word on a day is not lost: the row stays marked as overridden, and
\* only another human decision changes what the day claims.
HumanDecisionStep ==
  \A d \in Days :
    claimDay[d].overridden =>
      /\ claimDay'[d].overridden
      /\ claimDay'[d].type # claimDay[d].type =>
           claimDay'[d].state \in {"confirmed", "excluded"}

HumanDecisionKept == [][HumanDecisionStep]_vars

=============================================================================
