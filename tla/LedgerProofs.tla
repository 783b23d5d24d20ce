---------------------------- MODULE LedgerProofs ----------------------------
(***************************************************************************)
(* Theorems about LedgerSpec, for every set of days, periods, claim types  *)
(* and every bound on the rounds.                                          *)
(***************************************************************************)
EXTENDS LedgerSpec, LedgerLemmas

-----------------------------------------------------------------------------
(* Type correctness *)

\* Whatever is called, every row keeps its type and satisfies the CHECK
\* constraint of its table.
THEOREM TypeCorrect == Spec => []TypeOK
<1>1. Init => TypeOK
  <2>1. NoRow \in DayRow /\ StateMatchesClaimType(NoRow)
    BY DEF NoRow, DayRow, StateMatchesClaimType, ClaimStates
  <2>2. \A row \in FreshRow : row \in DayRow /\ StateMatchesClaimType(row)
    BY <2>1, ClassifiedRowOK DEF FreshRow
  <2> QED
    BY <2>2 DEF Init, TypeOK, Approval
<1>2. TypeOK /\ [Next]_vars => TypeOK'
  <2> SUFFICES ASSUME TypeOK, [Next]_vars
               PROVE  TypeOK'
    OBVIOUS
  <2> USE DEF TypeOK
  <2>1. TableOK(claimDay)
    BY DEF TableOK
  <2>2. ASSUME NEW d \in Days, NEW c \in Classification, Record(d, c)
        PROVE  TypeOK'
    BY <2>1, <2>2, RecordDayOK DEF Record, TableOK
  <2>3. ASSUME NEW d \in Days, NEW t \in ClaimTypes \union {NoType}, Override(d, t)
        PROVE  TypeOK'
    BY <2>1, <2>3, ApplyOverrideOK DEF Override, TableOK
  <2>4. ASSUME NEW D \in SUBSET Days, NEW s \in {"drafted", "submitted", "needs_input"},
               MarkDays(D, s)
        PROVE  TypeOK'
    <3>1. s \in DayStates
      BY DEF DayStates, ClaimStates, OtherStates
    <3> QED
      BY <2>1, <2>4, <3>1, MarkDaysStateOK DEF MarkDays, TableOK
  <2>5. ASSUME NEW k \in Keys, NEW D \in SUBSET Days,
               NEW s \in {"drafted", "awaiting_approval", "failed"}, Upsert(k, D, s)
        PROVE  TypeOK'
    <3>1. s \in SubmissionStates
      BY DEF SubmissionStates
    <3>2. UpsertSubmission(submission[k], D, s) \in Seq(Round)
      BY <3>1, UpsertFacts
    <3> QED
      BY <2>5, <3>2 DEF Upsert
  <2>6. ASSUME NEW k \in Keys, NEW D \in SUBSET Days, ApproveCompare(k, D)
        PROVE  TypeOK'
    BY <2>6 DEF ApproveCompare, Approval
  <2>7. ASSUME NEW a \in approving, ApproveUpdate(a)
        PROVE  TypeOK'
    <3>1. a.key \in Keys
      BY DEF Approval
    <3>2. UpdateWhere(submission[a.key], ApproveFrom, "approved") \in Seq(Round)
      BY <3>1, UpdateWhereFacts DEF SubmissionStates
    <3> QED
      BY <2>7, <3>1, <3>2 DEF ApproveUpdate
  <2>8. ASSUME NEW k \in Keys, Reject(k)
        PROVE  TypeOK'
    <3>1. UpdateWhere(submission[k], RejectFrom, "rejected") \in Seq(Round)
      BY UpdateWhereFacts DEF SubmissionStates
    <3> QED
      BY <2>8, <3>1 DEF Reject
  <2>9. ASSUME NEW k \in Keys, NEW s \in SubmissionStates \ {"rejected"}, SetState(k, s)
        PROVE  TypeOK'
    <3>1. SetSubmissionState(submission[k], s) \in Seq(Round)
      BY UpdateWhereFacts DEF SetSubmissionState
    <3> QED
      BY <2>9, <3>1 DEF SetState
  <2>10. ASSUME NEW k \in Keys, NEW D \in SUBSET Days,
                SetStateWithDigest(k, "awaiting_approval", D)
         PROVE  TypeOK'
    <3>1. SetStateAndDigest(submission[k], "awaiting_approval", D) \in Seq(Round)
      BY SetStateAndDigestFacts DEF SubmissionStates
    <3> QED
      BY <2>10, <3>1 DEF SetStateWithDigest
  <2>11. CASE UNCHANGED vars
    BY <2>11 DEF vars
  <2> QED
    BY <2>2, <2>3, <2>4, <2>5, <2>6, <2>7, <2>8, <2>9, <2>10, <2>11
       DEF Next, DayStep, SubmissionStep
<1> QED
  BY <1>1, <1>2, PTL DEF Spec

-----------------------------------------------------------------------------
(* The rounds of a key *)

\* One step of the rounds of one key: either open rounds change and filed ones
\* stay, or a round is added while none is open.
RoundsStep(rounds, new) ==
  \/ /\ Len(new) = Len(rounds)
     /\ \A i \in 1 .. Len(rounds) : ~ IsOpen(rounds[i]) => new[i] = rounds[i]
  \/ /\ NeedsNewRound(rounds)
     /\ Len(new) = Len(rounds) + 1
     /\ \A i \in 1 .. Len(rounds) : new[i] = rounds[i]

\* An update by state is a RoundsStep: filed rounds are in no set it selects.
LEMMA UpdateWhereStep ==
  ASSUME NEW rounds \in Seq(Round), NEW S \in SUBSET SetFrom, NEW s \in SubmissionStates
  PROVE  RoundsStep(rounds, UpdateWhere(rounds, S, s))
<1>1. \A i \in 1 .. Len(rounds) : ~ IsOpen(rounds[i]) => rounds[i].state \notin S
  BY DEF IsOpen, SetFrom
<1>2. Len(UpdateWhere(rounds, S, s)) = Len(rounds)
  BY UpdateWhereFacts
<1>3. \A i \in 1 .. Len(rounds) :
        rounds[i].state \notin S => UpdateWhere(rounds, S, s)[i] = rounds[i]
  BY UpdateWhereFacts
<1> QED
  BY <1>1, <1>2, <1>3 DEF RoundsStep

\* set_submission_state with a digest is a RoundsStep.
LEMMA SetStateAndDigestStep ==
  ASSUME NEW rounds \in Seq(Round), NEW s \in SubmissionStates, NEW D \in SUBSET Days
  PROVE  RoundsStep(rounds, SetStateAndDigest(rounds, s, D))
<1>1. \A i \in 1 .. Len(rounds) : ~ IsOpen(rounds[i]) => rounds[i].state \notin SetFrom
  BY DEF IsOpen, SetFrom
<1>2. Len(SetStateAndDigest(rounds, s, D)) = Len(rounds)
  BY SetStateAndDigestFacts
<1>3. \A i \in 1 .. Len(rounds) :
        rounds[i].state \notin SetFrom => SetStateAndDigest(rounds, s, D)[i] = rounds[i]
  BY SetStateAndDigestFacts
<1> QED
  BY <1>1, <1>2, <1>3 DEF RoundsStep

\* upsert_submission is a RoundsStep.
LEMMA UpsertStep ==
  ASSUME NEW rounds \in Seq(Round), NEW s \in SubmissionStates, NEW D \in SUBSET Days
  PROVE  RoundsStep(rounds, UpsertSubmission(rounds, D, s))
<1> DEFINE row == [state |-> s, digest |-> D]
           new == UpsertSubmission(rounds, D, s)
<1>1. CASE NeedsNewRound(rounds) /\ new = Append(rounds, row)
  BY <1>1 DEF RoundsStep
<1>2. CASE new = rounds
  BY <1>2 DEF RoundsStep
<1>3. CASE /\ rounds # <<>>
           /\ IsOpen(Latest(rounds))
           /\ new = [rounds EXCEPT ![Len(rounds)] = row]
  BY <1>3 DEF RoundsStep, Latest
<1> QED
  BY <1>1, <1>2, <1>3, UpsertFacts

\* Every step takes the rounds of each key by a RoundsStep.
LEMMA NextRoundsStep ==
  ASSUME TypeOK, [Next]_vars, NEW k \in Keys
  PROVE  RoundsStep(submission[k], submission'[k])
<1>0. submission[k] \in Seq(Round) /\ submission \in [Keys -> Seq(Round)]
  BY DEF TypeOK
<1>1. ASSUME submission'[k] = submission[k]
      PROVE  RoundsStep(submission[k], submission'[k])
  BY <1>1 DEF RoundsStep
<1>2. CASE DayStep
  BY <1>1, <1>2 DEF DayStep, Record, Override, MarkDays
<1>3. ASSUME NEW l \in Keys, NEW D \in SUBSET Days,
             NEW s \in {"drafted", "awaiting_approval", "failed"}, Upsert(l, D, s)
      PROVE  RoundsStep(submission[k], submission'[k])
  <2>1. RoundsStep(submission[k], UpsertSubmission(submission[k], D, s))
    BY <1>0, UpsertStep DEF SubmissionStates
  <2> QED
    BY <1>0, <1>1, <1>3, <2>1 DEF Upsert
<1>4. ASSUME NEW l \in Keys, NEW D \in SUBSET Days, ApproveCompare(l, D)
      PROVE  RoundsStep(submission[k], submission'[k])
  BY <1>1, <1>4 DEF ApproveCompare
<1>5. ASSUME NEW a \in approving, ApproveUpdate(a)
      PROVE  RoundsStep(submission[k], submission'[k])
  <2>1. RoundsStep(submission[k], UpdateWhere(submission[k], ApproveFrom, "approved"))
    BY <1>0, UpdateWhereStep DEF ApproveFrom, SetFrom, SubmissionStates
  <2> QED
    BY <1>0, <1>1, <1>5, <2>1 DEF ApproveUpdate
<1>6. ASSUME NEW l \in Keys, Reject(l)
      PROVE  RoundsStep(submission[k], submission'[k])
  <2>1. RoundsStep(submission[k], UpdateWhere(submission[k], RejectFrom, "rejected"))
    BY <1>0, UpdateWhereStep DEF RejectFrom, SetFrom, SubmissionStates
  <2> QED
    BY <1>0, <1>1, <1>6, <2>1 DEF Reject
<1>7. ASSUME NEW l \in Keys, NEW s \in SubmissionStates \ {"rejected"}, SetState(l, s)
      PROVE  RoundsStep(submission[k], submission'[k])
  <2>1. RoundsStep(submission[k], SetSubmissionState(submission[k], s))
    BY <1>0, UpdateWhereStep DEF SetSubmissionState
  <2> QED
    BY <1>0, <1>1, <1>7, <2>1 DEF SetState
<1>8. ASSUME NEW l \in Keys, NEW D \in SUBSET Days,
             SetStateWithDigest(l, "awaiting_approval", D)
      PROVE  RoundsStep(submission[k], submission'[k])
  <2>1. RoundsStep(submission[k], SetStateAndDigest(submission[k], "awaiting_approval", D))
    BY <1>0, SetStateAndDigestStep DEF SubmissionStates
  <2> QED
    BY <1>0, <1>1, <1>8, <2>1 DEF SetStateWithDigest
<1>9. CASE UNCHANGED vars
  BY <1>1, <1>9 DEF vars
<1> QED
  BY <1>2, <1>3, <1>4, <1>5, <1>6, <1>7, <1>8, <1>9 DEF Next, SubmissionStep

\* A period and claim type never has two rounds in motion.  The invariant is
\* inductive with TypeOK: a round is added only after the latest was filed, and
\* no UPDATE reopens a filed one.
THEOREM OneRoundInMotion == Spec => []OnlyLatestRoundOpen
<1>1. Init => OnlyLatestRoundOpen
  BY DEF Init, OnlyLatestRoundOpen
<1>2. TypeOK /\ OnlyLatestRoundOpen /\ [Next]_vars => OnlyLatestRoundOpen'
  <2> SUFFICES ASSUME TypeOK, OnlyLatestRoundOpen, [Next]_vars, NEW k \in Keys,
                      NEW i \in 1 .. Len(submission'[k]), IsOpen(submission'[k][i])
               PROVE  i = Len(submission'[k])
    BY DEF OnlyLatestRoundOpen
  <2> DEFINE rounds == submission[k]
             new == submission'[k]
  <2>0. rounds \in Seq(Round)
    BY DEF TypeOK
  <2>1. RoundsStep(rounds, new)
    BY NextRoundsStep
  <2>2. CASE /\ Len(new) = Len(rounds)
             /\ \A j \in 1 .. Len(rounds) : ~ IsOpen(rounds[j]) => new[j] = rounds[j]
    BY <2>0, <2>2 DEF OnlyLatestRoundOpen
  <2>3. CASE /\ NeedsNewRound(rounds)
             /\ Len(new) = Len(rounds) + 1
             /\ \A j \in 1 .. Len(rounds) : new[j] = rounds[j]
    <3>1. ASSUME NEW j \in 1 .. Len(rounds) PROVE ~ IsOpen(rounds[j])
      BY <2>0, <2>3, <3>1 DEF OnlyLatestRoundOpen, NeedsNewRound, Latest
    <3> QED
      BY <2>0, <2>3, <3>1
  <2> QED
    BY <2>1, <2>2, <2>3 DEF RoundsStep
<1> QED
  BY <1>1, <1>2, TypeCorrect, PTL DEF Spec

\* A filed round is never rewritten.
THEOREM FiledRoundsStay == Spec => FiledRoundIsHistory
<1>1. TypeOK /\ [Next]_vars => RoundHistoryStep
  <2> SUFFICES ASSUME TypeOK, [Next]_vars, NEW k \in Keys,
                      NEW i \in 1 .. Len(submission[k]), ~ IsOpen(submission[k][i])
               PROVE  i \in 1 .. Len(submission'[k]) /\ submission'[k][i] = submission[k][i]
    BY DEF RoundHistoryStep
  <2>1. submission[k] \in Seq(Round)
    BY DEF TypeOK
  <2> QED
    BY <2>1, NextRoundsStep DEF RoundsStep
<1> QED
  BY <1>1, TypeCorrect, PTL DEF Spec, FiledRoundIsHistory

-----------------------------------------------------------------------------
(* The rows of the days *)

\* The two promises about one row, over one step.
LEMMA NextDayStep ==
  ASSUME TypeOK, [Next]_vars, NEW d \in Days
  PROVE  /\ claimDay[d].state = "submitted" => claimDay'[d] = claimDay[d]
         /\ claimDay[d].overridden =>
              /\ claimDay'[d].overridden
              /\ claimDay'[d].type # claimDay[d].type =>
                   claimDay'[d].state \in {"confirmed", "excluded"}
<1> USE DEF TypeOK
<1>0. claimDay[d] \in DayRow
  OBVIOUS
<1>1. CASE claimDay' = claimDay
  BY <1>1
<1>2. ASSUME NEW e \in Days, NEW c \in Classification, Record(e, c)
      PROVE  \/ claimDay'[d] = claimDay[d]
             \/ claimDay[d].state # "submitted" /\ ~ claimDay[d].overridden
  BY <1>2 DEF Record, RecordDay, Rewritable
<1>3. ASSUME NEW e \in Days, NEW t \in ClaimTypes \union {NoType}, Override(e, t)
      PROVE  \/ claimDay'[d] = claimDay[d]
             \/ /\ claimDay[d].state # "submitted"
                /\ claimDay'[d].overridden
                /\ claimDay'[d].state \in {"confirmed", "excluded"}
  BY <1>3 DEF Override, ApplyOverride, Overridable
<1>4. ASSUME NEW D \in SUBSET Days, NEW s \in {"drafted", "submitted", "needs_input"},
             MarkDays(D, s)
      PROVE  \/ claimDay'[d] = claimDay[d]
             \/ /\ claimDay[d].state # "submitted"
                /\ claimDay'[d].overridden = claimDay[d].overridden
                /\ claimDay'[d].type = claimDay[d].type
  BY <1>0, <1>4 DEF MarkDays, MarkDaysState, Markable, DayRow
<1>5. CASE SubmissionStep
  BY <1>1, <1>5
     DEF SubmissionStep, Upsert, ApproveCompare, ApproveUpdate, Reject, SetState,
         SetStateWithDigest
<1>6. CASE UNCHANGED vars
  BY <1>1, <1>6 DEF vars
<1>7. CASE DayStep
  BY <1>2, <1>3, <1>4, <1>7 DEF DayStep
<1> QED
  BY <1>5, <1>6, <1>7 DEF Next

\* A filed day keeps its row, whatever is called afterwards.
THEOREM FiledDaysStay == Spec => FiledDayIsHistory
<1>1. TypeOK /\ [Next]_vars => DayHistoryStep
  BY NextDayStep DEF DayHistoryStep
<1> QED
  BY <1>1, TypeCorrect, PTL DEF Spec, FiledDayIsHistory

\* What a human said of a day is replaced only by what a human says later.
THEOREM HumanDecisionsStay == Spec => HumanDecisionKept
<1>1. TypeOK /\ [Next]_vars => HumanDecisionStep
  BY NextDayStep DEF HumanDecisionStep
<1> QED
  BY <1>1, TypeCorrect, PTL DEF Spec, HumanDecisionKept

=============================================================================
