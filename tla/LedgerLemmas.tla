---------------------------- MODULE LedgerLemmas ----------------------------
(***************************************************************************)
(* What the operators of Ledger do to rows and tables, for use in the      *)
(* proofs about the modules that are built on them.                        *)
(***************************************************************************)
EXTENDS Ledger, WellFoundedInduction, TLAPS

\* A loop over days or periods has a first one to take as long as there is one.
LEMMA LeastExists ==
  ASSUME NEW S \in SUBSET Nat, S # {}
  PROVE  \E x \in S : \A y \in S : x <= y
<1>1. \E x \in S : \A y \in S : ~ (<<y, x>> \in OpToRel(<, Nat))
  BY NatLessThanWellFounded, WFMin
<1>2. \A x, y \in Nat : <<y, x>> \in OpToRel(<, Nat) <=> y < x
  BY DEF OpToRel
<1>3. PICK x \in S : \A y \in S : ~ (<<y, x>> \in OpToRel(<, Nat))
  BY <1>1
<1>4. ASSUME NEW y \in S PROVE x <= y
  <2>1. x \in Nat /\ y \in Nat /\ ~ (y < x)
    BY <1>2, <1>3
  <2> QED
    BY <2>1
<1> QED
  BY <1>4

-----------------------------------------------------------------------------
(* The operators of Ledger on one sequence of rounds *)

\* An UPDATE ... WHERE state IN S keeps the number of rounds and their types,
\* and leaves every round alone whose state is not in S.
LEMMA UpdateWhereFacts ==
  ASSUME NEW rounds \in Seq(Round), NEW S, NEW s \in SubmissionStates
  PROVE  /\ UpdateWhere(rounds, S, s) \in Seq(Round)
         /\ Len(UpdateWhere(rounds, S, s)) = Len(rounds)
         /\ \A i \in 1 .. Len(rounds) :
              rounds[i].state \notin S => UpdateWhere(rounds, S, s)[i] = rounds[i]
<1>1. \A i \in 1 .. Len(rounds) : rounds[i] \in Round
  OBVIOUS
<1>2. \A i \in 1 .. Len(rounds) : [rounds[i] EXCEPT !.state = s] \in Round
  BY <1>1 DEF Round
<1> QED
  BY <1>1, <1>2 DEF UpdateWhere

\* What get_submission shows after an UPDATE ... WHERE state IN S.
LEMMA StateAfterUpdate ==
  ASSUME NEW rounds \in Seq(Round), NEW S \in SUBSET SubmissionStates, NEW s \in SubmissionStates
  PROVE  StateOf(UpdateWhere(rounds, S, s)) = IF StateOf(rounds) \in S THEN s ELSE StateOf(rounds)
<1> DEFINE new == UpdateWhere(rounds, S, s)
<1>1. new \in Seq(Round) /\ Len(new) = Len(rounds)
  BY UpdateWhereFacts
<1>2. CASE rounds = <<>>
  <2>1. new = <<>>
    BY <1>1, <1>2
  <2>2. "none" \notin S
    BY DEF SubmissionStates
  <2> QED
    BY <1>2, <2>1, <2>2 DEF StateOf
<1>3. CASE rounds # <<>>
  <2>1. Len(rounds) \in 1 .. Len(rounds) /\ new # <<>> /\ rounds[Len(rounds)] \in Round
    BY <1>1, <1>3
  <2>2. new[Len(rounds)] = IF Latest(rounds).state \in S
                           THEN [Latest(rounds) EXCEPT !.state = s] ELSE Latest(rounds)
    BY <2>1 DEF UpdateWhere, Latest
  <2>3. StateOf(rounds) = Latest(rounds).state /\ StateOf(new) = new[Len(rounds)].state
    BY <1>1, <1>3, <2>1 DEF StateOf, Latest
  <2>4. Latest(rounds) \in Round
    BY <2>1 DEF Latest
  <2> QED
    BY <2>2, <2>3, <2>4 DEF Round
<1> QED
  BY <1>2, <1>3

\* The same of the UPDATE that also binds the row to a digest.
LEMMA SetStateAndDigestFacts ==
  ASSUME NEW rounds \in Seq(Round), NEW s \in SubmissionStates, NEW D \in SUBSET Days
  PROVE  /\ SetStateAndDigest(rounds, s, D) \in Seq(Round)
         /\ Len(SetStateAndDigest(rounds, s, D)) = Len(rounds)
         /\ \A i \in 1 .. Len(rounds) :
              rounds[i].state \notin SetFrom => SetStateAndDigest(rounds, s, D)[i] = rounds[i]
<1>1. \A i \in 1 .. Len(rounds) : rounds[i] \in Round
  OBVIOUS
<1>2. [state |-> s, digest |-> D] \in Round
  BY DEF Round
<1> QED
  BY <1>1, <1>2 DEF SetStateAndDigest

\* What get_submission shows after it.
LEMMA StateAfterSetDigest ==
  ASSUME NEW rounds \in Seq(Round), NEW s \in SubmissionStates, NEW D \in SUBSET Days
  PROVE  StateOf(SetStateAndDigest(rounds, s, D)) \in {s, StateOf(rounds)}
<1> DEFINE new == SetStateAndDigest(rounds, s, D)
<1>1. new \in Seq(Round) /\ Len(new) = Len(rounds)
  BY SetStateAndDigestFacts
<1>2. CASE rounds = <<>>
  <2>1. new = <<>>
    BY <1>1, <1>2
  <2> QED
    BY <1>2, <2>1 DEF StateOf
<1>3. CASE rounds # <<>>
  <2>1. Len(rounds) \in 1 .. Len(rounds) /\ new # <<>>
    BY <1>1, <1>3
  <2>2. new[Len(rounds)] \in {[state |-> s, digest |-> D], Latest(rounds)}
    BY <2>1 DEF SetStateAndDigest, Latest
  <2> QED
    BY <1>1, <1>3, <2>1, <2>2 DEF StateOf, Latest
<1> QED
  BY <1>2, <1>3

\* An upsert appends one round or rewrites the latest, which is then open; it
\* never touches an earlier round.
LEMMA UpsertFacts ==
  ASSUME NEW rounds \in Seq(Round), NEW s \in SubmissionStates, NEW D \in SUBSET Days
  PROVE  LET new == UpsertSubmission(rounds, D, s)
         IN  /\ new \in Seq(Round)
             /\ \/ /\ NeedsNewRound(rounds)
                   /\ new = Append(rounds, [state |-> s, digest |-> D])
                \/ new = rounds
                \/ /\ rounds # <<>>
                   /\ IsOpen(Latest(rounds))
                   /\ new = [rounds EXCEPT ![Len(rounds)] = [state |-> s, digest |-> D]]
<1> DEFINE row == [state |-> s, digest |-> D]
<1>1. row \in Round
  BY DEF Round
<1>2. CASE NeedsNewRound(rounds)
  <2>1. UpsertSubmission(rounds, D, s) = Append(rounds, row)
    BY <1>2 DEF UpsertSubmission
  <2>2. Append(rounds, row) \in Seq(Round)
    BY <1>1
  <2> QED
    BY <1>2, <2>1, <2>2
<1>3. CASE ~ NeedsNewRound(rounds)
  <2>1. rounds # <<>> /\ IsOpen(Latest(rounds))
    BY <1>3 DEF NeedsNewRound
  <2>2. [rounds EXCEPT ![Len(rounds)] = row] \in Seq(Round)
    BY <1>1, <2>1
  <2> QED
    BY <1>3, <2>1, <2>2 DEF UpsertSubmission
<1> QED
  BY <1>2, <1>3

\* What it shows after an upsert: the state written, unless the row is protected.
LEMMA StateAfterUpsert ==
  ASSUME NEW rounds \in Seq(Round), NEW s \in SubmissionStates, NEW D \in SUBSET Days
  PROVE  StateOf(UpsertSubmission(rounds, D, s)) \in {s, StateOf(rounds)}
<1> DEFINE row == [state |-> s, digest |-> D]
           new == UpsertSubmission(rounds, D, s)
<1>1. row \in Round
  BY DEF Round
<1>2. CASE new = Append(rounds, row)
  <2>1. new # <<>> /\ new[Len(new)] = row
    BY <1>1, <1>2
  <2> QED
    BY <2>1 DEF StateOf, Latest
<1>3. CASE new = rounds
  BY <1>3
<1>4. CASE rounds # <<>> /\ new = [rounds EXCEPT ![Len(rounds)] = row]
  <2>1. Len(new) = Len(rounds) /\ new # <<>> /\ new[Len(new)] = row
    BY <1>1, <1>4
  <2> QED
    BY <2>1 DEF StateOf, Latest
<1> QED
  BY <1>2, <1>3, <1>4, UpsertFacts

-----------------------------------------------------------------------------
(* The operators of Ledger on the day table *)

\* Every function that writes claim_day writes rows of the right type that
\* satisfy the CHECK constraint.
TableOK(table) ==
  /\ table \in [Days -> DayRow]
  /\ \A d \in Days : StateMatchesClaimType(table[d])

\* A row made of a classification keeps the CHECK constraint.
LEMMA ClassifiedRowOK ==
  ASSUME NEW c \in Classification
  PROVE  ClassifiedRow(c) \in DayRow /\ StateMatchesClaimType(ClassifiedRow(c))
<1>1. CASE c \in [type: ClaimTypes, state: {"planned"}]
  BY <1>1, ClaimTypeAssumption
     DEF ClassifiedRow, DayRow, DayStates, ClaimStates, StateMatchesClaimType
<1>2. CASE c \in [type: {NoType}, state: {"needs_input", "excluded"}]
  BY <1>2 DEF ClassifiedRow, DayRow, DayStates, ClaimStates, OtherStates, StateMatchesClaimType
<1> QED
  BY <1>1, <1>2 DEF Classification

\* record_day keeps it.
LEMMA RecordDayOK ==
  ASSUME NEW table, TableOK(table), NEW d \in Days, NEW c \in Classification
  PROVE  TableOK(RecordDay(table, d, c))
BY ClassifiedRowOK DEF TableOK, RecordDay

\* apply_override keeps it.
LEMMA ApplyOverrideOK ==
  ASSUME NEW table, TableOK(table), NEW d \in Days, NEW t \in ClaimTypes \union {NoType}
  PROVE  TableOK(ApplyOverride(table, d, t))
<1> DEFINE row == [type |-> t,
                   state |-> IF t = NoType THEN "excluded" ELSE "confirmed",
                   overridden |-> TRUE]
<1>1. row \in DayRow /\ StateMatchesClaimType(row)
  BY DEF DayRow, DayStates, ClaimStates, OtherStates, StateMatchesClaimType
<1> QED
  BY <1>1 DEF TableOK, ApplyOverride

\* mark_days_state keeps it when it does not raise.
LEMMA MarkDaysStateOK ==
  ASSUME NEW table, TableOK(table), NEW D \in SUBSET Days, NEW s \in DayStates,
         MarkAccepted(table, D, s)
  PROVE  TableOK(MarkDaysState(table, D, s))
<1> DEFINE new == MarkDaysState(table, D, s)
<1>1. ASSUME NEW d \in Days
      PROVE  new[d] \in DayRow /\ StateMatchesClaimType(new[d])
  <2>1. CASE d \in D
    <3>1. StateMatchesClaimType(new[d])
      BY <2>1 DEF MarkAccepted
    <3>2. new[d] = table[d] \/ new[d] = [table[d] EXCEPT !.state = s]
      BY DEF MarkDaysState
    <3>3. [table[d] EXCEPT !.state = s] \in DayRow
      BY DEF TableOK, DayRow
    <3> QED
      BY <3>1, <3>2, <3>3 DEF TableOK
  <2>2. CASE d \notin D
    BY <2>2 DEF MarkDaysState, TableOK
  <2> QED
    BY <2>1, <2>2
<1>2. new \in [Days -> DayRow]
  BY <1>1 DEF MarkDaysState
<1> QED
  BY <1>1, <1>2 DEF TableOK

=============================================================================
