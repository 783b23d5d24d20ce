--------------------------- MODULE ClassifyProofs ---------------------------
(***************************************************************************)
(* The nightly run claims nothing without evidence, acts on no outage and  *)
(* misses no day, for every calendar, every window and any number of edits.*)
(***************************************************************************)
EXTENDS Classify, LedgerLemmas

NextDay == CHOOSE x \in run.todo : \A y \in run.todo : x <= y

\* The loop of the run has a day to take as long as there is one.
LEMMA NextDayIsToDo ==
  ASSUME run.todo \subseteq Days, run.todo # {}
  PROVE  NextDay \in run.todo
<1>1. run.todo \in SUBSET Nat
  BY ClassifyAssumption DEF ClassifyAssumption
<1> QED
  BY <1>1, LeastExists DEF NextDay

\* What classify_day can say of a day.
LEMMA ClassifyDayFacts ==
  ASSUME NEW d, NEW E, NEW degraded \in BOOLEAN, NEW wasOffice \in BOOLEAN
  PROVE  LET c == ClassifyDay(d, E, degraded, wasOffice)
         IN  /\ c \in Classification
             /\ c.state = "planned" =>
                  /\ ~ degraded /\ ~ OutOfOffice(E)
                  /\ c.type = "commute" <=> Booked(E)
             /\ c.type = "home" => ~ wasOffice
<1>1. {"commute", "home"} \subseteq ClaimTypes
  BY ClassifyAssumption DEF ClassifyAssumption
<1>2. NoType # "commute" /\ NoType # "home"
  BY DEF NoType
<1> QED
  BY <1>1, <1>2 DEF ClassifyDay, Classification

-----------------------------------------------------------------------------
(* The parts of the invariant *)

RunType == [pc: {"idle", "read", "record"}, existing: SUBSET Days, office: SUBSET Days,
            degraded: BOOLEAN, events: [Days -> SUBSET Events], todo: SUBSET Days]
HistoryType == [shown: [Days -> SUBSET SUBSET Events], frozen: SUBSET Days]

\* A run that is to record what it read has it from a calendar that was shown.
EventsWereShown ==
  run.pc = "record" /\ ~ run.degraded => \A d \in run.todo : run.events[d] \in history.shown[d]

\* What the run read of the ledger at its start still holds of the days it has not
\* recorded, unless a person decided since.
LedgerAsRead ==
  run.pc # "idle" =>
    /\ \A d \in run.existing : claimDay[d] # NoRow
    /\ \A d \in run.todo :
         /\ claimDay[d] # NoRow => d \in run.existing \/ claimDay[d].overridden
         /\ claimDay[d].type = "commute" => d \in run.office \/ claimDay[d].overridden

\* A day without a row is no older than the nights that were lost, and the run under
\* way will record it if it is in its window.
UnrecordedIsRecent ==
  /\ \A d \in Days : claimDay[d] = NoRow => d + missed >= today
  /\ run.pc # "idle" => \A d \in InWindow : claimDay[d] = NoRow => d \in run.todo

NightInv == TypeOK /\ PlannedHasEvidence /\ EventsWereShown /\ LedgerAsRead

-----------------------------------------------------------------------------
(* What a step does to one row *)

\* Left as it is; decided by a person; or marked by a job.
RowStep(old, new) ==
  \/ new = old
  \/ new.overridden /\ new.state \in {"excluded", "confirmed"}
  \/ /\ old # NoRow /\ new.state \in {"drafted", "submitted", "needs_input"}
     /\ new.type = old.type /\ new.overridden = old.overridden

\* A decision of a person is a RowStep of its day and leaves the others.
LEMMA OverrideRows ==
  ASSUME NEW d \in Days, NEW t \in ClaimTypes \union {NoType}, TableOK(claimDay)
  PROVE  \A x \in Days : RowStep(claimDay[x], ApplyOverride(claimDay, d, t)[x])
BY DEF TableOK, ApplyOverride, RowStep

\* Marks of a job are RowSteps.
LEMMA MarkRows ==
  ASSUME NEW d \in Days, NEW s \in {"drafted", "submitted", "needs_input"}, TableOK(claimDay)
  PROVE  \A x \in Days : RowStep(claimDay[x], MarkDaysState(claimDay, {d}, s)[x])
<1> SUFFICES ASSUME NEW x \in Days
             PROVE  RowStep(claimDay[x], MarkDaysState(claimDay, {d}, s)[x])
  OBVIOUS
<1>1. claimDay[x] \in DayRow
  BY DEF TableOK
<1>2. CASE x = d /\ Markable(claimDay[x])
  <2>1. MarkDaysState(claimDay, {d}, s)[x] = [claimDay[x] EXCEPT !.state = s]
    BY <1>2 DEF MarkDaysState
  <2>2. claimDay[x] # NoRow
    BY <1>2 DEF Markable, NoRow
  <2> QED
    BY <1>1, <2>1, <2>2 DEF RowStep, DayRow
<1>3. CASE ~ (x = d /\ Markable(claimDay[x]))
  BY <1>3 DEF MarkDaysState, RowStep
<1> QED
  BY <1>2, <1>3

\* Whatever the others do, one row at most changes, in one of these ways.
LEMMA OthersStep ==
  ASSUME TypeOK, Others
  PROVE  /\ UNCHANGED <<today, missed, run, history>>
         /\ TableOK(claimDay') /\ calendar' \in [Days -> SUBSET Events]
         /\ edits' \in 0 .. MaxEdits
         /\ \A x \in Days : RowStep(claimDay[x], claimDay'[x])
<1>0. TableOK(claimDay) /\ calendar \in [Days -> SUBSET Events] /\ edits \in 0 .. MaxEdits
  BY DEF TypeOK, TableOK
<1>m. MaxEdits \in Nat /\ {"commute", "home"} \subseteq ClaimTypes
  BY ClassifyAssumption DEF ClassifyAssumption
<1>e. Edit => UNCHANGED <<today, missed, run, history>> /\ edits' \in 0 .. MaxEdits
  BY <1>0, <1>m DEF Edit
<1>1. ASSUME NEW d \in Days, NEW E \in SUBSET Events, ChangeCalendar(d, E)
      PROVE  /\ Edit /\ TableOK(claimDay') /\ calendar' \in [Days -> SUBSET Events]
             /\ \A x \in Days : RowStep(claimDay[x], claimDay'[x])
  BY <1>0, <1>1 DEF ChangeCalendar, RowStep
<1>2. ASSUME NEW d \in Days, NEW t \in {"commute", "home", NoType}, Override(d, t)
      PROVE  /\ Edit /\ TableOK(claimDay') /\ calendar' \in [Days -> SUBSET Events]
             /\ \A x \in Days : RowStep(claimDay[x], claimDay'[x])
  <2>1. t \in ClaimTypes \union {NoType}
    BY <1>m
  <2> QED
    BY <1>0, <1>2, <2>1, ApplyOverrideOK, OverrideRows DEF Override
<1>3. ASSUME NEW d \in Days, NEW s \in {"drafted", "submitted", "needs_input"}, JobMarks(d, s)
      PROVE  /\ Edit /\ TableOK(claimDay') /\ calendar' \in [Days -> SUBSET Events]
             /\ \A x \in Days : RowStep(claimDay[x], claimDay'[x])
  <2>1. s \in DayStates /\ {d} \in SUBSET Days
    BY DEF DayStates, ClaimStates, OtherStates
  <2> QED
    BY <1>0, <1>3, <2>1, MarkDaysStateOK, MarkRows DEF JobMarks
<1> QED
  BY <1>e, <1>1, <1>2, <1>3 DEF Others

\* One day of the run: the row is left alone or replaced by what classify_day says,
\* and then it was one the run may replace.
LEMMA RecordNextStep ==
  ASSUME TypeOK, RecordNext
  PROVE  LET d == NextDay
             c == ClassifyDay(d, run.events[d], run.degraded, d \in run.office)
         IN  /\ d \in run.todo /\ d \in Days
             /\ c \in Classification
             /\ TableOK(claimDay')
             /\ \A x \in Days \ {d} : claimDay'[x] = claimDay[x]
             /\ \/ /\ claimDay'[d] = claimDay[d] /\ (Skip(d) \/ ~ Rewritable(claimDay[d]))
                \/ /\ claimDay'[d] = ClassifiedRow(c)
                   /\ ~ Skip(d) /\ Rewritable(claimDay[d])
             /\ run' = [run EXCEPT !.todo = @ \ {d}]
             /\ run.pc = "record" /\ UNCHANGED <<calendar, today, missed, edits>>
<1> DEFINE d == NextDay
           c == ClassifyDay(d, run.events[d], run.degraded, d \in run.office)
<1>1. /\ run.pc = "record" /\ run.todo # {}
      /\ claimDay' = IF Skip(d) THEN claimDay ELSE RecordDay(claimDay, d, c)
      /\ run' = [run EXCEPT !.todo = @ \ {d}]
      /\ UNCHANGED <<calendar, today, missed, edits>>
  BY DEF RecordNext, NextDay
<1>2. run.todo \subseteq Days /\ run.degraded \in BOOLEAN /\ TableOK(claimDay)
  BY DEF TypeOK, TableOK
<1>3. d \in run.todo /\ d \in Days
  BY <1>1, <1>2, NextDayIsToDo
<1>w. (d \in run.office) \in BOOLEAN
  OBVIOUS
<1>4. c \in Classification
  BY <1>2, <1>w, ClassifyDayFacts
<1> HIDE DEF d, c
<1>5. TableOK(claimDay')
  BY <1>1, <1>2, <1>3, <1>4, RecordDayOK
<1>6. /\ \A x \in Days \ {d} : claimDay'[x] = claimDay[x]
      /\ \/ claimDay'[d] = claimDay[d] /\ (Skip(d) \/ ~ Rewritable(claimDay[d]))
         \/ claimDay'[d] = ClassifiedRow(c) /\ ~ Skip(d) /\ Rewritable(claimDay[d])
  BY <1>1, <1>2, <1>3 DEF RecordDay, TableOK
<1> QED
  BY <1>1, <1>3, <1>4, <1>5, <1>6 DEF d, c

\* The initial state is of its types.
LEMMA StartsTyped == Init => TypeOK
<1> SUFFICES ASSUME Init PROVE TypeOK
  OBVIOUS
<1>1. NoRow \in DayRow /\ StateMatchesClaimType(NoRow)
  BY DEF NoRow, DayRow, StateMatchesClaimType, ClaimStates
<1>2. IdleRun \in RunType
  BY DEF IdleRun, RunType
<1>3. MaxMissed \in Nat /\ MaxEdits \in Nat
  BY ClassifyAssumption DEF ClassifyAssumption
<1>4. calendar \in [Days -> SUBSET Events]
  BY DEF Init
<1> QED
  BY <1>1, <1>2, <1>3, <1>4 DEF Init, TypeOK, RunType

\* The days of the window of a run are days, whatever the calendar shows.
LEMMA StepKeepsTypes == TypeOK /\ [Next]_vars => TypeOK'
<1> SUFFICES ASSUME TypeOK, [Next]_vars PROVE TypeOK'
  OBVIOUS
<1>0. /\ TableOK(claimDay) /\ calendar \in [Days -> SUBSET Events]
      /\ today \in Nat /\ missed \in 0 .. MaxMissed + 1 /\ edits \in 0 .. MaxEdits
      /\ run \in RunType /\ history \in HistoryType
  BY DEF TypeOK, TableOK, RunType, HistoryType
<1>a. MaxMissed \in Nat /\ MaxEdits \in Nat
  BY ClassifyAssumption DEF ClassifyAssumption
<1>i. IdleRun \in RunType
  BY DEF IdleRun, RunType
<1>t. ASSUME TableOK(claimDay'), calendar' \in [Days -> SUBSET Events], today' \in Nat,
             missed' \in 0 .. MaxMissed + 1, edits' \in 0 .. MaxEdits,
             run' \in RunType, history' \in HistoryType
      PROVE  TypeOK'
  BY <1>t DEF TypeOK, TableOK, RunType, HistoryType
<1>1. CASE Start
  <2>1. run' \in RunType
    BY <1>i, <1>1 DEF Start, InWindow, RunType
  <2> QED
    BY <1>0, <1>1, <1>t, <2>1 DEF Start
<1>2. CASE ReadWell
  <2>1. run' \in RunType
    BY <1>0, <1>2 DEF ReadWell, RunType
  <2>2. history' \in HistoryType
    BY <1>0, <1>2 DEF ReadWell, HistoryType
  <2> QED
    BY <1>0, <1>2, <1>t, <2>1, <2>2 DEF ReadWell
<1>3. CASE ReadDegraded
  <2>1. run' \in RunType
    BY <1>0, <1>3 DEF ReadDegraded, RunType
  <2> QED
    BY <1>0, <1>3, <1>t, <2>1 DEF ReadDegraded
<1>4. CASE RecordNext
  <2>1. TableOK(claimDay') /\ UNCHANGED <<calendar, today, missed, edits>> /\ NextDay \in Days
        /\ run' = [run EXCEPT !.todo = @ \ {NextDay}]
    BY <1>4, RecordNextStep
  <2>2. run' \in RunType
    BY <1>0, <2>1 DEF RunType
  <2>3. history' = history \/ history' = [history EXCEPT !.frozen = @ \union {NextDay}]
    BY <1>4 DEF RecordNext, NextDay
  <2>4. history' \in HistoryType
    BY <1>0, <2>1, <2>3 DEF HistoryType
  <2> QED
    BY <1>0, <1>t, <2>1, <2>2, <2>4
<1>5. CASE Finish \/ Crash
  <2>1. run' = IdleRun /\ missed' \in {0, missed}
        /\ UNCHANGED <<claimDay, calendar, today, edits, history>>
    BY <1>5 DEF Finish, Crash
  <2> QED
    BY <1>0, <1>a, <1>i, <1>t, <2>1
<1>6. CASE Midnight
  <2>1. today' \in Nat /\ missed' \in 0 .. MaxMissed + 1
    BY <1>0, <1>a, <1>6 DEF Midnight
  <2> QED
    BY <1>0, <1>6, <1>t, <2>1 DEF Midnight
<1>7. CASE Others
  BY <1>0, <1>7, <1>t, OthersStep
<1>8. CASE UNCHANGED vars
  BY <1>0, <1>8, <1>t DEF vars
<1> QED
  BY <1>1, <1>2, <1>3, <1>4, <1>5, <1>6, <1>7, <1>8 DEF Next

\* Type correctness: in particular the CHECK constraint holds of every row.
THEOREM NightTypeCorrect == Spec => []TypeOK
BY StartsTyped, StepKeepsTypes, PTL DEF Spec

-----------------------------------------------------------------------------
(* The invariant is kept *)

\* Everything but the loop of the run moves rows in the ways of RowStep only, and
\* forgets nothing that was shown.
RowsStep == /\ \A x \in Days : RowStep(claimDay[x], claimDay'[x])
            /\ \A x \in Days : history.shown[x] \subseteq history'.shown[x]

\* A step outside the loop of cmd_classify takes each row by a RowStep.
LEMMA OtherThanLoop ==
  ASSUME TypeOK, [Next]_vars, ~ RecordNext
  PROVE  RowsStep
<1>0. /\ history \in HistoryType
      /\ run.todo \subseteq Days
  BY DEF TypeOK, HistoryType
<1>1. CASE UNCHANGED <<claimDay, history>>
  BY <1>1 DEF RowsStep, RowStep
<1>2. CASE ReadWell
  <2>1. claimDay' = claimDay
    BY <1>2 DEF ReadWell
  <2>2. ASSUME NEW x \in Days PROVE history.shown[x] \subseteq history'.shown[x]
    <3>1. history' = [history EXCEPT !.shown =
            [d \in Days |-> IF d \in run.todo THEN @[d] \union {calendar[d]} ELSE @[d]]]
      BY <1>2 DEF ReadWell
    <3> QED
      BY <1>0, <3>1 DEF HistoryType
  <2> QED
    BY <2>1, <2>2 DEF RowsStep, RowStep
<1>3. CASE Others
  BY <1>3, OthersStep DEF RowsStep
<1> QED
  BY <1>1, <1>2, <1>3
     DEF Next, Start, ReadDegraded, Finish, Crash, Midnight, vars

\* No row is ever removed.
LEMMA RowsStay ==
  ASSUME NEW d \in Days, TypeOK, [Next]_vars, claimDay[d] # NoRow
  PROVE  claimDay'[d] # NoRow
<1>1. CASE RecordNext
  <2>1. \/ claimDay'[d] = claimDay[d]
        \/ \E c \in Classification : claimDay'[d] = ClassifiedRow(c)
    BY <1>1, RecordNextStep
  <2>2. \A c \in Classification : ClassifiedRow(c) # NoRow
    BY DEF Classification, ClassifiedRow, NoRow
  <2> QED
    BY <2>1, <2>2
<1>2. CASE ~ RecordNext
  <2>1. RowStep(claimDay[d], claimDay'[d])
    BY <1>2, OtherThanLoop DEF RowsStep
  <2> QED
    BY <2>1 DEF RowStep, NoRow
<1> QED
  BY <1>1, <1>2

\* No step plans a day without evidence.
LEMMA EvidenceKept == NightInv /\ [Next]_vars => PlannedHasEvidence'
<1> SUFFICES ASSUME NightInv, [Next]_vars, NEW d \in Days, (claimDay[d].state = "planned")'
             PROVE  (\E E \in history.shown[d] :
                       /\ ~ OutOfOffice(E)
                       /\ claimDay[d].type = "commute" <=> Booked(E))'
  BY DEF PlannedHasEvidence
<1>0. TypeOK /\ PlannedHasEvidence /\ EventsWereShown
  BY DEF NightInv
<1>1. CASE claimDay'[d] = claimDay[d] /\ history.shown[d] \subseteq history'.shown[d]
  BY <1>0, <1>1 DEF PlannedHasEvidence
<1>2. CASE RecordNext
  <2> DEFINE c == ClassifyDay(d, run.events[d], run.degraded, d \in run.office)
  <2>1. history'.shown = history.shown
    BY <1>0, <1>2 DEF RecordNext, TypeOK
  <2>2. CASE claimDay'[d] # claimDay[d]
    <3>1. d = NextDay /\ d \in run.todo /\ run.pc = "record" /\ claimDay'[d] = ClassifiedRow(c)
      BY <1>0, <1>2, <2>2, RecordNextStep
    <3>2. c.state = "planned" /\ claimDay'[d].type = c.type
      BY <3>1 DEF ClassifiedRow
    <3>3. run.degraded \in BOOLEAN /\ (d \in run.office) \in BOOLEAN
      BY <1>0 DEF TypeOK
    <3>c. c.state = "planned" =>
            /\ ~ run.degraded /\ ~ OutOfOffice(run.events[d])
            /\ c.type = "commute" <=> Booked(run.events[d])
      BY <3>3, ClassifyDayFacts
    <3>4. /\ ~ run.degraded /\ ~ OutOfOffice(run.events[d])
          /\ c.type = "commute" <=> Booked(run.events[d])
      BY <3>2, <3>c
    <3>5. run.events[d] \in history.shown[d]
      BY <1>0, <3>1, <3>4 DEF EventsWereShown
    <3> QED
      BY <2>1, <3>2, <3>4, <3>5
  <2> QED
    BY <1>1, <2>1, <2>2
<1>3. CASE ~ RecordNext
  <2>1. RowStep(claimDay[d], claimDay'[d]) /\ history.shown[d] \subseteq history'.shown[d]
    BY <1>0, <1>3, OtherThanLoop DEF RowsStep
  <2>2. claimDay'[d] = claimDay[d]
    BY <2>1 DEF RowStep
  <2> QED
    BY <1>1, <2>1, <2>2
<1> QED
  BY <1>2, <1>3

\* The events a run holds remain ones the calendar has shown.
LEMMA ShownKept == NightInv /\ [Next]_vars => EventsWereShown'
<1> SUFFICES ASSUME NightInv, [Next]_vars, run'.pc = "record", ~ run'.degraded,
                    NEW d \in run'.todo
             PROVE  run'.events[d] \in history'.shown[d]
  BY DEF EventsWereShown
<1>0. TypeOK /\ EventsWereShown
  BY DEF NightInv
<1>r. run \in RunType /\ history \in HistoryType
  BY <1>0 DEF TypeOK, RunType, HistoryType
<1>1. CASE ReadWell
  <2>1. run'.events = calendar /\ run'.todo = run.todo
    BY <1>1, <1>r DEF ReadWell, RunType
  <2>2. history'.shown = [x \in Days |->
          IF x \in run.todo THEN history.shown[x] \union {calendar[x]} ELSE history.shown[x]]
    BY <1>1, <1>r DEF ReadWell, HistoryType
  <2> QED
    BY <1>r, <2>1, <2>2 DEF RunType
<1>2. CASE RecordNext
  <2>1. /\ run.pc = "record" /\ run'.events = run.events /\ run'.degraded = run.degraded
        /\ run'.todo \subseteq run.todo
    BY <1>0, <1>2, <1>r, RecordNextStep DEF RunType
  <2>2. history'.shown = history.shown
    BY <1>2, <1>r DEF RecordNext, HistoryType
  <2> QED
    BY <1>0, <2>1, <2>2 DEF EventsWereShown
<1>3. CASE Others
  BY <1>0, <1>3, OthersStep DEF EventsWereShown
<1>4. CASE Midnight \/ UNCHANGED vars
  BY <1>0, <1>4 DEF EventsWereShown, Midnight, vars
<1>5. CASE Start \/ ReadDegraded \/ Finish \/ Crash
  <2>1. IdleRun.pc = "idle"
    BY DEF IdleRun
  <2>2. Start => run'.pc = "read"
    BY DEF Start, IdleRun
  <2>3. ReadDegraded => run'.degraded
    BY <1>r DEF ReadDegraded, RunType
  <2>4. Finish \/ Crash => run' = IdleRun
    BY DEF Finish, Crash
  <2>5. run'.pc # "record" \/ run'.degraded
    BY <1>5, <2>1, <2>2, <2>3, <2>4
  <2> QED
    BY <2>5
<1> QED
  BY <1>1, <1>2, <1>3, <1>4, <1>5 DEF Next

\* What a run read of the ledger remains true of it, but for the decisions of people.
LEMMA AsReadKept == NightInv /\ [Next]_vars => LedgerAsRead'
<1> SUFFICES ASSUME NightInv, [Next]_vars, run'.pc # "idle"
             PROVE  LedgerAsRead'
  BY DEF LedgerAsRead
<1>0. TypeOK /\ LedgerAsRead
  BY DEF NightInv
<1>r. run \in RunType /\ InWindow \subseteq Days
  BY <1>0 DEF TypeOK, RunType, InWindow
<1>1. CASE Start
  <2>1. /\ claimDay' = claimDay
        /\ run' = [IdleRun EXCEPT
             !.pc = "read", !.todo = InWindow,
             !.existing = {d \in InWindow : claimDay[d] # NoRow},
             !.office = {d \in InWindow : claimDay[d].type = "commute"}]
    BY <1>1 DEF Start
  <2>2. /\ run'.todo = InWindow
        /\ run'.existing = {d \in InWindow : claimDay[d] # NoRow}
        /\ run'.office = {d \in InWindow : claimDay[d].type = "commute"}
    BY <2>1 DEF IdleRun
  <2> QED
    BY <2>1, <2>2 DEF LedgerAsRead
<1>2. CASE ~ Start
  <2>1. /\ run.pc # "idle" /\ run'.existing = run.existing /\ run'.office = run.office
        /\ run'.todo \subseteq run.todo
    <3>1. CASE ReadWell \/ ReadDegraded
      BY <1>r, <3>1 DEF ReadWell, ReadDegraded, RunType
    <3>2. CASE RecordNext
      BY <1>0, <1>r, <3>2, RecordNextStep DEF RunType
    <3>3. CASE Others
      BY <1>0, <3>3, OthersStep
    <3>4. CASE Midnight \/ UNCHANGED vars
      BY <3>4 DEF Midnight, vars
    <3>5. ~ (Finish \/ Crash)
      BY DEF Finish, Crash, IdleRun
    <3> QED
      BY <1>2, <3>1, <3>2, <3>3, <3>4, <3>5 DEF Next
  <2>2. run.existing \subseteq Days /\ run.todo \subseteq Days
    BY <1>r DEF RunType
  <2>3. \A d \in run'.existing : claimDay'[d] # NoRow
    BY <1>0, <2>1, <2>2, RowsStay DEF LedgerAsRead
  <2>4. ASSUME NEW d \in run'.todo
        PROVE  /\ claimDay'[d] # NoRow => d \in run.existing \/ claimDay'[d].overridden
               /\ claimDay'[d].type = "commute" => d \in run.office \/ claimDay'[d].overridden
    <3>1. RowStep(claimDay[d], claimDay'[d])
      <4>1. CASE RecordNext
        <5>1. d # NextDay
          BY <1>0, <1>r, <4>1, RecordNextStep DEF RunType
        <5> QED
          BY <1>0, <2>1, <2>2, <4>1, <5>1, RecordNextStep DEF RowStep
      <4>2. CASE ~ RecordNext
        BY <1>0, <2>1, <2>2, <4>2, OtherThanLoop DEF RowsStep
      <4> QED
        BY <4>1, <4>2
    <3>2. /\ claimDay[d] # NoRow => d \in run.existing \/ claimDay[d].overridden
          /\ claimDay[d].type = "commute" => d \in run.office \/ claimDay[d].overridden
      BY <1>0, <2>1 DEF LedgerAsRead
    <3> QED
      BY <3>1, <3>2 DEF RowStep
  <2> QED
    BY <2>1, <2>3, <2>4 DEF LedgerAsRead
<1> QED
  BY <1>1, <1>2

\* The initial state satisfies the invariant.
LEMMA NightStarts == Init => NightInv
<1> SUFFICES ASSUME Init PROVE NightInv
  OBVIOUS
<1>1. TypeOK
  BY StartsTyped
<1>2. run.pc = "idle" /\ \A d \in Days : claimDay[d].state # "planned"
  BY DEF Init, IdleRun, NoRow
<1> QED
  BY <1>1, <1>2 DEF NightInv, PlannedHasEvidence, EventsWereShown, LedgerAsRead

\* Every step keeps the invariant.
LEMMA NightStep == NightInv /\ [Next]_vars => NightInv'
BY StepKeepsTypes, EvidenceKept, ShownKept, AsReadKept DEF NightInv

\* The invariant holds in every state.
LEMMA NightIsInvariant == Spec => []NightInv
BY NightStarts, NightStep, PTL DEF Spec

-----------------------------------------------------------------------------
(* What a reader should know of *)

\* No day is claimed without a good read that shows what it is claimed for, for
\* every calendar, window, number of edits and order of runs and failures.
THEOREM NothingWithoutEvidence == Spec => []PlannedHasEvidence
BY NightIsInvariant, PTL DEF NightInv

\* A run that could not read the calendar leaves every recorded day as it is: what
\* it read of the ledger at its start may be old by the time it comes to a day, but
\* it is old only where a person decided, and there it writes nothing.
LEMMA OutageStep ==
  ASSUME NightInv, [Next]_vars, run.degraded, run' # run, NEW d \in Days, claimDay[d] # NoRow
  PROVE  claimDay'[d] = claimDay[d]
<1>0. TypeOK /\ LedgerAsRead
  BY DEF NightInv
<1>1. CASE RecordNext
  <2>1. CASE d = NextDay
    <3>1. d \in run.existing \/ claimDay[d].overridden
      BY <1>0, <1>1, <2>1, RecordNextStep DEF LedgerAsRead
    <3>2. Skip(d) \/ ~ Rewritable(claimDay[d])
      BY <3>1 DEF Skip, Rewritable
    <3> QED
      BY <1>0, <1>1, <2>1, <3>2, RecordNextStep
  <2> QED
    BY <1>0, <1>1, <2>1, RecordNextStep
<1>2. CASE Others
  BY <1>0, <1>2, OthersStep
<1> QED
  BY <1>1, <1>2 DEF Next, Start, ReadWell, ReadDegraded, Finish, Crash, Midnight, vars

\* An outage decides nothing: OutageStep for every day.
THEOREM OutageDecidesNothing == Spec => OutageKeepsDecisions
<1>1. NightInv /\ [Next]_vars =>
        [run.degraded /\ run' # run =>
           \A d \in Days : claimDay[d] # NoRow => claimDay'[d] = claimDay[d]]_vars
  BY OutageStep
<1> QED
  BY <1>1, NightIsInvariant, PTL DEF Spec, OutageKeepsDecisions

\* From an office day to a home claim only a person goes directly.
LEMMA OfficeStep ==
  ASSUME NightInv, [Next]_vars, NEW d \in Days,
         claimDay[d].type = "commute", claimDay'[d].type = "home"
  PROVE  claimDay'[d].overridden
<1>0. TypeOK /\ LedgerAsRead
  BY DEF NightInv
<1>1. CASE RecordNext
  <2> DEFINE c == ClassifyDay(d, run.events[d], run.degraded, d \in run.office)
  <2>1. d = NextDay
    BY <1>0, <1>1, RecordNextStep
  <2>2. claimDay'[d] = ClassifiedRow(c) /\ Rewritable(claimDay[d]) /\ d \in run.todo
        /\ run.pc = "record"
    BY <1>0, <1>1, <2>1, RecordNextStep
  <2>3. d \in run.office
    BY <1>0, <2>2 DEF LedgerAsRead, Rewritable
  <2>4. run.degraded \in BOOLEAN /\ (d \in run.office) \in BOOLEAN
    BY <1>0 DEF TypeOK
  <2>5. c.type # "home"
    BY <2>3, <2>4, ClassifyDayFacts
  <2> QED
    BY <2>2, <2>5 DEF ClassifiedRow
<1>2. CASE ~ RecordNext
  <2>1. RowStep(claimDay[d], claimDay'[d])
    BY <1>0, <1>2, OtherThanLoop DEF RowsStep
  <2> QED
    BY <2>1 DEF RowStep
<1> QED
  BY <1>1, <1>2

\* A day that was an office day does not turn into a home day unless a person says
\* so: cmd_classify asks when the booking is gone.
THEOREM OfficeIsAskedFirst == Spec => OfficeNeverTurnsHome
<1>1. NightInv /\ [Next]_vars =>
        [\A d \in Days : claimDay[d].type = "commute" /\ claimDay'[d].type = "home"
           => claimDay'[d].overridden]_vars
  BY OfficeStep
<1> QED
  BY <1>1, NightIsInvariant, PTL DEF Spec, OfficeNeverTurnsHome

\* Every day is recorded before it leaves the window, when the window is at least as
\* long as the nights that can be lost in a row.
LEMMA RecentKept ==
  ASSUME MaxMissed <= Window
  PROVE  NightInv /\ UnrecordedIsRecent /\ [Next]_vars => UnrecordedIsRecent'
<1> SUFFICES ASSUME NightInv, UnrecordedIsRecent, [Next]_vars
             PROVE  UnrecordedIsRecent'
  OBVIOUS
<1>0. TypeOK /\ LedgerAsRead
  BY DEF NightInv
<1>a. /\ Days \subseteq Nat /\ Window \in Nat /\ MaxMissed \in Nat
      /\ today \in Nat /\ missed \in 0 .. MaxMissed + 1
  BY <1>0, ClassifyAssumption DEF ClassifyAssumption, TypeOK
<1>r. run \in RunType
  BY <1>0 DEF TypeOK, RunType
<1>s. \A d \in Days : claimDay'[d] = NoRow => claimDay[d] = NoRow
  BY <1>0, RowsStay
<1>1. CASE Start
  <2>1. run'.todo = InWindow /\ UNCHANGED <<claimDay, today, missed>>
    BY <1>1 DEF Start, IdleRun
  <2> QED
    BY <2>1 DEF UnrecordedIsRecent, InWindow
<1>2. CASE RecordNext
  <2>1. /\ UNCHANGED <<today, missed>> /\ run.pc = "record" /\ NextDay \in run.todo
        /\ NextDay \in Days /\ run'.todo = run.todo \ {NextDay}
    BY <1>0, <1>2, RecordNextStep DEF TypeOK
  <2>2. claimDay'[NextDay] # NoRow
    <3>1. CASE claimDay[NextDay] # NoRow
      BY <1>0, <2>1, <3>1, RowsStay
    <3>2. CASE claimDay[NextDay] = NoRow
      <4>1. ~ Skip(NextDay)
        BY <1>0, <2>1, <3>2 DEF Skip, LedgerAsRead
      <4>2. Rewritable(claimDay[NextDay])
        BY <3>2 DEF Rewritable, NoRow
      <4>3. \E c \in Classification : claimDay'[NextDay] = ClassifiedRow(c)
        BY <1>0, <1>2, <4>1, <4>2, RecordNextStep
      <4> QED
        BY <4>3 DEF Classification, ClassifiedRow, NoRow
    <3> QED
      BY <3>1, <3>2
  <2>3. InWindow' = InWindow
    BY <2>1 DEF InWindow
  <2> QED
    BY <1>s, <2>1, <2>2, <2>3 DEF UnrecordedIsRecent, InWindow
<1>3. CASE Finish
  <2>1. /\ run.todo = {} /\ run.pc = "record" /\ run'.pc = "idle"
        /\ missed' = 0 /\ UNCHANGED <<claimDay, today>>
    BY <1>3 DEF Finish, IdleRun
  <2>2. ASSUME NEW d \in Days, claimDay[d] = NoRow PROVE d >= today
    <3>1. d + missed >= today /\ d \notin InWindow
      BY <2>1, <2>2 DEF UnrecordedIsRecent
    <3>2. d + Window >= today - 1
      BY <1>a, <3>1
    <3> QED
      BY <1>a, <3>1, <3>2 DEF InWindow
  <2>3. \A d \in Days : claimDay'[d] = NoRow => d + missed' >= today'
    BY <1>a, <2>1, <2>2
  <2> QED
    BY <2>1, <2>3 DEF UnrecordedIsRecent
<1>4. CASE Midnight
  <2>1. /\ run.pc = "idle" /\ today' = today + 1 /\ missed' = missed + 1
        /\ UNCHANGED <<claimDay, run>>
    BY <1>4 DEF Midnight
  <2>2. \A d \in Days : claimDay[d] = NoRow => d + missed >= today
    BY DEF UnrecordedIsRecent
  <2>3. \A d \in Days : claimDay'[d] = NoRow => d + missed' >= today'
    BY <1>a, <2>1, <2>2
  <2> QED
    BY <2>1, <2>3 DEF UnrecordedIsRecent
<1>5. CASE ReadWell \/ ReadDegraded \/ Crash \/ Others \/ UNCHANGED vars
  <2>1. /\ UNCHANGED <<today, missed>>
        /\ run'.pc # "idle" => run.pc # "idle" /\ run'.todo = run.todo
    <3>1. CASE Others
      BY <1>0, <3>1, OthersStep
    <3>2. CASE ReadWell \/ ReadDegraded
      BY <1>r, <3>2 DEF ReadWell, ReadDegraded, RunType
    <3>3. CASE Crash
      BY <3>3 DEF Crash, IdleRun
    <3>4. CASE UNCHANGED vars
      BY <3>4 DEF vars
    <3> QED
      BY <1>5, <3>1, <3>2, <3>3, <3>4
  <2>2. InWindow' = InWindow
    BY <2>1 DEF InWindow
  <2> QED
    BY <1>s, <2>1, <2>2 DEF UnrecordedIsRecent, InWindow
<1> QED
  BY <1>1, <1>2, <1>3, <1>4, <1>5 DEF Next

\* No day falls out of the trailing window of cmd_classify unrecorded, as long as the
\* window is no shorter than the nights that are lost in a row.
THEOREM EveryDayIsRecorded ==
  ASSUME MaxMissed <= Window
  PROVE  Spec => []NoDayFallsThrough
<1>1. Init => UnrecordedIsRecent
  <2> SUFFICES ASSUME Init PROVE UnrecordedIsRecent
    OBVIOUS
  <2>1. today = 1 /\ missed = 0 /\ run.pc = "idle"
    BY DEF Init, IdleRun
  <2>2. Days \subseteq Nat \ {0}
    BY ClassifyAssumption DEF ClassifyAssumption
  <2> QED
    BY <2>1, <2>2 DEF UnrecordedIsRecent
<1>2. NightInv /\ UnrecordedIsRecent => NoDayFallsThrough
  <2> SUFFICES ASSUME TypeOK, UnrecordedIsRecent, NEW d \in Days, d + Window < today - 1
               PROVE  claimDay[d] # NoRow
    BY DEF NightInv, NoDayFallsThrough
  <2>1. /\ d \in Nat /\ Window \in Nat /\ MaxMissed \in Nat
        /\ today \in Nat /\ missed \in 0 .. MaxMissed + 1
    BY ClassifyAssumption DEF ClassifyAssumption, TypeOK
  <2>2. ~ (d + missed >= today)
    BY <2>1
  <2> QED
    BY <2>2 DEF UnrecordedIsRecent
<1>3. NightInv /\ UnrecordedIsRecent /\ [Next]_vars => UnrecordedIsRecent'
  BY RecentKept
<1> QED
  BY <1>1, <1>2, <1>3, NightIsInvariant, PTL DEF Spec

-----------------------------------------------------------------------------
(* The night implements the ledger's contract *)

\* LedgerSpec's operators are those of Ledger.
LEMMA SameLedger ==
  /\ LedgerContract!NoType = NoType
  /\ LedgerContract!Classification = Classification
  /\ LedgerContract!FreshRow = FreshRow
BY DEF LedgerContract!NoType, NoType, LedgerContract!Classification, Classification,
   LedgerContract!FreshRow, FreshRow, LedgerContract!NoRow, NoRow,
   LedgerContract!ClassifiedRow, ClassifiedRow

LEMMA SameDayOperators ==
  ASSUME NEW table
  PROVE  /\ \A d, c : LedgerContract!RecordDay(table, d, c) = RecordDay(table, d, c)
         /\ \A d, t : LedgerContract!ApplyOverride(table, d, t) = ApplyOverride(table, d, t)
         /\ \A D, s : LedgerContract!MarkDaysState(table, D, s) = MarkDaysState(table, D, s)
         /\ \A D, s : LedgerContract!MarkAccepted(table, D, s) <=> MarkAccepted(table, D, s)
<1>1. \A d, c : LedgerContract!RecordDay(table, d, c) = RecordDay(table, d, c)
  BY DEF LedgerContract!RecordDay, RecordDay, LedgerContract!Rewritable, Rewritable,
     LedgerContract!ClassifiedRow, ClassifiedRow
<1>2. \A d, t : LedgerContract!ApplyOverride(table, d, t) = ApplyOverride(table, d, t)
  BY DEF LedgerContract!ApplyOverride, ApplyOverride, LedgerContract!Overridable, Overridable,
     LedgerContract!NoType, NoType
<1>3. \A D, s : LedgerContract!MarkDaysState(table, D, s) = MarkDaysState(table, D, s)
  BY DEF LedgerContract!MarkDaysState, MarkDaysState, LedgerContract!Markable, Markable
<1>4. \A D, s : LedgerContract!MarkAccepted(table, D, s) <=> MarkAccepted(table, D, s)
  BY <1>3 DEF LedgerContract!MarkAccepted, MarkAccepted, LedgerContract!StateMatchesClaimType,
     StateMatchesClaimType, LedgerContract!ClaimStates, ClaimStates, LedgerContract!NoType, NoType
<1> QED
  BY <1>1, <1>2, <1>3, <1>4

\* A step of the night writes nothing to the ledger, or is one call of it.
LEMMA NightCallsLedger ==
  ASSUME NightInv, [Next]_vars
  PROVE  claimDay' = claimDay \/ LedgerContract!DayStep
<1>0. TypeOK
  BY DEF NightInv
<1>1. CASE RecordNext
  <2> DEFINE d == NextDay
             c == ClassifyDay(d, run.events[d], run.degraded, d \in run.office)
  <2>1. d \in Days /\ c \in Classification
    BY <1>0, <1>1, RecordNextStep
  <2>2. claimDay' = claimDay \/ claimDay' = RecordDay(claimDay, d, c)
    BY <1>1 DEF RecordNext, NextDay
  <2> HIDE DEF d, c
  <2>3. claimDay' = RecordDay(claimDay, d, c) => LedgerContract!Record(d, c)
    BY SameDayOperators DEF LedgerContract!Record
  <2> QED
    BY <2>1, <2>2, <2>3, SameLedger DEF LedgerContract!DayStep
<1>2. ASSUME NEW d \in Days, NEW E \in SUBSET Events, ChangeCalendar(d, E)
      PROVE  claimDay' = claimDay
  BY <1>2 DEF ChangeCalendar
<1>3. ASSUME NEW d \in Days, NEW t \in {"commute", "home", NoType}, Override(d, t)
      PROVE  LedgerContract!DayStep
  <2>1. t \in ClaimTypes \union {NoType}
    BY ClassifyAssumption DEF ClassifyAssumption
  <2>2. LedgerContract!Override(d, t)
    BY <1>3, SameDayOperators DEF Override, LedgerContract!Override
  <2> QED
    BY <2>1, <2>2, SameLedger DEF LedgerContract!DayStep
<1>4. ASSUME NEW d \in Days, NEW s \in {"drafted", "submitted", "needs_input"}, JobMarks(d, s)
      PROVE  LedgerContract!DayStep
  <2>1. LedgerContract!MarkDays({d}, s)
    BY <1>4, SameDayOperators DEF JobMarks, LedgerContract!MarkDays
  <2> QED
    BY <2>1 DEF LedgerContract!DayStep
<1>5. CASE Others
  BY <1>2, <1>3, <1>4, <1>5 DEF Others
<1> QED
  BY <1>1, <1>5 DEF Next, Start, ReadWell, ReadDegraded, Finish, Crash, Midnight, vars

\* The nightly run and whatever writes claim_day between its steps make no call that
\* LedgerSpec does not allow: a person's word and a filed day survive every night.
THEOREM NightImplementsLedger == Spec => ImplementsLedger
<1>1. Init => LedgerContract!Init
  <2> SUFFICES ASSUME Init PROVE LedgerContract!Init
    OBVIOUS
  <2>1. claimDay = [d \in Days |-> NoRow] /\ NoRow \in FreshRow
    BY DEF Init, FreshRow
  <2>2. claimDay \in [Days -> LedgerContract!FreshRow]
    BY <2>1, SameLedger
  <2>3. [k \in Keys |-> <<>>] = [k \in LedgerContract!Keys |-> <<>>]
    BY DEF Keys, LedgerContract!Keys
  <2> QED
    BY <2>2, <2>3 DEF LedgerContract!Init
<1>2. NightInv /\ [Next]_vars => [LedgerContract!Next]_(LedgerContract!vars)
  BY NightCallsLedger DEF LedgerContract!Next, LedgerContract!vars
<1> QED
  BY <1>1, <1>2, NightIsInvariant, PTL DEF Spec, ImplementsLedger, LedgerContract!Spec


=============================================================================
