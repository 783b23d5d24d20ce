------------------------------ MODULE Classify ------------------------------
(***************************************************************************)
(* The nightly run: cli.cmd_classify over classify.classify_day, with the  *)
(* calendar, the days that pass, and whatever else writes claim_day in     *)
(* between.  A day is a number, so that a trailing window is an interval.  *)
(***************************************************************************)
EXTENDS Ledger

CONSTANTS
  Events,         \* the models.CalendarEvent that can be in the calendar
  Weekend,        \* days outside working_weekdays
  Holidays,       \* excluded_dates
  Window,         \* --window: days back from yesterday
  RequireEvents,  \* REQUIRE_CALENDAR_EVENTS
  MaxMissed,      \* bound: nights in a row without a run that finished
  MaxEdits        \* bound: changes of the calendar and of the ledger by others

Event == [allDay: BOOLEAN, organiser: BOOLEAN, prefix: BOOLEAN, oof: BOOLEAN]

ASSUME ClassifyAssumption ==
  /\ Days \subseteq Nat \ {0}
  /\ Events \subseteq Event
  /\ Weekend \subseteq Days /\ Holidays \subseteq Days
  /\ {Window, MaxMissed, MaxEdits} \subseteq Nat
  /\ RequireEvents \in BOOLEAN
  /\ {"commute", "home"} \subseteq ClaimTypes

VARIABLES
  claimDay,  \* table claim_day
  calendar,  \* [Days -> SUBSET Events], as it is in Outlook now
  today,     \* date.today()
  missed,    \* midnights since the last run that finished
  run,       \* memory of the running cmd_classify
  edits,     \* what is left of MaxEdits
  history    \* for the properties: what good reads showed, what runs froze as office

vars == <<claimDay, calendar, today, missed, run, edits, history>>

IdleRun == [pc |-> "idle", existing |-> {}, office |-> {}, degraded |-> FALSE,
            events |-> [d \in Days |-> {}], todo |-> {}]

TypeOK ==
  /\ claimDay \in [Days -> DayRow]
  /\ \A d \in Days : StateMatchesClaimType(claimDay[d])
  /\ calendar \in [Days -> SUBSET Events]
  /\ today \in Nat /\ missed \in 0 .. MaxMissed + 1 /\ edits \in 0 .. MaxEdits
  /\ run \in [pc: {"idle", "read", "record"}, existing: SUBSET Days, office: SUBSET Days,
              degraded: BOOLEAN, events: [Days -> SUBSET Events], todo: SUBSET Days]
  /\ history \in [shown: [Days -> SUBSET SUBSET Events], frozen: SUBSET Days]

-----------------------------------------------------------------------------
(* classify_day *)

\* CalendarEvent.is_desk_booking: three signals must agree.
IsDeskBooking(e) == e.allDay /\ e.organiser /\ e.prefix

Booked(E) == \E e \in E : IsDeskBooking(e)
OutOfOffice(E) == \E e \in E : e.oof

\* Mutant: an outage reads as a day without a booking.
ClassifyDayThroughOutage(d, E, degraded, wasOffice) ==
  IF d \in Weekend \union Holidays \/ OutOfOffice(E)
  THEN [type |-> NoType, state |-> "excluded"]
  ELSE IF Booked(E) THEN [type |-> "commute", state |-> "planned"]
  ELSE IF wasOffice THEN [type |-> NoType, state |-> "needs_input"]
  ELSE [type |-> "home", state |-> "planned"]

\* Mutant: the previous verdict is not looked at.
ClassifyDayForgets(d, E, degraded, wasOffice) ==
  IF d \in Weekend \union Holidays \/ OutOfOffice(E)
  THEN [type |-> NoType, state |-> "excluded"]
  ELSE IF degraded THEN [type |-> NoType, state |-> "needs_input"]
  ELSE [type |-> IF Booked(E) THEN "commute" ELSE "home", state |-> "planned"]

\* classify_day and DayClassification.  cmd_classify never passes on_leave_in_afas.
ClassifyDay(d, E, degraded, wasOffice) ==
  LET nothing == [type |-> NoType, state |-> "excluded"]
      ask == [type |-> NoType, state |-> "needs_input"]
      claim(t) == [type |-> t, state |-> "planned"]
  IN  IF d \in Weekend \union Holidays THEN nothing
      ELSE IF degraded THEN ask
      ELSE IF OutOfOffice(E) THEN nothing
      ELSE IF Booked(E) THEN claim("commute")
      ELSE IF wasOffice THEN ask
      ELSE claim("home")

-----------------------------------------------------------------------------
(* cmd_classify *)

\* Mutant: one day short.
InWindowShort == {d \in Days : d <= today - 1 /\ d + Window > today - 1}

\* From --window days before yesterday up to yesterday.
InWindow == {d \in Days : d <= today - 1 /\ d + Window >= today - 1}

\* The ledger is read before the calendar.
Start ==
  /\ run.pc = "idle"
  /\ run' = [IdleRun EXCEPT
       !.pc = "read", !.todo = InWindow,
       !.existing = {d \in InWindow : claimDay[d] # NoRow},
       !.office = {d \in InWindow : claimDay[d].type = "commute"}]
  /\ UNCHANGED <<claimDay, calendar, today, missed, edits, history>>

\* A window without a single event is refused unless told otherwise.
Suspicious == RequireEvents /\ \A d \in run.todo : calendar[d] = {}

ReadWell ==
  /\ run.pc = "read" /\ ~ Suspicious
  /\ run' = [run EXCEPT !.pc = "record", !.events = calendar]
  /\ history' = [history EXCEPT !.shown =
       [d \in Days |-> IF d \in run.todo THEN @[d] \union {calendar[d]} ELSE @[d]]]
  /\ UNCHANGED <<claimDay, calendar, today, missed, edits>>

\* The connector failed, answered in part, or answered with nothing at all.
ReadDegraded ==
  /\ run.pc = "read"
  /\ run' = [run EXCEPT !.pc = "record", !.degraded = TRUE]
  /\ UNCHANGED <<claimDay, calendar, today, missed, edits, history>>

\* Mutant: an outage asks about every day again.
SkipNever(d) == FALSE

\* A failed read says nothing about a day a good read already decided.
Skip(d) == run.degraded /\ d \in run.existing

\* Mutant: the row is replaced whatever it is.
RecordNextBlindly ==
  LET d == CHOOSE x \in run.todo : \A y \in run.todo : x <= y
      c == ClassifyDay(d, run.events[d], run.degraded, d \in run.office)
  IN  /\ run.pc = "record" /\ run.todo # {}
      /\ claimDay' = [claimDay EXCEPT ![d] = ClassifiedRow(c)]
      /\ run' = [run EXCEPT !.todo = @ \ {d}]
      /\ UNCHANGED <<calendar, today, missed, edits, history>>

\* One day of the loop, a commit of its own.
RecordNext ==
  LET d == CHOOSE x \in run.todo : \A y \in run.todo : x <= y
      c == ClassifyDay(d, run.events[d], run.degraded, d \in run.office)
  IN  /\ run.pc = "record" /\ run.todo # {}
      /\ claimDay' = IF Skip(d) THEN claimDay ELSE RecordDay(claimDay, d, c)
      /\ run' = [run EXCEPT !.todo = @ \ {d}]
      /\ history' = IF claimDay'[d] # claimDay[d] /\ c.type = "commute"
                    THEN [history EXCEPT !.frozen = @ \union {d}] ELSE history
      /\ UNCHANGED <<calendar, today, missed, edits>>

Finish ==
  /\ run.pc = "record" /\ run.todo = {}
  /\ run' = IdleRun /\ missed' = 0
  /\ UNCHANGED <<claimDay, calendar, today, edits, history>>

\* Sign-in or the database fails, or the pod is killed: what is committed stays.
Crash ==
  /\ run.pc # "idle"
  /\ run' = IdleRun
  /\ UNCHANGED <<claimDay, calendar, today, missed, edits, history>>

-----------------------------------------------------------------------------
(* What happens around the run *)

\* The date changes.  Two midnights without a finished run between them are one
\* missed night.
Midnight ==
  /\ run.pc = "idle" /\ missed < MaxMissed + 1
  /\ \E d \in Days : d >= today
  /\ today' = today + 1
  /\ missed' = missed + 1
  /\ UNCHANGED <<claimDay, calendar, run, edits, history>>

Edit == edits > 0 /\ edits' = edits - 1 /\ UNCHANGED <<today, missed, run, history>>

\* The user books, cancels, or moves something.
ChangeCalendar(d, E) ==
  /\ Edit /\ calendar' = [calendar EXCEPT ![d] = E]
  /\ UNCHANGED claimDay

\* A person decides: slackd.handle_corrections, cli.cmd_override.
Override(d, t) ==
  /\ Edit /\ claimDay' = ApplyOverride(claimDay, d, t)
  /\ UNCHANGED calendar

\* Mutant: a mark that breaks the CHECK constraint is written.
JobMarksUnchecked(d, s) ==
  /\ Edit /\ claimDay' = MarkDaysState(claimDay, {d}, s)
  /\ UNCHANGED calendar

\* The build and the submit job move a day that is on a claim, or take it off.
JobMarks(d, s) ==
  /\ Edit /\ claimDay[d].type # NoType
  /\ MarkAccepted(claimDay, {d}, s)
  /\ claimDay' = MarkDaysState(claimDay, {d}, s)
  /\ UNCHANGED calendar

Others ==
  \/ \E d \in Days, E \in SUBSET Events : ChangeCalendar(d, E)
  \/ \E d \in Days, t \in {"commute", "home", NoType} : Override(d, t)
  \/ \E d \in Days, s \in {"drafted", "submitted", "needs_input"} : JobMarks(d, s)

Init ==
  /\ claimDay = [d \in Days |-> NoRow]
  /\ calendar \in [Days -> {E \in SUBSET Events : Cardinality(E) <= 1}]
  /\ today = 1 /\ missed = 0 /\ edits = MaxEdits
  /\ run = IdleRun
  /\ history = [shown |-> [d \in Days |-> {}], frozen |-> {}]

Next ==
  \/ Start \/ ReadWell \/ ReadDegraded \/ RecordNext \/ Finish \/ Crash
  \/ Midnight \/ Others

Spec == Init /\ [][Next]_vars

-----------------------------------------------------------------------------
(* Properties *)

\* The nightly run, with everything around it, uses the ledger as LedgerSpec
\* allows: a person's word and a filed day survive it.
LedgerContract == INSTANCE LedgerSpec WITH
  submission <- [k \in Keys |-> <<>>], approving <- {}, MaxRounds <- 0
ImplementsLedger == LedgerContract!Spec

\* Nothing is claimed without evidence that was really read: a planned office day
\* had a desk booking in a good read, a planned home day had a good read of a
\* working day with neither a booking nor leave ("an outage would quietly convert
\* into a month of wrong claims", classify_day).
PlannedHasEvidence ==
  \A d \in Days : claimDay[d].state = "planned" =>
    \E E \in history.shown[d] :
      /\ ~ OutOfOffice(E)
      /\ claimDay[d].type = "commute" <=> Booked(E)

\* A run that could not read the calendar leaves every recorded day as it is
\* ("A failed read says nothing about a day a good read already decided").
OutageKeepsDecisions ==
  [][run.degraded /\ run' # run =>
       \A d \in Days : claimDay[d] # NoRow => claimDay'[d] = claimDay[d]]_vars

\* An office day does not become a home claim in one night: only a person takes
\* it from one to the other directly.
OfficeNeverTurnsHome ==
  [][\A d \in Days : claimDay[d].type = "commute" /\ claimDay'[d].type = "home"
       => claimDay'[d].overridden]_vars

\* No day slips out of the trailing window unrecorded, however the runs fail, as
\* long as no more than MaxMissed nights in a row are lost.
NoDayFallsThrough ==
  \A d \in Days : d + Window < today - 1 => claimDay[d] # NoRow

\* A booking that disappears after the day was frozen as office is asked about,
\* not read as a home day ("that signal must not be lost", classify_day).
WithdrawnBookingIsAsked ==
  \A d \in history.frozen : claimDay[d].type = "home" => claimDay[d].overridden

=============================================================================
