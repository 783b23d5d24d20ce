---------------------------- MODULE CalendarOwa ----------------------------
(***************************************************************************)
(* Reading the calendar from Outlook on the web: calendar_owa.read_week    *)
(* for one week after the other, as cli._read_calendar calls it.  Outlook  *)
(* is outside src/: it opens on the current week whatever is asked, draws  *)
(* its header and its grid when it likes, and may want a sign-in.          *)
(***************************************************************************)
EXTENDS Integers, FiniteSets

CONSTANTS
  Weeks,         \* the weeks a window touches, in order: an interval
  ThisWeek,      \* the week Outlook opens on
  Events,        \* the events that can be in the calendar
  WeekOf,        \* the week an event is in
  max_steps,     \* of read_week
  GridLags       \* whether the grid can stay empty or behind once it was loaded again

ASSUME OwaAssumption ==
  /\ Weeks \subseteq Int /\ (\E lo, hi \in Weeks : Weeks = lo .. hi) /\ ThisWeek \in Int
  /\ WeekOf \in [Events -> Int]
  /\ max_steps \in Nat /\ GridLags \in BOOLEAN

VARIABLES
  mailbox,   \* the events in the calendar
  outlook,   \* the page: its week, whether the header is drawn, what the grid shows
  reader,    \* memory of _read_calendar and read_week
  answer     \* what _read_calendar returned

owaVars == <<mailbox, outlook, reader, answer>>

Contract == INSTANCE CalendarContract WITH
  Entries <- Events, DaysOf <- [e \in Events |-> {WeekOf[e]}], Window <- Weeks

FirstWeek == CHOOSE w \in Weeks : \A v \in Weeks : w <= v

NewReader(w) == [pc |-> "goto", week |-> w, steps |-> 0, reloaded |-> FALSE,
                 answered |-> FALSE, events |-> {}, degraded |-> FALSE]

OwaTypeOK ==
  /\ mailbox \subseteq Events
  /\ outlook \in [week: Int, header: BOOLEAN, grid: SUBSET Events, login: BOOLEAN]
  /\ reader \in [pc: {"goto", "first", "loop", "harvest", "done", "raised"}, week: Weeks,
                 steps: 0 .. max_steps + 1, reloaded: BOOLEAN, answered: BOOLEAN,
                 events: SUBSET (Events \X Weeks), degraded: BOOLEAN]
  /\ answer \in [given: BOOLEAN, degraded: BOOLEAN, events: SUBSET (Events \X Weeks)]

-----------------------------------------------------------------------------
(* Outlook *)

EventsIn(w) == {e \in mailbox : WeekOf[e] = w}

\* What the grid shows once _settle has given up or seen an event.
GridAt(w, was) == {EventsIn(w)} \union IF GridLags THEN {{}, was} ELSE {}

\* A week is on screen; its header may take longer than rendered_week waits.
Draw(w, grids) ==
  \E h \in BOOLEAN, g \in grids :
    outlook' = [week |-> w, header |-> h, grid |-> g, login |-> FALSE]

\* A page load.  On a fresh profile the grid stays empty until it is loaded again.
Load(cold) ==
  \/ Draw(ThisWeek, GridAt(ThisWeek, {}) \union IF cold THEN {{}} ELSE {})
  \/ outlook' = [week |-> ThisWeek, header |-> FALSE, grid |-> {}, login |-> TRUE]

-----------------------------------------------------------------------------
(* read_week *)

Goto ==
  /\ reader.pc = "goto"
  /\ Load(TRUE)
  /\ reader' = [reader EXCEPT !.pc = "first"]
  /\ UNCHANGED <<mailbox, answer>>

\* Outlook sent the browser to Entra: answer_sign_in, once, and load again.
WantsSignIn == reader.pc = "first" /\ outlook.login /\ ~ reader.answered

SignInAnswered ==
  /\ WantsSignIn
  /\ Load(TRUE)
  /\ reader' = [reader EXCEPT !.answered = TRUE]
  /\ UNCHANGED <<mailbox, answer>>

\* A grid without an event is loaded once more, and taken as it then is.
FirstLook ==
  /\ reader.pc = "first" /\ ~ WantsSignIn
  /\ IF outlook.grid = {} THEN Load(FALSE) ELSE UNCHANGED outlook
  /\ reader' = [reader EXCEPT !.pc = "loop"]
  /\ UNCHANGED <<mailbox, answer>>

\* Mutant: the first range on the page, which is that of the button to the week before.
HeaderSaysFirstRange == outlook.week - 1

\* rendered_week, when the header is drawn.
HeaderSays == outlook.week

Stepping == reader.pc = "loop" /\ reader.steps <= max_steps

\* The header cannot be read: one load more, the second time the week is degraded.
ReloadForHeader ==
  /\ Stepping /\ ~ outlook.header /\ ~ reader.reloaded
  /\ Load(FALSE)
  /\ reader' = [reader EXCEPT !.reloaded = TRUE, !.steps = @ + 1]
  /\ UNCHANGED <<mailbox, answer>>

WeekDone(E, failed) ==
  /\ reader' =
       LET events == reader.events \union E
           degraded == reader.degraded \/ failed
       IN  IF reader.week + 1 \in Weeks
           THEN [NewReader(reader.week + 1) EXCEPT !.events = events, !.degraded = degraded]
           ELSE [reader EXCEPT !.pc = "done", !.events = events, !.degraded = degraded]
  /\ UNCHANGED <<mailbox, outlook, answer>>

\* No header after a reload, no control to click, or too many steps.
GiveUp ==
  /\ \/ Stepping /\ ~ outlook.header /\ reader.reloaded
     \/ Stepping /\ outlook.header /\ HeaderSays # reader.week
     \/ reader.pc = "loop" /\ reader.steps > max_steps
  /\ WeekDone({}, TRUE)

\* The week on screen is not the one asked for: one week back or on.
ClickWeek ==
  /\ Stepping /\ outlook.header /\ HeaderSays # reader.week
  /\ LET w == outlook.week + IF reader.week < HeaderSays THEN -1 ELSE 1
     IN  Draw(w, GridAt(w, outlook.grid))
  /\ reader' = [reader EXCEPT !.steps = @ + 1]
  /\ UNCHANGED <<mailbox, answer>>

Arrive ==
  /\ Stepping /\ outlook.header /\ HeaderSays = reader.week
  /\ reader' = [reader EXCEPT !.pc = "harvest"]
  /\ UNCHANGED <<mailbox, outlook, answer>>

\* The labels of the grid, those dated in the week asked.  The label of the header
\* parses as an event too, so that `every label failed to parse' is never the case.
Harvest ==
  /\ reader.pc = "harvest"
  /\ WeekDone({e \in outlook.grid \X {reader.week} : WeekOf[e[1]] = e[2]}, FALSE)

\* A navigation that fails raises.
PageFails ==
  /\ reader.pc \in {"goto", "first", "loop"}
  /\ reader' = [reader EXCEPT !.pc = "raised"]
  /\ UNCHANGED <<mailbox, outlook, answer>>

\* _read_calendar returns; cmd_classify looks at no event of a degraded read.
Return ==
  /\ reader.pc = "done" /\ ~ answer.given
  /\ answer' = IF reader.degraded THEN Contract!Degraded ELSE Contract!Read(reader.events)
  /\ UNCHANGED <<mailbox, outlook, reader>>

-----------------------------------------------------------------------------
OwaInit ==
  /\ mailbox \in SUBSET Events
  /\ outlook = [week |-> ThisWeek, header |-> FALSE, grid |-> {}, login |-> FALSE]
  /\ reader = NewReader(FirstWeek)
  /\ answer = Contract!NoAnswer

ReadCalendar ==
  \/ Goto \/ FirstLook \/ ReloadForHeader \/ GiveUp \/ ClickWeek \/ Arrive \/ Harvest
  \/ PageFails \/ Return

OwaSpec == OwaInit /\ [][ReadCalendar \/ SignInAnswered]_owaVars

-----------------------------------------------------------------------------
(* Properties *)

\* The reader keeps the contract of the classify job: it never reads one week for
\* another, nor a week it could not reach for an empty one ("a mismatch is reported
\* as degraded, never as an empty week", read_week).
OwaImplementsContract == Contract!Spec

=============================================================================
