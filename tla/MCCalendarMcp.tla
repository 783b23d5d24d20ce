--------------------------- MODULE MCCalendarMcp ---------------------------
(* Small instances of CalendarMcp. *)
EXTENDS CalendarMcp

CONSTANTS refused, unsaved, error, note, blind, hang

AllDay(first, span) ==
  [first |-> first, span |-> span, allDay |-> TRUE, cancelled |-> FALSE, parses |-> TRUE]

\* The window is 3 .. 5 and the query reaches back to 1: an entry before that,
\* leave that reaches into the window from as far back and as long as is looked
\* for, a booking, a cancelled booking, a meeting, leave that runs past the end,
\* and an entry after it.
Calendar == <<
  AllDay(0, 1), AllDay(1, 3), AllDay(3, 1),
  [AllDay(3, 1) EXCEPT !.cancelled = TRUE],
  [AllDay(4, 1) EXCEPT !.allDay = FALSE],
  AllDay(5, 2), AllDay(6, 1) >>

AnyMailbox == SUBSET DOMAIN Calendar

\* An entry nobody can read.
OddCalendar == << [AllDay(3, 1) EXCEPT !.parses = FALSE], AllDay(4, 1) >>
OddMailbox == {{1, 2}}

\* Two days off, entered with hours.
TimedLeave == << [AllDay(3, 2) EXCEPT !.allDay = FALSE] >>
TimedMailbox == {{1}}

Bounds == [t \in Troubles |->
  CASE t = "refused" -> refused [] t = "unsaved" -> unsaved [] t = "error" -> error
    [] t = "note" -> note [] t = "blind" -> blind [] t = "hang" -> hang]

=============================================================================
