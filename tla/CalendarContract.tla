-------------------------- MODULE CalendarContract --------------------------
(***************************************************************************)
(* What cli.cmd_classify takes both calendar readers to promise: an answer *)
(* (events, degraded) that is either degraded or exactly what the calendar *)
(* holds for the days asked ("the rule that a failed read must never be    *)
(* read as `no office days' has to hold whichever one is in use",          *)
(* cli._read_calendar).  A reader may also raise and answer nothing.       *)
(***************************************************************************)
EXTENDS Integers

CONSTANTS
  Entries,   \* the entries that can be in the calendar
  DaysOf,    \* the days an entry really covers
  Window     \* the days asked about

VARIABLES
  mailbox,   \* the entries that are in the calendar
  answer     \* the reader's answer, or NoAnswer

vars == <<mailbox, answer>>

NoAnswer == [given |-> FALSE, degraded |-> FALSE, events |-> {}]
Degraded == [given |-> TRUE, degraded |-> TRUE, events |-> {}]
Read(E) == [given |-> TRUE, degraded |-> FALSE, events |-> E]

\* The models.CalendarEvent of a calendar: one per entry and day it covers.
Holds(M) == {e \in M \X Window : e[2] \in DaysOf[e[1]]}

Init == mailbox \in SUBSET Entries /\ answer = NoAnswer

Ask == answer' = NoAnswer
Fail == answer = NoAnswer /\ answer' = Degraded
Answer == answer = NoAnswer /\ answer' = Read(Holds(mailbox))

Next == UNCHANGED mailbox /\ (Ask \/ Fail \/ Answer)

Spec == Init /\ [][Next]_vars

=============================================================================
