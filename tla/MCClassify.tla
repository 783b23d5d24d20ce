----------------------------- MODULE MCClassify -----------------------------
(* A small calendar for Classify. *)
EXTENDS Classify

Desk == [allDay |-> TRUE, organiser |-> TRUE, prefix |-> TRUE, oof |-> FALSE]

\* A meeting whose subject begins like a booking.
Meeting == [allDay |-> FALSE, organiser |-> FALSE, prefix |-> TRUE, oof |-> FALSE]

Leave == [allDay |-> TRUE, organiser |-> FALSE, prefix |-> FALSE, oof |-> TRUE]

DeskAndMeeting == {Desk, Meeting}
DeskAndLeave == {Desk, Leave}

\* Every month is the same month here: periods play no part in classification.
OneMonth == [d \in Days |-> 1]
=============================================================================
