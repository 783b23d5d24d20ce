---------------------------- MODULE MCClaimCycle ----------------------------
(* Small instances of ClaimCycle. *)
EXTENDS ClaimCycle

CONSTANTS d1, d2

Planned(t) == [type |-> t, state |-> "planned", overridden |-> FALSE]
Undecided == [type |-> NoType, state |-> "needs_input", overridden |-> FALSE]

\* Two days of one period.
OnePeriod == [d \in Days |-> 1]

\* The second day falls in the next period.
TwoPeriods == [d \in Days |-> IF d = d2 THEN 2 ELSE 1]

OfficeDays == [d \in Days |-> Planned("commute")]

\* Every day was an office day.
AllCommute == {OfficeDays}

\* One day at the office, one at home.
CommuteAndHome == {[OfficeDays EXCEPT ![d2] = Planned("home")]}

\* All office days, or a second day that was not answered in time and can come in
\* a later round.
PerhapsUndecided == {OfficeDays, [OfficeDays EXCEPT ![d2] = Undecided]}

\* All office days, or one at home.
PerhapsHome == {OfficeDays} \union CommuteAndHome

=============================================================================
