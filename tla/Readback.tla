------------------------------ MODULE Readback ------------------------------
(***************************************************************************)
(* What AFAS holds and how readback.py reads it.                           *)
(*                                                                         *)
(* A task is one declaration in AFAS: its claim type, the days it has a    *)
(* line for, and its status.  `filedBy' is not in AFAS; it is kept so that *)
(* properties can tell the app's click from a click by hand.  The claim    *)
(* list shows one line per day of each task.                               *)
(***************************************************************************)
EXTENDS Ledger

CONSTANT TaskIds   \* bound: declarations AFAS holds at once

ASSUME TaskIdsAssumption == TaskIds \subseteq Nat

Task == [id: TaskIds, type: ClaimTypes, days: SUBSET Days,
         status: {"draft",   \* Medewerker
                  "filed",   \* Leidinggevende or Akkoord
                  "other"},  \* any other status, a rejection by the manager say
         filedBy: {"nobody", "app", "hand"}]

Lines(tasks, d) == {x \in tasks : d \in x.days}

IsDraft(x, t) == x.type = t /\ x.status = "draft"

\* The days of D that have one line in AFAS, of claim type t and status s.
Sole(tasks, t, D, s) ==
  {d \in D : \E x \in tasks : Lines(tasks, d) = {x} /\ x.type = t /\ x.status = s}

\* Mutant: only lines of this claim type count.
AbsentOfType(tasks, t, D) == {d \in D : \A x \in Lines(tasks, d) : x.type # t}

\* Mutant: only open lines count.
AbsentUnlessDraft(tasks, t, D) == {d \in D : \A x \in Lines(tasks, d) : x.status # "draft"}

Absent(tasks, t, D) == {d \in D : Lines(tasks, d) = {}}

\* readback.position: where the days D stand for claim type t.
Position(tasks, t, D) ==
  LET filed == Sole(tasks, t, D, "filed")
      draft == Sole(tasks, t, D, "draft")
      absent == Absent(tasks, t, D)
  IN  [filed |-> filed,
       draft |-> draft,
       absent |-> absent,
       conflict |-> D \ (filed \union draft \union absent),
       others |-> {d \in Days \ D : \E x \in Lines(tasks, d) : IsDraft(x, t)}]

NoPosition == [filed |-> {}, draft |-> {}, absent |-> {}, conflict |-> {}, others |-> {}]

Positions == [filed: SUBSET Days, draft: SUBSET Days, absent: SUBSET Days,
              conflict: SUBSET Days, others: SUBSET Days]

=============================================================================
