----------------------------- MODULE ClaimList -----------------------------
(***************************************************************************)
(* Reading what AFAS holds: readback.read_lines over the two paged grids   *)
(* of the claim list.  The portal is outside src/: it draws a page in its  *)
(* own time, first half of it, and may not move at all.                    *)
(***************************************************************************)
EXTENDS Naturals, Sequences, FiniteSets

CONSTANTS
  Lines,         \* the declaration lines AFAS can hold
  DraftGrids,    \* what the grid of open drafts can hold: a set of sequences of
                 \* pages, a page being how often it shows each line
  MainGrids,     \* the same for the main grid
  MAX_PAGES,
  PAGER_POLLS

PageOf == [Lines -> 0 .. 2]

ASSUME ListAssumption ==
  /\ DraftGrids \subseteq Seq(PageOf) \ {<<>>} /\ MainGrids \subseteq Seq(PageOf) \ {<<>>}
  /\ MAX_PAGES \in Nat /\ PAGER_POLLS \in Nat

VARIABLES
  grids,    \* [draft, main]: the pages of both
  shown,    \* the page number of each grid, and how far it is drawn
  list      \* memory of read_lines and _turn_page

listVars == <<grids, shown, list>>

First == [draft |-> 1, main |-> 1]
NewList == [pc |-> "read", seen |-> [l \in Lines |-> 0], pages |-> 0,
            polls |-> 0, text |-> First, previous |-> First, half |-> FALSE]

Places == [draft: Nat \ {0}, main: Nat \ {0}]

ListTypeOK ==
  /\ grids.draft \in DraftGrids /\ grids.main \in MainGrids
  /\ shown.at \in Places /\ shown.drawn \in {"old", "half", "whole"}
  /\ list.pc \in {"read", "turn", "returned", "raised"}
  /\ list.seen \in [Lines -> 0 .. 2]
  /\ list.pages \in 0 .. MAX_PAGES /\ list.polls \in 0 .. PAGER_POLLS
  /\ list.text \in Places /\ list.previous \in Places /\ list.half \in BOOLEAN

-----------------------------------------------------------------------------
Bigger(a, b) == IF a < b THEN b ELSE a

\* parse_lines: a line counts once per page unless one grid shows it twice.
ParseLines(at) ==
  [l \in Lines |-> Bigger(grids.draft[at.draft][l], grids.main[at.main][l])]

\* Mutant: pages are added up.
MergeAdds(seen, page) ==
  [l \in Lines |-> IF seen[l] + page[l] > 2 THEN 2 ELSE seen[l] + page[l]]

\* seen |= Counter(...).
Merge(seen, page) == [l \in Lines |-> Bigger(seen[l], page[l])]

Fewer(at, g) == at[g] < Len(grids[g])

\* The pagers that are visible and enabled; the draft grid is above the main one.
Live(at) == {g \in {"draft", "main"} : Fewer(at, g)}
FirstLive(at) == IF Fewer(at, "draft") THEN "draft" ELSE "main"

Turned(at) == [at EXCEPT ![FirstLive(at)] = @ + 1]

\* One round of read_lines: take the page; then return, raise or turn.
ReadPage ==
  LET seen == Merge(list.seen, ParseLines(list.text))
  IN  /\ list.pc = "read"
      /\ \/ /\ Live(list.text) = {}
            /\ list' = [list EXCEPT
                 !.seen = seen,
                 !.pc = IF \A l \in Lines : seen[l] = 0 THEN "raised" ELSE "returned"]
            /\ UNCHANGED shown
         \/ /\ Live(list.text) # {}
            /\ list' = [list EXCEPT
                 !.seen = seen, !.pages = @ + 1, !.polls = 0, !.half = FALSE,
                 !.previous = list.text,
                 !.pc = IF list.pages + 1 = MAX_PAGES THEN "raised" ELSE "turn"]
            /\ shown' = [at |-> Turned(list.text), drawn |-> "old"]
      /\ UNCHANGED grids

\* A page that did not render, a row that cannot be read, or a click that fails.
ReadFails ==
  /\ list.pc \in {"read", "turn"}
  /\ list' = [list EXCEPT !.pc = "raised"]
  /\ UNCHANGED <<grids, shown>>

\* The portal draws the page asked for, or goes on showing the old one.  What is
\* half drawn does not stay so from one poll to the next.
Draws ==
  /\ list.pc = "turn" /\ shown.drawn # "whole"
  /\ shown' \in [at: {shown.at}, drawn: {"half", "whole"}]
  /\ shown' # shown
  /\ UNCHANGED <<grids, list>>

\* Mutant: a page that does not come means that the list is at its end.
PollGivesUp ==
  /\ list.pc = "turn"
  /\ \/ shown.drawn = "whole" /\ list' = [list EXCEPT !.pc = "read", !.text = shown.at]
     \/ shown.drawn = "old" /\ list' = [list EXCEPT !.pc = "returned"]
  /\ UNCHANGED <<grids, shown>>

\* _turn_page: the page is taken when it is not the old one and twice the same.
Poll ==
  /\ list.pc = "turn"
  /\ ~ (list.half /\ shown.drawn = "half")
  /\ LET same == shown.drawn = "whole" /\ list.previous = shown.at /\ ~ list.half
     IN  list' = [list EXCEPT
           !.pc = IF same THEN "read"
                  ELSE IF list.polls + 1 = PAGER_POLLS THEN "raised" ELSE "turn",
           !.text = IF same THEN shown.at ELSE @,
           !.previous = IF shown.drawn = "whole" THEN shown.at ELSE @,
           !.half = shown.drawn = "half",
           !.polls = IF same THEN 0 ELSE @ + 1]
  /\ UNCHANGED <<grids, shown>>

-----------------------------------------------------------------------------
ListInit ==
  /\ grids \in [draft: DraftGrids, main: MainGrids]
  /\ shown = [at |-> First, drawn |-> "whole"]
  /\ list = NewList

ReadLines == ReadPage \/ ReadFails \/ Draws \/ Poll

ListSpec == ListInit /\ [][ReadLines]_listVars

-----------------------------------------------------------------------------
(* Properties *)

Shows(g, l) == \E i \in DOMAIN grids[g] : grids[g][i][l] > 0

\* How often a grid shows a line on one page.
Times(l) == {grids.draft[i][l] : i \in DOMAIN grids.draft}
              \union {grids.main[i][l] : i \in DOMAIN grids.main}

\* A list that is returned is the whole of it, however the pages come, and counts
\* no line more often than a grid shows it ("reading on would pass part of the list
\* off as all of it, which makes a filed day look absent", _turn_page).
ListIsWhole ==
  list.pc = "returned" =>
    \A l \in Lines :
      /\ (\E g \in {"draft", "main"} : Shows(g, l)) => list.seen[l] > 0
      /\ list.seen[l] \in Times(l)

=============================================================================
