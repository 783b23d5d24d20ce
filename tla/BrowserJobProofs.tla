-------------------------- MODULE BrowserJobProofs --------------------------
(***************************************************************************)
(* What a job that drives the browser can be trusted with: a claim list    *)
(* that read_lines returns is the whole of it; a draft is created of rows  *)
(* that hold what was meant; a calendar that Outlook draws in time is read *)
(* whole or degraded; and of the job they make up, that it signs in as     *)
(* sign_in alone does and enters no day that AFAS has.  For all grids,     *)
(* calendars, days and timings.                                            *)
(***************************************************************************)
EXTENDS BrowserJob, EntraSignInProofs

-----------------------------------------------------------------------------
(* The claim list *)

\* A place in the grids is one that reading in order comes to: the draft grid is
\* turned to its end before the main grid is turned.
OnTheWay(at) ==
  /\ at.draft \in 1 .. Len(grids.draft) /\ at.main \in 1 .. Len(grids.main)
  /\ at.main > 1 => at.draft = Len(grids.draft)

\* What the pages before a place show has been taken.
TakenUpTo(at) ==
  \A l \in Lines :
    /\ \A i \in 1 .. at.draft - 1 : grids.draft[i][l] <= list.seen[l]
    /\ \A i \in 1 .. at.main - 1 : grids.main[i][l] <= list.seen[l]

TakenAll ==
  \A l \in Lines :
    /\ \A i \in 1 .. Len(grids.draft) : grids.draft[i][l] <= list.seen[l]
    /\ \A i \in 1 .. Len(grids.main) : grids.main[i][l] <= list.seen[l]

GridsOK ==
  /\ grids.draft \in Seq(PageOf) /\ grids.main \in Seq(PageOf)
  /\ Len(grids.draft) >= 1 /\ Len(grids.main) >= 1

NothingInvented == \A l \in Lines : list.seen[l] \in Times(l) \union {0}

Memory == [pc: {"read", "turn", "returned", "raised"}, seen: [Lines -> 0 .. 2],
           pages: Nat, polls: Nat, text: Places, previous: Places, half: BOOLEAN]

MemoryOK == list \in Memory /\ shown.at \in Places

ListInv ==
  /\ GridsOK /\ MemoryOK /\ NothingInvented
  /\ list.pc = "read" => OnTheWay(list.text) /\ TakenUpTo(list.text)
  /\ list.pc = "turn" => OnTheWay(shown.at) /\ TakenUpTo(shown.at)
  /\ list.pc = "returned" => TakenAll /\ \A l \in Lines : list.seen[l] \in Times(l)

-----------------------------------------------------------------------------
\* Reading begins on the first page of both grids with nothing taken.
LEMMA ListInvInit == ListInit => ListInv
<1> SUFFICES ASSUME ListInit PROVE ListInv
  OBVIOUS
<1>1. grids.draft \in DraftGrids /\ grids.main \in MainGrids
  BY DEF ListInit
<1>2. GridsOK
  <2>1. grids.draft \in Seq(PageOf) \ {<<>>} /\ grids.main \in Seq(PageOf) \ {<<>>}
    BY <1>1, ListAssumption DEF ListAssumption
  <2> QED
    BY <2>1 DEF GridsOK
<1>3. list = NewList /\ shown.at = First
  BY DEF ListInit
<1>f. First \in Places
  BY DEF First, Places
<1>m. MemoryOK
  BY <1>3, <1>f DEF NewList, MemoryOK, Memory
<1>4. OnTheWay(list.text) /\ TakenUpTo(list.text)
  BY <1>2, <1>3 DEF OnTheWay, TakenUpTo, GridsOK, NewList, First
<1> QED
  BY <1>2, <1>3, <1>m, <1>4 DEF ListInv, NothingInvented, NewList

\* Taking the page at a place that is on the way.
LEMMA TakesThePage ==
  ASSUME GridsOK, MemoryOK, NothingInvented, NEW at, OnTheWay(at), TakenUpTo(at),
         NEW seen, seen = Merge(list.seen, ParseLines(at))
  PROVE  /\ seen \in [Lines -> 0 .. 2]
         /\ \A l \in Lines :
              /\ seen[l] \in Times(l)
              /\ \A i \in 1 .. at.draft : grids.draft[i][l] <= seen[l]
              /\ \A i \in 1 .. at.main : grids.main[i][l] <= seen[l]
<1> DEFINE a(l) == grids.draft[at.draft][l]
           b(l) == grids.main[at.main][l]
<1>1. grids.draft[at.draft] \in PageOf /\ grids.main[at.main] \in PageOf
  BY DEF GridsOK, OnTheWay
<1>2. \A l \in Lines : a(l) \in 0 .. 2 /\ b(l) \in 0 .. 2 /\ list.seen[l] \in 0 .. 2
  BY <1>1 DEF PageOf, MemoryOK, Memory
<1>3. \A l \in Lines : a(l) \in Times(l) /\ b(l) \in Times(l)
  BY DEF GridsOK, OnTheWay, Times
<1>4. seen = [l \in Lines |-> Bigger(list.seen[l], Bigger(a(l), b(l)))]
  BY DEF Merge, ParseLines
<1> HIDE DEF a, b
<1>5. \A l \in Lines :
        /\ seen[l] \in 0 .. 2 /\ seen[l] \in Times(l)
        /\ list.seen[l] <= seen[l] /\ a(l) <= seen[l] /\ b(l) <= seen[l]
  BY <1>2, <1>3, <1>4 DEF Bigger, NothingInvented
<1>6. ASSUME NEW l \in Lines, NEW i \in 1 .. at.draft
      PROVE  grids.draft[i][l] <= seen[l]
  <2>1. CASE i = at.draft
    BY <1>5, <2>1 DEF a
  <2>2. CASE i # at.draft
    <3>1. i \in 1 .. at.draft - 1 /\ i \in 1 .. Len(grids.draft)
      BY <2>2 DEF OnTheWay, GridsOK
    <3>2. grids.draft[i] \in PageOf
      BY <3>1 DEF GridsOK
    <3>3. grids.draft[i][l] \in 0 .. 2 /\ grids.draft[i][l] <= list.seen[l]
      BY <3>1, <3>2 DEF TakenUpTo, PageOf
    <3> QED
      BY <1>2, <1>5, <3>3
  <2> QED
    BY <2>1, <2>2
<1>7. ASSUME NEW l \in Lines, NEW i \in 1 .. at.main
      PROVE  grids.main[i][l] <= seen[l]
  <2>1. CASE i = at.main
    BY <1>5, <2>1 DEF b
  <2>2. CASE i # at.main
    <3>1. i \in 1 .. at.main - 1 /\ i \in 1 .. Len(grids.main)
      BY <2>2 DEF OnTheWay, GridsOK
    <3>2. grids.main[i] \in PageOf
      BY <3>1 DEF GridsOK
    <3>3. grids.main[i][l] \in 0 .. 2 /\ grids.main[i][l] <= list.seen[l]
      BY <3>1, <3>2 DEF TakenUpTo, PageOf
    <3> QED
      BY <1>2, <1>5, <3>3
  <2> QED
    BY <2>1, <2>2
<1> QED
  BY <1>4, <1>5, <1>6, <1>7

\* The next page in order is on the way, and the pages before it are those up to here.
LEMMA TurnsInOrder ==
  ASSUME GridsOK, NEW at, at \in Places, OnTheWay(at), Live(at) # {}
  PROVE  /\ OnTheWay(Turned(at))
         /\ Turned(at).draft - 1 <= at.draft /\ Turned(at).main - 1 <= at.main
         /\ Turned(at) \in Places
<1>1. Fewer(at, "draft") \/ Fewer(at, "main")
  BY DEF Live
<1>2. CASE Fewer(at, "draft")
  <2>1. Turned(at) = [at EXCEPT !["draft"] = @ + 1]
    BY <1>2 DEF Turned, FirstLive
  <2> QED
    BY <1>2, <2>1 DEF Fewer, OnTheWay, GridsOK, Places
<1>3. CASE ~ Fewer(at, "draft") /\ Fewer(at, "main")
  <2>1. Turned(at) = [at EXCEPT !["main"] = @ + 1]
    BY <1>3 DEF Turned, FirstLive
  <2> QED
    BY <1>3, <2>1 DEF Fewer, OnTheWay, GridsOK, Places
<1> QED
  BY <1>1, <1>2, <1>3

\* The last place in order: all pages are those up to here.
LEMMA NothingLeft ==
  ASSUME GridsOK, NEW at, OnTheWay(at), Live(at) = {}
  PROVE  at.draft = Len(grids.draft) /\ at.main = Len(grids.main)
<1>1. ~ Fewer(at, "draft") /\ ~ Fewer(at, "main")
  BY DEF Live
<1> QED
  BY <1>1 DEF Fewer, OnTheWay, GridsOK

\* A round of read_lines.
LEMMA ReadPageKeepsInv == ListInv /\ ReadPage => ListInv'
<1> SUFFICES ASSUME ListInv, ReadPage PROVE ListInv'
  OBVIOUS
<1> DEFINE at == list.text
           seen == Merge(list.seen, ParseLines(at))
<1>1. GridsOK /\ MemoryOK /\ NothingInvented /\ at \in Places
  BY DEF ListInv, MemoryOK, Memory
<1>2. OnTheWay(at) /\ TakenUpTo(at)
  BY DEF ReadPage, ListInv
<1>3. /\ seen \in [Lines -> 0 .. 2]
      /\ \A l \in Lines :
           /\ seen[l] \in Times(l)
           /\ \A i \in 1 .. at.draft : grids.draft[i][l] <= seen[l]
           /\ \A i \in 1 .. at.main : grids.main[i][l] <= seen[l]
  BY <1>1, <1>2, TakesThePage
<1>4. grids' = grids
  BY DEF ReadPage
<1> HIDE DEF seen
<1>5. CASE Live(at) = {}
  <2>1. list' = [list EXCEPT !.seen = seen,
                   !.pc = IF \A l \in Lines : seen[l] = 0 THEN "raised" ELSE "returned"]
        /\ shown' = shown
    BY <1>5 DEF ReadPage, seen
  <2>2. list'.seen = seen /\ list'.pc \in {"raised", "returned"} /\ MemoryOK'
    BY <1>1, <1>3, <2>1 DEF MemoryOK, Memory
  <2>3. TakenAll'
    BY <1>1, <1>2, <1>3, <1>4, <1>5, <2>2, NothingLeft DEF TakenAll
  <2> QED
    BY <1>1, <1>3, <1>4, <2>2, <2>3 DEF ListInv, GridsOK, NothingInvented, Times
<1>6. CASE Live(at) # {}
  <2>1. list' = [list EXCEPT
                   !.seen = seen, !.pages = @ + 1, !.polls = 0, !.half = FALSE,
                   !.previous = at,
                   !.pc = IF list.pages + 1 = MAX_PAGES THEN "raised" ELSE "turn"]
        /\ shown' = [at |-> Turned(at), drawn |-> "old"]
    BY <1>6 DEF ReadPage, seen
  <2>2. list'.seen = seen /\ list'.pc \in {"raised", "turn"} /\ list' \in Memory
    <3> DEFINE pc == IF list.pages + 1 = MAX_PAGES THEN "raised" ELSE "turn"
    <3>1. pc \in {"raised", "turn"} /\ seen \in [Lines -> 0 .. 2] /\ list \in Memory
      BY <1>1, <1>3 DEF MemoryOK
    <3>2. list' = [list EXCEPT !.seen = seen, !.pages = @ + 1, !.polls = 0, !.half = FALSE,
                               !.previous = at, !.pc = pc]
      BY <2>1
    <3>3. list.pages + 1 \in Nat /\ 0 \in Nat
      BY <3>1 DEF Memory
    <3>4. at \in Places
      BY <1>1
    <3> HIDE DEF pc, at
    <3>5. list' \in Memory
      BY <3>1, <3>2, <3>3, <3>4 DEF Memory
    <3>6. list'.seen = seen /\ list'.pc = pc
      BY <3>1, <3>2 DEF Memory
    <3> QED
      BY <3>1, <3>5, <3>6
  <2>3. /\ OnTheWay(Turned(at)) /\ Turned(at) \in Places
        /\ Turned(at).draft - 1 <= at.draft /\ Turned(at).main - 1 <= at.main
    BY <1>1, <1>2, <1>6, TurnsInOrder
  <2>4. shown'.at = Turned(at)
    BY <2>1
  <2>5. OnTheWay(shown.at)'
    BY <1>4, <2>3, <2>4 DEF OnTheWay
  <2>6. TakenUpTo(shown.at)'
    <3> SUFFICES ASSUME NEW l \in Lines
                 PROVE  /\ \A i \in 1 .. Turned(at).draft - 1 : grids.draft[i][l] <= seen[l]
                        /\ \A i \in 1 .. Turned(at).main - 1 : grids.main[i][l] <= seen[l]
      BY <1>4, <2>2, <2>4 DEF TakenUpTo
    <3> QED
      BY <1>1, <1>3, <2>3 DEF Places
  <2> QED
    BY <1>1, <1>3, <1>4, <2>2, <2>3, <2>4, <2>5, <2>6
       DEF ListInv, GridsOK, NothingInvented, Times, MemoryOK
<1> QED
  BY <1>5, <1>6

\* A poll of _turn_page takes the page that was asked for, or goes on, or raises.
LEMMA PollKeepsInv == ListInv /\ Poll => ListInv'
<1> SUFFICES ASSUME ListInv, Poll PROVE ListInv'
  OBVIOUS
<1>1. /\ GridsOK /\ MemoryOK /\ NothingInvented
      /\ OnTheWay(shown.at) /\ TakenUpTo(shown.at)
      /\ list \in Memory /\ shown.at \in Places
      /\ grids' = grids /\ shown' = shown
  BY DEF ListInv, Poll, MemoryOK
<1> DEFINE same == shown.drawn = "whole" /\ list.previous = shown.at /\ ~ list.half
<1>2. list' = [list EXCEPT
           !.pc = IF same THEN "read"
                  ELSE IF list.polls + 1 = PAGER_POLLS THEN "raised" ELSE "turn",
           !.text = IF same THEN shown.at ELSE @,
           !.previous = IF shown.drawn = "whole" THEN shown.at ELSE @,
           !.half = shown.drawn = "half",
           !.polls = IF same THEN 0 ELSE @ + 1]
  BY DEF Poll
<1> DEFINE pc == IF same THEN "read" ELSE IF list.polls + 1 = PAGER_POLLS THEN "raised" ELSE "turn"
           text == IF same THEN shown.at ELSE list.text
           previous == IF shown.drawn = "whole" THEN shown.at ELSE list.previous
           half == shown.drawn = "half"
           polls == IF same THEN 0 ELSE list.polls + 1
<1>3. /\ pc \in {"read", "turn", "returned", "raised"} /\ text \in Places
      /\ previous \in Places /\ polls \in Nat
  BY <1>1 DEF Memory
<1>h. half \in BOOLEAN
  OBVIOUS
<1>e. list' = [list EXCEPT !.pc = pc, !.text = text, !.previous = previous, !.half = half,
                           !.polls = polls]
  BY <1>2
<1> HIDE DEF pc, text, previous, half, polls
<1>4. list' \in Memory
  BY <1>1, <1>3, <1>h, <1>e DEF Memory
<1>5. list'.seen = list.seen /\ (list'.pc = "read" => list'.text = shown.at)
      /\ list'.pc \in {"read", "turn", "raised"}
  BY <1>1, <1>e DEF Memory, pc, text
<1> QED
  BY <1>1, <1>4, <1>5
     DEF ListInv, MemoryOK, GridsOK, NothingInvented, Times, OnTheWay, TakenUpTo

\* What fails raises, and what the portal draws does not move the reader.
LEMMA PortalKeepsInv == ListInv /\ (ReadFails \/ Draws \/ UNCHANGED listVars) => ListInv'
<1> SUFFICES ASSUME ListInv, ReadFails \/ Draws \/ UNCHANGED listVars PROVE ListInv'
  OBVIOUS
<1>1. grids' = grids /\ shown'.at = shown.at
  BY DEF ReadFails, Draws, listVars
<1>2. list' = list \/ list' = [list EXCEPT !.pc = "raised"]
  BY DEF ReadFails, Draws, listVars
<1>3. /\ list' \in Memory /\ list'.seen = list.seen /\ list'.text = list.text
      /\ list'.pc = list.pc \/ list'.pc = "raised"
  BY <1>2 DEF ListInv, MemoryOK, Memory
<1> QED
  BY <1>1, <1>3
     DEF ListInv, MemoryOK, GridsOK, NothingInvented, Times, OnTheWay, TakenUpTo, TakenAll

\* Every page before the one being read has been taken, in order.
THEOREM PagesAreTakenInOrder == ListSpec => []ListInv
<1>1. ListInv /\ [ReadLines]_listVars => ListInv'
  BY ReadPageKeepsInv, PollKeepsInv, PortalKeepsInv DEF ReadLines
<1> QED
  BY ListInvInit, <1>1, PTL DEF ListSpec

\* What a list that is returned shows.
LEMMA ReturnedIsWhole == ListInv => ListIsWhole
<1> SUFFICES ASSUME ListInv, list.pc = "returned", NEW l \in Lines
             PROVE  /\ (\E g \in {"draft", "main"} : Shows(g, l)) => list.seen[l] > 0
                    /\ list.seen[l] \in Times(l)
  BY DEF ListIsWhole
<1>1. TakenAll /\ list.seen[l] \in Times(l) /\ list.seen[l] \in 0 .. 2 /\ GridsOK
  BY DEF ListInv, MemoryOK, Memory
<1>2. ASSUME NEW i \in DOMAIN grids.draft, grids.draft[i][l] > 0
      PROVE  list.seen[l] > 0
  <2>1. i \in 1 .. Len(grids.draft) /\ grids.draft[i][l] \in 0 .. 2
    BY <1>1 DEF GridsOK, PageOf
  <2> QED
    BY <1>1, <1>2, <2>1 DEF TakenAll
<1>3. ASSUME NEW i \in DOMAIN grids.main, grids.main[i][l] > 0
      PROVE  list.seen[l] > 0
  <2>1. i \in 1 .. Len(grids.main) /\ grids.main[i][l] \in 0 .. 2
    BY <1>1 DEF GridsOK, PageOf
  <2> QED
    BY <1>1, <1>3, <2>1 DEF TakenAll
<1> QED
  BY <1>1, <1>2, <1>3 DEF Shows

\* A list that is returned shows every line that any page of either grid shows, and
\* no line more often than some page does.
THEOREM ReturnedListIsWhole == ListSpec => []ListIsWhole
BY PagesAreTakenInOrder, ReturnedIsWhole, PTL

-----------------------------------------------------------------------------
(* The form *)

Dialogs == [open: BOOLEAN, holds: [FieldNames -> BOOLEAN]]
GridRows == [day: FormDays, holds: [FieldNames -> BOOLEAN]]
FormMemory == [pc: FormPcs, todo: SUBSET FormDays, wait: 0 .. 10, tries: 0 .. Attempts,
               dry: BOOLEAN]

\* Aanmaken is not reached with a row to enter, and is the last thing done.
FormInv ==
  /\ FormTypeOK
  /\ form.pc = "create" => form.todo = {}
  /\ created => form.pc = "done"
  /\ DraftIsAsMeant

\* What the driver does next, with some wait before it.
LEMMA MovesOn ==
  ASSUME form \in FormMemory, NEW pc \in FormPcs, NEW wait \in 0 .. 10, Then(pc, wait)
  PROVE  /\ form' \in FormMemory /\ form'.pc = pc
         /\ form'.todo = form.todo /\ form'.dry = form.dry
BY DEF Then, FormMemory

\* What raises ends, with nothing more to wait for.
LEMMA RaiseEnds ==
  ASSUME form \in FormMemory, Raise
  PROVE  form' \in FormMemory /\ form'.pc = "raised"
<1>1. 0 \in 0 .. 10 /\ 0 \in 0 .. Attempts /\ "raised" \in FormPcs
  BY FormAssumption DEF FormAssumption, FormPcs
<1> QED
  BY <1>1 DEF Raise, FormMemory

\* Setting a field begins a round trip.
LEMMA SetKeepsTypes ==
  ASSUME FormTypeOK, NEW f \in FieldNames, Set(f)
  PROVE  /\ dialog' \in Dialogs /\ dialog'.open = dialog.open
         /\ trips' \subseteq [field: FieldNames, age: 0 .. MaxTrip]
<1>1. 0 \in 0 .. MaxTrip
  BY FormAssumption DEF FormAssumption
<1>2. dialog \in Dialogs /\ trips \subseteq [field: FieldNames, age: 0 .. MaxTrip]
  BY DEF FormTypeOK, Dialogs
<1> DEFINE h == [dialog.holds EXCEPT ![f] = TRUE]
           trip == [field |-> f, age |-> 0]
<1>3. h \in [FieldNames -> BOOLEAN] /\ trip \in [field: FieldNames, age: 0 .. MaxTrip]
  BY <1>1, <1>2 DEF Dialogs
<1>4. dialog' = [dialog EXCEPT !.holds = h] /\ trips' = trips \union {trip}
  BY <1>2 DEF Set, Dialogs
<1> HIDE DEF h, trip
<1> QED
  BY <1>2, <1>3, <1>4 DEF Dialogs

\* A step before the end that enters nothing keeps the invariant.
LEMMA EntersNothing ==
  ASSUME FormInv, form.pc # "done",
         dialog' \in Dialogs, trips' \subseteq [field: FieldNames, age: 0 .. MaxTrip],
         form' \in FormMemory, form'.pc = "create" => form'.todo = {},
         rows' = rows, created' = created
  PROVE  FormInv'
BY DEF FormInv, FormTypeOK, DraftIsAsMeant, Dialogs, FormMemory

\* A value is read back.
LEMMA CheckKeepsInv ==
  ASSUME FormInv, NEW pc \in FormPcs \ {"done"}, NEW f, NEW again \in FormPcs \ {"create"},
         NEW next \in FormPcs \ {"create"}, Check(pc, f, again, next)
  PROVE  FormInv'
<1>1. form \in FormMemory /\ form.pc = pc /\ UNCHANGED <<dialog, trips, rows, created>>
  BY DEF FormInv, FormTypeOK, FormMemory, Check, At
<1>2. form' \in FormMemory /\ form'.pc # "create"
  <2>a. Attempts \in Nat
    BY FormAssumption DEF FormAssumption
  <2>b. 0 \in 0 .. Attempts /\ (form.tries + 1 < Attempts => form.tries + 1 \in 0 .. Attempts)
    BY <1>1, <2>a DEF FormMemory
  <2>1. CASE dialog.holds[f]
    <3>1. form' = [form EXCEPT !.pc = next, !.tries = 0]
      BY <2>1 DEF Check
    <3> QED
      BY <1>1, <2>b, <3>1 DEF FormMemory
  <2>2. CASE ~ dialog.holds[f] /\ form.tries + 1 < Attempts
    <3>1. form' = [form EXCEPT !.pc = again, !.tries = form.tries + 1]
      BY <2>2 DEF Check
    <3> QED
      BY <1>1, <2>2, <2>b, <3>1 DEF FormMemory
  <2>3. CASE ~ dialog.holds[f] /\ ~ (form.tries + 1 < Attempts)
    BY <1>1, <2>3, RaiseEnds DEF Check
  <2> QED
    BY <2>1, <2>2, <2>3
<1> QED
  BY <1>1, <1>2, EntersNothing DEF FormInv, FormTypeOK, Dialogs

\* A row is entered as it was verified, or refused.
LEMMA ConfirmKeepsInv == FormInv /\ Confirm => FormInv'
<1> SUFFICES ASSUME FormInv, Confirm PROVE FormInv'
  OBVIOUS
<1>1. /\ form \in FormMemory /\ form.pc = "confirm" /\ dialog \in Dialogs
      /\ rows \subseteq GridRows /\ UNCHANGED <<trips, created>>
      /\ trips \subseteq [field: FieldNames, age: 0 .. MaxTrip]
  BY DEF FormInv, FormTypeOK, FormMemory, Dialogs, GridRows, Confirm, At
<1>2. CASE ~ VerifyRow
  <2>1. Raise /\ UNCHANGED <<dialog, rows>>
    BY <1>2 DEF Confirm
  <2> QED
    BY <1>1, <2>1, RaiseEnds, EntersNothing
<1>3. CASE VerifyRow
  <2>1. PICK d \in form.todo :
          /\ form' = [form EXCEPT !.wait = 7, !.todo = @ \ {d},
                        !.pc = IF form.todo = {d} THEN "create" ELSE "add"]
          /\ \/ dialog' = Closed /\ rows' = rows \union {[day |-> d, holds |-> dialog.holds]}
             \/ UNCHANGED <<dialog, rows>>
    BY <1>3 DEF Confirm
  <2>2. 7 \in 0 .. 10 /\ {"create", "add"} \subseteq FormPcs
    BY DEF FormPcs
  <2>3. form' \in FormMemory /\ (form'.pc = "create" => form'.todo = {})
    BY <1>1, <2>1, <2>2 DEF FormMemory
  <2>4. /\ rows' \subseteq GridRows /\ dialog' \in Dialogs
        /\ \A r \in rows' : \A f \in FieldNames : r.holds[f]
    <3>1. d \in FormDays /\ dialog.holds \in [FieldNames -> BOOLEAN]
          /\ \A f \in FieldNames : dialog.holds[f]
      BY <1>1, <1>3 DEF FormMemory, Dialogs, VerifyRow
    <3>2. Closed \in Dialogs
      BY DEF Closed, Dialogs
    <3>3. \A r \in rows : \A f \in FieldNames : r.holds[f]
      BY DEF FormInv, DraftIsAsMeant
    <3>4. CASE UNCHANGED <<dialog, rows>>
      BY <1>1, <3>3, <3>4
    <3>5. CASE dialog' = Closed /\ rows' = rows \union {[day |-> d, holds |-> dialog.holds]}
      <4> DEFINE row == [day |-> d, holds |-> dialog.holds]
      <4>1. row \in GridRows /\ \A f \in FieldNames : row.holds[f]
        BY <3>1 DEF GridRows
      <4> HIDE DEF row
      <4> QED
        BY <1>1, <3>2, <3>3, <3>5, <4>1 DEF row
    <3> QED
      BY <2>1, <3>4, <3>5
  <2>5. ~ created
    BY <1>1 DEF FormInv
  <2> QED
    BY <1>1, <2>3, <2>4, <2>5
       DEF FormInv, FormTypeOK, DraftIsAsMeant, Dialogs, FormMemory, GridRows
<1> QED
  BY <1>2, <1>3

\* InSite answers in its own time, and what was created stays.
LEMMA InSiteKeepsInv == FormInv /\ InSite => FormInv'
<1> SUFFICES ASSUME FormInv, InSite PROVE FormInv'
  OBVIOUS
<1>0. form \in FormMemory /\ dialog \in Dialogs /\ MaxTrip \in Nat
      /\ trips \subseteq [field: FieldNames, age: 0 .. MaxTrip]
  BY FormAssumption DEF FormInv, FormTypeOK, FormMemory, Dialogs, FormAssumption
<1>1. CASE HalfSecond
  <2>1. /\ form.wait > 0 /\ form' = [form EXCEPT !.wait = @ - 1]
        /\ trips' = {[t EXCEPT !.age = @ + 1] : t \in trips}
        /\ \A t \in trips : t.age < MaxTrip
        /\ UNCHANGED <<dialog, rows, created>>
    BY <1>1 DEF HalfSecond
  <2>2. /\ form' \in FormMemory /\ form'.pc = form.pc /\ form'.todo = form.todo
        /\ form'.dry = form.dry
    BY <1>0, <2>1 DEF FormMemory
  <2>3. trips' \subseteq [field: FieldNames, age: 0 .. MaxTrip]
    BY <1>0, <2>1
  <2> QED
    BY <1>0, <2>1, <2>2, <2>3 DEF FormInv, FormTypeOK, DraftIsAsMeant, FormMemory
<1>2. ASSUME NEW t \in trips, TripEnds(t) PROVE FormInv'
  <2>1. trips' = trips \ {t} /\ UNCHANGED <<rows, created, form>>
    BY <1>2 DEF TripEnds
  <2>2. dialog' \in Dialogs /\ dialog'.open = dialog.open
    <3>1. CASE dialog' = dialog
      BY <1>0, <3>1
    <3>2. CASE dialog' = [dialog EXCEPT !.holds[t.field] = FALSE]
      BY <1>0, <3>2 DEF Dialogs
    <3>3. ASSUME NEW p \in BOOLEAN, NEW y \in BOOLEAN, NEW q \in BOOLEAN,
                 dialog' = [dialog EXCEPT !.holds["period"] = p, !.holds["year"] = y,
                                          !.holds["quantity"] = q]
          PROVE  dialog' \in Dialogs /\ dialog'.open = dialog.open
      <4> DEFINE h == [[[dialog.holds EXCEPT !["period"] = p] EXCEPT !["year"] = y]
                         EXCEPT !["quantity"] = q]
      <4>1. h \in [FieldNames -> BOOLEAN]
        BY <1>0 DEF Dialogs
      <4>2. dialog' = [dialog EXCEPT !.holds = h]
        BY <1>0, <3>3 DEF Dialogs
      <4> HIDE DEF h
      <4> QED
        BY <1>0, <4>1, <4>2 DEF Dialogs
    <3> QED
      BY <1>2, <3>1, <3>2, <3>3 DEF TripEnds
  <2> QED
    BY <1>0, <2>1, <2>2 DEF FormInv, FormTypeOK, DraftIsAsMeant, Dialogs
<1> QED
  BY <1>1, <1>2 DEF InSite

\* Every step of the driver keeps the invariant.
LEMMA FillRowsKeepsInv == FormInv /\ FillRows => FormInv'
<1> SUFFICES ASSUME FormInv, FillRows PROVE FormInv'
  OBVIOUS
<1>0. form \in FormMemory /\ dialog \in Dialogs
      /\ trips \subseteq [field: FieldNames, age: 0 .. MaxTrip]
  BY DEF FormInv, FormTypeOK, FormMemory, Dialogs
<1>p. /\ {"date", "check_date", "quantity", "check_quantity", "menu", "pick",
          "check_period", "confirm", "done"} \subseteq FormPcs
      /\ {0, 3, 5, 6, 10} \subseteq 0 .. 10
      /\ {"date", "quantity", "period"} \subseteq FieldNames
  BY DEF FormPcs, FieldNames
<1>r. ASSUME Raise, form.pc # "done", dialog' = dialog, trips' = trips, rows' = rows,
             created' = created
      PROVE  FormInv'
  BY <1>0, <1>r, RaiseEnds, EntersNothing
<1>t. ASSUME NEW pc \in FormPcs \ {"create"}, NEW wait \in 0 .. 10, Then(pc, wait),
             form.pc # "done",
             dialog' \in Dialogs, trips' \subseteq [field: FieldNames, age: 0 .. MaxTrip],
             rows' = rows, created' = created
      PROVE  FormInv'
  BY <1>0, <1>t, MovesOn, EntersNothing
<1>s. ASSUME NEW f \in FieldNames, Set(f)
      PROVE  dialog' \in Dialogs /\ trips' \subseteq [field: FieldNames, age: 0 .. MaxTrip]
  BY <1>s, SetKeepsTypes DEF FormInv
<1>1. CASE AddRow
  <2>1. form.pc = "add" /\ UNCHANGED <<trips, rows, created>>
    BY <1>1 DEF AddRow, At
  <2>2. CASE Raise /\ UNCHANGED dialog
    BY <1>r, <2>1, <2>2
  <2>3. CASE Then("date", 6) /\ \E h \in [FieldNames -> BOOLEAN] :
                                  dialog' = [open |-> TRUE, holds |-> h]
    <3>1. dialog' \in Dialogs
      BY <2>3 DEF Dialogs
    <3> QED
      BY <1>0, <1>p, <1>t, <2>1, <2>3, <3>1
  <2> QED
    BY <1>1, <2>2, <2>3 DEF AddRow
<1>2. CASE FillDate
  BY <1>p, <1>s, <1>t, <1>2 DEF FillDate, At
<1>3. CASE Quantity
  <2>1. form.pc = "quantity" /\ UNCHANGED <<rows, created>>
    BY <1>3 DEF Quantity, At
  <2>2. CASE Then("menu", 0) /\ UNCHANGED <<dialog, trips>>
    BY <1>0, <1>p, <1>t, <2>1, <2>2
  <2>3. CASE Raise /\ UNCHANGED <<dialog, trips>>
    BY <1>r, <2>1, <2>3
  <2>4. CASE Set("quantity") /\ Then("check_quantity", 3)
    BY <1>p, <1>s, <1>t, <2>1, <2>4
  <2> QED
    BY <1>3, <2>2, <2>3, <2>4 DEF Quantity
<1>4. CASE OpenMenu
  <2>1. \E wait \in {3, 6} : Then("pick", wait)
    BY <1>4 DEF OpenMenu
  <2> QED
    BY <1>0, <1>p, <1>t, <1>4, <2>1 DEF OpenMenu, At
<1>5. CASE Pick
  <2>1. form.pc = "pick" /\ UNCHANGED <<rows, created>>
    BY <1>5 DEF Pick, At
  <2>2. CASE Set("period") /\ Then("check_period", 5)
    BY <1>p, <1>s, <1>t, <2>1, <2>2
  <2>3. CASE /\ UNCHANGED <<dialog, trips>> /\ form.tries + 1 < Attempts
             /\ form' = [form EXCEPT !.pc = "menu", !.tries = form.tries + 1]
    <3>1. Attempts \in Nat
      BY FormAssumption DEF FormAssumption
    <3>2. form.tries + 1 \in 0 .. Attempts
      BY <1>0, <2>3, <3>1 DEF FormMemory
    <3>3. form' \in FormMemory /\ form'.pc = "menu"
      BY <1>0, <1>p, <2>3, <3>2 DEF FormMemory
    <3> QED
      BY <1>0, <2>1, <2>3, <3>3, EntersNothing
  <2>4. CASE UNCHANGED <<dialog, trips>> /\ Raise
    BY <1>r, <2>1, <2>4
  <2> QED
    BY <1>5, <2>2, <2>3, <2>4 DEF Pick
<1>6. CASE Confirm
  BY <1>6, ConfirmKeepsInv
<1>7. CASE Create
  <2>1. /\ form.pc = "create" /\ form.todo = {} /\ ~ created
        /\ UNCHANGED <<dialog, trips, rows>>
    BY <1>7 DEF Create, At, FormInv
  <2>2. CASE Then("done", 0) /\ UNCHANGED created
    BY <1>0, <1>p, <1>t, <2>1, <2>2
  <2>3. CASE Raise /\ UNCHANGED created
    BY <1>r, <2>1, <2>3
  <2>4. CASE ~ form.dry /\ ~ dialog.open /\ created' = TRUE /\ Then("done", 10)
    <3>1. /\ form' \in FormMemory /\ form'.pc = "done"
          /\ form'.todo = form.todo /\ form'.dry = form.dry
      BY <1>0, <1>p, <2>4, MovesOn
    <3> QED
      BY <1>0, <2>1, <2>4, <3>1 DEF FormInv, FormTypeOK, DraftIsAsMeant, FormMemory
  <2> QED
    BY <1>7, <2>2, <2>3, <2>4 DEF Create
<1>8. CASE PortalFails
  BY <1>r, <1>8 DEF PortalFails
<1>9. CASE \/ Check("check_date", "date", "date", "quantity")
           \/ Check("check_quantity", "quantity", "quantity", "menu")
           \/ Check("check_period", "period", "menu", "confirm")
  BY <1>p, <1>9, CheckKeepsInv
<1> QED
  BY <1>1, <1>2, <1>3, <1>4, <1>5, <1>6, <1>7, <1>8, <1>9 DEF FillRows

\* An empty form, whatever it is to be filled with.
LEMMA EmptyFormOK ==
  ASSUME EmptyForm, NEW D \in SUBSET FormDays, NEW dry \in BOOLEAN, form = NewForm(D, dry)
  PROVE  FormInv
<1>1. form \in FormMemory /\ form.pc = "add"
  BY FormAssumption DEF NewForm, FormMemory, FormPcs, FormAssumption
<1> QED
  BY <1>1 DEF EmptyForm, Closed, FormInv, FormTypeOK, DraftIsAsMeant, FormMemory

\* No row is entered that does not hold what was meant, and a draft is created of all
\* rows or not at all and never by a dry run, for any number of rows and attempts and
\* whatever InSite does to a field that was set.
THEOREM DraftHoldsWhatWasMeant == FormSpec => []DraftIsAsMeant
<1>1. FormInit => FormInv
  BY EmptyFormOK DEF FormInit
<1>2. FormInv /\ UNCHANGED formVars => FormInv'
  BY DEF FormInv, FormTypeOK, DraftIsAsMeant, formVars
<1>3. FormInv => DraftIsAsMeant
  BY DEF FormInv
<1> QED
  BY <1>1, <1>2, <1>3, InSiteKeepsInv, FillRowsKeepsInv, PTL DEF FormSpec

-----------------------------------------------------------------------------
(* Outlook *)

Readers == [pc: {"goto", "first", "loop", "harvest", "done", "raised"}, week: Weeks,
            steps: 0 .. max_steps + 1, reloaded: BOOLEAN, answered: BOOLEAN,
            events: SUBSET (Events \X Weeks), degraded: BOOLEAN]
Screens == [week: Int, header: BOOLEAN, grid: SUBSET Events, login: BOOLEAN]

\* What the calendar holds for the weeks before one.
HeldBefore(w) == {e \in mailbox \X Weeks : WeekOf[e[1]] = e[2] /\ e[2] < w}

\* A grid the reader looks at under a header is that of the week in the header; an
\* empty one it looks at for the first time may not be, and is loaded again.
GridIsOfTheWeek ==
  /\ reader.pc \in {"loop", "harvest"} /\ outlook.header => outlook.grid = EventsIn(outlook.week)
  /\ reader.pc = "first" /\ outlook.grid # {} => outlook.grid = EventsIn(outlook.week)
  /\ reader.pc = "harvest" => outlook.header /\ outlook.week = reader.week

\* What has been read is what the calendar holds for the weeks before this one, or the
\* read is degraded.
ReadSoFar ==
  /\ reader.pc \notin {"done", "raised"} /\ ~ reader.degraded
       => reader.events = HeldBefore(reader.week)
  /\ reader.pc = "done" /\ ~ reader.degraded => reader.events = Contract!Holds(mailbox)

OwaInv ==
  /\ mailbox \subseteq Events /\ reader \in Readers /\ outlook \in Screens
  /\ answer.given \/ answer = Contract!NoAnswer
  /\ GridIsOfTheWeek /\ ReadSoFar

\* The weeks of a window are an interval, and reading begins with the first.
LEMMA WeekFacts ==
  /\ Weeks \subseteq Int /\ ThisWeek \in Int /\ WeekOf \in [Events -> Int]
  /\ max_steps \in Nat
  /\ FirstWeek \in Weeks /\ \A v \in Weeks : FirstWeek <= v
  /\ \A v, w \in Weeks : w + 1 \notin Weeks => v <= w
<1>1. PICK lo, hi \in Weeks : Weeks = lo .. hi
  BY OwaAssumption DEF OwaAssumption
<1>2. Weeks \subseteq Int /\ ThisWeek \in Int /\ WeekOf \in [Events -> Int] /\ max_steps \in Nat
  BY OwaAssumption DEF OwaAssumption
<1>3. \E w \in Weeks : \A v \in Weeks : w <= v
  BY <1>1, <1>2
<1>4. FirstWeek \in Weeks /\ \A v \in Weeks : FirstWeek <= v
  BY <1>3 DEF FirstWeek
<1>5. \A v, w \in Weeks : w + 1 \notin Weeks => v <= w
  BY <1>1, <1>2
<1> QED
  BY <1>2, <1>4, <1>5

\* Reading begins with nothing read.
LEMMA OwaInvInit == OwaInit => OwaInv
<1> SUFFICES ASSUME OwaInit PROVE OwaInv
  OBVIOUS
<1>1. /\ mailbox \subseteq Events /\ answer = Contract!NoAnswer
      /\ outlook = [week |-> ThisWeek, header |-> FALSE, grid |-> {}, login |-> FALSE]
      /\ reader = NewReader(FirstWeek)
  BY DEF OwaInit
<1>2. reader \in Readers /\ outlook \in Screens
  BY <1>1, WeekFacts DEF NewReader, Readers, Screens
<1>3. reader.pc = "goto" /\ reader.week = FirstWeek /\ reader.events = {}
  BY <1>1 DEF NewReader
<1>4. HeldBefore(FirstWeek) = {}
  <2>1. \A v \in Weeks : ~ (v < FirstWeek)
    BY WeekFacts
  <2> QED
    BY <2>1 DEF HeldBefore
<1> QED
  BY <1>1, <1>2, <1>3, <1>4 DEF OwaInv, GridIsOfTheWeek, ReadSoFar

\* What Outlook shows when its grid does not lag.
LEMMA DrawnInTime ==
  ASSUME ~ GridLags, mailbox \subseteq Events,
         NEW w \in Int, NEW was, NEW more \in {{}, {{}}},
         Draw(w, GridAt(w, was) \union more)
  PROVE  /\ outlook' \in Screens /\ outlook'.week = w
         /\ outlook'.grid = EventsIn(w) \/ (more = {{}} /\ outlook'.grid = {})
<1>1. PICK h \in BOOLEAN, g \in {EventsIn(w)} \union more :
        outlook' = [week |-> w, header |-> h, grid |-> g, login |-> FALSE]
  BY DEF Draw, GridAt
<1>2. EventsIn(w) \subseteq Events
  BY DEF EventsIn
<1> QED
  BY <1>1, <1>2 DEF Screens

\* A page load.
LEMMA LoadedInTime ==
  ASSUME ~ GridLags, mailbox \subseteq Events, NEW cold \in BOOLEAN, Load(cold)
  PROVE  /\ outlook' \in Screens
         /\ outlook'.grid = {} \/ outlook'.grid = EventsIn(outlook'.week)
         /\ ~ cold /\ outlook'.header => outlook'.grid = EventsIn(outlook'.week)
<1>1. CASE outlook' = [week |-> ThisWeek, header |-> FALSE, grid |-> {}, login |-> TRUE]
  BY <1>1, WeekFacts DEF Screens
<1>2. CASE Draw(ThisWeek, GridAt(ThisWeek, {}) \union IF cold THEN {{}} ELSE {})
  <2> DEFINE more == IF cold THEN {{}} ELSE {}
  <2>1. more \in {{}, {{}}} /\ (more = {{}} => cold)
    OBVIOUS
  <2>2. Draw(ThisWeek, GridAt(ThisWeek, {}) \union more)
    BY <1>2
  <2> HIDE DEF more
  <2> QED
    BY <2>1, <2>2, WeekFacts, DrawnInTime
<1> QED
  BY <1>1, <1>2 DEF Load

\* A week is done: it was read whole, or the read is degraded.
LEMMA WeekDoneKeepsInv ==
  ASSUME OwaInv, NEW E \in SUBSET (Events \X Weeks), NEW failed \in BOOLEAN,
         WeekDone(E, failed), reader.pc \in {"loop", "harvest"},
         ~ failed => E = {e \in mailbox \X {reader.week} : WeekOf[e[1]] = e[2]}
  PROVE  OwaInv'
<1> DEFINE events == reader.events \union E
           degraded == reader.degraded \/ failed
<1>1. /\ UNCHANGED <<mailbox, outlook, answer>>
      /\ reader' = IF reader.week + 1 \in Weeks
                   THEN [NewReader(reader.week + 1) EXCEPT !.events = events,
                                                           !.degraded = degraded]
                   ELSE [reader EXCEPT !.pc = "done", !.events = events, !.degraded = degraded]
  BY DEF WeekDone
<1>2. /\ reader \in Readers /\ mailbox \subseteq Events /\ outlook \in Screens
      /\ answer.given \/ answer = Contract!NoAnswer
  BY DEF OwaInv
<1>3. events \in SUBSET (Events \X Weeks) /\ degraded \in BOOLEAN
  BY <1>2 DEF Readers
<1>d. ~ degraded => ~ failed /\ ~ reader.degraded
  OBVIOUS
<1>4. ~ degraded => events = HeldBefore(reader.week + 1)
  <2> SUFFICES ASSUME ~ degraded PROVE events = HeldBefore(reader.week + 1)
    OBVIOUS
  <2>1. reader.events = HeldBefore(reader.week)
    BY <1>d DEF OwaInv, ReadSoFar
  <2>2. reader.week \in Weeks /\ reader.week \in Int
    BY <1>2, WeekFacts DEF Readers
  <2>3. \A v \in Weeks : v < reader.week + 1 <=> v < reader.week \/ v = reader.week
    BY <2>2, WeekFacts
  <2> QED
    BY <1>d, <2>1, <2>2, <2>3 DEF HeldBefore
<1> HIDE DEF events, degraded
<1>5. CASE reader.week + 1 \in Weeks
  <2>1. /\ reader' \in Readers /\ reader'.pc = "goto" /\ reader'.week = reader.week + 1
        /\ reader'.events = events /\ reader'.degraded = degraded
    <3>1. reader' = [pc |-> "goto", week |-> reader.week + 1, steps |-> 0, reloaded |-> FALSE,
                     answered |-> FALSE, events |-> events, degraded |-> degraded]
      BY <1>1, <1>5 DEF NewReader
    <3>2. 0 \in 0 .. max_steps + 1
      BY WeekFacts
    <3> QED
      BY <1>3, <1>5, <3>1, <3>2 DEF Readers
  <2>2. ~ reader'.degraded
          => reader'.events = {e \in mailbox' \X Weeks : WeekOf[e[1]] = e[2] /\ e[2] < reader'.week}
    BY <1>1, <1>4, <2>1 DEF HeldBefore
  <2> QED
    BY <1>1, <1>2, <2>1, <2>2 DEF OwaInv, GridIsOfTheWeek, ReadSoFar, HeldBefore
<1>6. CASE reader.week + 1 \notin Weeks
  <2>1. /\ reader' \in Readers /\ reader'.pc = "done"
        /\ reader'.events = events /\ reader'.degraded = degraded
    <3>1. reader' = [reader EXCEPT !.pc = "done", !.events = events, !.degraded = degraded]
      BY <1>1, <1>6
    <3> QED
      BY <1>2, <1>3, <3>1 DEF Readers
  <2>2. \A v \in Weeks : v < reader.week + 1
    <3>1. reader.week \in Weeks
      BY <1>2 DEF Readers
    <3>2. \A v \in Weeks : v <= reader.week /\ v \in Int /\ reader.week \in Int
      BY <1>6, <3>1, WeekFacts
    <3> QED
      BY <3>2
  <2>3. HeldBefore(reader.week + 1) = Contract!Holds(mailbox)
    <3>1. \A e \in mailbox \X Weeks :
            e[2] \in [x \in Events |-> {WeekOf[x]}][e[1]] <=> WeekOf[e[1]] = e[2]
      BY <1>2
    <3>2. \A e \in mailbox \X Weeks : e[2] < reader.week + 1
      BY <2>2
    <3> QED
      BY <3>1, <3>2 DEF HeldBefore, Contract!Holds
  <2>4. ~ reader'.degraded => reader'.events = Contract!Holds(mailbox')
    BY <1>1, <1>4, <2>1, <2>3
  <2> QED
    BY <1>1, <1>2, <2>1, <2>4 DEF OwaInv, GridIsOfTheWeek, ReadSoFar
<1> QED
  BY <1>5, <1>6

\* A step within a week: the reader goes on, and looks at a grid that is as it says.
LEMMA WithinTheWeek ==
  ASSUME OwaInv, mailbox' = mailbox, answer' = answer,
         reader' \in Readers, outlook' \in Screens, GridIsOfTheWeek',
         reader.pc \notin {"done", "raised"}, reader'.pc # "done",
         reader'.week = reader.week, reader'.events = reader.events,
         reader'.degraded = reader.degraded
  PROVE  OwaInv'
BY DEF OwaInv, ReadSoFar, HeldBefore

\* Every step of reading the calendar keeps the invariant when the grid does not lag.
LEMMA OwaStep == ~ GridLags /\ OwaInv /\ (ReadCalendar \/ SignInAnswered) => OwaInv'
<1> SUFFICES ASSUME ~ GridLags, OwaInv, ReadCalendar \/ SignInAnswered PROVE OwaInv'
  OBVIOUS
<1>0. /\ reader \in Readers /\ mailbox \subseteq Events /\ outlook \in Screens
      /\ max_steps \in Nat
  BY WeekFacts DEF OwaInv
<1>e. mailbox' = mailbox => \A w : EventsIn(w)' = EventsIn(w)
  BY DEF EventsIn
<1>1. CASE Goto \/ SignInAnswered
  <2>1. /\ Load(TRUE) /\ UNCHANGED <<mailbox, answer>> /\ reader.pc \in {"goto", "first"}
        /\ \/ reader' = [reader EXCEPT !.pc = "first"]
           \/ reader.pc = "first" /\ reader' = [reader EXCEPT !.answered = TRUE]
    BY <1>1 DEF Goto, SignInAnswered, WantsSignIn
  <2>2. /\ reader' \in Readers /\ reader'.pc = "first" /\ reader'.week = reader.week
        /\ reader'.events = reader.events /\ reader'.degraded = reader.degraded
    BY <1>0, <2>1 DEF Readers
  <2>3. /\ outlook' \in Screens
        /\ outlook'.grid = {} \/ outlook'.grid = EventsIn(outlook'.week)
    BY <1>0, <2>1, LoadedInTime
  <2>4. GridIsOfTheWeek'
    BY <2>1, <2>2, <2>3 DEF GridIsOfTheWeek, EventsIn
  <2> QED
    BY <2>1, <2>2, <2>3, <2>4, WithinTheWeek
<1>2. CASE FirstLook
  <2>1. /\ reader.pc = "first" /\ UNCHANGED <<mailbox, answer>>
        /\ reader' = [reader EXCEPT !.pc = "loop"]
        /\ IF outlook.grid = {} THEN Load(FALSE) ELSE UNCHANGED outlook
    BY <1>2 DEF FirstLook
  <2>2. /\ reader' \in Readers /\ reader'.pc = "loop" /\ reader'.week = reader.week
        /\ reader'.events = reader.events /\ reader'.degraded = reader.degraded
    BY <1>0, <2>1 DEF Readers
  <2>3. outlook' \in Screens /\ (outlook'.header => outlook'.grid = EventsIn(outlook'.week))
    <3>1. CASE outlook.grid = {}
      BY <1>0, <2>1, <3>1, LoadedInTime
    <3>2. CASE outlook.grid # {}
      BY <1>0, <2>1, <3>2 DEF OwaInv, GridIsOfTheWeek
    <3> QED
      BY <3>1, <3>2
  <2>4. GridIsOfTheWeek'
    BY <2>1, <2>2, <2>3 DEF GridIsOfTheWeek, EventsIn
  <2> QED
    BY <2>1, <2>2, <2>3, <2>4, WithinTheWeek
<1>3. CASE ReloadForHeader
  <2>1. /\ reader.pc = "loop" /\ reader.steps <= max_steps /\ UNCHANGED <<mailbox, answer>>
        /\ reader' = [reader EXCEPT !.reloaded = TRUE, !.steps = @ + 1]
        /\ Load(FALSE)
    BY <1>3 DEF ReloadForHeader, Stepping
  <2>s. reader.steps + 1 \in 0 .. max_steps + 1
    BY <1>0, <2>1 DEF Readers
  <2>2. /\ reader' \in Readers /\ reader'.pc = "loop" /\ reader'.week = reader.week
        /\ reader'.events = reader.events /\ reader'.degraded = reader.degraded
    BY <1>0, <2>1, <2>s DEF Readers
  <2>3. outlook' \in Screens /\ (outlook'.header => outlook'.grid = EventsIn(outlook'.week))
    BY <1>0, <2>1, LoadedInTime
  <2>4. GridIsOfTheWeek'
    BY <2>1, <2>2, <2>3 DEF GridIsOfTheWeek, EventsIn
  <2> QED
    BY <2>1, <2>2, <2>3, <2>4, WithinTheWeek
<1>4. CASE ClickWeek
  <2> DEFINE w == outlook.week + IF reader.week < HeaderSays THEN -1 ELSE 1
  <2>1. /\ reader.pc = "loop" /\ reader.steps <= max_steps /\ UNCHANGED <<mailbox, answer>>
        /\ reader' = [reader EXCEPT !.steps = @ + 1]
        /\ Draw(w, GridAt(w, outlook.grid))
    BY <1>4 DEF ClickWeek, Stepping
  <2>2. /\ reader' \in Readers /\ reader'.pc = "loop" /\ reader'.week = reader.week
        /\ reader'.events = reader.events /\ reader'.degraded = reader.degraded
    BY <1>0, <2>1 DEF Readers
  <2>3. w \in Int
    BY <1>0 DEF Screens
  <2> HIDE DEF w
  <2>4. GridAt(w, outlook.grid) \union {} = GridAt(w, outlook.grid)
    OBVIOUS
  <2>5. outlook' \in Screens /\ outlook'.week = w /\ outlook'.grid = EventsIn(w)
    BY <1>0, <2>1, <2>3, <2>4, DrawnInTime
  <2>6. GridIsOfTheWeek'
    BY <2>1, <2>2, <2>5 DEF GridIsOfTheWeek, EventsIn
  <2> QED
    BY <2>1, <2>2, <2>5, <2>6, WithinTheWeek
<1>5. CASE Arrive
  <2>1. /\ reader.pc = "loop" /\ outlook.header /\ outlook.week = reader.week
        /\ UNCHANGED <<mailbox, outlook, answer>> /\ reader' = [reader EXCEPT !.pc = "harvest"]
    BY <1>5 DEF Arrive, Stepping, HeaderSays
  <2>2. /\ reader' \in Readers /\ reader'.pc = "harvest" /\ reader'.week = reader.week
        /\ reader'.events = reader.events /\ reader'.degraded = reader.degraded
    BY <1>0, <2>1 DEF Readers
  <2>3. GridIsOfTheWeek'
    BY <2>1, <2>2 DEF OwaInv, GridIsOfTheWeek, EventsIn
  <2> QED
    BY <1>0, <2>1, <2>2, <2>3, WithinTheWeek
<1>6. CASE GiveUp
  BY <1>6, WeekDoneKeepsInv DEF GiveUp, Stepping
<1>7. CASE Harvest
  <2> DEFINE E == {e \in outlook.grid \X {reader.week} : WeekOf[e[1]] = e[2]}
  <2>1. reader.pc = "harvest" /\ WeekDone(E, FALSE)
    BY <1>7 DEF Harvest
  <2>2. outlook.grid = EventsIn(reader.week) /\ reader.week \in Weeks
    BY <1>0, <2>1 DEF OwaInv, GridIsOfTheWeek, Readers
  <2>3. /\ E \in SUBSET (Events \X Weeks)
        /\ E = {e \in mailbox \X {reader.week} : WeekOf[e[1]] = e[2]}
    BY <1>0, <2>2 DEF EventsIn
  <2> HIDE DEF E
  <2> QED
    BY <2>1, <2>3, WeekDoneKeepsInv
<1>8. CASE PageFails
  <2>1. /\ reader' = [reader EXCEPT !.pc = "raised"] /\ UNCHANGED <<mailbox, outlook, answer>>
        /\ reader.pc \in {"goto", "first", "loop"}
    BY <1>8 DEF PageFails
  <2>2. /\ reader' \in Readers /\ reader'.pc = "raised" /\ reader'.week = reader.week
        /\ reader'.events = reader.events /\ reader'.degraded = reader.degraded
    BY <1>0, <2>1 DEF Readers
  <2> QED
    BY <1>0, <2>1, <2>2, WithinTheWeek DEF GridIsOfTheWeek
<1>9. CASE Return
  <2>1. UNCHANGED <<mailbox, outlook, reader>> /\ answer'.given
    BY <1>9 DEF Return, Contract!Degraded, Contract!Read
  <2> QED
    BY <2>1 DEF OwaInv, GridIsOfTheWeek, ReadSoFar, EventsIn, HeldBefore
<1> QED
  BY <1>1, <1>2, <1>3, <1>4, <1>5, <1>6, <1>7, <1>8, <1>9 DEF ReadCalendar

\* A step of the reader answers what the calendar holds, or nothing.
LEMMA OwaContractStep ==
  OwaInv /\ (ReadCalendar \/ SignInAnswered) => [Contract!Next]_(Contract!vars)
<1> SUFFICES ASSUME OwaInv, ReadCalendar \/ SignInAnswered
             PROVE  Contract!Next \/ UNCHANGED <<mailbox, answer>>
  BY DEF Contract!vars
<1>1. CASE Return
  <2>1. /\ reader.pc = "done" /\ answer = Contract!NoAnswer /\ mailbox' = mailbox
        /\ answer' = IF reader.degraded THEN Contract!Degraded
                     ELSE Contract!Read(reader.events)
        /\ ~ reader.degraded => reader.events = Contract!Holds(mailbox)
    BY <1>1 DEF Return, OwaInv, ReadSoFar
  <2>2. CASE reader.degraded
    BY <2>1, <2>2 DEF Contract!Next, Contract!Fail
  <2>3. CASE ~ reader.degraded
    BY <2>1, <2>3 DEF Contract!Next, Contract!Answer
  <2> QED
    BY <2>2, <2>3
<1>2. CASE ~ Return
  BY <1>2 DEF ReadCalendar, Goto, FirstLook, ReloadForHeader, GiveUp, ClickWeek, Arrive,
     Harvest, PageFails, SignInAnswered, WeekDone
<1> QED
  BY <1>1, <1>2

\* As long as Outlook draws a grid that was loaded again, the reader implements the
\* contract of the classify job for every calendar and window: it reads no week for
\* another, and none it could not reach for an empty one.
THEOREM OutlookReaderKeepsContract ==
  ASSUME ~ GridLags
  PROVE  OwaSpec => OwaImplementsContract
<1>1. OwaInit => Contract!Init
  BY DEF OwaInit, Contract!Init
<1>2. OwaInv /\ [ReadCalendar \/ SignInAnswered]_owaVars => OwaInv'
  <2>1. OwaInv /\ UNCHANGED owaVars => OwaInv'
    BY DEF owaVars, OwaInv, GridIsOfTheWeek, ReadSoFar, EventsIn, HeldBefore
  <2> QED
    BY <2>1, OwaStep
<1>3. OwaInv /\ [ReadCalendar \/ SignInAnswered]_owaVars => [Contract!Next]_(Contract!vars)
  BY OwaContractStep DEF owaVars, Contract!vars
<1> QED
  BY <1>1, <1>2, <1>3, OwaInvInit, PTL DEF OwaSpec, OwaImplementsContract, Contract!Spec

-----------------------------------------------------------------------------
(* The job *)

\* Between two sign-ins nothing is on its way to Entra, and no password was rejected.
SignedInOrOut ==
  job.phase \notin {"signin", "resignin", "closed"} => sent = "none" /\ ~ typed.rejected

\* What is entered or still to be entered is on no page of the list that was read.
OnlyAbsentDays ==
  \A d \in form.todo \union {r.day : r \in rows} : list.pc = "returned" /\ list.seen[d] = 0

JobInv ==
  /\ job \in [name: {"classify", "build"}, phase: Phases]
  /\ SignInInv /\ SignedInOrOut
  /\ ListInv
  /\ FormInv /\ OnlyAbsentDays
  /\ job.phase \notin {"form", "closed"} => EmptyForm /\ form.todo = {}

\* Nothing of the sign-in moves, or of the list, or of the form.
LEMMA PartsStay ==
  /\ SignInInv /\ UNCHANGED signInVars => SignInInv'
  /\ ListInv /\ UNCHANGED listVars => ListInv'
  /\ FormInv /\ UNCHANGED formVars => FormInv'
<1>1. SignInInv /\ UNCHANGED signInVars => SignInInv'
  BY DEF SignInInv, OrderOfPanes, ClickIsForThePane, NothingIsComing, FilledIsOnScreen,
         WaitIsForTheClick, RejectionIsSeen, SubmitIsForThisPane, RejectedPasswordEndsSignIn,
         SignInTypeOK, PageTypeOK, signInVars
<1>2. ListInv /\ UNCHANGED listVars => ListInv'
  BY PortalKeepsInv
<1>3. FormInv /\ UNCHANGED formVars => FormInv'
  BY DEF FormInv, FormTypeOK, DraftIsAsMeant, formVars
<1> QED
  BY <1>1, <1>2, <1>3

\* A sign-in begins as the first one does, except for what is on record.
LEMMA StartKeepsSignIn ==
  ASSUME SignInInv, sent = "none", ~ typed.rejected, StartSignIn
  PROVE  SignInInv'
<1>1. client' = NewClient("look") /\ UNCHANGED <<error, sent, lag, typed>>
      /\ pane' \in {"tiles", "email", "password", "totp"}
  BY DEF StartSignIn
<1>2. client' \in Clients /\ client'.pc = "look"
  BY <1>1, Zero DEF NewClient, Clients, LoopPcs
<1>3. SignInTypeOK'
  BY <1>1, <1>2 DEF SignInInv, SignInTypeOK, PageTypeOK, Panes, Fields
<1> QED
  BY <1>1, <1>2, <1>3
     DEF SignInInv, OrderOfPanes, ClickIsForThePane, NothingIsComing, FilledIsOnScreen,
         WaitIsForTheClick, RejectionIsSeen, SubmitIsForThisPane, RejectedPasswordEndsSignIn

\* A sign-in that has succeeded leaves nothing on its way and no rejection.
LEMMA EndKeepsSignIn ==
  ASSUME SignInInv, EndSignIn
  PROVE  SignInInv' /\ sent' = "none" /\ ~ typed'.rejected
<1>1. /\ client' = NewClient("in") /\ sent' = "none" /\ lag' = 0
      /\ UNCHANGED <<pane, error, typed>> /\ client.pc = "in"
  BY DEF EndSignIn
<1>2. client' \in Clients /\ client'.pc = "in"
  BY <1>1, Zero DEF NewClient, Clients, LoopPcs
<1>3. SignInTypeOK'
  BY <1>1, <1>2, Zero DEF SignInInv, SignInTypeOK, PageTypeOK
<1>4. ~ typed.rejected
  BY <1>1 DEF SignInInv, RejectionIsSeen
<1> QED
  BY <1>1, <1>2, <1>3, <1>4
     DEF SignInInv, OrderOfPanes, ClickIsForThePane, NothingIsComing, FilledIsOnScreen,
         WaitIsForTheClick, RejectionIsSeen, SubmitIsForThisPane, RejectedPasswordEndsSignIn

\* Rows are entered of the days to enter, and of no other.
LEMMA DaysToEnter ==
  ASSUME FormInv, InSite \/ FillRows
  PROVE  form'.todo \union {r.day : r \in rows'} \subseteq form.todo \union {r.day : r \in rows}
<1>0. form \in FormMemory
  BY DEF FormInv, FormTypeOK, FormMemory
<1>1. CASE Confirm
  <2>1. \/ Raise /\ rows' = rows
        \/ \E d \in form.todo :
             /\ form' = [form EXCEPT !.wait = 7, !.todo = @ \ {d},
                           !.pc = IF form.todo = {d} THEN "create" ELSE "add"]
             /\ \/ rows' = rows \union {[day |-> d, holds |-> dialog.holds]}
                \/ rows' = rows
    BY <1>1 DEF Confirm
  <2>2. CASE Raise /\ rows' = rows
    BY <1>0, <2>2 DEF Raise, FormMemory
  <2>3. ASSUME NEW d \in form.todo,
               form' = [form EXCEPT !.wait = 7, !.todo = @ \ {d},
                          !.pc = IF form.todo = {d} THEN "create" ELSE "add"],
               \/ rows' = rows \union {[day |-> d, holds |-> dialog.holds]}
               \/ rows' = rows
        PROVE  form'.todo \union {r.day : r \in rows'}
                 \subseteq form.todo \union {r.day : r \in rows}
    <3>1. form'.todo = form.todo \ {d}
      BY <1>0, <2>3 DEF FormMemory
    <3>2. \A r \in rows' : r \in rows \/ r.day = d
      BY <2>3
    <3> QED
      BY <3>1, <3>2
  <2> QED
    BY <2>1, <2>2, <2>3
<1>2. CASE ~ Confirm
  <2>1. rows' = rows
    BY <1>2 DEF InSite, HalfSecond, TripEnds, FillRows, AddRow, FillDate, Quantity, OpenMenu,
       Pick, Create, PortalFails, Check
  <2>2. \/ form' = form
        \/ \E wait : form' = [form EXCEPT !.wait = wait]
        \/ \E pc, wait : Then(pc, wait)
        \/ \E pc, tries : form' = [form EXCEPT !.pc = pc, !.tries = tries]
        \/ Raise
    <3>1. CASE InSite
      BY <3>1 DEF InSite, HalfSecond, TripEnds
    <3>2. CASE AddRow \/ FillDate \/ Quantity \/ OpenMenu \/ Create \/ PortalFails
      BY <3>2 DEF AddRow, FillDate, Quantity, OpenMenu, Create, PortalFails
    <3>3. CASE Pick
      BY <3>3 DEF Pick
    <3>4. ASSUME NEW pc, NEW f, NEW again, NEW next, Check(pc, f, again, next)
          PROVE  (\E q, tries : form' = [form EXCEPT !.pc = q, !.tries = tries]) \/ Raise
      BY <3>4 DEF Check
    <3> QED
      BY <1>2, <3>1, <3>2, <3>3, <3>4 DEF FillRows
  <2>3. form'.todo = form.todo
    BY <1>0, <2>2 DEF Then, Raise, FormMemory
  <2> QED
    BY <2>1, <2>3
<1> QED
  BY <1>1, <1>2

\* The phase is all of the job that changes.
LEMMA PhaseFacts ==
  ASSUME job \in [name: {"classify", "build"}, phase: Phases], NEW phase \in Phases, Enter(phase)
  PROVE  job' \in [name: {"classify", "build"}, phase: Phases] /\ job'.phase = phase
BY DEF Enter

\* A step that moves only the sign-in, the calendar or the phase.
LEMMA ListAndFormStay ==
  ASSUME JobInv, UNCHANGED <<listVars, formVars>>,
         job' \in [name: {"classify", "build"}, phase: Phases],
         job.phase \notin {"form", "closed"} \/ job'.phase \in {"form", "closed"},
         SignInInv', SignedInOrOut'
  PROVE  JobInv'
<1>1. ListInv' /\ FormInv'
  BY PartsStay DEF JobInv
<1>2. OnlyAbsentDays' /\ (EmptyForm /\ form.todo = {} => EmptyForm' /\ form'.todo = {})
  BY DEF JobInv, OnlyAbsentDays, listVars, formVars, EmptyForm
<1> QED
  BY <1>1, <1>2 DEF JobInv

\* Every step of the job keeps the invariants of its parts and what they hand over.
LEMMA JobStep == JobInv /\ [Next]_jobVars => JobInv'
<1> SUFFICES ASSUME JobInv, [Next]_jobVars PROVE JobInv'
  OBVIOUS
<1>0. /\ job \in [name: {"classify", "build"}, phase: Phases]
      /\ SignInInv /\ SignedInOrOut /\ ListInv /\ FormInv
  BY DEF JobInv
<1>p. Phases = {"goto", "open", "signin", "settle", "week", "resignin", "list", "form", "closed"}
  BY DEF Phases
<1>s. UNCHANGED signInVars => SignInInv'
  BY <1>0, PartsStay
<1>q. ASSUME UNCHANGED <<signInVars, listVars, formVars>>,
             job' = job \/ \E phase \in Phases \ {"form", "signin", "resignin"} : Enter(phase),
             job'.phase = "closed" \/ job' = job
               \/ job.phase \notin {"form", "closed", "signin", "resignin"}
      PROVE  JobInv'
  <2>1. job' \in [name: {"classify", "build"}, phase: Phases]
    BY <1>0, <1>q, PhaseFacts
  <2>2. SignedInOrOut'
    BY <1>0, <1>q DEF SignedInOrOut, signInVars
  <2> QED
    BY <1>q, <1>s, <2>1, <2>2, ListAndFormStay
<1>1. CASE Open \/ OpenFails \/ Redirect \/ Settled
  <2>1. /\ UNCHANGED <<signInVars, listVars, formVars>>
        /\ job.phase \in {"goto", "settle"}
        /\ job' = job \/ Enter("open") \/ Enter("closed") \/ Enter("week") \/ Enter("list")
    BY <1>1 DEF Open, OpenFails, Redirect, Settled, Close, In
  <2> QED
    BY <1>p, <1>q, <2>1
<1>2. CASE LookWhere
  <2>1. job.phase = "open" /\ UNCHANGED <<listVars, formVars>> /\ sent = "none" /\ ~ typed.rejected
    BY <1>0, <1>2 DEF LookWhere, In, SignedInOrOut
  <2>2. CASE UNCHANGED signInVars /\ (Enter("settle") \/ Close)
    BY <1>p, <1>q, <2>1, <2>2 DEF Close
  <2>3. CASE Enter("signin") /\ StartSignIn
    <3>1. job' \in [name: {"classify", "build"}, phase: Phases] /\ job'.phase = "signin"
      BY <1>0, <1>p, <2>3, PhaseFacts
    <3> QED
      BY <1>0, <2>1, <2>3, <3>1, StartKeepsSignIn, ListAndFormStay DEF SignedInOrOut
  <2> QED
    BY <1>2, <2>2, <2>3 DEF LookWhere
<1>3. CASE SigningIn
  <2>1. /\ job.phase \in {"signin", "resignin"} /\ UNCHANGED <<listVars, formVars, job>>
        /\ Entra \/ SignIn
    BY <1>3 DEF SigningIn
  <2>2. SignInInv'
    BY <1>0, <2>1, EntraKeepsInv, LoopKeepsInv
  <2> QED
    BY <1>0, <2>1, <2>2, ListAndFormStay DEF SignedInOrOut
<1>4. CASE SignedIn \/ OutlookSignedIn
  <2>1. job.phase \in {"signin", "resignin"} /\ UNCHANGED <<listVars, formVars>>
    BY <1>4 DEF SignedIn, OutlookSignedIn, In
  <2>2. CASE Close /\ UNCHANGED signInVars
    BY <1>p, <1>q, <2>1, <2>2, <1>0, PhaseFacts DEF Close
  <2>3. CASE EndSignIn /\ (Enter("settle") \/ Enter("week"))
    <3>1. job' \in [name: {"classify", "build"}, phase: Phases]
      BY <1>0, <1>p, <2>3, PhaseFacts
    <3>2. SignInInv' /\ SignedInOrOut'
      BY <1>0, <2>3, EndKeepsSignIn DEF SignedInOrOut
    <3> QED
      BY <2>1, <3>1, <3>2, ListAndFormStay
  <2> QED
    BY <1>4, <2>2, <2>3 DEF SignedIn, OutlookSignedIn
<1>5. CASE ReadingCalendar
  <2>1. /\ job.phase = "week" /\ UNCHANGED <<signInVars, listVars, formVars>>
        /\ job' = [job EXCEPT !.phase =
             IF reader'.pc = "raised" \/ answer'.given THEN "closed" ELSE @]
    BY <1>5 DEF ReadingCalendar, In
  <2>2. job' = job \/ Enter("closed")
    BY <1>0, <2>1 DEF Enter
  <2> QED
    BY <1>p, <1>q, <2>1, <2>2
<1>6. CASE OutlookSignIn
  <2>1. /\ job.phase = "week" /\ UNCHANGED <<listVars, formVars>> /\ sent = "none"
        /\ ~ typed.rejected /\ Enter("resignin") /\ StartSignIn
    BY <1>0, <1>6 DEF OutlookSignIn, In, SignedInOrOut
  <2>2. job' \in [name: {"classify", "build"}, phase: Phases] /\ job'.phase = "resignin"
    BY <1>0, <1>p, <2>1, PhaseFacts
  <2> QED
    BY <1>0, <2>1, <2>2, StartKeepsSignIn, ListAndFormStay DEF SignedInOrOut
<1>7. CASE ReadingList
  <2>1. job.phase = "list" /\ ReadLines /\ UNCHANGED <<signInVars, formVars, job>>
    BY <1>7 DEF ReadingList, In
  <2>2. ListInv'
    BY <1>0, <2>1, ReadPageKeepsInv, PollKeepsInv, PortalKeepsInv DEF ReadLines
  <2>3. FormInv' /\ EmptyForm' /\ form'.todo = {} /\ rows' = {}
    BY <1>0, <2>1, PartsStay DEF JobInv, EmptyForm, formVars
  <2>4. OnlyAbsentDays'
    BY <2>3 DEF OnlyAbsentDays
  <2> QED
    BY <1>0, <1>s, <2>1, <2>2, <2>3, <2>4 DEF JobInv, SignedInOrOut, signInVars
<1>8. CASE ListRead
  <2>1. job.phase = "list" /\ UNCHANGED <<signInVars, listVars>> /\ EmptyForm
    BY <1>8 DEF ListRead, In, JobInv
  <2>2. CASE Close /\ UNCHANGED formVars
    BY <1>p, <1>q, <2>1, <2>2 DEF Close
  <2>3. CASE /\ list.pc = "returned"
             /\ \E dry \in BOOLEAN : form' = NewForm(AbsentDays, dry)
             /\ IF AbsentDays = {} THEN Close ELSE Enter("form")
             /\ UNCHANGED <<dialog, trips, rows, created>>
    <3>1. PICK dry \in BOOLEAN : form' = NewForm(AbsentDays, dry)
      BY <2>3
    <3>2. AbsentDays \in SUBSET FormDays /\ \A d \in AbsentDays : list.seen[d] = 0
      BY DEF AbsentDays
    <3>3. EmptyForm'
      BY <2>1, <2>3 DEF EmptyForm
    <3>4. FormInv'
      <4>1. form' \in FormMemory /\ form'.pc = "add"
        BY <3>1, <3>2, FormAssumption DEF NewForm, FormMemory, FormPcs, FormAssumption
      <4> QED
        BY <3>3, <4>1 DEF EmptyForm, Closed, FormInv, FormTypeOK, DraftIsAsMeant, FormMemory
    <3>5. form'.todo = AbsentDays /\ rows' = {}
      BY <3>1, <3>3 DEF NewForm, EmptyForm
    <3>6. OnlyAbsentDays'
      BY <2>1, <2>3, <3>2, <3>5 DEF OnlyAbsentDays, listVars
    <3>7. /\ job' \in [name: {"classify", "build"}, phase: Phases]
          /\ job'.phase \in {"form", "closed"}
      BY <1>0, <1>p, <2>3, PhaseFacts DEF Close
    <3>8. SignedInOrOut'
      BY <1>0, <2>1, <3>7 DEF SignedInOrOut, signInVars
    <3> QED
      BY <1>0, <1>s, <2>1, <3>4, <3>6, <3>7, <3>8, PartsStay DEF JobInv
  <2> QED
    BY <1>8, <2>2, <2>3 DEF ListRead
<1>9. CASE FillingRows
  <2>1. /\ job.phase = "form" /\ UNCHANGED <<signInVars, listVars, job>>
        /\ InSite \/ FillRows
    BY <1>9 DEF FillingRows, In
  <2>2. FormInv'
    BY <1>0, <2>1, InSiteKeepsInv, FillRowsKeepsInv
  <2>3. OnlyAbsentDays'
    <3>1. form'.todo \union {r.day : r \in rows'} \subseteq form.todo \union {r.day : r \in rows}
      BY <1>0, <2>1, DaysToEnter
    <3> QED
      BY <2>1, <3>1 DEF JobInv, OnlyAbsentDays, listVars
  <2> QED
    BY <1>0, <1>s, <2>1, <2>2, <2>3, PartsStay DEF JobInv, SignedInOrOut, signInVars
<1>10. CASE FormLeft
  <2>1. job'.phase = "closed"
    BY <1>0, <1>p, <1>10, PhaseFacts DEF FormLeft, Close
  <2> QED
    BY <1>p, <1>q, <1>10, <2>1 DEF FormLeft, Close
<1>11. CASE UNCHANGED jobVars
  BY <1>q, <1>11 DEF jobVars
<1> QED
  BY <1>1, <1>2, <1>3, <1>4, <1>5, <1>6, <1>7, <1>8, <1>9, <1>10, <1>11 DEF Next

\* A job begins signed out, with nothing read and nothing entered.
LEMMA JobInvInit == JobInit => JobInv
<1> SUFFICES ASSUME JobInit PROVE JobInv
  OBVIOUS
<1>1. SignInInv /\ ListInv
  BY SignInInvInit, ListInvInit DEF JobInit
<1>2. EmptyForm /\ form = NewForm({}, FALSE)
  BY DEF JobInit
<1>3. FormInv /\ form.todo = {}
  <2>1. {} \in SUBSET FormDays /\ FALSE \in BOOLEAN
    OBVIOUS
  <2> QED
    BY <1>2, <2>1, EmptyFormOK DEF NewForm
<1>4. OnlyAbsentDays
  BY <1>2, <1>3 DEF OnlyAbsentDays, EmptyForm
<1>5. SignedInOrOut
  BY DEF JobInit, SignInInit, SignedInOrOut
<1>6. job \in [name: {"classify", "build"}, phase: Phases]
  BY DEF JobInit, Phases
<1> QED
  BY <1>1, <1>2, <1>3, <1>4, <1>5, <1>6 DEF JobInv

\* The invariant of the job.
LEMMA JobCorrect == Spec => []JobInv
BY JobInvInit, JobStep, PTL DEF Spec

\* In a job, too, no click submits the empty field of the next pane, and no password
\* that Entra rejected is typed again: not in the second sign-in that Outlook wants
\* either.
THEOREM JobSignsInSafely == Spec => [](SubmitIsForThisPane /\ RejectedPasswordEndsSignIn)
<1>1. JobInv => SubmitIsForThisPane /\ RejectedPasswordEndsSignIn
  BY DEF JobInv, SignInInv
<1> QED
  BY JobCorrect, <1>1, PTL

\* A day is entered only when AFAS shows no line of it, on whatever page of whatever
\* grid, for every list, every set of days and however the portal draws and fails.
THEOREM NoDayIsEnteredTwice == Spec => []EnteredWasAbsent
<1>1. JobInv => EnteredWasAbsent
  <2> SUFFICES ASSUME JobInv, NEW r \in rows
               PROVE  ~ Shows("draft", r.day) /\ ~ Shows("main", r.day)
    BY DEF EnteredWasAbsent
  <2>1. list.pc = "returned" /\ list.seen[r.day] = 0
    BY DEF JobInv, OnlyAbsentDays
  <2>2. r.day \in Lines
    BY JobAssumption DEF JobAssumption, JobInv, FormInv, FormTypeOK
  <2>3. (\E g \in {"draft", "main"} : Shows(g, r.day)) => list.seen[r.day] > 0
    BY <2>1, <2>2, ReturnedIsWhole DEF JobInv, ListIsWhole
  <2> QED
    BY <2>1, <2>3
<1> QED
  BY JobCorrect, <1>1, PTL

\* A build reads the whole list and creates what was meant.
THEOREM JobReadsAndEntersWhole == Spec => [](ListIsWhole /\ DraftIsAsMeant)
<1>1. JobInv => ListIsWhole /\ DraftIsAsMeant
  BY ReturnedIsWhole DEF JobInv, FormInv
<1> QED
  BY JobCorrect, <1>1, PTL

\* A classify job keeps the contract, with the sign-ins that Outlook wants in between.
THEOREM JobKeepsContract ==
  ASSUME ~ GridLags
  PROVE  Spec => OwaImplementsContract
<1>1. JobInit => OwaInv /\ Contract!Init
  BY OwaInvInit DEF JobInit, OwaInit, Contract!Init
<1>2. [Next]_jobVars => [ReadCalendar \/ SignInAnswered]_owaVars
  BY DEF Next, jobVars, Open, OpenFails, LookWhere, SigningIn, SignedIn, Redirect, Settled,
     ReadingCalendar, OutlookSignIn, OutlookSignedIn, ReadingList, ListRead, FillingRows, FormLeft
<1>3. OwaInv /\ [ReadCalendar \/ SignInAnswered]_owaVars => OwaInv'
  <2>1. OwaInv /\ UNCHANGED owaVars => OwaInv'
    BY DEF owaVars, OwaInv, GridIsOfTheWeek, ReadSoFar, EventsIn, HeldBefore
  <2> QED
    BY <2>1, OwaStep
<1>4. OwaInv /\ [ReadCalendar \/ SignInAnswered]_owaVars => [Contract!Next]_(Contract!vars)
  BY OwaContractStep DEF owaVars, Contract!vars
<1> QED
  BY <1>1, <1>2, <1>3, <1>4, PTL DEF Spec, OwaImplementsContract, Contract!Spec

=============================================================================
