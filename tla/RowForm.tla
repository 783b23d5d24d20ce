------------------------------ MODULE RowForm ------------------------------
(***************************************************************************)
(* Entering a declaration in InSite: cli._fill_rows and insite.create_draft*)
(* over add_row, fill_row and confirm_row.  A row is entered in a dialog.  *)
(* InSite is outside src/: a value that is set starts a round trip to the  *)
(* server, which up to MaxTrip later discards that value again or fills in *)
(* other fields.                                                           *)
(*                                                                         *)
(* A field either holds what ClaimLine means or something else.  Time is   *)
(* counted in half seconds, in which every wait of the driver is whole.    *)
(***************************************************************************)
EXTENDS Naturals, FiniteSets

CONSTANTS
  FormDays,   \* the days that can be entered
  MaxTrip,    \* how long a round trip takes at most
  Attempts    \* of set_text_field and set_reference

FieldNames == {"date", "quantity", "period", "year"}

ASSUME FormAssumption == {MaxTrip, Attempts} \subseteq Nat /\ MaxTrip < 6

VARIABLES
  dialog,   \* [open, holds]: which fields hold what is meant, for one row
  trips,    \* the round trips under way: the field that was set, and for how long
  rows,     \* the rows of the grid: the day and whether each field was as meant
  created,  \* Aanmaken on the page was clicked
  form      \* memory of _fill_rows

formVars == <<dialog, trips, rows, created, form>>

Closed == [open |-> FALSE, holds |-> [f \in FieldNames |-> FALSE]]
NewForm(D, dry) == [pc |-> "add", todo |-> D, wait |-> 0, tries |-> 0, dry |-> dry]

FormPcs == {"add", "date", "check_date", "quantity", "check_quantity", "menu", "pick",
            "check_period", "confirm", "create", "done", "raised"}

FormTypeOK ==
  /\ dialog \in [open: BOOLEAN, holds: [FieldNames -> BOOLEAN]]
  /\ trips \subseteq [field: FieldNames, age: 0 .. MaxTrip]
  /\ rows \subseteq [day: FormDays, holds: [FieldNames -> BOOLEAN]]
  /\ created \in BOOLEAN
  /\ form \in [pc: FormPcs, todo: SUBSET FormDays, wait: 0 .. 10, tries: 0 .. Attempts,
              dry: BOOLEAN]

-----------------------------------------------------------------------------
(* InSite *)

\* A round trip comes back.  That of the date may fill in period, year and count.
TripEnds(t) ==
  /\ trips' = trips \ {t}
  /\ \/ UNCHANGED dialog
     \/ dialog' = [dialog EXCEPT !.holds[t.field] = FALSE]
     \/ /\ t.field = "date"
        /\ \E p, y, q \in BOOLEAN :
             dialog' = [dialog EXCEPT !.holds["period"] = p, !.holds["year"] = y,
                                      !.holds["quantity"] = q]
  /\ UNCHANGED <<rows, created, form>>

HalfSecond ==
  /\ form.wait > 0
  /\ \A t \in trips : t.age < MaxTrip
  /\ trips' = {[t EXCEPT !.age = @ + 1] : t \in trips}
  /\ form' = [form EXCEPT !.wait = @ - 1]
  /\ UNCHANGED <<dialog, rows, created>>

-----------------------------------------------------------------------------
(* The driver *)

At(pc) == form.pc = pc /\ form.wait = 0

Then(pc, wait) == form' = [form EXCEPT !.pc = pc, !.wait = wait]

Raise == form' = [form EXCEPT !.pc = "raised", !.wait = 0, !.tries = 0]

Set(f) ==
  /\ dialog' = [dialog EXCEPT !.holds[f] = TRUE]
  /\ trips' = trips \union {[field |-> f, age |-> 0]}

\* add_row: Nieuw opens a dialog with whatever InSite prefills, unless one is open.
AddRow ==
  /\ At("add") /\ form.todo # {}
  /\ \/ /\ ~ dialog.open
        /\ \E h \in [FieldNames -> BOOLEAN] :
             /\ ~ h["date"]
             /\ dialog' = [open |-> TRUE, holds |-> h]
        /\ Then("date", 6)
     \/ Raise /\ UNCHANGED dialog
  /\ UNCHANGED <<trips, rows, created>>

\* set_text_field: fill, leave the field, wait, read it back.
FillDate ==
  /\ At("date")
  /\ Set("date") /\ Then("check_date", 3)
  /\ UNCHANGED <<rows, created>>

\* The value read back: go on, try again, or raise.
Check(pc, f, again, next) ==
  /\ At(pc)
  /\ IF dialog.holds[f] THEN form' = [form EXCEPT !.pc = next, !.tries = 0]
     ELSE IF form.tries + 1 < Attempts
     THEN form' = [form EXCEPT !.pc = again, !.tries = @ + 1]
     ELSE Raise
  /\ UNCHANGED <<dialog, trips, rows, created>>

\* set_or_verify_quantity: already right, fixed by AFAS, or to be set.
Quantity ==
  /\ At("quantity")
  /\ \/ dialog.holds["quantity"] /\ Then("menu", 0) /\ UNCHANGED <<dialog, trips>>
     \/ ~ dialog.holds["quantity"] /\ Raise /\ UNCHANGED <<dialog, trips>>
     \/ ~ dialog.holds["quantity"] /\ Set("quantity") /\ Then("check_quantity", 3)
  /\ UNCHANGED <<rows, created>>

\* set_reference: open the menu, perhaps type the value, pick it, read it back.
OpenMenu ==
  /\ At("menu")
  /\ \E wait \in {3, 6} : Then("pick", wait)
  /\ UNCHANGED <<dialog, trips, rows, created>>

Pick ==
  /\ At("pick")
  /\ \/ Set("period") /\ Then("check_period", 5)
     \/ /\ UNCHANGED <<dialog, trips>>
        /\ IF form.tries + 1 < Attempts
           THEN form' = [form EXCEPT !.pc = "menu", !.tries = @ + 1]
           ELSE Raise
  /\ UNCHANGED <<rows, created>>

\* Mutant: only the period is verified.
VerifyPeriodOnly == dialog.holds["period"]

\* verify_row: the form holds exactly what was intended.
VerifyRow == \A f \in FieldNames : dialog.holds[f]

\* verify_row and confirm_row, addressed by the id of the dialog.  The dialog closes,
\* or InSite refuses the row and it stays.
Confirm ==
  /\ At("confirm")
  /\ IF ~ VerifyRow THEN Raise /\ UNCHANGED <<dialog, rows>>
     ELSE \E d \in form.todo :
       /\ form' = [form EXCEPT !.wait = 7, !.todo = @ \ {d},
                     !.pc = IF form.todo = {d} THEN "create" ELSE "add"]
       /\ \/ dialog' = Closed /\ rows' = rows \union {[day |-> d, holds |-> dialog.holds]}
          \/ UNCHANGED <<dialog, rows>>
  /\ UNCHANGED <<trips, created>>

\* create_draft: the page's own Aanmaken, by its id, or nothing in a dry run.  A
\* dialog that is still open covers it.
Create ==
  /\ At("create")
  /\ IF form.dry THEN Then("done", 0) /\ UNCHANGED created
     ELSE IF dialog.open THEN Raise /\ UNCHANGED created
     ELSE created' = TRUE /\ Then("done", 10)
  /\ UNCHANGED <<dialog, trips, rows>>

\* A control that cannot be found or clicked.
PortalFails ==
  /\ form.pc \notin {"done", "raised"} /\ form.wait = 0
  /\ Raise
  /\ UNCHANGED <<dialog, trips, rows, created>>

-----------------------------------------------------------------------------
EmptyForm == dialog = Closed /\ trips = {} /\ rows = {} /\ created = FALSE

FormInit ==
  /\ EmptyForm
  /\ form \in {NewForm(D, dry) : D \in SUBSET FormDays \ {{}}, dry \in BOOLEAN}

InSite == HalfSecond \/ \E t \in trips : TripEnds(t)

FillRows ==
  \/ AddRow \/ FillDate \/ Quantity \/ OpenMenu \/ Pick \/ Confirm \/ Create \/ PortalFails
  \/ Check("check_date", "date", "date", "quantity")
  \/ Check("check_quantity", "quantity", "quantity", "menu")
  \/ Check("check_period", "period", "menu", "confirm")

FormSpec == FormInit /\ [][InSite \/ FillRows]_formVars

-----------------------------------------------------------------------------
(* Properties *)

\* No row is in the grid with a field that holds something else than was meant, and
\* a draft is created of all the rows or not at all, and never by a dry run
\* ("Writing without reading back is how a row ends up filed with yesterday's date
\* and no error anywhere", set_text_field).
DraftIsAsMeant ==
  /\ \A r \in rows : \A f \in FieldNames : r.holds[f]
  /\ created => form.todo = {} /\ ~ dialog.open /\ ~ form.dry

=============================================================================
