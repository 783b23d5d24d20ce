----------------------------- MODULE BrowserJob -----------------------------
(***************************************************************************)
(* A job that drives the browser, from session.open_session to the end:    *)
(* classify reading the calendar from Outlook, or build reading what AFAS  *)
(* holds and entering what is absent.  A step that raises ends the job,    *)
(* and the context is closed whatever happens.                             *)
(*                                                                         *)
(* The parts are EntraSignIn, CalendarOwa, ClaimList and RowForm; they run *)
(* one at a time, each on what the one before it left.                     *)
(***************************************************************************)
EXTENDS EntraSignIn, CalendarOwa, ClaimList, RowForm

CONSTANT allow_login   \* of open_session

ASSUME JobAssumption ==
  /\ FormDays \subseteq Lines
  /\ allow_login \in BOOLEAN

VARIABLES
  job,    \* which of the two, and how far it is
  site    \* where the browser is: the application, a page of its handshake, or Entra

jobVars == <<signInVars, owaVars, listVars, formVars, job, site>>

Phases == {"goto", "open", "signin", "settle", "week", "resignin", "list", "form", "closed"}

TypeOK ==
  /\ job \in [name: {"classify", "build"}, phase: Phases]
  /\ site \in {"insite", "handshake", "entra"}
  /\ SignInTypeOK /\ OwaTypeOK /\ ListTypeOK /\ FormTypeOK

-----------------------------------------------------------------------------
In(phase) == job.phase = phase
Enter(phase) == job' = [job EXCEPT !.phase = phase]

\* An exception goes through every caller, and context.close() is in a finally.
Close == Enter("closed")

StartSignIn ==
  /\ pane' \in {"tiles", "email", "password", "totp"}
  /\ client' = NewClient("look")
  /\ UNCHANGED <<error, sent, lag, typed>>

\* Nothing is left of a sign-in that succeeded but the session.
EndSignIn ==
  /\ client.pc = "in"
  /\ client' = NewClient("in")
  /\ sent' = "none" /\ lag' = 0
  /\ UNCHANGED <<pane, error, typed>>

\* page.goto: InSite, a page on the way to it, or Entra.
Open ==
  /\ In("goto")
  /\ site' \in {"insite", "handshake", "entra"}
  /\ Enter("open")
  /\ UNCHANGED <<signInVars, owaVars, listVars, formVars>>

OpenFails ==
  /\ In("goto") /\ Close
  /\ UNCHANGED <<signInVars, owaVars, listVars, formVars, site>>

\* on_microsoft_login, looked at once.
LookWhere ==
  /\ In("open")
  /\ IF site # "entra" THEN Enter("settle") /\ UNCHANGED signInVars
     ELSE IF allow_login THEN Enter("signin") /\ StartSignIn
     ELSE Close /\ UNCHANGED signInVars
  /\ UNCHANGED <<owaVars, listVars, formVars, site>>

SigningIn ==
  /\ job.phase \in {"signin", "resignin"}
  /\ Entra \/ SignIn
  /\ UNCHANGED <<owaVars, listVars, formVars, job, site>>

\* sign_in returns when the browser has left Entra, or raises.
SignedIn ==
  /\ In("signin")
  /\ \/ EndSignIn /\ Enter("settle") /\ site' \in {"insite", "handshake"}
     \/ client.pc = "failed" /\ Close /\ UNCHANGED <<signInVars, site>>
  /\ UNCHANGED <<owaVars, listVars, formVars>>

\* The application moves the browser on, perhaps to Entra after all.
Redirect ==
  /\ In("settle") /\ site = "handshake"
  /\ site' \in {"insite", "entra"}
  /\ UNCHANGED <<signInVars, owaVars, listVars, formVars, job>>

\* wait_until_settled: on the host, and off its callback paths, within the minute.
Settled ==
  /\ In("settle")
  /\ \/ /\ site = "insite"
        /\ Enter(IF job.name = "classify" THEN "week" ELSE "list")
     \/ site # "insite" /\ Close
  /\ UNCHANGED <<signInVars, owaVars, listVars, formVars, site>>

\* classify: the weeks one after the other.
ReadingCalendar ==
  /\ In("week")
  /\ ReadCalendar
  /\ job' = [job EXCEPT !.phase =
       IF reader'.pc = "raised" \/ answer'.given THEN "closed" ELSE @]
  /\ UNCHANGED <<signInVars, listVars, formVars, site>>

\* Outlook wants a sign-in of its own (answer_sign_in), once a week.
OutlookSignIn ==
  /\ In("week") /\ WantsSignIn
  /\ Enter("resignin") /\ StartSignIn
  /\ UNCHANGED <<owaVars, listVars, formVars, site>>

OutlookSignedIn ==
  /\ In("resignin")
  /\ \/ EndSignIn /\ Enter("week") /\ SignInAnswered
     \/ client.pc = "failed" /\ Close /\ UNCHANGED <<signInVars, owaVars>>
  /\ UNCHANGED <<listVars, formVars, site>>

\* build: the list, then the days that are not on it.
ReadingList ==
  /\ In("list")
  /\ ReadLines
  /\ UNCHANGED <<signInVars, owaVars, formVars, job, site>>

\* The days of the claim that are not on the list, in _build_one.
AbsentDays == {d \in FormDays : list.seen[d] = 0}

ListRead ==
  /\ In("list")
  /\ \/ list.pc = "raised" /\ Close /\ UNCHANGED formVars
     \/ /\ list.pc = "returned"
        /\ \E dry \in BOOLEAN : form' = NewForm(AbsentDays, dry)
        /\ IF AbsentDays = {} THEN Close ELSE Enter("form")
        /\ UNCHANGED <<dialog, trips, rows, created>>
  /\ UNCHANGED <<signInVars, owaVars, listVars, site>>

FillingRows ==
  /\ In("form")
  /\ InSite \/ FillRows
  /\ UNCHANGED <<signInVars, owaVars, listVars, job, site>>

FormLeft ==
  /\ In("form") /\ form.pc \in {"done", "raised"} /\ form.wait = 0
  /\ Close
  /\ UNCHANGED <<signInVars, owaVars, listVars, formVars, site>>

-----------------------------------------------------------------------------
\* Only what the job is going to read varies.
JobInit ==
  /\ SignInInit /\ pane = "email"
  /\ OwaInit /\ ListInit
  /\ \/ /\ job = [name |-> "classify", phase |-> "goto"]
        /\ grids = CHOOSE g \in [draft: DraftGrids, main: MainGrids] : TRUE
     \/ /\ job = [name |-> "build", phase |-> "goto"]
        /\ mailbox = {}
  /\ site = "handshake"
  /\ EmptyForm /\ form = NewForm({}, FALSE)

Next ==
  \/ Open \/ OpenFails \/ LookWhere \/ SigningIn \/ SignedIn \/ Redirect \/ Settled
  \/ ReadingCalendar \/ OutlookSignIn \/ OutlookSignedIn
  \/ ReadingList \/ ListRead \/ FillingRows \/ FormLeft

Spec == JobInit /\ [][Next]_jobVars

-----------------------------------------------------------------------------
(* Properties *)

\* A day is entered only when AFAS has no line of it, on whatever page of whatever
\* grid: the day would be declared twice.
EnteredWasAbsent ==
  \A r \in rows : ~ Shows("draft", r.day) /\ ~ Shows("main", r.day)

=============================================================================
