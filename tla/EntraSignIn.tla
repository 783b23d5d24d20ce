---------------------------- MODULE EntraSignIn ----------------------------
(***************************************************************************)
(* Signing in at Entra: the loop of entra.sign_in against the panes that   *)
(* Entra shows.  Entra is outside src/; it answers a click within MaxLag,  *)
(* keeps the old pane on screen until then, and goes to any pane that can  *)
(* follow.  Every pane shares one primary button, so a click means what    *)
(* the pane on screen at that moment takes it to mean.                     *)
(*                                                                         *)
(* Time is counted in parts of the 20 s that _await_inactive waits.        *)
(***************************************************************************)
EXTENDS Naturals, FiniteSets

CONSTANTS
  Await,        \* the timeout of _await_inactive
  STALL_SECONDS,
  Deadline,     \* the timeout of sign_in
  MaxLag,       \* how long Entra takes at most to answer a click
  CanStall      \* whether Entra can show a pane that the loop does not know

\* Entra answers a click before the client stops waiting for it.
ASSUME SignInAssumption ==
  /\ {Await, STALL_SECONDS, Deadline, MaxLag} \subseteq Nat
  /\ MaxLag < Await
  /\ CanStall \in BOOLEAN

VARIABLES
  pane,    \* what Entra shows, "app" when the browser has left it
  error,   \* whether one of SEL_ERROR is visible
  sent,    \* "none", or the pane whose answered click Entra is working on
  lag,     \* how long it has been
  client,  \* the loop: where it is, for which pane, and its clocks
  typed    \* for the properties: what clicks submitted, and where they landed

signInVars == <<pane, error, sent, lag, client, typed>>

Fields == {"email", "password", "totp"}
Panes == Fields \union {"tiles", "method", "kmsi", "unknown"}

\* What can follow a pane once it has been answered.
Follows(p) ==
  CASE p = "tiles"    -> {"email", "password", "totp", "app"}
    [] p = "email"    -> {"password", "app"}
    [] p = "password" -> {"totp", "method", "kmsi", "app"}
    [] p = "method"   -> {"totp"}
    [] p = "totp"     -> {"kmsi", "app"}
    [] p = "kmsi"     -> {"app"}

PageTypeOK ==
  /\ pane \in Panes \union {"app"} /\ error \in BOOLEAN
  /\ sent \in (Panes \ {"unknown"}) \union {"none"} /\ lag \in 0 .. MaxLag
  /\ sent = "none" => lag = 0

LoopPcs == {"look", "fill", "click", "await", "pause", "in", "failed"}

Clients == [pc: LoopPcs, on: Panes \union {"none"}, waited: 0 .. Await,
            left: 0 .. Deadline, quiet: 0 .. STALL_SECONDS + 1]

Histories == [wrong: BOOLEAN, rejected: BOOLEAN, again: BOOLEAN, twice: BOOLEAN]

SignInTypeOK == PageTypeOK /\ client \in Clients /\ typed \in Histories

-----------------------------------------------------------------------------
(* Entra *)

\* The answer to a click: another pane, or the same one with an error on it.
Land ==
  /\ sent # "none"
  /\ \/ /\ pane' \in Follows(sent) \union IF CanStall THEN {"unknown"} ELSE {}
        /\ error' = FALSE
        /\ UNCHANGED typed
     \/ /\ sent \in Fields
        /\ error' = TRUE
        /\ typed' = [typed EXCEPT !.rejected = @ \/ sent = "password"]
        /\ UNCHANGED pane
  /\ sent' = "none" /\ lag' = 0
  /\ UNCHANGED client

\* Only waiting takes time.
Tick ==
  /\ client.pc \in {"await", "pause"}
  /\ client.left > 0
  /\ client.pc = "await" => client.waited < Await
  /\ sent # "none" => lag < MaxLag
  /\ lag' = IF sent = "none" THEN 0 ELSE lag + 1
  /\ client' = [client EXCEPT
       !.left = @ - 1,
       !.waited = IF client.pc = "await" THEN @ + 1 ELSE @,
       !.quiet = IF @ <= STALL_SECONDS THEN @ + 1 ELSE @]
  /\ UNCHANGED <<pane, error, sent, typed>>

-----------------------------------------------------------------------------
(* sign_in *)

Proceed(pc, on) == client' = [client EXCEPT !.pc = pc, !.on = on, !.waited = 0, !.quiet = 0]

Looking == client.pc = "look" /\ client.left > 0 /\ pane # "app"

UnchangedPage == UNCHANGED <<pane, error, sent, lag>>

\* The browser has left Microsoft's hosts.
Left ==
  /\ client.pc = "look" /\ client.left > 0 /\ pane = "app"
  /\ client' = [client EXCEPT !.pc = "in", !.on = "none"]
  /\ UnchangedPage /\ UNCHANGED typed

Fail ==
  /\ client' = [client EXCEPT !.pc = "failed", !.on = "none"]
  /\ UnchangedPage /\ UNCHANGED typed

DeadlinePasses == client.pc = "look" /\ client.left = 0 /\ Fail

\* Mutant: what Entra says went wrong is not looked at.
SeesErrorNever == FALSE

\* _raise_on_page_error.
SeesError == error

Rejected == Looking /\ SeesError /\ Fail

\* A field that is the active one is filled, and read back.
SeeField ==
  /\ Looking /\ ~ SeesError /\ pane \in Fields
  /\ Proceed("fill", pane)
  /\ UnchangedPage /\ UNCHANGED typed

\* _fill_verified: the value stuck, or it did not and the loop comes round again.
\* All panes stay in the DOM, so filling succeeds on one that has just gone.
FillVerified ==
  /\ client.pc = "fill"
  /\ \E pc \in {"click", "pause"} : client' = [client EXCEPT !.pc = pc]
  /\ UnchangedPage /\ UNCHANGED typed

\* A click on the primary button, which belongs to the pane that is on screen.
Press(next) ==
  /\ sent' = IF sent = "none" /\ pane \in Panes \ {"unknown"} THEN pane ELSE sent
  /\ lag' = IF sent = "none" THEN 0 ELSE lag
  /\ typed' = [typed EXCEPT
       !.wrong = @ \/ pane # client.on,
       !.again = @ \/ (client.on = "password" /\ typed.rejected),
       !.twice = @ \/ sent # "none"]
  /\ client' = [client EXCEPT !.pc = next, !.waited = 0]
  /\ UNCHANGED <<pane, error>>

\* Mutant: the loop goes on without waiting for the pane to go.
ClickNoWait == client.pc = "click" /\ Press("pause")

Click == client.pc = "click" /\ Press("await")

\* Tiles and the method picker are answered by clicking the option itself, and the
\* stay-signed-in prompt by its own button: none of them waits for more than a moment
\* except the picker.  (_await_inactive on the tiles asks for a focusable element,
\* which their container never is, and returns at once.)
Option ==
  /\ Looking /\ ~ SeesError /\ pane \in {"tiles", "method", "kmsi"}
  /\ sent' = pane
  /\ lag' = IF sent = "none" THEN 0 ELSE lag
  /\ Proceed(IF pane = "method" THEN "await" ELSE "pause", pane)
  /\ typed' = [typed EXCEPT !.twice = @ \/ sent # "none"]
  /\ UNCHANGED <<pane, error>>

\* A picker without the code option.
NoCodeOption == Looking /\ ~ SeesError /\ pane = "method" /\ Fail

\* _await_inactive: the pane has gone, or the wait is over.
AwaitEnds ==
  /\ client.pc = "await"
  /\ pane # client.on \/ client.waited = Await
  /\ Proceed("look", "none")
  /\ UnchangedPage /\ UNCHANGED typed

PauseEnds ==
  /\ client.pc = "pause"
  /\ client' = [client EXCEPT !.pc = "look", !.on = "none",
                              !.quiet = IF client.on = "none" THEN @ ELSE 0]
  /\ UnchangedPage /\ UNCHANGED typed

\* Nothing it knows is on screen.
SeeNothing ==
  /\ Looking /\ ~ SeesError /\ pane = "unknown"
  /\ client' = [client EXCEPT !.pc = IF client.quiet > STALL_SECONDS THEN "failed" ELSE "pause"]
  /\ UnchangedPage /\ UNCHANGED typed

-----------------------------------------------------------------------------
NewClient(pc) ==
  [pc |-> pc, on |-> "none", waited |-> 0, left |-> Deadline, quiet |-> 0]

SignInInit ==
  /\ pane \in {"tiles", "email", "password", "totp"}
  /\ error = FALSE /\ sent = "none" /\ lag = 0
  /\ client = NewClient("look")
  /\ typed = [wrong |-> FALSE, rejected |-> FALSE, again |-> FALSE, twice |-> FALSE]

Entra == Land \/ Tick

SignIn ==
  \/ Left \/ DeadlinePasses \/ Rejected \/ SeeField \/ FillVerified \/ Click
  \/ Option \/ NoCodeOption \/ AwaitEnds \/ PauseEnds \/ SeeNothing

SignInSpec == SignInInit /\ [][Entra \/ SignIn]_signInVars

-----------------------------------------------------------------------------
(* Properties *)

\* A click submits the field that was just filled and read back, never the empty
\* one of the next pane ("By then that button belongs to the next pane, which is
\* how an empty password gets submitted", _await_inactive).
SubmitIsForThisPane == ~ typed.wrong

\* A password that Entra rejected is not typed a second time: the account would
\* be locked.
RejectedPasswordEndsSignIn == ~ typed.again

\* A pane is answered once ("Each step waits for its own control to go inactive
\* before the next pass", sign_in).
PaneAnsweredOnce == ~ typed.twice

=============================================================================
