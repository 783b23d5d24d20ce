------------------------- MODULE EntraSignInProofs -------------------------
(***************************************************************************)
(* The sign-in loop submits what it typed and nothing else, for every      *)
(* timing of Entra in which a click is answered before the client stops    *)
(* waiting for it, and every deadline.                                     *)
(***************************************************************************)
EXTENDS EntraSignIn, TLAPS

\* An answered click is on its way only for the pane that is still on screen.
ClickIsForThePane == sent # "none" => pane = sent

\* While the loop looks at a field, fills it or is about to click, Entra has
\* nothing of it to answer, so the pane cannot change under the loop.
NothingIsComing == client.pc # "await" /\ pane \in Fields => sent = "none"

FilledIsOnScreen ==
  client.pc \in {"fill", "click"} => client.on \in Fields /\ pane = client.on

\* The wait for a pane has not been longer than Entra has been working on it.
WaitIsForTheClick ==
  client.pc = "await" /\ sent # "none" => sent = client.on /\ client.waited <= lag

\* Once Entra has rejected the password, its error stays on screen and the loop
\* can only wait for it, see it and fail.
RejectionIsSeen ==
  typed.rejected =>
    error /\ pane = "password" /\ sent = "none" /\ client.pc \in {"await", "look", "failed"}

OrderOfPanes ==
  ClickIsForThePane /\ NothingIsComing /\ FilledIsOnScreen /\ WaitIsForTheClick

SignInInv ==
  /\ SignInTypeOK
  /\ OrderOfPanes
  /\ RejectionIsSeen
  /\ SubmitIsForThisPane /\ RejectedPasswordEndsSignIn

-----------------------------------------------------------------------------
\* The assumption, clock by clock.
LEMMA Clocks ==
  /\ Await \in Nat /\ STALL_SECONDS \in Nat /\ Deadline \in Nat /\ MaxLag \in Nat
  /\ MaxLag < Await
BY SignInAssumption DEF SignInAssumption

\* Every clock may stand at its start.
LEMMA Zero ==
  /\ 0 \in 0 .. Await /\ 0 \in 0 .. MaxLag
  /\ 0 \in 0 .. STALL_SECONDS + 1 /\ Deadline \in 0 .. Deadline
BY Clocks

\* The loop begins with nothing sent and nothing rejected.
LEMMA SignInInvInit == SignInInit => SignInInv
<1> SUFFICES ASSUME SignInInit PROVE SignInInv
  OBVIOUS
<1>1. PageTypeOK
  <2>1. pane \in Panes \union {"app"}
    BY DEF SignInInit, Panes, Fields
  <2>2. error = FALSE /\ sent = "none" /\ lag = 0
    BY DEF SignInInit
  <2>3. error \in BOOLEAN
    BY <2>2
  <2> QED
    BY <2>1, <2>2, <2>3, Zero DEF PageTypeOK
<1>2. client \in Clients
  BY Zero DEF SignInInit, NewClient, Clients, LoopPcs
<1>3. typed \in Histories
  BY DEF SignInInit, Histories
<1>4. client.pc = "look" /\ ~ typed.wrong /\ ~ typed.rejected /\ ~ typed.again /\ sent = "none"
  BY DEF SignInInit, NewClient
<1> QED
  BY <1>1, <1>2, <1>3, <1>4
     DEF SignInInv, SignInTypeOK, OrderOfPanes, ClickIsForThePane, NothingIsComing,
         FilledIsOnScreen, WaitIsForTheClick, RejectionIsSeen, SubmitIsForThisPane,
         RejectedPasswordEndsSignIn

-----------------------------------------------------------------------------
(* Types *)

\* Entra shows one of its panes and answers within MaxLag.
LEMMA LandKeepsTypes == SignInTypeOK /\ Land => SignInTypeOK'
<1> SUFFICES ASSUME SignInTypeOK, Land PROVE SignInTypeOK'
  OBVIOUS
<1>1. client' \in Clients
  BY DEF Land, SignInTypeOK
<1>2. typed' \in Histories
  BY DEF Land, SignInTypeOK, Histories
<1>3. pane' \in Panes \union {"app"}
  <2>1. sent \in {"tiles", "email", "password", "method", "totp", "kmsi"}
    BY DEF Land, SignInTypeOK, PageTypeOK, Panes, Fields
  <2>2. Follows(sent) \subseteq Panes \union {"app"}
    BY <2>1 DEF Follows, Panes, Fields
  <2>3. "unknown" \in Panes /\ pane \in Panes \union {"app"}
    BY DEF Panes, SignInTypeOK, PageTypeOK
  <2> QED
    BY <2>2, <2>3 DEF Land
<1>4. error' \in BOOLEAN /\ sent' = "none" /\ lag' = 0
  BY DEF Land
<1> QED
  BY <1>1, <1>2, <1>3, <1>4, Clocks DEF SignInTypeOK, PageTypeOK

\* Time does not run a clock over its end.
LEMMA TickKeepsTypes == SignInTypeOK /\ Tick => SignInTypeOK'
<1> SUFFICES ASSUME SignInTypeOK, Tick PROVE SignInTypeOK'
  OBVIOUS
<1>1. client.left - 1 \in 0 .. Deadline
  BY Clocks DEF Tick, SignInTypeOK, Clients
<1>2. (IF client.pc = "await" THEN client.waited + 1 ELSE client.waited) \in 0 .. Await
  BY Clocks DEF Tick, SignInTypeOK, Clients
<1>3. (IF client.quiet <= STALL_SECONDS THEN client.quiet + 1 ELSE client.quiet)
        \in 0 .. STALL_SECONDS + 1
  BY Clocks DEF SignInTypeOK, Clients
<1>4. client' \in Clients
  BY <1>1, <1>2, <1>3 DEF Tick, SignInTypeOK, Clients
<1>5. lag' \in 0 .. MaxLag /\ (sent = "none" => lag' = 0)
  BY Clocks DEF Tick, SignInTypeOK, PageTypeOK
<1> QED
  BY <1>4, <1>5 DEF Tick, SignInTypeOK, PageTypeOK

\* The loop stays at one of its places; a click puts the pane on screen in Entra's hands.
LEMMA LoopKeepsTypes == SignInTypeOK /\ SignIn => SignInTypeOK'
<1> SUFFICES ASSUME SignInTypeOK, SignIn PROVE SignInTypeOK'
  OBVIOUS
<1>t. client \in Clients /\ typed \in Histories
  BY DEF SignInTypeOK
<1>p. UnchangedPage => PageTypeOK'
  BY DEF UnchangedPage, SignInTypeOK, PageTypeOK
<1>m. Fields \subseteq Panes /\ {"tiles", "method", "kmsi"} \subseteq Panes \ {"unknown"}
  BY DEF Fields, Panes
<1>l. {"look", "fill", "click", "await", "pause", "in", "failed"} = LoopPcs
  BY DEF LoopPcs
<1>1. CASE Left
  <2>1. client' \in Clients
    BY <1>1, <1>t, <1>l, Zero DEF Clients, Left
  <2> QED
    BY <1>1, <1>t, <1>p, <2>1 DEF Left, SignInTypeOK
<1>f. Fail => SignInTypeOK'
  <2>1. Fail => client' \in Clients
    BY <1>t, <1>l, Zero DEF Clients, Fail
  <2> QED
    BY <1>t, <1>p, <2>1 DEF Fail, SignInTypeOK
<1>2. CASE DeadlinePasses \/ Rejected \/ NoCodeOption
  BY <1>2, <1>f DEF DeadlinePasses, Rejected, NoCodeOption
<1>3. CASE SeeField
  <2>1. client' \in Clients
    BY <1>3, <1>t, <1>m, <1>l, Zero DEF Clients, SeeField, Proceed
  <2> QED
    BY <1>3, <1>t, <1>p, <2>1 DEF SeeField, SignInTypeOK
<1>4. CASE FillVerified
  <2>1. client' \in Clients
    BY <1>4, <1>t, <1>l, Zero DEF Clients, FillVerified
  <2> QED
    BY <1>4, <1>t, <1>p, <2>1 DEF FillVerified, SignInTypeOK
<1>5. CASE Click
  <2>1. client' \in Clients
    BY <1>5, <1>t, <1>l, Zero DEF Clients, Click, Press
  <2>2. typed' \in Histories
    BY <1>5, <1>t DEF Click, Press, Histories
  <2>3. PageTypeOK'
    BY <1>5, Zero DEF Click, Press, SignInTypeOK, PageTypeOK
  <2> QED
    BY <2>1, <2>2, <2>3 DEF SignInTypeOK
<1>6. CASE Option
  <2>1. client' \in Clients
    BY <1>6, <1>t, <1>m, <1>l, Zero DEF Clients, Option, Proceed
  <2>2. typed' \in Histories
    BY <1>6, <1>t DEF Option, Histories
  <2>3. PageTypeOK'
    BY <1>6, <1>m, Zero DEF Option, SignInTypeOK, PageTypeOK
  <2> QED
    BY <2>1, <2>2, <2>3 DEF SignInTypeOK
<1>7. CASE AwaitEnds
  <2>1. client' \in Clients
    BY <1>7, <1>t, <1>l, Zero DEF Clients, AwaitEnds, Proceed
  <2> QED
    BY <1>7, <1>t, <1>p, <2>1 DEF AwaitEnds, SignInTypeOK
<1>8. CASE PauseEnds
  <2>1. (IF client.on = "none" THEN client.quiet ELSE 0) \in 0 .. STALL_SECONDS + 1
    BY <1>t, Zero DEF Clients
  <2>2. client' \in Clients
    BY <1>8, <1>t, <1>l, <2>1 DEF Clients, PauseEnds
  <2> QED
    BY <1>8, <1>t, <1>p, <2>2 DEF PauseEnds, SignInTypeOK
<1>9. CASE SeeNothing
  <2>1. (IF client.quiet > STALL_SECONDS THEN "failed" ELSE "pause") \in LoopPcs
    BY <1>l
  <2>2. client' \in Clients
    BY <1>9, <1>t, <2>1 DEF Clients, SeeNothing
  <2> QED
    BY <1>9, <1>t, <1>p, <2>2 DEF SeeNothing, SignInTypeOK
<1> QED
  BY <1>1, <1>2, <1>3, <1>4, <1>5, <1>6, <1>7, <1>8, <1>9 DEF SignIn

-----------------------------------------------------------------------------
(* The order of the panes *)

\* Entra changes the pane only while the loop waits for it to.
LEMMA EntraKeepsInv == SignInInv /\ Entra => SignInInv'
<1> SUFFICES ASSUME SignInInv, Entra PROVE SignInInv'
  OBVIOUS
<1>1. CASE Land
  <2>1. SignInTypeOK'
    BY <1>1, LandKeepsTypes DEF SignInInv
  <2>2. /\ client' = client /\ sent' = "none" /\ sent = pane
        /\ typed'.wrong = typed.wrong /\ typed'.again = typed.again
    BY <1>1 DEF Land, SignInInv, SignInTypeOK, Histories, OrderOfPanes, ClickIsForThePane
  <2>3. sent \in Fields => client.pc = "await"
    BY <1>1, <2>2 DEF SignInInv, OrderOfPanes, NothingIsComing, Land
  <2>4. OrderOfPanes'
    BY <1>1, <2>2, <2>3
       DEF Land, SignInInv, OrderOfPanes, ClickIsForThePane, NothingIsComing,
           FilledIsOnScreen, WaitIsForTheClick
  <2>5. RejectionIsSeen'
    BY <1>1, <2>2, <2>3
       DEF Land, SignInInv, SignInTypeOK, Histories, RejectionIsSeen, Fields
  <2>6. SubmitIsForThisPane' /\ RejectedPasswordEndsSignIn'
    BY <2>2 DEF SignInInv, SubmitIsForThisPane, RejectedPasswordEndsSignIn
  <2> QED
    BY <2>1, <2>4, <2>5, <2>6 DEF SignInInv
<1>2. CASE Tick
  <2>1. SignInTypeOK'
    BY <1>2, TickKeepsTypes DEF SignInInv
  <2>2. /\ client'.pc = client.pc /\ client'.on = client.on
        /\ client.pc = "await" => client'.waited = client.waited + 1
        /\ sent # "none" => lag' = lag + 1
        /\ pane' = pane /\ error' = error /\ sent' = sent /\ typed' = typed
    BY <1>2 DEF Tick, SignInInv, SignInTypeOK, Clients
  <2>3. client.waited \in Nat /\ lag \in Nat
    BY Clocks DEF SignInInv, SignInTypeOK, Clients, PageTypeOK
  <2>4. OrderOfPanes'
    BY <2>2, <2>3
       DEF SignInInv, OrderOfPanes, ClickIsForThePane, NothingIsComing, FilledIsOnScreen,
           WaitIsForTheClick
  <2> QED
    BY <2>1, <2>2, <2>4
       DEF SignInInv, RejectionIsSeen, SubmitIsForThisPane, RejectedPasswordEndsSignIn
<1> QED
  BY <1>1, <1>2 DEF Entra

\* A step of the loop that neither clicks nor begins with a field leaves the page and
\* the history alone, and goes to a place from which nothing is submitted.
LEMMA QuietStepKeepsInv ==
  ASSUME SignInInv, SignInTypeOK', UnchangedPage, UNCHANGED typed,
         client'.pc \notin {"fill", "click", "await"},
         client.pc = "await" => sent = "none",
         typed.rejected => client'.pc \in {"look", "failed"}
  PROVE  SignInInv'
BY DEF SignInInv, UnchangedPage, OrderOfPanes, ClickIsForThePane, NothingIsComing,
       FilledIsOnScreen, WaitIsForTheClick, RejectionIsSeen, SubmitIsForThisPane,
       RejectedPasswordEndsSignIn

\* One pass of the loop.
LEMMA LoopKeepsInv == SignInInv /\ SignIn => SignInInv'
<1> SUFFICES ASSUME SignInInv, SignIn PROVE SignInInv'
  OBVIOUS
<1>0. SignInTypeOK'
  BY LoopKeepsTypes DEF SignInInv
<1>t. client \in Clients
  BY DEF SignInInv, SignInTypeOK
<1>r. typed.rejected => error /\ pane = "password" /\ sent = "none"
                        /\ client.pc \in {"await", "look", "failed"}
  BY DEF SignInInv, RejectionIsSeen
<1>1. CASE Left
  BY <1>0, <1>t, <1>r, <1>1, QuietStepKeepsInv DEF Left, Clients
<1>2. CASE DeadlinePasses
  BY <1>0, <1>t, <1>2, QuietStepKeepsInv DEF DeadlinePasses, Fail, Clients
<1>3. CASE Rejected
  BY <1>0, <1>t, <1>3, QuietStepKeepsInv DEF Rejected, Looking, Fail, Clients
<1>4. CASE SeeField
  <2>1. client'.pc = "fill" /\ client'.on = pane /\ pane \in Fields /\ client.pc = "look" /\ ~ error
    BY <1>t, <1>4 DEF SeeField, Looking, SeesError, Proceed, Clients
  <2>2. pane' = pane /\ sent' = sent /\ typed' = typed /\ ~ typed.rejected
    BY <1>4, <1>r, <2>1 DEF SeeField, UnchangedPage
  <2> QED
    BY <1>0, <2>1, <2>2
       DEF SignInInv, OrderOfPanes, ClickIsForThePane, NothingIsComing, FilledIsOnScreen,
           WaitIsForTheClick, RejectionIsSeen, SubmitIsForThisPane, RejectedPasswordEndsSignIn
<1>5. CASE FillVerified
  <2>1. client'.pc \in {"click", "pause"} /\ client'.on = client.on /\ client.pc = "fill"
    BY <1>t, <1>5 DEF FillVerified, Clients
  <2>2. pane' = pane /\ sent' = sent /\ typed' = typed /\ ~ typed.rejected
    BY <1>5, <1>r, <2>1 DEF FillVerified, UnchangedPage
  <2> QED
    BY <1>0, <2>1, <2>2
       DEF SignInInv, OrderOfPanes, ClickIsForThePane, NothingIsComing, FilledIsOnScreen,
           WaitIsForTheClick, RejectionIsSeen, SubmitIsForThisPane, RejectedPasswordEndsSignIn
<1>6. CASE Click
  <2>1. client.pc = "click" /\ pane = client.on /\ pane \in Fields /\ sent = "none" /\ ~ typed.rejected
    BY <1>6, <1>r
       DEF Click, SignInInv, OrderOfPanes, FilledIsOnScreen, NothingIsComing
  <2>2. sent' = pane /\ pane' = pane /\ lag' = 0
    BY <1>6, <2>1 DEF Click, Press, Panes, Fields
  <2>3. client'.pc = "await" /\ client'.on = client.on /\ client'.waited = 0
    BY <1>t, <1>6 DEF Click, Press, Clients
  <2>4. typed'.wrong = typed.wrong /\ typed'.again = typed.again /\ typed'.rejected = typed.rejected
    <3>1. typed \in Histories
      BY DEF SignInInv, SignInTypeOK
    <3>2. typed'.rejected = typed.rejected
      BY <1>6, <3>1 DEF Click, Press, Histories
    <3>3. typed'.wrong = (typed.wrong \/ pane # client.on)
      BY <1>6, <3>1 DEF Click, Press, Histories
    <3>4. typed'.again = (typed.again \/ (client.on = "password" /\ typed.rejected))
      BY <1>6, <3>1 DEF Click, Press, Histories
    <3> QED
      BY <2>1, <3>1, <3>2, <3>3, <3>4 DEF Histories
  <2>5. OrderOfPanes'
    BY <2>1, <2>2, <2>3
       DEF OrderOfPanes, ClickIsForThePane, NothingIsComing, FilledIsOnScreen, WaitIsForTheClick
  <2>6. RejectionIsSeen' /\ SubmitIsForThisPane' /\ RejectedPasswordEndsSignIn'
    BY <2>1, <2>4
       DEF SignInInv, RejectionIsSeen, SubmitIsForThisPane, RejectedPasswordEndsSignIn
  <2> QED
    BY <1>0, <2>5, <2>6 DEF SignInInv
<1>7. CASE Option
  <2>1. client.pc = "look" /\ pane \in {"tiles", "method", "kmsi"} /\ ~ typed.rejected
    BY <1>7, <1>r DEF Option, Looking
  <2>2. sent' = pane /\ pane' = pane /\ lag' = (IF sent = "none" THEN 0 ELSE lag)
    BY <1>7 DEF Option
  <2>3. client'.pc \in {"await", "pause"} /\ client'.on = pane /\ client'.waited = 0
    BY <1>t, <1>7 DEF Option, Proceed, Clients
  <2>4. typed'.wrong = typed.wrong /\ typed'.again = typed.again /\ typed'.rejected = typed.rejected
    BY <1>7 DEF Option, SignInInv, SignInTypeOK, Histories
  <2>5. lag' \in Nat /\ pane \notin Fields
    BY <2>1, <2>2, Clocks DEF SignInInv, SignInTypeOK, PageTypeOK, Fields
  <2>6. OrderOfPanes'
    BY <2>2, <2>3, <2>5
       DEF OrderOfPanes, ClickIsForThePane, NothingIsComing, FilledIsOnScreen, WaitIsForTheClick
  <2>7. RejectionIsSeen' /\ SubmitIsForThisPane' /\ RejectedPasswordEndsSignIn'
    BY <2>1, <2>4
       DEF SignInInv, RejectionIsSeen, SubmitIsForThisPane, RejectedPasswordEndsSignIn
  <2> QED
    BY <1>0, <2>6, <2>7 DEF SignInInv
<1>8. CASE NoCodeOption
  BY <1>0, <1>t, <1>8, QuietStepKeepsInv DEF NoCodeOption, Looking, Fail, Clients
<1>9. CASE AwaitEnds
  <2>1. client.pc = "await" /\ client'.pc = "look"
    BY <1>t, <1>9 DEF AwaitEnds, Proceed, Clients
  <2>2. sent = "none"
    BY <1>t, <1>9, Clocks
       DEF AwaitEnds, SignInInv, SignInTypeOK, PageTypeOK, OrderOfPanes, ClickIsForThePane,
           WaitIsForTheClick, Clients
  <2> QED
    BY <1>0, <1>9, <2>1, <2>2, QuietStepKeepsInv DEF AwaitEnds
<1>10. CASE PauseEnds
  BY <1>0, <1>t, <1>r, <1>10, QuietStepKeepsInv DEF PauseEnds, Clients
<1>11. CASE SeeNothing
  BY <1>0, <1>t, <1>r, <1>11, QuietStepKeepsInv DEF SeeNothing, Looking, Clients
<1> QED
  BY <1>1, <1>2, <1>3, <1>4, <1>5, <1>6, <1>7, <1>8, <1>9, <1>10, <1>11 DEF SignIn

-----------------------------------------------------------------------------
\* The invariant of the loop and of Entra together.
THEOREM SignInCorrect == SignInSpec => []SignInInv
<1>1. SignInInv /\ UNCHANGED signInVars => SignInInv'
  BY DEF SignInInv, OrderOfPanes, ClickIsForThePane, NothingIsComing, FilledIsOnScreen,
         WaitIsForTheClick, RejectionIsSeen, SubmitIsForThisPane, RejectedPasswordEndsSignIn,
         SignInTypeOK, PageTypeOK, signInVars
<1> QED
  BY SignInInvInit, EntraKeepsInv, LoopKeepsInv, <1>1, PTL DEF SignInSpec

\* No click submits the empty field of the next pane, whatever Entra's timing.
THEOREM SubmitsWhatWasTyped == SignInSpec => []SubmitIsForThisPane
BY SignInCorrect, PTL DEF SignInInv

\* A password that Entra rejected is not typed again in the same sign-in.
THEOREM PasswordTypedOnce == SignInSpec => []RejectedPasswordEndsSignIn
BY SignInCorrect, PTL DEF SignInInv

=============================================================================
