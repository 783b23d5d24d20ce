----------------------------- MODULE ClaimCycle -----------------------------
(***************************************************************************)
(* The claim cycle: the build and the submit job, the Slack handlers, the  *)
(* nightly classification and the person behind them, over one ledger and  *)
(* one AFAS.                                                               *)
(***************************************************************************)
EXTENDS Build, Submit, Slackd

Init ==
  /\ claimDay \in InitialDays
  /\ submission = [k \in Keys |-> <<>>]
  /\ approving = {}
  /\ tasks = {}
  /\ cards = {}
  /\ lock = NoOne
  /\ build = IdleBuild
  /\ submit = IdleSubmit
  /\ dryRun \in BOOLEAN
  /\ budget = [change |-> MaxChanges, crash |-> MaxCrashes, fault |-> MaxFaults,
               hand |-> MaxHandEdits, flip |-> MaxFlips]
  /\ history = [approved |-> {}, decision |-> [k \in Keys |-> "none"],
                clicks |-> [k \in Keys |-> 0], filed |-> {}]

-----------------------------------------------------------------------------
(* AFAS outside the app.  Nothing of this is in src/: it is what the guards *)
(* of _build_one, _settle and _file and the alerts they raise allow for.    *)

Outside == UNCHANGED <<ledgerVars, cards, lock, build, submit, dryRun>>

\* The alerts ask for this: the person deletes an open draft.
DeleteDraft(x) ==
  /\ x.status = "draft"
  /\ tasks' = tasks \ {x}
  /\ UNCHANGED history

\* The person files an open draft in InSite.
FileByHand(x) ==
  /\ x.status = "draft"
  /\ Lands(x, "hand")
  /\ history' = [history EXCEPT !.filed = @ \union ({x.type} \X x.days)]

\* The person adds a line to an open draft or takes one away.
EditDraft(x, D) ==
  /\ x.status = "draft" /\ D # x.days /\ D # {}
  /\ tasks' = (tasks \ {x}) \union {[x EXCEPT !.days = D]}
  /\ UNCHANGED history

\* The manager sends a filed declaration back.
ManagerRejects(x) ==
  /\ x.status = "filed"
  /\ tasks' = (tasks \ {x}) \union {[x EXCEPT !.status = "other"]}
  /\ UNCHANGED history

DraftByHand(t, D) ==
  /\ D # {}
  /\ AddTask(t, D, "draft")
  /\ UNCHANGED history

\* HandEdits says which of these a run lets happen.
HandStep ==
  /\ Spend("hand")
  /\ Outside
  /\ \/ "delete" \in HandEdits /\ \E x \in tasks : DeleteDraft(x)
     \/ "file" \in HandEdits /\ \E x \in tasks : FileByHand(x)
     \/ "edit" \in HandEdits /\ \E x \in tasks, D \in SUBSET Days : EditDraft(x, D)
     \/ "reject" \in HandEdits /\ \E x \in tasks : ManagerRejects(x)
     \/ "create" \in HandEdits /\ \E t \in ClaimTypes, D \in SUBSET Days : DraftByHand(t, D)

\* DRY_RUN is changed in the deployment; a running job keeps what it read.
Flip ==
  /\ Spend("flip")
  /\ dryRun' = ~ dryRun
  /\ UNCHANGED <<ledgerVars, tasks, cards, lock, build, submit, history>>

-----------------------------------------------------------------------------

Next == BuildNext \/ SubmitNext \/ SlackdNext \/ HandStep \/ Flip

Spec == Init /\ [][Next]_vars

\* The CronJobs start build and submit every day they have work, and a running job
\* goes on.  They start an hour apart with a deadline shorter than that, so a job
\* that keeps asking for the lock sometimes finds it free, and then takes it.
\* Nobody is obliged to decide, correct or edit anything, and crashes and faults
\* never have to happen.
Fairness ==
  /\ WF_vars(BuildPlan) /\ WF_vars(BuildStep)
  /\ WF_vars(SubmitSelect) /\ WF_vars(SubmitStep)
  /\ []<>(build.pc = "planned") => []<>(build.pc = "planned" /\ lock = NoOne)
  /\ []<>(submit.pc = "lock") => []<>(submit.pc = "lock" /\ lock = NoOne)
  /\ SF_vars(lock = NoOne /\ BuildLock)
  /\ SF_vars(lock = NoOne /\ SubmitLock)

FairSpec == Spec /\ Fairness

\* A person who, sooner or later, approves the card that holds.
SomeoneApproves ==
  \A k \in Keys :
    /\ WF_vars(\E c \in cards : c.key = k /\ ApproveCompare(c))
    /\ WF_vars(\E a \in approving : a.key = k /\ ApproveUpdate(a))

-----------------------------------------------------------------------------
(* Properties *)

\* The cycle uses the ledger as LedgerSpec allows: its store calls, in the
\* order the jobs and handlers make them, implement the ledger's promises.
LedgerContract == INSTANCE LedgerSpec
ImplementsLedger == LedgerContract!Spec

\* A declaration the app filed holds exactly the days of a card a person
\* approved (approve_submission's digest, _still_as_approved and the draft
\* comparison of _file, together).
FiledWasApproved ==
  \A x \in tasks : x.filedBy = "app" =>
    \E a \in history.approved : a.key.type = x.type /\ a.digest = x.days

\* What is about to be filed is what was approved: the days _file compared with AFAS
\* are those of the row's digest ("AFAS must show exactly the approved days",
\* docs/architecture.md, the fourth gate).
ClickIsForApprovedDays ==
  submit.pc = "click" => submit.days = Latest(submission[SubmitKey]).digest

\* An approval is for the days on the card that was clicked: the row it approves
\* has the digest of those days ("an approval must never be replayable against a
\* changed claim", approve_submission).
ApprovalIsForTheCard ==
  \A k \in Keys : StateOf(submission[k]) = "approved" =>
    [key |-> k, digest |-> Latest(submission[k]).digest] \in history.approved

\* One approval is good for one click: after a click that may not have landed,
\* nothing is clicked again before a person approves again ("Reads, never
\* clicks", _settle).
OneClickPerApproval == \A k \in Keys : history.clicks[k] <= 1

\* Between the click and the end of its row the ledger says so: no approval,
\* rejection or build hides it ("Written BEFORE the click", _file;
\* reject_submission).  It says submitted when a build read the day filed while
\* this run waited for the lock and closed the round.
ClickIsWrittenAhead ==
  submit.pc \in {"click", "verify"} =>
    StateOf(submission[SubmitKey]) \in {"in_flight", "submitted"}

\* A run that dies at its click leaves a row that the next run settles ("the next
\* run has to find out from AFAS what happened", _file).
ClickIsInFlight ==
  submit.pc \in {"click", "verify"} => StateOf(submission[SubmitKey]) = "in_flight"

\* No day is on two declarations of the app, of one claim type or of both
\* (Art. 31a lid 12: commute and home are mutually exclusive per day).
DayClaimedOnce ==
  \A x, y \in tasks : x.id # y.id => x.days \intersect y.days = {}

\* At most one draft of a claim type is open: the task list cannot tell two
\* apart (the queue in _build_one, AmbiguousAction in open_task_for).
OneOpenDraftPerType == \A t \in ClaimTypes : Cardinality(OpenDrafts(t)) <= 1

\* A day the ledger calls submitted was filed in AFAS at some time.
SubmittedDayWasFiled ==
  \A d \in Days : claimDay[d].state = "submitted" =>
    \E t \in ClaimTypes : <<t, d>> \in history.filed

\* A filed day is in the ledger as what was filed ("the ledger must keep saying
\* what was filed", record_day).
LedgerSaysWhatWasFiled ==
  \A d \in Days : claimDay[d].state = "submitted" =>
    <<claimDay[d].type, d>> \in history.filed

\* A round is called submitted only when AFAS has shown lines of it filed
\* ("Success means AFAS shows it, not that a click worked", _file).
SubmittedRoundWasFiled ==
  \A k \in Keys : \A i \in 1 .. Len(submission[k]) :
    submission[k][i].state = "submitted" =>
      \E d \in Days : PeriodOf[d] = k.period /\ <<k.type, d>> \in history.filed

\* After a rejection nothing is filed ("Er wordt niets ingediend", handle_reject)
\* before a person approves again.
RejectionStands ==
  submit.pc = "click" => history.decision[SubmitKey] # "rejected"

\* A dry run puts an approval back to a rehearsal, and after that nothing is
\* clicked before a person decides again, however DRY_RUN is flipped ("Going live
\* again posts a new card", cmd_submit; "a decision on one must not outlive the
\* flip to live", approval_card).
RehearsalUndoesApproval ==
  submit.pc = "click" => ~ submit.dry /\ history.decision[SubmitKey] # "none"

\* While a row waits on a person with the days the ledger now claims, `build'
\* leaves it alone, so a card with buttons must be out ("A card is out and the
\* next move is a human's", _WAITING_STATES).
WaitingHasCard ==
  \A k \in Keys :
    /\ build.pc = "idle" /\ submit.pc = "idle" /\ approving = {}
    /\ StateOf(submission[k]) = "awaiting_approval"
    /\ DigestIs(submission[k], ClaimableDays(claimDay, k))
    => \E c \in cards : c.key = k

\* One form that fails does not cost the claims after it in the run theirs
\* ("One broken form must not cost the other claim type its month", cmd_build).
FailureStaysWithItem == ~ build.broken

\* A click whose outcome is unknown does not stay unknown: some later submit run
\* reads AFAS and moves the row on (_settle).
UnsettledIsSettled ==
  \A k \in Keys : StateOf(submission[k]) \in UnsettledStates
                 ~> StateOf(submission[k]) \notin UnsettledStates

\* An open draft of this type with a line outside the claim: _file leaves the
\* approval standing and asks the person to deal with the draft.
Blocked(k) == \E x \in OpenDrafts(k.type) : ~ x.days \subseteq ClaimableDays(claimDay, k)

\* An approval that nothing blocks does not stand for ever: it is filed, refused or
\* put back ("Left standing, build would skip this row and nothing could ever
\* move it", _file).
ApprovedIsDecided ==
  \A k \in Keys : StateOf(submission[k]) = "approved" /\ ~ Blocked(k)
                 ~> StateOf(submission[k]) # "approved" \/ Blocked(k)

\* With a person who approves, every claim is filed in the end, months that wait
\* behind another draft included, unless one is rejected, whose draft then blocks
\* the others until a person removes it, or runs are dry ("the next submit sends
\* it, and the build after that drafts this month", docs/architecture.md).
MonthIsFiled ==
  SomeoneApproves =>
    \A k \in Keys : ClaimableDays(claimDay, k) # {}
      ~> \/ ClaimableDays(claimDay, k) = {}
         \/ \E j \in Keys : history.decision[j] = "rejected"
         \/ dryRun

=============================================================================
