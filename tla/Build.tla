------------------------------- MODULE Build --------------------------------
(***************************************************************************)
(* The build job: cli.cmd_build, _plan_build and _build_one.  One action   *)
(* per commit to the ledger, read of AFAS, click in AFAS and post in Slack. *)
(* Between two actions anything else may run.                              *)
(***************************************************************************)
EXTENDS ClaimState

BuildKey == First(DOMAIN build.work)

\* The days the item is about, once AFAS has been read.
Todo == build.pos.draft \union build.pos.absent

\* Mutant: a failed row waits as if a person had it.
WaitingStatesFailed == {"awaiting_approval", "approved", "rejected", "failed"}

\* An approval card is no longer needed when the digest is the one on it.
WaitingStates == {"awaiting_approval", "approved", "rejected"}
UnsettledStates == {"in_flight", "needs_reconciliation"}

\* _plan_build: does this period and type need a browser today?
NeedsBuild(k, dry) ==
  LET days == ClaimableDays(claimDay, k)
      state == StateOf(submission[k])
  IN  /\ days # {}
      /\ state \notin UnsettledStates
      /\ ~ /\ DigestIs(submission[k], days)
           /\ state \in WaitingStates \/ (state = "drafted" /\ dry)

\* The plan is made from the ledger before the lock is asked for.
BuildPlan ==
  LET todo == {k \in Keys : NeedsBuild(k, dryRun)}
  IN  /\ build.pc = "idle"
      /\ todo # {}
      /\ build' = [IdleBuild EXCEPT !.pc = "planned", !.dry = dryRun,
                     !.work = [k \in todo |-> ClaimableDays(claimDay, k)]]
      /\ UNCHANGED <<ledgerVars, tasks, cards, lock, submit, dryRun, budget, history>>

\* browser_lock never waits: a job that does not get it gives up.
BuildLock ==
  /\ build.pc = "planned"
  /\ IF lock = NoOne
     THEN lock' = "build" /\ build' = [build EXCEPT !.pc = "read"]
     ELSE build' = IdleBuild /\ UNCHANGED lock
  /\ UNCHANGED <<ledgerVars, tasks, cards, submit, dryRun, budget, history>>

\* The item is over, done or given up: the next one, or the end of the run.
EndItem(broken) ==
  LET rest == DOMAIN build.work \ {BuildKey}
  IN  IF rest = {}
      THEN build' = IdleBuild /\ lock' = NoOne
      ELSE /\ build' = [build EXCEPT !.pc = "read", !.broken = broken, !.pos = NoPosition,
                          !.work = [k \in rest |-> build.work[k]]]
           /\ UNCHANGED lock

\* Where the item goes once the days found filed and in conflict are marked.
AfterRead(pos) == IF pos.filed # {} THEN "markFiled"
                  ELSE IF pos.conflict # {} THEN "markConflict" ELSE "decide"

BuildRead ==
  LET pos == Position(tasks, BuildKey.type, build.work[BuildKey])
  IN  /\ build.pc = "read"
      /\ build' = [build EXCEPT !.pos = pos, !.pc = AfterRead(pos)]
      /\ UNCHANGED <<ledgerVars, tasks, cards, lock, submit, dryRun, budget, history>>

\* mark_days_state, or the CHECK violation it raises: nothing written, the item
\* given up, and the transaction left aborted for the items that follow.
BuildMark(D, s, next) ==
  /\ ~ build.broken
  /\ IF MarkAccepted(claimDay, D, s)
     THEN /\ claimDay' = MarkDaysState(claimDay, D, s)
          /\ build' = [build EXCEPT !.pc = next]
          /\ UNCHANGED lock
     ELSE EndItem(TRUE) /\ UNCHANGED claimDay
  /\ UNCHANGED <<submission, approving, tasks, cards, submit, dryRun, budget, history>>

BuildMarkFiled ==
  /\ build.pc = "markFiled"
  /\ BuildMark(build.pos.filed, "submitted",
               IF build.pos.conflict # {} THEN "markConflict" ELSE "decide")

BuildMarkConflict ==
  /\ build.pc = "markConflict"
  /\ BuildMark(build.pos.conflict, "needs_input", "decide")

BuildMarkDrafted ==
  /\ build.pc = "markDrafted"
  /\ BuildMark(Todo, "drafted", "card")

\* Other drafts of this type on days of this same period.
DraftsThisPeriod == {d \in build.pos.others : PeriodOf[d] = BuildKey.period}

\* The draft in AFAS is not the ledger's claim.
DraftMismatch ==
  DraftsThisPeriod # {} \/ (build.pos.draft # {} /\ build.pos.absent # {})

\* Mutant: no queue for the task list.
MustWaitNever == FALSE

\* A second open draft of one type would make the task list ambiguous.
MustWait == build.pos.others # {}

NothingToFile ==
  /\ build.pc = "decide" /\ Todo = {}
  /\ submission' = IF build.pos.filed # {} /\ build.pos.conflict = {}
                   THEN [submission EXCEPT ![BuildKey] = SetSubmissionState(@, "submitted")]
                   ELSE submission
  /\ EndItem(build.broken)
  /\ UNCHANGED <<claimDay, approving, tasks, cards, submit, dryRun, budget, history>>

\* A dry run fills the form, leaves it unsaved and posts a card without buttons.
Rehearse ==
  /\ build.pc = "decide" /\ Todo # {} /\ build.dry
  /\ build' = [build EXCEPT !.pc = "card"]
  /\ UNCHANGED <<ledgerVars, tasks, cards, lock, submit, dryRun, budget, history>>

\* The upsert that records a failed item, and the end of the item.
FailItem ==
  /\ ~ build.broken
  /\ submission' = [submission EXCEPT ![BuildKey] = UpsertSubmission(@, Todo, "failed")]
  /\ EndItem(FALSE)
  /\ UNCHANGED <<claimDay, approving, tasks, cards, submit, dryRun, budget, history>>

RefuseMismatch ==
  /\ build.pc = "decide" /\ Todo # {} /\ ~ build.dry
  /\ DraftMismatch
  /\ FailItem

\* The month waits for the open draft, the app's own or not; only the alert differs.
WaitForOtherDraft ==
  /\ build.pc = "decide" /\ Todo # {} /\ ~ build.dry /\ ~ build.broken
  /\ ~ DraftMismatch /\ MustWait
  /\ EndItem(FALSE)
  /\ UNCHANGED <<ledgerVars, tasks, cards, submit, dryRun, budget, history>>

GoLive ==
  /\ build.pc = "decide" /\ Todo # {} /\ ~ build.dry
  /\ ~ DraftMismatch /\ ~ MustWait
  /\ build' = [build EXCEPT !.pc = IF build.pos.absent # {} THEN "create" ELSE "markDrafted"]
  /\ UNCHANGED <<ledgerVars, tasks, cards, lock, submit, dryRun, budget, history>>

\* _fill_rows and create_draft.  Aanmaken may also do nothing without raising.
BuildCreate ==
  /\ build.pc = "create"
  /\ \/ AddTask(BuildKey.type, build.pos.absent, "draft") /\ UNCHANGED budget
     \/ Spend("fault") /\ UNCHANGED tasks
  /\ build' = [build EXCEPT !.pc = "verify"]
  /\ UNCHANGED <<ledgerVars, cards, lock, submit, dryRun, history>>

\* The list is read again and must show exactly the days as a draft.
DraftConfirmed == Position(tasks, BuildKey.type, Todo).draft = Todo

BuildVerify ==
  /\ build.pc = "verify" /\ DraftConfirmed
  /\ build' = [build EXCEPT !.pc = "markDrafted"]
  /\ UNCHANGED <<ledgerVars, tasks, cards, lock, submit, dryRun, budget, history>>

BuildVerifyFails ==
  /\ build.pc = "verify" /\ ~ DraftConfirmed
  /\ FailItem

\* Only a live card has the buttons that approve or reject.
BuildCard ==
  /\ build.pc = "card" /\ ~ build.broken
  /\ IF build.dry THEN UNCHANGED cards ELSE PostCard(BuildKey, Todo)
  /\ build' = [build EXCEPT !.pc = "record"]
  /\ UNCHANGED <<ledgerVars, tasks, lock, submit, dryRun, budget, history>>

BuildRecord ==
  /\ build.pc = "record"
  /\ submission' = [submission EXCEPT ![BuildKey] =
       UpsertSubmission(@, Todo, IF build.dry THEN "drafted" ELSE "awaiting_approval")]
  /\ EndItem(build.broken)
  /\ UNCHANGED <<claimDay, approving, tasks, cards, submit, dryRun, budget, history>>

\* InSite or Slack raises: the item is given up, the run goes on.
BuildRaises ==
  /\ build.pc \in {"read", "create", "verify", "card"}
  /\ Spend("fault")
  /\ EndItem(build.broken)
  /\ UNCHANGED <<ledgerVars, tasks, cards, submit, dryRun, history>>

\* After an aborted transaction every statement raises, so does every item that
\* reaches one.
BuildSqlRaises ==
  /\ build.broken
  /\ \/ build.pc \in {"markFiled", "markConflict", "verify", "markDrafted", "card"}
     \/ build.pc = "decide" /\ Todo # {} /\ ~ build.dry /\ (DraftMismatch \/ MustWait)
  /\ build.pc = "verify" => ~ DraftConfirmed
  /\ EndItem(TRUE)
  /\ UNCHANGED <<ledgerVars, tasks, cards, submit, dryRun, budget, history>>

\* The pod is killed, or sign-in raises: the session's lock goes with it.
BuildCrash ==
  /\ build.pc # "idle"
  /\ Spend("crash")
  /\ build' = IdleBuild
  /\ lock' = IF lock = "build" THEN NoOne ELSE lock
  /\ UNCHANGED <<ledgerVars, tasks, cards, submit, dryRun, history>>

BuildStep ==
  \/ BuildLock \/ BuildRead \/ BuildMarkFiled \/ BuildMarkConflict
  \/ NothingToFile \/ Rehearse \/ RefuseMismatch \/ WaitForOtherDraft \/ GoLive
  \/ BuildCreate \/ BuildVerify \/ BuildVerifyFails \/ BuildMarkDrafted
  \/ BuildCard \/ BuildRecord \/ BuildSqlRaises

BuildNext == BuildPlan \/ BuildStep \/ BuildRaises \/ BuildCrash

=============================================================================
