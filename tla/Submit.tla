------------------------------- MODULE Submit -------------------------------
(***************************************************************************)
(* The submit job: cli.cmd_submit, _still_as_approved, _settle, _file and  *)
(* _record_filed.  Like the build, one action per commit, read, click or   *)
(* post.  _settle and _file first read the days from the ledger and then   *)
(* the list from AFAS; the two reads are one action, because no step of    *)
(* anyone else depends on both.                                            *)
(***************************************************************************)
EXTENDS ClaimState

\* Mutant: what needs reconciliation is left to a person.
UnsettledRoundsInFlight == {"in_flight"}

UnsettledRounds == {"in_flight", "needs_reconciliation"}

\* The keys of approved_submissions and unsettled_submissions.
ApprovedKeys == {k \in Keys : StateOf(submission[k]) = "approved"}
UnsettledKeys == {k \in Keys : StateOf(submission[k]) \in UnsettledRounds}

\* The row the loop of cmd_submit is at: unsettled ones first, then the ready.
SubmitKey == IF submit.unsettled # {} THEN First(submit.unsettled) ELSE First(submit.ready)

SetState(k, s) == submission' = [submission EXCEPT ![k] = SetSubmissionState(@, s)]

\* Where the run goes when the approvals have been checked.
AfterCheck(ready, unsettled) == IF ready = {} /\ unsettled = {} THEN IdleSubmit
                                ELSE [submit EXCEPT !.pc = "lock", !.rows = <<>>,
                                        !.ready = ready, !.unsettled = unsettled]

\* The rows are selected once, before the lock and the sign-in.
SubmitSelect ==
  /\ submit.pc = "idle"
  /\ ApprovedKeys \union UnsettledKeys # {}
  /\ submit' = [IdleSubmit EXCEPT
       !.pc = IF ApprovedKeys = {} THEN "lock" ELSE IF dryRun THEN "rehearse" ELSE "check",
       !.dry = dryRun,
       !.rows = [k \in ApprovedKeys |-> Latest(submission[k]).digest],
       !.unsettled = UnsettledKeys]
  /\ UNCHANGED <<ledgerVars, tasks, cards, lock, build, dryRun, budget, history>>

\* The next selected row leaves the list, kept for filing or not.
AfterRow(next, keep) ==
  LET k == First(DOMAIN submit.rows)
      rest == DOMAIN submit.rows \ {k}
      ready == IF keep THEN submit.ready \union {k} ELSE submit.ready
  IN  submit' = IF rest = {} THEN AfterCheck(ready, submit.unsettled)
                ELSE [submit EXCEPT !.pc = next, !.ready = ready,
                        !.rows = [j \in rest |-> submit.rows[j]]]

\* Mutant: the rows are put back to a rehearsal and then filed all the same.
SubmitRehearseKeeps ==
  /\ submit.pc = "rehearse"
  /\ SetState(First(DOMAIN submit.rows), "drafted")
  /\ AfterRow("rehearse", TRUE)
  /\ history' = [history EXCEPT !.decision[First(DOMAIN submit.rows)] = "none"]
  /\ UNCHANGED <<claimDay, approving, tasks, cards, lock, build, dryRun, budget>>

\* DRY_RUN is on: an approval is put back to a rehearsal, nothing is filed.
SubmitRehearse ==
  /\ submit.pc = "rehearse"
  /\ SetState(First(DOMAIN submit.rows), "drafted")
  /\ AfterRow("rehearse", FALSE)
  /\ history' = [history EXCEPT !.decision[First(DOMAIN submit.rows)] = "none"]
  /\ UNCHANGED <<claimDay, approving, tasks, cards, lock, build, dryRun, budget>>

\* Mutant: the approval is taken as it was selected.
StillAsApprovedUnchecked(k) == TRUE

\* _still_as_approved: the ledger's days are the ones the row was approved for.
StillAsApproved(k) == ClaimableDays(claimDay, k) = submit.rows[k]

SubmitCheck ==
  LET k == First(DOMAIN submit.rows)
  IN  /\ submit.pc = "check"
      /\ IF StillAsApproved(k)
         THEN UNCHANGED submission
         ELSE SetState(k, "awaiting_approval")
      /\ AfterRow("check", StillAsApproved(k))
      /\ UNCHANGED <<claimDay, approving, tasks, cards, lock, build, dryRun, budget, history>>

FirstStep(unsettled) == IF unsettled # {} THEN "settle" ELSE "file"

SubmitLock ==
  /\ submit.pc = "lock"
  /\ IF lock = NoOne
     THEN /\ lock' = "submit"
          /\ submit' = [submit EXCEPT !.pc = FirstStep(submit.unsettled)]
     ELSE submit' = IdleSubmit /\ UNCHANGED lock
  /\ UNCHANGED <<ledgerVars, tasks, cards, build, dryRun, budget, history>>

\* The row is done: the next one, or the end of the run.
EndRow ==
  LET unsettled == submit.unsettled \ {SubmitKey}
      ready == IF submit.unsettled # {} THEN submit.ready ELSE submit.ready \ {SubmitKey}
  IN  IF unsettled = {} /\ ready = {}
      THEN submit' = IdleSubmit /\ lock' = NoOne
      ELSE /\ submit' = [submit EXCEPT !.pc = FirstStep(unsettled), !.unsettled = unsettled,
                           !.ready = ready, !.days = {}, !.pos = NoPosition]
           /\ UNCHANGED lock

\* Days and position the row is about to be judged by.
SubmitRead ==
  LET days == ClaimableDays(claimDay, SubmitKey)
  IN  /\ submit.pc \in {"settle", "file"}
      /\ submit' = [submit EXCEPT !.days = days,
                      !.pos = Position(tasks, SubmitKey.type, days),
                      !.pc = IF submit.pc = "settle" THEN "settleAct" ELSE "fileAct"]
      /\ UNCHANGED <<ledgerVars, tasks, cards, lock, build, dryRun, budget, history>>

\* The row moves to state s and that is all there is to it.
EndRowAs(s) ==
  /\ SetState(SubmitKey, s)
  /\ EndRow
  /\ UNCHANGED <<claimDay, approving, tasks, cards, build, dryRun, budget, history>>

\* _record_filed, its first commit.
SubmitRecord ==
  /\ submit.pc = "record"
  /\ SetState(SubmitKey, "submitted")
  /\ submit' = [submit EXCEPT !.pc = "recordDays"]
  /\ UNCHANGED <<claimDay, approving, tasks, cards, lock, build, dryRun, budget, history>>

\* _record_filed, its second.  A CHECK violation ends the whole run.
SubmitRecordDays ==
  /\ submit.pc = "recordDays"
  /\ IF MarkAccepted(claimDay, submit.days, "submitted")
     THEN claimDay' = MarkDaysState(claimDay, submit.days, "submitted") /\ EndRow
     ELSE submit' = IdleSubmit /\ lock' = NoOne /\ UNCHANGED claimDay
  /\ UNCHANGED <<submission, approving, tasks, cards, build, dryRun, budget, history>>

-----------------------------------------------------------------------------
(* _settle: the click may have landed.  Reads, never clicks. *)

AllOf(D) == submit.days # {} /\ D = submit.days

SettleFiled ==
  /\ submit.pc = "settleAct" /\ AllOf(submit.pos.filed)
  /\ submit' = [submit EXCEPT !.pc = "record"]
  /\ UNCHANGED <<ledgerVars, tasks, cards, lock, build, dryRun, budget, history>>

\* The click did not land: a card first, then the row waits for a new approval.
\* A dry run settles too, and its card has no buttons.
SettleDraft ==
  /\ submit.pc = "settleAct" /\ AllOf(submit.pos.draft)
  /\ IF submit.dry THEN UNCHANGED cards ELSE PostCard(SubmitKey, submit.days)
  /\ submit' = [submit EXCEPT !.pc = "settleRecord"]
  /\ UNCHANGED <<ledgerVars, tasks, lock, build, dryRun, budget, history>>

SettleRecord ==
  /\ submit.pc = "settleRecord"
  /\ submission' = [submission EXCEPT
       ![SubmitKey] = SetStateAndDigest(@, "awaiting_approval", submit.days)]
  /\ EndRow
  /\ UNCHANGED <<claimDay, approving, tasks, cards, build, dryRun, budget, history>>

\* The draft is gone, or AFAS shows something unclear: the next build reads again.
SettleFailed ==
  /\ submit.pc = "settleAct"
  /\ ~ AllOf(submit.pos.filed) /\ ~ AllOf(submit.pos.draft)
  /\ EndRowAs("failed")

-----------------------------------------------------------------------------
(* _file: one approved declaration *)

\* Nothing to click: AFAS shows every day filed already.
FileAlreadyFiled ==
  /\ submit.pc = "fileAct" /\ submit.pos.filed = submit.days
  /\ submit' = [submit EXCEPT !.pc = "record"]
  /\ UNCHANGED <<ledgerVars, tasks, cards, lock, build, dryRun, budget, history>>

\* Mutant: the approval is left standing.
FileDraftChangedStands ==
  /\ submit.pc = "fileAct" /\ submit.pos.filed # submit.days
  /\ submit.pos.draft # submit.days
  /\ EndRowAs("approved")

\* What was approved is no longer there: the approval goes with it.
FileDraftChanged ==
  /\ submit.pc = "fileAct" /\ submit.pos.filed # submit.days
  /\ submit.pos.draft # submit.days
  /\ EndRowAs("failed")

\* Another open draft of this type: the approval stands until tomorrow.
FileBlocked ==
  /\ submit.pc = "fileAct" /\ submit.pos.filed # submit.days
  /\ submit.pos.draft = submit.days /\ submit.pos.others # {}
  /\ EndRowAs("approved")

\* in_flight is committed before the click.
FileInFlight ==
  /\ submit.pc = "fileAct" /\ submit.pos.filed # submit.days
  /\ submit.pos.draft = submit.days /\ submit.pos.others = {}
  /\ SetState(SubmitKey, "in_flight")
  /\ submit' = [submit EXCEPT !.pc = "click"]
  /\ UNCHANGED <<claimDay, approving, tasks, cards, lock, build, dryRun, budget, history>>

OpenDrafts(t) == {x \in tasks : IsDraft(x, t)}

FiledBy(x, who) == [x EXCEPT !.status = "filed", !.filedBy = who]

Lands(x, who) == tasks' = (tasks \ {x}) \union {FiledBy(x, who)}

\* open_task_for finds the only open draft of the type and submit_declaration
\* clicks.  The click may not land, and nobody is told.
FileClick ==
  /\ submit.pc = "click"
  /\ \E x \in OpenDrafts(SubmitKey.type) :
       /\ OpenDrafts(SubmitKey.type) = {x}
       /\ \/ /\ Lands(x, "app") /\ UNCHANGED budget
             /\ history' = [history EXCEPT
                  !.clicks[SubmitKey] = IF @ = 2 THEN 2 ELSE @ + 1,
                  !.filed = @ \union ({x.type} \X x.days)]
          \/ /\ Spend("fault") /\ UNCHANGED tasks
             /\ history' = [history EXCEPT
                  !.clicks[SubmitKey] = IF @ = 2 THEN 2 ELSE @ + 1]
  /\ submit' = [submit EXCEPT !.pc = "verify"]
  /\ UNCHANGED <<ledgerVars, cards, lock, build, dryRun>>

\* Mutant: a draft that is gone has been filed.
FilingConfirmedByAbsence == Position(tasks, SubmitKey.type, submit.days).draft = {}

\* The list is read again and must show exactly the days as filed.
FilingConfirmed == Position(tasks, SubmitKey.type, submit.days).filed = submit.days

FileVerify ==
  /\ submit.pc = "verify" /\ FilingConfirmed
  /\ submit' = [submit EXCEPT !.pc = "record"]
  /\ UNCHANGED <<ledgerVars, tasks, cards, lock, build, dryRun, budget, history>>

\* Mutant: the approval is good for another try.
FileUnconfirmedRetries ==
  /\ submit.pc = "verify" /\ ~ FilingConfirmed
  /\ EndRowAs("approved")

FileUnconfirmed ==
  /\ submit.pc = "verify" /\ ~ FilingConfirmed
  /\ EndRowAs("needs_reconciliation")

\* No draft, two drafts, or InSite raises before or after the click.
FileRaises ==
  /\ \/ submit.pc = "click" /\ Cardinality(OpenDrafts(SubmitKey.type)) # 1
        /\ UNCHANGED budget
     \/ submit.pc \in {"click", "verify"} /\ Spend("fault")
  /\ SetState(SubmitKey, "needs_reconciliation")
  /\ EndRow
  /\ UNCHANGED <<claimDay, approving, tasks, cards, build, dryRun, history>>

\* The pod is killed, or a read or a post outside _file's try raises.
SubmitCrash ==
  /\ submit.pc # "idle"
  /\ Spend("crash")
  /\ submit' = IdleSubmit
  /\ lock' = IF lock = "submit" THEN NoOne ELSE lock
  /\ UNCHANGED <<ledgerVars, tasks, cards, build, dryRun, history>>

SubmitStep ==
  \/ SubmitRehearse \/ SubmitCheck \/ SubmitLock \/ SubmitRead
  \/ SubmitRecord \/ SubmitRecordDays
  \/ SettleFiled \/ SettleDraft \/ SettleRecord \/ SettleFailed
  \/ FileAlreadyFiled \/ FileDraftChanged \/ FileBlocked \/ FileInFlight
  \/ FileClick \/ FileVerify \/ FileUnconfirmed \/ FileRaises

SubmitNext == SubmitSelect \/ SubmitStep \/ SubmitCrash

=============================================================================
