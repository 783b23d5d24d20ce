# The claim cycle of afas-automation, specified

`afas-automation` claims an employee's commuting and home-working days in AFAS
InSite. A nightly job reads the calendar and freezes one verdict per day in a
ledger; a daily job turns a finished month into a draft declaration in AFAS and
an approval card in Slack; a person approves, rejects or corrects; another daily
job files what was approved. Filing cannot be undone, AFAS has no API, clicks may
or may not land, and every job can be killed at any moment. This directory holds
TLA+ specifications of that program, TLC configurations that check them on small
instances, and TLAPS proofs about the ledger, the claim cycle, the nightly run, the
Slack connection, the sign-in, the claim list and the calendar connector.

Paths are relative to the repository; `store.py`, `cli.py` and the like are in
`src/afas_declaraties/`.

## Inventory

| Part | State it keeps | Operations | What makes it correct |
|---|---|---|---|
| Ledger, `store.py` | tables `claim_day`, `submission`, `slack_interaction`; the advisory lock | `record_day`, `apply_override`, `mark_days_state`, `upsert_submission`, `approve_submission`, `reject_submission`, `set_submission_state`, `browser_lock`, `claim_slack_interaction` | what is filed is history; a human's word is kept; one round in motion per month and type |
| Classify job, `cli.py`, `classify.py` | the run's memory | `cmd_classify`, `classify_day` | nothing claimed without evidence; an outage changes nothing; no day falls out of the window |
| Build job, `cli.py` | work list, position of the days in AFAS | `cmd_build`, `_plan_build`, `_build_one` | never a second declaration of a day, never two open drafts of a type |
| Submit job, `cli.py` | selected rows, days, position | `cmd_submit`, `_still_as_approved`, `_settle`, `_file`, `_record_filed` | files only what was approved, clicks once, and finds out what happened after a crash |
| Slack handlers, `slackd.py` | the cards in Slack, worker threads, dedupe keys, the socket and its heartbeat file | approve, reject, correct; `once`, `_touch_heartbeat`, `run` | an approval is for one card's days; a click acts once; what waits can be decided; a live process is not killed |
| Read-back, `readback.py` | the pages seen so far | `read_lines`, `_turn_page`, `position` | a filed day never looks absent |
| InSite driver, `insite.py` | the form and the tasks in AFAS | fill a row, `create_draft`, `open_task_for`, `submit_declaration` | the row holds what was meant; the right task is filed |
| Calendar readers, `calendar_mcp.py`, `m365_mcp.py`, `calendar_owa.py` | token cache, pages collected, the week on screen | read a range of days, page a search, step to a week | degraded, or exactly what the calendar holds |
| Sign-in, `entra.py`, `session.py` | panes of the browser, the loop's clocks | `sign_in`, `open_session`, `wait_until_settled` | a click is for the pane that was filled; a rejected password is not typed again |
| `onepassword.py` | none | read a secret | a failure ends the run |
| Alerts, `alerts.py`, `_alert_once` | `slack_interaction` rows | `alert`, `notify` | a person is told once |
| Configuration and deployment, `config.py`, `charts/` | `DRY_RUN`, the CronJob schedules, the probes | read at start | dry runs file nothing |

The parts meet in five places. The ledger is shared by the jobs and by the
threads of the Slack handlers; every store function commits once, so between any
two of them anyone else may run. AFAS is read, clicked and read again by build
and submit, and the employee and the manager change it by hand meanwhile. The
browser lock, a Postgres advisory lock tried once and never waited for, keeps
build and submit from driving a browser at once, but both take their decisions
(the work list, the approved rows) before they ask for it. Slack carries the
digest of the days on a card back to `approve_submission`, perhaps twice and
perhaps to a new process. And classify takes the word of whichever calendar reader
is configured: an answer that is not degraded is the whole calendar.

What is hard to test here: orders of two actors between two commits; crashes
between a click and its record; clicks that do nothing; corrections during a run;
flips of `DRY_RUN`; second rounds of a month; queues of months of one type;
outages that look like empty calendars; a click delivered again after a reconnect;
pages that come late, half or not at all. `PROJECT.json` lists these at the lines
where they bite.

## Modules

| Module | What it models |
|---|---|
| `Ledger` | Rows of the two tables, and each store function as an operator on a table. No variables. |
| `LedgerSpec` | The abstract specification: any store function on any arguments in any order. The contract the jobs are held to. |
| `Readback` | What AFAS holds, and `position`. |
| `ClaimState` | Variables, bounds and types of the claim cycle. |
| `Build` | `cmd_build`, one action per commit, read, click or post. |
| `Submit` | `cmd_submit`, likewise. |
| `Slackd` | What approve, reject, corrections and overrides do to the days of a claim. |
| `ClaimCycle` | The composition, AFAS by hand, flips of `DRY_RUN`, fairness, properties. |
| `Classify` | `cmd_classify` and `classify_day`, the nights, the calendar, and the other writers of `claim_day`. |
| `SlackSocket` | How a click gets to the ledger: delivery, threads, `once`, acknowledgements, crashes, heartbeat and probe. |
| `CalendarContract` | The abstract specification of a calendar reader. |
| `CalendarMcp` | `read_range` over `search`, `call`, `_rpc`, `token` and `_save`, night after night. |
| `CalendarOwa` | `read_week` over the weeks of a window. |
| `EntraSignIn` | The loop of `sign_in` against panes that answer late. |
| `ClaimList` | `read_lines` and `_turn_page` over two paged grids. |
| `RowForm` | `_fill_rows`, `add_row`, `fill_row`, `confirm_row`, `create_draft` against a form with round trips. |
| `BrowserJob` | `open_session` and what classify and build then do in the browser. |
| `LedgerLemmas` | What each operator of `Ledger` does to a table, proved. |
| `LedgerProofs`, `ClaimCycleProofs`, `ClassifyProofs`, `SlackSocketProofs`, `CalendarMcpProofs`, `EntraSignInProofs`, `BrowserJobProofs` | Theorems about the module each is named for; the last also about the parts of a browser job: claim list, row form, Outlook's calendar. |
| `MCLedgerSpec`, `MCClaimCycle`, `MCClassify`, `MCSlackSocket`, `MCCalendarMcp`, `MCBrowserJob` | Small instances for TLC. |

`ClaimCycle` composes `Build`, `Submit` and `Slackd` over `ClaimState`. `ClaimCycle`
and `Classify` are checked to implement `LedgerSpec`. `BrowserJob` composes
`EntraSignIn`, `CalendarOwa`, `ClaimList` and `RowForm`, one phase after the other:
the days the form enters are the days the list did not show. `CalendarMcp` and
`CalendarOwa` both implement `CalendarContract`, which is all that `Classify`
supposes of a calendar read.

### How state and actions correspond to the code

The claim cycle and the nightly run:

* `claimDay[d]` is the row of day `d`: its type, its state, and whether a person
  decided it. `submission[k]` is the sequence of rounds of a key (period, type);
  `round_no` is the position. A `lines_digest` is the set of days it was computed
  from: equal digests mean equal days, since the hash is over sorted days and type.
* Each store function is one action because it commits once, except
  `approve_submission`: its SELECT and UPDATE see different snapshots under READ
  COMMITTED, so it is `ApproveCompare` and `ApproveUpdate`, and any number of
  approvals can be between the two. `upsert_submission` also reads `open_round`
  before it writes, but only the job that holds the browser lock calls it.
* `build.pc` and `submit.pc` say where a job is between two effects: a read of
  AFAS, a commit, a click, a post. `build.work` is the list `_plan_build` made,
  `submit.rows` and `submit.unsettled` the rows `cmd_submit` selected; they are not
  read again, as in the code. `build.broken` says the connection is in an aborted
  transaction after a CHECK violation; each statement then raises.
* `lock` is the advisory lock. It is asked for once (`BuildLock`, `SubmitLock`) and
  goes with its session (`BuildCrash`, `SubmitCrash`).
* `tasks` are the declarations in AFAS. `filedBy` and the variable `history` exist
  for the properties only; no guard of a job reads them.
* `cards` are the cards that still have buttons. A dry card never has the buttons
  that decide; a decided card loses them unless `chat_update` fails.
* Raised exceptions: inside an item of a build, `BuildRaises`; inside the `try` of
  `_file`, `FileRaises`; anywhere else they end the run, as a kill does
  (`BuildCrash`, `SubmitCrash`).
* In `Classify` a day is a number and `today` moves at `Midnight`, which waits for a
  running job: the job starts after midnight with a deadline well within the night.

The Slack connection (`SlackSocket`):

* `threads[t]` is what one of Bolt's worker threads is doing: `pc` names the next
  effect of its handler (acknowledge, `once`, write the decision, update the card,
  write a day of a correction, say so). `clicks` are the interactions people sent,
  `unacked` those Slack will deliver again, `handled` the keys in
  `slack_interaction`.
* `Ack` is before `Once` in `handle_approve` and `handle_reject`, and after it in
  `handle_corrections` (`AckView`), as in the code. An acknowledgement sent while the
  socket is down is lost.
* `age` is the age of the heartbeat file and `late` how long the loop of `run`
  oversleeps, both in intervals of that loop. `BelievesConnected` is
  `is_connected()`; a socket that is `"deaf"` is believed.
* The days behind the card do not change here: that is the subject of `Slackd`.

The calendar readers:

* In `CalendarMcp` an entry is its position in `Entries`, oldest first; it has a
  first day, a span, and whether it is all-day, cancelled and parseable. `run` is the
  memory of `read_range` and `search`, `cache` the token file, `held` the token of the
  request under way. Every request takes a token first, so `Handshake` and `TakePage`
  go back to `"token"`. `M365Error` is `Degrade`; a read that times out is none, and
  ends the run without an answer (`ConnectorHangs`).
* In `CalendarOwa` `outlook` is the page (its week, whether the header is drawn, what
  the grid shows), and `reader` the loop of `read_week` inside `_read_calendar`.

The browser:

* In `EntraSignIn` `pane` is what Entra shows, `sent` the click it is working on.
  `Press` is a click on the primary button, which all panes share: it means what the
  pane on screen makes of it. `typed` is there for the properties only.
* In `ClaimList` `shown` is what the portal draws after the pager was clicked (`old`,
  `half` or `whole`) and `list.previous`, `list.half` are the last two snapshots that
  `_turn_page` compares.
* In `RowForm` `dialog.holds[f]` says whether field `f` holds what was meant, and
  `trips` are the server round trips a set value starts; when one comes back it may
  discard that value, and the one of the date may fill in others.
* In `BrowserJob` `site` is where `page.goto` and the redirects after it have led. A
  step that raises closes the context and ends the job.

## Runs

All invariants and properties are defined and explained in the module the MC module
extends.

| Run | Instance | What it asks |
|---|---|---|
| `ledger_any_order` | 2 days, 1 period, 1 type, 2 rounds | does the ledger keep its promises in any order of calls? Deadlock checked. |
| `cycle_core` | 2 days; 1 change, 1 crash, 1 fault, 1 deleted draft | no double claim, no second click for an approval, no click that the ledger hides, and the ledger's contract, with corrections at any moment |
| `cycle_quiet` | the same, days change only between runs; the second day decided at once or later; drafts deleted or filed by hand, declarations sent back | is what is filed what was approved and what the ledger says, in first and second rounds? |
| `cycle_queue` | 2 months, 2 types; 1 change, 1 crash | one declaration per day across types, one open draft per type |
| `cycle_by_hand` | 2 edits of any kind in AFAS, 1 fault, 2 flips of `DRY_RUN` | is a day filed by hand found out and never filed again, and does a dry run undo an approval? |
| `cycle_liveness` | `FairSpec`, 2 months; 1 crash, 1 deleted draft | is anything stuck, and is every month filed? |
| `classify_nightly` | 3 days with a weekend day, window 1, 1 lost night, 1 edit | evidence, outages, human decisions, the trailing window, and the ledger's contract |
| `slack_replay` | 2 threads, 3 clicks, 2 cards; 1 extra click or modal, 1 stranger, 1 crash, 1 lost and 1 deaf connection | does every click act once, and can what waits be decided? |
| `slack_liveness` | `FairSpec`; crashes, lost connections, failed Slack calls, a loop that is late | is a live process left alone, and does an approval get through? |
| `calendar_mcp` | all calendars of 7 entries around a window of 3 days; pages of 2, at most 2 pages; each trouble once | degraded or exactly the events, degraded only for a reason, no token that expires under a request |
| `browser_job` | both jobs, all the ways in; 3 weeks; lists of up to 3 pages per grid; 2 days to enter | sign-in, week, list and form, each on what the one before left |
| `finding_reject_mid_run` | 1 day | see below |

Bounds. `MaxRounds` limits rounds only in `LedgerSpec`; the cycle runs give it a
value their other bounds never reach, so `ImplementsLedger` is not satisfied by the
bound. `TaskIds` holds two declarations, enough to break "at most one" in every
run. In `cycle_core` one change, one crash, one fault and one hand edit reach every action
and every pair of unexpected events; `cycle_by_hand` has two edits and two flips,
because those come in pairs (create and file, off and on). Two days give a claim
that can gain, lose or swap a day. `history.clicks` counts to 2, where "at most
one" is already broken. Two periods and two types are the least that interact.
`cycle_queue` and `cycle_liveness` have no fault: a crash
between `in_flight` and the click leaves the same state as a click that did not
land, and one between mark and post the same as a refused post.

In `slack_replay` the second thread handles a redelivery while the first is in the
middle of the first delivery; a third could only wait. Three clicks are an answer,
another one at any moment and a stranger's; the second card is the one that follows
a failed filing. Worker threads are symmetric there, and only there: nothing in that
run is a liveness property. In `calendar_mcp` each kind of trouble happens at most
once, but any of them together; the entries lie on both sides of every boundary of
the query, the window and the pages. The lengths of `browser_job` keep the order of
the code's timeouts: a click is answered before the loop stops waiting, that is
before it stalls, and before the deadline.

Runs have `CHECK_DEADLOCK FALSE` where the system really may stop: nothing to
build, nothing to file, a person who never answers, budgets of trouble used up, a
job that is over.

`DaysChangeAnyTime = FALSE` says that the days of the ledger change only while no
job runs and no approval is half way. The properties of `cycle_quiet` need it: the
configurations below show what becomes of them, or of near relatives, without it.
`GridLags = FALSE` says that once Outlook's grid was loaded a second time it shows the
week its header names; `finding_owa_empty_week` shows what becomes of the contract
without it.

### Where code and its own documentation disagree

Each of these configurations checks one statement of a doc or a comment, and TLC
finds a behaviour of the code that breaks it. The first is among the runs of
`PROJECT.json`; the others are kept for the same use
(`tlc -config finding_poisoned.cfg MCClaimCycle`).

| Configuration | Behaviour | Statement |
|---|---|---|
| `finding_reject_mid_run` (run) | rows are selected before the lock; a rejection after that is overwritten by `in_flight` | `slackd.py:159` |
| `finding_lost_card` | a refused approval keeps the old digest; undoing the correction leaves a row that waits without a card | `cli.py:43` |
| `finding_empty_claim` | `_file` with no days left finds `[] == []` and records the round as filed | `cli.py:588` |
| `finding_filed_unapproved` | `_file` compares AFAS with the days of now, not with those approved | `docs/architecture.md:118` |
| `finding_withdrawn_booking` | the question about a withdrawn booking erases the verdict it came from; the next night says home | `docs/architecture.md:232` |
| `finding_dry_settle` | `_settle` in a dry run posts a card without buttons and lets the row wait | `cli.py:683` |
| `finding_filed_as_other` | a day corrected during the filing is marked submitted as the other type | `store.py:158` |
| `finding_stale_approval` | the UPDATE of an approval has no digest in its WHERE | `store.py:424` |
| `finding_poisoned` | after a CHECK violation the build goes on in an aborted transaction | `cli.py:480` |
| `finding_unwritten_click` | a round that a build closed as submitted, while the run that selected it waited for the lock, is clicked without `in_flight` on record | `cli.py:622` |
| `finding_deaf_socket` | an open socket that delivers nothing keeps the heartbeat fresh | `charts/afas-declaraties/templates/_helpers.tpl:173` |
| `finding_token_unsaved` | a cache write that fails halfway leaves no readable token for the next request of the same run | `m365_mcp.py:175` |
| `finding_odd_event` | one unparseable event of many is left out of an answer that is not degraded | `cli.py:89` |
| `finding_timed_leave` | leave of two days entered with hours covers the first only | `cli.py:89` |
| `finding_owa_empty_week` | a grid that is still empty after its patience is an empty week | `calendar_owa.py:246` |
| `finding_pane_twice` | the stay-signed-in prompt is clicked again while Entra is at work on the first click | `entra.py:279` |

`finding_withdrawn_booking` is for `MCClassify`, `finding_deaf_socket` for `MCSlackSocket`, `finding_token_unsaved`,
`finding_odd_event` and `finding_timed_leave` for `MCCalendarMcp`,
`finding_owa_empty_week` and `finding_pane_twice` for `MCBrowserJob`, the others for
`MCClaimCycle`.

## Fairness

`FairSpec` of `ClaimCycle` assumes that build and submit start whenever they have work
and that a running job takes its next step: they are CronJobs with a daily schedule
(`charts/afas-declaraties/values.yaml`). It also assumes that a job that asks for
the lock again and again finds it free again and again: the jobs start an hour
apart with `activeDeadlineSeconds` below an hour, so the one is over, or killed,
before the other starts. Nothing is assumed of people: nobody has to approve,
reject, correct or delete, crashes and faults need not happen and are finitely
many. `MonthIsFiled` alone supposes, as its premise `SomeoneApproves`, a person who
sooner or later presses Approve on the card that holds, for each month.

`FairSpec` of `SlackSocket` assumes that a worker thread takes its next step, that
Slack delivers what is not acknowledged to a thread that is free again and again
while the socket is up, that time passes and the loop wakes, that the kubelet acts on
a failed probe and starts a process that died, and that a person who wants the
month filed clicks the newest card as long as it waits. It does not assume that a
lost connection ever comes back: a silent heartbeat, the probe and the restart are
what brings it back, and that is what the run shows.

## Proofs

Each theorem holds for every value of the constants that satisfies the ASSUME of its
module, and for every behaviour.

| Module | Theorem | Property | Beyond the types of the constants it assumes |
|---|---|---|---|
| `LedgerProofs` | `TypeCorrect` | `TypeOK` | |
| | `OneRoundInMotion` | `OnlyLatestRoundOpen` | |
| | `FiledRoundsStay` | `FiledRoundIsHistory` | |
| | `FiledDaysStay` | `FiledDayIsHistory` | |
| | `HumanDecisionsStay` | `HumanDecisionKept` | |
| `ClaimCycleProofs` | `CycleTypeCorrect` | `TypeOK` | |
| | `CycleImplementsLedger` | `ImplementsLedger` | `RoundsWithinBound`, a hypothesis of the theorem |
| | `OneClickForOneApproval` | `OneClickPerApproval` | |
| | `ClickLeavesItsMark` | `ClickIsWrittenAhead` | |
| | `DryRunTakesApprovalsBack` | `RehearsalUndoesApproval` | |
| | `SubmittedOnlyWhenFiled` | `SubmittedDayWasFiled` | |
| | `NoDayClaimedTwice` | `DayClaimedOnce` | `NoLinesByHand`, a hypothesis of the theorem |
| | `QueueKeepsOneDraft` | `OneOpenDraftPerType` | the same |
| | `FiledAsTheLedgerSays` | `LedgerSaysWhatWasFiled` | `~ DaysChangeAnyTime` |
| | `ClicksForWhatWasApproved` | `ClickIsForApprovedDays` | the same, and `JobsTakeTurns` |
| | `FilesWhatWasApproved` | `FiledWasApproved` | the same, `NoLinesByHand` and `ApprovalIsForTheCard` |
| `ClassifyProofs` | `NightTypeCorrect` | `TypeOK` | |
| | `NothingWithoutEvidence` | `PlannedHasEvidence` | |
| | `OutageDecidesNothing` | `OutageKeepsDecisions` | |
| | `OfficeIsAskedFirst` | `OfficeNeverTurnsHome` | |
| | `EveryDayIsRecorded` | `NoDayFallsThrough` | `MaxMissed <= Window`, a hypothesis of the theorem |
| | `NightImplementsLedger` | `ImplementsLedger` | |
| `SlackSocketProofs` | `SocketTypeCorrect` | `TypeOK` | |
| | `EveryClickActsOnce` | `ClickActsOnce` | |
| | `LiveSocketStays` | `LiveSocketIsNotKilled` | `Late < MaxAge` |
| | `WaitingClaimsHaveButtons` | `WaitingHasButtons` | |
| `EntraSignInProofs` | `SignInCorrect` | types and invariant | `MaxLag < Await` |
| | `SubmitsWhatWasTyped` | `SubmitIsForThisPane` | the same |
| | `PasswordTypedOnce` | `RejectedPasswordEndsSignIn` | the same |
| `BrowserJobProofs` | `PagesAreTakenInOrder` | invariant | |
| | `ReturnedListIsWhole` | `ListIsWhole` | |
| | `DraftHoldsWhatWasMeant` | `DraftIsAsMeant` | |
| | `OutlookReaderKeepsContract` | `OwaImplementsContract` | `~ GridLags` |
| | `JobSignsInSafely` | `SubmitIsForThisPane`, `RejectedPasswordEndsSignIn` | `MaxLag < Await` |
| | `NoDayIsEnteredTwice` | `EnteredWasAbsent` | the same |
| | `JobReadsAndEntersWhole` | `ListIsWhole`, `DraftIsAsMeant` | the same |
| | `JobKeepsContract` | `OwaImplementsContract` | the same, and `~ GridLags` |
| `CalendarMcpProofs` | `NoTokenExpiresInFlight` | `TokenOutlivesRequest` | `Timeout <= Slack < Life` |
| | `ReaderKeepsContract` | `ImplementsContract` | `RequireEvents` and `VisibleWhole`, hypotheses of the theorem |
| | `DegradedForAReason` | `DegradedHasReason` | `FoundWhole`, a hypothesis of the theorem |

The arguments:

* Ledger. `TypeOK` is inductive by itself. `OnlyLatestRoundOpen` is inductive together
  with it: an update changes the state only of rounds in its `state IN (...)` set,
  never of a filed one, and a round is added only when the latest is filed. The
  action properties follow from one step each. `LedgerLemmas` says what every
  operator does to a table, and serves the proofs of the modules built on it too.
* Claim cycle. `CycleInv` is the types together with what each control point of the two
  jobs says of their work lists and of the lock (`BuildOK`, `SubmitLists`,
  `LockIsHeld`): a list is never empty when its first key is taken, and a dry run never
  has anything to file. Each step is then a step of `LedgerSpec` or none (`LedgerStep`,
  one case per action). `LedgerSpec` bounds its rounds and the code does not, hence
  `RoundsWithinBound`. Six invariants on top of it:
  * `ApprovalInv`: an approval that is not used up, standing in the ledger or selected by
    a run and not yet at its click, has had no click and has had a decision of a person
    since the last dry run. While a run is at its click no one else can make the row
    approved. The proof says what each writer of the row does to its state.
  * `FilingInv`: what is filed in AFAS is in the record of all that ever was, and so is
    every day a job holds as filed, from its reading of the list to its mark. That is
    why a filing sent back, or a line changed by hand in between, does no harm.
  * `EntriesInv`: days absent when a build read them, and a type without an open draft,
    stay so until the build creates. It needs `NoLinesByHand`: HandEdits without `edit`
    and `create`, since no guard of the code can see a line typed between its reading and
    its click. A person may file and delete drafts and the manager send back at will.
  * `SaidInv`: every day a job holds as filed, or is about to mark so, was filed as the
    type the ledger has it under. A job knows a day's type from its first look at the
    ledger to its last commit (`AtARow`, `AtAnItem`), and only a correction or a night's
    verdict changes that type (`TypesStay`), which is what `DaysChangeAnyTime` decides.
    With it `TRUE`, `finding_filed_as_other` shows the day that goes wrong.
  * `RowInv`: a row that a run selected keeps the digest it was selected with, a row it
    may file has the digest of the days the ledger claims, and the days in hand are those
    of the row it is at. The run marks days only in the last commit of a row, and these
    are of no other row. It needs `JobsTakeTurns`, build and submit not running at the
    same time: a build that was planned earlier marks days in commits of its own, may do
    so between the check and the lock and may then stop, and `_file` reads the days again
    but not the digest. With three days TLC finds this from a month that is part filed,
    part in a draft, part under a status nothing recognises: the build marks the first
    filed, the approval and the check follow, then the build marks the last a conflict
    and stops. Two days are too few for it. The schedules prevent it: build starts at 06:00, at most 600
    seconds late, and is killed after 1800, submit starts at 07:00
    (`charts/afas-declaraties/values.yaml`). Only a run by hand can overlap.
  * `ApprovedInv`: a row a run may still file has a digest a person approved, and the one
    open draft `_file` has compared still holds the days in hand when it clicks, since
    drafts can only go meanwhile (`DraftsOnlyGo`). Its premise `ApprovalIsForTheCard` is
    not idle: `approve_submission` compares the digest on the button with the days
    claimable now, never with the row's, and `finding_stale_approval` is a behaviour that
    breaks it. The theorem says that this comparison is the only gap in the chain from
    the card to the click.
* Nightly run. The invariant `NightInv` ties what the run remembers of a day to the row
  it read: a previous verdict is one the ledger held and, if it was an office day,
  still holds unless a person changed it. `EveryDayIsRecorded` has its own invariant,
  `UnrecordedIsRecent`: a day without a row is still in the window of a run under way,
  or no older than the nights missed since. Every write of the run, of a person and of
  the other jobs is a step of `LedgerSpec` (`NightCallsLedger`).
* Slack. Three invariants that do not need each other. `DeliveryInv`: while a thread works
  on a click its key is in `handled`, no two threads work on one click after `Once`, and
  what is still to be done for a click has not been done. `HeartbeatInv`: while the
  socket stays up the file is no older than the loop is late, and that is less than the
  probe allows. `ButtonsInv`: no click is on a card that was not yet posted, and when
  a thread is about to take the buttons off the newest card the claim no longer waits.
* Sign-in. `SignInInv`: while the loop looks at a field, fills it or is about to click,
  Entra has nothing of it left to answer, so the pane cannot change under the loop. That
  holds because a wait has never lasted longer than Entra has been at work, and Entra
  answers within `MaxLag < Await`. A rejection is on screen before the next look.
* Claim list. `ListInv`: what has been merged is exactly what the pages up to the one
  looked at show, and the portal is on that page or on the one after it.
* Row form. `FormInv` adds to the property that `Aanmaken` is not reached with a row left
  to enter and is the last thing done. A row gets into the grid only from a dialog in
  which every field was read back, so it does not matter what InSite did to the fields
  before.
* Outlook's calendar. `OwaInv`: as long as nothing failed, the events taken are those of
  the weeks before the one the reader is at (`ReadSoFar`), and a grid it looks at under a
  header is that of the week in the header, unless it is empty and looked at for the first
  time (`GridIsOfTheWeek`). That needs `~ GridLags`, as `finding_owa_empty_week` shows. The weeks of a window are consecutive, as `cli.py:108-117`
  makes them; that became part of `OwaAssumption` because the proof does not go through
  for a window with holes.
* Browser job. `JobInv` puts the invariants of the parts together and adds what one
  hands to the next: nothing is submitted to Entra outside a sign-in, and what is entered or
  still to be entered is on no page of the list that was read (`OnlyAbsentDays`).
* Connector. `TokenInv`: under a request the life of its token and the time waited add
  up to more than `Slack`. `SearchInv`: unless marked partial or blinded, `run.items` is
  the hits before `run.offset`. The step simulation maps each action to a step of
  `CalendarContract` or a stutter. `VisibleWhole` names the calendars the search can see
  whole: an entry that reaches into the window parses, begins within the look-back, is
  no longer than is followed, and is all-day if it lasts days. Without it the contract
  fails, as two configurations above show. `RequireEvents` is what catches a search
  that silently stops matching. `UntroubledInv` is the other direction: as long as no
  trouble came, the cache is whole, the search has had page after page and has everything
  or met the cap. Entries the parser cannot read may be there: `FoundWhole` is the part of
  `VisibleWhole` about the others.

Only model-checked: liveness, that is `UnsettledIsSettled`, `ApprovedIsDecided`,
`MonthIsFiled` and `ApprovalGetsThrough`. They need ENABLED, which the prover cannot
handle. Every safety property that a passing run checks is also a theorem. The run
`cycle_quiet` does without one hypothesis: on its instance of two days
`FiledWasApproved` and `ClickIsForApprovedDays` hold with jobs that overlap too. For
`ClickIsForApprovedDays` that does not carry over to three days (`RowInv`, above).

The hypotheses are such that behaviours of every kind the theorem is about satisfy them:
`DaysChangeAnyTime`, `GridLags`, `HandEdits` and the timings are constants of the runs, and
with the values the theorems ask for TLC reaches clicks, filings, lost clicks and crashes
(`cycle_quiet`, `cycle_queue`, `browser_job`). `RowInv` and `ApprovedInv` were checked as
invariants of instances of two days, with states in which jobs overlap cut off, before
they were proved.

## Not modelled, and why

* Text, layout, wording of cards and alerts; audit columns; exit codes; selectors.
* Parsing of a rendered claim row, of a calendar label and of event JSON; `position` and
  `classify_day` start from what was parsed, the readers from whether it parses. A Slack
  channel is taken to be configured. `on_leave_in_afas` is passed by no caller. Time
  zones of timed events: a timed event is on the day it says.
* `onepassword.py`: stateless reads; its failure ends the run, which is a crash here.
* Alerts and `_alert_once`: they change no decision of a job. A crash between the post
  and its record says something twice.
* The device-code sign-in of `m365_mcp.py` and its command line: run by a person.
* A calendar that changes between two pages of one search: the offset then skips or
  repeats an entry, which no code looks for.
* A click lands at once or not at all in `Submit`. One that lands after the six seconds
  the driver waits would need a portal that remembers clicks.
* The second read of the list after `Aanmaken` is in `Build`, not in `BrowserJob`. The
  first page of the list is taken as drawn after the fixed seven seconds.
* A redirect to Entra after `domcontentloaded` closes the job in `BrowserJob`, as
  `wait_until_settled` raises.
* One classify run at a time, although with the connector as source no lock says so.
* A row that makes `_settle` raise every day: crashes are bounded here.
* Scripts, the other templates of the chart, workflows and the image.

## Plan

Done: the ledger, the claim cycle, the classify job, the Slack connection, the two
calendar readers, the sign-in, the claim list, the row form and the browser job, each with
proofs of every safety property its runs check.

Left, in this order:

1. Late landings of a click in `Submit`, and two classify runs at once.
2. `ClickIsForApprovedDays` when jobs overlap: a run of three days from a month part
   filed, and what weaker hypothesis than `JobsTakeTurns` the theorem can do with.
3. The device-code sign-in and the rest of `m365_mcp.py`.
