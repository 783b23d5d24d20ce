----------------------------- MODULE ClaimState -----------------------------
(***************************************************************************)
(* The state the claim cycle shares: the ledger, AFAS, the cards in Slack, *)
(* the browser lock, and what each process holds in memory.  Build, Submit *)
(* and Slackd are the processes; ClaimCycle composes them.                 *)
(***************************************************************************)
EXTENDS Readback

CONSTANTS
  MaxRounds,    \* bound: rounds of one key, checked by LedgerSpec
  InitialDays,  \* what classify may have recorded when the behaviour begins
  MaxChanges,   \* bound: overrides and reclassifications
  MaxCrashes,   \* bound: jobs killed or crashed
  MaxFaults,    \* bound: steps of InSite or Slack that raise or do nothing
  MaxHandEdits, \* bound: what a person does in AFAS by hand
  HandEdits,    \* which of these: "delete", "file", "edit", "reject", "create"
  MaxFlips,     \* bound: changes of DRY_RUN
  DaysChangeAnyTime  \* FALSE: days change only while no job and no approval is half way

\* The members of models.ClaimType, in the order the jobs take them.
ASSUME OrderAssumption == ClaimTypes \subseteq {"commute", "home"}
ASSUME InitialDaysAssumption == InitialDays \subseteq [Days -> FreshRow]
ASSUME BoundsAssumption ==
  /\ {MaxRounds, MaxChanges, MaxCrashes, MaxFaults, MaxHandEdits, MaxFlips} \subseteq Nat
  /\ DaysChangeAnyTime \in BOOLEAN

VARIABLES
  claimDay,     \* table claim_day
  submission,   \* table submission
  approving,    \* approvals between their SELECT and their UPDATE
  tasks,        \* declarations in AFAS
  cards,        \* approval cards in Slack that still have their buttons
  lock,         \* who holds browser_lock
  build,        \* memory of the build job
  submit,       \* memory of the submit job
  dryRun,       \* DRY_RUN as the next job will read it
  budget,       \* what is left of each bound
  history       \* what happened, for the properties; the code keeps none of it

ledgerVars == <<claimDay, submission, approving>>
vars == <<claimDay, submission, approving, tasks, cards, lock, build, submit,
          dryRun, budget, history>>

NoOne == "nobody"

Approval == [key: Keys, digest: SUBSET Days]
Card == [key: Keys, digest: SUBSET Days]

\* The day sets of a job's work list, one per key it still has to do.
WorkLists == UNION {[K -> SUBSET Days] : K \in SUBSET Keys}

IdleBuild == [pc |-> "idle", dry |-> FALSE, broken |-> FALSE,
              work |-> <<>>, pos |-> NoPosition]

IdleSubmit == [pc |-> "idle", dry |-> FALSE, rows |-> <<>>, ready |-> {},
               unsettled |-> {}, days |-> {}, pos |-> NoPosition]

BuildPcs == {"idle", "planned", "read", "markFiled", "markConflict", "decide",
             "create", "verify", "markDrafted", "card", "record"}
SubmitPcs == {"idle", "rehearse", "check", "lock", "settle", "settleAct", "settleRecord",
              "file", "fileAct", "click", "verify", "record", "recordDays"}

TypeOK ==
  /\ claimDay \in [Days -> DayRow]
  /\ \A d \in Days : StateMatchesClaimType(claimDay[d])
  /\ submission \in [Keys -> Seq(Round)]
  /\ approving \subseteq Approval
  /\ tasks \subseteq Task
  /\ cards \subseteq Card
  /\ lock \in {NoOne, "build", "submit"}
  /\ build \in [pc: BuildPcs, dry: BOOLEAN, broken: BOOLEAN,
                work: WorkLists, pos: Positions]
  /\ submit \in [pc: SubmitPcs, dry: BOOLEAN, rows: WorkLists, ready: SUBSET Keys,
                 unsettled: SUBSET Keys, days: SUBSET Days, pos: Positions]
  /\ dryRun \in BOOLEAN
  /\ budget \in [change: 0 .. MaxChanges, crash: 0 .. MaxCrashes, fault: 0 .. MaxFaults,
                 hand: 0 .. MaxHandEdits, flip: 0 .. MaxFlips]
  /\ history \in [approved: SUBSET Approval,
                  decision: [Keys -> {"none", "approved", "rejected"}],
                  clicks: [Keys -> 0 .. 2],
                  filed: SUBSET (ClaimTypes \X Days)]

-----------------------------------------------------------------------------
(* Helpers *)

\* The order of a job's loop: by period, then by claim type.
Before(j, k) ==
  \/ j.period < k.period
  \/ j.period = k.period /\ j.type = "commute" /\ k.type # "commute"

First(K) == CHOOSE k \in K : \A j \in K \ {k} : Before(k, j)

\* One unit of bound b is spent.
Spend(b) == budget[b] > 0 /\ budget' = [budget EXCEPT ![b] = @ - 1]

\* When the days of the ledger may change.
DaysMayChange ==
  DaysChangeAnyTime \/ (build.pc = "idle" /\ submit.pc = "idle" /\ approving = {})

PostCard(k, D) == cards' = cards \union {[key |-> k, digest |-> D]}

FreeIds == TaskIds \ {x.id : x \in tasks}

\* AFAS gets a declaration.
AddTask(t, D, status) ==
  /\ FreeIds # {}
  /\ tasks' = tasks \union {[id |-> CHOOSE i \in FreeIds : \A j \in FreeIds : i <= j,
                             type |-> t, days |-> D, status |-> status,
                             filedBy |-> "nobody"]}

=============================================================================
