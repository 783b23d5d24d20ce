-------------------------- MODULE ClaimCycleProofs --------------------------
(***************************************************************************)
(* Theorems about ClaimCycle, for every set of days, periods and types and *)
(* every bound on what can go wrong.                                       *)
(***************************************************************************)
EXTENDS ClaimCycle, LedgerLemmas, FiniteSetTheorems

-----------------------------------------------------------------------------
(* The loops of the jobs *)

\* The loop over a job's keys has a key to take: the earliest period has at most
\* one claim of each type, and commute goes before home.
LEMMA FirstIsIn ==
  ASSUME NEW K \in SUBSET Keys, K # {}
  PROVE  First(K) \in K
<1> DEFINE P == {k.period : k \in K}
<1>1. P \in SUBSET Nat /\ P # {}
  BY PeriodAssumption DEF Keys
<1>2. PICK p \in P : \A q \in P : p <= q
  BY <1>1, LeastExists
<1>3. \E k \in K : \A j \in K \ {k} : Before(k, j)
  <2>1. PICK m \in K : m.period = p
    BY <1>2
  <2>2. \A j \in K : j.period \in Nat /\ (j.period = p \/ p < j.period)
    <3>1. p \in Nat
      BY <1>1
    <3> SUFFICES ASSUME NEW j \in K
                 PROVE  j.period \in Nat /\ (j.period = p \/ p < j.period)
      OBVIOUS
    <3>2. j.period \in P
      OBVIOUS
    <3>3. j.period \in Nat /\ p <= j.period
      BY <1>1, <1>2, <3>2
    <3> QED
      BY <3>1, <3>3
  <2>3. \A j, k \in K : j.period = k.period /\ j.type = k.type => j = k
    BY DEF Keys
  <2>4. \A j \in K : j.type \in {"commute", "home"}
    BY OrderAssumption DEF Keys
  <2>5. CASE \E k \in K : k.period = p /\ k.type = "commute"
    <3>1. PICK k \in K : k.period = p /\ k.type = "commute"
      BY <2>5
    <3>2. ASSUME NEW j \in K \ {k}
          PROVE  Before(k, j)
      BY <2>2, <2>3, <3>1 DEF Before
    <3> QED
      BY <3>2
  <2>6. CASE ~ \E k \in K : k.period = p /\ k.type = "commute"
    <3>1. ASSUME NEW j \in K \ {m}
          PROVE  Before(m, j)
      <4>1. j.period # p
        BY <2>1, <2>3, <2>4, <2>6
      <4> QED
        BY <2>1, <2>2, <4>1 DEF Before
    <3> QED
      BY <3>1
  <2> QED
    BY <2>5, <2>6
<1> QED
  BY <1>3 DEF First

\* What a work list is.
LEMMA WorkListFacts ==
  /\ <<>> \in WorkLists
  /\ DOMAIN <<>> = {}
  /\ \A w \in WorkLists :
       DOMAIN w \subseteq Keys /\ \A k \in DOMAIN w : w[k] \in SUBSET Days
<1>1. <<>> = [k \in {} |-> {}]
  OBVIOUS
<1>2. {} \in SUBSET Keys /\ <<>> \in [{} -> SUBSET Days]
  BY <1>1
<1>3. <<>> \in WorkLists
  BY <1>2 DEF WorkLists
<1>4. ASSUME NEW w \in WorkLists
      PROVE  DOMAIN w \subseteq Keys /\ \A k \in DOMAIN w : w[k] \in SUBSET Days
  BY DEF WorkLists
<1> QED
  BY <1>1, <1>3, <1>4

LEMMA PositionOK ==
  ASSUME NEW T, NEW t, NEW D \in SUBSET Days
  PROVE  Position(T, t, D) \in Positions
<1>1. Sole(T, t, D, "filed") \in SUBSET Days /\ Sole(T, t, D, "draft") \in SUBSET Days
  BY DEF Sole
<1>2. Absent(T, t, D) \in SUBSET Days
  BY DEF Absent
<1> QED
  BY <1>1, <1>2 DEF Position, Positions

-----------------------------------------------------------------------------
(* The memory of the jobs, and the lock *)

BuildMemory == [pc: BuildPcs, dry: BOOLEAN, broken: BOOLEAN,
                work: WorkLists, pos: Positions]

\* A build that runs has an item to work on.
BuildOK == build \in BuildMemory /\ (build.pc # "idle" => DOMAIN build.work # {})

SubmitMemory == [pc: SubmitPcs, dry: BOOLEAN, rows: WorkLists, ready: SUBSET Keys,
                 unsettled: SUBSET Keys, days: SUBSET Days, pos: Positions]

\* What each control point of a submit run says of its lists: approvals are checked
\* before anything is filed, unsettled rows are settled before anything is filed,
\* and a dry run has nothing to file.
SubmitLists ==
  /\ submit.pc \in {"rehearse", "check"} => DOMAIN submit.rows # {}
  /\ submit.pc \notin {"rehearse", "check"} => submit.rows = <<>>
  /\ submit.pc = "idle" => submit.ready = {} /\ submit.unsettled = {}
  /\ submit.pc \in {"lock", "record", "recordDays"} => submit.ready \union submit.unsettled # {}
  /\ submit.pc \in {"settle", "settleAct", "settleRecord"} => submit.unsettled # {}
  /\ submit.pc \in {"file", "fileAct", "click", "verify"} =>
       submit.unsettled = {} /\ submit.ready # {}
  /\ submit.dry => submit.ready = {} /\ submit.pc # "check"
  /\ submit.pc = "rehearse" => submit.dry

SubmitOK == submit \in SubmitMemory /\ SubmitLists

\* Whoever is past its lock holds it.
LockIsHeld ==
  /\ lock \in {NoOne, "build", "submit"}
  /\ build.pc \notin {"idle", "planned"} => lock = "build"
  /\ submit.pc \notin {"idle", "rehearse", "check", "lock"} => lock = "submit"

LEMMA BuildKeyIsKey ==
  ASSUME BuildOK, build.pc # "idle"
  PROVE  BuildKey \in Keys /\ build.work[BuildKey] \in SUBSET Days
<1>1. build.work \in WorkLists /\ DOMAIN build.work # {}
  BY DEF BuildOK, BuildMemory
<1>2. DOMAIN build.work \in SUBSET Keys
  BY <1>1, WorkListFacts
<1>3. BuildKey \in DOMAIN build.work
  BY <1>1, <1>2, FirstIsIn DEF BuildKey
<1> QED
  BY <1>1, <1>3, WorkListFacts

LEMMA IdleBuildOK == IdleBuild \in BuildMemory /\ IdleBuild.pc = "idle"
BY WorkListFacts DEF IdleBuild, BuildMemory, BuildPcs, NoPosition, Positions

\* The end of an item leaves the next one, or the end of the run without the lock.
LEMMA EndItemOK ==
  ASSUME BuildOK, build.pc # "idle", NEW broken \in BOOLEAN, EndItem(broken)
  PROVE  /\ BuildOK'
         /\ build'.pc \in {"idle", "read"}
         /\ lock' = IF build'.pc = "idle" THEN NoOne ELSE lock
<1> DEFINE rest == DOMAIN build.work \ {BuildKey}
           work == [k \in rest |-> build.work[k]]
<1>1. CASE rest = {}
  <2>1. build' = IdleBuild /\ lock' = NoOne
    BY <1>1 DEF EndItem
  <2> QED
    BY <2>1, IdleBuildOK DEF BuildOK
<1>2. CASE rest # {}
  <2>1. /\ build' = [build EXCEPT !.pc = "read", !.broken = broken, !.pos = NoPosition,
                       !.work = work]
        /\ lock' = lock
    BY <1>2 DEF EndItem
  <2>2. work \in WorkLists /\ DOMAIN work # {}
    <3>1. build.work \in WorkLists
      BY DEF BuildOK, BuildMemory
    <3>2. rest \in SUBSET Keys /\ \A k \in rest : build.work[k] \in SUBSET Days
      BY <3>1, WorkListFacts
    <3>3. work \in [rest -> SUBSET Days]
      BY <3>2
    <3> QED
      BY <1>2, <3>2, <3>3 DEF WorkLists
  <2>3. NoPosition \in Positions
    BY DEF NoPosition, Positions
  <2> HIDE DEF work
  <2>4. build' \in BuildMemory /\ build'.pc = "read" /\ build'.work = work
    BY <2>1, <2>2, <2>3 DEF BuildOK, BuildMemory, BuildPcs
  <2> QED
    BY <2>1, <2>2, <2>4 DEF BuildOK
<1> QED
  BY <1>1, <1>2

\* What a step of the build does to the build's memory and to the lock.
LEMMA BuildStepOK ==
  ASSUME BuildOK, LockIsHeld, dryRun \in BOOLEAN, BuildNext
  PROVE  BuildOK' /\ LockIsHeld' /\ submit' = submit
<1> USE DEF LockIsHeld
<1>a. build \in BuildMemory
  BY DEF BuildOK
<1>1. CASE BuildPlan
  <2> DEFINE todo == {k \in Keys : NeedsBuild(k, dryRun)}
             work == [k \in todo |-> ClaimableDays(claimDay, k)]
  <2>1. /\ build.pc = "idle" /\ todo # {} /\ lock' = lock /\ submit' = submit
        /\ build' = [IdleBuild EXCEPT !.pc = "planned", !.dry = dryRun, !.work = work]
    BY <1>1 DEF BuildPlan
  <2>2. work \in [todo -> SUBSET Days] /\ todo \in SUBSET Keys
    BY DEF ClaimableDays
  <2>3. work \in WorkLists /\ DOMAIN work = todo
    BY <2>2 DEF WorkLists
  <2> HIDE DEF todo, work
  <2>4. build' \in BuildMemory /\ build'.pc = "planned" /\ build'.work = work
    BY <2>1, <2>3, IdleBuildOK DEF BuildMemory, BuildPcs
  <2> QED
    BY <2>1, <2>3, <2>4 DEF BuildOK
<1>2. CASE BuildLock
  <2>1. /\ build.pc = "planned" /\ submit' = submit
        /\ \/ lock = NoOne /\ lock' = "build" /\ build' = [build EXCEPT !.pc = "read"]
           \/ lock' = lock /\ build' = IdleBuild
    BY <1>2 DEF BuildLock
  <2>2. CASE lock' = lock /\ build' = IdleBuild
    BY <2>1, <2>2, IdleBuildOK DEF BuildOK
  <2>3. CASE lock = NoOne /\ lock' = "build" /\ build' = [build EXCEPT !.pc = "read"]
    <3>1. build' \in BuildMemory /\ build'.pc = "read" /\ build'.work = build.work
      BY <1>a, <2>3 DEF BuildMemory, BuildPcs
    <3> QED
      BY <2>1, <2>3, <3>1 DEF BuildOK, NoOne
  <2> QED
    BY <2>1, <2>2, <2>3
<1>3. ASSUME build.pc \notin {"idle", "planned"}, lock' = lock, submit' = submit,
             NEW pc \in BuildPcs \ {"idle"}, build' = [build EXCEPT !.pc = pc]
      PROVE  BuildOK' /\ LockIsHeld' /\ submit' = submit
  <2>1. build' \in BuildMemory /\ build'.work = build.work
    BY <1>a, <1>3 DEF BuildMemory
  <2> QED
    BY <1>3, <2>1 DEF BuildOK
<1>4. ASSUME build.pc \notin {"idle", "planned"}, submit' = submit,
             NEW broken \in BOOLEAN, EndItem(broken)
      PROVE  BuildOK' /\ LockIsHeld' /\ submit' = submit
  BY <1>4, EndItemOK DEF NoOne
<1>b. build.broken \in BOOLEAN
  BY <1>a DEF BuildMemory
<1>5. CASE BuildRead
  <2> DEFINE pos == Position(tasks, BuildKey.type, build.work[BuildKey])
  <2>1. /\ build.pc = "read" /\ lock' = lock /\ submit' = submit
        /\ build' = [build EXCEPT !.pos = pos, !.pc = AfterRead(pos)]
    BY <1>5 DEF BuildRead
  <2>2. pos \in Positions
    BY <2>1, BuildKeyIsKey, PositionOK
  <2>3. AfterRead(pos) \in {"markFiled", "markConflict", "decide"}
    BY DEF AfterRead
  <2> HIDE DEF pos
  <2>4. build' \in BuildMemory /\ build'.pc = AfterRead(pos) /\ build'.work = build.work
    BY <1>a, <2>1, <2>2, <2>3 DEF BuildMemory, BuildPcs
  <2> QED
    BY <2>1, <2>3, <2>4 DEF BuildOK
<1>6. ASSUME NEW D, NEW s, NEW next \in BuildPcs \ {"idle"}, BuildMark(D, s, next),
             build.pc \notin {"idle", "planned"}
      PROVE  BuildOK' /\ LockIsHeld' /\ submit' = submit
  <2>1. CASE MarkAccepted(claimDay, D, s)
    BY <1>3, <1>6, <2>1 DEF BuildMark
  <2>2. CASE ~ MarkAccepted(claimDay, D, s)
    BY <1>4, <1>6, <2>2 DEF BuildMark
  <2> QED
    BY <2>1, <2>2
<1>7. CASE BuildMarkFiled
  BY <1>6, <1>7 DEF BuildMarkFiled, BuildPcs
<1>8. CASE BuildMarkConflict
  BY <1>6, <1>8 DEF BuildMarkConflict, BuildPcs
<1>9. CASE BuildMarkDrafted
  BY <1>6, <1>9 DEF BuildMarkDrafted, BuildPcs
<1>10. CASE NothingToFile
  BY <1>4, <1>10, <1>b DEF NothingToFile
<1>11. CASE Rehearse
  BY <1>3, <1>11 DEF Rehearse, BuildPcs
<1>12. CASE RefuseMismatch
  BY <1>4, <1>12 DEF RefuseMismatch, FailItem
<1>13. CASE WaitForOtherDraft
  BY <1>4, <1>13 DEF WaitForOtherDraft
<1>14. CASE GoLive
  BY <1>3, <1>14 DEF GoLive, BuildPcs
<1>15. CASE BuildCreate
  BY <1>3, <1>15 DEF BuildCreate, BuildPcs
<1>16. CASE BuildVerify
  BY <1>3, <1>16 DEF BuildVerify, BuildPcs
<1>17. CASE BuildVerifyFails
  BY <1>4, <1>17 DEF BuildVerifyFails, FailItem
<1>18. CASE BuildCard
  BY <1>3, <1>18 DEF BuildCard, BuildPcs
<1>19. CASE BuildRecord
  BY <1>4, <1>19, <1>b DEF BuildRecord
<1>20. CASE BuildRaises
  BY <1>4, <1>20, <1>b DEF BuildRaises
<1>21. CASE BuildSqlRaises
  BY <1>4, <1>21 DEF BuildSqlRaises
<1>22. CASE BuildCrash
  BY <1>22, IdleBuildOK DEF BuildCrash, BuildOK
<1> QED
  BY <1>1, <1>2, <1>5, <1>7, <1>8, <1>9, <1>10, <1>11, <1>12, <1>13, <1>14, <1>15, <1>16,
     <1>17, <1>18, <1>19, <1>20, <1>21, <1>22
     DEF BuildNext, BuildStep

LEMMA IdleSubmitOK ==
  /\ IdleSubmit \in SubmitMemory
  /\ IdleSubmit.pc = "idle" /\ IdleSubmit.rows = <<>> /\ ~ IdleSubmit.dry
  /\ IdleSubmit.ready = {} /\ IdleSubmit.unsettled = {}
BY WorkListFacts DEF IdleSubmit, SubmitMemory, SubmitPcs, NoPosition, Positions

\* Going idle is always all right.
LEMMA GoesIdle ==
  ASSUME submit' = IdleSubmit
  PROVE  SubmitOK'
BY IdleSubmitOK DEF SubmitOK, SubmitLists

\* The row of the loop of cmd_submit: unsettled rows first, then the ready ones.
LEMMA SubmitKeyIsKey ==
  ASSUME SubmitOK, submit.ready \union submit.unsettled # {}
  PROVE  /\ SubmitKey \in Keys
         /\ SubmitKey \in IF submit.unsettled # {} THEN submit.unsettled ELSE submit.ready
<1>1. submit.ready \in SUBSET Keys /\ submit.unsettled \in SUBSET Keys
  BY DEF SubmitOK, SubmitMemory
<1> QED
  BY <1>1, FirstIsIn DEF SubmitKey

\* The end of a row leaves the next one, or the end of the run without the lock.
LEMMA EndRowOK ==
  ASSUME SubmitOK, submit.pc \notin {"idle", "rehearse", "check"}, EndRow
  PROVE  /\ SubmitOK'
         /\ submit'.pc \in {"idle", "settle", "file"}
         /\ lock' = IF submit'.pc = "idle" THEN NoOne ELSE lock
         /\ submit'.ready \subseteq submit.ready
         /\ submit.unsettled = {} => SubmitKey \notin submit'.ready
<1> DEFINE unsettled == submit.unsettled \ {SubmitKey}
           ready == IF submit.unsettled # {} THEN submit.ready ELSE submit.ready \ {SubmitKey}
<1>1. CASE unsettled = {} /\ ready = {}
  <2>1. submit' = IdleSubmit /\ lock' = NoOne
    BY <1>1 DEF EndRow
  <2> QED
    BY <2>1, IdleSubmitOK, GoesIdle
<1>2. CASE ~ (unsettled = {} /\ ready = {})
  <2>1. /\ submit' = [submit EXCEPT !.pc = FirstStep(unsettled), !.unsettled = unsettled,
                        !.ready = ready, !.days = {}, !.pos = NoPosition]
        /\ lock' = lock
    BY <1>2 DEF EndRow
  <2>2. NoPosition \in Positions
    BY DEF NoPosition, Positions
  <2>3. unsettled \in SUBSET Keys /\ ready \in SUBSET Keys /\ ready \subseteq submit.ready
    BY DEF SubmitOK, SubmitMemory
  <2>4. submit.unsettled = {} => SubmitKey \notin ready
    OBVIOUS
  <2>5. FirstStep(unsettled) = IF unsettled # {} THEN "settle" ELSE "file"
    BY DEF FirstStep
  <2> HIDE DEF unsettled, ready
  <2>6. /\ submit' \in SubmitMemory
        /\ submit'.pc = IF unsettled # {} THEN "settle" ELSE "file"
        /\ submit'.unsettled = unsettled /\ submit'.ready = ready
        /\ submit'.rows = submit.rows /\ submit'.dry = submit.dry
    BY <2>1, <2>2, <2>3, <2>5 DEF SubmitOK, SubmitMemory, SubmitPcs
  <2>7. submit.rows = <<>> /\ (submit.dry => submit.ready = {})
    BY DEF SubmitOK, SubmitLists
  <2> QED
    BY <1>2, <2>1, <2>3, <2>4, <2>6, <2>7 DEF SubmitOK, SubmitLists
<1> QED
  BY <1>1, <1>2

\* The end of a check or of a rehearsal of one selected row.
LEMMA AfterRowOK ==
  ASSUME SubmitOK, submit.pc \in {"rehearse", "check"},
         NEW keep \in BOOLEAN, keep => submit.pc = "check",
         AfterRow(submit.pc, keep)
  PROVE  LET k == First(DOMAIN submit.rows)
         IN  /\ SubmitOK'
             /\ submit'.pc \in {"idle", "lock", submit.pc}
             /\ k \in DOMAIN submit.rows /\ k \in Keys
             /\ DOMAIN submit'.rows \subseteq DOMAIN submit.rows \ {k}
             /\ submit'.ready \subseteq submit.ready \union (IF keep THEN {k} ELSE {})
<1> DEFINE k == First(DOMAIN submit.rows)
           rest == DOMAIN submit.rows \ {k}
           ready == IF keep THEN submit.ready \union {k} ELSE submit.ready
           rows == [j \in rest |-> submit.rows[j]]
<1>0. submit.rows \in WorkLists /\ submit \in SubmitMemory /\ DOMAIN submit.rows # {}
  BY DEF SubmitOK, SubmitMemory, SubmitLists
<1>1. DOMAIN submit.rows \in SUBSET Keys /\ \A j \in DOMAIN submit.rows : submit.rows[j] \in SUBSET Days
  BY <1>0, WorkListFacts
<1>2. k \in DOMAIN submit.rows /\ k \in Keys
  BY <1>0, <1>1, FirstIsIn
<1>3. ready \in SUBSET Keys
  BY <1>2 DEF SubmitOK, SubmitMemory
<1>4. submit.dry => ready = {} /\ submit.pc # "check"
  BY DEF SubmitOK, SubmitLists
<1>5. CASE rest = {}
  <2>1. submit' = AfterCheck(ready, submit.unsettled)
    BY <1>5 DEF AfterRow
  <2>2. CASE ready = {} /\ submit.unsettled = {}
    <3>1. submit' = IdleSubmit
      BY <2>1, <2>2 DEF AfterCheck
    <3> QED
      BY <1>2, <3>1, IdleSubmitOK, GoesIdle, WorkListFacts
  <2>3. CASE ~ (ready = {} /\ submit.unsettled = {})
    <3>1. submit' = [submit EXCEPT !.pc = "lock", !.rows = <<>>,
                       !.ready = ready, !.unsettled = submit.unsettled]
      BY <2>1, <2>3 DEF AfterCheck
    <3> HIDE DEF ready
    <3>2. /\ submit' \in SubmitMemory
          /\ submit'.pc = "lock" /\ submit'.rows = <<>> /\ submit'.ready = ready
          /\ submit'.unsettled = submit.unsettled /\ submit'.dry = submit.dry
      BY <1>0, <1>3, <3>1, WorkListFacts DEF SubmitMemory, SubmitPcs
    <3>3. SubmitOK'
      BY <1>4, <2>3, <3>2 DEF SubmitOK, SubmitLists
    <3> QED
      BY <1>2, <3>2, <3>3, WorkListFacts DEF ready
  <2> QED
    BY <2>2, <2>3
<1>6. CASE rest # {}
  <2>1. submit' = [submit EXCEPT !.pc = submit.pc, !.ready = ready, !.rows = rows]
    BY <1>6 DEF AfterRow
  <2>2. rows \in [rest -> SUBSET Days] /\ rest \in SUBSET Keys
    BY <1>1
  <2>3. rows \in WorkLists /\ DOMAIN rows = rest
    BY <2>2 DEF WorkLists
  <2> HIDE DEF rows, ready
  <2>4. /\ submit' \in SubmitMemory
        /\ submit'.pc = submit.pc /\ submit'.rows = rows /\ submit'.ready = ready
        /\ submit'.unsettled = submit.unsettled /\ submit'.dry = submit.dry
    BY <1>0, <1>3, <2>1, <2>3 DEF SubmitMemory
  <2>5. SubmitOK'
    BY <1>4, <1>6, <2>3, <2>4 DEF SubmitOK, SubmitLists
  <2> QED
    BY <1>2, <2>3, <2>4, <2>5 DEF ready
<1> QED
  BY <1>5, <1>6


\* What get_submission shows of a row that is there.
LEMMA LatestIsRound ==
  ASSUME NEW rounds \in Seq(Round), StateOf(rounds) # "none"
  PROVE  Latest(rounds) \in Round /\ StateOf(rounds) = Latest(rounds).state
<1>1. rounds # <<>>
  BY DEF StateOf
<1>2. Len(rounds) \in 1 .. Len(rounds)
  BY <1>1
<1> QED
  BY <1>1, <1>2 DEF StateOf, Latest

\* The run begins with the rows it selects.
LEMMA SelectOK ==
  ASSUME submission \in [Keys -> Seq(Round)], dryRun \in BOOLEAN, SubmitSelect
  PROVE  /\ SubmitOK' /\ submit'.pc \in {"lock", "rehearse", "check"}
         /\ DOMAIN submit'.rows = ApprovedKeys /\ submit'.ready = {}
<1> DEFINE rows == [k \in ApprovedKeys |-> Latest(submission[k]).digest]
           pc == IF ApprovedKeys = {} THEN "lock" ELSE IF dryRun THEN "rehearse" ELSE "check"
<1>1. /\ submit' = [IdleSubmit EXCEPT !.pc = pc, !.dry = dryRun, !.rows = rows,
                      !.unsettled = UnsettledKeys]
      /\ ApprovedKeys \union UnsettledKeys # {}
  BY DEF SubmitSelect
<1>2. ApprovedKeys \in SUBSET Keys /\ UnsettledKeys \in SUBSET Keys
  BY DEF ApprovedKeys, UnsettledKeys
<1>3. ASSUME NEW k \in ApprovedKeys
      PROVE  Latest(submission[k]).digest \in SUBSET Days
  <2>1. StateOf(submission[k]) = "approved" /\ submission[k] \in Seq(Round)
    BY DEF ApprovedKeys
  <2>2. Latest(submission[k]) \in Round
    BY <2>1, LatestIsRound
  <2> QED
    BY <2>2 DEF Round
<1>4. rows \in [ApprovedKeys -> SUBSET Days]
  BY <1>3
<1>5. rows \in WorkLists /\ DOMAIN rows = ApprovedKeys
  BY <1>2, <1>4 DEF WorkLists
<1>6. ApprovedKeys = {} => rows = <<>>
  OBVIOUS
<1>7. pc \in {"lock", "rehearse", "check"}
  OBVIOUS
<1>8. /\ pc = "lock" <=> ApprovedKeys = {}
      /\ pc = "rehearse" => dryRun
      /\ pc = "check" => ~ dryRun
  OBVIOUS
<1> HIDE DEF rows, pc
<1>9. /\ submit' \in SubmitMemory
      /\ submit'.pc = pc /\ submit'.rows = rows /\ submit'.ready = {}
      /\ submit'.unsettled = UnsettledKeys /\ submit'.dry = dryRun
  BY <1>1, <1>2, <1>5, <1>7, IdleSubmitOK DEF SubmitMemory, SubmitPcs
<1>10. SubmitOK'
  BY <1>1, <1>5, <1>6, <1>7, <1>8, <1>9 DEF SubmitOK, SubmitLists
<1> QED
  BY <1>5, <1>7, <1>9, <1>10

\* What a step of the submit run does to its memory and to the lock.
LEMMA SubmitStepOK ==
  ASSUME SubmitOK, LockIsHeld, dryRun \in BOOLEAN, submission \in [Keys -> Seq(Round)],
         SubmitNext
  PROVE  SubmitOK' /\ LockIsHeld' /\ build' = build
<1> USE DEF LockIsHeld
<1>a. submit \in SubmitMemory /\ SubmitLists
  BY DEF SubmitOK
<1>1. CASE SubmitSelect
  BY <1>1, SelectOK DEF SubmitSelect
<1>2. ASSUME submit.pc \notin {"idle", "rehearse", "check", "lock"}, lock' = lock,
             build' = build, NEW pc \in SubmitPcs, submit' = [submit EXCEPT !.pc = pc],
             SubmitLists'
      PROVE  SubmitOK' /\ LockIsHeld' /\ build' = build
  <2>1. submit' \in SubmitMemory
    BY <1>a, <1>2 DEF SubmitMemory
  <2> QED
    BY <1>2, <2>1 DEF SubmitOK
<1>3. ASSUME submit.pc \notin {"idle", "rehearse", "check", "lock"}, build' = build, EndRow
      PROVE  SubmitOK' /\ LockIsHeld' /\ build' = build
  BY <1>3, EndRowOK DEF NoOne
<1>4. ASSUME NEW pc \in SubmitPcs, submit' = [submit EXCEPT !.pc = pc]
      PROVE  /\ submit'.pc = pc /\ submit'.rows = submit.rows /\ submit'.ready = submit.ready
             /\ submit'.unsettled = submit.unsettled /\ submit'.dry = submit.dry
  BY <1>a, <1>4 DEF SubmitMemory
<1>5. CASE SubmitRehearse
  BY <1>5, AfterRowOK DEF SubmitRehearse
<1>6. CASE SubmitCheck
  <2>1. StillAsApproved(First(DOMAIN submit.rows)) \in BOOLEAN
    BY DEF StillAsApproved
  <2> QED
    BY <1>6, <2>1, AfterRowOK DEF SubmitCheck
<1>7. CASE SubmitLock
  <2>1. CASE submit' = IdleSubmit /\ lock' = lock
    BY <1>7, <2>1, IdleSubmitOK, GoesIdle DEF SubmitLock
  <2>2. CASE lock = NoOne /\ lock' = "submit"
             /\ submit' = [submit EXCEPT !.pc = FirstStep(submit.unsettled)]
    <3> DEFINE pc == FirstStep(submit.unsettled)
    <3>1. /\ pc \in {"settle", "file"}
          /\ pc = "settle" <=> submit.unsettled # {}
      BY DEF FirstStep
    <3>2. pc \in SubmitPcs
      BY <3>1 DEF SubmitPcs
    <3> HIDE DEF pc
    <3>3. submit' = [submit EXCEPT !.pc = pc]
      BY <2>2 DEF pc
    <3>4. submit' \in SubmitMemory
      BY <1>a, <3>2, <3>3 DEF SubmitMemory
    <3>5. submit.pc = "lock" /\ build' = build
      BY <1>7 DEF SubmitLock
    <3>6. SubmitLists'
      BY <1>a, <1>4, <3>1, <3>2, <3>3, <3>5 DEF SubmitLists
    <3>7. build.pc \in {"idle", "planned"}
      BY <2>2 DEF NoOne
    <3> QED
      BY <2>2, <3>4, <3>5, <3>6, <3>7 DEF SubmitOK
  <2> QED
    BY <1>7, <2>1, <2>2 DEF SubmitLock
<1>8. CASE SubmitRead
  <2> DEFINE days == ClaimableDays(claimDay, SubmitKey)
             pos == Position(tasks, SubmitKey.type, days)
             pc == IF submit.pc = "settle" THEN "settleAct" ELSE "fileAct"
  <2>1. days \in SUBSET Days /\ pos \in Positions
    BY PositionOK DEF ClaimableDays
  <2>2. /\ submit.pc \in {"settle", "file"} /\ lock' = lock /\ build' = build
        /\ submit' = [submit EXCEPT !.days = days, !.pos = pos, !.pc = pc]
    BY <1>8 DEF SubmitRead
  <2> HIDE DEF days, pos
  <2>3. /\ submit' \in SubmitMemory
        /\ submit'.pc = pc /\ submit'.rows = submit.rows /\ submit'.ready = submit.ready
        /\ submit'.unsettled = submit.unsettled /\ submit'.dry = submit.dry
    BY <1>a, <2>1, <2>2 DEF SubmitMemory, SubmitPcs
  <2>4. SubmitLists'
    BY <1>a, <2>2, <2>3 DEF SubmitLists
  <2> QED
    BY <2>2, <2>3, <2>4 DEF SubmitOK
<1>9. CASE SubmitRecord
  BY <1>a, <1>2, <1>4, <1>9 DEF SubmitRecord, SubmitLists, SubmitPcs
<1>10. CASE SubmitRecordDays
  <2>1. CASE EndRow
    BY <1>3, <1>10, <2>1 DEF SubmitRecordDays
  <2>2. CASE submit' = IdleSubmit /\ lock' = NoOne
    BY <1>10, <2>2, IdleSubmitOK, GoesIdle DEF SubmitRecordDays
  <2> QED
    BY <1>10, <2>1, <2>2 DEF SubmitRecordDays
<1>11. CASE SettleFiled
  BY <1>a, <1>2, <1>4, <1>11 DEF SettleFiled, SubmitLists, SubmitPcs
<1>12. CASE SettleDraft
  BY <1>a, <1>2, <1>4, <1>12 DEF SettleDraft, SubmitLists, SubmitPcs
<1>13. CASE SettleRecord
  BY <1>3, <1>13 DEF SettleRecord
<1>14. CASE SettleFailed
  BY <1>3, <1>14 DEF SettleFailed, EndRowAs
<1>15. CASE FileAlreadyFiled
  BY <1>a, <1>2, <1>4, <1>15 DEF FileAlreadyFiled, SubmitLists, SubmitPcs
<1>16. CASE FileDraftChanged
  BY <1>3, <1>16 DEF FileDraftChanged, EndRowAs
<1>17. CASE FileBlocked
  BY <1>3, <1>17 DEF FileBlocked, EndRowAs
<1>18. CASE FileInFlight
  BY <1>a, <1>2, <1>4, <1>18 DEF FileInFlight, SubmitLists, SubmitPcs
<1>19. CASE FileClick
  BY <1>a, <1>2, <1>4, <1>19 DEF FileClick, SubmitLists, SubmitPcs
<1>20. CASE FileVerify
  BY <1>a, <1>2, <1>4, <1>20 DEF FileVerify, SubmitLists, SubmitPcs
<1>21. CASE FileUnconfirmed
  BY <1>3, <1>21 DEF FileUnconfirmed, EndRowAs
<1>22. CASE FileRaises
  BY <1>3, <1>22 DEF FileRaises
<1>23. CASE SubmitCrash
  BY <1>23, IdleSubmitOK, GoesIdle DEF SubmitCrash
<1> QED
  BY <1>1, <1>5, <1>6, <1>7, <1>8, <1>9, <1>10, <1>11, <1>12, <1>13, <1>14, <1>15, <1>16,
     <1>17, <1>18, <1>19, <1>20, <1>21, <1>22, <1>23
     DEF SubmitNext, SubmitStep


-----------------------------------------------------------------------------
(* Every step calls the ledger at most once *)

\* Types, and what the jobs hold at each of their control points.
CycleInv == TypeOK /\ BuildOK /\ SubmitOK /\ LockIsHeld

\* LedgerSpec's Upsert without its bound on the rounds.
WritesRow(k, D, s) ==
  /\ submission' = [submission EXCEPT ![k] = UpsertSubmission(@, D, s)]
  /\ UNCHANGED <<claimDay, approving>>

\* A step of LedgerSpec, or none.
LedgerStep ==
  \/ UNCHANGED ledgerVars
  \/ LedgerContract!DayStep
  \/ \E k \in Keys, D \in SUBSET Days, s \in {"drafted", "awaiting_approval", "failed"} :
       WritesRow(k, D, s)
  \/ \E k \in Keys, D \in SUBSET Days : LedgerContract!ApproveCompare(k, D)
  \/ \E a \in approving : LedgerContract!ApproveUpdate(a)
  \/ \E k \in Keys : LedgerContract!Reject(k)
  \/ \E k \in Keys, s \in SubmissionStates \ {"rejected"} : LedgerContract!SetState(k, s)
  \/ \E k \in Keys, D \in SUBSET Days :
       LedgerContract!SetStateWithDigest(k, "awaiting_approval", D)

\* LedgerSpec speaks of the same rows and tables.
LEMMA SameLedger ==
  /\ LedgerContract!Keys = Keys
  /\ LedgerContract!NoType = NoType
  /\ LedgerContract!Classification = Classification
  /\ LedgerContract!SubmissionStates = SubmissionStates
  /\ LedgerContract!FreshRow = FreshRow
BY DEF LedgerContract!Keys, Keys, LedgerContract!NoType, NoType, LedgerContract!Classification,
   Classification, LedgerContract!SubmissionStates, SubmissionStates, LedgerContract!FreshRow,
   FreshRow, LedgerContract!NoRow, NoRow, LedgerContract!ClassifiedRow, ClassifiedRow

LEMMA SameDayOperators ==
  ASSUME NEW table
  PROVE  /\ \A d, c : LedgerContract!RecordDay(table, d, c) = RecordDay(table, d, c)
         /\ \A d, t : LedgerContract!ApplyOverride(table, d, t) = ApplyOverride(table, d, t)
         /\ \A D, s : LedgerContract!MarkDaysState(table, D, s) = MarkDaysState(table, D, s)
         /\ \A D, s : LedgerContract!MarkAccepted(table, D, s) <=> MarkAccepted(table, D, s)
         /\ \A k : LedgerContract!ClaimableDays(table, k) = ClaimableDays(table, k)
<1>1. \A d, c : LedgerContract!RecordDay(table, d, c) = RecordDay(table, d, c)
  BY DEF LedgerContract!RecordDay, RecordDay, LedgerContract!Rewritable, Rewritable,
     LedgerContract!ClassifiedRow, ClassifiedRow
<1>2. \A d, t : LedgerContract!ApplyOverride(table, d, t) = ApplyOverride(table, d, t)
  BY DEF LedgerContract!ApplyOverride, ApplyOverride, LedgerContract!Overridable, Overridable,
     LedgerContract!NoType, NoType
<1>3. \A D, s : LedgerContract!MarkDaysState(table, D, s) = MarkDaysState(table, D, s)
  BY DEF LedgerContract!MarkDaysState, MarkDaysState, LedgerContract!Markable, Markable
<1>4. \A D, s : LedgerContract!MarkAccepted(table, D, s) <=> MarkAccepted(table, D, s)
  BY <1>3 DEF LedgerContract!MarkAccepted, MarkAccepted, LedgerContract!StateMatchesClaimType,
     StateMatchesClaimType, LedgerContract!ClaimStates, ClaimStates, LedgerContract!NoType, NoType
<1>5. \A k : LedgerContract!ClaimableDays(table, k) = ClaimableDays(table, k)
  BY DEF LedgerContract!ClaimableDays, ClaimableDays
<1> QED
  BY <1>1, <1>2, <1>3, <1>4, <1>5

LEMMA SameRoundOperators ==
  ASSUME NEW rounds
  PROVE  /\ \A D, s : LedgerContract!UpsertSubmission(rounds, D, s) = UpsertSubmission(rounds, D, s)
         /\ LedgerContract!NeedsNewRound(rounds) <=> NeedsNewRound(rounds)
         /\ \A S, s : LedgerContract!UpdateWhere(rounds, S, s) = UpdateWhere(rounds, S, s)
         /\ \A s : LedgerContract!SetSubmissionState(rounds, s) = SetSubmissionState(rounds, s)
         /\ \A s, D : LedgerContract!SetStateAndDigest(rounds, s, D)
                        = SetStateAndDigest(rounds, s, D)
         /\ LedgerContract!ApproveFrom = ApproveFrom /\ LedgerContract!RejectFrom = RejectFrom
<1>1. LedgerContract!NeedsNewRound(rounds) <=> NeedsNewRound(rounds)
  BY DEF LedgerContract!NeedsNewRound, NeedsNewRound, LedgerContract!IsOpen, IsOpen,
     LedgerContract!Latest, Latest
<1>2. \A D, s : LedgerContract!UpsertSubmission(rounds, D, s) = UpsertSubmission(rounds, D, s)
  BY <1>1 DEF LedgerContract!UpsertSubmission, UpsertSubmission, LedgerContract!UpsertProtected,
     UpsertProtected, LedgerContract!Latest, Latest
<1>3. \A S, s : LedgerContract!UpdateWhere(rounds, S, s) = UpdateWhere(rounds, S, s)
  BY DEF LedgerContract!UpdateWhere, UpdateWhere
<1>4. LedgerContract!SetFrom = SetFrom
  BY DEF LedgerContract!SetFrom, SetFrom, LedgerContract!SubmissionStates, SubmissionStates
<1>5. \A s : LedgerContract!SetSubmissionState(rounds, s) = SetSubmissionState(rounds, s)
  BY <1>3, <1>4 DEF LedgerContract!SetSubmissionState, SetSubmissionState
<1>6. \A s, D : LedgerContract!SetStateAndDigest(rounds, s, D) = SetStateAndDigest(rounds, s, D)
  BY <1>4 DEF LedgerContract!SetStateAndDigest, SetStateAndDigest
<1> QED
  BY <1>1, <1>2, <1>3, <1>5, <1>6
     DEF LedgerContract!ApproveFrom, ApproveFrom, LedgerContract!RejectFrom, RejectFrom

\* The build marks days and upserts rows, and closes a round it read as filed.
LEMMA BuildCallsLedger ==
  ASSUME CycleInv, BuildNext
  PROVE  LedgerStep
<1> USE DEF ledgerVars
<1>a. BuildOK /\ build.pos \in Positions
  BY DEF CycleInv, BuildOK, BuildMemory
<1>b. Todo \in SUBSET Days /\ build.pos.filed \in SUBSET Days /\ build.pos.conflict \in SUBSET Days
  BY <1>a DEF Todo, Positions
<1>1. ASSUME NEW D \in SUBSET Days, NEW s \in {"drafted", "submitted", "needs_input"}, NEW next,
             BuildMark(D, s, next)
      PROVE  LedgerStep
  <2>1. CASE MarkAccepted(claimDay, D, s)
    <3>1. LedgerContract!MarkDays(D, s)
      BY <1>1, <2>1, SameDayOperators DEF BuildMark, LedgerContract!MarkDays
    <3> QED
      BY <3>1 DEF LedgerStep, LedgerContract!DayStep
  <2>2. CASE ~ MarkAccepted(claimDay, D, s)
    BY <1>1, <2>2 DEF BuildMark, LedgerStep
  <2> QED
    BY <2>1, <2>2
<1>2. ASSUME build.pc # "idle", NEW s \in {"drafted", "awaiting_approval", "failed"},
             WritesRow(BuildKey, Todo, s)
      PROVE  LedgerStep
  BY <1>a, <1>b, <1>2, BuildKeyIsKey DEF LedgerStep
<1>3. ASSUME build.pc # "idle", FailItem
      PROVE  LedgerStep
  BY <1>2, <1>3 DEF FailItem, WritesRow
<1>4. CASE BuildMarkFiled
  BY <1>1, <1>4, <1>b DEF BuildMarkFiled
<1>5. CASE BuildMarkConflict
  BY <1>1, <1>5, <1>b DEF BuildMarkConflict
<1>6. CASE BuildMarkDrafted
  BY <1>1, <1>6, <1>b DEF BuildMarkDrafted
<1>7. CASE NothingToFile
  <2>1. BuildKey \in Keys /\ "submitted" \in SubmissionStates \ {"rejected"}
    BY <1>7, <1>a, BuildKeyIsKey DEF NothingToFile, SubmissionStates
  <2>2. UNCHANGED ledgerVars \/ LedgerContract!SetState(BuildKey, "submitted")
    BY <1>7, SameRoundOperators DEF NothingToFile, LedgerContract!SetState
  <2> QED
    BY <2>1, <2>2 DEF LedgerStep
<1>8. CASE RefuseMismatch
  BY <1>3, <1>8 DEF RefuseMismatch
<1>9. CASE BuildVerifyFails
  BY <1>3, <1>9 DEF BuildVerifyFails
<1>10. CASE BuildRecord
  BY <1>2, <1>10 DEF BuildRecord, WritesRow
<1>11. CASE BuildPlan \/ BuildLock \/ BuildRead \/ Rehearse \/ WaitForOtherDraft \/ GoLive
            \/ BuildCreate \/ BuildVerify \/ BuildCard
  BY <1>11 DEF BuildPlan, BuildLock, BuildRead, Rehearse, WaitForOtherDraft, GoLive,
     BuildCreate, BuildVerify, BuildCard, LedgerStep
<1>12. CASE BuildRaises \/ BuildSqlRaises \/ BuildCrash
  BY <1>12 DEF BuildRaises, BuildSqlRaises, BuildCrash, LedgerStep
<1> QED
  BY <1>4, <1>5, <1>6, <1>7, <1>8, <1>9, <1>10, <1>11, <1>12 DEF BuildNext, BuildStep

\* The submit run sets the state of the row it is at, and marks days filed.
LEMMA SubmitCallsLedger ==
  ASSUME CycleInv, SubmitNext
  PROVE  LedgerStep
<1> USE DEF ledgerVars
<1>a. SubmitOK /\ submit.days \in SUBSET Days
  BY DEF CycleInv, SubmitOK, SubmitMemory
<1>b. submit.pc \notin {"idle", "rehearse", "check"} => SubmitKey \in Keys
  <2>1. submit.pc \in SubmitPcs /\ SubmitLists
    BY <1>a DEF SubmitOK, SubmitMemory
  <2>2. submit.pc \notin {"idle", "rehearse", "check"} => submit.ready \union submit.unsettled # {}
    BY <2>1 DEF SubmitLists, SubmitPcs
  <2> QED
    BY <1>a, <2>2, SubmitKeyIsKey
<1>1. ASSUME NEW k \in Keys, NEW s \in SubmissionStates \ {"rejected"}, SetState(k, s),
             UNCHANGED <<claimDay, approving>>
      PROVE  LedgerStep
  <2>1. LedgerContract!SetState(k, s)
    BY <1>1, SameRoundOperators DEF SetState, LedgerContract!SetState
  <2> QED
    BY <2>1 DEF LedgerStep
<1>2. ASSUME NEW s \in SubmissionStates \ {"rejected"}, EndRowAs(s),
             submit.pc \notin {"idle", "rehearse", "check"}
      PROVE  LedgerStep
  BY <1>b, <1>1, <1>2 DEF EndRowAs
<1>3. {"drafted", "awaiting_approval", "submitted", "failed", "approved", "in_flight",
       "needs_reconciliation"} \subseteq SubmissionStates \ {"rejected"}
  BY DEF SubmissionStates
<1>4. CASE SubmitRehearse
  <2>1. First(DOMAIN submit.rows) \in Keys
    BY <1>a, <1>4, AfterRowOK DEF SubmitRehearse
  <2> QED
    BY <1>1, <1>3, <1>4, <2>1 DEF SubmitRehearse
<1>5. CASE SubmitCheck
  <2> DEFINE k == First(DOMAIN submit.rows)
  <2>1. k \in Keys
    <3>1. StillAsApproved(k) \in BOOLEAN
      BY DEF StillAsApproved
    <3> QED
      BY <1>a, <1>5, <3>1, AfterRowOK DEF SubmitCheck
  <2>2. UNCHANGED ledgerVars \/ (SetState(k, "awaiting_approval") /\ UNCHANGED <<claimDay, approving>>)
    BY <1>5 DEF SubmitCheck
  <2> QED
    BY <1>1, <1>3, <2>1, <2>2 DEF LedgerStep
<1>6. CASE SubmitRecord
  BY <1>b, <1>1, <1>3, <1>6 DEF SubmitRecord
<1>7. CASE SubmitRecordDays
  <2>1. CASE MarkAccepted(claimDay, submit.days, "submitted")
    <3>1. LedgerContract!MarkDays(submit.days, "submitted")
      BY <1>7, <2>1, SameDayOperators DEF SubmitRecordDays, LedgerContract!MarkDays
    <3> QED
      BY <1>a, <3>1 DEF LedgerStep, LedgerContract!DayStep
  <2>2. CASE ~ MarkAccepted(claimDay, submit.days, "submitted")
    BY <1>7, <2>2 DEF SubmitRecordDays, LedgerStep
  <2> QED
    BY <2>1, <2>2
<1>8. CASE SettleRecord
  <2>1. LedgerContract!SetStateWithDigest(SubmitKey, "awaiting_approval", submit.days)
    BY <1>8, SameRoundOperators DEF SettleRecord, LedgerContract!SetStateWithDigest
  <2>2. SubmitKey \in Keys
    BY <1>b, <1>8 DEF SettleRecord
  <2> QED
    BY <1>a, <2>1, <2>2 DEF LedgerStep
<1>9. CASE SettleFailed
  BY <1>2, <1>3, <1>9 DEF SettleFailed
<1>10. CASE FileDraftChanged
  BY <1>2, <1>3, <1>10 DEF FileDraftChanged
<1>11. CASE FileBlocked
  BY <1>2, <1>3, <1>11 DEF FileBlocked
<1>12. CASE FileInFlight
  BY <1>b, <1>1, <1>3, <1>12 DEF FileInFlight
<1>13. CASE FileUnconfirmed
  BY <1>2, <1>3, <1>13 DEF FileUnconfirmed
<1>14. CASE FileRaises
  BY <1>b, <1>1, <1>3, <1>14 DEF FileRaises
<1>15. CASE SubmitSelect \/ SubmitLock \/ SubmitRead \/ SettleFiled \/ SettleDraft
            \/ FileAlreadyFiled \/ FileClick \/ FileVerify \/ SubmitCrash
  BY <1>15 DEF SubmitSelect, SubmitLock, SubmitRead, SettleFiled, SettleDraft,
     FileAlreadyFiled, FileClick, FileVerify, SubmitCrash, LedgerStep
<1> QED
  BY <1>4, <1>5, <1>6, <1>7, <1>8, <1>9, <1>10, <1>11, <1>12, <1>13, <1>14, <1>15
     DEF SubmitNext, SubmitStep

\* The handlers, the command line and the nightly run make the calls of LedgerSpec
\* that are people's and the calendar's.
LEMMA SlackdCallsLedger ==
  ASSUME CycleInv, SlackdNext
  PROVE  LedgerStep
<1>1. ASSUME NEW d \in Days, NEW t \in ClaimTypes \union {NoType}, Correct(d, t)
      PROVE  LedgerStep
  <2>1. LedgerContract!Override(d, t)
    BY <1>1, SameDayOperators DEF Correct, LedgerContract!Override
  <2> QED
    BY <2>1, SameLedger DEF LedgerStep, LedgerContract!DayStep
<1>2. ASSUME NEW d \in Days, NEW c \in Classification, Classify(d, c)
      PROVE  LedgerStep
  <2>1. LedgerContract!Record(d, c)
    BY <1>2, SameDayOperators DEF Classify, LedgerContract!Record
  <2> QED
    BY <2>1, SameLedger DEF LedgerStep, LedgerContract!DayStep
<1>3. ASSUME NEW c \in cards, ApproveCompare(c) \/ Reject(c)
      PROVE  LedgerStep
  <2>1. c \in Card
    BY DEF CycleInv, TypeOK
  <2>2. c.key \in Keys /\ c.digest \in SUBSET Days /\ c = [key |-> c.key, digest |-> c.digest]
    BY <2>1 DEF Card
  <2>3. LedgerContract!ApproveCompare(c.key, c.digest) \/ LedgerContract!Reject(c.key)
    BY <1>3, <2>2, SameDayOperators, SameRoundOperators
       DEF ApproveCompare, Reject, DigestStands,
       LedgerContract!ApproveCompare, LedgerContract!Reject
  <2> QED
    BY <2>2, <2>3 DEF LedgerStep
<1>4. ASSUME NEW a \in approving, ApproveUpdate(a)
      PROVE  LedgerStep
  <2>1. LedgerContract!ApproveUpdate(a)
    BY <1>4, SameRoundOperators DEF ApproveUpdate, LedgerContract!ApproveUpdate
  <2> QED
    BY <2>1 DEF LedgerStep
<1> QED
  BY <1>1, <1>2, <1>3, <1>4 DEF SlackdNext, LedgerInput, Decide


\* A call of the ledger leaves rows of the right types that satisfy the constraint.
LEMMA LedgerStepOK ==
  ASSUME TypeOK, LedgerStep
  PROVE  /\ TableOK(claimDay')
         /\ submission' \in [Keys -> Seq(Round)]
         /\ approving' \subseteq Approval
<1>a. TableOK(claimDay) /\ submission \in [Keys -> Seq(Round)] /\ approving \subseteq Approval
  BY DEF TypeOK, TableOK
<1>1. CASE UNCHANGED ledgerVars
  BY <1>a, <1>1 DEF ledgerVars
<1>2. CASE LedgerContract!DayStep
  <2>1. ASSUME NEW d \in Days, NEW c \in Classification, LedgerContract!Record(d, c)
        PROVE  TableOK(claimDay') /\ UNCHANGED <<submission, approving>>
    <3>1. claimDay' = RecordDay(claimDay, d, c) /\ UNCHANGED <<submission, approving>>
      BY <2>1, SameDayOperators DEF LedgerContract!Record
    <3> QED
      BY <1>a, <3>1, RecordDayOK
  <2>2. ASSUME NEW d \in Days, NEW t \in ClaimTypes \union {NoType}, LedgerContract!Override(d, t)
        PROVE  TableOK(claimDay') /\ UNCHANGED <<submission, approving>>
    <3>1. claimDay' = ApplyOverride(claimDay, d, t) /\ UNCHANGED <<submission, approving>>
      BY <2>2, SameDayOperators DEF LedgerContract!Override
    <3> QED
      BY <1>a, <3>1, ApplyOverrideOK
  <2>3. ASSUME NEW D \in SUBSET Days, NEW s \in {"drafted", "submitted", "needs_input"},
               LedgerContract!MarkDays(D, s)
        PROVE  TableOK(claimDay') /\ UNCHANGED <<submission, approving>>
    <3>1. s \in DayStates
      BY DEF DayStates, ClaimStates, OtherStates
    <3>2. MarkAccepted(claimDay, D, s) /\ claimDay' = MarkDaysState(claimDay, D, s)
          /\ UNCHANGED <<submission, approving>>
      BY <2>3, SameDayOperators DEF LedgerContract!MarkDays
    <3> QED
      BY <1>a, <3>1, <3>2, MarkDaysStateOK
  <2> QED
    BY <1>a, <1>2, <2>1, <2>2, <2>3, SameLedger DEF LedgerContract!DayStep
<1>3. ASSUME NEW k \in Keys, NEW D \in SUBSET Days,
             NEW s \in {"drafted", "awaiting_approval", "failed"}, WritesRow(k, D, s)
      PROVE  submission' \in [Keys -> Seq(Round)] /\ UNCHANGED <<claimDay, approving>>
  <2>1. s \in SubmissionStates /\ submission[k] \in Seq(Round)
    BY <1>a DEF SubmissionStates
  <2>2. UpsertSubmission(submission[k], D, s) \in Seq(Round)
    BY <2>1, UpsertFacts
  <2> QED
    BY <1>a, <1>3, <2>2 DEF WritesRow
<1>4. ASSUME NEW k \in Keys, NEW D \in SUBSET Days, LedgerContract!ApproveCompare(k, D)
      PROVE  approving' \subseteq Approval /\ UNCHANGED <<claimDay, submission>>
  BY <1>a, <1>4 DEF LedgerContract!ApproveCompare, Approval
<1>5. ASSUME NEW a \in approving, LedgerContract!ApproveUpdate(a)
      PROVE  /\ submission' \in [Keys -> Seq(Round)]
             /\ approving' \subseteq Approval /\ UNCHANGED claimDay
  <2>1. a.key \in Keys /\ submission[a.key] \in Seq(Round) /\ "approved" \in SubmissionStates
    BY <1>a DEF Approval, SubmissionStates
  <2>2. UpdateWhere(submission[a.key], ApproveFrom, "approved") \in Seq(Round)
    BY <2>1, UpdateWhereFacts
  <2>3. /\ submission' = [submission EXCEPT ![a.key] =
             UpdateWhere(submission[a.key], ApproveFrom, "approved")]
        /\ approving' = approving \ {a} /\ UNCHANGED claimDay
    BY <1>5, SameRoundOperators DEF LedgerContract!ApproveUpdate
  <2> QED
    BY <1>a, <2>1, <2>2, <2>3
<1>6. ASSUME NEW k \in Keys, NEW S, NEW s \in SubmissionStates,
             submission' = [submission EXCEPT ![k] = UpdateWhere(submission[k], S, s)]
      PROVE  submission' \in [Keys -> Seq(Round)]
  <2>1. UpdateWhere(submission[k], S, s) \in Seq(Round)
    BY <1>a, UpdateWhereFacts
  <2> QED
    BY <1>a, <1>6, <2>1
<1>7. ASSUME NEW k \in Keys, LedgerContract!Reject(k)
      PROVE  submission' \in [Keys -> Seq(Round)] /\ UNCHANGED <<claimDay, approving>>
  <2>1. "rejected" \in SubmissionStates
    BY DEF SubmissionStates
  <2>2. submission' = [submission EXCEPT ![k] = UpdateWhere(submission[k], RejectFrom, "rejected")]
        /\ UNCHANGED <<claimDay, approving>>
    BY <1>7, SameRoundOperators DEF LedgerContract!Reject
  <2> QED
    BY <1>6, <1>7, <2>1, <2>2
<1>8. ASSUME NEW k \in Keys, NEW s \in SubmissionStates \ {"rejected"},
             LedgerContract!SetState(k, s)
      PROVE  submission' \in [Keys -> Seq(Round)] /\ UNCHANGED <<claimDay, approving>>
  <2>1. submission' = [submission EXCEPT ![k] = SetSubmissionState(submission[k], s)]
        /\ UNCHANGED <<claimDay, approving>>
    BY <1>8, SameRoundOperators DEF LedgerContract!SetState
  <2> QED
    BY <1>6, <2>1 DEF SetSubmissionState
<1>9. ASSUME NEW k \in Keys, NEW D \in SUBSET Days,
             LedgerContract!SetStateWithDigest(k, "awaiting_approval", D)
      PROVE  submission' \in [Keys -> Seq(Round)] /\ UNCHANGED <<claimDay, approving>>
  <2>1. submission[k] \in Seq(Round) /\ "awaiting_approval" \in SubmissionStates
    BY <1>a DEF SubmissionStates
  <2>2. SetStateAndDigest(submission[k], "awaiting_approval", D) \in Seq(Round)
    BY <2>1, SetStateAndDigestFacts
  <2>3. submission' = [submission EXCEPT ![k] =
                         SetStateAndDigest(submission[k], "awaiting_approval", D)]
        /\ UNCHANGED <<claimDay, approving>>
    BY <1>9, SameRoundOperators DEF LedgerContract!SetStateWithDigest
  <2> QED
    BY <1>a, <2>2, <2>3
<1> QED
  BY <1>a, <1>1, <1>2, <1>3, <1>4, <1>5, <1>7, <1>8, <1>9 DEF LedgerStep

-----------------------------------------------------------------------------
(* AFAS, the cards, the bounds and the record of what happened *)

Budgets == [change: 0 .. MaxChanges, crash: 0 .. MaxCrashes, fault: 0 .. MaxFaults,
            hand: 0 .. MaxHandEdits, flip: 0 .. MaxFlips]

Histories == [approved: SUBSET Approval,
              decision: [Keys -> {"none", "approved", "rejected"}],
              clicks: [Keys -> 0 .. 2],
              filed: SUBSET (ClaimTypes \X Days)]

LEMMA SpendOK ==
  ASSUME budget \in Budgets, NEW b \in {"change", "crash", "fault", "hand", "flip"}, Spend(b)
  PROVE  budget' \in Budgets
<1>1. /\ budget.change \in Nat /\ budget.crash \in Nat /\ budget.fault \in Nat
      /\ budget.hand \in Nat /\ budget.flip \in Nat
  BY DEF Budgets
<1> QED
  BY <1>1, BoundsAssumption DEF Budgets, Spend

LEMMA AddTaskOK ==
  ASSUME tasks \subseteq Task, NEW t \in ClaimTypes, NEW D \in SUBSET Days, AddTask(t, D, "draft")
  PROVE  tasks' \subseteq Task
<1> DEFINE i == CHOOSE i \in FreeIds : \A j \in FreeIds : i <= j
<1>1. FreeIds \in SUBSET Nat /\ FreeIds \subseteq TaskIds /\ FreeIds # {}
  BY TaskIdsAssumption DEF FreeIds, AddTask
<1>2. \E m \in FreeIds : \A j \in FreeIds : m <= j
  BY <1>1, LeastExists
<1>3. i \in TaskIds
  BY <1>1, <1>2
<1>4. tasks' = tasks \union {[id |-> i, type |-> t, days |-> D, status |-> "draft",
                              filedBy |-> "nobody"]}
  BY DEF AddTask
<1> HIDE DEF i
<1>5. [id |-> i, type |-> t, days |-> D, status |-> "draft", filedBy |-> "nobody"] \in Task
  BY <1>3 DEF Task
<1> QED
  BY <1>4, <1>5

LEMMA LandsOK ==
  ASSUME tasks \subseteq Task, NEW x \in tasks, NEW who \in {"app", "hand"}, Lands(x, who)
  PROVE  tasks' \subseteq Task /\ {x.type} \X x.days \subseteq ClaimTypes \X Days
<1>1. x \in Task
  OBVIOUS
<1>2. FiledBy(x, who) \in Task
  BY <1>1 DEF FiledBy, Task
<1>3. x.type \in ClaimTypes /\ x.days \in SUBSET Days
  BY <1>1 DEF Task
<1> QED
  BY <1>2, <1>3 DEF Lands


RestOK ==
  /\ tasks \subseteq Task
  /\ cards \subseteq Card
  /\ budget \in Budgets
  /\ history \in Histories
  /\ dryRun \in BOOLEAN

\* Types, part by part.
LEMMA TypeParts ==
  TypeOK <=> /\ TableOK(claimDay)
             /\ submission \in [Keys -> Seq(Round)]
             /\ approving \subseteq Approval
             /\ RestOK
             /\ lock \in {NoOne, "build", "submit"}
             /\ build \in BuildMemory
             /\ submit \in SubmitMemory
BY DEF TypeOK, TableOK, RestOK, Budgets, Histories, BuildMemory, SubmitMemory

\* A build posts cards and creates drafts.
LEMMA BuildRest ==
  ASSUME CycleInv, BuildNext
  PROVE  RestOK' /\ UNCHANGED <<history, dryRun>>
<1>a. RestOK /\ BuildOK /\ build.pos \in Positions
  BY TypeParts DEF CycleInv, BuildMemory
<1>b. Todo \in SUBSET Days /\ build.pos.absent \in SUBSET Days
  BY <1>a DEF Todo, Positions
<1>1. ASSUME UNCHANGED <<tasks, cards, history, dryRun>>,
             UNCHANGED budget \/ Spend("fault") \/ Spend("crash")
      PROVE  RestOK' /\ UNCHANGED <<history, dryRun>>
  BY <1>a, <1>1, SpendOK DEF RestOK
<1>2. CASE BuildCreate
  <2>1. BuildKey.type \in ClaimTypes
    BY <1>2, <1>a, BuildKeyIsKey DEF BuildCreate, Keys
  <2>2. tasks' \subseteq Task
    BY <1>2, <1>a, <1>b, <2>1, AddTaskOK DEF BuildCreate, RestOK
  <2>3. budget' \in Budgets
    BY <1>2, <1>a, SpendOK DEF BuildCreate, RestOK
  <2> QED
    BY <1>2, <1>a, <2>2, <2>3 DEF BuildCreate, RestOK
<1>3. CASE BuildCard
  <2>1. BuildKey \in Keys
    BY <1>3, <1>a, BuildKeyIsKey DEF BuildCard
  <2>2. cards' \subseteq Card
    BY <1>3, <1>a, <1>b, <2>1 DEF BuildCard, PostCard, Card, RestOK
  <2> QED
    BY <1>3, <1>a, <2>2 DEF BuildCard, RestOK
<1>4. CASE BuildPlan \/ BuildLock \/ BuildRead \/ Rehearse \/ WaitForOtherDraft \/ GoLive
           \/ BuildVerify \/ NothingToFile \/ BuildRecord
  BY <1>1, <1>4 DEF BuildPlan, BuildLock, BuildRead, Rehearse, WaitForOtherDraft, GoLive,
     BuildVerify, NothingToFile, BuildRecord
<1>5. CASE BuildMarkFiled \/ BuildMarkConflict \/ BuildMarkDrafted
  BY <1>1, <1>5 DEF BuildMarkFiled, BuildMarkConflict, BuildMarkDrafted, BuildMark
<1>6. CASE RefuseMismatch \/ BuildVerifyFails
  BY <1>1, <1>6 DEF RefuseMismatch, BuildVerifyFails, FailItem
<1>7. CASE BuildRaises \/ BuildSqlRaises \/ BuildCrash
  BY <1>1, <1>7 DEF BuildRaises, BuildSqlRaises, BuildCrash
<1> QED
  BY <1>2, <1>3, <1>4, <1>5, <1>6, <1>7 DEF BuildNext, BuildStep

\* A submit run clicks, posts cards, and takes approvals back.
LEMMA SubmitRest ==
  ASSUME CycleInv, SubmitNext
  PROVE  RestOK' /\ UNCHANGED dryRun
<1>a. RestOK /\ SubmitOK /\ submit.days \in SUBSET Days
  BY TypeParts DEF CycleInv, SubmitMemory
<1>1. ASSUME UNCHANGED <<tasks, cards, history, dryRun>>,
             UNCHANGED budget \/ Spend("fault") \/ Spend("crash")
      PROVE  RestOK' /\ UNCHANGED dryRun
  BY <1>a, <1>1, SpendOK DEF RestOK
<1>2. CASE SubmitRehearse
  <2>1. First(DOMAIN submit.rows) \in Keys
    BY <1>a, <1>2, AfterRowOK DEF SubmitRehearse
  <2>2. history' \in Histories
    BY <1>2, <1>a, <2>1 DEF SubmitRehearse, RestOK, Histories
  <2> QED
    BY <1>2, <1>a, <2>2 DEF SubmitRehearse, RestOK
<1>3. CASE SettleDraft
  <2>1. SubmitKey \in Keys
    BY <1>3, <1>a, SubmitKeyIsKey DEF SettleDraft, SubmitOK, SubmitLists
  <2>2. cards' \subseteq Card
    BY <1>3, <1>a, <2>1 DEF SettleDraft, PostCard, Card, RestOK
  <2> QED
    BY <1>3, <1>a, <2>2 DEF SettleDraft, RestOK
<1>4. CASE FileClick
  <2>1. SubmitKey \in Keys
    BY <1>4, <1>a, SubmitKeyIsKey DEF FileClick, SubmitOK, SubmitLists
  <2> DEFINE n == history.clicks[SubmitKey]
             clicks == [history.clicks EXCEPT ![SubmitKey] = IF n = 2 THEN 2 ELSE n + 1]
  <2>2. history.clicks \in [Keys -> 0 .. 2] /\ history.filed \subseteq ClaimTypes \X Days
    BY <1>a DEF RestOK, Histories
  <2>3. n \in 0 .. 2
    BY <2>1, <2>2
  <2>4. (IF n = 2 THEN 2 ELSE n + 1) \in 0 .. 2
    BY <2>3
  <2>5. clicks \in [Keys -> 0 .. 2]
    BY <2>2, <2>4
  <2>6. PICK x \in OpenDrafts(SubmitKey.type) :
          \/ /\ Lands(x, "app") /\ UNCHANGED budget
             /\ history' = [history EXCEPT !.clicks = clicks,
                                           !.filed = history.filed \union ({x.type} \X x.days)]
          \/ /\ Spend("fault") /\ UNCHANGED tasks
             /\ history' = [history EXCEPT !.clicks = clicks]
    BY <1>4 DEF FileClick
  <2>7. x \in tasks
    BY DEF OpenDrafts
  <2> HIDE DEF clicks
  <2>8. CASE Lands(x, "app") /\ UNCHANGED budget
             /\ history' = [history EXCEPT !.clicks = clicks,
                                           !.filed = history.filed \union ({x.type} \X x.days)]
    <3>1. tasks' \subseteq Task /\ {x.type} \X x.days \subseteq ClaimTypes \X Days
      BY <1>a, <2>7, <2>8, LandsOK DEF RestOK
    <3>2. history.filed \union ({x.type} \X x.days) \in SUBSET (ClaimTypes \X Days)
      BY <2>2, <3>1
    <3>3. history' \in Histories
      BY <1>a, <2>5, <2>8, <3>2 DEF RestOK, Histories
    <3> QED
      BY <1>4, <1>a, <2>8, <3>1, <3>3 DEF FileClick, RestOK
  <2>9. CASE Spend("fault") /\ UNCHANGED tasks /\ history' = [history EXCEPT !.clicks = clicks]
    <3>1. history' \in Histories
      BY <1>a, <2>5, <2>9 DEF RestOK, Histories
    <3> QED
      BY <1>4, <1>a, <2>9, <3>1, SpendOK DEF FileClick, RestOK
  <2> QED
    BY <2>6, <2>8, <2>9
<1>5. CASE SubmitSelect \/ SubmitCheck \/ SubmitLock \/ SubmitRead \/ SubmitRecord
           \/ SubmitRecordDays \/ SettleFiled \/ SettleRecord
  BY <1>1, <1>5 DEF SubmitSelect, SubmitCheck, SubmitLock, SubmitRead, SubmitRecord,
     SubmitRecordDays, SettleFiled, SettleRecord
<1>6. CASE SettleFailed \/ FileAlreadyFiled \/ FileDraftChanged \/ FileBlocked \/ FileInFlight
           \/ FileVerify \/ FileUnconfirmed
  BY <1>1, <1>6 DEF SettleFailed, FileAlreadyFiled, FileDraftChanged, FileBlocked,
     FileInFlight, FileVerify, FileUnconfirmed, EndRowAs
<1>7. CASE FileRaises \/ SubmitCrash
  BY <1>1, <1>7 DEF FileRaises, SubmitCrash
<1> QED
  BY <1>2, <1>3, <1>4, <1>5, <1>6, <1>7 DEF SubmitNext, SubmitStep

\* People decide and correct.
LEMMA SlackdRest ==
  ASSUME CycleInv, SlackdNext
  PROVE  RestOK' /\ UNCHANGED <<dryRun, lock, build, submit>>
<1>a. RestOK /\ approving \subseteq Approval
  BY TypeParts DEF CycleInv
<1>b. \A c \in cards \union approving : c \in Approval /\ c.key \in Keys
  BY <1>a DEF RestOK, Card, Approval
<1>1. ASSUME NEW d \in Days, NEW t \in ClaimTypes \union {NoType}, Correct(d, t)
      PROVE  RestOK' /\ UNCHANGED <<dryRun, lock, build, submit>>
  BY <1>a, <1>1, SpendOK DEF Correct, RestOK
<1>2. ASSUME NEW d \in Days, NEW c \in Classification, Classify(d, c)
      PROVE  RestOK' /\ UNCHANGED <<dryRun, lock, build, submit>>
  BY <1>a, <1>2, SpendOK DEF Classify, RestOK
<1>3. ASSUME NEW c \in cards, ApproveCompare(c)
      PROVE  RestOK' /\ UNCHANGED <<dryRun, lock, build, submit>>
  BY <1>a, <1>3 DEF ApproveCompare, RestOK
<1>4. ASSUME NEW c \in cards, Reject(c)
      PROVE  RestOK' /\ UNCHANGED <<dryRun, lock, build, submit>>
  <2>1. history' \in Histories
    BY <1>a, <1>b, <1>4 DEF Reject, RestOK, Histories
  <2> QED
    BY <1>a, <1>4, <2>1 DEF Reject, Decided, RestOK
<1>5. ASSUME NEW a \in approving, ApproveUpdate(a)
      PROVE  RestOK' /\ UNCHANGED <<dryRun, lock, build, submit>>
  <2>1. CASE UNCHANGED <<cards, history>>
    BY <1>a, <1>5, <2>1 DEF ApproveUpdate, RestOK
  <2>2. CASE /\ Decided(a)
             /\ history' = [history EXCEPT !.approved = @ \union {a},
                              !.decision[a.key] = "approved", !.clicks[a.key] = 0]
    <3>1. a \in Approval /\ a.key \in Keys
      BY <1>b
    <3>2. history.approved \union {a} \in SUBSET Approval
      BY <1>a, <3>1 DEF RestOK, Histories
    <3>3. [history.clicks EXCEPT ![a.key] = 0] \in [Keys -> 0 .. 2]
      <4>1. history.clicks \in [Keys -> 0 .. 2]
        BY <1>a DEF RestOK, Histories
      <4>2. 0 \in 0 .. 2
        OBVIOUS
      <4> QED
        BY <4>1, <4>2
    <3>4. history' \in Histories
      BY <1>a, <2>2, <3>1, <3>2, <3>3 DEF RestOK, Histories
    <3> QED
      BY <1>a, <1>5, <2>2, <3>4 DEF ApproveUpdate, Decided, RestOK
  <2> QED
    BY <1>5, <2>1, <2>2 DEF ApproveUpdate
<1> QED
  BY <1>1, <1>2, <1>3, <1>4, <1>5 DEF SlackdNext, LedgerInput, Decide

\* People work in AFAS by hand.
LEMMA HandRest ==
  ASSUME CycleInv, HandStep
  PROVE  RestOK' /\ UNCHANGED <<ledgerVars, dryRun, lock, build, submit>>
<1>a. RestOK
  BY TypeParts DEF CycleInv
<1>b. budget' \in Budgets /\ UNCHANGED <<ledgerVars, cards, dryRun, lock, build, submit>>
  BY <1>a, SpendOK DEF HandStep, Outside, RestOK
<1>c. \A x \in tasks : x \in Task /\ x.type \in ClaimTypes /\ x.days \in SUBSET Days
  BY <1>a DEF RestOK, Task
<1>1. ASSUME tasks' \subseteq Task, history' = history
      PROVE  RestOK' /\ UNCHANGED <<ledgerVars, dryRun, lock, build, submit>>
  BY <1>a, <1>b, <1>1 DEF RestOK
<1>2. ASSUME NEW x \in tasks, DeleteDraft(x)
      PROVE  RestOK' /\ UNCHANGED <<ledgerVars, dryRun, lock, build, submit>>
  BY <1>a, <1>1, <1>2 DEF DeleteDraft, RestOK
<1>3. ASSUME NEW x \in tasks, FileByHand(x)
      PROVE  RestOK' /\ UNCHANGED <<ledgerVars, dryRun, lock, build, submit>>
  <2>1. tasks' \subseteq Task /\ {x.type} \X x.days \subseteq ClaimTypes \X Days
    BY <1>a, <1>3, LandsOK DEF FileByHand, RestOK
  <2>2. history.filed \union ({x.type} \X x.days) \in SUBSET (ClaimTypes \X Days)
    BY <1>a, <2>1 DEF RestOK, Histories
  <2>3. history' \in Histories
    BY <1>a, <1>3, <2>2 DEF FileByHand, RestOK, Histories
  <2> QED
    BY <1>a, <1>b, <2>1, <2>3 DEF RestOK
<1>4. ASSUME NEW x \in tasks, NEW D \in SUBSET Days, EditDraft(x, D)
      PROVE  RestOK' /\ UNCHANGED <<ledgerVars, dryRun, lock, build, submit>>
  <2>1. [x EXCEPT !.days = D] \in Task
    BY <1>c DEF Task
  <2> QED
    BY <1>a, <1>1, <1>4, <2>1 DEF EditDraft, RestOK
<1>5. ASSUME NEW x \in tasks, ManagerRejects(x)
      PROVE  RestOK' /\ UNCHANGED <<ledgerVars, dryRun, lock, build, submit>>
  <2>1. [x EXCEPT !.status = "other"] \in Task
    BY <1>c DEF Task
  <2> QED
    BY <1>a, <1>1, <1>5, <2>1 DEF ManagerRejects, RestOK
<1>6. ASSUME NEW t \in ClaimTypes, NEW D \in SUBSET Days, DraftByHand(t, D)
      PROVE  RestOK' /\ UNCHANGED <<ledgerVars, dryRun, lock, build, submit>>
  BY <1>a, <1>1, <1>6, AddTaskOK DEF DraftByHand, RestOK
<1> QED
  BY <1>2, <1>3, <1>4, <1>5, <1>6 DEF HandStep


-----------------------------------------------------------------------------
(* Type correctness *)

LEMMA CycleInit == Init => CycleInv
<1> SUFFICES ASSUME Init
             PROVE  CycleInv
  OBVIOUS
<1>1. TableOK(claimDay)
  <2>1. NoRow \in DayRow /\ StateMatchesClaimType(NoRow)
    BY DEF NoRow, DayRow, StateMatchesClaimType, ClaimStates
  <2>2. \A row \in FreshRow : row \in DayRow /\ StateMatchesClaimType(row)
    BY <2>1, ClassifiedRowOK DEF FreshRow
  <2>3. claimDay \in [Days -> FreshRow]
    BY InitialDaysAssumption DEF Init
  <2> QED
    BY <2>2, <2>3 DEF TableOK
<1>2. submission \in [Keys -> Seq(Round)] /\ approving \subseteq Approval
  BY DEF Init
<1>3. budget \in Budgets
  BY BoundsAssumption DEF Init, Budgets
<1>4. history \in Histories
  BY DEF Init, Histories
<1>5. RestOK
  BY <1>3, <1>4 DEF Init, RestOK
<1>6. build = IdleBuild /\ submit = IdleSubmit /\ lock = NoOne
  BY DEF Init
<1>7. BuildOK /\ SubmitOK /\ LockIsHeld
  BY <1>6, IdleBuildOK, IdleSubmitOK DEF BuildOK, SubmitOK, SubmitLists, LockIsHeld
<1> QED
  BY <1>1, <1>2, <1>5, <1>6, <1>7, TypeParts DEF CycleInv, BuildOK, SubmitOK

\* Whatever happens between two steps of a job, and wherever it is killed, every
\* part of the state keeps its type, and the jobs hold the lock where they must.
LEMMA CycleStep == CycleInv /\ [Next]_vars => CycleInv' /\ LedgerStep
<1> SUFFICES ASSUME CycleInv, [Next]_vars
             PROVE  CycleInv' /\ LedgerStep
  OBVIOUS
<1>a. /\ TypeOK /\ RestOK /\ BuildOK /\ SubmitOK /\ LockIsHeld
      /\ submission \in [Keys -> Seq(Round)] /\ dryRun \in BOOLEAN
  BY TypeParts DEF CycleInv, RestOK
<1>1. ASSUME LedgerStep, RestOK', BuildOK', SubmitOK', LockIsHeld'
      PROVE  CycleInv'
  <2>1. /\ TableOK(claimDay') /\ submission' \in [Keys -> Seq(Round)]
        /\ approving' \subseteq Approval
    BY <1>a, <1>1, LedgerStepOK
  <2>2. (TableOK(claimDay))'
    BY <2>1 DEF TableOK
  <2>3. (build \in BuildMemory)' /\ (submit \in SubmitMemory)'
    BY <1>1 DEF BuildOK, SubmitOK
  <2>4. TypeOK'
    BY <1>1, <2>1, <2>2, <2>3
       DEF TypeOK, TableOK, RestOK, Budgets, Histories, BuildMemory, SubmitMemory, LockIsHeld
  <2> QED
    BY <1>1, <2>4 DEF CycleInv
<1>2. CASE BuildNext
  <2>1. LedgerStep /\ RestOK' /\ BuildOK' /\ LockIsHeld' /\ submit' = submit
    BY <1>2, <1>a, BuildCallsLedger, BuildRest, BuildStepOK
  <2>2. SubmitOK'
    BY <1>a, <2>1 DEF SubmitOK, SubmitLists
  <2> QED
    BY <1>1, <2>1, <2>2
<1>3. CASE SubmitNext
  <2>1. LedgerStep /\ RestOK' /\ SubmitOK' /\ LockIsHeld' /\ build' = build
    BY <1>3, <1>a, SubmitCallsLedger, SubmitRest, SubmitStepOK
  <2>2. BuildOK'
    BY <1>a, <2>1 DEF BuildOK
  <2> QED
    BY <1>1, <2>1, <2>2
<1>4. ASSUME LedgerStep, RestOK', UNCHANGED <<lock, build, submit>>
      PROVE  CycleInv' /\ LedgerStep
  <2>1. BuildOK' /\ SubmitOK' /\ LockIsHeld'
    BY <1>a, <1>4 DEF BuildOK, SubmitOK, SubmitLists, LockIsHeld
  <2> QED
    BY <1>1, <1>4, <2>1
<1>5. CASE SlackdNext
  BY <1>4, <1>5, SlackdCallsLedger, SlackdRest
<1>6. CASE HandStep
  BY <1>4, <1>6, HandRest DEF LedgerStep
<1>7. CASE Flip
  <2>1. RestOK'
    BY <1>a, <1>7, SpendOK DEF Flip, RestOK
  <2> QED
    BY <1>4, <1>7, <2>1 DEF Flip, LedgerStep
<1>8. CASE UNCHANGED vars
  <2>1. RestOK'
    BY <1>a, <1>8 DEF vars, RestOK
  <2> QED
    BY <1>4, <1>8, <2>1 DEF vars, ledgerVars, LedgerStep
<1> QED
  BY <1>2, <1>3, <1>5, <1>6, <1>7, <1>8 DEF Next

\* Every row, task, card and memory keeps its type, for every number of changes,
\* crashes, faults and edits by hand.
THEOREM CycleTypeCorrect == Spec => []TypeOK
<1>1. CycleInv => TypeOK
  BY DEF CycleInv
<1> QED
  BY <1>1, CycleInit, CycleStep, PTL DEF Spec

-----------------------------------------------------------------------------
(* The cycle implements the ledger's contract *)

\* No key has more rounds than LedgerSpec's bound.
RoundsWithinBound == \A k \in Keys : Len(submission[k]) <= MaxRounds

\* The bound aside, a call of the ledger is a step of LedgerSpec.
LEMMA LedgerStepIsAllowed ==
  ASSUME TypeOK, LedgerStep, RoundsWithinBound'
  PROVE  [LedgerContract!Next]_(LedgerContract!vars)
<1>1. CASE UNCHANGED ledgerVars
  BY <1>1 DEF ledgerVars, LedgerContract!vars
<1>2. ASSUME NEW k \in Keys, NEW D \in SUBSET Days,
             NEW s \in {"drafted", "awaiting_approval", "failed"}, WritesRow(k, D, s)
      PROVE  LedgerContract!Upsert(k, D, s)
  <2>1. submission \in [Keys -> Seq(Round)] /\ submission[k] \in Seq(Round)
    BY DEF TypeOK
  <2>2. submission'[k] = UpsertSubmission(submission[k], D, s)
    BY <1>2, <2>1 DEF WritesRow
  <2>3. ASSUME NeedsNewRound(submission[k])
        PROVE  Len(submission[k]) < MaxRounds
    <3>1. submission'[k] = Append(submission[k], [state |-> s, digest |-> D])
      BY <2>2, <2>3 DEF UpsertSubmission
    <3>2. Len(submission'[k]) = Len(submission[k]) + 1
      BY <2>1, <3>1
    <3>3. Len(submission'[k]) <= MaxRounds
      BY DEF RoundsWithinBound, Keys
    <3> QED
      BY <2>1, <3>2, <3>3, BoundsAssumption
  <2> QED
    BY <1>2, <2>3, SameRoundOperators DEF WritesRow, LedgerContract!Upsert
<1> QED
  BY <1>1, <1>2, SameLedger DEF LedgerStep, LedgerContract!Next, LedgerContract!SubmissionStep

\* The jobs, the handlers and the people make no call that LedgerSpec does not
\* allow.  LedgerSpec bounds the rounds of a key; the code does not, so the theorem
\* is about behaviours within that bound, whatever the bound is.
THEOREM CycleImplementsLedger == Spec /\ []RoundsWithinBound => ImplementsLedger
<1>1. Init => LedgerContract!Init
  <2>1. ASSUME Init
        PROVE  LedgerContract!Init
    <3>1. claimDay \in [Days -> FreshRow]
      BY <2>1, InitialDaysAssumption DEF Init
    <3> QED
      BY <2>1, <3>1, SameLedger DEF Init, LedgerContract!Init
  <2> QED
    BY <2>1
<1>2. CycleInv /\ [Next]_vars /\ RoundsWithinBound' => [LedgerContract!Next]_(LedgerContract!vars)
  BY CycleStep, LedgerStepIsAllowed DEF CycleInv
<1> QED
  BY <1>1, <1>2, CycleInit, CycleStep, PTL DEF Spec, ImplementsLedger, LedgerContract!Spec

-----------------------------------------------------------------------------
(* What a person's decision is good for *)

\* A row does not go away.
LEMMA RowsStay ==
  ASSUME TypeOK, LedgerStep, NEW k \in Keys, StateOf(submission[k]) # "none"
  PROVE  StateOf(submission'[k]) # "none"
<1>a. submission \in [Keys -> Seq(Round)] /\ approving \subseteq Approval /\ "none" \notin SubmissionStates
  BY DEF TypeOK, SubmissionStates
<1>1. ASSUME NEW j \in Keys, NEW new, submission' = [submission EXCEPT ![j] = new],
             StateOf(new) \in SubmissionStates \union {StateOf(submission[j])}
      PROVE  StateOf(submission'[k]) # "none"
  <2>1. submission'[k] = IF k = j THEN new ELSE submission[k]
    BY <1>a, <1>1
  <2>2. StateOf(new) # "none" \/ k # j
    BY <1>a, <1>1
  <2> QED
    BY <2>1, <2>2
<1>2. ASSUME NEW j \in Keys, NEW S \in SUBSET SubmissionStates, NEW s \in SubmissionStates,
             submission' = [submission EXCEPT ![j] = UpdateWhere(submission[j], S, s)]
      PROVE  StateOf(submission'[k]) # "none"
  <2>1. StateOf(UpdateWhere(submission[j], S, s))
          = IF StateOf(submission[j]) \in S THEN s ELSE StateOf(submission[j])
    BY <1>a, StateAfterUpdate
  <2> QED
    BY <1>1, <1>2, <2>1
<1>b. {"approved", "rejected", "awaiting_approval", "drafted", "failed"} \subseteq SubmissionStates
  BY DEF SubmissionStates
<1>c. /\ ApproveFrom \in SUBSET SubmissionStates /\ RejectFrom \in SUBSET SubmissionStates
      /\ SetFrom \in SUBSET SubmissionStates
  BY DEF ApproveFrom, RejectFrom, SetFrom, SubmissionStates
<1>3. CASE UNCHANGED ledgerVars \/ LedgerContract!DayStep
  BY <1>3 DEF ledgerVars, LedgerContract!DayStep, LedgerContract!Record,
     LedgerContract!Override, LedgerContract!MarkDays
<1>4. ASSUME NEW j \in Keys, NEW D \in SUBSET Days,
             NEW s \in {"drafted", "awaiting_approval", "failed"}, WritesRow(j, D, s)
      PROVE  StateOf(submission'[k]) # "none"
  <2>1. StateOf(UpsertSubmission(submission[j], D, s)) \in {s, StateOf(submission[j])}
    BY <1>a, <1>b, StateAfterUpsert
  <2> QED
    BY <1>1, <1>4, <1>b, <2>1 DEF WritesRow
<1>5. ASSUME NEW j \in Keys, NEW D \in SUBSET Days, LedgerContract!ApproveCompare(j, D)
      PROVE  StateOf(submission'[k]) # "none"
  BY <1>5 DEF LedgerContract!ApproveCompare
<1>6. ASSUME NEW a \in approving, LedgerContract!ApproveUpdate(a)
      PROVE  StateOf(submission'[k]) # "none"
  <2>1. a.key \in Keys
    BY <1>a DEF Approval
  <2>2. submission' = [submission EXCEPT ![a.key] =
                         UpdateWhere(submission[a.key], ApproveFrom, "approved")]
    BY <1>6, SameRoundOperators DEF LedgerContract!ApproveUpdate
  <2> QED
    BY <1>2, <1>b, <1>c, <2>1, <2>2
<1>7. ASSUME NEW j \in Keys, LedgerContract!Reject(j)
      PROVE  StateOf(submission'[k]) # "none"
  <2>1. submission' = [submission EXCEPT ![j] =
                         UpdateWhere(submission[j], RejectFrom, "rejected")]
    BY <1>7, SameRoundOperators DEF LedgerContract!Reject
  <2> QED
    BY <1>2, <1>b, <1>c, <2>1
<1>8. ASSUME NEW j \in Keys, NEW s \in SubmissionStates \ {"rejected"},
             LedgerContract!SetState(j, s)
      PROVE  StateOf(submission'[k]) # "none"
  <2>1. submission' = [submission EXCEPT ![j] = SetSubmissionState(submission[j], s)]
    BY <1>8, SameRoundOperators DEF LedgerContract!SetState
  <2> QED
    BY <1>2, <1>c, <2>1 DEF SetSubmissionState
<1>9. ASSUME NEW j \in Keys, NEW D \in SUBSET Days,
             LedgerContract!SetStateWithDigest(j, "awaiting_approval", D)
      PROVE  StateOf(submission'[k]) # "none"
  <2>1. submission' = [submission EXCEPT ![j] =
                         SetStateAndDigest(submission[j], "awaiting_approval", D)]
    BY <1>9, SameRoundOperators DEF LedgerContract!SetStateWithDigest
  <2>2. StateOf(SetStateAndDigest(submission[j], "awaiting_approval", D))
          \in {"awaiting_approval", StateOf(submission[j])}
    BY <1>a, <1>b, StateAfterSetDigest
  <2> QED
    BY <1>1, <1>b, <2>1, <2>2
<1> QED
  BY <1>3, <1>4, <1>5, <1>6, <1>7, <1>8, <1>9 DEF LedgerStep


\* What SetState does to what get_submission shows.
LEMMA StateAfterSetState ==
  ASSUME TypeOK, NEW k \in Keys, NEW s \in SubmissionStates, SetState(k, s)
  PROVE  /\ StateOf(submission'[k]) =
              IF StateOf(submission[k]) \in {"submitted", "none"} THEN StateOf(submission[k]) ELSE s
         /\ \A j \in Keys \ {k} : submission'[j] = submission[j]
<1>1. submission \in [Keys -> Seq(Round)] /\ submission[k] \in Seq(Round)
  BY DEF TypeOK
<1>2. submission' = [submission EXCEPT ![k] = UpdateWhere(submission[k], SetFrom, s)]
  BY DEF SetState, SetSubmissionState
<1>3. SetFrom \in SUBSET SubmissionStates
  BY DEF SetFrom
<1>4. StateOf(UpdateWhere(submission[k], SetFrom, s))
        = IF StateOf(submission[k]) \in SetFrom THEN s ELSE StateOf(submission[k])
  BY <1>1, <1>3, StateAfterUpdate
<1>5. StateOf(submission[k]) \in SubmissionStates \union {"none"}
  <2>1. StateOf(submission[k]) # "none" => StateOf(submission[k]) \in SubmissionStates
    BY <1>1, LatestIsRound DEF Round
  <2> QED
    BY <2>1
<1>6. StateOf(submission[k]) \in SetFrom <=> StateOf(submission[k]) \notin {"submitted", "none"}
  BY <1>5 DEF SetFrom, SubmissionStates
<1>7. submission'[k] = UpdateWhere(submission[k], SetFrom, s)
  BY <1>1, <1>2
<1> QED
  BY <1>1, <1>2, <1>4, <1>6, <1>7

\* The build approves nothing, and while submit has the lock it writes no row.
LEMMA BuildApprovesNothing ==
  ASSUME CycleInv, BuildNext
  PROVE  /\ \A k \in Keys :
              StateOf(submission'[k]) = "approved" => StateOf(submission[k]) = "approved"
         /\ lock = "submit" => submission' = submission
<1>a. TypeOK /\ BuildOK /\ LockIsHeld /\ submission \in [Keys -> Seq(Round)]
  BY DEF CycleInv, TypeOK
<1>1. CASE submission' = submission
  BY <1>1
<1>2. ASSUME build.pc \notin {"idle", "planned"},
             NEW s \in {"drafted", "awaiting_approval", "failed"},
             submission' = [submission EXCEPT ![BuildKey] = UpsertSubmission(@, Todo, s)]
      PROVE  /\ \A k \in Keys :
                  StateOf(submission'[k]) = "approved" => StateOf(submission[k]) = "approved"
             /\ lock # "submit"
  <2>1. build.pos \in Positions /\ BuildKey \in Keys
    BY <1>a, <1>2, BuildKeyIsKey DEF BuildOK, BuildMemory
  <2>2. Todo \in SUBSET Days /\ s \in SubmissionStates
    BY <2>1 DEF Todo, Positions, SubmissionStates
  <2>3. StateOf(UpsertSubmission(submission[BuildKey], Todo, s))
          \in {s, StateOf(submission[BuildKey])}
    BY <1>a, <2>1, <2>2, StateAfterUpsert
  <2>4. \A k \in Keys : submission'[k] = IF k = BuildKey
                                         THEN UpsertSubmission(submission[BuildKey], Todo, s)
                                         ELSE submission[k]
    BY <1>a, <1>2
  <2> QED
    BY <1>a, <1>2, <2>3, <2>4 DEF LockIsHeld
<1>3. CASE NothingToFile
  <2>1. BuildKey \in Keys
    BY <1>a, <1>3, BuildKeyIsKey DEF NothingToFile
  <2>2. CASE submission' = [submission EXCEPT ![BuildKey] = SetSubmissionState(@, "submitted")]
    <3>1. SetState(BuildKey, "submitted") /\ "submitted" \in SubmissionStates
      BY <2>2 DEF SetState, SubmissionStates
    <3>2. lock # "submit"
      BY <1>a, <1>3 DEF NothingToFile, LockIsHeld
    <3>3. /\ StateOf(submission'[BuildKey]) \in {"submitted", StateOf(submission[BuildKey])}
          /\ \A k \in Keys \ {BuildKey} : submission'[k] = submission[k]
      BY <1>a, <2>1, <3>1, StateAfterSetState
    <3> QED
      BY <3>2, <3>3
  <2> QED
    BY <1>1, <1>3, <2>2 DEF NothingToFile
<1>4. CASE RefuseMismatch \/ BuildVerifyFails
  BY <1>2, <1>4 DEF RefuseMismatch, BuildVerifyFails, FailItem
<1>5. CASE BuildRecord
  BY <1>2, <1>5 DEF BuildRecord
<1>6. CASE BuildPlan \/ BuildLock \/ BuildRead \/ Rehearse \/ WaitForOtherDraft \/ GoLive
           \/ BuildCreate \/ BuildVerify \/ BuildCard
  BY <1>1, <1>6 DEF BuildPlan, BuildLock, BuildRead, Rehearse, WaitForOtherDraft, GoLive,
     BuildCreate, BuildVerify, BuildCard, ledgerVars
<1>7. CASE BuildMarkFiled \/ BuildMarkConflict \/ BuildMarkDrafted
  BY <1>1, <1>7 DEF BuildMarkFiled, BuildMarkConflict, BuildMarkDrafted, BuildMark
<1>8. CASE BuildRaises \/ BuildSqlRaises \/ BuildCrash
  BY <1>1, <1>8 DEF BuildRaises, BuildSqlRaises, BuildCrash, ledgerVars
<1> QED
  BY <1>3, <1>4, <1>5, <1>6, <1>7, <1>8 DEF BuildNext, BuildStep

\* The rows a submit run may still click for.
Pending == DOMAIN submit.rows \union submit.ready

\* The run may have clicked for k already, and is not done with it.
Clicked(k) ==
  /\ submit.pc \in {"verify", "record", "recordDays"}
  /\ submit.unsettled = {} /\ k = SubmitKey

\* An approval that has not been used: the row is approved, or a run selected it as
\* such and has not clicked for it.
Unused(k) == StateOf(submission[k]) = "approved" \/ (k \in Pending /\ ~ Clicked(k))

\* An approval is used once, and only a person makes one.
ApprovalInv ==
  /\ \A k \in Keys : history.clicks[k] \in {0, 1}
  /\ \A k \in Keys : Unused(k) => history.clicks[k] = 0
  /\ \A k \in Keys : StateOf(submission[k]) = "approved" \/ k \in Pending
                     => history.decision[k] # "none"
  /\ \A k \in Pending : StateOf(submission[k]) # "none"
  /\ ClickIsWrittenAhead

LEMMA PendingOK ==
  ASSUME CycleInv
  PROVE  /\ Pending \in SUBSET Keys
         /\ submit.pc \notin {"rehearse", "check"} => Pending = submit.ready
         /\ submit.pc \in {"file", "fileAct", "click", "verify"} =>
              SubmitKey \in Pending /\ submit.unsettled = {}
<1>1. submit \in SubmitMemory /\ SubmitLists
  BY DEF CycleInv, SubmitOK
<1>2. DOMAIN submit.rows \in SUBSET Keys /\ submit.ready \in SUBSET Keys
  BY <1>1, WorkListFacts DEF SubmitMemory
<1>3. submit.pc \notin {"rehearse", "check"} => DOMAIN submit.rows = {}
  BY <1>1, WorkListFacts DEF SubmitLists
<1>4. ASSUME submit.pc \in {"file", "fileAct", "click", "verify"}
      PROVE  SubmitKey \in submit.ready /\ submit.unsettled = {}
  <2>1. submit.unsettled = {} /\ submit.ready # {}
    BY <1>1, <1>4 DEF SubmitLists
  <2> QED
    BY <2>1, SubmitKeyIsKey DEF CycleInv
<1> QED
  BY <1>2, <1>3, <1>4 DEF Pending


\* A step that neither touches the submit run nor decides anything keeps it.
LEMMA OthersKeepApprovals ==
  ASSUME CycleInv, ApprovalInv, LedgerStep, submit' = submit,
         history'.clicks = history.clicks, history'.decision = history.decision,
         \A k \in Keys : StateOf(submission'[k]) = "approved" => StateOf(submission[k]) = "approved",
         submit.pc \in {"click", "verify"} => submission' = submission
  PROVE  ApprovalInv'
<1>1. /\ Pending' = Pending /\ SubmitKey' = SubmitKey
      /\ \A k \in Keys : Clicked(k)' <=> Clicked(k)
  BY DEF Pending, SubmitKey, Clicked
<1>2. \A k \in Keys : Unused(k)' => Unused(k)
  BY <1>1 DEF Unused
<1>3. Pending \in SUBSET Keys
  BY PendingOK
<1>4. \A k \in Pending : StateOf(submission'[k]) # "none"
  BY <1>3, RowsStay DEF CycleInv, ApprovalInv
<1>5. ClickIsWrittenAhead'
  BY <1>1 DEF ApprovalInv, ClickIsWrittenAhead
<1> QED
  BY <1>1, <1>2, <1>3, <1>4, <1>5 DEF ApprovalInv

\* What a person decides in Slack keeps it: an approval that takes is unused, and no
\* decision takes a row away that is in flight.
LEMMA SlackdKeepsApprovals ==
  ASSUME CycleInv, ApprovalInv, LedgerStep, SlackdNext
  PROVE  ApprovalInv'
<1>a. /\ submission \in [Keys -> Seq(Round)] /\ history \in Histories
      /\ \A c \in cards \union approving : c.key \in Keys
  BY TypeParts DEF CycleInv, RestOK, Card, Approval
<1>b. submit' = submit
  BY SlackdRest
<1>1. CASE LedgerInput \/ \E c \in cards : ApproveCompare(c)
  <2>1. submission' = submission /\ history' = history
    BY <1>1 DEF LedgerInput, Correct, Classify, ApproveCompare
  <2> QED
    BY <1>b, <2>1, OthersKeepApprovals
<1>2. ASSUME NEW c \in cards, Reject(c)
      PROVE  ApprovalInv'
  <2>1. /\ c.key \in Keys /\ RejectFrom \in SUBSET SubmissionStates /\ "rejected" \in SubmissionStates
        /\ submission[c.key] \in Seq(Round)
    BY <1>a DEF RejectFrom, SubmissionStates
  <2>2. /\ StateOf(submission[c.key]) \in {"awaiting_approval", "approved"}
        /\ submission' = [submission EXCEPT ![c.key] =
                            UpdateWhere(submission[c.key], RejectFrom, "rejected")]
    BY <1>2 DEF Reject, RejectFrom
  <2>3. StateOf(UpdateWhere(submission[c.key], RejectFrom, "rejected")) = "rejected"
    BY <2>1, <2>2, StateAfterUpdate DEF RejectFrom
  <2>4. \A k \in Keys : submission'[k] = IF k = c.key
                          THEN UpdateWhere(submission[c.key], RejectFrom, "rejected")
                          ELSE submission[k]
    BY <1>a, <2>2
  <2>5. /\ history'.clicks = history.clicks
        /\ \A k \in Keys : history'.decision[k] = IF k = c.key THEN "rejected"
                                                  ELSE history.decision[k]
    BY <1>2, <1>a, <2>1 DEF Reject, Histories
  <2>6. /\ Pending' = Pending /\ SubmitKey' = SubmitKey
        /\ \A k \in Keys : Clicked(k)' <=> Clicked(k)
    BY <1>b DEF Pending, SubmitKey, Clicked
  <2>7. \A k \in Keys : StateOf(submission'[k]) = "approved" => StateOf(submission[k]) = "approved"
    BY <2>3, <2>4
  <2>8. \A k \in Keys : Unused(k)' => Unused(k)
    BY <2>6, <2>7 DEF Unused
  <2>9. Pending \in SUBSET Keys
    BY PendingOK
  <2>10. \A k \in Pending : StateOf(submission'[k]) # "none"
    BY <2>9, RowsStay DEF CycleInv, ApprovalInv
  <2>11. ClickIsWrittenAhead'
    <3>1. ASSUME submit.pc \in {"click", "verify"}
          PROVE  submission'[SubmitKey] = submission[SubmitKey]
      BY <2>2, <2>4, <3>1, PendingOK DEF ApprovalInv, ClickIsWrittenAhead
    <3> QED
      BY <1>b, <2>6, <3>1 DEF ApprovalInv, ClickIsWrittenAhead
  <2>12. \A k \in Keys : StateOf(submission'[k]) = "approved" \/ k \in Pending
                         => history'.decision[k] # "none"
    BY <2>5, <2>7 DEF ApprovalInv
  <2> QED
    BY <2>5, <2>6, <2>8, <2>10, <2>11, <2>12 DEF ApprovalInv
<1>3. ASSUME NEW a \in approving, ApproveUpdate(a)
      PROVE  ApprovalInv'
  <2>1. /\ a.key \in Keys /\ ApproveFrom \in SUBSET SubmissionStates
        /\ "approved" \in SubmissionStates /\ submission[a.key] \in Seq(Round)
    BY <1>a DEF ApproveFrom, SubmissionStates
  <2> DEFINE new == UpdateWhere(submission[a.key], ApproveFrom, "approved")
  <2>2. submission' = [submission EXCEPT ![a.key] = new]
    BY <1>3 DEF ApproveUpdate
  <2>3. StateOf(new) = IF StateOf(submission[a.key]) \in ApproveFrom
                       THEN "approved" ELSE StateOf(submission[a.key])
    BY <2>1, StateAfterUpdate
  <2>4. \A k \in Keys : submission'[k] = IF k = a.key THEN new ELSE submission[k]
    BY <1>a, <2>2
  <2> HIDE DEF new
  <2>5. /\ Pending' = Pending /\ SubmitKey' = SubmitKey
        /\ \A k \in Keys : Clicked(k)' <=> Clicked(k)
    BY <1>b DEF Pending, SubmitKey, Clicked
  <2>6. Pending \in SUBSET Keys
    BY PendingOK
  <2>7. \A k \in Pending : StateOf(submission'[k]) # "none"
    BY <2>6, RowsStay DEF CycleInv, ApprovalInv
  <2>8. ClickIsWrittenAhead'
    <3>1. ASSUME submit.pc \in {"click", "verify"}
          PROVE  StateOf(submission'[SubmitKey]) = StateOf(submission[SubmitKey])
      BY <2>3, <2>4, <3>1, PendingOK DEF ApprovalInv, ClickIsWrittenAhead, ApproveFrom
    <3> QED
      BY <1>b, <2>5, <3>1 DEF ApprovalInv, ClickIsWrittenAhead
  <2>9. CASE StateOf(submission[a.key]) \in ApproveFrom
    <3>1. history' = [history EXCEPT !.approved = @ \union {a},
                        !.decision[a.key] = "approved", !.clicks[a.key] = 0]
      BY <1>3, <2>9 DEF ApproveUpdate
    <3>2. \A k \in Keys :
            /\ history'.clicks[k] = IF k = a.key THEN 0 ELSE history.clicks[k]
            /\ history'.decision[k] = IF k = a.key THEN "approved" ELSE history.decision[k]
      BY <1>a, <2>1, <3>1 DEF Histories
    <3>3. \A k \in Keys : StateOf(submission'[k]) = "approved" =>
            k = a.key \/ StateOf(submission[k]) = "approved"
      BY <2>4
    <3>4. \A k \in Keys : Unused(k)' => k = a.key \/ Unused(k)
      BY <2>5, <3>3 DEF Unused
    <3>5. \A k \in Keys : history'.clicks[k] \in {0, 1}
      BY <3>2 DEF ApprovalInv
    <3>6. \A k \in Keys : Unused(k)' => history'.clicks[k] = 0
      BY <3>2, <3>4 DEF ApprovalInv
    <3>7. \A k \in Keys : StateOf(submission'[k]) = "approved" \/ k \in Pending
                          => history'.decision[k] # "none"
      BY <3>2, <3>3 DEF ApprovalInv
    <3> QED
      BY <2>5, <2>7, <2>8, <3>5, <3>6, <3>7 DEF ApprovalInv
  <2>10. CASE StateOf(submission[a.key]) \notin ApproveFrom
    <3>1. history' = history
      BY <1>3, <2>10 DEF ApproveUpdate
    <3>2. \A k \in Keys : StateOf(submission'[k]) = StateOf(submission[k])
      BY <2>3, <2>4, <2>10
    <3>3. \A k \in Keys : Unused(k)' => Unused(k)
      BY <2>5, <3>2 DEF Unused
    <3> QED
      BY <2>5, <2>7, <2>8, <3>1, <3>2, <3>3 DEF ApprovalInv
  <2> QED
    BY <2>9, <2>10
<1> QED
  BY <1>1, <1>2, <1>3 DEF SlackdNext, Decide


\* A step of the run that clicks for nothing keeps it, as long as it approves nothing
\* but a row it has not clicked for.
LEMMA NoClickKeepsApprovals ==
  ASSUME CycleInv, ApprovalInv, LedgerStep, history' = history,
         \A k \in Pending' : k \in Pending /\ (Clicked(k) => Clicked(k)'),
         \A k \in Keys : StateOf(submission'[k]) = "approved" => Unused(k),
         ClickIsWrittenAhead'
  PROVE  ApprovalInv'
<1>1. Pending \in SUBSET Keys
  BY PendingOK
<1>2. \A k \in Keys : Unused(k)' => Unused(k)
  BY DEF Unused
<1>3. \A k \in Pending' : StateOf(submission'[k]) # "none"
  BY <1>1, RowsStay DEF CycleInv, ApprovalInv
<1>4. \A k \in Keys : StateOf(submission'[k]) = "approved" \/ k \in Pending'
                      => StateOf(submission[k]) = "approved" \/ k \in Pending
  BY DEF Unused
<1> QED
  BY <1>2, <1>3, <1>4 DEF ApprovalInv

\* The end of a row, in a state that is not approved or is an unused approval's.
LEMMA EndRowKeepsApprovals ==
  ASSUME CycleInv, ApprovalInv, LedgerStep, history' = history,
         submit.pc \notin {"idle", "rehearse", "check", "lock"}, EndRow,
         NEW s \in SubmissionStates, SetState(SubmitKey, s) \/ submission' = submission,
         s = "approved" => Unused(SubmitKey)
  PROVE  ApprovalInv'
<1>1. SubmitOK /\ submit.pc \in SubmitPcs /\ TypeOK
  BY DEF CycleInv, SubmitOK, SubmitMemory
<1>2. /\ SubmitOK'
      /\ submit'.pc \in {"idle", "settle", "file"}
      /\ submit'.ready \subseteq submit.ready
      /\ submit.unsettled = {} => SubmitKey \notin submit'.ready
  BY <1>1, EndRowOK
<1>3. Pending' = submit'.ready /\ Pending = submit.ready
  <2>1. submit'.rows = <<>>
    BY <1>2 DEF SubmitOK, SubmitLists
  <2> QED
    BY <2>1, PendingOK, WorkListFacts DEF Pending
<1>4. \A k \in Pending' : k \in Pending /\ (Clicked(k) => Clicked(k)')
  BY <1>2, <1>3 DEF Clicked
<1>5. SubmitKey \in Keys
  <2>1. submit.ready \union submit.unsettled # {}
    BY <1>1 DEF SubmitOK, SubmitLists, SubmitPcs
  <2> QED
    BY <1>1, <2>1, SubmitKeyIsKey
<1>6. ASSUME NEW k \in Keys, StateOf(submission'[k]) = "approved"
      PROVE  Unused(k)
  <2>1. CASE submission' = submission
    BY <1>6, <2>1 DEF Unused
  <2>2. CASE SetState(SubmitKey, s)
    <3>1. /\ StateOf(submission'[SubmitKey]) \in {s, StateOf(submission[SubmitKey])}
          /\ \A j \in Keys \ {SubmitKey} : submission'[j] = submission[j]
      BY <1>1, <1>5, <2>2, StateAfterSetState
    <3> QED
      BY <1>6, <3>1 DEF Unused
  <2> QED
    BY <2>1, <2>2
<1>7. ClickIsWrittenAhead'
  BY <1>2 DEF ClickIsWrittenAhead
<1> QED
  BY <1>4, <1>6, <1>7, NoClickKeepsApprovals

\* The submit run keeps it: it begins with unused approvals, clicks once for each,
\* and either keeps or gives up the approval of a row it did not click for.
LEMMA SubmitKeepsApprovals ==
  ASSUME CycleInv, ApprovalInv, CycleInv', LedgerStep, SubmitNext
  PROVE  ApprovalInv'
<1>a. /\ SubmitOK /\ TypeOK /\ submit \in SubmitMemory /\ SubmitLists /\ dryRun \in BOOLEAN
      /\ submission \in [Keys -> Seq(Round)] /\ history \in Histories
  BY TypeParts DEF CycleInv, SubmitOK, RestOK
<1>b. {"drafted", "awaiting_approval", "submitted", "failed", "approved", "in_flight",
       "needs_reconciliation"} \subseteq SubmissionStates
  BY DEF SubmissionStates
<1>c. \A k \in Keys : StateOf(submission[k]) = "approved" => Unused(k)
  BY DEF Unused
<1>1. ASSUME NEW pc \in SubmitPcs, submit' = [submit EXCEPT !.pc = pc]
      PROVE  /\ submit'.pc = pc /\ submit'.rows = submit.rows /\ submit'.ready = submit.ready
             /\ submit'.unsettled = submit.unsettled
             /\ Pending' = Pending /\ SubmitKey' = SubmitKey
  <2>1. /\ submit'.pc = pc /\ submit'.rows = submit.rows /\ submit'.ready = submit.ready
        /\ submit'.unsettled = submit.unsettled
    BY <1>a, <1>1 DEF SubmitMemory
  <2> QED
    BY <2>1 DEF Pending, SubmitKey
\* A step that only moves the control point.
<1>2. ASSUME NEW pc \in SubmitPcs \ {"click", "verify"}, submit' = [submit EXCEPT !.pc = pc],
             history' = history, submit.pc # "recordDays",
             submit.pc \in {"verify", "record"} => pc \in {"record", "recordDays"},
             \A k \in Keys : StateOf(submission'[k]) = "approved" => StateOf(submission[k]) = "approved"
      PROVE  ApprovalInv'
  <2>1. /\ submit'.pc = pc /\ Pending' = Pending /\ SubmitKey' = SubmitKey
        /\ submit'.unsettled = submit.unsettled
    BY <1>1, <1>2
  <2>2. \A k \in Pending' : k \in Pending /\ (Clicked(k) => Clicked(k)')
    BY <1>2, <2>1 DEF Clicked
  <2>3. ClickIsWrittenAhead'
    BY <1>2, <2>1 DEF ClickIsWrittenAhead
  <2> QED
    BY <1>2, <1>c, <2>2, <2>3, NoClickKeepsApprovals
\* A step to a run that is idle.
<1>3. ASSUME submit' = IdleSubmit, submission' = submission, history' = history
      PROVE  ApprovalInv'
  <2>1. Pending' = {} /\ ClickIsWrittenAhead'
    BY <1>3, IdleSubmitOK, WorkListFacts DEF Pending, ClickIsWrittenAhead
  <2> QED
    BY <1>3, <1>c, <2>1, NoClickKeepsApprovals
<1>4. CASE SubmitSelect
  <2>1. /\ DOMAIN submit'.rows = ApprovedKeys /\ submit'.ready = {}
        /\ submit'.pc \in {"lock", "rehearse", "check"}
        /\ submission' = submission /\ history' = history
    BY <1>4, <1>a, SelectOK DEF SubmitSelect, ledgerVars
  <2>2. Pending' = ApprovedKeys /\ \A k \in Keys : ~ Clicked(k)'
    BY <2>1 DEF Pending, Clicked
  <2>3. \A k \in ApprovedKeys : k \in Keys /\ StateOf(submission[k]) = "approved"
    BY DEF ApprovedKeys
  <2>4. ClickIsWrittenAhead'
    BY <2>1 DEF ClickIsWrittenAhead
  <2>5. \A k \in Keys : Unused(k)' => Unused(k)
    BY <2>1, <2>2, <2>3 DEF Unused
  <2>6. \A k \in Keys : StateOf(submission'[k]) = "approved" \/ k \in Pending'
                        => StateOf(submission[k]) = "approved"
    BY <2>1, <2>2, <2>3
  <2>7. \A k \in Pending' : StateOf(submission'[k]) # "none"
    BY <2>1, <2>2, <2>3
  <2> QED
    BY <2>1, <2>4, <2>5, <2>6, <2>7 DEF ApprovalInv
<1>5. CASE SubmitRehearse
  <2> DEFINE k0 == First(DOMAIN submit.rows)
  <2>1. /\ submit'.pc \in {"idle", "lock", submit.pc} /\ submit.pc = "rehearse"
        /\ k0 \in DOMAIN submit.rows /\ k0 \in Keys
        /\ DOMAIN submit'.rows \subseteq DOMAIN submit.rows \ {k0}
        /\ submit'.ready \subseteq submit.ready
    BY <1>5, <1>a, AfterRowOK DEF SubmitRehearse
  <2>2. submit.ready = {}
    BY <1>a, <2>1 DEF SubmitLists
  <2>3. SetState(k0, "drafted") /\ history' = [history EXCEPT !.decision[k0] = "none"]
    BY <1>5 DEF SubmitRehearse
  <2> HIDE DEF k0
  <2>4. Pending' \subseteq Pending \ {k0}
    BY <2>1, <2>2 DEF Pending
  <2>5. /\ StateOf(submission'[k0]) # "approved"
        /\ \A j \in Keys \ {k0} : submission'[j] = submission[j]
    BY <1>a, <1>b, <2>1, <2>3, StateAfterSetState
  <2>6. /\ history'.clicks = history.clicks
        /\ \A k \in Keys \ {k0} : history'.decision[k] = history.decision[k]
    BY <1>a, <2>1, <2>3 DEF Histories
  <2>7. \A k \in Keys : Unused(k)' => Unused(k)
    BY <2>1, <2>4, <2>5 DEF Unused, Clicked
  <2>8. \A k \in Keys : StateOf(submission'[k]) = "approved" \/ k \in Pending'
                        => k # k0 /\ (StateOf(submission[k]) = "approved" \/ k \in Pending)
    BY <2>4, <2>5
  <2>9. \A k \in Keys : StateOf(submission'[k]) = "approved" \/ k \in Pending'
                        => history'.decision[k] # "none"
    BY <2>6, <2>8 DEF ApprovalInv
  <2>10. \A k \in Pending' : StateOf(submission'[k]) # "none"
    BY <2>4, PendingOK, RowsStay DEF CycleInv, ApprovalInv
  <2>11. ClickIsWrittenAhead'
    BY <2>1 DEF ClickIsWrittenAhead
  <2> QED
    BY <2>6, <2>7, <2>9, <2>10, <2>11 DEF ApprovalInv
<1>6. CASE SubmitCheck
  <2> DEFINE k0 == First(DOMAIN submit.rows)
  <2>1. StillAsApproved(k0) \in BOOLEAN
    BY DEF StillAsApproved
  <2>2. /\ submit'.pc \in {"idle", "lock", submit.pc} /\ submit.pc = "check"
        /\ k0 \in DOMAIN submit.rows /\ k0 \in Keys
        /\ DOMAIN submit'.rows \subseteq DOMAIN submit.rows \ {k0}
        /\ submit'.ready \subseteq submit.ready \union {k0}
    <3>1. /\ SubmitOK'
          /\ submit'.pc \in {"idle", "lock", submit.pc} /\ submit.pc = "check"
          /\ k0 \in DOMAIN submit.rows /\ k0 \in Keys
          /\ DOMAIN submit'.rows \subseteq DOMAIN submit.rows \ {k0}
          /\ submit'.ready \subseteq submit.ready \union (IF StillAsApproved(k0) THEN {k0} ELSE {})
      BY <1>6, <1>a, <2>1, AfterRowOK DEF SubmitCheck
    <3> QED
      BY <3>1
  <2>3. submission' = submission \/ SetState(k0, "awaiting_approval")
    BY <1>6 DEF SubmitCheck
  <2>4. history' = history
    BY <1>6 DEF SubmitCheck
  <2> HIDE DEF k0
  <2>5. \A k \in Pending' : k \in Pending /\ (Clicked(k) => Clicked(k)')
    BY <2>2 DEF Pending, Clicked
  <2>6. ASSUME NEW k \in Keys, StateOf(submission'[k]) = "approved"
        PROVE  StateOf(submission[k]) = "approved"
    <3>1. CASE submission' = submission
      BY <2>6, <3>1
    <3>2. CASE SetState(k0, "awaiting_approval")
      <4>1. /\ StateOf(submission'[k0]) \in {"awaiting_approval", StateOf(submission[k0])}
            /\ \A j \in Keys \ {k0} : submission'[j] = submission[j]
        BY <1>a, <1>b, <2>2, <3>2, StateAfterSetState
      <4> QED
        BY <2>6, <4>1
    <3> QED
      BY <2>3, <3>1, <3>2
  <2>7. ClickIsWrittenAhead'
    BY <2>2 DEF ClickIsWrittenAhead
  <2> QED
    BY <1>c, <2>4, <2>5, <2>6, <2>7, NoClickKeepsApprovals
<1>7. CASE SubmitLock
  <2>1. submission' = submission /\ history' = history /\ submit.pc = "lock"
    BY <1>7 DEF SubmitLock, ledgerVars
  <2>2. CASE submit' = IdleSubmit
    BY <1>3, <2>1, <2>2
  <2>3. CASE submit' = [submit EXCEPT !.pc = FirstStep(submit.unsettled)]
    <3>1. FirstStep(submit.unsettled) \in SubmitPcs \ {"click", "verify"}
      BY DEF FirstStep, SubmitPcs
    <3> QED
      BY <1>2, <2>1, <2>3, <3>1
  <2> QED
    BY <1>7, <2>2, <2>3 DEF SubmitLock
<1>8. CASE SubmitRead
  <2>1. /\ submission' = submission /\ history' = history
        /\ submit.pc \in {"settle", "file"} /\ submit'.pc \in {"settleAct", "fileAct"}
        /\ submit'.rows = submit.rows /\ submit'.ready = submit.ready
    BY <1>8, <1>a DEF SubmitRead, ledgerVars, SubmitMemory
  <2>2. \A k \in Pending' : k \in Pending /\ (Clicked(k) => Clicked(k)')
    BY <2>1 DEF Pending, Clicked
  <2>3. ClickIsWrittenAhead'
    BY <2>1 DEF ClickIsWrittenAhead
  <2> QED
    BY <1>c, <2>1, <2>2, <2>3, NoClickKeepsApprovals
<1>9. CASE SubmitRecord
  <2>1. SubmitKey \in Keys
    BY <1>9, <1>a, SubmitKeyIsKey DEF SubmitRecord, SubmitLists
  <2>2. /\ StateOf(submission'[SubmitKey]) \in {"submitted", StateOf(submission[SubmitKey])}
        /\ \A j \in Keys \ {SubmitKey} : submission'[j] = submission[j]
    BY <1>9, <1>a, <1>b, <2>1, StateAfterSetState DEF SubmitRecord
  <2>3. \A k \in Keys : StateOf(submission'[k]) = "approved" => StateOf(submission[k]) = "approved"
    BY <2>2
  <2> QED
    BY <1>2, <1>9, <2>3 DEF SubmitRecord, SubmitPcs
<1>10. CASE SubmitRecordDays
  <2>1. submission' = submission /\ history' = history /\ submit.pc = "recordDays"
    BY <1>10 DEF SubmitRecordDays
  <2>2. CASE EndRow
    BY <1>b, <2>1, <2>2, EndRowKeepsApprovals
  <2>3. CASE submit' = IdleSubmit
    BY <1>3, <2>1, <2>3
  <2> QED
    BY <1>10, <2>2, <2>3 DEF SubmitRecordDays
<1>11. CASE SettleFiled \/ SettleDraft \/ FileAlreadyFiled \/ FileVerify
  <2>1. PICK pc \in {"record", "settleRecord"} :
          /\ submit' = [submit EXCEPT !.pc = pc]
          /\ submit.pc \in {"settleAct", "fileAct", "verify"}
          /\ submit.pc = "verify" => pc = "record"
    BY <1>11 DEF SettleFiled, SettleDraft, FileAlreadyFiled, FileVerify
  <2>2. submission' = submission /\ history' = history
    BY <1>11 DEF SettleFiled, SettleDraft, FileAlreadyFiled, FileVerify, ledgerVars
  <2>3. pc \in SubmitPcs \ {"click", "verify"}
    BY DEF SubmitPcs
  <2> QED
    BY <1>2, <2>1, <2>2, <2>3
<1>12. CASE SettleRecord
  <2>1. /\ SubmitKey \in Keys /\ submit.days \in SUBSET Days
    BY <1>12, <1>a, SubmitKeyIsKey DEF SettleRecord, SubmitLists, SubmitMemory
  <2> DEFINE new == SetStateAndDigest(submission[SubmitKey], "awaiting_approval", submit.days)
  <2>2. StateOf(new) \in {"awaiting_approval", StateOf(submission[SubmitKey])}
    BY <1>a, <1>b, <2>1, StateAfterSetDigest
  <2>3. /\ submission' = [submission EXCEPT ![SubmitKey] = new]
        /\ history' = history /\ submit.pc = "settleRecord" /\ EndRow
    BY <1>12 DEF SettleRecord
  <2> HIDE DEF new
  <2>4. \A k \in Keys : submission'[k] = IF k = SubmitKey THEN new ELSE submission[k]
    BY <1>a, <2>3
  <2>5. \A k \in Keys : StateOf(submission'[k]) = "approved" => StateOf(submission[k]) = "approved"
    BY <2>2, <2>4
  <2>6. /\ SubmitOK' /\ submit'.pc \in {"idle", "settle", "file"}
        /\ submit'.ready \subseteq submit.ready
    BY <1>a, <2>3, EndRowOK
  <2>7. submit'.rows = <<>>
    BY <2>6 DEF SubmitOK, SubmitLists
  <2>8. Pending' \subseteq Pending /\ \A k \in Keys : ~ Clicked(k)
    BY <2>3, <2>6, <2>7, WorkListFacts DEF Pending, Clicked
  <2>9. ClickIsWrittenAhead' /\ Pending \in SUBSET Keys
    BY <2>6, PendingOK DEF ClickIsWrittenAhead
  <2> QED
    BY <1>c, <2>3, <2>5, <2>8, <2>9, NoClickKeepsApprovals
<1>13. CASE SettleFailed \/ FileDraftChanged \/ FileUnconfirmed \/ FileRaises
  <2>1. PICK s \in {"failed", "needs_reconciliation"} :
          /\ SetState(SubmitKey, s) /\ EndRow /\ history' = history
          /\ submit.pc \in {"settleAct", "fileAct", "click", "verify"}
    BY <1>13 DEF SettleFailed, FileDraftChanged, FileUnconfirmed, FileRaises, EndRowAs
  <2> QED
    BY <1>b, <2>1, EndRowKeepsApprovals
<1>14. CASE FileBlocked
  <2>1. /\ SetState(SubmitKey, "approved") /\ EndRow /\ history' = history
        /\ submit.pc = "fileAct"
    BY <1>14 DEF FileBlocked, EndRowAs
  <2>2. Unused(SubmitKey)
    BY <2>1, PendingOK DEF Unused, Clicked
  <2> QED
    BY <1>b, <2>1, <2>2, EndRowKeepsApprovals
<1>15. CASE FileInFlight
  <2>1. /\ submit.pc = "fileAct" /\ SetState(SubmitKey, "in_flight") /\ history' = history
        /\ submit' = [submit EXCEPT !.pc = "click"]
    BY <1>15 DEF FileInFlight
  <2>2. SubmitKey \in Pending /\ SubmitKey \in Keys
    BY <2>1, PendingOK
  <2>3. /\ submit'.pc = "click" /\ Pending' = Pending /\ SubmitKey' = SubmitKey
    BY <1>1, <2>1 DEF SubmitPcs
  <2>4. /\ StateOf(submission'[SubmitKey]) =
             IF StateOf(submission[SubmitKey]) \in {"submitted", "none"}
             THEN StateOf(submission[SubmitKey]) ELSE "in_flight"
        /\ \A j \in Keys \ {SubmitKey} : submission'[j] = submission[j]
    BY <1>a, <1>b, <2>1, <2>2, StateAfterSetState
  <2>5. StateOf(submission'[SubmitKey]) \in {"in_flight", "submitted"}
    BY <2>2, <2>4 DEF ApprovalInv
  <2>6. ClickIsWrittenAhead'
    BY <2>3, <2>5 DEF ClickIsWrittenAhead
  <2>7. \A k \in Keys : StateOf(submission'[k]) = "approved" => Unused(k)
    BY <1>c, <2>4, <2>5
  <2>8. \A k \in Pending' : k \in Pending /\ (Clicked(k) => Clicked(k)')
    BY <2>1, <2>3 DEF Clicked
  <2> QED
    BY <2>1, <2>6, <2>7, <2>8, NoClickKeepsApprovals
<1>16. CASE FileClick
  <2> DEFINE n == history.clicks[SubmitKey]
             clicks == [history.clicks EXCEPT ![SubmitKey] = IF n = 2 THEN 2 ELSE n + 1]
  <2>1. /\ submit.pc = "click" /\ submission' = submission
        /\ submit' = [submit EXCEPT !.pc = "verify"]
    BY <1>16 DEF FileClick, ledgerVars
  <2>2. SubmitKey \in Pending /\ submit.unsettled = {} /\ SubmitKey \in Keys
    BY <2>1, PendingOK
  <2>3. history'.clicks = clicks /\ history'.decision = history.decision
    BY <1>16, <1>a DEF FileClick, Histories
  <2>4. Unused(SubmitKey)
    BY <2>1, <2>2 DEF Unused, Clicked
  <2>5. n = 0
    BY <2>2, <2>4 DEF ApprovalInv
  <2>6. history.clicks \in [Keys -> 0 .. 2]
    BY <1>a DEF Histories
  <2>7. \A k \in Keys : history'.clicks[k] = IF k = SubmitKey THEN 1 ELSE history.clicks[k]
    BY <2>2, <2>3, <2>5, <2>6
  <2> HIDE DEF n, clicks
  <2>8. /\ submit'.pc = "verify" /\ Pending' = Pending /\ SubmitKey' = SubmitKey
        /\ submit'.unsettled = submit.unsettled
    BY <1>1, <2>1 DEF SubmitPcs
  <2>9. StateOf(submission[SubmitKey]) \in {"in_flight", "submitted"}
    BY <2>1 DEF ApprovalInv, ClickIsWrittenAhead
  <2>10. \A k \in Keys : Unused(k)' => Unused(k) /\ k # SubmitKey
    BY <2>1, <2>2, <2>8, <2>9 DEF Unused, Clicked
  <2>11. ClickIsWrittenAhead'
    BY <2>1, <2>8, <2>9 DEF ClickIsWrittenAhead
  <2>12. \A k \in Keys : history'.clicks[k] \in {0, 1}
    BY <2>7 DEF ApprovalInv
  <2>13. \A k \in Keys : Unused(k)' => history'.clicks[k] = 0
    BY <2>7, <2>10 DEF ApprovalInv
  <2> QED
    BY <2>1, <2>3, <2>8, <2>11, <2>12, <2>13 DEF ApprovalInv
<1>17. CASE SubmitCrash
  BY <1>3, <1>17 DEF SubmitCrash, ledgerVars
<1> QED
  BY <1>4, <1>5, <1>6, <1>7, <1>8, <1>9, <1>10, <1>11, <1>12, <1>13, <1>14, <1>15, <1>16, <1>17
     DEF SubmitNext, SubmitStep

LEMMA ApprovalStep == CycleInv /\ ApprovalInv /\ [Next]_vars => ApprovalInv'
<1> SUFFICES ASSUME CycleInv, ApprovalInv, [Next]_vars
             PROVE  ApprovalInv'
  OBVIOUS
<1>1. CycleInv' /\ LedgerStep
  BY CycleStep
<1>2. LockIsHeld /\ submit.pc \in {"click", "verify"} => lock = "submit"
  BY DEF LockIsHeld
<1>3. CASE BuildNext
  <2>1. submit' = submit /\ history' = history
    BY <1>3, BuildStepOK, BuildRest, TypeParts DEF CycleInv, RestOK
  <2> QED
    BY <1>1, <1>2, <1>3, <2>1, BuildApprovesNothing, OthersKeepApprovals DEF CycleInv
<1>4. CASE SubmitNext
  BY <1>1, <1>4, SubmitKeepsApprovals
<1>5. CASE SlackdNext
  BY <1>1, <1>5, SlackdKeepsApprovals
<1>6. CASE HandStep
  <2>1. submit' = submit /\ submission' = submission
    BY <1>6, HandRest DEF ledgerVars
  <2>2. history \in Histories
    BY TypeParts DEF CycleInv, RestOK
  <2>3. history'.clicks = history.clicks /\ history'.decision = history.decision
    BY <1>6, <2>2 DEF HandStep, DeleteDraft, FileByHand, EditDraft, ManagerRejects, DraftByHand,
       Histories
  <2> QED
    BY <1>1, <2>1, <2>3, OthersKeepApprovals
<1>7. CASE Flip \/ UNCHANGED vars
  <2>1. submit' = submit /\ submission' = submission /\ history' = history
    BY <1>7 DEF Flip, vars, ledgerVars
  <2> QED
    BY <1>1, <2>1, OthersKeepApprovals
<1> QED
  BY <1>3, <1>4, <1>5, <1>6, <1>7 DEF Next

LEMMA ApprovalInit == Init => ApprovalInv
<1> SUFFICES ASSUME Init
             PROVE  ApprovalInv
  OBVIOUS
<1>1. /\ submit = IdleSubmit /\ \A k \in Keys : submission[k] = <<>>
      /\ \A k \in Keys : history.clicks[k] = 0
  BY DEF Init
<1>2. Pending = {} /\ ClickIsWrittenAhead
  BY <1>1, IdleSubmitOK, WorkListFacts DEF Pending, ClickIsWrittenAhead
<1>3. \A k \in Keys : StateOf(submission[k]) = "none"
  BY <1>1 DEF StateOf
<1> QED
  BY <1>1, <1>2, <1>3 DEF ApprovalInv, Unused

\* However the run is killed and restarted around the click, and whatever else
\* happens, one approval is good for one click.
THEOREM OneClickForOneApproval == Spec => []OneClickPerApproval
<1>1. CycleInv /\ ApprovalInv => OneClickPerApproval
  BY DEF ApprovalInv, OneClickPerApproval
<1> QED
  BY <1>1, CycleInit, CycleStep, ApprovalInit, ApprovalStep, PTL DEF Spec

\* From the click to the end of its row no approval, rejection, correction or build
\* hides from the ledger that a click is out.
THEOREM ClickLeavesItsMark == Spec => []ClickIsWrittenAhead
<1>1. ApprovalInv => ClickIsWrittenAhead
  BY DEF ApprovalInv
<1> QED
  BY <1>1, CycleInit, CycleStep, ApprovalInit, ApprovalStep, PTL DEF Spec

\* However often DRY_RUN is flipped, a run that clicks was started live, for a row a
\* person decided since the last dry run.
THEOREM DryRunTakesApprovalsBack == Spec => []RehearsalUndoesApproval
<1>1. CycleInv /\ ApprovalInv => RehearsalUndoesApproval
  <2> SUFFICES ASSUME CycleInv, ApprovalInv, submit.pc = "click"
               PROVE  ~ submit.dry /\ history.decision[SubmitKey] # "none"
    BY DEF RehearsalUndoesApproval
  <2>1. SubmitKey \in Pending /\ SubmitKey \in Keys /\ Pending = submit.ready
    BY PendingOK
  <2>2. submit.dry => submit.ready = {}
    BY DEF CycleInv, SubmitOK, SubmitLists
  <2> QED
    BY <2>1, <2>2 DEF ApprovalInv
<1> QED
  BY <1>1, CycleInit, CycleStep, ApprovalInit, ApprovalStep, PTL DEF Spec

-----------------------------------------------------------------------------
(* What the ledger calls filed *)

\* AFAS has held d on a filed declaration.
WasFiled(d) == \E t \in ClaimTypes : <<t, d>> \in history.filed

\* What a job has read as filed, or is about to record as filed, was filed.
FilingInv ==
  /\ \A x \in tasks : x.status = "filed" => \A d \in x.days : <<x.type, d>> \in history.filed
  /\ build.pc = "markFiled" => \A d \in build.pos.filed : WasFiled(d)
  /\ submit.pc \in {"settleAct", "fileAct"} => \A d \in submit.pos.filed : WasFiled(d)
  /\ submit.pc \in {"record", "recordDays"} => \A d \in submit.days : WasFiled(d)
  /\ SubmittedDayWasFiled

\* What position calls filed was filed.
LEMMA ReadAsFiled ==
  ASSUME TypeOK, FilingInv, NEW t, NEW D
  PROVE  \A d \in Position(tasks, t, D).filed : WasFiled(d)
<1> SUFFICES ASSUME NEW d \in Position(tasks, t, D).filed
             PROVE  WasFiled(d)
  OBVIOUS
<1>1. d \in Sole(tasks, t, D, "filed")
  BY DEF Position
<1>2. PICK x \in tasks : Lines(tasks, d) = {x} /\ x.status = "filed"
  BY <1>1 DEF Sole
<1>3. d \in x.days
  BY <1>2 DEF Lines
<1>4. <<x.type, d>> \in history.filed
  BY <1>2, <1>3 DEF FilingInv
<1>5. x.type \in ClaimTypes
  BY DEF TypeOK, Task
<1> QED
  BY <1>4, <1>5 DEF WasFiled

\* Marking days submitted is sound when they were filed; any other mark is.
LEMMA MarkKeepsFiled ==
  ASSUME TypeOK, SubmittedDayWasFiled, NEW D, NEW s,
         claimDay' = MarkDaysState(claimDay, D, s) \/ claimDay' = claimDay,
         s = "submitted" => \A d \in D : WasFiled(d),
         history.filed \subseteq history'.filed
  PROVE  SubmittedDayWasFiled'
<1> SUFFICES ASSUME NEW d \in Days, claimDay'[d].state = "submitted"
             PROVE  \E t \in ClaimTypes : <<t, d>> \in history'.filed
  BY DEF SubmittedDayWasFiled
<1>1. claimDay[d].state = "submitted" \/ (d \in D /\ s = "submitted")
  <2>1. CASE claimDay' = claimDay
    BY <2>1
  <2>2. CASE claimDay' = MarkDaysState(claimDay, D, s)
    <3>1. claimDay[d] \in DayRow
      BY DEF TypeOK
    <3>2. claimDay'[d] = IF d \in D /\ Markable(claimDay[d])
                         THEN [claimDay[d] EXCEPT !.state = s] ELSE claimDay[d]
      BY <2>2 DEF MarkDaysState
    <3> QED
      BY <3>1, <3>2 DEF DayRow
  <2> QED
    BY <2>1, <2>2
<1> QED
  BY <1>1 DEF SubmittedDayWasFiled, WasFiled

\* A person's word or a night's verdict never says submitted.
LEMMA InputKeepsFiled ==
  ASSUME TypeOK, SubmittedDayWasFiled, LedgerInput
  PROVE  SubmittedDayWasFiled' /\ history' = history
<1>1. ASSUME NEW d \in Days, claimDay'[d].state = "submitted"
      PROVE  claimDay[d].state = "submitted"
  <2>1. ASSUME NEW e \in Days, NEW t \in ClaimTypes \union {NoType}, Correct(e, t)
        PROVE  claimDay[d].state = "submitted"
    BY <1>1, <2>1 DEF Correct, ApplyOverride, TypeOK
  <2>2. ASSUME NEW e \in Days, NEW c \in Classification, Classify(e, c)
        PROVE  claimDay[d].state = "submitted"
    <3>1. ClassifiedRow(c).state # "submitted"
      BY DEF Classification, ClassifiedRow
    <3> QED
      BY <1>1, <2>2, <3>1 DEF Classify, RecordDay, TypeOK
  <2> QED
    BY <2>1, <2>2 DEF LedgerInput
<1>2. history' = history
  BY DEF LedgerInput, Correct, Classify
<1> QED
  BY <1>1, <1>2 DEF SubmittedDayWasFiled

\* What has been filed stays filed, what has been approved has been approved.
LEMMA HistoryGrows ==
  ASSUME CycleInv, [Next]_vars
  PROVE  history.filed \subseteq history'.filed /\ history.approved \subseteq history'.approved
<1>a. history \in Histories
  BY TypeParts DEF CycleInv, RestOK
<1>1. CASE BuildNext
  BY <1>1, BuildRest
<1>2. CASE SubmitNext
  <2>1. CASE SubmitRehearse
    BY <1>a, <2>1 DEF SubmitRehearse, Histories
  <2>2. CASE FileClick
    <3> DEFINE n == history.clicks[SubmitKey]
               clicks == [history.clicks EXCEPT ![SubmitKey] = IF n = 2 THEN 2 ELSE n + 1]
    <3>1. \E F : /\ history.filed \subseteq F
                 /\ history' = [history EXCEPT !.clicks = clicks, !.filed = F]
      <4>1. PICK x \in OpenDrafts(SubmitKey.type) :
              \/ history' = [history EXCEPT !.clicks = clicks,
                                           !.filed = history.filed \union ({x.type} \X x.days)]
              \/ history' = [history EXCEPT !.clicks = clicks]
        BY <2>2 DEF FileClick
      <4> HIDE DEF clicks
      <4>2. [history EXCEPT !.clicks = clicks]
              = [history EXCEPT !.clicks = clicks, !.filed = history.filed]
        BY <1>a DEF Histories
      <4> QED
        BY <4>1, <4>2
    <3> HIDE DEF clicks
    <3> QED
      BY <1>a, <3>1 DEF Histories
  <2>3. CASE SubmitSelect \/ SubmitCheck \/ SubmitLock \/ SubmitRead \/ SubmitRecord
             \/ SubmitRecordDays \/ SettleFiled \/ SettleDraft \/ SettleRecord
    BY <2>3 DEF SubmitSelect, SubmitCheck, SubmitLock, SubmitRead, SubmitRecord,
       SubmitRecordDays, SettleFiled, SettleDraft, SettleRecord
  <2>4. CASE SettleFailed \/ FileAlreadyFiled \/ FileDraftChanged \/ FileBlocked \/ FileInFlight
             \/ FileVerify \/ FileUnconfirmed \/ FileRaises \/ SubmitCrash
    BY <2>4 DEF SettleFailed, FileAlreadyFiled, FileDraftChanged, FileBlocked, FileInFlight,
       FileVerify, FileUnconfirmed, FileRaises, SubmitCrash, EndRowAs
  <2> QED
    BY <1>2, <2>1, <2>2, <2>3, <2>4 DEF SubmitNext, SubmitStep
<1>3. CASE SlackdNext
  <2>1. ASSUME NEW a, ApproveUpdate(a), history' # history
        PROVE  history'.filed = history.filed /\ history'.approved = history.approved \union {a}
    <3> DEFINE decision == [history.decision EXCEPT ![a.key] = "approved"]
               clicks == [history.clicks EXCEPT ![a.key] = 0]
    <3>1. history' = [history EXCEPT !.approved = history.approved \union {a},
                        !.decision = decision, !.clicks = clicks]
      BY <2>1 DEF ApproveUpdate
    <3> HIDE DEF decision, clicks
    <3> QED
      BY <1>a, <3>1 DEF Histories
  <2>2. ASSUME NEW c, Reject(c)
        PROVE  history'.filed = history.filed /\ history'.approved = history.approved
    BY <1>a, <2>2 DEF Reject, Histories
  <2>3. CASE history' = history
    BY <2>3
  <2> QED
    BY <1>3, <2>1, <2>2, <2>3 DEF SlackdNext, LedgerInput, Decide, Correct, Classify,
       ApproveCompare
<1>4. CASE HandStep
  BY <1>4, <1>a DEF HandStep, DeleteDraft, FileByHand, EditDraft, ManagerRejects, DraftByHand,
     Histories
<1>5. CASE Flip \/ UNCHANGED vars
  BY <1>5 DEF Flip, vars
<1> QED
  BY <1>1, <1>2, <1>3, <1>4, <1>5 DEF Next



\* A submit run changes AFAS by its click only.
LEMMA SubmitKeepsTasks ==
  ASSUME SubmitNext, ~ FileClick
  PROVE  tasks' = tasks
<1>1. CASE SubmitSelect \/ SubmitCheck \/ SubmitLock \/ SubmitRead \/ SubmitRecord
           \/ SubmitRecordDays \/ SettleFiled \/ SettleDraft \/ SettleRecord \/ SubmitRehearse
  BY <1>1 DEF SubmitSelect, SubmitCheck, SubmitLock, SubmitRead, SubmitRecord,
     SubmitRecordDays, SettleFiled, SettleDraft, SettleRecord, SubmitRehearse
<1>2. CASE SettleFailed \/ FileAlreadyFiled \/ FileDraftChanged \/ FileBlocked \/ FileInFlight
           \/ FileVerify \/ FileUnconfirmed \/ FileRaises \/ SubmitCrash
  BY <1>2 DEF SettleFailed, FileAlreadyFiled, FileDraftChanged, FileBlocked, FileInFlight,
     FileVerify, FileUnconfirmed, FileRaises, SubmitCrash, EndRowAs
<1> QED
  BY <1>1, <1>2 DEF SubmitNext, SubmitStep

LEMMA SlackdKeepsTasks ==
  ASSUME SlackdNext
  PROVE  tasks' = tasks
BY DEF SlackdNext, LedgerInput, Decide, Correct, Classify, ApproveCompare, ApproveUpdate, Reject

\* Only a build that creates, a run that clicks and a person change AFAS.
LEMMA OtherStepsKeepTasks ==
  ASSUME [Next]_vars, ~ BuildCreate, ~ FileClick, ~ HandStep
  PROVE  tasks' = tasks
<1>1. CASE BuildNext
  <2>1. CASE BuildPlan \/ BuildLock \/ BuildRead \/ Rehearse \/ WaitForOtherDraft \/ GoLive
             \/ BuildVerify \/ NothingToFile \/ BuildRecord \/ BuildCard
    BY <2>1 DEF BuildPlan, BuildLock, BuildRead, Rehearse, WaitForOtherDraft, GoLive,
       BuildVerify, NothingToFile, BuildRecord, BuildCard
  <2>2. CASE BuildMarkFiled \/ BuildMarkConflict \/ BuildMarkDrafted
    BY <2>2 DEF BuildMarkFiled, BuildMarkConflict, BuildMarkDrafted, BuildMark
  <2>3. CASE RefuseMismatch \/ BuildVerifyFails \/ BuildRaises \/ BuildSqlRaises \/ BuildCrash
    BY <2>3 DEF RefuseMismatch, BuildVerifyFails, FailItem, BuildRaises, BuildSqlRaises,
       BuildCrash
  <2> QED
    BY <1>1, <2>1, <2>2, <2>3 DEF BuildNext, BuildStep
<1>2. CASE SubmitNext
  BY <1>2, SubmitKeepsTasks
<1>3. CASE SlackdNext
  BY <1>3, SlackdKeepsTasks
<1>4. CASE Flip \/ UNCHANGED vars
  BY <1>4 DEF Flip, vars
<1> QED
  BY <1>1, <1>2, <1>3, <1>4 DEF Next


\* A declaration that is filed holds days that have been filed.
LEMMA TasksStayFiled ==
  ASSUME CycleInv, FilingInv, [Next]_vars
  PROVE  \A x \in tasks' : x.status = "filed" =>
           \A d \in x.days : <<x.type, d>> \in history'.filed
<1>a. tasks \subseteq Task /\ history \in Histories /\ history.filed \subseteq history'.filed
  BY TypeParts, HistoryGrows DEF CycleInv, RestOK
<1>b. \A x \in tasks : x.status = "filed" => \A d \in x.days : <<x.type, d>> \in history'.filed
  BY <1>a DEF FilingInv
<1>1. ASSUME tasks' \subseteq tasks
      PROVE  \A x \in tasks' : x.status = "filed" => \A d \in x.days : <<x.type, d>> \in history'.filed
  BY <1>b, <1>1
<1>2. ASSUME NEW y, y.status # "filed", tasks' \subseteq tasks \union {y}
      PROVE  \A x \in tasks' : x.status = "filed" => \A d \in x.days : <<x.type, d>> \in history'.filed
  BY <1>b, <1>2
<1>3. ASSUME NEW t, NEW D, AddTask(t, D, "draft")
      PROVE  \A x \in tasks' : x.status = "filed" => \A d \in x.days : <<x.type, d>> \in history'.filed
  <2> DEFINE i == CHOOSE i \in FreeIds : \A j \in FreeIds : i <= j
             y == [id |-> i, type |-> t, days |-> D, status |-> "draft", filedBy |-> "nobody"]
  <2>1. tasks' = tasks \union {y}
    BY <1>3 DEF AddTask
  <2>2. y.status # "filed"
    OBVIOUS
  <2> HIDE DEF y
  <2> QED
    BY <1>2, <2>1, <2>2
<1>4. ASSUME NEW x \in tasks, NEW who, Lands(x, who),
             {x.type} \X x.days \subseteq history'.filed
      PROVE  \A y \in tasks' : y.status = "filed" => \A d \in y.days : <<y.type, d>> \in history'.filed
  <2>1. x \in Task
    BY <1>a
  <2>2. FiledBy(x, who).type = x.type /\ FiledBy(x, who).days = x.days
    BY <2>1 DEF FiledBy, Task
  <2>3. \A y \in tasks' : y \in tasks \/ y = FiledBy(x, who)
    BY <1>4 DEF Lands
  <2>4. \A d \in x.days : <<x.type, d>> \in {x.type} \X x.days
    OBVIOUS
  <2> QED
    BY <1>4, <1>b, <2>2, <2>3, <2>4
<1>5. CASE tasks' = tasks
  BY <1>1, <1>5
<1>6. CASE BuildCreate
  BY <1>3, <1>5, <1>6 DEF BuildCreate
<1>7. CASE FileClick
  <2>1. PICK x \in OpenDrafts(SubmitKey.type) :
          \/ /\ Lands(x, "app")
             /\ history' = [history EXCEPT
                  !.clicks[SubmitKey] = IF @ = 2 THEN 2 ELSE @ + 1,
                  !.filed = @ \union ({x.type} \X x.days)]
          \/ tasks' = tasks
    BY <1>7 DEF FileClick
  <2>2. x \in tasks
    BY DEF OpenDrafts
  <2>3. CASE Lands(x, "app") /\ history' = [history EXCEPT
                  !.clicks[SubmitKey] = IF @ = 2 THEN 2 ELSE @ + 1,
                  !.filed = @ \union ({x.type} \X x.days)]
    <3> DEFINE n == history.clicks[SubmitKey]
               clicks == [history.clicks EXCEPT ![SubmitKey] = IF n = 2 THEN 2 ELSE n + 1]
    <3>1. history' = [history EXCEPT !.clicks = clicks,
                                     !.filed = history.filed \union ({x.type} \X x.days)]
      BY <2>3
    <3> HIDE DEF clicks
    <3>2. history'.filed = history.filed \union ({x.type} \X x.days)
      BY <1>a, <3>1 DEF Histories
    <3> QED
      BY <1>4, <2>2, <2>3, <3>2
  <2> QED
    BY <1>5, <2>1, <2>3
<1>8. CASE HandStep
  <2>1. ASSUME NEW x \in tasks, DeleteDraft(x)
        PROVE  \A y \in tasks' : y.status = "filed" => \A d \in y.days : <<y.type, d>> \in history'.filed
    BY <1>1, <2>1 DEF DeleteDraft
  <2>2. ASSUME NEW x \in tasks, FileByHand(x)
        PROVE  \A y \in tasks' : y.status = "filed" => \A d \in y.days : <<y.type, d>> \in history'.filed
    <3>1. Lands(x, "hand") /\ history' = [history EXCEPT !.filed = @ \union ({x.type} \X x.days)]
      BY <2>2 DEF FileByHand
    <3>2. history'.filed = history.filed \union ({x.type} \X x.days)
      BY <1>a, <3>1 DEF Histories
    <3> QED
      BY <1>4, <3>1, <3>2
  <2>3. ASSUME NEW x \in tasks, NEW D, EditDraft(x, D)
        PROVE  \A y \in tasks' : y.status = "filed" => \A d \in y.days : <<y.type, d>> \in history'.filed
    <3>1. [x EXCEPT !.days = D].status = x.status
      BY <1>a DEF Task
    <3> QED
      BY <1>2, <2>3, <3>1 DEF EditDraft
  <2>4. ASSUME NEW x \in tasks, ManagerRejects(x)
        PROVE  \A y \in tasks' : y.status = "filed" => \A d \in y.days : <<y.type, d>> \in history'.filed
    <3>1. [x EXCEPT !.status = "other"].status = "other"
      BY <1>a DEF Task
    <3> QED
      BY <1>2, <2>4, <3>1 DEF ManagerRejects
  <2>5. ASSUME NEW t, NEW D, DraftByHand(t, D)
        PROVE  \A y \in tasks' : y.status = "filed" => \A d \in y.days : <<y.type, d>> \in history'.filed
    BY <1>3, <2>5 DEF DraftByHand
  <2> QED
    BY <1>8, <2>1, <2>2, <2>3, <2>4, <2>5 DEF HandStep
<1> QED
  BY <1>5, <1>6, <1>7, <1>8, OtherStepsKeepTasks


\* A submit run marks days in its last commit only.
LEMMA SubmitWritesNoDay ==
  ASSUME SubmitNext, ~ SubmitRecordDays
  PROVE  claimDay' = claimDay
<1>1. CASE SubmitSelect \/ SubmitCheck \/ SubmitLock \/ SubmitRead \/ SubmitRecord
           \/ SettleFiled \/ SettleDraft \/ SettleRecord \/ SubmitRehearse \/ FileClick
  BY <1>1 DEF SubmitSelect, SubmitCheck, SubmitLock, SubmitRead, SubmitRecord,
     SettleFiled, SettleDraft, SettleRecord, SubmitRehearse, FileClick, ledgerVars
<1>2. CASE SettleFailed \/ FileAlreadyFiled \/ FileDraftChanged \/ FileBlocked \/ FileInFlight
           \/ FileVerify \/ FileUnconfirmed \/ FileRaises \/ SubmitCrash
  BY <1>2 DEF SettleFailed, FileAlreadyFiled, FileDraftChanged, FileBlocked, FileInFlight,
     FileVerify, FileUnconfirmed, FileRaises, SubmitCrash, EndRowAs, ledgerVars
<1> QED
  BY <1>1, <1>2 DEF SubmitNext, SubmitStep

\* A build marks days in three of its commits.
LEMMA BuildWritesNoDay ==
  ASSUME BuildNext, ~ BuildMarkFiled, ~ BuildMarkConflict, ~ BuildMarkDrafted
  PROVE  claimDay' = claimDay
<1>1. CASE BuildPlan \/ BuildLock \/ BuildRead \/ Rehearse \/ WaitForOtherDraft \/ GoLive
           \/ BuildVerify \/ NothingToFile \/ BuildRecord \/ BuildCard \/ BuildCreate
  BY <1>1 DEF BuildPlan, BuildLock, BuildRead, Rehearse, WaitForOtherDraft, GoLive,
     BuildVerify, NothingToFile, BuildRecord, BuildCard, BuildCreate, ledgerVars
<1>2. CASE RefuseMismatch \/ BuildVerifyFails \/ BuildRaises \/ BuildSqlRaises \/ BuildCrash
  BY <1>2 DEF RefuseMismatch, BuildVerifyFails, FailItem, BuildRaises, BuildSqlRaises,
     BuildCrash, ledgerVars
<1> QED
  BY <1>1, <1>2 DEF BuildNext, BuildStep

\* What any step but a person's word or a night's verdict does to the days: nothing, or
\* marks of a job, and only two of these say submitted.
LEMMA OnlyMarks ==
  ASSUME [Next]_vars, ~ LedgerInput
  PROVE  \/ claimDay' = claimDay
         \/ \E D, s : s \in {"needs_input", "drafted"} /\ claimDay' = MarkDaysState(claimDay, D, s)
         \/ BuildMarkFiled /\ claimDay' = MarkDaysState(claimDay, build.pos.filed, "submitted")
         \/ SubmitRecordDays /\ claimDay' = MarkDaysState(claimDay, submit.days, "submitted")
<1>1. CASE BuildMarkFiled
  BY <1>1 DEF BuildMarkFiled, BuildMark
<1>2. CASE BuildMarkConflict \/ BuildMarkDrafted
  BY <1>2 DEF BuildMarkConflict, BuildMarkDrafted, BuildMark
<1>3. CASE SubmitRecordDays
  BY <1>3 DEF SubmitRecordDays
<1>4. CASE Decide
  BY <1>4 DEF Decide, ApproveCompare, ApproveUpdate, Reject
<1>5. CASE HandStep \/ Flip \/ UNCHANGED vars
  BY <1>5 DEF HandStep, Outside, Flip, vars, ledgerVars
<1> QED
  BY <1>1, <1>2, <1>3, <1>4, <1>5, BuildWritesNoDay, SubmitWritesNoDay DEF Next, SlackdNext

\* A day is marked submitted only when it was filed.
LEMMA DaysStayFiled ==
  ASSUME CycleInv, FilingInv, [Next]_vars
  PROVE  SubmittedDayWasFiled'
<1>a. TypeOK /\ SubmittedDayWasFiled /\ history.filed \subseteq history'.filed
  BY HistoryGrows DEF CycleInv, FilingInv
<1>1. CASE LedgerInput
  BY <1>a, <1>1, InputKeepsFiled
<1>2. CASE claimDay' = claimDay
  BY <1>a, <1>2, MarkKeepsFiled
<1>3. ASSUME NEW D, NEW s, s \in {"needs_input", "drafted"},
             claimDay' = MarkDaysState(claimDay, D, s)
      PROVE  SubmittedDayWasFiled'
  BY <1>a, <1>3, MarkKeepsFiled
<1>4. CASE BuildMarkFiled /\ claimDay' = MarkDaysState(claimDay, build.pos.filed, "submitted")
  <2>1. \A d \in build.pos.filed : WasFiled(d)
    BY <1>4 DEF BuildMarkFiled, FilingInv
  <2> QED
    BY <1>a, <1>4, <2>1, MarkKeepsFiled
<1>5. CASE SubmitRecordDays /\ claimDay' = MarkDaysState(claimDay, submit.days, "submitted")
  <2>1. \A d \in submit.days : WasFiled(d)
    BY <1>5 DEF SubmitRecordDays, FilingInv
  <2> QED
    BY <1>a, <1>5, <2>1, MarkKeepsFiled
<1> QED
  BY <1>1, <1>2, <1>3, <1>4, <1>5, OnlyMarks

\* The filed days a build is about to mark are the ones it has read.
LEMMA BuildMarksWhatItRead ==
  ASSUME CycleInv, FilingInv, [Next]_vars, build'.pc = "markFiled"
  PROVE  \A d \in build'.pos.filed : WasFiled(d)'
<1>a. history.filed \subseteq history'.filed /\ build \in BuildMemory
  BY HistoryGrows DEF CycleInv, BuildOK
<1>b. \A d : WasFiled(d) => WasFiled(d)'
  BY <1>a DEF WasFiled
<1>1. CASE build' = build
  BY <1>b, <1>1 DEF FilingInv
<1>2. CASE BuildRead
  <2> DEFINE pos == Position(tasks, BuildKey.type, build.work[BuildKey])
  <2>1. build' = [build EXCEPT !.pos = pos, !.pc = AfterRead(pos)]
    BY <1>2 DEF BuildRead
  <2>2. \A d \in pos.filed : WasFiled(d)
    BY ReadAsFiled DEF CycleInv
  <2> HIDE DEF pos
  <2>3. build'.pos = pos
    BY <1>a, <2>1 DEF BuildMemory
  <2> QED
    BY <1>b, <2>2, <2>3
<1>3. ASSUME NEW broken \in BOOLEAN, EndItem(broken), build.pc # "idle"
      PROVE  FALSE
  BY <1>3, EndItemOK DEF CycleInv
<1>4. ASSUME NEW pc, pc # "markFiled", build' = [build EXCEPT !.pc = pc]
      PROVE  FALSE
  BY <1>a, <1>4 DEF BuildMemory
<1>5. ASSUME build' = IdleBuild
      PROVE  FALSE
  BY <1>5 DEF IdleBuild
<1>c. build.broken \in BOOLEAN
  BY <1>a DEF BuildMemory
<1>6. ASSUME NEW D, NEW s, NEW next, BuildMark(D, s, next), next # "markFiled",
             build.pc # "idle"
      PROVE  FALSE
  BY <1>3, <1>4, <1>6 DEF BuildMark
<1>7. CASE BuildNext /\ ~ BuildRead
  <2>1. CASE BuildPlan
    <3> DEFINE w == [k \in {k \in Keys : NeedsBuild(k, dryRun)} |-> ClaimableDays(claimDay, k)]
    <3>1. build' = [IdleBuild EXCEPT !.pc = "planned", !.dry = dryRun, !.work = w]
      BY <2>1 DEF BuildPlan
    <3> HIDE DEF w
    <3>2. build'.pc = "planned"
      BY <3>1 DEF IdleBuild
    <3> QED
      BY <3>2
  <2>2. CASE BuildLock
    BY <1>4, <1>5, <2>2 DEF BuildLock
  <2>3. CASE BuildMarkFiled \/ BuildMarkConflict \/ BuildMarkDrafted
    BY <1>6, <2>3 DEF BuildMarkFiled, BuildMarkConflict, BuildMarkDrafted
  <2>4. CASE Rehearse \/ GoLive \/ BuildVerify \/ BuildCreate \/ BuildCard
    BY <1>4, <2>4 DEF Rehearse, GoLive, BuildVerify, BuildCreate, BuildCard
  <2>5. CASE NothingToFile \/ WaitForOtherDraft \/ RefuseMismatch \/ BuildVerifyFails
             \/ BuildRecord \/ BuildRaises \/ BuildSqlRaises
    BY <1>3, <1>c, <2>5 DEF NothingToFile, WaitForOtherDraft, RefuseMismatch, BuildVerifyFails,
       FailItem, BuildRecord, BuildRaises, BuildSqlRaises
  <2>6. CASE BuildCrash
    BY <1>5, <2>6 DEF BuildCrash
  <2> QED
    BY <1>7, <2>1, <2>2, <2>3, <2>4, <2>5, <2>6 DEF BuildNext, BuildStep
<1>8. CASE SubmitNext
  BY <1>1, <1>8, SubmitStepOK, TypeParts DEF CycleInv, RestOK
<1>9. CASE SlackdNext \/ HandStep
  BY <1>1, <1>9, SlackdRest, HandRest
<1>10. CASE Flip \/ UNCHANGED vars
  BY <1>1, <1>10 DEF Flip, vars
<1> QED
  BY <1>2, <1>7, <1>8, <1>9, <1>10 DEF Next


\* What a submit run has read as filed or is about to record as filed.
SubmitHoldsFiled ==
  /\ submit.pc \in {"settleAct", "fileAct"} => \A d \in submit.pos.filed : WasFiled(d)
  /\ submit.pc \in {"record", "recordDays"} => \A d \in submit.days : WasFiled(d)

\* A submit run records as filed only what AFAS has just shown filed.
LEMMA SubmitRecordsWhatItRead ==
  ASSUME CycleInv, FilingInv, [Next]_vars
  PROVE  SubmitHoldsFiled'
<1>a. /\ history.filed \subseteq history'.filed /\ submit \in SubmitMemory /\ SubmitHoldsFiled
      /\ SubmitOK
  BY HistoryGrows DEF CycleInv, SubmitOK, FilingInv, SubmitHoldsFiled
<1>b. \A d : WasFiled(d) => WasFiled(d)'
  BY <1>a DEF WasFiled
<1>1. CASE submit' = submit
  BY <1>a, <1>b, <1>1 DEF SubmitHoldsFiled
<1>2. ASSUME submit'.pc \notin {"settleAct", "fileAct", "record", "recordDays"}
      PROVE  SubmitHoldsFiled'
  BY <1>2 DEF SubmitHoldsFiled
<1>3. ASSUME EndRow, submit.pc \notin {"idle", "rehearse", "check"}
      PROVE  SubmitHoldsFiled'
  BY <1>a, <1>2, <1>3, EndRowOK
<1>4. ASSUME NEW pc \in {"record", "recordDays"}, submit' = [submit EXCEPT !.pc = pc],
             \A d \in submit.days : WasFiled(d)
      PROVE  SubmitHoldsFiled'
  BY <1>a, <1>b, <1>4 DEF SubmitHoldsFiled, SubmitMemory
<1>5. ASSUME NEW pc, submit' = [submit EXCEPT !.pc = pc],
             pc \notin {"settleAct", "fileAct", "record", "recordDays"}
      PROVE  SubmitHoldsFiled'
  BY <1>a, <1>2, <1>5 DEF SubmitMemory
<1>6. ASSUME submit' = IdleSubmit
      PROVE  SubmitHoldsFiled'
  BY <1>2, <1>6, IdleSubmitOK
<1>7. CASE SubmitNext
  <2>1. CASE SubmitSelect
    <3>1. submit'.pc \in {"lock", "rehearse", "check"}
      BY <1>a, <2>1, SelectOK, TypeParts DEF SubmitSelect, CycleInv, RestOK
    <3> QED
      BY <1>2, <3>1
  <2>2. CASE SubmitRehearse
    BY <1>a, <1>2, <2>2, AfterRowOK DEF SubmitRehearse
  <2>3. CASE SubmitCheck
    <3> DEFINE keep == StillAsApproved(First(DOMAIN submit.rows))
    <3>1. keep \in BOOLEAN
      BY DEF StillAsApproved
    <3>2. submit.pc = "check" /\ AfterRow(submit.pc, keep)
      BY <2>3 DEF SubmitCheck
    <3> HIDE DEF keep
    <3>3. submit'.pc \in {"idle", "lock", submit.pc}
      BY <1>a, <3>1, <3>2, AfterRowOK
    <3> QED
      BY <1>2, <3>2, <3>3
  <2>4. CASE SubmitLock
    <3>1. CASE submit' = IdleSubmit
      BY <1>6, <3>1
    <3>2. CASE submit' = [submit EXCEPT !.pc = FirstStep(submit.unsettled)]
      BY <1>5, <3>2 DEF FirstStep
    <3> QED
      BY <2>4, <3>1, <3>2 DEF SubmitLock
  <2>5. CASE SubmitRead
    <3> DEFINE days == ClaimableDays(claimDay, SubmitKey)
               pos == Position(tasks, SubmitKey.type, days)
    <3>1. submit' = [submit EXCEPT !.days = days, !.pos = pos,
                       !.pc = IF submit.pc = "settle" THEN "settleAct" ELSE "fileAct"]
      BY <2>5 DEF SubmitRead
    <3>2. \A d \in pos.filed : WasFiled(d)
      BY ReadAsFiled DEF CycleInv
    <3> HIDE DEF days, pos
    <3>3. submit'.pos = pos /\ submit'.pc \in {"settleAct", "fileAct"}
      BY <1>a, <3>1 DEF SubmitMemory
    <3> QED
      BY <1>b, <3>2, <3>3 DEF SubmitHoldsFiled
  <2>6. CASE SubmitRecord
    BY <1>4, <1>a, <2>6 DEF SubmitRecord, SubmitHoldsFiled
  <2>7. CASE SubmitRecordDays
    BY <1>3, <1>6, <2>7 DEF SubmitRecordDays
  <2>8. CASE SettleFiled \/ FileAlreadyFiled
    <3>1. \A d \in submit.days : WasFiled(d)
      BY <1>a, <2>8 DEF SettleFiled, FileAlreadyFiled, AllOf, SubmitHoldsFiled
    <3> QED
      BY <1>4, <2>8, <3>1 DEF SettleFiled, FileAlreadyFiled
  <2>9. CASE FileVerify
    <3>1. \A d \in submit.days : WasFiled(d)
      BY <2>9, ReadAsFiled DEF FileVerify, FilingConfirmed, CycleInv
    <3> QED
      BY <1>4, <2>9, <3>1 DEF FileVerify
  <2>10. CASE SettleDraft \/ FileInFlight \/ FileClick
    BY <1>5, <2>10 DEF SettleDraft, FileInFlight, FileClick
  <2>11. CASE SettleRecord \/ FileRaises
    BY <1>3, <2>11 DEF SettleRecord, FileRaises
  <2>12. CASE SettleFailed \/ FileDraftChanged \/ FileBlocked \/ FileUnconfirmed
    BY <1>3, <2>12 DEF SettleFailed, FileDraftChanged, FileBlocked, FileUnconfirmed, EndRowAs
  <2>13. CASE SubmitCrash
    BY <1>6, <2>13 DEF SubmitCrash
  <2> QED
    BY <1>7, <2>1, <2>2, <2>3, <2>4, <2>5, <2>6, <2>7, <2>8, <2>9, <2>10, <2>11, <2>12, <2>13
       DEF SubmitNext, SubmitStep
<1>8. CASE BuildNext
  BY <1>1, <1>8, BuildStepOK, TypeParts DEF CycleInv, RestOK
<1>9. CASE SlackdNext \/ HandStep
  BY <1>1, <1>9, SlackdRest, HandRest
<1>10. CASE Flip \/ UNCHANGED vars
  BY <1>1, <1>10 DEF Flip, vars
<1> QED
  BY <1>7, <1>8, <1>9, <1>10 DEF Next

LEMMA FilingStep == CycleInv /\ FilingInv /\ [Next]_vars => FilingInv'
<1> SUFFICES ASSUME CycleInv, FilingInv, [Next]_vars
             PROVE  FilingInv'
  OBVIOUS
<1>1. build'.pc = "markFiled" => \A d \in build'.pos.filed : WasFiled(d)'
  BY BuildMarksWhatItRead
<1>2. SubmittedDayWasFiled'
  BY DaysStayFiled
<1>3. SubmitHoldsFiled'
  BY SubmitRecordsWhatItRead
<1>4. \A x \in tasks' : x.status = "filed" => \A d \in x.days : <<x.type, d>> \in history'.filed
  BY TasksStayFiled
<1> QED
  BY <1>1, <1>2, <1>3, <1>4 DEF FilingInv, SubmitHoldsFiled

LEMMA FilingInit == Init => FilingInv
<1> SUFFICES ASSUME Init
             PROVE  FilingInv
  OBVIOUS
<1>1. \A d \in Days : claimDay[d] \in FreshRow
  BY InitialDaysAssumption DEF Init
<1>2. \A d \in Days : claimDay[d].state # "submitted"
  BY <1>1 DEF FreshRow, NoRow, ClassifiedRow, Classification
<1>3. tasks = {} /\ build.pc = "idle" /\ submit.pc = "idle"
  BY DEF Init, IdleBuild, IdleSubmit
<1> QED
  BY <1>2, <1>3 DEF FilingInv, SubmittedDayWasFiled

\* However builds, submits, rejections and edits by hand follow each other, the ledger
\* calls a day submitted only after AFAS has shown it on a filed declaration.
THEOREM SubmittedOnlyWhenFiled == Spec => []SubmittedDayWasFiled
<1>1. FilingInv => SubmittedDayWasFiled
  BY DEF FilingInv
<1> QED
  BY <1>1, CycleInit, CycleStep, FilingInit, FilingStep, PTL DEF Spec


-----------------------------------------------------------------------------
(* Declarations in AFAS, as long as nobody writes lines there by hand *)

\* AFAS lists a declaration once, every line belongs to one declaration, and at most
\* one draft of a type is open.
EntriesOK ==
  /\ \A x, y \in tasks : x.id = y.id => x = y
  /\ \A x, y \in tasks : x # y => x.days \intersect y.days = {}
  /\ \A x \in tasks : x.days # {}
  /\ \A x, y \in tasks : x.status = "draft" /\ y.status = "draft" /\ x.type = y.type => x = y

\* What a build concludes from its one reading of the list stays true until it has
\* created its draft.
ReadingStands ==
  build.pc \in {"markFiled", "markConflict", "decide", "create"} =>
    /\ \A d \in build.pos.absent : Lines(tasks, d) = {}
    /\ build.pos.draft = {} /\ build.pos.others = {} => OpenDrafts(BuildKey.type) = {}

\* A build creates where nothing of this type is open.
CreatesAlone ==
  build.pc = "create" =>
    build.pos.draft = {} /\ build.pos.others = {} /\ build.pos.absent # {}

EntriesInv == EntriesOK /\ ReadingStands /\ CreatesAlone

\* A list in which no open draft shows up has none.
LEMMA NoDraftToRead ==
  ASSUME tasks \subseteq Task, EntriesOK, NEW t, NEW D \in SUBSET Days,
         Position(tasks, t, D).draft = {}, Position(tasks, t, D).others = {}
  PROVE  OpenDrafts(t) = {}
<1> SUFFICES ASSUME NEW x \in OpenDrafts(t)
             PROVE  FALSE
  OBVIOUS
<1>1. x \in tasks /\ IsDraft(x, t) /\ x.type = t /\ x.status = "draft"
  BY DEF OpenDrafts, IsDraft
<1>2. PICK d \in x.days : d \in Days
  BY <1>1 DEF EntriesOK, Task
<1>3. x \in Lines(tasks, d)
  BY <1>1, <1>2 DEF Lines
<1>4. CASE d \in D
  <2>1. \A y \in Lines(tasks, d) : y = x
    BY <1>1, <1>2 DEF Lines, EntriesOK
  <2>2. Lines(tasks, d) = {x}
    BY <1>3, <2>1
  <2>3. d \in Sole(tasks, t, D, "draft")
    BY <1>1, <1>4, <2>2 DEF Sole
  <2> QED
    BY <2>3 DEF Position
<1>5. CASE d \notin D
  <2>1. d \in Position(tasks, t, D).others
    BY <1>1, <1>2, <1>3, <1>5 DEF Position
  <2> QED
    BY <2>1
<1> QED
  BY <1>4, <1>5

\* A declaration that moves on in AFAS keeps its lines and is a draft no more.
LEMMA MovingOnKeepsEntries ==
  ASSUME EntriesOK, NEW x \in tasks, NEW y,
         y.id = x.id, y.type = x.type, y.days = x.days, y.status # "draft",
         tasks' = (tasks \ {x}) \union {y} \/ tasks' = tasks \ {x}
  PROVE  /\ EntriesOK'
         /\ \A d : Lines(tasks, d) = {} => Lines(tasks', d) = {}
         /\ \A t : OpenDrafts(t) = {} => OpenDrafts(t)' = {}
<1>1. \A z \in tasks' : (z \in tasks /\ z # x) \/ z = y
  OBVIOUS
<1>2. EntriesOK'
  <2>1. \A u, v \in tasks' : u.id = v.id => u = v
    BY <1>1 DEF EntriesOK
  <2>2. \A u, v \in tasks' : u # v => u.days \intersect v.days = {}
    BY <1>1 DEF EntriesOK
  <2>3. \A u \in tasks' : u.days # {}
    BY <1>1 DEF EntriesOK
  <2>4. \A u, v \in tasks' : u.status = "draft" /\ v.status = "draft" /\ u.type = v.type => u = v
    BY <1>1 DEF EntriesOK
  <2> QED
    BY <2>1, <2>2, <2>3, <2>4 DEF EntriesOK
<1>3. \A d : Lines(tasks, d) = {} => Lines(tasks', d) = {}
  BY <1>1 DEF Lines
<1>4. \A t : OpenDrafts(t) = {} => OpenDrafts(t)' = {}
  BY <1>1 DEF OpenDrafts, IsDraft
<1> QED
  BY <1>2, <1>3, <1>4

\* A draft on days without a line, where no draft of its type is open.
LEMMA CreatingKeepsEntries ==
  ASSUME EntriesOK, NEW t, NEW D, D # {}, AddTask(t, D, "draft"),
         \A d \in D : Lines(tasks, d) = {}, OpenDrafts(t) = {}, TypeOK
  PROVE  EntriesOK'
<1> DEFINE i == CHOOSE i \in FreeIds : \A j \in FreeIds : i <= j
           y == [id |-> i, type |-> t, days |-> D, status |-> "draft", filedBy |-> "nobody"]
<1>1. tasks' = tasks \union {y}
  BY DEF AddTask
<1>2. i \in FreeIds
  <2>1. FreeIds \in SUBSET Nat /\ FreeIds # {}
    BY TaskIdsAssumption DEF FreeIds, AddTask
  <2>2. \E m \in FreeIds : \A j \in FreeIds : m <= j
    BY <2>1, LeastExists
  <2> QED
    BY <2>2
<1>3. \A x \in tasks : x.id # i
  BY <1>2 DEF FreeIds
<1>4. y.id = i /\ y.type = t /\ y.days = D /\ y.status = "draft"
  OBVIOUS
<1>5. \A x \in tasks : x.days \intersect D = {}
  BY DEF Lines
<1>6. \A x \in tasks : ~ (x.status = "draft" /\ x.type = t)
  BY DEF OpenDrafts, IsDraft
<1> HIDE DEF i, y
<1>7. \A u, v \in tasks' : u.id = v.id => u = v
  BY <1>1, <1>3, <1>4 DEF EntriesOK
<1>8. \A u, v \in tasks' : u # v => u.days \intersect v.days = {}
  BY <1>1, <1>4, <1>5 DEF EntriesOK
<1>9. \A u \in tasks' : u.days # {}
  BY <1>1, <1>4 DEF EntriesOK
<1>10. \A u, v \in tasks' : u.status = "draft" /\ v.status = "draft" /\ u.type = v.type => u = v
  BY <1>1, <1>4, <1>6 DEF EntriesOK
<1> QED
  BY <1>7, <1>8, <1>9, <1>10 DEF EntriesOK


ReadPcs == {"markFiled", "markConflict", "decide", "create"}

\* Nobody may add a line or a declaration to AFAS by hand.
NoLinesByHand == "edit" \notin HandEdits /\ "create" \notin HandEdits

\* A step that leaves AFAS and what the build holds in memory alone.
LEMMA ReadingStays ==
  ASSUME EntriesInv, tasks' = tasks,
         build'.work = build.work, build'.pos = build.pos,
         build'.pc \in ReadPcs => build.pc \in ReadPcs,
         build'.pc = "create" =>
           build.pos.draft = {} /\ build.pos.others = {} /\ build.pos.absent # {}
  PROVE  EntriesInv'
<1>1. EntriesOK'
  BY DEF EntriesInv, EntriesOK
<1>2. BuildKey' = BuildKey
  BY DEF BuildKey
<1>3. ReadingStands'
  BY <1>2 DEF EntriesInv, ReadingStands, ReadPcs, Lines, OpenDrafts, IsDraft
<1>4. CreatesAlone'
  BY DEF CreatesAlone
<1> QED
  BY <1>1, <1>3, <1>4 DEF EntriesInv

\* A step after which the build is not between its reading and its draft.
LEMMA NothingToStand ==
  ASSUME EntriesOK', build'.pc \notin ReadPcs
  PROVE  EntriesInv'
BY DEF EntriesInv, ReadingStands, CreatesAlone, ReadPcs

\* A declaration that moves on in AFAS while a build runs.
LEMMA MovingOnKeepsReading ==
  ASSUME EntriesInv, build' = build, EntriesOK',
         \A d : Lines(tasks, d) = {} => Lines(tasks', d) = {},
         \A t : OpenDrafts(t) = {} => OpenDrafts(t)' = {}
  PROVE  EntriesInv'
<1>1. BuildKey' = BuildKey
  BY DEF BuildKey
<1>2. \A t : {x \in tasks : IsDraft(x, t)} = {} => {x \in tasks' : IsDraft(x, t)} = {}
  BY DEF OpenDrafts, IsDraft
<1>3. ReadingStands'
  <2> SUFFICES ASSUME build.pc \in ReadPcs
               PROVE  /\ \A d \in build.pos.absent : Lines(tasks', d) = {}
                      /\ build.pos.draft = {} /\ build.pos.others = {}
                         => {x \in tasks' : IsDraft(x, BuildKey.type)} = {}
    BY <1>1 DEF ReadingStands, ReadPcs, OpenDrafts, IsDraft
  <2> QED
    BY <1>2 DEF EntriesInv, ReadingStands, ReadPcs, OpenDrafts
<1>4. CreatesAlone'
  BY DEF CreatesAlone, EntriesInv
<1> QED
  BY <1>3, <1>4 DEF EntriesInv

LEMMA BuildKeepsEntries ==
  ASSUME CycleInv, EntriesInv, BuildNext
  PROVE  EntriesInv'
<1>a. /\ build \in BuildMemory /\ build.broken \in BOOLEAN /\ tasks \subseteq Task /\ BuildOK
      /\ TypeOK /\ EntriesOK
  BY TypeParts DEF CycleInv, BuildOK, BuildMemory, RestOK, EntriesInv
<1>b. tasks' = tasks => EntriesOK'
  BY <1>a DEF EntriesOK
<1>1. ASSUME NEW broken \in BOOLEAN, EndItem(broken), build.pc # "idle", tasks' = tasks
      PROVE  EntriesInv'
  <2>1. build'.pc \notin ReadPcs
    BY <1>a, <1>1, EndItemOK DEF ReadPcs
  <2> QED
    BY <1>b, <1>1, <2>1, NothingToStand
<1>2. ASSUME NEW pc, build' = [build EXCEPT !.pc = pc], tasks' = tasks, pc # "create",
             pc \in ReadPcs => build.pc \in ReadPcs
      PROVE  EntriesInv'
  <2>1. build'.pc = pc /\ build'.work = build.work /\ build'.pos = build.pos
    BY <1>a, <1>2 DEF BuildMemory
  <2> QED
    BY <1>2, <2>1, ReadingStays
<1>3. ASSUME build'.pc \in {"idle", "planned", "read"}, tasks' = tasks
      PROVE  EntriesInv'
  BY <1>b, <1>3, NothingToStand DEF ReadPcs
<1>4. CASE BuildPlan
  <2> DEFINE w == [k \in {k \in Keys : NeedsBuild(k, dryRun)} |-> ClaimableDays(claimDay, k)]
  <2>1. build' = [IdleBuild EXCEPT !.pc = "planned", !.dry = dryRun, !.work = w]
    BY <1>4 DEF BuildPlan
  <2> HIDE DEF w
  <2>2. build'.pc = "planned"
    BY <2>1 DEF IdleBuild
  <2> QED
    BY <1>3, <1>4, <2>2 DEF BuildPlan
<1>5. CASE BuildLock
  <2>1. build' = [build EXCEPT !.pc = "read"] \/ build' = IdleBuild
    BY <1>5 DEF BuildLock
  <2>2. build'.pc \in {"idle", "read"}
    BY <1>a, <2>1, IdleBuildOK DEF BuildMemory
  <2> QED
    BY <1>3, <1>5, <2>2 DEF BuildLock
<1>6. CASE BuildRead
  <2> DEFINE pos == Position(tasks, BuildKey.type, build.work[BuildKey])
  <2>1. /\ build' = [build EXCEPT !.pos = pos, !.pc = AfterRead(pos)]
        /\ tasks' = tasks /\ build.pc = "read"
    BY <1>6 DEF BuildRead
  <2>2. build.work[BuildKey] \in SUBSET Days
    BY <1>a, <2>1, BuildKeyIsKey
  <2>3. \A d \in pos.absent : Lines(tasks, d) = {}
    BY DEF Position, Absent
  <2>4. pos.draft = {} /\ pos.others = {} => OpenDrafts(BuildKey.type) = {}
    BY <1>a, <2>2, NoDraftToRead
  <2> HIDE DEF pos
  <2>5. AfterRead(pos) # "create"
    BY DEF AfterRead
  <2>6. build'.pos = pos /\ build'.work = build.work /\ build'.pc # "create"
    BY <1>a, <2>1, <2>5 DEF BuildMemory
  <2>7. BuildKey' = BuildKey
    BY <2>6 DEF BuildKey
  <2>8. ReadingStands'
    BY <2>1, <2>3, <2>4, <2>6, <2>7 DEF ReadingStands, OpenDrafts, IsDraft, Lines
  <2>9. CreatesAlone'
    BY <2>6 DEF CreatesAlone
  <2> QED
    BY <1>b, <2>1, <2>8, <2>9 DEF EntriesInv
<1>7. ASSUME NEW D, NEW s, NEW next, BuildMark(D, s, next), next # "create",
             build.pc # "idle", next \in ReadPcs => build.pc \in ReadPcs
      PROVE  EntriesInv'
  BY <1>1, <1>2, <1>7 DEF BuildMark
<1>8. CASE BuildMarkFiled
  BY <1>7, <1>8 DEF BuildMarkFiled, ReadPcs
<1>9. CASE BuildMarkConflict
  BY <1>7, <1>9 DEF BuildMarkConflict, ReadPcs
<1>10. CASE BuildMarkDrafted
  BY <1>7, <1>10 DEF BuildMarkDrafted, ReadPcs
<1>11. CASE GoLive
  <2> DEFINE pc == IF build.pos.absent # {} THEN "create" ELSE "markDrafted"
  <2>1. build' = [build EXCEPT !.pc = pc] /\ tasks' = tasks /\ build.pc = "decide"
    BY <1>11 DEF GoLive
  <2>2. pc = "create" =>
          build.pos.draft = {} /\ build.pos.others = {} /\ build.pos.absent # {}
    BY <1>11 DEF GoLive, DraftMismatch, MustWait
  <2> HIDE DEF pc
  <2>3. build'.pc = pc /\ build'.work = build.work /\ build'.pos = build.pos
    BY <1>a, <2>1 DEF BuildMemory
  <2> QED
    BY <2>1, <2>2, <2>3, ReadingStays DEF ReadPcs
<1>12. CASE BuildCreate
  <2>1. build' = [build EXCEPT !.pc = "verify"] /\ build.pc = "create"
    BY <1>12 DEF BuildCreate
  <2>2. build'.pc \notin ReadPcs
    BY <1>a, <2>1 DEF BuildMemory, ReadPcs
  <2>3. CASE AddTask(BuildKey.type, build.pos.absent, "draft")
    <3>1. /\ \A d \in build.pos.absent : Lines(tasks, d) = {}
          /\ OpenDrafts(BuildKey.type) = {} /\ build.pos.absent # {}
      BY <2>1 DEF EntriesInv, ReadingStands, CreatesAlone
    <3>2. EntriesOK'
      BY <1>a, <2>3, <3>1, CreatingKeepsEntries
    <3> QED
      BY <2>2, <3>2, NothingToStand
  <2>4. CASE tasks' = tasks
    BY <1>b, <2>2, <2>4, NothingToStand
  <2> QED
    BY <1>12, <2>3, <2>4 DEF BuildCreate
<1>13. CASE Rehearse \/ BuildVerify \/ BuildCard
  BY <1>2, <1>13 DEF Rehearse, BuildVerify, BuildCard, ReadPcs
<1>14. CASE NothingToFile \/ WaitForOtherDraft \/ RefuseMismatch \/ BuildVerifyFails
            \/ BuildRecord \/ BuildRaises \/ BuildSqlRaises
  BY <1>1, <1>a, <1>14 DEF NothingToFile, WaitForOtherDraft, RefuseMismatch, BuildVerifyFails,
     FailItem, BuildRecord, BuildRaises, BuildSqlRaises
<1>15. CASE BuildCrash
  <2>1. build'.pc = "idle"
    BY <1>15, IdleBuildOK DEF BuildCrash
  <2> QED
    BY <1>3, <1>15, <2>1 DEF BuildCrash
<1> QED
  BY <1>4, <1>5, <1>6, <1>8, <1>9, <1>10, <1>11, <1>12, <1>13, <1>14, <1>15
     DEF BuildNext, BuildStep


LEMMA EntriesStep == NoLinesByHand /\ CycleInv /\ EntriesInv /\ [Next]_vars => EntriesInv'
<1> SUFFICES ASSUME NoLinesByHand, CycleInv, EntriesInv, [Next]_vars
             PROVE  EntriesInv'
  OBVIOUS
<1>a. tasks \subseteq Task /\ EntriesOK
  BY TypeParts DEF CycleInv, RestOK, EntriesInv
<1>1. ASSUME NEW x \in tasks, NEW y, y.id = x.id, y.type = x.type, y.days = x.days,
             y.status # "draft", build' = build,
             tasks' = (tasks \ {x}) \union {y} \/ tasks' = tasks \ {x}
      PROVE  EntriesInv'
  BY <1>a, <1>1, MovingOnKeepsEntries, MovingOnKeepsReading
<1>2. ASSUME NEW x \in tasks, NEW who, Lands(x, who), build' = build
      PROVE  EntriesInv'
  <2>1. /\ FiledBy(x, who).id = x.id /\ FiledBy(x, who).type = x.type
        /\ FiledBy(x, who).days = x.days /\ FiledBy(x, who).status # "draft"
    BY <1>a DEF FiledBy, Task
  <2>2. tasks' = (tasks \ {x}) \union {FiledBy(x, who)}
    BY <1>2 DEF Lands
  <2> QED
    BY <1>1, <1>2, <2>1, <2>2
<1>3. ASSUME tasks' = tasks, build' = build
      PROVE  EntriesInv'
  BY <1>3, ReadingStays DEF EntriesInv, CreatesAlone
<1>4. CASE BuildNext
  BY <1>4, BuildKeepsEntries
<1>5. CASE SubmitNext
  <2>1. build' = build
    BY <1>5, SubmitStepOK, TypeParts DEF CycleInv, RestOK
  <2>2. CASE FileClick
    <3>1. PICK x \in OpenDrafts(SubmitKey.type) : Lands(x, "app") \/ tasks' = tasks
      BY <2>2 DEF FileClick
    <3>2. x \in tasks
      BY DEF OpenDrafts
    <3> QED
      BY <1>2, <1>3, <2>1, <3>1, <3>2
  <2> QED
    BY <1>3, <1>5, <2>1, <2>2, SubmitKeepsTasks
<1>6. CASE SlackdNext
  BY <1>3, <1>6, SlackdRest, SlackdKeepsTasks
<1>7. CASE HandStep
  <2>1. build' = build
    BY <1>7, HandRest
  <2>2. ASSUME NEW x \in tasks, DeleteDraft(x)
        PROVE  EntriesInv'
    <3> DEFINE y == [x EXCEPT !.status = "other"]
    <3>1. y.id = x.id /\ y.type = x.type /\ y.days = x.days /\ y.status # "draft"
      BY <1>a DEF Task
    <3>2. tasks' = tasks \ {x}
      BY <2>2 DEF DeleteDraft
    <3> HIDE DEF y
    <3> QED
      BY <1>1, <2>1, <3>1, <3>2
  <2>3. ASSUME NEW x \in tasks, FileByHand(x)
        PROVE  EntriesInv'
    BY <1>2, <2>1, <2>3 DEF FileByHand
  <2>4. ASSUME NEW x \in tasks, ManagerRejects(x)
        PROVE  EntriesInv'
    <3> DEFINE y == [x EXCEPT !.status = "other"]
    <3>1. y.id = x.id /\ y.type = x.type /\ y.days = x.days /\ y.status # "draft"
      BY <1>a DEF Task
    <3>2. tasks' = (tasks \ {x}) \union {y}
      BY <2>4 DEF ManagerRejects
    <3> HIDE DEF y
    <3> QED
      BY <1>1, <2>1, <3>1, <3>2
  <2> QED
    BY <1>7, <2>2, <2>3, <2>4 DEF HandStep, NoLinesByHand
<1>8. CASE Flip \/ UNCHANGED vars
  BY <1>3, <1>8 DEF Flip, vars
<1> QED
  BY <1>4, <1>5, <1>6, <1>7, <1>8 DEF Next

LEMMA EntriesInit == Init => EntriesInv
BY DEF Init, EntriesInv, EntriesOK, ReadingStands, CreatesAlone, IdleBuild

\* As long as nobody writes lines in AFAS by hand, no day gets on two declarations: not
\* by a build that reads before a click and creates after it, not by a round that is
\* built again, not for the other claim type.
THEOREM NoDayClaimedTwice ==
  ASSUME NoLinesByHand
  PROVE  Spec => []DayClaimedOnce
<1>1. EntriesInv => DayClaimedOnce
  BY DEF EntriesInv, EntriesOK, DayClaimedOnce
<1>2. CycleInv /\ EntriesInv /\ [Next]_vars => EntriesInv'
  BY EntriesStep
<1> QED
  BY <1>1, <1>2, CycleInit, CycleStep, EntriesInit, PTL DEF Spec

\* Under the same assumption the queue keeps one draft of a type open at most, so the
\* task list always shows which one to file.
THEOREM QueueKeepsOneDraft ==
  ASSUME NoLinesByHand
  PROVE  Spec => []OneOpenDraftPerType
<1>1. EntriesInv => OneOpenDraftPerType
  <2> SUFFICES ASSUME EntriesInv, NEW t \in ClaimTypes
               PROVE  Cardinality(OpenDrafts(t)) <= 1
    BY DEF OneOpenDraftPerType
  <2>1. \A x, y \in OpenDrafts(t) : x = y
    BY DEF EntriesInv, EntriesOK, OpenDrafts, IsDraft
  <2>2. OpenDrafts(t) = {} \/ \E x : OpenDrafts(t) = {x}
    BY <2>1
  <2>3. Cardinality(OpenDrafts(t)) = 0 \/ Cardinality(OpenDrafts(t)) = 1
    BY <2>2, FS_EmptySet, FS_Singleton
  <2> QED
    BY <2>3
<1>2. CycleInv /\ EntriesInv /\ [Next]_vars => EntriesInv'
  BY EntriesStep
<1> QED
  BY <1>1, <1>2, CycleInit, CycleStep, EntriesInit, PTL DEF Spec


-----------------------------------------------------------------------------
(* What a submit run knows of the row it is at *)

\* Between the reading of a row and the end of it.
RowPcs == {"settleAct", "settleRecord", "fileAct", "click", "verify", "record", "recordDays"}

\* A run at a row has read it just now, or knew before what it knows now.
LEMMA AtARow ==
  ASSUME CycleInv, [Next]_vars, submit'.pc \in RowPcs, submit' # submit
  PROVE  /\ SubmitNext /\ SubmitKey' = SubmitKey
         /\ UNCHANGED <<submit.rows, submit.ready, submit.unsettled>>
         /\ \/ /\ SubmitRead
               /\ submit'.days = ClaimableDays(claimDay, SubmitKey)
               /\ submit'.pos = Position(tasks, SubmitKey.type, submit'.days)
               /\ submit'.pc = IF submit.pc = "settle" THEN "settleAct" ELSE "fileAct"
            \/ /\ submit.pc \in RowPcs /\ UNCHANGED <<submit.days, submit.pos>>
               /\ submit'.pc \notin {"settleAct", "fileAct"}
               /\ submit'.pc = "click" => FileInFlight
               /\ submit'.pc = "record" => SettleFiled \/ FileAlreadyFiled \/ FileVerify
               /\ submit'.pc = "recordDays" => SubmitRecord
<1>a. submit \in SubmitMemory /\ SubmitOK
  BY DEF CycleInv, SubmitOK
<1>1. CASE SubmitNext
  <2>3. ASSUME EndRow, submit.pc \notin {"idle", "rehearse", "check"}
        PROVE  FALSE
    BY <1>a, <2>3, EndRowOK DEF RowPcs
  <2>4. ASSUME NEW pc, submit' = [submit EXCEPT !.pc = pc]
        PROVE  /\ submit'.pc = pc /\ SubmitKey' = SubmitKey
               /\ UNCHANGED <<submit.rows, submit.ready, submit.unsettled, submit.days, submit.pos>>
    <3>1. /\ submit'.pc = pc
          /\ UNCHANGED <<submit.rows, submit.ready, submit.unsettled, submit.days, submit.pos>>
      BY <1>a, <2>4 DEF SubmitMemory
    <3> QED
      BY <3>1 DEF SubmitKey
  <2>6. ASSUME submit' = IdleSubmit
        PROVE  FALSE
    BY <2>6, IdleSubmitOK DEF RowPcs
  <2>7. CASE SubmitSelect
    <3>1. submit'.pc \in {"lock", "rehearse", "check"}
      BY <1>a, <2>7, SelectOK, TypeParts DEF SubmitSelect, CycleInv, RestOK
    <3> QED
      BY <3>1 DEF RowPcs
  <2>8. CASE SubmitRehearse
    BY <1>a, <2>8, AfterRowOK DEF SubmitRehearse, RowPcs
  <2>9. CASE SubmitCheck
    <3> DEFINE keep == StillAsApproved(First(DOMAIN submit.rows))
    <3>1. keep \in BOOLEAN
      BY DEF StillAsApproved
    <3>2. submit.pc = "check" /\ AfterRow(submit.pc, keep)
      BY <2>9 DEF SubmitCheck
    <3> HIDE DEF keep
    <3>3. submit'.pc \in {"idle", "lock", submit.pc}
      BY <1>a, <3>1, <3>2, AfterRowOK
    <3> QED
      BY <3>2, <3>3 DEF RowPcs
  <2>10. CASE SubmitLock
    <3>1. CASE submit' = IdleSubmit
      BY <2>6, <3>1
    <3>2. CASE submit' = [submit EXCEPT !.pc = FirstStep(submit.unsettled)]
      BY <2>4, <3>2 DEF FirstStep, RowPcs
    <3> QED
      BY <2>10, <3>1, <3>2 DEF SubmitLock
  <2>11. CASE SubmitRead
    <3> DEFINE days == ClaimableDays(claimDay, SubmitKey)
               pos == Position(tasks, SubmitKey.type, days)
    <3>1. submit' = [submit EXCEPT !.days = days, !.pos = pos,
                       !.pc = IF submit.pc = "settle" THEN "settleAct" ELSE "fileAct"]
      BY <2>11 DEF SubmitRead
    <3> HIDE DEF days, pos
    <3>2. /\ submit'.days = days /\ submit'.pos = pos
          /\ submit'.pc = IF submit.pc = "settle" THEN "settleAct" ELSE "fileAct"
          /\ UNCHANGED <<submit.rows, submit.ready, submit.unsettled>>
      BY <1>a, <3>1 DEF SubmitMemory
    <3>3. SubmitKey' = SubmitKey
      BY <3>2 DEF SubmitKey
    <3> QED
      BY <1>1, <2>11, <3>2, <3>3 DEF days, pos
  <2>12. CASE SubmitRecord
    BY <1>1, <2>4, <2>12 DEF SubmitRecord, RowPcs
  <2>13. CASE SubmitRecordDays
    BY <2>3, <2>6, <2>13 DEF SubmitRecordDays
  <2>14. CASE SettleFiled \/ FileAlreadyFiled \/ FileVerify
    BY <1>1, <2>4, <2>14 DEF SettleFiled, FileAlreadyFiled, FileVerify, RowPcs
  <2>15. CASE SettleDraft
    BY <1>1, <2>4, <2>15 DEF SettleDraft, RowPcs
  <2>16. CASE FileInFlight
    BY <1>1, <2>4, <2>16 DEF FileInFlight, RowPcs
  <2>17. CASE FileClick
    BY <1>1, <2>4, <2>17 DEF FileClick, RowPcs
  <2>18. CASE SettleRecord \/ FileRaises
    BY <2>3, <2>18 DEF SettleRecord, FileRaises
  <2>19. CASE SettleFailed \/ FileDraftChanged \/ FileBlocked \/ FileUnconfirmed
    BY <2>3, <2>19 DEF SettleFailed, FileDraftChanged, FileBlocked, FileUnconfirmed, EndRowAs
  <2>20. CASE SubmitCrash
    BY <2>6, <2>20 DEF SubmitCrash
  <2> QED
    BY <1>1, <2>7, <2>8, <2>9, <2>10, <2>11, <2>12, <2>13, <2>14, <2>15, <2>16, <2>17, <2>18,
       <2>19, <2>20 DEF SubmitNext, SubmitStep
<1>2. CASE BuildNext
  BY <1>2, BuildStepOK, TypeParts DEF CycleInv, RestOK
<1>3. CASE SlackdNext \/ HandStep
  BY <1>3, SlackdRest, HandRest
<1>4. CASE Flip \/ UNCHANGED vars
  BY <1>4 DEF Flip, vars
<1> QED
  BY <1>1, <1>2, <1>3, <1>4 DEF Next


\* A build goes on with what it planned: the items it has left are items of the plan,
\* with the days of the plan, and what it is about to mark filed is what it has read.
LEMMA AtAnItem ==
  ASSUME CycleInv, [Next]_vars, build'.pc # "idle", build' # build
  PROVE  /\ BuildNext
         /\ \/ \A k \in DOMAIN build'.work : build'.work[k] = ClaimableDays(claimDay, k)
            \/ /\ build.pc # "idle" /\ DOMAIN build'.work \subseteq DOMAIN build.work
               /\ \A k \in DOMAIN build'.work : build'.work[k] = build.work[k]
         /\ build'.pc = "markFiled" =>
              /\ build.pc # "idle" /\ BuildKey' = BuildKey
              /\ build'.pos = Position(tasks, BuildKey.type, build.work[BuildKey])
<1>a. build \in BuildMemory /\ BuildOK /\ build.broken \in BOOLEAN
  BY DEF CycleInv, BuildOK, BuildMemory
<1> DEFINE Goes == /\ build.pc # "idle" /\ DOMAIN build'.work \subseteq DOMAIN build.work
                   /\ \A k \in DOMAIN build'.work : build'.work[k] = build.work[k]
                   /\ build'.pc # "markFiled"
<1>1. ASSUME NEW pc, pc # "markFiled", build' = [build EXCEPT !.pc = pc], build.pc # "idle"
      PROVE  Goes
  <2>1. build'.work = build.work /\ build'.pc = pc
    BY <1>a, <1>1 DEF BuildMemory
  <2> QED
    BY <1>1, <2>1
<1>2. ASSUME NEW broken \in BOOLEAN, EndItem(broken), build.pc # "idle"
      PROVE  Goes
  <2> DEFINE rest == DOMAIN build.work \ {BuildKey}
             work == [k \in rest |-> build.work[k]]
  <2>1. build'.pc = "read"
    BY <1>a, <1>2, EndItemOK
  <2>2. build' = [build EXCEPT !.pc = "read", !.broken = broken, !.pos = NoPosition, !.work = work]
    BY <1>2, <2>1, IdleBuildOK DEF EndItem
  <2>3. DOMAIN work \subseteq DOMAIN build.work /\ \A k \in DOMAIN work : work[k] = build.work[k]
    OBVIOUS
  <2> HIDE DEF work
  <2>4. build'.work = work
    BY <1>a, <2>2 DEF BuildMemory
  <2> QED
    BY <1>2, <2>1, <2>3, <2>4
<1>3. ASSUME NEW D, NEW s, NEW next, BuildMark(D, s, next), next # "markFiled", build.pc # "idle"
      PROVE  Goes
  BY <1>1, <1>2, <1>3 DEF BuildMark
<1>4. CASE BuildNext
  <2> HIDE DEF Goes
  <2>1. CASE BuildPlan
    <3> DEFINE work == [k \in {k \in Keys : NeedsBuild(k, dryRun)} |-> ClaimableDays(claimDay, k)]
    <3>1. build' = [IdleBuild EXCEPT !.pc = "planned", !.dry = dryRun, !.work = work]
      BY <2>1 DEF BuildPlan
    <3>2. \A k \in DOMAIN work : work[k] = ClaimableDays(claimDay, k)
      OBVIOUS
    <3> HIDE DEF work
    <3>3. build'.work = work /\ build'.pc = "planned"
      BY <3>1 DEF IdleBuild
    <3> QED
      BY <1>4, <3>2, <3>3
  <2>2. CASE BuildRead
    <3> DEFINE pos == Position(tasks, BuildKey.type, build.work[BuildKey])
    <3>1. build' = [build EXCEPT !.pos = pos, !.pc = AfterRead(pos)] /\ build.pc = "read"
      BY <2>2 DEF BuildRead
    <3> HIDE DEF pos
    <3>2. build'.work = build.work /\ build'.pos = pos
      BY <1>a, <3>1 DEF BuildMemory
    <3>3. BuildKey' = BuildKey
      BY <3>2 DEF BuildKey
    <3> QED
      BY <1>4, <3>1, <3>2, <3>3 DEF pos
  <2>3. CASE ~ BuildPlan /\ ~ BuildRead
    <3> SUFFICES Goes
      BY <1>4 DEF Goes
    <3>1. CASE BuildLock
      <4>1. build' = [build EXCEPT !.pc = "read"] /\ build.pc = "planned"
        BY <3>1, IdleBuildOK DEF BuildLock
      <4> QED
        BY <1>1, <4>1
    <3>2. CASE BuildMarkFiled \/ BuildMarkConflict \/ BuildMarkDrafted
      BY <1>3, <3>2 DEF BuildMarkFiled, BuildMarkConflict, BuildMarkDrafted
    <3>3. CASE Rehearse \/ GoLive \/ BuildVerify \/ BuildCreate \/ BuildCard
      BY <1>1, <3>3 DEF Rehearse, GoLive, BuildVerify, BuildCreate, BuildCard
    <3>4. CASE NothingToFile \/ WaitForOtherDraft \/ RefuseMismatch \/ BuildVerifyFails
               \/ BuildRecord \/ BuildRaises \/ BuildSqlRaises
      BY <1>2, <1>a, <3>4 DEF NothingToFile, WaitForOtherDraft, RefuseMismatch,
         BuildVerifyFails, FailItem, BuildRecord, BuildRaises, BuildSqlRaises
    <3>5. ~ BuildCrash
      BY IdleBuildOK DEF BuildCrash
    <3> QED
      BY <1>4, <2>3, <3>1, <3>2, <3>3, <3>4, <3>5 DEF BuildNext, BuildStep
  <2> QED
    BY <2>1, <2>2, <2>3
<1>5. CASE SubmitNext
  BY <1>5, SubmitStepOK, TypeParts DEF CycleInv, RestOK
<1>6. CASE SlackdNext \/ HandStep
  BY <1>6, SlackdRest, HandRest
<1>7. CASE Flip \/ UNCHANGED vars
  BY <1>7 DEF Flip, vars
<1> QED
  BY <1>4, <1>5, <1>6, <1>7 DEF Next

\* What a day claims changes by a person's word or a night's verdict only.
LEMMA TypesStay ==
  ASSUME CycleInv, [Next]_vars, ~ LedgerInput, NEW d \in Days
  PROVE  claimDay'[d].type = claimDay[d].type
<1>a. claimDay[d] \in DayRow
  BY DEF CycleInv, TypeOK
<1>1. ASSUME NEW D, NEW s, claimDay' = MarkDaysState(claimDay, D, s)
      PROVE  claimDay'[d].type = claimDay[d].type
  <2>1. claimDay'[d] = IF d \in D /\ Markable(claimDay[d])
                       THEN [claimDay[d] EXCEPT !.state = s] ELSE claimDay[d]
    BY <1>1 DEF MarkDaysState
  <2> QED
    BY <1>a, <2>1 DEF DayRow
<1> QED
  BY <1>1, OnlyMarks

-----------------------------------------------------------------------------
(* The ledger says what was filed, as long as days do not change under a job *)

\* What the ledger says of d is what was filed.
FiledAsSaid(d) == <<claimDay[d].type, d>> \in history.filed

\* The days a job is at claim what the row it is at claims, so what it has read as filed
\* was filed as what the ledger says.
SaidInv ==
  /\ build.pc # "idle" =>
       \A k \in DOMAIN build.work : \A d \in build.work[k] : claimDay[d].type = k.type
  /\ build.pc = "markFiled" => \A d \in build.pos.filed : FiledAsSaid(d)
  /\ submit.pc \in RowPcs => \A d \in submit.days : claimDay[d].type = SubmitKey.type
  /\ submit.pc \in {"settleAct", "fileAct"} => \A d \in submit.pos.filed : FiledAsSaid(d)
  /\ submit.pc \in {"record", "recordDays"} => \A d \in submit.days : FiledAsSaid(d)
  /\ LedgerSaysWhatWasFiled

\* What position calls filed for a claim of these days was filed as such.
LEMMA ReadAsSaid ==
  ASSUME FilingInv, NEW t, NEW D, \A d \in D : claimDay[d].type = t
  PROVE  \A d \in Position(tasks, t, D).filed : FiledAsSaid(d)
<1> SUFFICES ASSUME NEW d \in Position(tasks, t, D).filed
             PROVE  FiledAsSaid(d)
  OBVIOUS
<1>1. d \in Sole(tasks, t, D, "filed")
  BY DEF Position
<1>2. PICK x \in tasks : Lines(tasks, d) = {x} /\ x.type = t /\ x.status = "filed"
  BY <1>1 DEF Sole
<1>3. d \in x.days /\ d \in D
  BY <1>1, <1>2 DEF Lines, Sole
<1> QED
  BY <1>2, <1>3 DEF FilingInv, FiledAsSaid

\* While days cannot change under a job, a person's word or a night's verdict comes
\* when no job runs, and leaves what is filed.
LEMMA InputKeepsSaid ==
  ASSUME ~ DaysChangeAnyTime, CycleInv, SaidInv, LedgerInput
  PROVE  SaidInv'
<1>1. build.pc = "idle" /\ submit.pc = "idle" /\ UNCHANGED <<build, submit, history>>
  BY DEF LedgerInput, Correct, Classify, DaysMayChange
<1>2. ASSUME NEW d \in Days, claimDay'[d].state = "submitted"
      PROVE  claimDay'[d] = claimDay[d]
  <2>1. ASSUME NEW e \in Days, NEW t \in ClaimTypes \union {NoType}, Correct(e, t)
        PROVE  claimDay'[d] = claimDay[d]
    BY <1>2, <2>1 DEF Correct, ApplyOverride, CycleInv, TypeOK
  <2>2. ASSUME NEW e \in Days, NEW c \in Classification, Classify(e, c)
        PROVE  claimDay'[d] = claimDay[d]
    <3>1. ClassifiedRow(c).state # "submitted"
      BY DEF Classification, ClassifiedRow
    <3> QED
      BY <1>2, <2>2, <3>1 DEF Classify, RecordDay, CycleInv, TypeOK
  <2> QED
    BY <2>1, <2>2 DEF LedgerInput
<1>3. LedgerSaysWhatWasFiled'
  BY <1>1, <1>2 DEF SaidInv, LedgerSaysWhatWasFiled
<1> QED
  BY <1>1, <1>3 DEF SaidInv, RowPcs

\* A build knows what its days claim.
LEMMA BuildKnows ==
  ASSUME CycleInv, FilingInv, SaidInv, [Next]_vars, ~ LedgerInput, build'.pc # "idle"
  PROVE  /\ \A k \in DOMAIN build'.work : \A d \in build'.work[k] : claimDay[d].type = k.type
         /\ build'.pc = "markFiled" => \A d \in build'.pos.filed : FiledAsSaid(d)
<1>a. BuildOK
  BY DEF CycleInv
<1>1. CASE build' = build
  BY <1>1 DEF SaidInv
<1>2. CASE build' # build
  <2>1. \A k \in DOMAIN build'.work : \A d \in build'.work[k] : claimDay[d].type = k.type
    <3>1. CASE \A k \in DOMAIN build'.work : build'.work[k] = ClaimableDays(claimDay, k)
      BY <3>1 DEF ClaimableDays
    <3>2. CASE /\ build.pc # "idle" /\ DOMAIN build'.work \subseteq DOMAIN build.work
               /\ \A k \in DOMAIN build'.work : build'.work[k] = build.work[k]
      BY <3>2 DEF SaidInv
    <3> QED
      BY <1>2, <3>1, <3>2, AtAnItem
  <2>2. ASSUME build'.pc = "markFiled"
        PROVE  \A d \in build'.pos.filed : FiledAsSaid(d)
    <3>1. /\ build.pc # "idle"
          /\ build'.pos = Position(tasks, BuildKey.type, build.work[BuildKey])
      BY <1>2, <2>2, AtAnItem
    <3>2. DOMAIN build.work \in SUBSET Keys /\ DOMAIN build.work # {}
      BY <1>a, <3>1, WorkListFacts DEF BuildOK, BuildMemory
    <3>3. BuildKey \in DOMAIN build.work
      BY <3>2, FirstIsIn DEF BuildKey
    <3>4. \A d \in build.work[BuildKey] : claimDay[d].type = BuildKey.type
      BY <3>1, <3>3 DEF SaidInv
    <3> QED
      BY <3>1, <3>4, ReadAsSaid
  <2> QED
    BY <2>1, <2>2
<1> QED
  BY <1>1, <1>2

\* A submit run knows what its days claim.
LEMMA SubmitKnows ==
  ASSUME CycleInv, FilingInv, SaidInv, [Next]_vars, submit'.pc \in RowPcs
  PROVE  /\ \A d \in submit'.days : claimDay[d].type = SubmitKey'.type
         /\ submit'.pc \in {"settleAct", "fileAct"} => \A d \in submit'.pos.filed : FiledAsSaid(d)
         /\ submit'.pc \in {"record", "recordDays"} => \A d \in submit'.days : FiledAsSaid(d)
<1>1. CASE submit' = submit
  <2>1. SubmitKey' = SubmitKey
    BY <1>1 DEF SubmitKey
  <2> QED
    BY <1>1, <2>1 DEF SaidInv
<1>2. CASE submit' # submit
  <2>1. CASE /\ submit'.days = ClaimableDays(claimDay, SubmitKey) /\ SubmitKey' = SubmitKey
             /\ submit'.pos = Position(tasks, SubmitKey.type, submit'.days)
             /\ submit'.pc = IF submit.pc = "settle" THEN "settleAct" ELSE "fileAct"
    <3>1. \A d \in submit'.days : claimDay[d].type = SubmitKey.type
      BY <2>1 DEF ClaimableDays
    <3>2. \A d \in submit'.pos.filed : FiledAsSaid(d)
      BY <2>1, <3>1, ReadAsSaid
    <3> QED
      BY <2>1, <3>1, <3>2
  <2>2. CASE /\ submit.pc \in RowPcs /\ UNCHANGED <<submit.days, submit.pos>>
             /\ SubmitKey' = SubmitKey
             /\ submit'.pc \notin {"settleAct", "fileAct"}
             /\ submit'.pc = "record" => SettleFiled \/ FileAlreadyFiled \/ FileVerify
             /\ submit'.pc = "recordDays" => SubmitRecord
    <3>1. \A d \in submit.days : claimDay[d].type = SubmitKey.type
      BY <2>2 DEF SaidInv
    <3>2. ASSUME SettleFiled \/ FileAlreadyFiled
          PROVE  \A d \in submit.days : FiledAsSaid(d)
      BY <3>2 DEF SettleFiled, FileAlreadyFiled, AllOf, SaidInv
    <3>3. ASSUME FileVerify
          PROVE  \A d \in submit.days : FiledAsSaid(d)
      BY <3>1, <3>3, ReadAsSaid DEF FileVerify, FilingConfirmed
    <3>4. ASSUME SubmitRecord
          PROVE  \A d \in submit.days : FiledAsSaid(d)
      BY <3>4 DEF SubmitRecord, SaidInv
    <3> QED
      BY <2>2, <3>1, <3>2, <3>3, <3>4
  <2> QED
    BY <1>2, <2>1, <2>2, AtARow
<1> QED
  BY <1>1, <1>2

\* Every step keeps it: no mark of a job changes what a day claims.
LEMMA SaidStep == ~ DaysChangeAnyTime /\ CycleInv /\ FilingInv /\ SaidInv /\ [Next]_vars => SaidInv'
<1> SUFFICES ASSUME CycleInv, FilingInv, SaidInv, [Next]_vars, ~ LedgerInput
             PROVE  SaidInv'
  BY InputKeepsSaid
<1>a. /\ history.filed \subseteq history'.filed /\ CycleInv'
      /\ \A d \in Days : claimDay'[d].type = claimDay[d].type
  BY HistoryGrows, CycleStep, TypesStay
<1>b. \A d \in Days : FiledAsSaid(d) => FiledAsSaid(d)'
  BY <1>a DEF FiledAsSaid
<1>c. /\ \A k \in DOMAIN build'.work : build'.work[k] \in SUBSET Days
      /\ build'.pos.filed \in SUBSET Days
      /\ submit'.days \in SUBSET Days /\ submit'.pos.filed \in SUBSET Days
  <2>1. build' \in BuildMemory /\ submit' \in SubmitMemory
    BY <1>a DEF CycleInv, BuildOK, SubmitOK, BuildMemory, SubmitMemory
  <2> QED
    BY <2>1, WorkListFacts DEF BuildMemory, SubmitMemory, Positions
<1>1. ASSUME build'.pc # "idle"
      PROVE  /\ \A k \in DOMAIN build'.work : \A d \in build'.work[k] : claimDay'[d].type = k.type
             /\ build'.pc = "markFiled" => \A d \in build'.pos.filed : FiledAsSaid(d)'
  BY <1>a, <1>b, <1>c, <1>1, BuildKnows
<1>2. ASSUME submit'.pc \in RowPcs
      PROVE  /\ \A d \in submit'.days : claimDay'[d].type = SubmitKey'.type
             /\ submit'.pc \in {"settleAct", "fileAct"} =>
                  \A d \in submit'.pos.filed : FiledAsSaid(d)'
             /\ submit'.pc \in {"record", "recordDays"} => \A d \in submit'.days : FiledAsSaid(d)'
  BY <1>a, <1>b, <1>c, <1>2, SubmitKnows
<1>3. ASSUME NEW d \in Days, claimDay'[d].state = "submitted"
      PROVE  FiledAsSaid(d)'
  <2> SUFFICES FiledAsSaid(d)
    BY <1>b
  <2>a. claimDay[d] \in DayRow
    BY DEF CycleInv, TypeOK
  <2>1. ASSUME NEW D, NEW s, claimDay' = MarkDaysState(claimDay, D, s),
               s = "submitted" => \A e \in D : FiledAsSaid(e)
        PROVE  FiledAsSaid(d)
    <3>1. claimDay'[d] = IF d \in D /\ Markable(claimDay[d])
                         THEN [claimDay[d] EXCEPT !.state = s] ELSE claimDay[d]
      BY <2>1 DEF MarkDaysState
    <3>2. claimDay[d].state = "submitted" \/ (d \in D /\ s = "submitted")
      BY <1>3, <2>a, <3>1 DEF DayRow
    <3> QED
      BY <2>1, <3>2 DEF SaidInv, LedgerSaysWhatWasFiled, FiledAsSaid
  <2>2. CASE claimDay' = claimDay
    BY <1>3, <2>2 DEF SaidInv, LedgerSaysWhatWasFiled, FiledAsSaid
  <2>3. CASE BuildMarkFiled /\ claimDay' = MarkDaysState(claimDay, build.pos.filed, "submitted")
    <3>1. \A e \in build.pos.filed : FiledAsSaid(e)
      BY <2>3 DEF BuildMarkFiled, SaidInv
    <3> QED
      BY <2>1, <2>3, <3>1
  <2>4. CASE SubmitRecordDays /\ claimDay' = MarkDaysState(claimDay, submit.days, "submitted")
    <3>1. \A e \in submit.days : FiledAsSaid(e)
      BY <2>4 DEF SubmitRecordDays, SaidInv
    <3> QED
      BY <2>1, <2>4, <3>1
  <2>5. ASSUME NEW D, NEW s, s \in {"needs_input", "drafted"},
               claimDay' = MarkDaysState(claimDay, D, s)
        PROVE  FiledAsSaid(d)
    BY <2>1, <2>5
  <2> QED
    BY <2>2, <2>3, <2>4, <2>5, OnlyMarks
<1>4. LedgerSaysWhatWasFiled'
  BY <1>3 DEF LedgerSaysWhatWasFiled, FiledAsSaid
<1> QED
  BY <1>1, <1>2, <1>4 DEF SaidInv, RowPcs

LEMMA SaidInit == Init => SaidInv
<1> SUFFICES ASSUME Init
             PROVE  SaidInv
  OBVIOUS
<1>1. \A d \in Days : claimDay[d] \in FreshRow
  BY InitialDaysAssumption DEF Init
<1>2. \A d \in Days : claimDay[d].state # "submitted"
  BY <1>1 DEF FreshRow, NoRow, ClassifiedRow, Classification
<1>3. build.pc = "idle" /\ submit.pc = "idle"
  BY DEF Init, IdleBuild, IdleSubmit
<1> QED
  BY <1>2, <1>3 DEF SaidInv, LedgerSaysWhatWasFiled, RowPcs

\* As long as no day is corrected or classified anew while a job or an approval is half
\* way, a filed day is in the ledger as what was filed: not as the other claim type, and
\* not because a line of another declaration was taken for it.
THEOREM FiledAsTheLedgerSays ==
  ASSUME ~ DaysChangeAnyTime
  PROVE  Spec => []LedgerSaysWhatWasFiled
<1>1. SaidInv => LedgerSaysWhatWasFiled
  BY DEF SaidInv
<1>2. CycleInv /\ FilingInv /\ SaidInv /\ [Next]_vars => SaidInv'
  BY SaidStep
<1> QED
  BY <1>1, <1>2, CycleInit, CycleStep, FilingInit, FilingStep, SaidInit, PTL DEF Spec

-----------------------------------------------------------------------------
(* What is clicked for is what the row was approved with, as long as no build *)
(* runs under a submit run                                                    *)

\* The CronJobs start an hour apart and a build is stopped well before that hour is
\* over (startingDeadlineSeconds, activeDeadlineSeconds), so only runs by hand overlap.
JobsTakeTurns == build.pc = "idle" \/ submit.pc = "idle"

\* What a submit run was told and has checked is still so: the rows it has to check
\* have the digests it selected them with, the rows it may file have the digest of the
\* days the ledger claims, the days in hand are those of the row it is at, and no row
\* is both to be settled and to be filed.
RowInv ==
  /\ \A k \in DOMAIN submit.rows : DigestIs(submission[k], submit.rows[k])
  /\ \A k \in submit.ready : DigestIs(submission[k], ClaimableDays(claimDay, k))
  /\ submit.pc \in RowPcs => submit.days = ClaimableDays(claimDay, SubmitKey)
  /\ (DOMAIN submit.rows \union submit.ready) \intersect submit.unsettled = {}

\* An UPDATE of the state leaves the digest.
LEMMA DigestAfterUpdate ==
  ASSUME NEW rounds \in Seq(Round), NEW S, NEW s \in SubmissionStates, NEW D,
         DigestIs(rounds, D)
  PROVE  DigestIs(UpdateWhere(rounds, S, s), D)
<1> DEFINE new == UpdateWhere(rounds, S, s)
<1>1. new \in Seq(Round) /\ Len(new) = Len(rounds)
  BY UpdateWhereFacts
<1>2. Len(rounds) \in 1 .. Len(rounds) /\ new # <<>> /\ rounds[Len(rounds)] \in Round
  BY <1>1 DEF DigestIs
<1>3. new[Len(rounds)] = IF rounds[Len(rounds)].state \in S
                         THEN [rounds[Len(rounds)] EXCEPT !.state = s] ELSE rounds[Len(rounds)]
  BY <1>2 DEF UpdateWhere
<1>4. new[Len(rounds)].digest = rounds[Len(rounds)].digest
  BY <1>2, <1>3 DEF Round
<1> QED
  BY <1>1, <1>2, <1>4 DEF DigestIs, Latest

\* Marking the days of one claim leaves the days of every other claim.
LEMMA MarkKeepsOtherClaims ==
  ASSUME claimDay \in [Days -> DayRow], NEW j, NEW k, NEW s, j \in Keys, k \in Keys, j # k,
         claimDay' = MarkDaysState(claimDay, ClaimableDays(claimDay, j), s)
  PROVE  ClaimableDays(claimDay, k)' = ClaimableDays(claimDay, k)
<1>1. j.period # k.period \/ j.type # k.type
  BY DEF Keys
<1>2. ASSUME NEW d \in Days
      PROVE  /\ claimDay'[d].type = claimDay[d].type
             /\ d \notin ClaimableDays(claimDay, j) => claimDay'[d] = claimDay[d]
  <2>1. claimDay'[d] = IF d \in ClaimableDays(claimDay, j) /\ Markable(claimDay[d])
                       THEN [claimDay[d] EXCEPT !.state = s] ELSE claimDay[d]
    BY DEF MarkDaysState
  <2>2. claimDay[d] \in DayRow
    OBVIOUS
  <2> QED
    BY <2>1, <2>2 DEF DayRow
<1>3. \A d \in ClaimableDays(claimDay, j) :
        PeriodOf[d] # k.period \/ claimDay[d].type # k.type
  BY <1>1 DEF ClaimableDays
<1> QED
  BY <1>2, <1>3 DEF ClaimableDays

\* A selected row that is checked or put back leaves the others as they were selected.
LEMMA AfterRowLists ==
  ASSUME SubmitOK, submit.pc \in {"rehearse", "check"}, NEW keep \in BOOLEAN,
         AfterRow(submit.pc, keep)
  PROVE  /\ submit'.unsettled \subseteq submit.unsettled
         /\ \A j \in DOMAIN submit'.rows :
              j \in DOMAIN submit.rows /\ submit'.rows[j] = submit.rows[j]
<1> DEFINE k == First(DOMAIN submit.rows)
           rest == DOMAIN submit.rows \ {k}
           ready == IF keep THEN submit.ready \union {k} ELSE submit.ready
           rows == [j \in rest |-> submit.rows[j]]
<1>0. submit \in SubmitMemory
  BY DEF SubmitOK
<1>1. CASE rest = {}
  <2>1. submit' = AfterCheck(ready, submit.unsettled)
    BY <1>1 DEF AfterRow
  <2>2. \/ submit' = IdleSubmit
        \/ submit' = [submit EXCEPT !.pc = "lock", !.rows = <<>>, !.ready = ready,
                        !.unsettled = submit.unsettled]
    BY <2>1 DEF AfterCheck
  <2> HIDE DEF ready
  <2>3. submit'.rows = <<>> /\ submit'.unsettled \subseteq submit.unsettled
    <3>1. CASE submit' = IdleSubmit
      BY <3>1 DEF IdleSubmit
    <3>2. CASE submit' = [submit EXCEPT !.pc = "lock", !.rows = <<>>, !.ready = ready,
                            !.unsettled = submit.unsettled]
      BY <1>0, <3>2 DEF SubmitMemory
    <3> QED
      BY <2>2, <3>1, <3>2
  <2>4. DOMAIN submit'.rows = {}
    BY <2>3
  <2> QED
    BY <2>3, <2>4
<1>2. CASE rest # {}
  <2>1. submit' = [submit EXCEPT !.pc = submit.pc, !.ready = ready, !.rows = rows]
    BY <1>2 DEF AfterRow
  <2>2. DOMAIN rows = rest /\ \A j \in rest : rows[j] = submit.rows[j]
    OBVIOUS
  <2> HIDE DEF rows, ready
  <2>3. submit'.rows = rows /\ submit'.unsettled = submit.unsettled
    BY <1>0, <2>1 DEF SubmitMemory
  <2> QED
    BY <2>2, <2>3
<1> QED
  BY <1>1, <1>2


\* A submit run binds a row to other days only when it settles it.
LEMMA SubmitKeepsDigests ==
  ASSUME CycleInv, SubmitNext, NEW k \in Keys, NEW D, DigestIs(submission[k], D),
         ~ (SettleRecord /\ k = SubmitKey)
  PROVE  DigestIs(submission'[k], D)
<1>a. submission \in [Keys -> Seq(Round)] /\ submission[k] \in Seq(Round)
  BY DEF CycleInv, TypeOK
<1>1. ASSUME NEW j, NEW s \in SubmissionStates, SetState(j, s)
      PROVE  DigestIs(submission'[k], D)
  <2>1. submission'[k] = IF k = j THEN UpdateWhere(submission[k], SetFrom, s) ELSE submission[k]
    BY <1>a, <1>1 DEF SetState, SetSubmissionState
  <2> QED
    BY <1>a, <2>1, DigestAfterUpdate
<1>b. {"drafted", "awaiting_approval", "submitted", "failed", "approved", "in_flight",
       "needs_reconciliation"} \subseteq SubmissionStates
  BY DEF SubmissionStates
<1>2. CASE submission' = submission
  BY <1>2
<1>3. CASE SubmitSelect \/ SubmitLock \/ SubmitRead \/ SubmitRecordDays \/ SettleFiled
           \/ SettleDraft \/ FileAlreadyFiled \/ FileClick \/ FileVerify \/ SubmitCrash
  BY <1>2, <1>3 DEF SubmitSelect, SubmitLock, SubmitRead, SubmitRecordDays, SettleFiled,
     SettleDraft, FileAlreadyFiled, FileClick, FileVerify, SubmitCrash, ledgerVars
<1>4. CASE SubmitRehearse \/ SubmitCheck \/ SubmitRecord \/ FileInFlight \/ FileRaises
  BY <1>1, <1>2, <1>4, <1>b DEF SubmitRehearse, SubmitCheck, SubmitRecord, FileInFlight, FileRaises
<1>5. CASE SettleFailed \/ FileDraftChanged \/ FileBlocked \/ FileUnconfirmed
  BY <1>1, <1>5, <1>b DEF SettleFailed, FileDraftChanged, FileBlocked, FileUnconfirmed, EndRowAs
<1>6. CASE SettleRecord
  <2>1. submission'[k] = submission[k]
    BY <1>a, <1>6 DEF SettleRecord
  <2> QED
    BY <2>1
<1> QED
  BY <1>3, <1>4, <1>5, <1>6 DEF SubmitNext, SubmitStep

\* Past its checks a run only crosses rows off.
LEMMA RowsAreCrossedOff ==
  ASSUME CycleInv, SubmitNext, submit.pc \notin {"idle", "rehearse", "check"}
  PROVE  /\ DOMAIN submit'.rows = {}
         /\ submit'.ready \subseteq submit.ready /\ submit'.unsettled \subseteq submit.unsettled
         /\ EndRow => SubmitKey \notin submit'.ready \/ SubmitKey \in submit.unsettled
<1>a. submit \in SubmitMemory /\ SubmitOK /\ submit.rows = <<>> /\ DOMAIN submit.rows = {}
  BY WorkListFacts DEF CycleInv, SubmitOK, SubmitLists
<1>1. CASE submit' = IdleSubmit
  <2>1. submit'.rows = <<>> /\ submit'.ready = {} /\ submit'.unsettled = {}
    BY <1>1 DEF IdleSubmit
  <2>2. DOMAIN submit'.rows = {}
    BY <2>1
  <2> QED
    BY <2>1, <2>2
<1>2. CASE UNCHANGED <<submit.rows, submit.ready, submit.unsettled>> /\ ~ EndRow
  BY <1>a, <1>2
<1>3. CASE EndRow
  <2> DEFINE unsettled == submit.unsettled \ {SubmitKey}
             ready == IF submit.unsettled # {} THEN submit.ready ELSE submit.ready \ {SubmitKey}
  <2>1. CASE submit' # IdleSubmit
    <3>1. submit' = [submit EXCEPT !.pc = FirstStep(unsettled), !.unsettled = unsettled,
                        !.ready = ready, !.days = {}, !.pos = NoPosition]
      BY <1>3, <2>1 DEF EndRow
    <3>2. submit.unsettled # {} => SubmitKey \in submit.unsettled
      BY <1>a, SubmitKeyIsKey
    <3>3. ready \subseteq submit.ready /\ (submit.unsettled = {} => SubmitKey \notin ready)
      OBVIOUS
    <3> HIDE DEF ready, unsettled
    <3>4. submit'.rows = submit.rows /\ submit'.ready = ready /\ submit'.unsettled = unsettled
      BY <1>a, <3>1 DEF SubmitMemory
    <3> QED
      BY <1>a, <3>2, <3>3, <3>4 DEF unsettled
  <2> QED
    BY <1>1, <2>1
<1>4. ASSUME NEW pc, submit' = [submit EXCEPT !.pc = pc]
      PROVE  UNCHANGED <<submit.rows, submit.ready, submit.unsettled>>
  BY <1>a, <1>4 DEF SubmitMemory
<1>5. CASE SubmitRead
  <2>1. UNCHANGED <<submit.rows, submit.ready, submit.unsettled>>
    BY <1>a, <1>5 DEF SubmitRead, SubmitMemory
  <2> QED
    BY <1>2, <1>3, <2>1
<1>6. CASE SubmitLock \/ SubmitRecord \/ SettleFiled \/ SettleDraft \/ FileAlreadyFiled
           \/ FileInFlight \/ FileClick \/ FileVerify
  <2>1. submit' = IdleSubmit \/ \E pc : submit' = [submit EXCEPT !.pc = pc]
    BY <1>6 DEF SubmitLock, SubmitRecord, SettleFiled, SettleDraft, FileAlreadyFiled,
       FileInFlight, FileClick, FileVerify
  <2> QED
    BY <1>1, <1>2, <1>3, <1>4, <2>1
<1>7. CASE SubmitRecordDays \/ SettleRecord \/ SettleFailed \/ FileDraftChanged \/ FileBlocked
           \/ FileUnconfirmed \/ FileRaises \/ SubmitCrash
  BY <1>1, <1>3, <1>7 DEF SubmitRecordDays, SettleRecord, SettleFailed, FileDraftChanged,
     FileBlocked, FileUnconfirmed, FileRaises, SubmitCrash, EndRowAs
<1> QED
  BY <1>5, <1>6, <1>7 DEF SubmitNext, SubmitStep, SubmitSelect, SubmitRehearse, SubmitCheck


\* The run begins with the rows as they are.
LEMMA SelectKnows ==
  ASSUME CycleInv, SubmitSelect
  PROVE  RowInv'
<1>a. submission \in [Keys -> Seq(Round)] /\ dryRun \in BOOLEAN
  BY TypeParts DEF CycleInv, RestOK
<1>1. /\ submit'.pc \in {"lock", "rehearse", "check"} /\ submit'.ready = {}
      /\ DOMAIN submit'.rows = ApprovedKeys
  BY <1>a, SelectOK
<1> DEFINE rows == [k \in ApprovedKeys |-> Latest(submission[k]).digest]
<1>2. /\ submit'.rows = rows /\ submit'.unsettled = UnsettledKeys
      /\ submission' = submission
  <2>1. submit' = [IdleSubmit EXCEPT
          !.pc = IF ApprovedKeys = {} THEN "lock" ELSE IF dryRun THEN "rehearse" ELSE "check",
          !.dry = dryRun, !.rows = rows, !.unsettled = UnsettledKeys]
    BY DEF SubmitSelect
  <2> HIDE DEF rows
  <2> QED
    BY <2>1 DEF IdleSubmit, SubmitSelect, ledgerVars
<1>3. ASSUME NEW k \in ApprovedKeys
      PROVE  DigestIs(submission[k], rows[k]) /\ k \notin UnsettledKeys
  BY DEF ApprovedKeys, UnsettledKeys, UnsettledRounds, StateOf, DigestIs
<1> HIDE DEF rows
<1> QED
  BY <1>1, <1>2, <1>3 DEF RowInv, RowPcs

\* A row that was checked may be filed, one that was not is put back.
LEMMA CheckKnows ==
  ASSUME CycleInv, RowInv, SubmitCheck \/ SubmitRehearse
  PROVE  RowInv'
<1> DEFINE k == First(DOMAIN submit.rows)
           keep == submit.pc = "check" /\ StillAsApproved(k)
<1>a. SubmitOK /\ submit \in SubmitMemory /\ DOMAIN submit.rows \in SUBSET Keys
  BY WorkListFacts DEF CycleInv, SubmitOK, SubmitMemory
<1>b. submit.pc \in {"rehearse", "check"} /\ AfterRow(submit.pc, keep) /\ claimDay' = claimDay
  BY DEF SubmitCheck, SubmitRehearse, StillAsApproved
<1>c. SubmitNext /\ ~ SettleRecord
  BY <1>b DEF SubmitNext, SubmitStep, SettleRecord
<1>1. keep \in BOOLEAN /\ (keep => submit.pc = "check" /\ submit.rows[k] = ClaimableDays(claimDay, k))
  BY DEF StillAsApproved
<1> HIDE DEF keep
<1>2. /\ submit'.pc \in {"idle", "lock", submit.pc}
      /\ k \in DOMAIN submit.rows
      /\ DOMAIN submit'.rows \subseteq DOMAIN submit.rows \ {k}
      /\ submit'.ready \subseteq submit.ready \union (IF keep THEN {k} ELSE {})
  BY <1>a, <1>b, <1>1, AfterRowOK
<1>3. /\ submit'.unsettled \subseteq submit.unsettled
      /\ \A j \in DOMAIN submit'.rows : submit'.rows[j] = submit.rows[j]
  BY <1>a, <1>b, <1>1, AfterRowLists
<1>4. submit.ready \in SUBSET Keys
  BY <1>a DEF SubmitMemory
<1>5. ASSUME NEW j \in DOMAIN submit'.rows
      PROVE  DigestIs(submission'[j], submit'.rows[j])
  BY <1>a, <1>c, <1>2, <1>3, SubmitKeepsDigests DEF RowInv
<1>6. ASSUME NEW j \in submit'.ready
      PROVE  DigestIs(submission'[j], ClaimableDays(claimDay, j))
  <2>1. j \in Keys /\ DigestIs(submission[j], ClaimableDays(claimDay, j))
    BY <1>a, <1>1, <1>2, <1>4 DEF RowInv
  <2> QED
    BY <1>c, <2>1, SubmitKeepsDigests
<1>7. submit'.pc \notin RowPcs
  BY <1>b, <1>2 DEF RowPcs
<1>8. (DOMAIN submit'.rows \union submit'.ready) \intersect submit'.unsettled = {}
  BY <1>2, <1>3 DEF RowInv
<1> QED
  BY <1>b, <1>5, <1>6, <1>7, <1>8 DEF RowInv

\* What is left of the lists of a run past its checks stays true: it marks the days of
\* the row it ends, which are of no other row.
LEMMA FilingKnows ==
  ASSUME CycleInv, RowInv, SubmitNext, submit.pc \notin {"idle", "rehearse", "check"}
  PROVE  RowInv'
<1>a. /\ DOMAIN submit'.rows = {}
      /\ submit'.ready \subseteq submit.ready /\ submit'.unsettled \subseteq submit.unsettled
      /\ EndRow => SubmitKey \notin submit'.ready \/ SubmitKey \in submit.unsettled
  BY RowsAreCrossedOff
<1>b. /\ submit.ready \in SUBSET Keys /\ claimDay \in [Days -> DayRow] /\ SubmitOK
      /\ submit.ready \intersect submit.unsettled = {}
  BY DEF CycleInv, SubmitOK, SubmitMemory, TypeOK, RowInv
<1>1. ASSUME NEW k \in submit'.ready
      PROVE  DigestIs(submission'[k], ClaimableDays(claimDay, k)')
  <2>1. k \in Keys /\ DigestIs(submission[k], ClaimableDays(claimDay, k)) /\ k \in submit.ready
    BY <1>a, <1>b DEF RowInv
  <2>2. ~ (SettleRecord /\ k = SubmitKey)
    BY <1>a, <1>b, <2>1 DEF SettleRecord
  <2>3. DigestIs(submission'[k], ClaimableDays(claimDay, k))
    BY <2>1, <2>2, SubmitKeepsDigests
  <2>4. CASE claimDay' = claimDay
    BY <2>3, <2>4
  <2>5. CASE SubmitRecordDays /\ claimDay' # claimDay
    <3>1. /\ claimDay' = MarkDaysState(claimDay, submit.days, "submitted") /\ EndRow
          /\ submit.pc = "recordDays"
      BY <2>5 DEF SubmitRecordDays
    <3>2. submit.days = ClaimableDays(claimDay, SubmitKey)
      BY <3>1 DEF RowInv, RowPcs
    <3>3. SubmitKey # k
      BY <1>a, <1>b, <2>1, <3>1
    <3>4. SubmitKey \in Keys
      BY <1>b, <3>1, SubmitKeyIsKey DEF SubmitOK, SubmitLists
    <3>5. ClaimableDays(claimDay, k)' = ClaimableDays(claimDay, k)
      BY <1>b, <2>1, <3>1, <3>2, <3>3, <3>4, MarkKeepsOtherClaims
    <3> QED
      BY <2>3, <3>5
  <2> QED
    BY <2>4, <2>5, SubmitWritesNoDay
<1>2. ASSUME submit'.pc \in RowPcs
      PROVE  submit'.days = ClaimableDays(claimDay, SubmitKey)'
  <2>1. claimDay' = claimDay
    <3>1. CASE SubmitRecordDays
      <4>1. submit'.pc \in {"idle", "settle", "file"} \/ submit' = IdleSubmit
        BY <1>b, <3>1, EndRowOK DEF SubmitRecordDays
      <4> QED
        BY <1>2, <4>1, IdleSubmitOK DEF RowPcs
    <3> QED
      BY <3>1, SubmitWritesNoDay
  <2>2. CASE submit' = submit
    BY <1>2, <2>1, <2>2 DEF RowInv, SubmitKey
  <2>3. CASE submit' # submit
    <3>1. /\ SubmitKey' = SubmitKey
          /\ \/ submit'.days = ClaimableDays(claimDay, SubmitKey)
             \/ submit.pc \in RowPcs /\ submit'.days = submit.days
      BY <1>2, <2>3, AtARow DEF Next
    <3>2. submit'.days = ClaimableDays(claimDay, SubmitKey)
      BY <3>1 DEF RowInv
    <3> QED
      BY <2>1, <3>1, <3>2
  <2> QED
    BY <2>2, <2>3
<1>3. (DOMAIN submit'.rows \union submit'.ready) \intersect submit'.unsettled = {}
  BY <1>a, <1>b
<1> QED
  BY <1>a, <1>1, <1>2, <1>3 DEF RowInv

\* Whatever neither builds nor files leaves a row its digest.
LEMMA OthersKeepDigests ==
  ASSUME CycleInv, [Next]_vars, ~ SubmitNext, ~ BuildNext,
         NEW k \in Keys, NEW D, DigestIs(submission[k], D)
  PROVE  DigestIs(submission'[k], D)
<1>a. submission \in [Keys -> Seq(Round)]
  BY DEF CycleInv, TypeOK
<1>1. ASSUME NEW j, NEW S, NEW s \in SubmissionStates,
             submission' = [submission EXCEPT ![j] = UpdateWhere(@, S, s)]
      PROVE  DigestIs(submission'[k], D)
  <2>1. submission'[k] = IF k = j THEN UpdateWhere(submission[k], S, s) ELSE submission[k]
    BY <1>a, <1>1
  <2> QED
    BY <1>a, <2>1, DigestAfterUpdate
<1>2. {"approved", "rejected"} \subseteq SubmissionStates
  BY DEF SubmissionStates
<1>3. CASE submission' = submission
  BY <1>3
<1>4. CASE Decide
  <2>1. ASSUME NEW c, ApproveCompare(c)
        PROVE  DigestIs(submission'[k], D)
    BY <1>3, <2>1 DEF ApproveCompare
  <2>2. ASSUME NEW a, ApproveUpdate(a)
        PROVE  DigestIs(submission'[k], D)
    BY <1>1, <1>2, <2>2 DEF ApproveUpdate
  <2>3. ASSUME NEW c, Reject(c)
        PROVE  DigestIs(submission'[k], D)
    BY <1>1, <1>2, <2>3 DEF Reject
  <2> QED
    BY <1>4, <2>1, <2>2, <2>3 DEF Decide
<1>5. CASE HandStep \/ Flip \/ UNCHANGED vars
  BY <1>3, <1>5, HandRest DEF Flip, vars, ledgerVars
<1>6. CASE LedgerInput
  BY <1>3, <1>6 DEF LedgerInput, Correct, Classify
<1> QED
  BY <1>4, <1>5, <1>6 DEF Next, SlackdNext

\* As long as no build runs and no day changes meanwhile, so does everybody else: a
\* decision leaves a row its digest.
LEMMA OthersKeepRows ==
  ASSUME CycleInv, RowInv, [Next]_vars, ~ SubmitNext, ~ BuildNext, ~ LedgerInput
  PROVE  RowInv'
<1>a. DOMAIN submit.rows \in SUBSET Keys /\ submit.ready \in SUBSET Keys
  BY WorkListFacts DEF CycleInv, SubmitOK, SubmitMemory
<1>1. submit' = submit /\ claimDay' = claimDay
  BY SlackdRest, HandRest DEF Next, Decide, SlackdNext, ApproveCompare, ApproveUpdate, Reject,
     Flip, vars, ledgerVars
<1>2. SubmitKey' = SubmitKey
  BY <1>1 DEF SubmitKey
<1>3. ASSUME NEW k \in Keys, NEW D, DigestIs(submission[k], D)
      PROVE  DigestIs(submission'[k], D)
  BY <1>3, OthersKeepDigests
<1> QED
  BY <1>a, <1>1, <1>2, <1>3 DEF RowInv


\* A build is there before its step or after it.
LEMMA BuildIsThere ==
  ASSUME CycleInv, BuildNext
  PROVE  build.pc # "idle" \/ build'.pc # "idle"
<1>1. CASE BuildPlan
  <2> DEFINE work == [k \in {k \in Keys : NeedsBuild(k, dryRun)} |-> ClaimableDays(claimDay, k)]
  <2>1. build' = [IdleBuild EXCEPT !.pc = "planned", !.dry = dryRun, !.work = work]
    BY <1>1 DEF BuildPlan
  <2> HIDE DEF work
  <2>2. build'.pc = "planned"
    BY <2>1 DEF IdleBuild
  <2> QED
    BY <2>2
<1>2. CASE BuildStep \/ BuildRaises \/ BuildCrash
  BY <1>2 DEF BuildStep, BuildRaises, BuildCrash, BuildLock, BuildRead, BuildMarkFiled,
     BuildMarkConflict, BuildMarkDrafted, Rehearse, RefuseMismatch, WaitForOtherDraft, GoLive,
     NothingToFile, BuildCreate, BuildVerify, BuildVerifyFails, BuildCard, BuildRecord,
     BuildSqlRaises
<1> QED
  BY <1>1, <1>2 DEF BuildNext

LEMMA RowStep ==
  ~ DaysChangeAnyTime /\ CycleInv /\ RowInv /\ JobsTakeTurns /\ JobsTakeTurns' /\ [Next]_vars
    => RowInv'
<1> SUFFICES ASSUME ~ DaysChangeAnyTime, CycleInv, RowInv, JobsTakeTurns, JobsTakeTurns',
                    [Next]_vars
             PROVE  RowInv'
  OBVIOUS
<1>1. CASE submit'.pc = "idle"
  <2>1. SubmitOK'
    BY CycleStep DEF CycleInv
  <2>2. submit'.rows = <<>> /\ submit'.ready = {} /\ submit'.unsettled = {}
    BY <1>1, <2>1 DEF SubmitOK, SubmitLists
  <2>3. DOMAIN submit'.rows = {}
    BY <2>2
  <2> QED
    BY <1>1, <2>2, <2>3 DEF RowInv, RowPcs
<1>2. CASE submit'.pc # "idle" /\ SubmitNext
  <2>1. CASE submit.pc = "idle"
    <3>1. SubmitSelect
      BY <1>2, <2>1 DEF SubmitNext, SubmitStep, SubmitRehearse, SubmitCheck, SubmitLock,
         SubmitRead, SubmitRecord, SubmitRecordDays, SettleFiled, SettleDraft, SettleRecord,
         SettleFailed, FileAlreadyFiled, FileDraftChanged, FileBlocked, FileInFlight, FileClick,
         FileVerify, FileUnconfirmed, FileRaises, SubmitCrash
    <3> QED
      BY <3>1, SelectKnows
  <2>2. CASE submit.pc \in {"rehearse", "check"}
    <3>1. SubmitCheck \/ SubmitRehearse \/ submit' = IdleSubmit
      BY <1>2, <2>2 DEF SubmitNext, SubmitStep, SubmitSelect, SubmitLock,
         SubmitRead, SubmitRecord, SubmitRecordDays, SettleFiled, SettleDraft, SettleRecord,
         SettleFailed, FileAlreadyFiled, FileDraftChanged, FileBlocked, FileInFlight, FileClick,
         FileVerify, FileUnconfirmed, FileRaises, SubmitCrash
    <3> QED
      BY <1>2, <3>1, CheckKnows, IdleSubmitOK
  <2> QED
    BY <1>2, <2>1, <2>2, FilingKnows
<1>3. CASE submit'.pc # "idle" /\ ~ SubmitNext
  <2>1. submit' = submit
    BY <1>3, BuildStepOK, SlackdRest, HandRest, TypeParts DEF Next, CycleInv, RestOK, Flip, vars
  <2>2. build.pc = "idle" /\ build'.pc = "idle"
    BY <1>3, <2>1 DEF JobsTakeTurns
  <2>3. ~ BuildNext
    BY <2>2, BuildIsThere
  <2>4. ~ LedgerInput
    BY <1>3, <2>1 DEF LedgerInput, Correct, Classify, DaysMayChange
  <2> QED
    BY <1>3, <2>3, <2>4, OthersKeepRows
<1> QED
  BY <1>1, <1>2, <1>3

LEMMA RowInit == Init => RowInv
<1> SUFFICES ASSUME Init
             PROVE  RowInv
  OBVIOUS
<1>1. /\ submit.pc = "idle" /\ submit.rows = <<>> /\ submit.ready = {}
      /\ submit.unsettled = {}
  BY DEF Init, IdleSubmit
<1>2. DOMAIN submit.rows = {}
  BY <1>1
<1> QED
  BY <1>1, <1>2 DEF RowInv, RowPcs

\* As long as the jobs take turns and no day changes while one is half way, what submit
\* clicks for is what the row it clicks for was approved with: the check at the start of
\* the run is as good as one at the click (_still_as_approved, _file).
THEOREM ClicksForWhatWasApproved ==
  ASSUME ~ DaysChangeAnyTime
  PROVE  Spec /\ []JobsTakeTurns => []ClickIsForApprovedDays
<1>1. CycleInv /\ RowInv => ClickIsForApprovedDays
  <2> SUFFICES ASSUME CycleInv, RowInv, submit.pc = "click"
               PROVE  submit.days = Latest(submission[SubmitKey]).digest
    BY DEF ClickIsForApprovedDays
  <2>1. SubmitKey \in submit.ready
    BY SubmitKeyIsKey DEF CycleInv, SubmitOK, SubmitLists
  <2> QED
    BY <2>1 DEF RowInv, RowPcs, DigestIs
<1>2. Init => RowInv
  BY RowInit
<1>3. CycleInv /\ RowInv /\ JobsTakeTurns /\ JobsTakeTurns' /\ [Next]_vars => RowInv'
  BY RowStep
<1> QED
  BY <1>1, <1>2, <1>3, CycleInit, CycleStep, PTL DEF Spec


-----------------------------------------------------------------------------
(* What the app files is what a person approved, if approvals are for the card *)

\* The rows a run may still file were approved with the digests they have, the draft
\* that was found to hold the days in hand still does, and so far all is well.
ApprovedInv ==
  /\ \A k \in Pending :
       [key |-> k, digest |-> Latest(submission[k]).digest] \in history.approved
  /\ submit.pc = "fileAct" /\ submit.pos.draft = submit.days /\ submit.pos.others = {} =>
       \A x \in OpenDrafts(SubmitKey.type) : x.days = submit.days
  /\ submit.pc = "click" => \A x \in OpenDrafts(SubmitKey.type) : x.days = submit.days
  /\ FiledWasApproved

\* A list that shows the days in hand in drafts, and no other day in a draft of this
\* type, has no draft of it but one with exactly these days.
LEMMA OneDraftToRead ==
  ASSUME tasks \subseteq Task, EntriesOK, NEW t, NEW D \in SUBSET Days,
         Position(tasks, t, D).draft = D, Position(tasks, t, D).others = {},
         NEW x \in OpenDrafts(t)
  PROVE  x.days = D
<1>1. x \in tasks /\ x.type = t /\ x.status = "draft" /\ x.days \in SUBSET Days
  BY DEF OpenDrafts, IsDraft, Task
<1>2. ASSUME NEW d \in x.days
      PROVE  d \in D
  <2>1. d \in Days /\ x \in Lines(tasks, d) /\ IsDraft(x, t)
    BY <1>1 DEF Lines, IsDraft
  <2>2. Position(tasks, t, D).others = {e \in Days \ D : \E y \in Lines(tasks, e) : IsDraft(y, t)}
    BY DEF Position
  <2> QED
    BY <2>1, <2>2
<1>3. ASSUME NEW d \in D
      PROVE  d \in x.days
  <2>1. d \in Sole(tasks, t, D, "draft")
    BY DEF Position
  <2>2. PICK y \in tasks : Lines(tasks, d) = {y} /\ y.type = t /\ y.status = "draft"
    BY <2>1 DEF Sole
  <2>3. y = x
    BY <1>1, <2>2 DEF EntriesOK
  <2> QED
    BY <2>2, <2>3 DEF Lines
<1> QED
  BY <1>1, <1>2, <1>3

\* While no build runs and nobody writes lines by hand, a draft can only go.
LEMMA DraftsOnlyGo ==
  ASSUME NoLinesByHand, CycleInv, [Next]_vars, ~ BuildNext, NEW t
  PROVE  OpenDrafts(t)' \subseteq OpenDrafts(t)
<1>a. tasks \subseteq Task
  BY TypeParts DEF CycleInv, RestOK
<1>1. ASSUME \A y \in tasks' : y \in tasks \/ y.status # "draft"
      PROVE  OpenDrafts(t)' \subseteq OpenDrafts(t)
  BY <1>1 DEF OpenDrafts, IsDraft
<1>2. ASSUME NEW x \in tasks, NEW who, Lands(x, who)
      PROVE  \A y \in tasks' : y \in tasks \/ y.status # "draft"
  <2>1. FiledBy(x, who).status = "filed"
    BY <1>a DEF FiledBy, Task
  <2> QED
    BY <1>2, <2>1 DEF Lands
<1>3. CASE tasks' = tasks
  BY <1>1, <1>3
<1>4. CASE FileClick
  <2>1. PICK x \in OpenDrafts(SubmitKey.type) : Lands(x, "app") \/ tasks' = tasks
    BY <1>4 DEF FileClick
  <2>2. x \in tasks
    BY DEF OpenDrafts
  <2> QED
    BY <1>1, <1>2, <1>3, <2>1, <2>2
<1>5. CASE HandStep
  <2>1. ASSUME NEW x \in tasks, DeleteDraft(x)
        PROVE  \A y \in tasks' : y \in tasks \/ y.status # "draft"
    BY <2>1 DEF DeleteDraft
  <2>2. ASSUME NEW x \in tasks, FileByHand(x)
        PROVE  \A y \in tasks' : y \in tasks \/ y.status # "draft"
    BY <1>2, <2>2 DEF FileByHand
  <2>3. ASSUME NEW x \in tasks, ManagerRejects(x)
        PROVE  \A y \in tasks' : y \in tasks \/ y.status # "draft"
    <3>1. [x EXCEPT !.status = "other"].status = "other"
      BY <1>a DEF Task
    <3> QED
      BY <2>3, <3>1 DEF ManagerRejects
  <2> QED
    BY <1>1, <1>5, <2>1, <2>2, <2>3 DEF HandStep, NoLinesByHand
<1>6. CASE BuildCreate
  BY <1>6 DEF BuildNext, BuildStep
<1> QED
  BY <1>3, <1>4, <1>5, <1>6, OtherStepsKeepTasks

\* What the app has filed it goes on having filed, and a click is the only way to get more.
LEMMA OnlyClicksFile ==
  ASSUME NoLinesByHand, CycleInv, [Next]_vars, NEW y \in tasks', y.filedBy = "app"
  PROVE  \/ \E x \in tasks : x.filedBy = "app" /\ x.type = y.type /\ x.days = y.days
         \/ /\ FileClick
            /\ \E x \in OpenDrafts(SubmitKey.type) :
                 y.type = SubmitKey.type /\ y.days = x.days
<1>a. tasks \subseteq Task
  BY TypeParts DEF CycleInv, RestOK
<1>b. ASSUME NEW x \in tasks, NEW who
      PROVE  /\ FiledBy(x, who).type = x.type /\ FiledBy(x, who).days = x.days
             /\ FiledBy(x, who).filedBy = who
  BY <1>a DEF FiledBy, Task
<1>1. CASE y \in tasks
  BY <1>1
<1>2. CASE y \notin tasks /\ FileClick
  <2>1. PICK x \in OpenDrafts(SubmitKey.type) : Lands(x, "app") \/ tasks' = tasks
    BY <1>2 DEF FileClick
  <2>2. x \in tasks /\ x.type = SubmitKey.type
    BY DEF OpenDrafts, IsDraft
  <2>3. y = FiledBy(x, "app")
    BY <1>2, <2>1 DEF Lands
  <2> QED
    BY <1>2, <1>b, <2>2, <2>3
<1>3. CASE y \notin tasks /\ HandStep
  <2>1. ASSUME NEW x \in tasks, DeleteDraft(x)
        PROVE  FALSE
    BY <1>3, <2>1 DEF DeleteDraft
  <2>2. ASSUME NEW x \in tasks, FileByHand(x)
        PROVE  FALSE
    <3>1. y = FiledBy(x, "hand")
      BY <1>3, <2>2 DEF FileByHand, Lands
    <3> QED
      BY <1>b, <3>1
  <2>3. ASSUME NEW x \in tasks, ManagerRejects(x)
        PROVE  \E z \in tasks : z.filedBy = "app" /\ z.type = y.type /\ z.days = y.days
    <3>1. y = [x EXCEPT !.status = "other"]
      BY <1>3, <2>3 DEF ManagerRejects
    <3>2. y.type = x.type /\ y.days = x.days /\ y.filedBy = x.filedBy
      BY <1>a, <3>1 DEF Task
    <3> QED
      BY <3>2
  <2> QED
    BY <1>3, <2>1, <2>2, <2>3 DEF HandStep, NoLinesByHand
<1>4. CASE y \notin tasks /\ BuildCreate
  <2> DEFINE i == CHOOSE i \in FreeIds : \A j \in FreeIds : i <= j
             z == [id |-> i, type |-> BuildKey.type, days |-> build.pos.absent,
                   status |-> "draft", filedBy |-> "nobody"]
  <2>1. tasks' = tasks \union {z}
    BY <1>4 DEF BuildCreate, AddTask
  <2>2. z.filedBy = "nobody"
    OBVIOUS
  <2> HIDE DEF z
  <2> QED
    BY <1>4, <2>1, <2>2
<1> QED
  BY <1>1, <1>2, <1>3, <1>4, OtherStepsKeepTasks


\* From its selection on a run only crosses rows off, and nobody gives one that is left
\* another digest.
LEMMA PendingKeepsDigest ==
  ASSUME CycleInv, RowInv, JobsTakeTurns, JobsTakeTurns', [Next]_vars, ~ SubmitSelect,
         NEW k \in Pending'
  PROVE  /\ k \in Pending /\ k \in Keys
         /\ Latest(submission'[k]).digest = Latest(submission[k]).digest
<1>a. /\ SubmitOK /\ SubmitOK' /\ Pending \in SUBSET Keys
      /\ submit.ready \intersect submit.unsettled = {}
  BY CycleStep, PendingOK DEF CycleInv, RowInv
<1>1. submit'.pc # "idle"
  <2> SUFFICES ASSUME submit'.pc = "idle"
               PROVE  FALSE
    OBVIOUS
  <2>1. submit'.rows = <<>> /\ submit'.ready = {}
    BY <1>a DEF SubmitOK, SubmitLists
  <2>2. DOMAIN submit'.rows = {}
    BY <2>1
  <2> QED
    BY <2>1, <2>2 DEF Pending
<1>2. k \in Pending => \E D : DigestIs(submission[k], D) /\ D = Latest(submission[k]).digest
  BY DEF Pending, RowInv, DigestIs
<1>3. CASE ~ SubmitNext
  <2>1. submit' = submit
    BY <1>3, BuildStepOK, SlackdRest, HandRest, TypeParts DEF Next, CycleInv, RestOK, Flip, vars
  <2>2. ~ BuildNext
    BY <1>1, <2>1, BuildIsThere DEF JobsTakeTurns
  <2>3. k \in Pending
    BY <2>1 DEF Pending
  <2>4. DigestIs(submission'[k], Latest(submission[k]).digest)
    BY <1>a, <1>2, <1>3, <2>2, <2>3, OthersKeepDigests
  <2> QED
    BY <1>a, <2>3, <2>4 DEF DigestIs
<1>4. CASE SubmitNext
  <2>1. k \in Pending /\ ~ (SettleRecord /\ k = SubmitKey)
    <3>1. CASE submit.pc = "idle"
      BY <1>1, <1>4, <3>1 DEF SubmitNext, SubmitStep, SubmitRehearse, SubmitCheck, SubmitLock,
         SubmitRead, SubmitRecord, SubmitRecordDays, SettleFiled, SettleDraft, SettleRecord,
         SettleFailed, FileAlreadyFiled, FileDraftChanged, FileBlocked, FileInFlight, FileClick,
         FileVerify, FileUnconfirmed, FileRaises, SubmitCrash
    <3>2. CASE submit.pc \in {"rehearse", "check"}
      <4> DEFINE j == First(DOMAIN submit.rows)
                 keep == submit.pc = "check" /\ StillAsApproved(j)
      <4>1. SubmitCheck \/ SubmitRehearse \/ submit' = IdleSubmit
        BY <1>4, <3>2 DEF SubmitNext, SubmitStep, SubmitSelect, SubmitLock,
           SubmitRead, SubmitRecord, SubmitRecordDays, SettleFiled, SettleDraft, SettleRecord,
           SettleFailed, FileAlreadyFiled, FileDraftChanged, FileBlocked, FileInFlight, FileClick,
           FileVerify, FileUnconfirmed, FileRaises, SubmitCrash
      <4>2. AfterRow(submit.pc, keep) /\ keep \in BOOLEAN /\ (keep => submit.pc = "check")
        BY <1>1, <4>1, IdleSubmitOK DEF SubmitCheck, SubmitRehearse, StillAsApproved
      <4> HIDE DEF keep
      <4>3. /\ j \in DOMAIN submit.rows
            /\ DOMAIN submit'.rows \subseteq DOMAIN submit.rows
            /\ submit'.ready \subseteq submit.ready \union {j}
        BY <1>a, <3>2, <4>2, AfterRowOK
      <4> QED
        BY <3>2, <4>3 DEF Pending, SettleRecord
    <3>3. CASE submit.pc \notin {"idle", "rehearse", "check"}
      <4>1. /\ DOMAIN submit'.rows = {} /\ submit'.ready \subseteq submit.ready
            /\ EndRow => SubmitKey \notin submit'.ready \/ SubmitKey \in submit.unsettled
        BY <1>4, <3>3, RowsAreCrossedOff
      <4> QED
        BY <1>a, <4>1 DEF Pending, SettleRecord
    <3> QED
      BY <3>1, <3>2, <3>3
  <2>2. DigestIs(submission'[k], Latest(submission[k]).digest)
    BY <1>a, <1>2, <1>4, <2>1, SubmitKeepsDigests
  <2> QED
    BY <1>a, <2>1, <2>2 DEF DigestIs
<1> QED
  BY <1>3, <1>4

LEMMA ApprovedStep ==
  ASSUME NoLinesByHand, JobsTakeTurns, JobsTakeTurns', ApprovalIsForTheCard,
         CycleInv, RowInv, EntriesInv, ApprovedInv, [Next]_vars
  PROVE  ApprovedInv'
<1>a. history.approved \subseteq history'.approved
  BY HistoryGrows
<1>b. tasks \subseteq Task /\ submit \in SubmitMemory /\ submit' \in SubmitMemory /\ EntriesOK
  BY CycleStep, TypeParts DEF CycleInv, SubmitOK, RestOK, EntriesInv
<1>1. ASSUME NEW k \in Pending'
      PROVE  [key |-> k, digest |-> Latest(submission'[k]).digest] \in history'.approved
  <2>1. CASE SubmitSelect
    <3>1. /\ submit'.ready = {} /\ DOMAIN submit'.rows = ApprovedKeys
          /\ submission' = submission
      BY <2>1, SelectOK, TypeParts DEF CycleInv, RestOK, SubmitSelect, ledgerVars
    <3>2. k \in Keys /\ StateOf(submission[k]) = "approved"
      BY <3>1 DEF Pending, ApprovedKeys
    <3> QED
      BY <1>a, <3>1, <3>2 DEF ApprovalIsForTheCard
  <2>2. CASE ~ SubmitSelect
    BY <1>a, <2>2, PendingKeepsDigest DEF ApprovedInv
  <2> QED
    BY <2>1, <2>2
<1>2. ASSUME \/ submit'.pc = "fileAct" /\ submit'.pos.draft = submit'.days /\ submit'.pos.others = {}
             \/ submit'.pc = "click",
             NEW x \in OpenDrafts(SubmitKey.type)'
      PROVE  x.days = submit'.days
  <2>1. CASE submit' = submit
    <3>1. SubmitKey' = SubmitKey
      BY <2>1 DEF SubmitKey
    <3>2. ~ BuildNext
      BY <1>2, <2>1, BuildIsThere DEF JobsTakeTurns
    <3>3. x \in OpenDrafts(SubmitKey.type)
      <4>1. \A u : {y \in tasks' : IsDraft(y, u)} \subseteq {y \in tasks : IsDraft(y, u)}
        BY <3>2, DraftsOnlyGo DEF OpenDrafts
      <4> QED
        BY <1>2, <3>1, <4>1 DEF OpenDrafts
    <3> QED
      BY <1>2, <2>1, <3>3 DEF ApprovedInv
  <2>2. CASE submit' # submit
    <3>1. /\ SubmitKey' = SubmitKey
          /\ \/ /\ SubmitRead
                /\ submit'.days = ClaimableDays(claimDay, SubmitKey)
                /\ submit'.pos = Position(tasks, SubmitKey.type, submit'.days)
                /\ submit'.pc # "click"
             \/ submit'.pc = "click" /\ FileInFlight /\ submit'.days = submit.days
      BY <1>2, <2>2, AtARow DEF RowPcs, SubmitRead
    <3>2. tasks' = tasks
      BY <3>1 DEF SubmitRead, FileInFlight
    <3>3. x \in OpenDrafts(SubmitKey.type)
      BY <1>2, <3>1, <3>2 DEF OpenDrafts
    <3>4. CASE submit'.pc = "click"
      BY <3>1, <3>3, <3>4 DEF ApprovedInv, FileInFlight
    <3>5. CASE submit'.pc # "click"
      <4>1. submit'.days \in SUBSET Days
        BY <1>b DEF SubmitMemory
      <4>2. /\ Position(tasks, SubmitKey.type, submit'.days).draft = submit'.days
            /\ Position(tasks, SubmitKey.type, submit'.days).others = {}
        BY <1>2, <3>1, <3>5
      <4> QED
        BY <1>b, <3>3, <4>1, <4>2, OneDraftToRead
    <3> QED
      BY <3>4, <3>5
  <2> QED
    BY <2>1, <2>2
<1>3. ASSUME NEW y \in tasks', y.filedBy = "app"
      PROVE  \E a \in history'.approved : a.key.type = y.type /\ a.digest = y.days
  <2>1. CASE \E x \in tasks : x.filedBy = "app" /\ x.type = y.type /\ x.days = y.days
    BY <1>a, <2>1 DEF ApprovedInv, FiledWasApproved
  <2>2. ASSUME NEW x \in OpenDrafts(SubmitKey.type), FileClick,
               y.type = SubmitKey.type, y.days = x.days
        PROVE  \E a \in history'.approved : a.key.type = y.type /\ a.digest = y.days
    <3>1. submit.pc = "click"
      BY <2>2 DEF FileClick
    <3>2. SubmitKey \in submit.ready
      BY <3>1, SubmitKeyIsKey DEF CycleInv, SubmitOK, SubmitLists
    <3>3. x.days = submit.days
      BY <3>1 DEF ApprovedInv
    <3>4. submit.days = Latest(submission[SubmitKey]).digest
      BY <3>1, <3>2 DEF RowInv, RowPcs, DigestIs
    <3>5. [key |-> SubmitKey, digest |-> y.days] \in history.approved
      BY <2>2, <3>2, <3>3, <3>4 DEF ApprovedInv, Pending
    <3> QED
      BY <1>a, <2>2, <3>5
  <2> QED
    BY <1>3, <2>1, <2>2, OnlyClicksFile
<1>4. FiledWasApproved'
  BY <1>3 DEF FiledWasApproved
<1>5. submit'.pc = "fileAct" /\ submit'.pos.draft = submit'.days /\ submit'.pos.others = {} =>
        \A x \in OpenDrafts(SubmitKey.type)' : x.days = submit'.days
  BY <1>2
<1>6. submit'.pc = "click" => \A x \in OpenDrafts(SubmitKey.type)' : x.days = submit'.days
  BY <1>2
<1> QED
  BY <1>1, <1>4, <1>5, <1>6 DEF ApprovedInv

LEMMA ApprovedInit == Init => ApprovedInv
<1> SUFFICES ASSUME Init
             PROVE  ApprovedInv
  OBVIOUS
<1>1. submit.pc = "idle" /\ submit.rows = <<>> /\ submit.ready = {} /\ tasks = {}
  BY DEF Init, IdleSubmit
<1>2. DOMAIN submit.rows = {}
  BY <1>1
<1> QED
  BY <1>1, <1>2 DEF ApprovedInv, Pending, FiledWasApproved


\* A declaration the app files holds exactly the days of a card a person approved, as
\* long as approvals are for the card that was clicked, the jobs take turns, no day
\* changes while one is half way and nobody writes lines in AFAS by hand: the digest on
\* the button, _still_as_approved and the draft comparison of _file need nothing else.
THEOREM FilesWhatWasApproved ==
  ASSUME ~ DaysChangeAnyTime, NoLinesByHand
  PROVE  Spec /\ []JobsTakeTurns /\ []ApprovalIsForTheCard => []FiledWasApproved
<1>1. ApprovedInv => FiledWasApproved
  BY DEF ApprovedInv
<1>2. CycleInv /\ RowInv /\ JobsTakeTurns /\ JobsTakeTurns' /\ [Next]_vars => RowInv'
  BY RowStep
<1>3. CycleInv /\ EntriesInv /\ [Next]_vars => EntriesInv'
  BY EntriesStep
<1>4. /\ CycleInv /\ RowInv /\ EntriesInv /\ ApprovedInv
      /\ JobsTakeTurns /\ JobsTakeTurns' /\ ApprovalIsForTheCard
      /\ [Next]_vars
      => ApprovedInv'
  BY ApprovedStep
<1> QED
  BY <1>1, <1>2, <1>3, <1>4, CycleInit, CycleStep, RowInit, EntriesInit, ApprovedInit, PTL DEF Spec

=============================================================================
