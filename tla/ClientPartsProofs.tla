-------------------------- MODULE ClientPartsProofs --------------------------
(***************************************************************************)
(* The freeze window, DeathLink, making the ISO, and what ticks report,    *)
(* for every number of traps, deaths, DeathLinks and jobs and every set of *)
(* sessions.  The parts share no state, so each has an inductive invariant *)
(* over its own variables: a step of the part keeps it, and so does a step *)
(* that leaves those variables alone.  In order: the ISO, the freeze       *)
(* window, DeathLink; then ServerReports, whose theorems are about its own *)
(* specification: types, the goal, the HUD queue and what it announces.    *)
(***************************************************************************)
EXTENDS MCClientParts, WellFoundedInduction, FiniteSetTheorems, TLAPS

-----------------------------------------------------------------------------
(* Making the ISO.  Unless /export_iso was given during a patch, there is  *)
(* one job or thread at a time; and unless a writer was killed, nothing at *)
(* the output path is broken.                                              *)

Active(t) == Iso!Busy(t) \/ Iso!Running(t)

GoneIdle == client = "gone" => \A t \in Jobs : ~Active(t)

ThreadsAwaited ==
  \A t \in Jobs : Iso!Running(t) => job[t] = "await" \/ (client = "closing" /\ job[t] = "ended")

OneAtATime == \A t, u \in Jobs : Active(t) /\ Active(u) => t = u

\* What is being written, was written or is about to be launched is there.
OutputThere ==
  \A t \in Jobs :
    thread[t] = "write" \/ (job[t] = "await" /\ thread[t] = "done") \/ job[t] = "launch" => exists

IsoInv ==
  /\ Iso!TypeOK
  /\ GoneIdle
  /\ ThreadsAwaited
  /\ ~doubled => OneAtATime /\ OutputThere
  /\ ~killed => ~broken
  /\ Iso!LaunchWhole

LEMMA IsoInit == Iso!Init => IsoInv
BY DEF Iso!Init, IsoInv, Iso!TypeOK, Iso!JobStages, Iso!ThreadStages, GoneIdle, ThreadsAwaited,
       OneAtATime, OutputThere, Active, Iso!Busy, Iso!Running, Iso!LaunchWhole

\* A step of the ISO part keeps its invariant.
LEMMA IsoStep == IsoInv /\ Iso!Next => IsoInv'
<1> SUFFICES ASSUME IsoInv, Iso!Next PROVE IsoInv'
  OBVIOUS
<1> USE DEF IsoInv, Iso!TypeOK, Iso!JobStages, Iso!ThreadStages, GoneIdle, ThreadsAwaited,
            OneAtATime, OutputThere, Active, Iso!Busy, Iso!Running, Iso!LaunchWhole,
            Iso!processVars, Iso!fileVars, Iso!history
<1>1. ASSUME NEW t \in Jobs, Iso!StartClient(t) PROVE IsoInv'
  BY <1>1 DEF Iso!StartClient
<1>2. ASSUME NEW t \in Jobs, Iso!ExportIso(t) PROVE IsoInv'
  BY <1>2 DEF Iso!ExportIso
<1>3. ASSUME NEW t \in Jobs, Iso!CheckExists(t) PROVE IsoInv'
  <2>1. ~Iso!Running(t) /\ Iso!Busy(t)
    BY <1>3 DEF Iso!CheckExists
  <2>2. CASE exists
    BY <1>3, <2>2 DEF Iso!CheckExists
  <2>3. CASE ~exists
    <3>1. /\ job' = [job EXCEPT ![t] = "await"] /\ thread' = [thread EXCEPT ![t] = "begin"]
          /\ patching' = TRUE /\ UNCHANGED <<client, watchdog, stray, connected>>
          /\ UNCHANGED <<exists, writers, broken, launched, doubled, killed>>
      BY <1>3, <2>3 DEF Iso!CheckExists
    <3>2. Iso!TypeOK' /\ GoneIdle'
      BY <1>3, <2>1, <3>1 DEF Iso!CheckExists
    <3>3. ThreadsAwaited' /\ Iso!LaunchWhole' /\ (~killed => ~broken)'
      BY <2>1, <3>1
    <3>4. ~doubled => OneAtATime' /\ OutputThere'
      BY <2>1, <3>1
    <3> QED
      BY <3>1, <3>2, <3>3, <3>4
  <2> QED
    BY <2>2, <2>3
<1>4. ASSUME NEW t \in Jobs, Iso!PatchReturns(t) PROVE IsoInv'
  BY <1>4 DEF Iso!PatchReturns
<1>5. ASSUME NEW t \in Jobs, Iso!Launch(t) PROVE IsoInv'
  BY <1>5 DEF Iso!Launch, Iso!Whole
<1>6. ASSUME NEW t \in Jobs, Iso!CancelJob(t) PROVE IsoInv'
  BY <1>6 DEF Iso!CancelJob
<1>7. ASSUME NEW t \in Jobs, Iso!ThreadBegins(t) PROVE IsoInv'
  BY <1>7 DEF Iso!ThreadBegins
<1>8. ASSUME NEW t \in Jobs, Iso!OpenOutput(t) PROVE IsoInv'
  BY <1>8 DEF Iso!OpenOutput
<1>9. ASSUME NEW t \in Jobs, Iso!FinishWriting(t) PROVE IsoInv'
  BY <1>9 DEF Iso!FinishWriting
<1>10. ASSUME NEW t \in Jobs, Iso!PatchFails(t) PROVE IsoInv'
  <2>1. /\ Iso!Running(t) /\ thread' = [thread EXCEPT ![t] = "failed"]
        /\ UNCHANGED <<client, watchdog, stray, connected, job, patching, launched, doubled, killed>>
        /\ \/ thread[t] = "begin" /\ UNCHANGED <<exists, writers, broken>>
           \/ thread[t] # "begin" /\ exists' = FALSE /\ writers' = {} /\ broken' = FALSE
    BY <1>10 DEF Iso!PatchFails
  <2>2. Iso!TypeOK' /\ GoneIdle'
    BY <2>1
  <2>3. ThreadsAwaited' /\ Iso!LaunchWhole' /\ (~killed => ~broken)'
    BY <2>1
  <2>4. ~doubled => OneAtATime' /\ OutputThere'
    BY <1>10, <2>1
  <2> QED
    BY <2>1, <2>2, <2>3, <2>4
<1>11. CASE Iso!ConnectionChanges
  BY <1>11 DEF Iso!ConnectionChanges
<1>12. CASE Iso!CloseWindow
  BY <1>12 DEF Iso!CloseWindow
<1>13. ASSUME Iso!ProcessEnds, watchdog' \in {"off", "armed", "spent"} PROVE IsoInv'
  <2>1. /\ client' = "gone" /\ stray' = FALSE /\ patching' = FALSE /\ connected' = FALSE
        /\ broken' = (broken \/ writers # {}) /\ writers' = {}
        /\ job' = [t \in Jobs |-> IF Iso!Busy(t) THEN "ended" ELSE job[t]]
        /\ thread' = [t \in Jobs |-> IF Iso!Running(t) THEN "failed" ELSE thread[t]]
        /\ UNCHANGED <<exists, launched, doubled>>
        /\ killed' = (killed \/ writers # {})
    BY <1>13 DEF Iso!ProcessEnds
  <2>2. Iso!TypeOK'
    BY <1>13, <2>1
  <2>3. \A t \in Jobs : ~Active(t)'
    BY <2>1
  <2>4. (~killed => ~broken)' /\ Iso!LaunchWhole'
    BY <2>1
  <2>5. OutputThere'
    BY <2>1, <2>3
  <2> QED
    BY <2>2, <2>3, <2>4, <2>5
<1>14. CASE Iso!Exit \/ Iso!Crash
  BY <1>13, <1>14 DEF Iso!Exit, Iso!Crash
<1>15. CASE Iso!Watchdog
  <2>1. CASE patching
    BY <1>15, <2>1 DEF Iso!Watchdog
  <2>2. CASE ~patching
    BY <1>13, <1>15, <2>2 DEF Iso!Watchdog
  <2> QED
    BY <2>1, <2>2
<1> QED
  BY <1>1, <1>2, <1>3, <1>4, <1>5, <1>6, <1>7, <1>8, <1>9, <1>10, <1>11, <1>12, <1>14, <1>15
     DEF Iso!Next, Iso!Coroutine, Iso!Thread

\* The emulator is never started with a half-written ISO, however many jobs fail, are
\* cancelled or follow each other across sessions (patch_and_run_game, _shutdown);
\* unless /export_iso was given during a patch, or the process was ended, by the
\* watchdog or from outside, while one was being written.
THEOREM IsoLaunchedWhole == PartsSpec => []LaunchWhole
<1>1. PartsInit => IsoInv
  BY IsoInit DEF PartsInit
<1>2. IsoInv /\ [PartsNext]_allVars => IsoInv'
  <2> SUFFICES ASSUME IsoInv, [PartsNext]_allVars PROVE IsoInv'
    OBVIOUS
  <2>1. CASE Iso!Next
    BY <2>1, IsoStep
  <2>2. CASE UNCHANGED isoVars
    BY <2>2 DEF isoVars, IsoInv, Iso!TypeOK, GoneIdle, ThreadsAwaited, OneAtATime, OutputThere,
                Active, Iso!Busy, Iso!Running, Iso!LaunchWhole
  <2> QED
    BY <2>1, <2>2 DEF PartsNext, OnFreeze, OnDeath, OnIso, OnReports, allVars
<1>3. IsoInv => LaunchWhole
  BY DEF IsoInv, LaunchWhole
<1> QED
  BY <1>1, <1>2, <1>3, PTL DEF PartsSpec
-----------------------------------------------------------------------------
(* The freeze window: no durations are left when the closing memo is armed *)
(* or was shown, and without them no freeze is armed.                      *)

FreezeCounts == left \in 0 .. MaxTraps /\ applied \in 0 .. MaxTraps /\ left <= applied

FreezeFlags ==
  /\ freezeDue \in BOOLEAN /\ armed \in BOOLEAN /\ overPending \in BOOLEAN
  /\ pendingOp \in BOOLEAN /\ body \in Freeze!Bodies
  /\ frozen \in BOOLEAN /\ healthy \in BOOLEAN
  /\ wornOff \in BOOLEAN /\ cut \in BOOLEAN /\ dropped \in BOOLEAN

FreezeOver ==
  /\ wornOff => left = 0
  /\ pendingOp /\ body = "worn off" => left = 0
  /\ Freeze!NoFreezeAfterWornOff /\ Freeze!AttemptsAwaited

FreezeInv == FreezeCounts /\ FreezeFlags /\ FreezeOver

LEMMA FreezeInit == Freeze!Init => FreezeInv
<1> SUFFICES ASSUME Freeze!Init PROVE FreezeInv
  OBVIOUS
<1>1. FreezeCounts
  BY Bounds, SMT DEF Freeze!Init, FreezeCounts
<1>2. FreezeFlags
  BY DEF Freeze!Init, FreezeFlags, Freeze!Bodies
<1>3. FreezeOver
  BY Zenon DEF Freeze!Init, FreezeOver, Freeze!NoFreezeAfterWornOff, Freeze!AttemptsAwaited
<1> QED
  BY <1>1, <1>2, <1>3 DEF FreezeInv

\* The durations left grow with a trap and shrink with time, and no more are left
\* than were applied.
LEMMA FreezeCountsKept == FreezeCounts /\ Freeze!Next => FreezeCounts'
<1> SUFFICES ASSUME FreezeCounts, Freeze!Next PROVE FreezeCounts'
  OBVIOUS
<1> USE DEF FreezeCounts
<1>0. MaxTraps \in Nat
  BY Bounds
<1>1. CASE Freeze!StartWindow
  <2>1. applied < MaxTraps /\ applied' = applied + 1 /\ left' = left + 1
    BY <1>1 DEF Freeze!StartWindow
  <2> QED
    BY <1>0, <2>1
<1>2. CASE Freeze!DurationEnds
  <2>1. left > 0 /\ left' = left - 1 /\ applied' = applied
    BY <1>2 DEF Freeze!DurationEnds, Freeze!history
  <2> QED
    BY <1>0, <2>1
<1>3. CASE Freeze!Connected
  <2>1. left' = 0 /\ applied' = applied
    BY <1>3 DEF Freeze!Connected
  <2> QED
    BY <1>0, <2>1
<1>4. CASE UNCHANGED <<left, applied>>
  BY <1>4
<1> QED
  BY <1>1, <1>2, <1>3, <1>4
     DEF Freeze!Next, Freeze!Handle, Freeze!LooksBack, Freeze!CheckFreeze, Freeze!SayWornOff,
         Freeze!PostponeFreeze, Freeze!ArmFreeze, Freeze!WriteOtherBody, Freeze!GapEnds,
         Freeze!RunBody, Freeze!GameRestarts, Freeze!Thaw, Freeze!HealthChanges, Freeze!history, Freeze!stateVars

\* A window opens only while no body is armed, and a freeze is armed only inside one.
LEMMA FreezeStep == FreezeInv /\ Freeze!Next => FreezeInv'
<1> SUFFICES ASSUME FreezeInv, Freeze!Next PROVE FreezeInv'
  OBVIOUS
<1>0. FreezeCounts /\ FreezeFlags /\ FreezeOver /\ FreezeCounts'
  BY FreezeCountsKept DEF FreezeInv
<1>a. ~(left > 0 /\ left = 0)
  BY SMT
<1>b. \/ Freeze!StartWindow \/ Freeze!CheckFreeze \/ Freeze!SayWornOff
      \/ Freeze!PostponeFreeze \/ Freeze!ArmFreeze \/ Freeze!WriteOtherBody
      \/ Freeze!Connected \/ Freeze!DurationEnds \/ Freeze!RunBody \/ Freeze!GameRestarts
      \/ Freeze!GapEnds \/ Freeze!Thaw \/ Freeze!HealthChanges
  BY DEF Freeze!Next, Freeze!Handle, Freeze!LooksBack
<1> DEFINE Kept == FreezeFlags' /\ FreezeOver'
<1> USE DEF FreezeFlags, FreezeOver, Freeze!Bodies, Freeze!NoFreezeAfterWornOff,
            Freeze!AttemptsAwaited, Freeze!stateVars, Freeze!opVars, Freeze!gameVars,
            Freeze!history
<1> SUFFICES Kept
  BY <1>0 DEF FreezeInv
<1>1. CASE Freeze!StartWindow
  BY <1>0, <1>1 DEF Freeze!StartWindow, Freeze!WindowOver
<1>2. CASE Freeze!CheckFreeze
  BY <1>0, <1>2 DEF Freeze!CheckFreeze
<1>3. CASE Freeze!SayWornOff
  BY <1>0, <1>3 DEF Freeze!SayWornOff, Freeze!WindowOver
<1>4. CASE Freeze!PostponeFreeze
  BY <1>0, <1>4 DEF Freeze!PostponeFreeze
<1>5. CASE Freeze!ArmFreeze
  BY <1>0, <1>5 DEF Freeze!ArmFreeze, Freeze!MayFreeze, Freeze!WindowOver
<1>6. CASE Freeze!WriteOtherBody
  BY <1>0, <1>6 DEF Freeze!WriteOtherBody
<1>7. CASE Freeze!Connected
  BY <1>0, <1>7 DEF Freeze!Connected
<1>8. CASE Freeze!DurationEnds
  BY <1>0, <1>8, <1>a DEF Freeze!DurationEnds
<1>9. CASE Freeze!RunBody
  <2>1. FreezeOver'
    BY <1>0, <1>9, Zenon DEF Freeze!RunBody
  <2>2. /\ pendingOp' \in BOOLEAN /\ frozen' \in BOOLEAN
        /\ UNCHANGED <<freezeDue, armed, overPending, body, healthy, cut, dropped>>
    BY <1>0, <1>9 DEF Freeze!RunBody
  <2>3. wornOff' \in BOOLEAN
    BY <1>0, <1>9, Zenon DEF Freeze!RunBody
  <2> QED
    BY <1>0, <2>1, <2>2, <2>3
<1>10. CASE Freeze!GapEnds
  <2>1. freezeDue' = TRUE /\ UNCHANGED <<left, armed, overPending, pendingOp, body, frozen, healthy,
                                         wornOff, cut, dropped>>
    BY <1>10 DEF Freeze!GapEnds
  <2> QED
    BY <1>0, <2>1
<1>11. CASE Freeze!Thaw
  BY <1>0, <1>11 DEF Freeze!Thaw
<1>12. CASE Freeze!HealthChanges
  <2>1. healthy' \in BOOLEAN
    BY <1>0, <1>12, Zenon DEF Freeze!HealthChanges
  <2>2. UNCHANGED <<Freeze!stateVars, Freeze!opVars, frozen, Freeze!history>>
    BY <1>12 DEF Freeze!HealthChanges
  <2> QED
    BY <1>0, <2>1, <2>2
<1>13. CASE Freeze!GameRestarts
  <2>1. FreezeOver'
    BY <1>0, <1>13, Zenon DEF Freeze!GameRestarts
  <2>2. /\ pendingOp' \in BOOLEAN /\ frozen' \in BOOLEAN
        /\ UNCHANGED <<freezeDue, armed, overPending, body, healthy, wornOff, cut>>
    BY <1>0, <1>13 DEF Freeze!GameRestarts
  <2>3. dropped' \in BOOLEAN
    BY <1>0, <1>13, Zenon DEF Freeze!GameRestarts
  <2> QED
    BY <1>0, <2>1, <2>2, <2>3
<1> HIDE DEF Kept
<1> QED
  BY <1>b, <1>1, <1>2, <1>3, <1>4, <1>5, <1>6, <1>7, <1>8, <1>9, <1>10, <1>11, <1>12, <1>13

\* After "worn off" no freeze runs, and no attempt is written off before the game
\* had it (_start_freeze_window, _handle_freeze_window), for every number of traps.
THEOREM FreezesAreAwaited == PartsSpec => []FreezesAwaited
<1>1. PartsInit => FreezeInv
  BY FreezeInit DEF PartsInit
<1>2. FreezeInv /\ [PartsNext]_allVars => FreezeInv'
  <2> SUFFICES ASSUME FreezeInv, [PartsNext]_allVars PROVE FreezeInv'
    OBVIOUS
  <2>1. CASE Freeze!Next
    BY <2>1, FreezeStep
  <2>2. CASE UNCHANGED freezeVars
    BY <2>2 DEF freezeVars, FreezeInv, FreezeCounts, FreezeFlags, FreezeOver, Freeze!Bodies,
                Freeze!NoFreezeAfterWornOff, Freeze!AttemptsAwaited
  <2> QED
    BY <2>1, <2>2 DEF PartsNext, OnFreeze, OnDeath, OnIso, OnReports, allVars
<1>3. FreezeInv => FreezesAwaited
  BY DEF FreezeInv, FreezeOver, FreezesAwaited
<1> QED
  BY <1>1, <1>2, <1>3, PTL DEF PartsSpec
-----------------------------------------------------------------------------
(* DeathLink.  A death that was reported, given up or caused by the group  *)
(* keeps showing, and keeps the debounce flag set, until the player is     *)
(* back; and every kill stands for a request that is neither queued nor    *)
(* being carried out.                                                      *)

\* What the player's fields say of the death.
Fields ==
  /\ cause = "none" => health /\ alive
  /\ pc = "writeAlive" => cause # "none" /\ ~unsent
  /\ pc = "readAlive" /\ ~sawHealth => cause # "none" /\ ~health

Settled == cause # "none" /\ ~unsent /\ ~forgot

\* A settled death keeps the debounce flag, except while the client kills or the
\* player is away, and shows to every poll until the player is back.
Debounced ==
  /\ Settled /\ (present \/ pc = "readAlive") /\ pc # "writeAlive" => reset
  /\ Settled => ~health \/ (~alive /\ seenSet)
  /\ Settled /\ pc = "readAlive" /\ sawHealth => ~alive /\ seenSet

\* A poll that saw the player alive left no flag behind for the next death.
Rearmed == lifeSeen /\ (cause = "none" \/ (unsent /\ ~givenUp)) => ~reset

Deaths == Fields /\ Debounced /\ Rearmed /\ Death!NoEcho

LEMMA DeathsInit == Death!Init => Deaths
BY DEF Death!Init, Deaths, Fields, Debounced, Settled, Rearmed, Death!NoEcho

LEMMA DeathsStep == Deaths /\ Death!Next => Deaths'
<1> SUFFICES ASSUME Deaths, Death!Next PROVE Deaths'
  OBVIOUS
<1>a. \/ Death!Die \/ Death!DieOn \/ Death!Vanish \/ Death!Appear
      \/ Death!Link \/ Death!RestartClient \/ Death!TimePasses \/ Death!OnDeathLink
      \/ Death!StartTick \/ Death!Poll
      \/ Death!ApplyPending \/ Death!WriteHealth \/ Death!WriteAlive
      \/ Death!ReadHealth \/ Death!Decide
  BY DEF Death!Next, Death!Game, Death!Tick, Death!Apply, Death!Check
<1> DEFINE Kept == Deaths'
<1> SUFFICES Kept
  OBVIOUS
<1> USE DEF Deaths, Fields, Debounced, Settled, Rearmed, Death!NoEcho, Death!gameVars,
            Death!linkVars, Death!clientVars, Death!tickVars, Death!history
<1>1. CASE Death!Die
  BY <1>1 DEF Death!Die
<1>2. CASE Death!DieOn
  BY <1>2 DEF Death!DieOn
<1>3. CASE Death!Vanish
  BY <1>3 DEF Death!Vanish
<1>4. CASE Death!Appear
  BY <1>4 DEF Death!Appear
<1>5. CASE Death!Link
  BY <1>5 DEF Death!Link, Death!Connected, Death!Disconnect, Death!GroupDeath, Death!Toggle
<1>6. CASE Death!RestartClient
  BY <1>6 DEF Death!RestartClient
<1>7. CASE Death!TimePasses
  BY <1>7 DEF Death!TimePasses
<1>8. CASE Death!OnDeathLink
  BY <1>8 DEF Death!OnDeathLink
<1>9. CASE Death!StartTick \/ Death!Poll
  BY <1>9 DEF Death!StartTick, Death!Poll
<1>10. CASE Death!ApplyPending
  BY <1>10 DEF Death!ApplyPending, Death!AfterApply
<1>11. CASE Death!WriteHealth
  BY <1>11 DEF Death!WriteHealth, Death!AfterApply
<1>12. CASE Death!WriteAlive
  BY <1>12 DEF Death!WriteAlive, Death!AfterApply
<1>13. CASE Death!ReadHealth
  BY <1>13 DEF Death!ReadHealth
<1>14. CASE Death!Decide
  BY <1>14 DEF Death!Decide, Death!Dead, Death!SeenSet, Death!SendDeath, Death!GiveUp
<1> HIDE DEF Kept
<1> QED
  BY <1>a, <1>1, <1>2, <1>3, <1>4, <1>5, <1>6, <1>7, <1>8, <1>9, <1>10, <1>11, <1>12, <1>13,
     <1>14

\* A request is killing at most once: it is queued again only before its kill.
Kills ==
  /\ inflight \in Nat /\ arrived \in Nat /\ kills \in Nat /\ kills <= arrived
  /\ pending \/ pc = "write" => kills < arrived
  /\ pc = "write" => ~pending

LEMMA KillsInit == Death!Init => Kills
<1> SUFFICES ASSUME Death!Init PROVE Kills
  OBVIOUS
<1>1. inflight = 0 /\ arrived = 0 /\ kills = 0 /\ ~pending /\ pc # "write"
  BY DEF Death!Init
<1> QED
  BY <1>1 DEF Kills

LEMMA KillsStep == Kills /\ Death!Next => Kills'
<1> SUFFICES ASSUME Kills, Death!Next PROVE Kills'
  OBVIOUS
<1> USE DEF Death!gameVars, Death!linkVars, Death!clientVars, Death!tickVars, Death!history,
            Death!AfterApply
<1>1. CASE Death!OnDeathLink
  <2>1. inflight > 0 /\ inflight' = inflight - 1 /\ arrived' = arrived + 1 /\ kills' = kills
        /\ pc' = "apply"
    BY <1>1 DEF Death!OnDeathLink
  <2> QED
    BY <2>1 DEF Kills
<1>2. CASE Death!WriteHealth
  <2>1. pc = "write" /\ kills < arrived /\ ~pending
    BY <1>2 DEF Death!WriteHealth, Kills
  <2>2. CASE present
    <3>1. kills' = kills + 1 /\ pc' = "writeAlive" /\ UNCHANGED <<pending, inflight, arrived>>
      BY <1>2, <2>2 DEF Death!WriteHealth
    <3>2. ~pending' /\ pc' # "write"
      BY <2>1, <3>1
    <3> QED
      BY <2>1, <3>1, <3>2 DEF Kills
  <2>3. CASE ~present
    <3>1. UNCHANGED <<kills, inflight, arrived>> /\ pc' # "write"
      BY <1>2, <2>3 DEF Death!WriteHealth
    <3> QED
      BY <2>1, <3>1 DEF Kills
  <2> QED
    BY <2>2, <2>3
<1>3. CASE Death!ApplyPending
  <2>1. UNCHANGED <<kills, inflight, arrived>>
    BY <1>3 DEF Death!ApplyPending
  <2>2. /\ pending' \/ pc' = "write" => pending
        /\ pc' = "write" => ~pending'
    BY <1>3 DEF Death!ApplyPending
  <2> QED
    BY <2>1, <2>2 DEF Kills
<1>4. CASE Death!GroupDeath
  <2>1. inflight' = inflight + 1 /\ UNCHANGED <<kills, arrived, pending, pc>>
    BY <1>4 DEF Death!GroupDeath
  <2> QED
    BY <2>1 DEF Kills
<1>5. CASE Death!Disconnect
  <2>1. inflight' = 0 /\ UNCHANGED <<kills, arrived, pending, pc>>
    BY <1>5 DEF Death!Disconnect
  <2> QED
    BY <2>1 DEF Kills
<1>6. CASE Death!RestartClient
  <2>1. inflight' = 0 /\ ~pending' /\ pc' # "write" /\ UNCHANGED <<kills, arrived>>
    BY <1>6 DEF Death!RestartClient
  <2> QED
    BY <2>1 DEF Kills
<1>7. CASE Death!Toggle
  <2>1. ~pending' /\ pc' # "write" /\ UNCHANGED <<kills, arrived, inflight>>
    BY <1>7 DEF Death!Toggle
  <2> QED
    BY <2>1 DEF Kills
<1>8. CASE UNCHANGED <<kills, arrived, inflight, pending>> /\ pc' # "write"
  BY <1>8 DEF Kills
<1>9. CASE UNCHANGED <<kills, arrived, inflight, pending, pc>>
  BY <1>9 DEF Kills
<1>10. \/ Death!Die \/ Death!DieOn \/ Death!Vanish \/ Death!Appear \/ Death!Connected
       \/ Death!TimePasses
       => UNCHANGED <<kills, arrived, inflight, pending, pc>>
  BY DEF Death!Die, Death!DieOn, Death!Vanish, Death!Appear, Death!Connected, Death!TimePasses
<1>12. Death!StartTick => UNCHANGED <<kills, arrived, inflight, pending, pc>>
  BY DEF Death!StartTick
<1>11. Death!Poll \/ Death!WriteAlive \/ Death!Check
       => UNCHANGED <<kills, arrived, inflight, pending>> /\ pc' # "write"
  BY DEF Death!Poll, Death!WriteAlive, Death!Check, Death!ReadHealth, Death!Decide
<1> QED
  BY <1>1, <1>2, <1>3, <1>4, <1>5, <1>6, <1>7, <1>8, <1>9, <1>10, <1>11, <1>12
     DEF Death!Next, Death!Game, Death!Link, Death!Tick, Death!Apply

LEMMA DeathInvariant == PartsSpec => [](Deaths /\ Kills)
<1>1. PartsInit => Deaths /\ Kills
  BY DeathsInit, KillsInit DEF PartsInit
<1>2. Deaths /\ Kills /\ [PartsNext]_allVars => Deaths' /\ Kills'
  <2> SUFFICES ASSUME Deaths, Kills, [PartsNext]_allVars PROVE Deaths' /\ Kills'
    OBVIOUS
  <2>1. CASE Death!Next
    BY <2>1, DeathsStep, KillsStep
  <2>2. CASE UNCHANGED deathVars
    BY <2>2 DEF deathVars, Deaths, Fields, Debounced, Settled, Rearmed, Death!NoEcho, Kills
  <2> QED
    BY <2>1, <2>2 DEF PartsNext, OnFreeze, OnDeath, OnIso, OnReports, allVars
<1> QED
  BY <1>1, <1>2, PTL DEF PartsSpec

\* Only the player's own deaths are sent, each once, and a DeathLink kills at most
\* once (death_link_check, apply_pending_death), however many there are and
\* wherever loads, failed writes and restarts fall between them.
THEOREM DeathsMatch == PartsSpec => []DeathsOneToOne
<1>1. Deaths /\ Kills => DeathsOneToOne
  BY DEF Deaths, Kills, DeathsOneToOne, Death!OneKillPerDeathLink
<1> QED
  BY <1>1, DeathInvariant, PTL

\* "so a later organic death still sends normally" (death_link_check): a flag left
\* by one death never swallows the next one's report: a poll that finds it sends it,
\* unless sending failed, in this poll or an earlier one, for want of a slot, of a
\* socket or of the room's name.
THEOREM LaterDeathsSend == PartsSpec => LaterDeathStillSends
<1>1. Deaths /\ Death!Decide /\ Death!Dead /\ unsent /\ lifeSeen => ~unsent' \/ givenUp'
  BY DEF Deaths, Rearmed, Death!Decide, Death!SendDeath, Death!GiveUp
<1>2. Deaths => [part = "death" /\ Death!Decide /\ Death!Dead /\ unsent /\ lifeSeen
                   => ~unsent' \/ givenUp']_allVars
  BY <1>1
<1> QED
  BY <1>2, DeathInvariant, PTL DEF LaterDeathStillSends
-----------------------------------------------------------------------------
(* What ticks report.  No goal is reported that this session has not seen  *)
(* happen: the places of the ending are entered only with the goal; and a  *)
(* marker counts only after a read without it, while only the completion   *)
(* of this session puts one where there was none.                          *)

Places    == Rooms \cup {"menu", "controller", "ending", "beyond"}
Positions == {[f \in changed |-> Reading(p)[f]] : p \in Places, changed \in SUBSET {"mlvl", "room"}}

\* What a tick sends.
Reports == {StatusUpdate}
           \cup {[cmd |-> "Set", position |-> x] : x \in Positions}
           \cup {[cmd |-> "CreateHints", scans |-> x] : x \in SUBSET script.scans}

\* Nobody tells of a scan that the session has not.
ScansKnown ==
  /\ scanned \subseteq script.scans /\ hinted \subseteq script.scans
  /\ sentScans \subseteq script.scans /\ listed \subseteq script.scans

Connection ==
  /\ link \in {"up", "dying", "down"} /\ (link # "up" => sending = <<>>)
  /\ step \in {"sleep", "goal sent", "guard", "position", "position sent", "hints", "hints sent"}

\* The save reflects, and a body grants, no more than the server has sent.
Numbers ==
  /\ items \in 0 .. known /\ known \in 0 .. Len(script.incoming)
  /\ reflected \in 0 .. known /\ op \in NoOp .. known
  /\ announced \in Unannounced .. items \/ link = "down"

WellTyped ==
  /\ script \in Scripts
  /\ place \in Places
  /\ ScansKnown
  /\ Connection
  /\ sending \in Seq(Reports)

\* Places, and a marker that this connection has seen appear, prove the goal.
PlacesMean == place \notin Rooms \cup {"menu"} => completed
MarkerMeans == marker /\ markerArmed => completed

\* So does whatever has been told of it.
ToldOfGoal ==
  finished \/ reported \/ step = "goal sent"
  \/ (\E k \in DOMAIN sending : sending[k].cmd = "StatusUpdate")

GoalInv == PlacesMean /\ MarkerMeans /\ (ToldOfGoal => completed)

LEMMA ScriptKept == [Next]_vars => script' = script
BY DEF Next, Game, Link, Callbacks, Tick, TimePasses, Walk, Scan, RunBody, Complete, WarpToCredits,
       LeaveWorld, LoadSave, Lose, NoticeLoss, Connected, ItemsArrive, Deliver, GroupWindowEnds,
       CoolDown, CheckGoal, GoalSent, SkipTick, ShowMessage, GrantItems, SendPosition, PositionSent,
       SendHints, HintsSent, SendRaises, vars, gameVars, GameOnly, TickOnly

LEMMA SentTyped ==
  ASSUME WellTyped, NEW m \in Reports
  PROVE  /\ Sent(m) \in Seq(Reports)
         /\ link # "up" => Sent(m) = <<>>
<1>1. sending \in Seq(Reports) /\ (link # "up" => sending = <<>>)
  BY DEF WellTyped, Connection
<1> DEFINE R == Reports
<1>2. ASSUME NEW s \in Seq(R), NEW x \in R PROVE Append(s, x) \in Seq(R)
  <2> HIDE DEF R
  <2> QED
    BY <1>2
<1>3. Append(sending, m) \in Seq(Reports)
  <2> HIDE DEF R
  <2>1. sending \in Seq(R) /\ m \in R
    BY <1>1 DEF R
  <2>2. Append(sending, m) \in Seq(R)
    BY <2>1, <1>2
  <2> QED
    BY <2>2 DEF R
<1> QED
  BY <1>1, <1>3, Zenon DEF Sent

LEMMA WellTypedKept == WellTyped /\ [Next]_vars => WellTyped'
<1> SUFFICES ASSUME WellTyped, [Next]_vars PROVE WellTyped'
  OBVIOUS
<1>a. script' = script
  BY ScriptKept
<1>b. Reports' = Reports
  BY <1>a DEF Reports
<1>c. script.places \subseteq Rooms
  BY ReportsAssumption DEF WellTyped
<1>d. <<>> \in Seq(Reports) /\ <<StatusUpdate>> \in Seq(Reports)
  BY DEF Reports
<1> USE DEF vars, gameVars, linkVars, serverVars, tickVars, clientVars, hudVars, bounds, history,
            GameOnly, TickOnly
<1> DEFINE Kept == place' \in Places /\ ScansKnown' /\ Connection' /\ sending' \in Seq(Reports)
<1> SUFFICES Kept
  BY <1>a, <1>b DEF WellTyped
<1>1. CASE Game
  <2>1. place' \in Places /\ UNCHANGED <<link, sending, step, hinted, sentScans, listed>>
    BY <1>1, <1>c DEF Game, Walk, Scan, RunBody, Complete, WarpToCredits, LeaveWorld, LoadSave,
                      WellTyped, Places, Rooms
  <2>2. scanned' \subseteq script.scans
    BY <1>1 DEF Game, Walk, Scan, RunBody, Complete, WarpToCredits, LeaveWorld, LoadSave,
                WellTyped, ScansKnown
  <2> QED
    BY <1>a, <2>1, <2>2 DEF WellTyped, ScansKnown, Connection
<1>2. CASE Lose \/ NoticeLoss \/ Connected
  <2>1. sending' \in Seq(Reports) /\ (link' # "up" => sending' = <<>>)
    BY <1>2, <1>d DEF Lose, NoticeLoss, Connected, WellTyped, Connection
  <2>2. place' = place /\ link' \in {"up", "dying", "down"} /\ UNCHANGED <<scanned, hinted, listed, step>>
        /\ (sentScans' = sentScans \/ sentScans' = {})
    BY <1>2 DEF Lose, NoticeLoss, Connected
  <2> QED
    BY <1>a, <2>1, <2>2 DEF WellTyped, ScansKnown, Connection
<1>3. CASE Deliver
  <2>1. sending # <<>> /\ sending' = Tail(sending) /\ Head(sending) \in Reports
    BY <1>3 DEF Deliver, WellTyped
  <2>2. hinted' \subseteq script.scans
    BY <1>3, <2>1 DEF Deliver, WellTyped, ScansKnown, Reports, StatusUpdate
  <2>3. UNCHANGED <<place, link, scanned, sentScans, listed, step>>
    BY <1>3 DEF Deliver
  <2>4. sending' \in Seq(Reports)
    <3> DEFINE R == Reports
    <3>1. sending \in Seq(R) /\ sending # <<>> /\ sending' = Tail(sending)
      BY <2>1 DEF WellTyped
    <3> HIDE DEF R
    <3>2. sending' \in Seq(R)
      BY <3>1
    <3> QED
      BY <3>2 DEF R
  <2>5. link = "up"
    BY <2>1 DEF WellTyped, Connection
  <2> QED
    BY <1>a, <2>2, <2>3, <2>4, <2>5 DEF WellTyped, ScansKnown, Connection
<1>4. CASE CheckGoal
  <2>1. StatusUpdate \in Reports
    BY DEF Reports
  <2>2. sending' = sending \/ sending' = Sent(StatusUpdate)
    BY <1>4 DEF CheckGoal
  <2>3. UNCHANGED <<place, link, scanned, hinted, sentScans, listed>> /\ step' \in {"goal sent", "guard"}
    BY <1>4 DEF CheckGoal
  <2> QED
    BY <1>a, <2>1, <2>2, <2>3, SentTyped DEF WellTyped, ScansKnown, Connection
<1>5. CASE SendPosition
  <2> DEFINE changed == {f \in {"mlvl", "room"} : Reading(place)[f] # lastSent[f]}
             report  == [cmd |-> "Set", position |-> [f \in changed |-> Reading(place)[f]]]
  <2>1. report \in Reports
    <3>1. [f \in changed |-> Reading(place)[f]] \in Positions
      <4>1. changed \in SUBSET {"mlvl", "room"} /\ place \in Places
        BY DEF WellTyped
      <4> HIDE DEF changed
      <4> QED
        BY <4>1 DEF Positions
    <3> HIDE DEF changed
    <3> QED
      BY <3>1 DEF Reports
  <2>2. sending' = sending \/ sending' = Sent(report)
    BY <1>5 DEF SendPosition
  <2>3. UNCHANGED <<place, link, scanned, hinted, sentScans, listed>> /\ step' \in {"hints", "position sent"}
    BY <1>5 DEF SendPosition
  <2> HIDE DEF report
  <2> QED
    BY <1>a, <2>1, <2>2, <2>3, SentTyped DEF WellTyped, ScansKnown, Connection
<1>6. CASE SendHints
  <2> DEFINE report == [cmd |-> "CreateHints", scans |-> scanned \ sentScans]
  <2>1. report \in Reports
    BY DEF WellTyped, ScansKnown, Reports
  <2>2. sending' = sending \/ sending' = Sent(report)
    BY <1>6 DEF SendHints
  <2>3. UNCHANGED <<place, link, scanned, hinted, sentScans>> /\ step' \in {"sleep", "hints sent"}
        /\ listed' \subseteq script.scans
    BY <1>6 DEF SendHints, WellTyped, ScansKnown
  <2> HIDE DEF report
  <2> QED
    BY <1>a, <2>1, <2>2, <2>3, SentTyped DEF WellTyped, ScansKnown, Connection
<1>7. CASE HintsSent
  <2>1. step' = "sleep" /\ sentScans' \subseteq script.scans /\ listed' = {}
        /\ UNCHANGED <<place, link, sending, scanned, hinted>>
    BY <1>7 DEF HintsSent, WellTyped, ScansKnown
  <2> QED
    BY <1>a, <2>1 DEF WellTyped, ScansKnown, Connection
<1>8. CASE \/ ItemsArrive \/ GoalSent \/ SkipTick \/ ShowMessage \/ GrantItems
           \/ PositionSent \/ SendRaises \/ TimePasses \/ UNCHANGED vars
  <2>1. UNCHANGED <<place, link, sending, scanned, hinted, sentScans>> /\ (listed' = listed \/ listed' = {})
    BY <1>8 DEF ItemsArrive, GoalSent, SkipTick, ShowMessage, GrantItems, PositionSent, SendRaises,
                TimePasses, GroupWindowEnds, CoolDown
  <2>2. step' \in {step, "guard", "sleep", "position", "hints"}
    BY <1>8 DEF ItemsArrive, GoalSent, SkipTick, ShowMessage, GrantItems, PositionSent, SendRaises,
                TimePasses, GroupWindowEnds, CoolDown
  <2> QED
    BY <1>a, <2>1, <2>2 DEF WellTyped, ScansKnown, Connection
<1> HIDE DEF Kept
<1> QED
  BY <1>1, <1>2, <1>3, <1>4, <1>5, <1>6, <1>7, <1>8 DEF Next, Link, Callbacks, Tick

LEMMA WellTypedInit == Init => WellTyped
<1> SUFFICES ASSUME Init PROVE WellTyped
  OBVIOUS
<1>1. sending = <<>> /\ <<>> \in Seq(Reports)
  BY DEF Init
<1> QED
  BY <1>1 DEF Init, WellTyped, ScansKnown, Connection, Places, Rooms

LEMMA NumbersInit == Init => Numbers
<1> SUFFICES ASSUME Init PROVE Numbers
  OBVIOUS
<1>1. script.reflected \in 0 .. Len(script.incoming)
  BY ReportsAssumption DEF Init
<1> QED
  BY <1>1 DEF Init, Numbers, NoOp

LEMMA NumbersKept == WellTyped /\ Numbers /\ [Next]_vars => Numbers'
<1> SUFFICES ASSUME WellTyped, Numbers, [Next]_vars PROVE Numbers'
  OBVIOUS
<1>a. script' = script
  BY ScriptKept
<1>b. Len(script.incoming) \in Nat
  BY ReportsAssumption DEF WellTyped
<1> USE DEF vars, gameVars, linkVars, serverVars, tickVars, clientVars, hudVars, bounds, history,
            GameOnly, TickOnly
<1> DEFINE Kept == Numbers'
<1> SUFFICES Kept
  OBVIOUS
<1>1. CASE RunBody
  <2>1. op # NoOp /\ reflected' = (IF op > reflected THEN op ELSE reflected) /\ op' = NoOp
        /\ UNCHANGED <<items, known, announced, link>>
    BY <1>1 DEF RunBody
  <2> QED
    BY <1>a, <1>b, <2>1 DEF Numbers, NoOp
<1>2. CASE LoadSave
  <2>1. reflected' \in 0 .. reflected /\ UNCHANGED <<op, items, known, announced, link>>
    BY <1>2 DEF LoadSave
  <2> QED
    BY <1>a, <1>b, <2>1 DEF Numbers, NoOp
<1>3. CASE NoticeLoss
  <2>1. link' = "down" /\ items' = 0 /\ UNCHANGED <<op, reflected, known, announced>>
    BY <1>3 DEF NoticeLoss
  <2> QED
    BY <1>a, <1>b, <2>1 DEF Numbers, NoOp
<1>4. CASE Connected
  <2>1. announced' = Unannounced /\ UNCHANGED <<op, reflected, items, known>>
    BY <1>4 DEF Connected
  <2> QED
    BY <1>a, <1>b, <2>1 DEF Numbers, NoOp, Unannounced
<1>5. CASE ItemsArrive
  <2>1. /\ items' \in items + 1 .. Len(script.incoming) /\ items' >= known /\ known' = items'
        /\ link = "up" /\ UNCHANGED <<op, reflected, announced, link>>
    BY <1>5 DEF ItemsArrive
  <2> QED
    BY <1>a, <1>b, <2>1 DEF Numbers, NoOp, Unannounced
<1>6. CASE GrantItems
  <2>1. /\ announced' = announced \/ announced' = items
        /\ op' = op \/ op' = items
        /\ UNCHANGED <<reflected, items, known, link>>
    BY <1>6 DEF GrantItems, Announce
  <2> QED
    BY <1>a, <1>b, <2>1 DEF Numbers, NoOp, Unannounced
<1>7. CASE ShowMessage
  <2>1. op' = Hud /\ UNCHANGED <<reflected, items, known, announced, link>>
    BY <1>7 DEF ShowMessage
  <2> QED
    BY <1>a, <1>b, <2>1 DEF Numbers, NoOp, Hud
<1>8. CASE Lose
  <2>1. link = "up" /\ UNCHANGED <<op, reflected, items, known, announced>>
    BY <1>8 DEF Lose
  <2> QED
    BY <1>a, <2>1 DEF Numbers
<1>9. CASE UNCHANGED <<op, reflected, items, known, announced, link>>
  BY <1>a, <1>9 DEF Numbers
<1>10. \/ Walk \/ (\E s \in script.scans : Scan(s)) \/ Complete \/ WarpToCredits \/ LeaveWorld
       \/ Deliver \/ TimePasses \/ CheckGoal \/ GoalSent \/ SkipTick \/ SendPosition
       \/ PositionSent \/ SendHints \/ HintsSent \/ SendRaises \/ UNCHANGED vars
       => UNCHANGED <<op, reflected, items, known, announced, link>>
  BY DEF Walk, Scan, Complete, WarpToCredits, LeaveWorld, Deliver, TimePasses, GroupWindowEnds,
         CoolDown, CheckGoal, GoalSent, SkipTick, SendPosition, PositionSent, SendHints, HintsSent,
         SendRaises
<1> HIDE DEF Kept
<1> QED
  BY <1>1, <1>2, <1>3, <1>4, <1>5, <1>6, <1>7, <1>8, <1>9, <1>10
     DEF Next, Game, Link, Callbacks, Tick

\* What ticks report keeps its types: what is on its way is a sequence of reports
\* about places and scans there are, and no count is beyond what the server sent.
THEOREM ReportsTypeCorrect == Spec => [](WellTyped /\ Numbers)
<1> QED
  BY WellTypedInit, WellTypedKept, NumbersInit, NumbersKept, PTL DEF Spec

\* The server is only told of a goal this session has seen happen.
THEOREM GoalReportedTruly == Spec => []GoalNotSpurious
<1>1. Init => GoalInv
  BY DEF Init, GoalInv, PlacesMean, MarkerMeans, ToldOfGoal, Rooms
<1>2. WellTyped /\ GoalInv /\ [Next]_vars => GoalInv'
  <2> SUFFICES ASSUME WellTyped, GoalInv, [Next]_vars PROVE GoalInv'
    OBVIOUS
  <2> USE ReportsAssumption DEF vars, gameVars, linkVars, serverVars, tickVars, clientVars, hudVars,
                                bounds, history, GameOnly, TickOnly, GoalInv
  <2>0. \A m : \A k \in DOMAIN Sent(m) : Sent(m)[k] = m \/ (k \in DOMAIN sending /\ Sent(m)[k] = sending[k])
    BY DEF Sent, WellTyped
  <2>1. CASE Game
    <3>1. completed => completed'
      BY <2>1 DEF Game, Walk, Scan, RunBody, Complete, WarpToCredits, LeaveWorld, LoadSave
    <3>2. UNCHANGED <<markerArmed, finished, reported, step, sending>>
      BY <2>1 DEF Game, Walk, Scan, RunBody, Complete, WarpToCredits, LeaveWorld, LoadSave
    <3>3. PlacesMean'
      BY <2>1 DEF Game, Walk, Scan, RunBody, Complete, WarpToCredits, Warping, LeaveWorld, LoadSave,
                  PlacesMean, WellTyped, Rooms
    <3>4. MarkerMeans'
      BY <2>1 DEF Game, Walk, Scan, RunBody, Complete, WarpToCredits, Warping, LeaveWorld, LoadSave,
                  MarkerMeans
    <3> QED
      BY <3>1, <3>2, <3>3, <3>4 DEF ToldOfGoal
  <2>2. CASE Lose
    <3>1. DOMAIN sending' = {}
      BY <2>2 DEF Lose
    <3> QED
      BY <2>2, <3>1 DEF Lose, PlacesMean, MarkerMeans, ToldOfGoal
  <2>3. CASE Connected
    <3>1. ASSUME ~finished PROVE DOMAIN sending' = {}
      <4>1. sending' = <<>>
        BY <2>3, <3>1 DEF Connected
      <4> QED
        BY <4>1
    <3> QED
      BY <2>3, <3>1 DEF Connected, PlacesMean, MarkerMeans, ToldOfGoal
  <2>4. CASE Deliver
    <3>1. \A k \in DOMAIN sending' : k + 1 \in DOMAIN sending /\ sending'[k] = sending[k + 1]
      BY <2>4 DEF Deliver, WellTyped
    <3>2. Head(sending) = sending[1] /\ 1 \in DOMAIN sending
      BY <2>4 DEF Deliver, WellTyped
    <3>3. reported' => reported \/ sending[1].cmd = "StatusUpdate"
      BY <2>4, <3>2 DEF Deliver
    <3> QED
      BY <2>4, <3>1, <3>2, <3>3 DEF Deliver, PlacesMean, MarkerMeans, ToldOfGoal
  <2>5. CASE CheckGoal
    <3>1. GoalReached => completed
      BY DEF GoalReached, PlacesMean, MarkerMeans, Rooms
    <3>2. MarkerMeans' /\ PlacesMean'
      BY <2>5 DEF CheckGoal, PlacesMean, MarkerMeans
    <3>3. CASE ~finished /\ GoalReached
      BY <2>5, <3>1, <3>2, <3>3 DEF CheckGoal
    <3>4. CASE ~(~finished /\ GoalReached)
      BY <2>5, <3>2, <3>4 DEF CheckGoal, ToldOfGoal
    <3> QED
      BY <3>3, <3>4
  <2>6. CASE SendPosition
    <3>1. \A k \in DOMAIN sending' : (k \in DOMAIN sending /\ sending'[k] = sending[k])
                                     \/ sending'[k].cmd = "Set"
      <4>1. sending' = sending \/ \E x : sending' = Sent([cmd |-> "Set", position |-> x])
        BY <2>6 DEF SendPosition
      <4>2. ASSUME NEW x, sending' = Sent([cmd |-> "Set", position |-> x]), NEW k \in DOMAIN sending'
            PROVE  (k \in DOMAIN sending /\ sending'[k] = sending[k]) \/ sending'[k].cmd = "Set"
        <5> DEFINE m == [cmd |-> "Set", position |-> x]
        <5>1. m.cmd = "Set"
          OBVIOUS
        <5> HIDE DEF m
        <5>2. k \in DOMAIN Sent(m)
          BY <4>2 DEF m
        <5>3. Sent(m)[k] = m \/ (k \in DOMAIN sending /\ Sent(m)[k] = sending[k])
          BY <2>0, <5>2
        <5>4. sending' = Sent(m)
          BY <4>2 DEF m
        <5> QED
          BY <5>1, <5>3, <5>4
      <4> QED
        BY <4>1, <4>2
    <3> QED
      BY <2>6, <3>1 DEF SendPosition, PlacesMean, MarkerMeans, ToldOfGoal
  <2>7. CASE SendHints
    <3>1. \A k \in DOMAIN sending' : (k \in DOMAIN sending /\ sending'[k] = sending[k])
                                     \/ sending'[k].cmd = "CreateHints"
      <4>1. sending' = sending \/ \E x : sending' = Sent([cmd |-> "CreateHints", scans |-> x])
        BY <2>7 DEF SendHints
      <4>2. ASSUME NEW x, sending' = Sent([cmd |-> "CreateHints", scans |-> x]), NEW k \in DOMAIN sending'
            PROVE  (k \in DOMAIN sending /\ sending'[k] = sending[k]) \/ sending'[k].cmd = "CreateHints"
        <5> DEFINE m == [cmd |-> "CreateHints", scans |-> x]
        <5>1. m.cmd = "CreateHints"
          OBVIOUS
        <5> HIDE DEF m
        <5>2. k \in DOMAIN Sent(m)
          BY <4>2 DEF m
        <5>3. Sent(m)[k] = m \/ (k \in DOMAIN sending /\ Sent(m)[k] = sending[k])
          BY <2>0, <5>2
        <5>4. sending' = Sent(m)
          BY <4>2 DEF m
        <5> QED
          BY <5>1, <5>3, <5>4
      <4> QED
        BY <4>1, <4>2
    <3> QED
      BY <2>7, <3>1 DEF SendHints, PlacesMean, MarkerMeans, ToldOfGoal
  <2>8. CASE GoalSent
    BY <2>8 DEF GoalSent, PlacesMean, MarkerMeans, ToldOfGoal
  <2>9. CASE \/ NoticeLoss \/ ItemsArrive \/ SkipTick \/ ShowMessage \/ GrantItems
             \/ PositionSent \/ HintsSent \/ SendRaises \/ TimePasses \/ UNCHANGED vars
    <3>1. UNCHANGED <<place, marker, markerArmed, completed, sending, finished, reported>>
      BY <2>9 DEF NoticeLoss, ItemsArrive, SkipTick, ShowMessage, GrantItems, PositionSent,
                  HintsSent, SendRaises, TimePasses, GroupWindowEnds, CoolDown
    <3>2. step' # "goal sent" \/ step' = step
      BY <2>9 DEF NoticeLoss, ItemsArrive, SkipTick, ShowMessage, GrantItems, PositionSent,
                  HintsSent, SendRaises, TimePasses, GroupWindowEnds, CoolDown
    <3> QED
      BY <3>1, <3>2 DEF PlacesMean, MarkerMeans, ToldOfGoal
  <2> QED
    BY <2>1, <2>2, <2>3, <2>4, <2>5, <2>6, <2>7, <2>8, <2>9 DEF Next, Link, Callbacks, Tick
<1>3. GoalInv => GoalNotSpurious
  <2>1. StatusUpdate.cmd = "StatusUpdate"
    BY DEF StatusUpdate
  <2> QED
    BY <2>1 DEF GoalInv, ToldOfGoal, GoalNotSpurious
<1> QED
  BY <1>1, <1>2, <1>3, ReportsTypeCorrect, PTL DEF Spec
-----------------------------------------------------------------------------
(* What the client takes for said.  While an await is open that a report   *)
(* went out in, its content counts as said already: a connection that ends *)
(* in it makes the session raced, any other forgets all that was said.     *)

GoalOut    == reported \/ \E k \in DOMAIN sending : sending[k] = StatusUpdate
ScanOut(s) == s \in hinted \/ \E k \in DOMAIN sending : sending[k].cmd = "CreateHints" /\ s \in sending[k].scans

Saids ==
  /\ finished \/ step = "goal sent" => GoalOut
  /\ \A s \in sentScans \cup listed : ScanOut(s)

SaidInv ==
  /\ listed # {} => step = "hints sent"
  /\ DOMAIN stored = {"mlvl", "room"}
  /\ link = "up" => PositionSaid /\ (raced \/ Saids)

LEMMA SetShape ==
  ASSUME NEW m \in Reports, m.cmd = "Set"
  PROVE  DOMAIN m.position \subseteq {"mlvl", "room"}
<1>1. PICK x \in Positions : m = [cmd |-> "Set", position |-> x]
  BY DEF Reports, StatusUpdate
<1>2. PICK p \in Places, changed \in SUBSET {"mlvl", "room"} : x = [f \in changed |-> Reading(p)[f]]
  BY <1>1 DEF Positions
<1>3. DOMAIN x \subseteq {"mlvl", "room"}
  BY <1>2
<1> QED
  BY <1>1, <1>3

LEMMA ReportsMade ==
  ASSUME WellTyped
  PROVE  /\ StatusUpdate \in Reports
         /\ \A changed \in SUBSET {"mlvl", "room"} :
              [cmd |-> "Set", position |-> [f \in changed |-> Reading(place)[f]]] \in Reports
         /\ \A scans \in SUBSET script.scans : [cmd |-> "CreateHints", scans |-> scans] \in Reports
<1>1. ASSUME NEW changed \in SUBSET {"mlvl", "room"}
      PROVE  [cmd |-> "Set", position |-> [f \in changed |-> Reading(place)[f]]] \in Reports
  <2>1. [f \in changed |-> Reading(place)[f]] \in Positions
    BY DEF Positions, WellTyped
  <2> QED
    BY <2>1 DEF Reports
<1> QED
  BY <1>1 DEF Reports

\* A message more leaves the others where they are.
LEMMA Longer ==
  ASSUME WellTyped, NEW m \in Reports, sending' = Append(sending, m)
  PROVE  /\ Len(sending) \in Nat /\ DOMAIN sending = 1 .. Len(sending)
         /\ DOMAIN sending' = 1 .. Len(sending) + 1
         /\ \A k \in 1 .. Len(sending) : sending'[k] = sending[k]
         /\ sending'[Len(sending) + 1] = m
<1> DEFINE R == Reports
<1>1. sending \in Seq(R) /\ m \in R
  BY DEF WellTyped
<1> HIDE DEF R
<1> QED
  BY <1>1

LEMMA StaysOut ==
  ASSUME WellTyped, NEW m \in Reports, sending' = Append(sending, m), UNCHANGED <<reported, hinted>>
  PROVE  /\ GoalOut => GoalOut'
         /\ \A s : ScanOut(s) => ScanOut(s)'
<1>1. \A k \in DOMAIN sending : k \in DOMAIN sending' /\ sending'[k] = sending[k]
  BY Longer
<1> QED
  BY <1>1 DEF GoalOut, ScanOut

LEMMA OthersKeepPosition ==
  ASSUME WellTyped, PositionSaid, NEW m \in Reports, m.cmd # "Set", sending' = Append(sending, m),
         UNCHANGED <<stored, lastSent>>
  PROVE  PositionSaid'
<1>1. /\ Len(sending) \in Nat /\ DOMAIN sending = 1 .. Len(sending)
      /\ DOMAIN sending' = 1 .. Len(sending) + 1
      /\ \A k \in 1 .. Len(sending) : sending'[k] = sending[k]
      /\ sending'[Len(sending) + 1] = m
  BY Longer
<1>2. ASSUME NEW f PROVE Setting(f)' = Setting(f)
  BY <1>1 DEF Setting
<1>3. ASSUME NEW f, NEW k \in Setting(f) PROVE sending'[k] = sending[k]
  BY <1>1 DEF Setting
<1> SUFFICES ASSUME lastSent # Nowhere, NEW f \in {"mlvl", "room"}
             PROVE  \/ Setting(f)' = {} /\ stored'[f] = lastSent'[f]
                    \/ \E k \in Setting(f)' : sending'[k].position[f] = lastSent'[f]
                                             /\ \A j \in Setting(f)' : j <= k
  BY DEF PositionSaid
<1>4. \/ Setting(f) = {} /\ stored[f] = lastSent[f]
      \/ \E k \in Setting(f) : sending[k].position[f] = lastSent[f] /\ \A j \in Setting(f) : j <= k
  BY DEF PositionSaid
<1> QED
  BY <1>2, <1>3, <1>4

\* Nothing is said, heard or forgotten.
LEMMA QuietSaid ==
  ASSUME SaidInv, UNCHANGED <<link, sending, reported, hinted, stored, finished, sentScans, lastSent, raced>>,
         listed' = {} \/ (listed' = listed /\ step' = step),
         step' = "goal sent" => step = "goal sent"
  PROVE  SaidInv'
<1>1. DOMAIN stored' = {"mlvl", "room"} /\ (listed' # {} => step' = "hints sent")
  BY DEF SaidInv
<1>2. PositionSaid' <=> PositionSaid
  BY DEF PositionSaid, Setting
<1>3. GoalOut' <=> GoalOut
  BY DEF GoalOut
<1>4. ASSUME NEW x PROVE ScanOut(x)' <=> ScanOut(x)
  BY DEF ScanOut
<1>5. ASSUME Saids PROVE Saids'
  <2>1. finished' \/ step' = "goal sent" => GoalOut'
    BY <1>3, <1>5 DEF Saids
  <2>2. \A x \in sentScans' \cup listed' : ScanOut(x)'
    BY <1>4, <1>5 DEF Saids
  <2> QED
    BY <2>1, <2>2 DEF Saids
<1>6. link' = "up" => PositionSaid' /\ (raced' \/ Saids')
  BY <1>2, <1>5 DEF SaidInv
<1> QED
  BY <1>1, <1>6 DEF SaidInv

LEMMA SaidDelivered ==
  ASSUME WellTyped, SaidInv, Deliver
  PROVE  SaidInv'
<1> DEFINE m == Head(sending)
           n == Len(sending)
<1>1. /\ n \in Nat /\ n >= 1 /\ DOMAIN sending = 1 .. n /\ m = sending[1] /\ m \in Reports
      /\ DOMAIN sending' = 1 .. n - 1
      /\ \A k \in 1 .. n - 1 : sending'[k] = sending[k + 1]
  <2> DEFINE R == Reports
  <2>1. sending \in Seq(R) /\ sending # <<>> /\ sending' = Tail(sending)
    BY DEF WellTyped, Deliver
  <2> HIDE DEF R
  <2>2. /\ n \in Nat /\ n >= 1 /\ DOMAIN sending = 1 .. n /\ m = sending[1] /\ m \in R
        /\ DOMAIN sending' = 1 .. n - 1
        /\ \A k \in 1 .. n - 1 : sending'[k] = sending[k + 1]
    BY <2>1
  <2> QED
    BY <2>2 DEF R
<1>2. /\ reported' = (reported \/ m.cmd = "StatusUpdate")
      /\ hinted' = IF m.cmd = "CreateHints" THEN hinted \cup m.scans ELSE hinted
      /\ link' = link /\ raced' = raced /\ lastSent' = lastSent /\ finished' = finished
      /\ sentScans' = sentScans /\ step' = step /\ listed' = listed
  BY DEF Deliver, gameVars, tickVars, clientVars, hudVars, bounds
<1>9. stored' = IF m.cmd = "Set" THEN Overwritten(stored, m.position) ELSE stored
  BY DEF Deliver
<1> HIDE DEF m, n
<1>3. \A k \in 1 .. n : k = 1 \/ (k - 1 \in 1 .. n - 1 /\ sending'[k - 1] = sending[k])
  BY <1>1
<1>4. GoalOut => GoalOut'
  <2>1. StatusUpdate.cmd = "StatusUpdate"
    BY DEF StatusUpdate
  <2> QED
    BY <1>1, <1>2, <1>3, <2>1 DEF GoalOut
<1>5. ASSUME NEW s, ScanOut(s) PROVE ScanOut(s)'
  BY <1>1, <1>2, <1>3, <1>5 DEF ScanOut
<1>6. /\ DOMAIN stored' = {"mlvl", "room"}
      /\ \A f \in {"mlvl", "room"} :
           stored'[f] = IF m.cmd = "Set" /\ f \in DOMAIN m.position THEN m.position[f] ELSE stored[f]
  BY <1>1, <1>9, SetShape DEF SaidInv, Overwritten
<1>7. ASSUME PositionSaid PROVE PositionSaid'
  <2> SUFFICES ASSUME lastSent # Nowhere, NEW f \in {"mlvl", "room"}
               PROVE  \/ Setting(f)' = {} /\ stored'[f] = lastSent[f]
                      \/ \E k \in Setting(f)' : sending'[k].position[f] = lastSent[f]
                                               /\ \A j \in Setting(f)' : j <= k
    BY <1>2 DEF PositionSaid
  <2>1. \A k \in Setting(f)' : k \in 1 .. n - 1 /\ k + 1 \in Setting(f)
    BY <1>1 DEF Setting
  <2>2. \A k \in Setting(f) : k \in 1 .. n /\ (k = 1 \/ k - 1 \in Setting(f)')
    BY <1>1, <1>3 DEF Setting
  <2>3. 1 \in Setting(f) <=> m.cmd = "Set" /\ f \in DOMAIN m.position
    BY <1>1 DEF Setting
  <2>4. CASE Setting(f) = {} /\ stored[f] = lastSent[f]
    BY <1>6, <2>1, <2>3, <2>4
  <2>5. ASSUME NEW k \in Setting(f), sending[k].position[f] = lastSent[f], \A j \in Setting(f) : j <= k
        PROVE  \/ Setting(f)' = {} /\ stored'[f] = lastSent[f]
               \/ \E i \in Setting(f)' : sending'[i].position[f] = lastSent[f]
                                        /\ \A j \in Setting(f)' : j <= i
    <3>1. CASE k = 1
      <4>1. Setting(f)' = {}
        BY <1>1, <2>1, <2>5, <3>1
      <4>2. stored'[f] = m.position[f] /\ m = sending[1]
        BY <1>1, <1>6, <2>3, <2>5, <3>1
      <4> QED
        BY <2>5, <3>1, <4>1, <4>2
    <3>2. CASE k # 1
      <4>1. k - 1 \in Setting(f)' /\ sending'[k - 1] = sending[k]
        BY <1>3, <2>2, <2>5, <3>2
      <4>2. \A j \in Setting(f)' : j <= k - 1
        BY <1>1, <2>1, <2>2, <2>5
      <4> QED
        BY <2>5, <4>1, <4>2
    <3> QED
      BY <3>1, <3>2
  <2> QED
    BY <1>7, <2>4, <2>5 DEF PositionSaid
<1>8. ASSUME Saids PROVE Saids'
  <2>1. finished' \/ step' = "goal sent" => GoalOut'
    BY <1>2, <1>4, <1>8 DEF Saids
  <2>2. \A s \in sentScans' \cup listed' : ScanOut(s)'
    BY <1>2, <1>5, <1>8 DEF Saids
  <2> QED
    BY <2>1, <2>2 DEF Saids
<1> QED
  BY <1>2, <1>6, <1>7, <1>8 DEF SaidInv

LEMMA SaidPosition ==
  ASSUME WellTyped, SaidInv, SendPosition
  PROVE  SaidInv'
<1> DEFINE now     == Reading(place)
           changed == {f \in {"mlvl", "room"} : now[f] # lastSent[f]}
           m       == [cmd |-> "Set", position |-> [f \in changed |-> now[f]]]
<1>1. UNCHANGED <<link, raced, stored, reported, hinted, finished, sentScans, listed>>
      /\ step = "position" /\ step' \in {"hints", "position sent"}
  BY DEF SendPosition, TickOnly, serverVars, bounds, hudVars
<1>2. listed = {} /\ listed' = {}
  BY <1>1 DEF SaidInv
<1>3. CASE UNCHANGED <<lastSent, sending>>
  BY <1>1, <1>2, <1>3, QuietSaid
<1>4. CASE lastSent' = now /\ sending' = Sent(m) /\ place # "menu"
  <2>1. m \in Reports
    BY ReportsMade
  <2>2. CASE link # "up"
    BY <1>1, <1>2, <2>2 DEF SaidInv
  <2>3. CASE link = "up"
    <3>1. sending' = Append(sending, m)
      BY <1>4, <2>3 DEF Sent
    <3>2. Saids => Saids'
      BY <1>1, <1>2, <2>1, <3>1, StaysOut DEF Saids
    <3>3. \A f \in {"mlvl", "room"} : now[f] # Nowhere[f]
      <4>1. place \in {"hall", "waste", "vault", "controller", "ending", "beyond"}
        BY <1>4 DEF WellTyped, Places, Rooms
      <4>2. now.mlvl # "none" /\ now.room[1] # "none"
        BY <4>1 DEF Reading, At
      <4>3. Nowhere.mlvl = "none" /\ Nowhere.room[1] = "none"
        BY DEF Nowhere, At
      <4> QED
        BY <4>2, <4>3
    <3>4. m.cmd = "Set" /\ DOMAIN m.position = changed /\ \A f \in changed : m.position[f] = now[f]
      OBVIOUS
    <3>5. \A f \in {"mlvl", "room"} : f \in changed \/ now[f] = lastSent[f]
      OBVIOUS
    <3> HIDE DEF m, now, changed
    <3>6. /\ Len(sending) \in Nat /\ DOMAIN sending = 1 .. Len(sending)
          /\ DOMAIN sending' = 1 .. Len(sending) + 1
          /\ \A k \in 1 .. Len(sending) : sending'[k] = sending[k]
          /\ sending'[Len(sending) + 1] = m
      BY <2>1, <3>1, Longer
    <3>7. ASSUME NEW f \in {"mlvl", "room"}
          PROVE  \/ Setting(f)' = {} /\ stored'[f] = lastSent'[f]
                 \/ \E k \in Setting(f)' : sending'[k].position[f] = lastSent'[f]
                                          /\ \A j \in Setting(f)' : j <= k
      <4>1. CASE f \in changed
        <5>1. Len(sending) + 1 \in Setting(f)'
          BY <3>4, <3>6, <4>1 DEF Setting
        <5>2. \A j \in Setting(f)' : j <= Len(sending) + 1
          BY <3>6 DEF Setting
        <5>3. sending'[Len(sending) + 1].position[f] = lastSent'[f]
          BY <1>4, <3>4, <3>6, <4>1
        <5> QED
          BY <5>1, <5>2, <5>3
      <4>2. CASE f \notin changed
        <5>1. lastSent[f] = now[f] /\ lastSent # Nowhere
          BY <3>3, <3>5, <4>2
        <5>2. \/ Setting(f) = {} /\ stored[f] = lastSent[f]
              \/ \E k \in Setting(f) : sending[k].position[f] = lastSent[f] /\ \A j \in Setting(f) : j <= k
          BY <2>3, <5>1 DEF SaidInv, PositionSaid
        <5>3. Setting(f)' = Setting(f)
          BY <3>4, <3>6, <4>2 DEF Setting
        <5>4. \A k \in Setting(f) : sending'[k] = sending[k]
          BY <3>6 DEF Setting
        <5> QED
          BY <1>1, <1>4, <5>1, <5>2, <5>3, <5>4
      <4> QED
        BY <4>1, <4>2
    <3>8. PositionSaid'
      BY <3>7 DEF PositionSaid
    <3> QED
      BY <1>1, <1>2, <2>3, <3>2, <3>8 DEF SaidInv
  <2> QED
    BY <2>2, <2>3
<1> QED
  <2>1. UNCHANGED <<lastSent, sending>> \/ (lastSent' = now /\ sending' = Sent(m) /\ place # "menu")
    BY DEF SendPosition
  <2> QED
    BY <1>3, <1>4, <2>1

LEMMA SaidGoal ==
  ASSUME WellTyped, SaidInv, CheckGoal
  PROVE  SaidInv'
<1>1. /\ step = "sleep" /\ step' \in {"goal sent", "guard"}
      /\ UNCHANGED <<link, raced, stored, lastSent, reported, hinted, finished, sentScans, listed>>
      /\ (step' = "guard" /\ sending' = sending) \/ (step' = "goal sent" /\ sending' = Sent(StatusUpdate))
  BY DEF CheckGoal, TickOnly, serverVars, bounds, hudVars
<1>2. listed = {} /\ listed' = {}
  BY <1>1 DEF SaidInv
<1>3. CASE step' = "guard" /\ sending' = sending
  BY <1>1, <1>2, <1>3, QuietSaid
<1>4. CASE step' = "goal sent" /\ sending' = Sent(StatusUpdate) /\ link = "up"
  <2> DEFINE m == StatusUpdate
  <2>1. m \in Reports /\ sending' = Append(sending, m) /\ m.cmd # "Set"
    BY <1>4, ReportsMade DEF Sent, StatusUpdate
  <2> HIDE DEF m
  <2>2. PositionSaid'
    BY <1>1, <1>4, <2>1, OthersKeepPosition DEF SaidInv
  <2>3. GoalOut'
    BY <2>1, Longer DEF GoalOut, m
  <2>4. ASSUME Saids PROVE Saids'
    <3>1. \A x \in sentScans' \cup listed' : ScanOut(x)'
      BY <1>1, <2>1, <2>4, StaysOut DEF Saids
    <3> QED
      BY <2>3, <3>1 DEF Saids
  <2>5. link' = "up" => PositionSaid' /\ (raced' \/ Saids')
    BY <1>1, <1>4, <2>2, <2>4 DEF SaidInv
  <2> QED
    BY <1>1, <1>2, <2>5 DEF SaidInv
<1>5. CASE link # "up"
  BY <1>1, <1>2, <1>5 DEF SaidInv
<1> QED
  BY <1>1, <1>3, <1>4, <1>5

LEMMA SaidHints ==
  ASSUME WellTyped, SaidInv, SendHints
  PROVE  SaidInv'
<1> DEFINE scans == IF place = "menu" THEN {} ELSE scanned \ sentScans
           m     == [cmd |-> "CreateHints", scans |-> scans]
<1>1. /\ step = "hints"
      /\ UNCHANGED <<link, raced, stored, lastSent, reported, hinted, finished, sentScans>>
  BY DEF SendHints, TickOnly, serverVars, bounds, clientVars, hudVars
<1>2. listed = {}
  BY <1>1 DEF SaidInv
<1>3. CASE step' = "sleep" /\ UNCHANGED <<sending, listed>>
  BY <1>1, <1>2, <1>3, QuietSaid
<1>4. CASE listed' = scans /\ sending' = Sent(m) /\ step' = "hints sent"
  <2>1. m \in Reports /\ m.cmd = "CreateHints" /\ m.scans = scans
    <3>1. scans \in SUBSET script.scans
      BY DEF WellTyped, ScansKnown
    <3> HIDE DEF scans
    <3> QED
      BY <3>1, ReportsMade
  <2> HIDE DEF m, scans
  <2>2. CASE link = "up"
    <3>1. sending' = Append(sending, m)
      BY <1>4, <2>2 DEF Sent
    <3>2. PositionSaid'
      BY <1>1, <2>1, <2>2, <3>1, OthersKeepPosition DEF SaidInv
    <3>3. ASSUME Saids PROVE Saids'
      <4>1. finished' \/ step' = "goal sent" => GoalOut'
        BY <1>1, <1>4, <2>1, <3>1, <3>3, StaysOut DEF Saids
      <4>2. ASSUME NEW x \in sentScans PROVE ScanOut(x)'
        BY <1>1, <2>1, <3>1, <3>3, StaysOut DEF Saids
      <4>3. ASSUME NEW x \in scans PROVE ScanOut(x)'
        <5>1. Len(sending) + 1 \in DOMAIN sending' /\ sending'[Len(sending) + 1] = m
          BY <2>1, <3>1, Longer
        <5> QED
          BY <2>1, <5>1 DEF ScanOut
      <4>4. \A x \in sentScans' \cup listed' : ScanOut(x)'
        BY <1>1, <1>4, <4>2, <4>3
      <4> QED
        BY <4>1, <4>4 DEF Saids
    <3>4. link' = "up" => PositionSaid' /\ (raced' \/ Saids')
      BY <1>1, <2>2, <3>2, <3>3 DEF SaidInv
    <3> QED
      BY <1>1, <1>4, <3>4 DEF SaidInv
  <2>3. CASE link # "up"
    BY <1>1, <1>4, <2>3 DEF SaidInv
  <2> QED
    BY <2>2, <2>3
<1> QED
  <2>1. \/ step' = "sleep" /\ UNCHANGED <<sending, listed>>
        \/ listed' = scans /\ sending' = Sent(m) /\ step' = "hints sent"
    BY DEF SendHints
  <2> QED
    BY <1>3, <1>4, <2>1

LEMMA SaidConnected ==
  ASSUME WellTyped, SaidInv, Connected
  PROVE  SaidInv'
<1>1. /\ sending' = IF finished THEN <<StatusUpdate>> ELSE <<>>
      /\ lastSent' = Nowhere /\ sentScans' = {} /\ raced' = (raced \/ step \in {"goal sent", "hints sent"})
      /\ UNCHANGED <<finished, step, listed, stored>>
  BY DEF Connected, tickVars, serverVars
<1>2. PositionSaid'
  BY <1>1 DEF PositionSaid
<1>3. ASSUME ~raced' PROVE Saids'
  <2>1. step # "goal sent" /\ listed = {}
    BY <1>1, <1>3 DEF SaidInv
  <2>2. ASSUME finished PROVE GoalOut'
    <3>1. 1 \in DOMAIN sending' /\ sending'[1] = StatusUpdate
      <4>1. sending' = <<StatusUpdate>>
        BY <1>1, <2>2
      <4> QED
        BY <4>1
    <3> QED
      BY <3>1 DEF GoalOut
  <2>3. sentScans' \cup listed' = {}
    BY <1>1, <2>1
  <2> QED
    BY <1>1, <2>1, <2>2, <2>3 DEF Saids
<1> QED
  BY <1>1, <1>2, <1>3 DEF SaidInv

LEMMA SaidKept == WellTyped /\ SaidInv /\ [Next]_vars => SaidInv'
<1> SUFFICES ASSUME WellTyped, SaidInv, [Next]_vars PROVE SaidInv'
  OBVIOUS
<1> USE DEF vars, gameVars, linkVars, serverVars, tickVars, clientVars, hudVars, bounds, history,
            GameOnly, TickOnly
<1>1. CASE \/ Game \/ ItemsArrive \/ SkipTick \/ ShowMessage \/ GrantItems \/ PositionSent
           \/ SendRaises \/ TimePasses \/ UNCHANGED vars
  <2>1. UNCHANGED <<link, sending, reported, hinted, stored, finished, sentScans, lastSent, raced>>
    BY <1>1 DEF Game, Walk, Scan, RunBody, Complete, WarpToCredits, LeaveWorld, LoadSave, ItemsArrive,
                SkipTick, ShowMessage, GrantItems, PositionSent, SendRaises, TimePasses, GroupWindowEnds, CoolDown
  <2>2. /\ listed' = {} \/ (listed' = listed /\ (step' = step \/ step # "hints sent"))
        /\ step' = "goal sent" => step = "goal sent"
    BY <1>1 DEF Game, Walk, Scan, RunBody, Complete, WarpToCredits, LeaveWorld, LoadSave, ItemsArrive,
                SkipTick, ShowMessage, GrantItems, PositionSent, SendRaises, TimePasses, GroupWindowEnds, CoolDown, Free
  <2>3. listed' = {} \/ (listed' = listed /\ step' = step)
    BY <2>2 DEF SaidInv
  <2> QED
    BY <2>1, <2>2, <2>3, QuietSaid
<1>2. CASE Lose \/ NoticeLoss
  <2>1. link' # "up" /\ UNCHANGED <<stored, listed, step>>
    BY <1>2 DEF Lose, NoticeLoss
  <2> QED
    BY <2>1 DEF SaidInv
<1>3. CASE GoalSent
  <2>1. /\ step = "goal sent" /\ step' = "guard" /\ finished' = TRUE
        /\ UNCHANGED <<link, sending, reported, hinted, stored, sentScans, lastSent, raced, listed>>
    BY <1>3 DEF GoalSent
  <2>2. listed = {}
    BY <2>1 DEF SaidInv
  <2>3. PositionSaid' <=> PositionSaid
    BY <2>1 DEF PositionSaid, Setting
  <2>4. ASSUME Saids PROVE Saids'
    <3>1. GoalOut'
      BY <2>1, <2>4 DEF Saids, GoalOut
    <3>2. \A x \in sentScans' \cup listed' : ScanOut(x)'
      <4>1. ASSUME NEW x PROVE ScanOut(x)' <=> ScanOut(x)
        BY <2>1 DEF ScanOut
      <4> QED
        BY <2>1, <2>4, <4>1 DEF Saids
    <3> QED
      BY <3>1, <3>2 DEF Saids
  <2>5. link' = "up" => PositionSaid' /\ (raced' \/ Saids')
    BY <2>1, <2>3, <2>4 DEF SaidInv
  <2> QED
    BY <2>1, <2>2, <2>5 DEF SaidInv
<1>4. CASE HintsSent
  <2>1. /\ step = "hints sent" /\ step' = "sleep" /\ sentScans' = sentScans \cup listed /\ listed' = {}
        /\ UNCHANGED <<link, sending, reported, hinted, stored, finished, lastSent, raced>>
    BY <1>4 DEF HintsSent
  <2>2. PositionSaid' <=> PositionSaid
    BY <2>1 DEF PositionSaid, Setting
  <2>3. ASSUME Saids PROVE Saids'
    <3>1. finished' \/ step' = "goal sent" => GoalOut'
      BY <2>1, <2>3 DEF Saids, GoalOut
    <3>2. \A x \in sentScans' \cup listed' : ScanOut(x)'
      <4>1. ASSUME NEW x PROVE ScanOut(x)' <=> ScanOut(x)
        BY <2>1 DEF ScanOut
      <4> QED
        BY <2>1, <2>3, <4>1 DEF Saids
    <3> QED
      BY <3>1, <3>2 DEF Saids
  <2>4. link' = "up" => PositionSaid' /\ (raced' \/ Saids')
    BY <2>1, <2>2, <2>3 DEF SaidInv
  <2> QED
    BY <2>1, <2>4 DEF SaidInv
<1> QED
  BY <1>1, <1>2, <1>3, <1>4, SaidConnected, SaidDelivered, SaidGoal, SaidPosition, SaidHints
     DEF Next, Link, Callbacks, Tick

LEMMA SaidInit == Init => SaidInv
<1> SUFFICES ASSUME Init PROVE SaidInv
  OBVIOUS
<1>1. stored = Nowhere /\ listed = {} /\ link = "down"
  BY DEF Init
<1>2. DOMAIN Nowhere = {"mlvl", "room"}
  BY DEF Nowhere, At
<1> QED
  BY <1>1, <1>2 DEF SaidInv

\* finished_game, sent_hint_scans and last_sent_*: while a connection is up, all
\* that the client will not send again is with the server or on its way, but for
\* sessions in which a new connection came between a report and its record.
THEOREM NothingSaidIsLost == Spec => []TakenForSaid
<1>1. SaidInv => TakenForSaid
  <2>1. GoalOut => reported \/ StatusUpdate \in OnTheWay
    BY DEF GoalOut, OnTheWay
  <2>2. ASSUME NEW x, ScanOut(x)
        PROVE  x \in hinted \cup UNION {m.scans : m \in {y \in OnTheWay : y.cmd = "CreateHints"}}
    <3>1. CASE x \in hinted
      BY <3>1
    <3>2. ASSUME NEW k \in DOMAIN sending, sending[k].cmd = "CreateHints", x \in sending[k].scans
          PROVE  x \in UNION {m.scans : m \in {y \in OnTheWay : y.cmd = "CreateHints"}}
      BY <3>2 DEF OnTheWay
    <3> QED
      BY <2>2, <3>1, <3>2 DEF ScanOut
  <2>3. Saids => GoalSaid /\ ScansSaid
    BY <2>1, <2>2 DEF Saids, GoalSaid, ScansSaid
  <2> QED
    BY <2>3 DEF SaidInv, TakenForSaid
<1> QED
  BY <1>1, SaidInit, SaidKept, ReportsTypeCorrect, PTL DEF Spec

\* What the server is told is true, and what the client takes for told is told.
THEOREM ReportsAreTruthful == Spec => []ReportsTruthful
<1>1. GoalNotSpurious /\ TakenForSaid => ReportsTruthful
  BY DEF ReportsTruthful
<1> QED
  BY <1>1, GoalReportedTruly, NothingSaidIsLost, PTL

-----------------------------------------------------------------------------
(* The HUD queue.  A line is in one message at most, and what is queued    *)
(* for an item adds one to its line and to no other.                       *)

Names  == {Item(i) : i \in DOMAIN script.incoming}
Froms  == {Sender(i) : i \in DOMAIN script.incoming} \cup {"goal"}
Counts == UNION {[named -> Nat] : named \in SUBSET Names}

Messages == [from : Froms, lines : Counts, ready : BOOLEAN]

OneEach(q) == \A l : \A j, k \in Naming(q, l) : j = k

LEMMA InQueueAt ==
  ASSUME NEW q, NEW l, NEW k \in Naming(q, l), OneEach(q)
  PROVE  InQueue(q, l) = q[k].lines[l[2]]
<1>1. (CHOOSE j \in Naming(q, l) : TRUE) = k
  BY DEF OneEach
<1> QED
  BY <1>1 DEF InQueue

LEMMA NamedMessage ==
  ASSUME NEW m \in Messages, NEW item \in Names
  PROVE  /\ Named(m, item) \in Messages
         /\ Named(m, item).from = m.from
         /\ DOMAIN Named(m, item).lines = {item} \cup DOMAIN m.lines
         /\ Named(m, item).lines[item] = 1
         /\ \A x \in DOMAIN m.lines \ {item} : Named(m, item).lines[x] = m.lines[x]
<1>1. PICK S \in SUBSET Names : m.lines \in [S -> Nat]
  BY DEF Messages, Counts
<1> DEFINE f == [x \in {item} \cup DOMAIN m.lines |-> IF x = item THEN 1 ELSE m.lines[x]]
<1>2. f \in [S \cup {item} -> Nat]
  BY <1>1
<1>3. f \in Counts
  BY <1>2 DEF Counts
<1>4. Named(m, item) = [from |-> m.from, lines |-> f, ready |-> m.ready]
  BY DEF Named, Messages
<1>5. DOMAIN f = {item} \cup DOMAIN m.lines /\ f[item] = 1 /\ \A x \in DOMAIN m.lines \ {item} : f[x] = m.lines[x]
  OBVIOUS
<1> HIDE DEF f
<1> QED
  BY <1>3, <1>4, <1>5 DEF Messages

LEMMA CountedMessage ==
  ASSUME NEW m \in Messages, NEW item \in DOMAIN m.lines,
         NEW r, r = [m EXCEPT !.lines[item] = @ + 1]
  PROVE  /\ r \in Messages
         /\ r.from = m.from
         /\ DOMAIN r.lines = DOMAIN m.lines
         /\ r.lines[item] = m.lines[item] + 1
         /\ \A x \in DOMAIN m.lines \ {item} : r.lines[x] = m.lines[x]
<1>1. PICK S \in SUBSET Names : m.lines \in [S -> Nat]
  BY DEF Messages, Counts
<1> DEFINE f == [m.lines EXCEPT ![item] = @ + 1]
<1>2. f \in [S -> Nat] /\ DOMAIN f = DOMAIN m.lines /\ f[item] = m.lines[item] + 1
      /\ \A x \in DOMAIN m.lines \ {item} : f[x] = m.lines[x]
  BY <1>1
<1>3. f \in Counts
  BY <1>2 DEF Counts
<1>4. r = [from |-> m.from, lines |-> f, ready |-> m.ready]
  BY DEF Messages
<1> HIDE DEF f
<1> QED
  BY <1>2, <1>3, <1>4 DEF Messages

\* The k-th message takes an item: the one that names it, one of the sender's
\* that does not name it yet, or a new one at the end.
TakenAt(k, q, r, item, from) ==
  /\ DOMAIN q \subseteq DOMAIN r /\ DOMAIN r \subseteq DOMAIN q \cup {k}
  /\ \A j \in DOMAIN q \ {k} : r[j] = q[j]
  /\ r[k].from = from /\ item \in DOMAIN r[k].lines
  /\ Naming(q, <<from, item>>) \subseteq {k}
  /\ \A x \in DOMAIN r[k].lines \ {item} :
       k \in DOMAIN q /\ x \in DOMAIN q[k].lines /\ r[k].lines[x] = q[k].lines[x]
  /\ k \in DOMAIN q => q[k].from = from /\ DOMAIN q[k].lines \subseteq DOMAIN r[k].lines
  /\ r[k].lines[item] = (IF k \in Naming(q, <<from, item>>) THEN q[k].lines[item] ELSE 0) + 1

LEMMA Taken ==
  ASSUME NEW q \in Seq(Messages), OneEach(q), NEW item \in Names, NEW from \in Froms,
         NEW r, r = QueueReceived(q, item, from)
  PROVE  r \in Seq(Messages) /\ \E k \in DOMAIN r : TakenAt(k, q, r, item, from)
<1> DEFINE entries == {k \in DOMAIN q : q[k].from = from}
           naming  == {k \in entries : item \in DOMAIN q[k].lines}
           l       == <<from, item>>
<1>1. naming = Naming(q, l)
  BY DEF Naming
<1>2. \A j, k \in naming : j = k
  <2>1. \A j, k \in Naming(q, l) : j = k
    BY Zenon DEF OneEach
  <2> QED
    BY <1>1, <2>1, Zenon
<1>3. CASE naming # {}
  <2>1. PICK k \in naming : TRUE
    BY <1>3
  <2>2. Sets!Min(naming) = k
    <3>1. \A y \in naming : k <= y
      BY <1>2, <2>1
    <3>2. \A x \in naming : x = k
      BY <1>2, <2>1
    <3> HIDE DEF naming
    <3> QED
      BY <2>1, <3>1, <3>2 DEF Sets!Min
  <2>3. r = [q EXCEPT ![k].lines[item] = @ + 1]
    BY <1>3, <2>2 DEF QueueReceived
  <2>4. k \in DOMAIN q /\ q[k] \in Messages /\ item \in DOMAIN q[k].lines /\ q[k].from = from
    BY <2>1
  <2> DEFINE m == [q[k] EXCEPT !.lines[item] = @ + 1]
  <2>5. r = [q EXCEPT ![k] = m]
    BY <2>3
  <2>6. /\ m \in Messages /\ m.from = from /\ DOMAIN m.lines = DOMAIN q[k].lines
        /\ m.lines[item] = q[k].lines[item] + 1
        /\ \A x \in DOMAIN q[k].lines \ {item} : m.lines[x] = q[k].lines[x]
    BY <2>4, CountedMessage
  <2> HIDE DEF m
  <2>7. r \in Seq(Messages) /\ DOMAIN r = DOMAIN q /\ r[k] = m /\ \A j \in DOMAIN q \ {k} : r[j] = q[j]
    BY <2>4, <2>5, <2>6
  <2>8. Naming(q, l) \subseteq {k} /\ k \in Naming(q, l)
    BY <1>1, <1>2, <2>1
  <2>9. TakenAt(k, q, r, item, from)
    BY <2>4, <2>6, <2>7, <2>8 DEF TakenAt
  <2> QED
    BY <2>4, <2>7, <2>9
<1>4. ASSUME naming = {}, NEW k \in entries, r = [q EXCEPT ![k] = Named(@, item)]
      PROVE  /\ r \in Seq(Messages) /\ k \in DOMAIN r /\ DOMAIN r = DOMAIN q
             /\ \A j \in DOMAIN q \ {k} : r[j] = q[j]
             /\ r[k].from = from /\ q[k].from = from /\ DOMAIN r[k].lines = {item} \cup DOMAIN q[k].lines
             /\ r[k].lines[item] = 1
             /\ \A x \in DOMAIN q[k].lines \ {item} : r[k].lines[x] = q[k].lines[x]
  <2>1. q[k] \in Messages /\ q[k].from = from
    OBVIOUS
  <2> DEFINE m == Named(q[k], item)
  <2>2. /\ m \in Messages /\ m.from = from /\ DOMAIN m.lines = {item} \cup DOMAIN q[k].lines
        /\ m.lines[item] = 1
        /\ \A x \in DOMAIN q[k].lines \ {item} : m.lines[x] = q[k].lines[x]
    BY <2>1, NamedMessage
  <2>3. r = [q EXCEPT ![k] = m]
    BY <1>4
  <2> HIDE DEF m
  <2>4. r \in Seq(Messages) /\ DOMAIN r = DOMAIN q /\ r[k] = m /\ \A j \in DOMAIN q \ {k} : r[j] = q[j]
    BY <2>2, <2>3
  <2> QED
    BY <2>1, <2>2, <2>4
<1>5. ASSUME naming = {}, r = Append(q, Named([from |-> from, lines |-> <<>>, ready |-> FALSE], item))
      PROVE  /\ r \in Seq(Messages) /\ DOMAIN r = DOMAIN q \cup {Len(q) + 1}
             /\ Len(q) + 1 \notin DOMAIN q
             /\ \A j \in DOMAIN q : r[j] = q[j]
             /\ r[Len(q) + 1].from = from /\ DOMAIN r[Len(q) + 1].lines = {item}
             /\ r[Len(q) + 1].lines[item] = 1
  <2> DEFINE blank == [from |-> from, lines |-> <<>>, ready |-> FALSE]
             m     == Named(blank, item)
  <2>1. <<>> \in [{} -> Nat] /\ DOMAIN <<>> = {}
    OBVIOUS
  <2>2. blank \in Messages /\ blank.from = from /\ DOMAIN blank.lines = {}
    <3>1. <<>> \in Counts
      BY <2>1 DEF Counts
    <3> QED
      BY <2>1, <3>1 DEF Messages
  <2> HIDE DEF blank
  <2>3. m \in Messages /\ m.from = from /\ DOMAIN m.lines = {item} /\ m.lines[item] = 1
    BY <2>2, NamedMessage
  <2>4. r = Append(q, m)
    BY <1>5 DEF blank
  <2> HIDE DEF m
  <2> QED
    BY <2>3, <2>4
<1>6. CASE naming = {}
  <2>1. \/ \E k \in entries : r = [q EXCEPT ![k] = Named(@, item)]
        \/ r = Append(q, Named([from |-> from, lines |-> <<>>, ready |-> FALSE], item))
    <3>1. CASE \E k \in entries : k = Sets!Max(entries) /\ Cardinality(DOMAIN q[k].lines) < NamesPerMessage
      <4>1. PICK k \in entries : k = Sets!Max(entries) /\ Cardinality(DOMAIN q[k].lines) < NamesPerMessage
        BY <3>1
      <4>2. r = [q EXCEPT ![Sets!Max(entries)] = Named(@, item)]
        BY <1>6, <3>1 DEF QueueReceived
      <4> QED
        BY <4>1, <4>2
    <3>2. CASE ~ \E k \in entries : k = Sets!Max(entries) /\ Cardinality(DOMAIN q[k].lines) < NamesPerMessage
      BY <1>6, <3>2 DEF QueueReceived
    <3> QED
      BY <3>1, <3>2
  <2>2. Naming(q, l) = {}
    BY <1>1, <1>6
  <2> HIDE DEF naming, l
  <2>3. ASSUME NEW k \in entries, r = [q EXCEPT ![k] = Named(@, item)]
        PROVE  r \in Seq(Messages) /\ \E j \in DOMAIN r : TakenAt(j, q, r, item, from)
    <3>1. /\ r \in Seq(Messages) /\ k \in DOMAIN r /\ DOMAIN r = DOMAIN q
          /\ \A j \in DOMAIN q \ {k} : r[j] = q[j]
          /\ r[k].from = from /\ q[k].from = from /\ DOMAIN r[k].lines = {item} \cup DOMAIN q[k].lines
          /\ r[k].lines[item] = 1
          /\ \A x \in DOMAIN q[k].lines \ {item} : r[k].lines[x] = q[k].lines[x]
      BY <1>4, <1>6, <2>3
    <3>2. TakenAt(k, q, r, item, from)
      BY <2>2, <3>1 DEF TakenAt, l
    <3> QED
      BY <3>1, <3>2
  <2>4. ASSUME r = Append(q, Named([from |-> from, lines |-> <<>>, ready |-> FALSE], item))
        PROVE  r \in Seq(Messages) /\ \E j \in DOMAIN r : TakenAt(j, q, r, item, from)
    <3>1. /\ r \in Seq(Messages) /\ DOMAIN r = DOMAIN q \cup {Len(q) + 1}
          /\ Len(q) + 1 \notin DOMAIN q
          /\ \A j \in DOMAIN q : r[j] = q[j]
          /\ r[Len(q) + 1].from = from /\ DOMAIN r[Len(q) + 1].lines = {item}
          /\ r[Len(q) + 1].lines[item] = 1
      BY <1>5, <1>6, <2>4
    <3> DEFINE last == Len(q) + 1
    <3>2. last \in DOMAIN r
      BY <3>1
    <3>3. TakenAt(last, q, r, item, from)
      BY <2>2, <3>1 DEF TakenAt, l
    <3> QED
      BY <3>1, <3>2, <3>3
  <2> HIDE DEF entries
  <2> QED
    BY <2>1, <2>3, <2>4
<1> HIDE DEF naming
<1> QED
  BY <1>3, <1>6

LEMMA Received ==
  ASSUME NEW q \in Seq(Messages), OneEach(q), NEW item \in Names, NEW from \in Froms,
         NEW r, r = QueueReceived(q, item, from)
  PROVE  /\ r \in Seq(Messages) /\ OneEach(r)
         /\ InQueue(r, <<from, item>>) = InQueue(q, <<from, item>>) + 1
         /\ \A l : l[1] # from \/ l[2] # item => InQueue(r, l) = InQueue(q, l)
<1> DEFINE own == <<from, item>>
<1>0. own[1] = from /\ own[2] = item
  OBVIOUS
<1> HIDE DEF own
<1>1. r \in Seq(Messages)
  BY Taken
<1>2. PICK k \in DOMAIN r : TakenAt(k, q, r, item, from)
  BY Taken
<1>3. Naming(q, own) \subseteq {k}
  BY <1>2 DEF TakenAt, own
<1>4. Naming(r, own) = {k}
  <2>1. k \in Naming(r, own)
    BY <1>0, <1>2 DEF TakenAt, Naming
  <2>2. \A j \in Naming(r, own) : j = k
    <3> SUFFICES ASSUME NEW j \in Naming(r, own), j # k PROVE FALSE
      OBVIOUS
    <3>1. j \in DOMAIN q /\ r[j] = q[j]
      BY <1>2 DEF TakenAt, Naming
    <3>2. j \in Naming(q, own)
      BY <3>1 DEF Naming
    <3> QED
      BY <1>3, <3>2
  <2> QED
    BY <2>1, <2>2
<1>5. ASSUME NEW l, l[1] # from \/ l[2] # item PROVE Naming(r, l) = Naming(q, l)
  <2>1. ASSUME NEW j \in Naming(r, l) PROVE j \in Naming(q, l)
    <3>1. CASE j = k
      <4>1. r[k].from = l[1] /\ l[2] \in DOMAIN r[k].lines /\ r[k].from = from
        BY <1>2, <2>1, <3>1 DEF Naming, TakenAt
      <4>2. k \in DOMAIN q /\ l[2] \in DOMAIN q[k].lines
        BY <1>2, <1>5, <4>1 DEF TakenAt
      <4>3. q[k].from = from
        BY <1>2, <4>2 DEF TakenAt
      <4> QED
        BY <3>1, <4>1, <4>2, <4>3 DEF Naming
    <3>2. CASE j # k
      BY <1>2, <2>1, <3>2 DEF Naming, TakenAt
    <3> QED
      BY <3>1, <3>2
  <2>2. ASSUME NEW j \in Naming(q, l) PROVE j \in Naming(r, l)
    BY <1>2, <2>2 DEF Naming, TakenAt
  <2> QED
    BY <2>1, <2>2
<1>6. OneEach(r)
  <2> SUFFICES ASSUME NEW l, NEW i \in Naming(r, l), NEW j \in Naming(r, l) PROVE i = j
    BY DEF OneEach
  <2>1. CASE l[1] = from /\ l[2] = item
    <3>1. Naming(r, l) = Naming(r, own)
      BY <1>0, <2>1 DEF Naming
    <3> QED
      BY <1>4, <3>1
  <2>2. CASE l[1] # from \/ l[2] # item
    BY <1>5, <2>2 DEF OneEach
  <2> QED
    BY <2>1, <2>2
<1>7. InQueue(r, own) = InQueue(q, own) + 1
  <2>1. InQueue(r, own) = r[k].lines[item]
    BY <1>0, <1>4, <1>6, InQueueAt
  <2>2. r[k].lines[item] = (IF k \in Naming(q, own) THEN q[k].lines[item] ELSE 0) + 1
    BY <1>2 DEF TakenAt, own
  <2>3. CASE k \in Naming(q, own)
    <3>1. InQueue(q, own) = q[k].lines[item]
      BY <1>0, <2>3, InQueueAt
    <3> QED
      BY <2>1, <2>2, <2>3, <3>1
  <2>4. CASE k \notin Naming(q, own)
    <3>1. InQueue(q, own) = 0
      BY <1>3, <2>4 DEF InQueue
    <3> QED
      BY <2>1, <2>2, <2>4, <3>1
  <2> QED
    BY <2>3, <2>4
<1>8. ASSUME NEW l, l[1] # from \/ l[2] # item PROVE InQueue(r, l) = InQueue(q, l)
  <2>1. Naming(r, l) = Naming(q, l)
    BY <1>5, <1>8
  <2>2. CASE Naming(q, l) = {}
    BY <2>1, <2>2 DEF InQueue
  <2>3. CASE Naming(q, l) # {}
    <3>1. PICK j \in Naming(q, l) : TRUE
      BY <2>3
    <3>2. InQueue(q, l) = q[j].lines[l[2]] /\ InQueue(r, l) = r[j].lines[l[2]]
      BY <1>6, <2>1, <3>1, InQueueAt
    <3>3. j \in DOMAIN q /\ q[j].from = l[1] /\ l[2] \in DOMAIN q[j].lines
          /\ r[j].from = l[1] /\ l[2] \in DOMAIN r[j].lines
      BY <2>1, <3>1 DEF Naming
    <3>4. r[j].lines[l[2]] = q[j].lines[l[2]]
      <4>1. CASE j = k
        <5>1. l[2] \in DOMAIN r[k].lines \ {item}
          BY <1>2, <1>8, <3>3, <4>1 DEF TakenAt
        <5> QED
          BY <1>2, <4>1, <5>1 DEF TakenAt
      <4>2. CASE j # k
        BY <1>2, <3>3, <4>2 DEF TakenAt
      <4> QED
        BY <4>1, <4>2
    <3> QED
      BY <3>2, <3>4
  <2> QED
    BY <2>2, <2>3
<1> QED
  BY <1>1, <1>6, <1>7, <1>8 DEF own

LEMMA InQueueNat ==
  ASSUME NEW q \in Seq(Messages), NEW l
  PROVE  InQueue(q, l) \in Nat
<1>1. CASE Naming(q, l) = {}
  BY <1>1 DEF InQueue
<1>2. CASE Naming(q, l) # {}
  <2> DEFINE k == CHOOSE j \in Naming(q, l) : TRUE
  <2>1. k \in Naming(q, l) /\ InQueue(q, l) = q[k].lines[l[2]]
    BY <1>2 DEF InQueue
  <2> HIDE DEF k
  <2>2. k \in DOMAIN q /\ l[2] \in DOMAIN q[k].lines /\ q[k] \in Messages
    BY <2>1 DEF Naming
  <2>3. q[k].lines \in Counts
    BY <2>2 DEF Messages
  <2>4. PICK S \in SUBSET Names : q[k].lines \in [S -> Nat]
    BY <2>3 DEF Counts
  <2> QED
    BY <2>1, <2>2, <2>4
<1> QED
  BY <1>1, <1>2

\* Two queues that say the same, message by message.
LEMMA SameSaid ==
  ASSUME NEW q, NEW r, DOMAIN q \subseteq DOMAIN r,
         \A k \in DOMAIN q : r[k].from = q[k].from /\ r[k].lines = q[k].lines,
         \A k \in DOMAIN r \ DOMAIN q : DOMAIN r[k].lines = {}
  PROVE  /\ OneEach(q) => OneEach(r)
         /\ \A l : InQueue(r, l) = InQueue(q, l)
<1>1. ASSUME NEW l PROVE Naming(r, l) = Naming(q, l)
  <2>1. Naming(r, l) \subseteq DOMAIN q
    BY DEF Naming
  <2> QED
    BY <2>1 DEF Naming
<1>2. OneEach(q) => OneEach(r)
  BY <1>1 DEF OneEach
<1>3. ASSUME NEW l PROVE InQueue(r, l) = InQueue(q, l)
  <2>1. Naming(r, l) = Naming(q, l)
    BY <1>1
  <2>2. CASE Naming(q, l) = {}
    BY <2>1, <2>2 DEF InQueue
  <2>3. CASE Naming(q, l) # {}
    <3> DEFINE k == CHOOSE j \in Naming(q, l) : TRUE
    <3>1. k \in Naming(q, l)
      BY <2>3
    <3>2. InQueue(q, l) = q[k].lines[l[2]] /\ InQueue(r, l) = r[k].lines[l[2]]
      BY <2>1, <2>3 DEF InQueue
    <3> HIDE DEF k
    <3>3. k \in DOMAIN q
      BY <3>1 DEF Naming
    <3> QED
      BY <3>2, <3>3
  <2> QED
    BY <2>2, <2>3
<1> QED
  BY <1>2, <1>3

\* Showing the first message takes what it says from the queue.
LEMMA FirstShown ==
  ASSUME NEW q \in Seq(Messages), q # <<>>, OneEach(q)
  PROVE  /\ Tail(q) \in Seq(Messages) /\ OneEach(Tail(q))
         /\ \A l : InQueue(q, l) = InQueue(Tail(q), l)
                     + (IF l[1] = Head(q).from /\ l[2] \in DOMAIN Head(q).lines
                        THEN Head(q).lines[l[2]] ELSE 0)
<1> DEFINE t == Tail(q)
<1>1. /\ t \in Seq(Messages) /\ Head(q) = q[1] /\ 1 \in DOMAIN q
      /\ \A k \in DOMAIN t : k + 1 \in DOMAIN q /\ t[k] = q[k + 1] /\ k + 1 # 1 /\ k \in Nat
      /\ \A k \in DOMAIN q \ {1} : k - 1 \in DOMAIN t /\ k = (k - 1) + 1
  OBVIOUS
<1> HIDE DEF t
<1>2. ASSUME NEW l, NEW k \in Naming(t, l) PROVE k + 1 \in Naming(q, l) /\ k \in Nat /\ k + 1 # 1
  BY <1>1, <1>2 DEF Naming
<1>3. ASSUME NEW l, NEW k \in Naming(q, l), k # 1 PROVE k - 1 \in Naming(t, l) /\ k = (k - 1) + 1
  <2>1. k \in DOMAIN q \ {1} /\ q[k].from = l[1] /\ l[2] \in DOMAIN q[k].lines
    BY <1>3 DEF Naming
  <2>2. k - 1 \in DOMAIN t /\ k = (k - 1) + 1 /\ t[k - 1] = q[k]
    BY <1>1, <2>1
  <2> QED
    BY <2>1, <2>2 DEF Naming
<1>4. OneEach(t)
  <2> SUFFICES ASSUME NEW l, NEW i \in Naming(t, l), NEW j \in Naming(t, l) PROVE i = j
    BY DEF OneEach
  <2>1. i + 1 \in Naming(q, l) /\ j + 1 \in Naming(q, l) /\ i \in Nat /\ j \in Nat
    BY <1>2
  <2>2. i + 1 = j + 1
    BY <2>1 DEF OneEach
  <2> QED
    BY <2>1, <2>2
<1>5. ASSUME NEW l
      PROVE  InQueue(q, l) = InQueue(t, l)
                     + (IF l[1] = Head(q).from /\ l[2] \in DOMAIN Head(q).lines
                        THEN Head(q).lines[l[2]] ELSE 0)
  <2>1. 1 \in Naming(q, l) <=> l[1] = Head(q).from /\ l[2] \in DOMAIN Head(q).lines
    BY <1>1 DEF Naming
  <2>2. InQueue(q, l) \in Nat /\ InQueue(t, l) \in Nat
    BY <1>1, InQueueNat
  <2>3. CASE 1 \in Naming(q, l)
    <3>1. InQueue(q, l) = q[1].lines[l[2]]
      BY <2>3, InQueueAt
    <3>2. Naming(t, l) = {}
      <4> SUFFICES ASSUME NEW k \in Naming(t, l) PROVE FALSE
        OBVIOUS
      <4>1. k + 1 \in Naming(q, l) /\ k + 1 # 1
        BY <1>2
      <4> QED
        BY <2>3, <4>1 DEF OneEach
    <3>3. InQueue(t, l) = 0
      BY <3>2 DEF InQueue
    <3> QED
      BY <1>1, <2>1, <2>2, <2>3, <3>1, <3>3
  <2>4. CASE 1 \notin Naming(q, l) /\ Naming(q, l) = {}
    <3>1. Naming(t, l) = {}
      BY <1>2, <2>4
    <3> QED
      BY <2>1, <2>4, <3>1 DEF InQueue
  <2>5. CASE 1 \notin Naming(q, l) /\ Naming(q, l) # {}
    <3>1. PICK k \in Naming(q, l) : k # 1
      BY <2>5
    <3>2. k - 1 \in Naming(t, l) /\ k = (k - 1) + 1
      BY <1>3, <3>1
    <3>3. InQueue(q, l) = q[k].lines[l[2]] /\ InQueue(t, l) = t[k - 1].lines[l[2]]
      BY <1>4, <3>1, <3>2, InQueueAt
    <3>4. k - 1 \in DOMAIN t
      BY <3>2 DEF Naming
    <3>5. t[k - 1] = q[(k - 1) + 1]
      BY <1>1, <3>4
    <3>6. t[k - 1] = q[k]
      BY <3>2, <3>5
    <3> QED
      BY <2>1, <2>2, <2>5, <3>3, <3>6
  <2> QED
    BY <2>3, <2>4, <2>5
<1> QED
  BY <1>1, <1>4, <1>5 DEF t

-----------------------------------------------------------------------------
(* Counting the announceable items of a line between two positions.        *)

Saying(l, from, to) == {i \in from .. to : Announceable(i) /\ <<Sender(i), Item(i)>> = l}

LEMMA SayingFinite ==
  ASSUME NEW l, NEW a \in Int, NEW b \in Int
  PROVE  /\ IsFiniteSet(Saying(l, a, b))
         /\ LineCount(l, a, b) = Cardinality(Saying(l, a, b))
         /\ LineCount(l, a, b) \in Nat
<1>1. IsFiniteSet(a .. b)
  BY FS_Interval
<1>2. Saying(l, a, b) \subseteq a .. b
  BY DEF Saying
<1>3. IsFiniteSet(Saying(l, a, b))
  BY <1>1, <1>2, FS_Subset
<1>4. Cardinality(Saying(l, a, b)) \in Nat
  BY <1>3, FS_CardinalityType
<1>5. LineCount(l, a, b) = Cardinality(Saying(l, a, b))
  BY Zenon DEF LineCount, Saying
<1> QED
  BY <1>3, <1>4, <1>5

LEMMA SayingMonotone ==
  ASSUME NEW l, NEW a \in Int, NEW b \in Int, NEW c \in Int, NEW d \in Int,
         Saying(l, a, b) \subseteq Saying(l, c, d)
  PROVE  LineCount(l, a, b) <= LineCount(l, c, d)
<1>1. IsFiniteSet(Saying(l, c, d))
  BY SayingFinite
<1>2. Cardinality(Saying(l, a, b)) <= Cardinality(Saying(l, c, d))
  BY <1>1, FS_Subset
<1> QED
  BY <1>2, SayingFinite

LEMMA LineMonotone ==
  ASSUME NEW l, NEW a \in Int, NEW b \in Int, NEW c \in Int, NEW d \in Int, c <= a, b <= d
  PROVE  LineCount(l, a, b) <= LineCount(l, c, d)
<1>1. Saying(l, a, b) \subseteq Saying(l, c, d)
  BY DEF Saying
<1> QED
  BY <1>1, SayingMonotone

LEMMA LineSplit ==
  ASSUME NEW l, NEW a \in Int, NEW m \in Int, NEW b \in Int, a <= m + 1, m <= b
  PROVE  LineCount(l, a, b) = LineCount(l, a, m) + LineCount(l, m + 1, b)
<1> DEFINE S == Saying(l, a, m)
           T == Saying(l, m + 1, b)
<1>1. IsFiniteSet(S) /\ IsFiniteSet(T)
  BY SayingFinite
<1>2. S \cup T = Saying(l, a, b) /\ S \cap T = {}
  BY DEF Saying
<1> HIDE DEF S, T
<1>3. Cardinality(S \cup T) = Cardinality(S) + Cardinality(T) - Cardinality(S \cap T)
  BY <1>1, FS_Union
<1>4. Cardinality(S \cap T) = 0
  BY <1>2, FS_EmptySet
<1>5. /\ LineCount(l, a, m) = Cardinality(S) /\ LineCount(l, m + 1, b) = Cardinality(T)
      /\ LineCount(l, a, b) = Cardinality(S \cup T)
      /\ LineCount(l, a, m) \in Nat /\ LineCount(l, m + 1, b) \in Nat
  BY <1>2, SayingFinite DEF S, T
<1> QED
  BY <1>3, <1>4, <1>5

LEMMA LineEmpty ==
  ASSUME NEW l, NEW a \in Int, NEW b \in Int, b < a
  PROVE  LineCount(l, a, b) = 0
<1>1. Saying(l, a, b) = {}
  BY DEF Saying
<1> QED
  BY <1>1, SayingFinite, FS_EmptySet

LEMMA LineStep ==
  ASSUME NEW l, NEW a \in Int, NEW n \in Int, a <= n
  PROVE  LineCount(l, a, n) = LineCount(l, a, n - 1)
           + (IF Announceable(n) /\ <<Sender(n), Item(n)>> = l THEN 1 ELSE 0)
<1>1. LineCount(l, a, n) = LineCount(l, a, n - 1) + LineCount(l, (n - 1) + 1, n)
  BY LineSplit
<1>2. (n - 1) + 1 = n
  OBVIOUS
<1>3. LineCount(l, n, n) = (IF Announceable(n) /\ <<Sender(n), Item(n)>> = l THEN 1 ELSE 0)
  <2>1. CASE Announceable(n) /\ <<Sender(n), Item(n)>> = l
    <3>1. Saying(l, n, n) = {n}
      BY <2>1 DEF Saying
    <3> QED
      BY <2>1, <3>1, SayingFinite, FS_Singleton
  <2>2. CASE ~(Announceable(n) /\ <<Sender(n), Item(n)>> = l)
    <3>1. Saying(l, n, n) = {}
      BY <2>2 DEF Saying
    <3> QED
      BY <2>2, <3>1, SayingFinite, FS_EmptySet
  <2> QED
    BY <2>1, <2>2
<1> QED
  BY <1>1, <1>2, <1>3

-----------------------------------------------------------------------------
(* Queueing every item of an announcement.                                 *)

LEMMA LeastNumber ==
  ASSUME NEW S \in SUBSET Nat, S # {}
  PROVE  \E m \in S : \A k \in S : m <= k
<1>1. PICK m \in S : \A k \in S : <<k, m>> \notin OpToRel(<, Nat)
  BY WFMin, NatLessThanWellFounded, Zenon
<1>2. \A k \in S : ~ (k < m)
  BY <1>1, Zenon DEF OpToRel
<1> QED
  BY <1>2

IsGrown(g, q, from, to) ==
  g = [n \in 0 .. to |-> IF n <= from THEN q ELSE QueueItem(g[n - 1], n)]

LEMMA GrownExists ==
  ASSUME NEW q, NEW from \in Nat, NEW to \in Nat
  PROVE  \E g : IsGrown(g, q, from, to)
<1> DEFINE Bad == {m \in Nat : ~ \E g : IsGrown(g, q, from, m)}
<1>1. SUFFICES ASSUME Bad # {} PROVE FALSE
  BY <1>1
<1>2. PICK m \in Bad : \A k \in Bad : m <= k
  BY <1>1, LeastNumber
<1>3. m # 0
  <2> DEFINE g == [n \in 0 .. 0 |-> q]
  <2>1. g = [n \in 0 .. 0 |-> IF n <= from THEN q ELSE QueueItem(g[n - 1], n)]
    <3>1. \A n \in 0 .. 0 : n <= from
      OBVIOUS
    <3> QED
      BY <3>1
  <2> HIDE DEF g
  <2>2. IsGrown(g, q, from, 0)
    BY <2>1 DEF IsGrown
  <2> QED
    BY <1>2, <2>2
<1>4. m - 1 \in Nat /\ m - 1 \notin Bad
  BY <1>2, <1>3
<1>5. PICK g : IsGrown(g, q, from, m - 1)
  BY <1>4
<1> DEFINE h == [n \in 0 .. m |-> IF n <= from THEN q ELSE QueueItem(g[n - 1], n)]
<1>6. \A n \in 0 .. m - 1 : h[n] = g[n]
  BY <1>2, <1>5 DEF IsGrown
<1>7. ASSUME NEW n \in 0 .. m, ~(n <= from) PROVE g[n - 1] = h[n - 1]
  BY <1>2, <1>6, <1>7
<1>8. h = [n \in 0 .. m |-> IF n <= from THEN q ELSE QueueItem(h[n - 1], n)]
  BY <1>7
<1> HIDE DEF h
<1>9. IsGrown(h, q, from, m)
  BY <1>8 DEF IsGrown
<1> QED
  BY <1>2, <1>9

LEMMA QueueUpToGrown ==
  ASSUME NEW q, NEW from \in Nat, NEW to \in Nat
  PROVE  \E g : IsGrown(g, q, from, to) /\ QueueUpTo(q, from, to) = g[to]
<1> DEFINE g == CHOOSE f : IsGrown(f, q, from, to)
<1>1. IsGrown(g, q, from, to)
  BY GrownExists
<1>2. QueueUpTo(q, from, to) = g[to]
  BY DEF QueueUpTo, IsGrown
<1> QED
  BY <1>1, <1>2

\* Every line has gained its announceable items.
LEMMA QueueUpToCounts ==
  ASSUME WellTyped, queue \in Seq(Messages), OneEach(queue),
         NEW from \in Nat, NEW to \in 0 .. Len(script.incoming),
         NEW r, r = QueueUpTo(queue, from, to)
  PROVE  /\ r \in Seq(Messages) /\ OneEach(r)
         /\ \A l \in Lines : InQueue(r, l) = InQueue(queue, l) + LineCount(l, from + 1, to)
<1>0. Len(script.incoming) \in Nat /\ DOMAIN script.incoming = 1 .. Len(script.incoming)
  BY ReportsAssumption DEF WellTyped
<1>1. PICK g : IsGrown(g, queue, from, to) /\ r = g[to]
  BY <1>0, QueueUpToGrown
<1>2. \A n \in 0 .. to : g[n] = IF n <= from THEN queue ELSE QueueItem(g[n - 1], n)
  BY <1>1 DEF IsGrown
<1> DEFINE Good(n) == /\ g[n] \in Seq(Messages) /\ OneEach(g[n])
                      /\ \A l \in Lines : InQueue(g[n], l) = InQueue(queue, l) + LineCount(l, from + 1, n)
           Bad     == {n \in 0 .. to : ~Good(n)}
<1>3. SUFFICES ASSUME Bad # {} PROVE FALSE
  <2>1. to \in 0 .. to
    BY <1>0
  <2>2. Bad = {} => Good(to)
    BY <2>1
  <2> QED
    BY <1>1, <1>3, <2>2
<1>4. PICK n \in Bad : \A k \in Bad : n <= k
  <2>1. Bad \in SUBSET Nat
    OBVIOUS
  <2> HIDE DEF Bad
  <2> QED
    BY <1>3, <2>1, LeastNumber
<1>5. n \in 0 .. to /\ ~Good(n)
  BY <1>4
<1>6. ~(n <= from)
  <2> SUFFICES ASSUME n <= from PROVE FALSE
    OBVIOUS
  <2>1. g[n] = queue
    BY <1>2, <1>5
  <2>2. \A l \in Lines : LineCount(l, from + 1, n) = 0 /\ InQueue(queue, l) \in Nat
    BY <1>5, LineEmpty, InQueueNat
  <2>3. Good(n)
    BY <2>1, <2>2
  <2> QED
    BY <1>5, <2>3
<1>7. n \in 1 .. Len(script.incoming) /\ n - 1 \in 0 .. to /\ n - 1 \in Nat /\ from + 1 <= n
  BY <1>0, <1>5, <1>6
<1>8. Good(n - 1)
  <2>1. n - 1 \notin Bad
    BY <1>4, <1>7
  <2> QED
    BY <1>7, <2>1
<1> HIDE DEF Bad
<1>9. g[n] = QueueItem(g[n - 1], n)
  BY <1>2, <1>5, <1>6
<1>10. ASSUME NEW l \in Lines
       PROVE  /\ LineCount(l, from + 1, n) = LineCount(l, from + 1, n - 1)
                   + (IF Announceable(n) /\ <<Sender(n), Item(n)>> = l THEN 1 ELSE 0)
              /\ InQueue(queue, l) \in Nat /\ LineCount(l, from + 1, n - 1) \in Nat
  BY <1>7, LineStep, InQueueNat, SayingFinite
<1>11. CASE ~Announceable(n)
  <2>1. g[n] = g[n - 1]
    BY <1>9, <1>11 DEF QueueItem
  <2>2. \A l \in Lines : LineCount(l, from + 1, n) = LineCount(l, from + 1, n - 1)
    BY <1>10, <1>11
  <2> QED
    BY <1>5, <1>8, <2>1, <2>2
<1>12. CASE Announceable(n)
  <2>1. g[n] = QueueReceived(g[n - 1], Item(n), Sender(n))
    BY <1>9, <1>12 DEF QueueItem
  <2>2. Item(n) \in Names /\ Sender(n) \in Froms
    BY <1>0, <1>7 DEF Names, Froms
  <2>3. /\ g[n] \in Seq(Messages) /\ OneEach(g[n])
        /\ InQueue(g[n], <<Sender(n), Item(n)>>) = InQueue(g[n - 1], <<Sender(n), Item(n)>>) + 1
        /\ \A l : l[1] # Sender(n) \/ l[2] # Item(n) => InQueue(g[n], l) = InQueue(g[n - 1], l)
    BY <1>8, <2>1, <2>2, Received
  <2>4. ASSUME NEW l \in Lines
        PROVE  InQueue(g[n], l) = InQueue(queue, l) + LineCount(l, from + 1, n)
    <3>1. CASE <<Sender(n), Item(n)>> = l
      <4>1. InQueue(g[n], l) = InQueue(g[n - 1], l) + 1
        BY <2>3, <3>1
      <4>2. InQueue(g[n - 1], l) = InQueue(queue, l) + LineCount(l, from + 1, n - 1)
        BY <1>8
      <4>3. LineCount(l, from + 1, n) = LineCount(l, from + 1, n - 1) + 1
        BY <1>10, <1>12, <3>1
      <4> QED
        BY <1>10, <4>1, <4>2, <4>3
    <3>2. CASE <<Sender(n), Item(n)>> # l
      <4>1. l[1] # Sender(n) \/ l[2] # Item(n)
        BY <3>2 DEF Lines
      <4>2. InQueue(g[n], l) = InQueue(g[n - 1], l)
        BY <2>3, <4>1
      <4>3. InQueue(g[n - 1], l) = InQueue(queue, l) + LineCount(l, from + 1, n - 1)
        BY <1>8
      <4>4. LineCount(l, from + 1, n) = LineCount(l, from + 1, n - 1)
        BY <1>10, <3>2
      <4> QED
        BY <4>2, <4>3, <4>4
    <3> QED
      BY <3>1, <3>2
  <2> QED
    BY <1>5, <2>3, <2>4
<1> QED
  BY <1>11, <1>12

-----------------------------------------------------------------------------
(* Announcing.  Grants, the inventory that is read and the bodies lag      *)
(* behind what was granted, and what was granted was announced; on one     *)
(* connection no position is passed twice.                                 *)

QueueKept ==
  /\ queue \in Seq(Messages) /\ OneEach(queue)
  /\ told \in [Lines -> Nat] /\ shown \in [Lines -> Nat]
  /\ \A l \in Lines : told[l] = shown[l] + InQueue(queue, l)

Reflects(n) == n <= script.reflected \/ n <= granted

Granting ==
  /\ losses \in Nat /\ granted \in 0 .. Len(script.incoming)
  /\ op <= granted
  /\ Reflects(reflected)
  /\ seen \in Unread .. Len(script.incoming) /\ Reflects(seen)
  /\ link = "down" => items = 0

ToldEnough ==
  \A l \in Lines :
    /\ LineCount(l, script.reflected + 1, granted) <= told[l]
    /\ announced # Unannounced => LineCount(l, script.reflected + 1, announced) <= told[l]

OnThisConnection(l) == IF announced = Unannounced THEN 0 ELSE LineCount(l, 1, announced)

ToldNotTwice ==
  \A l \in Lines :
    /\ link = "up" => told[l] <= losses * LineCount(l, 1, Len(script.incoming)) + OnThisConnection(l)
    /\ link = "dying" => /\ losses >= 1
                         /\ told[l] <= (losses - 1) * LineCount(l, 1, Len(script.incoming))
                                       + OnThisConnection(l)
    /\ link = "down" => told[l] <= losses * LineCount(l, 1, Len(script.incoming))

LEMMA AnnouncingInit == Init => QueueKept /\ Granting /\ ToldEnough /\ ToldNotTwice
<1> SUFFICES ASSUME Init PROVE QueueKept /\ Granting /\ ToldEnough /\ ToldNotTwice
  OBVIOUS
<1>0. script.reflected \in 0 .. Len(script.incoming) /\ Len(script.incoming) \in Nat
  BY ReportsAssumption DEF Init
<1>1. queue = <<>> /\ told = [l \in Lines |-> 0] /\ shown = [l \in Lines |-> 0] /\ losses = 0
      /\ announced = Unannounced /\ link = "down" /\ items = 0 /\ seen = Unread /\ op = NoOp
      /\ reflected = script.reflected /\ granted = 0
  BY DEF Init
<1>2. QueueKept
  <2>1. queue \in Seq(Messages) /\ DOMAIN queue = {}
    BY <1>1
  <2>2. \A l : Naming(queue, l) = {}
    BY <2>1 DEF Naming
  <2>3. OneEach(queue) /\ \A l : InQueue(queue, l) = 0
    BY <2>2 DEF OneEach, InQueue
  <2>4. told \in [Lines -> Nat] /\ shown \in [Lines -> Nat] /\ \A l \in Lines : told[l] = 0 /\ shown[l] = 0
    BY <1>1
  <2> QED
    BY <2>1, <2>3, <2>4 DEF QueueKept
<1>3. Granting
  BY <1>0, <1>1 DEF Granting, Reflects, NoOp, Unread
<1>4. ToldEnough
  <2>1. \A l \in Lines : LineCount(l, script.reflected + 1, 0) = 0
    BY <1>0, LineEmpty
  <2>2. \A l \in Lines : told[l] = 0
    BY <1>1
  <2> QED
    BY <1>1, <2>1, <2>2 DEF ToldEnough
<1>5. ToldNotTwice
  <2>1. \A l \in Lines : told[l] = 0 /\ LineCount(l, 1, Len(script.incoming)) \in Nat
    BY <1>0, <1>1, SayingFinite
  <2> QED
    BY <1>1, <2>1 DEF ToldNotTwice
<1> QED
  BY <1>2, <1>3, <1>4, <1>5

\* The session does not change, and so neither what its items say.
LEMMA SameLines ==
  ASSUME script' = script
  PROVE  /\ Lines' = Lines /\ Messages' = Messages
         /\ \A l, a, b : LineCount(l, a, b)' = LineCount(l, a, b)
<1>1. \A i : Item(i)' = Item(i) /\ Sender(i)' = Sender(i) /\ (Announceable(i)' <=> Announceable(i))
  BY DEF Item, Sender, Announceable, FirstNonStarting
<1>2. Lines' = Lines
  BY <1>1 DEF Lines
<1>3. Messages' = Messages
  BY <1>1 DEF Messages, Froms, Counts, Names
<1>4. ASSUME NEW l, NEW a, NEW b PROVE LineCount(l, a, b)' = LineCount(l, a, b)
  BY <1>1 DEF LineCount
<1> QED
  BY <1>2, <1>3, <1>4

\* What a grant announces: the items after a position that no announcement of
\* this connection has reached, or nothing without a list.
LEMMA Granted ==
  ASSUME WellTyped, Numbers, Granting, GrantItems
  PROVE  /\ UNCHANGED <<script, reflected, link, seen, shown, losses, items>>
         /\ \/ ~Missing /\ UNCHANGED <<op, granted>>
            \/ Missing /\ op' = items /\ granted' = LatestOf(granted, items)
         /\ \/ items = 0 /\ ~Missing /\ UNCHANGED <<announced, queue, told>>
            \/ /\ items > 0 /\ link # "down"
               /\ \E from \in Nat :
                    /\ from = AnnounceFrom
                    /\ announced' = items /\ queue' = QueueUpTo(queue, from, items)
                    /\ told' = [l \in Lines |-> told[l] + LineCount(l, from + 1, items)]
<1>0. Len(script.incoming) \in Nat /\ DOMAIN script.incoming = 1 .. Len(script.incoming)
  BY ReportsAssumption DEF WellTyped
<1>1. /\ UNCHANGED <<script, reflected, link, seen, shown, losses, items>>
      /\ \/ ~Missing /\ UNCHANGED <<op, granted>>
         \/ Missing /\ op' = items /\ granted' = LatestOf(granted, items)
  BY DEF GrantItems, linkVars, bounds
<1>2. FirstNonStarting \in Nat
  <2> DEFINE S == {i \in DOMAIN script.incoming : script.incoming[i].from = "start"}
  <2>1. S \subseteq 1 .. Len(script.incoming) /\ IsFiniteSet(1 .. Len(script.incoming))
    BY <1>0, FS_Interval
  <2>2. IsFiniteSet(S)
    BY <2>1, FS_Subset
  <2> QED
    BY <2>2, FS_CardinalityType DEF FirstNonStarting
<1>3. items \in Nat
  BY <1>0 DEF Numbers
<1>4. CASE items = 0
  <2>1. ~Missing
    <3>1. seen # Unread /\ seen \in Unread .. Len(script.incoming)
      BY DEF GrantItems, Free, Granting
    <3>2. seen + 1 .. items = {}
      BY <1>0, <1>4, <3>1 DEF Unread
    <3> QED
      BY <3>2 DEF Missing
  <2>2. UNCHANGED <<announced, queue, told>>
    BY <1>4 DEF GrantItems
  <2> QED
    BY <1>1, <1>4, <2>1, <2>2
<1>5. CASE items # 0
  <2>1. link # "down" /\ items > 0
    BY <1>3, <1>5 DEF Granting
  <2>2. AnnounceFrom \in Nat
    <3>1. announced = Unannounced \/ announced \in Nat
      BY <2>1, <1>3 DEF Numbers, Unannounced
    <3> QED
      BY <1>2, <1>3, <3>1 DEF AnnounceFrom, LatestOf
  <2>3. Announce(AnnounceFrom)
    BY <1>5 DEF GrantItems
  <2> QED
    BY <1>1, <2>1, <2>2, <2>3 DEF Announce
<1> QED
  BY <1>4, <1>5

\* The steps that touch none of what the announcements are about.
LEMMA NotAnnouncing ==
  \/ Walk \/ (\E s \in script.scans : Scan(s)) \/ Complete \/ WarpToCredits \/ LeaveWorld
  \/ Deliver \/ CoolDown \/ SkipTick \/ SendPosition \/ PositionSent \/ SendHints \/ HintsSent
  \/ SendRaises \/ UNCHANGED vars
  => UNCHANGED <<script, queue, told, shown, announced, granted, losses, link, items, seen, reflected, op>>
BY DEF Walk, Scan, Complete, WarpToCredits, LeaveWorld, Deliver, CoolDown, SkipTick, SendPosition,
       PositionSent, SendHints, HintsSent, SendRaises, vars, gameVars, linkVars, serverVars, tickVars,
       clientVars, hudVars, bounds, history, GameOnly, TickOnly

LEMMA QueueKeptStep ==
  ASSUME WellTyped, Numbers, Granting, QueueKept, [Next]_vars
  PROVE  QueueKept'
<1>a. script' = script
  BY ScriptKept
<1>b. Lines' = Lines /\ Messages' = Messages
  BY <1>a, SameLines
<1> DEFINE Kept == /\ queue' \in Seq(Messages) /\ OneEach(queue')
                   /\ told' \in [Lines -> Nat] /\ shown' \in [Lines -> Nat]
                   /\ \A l \in Lines : told'[l] = shown'[l] + InQueue(queue', l)
<1>c. OneEach(queue)' <=> OneEach(queue')
  BY DEF OneEach, Naming
<1>d. \A l : InQueue(queue, l)' = InQueue(queue', l)
  BY DEF InQueue, Naming
<1> SUFFICES Kept
  BY <1>b, <1>c, <1>d DEF QueueKept
<1> USE DEF vars, gameVars, linkVars, serverVars, tickVars, clientVars, hudVars, bounds, history,
            GameOnly, TickOnly
<1>1. CASE GrantItems
  <2>1. CASE UNCHANGED <<queue, told, shown>>
    BY <2>1 DEF QueueKept
  <2>2. ASSUME NEW from \in Nat, queue' = QueueUpTo(queue, from, items), shown' = shown,
               told' = [l \in Lines |-> told[l] + LineCount(l, from + 1, items)]
        PROVE  Kept
    <3>1. items \in 0 .. Len(script.incoming) /\ Len(script.incoming) \in Nat
      BY ReportsAssumption DEF Numbers, WellTyped
    <3>2. /\ queue' \in Seq(Messages) /\ OneEach(queue')
          /\ \A l \in Lines : InQueue(queue', l) = InQueue(queue, l) + LineCount(l, from + 1, items)
      BY <2>2, <3>1, QueueUpToCounts DEF QueueKept
    <3>3. \A l \in Lines : LineCount(l, from + 1, items) \in Nat /\ InQueue(queue, l) \in Nat
                           /\ told[l] \in Nat /\ shown[l] \in Nat
      BY <3>1, SayingFinite, InQueueNat DEF QueueKept
    <3>4. told' \in [Lines -> Nat]
      BY <2>2, <3>3
    <3>5. ASSUME NEW l \in Lines PROVE told'[l] = shown'[l] + InQueue(queue', l)
      <4>1. told[l] = shown[l] + InQueue(queue, l)
        BY DEF QueueKept
      <4>2. told'[l] = told[l] + LineCount(l, from + 1, items) /\ shown'[l] = shown[l]
        BY <2>2
      <4>3. InQueue(queue', l) = InQueue(queue, l) + LineCount(l, from + 1, items)
        BY <3>2
      <4> QED
        BY <3>3, <4>1, <4>2, <4>3
    <3> QED
      BY <2>2, <3>2, <3>4, <3>5 DEF QueueKept
  <2> HIDE DEF Kept
  <2> QED
    BY <1>1, <2>1, <2>2, Granted
<1>2. CASE ShowMessage
  <2>1. queue # <<>> /\ queue' = Tail(queue) /\ shown' = ShownWith(Head(queue)) /\ told' = told
    BY <1>2 DEF ShowMessage, Due
  <2>2. /\ queue' \in Seq(Messages) /\ OneEach(queue')
        /\ \A l : InQueue(queue, l) = InQueue(queue', l)
                     + (IF l[1] = Head(queue).from /\ l[2] \in DOMAIN Head(queue).lines
                        THEN Head(queue).lines[l[2]] ELSE 0)
    BY <2>1, FirstShown DEF QueueKept
  <2>3. ASSUME NEW l \in Lines
        PROVE  (IF l[1] = Head(queue).from /\ l[2] \in DOMAIN Head(queue).lines
                THEN Head(queue).lines[l[2]] ELSE 0) \in Nat
    <3>1. Head(queue) \in Messages
      BY <2>1 DEF QueueKept
    <3>2. Head(queue).lines \in Counts
      BY <3>1 DEF Messages
    <3>3. PICK S \in SUBSET Names : Head(queue).lines \in [S -> Nat]
      BY <3>2 DEF Counts
    <3> QED
      BY <3>3
  <2>4. shown' = [l \in Lines |-> shown[l] + (IF l[1] = Head(queue).from /\ l[2] \in DOMAIN Head(queue).lines
                                              THEN Head(queue).lines[l[2]] ELSE 0)]
    BY <2>1 DEF ShownWith
  <2>5. \A l \in Lines : shown[l] \in Nat /\ told[l] \in Nat /\ InQueue(queue, l) \in Nat
                         /\ told[l] = shown[l] + InQueue(queue, l) /\ InQueue(queue', l) \in Nat
    BY <2>2, InQueueNat DEF QueueKept
  <2>6. shown' \in [Lines -> Nat]
    BY <2>3, <2>4, <2>5
  <2>7. ASSUME NEW l \in Lines PROVE told'[l] = shown'[l] + InQueue(queue', l)
    <3> DEFINE c == IF l[1] = Head(queue).from /\ l[2] \in DOMAIN Head(queue).lines
                    THEN Head(queue).lines[l[2]] ELSE 0
    <3>1. c \in Nat /\ shown'[l] = shown[l] + c /\ InQueue(queue, l) = InQueue(queue', l) + c
      BY <2>2, <2>3, <2>4
    <3> HIDE DEF c
    <3> QED
      BY <2>1, <2>5, <3>1
  <2> QED
    BY <2>1, <2>2, <2>6, <2>7 DEF QueueKept
<1>3. CASE GoalSent
  <2>1. queue' = QueueOnce(queue, GoalMessage) /\ UNCHANGED <<told, shown>>
    BY <1>3 DEF GoalSent
  <2>2. CASE queue' = queue
    BY <2>1, <2>2 DEF QueueKept
  <2>3. CASE queue' = Append(queue, GoalMessage)
    <3>1. <<>> \in [{} -> Nat] /\ DOMAIN <<>> = {}
      OBVIOUS
    <3>2. GoalMessage \in Messages /\ DOMAIN GoalMessage.lines = {}
      <4>1. <<>> \in Counts
        BY <3>1 DEF Counts
      <4> QED
        BY <3>1, <4>1 DEF GoalMessage, Messages, Froms
    <3>3. /\ queue' \in Seq(Messages) /\ DOMAIN queue \subseteq DOMAIN queue'
          /\ \A k \in DOMAIN queue : queue'[k] = queue[k]
          /\ \A k \in DOMAIN queue' \ DOMAIN queue : queue'[k] = GoalMessage
      BY <2>3, <3>2 DEF QueueKept
    <3>4. OneEach(queue') /\ \A l : InQueue(queue', l) = InQueue(queue, l)
      BY <3>2, <3>3, SameSaid DEF QueueKept
    <3> QED
      BY <2>1, <3>3, <3>4 DEF QueueKept
  <2> QED
    BY <2>1, <2>2, <2>3 DEF QueueOnce
<1>4. CASE GroupWindowEnds
  <2>1. queue' = [k \in DOMAIN queue |-> [queue[k] EXCEPT !.ready = TRUE]] /\ UNCHANGED <<told, shown>>
    BY <1>4 DEF GroupWindowEnds
  <2>2. \A k \in DOMAIN queue : queue[k] \in Messages
    BY DEF QueueKept
  <2>3. \A k \in DOMAIN queue : /\ queue'[k] \in Messages
                                /\ queue'[k].from = queue[k].from /\ queue'[k].lines = queue[k].lines
    BY <2>1, <2>2 DEF Messages
  <2>4. queue' \in Seq(Messages) /\ DOMAIN queue' = DOMAIN queue
    <3>1. DOMAIN queue = 1 .. Len(queue) /\ Len(queue) \in Nat
      BY DEF QueueKept
    <3> QED
      BY <2>1, <2>3, <3>1
  <2>5. OneEach(queue') /\ \A l : InQueue(queue', l) = InQueue(queue, l)
    BY <2>3, <2>4, SameSaid DEF QueueKept
  <2> QED
    BY <2>1, <2>4, <2>5 DEF QueueKept
<1>5. CASE UNCHANGED <<queue, told, shown>>
  BY <1>5 DEF QueueKept
<1>6. CheckGoal \/ RunBody \/ LoadSave \/ Lose \/ NoticeLoss \/ Connected \/ ItemsArrive
      => UNCHANGED <<queue, told, shown>>
  BY DEF CheckGoal, RunBody, LoadSave, Lose, NoticeLoss, Connected, ItemsArrive
<1> HIDE DEF Kept
<1> QED
  BY <1>1, <1>2, <1>3, <1>4, <1>5, <1>6, NotAnnouncing DEF Next, Game, Link, Callbacks, Tick, TimePasses

LEMMA GrantingStep ==
  ASSUME WellTyped, Numbers, Granting, [Next]_vars
  PROVE  Granting'
<1>a. script' = script /\ Len(script.incoming) \in Nat
      /\ script.reflected \in 0 .. Len(script.incoming)
  BY ScriptKept, ReportsAssumption DEF WellTyped
<1>b. items \in 0 .. Len(script.incoming) /\ reflected \in 0 .. Len(script.incoming)
  BY <1>a DEF Numbers
<1> USE DEF vars, gameVars, linkVars, serverVars, tickVars, clientVars, hudVars, bounds, history,
            GameOnly, TickOnly
<1> DEFINE Kept == Granting'
<1> SUFFICES Kept
  OBVIOUS
<1>1. CASE GrantItems
  <2>1. /\ UNCHANGED <<reflected, link, seen, losses, items>>
        /\ \/ UNCHANGED <<op, granted>>
           \/ op' = items /\ granted' = LatestOf(granted, items)
    BY <1>1, Granted
  <2> QED
    BY <1>a, <1>b, <2>1 DEF Granting, Reflects, LatestOf
<1>2. CASE ShowMessage
  <2>1. op' = Hud /\ UNCHANGED <<reflected, link, seen, losses, items, granted>>
    BY <1>2 DEF ShowMessage
  <2> QED
    BY <1>a, <1>b, <2>1 DEF Granting, Reflects, Hud
<1>3. CASE CheckGoal
  <2>1. seen' \in {Unread, reflected} /\ UNCHANGED <<op, reflected, link, losses, items, granted>>
    BY <1>3 DEF CheckGoal
  <2> QED
    BY <1>a, <1>b, <2>1 DEF Granting, Reflects, Unread
<1>4. CASE RunBody
  <2>1. op # NoOp /\ reflected' = (IF op > reflected THEN op ELSE reflected) /\ op' = NoOp
        /\ UNCHANGED <<seen, link, losses, items, granted>>
    BY <1>4 DEF RunBody
  <2> QED
    BY <1>a, <1>b, <2>1 DEF Granting, Reflects, NoOp
<1>5. CASE LoadSave
  <2>1. reflected' \in 0 .. reflected /\ UNCHANGED <<seen, link, losses, items, granted, op>>
    BY <1>5 DEF LoadSave
  <2> QED
    BY <1>a, <1>b, <2>1 DEF Granting, Reflects
<1>6. CASE Lose
  <2>1. link' = "dying" /\ losses' = losses + 1 /\ UNCHANGED <<seen, reflected, items, granted, op>>
    BY <1>6 DEF Lose
  <2> QED
    BY <1>a, <1>b, <2>1 DEF Granting, Reflects
<1>7. CASE NoticeLoss
  <2>1. items' = 0 /\ UNCHANGED <<seen, reflected, losses, granted, op>>
    BY <1>7 DEF NoticeLoss
  <2> QED
    BY <1>a, <1>b, <2>1 DEF Granting, Reflects
<1>8. CASE Connected \/ ItemsArrive
  <2>1. link' = "up" /\ UNCHANGED <<seen, reflected, losses, granted, op>>
    BY <1>8 DEF Connected, ItemsArrive
  <2> QED
    BY <1>a, <1>b, <2>1 DEF Granting, Reflects
<1>9. CASE UNCHANGED <<seen, reflected, losses, granted, op, link, items>>
  BY <1>a, <1>9 DEF Granting, Reflects
<1>10. GoalSent \/ GroupWindowEnds => UNCHANGED <<seen, reflected, losses, granted, op, link, items>>
  BY DEF GoalSent, GroupWindowEnds
<1> HIDE DEF Kept
<1> QED
  BY <1>1, <1>2, <1>3, <1>4, <1>5, <1>6, <1>7, <1>8, <1>9, <1>10, NotAnnouncing
     DEF Next, Game, Link, Callbacks, Tick, TimePasses

\* What the client was never told of, the save had before: the positions after
\* the reflected ones that a read inventory shows as granted.
LEMMA Passed ==
  ASSUME WellTyped, Numbers, Granting, ToldEnough, QueueKept, ~Missing, NEW l \in Lines
  PROVE  LineCount(l, script.reflected + 1, items) <= told[l]
<1>a. Len(script.incoming) \in Nat /\ script.reflected \in 0 .. Len(script.incoming)
  BY ReportsAssumption DEF WellTyped
<1>b. items \in 0 .. Len(script.incoming) /\ seen \in Unread .. Len(script.incoming)
      /\ granted \in 0 .. Len(script.incoming)
  BY <1>a DEF Numbers, Granting
<1>1. Saying(l, script.reflected + 1, items) \subseteq Saying(l, script.reflected + 1, granted)
  <2> SUFFICES ASSUME NEW i \in Saying(l, script.reflected + 1, items) PROVE i <= granted
    BY <1>a, <1>b DEF Saying
  <2>1. i \in script.reflected + 1 .. items /\ Item(i) \notin Traps
    BY DEF Saying, Announceable
  <2>2. ~(seen + 1 <= i)
    BY <1>a, <1>b, <2>1 DEF Missing, Unread
  <2> QED
    BY <1>a, <1>b, <2>1, <2>2 DEF Granting, Reflects, Unread
<1>2. LineCount(l, script.reflected + 1, items) <= LineCount(l, script.reflected + 1, granted)
  BY <1>a, <1>b, <1>1, SayingMonotone
<1>3. /\ LineCount(l, script.reflected + 1, granted) <= told[l] /\ told[l] \in Nat
      /\ LineCount(l, script.reflected + 1, items) \in Nat
      /\ LineCount(l, script.reflected + 1, granted) \in Nat
  BY <1>a, <1>b, SayingFinite DEF ToldEnough, QueueKept
<1> QED
  BY <1>2, <1>3

LEMMA LineBetween ==
  ASSUME NEW l, NEW a \in Int, NEW m \in Int, NEW b \in Int
  PROVE  LineCount(l, a, b) <= LineCount(l, a, m) + LineCount(l, m + 1, b)
<1>0. LineCount(l, a, b) \in Nat /\ LineCount(l, a, m) \in Nat /\ LineCount(l, m + 1, b) \in Nat
  BY SayingFinite
<1>1. CASE a <= m + 1 /\ m <= b
  BY <1>0, <1>1, LineSplit
<1>2. CASE m + 1 <= a
  <2>1. LineCount(l, a, b) <= LineCount(l, m + 1, b)
    BY <1>2, LineMonotone
  <2> QED
    BY <1>0, <2>1
<1>3. CASE b <= m
  <2>1. LineCount(l, a, b) <= LineCount(l, a, m)
    BY <1>3, LineMonotone
  <2> QED
    BY <1>0, <2>1
<1> QED
  BY <1>1, <1>2, <1>3

\* An announcement says of a line what was missing of it, and no position twice.
LEMMA AnnouncedOf ==
  ASSUME WellTyped, Numbers, Granting, ToldEnough, QueueKept, NEW l \in Lines,
         items > 0, link # "down", NEW from \in Nat, from = AnnounceFrom
  PROVE  /\ LineCount(l, script.reflected + 1, items) <= told[l] + LineCount(l, from + 1, items)
         /\ OnThisConnection(l) + LineCount(l, from + 1, items) <= LineCount(l, 1, items)
         /\ OnThisConnection(l) \in Nat
<1>a. Len(script.incoming) \in Nat /\ script.reflected \in 0 .. Len(script.incoming)
  BY ReportsAssumption DEF WellTyped
<1>b. items \in 0 .. Len(script.incoming) /\ granted \in 0 .. Len(script.incoming)
  BY <1>a DEF Numbers, Granting
<1>c. announced = Unannounced \/ announced \in 0 .. items
  BY <1>b DEF Numbers, Unannounced
<1> DEFINE new == LineCount(l, from + 1, items)
           due == LineCount(l, script.reflected + 1, items)
<1>d. new \in Nat /\ due \in Nat /\ told[l] \in Nat /\ LineCount(l, 1, items) \in Nat
  BY <1>a, <1>b, SayingFinite DEF QueueKept
<1>e. ASSUME NEW p \in Nat, from = LatestOf(p, FirstNonStarting)
      PROVE  LineCount(l, p + 1, items) = new
  <2>1. Saying(l, p + 1, items) \subseteq Saying(l, from + 1, items)
    BY <1>b, <1>e DEF Saying, Announceable, LatestOf
  <2>2. p <= from
    <3>1. from = p \/ (from = FirstNonStarting /\ p < FirstNonStarting)
      BY <1>e DEF LatestOf
    <3> QED
      BY <3>1
  <2>3. LineCount(l, from + 1, items) <= LineCount(l, p + 1, items)
    BY <1>b, <2>2, LineMonotone
  <2>4. LineCount(l, p + 1, items) <= LineCount(l, from + 1, items)
    BY <1>b, <2>1, SayingMonotone
  <2>5. LineCount(l, p + 1, items) \in Nat
    BY <1>b, SayingFinite
  <2> QED
    BY <1>d, <2>3, <2>4, <2>5
<1>1. CASE announced # Unannounced
  <2>1. announced \in 0 .. items /\ LineCount(l, announced + 1, items) = new
    BY <1>1, <1>b, <1>c, <1>e DEF AnnounceFrom
  <2>2. LineCount(l, script.reflected + 1, announced) <= told[l]
    BY <1>1 DEF ToldEnough
  <2>3. due <= LineCount(l, script.reflected + 1, announced) + LineCount(l, announced + 1, items)
    BY <1>a, <1>b, <2>1, LineBetween
  <2>4. OnThisConnection(l) = LineCount(l, 1, announced)
    BY <1>1 DEF OnThisConnection
  <2>5. LineCount(l, 1, items) = LineCount(l, 1, announced) + LineCount(l, announced + 1, items)
    BY <1>b, <2>1, LineSplit
  <2>6. LineCount(l, 1, announced) \in Nat /\ LineCount(l, script.reflected + 1, announced) \in Nat
    BY <1>a, <1>b, <2>1, SayingFinite
  <2> HIDE DEF new, due
  <2>7. due <= told[l] + new /\ OnThisConnection(l) + new <= LineCount(l, 1, items) /\ OnThisConnection(l) \in Nat
    BY <1>d, <2>1, <2>2, <2>3, <2>4, <2>5, <2>6
  <2> QED
    BY <2>7 DEF new, due
<1>2. CASE announced = Unannounced /\ Missing
  <2>1. LineCount(l, 0 + 1, items) = new
    BY <1>2, <1>e DEF AnnounceFrom
  <2>2. due <= LineCount(l, 1, items)
    BY <1>a, <1>b, LineMonotone
  <2>3. OnThisConnection(l) = 0
    BY <1>2 DEF OnThisConnection
  <2> HIDE DEF new, due
  <2>4. due <= told[l] + new /\ OnThisConnection(l) + new <= LineCount(l, 1, items) /\ OnThisConnection(l) \in Nat
    BY <1>d, <2>1, <2>2, <2>3
  <2> QED
    BY <2>4 DEF new, due
<1>3. CASE announced = Unannounced /\ ~Missing
  <2>1. due <= told[l]
    BY <1>3, Passed
  <2>2. new <= LineCount(l, 1, items)
    BY <1>b, LineMonotone
  <2>3. OnThisConnection(l) = 0
    BY <1>3 DEF OnThisConnection
  <2> HIDE DEF new, due
  <2>4. due <= told[l] + new /\ OnThisConnection(l) + new <= LineCount(l, 1, items) /\ OnThisConnection(l) \in Nat
    BY <1>d, <2>1, <2>2, <2>3
  <2> QED
    BY <2>4 DEF new, due
<1> QED
  BY <1>1, <1>2, <1>3

LEMMA ToldEnoughStep ==
  ASSUME WellTyped, Numbers, Granting, QueueKept, ToldEnough, [Next]_vars
  PROVE  ToldEnough'
<1>a. script' = script /\ Len(script.incoming) \in Nat /\ script.reflected \in 0 .. Len(script.incoming)
  BY ScriptKept, ReportsAssumption DEF WellTyped
<1>b. Lines' = Lines /\ \A l, a, b : LineCount(l, a, b)' = LineCount(l, a, b)
  BY <1>a, SameLines
<1> DEFINE Kept == \A l \in Lines :
             /\ LineCount(l, script.reflected + 1, granted') <= told'[l]
             /\ announced' # Unannounced => LineCount(l, script.reflected + 1, announced') <= told'[l]
<1>c. Kept => ToldEnough'
  <2> SUFFICES ASSUME Kept PROVE ToldEnough'
    OBVIOUS
  <2>2. ASSUME NEW l \in Lines' PROVE LineCount(l, script.reflected + 1, granted)' <= told'[l]
    <3>1. LineCount(l, script.reflected + 1, granted)' = LineCount(l, script.reflected + 1, granted')
      BY <1>a, <1>b
    <3> QED
      BY <1>b, <2>2, <3>1
  <2>3. ASSUME NEW l \in Lines', announced' # Unannounced
        PROVE  LineCount(l, script.reflected + 1, announced)' <= told'[l]
    <3>1. LineCount(l, script.reflected + 1, announced)' = LineCount(l, script.reflected + 1, announced')
      BY <1>a, <1>b
    <3> QED
      BY <1>b, <2>3, <3>1
  <2> QED
    BY <2>2, <2>3 DEF ToldEnough

<1> SUFFICES Kept
  BY <1>c
<1>1. CASE GrantItems
  <2>1. CASE UNCHANGED <<told, announced, granted>>
    BY <2>1 DEF ToldEnough
  <2>2. ASSUME NEW from \in Nat, from = AnnounceFrom, items > 0, link # "down", announced' = items,
               told' = [l \in Lines |-> told[l] + LineCount(l, from + 1, items)],
               granted' = granted \/ granted' = LatestOf(granted, items)
        PROVE  Kept
    <3> SUFFICES ASSUME NEW l \in Lines
                 PROVE  /\ LineCount(l, script.reflected + 1, granted') <= told'[l]
                        /\ LineCount(l, script.reflected + 1, items) <= told'[l]
      BY <2>2
    <3>1. items \in 0 .. Len(script.incoming) /\ granted \in 0 .. Len(script.incoming)
      BY <1>a DEF Numbers, Granting
    <3>2. told'[l] = told[l] + LineCount(l, from + 1, items)
      BY <2>2
    <3>3. told[l] \in Nat /\ LineCount(l, from + 1, items) \in Nat
          /\ LineCount(l, script.reflected + 1, granted) \in Nat
      BY <1>a, <3>1, SayingFinite DEF QueueKept
    <3>4. LineCount(l, script.reflected + 1, items) <= told'[l]
      BY <2>2, <3>2, AnnouncedOf
    <3>5. LineCount(l, script.reflected + 1, granted) <= told[l]
      BY DEF ToldEnough
    <3>6. LineCount(l, script.reflected + 1, granted) <= told'[l]
      BY <3>2, <3>3, <3>5
    <3>7. granted' = granted \/ granted' = items
      BY <2>2 DEF LatestOf
    <3> QED
      BY <3>4, <3>6, <3>7
  <2>3. \/ items = 0 /\ ~Missing /\ UNCHANGED <<announced, told>>
        \/ /\ items > 0 /\ link # "down"
           /\ \E from \in Nat :
                /\ from = AnnounceFrom /\ announced' = items
                /\ told' = [l \in Lines |-> told[l] + LineCount(l, from + 1, items)]
    BY <1>1, Granted
  <2>4. \/ ~Missing /\ granted' = granted
        \/ Missing /\ granted' = LatestOf(granted, items)
    BY <1>1, Granted
  <2>5. \/ items = 0 /\ UNCHANGED <<announced, told>> /\ granted' = granted
        \/ items > 0
    <3>1. items = 0 \/ items > 0
      BY <2>3
    <3> QED
      BY <2>3, <2>4, <3>1, Zenon
  <2>6. CASE items = 0 /\ UNCHANGED <<announced, told>> /\ granted' = granted
    BY <2>1, <2>6
  <2>7. CASE items > 0
    <3>1. ~(items = 0)
      BY <2>7
    <3>2. PICK from \in Nat : /\ from = AnnounceFrom /\ announced' = items
                              /\ told' = [l \in Lines |-> told[l] + LineCount(l, from + 1, items)]
      BY <2>3, <3>1, Zenon
    <3>3. link # "down" /\ (granted' = granted \/ granted' = LatestOf(granted, items))
      BY <2>3, <2>4, <3>1, Zenon
    <3> HIDE DEF Kept
    <3> QED
      BY <2>2, <2>7, <3>2, <3>3
  <2> HIDE DEF Kept
  <2> QED
    BY <2>5, <2>6, <2>7
<1>2. CASE Connected
  <2>1. announced' = Unannounced /\ UNCHANGED <<told, granted>>
    BY <1>2 DEF Connected, history
  <2> QED
    BY <2>1 DEF ToldEnough
<1>3. CASE UNCHANGED <<told, announced, granted>>
  BY <1>3 DEF ToldEnough
<1>4. \/ CheckGoal \/ RunBody \/ LoadSave \/ Lose \/ NoticeLoss \/ ItemsArrive \/ GoalSent
      \/ GroupWindowEnds \/ ShowMessage
      => UNCHANGED <<told, announced, granted>>
  BY DEF CheckGoal, RunBody, LoadSave, Lose, NoticeLoss, ItemsArrive, GoalSent, GroupWindowEnds,
         ShowMessage, clientVars, hudVars, history, GameOnly, TickOnly
<1> HIDE DEF Kept
<1> QED
  BY <1>1, <1>2, <1>3, <1>4, NotAnnouncing DEF Next, Game, Link, Callbacks, Tick, TimePasses

\* The products the bound is made of.
LEMMA OneMore ==
  ASSUME NEW a \in Nat, NEW n \in Nat
  PROVE  a * n \in Nat /\ (a + 1) * n = a * n + n /\ ((a + 1) - 1) * n = a * n
         /\ (a >= 1 => (a - 1) * n \in Nat /\ a * n = (a - 1) * n + n)
OBVIOUS

LEMMA ToldNotTwiceStep ==
  ASSUME WellTyped, Numbers, Granting, QueueKept, ToldEnough, ToldNotTwice, [Next]_vars
  PROVE  ToldNotTwice'
<1>a. script' = script /\ Len(script.incoming) \in Nat
  BY ScriptKept, ReportsAssumption DEF WellTyped
<1>b. Lines' = Lines /\ \A l, a, b : LineCount(l, a, b)' = LineCount(l, a, b)
  BY <1>a, SameLines
<1>c. \A l \in Lines : LineCount(l, 1, Len(script.incoming)) \in Nat /\ told[l] \in Nat
  BY <1>a, SayingFinite DEF QueueKept
<1> DEFINE All(l) == LineCount(l, 1, Len(script.incoming))
           On(l)  == IF announced' = Unannounced THEN 0 ELSE LineCount(l, 1, announced')
           Kept   == \A l \in Lines :
             /\ link' = "up" => told'[l] <= losses' * All(l) + On(l)
             /\ link' = "dying" => losses' >= 1 /\ told'[l] <= (losses' - 1) * All(l) + On(l)
             /\ link' = "down" => told'[l] <= losses' * All(l)
<1>d. \A l : OnThisConnection(l)' = On(l) /\ LineCount(l, 1, Len(script.incoming))' = All(l)
  BY <1>a, <1>b DEF OnThisConnection
<1>e. Kept => ToldNotTwice'
  <2> HIDE DEF All, On
  <2> QED
    BY <1>b, <1>d DEF ToldNotTwice
<1> SUFFICES Kept
  BY <1>e
<1>1. CASE GrantItems
  <2>0. link' = link /\ losses' = losses /\ losses \in Nat
    BY <1>1, Granted DEF Granting
  <2>1. CASE UNCHANGED <<told, announced>>
    BY <2>0, <2>1 DEF ToldNotTwice, OnThisConnection
  <2>2. ASSUME NEW from \in Nat, from = AnnounceFrom, items > 0, link # "down", announced' = items,
               told' = [l \in Lines |-> told[l] + LineCount(l, from + 1, items)]
        PROVE  Kept
    <3> SUFFICES ASSUME NEW l \in Lines
                 PROVE  /\ link = "up" => told'[l] <= losses * All(l) + On(l)
                        /\ link = "dying" => losses >= 1 /\ told'[l] <= (losses - 1) * All(l) + On(l)
      BY <2>0, <2>2
    <3>1. items \in Nat
      BY <1>a DEF Numbers
    <3>2. told'[l] = told[l] + LineCount(l, from + 1, items)
      BY <2>2
    <3>3. told[l] \in Nat /\ LineCount(l, from + 1, items) \in Nat /\ LineCount(l, 1, items) \in Nat
      BY <3>1, SayingFinite DEF QueueKept
    <3>4. /\ OnThisConnection(l) + LineCount(l, from + 1, items) <= LineCount(l, 1, items)
          /\ OnThisConnection(l) \in Nat
      BY <2>2, AnnouncedOf
    <3>5. On(l) = LineCount(l, 1, items)
      BY <2>2, <3>1 DEF Unannounced
    <3>6. /\ link = "up" => told[l] <= losses * All(l) + OnThisConnection(l)
          /\ link = "dying" => losses >= 1 /\ told[l] <= (losses - 1) * All(l) + OnThisConnection(l)
      BY DEF ToldNotTwice
    <3>7. losses * All(l) \in Nat /\ (losses >= 1 => (losses - 1) * All(l) \in Nat)
      BY <1>c, <2>0, OneMore
    <3> DEFINE X == losses * All(l)
               Y == (losses - 1) * All(l)
    <3>8. /\ link = "up" => told[l] <= X + OnThisConnection(l)
          /\ link = "dying" => losses >= 1 /\ told[l] <= Y + OnThisConnection(l)
          /\ X \in Nat /\ (losses >= 1 => Y \in Nat)
      BY <3>6, <3>7
    <3> HIDE DEF All, On, X, Y
    <3>9. /\ link = "up" => told'[l] <= X + On(l)
          /\ link = "dying" => losses >= 1 /\ told'[l] <= Y + On(l)
      BY <3>2, <3>3, <3>4, <3>5, <3>8
    <3> QED
      BY <3>9 DEF X, Y
  <2>3. \/ UNCHANGED <<announced, told>>
        \/ /\ items > 0 /\ link # "down"
           /\ \E from \in Nat :
                /\ from = AnnounceFrom /\ announced' = items
                /\ told' = [l \in Lines |-> told[l] + LineCount(l, from + 1, items)]
    BY <1>1, Granted
  <2> HIDE DEF Kept
  <2> QED
    BY <2>1, <2>2, <2>3
<1>2. CASE Lose
  <2>1. link = "up" /\ link' = "dying" /\ losses' = losses + 1 /\ losses \in Nat
        /\ UNCHANGED <<told, announced>>
    BY <1>2 DEF Lose, Granting, clientVars, hudVars, history
  <2>2. \A l \in Lines : ((losses + 1) - 1) * All(l) = losses * All(l)
    BY <1>c, <2>1, OneMore
  <2>3. \A l \in Lines : told[l] <= losses * All(l) + On(l)
    BY <2>1 DEF ToldNotTwice, OnThisConnection
  <2> HIDE DEF All, On
  <2> QED
    BY <2>1, <2>2, <2>3
<1>3. CASE NoticeLoss
  <2>1. link = "dying" /\ link' = "down" /\ losses' = losses /\ losses \in Nat
        /\ UNCHANGED <<told, announced>>
    BY <1>3 DEF NoticeLoss, Granting, clientVars, hudVars, history, bounds
  <2>2. announced = Unannounced \/ announced \in 0 .. Len(script.incoming)
    BY <1>a, <2>1 DEF Numbers, Unannounced
  <2>3. ASSUME NEW l \in Lines PROVE told[l] <= losses * All(l)
    <3>1. losses >= 1 /\ told[l] <= (losses - 1) * All(l) + OnThisConnection(l)
      BY <2>1 DEF ToldNotTwice
    <3>2. OnThisConnection(l) <= All(l) /\ OnThisConnection(l) \in Nat
      <4>1. CASE announced = Unannounced
        BY <1>c, <4>1 DEF OnThisConnection
      <4>2. CASE announced # Unannounced
        <5>1. LineCount(l, 1, announced) <= All(l) /\ LineCount(l, 1, announced) \in Nat
          BY <1>a, <2>2, <4>2, LineMonotone, SayingFinite
        <5> QED
          BY <4>2, <5>1 DEF OnThisConnection
      <4> QED
        BY <4>1, <4>2
    <3>3. (losses - 1) * All(l) \in Nat /\ losses * All(l) = (losses - 1) * All(l) + All(l)
      BY <1>c, <2>1, <3>1, OneMore
    <3>4. All(l) \in Nat /\ told[l] \in Nat
      BY <1>c
    <3> DEFINE X == losses * All(l)
               Y == (losses - 1) * All(l)
    <3>5. told[l] <= Y + OnThisConnection(l) /\ Y \in Nat /\ X = Y + All(l)
      BY <3>1, <3>3
    <3> HIDE DEF All, X, Y
    <3>6. told[l] <= X
      BY <3>2, <3>4, <3>5
    <3> QED
      BY <3>6 DEF X
  <2> HIDE DEF All, On
  <2> QED
    BY <2>1, <2>3
<1>4. CASE Connected
  <2>1. link = "down" /\ link' = "up" /\ losses' = losses /\ losses \in Nat /\ told' = told
        /\ announced' = Unannounced
    BY <1>4 DEF Connected, Granting, history
  <2>2. ASSUME NEW l \in Lines PROVE told'[l] <= losses' * All(l) + On(l)
    <3>1. told[l] <= losses * All(l)
      BY <2>1 DEF ToldNotTwice
    <3>2. On(l) = 0 /\ losses * All(l) \in Nat /\ told[l] \in Nat
      BY <1>c, <2>1, OneMore
    <3> HIDE DEF All, On
    <3> QED
      BY <2>1, <3>1, <3>2
  <2> HIDE DEF All, On
  <2> QED
    BY <2>1, <2>2
<1>5. CASE UNCHANGED <<told, announced, link, losses>>
  BY <1>5 DEF ToldNotTwice, OnThisConnection
<1>6. CheckGoal \/ RunBody \/ LoadSave \/ ItemsArrive \/ GoalSent \/ GroupWindowEnds \/ ShowMessage
      => UNCHANGED <<told, announced, link, losses>>
  BY DEF CheckGoal, RunBody, LoadSave, ItemsArrive, GoalSent, GroupWindowEnds, ShowMessage,
         clientVars, hudVars, linkVars, bounds, history, GameOnly, TickOnly
<1> HIDE DEF Kept
<1> QED
  BY <1>1, <1>2, <1>3, <1>4, <1>5, <1>6, NotAnnouncing DEF Next, Game, Link, Callbacks, Tick, TimePasses

\* What was granted is announced, on one connection once, and what was announced
\* is shown or waiting (_announce_received_items, queue_received_items), for any
\* number of items, senders, lost connections and loaded saves.
THEOREM ItemsAnnouncedFaithfully == Spec => []AnnouncedFaithfully
<1> DEFINE Told == QueueKept /\ Granting /\ ToldEnough /\ ToldNotTwice
<1>1. Init => Told
  BY AnnouncingInit
<1>2. WellTyped /\ Numbers /\ Told /\ [Next]_vars => Told'
  BY QueueKeptStep, GrantingStep, ToldEnoughStep, ToldNotTwiceStep
<1>3. WellTyped /\ Numbers /\ Told => AnnouncedFaithfully
  <2> SUFFICES ASSUME WellTyped, Numbers, Told PROVE AnnouncedFaithfully
    OBVIOUS
  <2>0. Len(script.incoming) \in Nat /\ losses \in Nat
    BY ReportsAssumption DEF WellTyped, Granting
  <2>1. QueueConserves
    BY DEF QueueKept, OneEach, QueueConserves
  <2>2. NoSilentGrant
    <3>1. script.reflected \in 0 .. Len(script.incoming) /\ granted \in 0 .. Len(script.incoming)
      BY ReportsAssumption DEF WellTyped, Granting
    <3>2. \A l \in Lines : LineCount(l, script.reflected + 1, granted) \in Nat /\ told[l] \in Nat
      BY <2>0, <3>1, SayingFinite DEF QueueKept
    <3>3. \A l \in Lines : LineCount(l, script.reflected + 1, granted) <= told[l]
      BY DEF ToldEnough
    <3> QED
      BY <3>2, <3>3 DEF NoSilentGrant
  <2>3. AnnouncedOnce
    <3> SUFFICES ASSUME NEW l \in Lines
                 PROVE  told[l] <= (losses + 1) * LineCount(l, 1, Len(script.incoming))
      BY DEF AnnouncedOnce
    <3> DEFINE A == LineCount(l, 1, Len(script.incoming))
               X == losses * A
               Y == (losses - 1) * A
    <3>1. A \in Nat /\ told[l] \in Nat
      BY <2>0, SayingFinite DEF QueueKept
    <3>2. (OnThisConnection(l) <= A /\ OnThisConnection(l) \in Nat) \/ link = "down"
      <4>1. announced = Unannounced \/ announced \in 0 .. Len(script.incoming) \/ link = "down"
        BY <2>0 DEF Numbers, Unannounced
      <4>2. CASE announced = Unannounced
        BY <3>1, <4>2 DEF OnThisConnection
      <4>3. CASE announced # Unannounced /\ announced \in 0 .. Len(script.incoming)
        <5>1. LineCount(l, 1, announced) <= A /\ LineCount(l, 1, announced) \in Nat
          BY <2>0, <4>3, LineMonotone, SayingFinite
        <5> QED
          BY <4>3, <5>1 DEF OnThisConnection
      <4> QED
        BY <4>1, <4>2, <4>3
    <3>3. X \in Nat /\ (losses + 1) * A = X + A /\ (losses >= 1 => Y \in Nat /\ X = Y + A)
      BY <2>0, <3>1, OneMore
    <3>4. /\ link = "up" => told[l] <= X + OnThisConnection(l)
          /\ link = "dying" => losses >= 1 /\ told[l] <= Y + OnThisConnection(l)
          /\ link = "down" => told[l] <= X
      BY DEF ToldNotTwice
    <3>5. link \in {"up", "dying", "down"}
      BY DEF WellTyped, Connection
    <3> HIDE DEF A, X, Y
    <3>6. told[l] <= X + A
      BY <3>1, <3>2, <3>3, <3>4, <3>5
    <3> QED
      BY <3>3, <3>6 DEF A
  <2> QED
    BY <2>1, <2>2, <2>3 DEF AnnouncedFaithfully
<1> HIDE DEF Told
<1> QED
  BY <1>1, <1>2, <1>3, ReportsTypeCorrect, PTL DEF Spec
-----------------------------------------------------------------------------
(* All parts together.                                                     *)

\* A behaviour of the parts is one of ServerReports, or leaves it alone.
LEMMA ReportsPart == PartsSpec => Spec
<1>1. PartsInit => Init
  BY DEF PartsInit
<1>2. [PartsNext]_allVars => [Next]_vars
  BY DEF PartsNext, OnFreeze, OnDeath, OnIso, OnReports, allVars
<1> QED
  BY <1>1, <1>2, PTL DEF PartsSpec, Spec

\* DeathLinks are on their way, have arrived, or will not.
DeathCounts ==
  /\ inflight \in Nat /\ arrived \in Nat /\ arrived + inflight <= MaxIncoming
  /\ kills \in Nat /\ deaths \in 0 .. MaxDeaths

DeathFields ==
  /\ present \in BOOLEAN /\ health \in BOOLEAN /\ alive \in BOOLEAN
  /\ linked \in BOOLEAN /\ enabled \in BOOLEAN
  /\ pending \in BOOLEAN /\ fresh \in BOOLEAN /\ reset \in BOOLEAN /\ seenSet \in BOOLEAN
  /\ ticking \in BOOLEAN /\ polling \in BOOLEAN /\ sawHealth \in BOOLEAN
  /\ unsent \in BOOLEAN /\ givenUp \in BOOLEAN /\ lifeSeen \in BOOLEAN /\ forgot \in BOOLEAN /\ echoed \in BOOLEAN

DeathStages ==
  /\ cause \in {"none", "own", "link"}
  /\ pc \in {"idle", "apply", "write", "writeAlive", "readHealth", "readAlive"}

DeathTypes == DeathFields /\ DeathStages

LEMMA DeathCountsInit == Death!Init => DeathCounts
<1> SUFFICES ASSUME Death!Init PROVE DeathCounts
  OBVIOUS
<1>1. inflight = 0 /\ arrived = 0 /\ kills = 0 /\ deaths = 0
  BY DEF Death!Init
<1> QED
  BY <1>1, Bounds DEF DeathCounts

LEMMA DeathCountsStep == DeathCounts /\ Death!Next => DeathCounts'
<1> SUFFICES ASSUME DeathCounts, Death!Next PROVE DeathCounts'
  OBVIOUS
<1> USE DEF Death!gameVars, Death!linkVars, Death!clientVars, Death!tickVars, Death!history
<1>1. CASE Death!Die
  <2>1. deaths < MaxDeaths /\ deaths' = deaths + 1 /\ UNCHANGED <<inflight, arrived, kills>>
    BY <1>1 DEF Death!Die
  <2> QED
    BY <2>1, Bounds DEF DeathCounts
<1>2. CASE Death!Disconnect \/ Death!RestartClient
  <2>1. inflight' = 0 /\ UNCHANGED <<deaths, arrived, kills>>
    BY <1>2 DEF Death!Disconnect, Death!RestartClient
  <2> QED
    BY <2>1, Bounds DEF DeathCounts
<1>3. CASE Death!GroupDeath
  <2>1. arrived + inflight < MaxIncoming /\ inflight' = inflight + 1 /\ UNCHANGED <<deaths, arrived, kills>>
    BY <1>3 DEF Death!GroupDeath
  <2> QED
    BY <2>1, Bounds DEF DeathCounts
<1>4. CASE Death!OnDeathLink
  <2>1. inflight > 0 /\ inflight' = inflight - 1 /\ arrived' = arrived + 1 /\ UNCHANGED <<deaths, kills>>
    BY <1>4 DEF Death!OnDeathLink
  <2> QED
    BY <2>1, Bounds DEF DeathCounts
<1>5. CASE Death!WriteHealth
  <2>1. kills' \in {kills, kills + 1} /\ UNCHANGED <<deaths, arrived, inflight>>
    BY <1>5 DEF Death!WriteHealth
  <2> QED
    BY <2>1 DEF DeathCounts
<1>6. CASE UNCHANGED <<deaths, arrived, inflight, kills>>
  BY <1>6 DEF DeathCounts
<1>7. \/ Death!DieOn \/ Death!Vanish \/ Death!Appear \/ Death!Connected \/ Death!Toggle
      \/ Death!TimePasses \/ Death!StartTick \/ Death!Poll \/ Death!ApplyPending
      \/ Death!WriteAlive \/ Death!Check
      => UNCHANGED <<deaths, arrived, inflight, kills>>
  BY DEF Death!DieOn, Death!Vanish, Death!Appear, Death!Connected, Death!Toggle, Death!TimePasses,
         Death!StartTick, Death!Poll, Death!ApplyPending, Death!WriteAlive, Death!Check,
         Death!ReadHealth, Death!Decide
<1> QED
  BY <1>1, <1>2, <1>3, <1>4, <1>5, <1>6, <1>7
     DEF Death!Next, Death!Game, Death!Link, Death!Tick, Death!Apply

LEMMA DeathTypesInit == Death!Init => DeathTypes
BY DEF Death!Init, DeathTypes, DeathFields, DeathStages

LEMMA DeathStagesStep == DeathStages /\ Death!Next => DeathStages'
BY DEF DeathStages, Death!Next, Death!Game, Death!Link, Death!Tick, Death!Apply, Death!Check,
       Death!Die, Death!DieOn, Death!Vanish, Death!Appear, Death!Connected, Death!Disconnect,
       Death!GroupDeath, Death!Toggle, Death!RestartClient, Death!TimePasses, Death!OnDeathLink,
       Death!StartTick, Death!Poll, Death!ApplyPending, Death!WriteHealth, Death!WriteAlive,
       Death!AfterApply, Death!ReadHealth, Death!Decide, Death!gameVars, Death!linkVars,
       Death!clientVars, Death!tickVars, Death!history

LEMMA DeathFieldsStep == DeathFields /\ Death!Next => DeathFields'
<1> SUFFICES ASSUME DeathFields, Death!Next PROVE DeathFields'
  OBVIOUS
<1>a. \/ Death!Die \/ Death!DieOn \/ Death!Vanish \/ Death!Appear
      \/ Death!Connected \/ Death!Disconnect \/ Death!GroupDeath \/ Death!Toggle
      \/ Death!RestartClient \/ Death!TimePasses \/ Death!OnDeathLink
      \/ Death!StartTick \/ Death!Poll
      \/ Death!ApplyPending \/ Death!WriteHealth \/ Death!WriteAlive
      \/ Death!ReadHealth \/ Death!Decide
  BY DEF Death!Next, Death!Game, Death!Link, Death!Tick, Death!Apply, Death!Check
<1> DEFINE Kept == DeathFields'
<1> SUFFICES Kept
  OBVIOUS
<1> USE DEF DeathFields, Death!gameVars, Death!linkVars, Death!clientVars, Death!tickVars, Death!history
<1>1. CASE Death!Die
  <2>1. UNCHANGED <<present, linked, enabled, pending, fresh, reset, seenSet, ticking, polling,
                   sawHealth, lifeSeen, forgot, echoed>>
    BY <1>1 DEF Death!Die
  <2>2. health' \in BOOLEAN /\ alive' \in BOOLEAN /\ unsent' \in BOOLEAN /\
        givenUp' \in BOOLEAN
    BY <1>1, Zenon DEF Death!Die
  <2> QED
    BY <2>1, <2>2
<1>2. CASE Death!DieOn
  <2>1. UNCHANGED <<present, linked, enabled, pending, fresh, reset, seenSet, ticking, polling,
                   sawHealth, unsent, givenUp, lifeSeen, forgot, echoed>>
    BY <1>2 DEF Death!DieOn
  <2>2. health' \in BOOLEAN /\ alive' \in BOOLEAN
    BY <1>2, Zenon DEF Death!DieOn
  <2> QED
    BY <2>1, <2>2
<1>3. CASE Death!Vanish
  <2>1. UNCHANGED <<health, alive, linked, enabled, pending, fresh, reset, seenSet, ticking,
                   polling, sawHealth, unsent, givenUp, lifeSeen, forgot, echoed>>
    BY <1>3 DEF Death!Vanish
  <2>2. present' \in BOOLEAN
    BY <1>3, Zenon DEF Death!Vanish
  <2> QED
    BY <2>1, <2>2
<1>4. CASE Death!Appear
  <2>1. UNCHANGED <<linked, enabled, pending, fresh, reset, seenSet, ticking, polling,
                   sawHealth, givenUp, echoed>>
    BY <1>4 DEF Death!Appear
  <2>2. present' \in BOOLEAN /\ health' \in BOOLEAN /\ alive' \in BOOLEAN /\
        unsent' \in BOOLEAN /\ lifeSeen' \in BOOLEAN /\ forgot' \in BOOLEAN
    BY <1>4, Zenon DEF Death!Appear
  <2> QED
    BY <2>1, <2>2
<1>5. CASE Death!Connected
  <2>1. UNCHANGED <<present, health, alive, pending, fresh, reset, seenSet, ticking, polling,
                   sawHealth, unsent, givenUp, lifeSeen, forgot, echoed>>
    BY <1>5 DEF Death!Connected
  <2>2. linked' \in BOOLEAN /\ enabled' \in BOOLEAN
    BY <1>5, Zenon DEF Death!Connected
  <2> QED
    BY <2>1, <2>2
<1>6. CASE Death!Disconnect
  <2>1. UNCHANGED <<present, health, alive, enabled, pending, fresh, reset, seenSet, ticking,
                   polling, sawHealth, unsent, givenUp, lifeSeen, forgot, echoed>>
    BY <1>6 DEF Death!Disconnect
  <2>2. linked' \in BOOLEAN
    BY <1>6, Zenon DEF Death!Disconnect
  <2> QED
    BY <2>1, <2>2
<1>7. CASE Death!GroupDeath
  <2>1. UNCHANGED <<present, health, alive, linked, enabled, pending, fresh, reset, seenSet,
                   ticking, polling, sawHealth, unsent, givenUp, lifeSeen, forgot, echoed>>
    BY <1>7 DEF Death!GroupDeath
  <2> QED
    BY <2>1
<1>8. CASE Death!Toggle
  <2>1. UNCHANGED <<present, health, alive, linked, fresh, reset, seenSet, ticking, polling,
                   sawHealth, unsent, givenUp, lifeSeen, forgot, echoed>>
    BY <1>8 DEF Death!Toggle
  <2>2. enabled' \in BOOLEAN /\ pending' \in BOOLEAN
    BY <1>8, Zenon DEF Death!Toggle
  <2> QED
    BY <2>1, <2>2
<1>9. CASE Death!RestartClient
  <2>1. UNCHANGED <<present, health, alive, unsent, lifeSeen, echoed>>
    BY <1>9 DEF Death!RestartClient
  <2>2. linked' \in BOOLEAN /\ enabled' \in BOOLEAN /\ pending' \in BOOLEAN /\
        fresh' \in BOOLEAN /\ reset' \in BOOLEAN /\ seenSet' \in BOOLEAN /\
        ticking' \in BOOLEAN /\ polling' \in BOOLEAN /\ sawHealth' \in BOOLEAN /\
        givenUp' \in BOOLEAN /\ forgot' \in BOOLEAN
    BY <1>9, Zenon DEF Death!RestartClient
  <2> QED
    BY <2>1, <2>2
<1>10. CASE Death!TimePasses
  <2>1. UNCHANGED <<present, health, alive, linked, enabled, pending, reset, seenSet, ticking,
                   polling, sawHealth, unsent, givenUp, lifeSeen, forgot, echoed>>
    BY <1>10 DEF Death!TimePasses
  <2>2. fresh' \in BOOLEAN
    BY <1>10, Zenon DEF Death!TimePasses
  <2> QED
    BY <2>1, <2>2
<1>11. CASE Death!OnDeathLink
  <2>1. UNCHANGED <<present, health, alive, linked, enabled, reset, seenSet, ticking,
                   sawHealth, unsent, givenUp, lifeSeen, forgot, echoed>>
    BY <1>11 DEF Death!OnDeathLink
  <2>2. pending' \in BOOLEAN /\ fresh' \in BOOLEAN /\ polling' \in BOOLEAN
    BY <1>11, Zenon DEF Death!OnDeathLink
  <2> QED
    BY <2>1, <2>2
<1>12. CASE Death!StartTick
  <2>1. UNCHANGED <<present, health, alive, linked, enabled, pending, fresh, reset, seenSet,
                   polling, sawHealth, unsent, givenUp, lifeSeen, forgot, echoed>>
    BY <1>12 DEF Death!StartTick
  <2>2. ticking' \in BOOLEAN
    BY <1>12, Zenon DEF Death!StartTick
  <2> QED
    BY <2>1, <2>2
<1>13. CASE Death!Poll
  <2>1. UNCHANGED <<present, health, alive, linked, enabled, pending, fresh, reset, seenSet,
                   sawHealth, unsent, givenUp, lifeSeen, forgot, echoed>>
    BY <1>13 DEF Death!Poll
  <2>2. ticking' \in BOOLEAN /\ polling' \in BOOLEAN
    BY <1>13, Zenon DEF Death!Poll
  <2> QED
    BY <2>1, <2>2
<1>14. CASE Death!ApplyPending
  <2>1. UNCHANGED <<present, health, alive, linked, enabled, fresh, reset, seenSet, ticking,
                   sawHealth, unsent, givenUp, lifeSeen, forgot, echoed>>
    BY <1>14 DEF Death!ApplyPending, Death!AfterApply
  <2>2. pending' \in BOOLEAN /\ polling' \in BOOLEAN
    BY <1>14, Zenon DEF Death!ApplyPending, Death!AfterApply
  <2> QED
    BY <2>1, <2>2
<1>15. CASE Death!WriteHealth
  <2>1. UNCHANGED <<present, alive, linked, enabled, fresh, reset, seenSet, ticking, sawHealth,
                   givenUp, lifeSeen, forgot, echoed>>
    BY <1>15 DEF Death!WriteHealth, Death!AfterApply
  <2>2. health' \in BOOLEAN /\ pending' \in BOOLEAN /\ polling' \in BOOLEAN /\
        unsent' \in BOOLEAN
    BY <1>15, Zenon DEF Death!WriteHealth, Death!AfterApply
  <2> QED
    BY <2>1, <2>2
<1>16. CASE Death!WriteAlive
  <2>1. UNCHANGED <<present, health, linked, enabled, pending, fresh, seenSet, ticking,
                   sawHealth, unsent, givenUp, lifeSeen, forgot, echoed>>
    BY <1>16 DEF Death!WriteAlive, Death!AfterApply
  <2>2. alive' \in BOOLEAN /\ reset' \in BOOLEAN /\ polling' \in BOOLEAN
    BY <1>16, Zenon DEF Death!WriteAlive, Death!AfterApply
  <2> QED
    BY <2>1, <2>2
<1>17. CASE Death!ReadHealth
  <2>1. UNCHANGED <<present, health, alive, linked, enabled, pending, fresh, reset, seenSet,
                   ticking, polling, unsent, givenUp, lifeSeen, forgot, echoed>>
    BY <1>17 DEF Death!ReadHealth
  <2>2. sawHealth' \in BOOLEAN
    BY <1>17, Zenon DEF Death!ReadHealth
  <2> QED
    BY <2>1, <2>2
<1>18. CASE Death!Decide
  <2>1. UNCHANGED <<present, health, alive, linked, enabled, pending, fresh, ticking, polling,
                   forgot>>
    BY <1>18 DEF Death!Decide, Death!SendDeath, Death!GiveUp, Death!Dead, Death!SeenSet
  <2>2. reset' \in BOOLEAN /\ seenSet' \in BOOLEAN /\ sawHealth' \in BOOLEAN /\
        unsent' \in BOOLEAN /\ givenUp' \in BOOLEAN /\ lifeSeen' \in BOOLEAN /\
        echoed' \in BOOLEAN
    BY <1>18, Zenon DEF Death!Decide, Death!SendDeath, Death!GiveUp, Death!Dead, Death!SeenSet
  <2> QED
    BY <2>1, <2>2
<1> HIDE DEF Kept
<1> QED
  BY <1>a, <1>1, <1>2, <1>3, <1>4, <1>5, <1>6, <1>7, <1>8, <1>9, <1>10, <1>11,
     <1>12, <1>13, <1>14, <1>15, <1>16, <1>17, <1>18

\* Every variable of the four parts keeps its type: no more DeathLinks arrive than
\* the group sent, no more is announced, granted or reflected than the server sent,
\* and nothing is on its way over a connection that is not up.
THEOREM PartsTypeCorrect == PartsSpec => []TypesOK
<1> DEFINE Inv == FreezeInv /\ IsoInv /\ DeathCounts /\ DeathTypes
<1>1. PartsInit => Inv
  BY FreezeInit, IsoInit, DeathCountsInit, DeathTypesInit DEF PartsInit
<1>2. Inv /\ [PartsNext]_allVars => Inv'
  <2> SUFFICES ASSUME Inv, [PartsNext]_allVars PROVE Inv'
    OBVIOUS
  <2>1. FreezeInv'
    <3>1. CASE Freeze!Next
      BY <3>1, FreezeStep
    <3>2. CASE UNCHANGED freezeVars
      BY <3>2 DEF freezeVars, FreezeInv, FreezeCounts, FreezeFlags, FreezeOver, Freeze!Bodies,
                  Freeze!NoFreezeAfterWornOff, Freeze!AttemptsAwaited
    <3> QED
      BY <3>1, <3>2 DEF PartsNext, OnFreeze, OnDeath, OnIso, OnReports, allVars
  <2>2. IsoInv'
    <3>1. CASE Iso!Next
      BY <3>1, IsoStep
    <3>2. CASE UNCHANGED isoVars
      BY <3>2 DEF isoVars, IsoInv, Iso!TypeOK, GoneIdle, ThreadsAwaited, OneAtATime, OutputThere,
                  Active, Iso!Busy, Iso!Running, Iso!LaunchWhole
    <3> QED
      BY <3>1, <3>2 DEF PartsNext, OnFreeze, OnDeath, OnIso, OnReports, allVars
  <2>3. DeathCounts' /\ DeathTypes'
    <3>1. CASE Death!Next
      BY <3>1, DeathCountsStep, DeathFieldsStep, DeathStagesStep DEF DeathTypes
    <3>2. CASE UNCHANGED deathVars
      BY <3>2 DEF deathVars, DeathCounts, DeathTypes, DeathFields, DeathStages
    <3> QED
      BY <3>1, <3>2 DEF PartsNext, OnFreeze, OnDeath, OnIso, OnReports, allVars
  <2> QED
    BY <2>1, <2>2, <2>3
<1>3. Inv /\ Kills /\ WellTyped /\ Numbers => TypesOK
  <2> SUFFICES ASSUME Inv, Kills, WellTyped, Numbers PROVE TypesOK
    OBVIOUS
  <2>1. Freeze!TypeOK
    BY DEF FreezeInv, FreezeCounts, FreezeFlags, Freeze!TypeOK
  <2>2. Iso!TypeOK
    BY DEF IsoInv
  <2>3. inflight \in 0 .. MaxIncoming /\ deaths \in 0 .. MaxDeaths /\ arrived \in 0 .. MaxIncoming
        /\ kills \in 0 .. MaxIncoming
    BY Bounds DEF DeathCounts, Kills
  <2>4. Death!TypeOK
    BY <2>3 DEF Death!TypeOK, DeathTypes, DeathFields, DeathStages
  <2>5. TypeOK
    BY DEF WellTyped, Numbers, ScansKnown, Connection, TypeOK
  <2> QED
    BY <2>1, <2>2, <2>4, <2>5 DEF TypesOK
<1> HIDE DEF Inv
<1> QED
  BY <1>1, <1>2, <1>3, ReportsPart, ReportsTypeCorrect, DeathInvariant, PTL DEF PartsSpec
=============================================================================
