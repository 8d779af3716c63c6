------------------------- MODULE PickupChannelProofs -------------------------
(***************************************************************************)
(* What holds of the pickup channel for every number of pickups, every     *)
(* counter layout that satisfies the source's assert, and every length of  *)
(* run, wherever bodies, loads and crashes fall in a tick.  Two inductive  *)
(* invariants: Counting gives OneBitPerPickup and NoInventedCheck, and     *)
(* Lossless, which adds what sending before consuming buys, NoLostCheck.   *)
(* Both speak of a counter until a read or a body of it is overtaken.      *)
(***************************************************************************)
EXTENDS PickupChannel, ComputationProofs
-----------------------------------------------------------------------------
(* Type correctness.                                                       *)

LEMMA TypeInit == Init => TypeOK
<1>1. NoAmounts \in Amounts
  BY DEF NoAmounts, Amounts
<1>2. NoDeltas \in DeltaMaps
  BY DeltasType
<1> SUFFICES ASSUME Init PROVE TypeOK
  OBVIOUS
<1>3. saved \in [collected : SUBSET Pickups, amount : Amounts]
  BY <1>1 DEF Init
<1>4. pendingOp \in BOOLEAN /\ hooked \in BOOLEAN /\ linked \in BOOLEAN /\ pc \in TickPoints
  BY DEF Init, TickPoints
<1> QED
  BY <1>1, <1>2, <1>3, <1>4 DEF Init, TypeOK

LEMMA TypeStep == TypeOK /\ [Next]_vars => TypeOK'
<1> SUFFICES ASSUME TypeOK, [Next]_vars PROVE TypeOK'
  OBVIOUS
<1> USE DEF TypeOK, TickPoints, history
<1>0. NoAmounts \in Amounts
  BY DEF NoAmounts, Amounts
<1>1. ASSUME NEW p \in Pickups, Collect(p) PROVE TypeOK'
  BY <1>1, AddPickupType DEF Collect, clientVars, serverVars
<1>2. CASE SaveGame
  BY <1>2 DEF SaveGame, clientVars, serverVars
<1>3. CASE LoadGame
  <2>1. Outdated(snapshot, saved.amount) \cup Outdated(body, saved.amount) \subseteq Counters
    BY DeltaMapsElim DEF Outdated, Amounts
  <2> QED
    BY <1>3, <2>1 DEF LoadGame, clientVars, serverVars
<1>4. Outdated(snapshot, amount') \subseteq Counters
  BY DEF Outdated, Amounts
<1>5. CASE RunBody
  BY <1>4, <1>5, ConsumeType DEF RunBody, clientVars, serverVars
<1>6. CASE CloseGame
  BY <1>6 DEF CloseGame, serverVars
<1>7. CASE Hook \/ Crash \/ AbortTick
  BY <1>7, <1>0 DEF Hook, Crash, AbortTick, gameVars, serverVars
<1>8. CASE ReadInventory \/ PendingOpGuard \/ NothingToDo
  BY <1>8, <1>0 DEF ReadInventory, PendingOpGuard, NothingToDo, gameVars, serverVars
<1>9. CASE WriteOtherBody \/ WriteConsumeBody
  BY <1>9, <1>0, DeltasType DEF WriteOtherBody, WriteConsumeBody, gameVars, serverVars
<1>10. CASE ReportPickups
  BY <1>10, DecodeType DEF ReportPickups, gameVars
<1>11. CASE SetPendingOp
  BY <1>11 DEF SetPendingOp, serverVars
<1>12. CASE Server
  BY <1>12 DEF Server, Connect, Disconnect, Deliver, gameVars, clientVars
<1>13. CASE UNCHANGED vars
  BY <1>13 DEF vars, gameVars, clientVars, serverVars
<1> QED
  BY <1>1, <1>2, <1>3, <1>5, <1>6, <1>7, <1>8, <1>9, <1>10, <1>11, <1>12, <1>13
  DEF Next, Game, Client, Tick

\* Every variable keeps its type, whatever the game and the server do.
THEOREM TypeCorrect == Spec => []TypeOK
BY TypeInit, TypeStep, PTL DEF Spec
-----------------------------------------------------------------------------
(* Counting is inductive.                                                  *)

LEMMA CountingInit == Init => Counting
<1> SUFFICES ASSUME Init PROVE Counting
  OBVIOUS
<1>1. \A S, C : InLockstep(NoAmounts, S, Counters \ C)
  BY DEF InLockstep, NoAmounts
<1>2. NothingStale
  BY DEF Init, NothingStale
<1> QED
  BY <1>1, <1>2, TypeInit DEF Init, Counting, OneBitPerPickup, NoInventedCheck, Reported

\* A pickup that is not collected has no bit in a counter in lockstep.
LEMMA FreshWhenNotCollected ==
  ASSUME NEW amt \in Amounts, NEW S \in SUBSET Pickups, NEW C, InLockstep(amt, S, C),
         NEW p \in Pickups, p \notin S, CounterOf(p) \in C
  PROVE  ~ Holds(amt, p)
BY SlotInRange, SlotsUnique DEF InLockstep, Holds

\* What counters in lockstep decode to was collected.
LEMMA DecodeInLockstep ==
  ASSUME NEW amt \in Amounts, NEW S \in SUBSET Pickups, NEW C, InLockstep(amt, S, C),
         NEW p \in Decode(amt), CounterOf(p) \in C
  PROVE  p \in S
BY DecodeType, DecodeInverts, FreshWhenNotCollected

LEMMA LockstepGrows ==
  ASSUME NEW amt, NEW S, NEW T, NEW C, NEW D, S \subseteq T, D \subseteq C,
         InLockstep(amt, S, C)
  PROVE  InLockstep(amt, T, D)
BY DEF InLockstep

\* A counter that was not overtaken loses exactly the bits the body was armed with.
LEMMA RunBodyClears ==
  ASSUME TypeOK, NothingStale, RunBody, NEW c \in Counters, c \notin stale
  PROVE  amount'[c] = IF c \in DOMAIN body THEN amount[c] \ body[c] ELSE amount[c]
<1>1. c \in DOMAIN body => body[c] \subseteq amount[c]
  BY DEF RunBody, NothingStale, Outdated
<1>2. c \in DOMAIN body => Minus(amount[c], body[c]) = amount[c] \ body[c]
  BY <1>1, MinusSubset DEF TypeOK, Amounts
<1> QED
  BY <1>2 DEF RunBody, Consume

\* Nothing takes back that a counter was overtaken.
LEMMA StaleGrows == [Next]_vars => stale \subseteq stale'
<1> USE DEF history
<1>1. ASSUME NEW p \in Pickups, Collect(p) PROVE stale' = stale
  BY <1>1 DEF Collect
<1>2. CASE Game
  BY <1>2 DEF Game, SaveGame, LoadGame, RunBody, CloseGame
<1>3. CASE Client
  BY <1>3 DEF Client, Tick, Hook, Crash, ReadInventory, PendingOpGuard, WriteOtherBody,
     NothingToDo, ReportPickups, WriteConsumeBody, SetPendingOp, AbortTick
<1>4. CASE Server
  BY <1>4 DEF Server, Connect, Disconnect, Deliver
<1>5. CASE UNCHANGED vars
  BY <1>5 DEF vars
<1> QED
  BY <1>1, <1>2, <1>3, <1>4, <1>5 DEF Next

LEMMA CountingStep == Counting /\ [Next]_vars => Counting'
<1> SUFFICES ASSUME Counting, [Next]_vars PROVE Counting'
  OBVIOUS
<1> USE DEF OneBitPerPickup, NoInventedCheck, Reported, Overtaken, history
<1>t. TypeOK /\ TypeOK'
  BY TypeStep DEF Counting
<1>g. stale \subseteq stale'
  BY StaleGrows
<1>s. InLockstep(NoAmounts, everCollected', Counters \ stale')
  BY DEF InLockstep, NoAmounts
<1>1. ASSUME NEW p \in Pickups, Collect(p) PROVE Counting'
  <2>1. CounterOf(p) \in Counters /\ stale' = stale
    BY <1>1, SlotInRange DEF Collect
  <2>2. ASSUME NEW c \in Counters, c \notin stale
        PROVE  amount'[c] = IF c = CounterOf(p) THEN amount[c] \cup {BitOf(p)} ELSE amount[c]
    <3>1. CASE c = CounterOf(p)
      <4>1. ~ Holds(amount, p)
        BY <1>1, <1>t, <2>1, <2>2, <3>1, FreshWhenNotCollected DEF Collect, Counting, TypeOK
      <4> QED
        BY <1>1, <1>t, <4>1, AddFreshPickup DEF Collect, TypeOK
    <3>2. CASE c # CounterOf(p)
      BY <1>1, <1>t, <3>2 DEF Collect, AddPickup, TypeOK, Amounts
    <3> QED
      BY <3>1, <3>2
  <2>3. InLockstep(amount', collected', Counters \ stale')
    <3>1. ASSUME NEW c \in Counters \ stale, NEW b \in amount'[c]
          PROVE  \E q \in collected' : CounterOf(q) = c /\ BitOf(q) = b
      <4>1. CASE c = CounterOf(p) /\ b = BitOf(p)
        BY <1>1, <4>1 DEF Collect
      <4>2. CASE b \in amount[c]
        BY <1>1, <4>2 DEF Collect, Counting, InLockstep
      <4> QED
        BY <2>2, <4>1, <4>2
    <3> QED
      BY <2>1, <3>1 DEF InLockstep
  <2>4. InLockstep(snapshot', everCollected', Counters \ stale')
    BY <1>1, <2>1, LockstepGrows DEF Collect, Counting, clientVars
  <2>5. NothingStale'
    <3>1. ASSUME NEW c \in Counters, c \notin stale PROVE amount[c] \subseteq amount'[c]
      BY <2>2, <3>1
    <3>2. \A c \in DOMAIN body : c \in Counters
      BY <1>t, DeltaMapsElim DEF TypeOK
    <3>3. \A c \in DOMAIN snapshot : c \in Counters
      BY <1>t DEF TypeOK, Amounts
    <3> QED
      BY <1>1, <2>1, <3>1, <3>2, <3>3
      DEF Collect, Counting, NothingStale, Outdated, clientVars
  <2> QED
    BY <1>1, <1>t, <2>3, <2>4, <2>5 DEF Collect, Counting, clientVars, serverVars
<1>2. CASE SaveGame
  BY <1>2, <1>t DEF SaveGame, Counting, NothingStale, clientVars, serverVars
<1>3. CASE LoadGame
  <2>1. InLockstep(amount', collected', Counters \ stale')
    BY <1>3, <1>g, LockstepGrows DEF LoadGame, Counting
  <2>2. InLockstep(saved'.amount, saved'.collected, Counters \ stale')
    BY <1>3, <1>g, LockstepGrows DEF LoadGame, Counting
  <2>3. InLockstep(snapshot', everCollected', Counters \ stale')
    BY <1>3, <1>g, LockstepGrows DEF LoadGame, Counting, clientVars
  <2>4. NothingStale'
    BY <1>3, <1>t DEF LoadGame, Counting, NothingStale, TypeOK, clientVars
  <2> QED
    BY <1>3, <1>g, <1>t, <2>1, <2>2, <2>3, <2>4 DEF LoadGame, Counting, clientVars, serverVars
<1>5. CASE RunBody
  <2>1. pc \in {"idle", "guard"} \/ ~hooked
    BY <1>5, <1>t DEF RunBody, Counting, NothingStale, TypeOK, TickPoints
  <2>2. \A c \in Counters \ stale' : amount'[c] \subseteq amount[c]
    BY <1>5, <1>g, <1>t, RunBodyClears DEF Counting
  <2>3. InLockstep(amount', collected', Counters \ stale')
    <3>1. collected' = collected /\ InLockstep(amount, collected, Counters \ stale')
      BY <1>5, <1>g, LockstepGrows DEF RunBody, Counting
    <3> QED
      BY <2>2, <3>1 DEF InLockstep
  <2>4. InLockstep(saved'.amount, saved'.collected, Counters \ stale')
    BY <1>5, <1>g, LockstepGrows DEF RunBody, Counting
  <2>5. InLockstep(snapshot', everCollected', Counters \ stale')
    BY <1>5, <1>g, LockstepGrows DEF RunBody, Counting, clientVars
  <2>6. NothingStale'
    BY <1>5, <1>t, <2>1 DEF RunBody, Counting, NothingStale, clientVars
  <2> QED
    BY <1>5, <1>g, <1>t, <2>3, <2>4, <2>5, <2>6 DEF RunBody, Counting, clientVars, serverVars
<1>6. CASE CloseGame
  BY <1>6, <1>t DEF CloseGame, Counting, NothingStale, serverVars
<1>7. CASE Hook \/ Crash \/ AbortTick
  BY <1>7, <1>s, <1>t DEF Hook, Crash, AbortTick, Counting, NothingStale, gameVars, serverVars
<1>8. CASE ReadInventory
  <2>1. InLockstep(snapshot', everCollected', Counters \ stale')
    BY <1>8, LockstepGrows DEF ReadInventory, Counting
  <2>2. Outdated(snapshot', amount') = {}
    BY <1>8 DEF ReadInventory, Outdated, gameVars
  <2> QED
    BY <1>8, <1>t, <2>1, <2>2 DEF ReadInventory, Counting, NothingStale, gameVars, serverVars
<1>9. CASE PendingOpGuard \/ NothingToDo
  BY <1>9, <1>s, <1>t DEF PendingOpGuard, NothingToDo, Counting, NothingStale, gameVars, serverVars
<1>10. CASE WriteOtherBody
  <2>1. Outdated(NoDeltas, amount') = {}
    BY DeltasType DEF Outdated
  <2> QED
    BY <1>10, <1>s, <1>t, <2>1
    DEF WriteOtherBody, Counting, NothingStale, gameVars, serverVars
<1>11. CASE ReportPickups
  <2>1. \A p \in Decode(snapshot) : p \in everCollected \/ CounterOf(p) \in stale
    <3>1. ASSUME NEW p \in Decode(snapshot), CounterOf(p) \notin stale PROVE p \in everCollected
      <4>1. CounterOf(p) \in Counters \ stale
        BY <3>1, DecodeType, SlotInRange
      <4> QED
        BY <1>t, <3>1, <4>1, DecodeInLockstep DEF Counting, TypeOK
    <3> QED
      BY <3>1
  <2> QED
    BY <1>11, <1>t, <2>1 DEF ReportPickups, Counting, NothingStale, gameVars
<1>12. CASE WriteConsumeBody
  <2>1. \A c \in DOMAIN body' : c \in Counters /\ body'[c] = snapshot[c]
    BY <1>12, <1>t, DeltasType, DeltaMapsElim DEF WriteConsumeBody, TypeOK
  <2>2. Outdated(body', amount') \subseteq Outdated(snapshot, amount)
    BY <1>12, <1>t, <2>1 DEF WriteConsumeBody, Outdated, gameVars, TypeOK, Amounts
  <2> QED
    BY <1>12, <1>s, <1>t, <2>2 DEF WriteConsumeBody, Counting, NothingStale, gameVars, serverVars
<1>13. CASE SetPendingOp
  BY <1>13, <1>t DEF SetPendingOp, Counting, NothingStale, serverVars
<1>14. CASE Server
  BY <1>14, <1>t
  DEF Server, Connect, Disconnect, Deliver, Counting, NothingStale, gameVars, clientVars
<1>15. CASE UNCHANGED vars
  BY <1>15, <1>t DEF Counting, NothingStale, vars, gameVars, clientVars, serverVars
<1> QED
  BY <1>1, <1>2, <1>3, <1>5, <1>6, <1>7, <1>8, <1>9, <1>10, <1>11, <1>12, <1>13, <1>14, <1>15
  DEF Next, Game, Client, Tick

\* Whatever the connection does and wherever bodies, loads and crashes fall in a
\* tick: as long as a counter was not overtaken, no pickup is added to it twice and
\* none of its locations is reported whose pickup was not collected.
THEOREM CountingHolds == Spec => [](OneBitPerPickup /\ NoInventedCheck)
<1>1. Counting => OneBitPerPickup /\ NoInventedCheck
  BY DEF Counting
<1> QED
  BY <1>1, CountingInit, CountingStep, PTL DEF Spec
-----------------------------------------------------------------------------
(* The body is never written while it is armed.  This needs only that the  *)
(* guard is passed with the byte clear and that nobody else sets it.       *)

SoleWriter == pc \in {"act", "consume", "flag"} => ~pendingOp

LEMMA LoadArmsNothing == LoadGame => (pendingOp' => pendingOp)
BY Zenon DEF LoadGame

LEMMA SoleWriterStep ==
  SoleWriter /\ [Next]_vars => SoleWriter' /\ (body' # body => ~pendingOp)
<1> SUFFICES ASSUME SoleWriter, [Next]_vars
             PROVE  SoleWriter' /\ (body' # body => ~pendingOp)
  OBVIOUS
<1> USE DEF SoleWriter
<1>1. CASE (\E p \in Pickups : Collect(p)) \/ SaveGame \/ RunBody \/ CloseGame
  BY <1>1 DEF Collect, SaveGame, RunBody, CloseGame, clientVars
<1>6. CASE LoadGame
  <2>1. (pendingOp' => pendingOp) /\ pc' = pc /\ body' = body
    BY <1>6, LoadArmsNothing DEF LoadGame, clientVars
  <2> QED
    BY <2>1
<1>2. CASE Hook \/ Crash \/ ReadInventory \/ PendingOpGuard \/ NothingToDo
  BY <1>2 DEF Hook, Crash, ReadInventory, PendingOpGuard, NothingToDo, gameVars
<1>3. CASE ReportPickups \/ WriteOtherBody \/ WriteConsumeBody \/ SetPendingOp \/ AbortTick
  BY <1>3 DEF ReportPickups, WriteOtherBody, WriteConsumeBody, SetPendingOp, AbortTick, gameVars
<1>4. CASE Server
  BY <1>4 DEF Server, Connect, Disconnect, Deliver, gameVars, clientVars
<1>5. CASE UNCHANGED vars
  BY <1>5 DEF vars, gameVars, clientVars
<1> QED
  BY <1>1, <1>2, <1>3, <1>4, <1>5, <1>6 DEF Next, Game, Client, Tick

\* Wherever bodies, loads and crashes fall in a tick, a body the game has not
\* consumed is not written over.
THEOREM BodySafe == Spec => BodyNeverOverwritten
<1>1. Init => SoleWriter
  BY DEF Init, SoleWriter
<1>2. SoleWriter /\ [Next]_vars => [body' # body => ~pendingOp]_vars
  BY SoleWriterStep
<1>3. SoleWriter /\ [Next]_vars => SoleWriter'
  BY SoleWriterStep
<1> QED
  BY <1>1, <1>2, <1>3, PTL DEF Spec, BodyNeverOverwritten
-----------------------------------------------------------------------------
(* Lossless is inductive, whatever messages are lost.                      *)

LEMMA LosslessInit == Init => Lossless
BY CountingInit DEF Init, Lossless, NoLostCheck, ReportedFirst, Reported

LEMMA LosslessStep == Lossless /\ [Next]_vars => Lossless'
<1> SUFFICES ASSUME Lossless, [Next]_vars PROVE Lossless'
  OBVIOUS
<1> USE DEF NoLostCheck, Reported, Overtaken, history
<1>t. Counting /\ Counting' /\ TypeOK /\ TypeOK'
  BY CountingStep DEF Lossless, Counting
<1>g. stale \subseteq stale'
  BY StaleGrows
<1>1. ASSUME NEW p \in Pickups, Collect(p) PROVE Lossless'
  <2>1. ASSUME CounterOf(p) \notin stale PROVE ~ Holds(amount, p)
    BY <1>1, <1>t, <2>1, SlotInRange, FreshWhenNotCollected
    DEF Collect, Counting, OneBitPerPickup, TypeOK
  <2>2. ASSUME CounterOf(p) \notin stale, NEW c \in Counters
        PROVE  amount'[c] = IF c = CounterOf(p) THEN amount[c] \cup {BitOf(p)} ELSE amount[c]
    BY <1>1, <1>t, <2>1, <2>2, AddFreshPickup DEF Collect, TypeOK
  <2>3. ASSUME NEW q \in Pickups, CounterOf(q) \notin stale, Holds(amount, q) \/ q = p
        PROVE  Holds(amount', q)
    <3>1. CASE CounterOf(p) \notin stale
      BY <2>2, <2>3, <3>1, SlotInRange DEF Holds
    <3>2. CASE CounterOf(p) \in stale
      BY <1>1, <1>t, <2>3, <3>2, SlotInRange DEF Collect, AddPickup, Holds, TypeOK, Amounts
    <3> QED
      BY <3>1, <3>2
  <2>4. NoLostCheck'
    BY <1>1, <1>t, <2>3 DEF Collect, Lossless, TypeOK, serverVars
  <2> QED
    BY <1>1, <1>t, <2>4 DEF Collect, Lossless, ReportedFirst, clientVars, serverVars
<1>2. CASE SaveGame
  BY <1>2, <1>t DEF SaveGame, Lossless, ReportedFirst, clientVars, serverVars
<1>3. CASE LoadGame
  <2>1. NoLostCheck'
    BY <1>3, <1>g, <1>t DEF LoadGame, Lossless, TypeOK, serverVars
  <2>2. \A p \in saved'.collected : (p \in Reported \/ Holds(saved.amount, p) \/ Overtaken(p))'
    BY <1>3, <1>g, <1>t DEF LoadGame, Lossless, TypeOK, serverVars
  <2>3. ReportedFirst'
    <3>1. (pendingOp' => pendingOp) /\ UNCHANGED <<pc, snapshot, body, sent, checked, lost>>
      BY <1>3, LoadArmsNothing DEF LoadGame, clientVars, serverVars
    <3> QED
      BY <3>1 DEF Lossless, ReportedFirst, Holds
  <2> QED
    BY <1>t, <2>1, <2>2, <2>3 DEF Lossless
<1>5. CASE RunBody
  <2>1. ASSUME NEW q \in Pickups, Holds(amount, q), CounterOf(q) \notin stale
        PROVE  q \in Reported \/ Holds(amount', q)
    <3>1. LET c == CounterOf(q)
          IN  amount'[c] = IF c \in DOMAIN body THEN amount[c] \ body[c] ELSE amount[c]
      BY <1>5, <1>t, <2>1, SlotInRange, RunBodyClears DEF Counting
    <3> QED
      BY <1>5, <2>1, <3>1 DEF RunBody, Lossless, ReportedFirst, Holds
  <2>2. NoLostCheck'
    BY <1>5, <1>g, <1>t, <2>1 DEF RunBody, Lossless, TypeOK, serverVars
  <2>3. \A p \in saved'.collected : (p \in Reported \/ Holds(saved.amount, p) \/ Overtaken(p))'
    BY <1>5, <1>g, <1>t DEF RunBody, Lossless, TypeOK, serverVars
  <2> QED
    BY <1>5, <1>t, <2>2, <2>3 DEF RunBody, Lossless, ReportedFirst, clientVars, serverVars
<1>6. CASE CloseGame
  BY <1>6, <1>t DEF CloseGame, Lossless, ReportedFirst, serverVars
<1>7. CASE Hook \/ Crash \/ AbortTick
  BY <1>7, <1>t DEF Hook, Crash, AbortTick, Lossless, ReportedFirst, gameVars, serverVars
<1>8. CASE ReadInventory \/ PendingOpGuard \/ NothingToDo
  BY <1>8, <1>t
  DEF ReadInventory, PendingOpGuard, NothingToDo, Lossless, ReportedFirst, Counting, NothingStale,
      gameVars, serverVars
<1>9. CASE WriteOtherBody
  BY <1>9, <1>t, DeltasType
  DEF WriteOtherBody, Lossless, ReportedFirst, Counting, NothingStale, gameVars, serverVars
<1>10. CASE ReportPickups
  BY <1>10, <1>t DEF ReportPickups, Lossless, ReportedFirst, Counting, NothingStale, gameVars
<1>11. CASE WriteConsumeBody
  <2>1. ASSUME NEW q \in Pickups, CounterOf(q) \in DOMAIN body', Holds(body', q)
        PROVE  q \in Reported
    <3>1. Holds(snapshot, q)
      BY <1>11, <1>t, <2>1, DeltasType DEF WriteConsumeBody, Holds, TypeOK
    <3> QED
      BY <1>11, <1>t, <3>1, DecodeInverts DEF WriteConsumeBody, Lossless, ReportedFirst, TypeOK
  <2> QED
    BY <1>11, <1>t, <2>1
    DEF WriteConsumeBody, Lossless, ReportedFirst, Counting, NothingStale, gameVars, serverVars
<1>12. CASE SetPendingOp
  BY <1>12, <1>t DEF SetPendingOp, Lossless, ReportedFirst, serverVars
<1>13. CASE Connect \/ Disconnect \/ Deliver
  BY <1>13, <1>t
  DEF Connect, Disconnect, Deliver, Lossless, ReportedFirst, gameVars, clientVars
<1>14. CASE UNCHANGED vars
  BY <1>14, <1>t DEF Lossless, ReportedFirst, vars, gameVars, clientVars, serverVars
<1> QED
  BY <1>1, <1>2, <1>3, <1>5, <1>6, <1>7, <1>8, <1>9, <1>10, <1>11, <1>12, <1>13, <1>14
  DEF Next, Game, Client, Tick, Server

\* No pickup is consumed unreported: it was named in a LocationChecks, or its bit
\* is still in its counter, or its counter was overtaken.
THEOREM ChannelLossless == Spec => []NoLostCheck
<1>1. Lossless => NoLostCheck
  BY DEF Lossless
<1> QED
  BY <1>1, LosslessInit, LosslessStep, PTL DEF Spec
-----------------------------------------------------------------------------
(* Refinement.                                                             *)

LEMMA ReportingStep ==
  Counting /\ [Next]_vars => [Reporting!Next]_(Reporting!vars)
<1> SUFFICES ASSUME Counting, [Next]_vars PROVE [Reporting!Next]_(Reporting!vars)
  OBVIOUS
<1> USE DEF Reporting!Next, Reporting!vars, Reporting!Doubt, Overtaken, history
<1> DEFINE Doubtful == {p \in Pickups : CounterOf(p) \in stale}
<1>g. Doubtful' = Doubtful \cup Doubtful'
  BY StaleGrows
<1>1. ASSUME NEW p \in Pickups, Collect(p) PROVE Reporting!Collect(p)
  BY <1>1 DEF Collect, Reporting!Collect, serverVars
<1>2. ASSUME SaveGame PROVE Reporting!Save
  BY <1>2 DEF SaveGame, Reporting!Save, serverVars
<1>3. ASSUME LoadGame \/ CloseGame PROVE \E S \in SUBSET Pickups : Reporting!Load(S)
  <2>1. Reporting!Load(Doubtful')
    BY <1>3, <1>g DEF LoadGame, CloseGame, Reporting!Load, serverVars
  <2> QED
    BY <2>1
<1>4. ASSUME Deliver PROVE Reporting!Record(sent) /\ sent \in SUBSET (everCollected \cup Doubtful)
  BY <1>4 DEF Deliver, Reporting!Record, Counting, TypeOK, NoInventedCheck, Reported, gameVars
<1>5. ASSUME RunBody PROVE \E S \in SUBSET Pickups : Reporting!Overtake(S)
  <2>1. Reporting!Overtake(Doubtful')
    BY <1>5, <1>g DEF RunBody, Reporting!Overtake, serverVars
  <2> QED
    BY <2>1
<1>8. ASSUME Hook \/ Crash \/ Connect \/ Disconnect
      PROVE  UNCHANGED Reporting!vars
  BY <1>8 DEF Hook, Crash, Connect, Disconnect, gameVars, serverVars
<1>6. ASSUME Tick PROVE UNCHANGED Reporting!vars
  BY <1>6
  DEF Tick, ReadInventory, PendingOpGuard, WriteOtherBody, NothingToDo, ReportPickups,
      WriteConsumeBody, SetPendingOp, AbortTick, gameVars, serverVars
<1>7. ASSUME UNCHANGED vars PROVE UNCHANGED Reporting!vars
  BY <1>7 DEF vars, gameVars, serverVars
<1> QED
  BY <1>1, <1>2, <1>3, <1>4, <1>5, <1>6, <1>7, <1>8 DEF Next, Game, Client, Server

\* Whatever the connection does and wherever bodies, loads and crashes fall in a
\* tick, the channel implements LocationReporting.
THEOREM ChannelImplementsReporting == Spec => ImplementsReporting
<1>1. Init => Reporting!Init
  BY DEF Init, Reporting!Init, Overtaken
<1> QED
  BY <1>1, CountingInit, CountingStep, ReportingStep, PTL
  DEF Spec, ImplementsReporting, Reporting!Spec
=============================================================================
