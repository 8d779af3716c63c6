--------------------------- MODULE ItemGrantProofs ---------------------------
(***************************************************************************)
(* Nothing is granted twice, for every item list, slot data and body       *)
(* budget, provided no body runs between read_inventory and has_pending_op *)
(* of one tick.                                                            *)
(*                                                                         *)
(* The argument: what the client plans is what the received list is worth  *)
(* beyond the capacities it read; those were not below the present ones    *)
(* (loads only lower capacities, and no body is armed while it plans); and *)
(* the received list is worth no more than the server's                    *)
(* (ComputationProofs).                                                    *)
(***************************************************************************)
EXTENDS ItemGrant, ComputationProofs

LEMMA DesiredType ==
  ASSUME NEW list \in Seq(Items)
  PROVE  Desired(list, Data) \in Capacities
<1>1. \A s \in Slots : Desired(list, Data)[s] \in Nat
  BY DesiredMonotone, GrantAssumption DEF Continues
<1> QED
  BY <1>1 DEF Desired, Capacities

\* A batch grants at most what brings a slot from its snapshot to what the
\* received list calls for.
LEMMA PlanBounded ==
  ASSUME TypeOK
  PROVE  /\ DOMAIN Plan \subseteq Slots
         /\ \A s \in DOMAIN Plan :
              Plan[s] \in Nat /\ Plan[s] = Desired(received, Data)[s] - snapshot[s]
         /\ DOMAIN Batch(Plan) \subseteq DOMAIN Plan
         /\ \A s \in DOMAIN Batch(Plan) : Batch(Plan)[s] = Plan[s]
<1> DEFINE D == Desired(received, Data)
<1>1. D \in [Slots -> Nat] /\ snapshot \in [Slots -> Nat]
  BY DesiredType DEF TypeOK, Capacities
<1>2. /\ DOMAIN PlanGrants(D, snapshot) \subseteq Slots
      /\ \A s \in DOMAIN PlanGrants(D, snapshot) :
           /\ PlanGrants(D, snapshot)[s] \in Nat
           /\ PlanGrants(D, snapshot)[s] = D[s] - snapshot[s]
  <2> HIDE DEF D
  <2> QED
    BY <1>1 DEF PlanGrants
<1>3. DOMAIN NoBody = {}
  BY DEF NoBody
<1>4. /\ DOMAIN Plan \subseteq Slots
      /\ \A s \in DOMAIN Plan :
           Plan[s] \in Nat /\ Plan[s] = Desired(received, Data)[s] - snapshot[s]
  <2>1. CASE received = <<>>
    <3>1. Plan = NoBody
      BY <2>1 DEF Plan
    <3> QED
      BY <3>1, <1>3
  <2>2. CASE received # <<>>
    <3>1. Plan = PlanGrants(D, snapshot)
      BY <2>2 DEF Plan
    <3> QED
      BY <3>1, <1>2
  <2> QED
    BY <2>1, <2>2
<1>5. /\ DOMAIN Batch(Plan) \subseteq DOMAIN Plan
      /\ \A s \in DOMAIN Batch(Plan) : Batch(Plan)[s] = Plan[s]
  BY DEF Batch
<1> QED
  BY <1>4, <1>5

\* Every variable keeps its type, bodies running mid-tick or not.
THEOREM GrantTypeCorrect == Spec => []TypeOK
<1> USE DEF Capacities, TickPoints
<1>1. Init => TypeOK
  <2> SUFFICES ASSUME Init PROVE TypeOK
    OBVIOUS
  <2>1. Desired(Start, Data) \in Capacities /\ Start \in Seq(Items)
    BY DesiredType, GrantAssumption
  <2>2. DOMAIN NoBody = {} /\ <<>> \in Seq(Items)
    BY DEF NoBody
  <2> QED
    BY <2>1, <2>2 DEF Init, TypeOK
<1>2. TypeOK /\ [Next]_vars => TypeOK'
  <2> SUFFICES ASSUME TypeOK, [Next]_vars PROVE TypeOK'
    OBVIOUS
  <2> USE DEF vars, serverVars, gameVars, clientVars
  <2>1. ASSUME NEW item \in Pool, FindItem(item) PROVE TypeOK'
    <3>1. items' \in Seq(Items)
      BY <2>1, GrantAssumption DEF FindItem, TypeOK
    <3> QED
      BY <2>1, <3>1 DEF FindItem, TypeOK
  <2>2. CASE Connect
    BY <2>2 DEF Connect, TypeOK
  <2>3. CASE Disconnect
    <3>1. received' \in Seq(Items)
      BY <2>3 DEF Disconnect
    <3> QED
      BY <2>3, <3>1 DEF Disconnect, TypeOK
  <2>4. CASE ReceivePacket
    <3>1. received' \in Seq(Items)
      BY <2>4 DEF ReceivePacket, TypeOK
    <3> QED
      BY <2>4, <3>1 DEF ReceivePacket, TypeOK
  <2>5. CASE SaveGame
    BY <2>5 DEF SaveGame, TypeOK
  <2>6. CASE LoadGame
    <3>1. pendingOp' \in BOOLEAN
      BY <2>6, Zenon DEF LoadGame, TypeOK
    <3>2. loads' \in Nat
      BY <2>6 DEF LoadGame, TypeOK
    <3> QED
      BY <2>6, <3>1, <3>2 DEF LoadGame, TypeOK
  <2>7. CASE CloseGame
    <3>1. loads' \in Nat /\ capacity' \in Capacities
      BY <2>7 DEF CloseGame, TypeOK
    <3> QED
      BY <2>7, <3>1 DEF CloseGame, TypeOK
  <2>8. CASE RunBody
    <3>1. capacity' \in [Slots -> Nat]
      <4>1. \A s \in Slots : capacity[s] + (IF s \in DOMAIN body THEN body[s] ELSE 0) \in Nat
        BY DEF TypeOK
      <4> QED
        BY <2>8, <4>1 DEF RunBody
    <3> QED
      BY <2>8, <3>1 DEF RunBody, TypeOK
  <2>9. CASE Hook
    BY <2>9 DEF Hook, TypeOK
  <2>10. CASE Crash
    <3>1. received' \in Seq(Items)
      BY <2>10 DEF Crash
    <3> QED
      BY <2>10, <3>1 DEF Crash, TypeOK
  <2>11. CASE ReadInventory
    BY <2>11 DEF ReadInventory, TypeOK
  <2>12. CASE PendingOpGuard
    BY <2>12 DEF PendingOpGuard, TypeOK
  <2>13. CASE WriteOtherBody
    BY <2>13 DEF WriteOtherBody, TypeOK, NoBody
  <2>14. CASE NothingToGrant
    BY <2>14 DEF NothingToGrant, TypeOK
  <2>15. CASE WriteGrantBody
    <3>1. /\ DOMAIN body' \subseteq Slots
          /\ \A s \in DOMAIN body' : body'[s] \in Nat
      BY <2>15, PlanBounded DEF WriteGrantBody
    <3> QED
      BY <2>15, <3>1 DEF WriteGrantBody, TypeOK
  <2>16. CASE SetPendingOp
    BY <2>16 DEF SetPendingOp, TypeOK
  <2>17. CASE AbortTick
    BY <2>17 DEF AbortTick, TypeOK
  <2>18. CASE UNCHANGED vars
    BY <2>18 DEF TypeOK
  <2> QED
    BY <2>1, <2>2, <2>3, <2>4, <2>5, <2>6, <2>7, <2>8, <2>9, <2>10, <2>11, <2>12, <2>13,
       <2>14, <2>15, <2>16, <2>17, <2>18 DEF Next, Server, Game, Tick
<1> QED
  BY <1>1, <1>2, PTL DEF Spec
-----------------------------------------------------------------------------
\* The actions that leave the server's list and its worth alone keep the
\* invariant when its parts about them are kept.
LEMMA WorthOf ==
  ASSUME TypeOK
  PROVE  \A s \in Slots : Desired(items, Data)[s] \in Nat
BY DesiredType DEF TypeOK, Capacities

LEMMA ReceivedWorthLess ==
  ASSUME TypeOK, Continues(items, received), NEW s \in Slots
  PROVE  /\ Desired(received, Data)[s] \in Nat
         /\ Desired(received, Data)[s] <= Desired(items, Data)[s]
BY DesiredMonotone, GrantAssumption DEF TypeOK

\* The history variable only ever becomes true.
LEMMA StaleStays ==
  ASSUME TypeOK, [Next]_vars, stale
  PROVE  stale'
<1> USE DEF vars, serverVars, gameVars, clientVars
<1>1. CASE \E item \in Pool : FindItem(item)
  BY <1>1 DEF FindItem
<1>2. CASE Server
  BY <1>2 DEF Server, Connect, Disconnect, ReceivePacket
<1>3. CASE Game
  BY <1>3, Zenon DEF Game, SaveGame, LoadGame, CloseGame, RunBody
<1>4. CASE Hook \/ Crash
  BY <1>4 DEF Hook, Crash
<1>5. CASE Tick
  BY <1>5 DEF Tick, ReadInventory, PendingOpGuard, WriteOtherBody, NothingToGrant,
     WriteGrantBody, SetPendingOp, AbortTick
<1>6. CASE UNCHANGED vars
  BY <1>6
<1> QED
  BY <1>1, <1>2, <1>3, <1>4, <1>5, <1>6 DEF Next

\* Until a body runs between a read and its guard, the accounting of grants is
\* inductive.
LEMMA AccountedInductive ==
  ASSUME ~stale', GrantsAccounted, TypeOK', [Next]_vars
  PROVE  GrantsAccounted'
<1> DEFINE Worth(s) == Desired(items, Data)[s]
<1> USE DEF vars, serverVars, gameVars, clientVars, GrantsAccounted, Capacities
<1>t. /\ TypeOK
      /\ \A s \in Slots : Worth(s) \in Nat
  BY WorthOf
<1>n. \A s \in Slots : /\ capacity[s] \in Nat
                       /\ saved[s] \in Nat
                       /\ snapshot[s] \in Nat
  BY DEF TypeOK
<1>b. \A s \in DOMAIN body : s \in Slots /\ body[s] \in Nat
  BY DEF TypeOK
<1>a. \A s \in Slots : Armed(s) \in Nat
  BY <1>b DEF Armed
<1>1. ASSUME NEW item \in Pool, FindItem(item) PROVE GrantsAccounted'
  <2>1. Continues(items', items) /\ Continues(items', received)
    BY <1>1, <1>t, GrantAssumption DEF FindItem, Continues, TypeOK
  <2>2. \A s \in Slots : /\ Desired(items', Data)[s] \in Nat
                         /\ Worth(s) <= Desired(items', Data)[s]
    BY <1>t, <2>1, DesiredMonotone, GrantAssumption DEF TypeOK
  <2>3. WithinReceived'
    <3> SUFFICES ASSUME NEW s \in Slots
                 PROVE  /\ capacity[s] + Armed(s) <= Desired(items', Data)[s]
                        /\ saved[s] <= Desired(items', Data)[s]
      BY <1>1 DEF FindItem, WithinReceived, Armed
    <3>1. capacity[s] + Armed(s) <= Worth(s) /\ saved[s] <= Worth(s)
      BY DEF WithinReceived
    <3> HIDE DEF Worth
    <3> QED
      BY <3>1, <2>2, <1>t, <1>n, <1>a
  <2> QED
    BY <1>1, <2>1, <2>3 DEF FindItem
<1>2. CASE Connect
  BY <1>2 DEF Connect, WithinReceived, Armed
<1>3. CASE Disconnect
  <2>1. Continues(items', received')
    BY <1>3, <1>t DEF Disconnect, Continues, TypeOK
  <2> QED
    BY <1>3, <2>1 DEF Disconnect, WithinReceived, Armed
<1>4. CASE ReceivePacket
  <2>1. Continues(items', received')
    BY <1>4, <1>t DEF ReceivePacket, Continues, TypeOK
  <2> QED
    BY <1>4, <2>1 DEF ReceivePacket, WithinReceived, Armed
<1>5. CASE SaveGame
  <2>1. WithinReceived'
    <3> SUFFICES ASSUME NEW s \in Slots PROVE capacity[s] <= Worth(s)
      BY <1>5 DEF SaveGame, WithinReceived, Armed
    <3>1. capacity[s] + Armed(s) <= Worth(s)
      BY DEF WithinReceived
    <3> HIDE DEF Worth
    <3> QED
      BY <3>1, <1>t, <1>n, <1>a
  <2> QED
    BY <1>5, <2>1, <1>n DEF SaveGame
<1>6. CASE LoadGame \/ CloseGame
  <2>1. capacity' = saved /\ saved' = saved /\ snapshot' = snapshot /\ pc' = pc
        /\ items' = items /\ received' = received /\ body' = body
    BY <1>6 DEF LoadGame, CloseGame
  <2>2. pendingOp' => pendingOp
    BY <1>6, Zenon DEF LoadGame, CloseGame, TypeOK
  <2>3. \A s \in Slots : saved[s] <= capacity[s]
    OBVIOUS
  <2>4. WithinReceived'
    <3> SUFFICES ASSUME NEW s \in Slots
                 PROVE  /\ saved[s] + Armed(s)' <= Worth(s)
                        /\ saved[s] <= Worth(s)
      BY <2>1 DEF WithinReceived
    <3>1. capacity[s] + Armed(s) <= Worth(s) /\ saved[s] <= Worth(s)
      BY DEF WithinReceived
    <3>2. Armed(s)' = Armed(s) \/ Armed(s)' = 0
      BY <2>1, <2>2 DEF Armed
    <3> HIDE DEF Worth
    <3> QED
      BY <3>1, <3>2, <2>3, <1>t, <1>n, <1>a
  <2>5. \A s \in Slots : pc \in {"guard", "act"} => saved[s] <= snapshot[s]
    BY <2>3, <1>n
  <2> QED
    BY <2>1, <2>2, <2>4, <2>5, <1>n
<1>7. CASE RunBody
  <2>1. pc \notin {"guard", "act", "flag"}
    BY <1>7 DEF RunBody
  <2>2. \A s \in Slots : capacity'[s] = capacity[s] + Armed(s)
    BY <1>7 DEF RunBody, Armed
  <2>3. \A s \in Slots : Armed(s)' = 0
    BY <1>7, <2>1 DEF RunBody, Armed
  <2>4. WithinReceived'
    <3> SUFFICES ASSUME NEW s \in Slots
                 PROVE  /\ capacity'[s] + Armed(s)' <= Worth(s)
                        /\ saved[s] <= Worth(s)
      BY <1>7 DEF RunBody, WithinReceived
    <3>1. capacity[s] + Armed(s) <= Worth(s) /\ saved[s] <= Worth(s)
      BY DEF WithinReceived
    <3> HIDE DEF Worth
    <3> QED
      BY <3>1, <2>2, <2>3, <1>t, <1>n, <1>a
  <2>5. \A s \in Slots : saved[s] <= capacity'[s]
    BY <2>2, <1>n, <1>a
  <2> QED
    BY <1>7, <2>1, <2>4, <2>5 DEF RunBody
<1>8. CASE Hook
  BY <1>8 DEF Hook, WithinReceived, Armed
<1>9. CASE Crash \/ AbortTick
  <2>1. /\ items' = items /\ capacity' = capacity /\ saved' = saved /\ body' = body
        /\ pendingOp' = pendingOp /\ pc' = "idle"
    BY <1>9 DEF Crash, AbortTick
  <2>2. Continues(items', received')
    BY <1>9, <1>t DEF Crash, AbortTick, Continues, TypeOK
  <2>3. \A s \in Slots : Armed(s)' = Armed(s) \/ Armed(s)' = 0
    BY <2>1 DEF Armed
  <2>4. WithinReceived'
    <3> SUFFICES ASSUME NEW s \in Slots
                 PROVE  /\ capacity[s] + Armed(s)' <= Worth(s)
                        /\ saved[s] <= Worth(s)
      BY <2>1 DEF WithinReceived
    <3>1. capacity[s] + Armed(s) <= Worth(s) /\ saved[s] <= Worth(s)
      BY DEF WithinReceived
    <3> HIDE DEF Worth
    <3> QED
      BY <3>1, <2>3, <1>t, <1>n, <1>a
  <2> QED
    BY <2>1, <2>2, <2>4
<1>10. CASE ReadInventory
  BY <1>10, <1>n DEF ReadInventory, WithinReceived, Armed
<1>11. CASE PendingOpGuard
  BY <1>11 DEF PendingOpGuard, WithinReceived, Armed
<1>12. CASE WriteOtherBody
  <2>1. \A s \in Slots : Armed(s)' = 0
    BY <1>12 DEF WriteOtherBody, Armed, NoBody
  <2>2. \A s \in Slots : capacity[s] + 0 <= Worth(s)
    <3>1. \A s \in Slots : capacity[s] + Armed(s) <= Worth(s)
      BY DEF WithinReceived
    <3> HIDE DEF Worth
    <3> QED
      BY <3>1, <1>t, <1>n, <1>a
  <2> QED
    BY <1>12, <2>1, <2>2 DEF WriteOtherBody, WithinReceived
<1>13. CASE NothingToGrant
  BY <1>13 DEF NothingToGrant, WithinReceived, Armed
<1>14. CASE WriteGrantBody
  <2>1. \A s \in Slots : Armed(s)' = 0 \/ Armed(s)' = Desired(received, Data)[s] - snapshot[s]
    BY <1>14, <1>t, PlanBounded DEF WriteGrantBody, Armed
  <2>2. \A s \in Slots : capacity[s] <= snapshot[s]
    BY <1>14 DEF WriteGrantBody
  <2>3. WithinReceived'
    <3> SUFFICES ASSUME NEW s \in Slots
                 PROVE  /\ capacity[s] + Armed(s)' <= Worth(s)
                        /\ saved[s] <= Worth(s)
      BY <1>14 DEF WriteGrantBody, WithinReceived
    <3> DEFINE Got == Desired(received, Data)[s]
    <3>1. capacity[s] + Armed(s) <= Worth(s) /\ saved[s] <= Worth(s)
      BY DEF WithinReceived
    <3>2. Got \in Nat /\ Got <= Worth(s)
      BY <1>t, ReceivedWorthLess
    <3>3. Armed(s)' = 0 \/ Armed(s)' = Got - snapshot[s]
      BY <2>1
    <3> HIDE DEF Worth, Got
    <3> QED
      BY <3>1, <3>2, <3>3, <2>2, <1>t, <1>n, <1>a
  <2>4. pc' = "flag" /\ ~pendingOp'
    BY <1>14 DEF WriteGrantBody
  <2> QED
    BY <1>14, <2>3, <2>4 DEF WriteGrantBody
<1>15. CASE SetPendingOp
  BY <1>15 DEF SetPendingOp, WithinReceived, Armed
<1>16. CASE UNCHANGED vars
  BY <1>16 DEF WithinReceived, Armed
<1> QED
  BY <1>1, <1>2, <1>3, <1>4, <1>5, <1>6, <1>7, <1>8, <1>9, <1>10, <1>11, <1>12, <1>13,
     <1>14, <1>15, <1>16 DEF Next, Server, Game, Tick

\* However ticks, packets, saves, loads, restarts and reconnects interleave, the
\* game never holds more than the server's list is worth, unless it has run a body
\* between a tick's read and its guard.
THEOREM NothingGrantedTwice == Spec => []NoOverGrant
<1> DEFINE IInv == stale \/ GrantsAccounted
<1>1. Init /\ TypeOK => IInv
  <2> SUFFICES ASSUME Init, TypeOK PROVE GrantsAccounted
    OBVIOUS
  <2>1. \A s \in Slots : Desired(Start, Data)[s] \in Nat /\ Armed(s) = 0
    BY DesiredType, GrantAssumption DEF Init, Armed, Capacities
  <2>2. Continues(items, received)
    BY GrantAssumption DEF Init, Continues
  <2>3. WithinReceived
    BY <2>1 DEF Init, WithinReceived
  <2> QED
    BY <2>1, <2>2, <2>3 DEF Init, GrantsAccounted
<1>2. IInv /\ TypeOK /\ TypeOK' /\ [Next]_vars => IInv'
  <2> SUFFICES ASSUME IInv, TypeOK, TypeOK', [Next]_vars, ~stale' PROVE GrantsAccounted'
    BY DEF TypeOK
  <2>1. ~stale
    BY StaleStays
  <2> QED
    BY <2>1, AccountedInductive
<1>3. IInv => NoOverGrant
  BY DEF GrantsAccounted, NoOverGrant
<1> QED
  BY <1>1, <1>2, <1>3, GrantTypeCorrect, PTL DEF Spec
=============================================================================
