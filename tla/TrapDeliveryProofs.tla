------------------------- MODULE TrapDeliveryProofs -------------------------
(***************************************************************************)
(* Traps take effect at most once, after their memo, and none is passed    *)
(* over, for every item list, start inventory and number of requests.      *)
(*                                                                         *)
(* The argument: the index of a connection is fetched once, before this    *)
(* connection sends any Set, so it is at least as large as every position  *)
(* whose Set has arrived; positions whose Set has not are on their way or  *)
(* unrecorded.  What is announced lies beyond the index and is the first   *)
(* trap that does, so that moving the index to it skips nothing.           *)
(***************************************************************************)
EXTENDS TrapDelivery, SequenceTheorems, WellFoundedInduction, TLAPS

\* The list grows up to its bound, messages travel on a connection that is up,
\* and what a Set records is a position.
Linked ==
  /\ Len(items) <= Larger(First, MaxItems)
  /\ ~linked => up = <<>> /\ down = <<>>
  /\ pc = "record" => processed \in Positions

\* Until the index is known nothing else is done: what is on its way are Gets,
\* and replies that say what the server still holds.
Fetching ==
  processed = Unknown =>
    /\ pc = "idle"
    /\ announced = Nothing
    /\ \A i \in DOMAIN up : up[i] = Get
    /\ \A i \in DOMAIN down : down[i] = stored

\* What is announced is the first trap beyond the index.
AnnouncedIsNext ==
  announced # Nothing =>
    /\ announced \in First + 1 .. Len(items)
    /\ announced > processed
    /\ items[announced] \in TrapKinds
    /\ \A p \in First + 1 .. announced - 1 : items[p] \in TrapKinds => p <= processed

\* Every effect is unrecorded, or recorded by the server, or about to be.
EffectsTracked ==
  \A p \in Positions : hits[p] > 0 =>
    p \in unrecorded \/ p <= stored \/ p \in Outstanding

\* A known index is beyond every effect that is not unrecorded.
IndexCovers ==
  processed # Unknown =>
    \A p \in Positions : hits[p] > 0 => p \in unrecorded \/ p <= processed

\* An effect whose Set can no longer be sent counts as unrecorded already.
CutOffUnrecorded == ~linked /\ pc = "record" => processed \in unrecorded

Once == EffectsTracked /\ CutOffUnrecorded /\ IndexCovers /\ AtMostOnce

\* No trap up to q is left: whoever holds q as the index skips none.
Handled(q) ==
  /\ q <= Len(items)
  /\ \A p \in First + 1 .. q : items[p] \in TrapKinds => hits[p] > 0 \/ p \in missed

\* This holds of every copy of the index.
AllHandled ==
  /\ Handled(stored)
  /\ Handled(processed)
  /\ \A i \in DOMAIN up : up[i] # Get => Handled(up[i].value)
  /\ \A i \in DOMAIN down : Handled(down[i])

\* The memo of what is announced has been shown or is about to be.
MemoShown ==
  announced # Nothing => announced \in taken \/ (pendingOp /\ memo = announced)

Memo == MemoShown /\ EffectAfterMemo
-----------------------------------------------------------------------------
(* The types.                                                              *)

\* A set of positions has a first one, and pending_traps starts with it.
LEMMA FirstOfPositions ==
  ASSUME NEW S \in SUBSET Nat, S # {}
  PROVE  Next1(S) \in S /\ \A q \in S : Next1(S) <= q
<1>1. PICK m \in S : \A k \in S : <<k, m>> \notin OpToRel(<, Nat)
  BY WFMin, NatLessThanWellFounded, Zenon
<1>2. \A k \in S : ~ (k < m)
  BY <1>1, Zenon DEF OpToRel
<1>3. \A k \in S : m <= k
  BY <1>2
<1> QED
  BY <1>3 DEF Next1

LEMMA PendingPositions ==
  ASSUME TypeOK, Linked
  PROVE  Pending \subseteq First + 1 .. Len(items) /\ Pending \subseteq Positions
BY TrapAssumption DEF TypeOK, Linked, Pending, Larger, Positions, Unknown

\* Every variable keeps its type, and the list its bound.
THEOREM TrapTypeCorrect == Spec => [](TypeOK /\ Linked)
<1> USE TrapAssumption DEF Positions
<1>1. Init => TypeOK /\ Linked
  <2> SUFFICES ASSUME Init PROVE TypeOK /\ Linked
    OBVIOUS
  <2>1. items \in [1 .. First -> Kinds]
    BY DEF Init, Kinds
  <2>2. items \in Seq(Kinds)
    BY <2>1, SeqDef
  <2>3. Len(items) = First
    BY <2>1, <2>2, LenProperties, TrapAssumption
  <2>4. hits \in [Positions -> 0 .. 2]
    BY DEF Init
  <2>5. TypeOK
    <3>1. up = <<>> /\ down = <<>> /\ received = 0 /\ stored = 0
      BY DEF Init
    <3>2. up \in Seq(Messages) /\ down \in Seq(0 .. MaxItems)
      BY <3>1, EmptySeq
    <3>3. received \in 0 .. Len(items)
      BY <2>3, <3>1
    <3>4. stored \in 0 .. MaxItems
      BY <3>1
    <3>5. /\ linked \in BOOLEAN /\ pendingOp \in BOOLEAN
          /\ pc \in {"idle", "record"}
          /\ player \in {"alive", "dead", "none"}
      BY DEF Init
    <3>6. /\ processed \in {Unknown} \cup 0 .. MaxItems
          /\ announced \in {Nothing} \cup Positions
          /\ memo \in {Nothing} \cup Positions
      BY DEF Init
    <3>7. /\ taken \subseteq Positions
          /\ unrecorded \subseteq Positions /\ missed \subseteq Positions
      BY DEF Init
    <3> QED
      BY <2>2, <2>3, <2>4, <3>2, <3>3, <3>4, <3>5, <3>6, <3>7 DEF TypeOK
  <2>6. Linked
    BY <2>3 DEF Init, Linked, Larger
  <2> QED
    BY <2>5, <2>6
<1>2. TypeOK /\ Linked /\ [Next]_vars => TypeOK' /\ Linked'
  <2> SUFFICES ASSUME TypeOK, Linked, [Next]_vars PROVE TypeOK' /\ Linked'
    OBVIOUS
  <2> USE DEF vars, serverVars, linkVars, stateVars, gameVars, mishaps, history
  <2>1. ASSUME NEW kind \in Pool, FindItem(kind) PROVE TypeOK' /\ Linked'
    <3>1. items' \in Seq(Kinds) /\ Len(items') = Len(items) + 1
      BY <2>1 DEF FindItem, TypeOK
    <3> QED
      BY <2>1, <3>1 DEF FindItem, TypeOK, Linked, Larger
  <2>2. CASE ReceivePacket
    BY <2>2 DEF ReceivePacket, TypeOK, Linked
  <2>3. CASE ServerHandles
    <3>1. /\ Tail(up) \in Seq(Messages)
          /\ Head(up) \in Messages
      BY <2>3 DEF ServerHandles, TypeOK
    <3>2. linked
      BY <2>3 DEF ServerHandles, Linked
    <3>3. CASE Head(up).cmd = "Get"
      <4>1. down' = Append(down, stored)
        BY <2>3, <3>3 DEF ServerHandles
      <4>2. down' \in Seq(0 .. MaxItems)
        BY <4>1 DEF TypeOK
      <4> QED
        BY <2>3, <3>1, <3>2, <3>3, <4>2 DEF ServerHandles, TypeOK, Linked
    <3>4. CASE Head(up).cmd # "Get"
      <4>1. Head(up).value \in Positions
        BY <3>1, <3>4 DEF Messages, Get, Set
      <4>2. stored' \in 0 .. MaxItems
        BY <2>3, <3>4, <4>1 DEF ServerHandles, TypeOK, Larger
      <4> QED
        BY <2>3, <3>1, <3>2, <3>4, <4>2 DEF ServerHandles, TypeOK, Linked
    <3> QED
      BY <3>3, <3>4
  <2>4. CASE Connected
    BY <2>4 DEF Connected, TypeOK, Linked
  <2>5. CASE Retrieved
    <3>1. Head(down) \in 0 .. MaxItems /\ Tail(down) \in Seq(0 .. MaxItems)
      BY <2>5 DEF Retrieved, TypeOK
    <3>2. linked
      BY <2>5 DEF Retrieved, Linked
    <3>3. processed' \in {Unknown} \cup 0 .. MaxItems
      BY <2>5, <3>1 DEF Retrieved, TypeOK
    <3>4. pc' = "record" => processed' \in Positions
      BY <2>5 DEF Retrieved, Linked, Unknown
    <3>5. TypeOK'
      BY <2>5, <3>1, <3>3 DEF Retrieved, TypeOK
    <3>6. Linked'
      BY <2>5, <3>2, <3>4 DEF Retrieved, Linked
    <3> QED
      BY <3>5, <3>6
  <2>6. CASE Disconnect
    <3>1. Outstanding \subseteq Positions
      BY DEF Outstanding, TypeOK
    <3>2. up' = <<>> /\ down' = <<>> /\ unrecorded' \subseteq Positions
      BY <2>6, <3>1 DEF Disconnect, TypeOK
    <3>3. up' \in Seq(Messages) /\ down' \in Seq(0 .. MaxItems)
      BY <3>2, EmptySeq
    <3>4. /\ items' \in Seq(Kinds) /\ Len(items') >= First
          /\ received' \in 0 .. Len(items')
      BY <2>6 DEF Disconnect, TypeOK
    <3>5. hits' \in [Positions -> 0 .. 2] /\ missed' \subseteq Positions
      BY <2>6 DEF Disconnect, TypeOK
    <3>6. TypeOK'
      BY <2>6, <3>2, <3>3, <3>4, <3>5 DEF Disconnect, TypeOK
    <3>7. Linked'
      BY <2>6, <3>2 DEF Disconnect, Linked
    <3> QED
      BY <3>6, <3>7
  <2>7. CASE RestartClient
    <3>1. Outstanding \subseteq Positions
      BY DEF Outstanding, TypeOK
    <3>2. up' = <<>> /\ down' = <<>> /\ unrecorded' \subseteq Positions
      BY <2>7, <3>1 DEF RestartClient, TypeOK
    <3>3. up' \in Seq(Messages) /\ down' \in Seq(0 .. MaxItems)
      BY <3>2, EmptySeq
    <3>4. /\ items' \in Seq(Kinds) /\ Len(items') >= First
          /\ received' \in 0 .. Len(items')
      BY <2>7 DEF RestartClient, TypeOK
    <3>5. hits' \in [Positions -> 0 .. 2] /\ missed' \subseteq Positions
      BY <2>7 DEF RestartClient, TypeOK
    <3>6. TypeOK'
      BY <2>7, <3>2, <3>3, <3>4, <3>5 DEF RestartClient, TypeOK
    <3>7. Linked'
      BY <2>7, <3>2 DEF RestartClient, Linked
    <3> QED
      BY <3>6, <3>7
  <2>8. CASE RunBody
    <3>1. taken' \subseteq Positions
      BY <2>8 DEF RunBody, TypeOK
    <3> QED
      BY <2>8, <3>1 DEF RunBody, TypeOK, Linked
  <2>9. CASE PlayerChanges
    BY <2>9 DEF PlayerChanges, TypeOK, Linked
  <2>10. CASE RestartGame
    BY <2>10 DEF RestartGame, TypeOK, Linked
  <2>11. CASE WriteOtherBody
    BY <2>11 DEF WriteOtherBody, TypeOK, Linked
  <2>12. CASE RequestIndex
    <3>1. up' \in Seq(Messages)
      BY <2>12 DEF RequestIndex, TypeOK, Messages
    <3> QED
      BY <2>12, <3>1 DEF RequestIndex, Ready, TypeOK, Linked
  <2>13. CASE AnnounceTrap
    <3>1. Next1(Pending) \in Positions
      BY <2>13, PendingPositions, FirstOfPositions DEF AnnounceTrap
    <3> QED
      BY <2>13, <3>1 DEF AnnounceTrap, TypeOK, Linked
  <2>14. CASE ApplyTrap
    <3>1. announced \in Positions
      BY <2>14 DEF ApplyTrap, TypeOK
    <3>2. hits' \in [Positions -> 0 .. 2]
      BY <2>14, <3>1 DEF ApplyTrap, TypeOK
    <3>3. missed' \subseteq Positions
      BY <2>14, <3>1 DEF ApplyTrap, TypeOK
    <3>4. TypeOK'
      BY <2>14, <3>1, <3>2, <3>3 DEF ApplyTrap, TypeOK
    <3>5. Linked'
      BY <2>14, <3>1 DEF ApplyTrap, Linked
    <3> QED
      BY <3>4, <3>5
  <2>15. CASE RecordTrap
    <3>1. CASE linked
      <4>1. processed \in Positions
        BY <2>15 DEF RecordTrap, Linked
      <4>2. Set(processed) \in Messages
        BY <4>1 DEF Messages
      <4>3. up' \in Seq(Messages)
        BY <2>15, <3>1, <4>2 DEF RecordTrap, TypeOK
      <4> QED
        BY <2>15, <3>1, <4>3 DEF RecordTrap, TypeOK, Linked
    <3>2. CASE ~linked
      BY <2>15, <3>2 DEF RecordTrap, TypeOK, Linked
    <3> QED
      BY <3>1, <3>2
  <2>16. CASE UNCHANGED vars
    BY <2>16 DEF TypeOK, Linked, Outstanding
  <2> QED
    BY <2>1, <2>2, <2>3, <2>4, <2>5, <2>6, <2>7, <2>8, <2>9, <2>10, <2>11, <2>12, <2>13,
       <2>14, <2>15, <2>16 DEF Next, Server, Game, Traps
<1> QED
  BY <1>1, <1>2, PTL DEF Spec
-----------------------------------------------------------------------------
(* The index and what is announced.                                        *)

\* The trap that is announced is always the first beyond the index, and a
\* connection does nothing before it knows its index.
THEOREM TrapsInOrder == Spec => [](Fetching /\ AnnouncedIsNext)
<1> DEFINE Inv == Fetching /\ AnnouncedIsNext
<1> USE TrapAssumption DEF Unknown, Nothing
<1>1. Init => Inv
  BY DEF Init, Fetching, AnnouncedIsNext
<1>2. TypeOK /\ Linked /\ Inv /\ [Next]_vars => Inv'
  <2> SUFFICES ASSUME TypeOK, Linked, Inv, [Next]_vars PROVE Inv'
    OBVIOUS
  <2> USE DEF vars, serverVars, linkVars, stateVars, gameVars, mishaps, history
  <2>1. ASSUME NEW kind \in Pool, FindItem(kind) PROVE Inv'
    <3>1. /\ Len(items') = Len(items) + 1
          /\ \A p \in 1 .. Len(items) : items'[p] = items[p]
      BY <2>1 DEF FindItem, TypeOK
    <3>2. Fetching'
      BY <2>1 DEF FindItem, Fetching
    <3>3. AnnouncedIsNext'
      BY <2>1, <3>1 DEF FindItem, AnnouncedIsNext, TypeOK
    <3> QED
      BY <3>2, <3>3
  <2>2. CASE ServerHandles
    <3>1. CASE processed = Unknown
      <4>1. up[1] = Get /\ Head(up) = Get /\ Tail(up) \in Seq(Messages)
        BY <2>2, <3>1 DEF ServerHandles, Fetching, TypeOK
      <4>2. up' = Tail(up) /\ down' = Append(down, stored) /\ stored' = stored
        BY <2>2, <4>1 DEF ServerHandles, Get
      <4>3. \A i \in DOMAIN up' : up'[i] = Get
        BY <3>1, <4>2, <2>2 DEF Fetching, TypeOK, ServerHandles
      <4>4. \A i \in DOMAIN down' : down'[i] = stored'
        BY <3>1, <4>2 DEF Fetching, TypeOK
      <4> QED
        BY <2>2, <3>1, <4>3, <4>4 DEF ServerHandles, Fetching, AnnouncedIsNext
    <3>2. CASE processed # Unknown
      BY <2>2, <3>2 DEF ServerHandles, Fetching, AnnouncedIsNext
    <3> QED
      BY <3>1, <3>2
  <2>3. CASE Connected
    <3>1. up' = <<>> /\ down' = <<>>
      BY <2>3 DEF Connected, Linked
    <3> QED
      BY <2>3, <3>1 DEF Connected, Fetching, AnnouncedIsNext
  <2>4. CASE Retrieved
    <3>1. Head(down) # Unknown
      BY <2>4 DEF Retrieved, TypeOK
    <3>2. processed' # Unknown
      BY <2>4, <3>1 DEF Retrieved
    <3>3. AnnouncedIsNext'
      BY <2>4 DEF Retrieved, Fetching, AnnouncedIsNext
    <3> QED
      BY <3>2, <3>3 DEF Fetching
  <2>5. CASE Disconnect
    BY <2>5 DEF Disconnect, Fetching, AnnouncedIsNext
  <2>6. CASE RestartClient
    BY <2>6 DEF RestartClient, Fetching, AnnouncedIsNext
  <2>7. CASE RequestIndex
    <3>1. \A i \in DOMAIN up' : up'[i] = Get
      BY <2>7 DEF RequestIndex, Fetching, TypeOK
    <3> QED
      BY <2>7, <3>1 DEF RequestIndex, Fetching, AnnouncedIsNext
  <2>8. CASE AnnounceTrap
    <3> DEFINE a == Next1(Pending)
    <3>1. a \in Pending /\ \A q \in Pending : a <= q
      <4>1. Pending \in SUBSET Nat /\ Pending # {}
        BY <2>8, PendingPositions DEF AnnounceTrap, Positions
      <4> QED
        BY <4>1, FirstOfPositions
    <3>2. a \in First + 1 .. Len(items) /\ a > processed /\ items[a] \in TrapKinds
      BY <3>1, PendingPositions DEF Pending, Larger, TypeOK
    <3>3. \A p \in First + 1 .. a - 1 : items[p] \in TrapKinds => p <= processed
      <4> SUFFICES ASSUME NEW p \in First + 1 .. a - 1, items[p] \in TrapKinds, p > processed
                   PROVE  FALSE
        BY DEF TypeOK
      <4>1. a \in Larger(processed, First) + 1 .. received
        BY <3>1 DEF Pending
      <4>2. p \in Larger(processed, First) + 1 .. received
        BY <3>2, <4>1 DEF Larger, TypeOK
      <4>3. p \in Pending
        BY <4>2 DEF Pending
      <4> QED
        BY <3>1, <3>2, <4>3
    <3>4. processed # Unknown /\ processed' = processed /\ items' = items /\ announced' = a
      BY <2>8 DEF AnnounceTrap
    <3> HIDE DEF a
    <3> QED
      BY <3>2, <3>3, <3>4 DEF Fetching, AnnouncedIsNext
  <2>9. CASE ApplyTrap
    BY <2>9 DEF ApplyTrap, Fetching, AnnouncedIsNext, TypeOK
  <2>10. CASE RecordTrap
    BY <2>10 DEF RecordTrap, Fetching, AnnouncedIsNext
  <2>11. CASE ReceivePacket \/ Game \/ WriteOtherBody \/ UNCHANGED vars
    BY <2>11 DEF ReceivePacket, Game, RunBody, PlayerChanges, RestartGame, WriteOtherBody,
                 Fetching, AnnouncedIsNext
  <2> QED
    BY <2>1, <2>2, <2>3, <2>4, <2>5, <2>6, <2>7, <2>8, <2>9, <2>10, <2>11
       DEF Next, Server, Traps
<1> QED
  BY <1>1, <1>2, TrapTypeCorrect, PTL DEF Spec
-----------------------------------------------------------------------------
(* At most once.                                                           *)

\* A trap takes effect twice only if the connection or the client was lost
\* between its effect and the arrival of its Set.
THEOREM TrapsAppliedOnce == Spec => []AtMostOnce
<1> USE TrapAssumption DEF Unknown, Nothing, Positions
<1>1. Init => Once
  BY DEF Init, Once, EffectsTracked, CutOffUnrecorded, IndexCovers, AtMostOnce
<1>2. TypeOK /\ Linked /\ Fetching /\ AnnouncedIsNext /\ Once /\ [Next]_vars => Once'
  <2> SUFFICES ASSUME TypeOK, Linked, Fetching, AnnouncedIsNext, Once, [Next]_vars
               PROVE  Once'
    OBVIOUS
  <2> USE DEF vars, serverVars, linkVars, stateVars, gameVars, mishaps, history
  <2>1. CASE ServerHandles
    <3>1. /\ IndexCovers' /\ AtMostOnce' /\ CutOffUnrecorded'
          /\ hits' = hits /\ unrecorded' = unrecorded
      BY <2>1 DEF ServerHandles, Once, IndexCovers, AtMostOnce, CutOffUnrecorded
    <3>2. up[1] \in Messages /\ stored' >= stored
      BY <2>1 DEF ServerHandles, TypeOK, Larger, Messages, Get, Set
    <3>3. ASSUME NEW p \in Positions, p \in Outstanding
          PROVE  p <= stored' \/ p \in Outstanding'
      <4>1. CASE pc = "record" /\ p = processed
        BY <2>1, <3>3, <4>1 DEF ServerHandles, Outstanding
      <4>2. ASSUME NEW i \in DOMAIN up, up[i] = Set(p)
            PROVE  p <= stored' \/ p \in Outstanding'
        <5>1. CASE i = 1
          <6>1. Head(up).cmd # "Get" /\ Head(up).value = p
            BY <4>2, <5>1 DEF Set, TypeOK
          <6> QED
            BY <2>1, <6>1 DEF ServerHandles, Larger, TypeOK
        <5>2. CASE i # 1
          <6>1. i - 1 \in DOMAIN up' /\ up'[i - 1] = up[i]
            BY <2>1, <5>2 DEF ServerHandles, TypeOK
          <6> QED
            BY <2>1, <3>3, <4>2, <6>1 DEF Outstanding, ServerHandles
        <5> QED
          BY <5>1, <5>2
      <4> QED
        BY <3>3, <4>1, <4>2 DEF Outstanding
    <3>4. EffectsTracked'
      <4> SUFFICES ASSUME NEW p \in Positions, hits'[p] > 0
                   PROVE  p \in unrecorded' \/ p <= stored' \/ p \in Outstanding'
        BY DEF EffectsTracked
      <4>1. p \in unrecorded \/ p <= stored \/ p \in Outstanding
        BY <3>1 DEF Once, EffectsTracked
      <4>2. stored \in Nat /\ stored' \in Int
        BY <2>1, <3>2 DEF ServerHandles, TypeOK, Larger, Messages, Get, Set
      <4> QED
        BY <3>1, <3>2, <3>3, <4>1, <4>2
    <3> QED
      BY <3>1, <3>4 DEF Once
  <2>2. CASE Connected
    BY <2>2 DEF Connected, Once, EffectsTracked, CutOffUnrecorded, IndexCovers, AtMostOnce,
                Outstanding
  <2>3. CASE Retrieved
    <3>1. CASE processed = Unknown
      <4>1. Head(down) = stored /\ Outstanding = {}
        BY <2>3, <3>1 DEF Retrieved, Fetching, TypeOK, Outstanding, Get, Set
      <4>2. IndexCovers'
        BY <2>3, <3>1, <4>1 DEF Retrieved, Once, EffectsTracked, IndexCovers
      <4>3. EffectsTracked'
        BY <2>3, <4>1 DEF Retrieved, Once, EffectsTracked
      <4> QED
        BY <2>3, <3>1, <4>2, <4>3 DEF Retrieved, Once, CutOffUnrecorded, AtMostOnce, Fetching
    <3>2. CASE processed # Unknown
      BY <2>3, <3>2 DEF Retrieved, Once, EffectsTracked, CutOffUnrecorded, IndexCovers,
                        AtMostOnce, Outstanding
    <3> QED
      BY <3>1, <3>2
  <2>4. CASE Disconnect
    <3>1. unrecorded' = unrecorded \cup Outstanding
      BY <2>4 DEF Disconnect
    <3>2. CutOffUnrecorded'
      BY <2>4, <3>1 DEF Disconnect, CutOffUnrecorded, Outstanding, Linked, TypeOK
    <3> QED
      BY <2>4, <3>1, <3>2 DEF Disconnect, Once, EffectsTracked, IndexCovers, AtMostOnce
  <2>5. CASE RestartClient
    <3>1. unrecorded' = unrecorded \cup Outstanding
      BY <2>5 DEF RestartClient
    <3> QED
      BY <2>5, <3>1 DEF RestartClient, Once, EffectsTracked, CutOffUnrecorded, IndexCovers,
                        AtMostOnce
  <2>6. CASE RequestIndex
    <3>1. Outstanding \subseteq Outstanding'
      BY <2>6 DEF RequestIndex, Outstanding, TypeOK
    <3> QED
      BY <2>6, <3>1 DEF RequestIndex, Once, EffectsTracked, CutOffUnrecorded, IndexCovers,
                        AtMostOnce
  <2>7. CASE ApplyTrap
    <3>1. /\ announced \in Positions /\ announced > processed /\ processed # Unknown
          /\ processed' = announced /\ pc' = "record" /\ pc = "idle"
          /\ UNCHANGED <<up, stored, unrecorded, linked>> /\ linked
      BY <2>7 DEF ApplyTrap, TypeOK, AnnouncedIsNext
    <3>2. /\ \A p \in Positions : p # announced => hits'[p] = hits[p]
          /\ hits'[announced] \in Nat /\ hits'[announced] <= hits[announced] + 1
          /\ DOMAIN hits' = Positions /\ DOMAIN hits = Positions
      <4> DEFINE more == IF hits[announced] = 2 THEN 2 ELSE hits[announced] + 1
      <4>1. hits \in [Positions -> 0 .. 2]
        BY DEF TypeOK
      <4>2. hits[announced] \in 0 .. 2
        BY <3>1, <4>1
      <4>3. hits' = [hits EXCEPT ![announced] = more] \/ hits' = hits
        BY <2>7 DEF ApplyTrap
      <4>4. more \in Nat /\ more <= hits[announced] + 1
        BY <4>2
      <4> HIDE DEF more
      <4> QED
        BY <3>1, <4>1, <4>2, <4>3, <4>4
    <3>3. hits[announced] = 0 \/ announced \in unrecorded
      BY <3>1 DEF Once, IndexCovers, TypeOK
    <3>4. AtMostOnce'
      <4> SUFFICES ASSUME NEW p \in Positions, hits'[p] > 1 PROVE p \in unrecorded'
        BY DEF AtMostOnce
      <4>1. CASE p = announced
        <5>1. hits[announced] # 0
          BY <3>1, <3>2, <4>1 DEF TypeOK
        <5> QED
          BY <3>1, <3>3, <4>1, <5>1
      <4>2. CASE p # announced
        BY <3>1, <3>2, <4>2 DEF Once, AtMostOnce
      <4> QED
        BY <4>1, <4>2
    <3>5. IndexCovers'
      BY <3>1, <3>2 DEF Once, IndexCovers, TypeOK
    <3>6. Outstanding \subseteq Outstanding' /\ announced \in Outstanding'
      BY <3>1, <3>2 DEF Outstanding
    <3>7. EffectsTracked'
      BY <3>1, <3>2, <3>6 DEF Once, EffectsTracked
    <3>8. CutOffUnrecorded'
      BY <3>1 DEF CutOffUnrecorded
    <3> QED
      BY <3>4, <3>5, <3>7, <3>8 DEF Once
  <2>8. CASE RecordTrap
    <3>1. \A p \in Positions : p \in Outstanding => p \in unrecorded \/ p \in Outstanding'
      <4>1. CASE linked
        <5>1. up' = Append(up, Set(processed)) /\ hits' = hits
          BY <2>8, <4>1 DEF RecordTrap
        <5>2. /\ \A i \in DOMAIN up : i \in DOMAIN up' /\ up'[i] = up[i]
              /\ Len(up) + 1 \in DOMAIN up' /\ up'[Len(up) + 1] = Set(processed)
          BY <5>1 DEF TypeOK
        <5> QED
          BY <5>1, <5>2 DEF Outstanding
      <4>2. CASE ~linked
        BY <2>8, <4>2 DEF RecordTrap, Linked, Outstanding, Once, CutOffUnrecorded
      <4> QED
        BY <4>1, <4>2
    <3> QED
      BY <2>8, <3>1 DEF RecordTrap, Once, EffectsTracked, CutOffUnrecorded, IndexCovers,
                        AtMostOnce
  <2>9. CASE \/ \E kind \in Pool : FindItem(kind)
             \/ ReceivePacket \/ Game \/ WriteOtherBody \/ AnnounceTrap \/ UNCHANGED vars
    BY <2>9 DEF FindItem, ReceivePacket, Game, RunBody, PlayerChanges, RestartGame,
                WriteOtherBody, AnnounceTrap, Once, EffectsTracked, CutOffUnrecorded,
                IndexCovers, AtMostOnce, Outstanding
  <2> QED
    BY <2>1, <2>2, <2>3, <2>4, <2>5, <2>6, <2>7, <2>8, <2>9 DEF Next, Server, Traps
<1>3. Once => AtMostOnce
  BY DEF Once
<1> QED
  BY <1>1, <1>2, <1>3, TrapTypeCorrect, TrapsInOrder, PTL DEF Spec
-----------------------------------------------------------------------------
(* None is passed over, and none comes before its memo.                    *)

\* No trap is passed over: every trap up to the position that the client or the
\* server holds as handled has taken effect, unless the player was gone.
THEOREM NoTrapPassedOver == Spec => []NothingSkipped
<1> USE TrapAssumption DEF Unknown, Nothing, Positions
<1>1. Init => AllHandled
  BY DEF Init, AllHandled, Handled
<1>2. TypeOK /\ Linked /\ Fetching /\ AnnouncedIsNext /\ AllHandled /\ [Next]_vars => AllHandled'
  <2> SUFFICES ASSUME TypeOK, Linked, Fetching, AnnouncedIsNext, AllHandled, [Next]_vars
               PROVE  AllHandled'
    OBVIOUS
  <2> USE DEF vars, serverVars, linkVars, stateVars, gameVars, mishaps, history
  <2>1. ASSUME NEW kind \in Pool, FindItem(kind) PROVE AllHandled'
    <3>1. /\ Len(items') = Len(items) + 1
          /\ \A p \in 1 .. Len(items) : items'[p] = items[p]
      BY <2>1 DEF FindItem, TypeOK
    <3> QED
      BY <2>1, <3>1 DEF FindItem, AllHandled, Handled, TypeOK, Messages, Get, Set
  <2>2. CASE ServerHandles
    <3>1. /\ items' = items /\ hits' = hits /\ missed' = missed /\ processed' = processed
          /\ up' = Tail(up) /\ up # <<>> /\ Head(up) = up[1] /\ Head(up) \in Messages
      BY <2>2 DEF ServerHandles, TypeOK
    <3>2. \A i \in DOMAIN up' : i + 1 \in DOMAIN up /\ up'[i] = up[i + 1]
      BY <3>1 DEF TypeOK
    <3>3. CASE Head(up).cmd = "Get"
      <4>1. stored' = stored /\ down' = Append(down, stored)
        BY <2>2, <3>3 DEF ServerHandles
      <4>2. \A i \in DOMAIN down' : (i \in DOMAIN down /\ down'[i] = down[i]) \/ down'[i] = stored
        BY <4>1 DEF TypeOK
      <4> QED
        BY <3>1, <3>2, <4>1, <4>2 DEF AllHandled, Handled
    <3>4. CASE Head(up).cmd # "Get"
      <4>1. Head(up) # Get /\ 1 \in DOMAIN up
        BY <3>1, <3>4 DEF Get, TypeOK
      <4>2. Handled(Head(up).value)
        BY <3>1, <4>1 DEF AllHandled
      <4>3. stored' \in {stored, Head(up).value} /\ down' = down
        BY <2>2, <3>4 DEF ServerHandles, Larger
      <4> QED
        BY <3>1, <3>2, <4>2, <4>3 DEF AllHandled, Handled
    <3> QED
      BY <3>3, <3>4
  <2>3. CASE Connected
    BY <2>3 DEF Connected, AllHandled, Handled, TypeOK
  <2>4. CASE Retrieved
    <3>1. /\ processed' \in {processed, Head(down)} /\ down' = Tail(down) /\ down # <<>>
          /\ Head(down) = down[1] /\ 1 \in DOMAIN down
      BY <2>4 DEF Retrieved, TypeOK
    <3>2. \A i \in DOMAIN down' : i + 1 \in DOMAIN down /\ down'[i] = down[i + 1]
      BY <3>1 DEF TypeOK
    <3> QED
      BY <2>4, <3>1, <3>2 DEF Retrieved, AllHandled, Handled
  <2>5. CASE Disconnect
    BY <2>5 DEF Disconnect, AllHandled, Handled
  <2>6. CASE RestartClient
    BY <2>6 DEF RestartClient, AllHandled, Handled, TypeOK
  <2>7. CASE RequestIndex
    <3>1. \A i \in DOMAIN up' : (i \in DOMAIN up /\ up'[i] = up[i]) \/ up'[i] = Get
      BY <2>7 DEF RequestIndex, TypeOK
    <3> QED
      BY <2>7, <3>1 DEF RequestIndex, AllHandled, Handled
  <2>8. CASE ApplyTrap
    <3>1. /\ announced \in First + 1 .. Len(items) /\ announced \in Positions
          /\ processed' = announced
          /\ UNCHANGED <<items, stored, up, down>>
      BY <2>8 DEF ApplyTrap, AnnouncedIsNext, TypeOK
    <3>2. /\ \A p \in Positions : hits[p] > 0 => hits'[p] > 0
          /\ missed \subseteq missed'
          /\ hits'[announced] > 0 \/ announced \in missed'
      <4>1. CASE Lands(items[announced])
        <5>1. /\ missed' = missed /\ hits \in [Positions -> 0 .. 2]
              /\ hits' = [hits EXCEPT ![announced] = IF @ = 2 THEN 2 ELSE @ + 1]
          BY <2>8, <4>1 DEF ApplyTrap, TypeOK
        <5> QED
          BY <3>1, <5>1
      <4>2. CASE ~ Lands(items[announced])
        BY <2>8, <4>2 DEF ApplyTrap
      <4> QED
        BY <4>1, <4>2
    <3> DEFINE Kept(q) == /\ q <= Len(items')
                          /\ \A p \in First + 1 .. q :
                               items'[p] \in TrapKinds => hits'[p] > 0 \/ p \in missed'
    <3>3. \A q \in Int : Handled(q) /\ (q > First => q \in Positions) => Kept(q)
      BY <3>1, <3>2 DEF Handled, TypeOK
    <3>4. Kept(announced)
      BY <2>8, <3>1, <3>2, <3>3 DEF ApplyTrap, AnnouncedIsNext, AllHandled, Handled, TypeOK
    <3>5. \A i \in DOMAIN up : up[i] # Get => up[i].value \in Positions
      BY DEF TypeOK, Messages, Get, Set
    <3>6. \A i \in DOMAIN down : down[i] \in 0 .. MaxItems
      BY DEF TypeOK
    <3>7. /\ Kept(stored)
          /\ \A i \in DOMAIN up : up[i] # Get => Kept(up[i].value)
          /\ \A i \in DOMAIN down : Kept(down[i])
      <4> HIDE DEF Kept
      <4> QED
        BY <3>3, <3>5, <3>6 DEF AllHandled, TypeOK
    <3> QED
      BY <3>1, <3>4, <3>7 DEF AllHandled, Handled
  <2>9. CASE RecordTrap
    <3>1. \A i \in DOMAIN up' :
            (i \in DOMAIN up /\ up'[i] = up[i]) \/ up'[i] = Set(processed)
      BY <2>9 DEF RecordTrap, TypeOK
    <3>2. Set(processed).value = processed
      BY DEF Set
    <3> QED
      BY <2>9, <3>1, <3>2 DEF RecordTrap, AllHandled, Handled
  <2>10. CASE ReceivePacket \/ Game \/ WriteOtherBody \/ AnnounceTrap \/ UNCHANGED vars
    BY <2>10 DEF ReceivePacket, Game, RunBody, PlayerChanges, RestartGame, WriteOtherBody,
                 AnnounceTrap, AllHandled, Handled
  <2> QED
    BY <2>1, <2>2, <2>3, <2>4, <2>5, <2>6, <2>7, <2>8, <2>9, <2>10 DEF Next, Server, Traps
<1>3. TypeOK /\ AllHandled => NothingSkipped
  BY DEF TypeOK, AllHandled, Handled, NothingSkipped
<1> QED
  BY <1>1, <1>2, <1>3, TrapTypeCorrect, TrapsInOrder, PTL DEF Spec

\* No trap takes effect before the game has taken its memo, shown or lost with
\* the emulation.
THEOREM MemoComesFirst == Spec => []EffectAfterMemo
<1> USE TrapAssumption DEF Nothing, Positions
<1>1. Init => Memo
  BY DEF Init, Memo, MemoShown, EffectAfterMemo
<1>2. TypeOK /\ Memo /\ [Next]_vars => Memo'
  <2> SUFFICES ASSUME TypeOK, Memo, [Next]_vars PROVE Memo'
    OBVIOUS
  <2> USE DEF vars, serverVars, linkVars, stateVars, gameVars, mishaps, history
  <2> USE DEF Memo, MemoShown, EffectAfterMemo
  <2>1. CASE RunBody
    BY <2>1 DEF RunBody
  <2>2. CASE RestartGame
    BY <2>2 DEF RestartGame
  <2>3. CASE WriteOtherBody
    BY <2>3 DEF WriteOtherBody, Ready
  <2>4. CASE AnnounceTrap
    BY <2>4 DEF AnnounceTrap
  <2>5. CASE ApplyTrap
    <3>1. announced \in taken /\ taken' = taken /\ announced' = Nothing
      BY <2>5 DEF ApplyTrap
    <3>2. \A p \in Positions : p # announced => hits'[p] = hits[p]
      BY <2>5 DEF ApplyTrap, TypeOK
    <3> QED
      BY <3>1, <3>2
  <2>6. CASE \/ \E kind \in Pool : FindItem(kind)
             \/ Server \/ RestartClient \/ PlayerChanges \/ RequestIndex \/ RecordTrap
             \/ UNCHANGED vars
    BY <2>6 DEF FindItem, Server, ReceivePacket, ServerHandles, Connected, Retrieved,
                Disconnect, RestartClient, PlayerChanges, RequestIndex, RecordTrap
  <2> QED
    BY <2>1, <2>2, <2>3, <2>4, <2>5, <2>6 DEF Next, Game, Traps
<1>3. Memo => EffectAfterMemo
  BY DEF Memo
<1> QED
  BY <1>1, <1>2, <1>3, TrapTypeCorrect, PTL DEF Spec
=============================================================================
