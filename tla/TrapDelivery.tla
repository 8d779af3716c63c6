---------------------------- MODULE TrapDelivery ----------------------------
(***************************************************************************)
(* How received traps, which are events and not capacities, take effect    *)
(* once each (client/traps.py and client.py::_handle_traps).               *)
(*                                                                         *)
(* The client shows a trap's memo through the remote-execution body, waits *)
(* for the pending-op byte to clear, applies the effect by writing memory, *)
(* and only then records the position in DataStorage, from where the next  *)
(* connection fetches it.  Ordinary items, other bodies, deaths, loading   *)
(* screens, lost messages, restarts of the client and of the emulator come *)
(* in between.  Positions count from 1, so that processed_index is the     *)
(* last handled position.                                                  *)
(***************************************************************************)
EXTENDS Integers, Sequences

CONSTANTS
  Pool,      \* the kinds of items that can be received
  First,     \* first_non_starting_item_index: how many items are start inventory
  MaxItems,  \* bound: length of the received list
  MaxGets    \* bound: requests and replies outstanding at a time

Kinds      == {"Damage Trap", "Ammo Depletion Trap", "Freeze Trap", "other"}
TrapKinds  == Kinds \ {"other"}

ASSUME TrapAssumption ==
  /\ Pool \subseteq Kinds
  /\ First \in Nat
  /\ MaxItems \in Nat
  /\ MaxGets \in Nat \ {0}

VARIABLES
  (* the server *)
  items,       \* the items of this slot, start inventory first
  stored,      \* the trap index in DataStorage
  up, down,    \* messages on the connection, in order
  linked,
  (* the client *)
  received,    \* how many of items this connection has sent
  processed,   \* trap_state.processed_index
  announced,   \* trap_state.announced, as a position, or Nothing
  pc,          \* "record": an effect is applied and its Set not sent
  (* the game *)
  player,      \* "alive", "dead", or "none": no CPlayerState
  pendingOp,
  memo,        \* the position whose memo the body shows, or Nothing
  (* history *)
  taken,       \* positions whose memo the game has shown, or has gone down with
  hits,        \* how often each position took effect, counted to 2
  unrecorded,  \* positions that took effect and whose Set never arrived
  missed       \* positions applied to a player that was not there

serverVars == <<items, stored>>
linkVars   == <<up, down, linked>>
stateVars  == <<processed, announced>>
gameVars   == <<player, pendingOp, memo>>
mishaps    == <<unrecorded, missed>>
history    == <<taken, hits, mishaps>>
vars == <<serverVars, linkVars, received, stateVars, pc, gameVars, history>>

Unknown == -1
Nothing == 0
Get     == [cmd |-> "Get"]
Set(p)  == [cmd |-> "Set", value |-> p]
Larger(a, b) == IF a > b THEN a ELSE b

\* generate_early refuses traps in the start inventory.
Init ==
  /\ items = [p \in 1 .. First |-> "other"]
  /\ stored = 0
  /\ up = <<>> /\ down = <<>>
  /\ linked = FALSE
  /\ received = 0
  /\ processed = Unknown
  /\ announced = Nothing
  /\ pc = "idle"
  /\ player = "alive"
  /\ pendingOp = FALSE
  /\ memo = Nothing
  /\ taken = {}
  /\ hits = [p \in 1 .. MaxItems |-> 0]
  /\ unrecorded = {} /\ missed = {}
-----------------------------------------------------------------------------
(* The server and the connection.                                          *)

FindItem(kind) ==
  /\ Len(items) < MaxItems
  /\ items' = Append(items, kind)
  /\ UNCHANGED <<stored, linkVars, received, stateVars, pc, gameVars, history>>

ReceivePacket ==
  /\ linked
  /\ received < Len(items)
  /\ received' \in received + 1 .. Len(items)
  /\ UNCHANGED <<serverVars, linkVars, stateVars, pc, gameVars, history>>

\* A Set carries the operation "max"; every Get is answered.
ServerHandles ==
  /\ up # <<>>
  /\ up' = Tail(up)
  /\ IF Head(up).cmd = "Get"
     THEN /\ down' = Append(down, stored)
          /\ UNCHANGED stored
     ELSE /\ stored' = Larger(stored, Head(up).value)
          /\ UNCHANGED down
  /\ UNCHANGED <<items, linked, received, stateVars, pc, gameVars, history>>

\* on_package("Connected") starts a new TrapState.
Connected ==
  /\ ~linked
  /\ pc = "idle"
  /\ linked' = TRUE
  /\ processed' = Unknown
  /\ announced' = Nothing
  /\ UNCHANGED <<serverVars, up, down, received, pc, gameVars, history>>

RetrievedAlways ==   \* mutant: a late reply to a repeated Get replaces the index
  /\ down # <<>>
  /\ down' = Tail(down)
  /\ processed' = Head(down)
  /\ UNCHANGED <<serverVars, up, linked, received, announced, pc, gameVars, history>>

\* Only the first reply counts: repeated Gets are all answered.
Retrieved ==
  /\ down # <<>>
  /\ down' = Tail(down)
  /\ processed' = IF processed = Unknown THEN Head(down) ELSE processed
  /\ UNCHANGED <<serverVars, up, linked, received, announced, pc, gameVars, history>>

\* Positions whose Set is still to be sent or on its way.
Outstanding ==
  {p \in DOMAIN hits : (pc = "record" /\ p = processed) \/ \E i \in DOMAIN up : up[i] = Set(p)}

\* The framework drops the received items with the connection.
Disconnect ==
  /\ linked
  /\ linked' = FALSE
  /\ up' = <<>> /\ down' = <<>>
  /\ received' = 0
  /\ unrecorded' = unrecorded \cup Outstanding
  /\ UNCHANGED <<serverVars, stateVars, pc, gameVars, taken, hits, missed>>

\* The client exits or dies; the next one starts from nothing.
RestartClient ==
  /\ linked' = FALSE
  /\ up' = <<>> /\ down' = <<>>
  /\ received' = 0
  /\ processed' = Unknown
  /\ announced' = Nothing
  /\ pc' = "idle"
  /\ unrecorded' = unrecorded \cup Outstanding
  /\ UNCHANGED <<serverVars, gameVars, taken, hits, missed>>
-----------------------------------------------------------------------------
(* The game.                                                               *)

\* The hook does not run during cutscenes and pauses.
RunBody ==
  /\ pendingOp
  /\ pendingOp' = FALSE
  /\ taken' = taken \cup ({memo} \ {Nothing})
  /\ UNCHANGED <<serverVars, linkVars, received, stateVars, pc, player, memo, hits, mishaps>>

PlayerChanges ==
  /\ player' \in {"alive", "dead", "none"} \ {player}
  /\ UNCHANGED <<serverVars, linkVars, received, stateVars, pc, pendingOp, memo, history>>

\* The emulation restarts, perhaps with a body it has not run.
RestartGame ==
  /\ player' = "none"
  /\ pendingOp' = FALSE
  /\ memo' = Nothing
  /\ taken' = taken \cup (IF pendingOp THEN {memo} \ {Nothing} ELSE {})
  /\ UNCHANGED <<serverVars, linkVars, received, stateVars, pc, hits, mishaps>>
-----------------------------------------------------------------------------
(* One tick: _handle_game_ready up to and including _handle_traps, which   *)
(* has no await before its messages.                                       *)

Ready == pc = "idle" /\ linked /\ player # "none" /\ ~pendingOp

\* A HUD message, a freeze, a grant or a consume takes the body.
WriteOtherBody ==
  /\ Ready
  /\ pendingOp' = TRUE
  /\ memo' = Nothing
  /\ UNCHANGED <<serverVars, linkVars, received, stateVars, pc, player, history>>

RequestIndex ==
  /\ Ready
  /\ processed = Unknown
  /\ Len(up) + Len(down) < MaxGets
  /\ up' = Append(up, Get)
  /\ UNCHANGED <<serverVars, down, linked, received, processed, announced, pc, gameVars, history>>

PendingSkipsOne == {p \in Larger(processed, First) + 2 .. received : items[p] \in TrapKinds}   \* mutant: off by one

\* pending_traps, and its first element.
Pending == {p \in Larger(processed, First) + 1 .. received : items[p] \in TrapKinds}
Next1(S) == CHOOSE p \in S : \A q \in S : p <= q

AnnounceTrap ==
  /\ Ready
  /\ processed # Unknown
  /\ announced = Nothing
  /\ Pending # {}
  /\ announced' = Next1(Pending)
  /\ memo' = Next1(Pending)
  /\ pendingOp' = TRUE
  /\ UNCHANGED <<serverVars, linkVars, received, processed, pc, player, history>>

\* _apply_trap: damage needs a living player, and an ammo write to a player that
\* went away since the inventory was read is dropped without a word.
Applicable(kind) == kind = "Damage Trap" => player = "alive"
Lands(kind)      == kind = "Freeze Trap" \/ player # "none"

ApplyWhileAnnouncing ==   \* mutant: does not wait for the game to take the memo
  /\ pc = "idle" /\ linked /\ player # "none"
  /\ processed # Unknown
  /\ announced # Nothing
  /\ received > 0
  /\ Applicable(items[announced])
  /\ hits' = [hits EXCEPT ![announced] = IF @ = 2 THEN 2 ELSE @ + 1]
  /\ processed' = announced
  /\ announced' = Nothing
  /\ pc' = "record"
  /\ UNCHANGED <<serverVars, linkVars, received, gameVars, taken, mishaps>>

ApplyTrapTooFar ==   \* mutant: also marks the next position handled
  /\ pc = "idle" /\ linked /\ ~pendingOp
  /\ processed # Unknown
  /\ announced # Nothing
  /\ received > 0
  /\ Applicable(items[announced])
  /\ IF Lands(items[announced])
     THEN hits' = [hits EXCEPT ![announced] = IF @ = 2 THEN 2 ELSE @ + 1] /\ UNCHANGED missed
     ELSE missed' = missed \cup {announced} /\ UNCHANGED hits
  /\ processed' = announced + 1
  /\ announced' = Nothing
  /\ pc' = "record"
  /\ UNCHANGED <<serverVars, linkVars, received, gameVars, taken, unrecorded>>

ApplyTrap ==
  /\ pc = "idle" /\ linked /\ ~pendingOp
  /\ processed # Unknown
  /\ announced # Nothing
  /\ received > 0
  /\ Applicable(items[announced])
  /\ IF Lands(items[announced])
     THEN hits' = [hits EXCEPT ![announced] = IF @ = 2 THEN 2 ELSE @ + 1] /\ UNCHANGED missed
     ELSE missed' = missed \cup {announced} /\ UNCHANGED hits
  /\ processed' = announced
  /\ announced' = Nothing
  /\ pc' = "record"
  /\ UNCHANGED <<serverVars, linkVars, received, gameVars, taken, unrecorded>>

RecordTrapTooFar ==   \* mutant: index + 1 counted twice
  /\ pc = "record"
  /\ up' = IF linked THEN Append(up, Set(processed + 1)) ELSE up
  /\ pc' = "idle"
  /\ UNCHANGED <<serverVars, down, linked, received, stateVars, gameVars, history>>

\* send_msgs drops the message when the socket is closed.
RecordTrap ==
  /\ pc = "record"
  /\ up' = IF linked THEN Append(up, Set(processed)) ELSE up
  /\ pc' = "idle"
  /\ UNCHANGED <<serverVars, down, linked, received, stateVars, gameVars, history>>
-----------------------------------------------------------------------------
Server == ReceivePacket \/ ServerHandles \/ Connected \/ Retrieved \/ Disconnect
Game   == RunBody \/ PlayerChanges \/ RestartGame
Traps  == RequestIndex \/ AnnounceTrap \/ ApplyTrap \/ RecordTrap

Next == (\E kind \in Pool : FindItem(kind)) \/ Server \/ Game
        \/ RestartClient \/ WriteOtherBody \/ Traps

Spec == Init /\ [][Next]_vars

(* The loops run on, messages arrive, time passes.  Cooldowns leave ticks  *)
(* to the traps, and the player is alive, outside cutscenes, often enough. *)
Fairness ==
  /\ WF_vars(ReceivePacket) /\ WF_vars(ServerHandles) /\ WF_vars(Retrieved)
  /\ WF_vars(Connected) /\ WF_vars(RecordTrap)
  /\ SF_vars(RequestIndex) /\ SF_vars(AnnounceTrap) /\ SF_vars(ApplyTrap)
  /\ SF_vars(RunBody)

FairSpec == Spec /\ Fairness
-----------------------------------------------------------------------------
(* Properties.                                                             *)

Positions == 1 .. MaxItems
Messages  == {Get} \cup {Set(p) : p \in Positions}

TypeOK ==
  /\ items \in Seq(Kinds) /\ Len(items) >= First
  /\ stored \in 0 .. MaxItems
  /\ up \in Seq(Messages)
  /\ down \in Seq(0 .. MaxItems)
  /\ linked \in BOOLEAN
  /\ received \in 0 .. Len(items)
  /\ processed \in {Unknown} \cup 0 .. MaxItems
  /\ announced \in {Nothing} \cup Positions
  /\ pc \in {"idle", "record"}
  /\ player \in {"alive", "dead", "none"}
  /\ pendingOp \in BOOLEAN
  /\ memo \in {Nothing} \cup Positions
  /\ taken \subseteq Positions
  /\ hits \in [Positions -> 0 .. 2]
  /\ unrecorded \subseteq Positions /\ missed \subseteq Positions

\* A trap takes effect twice only if the connection or the client was lost
\* between its effect and the arrival of its Set: repeated requests, late
\* replies, reconnects and restarts alone never replay one.
AtMostOnce == \A p \in Positions : hits[p] > 1 => p \in unrecorded

\* No trap is passed over: every trap up to the position the client or the
\* server holds as handled has taken effect, whatever was lost or restarted,
\* unless the player was gone when it was applied.
NothingSkipped ==
  \A p \in First + 1 .. Len(items) :
    items[p] \in TrapKinds /\ (p <= stored \/ p <= processed) => hits[p] > 0 \/ p \in missed

\* test/manual/README.md, MT22: "Each trap shows its HUD memo and then applies".
\* A restarted emulation takes a memo with it, and the byte is as clear as after
\* showing it.
EffectAfterMemo == \A p \in Positions : hits[p] > 0 => p \in taken

\* Once the connection stays up, every trap the server holds takes effect.
StableConnection == <>[](linked /\ player = "alive")
EventuallyApplied ==
  StableConnection =>
    <>[](\A p \in DOMAIN items :
           p > First /\ items[p] \in TrapKinds => hits[p] > 0 \/ p \in missed)
=============================================================================
