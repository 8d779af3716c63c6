---------------------------- MODULE PickupChannel ----------------------------
(***************************************************************************)
(* How a collected pickup becomes a checked location.                      *)
(*                                                                         *)
(* The game adds the pickup's bit to a counter that lives in the save.     *)
(* The client's tick reads the counters, reports what they decode to with  *)
(* LocationChecks, and then arms a remote-execution body that subtracts    *)
(* the amounts it read.  The game runs an armed body when it gets to it,   *)
(* and clears the pending-op byte.  One tick is cut where the game, the    *)
(* server or a restart can act between two memory accesses or at an await. *)
(***************************************************************************)
EXTENDS PickupEncoding

VARIABLES
  (* the game *)
  collected,      \* pickups the running game considers collected
  amount,         \* the pickup counters in its inventory
  saved,          \* the same two in the save file
  pendingOp,      \* the byte at PENDING_OP_OFFSET is non-zero
  body,           \* what the remote-execution body consumes
  (* the client *)
  hooked,         \* Dolphin is hooked and the game is in a world
  pc,             \* where the running tick of _handle_game_ready stands
  snapshot,       \* the counters as read_inventory returned them, while the tick needs them
  (* the server *)
  linked,         \* the client has an authenticated connection
  sent,           \* locations of LocationChecks on their way
  checked,        \* locations the server has recorded
  (* history *)
  everCollected,  \* pickups the player ever collected, in any timeline
  lost,           \* locations of LocationChecks that never reached the server
  stale           \* counters whose amount was taken down between a tick's read and
                  \* the moment the game consumes what was read

gameVars   == <<collected, amount, saved, pendingOp>>
clientVars == <<hooked, pc, snapshot>>
serverVars == <<linked, sent, checked>>
history    == <<everCollected, lost, stale>>
vars == <<gameVars, body, clientVars, serverVars, history>>

TickPoints == {"idle", "guard", "act", "consume", "flag"}

Init ==
  /\ collected = {}
  /\ amount = NoAmounts
  /\ saved = [collected |-> {}, amount |-> NoAmounts]
  /\ pendingOp = FALSE
  /\ body = NoDeltas
  /\ hooked = FALSE
  /\ pc = "idle"
  /\ snapshot = NoAmounts
  /\ linked = FALSE
  /\ sent = {}
  /\ checked = {}
  /\ everCollected = {}
  /\ lost = {}
  /\ stale = {}
-----------------------------------------------------------------------------
(* The game.                                                               *)

\* The patched pickup script adds the pickup's bit natively, whether or not a
\* client is attached.
Collect(p) ==
  /\ p \notin collected
  /\ collected' = collected \cup {p}
  /\ everCollected' = everCollected \cup {p}
  /\ amount' = AddPickup(amount, p)
  /\ UNCHANGED <<saved, pendingOp, body, clientVars, serverVars, lost, stale>>

SaveGame ==
  /\ saved' = [collected |-> collected, amount |-> amount]
  /\ UNCHANGED <<collected, amount, pendingOp, body, clientVars, serverVars, history>>

\* The counters whose amount does not contain what was read or armed.
Outdated(read, amt) == {c \in DOMAIN read : ~ (read[c] \subseteq amt[c])}

\* Dying or quitting and loading the save rolls the counters back with the rest
\* of the inventory.  Nothing in the client keeps a load out of a running tick,
\* and it need not clear the pending-op byte: what the tick has read, and what
\* is armed, may then no longer be in the counters.
LoadGame ==
  /\ collected' = saved.collected
  /\ amount' = saved.amount
  /\ pendingOp' \in {FALSE, pendingOp}
  /\ stale' = stale
       \cup (IF hooked /\ pc \in {"guard", "act", "consume"}
             THEN Outdated(snapshot, saved.amount) ELSE {})
       \cup (IF pendingOp' \/ (hooked /\ pc = "flag")
             THEN Outdated(body, saved.amount) ELSE {})
  /\ UNCHANGED <<saved, body, clientVars, serverVars, everCollected, lost>>

\* The game executes an armed body, then clears the byte.  It may do so between
\* read_inventory and has_pending_op of one tick, which then finds the byte clear
\* and goes on with amounts that have just been consumed.
RunBody ==
  /\ pendingOp
  /\ amount' = Consume(amount, body)
  /\ pendingOp' = FALSE
  /\ stale' = IF hooked /\ pc = "guard" THEN stale \cup Outdated(snapshot, amount') ELSE stale
  /\ UNCHANGED <<collected, saved, body, clientVars, serverVars, everCollected, lost>>

\* Closing the emulator loses everything since the last save.
CloseGame ==
  /\ hooked' = FALSE
  /\ collected' = saved.collected
  /\ amount' = saved.amount
  /\ pendingOp' = FALSE
  /\ UNCHANGED <<saved, body, pc, snapshot, serverVars, history>>
-----------------------------------------------------------------------------
(* The client.                                                             *)

\* _handle_game_not_ready: the sync task hooks only between ticks.
Hook ==
  /\ ~hooked
  /\ pc = "idle"
  /\ hooked' = TRUE
  /\ UNCHANGED <<gameVars, body, pc, snapshot, serverVars, history>>

\* A read or write on a dead hook raises DolphinException out of the tick.
AbortTick ==
  /\ ~hooked
  /\ pc # "idle"
  /\ pc' = "idle"
  /\ snapshot' = NoAmounts
  /\ UNCHANGED <<gameVars, body, hooked, serverVars, history>>

\* The client process dies; nothing of a tick survives it.
Crash ==
  /\ pc' = "idle"
  /\ hooked' = FALSE
  /\ linked' = FALSE
  /\ snapshot' = NoAmounts
  /\ UNCHANGED <<gameVars, body, sent, checked, history>>

\* The tick needs a server connection, and reads the inventory first of all.
ReadInventory ==
  /\ pc = "idle"
  /\ hooked
  /\ linked
  /\ snapshot' = amount
  /\ pc' = "guard"
  /\ UNCHANGED <<gameVars, body, hooked, serverVars, history>>

PendingOpGuardDropped ==   \* mutant: no guard
  /\ pc = "guard"
  /\ hooked
  /\ pc' = "act"
  /\ UNCHANGED <<gameVars, body, hooked, snapshot, serverVars, history>>

PendingOpGuardOnBody ==   \* mutant: looks at the body, which the game leaves in place
  /\ pc = "guard"
  /\ hooked
  /\ pc' = IF body # NoDeltas THEN "idle" ELSE "act"
  /\ snapshot' = IF body # NoDeltas THEN NoAmounts ELSE snapshot
  /\ UNCHANGED <<gameVars, body, hooked, serverVars, history>>

\* Never write over a body the game has not consumed yet.
PendingOpGuard ==
  /\ pc = "guard"
  /\ hooked
  /\ pc' = IF pendingOp THEN "idle" ELSE "act"
  /\ snapshot' = IF pendingOp THEN NoAmounts ELSE snapshot
  /\ UNCHANGED <<gameVars, body, hooked, serverVars, history>>

\* A HUD message, a trap, a freeze or, with all counters zero, an item grant
\* takes this tick's body instead.
WriteOtherBody ==
  /\ pc = "act"
  /\ hooked
  /\ body' = NoDeltas
  /\ pc' = "flag"
  /\ snapshot' = NoAmounts
  /\ UNCHANGED <<gameVars, hooked, serverVars, history>>

NothingToDo ==
  /\ pc = "act"
  /\ snapshot = NoAmounts
  /\ pc' = "idle"
  /\ UNCHANGED <<gameVars, body, hooked, snapshot, serverVars, history>>

\* One LocationChecks for every decoded index, before any counter is consumed.
\* On a dead socket send_msgs drops the message without raising.
ReportPickups ==
  /\ pc = "act"
  /\ snapshot # NoAmounts
  /\ IF linked
     THEN sent' = sent \cup Decode(snapshot) /\ UNCHANGED lost
     ELSE lost' = lost \cup Decode(snapshot) /\ UNCHANGED sent
  /\ pc' = "consume"
  /\ UNCHANGED <<gameVars, body, hooked, snapshot, linked, checked, everCollected, stale>>

WriteConsumeBodyBlanket ==   \* mutant: zeroes what the counters hold now
  /\ pc = "consume"
  /\ hooked
  /\ body' = Deltas(amount)
  /\ pc' = "flag"
  /\ snapshot' = NoAmounts
  /\ UNCHANGED <<gameVars, hooked, serverVars, history>>

\* consume_counters arms exactly what was read, execute writes the body ...
WriteConsumeBody ==
  /\ pc = "consume"
  /\ hooked
  /\ body' = Deltas(snapshot)
  /\ pc' = "flag"
  /\ snapshot' = NoAmounts
  /\ UNCHANGED <<gameVars, hooked, serverVars, history>>

\* ... and the pending-op byte last.
SetPendingOp ==
  /\ pc = "flag"
  /\ hooked
  /\ pendingOp' = TRUE
  /\ pc' = "idle"
  /\ UNCHANGED <<collected, amount, saved, body, hooked, snapshot, serverVars, history>>
-----------------------------------------------------------------------------
(* The server connection.                                                  *)

Connect ==
  /\ ~linked
  /\ linked' = TRUE
  /\ UNCHANGED <<gameVars, body, clientVars, sent, checked, history>>

\* The connection can close at any moment, and what was under way is lost.
Disconnect ==
  /\ linked
  /\ linked' = FALSE
  /\ sent' \in {sent, {}}
  /\ lost' = lost \cup (sent \ sent')
  /\ UNCHANGED <<gameVars, body, clientVars, checked, everCollected, stale>>

Deliver ==
  /\ sent # {}
  /\ checked' = checked \cup sent
  /\ sent' = {}
  /\ UNCHANGED <<gameVars, body, clientVars, linked, history>>
-----------------------------------------------------------------------------
Game   == SaveGame \/ LoadGame \/ RunBody \/ CloseGame
Tick   == ReadInventory \/ PendingOpGuard \/ WriteOtherBody \/ NothingToDo
          \/ ReportPickups \/ WriteConsumeBody \/ SetPendingOp \/ AbortTick
Client == Hook \/ Crash \/ Tick
Server == Connect \/ Disconnect \/ Deliver

Next == (\E p \in Pickups : Collect(p)) \/ Game \/ Client \/ Server

Spec == Init /\ [][Next]_vars

(* The sync loop keeps ticking, re-hooking and reconnecting; the game runs  *)
(* armed bodies frame after frame; a live socket delivers.  HUD messages   *)
(* are spaced by their cooldown and traps by MIN_TRAP_SPACING, both longer *)
(* than a tick, so the report step cannot be crowded out for ever.         *)
Fairness ==
  /\ WF_vars(Tick)
  /\ WF_vars(Hook)
  /\ WF_vars(Connect)
  /\ WF_vars(Deliver)
  /\ SF_vars(RunBody)
  /\ SF_vars(ReportPickups)

FairSpec == Spec /\ Fairness
-----------------------------------------------------------------------------
(* Properties.                                                             *)

TypeOK ==
  /\ collected \subseteq Pickups
  /\ amount \in Amounts
  /\ saved \in [collected : SUBSET Pickups, amount : Amounts]
  /\ pendingOp \in BOOLEAN
  /\ body \in DeltaMaps
  /\ hooked \in BOOLEAN
  /\ pc \in TickPoints
  /\ snapshot \in Amounts
  /\ linked \in BOOLEAN
  /\ sent \subseteq Pickups
  /\ checked \subseteq Pickups
  /\ everCollected \subseteq Pickups
  /\ lost \subseteq Pickups
  /\ stale \subseteq Counters

\* Locations handed to send_msgs, whatever became of them.
Reported == checked \cup sent \cup lost

\* A read or a body of this pickup's counter was overtaken: read_inventory comes
\* before has_pending_op, and nothing keeps a load from falling in between.
Overtaken(p) == CounterOf(p) \in stale

\* A collected pickup was reported, or its bit is still in its counter for a
\* later tick to report: whatever the order of pickups, ticks, bodies, saves,
\* loads and restarts, consuming a counter drops no location that no
\* LocationChecks named, unless the counter was taken down between a read and
\* the consumption of what was read.
NoLostCheck == \A p \in collected : p \in Reported \/ Holds(amount, p) \/ Overtaken(p)

\* PLAN.md:1049: "the channel is lossless for any number of pickups collected
\* over any disconnect length".
LosslessOverDisconnects ==
  \A p \in collected : p \in checked \cup sent \/ Holds(amount, p) \/ Overtaken(p)

\* The client reports no location whose pickup was not collected: bits never
\* carry into a neighbour's, and no decrement borrows from one, unless the
\* counter was taken down between a read and the consumption of what was read.
NoInventedCheck == \A p \in Reported : p \in everCollected \/ Overtaken(p)

\* Every bit in these counters belongs to a pickup collected in the same
\* timeline, so no pickup is added to a counter twice and no bit decodes as stray.
InLockstep(amt, pickups, counters) ==
  \A c \in counters : \A b \in amt[c] :
     \E p \in pickups : CounterOf(p) = c /\ BitOf(p) = b

OneBitPerPickup == InLockstep(amount, collected, Counters \ stale)

\* The body is written only while the game is not due to run it.
BodyNeverOverwritten == [][body' # body => ~pendingOp]_vars

\* Once Dolphin and the server stay connected, every collected pickup is
\* recorded by the server, unless a load takes it back first, an earlier
\* connection lost its report, or its counter was overtaken.
StableConnection == <>[](hooked /\ linked)
EventuallyChecked ==
  StableConnection =>
    \A p \in Pickups : p \in collected ~> 
      (p \in checked \cup lost \/ p \notin collected \/ Overtaken(p))

(* The inductive invariants behind NoLostCheck, NoInventedCheck and        *)
(* OneBitPerPickup (PickupChannelProofs).                                  *)

\* What is read or armed is still part of a counter when the game acts on it,
\* unless the counter was overtaken.
NothingStale ==
  /\ pc \in {"act", "consume", "flag"} => ~pendingOp
  /\ hooked /\ pc \in {"guard", "act", "consume"} =>
       Outdated(snapshot, amount) \subseteq stale
  /\ pendingOp \/ (hooked /\ pc = "flag") =>
       Outdated(body, amount) \subseteq stale

Counting ==
  /\ TypeOK
  /\ collected \cup saved.collected \subseteq everCollected
  /\ OneBitPerPickup
  /\ InLockstep(saved.amount, saved.collected, Counters \ stale)
  /\ InLockstep(snapshot, everCollected, Counters \ stale)
  /\ NoInventedCheck
  /\ NothingStale

\* An armed body, and one about to be, consumes only reported pickups: this is
\* what sending before consuming buys, and it holds in the save file's timeline
\* as well as in the running one.
ReportedFirst ==
  /\ pc = "consume" => Decode(snapshot) \subseteq Reported
  /\ pendingOp \/ pc = "flag" =>
       \A p \in Pickups : CounterOf(p) \in DOMAIN body /\ Holds(body, p) => p \in Reported

Lossless ==
  /\ Counting
  /\ NoLostCheck
  /\ \A p \in saved.collected : p \in Reported \/ Holds(saved.amount, p) \/ Overtaken(p)
  /\ ReportedFirst

(* The channel implements the abstract promise.                            *)
Reporting == INSTANCE LocationReporting
  WITH saved <- saved.collected, ever <- everCollected, recorded <- checked,
       doubtful <- {p \in Pickups : Overtaken(p)}

\* Every step is a step of LocationReporting or leaves its variables alone.
ImplementsReporting == Reporting!Spec
=============================================================================
