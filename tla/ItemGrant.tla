------------------------------ MODULE ItemGrant ------------------------------
(***************************************************************************)
(* How received items become capacities in the game.                       *)
(*                                                                         *)
(* Nothing remembers what was granted: every tick compares the capacities  *)
(* it read with those the whole received list calls for, and arms one body *)
(* with as much of the difference as fits.  The capacities are part of the *)
(* save, so a load takes grants back and the same comparison repeats them. *)
(***************************************************************************)
EXTENDS ReceiveItems

CONSTANTS
  Data,        \* the slot data of the seed
  Pool,        \* the items that can be found
  Start,       \* the starting inventory, first in the received list
  BodyBudget,  \* how many adjustments fit one remote-execution body
  MaxItems,    \* bound: length of the server's list
  MaxLoads     \* bound: how often a save is loaded or the game closed

ASSUME GrantAssumption ==
  /\ Data \in SlotData
  /\ Pool \subseteq Items
  /\ Start \in Seq(Items)
  /\ BodyBudget \in Nat \ {0}
  /\ MaxItems \in Nat
  /\ MaxLoads \in Nat

VARIABLES
  items,       \* every item the server holds for this slot, in order
  received,    \* ctx.items_received: the part of it this connection has sent
  linked,      \* the client is connected and authenticated
  capacity,    \* capacities in the running game
  saved,       \* capacities in the save file
  loads,       \* loads so far
  pendingOp,   \* the game has not run the last body yet
  body,        \* capacity adjustments of the remote-execution body
  hooked,      \* Dolphin is hooked and the game is in a world
  pc,          \* where the tick of _handle_game_ready stands
  snapshot,    \* capacities as read_inventory returned them
  stale        \* history: the game has run a body between a tick's read_inventory
               \* and its has_pending_op

serverVars == <<items, received, linked>>
gameVars   == <<capacity, saved, loads, pendingOp, stale>>
clientVars == <<hooked, pc, snapshot>>
vars == <<serverVars, gameVars, body, clientVars>>

NoBody     == [s \in {} |-> 0]
TickPoints == {"idle", "guard", "act", "flag"}
Capacities == [Slots -> Nat]

Init ==
  /\ items = Start
  /\ received = <<>>
  /\ linked = FALSE
  /\ capacity = Desired(Start, Data)
  /\ saved = Desired(Start, Data)
  /\ loads = 0
  /\ pendingOp = FALSE
  /\ body = NoBody
  /\ hooked = FALSE
  /\ pc = "idle"
  /\ snapshot = Desired(Start, Data)
  /\ stale = FALSE
-----------------------------------------------------------------------------
(* The server.                                                             *)

\* Another player, or this one, finds an item of this slot.
FindItem(item) ==
  /\ Len(items) < MaxItems
  /\ items' = Append(items, item)
  /\ UNCHANGED <<received, linked, gameVars, body, clientVars>>

Connect ==
  /\ ~linked
  /\ linked' = TRUE
  /\ UNCHANGED <<items, received, gameVars, body, clientVars>>

\* The framework forgets the received items when the connection closes, which
\* can happen at any point of a tick.
Disconnect ==
  /\ linked
  /\ linked' = FALSE
  /\ received' = <<>>
  /\ UNCHANGED <<items, gameVars, body, clientVars>>

\* ReceivedItems packets arrive while a tick awaits.
ReceivePacket ==
  /\ linked
  /\ \E n \in Len(received) + 1 .. Len(items) : received' = SubSeq(items, 1, n)
  /\ UNCHANGED <<items, linked, gameVars, body, clientVars>>
-----------------------------------------------------------------------------
(* The game.                                                               *)

SaveGame ==
  /\ saved' = capacity
  /\ UNCHANGED <<serverVars, capacity, loads, pendingOp, stale, body, clientVars>>

\* A load may come at any point of a tick, and need not clear the pending op.
LoadGame ==
  /\ loads < MaxLoads
  /\ loads' = loads + 1
  /\ capacity' = saved
  /\ pendingOp' \in {FALSE, pendingOp}
  /\ UNCHANGED <<serverVars, saved, stale, body, clientVars>>

CloseGame ==
  /\ loads < MaxLoads
  /\ loads' = loads + 1
  /\ hooked' = FALSE
  /\ capacity' = saved
  /\ pendingOp' = FALSE
  /\ UNCHANGED <<serverVars, saved, stale, body, pc, snapshot>>

RunBody ==
  /\ pendingOp
  /\ capacity' = [s \in Slots |-> capacity[s] + (IF s \in DOMAIN body THEN body[s] ELSE 0)]
  /\ pendingOp' = FALSE
  /\ stale' = (stale \/ pc = "guard")
  /\ UNCHANGED <<serverVars, saved, loads, body, clientVars>>
-----------------------------------------------------------------------------
(* The client.                                                             *)

Hook ==
  /\ ~hooked
  /\ pc = "idle"
  /\ hooked' = TRUE
  /\ UNCHANGED <<serverVars, gameVars, body, pc, snapshot>>

AbortTick ==
  /\ ~hooked
  /\ pc # "idle"
  /\ pc' = "idle"
  /\ UNCHANGED <<serverVars, gameVars, body, hooked, snapshot>>

Crash ==
  /\ pc' = "idle"
  /\ hooked' = FALSE
  /\ linked' = FALSE
  /\ received' = <<>>
  /\ UNCHANGED <<items, gameVars, body, snapshot>>

ReadInventory ==
  /\ pc = "idle"
  /\ hooked
  /\ linked
  /\ snapshot' = capacity
  /\ pc' = "guard"
  /\ UNCHANGED <<serverVars, gameVars, body, hooked>>

PendingOpGuardDropped ==   \* mutant: writes over, and counts again, a body not yet run
  /\ pc = "guard"
  /\ hooked
  /\ pc' = "act"
  /\ UNCHANGED <<serverVars, gameVars, body, hooked, snapshot>>

PendingOpGuard ==
  /\ pc = "guard"
  /\ hooked
  /\ pc' = IF pendingOp THEN "idle" ELSE "act"
  /\ UNCHANGED <<serverVars, gameVars, body, hooked, snapshot>>

\* A HUD message, a trap, a freeze or a counter consume takes this tick's body.
WriteOtherBody ==
  /\ pc = "act"
  /\ hooked
  /\ body' = NoBody
  /\ pc' = "flag"
  /\ UNCHANGED <<serverVars, gameVars, hooked, snapshot>>

(* The received list is the one at this point of the tick, not the one at  *)
(* the read; an empty one means nothing has arrived yet.                   *)
Plan == IF received = <<>> THEN NoBody ELSE PlanGrants(Desired(received, Data), snapshot)

NothingToGrant ==
  /\ pc = "act"
  /\ Plan = NoBody
  /\ pc' = "idle"
  /\ UNCHANGED <<serverVars, gameVars, body, hooked, snapshot>>

BatchOneShort(plan) ==   \* mutant: off by one against the body budget
  [s \in {t \in DOMAIN plan : Cardinality({u \in DOMAIN plan : u < t}) < BodyBudget - 1} |-> plan[s]]

\* grant: the first deltas, by item id, that fit the body; the leftovers are
\* computed anew by a later tick.
Batch(plan) ==
  [s \in {t \in DOMAIN plan : Cardinality({u \in DOMAIN plan : u < t}) < BodyBudget} |-> plan[s]]

WriteGrantBody ==
  /\ pc = "act"
  /\ hooked
  /\ Plan # NoBody
  /\ body' = Batch(Plan)
  /\ pc' = "flag"
  /\ UNCHANGED <<serverVars, gameVars, hooked, snapshot>>

SetPendingOp ==
  /\ pc = "flag"
  /\ hooked
  /\ pendingOp' = TRUE
  /\ pc' = "idle"
  /\ UNCHANGED <<serverVars, capacity, saved, loads, stale, body, hooked, snapshot>>
-----------------------------------------------------------------------------
Server == Connect \/ Disconnect \/ ReceivePacket
Game   == SaveGame \/ LoadGame \/ CloseGame \/ RunBody
Tick   == ReadInventory \/ PendingOpGuard \/ WriteOtherBody \/ NothingToGrant
          \/ WriteGrantBody \/ SetPendingOp \/ AbortTick

Next == (\E item \in Pool : FindItem(item)) \/ Server \/ Game \/ Hook \/ Crash \/ Tick

Spec == Init /\ [][Next]_vars

(* As in PickupChannel: the loops keep running, and cooldowns longer than  *)
(* a tick leave ticks to the grants.  Pickups, which come first, are       *)
(* finitely many.                                                          *)
Fairness ==
  /\ WF_vars(Tick)
  /\ WF_vars(Hook)
  /\ WF_vars(Connect)
  /\ WF_vars(ReceivePacket)
  /\ SF_vars(RunBody)
  /\ SF_vars(WriteGrantBody)

FairSpec == Spec /\ Fairness
-----------------------------------------------------------------------------
(* Properties.                                                             *)

TypeOK ==
  /\ items \in Seq(Items)
  /\ received \in Seq(Items)
  /\ linked \in BOOLEAN
  /\ capacity \in Capacities
  /\ saved \in Capacities
  /\ loads \in Nat
  /\ pendingOp \in BOOLEAN
  /\ DOMAIN body \subseteq Slots
  /\ \A s \in DOMAIN body : body[s] \in Nat
  /\ hooked \in BOOLEAN
  /\ pc \in TickPoints
  /\ snapshot \in Capacities
  /\ stale \in BOOLEAN

Armed(s) == IF (pendingOp \/ pc = "flag") /\ s \in DOMAIN body THEN body[s] ELSE 0

WithinReceived ==
  \A s \in Slots :
    /\ capacity[s] + Armed(s) <= Desired(items, Data)[s]
    /\ saved[s] <= Desired(items, Data)[s]

\* The game never holds, and no armed body will give it, more than the items the
\* server has for this slot are worth, however ticks, packets, loads, restarts
\* and reconnects interleave: nothing is granted twice.  Only a body that the game
\* ran between a read and the guard of the same tick can have made it otherwise.
NoOverGrant == stale \/ WithinReceived

(* What makes WithinReceived inductive until such a body is run (proved in *)
(* ItemGrantProofs).                                                       *)
GrantsAccounted ==
  /\ TypeOK
  /\ WithinReceived
  /\ Continues(items, received)
  /\ pc \in {"act", "flag"} => ~pendingOp
  /\ \A s \in Slots :
       /\ saved[s] <= capacity[s]
       /\ pc \in {"guard", "act"} => capacity[s] <= snapshot[s]

\* Once Dolphin and the server stay connected and the player stops loading, the
\* game ends up with exactly what was received.
StableConnection  == <>[](hooked /\ linked)
EventuallyGranted == StableConnection => <>[](stale \/ capacity = Desired(items, Data))
=============================================================================
