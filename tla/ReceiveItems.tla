---------------------------- MODULE ReceiveItems ----------------------------
(***************************************************************************)
(* The capacities a slot should have, computed twice in the source from    *)
(* the list of received items: by the client, which writes them into the   *)
(* game (receive_items.compute_desired_capacities), and by the logic that  *)
(* placed the items (logic/item_mapping.expression).                       *)
(*                                                                         *)
(* Inventory slots are the ids of items.py.  Of the items whose gain is a  *)
(* plain capacity of one, Morph Ball stands for all.                       *)
(***************************************************************************)
EXTENDS Integers, Sequences, FiniteSets

CONSTANT EnergyTankCap   \* receive_items._ENERGY_TANK_CAP, 14
ASSUME CapAssumption == EnergyTankCap \in Nat

(* items.py: the slots each item fills with a capacity of one ...          *)
PlainGains ==
  {<<"Dark Beam", 1>>, <<"Light Beam", 2>>, <<"Dark Suit", 13>>, <<"Light Suit", 14>>,
   <<"Morph Ball", 15>>, <<"Seeker Launcher", 26>>}

(* ... what the k-th copy of a progressive item fills ...                  *)
Stages == {<<"Progressive Suit", 0, 13>>, <<"Progressive Suit", 1, 14>>}
LastStage == 1

(* ... the items that count towards the computed slots, and the rest.      *)
CountedItems ==
  {"Missile Launcher", "Missile Expansion", "Power Bomb", "Power Bomb Expansion",
   "Dark Ammo Expansion", "Light Ammo Expansion", "Beam Ammo Expansion", "Energy Tank"}
Traps == {"Damage Trap", "Ammo Depletion Trap", "Freeze Trap"}
Items == {g[1] : g \in PlainGains} \cup {g[1] : g \in Stages} \cup CountedItems \cup Traps

PlainSlots    == {1, 2, 13, 14, 15, 26}
ComputedSlots == {12, 42, 43, 44, 45, 46, 73}
Slots         == PlainSlots \cup ComputedSlots

(* Slot data: missile_expansions_unlock_launcher,                          *)
(* power_bomb_expansions_unlock_power_bombs and missile_launcher_bonus.    *)
SlotData == [unlockLauncher : BOOLEAN, unlockPowerBombs : BOOLEAN, launcherBonus : Nat]

Copies(received, item) == Cardinality({i \in DOMAIN received : received[i] = item})
Has(received, item)    == \E i \in DOMAIN received : received[i] = item

\* longer is shorter with further items received after it.
Continues(longer, shorter) ==
  /\ DOMAIN shorter \subseteq DOMAIN longer
  /\ \A i \in DOMAIN shorter : longer[i] = shorter[i]
-----------------------------------------------------------------------------
(* receive_items.compute_desired_capacities                                *)

StageOfTotal(received, i) ==   \* mutant: every copy fills the stage of the last one
  LET copies == Cardinality({j \in DOMAIN received : received[j] = received[i]})
  IN  IF copies - 1 > LastStage THEN LastStage ELSE copies - 1

\* The stage of the copy at position i is the number of copies before it.
StageAt(received, i) ==
  LET copy == Cardinality({j \in DOMAIN received : j < i /\ received[j] = received[i]})
  IN  IF copy > LastStage THEN LastStage ELSE copy

PlainDesired(received, slot) ==
  IF \E i \in DOMAIN received :
       \/ <<received[i], slot>> \in PlainGains
       \/ <<received[i], StageAt(received, i), slot>> \in Stages
  THEN 1 ELSE 0

MissilesUnlocked(received, data) ==
  \/ Has(received, "Missile Launcher")
  \/ data.unlockLauncher /\ Has(received, "Missile Expansion")

MissilesAlwaysBonus(received, data) ==   \* mutant: unlocking by expansion earns the launcher's bonus
  IF MissilesUnlocked(received, data)
  THEN 5 * (Copies(received, "Missile Launcher") + Copies(received, "Seeker Launcher")
              + Copies(received, "Missile Expansion")) + data.launcherBonus
  ELSE 0

MissilesDesired(received, data) ==
  LET launcher == IF Has(received, "Missile Launcher") THEN 1 ELSE 0
  IN  IF MissilesUnlocked(received, data)
      THEN 5 * (launcher + Copies(received, "Seeker Launcher")
                         + Copies(received, "Missile Expansion"))
             + launcher * data.launcherBonus
      ELSE 0

PowerBombsUnlocked(received, data) ==
  \/ Has(received, "Power Bomb")
  \/ data.unlockPowerBombs /\ Has(received, "Power Bomb Expansion")

PowerBombsDesired(received, data) ==
  IF PowerBombsUnlocked(received, data)
  THEN (IF Has(received, "Power Bomb") THEN 2 ELSE 0)
         + Copies(received, "Power Bomb Expansion")
  ELSE 0

AmmoDesired(received, beam, expansion) ==
  50 * Copies(received, beam) + 20 * Copies(received, expansion)
    + 10 * Copies(received, "Beam Ammo Expansion")

EnergyTanksDesired(received) ==
  LET tanks == Copies(received, "Energy Tank")
  IN  IF tanks > EnergyTankCap THEN EnergyTankCap ELSE tanks

DesiredAt(received, data, slot) ==
  CASE slot = 12 -> 1
    [] slot = 42 -> EnergyTanksDesired(received)
    [] slot = 43 -> PowerBombsDesired(received, data)
    [] slot = 44 -> MissilesDesired(received, data)
    [] slot = 45 -> AmmoDesired(received, "Dark Beam", "Dark Ammo Expansion")
    [] slot = 46 -> AmmoDesired(received, "Light Beam", "Light Ammo Expansion")
    [] slot = 73 -> IF MissilesUnlocked(received, data) THEN 1 ELSE 0
    [] OTHER     -> PlainDesired(received, slot)

Desired(received, data) == [slot \in Slots |-> DesiredAt(received, data, slot)]

PlanEveryDifference(desired, current) ==   \* mutant: lowers capacities too
  [slot \in {s \in Slots : desired[s] # current[s]} |-> desired[slot] - current[slot]]

(* plan_grants: the slots whose capacity is short, and by how much.        *)
PlanGrants(desired, current) ==
  [slot \in {s \in Slots : desired[s] > current[s]} |-> desired[slot] - current[slot]]
-----------------------------------------------------------------------------
(* logic/item_mapping.expression, for the resources a template can ask for. *)

EffectiveLauncher(received, data) ==
  \/ Has(received, "Missile Launcher")
  \/ data.unlockLauncher /\ Copies(received, "Missile Expansion") >= 1

EffectivePowerBomb(received, data) ==
  \/ Has(received, "Power Bomb")
  \/ data.unlockPowerBombs /\ Copies(received, "Power Bomb Expansion") >= 1

LogicCount(received, data, resource) ==
  CASE resource = "Missile" ->
         IF ~EffectiveLauncher(received, data) THEN 0
         ELSE 5 * (Copies(received, "Seeker Launcher") + Copies(received, "Missile Expansion"))
                + (IF Has(received, "Missile Launcher") THEN 5 + data.launcherBonus ELSE 0)
    [] resource = "PowerBomb" ->
         IF ~EffectivePowerBomb(received, data) THEN 0
         ELSE (IF Has(received, "Power Bomb") THEN 2 ELSE 0)
                + Copies(received, "Power Bomb Expansion")
    [] resource = "DarkAmmo" ->
         50 * Copies(received, "Dark Beam") + 20 * Copies(received, "Dark Ammo Expansion")
           + 10 * Copies(received, "Beam Ammo Expansion")
    [] resource = "LightAmmo" ->
         50 * Copies(received, "Light Beam") + 20 * Copies(received, "Light Ammo Expansion")
           + 10 * Copies(received, "Beam Ammo Expansion")
    [] resource = "EnergyTank" -> Copies(received, "Energy Tank")

LogicHas(received, data, resource) ==
  CASE resource = "MissileLauncher" -> EffectiveLauncher(received, data)
    [] resource = "DarkSuit" ->
         Has(received, "Dark Suit") \/ Copies(received, "Progressive Suit") >= 1
    [] resource = "LightSuit" ->
         Has(received, "Light Suit") \/ Copies(received, "Progressive Suit") >= 2
    [] resource = "Dark"      -> Has(received, "Dark Beam")
    [] resource = "Light"     -> Has(received, "Light Beam")
    [] resource = "Seekers"   -> Has(received, "Seeker Launcher")
    [] resource = "MorphBall" -> Has(received, "Morph Ball")

(* The inventory slot that stands for each logic resource in the game.     *)
CountSlots == {<<"Missile", 44>>, <<"PowerBomb", 43>>, <<"DarkAmmo", 45>>, <<"LightAmmo", 46>>}
FlagSlots  == {<<"MissileLauncher", 73>>, <<"DarkSuit", 13>>, <<"LightSuit", 14>>, <<"Dark", 1>>,
               <<"Light", 2>>, <<"Seekers", 26>>, <<"MorphBall", 15>>}
=============================================================================
