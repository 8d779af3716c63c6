--------------------------- MODULE StartingItems ----------------------------
(***************************************************************************)
(* The inventory the patched ISO starts with                               *)
(* (patch_data.starting_items_config), third computation of capacities     *)
(* from a list of items beside the two of ReceiveItems: it adds up what    *)
(* every precollected copy gains, and then corrects the sums.  The client  *)
(* receives the same items as the first of its list, so what it would      *)
(* grant for them should already be there.                                 *)
(***************************************************************************)
EXTENDS ReceiveItems

(* items.py, slot by slot: gains that are not a plain capacity of one.     *)
AmmoGain(item, beam, expansion) ==
  CASE item = beam -> 50 [] item = expansion -> 20 [] item = "Beam Ammo Expansion" -> 10 [] OTHER -> 0

AmountGain(item, slot) ==
  CASE slot = 42 -> IF item = "Energy Tank" THEN 1 ELSE 0
    [] slot = 43 -> CASE item = "Power Bomb" -> 2 [] item = "Power Bomb Expansion" -> 1 [] OTHER -> 0
    [] slot = 44 -> IF item \in {"Missile Launcher", "Seeker Launcher", "Missile Expansion"} THEN 5 ELSE 0
    [] slot = 45 -> AmmoGain(item, "Dark Beam", "Dark Ammo Expansion")
    [] slot = 46 -> AmmoGain(item, "Light Beam", "Light Ammo Expansion")
    [] slot = 73 -> IF item = "Missile Launcher" THEN 1 ELSE 0
    [] OTHER -> 0

(* constants.DEFAULT_STARTING_ITEMS, of which Morph Ball stands for all,   *)
(* and the slots of _MANDATORY_STARTING_ITEM_IDS.                          *)
DefaultStartingItems == <<"Morph Ball">>
MandatorySlots       == {15}

\* gains_for(item, copy index): what the item at position i gives a slot.
GainAt(items, i, slot) ==
  IF \/ <<items[i], slot>> \in PlainGains
     \/ <<items[i], StageAt(items, i), slot>> \in Stages
  THEN 1
  ELSE AmountGain(items[i], slot)

Summed(items, slot) ==
  LET sum[n \in 0 .. Len(items)] == IF n = 0 THEN 0 ELSE sum[n - 1] + GainAt(items, n, slot)
  IN  sum[Len(items)]

MissilesSummed(items, data) ==
  Summed(items, 44) + (IF Has(items, "Missile Launcher") THEN data.launcherBonus ELSE 0)

\* Expansions without the launcher give nothing, unless they unlock it.
StartingMissiles(items, data) ==
  IF data.unlockLauncher \/ Has(items, "Missile Launcher") THEN MissilesSummed(items, data) ELSE 0

StartingPowerBombs(items, data) ==
  IF data.unlockPowerBombs \/ Has(items, "Power Bomb") THEN Summed(items, 43) ELSE 0

\* Slot 73 is the launcher's flag: setdefault, so a launcher's own 1 stays.
StartingLauncher(items, data) ==
  IF Summed(items, 73) = 0 /\ data.unlockLauncher /\ MissilesSummed(items, data) > 0
  THEN 1 ELSE Summed(items, 73)

StartingAt(items, data, slot) ==
  LET sum == Summed(items, slot)
  IN  CASE slot = 12 -> 1
        [] slot = 42 -> IF sum > EnergyTankCap THEN EnergyTankCap ELSE sum
        [] slot = 43 -> StartingPowerBombs(items, data)
        [] slot = 44 -> StartingMissiles(items, data)
        [] slot = 73 -> StartingLauncher(items, data)
        [] slot \in MandatorySlots /\ sum = 0 -> 1
        [] OTHER -> sum

\* create_item_pool pushes the default items after AP pushed start_inventory.
Precollected(startInventory) == startInventory \o DefaultStartingItems

Starting(startInventory, data) ==
  [slot \in Slots |-> StartingAt(Precollected(startInventory), data, slot)]
-----------------------------------------------------------------------------
(* Items of which the pool holds one: a second copy can only come from the *)
(* start inventory.                                                        *)
SingleItems ==
  {g[1] : g \in PlainGains} \cup {"Missile Launcher", "Power Bomb"}

WithoutRepeats(startInventory) ==
  LET items == Precollected(startInventory)
  IN  /\ \A item \in SingleItems : Copies(items, item) <= 1
      /\ \A slot \in {13, 14} : Summed(items, slot) <= 1
      /\ Copies(items, "Progressive Suit") <= 2

(* The Seeker Launcher's own missiles, with nothing that unlocks them.     *)
SeekerMissilesLocked(startInventory, data) ==
  /\ Has(startInventory, "Seeker Launcher")
  /\ ~MissilesUnlocked(startInventory, data)
  /\ data.unlockLauncher

(* The ISO starts with what the client grants for the same items.          *)
StartsAsGranted(startInventory, data) ==
  Starting(startInventory, data) = Desired(Precollected(startInventory), data)
=============================================================================
