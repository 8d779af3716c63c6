------------------------------- MODULE MCWorld -------------------------------
(***************************************************************************)
(* WorldGeneration over a database of 36 nodes with one of everything the  *)
(* code treats differently, and ReachabilitySweep over small graphs.  A    *)
(* behaviour is about one of the two; the other stands still.              *)
(*                                                                         *)
(* The database: Landing (start, save station), a door to Hive, whose only *)
(* way on is a gate that ships unlocked; a blast door to Shrine with its   *)
(* portals to DarkShrine; an elevator to Wastes (save station, lore, event *)
(* switch, the first pickup), whose Seeker door leads to Vault and an      *)
(* elevator to Temple.                                                     *)
(* DarkShrine holds the gateway to the Sky Temple and the victory event.   *)
(***************************************************************************)
EXTENDS WorldGeneration, TLC

VARIABLES family, from, edges, triggers, visited, flags, changed, todo

sweepVars == <<from, edges, triggers, visited, flags, changed, todo>>
allVars   == <<family, vars, sweepVars>>
-----------------------------------------------------------------------------
To(ids) == [id \in ids |-> Trivial]
Needs(target, req) == target :> req

Plain(region, area, connections) ==
  [type |-> "generic", region |-> region, area |-> area, connections |-> connections,
   dock |-> "none", to |-> None, weakness |-> "none", openOverride |-> None, lockOverride |-> None,
   saveStation |-> FALSE, startable |-> FALSE, event |-> None, strg |-> None, collect |-> Trivial]

Typed(type, region, area, connections) == [Plain(region, area, connections) EXCEPT !.type = type]
Dock(kind, weakness, to, region, area, connections) ==
  [Typed("dock", region, area, connections) EXCEPT !.dock = kind, !.weakness = weakness, !.to = to]
Happening(event, region, area, connections) ==
  [Typed("event", region, area, connections) EXCEPT !.event = event]

LandingNodes ==
  ("Landing" :> [Plain("TG", "Landing", To({"LandingDoor"})) EXCEPT !.saveStation = TRUE, !.startable = TRUE])
  @@ ("LandingDoor" :> Dock("door", "Normal Door", "HiveDoor", "TG", "Landing", To({"Landing"})))

HiveNodes ==
  ("HiveDoor"      :> Dock("door", "Normal Door", "LandingDoor", "TG", "Hive", To({"HiveGate"})))
  @@ ("HiveGate"   :> Typed("configurable_node", "TG", "Hive", To({"HiveDoor", "HiveLift", "HiveBlast"})
                                                                @@ Needs("HivePickup", {{"Bomb"}})))
  @@ ("HivePickup" :> Typed("pickup", "TG", "Hive", To({"HiveGate"})))
  @@ ("HiveLift"   :> Dock("elevator", "Elevator", "WasteLift", "TG", "Hive", To({"HiveGate"})))
  @@ ("HiveBlast"  :> [Dock("door", "Missile Blast Shield", "ShrineBlast", "TG", "Hive", To({"HiveGate"}))
                         EXCEPT !.lockOverride = {{"Missile", "Charge"}}])

ShrineNodes ==
  ("ShrineBlast"     :> Dock("door", "Normal Door", "HiveBlast", "TG", "Shrine", To({"ShrinePickup", "ShrinePortal", "ShrinePad"})))
  @@ ("ShrinePickup" :> Typed("pickup", "TG", "Shrine", To({"ShrineBlast"}) @@ Needs("LostSwitch", {{"Cannon"}})))
  @@ ("ShrinePortal" :> Dock("portal", "Dark Portal", "DarkPortal", "TG", "Shrine", To({"ShrineBlast"})))
  @@ ("ShrinePad"    :> Dock("portal", "No Return Portal", "DarkReturn", "TG", "Shrine", To({"ShrineBlast"})))
  @@ ("LostSwitch"   :> Happening("Lost", "TG", "Shrine", To({"ShrinePickup"})))

DarkNodes ==
  ("DarkPortal"    :> Dock("portal", "Light Portal", "ShrinePortal", "SG", "DarkShrine",
                           To({"DarkReturn", "Gateway"}) @@ Needs("Cache", {{"DarkVisor"}})))
  @@ ("DarkReturn" :> Dock("portal", "Light Portal", "ShrinePad", "SG", "DarkShrine", To({"DarkPortal"})))
  @@ ("Cache"      :> Typed("pickup", "SG", "DarkShrine", To({"DarkPortal"})))
  @@ ("Gateway"    :> [Plain("SG", "DarkShrine", To({"DarkPortal"}) @@ Needs("SkyLift", {{"Key1", "Key2"}}))
                         EXCEPT !.startable = TRUE])
  @@ ("SkyLift"    :> Dock("elevator", "Elevator", "SkySpawn", "SG", "DarkShrine", To({"Gateway"})))
  @@ ("SkySpawn"   :> Plain("SG", "Sky", To({"Victory"}) @@ Needs("Credits", {{"Ending"}})))
  @@ ("Victory"    :> Happening("Ending", "SG", "Sky", To({"SkySpawn"})))
  @@ ("Credits"    :> Happening("Credits", "SG", "Sky", To({})))

WasteNodes ==
  ("WasteLift"      :> Dock("elevator", "Elevator", "HiveLift", "AW", "Wastes", To({"WasteSave"})))
  @@ ("WasteSave"   :> [Plain("AW", "Wastes", To({"WasteLift", "WasteHint", "WasteLedge", "SeekDoor", "Arrived"})
                                               @@ Needs("WasteSwitch", {{"Bomb"}}))
                          EXCEPT !.saveStation = TRUE, !.startable = TRUE])
  @@ ("WasteHint"   :> [Typed("hint", "AW", "Wastes", To({"WastePickup"}))
                          EXCEPT !.strg = 7, !.collect = {{"Scan", "Violet"}}])
  @@ ("WastePickup" :> Typed("pickup", "AW", "Wastes", To({"WasteSave"})))
  @@ ("WasteLedge"  :> Typed("pickup", "AW", "Wastes", To({"WasteSave"})))
  @@ ("WasteSwitch" :> Happening("Switch", "AW", "Wastes", To({"WasteSave"})))
  @@ ("Arrived"     :> Happening("Intro", "AW", "Wastes", To({"WasteSave"})))
  @@ ("SeekDoor"    :> Dock("door", "Seeker Blast Shield", "VaultDoor", "AW", "Wastes", To({"WasteSave"})))

VaultNodes ==
  ("VaultDoor"      :> Dock("door", "Normal Door", "SeekDoor", "AW", "Vault", To({"VaultLift"}) @@ Needs("VaultPickup", {{"Bomb"}})))
  @@ ("VaultPickup" :> Typed("pickup", "AW", "Vault", To({"VaultDoor"}) @@ Needs("ChuteDoor", {{"Intro"}})))
  @@ ("ChuteDoor"   :> Dock("door", "Missile Blast Shield", "WasteSave", "AW", "Vault", To({"VaultPickup"})))
  @@ ("VaultLift"   :> Dock("elevator", "Elevator", "TempleLift", "AW", "Vault", To({"VaultDoor"})))

TempleNodes ==
  ("TempleLift"      :> Dock("elevator", "Elevator", "VaultLift", "TG", "Temple",
                             To({"TempleGate"}) @@ Needs("TempleDoor", {{"Switch"}})))
  @@ ("TempleGate"   :> Typed("configurable_node", "TG", "Temple", To({"TempleLift", "TemplePickup"})))
  @@ ("TemplePickup" :> Typed("pickup", "TG", "Temple", To({"TempleGate"})))
  @@ ("TempleDoor"   :> Dock("door", "Sonic Boom Door", "Landing", "TG", "Temple", To({"TempleLift"})))

MCNodes == LandingNodes @@ HiveNodes @@ ShrineNodes @@ DarkNodes @@ WasteNodes @@ VaultNodes @@ TempleNodes

MCOrder ==
  <<"Landing", "LandingDoor", "HiveDoor", "HiveGate", "HivePickup", "HiveLift", "HiveBlast",
    "ShrineBlast", "ShrinePickup", "ShrinePortal", "ShrinePad", "LostSwitch",
    "DarkPortal", "DarkReturn", "Cache", "Gateway", "SkyLift", "SkySpawn", "Victory", "Credits",
    "WasteLift", "WasteSave", "WasteHint", "WastePickup", "WasteLedge", "WasteSwitch", "Arrived", "SeekDoor",
    "VaultDoor", "VaultPickup", "ChuteDoor", "VaultLift",
    "TempleLift", "TempleGate", "TemplePickup", "TempleDoor">>

MCMlvl       == [r \in {"TG"} |-> 1] @@ [r \in {"AW"} |-> 2] @@ [r \in {"SG"} |-> NoMlvl]
MCAssociated == [r \in {"SG"} |-> "TG"]
MCGates      == ("HiveGate" :> Unlocked) @@ ("TempleGate" :> "Violet")
MCCaches     == [c \in {"Cache"} |-> {{"Echo"}, {"DarkVisor"}}]

Weakness(requirement, lock) == [requirement |-> requirement, lock |-> lock]
MCWeaknesses ==
  (<<"door", "Normal Door">> :> Weakness(Trivial, None))
  @@ (<<"door", "Missile Blast Shield">> :> Weakness(Trivial, {{"Missile"}}))
  @@ (<<"door", "Seeker Blast Shield">> :> Weakness(Trivial, {{"Seeker"}}))
  @@ (<<"door", "Seeker Blast Shield (patched)">> :> Weakness(Trivial, {{"Seeker"}}))
  @@ (<<"door", "Sonic Boom Door">> :> Weakness(Trivial, {{"SonicBoom"}}))
  @@ (<<"elevator", "Elevator">> :> Weakness(Trivial, None))
  @@ (<<"portal", "Dark Portal">> :> Weakness({{"DarkBeam"}}, None))
  @@ (<<"portal", "Light Portal">> :> Weakness({{"LightBeam"}}, None))
  @@ (<<"portal", "No Return Portal">> :> Weakness(Impossible, None))

MCItems ==
  {"Scan", "Missile", "Charge", "Seeker", "SonicBoom", "DarkBeam", "LightBeam", "DarkVisor", "Echo",
   "Bomb", "Violet", "Amber", "Key1", "Key2"}
-----------------------------------------------------------------------------
(* Options.                                                                *)
Vanilla ==
  [startingRoom |-> "vanilla", lightOnly |-> TRUE, gateRando |-> "vanilla", loreRando |-> FALSE,
   doorLockRando |-> FALSE, normalSaveStationDoors |-> TRUE, elevatorRando |-> FALSE,
   portalRando |-> FALSE, warpToStart |-> TRUE, cachesWithoutDarkVisor |-> FALSE,
   keys |-> 2, keysRequired |-> 2]

MCOptions ==
  {Vanilla,
   [Vanilla EXCEPT !.gateRando = "full_random", !.warpToStart = FALSE, !.keysRequired = 9],
   [Vanilla EXCEPT !.gateRando = "full_random_unlocked", !.loreRando = TRUE,
                   !.startingRoom = "save_stations", !.keysRequired = 1],
   [Vanilla EXCEPT !.startingRoom = "anywhere", !.lightOnly = FALSE, !.keys = 1,
                   !.cachesWithoutDarkVisor = TRUE],
   [Vanilla EXCEPT !.doorLockRando = TRUE],
   [Vanilla EXCEPT !.doorLockRando = TRUE, !.normalSaveStationDoors = FALSE, !.elevatorRando = TRUE],
   [Vanilla EXCEPT !.elevatorRando = TRUE, !.portalRando = TRUE, !.gateRando = "full_random"],
   [Vanilla EXCEPT !.portalRando = TRUE, !.startingRoom = "anywhere", !.lightOnly = FALSE],
   [Vanilla EXCEPT !.doorLockRando = TRUE, !.elevatorRando = TRUE, !.portalRando = TRUE,
                   !.gateRando = "full_random_unlocked", !.loreRando = TRUE,
                   !.startingRoom = "save_stations", !.lightOnly = FALSE]}

-----------------------------------------------------------------------------
(* Small graphs for the sweep: a flag behind an edge that another flag     *)
(* opens, found early or late in a pass, or never.                         *)
SweepNodes == {"a", "b", "c"}
SweepFlags == {"f", "g"}

Edge(x, y, needs) == [from |-> x, to |-> y, needs |-> needs]
EdgePool ==
  {Edge("a", "b", {}), Edge("a", "c", {"f"}), Edge("a", "b", {"g"}), Edge("b", "c", {"g"}),
   Edge("b", "c", {"f", "g"}), Edge("c", "b", {"f"})}
TriggerPool == {<<"a", "f">>, <<"b", "f">>, <<"b", "g">>, <<"c", "g">>}

S == INSTANCE ReachabilitySweep WITH Nodes <- SweepNodes, Flags <- SweepFlags, start <- from

SweepInit ==
  /\ from = "a"
  /\ edges \in SUBSET EdgePool
  /\ triggers \in SUBSET TriggerPool
  /\ visited = {from} /\ flags = {} /\ changed = TRUE /\ todo = {}

IdleSweep ==
  /\ from = "a" /\ edges = {} /\ triggers = {} /\ visited = {} /\ flags = {}
  /\ changed = FALSE /\ todo = {}

IdleWorld ==
  /\ stage = "idle" /\ options = Vanilla /\ start = DbStartingLocation
  /\ gates = <<>> /\ lore = <<>> /\ dock = VanillaDocks /\ attempts = 0
  /\ graph = NoGraph /\ slot = <<>> /\ patch = <<>> /\ tracker = <<>>

MCInit == \/ family = "world" /\ Init /\ IdleSweep
          \/ family = "sweep" /\ IdleWorld /\ SweepInit

WorldStep == family = "world" /\ Next /\ UNCHANGED <<family, sweepVars>>
SweepStep == family = "sweep" /\ S!Next /\ UNCHANGED <<family, vars>>

MCNext == WorldStep \/ SweepStep
MCSpec == MCInit /\ [][MCNext]_allVars /\ WF_allVars(SweepStep)
-----------------------------------------------------------------------------
(* Properties of the sweep (ReachabilitySweep).                            *)

\* _probe_reachable: it never visits or grants what the graph does not give, and on
\* every graph it ends and has then found everything, whatever the order of a pass.
SweepIsExact ==
  family = "sweep" => []S!SweepIsSound /\ <>(S!Done /\ S!SweepIsComplete)
=============================================================================
