-------------------------- MODULE WorldGeneration --------------------------
(***************************************************************************)
(* Generation of a world, from the options to what leaves it               *)
(* (__init__.py): generate_early rolls the start, the translator gates,    *)
(* the lore holograms and the three dock pools, each against what was      *)
(* rolled before it; create_regions builds the graph logic fills;          *)
(* fill_slot_data and generate_output write the randomization down, for    *)
(* the tracker and for the patcher; and a tracker regenerates the world    *)
(* from its slot data.  Random draws are choices.                          *)
(***************************************************************************)
EXTENDS DockRando

CONSTANTS
  OptionSets,          \* the option values explored
  TranslatorColors,
  LoreHolograms,       \* the STRG ids of TRANSLATOR_LORE_HINT_SCANS
  AttemptLimit         \* _MAX_DOOR_LOCK_ATTEMPTS, _MAX_SHUFFLE_ATTEMPTS

VARIABLES
  stage, options, start, gates, lore, dock,
  attempts,     \* rejected candidates of the pool being built
  graph,        \* what create_regions built: edges and event locations
  slot,         \* the randomization in the slot data
  patch,        \* the randomization in config.json and options.json
  tracker       \* the world a tracker regenerated from slot

vars == <<stage, options, start, gates, lore, dock, attempts, graph, slot, patch, tracker>>

\* "Lock Broken - ..." and a reached save station are nobody's item or event.
ASSUME NamesAssumption == (Mentioned \cup TranslatorColors) \cap (OfType("dock") \cup SaveStations) = {}

World == [options |-> options, gates |-> gates, lore |-> lore, dock |-> dock]
NoGraph == [edges |-> {}, triggers |-> {}]

Init ==
  /\ stage = "start"
  /\ options \in OptionSets
  /\ start = DbStartingLocation
  /\ gates = <<>> /\ lore = <<>>
  /\ dock = VanillaDocks
  /\ attempts = 0
  /\ graph = NoGraph
  /\ slot = <<>> /\ patch = <<>> /\ tracker = <<>>
-----------------------------------------------------------------------------
(* generate_early.                                                         *)

RollStart ==
  /\ stage = "start"
  /\ start' \in IF options.startingRoom = "vanilla" THEN {DbStartingLocation}
                ELSE StartingLocationCandidates(options.startingRoom, options.lightOnly)
  /\ stage' = "gates"
  /\ UNCHANGED <<options, gates, lore, dock, attempts, graph, slot, patch, tracker>>

\* randomizable_gate_ids
RandomizableGates == {id \in OfType("configurable_node") : VanillaGates[id] # Unlocked}

\* With vanilla docks, starting items find a pickup past no gate or hologram that
\* can get another color.
ClearEdges(opts) ==
  {e \in Edges([options |-> opts, gates |-> <<>>, lore |-> <<>>, dock |-> VanillaDocks]) :
     e.from \notin RandomizableGates \cup OfType("hint")}

ASSUME WayOutAssumption ==
  /\ MinSphereZeroPickups \in Nat
  /\ \A opts \in OptionSets :
       Cardinality(Reached(ClearEdges(opts), EventTriggers, DbStartingLocation, DefaultStartingItems)
                     \cap Pickups) >= MinSphereZeroPickups

GateChoices ==
  TranslatorColors \cup (IF options.gateRando = "full_random_unlocked" THEN {Unlocked} ELSE {})

RollGates ==
  /\ stage = "gates"
  /\ gates' \in IF options.gateRando = "vanilla" THEN {<<>>} ELSE [RandomizableGates -> GateChoices]
  /\ stage' = "lore"
  /\ UNCHANGED <<options, start, lore, dock, attempts, graph, slot, patch, tracker>>

RollLore ==
  /\ stage = "lore"
  /\ lore' \in IF options.loreRando THEN [LoreHolograms -> TranslatorColors] ELSE {<<>>}
  /\ stage' = "doors"
  /\ UNCHANGED <<options, start, gates, dock, attempts, graph, slot, patch, tracker>>

(* A candidate world passes and its pool is done, or it counts as an       *)
(* attempt, of which the last one raises RuntimeError.                     *)
Try(candidate, reaches, next) ==
  /\ IF reaches /\ MeetsProgressionBar(candidate)
     THEN dock' = candidate.dock /\ attempts' = 0 /\ stage' = next
     ELSE /\ dock' = dock
          /\ attempts' = attempts + 1
          /\ stage' = IF attempts + 1 = AttemptLimit THEN "RuntimeError" ELSE stage
  /\ UNCHANGED <<options, start, gates, lore, graph, slot, patch, tracker>>

KeepPool(next) ==
  /\ stage' = next
  /\ UNCHANGED <<options, start, gates, lore, dock, attempts, graph, slot, patch, tracker>>

BuildDoorLockAssignment ==
  /\ stage = "doors"
  /\ \/ ~options.doorLockRando /\ KeepPool("elevators")
     \/ /\ options.doorLockRando
        /\ \E w \in {[World EXCEPT !.dock.doorLock = locks] : locks \in DoorLockCandidates(options)} :
             Try(w, TRUE, "elevators")

ProbeVanillaDoors ==   \* mutant: probes the shuffle without the door locks it will meet
  /\ stage = "elevators"
  /\ \/ ~options.elevatorRando /\ KeepPool("portals")
     \/ /\ options.elevatorRando
        /\ \E w \in {[World EXCEPT !.dock.elevator = targets] : targets \in ElevatorShuffles} :
             /\ MeetsProgressionBar([w EXCEPT !.dock.doorLock = <<>>])
             /\ dock' = w.dock
             /\ stage' = "portals"
        /\ UNCHANGED <<options, start, gates, lore, attempts, graph, slot, patch, tracker>>

BuildElevatorAssignment ==
  /\ stage = "elevators"
  /\ \/ ~options.elevatorRando /\ KeepPool("portals")
     \/ /\ options.elevatorRando
        /\ \E w \in {[World EXCEPT !.dock.elevator = targets] : targets \in ElevatorShuffles} :
             Try(w, ElevatorEndpoints \subseteq ReachableNodes(w.dock.elevator, <<>>), "portals")

BuildPortalAssignment ==
  /\ stage = "portals"
  /\ \/ ~options.portalRando /\ KeepPool("create_regions")
     \/ /\ options.portalRando
        /\ \E w \in {[World EXCEPT !.dock.portal = targets, !.dock.portalWeakness = PortalWeaknessOverrides] :
                       targets \in PortalShuffles} :
             Try(w, DocksOf("portal") \subseteq ReachableNodes(w.dock.elevator, w.dock.portal),
                 "create_regions")
-----------------------------------------------------------------------------
(* create_regions.                                                         *)

LockEventsInFront(w) ==   \* mutant: the event is in front of the lock instead of behind it
  {<<id, id>> : id \in {d \in LiveNodes : LockBreaksBehind(w, d)}}

\* "Lock Broken" events are in the region behind the lock.
LockEvents(w) == {<<DockTarget(w, id), id>> : id \in {d \in LiveNodes : LockBreaksBehind(w, d)}}

\* can_warp_to_start: any save station's region is reachable (its own flag).
WarpEdges(w, origin) ==
  IF w.options.warpToStart
  THEN {[from |-> s, to |-> origin, rule |-> {{t} : t \in SaveStations}] : s \in SaveStations \ {origin}}
  ELSE {}

Alive(edges, origin) == Reached({[e EXCEPT !.rule = Trivial] : e \in edges}, {}, origin, {})

PrunedNever(edges, placed, origin) ==   \* mutant: what no exit leads to is left in place
  [edges |-> edges, triggers |-> placed \cup {<<s, s>> : s \in SaveStations}]

\* Event locations of regions no exit leads to are taken out again.
Pruned(edges, placed, origin) ==
  LET alive == Alive(edges, origin)
  IN  [edges    |-> edges,
       triggers |-> {t \in placed : t[1] \in alive} \cup {<<s, s>> : s \in SaveStations}]

RegionGraph(w, origin) ==
  Pruned(Edges(w) \cup WarpEdges(w, origin), EventTriggers \cup LockEvents(w), origin)

CreateRegions ==
  /\ stage = "create_regions"
  /\ graph' = RegionGraph(World, start)
  /\ stage' = "fill_slot_data"
  /\ UNCHANGED <<options, start, gates, lore, dock, attempts, slot, patch, tracker>>

\* What logic lets a player reach with items, from the origin of a graph.
InLogic(g, origin, items) == Reached(g.edges, g.triggers, origin, items)
-----------------------------------------------------------------------------
(* tracker_data.py: the slot data has lists of pairs, and a node in them   *)
(* is the list of its region, area and name.                               *)

EncodeNode(id) == <<Node(id).region, Node(id).area, id>>
DecodeNode(raw) == CHOOSE id \in Ids : EncodeNode(id) = raw

Pairs(map) == {<<k, map[k]>> : k \in DOMAIN map}
ColoredPairs(map) ==   \* mutant: leaves out what has no color
  {<<EncodeNode(p[1]), p[2]>> : p \in {q \in Pairs(map) : q[2] # Unlocked}}

NodePairs(map) == {<<EncodeNode(p[1]), p[2]>> : p \in Pairs(map)}
TargetPairs(map) == {<<EncodeNode(p[1]), EncodeNode(p[2])>> : p \in Pairs(map)}

FromPairs(pairs) == [k \in {p[1] : p \in pairs} |-> (CHOOSE p \in pairs : p[1] = k)[2]]
FromNodePairs(pairs) == FromPairs({<<DecodeNode(p[1]), p[2]>> : p \in pairs})
FromTargetPairs(pairs) == FromPairs({<<DecodeNode(p[1]), DecodeNode(p[2])>> : p \in pairs})

EncodeRandomization ==
  [start          |-> EncodeNode(start),
   gates          |-> NodePairs(gates),
   lore           |-> Pairs(lore),
   doorLock       |-> NodePairs(dock.doorLock),
   elevator       |-> TargetPairs(dock.elevator),
   portal         |-> TargetPairs(dock.portal),
   portalWeakness |-> NodePairs(dock.portalWeakness)]

DecodeRandomization(slotOptions, data) ==
  [start |-> DecodeNode(data.start),
   world |-> [options |-> slotOptions,
              gates   |-> FromNodePairs(data.gates),
              lore    |-> FromPairs(data.lore),
              dock    |-> [doorLock       |-> FromNodePairs(data.doorLock),
                           elevator       |-> FromTargetPairs(data.elevator),
                           portal         |-> FromTargetPairs(data.portal),
                           portalWeakness |-> FromNodePairs(data.portalWeakness)]]]

FillSlotData ==
  /\ stage = "fill_slot_data"
  /\ slot' = [options |-> options, randomization |-> EncodeRandomization]
  /\ stage' = "generate_output"
  /\ UNCHANGED <<options, start, gates, lore, dock, attempts, graph, patch, tracker>>

\* Universal Tracker: generate_early restores, then create_regions runs again.
Regenerate ==
  /\ stage = "done"
  /\ \E restored \in {DecodeRandomization(slot.options, slot.randomization)} :
       tracker' = [start |-> restored.start, graph |-> RegionGraph(restored.world, restored.start)]
  /\ stage' = "regenerated"
  /\ UNCHANGED <<options, start, gates, lore, dock, attempts, graph, slot, patch>>
-----------------------------------------------------------------------------
(* patch_data.py.  Ids stand for dock names and instance ids, weaknesses   *)
(* for their door types, and a room for its MREA.                          *)

AreaAssetIds(id) == [mlvl |-> MlvlFor(Node(id).region), mrea |-> Room(id)]

DoorLockModification(id) == [old |-> Node(id).weakness, new |-> dock.doorLock[id]]

ElevatorModification(id) ==
  [target     |-> AreaAssetIds(dock.elevator[id]),
   targetName |-> Node(dock.elevator[id]).region]

\* A portal can only lead within its own MLVL (AssertionError otherwise).
PortalModification(id) ==
  [targetMrea |-> Room(dock.portal[id]), targetDock |-> dock.portal[id]]

PortalsWithinMlvl ==
  \A id \in DOMAIN dock.portal :
    MlvlFor(Node(id).region) = MlvlFor(Node(dock.portal[id]).region)

TranslatorGateOrVanilla(id) ==   \* mutant: an unlocked gate falls back to its vanilla color
  IF Lookup(gates, id, Unlocked) # Unlocked THEN gates[id] ELSE VanillaGates[id]

TranslatorGateModification(id) == Lookup(gates, id, VanillaGates[id])

RandoConfiguration ==
  [startingArea    |-> AreaAssetIds(start),
   twoWayPortals   |-> options.portalRando,
   translatorGates |-> [id \in OfType("configurable_node") |-> TranslatorGateModification(id)],
   doorLocks       |-> [id \in DOMAIN dock.doorLock |-> DoorLockModification(id)],
   elevators       |-> [id \in DOMAIN dock.elevator |-> ElevatorModification(id)],
   newNames        |-> [room \in {Room(id) : id \in DOMAIN dock.elevator} |->
                          {Node(dock.elevator[id]).region :
                             id \in {e \in DOMAIN dock.elevator : Room(e) = room}}],
   portals         |-> [id \in DOMAIN dock.portal |-> PortalModification(id)],
   loreColors      |-> lore,
   keysRequired    |-> Fewer(options.keysRequired, options.keys)]

GenerateOutput ==
  /\ stage = "generate_output"
  /\ patch' = RandoConfiguration
  /\ stage' = IF PortalsWithinMlvl THEN "done" ELSE "AssertionError"
  /\ UNCHANGED <<options, start, gates, lore, dock, attempts, graph, slot, tracker>>

Next ==
  \/ RollStart \/ RollGates \/ RollLore
  \/ BuildDoorLockAssignment \/ BuildElevatorAssignment \/ BuildPortalAssignment
  \/ CreateRegions \/ FillSlotData \/ GenerateOutput \/ Regenerate

Spec == Init /\ [][Next]_vars
-----------------------------------------------------------------------------
(* Properties.                                                             *)

Generated    == graph # NoGraph
Reaches(items) == InLogic(graph, start, items)
Inventories  == {DefaultStartingItems, AllItems} \cup {AllItems \ {item} : item \in AllItems}

\* sample_door_lock_candidate: the two faces of a door the mapping may change
\* end up with the same lock, whatever their vanilla ones were.
FacesAgree ==
  \A id \in DOMAIN dock.doorLock : \A far \in FarFaces(id) \cap ChangeableDoors :
    dock.doorLock[far] = dock.doorLock[id]

\* normal_save_station_doors: a save station is never behind a randomized lock,
\* from inside or outside.
SaveStationDoorsOpen ==
  Generated /\ options.doorLockRando /\ options.normalSaveStationDoors =>
    \A id \in ChangeableDoors : InSaveStation(id) =>
      \A near \in {id} \cup (FarFaces(id) \cap ChangeableDoors) :
        [from |-> near, to |-> Node(near).to, rule |-> Trivial] \in graph.edges

\* Whatever was shuffled, an elevator or portal can be taken back, the arrival
\* pads of one-way portals included, and a portal stays in its MLVL.
DocksGoBack ==
  /\ stage # "AssertionError"
  /\ Generated =>
       \A id \in DOMAIN dock.elevator \cup DOMAIN dock.portal :
         LET far == DockTarget(World, id)
         IN  /\ DockTarget(World, far) = id
             /\ \E e \in graph.edges : e.from = far /\ e.to = id

\* dock_rando.py: whatever is drawn for doors, elevators and portals fits together.
DocksAgree == FacesAgree /\ SaveStationDoorsOpen /\ DocksGoBack

\* create_regions builds from the accepted assignment what the probe judged it
\* by: events and lock-broken flags in other places, pruned, with warps added,
\* they let a player reach the same nodes with the same items.
LogicMatchesProbe ==
  Generated =>
    \E probe \in {ProbeGraph(World)} :
      \A items \in Inventories : Reaches(items) = ProbeReached(probe, start, items)

SomeDockRando == options.doorLockRando \/ options.elevatorRando \/ options.portalRando

\* A seed that starts at the vanilla start is not locked out at once, and every
\* pickup can be reached: all accepted pools hold together, also those that
\* were accepted before a later one was rolled.
AcceptedWorldIsPlayable ==
  Generated /\ SomeDockRando /\ start = DbStartingLocation =>
    /\ Cardinality(Reaches(DefaultStartingItems) \cap Pickups) >= MinSphereZeroPickups
    /\ Pickups \subseteq Reaches(AllItems)

\* randomizable_gate_ids: with vanilla docks there is no probe, and the gates
\* alone must not close the vanilla start off.
GatesLeaveAWayOut ==
  Generated /\ ~SomeDockRando /\ start = DbStartingLocation =>
    Cardinality(Reaches(DefaultStartingItems) \cap Pickups) >= MinSphereZeroPickups

\* What the options randomize leaves a game that can be played from the vanilla
\* start, with a probe for the docks and without one for the gates.
WorldIsPlayable == AcceptedWorldIsPlayable /\ GatesLeaveAWayOut

\* "Any event location placed there can therefore never be reached": none is left
\* behind that the accessibility check would ask for; with every item each event
\* location of the graph is reached, that of every broken lock included.
EventsReachable ==
  Generated => \A t \in graph.triggers : t[1] \in SaveStations \/ t[1] \in Reaches(AllItems)

\* What the patched game does, door by door, is what logic assumed.
PatchAgreesWithLogic ==
  patch # <<>> =>
    /\ {id \in Startable : AreaAssetIds(id) = patch.startingArea} = {start}
    /\ \A id \in OfType("configurable_node") :
         LeaveRequirement(World, id) = TranslatorRequirement(patch.translatorGates[id])
    /\ \A id \in OfType("hint") : Node(id).strg \in DOMAIN patch.loreColors =>
         LeaveRequirement(World, id) = TranslatorRequirement(patch.loreColors[Node(id).strg])
    /\ \A id \in Doors :
         LET door == Lookup(patch.doorLocks, id, [old |-> Node(id).weakness, new |-> Node(id).weakness])
         IN  door = [old |-> Node(id).weakness, new |-> DockWeaknessName(World, id)]
    /\ \A id \in DOMAIN patch.elevators :
         /\ patch.elevators[id].target = AreaAssetIds(DockTarget(World, id))
         /\ patch.newNames[Room(id)] = {Node(DockTarget(World, id)).region}
    /\ \A id \in DOMAIN patch.portals :
         /\ patch.portals[id].targetDock = DockTarget(World, id)
         /\ [mlvl |-> MlvlFor(Node(id).region), mrea |-> patch.portals[id].targetMrea]
              = AreaAssetIds(DockTarget(World, id))
    /\ patch.twoWayPortals <=>
         \A id \in DocksOf("portal") : DockWeaknessName(World, id) # "No Return Portal"
    /\ \A keys \in SkyTempleKeyCountRule(World) : Cardinality(keys) = patch.keysRequired

\* A tracker that regenerates the world from slot data gets the logic the seed
\* was filled with.
RegenRestores == tracker # <<>> => tracker = [start |-> start, graph |-> graph]

\* dock_rando.py: a DockRandoAssignment's retry loop "rejects any candidate
\* leaving the start state unable to reach a minimum handful of pickups".
StartIsProbed ==
  Generated /\ SomeDockRando =>
    Cardinality(Reaches(DefaultStartingItems) \cap Pickups) >= MinSphereZeroPickups
=============================================================================
