----------------------------- MODULE DockRando ------------------------------
(***************************************************************************)
(* Candidates for the three dock pools and the two filters they must pass  *)
(* (logic/dock_rando.py).  Shuffles are the sets of their outcomes.        *)
(***************************************************************************)
EXTENDS Regions

CONSTANTS
  DoorCanChangeFrom, DoorCanChangeTo,   \* the vetted weaknesses
  ElevatorExcluded,                     \* ELEVATOR_EXCLUDED_AP_NAMES
  DefaultStartingItems, AllItems,
  MinSphereZeroPickups                  \* _MIN_SPHERE_ZERO_PICKUPS, 1

NormalDoor == "Normal Door"
VanillaDocks == [doorLock |-> <<>>, elevator |-> <<>>, portal |-> <<>>, portalWeakness |-> <<>>]

Put(map, keys, value) ==
  [k \in keys \cup DOMAIN map |-> IF k \in keys THEN value ELSE map[k]]
-----------------------------------------------------------------------------
(* Doors.                                                                  *)

Doors        == DocksOf("door")
ChangeableDoors == {id \in Doors : Node(id).weakness \in DoorCanChangeFrom}

\* _door_pairs: the far face of a door whose target is a door too.
FarFaces(id) == {t \in Doors : t = Node(id).to}

\* A door that leads to another door is led back to by it; a changeable one
\* leads somewhere, and Normal Door opens to whoever stands before it.
ASSUME DoorsAssumption ==
  /\ NormalDoor \in DoorCanChangeTo
  /\ \A name \in DoorCanChangeTo : <<"door", name>> \in DOMAIN Weaknesses
  /\ \A a, b \in Doors : Node(a).to = b => Node(b).to = a
  /\ \A id \in ChangeableDoors : Node(id).to \in LiveNodes
  /\ Weaknesses[<<"door", NormalDoor>>] = [requirement |-> Trivial, lock |-> None]
  /\ \A id \in Doors : Node(id).weakness = NormalDoor => Node(id).openOverride = None

InSaveStation(id) == \E s \in SaveStations : Room(s) = Room(id)

SaveStationDoorFaces ==
  LET near == {id \in ChangeableDoors : InSaveStation(id)}
  IN  (near \cup UNION {FarFaces(id) : id \in near}) \cap ChangeableDoors

\* _global_weakness_mapping: both lists shuffled, and zipped.
WeaknessMappings ==
  {m \in [DoorCanChangeFrom -> DoorCanChangeTo] :
     \A a, b \in DoorCanChangeFrom : m[a] = m[b] => a = b}

AssignNearOnly(mapping, locks, id) ==   \* mutant: each face of a door maps its own weakness
  IF id \in ChangeableDoors THEN Put(locks, {id}, mapping[Node(id).weakness]) ELSE locks

\* The first face of a door in the order of the database decides for both.
AssignDoor(mapping, locks, id) ==
  IF id \notin ChangeableDoors \/ id \in DOMAIN locks THEN locks
  ELSE Put(locks, {id} \cup ((FarFaces(id) \cap ChangeableDoors) \ DOMAIN locks),
           mapping[Node(id).weakness])

MapDoors(mapping, locks) ==
  LET assigned[n \in 0 .. Len(NodeOrder)] ==
        IF n = 0 THEN locks ELSE AssignDoor(mapping, assigned[n - 1], NodeOrder[n])
  IN  assigned[Len(NodeOrder)]

\* Protected faces are forced last.
SampleDoorLockCandidate(mapping, protected) ==
  Put(MapDoors(mapping, <<>>), protected, NormalDoor)

DoorLockCandidates(options) ==
  {SampleDoorLockCandidate(m, IF options.normalSaveStationDoors THEN SaveStationDoorFaces ELSE {}) :
     m \in WeaknessMappings}
-----------------------------------------------------------------------------
(* Elevators and portals.                                                  *)

\* _reciprocal_pairs, as the set of their endpoints.
ElevatorEndpoints ==
  {id \in DocksOf("elevator") \ ElevatorExcluded :
     \E t \in DocksOf("elevator") \ ElevatorExcluded : Node(id).to = t /\ Node(t).to = id}

\* _shuffle_pairs: any perfect matching of the endpoints.
ElevatorShuffles ==
  {f \in [ElevatorEndpoints -> ElevatorEndpoints] :
     \A id \in ElevatorEndpoints : f[id] # id /\ f[f[id]] = id}

PortalRegion(id) ==
  IF Node(id).region \in LightRegions THEN Node(id).region ELSE Associated[Node(id).region]

\* _portal_region_pairs and _shuffle_portal_region_pair: within a pair of
\* regions, any light portal with any dark one.
PortalShuffles ==
  {f \in [DocksOf("portal") -> DocksOf("portal")] :
     \A id \in DocksOf("portal") :
       /\ f[f[id]] = id
       /\ PortalRegion(f[id]) = PortalRegion(id)
       /\ Node(id).region \in LightRegions <=> Node(f[id]).region \in DarkRegions}

PortalWeaknessOverrides ==
  [id \in {p \in DocksOf("portal") : Node(p).weakness = "No Return Portal"} |->
     IF Node(id).region \in LightRegions THEN "Dark Portal" ELSE "Light Portal"]
\* With the items there are, an elevator or portal opens, and nothing stays in
\* its way: those of no return once their weakness is overridden.
Passable(id, name) ==
  /\ WeaknessNamed(id, name).lock = None
  /\ Compile(Overridden(id, name, Node(id).openOverride, WeaknessNamed(id, name).requirement)) # Impossible

ASSUME PassagesAssumption ==
  /\ \A id \in ElevatorEndpoints : Passable(id, Node(id).weakness)
  /\ \A id \in DocksOf("portal") : Passable(id, Lookup(PortalWeaknessOverrides, id, Node(id).weakness))
  /\ \A a, b \in ElevatorEndpoints : Room(a) = Room(b) => a = b
  /\ DOMAIN PortalWeaknessOverrides # {}
  /\ \A name \in {"Dark Portal", "Light Portal"} : <<"portal", name>> \in DOMAIN Weaknesses
-----------------------------------------------------------------------------
(* The coarse filter (_reachable_nodes): only events can hold an edge shut. *)

Events == {Node(id).event : id \in OfType("event")}

CoarseTarget(id, elevators, portals) ==
  CASE Node(id).dock = "elevator" -> Lookup(elevators, id, Node(id).to)
    [] Node(id).dock = "portal"   -> Lookup(portals, id, Node(id).to)
    [] OTHER                      -> Node(id).to

CoarseEdges(elevators, portals) ==
  {[from |-> p[1], to |-> p[2], rule |-> {c \cap Events : c \in Node(p[1]).connections[p[2]]}] :
     p \in {q \in Ids \X Ids : q[2] \in Targets(q[1])}}
  \cup {[from |-> id, to |-> CoarseTarget(id, elevators, portals), rule |-> Trivial] :
          id \in {d \in OfType("dock") : CoarseTarget(d, elevators, portals) # None}}

ReachableNodes(elevators, portals) ==
  Reached(CoarseEdges(elevators, portals), {<<id, Node(id).event>> : id \in OfType("event")},
          DbStartingLocation, {})
-----------------------------------------------------------------------------
(* The probe (_build_probe_graph, _ProbeState, _probe_reachable).          *)

LockBrokenTriggers(w) ==
  UNION {{<<e.to, id>> : e \in DockEdges(w, id)} : id \in {d \in LiveNodes : LockBreaksBehind(w, d)}}

ProbeGraph(w) == [edges |-> Edges(w), triggers |-> EventTriggers \cup LockBrokenTriggers(w)]

ProbeReached(probe, start, items) == Reached(probe.edges, probe.triggers, start, items)

\* _meets_progression_bar
MeetsProgressionBar(w) ==
  \E probe \in {ProbeGraph(w)} :
    /\ Cardinality(ProbeReached(probe, DbStartingLocation, DefaultStartingItems) \cap Pickups)
         >= MinSphereZeroPickups
    /\ Pickups \subseteq ProbeReached(probe, DbStartingLocation, AllItems)
=============================================================================
