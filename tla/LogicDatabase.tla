--------------------------- MODULE LogicDatabase ----------------------------
(***************************************************************************)
(* The logic database as db_reader.py loads it: nodes with their intra-    *)
(* area connections, docks with a default connection and a weakness, and   *)
(* the regions, of which the dark ones share the MLVL of a light one.      *)
(*                                                                         *)
(* A requirement is the set of its alternatives, each the set of items and *)
(* events it names: {{}} is trivial and {} impossible.                     *)
(***************************************************************************)
EXTENDS Integers, Sequences, FiniteSets

CONSTANTS
  DbNodes,              \* id -> node
  NodeOrder,            \* the ids in the order of all_nodes()
  Mlvl,                 \* region -> its asset_id, or NoMlvl
  Associated,           \* dark region -> extra.associated_region
  Weaknesses,           \* <<dock type, name>> -> [requirement, lock]
  VanillaGates,         \* vanilla_translator_gates.json: id -> color or Unlocked
  DbStartingLocation,   \* starting_location
  NoMlvl, None, Unlocked

Ids       == DOMAIN DbNodes
Node(id)  == DbNodes[id]
Room(id)  == <<Node(id).region, Node(id).area>>
Regions   == DOMAIN Mlvl

Trivial    == {{}}
Impossible == {}
And(r, s)  == {a \cup b : a \in r, b \in s}

(* A node of each kind, with the fields its kind does not have left out.   *)
OfType(type)  == {id \in Ids : Node(id).type = type}
DocksOf(type) == {id \in OfType("dock") : Node(id).dock = type}
Pickups       == OfType("pickup")
Targets(id)   == DOMAIN Node(id).connections

LightRegions == {r \in Regions : Mlvl[r] # NoMlvl}
DarkRegions  == Regions \ LightRegions

\* mlvl_for_region: a dark region has the MLVL of its light counterpart.
MlvlFor(region) == IF region \in LightRegions THEN Mlvl[region] ELSE Mlvl[Associated[region]]

SaveStations == {id \in OfType("generic") : Node(id).saveStation /\ Node(id).startable}
Startable    == {id \in Ids : Node(id).startable}

\* starting_location_candidates(pool, light_world_only)
StartingLocationCandidates(pool, lightOnly) ==
  LET eligible == IF pool = "save_stations" THEN SaveStations ELSE Startable
  IN  {id \in eligible : lightOnly => Node(id).region \notin DarkRegions}

-----------------------------------------------------------------------------
(* What _validate and the accessors assert of the database, and what the   *)
(* type hints of Node promise.                                             *)

\* all_nodes() lists every node, each once.
ASSUME OrderAssumption ==
  /\ NodeOrder \in Seq(Ids)
  /\ Ids = {NodeOrder[i] : i \in DOMAIN NodeOrder}
  /\ \A i, j \in DOMAIN NodeOrder : NodeOrder[i] = NodeOrder[j] => i = j
  /\ None \notin Ids

ASSUME ConnectionsAssumption ==
  \A id \in Ids :
    /\ Targets(id) \subseteq {t \in Ids : Room(t) = Room(id)}
    /\ id \in OfType("dock") =>
         /\ Node(id).to \in Ids \cup {None}
         /\ <<Node(id).dock, Node(id).weakness>> \in DOMAIN Weaknesses

ASSUME RegionsAssumption ==
  /\ \A r \in DarkRegions : Associated[r] \in LightRegions
  /\ \A a, b \in Startable : Room(a) = Room(b) => a = b
  /\ SaveStations # {}
  /\ DbStartingLocation \in Startable

ASSUME GatesAssumption == DOMAIN VanillaGates = OfType("configurable_node")
=============================================================================
