------------------------------ MODULE Regions -------------------------------
(***************************************************************************)
(* The edges of the region graph and their rules (logic/regions.py), for a *)
(* world w: its options, its gate and lore colors, and its dock            *)
(* assignment.  create_regions and the probe of dock_rando.py both build   *)
(* their graphs from the two edge operators.                               *)
(*                                                                         *)
(* A flag is an event's name, or the id of a dock whose lock fell open     *)
(* ("Lock Broken - ...").                                                  *)
(***************************************************************************)
EXTENDS LogicDatabase

CONSTANTS
  CreditsEventNode,
  PregrantedEvents, AbsentItems,
  SkyTempleKeys,                    \* SKY_TEMPLE_KEY_ITEM_NAMES
  GatewayKeyNode, GatewayKeyTarget,
  CacheReplacements                 \* FLYING_ING_CACHE_DARK_VISOR_REPLACEMENTS

Lookup(map, key, default) == IF key \in DOMAIN map THEN map[key] ELSE default

\* compile: absent items are Impossible, pregranted events True.
Compile(req) == {c \ PregrantedEvents : c \in {d \in req : d \cap AbsentItems = {}}}

LiveNodes == Ids \ {CreditsEventNode}

ASSUME CreditsAssumption == CreditsEventNode \in OfType("event")
-----------------------------------------------------------------------------
(* The override points.                                                    *)

DockTarget(w, id) ==
  CASE Node(id).dock = "elevator" -> Lookup(w.dock.elevator, id, Node(id).to)
    [] Node(id).dock = "portal"   -> Lookup(w.dock.portal, id, Node(id).to)
    [] OTHER                      -> Node(id).to

DockWeaknessName(w, id) ==
  CASE Node(id).dock = "door"   -> Lookup(w.dock.doorLock, id, Node(id).weakness)
    [] Node(id).dock = "portal" -> Lookup(w.dock.portalWeakness, id, Node(id).weakness)
    [] OTHER                    -> Node(id).weakness

WeaknessNamed(id, name) == Weaknesses[<<Node(id).dock, name>>]

\* _translator_requirement: Scan Visor and, unless unlocked, the color.
TranslatorRequirement(color) == {{"Scan"} \cup (IF color = Unlocked THEN {} ELSE {color})}

TranslatorGateRequirement(w, id) ==
  TranslatorRequirement(Lookup(w.gates, id, VanillaGates[id]))

LeaveRequirement(w, id) ==
  CASE Node(id).type = "configurable_node" -> TranslatorGateRequirement(w, id)
    [] Node(id).type = "hint" ->
         IF Node(id).strg \in DOMAIN w.lore
         THEN TranslatorRequirement(w.lore[Node(id).strg])
         ELSE Node(id).collect
    [] OTHER -> Trivial

Fewer(a, b) == IF a < b THEN a ELSE b

\* sky_temple_keys_required_count of the nine keys, whichever they are.
SkyTempleKeyCountRule(w) ==
  {k \in SUBSET SkyTempleKeys : Cardinality(k) = Fewer(w.options.keysRequired, w.options.keys)}

StripSkyTempleKeyItems(req) == {c \ SkyTempleKeys : c \in req}

ReplaceCacheDarkVisor(req, replacement) == And({c \ {"DarkVisor"} : c \in req}, replacement)
-----------------------------------------------------------------------------
(* _intra_area_edges and _dock_edge: Impossible edges are not made.        *)

AtKeyGate(id, target) == id = GatewayKeyNode /\ target = GatewayKeyTarget

RequirementTo(w, id, target) ==
  LET req == IF AtKeyGate(id, target) THEN StripSkyTempleKeyItems(Node(id).connections[target])
             ELSE Node(id).connections[target]
  IN  IF target \in DOMAIN CacheReplacements /\ w.options.cachesWithoutDarkVisor
      THEN ReplaceCacheDarkVisor(req, CacheReplacements[target])
      ELSE req

ExtraRule(w, id, target) == IF AtKeyGate(id, target) THEN SkyTempleKeyCountRule(w) ELSE Trivial

IntraAreaRule(w, id, target) ==
  And(And(Compile(RequirementTo(w, id, target)), Compile(LeaveRequirement(w, id))),
      ExtraRule(w, id, target))

IntraAreaEdges(w, id) ==
  UNION {{[from |-> id, to |-> t, rule |-> r] : r \in {IntraAreaRule(w, id, t)} \ {Impossible}} :
           t \in Targets(id) \ {CreditsEventNode}}

\* The target is a dock too: reaching it breaks this side's lock for good.
LockBreaksBehind(w, id) ==
  /\ id \in OfType("dock")
  /\ WeaknessNamed(id, DockWeaknessName(w, id)).lock # None
  /\ DockTarget(w, id) \in OfType("dock")

\* Overrides were written against the vanilla weakness, and hold only for it.
Overridden(id, name, override, requirement) ==
  IF name = Node(id).weakness /\ override # None THEN override ELSE requirement

LockRule(w, id, name) ==
  IF WeaknessNamed(id, name).lock = None THEN Trivial
  ELSE Compile(Overridden(id, name, Node(id).lockOverride, WeaknessNamed(id, name).lock))
         \cup (IF LockBreaksBehind(w, id) THEN {{id}} ELSE {})

DockRule(w, id, name) ==
  And(Compile(Overridden(id, name, Node(id).openOverride, WeaknessNamed(id, name).requirement)),
      LockRule(w, id, name))

DockRules(w, id) == {DockRule(w, id, name) : name \in {DockWeaknessName(w, id)}} \ {Impossible}

DockEdges(w, id) ==
  IF id \in OfType("dock")
  THEN {[from |-> id, to |-> t, rule |-> r] :
          t \in {DockTarget(w, id)} \ {None, CreditsEventNode}, r \in DockRules(w, id)}
  ELSE {}

Edges(w) == UNION {IntraAreaEdges(w, id) \cup DockEdges(w, id) : id \in LiveNodes}

\* The items and events requirements are made of.
ConnectionRequirements == UNION {{Node(id).connections[t] : t \in Targets(id)} : id \in Ids}
CollectRequirements    == {Node(id).collect : id \in OfType("hint")}
OpenRequirements ==
  ({Node(id).openOverride : id \in OfType("dock")} \ {None}) \cup {Weaknesses[k].requirement : k \in DOMAIN Weaknesses}
LockRequirements ==
  ({Node(id).lockOverride : id \in OfType("dock")} \ {None}) \cup ({Weaknesses[k].lock : k \in DOMAIN Weaknesses} \ {None})
CacheRequirements == {CacheReplacements[t] : t \in DOMAIN CacheReplacements}

DatabaseRequirements ==
  ConnectionRequirements \cup CollectRequirements \cup OpenRequirements \cup LockRequirements \cup CacheRequirements

Mentioned ==
  (UNION {UNION req : req \in DatabaseRequirements})
    \cup ({VanillaGates[id] : id \in DOMAIN VanillaGates} \ {Unlocked}) \cup SkyTempleKeys \cup {"Scan"}

\* Events that are not pregranted, as pairs of a node and its flag.
EventTriggers ==
  {<<id, Node(id).event>> : id \in {n \in OfType("event") \ {CreditsEventNode} :
                                      Node(n).event \notin PregrantedEvents}}
-----------------------------------------------------------------------------
(* What a graph lets a player holding the items reach from start: the      *)
(* least fixed point ReachabilitySweep computes.                           *)

Held(triggers, items, ns) == items \cup {t[2] : t \in {u \in triggers : u[1] \in ns}}

Open(edge, held) == \E c \in edge.rule : c \subseteq held

Spread(edges, triggers, items, ns) ==
  LET held == Held(triggers, items, ns)
  IN  ns \cup {e.to : e \in {d \in edges : d.from \in ns /\ d.to \notin ns /\ Open(d, held)}}

Reached(edges, triggers, start, items) ==
  LET reach[ns \in SUBSET Ids] ==
        LET next == Spread(edges, triggers, items, ns)
        IN  IF next = ns THEN ns ELSE reach[next]
  IN  reach[{start}]
=============================================================================
