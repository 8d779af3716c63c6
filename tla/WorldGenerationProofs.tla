----------------------- MODULE WorldGenerationProofs ------------------------
(***************************************************************************)
(* Theorems of WorldGeneration, for every database that meets the          *)
(* assumptions of LogicDatabase and DockRando, every set of options and    *)
(* every draw.                                                             *)
(***************************************************************************)
EXTENDS WorldGeneration, WellFoundedInduction, FiniteSetTheorems, TLAPS

-----------------------------------------------------------------------------
(* Maps keyed by nodes, and what the slot data makes of them.              *)

IsMap(f) == f = [k \in DOMAIN f |-> f[k]]

NodeMap(f) == IsMap(f) /\ DOMAIN f \subseteq Ids

TargetMap(f) == NodeMap(f) /\ \A k \in DOMAIN f : f[k] \in Ids

LEMMA NoKeys == TargetMap(<<>>) /\ DOMAIN <<>> = {}
<1>1. <<>> \in [1 .. 0 -> {}]
  OBVIOUS
<1>2. 1 .. 0 = {}
  OBVIOUS
<1> QED
  BY <1>1, <1>2 DEF TargetMap, NodeMap, IsMap

\* A list of pairs is read back as the map it was written from.
LEMMA PairsReadBack ==
  ASSUME NEW f, IsMap(f)
  PROVE  FromPairs(Pairs(f)) = f
<1> DEFINE P == Pairs(f)
<1>1. {p[1] : p \in P} = DOMAIN f
  <2>1. \A p \in P : p[1] \in DOMAIN f
    BY DEF Pairs
  <2>2. ASSUME NEW k \in DOMAIN f PROVE \E p \in P : p[1] = k
    <3>1. <<k, f[k]>> \in P /\ <<k, f[k]>>[1] = k
      BY DEF Pairs
    <3> QED
      BY <3>1, Zenon
  <2> HIDE DEF P
  <2> QED
    BY <2>1, <2>2
<1>2. ASSUME NEW k \in DOMAIN f PROVE (CHOOSE p \in P : p[1] = k)[2] = f[k]
  <2>1. <<k, f[k]>> \in P /\ <<k, f[k]>>[1] = k
    BY <1>2 DEF Pairs
  <2>2. \A p \in P : p[1] = k => p[2] = f[k]
    BY DEF Pairs
  <2> HIDE DEF P
  <2> QED
    BY <2>1, <2>2
<1>3. FromPairs(P) = [k \in DOMAIN f |-> f[k]]
  BY <1>1, <1>2 DEF FromPairs
<1> QED
  BY <1>3 DEF IsMap

LEMMA NodeReadBack ==
  ASSUME NEW id \in Ids
  PROVE  DecodeNode(EncodeNode(id)) = id
<1>1. \A a \in Ids : EncodeNode(a) = EncodeNode(id) => a = id
  BY DEF EncodeNode
<1> QED
  BY <1>1 DEF DecodeNode

LEMMA NodePairsReadBack ==
  ASSUME NEW f, NodeMap(f)
  PROVE  FromNodePairs(NodePairs(f)) = f
<1>1. {<<DecodeNode(p[1]), p[2]>> : p \in NodePairs(f)} = Pairs(f)
  <2>1. \A p \in Pairs(f) : p[1] \in Ids /\ p = <<p[1], p[2]>>
    BY DEF Pairs, NodeMap
  <2> DEFINE Written(p) == <<EncodeNode(p[1]), p[2]>>
             Read(p)    == <<DecodeNode(p[1]), p[2]>>
  <2>2. \A p \in Pairs(f) : Read(Written(p)) = p
    BY <2>1, NodeReadBack
  <2>3. NodePairs(f) = {Written(p) : p \in Pairs(f)}
    BY DEF NodePairs
  <2> HIDE DEF Written, Read
  <2>4. {Read(q) : q \in {Written(p) : p \in Pairs(f)}} = Pairs(f)
    BY <2>2
  <2> QED
    BY <2>3, <2>4 DEF Read
<1> QED
  BY <1>1, PairsReadBack DEF FromNodePairs, NodeMap

LEMMA TargetPairsReadBack ==
  ASSUME NEW f, TargetMap(f)
  PROVE  FromTargetPairs(TargetPairs(f)) = f
<1>1. {<<DecodeNode(p[1]), DecodeNode(p[2])>> : p \in TargetPairs(f)} = Pairs(f)
  <2>1. \A p \in Pairs(f) : p[1] \in Ids /\ p[2] \in Ids /\ p = <<p[1], p[2]>>
    BY DEF Pairs, TargetMap, NodeMap
  <2> DEFINE Written(p) == <<EncodeNode(p[1]), EncodeNode(p[2])>>
             Read(p)    == <<DecodeNode(p[1]), DecodeNode(p[2])>>
  <2>2. \A p \in Pairs(f) : Read(Written(p)) = p
    BY <2>1, NodeReadBack
  <2>3. TargetPairs(f) = {Written(p) : p \in Pairs(f)}
    BY DEF TargetPairs
  <2> HIDE DEF Written, Read
  <2>4. {Read(q) : q \in {Written(p) : p \in Pairs(f)}} = Pairs(f)
    BY <2>2
  <2> QED
    BY <2>3, <2>4 DEF Read
<1> QED
  BY <1>1, PairsReadBack DEF FromTargetPairs, TargetMap, NodeMap

-----------------------------------------------------------------------------
(* Doors.                                                                  *)

LEMMA LeastNumber ==
  ASSUME NEW S \in SUBSET Nat, S # {}
  PROVE  \E m \in S : \A k \in S : m <= k
<1>1. PICK m \in S : \A k \in S : <<k, m>> \notin OpToRel(<, Nat)
  BY WFMin, NatLessThanWellFounded, Zenon
<1>2. \A k \in S : ~ (k < m)
  BY <1>1, Zenon DEF OpToRel
<1> QED
  BY <1>2

\* An assignment of vetted locks to changeable doors in which no door's far face
\* is left out or has another lock.
Paired(locks) ==
  /\ IsMap(locks)
  /\ DOMAIN locks \subseteq ChangeableDoors
  /\ \A id \in DOMAIN locks : locks[id] \in DoorCanChangeTo
  /\ \A id \in DOMAIN locks : \A far \in FarFaces(id) \cap ChangeableDoors :
       far \in DOMAIN locks /\ locks[far] = locks[id]

LEMMA FarFacesMutual ==
  ASSUME NEW a \in Doors, NEW b \in FarFaces(a)
  PROVE  FarFaces(b) = {a}
BY DoorsAssumption DEF FarFaces

IsPut(f, map, keys, value) ==
  /\ IsMap(f)
  /\ DOMAIN f = keys \cup DOMAIN map
  /\ \A k \in keys : f[k] = value
  /\ \A k \in DOMAIN map \ keys : f[k] = map[k]

LEMMA PutFields ==
  ASSUME NEW map, NEW keys, NEW value
  PROVE  IsPut(Put(map, keys, value), map, keys, value)
BY DEF Put, IsMap, IsPut

LEMMA AssignDoorPairs ==
  ASSUME NEW mapping \in WeaknessMappings, NEW locks, NEW id, Paired(locks)
  PROVE  Paired(AssignDoor(mapping, locks, id))
<1> DEFINE faces == {id} \cup ((FarFaces(id) \cap ChangeableDoors) \ DOMAIN locks)
           value == mapping[Node(id).weakness]
           next  == Put(locks, faces, value)
<1>1. CASE id \notin ChangeableDoors \/ id \in DOMAIN locks
  BY <1>1 DEF AssignDoor
<1>2. CASE id \in ChangeableDoors /\ id \notin DOMAIN locks
  <2>1. AssignDoor(mapping, locks, id) = next
    BY <1>2 DEF AssignDoor
  <2>2. FarFaces(id) \cap ChangeableDoors \cap DOMAIN locks = {}
    <3> SUFFICES ASSUME NEW far \in FarFaces(id) \cap ChangeableDoors \cap DOMAIN locks PROVE FALSE
      OBVIOUS
    <3>1. id \in FarFaces(far) \cap ChangeableDoors
      BY <1>2, FarFacesMutual DEF ChangeableDoors
    <3> QED
      BY <1>2, <3>1 DEF Paired
  <2>3. faces \subseteq ChangeableDoors
    BY <1>2
  <2>4. \A k \in faces : FarFaces(k) \cap ChangeableDoors \subseteq faces
    BY <1>2, <2>2, FarFacesMutual DEF ChangeableDoors
  <2>5. \A k \in DOMAIN locks : k \notin faces
    BY <1>2
  <2>6. IsPut(next, locks, faces, value)
    BY PutFields
  <2>7. value \in DoorCanChangeTo
    BY <1>2 DEF WeaknessMappings, ChangeableDoors
  <2> HIDE DEF faces, next, value
  <2>8. Paired(next)
    BY <2>3, <2>4, <2>5, <2>6, <2>7 DEF Paired, IsPut
  <2> QED
    BY <2>1, <2>8
<1> QED
  BY <1>1, <1>2

IsAssigned(g, mapping, locks, to) ==
  g = [n \in 0 .. to |-> IF n = 0 THEN locks ELSE AssignDoor(mapping, g[n - 1], NodeOrder[n])]

LEMMA AssignedExists ==
  ASSUME NEW mapping, NEW locks, NEW to \in Nat
  PROVE  \E g : IsAssigned(g, mapping, locks, to)
<1> DEFINE Bad == {m \in Nat : ~ \E g : IsAssigned(g, mapping, locks, m)}
<1>1. SUFFICES ASSUME Bad # {} PROVE FALSE
  BY <1>1
<1>2. PICK m \in Bad : \A k \in Bad : m <= k
  BY <1>1, LeastNumber
<1>3. m # 0
  <2> DEFINE g == [n \in 0 .. 0 |-> locks]
  <2>1. g = [n \in 0 .. 0 |-> IF n = 0 THEN locks ELSE AssignDoor(mapping, g[n - 1], NodeOrder[n])]
    OBVIOUS
  <2> HIDE DEF g
  <2>2. IsAssigned(g, mapping, locks, 0)
    BY <2>1 DEF IsAssigned
  <2> QED
    BY <1>2, <2>2
<1>4. m - 1 \in Nat /\ m - 1 \notin Bad
  BY <1>2, <1>3
<1>5. PICK g : IsAssigned(g, mapping, locks, m - 1)
  BY <1>4
<1> DEFINE h == [n \in 0 .. m |-> IF n = 0 THEN locks ELSE AssignDoor(mapping, g[n - 1], NodeOrder[n])]
<1>6. \A n \in 0 .. m - 1 : h[n] = g[n]
  BY <1>2, <1>5 DEF IsAssigned
<1>7. ASSUME NEW n \in 0 .. m, n # 0 PROVE g[n - 1] = h[n - 1]
  <2>1. n - 1 \in 0 .. m - 1
    BY <1>2, <1>7
  <2> HIDE DEF h
  <2> QED
    BY <1>6, <2>1
<1>8. h = [n \in 0 .. m |-> IF n = 0 THEN locks ELSE AssignDoor(mapping, h[n - 1], NodeOrder[n])]
  BY <1>7
<1> HIDE DEF h
<1>9. IsAssigned(h, mapping, locks, m)
  BY <1>8 DEF IsAssigned
<1> QED
  BY <1>2, <1>9

\* Walking the database in order keeps the faces of every door together.
LEMMA MapDoorsPairs ==
  ASSUME NEW mapping \in WeaknessMappings, NEW locks, Paired(locks)
  PROVE  Paired(MapDoors(mapping, locks))
<1> DEFINE last == Len(NodeOrder)
           g    == CHOOSE f : IsAssigned(f, mapping, locks, last)
<1>1. last \in Nat
  BY OrderAssumption
<1>2. IsAssigned(g, mapping, locks, last)
  BY <1>1, AssignedExists
<1>3. MapDoors(mapping, locks) = g[last]
  BY DEF MapDoors, IsAssigned
<1> HIDE DEF g
<1>4. \A n \in 0 .. last :
        g[n] = IF n = 0 THEN locks ELSE AssignDoor(mapping, g[n - 1], NodeOrder[n])
  BY <1>2 DEF IsAssigned
<1> HIDE DEF last
<1> DEFINE Bad == {n \in 0 .. last : ~Paired(g[n])}
<1>5. Bad = {}
  <2> SUFFICES ASSUME Bad # {} PROVE FALSE
    OBVIOUS
  <2>1. Bad \in SUBSET Nat
    OBVIOUS
  <2>2. PICK n \in Bad : \A k \in Bad : n <= k
    <3> HIDE DEF Bad
    <3> QED
      BY <2>1, LeastNumber
  <2>3. n # 0
    BY <1>1, <1>4, <2>2
  <2>4. n - 1 \in 0 .. last /\ Paired(g[n - 1])
    BY <1>1, <2>2, <2>3
  <2>5. g[n] = AssignDoor(mapping, g[n - 1], NodeOrder[n])
    BY <1>1, <1>4, <2>2, <2>3
  <2> QED
    BY <2>2, <2>4, <2>5, AssignDoorPairs
<1> QED
  BY <1>1, <1>3, <1>5

LEMMA SaveFacesClosed ==
  ASSUME NEW id \in ChangeableDoors, NEW far \in FarFaces(id) \cap ChangeableDoors
  PROVE  id \in SaveStationDoorFaces <=> far \in SaveStationDoorFaces
BY FarFacesMutual DEF SaveStationDoorFaces, ChangeableDoors

\* What door lock rando draws: both faces of every door, and Normal Door where
\* the option protects a save station.
LEMMA CandidatePaired ==
  ASSUME NEW o, NEW locks \in DoorLockCandidates(o)
  PROVE  /\ Paired(locks)
         /\ o.normalSaveStationDoors =>
              \A id \in SaveStationDoorFaces : id \in DOMAIN locks /\ locks[id] = NormalDoor
<1> DEFINE protected == IF o.normalSaveStationDoors THEN SaveStationDoorFaces ELSE {}
<1>1. PICK m \in WeaknessMappings : locks = SampleDoorLockCandidate(m, protected)
  BY DEF DoorLockCandidates
<1> DEFINE mapped == MapDoors(m, <<>>)
<1>2. Paired(mapped)
  <2>1. Paired(<<>>)
    BY NoKeys DEF Paired, TargetMap, NodeMap
  <2> QED
    BY <2>1, MapDoorsPairs
<1>3. /\ protected \subseteq ChangeableDoors
      /\ \A id \in ChangeableDoors : \A far \in FarFaces(id) \cap ChangeableDoors :
           id \in protected <=> far \in protected
  BY SaveFacesClosed DEF SaveStationDoorFaces
<1>4. locks = Put(mapped, protected, NormalDoor)
  BY <1>1 DEF SampleDoorLockCandidate
<1> HIDE DEF mapped, protected
<1>5. IsPut(locks, mapped, protected, NormalDoor)
  BY <1>4, PutFields
<1>6. Paired(locks)
  BY <1>2, <1>3, <1>5, DoorsAssumption DEF Paired, IsPut
<1> QED
  BY <1>5, <1>6 DEF IsPut, protected
-----------------------------------------------------------------------------
(* What the draws leave behind, stage by stage.                            *)

Built        == {"fill_slot_data", "generate_output", "done", "regenerated"}
PastPortals  == {"create_regions"} \cup Built
PastElevators == {"portals"} \cup PastPortals
PastDoors    == {"elevators"} \cup PastElevators
Stages       == {"start", "gates", "lore", "doors", "RuntimeError"} \cup PastDoors

PlacesDrawn ==
  /\ stage \in Stages
  /\ start \in Startable /\ options \in OptionSets
  /\ DOMAIN gates \subseteq RandomizableGates
  /\ NodeMap(gates) /\ \A id \in DOMAIN gates : gates[id] \in TranslatorColors \cup {Unlocked}
  /\ IsMap(lore) /\ \A strg \in DOMAIN lore : lore[strg] \in TranslatorColors

DoorsDrawn ==
  /\ Paired(dock.doorLock)
  /\ ~options.doorLockRando => dock.doorLock = <<>>
  /\ stage \in PastDoors /\ options.doorLockRando /\ options.normalSaveStationDoors =>
       \A id \in SaveStationDoorFaces : id \in DOMAIN dock.doorLock /\ dock.doorLock[id] = NormalDoor

PassagesDrawn ==
  /\ dock.elevator \in {<<>>} \cup ElevatorShuffles
  /\ \/ dock.portal = <<>> /\ dock.portalWeakness = <<>>
     \/ dock.portal \in PortalShuffles /\ dock.portalWeakness = PortalWeaknessOverrides
  /\ ~options.elevatorRando => dock.elevator = <<>>
  /\ ~options.portalRando => dock.portal = <<>>
  /\ stage \in PastPortals /\ options.portalRando => dock.portal \in PortalShuffles

\* Every pool that was drawn has been probed together with those before it.
Probed ==
  /\ stage \in PastDoors /\ options.doorLockRando => MeetsProgressionBar(World)
  /\ stage \in PastElevators /\ options.elevatorRando => MeetsProgressionBar(World)
  /\ stage \in PastPortals /\ options.portalRando => MeetsProgressionBar(World)

IsDocks(d) ==
  d = [doorLock |-> d.doorLock, elevator |-> d.elevator,
       portal |-> d.portal, portalWeakness |-> d.portalWeakness]

Drawn == PlacesDrawn /\ IsDocks(dock) /\ DoorsDrawn /\ PassagesDrawn /\ Probed

LEMMA StageNames ==
  /\ PastDoors \subseteq Stages
  /\ {"start", "gates", "lore", "doors", "RuntimeError"} \cap PastDoors = {}
  /\ {"start", "gates", "lore", "doors", "elevators", "RuntimeError"} \cap PastElevators = {}
  /\ {"start", "gates", "lore", "doors", "elevators", "portals", "RuntimeError"} \cap PastPortals = {}
BY DEF Stages, PastDoors, PastElevators, PastPortals, Built

LEMMA InitDrawn == Init => Drawn
<1> SUFFICES ASSUME Init PROVE Drawn
  OBVIOUS
<1>1. PlacesDrawn
  BY NoKeys, RegionsAssumption DEF Init, PlacesDrawn, Stages, TargetMap, NodeMap
<1>2. IsDocks(dock) /\ PassagesDrawn
  BY StageNames DEF Init, VanillaDocks, IsDocks, PassagesDrawn
<1>3. DoorsDrawn
  BY NoKeys, StageNames DEF Init, VanillaDocks, DoorsDrawn, Paired, TargetMap, NodeMap
<1>4. Probed
  BY StageNames DEF Init, Probed
<1> QED
  BY <1>1, <1>2, <1>3, <1>4 DEF Drawn

-----------------------------------------------------------------------------
(* The steps.  A pool is left alone, drawn and accepted, or tried again.   *)

Undrawn == <<options, start, gates, lore, graph, slot, patch, tracker>>

Accepted(docks, next) == dock' = docks /\ stage' = next /\ MeetsProgressionBar(World')

LEMMA TryOutcome ==
  ASSUME NEW docks, NEW reaches, NEW next, Try([World EXCEPT !.dock = docks], reaches, next)
  PROVE  /\ UNCHANGED Undrawn
         /\ \/ Accepted(docks, next)
            \/ dock' = dock /\ stage' \in {stage, "RuntimeError"}
<1> DEFINE candidate == [World EXCEPT !.dock = docks]
<1>1. UNCHANGED Undrawn
  BY DEF Try, Undrawn
<1>2. candidate.dock = docks
  BY DEF World
<1>3. CASE reaches /\ MeetsProgressionBar(candidate)
  <2>1. dock' = docks /\ stage' = next
    BY <1>2, <1>3 DEF Try
  <2>2. World' = candidate
    BY <1>1, <2>1 DEF World, Undrawn
  <2> QED
    BY <1>1, <1>3, <2>1, <2>2 DEF Accepted
<1>4. CASE ~(reaches /\ MeetsProgressionBar(candidate))
  BY <1>1, <1>4 DEF Try
<1> QED
  BY <1>3, <1>4

LEMMA DoorsOutcome ==
  ASSUME IsDocks(dock), BuildDoorLockAssignment
  PROVE  /\ stage = "doors" /\ UNCHANGED Undrawn
         /\ \/ ~options.doorLockRando /\ dock' = dock /\ stage' = "elevators"
            \/ /\ options.doorLockRando
               /\ \E locks \in DoorLockCandidates(options) :
                    Accepted([dock EXCEPT !.doorLock = locks], "elevators")
            \/ dock' = dock /\ stage' \in {"doors", "RuntimeError"}
<1>1. stage = "doors"
  BY DEF BuildDoorLockAssignment
<1>2. CASE ~options.doorLockRando /\ KeepPool("elevators")
  BY <1>1, <1>2 DEF KeepPool, Undrawn
<1>3. ASSUME options.doorLockRando, NEW locks \in DoorLockCandidates(options),
             Try([World EXCEPT !.dock.doorLock = locks], TRUE, "elevators")
      PROVE  /\ UNCHANGED Undrawn
             /\ \/ Accepted([dock EXCEPT !.doorLock = locks], "elevators")
                \/ dock' = dock /\ stage' \in {stage, "RuntimeError"}
  <2>1. [World EXCEPT !.dock.doorLock = locks] = [World EXCEPT !.dock = [dock EXCEPT !.doorLock = locks]]
    BY DEF World
  <2> QED
    BY <1>3, <2>1, TryOutcome
<1>4. \/ ~options.doorLockRando /\ KeepPool("elevators")
      \/ options.doorLockRando /\ \E locks \in DoorLockCandidates(options) :
           Try([World EXCEPT !.dock.doorLock = locks], TRUE, "elevators")
  BY DEF BuildDoorLockAssignment
<1> QED
  BY <1>1, <1>2, <1>3, <1>4

LEMMA ElevatorsOutcome ==
  ASSUME IsDocks(dock), BuildElevatorAssignment
  PROVE  /\ stage = "elevators" /\ UNCHANGED Undrawn
         /\ \/ ~options.elevatorRando /\ dock' = dock /\ stage' = "portals"
            \/ /\ options.elevatorRando
               /\ \E targets \in ElevatorShuffles :
                    Accepted([dock EXCEPT !.elevator = targets], "portals")
            \/ dock' = dock /\ stage' \in {"elevators", "RuntimeError"}
<1>1. stage = "elevators"
  BY DEF BuildElevatorAssignment
<1>2. CASE ~options.elevatorRando /\ KeepPool("portals")
  BY <1>1, <1>2 DEF KeepPool, Undrawn
<1>3. ASSUME options.elevatorRando, NEW targets \in ElevatorShuffles, NEW reaches,
             Try([World EXCEPT !.dock.elevator = targets], reaches, "portals")
      PROVE  /\ UNCHANGED Undrawn
             /\ \/ Accepted([dock EXCEPT !.elevator = targets], "portals")
                \/ dock' = dock /\ stage' \in {stage, "RuntimeError"}
  <2>1. [World EXCEPT !.dock.elevator = targets] = [World EXCEPT !.dock = [dock EXCEPT !.elevator = targets]]
    BY DEF World
  <2> QED
    BY <1>3, <2>1, TryOutcome
<1>4. \/ ~options.elevatorRando /\ KeepPool("portals")
      \/ options.elevatorRando /\ \E targets \in ElevatorShuffles : \E reaches :
           Try([World EXCEPT !.dock.elevator = targets], reaches, "portals")
  BY DEF BuildElevatorAssignment
<1> QED
  BY <1>1, <1>2, <1>3, <1>4

LEMMA PortalsOutcome ==
  ASSUME IsDocks(dock), BuildPortalAssignment
  PROVE  /\ stage = "portals" /\ UNCHANGED Undrawn
         /\ \/ ~options.portalRando /\ dock' = dock /\ stage' = "create_regions"
            \/ /\ options.portalRando
               /\ \E targets \in PortalShuffles :
                    Accepted([dock EXCEPT !.portal = targets, !.portalWeakness = PortalWeaknessOverrides],
                             "create_regions")
            \/ dock' = dock /\ stage' \in {"portals", "RuntimeError"}
<1> DEFINE docks(targets) == [dock EXCEPT !.portal = targets, !.portalWeakness = PortalWeaknessOverrides]
           candidate(targets) ==
             [World EXCEPT !.dock.portal = targets, !.dock.portalWeakness = PortalWeaknessOverrides]
<1>1. stage = "portals"
  BY DEF BuildPortalAssignment
<1>2. CASE ~options.portalRando /\ KeepPool("create_regions")
  BY <1>1, <1>2 DEF KeepPool, Undrawn
<1>3. ASSUME options.portalRando, NEW targets \in PortalShuffles, NEW reaches,
             Try(candidate(targets), reaches, "create_regions")
      PROVE  /\ UNCHANGED Undrawn
             /\ \/ Accepted(docks(targets), "create_regions")
                \/ dock' = dock /\ stage' \in {stage, "RuntimeError"}
  <2>1. candidate(targets) = [World EXCEPT !.dock = docks(targets)]
    BY DEF World
  <2> HIDE DEF candidate, docks
  <2> QED
    BY <1>3, <2>1, TryOutcome
<1> DEFINE reaches(targets) ==
             DocksOf("portal") \subseteq
               ReachableNodes(candidate(targets).dock.elevator, candidate(targets).dock.portal)
<1>4. \/ ~options.portalRando /\ KeepPool("create_regions")
      \/ options.portalRando /\ \E targets \in PortalShuffles :
           Try(candidate(targets), reaches(targets), "create_regions")
  <2>1. ASSUME NEW targets \in PortalShuffles, NEW w,
               w \in {candidate(t) : t \in PortalShuffles},
               Try(w, DocksOf("portal") \subseteq ReachableNodes(w.dock.elevator, w.dock.portal),
                   "create_regions")
        PROVE  \E t \in PortalShuffles : Try(candidate(t), reaches(t), "create_regions")
    BY <2>1
  <2>2. BuildPortalAssignment
    OBVIOUS
  <2> QED
    BY <2>1, <2>2 DEF BuildPortalAssignment
<1> HIDE DEF candidate, docks, reaches
<1> QED
  BY <1>1, <1>2, <1>3, <1>4 DEF docks

Draws == <<options, start, gates, lore, dock>>

LEMMA WithinMlvl ==
  ASSUME PassagesDrawn
  PROVE  PortalsWithinMlvl
<1> SUFFICES ASSUME NEW id \in DOMAIN dock.portal
             PROVE  MlvlFor(Node(id).region) = MlvlFor(Node(dock.portal[id]).region)
  BY DEF PortalsWithinMlvl
<1>1. dock.portal \in PortalShuffles
  BY NoKeys DEF PassagesDrawn
<1>2. PortalRegion(dock.portal[id]) = PortalRegion(id)
  BY <1>1 DEF PortalShuffles
<1>3. \A n \in Ids : MlvlFor(Node(n).region) = Mlvl[PortalRegion(n)]
  BY DEF MlvlFor, PortalRegion, RegionsAssumption
<1>4. id \in Ids /\ dock.portal[id] \in Ids
  BY <1>1 DEF PortalShuffles, DocksOf, OfType
<1> QED
  BY <1>2, <1>3, <1>4

LEMMA StartDrawn == Drawn /\ RollStart => Drawn'
<1> SUFFICES ASSUME Drawn, RollStart PROVE Drawn'
  OBVIOUS
<1>1. stage = "start" /\ stage' = "gates" /\ UNCHANGED <<options, gates, lore, dock>>
  BY DEF RollStart
<1>2. start' \in Startable
  BY RegionsAssumption DEF RollStart, StartingLocationCandidates, SaveStations, Startable, OfType
<1>3. PlacesDrawn'
  BY <1>1, <1>2 DEF Drawn, PlacesDrawn, Stages
<1>4. Probed'
  BY <1>1, StageNames DEF Probed
<1>5. IsDocks(dock)' /\ DoorsDrawn' /\ PassagesDrawn'
  BY <1>1, StageNames DEF Drawn, DoorsDrawn, PassagesDrawn
<1> QED
  BY <1>3, <1>4, <1>5 DEF Drawn

LEMMA GatesDrawn == Drawn /\ RollGates => Drawn'
<1> SUFFICES ASSUME Drawn, RollGates PROVE Drawn'
  OBVIOUS
<1>1. stage = "gates" /\ stage' = "lore" /\ UNCHANGED <<options, start, lore, dock>>
  BY DEF RollGates
<1>2. /\ NodeMap(gates') /\ DOMAIN gates' \subseteq RandomizableGates
      /\ \A id \in DOMAIN gates' : gates'[id] \in TranslatorColors \cup {Unlocked}
  BY NoKeys DEF RollGates, GateChoices, NodeMap, IsMap, TargetMap, RandomizableGates, OfType
<1>3. PlacesDrawn'
  BY <1>1, <1>2 DEF Drawn, PlacesDrawn, Stages
<1>4. Probed'
  BY <1>1, StageNames DEF Probed
<1>5. IsDocks(dock)' /\ DoorsDrawn' /\ PassagesDrawn'
  BY <1>1, StageNames DEF Drawn, DoorsDrawn, PassagesDrawn
<1> QED
  BY <1>3, <1>4, <1>5 DEF Drawn

LEMMA LoreDrawn == Drawn /\ RollLore => Drawn'
<1> SUFFICES ASSUME Drawn, RollLore PROVE Drawn'
  OBVIOUS
<1>1. stage = "lore" /\ stage' = "doors" /\ UNCHANGED <<options, start, gates, dock>>
  BY DEF RollLore
<1>2. IsMap(lore') /\ \A strg \in DOMAIN lore' : lore'[strg] \in TranslatorColors
  BY NoKeys DEF RollLore, NodeMap, IsMap, TargetMap
<1>3. PlacesDrawn'
  BY <1>1, <1>2 DEF Drawn, PlacesDrawn, Stages
<1>4. Probed'
  BY <1>1, StageNames DEF Probed
<1>5. IsDocks(dock)' /\ DoorsDrawn' /\ PassagesDrawn'
  BY <1>1, StageNames DEF Drawn, DoorsDrawn, PassagesDrawn
<1> QED
  BY <1>3, <1>4, <1>5 DEF Drawn

\* A step that leaves the draws alone and does not skip a pool.
LEMMA QuietDrawn ==
  ASSUME Drawn, UNCHANGED Draws, stage' \in Stages,
         stage' \in PastDoors => stage \in PastDoors \/ (stage = "doors" /\ ~options.doorLockRando),
         stage' \in PastElevators => stage \in PastElevators \/ (stage = "elevators" /\ ~options.elevatorRando),
         stage' \in PastPortals => stage \in PastPortals \/ (stage = "portals" /\ ~options.portalRando)
  PROVE  Drawn'
<1>1. UNCHANGED <<options, start, gates, lore, dock>>
  BY DEF Draws
<1>2. PlacesDrawn'
  BY <1>1 DEF Drawn, PlacesDrawn
<1>3. IsDocks(dock)' /\ DoorsDrawn' /\ PassagesDrawn'
  BY <1>1 DEF Drawn, DoorsDrawn, PassagesDrawn
<1>4. World' = World
  BY <1>1 DEF World
<1>5. Probed'
  BY <1>1, <1>4 DEF Drawn, Probed
<1> QED
  BY <1>2, <1>3, <1>5 DEF Drawn

LEMMA DoorsStep == Drawn /\ BuildDoorLockAssignment => Drawn'
<1> SUFFICES ASSUME Drawn, BuildDoorLockAssignment PROVE Drawn'
  OBVIOUS
<1>1. /\ stage = "doors" /\ UNCHANGED <<options, start, gates, lore>>
      /\ \/ ~options.doorLockRando /\ dock' = dock /\ stage' = "elevators"
         \/ /\ options.doorLockRando
            /\ \E locks \in DoorLockCandidates(options) :
                 Accepted([dock EXCEPT !.doorLock = locks], "elevators")
         \/ dock' = dock /\ stage' \in {"doors", "RuntimeError"}
  BY DoorsOutcome DEF Drawn, Undrawn
<1>2. CASE \/ ~options.doorLockRando /\ dock' = dock /\ stage' = "elevators"
           \/ dock' = dock /\ stage' \in {"doors", "RuntimeError"}
  <2>1. UNCHANGED Draws
    BY <1>1, <1>2 DEF Draws
  <2> QED
    BY <1>1, <1>2, <2>1, QuietDrawn DEF Stages, PastDoors, PastElevators, PastPortals, Built
<1>3. ASSUME options.doorLockRando, NEW locks \in DoorLockCandidates(options),
             Accepted([dock EXCEPT !.doorLock = locks], "elevators")
      PROVE  Drawn'
  <2>1. stage' = "elevators" /\ MeetsProgressionBar(World') /\ dock' = [dock EXCEPT !.doorLock = locks]
    BY <1>3 DEF Accepted
  <2>2. Probed'
    BY <2>1 DEF Probed
  <2>3. PlacesDrawn'
    BY <1>1, <2>1 DEF Drawn, PlacesDrawn, Stages, PastDoors, PastElevators, PastPortals
  <2>4. IsDocks(dock)'
    BY <2>1 DEF Drawn, IsDocks
  <2>5. DoorsDrawn'
    <3>1. dock'.doorLock = locks
      BY <2>1 DEF Drawn, IsDocks
    <3> QED
      BY <1>1, <1>3, <3>1, CandidatePaired DEF DoorsDrawn
  <2>6. PassagesDrawn'
    <3>1. dock'.elevator = dock.elevator /\ dock'.portal = dock.portal
          /\ dock'.portalWeakness = dock.portalWeakness
      BY <2>1 DEF Drawn, IsDocks
    <3> QED
      BY <1>1, <2>1, <3>1, StageNames DEF Drawn, PassagesDrawn
  <2> QED
    BY <2>2, <2>3, <2>4, <2>5, <2>6 DEF Drawn
<1> QED
  BY <1>1, <1>2, <1>3

LEMMA ElevatorsStep == Drawn /\ BuildElevatorAssignment => Drawn'
<1> SUFFICES ASSUME Drawn, BuildElevatorAssignment PROVE Drawn'
  OBVIOUS
<1>1. /\ stage = "elevators" /\ UNCHANGED <<options, start, gates, lore>>
      /\ \/ ~options.elevatorRando /\ dock' = dock /\ stage' = "portals"
         \/ /\ options.elevatorRando
            /\ \E targets \in ElevatorShuffles :
                 Accepted([dock EXCEPT !.elevator = targets], "portals")
         \/ dock' = dock /\ stage' \in {"elevators", "RuntimeError"}
  BY ElevatorsOutcome DEF Drawn, Undrawn
<1>2. CASE \/ ~options.elevatorRando /\ dock' = dock /\ stage' = "portals"
           \/ dock' = dock /\ stage' \in {"elevators", "RuntimeError"}
  <2>1. UNCHANGED Draws
    BY <1>1, <1>2 DEF Draws
  <2> QED
    BY <1>1, <1>2, <2>1, QuietDrawn DEF Stages, PastDoors, PastElevators, PastPortals, Built
<1>3. ASSUME options.elevatorRando, NEW targets \in ElevatorShuffles,
             Accepted([dock EXCEPT !.elevator = targets], "portals")
      PROVE  Drawn'
  <2>1. stage' = "portals" /\ MeetsProgressionBar(World') /\ dock' = [dock EXCEPT !.elevator = targets]
    BY <1>3 DEF Accepted
  <2>2. Probed'
    BY <2>1 DEF Probed
  <2>3. PlacesDrawn'
    BY <1>1, <2>1 DEF Drawn, PlacesDrawn, Stages, PastDoors, PastElevators, PastPortals
  <2>4. IsDocks(dock)'
    BY <2>1 DEF Drawn, IsDocks
  <2>5. DoorsDrawn'
    <3>1. dock'.doorLock = dock.doorLock
      BY <2>1 DEF Drawn, IsDocks
    <3> QED
      BY <1>1, <2>1, <3>1 DEF Drawn, DoorsDrawn, PastDoors
  <2>6. PassagesDrawn'
    <3>1. dock'.elevator = targets /\ dock'.portal = dock.portal
          /\ dock'.portalWeakness = dock.portalWeakness
      BY <2>1 DEF Drawn, IsDocks
    <3> QED
      BY <1>1, <1>3, <2>1, <3>1, StageNames DEF Drawn, PassagesDrawn
  <2> QED
    BY <2>2, <2>3, <2>4, <2>5, <2>6 DEF Drawn
<1> QED
  BY <1>1, <1>2, <1>3

LEMMA PortalsStep == Drawn /\ BuildPortalAssignment => Drawn'
<1> SUFFICES ASSUME Drawn, BuildPortalAssignment PROVE Drawn'
  OBVIOUS
<1>1. /\ stage = "portals" /\ UNCHANGED <<options, start, gates, lore>>
      /\ \/ ~options.portalRando /\ dock' = dock /\ stage' = "create_regions"
         \/ /\ options.portalRando
            /\ \E targets \in PortalShuffles :
                 Accepted([dock EXCEPT !.portal = targets, !.portalWeakness = PortalWeaknessOverrides], "create_regions")
         \/ dock' = dock /\ stage' \in {"portals", "RuntimeError"}
  BY PortalsOutcome DEF Drawn, Undrawn
<1>2. CASE \/ ~options.portalRando /\ dock' = dock /\ stage' = "create_regions"
           \/ dock' = dock /\ stage' \in {"portals", "RuntimeError"}
  <2>1. UNCHANGED Draws
    BY <1>1, <1>2 DEF Draws
  <2> QED
    BY <1>1, <1>2, <2>1, QuietDrawn DEF Stages, PastDoors, PastElevators, PastPortals, Built
<1>3. ASSUME options.portalRando, NEW targets \in PortalShuffles,
             Accepted([dock EXCEPT !.portal = targets, !.portalWeakness = PortalWeaknessOverrides], "create_regions")
      PROVE  Drawn'
  <2>1. stage' = "create_regions" /\ MeetsProgressionBar(World') /\ dock' = [dock EXCEPT !.portal = targets, !.portalWeakness = PortalWeaknessOverrides]
    BY <1>3 DEF Accepted
  <2>2. Probed'
    BY <2>1 DEF Probed
  <2>3. PlacesDrawn'
    BY <1>1, <2>1 DEF Drawn, PlacesDrawn, Stages, PastDoors, PastElevators, PastPortals
  <2>4. IsDocks(dock)'
    BY <2>1 DEF Drawn, IsDocks
  <2>5. DoorsDrawn'
    <3>1. dock'.doorLock = dock.doorLock
      BY <2>1 DEF Drawn, IsDocks
    <3> QED
      BY <1>1, <2>1, <3>1 DEF Drawn, DoorsDrawn, PastDoors, PastElevators
  <2>6. PassagesDrawn'
    <3>1. dock'.elevator = dock.elevator /\ dock'.portal = targets
          /\ dock'.portalWeakness = PortalWeaknessOverrides
      BY <2>1 DEF Drawn, IsDocks
    <3> QED
      BY <1>1, <1>3, <3>1 DEF Drawn, PassagesDrawn
  <2> QED
    BY <2>2, <2>3, <2>4, <2>5, <2>6 DEF Drawn
<1> QED
  BY <1>1, <1>2, <1>3

LEMMA NextDrawn == Drawn /\ [Next]_vars => Drawn'
<1> SUFFICES ASSUME Drawn, [Next]_vars PROVE Drawn'
  OBVIOUS
<1>1. CASE CreateRegions
  BY <1>1, QuietDrawn DEF CreateRegions, Draws, Stages, PastDoors, PastElevators, PastPortals, Built
<1>2. CASE FillSlotData
  BY <1>2, QuietDrawn DEF FillSlotData, Draws, Stages, PastDoors, PastElevators, PastPortals, Built
<1>3. CASE GenerateOutput
  <2>1. PortalsWithinMlvl
    BY WithinMlvl DEF Drawn
  <2> QED
    BY <1>3, <2>1, QuietDrawn DEF GenerateOutput, Draws, Stages, PastDoors, PastElevators, PastPortals, Built
<1>4. CASE Regenerate
  BY <1>4, QuietDrawn DEF Regenerate, Draws, Stages, PastDoors, PastElevators, PastPortals, Built
<1>5. CASE UNCHANGED vars
  <2>1. UNCHANGED stage /\ UNCHANGED Draws /\ stage \in Stages
    BY <1>5 DEF vars, Draws, Drawn, PlacesDrawn
  <2> QED
    BY <2>1, QuietDrawn
<1> QED
  BY <1>1, <1>2, <1>3, <1>4, <1>5, StartDrawn, GatesDrawn, LoreDrawn,
     DoorsStep, ElevatorsStep, PortalsStep DEF Next

-----------------------------------------------------------------------------
(* What is built, written down and read back is what was drawn.            *)

SlotOfDraws    == [options |-> options, randomization |-> EncodeRandomization]
TrackerOfDraws == [start |-> start, graph |-> RegionGraph(World, start)]

Recorded ==
  /\ stage \in Built => graph = RegionGraph(World, start)
  /\ stage \notin Built => graph = NoGraph
  /\ stage \in {"generate_output", "done", "regenerated"} => slot = SlotOfDraws
  /\ stage \in {"done", "regenerated"} => patch = RandoConfiguration
  /\ stage \notin {"done", "regenerated"} => patch = <<>>
  /\ stage = "regenerated" => tracker = TrackerOfDraws
  /\ stage # "regenerated" => tracker = <<>>

DrawnAndRecorded == Drawn /\ Recorded

LEMMA RecordsKept ==
  ASSUME UNCHANGED Draws
  PROVE  /\ RegionGraph(World, start)' = RegionGraph(World, start)
         /\ SlotOfDraws' = SlotOfDraws
         /\ TrackerOfDraws' = TrackerOfDraws
         /\ RandoConfiguration' = RandoConfiguration
<1>1. UNCHANGED <<options, start, gates, lore, dock>>
  BY DEF Draws
<1>2. World' = World
  BY <1>1 DEF World
<1>3. RegionGraph(World, start)' = RegionGraph(World, start)
  BY <1>1, <1>2
<1>4. SlotOfDraws' = SlotOfDraws /\ TrackerOfDraws' = TrackerOfDraws
  BY <1>1, <1>3 DEF SlotOfDraws, TrackerOfDraws, EncodeRandomization
<1>5. RandoConfiguration' = RandoConfiguration
  BY <1>1 DEF RandoConfiguration, TranslatorGateModification, DoorLockModification,
              ElevatorModification, PortalModification
<1> QED
  BY <1>3, <1>4, <1>5

\* decode_randomization undoes encode_randomization.
LEMMA SlotReadBack ==
  ASSUME Drawn
  PROVE  DecodeRandomization(options, EncodeRandomization) = [start |-> start, world |-> World]
<1>1. start \in Ids /\ NodeMap(gates) /\ IsMap(lore)
  BY DEF Drawn, PlacesDrawn, Startable
<1>2. NodeMap(dock.doorLock)
  BY DEF Drawn, DoorsDrawn, Paired, NodeMap, ChangeableDoors, Doors, DocksOf, OfType
<1>3. TargetMap(dock.elevator)
  <2>1. ASSUME dock.elevator \in ElevatorShuffles PROVE TargetMap(dock.elevator)
    BY <2>1 DEF ElevatorShuffles, TargetMap, NodeMap, IsMap, ElevatorEndpoints, DocksOf, OfType
  <2> QED
    BY <2>1, NoKeys DEF Drawn, PassagesDrawn
<1>4. TargetMap(dock.portal) /\ NodeMap(dock.portalWeakness)
  <2>1. ASSUME dock.portal \in PortalShuffles PROVE TargetMap(dock.portal)
    BY <2>1 DEF PortalShuffles, TargetMap, NodeMap, IsMap, DocksOf, OfType
  <2>2. NodeMap(PortalWeaknessOverrides)
    BY DEF PortalWeaknessOverrides, NodeMap, IsMap, DocksOf, OfType
  <2> QED
    BY <2>1, <2>2, NoKeys DEF Drawn, PassagesDrawn, TargetMap
<1> DEFINE data == EncodeRandomization
<1>5. /\ DecodeNode(data.start) = start
      /\ FromNodePairs(data.gates) = gates
      /\ FromPairs(data.lore) = lore
  BY <1>1, NodeReadBack, NodePairsReadBack, PairsReadBack DEF EncodeRandomization
<1>6. /\ FromNodePairs(data.doorLock) = dock.doorLock
      /\ FromNodePairs(data.portalWeakness) = dock.portalWeakness
  BY <1>2, <1>4, NodePairsReadBack DEF EncodeRandomization
<1>7. /\ FromTargetPairs(data.elevator) = dock.elevator
      /\ FromTargetPairs(data.portal) = dock.portal
  BY <1>3, <1>4, TargetPairsReadBack DEF EncodeRandomization
<1> HIDE DEF data
<1>8. dock = [doorLock |-> dock.doorLock, elevator |-> dock.elevator,
              portal |-> dock.portal, portalWeakness |-> dock.portalWeakness]
  BY DEF Drawn, IsDocks
<1>9. DecodeRandomization(options, data) = [start |-> start, world |-> World]
  BY <1>5, <1>6, <1>7, <1>8 DEF DecodeRandomization, World
<1> QED
  BY <1>9 DEF data

LEMMA InitRecorded == Init => Recorded
BY DEF Init, Recorded, Built

LEMMA NextRecorded == Drawn /\ Recorded /\ [Next]_vars => Recorded'
<1> SUFFICES ASSUME Drawn, Recorded, [Next]_vars PROVE Recorded'
  OBVIOUS
<1>1. CASE CreateRegions
  <2>1. UNCHANGED Draws /\ stage = "create_regions" /\ stage' = "fill_slot_data"
        /\ graph' = RegionGraph(World, start) /\ UNCHANGED <<patch, tracker>>
    BY <1>1 DEF CreateRegions, Draws
  <2> QED
    BY <2>1, RecordsKept DEF Recorded, Built
<1>2. CASE FillSlotData
  <2>1. UNCHANGED Draws /\ stage = "fill_slot_data" /\ stage' = "generate_output"
        /\ slot' = SlotOfDraws /\ UNCHANGED <<graph, patch, tracker>>
    BY <1>2 DEF FillSlotData, Draws, SlotOfDraws
  <2> QED
    BY <2>1, RecordsKept DEF Recorded, Built
<1>3. CASE GenerateOutput
  <2>1. PortalsWithinMlvl
    BY WithinMlvl DEF Drawn
  <2>2. UNCHANGED Draws /\ stage = "generate_output" /\ stage' = "done"
        /\ patch' = RandoConfiguration /\ UNCHANGED <<graph, slot, tracker>>
    BY <1>3, <2>1 DEF GenerateOutput, Draws
  <2> QED
    BY <2>2, RecordsKept DEF Recorded, Built
<1>4. CASE Regenerate
  <2>1. UNCHANGED Draws /\ stage = "done" /\ stage' = "regenerated" /\ UNCHANGED <<graph, slot, patch>>
    BY <1>4 DEF Regenerate, Draws
  <2>2. slot.options = options /\ slot.randomization = EncodeRandomization
    BY <2>1 DEF Recorded, SlotOfDraws
  <2>3. DecodeRandomization(slot.options, slot.randomization) = [start |-> start, world |-> World]
    BY <2>2, SlotReadBack
  <2>4. tracker' = TrackerOfDraws
    BY <1>4, <2>3 DEF Regenerate, TrackerOfDraws
  <2> QED
    BY <2>1, <2>4, RecordsKept DEF Recorded, Built
<1>5. CASE UNCHANGED vars
  <2>1. UNCHANGED Draws /\ UNCHANGED <<stage, graph, slot, patch, tracker>>
    BY <1>5 DEF vars, Draws
  <2> QED
    BY <2>1, RecordsKept DEF Recorded, Built
<1>6. CASE RollStart \/ RollGates \/ RollLore
  <2>1. stage' \in {"gates", "lore", "doors"} /\ stage \in {"start", "gates", "lore"}
        /\ UNCHANGED <<graph, patch, tracker>>
    BY <1>6 DEF RollStart, RollGates, RollLore
  <2>2. /\ {stage, stage'} \cap Built = {}
        /\ {stage, stage'} \cap {"generate_output", "done", "regenerated"} = {}
    BY <2>1 DEF Built
  <2>3. graph' = NoGraph /\ patch' = <<>> /\ tracker' = <<>>
    BY <2>1, <2>2 DEF Recorded
  <2> QED
    BY <2>2, <2>3 DEF Recorded, NoGraph
<1>7. CASE BuildDoorLockAssignment \/ BuildElevatorAssignment \/ BuildPortalAssignment
  <2>1. stage' \in {"doors", "elevators", "portals", "create_regions", "RuntimeError"}
        /\ stage \in {"doors", "elevators", "portals"} /\ UNCHANGED <<graph, patch, tracker>>
    BY <1>7, DoorsOutcome, ElevatorsOutcome, PortalsOutcome DEF Drawn, Undrawn, Accepted
  <2>2. /\ {stage, stage'} \cap Built = {}
        /\ {stage, stage'} \cap {"generate_output", "done", "regenerated"} = {}
    BY <2>1 DEF Built
  <2>3. graph' = NoGraph /\ patch' = <<>> /\ tracker' = <<>>
    BY <2>1, <2>2 DEF Recorded
  <2> QED
    BY <2>2, <2>3 DEF Recorded, NoGraph
<1> QED
  BY <1>1, <1>2, <1>3, <1>4, <1>5, <1>6, <1>7 DEF Next

LEMMA GenerationInvariant == Spec => []DrawnAndRecorded
<1>1. Init => DrawnAndRecorded
  BY InitDrawn, InitRecorded DEF DrawnAndRecorded
<1>2. DrawnAndRecorded /\ [Next]_vars => DrawnAndRecorded'
  BY NextDrawn, NextRecorded DEF DrawnAndRecorded
<1> QED
  BY <1>1, <1>2, PTL DEF Spec

\* A tracker that reads the slot data back builds the very graph the seed was
\* filled with, whatever was drawn (tracker_data.py).
THEOREM TrackerRegenerates == Spec => []RegenRestores
<1>1. DrawnAndRecorded => RegenRestores
  BY DEF DrawnAndRecorded, Recorded, RegenRestores, TrackerOfDraws, Built
<1> QED
  BY <1>1, GenerationInvariant, PTL

-----------------------------------------------------------------------------
(* The patch.                                                              *)

LEMMA ShuffledDocks ==
  ASSUME PassagesDrawn
  PROVE  /\ DOMAIN dock.elevator \subseteq ElevatorEndpoints
         /\ \A id \in DOMAIN dock.elevator :
              dock.elevator[id] \in DOMAIN dock.elevator /\ dock.elevator[dock.elevator[id]] = id
         /\ DOMAIN dock.portal \subseteq DocksOf("portal")
         /\ \A id \in DOMAIN dock.portal :
              dock.portal[id] \in DOMAIN dock.portal /\ dock.portal[dock.portal[id]] = id
<1>1. ASSUME dock.elevator \in ElevatorShuffles
      PROVE  /\ DOMAIN dock.elevator \subseteq ElevatorEndpoints
             /\ \A id \in DOMAIN dock.elevator :
                  dock.elevator[id] \in DOMAIN dock.elevator /\ dock.elevator[dock.elevator[id]] = id
  BY <1>1 DEF ElevatorShuffles
<1>2. ASSUME dock.portal \in PortalShuffles
      PROVE  /\ DOMAIN dock.portal \subseteq DocksOf("portal")
             /\ \A id \in DOMAIN dock.portal :
                  dock.portal[id] \in DOMAIN dock.portal /\ dock.portal[dock.portal[id]] = id
  BY <1>2 DEF PortalShuffles
<1>3. /\ dock.elevator = <<>> \/ dock.elevator \in ElevatorShuffles
      /\ dock.portal = <<>> \/ dock.portal \in PortalShuffles
  BY DEF PassagesDrawn
<1> QED
  BY <1>1, <1>2, <1>3, NoKeys

LEMMA ElevatorTarget ==
  ASSUME PassagesDrawn, NEW id \in DOMAIN dock.elevator
  PROVE  DockTarget(World, id) = dock.elevator[id]
<1>1. id \in ElevatorEndpoints
  BY ShuffledDocks
<1>2. Node(id).dock = "elevator"
  BY <1>1 DEF ElevatorEndpoints, DocksOf
<1> QED
  BY <1>2 DEF DockTarget, Lookup, World

LEMMA PortalTarget ==
  ASSUME PassagesDrawn, NEW id \in DOMAIN dock.portal
  PROVE  DockTarget(World, id) = dock.portal[id]
<1>1. id \in DocksOf("portal")
  BY ShuffledDocks
<1>2. Node(id).dock = "portal"
  BY <1>1 DEF DocksOf
<1> QED
  BY <1>2 DEF DockTarget, Lookup, World

LEMMA PortalNames ==
  ASSUME PassagesDrawn, stage \in PastPortals
  PROVE  options.portalRando <=>
           \A id \in DocksOf("portal") : DockWeaknessName(World, id) # "No Return Portal"
<1>1. \A id \in DocksOf("portal") :
        DockWeaknessName(World, id) = Lookup(dock.portalWeakness, id, Node(id).weakness)
  BY DEF DocksOf, DockWeaknessName, World
<1>2. CASE options.portalRando
  <2>1. dock.portalWeakness = PortalWeaknessOverrides
    <3>1. dock.portal \in PortalShuffles /\ <<>> \notin PortalShuffles
      <4>1. <<>> \notin PortalShuffles
        <5>1. DocksOf("portal") # {}
          BY PassagesAssumption DEF PortalWeaknessOverrides
        <5> QED
          BY <5>1, NoKeys DEF PortalShuffles
      <4> QED
        BY <1>2, <4>1 DEF PassagesDrawn
    <3> QED
      BY <3>1 DEF PassagesDrawn
  <2>2. ASSUME NEW id \in DocksOf("portal") PROVE DockWeaknessName(World, id) # "No Return Portal"
    BY <1>1, <2>1 DEF Lookup, PortalWeaknessOverrides
  <2> QED
    BY <1>2, <2>2
<1>3. CASE ~options.portalRando
  <2>1. dock.portalWeakness = <<>>
    <3>1. <<>> \notin PortalShuffles
      <4>1. DocksOf("portal") # {}
        BY PassagesAssumption DEF PortalWeaknessOverrides
      <4> QED
        BY <4>1, NoKeys DEF PortalShuffles
    <3> QED
      BY <1>3, <3>1 DEF PassagesDrawn
  <2>2. PICK id \in DocksOf("portal") : Node(id).weakness = "No Return Portal"
    BY PassagesAssumption DEF PortalWeaknessOverrides
  <2>3. DockWeaknessName(World, id) = "No Return Portal"
    BY <1>1, <2>1, <2>2, NoKeys DEF Lookup
  <2> QED
    BY <1>3, <2>2, <2>3
<1> QED
  BY <1>2, <1>3

\* Room names are only written where an elevator is, and no room has two.
LEMMA ElevatorNames ==
  ASSUME PassagesDrawn, NEW id \in DOMAIN dock.elevator
  PROVE  RandoConfiguration.newNames[Room(id)] = {Node(dock.elevator[id]).region}
<1>1. \A e \in DOMAIN dock.elevator : Room(e) = Room(id) => e = id
  BY ShuffledDocks, PassagesAssumption
<1>2. {e \in DOMAIN dock.elevator : Room(e) = Room(id)} = {id}
  BY <1>1
<1>3. RandoConfiguration.newNames =
        [room \in {Room(e) : e \in DOMAIN dock.elevator} |->
           {Node(dock.elevator[e]).region : e \in {x \in DOMAIN dock.elevator : Room(x) = room}}]
  BY DEF RandoConfiguration
<1>4. RandoConfiguration.newNames[Room(id)] =
        {Node(dock.elevator[e]).region : e \in {x \in DOMAIN dock.elevator : Room(x) = Room(id)}}
  BY <1>3
<1> QED
  BY <1>2, <1>4

\* What the patcher is told of the start, gates, holograms, doors, elevators,
\* portals and keys is what the region graph assumed (patch_data.py).
THEOREM PatchIsLogic == Spec => []PatchAgreesWithLogic
<1>1. ASSUME DrawnAndRecorded, patch # <<>> PROVE PatchAgreesWithLogic
  <2>1. patch = RandoConfiguration /\ stage \in PastPortals /\ PassagesDrawn /\ start \in Startable
    BY <1>1 DEF DrawnAndRecorded, Drawn, PlacesDrawn, Recorded, PastPortals, Built
  <2>2. {id \in Startable : AreaAssetIds(id) = patch.startingArea} = {start}
    <3>1. \A id \in Startable : AreaAssetIds(id) = AreaAssetIds(start) => id = start
      BY <2>1, RegionsAssumption DEF AreaAssetIds
    <3> QED
      BY <2>1, <3>1 DEF RandoConfiguration
  <2>3. \A id \in OfType("configurable_node") :
          LeaveRequirement(World, id) = TranslatorRequirement(patch.translatorGates[id])
    BY <2>1 DEF RandoConfiguration, LeaveRequirement, TranslatorGateRequirement,
                TranslatorGateModification, OfType, World
  <2>4. \A id \in OfType("hint") : Node(id).strg \in DOMAIN patch.loreColors =>
          LeaveRequirement(World, id) = TranslatorRequirement(patch.loreColors[Node(id).strg])
    BY <2>1 DEF RandoConfiguration, LeaveRequirement, OfType, World
  <2>5. ASSUME NEW id \in Doors
        PROVE  LET door == Lookup(patch.doorLocks, id,
                                  [old |-> Node(id).weakness, new |-> Node(id).weakness])
               IN  door = [old |-> Node(id).weakness, new |-> DockWeaknessName(World, id)]
    <3>1. DockWeaknessName(World, id) = Lookup(dock.doorLock, id, Node(id).weakness)
      BY DEF Doors, DocksOf, DockWeaknessName, World
    <3>2. patch.doorLocks = [d \in DOMAIN dock.doorLock |-> DoorLockModification(d)]
      BY <2>1 DEF RandoConfiguration
    <3> QED
      BY <3>1, <3>2 DEF Lookup, DoorLockModification
  <2>6. ASSUME NEW id \in DOMAIN patch.elevators
        PROVE  /\ patch.elevators[id].target = AreaAssetIds(DockTarget(World, id))
               /\ patch.newNames[Room(id)] = {Node(DockTarget(World, id)).region}
    <3>1. patch.elevators = [e \in DOMAIN dock.elevator |-> ElevatorModification(e)]
      BY <2>1 DEF RandoConfiguration
    <3>2. id \in DOMAIN dock.elevator /\ DockTarget(World, id) = dock.elevator[id]
      BY <2>1, <3>1, ElevatorTarget
    <3>3. patch.elevators[id].target = AreaAssetIds(dock.elevator[id])
      BY <3>1, <3>2 DEF ElevatorModification
    <3>4. patch.newNames[Room(id)] = {Node(dock.elevator[id]).region}
      BY <2>1, <3>2, ElevatorNames
    <3> QED
      BY <3>2, <3>3, <3>4
  <2>7. ASSUME NEW id \in DOMAIN patch.portals
        PROVE  /\ patch.portals[id].targetDock = DockTarget(World, id)
               /\ [mlvl |-> MlvlFor(Node(id).region), mrea |-> patch.portals[id].targetMrea]
                    = AreaAssetIds(DockTarget(World, id))
    <3>1. patch.portals = [p \in DOMAIN dock.portal |-> PortalModification(p)]
      BY <2>1 DEF RandoConfiguration
    <3>2. id \in DOMAIN dock.portal /\ DockTarget(World, id) = dock.portal[id]
      BY <2>1, <3>1, PortalTarget
    <3>3. patch.portals[id] = PortalModification(id)
      BY <3>1, <3>2
    <3>4. MlvlFor(Node(id).region) = MlvlFor(Node(dock.portal[id]).region)
      BY <2>1, <3>2, WithinMlvl DEF PortalsWithinMlvl
    <3> QED
      BY <3>2, <3>3, <3>4 DEF PortalModification, AreaAssetIds
  <2>8. patch.twoWayPortals <=>
          \A id \in DocksOf("portal") : DockWeaknessName(World, id) # "No Return Portal"
    <3>1. patch.twoWayPortals = options.portalRando
      BY <2>1 DEF RandoConfiguration
    <3> QED
      BY <2>1, <3>1, PortalNames, Zenon
  <2>9. \A keys \in SkyTempleKeyCountRule(World) : Cardinality(keys) = patch.keysRequired
    BY <2>1 DEF RandoConfiguration, SkyTempleKeyCountRule, World
  <2> QED
    BY <2>2, <2>3, <2>4, <2>5, <2>6, <2>7, <2>8, <2>9 DEF PatchAgreesWithLogic
<1>2. DrawnAndRecorded => PatchAgreesWithLogic
  BY <1>1 DEF PatchAgreesWithLogic
<1> QED
  BY <1>2, GenerationInvariant, PTL

-----------------------------------------------------------------------------
(* Docks.                                                                  *)

GraphOfDraws == DrawnAndRecorded /\ Generated

LEMMA DocksAreLive == OfType("dock") \subseteq LiveNodes
BY CreditsAssumption DEF OfType, LiveNodes

LEMMA GraphHasEdges ==
  ASSUME GraphOfDraws
  PROVE  /\ stage \in Built /\ graph = RegionGraph(World, start)
         /\ Edges(World) \subseteq graph.edges
<1>1. stage \in Built /\ graph = RegionGraph(World, start)
  BY DEF GraphOfDraws, DrawnAndRecorded, Recorded, Generated
<1> QED
  BY <1>1 DEF RegionGraph, Pruned

LEMMA EdgeOfDock ==
  ASSUME GraphOfDraws, NEW id \in OfType("dock"), DockTarget(World, id) \in LiveNodes,
         NEW r, r = DockRule(World, id, DockWeaknessName(World, id)), r # Impossible
  PROVE  [from |-> id, to |-> DockTarget(World, id), rule |-> r] \in graph.edges
<1> DEFINE far == DockTarget(World, id)
<1>1. far # None /\ far # CreditsEventNode
  BY OrderAssumption DEF LiveNodes
<1>2. r \in DockRules(World, id)
  BY DEF DockRules
<1>3. [from |-> id, to |-> far, rule |-> r] \in DockEdges(World, id)
  BY <1>1, <1>2 DEF DockEdges
<1>4. [from |-> id, to |-> far, rule |-> r] \in Edges(World)
  BY <1>3, DocksAreLive DEF Edges
<1> QED
  BY <1>4, GraphHasEdges

LEMMA TrivialParts ==
  /\ Compile(Trivial) = Trivial
  /\ And(Trivial, Trivial) = Trivial
  /\ \A r : And(r, Trivial) = r
BY DEF Compile, Trivial, And

\* Whoever stands before a Normal Door gets through.
LEMMA NormalDoorRule ==
  ASSUME NEW w, NEW id \in Doors
  PROVE  DockRule(w, id, NormalDoor) = Trivial
<1>1. WeaknessNamed(id, NormalDoor) = [requirement |-> Trivial, lock |-> None]
  BY DoorsAssumption DEF WeaknessNamed, Doors, DocksOf
<1>2. Overridden(id, NormalDoor, Node(id).openOverride, Trivial) = Trivial
  BY DoorsAssumption DEF Overridden
<1>3. LockRule(w, id, NormalDoor) = Trivial
  BY <1>1 DEF LockRule
<1> QED
  BY <1>1, <1>2, <1>3, TrivialParts DEF DockRule

LEMMA SaveDoorsOpen ==
  ASSUME DrawnAndRecorded
  PROVE  SaveStationDoorsOpen
<1> SUFFICES ASSUME Generated, options.doorLockRando, options.normalSaveStationDoors,
                    NEW id \in ChangeableDoors, InSaveStation(id),
                    NEW near \in {id} \cup (FarFaces(id) \cap ChangeableDoors)
             PROVE  [from |-> near, to |-> Node(near).to, rule |-> Trivial] \in graph.edges
  BY DEF SaveStationDoorsOpen
<1>1. near \in SaveStationDoorFaces /\ near \in ChangeableDoors
  BY DEF SaveStationDoorFaces
<1>2. near \in Doors /\ near \in OfType("dock") /\ Node(near).dock = "door"
  BY <1>1 DEF ChangeableDoors, Doors, DocksOf
<1>3. GraphOfDraws /\ stage \in Built
  BY GraphHasEdges DEF GraphOfDraws
<1>4. dock.doorLock[near] = NormalDoor /\ near \in DOMAIN dock.doorLock
  BY <1>1, <1>3 DEF DrawnAndRecorded, Drawn, DoorsDrawn, PastDoors, PastElevators, PastPortals
<1>5. DockWeaknessName(World, near) = NormalDoor /\ DockTarget(World, near) = Node(near).to
  BY <1>2, <1>4 DEF DockWeaknessName, DockTarget, Lookup, World
<1>6. Node(near).to \in LiveNodes
  BY <1>1, DoorsAssumption
<1>7. DockRule(World, near, DockWeaknessName(World, near)) = Trivial /\ Trivial # Impossible
  BY <1>2, <1>5, NormalDoorRule DEF Trivial, Impossible
<1> QED
  BY <1>2, <1>3, <1>5, <1>6, <1>7, EdgeOfDock

LEMMA PassableRule ==
  ASSUME NEW w, NEW id, NEW name, Passable(id, name)
  PROVE  DockRule(w, id, name) # Impossible
<1>1. LockRule(w, id, name) = Trivial
  BY DEF Passable, LockRule
<1> QED
  BY <1>1, TrivialParts DEF Passable, DockRule

LEMMA DocksReturn ==
  ASSUME DrawnAndRecorded
  PROVE  DocksGoBack
<1>1. stage # "AssertionError" /\ PassagesDrawn
  BY DEF DrawnAndRecorded, Drawn, PlacesDrawn, Stages, PastDoors, PastElevators, PastPortals, Built
<1> SUFFICES ASSUME Generated, NEW id \in DOMAIN dock.elevator \cup DOMAIN dock.portal
             PROVE  LET far == DockTarget(World, id)
                    IN  /\ DockTarget(World, far) = id
                        /\ \E e \in graph.edges : e.from = far /\ e.to = id
  BY <1>1 DEF DocksGoBack
<1> DEFINE far == DockTarget(World, id)
<1>2. GraphOfDraws /\ stage \in PastPortals
  BY GraphHasEdges DEF GraphOfDraws, PastPortals
<1>3. /\ DockTarget(World, far) = id /\ id \in LiveNodes /\ far \in OfType("dock")
      /\ Passable(far, DockWeaknessName(World, far))
  <2>1. CASE id \in DOMAIN dock.elevator
    <3>1. far \in DOMAIN dock.elevator /\ DockTarget(World, far) = id
      BY <1>1, <2>1, ElevatorTarget, ShuffledDocks
    <3>2. far \in ElevatorEndpoints /\ id \in ElevatorEndpoints
      BY <1>1, <2>1, <3>1, ShuffledDocks
    <3>3. far \in OfType("dock") /\ id \in OfType("dock") /\ Node(far).dock = "elevator"
      BY <3>2 DEF ElevatorEndpoints, DocksOf
    <3>4. DockWeaknessName(World, far) = Node(far).weakness
      BY <3>3 DEF DockWeaknessName
    <3> QED
      BY <3>1, <3>2, <3>3, <3>4, PassagesAssumption, DocksAreLive
  <2>2. CASE id \in DOMAIN dock.portal
    <3>1. far \in DOMAIN dock.portal /\ DockTarget(World, far) = id
      BY <1>1, <2>2, PortalTarget, ShuffledDocks
    <3>2. far \in DocksOf("portal") /\ id \in DocksOf("portal")
      BY <1>1, <2>2, <3>1, ShuffledDocks
    <3>3. far \in OfType("dock") /\ id \in OfType("dock") /\ Node(far).dock = "portal"
      BY <3>2 DEF DocksOf
    <3>4. dock.portalWeakness = PortalWeaknessOverrides
      BY <1>1, <2>2, NoKeys DEF PassagesDrawn
    <3>5. DockWeaknessName(World, far) = Lookup(PortalWeaknessOverrides, far, Node(far).weakness)
      BY <3>3, <3>4 DEF DockWeaknessName, World
    <3> QED
      BY <3>1, <3>2, <3>3, <3>5, PassagesAssumption, DocksAreLive
  <2> QED
    BY <2>1, <2>2
<1> DEFINE rule == DockRule(World, far, DockWeaknessName(World, far))
<1>4. rule # Impossible
  BY <1>3, PassableRule
<1>5. [from |-> far, to |-> id, rule |-> rule] \in graph.edges
  <2> HIDE DEF far
  <2> QED
    BY <1>2, <1>3, <1>4, EdgeOfDock
<1> HIDE DEF far, rule
<1>6. \E e \in graph.edges : e.from = far /\ e.to = id
  <2> DEFINE e == [from |-> far, to |-> id, rule |-> rule]
  <2>1. e.from = far /\ e.to = id
    OBVIOUS
  <2> HIDE DEF e
  <2> QED
    BY <1>5, <2>1 DEF e
<1> QED
  BY <1>3, <1>6 DEF far

\* Both faces of a door have one lock, a protected save station opens from both
\* sides, and every shuffled elevator and portal leads back (dock_rando.py).
THEOREM DocksFitTogether == Spec => []DocksAgree
<1>1. ASSUME DrawnAndRecorded PROVE FacesAgree
  BY <1>1 DEF DrawnAndRecorded, Drawn, DoorsDrawn, Paired, FacesAgree
<1>2. DrawnAndRecorded => DocksAgree
  BY <1>1, SaveDoorsOpen, DocksReturn DEF DocksAgree
<1> QED
  BY <1>2, GenerationInvariant, PTL

-----------------------------------------------------------------------------
(* What is reached is the least set of nodes that is closed under a graph. *)

Within(edges) == \A e \in edges : e.to \in Ids

IsClosed(edges, triggers, items, ns) ==
  \A e \in edges : e.from \in ns /\ Open(e, Held(triggers, items, ns)) => e.to \in ns

LEMMA IdsFinite == IsFiniteSet(Ids)
<1>1. Len(NodeOrder) \in Nat /\ NodeOrder \in [1 .. Len(NodeOrder) -> Ids]
  BY OrderAssumption
<1>2. \A id \in Ids : \E i \in 1 .. Len(NodeOrder) : NodeOrder[i] = id
  BY OrderAssumption
<1>3. NodeOrder \in Surjection(1 .. Len(NodeOrder), Ids)
  BY <1>1, <1>2 DEF Surjection
<1>4. IsFiniteSet(1 .. Len(NodeOrder))
  BY <1>1, FS_Interval
<1> QED
  BY <1>3, <1>4, FS_Surjection

LEMMA LessLeft ==
  ASSUME NEW ns \in SUBSET Ids, NEW ms \in SUBSET Ids, ns \subseteq ms, ns # ms
  PROVE  /\ Cardinality(Ids \ ms) \in Nat /\ Cardinality(Ids \ ns) \in Nat
         /\ Cardinality(Ids \ ms) < Cardinality(Ids \ ns)
<1>1. PICK x \in ms : x \notin ns
  OBVIOUS
<1> DEFINE before == Ids \ ns
           after  == Ids \ ms
<1>2. IsFiniteSet(before) /\ IsFiniteSet(after)
  BY IdsFinite, FS_Subset
<1>3. Cardinality(before) \in Nat /\ Cardinality(after) \in Nat
  BY <1>2, FS_CardinalityType
<1>4. x \in before /\ after \subseteq before \ {x}
  BY <1>1
<1> HIDE DEF before, after
<1>5. IsFiniteSet(before \ {x}) /\ Cardinality(before \ {x}) = Cardinality(before) - 1
  BY <1>2, <1>4, FS_RemoveElement
<1>6. Cardinality(after) <= Cardinality(before \ {x})
  BY <1>4, <1>5, FS_Subset
<1> QED
  BY <1>3, <1>5, <1>6 DEF before, after

LEMMA HeldGrows ==
  ASSUME NEW triggers, NEW items, NEW ns, NEW ms, ns \subseteq ms
  PROVE  Held(triggers, items, ns) \subseteq Held(triggers, items, ms)
BY DEF Held

LEMMA OpenStays ==
  ASSUME NEW e, NEW held, NEW more, held \subseteq more, Open(e, held)
  PROVE  Open(e, more)
BY DEF Open

LEMMA SpreadFacts ==
  ASSUME NEW edges, Within(edges), NEW triggers, NEW items, NEW ns \in SUBSET Ids
  PROVE  /\ Spread(edges, triggers, items, ns) \in SUBSET Ids
         /\ ns \subseteq Spread(edges, triggers, items, ns)
         /\ Spread(edges, triggers, items, ns) = ns <=> IsClosed(edges, triggers, items, ns)
         /\ \A ms \in SUBSET Ids : ns \subseteq ms /\ IsClosed(edges, triggers, items, ms) =>
              Spread(edges, triggers, items, ns) \subseteq ms
<1> DEFINE next == Spread(edges, triggers, items, ns)
           held == Held(triggers, items, ns)
<1>1. /\ \A e \in edges : e.from \in ns /\ Open(e, held) => e.to \in next
      /\ \A n \in next : n \in ns \/ \E e \in edges : e.from \in ns /\ Open(e, held) /\ e.to = n
      /\ ns \subseteq next
  BY DEF Spread
<1> HIDE DEF next
<1>2. next \in SUBSET Ids
  BY <1>1 DEF Within
<1>3. next = ns <=> IsClosed(edges, triggers, items, ns)
  BY <1>1 DEF IsClosed
<1>4. ASSUME NEW ms \in SUBSET Ids, ns \subseteq ms, IsClosed(edges, triggers, items, ms)
      PROVE  next \subseteq ms
  <2>1. ASSUME NEW e \in edges, e.from \in ns, Open(e, held) PROVE e.to \in ms
    BY <1>4, <2>1, HeldGrows, OpenStays DEF IsClosed
  <2> QED
    BY <1>1, <1>4, <2>1
<1> QED
  BY <1>1, <1>2, <1>3, <1>4 DEF next

LeastClosed(edges, triggers, items, ns) ==
  {n \in Ids : \A ms \in SUBSET Ids : ns \subseteq ms /\ IsClosed(edges, triggers, items, ms) => n \in ms}

LEMMA LeastOfSpread ==
  ASSUME NEW edges, Within(edges), NEW triggers, NEW items, NEW ns \in SUBSET Ids
  PROVE  LeastClosed(edges, triggers, items, ns) =
           IF Spread(edges, triggers, items, ns) = ns THEN ns
           ELSE LeastClosed(edges, triggers, items, Spread(edges, triggers, items, ns))
<1> DEFINE next == Spread(edges, triggers, items, ns)
           Closed(ms) == IsClosed(edges, triggers, items, ms)
<1>1. /\ next \in SUBSET Ids /\ ns \subseteq next
      /\ next = ns <=> Closed(ns)
      /\ \A ms \in SUBSET Ids : ns \subseteq ms /\ Closed(ms) => next \subseteq ms
  BY SpreadFacts
<1>2. \A s : LeastClosed(edges, triggers, items, s) =
               {n \in Ids : \A ms \in SUBSET Ids : s \subseteq ms /\ Closed(ms) => n \in ms}
  BY DEF LeastClosed
<1> HIDE DEF next, Closed
<1>3. ASSUME next = ns PROVE LeastClosed(edges, triggers, items, ns) = ns
  BY <1>1, <1>2, <1>3
<1>4. ASSUME next # ns
      PROVE  LeastClosed(edges, triggers, items, ns) = LeastClosed(edges, triggers, items, next)
  <2>1. \A ms \in SUBSET Ids : ns \subseteq ms /\ Closed(ms) <=> next \subseteq ms /\ Closed(ms)
    BY <1>1
  <2> QED
    BY <1>2, <2>1
<1> QED
  BY <1>3, <1>4 DEF next

IsReach(g, edges, triggers, items) ==
  g = [ns \in SUBSET Ids |->
         IF Spread(edges, triggers, items, ns) = ns THEN ns ELSE g[Spread(edges, triggers, items, ns)]]

\* What a graph lets a player reach is the least set that holds the start and is
\* closed under its open edges: rounds of Spread end there (dock_rando.py).
THEOREM ReachedIsLeastClosed ==
  ASSUME NEW edges, Within(edges), NEW triggers, NEW items, NEW origin \in Ids
  PROVE  Reached(edges, triggers, origin, items) = LeastClosed(edges, triggers, items, {origin})
<1> DEFINE S(ns) == Spread(edges, triggers, items, ns)
           L(ns) == LeastClosed(edges, triggers, items, ns)
           reach == CHOOSE g : IsReach(g, edges, triggers, items)
<1>1. \A ns \in SUBSET Ids : /\ S(ns) \in SUBSET Ids /\ ns \subseteq S(ns)
                             /\ L(ns) = IF S(ns) = ns THEN ns ELSE L(S(ns))
  BY SpreadFacts, LeastOfSpread
<1>2. Reached(edges, triggers, origin, items) = reach[{origin}]
  BY DEF Reached, IsReach
<1>3. \E g : IsReach(g, edges, triggers, items)
  <2> DEFINE g == [ns \in SUBSET Ids |-> L(ns)]
  <2> HIDE DEF S, L
  <2>1. \A ns \in SUBSET Ids : g[ns] = IF S(ns) = ns THEN ns ELSE g[S(ns)]
    BY <1>1
  <2>2. g = [ns \in SUBSET Ids |-> IF S(ns) = ns THEN ns ELSE g[S(ns)]]
    BY <2>1
  <2> HIDE DEF g
  <2> QED
    BY <2>2 DEF IsReach, S
<1>4. IsReach(reach, edges, triggers, items)
  BY <1>3
<1> HIDE DEF reach
<1>5. \A ns \in SUBSET Ids : reach[ns] = IF S(ns) = ns THEN ns ELSE reach[S(ns)]
  BY <1>4 DEF IsReach
<1> HIDE DEF S, L
<1> DEFINE Bad  == {ns \in SUBSET Ids : reach[ns] # L(ns)}
           Left == {Cardinality(Ids \ ns) : ns \in Bad}
<1>6. Bad = {}
  <2> SUFFICES ASSUME Bad # {} PROVE FALSE
    OBVIOUS
  <2>1. Left \in SUBSET Nat /\ Left # {}
    <3>1. \A ns \in SUBSET Ids : Cardinality(Ids \ ns) \in Nat
      BY IdsFinite, FS_Subset, FS_CardinalityType
    <3> QED
      BY <3>1
  <2>2. PICK m \in Left : \A k \in Left : m <= k
    <3> HIDE DEF Left
    <3> QED
      BY <2>1, LeastNumber
  <2>3. PICK ns \in Bad : Cardinality(Ids \ ns) = m
    BY <2>2
  <2>4. S(ns) # ns /\ S(ns) \in SUBSET Ids /\ ns \subseteq S(ns) /\ ns \in SUBSET Ids
    BY <1>1, <1>5, <2>3
  <2>5. Cardinality(Ids \ S(ns)) < m /\ m \in Nat /\ Cardinality(Ids \ S(ns)) \in Nat
    BY <2>3, <2>4, LessLeft
  <2>6. S(ns) \notin Bad
    <3>1. S(ns) \in Bad => m <= Cardinality(Ids \ S(ns))
      BY <2>2
    <3> QED
      BY <2>5, <3>1
  <2>7. reach[S(ns)] = L(S(ns))
    BY <2>4, <2>6
  <2> QED
    BY <1>1, <1>5, <2>3, <2>4, <2>7
<1>7. reach[{origin}] = L({origin})
  BY <1>6
<1> QED
  BY <1>2, <1>7 DEF L

\* The shape in which the proofs below use it.
LEMMA ReachedFacts ==
  ASSUME NEW edges, Within(edges), NEW triggers, NEW items, NEW origin \in Ids,
         NEW r, r = Reached(edges, triggers, origin, items)
  PROVE  /\ r \in SUBSET Ids /\ origin \in r
         /\ IsClosed(edges, triggers, items, r)
         /\ \A ms \in SUBSET Ids : origin \in ms /\ IsClosed(edges, triggers, items, ms) => r \subseteq ms
<1> DEFINE Closed(ms) == IsClosed(edges, triggers, items, ms)
<1>1. r = {n \in Ids : \A ms \in SUBSET Ids : {origin} \subseteq ms /\ Closed(ms) => n \in ms}
  BY ReachedIsLeastClosed DEF LeastClosed
<1>2. Closed(r)
  <2> SUFFICES ASSUME NEW e \in edges, e.from \in r, Open(e, Held(triggers, items, r)) PROVE e.to \in r
    BY DEF IsClosed
  <2>1. ASSUME NEW ms \in SUBSET Ids, {origin} \subseteq ms, Closed(ms) PROVE e.to \in ms
    <3>1. r \subseteq ms
      BY <1>1, <2>1
    <3> QED
      BY <2>1, <3>1, HeldGrows, OpenStays DEF IsClosed
  <2> HIDE DEF Closed
  <2> QED
    BY <1>1, <2>1 DEF Within
<1> HIDE DEF Closed
<1> QED
  BY <1>1, <1>2 DEF Closed

-----------------------------------------------------------------------------
(* What a rule may ask for: names of the database, a translator color, and *)
(* of a dock's rule the dock itself, whose lock may be found broken.       *)

Names == Mentioned \cup TranslatorColors

MentionsOnly(req, names) == \A c \in req : c \subseteq names

LEMMA MentionsKept ==
  ASSUME NEW names, NEW r, MentionsOnly(r, names), NEW s, MentionsOnly(s, names)
  PROVE  /\ MentionsOnly(Compile(r), names)
         /\ MentionsOnly(And(r, s), names)
         /\ MentionsOnly(StripSkyTempleKeyItems(r), names)
         /\ MentionsOnly(ReplaceCacheDarkVisor(r, s), names)
         /\ MentionsOnly(r \cup s, names)
<1>1. MentionsOnly(Compile(r), names)
  BY DEF MentionsOnly, Compile
<1>2. ASSUME NEW a, MentionsOnly(a, names), NEW b, MentionsOnly(b, names)
      PROVE  MentionsOnly(And(a, b), names)
  BY <1>2 DEF MentionsOnly, And
<1>3. MentionsOnly(StripSkyTempleKeyItems(r), names)
  BY DEF MentionsOnly, StripSkyTempleKeyItems
<1>4. MentionsOnly({c \ {"DarkVisor"} : c \in r}, names)
  BY DEF MentionsOnly
<1>5. MentionsOnly(r \cup s, names)
  BY DEF MentionsOnly
<1> QED
  BY <1>1, <1>2, <1>3, <1>4, <1>5 DEF ReplaceCacheDarkVisor

LEMMA MentionsMore ==
  ASSUME NEW names, NEW more, names \subseteq more, NEW r, MentionsOnly(r, names)
  PROVE  MentionsOnly(r, more)
BY DEF MentionsOnly

LEMMA KnownRequirements ==
  /\ \A id \in Ids : \A t \in Targets(id) : Node(id).connections[t] \in DatabaseRequirements
  /\ \A id \in OfType("hint") : Node(id).collect \in DatabaseRequirements
  /\ \A id \in OfType("dock") : Node(id).openOverride # None => Node(id).openOverride \in DatabaseRequirements
  /\ \A id \in OfType("dock") : Node(id).lockOverride # None => Node(id).lockOverride \in DatabaseRequirements
  /\ \A k \in DOMAIN Weaknesses : Weaknesses[k].requirement \in DatabaseRequirements
  /\ \A k \in DOMAIN Weaknesses : Weaknesses[k].lock # None => Weaknesses[k].lock \in DatabaseRequirements
  /\ \A t \in DOMAIN CacheReplacements : CacheReplacements[t] \in DatabaseRequirements
<1>1. \A id \in Ids : \A t \in Targets(id) : Node(id).connections[t] \in ConnectionRequirements
  BY DEF ConnectionRequirements
<1>2. \A id \in OfType("hint") : Node(id).collect \in CollectRequirements
  BY DEF CollectRequirements
<1>3. \A id \in OfType("dock") : Node(id).openOverride # None => Node(id).openOverride \in OpenRequirements
  BY DEF OpenRequirements
<1>4. \A id \in OfType("dock") : Node(id).lockOverride # None => Node(id).lockOverride \in LockRequirements
  BY DEF LockRequirements
<1>5. \A k \in DOMAIN Weaknesses : Weaknesses[k].requirement \in OpenRequirements
  BY DEF OpenRequirements
<1>6. \A k \in DOMAIN Weaknesses : Weaknesses[k].lock # None => Weaknesses[k].lock \in LockRequirements
  BY DEF LockRequirements
<1>7. \A t \in DOMAIN CacheReplacements : CacheReplacements[t] \in CacheRequirements
  BY DEF CacheRequirements
<1>8. /\ ConnectionRequirements \subseteq DatabaseRequirements /\ CollectRequirements \subseteq DatabaseRequirements
      /\ OpenRequirements \subseteq DatabaseRequirements /\ LockRequirements \subseteq DatabaseRequirements
      /\ CacheRequirements \subseteq DatabaseRequirements
  BY DEF DatabaseRequirements
<1> QED
  BY <1>1, <1>2, <1>3, <1>4, <1>5, <1>6, <1>7, <1>8

LEMMA NamesOfDatabase ==
  /\ \A req \in DatabaseRequirements : MentionsOnly(req, Names)
  /\ SkyTempleKeys \cup {"Scan"} \subseteq Names
  /\ \A id \in DOMAIN VanillaGates : VanillaGates[id] = Unlocked \/ VanillaGates[id] \in Names
<1> DEFINE asked == UNION {UNION req : req \in DatabaseRequirements}
           colors == {VanillaGates[id] : id \in DOMAIN VanillaGates} \ {Unlocked}
<1>1. Mentioned = asked \cup colors \cup SkyTempleKeys \cup {"Scan"}
  BY DEF Mentioned
<1>2. \A req \in DatabaseRequirements : \A c \in req : c \subseteq asked
  OBVIOUS
<1>3. \A id \in DOMAIN VanillaGates : VanillaGates[id] = Unlocked \/ VanillaGates[id] \in colors
  OBVIOUS
<1> HIDE DEF asked, colors
<1> QED
  BY <1>1, <1>2, <1>3 DEF MentionsOnly, Names

LEMMA NamesOfConnection ==
  ASSUME NEW id \in Ids, NEW target \in Targets(id)
  PROVE  MentionsOnly(Node(id).connections[target], Names)
<1>1. Node(id).connections[target] \in DatabaseRequirements
  BY KnownRequirements
<1> QED
  BY <1>1, NamesOfDatabase

LEMMA NamesOfLeaving ==
  ASSUME PlacesDrawn, NEW id \in Ids
  PROVE  MentionsOnly(LeaveRequirement(World, id), Names)
<1>1. ASSUME NEW color, color \in Names \cup {Unlocked}
      PROVE  MentionsOnly(TranslatorRequirement(color), Names)
  BY <1>1, NamesOfDatabase DEF TranslatorRequirement, MentionsOnly
<1>2. CASE Node(id).type = "configurable_node"
  <2>1. id \in DOMAIN VanillaGates
    BY <1>2, GatesAssumption DEF OfType
  <2>2. Lookup(gates, id, VanillaGates[id]) \in Names \cup {Unlocked}
    BY <2>1, NamesOfDatabase DEF PlacesDrawn, Lookup, Names
  <2> QED
    BY <1>1, <1>2, <2>2 DEF LeaveRequirement, TranslatorGateRequirement, World
<1>3. CASE Node(id).type = "hint"
  <2>1. Node(id).collect \in DatabaseRequirements
    BY <1>3, KnownRequirements DEF OfType
  <2>2. MentionsOnly(Node(id).collect, Names)
    BY <2>1, NamesOfDatabase
  <2>3. Node(id).strg \in DOMAIN lore => lore[Node(id).strg] \in Names
    BY DEF PlacesDrawn, Names
  <2> QED
    BY <1>1, <1>3, <2>2, <2>3 DEF LeaveRequirement, World
<1>4. CASE Node(id).type \notin {"configurable_node", "hint"}
  BY <1>4 DEF LeaveRequirement, Trivial, MentionsOnly
<1> QED
  BY <1>2, <1>3, <1>4

LEMMA NamesOfIntraAreaRule ==
  ASSUME PlacesDrawn, NEW id \in Ids, NEW target \in Targets(id)
  PROVE  MentionsOnly(IntraAreaRule(World, id, target), Names)
<1>1. MentionsOnly(Trivial, Names)
  BY DEF Trivial, MentionsOnly
<1>2. MentionsOnly(ExtraRule(World, id, target), Names)
  BY <1>1, NamesOfDatabase DEF ExtraRule, SkyTempleKeyCountRule, MentionsOnly
<1>3. MentionsOnly(RequirementTo(World, id, target), Names)
  <2> DEFINE asked == Node(id).connections[target]
             kept  == IF AtKeyGate(id, target) THEN StripSkyTempleKeyItems(asked) ELSE asked
  <2>1. MentionsOnly(asked, Names)
    BY NamesOfConnection
  <2>2. MentionsOnly(kept, Names)
    BY <2>1, MentionsKept
  <2>3. ASSUME target \in DOMAIN CacheReplacements
        PROVE  MentionsOnly(CacheReplacements[target], Names)
    <3>1. CacheReplacements[target] \in DatabaseRequirements
      BY <2>3, KnownRequirements
    <3> QED
      BY <3>1, NamesOfDatabase
  <2>4. RequirementTo(World, id, target) =
          IF target \in DOMAIN CacheReplacements /\ World.options.cachesWithoutDarkVisor
          THEN ReplaceCacheDarkVisor(kept, CacheReplacements[target]) ELSE kept
    BY DEF RequirementTo
  <2> HIDE DEF asked, kept
  <2>5. ASSUME target \in DOMAIN CacheReplacements
        PROVE  MentionsOnly(ReplaceCacheDarkVisor(kept, CacheReplacements[target]), Names)
    BY <2>2, <2>3, <2>5, MentionsKept
  <2> QED
    BY <2>2, <2>4, <2>5
<1>4. MentionsOnly(Compile(LeaveRequirement(World, id)), Names)
  BY <1>1, NamesOfLeaving, MentionsKept
<1>5. MentionsOnly(Compile(RequirementTo(World, id, target)), Names)
  BY <1>1, <1>3, MentionsKept
<1>6. MentionsOnly(And(Compile(RequirementTo(World, id, target)), Compile(LeaveRequirement(World, id))), Names)
  BY <1>4, <1>5, MentionsKept
<1> QED
  BY <1>2, <1>6, MentionsKept DEF IntraAreaRule

\* A dock has a weakness of its own kind, drawn or not.
LEMMA WeaknessIsKnown ==
  ASSUME DoorsDrawn, PassagesDrawn, NEW id \in OfType("dock")
  PROVE  <<Node(id).dock, DockWeaknessName(World, id)>> \in DOMAIN Weaknesses
<1>1. <<Node(id).dock, Node(id).weakness>> \in DOMAIN Weaknesses
  BY ConnectionsAssumption DEF OfType
<1>2. CASE Node(id).dock = "door"
  <2>1. id \in DOMAIN dock.doorLock => <<"door", dock.doorLock[id]>> \in DOMAIN Weaknesses
    BY DoorsAssumption DEF DoorsDrawn, Paired
  <2> QED
    BY <1>1, <1>2, <2>1 DEF DockWeaknessName, Lookup, World
<1>3. CASE Node(id).dock = "portal"
  <2>1. id \in DOMAIN dock.portalWeakness => <<"portal", dock.portalWeakness[id]>> \in DOMAIN Weaknesses
    <3>1. \A p \in DOMAIN PortalWeaknessOverrides :
            PortalWeaknessOverrides[p] \in {"Dark Portal", "Light Portal"}
      BY DEF PortalWeaknessOverrides
    <3>2. dock.portalWeakness = <<>> \/ dock.portalWeakness = PortalWeaknessOverrides
      BY DEF PassagesDrawn
    <3> QED
      BY <3>1, <3>2, NoKeys, PassagesAssumption
  <2> QED
    BY <1>1, <1>3, <2>1 DEF DockWeaknessName, Lookup, World
<1>4. CASE Node(id).dock \notin {"door", "portal"}
  BY <1>1, <1>4 DEF DockWeaknessName
<1> QED
  BY <1>2, <1>3, <1>4

LEMMA NamesOfDockRule ==
  ASSUME DoorsDrawn, PassagesDrawn, NEW id \in OfType("dock"),
         NEW name, name = DockWeaknessName(World, id)
  PROVE  MentionsOnly(DockRule(World, id, name), Names \cup {id})
<1> DEFINE weakness == WeaknessNamed(id, name)
           open     == Overridden(id, name, Node(id).openOverride, weakness.requirement)
           lock     == Overridden(id, name, Node(id).lockOverride, weakness.lock)
<1>1. <<Node(id).dock, name>> \in DOMAIN Weaknesses
  BY WeaknessIsKnown
<1>2. MentionsOnly(open, Names)
  <2>1. weakness.requirement \in DatabaseRequirements
    BY <1>1, KnownRequirements DEF WeaknessNamed
  <2>2. Node(id).openOverride # None => Node(id).openOverride \in DatabaseRequirements
    BY KnownRequirements
  <2>3. open \in DatabaseRequirements
    BY <2>1, <2>2 DEF Overridden
  <2> QED
    BY <2>3, NamesOfDatabase
<1>3. weakness.lock # None => MentionsOnly(lock, Names)
  <2>1. weakness.lock # None => weakness.lock \in DatabaseRequirements
    BY <1>1, KnownRequirements DEF WeaknessNamed
  <2>2. Node(id).lockOverride # None => Node(id).lockOverride \in DatabaseRequirements
    BY KnownRequirements
  <2>3. weakness.lock # None => lock \in DatabaseRequirements
    BY <2>1, <2>2 DEF Overridden
  <2> QED
    BY <2>3, NamesOfDatabase
<1>4. LockRule(World, id, name) =
        IF weakness.lock = None THEN Trivial
        ELSE Compile(lock) \cup (IF LockBreaksBehind(World, id) THEN {{id}} ELSE {})
  BY DEF LockRule
<1>5. DockRule(World, id, name) = And(Compile(open), LockRule(World, id, name))
  BY DEF DockRule
<1> HIDE DEF weakness, open, lock
<1> DEFINE more == Names \cup {id}
<1>6. /\ MentionsOnly(Trivial, Names) /\ MentionsOnly(Trivial, more)
      /\ MentionsOnly({{id}}, more) /\ MentionsOnly({}, more)
  BY DEF Trivial, MentionsOnly
<1>7. Names \subseteq more
  OBVIOUS
<1> HIDE DEF more
<1>8. MentionsOnly(Compile(open), more)
  BY <1>2, <1>6, <1>7, MentionsKept, MentionsMore
<1>9. MentionsOnly(LockRule(World, id, name), more)
  <2>1. ASSUME weakness.lock # None PROVE MentionsOnly(Compile(lock), more)
    BY <1>3, <1>6, <1>7, <2>1, MentionsKept, MentionsMore
  <2>2. ASSUME weakness.lock # None
        PROVE  /\ MentionsOnly(Compile(lock) \cup {{id}}, more)
               /\ MentionsOnly(Compile(lock) \cup {}, more)
    BY <1>6, <2>1, <2>2, MentionsKept
  <2> QED
    BY <1>4, <1>6, <2>2
<1> QED
  BY <1>5, <1>8, <1>9, MentionsKept DEF more

-----------------------------------------------------------------------------
(* create_regions against the probe: two graphs, one reach.                *)

IsIntraAreaEdge(e) ==
  \E t \in Targets(e.from) : e.to = t /\ e.rule = IntraAreaRule(World, e.from, t)

IsDockEdge(e) ==
  /\ e.from \in OfType("dock") /\ e \in DockEdges(World, e.from)
  /\ e.to = DockTarget(World, e.from) /\ e.to # None
  /\ e.rule = DockRule(World, e.from, DockWeaknessName(World, e.from))

LEMMA EdgeKinds ==
  ASSUME NEW e \in Edges(World)
  PROVE  e.from \in LiveNodes /\ (IsIntraAreaEdge(e) \/ IsDockEdge(e))
<1>1. PICK id \in LiveNodes : e \in IntraAreaEdges(World, id) \cup DockEdges(World, id)
  BY DEF Edges
<1>2. CASE e \in IntraAreaEdges(World, id)
  <2>1. PICK t \in Targets(id) :
          e \in {[from |-> id, to |-> t, rule |-> r] : r \in {IntraAreaRule(World, id, t)} \ {Impossible}}
    BY <1>2 DEF IntraAreaEdges
  <2>2. e.from = id /\ e.to = t /\ e.rule = IntraAreaRule(World, id, t)
    BY <2>1
  <2> QED
    BY <2>2 DEF IsIntraAreaEdge
<1>3. CASE e \in DockEdges(World, id)
  <2>1. id \in OfType("dock")
    BY <1>3 DEF DockEdges
  <2>2. \E t \in {DockTarget(World, id)} \ {None, CreditsEventNode} : \E r \in DockRules(World, id) :
          e = [from |-> id, to |-> t, rule |-> r]
    BY <1>3, <2>1 DEF DockEdges
  <2>3. e.from = id /\ e.to = DockTarget(World, id) /\ e.to # None /\ e.rule \in DockRules(World, id)
    BY <2>2
  <2> QED
    BY <1>3, <2>1, <2>3 DEF IsDockEdge, DockRules
<1> QED
  BY <1>1, <1>2, <1>3

LEMMA DockTargetKnown ==
  ASSUME PassagesDrawn, NEW id \in OfType("dock")
  PROVE  DockTarget(World, id) \in Ids \cup {None}
<1>1. Node(id).to \in Ids \cup {None}
  BY ConnectionsAssumption DEF OfType
<1>2. /\ \A k \in DOMAIN dock.elevator : dock.elevator[k] \in Ids
      /\ \A k \in DOMAIN dock.portal : dock.portal[k] \in Ids
  BY ShuffledDocks DEF ElevatorEndpoints, DocksOf, OfType
<1> QED
  BY <1>1, <1>2 DEF DockTarget, Lookup, World

LEMMA EdgesWithin ==
  ASSUME PlacesDrawn, PassagesDrawn
  PROVE  Within(Edges(World)) /\ Within(Edges(World) \cup WarpEdges(World, start))
<1>1. ASSUME NEW e \in Edges(World) PROVE e.to \in Ids
  <2>1. CASE IsIntraAreaEdge(e)
    BY <2>1, EdgeKinds, ConnectionsAssumption DEF IsIntraAreaEdge, LiveNodes
  <2>2. CASE IsDockEdge(e)
    BY <2>2, DockTargetKnown DEF IsDockEdge
  <2> QED
    BY <2>1, <2>2, EdgeKinds
<1>2. \A e \in WarpEdges(World, start) : e.to \in Ids
  BY DEF WarpEdges, PlacesDrawn, Startable
<1> QED
  BY <1>1, <1>2 DEF Within

Lasting == {<<s, s>> : s \in SaveStations}

\* A rule can only ask for what the database names, but for the dock of its own
\* edge; a flag that stands for a reached save station it never asks for.
LEMMA RuleNames ==
  ASSUME Drawn, NEW e \in Edges(World), NEW c \in e.rule, NEW x \in c
  PROVE  x \notin SaveStations /\ (x \in OfType("dock") => IsDockEdge(e) /\ x = e.from)
<1>1. \A n \in OfType("dock") \cup SaveStations : n \notin Names
  BY NamesAssumption DEF Names
<1>2. \A s \in SaveStations : s \notin OfType("dock")
  BY DEF SaveStations, OfType
<1>3. CASE IsIntraAreaEdge(e)
  <2>1. x \in Names
    BY <1>3, EdgeKinds, NamesOfIntraAreaRule DEF Drawn, IsIntraAreaEdge, LiveNodes, MentionsOnly
  <2> QED
    BY <1>1, <2>1
<1>4. CASE IsDockEdge(e)
  <2>1. MentionsOnly(e.rule, Names \cup {e.from}) /\ e.from \in OfType("dock")
    BY <1>4, NamesOfDockRule DEF Drawn, IsDockEdge
  <2>2. x \in Names \cup {e.from}
    BY <2>1 DEF MentionsOnly
  <2> QED
    BY <1>1, <1>2, <1>4, <2>1, <2>2
<1> QED
  BY <1>3, <1>4, EdgeKinds

LEMMA LockFlags ==
  /\ LockBrokenTriggers(World) \subseteq LockEvents(World)
  /\ \A e \in Edges(World) : \A t \in LockEvents(World) :
       IsDockEdge(e) /\ t[2] = e.from => t \in LockBrokenTriggers(World)
<1>1. ASSUME NEW id \in LiveNodes, NEW e \in DockEdges(World, id) PROVE e.to = DockTarget(World, id)
  BY DEF DockEdges
<1>2. ASSUME NEW t \in LockBrokenTriggers(World) PROVE t \in LockEvents(World)
  <2>1. PICK id \in {d \in LiveNodes : LockBreaksBehind(World, d)} :
          t \in {<<e.to, id>> : e \in DockEdges(World, id)}
    BY DEF LockBrokenTriggers
  <2>2. t = <<DockTarget(World, id), id>>
    BY <1>1, <2>1
  <2> QED
    BY <2>2 DEF LockEvents
<1>3. ASSUME NEW e \in Edges(World), NEW t \in LockEvents(World), IsDockEdge(e), t[2] = e.from
      PROVE  t \in LockBrokenTriggers(World)
  <2>1. PICK id \in {d \in LiveNodes : LockBreaksBehind(World, d)} : t = <<DockTarget(World, id), id>>
    BY DEF LockEvents
  <2>2. e \in DockEdges(World, id) /\ t = <<e.to, id>>
    BY <1>3, <2>1 DEF IsDockEdge
  <2>3. t \in {<<d.to, id>> : d \in DockEdges(World, id)}
    BY <2>2
  <2> QED
    BY <2>3 DEF LockBrokenTriggers
<1> QED
  BY <1>2, <1>3

\* An edge of the rules is open with what the nodes ns hold in the region graph,
\* if and only if it is open with what they hold in the probe.
LEMMA OpenInBoth ==
  ASSUME Drawn, NEW alive, NEW ns, ns \subseteq alive, NEW items, NEW e \in Edges(World),
         NEW probe, probe = EventTriggers \cup LockBrokenTriggers(World),
         NEW kept, kept \subseteq EventTriggers \cup LockEvents(World) \cup Lasting,
         {t \in probe : t[1] \in alive} \subseteq kept
  PROVE  Open(e, Held(kept, items, ns)) <=> Open(e, Held(probe, items, ns))
<1>1. Held(probe, items, ns) \subseteq Held(kept, items, ns)
  BY DEF Held
<1>2. ASSUME NEW c \in e.rule, c \subseteq Held(kept, items, ns) PROVE c \subseteq Held(probe, items, ns)
  <2> SUFFICES ASSUME NEW x \in c, x \notin items PROVE \E t \in probe : t[1] \in ns /\ t[2] = x
    BY DEF Held
  <2>1. PICK t \in kept : t[1] \in ns /\ t[2] = x
    BY <1>2 DEF Held
  <2>2. CASE t \in EventTriggers
    BY <2>1, <2>2
  <2>3. CASE t \in LockEvents(World)
    <3>1. t[2] \in OfType("dock")
      BY <2>3 DEF LockEvents, LockBreaksBehind
    <3>2. IsDockEdge(e) /\ t[2] = e.from
      BY <2>1, <3>1, RuleNames
    <3>3. t \in probe
      BY <2>3, <3>2, LockFlags
    <3> QED
      BY <2>1, <3>3
  <2>4. t \notin Lasting
    BY <2>1, RuleNames DEF Lasting
  <2> QED
    BY <2>1, <2>2, <2>3, <2>4
<1> QED
  BY <1>1, <1>2, OpenStays DEF Open

LEMMA ClosedIgnoringRules ==
  ASSUME NEW edges, NEW triggers, NEW items, NEW ns,
         IsClosed({[e EXCEPT !.rule = Trivial] : e \in edges}, {}, {}, ns),
         \A e \in edges : e = [from |-> e.from, to |-> e.to, rule |-> e.rule]
  PROVE  IsClosed(edges, triggers, items, ns)
<1> SUFFICES ASSUME NEW e \in edges, e.from \in ns PROVE e.to \in ns
  BY DEF IsClosed
<1> DEFINE plain == [e EXCEPT !.rule = Trivial]
<1>1. plain.from = e.from /\ plain.to = e.to /\ plain.rule = Trivial
  OBVIOUS
<1>2. plain \in {[d EXCEPT !.rule = Trivial] : d \in edges}
  OBVIOUS
<1> HIDE DEF plain
<1>3. Open(plain, Held({}, {}, ns))
  BY <1>1 DEF Open, Trivial
<1> QED
  BY <1>1, <1>2, <1>3 DEF IsClosed

LEMMA EdgesAreRecords ==
  \A e \in Edges(World) \cup WarpEdges(World, start) : e = [from |-> e.from, to |-> e.to, rule |-> e.rule]
<1>1. \A e \in WarpEdges(World, start) : e = [from |-> e.from, to |-> e.to, rule |-> e.rule]
  BY DEF WarpEdges
<1>2. ASSUME NEW id \in LiveNodes, NEW e \in IntraAreaEdges(World, id) \cup DockEdges(World, id)
      PROVE  e = [from |-> e.from, to |-> e.to, rule |-> e.rule]
  BY DEF IntraAreaEdges, DockEdges
<1> QED
  BY <1>1, <1>2 DEF Edges

\* Edges that lead back to the start change nothing once it is reached.
LEMMA SameReach ==
  ASSUME GraphOfDraws, NEW items
  PROVE  Reaches(items) = ProbeReached(ProbeGraph(World), start, items)
<1> DEFINE rules == Edges(World)
           all   == rules \cup WarpEdges(World, start)
           probe == EventTriggers \cup LockBrokenTriggers(World)
           alive == Alive(all, start)
           kept  == {t \in EventTriggers \cup LockEvents(World) : t[1] \in alive} \cup Lasting
           real  == Reached(all, kept, start, items)
           shown == Reached(rules, probe, start, items)
           plain == {[e EXCEPT !.rule = Trivial] : e \in all}
<1>1. Drawn /\ start \in Ids /\ Within(rules) /\ Within(all)
  BY EdgesWithin DEF GraphOfDraws, DrawnAndRecorded, Drawn, PlacesDrawn, Startable
<1>2. Reaches(items) = real /\ ProbeReached(ProbeGraph(World), start, items) = shown
  <2>1. graph = Pruned(all, EventTriggers \cup LockEvents(World), start)
    BY GraphHasEdges DEF RegionGraph
  <2>2. graph.edges = all /\ graph.triggers = kept
    BY <2>1 DEF Pruned, Lasting
  <2>3. Reaches(items) = real
    BY <2>2 DEF Reaches, InLogic
  <2>4. ProbeGraph(World).edges = rules /\ ProbeGraph(World).triggers = probe
    BY DEF ProbeGraph
  <2> QED
    BY <2>3, <2>4 DEF ProbeReached
<1>3. /\ kept \subseteq EventTriggers \cup LockEvents(World) \cup Lasting
      /\ {t \in probe : t[1] \in alive} \subseteq kept
  BY LockFlags
<1>4. rules \subseteq all /\ \A e \in all : e \in rules \/ e.to = start
  BY DEF WarpEdges
<1>5. Within(plain)
  <2> HIDE DEF rules, all
  <2> QED
    BY <1>1, EdgesAreRecords DEF Within, all, rules
<1>6. alive = Reached(plain, {}, start, {})
  BY DEF Alive
<1>7. \A e \in all : e = [from |-> e.from, to |-> e.to, rule |-> e.rule]
  BY EdgesAreRecords
<1> HIDE DEF rules, all, probe, alive, kept, real, shown
<1>8. alive \in SUBSET Ids /\ start \in alive /\ IsClosed(all, kept, items, alive)
  <2>1. alive \in SUBSET Ids /\ start \in alive /\ IsClosed(plain, {}, {}, alive)
    <3> HIDE DEF plain
    <3> QED
      BY <1>1, <1>5, <1>6, ReachedFacts
  <2> QED
    BY <1>7, <2>1, ClosedIgnoringRules
<1> HIDE DEF plain
<1>9. /\ real \in SUBSET Ids /\ start \in real /\ IsClosed(all, kept, items, real)
      /\ \A ms \in SUBSET Ids : start \in ms /\ IsClosed(all, kept, items, ms) => real \subseteq ms
  BY <1>1, ReachedFacts DEF real
<1>10. /\ shown \in SUBSET Ids /\ start \in shown /\ IsClosed(rules, probe, items, shown)
       /\ \A ms \in SUBSET Ids : start \in ms /\ IsClosed(rules, probe, items, ms) => shown \subseteq ms
  BY <1>1, ReachedFacts DEF shown
<1>11. real \subseteq alive
  BY <1>8, <1>9
<1>12. IsClosed(rules, probe, items, real)
  <2> SUFFICES ASSUME NEW e \in rules, e.from \in real, Open(e, Held(probe, items, real))
               PROVE  e.to \in real
    BY DEF IsClosed
  <2>1. Open(e, Held(kept, items, real))
    BY <1>1, <1>3, <1>11, OpenInBoth DEF rules, probe
  <2> QED
    BY <1>4, <1>9, <2>1 DEF IsClosed
<1>13. shown \subseteq real
  BY <1>9, <1>10, <1>12
<1>14. IsClosed(all, kept, items, shown)
  <2> SUFFICES ASSUME NEW e \in all, e.from \in shown, Open(e, Held(kept, items, shown))
               PROVE  e.to \in shown
    BY DEF IsClosed
  <2>1. CASE e \in rules
    <3>1. shown \subseteq alive
      BY <1>11, <1>13
    <3>2. Open(e, Held(probe, items, shown))
      BY <1>1, <1>3, <2>1, <3>1, OpenInBoth DEF rules, probe
    <3> QED
      BY <1>10, <2>1, <3>2 DEF IsClosed
  <2> QED
    BY <1>4, <1>10, <2>1
<1>15. real \subseteq shown
  BY <1>9, <1>10, <1>14
<1> QED
  BY <1>2, <1>13, <1>15

\* create_regions prunes events, moves "Lock Broken" locations and adds warps to
\* the start, and still lets a player reach exactly what the probe of
\* dock_rando.py judged the draws by, with any items.
THEOREM ProbeIsLogic == Spec => []LogicMatchesProbe
<1>1. DrawnAndRecorded => LogicMatchesProbe
  BY SameReach DEF LogicMatchesProbe, GraphOfDraws
<1> QED
  BY <1>1, GenerationInvariant, PTL

\* With a randomized dock pool and the vanilla start, the region graph itself
\* opens a pickup to the starting items and every pickup to all items: the pool
\* accepted last was probed with the others, so no later pool undid an earlier one.
THEOREM AcceptedWorlds == Spec => []AcceptedWorldIsPlayable
<1>1. ASSUME GraphOfDraws, SomeDockRando, start = DbStartingLocation
      PROVE  /\ Cardinality(Reaches(DefaultStartingItems) \cap Pickups) >= MinSphereZeroPickups
             /\ Pickups \subseteq Reaches(AllItems)
  <2>1. stage \in PastPortals /\ stage \in PastElevators /\ stage \in PastDoors
    BY <1>1, GraphHasEdges DEF PastPortals, PastElevators, PastDoors
  <2>2. MeetsProgressionBar(World)
    BY <1>1, <2>1 DEF GraphOfDraws, DrawnAndRecorded, Drawn, Probed, SomeDockRando
  <2>3. /\ Cardinality(ProbeReached(ProbeGraph(World), start, DefaultStartingItems) \cap Pickups)
             >= MinSphereZeroPickups
        /\ Pickups \subseteq ProbeReached(ProbeGraph(World), start, AllItems)
    BY <1>1, <2>2 DEF MeetsProgressionBar
  <2> QED
    BY <1>1, <2>3, SameReach
<1>2. DrawnAndRecorded => AcceptedWorldIsPlayable
  BY <1>1 DEF AcceptedWorldIsPlayable, GraphOfDraws
<1> QED
  BY <1>2, GenerationInvariant, PTL

-----------------------------------------------------------------------------
(* Vanilla docks: nothing is probed, and the gates leave a way out.        *)

LEMMA ReachedGrows ==
  ASSUME NEW few, NEW edges, few \subseteq edges, Within(edges), NEW origin \in Ids,
         NEW less, NEW triggers, less \subseteq triggers, NEW items
  PROVE  Reached(few, less, origin, items) \subseteq Reached(edges, triggers, origin, items)
<1> DEFINE r == Reached(edges, triggers, origin, items)
           small == Reached(few, less, origin, items)
<1>1. r \in SUBSET Ids /\ origin \in r /\ IsClosed(edges, triggers, items, r)
  BY ReachedFacts
<1>2. Within(few)
  BY DEF Within
<1>3. \A ms \in SUBSET Ids : origin \in ms /\ IsClosed(few, less, items, ms) => small \subseteq ms
  BY <1>2, ReachedFacts
<1> HIDE DEF r, small
<1>4. Held(less, items, r) \subseteq Held(triggers, items, r)
  BY DEF Held
<1>5. IsClosed(few, less, items, r)
  BY <1>1, <1>4, OpenStays DEF IsClosed
<1> QED
  BY <1>1, <1>3, <1>5 DEF r, small

VanillaWorld == [options |-> options, gates |-> <<>>, lore |-> <<>>, dock |-> VanillaDocks]

LEMMA VanillaDocksKept ==
  ASSUME Drawn, ~SomeDockRando
  PROVE  dock = VanillaDocks
<1>1. dock.doorLock = <<>> /\ dock.elevator = <<>> /\ dock.portal = <<>>
  BY DEF Drawn, DoorsDrawn, PassagesDrawn, SomeDockRando
<1>2. <<>> \notin PortalShuffles
  <2>1. DocksOf("portal") # {}
    BY PassagesAssumption DEF PortalWeaknessOverrides
  <2> QED
    BY <2>1, NoKeys DEF PortalShuffles
<1>3. dock.portalWeakness = <<>>
  BY <1>1, <1>2 DEF Drawn, PassagesDrawn
<1> QED
  BY <1>1, <1>3 DEF Drawn, IsDocks, VanillaDocks

LEMMA VanillaDockEdges ==
  ASSUME dock = VanillaDocks, NEW id
  PROVE  DockEdges(VanillaWorld, id) = DockEdges(World, id)
<1>1. VanillaWorld.dock = World.dock
  BY DEF VanillaWorld, World
<1>2. /\ DockTarget(VanillaWorld, id) = DockTarget(World, id)
      /\ DockWeaknessName(VanillaWorld, id) = DockWeaknessName(World, id)
  BY <1>1 DEF DockTarget, DockWeaknessName
<1>3. LockBreaksBehind(VanillaWorld, id) <=> LockBreaksBehind(World, id)
  BY <1>2 DEF LockBreaksBehind
<1>4. \A name : LockRule(VanillaWorld, id, name) = LockRule(World, id, name)
  BY <1>3 DEF LockRule
<1>5. \A name : DockRule(VanillaWorld, id, name) = DockRule(World, id, name)
  BY <1>4 DEF DockRule
<1>6. DockRules(VanillaWorld, id) = DockRules(World, id)
  BY <1>2, <1>5 DEF DockRules
<1> QED
  BY <1>2, <1>6 DEF DockEdges

LEMMA VanillaIntraAreaEdges ==
  ASSUME PlacesDrawn, NEW id \in Ids, id \notin RandomizableGates \cup OfType("hint")
  PROVE  IntraAreaEdges(VanillaWorld, id) = IntraAreaEdges(World, id)
<1>1. LeaveRequirement(VanillaWorld, id) = LeaveRequirement(World, id)
  <2>1. Lookup(gates, id, VanillaGates[id]) = Lookup(<<>>, id, VanillaGates[id])
    BY NoKeys DEF PlacesDrawn, Lookup
  <2>2. TranslatorGateRequirement(VanillaWorld, id) = TranslatorGateRequirement(World, id)
    BY <2>1 DEF TranslatorGateRequirement, VanillaWorld, World
  <2>3. Node(id).type # "hint"
    BY DEF OfType
  <2> QED
    BY <2>2, <2>3 DEF LeaveRequirement
<1>2. VanillaWorld.options = World.options
  BY DEF VanillaWorld, World
<1>3. \A t : /\ RequirementTo(VanillaWorld, id, t) = RequirementTo(World, id, t)
             /\ ExtraRule(VanillaWorld, id, t) = ExtraRule(World, id, t)
  BY <1>2 DEF RequirementTo, ExtraRule, SkyTempleKeyCountRule
<1>4. \A t : IntraAreaRule(VanillaWorld, id, t) = IntraAreaRule(World, id, t)
  BY <1>1, <1>3 DEF IntraAreaRule
<1> QED
  BY <1>4 DEF IntraAreaEdges

LEMMA ClearEdgesKept ==
  ASSUME Drawn, ~SomeDockRando
  PROVE  ClearEdges(options) \subseteq Edges(World)
<1> SUFFICES ASSUME NEW e \in Edges(VanillaWorld), e.from \notin RandomizableGates \cup OfType("hint")
             PROVE  e \in Edges(World)
  BY DEF ClearEdges, VanillaWorld
<1>1. PICK id \in LiveNodes : e \in IntraAreaEdges(VanillaWorld, id) \cup DockEdges(VanillaWorld, id)
  BY DEF Edges
<1>2. CASE e \in IntraAreaEdges(VanillaWorld, id)
  <2>1. e.from = id
    BY <1>2 DEF IntraAreaEdges
  <2>2. e \in IntraAreaEdges(World, id)
    BY <1>2, <2>1, VanillaIntraAreaEdges DEF Drawn, LiveNodes
  <2> QED
    BY <2>2 DEF Edges
<1>3. CASE e \in DockEdges(VanillaWorld, id)
  <2>1. e \in DockEdges(World, id)
    BY <1>3, VanillaDocksKept, VanillaDockEdges
  <2> QED
    BY <2>1 DEF Edges
<1> QED
  BY <1>1, <1>2, <1>3

\* Without dock randomization nothing is probed: whatever colors gates and
\* holograms drew, the vanilla start still opens a pickup to the starting items,
\* because randomizable_gate_ids leaves the gates alone that ship unlocked.
THEOREM GatesOpenTheStart == Spec => []GatesLeaveAWayOut
<1>1. ASSUME GraphOfDraws, ~SomeDockRando, start = DbStartingLocation
      PROVE  Cardinality(Reaches(DefaultStartingItems) \cap Pickups) >= MinSphereZeroPickups
  <2> DEFINE sure  == Reached(ClearEdges(options), EventTriggers, start, DefaultStartingItems)
             reach == ProbeReached(ProbeGraph(World), start, DefaultStartingItems)
  <2>1. Drawn /\ start \in Ids /\ options \in OptionSets
    BY <1>1 DEF GraphOfDraws, DrawnAndRecorded, Drawn, PlacesDrawn, Startable
  <2>2. Cardinality(sure \cap Pickups) >= MinSphereZeroPickups /\ MinSphereZeroPickups \in Nat
    BY <1>1, <2>1, WayOutAssumption
  <2>3. sure \subseteq reach
    BY <1>1, <2>1, ClearEdgesKept, EdgesWithin, ReachedGrows DEF ProbeReached, ProbeGraph, Drawn
  <2>4. Reaches(DefaultStartingItems) = reach
    BY <1>1, SameReach
  <2> HIDE DEF sure, reach
  <2> DEFINE some == sure \cap Pickups
             all  == reach \cap Pickups
  <2>5. IsFiniteSet(all)
    BY IdsFinite, FS_Subset DEF Pickups, OfType
  <2>6. some \subseteq all
    BY <2>3
  <2> HIDE DEF some, all
  <2>7. IsFiniteSet(some) /\ Cardinality(some) <= Cardinality(all)
    BY <2>5, <2>6, FS_Subset
  <2>8. Cardinality(some) \in Nat /\ Cardinality(all) \in Nat
    BY <2>5, <2>7, FS_CardinalityType
  <2>9. Cardinality(some) >= MinSphereZeroPickups
    BY <2>2 DEF some
  <2>10. Cardinality(all) >= MinSphereZeroPickups
    BY <2>2, <2>7, <2>8, <2>9
  <2> QED
    BY <2>4, <2>10 DEF all
<1>2. DrawnAndRecorded => GatesLeaveAWayOut
  BY <1>1 DEF GatesLeaveAWayOut, GraphOfDraws
<1> QED
  BY <1>2, GenerationInvariant, PTL

\* Whatever was drawn, a seed with the vanilla start can be played: probed docks
\* hold together, and without a probe the gates leave a way out.
THEOREM WorldsArePlayable == Spec => []WorldIsPlayable
<1>1. AcceptedWorldIsPlayable /\ GatesLeaveAWayOut => WorldIsPlayable
  BY DEF WorldIsPlayable
<1> QED
  BY <1>1, AcceptedWorlds, GatesOpenTheStart, PTL

-----------------------------------------------------------------------------
(* The sweep of dock_rando.py (ReachabilitySweep) on the graph of a probe: *)
(* an edge for every alternative of a rule, without the items held.        *)

CONSTANT SweptFlags
VARIABLES from, walked, granted, visited, flags, changed, todo

Sweep == INSTANCE ReachabilitySweep
           WITH Nodes <- Ids, Flags <- SweptFlags, start <- from, edges <- walked, triggers <- granted

(* Completeness needs to know what an unfinished pass has done: while      *)
(* nothing has changed, the nodes of the snapshot already scanned have     *)
(* nothing left to give.                                                   *)

Settled(n) == Sweep!GrantedAt(n) \subseteq flags /\ Sweep!Found(n, flags) \subseteq visited

ScannedSettled == ~changed => \A n \in visited \ todo : Settled(n)

SweepInv == Sweep!TypeOK /\ from \in visited /\ ScannedSettled

LEMMA GraphOfScan ==
  ASSUME NEW n, Sweep!Scan(n)
  PROVE  /\ n \in todo /\ todo' = todo \ {n}
         /\ flags' = flags \cup Sweep!GrantedAt(n)
         /\ visited' = visited \cup Sweep!Found(n, flags')
         /\ UNCHANGED <<from, walked, granted>>
BY DEF Sweep!Scan, Sweep!graph

LEMMA SweepInvInit == Sweep!Init => SweepInv
BY DEF Sweep!Init, SweepInv, Sweep!TypeOK, ScannedSettled

LEMMA SweepInvKept == SweepInv /\ [Sweep!Next]_(Sweep!vars) => SweepInv'
<1> SUFFICES ASSUME SweepInv, [Sweep!Next]_(Sweep!vars) PROVE SweepInv'
  OBVIOUS
<1>1. CASE Sweep!StartPass
  BY <1>1 DEF Sweep!StartPass, Sweep!graph, SweepInv, Sweep!TypeOK, ScannedSettled
<1>2. ASSUME NEW n \in todo, Sweep!Scan(n) PROVE SweepInv'
  <2>1. n \in todo /\ todo' = todo \ {n} /\ flags' = flags \cup Sweep!GrantedAt(n)
        /\ visited' = visited \cup Sweep!Found(n, flags') /\ UNCHANGED <<from, walked, granted>>
    BY <1>2, GraphOfScan
  <2>2. Sweep!TypeOK'
    BY <1>2, <2>1 DEF SweepInv, Sweep!TypeOK, Sweep!GrantedAt, Sweep!Found, Sweep!Scan
  <2>3. ScannedSettled'
    <3> SUFFICES ASSUME ~changed', NEW m \in visited' \ todo' PROVE Settled(m)'
      BY DEF ScannedSettled
    <3>1. ~changed /\ flags' = flags /\ visited' = visited
      BY <1>2 DEF Sweep!Scan, SweepInv, Sweep!TypeOK
    <3>2. CASE m = n
      BY <2>1, <3>1, <3>2 DEF Settled, Sweep!GrantedAt, Sweep!Found
    <3>3. CASE m # n
      <4>1. Settled(m)
        BY <2>1, <3>1, <3>3 DEF SweepInv, ScannedSettled
      <4> QED BY <2>1, <3>1, <4>1 DEF Settled, Sweep!GrantedAt, Sweep!Found
    <3> QED BY <3>2, <3>3
  <2> QED BY <2>1, <2>2, <2>3 DEF SweepInv
<1>3. CASE UNCHANGED Sweep!vars
  BY <1>3 DEF Sweep!vars, Sweep!graph, SweepInv, Sweep!TypeOK, ScannedSettled, Settled, Sweep!GrantedAt, Sweep!Found
<1> QED BY <1>1, <1>2, <1>3 DEF Sweep!Next

\* Every variable of the sweep of dock_rando.py keeps its type, on every graph.
THEOREM SweepTypeCorrect == Sweep!Spec => []Sweep!TypeOK
<1>1. SweepInv => Sweep!TypeOK
  BY DEF SweepInv
<1> QED BY SweepInvInit, SweepInvKept, <1>1, PTL DEF Sweep!Spec

LEMMA SoundInit == Sweep!Init => Sweep!SweepIsSound
BY DEF Sweep!Init, Sweep!SweepIsSound, Sweep!Closed, Sweep!Within

LEMMA SoundKept == SweepInv /\ Sweep!SweepIsSound /\ [Sweep!Next]_(Sweep!vars) => Sweep!SweepIsSound'
<1> SUFFICES ASSUME SweepInv, Sweep!SweepIsSound, [Sweep!Next]_(Sweep!vars),
                    NEW ns \in SUBSET Ids, NEW fs \in SUBSET SweptFlags, Sweep!Closed(ns, fs)'
             PROVE  Sweep!Within(ns, fs)'
  BY DEF Sweep!SweepIsSound
<1>1. UNCHANGED <<from, walked, granted>>
  BY DEF Sweep!Next, Sweep!StartPass, Sweep!Scan, Sweep!graph, Sweep!vars
<1>2. Sweep!Closed(ns, fs)
  BY <1>1 DEF Sweep!Closed
<1>3. Sweep!Within(ns, fs)
  BY <1>2 DEF Sweep!SweepIsSound
<1>4. CASE Sweep!StartPass \/ UNCHANGED Sweep!vars
  BY <1>3, <1>4 DEF Sweep!StartPass, Sweep!vars, Sweep!Within
<1>5. ASSUME NEW n \in todo, Sweep!Scan(n) PROVE Sweep!Within(ns, fs)'
  <2>1. n \in ns /\ flags' = flags \cup Sweep!GrantedAt(n) /\ visited' = visited \cup Sweep!Found(n, flags')
    BY <1>3, <1>5, GraphOfScan DEF SweepInv, Sweep!TypeOK, Sweep!Within
  <2>2. flags' \subseteq fs
    BY <1>2, <1>3, <2>1 DEF Sweep!Closed, Sweep!Within, Sweep!GrantedAt
  <2>3. Sweep!Found(n, flags') \subseteq ns
    BY <1>2, <2>1, <2>2 DEF Sweep!Closed, Sweep!Found
  <2> QED BY <1>3, <2>1, <2>2, <2>3 DEF Sweep!Within
<1> QED BY <1>4, <1>5 DEF Sweep!Next

\* What the sweep of dock_rando.py visits is reachable: it is in every closed set
\* of the graph.
THEOREM SweepSound == Sweep!Spec => []Sweep!SweepIsSound
BY SweepInvInit, SweepInvKept, SoundInit, SoundKept, PTL DEF Sweep!Spec

\* What the sweep ends with is closed: with SweepSound, the least closed set, which
\* no order of the walk can change.
THEOREM SweepComplete == Sweep!Spec => []Sweep!SweepIsComplete
<1>1. SweepInv => Sweep!SweepIsComplete
  <2> SUFFICES ASSUME SweepInv, Sweep!Done PROVE Sweep!Closed(visited, flags)
    BY DEF Sweep!SweepIsComplete
  <2>1. \A n \in visited : Settled(n)
    BY DEF SweepInv, ScannedSettled, Sweep!Done
  <2>2. \A t \in granted : t[1] \in visited => t[2] \in flags
    <3> SUFFICES ASSUME NEW t \in granted, t[1] \in visited PROVE t[2] \in flags
      OBVIOUS
    <3>1. t = <<t[1], t[2]>> /\ t[2] \in SweptFlags
      BY DEF SweepInv, Sweep!TypeOK, Sweep!Trigger
    <3>2. t[2] \in Sweep!GrantedAt(t[1])
      BY <3>1 DEF Sweep!GrantedAt
    <3> QED BY <2>1, <3>2 DEF Settled
  <2>3. \A e \in walked : e.from \in visited /\ e.needs \subseteq flags => e.to \in visited
    BY <2>1 DEF Settled, Sweep!Found, SweepInv, Sweep!TypeOK, Sweep!Edge
  <2> QED BY <2>2, <2>3 DEF Sweep!Closed, SweepInv
<1> QED BY SweepInvInit, SweepInvKept, <1>1, PTL DEF Sweep!Spec

(* The sweep ends: what is left to find, whether the pass found something, *)
(* and what is left of its snapshot, in this order, weigh less with every  *)
(* step.                                                                   *)

Unknown == Cardinality(Ids \ visited) + Cardinality(SweptFlags \ flags)

StepsLeft == (Cardinality(Ids) + 1) * (Unknown + IF changed THEN 1 ELSE 0) + Cardinality(todo)

\* Adding to a part of a finite set leaves less of it over.
LEMMA LeftOver ==
  ASSUME NEW whole, IsFiniteSet(whole), NEW old, NEW new, old \subseteq new, new \subseteq whole
  PROVE  /\ Cardinality(whole \ new) \in Nat /\ Cardinality(whole \ old) \in Nat
         /\ Cardinality(whole \ new) <= Cardinality(whole \ old)
         /\ new # old => Cardinality(whole \ new) < Cardinality(whole \ old)
<1>1. IsFiniteSet(whole \ old) /\ whole \ new \subseteq whole \ old
  BY FS_Difference
<1>2. IsFiniteSet(whole \ new)
  BY FS_Difference
<1>3. new # old => whole \ new # whole \ old
  OBVIOUS
<1> QED
  BY <1>1, <1>2, <1>3, FS_Subset, FS_CardinalityType

LEMMA Weigh ==
  ASSUME NEW n \in Nat, NEW a \in Nat, NEW b \in Nat
  PROVE  /\ (n + 1) * a \in Nat
         /\ a <= b => (n + 1) * a <= (n + 1) * b
         /\ a < b  => (n + 1) * a + n + 1 <= (n + 1) * b
<1>1. (n + 1) * b = (n + 1) * a + (n + 1) * (b - a)
  OBVIOUS
<1>2. ASSUME NEW d \in Nat PROVE (n + 1) * d \in Nat
  OBVIOUS
<1>3. ASSUME NEW d \in Nat, d >= 1 PROVE (n + 1) * d >= n + 1
  <2>1. d - 1 \in Nat /\ (n + 1) * (d - 1) \in Nat
    BY <1>2, <1>3
  <2>2. (n + 1) * d = (n + 1) * (d - 1) + (n + 1)
    BY <1>3
  <2> QED
    BY <2>1, <2>2, <1>2
<1>4. a <= b => b - a \in Nat
  OBVIOUS
<1> QED
  BY <1>1, <1>2, <1>3, <1>4

LEMMA LessOwed ==
  ASSUME NEW old \in Nat, NEW new \in Nat, NEW a, NEW b, new <= old, new < old \/ a = b
  PROVE  LET owed  == old + IF a THEN 1 ELSE 0
             after == new + IF b THEN 1 ELSE 0
         IN  owed \in Nat /\ after \in Nat /\ after <= owed
OBVIOUS

LEMMA SweepSizes ==
  ASSUME SweepInv, IsFiniteSet(SweptFlags)
  PROVE  /\ IsFiniteSet(Ids) /\ IsFiniteSet(visited) /\ IsFiniteSet(todo)
         /\ Cardinality(Ids) \in Nat /\ Cardinality(visited) \in Nat /\ Cardinality(todo) \in Nat
         /\ Cardinality(visited) <= Cardinality(Ids)
         /\ Cardinality(Ids \ visited) \in Nat /\ Cardinality(SweptFlags \ flags) \in Nat
         /\ Unknown \in Nat /\ changed \in BOOLEAN
<1>1. visited \subseteq Ids /\ todo \subseteq visited /\ flags \subseteq SweptFlags /\ changed \in BOOLEAN
  BY DEF SweepInv, Sweep!TypeOK
<1>2. /\ IsFiniteSet(Ids) /\ IsFiniteSet(visited) /\ Cardinality(visited) <= Cardinality(Ids)
  BY <1>1, IdsFinite, FS_Subset
<1>3. IsFiniteSet(todo)
  BY <1>1, <1>2, FS_Subset
<1>4. Cardinality(Ids \ visited) \in Nat /\ Cardinality(SweptFlags \ flags) \in Nat
  BY <1>1, <1>2, LeftOver
<1> QED
  BY <1>1, <1>2, <1>3, <1>4, FS_CardinalityType DEF Unknown

LEMMA StepCosts ==
  ASSUME SweepInv, IsFiniteSet(SweptFlags), Sweep!Next
  PROVE  StepsLeft \in Nat /\ StepsLeft' < StepsLeft
<1> DEFINE n == Cardinality(Ids)
<1>0. SweepInv'
  BY SweepInvKept
<1>1. n \in Nat /\ Unknown \in Nat /\ Cardinality(todo) \in Nat /\ changed \in BOOLEAN
  BY SweepSizes
<1>2. CASE Sweep!StartPass
  <2>1. changed /\ ~changed' /\ todo = {} /\ todo' = visited /\ UNCHANGED <<visited, flags>>
    BY <1>2 DEF Sweep!StartPass
  <2>2. Unknown' = Unknown
    BY <2>1 DEF Unknown
  <2>3. Cardinality(todo) = 0 /\ Cardinality(todo') \in Nat /\ Cardinality(todo') <= n
    BY <2>1, SweepSizes, FS_EmptySet
  <2> DEFINE u == Unknown
  <2>4. (n + 1) * u \in Nat /\ (n + 1) * (u + 1) \in Nat
        /\ (n + 1) * u + n + 1 <= (n + 1) * (u + 1)
    <3> HIDE DEF n, u
    <3> QED
      BY <1>1, Weigh DEF n, u
  <2>5. StepsLeft = (n + 1) * (u + 1) + Cardinality(todo)
    BY <2>1 DEF StepsLeft
  <2>6. StepsLeft' = (n + 1) * (u + 0) + Cardinality(todo')
    BY <2>1, <2>2 DEF StepsLeft
  <2> DEFINE heavy == (n + 1) * (u + 1)
             light == (n + 1) * u
  <2>7. StepsLeft = heavy + 0 /\ StepsLeft' = light + Cardinality(todo')
    BY <1>1, <2>3, <2>5, <2>6
  <2>8. heavy \in Nat /\ light \in Nat /\ light + n + 1 <= heavy
    BY <2>4
  <2> HIDE DEF heavy, light, u, n
  <2> QED
    BY <1>1, <2>3, <2>7, <2>8
<1>3. ASSUME NEW m \in todo, Sweep!Scan(m) PROVE StepsLeft \in Nat /\ StepsLeft' < StepsLeft
  <2>1. /\ todo' = todo \ {m}
        /\ visited \subseteq visited' /\ flags \subseteq flags'
        /\ changed' = (changed \/ flags' # flags \/ visited' # visited)
    BY <1>3 DEF Sweep!Scan
  <2>2. visited' \subseteq Ids /\ flags' \subseteq SweptFlags
    BY <1>0 DEF SweepInv, Sweep!TypeOK
  <2>3. Cardinality(todo') = Cardinality(todo) - 1 /\ Cardinality(todo') \in Nat
    <3>1. IsFiniteSet(todo) /\ IsFiniteSet(todo')
      BY <2>1, SweepSizes, FS_Difference
    <3> QED
      BY <1>3, <2>1, <3>1, FS_RemoveElement, FS_CardinalityType
  <2>4. /\ Cardinality(Ids \ visited') \in Nat /\ Cardinality(Ids \ visited) \in Nat
        /\ Cardinality(Ids \ visited') <= Cardinality(Ids \ visited)
        /\ visited' # visited => Cardinality(Ids \ visited') < Cardinality(Ids \ visited)
    BY <2>1, <2>2, SweepSizes, LeftOver
  <2>5. /\ Cardinality(SweptFlags \ flags') \in Nat /\ Cardinality(SweptFlags \ flags) \in Nat
        /\ Cardinality(SweptFlags \ flags') <= Cardinality(SweptFlags \ flags)
        /\ flags' # flags => Cardinality(SweptFlags \ flags') < Cardinality(SweptFlags \ flags)
    BY <2>1, <2>2, LeftOver
  <2>6. /\ Unknown' \in Nat /\ Unknown' <= Unknown
        /\ visited' # visited \/ flags' # flags => Unknown' < Unknown
    BY <2>4, <2>5 DEF Unknown
  <2> DEFINE owed  == Unknown + IF changed THEN 1 ELSE 0
             after == Unknown' + IF changed' THEN 1 ELSE 0
  <2>7. owed \in Nat /\ after \in Nat /\ after <= owed
    <3>1. Unknown' < Unknown \/ changed = changed'
      BY <1>1, <2>1, <2>6
    <3> QED
      BY <1>1, <2>6, <3>1, LessOwed
  <2>8. StepsLeft = (n + 1) * owed + Cardinality(todo) /\ StepsLeft' = (n + 1) * after + Cardinality(todo')
    BY DEF StepsLeft
  <2> HIDE DEF n, owed, after
  <2>9. (n + 1) * owed \in Nat /\ (n + 1) * after \in Nat /\ (n + 1) * after <= (n + 1) * owed
    BY <1>1, <2>7, Weigh DEF n
  <2> DEFINE heavy == (n + 1) * owed
             light == (n + 1) * after
  <2>10. StepsLeft = heavy + Cardinality(todo) /\ StepsLeft' = light + Cardinality(todo')
         /\ heavy \in Nat /\ light \in Nat /\ light <= heavy
    BY <2>8, <2>9
  <2> HIDE DEF heavy, light
  <2> QED
    BY <1>1, <2>3, <2>10
<1> QED
  BY <1>2, <1>3 DEF Sweep!Next

\* _probe_reachable cannot go on for ever: each step of its loop leaves fewer
\* steps, at first at most (nodes + 1) * (nodes + flags), whatever the order, and
\* until it is done a step is left to take.
THEOREM SweepRunsOut ==
  ASSUME IsFiniteSet(SweptFlags)
  PROVE  Sweep!Spec =>
           /\ StepsLeft <= (Cardinality(Ids) + 1) * (Cardinality(Ids) + Cardinality(SweptFlags))
           /\ [](StepsLeft \in Nat /\ (StepsLeft = 0 => Sweep!Done))
           /\ [][StepsLeft' < StepsLeft]_(Sweep!vars)
<1> DEFINE n     == Cardinality(Ids)
           f     == Cardinality(SweptFlags)
           First == StepsLeft <= (n + 1) * (n + f)
           Here  == StepsLeft \in Nat /\ (StepsLeft = 0 => Sweep!Done)
<1>1. ASSUME Sweep!Init PROVE First
  <2>1. visited = {from} /\ from \in Ids /\ flags = {} /\ changed /\ todo = {}
    BY <1>1 DEF Sweep!Init
  <2>2. n \in Nat /\ f \in Nat /\ IsFiniteSet(Ids)
    BY IdsFinite, FS_CardinalityType
  <2>3. Cardinality(Ids \ visited) = n - 1 /\ n - 1 \in Nat
    <3>1. Cardinality(Ids \ {from}) = n - 1 /\ IsFiniteSet(Ids \ {from})
      BY <2>1, <2>2, FS_RemoveElement, FS_Difference
    <3>2. Cardinality(Ids \ {from}) \in Nat
      BY <3>1, FS_CardinalityType
    <3> QED
      BY <2>1, <3>1, <3>2
  <2>4. SweptFlags \ flags = SweptFlags
    BY <2>1
  <2>5. Unknown + 1 = n + f
    BY <2>2, <2>3, <2>4 DEF Unknown
  <2>6. Cardinality(todo) = 0
    BY <2>1, FS_EmptySet
  <2>7. StepsLeft = (n + 1) * (Unknown + 1) + Cardinality(todo)
    BY <2>1 DEF StepsLeft
  <2> DEFINE bound == (n + 1) * (n + f)
  <2>8. bound \in Nat
    <3>1. n + f \in Nat
      BY <2>2
    <3> HIDE DEF n, f
    <3> QED
      BY <2>2, <3>1, Weigh
  <2>9. StepsLeft = bound + 0
    BY <2>5, <2>6, <2>7
  <2> HIDE DEF bound
  <2> QED
    BY <2>8, <2>9 DEF bound
<1>2. ASSUME SweepInv PROVE Here
  <2> DEFINE owed == Unknown + IF changed THEN 1 ELSE 0
  <2>1. owed \in Nat /\ (owed = 0 => ~changed)
    BY <1>2, SweepSizes
  <2>2. StepsLeft = (n + 1) * owed + Cardinality(todo) /\ n \in Nat /\ Cardinality(todo) \in Nat
    BY <1>2, SweepSizes DEF StepsLeft
  <2>3. Cardinality(todo) = 0 => todo = {}
    BY <1>2, SweepSizes, FS_EmptySet
  <2> HIDE DEF owed, n
  <2> DEFINE heavy == (n + 1) * owed
  <2>4. heavy \in Nat /\ (heavy = 0 => owed = 0)
    BY <2>1, <2>2, Weigh
  <2>5. StepsLeft = heavy + Cardinality(todo)
    BY <2>2
  <2> HIDE DEF heavy
  <2>6. StepsLeft \in Nat /\ (StepsLeft = 0 => heavy = 0 /\ Cardinality(todo) = 0)
    BY <2>2, <2>4, <2>5
  <2> QED
    BY <2>1, <2>3, <2>4, <2>6 DEF Sweep!Done
<1>3. SweepInv /\ [Sweep!Next]_(Sweep!vars) => [StepsLeft' < StepsLeft]_(Sweep!vars)
  BY StepCosts
<1> HIDE DEF First, Here
<1>4. Sweep!Spec => First /\ []Here /\ [][StepsLeft' < StepsLeft]_(Sweep!vars)
  BY <1>1, <1>2, <1>3, SweepInvInit, SweepInvKept, PTL DEF Sweep!Spec
<1> QED
  BY <1>4 DEF First, Here

Alternatives(edges, items) ==
  UNION {{[from |-> e.from, to |-> e.to, needs |-> c \ items] : c \in e.rule} : e \in edges}

LEMMA DoneIsReached ==
  ASSUME NEW edges, Within(edges), NEW items, walked = Alternatives(edges, items),
         Sweep!TypeOK, Sweep!SweepIsSound, Sweep!SweepIsComplete, Sweep!Done
  PROVE  visited = Reached(edges, granted, from, items)
<1> DEFINE r  == Reached(edges, granted, from, items)
           fs == {t[2] : t \in {u \in granted : u[1] \in r}}
<1>1. /\ from \in Ids /\ visited \subseteq Ids
      /\ granted \subseteq Ids \X SweptFlags
  BY DEF Sweep!TypeOK, Sweep!Trigger
<1>2. /\ r \in SUBSET Ids /\ from \in r
      /\ IsClosed(edges, granted, items, r)
      /\ \A ms \in SUBSET Ids : from \in ms /\ IsClosed(edges, granted, items, ms) => r \subseteq ms
  BY <1>1, ReachedFacts
<1>3. \A w \in walked : \E e \in edges : \E c \in e.rule :
        w.from = e.from /\ w.to = e.to /\ w.needs = c \ items
  BY DEF Alternatives
<1>4. ASSUME NEW e \in edges, NEW c \in e.rule
      PROVE  \E w \in walked : w.from = e.from /\ w.to = e.to /\ w.needs = c \ items
  <2> DEFINE w == [from |-> e.from, to |-> e.to, needs |-> c \ items]
  <2>1. w \in walked
    <3> DEFINE Of(d) == {[from |-> d.from, to |-> d.to, needs |-> x \ items] : x \in d.rule}
    <3>1. w \in Of(e)
      BY <1>4
    <3>2. walked = UNION {Of(d) : d \in edges}
      BY DEF Alternatives
    <3> HIDE DEF Of, w
    <3> QED
      BY <1>4, <3>1, <3>2
  <2> QED
    BY <2>1
<1> HIDE DEF r
<1>5. visited \subseteq r
  <2>1. fs \in SUBSET SweptFlags
    BY <1>1
  <2>2. Sweep!Closed(r, fs)
    <3>1. ASSUME NEW w \in walked, w.from \in r, w.needs \subseteq fs PROVE w.to \in r
      <4>1. PICK e \in edges : \E c \in e.rule : w.from = e.from /\ w.to = e.to /\ w.needs = c \ items
        BY <1>3
      <4>2. PICK c \in e.rule : w.from = e.from /\ w.to = e.to /\ w.needs = c \ items
        BY <4>1
      <4>3. c \subseteq Held(granted, items, r)
        BY <3>1, <4>2 DEF Held
      <4> QED
        BY <1>2, <3>1, <4>2, <4>3 DEF IsClosed, Open
    <3>2. \A t \in granted : t[1] \in r => t[2] \in fs
      OBVIOUS
    <3> QED
      BY <1>2, <3>1, <3>2 DEF Sweep!Closed
  <2> QED
    BY <1>2, <2>1, <2>2 DEF Sweep!SweepIsSound, Sweep!Within
<1>6. r \subseteq visited
  <2>1. Sweep!Closed(visited, flags)
    BY DEF Sweep!SweepIsComplete
  <2>2. ASSUME NEW e \in edges, e.from \in visited, Open(e, Held(granted, items, visited))
        PROVE  e.to \in visited
    <3>1. PICK c \in e.rule : c \subseteq Held(granted, items, visited)
      BY <2>2 DEF Open
    <3>2. PICK w \in walked : w.from = e.from /\ w.to = e.to /\ w.needs = c \ items
      BY <1>4
    <3>3. w.needs \subseteq flags
      BY <2>1, <3>1, <3>2 DEF Held, Sweep!Closed
    <3> QED
      BY <2>1, <2>2, <3>2, <3>3 DEF Sweep!Closed
  <2>3. IsClosed(edges, granted, items, visited)
    BY <2>2 DEF IsClosed
  <2> QED
    BY <1>1, <1>2, <2>1, <2>3 DEF Sweep!Closed
<1> QED
  BY <1>5, <1>6 DEF r

\* Whatever order Python's sets are walked in, _probe_reachable ends with exactly
\* the nodes Reached stands for.
THEOREM SweepComputesReached ==
  ASSUME NEW CONSTANT edges, Within(edges), NEW CONSTANT items
  PROVE  Sweep!Spec =>
           [](Sweep!Done /\ walked = Alternatives(edges, items) =>
                visited = Reached(edges, granted, from, items))
<1>1. Sweep!TypeOK /\ Sweep!SweepIsSound /\ Sweep!SweepIsComplete =>
        (Sweep!Done /\ walked = Alternatives(edges, items) =>
           visited = Reached(edges, granted, from, items))
  BY DoneIsReached
<1> QED
  BY <1>1, SweepTypeCorrect, SweepSound, SweepComplete, PTL
=============================================================================
