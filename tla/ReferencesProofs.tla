-------------------------- MODULE ReferencesProofs --------------------------
(***************************************************************************)
(* Theorems of References: that the accounts agree for every list of       *)
(* items, every layout of the counters, all option values of the pool and  *)
(* every filled multiworld, however long a behaviour runs.                 *)
(***************************************************************************)
EXTENDS References, ComputationProofs, WellFoundedInduction

(***************************************************************************)
(* The families share no variable: a step of one leaves the others alone.  *)
(***************************************************************************)
LEMMA OneFamily ==
  ASSUME [Next]_vars
  PROVE  /\ family' = family
         /\ CountersStep \/ UNCHANGED encodingVars
         /\ CapacitiesStep \/ UNCHANGED receiveVars
         /\ PoolStep \/ UNCHANGED poolVars
         /\ HintsStep \/ UNCHANGED hintVars
         /\ RequireStep \/ UNCHANGED requireVars
BY DEF Next, vars, CountersStep, CapacitiesStep, PoolStep, HintsStep, RequireStep

LEMMA LeastNumber ==
  ASSUME NEW S \in SUBSET Nat, S # {}
  PROVE  \E m \in S : \A k \in S : m <= k
<1>1. PICK m \in S : \A k \in S : <<k, m>> \notin OpToRel(<, Nat)
  BY WFMin, NatLessThanWellFounded, Zenon
<1>2. \A k \in S : ~ (k < m)
  BY <1>1, Zenon DEF OpToRel
<1> QED
  BY <1>2
-----------------------------------------------------------------------------
(* Received items.                                                         *)

ItemsTyped == received \in Seq(Items) /\ data \in SlotData

LEMMA ItemsTypedInit == Init => ItemsTyped
<1>1. IdleReceive => ItemsTyped
  BY DEF IdleReceive, ItemsTyped, SlotData
<1>2. InitReceive => ItemsTyped
  <2>1. \A d \in [unlockLauncher : BOOLEAN, unlockPowerBombs : BOOLEAN, launcherBonus : Bonuses] :
          d \in [unlockLauncher : BOOLEAN, unlockPowerBombs : BOOLEAN, launcherBonus : Nat]
    BY BonusAssumption
  <2>2. <<>> \in Seq(Items)
    OBVIOUS
  <2> QED
    BY <2>1, <2>2, Zenon DEF InitReceive, ItemsTyped, SlotData
<1> QED
  BY <1>1, <1>2 DEF Init

LEMMA ItemsTypedKept == ItemsTyped /\ [Next]_vars => ItemsTyped'
<1> SUFFICES ASSUME ItemsTyped, [Next]_vars PROVE ItemsTyped'
  OBVIOUS
<1>1. CASE CapacitiesStep
  BY <1>1 DEF CapacitiesStep, Receive, ItemsTyped
<1>2. CASE UNCHANGED receiveVars
  BY <1>2 DEF receiveVars, ItemsTyped
<1> QED
  BY <1>1, <1>2, OneFamily

\* What arrives is a list of items, and the slot data stays what it was generated as.
THEOREM ItemsAreTyped == Spec => []ItemsTyped
BY ItemsTypedInit, ItemsTypedKept, PTL DEF Spec

\* Whatever was received before and whatever the options, one item more lowers
\* no capacity the client computes: plan_grants may ignore negative differences.
THEOREM ItemsNeverHurt == Spec => ItemsOnlyHelp
<1>1. ASSUME ItemsTyped, [Next]_vars PROVE CapacitiesGrow
  <2>1. received' \in Seq(Items) /\ Continues(received', received)
    <3>1. CASE CapacitiesStep
      BY <1>1, <3>1 DEF CapacitiesStep, Receive, ItemsTyped, Continues
    <3>2. CASE UNCHANGED receiveVars
      BY <1>1, <3>2 DEF receiveVars, ItemsTyped, Continues
    <3> QED
      BY <1>1, <3>1, <3>2, OneFamily
  <2> QED
    BY <1>1, <2>1, DesiredMonotone DEF CapacitiesGrow, ItemsTyped
<1>2. ItemsTyped /\ [Next]_vars => [CapacitiesGrow]_vars
  BY <1>1
<1> QED
  BY <1>2, ItemsTypedInit, ItemsTypedKept, PTL DEF Spec, ItemsOnlyHelp

-----------------------------------------------------------------------------
(* Client and logic.                                                       *)

LEMMA HasIsCopies ==
  ASSUME NEW items \in Seq(Items), NEW item
  PROVE  /\ Copies(items, item) \in Nat
         /\ Has(items, item) <=> Copies(items, item) >= 1
<1>1. IsFiniteSet(PlacesOf(items, item)) /\ Copies(items, item) \in Nat
  BY CountingFinite
<1>2. Copies(items, item) = 0 <=> PlacesOf(items, item) = {}
  BY <1>1, FS_EmptySet DEF Copies, PlacesOf
<1>3. Has(items, item) <=> PlacesOf(items, item) # {}
  BY DEF Has, PlacesOf
<1> QED
  BY <1>1, <1>2, <1>3

LEMMA MissilesAgree ==
  ASSUME NEW items \in Seq(Items), NEW options_ \in SlotData
  PROVE  /\ EffectiveLauncher(items, options_) <=> MissilesUnlocked(items, options_)
         /\ LogicCount(items, options_, "Missile") = MissilesDesired(items, options_)
<1>1. EffectiveLauncher(items, options_) <=> MissilesUnlocked(items, options_)
  BY HasIsCopies DEF EffectiveLauncher, MissilesUnlocked
<1>2. /\ Copies(items, "Seeker Launcher") \in Nat
      /\ Copies(items, "Missile Expansion") \in Nat
      /\ options_.launcherBonus \in Nat
  BY HasIsCopies DEF SlotData
<1> DEFINE seekers    == Copies(items, "Seeker Launcher")
           expansions == Copies(items, "Missile Expansion")
           extra      == options_.launcherBonus
           found      == Has(items, "Missile Launcher")
<1>3. LogicCount(items, options_, "Missile") =
        IF ~EffectiveLauncher(items, options_) THEN 0
        ELSE 5 * (seekers + expansions) + (IF found THEN 5 + extra ELSE 0)
  BY DEF LogicCount
<1>4. MissilesDesired(items, options_) =
        IF MissilesUnlocked(items, options_)
        THEN 5 * ((IF found THEN 1 ELSE 0) + seekers + expansions) + (IF found THEN 1 ELSE 0) * extra
        ELSE 0
  BY DEF MissilesDesired
<1>5. seekers \in Nat /\ expansions \in Nat /\ extra \in Nat
  BY <1>2
<1> HIDE DEF seekers, expansions, extra, found
<1>6. CASE found
  BY <1>1, <1>3, <1>4, <1>5, <1>6
<1>7. CASE ~found
  BY <1>1, <1>3, <1>4, <1>5, <1>7
<1> QED
  BY <1>1, <1>6, <1>7

LEMMA PowerBombsAgree ==
  ASSUME NEW items \in Seq(Items), NEW options_ \in SlotData
  PROVE  LogicCount(items, options_, "PowerBomb") = PowerBombsDesired(items, options_)
<1>1. EffectivePowerBomb(items, options_) <=> PowerBombsUnlocked(items, options_)
  BY HasIsCopies DEF EffectivePowerBomb, PowerBombsUnlocked
<1>2. LogicCount(items, options_, "PowerBomb") =
        IF ~EffectivePowerBomb(items, options_) THEN 0
        ELSE (IF Has(items, "Power Bomb") THEN 2 ELSE 0) + Copies(items, "Power Bomb Expansion")
  BY DEF LogicCount
<1> QED
  BY <1>1, <1>2 DEF PowerBombsDesired

LEMMA AmmoAgrees ==
  ASSUME NEW items, NEW options_
  PROVE  /\ LogicCount(items, options_, "DarkAmmo") = AmmoDesired(items, "Dark Beam", "Dark Ammo Expansion")
         /\ LogicCount(items, options_, "LightAmmo") = AmmoDesired(items, "Light Beam", "Light Ammo Expansion")
BY DEF LogicCount, AmmoDesired

\* The first copy of an item fills stage 0, and some copy stage 1 when there are two.
LEMMA StagesFilled ==
  ASSUME NEW items \in Seq(Items), NEW item
  PROVE  /\ (\E i \in DOMAIN items : items[i] = item /\ StageAt(items, i) = 0)
              <=> Copies(items, item) >= 1
         /\ (\E i \in DOMAIN items : items[i] = item /\ StageAt(items, i) = 1)
              <=> Copies(items, item) >= 2
<1> DEFINE Before(i) == {j \in DOMAIN items : j < i /\ items[j] = items[i]}
           count     == Copies(items, item)
<1>1. ASSUME NEW i \in DOMAIN items
      PROVE  /\ StageAt(items, i) \in 0 .. 1
             /\ StageAt(items, i) = 0 <=> Before(i) = {}
  <2>1. Before(i) \subseteq 1 .. Len(items)
    OBVIOUS
  <2>2. IsFiniteSet(Before(i))
    BY <2>1, FS_Interval, FS_Subset
  <2>3. Cardinality(Before(i)) \in Nat /\ (Cardinality(Before(i)) = 0 <=> Before(i) = {})
    BY <2>2, FS_CardinalityType, FS_EmptySet
  <2>4. StageAt(items, i) = IF Cardinality(Before(i)) > 1 THEN 1 ELSE Cardinality(Before(i))
    BY DEF StageAt, LastStage
  <2> HIDE DEF Before
  <2> QED
    BY <2>3, <2>4
<1>2. IsFiniteSet(PlacesOf(items, item)) /\ count = Cardinality(PlacesOf(items, item)) /\ count \in Nat
  BY CountingFinite DEF Copies, PlacesOf
<1>3. ASSUME NEW i \in DOMAIN items, items[i] = item PROVE count >= 1
  BY <1>3, HasIsCopies DEF Has
<1>4. ASSUME count >= 1
      PROVE  \E i \in PlacesOf(items, item) : \A j \in PlacesOf(items, item) : i <= j
  <2>1. PlacesOf(items, item) \subseteq Nat /\ PlacesOf(items, item) # {}
    BY <1>4, <1>2, FS_EmptySet DEF PlacesOf
  <2> QED
    BY <2>1, LeastNumber
<1>5. ASSUME count >= 1 PROVE \E i \in DOMAIN items : items[i] = item /\ StageAt(items, i) = 0
  <2>1. PICK i \in PlacesOf(items, item) : \A j \in PlacesOf(items, item) : i <= j
    BY <1>4, <1>5
  <2>2. i \in DOMAIN items /\ items[i] = item
    BY DEF PlacesOf
  <2>3. Before(i) = {}
    BY <2>1, <2>2 DEF PlacesOf
  <2> QED
    BY <1>1, <2>2, <2>3
<1>6. ASSUME NEW i \in DOMAIN items, items[i] = item, StageAt(items, i) = 1 PROVE count >= 2
  <2>1. PICK j \in Before(i) : TRUE
    BY <1>1, <1>6
  <2>2. i \in PlacesOf(items, item) /\ j \in PlacesOf(items, item) /\ i # j
    BY <1>6, <2>1 DEF PlacesOf
  <2>3. PlacesOf(items, item) # {} /\ PlacesOf(items, item) # {i}
    BY <2>2
  <2>4. count # 1
    <3>1. SUFFICES ASSUME count = 1 PROVE FALSE
      OBVIOUS
    <3>2. PICK x : PlacesOf(items, item) = {x}
      BY <1>2, <3>1, FS_Singleton
    <3> QED
      BY <2>2, <3>2
  <2> QED
    BY <1>2, <1>3, <1>6, <2>4
<1>7. ASSUME count >= 2 PROVE \E i \in DOMAIN items : items[i] = item /\ StageAt(items, i) = 1
  <2>1. PICK i \in PlacesOf(items, item) : \A j \in PlacesOf(items, item) : i <= j
    BY <1>2, <1>4, <1>7
  <2>2. PICK k \in PlacesOf(items, item) : k # i
    <3>1. SUFFICES ASSUME PlacesOf(items, item) = {i} PROVE FALSE
      OBVIOUS
    <3> QED
      BY <1>2, <1>7, <3>1, FS_Singleton
  <2>3. i \in Before(k) /\ k \in DOMAIN items /\ items[k] = item
    BY <2>1, <2>2 DEF PlacesOf
  <2> QED
    BY <1>1, <2>3
<1> QED
  BY <1>3, <1>5, <1>6, <1>7

\* Capacities of one: the slot is filled by its item, or by a stage of its series.
Fills(x, y, slot) == <<x, slot>> \in PlainGains \/ <<x, y, slot>> \in Stages

LEMMA FillsOf ==
  ASSUME NEW x, NEW y
  PROVE  /\ Fills(x, y, 1) <=> x = "Dark Beam"
         /\ Fills(x, y, 2) <=> x = "Light Beam"
         /\ Fills(x, y, 15) <=> x = "Morph Ball"
         /\ Fills(x, y, 26) <=> x = "Seeker Launcher"
         /\ Fills(x, y, 13) <=> x = "Dark Suit" \/ (x = "Progressive Suit" /\ y = 0)
         /\ Fills(x, y, 14) <=> x = "Light Suit" \/ (x = "Progressive Suit" /\ y = 1)
<1>1. Fills(x, y, 1) <=> x = "Dark Beam"
  BY DEF Fills, PlainGains, Stages
<1>2. Fills(x, y, 2) <=> x = "Light Beam"
  BY DEF Fills, PlainGains, Stages
<1>3. Fills(x, y, 15) <=> x = "Morph Ball"
  BY DEF Fills, PlainGains, Stages
<1>4. Fills(x, y, 26) <=> x = "Seeker Launcher"
  BY DEF Fills, PlainGains, Stages
<1>5. Fills(x, y, 13) <=> x = "Dark Suit" \/ (x = "Progressive Suit" /\ y = 0)
  BY DEF Fills, PlainGains, Stages
<1>6. Fills(x, y, 14) <=> x = "Light Suit" \/ (x = "Progressive Suit" /\ y = 1)
  BY DEF Fills, PlainGains, Stages
<1> QED
  BY <1>1, <1>2, <1>3, <1>4, <1>5, <1>6

LEMMA PlainAgrees ==
  ASSUME NEW items \in Seq(Items)
  PROVE  /\ PlainDesired(items, 1) = 1 <=> Has(items, "Dark Beam")
         /\ PlainDesired(items, 2) = 1 <=> Has(items, "Light Beam")
         /\ PlainDesired(items, 15) = 1 <=> Has(items, "Morph Ball")
         /\ PlainDesired(items, 26) = 1 <=> Has(items, "Seeker Launcher")
         /\ PlainDesired(items, 13) = 1 <=>
              Has(items, "Dark Suit") \/ Copies(items, "Progressive Suit") >= 1
         /\ PlainDesired(items, 14) = 1 <=>
              Has(items, "Light Suit") \/ Copies(items, "Progressive Suit") >= 2
<1>1. \A slot : PlainDesired(items, slot) = 1 <=>
                 \E i \in DOMAIN items : Fills(items[i], StageAt(items, i), slot)
  BY DEF PlainDesired, Fills
<1>2. ASSUME NEW slot, NEW item, \A x, y : Fills(x, y, slot) <=> x = item
      PROVE  PlainDesired(items, slot) = 1 <=> Has(items, item)
  BY <1>1, <1>2 DEF Has
<1> DEFINE Staged(slot, item, k) ==
             \A x, y : Fills(x, y, slot) <=> x = item \/ (x = "Progressive Suit" /\ y = k)
           Reaches(k) ==
             \E i \in DOMAIN items : items[i] = "Progressive Suit" /\ StageAt(items, i) = k
<1>3. ASSUME NEW slot, NEW item, NEW k, Staged(slot, item, k)
      PROVE  PlainDesired(items, slot) = 1 <=> Has(items, item) \/ Reaches(k)
  <2>1. \A i \in DOMAIN items :
          Fills(items[i], StageAt(items, i), slot)
            <=> items[i] = item \/ (items[i] = "Progressive Suit" /\ StageAt(items, i) = k)
    BY <1>3
  <2> QED
    BY <1>1, <2>1, Zenon DEF Has
<1>4. PlainDesired(items, 1) = 1 <=> Has(items, "Dark Beam")
  <2>1. \A x, y : Fills(x, y, 1) <=> x = "Dark Beam"
    BY FillsOf
  <2> QED
    BY <2>1, <1>2
<1>5. PlainDesired(items, 2) = 1 <=> Has(items, "Light Beam")
  <2>1. \A x, y : Fills(x, y, 2) <=> x = "Light Beam"
    BY FillsOf
  <2> QED
    BY <2>1, <1>2
<1>6. PlainDesired(items, 15) = 1 <=> Has(items, "Morph Ball")
  <2>1. \A x, y : Fills(x, y, 15) <=> x = "Morph Ball"
    BY FillsOf
  <2> QED
    BY <2>1, <1>2
<1>7. PlainDesired(items, 26) = 1 <=> Has(items, "Seeker Launcher")
  <2>1. \A x, y : Fills(x, y, 26) <=> x = "Seeker Launcher"
    BY FillsOf
  <2> QED
    BY <2>1, <1>2
<1>8. PlainDesired(items, 13) = 1 <=> Has(items, "Dark Suit") \/ Reaches(0)
  <2>1. Staged(13, "Dark Suit", 0)
    BY FillsOf
  <2> HIDE DEF Staged, Reaches
  <2> QED
    BY <2>1, <1>3
<1>9. PlainDesired(items, 14) = 1 <=> Has(items, "Light Suit") \/ Reaches(1)
  <2>1. Staged(14, "Light Suit", 1)
    BY FillsOf
  <2> HIDE DEF Staged, Reaches
  <2> QED
    BY <2>1, <1>3
<1> QED
  BY <1>4, <1>5, <1>6, <1>7, <1>8, <1>9, StagesFilled

LEMMA SlotsDesired ==
  ASSUME NEW items, NEW options_
  PROVE  /\ \A slot \in PlainSlots : DesiredAt(items, options_, slot) = PlainDesired(items, slot)
         /\ DesiredAt(items, options_, 12) = 1
         /\ DesiredAt(items, options_, 42) = EnergyTanksDesired(items)
         /\ DesiredAt(items, options_, 43) = PowerBombsDesired(items, options_)
         /\ DesiredAt(items, options_, 44) = MissilesDesired(items, options_)
         /\ DesiredAt(items, options_, 45) = AmmoDesired(items, "Dark Beam", "Dark Ammo Expansion")
         /\ DesiredAt(items, options_, 46) = AmmoDesired(items, "Light Beam", "Light Ammo Expansion")
         /\ DesiredAt(items, options_, 73) = IF MissilesUnlocked(items, options_) THEN 1 ELSE 0
<1>1. \A slot \in PlainSlots : DesiredAt(items, options_, slot) = PlainDesired(items, slot)
  <2>1. SUFFICES ASSUME NEW slot \in PlainSlots
                 PROVE  DesiredAt(items, options_, slot) = PlainDesired(items, slot)
    OBVIOUS
  <2>2. slot \notin {12, 42, 43, 44, 45, 46, 73}
    BY DEF PlainSlots
  <2> QED
    BY <2>2 DEF DesiredAt
<1>2. DesiredAt(items, options_, 12) = 1
  BY DEF DesiredAt
<1>3. DesiredAt(items, options_, 42) = EnergyTanksDesired(items)
  BY DEF DesiredAt
<1>4. DesiredAt(items, options_, 43) = PowerBombsDesired(items, options_)
  BY DEF DesiredAt
<1>5. DesiredAt(items, options_, 44) = MissilesDesired(items, options_)
  BY DEF DesiredAt
<1>6. DesiredAt(items, options_, 45) = AmmoDesired(items, "Dark Beam", "Dark Ammo Expansion")
  BY DEF DesiredAt
<1>7. DesiredAt(items, options_, 46) = AmmoDesired(items, "Light Beam", "Light Ammo Expansion")
  BY DEF DesiredAt
<1>8. DesiredAt(items, options_, 73) = IF MissilesUnlocked(items, options_) THEN 1 ELSE 0
  BY DEF DesiredAt
<1> QED
  BY <1>1, <1>2, <1>3, <1>4, <1>5, <1>6, <1>7, <1>8

LEMMA FlagsOfLogic ==
  ASSUME NEW items, NEW options_
  PROVE  /\ LogicHas(items, options_, "MissileLauncher") <=> EffectiveLauncher(items, options_)
         /\ LogicHas(items, options_, "DarkSuit") <=>
              Has(items, "Dark Suit") \/ Copies(items, "Progressive Suit") >= 1
         /\ LogicHas(items, options_, "LightSuit") <=>
              Has(items, "Light Suit") \/ Copies(items, "Progressive Suit") >= 2
         /\ LogicHas(items, options_, "Dark") <=> Has(items, "Dark Beam")
         /\ LogicHas(items, options_, "Light") <=> Has(items, "Light Beam")
         /\ LogicHas(items, options_, "Seekers") <=> Has(items, "Seeker Launcher")
         /\ LogicHas(items, options_, "MorphBall") <=> Has(items, "Morph Ball")
BY DEF LogicHas

LEMMA CountsAgree ==
  ASSUME NEW items \in Seq(Items), NEW options_ \in SlotData
  PROVE  \A r \in CountSlots : LogicCount(items, options_, r[1]) = DesiredAt(items, options_, r[2])
<1>1. /\ LogicCount(items, options_, "Missile") = DesiredAt(items, options_, 44)
      /\ LogicCount(items, options_, "PowerBomb") = DesiredAt(items, options_, 43)
      /\ LogicCount(items, options_, "DarkAmmo") = DesiredAt(items, options_, 45)
      /\ LogicCount(items, options_, "LightAmmo") = DesiredAt(items, options_, 46)
  <2>1. LogicCount(items, options_, "Missile") = DesiredAt(items, options_, 44)
    BY MissilesAgree, SlotsDesired, Zenon
  <2>2. LogicCount(items, options_, "PowerBomb") = DesiredAt(items, options_, 43)
    BY PowerBombsAgree, SlotsDesired, Zenon
  <2>3. LogicCount(items, options_, "DarkAmmo") = DesiredAt(items, options_, 45)
    BY AmmoAgrees, SlotsDesired, Zenon
  <2>4. LogicCount(items, options_, "LightAmmo") = DesiredAt(items, options_, 46)
    BY AmmoAgrees, SlotsDesired, Zenon
  <2> QED
    BY <2>1, <2>2, <2>3, <2>4
<1> QED
  BY <1>1 DEF CountSlots

LEMMA FlagsAgree ==
  ASSUME NEW items \in Seq(Items), NEW options_ \in SlotData
  PROVE  \A r \in FlagSlots :
           LogicHas(items, options_, r[1]) <=> DesiredAt(items, options_, r[2]) = 1
<1>1. \A slot \in {1, 2, 13, 14, 15, 26} : DesiredAt(items, options_, slot) = PlainDesired(items, slot)
  BY SlotsDesired DEF PlainSlots
<1>2. LogicHas(items, options_, "MissileLauncher") <=> DesiredAt(items, options_, 73) = 1
  <2>1. LogicHas(items, options_, "MissileLauncher") <=> MissilesUnlocked(items, options_)
    BY FlagsOfLogic, MissilesAgree, Zenon
  <2>2. DesiredAt(items, options_, 73) = IF MissilesUnlocked(items, options_) THEN 1 ELSE 0
    BY SlotsDesired, Zenon
  <2> QED
    BY <2>1, <2>2
<1>3. /\ LogicHas(items, options_, "DarkSuit") <=> DesiredAt(items, options_, 13) = 1
      /\ LogicHas(items, options_, "LightSuit") <=> DesiredAt(items, options_, 14) = 1
      /\ LogicHas(items, options_, "Dark") <=> DesiredAt(items, options_, 1) = 1
      /\ LogicHas(items, options_, "Light") <=> DesiredAt(items, options_, 2) = 1
      /\ LogicHas(items, options_, "Seekers") <=> DesiredAt(items, options_, 26) = 1
      /\ LogicHas(items, options_, "MorphBall") <=> DesiredAt(items, options_, 15) = 1
  BY <1>1, FlagsOfLogic, PlainAgrees
<1> QED
  BY <1>2, <1>3 DEF FlagSlots

LEMMA LogicIsClient == ItemsTyped => LogicAgreesWithClient
<1> SUFFICES ASSUME ItemsTyped PROVE LogicAgreesWithClient
  OBVIOUS
<1>1. received \in Seq(Items) /\ data \in SlotData
  BY DEF ItemsTyped
<1>2. \A slot \in Slots : Desired(received, data)[slot] = DesiredAt(received, data, slot)
  BY DEF Desired
<1>3. \A r \in CountSlots \cup FlagSlots : r[2] \in Slots
  BY DEF CountSlots, FlagSlots, Slots, PlainSlots, ComputedSlots
<1>4. LogicCount(received, data, "EnergyTank") = Copies(received, "Energy Tank")
  BY DEF LogicCount
<1>5. DesiredAt(received, data, 42) = EnergyTanksDesired(received) /\ 42 \in Slots
  BY SlotsDesired DEF Slots, ComputedSlots
<1>6. LogicCount(received, data, "EnergyTank") <= EnergyTankCap =>
        LogicCount(received, data, "EnergyTank") = DesiredAt(received, data, 42)
  <2> DEFINE tanks == Copies(received, "Energy Tank")
  <2>1. DesiredAt(received, data, 42) = IF tanks > EnergyTankCap THEN EnergyTankCap ELSE tanks
    BY <1>5 DEF EnergyTanksDesired
  <2>2. tanks \in Nat
    BY <1>1, HasIsCopies
  <2> HIDE DEF tanks
  <2>3. tanks <= EnergyTankCap => tanks = DesiredAt(received, data, 42)
    BY <2>1, <2>2, CapAssumption
  <2> QED
    BY <1>4, <2>3 DEF tanks
<1>7. \A r \in CountSlots : LogicCount(received, data, r[1]) = Desired(received, data)[r[2]]
  BY <1>1, <1>2, <1>3, CountsAgree
<1>8. \A r \in FlagSlots : LogicHas(received, data, r[1]) <=> Desired(received, data)[r[2]] = 1
  BY <1>1, <1>2, <1>3, FlagsAgree
<1> QED
  BY <1>2, <1>5, <1>6, <1>7, <1>8 DEF LogicAgreesWithClient

-----------------------------------------------------------------------------
(* Loops: a function defined from its predecessor, up to some number.      *)

Iterates(f, n, base, step) == f = [k \in 0 .. n |-> IF k = 0 THEN base ELSE step[<<k, f[k - 1]>>]]

LEMMA IterationExists ==
  ASSUME NEW S, NEW base \in S, NEW step \in [Nat \X S -> S], NEW n \in Nat
  PROVE  \E f \in [0 .. n -> S] : Iterates(f, n, base, step)
<1> DEFINE Good(m) == \E f \in [0 .. m -> S] : Iterates(f, m, base, step)
           bad == {m \in Nat : ~Good(m)}
<1>1. Good(0)
  <2> DEFINE f == [k \in 0 .. 0 |-> base]
  <2>1. f \in [0 .. 0 -> S] /\ Iterates(f, 0, base, step)
    BY DEF Iterates
  <2> QED
    BY <2>1
<1>2. ASSUME NEW m \in Nat, m # 0, Good(m - 1) PROVE Good(m)
  <2>1. PICK f \in [0 .. m - 1 -> S] : Iterates(f, m - 1, base, step)
    BY <1>2
  <2> DEFINE g == [k \in 0 .. m |-> IF k = m THEN step[<<m, f[m - 1]>>] ELSE f[k]]
  <2>2. m - 1 \in 0 .. m - 1 /\ f[m - 1] \in S
    BY <1>2
  <2>3. <<m, f[m - 1]>> \in Nat \X S
    BY <2>2
  <2>4. g \in [0 .. m -> S]
    BY <2>2, <2>3
  <2>5. \A k \in 0 .. m : g[k] = IF k = 0 THEN base ELSE step[<<k, g[k - 1]>>]
    <3>1. SUFFICES ASSUME NEW k \in 0 .. m
                   PROVE  g[k] = IF k = 0 THEN base ELSE step[<<k, g[k - 1]>>]
      OBVIOUS
    <3>2. CASE k = m
      BY <1>2, <3>2
    <3>3. CASE k # m
      <4>1. k \in 0 .. m - 1 /\ (k # 0 => k - 1 \in 0 .. m - 1 /\ k - 1 \in 0 .. m /\ k - 1 # m)
        BY <3>3
      <4>2. f[k] = IF k = 0 THEN base ELSE step[<<k, f[k - 1]>>]
        BY <2>1, <4>1 DEF Iterates
      <4> QED
        BY <3>3, <4>1, <4>2
    <3> QED
      BY <3>2, <3>3
  <2> HIDE DEF g
  <2>6. Iterates(g, m, base, step)
    BY <2>4, <2>5 DEF Iterates
  <2> QED
    BY <2>4, <2>6
<1> HIDE DEF Good
<1>3. bad = {}
  <2>1. SUFFICES ASSUME bad # {} PROVE FALSE
    OBVIOUS
  <2>2. PICK m \in bad : \A k \in bad : m <= k
    BY <2>1, LeastNumber
  <2>3. m # 0 /\ m - 1 \in Nat /\ m - 1 \notin bad
    BY <1>1, <2>2
  <2> QED
    BY <1>2, <2>2, <2>3
<1>4. Good(n)
  BY <1>3
<1> QED
  BY <1>4 DEF Good

-----------------------------------------------------------------------------
(* Sums of gains over a list.                                              *)

Numbered(items, slot) == \A i \in 1 .. Len(items) : GainAt(items, i, slot) \in Nat

\* f runs through the sums of the first gains of a slot.
SumsUp(f, items, slot) ==
  /\ f \in [0 .. Len(items) -> Nat]
  /\ f[0] = 0
  /\ \A k \in 1 .. Len(items) : f[k] = f[k - 1] + GainAt(items, k, slot)

LEMMA SummedIsSum ==
  ASSUME NEW items \in Seq(Items), NEW slot, Numbered(items, slot)
  PROVE  \E f : SumsUp(f, items, slot) /\ Summed(items, slot) = f[Len(items)]
<1> DEFINE size    == Len(items)
           gain(k) == IF k \in 1 .. size THEN GainAt(items, k, slot) ELSE 0
           step    == [p \in Nat \X Nat |-> p[2] + gain(p[1])]
           Sum(f)  == f = [n \in 0 .. size |-> IF n = 0 THEN 0 ELSE f[n - 1] + GainAt(items, n, slot)]
           sum     == CHOOSE f : Sum(f)
<1>1. size \in Nat
  OBVIOUS
<1>2. \A k : gain(k) \in Nat
  BY DEF Numbered
<1>3. step \in [Nat \X Nat -> Nat] /\ \A k, x \in Nat : step[<<k, x>>] = x + gain(k)
  <2> HIDE DEF gain
  <2> QED
    BY <1>2
<1>4. \A k \in 1 .. size : gain(k) = GainAt(items, k, slot)
  OBVIOUS
<1> HIDE DEF gain, step, size
<1>5. PICK f \in [0 .. size -> Nat] : Iterates(f, size, 0, step)
  BY <1>1, <1>3, IterationExists
<1>6. \A k \in 0 .. size : f[k] = IF k = 0 THEN 0 ELSE f[k - 1] + GainAt(items, k, slot)
  <2>1. SUFFICES ASSUME NEW k \in 0 .. size
                 PROVE  f[k] = IF k = 0 THEN 0 ELSE f[k - 1] + GainAt(items, k, slot)
    OBVIOUS
  <2>2. f[k] = IF k = 0 THEN 0 ELSE step[<<k, f[k - 1]>>]
    BY <1>5 DEF Iterates
  <2>3. CASE k = 0
    BY <2>2, <2>3
  <2>4. CASE k # 0
    <3>1. k - 1 \in 0 .. size /\ k \in 1 .. size /\ k \in Nat
      BY <1>1, <2>4
    <3>2. f[k - 1] \in Nat
      BY <1>5, <3>1
    <3>3. step[<<k, f[k - 1]>>] = f[k - 1] + gain(k)
      BY <1>3, <3>1, <3>2
    <3> QED
      BY <1>4, <2>2, <2>4, <3>1, <3>3
  <2> QED
    BY <2>3, <2>4
<1>7. Sum(f)
  BY <1>5, <1>6
<1>8. Sum(sum)
  <2> HIDE DEF Sum
  <2> QED
    BY <1>7
<1>9. Summed(items, slot) = sum[size]
  BY DEF Summed, size
<1>10. \A k \in 0 .. size : sum[k] = IF k = 0 THEN 0 ELSE sum[k - 1] + GainAt(items, k, slot)
  BY <1>8, Zenon
<1> HIDE DEF sum, Sum
<1> DEFINE bad == {k \in Nat : k <= size /\ sum[k] # f[k]}
<1>11. bad = {}
  <2>1. SUFFICES ASSUME bad # {} PROVE FALSE
    OBVIOUS
  <2>2. PICK m \in bad : \A k \in bad : m <= k
    BY <2>1, LeastNumber
  <2>3. m \in 0 .. size /\ sum[m] # f[m]
    BY <1>1
  <2>4. m # 0 => m - 1 \in Nat /\ m - 1 <= size /\ m - 1 \notin bad
    BY <1>1, <2>2
  <2> QED
    BY <1>6, <1>10, <2>3, <2>4
<1>12. Summed(items, slot) = f[size]
  BY <1>1, <1>9, <1>11
<1>13. SumsUp(f, items, slot)
  BY <1>1, <1>5, <1>6 DEF SumsUp, size
<1> QED
  BY <1>12, <1>13 DEF size

\* The number of copies among the first k items grows by one at each copy.
LEMMA CopiesStep ==
  ASSUME NEW items \in Seq(Items), NEW item
  PROVE  \E count \in [0 .. Len(items) -> Nat] :
           /\ count[0] = 0
           /\ \A k \in 1 .. Len(items) :
                count[k] = count[k - 1] + (IF items[k] = item THEN 1 ELSE 0)
           /\ count[Len(items)] = Copies(items, item)
<1> DEFINE First(k) == {j \in 1 .. k : items[j] = item}
           count == [k \in 0 .. Len(items) |-> Cardinality(First(k))]
<1>1. \A k \in 0 .. Len(items) : IsFiniteSet(First(k)) /\ Cardinality(First(k)) \in Nat
  <2>1. SUFFICES ASSUME NEW k \in 0 .. Len(items) PROVE IsFiniteSet(First(k))
    BY FS_CardinalityType
  <2>2. First(k) \subseteq 1 .. k /\ IsFiniteSet(1 .. k)
    BY FS_Interval
  <2> QED
    BY <2>2, FS_Subset
<1>2. First(0) = {} /\ First(Len(items)) = {i \in DOMAIN items : items[i] = item}
  OBVIOUS
<1>3. ASSUME NEW k \in 1 .. Len(items)
      PROVE  First(k) = IF items[k] = item THEN First(k - 1) \cup {k} ELSE First(k - 1)
  OBVIOUS
<1>4. \A k \in 1 .. Len(items) : k \notin First(k - 1) /\ k - 1 \in 0 .. Len(items)
  OBVIOUS
<1> HIDE DEF First
<1>5. \A k \in 1 .. Len(items) :
        Cardinality(First(k)) = Cardinality(First(k - 1)) + (IF items[k] = item THEN 1 ELSE 0)
  <2>1. SUFFICES ASSUME NEW k \in 1 .. Len(items)
                 PROVE  Cardinality(First(k))
                          = Cardinality(First(k - 1)) + (IF items[k] = item THEN 1 ELSE 0)
    OBVIOUS
  <2>2. k \notin First(k - 1) /\ IsFiniteSet(First(k - 1)) /\ Cardinality(First(k - 1)) \in Nat
    BY <1>1, <1>4
  <2>3. Cardinality(First(k - 1) \cup {k}) = Cardinality(First(k - 1)) + 1
    BY <2>2, FS_AddElement
  <2>4. CASE items[k] = item
    BY <1>3, <2>2, <2>3, <2>4
  <2>5. CASE items[k] # item
    <3>1. First(k) = First(k - 1)
      BY <1>3, <2>5
    <3> QED
      BY <2>2, <2>5, <3>1
  <2> QED
    BY <2>4, <2>5
<1>6. count \in [0 .. Len(items) -> Nat] /\ count[0] = 0 /\ count[Len(items)] = Copies(items, item)
  BY <1>1, <1>2, FS_EmptySet DEF Copies
<1>7. \A k \in 1 .. Len(items) : count[k] = count[k - 1] + (IF items[k] = item THEN 1 ELSE 0)
  BY <1>4, <1>5
<1> QED
  BY <1>6, <1>7

\* What one copy of an item weighs, when at most three items weigh anything.
Weight(x, a, u, b, v, c, w) == IF x = a THEN u ELSE IF x = b THEN v ELSE IF x = c THEN w ELSE 0

Weighs(items, slot, a, u, b, v, c, w) ==
  \A i \in 1 .. Len(items) : GainAt(items, i, slot) = Weight(items[i], a, u, b, v, c, w)

LEMMA WeightedSum ==
  ASSUME NEW items \in Seq(Items), NEW slot, NEW a, NEW b, NEW c,
         NEW u \in Nat, NEW v \in Nat, NEW w \in Nat,
         a # b, b # c, a # c, Weighs(items, slot, a, u, b, v, c, w)
  PROVE  Summed(items, slot) = u * Copies(items, a) + v * Copies(items, b) + w * Copies(items, c)
<1>1. Numbered(items, slot)
  BY DEF Numbered, Weighs, Weight
<1>2. PICK f : SumsUp(f, items, slot) /\ Summed(items, slot) = f[Len(items)]
  BY <1>1, SummedIsSum
<1>3. PICK p \in [0 .. Len(items) -> Nat] :
        /\ p[0] = 0
        /\ \A k \in 1 .. Len(items) : p[k] = p[k - 1] + (IF items[k] = a THEN 1 ELSE 0)
        /\ p[Len(items)] = Copies(items, a)
  BY CopiesStep
<1>4. PICK q \in [0 .. Len(items) -> Nat] :
        /\ q[0] = 0
        /\ \A k \in 1 .. Len(items) : q[k] = q[k - 1] + (IF items[k] = b THEN 1 ELSE 0)
        /\ q[Len(items)] = Copies(items, b)
  BY CopiesStep
<1>5. PICK r \in [0 .. Len(items) -> Nat] :
        /\ r[0] = 0
        /\ \A k \in 1 .. Len(items) : r[k] = r[k - 1] + (IF items[k] = c THEN 1 ELSE 0)
        /\ r[Len(items)] = Copies(items, c)
  BY CopiesStep
<1> DEFINE Right(k) == f[k] = u * p[k] + v * q[k] + w * r[k]
           bad == {k \in Nat : k <= Len(items) /\ ~Right(k)}
<1>6. Right(0)
  BY <1>2, <1>3, <1>4, <1>5 DEF SumsUp
<1>7. ASSUME NEW k \in 1 .. Len(items), Right(k - 1) PROVE Right(k)
  <2>1. p[k - 1] \in Nat /\ q[k - 1] \in Nat /\ r[k - 1] \in Nat
    BY <1>3, <1>4, <1>5
  <2> DEFINE ga == IF items[k] = a THEN u ELSE 0
             gb == IF items[k] = b THEN v ELSE 0
             gc == IF items[k] = c THEN w ELSE 0
  <2>2. f[k] = f[k - 1] + GainAt(items, k, slot)
    BY <1>2 DEF SumsUp
  <2>3. u * p[k] = u * p[k - 1] + ga
    BY <1>3, <2>1
  <2>4. v * q[k] = v * q[k - 1] + gb
    BY <1>4, <2>1
  <2>5. w * r[k] = w * r[k - 1] + gc
    BY <1>5, <2>1
  <2>6. u * p[k - 1] \in Nat /\ v * q[k - 1] \in Nat /\ w * r[k - 1] \in Nat
    BY <2>1
  <2>7. GainAt(items, k, slot) = ga + gb + gc /\ ga \in Nat /\ gb \in Nat /\ gc \in Nat
    BY DEF Weighs, Weight
  <2>8. f[k - 1] = u * p[k - 1] + v * q[k - 1] + w * r[k - 1]
    BY <1>7
  <2> HIDE DEF ga, gb, gc
  <2> QED
    BY <2>2, <2>3, <2>4, <2>5, <2>6, <2>7, <2>8
<1> HIDE DEF Right
<1>8. bad = {}
  <2>1. SUFFICES ASSUME bad # {} PROVE FALSE
    OBVIOUS
  <2>2. PICK m \in bad : \A k \in bad : m <= k
    BY <2>1, LeastNumber
  <2>3. m \in 1 .. Len(items) /\ m - 1 \in Nat /\ m - 1 <= Len(items) /\ m - 1 \notin bad
    BY <1>6, <2>2
  <2> QED
    BY <1>7, <2>2, <2>3
<1>9. Right(Len(items))
  BY <1>8
<1> QED
  BY <1>2, <1>3, <1>4, <1>5, <1>9 DEF Right

\* items.py's amounts, slot by slot: at most three items weigh anything.
LEMMA AmountGains ==
  ASSUME NEW x
  PROVE  /\ \A slot \in PlainSlots : AmountGain(x, slot) = 0
         /\ AmountGain(x, 42) = IF x = "Energy Tank" THEN 1 ELSE 0
         /\ AmountGain(x, 43) = IF x = "Power Bomb" THEN 2 ELSE IF x = "Power Bomb Expansion" THEN 1 ELSE 0
         /\ AmountGain(x, 44) =
              IF x \in {"Missile Launcher", "Seeker Launcher", "Missile Expansion"} THEN 5 ELSE 0
         /\ AmountGain(x, 45) = AmmoGain(x, "Dark Beam", "Dark Ammo Expansion")
         /\ AmountGain(x, 46) = AmmoGain(x, "Light Beam", "Light Ammo Expansion")
         /\ AmountGain(x, 73) = IF x = "Missile Launcher" THEN 1 ELSE 0
<1>1. \A slot \in PlainSlots : AmountGain(x, slot) = 0
  <2>1. SUFFICES ASSUME NEW slot \in PlainSlots PROVE AmountGain(x, slot) = 0
    OBVIOUS
  <2>2. slot \notin {42, 43, 44, 45, 46, 73}
    BY DEF PlainSlots
  <2> QED
    BY <2>2 DEF AmountGain
<1>2. AmountGain(x, 42) = IF x = "Energy Tank" THEN 1 ELSE 0
  BY DEF AmountGain
<1>3. AmountGain(x, 43) = IF x = "Power Bomb" THEN 2 ELSE IF x = "Power Bomb Expansion" THEN 1 ELSE 0
  <2>1. AmountGain(x, 43) = CASE x = "Power Bomb" -> 2 [] x = "Power Bomb Expansion" -> 1 [] OTHER -> 0
    BY DEF AmountGain
  <2> QED
    BY <2>1
<1>4. AmountGain(x, 44) =
        IF x \in {"Missile Launcher", "Seeker Launcher", "Missile Expansion"} THEN 5 ELSE 0
  BY DEF AmountGain
<1>5. AmountGain(x, 45) = AmmoGain(x, "Dark Beam", "Dark Ammo Expansion")
  BY DEF AmountGain
<1>6. AmountGain(x, 46) = AmmoGain(x, "Light Beam", "Light Ammo Expansion")
  BY DEF AmountGain
<1>7. AmountGain(x, 73) = IF x = "Missile Launcher" THEN 1 ELSE 0
  BY DEF AmountGain
<1> QED
  BY <1>1, <1>2, <1>3, <1>4, <1>5, <1>6, <1>7

AmountOnly(slot) == \A items, i : GainAt(items, i, slot) = AmountGain(items[i], slot)

LEMMA GainOf ==
  /\ AmountOnly(42) /\ AmountOnly(43) /\ AmountOnly(44)
  /\ AmountOnly(45) /\ AmountOnly(46) /\ AmountOnly(73)
  /\ \A items, i : \A slot \in PlainSlots :
       GainAt(items, i, slot) = IF Fills(items[i], StageAt(items, i), slot) THEN 1 ELSE 0
<1>1. \A x, y : ~Fills(x, y, 42) /\ ~Fills(x, y, 43) /\ ~Fills(x, y, 44)
  BY DEF Fills, PlainGains, Stages
<1>2. \A x, y : ~Fills(x, y, 45) /\ ~Fills(x, y, 46) /\ ~Fills(x, y, 73)
  BY DEF Fills, PlainGains, Stages
<1>3. \A items, i, slot :
        GainAt(items, i, slot) =
          IF Fills(items[i], StageAt(items, i), slot) THEN 1 ELSE AmountGain(items[i], slot)
  BY DEF GainAt, Fills
<1>4. \A items, i : \A slot \in PlainSlots :
        GainAt(items, i, slot) = IF Fills(items[i], StageAt(items, i), slot) THEN 1 ELSE 0
  BY <1>3, AmountGains, Zenon
<1>5. AmountOnly(42) /\ AmountOnly(43) /\ AmountOnly(44)
  BY <1>1, <1>3, Zenon DEF AmountOnly
<1>6. AmountOnly(45) /\ AmountOnly(46) /\ AmountOnly(73)
  BY <1>2, <1>3, Zenon DEF AmountOnly
<1> QED
  BY <1>4, <1>5, <1>6

\* The four shapes those amounts have.
LEMMA SumOfOne ==
  ASSUME NEW items \in Seq(Items), NEW slot, NEW a,
         \A i : GainAt(items, i, slot) = IF items[i] = a THEN 1 ELSE 0
  PROVE  Summed(items, slot) = Copies(items, a)
<1>1. PICK b, c : a # b /\ b # c /\ a # c
  <2>1. \E b, c \in {0, 1, 2} : a # b /\ b # c /\ a # c
    OBVIOUS
  <2> QED
    BY <2>1
<1>2. Weighs(items, slot, a, 1, b, 0, c, 0)
  BY DEF Weighs, Weight
<1>3. \A u, v, w \in Nat : Weighs(items, slot, a, u, b, v, c, w) =>
        Summed(items, slot) = u * Copies(items, a) + v * Copies(items, b) + w * Copies(items, c)
  BY <1>1, WeightedSum
<1>4. Summed(items, slot) = 1 * Copies(items, a) + 0 * Copies(items, b) + 0 * Copies(items, c)
  BY <1>2, <1>3
<1> QED
  BY <1>4, HasIsCopies

LEMMA SumOfBombs ==
  ASSUME NEW items \in Seq(Items), NEW slot, AmountOnly(slot), NEW a, NEW b, a # b,
         \A x : AmountGain(x, slot) = IF x = a THEN 2 ELSE IF x = b THEN 1 ELSE 0
  PROVE  Summed(items, slot) = 2 * Copies(items, a) + Copies(items, b)
<1>1. PICK c : b # c /\ a # c
  <2>1. \E c \in {0, 1, 2} : b # c /\ a # c
    OBVIOUS
  <2> QED
    BY <2>1
<1>2. Weighs(items, slot, a, 2, b, 1, c, 0)
  BY DEF Weighs, Weight, AmountOnly
<1>3. \A u, v, w \in Nat : Weighs(items, slot, a, u, b, v, c, w) =>
        Summed(items, slot) = u * Copies(items, a) + v * Copies(items, b) + w * Copies(items, c)
  BY <1>1, WeightedSum
<1>4. Summed(items, slot) = 2 * Copies(items, a) + 1 * Copies(items, b) + 0 * Copies(items, c)
  BY <1>2, <1>3
<1> QED
  BY <1>4, HasIsCopies

LEMMA SumOfMissiles ==
  ASSUME NEW items \in Seq(Items), NEW slot, AmountOnly(slot),
         NEW a, NEW b, NEW c, a # b, b # c, a # c,
         \A x : AmountGain(x, slot) = IF x \in {a, b, c} THEN 5 ELSE 0
  PROVE  Summed(items, slot) = 5 * (Copies(items, a) + Copies(items, b) + Copies(items, c))
<1>1. Weighs(items, slot, a, 5, b, 5, c, 5)
  BY DEF Weighs, Weight, AmountOnly
<1>2. \A u, v, w \in Nat : Weighs(items, slot, a, u, b, v, c, w) =>
        Summed(items, slot) = u * Copies(items, a) + v * Copies(items, b) + w * Copies(items, c)
  BY WeightedSum
<1>3. Summed(items, slot) = 5 * Copies(items, a) + 5 * Copies(items, b) + 5 * Copies(items, c)
  BY <1>1, <1>2
<1> QED
  BY <1>3, HasIsCopies

LEMMA SumOfAmmo ==
  ASSUME NEW items \in Seq(Items), NEW slot, AmountOnly(slot),
         NEW a, NEW b, NEW c, a # b, b # c, a # c,
         \A x : AmountGain(x, slot) = CASE x = a -> 50 [] x = b -> 20 [] x = c -> 10 [] OTHER -> 0
  PROVE  Summed(items, slot) = 50 * Copies(items, a) + 20 * Copies(items, b) + 10 * Copies(items, c)
<1>1. \A x : AmountGain(x, slot) = Weight(x, a, 50, b, 20, c, 10)
  BY DEF Weight
<1>2. Weighs(items, slot, a, 50, b, 20, c, 10)
  BY <1>1 DEF Weighs, AmountOnly
<1>3. \A u, v, w \in Nat : Weighs(items, slot, a, u, b, v, c, w) =>
        Summed(items, slot) = u * Copies(items, a) + v * Copies(items, b) + w * Copies(items, c)
  BY WeightedSum
<1> QED
  BY <1>2, <1>3

\* What the sums come to, as numbers of copies.
LEMMA SumsAsCopies ==
  ASSUME NEW items \in Seq(Items)
  PROVE  /\ Summed(items, 42) = Copies(items, "Energy Tank")
         /\ Summed(items, 43) = 2 * Copies(items, "Power Bomb") + Copies(items, "Power Bomb Expansion")
         /\ Summed(items, 44) = 5 * (Copies(items, "Missile Launcher") + Copies(items, "Seeker Launcher")
                                       + Copies(items, "Missile Expansion"))
         /\ Summed(items, 45) = AmmoDesired(items, "Dark Beam", "Dark Ammo Expansion")
         /\ Summed(items, 46) = AmmoDesired(items, "Light Beam", "Light Ammo Expansion")
         /\ Summed(items, 73) = Copies(items, "Missile Launcher")
<1>1. Summed(items, 42) = Copies(items, "Energy Tank")
  <2> DEFINE a == "Energy Tank"
  <2>1. \A x : AmountGain(x, 42) = IF x = a THEN 1 ELSE 0
    BY AmountGains, Zenon
  <2> HIDE DEF a
  <2>2. \A i : GainAt(items, i, 42) = IF items[i] = a THEN 1 ELSE 0
    BY <2>1, GainOf DEF AmountOnly
  <2>3. Summed(items, 42) = Copies(items, a)
    BY <2>2, SumOfOne
  <2> QED
    BY <2>3, Zenon DEF a
<1>2. Summed(items, 43) = 2 * Copies(items, "Power Bomb") + Copies(items, "Power Bomb Expansion")
  <2> DEFINE a == "Power Bomb"
             b == "Power Bomb Expansion"
  <2>1. a # b /\ \A x : AmountGain(x, 43) = IF x = a THEN 2 ELSE IF x = b THEN 1 ELSE 0
    BY AmountGains, Zenon
  <2> HIDE DEF a, b
  <2>2. Summed(items, 43) = 2 * Copies(items, a) + Copies(items, b)
    BY <2>1, GainOf, SumOfBombs
  <2> QED
    BY <2>2, Zenon DEF a, b
<1>3. Summed(items, 44) = 5 * (Copies(items, "Missile Launcher") + Copies(items, "Seeker Launcher")
                                 + Copies(items, "Missile Expansion"))
  <2> DEFINE a == "Missile Launcher"
             b == "Seeker Launcher"
             c == "Missile Expansion"
  <2>1. a # b /\ b # c /\ a # c /\ \A x : AmountGain(x, 44) = IF x \in {a, b, c} THEN 5 ELSE 0
    BY AmountGains, Zenon
  <2> HIDE DEF a, b, c
  <2>2. Summed(items, 44) = 5 * (Copies(items, a) + Copies(items, b) + Copies(items, c))
    BY <2>1, GainOf, SumOfMissiles
  <2> QED
    BY <2>2, Zenon DEF a, b, c
<1>4. Summed(items, 45) = AmmoDesired(items, "Dark Beam", "Dark Ammo Expansion")
  <2> DEFINE a == "Dark Beam"
             b == "Dark Ammo Expansion"
             c == "Beam Ammo Expansion"
  <2>1. a # b /\ b # c /\ a # c /\ \A x : AmountGain(x, 45) =
          CASE x = a -> 50 [] x = b -> 20 [] x = c -> 10 [] OTHER -> 0
    BY AmountGains, Zenon DEF AmmoGain
  <2> HIDE DEF a, b, c
  <2>2. Summed(items, 45) = 50 * Copies(items, a) + 20 * Copies(items, b) + 10 * Copies(items, c)
    BY <2>1, GainOf, SumOfAmmo
  <2> QED
    BY <2>2, Zenon DEF a, b, c, AmmoDesired
<1>5. Summed(items, 46) = AmmoDesired(items, "Light Beam", "Light Ammo Expansion")
  <2> DEFINE a == "Light Beam"
             b == "Light Ammo Expansion"
             c == "Beam Ammo Expansion"
  <2>1. a # b /\ b # c /\ a # c /\ \A x : AmountGain(x, 46) =
          CASE x = a -> 50 [] x = b -> 20 [] x = c -> 10 [] OTHER -> 0
    BY AmountGains, Zenon DEF AmmoGain
  <2> HIDE DEF a, b, c
  <2>2. Summed(items, 46) = 50 * Copies(items, a) + 20 * Copies(items, b) + 10 * Copies(items, c)
    BY <2>1, GainOf, SumOfAmmo
  <2> QED
    BY <2>2, Zenon DEF a, b, c, AmmoDesired
<1>6. Summed(items, 73) = Copies(items, "Missile Launcher")
  <2> DEFINE a == "Missile Launcher"
  <2>1. \A x : AmountGain(x, 73) = IF x = a THEN 1 ELSE 0
    BY AmountGains, Zenon
  <2> HIDE DEF a
  <2>2. \A i : GainAt(items, i, 73) = IF items[i] = a THEN 1 ELSE 0
    BY <2>1, GainOf DEF AmountOnly
  <2>3. Summed(items, 73) = Copies(items, a)
    BY <2>2, SumOfOne
  <2> QED
    BY <2>3, Zenon DEF a
<1> QED
  BY <1>1, <1>2, <1>3, <1>4, <1>5, <1>6

\* A plain slot is one as soon as something fills it, and its sum at least one.
LEMMA PlainSums ==
  ASSUME NEW items \in Seq(Items), NEW slot \in PlainSlots
  PROVE  /\ Summed(items, slot) \in Nat
         /\ Summed(items, slot) >= 1 <=> PlainDesired(items, slot) = 1
         /\ PlainDesired(items, slot) \in {0, 1}
<1> DEFINE Filled(k) == Fills(items[k], StageAt(items, k), slot)
<1>1. \A k : GainAt(items, k, slot) = IF Filled(k) THEN 1 ELSE 0
  BY GainOf
<1>2. Numbered(items, slot)
  BY <1>1 DEF Numbered
<1>3. PICK f : SumsUp(f, items, slot) /\ Summed(items, slot) = f[Len(items)]
  BY <1>2, SummedIsSum
<1>4. PlainDesired(items, slot) = IF \E i \in 1 .. Len(items) : Filled(i) THEN 1 ELSE 0
  <2>1. DOMAIN items = 1 .. Len(items)
    OBVIOUS
  <2> QED
    BY <2>1, Zenon DEF PlainDesired, Fills
<1> HIDE DEF Filled
<1> DEFINE Right(k) == f[k] >= 1 <=> \E i \in 1 .. k : Filled(i)
           bad == {k \in Nat : k <= Len(items) /\ ~Right(k)}
<1>5. Right(0)
  BY <1>3 DEF SumsUp
<1>6. ASSUME NEW k \in 1 .. Len(items), Right(k - 1) PROVE Right(k)
  <2>1. f[k] = f[k - 1] + (IF Filled(k) THEN 1 ELSE 0) /\ f[k - 1] \in Nat
    <3>1. k - 1 \in 0 .. Len(items)
      OBVIOUS
    <3>2. f[k] = f[k - 1] + GainAt(items, k, slot) /\ f[k - 1] \in Nat
      BY <1>3, <3>1 DEF SumsUp
    <3> QED
      BY <1>1, <3>2
  <2>2. CASE Filled(k)
    <3>1. k \in 1 .. k /\ f[k] >= 1
      BY <2>1, <2>2
    <3> QED
      BY <2>2, <3>1
  <2>3. CASE ~Filled(k)
    <3>1. f[k] = f[k - 1]
      BY <2>1, <2>3
    <3>2. (\E i \in 1 .. k : Filled(i)) <=> (\E i \in 1 .. k - 1 : Filled(i))
      <4>1. \A i \in 1 .. k : i = k \/ i \in 1 .. k - 1
        OBVIOUS
      <4>2. \A i \in 1 .. k - 1 : i \in 1 .. k
        OBVIOUS
      <4> QED
        BY <2>3, <4>1, <4>2, Zenon
    <3> QED
      BY <1>6, <3>1, <3>2
  <2> QED
    BY <2>2, <2>3
<1> HIDE DEF Right
<1>7. bad = {}
  <2>1. SUFFICES ASSUME bad # {} PROVE FALSE
    OBVIOUS
  <2>2. PICK m \in bad : \A k \in bad : m <= k
    BY <2>1, LeastNumber
  <2>3. m \in 1 .. Len(items) /\ m - 1 \in Nat /\ m - 1 <= Len(items) /\ m - 1 \notin bad
    BY <1>5, <2>2
  <2> QED
    BY <1>6, <2>2, <2>3
<1>8. Right(Len(items)) /\ f[Len(items)] \in Nat
  BY <1>3, <1>7 DEF SumsUp
<1> QED
  BY <1>3, <1>4, <1>8 DEF Right

-----------------------------------------------------------------------------
(* The ISO's start and the client.                                         *)

LEMMA TanksStart ==
  ASSUME NEW items \in Seq(Items)
  PROVE  (IF Summed(items, 42) > EnergyTankCap THEN EnergyTankCap ELSE Summed(items, 42))
           = EnergyTanksDesired(items)
BY SumsAsCopies, Zenon DEF EnergyTanksDesired

LEMMA BombsStart ==
  ASSUME NEW items \in Seq(Items), NEW options_ \in SlotData
  PROVE  /\ StartingPowerBombs(items, options_) >= PowerBombsDesired(items, options_)
         /\ Copies(items, "Power Bomb") <= 1 =>
              StartingPowerBombs(items, options_) = PowerBombsDesired(items, options_)
<1> DEFINE bomb  == "Power Bomb"
           extra == "Power Bomb Expansion"
<1>1. StartingPowerBombs(items, options_) =
        IF options_.unlockPowerBombs \/ Has(items, bomb)
        THEN 2 * Copies(items, bomb) + Copies(items, extra) ELSE 0
  BY SumsAsCopies, Zenon DEF StartingPowerBombs
<1>2. PowerBombsDesired(items, options_) =
        IF Has(items, bomb) \/ (options_.unlockPowerBombs /\ Has(items, extra))
        THEN (IF Has(items, bomb) THEN 2 ELSE 0) + Copies(items, extra) ELSE 0
  BY Zenon DEF PowerBombsDesired, PowerBombsUnlocked
<1> HIDE DEF bomb, extra
<1>3. /\ StartingPowerBombs(items, options_) >= PowerBombsDesired(items, options_)
      /\ Copies(items, bomb) <= 1 =>
           StartingPowerBombs(items, options_) = PowerBombsDesired(items, options_)
  BY <1>1, <1>2, HasIsCopies
<1> QED
  BY <1>3, Zenon DEF bomb

\* Seekers alone, with expansions to unlock the launcher: their missiles wait.
SeekersWait(items, options_) ==
  Has(items, "Seeker Launcher") /\ ~MissilesUnlocked(items, options_) /\ options_.unlockLauncher

LEMMA MissilesStart ==
  ASSUME NEW items \in Seq(Items), NEW options_ \in SlotData
  PROVE  /\ StartingMissiles(items, options_) >= MissilesDesired(items, options_)
         /\ StartingLauncher(items, options_) >= (IF MissilesUnlocked(items, options_) THEN 1 ELSE 0)
         /\ Copies(items, "Missile Launcher") <= 1 /\ ~SeekersWait(items, options_) =>
              /\ StartingMissiles(items, options_) = MissilesDesired(items, options_)
              /\ StartingLauncher(items, options_) = IF MissilesUnlocked(items, options_) THEN 1 ELSE 0
<1> DEFINE launcher == "Missile Launcher"
           seekers  == "Seeker Launcher"
           extra    == "Missile Expansion"
           unlock   == options_.unlockLauncher
           ml       == Copies(items, launcher)
           sl       == Copies(items, seekers)
           me       == Copies(items, extra)
           gained   == options_.launcherBonus
           sum      == MissilesSummed(items, options_)
<1>1. sum = 5 * (ml + sl + me) + (IF Has(items, launcher) THEN gained ELSE 0)
  BY SumsAsCopies, Zenon DEF MissilesSummed
<1>2. StartingMissiles(items, options_) = IF unlock \/ Has(items, launcher) THEN sum ELSE 0
  BY Zenon DEF StartingMissiles
<1>3. StartingLauncher(items, options_) = IF ml = 0 /\ unlock /\ sum > 0 THEN 1 ELSE ml
  BY SumsAsCopies, Zenon DEF StartingLauncher
<1>4. MissilesUnlocked(items, options_) <=> Has(items, launcher) \/ (unlock /\ Has(items, extra))
  BY Zenon DEF MissilesUnlocked
<1>5. MissilesDesired(items, options_) =
        IF MissilesUnlocked(items, options_)
        THEN 5 * ((IF Has(items, launcher) THEN 1 ELSE 0) + sl + me)
               + (IF Has(items, launcher) THEN 1 ELSE 0) * gained
        ELSE 0
  BY Zenon DEF MissilesDesired
<1>6. SeekersWait(items, options_) <=>
        Has(items, seekers) /\ ~MissilesUnlocked(items, options_) /\ unlock
  BY Zenon DEF SeekersWait
<1>7. gained \in Nat /\ unlock \in BOOLEAN
  BY DEF SlotData
<1> HIDE DEF launcher, seekers, extra, unlock, gained, sum
<1>8. /\ ml \in Nat /\ sl \in Nat /\ me \in Nat
      /\ Has(items, launcher) <=> ml >= 1
      /\ Has(items, seekers) <=> sl >= 1
      /\ Has(items, extra) <=> me >= 1
  BY HasIsCopies
<1> HIDE DEF ml, sl, me
<1>9. CASE ml >= 1
  <2>1. sum = 5 * (ml + sl + me) + gained
    BY <1>1, <1>8, <1>9
  <2>2. MissilesDesired(items, options_) = 5 * (1 + sl + me) + gained
    BY <1>4, <1>5, <1>7, <1>8, <1>9
  <2>3. StartingMissiles(items, options_) = sum /\ StartingLauncher(items, options_) = ml
    BY <1>2, <1>3, <1>8, <1>9
  <2>4. MissilesUnlocked(items, options_)
    BY <1>4, <1>8, <1>9
  <2>5. /\ StartingMissiles(items, options_) >= MissilesDesired(items, options_)
        /\ ml <= 1 => StartingMissiles(items, options_) = MissilesDesired(items, options_)
    BY <1>7, <1>8, <1>9, <2>1, <2>2, <2>3
  <2>6. StartingLauncher(items, options_) >= 1 /\ (ml <= 1 => StartingLauncher(items, options_) = 1)
    BY <1>8, <1>9, <2>3
  <2> QED
    BY <2>4, <2>5, <2>6, Zenon DEF ml, launcher
<1>10. CASE ml = 0
  <2>1. ~Has(items, launcher) /\ sum = 5 * (sl + me)
    BY <1>1, <1>8, <1>10
  <2>2. MissilesDesired(items, options_) = IF MissilesUnlocked(items, options_) THEN 5 * (sl + me) ELSE 0
    BY <1>5, <1>7, <1>8, <2>1
  <2>3. MissilesUnlocked(items, options_) <=> unlock /\ me >= 1
    BY <1>4, <1>8, <2>1
  <2>4. SeekersWait(items, options_) <=> sl >= 1 /\ ~(unlock /\ me >= 1) /\ unlock
    BY <1>6, <1>8, <2>3
  <2>5. /\ StartingMissiles(items, options_) = IF unlock THEN 5 * (sl + me) ELSE 0
        /\ StartingLauncher(items, options_) = IF unlock /\ sum > 0 THEN 1 ELSE 0
    BY <1>2, <1>3, <1>10, <2>1
  <2>6. sum > 0 <=> sl >= 1 \/ me >= 1
    BY <1>8, <2>1
  <2>7. /\ StartingMissiles(items, options_) >= MissilesDesired(items, options_)
        /\ ~SeekersWait(items, options_) =>
             StartingMissiles(items, options_) = MissilesDesired(items, options_)
    BY <1>7, <1>8, <2>2, <2>3, <2>4, <2>5
  <2>8. /\ StartingLauncher(items, options_) >= (IF MissilesUnlocked(items, options_) THEN 1 ELSE 0)
        /\ ~SeekersWait(items, options_) =>
             StartingLauncher(items, options_) = IF MissilesUnlocked(items, options_) THEN 1 ELSE 0
    BY <1>7, <1>8, <2>3, <2>4, <2>5, <2>6
  <2> QED
    BY <2>7, <2>8
<1>11. ml >= 1 \/ ml = 0
  BY <1>8
<1> QED
  BY <1>9, <1>10, <1>11, Zenon

LEMMA StartingSlots ==
  ASSUME NEW items, NEW options_
  PROVE  /\ StartingAt(items, options_, 12) = 1
         /\ StartingAt(items, options_, 42) =
              IF Summed(items, 42) > EnergyTankCap THEN EnergyTankCap ELSE Summed(items, 42)
         /\ StartingAt(items, options_, 43) = StartingPowerBombs(items, options_)
         /\ StartingAt(items, options_, 44) = StartingMissiles(items, options_)
         /\ StartingAt(items, options_, 45) = Summed(items, 45)
         /\ StartingAt(items, options_, 46) = Summed(items, 46)
         /\ StartingAt(items, options_, 73) = StartingLauncher(items, options_)
         /\ \A slot \in PlainSlots :
              StartingAt(items, options_, slot) =
                IF slot = 15 /\ Summed(items, 15) = 0 THEN 1 ELSE Summed(items, slot)
<1>1. StartingAt(items, options_, 12) = 1
  BY DEF StartingAt
<1>2. StartingAt(items, options_, 42) =
        IF Summed(items, 42) > EnergyTankCap THEN EnergyTankCap ELSE Summed(items, 42)
  BY DEF StartingAt, MandatorySlots
<1>3. StartingAt(items, options_, 43) = StartingPowerBombs(items, options_)
  BY DEF StartingAt, MandatorySlots
<1>4. StartingAt(items, options_, 44) = StartingMissiles(items, options_)
  BY DEF StartingAt, MandatorySlots
<1>5. StartingAt(items, options_, 45) = Summed(items, 45)
  BY DEF StartingAt, MandatorySlots
<1>6. StartingAt(items, options_, 46) = Summed(items, 46)
  BY DEF StartingAt, MandatorySlots
<1>7. StartingAt(items, options_, 73) = StartingLauncher(items, options_)
  BY DEF StartingAt, MandatorySlots
<1>8. ASSUME NEW slot \in PlainSlots
      PROVE  StartingAt(items, options_, slot) =
               IF slot = 15 /\ Summed(items, 15) = 0 THEN 1 ELSE Summed(items, slot)
  <2>1. slot \notin {12, 42, 43, 44, 73}
    BY DEF PlainSlots
  <2> QED
    BY <2>1 DEF StartingAt, MandatorySlots
<1> QED
  BY <1>1, <1>2, <1>3, <1>4, <1>5, <1>6, <1>7, <1>8

LEMMA PrecollectedTyped ==
  ASSUME NEW list \in Seq(Items)
  PROVE  /\ Precollected(list) \in Seq(Items)
         /\ Has(Precollected(list), "Morph Ball")
         /\ \A item : item # "Morph Ball" => (Has(Precollected(list), item) <=> Has(list, item))
<1> DEFINE ball  == "Morph Ball"
           whole == Append(list, ball)
<1>1. ball \in Items
  <2>1. <<"Morph Ball", 15>> \in PlainGains
    BY DEF PlainGains
  <2>2. <<"Morph Ball", 15>>[1] = "Morph Ball"
    OBVIOUS
  <2> QED
    BY <2>1, <2>2, Zenon DEF Items
<1>2. Precollected(list) = list \o <<ball>>
  BY Zenon DEF Precollected, DefaultStartingItems
<1> HIDE DEF ball
<1>3. Precollected(list) \in Seq(Items)
  BY <1>1, <1>2
<1>4. /\ DOMAIN Precollected(list) = 1 .. Len(list) + 1
      /\ \A i \in 1 .. Len(list) : Precollected(list)[i] = list[i]
      /\ Precollected(list)[Len(list) + 1] = ball
  BY <1>1, <1>2
<1>5. Has(Precollected(list), ball)
  <2>1. Len(list) + 1 \in DOMAIN Precollected(list)
    BY <1>4
  <2> QED
    BY <1>4, <2>1 DEF Has
<1>6. ASSUME NEW item, item # ball PROVE Has(Precollected(list), item) <=> Has(list, item)
  <2>1. \A i \in 1 .. Len(list) + 1 : i = Len(list) + 1 \/ i \in 1 .. Len(list)
    OBVIOUS
  <2>2. \A i \in 1 .. Len(list) : i \in 1 .. Len(list) + 1
    OBVIOUS
  <2>3. DOMAIN list = 1 .. Len(list)
    OBVIOUS
  <2> QED
    BY <1>4, <1>6, <2>1, <2>2, <2>3, Zenon DEF Has
<1>7. \A item : item # ball => (Has(Precollected(list), item) <=> Has(list, item))
  BY <1>6
<1> QED
  BY <1>3, <1>5, <1>7, Zenon DEF ball

\* Slot by slot: a start holds what would be granted, and no more but for second
\* copies and waiting Seekers.
WithBall(items) == Has(items, "Morph Ball")

AsGranted(items, options_) ==
  /\ ~SeekersWait(items, options_)
  /\ Copies(items, "Power Bomb") <= 1 /\ Copies(items, "Missile Launcher") <= 1

Covers(items, options_, slot) ==
  /\ StartingAt(items, options_, slot) >= DesiredAt(items, options_, slot)
  /\ AsGranted(items, options_) => StartingAt(items, options_, slot) = DesiredAt(items, options_, slot)

LEMMA AmountsTyped ==
  ASSUME NEW items \in Seq(Items)
  PROVE  /\ EnergyTanksDesired(items) \in Nat
         /\ AmmoDesired(items, "Dark Beam", "Dark Ammo Expansion") \in Nat
         /\ AmmoDesired(items, "Light Beam", "Light Ammo Expansion") \in Nat
<1>1. \A item : Copies(items, item) \in Nat
  BY HasIsCopies
<1>2. ASSUME NEW a, NEW b PROVE AmmoDesired(items, a, b) \in Nat
  <2> DEFINE c == "Beam Ammo Expansion"
  <2>1. AmmoDesired(items, a, b) = 50 * Copies(items, a) + 20 * Copies(items, b) + 10 * Copies(items, c)
    BY Zenon DEF AmmoDesired
  <2> HIDE DEF c
  <2> QED
    BY <1>1, <2>1
<1>3. EnergyTanksDesired(items) \in Nat
  <2> DEFINE tank == "Energy Tank"
  <2>1. EnergyTanksDesired(items) =
          IF Copies(items, tank) > EnergyTankCap THEN EnergyTankCap ELSE Copies(items, tank)
    BY Zenon DEF EnergyTanksDesired
  <2> HIDE DEF tank
  <2> QED
    BY <1>1, <2>1, CapAssumption
<1> QED
  BY <1>2, <1>3, Zenon

LEMMA ComputedCovered ==
  ASSUME NEW items \in Seq(Items), NEW options_ \in SlotData, NEW slot \in ComputedSlots
  PROVE  Covers(items, options_, slot)
<1>1. Covers(items, options_, 12)
  <2>1. StartingAt(items, options_, 12) = 1 /\ DesiredAt(items, options_, 12) = 1
    BY StartingSlots, SlotsDesired, Zenon
  <2> QED
    BY <2>1 DEF Covers
<1>2. Covers(items, options_, 42)
  <2>1. DesiredAt(items, options_, 42) = EnergyTanksDesired(items) /\ EnergyTanksDesired(items) \in Nat
    BY SlotsDesired, AmountsTyped, Zenon
  <2>2. StartingAt(items, options_, 42) = EnergyTanksDesired(items)
    BY StartingSlots, TanksStart, Zenon
  <2> QED
    BY <2>1, <2>2 DEF Covers
<1>3. Covers(items, options_, 43)
  <2>1. DesiredAt(items, options_, 43) = PowerBombsDesired(items, options_)
    BY SlotsDesired, Zenon
  <2>2. StartingAt(items, options_, 43) = StartingPowerBombs(items, options_)
    BY StartingSlots, Zenon
  <2>3. /\ StartingPowerBombs(items, options_) >= PowerBombsDesired(items, options_)
        /\ AsGranted(items, options_) => StartingPowerBombs(items, options_) = PowerBombsDesired(items, options_)
    BY BombsStart, Zenon DEF AsGranted
  <2> QED
    BY <2>1, <2>2, <2>3, Zenon DEF Covers
<1>4. Covers(items, options_, 44)
  <2>1. DesiredAt(items, options_, 44) = MissilesDesired(items, options_)
    BY SlotsDesired, Zenon
  <2>2. StartingAt(items, options_, 44) = StartingMissiles(items, options_)
    BY StartingSlots, Zenon
  <2>3. /\ StartingMissiles(items, options_) >= MissilesDesired(items, options_)
        /\ AsGranted(items, options_) => StartingMissiles(items, options_) = MissilesDesired(items, options_)
    BY MissilesStart, Zenon DEF AsGranted
  <2> QED
    BY <2>1, <2>2, <2>3, Zenon DEF Covers
<1>5. Covers(items, options_, 45)
  <2>1. DesiredAt(items, options_, 45) = AmmoDesired(items, "Dark Beam", "Dark Ammo Expansion")
    BY SlotsDesired, Zenon
  <2>2. StartingAt(items, options_, 45) = Summed(items, 45)
    BY StartingSlots, Zenon
  <2>3. Summed(items, 45) = AmmoDesired(items, "Dark Beam", "Dark Ammo Expansion")
    BY SumsAsCopies, Zenon
  <2>4. AmmoDesired(items, "Dark Beam", "Dark Ammo Expansion") \in Nat
    BY AmountsTyped, Zenon
  <2>5. DesiredAt(items, options_, 45) = StartingAt(items, options_, 45)
    BY <2>1, <2>2, <2>3, Zenon
  <2>6. DesiredAt(items, options_, 45) \in Nat
    BY <2>1, <2>4, Zenon
  <2> QED
    BY <2>5, <2>6 DEF Covers
<1>6. Covers(items, options_, 46)
  <2>1. DesiredAt(items, options_, 46) = AmmoDesired(items, "Light Beam", "Light Ammo Expansion")
    BY SlotsDesired, Zenon
  <2>2. StartingAt(items, options_, 46) = Summed(items, 46)
    BY StartingSlots, Zenon
  <2>3. Summed(items, 46) = AmmoDesired(items, "Light Beam", "Light Ammo Expansion")
    BY SumsAsCopies, Zenon
  <2>4. AmmoDesired(items, "Light Beam", "Light Ammo Expansion") \in Nat
    BY AmountsTyped, Zenon
  <2>5. DesiredAt(items, options_, 46) = StartingAt(items, options_, 46)
    BY <2>1, <2>2, <2>3, Zenon
  <2>6. DesiredAt(items, options_, 46) \in Nat
    BY <2>1, <2>4, Zenon
  <2> QED
    BY <2>5, <2>6 DEF Covers
<1>7. Covers(items, options_, 73)
  <2>1. DesiredAt(items, options_, 73) = (IF MissilesUnlocked(items, options_) THEN 1 ELSE 0)
    BY SlotsDesired, Zenon
  <2>2. StartingAt(items, options_, 73) = StartingLauncher(items, options_)
    BY StartingSlots, Zenon
  <2>3. /\ StartingLauncher(items, options_) >= (IF MissilesUnlocked(items, options_) THEN 1 ELSE 0)
        /\ AsGranted(items, options_) => StartingLauncher(items, options_) = (IF MissilesUnlocked(items, options_) THEN 1 ELSE 0)
    BY MissilesStart, Zenon DEF AsGranted
  <2> QED
    BY <2>1, <2>2, <2>3, Zenon DEF Covers
<1> QED
  BY <1>1, <1>2, <1>3, <1>4, <1>5, <1>6, <1>7 DEF ComputedSlots

LEMMA PlainCovered ==
  ASSUME NEW items \in Seq(Items), NEW options_ \in SlotData, WithBall(items), NEW slot \in PlainSlots
  PROVE  /\ StartingAt(items, options_, slot) >= DesiredAt(items, options_, slot)
         /\ Summed(items, slot) <= 1 =>
              StartingAt(items, options_, slot) = DesiredAt(items, options_, slot)
<1>1. PlainDesired(items, 15) = 1
  BY PlainAgrees, Zenon DEF WithBall
<1>2. DesiredAt(items, options_, slot) = PlainDesired(items, slot)
  BY SlotsDesired, Zenon
<1>3. StartingAt(items, options_, slot) = IF slot = 15 /\ Summed(items, 15) = 0 THEN 1 ELSE Summed(items, slot)
  BY StartingSlots, Zenon
<1>4. StartingAt(items, options_, slot) = Summed(items, slot)
  BY <1>1, <1>3, PlainSums
<1> QED
  BY <1>2, <1>4, PlainSums

LEMMA SinglesListed ==
  {"Dark Beam", "Light Beam", "Morph Ball", "Seeker Launcher", "Missile Launcher", "Power Bomb"}
    \subseteq SingleItems
<1>1. "Dark Beam" \in {g[1] : g \in PlainGains}
  <2>1. <<"Dark Beam", 1>> \in PlainGains /\ <<"Dark Beam", 1>>[1] = "Dark Beam"
    BY DEF PlainGains
  <2> QED
    BY <2>1, Zenon
<1>2. "Light Beam" \in {g[1] : g \in PlainGains}
  <2>1. <<"Light Beam", 2>> \in PlainGains /\ <<"Light Beam", 2>>[1] = "Light Beam"
    BY DEF PlainGains
  <2> QED
    BY <2>1, Zenon
<1>3. "Morph Ball" \in {g[1] : g \in PlainGains}
  <2>1. <<"Morph Ball", 15>> \in PlainGains /\ <<"Morph Ball", 15>>[1] = "Morph Ball"
    BY DEF PlainGains
  <2> QED
    BY <2>1, Zenon
<1>4. "Seeker Launcher" \in {g[1] : g \in PlainGains}
  <2>1. <<"Seeker Launcher", 26>> \in PlainGains /\ <<"Seeker Launcher", 26>>[1] = "Seeker Launcher"
    BY DEF PlainGains
  <2> QED
    BY <2>1, Zenon
<1> QED
  BY <1>1, <1>2, <1>3, <1>4, Zenon DEF SingleItems

\* The single items give every plain slot one copy at most.
LEMMA SinglesFillOnce ==
  ASSUME NEW list \in Seq(Items), WithoutRepeats(list)
  PROVE  LET items == Precollected(list)
         IN  /\ \A slot \in PlainSlots : Summed(items, slot) <= 1
             /\ Copies(items, "Power Bomb") <= 1 /\ Copies(items, "Missile Launcher") <= 1
<1> DEFINE items == Precollected(list)
<1>1. items \in Seq(Items)
  BY PrecollectedTyped, Zenon
<1>2. \A item \in SingleItems : Copies(items, item) <= 1
  BY Zenon DEF WithoutRepeats
<1>3. \A slot \in {13, 14} : Summed(items, slot) <= 1
  BY Zenon DEF WithoutRepeats
<1>4. Copies(items, "Power Bomb") <= 1 /\ Copies(items, "Missile Launcher") <= 1
  BY <1>2, Zenon DEF SingleItems
<1> HIDE DEF items
<1>5. ASSUME NEW slot \in PlainSlots, NEW item \in SingleItems,
             \A x, y : Fills(x, y, slot) <=> x = item
      PROVE  Summed(items, slot) <= 1
  <2>1. \A i : GainAt(items, i, slot) = IF items[i] = item THEN 1 ELSE 0
    BY <1>5, GainOf
  <2>2. Summed(items, slot) = Copies(items, item)
    BY <1>1, <2>1, SumOfOne
  <2> QED
    BY <1>2, <2>2
<1>6. Summed(items, 1) <= 1
  <2>1. "Dark Beam" \in SingleItems /\ \A x, y : Fills(x, y, 1) <=> x = "Dark Beam"
    BY FillsOf, SinglesListed, Zenon
  <2> QED
    BY <1>5, <2>1, Zenon DEF PlainSlots
<1>7. Summed(items, 2) <= 1
  <2>1. "Light Beam" \in SingleItems /\ \A x, y : Fills(x, y, 2) <=> x = "Light Beam"
    BY FillsOf, SinglesListed, Zenon
  <2> QED
    BY <1>5, <2>1, Zenon DEF PlainSlots
<1>8. Summed(items, 15) <= 1
  <2>1. "Morph Ball" \in SingleItems /\ \A x, y : Fills(x, y, 15) <=> x = "Morph Ball"
    BY FillsOf, SinglesListed, Zenon
  <2> QED
    BY <1>5, <2>1, Zenon DEF PlainSlots
<1>9. Summed(items, 26) <= 1
  <2>1. "Seeker Launcher" \in SingleItems /\ \A x, y : Fills(x, y, 26) <=> x = "Seeker Launcher"
    BY FillsOf, SinglesListed, Zenon
  <2> QED
    BY <1>5, <2>1, Zenon DEF PlainSlots
<1>10. \A slot \in PlainSlots : Summed(items, slot) <= 1
  <2>1. \A slot \in PlainSlots : slot \in {1, 2, 15, 26} \/ slot \in {13, 14}
    BY DEF PlainSlots
  <2>2. \A slot \in {1, 2, 15, 26} : Summed(items, slot) <= 1
    BY <1>6, <1>7, <1>8, <1>9
  <2> QED
    BY <1>3, <2>1, <2>2, Zenon
<1> QED
  BY <1>4, <1>10, Zenon DEF items

LEMMA StartIsGranted == ItemsTyped => StartMatchesClient
<1> SUFFICES ASSUME ItemsTyped PROVE StartMatchesClient
  OBVIOUS
<1> DEFINE items == Precollected(received)
<1>1. received \in Seq(Items) /\ data \in SlotData
  BY DEF ItemsTyped
<1>2. items \in Seq(Items) /\ WithBall(items)
  BY <1>1, PrecollectedTyped, Zenon DEF WithBall
<1>3. SeekersWait(items, data) <=> SeekerMissilesLocked(received, data)
  <2>1. /\ "Missile Launcher" # "Morph Ball" /\ "Missile Expansion" # "Morph Ball"
        /\ "Seeker Launcher" # "Morph Ball"
    OBVIOUS
  <2>2. /\ Has(items, "Missile Launcher") <=> Has(received, "Missile Launcher")
        /\ Has(items, "Missile Expansion") <=> Has(received, "Missile Expansion")
        /\ Has(items, "Seeker Launcher") <=> Has(received, "Seeker Launcher")
    BY <1>1, <2>1, PrecollectedTyped, Zenon
  <2> QED
    BY <2>2, Zenon DEF SeekersWait, SeekerMissilesLocked, MissilesUnlocked
<1>4. WithoutRepeats(received) =>
        /\ \A slot \in PlainSlots : Summed(items, slot) <= 1
        /\ Copies(items, "Power Bomb") <= 1 /\ Copies(items, "Missile Launcher") <= 1
  BY <1>1, SinglesFillOnce, Zenon
<1>5. \A slot \in Slots : /\ Desired(items, data)[slot] = DesiredAt(items, data, slot)
                          /\ Starting(received, data)[slot] = StartingAt(items, data, slot)
  BY Zenon DEF Desired, Starting
<1> HIDE DEF items
<1>6. \A slot \in Slots : StartingAt(items, data, slot) >= DesiredAt(items, data, slot)
  <2>1. \A slot \in PlainSlots : StartingAt(items, data, slot) >= DesiredAt(items, data, slot)
    BY <1>1, <1>2, PlainCovered
  <2>2. \A slot \in ComputedSlots : StartingAt(items, data, slot) >= DesiredAt(items, data, slot)
    BY <1>1, <1>2, ComputedCovered DEF Covers
  <2> QED
    BY <2>1, <2>2, Zenon DEF Slots
<1>7. ASSUME WithoutRepeats(received), ~SeekerMissilesLocked(received, data)
      PROVE  \A slot \in Slots : StartingAt(items, data, slot) = DesiredAt(items, data, slot)
  <2>1. \A slot \in PlainSlots : StartingAt(items, data, slot) = DesiredAt(items, data, slot)
    <3>1. \A slot \in PlainSlots : Summed(items, slot) <= 1
      BY <1>4, <1>7, Zenon
    <3> QED
      BY <1>1, <1>2, <3>1, PlainCovered
  <2>2. AsGranted(items, data)
    BY <1>3, <1>4, <1>7, Zenon DEF AsGranted
  <2>3. \A slot \in ComputedSlots : StartingAt(items, data, slot) = DesiredAt(items, data, slot)
    BY <1>1, <1>2, <2>2, ComputedCovered DEF Covers
  <2> QED
    BY <2>1, <2>3, Zenon DEF Slots
<1>8. \A slot \in Slots : Starting(received, data)[slot] >= Desired(items, data)[slot]
  BY <1>5, <1>6
<1>9. WithoutRepeats(received) /\ ~SeekerMissilesLocked(received, data)
        => StartsAsGranted(received, data)
  <2>1. SUFFICES ASSUME WithoutRepeats(received), ~SeekerMissilesLocked(received, data)
                 PROVE  Starting(received, data) = Desired(items, data)
    BY DEF StartsAsGranted, items
  <2>2. \A slot \in Slots : StartingAt(items, data, slot) = DesiredAt(items, data, slot)
    BY <1>7, <2>1, Zenon
  <2>3. /\ Starting(received, data) = [slot \in Slots |-> StartingAt(items, data, slot)]
        /\ Desired(items, data) = [slot \in Slots |-> DesiredAt(items, data, slot)]
    BY Zenon DEF Starting, Desired, items
  <2> QED
    BY <2>2, <2>3
<1> QED
  BY <1>8, <1>9, Zenon DEF StartMatchesClient, items

\* For every list of items, start inventory and options: logic counts on exactly
\* what the client writes, and the ISO starts with what the client would grant.
THEOREM AccountsAlwaysAgree == Spec => []AccountsAgree
<1>1. ItemsTyped => AccountsAgree
  BY LogicIsClient, StartIsGranted DEF AccountsAgree
<1> QED
  BY <1>1, ItemsTypedInit, ItemsTypedKept, PTL DEF Spec

-----------------------------------------------------------------------------
(* The item pool.                                                          *)

\* One trap's proportional share falls short of the exact one by less than one.
LEMMA ShareOf ==
  ASSUME NEW w \in Nat, NEW total \in Nat, NEW sum \in Nat \ {0}
  PROVE  LET share == (w * total) \div sum
         IN  /\ share \in Nat
             /\ share * sum <= w * total
             /\ w * total < share * sum + sum
             /\ w = 0 => share = 0
<1>1. w * total \in Nat
  OBVIOUS
<1>2. ASSUME NEW x \in Nat, NEW s \in Nat \ {0}
      PROVE  /\ x \div s \in Nat /\ (x \div s) * s <= x /\ x < (x \div s) * s + s
             /\ x = 0 => x \div s = 0
  OBVIOUS
<1>3. w = 0 => w * total = 0
  OBVIOUS
<1> DEFINE x == w * total
<1> HIDE DEF x
<1>4. x \in Nat /\ (w = 0 => x = 0)
  BY <1>1, <1>3 DEF x
<1>5. /\ x \div sum \in Nat /\ (x \div sum) * sum <= x /\ x < (x \div sum) * sum + sum
      /\ x = 0 => x \div sum = 0
  BY <1>2, <1>4
<1> QED
  BY <1>4, <1>5, Zenon DEF x

\* What three shares leave over is less than the number of traps with a weight.
LEMMA LeftOver ==
  ASSUME NEW u \in Nat, NEW v \in Nat, NEW w \in Nat, NEW total \in Nat, u + v + w > 0
  PROVE  LET sum  == u + v + w
             rest == total - ((u * total) \div sum + (v * total) \div sum + (w * total) \div sum)
             One(x) == IF x > 0 THEN 1 ELSE 0
         IN  rest \in Nat /\ rest < One(u) + One(v) + One(w)
<1> DEFINE sum    == u + v + w
           p      == (u * total) \div sum
           q      == (v * total) \div sum
           r      == (w * total) \div sum
           One(x) == IF x > 0 THEN 1 ELSE 0
           n      == One(u) + One(v) + One(w)
<1>1. sum \in Nat \ {0} /\ sum * total = u * total + v * total + w * total
  OBVIOUS
<1>2. /\ p \in Nat /\ p * sum <= u * total /\ u * total < p * sum + sum /\ (u = 0 => p = 0)
      /\ q \in Nat /\ q * sum <= v * total /\ v * total < q * sum + sum /\ (v = 0 => q = 0)
      /\ r \in Nat /\ r * sum <= w * total /\ w * total < r * sum + sum /\ (w = 0 => r = 0)
  BY <1>1, ShareOf
<1>3. n \in 1 .. 3
  OBVIOUS
<1> HIDE DEF p, q, r, sum
<1>4. \A a, b, c \in Nat : (c > 0 /\ c * a < c * b => a < b) /\ (c > 0 /\ c * a <= c * b => a <= b)
  OBVIOUS
<1>5. (p + q + r) * sum <= total * sum
  <2>1. (p + q + r) * sum = p * sum + q * sum + r * sum
    BY <1>1, <1>2
  <2> QED
    BY <1>1, <1>2, <2>1
<1>6. p + q + r <= total
  BY <1>1, <1>2, <1>4, <1>5
<1>7. total * sum < (p + q + r) * sum + n * sum
  <2> DEFINE ps == p * sum
             qs == q * sum
             rs == r * sum
             ut == u * total
             vt == v * total
             wt == w * total
  <2>1. /\ ut < ps + sum /\ (u = 0 => ut = 0 /\ ps = 0)
        /\ vt < qs + sum /\ (v = 0 => vt = 0 /\ qs = 0)
        /\ wt < rs + sum /\ (w = 0 => wt = 0 /\ rs = 0)
        /\ ps \in Nat /\ qs \in Nat /\ rs \in Nat /\ ut \in Nat /\ vt \in Nat /\ wt \in Nat
    BY <1>1, <1>2
  <2>2. total * sum = ut + vt + wt /\ (p + q + r) * sum = ps + qs + rs
    BY <1>1, <1>2
  <2>3. n * sum = (IF u > 0 THEN sum ELSE 0) + (IF v > 0 THEN sum ELSE 0) + (IF w > 0 THEN sum ELSE 0)
    BY <1>1
  <2> HIDE DEF ps, qs, rs, ut, vt, wt, n
  <2> QED
    BY <1>1, <2>1, <2>2, <2>3
<1>8. total < p + q + r + n
  <2>1. (p + q + r) * sum + n * sum = (p + q + r + n) * sum
    BY <1>1, <1>2, <1>3
  <2> HIDE DEF n
  <2> QED
    BY <1>1, <1>2, <1>3, <1>4, <1>7, <2>1
<1> QED
  BY <1>2, <1>6, <1>8 DEF sum, p, q, r

\* Cardinality is the same operator in every module.
LEMMA PoolCardinality == \A S : P!Cardinality(S) = Cardinality(S)
BY Zenon DEF P!Cardinality, Cardinality

\* Three traps, those with a weight counted.
LEMMA CountOfThree ==
  ASSUME NEW a, NEW b, NEW c, a # b, b # c, a # c, NEW E \in SUBSET {a, b, c}
  PROVE  /\ IsFiniteSet(E)
         /\ Cardinality(E) = (IF a \in E THEN 1 ELSE 0) + (IF b \in E THEN 1 ELSE 0)
                               + (IF c \in E THEN 1 ELSE 0)
<1> DEFINE first  == E \cap {a}
           second == E \cap {a, b}
<1>1. IsFiniteSet({}) /\ Cardinality({}) = 0
  BY FS_EmptySet
<1>2. IsFiniteSet(first) /\ Cardinality(first) = IF a \in E THEN 1 ELSE 0
  <2>1. CASE a \in E
    <3>1. first = {} \cup {a} /\ a \notin {}
      BY <2>1
    <3> QED
      BY <1>1, <2>1, <3>1, FS_AddElement
  <2>2. CASE a \notin E
    <3>1. first = {}
      BY <2>2
    <3> QED
      BY <1>1, <2>2, <3>1
  <2> QED
    BY <2>1, <2>2
<1>3. /\ IsFiniteSet(second)
      /\ Cardinality(second) = (IF a \in E THEN 1 ELSE 0) + (IF b \in E THEN 1 ELSE 0)
  <2>1. CASE b \in E
    <3>1. second = first \cup {b} /\ b \notin first
      BY <2>1
    <3>2. Cardinality(second) = Cardinality(first) + 1 /\ IsFiniteSet(second)
      BY <1>2, <3>1, FS_AddElement
    <3> QED
      BY <1>2, <2>1, <3>2
  <2>2. CASE b \notin E
    <3>1. second = first
      BY <2>2
    <3> QED
      BY <1>2, <2>2, <3>1
  <2> QED
    BY <2>1, <2>2
<1>4. CASE c \in E
  <2>1. E = second \cup {c} /\ c \notin second
    BY <1>4
  <2>2. Cardinality(E) = Cardinality(second) + 1 /\ IsFiniteSet(E)
    BY <1>3, <2>1, FS_AddElement
  <2> QED
    BY <1>3, <1>4, <2>2
<1>5. CASE c \notin E
  <2>1. E = second
    BY <1>5
  <2> QED
    BY <1>3, <1>5, <2>1
<1> QED
  BY <1>4, <1>5

LEMMA DisjointCount ==
  ASSUME NEW S, NEW T, IsFiniteSet(S), IsFiniteSet(T), S \cap T = {}
  PROVE  IsFiniteSet(S \cup T) /\ Cardinality(S \cup T) = Cardinality(S) + Cardinality(T)
<1>1. IsFiniteSet(S \cup T)
      /\ Cardinality(S \cup T) = Cardinality(S) + Cardinality(T) - Cardinality(S \cap T)
  BY FS_Union
<1>2. Cardinality(S \cap T) = 0 /\ Cardinality(S) \in Nat /\ Cardinality(T) \in Nat
  BY FS_EmptySet, FS_CardinalityType
<1> QED
  BY <1>1, <1>2

ExtraOf(order, rest, t) == Cardinality({k \in 0 .. rest - 1 : order[(k % Len(order)) + 1] = t})

Shuffles(order, E) ==
  /\ order \in [1 .. Cardinality(E) -> E]
  /\ \A i, j \in DOMAIN order : order[i] = order[j] => i = j

Shared(order, rest, a, b, c, E) ==
  /\ \A t \in {a, b, c} : /\ ExtraOf(order, rest, t) \in {0, 1}
                          /\ t \notin E => ExtraOf(order, rest, t) = 0
  /\ ExtraOf(order, rest, a) + ExtraOf(order, rest, b) + ExtraOf(order, rest, c) = rest

\* Fewer leftovers than shuffled traps: each goes to a trap of its own.
LEMMA EachToItsOwn ==
  ASSUME NEW a, NEW b, NEW c, a # b, b # c, a # c, NEW E \in SUBSET {a, b, c},
         NEW rest \in Nat, rest < Cardinality(E), NEW order, Shuffles(order, E)
  PROVE  Shared(order, rest, a, b, c, E)
<1> DEFINE n       == Cardinality(E)
           Gets(t) == {k \in 0 .. rest - 1 : order[(k % Len(order)) + 1] = t}
<1>1. n \in Nat
  BY CountOfThree, FS_CardinalityType
<1>2. Len(order) = n /\ DOMAIN order = 1 .. n /\ \A i \in 1 .. n : order[i] \in E
  <2>1. order \in Seq(E)
    BY <1>1 DEF Shuffles
  <2> QED
    BY <1>1, <2>1 DEF Shuffles
<1>3. \A t : Gets(t) = {k \in 0 .. rest - 1 : order[k + 1] = t}
  <2>1. \A k \in 0 .. rest - 1 : k % n = k
    BY <1>1
  <2> QED
    BY <1>2, <2>1
<1>4. \A k \in 0 .. rest - 1 : k + 1 \in 1 .. n
  BY <1>1
<1> HIDE DEF n, Gets
<1>5. ASSUME NEW t
      PROVE  /\ IsFiniteSet(Gets(t)) /\ Cardinality(Gets(t)) \in {0, 1}
             /\ t \notin E => Gets(t) = {}
  <2>1. \A i, j \in Gets(t) : i = j
    <3>1. SUFFICES ASSUME NEW i \in Gets(t), NEW j \in Gets(t) PROVE i = j
      OBVIOUS
    <3>2. i + 1 \in 1 .. n /\ j + 1 \in 1 .. n /\ order[i + 1] = order[j + 1] /\ i \in Nat /\ j \in Nat
      BY <1>3, <1>4
    <3>3. i + 1 = j + 1
      BY <1>2, <3>2 DEF Shuffles
    <3> QED
      BY <3>2, <3>3
  <2>2. Gets(t) = {} \/ \E i : Gets(t) = {i}
    BY <2>1
  <2>3. ASSUME t \notin E, NEW k \in Gets(t) PROVE FALSE
    BY <1>2, <1>3, <1>4, <2>3
  <2>4. IsFiniteSet(Gets(t)) /\ (Cardinality(Gets(t)) = 0 \/ Cardinality(Gets(t)) = 1)
    <3>1. CASE Gets(t) = {}
      BY <3>1, FS_EmptySet
    <3>2. ASSUME NEW i, Gets(t) = {i} PROVE IsFiniteSet(Gets(t)) /\ Cardinality(Gets(t)) = 1
      BY <3>2, FS_Singleton
    <3> QED
      BY <2>2, <3>1, <3>2
  <2> QED
    BY <2>3, <2>4
<1>6. /\ Gets(a) \cup Gets(b) \cup Gets(c) = 0 .. rest - 1
      /\ Gets(a) \cap Gets(b) = {} /\ (Gets(a) \cup Gets(b)) \cap Gets(c) = {}
  <2>1. \A k \in 0 .. rest - 1 : order[k + 1] \in {a, b, c}
    BY <1>2, <1>4
  <2> QED
    BY <1>3, <2>1
<1>7. Cardinality(Gets(a)) + Cardinality(Gets(b)) + Cardinality(Gets(c)) = rest
  <2>1. Cardinality(Gets(a) \cup Gets(b)) = Cardinality(Gets(a)) + Cardinality(Gets(b))
        /\ IsFiniteSet(Gets(a) \cup Gets(b))
    BY <1>5, <1>6, DisjointCount
  <2>2. Cardinality((Gets(a) \cup Gets(b)) \cup Gets(c))
          = Cardinality(Gets(a) \cup Gets(b)) + Cardinality(Gets(c))
    BY <1>5, <1>6, <2>1, DisjointCount
  <2>3. Cardinality(0 .. rest - 1) = rest
    BY FS_Interval
  <2> QED
    BY <1>6, <2>1, <2>2, <2>3
<1>8. \A t \in {a, b, c} : /\ Cardinality(Gets(t)) \in {0, 1}
                           /\ t \notin E => Cardinality(Gets(t)) = 0
  BY <1>5, FS_EmptySet
<1> QED
  BY <1>7, <1>8 DEF Gets, ExtraOf, Shared

SplitByWeight(counts, total) ==
  LET weights == options.trapWeights
      sum     == P!Total(weights)
  IN  /\ counts \in [P!TrapNames -> Nat]
      /\ P!Total(counts) = total
      /\ \A t \in P!EnabledTraps : /\ counts[t] * sum <= weights[t] * total + sum
                                   /\ weights[t] * total < counts[t] * sum + sum
      /\ \A t \in P!TrapNames \ P!EnabledTraps : counts[t] = 0

\* item_pool._trap_counts, for any weights, number of traps and shuffle.
LEMMA TrapsShared ==
  ASSUME NEW total \in Nat, NEW order \in P!Orders,
         options.trapWeights \in [P!TrapNames -> Nat], P!EnabledTraps # {}
  PROVE  SplitByWeight(P!TrapCounts(total, order), total)
<1> DEFINE weights  == options.trapWeights
           counts   == P!TrapCounts(total, order)
           E        == P!EnabledTraps
           names    == P!TrapNames
           a        == "Damage Trap"
           b        == "Ammo Depletion Trap"
           c        == "Freeze Trap"
           Sum(f)   == f[a] + f[b] + f[c]
           sum      == Sum(weights)
           share    == [t \in names |-> (weights[t] * total) \div sum]
           rest     == total - Sum(share)
           Extra(t) == ExtraOf(order, rest, t)
<1>1. names = {a, b, c} /\ a # b /\ b # c /\ a # c
  BY Zenon DEF P!TrapNames
<1>2. E = {t \in names : weights[t] > 0}
  BY Zenon DEF P!EnabledTraps
<1>3. \A f : P!Total(f) = Sum(f)
  BY Zenon DEF P!Total
<1>4. counts = [t \in names |-> share[t] + Extra(t)]
  <2> DEFINE extra(t) == P!Cardinality({k \in 0 .. rest - 1 : order[(k % Len(order)) + 1] = t})
  <2>1. counts = [t \in names |-> share[t] + extra(t)]
    BY Zenon DEF P!TrapCounts, P!Total
  <2>2. \A t : extra(t) = Extra(t)
    BY PoolCardinality, Zenon DEF ExtraOf
  <2> HIDE DEF share, names, counts, extra, Extra
  <2> QED
    BY <2>1, <2>2
<1>5. order \in [1 .. Cardinality(E) -> E] /\ \A i, j \in DOMAIN order : order[i] = order[j] => i = j
  <2>1. order \in [1 .. P!Cardinality(E) -> E]
    BY Zenon DEF P!Orders
  <2>2. \A i, j \in DOMAIN order : order[i] = order[j] => i = j
    BY Zenon DEF P!Orders
  <2> QED
    BY <2>1, <2>2, PoolCardinality, Zenon
<1>6. weights \in [names -> Nat]
  OBVIOUS
<1>7. E # {}
  OBVIOUS
<1> HIDE DEF a, b, c, E, names, weights, counts
<1>8. weights[a] \in Nat /\ weights[b] \in Nat /\ weights[c] \in Nat
  BY <1>1, <1>6
<1>9. sum > 0 /\ sum \in Nat
  <2>1. PICK t \in {a, b, c} : weights[t] > 0
    BY <1>1, <1>2, <1>7
  <2> QED
    BY <1>8, <2>1
<1>10. \A t \in names : /\ share[t] = (weights[t] * total) \div sum
                        /\ share[t] \in Nat
                        /\ share[t] * sum <= weights[t] * total
                        /\ weights[t] * total < share[t] * sum + sum
                        /\ weights[t] = 0 => share[t] = 0
  <2>1. SUFFICES ASSUME NEW t \in names
                 PROVE  /\ share[t] = (weights[t] * total) \div sum
                        /\ share[t] \in Nat
                        /\ share[t] * sum <= weights[t] * total
                        /\ weights[t] * total < share[t] * sum + sum
                        /\ weights[t] = 0 => share[t] = 0
    OBVIOUS
  <2>2. share[t] = (weights[t] * total) \div sum /\ weights[t] \in Nat /\ sum \in Nat \ {0}
    BY <1>6, <1>9
  <2> HIDE DEF share, sum
  <2> QED
    BY <2>2, ShareOf
<1>11. rest \in Nat /\ rest < Cardinality(E)
  <2>1. rest = total - ((weights[a] * total) \div sum + (weights[b] * total) \div sum
                          + (weights[c] * total) \div sum)
    BY <1>1, <1>10
  <2>2. Cardinality(E) = (IF weights[a] > 0 THEN 1 ELSE 0) + (IF weights[b] > 0 THEN 1 ELSE 0)
                           + (IF weights[c] > 0 THEN 1 ELSE 0)
    <3>1. E \in SUBSET {a, b, c} /\ (a \in E <=> weights[a] > 0) /\ (b \in E <=> weights[b] > 0)
          /\ (c \in E <=> weights[c] > 0)
      BY <1>1, <1>2
    <3> QED
      BY <1>1, <3>1, CountOfThree
  <2> DEFINE u == weights[a]
             v == weights[b]
             w == weights[c]
             left == total - ((u * total) \div (u + v + w) + (v * total) \div (u + v + w)
                                + (w * total) \div (u + v + w))
             n == (IF u > 0 THEN 1 ELSE 0) + (IF v > 0 THEN 1 ELSE 0) + (IF w > 0 THEN 1 ELSE 0)
  <2>3. rest = left /\ Cardinality(E) = n
    BY <2>1, <2>2
  <2>4. u \in Nat /\ v \in Nat /\ w \in Nat /\ u + v + w > 0
    BY <1>8, <1>9
  <2> HIDE DEF rest, u, v, w
  <2>5. left \in Nat /\ left < n
    BY <2>4, LeftOver
  <2> QED
    BY <2>3, <2>5
<1> HIDE DEF rest, share, sum
<1>12. /\ \A t \in {a, b, c} : Extra(t) \in {0, 1} /\ (t \notin E => Extra(t) = 0)
       /\ Extra(a) + Extra(b) + Extra(c) = rest
  <2>1. E \in SUBSET {a, b, c} /\ a # b /\ b # c /\ a # c
    BY <1>1, <1>2
  <2>2. rest \in Nat /\ rest < Cardinality(E)
    BY <1>11
  <2>3. Shuffles(order, E)
    BY <1>5, Zenon DEF Shuffles
  <2>4. Shared(order, rest, a, b, c, E)
    BY <2>1, <2>2, <2>3, EachToItsOwn
  <2> QED
    BY <2>4, Zenon DEF Shared
<1> HIDE DEF Extra
<1>19. \A t \in names : Extra(t) \in {0, 1} /\ (t \notin E => Extra(t) = 0)
  BY <1>1, <1>12, Zenon
<1>13. \A t \in names : counts[t] = share[t] + Extra(t) /\ counts[t] \in Nat
  BY <1>4, <1>10, <1>19
<1>14. counts \in [names -> Nat]
  BY <1>4, <1>13
<1>15. counts[a] + counts[b] + counts[c] = total
  BY <1>1, <1>10, <1>11, <1>12, <1>13 DEF rest
<1>16. \A t \in names \ E : counts[t] = 0
  BY <1>2, <1>6, <1>10, <1>13, <1>19
<1>17. \A t \in E : counts[t] * sum <= weights[t] * total + sum /\ weights[t] * total < counts[t] * sum + sum
  <2>1. SUFFICES ASSUME NEW t \in E
                 PROVE  counts[t] * sum <= weights[t] * total + sum /\ weights[t] * total < counts[t] * sum + sum
    OBVIOUS
  <2>2. t \in names /\ weights[t] \in Nat /\ (counts[t] = share[t] \/ counts[t] = share[t] + 1)
    BY <1>2, <1>6, <1>10, <1>13, <1>19
  <2>3. /\ share[t] \in Nat /\ share[t] * sum <= weights[t] * total
        /\ weights[t] * total < share[t] * sum + sum
    BY <1>10, <2>2
  <2> QED
    BY <1>9, <2>2, <2>3
<1>18. P!Total(counts) = counts[a] + counts[b] + counts[c] /\ P!Total(weights) = sum
  BY <1>3, Zenon DEF sum
<1> QED
  BY <1>14, <1>15, <1>16, <1>17, <1>18, Zenon DEF E, names, weights, counts, SplitByWeight

\* None is due: none is placed.
LEMMA NothingShared ==
  ASSUME options.trapWeights \in [P!TrapNames -> Nat]
  PROVE  SplitByWeight(P!NoTraps, 0)
<1> DEFINE weights == options.trapWeights
           E       == P!EnabledTraps
           names   == P!TrapNames
           none    == P!NoTraps
           a       == "Damage Trap"
           b       == "Ammo Depletion Trap"
           c       == "Freeze Trap"
           sum     == weights[a] + weights[b] + weights[c]
<1>1. names = {a, b, c}
  BY Zenon DEF P!TrapNames
<1>2. E = {t \in names : weights[t] > 0}
  BY Zenon DEF P!EnabledTraps
<1>3. P!Total(weights) = sum /\ P!Total(none) = none[a] + none[b] + none[c]
  BY Zenon DEF P!Total
<1>4. none = [t \in names |-> 0]
  BY Zenon DEF P!NoTraps
<1>5. weights \in [names -> Nat]
  OBVIOUS
<1> HIDE DEF a, b, c, E, names, weights, none
<1>6. /\ sum \in Nat /\ \A t \in names : weights[t] \in Nat
      /\ weights[a] \in Nat /\ weights[b] \in Nat /\ weights[c] \in Nat
  BY <1>1, <1>5
<1>7. \A t \in E : none[t] * sum <= weights[t] * 0 + sum /\ weights[t] * 0 < none[t] * sum + sum
  <2>1. SUFFICES ASSUME NEW t \in E
                 PROVE  none[t] * sum <= weights[t] * 0 + sum /\ weights[t] * 0 < none[t] * sum + sum
    OBVIOUS
  <2>2. t \in names /\ weights[t] > 0 /\ none[t] = 0
    BY <1>2, <1>4
  <2>3. weights[a] > 0 \/ weights[b] > 0 \/ weights[c] > 0
    BY <1>1, <2>2
  <2>4. sum > 0
    BY <1>6, <2>3
  <2> HIDE DEF sum
  <2> QED
    BY <1>6, <2>2, <2>4
<1>8. none \in [names -> Nat] /\ none[a] + none[b] + none[c] = 0 /\ \A t \in names \ E : none[t] = 0
  BY <1>1, <1>4
<1> QED
  BY <1>3, <1>7, <1>8, Zenon DEF E, names, weights, none, SplitByWeight

(***************************************************************************)
(* What is locked, pooled and precollected of the nine keys.               *)
(***************************************************************************)
KeysToPool     == (1 .. options.keys) \ P!LockedKeys
FillerThatFits == NumLocations - Cardinality(P!LockedKeys) - P!RealCount - Cardinality(KeysToPool)

LEMMA IntervalSize ==
  ASSUME NEW i \in Nat, NEW j \in Nat, i <= j
  PROVE  IsFiniteSet(i + 1 .. j) /\ Cardinality(i + 1 .. j) = j - i
<1>1. IsFiniteSet(i + 1 .. j) /\ Cardinality(i + 1 .. j) = IF i + 1 > j THEN 0 ELSE j - (i + 1) + 1
  BY FS_Interval
<1>2. CASE i = j
  BY <1>1, <1>2
<1>3. CASE i < j
  BY <1>1, <1>3
<1> QED
  BY <1>2, <1>3

LEMMA KeysShared ==
  ASSUME options \in P!Options, ~P!Refused
  PROVE  /\ IsFiniteSet(P!LockedKeys) /\ IsFiniteSet(KeysToPool)
         /\ Cardinality(P!LockedKeys) \in 0 .. 9 /\ Cardinality(KeysToPool) \in 0 .. 9
         /\ P!LockedKeys \subseteq 1 .. options.keys
         /\ options.keys \in 0 .. 9
         /\ Cardinality(P!LockedKeys) + Cardinality(KeysToPool) = options.keys
         /\ Cardinality(KeysToPool) =
              IF options.keyLocations = "off" THEN options.keys
              ELSE IF options.keyLocations = "all_bosses" THEN 0
              ELSE P!Larger(0, options.keys - Cardinality(P!LockedKeys))
<1> DEFINE n == options.keys
           where == options.keyLocations
<1>1. n \in 0 .. 9 /\ where \in {"off", "all_bosses", "all_guardians"}
  BY DEF P!Options, P!NumKeys
<1>2. (where = "all_bosses" => n = 9) /\ (where = "all_guardians" => n >= 3)
  BY <1>1 DEF P!Refused, P!NumKeys, P!NumGuardians
<1>3. PICK m \in 0 .. 9 : /\ P!LockedKeys = 1 .. m /\ m <= n
                          /\ where = "off" => m = 0
                          /\ where = "all_bosses" => m = 9
  <2>1. CASE where = "off"
    BY <1>1, <2>1 DEF P!LockedKeys
  <2>2. CASE where = "all_bosses"
    BY <1>1, <1>2, <2>2 DEF P!LockedKeys, P!NumBosses
  <2>3. CASE where = "all_guardians"
    BY <1>1, <1>2, <2>3 DEF P!LockedKeys, P!NumGuardians
  <2> QED
    BY <1>1, <2>1, <2>2, <2>3
<1>4. KeysToPool = m + 1 .. n
  BY <1>1, <1>3 DEF KeysToPool
<1>7. \A i, j \in 0 .. 9 : i <= j => IsFiniteSet(i + 1 .. j) /\ Cardinality(i + 1 .. j) = j - i
  BY IntervalSize
<1>5. IsFiniteSet(P!LockedKeys) /\ Cardinality(P!LockedKeys) = m
  <2>1. IsFiniteSet(1 .. m) /\ Cardinality(1 .. m) = IF 1 > m THEN 0 ELSE m - 1 + 1
    BY FS_Interval
  <2>2. Cardinality(1 .. m) = m
    BY <2>1
  <2> QED
    BY <1>3, <2>1, <2>2, Zenon
<1>6. IsFiniteSet(KeysToPool) /\ Cardinality(KeysToPool) = n - m
  BY <1>1, <1>3, <1>4, <1>7
<1> QED
  BY <1>1, <1>2, <1>3, <1>5, <1>6 DEF P!Larger

LEMMA TrapTotalBounded ==
  ASSUME options \in P!Options, NEW expansions \in Nat
  PROVE  /\ P!TrapTotal(expansions) \in Nat
         /\ P!TrapTotal(expansions) <= expansions
         /\ expansions >= MinExpansions => expansions - P!TrapTotal(expansions) >= MinExpansions
<1> DEFINE percent == options.trapPercentage
           part    == (expansions * percent) \div 100
<1>1. percent \in 0 .. 100
  BY Zenon DEF P!Options
<1>2. part \in Nat
  BY <1>1
<1>3. P!TrapTotal(expansions) = P!Smaller(part, P!Larger(0, expansions - MinExpansions))
  BY DEF P!TrapTotal
<1>4. MinExpansions \in Nat
  BY RoomAssumption
<1> HIDE DEF part
<1> QED
  BY <1>2, <1>3, <1>4 DEF P!Smaller, P!Larger

LEMMA RoomIsLeft ==
  ASSUME options \in P!Options, ~P!Refused
  PROVE  /\ P!RealCount \in Nat
         /\ FillerThatFits \in Nat /\ FillerThatFits >= MinExpansions
         /\ NumLocations \in Nat /\ NumFillers \in Nat /\ MinExpansions \in Nat
<1> DEFINE optional   == options.optionalPickups
           lockedKeys == Cardinality(P!LockedKeys)
           pooledKeys == Cardinality(KeysToPool)
<1>1. optional \in 0 .. 3
  BY Zenon DEF P!Options
<1>2. P!RealCount = NumReals + optional
  BY DEF P!RealCount
<1>3. lockedKeys \in Nat /\ pooledKeys \in Nat /\ lockedKeys + pooledKeys <= 9
  BY KeysShared
<1>4. FillerThatFits = NumLocations - lockedKeys - P!RealCount - pooledKeys
  BY DEF FillerThatFits
<1> HIDE DEF optional, lockedKeys, pooledKeys
<1> QED
  BY <1>1, <1>2, <1>3, <1>4, RoomAssumption

\* item_pool.removed_expansion_count, from the options alone, is what will be missing.
LEMMA RemovedIsMissing ==
  ASSUME options \in P!Options, ~P!Refused
  PROVE  P!RemovedExpansions =
           NumFillers + P!Larger(0, FillerThatFits - NumFillers)
             - (FillerThatFits - P!TrapTotal(FillerThatFits))
<1> DEFINE lockedKeys == P!Cardinality(P!LockedKeys)
           pooledKeys == IF options.keyLocations = "off" THEN options.keys
                         ELSE IF options.keyLocations = "all_bosses" THEN 0
                         ELSE P!Larger(0, options.keys - lockedKeys)
           surplus == P!RealCount + NumFillers + pooledKeys - (NumLocations - lockedKeys)
           trimmed == P!Larger(0, P!Smaller(surplus, NumFillers))
           padded  == P!Larger(0, -surplus)
<1>1. P!RemovedExpansions = trimmed + P!TrapTotal(NumFillers - trimmed + padded)
  BY DEF P!RemovedExpansions
<1>2. lockedKeys = Cardinality(P!LockedKeys) /\ pooledKeys = Cardinality(KeysToPool)
  BY PoolCardinality, KeysShared
<1>3. Cardinality(P!LockedKeys) \in Nat /\ Cardinality(KeysToPool) \in Nat
  BY KeysShared
<1>4. surplus = NumFillers - FillerThatFits
  <2> HIDE DEF lockedKeys, pooledKeys
  <2> QED
    BY <1>2, <1>3, RoomIsLeft DEF FillerThatFits
<1> HIDE DEF surplus
<1>5. NumFillers \in Nat /\ FillerThatFits \in Nat
  BY RoomIsLeft
<1>6. /\ NumFillers - trimmed + padded = FillerThatFits
      /\ trimmed = NumFillers + P!Larger(0, FillerThatFits - NumFillers) - FillerThatFits
  BY <1>4, <1>5 DEF P!Larger, P!Smaller
<1>7. P!TrapTotal(FillerThatFits) \in Nat /\ trimmed \in Nat
  BY <1>4, <1>5, TrapTotalBounded DEF P!Larger, P!Smaller
<1> HIDE DEF trimmed, padded
<1>8. P!RemovedExpansions = trimmed + P!TrapTotal(FillerThatFits)
  BY <1>1, <1>6
<1> QED
  BY <1>5, <1>6, <1>7, <1>8 DEF P!Larger

(***************************************************************************)
(* The pool, phase by phase.                                               *)
(***************************************************************************)
Holding(filler, traps) ==
  [real |-> P!RealCount, filler |-> filler, keys |-> KeysToPool, traps |-> traps]

Accepted  == options \in P!Options /\ ~P!Refused
Untouched == padding = 0 /\ pool = [real |-> 0, filler |-> 0, keys |-> {}, traps |-> P!NoTraps]
Told     == bonus = P!LauncherBonus
Stocked  == locked = P!LockedKeys /\ precollected = options.keys + 1 .. P!NumKeys
Padded   == padding = P!Larger(0, FillerThatFits - NumFillers)

FinishedPool ==
  \E traps :
    /\ pool = Holding(FillerThatFits - P!TrapTotal(FillerThatFits), traps)
    /\ SplitByWeight(traps, P!TrapTotal(FillerThatFits))

PoolKept ==
  /\ phase = "generate_early" => options \in P!Options /\ Untouched
  /\ phase = "create_regions" => Accepted /\ Untouched
  /\ phase = "create_items"   => Accepted /\ Untouched /\ Told
  /\ phase = "fit"    => Accepted /\ Told /\ Stocked /\ padding = 0 /\ pool = Holding(NumFillers, P!NoTraps)
  /\ phase = "traps"  => Accepted /\ Told /\ Stocked /\ Padded /\ pool = Holding(FillerThatFits, P!NoTraps)
  /\ phase = "done"   => Accepted /\ Told /\ Stocked /\ Padded /\ FinishedPool

LEMMA PoolKeptInit == Init => PoolKept
<1> SUFFICES ASSUME Init PROVE PoolKept
  OBVIOUS
<1>1. CASE IdlePool
  <2>1. phase = "idle"
    BY <1>1 DEF IdlePool
  <2> QED
    BY <2>1 DEF PoolKept
<1>2. CASE P!Init
  <2>1. phase = "generate_early" /\ options \in OptionSets /\ Untouched
    BY <1>2, Zenon DEF P!Init, Untouched
  <2>2. options \in P!Options
    BY <2>1, OptionAssumption
  <2> QED
    BY <2>1, <2>2 DEF PoolKept
<1> QED
  BY <1>1, <1>2 DEF Init

\* What the options alone decide stays as it is while they do.
LEMMA OptionsDecide ==
  ASSUME options' = options
  PROVE  /\ Accepted' <=> Accepted
         /\ P!LauncherBonus' = P!LauncherBonus
         /\ P!LockedKeys' = P!LockedKeys /\ KeysToPool' = KeysToPool
         /\ FillerThatFits' = FillerThatFits
         /\ \A filler, traps : Holding(filler, traps)' = Holding(filler, traps)
         /\ P!TrapTotal(FillerThatFits)' = P!TrapTotal(FillerThatFits)
         /\ \A counts, total : SplitByWeight(counts, total)' <=> SplitByWeight(counts, total)
         /\ P!EnabledTraps' = P!EnabledTraps
<1>1. P!Refused' <=> P!Refused
  BY DEF P!Refused
<1>2. P!LockedKeys' = P!LockedKeys /\ P!RealCount' = P!RealCount
  BY DEF P!LockedKeys, P!RealCount
<1>3. KeysToPool' = KeysToPool
  BY <1>2 DEF KeysToPool
<1>4. FillerThatFits' = FillerThatFits
  BY <1>2, <1>3 DEF FillerThatFits
<1>5. \A e : P!TrapTotal(e)' = P!TrapTotal(e)
  BY DEF P!TrapTotal
<1>6. P!RemovedExpansions' = P!RemovedExpansions
  BY <1>2 DEF P!RemovedExpansions, P!TrapTotal
<1>7. P!LauncherBonus' = P!LauncherBonus
  BY <1>6 DEF P!LauncherBonus
<1>8. \A filler, traps : Holding(filler, traps)' = Holding(filler, traps)
  BY <1>2, <1>3, Zenon DEF Holding
<1>9. P!EnabledTraps' = P!EnabledTraps
  BY Zenon DEF P!EnabledTraps
<1>10. \A counts, total : SplitByWeight(counts, total)' <=> SplitByWeight(counts, total)
  BY <1>9, Zenon DEF SplitByWeight
<1>11. P!TrapTotal(FillerThatFits)' = P!TrapTotal(FillerThatFits)
  BY <1>4 DEF P!TrapTotal
<1>12. Accepted' <=> Accepted
  BY <1>1 DEF Accepted
<1> QED
  BY <1>2, <1>3, <1>4, <1>7, <1>8, <1>9, <1>10, <1>11, <1>12, Zenon

LEMMA GenerateEarlyKeeps ==
  ASSUME PoolKept, P!GenerateEarly
  PROVE  PoolKept'
<1>1. phase = "generate_early" /\ options' = options /\ options \in P!Options /\ Untouched
  BY DEF P!GenerateEarly, PoolKept
<1>2. \/ phase' = "OptionError"
      \/ phase' = "create_regions" /\ Accepted
  BY <1>1 DEF P!GenerateEarly, Accepted
<1>3. (Accepted' <=> Accepted) /\ Untouched'
  BY <1>1, OptionsDecide, Zenon DEF P!GenerateEarly, Untouched, P!NoTraps, P!TrapNames
<1> QED
  BY <1>1, <1>2, <1>3 DEF PoolKept

LEMMA CreateRegionsKeeps ==
  ASSUME PoolKept, P!CreateRegions
  PROVE  PoolKept'
<1>1. phase' = "create_items" /\ options' = options /\ Accepted /\ Untouched
  BY DEF P!CreateRegions, PoolKept
<1>2. bonus' = P!LauncherBonus
  BY DEF P!CreateRegions
<1>3. (Accepted' <=> Accepted) /\ P!LauncherBonus' = P!LauncherBonus
  BY <1>1, OptionsDecide
<1>4. Untouched'
  BY <1>1, Zenon DEF P!CreateRegions, Untouched, P!NoTraps, P!TrapNames
<1> QED
  BY <1>1, <1>2, <1>3, <1>4 DEF PoolKept, Told

LEMMA StockPoolKeeps ==
  ASSUME PoolKept, P!StockPool
  PROVE  PoolKept'
<1>1. phase' = "fit" /\ options' = options /\ bonus' = bonus /\ padding' = padding
      /\ Accepted /\ Untouched /\ Told
  BY DEF P!StockPool, PoolKept
<1>2. locked' = P!LockedKeys /\ precollected' = options.keys + 1 .. P!NumKeys
  BY DEF P!StockPool
<1>3. pool' = Holding(NumFillers, P!NoTraps)
  <2>1. pool' = [pool EXCEPT !.real = P!RealCount, !.filler = NumFillers, !.keys = KeysToPool]
    BY Zenon DEF P!StockPool, KeysToPool
  <2> DEFINE none == P!NoTraps
  <2>2. pool = [real |-> 0, filler |-> 0, keys |-> {}, traps |-> none]
    BY <1>1 DEF Untouched
  <2> HIDE DEF none
  <2>3. pool' = [real |-> P!RealCount, filler |-> NumFillers, keys |-> KeysToPool, traps |-> none]
    BY <2>1, <2>2
  <2> QED
    BY <2>3, Zenon DEF Holding, none
<1>4. (Accepted' <=> Accepted) /\ P!LauncherBonus' = P!LauncherBonus /\ P!LockedKeys' = P!LockedKeys
      /\ Holding(NumFillers, P!NoTraps)' = Holding(NumFillers, P!NoTraps)
  BY <1>1, OptionsDecide, Zenon
<1>5. Told' /\ Stocked'
  BY <1>1, <1>2, <1>4 DEF Told, Stocked
<1>6. padding' = 0 /\ pool' = Holding(NumFillers, P!NoTraps)'
  BY <1>1, <1>3, <1>4, Zenon DEF Untouched
<1> QED
  BY <1>1, <1>4, <1>5, <1>6 DEF PoolKept

\* The filler alone absorbs what does not fit: the tail is never cut.
LEMMA FitPoolKeeps ==
  ASSUME PoolKept, P!FitPool
  PROVE  PoolKept'
<1> DEFINE none == P!NoTraps
<1>1. /\ phase' = "traps" /\ options' = options /\ bonus' = bonus
      /\ locked' = locked /\ precollected' = precollected
      /\ Accepted /\ Told /\ Stocked /\ padding = 0 /\ pool = Holding(NumFillers, none)
  BY DEF P!FitPool, PoolKept
<1>2. pool = [real |-> P!RealCount, filler |-> NumFillers, keys |-> KeysToPool, traps |-> none]
  BY <1>1, Zenon DEF Holding
<1>3. P!Total(none) = 0
  <2>1. none = [t \in P!TrapNames |-> 0]
    BY Zenon DEF P!NoTraps
  <2>2. options.trapWeights \in [P!TrapNames -> Nat]
    BY <1>1, Zenon DEF Accepted, P!Options
  <2> QED
    BY <2>2, NothingShared, Zenon DEF SplitByWeight
<1> HIDE DEF none
<1> DEFINE excess  == P!Size - P!Unfilled
           dropped == P!Smaller(P!Larger(0, excess), pool.filler)
           cut     == P!Larger(0, excess - dropped)
<1>4. excess = NumFillers - FillerThatFits /\ P!Unfilled - P!Size = FillerThatFits - NumFillers
  <2>1. P!Size = P!RealCount + NumFillers + Cardinality(KeysToPool) + 0
    BY <1>2, <1>3, PoolCardinality DEF P!Size
  <2>2. P!Unfilled = NumLocations - Cardinality(P!LockedKeys)
    BY <1>1, PoolCardinality DEF P!Unfilled, Stocked
  <2>3. Cardinality(KeysToPool) \in Nat /\ Cardinality(P!LockedKeys) \in Nat
    BY <1>1, KeysShared DEF Accepted
  <2>4. P!RealCount \in Nat /\ NumLocations \in Nat /\ NumFillers \in Nat
    BY <1>1, RoomIsLeft DEF Accepted
  <2> QED
    BY <2>1, <2>2, <2>3, <2>4 DEF FillerThatFits
<1>5. NumFillers \in Nat /\ FillerThatFits \in Nat /\ pool.filler = NumFillers
  BY <1>1, <1>2, RoomIsLeft DEF Accepted
<1> HIDE DEF excess
<1>6. cut = 0 /\ NumFillers - dropped + P!Larger(0, -excess) = FillerThatFits
  BY <1>4, <1>5 DEF P!Larger, P!Smaller
<1>7. pool' = [pool EXCEPT
                 !.filler = @ - dropped + P!Larger(0, -excess),
                 !.keys = {k \in @ : P!Cardinality({j \in @ : j > k}) >= cut},
                 !.real = @ - P!Larger(0, cut - P!Cardinality(pool.keys))]
  BY Zenon DEF P!FitPool, excess
<1> HIDE DEF cut, dropped
<1>8. {k \in KeysToPool : P!Cardinality({j \in KeysToPool : j > k}) >= cut} = KeysToPool
  <2>1. ASSUME NEW k \in KeysToPool PROVE P!Cardinality({j \in KeysToPool : j > k}) >= cut
    <3>1. IsFiniteSet({j \in KeysToPool : j > k})
      BY <1>1, KeysShared, FS_Subset DEF Accepted
    <3>2. P!Cardinality({j \in KeysToPool : j > k}) \in Nat
      BY <3>1, FS_CardinalityType, PoolCardinality
    <3> QED
      BY <1>6, <3>2
  <2> QED
    BY <2>1
<1>9. P!RealCount - P!Larger(0, cut - P!Cardinality(KeysToPool)) = P!RealCount
  <2>1. P!Cardinality(KeysToPool) \in Nat /\ P!RealCount \in Nat
    BY <1>1, KeysShared, RoomIsLeft, PoolCardinality DEF Accepted
  <2> QED
    BY <1>6, <2>1 DEF P!Larger
<1>10. pool' = [real |-> P!RealCount, filler |-> FillerThatFits, keys |-> KeysToPool, traps |-> none]
  <2>1. pool' = [real   |-> P!RealCount - P!Larger(0, cut - P!Cardinality(KeysToPool)),
                 filler |-> NumFillers - dropped + P!Larger(0, -excess),
                 keys   |-> {k \in KeysToPool : P!Cardinality({j \in KeysToPool : j > k}) >= cut},
                 traps  |-> none]
    BY <1>2, <1>7
  <2> QED
    BY <1>6, <1>8, <1>9, <2>1, Zenon
<1>11. padding' = P!Larger(0, FillerThatFits - NumFillers)
  BY <1>4 DEF P!FitPool
<1>12. /\ Accepted' <=> Accepted
       /\ P!LauncherBonus' = P!LauncherBonus /\ P!LockedKeys' = P!LockedKeys
       /\ Holding(FillerThatFits, P!NoTraps)' = Holding(FillerThatFits, P!NoTraps)
       /\ FillerThatFits' = FillerThatFits
  BY <1>1, OptionsDecide, Zenon DEF Holding, KeysToPool, FillerThatFits
<1>13. pool' = Holding(FillerThatFits, P!NoTraps)'
  BY <1>10, <1>12, Zenon DEF Holding, none
<1>14. Told' /\ Stocked' /\ Padded'
  BY <1>1, <1>11, <1>12 DEF Told, Stocked, Padded, P!Larger
<1> QED
  BY <1>1, <1>12, <1>13, <1>14 DEF PoolKept

LEMMA PlaceTrapsKeeps ==
  ASSUME PoolKept, P!PlaceTraps
  PROVE  PoolKept'
<1> DEFINE none  == P!NoTraps
           total == P!TrapTotal(pool.filler)
           fits  == FillerThatFits
<1>1. /\ options' = options /\ bonus' = bonus /\ padding' = padding
      /\ locked' = locked /\ precollected' = precollected
      /\ Accepted /\ Told /\ Stocked /\ Padded /\ pool = Holding(fits, none)
  BY DEF P!PlaceTraps, PoolKept
<1>2. pool = [real |-> P!RealCount, filler |-> fits, keys |-> KeysToPool, traps |-> none]
  BY <1>1, Zenon DEF Holding
<1>3. total = P!TrapTotal(fits) /\ pool.filler = fits
  <2> HIDE DEF none, fits
  <2> QED
    BY <1>2
<1>4. fits \in Nat /\ P!TrapTotal(fits) \in Nat
  BY <1>1, RoomIsLeft, TrapTotalBounded DEF Accepted
<1>5. options.trapWeights \in [P!TrapNames -> Nat]
  BY <1>1, Zenon DEF Accepted, P!Options
<1> DEFINE Finishing(traps) == /\ pool' = Holding(fits - P!TrapTotal(fits), traps)
                               /\ SplitByWeight(traps, P!TrapTotal(fits))
<1>6. phase' = "OptionError" \/ (phase' = "done" /\ \E traps : Finishing(traps))
  <2>1. ASSUME total = 0, phase' = "done", pool' = pool
        PROVE  \E traps : Finishing(traps)
    <3>1. SplitByWeight(none, P!TrapTotal(fits))
      BY <1>3, <1>5, <2>1, NothingShared, Zenon
    <3>2. fits - P!TrapTotal(fits) = fits
      BY <1>3, <1>4, <2>1
    <3>3. pool' = Holding(fits - P!TrapTotal(fits), none)
      BY <1>1, <2>1, <3>2, Zenon
    <3> QED
      BY <3>1, <3>3, Zenon
  <2>2. ASSUME total > 0, P!EnabledTraps # {}, NEW order \in P!Orders,
               pool' = [pool EXCEPT !.traps = P!TrapCounts(total, order), !.filler = @ - total]
        PROVE  \E traps : Finishing(traps)
    <3> DEFINE counts == P!TrapCounts(total, order)
    <3>1. SplitByWeight(counts, P!TrapTotal(fits))
      BY <1>3, <1>4, <1>5, <2>2, TrapsShared, Zenon
    <3>2. pool' = [pool EXCEPT !.traps = counts, !.filler = @ - total]
      BY <2>2, Zenon
    <3> HIDE DEF counts, none, total, fits
    <3>3. pool' = Holding(fits - total, counts)
      BY <1>2, <1>3, <3>2 DEF Holding
    <3>4. pool' = Holding(fits - P!TrapTotal(fits), counts)
      BY <1>3, <3>3, Zenon
    <3> QED
      BY <3>1, <3>4, Zenon
  <2>3. CASE total = 0 /\ phase' = "done" /\ UNCHANGED pool
    BY <2>1, <2>3
  <2>4. CASE total > 0 /\ P!EnabledTraps = {} /\ phase' = "OptionError"
    BY <2>4
  <2>5. CASE /\ total > 0
             /\ P!EnabledTraps # {}
             /\ \E order \in P!Orders :
                  pool' = [pool EXCEPT !.traps = P!TrapCounts(total, order), !.filler = @ - total]
             /\ phase' = "done"
    BY <2>2, <2>5, Zenon
  <2> QED
    BY <2>3, <2>4, <2>5, Zenon DEF P!PlaceTraps
<1>9. ASSUME NEW traps, Finishing(traps) PROVE FinishedPool'
  <2>1. FillerThatFits' = FillerThatFits /\ P!TrapTotal(FillerThatFits)' = P!TrapTotal(FillerThatFits)
        /\ KeysToPool' = KeysToPool /\ P!RealCount' = P!RealCount
    BY <1>1, OptionsDecide, Zenon DEF P!RealCount
  <2>2. (SplitByWeight(traps, P!TrapTotal(FillerThatFits))' <=> SplitByWeight(traps, P!TrapTotal(FillerThatFits)))
    BY <1>1, <2>1, OptionsDecide, Zenon DEF SplitByWeight
  <2>3. Holding(FillerThatFits - P!TrapTotal(FillerThatFits), traps)'
          = Holding(FillerThatFits - P!TrapTotal(FillerThatFits), traps)
    BY <2>1, Zenon DEF Holding
  <2> QED
    BY <1>9, <2>2, <2>3, Zenon DEF FinishedPool
<1>7. /\ Accepted' <=> Accepted
      /\ P!LauncherBonus' = P!LauncherBonus /\ P!LockedKeys' = P!LockedKeys
      /\ FillerThatFits' = FillerThatFits
  BY <1>1, OptionsDecide, Zenon
<1>8. Told' /\ Stocked' /\ Padded'
  BY <1>1, <1>7 DEF Told, Stocked, Padded, P!Larger
<1> QED
  BY <1>1, <1>6, <1>7, <1>8, <1>9 DEF PoolKept

LEMMA PoolKeptStep == PoolKept /\ [Next]_vars => PoolKept'
<1> SUFFICES ASSUME PoolKept, [Next]_vars PROVE PoolKept'
  OBVIOUS
<1>1. CASE PoolStep
  <2>1. P!Next
    BY <1>1 DEF PoolStep
  <2> QED
    BY <2>1, GenerateEarlyKeeps, CreateRegionsKeeps, StockPoolKeeps, FitPoolKeeps, PlaceTrapsKeeps
       DEF P!Next
<1>2. CASE UNCHANGED poolVars
  <2>1. /\ phase' = phase /\ options' = options /\ bonus' = bonus /\ pool' = pool
        /\ locked' = locked /\ precollected' = precollected /\ padding' = padding
    BY <1>2 DEF poolVars
  <2>2. Untouched' <=> Untouched
    BY <2>1, Zenon DEF Untouched, P!NoTraps, P!TrapNames
  <2>3. /\ Accepted' <=> Accepted
        /\ P!LauncherBonus' = P!LauncherBonus /\ P!LockedKeys' = P!LockedKeys
        /\ FillerThatFits' = FillerThatFits
    BY <2>1, OptionsDecide, Zenon
  <2>4. (Told' <=> Told) /\ (Stocked' <=> Stocked) /\ (Padded' <=> Padded)
    BY <2>1, <2>3 DEF Told, Stocked, Padded, P!Larger
  <2>5. \A filler : Holding(filler, P!NoTraps)' = Holding(filler, P!NoTraps)
    BY <2>1, OptionsDecide, Zenon DEF Holding, P!RealCount
  <2>6. FinishedPool' <=> FinishedPool
    BY <2>1, <2>3, OptionsDecide, Zenon DEF FinishedPool, Holding, P!RealCount, SplitByWeight
  <2>7. Holding(NumFillers, P!NoTraps)' = Holding(NumFillers, P!NoTraps)
        /\ Holding(FillerThatFits, P!NoTraps)' = Holding(FillerThatFits, P!NoTraps)
    BY <2>1, <2>3, OptionsDecide, Zenon DEF Holding, P!RealCount
  <2> QED
    BY <2>1, <2>2, <2>3, <2>4, <2>6, <2>7 DEF PoolKept
<1> QED
  BY <1>1, <1>2, OneFamily

LEMMA PoolKeptAlways == Spec => []PoolKept
BY PoolKeptInit, PoolKeptStep, PTL DEF Spec

LEMMA PoolKeptCompletes == PoolKept => PoolComplete
<1> SUFFICES ASSUME PoolKept, phase = "done" PROVE PoolComplete
  BY DEF PoolComplete, P!PoolFillsLocations, P!NoRealItemLost, P!EnoughMissiles, P!TrapSplit,
         P!LogicKnowsRemoved, P!Done
<1> DEFINE fits == FillerThatFits
           due  == P!TrapTotal(fits)
<1>1. Accepted /\ Told /\ Stocked /\ Padded /\ FinishedPool
  BY DEF PoolKept
<1>2. PICK traps : pool = Holding(fits - due, traps) /\ SplitByWeight(traps, due)
  BY <1>1, Zenon DEF FinishedPool
<1>3. /\ pool.real = P!RealCount /\ pool.filler = fits - due
      /\ pool.keys = KeysToPool /\ pool.traps = traps
  <2> HIDE DEF fits, due
  <2> QED
    BY <1>2 DEF Holding
<1>4. /\ fits \in Nat /\ fits >= MinExpansions /\ MinExpansions \in Nat /\ NumFillers \in Nat
      /\ P!RealCount \in Nat /\ NumLocations \in Nat
  BY <1>1, RoomIsLeft DEF Accepted
<1>5. due \in Nat /\ due <= fits /\ fits - due >= MinExpansions
  BY <1>1, <1>4, TrapTotalBounded DEF Accepted
<1>6. P!Total(traps) = due
  BY <1>2, Zenon DEF SplitByWeight
<1>7. /\ locked = P!LockedKeys /\ precollected = options.keys + 1 .. 9
      /\ options.keys \in 0 .. 9 /\ P!LockedKeys \subseteq 1 .. options.keys
      /\ IsFiniteSet(P!LockedKeys) /\ IsFiniteSet(KeysToPool)
      /\ Cardinality(P!LockedKeys) \in Nat /\ Cardinality(KeysToPool) \in Nat
      /\ Cardinality(P!LockedKeys) + Cardinality(KeysToPool) = options.keys
  BY <1>1, KeysShared DEF Accepted, Stocked, P!NumKeys
<1>8. P!PoolFillsLocations
  <2>1. P!Size = P!RealCount + (fits - due) + Cardinality(KeysToPool) + due
    BY <1>3, <1>6, PoolCardinality DEF P!Size
  <2>2. P!Unfilled = NumLocations - Cardinality(P!LockedKeys)
    BY <1>7, PoolCardinality DEF P!Unfilled
  <2>3. fits = NumLocations - Cardinality(P!LockedKeys) - P!RealCount - Cardinality(KeysToPool)
    BY DEF FillerThatFits
  <2> DEFINE lockedKeys == Cardinality(P!LockedKeys)
             pooledKeys == Cardinality(KeysToPool)
  <2>4. lockedKeys \in Nat /\ pooledKeys \in Nat
    BY <1>7
  <2> HIDE DEF fits, due, lockedKeys, pooledKeys
  <2>5. P!RealCount + (fits - due) + pooledKeys + due = NumLocations - lockedKeys
    BY <1>4, <1>5, <2>3, <2>4 DEF lockedKeys, pooledKeys
  <2>6. P!Size = P!Unfilled
    BY <2>1, <2>2, <2>5 DEF lockedKeys, pooledKeys
  <2> QED
    BY <2>6 DEF P!PoolFillsLocations
<1>9. P!NoRealItemLost
  <2>1. locked \cup KeysToPool \cup precollected = 1 .. 9
    <3>1. locked \cup KeysToPool = 1 .. options.keys
      BY <1>7 DEF KeysToPool
    <3>2. precollected = options.keys + 1 .. 9 /\ options.keys \in 0 .. 9
      BY <1>7
    <3> QED
      BY <3>1, <3>2
  <2>2. Cardinality(precollected) = 9 - options.keys
    <3>1. \A i \in 0 .. 9 : Cardinality(i + 1 .. 9) = 9 - i
      BY IntervalSize
    <3> QED
      BY <1>7, <3>1
  <2>3. P!Cardinality(locked) + P!Cardinality(pool.keys) + P!Cardinality(precollected) = 9
    BY <1>3, <1>7, <2>2, PoolCardinality
  <2> QED
    BY <1>3, <2>1, <2>3 DEF P!NoRealItemLost, P!NumKeys
<1>10. P!EnoughMissiles
  BY <1>3, <1>5 DEF P!EnoughMissiles
<1>11. P!TrapSplit
  <2>1. P!Total(pool.traps) = due
    BY <1>3, <1>6, Zenon
  <2>2. P!Total(pool.traps) = P!TrapTotal(pool.filler + P!Total(pool.traps))
    <3>1. pool.filler + P!Total(pool.traps) = fits
      BY <1>3, <1>4, <1>5, <2>1
    <3> QED
      BY <2>1, <3>1, Zenon
  <2> QED
    BY <1>2, <1>3, <2>1, <2>2, Zenon DEF P!TrapSplit, SplitByWeight
<1>12. P!LogicKnowsRemoved
  <2>1. P!RemovedExpansions = NumFillers + P!Larger(0, fits - NumFillers) - (fits - due)
    BY <1>1, RemovedIsMissing DEF Accepted
  <2>2. padding = P!Larger(0, fits - NumFillers)
    BY <1>1 DEF Padded
  <2>3. P!RemovedExpansions = NumFillers + padding - pool.filler
    BY <1>3, <2>1, <2>2
  <2>4. options.launcherGains => bonus = 5 * P!RemovedExpansions
    BY <1>1 DEF Told, P!LauncherBonus
  <2> QED
    BY <2>3, <2>4 DEF P!LogicKnowsRemoved
<1> QED
  BY <1>8, <1>9, <1>10, <1>11, <1>12 DEF PoolComplete

\* item_pool.py, for any number of locations and any option values that leave room for
\* all but the filler: every location gets an item, only Missile Expansions go, the nine
\* keys are each in one place, traps follow their weights and leave the missiles logic
\* asks for, and the bonus logic was told beforehand is right.
THEOREM PoolIsComplete == Spec => []PoolComplete
BY PoolKeptAlways, PoolKeptCompletes, PTL

-----------------------------------------------------------------------------
(* Hints: what is where as soon as the multiworld is filled, whatever is   *)
(* exchanged later, and what texts, slot data and the client make of it.   *)

LEMMA HintCardinality == \A S : H!Cardinality(S) = Cardinality(S)
BY Zenon DEF H!Cardinality, Cardinality

Located(l) ==
  /\ l = [player |-> l.player, address |-> l.address] /\ l # None
  /\ l.player = Self /\ l.address # None => l.address \in DOMAIN ItemScans

Settled ==
  /\ settings.keyHints \in {"disabled", "scanned", "precollected"}
  /\ IsFiniteSet(DOMAIN placed)
  /\ \A l \in DOMAIN placed : Located(l)

\* The locations that hold the n-th key, of which one is told.
Holders(n) == {l \in H!Addressed : H!ItemKey(l) = <<Self, KeyNames[n]>>}
OneOf(S)   == CHOOSE l \in S : TRUE

LEMMA KeyFound ==
  ASSUME Settled, NEW n \in DOMAIN KeyNames
  PROVE  LET at == H!SkyTempleKeyLocations[n]
         IN  /\ at # None <=> Holders(n) # {}
             /\ at # None => /\ at \in H!Addressed
                             /\ placed[at].player = Self /\ placed[at].name = KeyNames[n]
<1> DEFINE at == H!SkyTempleKeyLocations[n]
<1>1. at = IF Holders(n) = {} THEN None ELSE CHOOSE l \in Holders(n) : TRUE
  BY Zenon DEF H!SkyTempleKeyLocations, Holders
<1>2. CASE Holders(n) = {}
  BY <1>1, <1>2
<1>3. CASE Holders(n) # {}
  <2>1. at \in Holders(n)
    BY <1>1, <1>3, Zenon
  <2>2. at \in H!Addressed /\ H!ItemKey(at) = <<Self, KeyNames[n]>>
    BY <2>1, Zenon DEF Holders
  <2>3. at # None
    BY <2>2, Zenon DEF H!Addressed, Settled, Located
  <2>4. placed[at].player = Self /\ placed[at].name = KeyNames[n]
    BY <2>2 DEF H!ItemKey
  <2> QED
    BY <1>3, <2>2, <2>3, <2>4, Zenon
<1> QED
  BY <1>2, <1>3, Zenon

(***************************************************************************)
(* The choices depend on the filled multiworld, the options and the chosen *)
(* holograms alone.                                                        *)
(***************************************************************************)
LEMMA PlacedDecides ==
  ASSUME placed' = placed, settings' = settings
  PROVE  /\ Settled' <=> Settled
         /\ H!Addressed' = H!Addressed
         /\ \A l : H!ItemKey(l)' = H!ItemKey(l) /\ H!Names(l)' = H!Names(l)
         /\ \A n : Holders(n)' = Holders(n)
         /\ \A n \in DOMAIN KeyNames : H!SkyTempleKeyLocations[n]' = H!SkyTempleKeyLocations[n]
         /\ \A n \in DOMAIN KeyNames : H!KeyText(n)' = H!KeyText(n)
         /\ H!ItemScanHintEntries' = H!ItemScanHintEntries
         /\ H!WrittenScans' = H!WrittenScans
<1>1. Settled' <=> Settled
  BY Zenon DEF Settled
<1>2. H!Addressed' = H!Addressed
  BY Zenon DEF H!Addressed
<1>3. \A l : H!ItemKey(l)' = H!ItemKey(l)
  BY Zenon DEF H!ItemKey
<1>4. \A l : H!Names(l)' = H!Names(l)
  BY <1>3, Zenon DEF H!Names
<1>5. ASSUME NEW n PROVE Holders(n)' = Holders(n)
  BY <1>2, <1>3 DEF Holders
<1>6. ASSUME NEW n \in DOMAIN KeyNames PROVE H!SkyTempleKeyLocations[n]' = H!SkyTempleKeyLocations[n]
  <2>1. H!SkyTempleKeyLocations[n] = IF Holders(n) = {} THEN None ELSE OneOf(Holders(n))
    BY Zenon DEF H!SkyTempleKeyLocations, Holders, OneOf
  <2>2. (H!SkyTempleKeyLocations[n])' = IF Holders(n)' = {} THEN None ELSE OneOf(Holders(n)')
    BY Zenon DEF H!SkyTempleKeyLocations, Holders, OneOf
  <2>3. Holders(n)' = Holders(n)
    BY <1>5, Zenon
  <2>4. OneOf(Holders(n)') = OneOf(Holders(n))
    BY <2>3, Zenon
  <2>5. CASE Holders(n) = {}
    BY <2>1, <2>2, <2>3, <2>5
  <2>6. CASE Holders(n) # {}
    BY <2>1, <2>2, <2>3, <2>4, <2>6
  <2> QED
    BY <2>5, <2>6
<1>7. \A n \in DOMAIN KeyNames : H!KeyText(n)' = H!KeyText(n)
  BY <1>4, <1>6, Zenon DEF H!KeyText, H!Nothing
<1>8. H!ItemScanHintEntries' = H!ItemScanHintEntries
  BY <1>2, Zenon DEF H!ItemScanHintEntries
<1>9. H!WrittenScans' = H!WrittenScans
  BY <1>8, Zenon DEF H!WrittenScans, H!Members
<1> QED
  BY <1>1, <1>2, <1>3, <1>4, <1>5, <1>6, <1>7, <1>8, <1>9, Zenon

(***************************************************************************)
(* The holograms.                                                          *)
(***************************************************************************)
Tellable(l) == l \in H!Addressed /\ (placed[l].player = Self \/ l.player = Self)

LoreFaithful(list) ==
  /\ DOMAIN list \subseteq DOMAIN LoreScans
  /\ \A n \in DOMAIN list : list[n] = None \/ Tellable(list[n])
  /\ settings.lore = "off" => \A n \in DOMAIN list : list[n] = None
  /\ \A i, j \in DOMAIN list :
       list[i] # None /\ list[j] # None /\ H!ItemKey(list[i]) = H!ItemKey(list[j]) => i = j

LoreComplete(list) == DOMAIN list = DOMAIN LoreScans /\ LoreFaithful(list)

LEMMA CandidatesTellable == \A l \in H!LoreCandidates : Tellable(l)
BY Zenon DEF H!LoreCandidates, Tellable

\* translator_lore_hint_locations: an item at most once, padded with None.
LEMMA LoreChosen ==
  ASSUME Settled, NEW choice \in H!LoreChoices
  PROVE  LoreComplete(choice)
<1> DEFINE total  == Len(LoreScans)
           keys   == {H!ItemKey(l) : l \in H!LoreCandidates}
           kinds  == H!Cardinality(keys)
           count  == IF kinds < total THEN kinds ELSE total
           orders == {o \in [1 .. count -> H!LoreCandidates] :
                        \A i, j \in 1 .. count : H!ItemKey(o[i]) = H!ItemKey(o[j]) => i = j}
           Padded_(o) == [i \in 1 .. total |-> IF i <= count THEN o[i] ELSE None]
<1>1. total \in Nat /\ DOMAIN LoreScans = 1 .. total
  BY ScansAssumption
<1>2. kinds \in Nat
  <2>1. H!LoreCandidates \subseteq DOMAIN placed
    BY Zenon DEF H!LoreCandidates, H!Addressed
  <2>2. IsFiniteSet(H!LoreCandidates)
    BY <2>1, FS_Subset DEF Settled
  <2> DEFINE key == [l \in H!LoreCandidates |-> H!ItemKey(l)]
  <2>4. key \in Surjection(H!LoreCandidates, keys)
    BY DEF Surjection
  <2>3. IsFiniteSet(keys)
    BY <2>2, <2>4, FS_Surjection, Zenon
  <2> QED
    BY <2>3, FS_CardinalityType, HintCardinality
<1>3. choice \in IF settings.lore = "off" THEN {[i \in 1 .. total |-> None]} ELSE {Padded_(o) : o \in orders}
  BY Zenon DEF H!LoreChoices
<1>4. CASE settings.lore = "off"
  <2>1. choice = [i \in 1 .. total |-> None]
    BY <1>3, <1>4, Zenon
  <2> QED
    BY <1>1, <2>1 DEF LoreComplete, LoreFaithful
<1>5. CASE settings.lore # "off"
  <2>1. PICK o \in orders : choice = Padded_(o)
    BY <1>3, <1>5, Zenon
  <2>2. count \in Nat /\ count <= total
    BY <1>1, <1>2
  <2>3. /\ \A i \in 1 .. count : o[i] \in H!LoreCandidates
        /\ \A i, j \in 1 .. count : H!ItemKey(o[i]) = H!ItemKey(o[j]) => i = j
    BY <2>1
  <2>4. \A l \in H!LoreCandidates : Tellable(l) /\ l # None
    BY CandidatesTellable, Zenon DEF Tellable, H!Addressed, Settled, Located
  <2> HIDE DEF count, total, orders
  <2>5. DOMAIN choice = 1 .. total /\ \A i \in 1 .. total : choice[i] = IF i <= count THEN o[i] ELSE None
    BY <2>1
  <2>6. \A i \in 1 .. total : choice[i] # None => i \in 1 .. count /\ choice[i] = o[i]
    BY <1>1, <2>2, <2>5
  <2>7. \A i \in 1 .. total : choice[i] = None \/ Tellable(choice[i])
    BY <2>3, <2>4, <2>6, Zenon
  <2>8. \A i, j \in 1 .. total :
          choice[i] # None /\ choice[j] # None /\ H!ItemKey(choice[i]) = H!ItemKey(choice[j]) => i = j
    BY <2>3, <2>6, Zenon
  <2>9. DOMAIN choice = DOMAIN LoreScans
    BY <1>1, <2>5, Zenon DEF total
  <2> QED
    BY <1>5, <2>5, <2>7, <2>8, <2>9, Zenon DEF LoreComplete, LoreFaithful
<1> QED
  BY <1>4, <1>5

LEMMA LoreStands ==
  ASSUME placed' = placed, settings' = settings
  PROVE  /\ \A l : Tellable(l)' <=> Tellable(l)
         /\ \A list : LoreFaithful(list)' <=> LoreFaithful(list)
         /\ \A list : LoreComplete(list)' <=> LoreComplete(list)
<1>1. H!Addressed' = H!Addressed /\ \A l : H!ItemKey(l)' = H!ItemKey(l)
  BY PlacedDecides, Zenon
<1>2. \A l : Tellable(l)' <=> Tellable(l)
  BY <1>1, Zenon DEF Tellable
<1>3. \A list : LoreFaithful(list)' <=> LoreFaithful(list)
  BY <1>1, <1>2, Zenon DEF LoreFaithful
<1>4. \A list : LoreComplete(list)' <=> LoreComplete(list)
  BY <1>3, Zenon DEF LoreComplete
<1> QED
  BY <1>2, <1>3, <1>4, Zenon

(***************************************************************************)
(* The texts, each of the scan it is written for.                          *)
(***************************************************************************)
TextsKept ==
  /\ DOMAIN texts = H!WrittenScans
  /\ \A n \in DOMAIN KeyScans : texts[KeyScans[n]] = H!KeyText(n)
  /\ settings.lore # "off" => \A n \in DOMAIN LoreScans : texts[LoreScans[n]] = H!LoreText(n)
  /\ \A l \in H!ItemScanHintEntries : texts[ItemScans[l.address]] = H!Names(l)

LEMMA ScanOf ==
  ASSUME NEW list, \A i, j \in DOMAIN list : list[i] = list[j] => i = j, NEW n \in DOMAIN list
  PROVE  (CHOOSE m \in DOMAIN list : list[m] = list[n]) = n
<1> DEFINE found == CHOOSE m \in DOMAIN list : list[m] = list[n]
<1>1. found \in DOMAIN list /\ list[found] = list[n]
  BY Zenon
<1> QED
  BY <1>1

LEMMA EntriesAre ==
  ASSUME Settled, NEW l \in H!ItemScanHintEntries
  PROVE  /\ l \in H!Addressed /\ l.player = Self /\ l.address \in DOMAIN ItemScans
         /\ l = [player |-> l.player, address |-> l.address]
         /\ settings.items # "off"
         /\ H!PickupText(l) = H!Names(l)
<1>1. l \in H!Addressed /\ l.player = Self /\ settings.items # "off"
      /\ ~(placed[l].player = Self /\ placed[l].trap /\ settings.disguise)
  BY Zenon DEF H!ItemScanHintEntries
<1>2. l \in DOMAIN placed /\ l.address # None
  BY <1>1, Zenon DEF H!Addressed
<1>3. Located(l)
  BY <1>2, Zenon DEF Settled
<1>4. H!PickupText(l) = H!Names(l)
  BY <1>1, Zenon DEF H!PickupText
<1> QED
  BY <1>1, <1>2, <1>3, <1>4, Zenon DEF Located

LEMMA TextsWritten ==
  ASSUME Settled
  PROVE  /\ \A n \in DOMAIN KeyScans : KeyScans[n] \in H!WrittenScans /\ H!TextOf(KeyScans[n]) = H!KeyText(n)
         /\ \A n \in DOMAIN LoreScans :
              /\ settings.lore # "off" => LoreScans[n] \in H!WrittenScans
              /\ H!TextOf(LoreScans[n]) = H!LoreText(n)
         /\ \A l \in H!ItemScanHintEntries :
              /\ ItemScans[l.address] \in H!WrittenScans
              /\ H!TextOf(ItemScans[l.address]) = H!Names(l)
<1> DEFINE keys == H!Members(KeyScans)
           lore == H!Members(LoreScans)
<1>1. /\ \A n \in DOMAIN KeyScans : KeyScans[n] \in keys
      /\ \A n \in DOMAIN LoreScans : LoreScans[n] \in lore /\ LoreScans[n] \notin keys
      /\ \A a \in DOMAIN ItemScans : ItemScans[a] \notin keys /\ ItemScans[a] \notin lore
  <2>1. \A list, n : n \in DOMAIN list => list[n] \in H!Members(list)
    BY Zenon DEF H!Members
  <2> QED
    BY <2>1, ScansAssumption, Zenon
<1>2. ASSUME NEW n \in DOMAIN KeyScans
      PROVE  KeyScans[n] \in H!WrittenScans /\ H!TextOf(KeyScans[n]) = H!KeyText(n)
  <2>1. (CHOOSE m \in DOMAIN KeyScans : KeyScans[m] = KeyScans[n]) = n
    BY ScanOf, ScansAssumption, Zenon
  <2>2. H!TextOf(KeyScans[n]) = H!KeyText(CHOOSE m \in DOMAIN KeyScans : KeyScans[m] = KeyScans[n])
    BY <1>1, Zenon DEF H!TextOf
  <2>3. KeyScans[n] \in H!WrittenScans
    BY <1>1, Zenon DEF H!WrittenScans
  <2> QED
    BY <2>1, <2>2, <2>3, Zenon
<1>3. ASSUME NEW n \in DOMAIN LoreScans
      PROVE  /\ settings.lore # "off" => LoreScans[n] \in H!WrittenScans
             /\ H!TextOf(LoreScans[n]) = H!LoreText(n)
  <2>1. (CHOOSE m \in DOMAIN LoreScans : LoreScans[m] = LoreScans[n]) = n
    BY ScanOf, ScansAssumption, Zenon
  <2>2. H!TextOf(LoreScans[n]) = H!LoreText(CHOOSE m \in DOMAIN LoreScans : LoreScans[m] = LoreScans[n])
    BY <1>1, Zenon DEF H!TextOf
  <2>3. settings.lore # "off" => LoreScans[n] \in H!WrittenScans
    BY <1>1, Zenon DEF H!WrittenScans
  <2> QED
    BY <2>1, <2>2, <2>3, Zenon
<1>4. ASSUME NEW l \in H!ItemScanHintEntries
      PROVE  /\ ItemScans[l.address] \in H!WrittenScans
             /\ H!TextOf(ItemScans[l.address]) = H!Names(l)
  <2> DEFINE scan  == ItemScans[l.address]
             found == CHOOSE k \in H!ItemScanHintEntries : ItemScans[k.address] = scan
  <2>1. found \in H!ItemScanHintEntries /\ ItemScans[found.address] = scan
    BY Zenon
  <2>2. found.address = l.address /\ found.player = l.player
    BY <2>1, EntriesAre, ScansAssumption, Zenon
  <2>3. found = [player |-> found.player, address |-> found.address]
        /\ l = [player |-> l.player, address |-> l.address]
    BY <2>1, EntriesAre, Zenon
  <2>4. found = l
    BY <2>2, <2>3, Zenon
  <2>5. scan \notin keys /\ scan \notin lore
    BY <1>1, EntriesAre, Zenon
  <2>6. H!TextOf(scan) = H!PickupText(found)
    BY <2>5, Zenon DEF H!TextOf
  <2>7. scan \in H!WrittenScans
    BY Zenon DEF H!WrittenScans
  <2> QED
    BY <2>4, <2>6, <2>7, EntriesAre, Zenon
<1> QED
  BY <1>2, <1>3, <1>4, Zenon

(***************************************************************************)
(* The slot data: whoever finds an entry for a scan finds what its text    *)
(* says, and there is one for every scan that says something.              *)
(***************************************************************************)
\* startHints are the keys that have a place, if keys are hinted from the start.
StartHintsKept ==
  startHints = IF settings.keyHints = "precollected"
               THEN {KeyNames[n] : n \in {k \in DOMAIN KeyNames : Holders(k) # {}}}
               ELSE {}

Chosen(scan, l, status) ==
  /\ scan \in DOMAIN texts /\ texts[scan] = H!Names(l)
  /\ l \in H!Addressed
  /\ \/ placed[l].player = Self
     \/ /\ l.player = Self /\ status = "UNSPECIFIED"
        /\ ~(settings.lore = "off" /\ settings.items = "off")

SlotFaithful(entries) ==
  /\ \A e \in entries : \E scan, l, status : e = H!Entry(scan, l, status) /\ Chosen(scan, l, status)
  /\ \A scan \in DOMAIN texts : texts[scan] # H!Nothing =>
       (\E e \in entries : e[1] = H!Str(scan)) \/ texts[scan].at \in H!StartHinted

LEMMA EntryHas ==
  ASSUME NEW scan, NEW l, NEW status
  PROVE  /\ H!Entry(scan, l, status)[1] = H!Str(scan)
         /\ H!Entry(scan, l, status)[2] = <<l.player, l.address, status>>
BY DEF H!Entry

LEMMA StrInjective == \A s, t : H!Str(s) = H!Str(t) => s = t
BY DEF H!Str

LEMMA SomethingNamed ==
  ASSUME Settled, NEW l \in H!Addressed
  PROVE  /\ l # None /\ l = [player |-> l.player, address |-> l.address]
         /\ H!Names(l) # H!Nothing /\ H!Names(l).at = l /\ H!Shows(H!Names(l), l)
<1>1. l # None /\ l = [player |-> l.player, address |-> l.address]
  BY Zenon DEF H!Addressed, Settled, Located
<1> QED
  BY <1>1 DEF H!Names, H!Nothing, H!Shows

LEMMA SlotEncoded ==
  ASSUME Settled, StartHintsKept, LoreComplete(loreHints), TextsKept
  PROVE  SlotFaithful(H!EncodeHintScans)
<1> DEFINE KeyEntries  == {H!Entry(KeyScans[n], H!SkyTempleKeyLocations[n], "PRIORITY") :
                             n \in {k \in DOMAIN KeyScans : settings.keyHints = "scanned"
                                                             /\ H!SkyTempleKeyLocations[k] # None}}
           LoreEntries == {H!Entry(LoreScans[n], loreHints[n], H!StatusOf(loreHints[n])) :
                             n \in {k \in DOMAIN LoreScans : loreHints[k] # None}}
           ItemEntries == {H!Entry(ItemScans[l.address], l, H!StatusOf(l)) : l \in H!ItemScanHintEntries}
<1>1. H!EncodeHintScans = KeyEntries \cup LoreEntries \cup ItemEntries
  BY Zenon DEF H!EncodeHintScans
<1>2. ASSUME NEW n \in DOMAIN KeyScans, H!SkyTempleKeyLocations[n] # None, settings.keyHints # "disabled"
      PROVE  \A status : Chosen(KeyScans[n], H!SkyTempleKeyLocations[n], status)
  <2>1. n \in DOMAIN KeyNames
    BY ScansAssumption, Zenon
  <2>2. H!SkyTempleKeyLocations[n] \in H!Addressed /\ placed[H!SkyTempleKeyLocations[n]].player = Self
    BY <1>2, <2>1, KeyFound, Zenon
  <2>3. KeyScans[n] \in DOMAIN texts /\ texts[KeyScans[n]] = H!KeyText(n)
    BY TextsWritten, Zenon DEF TextsKept
  <2>4. H!KeyText(n) = H!Names(H!SkyTempleKeyLocations[n])
    BY <1>2, Zenon DEF H!KeyText
  <2> QED
    BY <2>2, <2>3, <2>4, Zenon DEF Chosen
<1>3. ASSUME NEW n \in DOMAIN LoreScans, loreHints[n] # None
      PROVE  Chosen(LoreScans[n], loreHints[n], H!StatusOf(loreHints[n]))
  <2>1. settings.lore # "off" /\ Tellable(loreHints[n])
    BY <1>3, Zenon DEF LoreComplete, LoreFaithful
  <2>2. LoreScans[n] \in DOMAIN texts /\ texts[LoreScans[n]] = H!LoreText(n)
    BY <2>1, TextsWritten, Zenon DEF TextsKept
  <2>3. H!LoreText(n) = H!Names(loreHints[n])
    BY <1>3, Zenon DEF H!LoreText
  <2>4. placed[loreHints[n]].player = Self \/ H!StatusOf(loreHints[n]) = "UNSPECIFIED"
    BY Zenon DEF H!StatusOf
  <2> QED
    BY <2>1, <2>2, <2>3, <2>4, Zenon DEF Chosen, Tellable
<1>4. ASSUME NEW l \in H!ItemScanHintEntries
      PROVE  Chosen(ItemScans[l.address], l, H!StatusOf(l))
  <2>1. l \in H!Addressed /\ l.player = Self /\ settings.items # "off"
    BY EntriesAre, Zenon
  <2>2. ItemScans[l.address] \in DOMAIN texts /\ texts[ItemScans[l.address]] = H!Names(l)
    BY TextsWritten, Zenon DEF TextsKept
  <2>3. placed[l].player = Self \/ H!StatusOf(l) = "UNSPECIFIED"
    BY Zenon DEF H!StatusOf
  <2> QED
    BY <2>1, <2>2, <2>3, Zenon DEF Chosen
<1>5. ASSUME NEW e \in H!EncodeHintScans
      PROVE  \E scan, l, status : e = H!Entry(scan, l, status) /\ Chosen(scan, l, status)
  <2>1. ASSUME e \in KeyEntries PROVE \E scan, l, status : e = H!Entry(scan, l, status) /\ Chosen(scan, l, status)
    <3>1. PICK n \in DOMAIN KeyScans : /\ settings.keyHints = "scanned" /\ H!SkyTempleKeyLocations[n] # None
                                       /\ e = H!Entry(KeyScans[n], H!SkyTempleKeyLocations[n], "PRIORITY")
      BY <2>1, Zenon
    <3>2. settings.keyHints # "disabled"
      BY <3>1
    <3> QED
      BY <1>2, <3>1, <3>2, Zenon
  <2>2. ASSUME e \in LoreEntries PROVE \E scan, l, status : e = H!Entry(scan, l, status) /\ Chosen(scan, l, status)
    BY <1>3, <2>2, Zenon
  <2>3. ASSUME e \in ItemEntries PROVE \E scan, l, status : e = H!Entry(scan, l, status) /\ Chosen(scan, l, status)
    BY <1>4, <2>3, Zenon
  <2> QED
    BY <1>1, <1>5, <2>1, <2>2, <2>3, Zenon
<1>6. ASSUME NEW scan \in DOMAIN texts, texts[scan] # H!Nothing
      PROVE  (\E e \in H!EncodeHintScans : e[1] = H!Str(scan)) \/ texts[scan].at \in H!StartHinted
  <2>1. \/ \E n \in DOMAIN KeyScans : scan = KeyScans[n]
        \/ settings.lore # "off" /\ \E n \in DOMAIN LoreScans : scan = LoreScans[n]
        \/ \E l \in H!ItemScanHintEntries : scan = ItemScans[l.address]
    BY <1>6, Zenon DEF TextsKept, H!WrittenScans, H!Members
  <2>2. ASSUME NEW n \in DOMAIN KeyScans, scan = KeyScans[n]
        PROVE  (\E e \in H!EncodeHintScans : e[1] = H!Str(scan)) \/ texts[scan].at \in H!StartHinted
    <3> DEFINE at == H!SkyTempleKeyLocations[n]
    <3>1. texts[scan] = H!KeyText(n)
      BY <2>2, Zenon DEF TextsKept
    <3>2. settings.keyHints # "disabled" /\ at # None /\ texts[scan] = H!Names(at)
      BY <1>6, <3>1, Zenon DEF H!KeyText
    <3>3. n \in DOMAIN KeyNames
      BY ScansAssumption, Zenon
    <3>4. CASE settings.keyHints = "scanned"
      <4>1. H!Entry(KeyScans[n], at, "PRIORITY") \in H!EncodeHintScans
        BY <1>1, <3>2, <3>4, Zenon
      <4> QED
        BY <2>2, <4>1, EntryHas, Zenon
    <3>5. CASE settings.keyHints = "precollected"
      <4>1. at \in H!Addressed /\ placed[at].player = Self /\ placed[at].name = KeyNames[n] /\ Holders(n) # {}
        BY <3>2, <3>3, KeyFound, Zenon
      <4>2. KeyNames[n] \in startHints
        BY <3>3, <3>5, <4>1 DEF StartHintsKept
      <4>3. at \in H!StartHinted
        BY <4>1, <4>2, Zenon DEF H!StartHinted
      <4> QED
        BY <3>2, <4>1, <4>3, SomethingNamed, Zenon
    <3> QED
      BY <3>2, <3>4, <3>5 DEF Settled
  <2>3. ASSUME settings.lore # "off", NEW n \in DOMAIN LoreScans, scan = LoreScans[n]
        PROVE  \E e \in H!EncodeHintScans : e[1] = H!Str(scan)
    <3>1. texts[scan] = H!LoreText(n)
      BY <2>3, Zenon DEF TextsKept
    <3>2. loreHints[n] # None
      BY <1>6, <3>1, Zenon DEF H!LoreText
    <3>3. H!Entry(LoreScans[n], loreHints[n], H!StatusOf(loreHints[n])) \in H!EncodeHintScans
      BY <1>1, <3>2, Zenon
    <3> QED
      BY <2>3, <3>3, EntryHas, Zenon
  <2>4. ASSUME NEW l \in H!ItemScanHintEntries, scan = ItemScans[l.address]
        PROVE  \E e \in H!EncodeHintScans : e[1] = H!Str(scan)
    <3>1. H!Entry(ItemScans[l.address], l, H!StatusOf(l)) \in H!EncodeHintScans
      BY <1>1, Zenon
    <3> QED
      BY <2>4, <3>1, EntryHas, Zenon
  <2> QED
    BY <2>1, <2>2, <2>3, <2>4, Zenon
<1> QED
  BY <1>5, <1>6, Zenon DEF SlotFaithful

(***************************************************************************)
(* The client's table, and what it has asked for.                          *)
(***************************************************************************)
TableFaithful(tbl) ==
  /\ \A scan \in DOMAIN tbl : \E l : /\ Chosen(scan, l, tbl[scan].status)
                                     /\ tbl[scan].player = l.player /\ tbl[scan].location = l.address
  /\ \A scan \in DOMAIN texts : texts[scan] # H!Nothing =>
       scan \in DOMAIN tbl \/ texts[scan].at \in H!StartHinted

Readable(raw) ==
  /\ \A e \in raw : \E scan, l, status :
       /\ Chosen(scan, l, status)
       /\ e = H!Entry(scan, l, status)
          \/ (e = <<H!Str(scan), <<l.player, l.address>>>> /\ placed[l].player = Self)
  /\ \A scan \in DOMAIN texts : texts[scan] # H!Nothing =>
       (\E e \in raw : e[1] = H!Str(scan)) \/ texts[scan].at \in H!StartHinted

LEMMA SlotReadable ==
  ASSUME SlotFaithful(slotHints)
  PROVE  /\ Readable(slotHints)
         /\ settings.lore = "off" /\ settings.items = "off" => Readable(H!OlderSlot)
<1>1. Readable(slotHints)
  BY Zenon DEF SlotFaithful, Readable
<1>2. ASSUME settings.lore = "off", settings.items = "off" PROVE Readable(H!OlderSlot)
  <2>1. H!OlderSlot = {<<e[1], <<e[2][1], e[2][2]>>>> : e \in slotHints}
    BY Zenon DEF H!OlderSlot
  <2>2. ASSUME NEW e \in H!OlderSlot
        PROVE  \E scan, l, status : /\ Chosen(scan, l, status)
                                    /\ e = H!Entry(scan, l, status)
                                       \/ (e = <<H!Str(scan), <<l.player, l.address>>>> /\ placed[l].player = Self)
    <3>1. PICK f \in slotHints : e = <<f[1], <<f[2][1], f[2][2]>>>>
      BY <2>1, Zenon
    <3>2. PICK scan, l, status : f = H!Entry(scan, l, status) /\ Chosen(scan, l, status)
      BY Zenon DEF SlotFaithful
    <3>3. f[1] = H!Str(scan) /\ f[2][1] = l.player /\ f[2][2] = l.address
      BY <3>2, EntryHas
    <3>4. e = <<H!Str(scan), <<l.player, l.address>>>>
      BY <3>1, <3>3, Zenon
    <3>5. placed[l].player = Self
      BY <1>2, <3>2, Zenon DEF Chosen
    <3> QED
      BY <3>2, <3>4, <3>5, Zenon
  <2>3. ASSUME NEW scan, NEW e \in slotHints, e[1] = H!Str(scan)
        PROVE  \E f \in H!OlderSlot : f[1] = H!Str(scan)
    <3>1. <<e[1], <<e[2][1], e[2][2]>>>> \in H!OlderSlot
      BY <2>1, Zenon
    <3>2. <<e[1], <<e[2][1], e[2][2]>>>>[1] = H!Str(scan)
      BY <2>3
    <3> QED
      BY <3>1, <3>2, Zenon
  <2> QED
    BY <2>2, <2>3, Zenon DEF SlotFaithful, Readable
<1> QED
  BY <1>1, <1>2

\* decode_hint_scans reads an entry of either length for what it was written as.
LEMMA TableRead ==
  ASSUME Settled, TextsKept, NEW raw, Readable(raw)
  PROVE  TableFaithful(H!DecodeHintScans(raw))
<1> DEFINE known == H!Members(KeyScans) \cup H!Members(LoreScans) \cup H!Members(ItemScans)
           keys  == {s \in known : \E e \in raw : e[1] = H!Str(s)}
           EntryOf(s) == (CHOOSE e \in raw : e[1] = H!Str(s))[2]
           Row(s) == [player   |-> EntryOf(s)[1],
                      location |-> EntryOf(s)[2],
                      status   |-> IF Len(EntryOf(s)) > 2 THEN EntryOf(s)[3] ELSE "PRIORITY"]
           tbl == H!DecodeHintScans(raw)
<1>1. tbl = [s \in keys |-> Row(s)]
  BY Zenon DEF H!DecodeHintScans
<1>2. ASSUME NEW s \in keys
      PROVE  \E l : /\ Chosen(s, l, Row(s).status)
                    /\ Row(s).player = l.player /\ Row(s).location = l.address
  <2> DEFINE f == CHOOSE e \in raw : e[1] = H!Str(s)
  <2>1. f \in raw /\ f[1] = H!Str(s)
    BY <1>2, Zenon
  <2>2. PICK scan, l, status :
          /\ Chosen(scan, l, status)
          /\ f = H!Entry(scan, l, status)
             \/ (f = <<H!Str(scan), <<l.player, l.address>>>> /\ placed[l].player = Self)
    BY <2>1, Zenon DEF Readable
  <2>3. Row(s) = [player   |-> f[2][1], location |-> f[2][2],
                  status |-> IF Len(f[2]) > 2 THEN f[2][3] ELSE "PRIORITY"]
    BY Zenon
  <2> HIDE DEF f, Row, keys
  <2>4. CASE f = H!Entry(scan, l, status)
    <3>1. f[1] = H!Str(scan) /\ f[2] = <<l.player, l.address, status>>
      BY <2>4, EntryHas
    <3>2. scan = s
      BY <2>1, <3>1, StrInjective, Zenon
    <3>3. Row(s).player = l.player /\ Row(s).location = l.address /\ Row(s).status = status
      BY <2>3, <3>1
    <3> QED
      BY <2>2, <3>2, <3>3, Zenon
  <2>5. CASE f = <<H!Str(scan), <<l.player, l.address>>>> /\ placed[l].player = Self
    <3>1. f[1] = H!Str(scan) /\ f[2] = <<l.player, l.address>>
      BY <2>5
    <3>2. scan = s
      BY <2>1, <3>1, StrInjective, Zenon
    <3>3. Row(s).player = l.player /\ Row(s).location = l.address
      BY <2>3, <3>1
    <3>4. Chosen(s, l, Row(s).status)
      BY <2>2, <2>5, <3>2, Zenon DEF Chosen
    <3> QED
      BY <3>3, <3>4, Zenon
  <2> QED
    BY <2>2, <2>4, <2>5
<1>3. \A scan \in DOMAIN texts : scan \in known
  <2>1. \A a \in DOMAIN ItemScans : ItemScans[a] \in H!Members(ItemScans)
    BY Zenon DEF H!Members
  <2>2. \A l \in H!ItemScanHintEntries : ItemScans[l.address] \in H!Members(ItemScans)
    BY <2>1, EntriesAre, Zenon
  <2>3. ASSUME NEW scan \in DOMAIN texts PROVE scan \in known
    <3>1. \/ scan \in H!Members(KeyScans)
          \/ scan \in H!Members(LoreScans)
          \/ \E l \in H!ItemScanHintEntries : scan = ItemScans[l.address]
      BY <2>3 DEF TextsKept, H!WrittenScans
    <3> QED
      BY <2>2, <3>1, Zenon
  <2> QED
    BY <2>3
<1>4. \A scan \in DOMAIN texts : texts[scan] # H!Nothing =>
        scan \in keys \/ texts[scan].at \in H!StartHinted
  BY <1>3, Zenon DEF Readable
<1> HIDE DEF keys, Row
<1>5. DOMAIN tbl = keys /\ \A s \in keys : tbl[s] = Row(s)
  BY <1>1
<1> QED
  BY <1>2, <1>4, <1>5, Zenon DEF TableFaithful

HintedKept ==
  /\ sent \subseteq scanned /\ sent \subseteq DOMAIN table
  /\ \A scan \in sent : texts[scan].at \in hints
  /\ \A l \in hints \ H!StartHinted : \E scan \in scanned : H!Shows(texts[scan], l)

\* One CreateHints for each player and status, of the hints with that player and
\* status.
SameGroup(s, t) == table[s].player = table[t].player /\ table[s].status = table[t].status
MessageOf(scans, s) ==
  [player |-> table[s].player, status |-> table[s].status,
   locations |-> {table[t].location : t \in {u \in scans : SameGroup(u, s)}}]
HintOf(scan) == [player |-> table[scan].player, address |-> table[scan].location]
HintsOf(message) == {[player |-> message.player, address |-> a] : a \in message.locations}

LEMMA GroupedIs ==
  ASSUME NEW scans
  PROVE  \A m : m \in H!Grouped(scans) <=> \E s \in scans : m = MessageOf(scans, s)
<1> DEFINE Group(s) == <<table[s].player, table[s].status>>
           Message(g) == [player |-> g[1], status |-> g[2],
                          locations |-> {table[s].location : s \in {t \in scans : Group(t) = g}}]
<1>1. H!Grouped(scans) = {Message(g) : g \in {Group(s) : s \in scans}}
  BY Zenon DEF H!Grouped
<1>2. ASSUME NEW s \in scans PROVE Message(Group(s)) = MessageOf(scans, s)
  <2>1. {t \in scans : Group(t) = Group(s)} = {u \in scans : SameGroup(u, s)}
    BY SMT DEF SameGroup
  <2>2. Group(s)[1] = table[s].player /\ Group(s)[2] = table[s].status
    BY SMT
  <2>3. Message(Group(s)) =
          [player |-> Group(s)[1], status |-> Group(s)[2],
           locations |-> {table[u].location : u \in {t \in scans : Group(t) = Group(s)}}]
    BY Zenon
  <2> HIDE DEF Message, Group
  <2> QED
    BY <2>1, <2>2, <2>3, Zenon DEF MessageOf
<1> HIDE DEF Message, Group
<1>3. \A m : m \in H!Grouped(scans) <=> \E s \in scans : m = Message(Group(s))
  BY <1>1, Zenon
<1> QED
  BY <1>2, <1>3, Zenon

LEMMA MessageHas ==
  ASSUME NEW scans, NEW s \in scans
  PROVE  /\ MessageOf(scans, s).player = table[s].player
         /\ MessageOf(scans, s).status = table[s].status
         /\ \A a \in MessageOf(scans, s).locations : \E t \in scans : SameGroup(t, s) /\ a = table[t].location
         /\ \A t \in scans : SameGroup(t, s) => table[t].location \in MessageOf(scans, s).locations
<1>1. /\ MessageOf(scans, s).player = table[s].player
      /\ MessageOf(scans, s).status = table[s].status
      /\ MessageOf(scans, s).locations = {table[t].location : t \in {u \in scans : SameGroup(u, s)}}
  BY SMT DEF MessageOf
<1>2. \A a : a \in {table[t].location : t \in {u \in scans : SameGroup(u, s)}}
               <=> \E t \in scans : SameGroup(t, s) /\ a = table[t].location
  BY Zenon
<1> QED
  BY <1>1, <1>2, Zenon

\* What the hints of all messages together are: one for each scan.
LEMMA HintsOfAll ==
  ASSUME NEW scans
  PROVE  \A l : (\E m \in H!Grouped(scans) : l \in HintsOf(m)) <=> \E t \in scans : l = HintOf(t)
<1>1. ASSUME NEW l, NEW m \in H!Grouped(scans), l \in HintsOf(m)
      PROVE  \E t \in scans : l = HintOf(t)
  <2>1. PICK s \in scans : m = MessageOf(scans, s)
    BY GroupedIs, Zenon
  <2>2. PICK a \in m.locations : l = [player |-> m.player, address |-> a]
    BY <1>1, Zenon DEF HintsOf
  <2>3. m.player = table[s].player /\ \E t \in scans : SameGroup(t, s) /\ a = table[t].location
    <3>1. a \in MessageOf(scans, s).locations /\ m.player = MessageOf(scans, s).player
      BY <2>1
    <3>2. MessageOf(scans, s).player = table[s].player
      BY MessageHas
    <3>3. \A b \in MessageOf(scans, s).locations : \E t \in scans : SameGroup(t, s) /\ b = table[t].location
      BY MessageHas
    <3>4. \E t \in scans : SameGroup(t, s) /\ a = table[t].location
      BY <3>1, <3>3
    <3> QED
      BY <3>1, <3>2, <3>4, Zenon
  <2>4. PICK t \in scans : SameGroup(t, s) /\ a = table[t].location
    BY <2>3, Zenon
  <2>5. l = HintOf(t)
    BY <2>2, <2>3, <2>4, Zenon DEF HintOf, SameGroup
  <2> QED
    BY <2>5, Zenon
<1>2. ASSUME NEW t \in scans
      PROVE  \E m \in H!Grouped(scans) : HintOf(t) \in HintsOf(m)
  <2>1. SameGroup(t, t)
    BY Zenon DEF SameGroup
  <2>2. MessageOf(scans, t) \in H!Grouped(scans)
    BY GroupedIs, Zenon
  <2>3. table[t].location \in MessageOf(scans, t).locations /\ MessageOf(scans, t).player = table[t].player
    BY <2>1, MessageHas, Zenon
  <2>4. HintOf(t) \in HintsOf(MessageOf(scans, t))
    BY <2>3, Zenon DEF HintOf, HintsOf
  <2> QED
    BY <2>2, <2>4, Zenon
<1> QED
  BY <1>1, <1>2, Zenon

\* A line of the table is a location the scan's text names, one the server hints.
LEMMA LineIsChosen ==
  ASSUME Settled, TableFaithful(table), NEW scan \in DOMAIN table
  PROVE  /\ Chosen(scan, HintOf(scan), table[scan].status)
         /\ texts[scan].at = HintOf(scan)
         /\ H!Shows(texts[scan], HintOf(scan))
<1>1. PICK l : /\ Chosen(scan, l, table[scan].status)
               /\ table[scan].player = l.player /\ table[scan].location = l.address
  BY Zenon DEF TableFaithful
<1>2. l \in H!Addressed /\ texts[scan] = H!Names(l)
  BY <1>1, Zenon DEF Chosen
<1>3. texts[scan].at = l /\ H!Shows(texts[scan], l) /\ l = [player |-> l.player, address |-> l.address]
  BY <1>2, SomethingNamed, Zenon
<1>4. l = HintOf(scan)
  BY <1>1, <1>3, Zenon DEF HintOf
<1> QED
  BY <1>1, <1>3, <1>4, Zenon

\* The server refuses none of the messages.
LEMMA NoneRefused ==
  ASSUME Settled, TableFaithful(table), NEW scans \in SUBSET DOMAIN table
  PROVE  \A m \in H!Grouped(scans) : H!Accepted(m)
<1> SUFFICES ASSUME NEW m \in H!Grouped(scans), NEW a \in m.locations
             PROVE  \/ placed[[player |-> m.player, address |-> a]].player = Self
                    \/ m.player = Self /\ m.status = "UNSPECIFIED"
  BY Zenon DEF H!Accepted
<1>1. PICK s \in scans : m = MessageOf(scans, s)
  BY GroupedIs, Zenon
<1>2. /\ m.player = table[s].player /\ m.status = table[s].status
      /\ \E t \in scans : SameGroup(t, s) /\ a = table[t].location
  <2>1. /\ a \in MessageOf(scans, s).locations
        /\ m.player = MessageOf(scans, s).player /\ m.status = MessageOf(scans, s).status
    BY <1>1
  <2>2. MessageOf(scans, s).player = table[s].player /\ MessageOf(scans, s).status = table[s].status
    BY MessageHas
  <2>3. \A b \in MessageOf(scans, s).locations : \E t \in scans : SameGroup(t, s) /\ b = table[t].location
    BY MessageHas
  <2>4. \E t \in scans : SameGroup(t, s) /\ a = table[t].location
    BY <2>1, <2>3
  <2> QED
    BY <2>1, <2>2, <2>4, Zenon
<1>3. PICK t \in scans : SameGroup(t, s) /\ a = table[t].location
  BY <1>2, Zenon
<1>4. HintOf(t) = [player |-> m.player, address |-> a] /\ table[t].player = m.player
      /\ table[t].status = m.status
  BY <1>2, <1>3, Zenon DEF HintOf, SameGroup
<1>5. t \in DOMAIN table
  BY Zenon
<1>6. Chosen(t, HintOf(t), table[t].status)
  BY <1>5, LineIsChosen, Zenon
<1>7. placed[HintOf(t)].player = Self \/ (HintOf(t).player = Self /\ table[t].status = "UNSPECIFIED")
  BY <1>6, Zenon DEF Chosen
<1>8. HintOf(t).player = table[t].player
  BY Zenon DEF HintOf
<1> QED
  BY <1>4, <1>7, <1>8, Zenon

LEMMA HintsArrive ==
  ASSUME Settled, TableFaithful(table), HintedKept,
         NEW scans \in SUBSET (scanned \cap DOMAIN table)
  PROVE  LET given == hints \cup UNION {{[player |-> m.player, address |-> a] : a \in m.locations} :
                                           m \in {g \in H!Grouped(scans) : H!Accepted(g)}}
         IN  /\ \A scan \in sent \cup scans : texts[scan].at \in given
             /\ \A l \in given \ H!StartHinted : \E scan \in scanned : H!Shows(texts[scan], l)
<1> DEFINE given == hints \cup UNION {{[player |-> m.player, address |-> a] : a \in m.locations} :
                                        m \in {g \in H!Grouped(scans) : H!Accepted(g)}}
<1>1. given = hints \cup UNION {HintsOf(m) : m \in {g \in H!Grouped(scans) : H!Accepted(g)}}
  BY Zenon DEF HintsOf
<1> HIDE DEF given
<1>2. \A m \in H!Grouped(scans) : H!Accepted(m)
  BY NoneRefused, Zenon
<1>3. \A l : l \in given <=> l \in hints \/ \E m \in H!Grouped(scans) : l \in HintsOf(m)
  BY <1>1, <1>2, Zenon
<1>4. \A l : l \in given <=> l \in hints \/ \E t \in scans : l = HintOf(t)
  BY <1>3, HintsOfAll, Zenon
<1>5. \A scan \in sent \cup scans : texts[scan].at \in given
  BY <1>4, LineIsChosen, Zenon DEF HintedKept
<1>6. ASSUME NEW l \in given, l \notin H!StartHinted
      PROVE  \E scan \in scanned : H!Shows(texts[scan], l)
  <2>1. CASE l \in hints
    BY <1>6, <2>1, Zenon DEF HintedKept
  <2>2. CASE \E t \in scans : l = HintOf(t)
    BY <2>2, LineIsChosen, Zenon
  <2> QED
    BY <1>4, <1>6, <2>1, <2>2, Zenon
<1>7. /\ \A scan \in sent \cup scans : texts[scan].at \in given
      /\ \A l \in given \ H!StartHinted : \E scan \in scanned : H!Shows(texts[scan], l)
  BY <1>5, <1>6, Zenon
<1> USE DEF given
<1> QED
  BY <1>7, Zenon

-----------------------------------------------------------------------------
(* The invariant, stage by stage, and one lemma per action.                *)

LoreKept  == LoreComplete(loreHints)
SlotKept  == SlotFaithful(slotHints) /\ hints = H!StartHinted
TableKept == TableFaithful(table)

\* Nothing of what has been written down changes as long as its sources do not.
LEMMA FactsStand ==
  ASSUME placed' = placed, settings' = settings, startHints' = startHints,
         loreHints' = loreHints, texts' = texts
  PROVE  /\ StartHintsKept' <=> StartHintsKept
         /\ LoreKept' <=> LoreKept
         /\ TextsKept' <=> TextsKept
         /\ H!StartHinted' = H!StartHinted
         /\ \A text, l : H!Shows(text, l)' <=> H!Shows(text, l)
         /\ \A entries : SlotFaithful(entries)' <=> SlotFaithful(entries)
         /\ \A tbl : TableFaithful(tbl)' <=> TableFaithful(tbl)
<1>1. H!Addressed' = H!Addressed
  BY PlacedDecides, Zenon
<1>2. /\ \A l : H!ItemKey(l)' = H!ItemKey(l)
      /\ \A l : H!Names(l)' = H!Names(l)
  BY PlacedDecides, Zenon
<1>3. StartHintsKept' <=> StartHintsKept
  <2>1. \A n : Holders(n)' = Holders(n)
    BY PlacedDecides, Zenon
  <2>2. {KeyNames[n] : n \in {k \in DOMAIN KeyNames : Holders(k)' # {}}}
          = {KeyNames[n] : n \in {k \in DOMAIN KeyNames : Holders(k) # {}}}
    BY <2>1, Zenon
  <2>3. (settings.keyHints)' = settings.keyHints
    BY Zenon
  <2> QED
    BY <2>2, <2>3, Zenon DEF StartHintsKept
<1>4. LoreKept' <=> LoreKept
  <2>1. \A list : LoreComplete(list)' <=> LoreComplete(list)
    BY LoreStands, Zenon
  <2> QED
    BY <2>1, Zenon DEF LoreKept
<1>5. TextsKept' <=> TextsKept
  <2>1. /\ H!WrittenScans' = H!WrittenScans /\ H!ItemScanHintEntries' = H!ItemScanHintEntries
        /\ \A n \in DOMAIN KeyScans : H!KeyText(n)' = H!KeyText(n)
    BY PlacedDecides, ScansAssumption, Zenon
  <2>2. \A n : H!LoreText(n)' = H!LoreText(n)
    BY <1>2, Zenon DEF H!LoreText, H!Nothing
  <2> QED
    BY <1>2, <2>1, <2>2, Zenon DEF TextsKept
<1>6. H!StartHinted' = H!StartHinted
  BY <1>1, Zenon DEF H!StartHinted
<1>7. \A text, l : H!Shows(text, l)' <=> H!Shows(text, l)
  BY <1>2, Zenon DEF H!Shows
<1>8. ASSUME NEW scan, NEW l, NEW status
      PROVE  Chosen(scan, l, status)' <=> Chosen(scan, l, status)
  <2>1. H!Names(l)' = H!Names(l)
    BY <1>2, Zenon
  <2> QED
    BY <1>1, <2>1, Zenon DEF Chosen
<1>9. \A entries : SlotFaithful(entries)' <=> SlotFaithful(entries)
  BY <1>6, <1>8, Zenon DEF SlotFaithful, H!Nothing
<1>10. \A tbl : TableFaithful(tbl)' <=> TableFaithful(tbl)
  BY <1>6, <1>8, Zenon DEF TableFaithful, H!Nothing
<1> QED
  BY <1>3, <1>4, <1>5, <1>6, <1>7, <1>9, <1>10, Zenon

HintsKept ==
  family = "hints" =>
    /\ stage \in {"post_fill", "balancing", "pre_output", "generate_output", "fill_slot_data",
                  "connect", "play"}
    /\ Settled
    /\ stage \in {"post_fill", "balancing", "pre_output"} => loreHints = <<>>
    /\ stage # "post_fill" => StartHintsKept
    /\ stage \in {"generate_output", "fill_slot_data", "connect", "play"} => LoreKept
    /\ stage \in {"fill_slot_data", "connect", "play"} => TextsKept
    /\ stage = "connect" => SlotKept
    /\ stage = "play" => TableKept /\ HintedKept

\* What each stage writes down.
LEMMA HintsInit == Init => HintsKept
<1> SUFFICES ASSUME Init, family = "hints" PROVE HintsKept
  BY Zenon DEF HintsKept
<1>1. H!Init
  BY Zenon DEF Init
<1>2. stage = "post_fill" /\ loreHints = <<>> /\ settings \in HintSettings /\ placed \in Placements
  BY <1>1, Zenon DEF H!Init
<1>3. Settled
  <2>1. settings.keyHints \in {"disabled", "scanned", "precollected"}
    BY <1>2, HintSettingsAssumption, Zenon
  <2>2. IsFiniteSet(DOMAIN placed) /\ \A l \in DOMAIN placed : Located(l)
    BY <1>2, PlacementsAssumption, Zenon DEF Located
  <2> QED
    BY <2>1, <2>2, Zenon DEF Settled
<1> QED
  BY <1>2, <1>3, Zenon DEF HintsKept

LEMMA PostFillKeeps ==
  ASSUME HintsKept, family = "hints", H!PostFill, family' = family
  PROVE  HintsKept'
<1>1. /\ stage = "post_fill" /\ stage' = "balancing" /\ placed' = placed /\ settings' = settings
      /\ loreHints' = loreHints /\ Settled /\ loreHints = <<>>
  BY Zenon DEF H!PostFill, HintsKept
<1>2. Settled' /\ \A n : Holders(n)' = Holders(n)
  BY <1>1, PlacedDecides, Zenon
<1>3. \A n \in DOMAIN KeyNames : H!SkyTempleKeyLocations[n] # None <=> Holders(n) # {}
  BY <1>1, KeyFound, Zenon
<1>4. {n \in DOMAIN KeyNames : H!SkyTempleKeyLocations[n] # None} = {n \in DOMAIN KeyNames : Holders(n)' # {}}
  BY <1>2, <1>3, Zenon
<1>5. startHints' = IF settings.keyHints = "precollected"
                    THEN {KeyNames[n] : n \in {k \in DOMAIN KeyNames : H!SkyTempleKeyLocations[k] # None}}
                    ELSE {}
  BY Zenon DEF H!PostFill
<1>6. StartHintsKept'
  BY <1>1, <1>4, <1>5, Zenon DEF StartHintsKept
<1> QED
  BY <1>1, <1>2, <1>6, Zenon DEF HintsKept

\* Balancing exchanges items: a key keeps a location, if another one.
LEMMA BalanceKeeps ==
  ASSUME HintsKept, family = "hints", H!Balance, family' = family
  PROVE  HintsKept'
<1>1. /\ stage = "balancing" /\ stage' = "pre_output" /\ settings' = settings
      /\ startHints' = startHints /\ loreHints' = loreHints /\ Settled /\ loreHints = <<>>
      /\ StartHintsKept
  BY Zenon DEF H!Balance, HintsKept
<1>2. CASE placed' = placed
  <2>1. Settled' /\ \A n : Holders(n)' = Holders(n)
    BY <1>1, <1>2, PlacedDecides, Zenon
  <2>2. {n \in DOMAIN KeyNames : Holders(n)' # {}} = {n \in DOMAIN KeyNames : Holders(n) # {}}
    BY <2>1, Zenon
  <2>3. StartHintsKept'
    BY <1>1, <2>2, Zenon DEF StartHintsKept
  <2> QED
    BY <1>1, <2>1, <2>3, Zenon DEF HintsKept
<1>3. CASE \E a, b \in H!Addressed :
             /\ placed[a].advancement /\ ~placed[a].skipBalancing /\ ~placed[b].advancement
             /\ placed' = [placed EXCEPT ![a] = placed[b], ![b] = placed[a]]
  <2>1. PICK a \in H!Addressed, b \in H!Addressed :
             /\ placed[a].advancement /\ ~placed[b].advancement
             /\ placed' = [placed EXCEPT ![a] = placed[b], ![b] = placed[a]]
    BY <1>3, Zenon
  <2>2. a # b
    BY <2>1
  <2>3. a \in DOMAIN placed /\ b \in DOMAIN placed
    BY Zenon DEF H!Addressed
  <2>4. /\ DOMAIN placed' = DOMAIN placed
        /\ placed'[a] = placed[b] /\ placed'[b] = placed[a]
        /\ \A l \in DOMAIN placed : l # a /\ l # b => placed'[l] = placed[l]
    BY <2>1, <2>2, <2>3
  <2>5. Settled'
    BY <1>1, <2>4, Zenon DEF Settled
  <2>6. H!Addressed' = H!Addressed /\ a \in H!Addressed /\ b \in H!Addressed
    BY <2>4, Zenon DEF H!Addressed
  <2>7. /\ H!ItemKey(a)' = H!ItemKey(b) /\ H!ItemKey(b)' = H!ItemKey(a)
        /\ \A l \in H!Addressed : l # a /\ l # b => H!ItemKey(l)' = H!ItemKey(l)
    <3>1. \A l \in H!Addressed : l \in DOMAIN placed
      BY Zenon DEF H!Addressed
    <3> QED
      BY <2>4, <3>1, Zenon DEF H!ItemKey
  <2>8. ASSUME NEW n, Holders(n) # {} PROVE Holders(n)' # {}
    <3>1. PICK l \in H!Addressed : H!ItemKey(l) = <<Self, KeyNames[n]>>
      BY <2>8, Zenon DEF Holders
    <3>2. \E m \in H!Addressed : H!ItemKey(m)' = <<Self, KeyNames[n]>>
      BY <2>6, <2>7, <3>1, Zenon
    <3> QED
      BY <2>6, <3>2, Zenon DEF Holders
  <2>9. ASSUME NEW n, Holders(n)' # {} PROVE Holders(n) # {}
    <3>1. PICK l \in H!Addressed : H!ItemKey(l)' = <<Self, KeyNames[n]>>
      BY <2>6, <2>9, Zenon DEF Holders
    <3>2. \E m \in H!Addressed : H!ItemKey(m) = <<Self, KeyNames[n]>>
      BY <2>6, <2>7, <3>1, Zenon
    <3> QED
      BY <3>2, Zenon DEF Holders
  <2>10. {n \in DOMAIN KeyNames : Holders(n)' # {}} = {n \in DOMAIN KeyNames : Holders(n) # {}}
    BY <2>8, <2>9, Zenon
  <2>11. StartHintsKept'
    BY <1>1, <2>10, Zenon DEF StartHintsKept
  <2> QED
    BY <1>1, <2>5, <2>11, Zenon DEF HintsKept
<1> QED
  BY <1>2, <1>3, Zenon DEF H!Balance

LEMMA PreOutputKeeps ==
  ASSUME HintsKept, family = "hints", H!PreOutput, family' = family
  PROVE  HintsKept'
<1>1. /\ stage = "pre_output" /\ stage' = "generate_output" /\ placed' = placed
      /\ settings' = settings /\ startHints' = startHints /\ Settled /\ StartHintsKept
  BY Zenon DEF H!PreOutput, HintsKept
<1>2. Settled' /\ \A n : Holders(n)' = Holders(n)
  BY <1>1, PlacedDecides, Zenon
<1>3. LoreComplete(loreHints')
  <2>1. loreHints' \in H!LoreChoices
    BY Zenon DEF H!PreOutput
  <2> QED
    BY <1>1, <2>1, LoreChosen, Zenon
<1>4. LoreKept'
  <2>1. \A list : LoreComplete(list)' <=> LoreComplete(list)
    BY <1>1, LoreStands, Zenon
  <2> QED
    BY <1>3, <2>1, Zenon DEF LoreKept
<1>5. StartHintsKept'
  <2>1. {n \in DOMAIN KeyNames : Holders(n)' # {}} = {n \in DOMAIN KeyNames : Holders(n) # {}}
    BY <1>2, Zenon
  <2> QED
    BY <1>1, <2>1, Zenon DEF StartHintsKept
<1> QED
  BY <1>1, <1>2, <1>4, <1>5, Zenon DEF HintsKept

LEMMA GenerateOutputKeeps ==
  ASSUME HintsKept, family = "hints", H!GenerateOutput, family' = family
  PROVE  HintsKept'
<1>1. /\ stage = "generate_output" /\ stage' = "fill_slot_data" /\ placed' = placed
      /\ settings' = settings /\ startHints' = startHints /\ loreHints' = loreHints
      /\ Settled /\ StartHintsKept /\ LoreKept
      /\ texts' = [s \in H!WrittenScans |-> H!TextOf(s)]
  BY Zenon DEF H!GenerateOutput, HintsKept
<1>2. /\ Settled' /\ \A n : Holders(n)' = Holders(n)
      /\ H!WrittenScans' = H!WrittenScans /\ H!ItemScanHintEntries' = H!ItemScanHintEntries
      /\ \A n \in DOMAIN KeyNames : H!KeyText(n)' = H!KeyText(n)
      /\ \A l : H!Names(l)' = H!Names(l)
  BY <1>1, PlacedDecides, Zenon
<1>3. LoreKept'
  <2>1. \A list : LoreComplete(list)' <=> LoreComplete(list)
    BY <1>1, LoreStands, Zenon
  <2> QED
    BY <1>1, <2>1, Zenon DEF LoreKept
<1>4. StartHintsKept'
  <2>1. {n \in DOMAIN KeyNames : Holders(n)' # {}} = {n \in DOMAIN KeyNames : Holders(n) # {}}
    BY <1>2, Zenon
  <2> QED
    BY <1>1, <2>1, Zenon DEF StartHintsKept
<1>5. TextsKept'
  <2>1. DOMAIN texts' = H!WrittenScans /\ \A s \in H!WrittenScans : texts'[s] = H!TextOf(s)
    BY <1>1, Zenon
  <2>2. \A n \in DOMAIN KeyScans : texts'[KeyScans[n]] = H!KeyText(n)
    BY <1>1, <2>1, TextsWritten, Zenon
  <2>3. settings.lore # "off" => \A n \in DOMAIN LoreScans : texts'[LoreScans[n]] = H!LoreText(n)
    BY <1>1, <2>1, TextsWritten, Zenon
  <2>4. \A l \in H!ItemScanHintEntries : texts'[ItemScans[l.address]] = H!Names(l)
    BY <1>1, <2>1, TextsWritten, Zenon
  <2>5. \A n : H!LoreText(n)' = H!LoreText(n)
    BY <1>1, <1>2, Zenon DEF H!LoreText, H!Nothing
  <2>6. \A n \in DOMAIN KeyScans : texts'[KeyScans[n]] = H!KeyText(n)'
    BY <1>2, <2>2, ScansAssumption, Zenon
  <2>7. settings'.lore # "off" => \A n \in DOMAIN LoreScans : texts'[LoreScans[n]] = H!LoreText(n)'
    BY <1>1, <2>3, <2>5, Zenon
  <2>8. \A l \in H!ItemScanHintEntries' : texts'[ItemScans[l.address]] = H!Names(l)'
    BY <1>2, <2>4, Zenon
  <2>9. DOMAIN texts' = H!WrittenScans'
    BY <1>2, <2>1, Zenon
  <2> QED
    BY <2>6, <2>7, <2>8, <2>9, Zenon DEF TextsKept
<1> QED
  BY <1>1, <1>2, <1>3, <1>4, <1>5, Zenon DEF HintsKept

LEMMA FillSlotDataKeeps ==
  ASSUME HintsKept, family = "hints", H!FillSlotData, family' = family
  PROVE  HintsKept'
<1>1. /\ stage = "fill_slot_data" /\ stage' = "connect" /\ placed' = placed
      /\ settings' = settings /\ startHints' = startHints /\ loreHints' = loreHints /\ texts' = texts
      /\ Settled /\ StartHintsKept /\ LoreKept /\ TextsKept
      /\ slotHints' = H!EncodeHintScans
  BY Zenon DEF H!FillSlotData, HintsKept
<1>2. hints' = H!StartHinted
  BY Zenon DEF H!FillSlotData, H!StartHinted
<1>3. Settled'
  BY <1>1, PlacedDecides, Zenon
<1>4. /\ StartHintsKept' /\ LoreKept' /\ TextsKept' /\ H!StartHinted' = H!StartHinted
      /\ \A entries : SlotFaithful(entries)' <=> SlotFaithful(entries)
  BY <1>1, FactsStand, Zenon
<1>5. SlotFaithful(slotHints')
  BY <1>1, SlotEncoded, Zenon DEF LoreKept
<1>6. SlotKept'
  BY <1>2, <1>4, <1>5, Zenon DEF SlotKept
<1> QED
  BY <1>1, <1>3, <1>4, <1>6, Zenon DEF HintsKept

LEMMA ConnectedKeeps ==
  ASSUME HintsKept, family = "hints", H!Connected, family' = family
  PROVE  HintsKept'
<1>1. /\ stage = "connect" /\ stage' = "play" /\ placed' = placed /\ settings' = settings
      /\ startHints' = startHints /\ loreHints' = loreHints /\ texts' = texts /\ hints' = hints
      /\ sent' = {} /\ Settled /\ StartHintsKept /\ LoreKept /\ TextsKept /\ SlotKept
  BY Zenon DEF H!Connected, HintsKept
<1>2. Settled'
  BY <1>1, PlacedDecides, Zenon
<1>3. /\ StartHintsKept' /\ LoreKept' /\ TextsKept' /\ H!StartHinted' = H!StartHinted
      /\ \A tbl : TableFaithful(tbl)' <=> TableFaithful(tbl)
  BY <1>1, FactsStand, Zenon
<1>4. PICK raw \in {slotHints} \cup (IF settings.lore = "off" /\ settings.items = "off" THEN {H!OlderSlot} ELSE {}) :
        table' = H!DecodeHintScans(raw)
  BY Zenon DEF H!Connected
<1>5. Readable(raw)
  <2>1. Readable(slotHints) /\ (settings.lore = "off" /\ settings.items = "off" => Readable(H!OlderSlot))
    BY <1>1, SlotReadable, Zenon DEF SlotKept
  <2> QED
    BY <1>4, <2>1, Zenon
<1>6. TableFaithful(table')
  BY <1>1, <1>4, <1>5, TableRead, Zenon
<1>7. TableKept'
  BY <1>3, <1>6, Zenon DEF TableKept
<1>8. HintedKept'
  <2>1. hints' = H!StartHinted'
    BY <1>1, <1>3, Zenon DEF SlotKept
  <2> QED
    BY <1>1, <2>1, Zenon DEF HintedKept
<1> QED
  BY <1>1, <1>2, <1>3, <1>7, <1>8, Zenon DEF HintsKept

LEMMA CompleteScanKeeps ==
  ASSUME HintsKept, family = "hints", H!CompleteScan, family' = family
  PROVE  HintsKept'
<1>1. /\ stage = "play" /\ stage' = "play" /\ placed' = placed /\ settings' = settings
      /\ startHints' = startHints /\ loreHints' = loreHints /\ texts' = texts /\ hints' = hints
      /\ sent' = sent /\ table' = table /\ scanned \subseteq scanned'
      /\ Settled /\ StartHintsKept /\ LoreKept /\ TextsKept /\ TableKept /\ HintedKept
  BY Zenon DEF H!CompleteScan, HintsKept
<1>2. Settled'
  BY <1>1, PlacedDecides, Zenon
<1>3. /\ StartHintsKept' /\ LoreKept' /\ TextsKept' /\ H!StartHinted' = H!StartHinted
      /\ \A text, l : H!Shows(text, l)' <=> H!Shows(text, l)
      /\ \A tbl : TableFaithful(tbl)' <=> TableFaithful(tbl)
  BY <1>1, FactsStand, Zenon
<1>4. TableKept'
  BY <1>1, <1>3, Zenon DEF TableKept
<1>5. HintedKept'
  <2>1. \A l \in hints' \ H!StartHinted' : \E scan \in scanned' : H!Shows(texts[scan], l)'
    BY <1>1, <1>3, Zenon DEF HintedKept
  <2> QED
    BY <1>1, <2>1, Zenon DEF HintedKept
<1> QED
  BY <1>1, <1>2, <1>3, <1>4, <1>5, Zenon DEF HintsKept

LEMMA HandleHintScansKeeps ==
  ASSUME HintsKept, family = "hints", H!HandleHintScans, family' = family
  PROVE  HintsKept'
<1> DEFINE scans == (scanned \cap DOMAIN table) \ sent
           given == hints \cup UNION {{[player |-> m.player, address |-> a] : a \in m.locations} :
                                        m \in {g \in H!Grouped(scans) : H!Accepted(g)}}
<1>1. /\ stage = "play" /\ stage' = "play" /\ placed' = placed /\ settings' = settings
      /\ startHints' = startHints /\ loreHints' = loreHints /\ texts' = texts
      /\ table' = table /\ scanned' = scanned /\ sent' = sent \cup scans /\ hints' = given
      /\ Settled /\ StartHintsKept /\ LoreKept /\ TextsKept /\ TableKept /\ HintedKept
  BY Zenon DEF H!HandleHintScans, HintsKept
<1>2. Settled'
  BY <1>1, PlacedDecides, Zenon
<1>3. /\ StartHintsKept' /\ LoreKept' /\ TextsKept' /\ H!StartHinted' = H!StartHinted
      /\ \A text, l : H!Shows(text, l)' <=> H!Shows(text, l)
      /\ \A tbl : TableFaithful(tbl)' <=> TableFaithful(tbl)
  BY <1>1, FactsStand, Zenon
<1>4. TableKept'
  BY <1>1, <1>3, Zenon DEF TableKept
<1>5. /\ \A scan \in sent \cup scans : texts[scan].at \in given
      /\ \A l \in given \ H!StartHinted : \E scan \in scanned : H!Shows(texts[scan], l)
  <2>1. scans \in SUBSET (scanned \cap DOMAIN table)
    BY Zenon
  <2> QED
    BY <1>1, <2>1, HintsArrive, Zenon DEF TableKept
<1>6. sent \cup scans \subseteq scanned /\ sent \cup scans \subseteq DOMAIN table
  BY <1>1, Zenon DEF HintedKept
<1> HIDE DEF given, scans
<1>7. HintedKept'
  <2>1. \A scan \in sent' : (texts[scan].at)' \in hints'
    BY <1>1, <1>5, Zenon
  <2>2. \A l \in hints' \ H!StartHinted' : \E scan \in scanned' : H!Shows(texts[scan], l)'
    BY <1>1, <1>3, <1>5, Zenon
  <2>3. sent' \subseteq scanned' /\ sent' \subseteq DOMAIN table'
    BY <1>1, <1>6, Zenon
  <2> QED
    BY <2>1, <2>2, <2>3, Zenon DEF HintedKept
<1> QED
  BY <1>1, <1>2, <1>3, <1>4, <1>7, Zenon DEF HintsKept

LEMMA HintsUntouched ==
  ASSUME HintsKept, UNCHANGED hintVars, family' = family
  PROVE  HintsKept'
<1> SUFFICES ASSUME family = "hints" PROVE HintsKept'
  BY Zenon DEF HintsKept
<1>1. /\ stage' = stage /\ placed' = placed /\ settings' = settings
      /\ startHints' = startHints /\ loreHints' = loreHints /\ texts' = texts /\ hints' = hints
      /\ slotHints' = slotHints /\ sent' = sent /\ table' = table /\ scanned' = scanned
  BY Zenon DEF hintVars
<1>2. Settled' <=> Settled
  BY <1>1, PlacedDecides, Zenon
<1>3. /\ StartHintsKept' <=> StartHintsKept
      /\ LoreKept' <=> LoreKept
      /\ TextsKept' <=> TextsKept
      /\ H!StartHinted' = H!StartHinted
      /\ \A text, l : H!Shows(text, l)' <=> H!Shows(text, l)
      /\ \A entries : SlotFaithful(entries)' <=> SlotFaithful(entries)
      /\ \A tbl : TableFaithful(tbl)' <=> TableFaithful(tbl)
  BY <1>1, FactsStand, Zenon
<1>4. (SlotKept' <=> SlotKept) /\ (TableKept' <=> TableKept)
  BY <1>1, <1>3, Zenon DEF SlotKept, TableKept
<1>5. HintedKept => HintedKept'
  <2> SUFFICES ASSUME HintedKept PROVE HintedKept'
    OBVIOUS
  <2>1. \A l \in hints' \ H!StartHinted' : \E scan \in scanned' : H!Shows(texts[scan], l)'
    BY <1>1, <1>3, Zenon DEF HintedKept
  <2> QED
    BY <1>1, <2>1, Zenon DEF HintedKept
<1> QED
  BY <1>1, <1>2, <1>3, <1>4, <1>5, Zenon DEF HintsKept

LEMMA HintsKeptStep == HintsKept /\ [Next]_vars => HintsKept'
<1> SUFFICES ASSUME HintsKept, [Next]_vars PROVE HintsKept'
  OBVIOUS
<1>1. CASE HintsStep
  <2> USE <1>1
  <2>1. family = "hints" /\ family' = family /\ H!Next
    BY Zenon DEF HintsStep
  <2>2. CASE H!PostFill
    BY <2>1, <2>2, PostFillKeeps, Zenon
  <2>3. CASE H!Balance
    BY <2>1, <2>3, BalanceKeeps, Zenon
  <2>4. CASE H!PreOutput
    BY <2>1, <2>4, PreOutputKeeps, Zenon
  <2>5. CASE H!GenerateOutput
    BY <2>1, <2>5, GenerateOutputKeeps, Zenon
  <2>6. CASE H!FillSlotData
    BY <2>1, <2>6, FillSlotDataKeeps, Zenon
  <2>7. CASE H!Connected
    BY <2>1, <2>7, ConnectedKeeps, Zenon
  <2>8. CASE H!CompleteScan
    BY <2>1, <2>8, CompleteScanKeeps, Zenon
  <2>9. CASE H!HandleHintScans
    BY <2>1, <2>9, HandleHintScansKeeps, Zenon
  <2> QED
    BY <2>1, <2>2, <2>3, <2>4, <2>5, <2>6, <2>7, <2>8, <2>9, Zenon DEF H!Next
<1>2. CASE CountersStep \/ CapacitiesStep \/ PoolStep \/ RequireStep \/ UNCHANGED vars
  <2>1. UNCHANGED hintVars /\ family' = family
    BY <1>2, Zenon DEF CountersStep, CapacitiesStep, PoolStep, RequireStep, vars
  <2> QED
    BY <2>1, HintsUntouched, Zenon
<1> QED
  BY <1>1, <1>2, Zenon DEF Next

LEMMA HintsKeptAlways == Spec => []HintsKept
BY HintsInit, HintsKeptStep, PTL DEF Spec

LEMMA HintsKeptShow == HintsKept => HintsAsShown
<1> SUFFICES ASSUME HintsKept, family = "hints" PROVE H!HintsAsShown
  BY Zenon DEF HintsAsShown
<1>1. ASSUME stage = "play"
      PROVE  /\ \A s \in DOMAIN texts : texts[s] # H!Nothing =>
                  (s \in DOMAIN table \/ texts[s].at \in H!StartHinted)
             /\ \A s \in sent : H!Shows(texts[s], texts[s].at) /\ texts[s].at \in hints
             /\ \A l \in hints \ H!StartHinted : \E s \in scanned : H!Shows(texts[s], l)
  <2>1. Settled /\ TableFaithful(table) /\ HintedKept
    BY <1>1, Zenon DEF HintsKept, TableKept
  <2>2. \A s \in DOMAIN texts : texts[s] # H!Nothing =>
          (s \in DOMAIN table \/ texts[s].at \in H!StartHinted)
    BY <2>1, Zenon DEF TableFaithful
  <2>3. ASSUME NEW s \in sent PROVE H!Shows(texts[s], texts[s].at)
    <3>1. s \in DOMAIN table
      BY <2>1, Zenon DEF HintedKept
    <3>2. texts[s].at = HintOf(s) /\ H!Shows(texts[s], HintOf(s))
      BY <2>1, <3>1, LineIsChosen, Zenon
    <3> QED
      BY <3>2, Zenon
  <2> QED
    BY <2>1, <2>2, <2>3, Zenon DEF HintedKept
<1>2. H!HologramsDiffer
  <2>1. CASE loreHints = <<>>
    BY <2>1 DEF H!HologramsDiffer
  <2>2. CASE LoreKept
    BY <2>2, Zenon DEF H!HologramsDiffer, LoreKept, LoreComplete, LoreFaithful
  <2> QED
    BY <2>1, <2>2, Zenon DEF HintsKept
<1> QED
  BY <1>1, <1>2, Zenon DEF H!HintsAsShown, H!TextsAreHinted, H!NothingElseHinted

\* hint_scans.py, for any filled multiworld, whatever balancing exchanges and whatever
\* holograms are drawn: a scan that has been sent is hinted where its text says it is,
\* a text that says something is in the client's table or hinted from the start, the
\* server gives no hint no text told, and no two holograms tell of the same item.
THEOREM HintsAreAsShown == Spec => []HintsAsShown
BY HintsKeptAlways, HintsKeptShow, PTL

-----------------------------------------------------------------------------
(* Counters: an amount is its digits, read off by halving it.              *)

LEMMA Induction ==
  ASSUME NEW n \in Nat, NEW S, 0 \in S, \A k \in 0 .. n - 1 : k \in S => k + 1 \in S
  PROVE  \A k \in 0 .. n : k \in S
<1> DEFINE bad == {k \in 0 .. n : k \notin S}
<1>1. bad = {}
  <2>1. SUFFICES ASSUME bad # {} PROVE FALSE
    OBVIOUS
  <2>2. bad \in SUBSET Nat
    OBVIOUS
  <2>3. PICK m \in bad : \A k \in bad : m <= k
    BY <2>1, <2>2, LeastNumber
  <2>4. m # 0 /\ m - 1 \in 0 .. n - 1 /\ m - 1 \notin bad
    BY <2>3
  <2>5. (m - 1) + 1 \in S
    BY <2>4
  <2> QED
    BY <2>3, <2>4, <2>5
<1> QED
  BY <1>1

LEMMA Powers ==
  /\ Pow2[0] = 1
  /\ \A b \in 0 .. AmountBits : Pow2[b] \in Nat \ {0}
  /\ \A b \in Bits : Pow2[b + 1] = 2 * Pow2[b]
<1> DEFINE S      == Nat \ {0}
           double == [x \in Nat \X S |-> 2 * x[2]]
           Power(f) == f = [b \in 0 .. AmountBits |-> IF b = 0 THEN 1 ELSE 2 * f[b - 1]]
<1>1. AmountBits \in Nat
  BY LayoutAssumption
<1>2. double \in [Nat \X S -> S] /\ \A k \in Nat, x \in S : double[<<k, x>>] = 2 * x
  OBVIOUS
<1>3. 1 \in S /\ S \subseteq Nat
  OBVIOUS
<1> HIDE DEF double, S
<1>4. PICK f \in [0 .. AmountBits -> S] : Iterates(f, AmountBits, 1, double)
  BY <1>1, <1>2, <1>3, IterationExists
<1>5. ASSUME NEW k \in 0 .. AmountBits PROVE f[k] = IF k = 0 THEN 1 ELSE 2 * f[k - 1]
  <2>1. f[k] = IF k = 0 THEN 1 ELSE double[<<k, f[k - 1]>>]
    BY <1>4 DEF Iterates
  <2>2. CASE k = 0
    BY <2>1, <2>2
  <2>3. CASE k # 0
    <3>1. k - 1 \in 0 .. AmountBits /\ k \in Nat
      BY <1>1, <2>3
    <3>2. f[k - 1] \in S
      BY <1>4, <3>1
    <3> QED
      BY <1>2, <2>1, <2>3, <3>1, <3>2
  <2> QED
    BY <2>2, <2>3
<1>6. Power(f)
  BY <1>4, <1>5
<1>7. Pow2 = CHOOSE g : Power(g)
  BY Zenon DEF Pow2
<1>8. Power(Pow2)
  <2> HIDE DEF Power
  <2> QED
    BY <1>6, <1>7
<1>9. \A k \in 0 .. AmountBits : Pow2[k] = IF k = 0 THEN 1 ELSE 2 * Pow2[k - 1]
  BY <1>8, Zenon
<1> HIDE DEF Power
<1>10. Pow2[0] = 1
  BY <1>1, <1>9
<1>11. \A b \in Bits : Pow2[b + 1] = 2 * Pow2[b]
  BY <1>1, <1>9 DEF Bits
<1>12. \A b \in 0 .. AmountBits : Pow2[b] \in Nat \ {0}
  <2> DEFINE good == {b \in 0 .. AmountBits : Pow2[b] \in Nat \ {0}}
  <2>1. 0 \in good
    BY <1>1, <1>10
  <2>2. ASSUME NEW k \in 0 .. AmountBits - 1, k \in good PROVE k + 1 \in good
    BY <1>1, <1>11, <2>2 DEF Bits
  <2> HIDE DEF good
  <2>3. \A k \in 0 .. AmountBits : k \in good
    BY <1>1, <2>1, <2>2, Induction
  <2> QED
    BY <2>3 DEF good
<1> QED
  BY <1>10, <1>11, <1>12

LEMMA QuotientOf ==
  ASSUME NEW n \in Nat \ {0}, NEW h \in Nat, NEW x \in 0 .. n - 1
  PROVE  (h * n + x) \div n = h
OBVIOUS

LEMMA HalfOf ==
  ASSUME NEW v \in Nat, NEW p \in Nat \ {0}
  PROVE  (v \div p) \div 2 = v \div (2 * p)
<1> DEFINE q == v \div p
           r == v % p
           h == q \div 2
           d == q % 2
<1>1. q \in Nat /\ r \in 0 .. p - 1 /\ v = q * p + r
  OBVIOUS
<1>2. h \in Nat /\ d \in 0 .. 1 /\ q = 2 * h + d
  BY <1>1
<1> HIDE DEF q, r, h, d
<1>3. v = h * (2 * p) + (d * p + r)
  BY <1>1, <1>2
<1>4. d * p + r \in 0 .. 2 * p - 1
  <2>1. CASE d = 0
    BY <1>1, <2>1
  <2>2. CASE d = 1
    BY <1>1, <2>2
  <2> QED
    BY <1>2, <2>1, <2>2
<1>5. v \div (2 * p) = h
  BY <1>2, <1>3, <1>4, QuotientOf
<1> QED
  BY <1>5 DEF h, q

Half(v, k) == v \div Pow2[k]
One(v, k)  == IF k \in OnesOf(v) THEN 1 ELSE 0

LEMMA Halves ==
  ASSUME NEW v \in Nat
  PROVE  /\ Half(v, 0) = v
         /\ \A k \in 0 .. AmountBits : Half(v, k) \in Nat
         /\ \A k \in Bits : Half(v, k) = 2 * Half(v, k + 1) + One(v, k)
         /\ Half(v, AmountBits) = 0 <=> v <= Ceiling
<1>1. AmountBits \in Nat
  BY LayoutAssumption
<1>2. Half(v, 0) = v
  BY Powers DEF Half
<1>3. ASSUME NEW k \in 0 .. AmountBits PROVE Half(v, k) \in Nat
  <2>1. Pow2[k] \in Nat \ {0}
    BY Powers
  <2> QED
    BY <2>1 DEF Half
<1>4. ASSUME NEW k \in Bits PROVE Half(v, k) = 2 * Half(v, k + 1) + One(v, k)
  <2>1. k \in 0 .. AmountBits /\ k + 1 \in 0 .. AmountBits
    BY <1>1 DEF Bits
  <2>2. Pow2[k] \in Nat \ {0} /\ Pow2[k + 1] = 2 * Pow2[k]
    BY <2>1, Powers
  <2>3. Half(v, k + 1) = Half(v, k) \div 2
    BY <2>2, HalfOf DEF Half
  <2>4. One(v, k) = IF Half(v, k) % 2 = 1 THEN 1 ELSE 0
    BY DEF One, OnesOf, Half
  <2>5. Half(v, k) \in Nat
    BY <1>3, <2>1
  <2> QED
    BY <2>3, <2>4, <2>5
<1>5. Half(v, AmountBits) = 0 <=> v <= Ceiling
  <2>1. Pow2[AmountBits] \in Nat \ {0}
    BY <1>1, Powers
  <2> DEFINE p == Pow2[AmountBits]
  <2> HIDE DEF p
  <2>2. \A n \in Nat \ {0} : v \div n = 0 <=> v < n
    <3>1. ASSUME NEW n \in Nat \ {0}, v < n PROVE v \div n = 0
      <4>1. v \in 0 .. n - 1 /\ v = 0 * n + v
        BY <3>1
      <4> QED
        BY <4>1, QuotientOf
    <3>2. ASSUME NEW n \in Nat \ {0}, v \div n = 0 PROVE v < n
      <4>1. v = (v \div n) * n + (v % n) /\ v % n \in 0 .. n - 1
        OBVIOUS
      <4> QED
        BY <3>2, <4>1
    <3> QED
      BY <3>1, <3>2
  <2> QED
    BY <2>1, <2>2 DEF Half, Ceiling
<1> QED
  BY <1>2, <1>3, <1>4, <1>5

LEMMA CeilingType == Ceiling \in Nat /\ \A v \in 0 .. Ceiling : v \in Nat /\ OnesOf(v) \in SUBSET Bits
<1>1. AmountBits \in Nat
  BY LayoutAssumption
<1>2. Pow2[AmountBits] \in Nat \ {0}
  BY <1>1, Powers
<1> QED
  BY <1>2 DEF Ceiling, OnesOf

(***************************************************************************)
(* Adding a power of two: what is added to a half is half of what is left, *)
(* and once the digit is reached, the carry.                               *)
(***************************************************************************)
Carry(v, bit, k) == \A e \in bit .. k - 1 : e \in OnesOf(v)
Added(v, bit, k) == IF k < bit THEN Pow2[bit - k] ELSE IF Carry(v, bit, k) THEN 1 ELSE 0

LEMMA CarryStep ==
  ASSUME NEW v, NEW bit \in Nat, NEW k \in Nat
  PROVE  /\ k <= bit => Carry(v, bit, k)
         /\ k >= bit => (Carry(v, bit, k + 1) <=> Carry(v, bit, k) /\ k \in OnesOf(v))
BY DEF Carry

LEMMA AddedStep ==
  ASSUME NEW v \in Nat, NEW bit \in Bits, NEW k \in Bits,
         Half(v + Pow2[bit], k) = Half(v, k) + Added(v, bit, k)
  PROVE  /\ Half(v + Pow2[bit], k + 1) = Half(v, k + 1) + Added(v, bit, k + 1)
         /\ k \in OnesOf(v + Pow2[bit]) <=>
              IF k >= bit /\ Carry(v, bit, k) THEN k \notin OnesOf(v) ELSE k \in OnesOf(v)
<1> DEFINE u == v + Pow2[bit]
<1>1. AmountBits \in Nat
  BY LayoutAssumption
<1>2. /\ k \in Nat /\ bit \in Nat /\ k + 1 \in 0 .. AmountBits /\ bit \in 0 .. AmountBits
      /\ k < bit => bit - k \in 0 .. AmountBits /\ bit - k - 1 \in Bits
  BY <1>1 DEF Bits
<1>3. u \in Nat
  BY <1>2, Powers
<1>4. /\ Half(u, k) = 2 * Half(u, k + 1) + One(u, k) /\ Half(u, k + 1) \in Nat
      /\ Half(v, k) = 2 * Half(v, k + 1) + One(v, k) /\ Half(v, k + 1) \in Nat
  BY <1>2, <1>3, Halves
<1>5. Half(u, k) = Half(v, k) + Added(v, bit, k)
  OBVIOUS
<1> HIDE DEF u
<1>6. /\ One(u, k) = (IF k \in OnesOf(u) THEN 1 ELSE 0)
      /\ One(v, k) = (IF k \in OnesOf(v) THEN 1 ELSE 0)
  BY DEF One
<1>7. CASE k < bit
  <2>1. PICK j \in Bits : j = bit - k - 1
    BY <1>2, <1>7
  <2>2. Pow2[bit - k] = 2 * Pow2[bit - k - 1] /\ Pow2[bit - k - 1] \in Nat
    <3>1. Pow2[j + 1] = 2 * Pow2[j] /\ Pow2[j] \in Nat
      BY <1>1, Powers DEF Bits
    <3>2. j + 1 = bit - k
      BY <1>2, <2>1
    <3> QED
      BY <2>1, <3>1, <3>2
  <2>3. Added(v, bit, k) = 2 * Pow2[bit - k - 1]
    BY <1>7, <2>2 DEF Added
  <2>4. Half(u, k + 1) = Half(v, k + 1) + Pow2[bit - k - 1] /\ (k \in OnesOf(u) <=> k \in OnesOf(v))
    BY <1>4, <1>5, <1>6, <2>2, <2>3
  <2>5. Added(v, bit, k + 1) = Pow2[bit - k - 1]
    <3>1. CASE k + 1 < bit
      <4>1. bit - (k + 1) = bit - k - 1
        BY <1>2
      <4> QED
        BY <3>1, <4>1 DEF Added
    <3>2. CASE k + 1 = bit
      <4>1. Added(v, bit, k + 1) = 1
        BY <1>2, <3>2, CarryStep DEF Added
      <4>2. bit - k - 1 = 0
        BY <1>2, <3>2
      <4> QED
        BY <4>1, <4>2, Powers
    <3> QED
      BY <1>2, <1>7, <3>1, <3>2
  <2> QED
    BY <1>2, <1>7, <2>4, <2>5 DEF u
<1>8. CASE k >= bit
  <2>1. /\ Added(v, bit, k) = IF Carry(v, bit, k) THEN 1 ELSE 0
        /\ Added(v, bit, k + 1) = IF Carry(v, bit, k) /\ k \in OnesOf(v) THEN 1 ELSE 0
    BY <1>2, <1>8, CarryStep DEF Added
  <2> QED
    BY <1>4, <1>5, <1>6, <1>8, <2>1 DEF u
<1> QED
  BY <1>2, <1>7, <1>8

LEMMA SumDigits ==
  ASSUME NEW v \in Nat, NEW bit \in Bits
  PROVE  /\ \A k \in Bits : k \in OnesOf(v + Pow2[bit]) <=>
              IF k >= bit /\ Carry(v, bit, k) THEN k \notin OnesOf(v) ELSE k \in OnesOf(v)
         /\ Half(v + Pow2[bit], AmountBits) = Half(v, AmountBits) + (IF Carry(v, bit, AmountBits) THEN 1 ELSE 0)
<1> DEFINE u    == v + Pow2[bit]
           good == {k \in 0 .. AmountBits : Half(u, k) = Half(v, k) + Added(v, bit, k)}
<1>1. AmountBits \in Nat /\ bit \in Nat /\ bit \in 0 .. AmountBits /\ bit < AmountBits
  BY LayoutAssumption DEF Bits
<1>2. Pow2[bit] \in Nat
  BY <1>1, Powers
<1>3. 0 \in good
  <2>1. Half(u, 0) = u /\ Half(v, 0) = v
    BY <1>2, Halves
  <2>2. Added(v, bit, 0) = Pow2[bit]
    <3>1. CASE bit = 0
      BY <3>1, CarryStep, Powers DEF Added
    <3>2. CASE bit # 0
      BY <1>1, <3>2 DEF Added
    <3> QED
      BY <3>1, <3>2
  <2> QED
    BY <1>1, <2>1, <2>2
<1>4. ASSUME NEW k \in 0 .. AmountBits - 1, k \in good PROVE k + 1 \in good
  <2>1. k \in Bits /\ k + 1 \in 0 .. AmountBits
    BY <1>1 DEF Bits
  <2> QED
    BY <1>4, <2>1, AddedStep
<1> HIDE DEF good
<1>5. \A k \in 0 .. AmountBits : k \in good
  BY <1>1, <1>3, <1>4, Induction
<1>6. \A k \in 0 .. AmountBits : Half(u, k) = Half(v, k) + Added(v, bit, k)
  BY <1>5 DEF good
<1>7. \A k \in Bits : k \in OnesOf(u) <=>
        IF k >= bit /\ Carry(v, bit, k) THEN k \notin OnesOf(v) ELSE k \in OnesOf(v)
  BY <1>1, <1>6, AddedStep DEF Bits
<1>8. Added(v, bit, AmountBits) = IF Carry(v, bit, AmountBits) THEN 1 ELSE 0
  BY <1>1 DEF Added
<1> QED
  BY <1>1, <1>6, <1>7, <1>8

\* The ceiling has every digit, zero has none.
LEMMA CeilingDigits == OnesOf(Ceiling) = Bits
<1> DEFINE good == {k \in 0 .. AmountBits : Half(Ceiling, k) = Pow2[AmountBits - k] - 1}
<1>1. AmountBits \in Nat /\ Ceiling \in Nat
  BY LayoutAssumption, CeilingType
<1>2. 0 \in good
  <2>1. Half(Ceiling, 0) = Ceiling /\ AmountBits - 0 = AmountBits
    BY <1>1, Halves
  <2> QED
    BY <1>1, <2>1 DEF Ceiling
<1>3. ASSUME NEW k \in 0 .. AmountBits - 1, Half(Ceiling, k) = Pow2[AmountBits - k] - 1
      PROVE  Half(Ceiling, k + 1) = Pow2[AmountBits - (k + 1)] - 1 /\ One(Ceiling, k) = 1
  <2>1. PICK j \in Bits : j = AmountBits - (k + 1) /\ j + 1 = AmountBits - k
    BY <1>1 DEF Bits
  <2>2. Pow2[j + 1] = 2 * Pow2[j] /\ Pow2[j] \in Nat \ {0}
    BY <1>1, Powers DEF Bits
  <2>3. Half(Ceiling, k) = 2 * Half(Ceiling, k + 1) + One(Ceiling, k) /\ Half(Ceiling, k + 1) \in Nat
    BY <1>1, Halves DEF Bits
  <2>4. One(Ceiling, k) \in 0 .. 1
    BY DEF One
  <2>5. Half(Ceiling, k) = 2 * Pow2[j] - 1
    BY <1>3, <2>1, <2>2
  <2>6. Half(Ceiling, k + 1) = Pow2[j] - 1 /\ One(Ceiling, k) = 1
    BY <2>2, <2>3, <2>4, <2>5
  <2> QED
    BY <2>1, <2>6
<1>4. \A k \in 0 .. AmountBits - 1 : k \in good => k + 1 \in good
  BY <1>1, <1>3
<1> HIDE DEF good
<1>5. \A k \in 0 .. AmountBits : k \in good
  BY <1>1, <1>2, <1>4, Induction
<1>6. \A k \in Bits : One(Ceiling, k) = 1
  <2>1. \A k \in 0 .. AmountBits : Half(Ceiling, k) = Pow2[AmountBits - k] - 1
    BY <1>5 DEF good
  <2> QED
    BY <1>1, <1>3, <2>1 DEF Bits
<1> QED
  BY <1>6 DEF One, OnesOf

LEMMA ZeroDigits == OnesOf(0) = {}
<1>1. ASSUME NEW k \in Bits PROVE (0 \div Pow2[k]) % 2 = 0
  <2>1. Pow2[k] \in Nat \ {0}
    BY Powers, LayoutAssumption DEF Bits
  <2>2. \A p \in Nat \ {0} : 0 \div p = 0
    BY QuotientOf
  <2> QED
    BY <2>1, <2>2
<1> QED
  BY <1>1 DEF OnesOf

\* PlusBit is the game's addition, saturation included.
LEMMA PlusAgrees ==
  ASSUME NEW v \in 0 .. Ceiling, NEW bit \in Bits
  PROVE  LET sum == v + Pow2[bit]
         IN  PlusBit(OnesOf(v), bit) = OnesOf(IF sum > Ceiling THEN Ceiling ELSE sum)
<1> DEFINE sum == v + Pow2[bit]
<1>1. AmountBits \in Nat /\ bit \in Nat /\ Ceiling \in Nat /\ v \in Nat
  BY LayoutAssumption, CeilingType DEF Bits
<1>2. sum \in Nat
  BY <1>1, Powers DEF Bits
<1>3. Carry(v, bit, AmountBits) <=> \A e \in Bits : e >= bit => e \in OnesOf(v)
  BY <1>1 DEF Carry, Bits
<1>4. Half(sum, AmountBits) = (IF Carry(v, bit, AmountBits) THEN 1 ELSE 0)
  <2>1. Half(v, AmountBits) = 0
    BY <1>1, Halves
  <2>2. Half(sum, AmountBits) = Half(v, AmountBits) + (IF Carry(v, bit, AmountBits) THEN 1 ELSE 0)
    BY <1>1, SumDigits
  <2> QED
    BY <2>1, <2>2
<1>5. sum > Ceiling <=> Carry(v, bit, AmountBits)
  <2>1. Half(sum, AmountBits) = 0 <=> sum <= Ceiling
    BY <1>2, Halves
  <2> QED
    BY <1>1, <1>2, <1>4, <2>1
<1>6. CASE Carry(v, bit, AmountBits)
  BY <1>3, <1>5, <1>6, CeilingDigits DEF PlusBit
<1>7. CASE ~Carry(v, bit, AmountBits)
  <2>1. PlusBit(OnesOf(v), bit) =
          {d \in Bits : IF d >= bit /\ (\A e \in bit .. d - 1 : e \in OnesOf(v))
                        THEN d \notin OnesOf(v) ELSE d \in OnesOf(v)}
    BY <1>3, <1>7, Zenon DEF PlusBit
  <2>2. \A d \in Bits : d \in OnesOf(sum) <=>
          IF d >= bit /\ Carry(v, bit, d) THEN d \notin OnesOf(v) ELSE d \in OnesOf(v)
    BY <1>1, SumDigits
  <2>3. OnesOf(sum) \subseteq Bits
    BY DEF OnesOf
  <2> HIDE DEF sum
  <2>4. PlusBit(OnesOf(v), bit) = OnesOf(sum)
    BY <2>1, <2>2, <2>3 DEF Carry
  <2> USE DEF sum
  <2> QED
    BY <1>5, <1>7, <2>4
<1> QED
  BY <1>6, <1>7

(***************************************************************************)
(* Subtracting: the borrow of Minus is that of the halves.                 *)
(***************************************************************************)
Borrowed(v, r, d) ==
  \E b \in OnesOf(r) \ OnesOf(v) :
    b < d /\ \A e \in b + 1 .. d - 1 : (e \in OnesOf(v) <=> e \in OnesOf(r))
Owed(v, r, k) == IF Borrowed(v, r, k) THEN 1 ELSE 0

LEMMA BorrowStep ==
  ASSUME NEW v, NEW r, NEW k \in Bits
  PROVE  /\ ~Borrowed(v, r, 0)
         /\ Borrowed(v, r, k + 1) <=>
              \/ k \in OnesOf(r) /\ k \notin OnesOf(v)
              \/ (k \in OnesOf(v) <=> k \in OnesOf(r)) /\ Borrowed(v, r, k)
<1>1. AmountBits \in Nat /\ k \in Nat /\ OnesOf(r) \subseteq Bits /\ \A b \in Bits : b \in Nat
  BY LayoutAssumption DEF Bits, OnesOf
<1>2. ~Borrowed(v, r, 0)
  <2>1. \A b \in Nat : ~(b < 0)
    OBVIOUS
  <2>2. \A b \in OnesOf(r) : b \in Nat
    BY <1>1, Zenon
  <2> QED
    BY <2>1, <2>2, Zenon DEF Borrowed
<1>3. ASSUME Borrowed(v, r, k + 1), ~(k \in OnesOf(r) /\ k \notin OnesOf(v))
      PROVE  (k \in OnesOf(v) <=> k \in OnesOf(r)) /\ Borrowed(v, r, k)
  <2>1. PICK b \in OnesOf(r) \ OnesOf(v) :
          b < k + 1 /\ \A e \in b + 1 .. k : (e \in OnesOf(v) <=> e \in OnesOf(r))
    BY <1>1, <1>3 DEF Borrowed
  <2>2. b \in Nat /\ b # k
    BY <1>1, <1>3, <2>1
  <2> QED
    BY <1>1, <2>1, <2>2 DEF Borrowed
<1>4. ASSUME k \in OnesOf(r) /\ k \notin OnesOf(v) PROVE Borrowed(v, r, k + 1)
  BY <1>1, <1>4 DEF Borrowed
<1>5. ASSUME k \in OnesOf(v) <=> k \in OnesOf(r), Borrowed(v, r, k) PROVE Borrowed(v, r, k + 1)
  <2>1. PICK b \in OnesOf(r) \ OnesOf(v) :
          b < k /\ \A e \in b + 1 .. k - 1 : (e \in OnesOf(v) <=> e \in OnesOf(r))
    BY <1>5 DEF Borrowed
  <2>2. b \in Nat
    BY <1>1, <2>1
  <2>3. \A e \in b + 1 .. (k + 1) - 1 : (e \in OnesOf(v) <=> e \in OnesOf(r))
    BY <1>1, <1>5, <2>1, <2>2
  <2> QED
    BY <1>1, <2>1, <2>2, <2>3 DEF Borrowed
<1> QED
  BY <1>2, <1>3, <1>4, <1>5

\* One digit of the comparison, and of the difference.
LEMMA OwedStep ==
  ASSUME NEW v \in Nat, NEW r \in Nat, NEW k \in Bits
  PROVE  /\ Half(v, k) - Owed(v, r, k) >= Half(r, k)
              <=> Half(v, k + 1) - Owed(v, r, k + 1) >= Half(r, k + 1)
         /\ v >= r /\ Half(v - r, k) = Half(v, k) - Half(r, k) - Owed(v, r, k) =>
              /\ Half(v - r, k + 1) = Half(v, k + 1) - Half(r, k + 1) - Owed(v, r, k + 1)
              /\ k \in OnesOf(v - r) <=> ((k \in OnesOf(v) <=> k \in OnesOf(r)) <=> Borrowed(v, r, k))
<1>1. AmountBits \in Nat /\ k + 1 \in 0 .. AmountBits
  BY LayoutAssumption DEF Bits
<1>2. \A n \in Nat : Half(n, k) = 2 * Half(n, k + 1) + One(n, k) /\ Half(n, k + 1) \in Nat
  BY <1>1, Halves
<1>3. Owed(v, r, k + 1) =
        IF \/ k \in OnesOf(r) /\ k \notin OnesOf(v)
           \/ (k \in OnesOf(v) <=> k \in OnesOf(r)) /\ Borrowed(v, r, k)
        THEN 1 ELSE 0
  BY BorrowStep DEF Owed
<1>4. Owed(v, r, k) = IF Borrowed(v, r, k) THEN 1 ELSE 0
  BY DEF Owed
<1>5. \A n : One(n, k) = IF k \in OnesOf(n) THEN 1 ELSE 0
  BY DEF One
<1>6. /\ Half(v, k) = 2 * Half(v, k + 1) + One(v, k) /\ Half(v, k + 1) \in Nat
      /\ Half(r, k) = 2 * Half(r, k + 1) + One(r, k) /\ Half(r, k + 1) \in Nat
      /\ One(v, k) = (IF k \in OnesOf(v) THEN 1 ELSE 0)
      /\ One(r, k) = (IF k \in OnesOf(r) THEN 1 ELSE 0)
  BY <1>2, <1>5
<1>7. Half(v, k) - Owed(v, r, k) >= Half(r, k)
        <=> Half(v, k + 1) - Owed(v, r, k + 1) >= Half(r, k + 1)
  BY <1>3, <1>4, <1>6
<1>8. ASSUME v >= r, Half(v - r, k) = Half(v, k) - Half(r, k) - Owed(v, r, k)
      PROVE  /\ Half(v - r, k + 1) = Half(v, k + 1) - Half(r, k + 1) - Owed(v, r, k + 1)
             /\ k \in OnesOf(v - r) <=> ((k \in OnesOf(v) <=> k \in OnesOf(r)) <=> Borrowed(v, r, k))
  <2> DEFINE w == v - r
  <2>1. w \in Nat
    BY <1>8
  <2>2. /\ Half(w, k) = 2 * Half(w, k + 1) + One(w, k) /\ Half(w, k + 1) \in Nat
        /\ One(w, k) = (IF k \in OnesOf(w) THEN 1 ELSE 0)
        /\ Half(w, k) = Half(v, k) - Half(r, k) - Owed(v, r, k)
    BY <1>2, <1>5, <1>8, <2>1
  <2> HIDE DEF w
  <2>3. /\ Half(w, k + 1) = Half(v, k + 1) - Half(r, k + 1) - Owed(v, r, k + 1)
        /\ k \in OnesOf(w) <=> ((k \in OnesOf(v) <=> k \in OnesOf(r)) <=> Borrowed(v, r, k))
    <3>1. CASE Borrowed(v, r, k)
      BY <1>3, <1>4, <1>6, <2>2, <3>1
    <3>2. CASE ~Borrowed(v, r, k)
      BY <1>3, <1>4, <1>6, <2>2, <3>2
    <3> QED
      BY <3>1, <3>2
  <2> QED
    BY <2>3 DEF w
<1> QED
  BY <1>7, <1>8

LEMMA DifferenceDigits ==
  ASSUME NEW v \in 0 .. Ceiling, NEW r \in 0 .. Ceiling
  PROVE  /\ v < r <=> Borrowed(v, r, AmountBits)
         /\ v >= r => \A k \in Bits :
              k \in OnesOf(v - r) <=> ((k \in OnesOf(v) <=> k \in OnesOf(r)) <=> Borrowed(v, r, k))
<1> DEFINE enough == {k \in 0 .. AmountBits : v >= r <=> Half(v, k) - Owed(v, r, k) >= Half(r, k)}
           good   == {k \in 0 .. AmountBits : Half(v - r, k) = Half(v, k) - Half(r, k) - Owed(v, r, k)}
<1>1. AmountBits \in Nat /\ v \in Nat /\ r \in Nat /\ \A k \in 0 .. AmountBits - 1 : k \in Bits
  BY LayoutAssumption, CeilingType DEF Bits
<1>2. Half(v, 0) = v /\ Half(r, 0) = r /\ Half(v, AmountBits) = 0 /\ Half(r, AmountBits) = 0
  BY <1>1, CeilingType, Halves
<1>3. Owed(v, r, 0) = 0
  <2>1. CASE Bits = {}
    <3>1. OnesOf(r) = {}
      BY <2>1 DEF OnesOf
    <3> QED
      BY <3>1 DEF Owed, Borrowed
  <2>2. CASE Bits # {}
    BY <2>2, BorrowStep DEF Owed
  <2> QED
    BY <2>1, <2>2
<1>4. 0 \in enough
  BY <1>1, <1>2, <1>3
<1>5. \A k \in 0 .. AmountBits - 1 : k \in enough => k + 1 \in enough
  BY <1>1, OwedStep
<1> HIDE DEF enough
<1>6. AmountBits \in enough
  <2>1. \A k \in 0 .. AmountBits : k \in enough
    BY <1>1, <1>4, <1>5, Induction
  <2> QED
    BY <1>1, <2>1
<1>7. v < r <=> Borrowed(v, r, AmountBits)
  <2>1. v >= r <=> Half(v, AmountBits) - Owed(v, r, AmountBits) >= Half(r, AmountBits)
    BY <1>6 DEF enough
  <2>2. Owed(v, r, AmountBits) = IF Borrowed(v, r, AmountBits) THEN 1 ELSE 0
    BY DEF Owed
  <2> QED
    BY <1>1, <1>2, <2>1, <2>2
<1>8. ASSUME v >= r
      PROVE  \A k \in Bits :
               k \in OnesOf(v - r) <=> ((k \in OnesOf(v) <=> k \in OnesOf(r)) <=> Borrowed(v, r, k))
  <2>1. v - r \in Nat
    BY <1>1, <1>8
  <2>2. 0 \in good
    BY <1>1, <1>2, <1>3, <2>1, Halves
  <2>3. \A k \in 0 .. AmountBits - 1 : k \in good => k + 1 \in good
    BY <1>1, <1>8, OwedStep
  <2> HIDE DEF good
  <2>4. \A k \in 0 .. AmountBits : k \in good
    BY <1>1, <2>2, <2>3, Induction
  <2>5. \A k \in 0 .. AmountBits : Half(v - r, k) = Half(v, k) - Half(r, k) - Owed(v, r, k)
    BY <2>4 DEF good
  <2> QED
    BY <1>1, <1>8, <2>5, OwedStep DEF Bits
<1> QED
  BY <1>7, <1>8

\* Minus is decr_pickup's subtraction, clamped at zero.
LEMMA MinusAgrees ==
  ASSUME NEW v \in 0 .. Ceiling, NEW r \in 0 .. Ceiling
  PROVE  Minus(OnesOf(v), OnesOf(r)) = OnesOf(IF v < r THEN 0 ELSE v - r)
<1>1. AmountBits \in Nat /\ v \in Nat /\ r \in Nat /\ OnesOf(r) \subseteq Bits /\ OnesOf(v) \subseteq Bits
  BY LayoutAssumption, CeilingType
<1>2. IsLess(OnesOf(v), OnesOf(r)) <=> Borrowed(v, r, AmountBits)
  <2>1. \A b \in Bits : b < AmountBits
    BY <1>1 DEF Bits
  <2>2. ASSUME NEW b \in Bits
        PROVE  (\A d \in Bits : d > b => (d \in OnesOf(v) <=> d \in OnesOf(r)))
                 <=> (\A e \in b + 1 .. AmountBits - 1 : (e \in OnesOf(v) <=> e \in OnesOf(r)))
    BY <1>1 DEF Bits
  <2>3. IsLess(OnesOf(v), OnesOf(r)) <=>
          \E b \in OnesOf(r) \ OnesOf(v) :
            \A d \in Bits : d > b => (d \in OnesOf(v) <=> d \in OnesOf(r))
    BY Zenon DEF IsLess
  <2>4. \A b \in OnesOf(r) \ OnesOf(v) : b \in Bits
    BY <1>1, Zenon
  <2> QED
    BY <2>1, <2>2, <2>3, <2>4, Zenon DEF Borrowed
<1>3. CASE v < r
  <2>1. IsLess(OnesOf(v), OnesOf(r))
    BY <1>2, <1>3, DifferenceDigits
  <2> QED
    BY <1>3, <2>1, ZeroDigits DEF Minus
<1>4. CASE ~(v < r)
  <2>1. ~IsLess(OnesOf(v), OnesOf(r)) /\ v >= r
    BY <1>1, <1>2, <1>4, DifferenceDigits
  <2>2. Minus(OnesOf(v), OnesOf(r)) =
          {d \in Bits : (d \in OnesOf(v) <=> d \in OnesOf(r)) <=> Borrowed(v, r, d)}
    BY <2>1, Zenon DEF Minus, Borrowed
  <2>3. \A k \in Bits :
          k \in OnesOf(v - r) <=> ((k \in OnesOf(v) <=> k \in OnesOf(r)) <=> Borrowed(v, r, k))
    BY <2>1, DifferenceDigits
  <2>4. OnesOf(v - r) \subseteq Bits
    BY DEF OnesOf
  <2>5. Minus(OnesOf(v), OnesOf(r)) = OnesOf(v - r)
    BY <2>2, <2>3, <2>4, Zenon
  <2> QED
    BY <1>4, <2>5
<1> QED
  BY <1>3, <1>4

(***************************************************************************)
(* The counters: digit sets and integers go together, and as long as every *)
(* pickup is collected once, the digits are those of the pickups.          *)
(***************************************************************************)
CountersKept ==
  /\ value \in [Counters -> 0 .. Ceiling]
  /\ amount = AllOnes(value)
  /\ since \subseteq Pickups
  /\ distinct => \A c \in Counters, b \in Bits :
                   b \in amount[c] <=> \E p \in since : CounterOf(p) = c /\ BitOf(p) = b

LEMMA AllOnesType ==
  ASSUME NEW reading \in [Counters -> 0 .. Ceiling]
  PROVE  AllOnes(reading) \in Amounts /\ \A c \in Counters : AllOnes(reading)[c] = OnesOf(reading[c])
<1>1. \A c \in Counters : OnesOf(reading[c]) \in SUBSET Bits
  BY CeilingType
<1> HIDE DEF OnesOf
<1> QED
  BY <1>1 DEF AllOnes, Amounts

LEMMA CountersInit == Init => CountersKept
<1> SUFFICES ASSUME Init PROVE CountersKept
  OBVIOUS
<1>1. value = [c \in Counters |-> 0] /\ amount = NoAmounts /\ since = {}
  BY Zenon DEF Init, InitEncoding
<1>2. value \in [Counters -> 0 .. Ceiling] /\ \A c \in Counters : value[c] = 0
  BY <1>1, CeilingType
<1>3. amount = AllOnes(value)
  BY <1>1, <1>2, ZeroDigits, Zenon DEF AllOnes, NoAmounts
<1>4. \A c \in Counters : amount[c] = {}
  BY <1>1 DEF NoAmounts
<1> QED
  BY <1>1, <1>2, <1>3, <1>4, Zenon DEF CountersKept

LEMMA CollectOnceKeeps ==
  ASSUME CountersKept, NEW p \in Pickups, CollectOnce(p)
  PROVE  CountersKept'
<1> DEFINE c   == CounterOf(p)
           sum == value[c] + Pow2[BitOf(p)]
<1>1. c \in Counters /\ BitOf(p) \in Bits
  BY SlotInRange
<1>2. value \in [Counters -> 0 .. Ceiling] /\ amount = AllOnes(value) /\ amount \in Amounts
      /\ \A d \in Counters : amount[d] = OnesOf(value[d])
  BY AllOnesType DEF CountersKept
<1>3. value[c] \in 0 .. Ceiling /\ Ceiling \in Nat
  BY <1>1, <1>2, CeilingType
<1>4. sum \in Nat
  <2>1. Pow2[BitOf(p)] \in Nat
    BY <1>1, Powers, LayoutAssumption DEF Bits
  <2> QED
    BY <1>3, <2>1
<1>5. value' = [value EXCEPT ![c] = IF sum > Ceiling THEN Ceiling ELSE sum]
      /\ amount' = AddPickup(amount, p) /\ since' = since \cup {p}
      /\ distinct' = (distinct /\ p \notin since)
  BY Zenon DEF CollectOnce
<1>6. PlusBit(OnesOf(value[c]), BitOf(p)) = OnesOf(IF sum > Ceiling THEN Ceiling ELSE sum)
  BY <1>1, <1>3, PlusAgrees
<1>7. amount' = [amount EXCEPT ![c] = PlusBit(amount[c], BitOf(p))]
  BY <1>5, Zenon DEF AddPickup
<1> HIDE DEF c, sum
<1>8. value' \in [Counters -> 0 .. Ceiling]
      /\ \A d \in Counters : value'[d] = IF d = c THEN (IF sum > Ceiling THEN Ceiling ELSE sum) ELSE value[d]
  BY <1>1, <1>2, <1>3, <1>4, <1>5
<1>9. amount' = AllOnes(value')
  <2> DEFINE total == IF sum > Ceiling THEN Ceiling ELSE sum
  <2>1. amount' = [d \in Counters |-> IF d = c THEN OnesOf(total) ELSE OnesOf(value[d])]
    <3>1. DOMAIN amount = Counters
      BY <1>2 DEF Amounts
    <3>2. amount' = [d \in Counters |-> IF d = c THEN PlusBit(amount[c], BitOf(p)) ELSE amount[d]]
      BY <1>7, <3>1, Zenon
    <3>3. PlusBit(amount[c], BitOf(p)) = OnesOf(total)
      BY <1>1, <1>2, <1>6, Zenon
    <3> HIDE DEF total
    <3> QED
      BY <1>2, <3>2, <3>3, Zenon
  <2>2. \A d \in Counters : value'[d] = IF d = c THEN total ELSE value[d]
    BY <1>8
  <2> HIDE DEF total
  <2>3. \A d \in Counters : OnesOf(value'[d]) = IF d = c THEN OnesOf(total) ELSE OnesOf(value[d])
    BY <2>2, Zenon
  <2>4. AllOnes(value') = [d \in Counters |-> OnesOf(value'[d])]
    BY Zenon DEF AllOnes
  <2> QED
    BY <2>1, <2>3, <2>4, Zenon
<1>10. since' \subseteq Pickups
  BY <1>5 DEF CountersKept
<1>11. ASSUME distinct', NEW d \in Counters, NEW b \in Bits
       PROVE  b \in amount'[d] <=> \E q \in since' : CounterOf(q) = d /\ BitOf(q) = b
  <2>1. distinct /\ p \notin since
    BY <1>5, <1>11, Zenon
  <2>2. \A e \in Counters, f \in Bits :
          f \in amount[e] <=> \E q \in since : CounterOf(q) = e /\ BitOf(q) = f
    BY <2>1, Zenon DEF CountersKept
  <2>3. ~Holds(amount, p)
    <3>1. SUFFICES ASSUME Holds(amount, p) PROVE FALSE
      OBVIOUS
    <3>2. PICK q \in since : CounterOf(q) = CounterOf(p) /\ BitOf(q) = BitOf(p)
      BY <1>1, <2>2, <3>1, Zenon DEF Holds, c
    <3>3. q \in Pickups /\ q = p
      BY <3>2, SlotsUnique DEF CountersKept
    <3> QED
      BY <2>1, <3>3
  <2>4. AddPickup(amount, p)[d] = IF d = CounterOf(p) THEN amount[d] \cup {BitOf(p)} ELSE amount[d]
    BY <1>2, <2>3, AddFreshPickup
  <2>5. b \in amount'[d] <=> b \in amount[d] \/ (d = CounterOf(p) /\ b = BitOf(p))
    BY <1>5, <2>4
  <2> QED
    BY <1>5, <2>2, <2>5, Zenon
<1> QED
  BY <1>8, <1>9, <1>10, <1>11, Zenon DEF CountersKept

LEMMA ConsumeReadingKeeps ==
  ASSUME CountersKept, NEW r \in Readings, ConsumeReading(r)
  PROVE  CountersKept'
<1> DEFINE left(c) == IF value[c] < r[c] THEN 0 ELSE value[c] - r[c]
<1>1. value \in [Counters -> 0 .. Ceiling] /\ amount = AllOnes(value) /\ amount \in Amounts
      /\ \A d \in Counters : amount[d] = OnesOf(value[d])
  BY AllOnesType DEF CountersKept
<1>2. r \in [Counters -> 0 .. Ceiling] /\ AllOnes(r) \in Amounts
      /\ \A d \in Counters : AllOnes(r)[d] = OnesOf(r[d])
  BY AllOnesType DEF Readings
<1>3. value' = [c \in Counters |-> left(c)] /\ amount' = Consume(amount, Deltas(AllOnes(r)))
      /\ since' = (IF r = value THEN {} ELSE since) /\ distinct' = (distinct /\ r = value)
  BY Zenon DEF ConsumeReading
<1>4. value' \in [Counters -> 0 .. Ceiling]
  BY <1>1, <1>2, <1>3, CeilingType
<1>5. ASSUME NEW c \in Counters
      PROVE  /\ Consume(amount, Deltas(AllOnes(r)))[c] = Minus(amount[c], AllOnes(r)[c])
             /\ Minus(amount[c], AllOnes(r)[c]) = OnesOf(left(c))
  <2>1. value[c] \in 0 .. Ceiling /\ r[c] \in 0 .. Ceiling
    BY <1>1, <1>2
  <2>2. Minus(amount[c], AllOnes(r)[c]) = OnesOf(left(c))
    BY <1>1, <1>2, <2>1, MinusAgrees
  <2>3. amount[c] \in SUBSET Bits /\ AllOnes(r)[c] \in SUBSET Bits
    BY <1>1, <1>2 DEF Amounts
  <2>4. DOMAIN Deltas(AllOnes(r)) = {d \in Counters : AllOnes(r)[d] # {}}
        /\ \A d \in DOMAIN Deltas(AllOnes(r)) : Deltas(AllOnes(r))[d] = AllOnes(r)[d]
    BY Zenon DEF Deltas
  <2>5. Consume(amount, Deltas(AllOnes(r)))[c] =
          IF c \in DOMAIN Deltas(AllOnes(r)) THEN Minus(amount[c], Deltas(AllOnes(r))[c]) ELSE amount[c]
    BY Zenon DEF Consume
  <2>6. CASE AllOnes(r)[c] = {}
    <3>1. Minus(amount[c], {}) = amount[c]
      <4>1. {} \in SUBSET amount[c] /\ amount[c] \ {} = amount[c]
        OBVIOUS
      <4> QED
        BY <2>3, <4>1, MinusSubset, Zenon
    <3>2. c \notin DOMAIN Deltas(AllOnes(r))
      BY <2>4, <2>6
    <3> QED
      BY <2>2, <2>5, <2>6, <3>1, <3>2
  <2>7. CASE AllOnes(r)[c] # {}
    <3>1. c \in DOMAIN Deltas(AllOnes(r))
      BY <2>4, <2>7
    <3> QED
      BY <2>2, <2>4, <2>5, <3>1
  <2> QED
    BY <2>6, <2>7
<1>6. amount' = AllOnes(value')
  <2>1. \A c \in Counters : value'[c] = left(c)
    BY <1>3, Zenon
  <2> HIDE DEF left
  <2>2. \A c \in Counters : Consume(amount, Deltas(AllOnes(r)))[c] = OnesOf(value'[c])
    BY <1>5, <2>1, Zenon
  <2>3. Consume(amount, Deltas(AllOnes(r))) = [c \in Counters |-> Consume(amount, Deltas(AllOnes(r)))[c]]
    BY Zenon DEF Consume
  <2> QED
    BY <1>3, <2>2, <2>3, Zenon DEF AllOnes
<1>7. since' \subseteq Pickups
  BY <1>3 DEF CountersKept
<1>8. ASSUME distinct', NEW c \in Counters, NEW b \in Bits
      PROVE  b \in amount'[c] <=> \E q \in since' : CounterOf(q) = c /\ BitOf(q) = b
  <2>1. r = value /\ since' = {}
    BY <1>3, <1>8
  <2>2. amount'[c] = OnesOf(left(c))
    BY <1>3, <1>5
  <2>3. left(c) = 0
    BY <1>1, <2>1, CeilingType
  <2>4. amount'[c] = {}
    BY <2>2, <2>3, ZeroDigits, Zenon
  <2> QED
    BY <2>1, <2>4
<1> QED
  BY <1>4, <1>6, <1>7, <1>8, Zenon DEF CountersKept

LEMMA CountersStepKeeps == CountersKept /\ [Next]_vars => CountersKept'
<1> SUFFICES ASSUME CountersKept, [Next]_vars PROVE CountersKept'
  OBVIOUS
<1>1. CASE CountersStep
  <2>1. CASE \E p \in Pickups : CollectOnce(p)
    BY <2>1, CollectOnceKeeps, Zenon
  <2>2. CASE \E r \in Readings : ConsumeReading(r)
    BY <2>2, ConsumeReadingKeeps, Zenon
  <2> QED
    BY <1>1, <2>1, <2>2, Zenon DEF CountersStep
<1>2. CASE UNCHANGED encodingVars
  BY <1>2, Zenon DEF encodingVars, CountersKept, AllOnes, OnesOf
<1> QED
  BY <1>1, <1>2, OneFamily, Zenon

LEMMA CountersKeptAlways == Spec => []CountersKept
BY CountersInit, CountersStepKeeps, PTL DEF Spec

LEMMA CountersKeptFaithful == CountersKept => CountersFaithful
<1> SUFFICES ASSUME CountersKept PROVE CountersFaithful
  OBVIOUS
<1>1. amount \in Amounts /\ RepresentationAgrees
  BY AllOnesType DEF CountersKept, RepresentationAgrees
<1>2. \A c \in Counters : amount[c] \subseteq Bits
  BY <1>1 DEF Amounts
<1>3. Lossless
  <2> SUFFICES ASSUME distinct PROVE Decode(amount) = since /\ Stray(amount) = {}
    BY Zenon DEF Lossless
  <2>1. \A c \in Counters, b \in Bits : b \in amount[c] <=> \E p \in since : CounterOf(p) = c /\ BitOf(p) = b
    BY Zenon DEF CountersKept
  <2>2. ASSUME NEW p \in Pickups PROVE p \in Decode(amount) <=> p \in since
    <3>1. p \in Decode(amount) <=> Holds(amount, p)
      BY <1>1, DecodeInverts
    <3>2. Holds(amount, p) <=> \E q \in since : CounterOf(q) = CounterOf(p) /\ BitOf(q) = BitOf(p)
      BY <2>1, SlotInRange, Zenon DEF Holds
    <3>3. \A q \in since : CounterOf(q) = CounterOf(p) /\ BitOf(q) = BitOf(p) => q = p
      BY SlotsUnique DEF CountersKept
    <3> QED
      BY <3>1, <3>2, <3>3, Zenon
  <2>3. Decode(amount) = since
    BY <2>2, DecodeType, Zenon DEF CountersKept
  <2>4. Stray(amount) = {}
    <3>1. ASSUME NEW c \in Counters, NEW b \in Bits, b \in amount[c]
          PROVE  b < BitsPerCounter /\ c * BitsPerCounter + b \in Pickups
      <4>1. PICK p \in since : CounterOf(p) = c /\ BitOf(p) = b
        BY <2>1, <3>1, Zenon
      <4> QED
        BY <4>1, SlotInRange DEF CountersKept
    <3> QED
      BY <3>1 DEF Stray
  <2> QED
    BY <2>3, <2>4
<1>4. ASSUME NEW c \in Counters, NEW b \in Bits
      PROVE  /\ b \in amount[c] <=>
                  \/ <<c, b>> \in Stray(amount)
                  \/ \E p \in Decode(amount) : CounterOf(p) = c /\ BitOf(p) = b
             /\ ~ (/\ <<c, b>> \in Stray(amount)
                   /\ \E p \in Decode(amount) : CounterOf(p) = c /\ BitOf(p) = b)
  <2>1. <<c, b>> \in Stray(amount) <=>
          b \in amount[c] /\ (b < BitsPerCounter => c * BitsPerCounter + b \notin Pickups)
    BY DEF Stray
  <2>2. (\E p \in Decode(amount) : CounterOf(p) = c /\ BitOf(p) = b) <=>
          b \in amount[c] /\ b < BitsPerCounter /\ c * BitsPerCounter + b \in Pickups
    <3>1. ASSUME NEW p \in Decode(amount), CounterOf(p) = c, BitOf(p) = b
          PROVE  b \in amount[c] /\ b < BitsPerCounter /\ c * BitsPerCounter + b \in Pickups
      <4>1. p \in Pickups
        BY DecodeType, Zenon
      <4>2. Holds(amount, p)
        BY <1>1, <4>1, DecodeInverts
      <4> QED
        BY <3>1, <4>1, <4>2, SlotInRange DEF Holds
    <3>2. ASSUME b \in amount[c], b < BitsPerCounter, c * BitsPerCounter + b \in Pickups
          PROVE  \E p \in Decode(amount) : CounterOf(p) = c /\ BitOf(p) = b
      <4> DEFINE p == c * BitsPerCounter + b
      <4>1. CounterOf(p) = c /\ BitOf(p) = b
        BY <3>2, SlotOf
      <4>2. p \in Decode(amount)
        BY <3>2, Zenon DEF Decode
      <4> QED
        BY <4>1, <4>2, Zenon
    <3> QED
      BY <3>1, <3>2
  <2> QED
    BY <2>1, <2>2
<1>5. Consume(amount, Deltas(amount)) = NoAmounts
  <2>1. ASSUME NEW c \in Counters PROVE Consume(amount, Deltas(amount))[c] = {}
    <3>1. Consume(amount, Deltas(amount))[c] =
            IF c \in DOMAIN Deltas(amount) THEN amount[c] \ Deltas(amount)[c] ELSE amount[c]
      <4>1. \A d \in DOMAIN Deltas(amount) : d \in Counters => Deltas(amount)[d] \subseteq amount[d]
        BY <1>1, DeltasType
      <4> QED
        BY <1>1, <4>1, ConsumeSubset
    <3>2. DOMAIN Deltas(amount) = {d \in Counters : amount[d] # {}}
          /\ \A d \in DOMAIN Deltas(amount) : Deltas(amount)[d] = amount[d]
      BY Zenon DEF Deltas
    <3> QED
      BY <3>1, <3>2
  <2>2. Consume(amount, Deltas(amount)) = [c \in Counters |-> Consume(amount, Deltas(amount))[c]]
    BY Zenon DEF Consume
  <2> QED
    BY <2>1, <2>2, Zenon DEF NoAmounts
<1>6. NothingUnaccounted
  BY <1>4, <1>5, Zenon DEF NothingUnaccounted
<1> QED
  BY <1>1, <1>3, <1>6, Zenon DEF CountersFaithful

\* pickup_encoding.py, for every layout its assert admits: the counters hold the integers
\* the game adds to and decr_pickup subtracts from, carries, borrows, saturation and
\* clamping included; any number of distinct pickups since the last consume decodes to
\* exactly those; and every one-bit is either reported or stray, and consumed.
THEOREM CountersAreFaithful == Spec => []CountersFaithful
BY CountersKeptAlways, CountersKeptFaithful, PTL
-----------------------------------------------------------------------------
(* Requirements.  What recurs on a tree is about the trees below it, which *)
(* are less deep: it is defined for every tree, and proved by induction.   *)

Below(t) == {s \in Trees : Depth[s] < Depth[t]}

LEMMA Depths == \A t \in Trees : Depth[t] \in Nat
BY TreesAssumption

LEMMA PartsBelow ==
  ASSUME NEW t \in Trees
  PROVE  /\ t.type \in {"null", "and", "or", "template", "trick", "event", "item", "damage"}
         /\ t.type \in {"and", "or"} => \A i \in DOMAIN t.items : t.items[i] \in Below(t)
         /\ t.type = "template" => Templates[t.name] \in Below(t)
BY TreesAssumption DEF Below

LEMMA TreeInduction ==
  ASSUME NEW S, \A t \in Trees : Below(t) \subseteq S => t \in S
  PROVE  \A t \in Trees : t \in S
<1> DEFINE bad == {Depth[t] : t \in {s \in Trees : s \notin S}}
<1>1. bad = {}
  <2>1. SUFFICES ASSUME bad # {} PROVE FALSE
    OBVIOUS
  <2>2. bad \in SUBSET Nat
    BY Depths
  <2>3. PICK m \in bad : \A k \in bad : m <= k
    BY <2>1, <2>2, LeastNumber
  <2>4. PICK t \in Trees : t \notin S /\ Depth[t] = m
    OBVIOUS
  <2>5. ASSUME NEW s \in Below(t) PROVE s \in S
    <3>1. s \in Trees /\ Depth[s] < m /\ Depth[s] \in Nat /\ m \in Nat
      BY <2>4, <2>5, Depths DEF Below
    <3>2. s \notin S => Depth[s] \in bad
      BY <3>1
    <3> HIDE DEF bad
    <3> QED
      BY <2>3, <3>1, <3>2
  <2> QED
    BY <2>4, <2>5
<1> QED
  BY <1>1

\* The value at a tree is a function of the values below it.
Recurs(node, V) ==
  /\ node \in [Trees \X [Trees -> V] -> V]
  /\ \A t \in Trees : \A f, g \in [Trees -> V] :
       (\A s \in Below(t) : f[s] = g[s]) => node[<<t, f>>] = node[<<t, g>>]

Solves(f, node) == \A t \in Trees : f[t] = node[<<t, f>>]

LEMMA TreeRecursion ==
  ASSUME NEW V, NEW default \in V, NEW node, Recurs(node, V)
  PROVE  \E f \in [Trees -> V] : Solves(f, node)
<1> USE DEF Recurs
<1> DEFINE F == [Trees -> V]
           Approx(f, n) == \A t \in Trees : Depth[t] < n => f[t] = node[<<t, f>>]
           defined == {n \in Nat : \E f \in F : Approx(f, n)}
<1>0. \A t \in Trees, f \in F : node[<<t, f>>] \in V
  OBVIOUS
<1>1. 0 \in defined
  <2>1. [t \in Trees |-> default] \in F
    OBVIOUS
  <2>2. Approx([t \in Trees |-> default], 0)
    BY Depths
  <2> QED
    BY <2>1, <2>2
<1>2. ASSUME NEW k \in Nat, k \in defined PROVE k + 1 \in defined
  <2>1. PICK f \in F : Approx(f, k)
    BY <1>2
  <2> DEFINE g == [t \in Trees |-> IF Depth[t] < k THEN f[t] ELSE node[<<t, f>>]]
  <2>2. g \in F
    BY <1>0
  <2>3. ASSUME NEW t \in Trees, Depth[t] < k + 1 PROVE g[t] = node[<<t, g>>]
    <3>1. \A s \in Below(t) : g[s] = f[s]
      BY <2>3, Depths DEF Below
    <3>2. node[<<t, g>>] = node[<<t, f>>]
      BY <2>2, <3>1
    <3> QED
      BY <2>1, <3>2
  <2> HIDE DEF g
  <2>4. Approx(g, k + 1)
    BY <2>3
  <2> QED
    BY <2>2, <2>4
<1>3. \A n \in Nat : n \in defined
  <2>1. TAKE n \in Nat
  <2> HIDE DEF defined
  <2>2. \A k \in 0 .. n - 1 : k \in defined => k + 1 \in defined
    BY <1>2
  <2> QED
    BY <1>1, <2>2, Induction
<1>4. ASSUME NEW f \in F, NEW g \in F, NEW n \in Nat, NEW m \in Nat, Approx(f, n), Approx(g, m)
      PROVE  \A t \in Trees : Depth[t] < n /\ Depth[t] < m => f[t] = g[t]
  <2> DEFINE same == {t \in Trees : Depth[t] < n /\ Depth[t] < m => f[t] = g[t]}
  <2>1. ASSUME NEW t \in Trees, Below(t) \subseteq same PROVE t \in same
    <3>1. SUFFICES ASSUME Depth[t] < n, Depth[t] < m PROVE f[t] = g[t]
      OBVIOUS
    <3>2. \A s \in Below(t) : f[s] = g[s]
      BY <2>1, <3>1, Depths DEF Below
    <3> QED
      BY <1>4, <3>1, <3>2
  <2> HIDE DEF same
  <2>2. \A t \in Trees : t \in same
    BY <2>1, TreeInduction
  <2> QED
    BY <2>2 DEF same
<1> DEFINE approx == [n \in Nat |-> CHOOSE f \in F : Approx(f, n)]
<1>5. \A n \in Nat : approx[n] \in F /\ Approx(approx[n], n)
  <2>1. TAKE n \in Nat
  <2>2. \E f \in F : Approx(f, n)
    BY <1>3
  <2>3. approx[n] = CHOOSE f \in F : Approx(f, n)
    BY Zenon
  <2> HIDE DEF F, Approx, approx
  <2> QED
    BY <2>2, <2>3, Zenon
<1> HIDE DEF approx
<1> DEFINE result == [t \in Trees |-> approx[Depth[t] + 1][t]]
<1>6. result \in F
  <2>1. \A t \in Trees : approx[Depth[t] + 1] \in F
    BY <1>5, Depths
  <2> QED
    BY <2>1
<1>7. ASSUME NEW t \in Trees PROVE result[t] = node[<<t, result>>]
  <2> DEFINE here == approx[Depth[t] + 1]
  <2>1. Depth[t] + 1 \in Nat /\ Depth[t] < Depth[t] + 1
    BY Depths
  <2>2. here \in F /\ Approx(here, Depth[t] + 1)
    BY <1>5, <2>1
  <2>3. here[t] = node[<<t, here>>]
    BY <2>1, <2>2
  <2>4. ASSUME NEW s \in Below(t) PROVE result[s] = here[s]
    <3>1. s \in Trees /\ Depth[s] \in Nat /\ Depth[s] + 1 \in Nat /\ Depth[s] < Depth[s] + 1
          /\ Depth[s] < Depth[t] + 1
      BY Depths DEF Below
    <3>2. approx[Depth[s] + 1] \in F /\ Approx(approx[Depth[s] + 1], Depth[s] + 1)
      BY <1>5, <3>1
    <3>3. result[s] = approx[Depth[s] + 1][s]
      BY <3>1
    <3> HIDE DEF here, result, Approx
    <3> QED
      BY <1>4, <2>1, <2>2, <3>1, <3>2, <3>3
  <2>5. result[t] = here[t]
    OBVIOUS
  <2> HIDE DEF result, here
  <2>6. node[<<t, result>>] = node[<<t, here>>]
    BY <1>6, <2>2, <2>4
  <2> QED
    BY <2>3, <2>5, <2>6
<1> HIDE DEF result
<1> QED
  BY <1>6, <1>7 DEF Solves
-----------------------------------------------------------------------------
(* Rules.                                                                  *)

Rules == {Q!Always, Q!Impossible} \cup {Q!Closure(on) : on \in [Holdings -> BOOLEAN]}

LEMMA RuleForms ==
  /\ Q!Always \in Rules /\ Q!Always.op = "none"
  /\ Q!Impossible \in Rules /\ Q!Impossible.op = "impossible"
  /\ \A on \in [Holdings -> BOOLEAN] :
       Q!Closure(on) \in Rules /\ Q!Closure(on).op = "rule" /\ Q!Closure(on).on = on
  /\ \A r \in Rules : /\ r.op \in {"none", "impossible", "rule"}
                      /\ r.op = "rule" => r.on \in [Holdings -> BOOLEAN]
<1>1. Q!Always \in Rules /\ Q!Impossible \in Rules /\ \A on \in [Holdings -> BOOLEAN] : Q!Closure(on) \in Rules
  BY Zenon DEF Rules
<1>2. Q!Always.op = "none" /\ Q!Impossible.op = "impossible"
  BY DEF Q!Always, Q!Impossible
<1>3. \A on : Q!Closure(on).op = "rule" /\ Q!Closure(on).on = on
  BY DEF Q!Closure
<1>4. ASSUME NEW r \in Rules
      PROVE  /\ r.op \in {"none", "impossible", "rule"}
             /\ r.op = "rule" => r.on \in [Holdings -> BOOLEAN]
  <2>1. r = Q!Always \/ r = Q!Impossible \/ \E on \in [Holdings -> BOOLEAN] : r = Q!Closure(on)
    BY Zenon DEF Rules
  <2> QED
    BY <1>2, <1>3, <2>1, Zenon
<1> QED
  BY <1>1, <1>2, <1>3, <1>4, Zenon

LEMMA ClosureAllows ==
  ASSUME NEW on \in [Holdings -> BOOLEAN], NEW s \in Holdings
  PROVE  Q!Allows(Q!Closure(on), s) <=> on[s]
BY RuleForms DEF Q!Allows

LEMMA FixedAllow ==
  ASSUME NEW s
  PROVE  Q!Allows(Q!Always, s) /\ ~Q!Allows(Q!Impossible, s)
BY RuleForms DEF Q!Allows

LEMMA AndAllows ==
  ASSUME NEW rules, \A i \in DOMAIN rules : rules[i] \in Rules
  PROVE  /\ Q!CombineAnd(rules) \in Rules
         /\ \A s \in Holdings :
              Q!Allows(Q!CombineAnd(rules), s) <=> \A i \in DOMAIN rules : Q!Allows(rules[i], s)
<1> DEFINE all == [s \in Holdings |-> \A i \in Q!Closures(rules) : rules[i].on[s]]
<1>1. all \in [Holdings -> BOOLEAN]
  BY Zenon
<1>2. \A s \in Holdings : all[s] <=> \A i \in Q!Closures(rules) : rules[i].on[s]
  BY Zenon
<1>3. Q!CombineAnd(rules) = IF \E i \in DOMAIN rules : rules[i].op = "impossible" THEN Q!Impossible
                            ELSE IF Q!Closures(rules) = {} THEN Q!Always
                            ELSE Q!Closure(all)
  BY Zenon DEF Q!CombineAnd
<1> HIDE DEF all
<1>4. CASE \E i \in DOMAIN rules : rules[i].op = "impossible"
  BY <1>3, <1>4, RuleForms, FixedAllow DEF Q!Allows
<1>5. CASE ~(\E i \in DOMAIN rules : rules[i].op = "impossible") /\ Q!Closures(rules) = {}
  BY <1>3, <1>5, RuleForms, FixedAllow DEF Q!Allows, Q!Closures
<1>6. CASE ~(\E i \in DOMAIN rules : rules[i].op = "impossible") /\ Q!Closures(rules) # {}
  <2>1. Q!CombineAnd(rules) = Q!Closure(all)
    BY <1>3, <1>6
  <2>2. ASSUME NEW s \in Holdings
        PROVE  Q!Allows(Q!CombineAnd(rules), s) <=> \A i \in DOMAIN rules : Q!Allows(rules[i], s)
    <3>1. Q!Allows(Q!CombineAnd(rules), s) <=> \A i \in Q!Closures(rules) : rules[i].on[s]
      BY <1>1, <1>2, <2>1, ClosureAllows, Zenon
    <3> QED
      BY <1>6, <3>1, RuleForms DEF Q!Allows, Q!Closures
  <2> QED
    BY <1>1, <2>1, <2>2, RuleForms
<1> QED
  BY <1>4, <1>5, <1>6

LEMMA OrAllows ==
  ASSUME NEW rules, \A i \in DOMAIN rules : rules[i] \in Rules
  PROVE  /\ Q!CombineOr(rules) \in Rules
         /\ \A s \in Holdings :
              Q!Allows(Q!CombineOr(rules), s) <=> \E i \in DOMAIN rules : Q!Allows(rules[i], s)
<1> DEFINE any == [s \in Holdings |-> \E i \in Q!Closures(rules) : rules[i].on[s]]
<1>1. any \in [Holdings -> BOOLEAN]
  BY Zenon
<1>2. \A s \in Holdings : any[s] <=> \E i \in Q!Closures(rules) : rules[i].on[s]
  BY Zenon
<1>3. Q!CombineOr(rules) = IF \E i \in DOMAIN rules : rules[i].op = "none" THEN Q!Always
                           ELSE IF Q!Closures(rules) = {} THEN Q!Impossible
                           ELSE Q!Closure(any)
  BY Zenon DEF Q!CombineOr
<1> HIDE DEF any
<1>4. CASE \E i \in DOMAIN rules : rules[i].op = "none"
  BY <1>3, <1>4, RuleForms, FixedAllow DEF Q!Allows
<1>5. CASE ~(\E i \in DOMAIN rules : rules[i].op = "none") /\ Q!Closures(rules) = {}
  BY <1>3, <1>5, RuleForms, FixedAllow DEF Q!Allows, Q!Closures
<1>6. CASE ~(\E i \in DOMAIN rules : rules[i].op = "none") /\ Q!Closures(rules) # {}
  <2>1. Q!CombineOr(rules) = Q!Closure(any)
    BY <1>3, <1>6
  <2>2. ASSUME NEW s \in Holdings
        PROVE  Q!Allows(Q!CombineOr(rules), s) <=> \E i \in DOMAIN rules : Q!Allows(rules[i], s)
    <3>1. Q!Allows(Q!CombineOr(rules), s) <=> \E i \in Q!Closures(rules) : rules[i].on[s]
      BY <1>1, <1>2, <2>1, ClosureAllows, Zenon
    <3> QED
      BY <1>6, <3>1, RuleForms DEF Q!Allows, Q!Closures
  <2> QED
    BY <1>1, <2>1, <2>2, RuleForms
<1> QED
  BY <1>4, <1>5, <1>6

LEMMA FoldAllows ==
  ASSUME NEW b \in BOOLEAN
  PROVE  Q!Fold(b) \in Rules /\ \A s : Q!Allows(Q!Fold(b), s) <=> b
BY RuleForms, FixedAllow DEF Q!Fold
-----------------------------------------------------------------------------
(* Leaves.                                                                 *)

LEMMA CountsAre ==
  ASSUME NEW s \in Holdings, NEW item \in DOMAIN MaxCount
  PROVE  s.count[item] \in Nat /\ MaxCount[item] \in Nat /\ s.count[item] <= MaxCount[item]
BY ItemsAssumption DEF Holdings

LEMMA HasOneAllows ==
  ASSUME NEW item
  PROVE  /\ Q!HasOne(item) \in Rules
         /\ \A s \in Holdings : Q!Allows(Q!HasOne(item), s) <=> s.count[item] >= 1
<1> DEFINE on == [s \in Holdings |-> s.count[item] >= 1]
<1>0. \A s \in Holdings : (s.count[item] >= 1) \in BOOLEAN
  OBVIOUS
<1>1. on \in [Holdings -> BOOLEAN] /\ \A s \in Holdings : on[s] <=> s.count[item] >= 1
  BY <1>0, Zenon
<1>2. Q!HasOne(item) = Q!Closure(on)
  BY Zenon DEF Q!HasOne
<1> HIDE DEF on
<1> QED
  BY <1>1, <1>2, RuleForms, ClosureAllows

LEMMA EventAllows ==
  ASSUME NEW event
  PROVE  /\ Q!HasEvent(event) \in Rules
         /\ \A s \in Holdings : Q!Allows(Q!HasEvent(event), s) <=> event \in s.events
<1> DEFINE on == [s \in Holdings |-> event \in s.events]
<1>0. \A s \in Holdings : (event \in s.events) \in BOOLEAN
  OBVIOUS
<1>1. on \in [Holdings -> BOOLEAN] /\ \A s \in Holdings : on[s] <=> event \in s.events
  BY <1>0, Zenon
<1>2. Q!HasEvent(event) = Q!Closure(on)
  BY Zenon DEF Q!HasEvent
<1> HIDE DEF on
<1> QED
  BY <1>1, <1>2, RuleForms, ClosureAllows

LEMMA CountAllows ==
  ASSUME NEW item \in DOMAIN MaxCount, NEW amount_ \in Int
  PROVE  /\ Q!CompileCount(item, amount_) \in Rules
         /\ \A s \in Holdings : Q!Allows(Q!CompileCount(item, amount_), s) <=> s.count[item] >= amount_
<1> DEFINE on == [s \in Holdings |-> s.count[item] >= amount_]
<1>0. \A s \in Holdings : (s.count[item] >= amount_) \in BOOLEAN
  OBVIOUS
<1>1. on \in [Holdings -> BOOLEAN] /\ \A s \in Holdings : on[s] <=> s.count[item] >= amount_
  BY <1>0, Zenon
<1>2. Q!CompileCount(item, amount_) = IF amount_ <= 0 THEN Q!Always ELSE Q!Closure(on)
  BY Zenon DEF Q!CompileCount
<1> HIDE DEF on
<1>3. amount_ <= 0 => \A s \in Holdings : s.count[item] >= amount_
  BY CountsAre
<1> QED
  BY <1>1, <1>2, <1>3, RuleForms, ClosureAllows, FixedAllow

LEMMA BoolAllows ==
  ASSUME NEW item \in DOMAIN MaxCount, NEW amount_ \in Int, MaxCount[item] <= 1
  PROVE  /\ Q!CompileBool(item, amount_) \in Rules
         /\ \A s \in Holdings : Q!Allows(Q!CompileBool(item, amount_), s) <=> s.count[item] >= amount_
<1>1. CASE amount_ <= 0
  BY <1>1, CountsAre, RuleForms, FixedAllow DEF Q!CompileBool
<1>2. CASE amount_ > 1
  BY <1>2, CountsAre, RuleForms, FixedAllow DEF Q!CompileBool
<1>3. CASE amount_ = 1
  BY <1>3, HasOneAllows DEF Q!CompileBool
<1> QED
  BY <1>1, <1>2, <1>3

LEMMA ItemMeans ==
  ASSUME NEW t \in Trees, t.type = "item"
  PROVE  /\ Q!CompileItem(t) \in Rules
         /\ \A s \in Holdings : Q!Allows(Q!CompileItem(t), s) <=>
              /\ ~t.negate
              /\ t.name \notin AbsentItems
              /\ s.count[t.name] >= t.amount
<1>1. /\ t.negate \in BOOLEAN /\ t.amount \in Int /\ t.name \in DOMAIN MaxCount
      /\ ItemKind[t.name] \in {"bool", "count", "const"}
      /\ ItemKind[t.name] = "bool"  => MaxCount[t.name] <= 1
      /\ ItemKind[t.name] = "const" => MaxCount[t.name] = 0
  BY TreesAssumption, ItemsAssumption
<1>2. CASE t.negate \/ t.name \in AbsentItems
  <2>1. Q!CompileItem(t) = Q!Impossible
    BY <1>2 DEF Q!CompileItem
  <2> QED
    BY <1>1, <1>2, <2>1, RuleForms, FixedAllow
<1>3. CASE ~(t.negate \/ t.name \in AbsentItems) /\ ItemKind[t.name] = "const"
  <2>1. Q!CompileItem(t) = Q!Fold(0 >= t.amount)
    BY <1>3 DEF Q!CompileItem
  <2>2. \A s \in Holdings : s.count[t.name] = 0
    BY <1>1, <1>3, CountsAre
  <2>3. (0 >= t.amount) \in BOOLEAN
    OBVIOUS
  <2>4. Q!Fold(0 >= t.amount) \in Rules /\ \A s : Q!Allows(Q!Fold(0 >= t.amount), s) <=> 0 >= t.amount
    BY <2>3, FoldAllows, Zenon
  <2> QED
    BY <1>3, <2>1, <2>2, <2>4
<1>4. CASE ~(t.negate \/ t.name \in AbsentItems) /\ ItemKind[t.name] = "bool"
  <2>1. Q!CompileItem(t) = Q!CompileBool(t.name, t.amount)
    BY <1>4 DEF Q!CompileItem
  <2> QED
    BY <1>1, <1>4, <2>1, BoolAllows
<1>5. CASE ~(t.negate \/ t.name \in AbsentItems) /\ ItemKind[t.name] = "count"
  <2>1. Q!CompileItem(t) = Q!CompileCount(t.name, t.amount)
    BY <1>5 DEF Q!CompileItem
  <2> QED
    BY <1>1, <1>5, <2>1, CountAllows
<1> QED
  BY <1>1, <1>2, <1>3, <1>4, <1>5

LEMMA DamageMeans ==
  ASSUME NEW c, NEW t
  PROVE  /\ Q!CompileDamage(c, t) \in Rules
         /\ \A s \in Holdings : Q!Allows(Q!CompileDamage(c, t), s) <=>
              Q!Damage(c, t) <= 0 \/ Q!Survives(c, t.name, Q!Damage(c, t), s)
<1> DEFINE on == [s \in Holdings |-> Q!Survives(c, t.name, Q!Damage(c, t), s)]
<1>1. \A s \in Holdings : Q!Survives(c, t.name, Q!Damage(c, t), s) \in BOOLEAN
  BY DEF Q!Survives
<1>2. on \in [Holdings -> BOOLEAN] /\ \A s \in Holdings : on[s] <=> Q!Survives(c, t.name, Q!Damage(c, t), s)
  BY <1>1, Zenon
<1>3. Q!CompileDamage(c, t) = IF Q!Damage(c, t) <= 0 THEN Q!Always ELSE Q!Closure(on)
  BY Zenon DEF Q!CompileDamage
<1> HIDE DEF on
<1>4. CASE Q!Damage(c, t) <= 0
  BY <1>3, <1>4, RuleForms, FixedAllow, Zenon
<1>5. CASE ~(Q!Damage(c, t) <= 0)
  <2>1. Q!CompileDamage(c, t) = Q!Closure(on) /\ Q!Closure(on) \in Rules
    BY <1>2, <1>3, <1>5, RuleForms, Zenon
  <2>2. \A s \in Holdings : Q!Allows(Q!Closure(on), s) <=> on[s]
    BY <1>2, ClosureAllows, Zenon
  <2> QED
    BY <1>2, <1>5, <2>1, <2>2, Zenon
<1> QED
  BY <1>4, <1>5

LEMMA ResourceMeans ==
  ASSUME NEW c, NEW t \in Trees, t.type \in {"trick", "event", "item", "damage"}
  PROVE  /\ Q!CompileResource(c, t) \in Rules
         /\ \A s \in Holdings : Q!Allows(Q!CompileResource(c, t), s) <=> Q!MeansResource(c, t, s)
<1>1. CASE t.type = "trick"
  <2> DEFINE known == (Q!TrickLevel(c, t.name) >= t.amount) # t.negate
  <2>1. Q!CompileResource(c, t) = Q!Fold(known)
    BY <1>1 DEF Q!CompileResource
  <2>2. \A s : Q!MeansResource(c, t, s) = known
    BY <1>1 DEF Q!MeansResource
  <2>3. known \in BOOLEAN
    OBVIOUS
  <2> HIDE DEF known
  <2> QED
    BY <2>1, <2>2, <2>3, FoldAllows, Zenon
<1>2. CASE t.type = "event"
  <2>1. Q!CompileResource(c, t) = Q!CompileEvent(t)
    BY <1>2 DEF Q!CompileResource
  <2>2. \A s : Q!MeansResource(c, t, s) <=> t.negate \/ t.name \in Pregranted \cup s.events
    BY <1>2 DEF Q!MeansResource
  <2>3. t.negate \in BOOLEAN
    BY <1>2, TreesAssumption
  <2>4. CASE t.negate \/ t.name \in Pregranted
    <3>1. Q!CompileEvent(t) = Q!Always
      BY <2>4 DEF Q!CompileEvent
    <3> QED
      BY <2>1, <2>2, <2>3, <2>4, <3>1, RuleForms, FixedAllow
  <2>5. CASE ~(t.negate \/ t.name \in Pregranted)
    <3>1. Q!CompileEvent(t) = Q!HasEvent(t.name)
      BY <2>5 DEF Q!CompileEvent
    <3> QED
      BY <2>1, <2>2, <2>3, <2>5, <3>1, EventAllows
  <2> QED
    BY <2>4, <2>5
<1>3. CASE t.type = "item"
  <2>1. Q!CompileResource(c, t) = Q!CompileItem(t)
    BY <1>3 DEF Q!CompileResource
  <2>2. \A s : Q!MeansResource(c, t, s) <=>
          ~t.negate /\ t.name \notin AbsentItems /\ s.count[t.name] >= t.amount
    BY <1>3 DEF Q!MeansResource
  <2> QED
    BY <1>3, <2>1, <2>2, ItemMeans, Zenon
<1>4. CASE t.type = "damage"
  <2>1. Q!CompileResource(c, t) = Q!CompileDamage(c, t)
    BY <1>4 DEF Q!CompileResource
  <2>2. \A s : Q!MeansResource(c, t, s) <=>
          Q!Damage(c, t) <= 0 \/ Q!Survives(c, t.name, Q!Damage(c, t), s)
    BY <1>4 DEF Q!MeansResource
  <2> QED
    BY <2>1, <2>2, DamageMeans, Zenon
<1> QED
  BY <1>1, <1>2, <1>3, <1>4
-----------------------------------------------------------------------------
(* Nodes: what each function on trees is at a tree, by what it is below.   *)

Parts(t, f) == [i \in DOMAIN t.items |-> f[t.items[i]]]

LEMMA CompileNodeKind ==
  ASSUME NEW c, NEW t \in Trees, NEW f
  PROVE  /\ t.type = "null" => Q!CompileNode(c, t, f) = Q!Always
         /\ t.type = "and" => Q!CompileNode(c, t, f) = Q!CombineAnd(Parts(t, f))
         /\ t.type = "or" => Q!CompileNode(c, t, f) = Q!CombineOr(Parts(t, f))
         /\ t.type = "template" => Q!CompileNode(c, t, f) = f[Templates[t.name]]
         /\ t.type \in {"trick", "event", "item", "damage"} =>
              Q!CompileNode(c, t, f) = Q!CompileResource(c, t)
BY DEF Q!CompileNode, Parts

LEMMA CompileNodeLocal ==
  ASSUME NEW c, NEW t \in Trees, NEW f, NEW g, \A s \in Below(t) : f[s] = g[s]
  PROVE  Q!CompileNode(c, t, f) = Q!CompileNode(c, t, g)
<1>1. CASE t.type = "and" \/ t.type = "or"
  <2>1. \A i \in DOMAIN t.items : f[t.items[i]] = g[t.items[i]]
    BY <1>1, PartsBelow
  <2>2. Parts(t, f) = Parts(t, g)
    BY <2>1 DEF Parts
  <2> QED
    BY <1>1, <2>2, CompileNodeKind
<1>2. CASE t.type = "template"
  <2>1. f[Templates[t.name]] = g[Templates[t.name]]
    BY <1>2, PartsBelow
  <2> QED
    BY <1>2, <2>1, CompileNodeKind, Zenon
<1>3. CASE t.type = "null"
  BY <1>3, CompileNodeKind, Zenon
<1>4. CASE t.type \in {"trick", "event", "item", "damage"}
  BY <1>4, CompileNodeKind, Zenon
<1> QED
  BY <1>1, <1>2, <1>3, <1>4, PartsBelow

LEMMA CompileNodeType ==
  ASSUME NEW c, NEW t \in Trees, NEW f, \A s \in Below(t) : f[s] \in Rules
  PROVE  Q!CompileNode(c, t, f) \in Rules
<1>1. CASE t.type = "and" \/ t.type = "or"
  <2> DEFINE rules == Parts(t, f)
  <2>1. \A i \in DOMAIN rules : rules[i] \in Rules
    BY <1>1, PartsBelow DEF Parts
  <2>2. Q!CombineAnd(rules) \in Rules /\ Q!CombineOr(rules) \in Rules
    <3> HIDE DEF rules
    <3> QED
      BY <2>1, AndAllows, OrAllows, Zenon
  <2> QED
    BY <1>1, <2>2, CompileNodeKind
<1>2. CASE t.type = "template"
  <2>1. f[Templates[t.name]] \in Rules
    BY <1>2, PartsBelow
  <2> QED
    BY <1>2, <2>1, CompileNodeKind, Zenon
<1>3. CASE t.type = "null"
  <2>1. Q!CompileNode(c, t, f) = Q!Always
    BY <1>3, CompileNodeKind, Zenon
  <2> QED
    BY <2>1, RuleForms
<1>4. CASE t.type \in {"trick", "event", "item", "damage"}
  <2>1. Q!CompileNode(c, t, f) = Q!CompileResource(c, t)
    BY <1>4, CompileNodeKind, Zenon
  <2> QED
    BY <1>4, <2>1, ResourceMeans
<1> QED
  BY <1>1, <1>2, <1>3, <1>4, PartsBelow

LEMMA CompilerIs ==
  ASSUME NEW c
  PROVE  /\ Q!Compiler(c) \in [Trees -> Rules]
         /\ \A t \in Trees : Q!Compiler(c)[t] = Q!CompileNode(c, t, Q!Compiler(c))
<1> DEFINE F    == [Trees -> Rules]
           node == [p \in Trees \X F |-> Q!CompileNode(c, p[1], p[2])]
           Is(f) == f = [t \in Trees |-> Q!CompileNode(c, t, f)]
<1>1. \A t \in Trees, f \in F : <<t, f>> \in Trees \X F /\ node[<<t, f>>] = Q!CompileNode(c, t, f)
  OBVIOUS
<1>2. node \in [Trees \X F -> Rules]
  <2>1. ASSUME NEW p \in Trees \X F PROVE Q!CompileNode(c, p[1], p[2]) \in Rules
    <3>1. p[1] \in Trees /\ \A s \in Below(p[1]) : p[2][s] \in Rules
      BY DEF Below
    <3> QED
      BY <3>1, CompileNodeType
  <2> QED
    BY <2>1
<1>3. ASSUME NEW t \in Trees, NEW f \in F, NEW g \in F, \A s \in Below(t) : f[s] = g[s]
      PROVE  node[<<t, f>>] = node[<<t, g>>]
  BY <1>1, <1>3, CompileNodeLocal
<1> HIDE DEF node
<1>4. PICK f \in F : \A t \in Trees : f[t] = node[<<t, f>>]
  <2>1. \A t \in Trees : \A f, g \in [Trees -> Rules] :
          (\A s \in Below(t) : f[s] = g[s]) => node[<<t, f>>] = node[<<t, g>>]
    BY <1>3, Zenon
  <2>2. Recurs(node, Rules)
    BY <1>2, <2>1 DEF Recurs
  <2>3. \E f \in [Trees -> Rules] : Solves(f, node)
    BY <2>2, RuleForms, TreeRecursion
  <2> QED
    BY <2>3 DEF Solves
<1>5. Is(f)
  BY <1>1, <1>4
<1>6. Q!Compiler(c) = CHOOSE g : Is(g)
  BY Zenon DEF Q!Compiler
<1> HIDE DEF Is
<1>7. Is(Q!Compiler(c))
  BY <1>5, <1>6, Zenon
<1>8. ASSUME NEW g, Is(g) PROVE g = f
  <2>1. g = [t \in Trees |-> Q!CompileNode(c, t, g)] /\ f = [t \in Trees |-> Q!CompileNode(c, t, f)]
    BY <1>5, <1>8, Zenon DEF Is
  <2> DEFINE same == {t \in Trees : g[t] = f[t]}
  <2>2. ASSUME NEW t \in Trees, Below(t) \subseteq same PROVE t \in same
    <3>1. \A s \in Below(t) : g[s] = f[s]
      BY <2>2
    <3>2. Q!CompileNode(c, t, g) = Q!CompileNode(c, t, f)
      BY <3>1, CompileNodeLocal, Zenon
    <3>3. g[t] = Q!CompileNode(c, t, g) /\ f[t] = Q!CompileNode(c, t, f)
      BY <2>1, Zenon
    <3> QED
      BY <3>2, <3>3
  <2>3. \A t \in Trees : g[t] = f[t]
    <3> HIDE DEF same
    <3>1. \A t \in Trees : t \in same
      BY <2>2, TreeInduction
    <3> QED
      BY <3>1 DEF same
  <2>4. \A t \in Trees : Q!CompileNode(c, t, g) = Q!CompileNode(c, t, f)
    BY <2>1, <2>3, Zenon
  <2> QED
    BY <2>1, <2>4
<1>9. Q!Compiler(c) = f
  BY <1>7, <1>8, Zenon
<1> QED
  BY <1>1, <1>4, <1>9
-----------------------------------------------------------------------------
(* The same of what a tree means, what the coarse sweep passes and which   *)
(* trees are plain.                                                        *)

LEMMA MeansNodeLocal ==
  ASSUME NEW c, NEW x, NEW t \in Trees, NEW f, NEW g, \A s \in Below(t) : f[s] = g[s]
  PROVE  Q!MeansNode(c, t, x, f) = Q!MeansNode(c, t, x, g)
<1>1. CASE t.type = "and" \/ t.type = "or"
  <2>1. \A i \in DOMAIN t.items : f[t.items[i]] = g[t.items[i]]
    BY <1>1, PartsBelow
  <2> QED
    BY <1>1, <2>1 DEF Q!MeansNode
<1>2. CASE t.type = "template"
  <2>1. f[Templates[t.name]] = g[Templates[t.name]]
    BY <1>2, PartsBelow
  <2> QED
    BY <1>2, <2>1 DEF Q!MeansNode
<1>3. CASE t.type \notin {"and", "or", "template"}
  BY <1>3 DEF Q!MeansNode
<1> QED
  BY <1>1, <1>2, <1>3

LEMMA MeansNodeType ==
  ASSUME NEW c, NEW x, NEW t \in Trees, NEW f, \A s \in Below(t) : f[s] \in BOOLEAN
  PROVE  Q!MeansNode(c, t, x, f) \in BOOLEAN
<1>1. CASE t.type = "and" \/ t.type = "or"
  BY <1>1 DEF Q!MeansNode
<1>2. CASE t.type = "template"
  <2>1. f[Templates[t.name]] \in BOOLEAN
    BY <1>2, PartsBelow
  <2> QED
    BY <1>2, <2>1 DEF Q!MeansNode
<1>3. CASE t.type = "null"
  BY <1>3 DEF Q!MeansNode
<1>4. CASE t.type \in {"trick", "event", "item", "damage"}
  BY <1>4 DEF Q!MeansNode, Q!MeansResource, Q!Survives
<1> QED
  BY <1>1, <1>2, <1>3, <1>4, PartsBelow

LEMMA MeaningIs ==
  ASSUME NEW c, NEW x
  PROVE  /\ Q!Meaning(c, x) \in [Trees -> BOOLEAN]
         /\ \A t \in Trees : Q!Meaning(c, x)[t] = Q!MeansNode(c, t, x, Q!Meaning(c, x))
<1> DEFINE F    == [Trees -> BOOLEAN]
           node == [p \in Trees \X F |-> Q!MeansNode(c, p[1], x, p[2])]
           Is(f) == f = [t \in Trees |-> Q!MeansNode(c, t, x, f)]
<1>1. \A t \in Trees, f \in F : <<t, f>> \in Trees \X F /\ node[<<t, f>>] = Q!MeansNode(c, t, x, f)
  OBVIOUS
<1>2. node \in [Trees \X F -> BOOLEAN]
  <2>1. ASSUME NEW p \in Trees \X F PROVE Q!MeansNode(c, p[1], x, p[2]) \in BOOLEAN
    <3>1. p[1] \in Trees /\ \A s \in Below(p[1]) : p[2][s] \in BOOLEAN
      BY DEF Below
    <3> QED
      BY <3>1, MeansNodeType
  <2> QED
    BY <2>1
<1>3. ASSUME NEW t \in Trees, NEW f \in F, NEW g \in F, \A s \in Below(t) : f[s] = g[s]
      PROVE  node[<<t, f>>] = node[<<t, g>>]
  BY <1>1, <1>3, MeansNodeLocal
<1> HIDE DEF node
<1>4. PICK f \in F : \A t \in Trees : f[t] = node[<<t, f>>]
  <2>1. \A t \in Trees : \A f, g \in [Trees -> BOOLEAN] :
          (\A s \in Below(t) : f[s] = g[s]) => node[<<t, f>>] = node[<<t, g>>]
    BY <1>3, Zenon
  <2>2. Recurs(node, BOOLEAN)
    BY <1>2, <2>1 DEF Recurs
  <2>3. \E f \in [Trees -> BOOLEAN] : Solves(f, node)
    BY <2>2, TreeRecursion
  <2> QED
    BY <2>3 DEF Solves
<1>5. Is(f)
  BY <1>1, <1>4
<1>6. Q!Meaning(c, x) = CHOOSE g : Is(g)
  BY Zenon DEF Q!Meaning
<1> HIDE DEF Is
<1>7. Is(Q!Meaning(c, x))
  BY <1>5, <1>6, Zenon
<1>8. ASSUME NEW g, Is(g) PROVE g = f
  <2>1. g = [t \in Trees |-> Q!MeansNode(c, t, x, g)] /\ f = [t \in Trees |-> Q!MeansNode(c, t, x, f)]
    BY <1>5, <1>8, Zenon DEF Is
  <2> DEFINE same == {t \in Trees : g[t] = f[t]}
  <2>2. ASSUME NEW t \in Trees, Below(t) \subseteq same PROVE t \in same
    <3>1. \A s \in Below(t) : g[s] = f[s]
      BY <2>2
    <3>2. Q!MeansNode(c, t, x, g) = Q!MeansNode(c, t, x, f)
      BY <3>1, MeansNodeLocal
    <3>3. g[t] = Q!MeansNode(c, t, x, g) /\ f[t] = Q!MeansNode(c, t, x, f)
      BY <2>1, Zenon
    <3> QED
      BY <3>2, <3>3
  <2>3. \A t \in Trees : g[t] = f[t]
    <3> HIDE DEF same
    <3>1. \A t \in Trees : t \in same
      BY <2>2, TreeInduction
    <3> QED
      BY <3>1 DEF same
  <2>4. \A t \in Trees : Q!MeansNode(c, t, x, g) = Q!MeansNode(c, t, x, f)
    BY <2>1, <2>3, Zenon
  <2> QED
    BY <2>1, <2>4
<1>9. Q!Meaning(c, x) = f
  BY <1>7, <1>8, Zenon
<1> QED
  BY <1>1, <1>4, <1>9

LEMMA AllowsNodeLocal ==
  ASSUME NEW x, NEW t \in Trees, NEW f, NEW g, \A s \in Below(t) : f[s] = g[s]
  PROVE  Q!AllowsNode(t, x, f) = Q!AllowsNode(t, x, g)
<1>1. CASE t.type = "and" \/ t.type = "or"
  <2>1. \A i \in DOMAIN t.items : f[t.items[i]] = g[t.items[i]]
    BY <1>1, PartsBelow
  <2> QED
    BY <1>1, <2>1 DEF Q!AllowsNode
<1>2. CASE t.type = "template"
  <2>1. f[Templates[t.name]] = g[Templates[t.name]]
    BY <1>2, PartsBelow
  <2> QED
    BY <1>2, <2>1 DEF Q!AllowsNode
<1>3. CASE t.type \notin {"and", "or", "template"}
  BY <1>3 DEF Q!AllowsNode
<1> QED
  BY <1>1, <1>2, <1>3

LEMMA AllowsNodeType ==
  ASSUME NEW x, NEW t \in Trees, NEW f, \A s \in Below(t) : f[s] \in BOOLEAN
  PROVE  Q!AllowsNode(t, x, f) \in BOOLEAN
<1>1. CASE t.type = "and" \/ t.type = "or"
  BY <1>1 DEF Q!AllowsNode
<1>2. CASE t.type = "template"
  <2>1. f[Templates[t.name]] \in BOOLEAN
    BY <1>2, PartsBelow
  <2> QED
    BY <1>2, <2>1 DEF Q!AllowsNode
<1>3. CASE t.type = "null"
  BY <1>3 DEF Q!AllowsNode
<1>4. CASE t.type \in {"trick", "event", "item", "damage"}
  BY <1>4 DEF Q!AllowsNode
<1> QED
  BY <1>1, <1>2, <1>3, <1>4, PartsBelow

LEMMA CoarseIs ==
  ASSUME NEW x
  PROVE  /\ Q!CoarseSweep(x) \in [Trees -> BOOLEAN]
         /\ \A t \in Trees : Q!CoarseSweep(x)[t] = Q!AllowsNode(t, x, Q!CoarseSweep(x))
<1> DEFINE F    == [Trees -> BOOLEAN]
           node == [p \in Trees \X F |-> Q!AllowsNode(p[1], x, p[2])]
           Is(f) == f = [t \in Trees |-> Q!AllowsNode(t, x, f)]
<1>1. \A t \in Trees, f \in F : <<t, f>> \in Trees \X F /\ node[<<t, f>>] = Q!AllowsNode(t, x, f)
  OBVIOUS
<1>2. node \in [Trees \X F -> BOOLEAN]
  <2>1. ASSUME NEW p \in Trees \X F PROVE Q!AllowsNode(p[1], x, p[2]) \in BOOLEAN
    <3>1. p[1] \in Trees /\ \A s \in Below(p[1]) : p[2][s] \in BOOLEAN
      BY DEF Below
    <3> QED
      BY <3>1, AllowsNodeType
  <2> QED
    BY <2>1
<1>3. ASSUME NEW t \in Trees, NEW f \in F, NEW g \in F, \A s \in Below(t) : f[s] = g[s]
      PROVE  node[<<t, f>>] = node[<<t, g>>]
  BY <1>1, <1>3, AllowsNodeLocal
<1> HIDE DEF node
<1>4. PICK f \in F : \A t \in Trees : f[t] = node[<<t, f>>]
  <2>1. \A t \in Trees : \A f, g \in [Trees -> BOOLEAN] :
          (\A s \in Below(t) : f[s] = g[s]) => node[<<t, f>>] = node[<<t, g>>]
    BY <1>3, Zenon
  <2>2. Recurs(node, BOOLEAN)
    BY <1>2, <2>1 DEF Recurs
  <2>3. \E f \in [Trees -> BOOLEAN] : Solves(f, node)
    BY <2>2, TreeRecursion
  <2> QED
    BY <2>3 DEF Solves
<1>5. Is(f)
  BY <1>1, <1>4
<1>6. Q!CoarseSweep(x) = CHOOSE g : Is(g)
  BY Zenon DEF Q!CoarseSweep
<1> HIDE DEF Is
<1>7. Is(Q!CoarseSweep(x))
  BY <1>5, <1>6, Zenon
<1>8. ASSUME NEW g, Is(g) PROVE g = f
  <2>1. g = [t \in Trees |-> Q!AllowsNode(t, x, g)] /\ f = [t \in Trees |-> Q!AllowsNode(t, x, f)]
    BY <1>5, <1>8, Zenon DEF Is
  <2> DEFINE same == {t \in Trees : g[t] = f[t]}
  <2>2. ASSUME NEW t \in Trees, Below(t) \subseteq same PROVE t \in same
    <3>1. \A s \in Below(t) : g[s] = f[s]
      BY <2>2
    <3>2. Q!AllowsNode(t, x, g) = Q!AllowsNode(t, x, f)
      BY <3>1, AllowsNodeLocal
    <3>3. g[t] = Q!AllowsNode(t, x, g) /\ f[t] = Q!AllowsNode(t, x, f)
      BY <2>1, Zenon
    <3> QED
      BY <3>2, <3>3
  <2>3. \A t \in Trees : g[t] = f[t]
    <3> HIDE DEF same
    <3>1. \A t \in Trees : t \in same
      BY <2>2, TreeInduction
    <3> QED
      BY <3>1 DEF same
  <2>4. \A t \in Trees : Q!AllowsNode(t, x, g) = Q!AllowsNode(t, x, f)
    BY <2>1, <2>3, Zenon
  <2> QED
    BY <2>1, <2>4
<1>9. Q!CoarseSweep(x) = f
  BY <1>7, <1>8, Zenon
<1> QED
  BY <1>1, <1>4, <1>9

LEMMA PlainNodeLocal ==
  ASSUME NEW t \in Trees, NEW f, NEW g, \A s \in Below(t) : f[s] = g[s]
  PROVE  Q!PlainNode(t, f) = Q!PlainNode(t, g)
<1>1. CASE t.type = "and" \/ t.type = "or"
  <2>1. \A i \in DOMAIN t.items : f[t.items[i]] = g[t.items[i]]
    BY <1>1, PartsBelow
  <2> QED
    BY <1>1, <2>1 DEF Q!PlainNode
<1>2. CASE t.type = "template"
  <2>1. f[Templates[t.name]] = g[Templates[t.name]]
    BY <1>2, PartsBelow
  <2> QED
    BY <1>2, <2>1 DEF Q!PlainNode
<1>3. CASE t.type \notin {"and", "or", "template"}
  BY <1>3 DEF Q!PlainNode
<1> QED
  BY <1>1, <1>2, <1>3

LEMMA PlainNodeType ==
  ASSUME NEW t \in Trees, NEW f, \A s \in Below(t) : f[s] \in BOOLEAN
  PROVE  Q!PlainNode(t, f) \in BOOLEAN
<1>1. CASE t.type = "and" \/ t.type = "or"
  BY <1>1 DEF Q!PlainNode
<1>2. CASE t.type = "template"
  <2>1. f[Templates[t.name]] \in BOOLEAN
    BY <1>2, PartsBelow
  <2> QED
    BY <1>2, <2>1 DEF Q!PlainNode
<1>3. CASE t.type = "null"
  BY <1>3 DEF Q!PlainNode
<1>4. CASE t.type \in {"trick", "event", "item", "damage"}
  BY <1>4 DEF Q!PlainNode
<1> QED
  BY <1>1, <1>2, <1>3, <1>4, PartsBelow

LEMMA PlainIs ==
  /\ Q!Plain \in [Trees -> BOOLEAN]
  /\ \A t \in Trees : Q!Plain[t] = Q!PlainNode(t, Q!Plain)
<1> DEFINE F    == [Trees -> BOOLEAN]
           node == [p \in Trees \X F |-> Q!PlainNode(p[1], p[2])]
           Is(f) == f = [t \in Trees |-> Q!PlainNode(t, f)]
<1>1. \A t \in Trees, f \in F : <<t, f>> \in Trees \X F /\ node[<<t, f>>] = Q!PlainNode(t, f)
  OBVIOUS
<1>2. node \in [Trees \X F -> BOOLEAN]
  <2>1. ASSUME NEW p \in Trees \X F PROVE Q!PlainNode(p[1], p[2]) \in BOOLEAN
    <3>1. p[1] \in Trees /\ \A s \in Below(p[1]) : p[2][s] \in BOOLEAN
      BY DEF Below
    <3> QED
      BY <3>1, PlainNodeType
  <2> QED
    BY <2>1
<1>3. ASSUME NEW t \in Trees, NEW f \in F, NEW g \in F, \A s \in Below(t) : f[s] = g[s]
      PROVE  node[<<t, f>>] = node[<<t, g>>]
  BY <1>1, <1>3, PlainNodeLocal
<1> HIDE DEF node
<1>4. PICK f \in F : \A t \in Trees : f[t] = node[<<t, f>>]
  <2>1. \A t \in Trees : \A f, g \in [Trees -> BOOLEAN] :
          (\A s \in Below(t) : f[s] = g[s]) => node[<<t, f>>] = node[<<t, g>>]
    BY <1>3, Zenon
  <2>2. Recurs(node, BOOLEAN)
    BY <1>2, <2>1 DEF Recurs
  <2>3. \E f \in [Trees -> BOOLEAN] : Solves(f, node)
    BY <2>2, TreeRecursion
  <2> QED
    BY <2>3 DEF Solves
<1>5. Is(f)
  BY <1>1, <1>4
<1>6. Q!Plain = CHOOSE g : Is(g)
  BY Zenon DEF Q!Plain
<1> HIDE DEF Is
<1>7. Is(Q!Plain)
  BY <1>5, <1>6, Zenon
<1>8. ASSUME NEW g, Is(g) PROVE g = f
  <2>1. g = [t \in Trees |-> Q!PlainNode(t, g)] /\ f = [t \in Trees |-> Q!PlainNode(t, f)]
    BY <1>5, <1>8, Zenon DEF Is
  <2> DEFINE same == {t \in Trees : g[t] = f[t]}
  <2>2. ASSUME NEW t \in Trees, Below(t) \subseteq same PROVE t \in same
    <3>1. \A s \in Below(t) : g[s] = f[s]
      BY <2>2
    <3>2. Q!PlainNode(t, g) = Q!PlainNode(t, f)
      BY <3>1, PlainNodeLocal
    <3>3. g[t] = Q!PlainNode(t, g) /\ f[t] = Q!PlainNode(t, f)
      BY <2>1, Zenon
    <3> QED
      BY <3>2, <3>3
  <2>3. \A t \in Trees : g[t] = f[t]
    <3> HIDE DEF same
    <3>1. \A t \in Trees : t \in same
      BY <2>2, TreeInduction
    <3> QED
      BY <3>1 DEF same
  <2>4. \A t \in Trees : Q!PlainNode(t, g) = Q!PlainNode(t, f)
    BY <2>1, <2>3, Zenon
  <2> QED
    BY <2>1, <2>4
<1>9. Q!Plain = f
  BY <1>7, <1>8, Zenon
<1> QED
  BY <1>1, <1>4, <1>9

-----------------------------------------------------------------------------
(* The three readings.                                                     *)

\* The compiled rule allows in the states the tree means.
LEMMA CompiledMeans ==
  ASSUME NEW c, NEW x \in Holdings
  PROVE  \A t \in Trees : Q!Allows(Q!Compiler(c)[t], x) <=> Q!Meaning(c, x)[t]
<1> DEFINE C  == Q!Compiler(c)
           M  == Q!Meaning(c, x)
           ok == {t \in Trees : Q!Allows(C[t], x) <=> M[t]}
<1>1. /\ \A t \in Trees : C[t] \in Rules /\ C[t] = Q!CompileNode(c, t, C)
      /\ \A t \in Trees : M[t] \in BOOLEAN /\ M[t] = Q!MeansNode(c, t, x, M)
  BY CompilerIs, MeaningIs
<1> HIDE DEF C, M
<1>2. ASSUME NEW t \in Trees, Below(t) \subseteq ok PROVE Q!Allows(C[t], x) <=> M[t]
  <2>1. CASE t.type = "and" \/ t.type = "or"
    <3> DEFINE rules == Parts(t, C)
    <3>1. \A i \in DOMAIN t.items : t.items[i] \in Trees /\ (Q!Allows(C[t.items[i]], x) <=> M[t.items[i]])
      BY <1>2, <2>1, PartsBelow
    <3>2. DOMAIN rules = DOMAIN t.items /\ \A i \in DOMAIN t.items : rules[i] = C[t.items[i]]
      BY DEF Parts
    <3> HIDE DEF rules
    <3>3. \A i \in DOMAIN rules : rules[i] \in Rules
      BY <1>1, <3>1, <3>2
    <3>4. CASE t.type = "and"
      <4>1. C[t] = Q!CombineAnd(rules)
        BY <1>1, <3>4, CompileNodeKind DEF rules
      <4>2. M[t] <=> \A i \in DOMAIN t.items : M[t.items[i]]
        BY <1>1, <3>4 DEF Q!MeansNode
      <4>3. Q!Allows(Q!CombineAnd(rules), x) <=> \A i \in DOMAIN rules : Q!Allows(rules[i], x)
        BY <3>3, AndAllows
      <4> QED
        BY <3>1, <3>2, <4>1, <4>2, <4>3
    <3>5. CASE t.type = "or"
      <4>1. C[t] = Q!CombineOr(rules)
        BY <1>1, <3>5, CompileNodeKind DEF rules
      <4>2. M[t] <=> \E i \in DOMAIN t.items : M[t.items[i]]
        BY <1>1, <3>5 DEF Q!MeansNode
      <4>3. Q!Allows(Q!CombineOr(rules), x) <=> \E i \in DOMAIN rules : Q!Allows(rules[i], x)
        BY <3>3, OrAllows
      <4> QED
        BY <3>1, <3>2, <4>1, <4>2, <4>3
    <3> QED
      BY <2>1, <3>4, <3>5
  <2>2. CASE t.type = "template"
    <3>1. Templates[t.name] \in Trees /\ (Q!Allows(C[Templates[t.name]], x) <=> M[Templates[t.name]])
      BY <1>2, <2>2, PartsBelow
    <3>2. C[t] = C[Templates[t.name]]
      BY <1>1, <2>2, CompileNodeKind
    <3>3. M[t] = M[Templates[t.name]]
      BY <1>1, <2>2 DEF Q!MeansNode
    <3> QED
      BY <3>1, <3>2, <3>3
  <2>3. CASE t.type = "null"
    <3>1. C[t] = Q!Always
      BY <1>1, <2>3, CompileNodeKind
    <3>2. M[t]
      BY <1>1, <2>3 DEF Q!MeansNode
    <3> QED
      BY <3>1, <3>2, FixedAllow
  <2>4. CASE t.type \in {"trick", "event", "item", "damage"}
    <3>1. C[t] = Q!CompileResource(c, t)
      BY <1>1, <2>4, CompileNodeKind
    <3>2. M[t] = Q!MeansResource(c, t, x)
      BY <1>1, <2>4 DEF Q!MeansNode
    <3> QED
      BY <2>4, <3>1, <3>2, ResourceMeans
  <2> QED
    BY <2>1, <2>2, <2>3, <2>4, PartsBelow
<1>3. \A t \in Trees : t \in ok
  <2>1. ASSUME NEW t \in Trees, Below(t) \subseteq ok PROVE t \in ok
    BY <1>2, <2>1
  <2> HIDE DEF ok
  <2> QED
    BY <2>1, TreeInduction
<1> QED
  BY <1>3 DEF C, M

\* Where its events are plain, the coarse sweep passes what the tree means.
LEMMA CoarsePasses ==
  ASSUME NEW c, NEW x \in Holdings
  PROVE  \A t \in Trees : Q!Plain[t] /\ Q!Meaning(c, x)[t] => Q!CoarseSweep(x.events)[t]
<1> DEFINE M  == Q!Meaning(c, x)
           P_ == Q!Plain
           A  == Q!CoarseSweep(x.events)
           ok == {t \in Trees : P_[t] /\ M[t] => A[t]}
<1>1. \A t \in Trees : /\ M[t] \in BOOLEAN /\ M[t] = Q!MeansNode(c, t, x, M)
                       /\ P_[t] \in BOOLEAN /\ P_[t] = Q!PlainNode(t, P_)
                       /\ A[t] \in BOOLEAN /\ A[t] = Q!AllowsNode(t, x.events, A)
  BY MeaningIs, CoarseIs, PlainIs
<1> HIDE DEF M, P_, A
<1>2. ASSUME NEW t \in Trees, Below(t) \subseteq ok, P_[t], M[t] PROVE A[t]
  <2>1. CASE t.type = "and" \/ t.type = "or"
    <3>1. \A i \in DOMAIN t.items : P_[t.items[i]] /\ M[t.items[i]] => A[t.items[i]]
      BY <1>2, <2>1, PartsBelow
    <3>2. \A i \in DOMAIN t.items : P_[t.items[i]]
      BY <1>1, <1>2, <2>1 DEF Q!PlainNode
    <3>3. CASE t.type = "and"
      <4>1. \A i \in DOMAIN t.items : M[t.items[i]]
        BY <1>1, <1>2, <3>3 DEF Q!MeansNode
      <4>2. A[t] <=> \A i \in DOMAIN t.items : A[t.items[i]]
        BY <1>1, <3>3 DEF Q!AllowsNode
      <4> QED
        BY <3>1, <3>2, <4>1, <4>2
    <3>4. CASE t.type = "or"
      <4>1. \E i \in DOMAIN t.items : M[t.items[i]]
        BY <1>1, <1>2, <3>4 DEF Q!MeansNode
      <4>2. A[t] <=> \E i \in DOMAIN t.items : A[t.items[i]]
        BY <1>1, <3>4 DEF Q!AllowsNode
      <4> QED
        BY <3>1, <3>2, <4>1, <4>2
    <3> QED
      BY <2>1, <3>3, <3>4
  <2>2. CASE t.type = "template"
    <3> DEFINE body == Templates[t.name]
    <3>1. P_[body] /\ M[body] => A[body]
      BY <1>2, <2>2, PartsBelow
    <3>2. P_[t] = P_[body]
      BY <1>1, <2>2 DEF Q!PlainNode
    <3>3. M[t] = M[body]
      BY <1>1, <2>2 DEF Q!MeansNode
    <3>4. A[t] = A[body]
      BY <1>1, <2>2 DEF Q!AllowsNode
    <3> QED
      BY <1>2, <3>1, <3>2, <3>3, <3>4
  <2>3. CASE t.type = "event"
    <3>1. ~t.negate /\ t.name \notin Pregranted
      BY <1>1, <1>2, <2>3 DEF Q!PlainNode
    <3>2. t.negate \/ t.name \in Pregranted \cup x.events
      BY <1>1, <1>2, <2>3 DEF Q!MeansNode, Q!MeansResource
    <3>3. A[t] = ((t.name \in x.events) # t.negate)
      BY <1>1, <2>3 DEF Q!AllowsNode
    <3>4. t.negate \in BOOLEAN
      BY <2>3, TreesAssumption
    <3> QED
      BY <3>1, <3>2, <3>3, <3>4
  <2>4. CASE t.type \in {"null", "trick", "item", "damage"}
    BY <1>1, <2>4 DEF Q!AllowsNode
  <2> QED
    BY <2>1, <2>2, <2>3, <2>4, PartsBelow
<1>3. \A t \in Trees : t \in ok
  <2>1. ASSUME NEW t \in Trees, Below(t) \subseteq ok PROVE t \in ok
    BY <1>2, <2>1
  <2> HIDE DEF ok
  <2> QED
    BY <2>1, TreeInduction
<1> QED
  BY <1>3 DEF M, P_, A

-----------------------------------------------------------------------------
(* More items or events never close a requirement.                         *)

Within(x, y) ==
  /\ \A item \in DOMAIN MaxCount : x.count[item] <= y.count[item]
  /\ x.events \subseteq y.events

LEMMA MultipliersGrow ==
  ASSUME NEW c \in Contexts, NEW t \in Trees, t.type = "damage",
         NEW x \in Holdings, NEW y \in Holdings, Within(x, y)
  PROVE  /\ Q!Multipliers(c, t.name, x) \in SUBSET Nat
         /\ Q!Multipliers(c, t.name, x) \subseteq Q!Multipliers(c, t.name, y)
         /\ Q!Multipliers(c, t.name, x) = {} => \A m \in Q!Multipliers(c, t.name, y) : m <= 60
<1> DEFINE known == IF t.name = "DarkWorld1"
                    THEN {[item |-> "none", mult |-> c.darkAether],
                          [item |-> "DarkSuit", mult |-> c.darkSuit],
                          [item |-> "LightSuit", mult |-> 0]}
                    ELSE Reductions[t.name]
           held_(s) == {r \in known : r.item = "none" \/ s.count[r.item] >= 1}
<1>1. \A s : Q!Multipliers(c, t.name, s) = {r.mult : r \in held_(s)}
  BY DEF Q!Multipliers
<1>2. \A r \in known : r.mult \in Nat /\ (t.name # "DarkWorld1" => r.mult <= 60)
                       /\ (r.item # "none" => r.item \in DOMAIN MaxCount)
  BY DamageAssumption
<1>3. t.name = "DarkWorld1" => \E r \in known : r.item = "none"
  OBVIOUS
<1> HIDE DEF known
<1>4. held_(x) \subseteq held_(y)
  <2>1. ASSUME NEW r \in known, r.item # "none", x.count[r.item] >= 1 PROVE y.count[r.item] >= 1
    <3>1. x.count[r.item] \in Nat /\ y.count[r.item] \in Nat /\ x.count[r.item] <= y.count[r.item]
      BY <1>2, <2>1, CountsAre DEF Within
    <3> QED
      BY <2>1, <3>1
  <2> QED
    BY <2>1
<1> DEFINE hx == held_(x)
           hy == held_(y)
<1>5. hx \subseteq hy /\ hy \subseteq known /\ (hx = {} => t.name # "DarkWorld1")
  BY <1>3, <1>4
<1>6. Q!Multipliers(c, t.name, x) = {r.mult : r \in hx} /\ Q!Multipliers(c, t.name, y) = {r.mult : r \in hy}
  BY <1>1
<1> HIDE DEF held_, hx, hy
<1>7. Q!Multipliers(c, t.name, x) \in SUBSET Nat
  BY <1>2, <1>5, <1>6
<1>8. Q!Multipliers(c, t.name, x) \subseteq Q!Multipliers(c, t.name, y)
  BY <1>5, <1>6
<1>9. ASSUME Q!Multipliers(c, t.name, x) = {} PROVE \A m \in Q!Multipliers(c, t.name, y) : m <= 60
  <2>1. hx = {}
    BY <1>6, <1>9
  <2> QED
    BY <1>2, <1>5, <1>6, <2>1
<1> QED
  BY <1>7, <1>8, <1>9

LEMMA LeastReductionFalls ==
  ASSUME NEW c \in Contexts, NEW t \in Trees, t.type = "damage",
         NEW x \in Holdings, NEW y \in Holdings, Within(x, y)
  PROVE  /\ Q!LeastReduction(c, t.name, x) \in Nat
         /\ Q!LeastReduction(c, t.name, y) \in Nat
         /\ Q!LeastReduction(c, t.name, y) <= Q!LeastReduction(c, t.name, x)
<1> DEFINE less == Q!Multipliers(c, t.name, x)
           more == Q!Multipliers(c, t.name, y)
           least(S) == CHOOSE m \in S : \A k \in S : m <= k
<1>1. /\ Q!LeastReduction(c, t.name, x) = IF less = {} THEN 60 ELSE least(less)
      /\ Q!LeastReduction(c, t.name, y) = IF more = {} THEN 60 ELSE least(more)
  BY Zenon DEF Q!LeastReduction
<1>2. Within(y, y)
  BY CountsAre DEF Within
<1>3. /\ less \in SUBSET Nat /\ more \in SUBSET Nat /\ less \subseteq more
      /\ less = {} => \A m \in more : m <= 60
  BY <1>2, MultipliersGrow
<1> HIDE DEF less, more
<1>4. ASSUME NEW S \in SUBSET Nat, S # {} PROVE least(S) \in S /\ \A k \in S : least(S) <= k
  BY <1>4, LeastNumber, Zenon
<1> DEFINE lx == least(less)
           ly == least(more)
<1>5. less # {} => lx \in less
  BY <1>3, <1>4
<1>6. more # {} => ly \in more /\ \A k \in more : ly <= k
  BY <1>3, <1>4
<1> HIDE DEF least, lx, ly
<1>7. less # {} => lx \in more /\ lx \in Nat
  BY <1>3, <1>5
<1>8. more # {} => ly \in Nat
  BY <1>3, <1>6
<1>9. CASE less # {}
  <2>1. more # {} /\ ly <= lx
    BY <1>6, <1>7, <1>9
  <2> QED
    BY <1>1, <1>7, <1>8, <1>9, <2>1 DEF lx, ly
<1>10. CASE less = {} /\ more # {}
  <2>1. ly <= 60
    BY <1>3, <1>6, <1>10
  <2> QED
    BY <1>1, <1>8, <1>10, <2>1 DEF lx, ly
<1>11. CASE less = {} /\ more = {}
  BY <1>1, <1>11
<1> QED
  BY <1>9, <1>10, <1>11

LEMMA ProductsGrow ==
  ASSUME NEW a \in Nat, NEW b \in Nat, NEW n \in Nat, a <= b
  PROVE  a * n \in Nat /\ b * n \in Nat /\ a * n <= b * n
<1>1. PICK d \in Nat : b = a + d
  <2>1. b - a \in Nat /\ b = a + (b - a)
    OBVIOUS
  <2> QED
    BY <2>1
<1>2. a * n \in Nat /\ d * n \in Nat
  OBVIOUS
<1>3. (a + d) * n = a * n + d * n
  OBVIOUS
<1>4. b * n = a * n + d * n
  BY <1>1, <1>3
<1> QED
  BY <1>2, <1>4

LEMMA SurvivesStill ==
  ASSUME NEW c \in Contexts, NEW t \in Trees, t.type = "damage",
         NEW x \in Holdings, NEW y \in Holdings, Within(x, y),
         NEW damage \in Nat, Q!Survives(c, t.name, damage, x)
  PROVE  Q!Survives(c, t.name, damage, y)
<1> DEFINE lx == Q!LeastReduction(c, t.name, x)
           ly == Q!LeastReduction(c, t.name, y)
           tx == x.count["EnergyTank"]
           ty == y.count["EnergyTank"]
           per == c.energyPerTank
<1>1. lx \in Nat /\ ly \in Nat /\ ly <= lx
  BY LeastReductionFalls
<1>2. per \in Nat
  BY DamageAssumption
<1>3. tx \in Nat /\ ty \in Nat /\ tx <= ty
  BY ItemsAssumption, CountsAre DEF Within
<1>4. /\ (lx * damage + 59) \div 60 < (per - 1) + per * tx
      /\ Q!Survives(c, t.name, damage, y) <=> (ly * damage + 59) \div 60 < (per - 1) + per * ty
  BY DEF Q!Survives, Q!Energy
<1> HIDE DEF lx, ly, tx, ty, per
<1>5. ly * damage \in Nat /\ lx * damage \in Nat /\ ly * damage <= lx * damage
  BY <1>1, ProductsGrow
<1>6. tx * per \in Nat /\ ty * per \in Nat /\ tx * per <= ty * per
  BY <1>2, <1>3, ProductsGrow
<1>7. per * tx = tx * per /\ per * ty = ty * per
  BY <1>2, <1>3
<1> DEFINE px == lx * damage
           py == ly * damage
           ex == per * tx
           ey == per * ty
<1>8. px \in Nat /\ py \in Nat /\ ex \in Nat /\ ey \in Nat /\ py <= px /\ ex <= ey
  BY <1>5, <1>6, <1>7
<1>9. (px + 59) \div 60 < (per - 1) + ex
  BY <1>4
<1> HIDE DEF px, py, ex, ey
<1>10. (py + 59) \div 60 <= (px + 59) \div 60
  BY <1>8
<1>11. (py + 59) \div 60 < (per - 1) + ey
  BY <1>2, <1>8, <1>9, <1>10
<1> QED
  BY <1>4, <1>11 DEF py, ey

LEMMA ResourceStaysMet ==
  ASSUME NEW c \in Contexts, NEW t \in Trees, t.type \in {"trick", "event", "item", "damage"},
         NEW x \in Holdings, NEW y \in Holdings, Within(x, y), Q!MeansResource(c, t, x)
  PROVE  Q!MeansResource(c, t, y)
<1>1. CASE t.type = "trick"
  BY <1>1 DEF Q!MeansResource
<1>2. CASE t.type = "event"
  BY <1>2 DEF Q!MeansResource, Within
<1>3. CASE t.type = "item"
  <2>1. ~t.negate /\ t.name \notin AbsentItems /\ x.count[t.name] >= t.amount
    BY <1>3 DEF Q!MeansResource
  <2>2. t.amount \in Int /\ t.name \in DOMAIN MaxCount
    BY <1>3, TreesAssumption, ItemsAssumption
  <2>3. x.count[t.name] \in Nat /\ y.count[t.name] \in Nat /\ x.count[t.name] <= y.count[t.name]
    BY <2>2, CountsAre DEF Within
  <2>4. y.count[t.name] >= t.amount
    BY <2>1, <2>2, <2>3
  <2> QED
    BY <1>3, <2>1, <2>4 DEF Q!MeansResource
<1>4. CASE t.type = "damage"
  <2> DEFINE damage == Q!Damage(c, t)
  <2>1. damage \in Int
    <3>1. t.amount \in Int /\ c.strictness \in Int
      BY <1>4, TreesAssumption, DamageAssumption
    <3>2. t.amount * c.strictness \in Int
      BY <3>1
    <3> QED
      BY <3>2 DEF Q!Damage
  <2>2. damage <= 0 \/ Q!Survives(c, t.name, damage, x)
    BY <1>4 DEF Q!MeansResource
  <2>3. Q!MeansResource(c, t, y) <=> damage <= 0 \/ Q!Survives(c, t.name, damage, y)
    BY <1>4 DEF Q!MeansResource
  <2> HIDE DEF damage
  <2>4. damage <= 0 \/ damage \in Nat
    BY <2>1
  <2> QED
    BY <1>4, <2>2, <2>3, <2>4, SurvivesStill
<1> QED
  BY <1>1, <1>2, <1>3, <1>4

LEMMA StaysMet ==
  ASSUME NEW c \in Contexts, NEW x \in Holdings, NEW y \in Holdings, Within(x, y)
  PROVE  \A t \in Trees : Q!Meaning(c, x)[t] => Q!Meaning(c, y)[t]
<1> DEFINE M  == Q!Meaning(c, x)
           N_ == Q!Meaning(c, y)
           ok == {t \in Trees : M[t] => N_[t]}
<1>1. \A t \in Trees : /\ M[t] \in BOOLEAN /\ M[t] = Q!MeansNode(c, t, x, M)
                       /\ N_[t] \in BOOLEAN /\ N_[t] = Q!MeansNode(c, t, y, N_)
  BY MeaningIs
<1> HIDE DEF M, N_
<1>2. ASSUME NEW t \in Trees, Below(t) \subseteq ok, M[t] PROVE N_[t]
  <2>1. CASE t.type = "and"
    <3>1. \A i \in DOMAIN t.items : M[t.items[i]] => N_[t.items[i]]
      BY <1>2, <2>1, PartsBelow
    <3>2. \A i \in DOMAIN t.items : M[t.items[i]]
      BY <1>1, <1>2, <2>1 DEF Q!MeansNode
    <3> QED
      BY <1>1, <2>1, <3>1, <3>2 DEF Q!MeansNode
  <2>2. CASE t.type = "or"
    <3>1. \A i \in DOMAIN t.items : M[t.items[i]] => N_[t.items[i]]
      BY <1>2, <2>2, PartsBelow
    <3>2. \E i \in DOMAIN t.items : M[t.items[i]]
      BY <1>1, <1>2, <2>2 DEF Q!MeansNode
    <3> QED
      BY <1>1, <2>2, <3>1, <3>2 DEF Q!MeansNode
  <2>3. CASE t.type = "template"
    <3> DEFINE body == Templates[t.name]
    <3>1. M[body] => N_[body]
      BY <1>2, <2>3, PartsBelow
    <3>2. M[t] = M[body] /\ N_[t] = N_[body]
      BY <1>1, <2>3 DEF Q!MeansNode
    <3> QED
      BY <1>2, <3>1, <3>2
  <2>4. CASE t.type = "null"
    BY <1>1, <2>4 DEF Q!MeansNode
  <2>5. CASE t.type \in {"trick", "event", "item", "damage"}
    <3>1. M[t] = Q!MeansResource(c, t, x) /\ N_[t] = Q!MeansResource(c, t, y)
      BY <1>1, <2>5 DEF Q!MeansNode
    <3> QED
      BY <1>2, <2>5, <3>1, ResourceStaysMet
  <2> QED
    BY <2>1, <2>2, <2>3, <2>4, <2>5, PartsBelow
<1>3. \A t \in Trees : t \in ok
  <2>1. ASSUME NEW t \in Trees, Below(t) \subseteq ok PROVE t \in ok
    BY <1>2, <2>1
  <2> HIDE DEF ok
  <2> QED
    BY <2>1, TreeInduction
<1> QED
  BY <1>3 DEF M, N_

-----------------------------------------------------------------------------
(* Logic's state, and the theorem.                                         *)

RequireTyped ==
  family = "requirements" => req \in Trees /\ ctx \in Contexts /\ held \in Holdings

LEMMA ItemMore ==
  ASSUME held \in Holdings, NEW item \in Collectable
  PROVE  WithItem(item) \in Holdings /\ Within(held, WithItem(item))
<1>1. /\ held = [count |-> held.count, events |-> held.events]
      /\ held.count \in [DOMAIN MaxCount -> Nat] /\ held.events \in SUBSET Events
      /\ \A i \in DOMAIN MaxCount : held.count[i] <= MaxCount[i] /\ MaxCount[i] \in Nat
  BY ItemsAssumption DEF Holdings
<1>2. item \in DOMAIN MaxCount /\ held.count[item] < MaxCount[item]
  BY DEF Collectable
<1> DEFINE count == [held.count EXCEPT ![item] = @ + 1]
<1>3. WithItem(item) = [count |-> count, events |-> held.events]
  BY <1>1 DEF WithItem
<1>4. count \in [DOMAIN MaxCount -> Nat]
  BY <1>1, <1>2
<1>5. \A i \in DOMAIN MaxCount : count[i] <= MaxCount[i] /\ held.count[i] <= count[i]
  BY <1>1, <1>2
<1> HIDE DEF count
<1> QED
  BY <1>1, <1>3, <1>4, <1>5 DEF Holdings, Within

LEMMA EventMore ==
  ASSUME held \in Holdings, NEW event \in Events
  PROVE  WithEvent(event) \in Holdings /\ Within(held, WithEvent(event))
<1>1. /\ held = [count |-> held.count, events |-> held.events]
      /\ held.count \in {c \in [DOMAIN MaxCount -> Nat] : \A i \in DOMAIN MaxCount : c[i] <= MaxCount[i]}
      /\ held.events \in SUBSET Events
  BY DEF Holdings
<1>2. WithEvent(event) = [count |-> held.count, events |-> held.events \cup {event}]
  BY <1>1 DEF WithEvent
<1>3. held.events \cup {event} \in SUBSET Events
  BY <1>1
<1>4. WithEvent(event) \in Holdings
  BY <1>1, <1>2, <1>3 DEF Holdings
<1>5. \A i \in DOMAIN MaxCount : held.count[i] <= held.count[i]
  BY CountsAre
<1> QED
  BY <1>2, <1>4, <1>5 DEF Within

LEMMA RequireInit == Init => RequireTyped
<1>1. InitRequire => RequireTyped
  <2>1. [count |-> [item \in DOMAIN MaxCount |-> 0], events |-> {}] \in Holdings
    BY ItemsAssumption DEF Holdings
  <2> QED
    BY <2>1, Zenon DEF InitRequire, RequireTyped
<1> QED
  BY <1>1 DEF Init, RequireTyped

LEMMA RequireKept == RequireTyped /\ [Next]_vars => RequireTyped'
<1> SUFFICES ASSUME RequireTyped, [Next]_vars PROVE RequireTyped'
  OBVIOUS
<1>1. CASE RequireStep
  <2>1. req \in Trees /\ ctx \in Contexts /\ held \in Holdings /\ Collect
    BY <1>1 DEF RequireStep, RequireTyped
  <2>2. held' \in Holdings /\ req' = req /\ ctx' = ctx
    BY <2>1, ItemMore, EventMore DEF Collect
  <2> QED
    BY <2>1, <2>2 DEF RequireTyped
<1>2. CASE UNCHANGED requireVars
  BY <1>2, OneFamily DEF requireVars, RequireTyped
<1> QED
  BY <1>1, <1>2, OneFamily

LEMMA LockedMeans ==
  ASSUME NEW c, NEW t \in Trees, NEW x \in Holdings
  PROVE  Q!Allows(Q!CompileWithAlternative(c, t, LockBroken), x) <=>
           Q!Means(c, t, x) \/ LockBroken \in x.events
<1> DEFINE rules == <<Q!Compile(c, t), Q!HasEvent(LockBroken)>>
<1>1. Q!Compile(c, t) \in Rules /\ Q!HasEvent(LockBroken) \in Rules
  BY CompilerIs, EventAllows DEF Q!Compile
<1>2. /\ DOMAIN rules = {1, 2} /\ rules[1] = Q!Compile(c, t) /\ rules[2] = Q!HasEvent(LockBroken)
  OBVIOUS
<1>3. Q!CompileWithAlternative(c, t, LockBroken) = Q!CombineOr(rules)
  BY DEF Q!CompileWithAlternative
<1> HIDE DEF rules
<1>4. Q!Allows(Q!CombineOr(rules), x) <=> Q!Allows(rules[1], x) \/ Q!Allows(rules[2], x)
  <2>1. \A i \in DOMAIN rules : rules[i] \in Rules
    BY <1>1, <1>2
  <2>2. Q!Allows(Q!CombineOr(rules), x) <=> \E i \in DOMAIN rules : Q!Allows(rules[i], x)
    BY <2>1, OrAllows
  <2> QED
    BY <1>2, <2>2
<1>5. Q!Allows(Q!Compile(c, t), x) <=> Q!Means(c, t, x)
  BY CompiledMeans DEF Q!Compile, Q!Means
<1>6. Q!Allows(Q!HasEvent(LockBroken), x) <=> LockBroken \in x.events
  BY EventAllows
<1> QED
  BY <1>2, <1>3, <1>4, <1>5, <1>6

LEMMA RequireAgrees == RequireTyped => ReadingsAgree
<1> SUFFICES ASSUME req \in Trees, ctx \in Contexts, held \in Holdings
             PROVE  CompiledKeepsMeaning /\ CoarseIsOptimistic /\ RulesOnlyOpen
  BY DEF RequireTyped, ReadingsAgree
<1>1. \A x \in Holdings : AllowedWith(x) <=> Q!Means(ctx, req, x)
  BY CompiledMeans DEF AllowedWith, Q!Compile, Q!Means
<1>2. CompiledKeepsMeaning
  BY <1>1, LockedMeans DEF CompiledKeepsMeaning
<1>3. CoarseIsOptimistic
  BY <1>1, CoarsePasses DEF CoarseIsOptimistic, Q!Means, Q!PlainEvents, Q!CoarselyAllows
<1>4. ASSUME NEW x \in Holdings, Within(held, x), AllowedWith(held) PROVE AllowedWith(x)
  <2>1. Q!Means(ctx, req, held) => Q!Means(ctx, req, x)
    BY <1>4, StaysMet DEF Q!Means
  <2> QED
    BY <1>1, <1>4, <2>1
<1>5. RulesOnlyOpen
  BY <1>4, ItemMore, EventMore DEF RulesOnlyOpen
<1> QED
  BY <1>2, <1>3, <1>5

\* requirements.py: for every tree of every database, every seed and whatever logic
\* holds, the compiled rule allows exactly what the tree means, a breakable lock that
\* or its event, the coarse sweep no less where events are plain, and nothing
\* collected closes a rule.
THEOREM ReadingsAlwaysAgree == Spec => []ReadingsAgree
BY RequireInit, RequireKept, RequireAgrees, PTL DEF Spec

=============================================================================
