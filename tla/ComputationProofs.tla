-------------------------- MODULE ComputationProofs --------------------------
(***************************************************************************)
(* What holds of the computations that several components use: the counter *)
(* layout of pickup_encoding.py, for every number of pickups, counters and *)
(* bits, and the capacities of receive_items.py, for lists of any length   *)
(* and every option value.                                                 *)
(***************************************************************************)
EXTENDS PickupEncoding, ReceiveItems, FiniteSetTheorems, TLAPS
-----------------------------------------------------------------------------
(* The layout of the counters, for every number of pickups, counters and   *)
(* bits: slots are unique, decoding inverts the layout, adding a fresh bit *)
(* and consuming a sub-amount are set union and set difference.           *)

\* counter_and_amount assigns every pickup a counter and a bit in range.
LEMMA SlotInRange ==
  ASSUME NEW p \in Pickups
  PROVE  /\ CounterOf(p) \in Counters
         /\ BitOf(p) \in Bits
         /\ BitOf(p) < BitsPerCounter
         /\ p = CounterOf(p) * BitsPerCounter + BitOf(p)
<1>1. /\ p \in Nat
      /\ p < NumCounters * BitsPerCounter
  BY LayoutAssumption DEF Pickups
<1>2. /\ p \div BitsPerCounter \in Nat
      /\ p % BitsPerCounter \in 0 .. BitsPerCounter - 1
      /\ p = (p \div BitsPerCounter) * BitsPerCounter + (p % BitsPerCounter)
  BY <1>1, LayoutAssumption
<1>3. p \div BitsPerCounter < NumCounters
  BY <1>1, <1>2, LayoutAssumption
<1> QED
  BY <1>2, <1>3, LayoutAssumption DEF CounterOf, BitOf, Counters, Bits

\* A counter and a bit below BitsPerCounter are the slot of one number only.
LEMMA SlotOf ==
  ASSUME NEW c \in Counters, NEW b \in Bits, b < BitsPerCounter
  PROVE  /\ CounterOf(c * BitsPerCounter + b) = c
         /\ BitOf(c * BitsPerCounter + b) = b
BY LayoutAssumption DEF CounterOf, BitOf, Counters, Bits

\* No two pickups share a bit: the premise of the whole encoding.
THEOREM SlotsUnique ==
  ASSUME NEW p \in Pickups, NEW q \in Pickups,
         CounterOf(p) = CounterOf(q), BitOf(p) = BitOf(q)
  PROVE  p = q
BY SlotInRange

\* decode inverts the layout: it reports exactly the pickups whose bit is set.
THEOREM DecodeInverts ==
  ASSUME NEW held \in Amounts, NEW p \in Pickups
  PROVE  p \in Decode(held) <=> Holds(held, p)
<1>1. ASSUME p \in Decode(held) PROVE Holds(held, p)
  <2>1. PICK c \in Counters : \E b \in held[c] :
               b < BitsPerCounter /\ p = c * BitsPerCounter + b
    BY <1>1 DEF Decode
  <2>2. PICK b \in held[c] : b < BitsPerCounter /\ p = c * BitsPerCounter + b
    BY <2>1
  <2>3. b \in Bits
    BY <2>2 DEF Amounts
  <2> QED
    BY <2>2, <2>3, SlotOf DEF Holds
<1>2. ASSUME Holds(held, p) PROVE p \in Decode(held)
  BY <1>2, SlotInRange DEF Decode, Holds
<1> QED
  BY <1>1, <1>2

LEMMA DecodeType ==
  ASSUME NEW held
  PROVE  Decode(held) \subseteq Pickups
BY DEF Decode
-----------------------------------------------------------------------------
\* Adding a bit that is not there neither carries nor saturates.
LEMMA PlusFreshBit ==
  ASSUME NEW S \in SUBSET Bits, NEW bit \in Bits, bit \notin S
  PROVE  PlusBit(S, bit) = S \cup {bit}
<1>1. ~ \A e \in Bits : e >= bit => e \in S
  BY LayoutAssumption DEF Bits
<1>2. ASSUME NEW d \in Bits
      PROVE  (IF d >= bit /\ (\A e \in bit .. d - 1 : e \in S) THEN d \notin S ELSE d \in S)
               <=> d \in S \cup {bit}
  <2>1. CASE d > bit
    <3>1. bit \in bit .. d - 1
      BY <2>1, LayoutAssumption DEF Bits
    <3> QED
      BY <2>1, <3>1 DEF Bits
  <2>2. CASE d = bit
    BY <2>2, LayoutAssumption DEF Bits
  <2>3. CASE d < bit
    BY <2>3, LayoutAssumption DEF Bits
  <2> QED
    BY <2>1, <2>2, <2>3, LayoutAssumption DEF Bits
<1> QED
  BY <1>1, <1>2 DEF PlusBit

\* Consuming digits that are all there borrows from no other digit.
LEMMA MinusSubset ==
  ASSUME NEW S \in SUBSET Bits, NEW A \in SUBSET S
  PROVE  Minus(S, A) = S \ A
<1>1. A \ S = {}
  OBVIOUS
<1>2. ~ IsLess(S, A)
  BY <1>1 DEF IsLess
<1> QED
  BY <1>1, <1>2 DEF Minus

\* Whatever is added or consumed, a counter stays within its width.
LEMMA PlusBitType ==
  ASSUME NEW S, NEW bit
  PROVE  PlusBit(S, bit) \subseteq Bits
BY DEF PlusBit

LEMMA MinusType ==
  ASSUME NEW S, NEW A
  PROVE  Minus(S, A) \subseteq Bits
BY DEF Minus
-----------------------------------------------------------------------------
LEMMA AddPickupType ==
  ASSUME NEW held \in Amounts, NEW p \in Pickups
  PROVE  AddPickup(held, p) \in Amounts
BY PlusBitType DEF AddPickup, Amounts

\* Collecting a pickup whose bit is clear sets that bit and no other.
LEMMA AddFreshPickup ==
  ASSUME NEW held \in Amounts, NEW p \in Pickups, ~ Holds(held, p),
         NEW c \in Counters
  PROVE  AddPickup(held, p)[c] =
           IF c = CounterOf(p) THEN held[c] \cup {BitOf(p)} ELSE held[c]
BY SlotInRange, PlusFreshBit DEF AddPickup, Amounts, Holds

LEMMA DeltaMapsElim ==
  ASSUME NEW deltas \in DeltaMaps
  PROVE  /\ DOMAIN deltas \subseteq Counters
         /\ \A c \in DOMAIN deltas : deltas[c] \subseteq Bits
BY DEF DeltaMaps

LEMMA DeltasType ==
  /\ NoDeltas \in DeltaMaps
  /\ DOMAIN NoDeltas = {}
  /\ \A held \in Amounts :
       /\ Deltas(held) \in DeltaMaps
       /\ \A c \in DOMAIN Deltas(held) : Deltas(held)[c] = held[c]
<1>1. NoDeltas \in [{} -> SUBSET Bits] /\ DOMAIN NoDeltas = {}
  BY DEF NoDeltas
<1>2. ASSUME NEW held \in Amounts
      PROVE  /\ Deltas(held) \in DeltaMaps
             /\ \A c \in DOMAIN Deltas(held) : Deltas(held)[c] = held[c]
  <2> DEFINE D == {d \in Counters : held[d] # {}}
  <2>1. Deltas(held) \in [D -> SUBSET Bits]
    BY DEF Deltas, Amounts
  <2> QED
    BY <2>1 DEF DeltaMaps, Deltas
<1> QED
  BY <1>1, <1>2 DEF DeltaMaps

LEMMA ConsumeType ==
  ASSUME NEW held \in Amounts, NEW deltas
  PROVE  Consume(held, deltas) \in Amounts
BY MinusType DEF Consume, Amounts

\* Consuming sub-amounts removes exactly their digits.
LEMMA ConsumeSubset ==
  ASSUME NEW held \in Amounts, NEW deltas,
         \A c \in DOMAIN deltas : c \in Counters => deltas[c] \subseteq held[c],
         NEW c \in Counters
  PROVE  Consume(held, deltas)[c] =
           IF c \in DOMAIN deltas THEN held[c] \ deltas[c] ELSE held[c]
BY MinusSubset DEF Consume, Amounts
-----------------------------------------------------------------------------
(* compute_desired_capacities never lowers a capacity when the received    *)
(* list grows.                                                             *)

PlacesOf(received, item) == {i \in DOMAIN received : received[i] = item}

LEMMA CountingFinite ==
  ASSUME NEW received \in Seq(Items), NEW item
  PROVE  /\ IsFiniteSet(PlacesOf(received, item))
         /\ Copies(received, item) \in Nat
<1>1. IsFiniteSet(1 .. Len(received))
  BY FS_Interval
<1>2. PlacesOf(received, item) \subseteq 1 .. Len(received)
  BY DEF PlacesOf
<1>3. IsFiniteSet(PlacesOf(received, item))
  BY <1>1, <1>2, FS_Subset
<1> QED
  BY <1>3, FS_CardinalityType DEF Copies, PlacesOf

LEMMA CopiesMonotone ==
  ASSUME NEW short \in Seq(Items), NEW long \in Seq(Items), Continues(long, short), NEW item
  PROVE  Copies(short, item) <= Copies(long, item)
<1>1. PlacesOf(short, item) \subseteq PlacesOf(long, item)
  BY DEF PlacesOf, Continues
<1>2. Cardinality(PlacesOf(short, item)) <= Cardinality(PlacesOf(long, item))
  BY <1>1, CountingFinite, FS_Subset
<1> QED
  BY <1>2 DEF Copies, PlacesOf

LEMMA HasMonotone ==
  ASSUME NEW short \in Seq(Items), NEW long \in Seq(Items), Continues(long, short), NEW item,
         Has(short, item)
  PROVE  Has(long, item)
BY DEF Has, Continues

\* The stage a progressive copy fills does not change with what comes after it.
LEMMA StageStable ==
  ASSUME NEW short \in Seq(Items), NEW long \in Seq(Items), Continues(long, short),
         NEW i \in DOMAIN short
  PROVE  StageAt(long, i) = StageAt(short, i)
<1>1. {j \in DOMAIN long : j < i /\ long[j] = long[i]}
        = {j \in DOMAIN short : j < i /\ short[j] = short[i]}
  BY DEF Continues
<1> QED
  BY <1>1 DEF StageAt

LEMMA PlainMonotone ==
  ASSUME NEW short \in Seq(Items), NEW long \in Seq(Items), Continues(long, short), NEW slot
  PROVE  /\ PlainDesired(short, slot) \in 0 .. 1
         /\ PlainDesired(long, slot) \in 0 .. 1
         /\ PlainDesired(short, slot) <= PlainDesired(long, slot)
<1> DEFINE Fills(r, i) == \/ <<r[i], slot>> \in PlainGains
                         \/ <<r[i], StageAt(r, i), slot>> \in Stages
<1>1. ASSUME NEW i \in DOMAIN short, Fills(short, i)
      PROVE  i \in DOMAIN long /\ Fills(long, i)
  <2>1. i \in DOMAIN long /\ long[i] = short[i]
    BY DEF Continues
  <2>2. StageAt(long, i) = StageAt(short, i)
    BY StageStable
  <2> QED
    BY <1>1, <2>1, <2>2
<1>2. \A r : PlainDesired(r, slot) = IF \E i \in DOMAIN r : Fills(r, i) THEN 1 ELSE 0
  BY DEF PlainDesired
<1> HIDE DEF Fills
<1> QED
  BY <1>1, <1>2

\* The sums compute_desired_capacities forms are monotone in every count.
LEMMA SumMonotone ==
  ASSUME NEW a \in Nat, NEW b \in Nat, NEW c \in Nat,
         NEW x \in Nat, NEW y \in Nat, NEW z \in Nat,
         a <= x, b <= y, c <= z
  PROVE  /\ 50 * a + 20 * b + 10 * c \in Nat
         /\ 50 * x + 20 * y + 10 * z \in Nat
         /\ 50 * a + 20 * b + 10 * c <= 50 * x + 20 * y + 10 * z
OBVIOUS

LEMMA MissileSumMonotone ==
  ASSUME NEW a \in 0 .. 1, NEW b \in Nat, NEW c \in Nat,
         NEW x \in 0 .. 1, NEW y \in Nat, NEW z \in Nat, NEW bonus \in Nat,
         a <= x, b <= y, c <= z
  PROVE  /\ 5 * (a + b + c) + a * bonus \in Nat
         /\ 5 * (x + y + z) + x * bonus \in Nat
         /\ 5 * (a + b + c) + a * bonus <= 5 * (x + y + z) + x * bonus
<1>1. a * bonus \in Nat /\ x * bonus \in Nat /\ a * bonus <= x * bonus
  OBVIOUS
<1> QED
  BY <1>1

LEMMA MissilesMonotone ==
  ASSUME NEW short \in Seq(Items), NEW long \in Seq(Items), Continues(long, short),
         NEW data \in SlotData
  PROVE  /\ MissilesDesired(short, data) \in Nat
         /\ MissilesDesired(long, data) \in Nat
         /\ MissilesDesired(short, data) <= MissilesDesired(long, data)
         /\ MissilesUnlocked(short, data) => MissilesUnlocked(long, data)
<1> DEFINE Launchers(r) == IF Has(r, "Missile Launcher") THEN 1 ELSE 0
           Worth(r) == 5 * (Launchers(r) + Copies(r, "Seeker Launcher")
                                         + Copies(r, "Missile Expansion"))
                         + Launchers(r) * data.launcherBonus
<1>1. MissilesUnlocked(short, data) => MissilesUnlocked(long, data)
  BY HasMonotone DEF MissilesUnlocked
<1>2. data.launcherBonus \in Nat
  BY DEF SlotData
<1>3. Launchers(short) \in 0 .. 1 /\ Launchers(long) \in 0 .. 1 /\ Launchers(short) <= Launchers(long)
  <2>1. Has(short, "Missile Launcher") => Has(long, "Missile Launcher")
    BY HasMonotone
  <2>2. \/ Launchers(short) = 0 /\ Launchers(long) = 0
        \/ Launchers(short) = 0 /\ Launchers(long) = 1
        \/ Launchers(short) = 1 /\ Launchers(long) = 1
    BY <2>1, Zenon
  <2> HIDE DEF Launchers
  <2> QED
    BY <2>2
<1>4. /\ Copies(short, "Seeker Launcher") \in Nat
      /\ Copies(long, "Seeker Launcher") \in Nat
      /\ Copies(short, "Missile Expansion") \in Nat
      /\ Copies(long, "Missile Expansion") \in Nat
      /\ Copies(short, "Seeker Launcher") <= Copies(long, "Seeker Launcher")
      /\ Copies(short, "Missile Expansion") <= Copies(long, "Missile Expansion")
  BY CountingFinite, CopiesMonotone
<1>6. Worth(short) \in Nat /\ Worth(long) \in Nat /\ Worth(short) <= Worth(long)
  <2> HIDE DEF Launchers
  <2> QED
    BY <1>2, <1>3, <1>4, MissileSumMonotone
<1>7. /\ MissilesDesired(short, data) = IF MissilesUnlocked(short, data) THEN Worth(short) ELSE 0
      /\ MissilesDesired(long, data) = IF MissilesUnlocked(long, data) THEN Worth(long) ELSE 0
  BY DEF MissilesDesired
<1> HIDE DEF Worth
<1> QED
  BY <1>1, <1>6, <1>7

LEMMA PowerBombsMonotone ==
  ASSUME NEW short \in Seq(Items), NEW long \in Seq(Items), Continues(long, short),
         NEW data \in SlotData
  PROVE  /\ PowerBombsDesired(short, data) \in Nat
         /\ PowerBombsDesired(long, data) \in Nat
         /\ PowerBombsDesired(short, data) <= PowerBombsDesired(long, data)
<1>1. PowerBombsUnlocked(short, data) => PowerBombsUnlocked(long, data)
  BY HasMonotone DEF PowerBombsUnlocked
<1>2. /\ Copies(short, "Power Bomb Expansion") \in Nat
      /\ Copies(long, "Power Bomb Expansion") \in Nat
      /\ Copies(short, "Power Bomb Expansion") <= Copies(long, "Power Bomb Expansion")
  BY CountingFinite, CopiesMonotone
<1>3. Has(short, "Power Bomb") => Has(long, "Power Bomb")
  BY HasMonotone
<1> QED
  <2> DEFINE main(r) == IF Has(r, "Power Bomb") THEN 2 ELSE 0
             fewer == Copies(short, "Power Bomb Expansion")
             more  == Copies(long, "Power Bomb Expansion")
  <2>1. \/ main(short) = 0 /\ main(long) = 0
        \/ main(short) = 0 /\ main(long) = 2
        \/ main(short) = 2 /\ main(long) = 2
    BY <1>3, Zenon
  <2>2. fewer \in Nat /\ more \in Nat /\ fewer <= more
    BY <1>2
  <2>3. \/ PowerBombsDesired(short, data) = 0
        \/ /\ PowerBombsDesired(short, data) = main(short) + fewer
           /\ PowerBombsDesired(long, data) = main(long) + more
    BY <1>1, Zenon DEF PowerBombsDesired
  <2>4. PowerBombsDesired(long, data) = 0 \/ PowerBombsDesired(long, data) = main(long) + more
    BY Zenon DEF PowerBombsDesired
  <2> HIDE DEF main, fewer, more
  <2> QED
    BY <2>1, <2>2, <2>3, <2>4

LEMMA AmmoMonotone ==
  ASSUME NEW short \in Seq(Items), NEW long \in Seq(Items), Continues(long, short),
         NEW beam, NEW expansion
  PROVE  /\ AmmoDesired(short, beam, expansion) \in Nat
         /\ AmmoDesired(long, beam, expansion) \in Nat
         /\ AmmoDesired(short, beam, expansion) <= AmmoDesired(long, beam, expansion)
<1>1. \A x : /\ Copies(short, x) \in Nat
             /\ Copies(long, x) \in Nat
             /\ Copies(short, x) <= Copies(long, x)
  BY CountingFinite, CopiesMonotone
<1> QED
  BY <1>1, SumMonotone DEF AmmoDesired

LEMMA EnergyTanksMonotone ==
  ASSUME NEW short \in Seq(Items), NEW long \in Seq(Items), Continues(long, short)
  PROVE  /\ EnergyTanksDesired(short) \in Nat
         /\ EnergyTanksDesired(long) \in Nat
         /\ EnergyTanksDesired(short) <= EnergyTanksDesired(long)
<1>1. /\ Copies(short, "Energy Tank") \in Nat
      /\ Copies(long, "Energy Tank") \in Nat
      /\ Copies(short, "Energy Tank") <= Copies(long, "Energy Tank")
  BY CountingFinite, CopiesMonotone
<1> QED
  <2> DEFINE fewer == Copies(short, "Energy Tank")
             more  == Copies(long, "Energy Tank")
  <2>1. /\ EnergyTanksDesired(short) = IF fewer > EnergyTankCap THEN EnergyTankCap ELSE fewer
        /\ EnergyTanksDesired(long) = IF more > EnergyTankCap THEN EnergyTankCap ELSE more
    BY DEF EnergyTanksDesired
  <2>2. fewer \in Nat /\ more \in Nat /\ fewer <= more
    BY <1>1
  <2> HIDE DEF fewer, more
  <2> QED
    BY <2>1, <2>2, CapAssumption

\* Receiving more items never lowers any capacity, so ignoring the negative
\* differences in plan_grants loses nothing.
THEOREM DesiredMonotone ==
  ASSUME NEW short \in Seq(Items), NEW long \in Seq(Items), Continues(long, short),
         NEW data \in SlotData, NEW slot \in Slots
  PROVE  /\ Desired(short, data)[slot] \in Nat
         /\ Desired(long, data)[slot] \in Nat
         /\ Desired(short, data)[slot] <= Desired(long, data)[slot]
<1> SUFFICES /\ DesiredAt(short, data, slot) \in Nat
             /\ DesiredAt(long, data, slot) \in Nat
             /\ DesiredAt(short, data, slot) <= DesiredAt(long, data, slot)
  BY DEF Desired
<1>1. CASE slot = 12
  BY <1>1 DEF DesiredAt
<1>2. CASE slot = 42
  BY <1>2, EnergyTanksMonotone DEF DesiredAt
<1>3. CASE slot = 43
  BY <1>3, PowerBombsMonotone DEF DesiredAt
<1>4. CASE slot = 44
  BY <1>4, MissilesMonotone DEF DesiredAt
<1>5. CASE slot = 45
  <2>1. \A r : DesiredAt(r, data, slot) = AmmoDesired(r, "Dark Beam", "Dark Ammo Expansion")
    BY <1>5 DEF DesiredAt
  <2> QED
    BY <2>1, AmmoMonotone
<1>6. CASE slot = 46
  <2>1. \A r : DesiredAt(r, data, slot) = AmmoDesired(r, "Light Beam", "Light Ammo Expansion")
    BY <1>6 DEF DesiredAt
  <2> QED
    BY <2>1, AmmoMonotone
<1>7. CASE slot = 73
  BY <1>7, MissilesMonotone DEF DesiredAt
<1>8. CASE slot \notin ComputedSlots
  <2>1. /\ DesiredAt(short, data, slot) = PlainDesired(short, slot)
        /\ DesiredAt(long, data, slot) = PlainDesired(long, slot)
    BY <1>8 DEF DesiredAt, ComputedSlots
  <2> QED
    BY <2>1, PlainMonotone
<1> QED
  BY <1>1, <1>2, <1>3, <1>4, <1>5, <1>6, <1>7, <1>8 DEF ComputedSlots
=============================================================================
