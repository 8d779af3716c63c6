----------------------------- MODULE References -----------------------------
(***************************************************************************)
(* Computations the source does once or in several places, each beside     *)
(* another account of the same thing: the pickup counters beside integers, *)
(* the client's capacities beside the logic's and the ISO's, the item pool *)
(* beside what logic assumed of it, hints beside the texts that give them, *)
(* compiled requirements beside what they mean.  A behaviour is about one  *)
(* of them; the others stand still.                                        *)
(***************************************************************************)
EXTENDS PickupEncoding, StartingItems

CONSTANTS
  MaxReceived,   \* bound on the items received
  Bonuses,       \* values of missile_launcher_bonus explored
  NumLocations, NumFillers, NumReals, MinExpansions, MaxTanks, OptionSets,   \* ItemPool
  Self, Placements, HintSettings, KeyNames, KeyScans, LoreScans, ItemScans,  \* HintScans
  DisguiseName, MaxScans, None,
  Trees, Templates, Pregranted, AbsentItems, Reductions, ItemKind,           \* Requirements
  Depth,         \* of a tree, the bodies of its templates counted
  Contexts,      \* the seeds' static contexts explored
  MaxCount,      \* item -> how many of it logic can come to count
  Events,        \* what logic collects beside items
  LockBroken     \* the event of a dock lock broken from the other side

\* missile_launcher_bonus is five for each expansion removed.
ASSUME BonusAssumption == Bonuses \subseteq Nat

\* All of the pool but its filler fits, with three optional pickups and nine keys,
\* and leaves the locations of the expansions that traps may not replace.
ASSUME RoomAssumption ==
  /\ NumLocations \in Nat /\ NumFillers \in Nat /\ NumReals \in Nat
  /\ MinExpansions \in Nat /\ MaxTanks \in Nat
  /\ NumReals + 3 + 9 + MinExpansions <= NumLocations

VARIABLES
  family,
  value,     \* what the game's memory holds: [Counters -> 0 .. Ceiling]
  amount,    \* the same counters as digit sets
  since,     \* pickups collected since the counters last became zero
  distinct,  \* every one of them was collected once, and only exact amounts consumed
  received, data,                                              \* the capacities
  phase, options, bonus, pool, locked, precollected, padding,  \* ItemPool
  stage, settings, placed, startHints, loreHints, texts,       \* HintScans
  slotHints, table, scanned, sent, hints,
  req, ctx, held                                               \* Requirements

encodingVars == <<value, amount, since, distinct>>
receiveVars  == <<received, data>>
poolVars     == <<phase, options, bonus, pool, locked, precollected, padding>>
hintVars     == <<stage, settings, placed, startHints, loreHints, texts, slotHints, table, scanned, sent, hints>>
requireVars  == <<req, ctx, held>>
vars == <<family, encodingVars, receiveVars, poolVars, hintVars, requireVars>>

P == INSTANCE ItemPool
H == INSTANCE HintScans

\* What logic may hold: of each item no more than there is, and events.
Holdings ==
  [count : {c \in [DOMAIN MaxCount -> Nat] : \A item \in DOMAIN MaxCount : c[item] <= MaxCount[item]},
   events : SUBSET Events]

Q == INSTANCE Requirements WITH States <- Holdings

ASSUME OptionAssumption == OptionSets \subseteq P!Options

\* Scan ids name assets: no two are alike, in a list or across the lists.
ASSUME ScansAssumption ==
  /\ LoreScans \in Seq(Nat) /\ DOMAIN KeyNames = DOMAIN KeyScans
  /\ \A i, j \in DOMAIN KeyScans : KeyScans[i] = KeyScans[j] => i = j
  /\ \A i, j \in DOMAIN LoreScans : LoreScans[i] = LoreScans[j] => i = j
  /\ \A i, j \in DOMAIN ItemScans : ItemScans[i] = ItemScans[j] => i = j
  /\ H!Members(KeyScans) \cap H!Members(LoreScans) = {}
  /\ (H!Members(KeyScans) \cup H!Members(LoreScans)) \cap H!Members(ItemScans) = {}

ASSUME HintSettingsAssumption ==
  \A s \in HintSettings : s.keyHints \in {"disabled", "scanned", "precollected"}

\* A location is a player's and has an address, or none if it is an event's; every
\* address of this world has a scan.
ASSUME PlacementsAssumption ==
  \A filled \in Placements :
    /\ IsFiniteSet(DOMAIN filled)
    /\ \A l \in DOMAIN filled :
         /\ l = [player |-> l.player, address |-> l.address] /\ l # None
         /\ l.player = Self /\ l.address # None => l.address \in DOMAIN ItemScans

\* A tree of the database has the fields of its kind and known names, and no
\* template asks for itself, at any depth (_template_stack would raise).
ASSUME TreesAssumption ==
  \A t \in Trees :
    /\ t.type \in {"null", "and", "or", "template", "trick", "event", "item", "damage"}
    /\ Depth[t] \in Nat
    /\ t.type \in {"and", "or"} =>
         \A i \in DOMAIN t.items : t.items[i] \in Trees /\ Depth[t.items[i]] < Depth[t]
    /\ t.type = "template" =>
         Templates[t.name] \in Trees /\ Depth[Templates[t.name]] < Depth[t]
    /\ t.type \in {"trick", "event", "item"} => t.negate \in BOOLEAN
    /\ t.type \in {"item", "damage"} => t.amount \in Int
    /\ t.type = "item" => t.name \in DOMAIN ItemKind

\* item_mapping: a flag is held once, a constant is zero, the rest is counted.
ASSUME ItemsAssumption ==
  /\ MaxCount \in [DOMAIN MaxCount -> Nat]
  /\ "EnergyTank" \in DOMAIN MaxCount
  /\ DOMAIN ItemKind \subseteq DOMAIN MaxCount
  /\ \A item \in DOMAIN ItemKind :
       /\ ItemKind[item] \in {"bool", "count", "const"}
       /\ ItemKind[item] = "bool"  => MaxCount[item] <= 1
       /\ ItemKind[item] = "const" => MaxCount[item] = 0

\* A suit of the database takes damage off and never adds any; dark_aether_damage
\* and dark_suit_damage are free, and the suit's may be the greater of them.
ASSUME DamageAssumption ==
  /\ {"DarkSuit", "LightSuit"} \subseteq DOMAIN MaxCount
  /\ \A t \in Trees : t.type = "damage" /\ t.name # "DarkWorld1" =>
       \A r \in Reductions[t.name] : r.mult \in 0 .. 60 /\ r.item \in DOMAIN MaxCount \cup {"none"}
  /\ \A c \in Contexts :
       c.strictness \in Nat /\ c.energyPerTank \in Nat /\ c.darkAether \in Nat /\ c.darkSuit \in Nat

ASSUME LockAssumption == LockBroken \in Events
-----------------------------------------------------------------------------
(* The counters of pickup_encoding.py in ordinary arithmetic, next to the  *)
(* digit sets of PickupEncoding: pickups are collected in any order, any   *)
(* reading is consumed, fresh or stale.                                    *)

Pow2[b \in 0 .. AmountBits] == IF b = 0 THEN 1 ELSE 2 * Pow2[b - 1]   \* 1 << b

Ceiling    == Pow2[AmountBits] - 1
Readings   == [Counters -> 0 .. Ceiling]
OnesOf(v)  == {b \in Bits : (v \div Pow2[b]) % 2 = 1}
AllOnes(v) == [c \in Counters |-> OnesOf(v[c])]

CollectOnce(p) ==
  LET sum == value[CounterOf(p)] + Pow2[BitOf(p)]
  IN  /\ value' = [value EXCEPT ![CounterOf(p)] = IF sum > Ceiling THEN Ceiling ELSE sum]
      /\ amount' = AddPickup(amount, p)
      /\ since' = since \cup {p}
      /\ distinct' = (distinct /\ p \notin since)

ConsumeReading(r) ==
  /\ value' = [c \in Counters |-> IF value[c] < r[c] THEN 0 ELSE value[c] - r[c]]
  /\ amount' = Consume(amount, Deltas(AllOnes(r)))
  /\ since' = IF r = value THEN {} ELSE since
  /\ distinct' = (distinct /\ r = value)

\* Carries, borrows, saturation and clamping of the digit sets are those of the
\* integers the game adds (native pickup path) and decr_pickup subtracts.
RepresentationAgrees == amount = AllOnes(value)

\* The claim the encoding was introduced for: any number of distinct pickups
\* since the last consume decodes to exactly those pickups, with no stray bit.
Lossless == distinct => (Decode(amount) = since /\ Stray(amount) = {})

\* Every one-bit read is either a reported index or a stray bit, never both, and
\* a counter is consumed when and only when it holds some one-bit.
NothingUnaccounted ==
  /\ \A c \in Counters, b \in Bits :
       b \in amount[c] <=>
         \/ <<c, b>> \in Stray(amount)
         \/ \E p \in Decode(amount) : CounterOf(p) = c /\ BitOf(p) = b
  /\ \A c \in Counters, b \in Bits :
       ~ (/\ <<c, b>> \in Stray(amount)
          /\ \E p \in Decode(amount) : CounterOf(p) = c /\ BitOf(p) = b)
  /\ Consume(amount, Deltas(amount)) = NoAmounts
-----------------------------------------------------------------------------
(* Every short list of received items, under every combination of options. *)

Receive(item) ==
  /\ Len(received) < MaxReceived
  /\ received' = Append(received, item)
  /\ UNCHANGED data

\* The logic never counts on a capacity the client will not write, and never
\* withholds one it will (receive_items.py: "the two implementations must be
\* kept in sync"), except that the game holds no more than EnergyTankCap tanks.
LogicAgreesWithClient ==
  /\ \A r \in CountSlots :
       LogicCount(received, data, r[1]) = Desired(received, data)[r[2]]
  /\ \A r \in FlagSlots :
       LogicHas(received, data, r[1]) <=> Desired(received, data)[r[2]] = 1
  /\ LogicCount(received, data, "EnergyTank") <= EnergyTankCap =>
       LogicCount(received, data, "EnergyTank") = Desired(received, data)[42]

\* Receiving an item never lowers a capacity, whatever was received before: the
\* reason why plan_grants may ignore negative differences.
CapacitiesGrow == \A slot \in Slots : Desired(received, data)[slot] <= Desired(received', data)[slot]

\* patch_data.starting_items_config: a start inventory is in the patched ISO
\* with at least what the client would grant for it, so no capacity of it waits
\* for the first connection; and with exactly that, unless an item the pool
\* holds once was given twice or the Seeker Launcher came without a launcher.
StartMatchesClient ==
  /\ \A slot \in Slots :
       Starting(received, data)[slot] >= Desired(Precollected(received), data)[slot]
  /\ WithoutRepeats(received) /\ ~SeekerMissilesLocked(received, data) =>
       StartsAsGranted(received, data)

\* patch_data.starting_items_config: with missile_expansions_unlock_launcher on
\* the launcher's flag is set "so the ISO's starting inventory matches what the
\* option grants in-game".  Without repeated items, it should then always match.
StartInventoryMatches ==
  data.unlockLauncher /\ WithoutRepeats(received) => StartsAsGranted(received, data)
-----------------------------------------------------------------------------
(* Logic's state while it collects: an item more, or an event.             *)

Collectable      == {item \in DOMAIN MaxCount : held.count[item] < MaxCount[item]}
WithItem(item)   == [held EXCEPT !.count[item] = @ + 1]
WithEvent(event) == [held EXCEPT !.events = @ \cup {event}]

Collect ==
  /\ \/ \E item \in Collectable : held' = WithItem(item)
     \/ \E event \in Events \ held.events : held' = WithEvent(event)
  /\ UNCHANGED <<req, ctx>>

AllowedWith(state) == Q!Allows(Q!Compile(ctx, req), state)

\* Folding and short-circuiting keep a requirement's meaning: the compiled rule
\* allows, and never raises Impossible unless nothing allows; a lock that can
\* also be found broken opens by its event or its requirement and nothing else.
CompiledKeepsMeaning ==
  /\ AllowedWith(held) <=> Q!Means(ctx, req, held)
  /\ Q!Allows(Q!CompileWithAlternative(ctx, req, LockBroken), held) <=>
       Q!Means(ctx, req, held) \/ LockBroken \in held.events

\* What logic can pass, the coarse sweep that rejects candidate dock shuffles
\* passes too: it never turns down a candidate for an edge logic could use.
CoarseIsOptimistic ==
  Q!PlainEvents(req) /\ AllowedWith(held) => Q!CoarselyAllows(req, held.events)

\* One item or event more never closes a rule, which AP's sweeps and fill take
\* for granted.
RulesOnlyOpen ==
  AllowedWith(held) =>
    /\ \A item \in Collectable : AllowedWith(WithItem(item))
    /\ \A event \in Events : AllowedWith(WithEvent(event))
-----------------------------------------------------------------------------
InitEncoding ==
  /\ value = [c \in Counters |-> 0]
  /\ amount = NoAmounts
  /\ since = {}
  /\ distinct = TRUE

IdleReceive ==
  /\ received = <<>>
  /\ data = [unlockLauncher |-> FALSE, unlockPowerBombs |-> FALSE, launcherBonus |-> 0]
IdlePool ==
  /\ phase = "idle" /\ options = <<>> /\ bonus = 0 /\ pool = <<>>
  /\ locked = {} /\ precollected = {} /\ padding = 0
IdleHints ==
  /\ stage = "idle" /\ settings = <<>> /\ placed = <<>> /\ startHints = {} /\ loreHints = <<>>
  /\ texts = <<>> /\ slotHints = {} /\ table = <<>> /\ scanned = {} /\ sent = {} /\ hints = {}

InitReceive ==
  /\ received = <<>>
  /\ data \in [unlockLauncher : BOOLEAN, unlockPowerBombs : BOOLEAN, launcherBonus : Bonuses]

IdleRequire == req = <<>> /\ ctx = <<>> /\ held = <<>>

InitRequire ==
  /\ req \in Trees
  /\ ctx \in Contexts
  /\ held = [count |-> [item \in DOMAIN MaxCount |-> 0], events |-> {}]

Init ==
  /\ InitEncoding
  /\ \/ family = "counters"     /\ IdleReceive /\ IdlePool /\ IdleHints /\ IdleRequire
     \/ family = "capacities"   /\ InitReceive /\ IdlePool /\ IdleHints /\ IdleRequire
     \/ family = "pool"         /\ IdleReceive /\ P!Init   /\ IdleHints /\ IdleRequire
     \/ family = "hints"        /\ IdleReceive /\ IdlePool /\ H!Init   /\ IdleRequire
     \/ family = "requirements" /\ IdleReceive /\ IdlePool /\ IdleHints /\ InitRequire

CountersStep ==
  /\ family = "counters"
  /\ (\E p \in Pickups : CollectOnce(p)) \/ (\E r \in Readings : ConsumeReading(r))
  /\ UNCHANGED <<family, receiveVars, poolVars, hintVars, requireVars>>
CapacitiesStep ==
  /\ family = "capacities"
  /\ \E item \in Items : Receive(item)
  /\ UNCHANGED <<family, encodingVars, poolVars, hintVars, requireVars>>
PoolStep ==
  /\ family = "pool" /\ P!Next
  /\ UNCHANGED <<family, encodingVars, receiveVars, hintVars, requireVars>>
HintsStep ==
  /\ family = "hints" /\ H!Next
  /\ UNCHANGED <<family, encodingVars, receiveVars, poolVars, requireVars>>
RequireStep ==
  /\ family = "requirements" /\ Collect
  /\ UNCHANGED <<family, encodingVars, receiveVars, poolVars, hintVars>>

Next == CountersStep \/ CapacitiesStep \/ PoolStep \/ HintsStep \/ RequireStep
Spec == Init /\ [][Next]_vars
-----------------------------------------------------------------------------
(* Properties, each of the account and its reference.                      *)

\* pickup_encoding.py: the counters are integers whose bits are the pickups (carries,
\* borrows and saturation included), any number of distinct pickups since the last
\* consume decodes to exactly those, and no bit is neither reported nor consumed.
CountersFaithful == RepresentationAgrees /\ Lossless /\ NothingUnaccounted

\* item_pool.py: whatever the options lock, precollect, add or replace, there is an
\* item for every location, nothing but a Missile Expansion is dropped, every key is
\* in one place, and traps follow their weights and leave the missiles logic asks for;
\* and the launcher's bonus, which logic is told before the pool exists, makes up for
\* exactly the expansions that are missing later (removed_expansion_count).
PoolComplete ==
  /\ P!PoolFillsLocations /\ P!NoRealItemLost /\ P!EnoughMissiles /\ P!TrapSplit
  /\ P!LogicKnowsRemoved

\* Client, logic and ISO are three accounts of what a list of items is worth: logic
\* counts on what the client writes and the reverse, and a start is as granted.
AccountsAgree == LogicAgreesWithClient /\ StartMatchesClient

\* hint_scans.py: what a scan's text says is where is what the slot data asks the
\* server to hint, which refuses none of it; no disguise is lifted, no item told twice.
HintsAsShown == family = "hints" => H!HintsAsShown

\* requirements.py: the three readings of a requirement, as its tree, compiled and
\* coarse, agree as far as they promise to, and stay open once they are.
ReadingsAgree ==
  family = "requirements" => CompiledKeepsMeaning /\ CoarseIsOptimistic /\ RulesOnlyOpen

\* One item more never lowers a capacity, why plan_grants may ignore negative
\* differences.
ItemsOnlyHelp == [][CapacitiesGrow]_vars
=============================================================================
