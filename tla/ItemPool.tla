------------------------------ MODULE ItemPool ------------------------------
(***************************************************************************)
(* Generation's item pool (item_pool.py), from the options to the finished *)
(* pool, in the order AP calls the world: generate_early refuses option    *)
(* values, create_regions asks how many Missile Expansions will be missing *)
(* before the pool exists, and create_items builds it.                     *)
(*                                                                         *)
(* The pool is counted, not listed: Missile Expansions (the filler), Sky   *)
(* Temple Keys by number, traps by name, and all other items together.     *)
(***************************************************************************)
EXTENDS Integers, FiniteSets, Sequences

CONSTANTS
  NumLocations,    \* LOCATION_TABLE, 119
  NumFillers,      \* Missile Expansion's default_pool_count, 33
  NumReals,        \* the default_pool_counts of all but keys and filler, 76
  MinExpansions,   \* _MIN_MISSILE_EXPANSIONS, 13
  MaxTanks,        \* constants.MAX_ENERGY_TANKS, 14
  OptionSets       \* the option values explored, a subset of Options

VARIABLES
  phase, options,
  bonus,         \* what logic was told the Missile Launcher carries extra
  pool,
  locked,        \* keys placed on locations by place_locked_item
  precollected,  \* keys pushed to the start inventory
  padding        \* history: filler added to fill the locations

vars == <<phase, options, bonus, pool, locked, precollected, padding>>

NumKeys      == 9   \* STK_ITEM_NAMES
NumBosses    == 9   \* locations with .boss
NumGuardians == 3   \* _GUARDIAN_PICKUP_INDICES
TrapNames    == {"Damage Trap", "Ammo Depletion Trap", "Freeze Trap"}
NoTraps      == [t \in TrapNames |-> 0]

Options ==
  [keys            : 0 .. NumKeys,
   keyLocations    : {"off", "all_bosses", "all_guardians"},
   optionalPickups : 0 .. 3,      \* how many enable_*_pickup toggles are on
   trapPercentage  : 0 .. 100,
   trapWeights     : [TrapNames -> Nat],
   launcherGains   : BOOLEAN,     \* launcher_gains_removed_missiles
   startTanks      : Nat,         \* Energy Tanks in either start inventory
   startTraps      : Nat]

Larger(a, b)  == IF a > b THEN a ELSE b
Smaller(a, b) == IF a < b THEN a ELSE b
Total(f)      == f["Damage Trap"] + f["Ammo Depletion Trap"] + f["Freeze Trap"]
-----------------------------------------------------------------------------
(* item_pool.py, from the options alone.                                   *)

\* __init__.generate_early raises OptionError.
Refused ==
  \/ options.keyLocations = "all_bosses" /\ options.keys # NumKeys
  \/ options.keyLocations = "all_guardians" /\ options.keys < NumGuardians
  \/ options.startTanks > MaxTanks
  \/ options.startTraps > 0

LockedKeys ==
  CASE options.keyLocations = "all_bosses"    -> 1 .. NumBosses
    [] options.keyLocations = "all_guardians" -> 1 .. NumGuardians
    [] OTHER                                  -> {}

\* _pool_count_for: progressive suits and grapples and split beam ammo change
\* names and not numbers; the optional pickups add one item each.
RealCount == NumReals + options.optionalPickups

TrapTotal(expansions) ==
  Smaller((expansions * options.trapPercentage) \div 100, Larger(0, expansions - MinExpansions))

RemovedExpansions ==
  LET lockedKeys == Cardinality(LockedKeys)
      pooledKeys == IF options.keyLocations = "off" THEN options.keys
                    ELSE IF options.keyLocations = "all_bosses" THEN 0
                    ELSE Larger(0, options.keys - lockedKeys)
      surplus == RealCount + NumFillers + pooledKeys - (NumLocations - lockedKeys)
      trimmed == Larger(0, Smaller(surplus, NumFillers))
      padded  == Larger(0, -surplus)
  IN  trimmed + TrapTotal(NumFillers - trimmed + padded)

LauncherBonus == IF options.launcherGains THEN 5 * RemovedExpansions ELSE 0

\* _trap_counts: the proportional split, and its remainder round-robin in order.
TrapCounts(total, order) ==
  LET sum   == Total(options.trapWeights)
      share == [t \in TrapNames |-> (options.trapWeights[t] * total) \div sum]
  IN  [t \in TrapNames |->
         share[t] + Cardinality({k \in 0 .. total - Total(share) - 1 :
                                   order[(k % Len(order)) + 1] = t})]

EnabledTraps == {t \in TrapNames : options.trapWeights[t] > 0}

\* The enabled traps, shuffled.
Orders ==
  {o \in [1 .. Cardinality(EnabledTraps) -> EnabledTraps] :
     \A i, j \in DOMAIN o : o[i] = o[j] => i = j}
-----------------------------------------------------------------------------
Init ==
  /\ options \in OptionSets
  /\ phase = "generate_early"
  /\ bonus = 0
  /\ pool = [real |-> 0, filler |-> 0, keys |-> {}, traps |-> NoTraps]
  /\ locked = {} /\ precollected = {}
  /\ padding = 0

Size == pool.real + pool.filler + Cardinality(pool.keys) + Total(pool.traps)
Unfilled == NumLocations - Cardinality(locked)

GenerateEarly ==
  /\ phase = "generate_early"
  /\ phase' = IF Refused THEN "OptionError" ELSE "create_regions"
  /\ UNCHANGED <<options, bonus, pool, locked, precollected, padding>>

CreateRegions ==
  /\ phase = "create_regions"
  /\ bonus' = LauncherBonus
  /\ phase' = "create_items"
  /\ UNCHANGED <<options, pool, locked, precollected, padding>>

\* create_item_pool (a) and (b), with _apply_sky_temple_keys.
StockPool ==
  /\ phase = "create_items"
  /\ locked' = LockedKeys
  /\ pool' = [pool EXCEPT !.real = RealCount, !.filler = NumFillers,
                          !.keys = (1 .. options.keys) \ LockedKeys]
  /\ precollected' = options.keys + 1 .. NumKeys
  /\ phase' = "fit"
  /\ UNCHANGED <<options, bonus, padding>>

FitFromTail ==   \* mutant: cuts the tail, where the keys are, and spares the filler
  /\ phase = "fit"
  /\ LET excess == Size - Unfilled
     IN  pool' = [pool EXCEPT !.filler = @ + Larger(0, -excess),
                              !.keys = {k \in @ : Cardinality({j \in @ : j > k}) >= excess}]
  /\ padding' = Larger(0, Unfilled - Size)
  /\ phase' = "traps"
  /\ UNCHANGED <<options, bonus, locked, precollected>>

\* (e): pad with filler, or drop filler from the end.  With none left the tail
\* is cut, the last keys first.
FitPool ==
  /\ phase = "fit"
  /\ LET excess  == Size - Unfilled
         dropped == Smaller(Larger(0, excess), pool.filler)
         cut     == Larger(0, excess - dropped)
     IN  pool' = [pool EXCEPT
                    !.filler = @ - dropped + Larger(0, -excess),
                    !.keys = {k \in @ : Cardinality({j \in @ : j > k}) >= cut},
                    !.real = @ - Larger(0, cut - Cardinality(pool.keys))]
  /\ padding' = Larger(0, Unfilled - Size)
  /\ phase' = "traps"
  /\ UNCHANGED <<options, bonus, locked, precollected>>

\* _apply_traps; every weight 0 is an OptionError, but only if a trap is due.
PlaceTraps ==
  /\ phase = "traps"
  /\ LET total == TrapTotal(pool.filler)
     IN  \/ /\ total = 0
            /\ phase' = "done"
            /\ UNCHANGED pool
         \/ /\ total > 0
            /\ EnabledTraps = {}
            /\ phase' = "OptionError"
            /\ UNCHANGED pool
         \/ /\ total > 0
            /\ EnabledTraps # {}
            /\ \E order \in Orders :
                 pool' = [pool EXCEPT !.traps = TrapCounts(total, order), !.filler = @ - total]
            /\ phase' = "done"
  /\ UNCHANGED <<options, bonus, locked, precollected, padding>>

Next == GenerateEarly \/ CreateRegions \/ StockPool \/ FitPool \/ PlaceTraps

Spec == Init /\ [][Next]_vars
-----------------------------------------------------------------------------
(* Properties.                                                             *)

Done == phase = "done"

\* AP's fill needs exactly one item for each location without a locked one,
\* whatever the options locked, precollected, added or replaced.
PoolFillsLocations == Done => Size = Unfilled

\* Only Missile Expansions are ever dropped, and each of the nine Sky Temple
\* Keys is in exactly one place: a boss, the pool, or the start inventory.
NoRealItemLost ==
  Done => /\ pool.real = RealCount
          /\ locked \cup pool.keys \cup precollected = 1 .. NumKeys
          /\ Cardinality(locked) + Cardinality(pool.keys) + Cardinality(precollected) = NumKeys

\* item_pool.py::removed_expansion_count: "Computed from the options alone so
\* logic, which is compiled before the pool exists, can agree with the pool."
\* The capacity lost with the missing expansions is the launcher's bonus.
LogicKnowsRemoved ==
  Done /\ options.launcherGains => bonus = 5 * (NumFillers + padding - pool.filler)

\* The logic database asks for up to 65 missiles: traps leave 13 expansions.
EnoughMissiles == Done => pool.filler >= MinExpansions

\* Traps are split by weight: none is more than one above its exact share or a whole
\* one below it, none with weight 0 is placed, and the percentage is kept.
TrapSplit ==
  Done =>
    LET placed == Total(pool.traps)
        sum    == Total(options.trapWeights)
    IN  /\ placed = TrapTotal(pool.filler + placed)
        /\ \A t \in EnabledTraps :
             /\ pool.traps[t] * sum <= options.trapWeights[t] * placed + sum
             /\ options.trapWeights[t] * placed < pool.traps[t] * sum + sum
        /\ \A t \in TrapNames \ EnabledTraps : pool.traps[t] = 0
=============================================================================
