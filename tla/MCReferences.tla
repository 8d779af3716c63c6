---------------------------- MODULE MCReferences ----------------------------
(* Values for References.                                                  *)
EXTENDS References, TLC

-----------------------------------------------------------------------------
(* Option values of the pool: every key and trap setting, at the values    *)
(* where the numbers turn.                                                 *)
Weights ==
  {[t \in {"Damage Trap", "Ammo Depletion Trap", "Freeze Trap"} |->
      IF t = "Damage Trap" THEN w[1] ELSE IF t = "Freeze Trap" THEN w[2] ELSE w[3]] :
     w \in {<<0, 0, 0>>, <<1, 1, 1>>, <<1, 0, 5>>, <<2, 1, 1>>}}

MCOptionSets ==
  [keys : {0, 2, 3, 5, 9}, keyLocations : {"off", "all_bosses", "all_guardians"},
   optionalPickups : {0, 1, 3}, trapPercentage : {0, 20, 50, 100}, trapWeights : Weights,
   launcherGains : BOOLEAN, startTanks : {0, MaxTanks + 1}, startTraps : {0}]
  \cup
  [keys : {9}, keyLocations : {"off"}, optionalPickups : {0}, trapPercentage : {20},
   trapWeights : Weights, launcherGains : {TRUE}, startTanks : {MaxTanks}, startTraps : {0, 1}]
-----------------------------------------------------------------------------
(* Requirements small enough to combine, with one leaf of each kind.       *)
MCTemplates ==
  ("Shoot" :> [type |-> "or",
               items |-> <<[type |-> "item", name |-> "Missile", amount |-> 2, negate |-> FALSE],
                           [type |-> "trick", name |-> "Jump", amount |-> 2, negate |-> FALSE]>>]
   @@ "Never" :> [type |-> "or", items |-> <<>>])

MCPregranted  == {"E2"}
MCAbsentItems == {"DoubleDamage"}
MCReductions  == ("Water" :> {[item |-> "DarkSuit", mult |-> 30], [item |-> "LightSuit", mult |-> 15]})
MCItemKind    == [i \in {"Missile"} |-> "count"] @@ [i \in {"Percent"} |-> "const"]
               @@ [i \in {"Seekers", "DoubleDamage", "DarkSuit", "LightSuit"} |-> "bool"]

Item(name, n, negate) == [type |-> "item", name |-> name, amount |-> n, negate |-> negate]
Event(name, negate)   == [type |-> "event", name |-> name, negate |-> negate]
Trick(n, negate)      == [type |-> "trick", name |-> "Jump", amount |-> n, negate |-> negate]
Damage(name, n)       == [type |-> "damage", name |-> name, amount |-> n]

Leaves ==
  <<[type |-> "null"], [type |-> "template", name |-> "Shoot"],
   Item("Missile", 1, FALSE), Item("Missile", 0, FALSE), Item("Seekers", 1, FALSE),
   Item("Seekers", 2, FALSE), Item("Seekers", 1, TRUE), Event("E1", FALSE), Event("E1", TRUE),
   Event("E2", FALSE), Trick(1, FALSE), Trick(1, TRUE), Damage("DarkWorld1", 60), Damage("Water", 100)>>

\* These fold like one of the leaves above.
Alone ==
  {[type |-> "template", name |-> "Never"], Item("DoubleDamage", 1, FALSE), Item("Percent", 1, FALSE),
   Damage("Water", 0), Item("Missile", 2, FALSE), Trick(2, FALSE), [type |-> "and", items |-> <<>>]}

Inner ==
  <<Item("Missile", 1, FALSE), Item("Seekers", 2, FALSE), Event("E1", FALSE), Event("E1", TRUE),
    Damage("DarkWorld1", 60)>>

Pairs(leaves) ==
  {[type |-> t, items |-> <<leaves[p[1]], leaves[p[2]]>>] :
     t \in {"and", "or"}, p \in {q \in (DOMAIN leaves) \X (DOMAIN leaves) : q[1] <= q[2]}}

\* The parts and the templates' bodies are trees of their own.
AllTrees ==
  Alone \cup {Leaves[i] : i \in DOMAIN Leaves} \cup {MCTemplates[n] : n \in DOMAIN MCTemplates}
  \cup Pairs(Leaves)
  \cup {[type |-> t, items |-> <<Item("Seekers", 1, FALSE), p>>] : t \in {"and", "or"}, p \in Pairs(Inner)}

MCTrees == AllTrees   \* a value TLC keeps, where a substituted body is evaluated anew

MCDepth[t \in MCTrees] ==
  CASE t.type = "template"       -> 1 + MCDepth[MCTemplates[t.name]]
    [] t.type \in {"and", "or"} ->
         LET under == {MCDepth[t.items[i]] : i \in DOMAIN t.items}
         IN  IF under = {} THEN 0 ELSE 1 + (CHOOSE m \in under : \A k \in under : k <= m)
    [] OTHER                     -> 0

Context(perTrick, strictness, darkAether, darkSuit) ==
  [globalTrick |-> 0, perTrick |-> ("Jump" :> perTrick), strictness |-> strictness,
   energyPerTank |-> 50, darkAether |-> darkAether, darkSuit |-> darkSuit]

\* The defaults, and a forgiving seed with a suit worse than none.
MCContexts == {Context(0, 2, 60, 12), Context(3, 3, 20, 40)}

MCMaxCount == [i \in {"Missile"} |-> 2] @@ [i \in {"Seekers", "DarkSuit", "LightSuit", "EnergyTank"} |-> 1]
            @@ [i \in {"DoubleDamage", "Percent"} |-> 0]
-----------------------------------------------------------------------------
(* Two worlds: this one with three pickups and an event, another with two. *)
MCSelf         == 1
MCKeyNames     == <<"Sky Temple Key 1", "Sky Temple Key 2">>
MCKeyScans     == <<101, 102>>
MCLoreScans    == <<201, 202>>
MCItemScans    == <<301, 302, 303>>
MCDisguiseName == "Missile Expansion"

At(player, address) == [player |-> player, address |-> address]

Thing(player, name, advancement, skipBalancing, trap) ==
  [player |-> player, name |-> name, advancement |-> advancement,
   skipBalancing |-> skipBalancing, trap |-> trap]

Key       == Thing(1, "Sky Temple Key 1", TRUE, FALSE, FALSE)
LinkedKey == Thing(3, "Sky Temple Key 1", TRUE, FALSE, FALSE)   \* owned by an item link
Visor     == Thing(1, "Dark Visor", TRUE, FALSE, FALSE)
Tank      == Thing(1, "Energy Tank", TRUE, FALSE, FALSE)
Ammo      == Thing(1, "Missile Expansion", TRUE, TRUE, FALSE)
Trap      == Thing(1, "Freeze Trap", FALSE, FALSE, TRUE)
Sword     == Thing(2, "Sword", TRUE, FALSE, FALSE)
Rupee     == Thing(2, "Rupee", FALSE, FALSE, FALSE)
Beaten    == Thing(1, "Event", TRUE, FALSE, FALSE)

Filled(a, b, c, d, e) ==
  At(1, 1) :> a @@ At(1, 2) :> b @@ At(1, 3) :> c @@ At(1, None) :> Beaten
  @@ At(2, 1) :> d @@ At(2, 2) :> e

MCPlacements ==
  {Filled(Sword, Visor, Trap, Key, Ammo), Filled(Sword, Sword, Rupee, Visor, Visor),
   Filled(Key, Trap, Rupee, Visor, Sword), Filled(LinkedKey, Tank, Visor, Ammo, Rupee)}

MCHintSettings ==
  [keyHints : {"disabled", "scanned", "precollected"}, lore : {"off", "my_items", "any"},
   items : {"off", "other_players", "all"}, disguise : BOOLEAN]
=============================================================================
