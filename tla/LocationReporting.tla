-------------------------- MODULE LocationReporting --------------------------
(***************************************************************************)
(* What the pickup channel promises the multiworld, with no counters,      *)
(* ticks or messages: the player collects pickups, saves and loads; the    *)
(* server's record of checked locations only ever grows, and only by       *)
(* pickups that were really collected, in this timeline or in one that a   *)
(* load has undone.  Of some pickups it promises nothing: those the game   *)
(* or a load has come between reading and consuming.                       *)
(***************************************************************************)
CONSTANT Pickups

VARIABLES
  collected,   \* pickups collected in the running game
  saved,       \* pickups collected in the save file
  ever,        \* pickups ever collected
  recorded,    \* locations the server holds as checked
  doubtful     \* pickups of which nothing is promised any more

vars == <<collected, saved, ever, recorded, doubtful>>

Init ==
  /\ collected = {}
  /\ saved = {}
  /\ ever = {}
  /\ recorded = {}
  /\ doubtful = {}

Collect(p) ==
  /\ p \notin collected
  /\ collected' = collected \cup {p}
  /\ ever' = ever \cup {p}
  /\ UNCHANGED <<saved, recorded, doubtful>>

Save ==
  /\ saved' = collected
  /\ UNCHANGED <<collected, ever, recorded, doubtful>>

\* More pickups become doubtful, by a load or otherwise.
Doubt(S) == doubtful' = doubtful \cup S

Load(S) ==
  /\ collected' = saved
  /\ Doubt(S)
  /\ UNCHANGED <<saved, ever, recorded>>

Overtake(S) ==
  /\ Doubt(S)
  /\ UNCHANGED <<collected, saved, ever, recorded>>

Record(S) ==
  /\ recorded' = recorded \cup S
  /\ UNCHANGED <<collected, saved, ever, doubtful>>

Next ==
  \/ \E p \in Pickups : Collect(p)
  \/ Save
  \/ \E S \in SUBSET Pickups : Load(S) \/ Overtake(S)
  \/ \E S \in SUBSET (ever \cup doubtful) : Record(S)

Spec == Init /\ [][Next]_vars
=============================================================================
