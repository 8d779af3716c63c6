----------------------------- MODULE HintScans -----------------------------
(***************************************************************************)
(* Hints a player gets by scanning (hint_scans.py, and what __init__.py,   *)
(* patch_data.py and the client make of it): the pillars of the Sky Temple *)
(* Keys, the translator lore holograms and the pickups themselves.  The    *)
(* same choice is written down twice, as text in the patched ISO and as a  *)
(* table in the slot data, from which the client asks the server for a     *)
(* hint once a scan is complete.                                           *)
(*                                                                         *)
(* Who learns when that a scan is complete, over lost connections and      *)
(* loads, is in ServerReports; here a tick's messages arrive.              *)
(***************************************************************************)
EXTENDS Integers, Sequences, FiniteSets

CONSTANTS
  Self,           \* this world's player
  Placements,     \* filled multiworlds: functions from locations to items
  HintSettings,   \* the option values explored
  KeyNames,       \* STK_ITEM_NAMES, in the order of KeyScans
  KeyScans,       \* SKY_TEMPLE_KEY_HINT_SCANS, their scan ids
  LoreScans,      \* TRANSLATOR_LORE_HINT_SCANS, their scan ids
  ItemScans,      \* item_scan_id of every address of this world
  DisguiseName,   \* what a disguised trap is called
  MaxScans,       \* bound on the scans completed
  None

VARIABLES
  stage, settings,
  placed,      \* location -> item; an event location's address is None
  startHints,  \* options.start_hints
  loreHints,   \* _translator_lore_hints
  texts,       \* scan -> what its text in the ISO says is where
  slotHints,   \* hint_scans in the slot data
  table,       \* ctx.hint_scans
  scanned,     \* completed in the running game
  sent,        \* ctx.sent_hint_scans
  hints        \* locations the server gave a hint for

vars == <<stage, settings, placed, startHints, loreHints, texts, slotHints, table, scanned, sent, hints>>

Init ==
  /\ stage = "post_fill"
  /\ settings \in HintSettings
  /\ placed \in Placements
  /\ startHints = {} /\ loreHints = <<>> /\ texts = <<>> /\ slotHints = {}
  /\ table = <<>> /\ scanned = {} /\ sent = {} /\ hints = {}
-----------------------------------------------------------------------------
(* The choices of hint_scans.py.                                           *)

Members(list) == {list[n] : n \in DOMAIN list}

ItemKey(location) == <<placed[location].player, placed[location].name>>
Addressed == {l \in DOMAIN placed : l.address # None}

\* The location of each key that has one: not precollected, not item-linked away.
SkyTempleKeyLocations ==
  [n \in DOMAIN KeyNames |->
     LET holders == {l \in Addressed : ItemKey(l) = <<Self, KeyNames[n]>>}
     IN  IF holders = {} THEN None ELSE CHOOSE l \in holders : TRUE]

LoreCandidates ==
  {l \in Addressed :
     /\ placed[l].advancement /\ ~placed[l].skipBalancing
     /\ placed[l].name \notin Members(KeyNames) \cup {"Energy Tank"}
     /\ placed[l].player = Self \/ (settings.lore = "any" /\ l.player = Self)}

\* Any order of the shuffled candidates, an item at most once, padded with None.
LoreChoices ==
  LET total  == Len(LoreScans)
      kinds  == Cardinality({ItemKey(l) : l \in LoreCandidates})
      count  == IF kinds < total THEN kinds ELSE total
      orders == {c \in [1 .. count -> LoreCandidates] :
                   \A i, j \in 1 .. count : ItemKey(c[i]) = ItemKey(c[j]) => i = j}
  IN  IF settings.lore = "off" THEN {[i \in 1 .. total |-> None]}
      ELSE {[i \in 1 .. total |-> IF i <= count THEN c[i] ELSE None] : c \in orders}

\* CreateHints allows HINT_PRIORITY for the sender's own items only.
StatusOf(location) == IF placed[location].player = Self THEN "PRIORITY" ELSE "UNSPECIFIED"

\* Locations of this world whose pickup gets a SCAN of its own.
ItemScanHintEntries ==
  {l \in Addressed :
     /\ l.player = Self /\ settings.items # "off"
     /\ placed[l].player = Self => settings.items = "all" /\ ~(placed[l].trap /\ settings.disguise)}
-----------------------------------------------------------------------------
(* Generation, in the order of AP's stages.                                *)

PostFill ==
  /\ stage = "post_fill"
  /\ startHints' =
       IF settings.keyHints = "precollected"
       THEN {KeyNames[n] : n \in {k \in DOMAIN KeyNames : SkyTempleKeyLocations[k] # None}}
       ELSE {}
  /\ stage' = "balancing"
  /\ UNCHANGED <<settings, placed, loreHints, texts, slotHints, table, scanned, sent, hints>>

\* Progression balancing may still exchange items after post_fill.
Balance ==
  /\ stage = "balancing"
  /\ \/ placed' = placed
     \/ \E a, b \in Addressed :
          /\ placed[a].advancement /\ ~placed[a].skipBalancing /\ ~placed[b].advancement
          /\ placed' = [placed EXCEPT ![a] = placed[b], ![b] = placed[a]]
  /\ stage' = "pre_output"
  /\ UNCHANGED <<settings, startHints, loreHints, texts, slotHints, table, scanned, sent, hints>>

PreOutput ==
  /\ stage = "pre_output"
  /\ loreHints' \in LoreChoices
  /\ stage' = "generate_output"
  /\ UNCHANGED <<settings, placed, startHints, texts, slotHints, table, scanned, sent, hints>>

\* A text that names an item and where it is; Nothing says neither.
Nothing == [item |-> <<>>, at |-> None]
Names(location) == [item |-> ItemKey(location), at |-> location]

KeyText(n) ==
  IF settings.keyHints = "disabled" \/ SkyTempleKeyLocations[n] = None THEN Nothing
  ELSE Names(SkyTempleKeyLocations[n])

LoreText(n) == IF loreHints[n] = None THEN Nothing ELSE Names(loreHints[n])

\* A pickup's own scan says what it is, or what it is dressed up as.
PickupText(location) ==
  IF placed[location].player = Self /\ placed[location].trap /\ settings.disguise
  THEN [item |-> <<Self, DisguiseName>>, at |-> location]
  ELSE Names(location)

TextOf(scan) ==
  IF scan \in Members(KeyScans) THEN KeyText(CHOOSE n \in DOMAIN KeyScans : KeyScans[n] = scan)
  ELSE IF scan \in Members(LoreScans) THEN LoreText(CHOOSE n \in DOMAIN LoreScans : LoreScans[n] = scan)
  ELSE PickupText(CHOOSE l \in ItemScanHintEntries : ItemScans[l.address] = scan)

WrittenScans ==
  Members(KeyScans) \cup (IF settings.lore = "off" THEN {} ELSE Members(LoreScans))
    \cup {ItemScans[l.address] : l \in ItemScanHintEntries}

GenerateOutput ==
  /\ stage = "generate_output"
  /\ texts' = [s \in WrittenScans |-> TextOf(s)]
  /\ stage' = "fill_slot_data"
  /\ UNCHANGED <<settings, placed, startHints, loreHints, slotHints, table, scanned, sent, hints>>

\* JSON: keys are strings, an entry is a list of player, location and status.
Str(scan) == <<"str", scan>>
Entry(scan, location, status) == <<Str(scan), <<location.player, location.address, status>>>>

EncodeHintScans ==
  {Entry(KeyScans[n], SkyTempleKeyLocations[n], "PRIORITY") :
     n \in {k \in DOMAIN KeyScans : settings.keyHints = "scanned" /\ SkyTempleKeyLocations[k] # None}}
  \cup {Entry(LoreScans[n], loreHints[n], StatusOf(loreHints[n])) :
          n \in {k \in DOMAIN LoreScans : loreHints[k] # None}}
  \cup {Entry(ItemScans[l.address], l, StatusOf(l)) : l \in ItemScanHintEntries}

\* Then AP gives the hints of start_hints.
FillSlotData ==
  /\ stage = "fill_slot_data"
  /\ slotHints' = EncodeHintScans
  /\ hints' = {l \in Addressed : placed[l].player = Self /\ placed[l].name \in startHints}
  /\ stage' = "connect"
  /\ UNCHANGED <<settings, placed, startHints, loreHints, texts, table, scanned, sent>>
-----------------------------------------------------------------------------
(* The client.                                                             *)

\* Slot data from before lore and item scan hints, whose entries had no status.
OlderSlot == {<<e[1], <<e[2][1], e[2][2]>>>> : e \in slotHints}

DecodeHintScans(raw) ==
  [scan \in {s \in Members(KeyScans) \cup Members(LoreScans) \cup Members(ItemScans) :
               \E e \in raw : e[1] = Str(s)} |->
     LET entry == (CHOOSE e \in raw : e[1] = Str(scan))[2]
     IN  [player   |-> entry[1],
          location |-> entry[2],
          status   |-> IF Len(entry) > 2 THEN entry[3] ELSE "PRIORITY"]]

Connected ==
  /\ stage = "connect"
  /\ \E raw \in {slotHints} \cup (IF settings.lore = "off" /\ settings.items = "off" THEN {OlderSlot} ELSE {}) :
       table' = DecodeHintScans(raw)
  /\ sent' = {}
  /\ stage' = "play"
  /\ UNCHANGED <<settings, placed, startHints, loreHints, texts, slotHints, scanned, hints>>

CompleteScan ==
  /\ stage = "play" /\ Cardinality(scanned) < MaxScans
  /\ \E s \in DOMAIN texts \ scanned : scanned' = scanned \cup {s}
  /\ UNCHANGED <<settings, placed, startHints, loreHints, texts, slotHints, stage, table, sent, hints>>

GroupedByPlayer(scans) ==   \* mutant: one message per player, with the status of one of its hints
  {LET group == {s \in scans : table[s].player = p}
   IN  [player |-> p, status |-> table[CHOOSE s \in group : TRUE].status,
        locations |-> {table[s].location : s \in group}] : p \in {table[s].player : s \in scans}}

\* newly_completed_hints: one CreateHints for each player and status.
Grouped(scans) ==
  {[player |-> g[1], status |-> g[2],
    locations |-> {table[s].location : s \in {t \in scans : <<table[t].player, table[t].status>> = g}}] :
     g \in {<<table[s].player, table[s].status>> : s \in scans}}

\* The server refuses a whole CreateHints if one of its locations breaks a rule:
\* another's item only in the sender's world, and only as HINT_UNSPECIFIED.
Accepted(message) ==
  \A address \in message.locations :
    \/ placed[[player |-> message.player, address |-> address]].player = Self
    \/ message.player = Self /\ message.status = "UNSPECIFIED"

\* _handle_hint_scans
HandleHintScans ==
  /\ stage = "play"
  /\ \E completed \in {(scanned \cap DOMAIN table) \ sent} :
       /\ completed # {}
       /\ hints' = hints \cup UNION {{[player |-> m.player, address |-> a] : a \in m.locations} :
                                        m \in {g \in Grouped(completed) : Accepted(g)}}
       /\ sent' = sent \cup completed
  /\ UNCHANGED <<settings, placed, startHints, loreHints, texts, slotHints, stage, table, scanned>>

Next ==
  \/ PostFill \/ Balance \/ PreOutput \/ GenerateOutput \/ FillSlotData
  \/ Connected \/ CompleteScan \/ HandleHintScans

Spec == Init /\ [][Next]_vars
-----------------------------------------------------------------------------
(* Properties.                                                             *)

Shows(text, location) == text.at = location /\ text.item = ItemKey(location)
StartHinted == {l \in Addressed : placed[l].player = Self /\ placed[l].name \in startHints}

\* What a scan's text says is where it says, and is hinted once the scan has been
\* sent, or from the start; the server refuses none of it.  "Those two can never
\* disagree about where a hint actually points."
TextsAreHinted ==
  stage = "play" =>
    /\ \A s \in DOMAIN texts : texts[s] # Nothing =>
         (s \in DOMAIN table \/ texts[s].at \in StartHinted)
    /\ \A s \in sent : Shows(texts[s], texts[s].at) /\ texts[s].at \in hints

\* A hint tells nothing that no text told: a disguised trap stays one, and a key
\* whose pillar is silent is not given away by the pillar.
NothingElseHinted ==
  stage = "play" => \A l \in hints \ StartHinted : \E s \in scanned : Shows(texts[s], l)

\* No two holograms tell of the same item.
HologramsDiffer ==
  \A i, j \in DOMAIN loreHints :
    loreHints[i] # None /\ loreHints[j] # None /\ ItemKey(loreHints[i]) = ItemKey(loreHints[j]) => i = j

\* hint_scans.py: texts, slot data and the hints the server gives tell the same.
HintsAsShown == TextsAreHinted /\ NothingElseHinted /\ HologramsDiffer
=============================================================================
