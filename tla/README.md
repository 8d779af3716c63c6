# Verification of the Metroid Prime 2: Echoes multiworld world and client

This directory holds TLA+ models of the program in `src/metroidprime2`, the TLC
configurations that check them, and proofs that TLAPS checks. All paths below are
relative to `src/metroidprime2/` unless they say otherwise; line numbers are those of
the `map` in `PROJECT.json`, which names the lines every definition stands for.

## 1. The system

The package is an Archipelago world ("apworld"). At generation time it rolls a start,
gates and docks, builds regions and an item pool out of a Randovania database, and
writes the result down twice: as patch data and as slot data. At play time a client
patches the player's ISO, attaches to Dolphin and relays between the running game and
the multiworld server. The generation part is sequential; what is hard about it is that
the same thing is computed in several places that must agree. The play-time part is hard
because of its interleavings: one asyncio task polls the memory of a program that runs
on at full speed, which can load a save, die or be closed between two reads; the same
loop handles packets and console commands at every await; threads connect to Dolphin and
write the ISO; and the only way to make the game do something is one *remote-execution
body* plus a *pending-op byte* that says it is due.

### Inventory

| component | state | operations | what makes it correct |
|---|---|---|---|
| pickup counters (`pickup_encoding.py`, `constants.py`) | four 31-bit counters in the save, one bit per pickup | native add on pickup, `decode`, `consume_counters`' subtraction | no two pickups share a bit; carries and borrows never invent one; what is read is reported or stray |
| pickup reporting (`client.py::_handle_pickup_counters`, `_handle_game_ready`) | inventory snapshot of the tick, body, pending-op byte, LocationChecks on their way | read, guard, report, consume | nothing collected is consumed unreported, nothing uncollected is reported, a due body is not written over |
| received capacities (`client/receive_items.py`, `logic/item_mapping.py`, `patch_data.py::starting_items_config`) | none: functions of a list of items | `compute_desired_capacities`, `plan_grants`, `expression`, the start inventory | client, logic and ISO agree; receiving never lowers a capacity |
| granting (`client.py::_handle_grant_items`, `game_interface.py::grant`) | `items_received`, capacities in the game and in the save | plan, batch, body | nothing is granted twice, everything is granted in the end |
| trap delivery (`client/traps.py`, `client.py::_handle_traps`) | `processed_index`, `announced`, the index in DataStorage | fetch the index, announce, apply, record | every trap once, after its memo, none passed over |
| Freeze Trap window (`_start_freeze_window`, `_handle_freeze_window`) | `freeze_window_end`, `next_freeze_at`, `freeze_armed`, `freeze_over_pending` | open or extend, arm, check, announce the end | no freeze after "worn off"; the window closes |
| DeathLink (`on_deathlink`, `apply_pending_death`, `_handle_check_deathlink`, `/deathlink`, `death_link.py`) | `pending_incoming_death`, debounce flag, `alive_flag_seen_set` | queue, kill, poll, send | no echo, one kill each, own deaths are sent, no request is stuck |
| Dolphin connection (`dolphin_client.py`, `game_interface.py`, `dolphin_sync_task`, `/reconnect`) | hook, version, expected uuid, connection state | poll, hook in a thread, drop, reconnect | no disc made for another slot is touched; the client always finds its game again |
| ISO patching and shutdown (`patch_and_run_game`, `patcher_runner.py::patch_iso_with_ap`, `_shutdown`, `_arm_exit_watchdog`, `/export_iso`) | output file, patch thread, `_iso_patch_running`, exit timer | patch, cancel, fail, force exit | only a whole ISO is launched; a closed client ends |
| goal check (`_handle_check_goal`) | boss-skip marker, `finished_game` | arm, read, send | the goal is sent, and only for this session's deed |
| hint scans (`hint_scans.py`, `_handle_hint_scans`) | the texts in the ISO, the table in slot data, scanned bits in the save, `sent_hint_scans` | choose, write down, encode, group, send | what a text says is what the server hints; every scan reaches the server |
| HUD notifications (`notification_manager.py`, `_announce_received_items`) | queue, cooldown, `last_announced_index` | merge, pack, show, announce | what is granted is announced, what is announced is shown; the queue empties |
| tracker storage (`_send_mlvl_datastorage`, `tracker_data.py`) | last position sent; the encoded randomization | send on change; encode, regenerate | the map follows the player; a regenerated world is the world |
| item pool (`item_pool.py`) | counts | refuse options, `removed_expansion_count`, `create_item_pool` | as many items as locations; what is removed agrees with what logic was told |
| doors, elevators, portals (`logic/dock_rando.py`) | assignment under construction | shuffle, probe, sweep, reject, fall back | involution without leftovers; what the probe accepts is playable |
| logic (`logic/requirements.py`, `logic/db_reader.py`, `logic/regions.py`) | compiled requirement trees, region graph | compile, evaluate, build, prune | compiled rule = requirement; the graph says what the probe said |
| translator gates, Sky Temple Keys (`logic/translator_gate_rando.py`, `__init__.py`) | gate and lore colors, number of keys | roll, place | the start is not closed off; the number asked for is the number placed |
| generation entry points, options, patch data (`__init__.py`, `options.py`, `patch_data.py`) | options of the slot | `generate_early` ... `generate_output`, regeneration | ISO, logic and tracker tell the same world |
| DOL and script patches, item panel, developer tools | - | - | not suitable for TLA+ (machine code, display, scripts run by hand) |

Interactions. `dolphin_sync_task` calls `_handle_game_ready`, which in one tick runs, in
this order: read the inventory, the goal check, the pending-op guard, HUD messages,
traps, the freeze window, pickup counters or else grants, tracker storage, hint scans,
DeathLink. All of them that want the game to act share
the one body, so at most one of them gets a tick. `on_package` and the console commands
run on the same event loop between the awaits of a tick and write the same context
fields. The client and the server share DataStorage (trap index, position) and the
location record; the client and the game share memory; the save file shares nothing with
either and is rolled back on its own. Generation hands its randomization on by three
ways that never meet again: the region graph the fill uses, `config.json` for the
patcher, and slot data for the client and the tracker.

Hard behaviours, which are what the properties are about (every one is listed with its
line under `hazards` in `PROJECT.json`): stale reads between the inventory read and the
guard; loads that roll counters and capacities back; messages that `send_msgs` drops
without an error; a debounce flag set for a death that was never sent; effects that
precede the record of them; replies to repeated requests;
memory writes raced by the game; a hook to memory that is no longer the game's; fields
written after an await across which a new connection replaced them; a thread
that outlives the coroutine awaiting it; a half-written file that is taken for a whole
one; one count or reading computed twice, before and after the thing it counts.

## 2. Modules

| module | models | composed with |
|---|---|---|
| `PickupEncoding` | the counters as sets of one-digits: layout, add with carry and saturation, subtract with borrow and clamping, decode | |
| `LocationReporting` | abstract: the server's record grows by collected pickups only, except those of which it is said that nothing is promised | |
| `PickupChannel` | one tick of `_handle_game_ready` as far as counters go, the game, the save, the server | extends `PickupEncoding`, implements `LocationReporting` |
| `ReceiveItems` | client capacities and logic counts of a received list | |
| `StartingItems` | the inventory the patched ISO starts with | extends `ReceiveItems` |
| `ItemGrant`, `MCItemGrant` | granting ticks over the same game, save and connection | extends `ReceiveItems` |
| `TrapDelivery` | traps, with the server's DataStorage as two FIFO channels | |
| `FreezeWindow` | the window a Freeze Trap opens | |
| `DeathLink` | deaths in both directions | |
| `IsoPatching` | several sessions of the client around one output file | |
| `ServerReports` | goal, position, scans, announcements and the HUD queue: what a tick tells, and the awaits in which connections are replaced | |
| `MCClientParts` | the four parts above that share no state, one per behaviour | extends `ServerReports`, instantiates the other three |
| `DolphinHook` | the sync task's outer loop, the hook, the connecting thread, `/reconnect` | |
| `ItemPool` | `create_regions`' count and `create_items`, from the options to the pool | |
| `Requirements` | the compiler of logic requirements and the coarse evaluation: functions on the database's trees; a compiled rule is None, impossible, or a closure over what logic holds | |
| `HintScans` | the choice of hints, their text and their slot data, the client's messages and what the server accepts | |
| `References` | computations beside a second account of each, in five families: counters and integers; client, logic and ISO; the pool and what logic was told of it; hints and the texts that give them; requirements and what they mean | extends `PickupEncoding`, `StartingItems`; instantiates `ItemPool`, `HintScans`, `Requirements` |
| `MCReferences` | values for `References` | extends `References` |
| `LogicDatabase` | what `db_reader.py` loads and its accessors | |
| `Regions` | edges, rules, events, warps and pruning of the region graph | extends `LogicDatabase` |
| `DockRando` | candidates of the three pools, the probe's graph and its verdict | extends `Regions` |
| `WorldGeneration` | the stages `generate_early` to `generate_output` and the tracker's regeneration | extends `DockRando` |
| `ReachabilitySweep` | the fixed-point loop of `_reachable_nodes`, step by step | |
| `MCWorld` | a database of 36 nodes, the option values, small graphs for the sweep | extends `WorldGeneration`, instantiates `ReachabilitySweep` |
| `ComputationProofs` | theorems about `PickupEncoding` and `ReceiveItems`, and lemmas on counts and sums | extends both; three proof modules extend it |
| `PickupChannelProofs`, `ItemGrantProofs`, `TrapDeliveryProofs`, `DolphinHookProofs`, `ReferencesProofs` | theorems about the module they are named after | extend it; the first two and the last extend `ComputationProofs` |
| `ClientPartsProofs` | theorems about `MCClientParts`, part by part | extends it |
| `WorldGenerationProofs` | theorems about `WorldGeneration`, and the sweep | extends it, instantiates `ReachabilitySweep` |

Correspondence. A variable is a field of the source and has its name where TLA+ allows
it; `pc` or `step` says where a coroutine stands, and a coroutine is cut into actions
exactly where something else can act: at an await, and between two accesses to the
memory of the running game. Everything a handler does between two cuts is one action,
with the early returns as guards or disjuncts. Variables marked *history* are not in the
code; they remember what a property needs and no guard reads them. Operators marked
*mutant* are plausible wrong versions of the definition below them; no specification
uses them. They are there so that every property can be seen to fail when the code is
wrong in the way it is meant to catch (`mutants` in `PROJECT.json`).

Notable representations:

- *Counters* are sets of one-digits (`PickupEncoding`): addition, subtraction and
  decoding become first-order formulas that a prover can use for every width. That they
  are the integer operations is `RepresentationAgrees`, proved in `ReferencesProofs`.
- *Time* is replaced by the events it decides: a timeout may have passed or not
  (`fresh`, `DurationEnds`, `CoolDown`, the watchdog).
- *The game* runs between any two memory accesses of the client. A death shows in the
  health or the alive bit first; a body runs at any time; loads take many frames, so
  that a CPlayerState does not reappear within one poll.
- *The connection*: `send_msgs` on a closed socket drops its message without an error,
  raises on one that closes under it, a message in flight may be lost with the socket,
  and the framework forgets the received items on disconnect. The framework itself is
  external and modelled from how the client uses it.
- *A tick of `ServerReports`* goes through the handlers in the source's order; a grant
  there is one body for all that is received, and counters, traps and DeathLink leave
  the tick alone. HUD messages have room for a number of names instead of pixels.
- *Random draws* of generation are choices: a shuffle is the set of its outcomes, so a
  run covers every seed. Retry loops keep their order and their fallback; only the
  number of attempts is smaller.
- *Requirements* in `LogicDatabase` are sets of alternatives, each a set of items and
  events; the trees they come from, with tricks, templates, damage, counts and negation,
  are in `Requirements`.
- *The pool* is counted, not listed. The numbers (119 locations, 33 expansions, 76
  other items, 13 expansions at least, 14 tanks) are the source's own.

## 3. Checks

Seven runs must pass and four must fail. All run with two workers; the larger ones visit
several hundred thousand distinct states (`channel` 490,000, `dolphin_hook` 860,000).

| run | specification | properties | bounds |
|---|---|---|---|
| `references` | `MCReferences!Spec` | `CountersFaithful`, `AccountsAgree`, `PoolComplete`, `ReadingsAgree`, `HintsAsShown`, `ItemsOnlyHelp` | see below, per family |
| `start_seeker` | `MCReferences!Spec` | `StartInventoryMatches` (violated) | as above |
| `generation` | `MCWorld!MCSpec` | `DocksAgree`, `LogicMatchesProbe`, `WorldIsPlayable`, `EventsReachable`, `PatchAgreesWithLogic`, `RegenRestores`, `SweepIsExact` | 36 nodes, 9 combinations of options, 2 attempts; graphs of 3 nodes, 2 flags, 6 edges, 4 triggers |
| `start_room` | `MCWorld!MCSpec` | `StartIsProbed` (violated) | as above |
| `channel` | `PickupChannel!FairSpec` | `TypeOK`, `NoLostCheck`, `NoInventedCheck`, `BodyNeverOverwritten`, `ImplementsReporting`, `EventuallyChecked` | 2 pickups in one counter |
| `channel_lost_link` | `PickupChannel!Spec` | `LosslessOverDisconnects` (violated) | as `channel` |
| `grant` | `ItemGrant!FairSpec` | `TypeOK`, `NoOverGrant`, `EventuallyGranted` | start inventory 1, 3 items, 2 loads, one adjustment per body |
| `traps` | `TrapDelivery!FairSpec` | `TypeOK`, `AtMostOnce`, `NothingSkipped`, `EffectAfterMemo`, `EventuallyApplied` | start inventory 1, 3 items of 3 kinds, 2 requests outstanding |
| `client_parts` | `MCClientParts!FairSpec` | `TypesOK`, `FreezesAwaited`, `DeathsOneToOne`, `LaunchWhole`, `ReportsTruthful`, `AnnouncedFaithfully`, `EveryWindowCloses`, `LaterDeathStillSends`, `PendingResolved`, `ClosedClientExits`, `ReportsArrive` | 4 traps; 2 own deaths, 2 DeathLinks; 3 jobs; the sessions of `Sessions` |
| `iso_watchdog` | `IsoPatching!Spec` | `WatchdogSparesPatch` (violated) | 2 jobs |
| `dolphin_hook` | `DolphinHook!FairSpec` | `SparesOtherGames`, `FindsItsGame` | none: 7 discs, finite as it is |

Several properties are conjunctions of named parts, each defined in the module of its
component:

- `CountersFaithful`: digit sets are integers (`RepresentationAgrees`), what was
  collected since the last consume decodes to itself (`Lossless`), and every bit is
  reported or consumed as stray (`NothingUnaccounted`).
- `AccountsAgree`: the client's capacities are the logic's counts
  (`LogicAgreesWithClient`), and a start inventory is in the ISO as granted
  (`StartMatchesClient`).
- `PoolComplete`: the pool fills the locations, drops nothing but Missile Expansions,
  keeps every key in one place, splits traps by weight, leaves the expansions logic asks
  for, and `removed_expansion_count` told logic the truth beforehand.
- `ReadingsAgree`: a compiled rule means what its tree means (`CompiledKeepsMeaning`),
  the sweep that judges dock candidates never refuses an edge logic could use
  (`CoarseIsOptimistic`), and one item or event more closes no rule (`RulesOnlyOpen`).
- `ItemsOnlyHelp`: one received item more lowers no capacity, which is why negative
  differences may be ignored.
- `HintsAsShown`: what a text says is where is what the slot data asks a hint for, the
  server refuses none of it, holograms differ, disguised traps stay disguised, and
  nothing else is hinted.
- `DocksAgree`: both faces of a door have one lock, save stations stay open when the
  option says so, elevators and portals can be taken back. `LogicMatchesProbe`: the
  graph the fill uses reaches with any inventory what the probe's reached.
  `WorldIsPlayable`: pools accepted one after another still hold together
  (`AcceptedWorldIsPlayable`), and without them the gates leave a way out
  (`GatesLeaveAWayOut`). `EventsReachable`: pruning leaves no event location behind that
  the accessibility test would ask for and nobody can reach.
  `SweepIsExact`: the loop ends having found exactly the least closed set, in whatever
  order Python's set is walked.
- `FreezesAwaited`, `DeathsOneToOne`: the two safety properties of `FreezeWindow` and of
  `DeathLink`. `ReportsTruthful`: the goal is only sent for this session's deed
  (`GoalNotSpurious`), and what the client has marked as sent, so as never to send it
  again, is with the server or on its way there (`TakenForSaid`): the goal, every scan, and
  as the last word on each half of the position. `AnnouncedFaithfully`: merging and packing conserve lines, an item is
  announced once per connection, and what was granted was announced. `ReportsArrive`:
  goal, scans and position reach the server, and the HUD queue empties.

Why the bounds are enough. *Counters* (`references`): with three used bits of four there
is a carry inside the used range, one out of it, saturation, and with five pickups on
six slots a stray slot; two counters show that nothing crosses over. *Capacities*: every
list of up to three items under every option; two copies repeat and one more mixes, and
a tank cap of 2 is passed. *Pool*: the source's own numbers, with option values at both
sides of every `if` and at the limits of the refusals, and weights that split evenly,
with one left over, and with one left over that a trap with an exact share may get.
*Requirements*: every kind of leaf, under "and", "or" and templates, two levels deep;
folding never looks further than a child. *Hints*: two keys, two holograms, three
pickups and a second world with two locations, four placements (a key here, there, owned
by an item link or nowhere; repeated items, disguised traps), every option value, and
two scans in either one tick or two. *Generation*: the database has one of everything
the code treats differently (its comment lists them), and one option set per branch and
one for all pools together; with two attempts a candidate is accepted at first, after a
rejection, or never. *Sweep*: a flag behind an edge that another flag opens, found
before or after its edge in a pass, is what a fixed point can get wrong. *Channel*: two
pickups in one counter are what it takes for a second pickup to land between the read
and the consume of the first, and for a stale consume to clamp it away; counters never
influence each other. A stale consume that borrows, and so invents a pickup, takes a
third pickup between the two: no run has it, the theorems have. Bodies, saves, loads,
crashes and reconnects are not bounded at all, and may come at any point of a tick.
*Grants*: a budget of one adjustment leaves leftovers with the very first launcher,
whose two capacities need two bodies; one load rolls back, one more rolls back the
repetition. *Traps*: three positions are one before, one at and one after the index, and
two outstanding requests are one answer too many. *Freeze*: a window, its extensions and
one that opens anew. *DeathLink*: a second DeathLink while the first is queued, and a
second death after one that was reported, are all the history the flags have. *ISO*: two
jobs collide, or follow each other across sessions; a third finds what they leave
behind. *Reports*: each session crosses one kind of deed with the losses and loads that
can undo it (every goal; two scans; rooms of two regions; items that merge, that
overflow a message, and that the save reflects already); fields of different reports
never influence each other.

History variables instead of exclusions. Where the code cannot keep a promise under some
event, the event stays in the model and the property says precisely what it costs:
`stale` (in `ItemGrant`, a body ran between the inventory read and the guard; in
`PickupChannel`, the counters that a body or a load took down between a tick's read and
the moment the game consumes what was read), `lost` (locations whose message never
arrived), `unrecorded` (traps whose Set was lost), `missed` (effects on a player that was
not there), `taken` (memos shown, or gone down with the emulation), `cut` (windows dropped
by a reconnect), `dropped` (a closing memo that went down with the emulation), `givenUp`
(a death whose sending failed: no slot, a closed socket, an unreadable room), `forgot`
(client restarted while the player was dying), `doubled` (`/export_iso` during a patch),
`killed` (a client that ended while it was writing an ISO, by the watchdog or otherwise),
`moved` (the disc changed, or the server first told the seed, after the poll of the tick),
`raced` (a Connected fell into the await of a report). `stale` is of one counter and for
good: after a stale consume, a counter may lack a pickup or hold one that was never
collected, and nothing in the client tells.

### Fairness

- The loops of the client keep running: weak fairness of `Tick`, `Hook`, `Poll`,
  `SyncTask`, `Call`, and of the framework's reconnecting and delivery.
  `dolphin_sync_task` catches every exception and goes on; calls into Dolphin and sleeps
  end.
- The game gets to an armed body: strong fairness of `RunBody` where loads and restarts
  disable it again and again. Bodies run in the game's frame loop, many frames per tick.
- Handlers that share ticks are strongly fair (`ReportPickups`, `WriteGrantBody`,
  `AnnounceTrap`, `ApplyTrap`): they are enabled only on ticks that earlier handlers
  leave free, and those are spaced by their cooldowns (HUD messages by the notification
  cooldown, traps by `MIN_TRAP_SPACING`), which are longer than a tick.
- `client_parts` states three conditions for its four parts (a behaviour stays in its
  part, so one condition on a disjunction is the conjunction of the parts' conditions):
  weak fairness of `Runs` (the sync loop, the window's clock, and the threads, cancelled
  coroutines and exit timer of a closed client), weak fairness of `Progress` (bodies and
  loads end, messages arrive, timeouts run out), strong fairness of `GetsATurn` (the
  freeze handler gets a free tick; a callback gets one of the awaits). In `ServerReports`
  the grants and the HUD queue do compete for one body: `MessagesShown` needs no fairness
  between them.
- `SweepStep` is weakly fair: the loop is sequential code.
- Nothing is assumed of the player, the other players, connections or crashes; where a
  liveness property needs a stable connection, it says so (`StableConnection`,
  `<>[](linked /\ enabled)`, `<>[](OwnGameRuns /\ LoopFree)`), or its losses are bounded
  by the session (`ReportsArrive`).
- `IsoPatching`: a patch ends or fails, the timer rings, cancelled coroutines unwind. A
  stray thread that never ends is part of the model, and is why the watchdog exists.

### Where the code disagrees with its documents

1. `channel_lost_link`. `src/PLAN.md` line 1049 calls the channel "lossless for any
   number of pickups collected over any disconnect length". `_handle_pickup_counters`
   consumes the counters as soon as `send_msgs` returns, which it also does when the
   socket is closed or dies with the message: the location is in no counter any more and
   is never sent again (this client does not fill `locations_checked`, which the
   framework would resend). `NoLostCheck` shows that nothing else loses a location.
2. `iso_watchdog`. The comment on the watchdog (client.py 1096-1098) says it is skipped
   while an ISO patch is writing. Closing the window cancels `patch_and_run_game`, whose
   `finally` clears `_iso_patch_running` while its thread writes on; the watchdog then
   ends the process and leaves the partial file the comment warns of.
3. `start_room`. `logic/dock_rando.py` 41-45 says that the acceptance test rejects
   candidates that leave the start state without a handful of pickups. The test sweeps from
   `db.starting_location`, which is not the start `starting_room` rolled before it: the
   accepted assignment may leave a randomized start without a single pickup.
   `WorldIsPlayable` shows that the vanilla start is safe.
4. `start_seeker`. `patch_data.py` 132-135 says that the launcher's flag is set in the
   ISO so that it matches what `missile_expansions_unlock_launcher` grants in-game. The
   Seeker Launcher's own missiles count there but not for the client: a start with it
   alone has a launcher that neither client nor logic grants. `StartMatchesClient` shows
   that nothing but that, and repeated items, differs.

The history variables record further ones, which have no run of their own:

- `stale`: `read_inventory` comes before `has_pending_op` (client.py 495-499), while
  `src/PLAN.md` line 473 gives the order as guard first; a body that runs in between is
  granted, or consumed, a second time. A second consume clamps away the bit of a pickup
  collected in between, which is then never reported, or borrows from it and reports one
  that was not collected.
- `unrecorded`: `client/traps.py` lines 3-11 and `docs/en_Metroid Prime 2 Echoes.md` line
  44 say that reconnecting never repeats a trap; a trap whose Set is lost with the
  connection is repeated.
- `taken`: `_handle_traps` applies an effect "once the game has consumed" its memo; a
  restarted emulation clears the byte without having shown it.
- `cut`: the docs (line 45) say that a window is lost when the *client* is restarted; a
  mere reconnect to the server loses it too.
- `dropped`: client.py 830-831 say that a HUD message says so once the window closes;
  `freeze_over_pending` is cleared when the message is armed, and an emulation that is
  restarted before it has shown it does not show it later.
- `givenUp`: `_handle_check_deathlink` sets the debounce flag before it looks for the slot
  (client.py 553-556), which the tick has only tested when it began, and before
  `send_death`, which drops its message on a closed socket: that death is never sent.
- `lifeSeen`: client.py 266-269 says that a later death still sends normally; a life that
  no poll saw ends unreported, because only such a poll clears the debounce flag.
- client.py 451-453 says that there is never concurrent access to the interface;
  `/reconnect` runs while the sync task awaits the connecting thread. `FindsItsGame` and
  `SparesOtherGames` hold in spite of it.
- A disc whose build string carries no uuid passes whatever uuid is expected
  (`game_interface.py` 290-294, 308): an unpatched Echoes reads as `IN_GAME`, and ticks
  write to it. `SparesOtherGames` speaks of discs made for another slot only.
- `doubled`: `/export_iso` during a patch can start the emulator with a half-written file.
- Copies of default items in `start_inventory` are called meaningless
  (`item_pool.py` 252-253, `src/PLAN.md` 337), but they add up in the ISO: a second Morph
  Ball starts its slot with 2. This is what `WithoutRepeats` excepts.
- `src/PLAN.md` R.6 has the exclusion of keys from lore hints follow
  `sky_temple_key_hints`; `hint_scans.py` always excludes them, as the model does.

## 4. Proofs

| theorem | states | assumes |
|---|---|---|
| `ComputationProofs!DecodeInverts` (with `SlotsUnique`) | no two pickups share a bit; `Decode` returns exactly the pickups whose bit is set | `LayoutAssumption` |
| `ComputationProofs!DesiredMonotone` | a longer received list never calls for less | `CapAssumption` |
| `PickupChannelProofs!TypeCorrect` | `Spec => []TypeOK` | `LayoutAssumption` |
| `PickupChannelProofs!BodySafe` | `Spec => BodyNeverOverwritten` | nothing |
| `PickupChannelProofs!CountingHolds` | `Spec => []NoInventedCheck` (with `OneBitPerPickup`) | `LayoutAssumption` |
| `PickupChannelProofs!ChannelLossless` | `Spec => []NoLostCheck` | `LayoutAssumption` |
| `PickupChannelProofs!ChannelImplementsReporting` | `Spec => ImplementsReporting` | `LayoutAssumption` |
| `ItemGrantProofs!GrantTypeCorrect`, `NothingGrantedTwice` | `Spec => []TypeOK`, `Spec => []NoOverGrant` | `GrantAssumption` |
| `TrapDeliveryProofs!TrapTypeCorrect`, `TrapsInOrder` | types; what is announced is the first trap beyond the index | `TrapAssumption` |
| `TrapDeliveryProofs!TrapsAppliedOnce`, `NoTrapPassedOver`, `MemoComesFirst` | `Spec => []AtMostOnce`, `[]NothingSkipped`, `[]EffectAfterMemo` | `TrapAssumption` |
| `ClientPartsProofs!FreezesAreAwaited` | `PartsSpec => []FreezesAwaited` | `Bounds` |
| `ClientPartsProofs!DeathsMatch`, `LaterDeathsSend` | `PartsSpec => []DeathsOneToOne`, `PartsSpec => LaterDeathStillSends` | `Bounds` |
| `ClientPartsProofs!IsoLaunchedWhole` | `PartsSpec => []LaunchWhole` | `Bounds` |
| `ClientPartsProofs!ReportsTypeCorrect`, `ItemsAnnouncedFaithfully` | types of the reports' messages and counts; `Spec => []AnnouncedFaithfully`, for the reports with or without the other parts | `ReportsAssumption` |
| `ClientPartsProofs!ReportsAreTruthful` (with `GoalReportedTruly`, `NothingSaidIsLost`) | `Spec => []ReportsTruthful`, from `[]GoalNotSpurious` and `[]TakenForSaid` | `ReportsAssumption` |
| `ClientPartsProofs!PartsTypeCorrect` | `PartsSpec => []TypesOK` | `Bounds`, `ReportsAssumption` |
| `DolphinHookProofs!HookTypeCorrect`, `SparesOtherGamesHolds` | `Spec => []TypeOK`, `Spec => SparesOtherGames` | nothing |
| `ReferencesProofs!CountersAreFaithful` | `Spec => []CountersFaithful` | `LayoutAssumption` |
| `ReferencesProofs!ItemsAreTyped`, `ItemsNeverHurt` | types; `Spec => ItemsOnlyHelp` | `CapAssumption`, `BonusAssumption` |
| `ReferencesProofs!AccountsAlwaysAgree` | `Spec => []AccountsAgree` | `CapAssumption`, `BonusAssumption` |
| `ReferencesProofs!PoolIsComplete` | `Spec => []PoolComplete` | `RoomAssumption`, `OptionAssumption` |
| `ReferencesProofs!HintsAreAsShown` | `Spec => []HintsAsShown` | `ScansAssumption`, `HintSettingsAssumption`, `PlacementsAssumption` |
| `ReferencesProofs!ReadingsAlwaysAgree` | `Spec => []ReadingsAgree` | `TreesAssumption`, `ItemsAssumption`, `DamageAssumption`, `LockAssumption` |
| `WorldGenerationProofs!TrackerRegenerates` | `Spec => []RegenRestores` | the database |
| `WorldGenerationProofs!PatchIsLogic` | `Spec => []PatchAgreesWithLogic` | the database |
| `WorldGenerationProofs!DocksFitTogether` | `Spec => []DocksAgree` | the database |
| `WorldGenerationProofs!ProbeIsLogic` | `Spec => []LogicMatchesProbe` | the database |
| `WorldGenerationProofs!WorldsArePlayable` (with `AcceptedWorlds`, `GatesOpenTheStart`) | `Spec => []WorldIsPlayable`, part by part | the database; the second part `WayOutAssumption` |
| `WorldGenerationProofs!ReachedIsLeastClosed` | `Reached` is the least closed set of nodes that holds the start | the database |
| `WorldGenerationProofs!SweepSound`, `SweepComplete`, `SweepComputesReached` | on every graph, the sweep finds only what any closed set holds, and all that is open when it stops; on a probe's graph that is `Reached` | nothing; the database |
| `WorldGenerationProofs!SweepRunsOut` | every step of the sweep leaves fewer steps to take, at first at most (nodes + 1) * (nodes + flags), and until it is done one is left | the database, with finitely many flags |

A specification named `Spec` in `ClientPartsProofs` is that of `ServerReports`; of it,
`PartsSpec` is the composition. "Nothing" means no condition on any constant. The
assumptions are named in the modules that declare the constants, and TLC evaluates them
in the runs:

- `LayoutAssumption`: what `pickup_encoding.py` asserts, that the pickups fit on the
  counters. `CapAssumption`, `GrantAssumption`, `TrapAssumption`, `Bounds`,
  `BonusAssumption`: bounds and option values are numbers, lists are lists.
- `ReportsAssumption`: a session's places are rooms, its items a list, a message has room
  for a name.
- `RoomAssumption`: all of the pool but its filler fits. `OptionAssumption`: option
  values are those `options.py` admits.
- `ScansAssumption`: scan ids name assets, so no two are alike. `HintSettingsAssumption`:
  the three values of an option. `PlacementsAssumption`: the multiworld is finite, and
  every address of this world has a scan.
- `TreesAssumption`: a tree has the fields of its kind, and neither a part nor a template
  leads back to it (`Depth`; `requirements.py` raises on a recursive template).
  `ItemsAssumption`: a flag is held once at most, a constant not at all.
  `DamageAssumption`: a suit of the database adds no damage; option values are natural
  numbers. `LockAssumption`: the event of a broken lock is an event.
- "The database" is what `db_reader.py` loads: `OrderAssumption` (a finite list of
  distinct nodes), `ConnectionsAssumption` (connections stay in a room, a dock leads to a
  node and has a known weakness), `RegionsAssumption`, `GatesAssumption`,
  `CreditsAssumption`, `DoorsAssumption` (a door's other face points back),
  `PassagesAssumption` (elevators and portals can be passed, one elevator to a room) and
  `NamesAssumption` (no item or color is named like a dock). `WayOutAssumption` is
  stronger: along edges that no gate can close, and with vanilla docks, the start reaches
  a pickup. It is why `randomizable_gate_ids` leaves out the gates that ship unlocked; a
  database for which it fails would need a probe there.

All hold for every number of pickups, counters, bits, traps, deaths, jobs, requests,
items, keys, scans and locations, every pool, slot data, option values, body budget,
session, database, requirement tree, draw and graph.

*The channel.* `NoLostCheck` is not inductive: it says nothing of what a tick has read
or armed. `NothingStale` adds that what is read or armed is still part of the counters
when it is acted upon, of every counter that is not `stale`; `Counting` adds that all
copies of such a counter (running, saved, read) only hold bits of pickups collected in
their timeline, so that adding a pickup's bit never carries and subtracting a reading
never borrows (`PlusFreshBit`, `MinusSubset`): addition is set union and consumption set
difference. On that `ReportedFirst` says that what is armed has been reported, in the
save's timeline as well as in the running one, which is what sending before consuming
buys; with it `Lossless` is inductive. The refinement follows from `Counting`: what is
delivered was collected at some time, or its counter was overtaken, which
`LocationReporting` has as a set of pickups of which nothing is promised any more.

*Grants.* `NoOverGrant` speaks of capacities and the armed body only. `GrantsAccounted`
adds that what this connection has received is a prefix of what the server holds, that a
body is written only when none is due, that a save never holds more than the game, and
that from the read to the write the snapshot is no less than the capacity. A plan is
then at most the received list's worth minus the capacity, and by `DesiredMonotone` the
prefix is worth no more than the whole. The invariant is `stale \/ GrantsAccounted`.

*Traps.* Three layers. `Linked` and `Fetching` say that messages travel on a connection
that is up, and that a connection that does not know its index yet has only asked for
it, so that every reply still equals the server's record. On that `AnnouncedIsNext`
pins the announced trap to the first one beyond the index. `EffectsTracked` follows an
effect from the hit to the record: it is recorded, on its way, about to be sent, or
unrecorded for good; with `IndexCovers` a known index is beyond all of those, so a second
hit can only be of an unrecorded trap. `AllHandled` says of every copy of the index
(the server's, the client's, in requests and replies) that no trap up to it is left, and
`MemoShown` that the memo of what is announced is in the body or has been taken.

*Freeze, DeathLink, ISO.* The parts of `MCClientParts` share no variable: each has an
invariant over its own, and the steps of the others leave it alone. Freeze: no duration is
left once the closing message is armed or shown, and then nothing arms a freeze until
another trap. DeathLink: a *settled* death (sent, or caused by the group)
keeps showing to every poll and keeps the debounce flag set until the player is back
(`Debounced`; the poll that has read the health and not yet the bit is why it has three
conjuncts), and a poll that saw the player alive leaves no flag behind (`Rearmed`), until a
death is given up. ISO:
unless a second patch was asked for there is one active job (`OneAtATime`), and what it
writes or is about to launch is at the path (`OutputThere`); a process that is gone has
no active job, and unless it ended with one writing (`killed`) the file at the path is
whole or absent, which is what carries this across sessions.

*Reports.* Places and a marker seen to appear prove the goal (`PlacesMean`,
`MarkerMeans`); whatever tells the server of it was armed by one of them. A marker may be
there from the start, but arming takes a read without it, after which only the deed sets
it: the saves a session loads are from before the goal (section 6).

What the client takes for said (`TakenForSaid`) is not inductive either: a report is sent
first and recorded after the await, in which the server may have got it, or the connection
may have gone with it. `SaidInv` counts a report as said from the moment its await is
open (`Saids`, with the scans the tick has `listed`); a connection that ends in that await
makes the session `raced`, and any other end makes the client forget all it said. For the
position it is the *last* message about a half that counts (`PositionSaid`): the channel
is FIFO, so delivering a message changes what is stored to the client's last word only
when no later one is on its way. The other half of `ReportsArrive`, that something on its
way gets there, is fairness and stays with TLC.

*Announcements.* Four invariants. `QueueKept`: the lines told are those shown plus those
in the queue, message by message; merging adds to one message the lines it stands for and
packing only moves the front one, so neither creates a line, because a line is named in
one message at most (`OneEach`). `Granting`: the inventory a tick read, the body it armed
and what the save reflects lag behind what was granted. `ToldEnough`: every line of a
position granted, or announced, was told. `ToldNotTwice`: within a connection a line was told
as often as it occurs up to `last_announced_index`, and once through the list more for
every connection lost before.

*Counters.* The digit sets and the integers go together step by step (`CountersKept`),
which comes down to one statement about addition and one about subtraction in binary.
They are proved over *halves*: `v \div 2^k`, of which digit k is the parity. Adding a
one-digit adds to half k either the shifted digit, or one if all digits between are set
(`Carry`), or nothing; subtracting leaves half k short by one exactly if the lower
digits of the one reading are below those of the other (`Borrowed`). Each is an induction
over k, carried out as a least counterexample (`Induction`), since the library's
induction theorem takes an operator. As long as pickups are distinct the digits are
theirs, and decoding is `DecodeInverts`.

*Accounts.* The client folds its rules over the received list, logic counts copies, the
ISO adds up gains. The three are compared by copies: a sum over a list, in which at most
three items weigh anything in a slot, is the weighted sum of their copies
(`WeightedSum`), and a progressive stage is filled by the same count in each account
(`StagesFilled`). The start inventory covers what the client would grant slot by slot;
without repeats every item outside the amounts counts once on both sides.

*The pool.* One conjunct of `PoolKept` per phase says what the phase has left in the
pool, as a formula over the options; `TrapSplit` needs the most. The shares of three
traps are quotients of a product; what rounding leaves over is handed out in a shuffled
order, one each, and is less than the number of traps with a weight, so no trap gets two
(`EachToItsOwn`). The first attempt at this proof refuted the property: a trap whose
share is exact may get one of the leftovers, so its count is the share *or one more*;
`TrapSplit` had excluded that, and no weights in the run had told the difference (2, 1, 1
now do). That logic knows what is removed (`RemovedIsMissing`) needs `RoomAssumption`:
the bonus is computed from the options before there is a pool, and agrees with it as
long as nothing but expansions has to go.

*Hints.* `HintsKept` says stage by stage what has been written down: start hints, lore
hints, texts, slot data, table, and what was sent. What is chosen depends only on options,
holograms and where items are (`Settled`); progression balancing may exchange items
between start hints and lore hints, but it never moves a key, so who holds which key
stands (`StartHintsKept`). Lore hints, texts and slot data are written from one state of
the multiworld (`FactsStand`). JSON turns the numbers of the table into strings, and reading
them back needs that no two become the same (`StrInjective`). The client's messages group
scans by player and status, so what a message asks to hint is the union over its scans
(`MessageHas`, `HintsOfAll`); the server refuses none, because all that is hinted is an
item of this player, or lies in this world and has no status (`NoneRefused`).

*Requirements.* Compiler, meaning and coarse evaluation are recursive functions on
`Trees`, and no theorem of the library can be used for their recursion. For any step
that looks at parts of smaller `Depth` only (`Recurs`), there are functions that follow it
up to each depth, and two of them agree as far as both do; taken together they follow it
everywhere (`TreeRecursion`), and there is one such function only. From then on each is
known by its equation, and an induction over `Depth` (`TreeInduction`), which is a least
counterexample again, compares two of them node by node. Folding loses nothing (`CombineAnd`, `CombineOr`, leaf by leaf: an amount beyond
one copy, an item that is absent, damage below one point). One more item only adds
multipliers, and `LeastReduction` takes the least; one more tank only adds energy.

*Generation.* One invariant, `DrawnAndRecorded`. `Drawn`: what each step has drawn has
the shape the later ones rely on (locks come in pairs, shuffles are involutions on their
docks), and once a pool has been drawn the whole of the draws meets the bar (`Probed`),
as every pool is probed together with those before it. `Recorded`: region graph, slot
data, patch and tracker are each a function of the same draws. `DocksAgree`,
`PatchAgreesWithLogic` and `RegenRestores` then speak of functions: a list of pairs or
of names reads back as the map or node it was written from. `LogicMatchesProbe` compares
two graphs. `Reached` is recursive, in rounds; `ReachedIsLeastClosed` replaces it by the
least closed set, by induction on the number of nodes not yet reached. A set closed in
one graph is then closed in the other: pruned event locations were out of reach, a "Lock
Broken" flag the probe does not have belongs to a dock without an edge, which nothing
else asks for (`RuleNames`), and a warp leads from a save station to the start, which is
reached already. With it `AcceptedWorldIsPlayable` follows from the probe's verdict; with
vanilla docks nothing is probed, and `GatesLeaveAWayOut` follows from `WayOutAssumption`,
since a larger graph reaches more.

*Dolphin.* From the poll to the end of the tick, and unless something `moved`, the hook
leads to the game the poll saw, whose uuid is not another slot's once the server has told
which to expect, or there is none; `/reconnect` may take the version back and restore it,
and reads the same id when it does. `SeedKnown`: an authenticated server has told the seed.

*The sweep.* A pass without a change has seen every visited node, in any order, with the
final flags (`ScannedSettled`): then the result is closed. Conversely every closed set
around the start contains what is visited and granted at every step, so the result is
the least one. `SweepComputesReached` closes the circle: on the edges of a probe, one for
each alternative without the items held, that is what `DockRando` means by `Reached`. That the loop cannot go on for ever is a weight
(`StepsLeft`): each node and flag not yet found, and a pass that found something, weigh
more than all nodes together, and each node left in the pass's snapshot weighs one; every
step makes the sum smaller.

Only model-checked:

- all liveness: `EventuallyChecked`, `EventuallyGranted`, `EventuallyApplied`,
  `EveryWindowCloses`, `PendingResolved`, `ClosedClientExits`, `ReportsArrive`,
  `FindsItsGame`, and that the sweep ends (half of `SweepIsExact`; that its steps run out
  is proved). Liveness under fairness is beyond the prover. Of `ReportsArrive` the safety
  half is proved, that nothing is taken for said which is neither said nor on its way;
- `EventsReachable`: nothing in the code makes it true. Pruning removes events whose docks
  are gone, the rest is a fact about the database, which TLC checks on the small one.

## 5. Plan

Done: everything listed in section 2. What would add most from here:

1. *Sharing a tick*: traps, freeze, counters and grants in one module in the order of
   `_handle_game_ready`, with `ServerReports` for the HUD, so that the strong fairness of
   handlers in section 3 becomes weak fairness of the loop.
2. *Proofs*: `EventsReachable` from a condition on the database (every event that is not
   pruned lies behind requirements that the items alone meet), if the real database can
   be shown to satisfy it; and one refinement more, of `ItemGrant` by the granting tick
   of `ServerReports`, which the two now model apart.
3. *Database*: the parsing of the Randovania JSON and the real database's structure.
4. *Negated events*: the sweep with edges that close again. `_event_gated_satisfied` is
   not monotone on them; the database has few, and `CoarseIsOptimistic` excepts them.

## 6. Not modelled

- What patches write: instruction sequences, script edits, the container format and the
  contents of the ISO other than the start inventory, docks, gates, names and hint texts.
- Options that only reach wording, appearance, beam configuration or damage numbers. The
  dark suit's damage may exceed the Dark Aether damage; logic then takes the smaller,
  which the context values of `Requirements` include, while the ISO takes the suit's.
- Wording and colors of hint texts, memos and log lines.
- Slot data that predates the randomization's encoding: the tracker then rolls anew, on
  purpose.
- A finished save loaded into a session whose marker is armed does report the goal; the
  model loads saves of the same game only.
- Amounts of damage and ammo of traps, and random moments of freezes.
- A single grant too large for a body: adjustments all have one size.
- A stale memory region that reads as zeroes (`game_interface.py` 222), which keeps its
  hook.
- The Randovania database itself; negated events in the sweep (plan 4).
- Item panel, tracker pages, logging, developer tools.
