----------------------------- MODULE DolphinHook -----------------------------
(***************************************************************************)
(* The connection to Dolphin (EchoesInterface.connect_to_game and          *)
(* get_connection_state, client.py::dolphin_sync_task, _run_blocking and   *)
(* /reconnect).                                                            *)
(*                                                                         *)
(* The sync task polls, and hands connecting to a thread that it awaits.   *)
(* /reconnect connects too, on the event loop, at any await of the sync    *)
(* task.  The hook caches a memory region that a restarted emulation no    *)
(* longer uses, the game id is there before the build string, and the uuid *)
(* to expect is known only once the server has answered.                   *)
(***************************************************************************)
EXTENDS Integers

VARIABLES
  phase,     \* the emulation: "off", "booting", "menu" or "world"
  disc,      \* the game in it
  hook,      \* "none", "good", or "stale": of a region that is not the emulation's
  version,   \* EchoesInterface.version
  uuid,      \* expected_uuid is known
  slot,      \* the server connection is authenticated
  shown,     \* ctx.connection_state
  state,     \* what the poll of the current tick returned
  pc,        \* where the sync task stands
  at,        \* where each connect_to_game under way stands
  got,       \* the game id it has read
  moved      \* history: the emulation, or what is known of its seed, has changed
             \* since the poll of the current tick

gameVars   == <<phase, disc>>
serverVars == <<uuid, slot>>
accessVars == <<hook, version>>
callVars   == <<at, got>>
vars == <<gameVars, serverVars, accessVars, callVars, shown, state, pc, moved>>

Versions == {"ntsc", "pal"}
Ids      == Versions \cup {"other", "empty"}

\* A disc that was never patched, or by an old patcher, carries no uuid: "none".
Seeds    == {"ours", "other", "none"}
Discs    == [id : Versions, seed : Seeds] \cup {[id |-> "other", seed |-> "other"]}

States   == {"DISCONNECTED", "WRONG_GAME", "WRONG_SEED", "IN_MENU", "IN_GAME"}
Callers  == {"thread", "command"}

Init ==
  /\ phase = "off"
  /\ disc \in Discs
  /\ hook = "none"
  /\ version = "none"
  /\ uuid = FALSE
  /\ slot = FALSE
  /\ shown = "DISCONNECTED"
  /\ state = "DISCONNECTED"
  /\ pc = "poll"
  /\ at = [c \in Callers |-> "idle"]
  /\ got = [c \in Callers |-> "empty"]
  /\ moved = FALSE

MidTick == pc \in {"warn", "handle"} /\ state = "IN_GAME"

\* A memory access succeeds.
Reaches == hook = "stale" \/ (hook = "good" /\ phase # "off")
-----------------------------------------------------------------------------
(* The emulator and the server.                                            *)

GameMoves == moved' = (moved \/ MidTick)

StartEmulation ==
  /\ phase = "off"
  /\ GameMoves
  /\ phase' = "booting"
  /\ disc' \in Discs
  /\ hook' \in (IF hook = "none" THEN {"none"} ELSE {hook, "stale"})
  /\ UNCHANGED <<serverVars, version, callVars, shown, state, pc>>

StopEmulation ==
  /\ phase # "off"
  /\ GameMoves
  /\ phase' = "off"
  /\ hook' \in (IF hook = "stale" THEN {"good", "stale"} ELSE {hook})
  /\ UNCHANGED <<disc, serverVars, version, callVars, shown, state, pc>>

\* The game boots, a save is loaded, the player quits to the menu.
GoOn ==
  /\ GameMoves
  /\ \/ phase = "booting" /\ phase' = "menu"
     \/ phase = "menu" /\ phase' = "world"
     \/ phase = "world" /\ phase' = "menu"
  /\ UNCHANGED <<disc, serverVars, accessVars, callVars, shown, state, pc>>

Connected ==
  /\ ~slot
  /\ moved' = (moved \/ (MidTick /\ ~uuid))
  /\ slot' = TRUE
  /\ uuid' = TRUE
  /\ UNCHANGED <<gameVars, accessVars, callVars, shown, state, pc>>

ServerLost ==
  /\ slot
  /\ slot' = FALSE
  /\ UNCHANGED <<gameVars, uuid, accessVars, callVars, shown, state, pc, moved>>
-----------------------------------------------------------------------------
(* EchoesInterface.                                                        *)

ConnectionStateAnySeed ==   \* mutant: the uuid is not compared
  IF ~Reaches \/ version = "none" THEN "DISCONNECTED"
  ELSE IF hook = "stale" \/ phase = "booting" \/ disc.id # version THEN "WRONG_GAME"
  ELSE IF phase = "world" THEN "IN_GAME" ELSE "IN_MENU"

\* get_connection_state; a stale region holds no build string, and a build string
\* without a uuid passes whatever uuid is expected.
ConnectionState ==
  IF ~Reaches \/ version = "none" THEN "DISCONNECTED"
  ELSE IF hook = "stale" \/ phase = "booting" \/ disc.id # version THEN "WRONG_GAME"
  ELSE IF uuid /\ disc.seed = "other" THEN "WRONG_SEED"
  ELSE IF phase = "world" THEN "IN_GAME" ELSE "IN_MENU"

\* __assert_connected drops a hook that fails.
DropIfDead == hook' = IF Reaches THEN hook ELSE "none"

\* disconnect_from_game, before the connect_to_game of _rehook
Drop(c) ==
  /\ at[c] = "drop"
  /\ hook' = "none"
  /\ version' = "none"
  /\ at' = [at EXCEPT ![c] = "hook"]
  /\ UNCHANGED <<gameVars, serverVars, got, shown, state, pc, moved>>

\* Where a call ends: /reconnect still has to publish what came out of it.
Ended(c) == IF c = "command" THEN "publish" ELSE "idle"

\* is_connected, and hook() if it is not.  A hook made while the emulation is
\* starting up may be of the wrong region.
TakeHook(c) ==
  /\ at[c] = "hook"
  /\ IF Reaches \/ phase # "off"
     THEN /\ hook' \in CASE Reaches -> {hook}
                         [] phase = "booting" -> {"good", "stale"}
                         [] OTHER -> {"good"}
          /\ at' = [at EXCEPT ![c] = "id"]
          /\ UNCHANGED version
     ELSE /\ hook' = "none"
          /\ version' = "none"
          /\ at' = [at EXCEPT ![c] = Ended(c)]
  /\ UNCHANGED <<gameVars, serverVars, got, shown, state, pc, moved>>

\* A stale region may hold an old id or none that is known.
IdsRead ==
  CASE hook = "stale"    -> Ids \ {"empty"}
    [] phase = "booting" -> {disc.id, "empty"}
    [] OTHER             -> {disc.id}

ReadId(c) ==
  /\ at[c] = "id"
  /\ DropIfDead
  /\ IF Reaches
     THEN /\ \E i \in IdsRead : got' = [got EXCEPT ![c] = i]
          /\ at' = [at EXCEPT ![c] = "store"]
          /\ UNCHANGED version
     ELSE /\ version' = "none"
          /\ at' = [at EXCEPT ![c] = Ended(c)]
          /\ UNCHANGED got
  /\ UNCHANGED <<gameVars, serverVars, shown, state, pc, moved>>

\* Another game's id drops the hook; no id at all does not.
StoreVersion(c) ==
  /\ at[c] = "store"
  /\ version' = IF got[c] \in Versions THEN got[c] ELSE "none"
  /\ hook' = IF got[c] = "other" THEN "none" ELSE hook
  /\ at' = [at EXCEPT ![c] = Ended(c)]
  /\ UNCHANGED <<gameVars, serverVars, got, shown, state, pc, moved>>

Call(c) == Drop(c) \/ TakeHook(c) \/ ReadId(c) \/ StoreVersion(c)
-----------------------------------------------------------------------------
(* dolphin_sync_task, on the event loop.                                   *)

LoopFree == at["command"] = "idle"

Poll ==
  /\ pc = "poll"
  /\ LoopFree
  /\ state' = ConnectionState
  /\ DropIfDead
  /\ shown' = state'
  /\ pc' = IF state' = shown THEN "handle" ELSE "warn"
  /\ UNCHANGED <<gameVars, serverVars, version, callVars, moved>>

\* The await of _warn_if_multiple_dolphins ends.
Warned ==
  /\ pc = "warn"
  /\ LoopFree
  /\ pc' = "handle"
  /\ UNCHANGED <<gameVars, serverVars, accessVars, callVars, shown, state, moved>>

\* _handle_game_ready gets as far as its reads and writes.
Act ==
  /\ pc = "handle"
  /\ LoopFree
  /\ state = "IN_GAME"
  /\ slot
  /\ Reaches
  /\ version # "none"
  /\ pc' = "sleep"
  /\ moved' = FALSE
  /\ UNCHANGED <<gameVars, serverVars, accessVars, callVars, shown, state>>

\* It waits for the server, has no game to read, or an access raises.
SkipTick ==
  /\ pc = "handle"
  /\ LoopFree
  /\ state = "IN_GAME"
  /\ ~(slot /\ Reaches /\ version # "none")
  /\ IF slot /\ version # "none" THEN DropIfDead ELSE UNCHANGED hook
  /\ pc' = "sleep"
  /\ moved' = FALSE
  /\ UNCHANGED <<gameVars, serverVars, version, callVars, shown, state>>

NotReadyNeverRehooks ==   \* mutant: WRONG_GAME just waits
  /\ pc = "handle"
  /\ LoopFree
  /\ state # "IN_GAME"
  /\ IF shown = "DISCONNECTED"
     THEN at' = [at EXCEPT !["thread"] = "hook"] /\ pc' = "thread"
     ELSE at' = at /\ pc' = "sleep"
  /\ UNCHANGED <<gameVars, serverVars, accessVars, got, shown, state, moved>>

\* _handle_game_not_ready goes by ctx.connection_state.
NotReady ==
  /\ pc = "handle"
  /\ LoopFree
  /\ state # "IN_GAME"
  /\ IF shown \in {"DISCONNECTED", "WRONG_GAME"}
     THEN /\ at' = [at EXCEPT !["thread"] = IF shown = "WRONG_GAME" THEN "drop" ELSE "hook"]
          /\ pc' = "thread"
     ELSE at' = at /\ pc' = "sleep"
  /\ UNCHANGED <<gameVars, serverVars, accessVars, got, shown, state, moved>>

\* The result of the thread, or the end of the sleep.
WakeUp ==
  /\ LoopFree
  /\ \/ pc = "thread" /\ at["thread"] = "idle" /\ pc' = "sleep"
     \/ pc = "sleep" /\ pc' = "poll"
  /\ UNCHANGED <<gameVars, serverVars, accessVars, callVars, shown, state, moved>>
-----------------------------------------------------------------------------
(* _cmd_reconnect, on the event loop while the sync task awaits.           *)

Reconnect ==
  /\ LoopFree
  /\ pc \in {"warn", "thread", "sleep"}
  /\ hook' = "none"
  /\ version' = "none"
  /\ shown' = "DISCONNECTED"
  /\ at' = [at EXCEPT !["command"] = "hook"]
  /\ UNCHANGED <<gameVars, serverVars, got, state, pc, moved>>

Publish ==
  /\ at["command"] = "publish"
  /\ shown' = ConnectionState
  /\ DropIfDead
  /\ at' = [at EXCEPT !["command"] = "idle"]
  /\ UNCHANGED <<gameVars, serverVars, version, got, state, pc, moved>>
-----------------------------------------------------------------------------
SyncTask == Poll \/ Warned \/ Act \/ SkipTick \/ NotReady \/ WakeUp

Next ==
  \/ StartEmulation \/ StopEmulation \/ GoOn \/ Connected \/ ServerLost
  \/ SyncTask \/ Reconnect \/ Publish
  \/ \E c \in Callers : Call(c)

Spec == Init /\ [][Next]_vars

\* Sleeps end, and so do calls.
Fairness ==
  /\ WF_vars(SyncTask) /\ WF_vars(Publish)
  /\ \A c \in Callers : WF_vars(Call(c))

FairSpec == Spec /\ Fairness
-----------------------------------------------------------------------------
(* Properties.                                                             *)

TypeOK ==
  /\ phase \in {"off", "booting", "menu", "world"}
  /\ disc \in Discs
  /\ hook \in {"none", "good", "stale"}
  /\ version \in Versions \cup {"none"}
  /\ moved \in BOOLEAN /\ uuid \in BOOLEAN /\ slot \in BOOLEAN
  /\ shown \in States /\ state \in States
  /\ pc \in {"poll", "warn", "handle", "thread", "sleep"}
  /\ at \in [Callers -> {"idle", "drop", "hook", "id", "store", "publish"}]
  /\ got \in [Callers -> Ids]
  /\ at["thread"] # "idle" => pc = "thread"

\* A tick never reads or writes a disc made for another slot, and uses the addresses
\* of the version that runs, although /reconnect may have hooked again since the
\* poll; unless the emulation changed, or the server first told the seed, after the
\* poll of the same tick.  A disc that carries no uuid is not spared: it is taken
\* for this slot's.
SparesOtherGames ==
  [][Act => moved \/ (hook = "good" /\ phase = "world" /\ disc.id = version /\ disc.seed # "other")]_vars

\* A disc that the client accepts stands in its world.
OwnGameRuns == phase = "world" /\ disc.id \in Versions /\ disc.seed # "other"

\* Whatever the hook went through, and whatever /reconnect did to a connect under
\* way, the client finds a game it accepts again when left alone with it.
FindsItsGame == <>[](OwnGameRuns /\ LoopFree) => <>[](shown = "IN_GAME")
=============================================================================
