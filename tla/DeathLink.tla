------------------------------ MODULE DeathLink ------------------------------
(***************************************************************************)
(* Sharing deaths with the group and dying with it                         *)
(* (client.py::on_deathlink, apply_pending_death, _handle_check_deathlink, *)
(* /deathlink, and death_link.death_link_check).                           *)
(*                                                                         *)
(* The game reports a death only through two fields of CPlayerState, which *)
(* goes away while areas and saves load.  The client kills by writing the  *)
(* same two fields, one after the other, while the game runs on.  Only the *)
(* debounce flag tells a death it caused from one it should report.        *)
(***************************************************************************)
EXTENDS Integers

CONSTANTS
  MaxDeaths,    \* bound: deaths the player dies of its own
  MaxIncoming   \* bound: DeathLinks from the group

VARIABLES
  (* the game *)
  present,    \* there is a CPlayerState to read and write
  health,     \* its energy is positive
  alive,      \* its alive bit is set
  cause,      \* what the player is dying of: "none", "own" or "link"
  (* the connection *)
  linked,     \* ctx.server and ctx.slot
  enabled,    \* death_link_enabled
  inflight,   \* DeathLinks of the group on their way here
  (* the client *)
  pending,    \* pending_incoming_death
  fresh,      \* _PENDING_DEATH_TIMEOUT has not passed since it arrived
  reset,      \* is_pending_death_link_reset
  seenSet,    \* alive_flag_seen_set
  ticking,    \* a tick that had a slot when it began has yet to get to its poll
  pc,         \* where a poll, or on_deathlink, stands
  polling,    \* it is a poll
  sawHealth,  \* what it read, until the verdict
  (* history *)
  deaths, arrived, kills,
  unsent,     \* the player's own death has not been sent
  givenUp,    \* its sending failed: no slot, a closed socket, or no room to name
  lifeSeen,   \* a poll has seen the player alive in this life
  forgot,     \* the client was restarted while the player was dying
  echoed      \* a death was sent that was not the player's own, or was sent before

gameVars   == <<present, health, alive, cause>>
linkVars   == <<linked, enabled, inflight>>
clientVars == <<pending, fresh, reset, seenSet>>
tickVars   == <<ticking, pc, polling, sawHealth>>
history    == <<deaths, arrived, kills, unsent, givenUp, lifeSeen, forgot, echoed>>
vars == <<gameVars, linkVars, clientVars, tickVars, history>>

Init ==
  /\ present = TRUE /\ health = TRUE /\ alive = TRUE /\ cause = "none"
  /\ linked = FALSE /\ enabled = TRUE /\ inflight = 0
  /\ pending = FALSE /\ fresh = TRUE /\ reset = FALSE /\ seenSet = FALSE
  /\ ticking = FALSE /\ pc = "idle" /\ polling = FALSE /\ sawHealth = TRUE
  /\ deaths = 0 /\ arrived = 0 /\ kills = 0
  /\ unsent = FALSE /\ givenUp = FALSE /\ lifeSeen = FALSE /\ forgot = FALSE /\ echoed = FALSE
-----------------------------------------------------------------------------
(* The game.                                                               *)

\* A death shows in one of the fields first.
Die ==
  /\ present /\ cause = "none"
  /\ deaths < MaxDeaths
  /\ deaths' = deaths + 1
  /\ cause' = "own"
  /\ unsent' = TRUE
  /\ givenUp' = FALSE
  /\ \/ health' = FALSE /\ UNCHANGED alive
     \/ alive' = FALSE /\ UNCHANGED health
  /\ UNCHANGED <<present, linkVars, clientVars, tickVars, arrived, kills, lifeSeen, forgot, echoed>>

DieOn ==
  /\ present /\ cause # "none"
  /\ health \/ alive
  /\ health' = FALSE
  /\ alive' = FALSE
  /\ UNCHANGED <<present, cause, linkVars, clientVars, tickVars, history>>

\* An area or a save loads.
Vanish ==
  /\ present
  /\ present' = FALSE
  /\ UNCHANGED <<health, alive, cause, linkVars, clientVars, tickVars, history>>

\* Loading takes many frames and a poll less than one.
Appear ==
  /\ ~present
  /\ pc = "idle"
  /\ present' = TRUE
  /\ IF cause = "none"
     THEN UNCHANGED <<health, alive, cause, unsent, lifeSeen, forgot>>
     ELSE /\ health' = TRUE /\ alive' = TRUE /\ cause' = "none"
          /\ unsent' = FALSE /\ lifeSeen' = FALSE /\ forgot' = FALSE
  /\ UNCHANGED <<linkVars, clientVars, tickVars, deaths, arrived, kills, givenUp, echoed>>
-----------------------------------------------------------------------------
(* The connection.                                                         *)

\* The slot data turn DeathLink on at every connection.
Connected ==
  /\ ~linked
  /\ linked' = TRUE
  /\ enabled' = TRUE
  /\ UNCHANGED <<gameVars, inflight, clientVars, tickVars, history>>

\* At an await, of which a tick has many before its poll.
Disconnect ==
  /\ linked
  /\ pc = "idle"
  /\ linked' = FALSE
  /\ inflight' = 0
  /\ UNCHANGED <<gameVars, enabled, clientVars, tickVars, history>>

GroupDeath ==
  /\ linked /\ enabled
  /\ arrived + inflight < MaxIncoming
  /\ inflight' = inflight + 1
  /\ UNCHANGED <<gameVars, linked, enabled, clientVars, tickVars, history>>

\* _cmd_deathlink
Toggle ==
  /\ pc = "idle"
  /\ enabled' = ~enabled
  /\ pending' = FALSE
  /\ UNCHANGED <<gameVars, linked, inflight, fresh, reset, seenSet, tickVars, history>>

RestartClient ==
  /\ linked' = FALSE /\ enabled' = TRUE /\ inflight' = 0
  /\ pending' = FALSE /\ fresh' = TRUE /\ reset' = FALSE /\ seenSet' = FALSE
  /\ ticking' = FALSE /\ pc' = "idle" /\ polling' = FALSE /\ sawHealth' = TRUE
  /\ forgot' = (cause # "none")
  /\ givenUp' = FALSE
  /\ UNCHANGED <<gameVars, deaths, arrived, kills, unsent, lifeSeen, echoed>>

TimePasses ==
  /\ pending /\ fresh
  /\ fresh' = FALSE
  /\ UNCHANGED <<gameVars, linkVars, pending, reset, seenSet, tickVars, history>>
-----------------------------------------------------------------------------
(* The client.                                                             *)

\* on_deathlink runs between the awaits of a tick.
OnDeathLink ==
  /\ pc = "idle"
  /\ linked
  /\ inflight > 0
  /\ inflight' = inflight - 1
  /\ arrived' = arrived + 1
  /\ pending' = TRUE
  /\ fresh' = TRUE
  /\ pc' = "apply" /\ polling' = FALSE
  /\ UNCHANGED <<gameVars, linked, enabled, reset, seenSet, ticking, sawHealth, deaths, kills,
                 unsent, givenUp, lifeSeen, forgot, echoed>>

\* A tick looks for a server and a slot only when it begins.  Ticks that end before
\* their poll touch nothing here and are left out.
StartTick ==
  /\ pc = "idle"
  /\ ~ticking
  /\ linked
  /\ ticking' = TRUE
  /\ UNCHANGED <<gameVars, linkVars, clientVars, pc, polling, sawHealth, history>>

\* The tick gets to _handle_check_deathlink, connected or not.
Poll ==
  /\ pc = "idle"
  /\ ticking
  /\ ticking' = FALSE
  /\ IF enabled THEN pc' = "apply" /\ polling' = TRUE ELSE UNCHANGED <<pc, polling>>
  /\ UNCHANGED <<gameVars, linkVars, clientVars, sawHealth, history>>

AfterApply ==
  /\ pc' = IF polling THEN "readHealth" ELSE "idle"
  /\ polling' = FALSE

ApplyPendingNoTimeout ==   \* mutant: waits for a player for ever
  /\ pc = "apply"
  /\ IF pending /\ present /\ health
     THEN pending' = FALSE /\ pc' = "write" /\ UNCHANGED polling
     ELSE pending' = (pending /\ ~present) /\ AfterApply
  /\ UNCHANGED <<gameVars, linkVars, fresh, reset, seenSet, ticking, sawHealth, history>>

\* apply_pending_death up to its first write: too old a request is dropped, one
\* without a player waits, and a player already dying is left alone.
ApplyPending ==
  /\ pc = "apply"
  /\ IF pending /\ fresh /\ present /\ health
     THEN pending' = FALSE /\ pc' = "write" /\ UNCHANGED polling
     ELSE pending' = (pending /\ fresh /\ ~present) /\ AfterApply
  /\ UNCHANGED <<gameVars, linkVars, fresh, reset, seenSet, ticking, sawHealth, history>>

\* set_current_health(-1.0); a failed write queues the request again.
WriteHealth ==
  /\ pc = "write"
  /\ IF present
     THEN /\ health' = FALSE
          /\ cause' = "link"
          /\ unsent' = FALSE
          /\ kills' = kills + 1
          /\ pc' = "writeAlive"
          /\ UNCHANGED <<pending, polling>>
     ELSE /\ pending' = TRUE
          /\ AfterApply
          /\ UNCHANGED <<health, cause, unsent, kills>>
  /\ UNCHANGED <<present, alive, linkVars, fresh, reset, seenSet, ticking, sawHealth,
                 deaths, arrived, givenUp, lifeSeen, forgot, echoed>>

WriteAliveUnmarked ==   \* mutant: as worlds/metroidprime, does not arm the debounce
  /\ pc = "writeAlive"
  /\ alive' = (alive /\ ~present)
  /\ AfterApply
  /\ UNCHANGED <<present, health, cause, linkVars, clientVars, ticking, sawHealth, history>>

\* set_alive(False), whose result is ignored, and the debounce flag.
WriteAlive ==
  /\ pc = "writeAlive"
  /\ alive' = (alive /\ ~present)
  /\ reset' = TRUE
  /\ AfterApply
  /\ UNCHANGED <<present, health, cause, linkVars, pending, fresh, seenSet, ticking, sawHealth,
                 history>>

\* Without a CPlayerState the poll neither sends nor touches the flag.
ReadHealth ==
  /\ pc = "readHealth"
  /\ IF present
     THEN sawHealth' = health /\ pc' = "readAlive"
     ELSE pc' = "idle" /\ UNCHANGED sawHealth
  /\ UNCHANGED <<gameVars, linkVars, clientVars, ticking, polling, history>>

\* The alive bit counts only once it has been seen set.
SeenSet == seenSet \/ (present /\ alive)
Dead    == ~sawHealth \/ (SeenSet /\ present /\ ~alive)

\* send_death, while the slot and the socket are there.
SendDeath ==
  /\ linked
  /\ unsent' = FALSE
  /\ echoed' = (echoed \/ ~(unsent \/ forgot))
  /\ UNCHANGED givenUp

\* The slot was lost since the tick began, the socket is closed, or Dolphin raises
\* while the room is read for the message.
GiveUp ==
  /\ givenUp' = TRUE
  /\ UNCHANGED <<unsent, echoed>>

DecideForgetful ==   \* mutant: clears the flag only together with a send
  /\ pc = "readAlive"
  /\ seenSet' = SeenSet
  /\ reset' = (Dead \/ reset)
  /\ lifeSeen' = (lifeSeen \/ ~Dead)
  /\ IF Dead /\ ~reset THEN SendDeath \/ GiveUp ELSE UNCHANGED <<unsent, givenUp, echoed>>
  /\ pc' = "idle" /\ sawHealth' = TRUE
  /\ UNCHANGED <<gameVars, linkVars, pending, fresh, ticking, polling, deaths, arrived, kills,
                 forgot>>

\* death_link_check, whose flag is kept whether or not the death is sent.
Decide ==
  /\ pc = "readAlive"
  /\ seenSet' = SeenSet
  /\ reset' = Dead
  /\ lifeSeen' = (lifeSeen \/ ~Dead)
  /\ IF Dead /\ ~reset THEN SendDeath \/ GiveUp ELSE UNCHANGED <<unsent, givenUp, echoed>>
  /\ pc' = "idle" /\ sawHealth' = TRUE
  /\ UNCHANGED <<gameVars, linkVars, pending, fresh, ticking, polling, deaths, arrived, kills,
                 forgot>>
-----------------------------------------------------------------------------
Game  == Die \/ DieOn \/ Vanish \/ Appear
Link  == Connected \/ Disconnect \/ GroupDeath \/ Toggle
Apply == ApplyPending \/ WriteHealth \/ WriteAlive
Check == ReadHealth \/ Decide
Tick  == StartTick \/ Poll \/ Apply \/ Check

Next == Game \/ Link \/ RestartClient \/ TimePasses \/ OnDeathLink \/ Tick

Spec == Init /\ [][Next]_vars
-----------------------------------------------------------------------------
(* Properties.                                                             *)

TypeOK ==
  /\ present \in BOOLEAN /\ health \in BOOLEAN /\ alive \in BOOLEAN
  /\ cause \in {"none", "own", "link"}
  /\ linked \in BOOLEAN /\ enabled \in BOOLEAN
  /\ inflight \in 0 .. MaxIncoming
  /\ pending \in BOOLEAN /\ fresh \in BOOLEAN /\ reset \in BOOLEAN /\ seenSet \in BOOLEAN
  /\ pc \in {"idle", "apply", "write", "writeAlive", "readHealth", "readAlive"}
  /\ ticking \in BOOLEAN /\ polling \in BOOLEAN /\ sawHealth \in BOOLEAN
  /\ deaths \in 0 .. MaxDeaths
  /\ arrived \in 0 .. MaxIncoming
  /\ kills \in 0 .. MaxIncoming
  /\ unsent \in BOOLEAN /\ givenUp \in BOOLEAN /\ lifeSeen \in BOOLEAN /\ forgot \in BOOLEAN /\ echoed \in BOOLEAN

\* Every death sent to the group is one the player died of its own and that was
\* not sent before: a death the group caused is not sent back to it, and one
\* death that shows for many polls is sent once.  Only a client restarted while
\* the player is dying, which has lost the debounce flag, may send it again.
NoEcho == ~echoed

\* A DeathLink kills at most once, however often it is queued again.
OneKillPerDeathLink == kills <= arrived

\* client.py: "so a later organic death still sends normally".  A poll that finds
\* the player dying of its own, unsent, sends that death, if a poll saw the player
\* alive in this life: only that re-arms a debounce flag set in an earlier one.
\* The flag stands also for a death whose sending failed, which no later poll sends.
LaterDeathStillSends ==
  [][Decide /\ Dead /\ unsent /\ lifeSeen => ~unsent' \/ givenUp']_vars

\* A queued DeathLink does not stay queued: it kills, finds the player dying, or
\* is dropped, even if no player ever comes back.
PendingResolved == <>[](linked /\ enabled) => []<>(~pending)
=============================================================================
