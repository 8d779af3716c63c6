---------------------------- MODULE MCClientParts ----------------------------
(***************************************************************************)
(* Four parts of the client that share no state, each explored on its own: *)
(* a behaviour runs one of them and leaves the others where they started.  *)
(* ServerReports, the largest, is extended; the others are instantiated.   *)
(***************************************************************************)
EXTENDS ServerReports

CONSTANTS MaxTraps, MaxDeaths, MaxIncoming, Jobs

ASSUME Bounds ==
  /\ MaxTraps \in Nat /\ MaxDeaths \in Nat /\ MaxIncoming \in Nat
  /\ IsFiniteSet(Jobs)

VARIABLES
  part,
  (* FreezeWindow *)
  left, freezeDue, armed, overPending, pendingOp, body, frozen, healthy, applied, wornOff, cut,
  dropped,
  (* DeathLink *)
  present, health, alive, cause, linked, enabled, inflight, pending, fresh, reset, seenSet,
  ticking, pc, polling, sawHealth, deaths, arrived, kills, unsent, givenUp, lifeSeen, forgot,
  echoed,
  (* IsoPatching *)
  client, watchdog, stray, connected, job, thread, patching, exists, writers, broken,
  launched, doubled, killed

freezeVars == <<left, freezeDue, armed, overPending, pendingOp, body, frozen, healthy, applied,
                wornOff, cut, dropped>>
deathVars  == <<present, health, alive, cause, linked, enabled, inflight, pending, fresh, reset,
                seenSet, ticking, pc, polling, sawHealth, deaths, arrived, kills, unsent, givenUp,
                lifeSeen, forgot, echoed>>
isoVars    == <<client, watchdog, stray, connected, job, thread, patching, exists, writers,
                broken, launched, doubled, killed>>
allVars == <<part, freezeVars, deathVars, isoVars, vars>>

(***************************************************************************)
(* The sessions ServerReports explores.                                    *)
(***************************************************************************)
From(sender, item) == [item |-> item, from |-> sender]

Session(goal, scans, places, incoming, reflects, lost, loaded, walked) ==
  [goal |-> goal, scans |-> scans, places |-> places, incoming |-> incoming,
   reflected |-> reflects, losses |-> lost, loads |-> loaded, walks |-> walked]

\* Every goal, over a lost connection or a loaded save.
GoalSessions ==
  {Session(goal, {}, {}, <<>>, 0, 1, loaded, 0) :
     goal \in {"both_bosses", "emperor_ing", "keys"}, loaded \in {0, 1}}

\* Two scans, over two lost connections and a load.
ScanSessions == {Session("both_bosses", {"lore", "logbook"}, {"hall"}, <<>>, 0, 2, 1, 0)}

\* Two rooms of a region and one of another.
WalkSessions == {Session("both_bosses", {}, {"hall", "waste", "vault"}, <<>>, 0, 1, 1, 2)}

\* Repeated, mixed and unannounced items, the first ones in the save already.
GrantSessions ==
  {Session("both_bosses", {}, {"hall"},
     <<From("p", "A"), From("p", "B"), From("p", "Trap"), From("p", "A")>>, 1, 1, 0, 0),
   Session("both_bosses", {}, {"hall"},
     <<From("start", "C"), From("p", "A"), From("cheat", "B"), From("p", "A")>>,
     2, 1, 0, 0)}

Sessions == GoalSessions \cup ScanSessions \cup WalkSessions \cup GrantSessions

Freeze  == INSTANCE FreezeWindow
Death   == INSTANCE DeathLink
Iso     == INSTANCE IsoPatching

PartsInit ==
  /\ part \in {"freeze", "death", "iso", "reports"}
  /\ Freeze!Init /\ Death!Init /\ Iso!Init /\ Init
  /\ part # "reports" => script \in ScanSessions /\ place = "menu"

OnFreeze  == part = "freeze" /\ UNCHANGED <<part, deathVars, isoVars, vars>>
OnDeath   == part = "death" /\ UNCHANGED <<part, freezeVars, isoVars, vars>>
OnIso     == part = "iso" /\ UNCHANGED <<part, freezeVars, deathVars, vars>>
OnReports == part = "reports" /\ UNCHANGED <<part, freezeVars, deathVars, isoVars>>

PartsNext ==
  \/ OnFreeze /\ Freeze!Next
  \/ OnDeath /\ Death!Next
  \/ OnIso /\ Iso!Next
  \/ OnReports /\ Next

PartsSpec == PartsInit /\ [][PartsNext]_allVars

(***************************************************************************)
(* Fairness.  A behaviour stays in its part, so a condition on one action  *)
(* of each is the conjunction of the parts' conditions.                    *)
(***************************************************************************)
\* The loops that run for ever: the window's clock, the sync loop; and a closed
\* client's threads, cancelled jobs, timer and process, which each end.
Runs ==
  \/ OnFreeze /\ Freeze!DurationEnds
  \/ OnDeath /\ Death!Tick
  \/ OnIso /\ Iso!Ends
  \/ OnReports /\ Tick

\* The game gets to its bodies and loads, messages arrive, timeouts run out.
Progress ==
  \/ OnFreeze /\ Freeze!RunBody
  \/ OnDeath /\ Death!TimePasses
  \/ OnReports /\ Proceeds

\* The freeze handler comes before the grants in a free tick; a callback gets its
\* turn at one of the awaits, of which every tick has some.
GetsATurn ==
  \/ OnFreeze /\ Freeze!LooksBack
  \/ OnReports /\ Callbacks

FairSpec == PartsSpec /\ WF_allVars(Runs) /\ WF_allVars(Progress) /\ SF_allVars(GetsATurn)
-----------------------------------------------------------------------------
(* The instantiated parts' properties; see there for what they say.        *)

\* Every part's variables keep their types.
TypesOK == Freeze!TypeOK /\ Death!TypeOK /\ Iso!TypeOK /\ TypeOK

\* FreezeWindow: no attempt is written off before the game had it, and none runs
\* after the trap was said to have worn off.
FreezesAwaited == Freeze!NoFreezeAfterWornOff /\ Freeze!AttemptsAwaited

\* FreezeWindow: every window is closed by its message.
EveryWindowCloses == Freeze!EveryWindowCloses

\* DeathLink: only the player's own deaths are sent, and once, and a DeathLink
\* kills at most once.
DeathsOneToOne == Death!NoEcho /\ Death!OneKillPerDeathLink

\* DeathLink: a later death of the player's own is sent, if it can be.
LaterDeathStillSends ==
  [][part = "death" /\ Death!Decide /\ Death!Dead /\ unsent /\ lifeSeen
       => ~unsent' \/ givenUp']_allVars

\* DeathLink: a queued request does not stay queued.
PendingResolved == Death!PendingResolved

\* IsoPatching: the emulator is only started with a whole ISO.
LaunchWhole == Iso!LaunchWhole

\* IsoPatching: a closed client ends.
ClosedClientExits == Iso!ClosedClientExits
=============================================================================
