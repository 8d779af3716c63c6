-------------------------- MODULE DolphinHookProofs --------------------------
(***************************************************************************)
(* No tick acts on a disc made for another slot.                           *)
(*                                                                         *)
(* The argument: a poll that returns IN_GAME has seen the right build      *)
(* string, and no other seed, through a live hook. Until the tick acts,    *)
(* the sync task's own thread is at rest, and a /reconnect that drops the  *)
(* hook and the version can only bring back those of the same emulation:   *)
(* it goes by an id that it reads from a world, not from one that is       *)
(* starting up.                                                            *)
(***************************************************************************)
EXTENDS DolphinHook, TLAPS

\* What the poll saw still holds, with hook and version perhaps taken back.
OwnGame ==
  /\ phase = "world"
  /\ disc.id \in Versions
  /\ uuid => disc.seed # "other"
  /\ hook # "stale"
  /\ version \in {"none", disc.id}
  /\ at["command"] = "store" => got["command"] = disc.id

PollHolds == MidTick /\ ~moved => OwnGame

\* An authenticated server has told the seed.
SeedKnown == slot => uuid

\* Every variable keeps its type, and the connecting thread works only while the
\* sync task awaits it.
THEOREM HookTypeCorrect == Spec => []TypeOK
<1>1. Init => TypeOK
  BY DEF Init, TypeOK, Callers, States, Versions, Ids
<1>2. TypeOK /\ [Next]_vars => TypeOK'
  <2> SUFFICES ASSUME TypeOK, [Next]_vars PROVE TypeOK'
    OBVIOUS
  <2> USE DEF vars, gameVars, serverVars, accessVars, callVars, TypeOK, Callers, LoopFree
  <2>1. CASE StartEmulation
    BY <2>1 DEF StartEmulation, GameMoves, MidTick
  <2>2. CASE StopEmulation
    BY <2>2 DEF StopEmulation, GameMoves, MidTick
  <2>3. CASE GoOn
    BY <2>3 DEF GoOn, GameMoves, MidTick
  <2>4. CASE Connected
    BY <2>4 DEF Connected, MidTick
  <2>5. CASE ServerLost
    BY <2>5 DEF ServerLost
  <2>6. CASE Poll
    <3>1. ConnectionState \in States
      BY DEF ConnectionState, States
    <3> QED
      BY <2>6, <3>1 DEF Poll, DropIfDead
  <2>7. CASE Warned
    BY <2>7 DEF Warned
  <2>8. CASE Act
    BY <2>8 DEF Act
  <2>9. CASE SkipTick
    BY <2>9 DEF SkipTick, DropIfDead
  <2>10. CASE NotReady
    BY <2>10 DEF NotReady
  <2>11. CASE WakeUp
    BY <2>11 DEF WakeUp
  <2>12. CASE Reconnect
    BY <2>12 DEF Reconnect, States
  <2>13. CASE Publish
    <3>1. ConnectionState \in States
      BY DEF ConnectionState, States
    <3> QED
      BY <2>13, <3>1 DEF Publish, DropIfDead
  <2>14. ASSUME NEW c \in Callers, Call(c) PROVE TypeOK'
    <3>1. Ended(c) \in {"publish", "idle"}
      BY DEF Ended
    <3>2. CASE Drop(c)
      BY <3>2 DEF Drop
    <3>3. CASE TakeHook(c)
      BY <3>1, <3>3 DEF TakeHook
    <3>4. CASE ReadId(c)
      <4>1. IdsRead \subseteq Ids
        BY DEF IdsRead, Ids, Versions, Discs
      <4> QED
        BY <3>1, <3>4, <4>1 DEF ReadId, DropIfDead
    <3>5. CASE StoreVersion(c)
      BY <3>1, <3>5 DEF StoreVersion
    <3> QED
      BY <2>14, <3>2, <3>3, <3>4, <3>5 DEF Call
  <2>15. CASE UNCHANGED vars
    BY <2>15
  <2> QED
    BY <2>1, <2>2, <2>3, <2>4, <2>5, <2>6, <2>7, <2>8, <2>9, <2>10, <2>11, <2>12, <2>13,
       <2>14, <2>15 DEF Next, SyncTask
<1> QED
  BY <1>1, <1>2, PTL DEF Spec

\* A tick never reads or writes a disc made for another slot, and uses the addresses
\* of the version that runs, although /reconnect may have hooked again since its
\* poll.
THEOREM SparesOtherGamesHolds == Spec => SparesOtherGames
<1> DEFINE Inv == PollHolds /\ SeedKnown
<1>1. Init => Inv
  BY DEF Init, PollHolds, MidTick, SeedKnown
<1>2. TypeOK /\ Inv /\ [Next]_vars => Inv'
  <2> SUFFICES ASSUME TypeOK, Inv, [Next]_vars PROVE Inv'
    OBVIOUS
  <2>0. SeedKnown'
    BY DEF Next, vars, gameVars, serverVars, accessVars, callVars, SeedKnown, StartEmulation,
           StopEmulation, GoOn, Connected, ServerLost, SyncTask, Poll, Warned, Act, SkipTick,
           NotReady, WakeUp, Reconnect, Publish, Call, Drop, TakeHook, ReadId, StoreVersion
  <2> USE DEF vars, gameVars, serverVars, accessVars, callVars, PollHolds, MidTick, LoopFree
  <2>1. CASE StartEmulation \/ StopEmulation \/ GoOn
    BY <2>1, <2>0 DEF StartEmulation, StopEmulation, GoOn, GameMoves
  <2>2. CASE Connected
    BY <2>2, <2>0 DEF Connected, OwnGame
  <2>3. CASE ServerLost
    BY <2>3, <2>0 DEF ServerLost, OwnGame
  <2>4. CASE Poll
    <3>1. state' = "IN_GAME" =>
            /\ Reaches /\ hook # "stale" /\ phase # "booting" /\ phase = "world"
            /\ version # "none" /\ disc.id = version /\ (uuid => disc.seed # "other")
      BY <2>4 DEF Poll, ConnectionState
    <3>2. state' = "IN_GAME" => hook' = hook
      BY <2>4, <3>1 DEF Poll, DropIfDead
    <3> QED
      BY <2>4, <2>0, <3>1, <3>2 DEF Poll, OwnGame, TypeOK
  <2>5. CASE Warned
    BY <2>5, <2>0 DEF Warned, OwnGame
  <2>6. CASE Act \/ SkipTick \/ NotReady \/ WakeUp
    BY <2>6, <2>0 DEF Act, SkipTick, NotReady, WakeUp, OwnGame
  <2>7. CASE Reconnect
    BY <2>7, <2>0 DEF Reconnect, OwnGame, TypeOK, Callers
  <2>8. CASE Publish
    BY <2>8, <2>0 DEF Publish, OwnGame, DropIfDead, TypeOK, Callers
  <2>9. ASSUME NEW c \in Callers, Call(c) PROVE Inv'
    <3>1. CASE c = "thread"
      <4>1. at["thread"] # "idle"
        BY <2>9, <3>1 DEF Call, Drop, TakeHook, ReadId, StoreVersion
      <4>2. pc' = "thread"
        BY <2>9, <4>1 DEF TypeOK, Call, Drop, TakeHook, ReadId, StoreVersion
      <4> QED
        BY <4>2, <2>0
    <3>2. CASE c = "command"
      <4> SUFFICES ASSUME MidTick', ~moved' PROVE OwnGame'
        BY <2>0
      <4>1. OwnGame /\ UNCHANGED <<phase, disc, uuid>>
        BY <2>9 DEF Call, Drop, TakeHook, ReadId, StoreVersion
      <4>2. "command" \in DOMAIN at /\ "command" \in DOMAIN got
        BY DEF TypeOK, Callers
      <4>3. CASE Drop(c)
        BY <3>2, <4>1, <4>2, <4>3 DEF Drop, OwnGame
      <4>4. CASE TakeHook(c)
        BY <3>2, <4>1, <4>2, <4>4 DEF TakeHook, OwnGame, Ended
      <4>5. CASE ReadId(c)
        <5>1. IdsRead = {disc.id}
          BY <4>1 DEF IdsRead, OwnGame
        <5> QED
          BY <3>2, <4>1, <4>2, <4>5, <5>1 DEF ReadId, OwnGame, DropIfDead, Ended
      <4>6. CASE StoreVersion(c)
        BY <3>2, <4>1, <4>2, <4>6 DEF StoreVersion, OwnGame, Ended
      <4> QED
        BY <2>9, <4>3, <4>4, <4>5, <4>6 DEF Call
    <3> QED
      BY <3>1, <3>2 DEF Callers
  <2>10. CASE UNCHANGED vars
    BY <2>10, <2>0 DEF OwnGame
  <2> QED
    BY <2>1, <2>2, <2>3, <2>4, <2>5, <2>6, <2>7, <2>8, <2>9, <2>10 DEF Next, SyncTask
<1>3. TypeOK /\ Inv /\ Act =>
        moved \/ (hook = "good" /\ phase = "world" /\ disc.id = version /\ disc.seed # "other")
  <2> SUFFICES ASSUME TypeOK, Inv, Act, ~moved
               PROVE  hook = "good" /\ phase = "world" /\ disc.id = version /\ disc.seed # "other"
    OBVIOUS
  <2>1. OwnGame /\ uuid
    BY DEF Act, PollHolds, MidTick, SeedKnown
  <2> QED
    BY <2>1 DEF Act, OwnGame, Reaches
<1>4. TypeOK /\ Inv /\ [Next]_vars =>
        [Act => moved \/ (hook = "good" /\ phase = "world"
                          /\ disc.id = version /\ disc.seed # "other")]_vars
  BY <1>3
<1> QED
  BY <1>1, <1>2, <1>4, HookTypeCorrect, PTL DEF Spec, SparesOtherGames
=============================================================================
