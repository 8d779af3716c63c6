---------------------------- MODULE FreezeWindow ----------------------------
(***************************************************************************)
(* The Freeze Trap's window (client.py::_start_freeze_window and           *)
(* _handle_freeze_window): while it is open the client arms freezes at     *)
(* random moments, looks on the next free tick whether the last one took,  *)
(* and says once that the window has closed.  Freezes run only when the    *)
(* game gets to the body, and the game may refuse them.                    *)
(*                                                                         *)
(* Clocks are replaced by the events they decide: a duration of the window *)
(* runs out, or next_freeze_at is reached.                                 *)
(***************************************************************************)
EXTENDS Integers

CONSTANT MaxTraps   \* bound: Freeze Traps applied

VARIABLES
  left,          \* durations until freeze_window_end
  freezeDue,     \* next_freeze_at has been reached
  armed,         \* freeze_armed
  overPending,   \* freeze_over_pending
  pendingOp,
  body,          \* what the remote-execution body does
  frozen,        \* mFrozenTimeout > 0
  healthy,       \* the player's health reads as positive
  applied,       \* Freeze Traps applied so far
  wornOff,       \* history: the closing memo was shown after the last trap
  cut,           \* history: a new connection forgot the window of the last trap
  dropped        \* history: its closing memo was armed and went with the emulation

stateVars == <<left, freezeDue, armed, overPending>>
opVars    == <<pendingOp, body>>
gameVars  == <<frozen, healthy>>
history   == <<applied, wornOff, cut, dropped>>
vars == <<stateVars, opVars, gameVars, history>>

Bodies == {"freeze", "worn off", "other"}

Init ==
  /\ left = 0
  /\ freezeDue = TRUE
  /\ armed = FALSE
  /\ overPending = FALSE
  /\ pendingOp = FALSE
  /\ body = "other"
  /\ frozen = FALSE
  /\ healthy = TRUE
  /\ applied = 0
  /\ wornOff = FALSE
  /\ cut = FALSE
  /\ dropped = FALSE

WindowOver == left = 0
-----------------------------------------------------------------------------
(* The client.                                                             *)

StartWindowExtends ==   \* mutant: treats a closed window as a running one
  /\ applied < MaxTraps
  /\ ~pendingOp
  /\ applied' = applied + 1
  /\ wornOff' = FALSE
  /\ cut' = FALSE
  /\ dropped' = FALSE
  /\ left' = left + 1
  /\ UNCHANGED <<freezeDue, armed, overPending, opVars, gameVars>>

\* _start_freeze_window, when _handle_traps applies a Freeze Trap.
StartWindow ==
  /\ applied < MaxTraps
  /\ ~pendingOp
  /\ applied' = applied + 1
  /\ wornOff' = FALSE
  /\ cut' = FALSE
  /\ dropped' = FALSE
  /\ left' = left + 1
  /\ IF WindowOver
     THEN overPending' = TRUE /\ freezeDue' = FALSE
     ELSE UNCHANGED <<overPending, freezeDue>>
  /\ UNCHANGED <<armed, opVars, gameVars>>

\* The tick after an attempt schedules the next one, soon if it did not take.
CheckFreeze ==
  /\ armed
  /\ ~pendingOp
  /\ armed' = FALSE
  /\ freezeDue' = FALSE
  /\ UNCHANGED <<left, overPending, opVars, gameVars, history>>

SayWornOff ==
  /\ ~armed
  /\ ~pendingOp
  /\ WindowOver
  /\ overPending
  /\ body' = "worn off"
  /\ pendingOp' = TRUE
  /\ overPending' = FALSE
  /\ UNCHANGED <<left, freezeDue, armed, gameVars, history>>

MayFreeze == ~armed /\ ~pendingOp /\ ~WindowOver /\ freezeDue /\ healthy

PostponeFreeze ==
  /\ MayFreeze
  /\ frozen
  /\ freezeDue' = FALSE
  /\ UNCHANGED <<left, armed, overPending, opVars, gameVars, history>>

ArmFreezeLate ==   \* mutant: looks at the schedule and not at the window
  /\ ~armed /\ ~pendingOp /\ freezeDue /\ healthy
  /\ ~frozen
  /\ body' = "freeze"
  /\ pendingOp' = TRUE
  /\ armed' = TRUE
  /\ UNCHANGED <<left, freezeDue, overPending, gameVars, history>>

ArmFreeze ==
  /\ MayFreeze
  /\ ~frozen
  /\ body' = "freeze"
  /\ pendingOp' = TRUE
  /\ armed' = TRUE
  /\ UNCHANGED <<left, freezeDue, overPending, gameVars, history>>

WriteOtherBody ==
  /\ ~pendingOp
  /\ body' = "other"
  /\ pendingOp' = TRUE
  /\ UNCHANGED <<stateVars, gameVars, history>>

\* on_package("Connected") starts a new TrapState, and a window in it is gone.
Connected ==
  /\ left' = 0
  /\ freezeDue' = TRUE
  /\ armed' = FALSE
  /\ overPending' = FALSE
  /\ cut' = TRUE
  /\ UNCHANGED <<opVars, gameVars, applied, wornOff, dropped>>
-----------------------------------------------------------------------------
(* Time and the game.                                                      *)

DurationEnds ==
  /\ left > 0
  /\ left' = left - 1
  /\ UNCHANGED <<freezeDue, armed, overPending, opVars, gameVars, history>>

GapEnds ==
  /\ ~freezeDue
  /\ freezeDue' = TRUE
  /\ UNCHANGED <<left, armed, overPending, opVars, gameVars, history>>

\* CPlayer::Freeze refuses in some player states.
RunBody ==
  /\ pendingOp
  /\ pendingOp' = FALSE
  /\ frozen' \in IF body = "freeze" THEN {TRUE, frozen} ELSE {frozen}
  /\ wornOff' = (wornOff \/ body = "worn off")
  /\ UNCHANGED <<stateVars, body, healthy, applied, cut, dropped>>

\* Restarting the emulation, or a load that clears the byte, loses an armed body:
\* of the closing memo the client keeps nothing once it has armed it.
GameRestarts ==
  /\ pendingOp' = FALSE
  /\ frozen' = FALSE
  /\ dropped' = (dropped \/ (pendingOp /\ body = "worn off"))
  /\ UNCHANGED <<stateVars, body, healthy, applied, wornOff, cut>>

Thaw ==
  /\ frozen
  /\ frozen' = FALSE
  /\ UNCHANGED <<stateVars, opVars, healthy, history>>

HealthChanges ==
  /\ healthy' = ~healthy
  /\ UNCHANGED <<stateVars, opVars, frozen, history>>
-----------------------------------------------------------------------------
LooksBack == CheckFreeze \/ SayWornOff
Handle == LooksBack \/ PostponeFreeze \/ ArmFreeze

Next == StartWindow \/ Handle \/ WriteOtherBody \/ Connected
        \/ DurationEnds \/ GapEnds \/ RunBody \/ GameRestarts \/ Thaw \/ HealthChanges

Spec == Init /\ [][Next]_vars
-----------------------------------------------------------------------------
(* Properties.                                                             *)

TypeOK ==
  /\ left \in 0 .. MaxTraps
  /\ freezeDue \in BOOLEAN /\ armed \in BOOLEAN /\ overPending \in BOOLEAN
  /\ pendingOp \in BOOLEAN
  /\ body \in Bodies
  /\ frozen \in BOOLEAN /\ healthy \in BOOLEAN
  /\ applied \in 0 .. MaxTraps
  /\ wornOff \in BOOLEAN /\ cut \in BOOLEAN /\ dropped \in BOOLEAN

\* After the game has said that the trap wore off it freezes no more, although
\* freezes run late and are retried, until another trap is applied.
NoFreezeAfterWornOff == wornOff => ~(pendingOp /\ body = "freeze")

\* While the client is not waiting to look at the last freeze, the game has no
\* freeze left to run: an attempt is never written off before the game had it,
\* unless a new connection threw the window away.
AttemptsAwaited == pendingOp /\ body = "freeze" => armed \/ cut

\* client.py: "Once the window closes a HUD message says so", unless a new
\* connection threw the window away or the emulation took the armed message with it.
EveryWindowCloses == []<>(applied > 0 => wornOff \/ cut \/ dropped)
=============================================================================
