----------------------------- MODULE MCItemGrant -----------------------------
(* Values for the structured constants of ItemGrant.                       *)
EXTENDS ItemGrant

MCData  == [unlockLauncher |-> TRUE, unlockPowerBombs |-> FALSE, launcherBonus |-> 15]
MCStart == <<"Missile Expansion">>
=============================================================================
