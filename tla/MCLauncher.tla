----------------------------- MODULE MCLauncher -----------------------------
(***************************************************************************)
(* Launcher with an operation of each kind: one that asks first and is     *)
(* verified, one that asks when it starts the launcher, one that polls,    *)
(* and one that only reads.                                                *)
(***************************************************************************)
EXTENDS Launcher

OneOfEachKind == {"bridge.pause", "engine.showWindow", "engine.quit", "models.refresh"}
OneThatStarts == {"engine.showWindow"}
=============================================================================
