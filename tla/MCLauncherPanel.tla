---------------------------- MODULE MCLauncherPanel ----------------------------
EXTENDS LauncherPanel

\* One that always asks and may offer to pause the bridge first, and one that asks only
\* where it would start the engine.
MCOffered == {"engine.quit", "engine.showWindow"}
\* The panel the workbench may bring back showed the other screen than a new one does.
MCSaved == {"setup"}
MCMachines == {[running |-> TRUE, routed |-> TRUE]}
================================================================================
