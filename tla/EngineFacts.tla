------------------------------ MODULE EngineFacts ------------------------------
(***************************************************************************)
(* What is known of the ChatGPT Web engine, and everything that is decided *)
(* on it: the state of the bridge (vibe-agents, model/chatgptWeb.ts), which *)
(* operation is offered and which asks first (model/launcher/operations.ts),*)
(* the checklist and the screens (model/launcher/state.ts), and the compact *)
(* view below Sessions (model/launcher/panel.ts).                          *)
(*                                                                         *)
(* Pure: facts in, decisions out.  Left out: everything that is only said, *)
(* the full harness, models, subagents, and what the doctor saw.           *)
(***************************************************************************)
EXTENDS Naturals, Sequences, FiniteSets, SequencesExt

Known  == {"yes", "no", "unknown"}
Routes == {"absent", "launcher", "foreign"}

\* health: what the daemon answers, "none" where it does not.  journal: what
\* `route status` of the runtime said.
LauncherFacts ==
    [app : Known, running : Known, config : Routes, runtime : BOOLEAN,
     health : {"none", "draining", "busy", "free"},
     journal : {"unasked", "failed", "none", "paused", "active"}]

EmptyFacts ==
    [app |-> "unknown", running |-> "unknown", config |-> "absent", runtime |-> FALSE,
     health |-> "none", journal |-> "unasked"]

Answered(f)     == f.journal \in {"none", "paused", "active"}
IsRouteActive(f) == f.config = "launcher"

\* isRouteInstalled: the journal decides where it was read, else the config.
IsRouteInstalled(f) ==
    IF Answered(f) THEN IF f.journal = "none" THEN "no" ELSE "yes"
    ELSE IF IsRouteActive(f) THEN "yes" ELSE "unknown"

\* daemonPortOf: nothing is probed where no port is known.
HasPort(f) == IsRouteActive(f) \/ f.journal \in {"paused", "active"}

-----------------------------------------------------------------------------
(* The state of the bridge                                                  *)

BridgeState ==
    {"not-installed", "not-set-up", "launcher-closed", "route-dead", "foreign-route",
     "paused", "draining", "busy", "ready"}

ClassifyBridge(f) ==
    IF IsRouteActive(f)
    THEN CASE f.health = "none"     -> "route-dead"
           [] f.health = "draining" -> "draining"
           [] f.health = "busy"     -> "busy"
           [] OTHER                 -> "ready"
    ELSE CASE f.app = "no"                   -> "not-installed"
           [] f.app # "no" /\ f.config = "foreign" -> "foreign-route"
           [] OTHER -> IF IsRouteInstalled(f) = "yes" THEN "paused"
                       ELSE IF f.running = "no" THEN "launcher-closed" ELSE "not-set-up"

IsReadyState(state) == state = "ready"

\* presentBridge: what the row tells, as far as anything tells it apart.
PresentBridge(f) ==
    [state |-> ClassifyBridge(f),
     closed |-> ClassifyBridge(f) = "paused" /\ f.running = "no"]

\* The button of a bridge that is not ready.
ActionOf(state) ==
    CASE state = "not-installed"         -> "project-page"
      [] state \in {"draining", "busy"}  -> "recheck"
      [] state = "ready"                 -> "none"
      [] OTHER                           -> "open-panel"

-----------------------------------------------------------------------------
(* Operations                                                               *)

Handoff == {"handoff.signIn", "handoff.smokeTest", "handoff.installModels"}
ShowsWindow == Handoff \cup {"engine.showWindow"}
Operation ==
    ShowsWindow \cup {"probe.runtime", "doctor.run", "bridge.connect", "bridge.pause",
                      "turns.cancel", "engine.startHidden", "engine.quit", "link.project"}

OnMac == {"macos", "app-installed"}
Preconditions(op) ==
    CASE op = "bridge.connect" -> {"runtime", "not-foreign", "installed", "route-paused", "daemon"}
      [] op = "bridge.pause"   -> {"runtime", "not-foreign", "route-active"}
      [] op = "doctor.run"     -> {"runtime", "idle"}
      [] op = "turns.cancel"   -> {"runtime", "turns"}
      [] op = "engine.startHidden" -> OnMac \cup {"engine-stopped"}
      [] op \in ShowsWindow    -> OnMac
      [] op = "engine.quit"    -> {"macos", "engine-running"}
      [] OTHER                 -> {}

\* Codex is routed, by its config or by what the journal says.
Routed(f) == IsRouteActive(f) \/ f.journal = "active"

Holds(precondition, f) ==
    CASE precondition = "macos"          -> TRUE
      [] precondition = "app-installed"  -> f.app # "no"
      [] precondition = "engine-stopped" -> f.running # "yes"
      [] precondition = "engine-running" -> f.running # "no"
      [] precondition = "runtime"        -> f.runtime
      [] precondition = "not-foreign"    -> f.config # "foreign"
      [] precondition = "installed"      -> IsRouteInstalled(f) = "yes"
      [] precondition = "route-paused"   -> ~Routed(f)
      [] precondition = "route-active"   -> Routed(f)
      [] precondition = "daemon"         -> f.health # "none"
      [] precondition = "idle"           -> f.health # "busy"
      [] precondition = "turns"          -> f.health = "busy"

Enabled(op, f) == \A precondition \in Preconditions(op) : Holds(precondition, f)

\* confirmationOf: what asks first, and what its dialog offers as the way that keeps
\* the machine working.
AlwaysAsks == {"bridge.connect", "bridge.pause", "turns.cancel", "engine.startHidden", "engine.quit"}
Asks(op, f) == op \in AlwaysAsks \/ (op \in ShowsWindow /\ f.running # "yes")
SuggestsFirst(op, f) == op = "engine.quit" /\ Enabled("bridge.pause", f)

\* What only reads can be ended half way.
IsAbortable(op) == op \in {"doctor.run", "probe.runtime"}

Reprobe(op) ==
    CASE op \in {"bridge.connect", "bridge.pause"} -> <<"status", "route", "health">>
      [] op \in ShowsWindow \cup {"engine.startHidden", "engine.quit"} -> <<"engine", "route", "health">>
      [] op \in {"doctor.run", "turns.cancel"} -> <<"health">>
      [] OTHER -> <<>>

-----------------------------------------------------------------------------
(* The checklist                                                            *)

\* The steps, in order: how far each is and what it offers.
Step(id, state, operations) == [id |-> id, state |-> state, operations |-> operations]

LauncherStep(f) ==
    CASE f.app = "no"  -> Step("launcher", "todo", {"link.project"})
      [] f.app = "yes" -> Step("launcher", "done", {})
      [] OTHER         -> Step("launcher", "unknown", {})
RuntimeStep(f) ==
    IF f.runtime THEN Step("runtime", "done", {})
    ELSE Step("runtime", "todo", IF f.running = "yes" THEN {"probe.runtime"} ELSE {"engine.showWindow"})
EngineStep(f) ==
    CASE f.running = "yes" -> Step("engine", "done", {})
      [] f.running = "no"  -> Step("engine", "todo", {"engine.startHidden"})
      [] OTHER             -> Step("engine", "unknown", {})
SignInStep(f) ==
    IF IsRouteInstalled(f) = "yes" THEN Step("signIn", "unknown", {"doctor.run"})
    ELSE Step("signIn", "handoff", {"handoff.signIn"})
SmokeStep(f) ==
    IF IsRouteInstalled(f) = "yes" THEN Step("smokeTest", "done", {})
    ELSE Step("smokeTest", "handoff", {"handoff.smokeTest"})
InstallStep(f) ==
    IF IsRouteInstalled(f) = "yes" THEN Step("installModels", "done", {})
    ELSE Step("installModels", "handoff", {"handoff.installModels"})
ConnectStep(f) ==
    CASE IsRouteActive(f) -> Step("connect", "done", {})
      [] ~IsRouteActive(f) /\ (f.config = "foreign" \/ IsRouteInstalled(f) = "yes") ->
             Step("connect", "todo", {"bridge.connect"})
      [] OTHER -> Step("connect", "todo", {})

Steps(f) ==
    <<LauncherStep(f), RuntimeStep(f), EngineStep(f), SignInStep(f), SmokeStep(f), InstallStep(f),
      ConnectStep(f)>>

\* The step to take now, the first that is open.  What only the launcher knows holds
\* nothing up.
NoStep == Step("none", "done", {})
OpenSteps(steps) == {i \in DOMAIN steps : steps[i].state \in {"todo", "handoff"}}
LastOpen(steps) == IF OpenSteps(steps) = {} THEN NoStep ELSE steps[Max(OpenSteps(steps))]
FirstOpen(steps) == IF OpenSteps(steps) = {} THEN NoStep ELSE steps[Min(OpenSteps(steps))]
NextStep(f) == FirstOpen(Steps(f))

\* What the overview offers beside the state.  Where nothing is set up yet, it is
\* what the checklist offers.
OfState(f) ==
    CASE ClassifyBridge(f) = "not-installed"   -> {"link.project"}
      [] ClassifyBridge(f) \in {"not-set-up", "foreign-route"} -> {"handoff.installModels"}
      [] ClassifyBridge(f) = "launcher-closed" -> {"handoff.installModels", "engine.startHidden"}
      [] ClassifyBridge(f) = "route-dead"      -> {"bridge.pause", "engine.startHidden", "engine.showWindow"}
      [] ClassifyBridge(f) = "paused" -> IF f.running = "no" THEN {"bridge.connect", "engine.startHidden"}
                                         ELSE {"bridge.connect"}
      [] ClassifyBridge(f) = "busy"   -> {"turns.cancel"}
      [] OTHER                        -> {}
StateOperations(f) ==
    IF ClassifyBridge(f) \in {"not-set-up", "launcher-closed"} /\ NextStep(f).operations # {}
    THEN NextStep(f).operations ELSE OfState(f)

\* The route item of the Bridge screen: one direction at a time.
RouteOperation(f) ==
    IF IsRouteActive(f) \/ (f.journal = "active" /\ f.config # "foreign")
    THEN "bridge.pause" ELSE "bridge.connect"

\* The process item of the Engine screen.
ProcessOperations(f) ==
    CASE f.running = "yes" -> {"engine.showWindow", "engine.quit"}
      [] f.running = "no"  -> {"engine.startHidden", "engine.showWindow"}
      [] OTHER             -> {"engine.startHidden", "engine.showWindow", "engine.quit"}

-----------------------------------------------------------------------------
(* The compact view                                                         *)

\* An operation shows once: where it matters most.  The items are drawn in this
\* order; each keeps what no item before it shows.
Attention(f) == IF ClassifyBridge(f) = "route-dead" THEN StateOperations(f) ELSE {}
NextItem(f)  == NextStep(f).operations \ Attention(f)
\* The route: what can be pressed, or the direction the state asks for.
KeptRoute(f) ==
    {op \in {RouteOperation(f)} : Enabled(op, f) \/ (IsRouteActive(f) <=> op = "bridge.pause")}
BridgeItem(f) == KeptRoute(f) \ (Attention(f) \cup NextItem(f))
\* The engine's buttons are those that can be pressed.
EngineItemAll(f) == {op \in ProcessOperations(f) : Enabled(op, f)}
EngineItem(f) ==
    {op \in ProcessOperations(f) : Enabled(op, f)} \ (Attention(f) \cup NextItem(f) \cup BridgeItem(f))

CompactItems(f) == <<Attention(f), NextItem(f), BridgeItem(f), EngineItem(f)>>
================================================================================
