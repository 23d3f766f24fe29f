---------------------------- MODULE ChatGptWebBridge ----------------------------
(***************************************************************************)
(* ChatGPT Web as the Sessions view shows it (vibe-agents,                  *)
(* host/chatgptWeb.ts, wired in extension.ts): the row that tells the state *)
(* of the bridge, the launch of a session that waits for a look, and the    *)
(* user who takes the step the checklist marks as next.                     *)
(*                                                                         *)
(* Below is the machine: the launcher app, its daemon, the config of Codex  *)
(* and the journal of the bridge.  It changes under the looks, which ask    *)
(* one thing after another (host/launcher/controller.ts; its queue is       *)
(* module Launcher).  Dialogs are module LauncherPanel: here every          *)
(* operation is confirmed.                                                  *)
(***************************************************************************)
EXTENDS EngineFacts, EngineFiles

CONSTANTS
    Machines,     \* the machines a run begins on
    MaxChanges,   \* bound: what other programs do to the machine
    MaxAsks       \* bound: launches, switches of the setting and the view, other buttons

ASSUME BoundsAssumption == MaxChanges \in Nat /\ MaxAsks \in Nat

VARIABLES
    machine,    \* what is so
    facts,      \* what is known of it
    jobs,       \* the controller's queue: the first one runs
    todo,       \* what that one does next
    visible,    \* the rows of the Sessions view are on screen
    enabled,    \* the setting
    shown,      \* the row, or NoRow
    looking,    \* a look of the row is under way: `running`
    told,       \* the state the extension heard of last: `shownState`
    launch,     \* a launch that waits: for the look, for the model
    refusal,    \* what the notification on screen offers: `isRefusalShown`
    changes, asks

vars == <<machine, facts, jobs, todo, visible, enabled, shown, looking, told, launch, refusal, changes, asks>>
control == <<jobs, todo>>
row == <<visible, enabled, looking, launch, refusal, asks>>

Machine ==
    [app : BOOLEAN, running : BOOLEAN, runtime : BOOLEAN, config : Routes,
     journal : {"none", "paused", "active"}, daemon : {"none", "other", "draining", "busy", "free"}]
ASSUME MachinesAssumption == Machines \subseteq Machine

NoRow == [state |-> "none", closed |-> FALSE]
Looks == {"interval", "open"}

-----------------------------------------------------------------------------
(* Looking                                                                  *)

FreeProbes == <<"engine", "route", "health">>
OpenProbes == <<"runtime", "engine", "route", "status", "health">>
Probe == {"runtime", "engine", "route", "status", "health"}

\* What a job does: runRefresh and runOperation.
Plan(key, f) ==
    CASE key = "interval"      -> FreeProbes
      [] key = "open"          -> OpenProbes
      [] key = "probe.runtime" -> <<"runtime">>
      [] OTHER -> (IF "runtime" \in Preconditions(key) /\ ~f.runtime THEN <<"runtime">> ELSE <<>>)
                  \o FreeProbes \o <<"act">>

\* lookAt: what one probe says.  The runtime is asked through its program.
YesOrNo(b) == IF b THEN "yes" ELSE "no"
Probed(probe, f, m) ==
    CASE probe = "engine" -> [f EXCEPT !.app = YesOrNo(m.app), !.running = YesOrNo(m.running)]
      [] probe = "route"  -> [f EXCEPT !.config = m.config]
      [] probe = "health" -> [f EXCEPT !.health = IF HasPort(f) THEN ParseHealth(m.daemon) ELSE "none"]
      [] probe = "runtime" -> [f EXCEPT !.runtime = m.runtime]
      [] probe = "status" -> [f EXCEPT !.journal = IF f.runtime /\ m.runtime THEN m.journal ELSE "failed"]

Enqueue(key) ==
    IF \E i \in DOMAIN jobs : jobs[i] = key THEN UNCHANGED control
    ELSE /\ jobs' = Append(jobs, key)
         /\ todo' = IF jobs = <<>> THEN Plan(key, facts) ELSE todo

\* The row of a bridge that is turned off is none.
Show(presentation, on) == shown' = IF on THEN presentation ELSE shown

\* onDidChange of the controller, and factsChanged: the row follows the state, but
\* for a look of its own, which ends with what is known then.
HeardLate(known, on) ==
    IF ClassifyBridge(known) = told THEN UNCHANGED <<told, shown>>
    ELSE /\ told' = ClassifyBridge(known)
         /\ shown' = IF on /\ ~looking THEN PresentBridge(facts) ELSE shown
Heard(known, on) ==
    IF ClassifyBridge(known) = told THEN UNCHANGED <<told, shown>>
    ELSE /\ told' = ClassifyBridge(known)
         /\ shown' = IF on /\ ~looking THEN PresentBridge(known) ELSE shown

\* A probe of the job that runs.  Where the config of Codex shows another route
\* than the look began with, the journal is asked as well.
RouteTurned(known) == IsRouteActive(known) # IsRouteActive(facts)
Look ==
    /\ todo # <<>>
    /\ Head(todo) # "act"
    /\ \E route \in RoutesRead[machine.config] :
          facts' = Probed(Head(todo), facts, [machine EXCEPT !.config = route])
    /\ todo' = IF Head(jobs) = "interval" /\ Head(todo) = "route" /\ RouteTurned(facts') /\ facts.runtime
               THEN Append(Tail(todo), "status") ELSE Tail(todo)
    /\ Heard(facts', enabled)
    /\ UNCHANGED <<machine, jobs, row, changes>>

-----------------------------------------------------------------------------
(* The machine                                                              *)

\* A launcher that starts installs its runtime, serves on a port of its own and
\* connects the route its journal has.
Started(m) ==
    [m EXCEPT !.running = TRUE, !.runtime = TRUE, !.daemon = "free",
              !.journal = IF @ = "none" THEN "none" ELSE "active",
              !.config = IF m.journal = "none" \/ @ = "foreign" THEN @ ELSE "launcher"]
Stopped(m)   == [m EXCEPT !.running = FALSE, !.daemon = "none"]
Paused(m)    == [m EXCEPT !.config = "absent", !.journal = "paused"]
Connected(m) == [m EXCEPT !.config = "launcher", !.journal = "active"]
Removed(m)   == [m EXCEPT !.config = "absent", !.journal = "none", !.runtime = FALSE]

\* What an operation does to the machine.  In the window of the launcher the user
\* signs in and installs the models.
Effect(op, m) ==
    CASE op = "bridge.connect" -> Connected(m)
      [] op = "bridge.pause"   -> Paused(m)
      [] op = "turns.cancel"   -> [m EXCEPT !.daemon = IF @ = "busy" THEN "free" ELSE @]
      [] op \in {"engine.startHidden", "engine.showWindow"} -> IF m.running THEN m ELSE Started(m)
      [] op \in Handoff        -> Connected(IF m.running THEN m ELSE Started(m))
      [] op = "engine.quit"    -> Stopped(m)
      [] OTHER                 -> m

\* runOperation, after its look: refused, or done and looked at.
Act ==
    /\ todo # <<>>
    /\ Head(todo) = "act"
    /\ \/ /\ ~Enabled(Head(jobs), facts)
          /\ todo' = <<>>
          /\ UNCHANGED machine
       \/ /\ Enabled(Head(jobs), facts)
          /\ machine' = Effect(Head(jobs), machine)
          /\ todo' = Reprobe(Head(jobs))
    /\ UNCHANGED <<facts, jobs, shown, told, row, changes>>

\* What the launcher, other windows and other programs do.
Change ==
    /\ changes < MaxChanges
    /\ changes' = changes + 1
    /\ \/ ~machine.app /\ machine' = [machine EXCEPT !.app = TRUE]
       \/ machine.app /\ ~machine.running /\ machine' = Started(machine)
       \/ machine.running /\ machine' = Stopped(machine)
       \/ machine.journal = "active" /\ machine' = Paused(machine)
       \/ machine.running /\ machine.journal # "none" /\ machine' = Removed(machine)
       \/ machine.config # "foreign" /\ machine' = [machine EXCEPT !.config = "foreign"]
       \/ machine.config = "launcher" /\ machine' = [machine EXCEPT !.config = "absent"]
       \/ machine.daemon = "free" /\ machine' = [machine EXCEPT !.daemon = "busy"]
    /\ UNCHANGED <<facts, control, shown, told, row>>

\* A turn ends.
TurnEnds ==
    /\ machine.daemon = "busy"
    /\ machine' = [machine EXCEPT !.daemon = "free"]
    /\ UNCHANGED <<facts, control, shown, told, row, changes>>

-----------------------------------------------------------------------------
(* The row                                                                  *)

\* check: looks that overlap are one.
Check == looking' = TRUE /\ (IF looking THEN UNCHANGED control ELSE Enqueue("interval"))

\* ProbeSchedule: at its interval, while the row shows.
OnInterval ==
    /\ visible /\ enabled
    /\ ~looking
    /\ Check
    /\ UNCHANGED <<machine, facts, visible, enabled, shown, told, launch, refusal, changes, asks>>

\* setVisible: once when its row shows.
SetVisible ==
    /\ asks < MaxAsks
    /\ asks' = asks + 1
    /\ visible' = ~visible
    /\ IF ~visible /\ enabled THEN Check ELSE UNCHANGED <<looking, control>>
    /\ UNCHANGED <<machine, facts, enabled, shown, told, launch, refusal, changes>>

\* configurationChanged.
ConfigurationChanged ==
    /\ asks < MaxAsks
    /\ asks' = asks + 1
    /\ enabled' = ~enabled
    /\ shown' = IF enabled THEN NoRow ELSE shown
    /\ IF visible /\ ~enabled THEN Check ELSE UNCHANGED <<looking, control>>
    /\ UNCHANGED <<machine, facts, visible, told, launch, refusal, changes>>

\* prepareLaunch, up to its look.
PrepareLaunch ==
    /\ asks < MaxAsks
    /\ asks' = asks + 1
    /\ enabled
    /\ launch = "none"
    /\ launch' = "looks"
    /\ Check
    /\ UNCHANGED <<machine, facts, visible, enabled, shown, told, refusal, changes>>

\* refuse: a notification, unless the last one is still on screen.
Refuse(state) == refusal' = IF refusal = "none" THEN ActionOf(state) ELSE refusal

\* A job is done, and the next begins.  The look of the row ends with the job it
\* waits for, and with it the launch that waits for the look: a bridge that is
\* ready starts it, or asks for the model first.
Waits == looking /\ Head(jobs) = "interval"
KeepsLooking == looking' = looking
EndsLook == looking' = (looking /\ ~Waits)
Done ==
    /\ jobs # <<>>
    /\ todo = <<>>
    /\ jobs' = Tail(jobs)
    /\ todo' = IF Tail(jobs) = <<>> THEN <<>> ELSE Plan(Head(Tail(jobs)), facts)
    /\ EndsLook
    /\ IF Waits THEN Show(PresentBridge(facts), enabled) ELSE UNCHANGED shown
    /\ \/ /\ Waits /\ launch = "looks" /\ IsReadyState(ClassifyBridge(facts))
          /\ launch' \in {"starts", "picks"}
          /\ UNCHANGED refusal
       \/ /\ Waits /\ launch = "looks" /\ ~IsReadyState(ClassifyBridge(facts))
          /\ launch' = "none"
          /\ Refuse(ClassifyBridge(facts))
       \/ /\ ~(Waits /\ launch = "looks")
          /\ UNCHANGED <<launch, refusal>>
    /\ UNCHANGED <<machine, facts, visible, enabled, told, changes, asks>>

\* The notification is answered: dismissed, or its button runs.
AnswerRefusal ==
    /\ refusal # "none"
    /\ refusal' = "none"
    /\ \/ UNCHANGED <<looking, control>>
       \/ refusal = "recheck" /\ enabled /\ Check
       \/ refusal = "open-panel" /\ Enqueue("open") /\ UNCHANGED looking
    /\ UNCHANGED <<machine, facts, visible, enabled, shown, told, launch, changes, asks>>

\* selectModel: chosen, or dismissed.
PickModel ==
    /\ launch = "picks"
    /\ launch' \in {"starts", "none"}
    /\ UNCHANGED <<machine, facts, control, visible, enabled, shown, looking, told, refusal, changes, asks>>

\* The terminal starts.
Starts ==
    /\ launch = "starts"
    /\ launch' = "none"
    /\ UNCHANGED <<machine, facts, control, visible, enabled, shown, looking, told, refusal, changes, asks>>

-----------------------------------------------------------------------------
(* The user                                                                 *)

\* The panel opens, or is asked to look: the runtime is asked as well.
Refresh ==
    /\ jobs = <<>>
    /\ Enqueue("open")
    /\ UNCHANGED <<machine, facts, shown, told, row, changes>>

\* A click on the step to take now.  Its page leads to the app.
TakeNextStep ==
    /\ jobs = <<>>
    /\ \E op \in NextStep(facts).operations :
        \/ /\ op = "link.project"
           /\ ~machine.app
           /\ machine' = [machine EXCEPT !.app = TRUE]
           /\ UNCHANGED control
        \/ /\ op # "link.project"
           /\ Enabled(op, facts)
           /\ Enqueue(op)
           /\ UNCHANGED machine
    /\ UNCHANGED <<facts, shown, told, row, changes>>

\* Any other button of the compact view.
Press ==
    /\ asks < MaxAsks
    /\ asks' = asks + 1
    /\ jobs = <<>>
    /\ \E i \in DOMAIN CompactItems(facts) : \E op \in CompactItems(facts)[i] \ {"link.project"} :
        /\ Enabled(op, facts)
        /\ Enqueue(op)
    /\ UNCHANGED <<machine, facts, visible, enabled, shown, looking, told, launch, refusal, changes>>

-----------------------------------------------------------------------------
Init ==
    /\ machine \in Machines
    /\ facts = EmptyFacts
    /\ jobs = <<>>
    /\ todo = <<>>
    /\ visible = TRUE
    /\ enabled = TRUE
    /\ shown = NoRow
    /\ looking = FALSE
    /\ told = "none"
    /\ launch = "none"
    /\ refusal = "none"
    /\ changes = 0
    /\ asks = 0

Next ==
    \/ Look \/ Act \/ Done \/ Change \/ TurnEnds
    \/ OnInterval \/ SetVisible \/ ConfigurationChanged \/ PrepareLaunch \/ AnswerRefusal \/ PickModel \/ Starts
    \/ Refresh \/ TakeNextStep \/ Press

Spec == Init /\ [][Next]_vars

\* What runs ends, the interval comes again while the row shows, a turn ends.
FairSpec ==
    Spec /\ WF_vars(Look) /\ WF_vars(Act) /\ WF_vars(Done) /\ WF_vars(OnInterval) /\ WF_vars(TurnEnds)

\* And the user looks again, and goes on with the step the checklist marks as next.
GuidedSpec == FairSpec /\ SF_vars(Refresh) /\ SF_vars(TakeNextStep)

-----------------------------------------------------------------------------
(* Properties                                                               *)

TypeOK ==
    /\ machine \in Machine
    /\ facts \in LauncherFacts
    /\ jobs \in Seq(Looks \cup Operation)
    /\ todo \in Seq(Probe \cup {"act"})
    /\ {visible, enabled, looking} \subseteq BOOLEAN
    /\ shown \in [state : BridgeState \cup {"none"}, closed : BOOLEAN]
    /\ told \in BridgeState \cup {"none"}
    /\ launch \in {"none", "looks", "picks", "starts"}
    /\ refusal \in {"none", "open-panel", "recheck", "project-page"}
    /\ changes \in 0..MaxChanges /\ asks \in 0..MaxAsks

\* The row tells the state the panel tells, whenever no look of the row is under
\* way.
RowTellsOneStory ==
    (enabled /\ shown # NoRow /\ ~looking) => shown.state = ClassifyBridge(facts)

\* The compact view offers what can be pressed of the way out, the next step, the
\* bridge and the engine, each once.
CompactOffersOnce ==
    LET items == CompactItems(facts)
        shownAt(op) == {i \in DOMAIN items : op \in items[i]}
        offered == (IF ClassifyBridge(facts) = "route-dead" THEN StateOperations(facts) ELSE {})
                   \cup NextStep(facts).operations \cup {RouteOperation(facts)} \cup ProcessOperations(facts)
    IN  \A op \in Operation :
            /\ Cardinality(shownAt(op)) <= 1
            /\ op \in offered /\ Enabled(op, facts) => shownAt(op) # {}

\* The route that is read from a config, line by line, is the value of its top-level
\* key: neither what stands in a string over several lines nor what a table has.
ReadsTheTopLevelKey ==
    [][Look /\ Head(todo) = "route" => facts'.config = machine.config]_vars

\* Whatever is installed, for this platform and others, and whatever of it lost its
\* program: the newest version that has one runs, then the one of PATH.  Next to a
\* setting nothing runs but what it names.  The choice depends on no state, and is
\* looked at in the first ones.
NewestRuns == Init => NewestIsFound

\* The row catches up with the machine, once it shows and nobody turns it off.
Truth == Probed("health", Probed("route", Probed("engine", facts, machine), machine), machine)
RowCatchesUp ==
    <>[](visible /\ enabled) => <>[](shown.state = ClassifyBridge(Truth))

\* Who takes the next step again and again gets a bridge that is ready, unless Codex
\* is routed elsewhere, its config lost the route the journal still has, or the
\* launcher that runs was stripped of its runtime: there the checklist is no guide.
SettledElsewhere ==
    \/ machine.config = "foreign"
    \/ machine.config = "absent" /\ machine.journal = "active"
    \/ machine.running /\ ~machine.runtime
GuideLeadsToReady ==
    <>[](visible /\ enabled) => <>[](ClassifyBridge(facts) = "ready" \/ SettledElsewhere)
================================================================================
