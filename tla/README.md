# A verification project for Vibe

Vibe is a distribution of Code - OSS. Its repository holds what it adds to upstream: an overlay
of TypeScript sources (`src/overlay/`), patches, build scripts and branding. This directory holds
TLA+ models of the parts of it that keep state and meet concurrency, failure or ordering, the TLC
configurations that check them, and TLAPS proofs of what matters most.

All paths below are under `src/`; `WB` stands for `overlay/src/vs/platform/workspaceBar`.

## 1. Inventory

### 1.1 Workspace bar model (`WB/common/workspaceBarModel.ts`)

*State*: the entries (identity, host, pinned, bound window, time of last activation), the active
window and its time, the status each window reports.
*Operations*: `reconcile` with the open windows, `setActive`, `pickNextActive`, `pin`, `unpin`,
`remove`, `reorder`, `setWindowStatus`, `serialize`, `deserialize`.
*Interaction*: synchronous calls from the main service, which persists and broadcasts whatever a
method reports as changed. A method that changes something and reports nothing leaves every window
with a stale bar and the next session with stale entries.
*Hard*: two windows on one workspace, an entry whose host changes, windows that load in place and
tell late, reorder across host groups, ties of activation times, restarts.
*Correct when*: entries of a host are contiguous with the local host first; every entry is bound to
a window that shows it or is pinned; changes are persisted and reported; the choice of the next
window is the one the comments promise.

### 1.2 Main service: one frame for all windows (`WB/electron-main/workspaceBarMainService.ts`)

*State*: `presentedWindowId`, the windows that are hidden until they are ready (with a 7 s timer),
the hidden auxiliary windows, `singleFrame`, the geometry of the frame.
*Operations*: one handler per window event (open, load, ready, close or crash, focus, show), the
commands of the bar (switch to an entry, close its window, reveal the last active one), the setting.
*Interaction*: event handlers on the main process' thread that run to completion, except where
they wait for a window to leave native fullscreen (up to 3 s): then any other handler runs.
*Hard*: everything that happens during such a wait, events of the system that arrive late, timers
that fire for windows that are presented or gone, crashes of the presented window, the setting
changing in the middle.
*Correct when*: the user never is without a window, exactly one window is visible once things
settle, windows for extension development stay out of it, disabling the setting brings all back.

### 1.3 Renderer part (`overlay/src/vs/workbench/browser/parts/workspacebar/`, `services/workspaceBar/`, `WB/common/sshConfigHosts.ts`)

Draws the entries and forwards commands; proxies of the main service, drag and drop, a parser of
host names in ssh configurations. Little state of its own.

### 1.4 Agents (`overlay/extensions/vibe-agents/src/`)

*State*: sessions with a reducer over events (`model/session.ts`), a registry of sessions with
output parsers (`model/registry.ts`), trackers that turn bursts of output into activity
(`model/activity.ts`), terminals with process ids and shell executions (`host/terminals.ts`); what
the Sessions view and the tab of the window were told last (`extension.ts`), and the page of the
view (`view/sessionsView.ts`).
*Interaction*: terminal events, output, timers; `host/terminals.ts` waits for shell integration
and process ids, and for the user to pick a terminal from a list; a terminal may close or be taken by
another run meanwhile. Output is parsed for the marks of the shell, which start and end cards as the
editor's messages do. Sessions are reattached after a reload of the window. A refresh of the view waits for the status rows, and its
message is lost where the page is not ready.
*Hard*: ends of executions that belong to an earlier run, restarts that reuse a terminal, stops
pressed twice, reattaching within a timeout; refreshes that overlap and pages that come and go.
*Correct when*: a card that is live has something that can end it, and survives what else ends
around its run; the view ends up with what is there, and the keyboard never loses its place.

### 1.5 ChatGPT Web (`overlay/extensions/vibe-agents/src/host/launcher/`, `host/chatgptWeb.ts`, `model/chatgptWeb.ts`, `model/launcher/`)

*State*: a queue of jobs with one runner (`controller.ts`), what is known of the deployment
(`facts.ts`), pending confirmations, timers that look again after an operation; runs that ask the
user and webviews that are sent a model (`panelHost.ts`); the row of the Sessions view, and launches
of sessions that wait for a look (`host/chatgptWeb.ts`).
*Operations*: enqueue, confirm, cancel, pump, probe, run, verify; run with its questions, post,
show a screen; check, refuse, prepare a launch. Pure: the state of the bridge, preconditions,
checklist and compact view, the config of Codex, the choice among installed runtimes.
*Hard*: the same operation asked for twice while the first one runs, confirmation that arrives for
a job that waits behind another, cancellation between two steps of a job, facts that are stale by
the time they are used, a webview that loads or hides between a change and its post, two stories of
one machine in two views.
*Correct when*: nothing that asks runs unasked; claims are verified; everyone gets an answer; the
row, the panel and the machine end up in one story; who follows the checklist gets a bridge that is
ready.

### 1.6 Remote SSH (`overlay/extensions/vibe-remote-ssh/src/`)

*State*: a server folder on the remote host shared by all windows that connect to it (staging
folder, lock, pid, token and log files), connections and tunnels per window (`ssh/`,
`authResolver.ts`), uploads of a server tarball (`vibe/serverUpload.ts`, `vibe/serverTarball.ts`).
*Interaction*: shell scripts that run on the remote host, generated or bundled
(`scripts/server-setup.sh`), with `flock` where it exists; several windows run them at once.
*Hard*: two windows installing the same server, a connection that drops in the middle of an
upload, a server that does not start, retries of a resolver that failed.

### 1.7 Chandra (`overlay/extensions/vibe-chandra/src/`)

A view of research ledgers: JSON lines that other processes append to.

*State*: the files that are known, a cache of parsed rows per file, a refresh that runs and one that
waits (`host/ledgers.ts`, `host/fileCache.ts`), changes that are collected (`host/debounce.ts`); the
focused node of the window (`extension.ts`); focus, route, lens and position of each page, saved in
its hash (`view/graphView.ts`, `view/hashState.ts`).
*Operations*: watcher events, refresh, reload, selecting papers; fold, cycles, depths, layers and
routes (`model/`, `view/layout.ts`), which are pure; clicks and messages of two surfaces.
*Hard*: a file that is rewritten, half written or unreadable for a moment; changes during a refresh;
pages that are destroyed when hidden and restore what they saved; messages that cross.
*Correct when*: a request is answered with a snapshot that includes what it was about, and the
graph ends up being that of the files; pages show the last snapshot and one focused node.

### 1.8 Build, branding, patches, documentation

Scripts that assemble the product (`scripts/`, `build/`), the `bin/vibe` launcher, patches to
upstream files and the documents. Sequential tooling without state to model.

## 2. Modules

| Module | Models | Checked with | Proofs |
| --- | --- | --- | --- |
| `SingleFrame` | §1.2, `workspaceBarMainService.ts` lines 198-676 | `MCSingleFrame` | `SingleFrameProofs` |
| `WorkspaceBarModel` | §1.1 as the main service drives it | `MCWorkspaceBarModel` | `WorkspaceBarModelProofs` |
| `Launcher` | §1.5, `controller.ts` with `operations.ts`, `system.ts` | `MCLauncher` | `HostProofs` |
| `EngineFacts`, `EngineFiles` | §1.5, the pure part: `facts.ts`, `state.ts`, `operations.ts`, `panel.ts`, `chatgptWeb.ts`, `runtime.ts` | with the next two | with the next |
| `ChatGptWebBridge` | §1.5, `host/chatgptWeb.ts` over a machine | `MCChatGptWebBridge` | `ChatGptWebBridgeProofs` |
| `LauncherPanel` | §1.5, `panelHost.ts`, `launcherView.ts` | `MCLauncherPanel` | `LauncherPanelProofs` |
| `AgentSession` | §1.4, what a card promises (abstract) | as a property of the next | with the next |
| `AgentTerminals` | §1.4, `terminals.ts`, `registry.ts`, `session.ts` | `MCAgentTerminals` | `SessionsProofs` |
| `AgentsView` | §1.4, `extension.ts`, `sessionsView.ts` | `MCAgentsView` | `SessionsProofs` |
| `RemoteServer` | §1.6, `serverUpload.ts`, `serverTarball.ts`, `server-setup.sh` | `MCRemoteServer` | `HostProofs` |
| `Ledgers` | §1.7, `ledgers.ts`, `fileCache.ts`, `debounce.ts`, `discovery.ts` | `MCLedgers` | `ChandraProofs` |
| `WorkflowGraph`, `WorkflowLayout` | §1.7, the pure part: `fold.ts`, `cycles.ts`, `derived.ts`; `layout.ts` | with the next | with the next |
| `WorkflowLedgers` | §1.7, ledgers that grow row by row | `MCWorkflowLedgers` | `WorkflowProofs` |
| `GraphView` | §1.7, one page: `graphView.ts`, `hashState.ts` | with the next | with the next |
| `GraphSurfaces` | §1.7, two pages and `extension.ts` | `MCGraphSurfaces` | `ChandraProofs` |

An action is one handler, one method called over IPC, or what a handler does between two of its
waits. Some definitions come with one that differs from them the way a plausible mistake in that
code would (`TimerFires` and `TimerForgets`, `Test` and `TestKeepsCopy`, `Heard` and `HeardLate`).
The specifications do not use those. `PROJECT.json` names under "mutants" which property fails when
one takes the place of the original, so that every property is known to depend on the code it is
about.

Modules compose where components do. `AgentTerminals` implements `AgentSession` for every session
(`CardsKeepPromises`, the refinement mapping is the card of the session). `ChatGptWebBridge` and
`LauncherPanel` extend `EngineFacts`: both see the machine through the looks of the controller,
whose queue `Launcher` has in detail; there a job is its looks, here it is cut down to what the row
and the panel can tell apart. `GraphSurfaces` runs two pages of `GraphView`; `WorkflowLedgers` folds
with `WorkflowGraph` and lays out with `WorkflowLayout`.

### 2.1 SingleFrame

| Code (`workspaceBarMainService.ts`) | Module |
| --- | --- |
| `presentedWindowId`, `windowsHiddenUntilReady`, `hiddenAuxiliaryWindows`, `singleFrame` | `presented`, `untilReady`, `hiddenAux`, `singleFrame` |
| `win.isVisible()`, `isFullScreen`, a show event on its way | `visible`, `full`, `shown` |
| `await this.leaveFullScreen(...)` in `reveal`, `hide`, `switchTo` | an element of `waiting` |
| what comes after that `await` | `RevealContinues`, `HideContinues`, `OpenContinues` |
| `doReveal`, `hide`, `show/hideAuxiliaryWindows`, `release` | `DoReveal` and its helpers, `OnWillLoadWindow`, `BringAllBack` |

What the model takes for granted: a wait for fullscreen ends at any time, since the code gives up
after 3 seconds; two waits for the same window and purpose count as one; `isFullScreen` changes at
once (macOS) or when the window has left; the windows service loads a window in the turn in which it
opens it (`Settled`); windows for extension development do not open during startup; a quit is vetoed
in a window that is presented (a hidden one is shown first, which is `ShownByOthers` and its event).
`ReadyTimeout` may happen again while the wait of the first one goes on, which adds nothing. The
geometry, minimized windows and labels are left out, and any managed window may be the one that
takes over from a closed one: which one is the business of the next module.

### 2.2 WorkspaceBarModel

`bar` is the model object with its service's persisted entries; `windows` is what each managed
window showed when the bar last reconciled. Windows change what they show behind the back of the
bar: before each ready event every window may show anything, at `onWillLoadWindow` the loading one
may. `Reconcile`, `Insert`, `PickNextActive`, `Reordered` and `Restored` are the loops of the class,
written as local recursive functions so that they can be proved about. `reported` tells whether the
last step scheduled the event for the windows. Labels, the syntax of the persisted state and windows
that are not managed are left out; the clock ticks when a window is activated, since only the order
of times matters.

### 2.3 Launcher

`tickets`, `job`, `queue`, `current` are the queue of `controller.ts`; the queue is a set since the
order of its elements is that of their tickets. `phase` and `todo` tell which `await` of the running
job is pending: a probe before (`before`), the program (`run`), the wait for the launcher to be gone
(`poll`), a probe afterwards (`after`). Probes may answer anything, because other windows and the
launcher itself change the machine. `Request(op, TRUE)` stands for the user going ahead in the
dialog, `Dispose` for the window going. A program that is told to end may live for up to 2 seconds
(`programs`). `engine.showWindow` and `handoff` stand for the operations of their kind, facts that
only decide whether an operation is offered are open, and links are left out. `starts`, `granted`
and `fresh` are history variables; no action depends on them.

### 2.4 RemoteServer

An attempt is one resolution of a remote window, or one retry: all of them work on the same folder
of the same host, and only the setup script takes a lock. The state is that of the host (folder,
uploads, unpacked copies, token, pid and log file, processes) and where each attempt is. A step is
what one command of a script does; removing the folder takes two, and `mv` renames or, when there is
a folder by then, moves inside. A script goes on after its connection broke (`Lose`), until it next
prints something (`Cut`). tar, mv, checks, downloads and the server itself may fail at any time. The
properties that speak of the setup script are stated for hosts with `flock`: without it the script
warns and goes on, and promises nothing. Left out: scripts that are killed without their trap (the
server then keeps the lock through the descriptor it inherited), process ids that are used again,
Windows hosts, `product.json`, and folders left by earlier versions.

### 2.5 EngineFacts, EngineFiles

Facts in, decisions out: `ClassifyBridge`, `Enabled` with the preconditions of each operation,
`Asks`, the `Steps` of the checklist, `StateOperations` and the items of the compact view are the
functions of that name. The answer of the daemon is one of draining, busy, free or none, the journal
is unasked, failed, or what it says. Texts, models, subagents, the full harness and the doctor's
report are left out, and so is the order of the buttons of an item. `ParseLauncherRoute` goes
through the lines of a config, each of which is what the reader's regular expressions tell apart;
`RuntimeCandidates` and `FindRuntime` order and choose among directories. A look reads any config
whose top-level key, by the rules of TOML, is the one of the machine (`ConfigTexts`, `RoutesRead`);
the choice of the runtime depends on no state, and `NewestRuns` looks at it in the initial states.
`CompareVersions` is the comparator as the code computes it, `Precedes` the order of SemVer that it is
held against; `VersionsAssumption` says what the names of installed directories are: a version and
a platform each, no two alike, listed in `Order` from old to new.
Left out there: arrays over several lines, whose elements may look like the header of a table, and
parts of a pre-release that mix digits and letters, where the order of the code is not transitive
(9 < 10 < 1a < 9).

### 2.6 ChatGptWebBridge

| Code | Module |
| --- | --- |
| `shown`, `running`, `enabled`, `rowsVisible`, `isRefusalShown` (`host/chatgptWeb.ts`) | `shown`, `looking`, `enabled`, `visible`, `refusal` |
| `prepareLaunch` between its waits | `launch` |
| `shownState` (`extension.ts`) | `told` |
| the controller's facts, its queue, the probes still to come | `facts`, `jobs`, `todo` |
| the launcher app, its daemon, the config of Codex, the journal | `machine` |

`Change` is what the launcher, other windows and other programs do to the machine, at any time, also
between two probes. Every operation is taken to be confirmed (dialogs are the next module) and to do
what it says. `TakeNextStep` and `Press` are clicks in the panel, made while no job runs. Behaviour
that the run shows and that a reader should know: looks of the timer do not ask the journal again
unless the config turns; a launch decides on the look it waited for and on nothing later.

### 2.7 LauncherPanel

`runs` holds the calls of `run`, one inside the other where an alternative is run first; `views` has
for each webview its page, the messages under way and what the host keeps of it (`ready`, `visible`,
`posted`). Callbacks begin when all promises of the one before are settled (`Settled`). `consents`
and `unasked` are history variables. A job looks once, then refuses, asks or is done, since its
steps are those of `Launcher`. A panel that is closed takes its screen with it: the next one is a
webview that kept nothing and begins with the overview (`Dispose`; `extension.ts:326`,
`launcherView.ts:42-43`). Only a panel that the workbench brings back after a reload of the window
has the screen it kept (`saved`, `BroughtBack`). What the user wants to see (`wanted`) is a history
variable that begins anew with every panel. Left out: the end of the window, notifications, tickets
that are stale, drawing.

### 2.8 AgentTerminals

`sessions[i]` is the card with its terminal, execution, a command line that waits for the shell and
the terminal that is looked for after a reload; `terminals[t]` is the terminal with its shell, the
jobs in it and the messages of the editor that are on their way, in order. `Waits` and `GoesOn` are
the two ends of a wait for shell integration, `Attach` and `GiveUp` the look for terminals after
`Reload`. `AdoptPick` computes the list that the user picks a terminal from (`offered`), and
`PickTerminal` adopts what is picked as the code does, without another look: a terminal that closed
or became another session's meanwhile is bound all the same, and the session is marked as `late`, a
history field. Where two sessions have one terminal, the one bound first is told of it (`Told`).
`Output` is what `registry.output` makes of marks and signals, in any terminal, whether the editor
knows its shell or not. What the user types, shells and jobs are the environment. Left out: the armed state of
stop (a stop may close the terminal at any time), exit codes, bursts of output (a session may turn
to waiting and back at any time), and that what is persisted lags behind.

### 2.9 AgentsView

`refresh` is two actions where it waits for the rows (`Ask`, `Answered`), a message to the page is in
`inbox` until the page handles it and is lost when there is no page. A hidden view has no document.
`tab` is what the workspace bar was told. Left out: announcements, menus, the notifications of
sessions that need the user.

### 2.10 Ledgers, WorkflowGraph, WorkflowLayout, GraphSurfaces

`Ledgers`: a file is its whole lines and perhaps half a line; events reach the service through the
debouncer in bursts; a refresh looks, reads file by file and folds (`Look`, `ReadDone`, `Finish`),
anything may happen to the disk in between. `version` and `taken` are history that the properties
compare by. Listings of directories that fail are left out.

`WorkflowGraph` has the loops of the code over graphs on numbered nodes. A loop along a list is one of
five: `Only` (filter), `Distinct` (a `Set` in the order of insertion), `Joined` (flat), `Keeping` and
`RowsBy` (an entry of a map per element), each a local recursive function along the sequence;
left out are claims, results, revisions and warnings. `WorkflowLayout` is the layout in its stages:
layers, lanes, the order within each layer (`Swept`, `Transposed`), coordinates (`PlaceWithGaps`) and
strokes. Its coordinates are numbers of half pixels for a graph that runs from left to right; of the
passes that place the layers only the first is modelled, since those after it do the same with
fractions.

`GraphSurfaces`: each direction of each surface delivers in order; the page of the view is destroyed
when hidden, that of the panel lives with it, and a panel that the workbench brings back starts from
what it saved. The graphs that follow each other may be any: papers are selected, settings change
and ledgers are rewritten, which drops nodes as well as it adds them. A page whose graph lacks a node
ignores it as a focus (`graphView.ts:190-192`), so that a node which a later graph drops may be the
focus of the window and not of a page: "one focused node" is stated for a node that no graph up to
the last has dropped (`Stayed`). A page is a record that `GraphView` turns into the
next one. Left out: the search box, the overview, containers without size.

## 3. Runs

| Run | Instance | What it shows |
| --- | --- | --- |
| `single_frame` | 2 ordinary windows, one with auxiliary windows, and 1 for extension development, fairness | whatever opens, closes, crashes or waits meanwhile: the user has a window, one is visible once all settled, extension windows are left alone, and a window opened in the background gets on screen although it never signals that it is ready |
| `bar_model` | 3 workspaces on 3 hosts, 2 windows, 2 activations, a restart at any time | binding to windows, reordering, recency, what is reported |
| `launcher` | an operation of each kind, 2 tickets, fairness | consent, fresh facts, verified claims, every ticket answered |
| `chatgpt_web_bridge` | 4 machines, 1 change, 2 asks, fairness and a user who follows the checklist | the row, the panel and the machine end up in one story; the checklist leads to a bridge that is ready; the config and the installed versions are read as meant |
| `launcher_panel` | the panel, perhaps brought back, 2 runs, 2 operations, 2 questions each, fairness | nothing runs unasked, every run ends, the panel draws what is so, on the screen that was asked for |
| `agent_terminals` | 2 sessions, 2 terminals, a load of 3, a reload | every live card has what can end it unless it was picked too late, survives the ends of other runs, and is an `AgentSession` |
| `agents_view` | 2 sessions, 2 changes, 2 refreshes that wait, fairness | the page and the tab end up current, the focus stays in the list |
| `remote_server` | 3 attempts, 2 of them with a build, 1 broken connection, fairness | one server, true tokens, nothing left behind, every attempt ends |
| `remote_server_copies` | 2 attempts with a build | the finding of §7 |
| `ledgers` | 2 files of 2 papers, 2 lines, 3 events of the world, fairness | a refresh includes what it was asked for, the graph ends up being that of the files |
| `workflow_graph` | all graphs of 3 nodes, loop-free-at-a-node ones of 4, ledgers of 4 rows | fold, cycles and routes against their definitions; of the layout, layers, strokes, seats, crossings and the first distances |
| `graph_surfaces` | view and panel, 2 nodes, one of which is retired and then dropped with its paper, 2 steps of the user, 4 of the rest | both surfaces show the last graph, and the focus if its node was not dropped, once messages have arrived |

Why the bounds are enough to be of use:

- *SingleFrame.* The code relates a window to the presented one and to those that wait. With two
  ordinary windows each can close, crash or wait while the other is presented; the third one is the
  only kind that behaves differently. A window id is used once; opening is bounded by them.
- *WorkspaceBarModel.* One workspace opens on the local and on a remote host, another one on that
  host, the third on a host of its own: a group can be split, merged, and be empty in the middle.
  Two windows may share a workspace. `MaxWindow` bounds windows per session, `MaxTime` the
  activations, `Edited` the entries that the user pins and moves, `Reporting` the windows with a
  status.
- *Launcher.* Two tickets are a job that runs and one that waits, or one that comes after. The four
  operations are one per shape of `runOperation`: asks always and is verified, asks if it starts the
  launcher, polls, only reads. `MaxTicket` is the only bound.
- *ChatGptWebBridge.* The machines are one without the launcher, one that is set up, one whose port
  something else took, one that is paused and closed; one change may fall between any two probes.
  `MaxAsks` bounds launches, switches and other buttons. `MaxLines` is the length of the configs:
  a string needs three lines around a key, a table and a second key two more. `Versions` holds the
  cases of the order: more digits, a number and a word, a longer pre-release, a release, another
  platform; all their subsets are tried, with and without the program in each.
- *LauncherPanel.* Two runs can have their questions open at once, a run asks again after the
  machine changed, and cancels or runs the safer operation first. `MaxQuestions` is 3 in the code
  and 2 here: the second question differs from the first, the third would not. `MaxActs` of two is
  two runs, or a run in a view that is hidden, or a panel that is closed and opened again: it may be
  one that was brought back, with the other screen than a new one (`Saved`). The compact layout
  shares the code of the panel but for the screen, so one layout is enough.
- *AgentTerminals.* Two sessions can share a terminal one after the other, or swap; a load of
  three (`MaxLoad`: executions, cards and an open list together) is a run of before, one that runs
  and one that waits, or a list that is open while a terminal of it becomes another session's.
  Symmetry is sound: no property speaks of a certain session or terminal, and none is a liveness
  property.
- *AgentsView.* `MaxInbox` and `MaxAsked` leave room for one message that is late and refreshes that
  overlap.
- *RemoteServer.* Two attempts with a build race in the unpack script, the third one, without,
  downloads into the same folder. `MaxLost` bounds broken connections. A violation of mutual
  exclusion takes two.
- *Ledgers.* `MaxEvents` bounds what happens to the disk: enough to append, rewrite and remove around
  one refresh and the one that waits. `MaxLines` of two is one line that the cache has and one that
  it has not.
- *WorkflowGraph.* Four nodes have two cycles that share a node, and every graph with a node in each
  of three layers. The graphs of six nodes are ones whose edges cross until the sweeps, or only the
  swaps of neighbours, have sorted them, with one edge back or none.
- *GraphSurfaces.* Two nodes are what two surfaces can disagree on; `MaxUser` and `MaxSteps` bound
  clicks, commands and settings, and snapshots, pages shown and hidden.

`CHECK_DEADLOCK FALSE` is there where the program really comes to rest: no windows, tickets or steps
are left, or every attempt has ended.

Further configurations, with `tlc -config X.cfg MC...`, check what the runs above leave out; all of
them pass: `SingleFrameMore.cfg` (types, the presented window is a managed one, no timer or auxiliary
window is left behind), `WorkspaceBarMore.cfg` (types, hosts stay together, persistence, the choice
of the next window, entries keep their window and their order), `LauncherMore.cfg` (types, one job
per key, no idle backlog, nothing runs twice), `RemoteServerMore.cfg` (types, a whole folder, a token
that is kept). `TypeOK` of the other modules holds as well; add it to the INVARIANTS of their
configuration.

## 4. Fairness

Users, other windows, the system and failures owe nothing. What is fair:

- `SingleFrame!Fairness`: the window that was opened loads in the same turn, the 7 s timer goes off,
  and a reveal that waits for fullscreen goes on (3 s at most, `leaveFullScreen`).
- `Launcher!FairSpec`: the running job goes on. Every program has a deadline and every probe a
  watchdog (`controller.ts`, `system.ts`); a file that is read is taken to answer.
- `RemoteServer!FairServerSpec`: each attempt goes on, because each of its waits has an end: the transfer,
  30 s for the lock, the timeouts of the downloads, 35 looks at the log. Nothing says the lock is
  won.
- `ChatGptWebBridge!FairSpec`: jobs go on (as in `Launcher`), the interval of the row comes again
  while it shows, and a turn of the daemon ends. `GuidedSpec` adds a user who looks and takes the
  next step again and again, strongly fair since the panel is open to clicks only between jobs:
  `GuideLeadsToReady` is about such a user.
- `LauncherPanel!FairSpec`: jobs and settled promises go on, and a question is answered in the end,
  strongly fair since a question may be withdrawn by nobody but answered by one person only.
- `AgentsView!FairViewSpec`: timers fire, providers answer (the probes behind them have deadlines), and a
  page on screen loads and handles its messages.
- `Ledgers!FairLedgerSpec`: watchers report, timers fire, reads are answered, promises resolve.

## 5. Proofs

TLAPS proves the theorems below for every value of the constants. The assumptions are those named in
the modules. They say that subsets are subsets, that bounds are numbers and that null values are
none of the elements, and little else: `Machines` of `LauncherPanel` are records of what a machine
may be, `GraphView` has finitely many nodes and at least one graph, whose active nodes are nodes of
it and which need not resemble the one before, `EngineFiles` names versions as
§2.5 says, `WorkflowLedgers` appends rows that are rows. Each component has an inductive invariant
(`IInv`, `ServerIInv`, `ViewIInv`, `LedgerIInv`, `WorkflowIInv`) that TLC checked on the instances
above before it was proved; a proof that a step preserves it has one case per action. Components of
one part of the system share a module of proofs.

**`SingleFrameProofs`**: `TypeCorrect`, `OnlyManagedPresented`, `UserAlwaysHasWindow`,
`UnmanagedNeverHidden`, `OneVisibleHolds`, `NoStaleTimerHolds`, `AuxiliaryWindowsFollowHolds`. That a user always has a window does not follow from the
handlers one by one: a reveal that waits may name a window that closes, turns out not to be managed,
or is presented by another handler. `IInv` adds that what waits to be revealed is managed once it is
loaded (`PendingIsManaged`), that the presented window is on screen (`PresentedOnScreen`), that some
window is presented while there is one (`SomeWindowPresented`), and that a presented window that
turns out not to be managed when it loads is the only one there is (`LoneUnknownWindow`).
`OneVisibleHolds` adds that every managed window on screen besides the presented one is about to
leave it: something that waits or an event that is still to come will hide it (`OthersAreLeaving`).
The last two rest on `Follows`: the presented window has no timer, timers are for single frame mode,
and what is hidden with a window is that of a managed one. Then every `doReveal` hides the windows
whose auxiliary windows it hides, also one that went on after the setting was turned off.

**`HostProofs`**, the launcher: `TypeCorrect`, `OneJobPerKey`, `NoLostWakeup`, `NothingTriedAgain`,
`TruthfulOutcomes`, `ConsentFirst`, `DecisionsAreFresh`, `SuccessIsVerified`, for any number of
tickets and any part of the catalogue. `IInv` relates each ticket to its place: tickets that wait or
are still to be given out have not started anything (`NotStartedEarly`), what is live has an open
promise unless the window went (`OpenPromises`), a confirmed job was granted by the user
(`ConfirmedIsGranted`), and only what reads is cancelled while it runs (`CancelledReads`).
`DecisionsAreFresh` needs `LooksAtAll` besides: what was looked at and what is still on the list are
together all three free probes.

**`HostProofs`**, the server: `ServerTypeCorrect`, `OneServerRuns`, `TokensAreTrue`, `TokensAreKept`,
`NoLeftovers`, `FolderIsWhole`, for any number of attempts and broken connections. The heart is
`ServerIsKnown`: the server that runs is that of the pid file, except between the two commands that
start it and note its pid, where the lock is held (`LockIsHeld`); so nobody who comes later starts a
second one, also when the attempt that started the first gave up. `TokensFit` says that the log that
reports a port is that of a server which has read the token of the file. `FolderIsOurs` holds while
unpack scripts come one after the other (`alone`): then no one removes anything.

**`WorkspaceBarModelProofs`**: `TypeCorrect`, `HostsContiguousHolds`, `EntriesMatchWindowsHolds`,
`PersistedCurrentHolds`, `PickNextMeetsCommentHolds`, `ReorderMeetsCommentHolds`,
`ActiveIsMostRecentHolds`, `ChangesAreReportedHolds`, `KeepsWindowHolds`, `StableOrderHolds`, for any
workspaces, hosts and number of windows. `IInv` says that the bar is typed and tidy (an entry is there once, hosts are
contiguous with the local one first), that what is persisted is what `Serialize` makes of it
(`Sound`), and that entries and windows match (`Matches`). What needs work is that the loops keep
this: each loop has a lemma on what is so after each of its turns. `ActiveIsMostRecentHolds` needs
`Timely` besides, by which no time is later than the last one given, and assumes
`ClockMayGoBack = FALSE`: without that it is false, which is finding 2 of §7. `ReorderMeetsComment`
compares `reorder` with what its comment says, in every state and for any wish of the user.
`StableOrderHolds` says that nothing else moves an entry among those of its host. `InOrder` compares
the entries with those at the start of the handler, which every turn of the loops keeps: an entry
moves only to another host, where `insert` puts it last (`InsertInOrder`).

**`LauncherPanelProofs`**: `TypeCorrect`, `NothingRunsUnaskedHolds`, `AskedScreenShowsHolds`,
`QuietMeansShownHolds`, for any number of runs, questions and acts. `QueueIsSane` relates a job that
waits confirmed to a user who went ahead with its key since it last ran; `ViewsAreReady` says that a page that drew was greeted and
drew what it was sent last, and that what is not attached has none; `ScreenIsKept` that the screen
that was asked for is that of the panel or waits for its page, and that without a panel it is the
overview, which the next one begins with; and `QuietIsCurrent`
that with no post pending and no job every page that shows has the model of now.

**`ChatGptWebBridgeProofs`**: `TypeCorrect`, `RowTellsOneStoryHolds`, `OffStaysAway`,
`ReadsTheTopLevelKeyHolds`, `CompactOffersOnceHolds`, `NewestRunsHolds`, for any machine, probes and
changes. What was
told last is what is known (`ToldIsKnown`), and a row that is turned off is not there
(`OffHasNoRow`), also where the setting is turned while a look is under way. That the reader of the
config agrees with TOML is shown line by line (`ReadTo`): in a string, the reader knows the quotes of
the one that began, and outside every string that began has ended. It holds for configs of any
length over the lines that the model tells apart, and it needs that one marking of the lines by TOML
exists at all (`MarksExist`). From it follows that what is known has its type. `NewestRunsHolds` is
about the runtime, for any versions: what the comparator tells by its first difference is the
precedence of SemVer, which is shown to be a strict order on them; so the versions that are newer
than one decide its place in the list of candidates, and the first candidate that has its program
is the newest of those that have.

**`SessionsProofs`**, the terminals: `TypeCorrect`, `LiveStaysReachable`, `OtherEndsAreSurvived`, and the
refinement: `CardsArePromised`, by which each session implements `AgentSession`. `IInv` says that of
the sessions that share a terminal all but one were picked too late (`OneSessionEach`), so that a
session which was not is told when its terminal closes; that a closed terminal has forgotten
everything and one that closes runs nothing more (`ShellsAreSane`); and that what is being attached
has not closed (`AttachingIsOpen`). `OtherEndsAreSurvived` is about steps:
an end that the editor tells carries its execution, which `onDidEndExecution` compares, and a
terminal that closes runs nothing any more. What it excepts is what the code does not compare, see
§7. Each step of the terminals then
maps, for each session, to a step of its card or to a stutter.

**`SessionsProofs`**, the view: `ViewTypeCorrect`, `RovingTabStopHolds`, `OrderListsPresent`, for any
number of sessions and messages. `OrderListsPresent` says of the list that is posted that it has
every session that is there once, what needs the user first at the top: the model chooses such an
order, so it is to be shown that there is one. `RovingTabStop` is inductive together with the
types: with each message the page either keeps its stop, which is still a card, or takes another
card that is there, and Delete goes to a card of the list or stays.

**`ChandraProofs`**, the pages: `TypeCorrect`, `RouteStartsAtFocusHolds`, `QuietMeansCurrentHolds`, for any
graphs and any number of clicks and messages. What is under way decides what will hold, so `IInv`
reads the queues (`InStep`): the graph that a page has once its queue is read is the last one, what
it told last is its focus, and where it has told everything, either a message in its queue will
change its focus, which it then tells, or its focus is that of the window. A page that has not
greeted yet is excepted, for it will be sent everything. A message counts only if the page has its
node by then, which depends on the graphs before it in the queue. The graphs are not assumed to grow:
where the focused node of the window was dropped by one of them, the pages may differ from it, and
only there.

**`ChandraProofs`**, the ledgers: `LedgerTypeCorrect`, `IncludesTheseChangesHolds`,
`ParsedIncrementally`, `QuietShowsFilesHolds`, `ParsesWhereItStopped`, for any files, papers, number of
lines and of events. No change is lost on its way (`NothingIsMissed`): a file that changed since it was read
has an event in the watcher, the debouncer or a request, is still to be read, or could not be.
What a refresh owes is read before it resolves (`OwedIsRead`). The cache parses only what was
appended (`ParsesWhereItStopped`: parsing the tail where one stopped gives the rows of the whole
file), and it may, because as long as an entry says that its file was appended to, its rows are
those of the lines before (`EntriesAreSane`; `LinesAreDated`, by which no line is newer than its file,
rules out that another line is taken for the guard). `ParsedIncrementally` draws the conclusion: the
rows of an entry that is up to date are those of a reader of the whole file. `QuietShowsFilesHolds`
is the safety part of what the run checks as `EventuallyCurrent`: with no change on its way and no
refresh, the listeners have what the files say, since they have what is known or a fold is due
(`ShowsFold`).

**`WorkflowProofs`**: `FoldMeetsReferenceHolds`, `RoutesAreShortestHolds`, for ledgers of any length and
any number of papers and nodes. `WorkflowIInv` says that the graph is the fold of typed rows; the rest is about the fold. It
runs loops in loops over all rows of all papers, and the reference is a fold in one pass, so
both are brought to what one row more changes: `OnlyAppend`, `DistinctAppend`, `StatsAppend`. The
induction along the rows (`AppendingReaches`) then shows that the rows which are kept for a node are
its last one that amends nothing with what was amended since, that every name is listed once, and
that the streak of a node is the run of failures at the end of its trials. That the two folds
agree needs that no paper writes rows of another's nodes, since the code folds paper by paper.

The routes are those of a search by levels. Every node that can be met from the start has a distance
(`IsDistance`, which exists since what is met stops growing after as many turns as there are nodes,
`Saturates`). After each turn the search has met exactly what is that near, and knows of each node
one before it that is a step nearer (`IsDeep`); so what leads back is a walk as long as the distance
(`IsWay`), and no walk is shorter (`DistanceReaches`). The corridor is taken upstream in the code and
along walks in the property: what is reached forwards is reached backwards (`ReachedBack`).

**Recursion.** The library's theorems on induction take an operator as a parameter and cannot be
used here, but that the natural numbers are well founded can (`LeastOfNat`). For one certain
predicate, induction is then the refutation of its least counterexample. In this way
`WorkspaceBarModelProofs`, `ChandraProofs` (`Closure`, `RowsIn`), `ChatGptWebBridgeProofs` (`ReadFrom`)
and `WorkflowProofs` (all loops of the fold and of the search for routes) prove that a local recursive function exists and what
holds after each of its turns.

## 6. What is only model-checked

- Liveness (`EventuallyOnScreen`, `EveryTicketSettles`, `EveryAttemptEnds`, `RowCatchesUp`,
  `GuideLeadsToReady`, `EveryRunEnds`, `EventuallyCurrent` twice): out of the reach of TLAPS.
- `CyclesAreBroken` and `LayoutInvariants` of `WorkflowLedgers`. They are about what whole searches
  compute: Tarjan's components, depths over what is left, and sweeps that sort layers by averages.
  Their loops are step functions whose invariants would be those of the textbook proofs.

## 7. Findings

`remote_server_copies` (a run): two windows that unpack at once can leave an unpacked copy inside the
folder of the server; only the setup script takes a lock. The comment of
`overlay/extensions/vibe-remote-ssh/src/vibe/serverTarball.ts:299-300` says "Whatever happens, the
upload and the unpacked copy do not stay behind".

The following configurations are not among the runs; TLC finds each property violated within
seconds, the fifth within two minutes.

1. `tlc -config SingleFrameDisabled.cfg MCSingleFrame`: a hide or reveal that waits for fullscreen
   goes on after `window.singleFrame` was turned off, and hides a window for good
   (`workspaceBarMainService.ts:534`), although "When `window.singleFrame` is disabled nothing gets
   hidden and switching is focusing" (class comment, lines 44-45).
2. `tlc -config WorkspaceBarClock.cfg MCWorkspaceBarModel`: times are made "strictly increasing: the
   order of activation is what matters" (`workspaceBarMainService.ts:158`) within a session only.
   After the clock was set back, an entry that is activated is older than one that was persisted,
   and the wrong window is picked next.
3. `tlc -config LauncherDisposed.cfg MCLauncher`: a window that goes while its job still looks does
   not keep the program of the job from starting (`controller.ts:391`); "nothing more starts", says
   the test (`overlay/extensions/vibe-agents/test/launcherController.test.ts:288`), which disposes
   while the program runs.
4. `tlc -config LedgersProblems.cfg MCLedgers`: `contentChanged ||= this.failures.delete(key)`
   (`host/ledgers.ts:215`) does not forget a failure once an earlier file of the refresh has changed
   something, so that a file which was read is still said to be unreadable; it is "just unreadable
   right now" (line 210).
5. `tlc -config GraphFocus.cfg MCGraphSurfaces`: a page reports a focus that the host sent as news
   (`view/graphView.ts:228-229`), and the extension tells the other surface (`extension.ts:356`).
   After two picks that cross, the two surfaces swap their nodes for ever, though "the graph
   surfaces and the tree follow each other" (line 350).
6. `tlc -config LauncherPanelQuestions.cfg MCLauncherPanel`: `run` looks whether a question is open
   before its first answer and not after it (`panelHost.ts:179`), so two can be open at once: "A
   question is open already: answer it first." (line 180).

Seen while modelling, and not against anything the repository says: the config that lost the route
while the journal says it is active leaves a checklist whose Connect cannot be pressed, and so does
a launcher that runs without its runtime (`SettledElsewhere`); a screen that is asked for while its
panel is stale in the background may be lost (`panelHost.ts:128`); a setting of the direction that
changes is not written into a page that is there (Chandra, `extension.ts:200-206`); a row that is
appended to the first paper can take a node away from the second (`model/fold.ts:177-183`); a node
that a paper takes with it stays the focus of the window, while the pages have none or another.

Three more concern the sessions of agents. Each is an exception that a property of `agent_terminals`
makes; without it TLC finds the trace:

- `LiveIsReachable` without `late`: the list of terminals is open, a terminal of it closes, and the
  user picks it. `adoptPick` does not look at it again (`host/terminals.ts:250-254`), and the card
  of the new session says for good that its agent works.
- `SurvivesOtherEnds` without `awaits`: a session waits for its terminal of before a reload, is
  restarted in a new one and runs there. It still waits (`restart` and `launch` do not take it out
  of `unattached`), and the timeout closes its card (`host/terminals.ts:528-532`).
- `SurvivesOtherEnds` without `Output`: a mark in the output of the terminal that a command ended, of
  a shell inside the agent for example, ends the card (`model/registry.ts:198-208`).

## 8. Plan

Done: the modules above, in the order of what users would lose: their windows, the bar, operations
on the engine, the remote server, their agents, what they see of them, their ledgers. Next:

1. *Proofs*: the cycles of `WorkflowGraph`.
2. *Crash and lag*: what `AgentTerminals` persists, with its delay, and stops that stay armed.
3. *Connections* (`authResolver.ts`, `ssh/sshConnection.ts`): retries, tunnels and their disposal.

## 9. Not modelled

- The renderer part of the bar draws what the main service broadcasts and forwards commands; what is
  dragged or focused does not outlive the gesture. The parser of ssh configurations is a function of
  a text.
- The connection and resolver of Remote SSH are largely taken over from an upstream extension and the
  `ssh2` library, and their behaviour is that of the network and of servers that the repository does
  not have. Known from reading: each resolution makes new connections and tunnels and closes none of
  the attempt before; keyboard-interactive is offered again without a bound.
- `model/activity.ts` and the parsers of agents' output are timing heuristics over text: any session
  may turn to waiting and back in `AgentTerminals`.
- Build scripts, patches, branding and documents have no behaviour at run time.
- Inside modelled parts: geometry and minimized windows (§2.1), labels and syntax (§2.2), links and
  the log (§2.3), hosts with PowerShell (§2.4), and what §§2.5 to 2.10 name.

The hazards of what is left out are in `PROJECT.json`, with the reason no property covers them.
