----------------------------- MODULE LauncherPanel -----------------------------
(***************************************************************************)
(* Between the controller and the webviews of ChatGPT Web (vibe-agents,     *)
(* host/launcher/panelHost.ts, wired in extension.ts, drawn by              *)
(* view/launcherView.ts): the runs that ask the user in a dialog, the model *)
(* each webview is sent, and the screen the panel shows.                    *)
(*                                                                         *)
(* The controller is module Launcher; here a job looks once and then ends,  *)
(* and whoever waits for it is told.  A callback begins when the promises   *)
(* of the one before are settled.  Left out: the end of the window.         *)
(***************************************************************************)
EXTENDS EngineFacts

CONSTANTS
    Offered,      \* the operations the user asks for
    Slots,        \* bound: runs at a time, 1 .. n
    Layouts,      \* the webviews: compact, panel
    Machines,     \* the machines a run begins on
    Saved,        \* the screens a panel of the window before its reload may have kept
    MaxQuestions, \* MAX_QUESTIONS, 3 in the code
    MaxActs,      \* bound: what the user asks for and does with the views
    MaxChanges,   \* bound: what other programs do to the machine
    None

ASSUME OfferedAssumption == Offered \subseteq Operation
ASSUME LayoutsAssumption == "panel" \in Layouts /\ Layouts \subseteq {"compact", "panel"}
ASSUME MachinesAssumption == Machines \subseteq [running : BOOLEAN, routed : BOOLEAN]
ASSUME SavedAssumption == Saved \subseteq {"overview", "setup"}
ASSUME BoundsAssumption == MaxQuestions \in Nat /\ MaxActs \in Nat /\ MaxChanges \in Nat

VARIABLES
    machine,      \* the launcher runs, Codex is routed to it
    facts,        \* what is known of it
    jobs,         \* the controller's queue: the first one runs
    looked,       \* that one has looked
    runs,         \* slot -> the calls of run, the nested one last
    asking,       \* isAsking
    result,       \* how the last run ended, or None
    opening,      \* a look for a view that opened is under way
    openingEnds,  \* and its promise is about to settle
    postPending,  \* isPostPending
    views,        \* layout -> its webview, and what the host keeps for it
    screen,       \* the screen of the panel, which its page keeps while it is hidden
    saved,        \* the screen of a panel the workbench may still bring back, or None
    pendingScreen,
    wanted,       \* the screen the user wants to see, where one was named
    consents,     \* the operations the user went ahead with, until they run
    unasked,      \* the operations that ran without
    acts, changes \* counted for the bounds

vars == <<machine, facts, jobs, looked, runs, asking, result, opening, openingEnds, postPending, views,
          screen, saved, pendingScreen, wanted, consents, unasked, acts, changes>>
engine   == <<machine, facts>>
queue    == <<jobs, looked>>
dialogs  == <<runs, asking, result>>
opened   == <<opening, openingEnds>>
panel    == <<screen, saved, pendingScreen, wanted>>
ghosts   == <<consents, unasked, changes>>

Screens == {"overview", "setup"}

-----------------------------------------------------------------------------
(* Promises                                                                 *)

\* Where a call of run stands: it waits for its ticket, its dialog is open, or it was
\* told how its ticket ended.
Asking   == {"asks", "asks-first"}
Needs    == {"needs", "needs-first"}
Outcomes == Needs \cup {"ok", "failed", "refused", "cancelled"}
Call(op, asked, at) == [op |-> op, asked |-> asked, at |-> at]

IsTold(slot) == runs[slot] # <<>> /\ Last(runs[slot]).at \in Outcomes
Settled == ~postPending /\ ~openingEnds /\ \A slot \in Slots : ~IsTold(slot)

\* What the user does.
User == Settled /\ acts < MaxActs /\ acts' = acts + 1

-----------------------------------------------------------------------------
(* The controller                                                           *)

FactsOf(m) ==
    [EmptyFacts EXCEPT !.app = "yes", !.running = IF m.running THEN "yes" ELSE "no", !.runtime = TRUE,
                       !.config = IF m.routed THEN "launcher" ELSE "absent",
                       !.health = IF m.running THEN "free" ELSE "none"]

Job(key, confirmed) == [key |-> key, confirmed |-> confirmed, aborted |-> FALSE]
Queued(key) == {i \in DOMAIN jobs : jobs[i].key = key}

\* enqueue: what runs already is joined, what waits already is confirmed with it.
Enqueue(key, confirmed) ==
    jobs' = IF Queued(key) = {} THEN Append(jobs, Job(key, confirmed))
            ELSE [i \in DOMAIN jobs |-> IF i \in Queued(key) \ {1} /\ confirmed
                                        THEN [jobs[i] EXCEPT !.confirmed = TRUE] ELSE jobs[i]]

\* request: where the operation asks first the answer is there at once.
IsAnswered(op, confirmed) == ~confirmed /\ Asks(op, facts)
AnswerTo(op) == IF SuggestsFirst(op, facts) THEN "needs-first" ELSE "needs"
Requested(op, asked, confirmed) == Call(op, asked, IF IsAnswered(op, confirmed) THEN AnswerTo(op) ELSE "waits")
Request(op, confirmed) == IF IsAnswered(op, confirmed) THEN UNCHANGED jobs ELSE Enqueue(op, confirmed)

Told(key, outcome) ==
    [slot \in Slots |-> IF runs[slot] # <<>> /\ Last(runs[slot]).at = "waits" /\ Last(runs[slot]).op = key
                        THEN ReplaceAt(runs[slot], Len(runs[slot]), [Last(runs[slot]) EXCEPT !.at = outcome])
                        ELSE runs[slot]]

JobLooks ==
    /\ Settled
    /\ jobs # <<>>
    /\ ~looked
    /\ looked' = TRUE
    /\ facts' = FactsOf(machine)
    /\ postPending' = TRUE
    /\ UNCHANGED <<machine, jobs, dialogs, opened, views, panel, ghosts, acts>>

Effect(op, m) ==
    CASE op = "engine.quit"       -> [m EXCEPT !.running = FALSE]
      [] op = "engine.showWindow" -> [m EXCEPT !.running = TRUE]
      [] op = "bridge.pause"      -> [m EXCEPT !.routed = FALSE]
      [] OTHER                    -> m

\* The first job ends, and the next one begins.
Ends(outcome) ==
    /\ runs' = Told(jobs[1].key, outcome)
    /\ openingEnds' = (openingEnds \/ jobs[1].key = "open")
    /\ jobs' = Tail(jobs)
    /\ looked' = FALSE
    /\ postPending' = TRUE
    /\ UNCHANGED <<asking, result, opening, views, panel, acts>>

Works(op) == op \in Operation /\ ~jobs[1].aborted
RefreshEnds ==
    /\ Settled /\ jobs # <<>> /\ looked
    /\ ~Works(jobs[1].key)
    /\ Ends(IF jobs[1].aborted THEN "cancelled" ELSE "ok")
    /\ UNCHANGED <<engine, ghosts>>
Refuses ==
    /\ Settled /\ jobs # <<>> /\ looked
    /\ Works(jobs[1].key)
    /\ ~Enabled(jobs[1].key, facts)
    /\ Ends("refused")
    /\ UNCHANGED <<engine, ghosts>>
NeedsConfirmation ==
    /\ Settled /\ jobs # <<>> /\ looked
    /\ Works(jobs[1].key)
    /\ Enabled(jobs[1].key, facts)
    /\ Asks(jobs[1].key, facts) /\ ~jobs[1].confirmed
    /\ Ends(AnswerTo(jobs[1].key))
    /\ UNCHANGED <<engine, ghosts>>
Executes ==
    /\ Settled /\ jobs # <<>> /\ looked
    /\ Works(jobs[1].key)
    /\ Enabled(jobs[1].key, facts)
    /\ ~Asks(jobs[1].key, facts) \/ jobs[1].confirmed
    /\ consents' = consents \ {jobs[1].key}
    /\ UNCHANGED changes
    /\ unasked' = IF Asks(jobs[1].key, facts) THEN unasked \cup ({jobs[1].key} \ consents) ELSE unasked
    /\ \/ /\ machine' = Effect(jobs[1].key, machine)
          /\ facts' = FactsOf(machine')
          /\ Ends("ok")
       \/ /\ Ends("failed")
          /\ UNCHANGED engine

\* cancel: what waits is taken out of the queue, what only reads is ended.
CancelForgets(key) ==
    \E i \in Queued(key) :
        \/ /\ i # 1
           /\ jobs' = RemoveAt(jobs, i)
           /\ openingEnds' = (key = "open")
           /\ postPending' = TRUE
           /\ UNCHANGED runs
        \/ /\ i = 1
           /\ key \notin Operation \/ IsAbortable(key)
           /\ jobs' = [jobs EXCEPT ![1].aborted = TRUE]
           /\ UNCHANGED <<runs, openingEnds, postPending>>
Cancel(key) ==
    \E i \in Queued(key) :
        \/ /\ i # 1
           /\ jobs' = RemoveAt(jobs, i)
           /\ runs' = Told(key, "cancelled")
           /\ openingEnds' = (key = "open")
           /\ postPending' = TRUE
        \/ /\ i = 1
           /\ key \notin Operation \/ IsAbortable(key)
           /\ jobs' = [jobs EXCEPT ![1].aborted = TRUE]
           /\ UNCHANGED <<runs, openingEnds, postPending>>

-----------------------------------------------------------------------------
(* Runs                                                                     *)

FirstFree == CHOOSE slot \in Slots \cup {0} :
    /\ slot # 0 => runs[slot] = <<>>
    /\ \A other \in Slots : runs[other] = <<>> => slot # 0 /\ slot <= other

\* run, up to the first answer: one question at a time.
Run(op) ==
    /\ User
    /\ ~asking
    /\ \E slot \in Slots :
        /\ slot = FirstFree
        /\ runs' = [runs EXCEPT ![slot] = <<Requested(op, 0, FALSE)>>]
    /\ Request(op, FALSE)
    /\ postPending' = (jobs' # jobs)
    /\ UNCHANGED <<engine, looked, asking, result, opened, views, panel, ghosts>>

Top(slot) == Last(runs[slot])
Becomes(slot, call) == runs' = [runs EXCEPT ![slot] = ReplaceAt(@, Len(@), call)]

\* The loop: what there is to confirm is asked, at most MaxQuestions times.
IsQuestion(slot) == Top(slot).at \in Needs /\ Top(slot).asked < MaxQuestions
AsksUser(slot) ==
    /\ IsTold(slot)
    /\ IsQuestion(slot)
    /\ Becomes(slot, [Top(slot) EXCEPT !.at = IF @ = "needs-first" THEN "asks-first" ELSE "asks"])
    /\ asking' = TRUE
    /\ UNCHANGED <<engine, queue, result, opened, postPending, views, panel, ghosts, acts>>

\* The dialog is answered: dismissed, gone ahead, or with what is offered first.
Dismiss(slot) ==
    /\ Becomes(slot, [Top(slot) EXCEPT !.at = "cancelled"])
    /\ UNCHANGED <<jobs, consents>>
GoAhead(slot) ==
    /\ Becomes(slot, Requested(Top(slot).op, Top(slot).asked + 1, TRUE))
    /\ Request(Top(slot).op, TRUE)
    /\ consents' = consents \cup {Top(slot).op}
PauseFirst(slot) ==
    /\ Top(slot).at = "asks-first"
    /\ runs' = [runs EXCEPT ![slot] = Append(@, Requested("bridge.pause", 0, FALSE))]
    /\ Request("bridge.pause", FALSE)
    /\ UNCHANGED consents
Answer(slot) ==
    /\ Settled
    /\ runs[slot] # <<>>
    /\ Top(slot).at \in Asking
    /\ asking' = FALSE
    /\ Dismiss(slot) \/ GoAhead(slot) \/ PauseFirst(slot)
    /\ postPending' = (jobs' # jobs)
    /\ UNCHANGED <<engine, looked, result, opened, views, panel, unasked, changes, acts>>

\* A call ends.  What was done first had its own question and its own result: where
\* it went well, what was asked for is asked again.
RequestAgainConfirmed(slot) ==
    /\ runs' = [runs EXCEPT ![slot] = <<Requested(Head(@).op, Head(@).asked + 1, TRUE)>>]
    /\ Request(Head(runs[slot]).op, TRUE)
RequestAgain(slot) ==
    /\ runs' = [runs EXCEPT ![slot] = <<Requested(Head(@).op, Head(@).asked + 1, FALSE)>>]
    /\ Request(Head(runs[slot]).op, FALSE)
Returns(slot) ==
    /\ IsTold(slot)
    /\ ~IsQuestion(slot)
    /\ result' = [op |-> Top(slot).op, status |-> IF Top(slot).at \in Needs THEN "cancelled" ELSE Top(slot).at]
    /\ postPending' = TRUE
    /\ IF Len(runs[slot]) > 1 /\ Top(slot).at = "ok"
       THEN RequestAgain(slot)
       ELSE runs' = [runs EXCEPT ![slot] = <<>>] /\ UNCHANGED jobs
    /\ UNCHANGED <<engine, looked, asking, opened, views, panel, ghosts, acts>>

-----------------------------------------------------------------------------
(* What is shown                                                            *)

\* A webview: `page` is its document, `shown` what that draws, `says` its ready on the
\* way.  `ready`, `visible` and `posted` the host keeps for it.
NoView == [page |-> "none", shown |-> None, says |-> FALSE,
           attached |-> FALSE, ready |-> FALSE, visible |-> FALSE, posted |-> None]

\* The looks of the timer are not news: only what the user asked for shows as running.
IsNews(key) == key \in Operation \/ opening
Model ==
    [facts |-> facts, result |-> result,
     running |-> IF jobs # <<>> /\ IsNews(jobs[1].key) THEN jobs[1].key ELSE None,
     queued |-> {key \in {jobs[i].key : i \in 2 .. Len(jobs)} : IsNews(key)}]

\* A webview that is not there gets nothing.
Delivered(view, model) == IF view.page = "mounted" THEN [view EXCEPT !.posted = model, !.shown = model]
                          ELSE [view EXCEPT !.posted = model]
Posted(view, model) ==
    IF view.ready /\ view.visible /\ view.posted # model THEN Delivered(view, model) ELSE view

\* postSoon: many changes, one message.
PostSoon ==
    /\ postPending
    /\ postPending' = FALSE
    /\ views' = [layout \in Layouts |-> Posted(views[layout], Model)]
    /\ UNCHANGED <<engine, queue, dialogs, opened, panel, ghosts, acts>>

\* The promise of the look settles after that message: nobody is told.
OpeningEnds ==
    /\ openingEnds
    /\ ~postPending
    /\ opening' = FALSE
    /\ openingEnds' = FALSE
    /\ UNCHANGED <<engine, queue, dialogs, postPending, views, panel, ghosts, acts>>

\* refresh: where one is under way it is that one.
Refresh ==
    /\ opening' = TRUE
    /\ IF opening THEN UNCHANGED jobs ELSE Enqueue("open", FALSE)

-----------------------------------------------------------------------------
(* Views                                                                    *)

SetView(layout, view) == views' = [views EXCEPT ![layout] = view]

\* resolveLauncherView, or the adoptLauncherPanel of a panel the workbench brings back,
\* with the screen it kept: the page begins to load.
Attached == [NoView EXCEPT !.attached = TRUE, !.visible = TRUE, !.page = "loading"]
BroughtBack ==
    /\ saved # None
    /\ saved' = None
    /\ screen' = saved
    /\ wanted' = IF pendingScreen = None THEN saved ELSE pendingScreen
    /\ UNCHANGED pendingScreen
ResolveView(layout) ==
    /\ Settled
    /\ ~views[layout].attached
    /\ SetView(layout, Attached)
    /\ IF layout = "panel" THEN BroughtBack ELSE UNCHANGED panel
    /\ UNCHANGED <<engine, queue, dialogs, opened, postPending, ghosts, acts>>

\* openPanel: one panel per window.  The screen is named to the page that said it is
\* ready, which is gone where the panel was in the background.
ShowsScreenAtOnce(view, s) ==
    IF view.attached /\ s # None
    THEN /\ pendingScreen' = None
         /\ screen' = IF view.page = "mounted" THEN s ELSE screen
    ELSE pendingScreen' = s /\ UNCHANGED screen
ShowsScreen(view, s) ==
    IF view.ready /\ s # None
    THEN /\ pendingScreen' = None
         /\ screen' = IF view.page = "mounted" THEN s ELSE screen
    ELSE pendingScreen' = s /\ UNCHANGED screen
IsInBackground(view) == view.ready /\ view.page # "mounted"
Wanted(view, s) ==
    IF ~view.attached THEN IF s = None THEN "overview" ELSE s
    ELSE IF s = None /\ pendingScreen = None THEN wanted
    ELSE IF IsInBackground(view) THEN None ELSE s
OpenPanel ==
    /\ User
    /\ SetView("panel", IF ~views["panel"].attached THEN Attached
                        ELSE IF views["panel"].page = "none" THEN [views["panel"] EXCEPT !.page = "loading"]
                        ELSE views["panel"])
    /\ \E s \in Screens \cup {None} :
        /\ ShowsScreen(views["panel"], s)
        /\ wanted' = Wanted(views["panel"], s)
    /\ UNCHANGED <<engine, queue, dialogs, opened, postPending, saved, ghosts>>

\* The page is there, and says it is ready.
PageLoads(layout) ==
    /\ Settled
    /\ views[layout].page = "loading"
    /\ SetView(layout, [views[layout] EXCEPT !.page = "mounted", !.shown = None, !.says = TRUE])
    /\ UNCHANGED <<engine, queue, dialogs, opened, postPending, panel, ghosts, acts>>

\* onMessage: a page that is ready gets everything, and the engine is looked at.
GreetedLate(view) == [view EXCEPT !.says = FALSE, !.ready = TRUE]
Greeted(view) == [view EXCEPT !.says = FALSE, !.ready = TRUE, !.posted = None]
OnReady(layout) ==
    /\ Settled
    /\ views[layout].says
    /\ SetView(layout, Posted(Greeted(views[layout]), Model))
    /\ IF layout = "panel"
       THEN /\ ShowsScreen(views'["panel"], pendingScreen)
            /\ wanted' = IF IsInBackground(views'["panel"]) /\ pendingScreen # None THEN None ELSE wanted
            /\ UNCHANGED saved
       ELSE UNCHANGED panel
    /\ Refresh
    /\ postPending' = (jobs' # jobs)
    /\ UNCHANGED <<engine, looked, dialogs, openingEnds, ghosts, acts>>

\* The user hides a view, which ends its document, shows it again, and closes it: the
\* next panel is another webview, that kept nothing and begins with the overview.
Hide(layout) ==
    /\ User
    /\ views[layout].page # "none"
    /\ SetView(layout, [views[layout] EXCEPT !.page = "none", !.shown = None])
    /\ UNCHANGED <<engine, queue, dialogs, opened, postPending, panel, ghosts>>
Reveal(layout) ==
    /\ Settled
    /\ views[layout].attached /\ views[layout].page = "none"
    /\ SetView(layout, [views[layout] EXCEPT !.page = "loading"])
    /\ UNCHANGED <<engine, queue, dialogs, opened, postPending, panel, ghosts, acts>>
Dispose(layout) ==
    /\ User
    /\ views[layout].attached
    /\ SetView(layout, NoView)
    /\ IF layout = "panel"
       THEN screen' = "overview" /\ wanted' = None /\ UNCHANGED <<saved, pendingScreen>>
       ELSE UNCHANGED panel
    /\ UNCHANGED <<engine, queue, dialogs, opened, postPending, ghosts>>

\* setVisible: the host hears of it, and catches up.  A schedule that begins looks.
IsShowing(all) == \E layout \in Layouts : all[layout].visible
Interval == IF opening THEN UNCHANGED jobs ELSE Enqueue("interval", FALSE)
SetVisible(layout) ==
    /\ Settled
    /\ views[layout].attached
    /\ views[layout].visible # (views[layout].page # "none")
    /\ SetView(layout, Posted([views[layout] EXCEPT !.visible = ~@], Model))
    /\ IF IsShowing(views') /\ ~IsShowing(views) THEN Interval ELSE UNCHANGED jobs
    /\ postPending' = (jobs' # jobs)
    /\ UNCHANGED <<engine, looked, dialogs, opened, panel, ghosts, acts>>

\* select: a tab of the rail, by the mouse or by its keys.
SelectScreen ==
    /\ User
    /\ views["panel"].shown # None
    /\ \E s \in Screens : screen' = s /\ wanted' = s
    /\ UNCHANGED <<engine, queue, dialogs, opened, postPending, views, saved, pendingScreen, ghosts>>

\* The user asks for a look: how the last operation ended is old news then.
RefreshAsked ==
    /\ User
    /\ result' = None
    /\ Refresh
    /\ postPending' = (jobs' # jobs \/ result # None)
    /\ UNCHANGED <<engine, looked, runs, asking, openingEnds, views, panel, ghosts>>

\* Cancel, beside what a page shows as running or waiting.
CancelShown ==
    /\ User
    /\ \E layout \in Layouts :
        /\ views[layout].shown # None
        /\ \E key \in views[layout].shown.queued \cup {views[layout].shown.running} : Cancel(key)
    /\ UNCHANGED <<engine, looked, asking, result, opening, views, panel, ghosts>>

\* ProbeSchedule of the panel, while a view shows; and the look of the row, and of
\* what settles after an operation.
OnInterval ==
    /\ Settled
    /\ IsShowing(views)
    /\ Interval
    /\ postPending' = (jobs' # jobs)
    /\ UNCHANGED <<engine, looked, dialogs, opened, views, panel, ghosts, acts>>
RowLooks ==
    /\ Settled
    /\ Enqueue("interval", FALSE)
    /\ postPending' = (jobs' # jobs)
    /\ UNCHANGED <<engine, looked, dialogs, opened, views, panel, ghosts, acts>>

\* The launcher, and other windows.
Change ==
    /\ Settled
    /\ changes < MaxChanges
    /\ changes' = changes + 1
    /\ \/ machine' = [machine EXCEPT !.running = ~@]
       \/ machine' = [machine EXCEPT !.routed = ~@]
    /\ UNCHANGED <<facts, queue, dialogs, opened, postPending, views, panel, consents, unasked, acts>>

-----------------------------------------------------------------------------
Init ==
    /\ machine \in Machines
    /\ facts = EmptyFacts
    /\ jobs = <<>>
    /\ looked = FALSE
    /\ runs = [slot \in Slots |-> <<>>]
    /\ asking = FALSE
    /\ result = None
    /\ opening = FALSE
    /\ openingEnds = FALSE
    /\ postPending = FALSE
    /\ views = [layout \in Layouts |-> NoView]
    /\ screen = "overview"
    /\ saved \in Saved \cup {None}
    /\ pendingScreen = None
    /\ wanted = None
    /\ consents = {}
    /\ unasked = {}
    /\ acts = 0
    /\ changes = 0

Jobs     == JobLooks \/ RefreshEnds \/ Refuses \/ NeedsConfirmation \/ Executes
Promises == PostSoon \/ OpeningEnds \/ \E slot \in Slots : AsksUser(slot) \/ Returns(slot)
Views    == \/ OpenPanel \/ SelectScreen \/ RefreshAsked \/ CancelShown
            \/ \E layout \in Layouts :
                ResolveView(layout) \/ PageLoads(layout) \/ OnReady(layout) \/ Hide(layout) \/ Reveal(layout) \/ Dispose(layout) \/ SetVisible(layout)

Next ==
    \/ Jobs \/ Promises \/ Views
    \/ (\E op \in Offered : Run(op)) \/ (\E slot \in Slots : Answer(slot))
    \/ OnInterval \/ RowLooks \/ Change

Spec == Init /\ [][Next]_vars

\* What runs ends, a promise that is settled goes on, and a question is answered.
FairSpec ==
    Spec /\ WF_vars(Jobs) /\ WF_vars(Promises) /\ \A slot \in Slots : SF_vars(Answer(slot))

-----------------------------------------------------------------------------
(* Properties                                                               *)

Key == Operation \cup {"open", "interval"}
Ticket == [key : Key, confirmed : BOOLEAN, aborted : BOOLEAN]
RunCall == [op : Operation, asked : Nat, at : Asking \cup Outcomes \cup {"waits"}]
Result == [op : Operation, status : Outcomes \ Needs]
PanelModel == [facts : LauncherFacts, result : Result \cup {None},
               running : Key \cup {None}, queued : SUBSET Key]
View == [page : {"none", "loading", "mounted"}, shown : PanelModel \cup {None}, says : BOOLEAN,
         attached : BOOLEAN, ready : BOOLEAN, visible : BOOLEAN, posted : PanelModel \cup {None}]

ASSUME NoneAssumption == None \notin PanelModel

\* Everything keeps its type.
TypeOK ==
    /\ machine \in [running : BOOLEAN, routed : BOOLEAN]
    /\ facts \in LauncherFacts
    /\ jobs \in Seq(Ticket)
    /\ runs \in [Slots -> Seq(RunCall)]
    /\ result \in Result \cup {None}
    /\ {looked, asking, opening, openingEnds, postPending} \subseteq BOOLEAN
    /\ views \in [Layouts -> View]
    /\ screen \in Screens
    /\ {saved, pendingScreen, wanted} \subseteq Screens \cup {None}
    /\ consents \subseteq Operation /\ unasked \subseteq Operation
    /\ acts \in 0 .. MaxActs /\ changes \in 0 .. MaxChanges

\* Every view that shows draws what is so, once nothing runs and every message is
\* out: no reload, no hiding and no cached message leaves it behind.
QuietMeansShown ==
    (Settled /\ jobs = <<>>) =>
        \A layout \in Layouts :
            LET view == views[layout] IN
            (view.page = "mounted" /\ ~view.says /\ view.visible) => view.shown = Model

\* An operation that asks runs only where the user went ahead in a dialog since it
\* last ran.
NothingRunsUnasked == unasked = {}

\* Every run ends: whatever changes between the questions, nobody is asked forever.
EveryRunEnds == \A slot \in Slots : (runs[slot] # <<>>) ~> (runs[slot] = <<>>)

\* A panel that is there shows the screen that was asked for last since it was created,
\* in a tab or by who opened it, however often it was hidden and loaded in between; the
\* overview where none was, and where the workbench brought it back the screen it kept.
\* What was asked of a panel that was closed is forgotten with it.  A panel in the
\* background is left out: what it is sent is lost with its page (panelHost.ts:128).
AskedScreenShows ==
    LET view == views["panel"] IN
    (Settled /\ view.page = "mounted" /\ ~view.says /\ wanted # None) => screen = wanted

\* One question at a time ("A question is open already: answer it first.").  It does
\* not hold: a run looks whether one is open before its first answer, not after it.
OneQuestion == Cardinality({slot \in Slots : runs[slot] # <<>> /\ Top(slot).at \in Asking}) <= 1
================================================================================
