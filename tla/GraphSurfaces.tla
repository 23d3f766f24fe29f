---------------------------- MODULE GraphSurfaces ----------------------------
(***************************************************************************)
(* The surfaces of the workflow graph in one window: the view in the side  *)
(* bar, whose page is destroyed whenever it is hidden, and the panel in    *)
(* the editor area, whose page lives as long as the panel. The extension   *)
(* sends each of them the graph of every snapshot and the focused node,    *)
(* and they tell it what was focused in them. Both directions deliver in   *)
(* order and take their time.                                              *)
(***************************************************************************)
EXTENDS GraphView

CONSTANTS
    MaxUser,     \* steps of the user: in the pages, commands and settings
    MaxSteps     \* snapshots, and pages shown or hidden

ASSUME SurfacesBounds == MaxUser \in Nat /\ MaxSteps \in Nat

Surface == {"view", "panel"}

VARIABLES
    snapshot,    \* the number of the graph that the ledgers hold
    setting,     \* the direction that is configured for each surface
    focusedId,   \* the focused node of the window, NoNode before the first
    attached,    \* the surfaces that the extension knows
    ready,       \* those of them whose page was ready once
    html,        \* the direction written into the page of each surface
    page,        \* the page of each surface, NoPage when none runs
    hash,        \* the state that the pages saved
    toPage,      \* messages under way to each page
    toHost,      \* messages under way from each page
    spent        \* how much of the bounds is used up

vars == <<snapshot, setting, focusedId, attached, ready, html, page, hash,
          toPage, toHost, spent>>

NoPage == [none |-> TRUE]
Runs(s) == page[s] # NoPage

GraphMsg(v)    == [type |-> "graph", graph |-> Graphs[v]]
FocusMsg(id)   == [type |-> "focus", id |-> id]
ConfigMsg(dir) == [type |-> "config", dir |-> dir]

\* The page steps to p, what it posted goes on its way and what it saved is
\* kept by the host.
StepTo(s, p) ==
    /\ page' = [page EXCEPT ![s] = [p EXCEPT !.out = <<>>]]
    /\ toHost' = [toHost EXCEPT ![s] = @ \o p.out]
    /\ hash' = [hash EXCEPT ![s] = p.saved]

Broadcast(msg, to) ==
    toPage' = [s \in Surface |-> IF s \in to \cap ready THEN Append(toPage[s], msg) ELSE toPage[s]]

Spend(what, limit) == /\ spent[what] < limit
                      /\ spent' = [spent EXCEPT ![what] = @ + 1]

-----------------------------------------------------------------------------
(* The extension.                                                          *)

\* show: every ready surface is sent the graph of the new snapshot.
Snapshot ==
    /\ snapshot < Len(Graphs)
    /\ snapshot' = snapshot + 1
    /\ Broadcast(GraphMsg(snapshot + 1), Surface)
    /\ Spend("steps", MaxSteps)
    /\ UNCHANGED <<setting, focusedId, attached, ready, html, page, hash, toHost>>

\* One focused node per window: the others are told, unless it is known.
SetFocused(id, others) ==
    /\ focusedId' = id
    /\ Broadcast(FocusMsg(id), others)

\* A surface is shown for the first time: its html is written, its page starts
\* from what was saved for it.
Attached(s, saved) ==
    /\ attached' = attached \cup {s}
    /\ html' = [html EXCEPT ![s] = setting[s]]
    /\ StepTo(s, Mount(saved, setting[s]))

\* The command, from the tree, with an argument or after the user picked a node
\* of the graph that was current when it asked. It opens a new panel when no
\* surface is there to show the node.
FocusNode(id) ==
    /\ \E v \in 1 .. snapshot : id \in Graphs[v].nodes
    /\ SetFocused(id, Surface)
    /\ IF \E s \in Surface : Runs(s)
       THEN UNCHANGED <<attached, html, page, hash, toHost>>
       ELSE Attached("panel", NothingSaved)
    /\ Spend("user", MaxUser)
    /\ UNCHANGED <<snapshot, setting, ready>>

\* The setting of the direction changes: the pages are told, their html stays.
ChangeSetting(dir) ==
    /\ \E s \in Surface : setting[s] # dir
    /\ setting' = [s \in Surface |-> dir]
    /\ Broadcast(ConfigMsg(dir), Surface)
    /\ Spend("user", MaxUser)
    /\ UNCHANGED <<snapshot, focusedId, attached, ready, html, page, hash, toHost>>

OnReadyOnce(s) ==
    /\ ready' = ready \cup {s}
    /\ toPage' = IF s \in ready THEN toPage
                 ELSE [toPage EXCEPT ![s] = @ \o <<GraphMsg(snapshot)>> \o
                          (IF focusedId = NoNode THEN <<>> ELSE <<FocusMsg(focusedId)>>)]
    /\ UNCHANGED focusedId

\* Sent by every incarnation of a page: it gets the graph and the focus.
OnReady(s) ==
    /\ ready' = ready \cup {s}
    /\ toPage' = [toPage EXCEPT ![s] = @ \o <<GraphMsg(snapshot)>> \o
                     (IF focusedId = NoNode THEN <<>> ELSE <<FocusMsg(focusedId)>>)]
    /\ UNCHANGED focusedId

OnFocused(s, id) ==
    /\ UNCHANGED ready
    /\ IF id = focusedId
       THEN UNCHANGED <<focusedId, toPage>>
       ELSE SetFocused(id, Surface \ {s})

Receive(s) ==
    /\ toHost[s] # <<>>
    /\ toHost' = [toHost EXCEPT ![s] = Tail(@)]
    /\ LET msg == Head(toHost[s]) IN
       IF s \notin attached THEN UNCHANGED <<ready, focusedId, toPage>>
       ELSE \/ msg.type = "ready" /\ OnReady(s)
            \/ msg.type = "focused" /\ OnFocused(s, msg.id)
    /\ UNCHANGED <<snapshot, setting, attached, html, page, hash, spent>>

-----------------------------------------------------------------------------
(* The pages and the editor around them.                                   *)

\* The side bar shows the view, or the panel is restored, each with what its
\* earlier page saved; or a new panel is opened, for which nothing was.
Attach(s) ==
    /\ s \notin attached
    /\ \E saved \in {hash[s]} \cup (IF s = "panel" THEN {NothingSaved} ELSE {}) :
          Attached(s, saved)
    /\ Spend("steps", MaxSteps)
    /\ UNCHANGED <<snapshot, setting, focusedId, ready, toPage>>

\* A hidden view is destroyed, with what is on its way to it.
Hide ==
    /\ Runs("view")
    /\ page' = [page EXCEPT !["view"] = NoPage]
    /\ toPage' = [toPage EXCEPT !["view"] = <<>>]
    /\ Spend("steps", MaxSteps)
    /\ UNCHANGED <<snapshot, setting, focusedId, attached, ready, html, hash, toHost>>

\* Shown again it starts over from the html and the saved state. What was
\* posted meanwhile was lost, or waited for it.
Show ==
    /\ "view" \in attached /\ ~Runs("view")
    /\ StepTo("view", Mount(hash["view"], html["view"]))
    /\ toPage' \in {toPage, [toPage EXCEPT !["view"] = <<>>]}
    /\ Spend("steps", MaxSteps)
    /\ UNCHANGED <<snapshot, setting, focusedId, attached, ready, html>>

\* What the page of a panel saved is gone with the panel.
ClosePanel ==
    /\ "panel" \in attached
    /\ attached' = attached \ {"panel"}
    /\ ready' = ready \ {"panel"}
    /\ page' = [page EXCEPT !["panel"] = NoPage]
    /\ toPage' = [toPage EXCEPT !["panel"] = <<>>]
    /\ toHost' = [toHost EXCEPT !["panel"] = <<>>]
    /\ hash' = [hash EXCEPT !["panel"] = NothingSaved]
    /\ Spend("steps", MaxSteps)
    /\ UNCHANGED <<snapshot, setting, focusedId, html>>

Deliver(s) ==
    /\ Runs(s)
    /\ toPage[s] # <<>>
    /\ toPage' = [toPage EXCEPT ![s] = Tail(@)]
    /\ \E p \in Handle(page[s], Head(toPage[s])) : StepTo(s, p)
    /\ UNCHANGED <<snapshot, setting, focusedId, attached, ready, html, spent>>

User(s) ==
    /\ Runs(s)
    /\ \E p \in UserSteps(page[s]) : StepTo(s, p)
    /\ Spend("user", MaxUser)
    /\ UNCHANGED <<snapshot, setting, focusedId, attached, ready, html, toPage>>

-----------------------------------------------------------------------------
\* The window opens; in an earlier one the pages may have saved a route.
SavedRoute(n, m) == [NothingSaved EXCEPT !.focus = n, !.route = <<n, m>>]
SavedBefore == {NothingSaved} \cup
    {SavedRoute(n, m) : n \in Graphs[1].active, m \in Graphs[1].nodes \ Graphs[1].active}

Init ==
    /\ snapshot = 1
    /\ setting = [s \in Surface |-> IF s = "view" THEN "td" ELSE "lr"]
    /\ focusedId = NoNode
    /\ attached = {} /\ ready = {}
    /\ html = setting
    /\ page = [s \in Surface |-> NoPage]
    /\ hash \in [Surface -> SavedBefore]
    /\ toPage = [s \in Surface |-> <<>>] /\ toHost = [s \in Surface |-> <<>>]
    /\ spent = [user |-> 0, steps |-> 0]

System == \E s \in Surface : Receive(s) \/ Deliver(s)

Next ==
    \/ System
    \/ Snapshot
    \/ \E id \in Node : FocusNode(id)
    \/ \E dir \in Direction : ChangeSetting(dir)
    \/ \E s \in Surface : Attach(s) \/ User(s)
    \/ Hide \/ Show \/ ClosePanel

Spec == Init /\ [][Next]_vars

\* Messages are delivered, each direction of each surface for itself.
FairSpec == Spec /\ \A s \in Surface : WF_vars(Receive(s)) /\ WF_vars(Deliver(s))

-----------------------------------------------------------------------------
\* The shape of the state; what a page saved is what it shows.
TypeOK ==
    /\ snapshot \in DOMAIN Graphs
    /\ focusedId \in Node \cup {NoNode}
    /\ ready \subseteq attached /\ attached \subseteq Surface
    /\ html \in [Surface -> Direction] /\ setting \in [Surface -> Direction]
    /\ \A s \in Surface :
          Runs(s) => /\ s \in attached
                     /\ page[s] \in Page
                     /\ page[s].out = <<>>
                     /\ hash[s] = page[s].saved
                     /\ FormatHash(page[s]).focus = hash[s].focus
    /\ toHost \in [Surface -> Seq(Posted)]

\* A route on screen starts at the focused node, whatever the user did and
\* whatever arrived meanwhile: pick, focus and stepBack each keep them in step.
RouteStartsAtFocus ==
    \A s \in Surface : Runs(s) /\ page[s].route # NoRoute => page[s].route[1] = page[s].focus

\* Once nothing is under way, a page shows the graph of the last snapshot, and
\* it has the focused node of the window in focus or has none since the user
\* stepped back from it: whatever was shown, hidden, closed, pressed or read
\* meanwhile (show, attach, setFocused; update, focus). A node that a snapshot
\* dropped is excepted: a page whose graph lacks it ignores the focus
\* (graphView.ts:190-192) and keeps its own.
Quiet == \A s \in Surface : toHost[s] = <<>> /\ toPage[s] = <<>>
Stayed(id) ==
    \A i \in 1 .. snapshot : \A j \in i .. snapshot :
        id \in Graphs[i].nodes => id \in Graphs[j].nodes
Together == focusedId # NoNode /\ Stayed(focusedId) =>
    \A s \in Surface : Runs(s) => page[s].focus \in {focusedId, NoNode}
QuietMeansCurrent ==
    Quiet => /\ Together
             /\ \A s \in Surface : Runs(s) => page[s].graph = Graphs[snapshot]

\* "One focused node per window: the graph surfaces and the tree follow each
\* other" (extension.ts:350): once the user pauses, all of them settle on the
\* focused node, unless a snapshot dropped it.
EventuallyTogether == <>[]Together
=============================================================================
