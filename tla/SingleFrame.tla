----------------------------- MODULE SingleFrame -----------------------------
(***************************************************************************)
(* How the main process presents the windows of the application in one     *)
(* frame: WorkspaceBarMainService (electron-main/workspaceBarMainService). *)
(*                                                                         *)
(* Every handler of the service runs to completion on the main process'    *)
(* thread, except where it waits for a window to leave fullscreen.  What   *)
(* is left to do after such a wait is an element of "waiting"; the wait    *)
(* ends when the window has left fullscreen or after 3 seconds, so it may  *)
(* end in any state.  Two waits for the same thing count as one.           *)
(*                                                                         *)
(* Left out: the geometry of the frame, minimized windows, logging.  Which *)
(* window is picked when the presented one closes is WorkspaceBarModel's   *)
(* business; here it is any candidate.                                     *)
(***************************************************************************)
EXTENDS Naturals, FiniteSets

CONSTANTS
    Window,      \* the windows that may open during a session
    Unmanaged,   \* those for extension development, tests or agent sessions
    WithAux,     \* those that have auxiliary windows
    NoWindow     \* "no window is presented"

ASSUME WindowAssumption ==
    /\ Unmanaged \subseteq Window
    /\ WithAux \subseteq Window
    /\ NoWindow \notin Window

VARIABLES
    unopened,     \* windows still to open: a window id is used once
    open,         \* windows the service tracks (windowListeners)
    loaded,       \* windows whose configuration is known (first onWillLoad)
    visible,      \* win.isVisible()
    full,         \* window.isFullScreen
    shown,        \* shown by others, event not delivered yet
    starting,     \* lifecycle phase before AfterWindowOpen
    quitting,     \* lifecycleMainService.quitRequested
    singleFrame,  \* window.singleFrame
    presented,    \* presentedWindowId
    untilReady,   \* windowsHiddenUntilReady: hidden, with a 7 s timer
    hiddenAux,    \* hiddenAuxiliaryWindows, by parent
    waiting       \* continuations behind leaveFullScreen

env  == <<unopened, open, loaded, starting, quitting, singleFrame>>
vars == <<unopened, open, loaded, visible, full, shown, starting, quitting,
          singleFrame, presented, untilReady, hiddenAux, waiting>>

\* What continues after a window left fullscreen: reveal and hide of a
\* window, or the opening of a new one (switchTo an entry without window).
Wait == [what : {"reveal", "hide"}, window : Window, leaving : Window]
        \cup [what : {"open"}, window : {NoWindow}, leaving : Window]

RevealWait(w, p) == [what |-> "reveal", window |-> w, leaving |-> p]
HideWait(w)      == [what |-> "hide", window |-> w, leaving |-> w]
OpenWait(p)      == [what |-> "open", window |-> NoWindow, leaving |-> p]

TypeOK ==
    /\ unopened \subseteq Window
    /\ open \subseteq Window
    /\ loaded \subseteq Window
    /\ visible \subseteq open
    /\ full \subseteq open
    /\ shown \subseteq open
    /\ starting \in BOOLEAN
    /\ quitting \in BOOLEAN
    /\ singleFrame \in BOOLEAN
    /\ presented \in open \cup {NoWindow}
    /\ untilReady \subseteq open
    /\ hiddenAux \subseteq open
    /\ waiting \subseteq Wait

-----------------------------------------------------------------------------
\* What a window is for is not known before it loads: until then it counts
\* as managed.
IsManaged(w) == w \notin loaded \cap Unmanaged

Managed(ws) == {w \in ws : IsManaged(w)}

\* toggleFullScreen of fullscreen windows.  On macOS isFullScreen changes at
\* once while the window is still on its way, elsewhere when it has left.
LeaveFullScreen(ws) == full' \in {full, full \ ws}

Init ==
    /\ unopened = Window
    /\ open = {}
    /\ loaded = {}
    /\ visible = {}
    /\ full = {}
    /\ shown = {}
    /\ starting = TRUE
    /\ quitting = FALSE
    /\ singleFrame \in BOOLEAN
    /\ presented = NoWindow
    /\ untilReady = {}
    /\ hiddenAux = {}
    /\ waiting = {}

-----------------------------------------------------------------------------
(* Presenting and hiding                                                    *)

\* The other windows that presenting a window hides.
HidesUnmanaged(w, around) == (visible \cap around) \ {w}
OthersToHide(w, around) == {o \in Managed(around) \ {w} : o \in visible}

\* A window that is presented needs no timer any more.
TimersLeft(w, around) == (untilReady \cap around) \ {w}

\* showAuxiliaryWindows of the presented window, hideAuxiliaryWindows of others.
AuxHidden(w, around, others) ==
    ((hiddenAux \cap around) \cup (others \cap WithAux)) \ {w}

\* doReveal: the window is shown first and only then the others are hidden; a
\* fullscreen one has to leave fullscreen before.  "around" are the windows
\* around after this step and "rest" the waits that go on.
DoReveal(w, around, rest) ==
    LET others == OthersToHide(w, around)
        slow   == others \cap full
    IN  /\ presented' = w
        /\ untilReady' = TimersLeft(w, around)
        /\ visible' = ((visible \cap around) \cup {w}) \ (others \ slow)
        /\ hiddenAux' = AuxHidden(w, around, others)
        /\ waiting' = rest \cup {HideWait(o) : o \in slow}
        /\ full' \in {full \cap around, (full \cap around) \ slow}

\* reveal: waits only for a presented window that is fullscreen.
Reveal(w) ==
    IF presented \notin {w, NoWindow} /\ presented \in full
    THEN /\ LeaveFullScreen({presented})
         /\ waiting' = waiting \cup {RevealWait(w, presented)}
         /\ UNCHANGED <<visible, presented, untilReady, hiddenAux>>
    ELSE DoReveal(w, open, waiting)

\* The window may have been closed meanwhile (isDestroyed).
CanPresent(w) == w \in open

\* A continuation of reveal.
RevealContinues(r) ==
    /\ r \in waiting
    /\ r.what = "reveal"
    /\ IF CanPresent(r.window)
       THEN DoReveal(r.window, open, waiting \ {r})
       ELSE /\ waiting' = waiting \ {r}
            /\ UNCHANGED <<visible, full, presented, untilReady, hiddenAux>>
    /\ UNCHANGED env
    /\ UNCHANGED shown

\* The window may be presented again, or closed.
HidesAnyway(w) == TRUE
StillToHide(w) == w # presented

\* A continuation of hide.
HideContinues(r) ==
    /\ r \in waiting
    /\ r.what = "hide"
    /\ waiting' = waiting \ {r}
    /\ visible' = IF StillToHide(r.window) THEN visible \ {r.window} ELSE visible
    /\ UNCHANGED env
    /\ UNCHANGED <<full, shown, presented, untilReady, hiddenAux>>

-----------------------------------------------------------------------------
(* Windows open, load, get ready and close                                  *)

\* onDidOpenWindow.  A window is visible when it opens; "fs" tells whether it
\* opens fullscreen, "rest" are the waits that go on.  Windows that are not
\* managed open on request, not while the application starts.
OpenWindow(w, fs, rest) ==
    LET fulls == IF fs THEN full \cup {w} ELSE full
        replaced == singleFrame /\ starting /\ presented # NoWindow
        hides == {presented} \cap visible
    IN  /\ w \in unopened
        /\ starting => w \notin Unmanaged
        /\ unopened' = unopened \ {w}
        /\ open' = open \cup {w}
        /\ presented' = IF singleFrame /\ (starting \/ presented = NoWindow)
                        THEN w ELSE presented
        /\ untilReady' = IF singleFrame /\ ~starting /\ presented # NoWindow
                         THEN untilReady \cup {w} ELSE untilReady
        /\ IF replaced
           THEN /\ visible' = (visible \cup {w}) \ (hides \ full)
                /\ waiting' = rest \cup {HideWait(o) : o \in hides \cap full}
                /\ hiddenAux' = hiddenAux \cup (hides \cap WithAux)
                /\ full' \in {fulls, fulls \ hides}
           ELSE /\ visible' = IF singleFrame /\ presented # NoWindow
                              THEN visible ELSE visible \cup {w}
                /\ waiting' = rest
                /\ full' = fulls
                /\ UNCHANGED hiddenAux
        /\ UNCHANGED <<loaded, shown, starting, quitting, singleFrame>>

OnDidOpenWindow(w) == \E fs \in BOOLEAN : OpenWindow(w, fs, waiting)

\* switchTo an entry without window, after the wait.
OpenContinues(r, w) ==
    /\ r \in waiting
    /\ r.what = "open"
    /\ \E fs \in BOOLEAN : OpenWindow(w, fs, waiting \ {r})

\* release: a window that is not managed gives the frame up.
PresentedAfterRelease(w) == IF presented = w THEN NoWindow ELSE presented

\* onWillLoadWindow: the first load tells what the window is for.  A window
\* that is not managed is released from the frame.
OnWillLoadWindow(w) ==
    /\ w \in open
    /\ loaded' = loaded \cup {w}
    /\ IF w \in Unmanaged
       THEN /\ untilReady' = untilReady \ {w}
            /\ presented' = PresentedAfterRelease(w)
            /\ visible' = visible \cup {w}
            /\ hiddenAux' = hiddenAux \ {w}
       ELSE UNCHANGED <<untilReady, presented, visible, hiddenAux>>
    /\ UNCHANGED <<unopened, open, full, shown, starting, quitting,
                   singleFrame, waiting>>

\* What the timer of hideUntilReady does: reveal the window.
TimerForgets(w) == UNCHANGED <<visible, full, presented, untilReady, hiddenAux, waiting>>
TimerFires(w) == Reveal(w)

\* onDidSignalReadyWindow: a window that was hidden until now takes over.
OnDidSignalReadyWindow(w) ==
    /\ w \in loaded \cap untilReady
    /\ Reveal(w)
    /\ UNCHANGED env
    /\ UNCHANGED shown

\* The timer of hideUntilReady: the window is presented anyway.  The timer fires
\* once, a second step while the first one waits adds no other wait.
ReadyTimeout(w) ==
    /\ w \in untilReady
    /\ TimerFires(w)
    /\ UNCHANGED env
    /\ UNCHANGED shown

\* Whether another window has to take the place of the one that closes.
NeverNeedsNext(w) == FALSE
NeedsNext(w) == presented = w /\ singleFrame /\ ~quitting

\* onDidCloseWindow, also for a window that crashed.  The window to present
\* instead is any managed one, unless the application quits.
OnDidCloseWindow(w) ==
    LET around == open \ {w}
    IN  /\ w \in open
        /\ open' = around
        /\ shown' = shown \ {w}
        /\ IF NeedsNext(w) /\ Managed(around) # {}
           THEN \E next \in Managed(around) : DoReveal(next, around, waiting)
           ELSE /\ presented' = IF presented = w THEN NoWindow ELSE presented
                /\ untilReady' = untilReady \ {w}
                /\ visible' = visible \ {w}
                /\ full' = full \ {w}
                /\ hiddenAux' = hiddenAux \ {w}
                /\ UNCHANGED waiting
        /\ UNCHANGED <<unopened, loaded, starting, quitting, singleFrame>>

-----------------------------------------------------------------------------
(* What users, other parts of the application and the system do             *)

\* onDidFocusWindow: the system reports focus for a window one can see.
OnDidFocusWindow(w) ==
    /\ w \in Managed(visible)
    /\ shown' = shown \ {w}
    /\ IF ~singleFrame
       THEN /\ presented' = w
            /\ UNCHANGED <<visible, full, untilReady, hiddenAux, waiting>>
       ELSE IF presented # w
       THEN Reveal(w)
       ELSE UNCHANGED <<visible, full, presented, untilReady, hiddenAux, waiting>>
    /\ UNCHANGED env

\* onDidShowWindow takes the frame over for a window that is still visible.
TakesOverNothing(w) == FALSE
TakesOver(w) == singleFrame /\ presented # w /\ IsManaged(w) /\ w \in visible

\* A hidden window is shown by others: a file opens in it, it asks something.
ShownByOthers(w) ==
    /\ w \in open \ visible
    /\ visible' = visible \cup {w}
    /\ shown' = shown \cup {w}
    /\ UNCHANGED env
    /\ UNCHANGED <<full, presented, untilReady, hiddenAux, waiting>>

\* onDidShowWindow: the event may arrive late, the window may be hidden again.
OnDidShowWindow(w) ==
    /\ w \in shown
    /\ shown' = shown \ {w}
    /\ IF TakesOver(w)
       THEN Reveal(w)
       ELSE UNCHANGED <<visible, full, presented, untilReady, hiddenAux, waiting>>
    /\ UNCHANGED env

\* switchTo the entry of a window, closeEntryWindow of one with unsaved
\* changes.  Without single frame, switching is focusing.
SwitchTo(w) ==
    /\ w \in Managed(open) \cap loaded
    /\ IF singleFrame
       THEN Reveal(w) /\ UNCHANGED shown
       ELSE /\ visible' = visible \cup {w}
            /\ shown' = shown \cup {w}
            /\ UNCHANGED <<full, presented, untilReady, hiddenAux, waiting>>
    /\ UNCHANGED env

\* switchTo an entry without window while a fullscreen window is presented.
SwitchToUnopened ==
    /\ singleFrame
    /\ presented \in full
    /\ LeaveFullScreen({presented})
    /\ waiting' = waiting \cup {OpenWait(presented)}
    /\ UNCHANGED env
    /\ UNCHANGED <<visible, shown, presented, untilReady, hiddenAux>>

\* revealLastActive: the application is activated.
RevealLastActive ==
    /\ singleFrame
    /\ \/ presented # NoWindow /\ Reveal(presented)
       \/ presented = NoWindow /\ \E w \in Managed(open) : Reveal(w)
    /\ UNCHANGED env
    /\ UNCHANGED shown

\* onDidChangeSingleFrameConfiguration, both ways.
GatherWindows ==
    /\ ~singleFrame
    /\ singleFrame' = TRUE
    /\ \/ presented # NoWindow /\ Reveal(presented)
       \/ presented = NoWindow /\ \E w \in Managed(open) : Reveal(w)
       \/ /\ presented = NoWindow
          /\ Managed(open) = {}
          /\ UNCHANGED <<visible, full, presented, untilReady, hiddenAux, waiting>>
    /\ UNCHANGED <<unopened, open, loaded, shown, starting, quitting>>

BringAllBack ==
    /\ singleFrame
    /\ singleFrame' = FALSE
    /\ untilReady' = untilReady \ Managed(open)
    /\ visible' = visible \cup Managed(open)
    /\ hiddenAux' = hiddenAux \ Managed(open)
    /\ UNCHANGED <<unopened, open, loaded, full, shown, starting, quitting,
                   presented, waiting>>

EnterFullScreen(w) ==
    /\ w \in visible \ full
    /\ full' = full \cup {w}
    /\ UNCHANGED env
    /\ UNCHANGED <<visible, shown, presented, untilReady, hiddenAux, waiting>>

DidLeaveFullScreen(w) ==
    /\ w \in full
    /\ full' = full \ {w}
    /\ UNCHANGED env
    /\ UNCHANGED <<visible, shown, presented, untilReady, hiddenAux, waiting>>

\* The windows service is done with the windows to restore and focuses the
\* one that was active last.
EndStartup(w) ==
    /\ starting
    /\ w \in open
    /\ starting' = FALSE
    /\ visible' = visible \cup {w}
    /\ shown' = shown \cup {w}
    /\ UNCHANGED <<unopened, open, loaded, full, quitting, singleFrame,
                   presented, untilReady, hiddenAux, waiting>>

RequestQuit ==
    /\ ~quitting
    /\ quitting' = TRUE
    /\ UNCHANGED <<unopened, open, loaded, visible, full, shown, starting,
                   singleFrame, presented, untilReady, hiddenAux, waiting>>

\* A window keeps the application from quitting.  Windows that remain have been
\* shown to ask the user (ShownByOthers), and the one that was answered in is
\* presented by then.
VetoQuit ==
    /\ quitting
    /\ singleFrame /\ Managed(open) # {} => presented # NoWindow
    /\ quitting' = FALSE
    /\ UNCHANGED <<unopened, open, loaded, visible, full, shown, starting,
                   singleFrame, presented, untilReady, hiddenAux, waiting>>

-----------------------------------------------------------------------------
\* The windows service loads a window in the turn in which it opens it:
\* nothing else happens in between.
Settled == open \subseteq loaded

WindowStep(w) ==
    \/ OnDidOpenWindow(w)
    \/ OnDidSignalReadyWindow(w)
    \/ ReadyTimeout(w)
    \/ OnDidCloseWindow(w)
    \/ OnDidFocusWindow(w)
    \/ ShownByOthers(w)
    \/ OnDidShowWindow(w)
    \/ SwitchTo(w)
    \/ EnterFullScreen(w)
    \/ DidLeaveFullScreen(w)
    \/ EndStartup(w)

Continue(r) ==
    \/ RevealContinues(r)
    \/ HideContinues(r)
    \/ \E w \in Window : OpenContinues(r, w)

Next ==
    \/ \E w \in Window : OnWillLoadWindow(w)
    \/ /\ Settled
       /\ \/ \E w \in Window : WindowStep(w)
          \/ \E r \in waiting : Continue(r)
          \/ SwitchToUnopened
          \/ RevealLastActive
          \/ GatherWindows
          \/ BringAllBack
          \/ RequestQuit
          \/ VetoQuit

Spec == Init /\ [][Next]_vars

\* Timers go off, a wait for fullscreen ends and a window that opened loads;
\* users and windows owe nothing.
Fairness ==
    /\ WF_vars(\E w \in Window : OnWillLoadWindow(w) /\ w \notin loaded)
    /\ \A w \in Window : WF_vars(Settled /\ ReadyTimeout(w))
    /\ \A w \in Window : WF_vars(Settled /\ \E p \in Window :
                                      RevealContinues(RevealWait(w, p)))

FairSpec == Spec /\ Fairness

-----------------------------------------------------------------------------
(* Properties                                                               *)

\* Windows for extension development, tests and agent sessions are not part
\* of the frame (isManaged): one of them is never the presented window, not
\* even by a reveal that was waiting when its purpose became known.
PresentedIsManaged == presented # NoWindow => IsManaged(presented)

\* "Never leaves the user without a window": while the application is not
\* quitting and a managed window is open, some managed window is presented and
\* on screen, whatever closes, crashes or waits for fullscreen meanwhile.
NeverWithoutWindow ==
    singleFrame /\ ~quitting /\ Managed(open) # {} => presented \in Managed(visible)

\* "Exactly one window is visible" once everything settled: no continuation
\* waits, every show event is delivered, startup is over.
OneVisible ==
    singleFrame /\ ~starting /\ Settled /\ waiting = {} /\ shown = {}
        => Managed(visible) \subseteq {presented}

\* A timer of hideUntilReady never outlives the hiding of its window: a window
\* that was presented or brought back is not pulled to the front by it later.
NoStaleTimer ==
    \A w \in untilReady :
        \/ w \notin visible
        \/ w \in shown
        \/ \E r \in waiting : r.what = "reveal" /\ r.window = w

\* Auxiliary windows come back with their window: those of a window on screen
\* are only hidden while it is about to be hidden or presented.
AuxiliaryWindowsFollow ==
    singleFrame =>
        \A w \in hiddenAux \cap visible :
            w \in shown \/ \E r \in waiting : r.window = w

\* The frame hides managed windows only: a window known to be unmanaged stays
\* on screen, also when a hide of it was under way.
UnmanagedStaysVisible == Settled => open \ Managed(open) \subseteq visible

\* A window that opens in the background gets on screen although it never
\* signals that it is ready, or it closes.
EventuallyOnScreen ==
    \A w \in Window : w \in untilReady ~> w \in visible \/ w \notin open

\* "When window.singleFrame is disabled nothing gets hidden": no step that
\* starts and ends with it disabled hides a window that stays open.
NothingHiddenWhenDisabled ==
    [][~singleFrame /\ ~singleFrame' => visible \cap open' \subseteq visible']_vars
=============================================================================
