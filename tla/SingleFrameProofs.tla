-------------------------- MODULE SingleFrameProofs --------------------------
(***************************************************************************)
(* What SingleFrame guarantees for any number of windows: its state is     *)
(* well typed, only managed windows are presented, the user is never left  *)
(* without a window and, once all waits are over, sees one at most,        *)
(* windows that are not managed never get hidden, and the timers and       *)
(* auxiliary windows of a window follow it.                                *)
(***************************************************************************)
EXTENDS SingleFrame, TLAPS

\* A window id is used once, a window loads after it opened.
WindowsOpenOnce == open \cap unopened = {} /\ loaded \cap unopened = {}

\* Continuations and timers belong to windows that are managed for good.
PendingIsManaged ==
    /\ \A r \in waiting : r.what # "open" => r.window \in loaded \ Unmanaged
    /\ untilReady \cap loaded \cap Unmanaged = {}

\* In single frame mode the presented window is on screen, also while quitting.
PresentedOnScreen == singleFrame /\ presented # NoWindow => presented \in visible

\* There is a presented window for as long as there is one to present.
SomeWindowPresented ==
    singleFrame /\ ~quitting /\ Managed(open) # {} => presented # NoWindow

\* A window that turns out not to be managed while it is presented is the only
\* one there is: nothing is lost when it leaves the frame.
LoneUnknownWindow ==
    singleFrame /\ ~quitting /\ presented \in Unmanaged \ loaded
        => Managed(open) = {presented}

UnmanagedVisible == open \cap loaded \cap Unmanaged \subseteq visible

IInv ==
    /\ TypeOK
    /\ WindowsOpenOnce
    /\ PendingIsManaged
    /\ PresentedIsManaged
    /\ PresentedOnScreen
    /\ SomeWindowPresented
    /\ LoneUnknownWindow
    /\ UnmanagedVisible

-----------------------------------------------------------------------------
LEMMA InitIInv == Init => IInv
BY WindowAssumption
   DEF Init, IInv, TypeOK, Wait, WindowsOpenOnce, PendingIsManaged,
       PresentedIsManaged, PresentedOnScreen, SomeWindowPresented,
       LoneUnknownWindow, UnmanagedVisible, Managed, IsManaged

\* doReveal, in whatever handler it ends: "around" are the windows that remain.
LEMMA DoRevealIInv ==
    ASSUME IInv, Settled,
           NEW around \in SUBSET open, NEW w \in Managed(around),
           NEW rest \in SUBSET waiting,
           DoReveal(w, around, rest),
           open' = around, shown' \subseteq around,
           UNCHANGED <<unopened, loaded>>,
           starting' \in BOOLEAN, quitting' \in BOOLEAN, singleFrame' \in BOOLEAN
    PROVE  IInv'
<1>. DEFINE others == OthersToHide(w, around)
            slow   == others \cap full
<1>1. /\ w \in around /\ w \in open /\ w \in loaded \ Unmanaged /\ w # NoWindow
      /\ others \subseteq loaded \ Unmanaged
      /\ others \subseteq open \ {w}
  BY WindowAssumption
     DEF Settled, Managed, IsManaged, OthersToHide, IInv, TypeOK
<1>2. /\ presented' = w
      /\ untilReady' \subseteq untilReady \cap around
      /\ visible' = ((visible \cap around) \cup {w}) \ (others \ slow)
      /\ hiddenAux' \subseteq around
      /\ waiting' = rest \cup {HideWait(o) : o \in slow}
      /\ full' \subseteq around
  BY <1>1 DEF DoReveal, TimersLeft, AuxHidden, OthersToHide, Managed
<1>3. \A o \in slow : HideWait(o) \in Wait /\ HideWait(o).what = "hide"
                      /\ HideWait(o).window = o
  BY <1>1 DEF IInv, TypeOK, Wait, HideWait
<1>4. TypeOK'
  BY <1>1, <1>2, <1>3 DEF IInv, TypeOK
<1>5. WindowsOpenOnce'
  BY DEF IInv, WindowsOpenOnce
<1>6. PendingIsManaged'
  BY <1>1, <1>2, <1>3 DEF IInv, PendingIsManaged
<1>7. PresentedIsManaged' /\ PresentedOnScreen'
  BY <1>1, <1>2 DEF PresentedIsManaged, PresentedOnScreen, IsManaged
<1>8. SomeWindowPresented' /\ LoneUnknownWindow'
  BY <1>1, <1>2 DEF SomeWindowPresented, LoneUnknownWindow
<1>9. UnmanagedVisible'
  BY <1>1, <1>2 DEF IInv, UnmanagedVisible
<1>. QED
  BY <1>4, <1>5, <1>6, <1>7, <1>8, <1>9 DEF IInv

\* reveal, in whatever handler it ends.
LEMMA RevealIInv ==
    ASSUME IInv, Settled, NEW w \in Managed(open), Reveal(w),
           UNCHANGED <<unopened, open, loaded, starting, quitting>>,
           shown' \subseteq open,
           singleFrame' \in BOOLEAN,
           singleFrame' = singleFrame \/ presented \in {w, NoWindow}
    PROVE  IInv'
<1>1. CASE presented \notin {w, NoWindow} /\ presented \in full
  <2>1. /\ waiting' = waiting \cup {RevealWait(w, presented)}
        /\ full' \subseteq full
        /\ UNCHANGED <<visible, presented, untilReady, hiddenAux, singleFrame>>
    BY <1>1 DEF Reveal, LeaveFullScreen
  <2>2. w \in loaded \ Unmanaged /\ w \in Window
    BY DEF Settled, Managed, IsManaged, IInv, TypeOK
  <2>3. /\ RevealWait(w, presented) \in Wait
        /\ RevealWait(w, presented).window = w
    BY <1>1, <2>2 DEF RevealWait, Wait, IInv, TypeOK
  <2>4. TypeOK'
    BY <2>1, <2>3 DEF IInv, TypeOK
  <2>5. PendingIsManaged'
    BY <2>1, <2>2, <2>3 DEF IInv, PendingIsManaged
  <2>6. /\ WindowsOpenOnce' /\ PresentedIsManaged' /\ PresentedOnScreen'
        /\ SomeWindowPresented' /\ LoneUnknownWindow' /\ UnmanagedVisible'
    BY <2>1 DEF IInv, WindowsOpenOnce, PresentedIsManaged, PresentedOnScreen,
                SomeWindowPresented, LoneUnknownWindow, UnmanagedVisible,
                Managed, IsManaged
  <2>. QED
    BY <2>4, <2>5, <2>6 DEF IInv
<1>2. CASE ~(presented \notin {w, NoWindow} /\ presented \in full)
  <2>1. DoReveal(w, open, waiting)
    BY <1>2 DEF Reveal
  <2>. QED
    BY <2>1, DoRevealIInv DEF IInv, TypeOK
<1>. QED
  BY <1>1, <1>2

\* Opening a window, also as the continuation of a switch.
LEMMA OpenIInv ==
    ASSUME IInv, Settled, NEW w \in Window, NEW fs \in BOOLEAN,
           NEW rest \in SUBSET waiting, OpenWindow(w, fs, rest)
    PROVE  IInv'
<1>. DEFINE hides == {presented} \cap visible
<1>1. /\ w \in unopened /\ w \notin open /\ w \notin loaded /\ w # NoWindow
      /\ unopened' = unopened \ {w} /\ open' = open \cup {w}
      /\ UNCHANGED <<loaded, shown, starting, quitting, singleFrame>>
      /\ starting => w \notin Unmanaged
  BY WindowAssumption DEF OpenWindow, IInv, WindowsOpenOnce
<1>2. /\ presented' = IF singleFrame /\ (starting \/ presented = NoWindow)
                      THEN w ELSE presented
      /\ untilReady' \subseteq untilReady \cup {w}
      /\ full' \subseteq full \cup {w}
      /\ hiddenAux' \subseteq open
  BY DEF OpenWindow, IInv, TypeOK
<1>3. presented # NoWindow => presented \in loaded \ Unmanaged
  BY DEF IInv, TypeOK, PresentedIsManaged, IsManaged, Settled
<1>4. waiting' \subseteq waiting \cup {HideWait(o) : o \in hides}
  BY DEF OpenWindow
<1>5. visible' \subseteq visible \cup {w}
      /\ visible \ visible' \subseteq {presented}
      /\ (presented' = presented => visible \subseteq visible')
      /\ (presented' = w => w \in visible')
  BY <1>1, <1>2 DEF OpenWindow, IInv, TypeOK
<1>6. \A o \in hides : /\ HideWait(o) \in Wait /\ HideWait(o).window = o
                       /\ o \in loaded \ Unmanaged
  BY <1>3, WindowAssumption DEF HideWait, Wait, IInv, TypeOK
<1>7. TypeOK'
  BY <1>1, <1>2, <1>4, <1>5, <1>6 DEF IInv, TypeOK
<1>8. WindowsOpenOnce'
  BY <1>1 DEF IInv, WindowsOpenOnce
<1>9. PendingIsManaged'
  BY <1>1, <1>2, <1>4, <1>6 DEF IInv, PendingIsManaged
<1>10. PresentedIsManaged' /\ PresentedOnScreen'
  BY <1>1, <1>2, <1>5 DEF IInv, PresentedIsManaged, PresentedOnScreen, IsManaged
<1>11. SomeWindowPresented'
  BY <1>1, <1>2 DEF SomeWindowPresented
<1>12. LoneUnknownWindow'
  <2>1. SUFFICES ASSUME singleFrame, ~quitting, presented' \in Unmanaged \ loaded
                 PROVE  Managed(open)' = {presented'}
    BY <1>1 DEF LoneUnknownWindow
  <2>2. presented' = w /\ presented = NoWindow
    BY <1>1, <1>2, <1>3, <2>1, WindowAssumption
  <2>3. Managed(open) = {}
    BY <2>1, <2>2 DEF IInv, SomeWindowPresented
  <2>. QED
    BY <1>1, <2>2, <2>3 DEF Managed, IsManaged
<1>13. UnmanagedVisible'
  BY <1>1, <1>3, <1>5, WindowAssumption DEF IInv, UnmanagedVisible, TypeOK
<1>. QED
  BY <1>7, <1>8, <1>9, <1>10, <1>11, <1>12, <1>13 DEF IInv

\* Loading is the one step that changes which windows are managed.
LEMMA LoadIInv ==
    ASSUME IInv, NEW w \in Window, OnWillLoadWindow(w)
    PROVE  IInv'
<1>1. /\ w \in open
      /\ loaded' = loaded \cup {w}
      /\ UNCHANGED <<unopened, open, full, shown, starting, quitting,
                     singleFrame, waiting>>
  BY DEF OnWillLoadWindow
<1>2. CASE w \in Unmanaged
  <2>1. /\ untilReady' = untilReady \ {w}
        /\ presented' = IF presented = w THEN NoWindow ELSE presented
        /\ visible' = visible \cup {w}
        /\ hiddenAux' = hiddenAux \ {w}
    BY <1>2 DEF OnWillLoadWindow, PresentedAfterRelease
  <2>2. Managed(open)' = Managed(open) \ {w}
    BY <1>1, <1>2 DEF Managed, IsManaged
  <2>3. TypeOK' /\ WindowsOpenOnce'
    BY <1>1, <2>1 DEF IInv, TypeOK, WindowsOpenOnce
  <2>4. PendingIsManaged' /\ UnmanagedVisible'
    BY <1>1, <2>1 DEF IInv, PendingIsManaged, UnmanagedVisible
  <2>5. PresentedIsManaged' /\ PresentedOnScreen'
    BY <1>1, <2>1 DEF IInv, PresentedIsManaged, PresentedOnScreen, IsManaged
  <2>6. SomeWindowPresented' /\ LoneUnknownWindow'
    <3>1. CASE presented = w
      <4>1. w \notin loaded
        BY <1>2, <3>1, WindowAssumption DEF IInv, PresentedIsManaged, IsManaged
      <4>2. singleFrame /\ ~quitting => Managed(open)' = {}
        BY <1>2, <2>2, <3>1, <4>1 DEF IInv, LoneUnknownWindow
      <4>. QED
        BY <1>1, <2>1, <3>1, <4>2, WindowAssumption
           DEF SomeWindowPresented, LoneUnknownWindow
    <3>2. CASE presented # w
      BY <1>1, <2>1, <2>2, <3>2
         DEF IInv, SomeWindowPresented, LoneUnknownWindow
    <3>. QED
      BY <3>1, <3>2
  <2>. QED
    BY <2>3, <2>4, <2>5, <2>6 DEF IInv
<1>3. CASE w \notin Unmanaged
  <2>1. UNCHANGED <<untilReady, presented, visible, hiddenAux>>
    BY <1>3 DEF OnWillLoadWindow
  <2>2. Managed(open)' = Managed(open) /\ loaded' \cap Unmanaged = loaded \cap Unmanaged
    BY <1>1, <1>3 DEF Managed, IsManaged
  <2>3. TypeOK' /\ WindowsOpenOnce'
    BY <1>1, <2>1 DEF IInv, TypeOK, WindowsOpenOnce
  <2>4. PendingIsManaged' /\ UnmanagedVisible'
    BY <1>1, <2>1, <2>2 DEF IInv, PendingIsManaged, UnmanagedVisible
  <2>5. /\ PresentedIsManaged' /\ PresentedOnScreen'
        /\ SomeWindowPresented' /\ LoneUnknownWindow'
    BY <1>1, <1>3, <2>1, <2>2
       DEF IInv, PresentedIsManaged, PresentedOnScreen, SomeWindowPresented,
           LoneUnknownWindow, IsManaged
  <2>. QED
    BY <2>3, <2>4, <2>5 DEF IInv
<1>. QED
  BY <1>2, <1>3

\* Closing a window.
LEMMA CloseIInv ==
    ASSUME IInv, Settled, NEW w \in Window, OnDidCloseWindow(w)
    PROVE  IInv'
<1>. DEFINE around == open \ {w}
<1>1. /\ open' = around /\ shown' = shown \ {w}
      /\ UNCHANGED <<unopened, loaded, starting, quitting, singleFrame>>
  BY DEF OnDidCloseWindow
<1>2. CASE NeedsNext(w) /\ Managed(around) # {}
  <2>1. PICK next \in Managed(around) : DoReveal(next, around, waiting)
    BY <1>2 DEF OnDidCloseWindow
  <2>. QED
    BY <1>1, <2>1, DoRevealIInv DEF IInv, TypeOK
<1>3. CASE ~(NeedsNext(w) /\ Managed(around) # {})
  <2>1. /\ presented' = IF presented = w THEN NoWindow ELSE presented
        /\ untilReady' = untilReady \ {w}
        /\ visible' = visible \ {w}
        /\ full' = full \ {w}
        /\ hiddenAux' = hiddenAux \ {w}
        /\ waiting' = waiting
    BY <1>3 DEF OnDidCloseWindow
  <2>2. Managed(open)' = Managed(around)
    BY <1>1 DEF Managed, IsManaged
  <2>3. TypeOK' /\ WindowsOpenOnce'
    BY <1>1, <2>1 DEF IInv, TypeOK, WindowsOpenOnce
  <2>4. PendingIsManaged' /\ UnmanagedVisible'
    BY <1>1, <2>1 DEF IInv, PendingIsManaged, UnmanagedVisible
  <2>5. PresentedIsManaged' /\ PresentedOnScreen'
    BY <1>1, <2>1 DEF IInv, PresentedIsManaged, PresentedOnScreen, IsManaged
  <2>6. SomeWindowPresented'
    BY <1>1, <1>3, <2>1, <2>2
       DEF IInv, SomeWindowPresented, NeedsNext, Managed
  <2>7. LoneUnknownWindow'
    BY <1>1, <2>1, WindowAssumption DEF IInv, LoneUnknownWindow, TypeOK, Settled
  <2>. QED
    BY <2>3, <2>4, <2>5, <2>6, <2>7 DEF IInv
<1>. QED
  BY <1>2, <1>3

\* The steps that only continue, show or switch.
LEMMA RevealContinuesIInv ==
    ASSUME IInv, Settled, NEW r \in waiting, RevealContinues(r)
    PROVE  IInv'
<1>1. r.what = "reveal" /\ r.window \in loaded \ Unmanaged
  BY DEF RevealContinues, IInv, PendingIsManaged
<1>2. CASE r.window \in open
  <2>1. DoReveal(r.window, open, waiting \ {r})
    BY <1>2 DEF RevealContinues, CanPresent
  <2>2. r.window \in Managed(open)
    BY <1>1, <1>2 DEF Managed, IsManaged
  <2>. QED
    BY <2>1, <2>2, DoRevealIInv DEF RevealContinues, env, IInv, TypeOK
<1>3. CASE r.window \notin open
  <2>1. /\ waiting' \subseteq waiting
        /\ UNCHANGED <<visible, full, presented, untilReady, hiddenAux, shown>>
        /\ UNCHANGED <<unopened, open, loaded, starting, quitting, singleFrame>>
    BY <1>3 DEF RevealContinues, CanPresent, env
  <2>. QED
    BY <2>1 DEF IInv, TypeOK, WindowsOpenOnce, PendingIsManaged,
                PresentedIsManaged, PresentedOnScreen, SomeWindowPresented,
                LoneUnknownWindow, UnmanagedVisible, Managed, IsManaged
<1>. QED
  BY <1>2, <1>3

LEMMA HideContinuesIInv ==
    ASSUME IInv, Settled, NEW r \in waiting, HideContinues(r)
    PROVE  IInv'
<1>1. /\ r.window \in loaded \ Unmanaged
      /\ waiting' \subseteq waiting
      /\ visible' \subseteq visible
      /\ visible \ visible' \subseteq {r.window} \ {presented}
      /\ UNCHANGED <<full, presented, untilReady, hiddenAux, shown>>
      /\ UNCHANGED <<unopened, open, loaded, starting, quitting, singleFrame>>
  BY DEF HideContinues, StillToHide, env, IInv, PendingIsManaged
<1>2. TypeOK' /\ WindowsOpenOnce' /\ PendingIsManaged' /\ UnmanagedVisible'
  BY <1>1 DEF IInv, TypeOK, WindowsOpenOnce, PendingIsManaged, UnmanagedVisible
<1>3. /\ PresentedIsManaged' /\ PresentedOnScreen'
      /\ SomeWindowPresented' /\ LoneUnknownWindow'
  BY <1>1 DEF IInv, PresentedIsManaged, PresentedOnScreen, SomeWindowPresented,
              LoneUnknownWindow, Managed, IsManaged
<1>. QED
  BY <1>2, <1>3 DEF IInv

\* Steps that neither present a window nor hide one.
LEMMA MoreVisibleIInv ==
    ASSUME IInv, Settled,
           UNCHANGED <<unopened, open, loaded, presented>>,
           untilReady' \subseteq untilReady, hiddenAux' \subseteq hiddenAux,
           visible \subseteq visible', visible' \subseteq open,
           full' \subseteq open, shown' \subseteq open,
           starting' \in BOOLEAN, quitting' \in BOOLEAN,
           singleFrame' \in BOOLEAN, singleFrame' => singleFrame,
           quitting' \/ ~quitting \/ ~singleFrame
             \/ Managed(open) = {} \/ presented # NoWindow,
           waiting' \subseteq waiting \cup {OpenWait(p) : p \in open}
    PROVE  IInv'
<1>1. \A p \in open : OpenWait(p) \in Wait /\ OpenWait(p).what = "open"
  BY DEF OpenWait, Wait, IInv, TypeOK
<1>2. TypeOK' /\ WindowsOpenOnce' /\ PendingIsManaged' /\ UnmanagedVisible'
  BY <1>1 DEF IInv, TypeOK, WindowsOpenOnce, PendingIsManaged, UnmanagedVisible
<1>3. /\ PresentedIsManaged' /\ PresentedOnScreen'
      /\ SomeWindowPresented' /\ LoneUnknownWindow'
  BY WindowAssumption
     DEF IInv, TypeOK, PresentedIsManaged, PresentedOnScreen,
         SomeWindowPresented, LoneUnknownWindow, Managed, IsManaged, Settled
<1>. QED
  BY <1>2, <1>3 DEF IInv

LEMMA WindowStepIInv ==
    ASSUME IInv, Settled, NEW w \in Window, WindowStep(w)
    PROVE  IInv'
<1>. USE DEF IInv, TypeOK
<1>0. singleFrame \in BOOLEAN /\ shown \subseteq open
  OBVIOUS
<1>1. CASE OnDidOpenWindow(w)
  BY <1>1, OpenIInv DEF OnDidOpenWindow
<1>2. CASE OnDidSignalReadyWindow(w)
  <2>1. w \in Managed(open)
    BY <1>2 DEF OnDidSignalReadyWindow, Managed, IsManaged, PendingIsManaged
  <2>. QED
    BY <1>0, <1>2, <2>1, RevealIInv DEF OnDidSignalReadyWindow, env
<1>3. CASE ReadyTimeout(w)
  <2>1. w \in Managed(open)
    BY <1>3 DEF ReadyTimeout, Managed, IsManaged, PendingIsManaged, Settled
  <2>. QED
    BY <1>0, <1>3, <2>1, RevealIInv DEF ReadyTimeout, TimerFires, env
<1>4. CASE OnDidCloseWindow(w)
  BY <1>4, CloseIInv
<1>5. CASE OnDidFocusWindow(w)
  <2>1. w \in Managed(open) /\ w \in visible
    BY <1>5 DEF OnDidFocusWindow, Managed
  <2>2. /\ UNCHANGED <<unopened, open, loaded, starting, quitting, singleFrame>>
        /\ shown' \subseteq open
    BY <1>0, <1>5 DEF OnDidFocusWindow, env
  <2>3. CASE ~singleFrame
    <3>1. /\ presented' = w
          /\ UNCHANGED <<visible, full, untilReady, hiddenAux, waiting>>
      BY <1>5, <2>3 DEF OnDidFocusWindow
    <3>2. TypeOK'
      BY <2>1, <2>2, <3>1 DEF Managed
    <3>3. /\ WindowsOpenOnce' /\ PendingIsManaged' /\ PresentedIsManaged'
          /\ PresentedOnScreen' /\ SomeWindowPresented' /\ LoneUnknownWindow'
          /\ UnmanagedVisible'
      BY <2>1, <2>2, <2>3, <3>1
         DEF WindowsOpenOnce, PendingIsManaged, PresentedIsManaged,
             PresentedOnScreen, SomeWindowPresented, LoneUnknownWindow,
             UnmanagedVisible, Managed, IsManaged
    <3>. QED
      BY <3>2, <3>3
  <2>4. CASE singleFrame /\ presented # w
    BY <1>0, <1>5, <2>1, <2>2, <2>4, RevealIInv DEF OnDidFocusWindow
  <2>5. CASE singleFrame /\ presented = w
    <3>1. UNCHANGED <<visible, full, presented, untilReady, hiddenAux, waiting>>
      BY <1>5, <2>5 DEF OnDidFocusWindow
    <3>. QED
      BY <2>2, <3>1, MoreVisibleIInv
  <2>. QED
    BY <1>0, <2>3, <2>4, <2>5
<1>6. CASE ShownByOthers(w)
  <2>1. /\ UNCHANGED <<unopened, open, loaded, starting, quitting, singleFrame>>
        /\ UNCHANGED <<full, presented, untilReady, hiddenAux, waiting>>
        /\ visible' = visible \cup {w} /\ shown' = shown \cup {w} /\ w \in open
    BY <1>6 DEF ShownByOthers, env
  <2>. QED
    BY <2>1, MoreVisibleIInv
<1>7. CASE OnDidShowWindow(w)
  <2>1. /\ UNCHANGED <<unopened, open, loaded, starting, quitting, singleFrame>>
        /\ shown' \subseteq open
        /\ w \in open
    BY <1>0, <1>7 DEF OnDidShowWindow, env
  <2>2. CASE TakesOver(w)
    <3>1. w \in Managed(open) /\ Reveal(w)
      BY <1>7, <2>1, <2>2 DEF OnDidShowWindow, TakesOver, Managed
    <3>. QED
      BY <1>0, <2>1, <3>1, RevealIInv
  <2>3. CASE ~TakesOver(w)
    <3>1. UNCHANGED <<visible, full, presented, untilReady, hiddenAux, waiting>>
      BY <1>7, <2>3 DEF OnDidShowWindow
    <3>. QED
      BY <2>1, <3>1, MoreVisibleIInv
  <2>. QED
    BY <2>2, <2>3
<1>8. CASE SwitchTo(w)
  <2>1. /\ UNCHANGED <<unopened, open, loaded, starting, quitting, singleFrame>>
        /\ w \in Managed(open) /\ w \in open
    BY <1>8 DEF SwitchTo, env, Managed
  <2>2. CASE singleFrame
    BY <1>0, <1>8, <2>1, <2>2, RevealIInv DEF SwitchTo
  <2>3. CASE ~singleFrame
    <3>1. /\ visible' = visible \cup {w} /\ shown' = shown \cup {w}
          /\ UNCHANGED <<full, presented, untilReady, hiddenAux, waiting>>
      BY <1>8, <2>3 DEF SwitchTo
    <3>. QED
      BY <2>1, <3>1, MoreVisibleIInv
  <2>. QED
    BY <2>2, <2>3
<1>9. CASE EnterFullScreen(w)
  <2>1. /\ UNCHANGED <<unopened, open, loaded, starting, quitting, singleFrame>>
        /\ UNCHANGED <<visible, shown, presented, untilReady, hiddenAux, waiting>>
        /\ full' = full \cup {w} /\ w \in visible
    BY <1>9 DEF EnterFullScreen, env
  <2>. QED
    BY <2>1, MoreVisibleIInv
<1>10. CASE DidLeaveFullScreen(w)
  <2>1. /\ UNCHANGED <<unopened, open, loaded, starting, quitting, singleFrame>>
        /\ UNCHANGED <<visible, shown, presented, untilReady, hiddenAux, waiting>>
        /\ full' = full \ {w}
    BY <1>10 DEF DidLeaveFullScreen, env
  <2>. QED
    BY <2>1, MoreVisibleIInv
<1>11. CASE EndStartup(w)
  <2>1. /\ UNCHANGED <<unopened, open, loaded, full, quitting, singleFrame,
                       presented, untilReady, hiddenAux, waiting>>
        /\ starting' = FALSE /\ w \in open
        /\ visible' = visible \cup {w} /\ shown' = shown \cup {w}
    BY <1>11 DEF EndStartup
  <2>. QED
    BY <2>1, MoreVisibleIInv
<1>. QED
  BY <1>1, <1>2, <1>3, <1>4, <1>5, <1>6, <1>7, <1>8, <1>9, <1>10, <1>11
     DEF WindowStep

LEMMA NextIInv == IInv /\ [Next]_vars => IInv'
<1>. SUFFICES ASSUME IInv, [Next]_vars PROVE IInv'
  OBVIOUS
<1>0. IInv => singleFrame \in BOOLEAN /\ shown \subseteq open
  BY DEF IInv, TypeOK
<1>1. CASE \E w \in Window : OnWillLoadWindow(w)
  BY <1>1, LoadIInv
<1>2. CASE Settled /\ \E w \in Window : WindowStep(w)
  BY <1>2, WindowStepIInv
<1>3. CASE Settled /\ \E r \in waiting : Continue(r)
  <2>1. PICK r \in waiting : Continue(r)
    BY <1>3
  <2>2. CASE \E w \in Window : OpenContinues(r, w)
    BY <1>3, <2>2, OpenIInv DEF OpenContinues
  <2>. QED
    BY <1>3, <2>1, <2>2, RevealContinuesIInv, HideContinuesIInv DEF Continue
<1>4. CASE Settled /\ SwitchToUnopened
  <2>1. /\ UNCHANGED <<unopened, open, loaded, starting, quitting, singleFrame>>
        /\ UNCHANGED <<visible, shown, presented, untilReady, hiddenAux>>
        /\ presented \in full
        /\ waiting' = waiting \cup {OpenWait(presented)}
        /\ full' \subseteq full
    BY <1>4 DEF SwitchToUnopened, LeaveFullScreen, env
  <2>2. presented \in open
    BY <2>1 DEF IInv, TypeOK
  <2>. QED
    BY <1>4, <2>1, <2>2, MoreVisibleIInv DEF IInv, TypeOK
<1>5. CASE Settled /\ RevealLastActive
  <2>1. UNCHANGED <<unopened, open, loaded, starting, quitting, singleFrame, shown>>
    BY <1>5 DEF RevealLastActive, env
  <2>2. PICK w \in Managed(open) : Reveal(w)
    BY <1>5 DEF RevealLastActive, Managed, IInv, TypeOK, PresentedIsManaged
  <2>. QED
    BY <1>0, <1>5, <2>1, <2>2, RevealIInv
<1>6. CASE Settled /\ GatherWindows
  <2>1. /\ UNCHANGED <<unopened, open, loaded, shown, starting, quitting>>
        /\ ~singleFrame /\ singleFrame' = TRUE
    BY <1>6 DEF GatherWindows
  <2>2. CASE \E w \in Managed(open) : presented \in {w, NoWindow} /\ Reveal(w)
    BY <1>0, <1>6, <2>1, <2>2, RevealIInv
  <2>3. CASE /\ presented = NoWindow /\ Managed(open) = {}
             /\ UNCHANGED <<visible, full, presented, untilReady, hiddenAux, waiting>>
    BY <2>1, <2>3, WindowAssumption
       DEF IInv, TypeOK, WindowsOpenOnce, PendingIsManaged, PresentedIsManaged,
           PresentedOnScreen, SomeWindowPresented, LoneUnknownWindow,
           UnmanagedVisible, Managed, IsManaged
  <2>. QED
    BY <1>6, <2>2, <2>3
       DEF GatherWindows, Managed, IInv, TypeOK, PresentedIsManaged
<1>7. CASE Settled /\ BringAllBack
  <2>1. /\ UNCHANGED <<unopened, open, loaded, full, shown, starting, quitting,
                       presented, waiting>>
        /\ singleFrame' = FALSE
        /\ untilReady' \subseteq untilReady
        /\ visible' = visible \cup Managed(open)
        /\ hiddenAux' \subseteq hiddenAux
    BY <1>7 DEF BringAllBack
  <2>. QED
    BY <1>7, <2>1, MoreVisibleIInv DEF IInv, TypeOK, Managed
<1>8. CASE Settled /\ (RequestQuit \/ VetoQuit)
  <2>1. /\ UNCHANGED <<unopened, open, loaded, visible, full, shown, starting,
                       singleFrame, presented, untilReady, hiddenAux, waiting>>
        /\ quitting' \in BOOLEAN
        /\ \/ quitting'
           \/ singleFrame /\ Managed(open) # {} => presented # NoWindow
    BY <1>8 DEF RequestQuit, VetoQuit
  <2>. QED
    BY <1>8, <2>1, MoreVisibleIInv DEF IInv, TypeOK
<1>9. CASE UNCHANGED vars
  BY <1>9 DEF vars, IInv, TypeOK, WindowsOpenOnce, PendingIsManaged,
              PresentedIsManaged, PresentedOnScreen, SomeWindowPresented,
              LoneUnknownWindow, UnmanagedVisible, Managed, IsManaged
<1>. QED
  BY <1>1, <1>2, <1>3, <1>4, <1>5, <1>6, <1>7, <1>8, <1>9 DEF Next

LEMMA Invariance == Spec => []IInv
BY InitIInv, NextIInv, PTL DEF Spec

-----------------------------------------------------------------------------
(* One window is visible                                                    *)

\* In single frame mode another window one can see is on its way: its hiding or its
\* own reveal waits for fullscreen, or the event of its showing is not delivered.
IsLeaving(o) == o \in shown \/ \E r \in waiting : r.what \in {"hide", "reveal"} /\ r.window = o
OthersAreLeaving == singleFrame => \A o \in Managed(visible) \ {presented} : IsLeaving(o)

\* doReveal hides the other windows, or waits to.
LEMMA DoRevealLeaves ==
    ASSUME NEW around, NEW w, NEW rest, DoReveal(w, around, rest), loaded' = loaded
    PROVE  OthersAreLeaving'
<1> SUFFICES ASSUME NEW o \in Managed(visible)' \ {w} PROVE IsLeaving(o)'
  BY DEF DoReveal, OthersAreLeaving
<1> DEFINE others == OthersToHide(w, around)
<1>1. o \in visible' /\ IsManaged(o)
  BY DEF Managed, IsManaged
<1>2. o \in visible \cap around /\ o \notin others \ full
  BY <1>1 DEF DoReveal
<1>3. o \in others \cap full
  BY <1>1, <1>2 DEF OthersToHide, Managed
<1>4. HideWait(o) \in waiting'
  BY <1>3 DEF DoReveal
<1>5. HideWait(o).what = "hide" /\ HideWait(o).window = o
  BY DEF HideWait
<1>6. QED
  BY <1>4, <1>5 DEF IsLeaving

\* A reveal that waits is on its way itself; it changes nothing else.
LEMMA RevealLeaves ==
    ASSUME NEW w, Reveal(w), UNCHANGED loaded,
           singleFrame' => (OthersAreLeaving /\ singleFrame) \/ presented \in {w, NoWindow},
           shown \ {w} \subseteq shown'
    PROVE  OthersAreLeaving'
<1>1. CASE presented \notin {w, NoWindow} /\ presented \in full
  <2>1. UNCHANGED <<visible, presented>> /\ waiting' = waiting \cup {RevealWait(w, presented)}
    BY <1>1 DEF Reveal
  <2>2. RevealWait(w, presented).what = "reveal" /\ RevealWait(w, presented).window = w
    BY DEF RevealWait
  <2>3. IsLeaving(w)'
    BY <2>1, <2>2 DEF IsLeaving
  <2>4. \A o : o # w /\ IsLeaving(o) => IsLeaving(o)'
    BY <2>1 DEF IsLeaving
  <2>5. Managed(visible)' = Managed(visible)
    BY <2>1 DEF Managed, IsManaged
  <2>6. QED
    BY <1>1, <2>1, <2>3, <2>4, <2>5 DEF OthersAreLeaving
<1>2. CASE ~(presented \notin {w, NoWindow} /\ presented \in full)
  BY <1>2, DoRevealLeaves DEF Reveal
<1>3. QED
  BY <1>1, <1>2

\* A step that shows nothing but with its event, and takes back no wait but one that
\* has lost its window.
LEMMA StaysLeaving ==
    ASSUME OthersAreLeaving, singleFrame' => singleFrame, loaded \subseteq loaded',
           \A o \in (Managed(visible) \ {presented})' :
              o \in visible \ {presented} /\ IsLeaving(o) => IsLeaving(o)',
           \A o \in (Managed(visible) \ {presented})' :
              o \in visible \ {presented} \/ IsLeaving(o)'
    PROVE  OthersAreLeaving'
<1> SUFFICES ASSUME singleFrame', NEW o \in (Managed(visible) \ {presented})' PROVE IsLeaving(o)'
  BY DEF OthersAreLeaving
<1>1. o \in visible => o \in Managed(visible)
  BY DEF Managed, IsManaged
<1>2. QED
  BY <1>1 DEF OthersAreLeaving

LEMMA NextLeaves ==
    ASSUME IInv, OthersAreLeaving, [Next]_vars
    PROVE  OthersAreLeaving'
<1>0. /\ singleFrame \in BOOLEAN /\ presented \in open \cup {NoWindow}
      /\ visible \subseteq open /\ waiting \subseteq Wait /\ NoWindow \notin open
  BY WindowAssumption DEF IInv, TypeOK, WindowsOpenOnce
<1> USE DEF env
<1>1. ASSUME NEW w \in Window, OnWillLoadWindow(w)
      PROVE  OthersAreLeaving'
  <2>1. loaded' = loaded \cup {w} /\ UNCHANGED <<singleFrame, shown, waiting>>
    BY <1>1 DEF OnWillLoadWindow
  <2>2. \A o : IsLeaving(o) => IsLeaving(o)'
    BY <2>1 DEF IsLeaving
  <2>3. \A o \in (Managed(visible) \ {presented})' : o \in visible \ {presented}
    <3>1. CASE w \in Unmanaged
      <4>1. presented' = (IF presented = w THEN NoWindow ELSE presented) /\ visible' = visible \cup {w}
        BY <1>1, <3>1 DEF OnWillLoadWindow, PresentedAfterRelease
      <4>2. w \notin Managed(visible)'
        BY <2>1, <3>1 DEF Managed, IsManaged
      <4>3. QED
        BY <4>1, <4>2 DEF Managed
    <3>2. CASE w \notin Unmanaged
      BY <1>1, <3>2 DEF OnWillLoadWindow, Managed
    <3>3. QED
      BY <3>1, <3>2
  <2>4. QED
    BY <2>1, <2>2, <2>3, StaysLeaving
<1>2. ASSUME NEW w \in Window, NEW fs \in BOOLEAN, NEW rest, OpenWindow(w, fs, rest),
             \A r \in waiting \ rest : r.what = "open"
      PROVE  OthersAreLeaving'
  <2>1. UNCHANGED <<singleFrame, shown, loaded, starting>>
    BY <1>2 DEF OpenWindow
  <2>2. rest \subseteq waiting'
    BY <1>2 DEF OpenWindow
  <2>3. \A o : IsLeaving(o) => IsLeaving(o)'
    BY <1>2, <2>1, <2>2 DEF IsLeaving
  <2>4. \A o \in (Managed(visible) \ {presented})' :
            singleFrame => o \in visible \ {presented} \/ IsLeaving(o)'
    <3> SUFFICES ASSUME singleFrame, NEW o \in visible' \ {presented'}
                 PROVE  o \in visible \ {presented} \/ IsLeaving(o)'
      BY DEF Managed
    <3>1. CASE starting /\ presented # NoWindow
      <4> DEFINE hides == {presented} \cap visible
      <4>1. /\ visible' = (visible \cup {w}) \ (hides \ full) /\ presented' = w
            /\ waiting' = rest \cup {HideWait(p) : p \in hides \cap full}
        BY <1>2, <3>1 DEF OpenWindow
      <4>2. CASE o = presented
        <5>1. o \in hides \cap full
          BY <4>1, <4>2
        <5>2. HideWait(o) \in waiting' /\ HideWait(o).what = "hide" /\ HideWait(o).window = o
          BY <4>1, <5>1 DEF HideWait
        <5>3. QED
          BY <5>2 DEF IsLeaving
      <4>3. QED
        BY <4>1, <4>2
    <3>2. CASE ~starting /\ presented # NoWindow
      <4>1. visible' = visible /\ presented' = presented
        BY <1>2, <3>2 DEF OpenWindow
      <4>2. QED
        BY <4>1
    <3>3. CASE presented = NoWindow
      <4>1. visible' = visible \cup {w} /\ presented' = w
        BY <1>2, <3>3 DEF OpenWindow
      <4>2. QED
        BY <1>0, <3>3, <4>1
    <3>4. QED
      BY <3>1, <3>2, <3>3
  <2>5. CASE singleFrame
    BY <2>1, <2>3, <2>4, <2>5, StaysLeaving
  <2>6. CASE ~singleFrame
    BY <2>1, <2>6 DEF OthersAreLeaving
  <2>7. QED
    BY <2>5, <2>6
<1>3. ASSUME NEW w \in Window, WindowStep(w)
      PROVE  OthersAreLeaving'
  <2>1. CASE OnDidOpenWindow(w)
    BY <1>2, <2>1 DEF OnDidOpenWindow
  <2>2. CASE OnDidSignalReadyWindow(w) \/ ReadyTimeout(w)
    <3>1. Reveal(w) /\ UNCHANGED <<loaded, shown, singleFrame>>
      BY <2>2 DEF OnDidSignalReadyWindow, ReadyTimeout, TimerFires
    <3>2. QED
      BY <1>0, <3>1, RevealLeaves
  <2>3. CASE OnDidCloseWindow(w)
    <3>1. CASE \E next \in Managed(open \ {w}) : DoReveal(next, open \ {w}, waiting)
      BY <2>3, <3>1, DoRevealLeaves DEF OnDidCloseWindow
    <3>2. CASE ~\E next \in Managed(open \ {w}) : DoReveal(next, open \ {w}, waiting)
      <4>1. /\ presented' = (IF presented = w THEN NoWindow ELSE presented)
            /\ visible' = visible \ {w} /\ shown' = shown \ {w}
            /\ UNCHANGED <<waiting, loaded, singleFrame>>
        BY <2>3, <3>2 DEF OnDidCloseWindow
      <4>2. \A o : o # w /\ IsLeaving(o) => IsLeaving(o)'
        BY <4>1 DEF IsLeaving
      <4>3. \A o \in (Managed(visible) \ {presented})' : o \in visible \ {presented} /\ o # w
        BY <4>1 DEF Managed
      <4>4. QED
        BY <4>1, <4>2, <4>3, StaysLeaving
    <3>3. QED
      BY <3>1, <3>2
  <2>4. CASE OnDidFocusWindow(w) \/ OnDidShowWindow(w)
    <3>1. UNCHANGED <<loaded, singleFrame>> /\ shown' = shown \ {w}
      BY <2>4 DEF OnDidFocusWindow, OnDidShowWindow
    <3>2. CASE Reveal(w)
      BY <1>0, <3>1, <3>2, RevealLeaves
    <3>3. CASE ~Reveal(w) /\ singleFrame
      <4>1. /\ UNCHANGED <<visible, presented, waiting>>
            /\ presented = w \/ ~IsManaged(w) \/ w \notin visible
        BY <2>4, <3>3 DEF OnDidFocusWindow, OnDidShowWindow, TakesOver
      <4>2. \A o : o # w /\ IsLeaving(o) => IsLeaving(o)'
        BY <3>1, <4>1 DEF IsLeaving
      <4>3. \A o \in (Managed(visible) \ {presented})' : o \in visible \ {presented} /\ o # w
        <5>1. (Managed(visible) \ {presented})' = Managed(visible) \ {presented}
          BY <3>1, <4>1 DEF Managed, IsManaged
        <5>2. w \notin Managed(visible) \ {presented}
          BY <4>1 DEF Managed
        <5>3. Managed(visible) \subseteq visible
          BY DEF Managed
        <5>4. QED
          BY <5>1, <5>2, <5>3
      <4>4. QED
        BY <3>1, <4>2, <4>3, StaysLeaving
    <3>4. CASE ~singleFrame
      BY <3>1, <3>4 DEF OthersAreLeaving
    <3>5. QED
      BY <3>2, <3>3, <3>4
  <2>5. CASE SwitchTo(w) /\ singleFrame
    BY <1>0, <2>5, RevealLeaves DEF SwitchTo
  <2>6. CASE SwitchTo(w) /\ ~singleFrame
    BY <2>6 DEF SwitchTo, OthersAreLeaving
  <2>7. CASE ShownByOthers(w) \/ EndStartup(w)
    <3>1. /\ UNCHANGED <<loaded, singleFrame, presented, waiting>>
          /\ visible' = visible \cup {w} /\ shown' = shown \cup {w}
      BY <2>7 DEF ShownByOthers, EndStartup
    <3>2. IsLeaving(w)' /\ \A o : IsLeaving(o) => IsLeaving(o)'
      BY <3>1 DEF IsLeaving
    <3>3. \A o \in (Managed(visible) \ {presented})' : o \in visible \ {presented} \/ o = w
      BY <3>1 DEF Managed
    <3>4. QED
      BY <3>1, <3>2, <3>3, StaysLeaving
  <2>8. CASE EnterFullScreen(w) \/ DidLeaveFullScreen(w)
    <3>1. UNCHANGED <<loaded, singleFrame, presented, waiting, visible, shown>>
      BY <2>8 DEF EnterFullScreen, DidLeaveFullScreen
    <3>2. QED
      BY <3>1 DEF OthersAreLeaving, IsLeaving, Managed, IsManaged
  <2>9. QED
    BY <1>3, <2>1, <2>2, <2>3, <2>4, <2>5, <2>6, <2>7, <2>8, <1>0 DEF WindowStep
<1>4. ASSUME NEW r \in waiting, Continue(r)
      PROVE  OthersAreLeaving'
  <2>1. CASE RevealContinues(r)
    <3>1. CASE CanPresent(r.window)
      BY <2>1, <3>1, DoRevealLeaves DEF RevealContinues
    <3>2. CASE ~CanPresent(r.window)
      <4>1. waiting' = waiting \ {r} /\ UNCHANGED <<visible, presented, shown, loaded, singleFrame>>
        BY <2>1, <3>2 DEF RevealContinues
      <4>2. r.window \notin visible
        BY <1>0, <3>2 DEF CanPresent
      <4>3. \A o : o # r.window /\ IsLeaving(o) => IsLeaving(o)'
        BY <4>1 DEF IsLeaving
      <4>4. \A o \in (Managed(visible) \ {presented})' : o \in visible \ {presented} /\ o # r.window
        BY <4>1, <4>2 DEF Managed
      <4>5. QED
        BY <4>1, <4>3, <4>4, StaysLeaving
    <3>3. QED
      BY <3>1, <3>2
  <2>2. CASE HideContinues(r)
    <3>1. /\ waiting' = waiting \ {r} /\ UNCHANGED <<presented, shown, loaded, singleFrame>>
          /\ visible' \subseteq visible
          /\ r.window \in visible' => r.window = presented
      BY <2>2 DEF HideContinues, StillToHide
    <3>2. \A o : o # r.window /\ IsLeaving(o) => IsLeaving(o)'
      BY <3>1 DEF IsLeaving
    <3>3. \A o \in (Managed(visible) \ {presented})' : o \in visible \ {presented} /\ o # r.window
      BY <3>1 DEF Managed
    <3>4. QED
      BY <3>1, <3>2, <3>3, StaysLeaving
  <2>3. CASE \E w \in Window : OpenContinues(r, w)
    <3>1. PICK w \in Window, fs \in BOOLEAN : OpenWindow(w, fs, waiting \ {r})
      BY <2>3 DEF OpenContinues
    <3>2. r.what = "open"
      BY <2>3 DEF OpenContinues
    <3>3. QED
      BY <1>2, <3>1, <3>2
  <2>4. QED
    BY <1>4, <2>1, <2>2, <2>3 DEF Continue
<1>5. CASE RevealLastActive
  <2>1. PICK w : Reveal(w)
    BY <1>5 DEF RevealLastActive
  <2>2. UNCHANGED <<loaded, singleFrame, shown>>
    BY <1>5 DEF RevealLastActive
  <2>3. QED
    BY <1>0, <2>1, <2>2, RevealLeaves
<1>6. CASE GatherWindows
  <2>1. CASE \E w : presented \in {w, NoWindow} /\ Reveal(w)
    BY <1>6, <2>1, RevealLeaves DEF GatherWindows
  <2>2. CASE Managed(open) = {} /\ UNCHANGED <<visible, loaded>>
    BY <1>0, <2>2 DEF OthersAreLeaving, Managed, IsManaged
  <2>3. QED
    BY <1>6, <2>1, <2>2 DEF GatherWindows
<1>7. CASE SwitchToUnopened
  <2>1. UNCHANGED <<loaded, singleFrame, presented, visible, shown>> /\ waiting \subseteq waiting'
    BY <1>7 DEF SwitchToUnopened
  <2>2. QED
    BY <2>1 DEF OthersAreLeaving, IsLeaving, Managed, IsManaged
<1>8. CASE BringAllBack
  BY <1>8 DEF BringAllBack, OthersAreLeaving
<1>9. CASE RequestQuit \/ VetoQuit \/ UNCHANGED vars
  <2>1. UNCHANGED <<loaded, singleFrame, presented, waiting, visible, shown>>
    BY <1>9 DEF RequestQuit, VetoQuit, vars
  <2>2. QED
    BY <2>1 DEF OthersAreLeaving, IsLeaving, Managed, IsManaged
<1>10. QED
  BY <1>1, <1>3, <1>4, <1>5, <1>6, <1>7, <1>8, <1>9 DEF Next

-----------------------------------------------------------------------------
\* The state of the service is well typed: in particular presentedWindowId,
\* the timers and the auxiliary windows name windows that are open.
THEOREM TypeCorrect == Spec => []TypeOK
<1>1. IInv => TypeOK
  BY DEF IInv
<1>. QED
  BY <1>1, Invariance, PTL

\* isManaged: windows for extension development, tests and agent sessions are
\* never presented in the frame.
THEOREM OnlyManagedPresented == Spec => []PresentedIsManaged
<1>1. IInv => PresentedIsManaged
  BY DEF IInv
<1>. QED
  BY <1>1, Invariance, PTL

\* doReveal, onDidCloseWindow, release: unless the application quits, a managed
\* window is presented and on screen for as long as there is one.
THEOREM UserAlwaysHasWindow == Spec => []NeverWithoutWindow
<1>1. IInv => NeverWithoutWindow
  BY WindowAssumption
     DEF IInv, TypeOK, NeverWithoutWindow, SomeWindowPresented,
         PresentedOnScreen, PresentedIsManaged, Managed
<1>. QED
  BY <1>1, Invariance, PTL

\* hide, release: a window known not to be managed is never hidden.
THEOREM UnmanagedNeverHidden == Spec => []UnmanagedStaysVisible
<1>1. IInv => UnmanagedStaysVisible
  BY DEF IInv, UnmanagedVisible, UnmanagedStaysVisible, Settled, Managed, IsManaged
<1>. QED
  BY <1>1, Invariance, PTL
\* doReveal, hide, onDidShowWindow: once every wait is over and every event is delivered
\* one managed window at most is visible, the presented one.
THEOREM OneVisibleHolds == Spec => []OneVisible
<1>1. Init => OthersAreLeaving
  BY DEF Init, OthersAreLeaving, Managed
<1>2. IInv /\ OthersAreLeaving /\ [Next]_vars => OthersAreLeaving'
  BY NextLeaves
<1>3. OthersAreLeaving => OneVisible
  BY DEF OthersAreLeaving, OneVisible, IsLeaving
<1>. QED
  BY <1>1, <1>2, <1>3, Invariance, PTL DEF Spec
-----------------------------------------------------------------------------
(* Timers and auxiliary windows follow their window                         *)

\* The presented window has no timer and, in single frame mode, its auxiliary windows;
\* timers are for single frame mode, and what is hidden belongs to managed windows.
Follows ==
    /\ NoStaleTimer
    /\ AuxiliaryWindowsFollow
    /\ untilReady # {} => singleFrame
    /\ presented \notin untilReady
    /\ singleFrame => presented \notin hiddenAux
    /\ hiddenAux \cap loaded \cap Unmanaged = {}

\* doReveal hides the windows whose auxiliary windows it hides, or waits to.
LEMMA DoRevealFollows ==
    ASSUME IInv, Follows, NEW around \in SUBSET open, NEW w \in Managed(around),
           NEW rest \in SUBSET waiting,
           \A r \in waiting \ rest : r.what = "reveal" => r.window = w,
           DoReveal(w, around, rest), UNCHANGED loaded,
           (shown \cap around) \ {w} \subseteq shown',
           untilReady # {} => singleFrame'
    PROVE  Follows'
<1>. DEFINE others == OthersToHide(w, around)
            slow   == others \cap full
<1>1. /\ presented' = w
      /\ untilReady' = (untilReady \cap around) \ {w}
      /\ visible' = ((visible \cap around) \cup {w}) \ (others \ slow)
      /\ hiddenAux' = ((hiddenAux \cap around) \cup (others \cap WithAux)) \ {w}
      /\ waiting' = rest \cup {HideWait(o) : o \in slow}
  BY DEF DoReveal, TimersLeft, AuxHidden
<1>2. \A o : o \in others <=> o \in visible \cap around /\ IsManaged(o) /\ o # w
  BY DEF OthersToHide, Managed
<1>3. NoStaleTimer'
  <2> SUFFICES ASSUME NEW x \in untilReady', x \in visible'
               PROVE  x \in shown' \/ \E r \in waiting' : r.what = "reveal" /\ r.window = x
    BY DEF NoStaleTimer
  <2>1. x \in untilReady /\ x \in visible /\ x \in around /\ x # w
    BY <1>1
  <2>2. CASE x \in shown
    BY <2>1, <2>2
  <2>3. ASSUME NEW r \in waiting, r.what = "reveal", r.window = x
        PROVE  r \in rest
    BY <2>1, <2>3
  <2>. QED
    BY <1>1, <2>1, <2>2, <2>3 DEF Follows, NoStaleTimer
<1>4. hiddenAux' \cap loaded' \cap Unmanaged = {}
  BY <1>1, <1>2 DEF Follows, IsManaged
<1>5. AuxiliaryWindowsFollow'
  <2> SUFFICES ASSUME NEW x \in hiddenAux' \cap visible'
               PROVE  \E r \in waiting' : r.window = x
    BY DEF AuxiliaryWindowsFollow
  <2>1. x \in visible \cap around /\ x # w /\ IsManaged(x)
    BY <1>1, <1>4 DEF IsManaged
  <2>2. x \in slow
    BY <1>1, <1>2, <2>1
  <2>3. HideWait(x) \in waiting' /\ HideWait(x).window = x
    BY <1>1, <2>2 DEF HideWait
  <2>. QED
    BY <2>3
<1>. QED
  BY <1>1, <1>3, <1>4, <1>5 DEF Follows

\* reveal, in single frame mode or on the way to it.
LEMMA RevealFollows ==
    ASSUME IInv, Follows, NEW w \in Managed(open), Reveal(w),
           UNCHANGED <<open, loaded>>,
           shown \ {w} \subseteq shown', singleFrame',
           singleFrame \/ presented \in {w, NoWindow}
    PROVE  Follows'
<1>1. CASE presented \notin {w, NoWindow} /\ presented \in full
  <2>1. UNCHANGED <<visible, presented, untilReady, hiddenAux>>
        /\ waiting' = waiting \cup {RevealWait(w, presented)}
    BY <1>1 DEF Reveal
  <2>2. RevealWait(w, presented).what = "reveal" /\ RevealWait(w, presented).window = w
    BY DEF RevealWait
  <2>3. NoStaleTimer'
    BY <2>1, <2>2 DEF Follows, NoStaleTimer
  <2>4. AuxiliaryWindowsFollow'
    BY <1>1, <2>1, <2>2 DEF Follows, AuxiliaryWindowsFollow
  <2>. QED
    BY <1>1, <2>1, <2>3, <2>4 DEF Follows
<1>2. CASE ~(presented \notin {w, NoWindow} /\ presented \in full)
  <2>1. DoReveal(w, open, waiting)
    BY <1>2 DEF Reveal
  <2>. QED
    BY <2>1, DoRevealFollows
<1>. QED
  BY <1>1, <1>2

\* Steps that present nothing, hide no auxiliary windows and show a window only with
\* the event of it: the waits of a window with something hidden go on.
LEMMA StaysFollowing ==
    ASSUME Follows, UNCHANGED <<loaded, presented>>,
           untilReady' \subseteq untilReady, hiddenAux' \subseteq hiddenAux,
           singleFrame' => singleFrame,
           untilReady' # {} => singleFrame',
           \A x \in untilReady' \cup hiddenAux' : x \in visible' =>
              x \in visible \/ x \in shown' \/ ~singleFrame',
           \A x \in untilReady' \cup hiddenAux' :
              x \in visible' /\ x \in shown => x \in shown' \/ ~singleFrame',
           \A x \in untilReady' \cup hiddenAux', r \in waiting :
              x \in visible' /\ r.window = x => r \in waiting'
    PROVE  Follows'
<1>1. NoStaleTimer'
  BY DEF Follows, NoStaleTimer
<1>2. AuxiliaryWindowsFollow'
  BY DEF Follows, AuxiliaryWindowsFollow
<1>. QED
  BY <1>1, <1>2 DEF Follows

\* onDidOpenWindow: the window it replaces is hidden with its auxiliary windows, or waits.
LEMMA OpenFollows ==
    ASSUME IInv, Follows, NEW w \in Window, NEW fs \in BOOLEAN, NEW rest \in SUBSET waiting,
           \A r \in waiting \ rest : r.window = NoWindow, OpenWindow(w, fs, rest)
    PROVE  Follows'
<1>. DEFINE hides == {presented} \cap visible
            replaced == singleFrame /\ starting /\ presented # NoWindow
<1>1. /\ w \notin open /\ w \notin loaded /\ w # NoWindow /\ NoWindow \notin open
      /\ w \notin untilReady /\ w \notin hiddenAux /\ w \notin visible
      /\ untilReady \subseteq open /\ hiddenAux \subseteq open /\ presented # w
      /\ UNCHANGED <<loaded, shown, starting, singleFrame>>
  BY WindowAssumption DEF OpenWindow, IInv, TypeOK, WindowsOpenOnce
<1>2. /\ presented' = IF singleFrame /\ (starting \/ presented = NoWindow)
                      THEN w ELSE presented
      /\ untilReady' = IF singleFrame /\ ~starting /\ presented # NoWindow
                       THEN untilReady \cup {w} ELSE untilReady
  BY DEF OpenWindow
<1>3. CASE replaced
  <2>1. /\ visible' = (visible \cup {w}) \ (hides \ full)
        /\ waiting' = rest \cup {HideWait(o) : o \in hides \cap full}
        /\ hiddenAux' = hiddenAux \cup (hides \cap WithAux)
    BY <1>3 DEF OpenWindow
  <2>2. rest \subseteq waiting' /\ untilReady' = untilReady /\ presented' = w
    BY <1>2, <1>3, <2>1
  <2>3. NoStaleTimer'
    <3> SUFFICES ASSUME NEW x \in untilReady', x \in visible'
                 PROVE  x \in shown' \/ \E r \in waiting' : r.what = "reveal" /\ r.window = x
      BY DEF NoStaleTimer
    <3>1. x \in untilReady /\ x \in visible /\ x # NoWindow
      BY <1>1, <2>1, <2>2
    <3>. QED
      BY <1>1, <2>2, <3>1 DEF Follows, NoStaleTimer
  <2>4. AuxiliaryWindowsFollow'
    <3> SUFFICES ASSUME NEW x \in hiddenAux' \cap visible'
                 PROVE  x \in shown' \/ \E r \in waiting' : r.window = x
      BY DEF AuxiliaryWindowsFollow
    <3>1. CASE x \in hiddenAux
      <4>1. x \in visible /\ x # NoWindow
        BY <1>1, <2>1, <3>1
      <4>. QED
        BY <1>1, <1>3, <2>2, <3>1, <4>1 DEF Follows, AuxiliaryWindowsFollow
    <3>2. CASE x \notin hiddenAux
      <4>1. x \in hides \cap full
        BY <1>1, <2>1, <3>2
      <4>2. HideWait(x) \in waiting' /\ HideWait(x).window = x
        BY <2>1, <4>1 DEF HideWait
      <4>. QED
        BY <4>2
    <3>. QED
      BY <3>1, <3>2
  <2>5. hiddenAux' \cap loaded' \cap Unmanaged = {} /\ w \notin hiddenAux'
    BY <1>1, <1>3, <2>1 DEF Follows, IInv, PresentedIsManaged, IsManaged
  <2>. QED
    BY <1>1, <1>3, <2>2, <2>3, <2>4, <2>5 DEF Follows
<1>4. CASE ~replaced
  <2>1. /\ visible' = IF singleFrame /\ presented # NoWindow THEN visible ELSE visible \cup {w}
        /\ waiting' = rest /\ hiddenAux' = hiddenAux
    BY <1>4 DEF OpenWindow
  <2>2. NoStaleTimer'
    <3> SUFFICES ASSUME NEW x \in untilReady', x \in visible'
                 PROVE  x \in shown' \/ \E r \in waiting' : r.what = "reveal" /\ r.window = x
      BY DEF NoStaleTimer
    <3>1. x \in untilReady /\ x \in visible /\ x # NoWindow
      BY <1>1, <1>2, <2>1
    <3>. QED
      BY <1>1, <2>1, <3>1 DEF Follows, NoStaleTimer
  <2>3. AuxiliaryWindowsFollow'
    <3> SUFFICES ASSUME singleFrame, NEW x \in hiddenAux, x \in visible'
                 PROVE  x \in shown \/ \E r \in rest : r.window = x
      BY <1>1, <2>1 DEF AuxiliaryWindowsFollow
    <3>1. x \in visible /\ x # NoWindow
      BY <1>1, <2>1
    <3>. QED
      BY <3>1 DEF Follows, AuxiliaryWindowsFollow
  <2>. QED
    BY <1>1, <1>2, <1>4, <2>1, <2>2, <2>3 DEF Follows
<1>. QED
  BY <1>3, <1>4

LEMMA NextFollows ==
    ASSUME IInv, Follows, [Next]_vars
    PROVE  Follows'
<1>0. /\ singleFrame \in BOOLEAN /\ presented \in open \cup {NoWindow}
      /\ visible \subseteq open /\ untilReady \subseteq open /\ hiddenAux \subseteq open
      /\ waiting \subseteq Wait /\ NoWindow \notin open /\ open \subseteq Window
  BY WindowAssumption DEF IInv, TypeOK, WindowsOpenOnce
<1>. USE DEF env
<1>1. ASSUME NEW w \in Window, OnWillLoadWindow(w)
      PROVE  Follows'
  <2>1. loaded' = loaded \cup {w} /\ UNCHANGED <<singleFrame, shown, waiting>>
    BY <1>1 DEF OnWillLoadWindow
  <2>2. CASE w \in Unmanaged
    <3>1. /\ untilReady' = untilReady \ {w} /\ visible' = visible \cup {w}
          /\ presented' = IF presented = w THEN NoWindow ELSE presented
          /\ hiddenAux' = hiddenAux \ {w}
      BY <1>1, <2>2 DEF OnWillLoadWindow, PresentedAfterRelease
    <3>2. NoStaleTimer' /\ AuxiliaryWindowsFollow'
      BY <2>1, <3>1 DEF Follows, NoStaleTimer, AuxiliaryWindowsFollow
    <3>. QED
      BY <1>0, <2>1, <3>1, <3>2 DEF Follows
  <2>3. CASE w \notin Unmanaged
    <3>1. UNCHANGED <<untilReady, presented, visible, hiddenAux>>
      BY <1>1, <2>3 DEF OnWillLoadWindow
    <3>. QED
      BY <2>1, <2>3, <3>1 DEF Follows, NoStaleTimer, AuxiliaryWindowsFollow
  <2>. QED
    BY <2>2, <2>3
<1>2. ASSUME NEW w \in Window, Settled,
             OnDidSignalReadyWindow(w) \/ ReadyTimeout(w)
      PROVE  Follows'
  <2>1. /\ w \in untilReady /\ Reveal(w)
        /\ UNCHANGED <<open, loaded, singleFrame, shown>>
    BY <1>2 DEF OnDidSignalReadyWindow, ReadyTimeout, TimerFires
  <2>2. singleFrame /\ w \in Managed(open)
    BY <1>0, <1>2, <2>1 DEF Follows, IInv, PendingIsManaged, Managed, IsManaged
  <2>. QED
    BY <2>1, <2>2, RevealFollows
<1>3. ASSUME NEW w \in Window, OnDidCloseWindow(w)
      PROVE  Follows'
  <2>. DEFINE around == open \ {w}
  <2>1. shown' = shown \ {w} /\ UNCHANGED <<loaded, singleFrame>>
    BY <1>3 DEF OnDidCloseWindow
  <2>2. CASE NeedsNext(w) /\ Managed(around) # {}
    <3>1. PICK next \in Managed(around) : DoReveal(next, around, waiting)
      BY <1>3, <2>2 DEF OnDidCloseWindow
    <3>2. around \in SUBSET open /\ (shown \cap around) \ {next} \subseteq shown'
          /\ (untilReady # {} => singleFrame')
      BY <2>1 DEF Follows
    <3>. QED
      BY <2>1, <3>1, <3>2, DoRevealFollows
  <2>3. CASE ~(NeedsNext(w) /\ Managed(around) # {})
    <3>1. /\ presented' = IF presented = w THEN NoWindow ELSE presented
          /\ untilReady' = untilReady \ {w} /\ visible' = visible \ {w}
          /\ hiddenAux' = hiddenAux \ {w} /\ waiting' = waiting
      BY <1>3, <2>3 DEF OnDidCloseWindow
    <3>2. NoStaleTimer' /\ AuxiliaryWindowsFollow'
      BY <2>1, <3>1 DEF Follows, NoStaleTimer, AuxiliaryWindowsFollow
    <3>. QED
      BY <1>0, <2>1, <3>1, <3>2 DEF Follows
  <2>. QED
    BY <2>2, <2>3
<1>4. ASSUME NEW w \in Window, OnDidFocusWindow(w)
      PROVE  Follows'
  <2>1. /\ w \in Managed(open) /\ w \in open /\ shown' = shown \ {w}
        /\ UNCHANGED <<open, loaded, singleFrame>>
    BY <1>0, <1>4 DEF OnDidFocusWindow, Managed
  <2>2. CASE ~singleFrame
    <3>1. presented' = w /\ UNCHANGED <<visible, untilReady, hiddenAux, waiting>>
      BY <1>4, <2>2 DEF OnDidFocusWindow
    <3>. QED
      BY <2>1, <2>2, <3>1 DEF Follows, NoStaleTimer, AuxiliaryWindowsFollow
  <2>3. CASE singleFrame /\ presented # w
    <3>1. Reveal(w)
      BY <1>4, <2>3 DEF OnDidFocusWindow
    <3>. QED
      BY <2>1, <2>3, <3>1, RevealFollows
  <2>4. CASE singleFrame /\ presented = w
    <3>1. UNCHANGED <<visible, presented, untilReady, hiddenAux, waiting>>
      BY <1>4, <2>4 DEF OnDidFocusWindow
    <3>2. w \notin untilReady \cup hiddenAux
      BY <2>4 DEF Follows
    <3>. QED
      BY <2>1, <2>4, <3>1, <3>2, StaysFollowing
  <2>. QED
    BY <1>0, <2>2, <2>3, <2>4
<1>5. ASSUME NEW w \in Window,
             \/ ShownByOthers(w)
             \/ EndStartup(w)
             \/ SwitchTo(w) /\ ~singleFrame
      PROVE  Follows'
  <2>1. /\ visible' = visible \cup {w} /\ shown' = shown \cup {w}
        /\ UNCHANGED <<loaded, singleFrame, presented, untilReady, hiddenAux, waiting>>
    BY <1>5 DEF ShownByOthers, EndStartup, SwitchTo
  <2>. QED
    BY <2>1, StaysFollowing DEF Follows
<1>6. ASSUME NEW w \in Window, OnDidShowWindow(w)
      PROVE  Follows'
  <2>1. shown' = shown \ {w} /\ w \in shown /\ w \in open
        /\ UNCHANGED <<open, loaded, singleFrame>>
    BY <1>6 DEF OnDidShowWindow, IInv, TypeOK
  <2>2. CASE TakesOver(w)
    <3>1. Reveal(w) /\ singleFrame /\ w \in Managed(open)
      BY <1>6, <2>1, <2>2 DEF OnDidShowWindow, TakesOver, Managed
    <3>. QED
      BY <2>1, <3>1, RevealFollows
  <2>3. CASE ~TakesOver(w)
    <3>1. UNCHANGED <<visible, presented, untilReady, hiddenAux, waiting>>
      BY <1>6, <2>3 DEF OnDidShowWindow
    <3>2. w \in untilReady => singleFrame /\ presented # w
      BY DEF Follows
    <3>3. w \in untilReady \cup hiddenAux /\ singleFrame => presented # w /\ IsManaged(w)
      BY DEF Follows, IInv, PendingIsManaged, IsManaged
    <3>4. w \in untilReady \cup hiddenAux /\ singleFrame => w \notin visible
      BY <2>3, <3>3 DEF TakesOver
    <3>. QED
      BY <2>1, <3>1, <3>4, StaysFollowing DEF Follows
  <2>. QED
    BY <2>2, <2>3
<1>7. ASSUME NEW w \in Window, SwitchTo(w), singleFrame
      PROVE  Follows'
  BY <1>7, RevealFollows DEF SwitchTo, Managed
<1>8. ASSUME NEW w \in Window, EnterFullScreen(w) \/ DidLeaveFullScreen(w)
      PROVE  Follows'
  <2>1. UNCHANGED <<loaded, singleFrame, visible, shown, presented, untilReady, hiddenAux, waiting>>
    BY <1>8 DEF EnterFullScreen, DidLeaveFullScreen
  <2>. QED
    BY <2>1 DEF Follows, NoStaleTimer, AuxiliaryWindowsFollow
<1>9. ASSUME NEW w \in Window, WindowStep(w), Settled
      PROVE  Follows'
  <2>1. CASE OnDidOpenWindow(w)
    BY <2>1, OpenFollows DEF OnDidOpenWindow
  <2>2. CASE OnDidSignalReadyWindow(w) \/ ReadyTimeout(w) \/ OnDidCloseWindow(w)
    BY <1>2, <1>3, <1>9, <2>2
  <2>3. CASE OnDidFocusWindow(w)
    BY <1>4, <2>3
  <2>4. CASE OnDidShowWindow(w)
    BY <1>6, <2>4
  <2>5. CASE ShownByOthers(w)
    BY <1>5, <2>5
  <2>6. CASE EndStartup(w)
    BY <1>5, <2>6
  <2>7. CASE SwitchTo(w)
    BY <1>5, <1>7, <2>7
  <2>8. CASE EnterFullScreen(w) \/ DidLeaveFullScreen(w)
    BY <1>8, <2>8
  <2>. QED
    BY <1>9, <2>1, <2>2, <2>3, <2>4, <2>5, <2>6, <2>7, <2>8 DEF WindowStep
<1>10. ASSUME NEW r \in waiting, Continue(r)
       PROVE  Follows'
  <2>1. ASSUME RevealContinues(r)
        PROVE  Follows'
    <3>1. /\ r.what = "reveal" /\ r.window \in loaded \ Unmanaged
          /\ UNCHANGED <<open, loaded, singleFrame, shown>>
      BY <2>1 DEF RevealContinues, IInv, PendingIsManaged
    <3>2. CASE r.window \in open
      <4>1. DoReveal(r.window, open, waiting \ {r}) /\ r.window \in Managed(open)
        BY <2>1, <3>1, <3>2 DEF RevealContinues, CanPresent, Managed, IsManaged
      <4>. QED
        BY <3>1, <4>1, DoRevealFollows DEF Follows
    <3>3. CASE r.window \notin open
      <4>1. /\ waiting' = waiting \ {r}
            /\ UNCHANGED <<visible, presented, untilReady, hiddenAux>>
        BY <2>1, <3>3 DEF RevealContinues, CanPresent
      <4>. QED
        BY <1>0, <3>1, <3>3, <4>1, StaysFollowing DEF Follows
    <3>. QED
      BY <3>2, <3>3
  <2>2. ASSUME HideContinues(r)
        PROVE  Follows'
    <3>1. /\ r.what = "hide" /\ waiting' = waiting \ {r}
          /\ visible' = IF r.window # presented THEN visible \ {r.window} ELSE visible
          /\ UNCHANGED <<loaded, singleFrame, shown, presented, untilReady, hiddenAux>>
      BY <2>2 DEF HideContinues, StillToHide
    <3>2. NoStaleTimer'
      BY <3>1 DEF Follows, NoStaleTimer
    <3>3. AuxiliaryWindowsFollow'
      BY <3>1 DEF Follows, AuxiliaryWindowsFollow
    <3>. QED
      BY <3>1, <3>2, <3>3 DEF Follows
  <2>3. ASSUME NEW w \in Window, OpenContinues(r, w)
        PROVE  Follows'
    <3>1. r.window = NoWindow
      BY <1>0, <2>3 DEF OpenContinues, Wait
    <3>. QED
      BY <2>3, <3>1, OpenFollows DEF OpenContinues
  <2>. QED
    BY <1>10, <2>1, <2>2, <2>3 DEF Continue
<1>11. ASSUME SwitchToUnopened
       PROVE  Follows'
  <2>1. /\ waiting \subseteq waiting'
        /\ UNCHANGED <<loaded, singleFrame, visible, shown, presented, untilReady, hiddenAux>>
    BY <1>11 DEF SwitchToUnopened
  <2>. QED
    BY <2>1, StaysFollowing DEF Follows
<1>12. ASSUME RevealLastActive
       PROVE  Follows'
  <2>1. singleFrame /\ UNCHANGED <<open, loaded, singleFrame, shown>>
    BY <1>12 DEF RevealLastActive
  <2>2. PICK w \in Managed(open) : Reveal(w)
    BY <1>0, <1>12 DEF RevealLastActive, Managed, IInv, PresentedIsManaged
  <2>. QED
    BY <2>1, <2>2, RevealFollows
<1>13. ASSUME GatherWindows
       PROVE  Follows'
  <2>1. ~singleFrame /\ singleFrame' /\ UNCHANGED <<open, loaded, shown>>
    BY <1>13 DEF GatherWindows
  <2>2. CASE \E w \in Managed(open) : presented \in {w, NoWindow} /\ Reveal(w)
    BY <2>1, <2>2, RevealFollows
  <2>3. CASE /\ presented = NoWindow /\ Managed(open) = {}
             /\ UNCHANGED <<visible, presented, untilReady, hiddenAux, waiting>>
    <3>1. hiddenAux = {} /\ untilReady = {}
      BY <1>0, <2>1, <2>3 DEF Follows, Managed, IsManaged
    <3>. QED
      BY <2>1, <2>3, <3>1 DEF Follows, NoStaleTimer, AuxiliaryWindowsFollow
  <2>. QED
    BY <1>0, <1>13, <2>2, <2>3 DEF GatherWindows, Managed, IInv, PresentedIsManaged
<1>14. ASSUME BringAllBack, Settled
       PROVE  Follows'
  <2>1. /\ UNCHANGED <<loaded, shown, presented, waiting>> /\ ~singleFrame'
        /\ untilReady' = untilReady \ Managed(open)
        /\ hiddenAux' = hiddenAux \ Managed(open)
    BY <1>14 DEF BringAllBack
  <2>2. untilReady' = {}
    BY <1>0, <1>14, <2>1 DEF Settled, IInv, PendingIsManaged, Managed, IsManaged
  <2>. QED
    BY <2>1, <2>2 DEF Follows, NoStaleTimer, AuxiliaryWindowsFollow
<1>15. ASSUME RequestQuit \/ VetoQuit \/ UNCHANGED vars
       PROVE  Follows'
  <2>1. UNCHANGED <<loaded, singleFrame, visible, shown, presented, untilReady, hiddenAux, waiting>>
    BY <1>15 DEF RequestQuit, VetoQuit, vars
  <2>. QED
    BY <2>1 DEF Follows, NoStaleTimer, AuxiliaryWindowsFollow
<1>. QED
  BY <1>1, <1>9, <1>10, <1>11, <1>12, <1>13, <1>14, <1>15 DEF Next

LEMMA AlwaysFollows == Spec => []Follows
<1>1. Init => Follows
  BY WindowAssumption DEF Init, Follows, NoStaleTimer, AuxiliaryWindowsFollow
<1>2. IInv /\ Follows /\ [Next]_vars => Follows'
  BY NextFollows
<1>. QED
  BY <1>1, <1>2, Invariance, PTL DEF Spec

\* hideUntilReady, doReveal, bringAllBack: the timer of a hidden window never outlives
\* its hiding, so a window on screen is not pulled to the front by one later.
THEOREM NoStaleTimerHolds == Spec => []NoStaleTimer
<1>1. Follows => NoStaleTimer
  BY DEF Follows
<1>. QED
  BY <1>1, AlwaysFollows, PTL

\* hideAuxiliaryWindows, showAuxiliaryWindows: the auxiliary windows of a window that
\* stays on screen are hidden only while it is about to be hidden or presented.
THEOREM AuxiliaryWindowsFollowHolds == Spec => []AuxiliaryWindowsFollow
<1>1. Follows => AuxiliaryWindowsFollow
  BY DEF Follows
<1>. QED
  BY <1>1, AlwaysFollows, PTL
=============================================================================
