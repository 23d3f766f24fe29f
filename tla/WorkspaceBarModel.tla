-------------------------- MODULE WorkspaceBarModel --------------------------
(***************************************************************************)
(* The entries of the workspace bar: WorkspaceBarModel                     *)
(* (common/workspaceBarModel) as WorkspaceBarMainService drives it: every  *)
(* call of the model is followed by onDidChangeModel, which persists the   *)
(* pinned entries and schedules the event for the windows.                 *)
(*                                                                         *)
(* "bar" is the model with what the service keeps for it.  A window is     *)
(* told apart by its id, ids grow: the lowest one is the oldest window.    *)
(* What windows show changes behind the back of the bar, which only looks  *)
(* when it reconciles: by then any of them may show anything.  "reported"  *)
(* tells whether the last step scheduled onDidChangeEntries.               *)
(*                                                                         *)
(* Left out: labels and descriptions, the syntax of the persisted state,   *)
(* windows that are not managed (SingleFrame), the contents of a status.   *)
(***************************************************************************)
EXTENDS Integers, SequencesExt

CONSTANTS
    Entry,           \* folders and workspace files, by entry id
    HostsOf,         \* the hosts on which each of them may open
    Local,           \* the host that comes first
    NoEntry,         \* what a window without workspace shows
    NoWindow,        \* an entry without window
    Edited,          \* the entries that the user pins, unpins and moves
    Reporting,       \* the windows whose agents report a status
    MaxWindow,       \* bound: windows that open per session
    MaxTime,         \* bound: activations
    ClockMayGoBack   \* whether the clock may be set back between sessions

\* NoEntry and NoWindow stand for undefined.
ASSUME ConstantsAssumption ==
    /\ NoEntry \notin Entry
    /\ Edited \subseteq Entry
    /\ MaxWindow \in Nat /\ MaxTime \in Nat
    /\ NoWindow \notin 1..MaxWindow
    /\ ClockMayGoBack \in BOOLEAN

VARIABLES
    windows,    \* the managed windows and what each showed at the last reconcile
    lastWindow, \* the id given last
    bar,        \* entries, active, activeTime, status; persisted, reported
    lastTime    \* lastActiveTime of the service, at first the clock

vars == <<windows, lastWindow, bar, lastTime>>

WindowId  == 1..MaxWindow
Host      == {Local} \cup UNION {HostsOf[e] : e \in Entry}

\* What a window shows, and where.
Shown == [shows : {NoEntry}, host : {Local}]
         \cup UNION {[shows : {e}, host : HostsOf[e]] : e \in Entry}

EntryState == [id : Entry, host : Host, pinned : BOOLEAN,
               window : WindowId \cup {NoWindow}, time : 0..MaxTime]
Persisted  == [id : Entry, host : Host, time : 0..MaxTime]

Bar == [entries : Seq(EntryState), active : WindowId \cup {NoWindow},
        activeTime : 0..MaxTime, status : SUBSET WindowId,
        persisted : Seq(Persisted), reported : BOOLEAN]

TypeOK ==
    /\ DOMAIN windows \subseteq 1..lastWindow
    /\ \A w \in DOMAIN windows : windows[w] \in Shown
    /\ lastWindow \in 0..MaxWindow
    /\ bar \in Bar
    /\ bar.status \subseteq DOMAIN windows
    /\ lastTime \in 0..MaxTime

-----------------------------------------------------------------------------
(* Helpers                                                                  *)

IndexWhere(es, Test(_)) == {i \in DOMAIN es : Test(es[i])}
IndexOf(es, id) == CHOOSE i \in DOMAIN es : es[i].id = id
Known(es, id)   == \E i \in DOMAIN es : es[i].id = id

\* The entry of a window, activeEntry of the active one.
EntryFor(es, w) ==
    IF w # NoWindow /\ \E i \in DOMAIN es : es[i].window = w
    THEN es[CHOOSE i \in DOMAIN es : es[i].window = w].id
    ELSE NoEntry

\* insert: to the end of the host group; a new host goes last, the local first.
Insert(es, e) ==
    LET group == IndexWhere(es, LAMBDA o : o.host = e.host)
        at    == IF group # {} THEN Max(group) + 1
                 ELSE IF e.host = Local THEN 1 ELSE Len(es) + 1
    IN  InsertAt(es, at, e)

\* serialize: the pinned entries, one after the other.
Kept(e) == [id |-> e.id, host |-> e.host, time |-> e.time]
Serialize(es) ==
    LET upTo[k \in 0..Len(es)] ==
            IF k = 0 THEN <<>>
            ELSE upTo[k - 1] \o (IF es[k].pinned THEN <<Kept(es[k])>> ELSE <<>>)
    IN  upTo[Len(es)]

\* onDidChangeModel of what a method of the model returned: persists and
\* schedules the event for the windows.
OnDidChangeModel(b, changed) ==
    IF changed
    THEN [b EXCEPT !.persisted = Serialize(b.entries), !.reported = TRUE]
    ELSE b

\* The bar at the start of a handler, which has scheduled no event yet.
Current == [bar EXCEPT !.reported = FALSE]

-----------------------------------------------------------------------------
(* reconcile                                                                *)

\* The window of an entry: the one it has for as long as that shows it, else
\* the oldest that does.
WindowFor(e, ws) ==
    LET candidates == {w \in DOMAIN ws : ws[w].shows = e.id}
    IN  IF e.window \in candidates THEN e.window
        ELSE IF candidates = {} THEN NoWindow
        ELSE Min(candidates)

\* bind: the entry as its window makes it.
BindsWithoutTime(e, w, ws, b) == [e EXCEPT !.window = w, !.host = ws[w].host]
Bound(e, w, ws, b) ==
    [e EXCEPT
        !.window = w,
        !.host = ws[w].host,
        !.time = IF w = b.active /\ e.time < b.activeTime THEN b.activeTime ELSE @]

\* bind tells that the window, the host or the time changed.
BindChanges(e, bound) == e # bound

\* One entry that is known.  "r" is the state of the loop: entries and whether
\* they changed.  An entry whose host changed moves to its new group.
ReconcileEntry(r, e, ws, b) ==
    LET w     == WindowFor(e, ws)
        i     == IndexOf(r.entries, e.id)
        bound == Bound(e, w, ws, b)
    IN  IF w # NoWindow
        THEN [entries |-> IF bound.host = e.host
                          THEN ReplaceAt(r.entries, i, bound)
                          ELSE Insert(RemoveAt(r.entries, i), bound),
              changed |-> r.changed \/ BindChanges(e, bound)]
        ELSE [entries |-> IF e.pinned
                          THEN ReplaceAt(r.entries, i, [e EXCEPT !.window = NoWindow])
                          ELSE RemoveAt(r.entries, i),
              changed |-> r.changed \/ e.window # NoWindow \/ ~e.pinned]

NewEntry(w, ws, b) ==
    Bound([id |-> ws[w].shows, host |-> ws[w].host, pinned |-> FALSE,
           window |-> NoWindow, time |-> 0], w, ws, b)

\* The loop over a copy of the entries, by how many of them it has seen.
ReconcileKnown(b, ws) ==
    LET after[k \in 0..Len(b.entries)] ==
            IF k = 0 THEN [entries |-> b.entries, changed |-> FALSE]
            ELSE ReconcileEntry(after[k - 1], b.entries[k], ws, b)
    IN  after[Len(b.entries)]

\* The windows that add an entry: the oldest of those that show a workspace
\* that is not known.
NewWindows(es, ws) ==
    {w \in DOMAIN ws :
        /\ ws[w].shows # NoEntry
        /\ ~Known(es, ws[w].shows)
        /\ \A o \in DOMAIN ws : ws[o].shows = ws[w].shows => w <= o}

\* In the order of their ids.
AddNew(es, ws, b) ==
    LET after[w \in 0..MaxWindow] ==
            IF w = 0 THEN es
            ELSE IF w \in NewWindows(b.entries, ws)
                 THEN Insert(after[w - 1], NewEntry(w, ws, b))
                 ELSE after[w - 1]
    IN  after[MaxWindow]

\* The status of a window goes away with it.
StatusLeft(b, ws) == b.status \cap DOMAIN ws

Reconcile(b, ws) ==
    LET known == ReconcileKnown(b, ws)
    IN  OnDidChangeModel([b EXCEPT !.entries = AddNew(known.entries, ws, b),
                                   !.status = StatusLeft(b, ws)],
                         known.changed \/ NewWindows(b.entries, ws) # {})

-----------------------------------------------------------------------------
(* The other methods of the model                                           *)

\* setActive: the window may have no entry (yet).
ActivatesSilently(b, w, t) == [b EXCEPT !.active = w, !.activeTime = t]
Activate(b, w, t) ==
    LET entry  == EntryFor(b.entries, w)
        i      == IndexOf(b.entries, entry)
        raises == entry # NoEntry /\ b.entries[i].time < t
    IN  OnDidChangeModel([b EXCEPT
                            !.active = w,
                            !.activeTime = t,
                            !.entries = IF raises
                                        THEN ReplaceAt(@, i, [@[i] EXCEPT !.time = t])
                                        ELSE @],
                         raises \/ entry # EntryFor(b.entries, b.active))

\* pickNextActive: one pass that keeps the best entry so far (0: none yet).
Distance(i, j) == IF i < j THEN j - i ELSE i - j
Prefers(es, i, best, closed) ==
    \/ es[i].time > es[best].time
    \/ /\ es[i].time = es[best].time
       /\ closed > 0
       /\ Distance(i, closed) < Distance(best, closed)

Better(es, i, best, closed) ==
    IF /\ es[i].window # NoWindow /\ i # closed
       /\ best = 0 \/ Prefers(es, i, best, closed)
    THEN i ELSE best

PickNextActive(es, closedId) ==
    LET closed == IF Known(es, closedId) THEN IndexOf(es, closedId) ELSE 0
        best[i \in 0..Len(es)] ==
            IF i = 0 THEN 0 ELSE Better(es, i, best[i - 1], closed)
    IN  best[Len(es)]

\* setWindowStatus with a status, or without one to clear it.
SetStatus(b, w) ==
    OnDidChangeModel([b EXCEPT !.status = @ \cup {w}],
                     w \notin b.status /\ EntryFor(b.entries, w) # NoEntry)
ClearStatus(b, w) ==
    OnDidChangeModel([b EXCEPT !.status = @ \ {w}],
                     w \in b.status /\ EntryFor(b.entries, w) # NoEntry)

\* pin and unpin (remove is unpin): of an entry without window nothing remains.
PinEntry(b, id) ==
    LET i == IndexOf(b.entries, id)
    IN  OnDidChangeModel([b EXCEPT !.entries[i].pinned = TRUE], ~b.entries[i].pinned)

UnpinsOnly(b, id) ==
    OnDidChangeModel([b EXCEPT !.entries[IndexOf(b.entries, id)].pinned = FALSE],
                     b.entries[IndexOf(b.entries, id)].pinned)
UnpinEntry(b, id) ==
    LET i == IndexOf(b.entries, id)
    IN  IF ~b.entries[i].pinned THEN b
        ELSE OnDidChangeModel(
                 [b EXCEPT !.entries = IF b.entries[i].window = NoWindow
                                       THEN RemoveAt(@, i)
                                       ELSE ReplaceAt(@, i, [@[i] EXCEPT !.pinned = FALSE])],
                 TRUE)

\* reorder: before another entry, or to the end of the group (NoEntry).  A
\* position outside of the group of the entry is moved to the closest inside.
UnclampedPosition(es, id, before) ==
    IF before = NoEntry THEN Len(es) + 1 ELSE IndexOf(es, before)
TargetPosition(es, id, before) ==
    LET group == IndexWhere(es, LAMBDA o : o.host = es[IndexOf(es, id)].host)
    IN  IF before = NoEntry THEN Max(group) + 1
        ELSE Min({Max({IndexOf(es, before), Min(group)}), Max(group) + 1})

Reordered(es, id, before) ==
    LET from == IndexOf(es, id)
        to   == TargetPosition(es, id, before)
    IN  IF to \in {from, from + 1} THEN es
        ELSE InsertAt(RemoveAt(es, from), IF to > from THEN to - 1 ELSE to, es[from])

\* deserialize and insert, as the constructor does.
RestoredEntry(p) == [id |-> p.id, host |-> p.host, pinned |-> TRUE,
                     window |-> NoWindow, time |-> p.time]
Restored(persisted) ==
    LET after[k \in 0..Len(persisted)] ==
            IF k = 0 THEN <<>> ELSE Insert(after[k - 1], RestoredEntry(persisted[k]))
    IN  after[Len(persisted)]

-----------------------------------------------------------------------------
(* What WorkspaceBarMainService does with it                                *)

Init ==
    /\ windows = <<>>
    /\ lastWindow = 0
    /\ bar = [entries |-> <<>>, active |-> NoWindow, activeTime |-> 0, status |-> {},
              persisted |-> <<>>, reported |-> FALSE]
    /\ lastTime = 0

\* setActive: the time of the clock, or later to be strictly increasing.  Only
\* the order of times matters, so the clock ticks when a window is activated.
NextTime == lastTime + 1

MayActivate == NextTime <= MaxTime

\* updateEntries with the windows as they are, and then perhaps one of them is
\* presented.
Update(b, ws, presented) ==
    LET updated == Reconcile(b, ws)
    IN  /\ windows' = ws
        /\ \/ bar' = updated /\ UNCHANGED lastTime
           \/ /\ MayActivate
              /\ lastTime' = NextTime
              /\ \E w \in presented : bar' = Activate(updated, w, NextTime)

\* onDidOpenWindow.  A window opens without workspace.  The first one, and on
\* startup every one, is active before its entry is known.
OnDidOpenWindow ==
    LET w  == lastWindow + 1
        ws == [o \in DOMAIN windows \cup {w} |->
                  IF o = w THEN [shows |-> NoEntry, host |-> Local] ELSE windows[o]]
    IN  /\ w <= MaxWindow
        /\ lastWindow' = w
        /\ \/ Update(Current, ws, {})
           \/ /\ MayActivate
              /\ lastTime' = NextTime
              /\ bar' = Reconcile(Activate(Current, w, NextTime), ws)
              /\ windows' = ws

\* onWillLoadWindow: what ran in the window is over.  What it loads is known
\* before for the first load only.
OnWillLoadWindow(w) ==
    /\ w \in DOMAIN windows
    /\ \E s \in Shown : Update(ClearStatus(Current, w), [windows EXCEPT ![w] = s], {})
    /\ UNCHANGED lastWindow

\* onDidSignalReadyWindow of any window: one that was hidden until ready is
\* presented.  By now all of them may show something else.
OnDidSignalReadyWindow ==
    /\ \E ws \in [DOMAIN windows -> Shown] : Update(Current, ws, DOMAIN windows)
    /\ UNCHANGED lastWindow

\* pickNextWindow: that of the next entry, else any window.
PickNextWindow(closed, around) ==
    LET next == PickNextActive(bar.entries, EntryFor(bar.entries, closed))
    IN  IF next # 0 THEN {bar.entries[next].window} ELSE around

\* onDidCloseWindow: the next window is picked while the entry of the closed
\* one is around.  It takes over if the closed window was the presented one.
OnDidCloseWindow(w) ==
    LET around == DOMAIN windows \ {w}
    IN  /\ w \in DOMAIN windows
        /\ Update(Current, [o \in around |-> windows[o]], PickNextWindow(w, around))
        /\ UNCHANGED lastWindow

\* A window is focused or revealed.
SetActive(w) ==
    /\ w \in DOMAIN windows
    /\ MayActivate
    /\ lastTime' = NextTime
    /\ bar' = Activate(Current, w, NextTime)
    /\ UNCHANGED <<windows, lastWindow>>

\* setWindowStatus over IPC: taken from windows that are around only; cleared
\* for any.
SetWindowStatus(w) ==
    /\ \/ w \in DOMAIN windows \cap Reporting /\ bar' = SetStatus(Current, w)
       \/ bar' = ClearStatus(Current, w)
    /\ UNCHANGED <<windows, lastWindow, lastTime>>

Edit(b) ==
    /\ bar' = b
    /\ UNCHANGED <<windows, lastWindow, lastTime>>

Pin(id)   == Known(bar.entries, id) /\ Edit(PinEntry(Current, id))
Unpin(id) == Known(bar.entries, id) /\ Edit(UnpinEntry(Current, id))

Reorder(id, before) ==
    /\ Known(bar.entries, id)
    /\ before = NoEntry \/ Known(bar.entries, before)
    /\ LET es == Reordered(bar.entries, id, before)
       IN  Edit(OnDidChangeModel([Current EXCEPT !.entries = es], es # bar.entries))

\* The application quits or crashes and starts again.  The service starts with
\* what was persisted, and with the clock, which is past all times of before
\* unless it was set back.
Restart ==
    LET latest == Max({lastTime} \cup {bar.entries[i].time : i \in DOMAIN bar.entries})
    IN  /\ windows' = <<>>
        /\ lastWindow' = 0
        /\ bar' = [entries |-> Restored(bar.persisted), active |-> NoWindow,
                   activeTime |-> 0, status |-> {}, persisted |-> bar.persisted,
                   reported |-> FALSE]
        /\ lastTime' \in {t \in 0..latest : ClockMayGoBack \/ t = latest}

Next ==
    \/ OnDidOpenWindow
    \/ OnDidSignalReadyWindow
    \/ \E w \in WindowId :
          \/ OnWillLoadWindow(w)
          \/ OnDidCloseWindow(w)
          \/ SetActive(w)
          \/ SetWindowStatus(w)
    \/ \E id \in Edited :
          \/ Pin(id)
          \/ Unpin(id)
          \/ \E before \in Entry \cup {NoEntry} : Reorder(id, before)
    \/ Restart

Spec == Init /\ [][Next]_vars

-----------------------------------------------------------------------------
(* Properties                                                               *)

\* The order invariants of the class comment: the entries of one host are
\* contiguous and the local host comes first, after any sequence of opening,
\* rebinding to another host, reordering, unpinning and restarting.
HostsContiguous ==
    \A i, j \in DOMAIN bar.entries : i < j =>
        /\ bar.entries[j].host = Local => bar.entries[i].host = Local
        /\ bar.entries[i].host = bar.entries[j].host =>
               \A k \in i..j : bar.entries[k].host = bar.entries[i].host

\* The entries are what reconcile says: one per workspace, each bound to a
\* window that shows it and on its host, "entries without window remain only
\* when pinned", and no workspace of a window is missing.
EntriesMatchWindows ==
    /\ \A i, j \in DOMAIN bar.entries :
          bar.entries[i].id = bar.entries[j].id => i = j
    /\ \A i \in DOMAIN bar.entries :
          LET e == bar.entries[i]
              shownIn == {w \in DOMAIN windows : windows[w].shows = e.id}
          IN  IF shownIn = {} THEN e.window = NoWindow /\ e.pinned
              ELSE e.window \in shownIn /\ windows[e.window].host = e.host
    /\ \A w \in DOMAIN windows : windows[w].shows = NoEntry \/ Known(bar.entries, windows[w].shows)

\* What is persisted is what a next session should restore: no change of the
\* pinned entries, their order, host or time goes without being persisted.
PersistedCurrent == bar.persisted = Serialize(bar.entries)

\* "Strictly increasing: the order of activation is what matters" (setActive
\* of the service): no entry claims to be more recent than the active one.
ActiveIsMostRecent ==
    LET active == EntryFor(bar.entries, bar.active)
    IN  active # NoEntry =>
            \A i \in DOMAIN bar.entries :
                bar.entries[i].time <= bar.entries[IndexOf(bar.entries, active)].time

\* pickNextActive in one pass finds what its comment says: the most recently
\* active other entry with a window, of several the closest to the closed one,
\* of several the first.
PickNextMeetsComment ==
    \A closedId \in Entry \cup {NoEntry} :
        LET es     == bar.entries
            next   == PickNextActive(es, closedId)
            others == {i \in DOMAIN es : es[i].window # NoWindow /\ es[i].id # closedId}
            Away(i) == IF Known(es, closedId) THEN Distance(i, IndexOf(es, closedId)) ELSE 0
        IN  IF others = {} THEN next = 0
            ELSE /\ next \in others
                 /\ \A i \in others \ {next} :
                       \/ es[i].time < es[next].time
                       \/ es[i].time = es[next].time /\ Away(i) > Away(next)
                       \/ es[i].time = es[next].time /\ Away(i) = Away(next) /\ i > next

\* "An entry keeps its window for as long as that window shows it": a second
\* window on the same workspace never takes its entry over.
KeepsWindow ==
    [][\A i \in DOMAIN bar.entries, j \in DOMAIN bar'.entries :
          LET w == bar.entries[i].window
          IN  /\ bar'.entries[j].id = bar.entries[i].id
              /\ w \in DOMAIN windows'
              /\ windows'[w].shows = bar.entries[i].id
              => bar'.entries[j].window = w]_vars

\* Entries do not move unless the user moves them: but for reorder, entries
\* that stay on their host keep their order, and one that is new on a host
\* goes behind them ("a new entry goes to the end of its host group").
StableOrder ==
    [][\/ LET Stays(e) == \E i \in DOMAIN bar.entries :
                             bar.entries[i].id = e.id /\ bar.entries[i].host = e.host
          IN  \A i, j \in DOMAIN bar'.entries :
                 LET e == bar'.entries[i]
                     f == bar'.entries[j]
                 IN  i < j /\ e.host = f.host /\ Stays(f) =>
                         /\ Stays(e)
                         /\ IndexOf(bar.entries, e.id) < IndexOf(bar.entries, f.id)
       \/ \E id \in Entry, before \in Entry \cup {NoEntry} : Reorder(id, before)]_vars

\* What windows see (getEntries) never changes without the event for them being
\* scheduled, so no window keeps a stale bar.  A restart opens new windows.
ChangesAreReported ==
    [][\/ bar'.reported
       \/ LET View(b) == [i \in DOMAIN b.entries |->
                             <<b.entries[i], b.entries[i].id = EntryFor(b.entries, b.active),
                               b.entries[i].window \in b.status>>]
          IN  View(bar) = View(bar')
       \/ Restart]_vars

\* reorder puts the entry right before the other one of its host, or last, and
\* leaves the order of all others alone.
ReorderMeetsComment ==
    \A i \in DOMAIN bar.entries : \A b \in DOMAIN bar.entries \cup {0} :
        LET es == bar.entries
            id == es[i].id
            to == Reordered(es, id, IF b = 0 THEN NoEntry ELSE es[b].id)
            at == IndexOf(to, id)
            group == {k \in DOMAIN es : es[k].host = es[i].host}
        IN  /\ RemoveAt(to, at) = RemoveAt(es, i)
            /\ b \in group \ {i} => to[at + 1] = es[b]
            /\ b = 0 => at = Max(group)
            /\ b \notin group \cup {0} => at = IF b < i THEN Min(group) ELSE Max(group)
=============================================================================
