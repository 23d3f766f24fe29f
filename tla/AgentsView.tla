----------------------------- MODULE AgentsView -----------------------------
(***************************************************************************)
(* How the sessions of a window reach the user: extension.ts collects what *)
(* changes and refreshes at its own pace, and what shows it is a page that *)
(* loads, disappears and comes back by itself (view/sessionsView.ts), and  *)
(* the tab of the window in the workspace bar.                             *)
(*                                                                         *)
(*   session or row changes --> timer --> refresh --> message --> page     *)
(*                                          |                              *)
(*                                          +--> status of the tab         *)
(*                                                                         *)
(* A refresh with rows asks the providers first and goes on when they have *)
(* answered.  A page that is not on screen does not exist.                 *)
(***************************************************************************)
EXTENDS Naturals, Sequences, FiniteSets, SequencesExt

CONSTANTS
    SessionId,     \* sessions that may be there
    NoId,          \* no session
    MaxChanges,    \* bound: changes of sessions
    MaxRow,        \* bound: changes of what a status row says
    MaxAsked,      \* bound: refreshes that wait for rows
    MaxInbox       \* bound: messages on their way to the page

ASSUME ViewBounds ==
    /\ IsFiniteSet(SessionId)
    /\ {MaxChanges, MaxRow} \subseteq Nat
    /\ {MaxAsked, MaxInbox} \subseteq Nat \ {0}

VARIABLES
    cards,     \* the sessions of the registry, as far as showing them depends on it
    recent,    \* their ids, the newest state first
    changes,   \* how often sessions changed
    row,       \* what the provider of the status row would say now
    rows,      \* what it said last
    asked,     \* refreshes that wait for it: what they will read
    timer,     \* "off", or the refresh to come: "cards", "all"
    view,      \* "none", "hidden", "visible"
    isViewReady,
    page,      \* the document of the view: "none", "loading", "ready"
    hello,     \* its "ready" is on its way
    inbox,     \* messages on their way to it
    shown,     \* the message on screen
    currentId, \* the card that holds the roving tab stop
    focused,   \* the card that has the focus
    tab        \* what the workspace bar was told last

model   == <<cards, recent, changes, row>>
host    == <<rows, asked, timer, isViewReady, tab>>
display == <<page, hello, inbox, shown, currentId, focused>>
viewVars    == <<model, host, view, display>>

-----------------------------------------------------------------------------
(* model/summary.ts *)

State == {"working", "waiting", "finished", "closed"}

\* News is set on the way to waiting and finished.
Summary == {c \in [state : State, attention : BOOLEAN] :
            c.attention => c.state \in {"waiting", "finished"}}

Present == {i \in SessionId : cards[i] # NoId}

Rank(c) ==
    IF c.attention THEN 0
    ELSE CASE c.state = "waiting"  -> 1
           [] c.state = "working"  -> 2
           [] c.state = "finished" -> 3
           [] OTHER                -> 4

\* Cards from top to bottom: what needs the user first, the newest change first.
\* Each stands where as many are above it.
Age(i) == CHOOSE k \in DOMAIN recent : recent[k] = i

IsAbove(a, b) ==
    \/ Rank(cards[a]) < Rank(cards[b])
    \/ Rank(cards[a]) = Rank(cards[b]) /\ Age(a) < Age(b)

OrderSessions ==
    [k \in 1 .. Cardinality(Present) |->
        CHOOSE i \in Present : Cardinality({j \in Present : IsAbove(j, i)}) = k - 1]

\* What the tab of the window shows while it is hidden: an agent that waits
\* counts for as long as it waits.
WindowStatus ==
    [working   |-> Cardinality({i \in Present : cards[i].state = "working"}),
     attention |-> Cardinality({i \in Present : \/ cards[i].attention
                                                 \/ cards[i].state = "waiting"})]

NoStatus == [working |-> 0, attention |-> 0]

-----------------------------------------------------------------------------
(* extension.ts: refreshing *)

RefreshSoonKeepsTimer(withRows) ==
    timer' = IF timer # "off" THEN timer ELSE IF withRows THEN "all" ELSE "cards"

RefreshSoon(withRows) ==
    timer' = IF withRows THEN "all" ELSE IF timer = "off" THEN "cards" ELSE timer

Message(version, said) == [order |-> OrderSessions, version |-> version, rows |-> said]

Nothing == [order |-> <<>>, version |-> 0, rows |-> 0]

\* A page that is there gets it.  One that still loads may miss it.
Post(message) ==
    \/ /\ page # "none"
       /\ Len(inbox) < MaxInbox
       /\ inbox' = Append(inbox, message)
    \/ /\ page # "ready"
       /\ UNCHANGED inbox

\* The part of refresh that does not wait: what is shown is what is there then.
Show(said) ==
    /\ tab' = WindowStatus
    /\ IF view # "none" /\ isViewReady
       THEN Post(Message(changes, said))
       ELSE UNCHANGED inbox

\* refresh with rows, up to the answer of the providers.
Ask == Len(asked) < MaxAsked /\ asked' = Append(asked, row)

TimerFires ==
    /\ timer # "off"
    /\ timer' = "off"
    /\ \/ timer = "all" /\ Ask /\ UNCHANGED <<tab, inbox>>
       \/ timer = "cards" /\ Show(rows) /\ UNCHANGED asked
    /\ UNCHANGED <<model, rows, isViewReady, view, page, hello, shown, currentId, focused>>

\* refresh with rows goes on.  Providers answer in the order they are asked in.
Answered ==
    /\ asked # <<>>
    /\ asked' = Tail(asked)
    /\ rows' = Head(asked)
    /\ Show(Head(asked))
    /\ UNCHANGED <<model, timer, isViewReady, view, page, hello, shown, currentId, focused>>

\* A session whose state changed is the newest.
Newest(i) ==
    [k \in DOMAIN recent |->
        IF k = 1 THEN i ELSE IF k <= Age(i) THEN recent[k - 1] ELSE recent[k]]

\* onDidChangeSessions
SessionChanges(i) ==
    /\ changes < MaxChanges
    /\ changes' = changes + 1
    /\ \E c \in Summary \cup {NoId} :
          /\ c # cards[i]
          /\ cards' = [cards EXCEPT ![i] = c]
          /\ recent' = IF NoId \notin {c, cards[i]} /\ c.state = cards[i].state THEN recent
                       ELSE Newest(i)
    /\ RefreshSoon(FALSE)
    /\ UNCHANGED <<row, rows, asked, isViewReady, tab, view, display>>

\* A provider tells that its rows are others.
RowChanges ==
    /\ row < MaxRow
    /\ row' = row + 1
    /\ RefreshSoon(TRUE)
    /\ UNCHANGED <<cards, recent, changes, rows, asked, isViewReady, tab, view, display>>

-----------------------------------------------------------------------------
(* extension.ts: the view *)

NoDocument ==
    /\ inbox' = <<>>
    /\ shown' = Nothing
    /\ currentId' = NoId
    /\ focused' = NoId

ResolveView ==
    /\ view = "none"
    /\ view' = "visible"
    /\ isViewReady' = FALSE
    /\ page' = "loading"
    /\ UNCHANGED <<model, rows, asked, timer, tab, hello, inbox, shown, currentId, focused>>

\* The document of a view that is hidden is gone, and loads again.
Hide ==
    /\ view = "visible"
    /\ view' = "hidden"
    /\ page' = "none"
    /\ NoDocument
    /\ UNCHANGED <<model, host, hello>>

Reveal ==
    /\ view = "hidden"
    /\ view' = "visible"
    /\ page' = "loading"
    /\ RefreshSoon(TRUE)
    /\ UNCHANGED <<model, rows, asked, isViewReady, tab, hello, inbox, shown, currentId, focused>>

DisposeView ==
    /\ view # "none"
    /\ view' = "none"
    /\ isViewReady' = FALSE
    /\ page' = "none"
    /\ hello' = FALSE
    /\ NoDocument
    /\ UNCHANGED <<model, rows, asked, timer, tab>>

PageLoads ==
    /\ page = "loading"
    /\ page' = "ready"
    /\ hello' = TRUE
    /\ UNCHANGED <<model, host, view, inbox, shown, currentId, focused>>

OnReady ==
    /\ hello
    /\ hello' = FALSE
    /\ isViewReady' = TRUE
    /\ Ask
    /\ UNCHANGED <<model, rows, timer, tab, view, page, inbox, shown, currentId, focused>>

-----------------------------------------------------------------------------
(* view/sessionsView.ts *)

CardsOf(message) == Range(message.order)

TabStopStays(message) ==
    IF currentId # NoId THEN currentId
    ELSE IF message.order = <<>> THEN NoId ELSE Head(message.order)

\* Stays where it was, or goes to the first card.
TabStop(message) ==
    IF currentId \in CardsOf(message) THEN currentId
    ELSE IF message.order = <<>> THEN NoId ELSE Head(message.order)

\* The focus survives the update: on its card, or on the one with the tab stop.
Render ==
    /\ page = "ready"
    /\ inbox # <<>>
    /\ LET message == Head(inbox) IN
       /\ shown' = message
       /\ currentId' = TabStop(message)
       /\ focused' = IF focused = NoId \/ focused \in CardsOf(message) THEN focused
                     ELSE TabStop(message)
    /\ inbox' = Tail(inbox)
    /\ UNCHANGED <<model, host, view, page, hello>>

\* A click, the arrow keys, Home and End: focusin takes the tab stop along.
FocusCard(i) ==
    /\ i \in CardsOf(shown)
    /\ focused' = i
    /\ currentId' = i
    /\ UNCHANGED <<model, host, view, page, hello, inbox, shown>>

\* Delete asks the host to dismiss the session and goes to the next card, or to
\* the one before it.
DeleteKey ==
    /\ focused # NoId
    /\ LET at        == CHOOSE k \in DOMAIN shown.order : shown.order[k] = focused
           neighbour == CASE at + 1 \in DOMAIN shown.order -> shown.order[at + 1]
                          [] at + 1 \notin DOMAIN shown.order /\ at > 1 -> shown.order[at - 1]
                          [] OTHER -> focused
       IN  focused' = neighbour /\ currentId' = neighbour
    /\ UNCHANGED <<model, host, view, page, hello, inbox, shown>>

-----------------------------------------------------------------------------
ViewInit ==
    /\ cards = [i \in SessionId |-> NoId]
    /\ recent = SetToSeq(SessionId)
    /\ changes = 0
    /\ row = 0 /\ rows = 0
    /\ asked = <<0>>              \* start
    /\ timer = "all"              \* loadProfiles
    /\ view = "none"
    /\ isViewReady = FALSE
    /\ page = "none"
    /\ hello = FALSE
    /\ inbox = <<>>
    /\ shown = Nothing
    /\ currentId = NoId
    /\ focused = NoId
    /\ tab = NoStatus

ViewNext ==
    \/ \E i \in SessionId : SessionChanges(i) \/ FocusCard(i)
    \/ RowChanges \/ TimerFires \/ Answered
    \/ ResolveView \/ Hide \/ Reveal \/ DisposeView \/ PageLoads \/ OnReady
    \/ Render \/ DeleteKey

\* Timers fire, providers answer, pages load, and messages arrive.
Fairness ==
    /\ WF_viewVars(TimerFires) /\ WF_viewVars(Answered)
    /\ WF_viewVars(PageLoads) /\ WF_viewVars(OnReady) /\ WF_viewVars(Render)

ViewSpec == ViewInit /\ [][ViewNext]_viewVars
FairViewSpec == ViewSpec /\ Fairness

-----------------------------------------------------------------------------
(* What is expected *)

\* Everything keeps its type, and there is a document only for a view on screen.
Posted == [order : Seq(SessionId), version : 0..MaxChanges, rows : 0..MaxRow]

ViewTypeOK ==
    /\ cards \in [SessionId -> Summary \cup {NoId}]
    /\ recent \in [1..Cardinality(SessionId) -> SessionId] /\ Range(recent) = SessionId
    /\ changes \in 0..MaxChanges
    /\ {row, rows} \subseteq 0..MaxRow
    /\ asked \in Seq(0..MaxRow) /\ Len(asked) <= MaxAsked
    /\ timer \in {"off", "cards", "all"}
    /\ view \in {"none", "hidden", "visible"}
    /\ page \in {"none", "loading", "ready"}
    /\ (page # "none") <=> (view = "visible")
    /\ {isViewReady, hello} \subseteq BOOLEAN
    /\ inbox \in Seq(Posted) /\ Len(inbox) <= MaxInbox
    /\ shown \in Posted
    /\ {currentId, focused} \subseteq SessionId \cup {NoId}
    /\ tab \in [working : Nat, attention : Nat]

\* One card is reachable by Tab as long as there is one, whatever came and went,
\* and it is the one with the focus if any has it.
RovingTabStop ==
    /\ shown.order # <<>> => currentId \in CardsOf(shown)
    /\ focused # NoId => focused = currentId /\ focused \in CardsOf(shown)

\* When nothing changes any more, a page that stays on screen ends up with the
\* sessions in their order and the last word of the providers, and the tab of
\* the window with the last counts, whatever was lost while the page loaded.
EventuallyCurrent ==
    /\ <>[](tab = WindowStatus)
    /\ <>[](view = "visible") => <>[](shown = Message(changes, row))
=============================================================================
