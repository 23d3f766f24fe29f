---------------------------- MODULE ChandraProofs ----------------------------
(***************************************************************************)
(* Chandra, from the ledger files to the pages that draw their graph.      *)
(*                                                                         *)
(* The ledgers: whatever is appended, rewritten and removed while reads    *)
(* are under way, no change is missed (NothingIsMissed), a refresh that    *)
(* resolves includes what it was asked for (OwedIsRead), the cache that    *)
(* parses only tails holds the rows of the whole file (EntriesAreSane),    *)
(* and the listeners have what is known or a fold is due (ShowsFold).      *)
(*                                                                         *)
(* The pages: whatever the user presses, and in whatever order messages    *)
(* cross: once none is under way, every page shows the last graph and has  *)
(* the focus of the window; and a route starts at the focus at all times.  *)
(* What is under way decides what will hold, so the invariant reads the    *)
(* queues.  A page that has yet to greet will be sent everything.  Of the  *)
(* others: the graph that a page has once its queue is read is the last    *)
(* one (Current); what it told last is its focus (Reported); and where it  *)
(* has told everything, either a message of its queue will change its      *)
(* focus, which it then tells, or the focus is that of the window          *)
(* (Follows).  A focus whose node the page does not have is dropped by it, *)
(* so only those count of which it will have the node by then (Counts),    *)
(* and a focus of the window whose node a snapshot dropped binds no page   *)
(* (Kept).                                                                 *)
(***************************************************************************)
EXTENDS GraphSurfaces, Ledgers, SequenceTheorems, FiniteSetTheorems, WellFoundedInduction, TLAPS

-----------------------------------------------------------------------------
(* The inductive invariant                                                  *)

\* What the extension may have sent to a page by snapshot v.
Known(v) == {Graphs[i] : i \in 1..v}
Sent(v) == [type : {"graph"}, graph : Known(v)] \cup [type : {"focus"}, id : Node]
               \cup [type : {"config"}, dir : Direction]

\* The nodes that graphs had by snapshot v, and what a page may have told by then:
\* only nodes that it was sent.
Had(v) == UNION {Graphs[i].nodes : i \in 1..v}
Heard(v) == [type : {"ready"}] \cup [type : {"focused"}, id : Had(v)]

\* A page between two of its steps, and what it saved.
PageOK(p, v) ==
    /\ p \in Page /\ p.out = <<>>
    /\ p.graph \in {NoGraph} \cup Known(v)
    /\ p.saved.focus = p.focus

Shape ==
    /\ snapshot \in 1..Len(Graphs)
    /\ setting \in [Surface -> Direction] /\ html \in [Surface -> Direction]
    /\ focusedId \in {NoNode} \cup Had(snapshot)
    /\ ready \subseteq attached /\ attached \subseteq Surface
    /\ hash \in [Surface -> Saved]
    /\ page \in [Surface -> {NoPage} \cup Page]
    /\ \A s \in Surface : Runs(s) => /\ s \in attached
                                     /\ PageOK(page[s], snapshot)
                                     /\ hash[s] = page[s].saved
    /\ toPage \in [Surface -> Seq(Sent(snapshot))]
    /\ toHost \in [Surface -> Seq(Heard(snapshot))]
    /\ spent \in [{"user", "steps"} -> Nat]

\* A route starts at the focus, in a page and in what one saved.
RouteStarts(p) == p.route # NoRoute => p.route[1] = p.focus
RoutesStart == /\ \A s \in Surface : Runs(s) => RouteStarts(page[s])
               /\ \A s \in Surface : RouteStarts(hash[s])

\* A page that has graph g reads message k of its queue q when it has graph h.
Reads(q, k, g, h) ==
    \/ h = g /\ \A i \in 1..(k - 1) : q[i].type # "graph"
    \/ \E j \in 1..(k - 1) : /\ q[j].type = "graph" /\ q[j].graph = h
                             /\ \A i \in (j + 1)..(k - 1) : q[i].type # "graph"

\* Message k will focus its node: the page has the node by then.
Counts(q, k, g) ==
    /\ q[k].type = "focus"
    /\ \E h \in {NoGraph} \cup Known(Len(Graphs)) : Reads(q, k, g, h) /\ q[k].id \in h.nodes

IsReady(msg) == msg.type = "ready"
Greets(o) == \E i \in 1..Len(o) : IsReady(o[i])

\* What page p with queue q will know, and what the extension will know of it once
\* it has read o.
Current(p, q, o, isReady, g) == Greets(o) \/ (isReady /\ Reads(q, Len(q) + 1, p.graph, g))
Reported(p, o) == o # <<>> => \/ IsReady(o[Len(o)])
                              \/ p.focus = NoNode
                              \/ o[Len(o)].id = p.focus
Follows(p, q, o, id) ==
    /\ o = <<>> /\ id # NoNode
    /\ \A k \in 1..Len(q) : Counts(q, k, p.graph) => q[k].id = p.focus
    => p.focus \in {id, NoNode}
InStep(p, q, o, isReady, id, g) == Current(p, q, o, isReady, g) /\ Reported(p, o) /\ Follows(p, q, o, id)

\* The focus of the window binds the pages unless a snapshot dropped its node.
Kept(id) == IF Stayed(id) THEN id ELSE NoNode

AllInStep == \A s \in Surface :
    Runs(s) => InStep(page[s], toPage[s], toHost[s], s \in ready, Kept(focusedId), Graphs[snapshot])

IInv == Shape /\ RoutesStart /\ AllInStep

-----------------------------------------------------------------------------
(* What the view lays out is of its graph                                   *)

LEMMA LeastOfNat ==
    ASSUME NEW T \in SUBSET Nat, T # {}
    PROVE  \E m \in T : \A k \in T : m <= k
<1> DEFINE R == {ss \in Nat \X Nat : ss[1] < ss[2]}
<1>1. IsWellFoundedOn(R, Nat)
  BY NatLessThanWellFounded DEF OpToRel
<1> HIDE DEF R
<1>2. PICK m \in T : \A y \in T : ~ (<<y, m>> \in R)
  BY <1>1, WFMin
<1>3. \A y \in T : ~(y < m)
  BY <1>2 DEF R
<1> QED BY <1>3

\* The recursion of Closure.
Grown(g, S) ==
    CHOOSE grown : grown = [k \in 0..Cardinality(Node) |->
        IF k = 0 THEN S ELSE With(g, grown[k - 1])]

LEMMA GrownIs ==
    ASSUME NEW g, NEW S
    PROVE  /\ Cardinality(Node) \in Nat
           /\ Grown(g, S) = [k \in 0..Cardinality(Node) |->
                                IF k = 0 THEN S ELSE With(g, Grown(g, S)[k - 1])]
<1> DEFINE n == Cardinality(Node)
           Solves(f, m) == f = [k \in 0..m |-> IF k = 0 THEN S ELSE With(g, f[k - 1])]
           T == {m \in 0..n : ~ \E f : Solves(f, m)}
<1>0. n \in Nat
  BY NodeAssumption, FS_CardinalityType
<1>1. \E f : Solves(f, n)
  <2> HIDE DEF n
  <2>0. n \in 0..n
    BY <1>0
  <2> SUFFICES ASSUME T # {} PROVE FALSE
    <3> HIDE DEF Solves
    <3> QED BY <2>0
  <2>1. T \in SUBSET Nat
    BY <1>0
  <2>2. PICK m \in T : \A k \in T : m <= k
    <3> HIDE DEF T
    <3> QED BY <2>1, LeastOfNat
  <2>3. m # 0
    <3>1. Solves([k \in 0..0 |-> S], 0)
      OBVIOUS
    <3> QED BY <3>1
  <2>4. m - 1 \in 0..n /\ m - 1 \notin T
    <3>1. m \in 0..n
      OBVIOUS
    <3> HIDE DEF T
    <3> QED BY <1>0, <2>2, <2>3, <3>1
  <2>5. PICK f : Solves(f, m - 1)
    <3> HIDE DEF Solves
    <3> QED BY <2>4
  <2> DEFINE h == [k \in 0..m |-> IF k = m THEN With(g, f[m - 1]) ELSE f[k]]
  <2>6. \A k \in 0..(m - 1) : h[k] = f[k] /\ (k # 0 => k - 1 \in 0..(m - 1))
    BY <1>0, <2>4
  <2>7. m \in Nat /\ \A k \in 0..m : k = m \/ k \in 0..(m - 1)
    BY <1>0, <2>4
  <2>8. h[m] = With(g, h[m - 1])
    BY <2>3, <2>4, <2>6, <2>7
  <2>9. \A k \in 0..(m - 1) : h[k] = IF k = 0 THEN S ELSE With(g, h[k - 1])
    <3> HIDE DEF h
    <3>1. \A k \in 0..(m - 1) : f[k] = IF k = 0 THEN S ELSE With(g, f[k - 1])
      BY <2>5
    <3> QED BY <2>6, <3>1
  <2>10. Solves(h, m)
    BY <2>3, <2>7, <2>8, <2>9
  <2> QED BY <2>10
<1> QED BY <1>0, <1>1 DEF Grown

\* What a graph shows are nodes of it.
GraphOK(g) == g = NoGraph \/ \E i \in DOMAIN Graphs : g = Graphs[i]

LEMMA GraphHas ==
    ASSUME NEW g, GraphOK(g)
    PROVE  g.active \subseteq g.nodes /\ g.nodes \subseteq Node
<1>1. CASE g = NoGraph
  BY <1>1 DEF NoGraph
<1>2. CASE \E i \in DOMAIN Graphs : g = Graphs[i]
  <2>1. g \in Graph
    BY <1>2, GraphsAssumption
  <2> QED BY <1>2, <2>1, GraphsAssumption DEF Graph
<1> QED BY <1>1, <1>2 DEF GraphOK

LEMMA PlacedIsOfGraph ==
    ASSUME NEW p, GraphOK(p.graph)
    PROVE  Placed(p) \subseteq p.graph.nodes
<1> DEFINE g == p.graph
           n == Cardinality(Node)
           S == IF p.inactive THEN g.nodes ELSE g.active
           G == Grown(g, S)
           T == {k \in 0..n : ~(G[k] \subseteq g.nodes)}
<1>1. /\ n \in Nat
      /\ \A k \in 0..n : G[k] = IF k = 0 THEN S ELSE With(g, G[k - 1])
  <2> HIDE DEF g, S
  <2>1. n \in Nat /\ G = [k \in 0..n |-> IF k = 0 THEN S ELSE With(g, G[k - 1])]
    BY GrownIs
  <2> HIDE DEF G, n
  <2> QED BY <2>1
<1>2. S \subseteq g.nodes
  BY GraphHas
<1>3. Placed(p) = G[n]
  BY DEF Placed, Visible, Closure, Grown
<1> HIDE DEF g, n, S, G
<1>4. T = {}
  <2> SUFFICES ASSUME T # {} PROVE FALSE
    OBVIOUS
  <2>1. T \in SUBSET Nat
    BY <1>1
  <2>2. PICK m \in T : \A k \in T : m <= k
    <3> HIDE DEF T
    <3> QED BY <2>1, LeastOfNat
  <2>3. m \in 0..n /\ ~(G[m] \subseteq g.nodes)
    OBVIOUS
  <2>4. m # 0
    BY <1>1, <1>2, <2>3
  <2>5. m - 1 \in 0..n /\ m - 1 \notin T
    <3> HIDE DEF T
    <3> QED BY <1>1, <2>2, <2>3, <2>4
  <2>6. G[m - 1] \subseteq g.nodes
    BY <2>5
  <2>7. G[m] = With(g, G[m - 1])
    BY <1>1, <2>3, <2>4
  <2> QED BY <2>3, <2>6, <2>7 DEF With
<1>5. n \in 0..n
  BY <1>1
<1> QED BY <1>3, <1>4, <1>5 DEF g

-----------------------------------------------------------------------------
(* The page: what a step of it makes of focus, route and what it tells      *)

\* The page goes on with its graph, a route starts at the focus, and a focus that
\* it did not have is a node of its graph and is told.
Moves(p, q) ==
    /\ q \in Page /\ q.graph = p.graph
    /\ q.saved.focus = q.focus
    /\ RouteStarts(q) /\ RouteStarts(q.saved)
    /\ \/ q.out = <<>> /\ q.focus \in {p.focus, NoNode}
       \/ q.focus \in p.graph.nodes /\ q.out = <<[type |-> "focused", id |-> q.focus]>>

\* A page that is ready to step.
Steady(p) ==
    /\ p \in Page /\ p.out = <<>> /\ GraphOK(p.graph)
    /\ p.saved.focus = p.focus
    /\ RouteStarts(p) /\ RouteStarts(p.saved)

LEMMA FrameIs ==
    ASSUME NEW p \in Page
    PROVE  /\ Frame(p) \in Page
           /\ Frame(p).focus = p.focus /\ Frame(p).route = p.route /\ Frame(p).graph = p.graph
           /\ Frame(p).saved = p.saved /\ Frame(p).out = p.out
BY DEF Frame, Page

LEMMA RelayoutIs ==
    ASSUME NEW p \in Page, NEW keepView \in BOOLEAN
    PROVE  LET r == Relayout(p, keepView) IN
           /\ r \in Page
           /\ r.focus = p.focus /\ r.route = p.route /\ r.graph = p.graph
           /\ r.saved = p.saved /\ r.out = p.out
<1>1. CASE keepView \/ Placed(p) = {}
  BY <1>1 DEF Relayout
<1>2. CASE ~(keepView \/ Placed(p) = {})
  <2>1. Relayout(p, keepView) = [Frame(p) EXCEPT !.framed = TRUE]
    BY <1>2 DEF Relayout
  <2> DEFINE f == Frame(p)
  <2>2. /\ f \in Page
        /\ f.focus = p.focus /\ f.route = p.route /\ f.graph = p.graph
        /\ f.saved = p.saved /\ f.out = p.out
    BY FrameIs
  <2> HIDE DEF f
  <2>3. /\ [f EXCEPT !.framed = TRUE] \in Page
        /\ [f EXCEPT !.framed = TRUE].focus = f.focus
        /\ [f EXCEPT !.framed = TRUE].route = f.route
        /\ [f EXCEPT !.framed = TRUE].graph = f.graph
        /\ [f EXCEPT !.framed = TRUE].saved = f.saved
        /\ [f EXCEPT !.framed = TRUE].out = f.out
    BY <2>2 DEF Page
  <2> QED BY <2>1, <2>2, <2>3 DEF f
<1> QED BY <1>1, <1>2

LEMMA FormatHashIs ==
    ASSUME NEW p \in Page
    PROVE  /\ FormatHash(p) \in Saved
           /\ FormatHash(p).focus = p.focus /\ FormatHash(p).route = p.route
BY DEF FormatHash, Page, Saved, Reach, Direction

\* Whatever was patched: the saved state follows, and a new focus is told.
LEMMA SettleIs ==
    ASSUME NEW p \in Page, p.out = <<>>, NEW q \in Page
    PROVE  LET r == Settle(p, q) IN
           /\ r \in Page
           /\ r.focus = p.focus /\ r.route = p.route /\ r.graph = p.graph
           /\ r.saved.focus = p.focus /\ r.saved.route = p.route
           /\ r.out = IF p.focus \notin {NoNode, q.focus}
                      THEN <<[type |-> "focused", id |-> p.focus]>> ELSE <<>>
<1> DEFINE reached == IF p.focus = NoNode THEN [p EXCEPT !.reach = "both"] ELSE p
           laid == IF p.dir # q.dir \/ p.inactive # q.inactive
                   THEN Relayout(reached, FALSE) ELSE reached
           kept == [laid EXCEPT !.saved = FormatHash(laid)]
<1>1. /\ reached \in Page
      /\ reached.focus = p.focus /\ reached.route = p.route /\ reached.graph = p.graph
      /\ reached.out = p.out
  <2>1. CASE p.focus = NoNode
    <3>1. "both" \in Reach /\ reached = [p EXCEPT !.reach = "both"]
      BY <2>1 DEF Reach
    <3> QED BY <3>1 DEF Page
  <2>2. CASE p.focus # NoNode
    BY <2>2
  <2> QED BY <2>1, <2>2
<1> HIDE DEF reached
<1>2. /\ laid \in Page
      /\ laid.focus = p.focus /\ laid.route = p.route /\ laid.graph = p.graph
      /\ laid.out = p.out
  <2>1. /\ Relayout(reached, FALSE) \in Page
        /\ Relayout(reached, FALSE).focus = reached.focus
        /\ Relayout(reached, FALSE).route = reached.route
        /\ Relayout(reached, FALSE).graph = reached.graph
        /\ Relayout(reached, FALSE).out = reached.out
    BY <1>1, RelayoutIs
  <2> QED BY <1>1, <2>1
<1> HIDE DEF laid
<1>3. /\ FormatHash(laid) \in Saved
      /\ FormatHash(laid).focus = p.focus /\ FormatHash(laid).route = p.route
  BY <1>2, FormatHashIs
<1>4. /\ kept \in Page
      /\ kept.focus = p.focus /\ kept.route = p.route /\ kept.graph = p.graph
      /\ kept.out = <<>> /\ kept.saved = FormatHash(laid)
  BY <1>2, <1>3 DEF Page
<1>5. Settle(p, q) = IF p.focus \notin {NoNode, q.focus}
                     THEN Post(kept, [type |-> "focused", id |-> p.focus]) ELSE kept
  BY DEF Settle, kept, laid, reached
<1> HIDE DEF kept
<1> DEFINE msg == [type |-> "focused", id |-> p.focus]
           told == Post(kept, msg)
<1>6. ASSUME p.focus \notin {NoNode, q.focus}
      PROVE  /\ told \in Page
             /\ told.focus = p.focus /\ told.route = p.route /\ told.graph = p.graph
             /\ told.saved = kept.saved /\ told.out = <<msg>>
  <2>1. p.focus \in Node
    BY <1>6 DEF Page
  <2>2. msg \in Posted
    BY <2>1 DEF Posted
  <2>3. Append(<<>>, msg) = <<msg>> /\ <<msg>> \in Seq(Posted)
    <3> HIDE DEF msg
    <3> QED BY <2>2
  <2>4. told = [kept EXCEPT !.out = <<msg>>]
    <3> HIDE DEF msg
    <3> QED BY <1>4, <2>3 DEF Post
  <2> HIDE DEF told, msg
  <2> QED BY <1>4, <2>3, <2>4 DEF Page
<1> QED BY <1>3, <1>4, <1>5, <1>6 DEF told, msg

\* What is settled is a step of the page.
LEMMA SettledMoves ==
    ASSUME NEW p, Steady(p), NEW q \in Page,
           q.out = <<>>, q.graph = p.graph, RouteStarts(q),
           q.focus \in {p.focus, NoNode} \cup p.graph.nodes
    PROVE  Moves(p, Settle(q, p))
<1> DEFINE r == Settle(q, p)
<1>1. /\ r \in Page
      /\ r.focus = q.focus /\ r.route = q.route /\ r.graph = q.graph
      /\ r.saved.focus = q.focus /\ r.saved.route = q.route
      /\ r.out = IF q.focus \notin {NoNode, p.focus}
                 THEN <<[type |-> "focused", id |-> q.focus]>> ELSE <<>>
  BY SettleIs DEF Steady
<1> HIDE DEF r
<1>2. RouteStarts(r) /\ RouteStarts(r.saved)
  BY <1>1 DEF RouteStarts
<1> SUFFICES Moves(p, r)
  BY DEF r
<1>3. CASE q.focus \notin {NoNode, p.focus}
  BY <1>1, <1>2, <1>3 DEF Moves
<1>4. CASE q.focus \in {NoNode, p.focus}
  BY <1>1, <1>2, <1>4 DEF Moves
<1> QED BY <1>3, <1>4

\* So is what leaves focus, route and the saved state alone.
LEMMA KeptMoves ==
    ASSUME NEW p, Steady(p), NEW q \in Page,
           q.focus = p.focus, q.route = p.route, q.graph = p.graph,
           q.saved = p.saved, q.out = p.out
    PROVE  Moves(p, q)
BY DEF Moves, Steady, RouteStarts

LEMMA FramedMoves ==
    ASSUME NEW p, NEW q, Moves(p, q)
    PROVE  Moves(p, Frame(q)) /\ \A r \in Reveals(q) : Moves(p, r)
<1> DEFINE r == Frame(q)
<1>1. /\ r \in Page
      /\ r.focus = q.focus /\ r.route = q.route /\ r.graph = q.graph
      /\ r.saved = q.saved /\ r.out = q.out
  BY FrameIs DEF Moves
<1>2. Reveals(q) = {q, r}
  BY DEF Reveals
<1> HIDE DEF r
<1>3. Moves(p, r)
  BY <1>1 DEF Moves, RouteStarts
<1> QED BY <1>2, <1>3 DEF r

LEMMA FocusOnMoves ==
    ASSUME NEW p, Steady(p), NEW id \in p.graph.nodes
    PROVE  Moves(p, FocusOn(p, id))
<1> DEFINE wide == (p.inactive \/ id \notin p.graph.active \cup Placed(p))
           q == [p EXCEPT !.focus = id, !.route = NoRoute, !.inactive = wide]
<1>1. p \in Page /\ id \in Node /\ wide \in BOOLEAN
  BY GraphHas DEF Steady, Page
<1> HIDE DEF wide
<1>2. /\ q \in Page /\ q.out = p.out /\ q.graph = p.graph
      /\ q.focus = id /\ q.route = NoRoute
  BY <1>1 DEF Page
<1>3. FocusOn(p, id) = Settle(q, p)
  BY <1>1 DEF FocusOn, q, wide, Page
<1> HIDE DEF q
<1>4. RouteStarts(q)
  BY <1>2 DEF RouteStarts
<1> QED BY <1>2, <1>3, <1>4, SettledMoves DEF Steady

LEMMA PickNodeMoves ==
    ASSUME NEW p, Steady(p), NEW id \in p.graph.nodes
    PROVE  Moves(p, PickNode(p, id))
<1>1. p \in Page /\ id \in Node
  BY GraphHas DEF Steady
<1>2. CASE CompletesProbe(p, id)
  <2> DEFINE q == [p EXCEPT !.picking = FALSE, !.route = <<p.focus, id>>]
  <2>0. p.focus \in Node
    BY <1>1, <1>2 DEF CompletesProbe, Page
  <2>1. <<p.focus, id>> \in Node \X Node /\ <<p.focus, id>>[1] = p.focus
    BY <1>1, <2>0
  <2>2. /\ q \in Page /\ q.out = p.out /\ q.graph = p.graph
        /\ q.focus = p.focus /\ q.route = <<p.focus, id>>
    BY <1>1, <2>1 DEF Page
  <2>3. PickNode(p, id) = Frame(Settle(q, p))
    BY <1>2 DEF PickNode
  <2> HIDE DEF q
  <2>4. RouteStarts(q)
    BY <2>1, <2>2 DEF RouteStarts
  <2>5. Moves(p, Settle(q, p))
    BY <2>2, <2>4, SettledMoves DEF Steady
  <2> QED BY <2>3, <2>5, FramedMoves
<1>3. CASE ~CompletesProbe(p, id)
  <2> DEFINE q == [p EXCEPT !.focus = id, !.route = NoRoute]
  <2>1. /\ q \in Page /\ q.out = p.out /\ q.graph = p.graph
        /\ q.focus = id /\ q.route = NoRoute
    BY <1>1 DEF Page
  <2>2. PickNode(p, id) = Settle(q, p)
    BY <1>3 DEF PickNode
  <2> HIDE DEF q
  <2>3. RouteStarts(q)
    BY <2>1 DEF RouteStarts
  <2> QED BY <2>1, <2>2, <2>3, SettledMoves DEF Steady
<1> QED BY <1>2, <1>3

LEMMA UnfocusMoves ==
    ASSUME NEW p, Steady(p)
    PROVE  Moves(p, Unfocus(p))
<1> DEFINE q == [p EXCEPT !.focus = NoNode, !.route = NoRoute]
<1>1. /\ q \in Page /\ q.out = p.out /\ q.graph = p.graph
      /\ q.focus = NoNode /\ q.route = NoRoute
  BY DEF Steady, Page
<1>2. Unfocus(p) = Settle(q, p)
  BY DEF Unfocus
<1> HIDE DEF q
<1>3. RouteStarts(q)
  BY <1>1 DEF RouteStarts
<1> QED BY <1>1, <1>2, <1>3, SettledMoves DEF Steady

\* Whether the probe, the presentation, the help or the camera changes.
LEMMA ModesMove ==
    ASSUME NEW p, Steady(p), NEW picking \in BOOLEAN, NEW presenting \in BOOLEAN,
           NEW help \in BOOLEAN
    PROVE  /\ Moves(p, [p EXCEPT !.picking = picking])
           /\ Moves(p, [p EXCEPT !.help = help])
           /\ Moves(p, [p EXCEPT !.adjusted = TRUE])
           /\ Moves(p, Frame([p EXCEPT !.presenting = presenting]))
           /\ Moves(p, Frame(p)) /\ Moves(p, p)
<1>1. ASSUME NEW q \in Page, q.focus = p.focus, q.route = p.route, q.graph = p.graph,
             q.saved = p.saved, q.out = p.out
      PROVE  Moves(p, q) /\ Moves(p, Frame(q))
  <2>1. Moves(p, q)
    BY <1>1, KeptMoves
  <2> QED BY <2>1, FramedMoves
<1> DEFINE Like(q) == /\ q \in Page
                      /\ q.focus = p.focus /\ q.route = p.route /\ q.graph = p.graph
                      /\ q.saved = p.saved /\ q.out = p.out
<1>2. Like([p EXCEPT !.picking = picking])
  BY DEF Steady, Page
<1>3. Like([p EXCEPT !.help = help])
  BY DEF Steady, Page
<1>4. Like([p EXCEPT !.adjusted = TRUE])
  BY DEF Steady, Page
<1>5. Like([p EXCEPT !.presenting = presenting])
  BY DEF Steady, Page
<1>6. Like(p)
  BY DEF Steady
<1>7. ASSUME NEW q, Like(q) PROVE Moves(p, q) /\ Moves(p, Frame(q))
  BY <1>1, <1>7
<1> HIDE DEF Like
<1> QED BY <1>2, <1>3, <1>4, <1>5, <1>6, <1>7

LEMMA ClickMoves ==
    ASSUME NEW p, Steady(p), NEW ids \in SUBSET p.graph.nodes, NEW r \in Click(p, ids)
    PROVE  Moves(p, r)
<1> DEFINE q == [p EXCEPT !.help = FALSE]
<1>1. /\ q \in Page /\ q.focus = p.focus /\ q.route = p.route /\ q.graph = p.graph
      /\ q.saved = p.saved /\ q.out = p.out
  BY DEF Steady, Page
<1>2. Click(p, ids) = {PickNode(q, id) : id \in ids} \cup {IF q.picking THEN q ELSE Unfocus(q)}
  BY DEF Click
<1> HIDE DEF q
<1>3. Steady(q)
  BY <1>1 DEF Steady, RouteStarts
<1>4. ASSUME Moves(q, r) PROVE Moves(p, r)
  BY <1>1, <1>4 DEF Moves
<1>5. \A id \in ids : Moves(q, PickNode(q, id))
  BY <1>1, <1>3, PickNodeMoves
<1>6. Moves(q, q) /\ Moves(q, Unfocus(q))
  BY <1>1, <1>3, KeptMoves, UnfocusMoves
<1>7. CASE r = IF q.picking THEN q ELSE Unfocus(q)
  BY <1>4, <1>6, <1>7
<1>8. CASE r \in {PickNode(q, id) : id \in ids}
  BY <1>4, <1>5, <1>8
<1> QED BY <1>2, <1>7, <1>8

LEMMA StepBackMoves ==
    ASSUME NEW p, Steady(p)
    PROVE  Moves(p, StepBack(p))
<1> USE ModesMove
<1>1. CASE p.help
  BY <1>1 DEF StepBack
<1>2. CASE ~p.help /\ p.picking
  <2>1. StepBack(p) = [p EXCEPT !.picking = FALSE]
    BY <1>2 DEF StepBack
  <2> QED BY <2>1
<1>3. CASE ~p.help /\ ~p.picking /\ p.presenting
  <2>1. StepBack(p) = Frame([p EXCEPT !.presenting = FALSE])
    BY <1>3 DEF StepBack
  <2> QED BY <2>1
<1>4. CASE ~p.help /\ ~p.picking /\ ~p.presenting
  <2> DEFINE q == IF p.route # NoRoute THEN [p EXCEPT !.route = NoRoute]
                  ELSE IF p.focus # NoNode THEN [p EXCEPT !.focus = NoNode]
                  ELSE [p EXCEPT !.lens = {}]
  <2>1. /\ q \in Page /\ q.out = p.out /\ q.graph = p.graph
        /\ q.focus \in {p.focus, NoNode} /\ q.route = NoRoute
    BY DEF Steady, Page
  <2>2. StepBack(p) = Settle(q, p)
    BY <1>4 DEF StepBack
  <2> HIDE DEF q
  <2>3. RouteStarts(q)
    BY <2>1 DEF RouteStarts
  <2> QED BY <2>1, <2>2, <2>3, SettledMoves DEF Steady
<1> QED BY <1>1, <1>2, <1>3, <1>4

LEMMA SwitchesMove ==
    ASSUME NEW p, Steady(p)
    PROVE  /\ Moves(p, Turn(p)) /\ Moves(p, ToggleInactive(p))
           /\ \A pressed \in Reach : Moves(p, RestrictReach(p, pressed))
           /\ \A key \in Lens : Moves(p, PressLens(p, key))
           /\ \A dir \in Direction : Moves(p, Configure(p, dir))
<1>1. ASSUME NEW q \in Page, q.focus = p.focus, q.route \in {p.route, NoRoute},
             q.graph = p.graph, q.out = p.out
      PROVE  Moves(p, Settle(q, p))
  <2>1. RouteStarts(q)
    BY <1>1 DEF Steady, RouteStarts
  <2> QED BY <1>1, <2>1, SettledMoves DEF Steady
<1> DEFINE Like(q) == /\ q \in Page
                      /\ q.focus = p.focus /\ q.route \in {p.route, NoRoute}
                      /\ q.graph = p.graph /\ q.out = p.out
<1>2. ASSUME NEW q, Like(q) PROVE Moves(p, Settle(q, p))
  BY <1>1, <1>2
<1>3. ASSUME NEW pressed \in Reach PROVE Moves(p, RestrictReach(p, pressed))
  <2> DEFINE reach == IF p.reach = pressed THEN "both" ELSE pressed
  <2>1. reach \in Reach
    BY DEF Reach
  <2> HIDE DEF reach
  <2>2. Like([p EXCEPT !.reach = reach, !.route = NoRoute])
    BY <2>1 DEF Steady, Page
  <2>3. [p EXCEPT !.reach = IF @ = pressed THEN "both" ELSE pressed, !.route = NoRoute]
           = [p EXCEPT !.reach = reach, !.route = NoRoute]
    BY DEF Steady, Page, reach
  <2> HIDE DEF Like
  <2> QED BY <1>2, <2>2, <2>3, ModesMove DEF RestrictReach
<1>4. Moves(p, Turn(p))
  <2> DEFINE turned == IF p.dir = "lr" THEN "td" ELSE "lr"
  <2>1. turned \in Direction
    BY DEF Direction
  <2> HIDE DEF turned
  <2>2. Like([p EXCEPT !.dir = turned])
    BY <2>1 DEF Steady, Page
  <2>3. [p EXCEPT !.dir = IF @ = "lr" THEN "td" ELSE "lr"] = [p EXCEPT !.dir = turned]
    BY DEF Steady, Page, turned
  <2> HIDE DEF Like
  <2> QED BY <1>2, <2>2, <2>3 DEF Turn
<1>5. Moves(p, ToggleInactive(p))
  <2> DEFINE other == ~p.inactive
  <2>1. other \in BOOLEAN
    OBVIOUS
  <2> HIDE DEF other
  <2>2. Like([p EXCEPT !.inactive = other])
    BY <2>1 DEF Steady, Page
  <2>3. [p EXCEPT !.inactive = ~@] = [p EXCEPT !.inactive = other]
    BY DEF Steady, Page, other
  <2> HIDE DEF Like
  <2> QED BY <1>2, <2>2, <2>3 DEF ToggleInactive
<1>6. ASSUME NEW key \in Lens PROVE Moves(p, PressLens(p, key))
  <2> DEFINE lens == IF key \in p.lens THEN p.lens \ {key} ELSE p.lens \cup {key}
  <2>1. lens \in SUBSET Lens
    BY DEF Steady, Page
  <2> HIDE DEF lens
  <2>2. Like([p EXCEPT !.lens = lens])
    BY <2>1 DEF Steady, Page
  <2>3. [p EXCEPT !.lens = IF key \in @ THEN @ \ {key} ELSE @ \cup {key}]
           = [p EXCEPT !.lens = lens]
    BY DEF Steady, Page, lens
  <2> HIDE DEF Like
  <2> QED BY <1>2, <2>2, <2>3 DEF PressLens
<1>7. ASSUME NEW dir \in Direction PROVE Moves(p, Configure(p, dir))
  <2>1. Like([p EXCEPT !.default = dir, !.dir = dir])
    BY DEF Steady, Page
  <2> HIDE DEF Like
  <2> QED BY <1>2, <2>1 DEF Configure
<1> QED BY <1>3, <1>4, <1>5, <1>6, <1>7

LEMMA UserMoves ==
    ASSUME NEW p, Steady(p), NEW r \in UserSteps(p)
    PROVE  Moves(p, r)
<1>1. Placed(p) \subseteq p.graph.nodes
  BY PlacedIsOfGraph DEF Steady
<1>2. CASE r \in Click(p, Placed(p))
  BY <1>1, <1>2, ClickMoves
<1>3. CASE r \in UNION {Reveals(PickNode(p, n)) : n \in Placed(p)}
  <2>1. PICK n \in Placed(p) : r \in Reveals(PickNode(p, n))
    BY <1>3
  <2>2. Moves(p, PickNode(p, n))
    BY <1>1, PickNodeMoves
  <2> QED BY <2>1, <2>2, FramedMoves
<1>4. CASE r \in UNION {Reveals(FocusOn(p, n)) : n \in p.graph.nodes}
  <2>1. PICK n \in p.graph.nodes : r \in Reveals(FocusOn(p, n))
    BY <1>4
  <2>2. Moves(p, FocusOn(p, n))
    BY FocusOnMoves
  <2> QED BY <2>1, <2>2, FramedMoves
<1>5. CASE r \in {Unfocus(p), StepBack(p), Turn(p), ToggleInactive(p), Present(p), Frame(p)}
  <2>1. Moves(p, Unfocus(p)) /\ Moves(p, StepBack(p))
    BY UnfocusMoves, StepBackMoves
  <2>2. Moves(p, Turn(p)) /\ Moves(p, ToggleInactive(p))
    BY SwitchesMove
  <2>5. Moves(p, Present(p))
    <3> DEFINE other == ~p.presenting
    <3>1. other \in BOOLEAN
      OBVIOUS
    <3> HIDE DEF other
    <3>2. [p EXCEPT !.presenting = ~@] = [p EXCEPT !.presenting = other]
      BY DEF Steady, Page, other
    <3> QED BY <3>1, <3>2, ModesMove DEF Present
  <2>6. Moves(p, Frame(p))
    BY ModesMove
  <2> QED BY <1>5, <2>1, <2>2, <2>5, <2>6
<1>6. CASE r \in {RestrictReach(p, w) : w \in Reach \ {"both"}}
  BY <1>6, SwitchesMove
<1>7. CASE r \in {PressLens(p, key) : key \in Lens}
  <2>1. PICK key \in Lens : r = PressLens(p, key)
    BY <1>7
  <2> QED BY <2>1, SwitchesMove
<1>8. CASE r \in {[p EXCEPT !.picking = ~@], [p EXCEPT !.help = ~@]}
  <2> DEFINE picking == ~p.picking
             help == ~p.help
  <2>1. picking \in BOOLEAN /\ help \in BOOLEAN
    OBVIOUS
  <2> HIDE DEF picking, help
  <2>2. /\ [p EXCEPT !.picking = ~@] = [p EXCEPT !.picking = picking]
        /\ [p EXCEPT !.help = ~@] = [p EXCEPT !.help = help]
    BY DEF Steady, Page, picking, help
  <2>3. r = [p EXCEPT !.picking = picking] \/ r = [p EXCEPT !.help = help]
    BY <1>8, <2>2
  <2>4. TRUE \in BOOLEAN
    OBVIOUS
  <2> QED BY <2>1, <2>3, <2>4, ModesMove
<1>9. CASE r = [p EXCEPT !.adjusted = TRUE]
  BY <1>9, ModesMove
<1> DEFINE C1 == Click(p, Placed(p))
           C2 == UNION {Reveals(PickNode(p, n)) : n \in Placed(p)}
           C3 == UNION {Reveals(FocusOn(p, n)) : n \in p.graph.nodes}
           C4 == {Unfocus(p), StepBack(p), Turn(p), ToggleInactive(p), Present(p), Frame(p)}
           C5 == {RestrictReach(p, w) : w \in Reach \ {"both"}}
           C6 == {PressLens(p, key) : key \in Lens}
           C7 == {[p EXCEPT !.picking = ~@], [p EXCEPT !.help = ~@]}
           C8 == {[p EXCEPT !.adjusted = TRUE]}
<1>10. UserSteps(p) = C1 \cup C2 \cup C3 \cup C4 \cup C5 \cup C6 \cup C7 \cup C8
  BY DEF UserSteps
<1>11. r \in C8 => r = [p EXCEPT !.adjusted = TRUE]
  OBVIOUS
<1> HIDE DEF C8
<1>12. r \in C1 \/ r \in C2 \/ r \in C3 \/ r \in C4 \/ r \in C5 \/ r \in C6 \/ r \in C7
         \/ r = [p EXCEPT !.adjusted = TRUE]
  <2> HIDE DEF C1, C2, C3, C4, C5, C6, C7
  <2> QED BY <1>10, <1>11
<1> QED BY <1>2, <1>3, <1>4, <1>5, <1>6, <1>7, <1>8, <1>9, <1>12

\* What a message makes of a page: a node that its graph has becomes the focus.
Handles(p, msg, r) ==
    /\ r \in Page
    /\ r.graph = IF msg.type = "graph" THEN msg.graph ELSE p.graph
    /\ r.saved.focus = r.focus
    /\ RouteStarts(r) /\ RouteStarts(r.saved)
    /\ \/ r.out = <<>> /\ r.focus \in {p.focus, NoNode}
       \/ r.focus \in p.graph.nodes /\ r.out = <<[type |-> "focused", id |-> r.focus]>>
    /\ msg.type = "focus" /\ msg.id \in p.graph.nodes => r.focus = msg.id

LEMMA FocusOnFocuses ==
    ASSUME NEW p, Steady(p), NEW id \in p.graph.nodes
    PROVE  FocusOn(p, id).focus = id /\ Frame(FocusOn(p, id)).focus = id
<1> DEFINE wide == (p.inactive \/ id \notin p.graph.active \cup Placed(p))
           q == [p EXCEPT !.focus = id, !.route = NoRoute, !.inactive = wide]
<1>1. p \in Page /\ id \in Node /\ wide \in BOOLEAN /\ p.out = <<>>
  BY GraphHas DEF Steady, Page
<1> HIDE DEF wide
<1>2. q \in Page /\ q.focus = id /\ q.out = <<>>
  BY <1>1 DEF Page
<1>3. FocusOn(p, id) = Settle(q, p)
  BY <1>1 DEF FocusOn, q, wide, Page
<1> HIDE DEF q
<1>4. Settle(q, p) \in Page /\ Settle(q, p).focus = id
  BY <1>1, <1>2, SettleIs
<1> QED BY <1>3, <1>4, FrameIs

LEMMA HandleIs ==
    ASSUME NEW p, Steady(p), NEW v \in 1..Len(Graphs), NEW msg \in Sent(v), NEW r \in Handle(p, msg)
    PROVE  Handles(p, msg, r)
<1>1. CASE msg.type = "graph"
  <2>1. msg.graph \in Known(v)
    BY <1>1 DEF Sent
  <2>2. Handle(p, msg) = {SetGraph(p, msg.graph)}
    BY <1>1 DEF Handle
  <2> DEFINE q == [p EXCEPT !.graph = msg.graph]
             keep == (p.framed /\ p.adjusted /\ msg.graph.papers = p.graph.papers)
  <2>3. msg.graph \in {Graphs[i] : i \in DOMAIN Graphs}
    BY <2>1, GraphsAssumption DEF Known
  <2>4. /\ q \in Page /\ q.graph = msg.graph /\ q.focus = p.focus
        /\ q.route = p.route /\ q.saved = p.saved /\ q.out = p.out
    BY <2>3 DEF Steady, Page
  <2>5. keep \in BOOLEAN
    OBVIOUS
  <2>6. r = Relayout(q, keep)
    BY <2>2 DEF SetGraph
  <2> HIDE DEF q, keep
  <2>7. /\ r \in Page /\ r.focus = q.focus /\ r.route = q.route /\ r.graph = q.graph
        /\ r.saved = q.saved /\ r.out = q.out
    BY <2>4, <2>5, <2>6, RelayoutIs
  <2> QED BY <1>1, <2>4, <2>7 DEF Steady, RouteStarts, Handles
<1>2. CASE msg.type = "config"
  <2>1. msg.dir \in Direction
    BY <1>2 DEF Sent
  <2>2. Handle(p, msg) = {Configure(p, msg.dir)}
    BY <1>2 DEF Handle
  <2>3. Moves(p, r)
    BY <2>1, <2>2, SwitchesMove
  <2> QED BY <1>2, <2>3 DEF Moves, Handles
<1>3. CASE msg.type = "focus" /\ msg.id \in p.graph.nodes
  <2>1. Handle(p, msg) = Reveals(FocusOn(p, msg.id))
    BY <1>3 DEF Handle
  <2>2. Moves(p, r)
    BY <1>3, <2>1, FocusOnMoves, FramedMoves
  <2>3. r.focus = msg.id
    BY <1>3, <2>1, FocusOnFocuses DEF Reveals
  <2> QED BY <1>3, <2>2, <2>3 DEF Moves, Handles
<1>4. CASE msg.type = "focus" /\ msg.id \notin p.graph.nodes
  <2>1. r = p
    BY <1>4 DEF Handle
  <2> QED BY <1>4, <2>1 DEF Steady, Handles
<1>5. msg.type \in {"graph", "config", "focus"}
  BY DEF Sent
<1> QED BY <1>1, <1>2, <1>3, <1>4, <1>5

\* A page starts with what was saved, greets and knows no graph yet.
LEMMA MountIs ==
    ASSUME NEW was \in Saved, RouteStarts(was), NEW dir \in Direction
    PROVE  LET p == Mount(was, dir) IN
           /\ p \in Page /\ p.graph = NoGraph /\ p.focus = was.focus
           /\ p.saved = was /\ RouteStarts(p) /\ p.out = <<[type |-> "ready"]>>
<1> DEFINE p == Mount(was, dir)
<1>1. <<[type |-> "ready"]>> \in Seq(Posted)
  <2> DEFINE msg == [type |-> "ready"]
  <2>1. msg \in Posted
    BY DEF Posted
  <2> HIDE DEF msg
  <2>2. <<msg>> \in Seq(Posted)
    BY <2>1
  <2> QED BY <2>2 DEF msg
<1>2. /\ p.graph = NoGraph /\ p.focus = was.focus /\ p.route = was.route
      /\ p.saved = was /\ p.out = <<[type |-> "ready"]>>
  BY DEF Mount
<1>3. p \in Page
  BY <1>1 DEF Mount, Page, Saved, Direction, Reach
<1>4. RouteStarts(p)
  BY <1>2 DEF RouteStarts
<1> QED BY <1>2, <1>3, <1>4

-----------------------------------------------------------------------------
(* Queues: what a page has when it reads a message                          *)

\* A message at the end changes nothing for those before it.
LEMMA ReadsAppend ==
    ASSUME NEW M, NEW q \in Seq(M), NEW m \in M, NEW g, NEW h
    PROVE  /\ \A k \in 1..(Len(q) + 1) : Reads(Append(q, m), k, g, h) <=> Reads(q, k, g, h)
           /\ m.type # "graph" =>
                 (Reads(q, Len(q) + 1, g, h) => Reads(Append(q, m), Len(q) + 2, g, h))
           /\ m.type = "graph" /\ h = m.graph => Reads(Append(q, m), Len(q) + 2, g, h)
<1> DEFINE a == Append(q, m)
           n == Len(q)
<1>1. /\ n \in Nat /\ Len(a) = n + 1 /\ a[n + 1] = m
      /\ \A i \in 1..n : a[i] = q[i]
  BY AppendProperties
<1> HIDE DEF a, n
<1>2. ASSUME NEW k \in 1..(n + 1) PROVE Reads(a, k, g, h) <=> Reads(q, k, g, h)
  <2>1. \A i \in 1..(k - 1) : a[i] = q[i]
    BY <1>1
  <2>2. \A j \in 1..(k - 1) : \A i \in (j + 1)..(k - 1) : a[i] = q[i]
    BY <1>1
  <2> QED BY <2>1, <2>2 DEF Reads
<1>3. ASSUME m.type # "graph", Reads(q, n + 1, g, h) PROVE Reads(a, n + 2, g, h)
  <2>1. (n + 2) - 1 = n + 1 /\ (n + 1) - 1 = n
    BY <1>1
  <2>2. CASE h = g /\ \A i \in 1..n : q[i].type # "graph"
    <3>1. \A i \in 1..(n + 1) : i = n + 1 \/ i \in 1..n
      BY <1>1
    <3>2. \A i \in 1..(n + 1) : a[i].type # "graph"
      BY <1>1, <1>3, <2>2, <3>1
    <3> QED BY <2>1, <2>2, <3>2 DEF Reads
  <2>3. CASE \E j \in 1..n : /\ q[j].type = "graph" /\ q[j].graph = h
                             /\ \A i \in (j + 1)..n : q[i].type # "graph"
    <3>1. PICK j \in 1..n : /\ q[j].type = "graph" /\ q[j].graph = h
                            /\ \A i \in (j + 1)..n : q[i].type # "graph"
      BY <2>3
    <3>2. j \in 1..(n + 1) /\ a[j].type = "graph" /\ a[j].graph = h
      BY <1>1, <3>1
    <3>3. ASSUME NEW i \in (j + 1)..(n + 1) PROVE a[i].type # "graph"
      <4>1. CASE i = n + 1
        BY <1>1, <1>3, <4>1
      <4>2. CASE i # n + 1
        <5>1. i \in (j + 1)..n /\ i \in 1..n
          BY <1>1, <4>2
        <5> QED BY <1>1, <3>1, <5>1
      <4> QED BY <4>1, <4>2
    <3> QED BY <2>1, <3>2, <3>3 DEF Reads
  <2> QED BY <1>3, <2>1, <2>2, <2>3 DEF Reads
<1>4. ASSUME m.type = "graph", h = m.graph PROVE Reads(a, n + 2, g, h)
  <2>1. (n + 2) - 1 = n + 1 /\ n + 1 \in 1..(n + 1) /\ \A i : i \notin ((n + 1) + 1)..(n + 1)
    BY <1>1
  <2> QED BY <1>1, <1>4, <2>1 DEF Reads
<1> QED BY <1>2, <1>3, <1>4 DEF a, n

LEMMA CountsAppend ==
    ASSUME NEW M, NEW q \in Seq(M), NEW m \in M, NEW g
    PROVE  /\ \A k \in 1..Len(q) : Counts(q, k, g) => Counts(Append(q, m), k, g)
           /\ \A h \in {NoGraph} \cup Known(Len(Graphs)) :
                 m.type = "focus" /\ m.id \in h.nodes /\ Reads(q, Len(q) + 1, g, h)
                 => Counts(Append(q, m), Len(q) + 1, g)
<1> DEFINE a == Append(q, m)
           n == Len(q)
<1>1. /\ n \in Nat /\ Len(a) = n + 1 /\ a[n + 1] = m
      /\ \A i \in 1..n : a[i] = q[i]
  BY AppendProperties
<1>2. \A k \in 1..(n + 1) : \A h : Reads(a, k, g, h) <=> Reads(q, k, g, h)
  BY ReadsAppend
<1> HIDE DEF a, n
<1>3. ASSUME NEW k \in 1..n, Counts(q, k, g) PROVE Counts(a, k, g)
  <2>1. a[k] = q[k] /\ k \in 1..(n + 1)
    BY <1>1
  <2> QED BY <1>2, <1>3, <2>1 DEF Counts
<1>4. ASSUME NEW h \in {NoGraph} \cup Known(Len(Graphs)),
             m.type = "focus", m.id \in h.nodes, Reads(q, n + 1, g, h)
      PROVE  Counts(a, n + 1, g)
  <2>1. n + 1 \in 1..(n + 1)
    BY <1>1
  <2> QED BY <1>1, <1>2, <1>4, <2>1 DEF Counts
<1> QED BY <1>3, <1>4 DEF a, n

\* The page has read the first message.
After(q, g) == IF q[1].type = "graph" THEN q[1].graph ELSE g

LEMMA ReadsTail ==
    ASSUME NEW M, NEW q \in Seq(M), q # <<>>, NEW g, NEW h, NEW k \in 2..(Len(q) + 1)
    PROVE  Reads(q, k, g, h) => Reads(Tail(q), k - 1, After(q, g), h)
<1> DEFINE t == Tail(q)
           n == Len(q)
<1>1. /\ n \in Nat \ {0} /\ Len(t) = n - 1
      /\ \A i \in 1..(n - 1) : t[i] = q[i + 1]
  BY HeadTailProperties
<1> HIDE DEF t, n
<1>2. \A i \in 2..(k - 1) : i - 1 \in 1..(n - 1) /\ t[i - 1] = q[i]
  BY <1>1 DEF n
<1>3. \A i \in 1..((k - 1) - 1) : i + 1 \in 2..(k - 1) /\ t[i] = q[i + 1]
  BY <1>1 DEF n
<1>4. ASSUME h = g, \A i \in 1..(k - 1) : q[i].type # "graph"
      PROVE  Reads(t, k - 1, After(q, g), h)
  <2>1. 1 \in 1..(k - 1) /\ \A i \in 2..(k - 1) : i \in 1..(k - 1)
    OBVIOUS
  <2>2. After(q, g) = g
    BY <1>4, <2>1 DEF After
  <2>3. \A i \in 1..((k - 1) - 1) : t[i].type # "graph"
    BY <1>3, <1>4, <2>1
  <2> QED BY <1>4, <2>2, <2>3 DEF Reads
<1>5. ASSUME NEW j \in 1..(k - 1), q[j].type = "graph", q[j].graph = h,
             \A i \in (j + 1)..(k - 1) : q[i].type # "graph"
      PROVE  Reads(t, k - 1, After(q, g), h)
  <2>1. CASE j = 1
    <3>1. After(q, g) = h
      BY <1>5, <2>1 DEF After
    <3>2. \A i \in 1..((k - 1) - 1) : t[i].type # "graph"
      BY <1>3, <1>5, <2>1
    <3> QED BY <3>1, <3>2 DEF Reads
  <2>2. CASE j # 1
    <3> DEFINE l == j - 1
    <3>1. l \in 1..((k - 1) - 1) /\ j \in 2..(k - 1)
      BY <2>2
    <3>2. t[l] = q[j]
      BY <1>2, <3>1
    <3>3. \A i \in (l + 1)..((k - 1) - 1) : i + 1 \in (j + 1)..(k - 1) /\ t[i] = q[i + 1]
      BY <1>3, <3>1
    <3>4. \A i \in (l + 1)..((k - 1) - 1) : t[i].type # "graph"
      BY <1>5, <3>3
    <3> HIDE DEF l
    <3> QED BY <1>5, <3>1, <3>2, <3>4 DEF Reads
  <2> QED BY <2>1, <2>2
<1> QED BY <1>4, <1>5 DEF Reads, t

LEMMA CountsTail ==
    ASSUME NEW M, NEW q \in Seq(M), q # <<>>, NEW g, NEW k \in 2..Len(q), Counts(q, k, g)
    PROVE  Counts(Tail(q), k - 1, After(q, g)) /\ Tail(q)[k - 1] = q[k]
<1>1. /\ Len(q) \in Nat \ {0}
      /\ \A i \in 1..(Len(q) - 1) : Tail(q)[i] = q[i + 1]
  BY HeadTailProperties
<1>2. k - 1 \in 1..(Len(q) - 1) /\ (k - 1) + 1 = k /\ k \in 2..(Len(q) + 1)
  BY <1>1
<1>3. Tail(q)[k - 1] = q[k]
  BY <1>1, <1>2
<1>4. \A h : Reads(q, k, g, h) => Reads(Tail(q), k - 1, After(q, g), h)
  BY <1>2, ReadsTail
<1> QED BY <1>3, <1>4 DEF Counts

-----------------------------------------------------------------------------
(* Surfaces: each step keeps page, queues and extension in step             *)

\* More to read does no harm.
LEMMA FollowsAppend ==
    ASSUME NEW M, NEW q \in Seq(M), NEW m \in M, NEW p, NEW o, NEW id, Follows(p, q, o, id)
    PROVE  Follows(p, Append(q, m), o, id)
<1> DEFINE a == Append(q, m)
           n == Len(q)
<1>1. /\ n \in Nat /\ Len(a) = n + 1 /\ \A i \in 1..n : a[i] = q[i]
  BY AppendProperties
<1>2. \A k \in 1..n : Counts(q, k, p.graph) => Counts(a, k, p.graph)
  BY CountsAppend
<1> HIDE DEF a, n
<1>3. ASSUME \A k \in 1..Len(a) : Counts(a, k, p.graph) => a[k].id = p.focus
      PROVE  \A k \in 1..n : Counts(q, k, p.graph) => q[k].id = p.focus
  <2> TAKE k \in 1..n
  <2>1. k \in 1..Len(a)
    BY <1>1
  <2> QED BY <1>1, <1>2, <1>3, <2>1
<1> QED BY <1>3 DEF Follows, a, n

\* The graph of the next snapshot.
LEMMA SendGraph ==
    ASSUME NEW M, NEW q \in Seq(M), NEW m \in M, m.type = "graph",
           NEW p, NEW o, NEW id, NEW g, InStep(p, q, o, TRUE, id, g)
    PROVE  InStep(p, Append(q, m), o, TRUE, id, m.graph)
<1>1. Follows(p, Append(q, m), o, id)
  BY FollowsAppend DEF InStep
<1>2. Reads(Append(q, m), Len(q) + 2, p.graph, m.graph)
  BY ReadsAppend
<1>3. Len(Append(q, m)) + 1 = Len(q) + 2
  BY AppendProperties
<1> QED BY <1>1, <1>2, <1>3 DEF InStep, Current

\* A focused node that the page will have by then.
LEMMA SendFocus ==
    ASSUME NEW M, NEW q \in Seq(M), NEW m \in M, m.type = "focus",
           NEW p, NEW o, NEW id, NEW g \in Known(Len(Graphs)), m.id \in g.nodes,
           InStep(p, q, o, TRUE, id, g)
    PROVE  InStep(p, Append(q, m), o, TRUE, m.id, g)
<1> DEFINE a == Append(q, m)
           n == Len(q)
<1>1. n \in Nat /\ Len(a) = n + 1 /\ a[n + 1] = m
  BY AppendProperties
<1>2. Reads(q, n + 1, p.graph, g) => Reads(a, n + 2, p.graph, g)
  BY ReadsAppend
<1>3. Reads(q, n + 1, p.graph, g) => Counts(a, n + 1, p.graph)
  BY CountsAppend
<1> HIDE DEF a, n
<1>4. (n + 1) + 1 = n + 2 /\ n + 1 \in 1..Len(a)
  BY <1>1
<1>5. Greets(o) \/ Reads(q, n + 1, p.graph, g)
  BY DEF InStep, Current, n
<1>6. Current(p, a, o, TRUE, g)
  BY <1>1, <1>2, <1>4, <1>5 DEF Current
<1>7. o = <<>> => ~Greets(o)
  <2>1. Len(<<>>) = 0 /\ ~ \E i \in 1..0 : IsReady(<<>>[i])
    OBVIOUS
  <2> QED BY <2>1 DEF Greets
<1>8. Follows(p, a, o, m.id)
  BY <1>1, <1>3, <1>4, <1>5, <1>7 DEF Follows
<1> QED BY <1>6, <1>8 DEF InStep, a

\* A message that brings no graph.
LEMMA SendOther ==
    ASSUME NEW M, NEW q \in Seq(M), NEW m \in M, m.type # "graph",
           NEW p, NEW o, NEW id, NEW g, InStep(p, q, o, TRUE, id, g)
    PROVE  InStep(p, Append(q, m), o, TRUE, id, g)
<1>1. Follows(p, Append(q, m), o, id)
  BY FollowsAppend DEF InStep
<1>2. Reads(q, Len(q) + 1, p.graph, g) => Reads(Append(q, m), Len(q) + 2, p.graph, g)
  BY ReadsAppend
<1>3. Len(Append(q, m)) + 1 = Len(q) + 2
  BY AppendProperties
<1> QED BY <1>1, <1>2, <1>3 DEF InStep, Current

\* No page is bound by no focus.
LEMMA NoFocusBinds ==
    ASSUME NEW p, NEW q, NEW o, NEW isReady, NEW id, NEW g, InStep(p, q, o, isReady, id, g)
    PROVE  InStep(p, q, o, isReady, NoNode, g) /\ InStep(p, q, o, isReady, Kept(id), g)
BY DEF InStep, Follows, Kept

\* A page that has yet to greet is sent everything then.
LEMMA GreetsFirst ==
    ASSUME NEW p, NEW q, NEW o, NEW isReady, NEW id, NEW g,
           Reported(p, o), Greets(o)
    PROVE  InStep(p, q, o, isReady, id, g)
<1>1. o # <<>>
  <2>1. Len(<<>>) = 0 /\ ~ \E i \in 1..0 : IsReady(<<>>[i])
    OBVIOUS
  <2> QED BY <2>1 DEF Greets
<1> QED BY <1>1 DEF InStep, Current, Follows

\* The first message of a page is read.
LEMMA TailOf ==
    ASSUME NEW M, NEW o \in Seq(M), o # <<>>
    PROVE  /\ Tail(o) \in Seq(M) /\ o[1] = Head(o)
           /\ ~IsReady(Head(o)) /\ Greets(o) => Greets(Tail(o))
           /\ \A p : Reported(p, o) => Reported(p, Tail(o))
           /\ \A p : Tail(o) = <<>> /\ Reported(p, o) =>
                 IsReady(Head(o)) \/ p.focus = NoNode \/ Head(o).id = p.focus
<1> DEFINE t == Tail(o)
           n == Len(o)
<1>1. /\ n \in Nat \ {0} /\ t \in Seq(M) /\ Len(t) = n - 1 /\ o[1] = Head(o)
      /\ \A i \in 1..(n - 1) : t[i] = o[i + 1]
  BY HeadTailProperties
<1>2. t = <<>> <=> Len(t) = 0
  BY <1>1, EmptySeq
<1> HIDE DEF t
<1>3. ASSUME ~IsReady(Head(o)), Greets(o) PROVE Greets(t)
  <2>1. PICK i \in 1..n : IsReady(o[i])
    BY <1>3 DEF Greets
  <2>2. i # 1 /\ i - 1 \in 1..(n - 1)
    BY <1>1, <1>3, <2>1
  <2>3. t[i - 1] = o[i]
    BY <1>1, <2>2
  <2> QED BY <1>1, <2>1, <2>2, <2>3 DEF Greets
<1>4. t # <<>> => t[Len(t)] = o[n]
  BY <1>1, <1>2
<1>5. t = <<>> => o[n] = Head(o)
  <2> SUFFICES ASSUME t = <<>> PROVE o[n] = Head(o)
    OBVIOUS
  <2>1. n - 1 = 0
    BY <1>1, <1>2
  <2>2. n = 1
    BY <1>1, <2>1
  <2> QED BY <1>1, <2>2
<1> HIDE DEF n
<1> QED BY <1>1, <1>3, <1>4, <1>5 DEF Reported, t, n

\* The extension reads what a page focused: it has it in focus, or has told more.
LEMMA ReceiveFocused ==
    ASSUME NEW M, NEW o \in Seq(M), o # <<>>, ~IsReady(Head(o)),
           NEW p, NEW q, NEW isReady, NEW id, NEW g,
           InStep(p, q, o, isReady, id, g)
    PROVE  InStep(p, q, Tail(o), isReady, Head(o).id, g)
<1>1. /\ Greets(o) => Greets(Tail(o))
      /\ Reported(p, o) => Reported(p, Tail(o))
      /\ Tail(o) = <<>> /\ Reported(p, o) => p.focus = NoNode \/ Head(o).id = p.focus
  BY TailOf
<1> QED BY <1>1 DEF InStep, Current, Follows

\* The extension reads that a page is ready: it sends the graph and the focus.
LEMMA ReceiveReady ==
    ASSUME NEW M, NEW q \in Seq(M), NEW O, NEW o \in Seq(O), o # <<>>,
           NEW p, NEW id, NEW g \in Known(Len(Graphs)), id \in {NoNode} \cup g.nodes,
           NEW gm \in M, gm.type = "graph", gm.graph = g,
           NEW fm \in M, fm.type = "focus", fm.id = id,
           Reported(p, o)
    PROVE  /\ id = NoNode => InStep(p, Append(q, gm), Tail(o), TRUE, id, g)
           /\ id # NoNode => InStep(p, Append(Append(q, gm), fm), Tail(o), TRUE, id, g)
<1> DEFINE a == Append(q, gm)
<1>1. a \in Seq(M) /\ Len(a) + 1 = Len(q) + 2
  BY AppendProperties
<1>2. Reported(p, Tail(o))
  BY TailOf
<1>3. Reads(a, Len(q) + 2, p.graph, g)
  BY ReadsAppend
<1> HIDE DEF a
<1>4. Current(p, a, Tail(o), TRUE, g)
  BY <1>1, <1>3 DEF Current
<1>5. InStep(p, a, Tail(o), TRUE, NoNode, g)
  BY <1>2, <1>4 DEF InStep, Follows
<1>6. id # NoNode => InStep(p, Append(a, fm), Tail(o), TRUE, id, g)
  BY <1>1, <1>5, SendFocus
<1> QED BY <1>5, <1>6 DEF a

\* What a page posts comes last.
LEMMA Posts ==
    ASSUME NEW M, NEW o \in Seq(M), NEW x \in Seq(M)
    PROVE  /\ Greets(o) \/ Greets(x) => Greets(o \o x)
           /\ x = <<>> => o \o x = o
           /\ x # <<>> => o \o x # <<>> /\ (o \o x)[Len(o \o x)] = x[Len(x)]
<1> DEFINE c == o \o x
           n == Len(o)
           l == Len(x)
<1>1. /\ n \in Nat /\ l \in Nat /\ Len(c) = n + l /\ c \in Seq(M)
      /\ \A i \in 1..n : c[i] = o[i]
      /\ \A i \in (n + 1)..(n + l) : c[i] = x[i - n]
  BY ConcatProperties
<1>2. x # <<>> <=> l # 0
  BY EmptySeq
<1>3. c = <<>> => Len(c) = 0
  BY EmptySeq
<1>4. x = <<>> => c = o
  OBVIOUS
<1> HIDE DEF c
<1>5. Greets(o) => Greets(c)
  <2> SUFFICES ASSUME Greets(o) PROVE Greets(c)
    OBVIOUS
  <2>1. PICK i \in 1..n : IsReady(o[i])
    BY DEF Greets
  <2>2. i \in 1..Len(c) /\ c[i] = o[i]
    BY <1>1
  <2> QED BY <2>1, <2>2 DEF Greets
<1>6. Greets(x) => Greets(c)
  <2> SUFFICES ASSUME Greets(x) PROVE Greets(c)
    OBVIOUS
  <2>1. PICK i \in 1..l : IsReady(x[i])
    BY DEF Greets
  <2>2. n + i \in 1..Len(c) /\ n + i \in (n + 1)..(n + l) /\ (n + i) - n = i
    BY <1>1
  <2>3. c[n + i] = x[i]
    BY <1>1, <2>2
  <2> QED BY <2>1, <2>2, <2>3 DEF Greets
<1>7. x # <<>> => c # <<>> /\ c[Len(c)] = x[l]
  <2> SUFFICES ASSUME x # <<>> PROVE c # <<>> /\ c[Len(c)] = x[l]
    OBVIOUS
  <2>1. n + l \in (n + 1)..(n + l) /\ (n + l) - n = l /\ n + l # 0
    BY <1>1, <1>2
  <2> QED BY <1>1, <1>3, <2>1
<1> QED BY <1>4, <1>5, <1>6, <1>7 DEF c

\* The page steps on its own.
LEMMA PageSteps ==
    ASSUME NEW M, NEW o \in Seq(M), NEW r, NEW p, r.out \in Seq(M), Moves(p, r),
           NEW s, s.focus = r.focus, s.graph = r.graph,
           NEW q, NEW isReady, NEW id, NEW g, InStep(p, q, o, isReady, id, g)
    PROVE  InStep(s, q, o \o r.out, isReady, id, g)
<1> DEFINE x == r.out
           c == o \o x
<1>1. /\ Greets(o) => Greets(c)
      /\ x = <<>> => c = o
      /\ x # <<>> => c # <<>> /\ c[Len(c)] = x[Len(x)]
  BY Posts
<1>2. s.graph = p.graph
  BY DEF Moves
<1>3. Current(s, q, c, isReady, g)
  <2> HIDE DEF c
  <2> QED BY <1>1, <1>2 DEF InStep, Current
<1>4. CASE x = <<>> /\ r.focus \in {p.focus, NoNode}
  <2>1. c = o
    BY <1>1, <1>4
  <2> HIDE DEF c
  <2>2. Reported(s, c)
    BY <1>4, <2>1 DEF InStep, Reported
  <2>3. Follows(s, q, c, id)
    BY <1>2, <1>4, <2>1 DEF InStep, Follows
  <2> QED BY <1>3, <2>2, <2>3 DEF InStep, c
<1>5. CASE x = <<[type |-> "focused", id |-> r.focus]>>
  <2>1. x # <<>> /\ x[Len(x)].id = r.focus
    BY <1>5
  <2> HIDE DEF x, c
  <2>2. c # <<>> /\ c[Len(c)].id = s.focus
    BY <1>1, <2>1
  <2>3. Reported(s, c) /\ Follows(s, q, c, id)
    BY <2>2 DEF Reported, Follows
  <2> QED BY <1>3, <2>3 DEF InStep, c, x
<1> QED BY <1>4, <1>5 DEF Moves

\* The page reads its first message.
LEMMA PageReads ==
    ASSUME NEW M, NEW o \in Seq(M), NEW N, NEW q \in Seq(N), q # <<>>,
           NEW r, NEW p, r.out \in Seq(M), Handles(p, q[1], r),
           p.graph \in {NoGraph} \cup Known(Len(Graphs)),
           NEW s, s.focus = r.focus, s.graph = r.graph,
           NEW isReady, NEW id, NEW g, InStep(p, q, o, isReady, id, g)
    PROVE  InStep(s, Tail(q), o \o r.out, isReady, id, g)
<1> DEFINE x == r.out
           c == o \o x
           t == Tail(q)
           n == Len(q)
<1>1. /\ Greets(o) => Greets(c)
      /\ x = <<>> => c = o
      /\ x # <<>> => c # <<>> /\ c[Len(c)] = x[Len(x)]
  BY Posts
<1>2. s.graph = After(q, p.graph)
  BY DEF Handles, After
<1>3. n \in Nat \ {0} /\ Len(t) = n - 1
  BY HeadTailProperties
<1>4. Current(s, t, c, isReady, g)
  <2>1. n + 1 \in 2..(n + 1) /\ (n + 1) - 1 = (n - 1) + 1
    BY <1>3
  <2>2. Reads(q, n + 1, p.graph, g) => Reads(t, (n + 1) - 1, s.graph, g)
    BY <1>2, <2>1, ReadsTail
  <2> HIDE DEF c, t, n
  <2>3. Reads(q, n + 1, p.graph, g) => Reads(t, Len(t) + 1, s.graph, g)
    BY <1>3, <2>1, <2>2
  <2> QED BY <1>1, <2>3 DEF InStep, Current, n
<1>5. CASE x = <<>> /\ r.focus \in {p.focus, NoNode}
  <2>1. c = o
    BY <1>1, <1>5
  <2>2. Reported(s, c)
    <3> HIDE DEF c
    <3> QED BY <1>5, <2>1 DEF InStep, Reported
  <2>3. ASSUME o = <<>>, id # NoNode, r.focus # NoNode,
               \A k \in 1..Len(t) : Counts(t, k, s.graph) => t[k].id = s.focus
        PROVE  s.focus = id
    <3>1. s.focus = p.focus
      BY <1>5, <2>3
    <3>2. ASSUME NEW k \in 2..n, Counts(q, k, p.graph) PROVE q[k].id = p.focus
      <4>1. Counts(t, k - 1, s.graph) /\ t[k - 1] = q[k]
        BY <1>2, <3>2, CountsTail
      <4>2. k - 1 \in 1..Len(t)
        BY <1>3
      <4> HIDE DEF t
      <4> QED BY <2>3, <3>1, <4>1, <4>2
    <3>3. Counts(q, 1, p.graph) => q[1].id = p.focus
      <4> SUFFICES ASSUME Counts(q, 1, p.graph) PROVE q[1].id = p.focus
        OBVIOUS
      <4>1. PICK h : Reads(q, 1, p.graph, h) /\ q[1].id \in h.nodes
        BY DEF Counts
      <4>2. h = p.graph
        BY <4>1 DEF Reads
      <4>3. q[1].type = "focus"
        BY DEF Counts
      <4> QED BY <3>1, <4>1, <4>2, <4>3 DEF Handles
    <3>4. \A k \in 1..n : k = 1 \/ k \in 2..n
      BY <1>3
    <3>5. \A k \in 1..n : Counts(q, k, p.graph) => q[k].id = p.focus
      <4> HIDE DEF n
      <4> QED BY <3>2, <3>3, <3>4
    <3>6. p.focus \in {id, NoNode}
      BY <2>3, <3>5 DEF InStep, Follows
    <3> QED BY <2>3, <3>1, <3>6
  <2>4. Follows(s, t, c, id)
    <3> HIDE DEF c, t
    <3> QED BY <2>1, <2>3 DEF Follows
  <2> QED BY <1>4, <2>2, <2>4 DEF InStep
<1>6. CASE x = <<[type |-> "focused", id |-> r.focus]>>
  <2>1. x # <<>> /\ x[Len(x)].id = r.focus
    BY <1>6
  <2> HIDE DEF x, c
  <2>2. c # <<>> /\ c[Len(c)].id = s.focus
    BY <1>1, <2>1
  <2>3. Reported(s, c) /\ Follows(s, t, c, id)
    BY <2>2 DEF Reported, Follows
  <2> QED BY <1>4, <2>3 DEF InStep, c, x
<1> QED BY <1>5, <1>6 DEF Handles

-----------------------------------------------------------------------------
(* Snapshots: what was sent and told before stays right                     *)

LEMMA GraphsAre ==
    ASSUME NEW v \in 1..Len(Graphs)
    PROVE  /\ Len(Graphs) \in Nat /\ DOMAIN Graphs = 1..Len(Graphs) /\ v \in Nat
           /\ Graphs[v].nodes \subseteq Had(v) /\ Had(v) \subseteq Node
           /\ Graphs[v] \in Known(v) /\ Known(v) \subseteq Known(Len(Graphs))
           /\ \A g \in {NoGraph} \cup Known(v) : GraphOK(g) /\ g.nodes \subseteq Had(v)
<1>1. /\ Len(Graphs) \in Nat /\ DOMAIN Graphs = 1..Len(Graphs) /\ v \in Nat /\ v \in 1..v
      /\ \A i \in 1..v : i \in 1..Len(Graphs)
  BY GraphsAssumption
<1>2. ASSUME NEW i \in 1..v
      PROVE  GraphOK(Graphs[i]) /\ Graphs[i].nodes \subseteq Node /\ Graphs[i].nodes \subseteq Had(v)
  <2>1. GraphOK(Graphs[i])
    BY <1>1 DEF GraphOK
  <2>2. Graphs[i].nodes \subseteq Node
    BY <2>1, GraphHas
  <2> QED BY <2>1, <2>2 DEF Had
<1>3. Graphs[v].nodes \subseteq Had(v) /\ Had(v) \subseteq Node
  BY <1>1, <1>2 DEF Had
<1>4. ASSUME NEW g \in {NoGraph} \cup Known(v)
      PROVE  GraphOK(g) /\ g.nodes \subseteq Had(v)
  <2>1. CASE g = NoGraph
    BY <2>1 DEF GraphOK, NoGraph
  <2>2. CASE g \in Known(v)
    <3>1. PICK i \in 1..v : g = Graphs[i]
      BY <2>2 DEF Known
    <3> QED BY <1>2, <3>1
  <2> QED BY <2>1, <2>2
<1> QED BY <1>1, <1>3, <1>4 DEF Known

\* A node that stayed is in the graph; and one that stays had stayed before.
LEMMA StayedIs ==
    ASSUME snapshot \in 1..Len(Graphs), NEW id
    PROVE  /\ id \in Had(snapshot) /\ Stayed(id) => id \in Graphs[snapshot].nodes
           /\ snapshot' = snapshot + 1 /\ Stayed(id)' => Stayed(id)
           /\ snapshot' = snapshot => (Stayed(id)' <=> Stayed(id))
<1>1. snapshot \in Nat /\ \A i \in 1..snapshot : snapshot \in i..snapshot
  BY GraphsAre
<1>2. id \in Had(snapshot) /\ Stayed(id) => id \in Graphs[snapshot].nodes
  BY <1>1 DEF Had, Stayed
<1>3. ASSUME snapshot' = snapshot + 1, Stayed(id)' PROVE Stayed(id)
  <2>1. ASSUME NEW i \in 1..snapshot, NEW j \in i..snapshot, id \in Graphs[i].nodes
        PROVE  id \in Graphs[j].nodes
    <3>1. i \in 1..(snapshot + 1) /\ j \in i..(snapshot + 1)
      BY <1>1
    <3> QED BY <1>3, <2>1, <3>1 DEF Stayed
  <2> QED BY <2>1 DEF Stayed
<1>4. snapshot' = snapshot => (Stayed(id)' <=> Stayed(id))
  BY DEF Stayed
<1> QED BY <1>2, <1>3, <1>4

LEMMA NextSnapshot ==
    ASSUME NEW v \in 1..Len(Graphs), v + 1 \in 1..Len(Graphs)
    PROVE  /\ Known(v) \subseteq Known(v + 1) /\ Had(v) \subseteq Had(v + 1)
           /\ Seq(Sent(v)) \subseteq Seq(Sent(v + 1))
           /\ Seq(Heard(v)) \subseteq Seq(Heard(v + 1))
<1>1. \A i \in 1..v : i \in 1..(v + 1)
  OBVIOUS
<1>2. Known(v) \subseteq Known(v + 1)
  BY <1>1 DEF Known
<1>3. Had(v) \subseteq Had(v + 1)
  BY <1>1 DEF Had
<1>4. Sent(v) \subseteq Sent(v + 1)
  BY <1>2 DEF Sent
<1>5. Heard(v) \subseteq Heard(v + 1)
  BY <1>3 DEF Heard
<1>6. Seq(Sent(v)) \subseteq Seq(Sent(v + 1))
  BY <1>4, SeqMonotonic
<1>7. Seq(Heard(v)) \subseteq Seq(Heard(v + 1))
  BY <1>5, SeqMonotonic
<1> QED BY <1>2, <1>3, <1>6, <1>7

LEMMA MessagesAre ==
    ASSUME NEW v \in 1..Len(Graphs)
    PROVE  /\ GraphMsg(v) \in Sent(v) /\ GraphMsg(v).type = "graph" /\ GraphMsg(v).graph = Graphs[v]
           /\ \A id \in {NoNode} \cup Node :
                 /\ FocusMsg(id).type = "focus" /\ FocusMsg(id).id = id
                 /\ id # NoNode => FocusMsg(id) \in Sent(v)
           /\ \A dir \in Direction :
                 ConfigMsg(dir) \in Sent(v) /\ ConfigMsg(dir).type = "config"
<1>1. Graphs[v] \in Known(v)
  BY GraphsAre
<1> QED BY <1>1 DEF GraphMsg, FocusMsg, ConfigMsg, Sent

\* A page tells nodes that its graph has.
LEMMA OutIsHeard ==
    ASSUME NEW v \in 1..Len(Graphs), NEW g \in {NoGraph} \cup Known(v), NEW x, NEW f,
           x = <<>> \/ (f \in g.nodes /\ x = <<[type |-> "focused", id |-> f]>>)
    PROVE  x \in Seq(Heard(v))
<1>1. CASE x = <<>>
  BY <1>1
<1>2. CASE f \in g.nodes /\ x = <<[type |-> "focused", id |-> f]>>
  <2> DEFINE msg == [type |-> "focused", id |-> f]
  <2>1. f \in Had(v)
    BY <1>2, GraphsAre
  <2>2. msg \in Heard(v)
    BY <2>1 DEF Heard
  <2> HIDE DEF msg
  <2>3. <<msg>> \in Seq(Heard(v))
    BY <2>2
  <2> QED BY <1>2, <2>3 DEF msg
<1> QED BY <1>1, <1>2

-----------------------------------------------------------------------------
(* The pages                                                                *)

\* A page that runs is ready to step.
LEMMA RunsSteady ==
    ASSUME Shape, RoutesStart, NEW s \in Surface, Runs(s)
    PROVE  Steady(page[s]) /\ page[s].graph \in {NoGraph} \cup Known(snapshot)
<1>1. PageOK(page[s], snapshot) /\ hash[s] = page[s].saved /\ snapshot \in 1..Len(Graphs)
  BY DEF Shape
<1>2. GraphOK(page[s].graph)
  BY <1>1, GraphsAre DEF PageOK
<1>3. RouteStarts(page[s]) /\ RouteStarts(hash[s])
  BY DEF RoutesStart
<1> QED BY <1>1, <1>2, <1>3 DEF PageOK, Steady

\* What StepTo makes of a page that resulted.
LEMMA StepToIs ==
    ASSUME Shape, RoutesStart, NEW s \in Surface, NEW r, StepTo(s, r),
           r \in Page, r.graph \in {NoGraph} \cup Known(snapshot), r.saved.focus = r.focus,
           RouteStarts(r), RouteStarts(r.saved), r.out \in Seq(Heard(snapshot))
    PROVE  /\ page' \in [Surface -> {NoPage} \cup Page] /\ hash' \in [Surface -> Saved]
           /\ toHost' \in [Surface -> Seq(Heard(snapshot))]
           /\ PageOK(page'[s], snapshot) /\ hash'[s] = page'[s].saved
           /\ page'[s].focus = r.focus /\ page'[s].graph = r.graph
           /\ toHost'[s] = toHost[s] \o r.out
           /\ \A o \in Surface \ {s} :
                 page'[o] = page[o] /\ hash'[o] = hash[o] /\ toHost'[o] = toHost[o]
           /\ RoutesStart'
<1> DEFINE q == [r EXCEPT !.out = <<>>]
           t == toHost[s] \o r.out
<1>1. /\ q \in Page /\ q.out = <<>> /\ q.focus = r.focus /\ q.route = r.route
      /\ q.graph = r.graph /\ q.saved = r.saved
  <2>1. <<>> \in Seq(Posted)
    OBVIOUS
  <2> QED BY <2>1 DEF Page
<1>2. r.saved \in Saved
  BY DEF Page
<1>3. t \in Seq(Heard(snapshot))
  <2>1. toHost[s] \in Seq(Heard(snapshot))
    BY DEF Shape
  <2> QED BY <2>1, ConcatProperties
<1>4. /\ page' = [page EXCEPT ![s] = q] /\ hash' = [hash EXCEPT ![s] = r.saved]
      /\ toHost' = [toHost EXCEPT ![s] = t]
  BY DEF StepTo
<1> HIDE DEF q, t
<1>5. /\ page' \in [Surface -> {NoPage} \cup Page] /\ hash' \in [Surface -> Saved]
      /\ toHost' \in [Surface -> Seq(Heard(snapshot))]
      /\ page'[s] = q /\ hash'[s] = r.saved /\ toHost'[s] = t
      /\ \A o \in Surface \ {s} :
            page'[o] = page[o] /\ hash'[o] = hash[o] /\ toHost'[o] = toHost[o]
  BY <1>1, <1>2, <1>3, <1>4 DEF Shape
<1>6. PageOK(q, snapshot)
  BY <1>1 DEF PageOK
<1>7. RouteStarts(q)
  BY <1>1 DEF RouteStarts
<1>8. ASSUME NEW o \in Surface PROVE (Runs(o)' => RouteStarts(page'[o])) /\ RouteStarts(hash'[o])
  <2>1. CASE o = s
    BY <1>5, <1>7, <2>1
  <2>2. CASE o # s
    <3>1. page'[o] = page[o] /\ hash'[o] = hash[o]
      BY <1>5, <2>2
    <3> QED BY <3>1 DEF RoutesStart, Runs
  <2> QED BY <2>1, <2>2
<1>9. RoutesStart'
  BY <1>8 DEF RoutesStart, RouteStarts
<1> QED BY <1>1, <1>5, <1>6, <1>9 DEF t

\* A page starts: with what the view saved, or with nothing.
LEMMA MountSteps ==
    ASSUME Shape, RoutesStart, NEW s \in Surface, NEW was \in Saved, RouteStarts(was),
           NEW dir \in Direction, StepTo(s, Mount(was, dir))
    PROVE  /\ page' \in [Surface -> {NoPage} \cup Page] /\ hash' \in [Surface -> Saved]
           /\ toHost' \in [Surface -> Seq(Heard(snapshot))]
           /\ PageOK(page'[s], snapshot) /\ hash'[s] = page'[s].saved
           /\ \A o \in Surface \ {s} :
                 page'[o] = page[o] /\ hash'[o] = hash[o] /\ toHost'[o] = toHost[o]
           /\ RoutesStart'
           /\ Greets(toHost'[s]) /\ \A p : Reported(p, toHost'[s])
<1> DEFINE r == Mount(was, dir)
           msg == [type |-> "ready"]
<1>1. /\ r \in Page /\ r.graph = NoGraph /\ r.focus = was.focus
      /\ r.saved = was /\ RouteStarts(r) /\ r.out = <<msg>>
  BY MountIs
<1>2. msg \in Heard(snapshot) /\ IsReady(msg)
  BY DEF Heard, IsReady
<1> HIDE DEF msg, r
<1>3. <<msg>> \in Seq(Heard(snapshot)) /\ Len(<<msg>>) = 1 /\ <<msg>>[1] = msg /\ <<msg>> # <<>>
  BY <1>2
<1>4. /\ StepTo(s, r) /\ r.graph \in {NoGraph} \cup Known(snapshot)
      /\ r.saved.focus = r.focus /\ RouteStarts(r.saved) /\ r.out \in Seq(Heard(snapshot))
  BY <1>1, <1>3 DEF r
<1>5. Greets(<<msg>>)
  BY <1>2, <1>3 DEF Greets
<1>6. /\ page' \in [Surface -> {NoPage} \cup Page] /\ hash' \in [Surface -> Saved]
      /\ toHost' \in [Surface -> Seq(Heard(snapshot))]
      /\ PageOK(page'[s], snapshot) /\ hash'[s] = page'[s].saved
      /\ toHost'[s] = toHost[s] \o <<msg>>
      /\ \A o \in Surface \ {s} :
            page'[o] = page[o] /\ hash'[o] = hash[o] /\ toHost'[o] = toHost[o]
      /\ RoutesStart'
  <2>1. r \in Page /\ RouteStarts(r)
    BY <1>1
  <2>2. toHost'[s] = toHost[s] \o r.out
    BY <1>4, <2>1, StepToIs
  <2>3. /\ page' \in [Surface -> {NoPage} \cup Page] /\ hash' \in [Surface -> Saved]
        /\ toHost' \in [Surface -> Seq(Heard(snapshot))]
        /\ PageOK(page'[s], snapshot) /\ hash'[s] = page'[s].saved
        /\ \A o \in Surface \ {s} :
              page'[o] = page[o] /\ hash'[o] = hash[o] /\ toHost'[o] = toHost[o]
        /\ RoutesStart'
    BY <1>4, <2>1, StepToIs
  <2> QED BY <1>1, <2>2, <2>3
<1>7. /\ Greets(toHost[s] \o <<msg>>)
      /\ (toHost[s] \o <<msg>>)[Len(toHost[s] \o <<msg>>)] = <<msg>>[Len(<<msg>>)]
  <2>1. toHost[s] \in Seq(Heard(snapshot))
    BY DEF Shape
  <2> QED BY <1>3, <1>5, <2>1, Posts
<1>8. IsReady(toHost'[s][Len(toHost'[s])])
  BY <1>2, <1>3, <1>6, <1>7
<1> QED BY <1>6, <1>7, <1>8 DEF Reported

LEMMA NothingSavedIs == NothingSaved \in Saved /\ RouteStarts(NothingSaved)
BY DEF NothingSaved, Saved, RouteStarts, Reach, Direction

\* What a message to all makes of the queues.
LEMMA BroadcastIs ==
    ASSUME Shape, NEW v \in 1..Len(Graphs), toPage \in [Surface -> Seq(Sent(v))],
           NEW m \in Sent(v), NEW to, Broadcast(m, to)
    PROVE  /\ toPage' \in [Surface -> Seq(Sent(v))]
           /\ \A s \in Surface : toPage'[s] = IF s \in to /\ s \in ready
                                              THEN Append(toPage[s], m) ELSE toPage[s]
<1>1. \A s \in Surface : Append(toPage[s], m) \in Seq(Sent(v))
  BY AppendProperties
<1>2. toPage' = [s \in Surface |-> IF s \in to \cap ready THEN Append(toPage[s], m) ELSE toPage[s]]
  BY DEF Broadcast
<1> QED BY <1>1, <1>2

-----------------------------------------------------------------------------
(* Every step keeps the invariant                                           *)

LEMMA InitOK == ASSUME Init PROVE IInv
<1>1. 1 \in 1..Len(Graphs) /\ Graphs # <<>>
  <2>1. Len(Graphs) \in Nat /\ Len(Graphs) # 0
    BY GraphsAssumption, EmptySeq
  <2> QED BY <2>1, GraphsAssumption
<1>2. Surface = {"view", "panel"} /\ {"lr", "td"} = Direction
  BY DEF Surface, Direction
<1>3. ASSUME NEW was \in SavedBefore PROVE was \in Saved /\ RouteStarts(was)
  <2>1. CASE was = NothingSaved
    BY <2>1, NothingSavedIs
  <2>2. CASE was # NothingSaved
    <3>1. PICK n \in Graphs[1].active, m \in Graphs[1].nodes \ Graphs[1].active :
             was = SavedRoute(n, m)
      BY <2>2 DEF SavedBefore
    <3>2. Graphs[1].active \subseteq Graphs[1].nodes /\ Graphs[1].nodes \subseteq Node
      BY <1>1, GraphsAre, GraphsAssumption
    <3>3. n \in Node /\ <<n, m>> \in Node \X Node /\ <<n, m>>[1] = n
      BY <3>1, <3>2
    <3>4. was \in Saved /\ was.focus = n /\ was.route = <<n, m>>
      BY <3>1, <3>3, NothingSavedIs DEF Saved, SavedRoute
    <3> QED BY <3>3, <3>4 DEF RouteStarts
  <2> QED BY <2>1, <2>2
<1>4. hash \in [Surface -> SavedBefore]
  BY DEF Init
<1>5. \A s \in Surface : hash[s] \in Saved /\ RouteStarts(hash[s])
  BY <1>3, <1>4
<1>6. \A s \in Surface : page[s] = NoPage /\ ~Runs(s)
  BY DEF Init, Runs
<1>7. Shape
  <2>1. setting \in [Surface -> Direction]
    BY <1>2 DEF Init
  <2>2. spent \in [{"user", "steps"} -> Nat]
    BY DEF Init
  <2>3. toPage \in [Surface -> Seq(Sent(snapshot))] /\ toHost \in [Surface -> Seq(Heard(snapshot))]
    BY DEF Init
  <2>4. page \in [Surface -> {NoPage} \cup Page]
    BY DEF Init
  <2>5. hash \in [Surface -> Saved]
    BY <1>3, <1>4
  <2> QED BY <1>1, <1>6, <2>1, <2>2, <2>3, <2>4, <2>5 DEF Init, Shape
<1>8. RoutesStart /\ AllInStep
  BY <1>5, <1>6 DEF RoutesStart, AllInStep
<1> QED BY <1>7, <1>8 DEF IInv

LEMMA SpendIs ==
    ASSUME spent \in [{"user", "steps"} -> Nat], NEW what \in {"user", "steps"}, NEW limit,
           Spend(what, limit)
    PROVE  spent' \in [{"user", "steps"} -> Nat]
BY DEF Spend

LEMMA SnapshotOK == ASSUME IInv, Snapshot PROVE IInv'
<1> DEFINE v == snapshot + 1
           m == GraphMsg(v)
<1>1. /\ snapshot \in 1..Len(Graphs) /\ v \in 1..Len(Graphs) /\ snapshot' = v
      /\ Broadcast(m, Surface) /\ Spend("steps", MaxSteps)
      /\ UNCHANGED <<setting, focusedId, attached, ready, html, page, hash, toHost>>
  BY GraphsAssumption DEF Snapshot, IInv, Shape
<1>2. /\ Known(snapshot) \subseteq Known(v) /\ Had(snapshot) \subseteq Had(v)
      /\ Seq(Sent(snapshot)) \subseteq Seq(Sent(v))
      /\ Seq(Heard(snapshot)) \subseteq Seq(Heard(v))
  BY <1>1, NextSnapshot
<1>3. m \in Sent(v) /\ m.type = "graph" /\ m.graph = Graphs[v]
  BY <1>1, MessagesAre
<1> HIDE DEF v, m
<1>4. toPage \in [Surface -> Seq(Sent(v))]
  BY <1>2 DEF IInv, Shape
<1>5. /\ toPage' \in [Surface -> Seq(Sent(v))]
      /\ \A s \in Surface : toPage'[s] = IF s \in ready THEN Append(toPage[s], m) ELSE toPage[s]
  <2>1. Shape
    BY DEF IInv
  <2> QED BY <1>1, <1>3, <1>4, <2>1, BroadcastIs
<1>6. spent' \in [{"user", "steps"} -> Nat]
  BY <1>1, SpendIs DEF IInv, Shape
<1>7. Shape'
  <2>1. ASSUME NEW s \in Surface, Runs(s)
        PROVE  s \in attached /\ PageOK(page[s], v) /\ hash[s] = page[s].saved
    BY <1>2, <2>1 DEF IInv, Shape, PageOK
  <2>2. /\ setting \in [Surface -> Direction] /\ html \in [Surface -> Direction]
        /\ focusedId \in {NoNode} \cup Had(v)
        /\ ready \subseteq attached /\ attached \subseteq Surface
        /\ hash \in [Surface -> Saved]
        /\ page \in [Surface -> {NoPage} \cup Page]
        /\ toHost \in [Surface -> Seq(Heard(v))]
    BY <1>2 DEF IInv, Shape
  <2> QED BY <1>1, <1>5, <1>6, <2>1, <2>2 DEF Shape, Runs
<1>8. RoutesStart'
  BY <1>1 DEF IInv, RoutesStart, Runs, RouteStarts
<1>9. Kept(focusedId)' \in {Kept(focusedId), NoNode}
  <2>1. Stayed(focusedId)' => Stayed(focusedId)
    BY <1>1, StayedIs DEF v, Stayed
  <2> QED BY <1>1, <2>1 DEF Kept
<1>10. ASSUME NEW s \in Surface, Runs(s)
       PROVE  InStep(page[s], toPage'[s], toHost[s], s \in ready, Kept(focusedId)', Graphs[v])
  <2> DEFINE id == Kept(focusedId)
  <2>1. InStep(page[s], toPage[s], toHost[s], s \in ready, id, Graphs[snapshot])
    BY <1>10 DEF IInv, AllInStep
  <2> HIDE DEF id
  <2>2. CASE s \in ready
    <3>1. InStep(page[s], toPage[s], toHost[s], TRUE, id, Graphs[snapshot])
      BY <2>1, <2>2
    <3>2. InStep(page[s], Append(toPage[s], m), toHost[s], TRUE, id, Graphs[v])
      BY <1>3, <1>4, <3>1, SendGraph
    <3>3. InStep(page[s], toPage'[s], toHost[s], s \in ready, id, Graphs[v])
      BY <1>5, <2>2, <3>2
    <3> QED BY <1>9, <3>3, NoFocusBinds DEF id
  <2>3. CASE s \notin ready
    <3>1. Greets(toHost[s]) /\ Reported(page[s], toHost[s])
      BY <2>1, <2>3 DEF InStep, Current
    <3> QED BY <2>3, <3>1, GreetsFirst
  <2> QED BY <2>2, <2>3
<1>11. AllInStep'
  BY <1>1, <1>10 DEF AllInStep, Runs
<1> QED BY <1>7, <1>8, <1>11 DEF IInv

\* Without a snapshot the focus alone says which node binds the pages.
LEMMA KeptIs ==
    ASSUME snapshot' = snapshot
    PROVE  /\ Kept(focusedId)' = Kept(focusedId')
           /\ focusedId' = focusedId => Kept(focusedId)' = Kept(focusedId)
BY DEF Kept, Stayed

\* Where the pages and what they told stay: the shape of the rest.
LEMMA ShapeStays ==
    ASSUME Shape, snapshot' = snapshot,
           UNCHANGED <<page, hash>>,
           setting' \in [Surface -> Direction], html' \in [Surface -> Direction],
           focusedId' \in {NoNode} \cup Had(snapshot),
           ready' \subseteq attached', attached' \subseteq Surface, attached \subseteq attached',
           toPage' \in [Surface -> Seq(Sent(snapshot))],
           toHost' \in [Surface -> Seq(Heard(snapshot))],
           spent' \in [{"user", "steps"} -> Nat]
    PROVE  Shape'
<1>1. \A s \in Surface : Runs(s)' => /\ s \in attached'
                                     /\ PageOK(page'[s], snapshot')
                                     /\ hash'[s] = page'[s].saved
  BY DEF Shape, Runs
<1> QED BY <1>1 DEF Shape

LEMMA RoutesStay == ASSUME RoutesStart, UNCHANGED <<page, hash>> PROVE RoutesStart'
BY DEF RoutesStart, Runs, RouteStarts

\* One focused node per window: every surface but where it was focused is told.
LEMMA TellFocus ==
    ASSUME IInv, NEW id \in Had(snapshot), NEW to, Broadcast(FocusMsg(id), to)
    PROVE  /\ toPage' \in [Surface -> Seq(Sent(snapshot))]
           /\ \A s \in Surface : s \in to /\ Runs(s) =>
                 InStep(page[s], toPage'[s], toHost[s], s \in ready, Kept(id), Graphs[snapshot])
           /\ \A s \in Surface : s \notin to => toPage'[s] = toPage[s]
<1> DEFINE m == FocusMsg(id)
           g == Graphs[snapshot]
           was == Kept(focusedId)
<1>1. snapshot \in 1..Len(Graphs) /\ toPage \in [Surface -> Seq(Sent(snapshot))] /\ Shape
  BY DEF IInv, Shape
<1>2. id \in Node /\ id # NoNode
  BY <1>1, GraphsAre, NodeAssumption
<1>3. m \in Sent(snapshot) /\ m.type = "focus" /\ m.id = id
  BY <1>1, <1>2, MessagesAre
<1>4. g \in Known(Len(Graphs)) /\ (Stayed(id) => id \in g.nodes)
  BY <1>1, GraphsAre, StayedIs
<1>5. /\ toPage' \in [Surface -> Seq(Sent(snapshot))]
      /\ \A s \in Surface : toPage'[s] = IF s \in to /\ s \in ready
                                         THEN Append(toPage[s], m) ELSE toPage[s]
  BY <1>1, <1>3, BroadcastIs
<1>6. ASSUME NEW s \in Surface, Runs(s)
      PROVE  InStep(page[s], toPage[s], toHost[s], s \in ready, was, g)
  BY <1>6 DEF IInv, AllInStep
<1> HIDE DEF m, g, was
<1>7. ASSUME NEW s \in Surface, s \in to, Runs(s)
      PROVE  InStep(page[s], toPage'[s], toHost[s], s \in ready, Kept(id), g)
  <2>1. CASE s \in ready
    <3>1. InStep(page[s], toPage[s], toHost[s], TRUE, was, g)
      BY <1>6, <1>7, <2>1
    <3>2. toPage[s] \in Seq(Sent(snapshot))
      BY <1>1
    <3>3. toPage'[s] = Append(toPage[s], m) /\ (s \in ready) = TRUE
      BY <1>5, <1>7, <2>1
    <3>4. CASE Stayed(id)
      <4>1. InStep(page[s], Append(toPage[s], m), toHost[s], TRUE, m.id, g)
        BY <1>3, <1>4, <3>1, <3>2, <3>4, SendFocus
      <4> QED BY <1>3, <3>3, <3>4, <4>1 DEF Kept
    <3>5. CASE ~Stayed(id)
      <4>1. InStep(page[s], Append(toPage[s], m), toHost[s], TRUE, was, g)
        BY <1>3, <3>1, <3>2, SendOther
      <4>2. InStep(page[s], Append(toPage[s], m), toHost[s], TRUE, NoNode, g)
        BY <4>1, NoFocusBinds
      <4> QED BY <3>3, <3>5, <4>2 DEF Kept
    <3> QED BY <3>4, <3>5
  <2>2. CASE s \notin ready
    <3>1. Greets(toHost[s]) /\ Reported(page[s], toHost[s])
      BY <1>6, <1>7, <2>2 DEF InStep, Current
    <3> QED BY <3>1, GreetsFirst
  <2> QED BY <2>1, <2>2
<1> QED BY <1>5, <1>7 DEF g

LEMMA ChangeSettingOK == ASSUME IInv, NEW dir \in Direction, ChangeSetting(dir) PROVE IInv'
<1> DEFINE m == ConfigMsg(dir)
<1>1. /\ setting' = [s \in Surface |-> dir]
      /\ Broadcast(m, Surface) /\ Spend("user", MaxUser)
      /\ UNCHANGED <<snapshot, focusedId, attached, ready, html, page, hash, toHost>>
  BY DEF ChangeSetting
<1>2. snapshot \in 1..Len(Graphs) /\ toPage \in [Surface -> Seq(Sent(snapshot))] /\ Shape
  BY DEF IInv, Shape
<1>3. m \in Sent(snapshot) /\ m.type # "graph"
  BY <1>2, MessagesAre
<1> HIDE DEF m
<1>4. /\ toPage' \in [Surface -> Seq(Sent(snapshot))]
      /\ \A s \in Surface : toPage'[s] = IF s \in ready THEN Append(toPage[s], m) ELSE toPage[s]
  BY <1>1, <1>2, <1>3, BroadcastIs
<1>5. spent' \in [{"user", "steps"} -> Nat]
  BY <1>1, SpendIs DEF IInv, Shape
<1>6. Shape'
  <2>1. setting' \in [Surface -> Direction]
    BY <1>1
  <2>2. /\ html' \in [Surface -> Direction]
        /\ focusedId' \in {NoNode} \cup Had(snapshot)
        /\ ready' \subseteq attached' /\ attached' \subseteq Surface /\ attached \subseteq attached'
        /\ toHost' \in [Surface -> Seq(Heard(snapshot))]
    BY <1>1 DEF IInv, Shape
  <2> QED BY <1>1, <1>2, <1>4, <1>5, <2>1, <2>2, ShapeStays
<1>7. RoutesStart'
  BY <1>1, RoutesStay DEF IInv
<1>8. ASSUME NEW s \in Surface, Runs(s)
      PROVE  InStep(page[s], toPage'[s], toHost[s], s \in ready, Kept(focusedId), Graphs[snapshot])
  <2>1. InStep(page[s], toPage[s], toHost[s], s \in ready, Kept(focusedId), Graphs[snapshot])
    BY <1>8 DEF IInv, AllInStep
  <2>2. CASE s \in ready
    <3>1. InStep(page[s], toPage[s], toHost[s], TRUE, Kept(focusedId), Graphs[snapshot])
      BY <2>1, <2>2
    <3>2. InStep(page[s], Append(toPage[s], m), toHost[s], TRUE, Kept(focusedId), Graphs[snapshot])
      BY <1>2, <1>3, <3>1, SendOther
    <3> QED BY <1>4, <2>2, <3>2
  <2>3. CASE s \notin ready
    BY <1>4, <2>1, <2>3
  <2> QED BY <2>2, <2>3
<1>9. AllInStep'
  BY <1>1, <1>2, <1>8, KeptIs DEF AllInStep, Runs
<1> QED BY <1>6, <1>7, <1>9 DEF IInv

\* Where one page stepped or started: the shape of the rest.
LEMMA ShapeSteps ==
    ASSUME Shape, NEW s \in Surface, UNCHANGED <<snapshot, setting>>,
           page' \in [Surface -> {NoPage} \cup Page], hash' \in [Surface -> Saved],
           toHost' \in [Surface -> Seq(Heard(snapshot))],
           PageOK(page'[s], snapshot), hash'[s] = page'[s].saved,
           \A o \in Surface \ {s} : page'[o] = page[o] /\ hash'[o] = hash[o],
           html' \in [Surface -> Direction],
           focusedId' \in {NoNode} \cup Had(snapshot),
           ready' \subseteq attached', attached' = attached \cup {s},
           toPage' \in [Surface -> Seq(Sent(snapshot))],
           spent' \in [{"user", "steps"} -> Nat]
    PROVE  Shape'
<1>1. ASSUME NEW o \in Surface, Runs(o)'
      PROVE  o \in attached' /\ PageOK(page'[o], snapshot) /\ hash'[o] = page'[o].saved
  <2>1. CASE o = s
    BY <2>1
  <2>2. CASE o # s
    <3>1. page'[o] = page[o] /\ hash'[o] = hash[o]
      BY <2>2
    <3>2. Runs(o)
      BY <1>1, <3>1 DEF Runs
    <3> QED BY <3>1, <3>2 DEF Shape
  <2> QED BY <2>1, <2>2
<1>2. attached' \subseteq Surface
  BY DEF Shape
<1> QED BY <1>1, <1>2 DEF Shape, Runs

LEMMA AttachedSteps ==
    ASSUME Shape, RoutesStart, NEW s \in Surface, NEW was \in Saved, RouteStarts(was),
           Attached(s, was)
    PROVE  /\ page' \in [Surface -> {NoPage} \cup Page] /\ hash' \in [Surface -> Saved]
           /\ toHost' \in [Surface -> Seq(Heard(snapshot))]
           /\ PageOK(page'[s], snapshot) /\ hash'[s] = page'[s].saved
           /\ \A o \in Surface \ {s} :
                 page'[o] = page[o] /\ hash'[o] = hash[o] /\ toHost'[o] = toHost[o]
           /\ RoutesStart'
           /\ Greets(toHost'[s]) /\ \A p : Reported(p, toHost'[s])
           /\ attached' = attached \cup {s} /\ html' \in [Surface -> Direction]
<1>1. setting[s] \in Direction
  BY DEF Shape
<1>2. /\ attached' = attached \cup {s} /\ html' = [html EXCEPT ![s] = setting[s]]
      /\ StepTo(s, Mount(was, setting[s]))
  BY DEF Attached
<1>3. html' \in [Surface -> Direction]
  BY <1>1, <1>2 DEF Shape
<1> QED BY <1>1, <1>2, <1>3, MountSteps

LEMMA FocusNodeOK == ASSUME IInv, NEW id \in Node, FocusNode(id) PROVE IInv'
<1>1. /\ id \in Had(snapshot) /\ snapshot \in 1..Len(Graphs)
      /\ focusedId' = id /\ Broadcast(FocusMsg(id), Surface)
      /\ UNCHANGED <<snapshot, setting, ready>>
      /\ spent' \in [{"user", "steps"} -> Nat]
  BY SpendIs DEF FocusNode, SetFocused, IInv, Shape, Had
<1>2. /\ toPage' \in [Surface -> Seq(Sent(snapshot))]
      /\ \A s \in Surface : Runs(s) =>
            InStep(page[s], toPage'[s], toHost[s], s \in ready, Kept(id), Graphs[snapshot])
  BY <1>1, TellFocus
<1>3. CASE \E s \in Surface : Runs(s)
  <2>1. UNCHANGED <<attached, html, page, hash, toHost>>
    BY <1>3 DEF FocusNode
  <2>2. Shape'
    <3>1. /\ setting' \in [Surface -> Direction] /\ html' \in [Surface -> Direction]
          /\ ready' \subseteq attached' /\ attached' \subseteq Surface /\ attached \subseteq attached'
          /\ toHost' \in [Surface -> Seq(Heard(snapshot))]
      BY <1>1, <2>1 DEF IInv, Shape
    <3> QED BY <1>1, <1>2, <2>1, <3>1, ShapeStays DEF IInv
  <2>3. RoutesStart'
    BY <2>1, RoutesStay DEF IInv
  <2>4. AllInStep'
    BY <1>1, <1>2, <2>1, KeptIs DEF AllInStep, Runs
  <2> QED BY <2>2, <2>3, <2>4 DEF IInv
<1>4. CASE ~ \E s \in Surface : Runs(s)
  <2> DEFINE s == "panel"
  <2>0. s \in Surface /\ Attached(s, NothingSaved)
    BY <1>4 DEF FocusNode, Surface
  <2> HIDE DEF s
  <2>1. /\ page' \in [Surface -> {NoPage} \cup Page] /\ hash' \in [Surface -> Saved]
        /\ toHost' \in [Surface -> Seq(Heard(snapshot))]
        /\ PageOK(page'[s], snapshot) /\ hash'[s] = page'[s].saved
        /\ \A o \in Surface \ {s} :
              page'[o] = page[o] /\ hash'[o] = hash[o] /\ toHost'[o] = toHost[o]
        /\ RoutesStart'
        /\ Greets(toHost'[s]) /\ \A p : Reported(p, toHost'[s])
        /\ attached' = attached \cup {s} /\ html' \in [Surface -> Direction]
    BY <2>0, NothingSavedIs, AttachedSteps DEF IInv
  <2>2. Shape'
    <3>1. ready' \subseteq attached'
      BY <1>1, <2>1 DEF IInv, Shape
    <3> QED BY <1>1, <1>2, <2>0, <2>1, <3>1, ShapeSteps DEF IInv
  <2>3. ASSUME NEW o \in Surface, Runs(o)'
        PROVE  InStep(page'[o], toPage'[o], toHost'[o], o \in ready', Kept(focusedId)', Graphs[snapshot]')
    <3>1. o = s
      <4>1. ~Runs(o)
        BY <1>4
      <4> QED BY <2>1, <2>3, <4>1 DEF Runs
    <3> QED BY <2>1, <3>1, GreetsFirst
  <2> QED BY <2>1, <2>2, <2>3 DEF IInv, AllInStep
<1> QED BY <1>3, <1>4

LEMMA AttachOK == ASSUME IInv, NEW s \in Surface, Attach(s) PROVE IInv'
<1>1. /\ s \notin attached /\ snapshot \in 1..Len(Graphs)
      /\ UNCHANGED <<snapshot, setting, focusedId, ready, toPage>>
      /\ spent' \in [{"user", "steps"} -> Nat]
  BY SpendIs DEF Attach, IInv, Shape
<1>0. PICK was \in Saved : RouteStarts(was) /\ Attached(s, was)
  <2>1. PICK was \in {hash[s]} \cup (IF s = "panel" THEN {NothingSaved} ELSE {}) : Attached(s, was)
    BY DEF Attach
  <2>2. was \in Saved /\ RouteStarts(was)
    BY NothingSavedIs DEF IInv, Shape, RoutesStart
  <2> QED BY <2>1, <2>2
<1>2. /\ page' \in [Surface -> {NoPage} \cup Page] /\ hash' \in [Surface -> Saved]
      /\ toHost' \in [Surface -> Seq(Heard(snapshot))]
      /\ PageOK(page'[s], snapshot) /\ hash'[s] = page'[s].saved
      /\ \A o \in Surface \ {s} :
            page'[o] = page[o] /\ hash'[o] = hash[o] /\ toHost'[o] = toHost[o]
      /\ RoutesStart'
      /\ Greets(toHost'[s]) /\ \A p : Reported(p, toHost'[s])
      /\ attached' = attached \cup {s} /\ html' \in [Surface -> Direction]
  BY <1>0, AttachedSteps DEF IInv
<1>3. Shape'
  <2>1. /\ ready' \subseteq attached' /\ focusedId' \in {NoNode} \cup Had(snapshot)
        /\ toPage' \in [Surface -> Seq(Sent(snapshot))]
    BY <1>1, <1>2 DEF IInv, Shape
  <2> QED BY <1>1, <1>2, <2>1, ShapeSteps DEF IInv
<1>4. ASSUME NEW o \in Surface, Runs(o)'
      PROVE  InStep(page'[o], toPage'[o], toHost'[o], o \in ready', Kept(focusedId)', Graphs[snapshot]')
  <2>1. CASE o = s
    BY <1>2, <2>1, GreetsFirst
  <2>2. CASE o # s
    <3>1. page'[o] = page[o] /\ toHost'[o] = toHost[o]
      BY <1>2, <2>2
    <3>2. Runs(o)
      BY <1>4, <3>1 DEF Runs
    <3> QED BY <1>1, <3>1, <3>2, KeptIs DEF IInv, AllInStep
  <2> QED BY <2>1, <2>2
<1> QED BY <1>2, <1>3, <1>4 DEF IInv, AllInStep

LEMMA ShowOK == ASSUME IInv, Show PROVE IInv'
<1> DEFINE s == "view"
<1>1. /\ s \in Surface /\ s \in attached
      /\ StepTo(s, Mount(hash[s], html[s]))
      /\ toPage' \in {toPage, [toPage EXCEPT ![s] = <<>>]}
      /\ UNCHANGED <<snapshot, setting, focusedId, attached, ready, html>>
      /\ spent' \in [{"user", "steps"} -> Nat]
  BY SpendIs DEF Show, IInv, Shape, Surface
<1> HIDE DEF s
<1>2. hash[s] \in Saved /\ RouteStarts(hash[s]) /\ html[s] \in Direction
  BY <1>1 DEF IInv, Shape, RoutesStart
<1>3. /\ page' \in [Surface -> {NoPage} \cup Page] /\ hash' \in [Surface -> Saved]
      /\ toHost' \in [Surface -> Seq(Heard(snapshot))]
      /\ PageOK(page'[s], snapshot) /\ hash'[s] = page'[s].saved
      /\ \A o \in Surface \ {s} :
            page'[o] = page[o] /\ hash'[o] = hash[o] /\ toHost'[o] = toHost[o]
      /\ RoutesStart'
      /\ Greets(toHost'[s]) /\ \A p : Reported(p, toHost'[s])
  BY <1>1, <1>2, MountSteps DEF IInv
<1>4. /\ toPage' \in [Surface -> Seq(Sent(snapshot))]
      /\ \A o \in Surface \ {s} : toPage'[o] = toPage[o]
  <2>1. toPage \in [Surface -> Seq(Sent(snapshot))] /\ <<>> \in Seq(Sent(snapshot))
    BY DEF IInv, Shape
  <2> QED BY <1>1, <2>1
<1>5. Shape'
  <2>1. /\ ready' \subseteq attached' /\ focusedId' \in {NoNode} \cup Had(snapshot)
        /\ attached' = attached \cup {s} /\ html' \in [Surface -> Direction]
    BY <1>1 DEF IInv, Shape
  <2> QED BY <1>1, <1>3, <1>4, <2>1, ShapeSteps DEF IInv
<1>6. ASSUME NEW o \in Surface, Runs(o)'
      PROVE  InStep(page'[o], toPage'[o], toHost'[o], o \in ready', Kept(focusedId)', Graphs[snapshot]')
  <2>1. CASE o = s
    BY <1>3, <2>1, GreetsFirst
  <2>2. CASE o # s
    <3>1. page'[o] = page[o] /\ toHost'[o] = toHost[o] /\ toPage'[o] = toPage[o]
      BY <1>3, <1>4, <2>2
    <3>2. Runs(o)
      BY <1>6, <3>1 DEF Runs
    <3> QED BY <1>1, <3>1, <3>2, KeptIs DEF IInv, AllInStep
  <2> QED BY <2>1, <2>2
<1> QED BY <1>3, <1>5, <1>6 DEF IInv, AllInStep

\* A page goes with what is on its way.
LEMMA PageGoes ==
    ASSUME IInv, NEW s \in Surface, UNCHANGED <<snapshot, setting, focusedId, html>>,
           hash' \in {hash, [hash EXCEPT ![s] = NothingSaved]},
           page' = [page EXCEPT ![s] = NoPage], toPage' = [toPage EXCEPT ![s] = <<>>],
           toHost' \in {toHost, [toHost EXCEPT ![s] = <<>>]},
           attached' \in {attached, attached \ {s}}, ready' \in {ready, ready \ {s}},
           ready' \subseteq attached',
           spent' \in [{"user", "steps"} -> Nat]
    PROVE  IInv'
<1>1. /\ page' \in [Surface -> {NoPage} \cup Page]
      /\ toPage' \in [Surface -> Seq(Sent(snapshot))]
      /\ toHost' \in [Surface -> Seq(Heard(snapshot))]
  <2>1. <<>> \in Seq(Sent(snapshot)) /\ <<>> \in Seq(Heard(snapshot))
    OBVIOUS
  <2>2. /\ page \in [Surface -> {NoPage} \cup Page]
        /\ toPage \in [Surface -> Seq(Sent(snapshot))]
        /\ toHost \in [Surface -> Seq(Heard(snapshot))]
    BY DEF IInv, Shape
  <2>3. page' \in [Surface -> {NoPage} \cup Page]
    BY <2>2
  <2>4. toPage' \in [Surface -> Seq(Sent(snapshot))]
    BY <2>1, <2>2
  <2>5. toHost' \in [Surface -> Seq(Heard(snapshot))]
    BY <2>1, <2>2
  <2> QED BY <2>3, <2>4, <2>5
<1>2. page'[s] = NoPage
  BY DEF IInv, Shape
<1>3. ASSUME NEW o \in Surface, Runs(o)'
      PROVE  /\ o # s /\ Runs(o) /\ page'[o] = page[o]
             /\ toPage'[o] = toPage[o] /\ toHost'[o] = toHost[o]
             /\ (o \in ready') = (o \in ready) /\ (o \in attached') = (o \in attached)
  <2>1. o # s
    BY <1>2, <1>3 DEF Runs
  <2>2. page'[o] = page[o] /\ toPage'[o] = toPage[o] /\ toHost'[o] = toHost[o]
    BY <2>1 DEF IInv, Shape
  <2> QED BY <1>3, <2>1, <2>2 DEF Runs
<1>4. /\ hash' \in [Surface -> Saved] /\ \A o \in Surface \ {s} : hash'[o] = hash[o]
      /\ hash'[s] \in {hash[s], NothingSaved}
  BY NothingSavedIs DEF IInv, Shape
<1>5. Shape'
  <2>1. ASSUME NEW o \in Surface, Runs(o)'
        PROVE  o \in attached' /\ PageOK(page'[o], snapshot) /\ hash'[o] = page'[o].saved
    BY <1>3, <1>4, <2>1 DEF IInv, Shape
  <2>2. attached' \subseteq Surface
    BY DEF IInv, Shape
  <2> QED BY <1>1, <1>4, <2>1, <2>2 DEF IInv, Shape, Runs
<1>6. RoutesStart'
  <2>1. ASSUME NEW o \in Surface PROVE RouteStarts(hash'[o])
    BY <1>4, NothingSavedIs DEF IInv, RoutesStart
  <2> QED BY <1>3, <2>1 DEF IInv, RoutesStart, RouteStarts
<1>7. AllInStep'
  BY <1>3, KeptIs DEF IInv, AllInStep
<1> QED BY <1>5, <1>6, <1>7 DEF IInv

LEMMA HideOK == ASSUME IInv, Hide PROVE IInv'
<1>1. /\ "view" \in Surface /\ UNCHANGED <<snapshot, setting, focusedId, attached, ready, html, hash, toHost>>
      /\ page' = [page EXCEPT !["view"] = NoPage] /\ toPage' = [toPage EXCEPT !["view"] = <<>>]
      /\ spent' \in [{"user", "steps"} -> Nat]
  BY SpendIs DEF Hide, IInv, Shape, Surface
<1>2. ready' \subseteq attached'
  BY <1>1 DEF IInv, Shape
<1> QED BY <1>1, <1>2, PageGoes

LEMMA ClosePanelOK == ASSUME IInv, ClosePanel PROVE IInv'
<1>1. /\ "panel" \in Surface /\ UNCHANGED <<snapshot, setting, focusedId, html>>
      /\ hash' = [hash EXCEPT !["panel"] = NothingSaved]
      /\ attached' = attached \ {"panel"} /\ ready' = ready \ {"panel"}
      /\ page' = [page EXCEPT !["panel"] = NoPage] /\ toPage' = [toPage EXCEPT !["panel"] = <<>>]
      /\ toHost' = [toHost EXCEPT !["panel"] = <<>>]
      /\ spent' \in [{"user", "steps"} -> Nat]
  BY SpendIs DEF ClosePanel, IInv, Shape, Surface
<1>2. ready' \subseteq attached'
  BY <1>1 DEF IInv, Shape
<1> QED BY <1>1, <1>2, PageGoes

LEMMA DeliverOK == ASSUME IInv, NEW s \in Surface, Deliver(s) PROVE IInv'
<1> DEFINE p == page[s]
           q == toPage[s]
<1>1. /\ Runs(s) /\ q # <<>> /\ toPage' = [toPage EXCEPT ![s] = Tail(q)]
      /\ UNCHANGED <<snapshot, setting, focusedId, attached, ready, html, spent>>
  BY DEF Deliver, IInv, Shape
<1>2. PICK r \in Handle(p, Head(q)) : StepTo(s, r)
  BY DEF Deliver
<1>3. snapshot \in 1..Len(Graphs) /\ q \in Seq(Sent(snapshot)) /\ toHost[s] \in Seq(Heard(snapshot))
  BY DEF IInv, Shape
<1>4. Steady(p) /\ p.graph \in {NoGraph} \cup Known(snapshot)
  BY <1>1, RunsSteady DEF IInv
<1> HIDE DEF p, q
<1>5. Head(q) \in Sent(snapshot) /\ Head(q) = q[1] /\ Tail(q) \in Seq(Sent(snapshot))
  BY <1>1, <1>3, HeadTailProperties
<1>6. Handles(p, Head(q), r)
  BY <1>2, <1>3, <1>4, <1>5, HandleIs
<1>7. r.graph \in {NoGraph} \cup Known(snapshot)
  BY <1>4, <1>5, <1>6 DEF Handles, Sent
<1>8. r.out \in Seq(Heard(snapshot))
  BY <1>3, <1>4, <1>6, OutIsHeard DEF Handles
<1>9. /\ page' \in [Surface -> {NoPage} \cup Page] /\ hash' \in [Surface -> Saved]
      /\ toHost' \in [Surface -> Seq(Heard(snapshot))]
      /\ PageOK(page'[s], snapshot) /\ hash'[s] = page'[s].saved
      /\ page'[s].focus = r.focus /\ page'[s].graph = r.graph
      /\ toHost'[s] = toHost[s] \o r.out
      /\ \A o \in Surface \ {s} :
            page'[o] = page[o] /\ hash'[o] = hash[o] /\ toHost'[o] = toHost[o]
      /\ RoutesStart'
  <2>1. r \in Page /\ r.saved.focus = r.focus /\ RouteStarts(r) /\ RouteStarts(r.saved)
    BY <1>6 DEF Handles
  <2> QED BY <1>2, <1>7, <1>8, <2>1, StepToIs DEF IInv
<1>10. /\ toPage' \in [Surface -> Seq(Sent(snapshot))] /\ toPage'[s] = Tail(q)
       /\ \A o \in Surface \ {s} : toPage'[o] = toPage[o]
  BY <1>1, <1>5 DEF IInv, Shape
<1>11. Shape'
  <2>1. /\ ready' \subseteq attached' /\ focusedId' \in {NoNode} \cup Had(snapshot)
        /\ attached' = attached \cup {s} /\ html' \in [Surface -> Direction]
        /\ spent' \in [{"user", "steps"} -> Nat]
    BY <1>1 DEF IInv, Shape
  <2> QED BY <1>1, <1>9, <1>10, <2>1, ShapeSteps DEF IInv
<1>12. InStep(p, q, toHost[s], s \in ready, Kept(focusedId), Graphs[snapshot])
  BY <1>1 DEF IInv, AllInStep, p, q
<1>13. InStep(page'[s], Tail(q), toHost[s] \o r.out, s \in ready, Kept(focusedId), Graphs[snapshot])
  <2>1. Handles(p, q[1], r)
    BY <1>5, <1>6
  <2>2. p.graph \in {NoGraph} \cup Known(Len(Graphs))
    BY <1>3, <1>4, GraphsAre
  <2>3. page'[s].focus = r.focus /\ page'[s].graph = r.graph
    BY <1>9
  <2> QED BY <1>1, <1>3, <1>8, <1>12, <2>1, <2>2, <2>3, PageReads
<1>14. ASSUME NEW o \in Surface, Runs(o)'
       PROVE  InStep(page'[o], toPage'[o], toHost'[o], o \in ready', Kept(focusedId)', Graphs[snapshot]')
  <2>1. CASE o = s
    BY <1>1, <1>9, <1>10, <1>13, <2>1, KeptIs
  <2>2. CASE o # s
    <3>1. page'[o] = page[o] /\ toHost'[o] = toHost[o] /\ toPage'[o] = toPage[o]
      BY <1>9, <1>10, <2>2
    <3>2. Runs(o)
      BY <1>14, <3>1 DEF Runs
    <3> QED BY <1>1, <3>1, <3>2, KeptIs DEF IInv, AllInStep
  <2> QED BY <2>1, <2>2
<1> QED BY <1>9, <1>11, <1>14 DEF IInv, AllInStep

LEMMA UserOK == ASSUME IInv, NEW s \in Surface, User(s) PROVE IInv'
<1> DEFINE p == page[s]
<1>1. /\ Runs(s) /\ spent' \in [{"user", "steps"} -> Nat]
      /\ UNCHANGED <<snapshot, setting, focusedId, attached, ready, html, toPage>>
  BY SpendIs DEF User, IInv, Shape
<1>2. PICK r \in UserSteps(p) : StepTo(s, r)
  BY DEF User
<1>3. snapshot \in 1..Len(Graphs) /\ toHost[s] \in Seq(Heard(snapshot))
  BY DEF IInv, Shape
<1>4. Steady(p) /\ p.graph \in {NoGraph} \cup Known(snapshot)
  BY <1>1, RunsSteady DEF IInv
<1> HIDE DEF p
<1>5. Moves(p, r)
  BY <1>2, <1>4, UserMoves
<1>6. r.graph \in {NoGraph} \cup Known(snapshot)
  BY <1>4, <1>5 DEF Moves
<1>7. r.out \in Seq(Heard(snapshot))
  BY <1>3, <1>4, <1>5, OutIsHeard DEF Moves
<1>8. /\ page' \in [Surface -> {NoPage} \cup Page] /\ hash' \in [Surface -> Saved]
      /\ toHost' \in [Surface -> Seq(Heard(snapshot))]
      /\ PageOK(page'[s], snapshot) /\ hash'[s] = page'[s].saved
      /\ page'[s].focus = r.focus /\ page'[s].graph = r.graph
      /\ toHost'[s] = toHost[s] \o r.out
      /\ \A o \in Surface \ {s} :
            page'[o] = page[o] /\ hash'[o] = hash[o] /\ toHost'[o] = toHost[o]
      /\ RoutesStart'
  <2>1. r \in Page /\ r.saved.focus = r.focus /\ RouteStarts(r) /\ RouteStarts(r.saved)
    BY <1>5 DEF Moves
  <2> QED BY <1>2, <1>6, <1>7, <2>1, StepToIs DEF IInv
<1>9. Shape'
  <2>1. /\ ready' \subseteq attached' /\ focusedId' \in {NoNode} \cup Had(snapshot)
        /\ attached' = attached \cup {s} /\ html' \in [Surface -> Direction]
        /\ toPage' \in [Surface -> Seq(Sent(snapshot))]
    BY <1>1 DEF IInv, Shape
  <2> QED BY <1>1, <1>8, <2>1, ShapeSteps DEF IInv
<1>10. InStep(p, toPage[s], toHost[s], s \in ready, Kept(focusedId), Graphs[snapshot])
  BY <1>1 DEF IInv, AllInStep, p
<1>11. InStep(page'[s], toPage[s], toHost[s] \o r.out, s \in ready, Kept(focusedId), Graphs[snapshot])
  <2>1. page'[s].focus = r.focus /\ page'[s].graph = r.graph
    BY <1>8
  <2> QED BY <1>3, <1>5, <1>7, <1>10, <2>1, PageSteps
<1>12. ASSUME NEW o \in Surface, Runs(o)'
       PROVE  InStep(page'[o], toPage'[o], toHost'[o], o \in ready', Kept(focusedId)', Graphs[snapshot]')
  <2>1. CASE o = s
    BY <1>1, <1>8, <1>11, <2>1, KeptIs
  <2>2. CASE o # s
    <3>1. page'[o] = page[o] /\ toHost'[o] = toHost[o]
      BY <1>8, <2>2
    <3>2. Runs(o)
      BY <1>12, <3>1 DEF Runs
    <3> QED BY <1>1, <3>1, <3>2, KeptIs DEF IInv, AllInStep
  <2> QED BY <2>1, <2>2
<1> QED BY <1>8, <1>9, <1>12 DEF IInv, AllInStep

LEMMA ReceiveOK == ASSUME IInv, NEW s \in Surface, Receive(s) PROVE IInv'
<1> DEFINE o == toHost[s]
           msg == Head(o)
           g == Graphs[snapshot]
<1>1. /\ o # <<>> /\ toHost' = [toHost EXCEPT ![s] = Tail(o)]
      /\ UNCHANGED <<snapshot, setting, attached, html, page, hash, spent>>
  BY DEF Receive, IInv, Shape
<1>2. IF s \notin attached THEN UNCHANGED <<ready, focusedId, toPage>>
      ELSE \/ msg.type = "ready" /\ OnReady(s)
           \/ msg.type = "focused" /\ OnFocused(s, msg.id)
  BY DEF Receive
<1>3. /\ snapshot \in 1..Len(Graphs) /\ o \in Seq(Heard(snapshot))
      /\ toPage \in [Surface -> Seq(Sent(snapshot))] /\ focusedId \in {NoNode} \cup Had(snapshot)
      /\ toHost \in [Surface -> Seq(Heard(snapshot))]
      /\ ready \subseteq attached /\ attached \subseteq Surface
  BY DEF IInv, Shape
<1>4. /\ Had(snapshot) \subseteq Node /\ g \in Known(Len(Graphs))
      /\ \A id \in Had(snapshot) : Stayed(id) => id \in g.nodes
  BY <1>3, GraphsAre, StayedIs
<1> HIDE DEF o, msg, g
<1>5. msg \in Heard(snapshot) /\ Tail(o) \in Seq(Heard(snapshot))
  BY <1>1, <1>3, HeadTailProperties DEF msg
<1>6. /\ toHost' \in [Surface -> Seq(Heard(snapshot))] /\ toHost'[s] = Tail(o)
      /\ \A u \in Surface \ {s} : toHost'[u] = toHost[u]
  BY <1>1, <1>3, <1>5
<1>7. \A u \in Surface : Runs(u)' <=> Runs(u)
  BY <1>1 DEF Runs
<1>8. ASSUME NEW u \in Surface, Runs(u)
      PROVE  InStep(page[u], toPage[u], toHost[u], u \in ready, Kept(focusedId), g)
  BY <1>8 DEF IInv, AllInStep, g
<1>9. RoutesStart'
  BY <1>1, RoutesStay DEF IInv
\* The rest of the shape, once the focus and the queues of the step are known.
<1>10. ASSUME focusedId' \in {NoNode} \cup Had(snapshot), ready' \subseteq attached,
              toPage' \in [Surface -> Seq(Sent(snapshot))]
       PROVE  Shape'
  <2>1. /\ setting' \in [Surface -> Direction] /\ html' \in [Surface -> Direction]
        /\ spent' \in [{"user", "steps"} -> Nat]
    BY <1>1 DEF IInv, Shape
  <2> QED BY <1>1, <1>3, <1>6, <1>10, <2>1, ShapeStays DEF IInv
<1>11. CASE s \notin attached
  <2>1. UNCHANGED <<ready, focusedId, toPage>>
    BY <1>2, <1>11
  <2>2. ~Runs(s)
    BY <1>11 DEF IInv, Shape
  <2>3. ASSUME NEW u \in Surface, Runs(u)
        PROVE  InStep(page[u], toPage'[u], toHost'[u], u \in ready', Kept(focusedId)', g)
    BY <1>1, <1>6, <1>8, <2>1, <2>2, <2>3, KeptIs
  <2>4. Shape'
    BY <1>3, <1>10, <2>1
  <2> QED BY <1>1, <1>7, <1>9, <2>3, <2>4 DEF IInv, AllInStep, g
<1>12. CASE s \in attached /\ msg.type = "ready" /\ OnReady(s)
  <2> DEFINE q == toPage[s]
             gm == GraphMsg(snapshot)
             fm == FocusMsg(focusedId)
             n == IF focusedId = NoNode THEN Append(q, gm) ELSE Append(Append(q, gm), fm)
  <2>1. /\ gm \in Sent(snapshot) /\ gm.type = "graph" /\ gm.graph = g
        /\ fm.type = "focus" /\ fm.id = focusedId
        /\ focusedId # NoNode => fm \in Sent(snapshot)
    BY <1>3, <1>4, MessagesAre DEF g
  <2>2. /\ ready' = ready \cup {s} /\ focusedId' = focusedId
        /\ toPage' = [toPage EXCEPT ![s] = q \o <<gm>> \o
                         (IF focusedId = NoNode THEN <<>> ELSE <<fm>>)]
    BY <1>3, <1>12 DEF OnReady
  <2>3. q \in Seq(Sent(snapshot))
    BY <1>3
  <2> HIDE DEF gm, fm, q
  <2>4. q \o <<gm>> = Append(q, gm) /\ Append(q, gm) \in Seq(Sent(snapshot))
    BY <2>1, <2>3, AppendProperties, AppendIsConcat
  <2>5. q \o <<gm>> \o (IF focusedId = NoNode THEN <<>> ELSE <<fm>>) = n /\ n \in Seq(Sent(snapshot))
    <3> DEFINE a == Append(q, gm)
    <3>1. q \o <<gm>> \o (IF focusedId = NoNode THEN <<>> ELSE <<fm>>)
             = a \o (IF focusedId = NoNode THEN <<>> ELSE <<fm>>)
      BY <2>4
    <3>2. a \in Seq(Sent(snapshot))
      BY <2>4
    <3> HIDE DEF a
    <3>3. CASE focusedId = NoNode
      <4>1. a \o <<>> = a
        BY <3>2, ConcatEmptySeq
      <4> QED BY <3>1, <3>2, <3>3, <4>1 DEF a
    <3>4. CASE focusedId # NoNode
      <4>1. a \o <<fm>> = Append(a, fm) /\ Append(a, fm) \in Seq(Sent(snapshot))
        BY <2>1, <3>2, <3>4, AppendProperties, AppendIsConcat
      <4> QED BY <3>1, <3>4, <4>1 DEF a
    <3> QED BY <3>3, <3>4
  <2> HIDE DEF n
  <2>6. /\ toPage' \in [Surface -> Seq(Sent(snapshot))] /\ toPage'[s] = n
        /\ \A u \in Surface \ {s} : toPage'[u] = toPage[u]
    BY <1>3, <2>2, <2>5
  <2>7. ASSUME Runs(s)
        PROVE  InStep(page[s], n, Tail(o), TRUE, Kept(focusedId), g)
    <3>1. Reported(page[s], o)
      BY <1>8, <2>7 DEF InStep, o
    <3>2. CASE focusedId = NoNode
      <4>1. Reported(page[s], Tail(o))
        BY <1>1, <1>3, <3>1, TailOf
      <4>2. Reads(Append(q, gm), Len(q) + 2, page[s].graph, g)
        BY <2>1, <2>3, ReadsAppend
      <4>3. Len(Append(q, gm)) + 1 = Len(q) + 2
        BY <2>1, <2>3, AppendProperties
      <4>4. n = Append(q, gm)
        BY <3>2 DEF n
      <4> QED BY <3>2, <4>1, <4>2, <4>3, <4>4 DEF InStep, Current, Follows, Kept
    <3>3. CASE focusedId # NoNode /\ Stayed(focusedId)
      <4>1. n = Append(Append(q, gm), fm) /\ fm \in Sent(snapshot)
        BY <2>1, <3>3 DEF n
      <4>2. focusedId \in g.nodes
        BY <1>3, <1>4, <3>3
      <4>3. InStep(page[s], n, Tail(o), TRUE, focusedId, g)
        BY <1>1, <1>3, <1>4, <2>1, <2>3, <3>1, <3>3, <4>1, <4>2, ReceiveReady
      <4> QED BY <3>3, <4>3 DEF Kept
    <3>4. CASE focusedId # NoNode /\ ~Stayed(focusedId)
      <4> DEFINE a == Append(q, gm)
      <4>1. n = Append(a, fm) /\ fm \in Sent(snapshot) /\ a \in Seq(Sent(snapshot))
        BY <2>1, <2>4, <3>4 DEF n
      <4>2. InStep(page[s], a, Tail(o), TRUE, NoNode, g)
        <5>1. Reported(page[s], Tail(o))
          BY <1>1, <1>3, <3>1, TailOf
        <5>2. Reads(a, Len(q) + 2, page[s].graph, g)
          BY <2>1, <2>3, ReadsAppend
        <5>3. Len(a) + 1 = Len(q) + 2
          BY <2>1, <2>3, AppendProperties
        <5> HIDE DEF a
        <5> QED BY <5>1, <5>2, <5>3 DEF InStep, Current, Follows
      <4> HIDE DEF a
      <4>3. InStep(page[s], n, Tail(o), TRUE, NoNode, g)
        BY <2>1, <4>1, <4>2, SendOther
      <4> QED BY <3>4, <4>3 DEF Kept
    <3> QED BY <3>2, <3>3, <3>4
  <2>8. ASSUME NEW u \in Surface, Runs(u)
        PROVE  InStep(page[u], toPage'[u], toHost'[u], u \in ready', Kept(focusedId)', g)
    <3>1. CASE u = s
      <4>1. (u \in ready') = TRUE
        BY <2>2, <3>1
      <4> QED BY <1>1, <1>6, <2>2, <2>6, <2>7, <2>8, <3>1, <4>1, KeptIs
    <3>2. CASE u # s
      <4>1. (u \in ready') = (u \in ready) /\ toPage'[u] = toPage[u] /\ toHost'[u] = toHost[u]
        BY <1>6, <2>2, <2>6, <3>2
      <4> QED BY <1>1, <1>8, <2>2, <2>8, <4>1, KeptIs
    <3> QED BY <3>1, <3>2
  <2>9. Shape'
    <3>1. ready' \subseteq attached
      BY <1>3, <1>12, <2>2
    <3> QED BY <1>3, <1>10, <2>2, <2>6, <3>1
  <2> QED BY <1>1, <1>7, <1>9, <2>8, <2>9 DEF IInv, AllInStep, g
<1>13. CASE s \in attached /\ msg.type = "focused" /\ OnFocused(s, msg.id)
  <2>1. msg.id \in Had(snapshot) /\ ~IsReady(msg)
    BY <1>5, <1>13 DEF Heard, IsReady
  <2>2. /\ ready' = ready /\ focusedId' = msg.id
        /\ IF msg.id = focusedId THEN toPage' = toPage
           ELSE Broadcast(FocusMsg(msg.id), Surface \ {s})
    BY <1>13 DEF OnFocused, SetFocused
  <2>3. /\ toPage' \in [Surface -> Seq(Sent(snapshot))] /\ toPage'[s] = toPage[s]
        /\ \A u \in Surface \ {s} : Runs(u) =>
              InStep(page[u], toPage'[u], toHost[u], u \in ready, Kept(msg.id), g)
    <3>1. CASE msg.id = focusedId
      BY <1>3, <1>8, <2>2, <3>1
    <3>2. CASE msg.id # focusedId
      <4>1. Broadcast(FocusMsg(msg.id), Surface \ {s})
        BY <2>2, <3>2
      <4> QED BY <2>1, <4>1, TellFocus DEF g
    <3> QED BY <3>1, <3>2
  <2>4. ASSUME Runs(s)
        PROVE  InStep(page[s], toPage[s], Tail(o), s \in ready, Kept(msg.id), g)
    <3>1. InStep(page[s], toPage[s], o, s \in ready, Kept(focusedId), g)
      BY <1>8, <2>4 DEF o
    <3>2. InStep(page[s], toPage[s], Tail(o), s \in ready, msg.id, g)
      BY <1>1, <1>3, <2>1, <3>1, ReceiveFocused DEF msg
    <3> QED BY <3>2, NoFocusBinds
  <2>5. ASSUME NEW u \in Surface, Runs(u)
        PROVE  InStep(page[u], toPage'[u], toHost'[u], u \in ready', Kept(focusedId)', g)
    <3>1. CASE u = s
      BY <1>1, <1>6, <2>2, <2>3, <2>4, <2>5, <3>1, KeptIs
    <3>2. CASE u # s
      BY <1>1, <1>6, <2>2, <2>3, <2>5, <3>2, KeptIs
    <3> QED BY <3>1, <3>2
  <2>6. Shape'
    BY <1>3, <1>10, <2>1, <2>2, <2>3
  <2> QED BY <1>1, <1>7, <1>9, <2>5, <2>6 DEF IInv, AllInStep, g
<1> QED BY <1>2, <1>11, <1>12, <1>13

LEMMA StutterOK == ASSUME IInv, UNCHANGED vars PROVE IInv'
<1>1. /\ UNCHANGED <<snapshot, setting, focusedId, attached, ready, html, page, hash>>
      /\ UNCHANGED <<toPage, toHost, spent>>
  BY DEF vars
<1>2. Shape'
  BY <1>1 DEF IInv, Shape, Runs
<1>3. RoutesStart' /\ AllInStep'
  BY <1>1, KeptIs DEF IInv, RoutesStart, AllInStep, Runs
<1> QED BY <1>2, <1>3 DEF IInv

LEMMA NextOK == ASSUME IInv, [Next]_vars PROVE IInv'
<1>1. CASE System
  BY <1>1, ReceiveOK, DeliverOK DEF System
<1>2. CASE Snapshot
  BY <1>2, SnapshotOK
<1>3. CASE \E id \in Node : FocusNode(id)
  BY <1>3, FocusNodeOK
<1>4. CASE \E dir \in Direction : ChangeSetting(dir)
  BY <1>4, ChangeSettingOK
<1>5. CASE \E s \in Surface : Attach(s) \/ User(s)
  BY <1>5, AttachOK, UserOK
<1>6. CASE Hide \/ Show \/ ClosePanel
  BY <1>6, HideOK, ShowOK, ClosePanelOK
<1>7. CASE UNCHANGED vars
  BY <1>7, StutterOK
<1> QED BY <1>1, <1>2, <1>3, <1>4, <1>5, <1>6, <1>7 DEF Next

-----------------------------------------------------------------------------
(* What holds in every state                                                *)

LEMMA Invariant == Spec => []IInv
<1>1. Init => IInv
  BY InitOK
<1>2. IInv /\ [Next]_vars => IInv'
  BY NextOK
<1> QED BY <1>1, <1>2, PTL DEF Spec

\* The state of the extension, of the pages and of what is under way keeps its shape,
\* and what a page saved is what it shows.
THEOREM TypeCorrect == Spec => []TypeOK
<1>1. IInv => TypeOK
  <2> SUFFICES ASSUME IInv PROVE TypeOK
    OBVIOUS
  <2>1. snapshot \in 1..Len(Graphs) /\ snapshot \in DOMAIN Graphs
    BY GraphsAre DEF IInv, Shape
  <2>2. focusedId \in Node \cup {NoNode}
    BY <2>1, GraphsAre DEF IInv, Shape
  <2>3. ASSUME NEW s \in Surface, Runs(s)
        PROVE  /\ s \in attached /\ page[s] \in Page /\ page[s].out = <<>>
               /\ hash[s] = page[s].saved
               /\ FormatHash(page[s]).focus = hash[s].focus
    <3>1. s \in attached /\ PageOK(page[s], snapshot) /\ hash[s] = page[s].saved
      BY <2>3 DEF IInv, Shape
    <3>2. FormatHash(page[s]).focus = page[s].focus
      BY <3>1, FormatHashIs DEF PageOK
    <3> QED BY <3>1, <3>2 DEF PageOK
  <2>4. toHost \in [Surface -> Seq(Posted)]
    <3>1. Heard(snapshot) \subseteq Posted
      BY <2>1, GraphsAre DEF Heard, Posted
    <3>2. Seq(Heard(snapshot)) \subseteq Seq(Posted)
      BY <3>1, SeqMonotonic
    <3> QED BY <3>2 DEF IInv, Shape
  <2> QED BY <2>1, <2>2, <2>3, <2>4 DEF IInv, Shape, TypeOK
<1> QED BY <1>1, Invariant, PTL

\* A route on screen starts at the focused node (pick, focus and stepBack keep route
\* and focus in step, and so does what a page saved for the next one).
THEOREM RouteStartsAtFocusHolds == Spec => []RouteStartsAtFocus
<1>1. IInv => RouteStartsAtFocus
  BY DEF IInv, RoutesStart, RouteStarts, RouteStartsAtFocus
<1> QED BY <1>1, Invariant, PTL

\* Once nothing is under way, every page shows the graph of the last snapshot and has
\* the focused node of the window in focus, or has none, unless a snapshot dropped
\* that node (show, attach, setFocused, update, focus).
THEOREM QuietMeansCurrentHolds == Spec => []QuietMeansCurrent
<1>1. IInv => QuietMeansCurrent
  <2> SUFFICES ASSUME IInv, Quiet, NEW s \in Surface, Runs(s)
               PROVE  /\ focusedId # NoNode /\ Stayed(focusedId) => page[s].focus \in {focusedId, NoNode}
                      /\ page[s].graph = Graphs[snapshot]
    BY DEF QuietMeansCurrent, Together
  <2>1. InStep(page[s], toPage[s], toHost[s], s \in ready, Kept(focusedId), Graphs[snapshot])
    BY DEF IInv, AllInStep
  <2>2. toHost[s] = <<>> /\ toPage[s] = <<>> /\ Len(<<>>) = 0
    BY DEF Quiet
  <2>3. ~Greets(toHost[s])
    BY <2>2 DEF Greets
  <2>4. Reads(<<>>, 1, page[s].graph, Graphs[snapshot])
    BY <2>1, <2>2, <2>3 DEF InStep, Current
  <2>5. page[s].graph = Graphs[snapshot]
    BY <2>4 DEF Reads
  <2>6. focusedId # NoNode /\ Stayed(focusedId) => page[s].focus \in {focusedId, NoNode}
    BY <2>1, <2>2 DEF InStep, Follows, Kept
  <2> QED BY <2>5, <2>6
<1> QED BY <1>1, Invariant, PTL

-----------------------------------------------------------------------------
(* The ledgers: rows of lines                                               *)

\* The recursion of RowsIn.
NextRows(rows, line) == IF IsRow(line) THEN Append(rows, line) ELSE rows
RowsUpTo(lines) ==
    CHOOSE rows : rows = [i \in 0 .. Len(lines) |->
        IF i = 0 THEN <<>>
        ELSE IF IsRow(lines[i]) THEN Append(rows[i - 1], lines[i]) ELSE rows[i - 1]]

LEMMA RowsUpToIs ==
    ASSUME NEW lines \in Seq(Line)
    PROVE  /\ Len(lines) \in Nat
           /\ RowsIn(lines) = RowsUpTo(lines)[Len(lines)]
           /\ RowsUpTo(lines)[0] = <<>>
           /\ \A i \in 1 .. Len(lines) :
                 RowsUpTo(lines)[i] = NextRows(RowsUpTo(lines)[i - 1], lines[i])
<1> DEFINE n == Len(lines)
           Solves(f, m) == f = [i \in 0 .. m |->
               IF i = 0 THEN <<>> ELSE IF IsRow(lines[i]) THEN Append(f[i - 1], lines[i]) ELSE f[i - 1]]
           T == {m \in 0 .. n : ~ \E f : Solves(f, m)}
<1>0. n \in Nat
  BY LenProperties
<1>1. \E f : Solves(f, n)
  <2> HIDE DEF n
  <2>0. n \in 0 .. n
    BY <1>0
  <2> SUFFICES ASSUME T # {} PROVE FALSE
    <3> HIDE DEF Solves
    <3> QED BY <2>0
  <2>1. T \in SUBSET Nat
    BY <1>0
  <2>2. PICK m \in T : \A k \in T : m <= k
    <3> HIDE DEF T
    <3> QED BY <2>1, LeastOfNat
  <2>3. m # 0
    <3>1. Solves([i \in 0 .. 0 |-> <<>>], 0)
      OBVIOUS
    <3> QED BY <3>1
  <2>4. m - 1 \in 0 .. n /\ m - 1 \notin T
    <3>1. m \in 0 .. n
      OBVIOUS
    <3> HIDE DEF T
    <3> QED BY <1>0, <2>2, <2>3, <3>1
  <2>5. PICK f : Solves(f, m - 1)
    <3> HIDE DEF Solves
    <3> QED BY <2>4
  <2> DEFINE h == [i \in 0 .. m |-> IF i = m THEN NextRows(f[m - 1], lines[m]) ELSE f[i]]
  <2>6. \A i \in 0 .. (m - 1) : h[i] = f[i] /\ (i # 0 => i - 1 \in 0 .. (m - 1))
    BY <1>0, <2>4
  <2>7. m \in Nat /\ \A i \in 0 .. m : i = m \/ i \in 0 .. (m - 1)
    BY <1>0, <2>4
  <2>8. h[m] = NextRows(h[m - 1], lines[m])
    BY <2>3, <2>4, <2>6, <2>7
  <2>9. \A i \in 0 .. (m - 1) : h[i] = IF i = 0 THEN <<>> ELSE NextRows(h[i - 1], lines[i])
    <3> HIDE DEF h
    <3>1. \A i \in 0 .. (m - 1) : f[i] = IF i = 0 THEN <<>> ELSE NextRows(f[i - 1], lines[i])
      BY <2>5 DEF NextRows
    <3> QED BY <2>6, <3>1
  <2>10. Solves(h, m)
    BY <2>3, <2>7, <2>8, <2>9 DEF NextRows
  <2> QED BY <2>10
<1>2. RowsUpTo(lines) = [i \in 0 .. n |->
          IF i = 0 THEN <<>>
          ELSE IF IsRow(lines[i]) THEN Append(RowsUpTo(lines)[i - 1], lines[i])
               ELSE RowsUpTo(lines)[i - 1]]
  BY <1>1 DEF RowsUpTo
<1>3. RowsIn(lines) = RowsUpTo(lines)[n]
  BY DEF RowsIn, RowsUpTo
<1>4. /\ 0 \in 0 .. n /\ \A i \in 1 .. n : i \in 0 .. n /\ i # 0
  BY <1>0
<1> DEFINE A == RowsUpTo(lines)
<1>5. A = [i \in 0 .. n |->
          IF i = 0 THEN <<>> ELSE IF IsRow(lines[i]) THEN Append(A[i - 1], lines[i]) ELSE A[i - 1]]
  BY <1>2
<1> HIDE DEF A, n
<1>6. A[0] = <<>> /\ \A i \in 1 .. n : A[i] = NextRows(A[i - 1], lines[i])
  BY <1>4, <1>5 DEF NextRows
<1> QED BY <1>0, <1>3, <1>6 DEF A, n

\* The rows of a sequence of lines and of one line more.
LEMMA RowsOfOneMore ==
    ASSUME NEW lines \in Seq(Line), NEW line \in Line
    PROVE  RowsIn(Append(lines, line)) = NextRows(RowsIn(lines), line)
<1> DEFINE more == Append(lines, line)
           n == Len(lines)
           A == RowsUpTo(lines)
           B == RowsUpTo(more)
           T == {k \in 0 .. n : A[k] # B[k]}
<1>1. /\ more \in Seq(Line) /\ Len(more) = n + 1 /\ n \in Nat
      /\ more[n + 1] = line /\ \A i \in 1 .. n : more[i] = lines[i]
  BY AppendProperties, LenProperties
<1>2. /\ RowsIn(lines) = A[n] /\ A[0] = <<>>
      /\ \A i \in 1 .. n : A[i] = NextRows(A[i - 1], lines[i])
  BY RowsUpToIs
<1>3. /\ RowsIn(more) = B[n + 1] /\ B[0] = <<>>
      /\ \A i \in 1 .. (n + 1) : B[i] = NextRows(B[i - 1], more[i])
  <2> HIDE DEF more
  <2> QED BY <1>1, RowsUpToIs
<1> HIDE DEF A, B, n, more
<1>4. T = {}
  <2> SUFFICES ASSUME T # {} PROVE FALSE
    OBVIOUS
  <2>1. T \in SUBSET Nat
    BY <1>1
  <2>2. PICK m \in T : \A k \in T : m <= k
    <3> HIDE DEF T
    <3> QED BY <2>1, LeastOfNat
  <2>3. m \in 0 .. n /\ A[m] # B[m]
    OBVIOUS
  <2>4. m # 0
    BY <1>2, <1>3, <2>3
  <2>5. m - 1 \in 0 .. n /\ m - 1 \notin T
    <3> HIDE DEF T
    <3> QED BY <1>1, <2>2, <2>3, <2>4
  <2>6. A[m - 1] = B[m - 1]
    BY <2>5
  <2>7. m \in 1 .. n /\ m \in 1 .. (n + 1)
    BY <1>1, <2>3, <2>4
  <2> QED BY <1>1, <1>2, <1>3, <2>3, <2>6, <2>7
<1>5. A[n] = B[n]
  BY <1>1, <1>4
<1>6. n + 1 \in 1 .. (n + 1) /\ (n + 1) - 1 = n
  BY <1>1
<1> QED BY <1>1, <1>2, <1>3, <1>5, <1>6 DEF more

LEMMA AppendsAtTheEnd ==
    ASSUME NEW u \in Seq(Line), NEW v \in Seq(Line), NEW x \in Line
    PROVE  /\ Append(u \o v, x) = u \o Append(v, x) /\ u \o v \in Seq(Line)
           /\ Append(v, x) \in Seq(Line) /\ Len(Append(v, x)) = Len(v) + 1
           /\ Len(v) \in Nat
<1> DEFINE w == <<x>>
           L == Line
<1>1. w \in Seq(L)
  OBVIOUS
<1>2. Append(v, x) = v \o w /\ u \o v \in Seq(L)
  BY AppendIsConcat, ConcatProperties
<1>3. Append(u \o v, x) = (u \o v) \o w
  BY <1>2, AppendIsConcat
<1>4. (u \o v) \o w = u \o (v \o w)
  <2> HIDE DEF w, L
  <2>1. u \in Seq(L) /\ v \in Seq(L)
    BY DEF L
  <2> QED BY <1>1, <2>1, ConcatAssociative
<1>5. /\ Append(v, x) \in Seq(Line) /\ Len(Append(v, x)) = Len(v) + 1
      /\ Len(v) \in Nat
  BY AppendProperties, LenProperties
<1> QED BY <1>2, <1>3, <1>4, <1>5

LEMMA RowsOfNothing == RowsIn(<<>>) = <<>>
<1>1. <<>> \in Seq(Line) /\ Len(<<>>) = 0
  OBVIOUS
<1> QED BY <1>1, RowsUpToIs

\* Parsing what follows and appending its rows is parsing the whole.
RowsJoin(a, b) ==
    /\ RowsIn(a \o b) = RowsIn(a) \o RowsIn(b)
    /\ RowsIn(b) \in Seq(Line)
    /\ Len(RowsIn(b)) <= Len(b)

LEMMA RowsOfJoined ==
    ASSUME NEW a \in Seq(Line), RowsIn(a) \in Seq(Line)
    PROVE  \A b \in Seq(Line) : RowsJoin(a, b)
<1> DEFINE T == {k \in Nat : \E b \in Seq(Line) : Len(b) = k /\ ~RowsJoin(a, b)}
<1> SUFFICES ASSUME T # {} PROVE FALSE
  <2> HIDE DEF RowsJoin
  <2> QED BY LenProperties
<1>2. PICK m \in T : \A k \in T : m <= k
  <2>1. T \in SUBSET Nat
    OBVIOUS
  <2> HIDE DEF T
  <2> QED BY <2>1, LeastOfNat
<1>3. PICK b \in Seq(Line) : Len(b) = m /\ ~RowsJoin(a, b)
  OBVIOUS
<1>4. CASE m = 0
  <2>1. b = <<>>
    BY <1>3, <1>4, EmptySeq
  <2>2. a \o b = a /\ RowsIn(a) \o <<>> = RowsIn(a)
    BY <2>1, ConcatEmptySeq
  <2> QED BY <1>3, <2>1, <2>2, RowsOfNothing DEF RowsJoin
<1>5. CASE m # 0
  <2> DEFINE c == SubSeq(b, 1, m - 1)
             x == b[m]
  <2>1. m \in Nat
    OBVIOUS
  <2>2. c \in Seq(Line) /\ Len(c) = m - 1 /\ x \in Line
    BY <1>3, <1>5, <2>1
  <2>3. b = Append(c, x)
    <3>1. c \o <<x>> = b
      BY <1>3, <1>5, <2>1, SubSeqRecursiveSecond, SubSeqFull
    <3> HIDE DEF c, x
    <3> QED BY <2>2, <3>1, AppendIsConcat
  <2>4. RowsJoin(a, c)
    <3>1. m - 1 \in Nat /\ m - 1 \notin T
      <4> HIDE DEF T
      <4> QED BY <1>2, <1>5, <2>1
    <3> HIDE DEF c
    <3> QED BY <2>2, <3>1
  <2> HIDE DEF c, x
  <2>5. a \o b = Append(a \o c, x) /\ a \o c \in Seq(Line)
    <3> HIDE DEF T
    <3>1. /\ Append(a \o c, x) = a \o Append(c, x) /\ a \o c \in Seq(Line)
          /\ Append(c, x) \in Seq(Line) /\ Len(Append(c, x)) = Len(c) + 1
          /\ Len(c) \in Nat
      BY <2>2, AppendsAtTheEnd, Zenon
    <3> QED BY <2>3, <3>1
  <2>6. RowsIn(a \o b) = NextRows(RowsIn(a) \o RowsIn(c), x)
    BY <2>2, <2>4, <2>5, RowsOfOneMore DEF RowsJoin
  <2>7. RowsIn(b) = NextRows(RowsIn(c), x)
    BY <2>2, <2>3, RowsOfOneMore
  <2> DEFINE u == RowsIn(a)
             v == RowsIn(c)
  <2>8. u \in Seq(Line) /\ v \in Seq(Line) /\ Len(v) <= m - 1
    BY <2>2, <2>4 DEF RowsJoin
  <2>9. RowsIn(a \o b) = NextRows(u \o v, x) /\ RowsIn(b) = NextRows(v, x)
    BY <2>6, <2>7
  <2> HIDE DEF u, v
  <2>10. /\ Append(u \o v, x) = u \o Append(v, x)
         /\ Append(v, x) \in Seq(Line) /\ Len(Append(v, x)) = Len(v) + 1
         /\ Len(v) \in Nat
    <3>1. u \in Seq(Line) /\ v \in Seq(Line) /\ x \in Line
      BY <2>2, <2>8
    <3>2. /\ Append(u \o v, x) = u \o Append(v, x) /\ u \o v \in Seq(Line)
          /\ Append(v, x) \in Seq(Line) /\ Len(Append(v, x)) = Len(v) + 1
          /\ Len(v) \in Nat
      <4> HIDE DEF T
      <4> QED BY <3>1, AppendsAtTheEnd, Zenon
    <3> QED BY <3>2
  <2>11. RowsIn(a \o b) = u \o RowsIn(b) /\ RowsIn(b) \in Seq(Line) /\ Len(RowsIn(b)) <= m
    <3>1. CASE IsRow(x)
      <4>1. RowsIn(a \o b) = Append(u \o v, x) /\ RowsIn(b) = Append(v, x)
        BY <2>9, <3>1 DEF NextRows
      <4>2. Len(v) + 1 <= m
        BY <2>1, <2>8, <2>10
      <4> QED BY <2>10, <4>1, <4>2
    <3>2. CASE ~IsRow(x)
      <4>1. RowsIn(a \o b) = u \o v /\ RowsIn(b) = v
        BY <2>9, <3>2 DEF NextRows
      <4>2. Len(v) <= m
        BY <2>1, <2>8, <2>10
      <4> QED BY <2>8, <4>1, <4>2
    <3> QED BY <3>1, <3>2
  <2>12. RowsIn(a \o b) = RowsIn(a) \o RowsIn(b)
    BY <2>11 DEF u
  <2> QED BY <1>3, <2>11, <2>12 DEF RowsJoin
<1> QED BY <1>4, <1>5

LEMMA RowsAreLines ==
    ASSUME NEW lines \in Seq(Line)
    PROVE  /\ RowsIn(lines) \in Seq(Line)
           /\ Len(RowsIn(lines)) \in Nat /\ Len(RowsIn(lines)) <= Len(lines)
<1>1. <<>> \in Seq(Line)
  OBVIOUS
<1>2. RowsJoin(<<>>, lines)
  BY <1>1, RowsOfNothing, RowsOfJoined
<1> QED BY <1>2, LenProperties DEF RowsJoin

THEOREM ParsesWhereItStopped ==
    ASSUME NEW a \in Seq(Line), NEW b \in Seq(Line)
    PROVE  /\ RowsIn(a \o b) = RowsIn(a) \o RowsIn(b)
           /\ BadIn(a \o b) = BadIn(a) + BadIn(b)
<1>1. RowsIn(a) \in Seq(Line) /\ RowsIn(b) \in Seq(Line)
  BY RowsAreLines
<1>2. RowsIn(a \o b) = RowsIn(a) \o RowsIn(b)
  BY <1>1, RowsOfJoined DEF RowsJoin
<1>3. /\ Len(a \o b) = Len(a) + Len(b) /\ Len(a) \in Nat /\ Len(b) \in Nat
      /\ Len(RowsIn(a) \o RowsIn(b)) = Len(RowsIn(a)) + Len(RowsIn(b))
      /\ Len(RowsIn(a)) \in Nat /\ Len(RowsIn(b)) \in Nat
  BY <1>1, ConcatProperties, LenProperties
<1> QED BY <1>2, <1>3 DEF BadIn

-----------------------------------------------------------------------------
(* The ledgers: the inductive invariant                                     *)

\* The lines of a file are not newer than the file.
LinesAreDated == \A f \in File :
    /\ version[f] \in 1 .. happened + 1
    /\ disk[f] # Missing => \A i \in 1 .. Len(disk[f].lines) : disk[f].lines[i].by <= version[f]

\* A change is known to somebody until the service saw it, or tells that it could not.
IsToBeRead(f) == run # None /\ (run.toList # {} \/ f \in run.toRead)
Waits(f) == queued # None /\ (queued.all \/ f \in Covered(queued.changes))
NothingIsMissed == \A f \in File :
    /\ taken[f] <= version[f]
    /\ \/ taken[f] = version[f] \/ f \in failures
       \/ f \in Covered(events \cup pending) \/ Waits(f) \/ IsToBeRead(f)

\* What a request promises is what its changes cover.
Promises(q) == \A f \in File :
    /\ q.owed[f] <= version[f]
    /\ q.owed[f] > 0 => q.all \/ f \in Covered(q.changes)
OwedIsRead ==
    /\ run # None => \A f \in File :
          /\ run.owed[f] <= version[f]
          /\ taken[f] >= run.owed[f] \/ f \in failures \/ IsToBeRead(f)
    /\ queued # None => Promises(queued)

\* As long as a file could have been appended to since it was read, the rows of
\* its entry are those of the lines before.
Firsts(lines, n) == SubSeq(lines, 1, n)
EntryIsSane(e, c, v, isCurrent) ==
    /\ e.bad + Len(e.rows) = e.consumed
    /\ e.size \in {2 * e.consumed, 2 * e.consumed + 1}
    /\ e.consumed = 0 => e.guard = None
    /\ e.consumed # 0 => e.guard # None /\ e.guard.by <= v
    /\ c # Missing /\ Appended(e, c) => e.rows = RowsIn(Firsts(c.lines, e.consumed))
    /\ isCurrent => c # Missing /\ Appended(e, c) /\ e.consumed = Len(c.lines)
EntriesAreSane ==
    /\ \A f \in File : cache[f] # None =>
              EntryIsSane(cache[f], disk[f], version[f], taken[f] = version[f])
    /\ run # None /\ run.toList # {} => known \subseteq run.toRead
    /\ \A f \in File : /\ taken[f] = version[f] /\ disk[f] # Missing
                       /\ f \notin failures /\ cache[f] = None
                       => IsToBeRead(f)

\* What the listeners have is folded from what is known, unless a fold is due.
ShowsFold ==
    \/ current = Fold
    \/ run # None /\ (run.all \/ run.content \/ run.sources)
    \/ queued # None /\ queued.all

LedgerIInv == /\ LedgerTypeOK /\ LinesAreDated /\ NothingIsMissed /\ OwedIsRead
              /\ EntriesAreSane /\ ShowsFold

-----------------------------------------------------------------------------
(* The ledgers: the shape of things                                         *)

LEMMA ShapesDiffer ==
    /\ None \notin Refresh /\ None \notin Request /\ None \notin Entry /\ None \notin Line
    /\ Missing \notin Content
BY DEF None, Missing, Refresh, Request, Entry, Line, Content

LEMMA LinesAre == \A lines : lines \in Lines <=> lines \in Seq(Line) /\ Len(lines) <= MaxLines
<1> SUFFICES ASSUME NEW lines PROVE lines \in Lines <=> lines \in Seq(Line) /\ Len(lines) <= MaxLines
  OBVIOUS
<1>1. ASSUME lines \in Lines PROVE lines \in Seq(Line) /\ Len(lines) <= MaxLines
  <2>1. PICK m \in 0 .. MaxLines : lines \in [1 .. m -> Line]
    BY <1>1 DEF Lines, BoundedSeq, SeqOf
  <2>2. m \in Nat /\ m <= MaxLines
    BY BoundsAssumption
  <2>3. lines \in Seq(Line) /\ Len(lines) = m
    <3> DEFINE L == Line
    <3>1. lines \in [1 .. m -> L]
      BY <2>1
    <3> HIDE DEF L
    <3>2. lines \in Seq(L) /\ Len(lines) = m
      BY <2>2, <3>1
    <3> QED BY <3>2 DEF L
  <2> QED BY <2>2, <2>3
<1>2. ASSUME lines \in Seq(Line), Len(lines) <= MaxLines PROVE lines \in Lines
  <2>1. Len(lines) \in 0 .. MaxLines /\ lines \in [1 .. Len(lines) -> Line]
    BY <1>2, LenProperties, BoundsAssumption
  <2> QED BY <2>1 DEF Lines, BoundedSeq, SeqOf
<1> QED BY <1>1, <1>2

LEMMA ContentIs ==
    ASSUME NEW c \in Content
    PROVE  /\ c.lines \in Seq(Line) /\ Len(c.lines) \in Nat /\ Len(c.lines) <= MaxLines
           /\ c.torn \in BOOLEAN
           /\ Size(c) \in {2 * Len(c.lines), 2 * Len(c.lines) + 1}
           /\ c # Missing
<1>1. c.lines \in Lines /\ c.torn \in BOOLEAN
  BY DEF Content
<1>2. c.lines \in Seq(Line) /\ Len(c.lines) <= MaxLines
  BY <1>1, LinesAre
<1>3. Len(c.lines) \in Nat
  BY <1>2, LenProperties
<1>4. Size(c) \in {2 * Len(c.lines), 2 * Len(c.lines) + 1}
  <2>1. CASE c.torn
    BY <1>3, <2>1 DEF Size
  <2>2. CASE ~c.torn
    BY <1>3, <2>2 DEF Size
  <2> QED BY <2>1, <2>2
<1>5. c # Missing
  BY ShapesDiffer
<1> QED BY <1>1, <1>2, <1>3, <1>4, <1>5

\* What a change covers.
LEMMA ChangeIs ==
    /\ RootChange \in Change /\ RootChange.under = File /\ RootChange.kind = "above"
    /\ \A c \in Change : /\ c.under \subseteq File
                         /\ c.kind = "above" => c = RootChange
    /\ \A f \in File : /\ FileChange(f) \in Change /\ FileChange(f).under = {f}
                       /\ PaperChange(f) \in Change /\ PaperChange(f).under = {f}
<1>1. RootChange \in Change /\ RootChange.under = File /\ RootChange.kind = "above"
  BY DEF Change, RootChange
<1>2. ASSUME NEW c \in Change
      PROVE  c.under \subseteq File /\ (c.kind = "above" => c = RootChange)
  <2>1. CASE \E f \in File : c = FileChange(f)
    BY <2>1 DEF FileChange
  <2>2. CASE \E f \in File : c = PaperChange(f)
    BY <2>2 DEF PaperChange
  <2>3. CASE c = RootChange
    BY <1>1, <2>3
  <2> QED BY <2>1, <2>2, <2>3 DEF Change
<1>3. ASSUME NEW f \in File
      PROVE  /\ FileChange(f) \in Change /\ FileChange(f).under = {f}
             /\ PaperChange(f) \in Change /\ PaperChange(f).under = {f}
  BY DEF Change, FileChange, PaperChange
<1> QED BY <1>1, <1>2, <1>3

LEMMA CoveredIs ==
    /\ \A S \in SUBSET Change : Covered(S) \subseteq File
    /\ \A S, T : Covered(S \cup T) = Covered(S) \cup Covered(T)
    /\ \A S, c : c \in S => c.under \subseteq Covered(S)
    /\ \A S, c : Covered(S) \subseteq Covered(S \ {c}) \cup c.under
BY ChangeIs DEF Covered

\* What may become of the content of a file, and of the disk, in one step.
Written(f, c) ==
    \/ c = Missing
    \/ /\ c \in Content
       /\ \A i \in 1 .. Len(c.lines) : c.lines[i].by = version[f] + 1
    \/ /\ c \in Content /\ disk[f] # Missing
       /\ \/ c.lines = disk[f].lines
          \/ \E r \in Line : r.by = version[f] + 1 /\ c.lines = Append(disk[f].lines, r)

DiskChanges(c) ==
    /\ c \in Change
    /\ version' = [f \in File |-> IF f \in c.under THEN version[f] + 1 ELSE version[f]]
    /\ events' = events \cup {c}
    /\ happened < MaxEvents /\ happened' = happened + 1
    /\ UNCHANGED <<unreadable, pending, wanted, service>>
    /\ dirs' \subseteq File
    /\ disk' \in [File -> {Missing} \cup Content]
    /\ \A f \in File : disk'[f] # Missing => f \in dirs'
    /\ \A f \in File : IF f \in c.under THEN Written(f, disk'[f]) ELSE disk'[f] = disk[f]

LEMMA NewLines ==
    ASSUME LedgerTypeOK, LinesAreDated, happened < MaxEvents, NEW f \in File
    PROVE  /\ Row(version[f] + 1) \in Line /\ Row(version[f] + 1).by = version[f] + 1
           /\ Bad(version[f] + 1) \in Line /\ Bad(version[f] + 1).by = version[f] + 1
<1>1. version[f] + 1 \in 1 .. MaxEvents + 1
  BY BoundsAssumption DEF LedgerTypeOK, LinesAreDated
<1> QED BY <1>1 DEF Row, Bad, Line

LEMMA PutChangesDisk ==
    ASSUME LedgerTypeOK, NEW f \in File, NEW c \in {Missing} \cup Content,
           f \in dirs, Written(f, c), Put(f, c)
    PROVE  DiskChanges(FileChange(f))
<1>1. FileChange(f) \in Change /\ FileChange(f).under = {f}
  BY ChangeIs
<1>2. /\ disk' = [disk EXCEPT ![f] = c] /\ dirs' = dirs
      /\ version' = [g \in File |-> IF g \in {f} THEN version[g] + 1 ELSE version[g]]
      /\ events' = events \cup {FileChange(f)}
      /\ happened < MaxEvents /\ happened' = happened + 1
      /\ UNCHANGED <<unreadable, pending, wanted, service>>
  BY DEF Put, Touch, Happens
<1>3. /\ disk \in [File -> {Missing} \cup Content] /\ dirs \subseteq File
      /\ \A g \in File : disk[g] # Missing => g \in dirs
  BY DEF LedgerTypeOK
<1>4. /\ disk' \in [File -> {Missing} \cup Content] /\ disk'[f] = c
      /\ \A g \in File : g # f => disk'[g] = disk[g]
  BY <1>2, <1>3
<1> HIDE DEF Written
<1>5. /\ dirs' \subseteq File /\ \A g \in File : disk'[g] # Missing => g \in dirs'
      /\ \A g \in File : IF g \in {f} THEN Written(g, disk'[g]) ELSE disk'[g] = disk[g]
  BY <1>2, <1>3, <1>4
<1> QED BY <1>1, <1>2, <1>4, <1>5 DEF DiskChanges

LEMMA RemovalChangesDisk ==
    ASSUME LedgerTypeOK, NEW c \in Change, RemoveDirs(c.under, c)
    PROVE  DiskChanges(c)
<1>1. c.under \subseteq File
  BY ChangeIs
<1>2. /\ disk' = [g \in File |-> IF g \in c.under THEN Missing ELSE disk[g]]
      /\ dirs' = dirs \ c.under
      /\ version' = [g \in File |-> IF g \in c.under THEN version[g] + 1 ELSE version[g]]
      /\ events' = events \cup {c}
      /\ happened < MaxEvents /\ happened' = happened + 1
      /\ UNCHANGED <<unreadable, pending, wanted, service>>
  BY DEF RemoveDirs, Touch, Happens
<1>3. /\ disk \in [File -> {Missing} \cup Content] /\ dirs \subseteq File
      /\ \A g \in File : disk[g] # Missing => g \in dirs
  BY DEF LedgerTypeOK
<1>4. /\ disk' \in [File -> {Missing} \cup Content]
      /\ \A g \in File : IF g \in c.under THEN Written(g, disk'[g]) ELSE disk'[g] = disk[g]
  BY <1>2, <1>3 DEF Written
<1>5. dirs' \subseteq File /\ \A g \in File : disk'[g] # Missing => g \in dirs'
  BY <1>2, <1>3
<1> QED BY <1>1, <1>2, <1>4, <1>5 DEF DiskChanges

LEMMA CreationChangesDisk ==
    ASSUME LedgerTypeOK, LinesAreDated, NEW f \in File, CreateDir(f)
    PROVE  DiskChanges(PaperChange(f))
<1> DEFINE c == [lines |-> <<Row(version[f] + 1)>>, torn |-> FALSE]
<1>1. PaperChange(f) \in Change /\ PaperChange(f).under = {f}
  BY ChangeIs
<1>2. /\ disk' = [disk EXCEPT ![f] = c] /\ dirs' = dirs \cup {f}
      /\ version' = [g \in File |-> IF g \in {f} THEN version[g] + 1 ELSE version[g]]
      /\ events' = events \cup {PaperChange(f)}
      /\ happened < MaxEvents /\ happened' = happened + 1
      /\ UNCHANGED <<unreadable, pending, wanted, service>>
  BY DEF CreateDir, Touch, Happens
<1>3. /\ disk \in [File -> {Missing} \cup Content] /\ dirs \subseteq File
      /\ \A g \in File : disk[g] # Missing => g \in dirs
  BY DEF LedgerTypeOK
<1>4. c \in Content /\ \A i \in 1 .. Len(c.lines) : c.lines[i].by = version[f] + 1
  <2>1. Row(version[f] + 1) \in Line /\ Row(version[f] + 1).by = version[f] + 1
    BY <1>2, NewLines
  <2>2. c.lines \in Seq(Line) /\ Len(c.lines) = 1 /\ c.lines[1] = Row(version[f] + 1)
    BY <2>1
  <2>3. c.lines \in Lines
    <3>1. 1 <= MaxLines
      BY BoundsAssumption
    <3> HIDE DEF c
    <3> QED BY <2>2, <3>1, LinesAre
  <2> QED BY <2>1, <2>2, <2>3 DEF Content
<1> HIDE DEF c
<1>5. /\ disk' \in [File -> {Missing} \cup Content] /\ disk'[f] = c
      /\ \A g \in File : g # f => disk'[g] = disk[g]
  BY <1>2, <1>3, <1>4
<1>6. Written(f, disk'[f])
  BY <1>4, <1>5 DEF Written
<1>7. /\ dirs' \subseteq File /\ \A g \in File : disk'[g] # Missing => g \in dirs'
      /\ \A g \in File : IF g \in {f} THEN Written(g, disk'[g]) ELSE disk'[g] = disk[g]
  BY <1>2, <1>3, <1>5, <1>6
<1> QED BY <1>1, <1>2, <1>5, <1>7 DEF DiskChanges

\* The steps of the disk.
DiskSteps(f) == Append1(f) \/ AppendHalf(f) \/ Rewrite(f) \/ RemoveFile(f)
                \/ RemoveDir(f) \/ CreateDir(f)

LEMMA DiskStepsChangeDisk ==
    ASSUME LedgerTypeOK, LinesAreDated,
           RemoveRoot \/ \E f \in File : DiskSteps(f)
    PROVE  \E c \in Change : DiskChanges(c)
<1>1. CASE RemoveRoot
  BY <1>1, ChangeIs, RemovalChangesDisk DEF RemoveRoot
<1>2. ASSUME NEW f \in File, DiskSteps(f)
      PROVE  \E c \in Change : DiskChanges(c)
  <2>1. /\ disk[f] \in {Missing} \cup Content /\ (disk[f] # Missing => f \in dirs)
        /\ FileChange(f) \in Change /\ PaperChange(f) \in Change /\ PaperChange(f).under = {f}
    BY ChangeIs DEF LedgerTypeOK
  <2>2. CASE Append1(f)
    <3>1. PICK r \in {Row(version[f] + 1), Bad(version[f] + 1)} :
             Put(f, [lines |-> Append(disk[f].lines, r), torn |-> FALSE])
      BY <2>2 DEF Append1
    <3>2. r \in Line /\ r.by = version[f] + 1
      BY <3>1, NewLines DEF Put, Touch, Happens
    <3> DEFINE c == [lines |-> Append(disk[f].lines, r), torn |-> FALSE]
    <3>3. /\ disk[f] # Missing /\ disk[f] \in Content /\ Len(disk[f].lines) < MaxLines
      BY <2>1, <2>2 DEF Append1
    <3>4. /\ Append(disk[f].lines, r) \in Seq(Line)
          /\ Len(Append(disk[f].lines, r)) <= MaxLines
      BY <3>2, <3>3, ContentIs, AppendProperties, BoundsAssumption
    <3>5. c \in Content /\ c.lines = Append(disk[f].lines, r)
      BY <3>4, LinesAre DEF Content
    <3>6. Written(f, c)
      BY <3>2, <3>3, <3>5 DEF Written
    <3> HIDE DEF c
    <3>7. Put(f, c)
      BY <3>1 DEF c
    <3> QED BY <2>1, <3>3, <3>5, <3>6, <3>7, PutChangesDisk
  <2>3. CASE AppendHalf(f)
    <3> DEFINE c == [disk[f] EXCEPT !.torn = TRUE]
    <3>1. disk[f] # Missing /\ disk[f] \in Content /\ Put(f, c)
      BY <2>1, <2>3 DEF AppendHalf
    <3>2. c \in Content /\ c.lines = disk[f].lines
      BY <3>1 DEF Content
    <3>3. Written(f, c)
      BY <3>1, <3>2 DEF Written
    <3> HIDE DEF c
    <3> QED BY <2>1, <3>1, <3>2, <3>3, PutChangesDisk
  <2>4. CASE Rewrite(f)
    <3>1. PICK n \in 0 .. MaxLines :
             Put(f, [lines |-> [i \in 1 .. n |-> Row(version[f] + 1)], torn |-> FALSE])
      BY <2>4 DEF Rewrite
    <3> DEFINE new == [i \in 1 .. n |-> Row(version[f] + 1)]
               c == [lines |-> new, torn |-> FALSE]
    <3>2. Row(version[f] + 1) \in Line /\ Row(version[f] + 1).by = version[f] + 1
      BY <3>1, NewLines DEF Put, Touch, Happens
    <3>3. new \in Lines
      BY <3>2 DEF Lines, BoundedSeq, SeqOf
    <3>4. Len(new) = n
      BY BoundsAssumption
    <3>5. \A i \in 1 .. n : new[i].by = version[f] + 1
      BY <3>2
    <3> HIDE DEF new
    <3>6. c \in Content /\ c.lines = new
      BY <3>3 DEF Content
    <3>7. Written(f, c)
      BY <3>4, <3>5, <3>6 DEF Written
    <3> HIDE DEF c
    <3>8. Put(f, c) /\ f \in dirs
      BY <2>4, <3>1 DEF c, new, Rewrite
    <3> QED BY <2>1, <3>6, <3>7, <3>8, PutChangesDisk
  <2>5. CASE RemoveFile(f)
    <3>1. Put(f, Missing) /\ f \in dirs /\ Written(f, Missing)
      BY <2>1, <2>5 DEF RemoveFile, Written
    <3> QED BY <2>1, <3>1, PutChangesDisk
  <2>6. CASE RemoveDir(f)
    BY <2>1, <2>6, RemovalChangesDisk DEF RemoveDir
  <2>7. CASE CreateDir(f)
    BY <2>1, <2>7, CreationChangesDisk
  <2> QED BY <1>2, <2>2, <2>3, <2>4, <2>5, <2>6, <2>7 DEF DiskSteps
<1> QED BY <1>1, <1>2

-----------------------------------------------------------------------------
(* The ledgers: requests and the cache                                      *)

\* What the code asks of the service.
Asks(q) ==
    /\ q \in Request /\ Promises(q)
    /\ Enqueue(q)
    /\ UNCHANGED <<disk, dirs, unreadable, version, events>>
    /\ \/ q.all /\ pending' = pending /\ wanted' \subseteq Papers
       \/ ~q.all /\ pending' = {} /\ q.changes = pending /\ wanted' = wanted
    /\ happened' \in {happened, happened + 1} /\ happened' <= MaxEvents

LEMMA RequestIs ==
    ASSUME LedgerTypeOK, NEW S \in SUBSET Change
    PROVE  /\ RefreshRequest(S) \in Request /\ Promises(RefreshRequest(S))
           /\ ~RefreshRequest(S).all /\ RefreshRequest(S).changes = S
           /\ ReloadRequest \in Request /\ Promises(ReloadRequest) /\ ReloadRequest.all
<1>1. /\ \A T \in SUBSET File : Owed(T) \in [File -> Nat]
      /\ \A T \in SUBSET File : \A f \in File : /\ Owed(T)[f] <= version[f]
                                                /\ Owed(T)[f] > 0 => f \in T
  BY DEF Owed, LedgerTypeOK
<1>2. Covered(S) \subseteq File
  BY CoveredIs
<1>3. Owed(Covered(S)) \in [File -> Nat] /\ Owed(File) \in [File -> Nat]
  BY <1>1, <1>2
<1>4. /\ RefreshRequest(S) \in Request /\ ReloadRequest \in Request
      /\ ~RefreshRequest(S).all /\ RefreshRequest(S).changes = S
      /\ RefreshRequest(S).owed = Owed(Covered(S))
      /\ ReloadRequest.all /\ ReloadRequest.owed = Owed(File)
  BY <1>3 DEF RefreshRequest, ReloadRequest, Request
<1>5. Promises(RefreshRequest(S)) /\ Promises(ReloadRequest)
  BY <1>1, <1>2, <1>4 DEF Promises
<1> QED BY <1>4, <1>5

LEMMA RequestsAsk ==
    ASSUME LedgerTypeOK, Flush \/ Reload \/ \E papers \in SUBSET Papers : SelectPaper(papers)
    PROVE  \E q \in Request : Asks(q)
<1>1. happened \in 0 .. MaxEvents /\ MaxEvents \in Nat /\ wanted \subseteq Papers /\ pending \subseteq Change
  BY BoundsAssumption DEF LedgerTypeOK
<1>2. CASE Flush
  BY <1>1, <1>2, RequestIs DEF Flush, Asks
<1>3. CASE Reload
  BY <1>1, <1>3, RequestIs DEF Reload, Asks, Happens
<1>4. ASSUME NEW papers \in SUBSET Papers, SelectPaper(papers) PROVE \E q \in Request : Asks(q)
  BY <1>1, <1>4, RequestIs DEF SelectPaper, Asks, Happens
<1> QED BY <1>2, <1>3, <1>4

\* The first part of a run, and what it has taken over from the request.
LEMMA BeginIs ==
    ASSUME LedgerTypeOK, NEW q \in Request, Begin(q)
    PROVE  /\ run' \in Refresh /\ run' # None
           /\ cache' \in [File -> {None} \cup Entry]
           /\ known' \subseteq File /\ failures' \subseteq File
           /\ \A f \in File : cache'[f] # None <=> f \in known'
           /\ run'.all = q.all /\ run'.owed = q.owed /\ ~run'.content
           /\ q.all => /\ run'.toList # {} /\ known' = {} /\ failures' = {}
                       /\ cache' = [f \in File |-> None]
           /\ ~q.all => UNCHANGED <<cache, known, failures>> /\ ~run'.sources
           /\ \A f \in File : q.all \/ f \in Covered(q.changes)
                                 => run'.toList # {} \/ f \in run'.toRead
           /\ run'.toList # {} => known' \subseteq run'.toRead
<1> DEFINE toList == IF q.all THEN {RootChange} ELSE q.changes \cap {RootChange}
           toRead == IF q.all THEN {}
                     ELSE UNION {c.under \cap (IF c.kind = "above" THEN known ELSE File) :
                                    c \in q.changes}
           sources == q.all /\ known # {}
<1>1. /\ q.all \in BOOLEAN /\ q.changes \subseteq Change /\ q.owed \in [File -> Nat]
      /\ known \subseteq File /\ failures \subseteq File
      /\ cache \in [File -> {None} \cup Entry]
      /\ \A f \in File : cache[f] # None <=> f \in known
  BY DEF Request, LedgerTypeOK
<1>2. toRead \subseteq File /\ toList \subseteq {RootChange}
  BY <1>1, ChangeIs
<1>3. \A f \in File : q.all \/ f \in Covered(q.changes) => toList # {} \/ f \in toRead
  <2> SUFFICES ASSUME NEW f \in File, f \in Covered(q.changes), ~q.all, RootChange \notin q.changes
               PROVE  f \in toRead
    OBVIOUS
  <2>1. PICK c \in q.changes : f \in c.under
    BY DEF Covered
  <2>2. c.kind # "above"
    BY <1>1, <2>1, ChangeIs
  <2> QED BY <2>1, <2>2
<1>4. toList # {} => (IF q.all THEN {} ELSE known) \subseteq toRead
  <2> SUFFICES ASSUME RootChange \in q.changes, ~q.all PROVE known \subseteq toRead
    OBVIOUS
  <2> QED BY <1>1, ChangeIs
<1> HIDE DEF toRead, toList, sources
<1>5. run' = [all |-> q.all, toList |-> toList, toRead |-> toRead, content |-> FALSE,
              sources |-> sources, owed |-> q.owed]
  BY DEF Begin, toRead, toList, sources
<1>6. sources \in BOOLEAN /\ (~q.all => ~sources) /\ (q.all => toList # {})
  BY DEF sources, toList
<1>7. /\ run' \in Refresh /\ run'.all = q.all /\ run'.owed = q.owed /\ ~run'.content
      /\ run'.toList = toList /\ run'.toRead = toRead /\ run'.sources = sources
  BY <1>1, <1>2, <1>5, <1>6 DEF Refresh
<1>8. /\ cache' = IF q.all THEN [f \in File |-> None] ELSE cache
      /\ known' = IF q.all THEN {} ELSE known
      /\ failures' = IF q.all THEN {} ELSE failures
  BY DEF Begin
<1>9. /\ cache' \in [File -> {None} \cup Entry]
      /\ known' \subseteq File /\ failures' \subseteq File
      /\ \A f \in File : cache'[f] # None <=> f \in known'
  BY <1>1, <1>8
<1>10. /\ q.all => /\ run'.toList # {} /\ known' = {} /\ failures' = {}
                   /\ cache' = [f \in File |-> None]
       /\ ~q.all => UNCHANGED <<cache, known, failures>> /\ ~run'.sources
  BY <1>6, <1>7, <1>8
<1>11. /\ \A f \in File : q.all \/ f \in Covered(q.changes)
                                 => run'.toList # {} \/ f \in run'.toRead
       /\ run'.toList # {} => known' \subseteq run'.toRead
  BY <1>3, <1>4, <1>7, <1>8
<1> QED BY <1>7, <1>9, <1>10, <1>11, ShapesDiffer

LEMMA MergeIs ==
    ASSUME NEW q \in Request, NEW r \in Request
    PROVE  /\ Merge(q, r) \in Request
           /\ Merge(q, r).all = (q.all \/ r.all)
           /\ Merge(q, r).changes = q.changes \cup r.changes
           /\ \A f \in File : Merge(q, r).owed[f] \in {q.owed[f], r.owed[f]}
<1>1. /\ q.owed \in [File -> Nat] /\ r.owed \in [File -> Nat]
      /\ q.all \in BOOLEAN /\ r.all \in BOOLEAN
      /\ q.changes \subseteq Change /\ r.changes \subseteq Change
  BY DEF Request
<1>2. Later(q.owed, r.owed) \in [File -> Nat]
      /\ \A f \in File : Later(q.owed, r.owed)[f] \in {q.owed[f], r.owed[f]}
  <2> DEFINE a == q.owed
             b == r.owed
  <2>1. a \in [File -> Nat] /\ b \in [File -> Nat]
    BY <1>1
  <2> HIDE DEF a, b
  <2>2. Later(a, b) = [f \in File |-> IF a[f] > b[f] THEN a[f] ELSE b[f]]
    BY DEF Later
  <2>3. Later(a, b) \in [File -> Nat] /\ \A f \in File : Later(a, b)[f] \in {a[f], b[f]}
    BY <2>1, <2>2
  <2> QED BY <2>3 DEF a, b
<1> QED BY <1>1, <1>2 DEF Merge, Request

\* Reading whole lines from where the entry stopped.
LEMMA ParseIntoIs ==
    ASSUME NEW e \in Entry, NEW c \in Content, e.consumed <= Len(c.lines),
           e.bad + Len(e.rows) = e.consumed,
           e.rows = RowsIn(Firsts(c.lines, e.consumed))
    PROVE  LET p == ParseInto(e, c) IN
           /\ p \in Entry
           /\ p.consumed = Len(c.lines) /\ p.size = Size(c)
           /\ p.rows = RowsIn(c.lines) /\ p.bad = BadIn(c.lines)
           /\ p.guard = IF c.lines = <<>> THEN None ELSE c.lines[Len(c.lines)]
<1> DEFINE lines == c.lines
           n == e.consumed
           m == Len(lines)
           new == SubSeq(lines, n + 1, m)
           p == ParseInto(e, c)
<1>1. /\ lines \in Seq(Line) /\ m \in Nat /\ Size(c) \in Nat
      /\ e.rows \in Seq(Line) /\ e.bad \in Nat /\ n \in Nat
  BY ContentIs DEF Entry
<1>2. /\ Firsts(lines, n) \in Seq(Line) /\ new \in Seq(Line)
      /\ Firsts(lines, n) \o new = lines /\ Len(Firsts(lines, n)) = n /\ Len(new) = m - n
  <2> HIDE DEF lines, n
  <2>1. \A i \in 1 .. m : lines[i] \in Line
    BY <1>1, ElementOfSeq
  <2>4. n <= m
    BY DEF n, lines
  <2>2. Firsts(lines, n) \in Seq(Line) /\ Len(Firsts(lines, n)) = n
    <3>1. \A i \in 1 .. n : lines[i] \in Line
      BY <1>1, <2>1, <2>4
    <3>2. /\ SubSeq(lines, 1, n) \in Seq(Line)
          /\ Len(SubSeq(lines, 1, n)) = IF 1 <= n THEN n - 1 + 1 ELSE 0
      BY <1>1, <3>1, SubSeqProperties
    <3> QED BY <1>1, <3>2 DEF Firsts
  <2>3. new \in Seq(Line) /\ Len(new) = m - n
    <3>1. \A i \in (n + 1) .. m : lines[i] \in Line
      BY <1>1, <2>1, <2>4
    <3>2. /\ SubSeq(lines, n + 1, m) \in Seq(Line)
          /\ Len(SubSeq(lines, n + 1, m)) = IF n + 1 <= m THEN m - (n + 1) + 1 ELSE 0
      BY <1>1, <3>1, SubSeqProperties
    <3> QED BY <1>1, <2>4, <3>2
  <2>5. SubSeq(lines, 1, n) \o SubSeq(lines, n + 1, m) = SubSeq(lines, 1, m)
    <3>1. /\ 1 \in 1 .. Len(lines) + 1 /\ n \in 1 - 1 .. Len(lines)
          /\ m \in n .. Len(lines)
      BY <1>1, <2>4
    <3> QED BY <1>1, <3>1, ConcatAdjacentSubSeq
  <2>6. SubSeq(lines, 1, m) = lines
    BY <1>1, SubSeqFull
  <2> QED BY <2>2, <2>3, <2>5, <2>6 DEF Firsts
<1> HIDE DEF new
<1>3. /\ RowsIn(lines) = RowsIn(Firsts(lines, n)) \o RowsIn(new)
      /\ BadIn(lines) = BadIn(Firsts(lines, n)) + BadIn(new)
  BY <1>2, ParsesWhereItStopped
<1>4. e.rows = RowsIn(Firsts(lines, n)) /\ BadIn(Firsts(lines, n)) = e.bad
  <2>1. e.rows = RowsIn(Firsts(lines, n))
    OBVIOUS
  <2>2. Len(e.rows) \in Nat /\ Len(Firsts(lines, n)) = n
    BY <1>1, <1>2, LenProperties
  <2>3. e.bad + Len(e.rows) = n
    OBVIOUS
  <2>4. BadIn(Firsts(lines, n)) = n - Len(e.rows)
    BY <2>1, <2>2 DEF BadIn
  <2> QED BY <1>1, <2>1, <2>2, <2>3, <2>4
<1>5. /\ RowsIn(lines) \in Seq(Line) /\ BadIn(lines) \in Nat
  BY <1>1, RowsAreLines DEF BadIn
<1>6. p = [rows |-> RowsIn(lines), bad |-> BadIn(lines), consumed |-> m,
           guard |-> IF lines = <<>> THEN None ELSE lines[m], size |-> Size(c)]
  <2>1. p = [rows |-> e.rows \o RowsIn(new), bad |-> e.bad + BadIn(new), consumed |-> m,
             guard |-> IF lines = <<>> THEN None ELSE Last(lines), size |-> Size(c)]
    BY DEF ParseInto, new
  <2>2. e.rows \o RowsIn(new) = RowsIn(lines) /\ e.bad + BadIn(new) = BadIn(lines)
    BY <1>3, <1>4
  <2> HIDE DEF p
  <2> QED BY <2>1, <2>2 DEF Last
<1>7. (IF lines = <<>> THEN None ELSE lines[m]) \in Line \cup {None}
  <2>1. ASSUME lines # <<>> PROVE lines[m] \in Line
    BY <1>1, <2>1, EmptySeq, ElementOfSeq
  <2> QED BY <2>1
<1> HIDE DEF p, lines, m
<1>8. p \in Entry
  BY <1>1, <1>5, <1>6, <1>7 DEF Entry
<1> QED BY <1>6, <1>8 DEF p, lines, m

\* What update leaves of a file that is there: what parsing all of it gives.
LEMMA UpdateIs ==
    ASSUME NEW e \in {None} \cup Entry, NEW c \in Content, NEW f \in File,
           e # None /\ Appended(e, c) =>
              /\ e.rows = RowsIn(Firsts(c.lines, e.consumed))
              /\ e.bad + Len(e.rows) = e.consumed
              /\ e.size \in {2 * e.consumed, 2 * e.consumed + 1}
              /\ e.consumed = 0 => e.guard = None
    PROVE  LET u == Update(e, c) IN
           /\ u \in Entry /\ u # None
           /\ u.consumed = Len(c.lines) /\ u.size = Size(c)
           /\ u.rows = RowsIn(c.lines) /\ u.bad = BadIn(c.lines)
           /\ u.guard = IF c.lines = <<>> THEN None ELSE c.lines[Len(c.lines)]
<1> DEFINE u == Update(e, c)
           lines == c.lines
           m == Len(lines)
<1>1. /\ lines \in Seq(Line) /\ m \in Nat /\ c # Missing
      /\ Size(c) \in {2 * m, 2 * m + 1}
  BY ContentIs
<1>2. CASE ~Appended(e, c)
  <2>1. u = ParseInto(Fresh, c)
    BY <1>1, <1>2 DEF Update
  <2>2. Fresh \in Entry /\ Fresh.consumed = 0 /\ Fresh.rows = <<>> /\ Fresh.bad = 0
    BY DEF Fresh, Entry
  <2>3. Firsts(c.lines, 0) = <<>>
    BY <1>1, SubSeqEmpty DEF Firsts
  <2>4. /\ Fresh.consumed <= Len(c.lines)
        /\ Fresh.bad + Len(Fresh.rows) = Fresh.consumed
        /\ Fresh.rows = RowsIn(Firsts(c.lines, Fresh.consumed))
    BY <1>1, <2>2, <2>3, RowsOfNothing
  <2> HIDE DEF u
  <2> QED BY <2>1, <2>2, <2>4, ParseIntoIs, ShapesDiffer DEF u
<1>3. CASE Appended(e, c)
  <2>1. /\ e \in Entry /\ e.consumed \in Nat /\ e.consumed <= m
        /\ e.rows = RowsIn(Firsts(c.lines, e.consumed))
        /\ e.bad + Len(e.rows) = e.consumed
        /\ e.size \in {2 * e.consumed, 2 * e.consumed + 1}
        /\ e.consumed = 0 => e.guard = None
        /\ MatchesGuard(e, c)
    BY <1>3 DEF Appended, Entry
  <2>2. CASE Size(c) # e.size
    <3>1. u = ParseInto(e, c)
      BY <1>1, <1>3, <2>2 DEF Update
    <3> HIDE DEF u
    <3> QED BY <2>1, <3>1, ParseIntoIs, ShapesDiffer DEF u
  <2>3. CASE Size(c) = e.size
    <3>1. u = e
      BY <1>1, <1>3, <2>3 DEF Update
    <3>2. e.consumed = m
      BY <1>1, <2>1, <2>3
    <3>3. Firsts(lines, m) = lines
      BY <1>1, SubSeqFull DEF Firsts
    <3>4. e.rows = RowsIn(lines) /\ e.bad = BadIn(lines)
      <4>1. e.rows = RowsIn(lines)
        BY <2>1, <3>2, <3>3
      <4>2. Len(e.rows) \in Nat /\ e.bad \in Nat
        BY <2>1, LenProperties DEF Entry
      <4>3. BadIn(lines) = m - Len(e.rows)
        BY <4>1 DEF BadIn
      <4>4. e.bad + Len(e.rows) = m
        BY <2>1, <3>2
      <4>5. e.bad = m - Len(e.rows)
        <5> DEFINE k == Len(e.rows)
                   b == e.bad
        <5>1. k \in Nat /\ b \in Nat /\ m \in Nat /\ b + k = m
          BY <1>1, <4>2, <4>4
        <5> HIDE DEF k, b, m
        <5>2. b = m - k
          BY <5>1
        <5> QED BY <5>2 DEF k, b
      <4> QED BY <4>1, <4>3, <4>5
    <3>5. e.guard = IF lines = <<>> THEN None ELSE lines[m]
      <4>1. lines = <<>> <=> m = 0
        BY <1>1, EmptySeq
      <4> QED BY <2>1, <3>2, <4>1 DEF MatchesGuard
    <3> QED BY <2>1, <2>3, <3>1, <3>2, <3>4, <3>5, ShapesDiffer
  <2> QED BY <2>2, <2>3
<1> QED BY <1>2, <1>3

-----------------------------------------------------------------------------
(* The ledgers: what a step may do                                          *)

\* Nothing moves but access to the files, if at all.
OnlyAccess ==
    /\ UNCHANGED <<disk, dirs, version, events, pending, wanted, service>>
    /\ unreadable' \subseteq File
    /\ happened' \in {happened, happened + 1} /\ happened' <= MaxEvents

LEMMA StepIs ==
    ASSUME LedgerTypeOK, LinesAreDated, [LedgerNext]_ledgerVars
    PROVE  \/ \E c \in Change : DiskChanges(c)
           \/ OnlyAccess
           \/ \E q \in Request : Asks(q)
           \/ \E c \in Change : Look(c) \/ Report(c)
           \/ \E f \in File : ReadFailed(f) \/ ReadDone(f)
           \/ Finish
<1>1. CASE LedgerSystem
  BY <1>1, RequestsAsk DEF LedgerSystem
<1>2. CASE RemoveRoot \/ \E f \in File : DiskSteps(f)
  BY <1>2, DiskStepsChangeDisk
<1>3. CASE Reload \/ \E papers \in SUBSET Papers : SelectPaper(papers)
  BY <1>3, RequestsAsk
<1>4. CASE UNCHANGED ledgerVars \/ \E f \in File : Lock(f) \/ Unlock(f)
  <2>1. unreadable \subseteq File /\ happened \in 0 .. MaxEvents /\ MaxEvents \in Nat
    BY BoundsAssumption DEF LedgerTypeOK
  <2>2. CASE UNCHANGED ledgerVars
    BY <2>1, <2>2 DEF OnlyAccess, ledgerVars, service
  <2>3. ASSUME NEW f \in File, Lock(f) PROVE OnlyAccess
    BY <2>1, <2>3 DEF OnlyAccess, Lock, Happens
  <2>4. ASSUME NEW f \in File, Unlock(f) PROVE OnlyAccess
    BY <2>1, <2>4 DEF OnlyAccess, Unlock
  <2> QED BY <1>4, <2>2, <2>3, <2>4
<1> QED BY <1>1, <1>2, <1>3, <1>4 DEF LedgerNext, World, DiskSteps

\* A request starts a run, or waits for the one that runs.
LEMMA AskIs ==
    ASSUME LedgerTypeOK, queued # None => Promises(queued), NEW q \in Request, Asks(q)
    PROVE  \/ /\ run = None /\ queued = None /\ Begin(q)
              /\ UNCHANGED <<queued, current, taken>>
           \/ /\ run # None
              /\ queued' \in Request /\ queued' # None /\ Promises(queued')
              /\ q.all => queued'.all
              /\ Covered(q.changes) \subseteq Covered(queued'.changes)
              /\ queued # None => /\ queued.all => queued'.all
                                  /\ Covered(queued.changes) \subseteq Covered(queued'.changes)
              /\ UNCHANGED <<run, cache, known, failures, current, taken>>
<1>1. CASE run = None
  BY <1>1 DEF Asks, Enqueue, LedgerTypeOK
<1>2. CASE run # None
  <2>1. /\ queued' = IF queued = None THEN q ELSE Merge(queued, q)
        /\ UNCHANGED <<run, cache, known, failures, current, taken>>
        /\ Promises(q)
    BY <1>2 DEF Asks, Enqueue
  <2>2. CASE queued = None
    BY <1>2, <2>1, <2>2, ShapesDiffer
  <2>3. CASE queued # None
    <3>1. queued \in Request /\ Promises(queued)
      BY <2>3 DEF LedgerTypeOK
    <3> DEFINE m == Merge(queued, q)
    <3>2. /\ m \in Request /\ m.all = (queued.all \/ q.all)
          /\ m.changes = queued.changes \cup q.changes
          /\ \A f \in File : m.owed[f] \in {queued.owed[f], q.owed[f]}
      BY <3>1, MergeIs
    <3> HIDE DEF m
    <3>3. queued' = m
      BY <2>1, <2>3 DEF m
    <3>4. Covered(m.changes) = Covered(queued.changes) \cup Covered(q.changes)
      BY <3>2, CoveredIs
    <3>5. Promises(m)
      BY <2>1, <3>1, <3>2, <3>4 DEF Promises
    <3> QED BY <1>2, <2>1, <3>2, <3>3, <3>4, <3>5, ShapesDiffer
  <2> QED BY <2>2, <2>3
<1> QED BY <1>1, <1>2

\* A look at the directories is the first thing that a run does.
LEMMA LookIs ==
    ASSUME LedgerTypeOK, NEW c \in Change, Look(c)
    PROVE  /\ run \in Refresh /\ run # None /\ run.toList # {}
           /\ run' \in Refresh /\ run' # None /\ run'.toList = {}
           /\ run'.toRead = run.toRead \cup dirs
           /\ run'.all = run.all /\ run'.owed = run.owed
           /\ run'.content = run.content /\ run'.sources = run.sources
           /\ taken' = [f \in File |-> IF f \in (File \ dirs) \ run.toRead
                                       THEN version[f] ELSE taken[f]]
           /\ UNCHANGED <<disk, dirs, unreadable, version, events, pending, wanted,
                          queued, cache, known, failures, current, happened>>
<1>1. run \in Refresh /\ run # None /\ c \in run.toList /\ dirs \subseteq File
  BY DEF Look, LedgerTypeOK
<1>2. c = RootChange /\ c.under = File /\ run.toList = {RootChange}
  BY <1>1, ChangeIs DEF Refresh
<1>3. run' = [run EXCEPT !.toList = @ \ {c}, !.toRead = @ \cup (c.under \cap dirs)]
  BY DEF Look
<1>4. c.under \cap dirs = dirs /\ run.toList \ {c} = {}
  BY <1>1, <1>2
<1>5. /\ run'.toList = {} /\ run'.toRead = run.toRead \cup dirs
      /\ run'.all = run.all /\ run'.owed = run.owed
      /\ run'.content = run.content /\ run'.sources = run.sources
      /\ run' \in Refresh
  BY <1>1, <1>3, <1>4 DEF Refresh
<1>6. taken' = [f \in File |-> IF f \in (File \ dirs) \ run.toRead
                               THEN version[f] ELSE taken[f]]
  BY <1>2 DEF Look
<1> QED BY <1>1, <1>5, <1>6, ShapesDiffer DEF Look

LEMMA ReadFailedIs ==
    ASSUME LedgerTypeOK, NEW f \in File, ReadFailed(f)
    PROVE  /\ run \in Refresh /\ run # None /\ run.toList = {}
           /\ run' \in Refresh /\ run' # None /\ run'.toList = {}
           /\ run'.toRead = run.toRead \ {f}
           /\ run'.all = run.all /\ run'.owed = run.owed /\ run'.sources = run.sources
           /\ run'.content = (run.content \/ f \notin failures)
           /\ failures' = failures \cup {f}
           /\ UNCHANGED <<disk, dirs, unreadable, version, events, pending, wanted,
                          queued, cache, known, current, taken, happened>>
<1>1. run \in Refresh /\ run # None /\ run.toList = {}
  BY DEF ReadFailed, MayRead, LedgerTypeOK
<1>2. run' = [run EXCEPT !.toRead = @ \ {f}, !.content = @ \/ f \notin failures]
  BY DEF ReadFailed
<1>3. /\ run'.toList = {} /\ run'.toRead = run.toRead \ {f}
      /\ run'.all = run.all /\ run'.owed = run.owed /\ run'.sources = run.sources
      /\ run'.content = (run.content \/ f \notin failures)
      /\ run' \in Refresh
  BY <1>1, <1>2 DEF Refresh
<1> QED BY <1>1, <1>3, ShapesDiffer DEF ReadFailed

LEMMA ReadDoneIs ==
    ASSUME LedgerTypeOK, EntriesAreSane, NEW f \in File, ReadDone(f)
    PROVE  /\ run \in Refresh /\ run # None /\ run.toList = {}
           /\ run' \in Refresh /\ run' # None /\ run'.toList = {}
           /\ run'.toRead = run.toRead \ {f}
           /\ run'.all = run.all /\ run'.owed = run.owed
           /\ run'.sources = (run.sources \/ (disk[f] = Missing <=> f \in known))
           /\ run'.content = (run.content \/ f \in failures \/ Differs(cache[f], disk[f]))
           /\ failures' = IF run.content THEN failures ELSE failures \ {f}
           /\ known' = KnownAfter(f, disk[f])
           /\ taken' = [taken EXCEPT ![f] = version[f]]
           /\ cache' = [cache EXCEPT ![f] = Update(cache[f], disk[f])]
           /\ disk[f] = Missing => Update(cache[f], disk[f]) = None
           /\ disk[f] # Missing =>
                 LET u == Update(cache[f], disk[f]) IN
                 /\ disk[f] \in Content
                 /\ u \in Entry /\ u # None
                 /\ u.consumed = Len(disk[f].lines) /\ u.size = Size(disk[f])
                 /\ u.rows = RowsIn(disk[f].lines) /\ u.bad = BadIn(disk[f].lines)
                 /\ u.guard = IF disk[f].lines = <<>> THEN None
                              ELSE disk[f].lines[Len(disk[f].lines)]
           /\ UNCHANGED <<disk, dirs, unreadable, version, events, pending, wanted,
                          queued, current, happened>>
<1>1. /\ run \in Refresh /\ run # None /\ run.toList = {}
      /\ disk[f] \in {Missing} \cup Content /\ cache[f] \in {None} \cup Entry
  BY DEF ReadDone, MayRead, LedgerTypeOK
<1> DEFINE new == run.content \/ f \in failures \/ Differs(cache[f], disk[f])
           src == run.sources \/ (disk[f] = Missing <=> f \in known)
<1>2. run' = [run EXCEPT !.toRead = @ \ {f}, !.content = new, !.sources = src]
  <2>1. run' = [run EXCEPT !.toRead = @ \ {f},
                           !.content = @ \/ f \in failures \/ Differs(cache[f], disk[f]),
                           !.sources = @ \/ (disk[f] = Missing <=> f \in known)]
    BY DEF ReadDone
  <2> QED BY <2>1
<1>3. new \in BOOLEAN /\ src \in BOOLEAN
  BY <1>1 DEF Refresh
<1> HIDE DEF new, src
<1>4. /\ run'.toList = {} /\ run'.toRead = run.toRead \ {f}
      /\ run'.all = run.all /\ run'.owed = run.owed
      /\ run'.content = new /\ run'.sources = src
      /\ run' \in Refresh
  BY <1>1, <1>2, <1>3 DEF Refresh
<1>5. disk[f] = Missing => Update(cache[f], disk[f]) = None
  BY DEF Update
<1>6. ASSUME disk[f] # Missing
      PROVE  LET u == Update(cache[f], disk[f]) IN
             /\ disk[f] \in Content
             /\ u \in Entry /\ u # None
             /\ u.consumed = Len(disk[f].lines) /\ u.size = Size(disk[f])
             /\ u.rows = RowsIn(disk[f].lines) /\ u.bad = BadIn(disk[f].lines)
             /\ u.guard = IF disk[f].lines = <<>> THEN None
                          ELSE disk[f].lines[Len(disk[f].lines)]
  <2>1. disk[f] \in Content
    BY <1>1, <1>6
  <2>2. cache[f] # None /\ Appended(cache[f], disk[f]) =>
           /\ cache[f].rows = RowsIn(Firsts(disk[f].lines, cache[f].consumed))
           /\ cache[f].bad + Len(cache[f].rows) = cache[f].consumed
           /\ cache[f].size \in {2 * cache[f].consumed, 2 * cache[f].consumed + 1}
           /\ cache[f].consumed = 0 => cache[f].guard = None
    BY <1>6 DEF EntriesAreSane, EntryIsSane
  <2> QED BY <1>1, <2>1, <2>2, UpdateIs
<1>7. /\ failures' = IF run.content THEN failures ELSE failures \ {f}
      /\ known' = KnownAfter(f, disk[f])
      /\ taken' = [taken EXCEPT ![f] = version[f]]
      /\ cache' = [cache EXCEPT ![f] = Update(cache[f], disk[f])]
      /\ UNCHANGED <<disk, dirs, unreadable, version, events, pending, wanted,
                          queued, current, happened>>
  BY DEF ReadDone
<1> QED BY <1>1, <1>4, <1>5, <1>6, <1>7, ShapesDiffer DEF new, src

-----------------------------------------------------------------------------
(* The ledgers: every step keeps the invariant                              *)

LEMMA LedgerShapeKept ==
    ASSUME LedgerIInv, [LedgerNext]_ledgerVars
    PROVE  LedgerTypeOK'
<1>0. /\ LedgerTypeOK /\ LinesAreDated /\ EntriesAreSane
      /\ queued # None => Promises(queued)
  BY DEF LedgerIInv, OwedIsRead
<1>1. ASSUME NEW c \in Change, DiskChanges(c) PROVE LedgerTypeOK'
  <2>1. version' \in [File -> Nat] /\ events' \subseteq Change /\ happened' \in 0 .. MaxEvents
    BY <1>0, <1>1, BoundsAssumption DEF DiskChanges, LedgerTypeOK
  <2>2. /\ dirs' \subseteq File /\ disk' \in [File -> {Missing} \cup Content]
        /\ \A f \in File : disk'[f] # Missing => f \in dirs'
        /\ UNCHANGED <<unreadable, pending, wanted, service>>
    BY <1>1 DEF DiskChanges
  <2> QED BY <1>0, <2>1, <2>2 DEF LedgerTypeOK, service
<1>2. CASE OnlyAccess
  BY <1>0, <1>2, BoundsAssumption DEF OnlyAccess, LedgerTypeOK, service
<1>3. ASSUME NEW q \in Request, Asks(q) PROVE LedgerTypeOK'
  <2>1. /\ pending' \subseteq Change /\ wanted' \subseteq Papers /\ happened' \in 0 .. MaxEvents
        /\ UNCHANGED <<disk, dirs, unreadable, version, events>>
    BY <1>0, <1>3, BoundsAssumption DEF Asks, LedgerTypeOK
  <2>2. CASE run = None /\ queued = None /\ Begin(q) /\ UNCHANGED <<queued, current, taken>>
    <3>1. /\ run' \in Refresh /\ cache' \in [File -> {None} \cup Entry]
          /\ known' \subseteq File /\ failures' \subseteq File
          /\ \A f \in File : cache'[f] # None <=> f \in known'
      BY <1>0, <2>2, BeginIs
    <3> QED BY <1>0, <2>1, <2>2, <3>1 DEF LedgerTypeOK
  <2>3. CASE /\ run # None /\ queued' \in Request
             /\ UNCHANGED <<run, cache, known, failures, current, taken>>
    BY <1>0, <2>1, <2>3 DEF LedgerTypeOK
  <2> QED BY <1>0, <1>3, <2>2, <2>3, AskIs
<1>4. ASSUME NEW c \in Change, Look(c) PROVE LedgerTypeOK'
  <2>1. /\ run' \in Refresh /\ run' # None
        /\ taken' = [f \in File |-> IF f \in (File \ dirs) \ run.toRead
                                    THEN version[f] ELSE taken[f]]
        /\ UNCHANGED <<disk, dirs, unreadable, version, events, pending, wanted,
                          queued, cache, known, failures, current, happened>>
    BY <1>0, <1>4, LookIs
  <2>2. taken' \in [File -> Nat]
    BY <1>0, <2>1 DEF LedgerTypeOK
  <2> QED BY <1>0, <2>1, <2>2 DEF LedgerTypeOK
<1>5. ASSUME NEW c \in Change, Report(c) PROVE LedgerTypeOK'
  BY <1>0, <1>5 DEF Report, Collect, LedgerTypeOK, service
<1>6. ASSUME NEW f \in File, ReadFailed(f) PROVE LedgerTypeOK'
  BY <1>0, <1>6, ReadFailedIs DEF LedgerTypeOK
<1>7. ASSUME NEW f \in File, ReadDone(f) PROVE LedgerTypeOK'
  <2>1. /\ run' \in Refresh /\ run' # None
        /\ taken' = [taken EXCEPT ![f] = version[f]]
        /\ cache' = [cache EXCEPT ![f] = Update(cache[f], disk[f])]
        /\ disk[f] = Missing => Update(cache[f], disk[f]) = None
        /\ disk[f] # Missing => Update(cache[f], disk[f]) \in Entry
        /\ known' = KnownAfter(f, disk[f])
        /\ failures' = IF run.content THEN failures ELSE failures \ {f}
        /\ UNCHANGED <<disk, dirs, unreadable, version, events, pending, wanted,
                          queued, current, happened>>
    BY <1>0, <1>7, ReadDoneIs
  <2>2. taken' \in [File -> Nat] /\ failures' \subseteq File
    BY <1>0, <2>1 DEF LedgerTypeOK
  <2>3. /\ cache' \in [File -> {None} \cup Entry] /\ known' \subseteq File
        /\ \A g \in File : cache'[g] # None <=> g \in known'
    BY <1>0, <2>1, ShapesDiffer DEF LedgerTypeOK, KnownAfter
  <2> QED BY <1>0, <2>1, <2>2, <2>3 DEF LedgerTypeOK
<1>8. CASE Finish
  <2>1. /\ UNCHANGED <<disk, dirs, unreadable, version, events, pending, wanted, taken, happened>>
        /\ queued' = None /\ current' \in {Fold, current}
        /\ \/ queued = None /\ run' = None /\ UNCHANGED <<cache, known, failures>>
           \/ queued # None /\ Begin(queued)
    BY <1>8 DEF Finish
  <2>2. Fold \in Shown
    <3>1. \A f \in File : RowsOf(cache[f]) \in Seq(Line) /\ BadOf(cache[f]) \in Nat
      <4> SUFFICES ASSUME NEW f \in File
                   PROVE  RowsOf(cache[f]) \in Seq(Line) /\ BadOf(cache[f]) \in Nat
        OBVIOUS
      <4>1. cache[f] \in {None} \cup Entry
        BY <1>0 DEF LedgerTypeOK
      <4>2. <<>> \in Seq(Line)
        OBVIOUS
      <4> QED BY <4>1, <4>2 DEF RowsOf, BadOf, Entry
    <3>2. <<>> \in Seq(Line) /\ failures \subseteq File
      BY <1>0 DEF LedgerTypeOK
    <3> QED BY <3>1, <3>2 DEF Fold, Shown
  <2>3. current' \in Shown
    BY <1>0, <2>1, <2>2 DEF LedgerTypeOK
  <2>4. CASE queued = None /\ run' = None /\ UNCHANGED <<cache, known, failures>>
    BY <1>0, <2>1, <2>3, <2>4 DEF LedgerTypeOK
  <2>5. CASE queued # None /\ Begin(queued)
    <3>1. queued \in Request
      BY <1>0, <2>5 DEF LedgerTypeOK
    <3>2. /\ run' \in Refresh /\ cache' \in [File -> {None} \cup Entry]
          /\ known' \subseteq File /\ failures' \subseteq File
          /\ \A f \in File : cache'[f] # None <=> f \in known'
      BY <1>0, <2>5, <3>1, BeginIs
    <3> QED BY <1>0, <2>1, <2>3, <3>2 DEF LedgerTypeOK
  <2> QED BY <2>1, <2>4, <2>5
<1> QED BY <1>0, <1>1, <1>2, <1>3, <1>4, <1>5, <1>6, <1>7, <1>8, StepIs

LEMMA LinesStayDated ==
    ASSUME LedgerIInv, [LedgerNext]_ledgerVars
    PROVE  LinesAreDated'
<1>0. /\ LedgerTypeOK /\ LinesAreDated /\ EntriesAreSane
      /\ version \in [File -> Nat] /\ happened \in Nat
  BY BoundsAssumption DEF LedgerIInv, LedgerTypeOK
<1>1. ASSUME NEW c \in Change, DiskChanges(c) PROVE LinesAreDated'
  <2> SUFFICES ASSUME NEW f \in File
               PROVE  /\ version'[f] \in 1 .. happened' + 1
                      /\ disk'[f] # Missing =>
                            \A i \in 1 .. Len(disk'[f].lines) : disk'[f].lines[i].by <= version'[f]
    BY DEF LinesAreDated
  <2>1. /\ version[f] \in 1 .. happened + 1 /\ happened' = happened + 1
        /\ version'[f] = IF f \in c.under THEN version[f] + 1 ELSE version[f]
        /\ IF f \in c.under THEN Written(f, disk'[f]) ELSE disk'[f] = disk[f]
        /\ disk[f] # Missing =>
              \A i \in 1 .. Len(disk[f].lines) : disk[f].lines[i].by <= version[f]
    BY <1>0, <1>1 DEF DiskChanges, LinesAreDated
  <2>2. version'[f] \in 1 .. happened' + 1
    BY <1>0, <2>1
  <2>3. ASSUME NEW l \in Content, NEW i \in 1 .. Len(l.lines) PROVE l.lines[i].by \in Nat
    <3>1. l.lines[i] \in Line
      BY ContentIs, ElementOfSeq
    <3> QED BY <3>1 DEF Line
  <2>4. ASSUME f \in c.under, disk'[f] # Missing, NEW i \in 1 .. Len(disk'[f].lines)
        PROVE  disk'[f].lines[i].by <= version[f] + 1
    <3>1. Written(f, disk'[f])
      BY <2>1, <2>4
    <3>2. CASE \A j \in 1 .. Len(disk'[f].lines) : disk'[f].lines[j].by = version[f] + 1
      BY <1>0, <2>4, <3>2
    <3>3. CASE disk[f] # Missing /\ disk'[f].lines = disk[f].lines
      <4>1. disk[f] \in Content /\ i \in 1 .. Len(disk[f].lines)
        BY <1>0, <2>4, <3>3 DEF LedgerTypeOK
      <4>2. disk[f].lines[i].by <= version[f] /\ disk[f].lines[i].by \in Nat
        BY <2>1, <2>3, <3>3, <4>1
      <4> QED BY <1>0, <3>3, <4>2
    <3>4. ASSUME NEW r \in Line, disk[f] # Missing, r.by = version[f] + 1,
                 disk'[f].lines = Append(disk[f].lines, r)
          PROVE  disk'[f].lines[i].by <= version[f] + 1
      <4> DEFINE l == disk[f].lines
                 new == disk'[f].lines
                 v == version[f]
      <4>1. /\ disk[f] \in Content /\ l \in Seq(Line) /\ Len(l) \in Nat /\ v \in Nat
            /\ new = Append(l, r) /\ i \in 1 .. Len(new) /\ r.by = v + 1
            /\ \A j \in 1 .. Len(l) : l[j].by <= v /\ l[j].by \in Nat
        <5>1. disk[f] \in Content
          BY <1>0, <3>4 DEF LedgerTypeOK
        <5>2. \A j \in 1 .. Len(l) : l[j].by <= v /\ l[j].by \in Nat
          BY <2>1, <2>3, <3>4, <5>1
        <5> QED BY <1>0, <2>4, <3>4, <5>1, <5>2, ContentIs
      <4> SUFFICES new[i].by <= v + 1
        OBVIOUS
      <4> HIDE DEF l, new, v
      <4>2. /\ Len(new) = Len(l) + 1 /\ new[Len(l) + 1] = r
            /\ \A j \in 1 .. Len(l) : new[j] = l[j]
        BY <4>1, AppendProperties
      <4>3. CASE i = Len(l) + 1
        BY <4>1, <4>2, <4>3
      <4>4. CASE i \in 1 .. Len(l)
        <5>1. new[i].by = l[i].by /\ l[i].by <= v /\ l[i].by \in Nat
          BY <4>1, <4>2, <4>4
        <5> QED BY <4>1, <5>1
      <4> QED BY <4>1, <4>2, <4>3, <4>4
    <3> QED BY <2>4, <3>1, <3>2, <3>3, <3>4 DEF Written
  <2>5. CASE f \in c.under
    BY <2>1, <2>2, <2>4, <2>5
  <2>6. CASE f \notin c.under
    BY <2>1, <2>2, <2>6
  <2> QED BY <2>5, <2>6
<1>2. ASSUME UNCHANGED <<disk, version>>, happened' \in {happened, happened + 1}
      PROVE  LinesAreDated'
  BY <1>0, <1>2 DEF LinesAreDated
<1>3. CASE OnlyAccess
  BY <1>2, <1>3 DEF OnlyAccess
<1>4. ASSUME NEW q \in Request, Asks(q) PROVE LinesAreDated'
  BY <1>2, <1>4 DEF Asks
<1>5. ASSUME NEW c \in Change, Look(c) \/ Report(c) PROVE LinesAreDated'
  BY <1>2, <1>5 DEF Look, Report
<1>6. ASSUME NEW f \in File, ReadFailed(f) \/ ReadDone(f) PROVE LinesAreDated'
  BY <1>2, <1>6 DEF ReadFailed, ReadDone
<1>7. CASE Finish
  BY <1>2, <1>7 DEF Finish
<1> QED BY <1>0, <1>1, <1>3, <1>4, <1>5, <1>6, <1>7, StepIs

LEMMA NothingIsMissedKept ==
    ASSUME LedgerIInv, [LedgerNext]_ledgerVars
    PROVE  NothingIsMissed'
<1>0. /\ LedgerTypeOK /\ LinesAreDated /\ EntriesAreSane /\ NothingIsMissed
      /\ queued # None => Promises(queued)
      /\ version \in [File -> Nat] /\ taken \in [File -> Nat]
      /\ \A f \in File : version[f] \in Nat /\ taken[f] \in Nat /\ taken[f] <= version[f]
      /\ events \subseteq Change /\ pending \subseteq Change
  BY DEF LedgerIInv, OwedIsRead, LedgerTypeOK, NothingIsMissed
<1>1. ASSUME NEW c \in Change, DiskChanges(c) PROVE NothingIsMissed'
  <2> SUFFICES ASSUME NEW f \in File
               PROVE  /\ taken'[f] <= version'[f]
                      /\ \/ taken'[f] = version'[f] \/ f \in failures'
                         \/ f \in Covered(events' \cup pending') \/ Waits(f)' \/ IsToBeRead(f)'
    BY DEF NothingIsMissed
  <2>1. /\ version'[f] = IF f \in c.under THEN version[f] + 1 ELSE version[f]
        /\ events' = events \cup {c} /\ pending' = pending
        /\ UNCHANGED <<run, queued, failures, taken>>
    BY <1>1 DEF DiskChanges, service
  <2>2. f \in c.under => f \in Covered(events' \cup pending')
    BY <2>1 DEF Covered
  <2>3. Covered(events \cup pending) \subseteq Covered(events' \cup pending')
    BY <2>1 DEF Covered
  <2>4. (Waits(f) => Waits(f)') /\ (IsToBeRead(f) => IsToBeRead(f)')
    BY <2>1 DEF Waits, IsToBeRead
  <2>5. \/ taken[f] = version[f] \/ f \in failures
        \/ f \in Covered(events \cup pending) \/ Waits(f) \/ IsToBeRead(f)
    BY <1>0 DEF NothingIsMissed
  <2>6. CASE f \in c.under
    BY <1>0, <2>1, <2>2, <2>6
  <2>7. CASE f \notin c.under
    BY <1>0, <2>1, <2>3, <2>4, <2>5, <2>7
  <2> QED BY <2>6, <2>7
<1>2. CASE OnlyAccess
  BY <1>0, <1>2 DEF OnlyAccess, NothingIsMissed, service, Waits, IsToBeRead
<1>3. ASSUME NEW q \in Request, Asks(q) PROVE NothingIsMissed'
  <2> SUFFICES ASSUME NEW f \in File
               PROVE  /\ taken'[f] <= version'[f]
                      /\ \/ taken'[f] = version'[f] \/ f \in failures'
                         \/ f \in Covered(events' \cup pending') \/ Waits(f)' \/ IsToBeRead(f)'
    BY DEF NothingIsMissed
  <2>1. /\ version' = version /\ events' = events
        /\ q.all \/ (q.changes = pending /\ pending' = {})
        /\ q.all => pending' = pending
    BY <1>3 DEF Asks
  <2>2. f \in Covered(events \cup pending) =>
           \/ f \in Covered(events' \cup pending')
           \/ ~q.all /\ f \in Covered(q.changes)
    BY <2>1 DEF Covered
  <2>3. CASE run = None /\ queued = None /\ Begin(q) /\ UNCHANGED <<queued, current, taken>>
    <3>1. /\ run' # None
          /\ q.all \/ f \in Covered(q.changes) => run'.toList # {} \/ f \in run'.toRead
          /\ ~q.all => failures' = failures
      BY <1>0, <2>3, BeginIs
    <3>2. /\ taken[f] <= version[f]
          /\ taken[f] = version[f] \/ f \in failures \/ f \in Covered(events \cup pending)
      BY <1>0, <2>3 DEF NothingIsMissed, Waits, IsToBeRead
    <3>3. taken'[f] = taken[f] /\ version'[f] = version[f]
      BY <2>1, <2>3
    <3>4. CASE q.all \/ f \in Covered(q.changes)
      <4>1. IsToBeRead(f)'
        BY <3>1, <3>4 DEF IsToBeRead
      <4> QED BY <3>2, <3>3, <4>1
    <3>5. CASE ~(q.all \/ f \in Covered(q.changes))
      <4>1. failures' = failures
        BY <3>1, <3>5
      <4>2. f \in Covered(events \cup pending) => f \in Covered(events' \cup pending')
        BY <2>2, <3>5
      <4> QED BY <3>2, <3>3, <4>1, <4>2
    <3> QED BY <3>4, <3>5
  <2>4. CASE /\ run # None
             /\ queued' \in Request /\ queued' # None
             /\ q.all => queued'.all
             /\ Covered(q.changes) \subseteq Covered(queued'.changes)
             /\ queued # None => /\ queued.all => queued'.all
                                 /\ Covered(queued.changes) \subseteq Covered(queued'.changes)
             /\ UNCHANGED <<run, cache, known, failures, current, taken>>
    <3>1. /\ ~q.all /\ f \in Covered(q.changes) => Waits(f)'
          /\ Waits(f) => Waits(f)'
          /\ IsToBeRead(f)' = IsToBeRead(f)
      BY <2>4 DEF Waits, IsToBeRead
    <3> QED BY <1>0, <2>1, <2>2, <2>4, <3>1 DEF NothingIsMissed
  <2> QED BY <1>0, <1>3, <2>3, <2>4, AskIs
<1>4. ASSUME NEW c \in Change, Look(c) PROVE NothingIsMissed'
  <2> SUFFICES ASSUME NEW f \in File
               PROVE  /\ taken'[f] <= version'[f]
                      /\ \/ taken'[f] = version'[f]
                         \/ IsToBeRead(f)'
    BY DEF NothingIsMissed
  <2>1. /\ run' # None /\ run'.toRead = run.toRead \cup dirs /\ version' = version
        /\ taken' = [g \in File |-> IF g \in (File \ dirs) \ run.toRead
                                    THEN version[g] ELSE taken[g]]
    BY <1>0, <1>4, LookIs
  <2>2. CASE f \in dirs \cup run.toRead
    BY <1>0, <2>1, <2>2 DEF IsToBeRead
  <2>3. CASE f \notin dirs \cup run.toRead
    BY <1>0, <2>1, <2>3
  <2> QED BY <2>2, <2>3
<1>5. ASSUME NEW c \in Change, Report(c) PROVE NothingIsMissed'
  <2>1. /\ events' \cup pending' = events \cup pending
        /\ UNCHANGED <<version, run, queued, failures, taken>>
    BY <1>5 DEF Report, Collect, service
  <2> QED BY <1>0, <2>1 DEF NothingIsMissed, Waits, IsToBeRead
<1>6. ASSUME NEW f \in File, ReadFailed(f) PROVE NothingIsMissed'
  <2>1. /\ run # None /\ run.toList = {} /\ run' # None
        /\ run'.toRead = run.toRead \ {f} /\ failures' = failures \cup {f}
        /\ UNCHANGED <<version, events, pending, queued, taken>>
    BY <1>0, <1>6, ReadFailedIs
  <2> QED BY <1>0, <2>1 DEF NothingIsMissed, Waits, IsToBeRead
<1>7. ASSUME NEW f \in File, ReadDone(f) PROVE NothingIsMissed'
  <2>1. /\ run # None /\ run.toList = {} /\ run' # None
        /\ run'.toRead = run.toRead \ {f}
        /\ failures' \in {failures, failures \ {f}}
        /\ taken' = [taken EXCEPT ![f] = version[f]]
        /\ UNCHANGED <<version, events, pending, queued>>
    BY <1>0, <1>7, ReadDoneIs
  <2>2. taken'[f] = version[f] /\ \A g \in File : g # f => taken'[g] = taken[g]
    BY <1>0, <2>1
  <2> SUFFICES ASSUME NEW g \in File
               PROVE  /\ taken'[g] <= version'[g]
                      /\ \/ taken'[g] = version'[g] \/ g \in failures'
                         \/ g \in Covered(events' \cup pending') \/ Waits(g)' \/ IsToBeRead(g)'
    BY DEF NothingIsMissed
  <2>3. CASE g = f
    BY <1>0, <2>1, <2>2, <2>3
  <2>4. CASE g # f
    <3>1. (Waits(g) => Waits(g)') /\ (IsToBeRead(g) => IsToBeRead(g)')
      BY <2>1, <2>4 DEF Waits, IsToBeRead
    <3>2. g \in failures => g \in failures'
      BY <2>1, <2>4
    <3>3. \/ taken[g] = version[g] \/ g \in failures
          \/ g \in Covered(events \cup pending) \/ Waits(g) \/ IsToBeRead(g)
      BY <1>0 DEF NothingIsMissed
    <3> QED BY <1>0, <2>1, <2>2, <2>4, <3>1, <3>2, <3>3
  <2> QED BY <2>3, <2>4
<1>8. CASE Finish
  <2> SUFFICES ASSUME NEW f \in File
               PROVE  /\ taken'[f] <= version'[f]
                      /\ \/ taken'[f] = version'[f] \/ f \in failures'
                         \/ f \in Covered(events' \cup pending') \/ Waits(f)' \/ IsToBeRead(f)'
    BY DEF NothingIsMissed
  <2>1. /\ run.toList = {} /\ run.toRead = {}
        /\ UNCHANGED <<version, events, pending, taken>>
        /\ \/ queued = None /\ UNCHANGED failures
           \/ queued # None /\ Begin(queued)
    BY <1>8 DEF Finish
  <2>2. /\ taken[f] <= version[f]
        /\ \/ taken[f] = version[f] \/ f \in failures
           \/ f \in Covered(events \cup pending) \/ Waits(f)
    BY <1>0, <2>1 DEF NothingIsMissed, IsToBeRead
  <2>3. CASE queued = None /\ UNCHANGED failures
    BY <2>1, <2>2, <2>3 DEF Waits
  <2>4. CASE queued # None /\ Begin(queued)
    <3>1. queued \in Request
      BY <1>0, <2>4 DEF LedgerTypeOK
    <3>2. /\ run' # None
          /\ Waits(f) => run'.toList # {} \/ f \in run'.toRead
          /\ queued.all => run'.toList # {}
          /\ ~queued.all => failures' = failures
      BY <1>0, <2>4, <3>1, BeginIs DEF Waits
    <3> QED BY <2>1, <2>2, <3>2 DEF IsToBeRead
  <2> QED BY <2>1, <2>3, <2>4
<1> QED BY <1>0, <1>1, <1>2, <1>3, <1>4, <1>5, <1>6, <1>7, <1>8, StepIs

LEMMA OwedIsReadKept ==
    ASSUME LedgerIInv, [LedgerNext]_ledgerVars
    PROVE  OwedIsRead'
<1>0. /\ LedgerTypeOK /\ LinesAreDated /\ EntriesAreSane /\ OwedIsRead
      /\ queued # None => Promises(queued)
      /\ \A f \in File : version[f] \in Nat /\ taken[f] \in Nat /\ taken[f] <= version[f]
      /\ version \in [File -> Nat] /\ taken \in [File -> Nat]
  BY DEF LedgerIInv, OwedIsRead, LedgerTypeOK, NothingIsMissed
<1>1. ASSUME \A f \in File : version'[f] \in Nat /\ version'[f] >= version[f],
             \A f \in File : taken'[f] = taken[f],
             UNCHANGED <<run, queued, failures>>
      PROVE  OwedIsRead'
  <2>1. ASSUME queued # None PROVE Promises(queued)'
    <3>1. queued' = queued /\ queued.owed \in [File -> Nat] /\ Promises(queued)
      BY <1>0, <1>1, <2>1 DEF LedgerTypeOK, Request
    <3> QED BY <1>0, <1>1, <3>1 DEF Promises
  <2>2. ASSUME run # None, NEW f \in File
        PROVE  /\ run.owed[f] <= version'[f]
               /\ taken'[f] >= run.owed[f] \/ f \in failures \/ IsToBeRead(f)'
    <3>1. run.owed \in [File -> Nat]
      BY <1>0, <2>2 DEF LedgerTypeOK, Refresh
    <3>2. IsToBeRead(f) => IsToBeRead(f)'
      BY <1>1 DEF IsToBeRead
    <3>3. /\ run.owed[f] <= version[f]
          /\ taken[f] >= run.owed[f] \/ f \in failures \/ IsToBeRead(f)
      BY <1>0, <2>2 DEF OwedIsRead
    <3> QED BY <1>0, <1>1, <3>1, <3>2, <3>3
  <2> QED BY <1>1, <2>1, <2>2 DEF OwedIsRead
<1>2. ASSUME NEW c \in Change, DiskChanges(c) PROVE OwedIsRead'
  <2>1. \A f \in File : version'[f] \in Nat /\ version'[f] >= version[f]
    BY <1>0, <1>2 DEF DiskChanges
  <2> QED BY <1>1, <1>2, <2>1 DEF DiskChanges, service
<1>3. CASE OnlyAccess
  BY <1>0, <1>1, <1>3 DEF OnlyAccess, service
\* A run that begins reads what its request covers.
<1>4. ASSUME NEW q \in Request, Promises(q), Begin(q), UNCHANGED <<version, taken>>,
             queued' = None
      PROVE  OwedIsRead'
  <2>1. /\ run' # None /\ run'.owed = q.owed /\ q.owed \in [File -> Nat]
        /\ \A f \in File : q.all \/ f \in Covered(q.changes)
                              => run'.toList # {} \/ f \in run'.toRead
    BY <1>0, <1>4, BeginIs DEF Request
  <2>2. ASSUME NEW f \in File
        PROVE  /\ run'.owed[f] <= version'[f]
               /\ taken'[f] >= run'.owed[f] \/ IsToBeRead(f)'
    <3>1. q.owed[f] \in Nat /\ q.owed[f] <= version[f]
          /\ (q.owed[f] > 0 => q.all \/ f \in Covered(q.changes))
      BY <1>4, <2>1 DEF Promises
    <3>2. CASE q.owed[f] = 0
      BY <1>0, <1>4, <2>1, <3>1, <3>2
    <3>3. CASE q.owed[f] > 0
      <4>1. IsToBeRead(f)'
        BY <2>1, <3>1, <3>3 DEF IsToBeRead
      <4> QED BY <1>4, <2>1, <3>1, <4>1
    <3> QED BY <3>1, <3>2, <3>3
  <2> QED BY <1>4, <2>2 DEF OwedIsRead
<1>5. ASSUME NEW q \in Request, Asks(q) PROVE OwedIsRead'
  <2>1. version' = version /\ Promises(q)
    BY <1>5 DEF Asks
  <2>2. CASE run = None /\ queued = None /\ Begin(q) /\ UNCHANGED <<queued, current, taken>>
    BY <1>4, <2>1, <2>2
  <2>3. CASE /\ run # None /\ queued' # None /\ Promises(queued')
             /\ UNCHANGED <<run, cache, known, failures, current, taken>>
    <3>1. Promises(queued)'
      BY <2>1, <2>3 DEF Promises
    <3>2. \A f \in File : IsToBeRead(f) => IsToBeRead(f)'
      BY <2>3 DEF IsToBeRead
    <3> QED BY <1>0, <2>1, <2>3, <3>1, <3>2 DEF OwedIsRead
  <2> QED BY <1>0, <1>5, <2>2, <2>3, AskIs
<1>6. ASSUME NEW c \in Change, Report(c) PROVE OwedIsRead'
  BY <1>0, <1>1, <1>6 DEF Report, service
\* A run that goes on.
<1>7. ASSUME run \in Refresh, run # None, run' # None, run'.owed = run.owed, UNCHANGED <<version, queued>>,
             \A f \in File : \/ taken'[f] = version[f]
                             \/ taken'[f] = taken[f] /\ (f \in failures => f \in failures')
                                /\ (IsToBeRead(f) => f \in failures' \/ IsToBeRead(f)')
      PROVE  OwedIsRead'
  <2>1. run.owed \in [File -> Nat]
    BY <1>7 DEF Refresh
  <2>2. ASSUME NEW f \in File
        PROVE  /\ run'.owed[f] <= version'[f]
               /\ taken'[f] >= run'.owed[f] \/ f \in failures' \/ IsToBeRead(f)'
    <3>1. /\ run.owed[f] \in Nat /\ run.owed[f] <= version[f]
          /\ taken[f] >= run.owed[f] \/ f \in failures \/ IsToBeRead(f)
      BY <1>0, <1>7, <2>1 DEF OwedIsRead
    <3>2. CASE taken'[f] = version[f]
      BY <1>0, <1>7, <3>1, <3>2
    <3>3. CASE taken'[f] = taken[f] /\ (f \in failures => f \in failures')
                                /\ (IsToBeRead(f) => f \in failures' \/ IsToBeRead(f)')
      BY <1>0, <1>7, <3>1, <3>3
    <3> QED BY <1>7, <3>2, <3>3
  <2>3. queued # None => Promises(queued)'
    BY <1>0, <1>7 DEF Promises
  <2> QED BY <1>7, <2>2, <2>3 DEF OwedIsRead
<1>8. ASSUME NEW c \in Change, Look(c) PROVE OwedIsRead'
  <2>1. /\ run \in Refresh /\ run # None /\ run' # None /\ run'.owed = run.owed
        /\ run'.toRead = run.toRead \cup dirs
        /\ taken' = [f \in File |-> IF f \in (File \ dirs) \ run.toRead
                                    THEN version[f] ELSE taken[f]]
        /\ UNCHANGED <<version, queued, failures>>
    BY <1>0, <1>8, LookIs
  <2>2. \A f \in File : \/ taken'[f] = version[f]
                        \/ taken'[f] = taken[f] /\ IsToBeRead(f)'
    BY <2>1 DEF IsToBeRead
  <2> QED BY <1>7, <2>1, <2>2
<1>9. ASSUME NEW f \in File, ReadFailed(f) PROVE OwedIsRead'
  <2>1. /\ run \in Refresh /\ run # None /\ run.toList = {} /\ run' # None
        /\ run'.owed = run.owed
        /\ run'.toRead = run.toRead \ {f} /\ failures' = failures \cup {f}
        /\ UNCHANGED <<version, queued, taken>>
    BY <1>0, <1>9, ReadFailedIs
  <2>2. \A g \in File : IsToBeRead(g) => g \in failures' \/ IsToBeRead(g)'
    BY <2>1 DEF IsToBeRead
  <2> QED BY <1>7, <2>1, <2>2
<1>10. ASSUME NEW f \in File, ReadDone(f) PROVE OwedIsRead'
  <2>1. /\ run \in Refresh /\ run # None /\ run.toList = {} /\ run' # None
        /\ run'.owed = run.owed
        /\ run'.toRead = run.toRead \ {f}
        /\ failures' \in {failures, failures \ {f}}
        /\ taken' = [taken EXCEPT ![f] = version[f]]
        /\ UNCHANGED <<version, queued>>
    BY <1>0, <1>10, ReadDoneIs
  <2>2. taken'[f] = version[f]
    BY <1>0, <2>1
  <2>3. \A g \in File : g # f => /\ taken'[g] = taken[g] /\ (g \in failures => g \in failures')
                                 /\ (IsToBeRead(g) => IsToBeRead(g)')
    BY <1>0, <2>1 DEF IsToBeRead
  <2> QED BY <1>7, <2>1, <2>2, <2>3
<1>11. CASE Finish
  <2>1. /\ UNCHANGED <<version, taken>> /\ queued' = None
        /\ \/ queued = None /\ run' = None
           \/ queued # None /\ Begin(queued)
    BY <1>11 DEF Finish
  <2>2. CASE queued = None /\ run' = None
    BY <2>1, <2>2 DEF OwedIsRead
  <2>3. CASE queued # None /\ Begin(queued)
    <3>1. queued \in Request /\ Promises(queued)
      BY <1>0, <2>3 DEF LedgerTypeOK
    <3> QED BY <1>4, <2>1, <2>3, <3>1
  <2> QED BY <2>1, <2>2, <2>3
<1> QED BY <1>0, <1>2, <1>3, <1>5, <1>6, <1>8, <1>9, <1>10, <1>11, StepIs

\* An entry stays sane while its file is written.
LEMMA EntryStaysSane ==
    ASSUME LedgerTypeOK, LinesAreDated, NEW f \in File, NEW e \in Entry,
              EntryIsSane(e, disk[f], version[f], taken[f] = version[f]),
           NEW c \in Change, DiskChanges(c), taken[f] <= version[f]
    PROVE  EntryIsSane(e, disk'[f], version'[f], taken'[f] = version'[f])
<1>1. /\ version[f] \in Nat /\ taken[f] \in Nat /\ taken' = taken
      /\ version'[f] = IF f \in c.under THEN version[f] + 1 ELSE version[f]
      /\ IF f \in c.under THEN Written(f, disk'[f]) ELSE disk'[f] = disk[f]
      /\ disk[f] \in {Missing} \cup Content /\ disk'[f] \in {Missing} \cup Content
  BY DEF LedgerTypeOK, DiskChanges, service
<1>2. /\ e.consumed \in Nat /\ e.bad \in Nat /\ e.rows \in Seq(Line)
      /\ e.guard \in Line \cup {None} /\ Len(e.rows) \in Nat
  BY LenProperties DEF Entry
<1>3. /\ e.bad + Len(e.rows) = e.consumed
      /\ e.size \in {2 * e.consumed, 2 * e.consumed + 1}
      /\ e.consumed = 0 => e.guard = None
      /\ e.consumed # 0 => e.guard \in Line /\ e.guard.by \in Nat /\ e.guard.by <= version[f]
  BY <1>2 DEF EntryIsSane, Line
<1>4. e.consumed # 0 => e.guard # None /\ e.guard.by <= version'[f]
  BY <1>1, <1>3, ShapesDiffer
<1>5. CASE f \notin c.under
  BY <1>1, <1>5 DEF EntryIsSane
<1>6. CASE f \in c.under
  <2>1. ASSUME disk'[f] # Missing, Appended(e, disk'[f])
        PROVE  e.rows = RowsIn(Firsts(disk'[f].lines, e.consumed))
    <3> DEFINE new == disk'[f].lines
               n == e.consumed
    <3>1. /\ Written(f, disk'[f]) /\ new \in Seq(Line) /\ Len(new) \in Nat /\ Len(new) >= n
          /\ n = 0 \/ new[n] = e.guard
      BY <1>1, <1>6, <2>1, ContentIs DEF Appended, MatchesGuard
    <3>2. CASE n = 0
      <4>1. Firsts(new, 0) = <<>>
        BY <3>1, SubSeqEmpty DEF Firsts
      <4>2. Len(e.rows) = 0
        BY <1>2, <1>3, <3>2
      <4>3. e.rows = <<>>
        BY <1>2, <4>2, EmptySeq
      <4> QED BY <3>2, <4>1, <4>3, RowsOfNothing
    <3>3. CASE n # 0
      <4>1. new[n] = e.guard /\ e.guard.by <= version[f] /\ e.guard.by \in Nat /\ n \in 1 .. Len(new)
        BY <1>2, <1>3, <3>1, <3>3
      <4>2. ~(new[n].by = version[f] + 1)
        BY <1>1, <4>1
      <4>3. /\ disk[f] # Missing
            /\ \/ new = disk[f].lines
               \/ \E r \in Line : r.by = version[f] + 1 /\ new = Append(disk[f].lines, r)
        BY <2>1, <3>1, <4>1, <4>2 DEF Written
      <4> DEFINE old == disk[f].lines
      <4>4. disk[f] \in Content /\ old \in Seq(Line) /\ Len(old) \in Nat
        BY <1>1, <4>3, ContentIs
      <4>5. n <= Len(old) /\ new[n] = old[n] /\ Firsts(new, n) = Firsts(old, n)
        <5>1. CASE new = old
          BY <3>1, <5>1
        <5>2. ASSUME NEW r \in Line, r.by = version[f] + 1, new = Append(old, r)
              PROVE  n <= Len(old) /\ new[n] = old[n] /\ Firsts(new, n) = Firsts(old, n)
          <6> HIDE DEF new, old, n
          <6>1. /\ Len(new) = Len(old) + 1 /\ new[Len(old) + 1] = r
                /\ \A j \in 1 .. Len(old) : new[j] = old[j]
            BY <4>4, <5>2, AppendProperties
          <6>2. n # Len(old) + 1
            BY <4>2, <5>2, <6>1
          <6>3. n \in 1 .. Len(old)
            BY <4>1, <4>4, <6>1, <6>2
          <6>4. Firsts(new, n) = Firsts(old, n)
            <7>1. 1 \in 1 .. Len(old) /\ <<r>> \in Seq(Line) /\ new = old \o <<r>>
              BY <4>4, <5>2, <6>3, AppendIsConcat
            <7> QED BY <4>4, <6>3, <7>1, SubSeqOfConcat1 DEF Firsts
          <6> QED BY <4>4, <6>1, <6>3, <6>4
        <5> QED BY <4>3, <5>1, <5>2
      <4>6. Appended(e, disk[f])
        BY <2>1, <4>1, <4>4, <4>5 DEF Appended, MatchesGuard
      <4>7. e.rows = RowsIn(Firsts(old, n))
        BY <4>3, <4>6 DEF EntryIsSane
      <4> QED BY <4>5, <4>7
    <3> QED BY <3>2, <3>3
  <2>2. taken'[f] # version'[f]
    BY <1>1, <1>6
  <2> QED BY <1>3, <1>4, <2>1, <2>2 DEF EntryIsSane
<1> QED BY <1>5, <1>6

\* What a read leaves is sane, and current.
LEMMA EntryIsRead ==
    ASSUME LedgerTypeOK, LinesAreDated, EntriesAreSane, NEW f \in File, ReadDone(f), disk[f] # Missing
    PROVE  EntryIsSane(cache'[f], disk'[f], version'[f], taken'[f] = version'[f])
<1> DEFINE u == Update(cache[f], disk[f])
           lines == disk[f].lines
           m == Len(lines)
<1>1. /\ cache' = [cache EXCEPT ![f] = u]
      /\ disk[f] \in Content /\ u \in Entry /\ u # None
      /\ u.consumed = m /\ u.size = Size(disk[f])
      /\ u.rows = RowsIn(lines) /\ u.bad = BadIn(lines)
      /\ u.guard = IF lines = <<>> THEN None ELSE lines[m]
      /\ UNCHANGED <<disk, version>>
  BY ReadDoneIs
<1> HIDE DEF u
<1>2. cache'[f] = u
  BY <1>1 DEF LedgerTypeOK
<1>3. /\ lines \in Seq(Line) /\ m \in Nat /\ Size(disk[f]) \in {2 * m, 2 * m + 1}
      /\ (lines = <<>> <=> m = 0)
  BY <1>1, ContentIs, EmptySeq
<1>4. u.bad + Len(u.rows) = u.consumed
  <2>1. Len(RowsIn(lines)) \in Nat /\ u.bad = m - Len(RowsIn(lines))
    BY <1>1, <1>3, RowsAreLines DEF BadIn
  <2> QED BY <1>1, <1>3, <2>1
<1>5. u.consumed # 0 => u.guard # None /\ u.guard.by <= version[f] /\ u.guard = lines[m]
  <2> SUFFICES ASSUME m # 0 PROVE u.guard # None /\ u.guard.by <= version[f] /\ u.guard = lines[m]
    BY <1>1
  <2>1. m \in 1 .. m
    BY <1>3
  <2>2. u.guard = lines[m] /\ lines[m] \in Line
    BY <1>1, <1>3, <2>1, ElementOfSeq
  <2>3. lines[m].by <= version[f]
    BY <2>1 DEF LinesAreDated
  <2> QED BY <2>2, <2>3, ShapesDiffer
<1>6. Firsts(lines, m) = lines
  BY <1>3, SubSeqFull DEF Firsts
<1>7. Appended(u, disk[f])
  BY <1>1, <1>3, <1>5 DEF Appended, MatchesGuard
<1>8. /\ u.size \in {2 * u.consumed, 2 * u.consumed + 1}
      /\ u.consumed = 0 => u.guard = None
      /\ u.rows = RowsIn(Firsts(disk[f].lines, u.consumed))
  BY <1>1, <1>3, <1>6
<1> QED BY <1>1, <1>2, <1>4, <1>5, <1>7, <1>8 DEF EntryIsSane

LEMMA EntriesStaySane ==
    ASSUME LedgerIInv, [LedgerNext]_ledgerVars
    PROVE  EntriesAreSane'
<1>0. /\ LedgerTypeOK /\ LinesAreDated /\ EntriesAreSane
      /\ queued # None => Promises(queued)
      /\ \A f \in File : version[f] \in Nat /\ taken[f] \in Nat /\ taken[f] <= version[f]
      /\ version \in [File -> Nat] /\ taken \in [File -> Nat]
      /\ cache \in [File -> {None} \cup Entry]
      /\ \A f \in File : cache[f] # None <=> f \in known
      /\ \A f \in File : disk[f] # Missing => f \in dirs
  BY DEF LedgerIInv, OwedIsRead, LedgerTypeOK, NothingIsMissed
<1> DEFINE Unread(f) == /\ taken[f] = version[f] /\ disk[f] # Missing
                        /\ f \notin failures /\ cache[f] = None
<1>a. \A f \in File : Unread(f) => IsToBeRead(f)
  BY <1>0 DEF EntriesAreSane
\* Nothing that an entry depends on moves.
<1>b. ASSUME UNCHANGED <<disk, version, taken>>, NEW f \in File, cache[f] # None, cache'[f] = cache[f]
      PROVE  EntryIsSane(cache'[f], disk'[f], version'[f], taken'[f] = version'[f])
  <2>1. EntryIsSane(cache[f], disk[f], version[f], taken[f] = version[f])
    BY <1>0, <1>b DEF EntriesAreSane
  <2> QED BY <1>b, <2>1 DEF EntryIsSane
<1>1. ASSUME NEW c \in Change, DiskChanges(c) PROVE EntriesAreSane'
  <2>1. UNCHANGED <<run, cache, known, failures, taken>>
    BY <1>1 DEF DiskChanges, service
  <2>2. ASSUME NEW f \in File, cache'[f] # None
        PROVE  EntryIsSane(cache'[f], disk'[f], version'[f], taken'[f] = version'[f])
    <3>1. cache[f] \in Entry /\ cache[f] # None /\
              EntryIsSane(cache[f], disk[f], version[f], taken[f] = version[f])
      BY <1>0, <2>1, <2>2 DEF EntriesAreSane
    <3> DEFINE e == cache[f]
    <3>2. e \in Entry /\ EntryIsSane(e, disk[f], version[f], taken[f] = version[f])
      BY <3>1
    <3>3. EntryIsSane(e, disk'[f], version'[f], taken'[f] = version'[f])
      BY <1>0, <1>1, <3>2, EntryStaysSane
    <3> QED BY <2>1, <3>3 DEF EntryIsSane
  <2>3. ASSUME NEW f \in File, taken'[f] = version'[f], disk'[f] # Missing,
               f \notin failures', cache'[f] = None
        PROVE  IsToBeRead(f)'
    <3>1. f \notin c.under
      BY <1>0, <1>1, <2>1, <2>3 DEF DiskChanges
    <3>2. Unread(f)
      BY <1>1, <1>0, <2>1, <2>3, <3>1 DEF DiskChanges
    <3>3. IsToBeRead(f)
      BY <1>a, <3>2
    <3> QED BY <2>1, <3>3 DEF IsToBeRead
  <2> QED BY <1>0, <2>1, <2>2, <2>3 DEF EntriesAreSane
<1>2. ASSUME UNCHANGED <<disk, version, run, cache, known, failures, taken>> PROVE EntriesAreSane'
  <2>1. \A f \in File : cache'[f] # None =>
            EntryIsSane(cache'[f], disk'[f], version'[f], taken'[f] = version'[f])
    BY <1>2, <1>b
  <2>2. \A f \in File : IsToBeRead(f) => IsToBeRead(f)'
    BY <1>2 DEF IsToBeRead
  <2> QED BY <1>0, <1>2, <2>1, <2>2 DEF EntriesAreSane
\* A run begins after one that read everything, or none.
<1>3. ASSUME NEW q \in Request, Begin(q), UNCHANGED <<disk, version, taken>>,
             \A f \in File : ~IsToBeRead(f)
      PROVE  EntriesAreSane'
  <2>1. /\ run' # None
        /\ q.all => /\ run'.toList # {} /\ cache' = [f \in File |-> None]
        /\ ~q.all => UNCHANGED <<cache, known, failures>>
        /\ run'.toList # {} => known' \subseteq run'.toRead
    BY <1>0, <1>3, BeginIs
  <2>2. CASE q.all
    <3>1. \A f \in File : IsToBeRead(f)' /\ cache'[f] = None
      BY <2>1, <2>2 DEF IsToBeRead
    <3> QED BY <2>1, <3>1 DEF EntriesAreSane
  <2>3. CASE ~q.all
    <3>1. \A f \in File : cache'[f] # None =>
              EntryIsSane(cache'[f], disk'[f], version'[f], taken'[f] = version'[f])
      BY <1>3, <1>b, <2>1, <2>3
    <3>2. \A f \in File : ~Unread(f)
      BY <1>3, <1>a
    <3> QED BY <1>3, <2>1, <2>3, <3>1, <3>2 DEF EntriesAreSane
  <2> QED BY <2>2, <2>3
<1>4. CASE OnlyAccess
  BY <1>2, <1>4 DEF OnlyAccess, service
<1>5. ASSUME NEW q \in Request, Asks(q) PROVE EntriesAreSane'
  <2>1. UNCHANGED <<disk, version>>
    BY <1>5 DEF Asks
  <2>2. CASE run = None /\ queued = None /\ Begin(q) /\ UNCHANGED <<queued, current, taken>>
    <3>1. \A f \in File : ~IsToBeRead(f)
      BY <2>2 DEF IsToBeRead
    <3> QED BY <1>3, <2>1, <2>2, <3>1
  <2>3. CASE UNCHANGED <<run, cache, known, failures, current, taken>>
    BY <1>2, <2>1, <2>3
  <2> QED BY <1>0, <1>5, <2>2, <2>3, AskIs
<1>6. ASSUME NEW c \in Change, Look(c) PROVE EntriesAreSane'
  <2>1. /\ run # None /\ run.toList # {} /\ run' # None /\ run'.toList = {}
        /\ run'.toRead = run.toRead \cup dirs
        /\ taken' = [f \in File |-> IF f \in (File \ dirs) \ run.toRead
                                    THEN version[f] ELSE taken[f]]
        /\ UNCHANGED <<disk, version, cache, known, failures>>
    BY <1>0, <1>6, LookIs
  <2>2. known \subseteq run.toRead
    BY <1>0, <2>1 DEF EntriesAreSane
  <2>3. ASSUME NEW f \in File, cache'[f] # None
        PROVE  EntryIsSane(cache'[f], disk'[f], version'[f], taken'[f] = version'[f])
    <3>1. taken'[f] = taken[f] /\
              EntryIsSane(cache[f], disk[f], version[f], taken[f] = version[f])
      BY <1>0, <2>1, <2>2, <2>3 DEF EntriesAreSane
    <3> QED BY <2>1, <3>1 DEF EntryIsSane
  <2>4. \A f \in File : disk'[f] # Missing => IsToBeRead(f)'
    BY <1>0, <2>1 DEF IsToBeRead
  <2> QED BY <2>1, <2>3, <2>4 DEF EntriesAreSane
<1>7. ASSUME NEW c \in Change, Report(c) PROVE EntriesAreSane'
  BY <1>2, <1>7 DEF Report, service
<1>8. ASSUME NEW f \in File, ReadFailed(f) PROVE EntriesAreSane'
  <2>1. /\ run # None /\ run.toList = {} /\ run' # None /\ run'.toList = {}
        /\ run'.toRead = run.toRead \ {f} /\ failures' = failures \cup {f}
        /\ UNCHANGED <<disk, version, cache, known, taken>>
    BY <1>0, <1>8, ReadFailedIs
  <2>2. \A g \in File : cache'[g] # None =>
            EntryIsSane(cache'[g], disk'[g], version'[g], taken'[g] = version'[g])
    BY <2>1, <1>b
  <2>3. \A g \in File : IsToBeRead(g) => g \in failures' \/ IsToBeRead(g)'
    BY <2>1 DEF IsToBeRead
  <2> QED BY <1>0, <2>1, <2>2, <2>3 DEF EntriesAreSane
<1>9. ASSUME NEW f \in File, ReadDone(f) PROVE EntriesAreSane'
  <2> DEFINE u == Update(cache[f], disk[f])
  <2>1. /\ run # None /\ run.toList = {} /\ run' # None /\ run'.toList = {}
        /\ run'.toRead = run.toRead \ {f}
        /\ failures' \in {failures, failures \ {f}}
        /\ taken' = [taken EXCEPT ![f] = version[f]]
        /\ cache' = [cache EXCEPT ![f] = u]
        /\ disk[f] = Missing => u = None
        /\ disk[f] # Missing => u # None
        /\ UNCHANGED <<disk, version>>
    BY <1>0, <1>9, ReadDoneIs
  <2> HIDE DEF u
  <2>2. /\ taken'[f] = version[f] /\ cache'[f] = u
        /\ \A g \in File : g # f => taken'[g] = taken[g] /\ cache'[g] = cache[g]
    BY <1>0, <2>1
  <2>3. ASSUME NEW g \in File, cache'[g] # None
        PROVE  EntryIsSane(cache'[g], disk'[g], version'[g], taken'[g] = version'[g])
    <3>1. CASE g = f
      BY <1>0, <1>9, <2>1, <2>2, <2>3, <3>1, EntryIsRead
    <3>2. CASE g # f
      <4>1. EntryIsSane(cache[g], disk[g], version[g], taken[g] = version[g])
        BY <1>0, <2>2, <2>3, <3>2 DEF EntriesAreSane
      <4> QED BY <2>1, <2>2, <3>2, <4>1 DEF EntryIsSane
    <3> QED BY <3>1, <3>2
  <2>4. ASSUME NEW g \in File, taken'[g] = version'[g], disk'[g] # Missing,
               g \notin failures', cache'[g] = None
        PROVE  IsToBeRead(g)'
    <3>1. g # f
      BY <2>1, <2>2, <2>4
    <3>2. Unread(g)
      BY <2>1, <2>2, <2>4, <3>1
    <3>3. IsToBeRead(g)
      BY <1>a, <3>2
    <3> QED BY <2>1, <3>1, <3>3 DEF IsToBeRead
  <2> QED BY <2>1, <2>3, <2>4 DEF EntriesAreSane
<1>10. CASE Finish
  <2>1. /\ run.toList = {} /\ run.toRead = {} /\ UNCHANGED <<disk, version, taken>>
        /\ \/ queued = None /\ run' = None /\ UNCHANGED <<cache, known, failures>>
           \/ queued # None /\ Begin(queued)
    BY <1>10 DEF Finish
  <2>2. \A f \in File : ~IsToBeRead(f)
    BY <2>1 DEF IsToBeRead
  <2>3. CASE queued = None /\ run' = None /\ UNCHANGED <<cache, known, failures>>
    <3>1. \A f \in File : cache'[f] # None =>
              EntryIsSane(cache'[f], disk'[f], version'[f], taken'[f] = version'[f])
      BY <1>b, <2>1, <2>3
    <3>2. \A f \in File : ~Unread(f)
      BY <1>a, <2>2
    <3> QED BY <2>1, <2>3, <3>1, <3>2 DEF EntriesAreSane
  <2>4. CASE queued # None /\ Begin(queued)
    <3>1. queued \in Request
      BY <1>0, <2>4 DEF LedgerTypeOK
    <3> QED BY <1>3, <2>1, <2>2, <2>4, <3>1
  <2> QED BY <2>1, <2>3, <2>4
<1> QED BY <1>0, <1>1, <1>4, <1>5, <1>6, <1>7, <1>8, <1>9, <1>10, StepIs

LEMMA FoldIsSame ==
    ASSUME UNCHANGED <<wanted, known, failures>>,
           \A f \in known : RowsOf(cache'[f]) = RowsOf(cache[f]) /\ BadOf(cache'[f]) = BadOf(cache[f])
    PROVE  Fold' = Fold
<1>1. Selected(wanted)' = Selected(wanted) /\ Selected(wanted) \subseteq known
  BY DEF Selected
<1>2. /\ [f \in File |-> IF f \in Selected(wanted)' THEN RowsOf(cache'[f]) ELSE <<>>]
           = [f \in File |-> IF f \in Selected(wanted) THEN RowsOf(cache[f]) ELSE <<>>]
      /\ [f \in File |-> IF f \in known' THEN BadOf(cache'[f]) ELSE 0]
           = [f \in File |-> IF f \in known THEN BadOf(cache[f]) ELSE 0]
  BY <1>1
<1> QED BY <1>1, <1>2 DEF Fold

LEMMA ShowsFoldKept ==
    ASSUME LedgerIInv, [LedgerNext]_ledgerVars
    PROVE  ShowsFold'
<1>0. /\ LedgerTypeOK /\ LinesAreDated /\ EntriesAreSane /\ ShowsFold
      /\ queued # None => Promises(queued)
      /\ cache \in [File -> {None} \cup Entry] /\ known \subseteq File
      /\ queued # None => run # None
      /\ \A f \in File : cache[f] # None <=> f \in known
  BY DEF LedgerIInv, OwedIsRead, LedgerTypeOK
<1>1. ASSUME UNCHANGED <<wanted, run, queued, cache, known, failures, current>> PROVE ShowsFold'
  <2>1. Fold' = Fold
    BY <1>1, FoldIsSame
  <2> QED BY <1>0, <1>1, <2>1 DEF ShowsFold
<1>2. ASSUME NEW c \in Change, DiskChanges(c) PROVE ShowsFold'
  BY <1>1, <1>2 DEF DiskChanges, service
<1>3. CASE OnlyAccess
  BY <1>1, <1>3 DEF OnlyAccess, service
<1>4. ASSUME NEW c \in Change, Report(c) PROVE ShowsFold'
  BY <1>1, <1>4 DEF Report, service
\* A run that begins where the listeners have what is known.
<1>5. ASSUME NEW q \in Request, Begin(q), q.all \/ (wanted' = wanted /\ current' = Fold)
      PROVE  ShowsFold'
  <2>1. /\ run' # None /\ run'.all = q.all
        /\ ~q.all => UNCHANGED <<cache, known, failures>>
    BY <1>0, <1>5, BeginIs
  <2>2. CASE q.all
    BY <2>1, <2>2 DEF ShowsFold
  <2>3. CASE ~q.all
    <3>1. Fold' = Fold
      BY <1>5, <2>1, <2>3, FoldIsSame
    <3> QED BY <1>5, <2>3, <3>1 DEF ShowsFold
  <2> QED BY <2>2, <2>3
<1>6. ASSUME NEW q \in Request, Asks(q) PROVE ShowsFold'
  <2>1. q.all \/ wanted' = wanted
    BY <1>6 DEF Asks
  <2>2. CASE run = None /\ queued = None /\ Begin(q) /\ UNCHANGED <<queued, current, taken>>
    <3>1. current = Fold
      BY <1>0, <2>2 DEF ShowsFold
    <3> QED BY <1>5, <2>1, <2>2, <3>1
  <2>3. CASE /\ run # None /\ queued' # None
             /\ q.all => queued'.all
             /\ queued # None => (queued.all => queued'.all)
             /\ UNCHANGED <<run, cache, known, failures, current, taken>>
    <3>1. CASE q.all
      BY <2>3, <3>1 DEF ShowsFold
    <3>2. CASE ~q.all
      <4>1. Fold' = Fold
        BY <2>1, <2>3, <3>2, FoldIsSame
      <4> QED BY <1>0, <2>3, <4>1 DEF ShowsFold
    <3> QED BY <3>1, <3>2
  <2> QED BY <1>0, <1>6, <2>2, <2>3, AskIs
<1>7. ASSUME NEW c \in Change, Look(c) PROVE ShowsFold'
  <2>1. /\ run # None /\ run' # None /\ run'.all = run.all
        /\ run'.content = run.content /\ run'.sources = run.sources
        /\ UNCHANGED <<wanted, queued, cache, known, failures, current>>
    BY <1>0, <1>7, LookIs
  <2>2. Fold' = Fold
    BY <2>1, FoldIsSame
  <2> QED BY <1>0, <2>1, <2>2 DEF ShowsFold
<1>8. ASSUME NEW f \in File, ReadFailed(f) PROVE ShowsFold'
  <2>1. /\ run # None /\ run' # None /\ run'.all = run.all /\ run'.sources = run.sources
        /\ run'.content = (run.content \/ f \notin failures)
        /\ failures' = failures \cup {f}
        /\ UNCHANGED <<wanted, queued, cache, known, current>>
    BY <1>0, <1>8, ReadFailedIs
  <2>2. CASE f \notin failures
    BY <2>1, <2>2 DEF ShowsFold
  <2>3. CASE f \in failures
    <3>1. failures' = failures
      BY <2>1, <2>3
    <3>2. Fold' = Fold
      BY <2>1, <3>1, FoldIsSame
    <3> QED BY <1>0, <2>1, <3>2 DEF ShowsFold
  <2> QED BY <2>2, <2>3
<1>9. ASSUME NEW f \in File, ReadDone(f) PROVE ShowsFold'
  <2> DEFINE u == Update(cache[f], disk[f])
  <2>1. /\ run # None /\ run' # None /\ run'.all = run.all
        /\ run'.sources = (run.sources \/ (disk[f] = Missing <=> f \in known))
        /\ run'.content = (run.content \/ f \in failures \/ Differs(cache[f], disk[f]))
        /\ failures' = IF run.content THEN failures ELSE failures \ {f}
        /\ known' = KnownAfter(f, disk[f])
        /\ cache' = [cache EXCEPT ![f] = u]
        /\ disk[f] = Missing => u = None
        /\ disk[f] # Missing => u # None
        /\ UNCHANGED <<wanted, queued, current>>
    BY <1>0, <1>9, ReadDoneIs
  <2>2. CASE run'.content \/ run'.sources
    BY <2>1, <2>2 DEF ShowsFold
  <2>3. CASE ~run'.content /\ ~run'.sources
    <3>1. /\ ~run.content /\ ~run.sources /\ f \notin failures /\ ~Differs(cache[f], disk[f])
          /\ ~(disk[f] = Missing <=> f \in known)
      BY <2>1, <2>3
    <3>2. failures' = failures /\ known' = known
      BY <2>1, <3>1 DEF KnownAfter
    <3>3. RowsOf(u) = RowsOf(cache[f]) /\ BadOf(u) = BadOf(cache[f])
      <4>1. CASE disk[f] = Missing
        BY <2>1, <3>1, <4>1 DEF Differs
      <4>2. CASE disk[f] # Missing
        <5>1. cache[f] # None /\ u.rows = cache[f].rows /\ u.bad = cache[f].bad
          BY <3>1, <4>2 DEF Differs, Appended
        <5> HIDE DEF u
        <5> QED BY <2>1, <4>2, <5>1 DEF RowsOf, BadOf
      <4> QED BY <4>1, <4>2
    <3> HIDE DEF u
    <3>4. \A g \in known : /\ RowsOf(cache'[g]) = RowsOf(cache[g])
                           /\ BadOf(cache'[g]) = BadOf(cache[g])
      <4> SUFFICES ASSUME NEW g \in known
                   PROVE  /\ RowsOf(cache'[g]) = RowsOf(cache[g])
                          /\ BadOf(cache'[g]) = BadOf(cache[g])
        OBVIOUS
      <4>1. CASE g = f
        <5>1. cache'[g] = u
          BY <1>0, <2>1, <4>1
        <5> QED BY <3>3, <4>1, <5>1
      <4>2. CASE g # f
        BY <1>0, <2>1, <4>2
      <4> QED BY <4>1, <4>2
    <3>5. Fold' = Fold
      BY <2>1, <3>2, <3>4, FoldIsSame
    <3> QED BY <1>0, <2>1, <3>1, <3>5 DEF ShowsFold
  <2> QED BY <2>2, <2>3
<1>10. CASE Finish
  <2>1. /\ run # None /\ wanted' = wanted /\ queued' = None
        /\ current' = IF run.all \/ run.content \/ run.sources THEN Fold ELSE current
        /\ \/ queued = None /\ run' = None /\ UNCHANGED <<cache, known, failures>>
           \/ queued # None /\ Begin(queued)
    BY <1>10 DEF Finish
  <2>2. CASE queued = None /\ run' = None /\ UNCHANGED <<cache, known, failures>>
    <3>1. current' = Fold
      BY <1>0, <2>1, <2>2 DEF ShowsFold
    <3>2. Fold' = Fold
      BY <2>1, <2>2, FoldIsSame
    <3> QED BY <3>1, <3>2 DEF ShowsFold
  <2>3. CASE queued # None /\ Begin(queued)
    <3>1. queued \in Request
      BY <1>0, <2>3 DEF LedgerTypeOK
    <3>2. queued.all \/ current' = Fold
      BY <1>0, <2>1 DEF ShowsFold
    <3> QED BY <1>5, <2>1, <2>3, <3>1, <3>2
  <2> QED BY <2>1, <2>2, <2>3
<1> QED BY <1>0, <1>2, <1>3, <1>4, <1>6, <1>7, <1>8, <1>9, <1>10, StepIs

-----------------------------------------------------------------------------
(* The ledgers: theorems                                                    *)

LEMMA LedgerIInvAtStart ==
    ASSUME LedgerInit
    PROVE  LedgerIInv
<1>1. Row(1) \in Line /\ Row(1).by = 1
  BY BoundsAssumption DEF Row, Line
<1> DEFINE c == [lines |-> <<Row(1)>>, torn |-> FALSE]
<1>2. c \in Content /\ Len(c.lines) = 1 /\ c.lines[1].by = 1
  <2>1. c.lines \in Seq(Line) /\ Len(c.lines) = 1 /\ c.lines[1] = Row(1)
    BY <1>1
  <2>2. c.lines \in Lines
    <3>1. 1 <= MaxLines
      BY BoundsAssumption
    <3> HIDE DEF c
    <3> QED BY <2>1, <3>1, LinesAre
  <2> QED BY <1>1, <2>1, <2>2 DEF Content
<1> HIDE DEF c
<1>3. disk = [f \in File |-> IF f \in dirs THEN c ELSE Missing] /\ dirs = AtStart
  BY DEF LedgerInit, c
<1>4. /\ run = [all |-> TRUE, toList |-> {RootChange}, toRead |-> {},
                content |-> FALSE, sources |-> FALSE, owed |-> [f \in File |-> 1]]
      /\ unreadable = {} /\ events = {} /\ pending = {} /\ wanted = {}
      /\ version = [f \in File |-> 1] /\ taken = [f \in File |-> 0]
      /\ queued = None /\ cache = [f \in File |-> None] /\ known = {} /\ failures = {}
      /\ current = NoRows /\ happened = 0
  BY DEF LedgerInit
<1>5. run \in Refresh /\ run.toList # {} /\ run.all /\ run.owed = [f \in File |-> 1] /\ run # None
  <2>1. run \in Refresh /\ run.toList # {} /\ run.all /\ run.owed = [f \in File |-> 1]
    BY <1>4 DEF Refresh
  <2> QED BY <2>1, ShapesDiffer
<1>6. current \in Shown
  <2>1. <<>> \in Seq(Line)
    OBVIOUS
  <2> QED BY <1>4, <2>1 DEF NoRows, Shown
<1>7. /\ disk \in [File -> {Missing} \cup Content] /\ dirs \subseteq File
      /\ \A f \in File : disk[f] # Missing => f \in dirs /\ disk[f] = c
  BY <1>2, <1>3, StartAssumption
<1>8. LedgerTypeOK
  BY <1>4, <1>5, <1>6, <1>7, BoundsAssumption DEF LedgerTypeOK
<1>9. LinesAreDated
  BY <1>2, <1>4, <1>7 DEF LinesAreDated
<1>10. \A f \in File : IsToBeRead(f)
  BY <1>5 DEF IsToBeRead
<1>11. NothingIsMissed /\ OwedIsRead
  BY <1>4, <1>5, <1>10 DEF NothingIsMissed, OwedIsRead
<1>12. EntriesAreSane
  BY <1>4, <1>10 DEF EntriesAreSane
<1>13. ShowsFold
  BY <1>5 DEF ShowsFold
<1> QED BY <1>8, <1>9, <1>11, <1>12, <1>13 DEF LedgerIInv

LEMMA LedgerIInvHolds == LedgerSpec => []LedgerIInv
<1>1. LedgerInit => LedgerIInv
  BY LedgerIInvAtStart
<1>2. LedgerIInv /\ [LedgerNext]_ledgerVars => LedgerIInv'
  BY LedgerShapeKept, LinesStayDated, NothingIsMissedKept, OwedIsReadKept, EntriesStaySane,
     ShowsFoldKept DEF LedgerIInv
<1> QED BY <1>1, <1>2, PTL DEF LedgerSpec

\* Whatever is written, removed and reported: the service, its cache and what it
\* shows keep their types, and a follow-up waits for a refresh that runs.
THEOREM LedgerTypeCorrect == LedgerSpec => []LedgerTypeOK
<1>1. LedgerIInv => LedgerTypeOK
  BY DEF LedgerIInv
<1> QED BY <1>1, LedgerIInvHolds, PTL

\* ledgers.ts:127: a refresh that resolves has seen every file that it was asked
\* for as it was then, or later, or says that it could not read it.
THEOREM IncludesTheseChangesHolds == LedgerSpec => IncludesTheseChanges
<1>1. LedgerIInv => (Finish => \A f \in File : taken'[f] >= run.owed[f] \/ f \in failures)
  <2> SUFFICES ASSUME LedgerIInv, Finish, NEW f \in File
               PROVE  taken'[f] >= run.owed[f] \/ f \in failures
    OBVIOUS
  <2>1. run # None /\ ~IsToBeRead(f) /\ taken' = taken
    BY DEF Finish, IsToBeRead
  <2> QED BY <2>1 DEF LedgerIInv, OwedIsRead
<1>2. IncludesTheseChanges <=>
         [][Finish => \A f \in File : taken'[f] >= run.owed[f] \/ f \in failures]_ledgerVars
  BY DEF IncludesTheseChanges
<1> QED BY <1>1, <1>2, LedgerIInvHolds, PTL DEF LedgerSpec

\* fileCache.ts:36: a file of which the service saw the last version has the rows
\* and the bad lines of the whole file, though only what was new was ever parsed.
CacheIsWholeFile(f) ==
    taken[f] = version[f] /\ f \notin failures /\ ~IsToBeRead(f) =>
       IF disk[f] = Missing THEN cache[f] = None
       ELSE /\ RowsOf(cache[f]) = RowsIn(disk[f].lines)
            /\ BadOf(cache[f]) = BadIn(disk[f].lines)

LEMMA CacheIsWhole ==
    ASSUME LedgerIInv, NEW f \in File
    PROVE  CacheIsWholeFile(f)
<1> SUFFICES ASSUME taken[f] = version[f], f \notin failures, ~IsToBeRead(f)
             PROVE  IF disk[f] = Missing THEN cache[f] = None
                    ELSE /\ RowsOf(cache[f]) = RowsIn(disk[f].lines)
                         /\ BadOf(cache[f]) = BadIn(disk[f].lines)
  BY DEF CacheIsWholeFile
<1>1. /\ disk[f] \in {Missing} \cup Content /\ cache[f] \in {None} \cup Entry
      /\ cache[f] # None => EntryIsSane(cache[f], disk[f], version[f], taken[f] = version[f])
      /\ disk[f] # Missing => cache[f] # None
  BY DEF LedgerIInv, LedgerTypeOK, EntriesAreSane
<1>2. CASE disk[f] = Missing
  BY <1>1, <1>2 DEF EntryIsSane
<1>3. CASE disk[f] # Missing
  <2> DEFINE e == cache[f]
             lines == disk[f].lines
  <2>1. /\ e \in Entry /\ e # None /\ disk[f] \in Content
        /\ e.bad + Len(e.rows) = e.consumed /\ e.consumed = Len(lines)
        /\ e.rows = RowsIn(Firsts(lines, e.consumed))
    BY <1>1, <1>3 DEF EntryIsSane
  <2>2. lines \in Seq(Line) /\ Len(lines) \in Nat
    BY <2>1, ContentIs
  <2>3. Firsts(lines, Len(lines)) = lines
    BY <2>2, SubSeqFull DEF Firsts
  <2>4. e.rows = RowsIn(lines)
    BY <2>1, <2>3
  <2>5. e.bad = BadIn(lines)
    <3>1. Len(e.rows) \in Nat /\ e.bad \in Nat
      BY <2>1, LenProperties DEF Entry
    <3>2. BadIn(lines) = Len(lines) - Len(e.rows)
      BY <2>4 DEF BadIn
    <3>3. e.bad + Len(e.rows) = Len(lines)
      BY <2>1
    <3> HIDE DEF e, lines
    <3> QED BY <2>2, <3>1, <3>2, <3>3
  <2> QED BY <1>3, <2>1, <2>4, <2>5 DEF RowsOf, BadOf
<1> QED BY <1>2, <1>3

THEOREM ParsedIncrementally == LedgerSpec => [](\A f \in File : CacheIsWholeFile(f))
<1>1. LedgerIInv => \A f \in File : CacheIsWholeFile(f)
  BY CacheIsWhole
<1> QED BY <1>1, LedgerIInvHolds, PTL

\* When no change waits to be reported or collected and no refresh runs, the
\* listeners have what the files say, or were told which file could not be read.
QuietShowsFiles ==
    events = {} /\ pending = {} /\ run = None =>
       \A f \in File : ShowsFile(f) \/ f \in current.failed

THEOREM QuietShowsFilesHolds == LedgerSpec => []QuietShowsFiles
<1>1. ASSUME LedgerIInv PROVE QuietShowsFiles
  <2> SUFFICES ASSUME events = {}, pending = {}, run = None, NEW f \in File
               PROVE  ShowsFile(f) \/ f \in current.failed
    BY DEF QuietShowsFiles
  <2>1. /\ queued = None /\ ~IsToBeRead(f) /\ ~Waits(f)
        /\ known \subseteq File /\ (cache[f] # None <=> f \in known)
    BY <1>1 DEF LedgerIInv, LedgerTypeOK, IsToBeRead, Waits
  <2>2. current = Fold
    BY <1>1, <2>1 DEF LedgerIInv, ShowsFold
  <2>3. f \notin Covered(events \cup pending)
    BY DEF Covered
  <2>4. taken[f] = version[f] \/ f \in failures
    BY <1>1, <2>1, <2>3 DEF LedgerIInv, NothingIsMissed
  <2>5. CASE f \in failures
    BY <2>2, <2>5 DEF Fold
  <2>6. CASE f \notin failures
    <3>1. CacheIsWholeFile(f)
      BY <1>1, CacheIsWhole
    <3>2. IF disk[f] = Missing THEN cache[f] = None
          ELSE /\ RowsOf(cache[f]) = RowsIn(disk[f].lines)
               /\ BadOf(cache[f]) = BadIn(disk[f].lines)
      BY <2>1, <2>4, <2>6, <3>1 DEF CacheIsWholeFile
    <3>3. /\ current.rows[f] = IF f \in known /\ (wanted = {} \/ PaperOf[f] \in wanted)
                               THEN RowsOf(cache[f]) ELSE <<>>
          /\ current.bad[f] = IF f \in known THEN BadOf(cache[f]) ELSE 0
      BY <2>2 DEF Fold, Selected
    <3>4. CASE disk[f] = Missing
      BY <2>1, <3>2, <3>3, <3>4 DEF ShowsFile
    <3>5. CASE disk[f] # Missing
      <4>1. disk[f] \in Content /\ f \in dirs
        BY <1>1, <3>5 DEF LedgerIInv, LedgerTypeOK
      <4>2. cache[f] # None
        BY <1>1, <2>1, <2>4, <2>6, <3>5 DEF LedgerIInv, EntriesAreSane
      <4> QED BY <2>1, <3>2, <3>3, <3>5, <4>2 DEF ShowsFile
    <3> QED BY <3>4, <3>5
  <2> QED BY <2>5, <2>6
<1> QED BY <1>1, LedgerIInvHolds, PTL

=============================================================================
