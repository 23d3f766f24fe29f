------------------------------ MODULE GraphView ------------------------------
(***************************************************************************)
(* The page that draws the workflow graph: its state, and what each input  *)
(* of the user and each message of the host makes of it. An operator takes *)
(* the page and returns the page that results; what it posts to the host   *)
(* collects in its field out.                                              *)
(*                                                                         *)
(* A graph is the nodes, those of them that are active, what each depends  *)
(* on and the papers it was folded from. The picture is not modelled: of   *)
(* the camera there is only whether the user moved it since the view       *)
(* placed it last, and whether it was placed at all.                       *)
(***************************************************************************)
EXTENDS Naturals, FiniteSets, Sequences

CONSTANTS
    Node,       \* the ids that occur in graphs
    Paper,      \* the papers
    Lens,       \* the keys of the legend that can be pressed
    NoNode,     \* no focus
    Graphs      \* the graphs that the ledgers hold one after the other

Graph == [nodes  : SUBSET Node, active : SUBSET Node,
          pred   : [Node -> SUBSET Node], papers : SUBSET Paper]

\* One graph need not resemble the next: rows are appended, and papers are
\* selected, folders added and ledgers rewritten or removed, which drops nodes.
ASSUME GraphsAssumption ==
    /\ Graphs \in Seq(Graph) /\ Graphs # <<>>
    /\ \A i \in DOMAIN Graphs : Graphs[i].active \subseteq Graphs[i].nodes
ASSUME NodeAssumption == IsFiniteSet(Node) /\ NoNode \notin Node

NoRoute   == <<>>
NoGraph   == [nodes |-> {}, active |-> {}, pred |-> [n \in Node |-> {}], papers |-> {}]
Direction == {"lr", "td"}
Reach     == {"both", "upstream", "downstream"}

-----------------------------------------------------------------------------
(* What the view lays out: the active nodes, or all, and everything that a *)
(* shown node depends on.                                                  *)

With(g, S) == S \cup ((UNION {g.pred[n] : n \in S}) \cap g.nodes)

Closure(g, S) ==
    LET grown[k \in 0 .. Cardinality(Node)] ==
            IF k = 0 THEN S ELSE With(g, grown[k - 1])
    IN  grown[Cardinality(Node)]

Visible(g, inactive) == Closure(g, IF inactive THEN g.nodes ELSE g.active)

Placed(p) == Visible(p.graph, p.inactive)

-----------------------------------------------------------------------------
(* The saved state: a hash that leaves out what is the default.            *)

Saved == [focus : Node \cup {NoNode}, reach : Reach, route : {NoRoute} \cup (Node \X Node),
          lens : SUBSET Lens, dir : Direction \cup {""}, inactive : BOOLEAN]

FormatHash(p) ==
    [focus    |-> p.focus,
     reach    |-> IF p.focus = NoNode THEN "both" ELSE p.reach,
     route    |-> p.route,
     lens     |-> p.lens,
     dir      |-> IF p.dir = p.default THEN "" ELSE p.dir,
     inactive |-> p.inactive]

NothingSaved == [focus |-> NoNode, reach |-> "both", route |-> NoRoute, lens |-> {},
                 dir |-> "", inactive |-> FALSE]

\* A page that starts: the saved state against the direction in its html. It
\* posts that it is ready.
Mount(hash, default) ==
    [focus    |-> hash.focus,
     reach    |-> hash.reach,
     route    |-> hash.route,
     lens     |-> hash.lens,
     dir      |-> IF hash.dir = "" THEN default ELSE hash.dir,
     inactive |-> hash.inactive,
     default  |-> default,
     graph    |-> NoGraph,
     picking  |-> FALSE, presenting |-> FALSE, help |-> FALSE,
     framed   |-> FALSE, adjusted |-> FALSE,
     saved    |-> hash,
     out      |-> <<[type |-> "ready"]>>]

-----------------------------------------------------------------------------
(* The camera.                                                             *)

\* A placement of the view's own stays its own until the user moves it.
Frame(p) == [p EXCEPT !.adjusted = FALSE]

\* revealNode fits a view that is far away and pans one that is near.
Reveals(p) == {p} \cup {Frame(p)}

\* The graph is laid out again, and framed unless the view is to be kept.
Relayout(p, keepView) ==
    IF keepView \/ Placed(p) = {} THEN p
    ELSE [Frame(p) EXCEPT !.framed = TRUE]

-----------------------------------------------------------------------------
(* State.                                                                  *)

Post(p, msg) == [p EXCEPT !.out = Append(@, msg)]

\* update: p is the state with the patch applied, q the state before it.
Settle(p, q) ==
    LET reached  == IF p.focus = NoNode THEN [p EXCEPT !.reach = "both"] ELSE p
        laid     == IF p.dir # q.dir \/ p.inactive # q.inactive
                    THEN Relayout(reached, FALSE) ELSE reached
        kept     == [laid EXCEPT !.saved = FormatHash(laid)]
    IN  IF p.focus \notin {NoNode, q.focus}
        THEN Post(kept, [type |-> "focused", id |-> p.focus])
        ELSE kept

FocusOn(p, id) ==
    Settle([p EXCEPT !.focus = id, !.route = NoRoute,
                     !.inactive = @ \/ id \notin p.graph.active \cup Placed(p)], p)

SetGraph(p, g) ==
    Relayout([p EXCEPT !.graph = g],
             p.framed /\ p.adjusted /\ g.papers = p.graph.papers)

Configure(p, dir) == Settle([p EXCEPT !.default = dir, !.dir = dir], p)

\* A message of the host. A node that the graph does not have is not focused.
Handle(p, msg) ==
    CASE msg.type = "graph"  -> {SetGraph(p, msg.graph)}
      [] msg.type = "config" -> {Configure(p, msg.dir)}
      [] msg.type = "focus" /\ msg.id \in p.graph.nodes -> Reveals(FocusOn(p, msg.id))
      [] msg.type = "focus" /\ msg.id \notin p.graph.nodes -> {p}

-----------------------------------------------------------------------------
(* The user.                                                               *)

\* A node was chosen by click, search or keyboard: it completes a route probe
\* or becomes the focus.
CompletesProbe(p, id) == p.picking /\ p.focus \notin {NoNode, id}

PickKeepsRoute(p, id) ==
    IF CompletesProbe(p, id)
    THEN Frame(Settle([p EXCEPT !.picking = FALSE, !.route = <<p.focus, id>>], p))
    ELSE Settle([p EXCEPT !.focus = id], p)

PickNode(p, id) ==
    IF CompletesProbe(p, id)
    THEN Frame(Settle([p EXCEPT !.picking = FALSE, !.route = <<p.focus, id>>], p))
    ELSE Settle([p EXCEPT !.focus = id, !.route = NoRoute], p)

\* The close button of the detail panel.
Unfocus(p) == Settle([p EXCEPT !.focus = NoNode, !.route = NoRoute], p)

\* A click on the surface, which also closes the help. While the ends of a
\* route are picked a click beside the nodes does nothing else.
Click(p, ids) ==
    LET q == [p EXCEPT !.help = FALSE]
    IN  {PickNode(q, id) : id \in ids} \cup {IF q.picking THEN q ELSE Unfocus(q)}

RestrictReach(p, wanted) ==
    IF p.focus = NoNode THEN p
    ELSE Settle([p EXCEPT !.reach = IF @ = wanted THEN "both" ELSE wanted, !.route = NoRoute], p)

Turn(p) == Settle([p EXCEPT !.dir = IF @ = "lr" THEN "td" ELSE "lr"], p)
ToggleInactive(p) == Settle([p EXCEPT !.inactive = ~@], p)
PressLens(p, key) ==
    Settle([p EXCEPT !.lens = IF key \in @ THEN @ \ {key} ELSE @ \cup {key}], p)
Present(p) == Frame([p EXCEPT !.presenting = ~@])

\* Esc undoes one thing at a time, innermost first.
StepBack(p) ==
    CASE p.help       -> [p EXCEPT !.help = FALSE]
      [] ~p.help /\ p.picking -> [p EXCEPT !.picking = FALSE]
      [] ~p.help /\ ~p.picking /\ p.presenting -> Frame([p EXCEPT !.presenting = FALSE])
      [] OTHER ->
           Settle(IF p.route # NoRoute THEN [p EXCEPT !.route = NoRoute]
                  ELSE IF p.focus # NoNode THEN [p EXCEPT !.focus = NoNode]
                  ELSE [p EXCEPT !.lens = {}], p)

\* What the user can make of the page in one step.
UserSteps(p) ==
    LET placed == Placed(p) IN
    Click(p, placed)
    \cup (UNION {Reveals(PickNode(p, n)) : n \in placed})
    \cup (UNION {Reveals(FocusOn(p, n)) : n \in p.graph.nodes})
    \cup {Unfocus(p), StepBack(p), Turn(p), ToggleInactive(p), Present(p), Frame(p)}
    \cup {RestrictReach(p, r) : r \in Reach \ {"both"}}
    \cup {PressLens(p, key) : key \in Lens}
    \cup {[p EXCEPT !.picking = ~@], [p EXCEPT !.help = ~@]}
    \cup {[p EXCEPT !.adjusted = TRUE]}

Posted == [type : {"ready"}] \cup [type : {"focused"}, id : Node]
Page == [focus : Node \cup {NoNode}, reach : Reach, route : {NoRoute} \cup (Node \X Node),
         lens : SUBSET Lens, dir : Direction, inactive : BOOLEAN, default : Direction,
         graph : {NoGraph} \cup {Graphs[i] : i \in DOMAIN Graphs},
         picking : BOOLEAN, presenting : BOOLEAN, help : BOOLEAN,
         framed : BOOLEAN, adjusted : BOOLEAN, saved : Saved, out : Seq(Posted)]
=============================================================================
