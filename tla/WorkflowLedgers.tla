--------------------------- MODULE WorkflowLedgers ---------------------------
(***************************************************************************)
(* Ledgers that grow row by row, and what the workflow graph is after each *)
(* row. The rows of the papers are folded paper by paper, so that a row    *)
(* that is appended to the first paper comes before all of the second.     *)
(***************************************************************************)
EXTENDS WorkflowLayout

CONSTANTS
    Starts,       \* the knowledge ledgers to start from
    Rows,         \* the rows that are appended
    Trials,       \* the trials that are appended
    MaxRows       \* how many rows and trials there are in all

ASSUME LedgersAssumption ==
    /\ NodeCount \in Nat /\ PaperCount \in Nat
    /\ Rows \subseteq KnowledgeRow /\ Trials \subseteq Trial /\ MaxRows \in Nat
    /\ Starts \subseteq [PaperId -> Seq(KnowledgeRow)]

VARIABLES ledger,    \* the knowledge rows of each paper
          trials,    \* the trials of all papers
          graph      \* the workflow graph of the current snapshot

workflowVars == <<ledger, trials, graph>>

Knowledge == Joined(ledger)

WorkflowInit ==
    /\ ledger \in Starts /\ trials = <<>>
    /\ graph = FoldLedgers(Knowledge, trials)

HasRoom == Len(Knowledge) + Len(trials) < MaxRows

Refold == graph' = FoldLedgers(Knowledge', trials')

AppendRow(row) ==
    /\ HasRoom
    /\ ledger' = [ledger EXCEPT ![row.paper] = Append(@, row)]
    /\ UNCHANGED trials
    /\ Refold

AppendTrial(trial) ==
    /\ HasRoom
    /\ trials' = Append(trials, trial)
    /\ UNCHANGED ledger
    /\ Refold

WorkflowNext ==
    \/ \E row \in Rows : AppendRow(row)
    \/ \E trial \in Trials : AppendTrial(trial)

WorkflowSpec == WorkflowInit /\ [][WorkflowNext]_workflowVars

-----------------------------------------------------------------------------
Nodes == ToSet(graph.order)
Edges == {e \in Nodes \X Nodes : e[1] \in graph.preds[e[2]]}

\* Where one walks along edges from each node in one or more steps.
WalksOf(edges) ==
    [m \in Nodes |-> Reached([n \in Nodes |-> {e[2] : e \in {x \in edges : x[1] = n}}], {m})]

\* "The exact fold of Chandra's latest_per_node" (fold.ts:25): while no paper
\* writes rows of another's nodes, the active nodes are the rows of that fold
\* in its order; what is named without a row is there as a ghost; and a streak
\* counts the trials that failed since one passed (foldLedgers, addTrial).
ActiveRows ==
    LET active == Only(graph.order, graph.active)
    IN  [i \in DOMAIN active |-> <<active[i], graph.status[active[i]], graph.preds[active[i]]>>]

LatestRows ==
    LET latest == LatestPerNode(Knowledge)
    IN  [i \in DOMAIN latest |-> <<latest[i].node, latest[i].status, latest[i].preds>>]

IsStreak(k, ran) ==
    /\ \A i \in Len(ran) - k + 1 .. Len(ran) : ran[i].outcome = "fail"
    /\ k < Len(ran) => ran[Len(ran) - k].outcome = "pass"

Shared(rows) == \E i, j \in DOMAIN rows : rows[i].node = rows[j].node /\ rows[i].paper # rows[j].paper

FoldMeetsReference ==
    /\ Shared(Knowledge) \/ ActiveRows = LatestRows
    /\ \A n \in Nodes : graph.preds[n] \subseteq Nodes
    /\ \A i \in DOMAIN Knowledge : Knowledge[i].node \in Nodes
    /\ \A n \in Nodes :
          IsStreak(graph.trials[n].failStreak,
                   Only(trials, {t \in Trial : t.node = n /\ t.outcome # "amended"}))

\* "Removing these edges leaves the graph acyclic" (cycles.ts:71), each of them
\* is on a cycle, and the components are the sets of nodes that lead to each
\* other. Without them the depths are those of the longest walks, and whatever
\* is left to do waits for a node of the frontier, unless it waits for a cycle,
\* a ghost or a retired node (analyzeCycles, computeDepths, computeFrontier).
Blocked(walks, n) == n \in walks[n] \/ (n \notin graph.active /\ graph.status[n] # "solid")

BrokenBy(walks, forward, onward) ==
    /\ \A n \in Nodes : n \notin onward[n]
    /\ \A e \in graph.feedback : e[1] \in walks[e[2]] \/ e[1] = e[2]
    /\ graph.feedback \subseteq Edges
    /\ graph.sccs = {{m \in Nodes : m \in walks[n] /\ n \in walks[m]} :
                        n \in {k \in Nodes : k \in walks[k]}}
    /\ \A n \in Nodes : LET before == {e[1] : e \in {x \in forward : x[2] = n}} IN
          graph.depth[n] = IF before = {} THEN 0 ELSE 1 + Max({graph.depth[m] : m \in before})
    /\ \A n \in graph.active : graph.status[n] # "solid" =>
          \E m \in Nodes : /\ m = n \/ n \in walks[m]
                           /\ Contains(graph.frontier, m) \/ Blocked(walks, m)

CyclesAreBroken ==
    BrokenBy(WalksOf(Edges), Edges \ graph.feedback, WalksOf(Edges \ graph.feedback))

\* "A join must never silently lose a source" (derived.ts:175), and every edge on
\* screen leads to a later layer, those apart that are drawn as loop-backs, which lead
\* back (visibleSubgraph, layoutGraph).
DrawnOnward(sub, g) ==
    /\ \A n \in ToSet(sub.order) : graph.preds[n] \subseteq ToSet(sub.order)
    /\ \A i \in DOMAIN g.edges : LET e == g.edges[i] IN
          /\ e.feedback <=> <<sub.order[e.s], sub.order[e.t]>> \in graph.feedback
          /\ IF e.feedback THEN e.s = e.t \/ g.layer[e.t] < g.layer[e.s]
             ELSE g.layer[e.s] < g.layer[e.t]

\* The strokes an edge rides on lead from its source to its target without a break: no
\* one passes below a node, what is shared is shared by edges of one source only, and one
\* arrow enters a node for all its edges, which "meet in one junction dot"
\* (layout.ts:155).  A loop-back has a slot in every layer between its ends.
LayerAt(g, v) == IF v < 0 THEN g.layer[- v] ELSE g.layer[v]

Leads(g, own, i) ==
    LET e == g.edges[i] IN
    /\ \E first \in own : first.from = e.s
    /\ \A x \in own : x.to = e.t \/ \E next \in own : next.from = x.to
    /\ \A x \in own : x.kind \in {"trunk", "branch"} => LayerAt(g, x.to) = g.layer[x.from] + 1
    /\ \A x \in own : x.kind = "trunk" => \A k \in x.edges : g.edges[k].s = e.s
    /\ e.feedback /\ e.s # e.t =>
          [k \in DOMAIN g.chain[i] |-> g.layer[g.chain[i][k]]]
          = [k \in 1 .. g.layer[e.s] - g.layer[e.t] + 1 |-> g.layer[e.t] + k - 1]

StrokesLead(g, strokes) ==
    /\ \A i \in DOMAIN g.edges : Leads(g, {x \in strokes : i \in x.edges}, i)
    /\ \A t \in g.nodes : Incoming(g.edges, t) # {} =>
          {x.edges : x \in {y \in strokes : y.to = t}} = {Incoming(g.edges, t)}

\* Every vertex has one place in its layer, a loop-back's end right beside its node, and
\* the crossings that are counted while neighbours are swapped are those there are.
SeatsHold(g, seats, crossings) ==
    /\ \A l \in DOMAIN seats :
          /\ IsInjective(seats[l])
          /\ ToSet(seats[l]) = {v \in DOMAIN g.layer : g.layer[v] = l} \ g.isolated
          /\ \A i \in DOMAIN seats[l] : LET node == g.anchor[seats[l][i]] IN
                node # 0 => i > 1 /\ node \in {seats[l][i - 1], g.anchor[seats[l][i - 1]]}
    /\ crossings = Crossings(g, seats)
    /\ crossings <= Crossings(g, FirstSeats(g))

\* "As close as possible to `desired` while consecutive items keep at least `gap[i]`"
\* (layout.ts:94): no group of neighbours at a distance from the next could come closer.
Below(x, y) == x.sum * y.total < y.sum * x.total

GapsHold(s) ==
    LET offset == Offsets(s.gap)
        at(i)  == [sum |-> s.at[i].sum - s.unit * offset[i] * s.at[i].total, total |-> s.at[i].total]
        pull(i, k) == FoldLeft(LAMBDA sum, j : sum + s.weight[j] *
                          ((s.desired[j] - s.unit * offset[j]) * at(i).total - at(i).sum),
                          0, [j \in 1 .. k - i + 1 |-> i + j - 1])
        blocks == {b \in (DOMAIN s.gap) \X (DOMAIN s.gap) :
                      /\ b[1] <= b[2] /\ ~Below(at(b[1]), at(b[2]))
                      /\ b[1] = 1 \/ Below(at(b[1] - 1), at(b[1]))
                      /\ b[2] = Len(s.gap) \/ Below(at(b[2]), at(b[2] + 1))}
    IN  /\ \A i \in 2 .. Len(s.gap) : ~Below(at(i), at(i - 1))
        /\ \A b \in blocks : /\ pull(b[1], b[2]) = 0
                             /\ \A k \in b[1] .. b[2] : pull(b[1], k) >= 0

LaidOut(sub, layout) ==
    /\ DrawnOnward(sub, layout.graph)
    /\ StrokesLead(layout.graph, layout.strokes)
    /\ SeatsHold(layout.graph, layout.seats, layout.crossings)
    /\ GapsHold(layout.settled)

ShownWith(inactive) == VisibleSubgraph(graph, inactive)

\* The layout of what is shown, with and without the inactive nodes, is sound up to the
\* first pass of coordinates: its edges lead on, as its test asks (test/layout.test.ts:47),
\* and so do the strokes; seats and crossings are what they are taken for, and the first
\* distances are as close as can be.  That no two boxes overlap and all are inside the
\* canvas, which the test asks as well, is left out with the later passes.
LayoutInvariants == \A sub \in {ShownWith(TRUE), ShownWith(FALSE)} : LaidOut(sub, Layout(sub))

\* A route is a shortest walk along edges, in the one direction or else in the
\* other, unless there is none; the corridor around it holds what lies on any
\* walk between its ends (shortestRoute, routeBetween).
StepsTo(m, n) ==
    Min({k \in 1 .. Cardinality(Nodes) : n \in Turns(
            LAMBDA S : {e[2] : e \in {x \in Edges : x[1] \in S}}, {m}, k)})

IsShortest(walks, r, m, n) ==
    /\ r.path[1] = m /\ Last(r.path) = n
    /\ Len(r.path) = StepsTo(m, n) + 1
    /\ \A i \in 1 .. Len(r.path) - 1 : <<r.path[i], r.path[i + 1]>> \in Edges
    /\ r.corridor = {c \in Nodes : (c = m \/ c \in walks[m]) /\ (c = n \/ n \in walks[c])}

IsRoute(walks, r, a, b) ==
    CASE b \in walks[a] -> ~r.reversed /\ IsShortest(walks, r, a, b)
      [] b \notin walks[a] /\ a \in walks[b] -> r.reversed /\ IsShortest(walks, r, b, a)
      [] OTHER -> r.path = NoPath

RoutesAmong(walks) ==
    \A a, b \in Nodes : a # b => IsRoute(walks, RouteBetween(graph, a, b), a, b)

RoutesAreShortest == RoutesAmong(WalksOf(Edges))
=============================================================================
