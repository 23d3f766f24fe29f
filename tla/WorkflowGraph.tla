---------------------------- MODULE WorkflowGraph ----------------------------
(***************************************************************************)
(* The workflow graph that the rows of the ledgers are folded into, and    *)
(* what is derived from it: cycles and the edges that are drawn as         *)
(* loop-backs, depths and the frontier, what is shown, and routes between  *)
(* two nodes. All of it is computed anew for every snapshot; the loops of  *)
(* the code are folds and step functions.                                  *)
(*                                                                         *)
(* The ids of nodes are numbers in the order of the ids. A knowledge row   *)
(* carries a node, the paper it belongs to, a status and the predecessors; *)
(* a trial carries the node it is anchored at and its outcome.             *)
(***************************************************************************)
EXTENDS Integers, FiniteSets, SequencesExt, FiniteSetsExt

CONSTANTS NodeCount, PaperCount

NodeId  == 1 .. NodeCount
PaperId == 1 .. PaperCount
Status  == {"solid", "preliminary", "retired", "amended"}
Outcome == {"pass", "fail", "amended"}
KnowledgeRow == [node : NodeId, paper : PaperId, status : Status, preds : SUBSET NodeId]
Trial        == [node : NodeId, outcome : Outcome]

\* The elements of a sequence that are in S.
Keeping(list, x, S) == IF x \in S THEN Append(list, x) ELSE list
Only(seq, S) ==
    LET kept[i \in 0 .. Len(seq)] == IF i = 0 THEN <<>> ELSE Keeping(kept[i - 1], seq[i], S)
    IN  kept[Len(seq)]

\* The elements of a sequence in the order of their first occurrence.
Listing(list, x) == IF Contains(list, x) THEN list ELSE Append(list, x)
Distinct(seq) ==
    LET listed[i \in 0 .. Len(seq)] == IF i = 0 THEN <<>> ELSE Listing(listed[i - 1], seq[i])
    IN  listed[Len(seq)]

Joined(lists) ==
    LET joined[i \in 0 .. Len(lists)] == IF i = 0 THEN <<>> ELSE joined[i - 1] \o lists[i]
    IN  joined[Len(lists)]

Listed(S) == Only([n \in NodeId |-> n], S)

-----------------------------------------------------------------------------
(* The fold.                                                               *)

RowsFor(n)     == {row \in KnowledgeRow : row.node = n}
RowsBy(paper) == {row \in KnowledgeRow : row.paper = paper}
NotAmended    == {row \in KnowledgeRow : row.status # "amended"}

\* The rows of a node: those of the paper that claimed it first.
Accrued(rows, n) == LET own == Only(rows, RowsFor(n)) IN Only(own, RowsBy(own[1].paper))

CurrentAnyRow(rows, n) == Last(Accrued(rows, n))

\* The row that says what the node is: the latest one, amended ones apart.
CurrentRow(rows, n) ==
    LET counted == Only(Accrued(rows, n), NotAmended)
    IN  IF counted = <<>> THEN Last(Accrued(rows, n)) ELSE Last(counted)

\* Nodes by their first row that counts; nodes that are only amended follow.
NodesOn(list) == [i \in DOMAIN list |-> list[i].node]
OrderedNodes(rows) ==
    LET counted == {row \in NotAmended : Contains(Accrued(rows, row.node), row)}
    IN  Distinct(NodesOn(Only(rows, counted)) \o NodesOn(rows))

NoTrials == [total |-> 0, failed |-> 0, failStreak |-> 0]

AddTrial(stats, trial) ==
    [total      |-> stats.total + 1,
     failed     |-> stats.failed + (IF trial.outcome = "fail" THEN 1 ELSE 0),
     failStreak |-> CASE trial.outcome = "amended" -> stats.failStreak
                      [] trial.outcome = "pass"    -> 0
                      [] trial.outcome = "fail"    -> stats.failStreak + 1]

StatsOf(own) ==
    LET stats[i \in 0 .. Len(own)] == IF i = 0 THEN NoTrials ELSE AddTrial(stats[i - 1], own[i])
    IN  stats[Len(own)]
TrialStats(trials, n) == StatsOf(Only(trials, {trial \in Trial : trial.node = n}))

\* A predecessor or the anchor of a trial that has no row is a ghost.
Named(known, current, trials) ==
    Distinct(known \o Joined([i \in DOMAIN known |-> Listed(current[known[i]].preds)])
             \o NodesOn(trials))

NodesOf(order, current, trials) ==
    [order  |-> order,
     status |-> [n \in ToSet(order) |-> IF n \in DOMAIN current THEN current[n].status ELSE "unknown"],
     active |-> {n \in DOMAIN current : current[n].status \notin {"retired", "amended"}},
     ghosts |-> ToSet(order) \ DOMAIN current,
     preds  |-> [n \in ToSet(order) |-> IF n \in DOMAIN current THEN current[n].preds ELSE {}],
     trials |-> [n \in ToSet(order) |-> TrialStats(trials, n)]]

FoldNodes(known, current, trials) == NodesOf(Named(known, current, trials), current, trials)

FoldRows(rows, trials) ==
    FoldNodes(OrderedNodes(rows), [n \in ToSet(OrderedNodes(rows)) |-> CurrentRow(rows, n)], trials)

\* The fold of the Python tools, which knows active nodes only.
LatestPerNode(rows) ==
    LET counted == Only(rows, NotAmended)
        order   == Distinct(NodesOn(counted))
        latest  == [i \in DOMAIN order |-> Last(Only(counted, RowsFor(order[i])))]
    IN  Only(latest, {row \in KnowledgeRow : row.status # "retired"})

-----------------------------------------------------------------------------
(* Cycles. Depth-first searches keep frames of a node and the position of  *)
(* the successor to visit next; each step is one turn of their loop.       *)

Successors(g) ==
    [s \in ToSet(g.order) |-> Only(g.order, {t \in ToSet(g.order) : s \in g.preds[t]})]

\* What a loop makes of its state in so many turns.
Turns(Step(_), start, count) ==
    LET after[k \in 0 .. count] == IF k = 0 THEN start ELSE Step(after[k - 1])
    IN  after[count]

\* Every node is met once as a root, opened and left, and every edge tried.
SearchTurns(g) == 3 * Len(g.order) + Len(g.order) * Len(g.order) + 1

Open(d, v) == [d EXCEPT !.frames = Append(@, [node |-> v, next |-> 1])]
Advance(d) == [d EXCEPT !.frames[Len(d.frames)].next = @ + 1]
Leave(d)   == [d EXCEPT !.frames = Front(@)]

TarjanVisit(t, v) ==
    Open([t EXCEPT !.index[v] = t.counter, !.low[v] = t.counter,
                   !.counter = @ + 1, !.stack = Append(@, v)], v)

TarjanEdge(t, v, w) ==
    IF t.index[w] = -1 THEN TarjanVisit(t, w)
    ELSE IF Contains(t.stack, w) THEN [t EXCEPT !.low[v] = Min({@, t.index[w]})]
    ELSE t

\* A node is left: its parent hears of its low point, and the root of a
\* component takes the component off the stack.
TarjanLeave(t, v) ==
    LET left == Leave(t)
        told == IF left.frames = <<>> THEN left
                ELSE [left EXCEPT !.low[Last(left.frames).node] = Min({@, t.low[v]})]
        at   == SelectInSeq(told.stack, LAMBDA w : w = v)
    IN  IF t.low[v] # t.index[v] THEN told
        ELSE [told EXCEPT !.components = Append(@, ToSet(SubSeq(told.stack, at, Len(told.stack)))),
                          !.stack = SubSeq(@, 1, at - 1)]

TarjanStep(succ, t) ==
    IF t.frames # <<>>
    THEN LET top == Last(t.frames) IN
         IF top.next <= Len(succ[top.node])
         THEN TarjanEdge(Advance(t), top.node, succ[top.node][top.next])
         ELSE TarjanLeave(t, top.node)
    ELSE IF t.roots = <<>> THEN t
    ELSE LET root == Head(t.roots)
             rest == [t EXCEPT !.roots = Tail(@)]
         IN  IF t.index[root] = -1 THEN TarjanVisit(rest, root) ELSE rest

StronglyConnectedComponents(g) ==
    LET succ  == Successors(g)
        start == [index |-> [v \in DOMAIN succ |-> -1], low |-> [v \in DOMAIN succ |-> 0],
                  counter |-> 0, stack |-> <<>>, frames |-> <<>>, components |-> <<>>,
                  roots |-> g.order]
    IN  ToSet(Turns(LAMBDA t : TarjanStep(succ, t), start, SearchTurns(g)).components)

OnlyRoots(g) == SelectSeq(g.order, LAMBDA v : g.preds[v] \subseteq {v})

\* The search for back edges starts at the nodes without predecessors.
RootsFirst(g) ==
    LET isRoot(v) == g.preds[v] \subseteq {v}
    IN  SelectSeq(g.order, isRoot) \o SelectSeq(g.order, LAMBDA v : ~isRoot(v))

BackEdgeStep(succ, d) ==
    IF d.frames # <<>>
    THEN LET top == Last(d.frames)
             v == top.node
         IN  IF top.next <= Len(succ[v])
             THEN LET w == succ[v][top.next] IN
                  CASE d.colour[w] = "white" -> Open([Advance(d) EXCEPT !.colour[w] = "grey"], w)
                    [] d.colour[w] = "grey"  -> [Advance(d) EXCEPT !.back = @ \cup {<<v, w>>}]
                    [] d.colour[w] = "black" -> Advance(d)
             ELSE [Leave(d) EXCEPT !.colour[v] = "black"]
    ELSE IF d.roots = <<>> THEN d
    ELSE LET root == Head(d.roots)
             rest == [d EXCEPT !.roots = Tail(@)]
         IN  IF d.colour[root] = "white" THEN Open([rest EXCEPT !.colour[root] = "grey"], root)
             ELSE rest

DfsBackEdges(g) ==
    LET succ  == Successors(g)
        start == [colour |-> [v \in DOMAIN succ |-> "white"], frames |-> <<>>, back |-> {},
                  roots |-> RootsFirst(g)]
    IN  Turns(LAMBDA d : BackEdgeStep(succ, d), start, SearchTurns(g)).back

CycleReport(g, sccs) ==
    [sccs |-> sccs, feedback |-> IF sccs = {} THEN {} ELSE DfsBackEdges(g)]

AnalyzeCycles(g) ==
    CycleReport(g, {c \in StronglyConnectedComponents(g) :
                       Cardinality(c) > 1 \/ \E v \in c : v \in g.preds[v]})

-----------------------------------------------------------------------------
(* Depths. Nodes are taken in topological order, each pushes its           *)
(* successors down; nodes on a cycle that is left are never taken.         *)

KahnStep(inn, q) ==
    IF q.head > Len(q.queue) THEN q
    ELSE LET id   == q.queue[q.head]
             next == {n \in DOMAIN inn : id \in inn[n]}
             left == [n \in DOMAIN inn |-> q.pending[n] - (IF n \in next THEN 1 ELSE 0)]
         IN  [head    |-> q.head + 1,
              pending |-> left,
              queue   |-> q.queue \o SelectSeq(q.order, LAMBDA n : n \in next /\ left[n] = 0),
              depth   |-> [n \in DOMAIN inn |->
                              IF n \in next THEN Max({q.depth[n], q.depth[id] + 1}) ELSE q.depth[n]],
              order   |-> q.order]

Kahn(order, inn) ==
    Turns(LAMBDA q : KahnStep(inn, q),
          [head |-> 1, pending |-> [n \in DOMAIN inn |-> Cardinality(inn[n])],
           queue |-> SelectSeq(order, LAMBDA n : inn[n] = {}),
           depth |-> [n \in DOMAIN inn |-> 0], order |-> order],
          Len(order))

ComputeDepths(g, feedback) ==
    Kahn(g.order, [n \in ToSet(g.order) |-> {p \in g.preds[n] : <<p, n>> \notin feedback}]).depth

ComputeFrontier(g, depth) ==
    SetToSortSeq({n \in g.active : g.status[n] # "solid" /\ \A p \in g.preds[n] : g.status[p] = "solid"},
                 LAMBDA m, n : depth[m] < depth[n] \/ (depth[m] = depth[n] /\ m < n))

\* The graph of a snapshot.
Derived(g, cycles, depth) ==
    [order |-> g.order, status |-> g.status, active |-> g.active, ghosts |-> g.ghosts,
     preds |-> g.preds, trials |-> g.trials, succ |-> Successors(g),
     sccs |-> cycles.sccs, feedback |-> cycles.feedback,
     depth |-> depth, frontier |-> ComputeFrontier(g, depth)]

WithCycles(g, cycles) == Derived(g, cycles, ComputeDepths(g, cycles.feedback))
WithDerived(g) == WithCycles(g, AnalyzeCycles(g))

FoldLedgers(rows, trials) == WithDerived(FoldRows(rows, trials))

-----------------------------------------------------------------------------
(* What is shown, and routes.                                              *)

\* Everything that can be reached in one or more steps along adj.
Reached(adj, S) ==
    Turns(LAMBDA reached : reached \cup UNION {adj[n] : n \in reached},
          UNION {adj[n] : n \in S}, Cardinality(DOMAIN adj))

Upstream(g, id)   == Reached(g.preds, {id}) \ {id}
Downstream(g, id) == Reached([s \in DOMAIN g.succ |-> ToSet(g.succ[s])], {id}) \ {id}

WithSources(g, wanted)    == wanted \cup Reached(g.preds, wanted)

Subgraph(g, shown) ==
    [order    |-> SelectSeq(g.order, LAMBDA n : n \in shown),
     preds    |-> [n \in shown |-> g.preds[n]],
     feedback |-> {e \in g.feedback : {e[1], e[2]} \subseteq shown}]

VisibleSubgraph(g, showInactive) ==
    Subgraph(g, WithSources(g, IF showInactive THEN ToSet(g.order) ELSE g.active \cup g.ghosts))

\* Breadth first, level by level; each node remembers where it was come from
\* first.
Steps(succ, level) ==
    Joined([i \in DOMAIN level |->
        [j \in DOMAIN succ[level[i]] |-> <<level[i], succ[level[i]][j]>>]])

Unmet(steps, from) ==
    Distinct(Only([i \in DOMAIN steps |-> steps[i][2]], NodeId \ DOMAIN from))

LaterFrom(steps, from, fresh) ==
    [level |-> fresh,
     from  |-> [n \in DOMAIN from \cup {steps[i][2] : i \in DOMAIN steps} |->
                   IF \E i \in DOMAIN steps : steps[i][2] = n
                   THEN steps[SelectInSeq(steps, LAMBDA s : s[2] = n)][1] ELSE from[n]]]

CameFrom(steps, from, fresh) ==
    [level |-> fresh,
     from  |-> [n \in DOMAIN from \cup ToSet(fresh) |->
                   IF n \in DOMAIN from THEN from[n]
                   ELSE steps[SelectInSeq(steps, LAMBDA s : s[2] = n)][1]]]

RouteStep(steps, b) == CameFrom(steps, b.from, Unmet(steps, b.from))

RouteSearch(succ, from, to, count) ==
    Turns(LAMBDA b : IF to \in DOMAIN b.from THEN b ELSE RouteStep(Steps(succ, b.level), b),
          [level |-> <<from>>, from |-> [n \in {from} |-> n]], count).from

NoPath == <<>>

WalkBack(found, from, to, count) ==
    IF to \notin DOMAIN found THEN NoPath
    ELSE Turns(LAMBDA path : IF Head(path) = from THEN path ELSE <<found[Head(path)]>> \o path,
               <<to>>, count)

ShortestRoute(g, from, to) ==
    IF {from, to} \subseteq ToSet(g.order)
    THEN WalkBack(RouteSearch(g.succ, from, to, Len(g.order)), from, to, Len(g.order))
    ELSE NoPath

Route(g, path, reversed) ==
    [path |-> path, reversed |-> reversed,
     corridor |-> IF path = NoPath THEN {}
                  ELSE (Downstream(g, Head(path)) \cup {Head(path)})
                       \cap (Upstream(g, Last(path)) \cup {Last(path)})]

\* The route in whichever direction the dependency runs.
RouteOr(g, there, a, b) ==
    IF there # NoPath THEN Route(g, there, FALSE) ELSE Route(g, ShortestRoute(g, b, a), TRUE)
RouteBetween(g, a, b) == RouteOr(g, ShortestRoute(g, a, b), a, b)

=============================================================================
