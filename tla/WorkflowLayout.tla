---------------------------- MODULE WorkflowLayout ----------------------------
(***************************************************************************)
(* How the graph on screen is laid out (view/layout.ts).  Nodes get layers,*)
(* edges become lanes through the layers in between, the members of each   *)
(* layer are ordered so that few edges cross, pushed apart, and every edge *)
(* is drawn as strokes from one layer to the next.                         *)
(*                                                                         *)
(* A vertex is a node, known by its position in the order of the graph, or *)
(* the slot of a lane, numbered after the nodes.  A loop-back's lane has a *)
(* slot beside either of its ends, whose anchor is that node; 0 is none.   *)
(***************************************************************************)
EXTENDS WorkflowGraph

-----------------------------------------------------------------------------
(* Layers: feedback edges count in the other direction, and a root moves   *)
(* to the layer before its first consumer.                                 *)
Inward(sub, feedback) ==
    [n \in ToSet(sub.order) |->
        {p \in sub.preds[n] \ {n} : <<p, n>> \notin feedback}
        \cup {t \in ToSet(sub.order) \ {n} : n \in sub.preds[t] /\ <<n, t>> \in feedback}]

\* The feedback edges of the model, or others when those leave a cycle.
Reversed(sub) ==
    IF Len(Kahn(sub.order, Inward(sub, sub.feedback)).queue) = Len(sub.order)
    THEN sub.feedback
    ELSE AnalyzeCycles([order |-> sub.order, preds |-> sub.preds]).feedback

\* The layer before the first consumer, for a node that nothing leads to.
PullRoots(inn, depth) ==
    [n \in DOMAIN inn |->
        LET out == {m \in DOMAIN inn : n \in inn[m]}
        IN  IF inn[n] = {} /\ out # {} THEN Min({depth[m] : m \in out}) - 1 ELSE depth[n]]

LayersOf(sub, inn) == PullRoots(inn, Kahn(sub.order, inn).depth)
-----------------------------------------------------------------------------
(* Lanes. *)

Position(sub, n) == SelectInSeq(sub.order, LAMBDA m : m = n)

\* Every edge between two nodes that are there, target by target.
WorkEdges(sub, feedback) ==
    FlattenSeq([t \in DOMAIN sub.order |->
        LET sources == Listed(sub.preds[sub.order[t]] \cap ToSet(sub.order)) IN
        [k \in DOMAIN sources |->
            [s |-> Position(sub, sources[k]), t |-> t,
             feedback |-> \/ sources[k] = sub.order[t]
                          \/ <<sources[k], sub.order[t]>> \in feedback]]])

Pairs(path) == [k \in 1 .. Len(path) - 1 |-> <<path[k], path[k + 1]>>]

NewSlots(g, count) == [k \in 1 .. count |-> Len(g.layer) + k]

\* The edges that leave a node share one lane, which is as long as the longest needs.
LayTrunk(g, edges, i) ==
    LET e     == edges[i]
        span  == g.layer[e.t] - g.layer[e.s]
        lane  == g.trunk[e.s]
        more  == Max({0, span - 1 - Len(lane)})
        long  == lane \o NewSlots(g, more)
        chain == <<e.s>> \o SubSeq(long, 1, span - 1)
    IN  IF e.feedback THEN g
        ELSE [g EXCEPT
                !.layer  = @ \o [k \in 1 .. more |-> g.layer[e.s] + Len(lane) + k],
                !.anchor = @ \o [k \in 1 .. more |-> 0],
                !.trunk[e.s] = long,
                !.chain[i] = chain,
                !.links = Distinct(@ \o Pairs(<<e.s>> \o long) \o <<<<Last(chain), e.t>>>>)]

\* A loop-back has a lane of its own, from the layer of its target to that of its source.
LayLoop(g, edges, i) ==
    LET e    == edges[i]
        span == g.layer[e.s] - g.layer[e.t] + 1
        lane == NewSlots(g, span)
    IN  IF ~e.feedback \/ e.s = e.t THEN g
        ELSE [g EXCEPT
                !.layer  = @ \o [k \in 1 .. span |-> g.layer[e.t] + k - 1],
                !.anchor = @ \o [k \in 1 .. span |-> IF k = 1 THEN e.t
                                                     ELSE IF k = span THEN e.s ELSE 0],
                !.chain[i] = lane,
                !.links = Distinct(@ \o Pairs(lane))]

WithNear(g, edges) ==
    LET vertices == DOMAIN g.layer
        nodes    == DOMAIN g.trunk
        at(end, other, v) ==
            LET own == SelectSeq(g.links, LAMBDA p : p[end] = v)
            IN  [k \in DOMAIN own |-> own[k][other]]
    IN  [layer |-> g.layer, anchor |-> g.anchor, links |-> g.links, chain |-> g.chain,
         edges |-> edges, nodes |-> nodes,
         top   |-> Max({0} \cup {g.layer[v] : v \in vertices}),
         down  |-> [v \in vertices |-> at(1, 2, v)],
         up    |-> [v \in vertices |-> at(2, 1, v)],
         attached |-> [v \in vertices |-> SelectSeq([w \in vertices |-> w], LAMBDA w : g.anchor[w] = v)],
         selfLoop |-> {edges[i].s : i \in {k \in DOMAIN edges : edges[k].s = edges[k].t}},
         isolated |-> {v \in nodes : \A i \in DOMAIN edges : v \notin {edges[i].s, edges[i].t}}]

LaneGraph(sub, layer, edges) ==
    LET bare == [layer  |-> [v \in DOMAIN sub.order |-> layer[sub.order[v]]],
                 anchor |-> [v \in DOMAIN sub.order |-> 0],
                 trunk  |-> [v \in DOMAIN sub.order |-> <<>>],
                 chain  |-> [i \in DOMAIN edges |-> <<>>],
                 links  |-> <<>>]
        indices == [i \in DOMAIN edges |-> i]
        trunks  == FoldLeft(LAMBDA g, i : LayTrunk(g, edges, i), bare, indices)
    IN  WithNear(FoldLeft(LAMBDA g, i : LayLoop(g, edges, i), trunks, indices), edges)

-----------------------------------------------------------------------------
(* The order within the layers. *)

SearchStep(g, d) ==
    IF d.stack = <<>> THEN d
    ELSE LET v == Head(d.stack) IN
         IF Contains(d.met, v) THEN [d EXCEPT !.stack = Tail(@)]
         ELSE [stack |-> g.down[v] \o Tail(d.stack), met |-> Append(d.met, v)]

\* What belongs to a node sits right after it.
Seat(g, free) == FlattenSeq([k \in DOMAIN free |-> <<free[k]>> \o g.attached[free[k]]])

FirstSeats(g) ==
    LET roots == SelectSeq([v \in DOMAIN g.layer |-> v],
                           LAMBDA v : g.anchor[v] = 0 /\ v \notin g.isolated)
        met   == Turns(LAMBDA d : SearchStep(g, d), [stack |-> roots, met |-> <<>>],
                       Len(g.layer) + Len(g.links)).met
    IN  [l \in 0 .. g.top |->
            Seat(g, SelectSeq(met, LAMBDA v : g.anchor[v] = 0 /\ g.layer[v] = l))]

OrderOf(g, seats) ==
    [v \in DOMAIN g.layer |-> SelectInSeq(seats[g.layer[v]], LAMBDA w : w = v)]

\* Pairs of links between two layers whose ends are in opposite orders.
CountCrossings(g, order) ==
    Cardinality({pair \in (DOMAIN g.links) \X (DOMAIN g.links) :
        LET p == g.links[pair[1]]
            q == g.links[pair[2]]
        IN  /\ g.layer[p[1]] = g.layer[q[1]]
            /\ order[p[1]] < order[q[1]] /\ order[q[2]] < order[p[2]]})

Crossings(g, seats) == CountCrossings(g, OrderOf(g, seats))

\* Vertices without neighbours on that side keep their slot, the others are sorted by
\* the mean place of those neighbours.
Sorted(movable, near, order) ==
    LET pull(v) == FoldLeft(LAMBDA sum, w : sum + order[w], 0, near[v])
    IN  SetToSortSeq(ToSet(movable), LAMBDA a, b :
            LET x == pull(a) * Len(near[b])
                y == pull(b) * Len(near[a])
            IN  x < y \/ (x = y /\ order[a] < order[b]))

Resorted(free, near, order) ==
    LET moves(v) == near[v] # <<>>
        sorted   == Sorted(SelectSeq(free, moves), near, order)
    IN  [k \in DOMAIN free |-> IF moves(free[k])
                               THEN sorted[Len(SelectSeq(SubSeq(free, 1, k), moves))]
                               ELSE free[k]]

Reorder(g, seats, l, near) ==
    [seats EXCEPT ![l] = Seat(g, Resorted(SelectSeq(@, LAMBDA v : g.anchor[v] = 0),
                                          near, OrderOf(g, seats)))]

Sweep(g, seats) ==
    LET there == FoldLeft(LAMBDA s, l : Reorder(g, s, l, g.up), seats, [k \in 1 .. g.top |-> k])
    IN  FoldLeft(LAMBDA s, l : Reorder(g, s, l, g.down), there, [k \in 1 .. g.top |-> g.top - k])

\* The best order is kept; sweeping goes on from the last one until nothing gets better.
Compare(s, seats, now) ==
    IF now < s.best THEN [seats |-> seats, best |-> now, kept |-> seats, stale |-> 0]
    ELSE [s EXCEPT !.seats = seats, !.stale = @ + 1]

SweepStep(g, s) ==
    IF s.best = 0 \/ s.stale >= 4 THEN s
    ELSE LET seats == Sweep(g, s.seats) IN Compare(s, seats, Crossings(g, seats))

Swept(g, first) ==
    Turns(LAMBDA s : SweepStep(g, s),
          [seats |-> first, best |-> Crossings(g, first), kept |-> first, stale |-> 0], 12)

PinnedSlots(g, v) == g.anchor[v] # 0

\* Loop-backs keep their slot beside their node, and their node keeps its own.
Pinned(g, v) == g.anchor[v] # 0 \/ g.attached[v] # <<>>

CrossingsIfBefore(g, order, u, v) ==
    LET on(near) == Cardinality({pair \in (DOMAIN near[u]) \X (DOMAIN near[v]) :
                                    order[near[u][pair[1]]] > order[near[v][pair[2]]]})
    IN  on(g.up) + on(g.down)

Gain(g, order, u, v) ==
    IF Pinned(g, u) \/ Pinned(g, v) THEN 0
    ELSE CrossingsIfBefore(g, order, u, v) - CrossingsIfBefore(g, order, v, u)

Swap(s, l, i, gain) ==
    IF gain > 0
    THEN [seats |-> [s.seats EXCEPT ![l][i] = s.seats[l][i + 1], ![l][i + 1] = s.seats[l][i]],
          best |-> s.best - gain, improved |-> TRUE]
    ELSE s

TransposePass(g, s) ==
    LET places == FlattenSeq([k \in 1 .. g.top + 1 |->
                      [i \in 1 .. Len(s.seats[k - 1]) - 1 |-> <<k - 1, i>>]])
        step(t, at) == LET l == at[1]
                           i == at[2]
                       IN  Swap(t, l, i, Gain(g, OrderOf(g, t.seats), t.seats[l][i], t.seats[l][i + 1]))
    IN  IF s.improved THEN FoldLeft(step, [s EXCEPT !.improved = FALSE], places) ELSE s

Transposed(g, s) ==
    Turns(LAMBDA t : TransposePass(g, t),
          [seats |-> s.kept, best |-> s.best, improved |-> s.best > 0], 10)

Ordered(g) == Transposed(g, Swept(g, FirstSeats(g)))

-----------------------------------------------------------------------------
(* Coordinates along a layer, in half pixels, where the graph runs from    *)
(* the left to the right.                                                  *)

NodeHeight   == 2 * 44
NodeGap      == 2 * 14
LaneGap      == 2 * 13
SelfLoopRoom == 2 * 18

IsReal(g, v) == v \in g.nodes

HalfSize(g, v) == IF IsReal(g, v) THEN NodeHeight \div 2 ELSE 0

\* How far each member of a layer is from the one before it, at least.
Gaps(g, seat) ==
    [i \in DOMAIN seat |->
        IF i = 1 THEN 0
        ELSE HalfSize(g, seat[i - 1]) + HalfSize(g, seat[i])
             + (IF IsReal(g, seat[i - 1]) /\ IsReal(g, seat[i]) THEN NodeGap ELSE LaneGap)
             + (IF seat[i] \in g.selfLoop THEN SelfLoopRoom ELSE 0)]

Offsets(gap) == [i \in DOMAIN gap |-> FoldLeft(+, 0, SubSeq(gap, 1, i))]

\* Each layer starts as tight as it can be, around its middle.
FirstPos(g, seats) ==
    [v \in UNION {ToSet(seats[l]) : l \in DOMAIN seats} |->
        LET offset == Offsets(Gaps(g, seats[g.layer[v]]))
        IN  offset[SelectInSeq(seats[g.layer[v]], LAMBDA w : w = v)] - Last(offset) \div 2]

\* Blocks of neighbours that are as close as they may be, each with what pulls at it;
\* a block that is pulled below the one before it joins that one.
Pool(blocks) ==
    LET b == Last(blocks)
        a == Last(Front(blocks))
    IN  IF Len(blocks) = 1 \/ a.sum * b.total <= b.sum * a.total THEN blocks
        ELSE Append(Front(Front(blocks)),
                    [sum |-> a.sum + b.sum, total |-> a.total + b.total, count |-> a.count + b.count])

PushBlock(blocks, sum, weight) ==
    Turns(Pool, Append(blocks, [sum |-> sum, total |-> weight, count |-> 1]), Len(blocks))

\* Positions as near to the desired ones as the gaps allow: fractions sum / total.
PlaceWithGaps(desired, weight, gap) ==
    LET offset == Offsets(gap)
        blocks == FoldLeft(LAMBDA bs, i : PushBlock(bs, (desired[i] - offset[i]) * weight[i], weight[i]),
                           <<>>, [i \in DOMAIN gap |-> i])
        of     == FlattenSeq([b \in DOMAIN blocks |-> [k \in 1 .. blocks[b].count |-> blocks[b]]])
    IN  [i \in DOMAIN gap |-> [sum |-> of[i].sum + offset[i] * of[i].total, total |-> of[i].total]]

LinkWeight(g, a, b) ==
    CASE ~IsReal(g, a) /\ ~IsReal(g, b) -> 8
      [] IsReal(g, a) /\ IsReal(g, b)   -> 1
      [] OTHER                          -> 2

WeightOf(g, v, near) == FoldLeft(LAMBDA sum, w : sum + LinkWeight(g, v, w), 0, near[v])
PullOf(g, v, near, pos) == FoldLeft(LAMBDA sum, w : sum + LinkWeight(g, v, w) * pos[w], 0, near[v])

\* Where the members of a layer would like to be, times unit: at the mean of their
\* neighbours on that side; or where they are; a loop-back's end beside its node.
Desired(g, seat, gap, near, pos, unit) ==
    LET wish[i \in DOMAIN seat] ==
            LET v == seat[i]
                w == WeightOf(g, v, near)
            IN  IF g.anchor[v] # 0 /\ i > 1 THEN wish[i - 1] + unit * gap[i]
                ELSE IF w > 0 THEN (unit \div w) * PullOf(g, v, near, pos)
                ELSE unit * pos[v]
    IN  wish

\* In quarters.
Weights(g, seat, near) ==
    [i \in DOMAIN seat |->
        LET w == WeightOf(g, seat[i], near)
        IN  IF g.anchor[seat[i]] # 0 /\ i > 1 THEN 4 ELSE IF w > 0 THEN 4 * w ELSE 1]

\* A number that every weight of the layer divides.
Unit(g, seat, near) ==
    LET weights == {WeightOf(g, v, near) : v \in ToSet(seat)} \ {0}
    IN  CHOOSE u \in 1 .. 5040 : \A w \in weights : u % w = 0

Settled(desired, weight, gap, unit) ==
    [desired |-> desired, weight |-> weight, gap |-> gap, unit |-> unit,
     at |-> PlaceWithGaps(desired, weight, [i \in DOMAIN gap |-> unit * gap[i]])]

SettledSeats(g, seat, near, pos) ==
    LET unit == Unit(g, seat, near)
        gap  == Gaps(g, seat)
    IN  Settled(Desired(g, seat, gap, near, pos, unit), Weights(g, seat, near), gap, unit)

-----------------------------------------------------------------------------
(* Strokes, from one vertex to another; the dot where the edges into a     *)
(* join meet is - t for the node t.  A stroke that ends at a node has the  *)
(* arrow.                                                                  *)

Incoming(edges, t) == {i \in DOMAIN edges : edges[i].t = t}
IsJoin(edges, t)   == Cardinality(Incoming(edges, t)) > 1
Landing(edges, t)  == IF IsJoin(edges, t) THEN - t ELSE t

Stroke(kind, riders, from, to) == [kind |-> kind, edges |-> riders, from |-> from, to |-> to]

\* The edges of a node share what they share of its lane.
Trunks(g, forward) ==
    {Stroke("trunk", {i \in forward : Contains(g.chain[i], p[2])}, p[1], p[2]) :
        p \in UNION {ToSet(Pairs(g.chain[i])) : i \in forward}}

Strokes(g) ==
    LET forward  == {i \in DOMAIN g.edges : ~g.edges[i].feedback}
        land(i)  == Landing(g.edges, g.edges[i].t)
    IN  Trunks(g, forward)
        \cup {Stroke("branch", {i}, Last(g.chain[i]), land(i)) : i \in forward}
        \cup {Stroke("loop", {i}, g.edges[i].s, land(i)) : i \in DOMAIN g.edges \ forward}
        \cup {Stroke("stem", Incoming(g.edges, t), - t, t) : t \in {n \in g.nodes : IsJoin(g.edges, n)}}

-----------------------------------------------------------------------------
(* The layout as a whole. *)

Drawn(g, o) ==
    [graph |-> g, seats |-> o.seats, crossings |-> o.best, strokes |-> Strokes(g),
     settled |-> IF g.top = 0 THEN Settled(<<>>, <<>>, <<>>, 1)
                 ELSE SettledSeats(g, o.seats[1], g.up, FirstPos(g, o.seats))]

LayoutOf(g) == Drawn(g, Ordered(g))

LayoutWith(sub, feedback) ==
    LayoutOf(LaneGraph(sub, LayersOf(sub, Inward(sub, feedback)), WorkEdges(sub, feedback)))

Layout(sub) == LayoutWith(sub, Reversed(sub))
=============================================================================
