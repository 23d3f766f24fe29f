-------------------------- MODULE MCWorkflowLedgers --------------------------
EXTENDS WorkflowLedgers
Of(n, s, preds) == [node |-> n, paper |-> 1, status |-> s, preds |-> preds]
\* No rows; every graph of three nodes; every graph of four nodes that is without loops
\* at a node; and graphs of six nodes, with one edge back or none, in which edges cross
\* until neighbours are swapped: each node with a row of its own.
MCLedger(preds) ==
    [p \in PaperId |-> IF p = 1 THEN [n \in DOMAIN preds |-> Of(n, "preliminary", preds[n])] ELSE <<>>]
MCCrossing == {<<{}, {}, {1, 2}, {3}, {4}, {1, 3, 4}>>, <<{}, {}, {}, {1, 2, 3}, {1, 2, 3, 4}, {4}>>,
               <<{}, {}, {2}, {2, 3}, {1, 4}, {3, 4, 5}>>, <<{}, {}, {}, {2, 3}, {1, 3}, {1, 2}>>}
MCBack == {[f EXCEPT ![n] = @ \cup p] : f \in MCCrossing, n \in 1 .. 6,
               p \in {{}, {4}, {5}, {6}}}
MCStarts == {[p \in PaperId |-> <<>>]}
    \cup {MCLedger(preds) : preds \in [1 .. 3 -> SUBSET (1 .. 3)]}
    \cup {MCLedger(preds) : preds \in {f \in [1 .. 4 -> SUBSET (1 .. 4)] : \A n \in 1 .. 4 : n \notin f[n]}}
    \cup {MCLedger(preds) : preds \in MCBack}
\* Node 2 waits for node 1, which has rows of both papers and waits for node 3,
\* a ghost or retired.
MCRows == {[node |-> n, paper |-> p, status |-> s, preds |-> IF s = "solid" THEN {} ELSE {3}] :
              n \in {1}, p \in PaperId, s \in Status}
          \cup {Of(2, s, {1}) : s \in Status \ {"amended"}}
          \cup {Of(3, "retired", {})}
MCTrials == {[node |-> 3, outcome |-> o] : o \in Outcome}
=============================================================================
