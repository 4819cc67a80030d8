------------------------------ MODULE Traversal ------------------------------
(***************************************************************************)
(* bounded_graph of query.py: the records around some roots, along typed   *)
(* relationships in both directions, within a depth and a number of nodes. *)
(* A record is the number of its digest in the order of digests.           *)
(***************************************************************************)
EXTENDS Naturals, Sequences, FiniteSets, SequencesExt

Sorted(nodes) == SetToSortSeq(nodes, LAMBDA a, b : a < b)

\* adjacency: the resolved relationships, either way.
Neighbours(links, n) == {l[2] : l \in {k \in links : k[1] = n}}
                          \cup {l[1] : l \in {k \in links : k[2] = n}}

\* What is at most depth relationships away from the roots.
Within(links, roots, depth) ==
    LET at[d \in 0..depth] ==
          IF d = 0 THEN roots ELSE at[d - 1] \cup UNION {Neighbours(links, n) : n \in at[d - 1]}
    IN  at[depth]

Queued(nodes, depth) == [i \in DOMAIN nodes |-> [node |-> nodes[i], depth |-> depth]]

\* Mutant of Visit: a node that is in the queue twice is selected twice.
VisitAgain(links, depth, limit, t) ==
    IF t.queue = <<>> \/ t.truncated THEN t
    ELSE LET item == Head(t.queue)
             rest == [t EXCEPT !.queue = Tail(@)]
         IN  IF Len(t.selected) >= limit THEN [t EXCEPT !.truncated = TRUE]
             ELSE [rest EXCEPT
                     !.selected = Append(@, item.node),
                     !.queue = IF item.depth < depth
                               THEN @ \o Queued(Sorted(Neighbours(links, item.node)), item.depth + 1)
                               ELSE @]

\* One round of the loop: nodes that were seen are skipped, and the first node that
\* is beyond the limit ends it.
Visit(links, depth, limit, t) ==
    IF t.queue = <<>> \/ t.truncated THEN t
    ELSE LET item == Head(t.queue)
             rest == [t EXCEPT !.queue = Tail(@)]
         IN  CASE item.node \in Range(t.selected) -> rest
               [] item.node \notin Range(t.selected) /\ Len(t.selected) >= limit ->
                    [t EXCEPT !.truncated = TRUE]
               [] OTHER ->
                    [rest EXCEPT
                       !.selected = Append(@, item.node),
                       !.queue = IF item.depth < depth
                                 THEN @ \o Queued(Sorted(Neighbours(links, item.node)), item.depth + 1)
                                 ELSE @]

\* A round takes one item from the queue; a node is expanded once.
Rounds(links, roots) == Cardinality(roots) + 2 * Cardinality(links)

BoundedGraph(links, roots, depth, limit) ==
    FoldLeft(LAMBDA t, i : Visit(links, depth, limit, t),
             [queue |-> Queued(Sorted(roots), 0), selected |-> <<>>, truncated |-> FALSE],
             [i \in 1..Rounds(links, roots) |-> i])
=============================================================================
