---------------------------- MODULE MCPublicNode ----------------------------
(***************************************************************************)
(* An instance of PublicNode for TLC: one client follows the node, one     *)
(* publishes and reads, and one local process writes to the same store.    *)
(***************************************************************************)
EXTENDS PublicNode, TLC

CONSTANTS c1, c2

MCSourceOf == c1 :> "proxy" @@ c2 :> "direct"

\* Two revisions of one record; the second one is larger.
MCRevision == <<1, 2>>
MCPrevious == <<None, 1>>
MCLogical == <<"finding", "finding">>
MCSize == 1 :> 1 @@ 2 :> 2 @@ 9 :> 1
MCLinks == {<<2, 1>>}

Request(route, record, limit, size, headers) ==
    [route |-> route, record |-> record, limit |-> limit, size |-> size, headers |-> headers]

MCRequestsOf ==
    c1 :> {Request("sync", None, 2, 1, "fine")} @@
    c2 :> {Request("publish", 1, None, 2, "fine"), Request("publish", 2, None, 1, "fine"),
           Request("experiment", None, None, 1, "fine"), Request("query", None, 2, 1, "fine")}

MCPolicies == {{1}}

MCWindow == [read |-> 1, write |-> 1]

\* Reads meet the limit of their source first, writes the one of the node.
MCSourceLimit == [read |-> 1, write |-> 2]
MCGlobalLimit == [read |-> 2, write |-> 1]

-----------------------------------------------------------------------------
\* The other client publishes to a node that takes publications, beside one write of
\* the local process, and reads from one that does not, which the local process fills.
Does(c, q) == c = c1 \/ (mode = "read-only" <=> Kind(q) = "read")

MCNext ==
    \/ \E c \in Clients :
          Handle(c) \/ GiveUp(c) \/ \E q \in RequestsOf[c] : Does(c, q) /\ Send(c, q)
    \/ \E e \in Records \cup Events : (mode = "read-only" \/ locals = 0) /\ LocalAdd(e)
    \/ \E d \in Records : SetPolicy(d)
    \/ Tick \/ Restart

MCSpec == Init /\ [][MCNext]_vars /\ Progress
=============================================================================
