---------------------------- MODULE MCAdmission ----------------------------
(***************************************************************************)
(* An instance of Admission for TLC: records with relations and producer   *)
(* references, lifecycle events in two trust domains, and plans whose      *)
(* parts disagree.  Beside it, the answers of bounded_graph over the       *)
(* relations of each history.                                              *)
(***************************************************************************)
EXTENDS Admission, Traversal

Rec(id, rev, prev, links, refs) ==
    [id |-> id, rev |-> rev, prev |-> prev, links |-> links, mentions |-> {}, refs |-> refs]

Ref(meta, digest) == [stable |-> "S", meta |-> meta, digest |-> digest]

Ev(target, domain, padded, from, to) ==
    [target |-> target, domain |-> domain, padded |-> padded, from |-> from, to |-> to]

\* a2 points at the logical record B, whose later revision points back at A.
MCAttr ==
    [a1 |-> Rec("A", 1, NoDigest, {}, <<Ref("m1", NoDigest)>>),
     a2 |-> Rec("A", 2, "a1", {"B", "a1"}, <<>>),
     b1 |-> Rec("B", 1, NoDigest, {}, <<Ref("m1", "d1")>>),
     b2 |-> Rec("B", 2, "b1", {"A"}, <<>>),
     c1 |-> Rec("C", 1, NoDigest, {}, <<Ref("m2", NoDigest)>>),
     e1 |-> Ev("a1", "dom", FALSE, "proposed", "disputed"),
     e2 |-> Ev("a1", "dom", FALSE, "proposed", "withdrawn"),
     e3 |-> Ev("a1", "dom", TRUE, "proposed", "expired"),
     e4 |-> Ev("a1", "dom", FALSE, "disputed", "superseded"),
     e5 |-> Ev("a1", "other", FALSE, "proposed", "rejected")]

Obligations == {"o1", "o2"}

Executor(test1, test2) ==
    [timeout |-> 60,
     grants |-> <<[test |-> test1, grants |-> <<"read">>], [test |-> test2, grants |-> <<"read">>]>>]

\* What a plan says of an obligation.
Selected ==
    [scope : {"local", Canonical}, status : {"current"}, bound : {"b"}, executor : {NoIdentity}]
      \cup {[scope |-> Canonical, status |-> "stale", bound |-> "b", executor |-> Executor("t1", "t2")],
            [scope |-> Canonical, status |-> "current", bound |-> "b", executor |-> Executor("t1", "t1")]}

\* Evidence of an obligation: none, PASS or both results of this repository, and
\* a PASS of another repository, of another state of it or of another definition.
EvidenceOf(o) ==
    LET E(repository, fingerprint, bound, status) ==
          [obligation |-> o, repository |-> repository, fingerprint |-> fingerprint,
           bound |-> bound, status |-> status]
    IN  {{}, {E("repo", "fp", "b", "PASS")},
         {E("repo", "fp", "b", "PASS"), E("repo", "fp", "b", "FAIL")},
         {E("fork", "fp", "b", "PASS")}, {E("repo", "old", "b", "PASS")},
         {E("repo", "fp", "c", "PASS")}}

Lists == {<<>>, <<"o1">>, <<"o1", "o2">>}

Repositories ==
    [scope : {NoIdentity, "source_module", Canonical}, identity : {"repo"}, fingerprint : {"fp"},
     complete : BOOLEAN, required : Lists, selected : Lists \cup {<<"o2", "o1">>},
     missing : {<<>>, <<"o2">>}]

MCObligationPlans ==
    [repository : {r \in Repositories : ValidRepository(r)},
     stop : [sufficient : BOOLEAN, required : Lists],
     obligations : UNION {[S -> Selected] : S \in SUBSET Obligations},
     evidence : {e1 \cup e2 : e1 \in EvidenceOf("o1"), e2 \in EvidenceOf("o2")}]

ClaimedScopes == {"changed_item", "repository", "selected_repositories", "family"}

Reasons ==
    {{}, {"unknown_changed_identity"}, {"cross_repository_contract_changed"},
     {"impact_evidence_truncated", "cross_repository_contract_changed",
      "cross_repository_graph_incomplete"}}

RequiredEvidence == {"selected_consumer_proofs_pass", "family_verification_pass"}

Impacts ==
    [complete : BOOLEAN, edges : SUBSET {"C"}, consumers : {{"C"}}, cross : BOOLEAN]

MCVerificationPlans ==
    [source : {"now", "old"}, level : {"changed_item", Canonical, "family"},
     routing : {NoIdentity, "local", "selected_repositories", "family", "unknown"},
     impact : Impacts, repositories : SUBSET {"C"}, known : {0, 1},
     tests : {{"t1"}}, available : {1, 2},
     reasons : Reasons, evidence : SUBSET RequiredEvidence, stop : RequiredEvidence,
     claimed : ClaimedScopes, established : BOOLEAN, sufficient : BOOLEAN]

MCTestInventory == {"t1", "t2"}

-----------------------------------------------------------------------------
Number == [a1 |-> 3, a2 |-> 1, b1 |-> 5, b2 |-> 2, c1 |-> 4]

\* bounded_graph of query.py: the answer has no record twice and the closest
\* first; it is all that the depth reaches, or says truncated and is as long as
\* the limit lets it be.
AnswersBounded ==
    LET links == {<<Number[e[1]], Number[e[2]]>> : e \in RelationEdges(history)}
    IN  \A r \in RecordsIn(history), depth \in 0..3, limit \in 1..4 :
          LET g == BoundedGraph(links, {Number[r]}, depth, limit)
              near == Within(links, {Number[r]}, depth)
          IN  /\ IsInjective(g.selected)
              /\ ToSet(g.selected) \subseteq near
              /\ g.truncated <=> Cardinality(near) > limit
              /\ Len(g.selected) = IF g.truncated THEN limit ELSE Cardinality(near)
              /\ \A d \in 0..depth, i, j \in DOMAIN g.selected :
                    i < j /\ g.selected[j] \in Within(links, {Number[r]}, d) =>
                        g.selected[i] \in Within(links, {Number[r]}, d)
=============================================================================
