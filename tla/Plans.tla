-------------------------------- MODULE Plans --------------------------------
(***************************************************************************)
(* The two plan contracts that Commons checks for the planner, which is    *)
(* outside it: verification plans (verification_plan.py: how far a change  *)
(* is verified, and what proof that would be) and obligation plans         *)
(* (obligation_plan.py: which declared obligations, with which evidence,   *)
(* allow to stop).  A document that breaks a rule is refused.              *)
(*                                                                         *)
(* Identities are model values.  The canonical identity of a document is   *)
(* recomputed by the check, so a document here is one whose identity fits; *)
(* NoIdentity stands for a field that is absent.                           *)
(***************************************************************************)
EXTENDS Naturals, FiniteSets, Sequences, SequencesExt

CONSTANT NoIdentity      \* an absent optional field (None)

Canonical == "repository_canonical"

-----------------------------------------------------------------------------
\* obligation_plan.py.  A plan is a record
\*   [repository  |-> [scope, identity, fingerprint, complete, required, selected,
\*                     missing], scope NoIdentity without a repository object,
\*    obligations |-> obligation identity -> [scope, status, bound, executor],
\*    evidence    |-> set of [obligation, repository, fingerprint, bound, status],
\*    stop        |-> [sufficient, required]]
\* where bound stands for the identities of the subject, definition, executor,
\* verifier and invalidation, which are compared one by one.

MaxTimeoutSeconds == 3600

\* _validate_executor: a bounded timeout, one set of grants for a test, and one
\* grant for a capability and locator.  grants is a sequence of
\* [test, grants], the latter a sequence of keys.
ValidExecutor(executor) ==
    executor # NoIdentity =>
        /\ executor.timeout \in 1..MaxTimeoutSeconds
        /\ IsInjective([i \in DOMAIN executor.grants |-> executor.grants[i].test])
        /\ \A i \in DOMAIN executor.grants :
              executor.grants[i].grants # <<>> /\ IsInjective(executor.grants[i].grants)

\* The repository object: what it says is missing is what is required and not
\* selected, and a complete closure selects the required list.
ValidRepository(r) ==
    r.scope # NoIdentity =>
        /\ r.scope \in {"source_module", Canonical}
        /\ IsInjective(r.required) /\ IsInjective(r.selected) /\ IsInjective(r.missing)
        /\ ToSet(r.missing) = ToSet(r.required) \ ToSet(r.selected)
        /\ r.complete => r.missing = <<>> /\ r.required = r.selected

\* exact_evidence: the evidence of an obligation that is bound to this repository
\* and to what the obligation names.
ExactEvidence(plan, id) ==
    {e \in plan.evidence :
        /\ e.obligation = id
        /\ e.repository = plan.repository.identity
        /\ e.fingerprint = plan.repository.fingerprint
        /\ e.bound = plan.obligations[id].bound}

\* Mutant of CurrentBacked: one passing result is enough.
CurrentBackedBySome(plan, id) ==
    plan.obligations[id].status = "current" =>
        \E e \in ExactEvidence(plan, id) : e.status = "PASS"

\* EVIDENCE_STALE: a current obligation has exact evidence, all of it PASS.
CurrentBacked(plan, id) ==
    plan.obligations[id].status = "current" =>
        /\ ExactEvidence(plan, id) # {}
        /\ \A e \in ExactEvidence(plan, id) : e.status = "PASS"

\* What a plan for the whole repository must show.
ValidClosure(plan) ==
    LET r == plan.repository
        stop == plan.stop
        declared == DOMAIN plan.obligations
    IN  /\ stop.sufficient => r.complete
        /\ ToSet(r.required) = ToSet(stop.required)
        /\ stop.sufficient => ToSet(r.selected) = ToSet(stop.required)
        /\ {id \in declared : plan.obligations[id].scope = Canonical} = ToSet(r.selected)
        /\ \A id \in ToSet(stop.required) :
              \/ id \notin declared /\ id \in ToSet(r.missing) /\ ~r.complete
              \/ /\ id \in declared
                 /\ plan.obligations[id].scope = Canonical
                 /\ CurrentBacked(plan, id)
        /\ stop.sufficient =>
              \A id \in ToSet(stop.required) : plan.obligations[id].status = "current"

\* A plan of a source module never stops, and obligations of the repository let a
\* plan stop only through a repository object.
ValidElsewhere(plan) ==
    plan.stop.sufficient =>
        /\ plan.repository.scope = NoIdentity
        /\ \A id \in DOMAIN plan.obligations : plan.obligations[id].scope # Canonical

ValidObligationPlan(plan) ==
    /\ ValidRepository(plan.repository)
    /\ \A id \in DOMAIN plan.obligations : ValidExecutor(plan.obligations[id].executor)
    /\ IsInjective(plan.stop.required)
    /\ IF plan.repository.scope = Canonical THEN ValidClosure(plan) ELSE ValidElsewhere(plan)

-----------------------------------------------------------------------------
\* verification_plan.py.  A plan is a record
\*   [source, impact |-> [complete, edges, consumers, cross],
\*    level, routing, repositories, known, tests, available, reasons,
\*    evidence, claimed, established, stop, sufficient]:
\* edges are the consumers that the cross-repository edges name, consumers the
\* repositories that the impact lists, cross whether that graph is complete; known
\* is the number of repositories there are to select from.

RoutingScopes == {"local", "selected_repositories", "family"}

Levels == {"changed_item", "direct_dependents", "affected_subsystem", Canonical, "family"}

\* _cross_repository: the impact lists the consumers that its edges name.
ValidCross(plan) == plan.impact.edges = plan.impact.consumers

\* Plans from before routing_scope are read by level and repositories.
Routing(plan) ==
    IF plan.routing # NoIdentity THEN plan.routing
    ELSE CASE plan.level # "family" -> "local"
           [] plan.level = "family" /\ plan.repositories # {} -> "selected_repositories"
           [] OTHER -> "family"

ValidSelection(plan) ==
    /\ plan.level \in Levels
    /\ Cardinality(plan.tests) <= plan.available
    /\ Cardinality(plan.repositories) <= plan.known
    /\ Routing(plan) \in RoutingScopes
    /\ Routing(plan) = "local" => plan.repositories = {}
    /\ Routing(plan) = "selected_repositories" => plan.repositories # {}
    /\ Routing(plan) = "family" => plan.level = "family"

ExpectedScope(plan) ==
    CASE Routing(plan) = "selected_repositories" -> "selected_repositories"
      [] Routing(plan) # "selected_repositories" /\ plan.level = Canonical -> "repository"
      [] OTHER -> plan.level

\* The proof that is claimed is the one the selection can give.
ValidProof(plan) ==
    /\ plan.stop \in plan.evidence
    /\ plan.claimed = ExpectedScope(plan)
    /\ plan.established = plan.sufficient
    /\ plan.level = "family" => ~plan.sufficient
    /\ plan.level = "family" /\ Routing(plan) = "family" =>
          "family_verification_pass" \in plan.evidence
    /\ Routing(plan) = "selected_repositories" =>
          "selected_consumer_proofs_pass" \in plan.evidence

\* COMPLETENESS_REASON_MISSING.
ReasonsGiven(plan) ==
    /\ ~plan.impact.complete =>
          plan.reasons \cap {"impact_evidence_truncated", "unknown_changed_identity"} # {}
    /\ ~plan.impact.cross /\ "cross_repository_contract_changed" \in plan.reasons =>
          "cross_repository_graph_incomplete" \in plan.reasons

\* The optional checks against the source file and the inventory of tests, as they
\* are when the plan is read; a reader who passes none is not bound.
BoundTo(plan, source, inventory) ==
    /\ source # NoIdentity => plan.source = source
    /\ inventory # NoIdentity => /\ plan.tests \subseteq inventory
                                /\ plan.available = Cardinality(inventory)

ValidPlan(plan, source, inventory) ==
    /\ ValidCross(plan)
    /\ ValidSelection(plan)
    /\ ValidProof(plan)
    /\ ReasonsGiven(plan)
    /\ BoundTo(plan, source, inventory)
=============================================================================
