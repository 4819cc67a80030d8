----------------------------- MODULE Admission -----------------------------
(***************************************************************************)
(* What Commons lets in: the histories that grow under the admission rules *)
(* of Semantic, which is AppendLog without the file system under it, and   *)
(* beside them the plans that the plan contracts accept.                   *)
(***************************************************************************)
EXTENDS Semantic, Plans

CONSTANTS
    ObligationPlans,     \* the obligation plans that are handed in
    VerificationPlans,   \* the verification plans that are handed in
    PlanSource,          \* the identity of the source file as it is
    TestInventory,       \* the tests there are
    MaxHistory           \* bound on the length of a history

VARIABLES
    history,   \* the admitted entries
    plan       \* the plan that was accepted, <<>> while there is none

History == INSTANCE AppendLog

Admit ==
    /\ Len(history) < MaxHistory /\ plan = <<>>
    /\ \/ History!CommitSnapshot /\ Snapshot \notin Elements(history)
       \/ \E x \in Entries : History!Commit(x)
    /\ UNCHANGED plan

AcceptObligationPlan ==
    /\ history = <<>> /\ plan = <<>>
    /\ \E p \in ObligationPlans : ValidObligationPlan(p) /\ plan' = <<"obligations", p>>
    /\ UNCHANGED history

AcceptPlan ==
    /\ history = <<>> /\ plan = <<>>
    /\ \E p \in VerificationPlans :
          ValidPlan(p, PlanSource, TestInventory) /\ plan' = <<"verification", p>>
    /\ UNCHANGED history

AdmissionInit == History!Init /\ plan = <<>>

AdmissionNext == Admit \/ AcceptPlan \/ AcceptObligationPlan

AdmissionSpec == AdmissionInit /\ [][AdmissionNext]_<<history, plan>>

-----------------------------------------------------------------------------
Following(edges, from) == {e[2] : e \in {f \in edges : f[1] \in from}}

\* The records that relations lead to from r; a chain without repetition is no
\* longer than there are records that a relation leaves.
Descendants(edges, r) ==
    LET last == Cardinality({e[1] : e \in edges})
        after[n \in 0..last] ==
          IF n = 0 THEN Following(edges, {r})
          ELSE after[n - 1] \cup Following(edges, after[n - 1])
    IN  after[last]

\* "supersedes and depends_on relationships must remain acyclic"
\* (semantic.py): no record reaches itself, although a relation by logical id
\* moves to each later revision of its target.
RelationsAcyclic ==
    \A r \in RecordsIn(history) : r \notin Descendants(RelationEdges(history), r)

\* An obligation plan of a repository that may stop rests on a passing result for
\* each declared obligation, of this state of this repository and of what the
\* obligation names, and on no other result of it; the evidence of another repository,
\* an older state or another definition never counts (obligation_plan.py).
StopIsProven ==
    plan # <<>> /\ plan[1] = "obligations" /\ plan[2].stop.sufficient
      /\ plan[2].repository.scope # NoIdentity =>
        \A o \in ToSet(plan[2].repository.required) :
            /\ o \in ToSet(plan[2].stop.required) \cap DOMAIN plan[2].obligations
            /\ {e.status : e \in {x \in plan[2].evidence :
                                   /\ x.obligation = o
                                   /\ x.repository = plan[2].repository.identity
                                   /\ x.fingerprint = plan[2].repository.fingerprint
                                   /\ x.bound = plan[2].obligations[o].bound}} = {"PASS"}

\* A verification plan that claims an established proof never leaves out the
\* consumers it routes to: it asks for their proofs, and it never claims the family
\* (verification_plan.py).
ProofCoversRouting ==
    plan # <<>> /\ plan[1] = "verification" /\ plan[2].established =>
        /\ plan[2].claimed # "family"
        /\ plan[2].repositories # {} =>
              /\ plan[2].claimed = "selected_repositories"
              /\ "selected_consumer_proofs_pass" \in plan[2].evidence

\* Whatever the parts of an accepted plan say, the proof it claims is backed: by
\* the evidence of each obligation, and by the consumers it routes to.
PlansBacked == StopIsProven /\ ProofCoversRouting
=============================================================================
