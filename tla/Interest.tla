------------------------------ MODULE Interest ------------------------------
(***************************************************************************)
(* The interest projections of src/mncs_commons/mesh/interest.py and the   *)
(* capsules of mesh/capsule.py.  A record is given by what the projections *)
(* read of it:                                                             *)
(*   [kind, projects, contracts, producer, outcomes, relations, labels,    *)
(*    open]                                                                *)
(* and a filter by the sets it names in each dimension and its two flags.  *)
(***************************************************************************)
EXTENDS Integers, FiniteSets

\* KIND_ORDER: the closed vocabulary; a record of another kind stays inert.
KnownKinds == {"Finding", "Claim", "Replication", "Observation", "Question", "WorkRequest"}

PromotionStates == {"reproduced", "verified", "accepted"}

ReplicationRelations == {"replicates", "failed_to_replicate", "verifies"}

\* InterestFilter.match_all.
MatchAll ==
    [kinds |-> {}, projects |-> {}, contracts |-> {}, producers |-> {}, outcomes |-> {},
     states |-> {}, relations |-> {}, labels |-> {}, ids |-> {}, openWork |-> FALSE,
     promotion |-> FALSE]

\* _projected_outcome_discriminant: the strongest outcome that is asserted.
ProjectedOutcome(record) ==
    IF "PASS" \in record.outcomes THEN {"PASS"}
    ELSE IF "FAIL" \in record.outcomes THEN {"FAIL"}
    ELSE record.outcomes \cap {"UNKNOWN"}

\* mirror_dim, over the projection of one dimension.
Admitted(wanted, offered) == wanted = {} \/ wanted \cap offered # {}

\* _is_promotion_relevant.
PromotionRelevant(record, state) ==
    state \in PromotionStates \/ record.relations \cap ReplicationRelations # {}

\* What a record offers in each dimension of a filter: _record_projects and the
\* other projections.
Offered(record, state) ==
    [kinds |-> {record.kind} \cap KnownKinds, projects |-> record.projects,
     contracts |-> record.contracts, producers |-> {record.producer},
     outcomes |-> ProjectedOutcome(record), states |-> {state},
     relations |-> record.relations, labels |-> record.labels]

\* mirror_matches_full over project_full_args: a named identity always matches,
\* else every dimension that the filter restricts has to.
Matches(digest, record, interest, state) ==
    LET offered == Offered(record, state)
    IN  \/ digest \in interest.ids
        \/ /\ \A dimension \in DOMAIN offered : Admitted(interest[dimension], offered[dimension])
           /\ interest.openWork => record.kind = "WorkRequest" /\ record.open
           /\ interest.promotion => PromotionRelevant(record, state)

\* Mutant of CapsuleRecord: what a capsule does not carry is taken to match.
CapsuleRecordOpen(record) ==
    [record EXCEPT !.contracts = {}, !.outcomes = {"PASS"}, !.labels = {}, !.open = TRUE]

\* compose_capsule, and the pseudo record that assess_capsule and the relay's pull
\* read back from it: contracts, evidence, labels and details are not carried.
CapsuleRecord(record) ==
    [record EXCEPT !.contracts = {}, !.outcomes = {}, !.labels = {}, !.open = FALSE]

\* assess_capsule: is the record worth retaining?
RetainCandidate(digest, record, interest, known) ==
    digest \notin known /\ Matches(digest, CapsuleRecord(record), interest, "none")
=============================================================================
