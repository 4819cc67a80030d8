------------------------------ MODULE Semantic ------------------------------
(***************************************************************************)
(* What the store admits: the checks of src/mncs_commons/semantic.py on a  *)
(* record, and of CommonsStore.add_event on a lifecycle event, against the *)
(* payloads that the ledger already holds.                                 *)
(*                                                                         *)
(* Records and Events are sets of content digests.  Attr maps a digest to  *)
(* the fields the checks read:                                             *)
(*   record: [id, rev, prev, links, mentions, refs]  logical id, revision, *)
(*           previousDigest, targets of supersedes/depends_on relations    *)
(*           and of the other relations and replications (digests or       *)
(*           logical ids), and the sequence of producer references         *)
(*           [stable, meta, digest];                                       *)
(*   event:  [target, domain, padded, from, to], see Lifecycle.            *)
(* A history is a sequence of digests and Snapshot markers.                *)
(***************************************************************************)
EXTENDS Lifecycle, FiniteSets

CONSTANTS
    Records,      \* content digests of records
    Events,       \* content digests of lifecycle events
    Attr,         \* digest -> the fields above
    NoDigest,     \* an absent digest (None)
    Snapshot      \* the payload of an operator snapshot row

ASSUME EntryAssumption ==
    /\ Records \cap Events = {}
    /\ Snapshot \notin Records \cup Events
    /\ \A r \in Records : Attr[r].rev \in Nat

Entries  == Records \cup Events
Payloads == Entries \cup {Snapshot}

Elements(history) == {history[i] : i \in 1..Len(history)}

\* _payloads_from_rows(rows, "record").
RecordsIn(history) == Elements(history) \cap Records

-----------------------------------------------------------------------------
\* record_semantic_diagnostics

SameLogicalId(r, history) == {x \in RecordsIn(history) : Attr[x].id = Attr[r].id}

Latest(rs) == CHOOSE x \in rs : \A y \in rs : Attr[y].rev <= Attr[x].rev

\* Mutant of NextRevision: the successor of any stored revision is let in.
NextRevisionOfAny(r, history) ==
    LET same == SameLogicalId(r, history)
    IN  same # {} => \E x \in same : Attr[r].rev = Attr[x].rev + 1 /\ Attr[r].prev = x

\* REVISION_REQUIRED: a changed logical record is the next revision of the
\* latest one and names it.  The first record of a logical id is not checked.
NextRevision(r, history) ==
    LET same == SameLogicalId(r, history)
    IN  same # {} => /\ Attr[r].rev = Attr[Latest(same)].rev + 1
                     /\ Attr[r].prev = Latest(same)

\* reference_bindings: a stable id is bound by the first reference that carries
\* it, in ledger order and then in the order of the record (setdefault keeps
\* that one, with or without a digest).
ReferencePositions(stable, history) ==
    LET Of(i) == IF history[i] \in Records THEN Attr[history[i]].refs ELSE <<>>
    IN  UNION {{<<i, k>> : k \in {n \in 1..Len(Of(i)) : Of(i)[n].stable = stable}} :
               i \in 1..Len(history)}

Binding(stable, history) ==
    LET at == ReferencePositions(stable, history)
        first == CHOOSE a \in at :
                   \A b \in at : a[1] < b[1] \/ (a[1] = b[1] /\ a[2] <= b[2])
    IN  Attr[history[first[1]]].refs[first[2]]

\* PRODUCER_REFERENCE_CONFLICT and PRODUCER_DIGEST_CONFLICT: every reference of
\* the record agrees with what its stable id is bound to.
ReferencesAgree(r, history) ==
    \A k \in 1..Len(Attr[r].refs) :
        LET f == Attr[r].refs[k]
            b == Binding(f.stable, Append(history, r))
        IN  /\ b.meta = f.meta
            /\ NoDigest \in {b.digest, f.digest} \/ b.digest = f.digest

\* SELF_RELATION and SELF_REPLICATION.
NoSelfRelation(r) == (Attr[r].links \cup Attr[r].mentions) \cap {r, Attr[r].id} = {}

\* The last record in a history that carries a logical id.
LastOf(id, history) ==
    LET at == {i \in 1..Len(history) :
                 history[i] \in Records /\ Attr[history[i]].id = id}
    IN  history[CHOOSE i \in at : \A j \in at : j <= i]

\* _relation_edges: a target is a digest, or a logical id that stands for the
\* last record carrying it; an unknown target is no edge.
RelationEdges(history) ==
    LET recs == RecordsIn(history)
        ids == {Attr[x].id : x \in recs}
    IN  {e \in recs \X recs :
           \/ e[2] \in Attr[e[1]].links
           \/ \E id \in Attr[e[1]].links \cap ids : e[2] = LastOf(id, history)}

\* Mutant of HasCycle: only a loop of one edge is found.
HasLoop(edges) == \E e \in edges : e[1] = e[2]

\* _has_cycle: some nodes each have a successor among them.
HasCycle(edges) ==
    LET nodes == {e[1] : e \in edges}
    IN  \E S \in (SUBSET nodes) \ {{}} : \A n \in S : \E m \in S : <<n, m>> \in edges

RecordAdmitted(r, history) ==
    /\ NextRevision(r, history)
    /\ ReferencesAgree(r, history)
    /\ NoSelfRelation(r)
    /\ ~HasCycle(RelationEdges(Append(history, r)))

-----------------------------------------------------------------------------
\* The dispositions of a record in a trust domain.

\* The disposition after one more payload x, which moves it if x is an event of
\* the target and the domain and is a valid transition (validate_transition).
AfterPayload(state, x, target, domain) ==
    IF /\ x \in Events
       /\ Attr[x].target = target
       /\ Attr[x].domain = domain
       /\ ValidTransition(state, Attr[x])
    THEN Attr[x].to
    ELSE state

\* Mutant of DeriveForDomain: an event applies whatever the state it leaves.
DeriveUnchecked(target, domain, history) ==
    LET mine == {i \in 1..Len(history) : /\ history[i] \in Events
                                         /\ Attr[history[i]].target = target
                                         /\ Attr[history[i]].domain = domain}
    IN  IF mine = {} THEN Proposed
        ELSE Attr[history[CHOOSE i \in mine : \A j \in mine : j <= i]].to

\* _derive_for_domain, of the events in a history: the disposition of record
\* target in a domain, in append order; an event of another target or domain,
\* or one that is not a valid transition, is passed over.  A digest occurs once
\* in a ledger (see CommonsStore!NoDuplicateCommits), so the skip of repeated
\* digests is not needed.
DeriveForDomain(target, domain, history) ==
    LET state[i \in 0..Len(history)] ==
          IF i = 0 THEN Proposed
          ELSE AfterPayload(state[i - 1], history[i], target, domain)
    IN  state[Len(history)]

-----------------------------------------------------------------------------
\* CommonsStore.add_event: the target is present locally and the transition is
\* valid from the state of its domain.  add_event looks the domain up as
\* written while derive_lifecycle strips the domain of each event, so a domain
\* written with blanks around it has no events of its own.
CurrentState(e, history) ==
    IF Attr[e].padded THEN Proposed
    ELSE DeriveForDomain(Attr[e].target, Attr[e].domain, history)

EventAdmitted(e, history) ==
    /\ Attr[e].target \in RecordsIn(history)
    /\ ValidTransition(CurrentState(e, history), Attr[e])

Admitted(x, history) ==
    IF x \in Records THEN RecordAdmitted(x, history) ELSE EventAdmitted(x, history)
=============================================================================
