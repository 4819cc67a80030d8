------------------------------ MODULE Pressure ------------------------------
(***************************************************************************)
(* The pressure registry of src/mncs_commons/pressure.py: declarations,    *)
(* observations, and lifecycle events that are appended as one file each,  *)
(* and the status that is replayed from them.  An agent works in a         *)
(* checkout of the registry; checkouts are merged by taking the documents  *)
(* of both.  A document is written whole here, and the content-derived id  *)
(* of a transition is a fresh number.  Instants are those that callers     *)
(* give; the clock, which they default to, gives one of them.              *)
(***************************************************************************)
EXTENDS Integers, FiniteSets, Sequences

CONSTANTS
    Agents,        \* processes that call the registry
    CheckoutOf,    \* agent -> the checkout it works in
    Declarations,  \* pressure -> [affected, legacy]: what its declaration says
    NoLegacy,      \* a declaration without a legacy alias
    Reports,       \* observations to be made; their instant is given then
    RelationSpecs, \* [source, relation, target] to be related
    Targets,       \* statuses that are asked for
    Ledgers,       \* legacy ledgers: sequences of the pressures they import as
    Prior,         \* the documents every checkout starts with
    Instants,      \* what observations and events are dated with
    NoInstant,     \* observedAt is null
    MaxEvents,     \* bound on transitions written
    MaxDocuments,  \* bound on the declarations, observations and relations of a checkout
    MaxFailures,   \* bound on calls that the native kernel fails in
    MaxMerges      \* bound on merges

Pressures == DOMAIN Declarations
Checkouts == {CheckoutOf[a] : a \in Agents}

ASSUME PressureAssumption ==
    /\ DOMAIN Prior = {"records", "observations", "transitions", "relations"}
    /\ Prior.records \subseteq Pressures /\ IsFiniteSet(Prior.records)
    /\ \A r \in Reports : {"pressure", "at"} \subseteq DOMAIN r
    /\ IsFiniteSet(Prior.transitions)
    /\ \A t \in Prior.transitions :
          /\ t.id \in Nat /\ t.prev \in Nat
          /\ t.prev < t.id /\ t.id <= Cardinality(Prior.transitions)
    /\ Instants \subseteq Nat /\ NoInstant \notin Nat
    /\ MaxEvents \in Nat /\ MaxFailures \in Nat /\ MaxMerges \in Nat
    /\ MaxDocuments \in Nat

VARIABLES
    docs,      \* checkout -> [records, observations, transitions, relations]
    call,      \* agent -> the call it is in
    ids,       \* ids given to transitions so far
    acked,     \* checkout -> transitions that were returned there or merged in
    suspect,   \* checkout -> something was done to it that validate may report
    failures, merges

vars == <<docs, call, ids, acked, suspect, failures, merges>>

-----------------------------------------------------------------------------
\* Lifecycle policy (compiler-owned: commons/pressure/lifecycle.mncs).

\* transition_allowed_codes.
Allowed ==
    [discovered   |-> {"confirmed", "duplicate", "rejected", "deferred", "obsolete"},
     confirmed    |-> {"accepted", "duplicate", "rejected", "deferred", "superseded", "obsolete"},
     accepted     |-> {"implementing", "deferred", "duplicate", "superseded", "obsolete"},
     implementing |-> {"available", "deferred", "superseded", "obsolete"},
     available    |-> {"verifying", "implementing", "deferred", "superseded", "obsolete"},
     verifying    |-> {"resolved", "available", "deferred", "superseded", "obsolete"},
     deferred     |-> {"confirmed", "accepted", "implementing", "obsolete", "superseded"},
     rejected     |-> {"superseded", "obsolete"},
     resolved     |-> {}, duplicate |-> {}, superseded |-> {}, obsolete |-> {}]

\* Mutant of TransitionsOf: they are kept by the event they follow, the last one wins.
TransitionsByPrevious(d, p) ==
    {t \in d.transitions :
        t.pressure = p /\ \A u \in d.transitions : u.pressure = p /\ u.prev = t.prev => u.id <= t.id}

TransitionsOf(d, p)  == {t \in d.transitions : t.pressure = p}
ObservationsOf(d, p) == {o \in d.observations : o.pressure = p}
RelationsOf(d, p)    == {r \in d.relations : p \in {r.source, r.target}}

Successors(ts, head) == {t \in ts : t.prev = head}

\* pressure_lifecycle_projection: one step per transition, each to the only one
\* that follows the head.
NativeAdvance(w, ts) ==
    LET next == Successors(ts, w.head)
        t    == CHOOSE t \in next : TRUE
    IN  IF w.conflicted \/ w.processed >= Cardinality(ts) THEN w
        ELSE IF Cardinality(next) # 1 THEN [w EXCEPT !.conflicted = TRUE]
        ELSE IF t.from # w.status \/ t.to \notin Allowed[w.status]
             THEN [w EXCEPT !.conflicted = TRUE]
        ELSE [status |-> t.to, head |-> t.id, processed |-> w.processed + 1, conflicted |-> FALSE]

NativeFold(d, p) ==
    LET ts == TransitionsOf(d, p)
        fold[n \in 0..Cardinality(ts)] ==
            IF n = 0 THEN [status |-> "discovered", head |-> 0, processed |-> 0, conflicted |-> FALSE]
                     ELSE NativeAdvance(fold[n - 1], ts)
        last == fold[Cardinality(ts)]
    IN  IF last.conflicted \/ last.processed # Cardinality(ts) THEN "conflicted" ELSE last.status

-----------------------------------------------------------------------------
\* Evidence.

\* _current_verifications: the latest verification of each repository, a null
\* instant first.  (Ties are broken by id: any of the latest, the same always.)
InstantKey(o) == IF o.at = NoInstant THEN -1 ELSE o.at

CurrentVerification(observations, repository) ==
    LET vs == {o \in observations : o.kind = "verification" /\ o.repository = repository}
    IN  CHOOSE o \in vs : \A v \in vs : InstantKey(v) <= InstantKey(o)

Verified(observations, repository) ==
    \E o \in observations : o.kind = "verification" /\ o.repository = repository

\* affectedRepositories: the declared ones and all that observed the pressure.
Affected(p, observations) ==
    Declarations[p].affected \cup {o.repository : o \in observations}

\* What resolved requires of the verifications: PASS from every affected
\* repository, with the workaround closed.
ResolutionReady(observations, affected) ==
    \A r \in affected :
        /\ Verified(observations, r)
        /\ LET v == CurrentVerification(observations, r)
           IN  v.status = "PASS" /\ v.removed

\* _validate_transition_requirements, for an event that states the reason and the
\* implementation its target asks for.  A relation counts whichever end the
\* pressure is.
MeetsRequirements(t, observations, affected, relations) ==
    /\ t.to \in {"confirmed", "accepted", "available", "resolved"} => t.refs # {}
    /\ t.to = "confirmed" =>
          \E o \in observations : o.kind = "observation" /\ o.status = "PASS"
    /\ t.to = "resolved" => t.refs \subseteq observations /\ ResolutionReady(observations, affected)
    /\ t.to = "duplicate" => \E r \in relations : r.relation = "duplicate_of"
    /\ t.to = "superseded" => \E r \in relations : r.relation = "supersedes"

-----------------------------------------------------------------------------
\* Projection and validation.

\* Mutant of VisibleAt: an event sees what was observed since.
VisibleAtAnyTime(t, observations) == observations

\* What an event rests on: what it cites, and what was observed before it.
VisibleAt(t, observations) ==
    {o \in observations : o \in t.refs \/ (o.at # NoInstant /\ o.at < t.at)}

\* Mutant of Project: one of several successors is followed.
ProjectPicks(d, p) ==
    LET ts == TransitionsOf(d, p)
        Advance(w) ==
            LET next == {t \in ts : t.prev = w.head}
                t    == CHOOSE t \in next : TRUE
            IN  IF next = {} THEN w
                ELSE [status |-> t.to, head |-> t.id, seen |-> w.seen + 1, valid |-> TRUE]
        replay[n \in Nat] ==
            IF n = 0 THEN [status |-> "discovered", head |-> 0, seen |-> 0, valid |-> TRUE]
                     ELSE Advance(replay[n - 1])
    IN  replay[Cardinality(ts)]

\* An event that _project_one takes: it leaves the status that was reached and
\* meets its requirements with what it rests on.
Follows(t, status, d, p) ==
    LET seen == VisibleAt(t, ObservationsOf(d, p))
    IN  /\ t.from = status
        /\ t.to \in Allowed[status]
        /\ MeetsRequirements(t, seen, Affected(p, seen), RelationsOf(d, p))

\* _project_one: the transitions are replayed from the declaration on.
ProjectAdvance(w, d, p) ==
    LET next == Successors(TransitionsOf(d, p), w.head)
        t    == CHOOSE t \in next : TRUE
    IN  IF ~w.valid \/ next = {} THEN w
        ELSE IF Cardinality(next) > 1 \/ ~Follows(t, w.status, d, p) THEN [w EXCEPT !.valid = FALSE]
        ELSE [status |-> t.to, head |-> t.id, seen |-> w.seen + 1, valid |-> TRUE]

Project(d, p) ==
    LET n == Cardinality(TransitionsOf(d, p))
        replay[i \in 0..n] ==
            IF i = 0 THEN [status |-> "discovered", head |-> 0, seen |-> 0, valid |-> TRUE]
                     ELSE ProjectAdvance(replay[i - 1], d, p)
        last == replay[n]
    IN  [last EXCEPT !.valid = @ /\ last.seen = n]

\* show: the replay, with the status of the native fold; a native conflict is a
\* diagnostic as well.
Show(d, p) ==
    LET projection == Project(d, p)
        native     == NativeFold(d, p)
    IN  [status |-> native, head |-> projection.head,
         valid |-> projection.valid /\ native # "conflicted"]

\* validate, of the records: no alias is owned twice.  (What a single document
\* must look like is ensured by the calls that write it.)
RecordsValid(d) ==
    \A p, q \in d.records :
        p # q /\ Declarations[p].legacy # NoLegacy => Declarations[p].legacy # Declarations[q].legacy

\* validate, of the observations: none points to a missing pressure.
ObservationsValid(d) == \A o \in d.observations : o.pressure \in d.records

\* validate, of the events: no missing pressure, no missing evidence.
EventsValid(d) ==
    /\ \A r \in d.relations : {r.source, r.target} \subseteq d.records /\ r.source # r.target
    /\ \A t \in d.transitions : t.pressure \in d.records /\ t.refs \subseteq d.observations

\* validate, of the duplicate_of relations: visit meets no node that it is in.
DuplicatesAcyclic(d) ==
    LET After(nodes) == {r.target : r \in {r \in d.relations : r.relation = "duplicate_of"
                                                             /\ r.source \in nodes}}
        walk[n \in 0..Cardinality(d.records)] == IF n = 0 THEN d.records ELSE After(walk[n - 1])
    IN  walk[Cardinality(d.records)] = {}

\* validate.
RegistryValid(d) ==
    /\ RecordsValid(d) /\ ObservationsValid(d) /\ EventsValid(d) /\ DuplicatesAcyclic(d)
    /\ \A p \in d.records : Project(d, p).valid

-----------------------------------------------------------------------------
\* Calls.

NoCall == [pc |-> "idle", event |-> NoInstant, todo |-> <<>>]

Registry(a) == docs[CheckoutOf[a]]

\* A bound of the model: there is room for one more document.
Room(a) ==
    Cardinality(Registry(a).records) + Cardinality(Registry(a).observations)
        + Cardinality(Registry(a).relations) < MaxDocuments

Return(a) == call' = [call EXCEPT ![a] = NoCall]

Put(a, field, document) ==
    docs' = [docs EXCEPT ![CheckoutOf[a]][field] = @ \cup {document}]

Unlink(a, field, document) ==
    docs' = [docs EXCEPT ![CheckoutOf[a]][field] = @ \ {document}]

\* Something is done in the checkout that no call checks, when cond.
Suspect(c, cond) == suspect' = [suspect EXCEPT ![c] = @ \/ cond]

FirstReport(p, repository, at) ==
    [pressure |-> p, kind |-> "observation", repository |-> repository, status |-> "UNKNOWN",
     removed |-> FALSE, at |-> at]

\* Another declaration has the alias of p.
AliasTaken(d, p) ==
    /\ Declarations[p].legacy # NoLegacy
    /\ \E q \in d.records : q # p /\ Declarations[q].legacy = Declarations[p].legacy

\* An event of the pressure is dated after the observation.
Late(o, transitions) ==
    o.at # NoInstant /\ \E t \in transitions : t.pressure = o.pressure /\ o.at < t.at

\* add: the declaration is written, with the caller's aliases as they are ...
AddRecord(a, p) ==
    /\ call[a].pc = "idle"
    /\ p \notin Registry(a).records /\ Room(a)
    /\ Put(a, "records", p)
    /\ Suspect(CheckoutOf[a], AliasTaken(Registry(a), p))
    /\ call' = [call EXCEPT ![a] = [NoCall EXCEPT !.pc = "first report", !.event = p]]
    /\ UNCHANGED <<ids, acked, failures, merges>>

\* ... then its first observation; when that is refused, the declaration is
\* removed again.
AddObservation(a) ==
    LET p == call[a].event
    IN  /\ call[a].pc = "first report"
        /\ \/ \E r \in Declarations[p].affected, at \in Instants \cup {NoInstant} :
                 Put(a, "observations", FirstReport(p, r, at))
           \/ Unlink(a, "records", p)
        /\ Return(a)
        /\ UNCHANGED <<ids, acked, suspect, failures, merges>>

\* observe and verify: nothing is validated.
Observe(a, report, at) ==
    /\ call[a].pc = "idle"
    /\ report.pressure \in Registry(a).records /\ Room(a)
    /\ Put(a, "observations", [report EXCEPT !.at = at])
    /\ Suspect(CheckoutOf[a], Late([report EXCEPT !.at = at], Registry(a).transitions))
    /\ UNCHANGED <<call, ids, acked, failures, merges>>

\* relate: the relation is written and then the registry validated.
Relate(a, r) ==
    /\ call[a].pc = "idle"
    /\ {r.source, r.target} \subseteq Registry(a).records /\ Room(a)
    /\ Put(a, "relations", r)
    /\ call' = [call EXCEPT ![a] = [NoCall EXCEPT !.pc = "check relation", !.event = r]]
    /\ UNCHANGED <<ids, acked, suspect, failures, merges>>

\* transition: the pressure is read, and the event made for its head ...
TransitionRead(a, p, to, refs, at) ==
    LET shown == Show(Registry(a), p)
        event == [id |-> ids + 1, pressure |-> p, prev |-> shown.head, from |-> shown.status,
                  to |-> to, at |-> at, refs |-> refs]
        all   == ObservationsOf(Registry(a), p)
    IN  /\ call[a].pc = "idle"
        /\ ids < MaxEvents
        /\ shown.valid
        /\ to \in Allowed[shown.status]
        /\ MeetsRequirements(event, all, Affected(p, all), RelationsOf(Registry(a), p))
        /\ call' = [call EXCEPT ![a] = [NoCall EXCEPT !.pc = "write transition", !.event = event]]
        /\ ids' = ids + 1
        /\ UNCHANGED <<docs, acked, suspect, failures, merges>>

\* ... written ...
TransitionWrite(a) ==
    /\ call[a].pc = "write transition"
    /\ Put(a, "transitions", call[a].event)
    /\ call' = [call EXCEPT ![a].pc = "check transition"]
    /\ UNCHANGED <<ids, acked, suspect, failures, merges>>

\* ... and the registry validated; when it is not valid, the file is removed.
CheckWritten(a) ==
    LET c == CheckoutOf[a]
    IN  /\ call[a].pc \in {"check transition", "check relation"}
        /\ IF RegistryValid(docs[c])
           THEN /\ acked' = [acked EXCEPT ![c] = IF call[a].pc = "check transition"
                                                 THEN @ \cup {call[a].event} ELSE @]
                /\ UNCHANGED docs
           ELSE /\ Unlink(a, IF call[a].pc = "check transition" THEN "transitions" ELSE "relations",
                          call[a].event)
                /\ UNCHANGED acked
        /\ Return(a)
        /\ UNCHANGED <<ids, suspect, failures, merges>>

\* The native kernel fails inside validate: the call raises, the file stays.
CheckRaises(a) ==
    /\ call[a].pc \in {"check transition", "check relation"}
    /\ failures < MaxFailures
    /\ failures' = failures + 1
    /\ Suspect(CheckoutOf[a], TRUE)
    /\ Return(a)
    /\ UNCHANGED <<docs, ids, acked, merges>>

\* migrate_legacy goes through the entries of a ledger ...
MigrateStart(a, ledger) ==
    /\ call[a].pc = "idle"
    /\ call' = [call EXCEPT ![a] = [NoCall EXCEPT !.pc = "migrate", !.todo = ledger]]
    /\ UNCHANGED <<docs, ids, acked, suspect, failures, merges>>

\* The entry was imported, under this id or under one that other wording gave it.
Imported(d, p) ==
    \E q \in d.records : q = p \/ Declarations[q].legacy = Declarations[p].legacy

\* ... and adds those that were not imported; an error ends it half-way.
MigrateNext(a) ==
    LET p == Head(call[a].todo)
    IN  /\ call[a].pc = "migrate"
        /\ \/ /\ IF Imported(Registry(a), p)
                 THEN UNCHANGED docs
                 ELSE Room(a) /\ \E r \in Declarations[p].affected :
                         docs' = [docs EXCEPT
                                    ![CheckoutOf[a]].records = @ \cup {p},
                                    ![CheckoutOf[a]].observations = @ \cup {FirstReport(p, r, NoInstant)}]
              /\ IF Len(call[a].todo) = 1 THEN Return(a)
                 ELSE call' = [call EXCEPT ![a].todo = Tail(@)]
           \/ Return(a) /\ UNCHANGED docs
        /\ UNCHANGED <<ids, acked, suspect, failures, merges>>

-----------------------------------------------------------------------------
Quiet(c) == \A a \in Agents : CheckoutOf[a] = c => call[a].pc = "idle"

Union(d, e) == [f \in DOMAIN d |-> d[f] \cup e[f]]

\* Two registries agree on a pressure when one has all transitions of the other.
\* They fit together when they agree on every pressure, what only one of them
\* observed is earlier than no event of the other, no alias is owned twice, and
\* duplicates lead into no circle.
Agree(d, e, p) ==
    TransitionsOf(d, p) \subseteq TransitionsOf(e, p) \/ TransitionsOf(e, p) \subseteq TransitionsOf(d, p)

Fit(d, e) ==
    /\ \A p \in d.records \cup e.records : Agree(d, e, p)
    /\ \A o \in d.observations \ e.observations : ~Late(o, e.transitions)
    /\ \A o \in e.observations \ d.observations : ~Late(o, d.transitions)
    /\ RecordsValid(Union(d, e)) /\ DuplicatesAcyclic(Union(d, e))

\* A checkout takes in the documents of another.
Merge(c, e) ==
    /\ c # e /\ Quiet(c) /\ Quiet(e)
    /\ merges < MaxMerges
    /\ merges' = merges + 1
    /\ docs' = [docs EXCEPT ![c] = Union(@, docs[e])]
    /\ acked' = [acked EXCEPT ![c] = @ \cup acked[e]]
    /\ Suspect(c, suspect[e] \/ ~Fit(docs[c], docs[e]))
    /\ UNCHANGED <<call, ids, failures>>

\* What a caller cites for a pressure: the reports of one repository, or nothing
\* where there are none.
Citations(d, p) ==
    LET all == ObservationsOf(d, p)
    IN  IF all = {} THEN {{}} ELSE {{o \in all : o.repository = r} : r \in {o.repository : o \in all}}

Next ==
    \/ \E a \in Agents :
          \/ \E p \in Pressures : AddRecord(a, p)
          \/ AddObservation(a)
          \/ \E report \in Reports, at \in Instants \cup {NoInstant} : Observe(a, report, at)
          \/ \E r \in RelationSpecs : Relate(a, r)
          \/ \E p \in Registry(a).records, to \in Targets, at \in Instants :
                \E refs \in Citations(Registry(a), p) : TransitionRead(a, p, to, refs, at)
          \/ TransitionWrite(a) \/ CheckWritten(a) \/ CheckRaises(a)
          \/ \E ledger \in Ledgers : MigrateStart(a, ledger)
          \/ MigrateNext(a)
    \/ \E c, e \in Checkouts : Merge(c, e)

Init ==
    /\ docs = [c \in Checkouts |-> Prior]
    /\ call = [a \in Agents |-> NoCall]
    /\ ids = Cardinality(Prior.transitions)
    /\ acked = [c \in Checkouts |-> Prior.transitions]
    /\ suspect = [c \in Checkouts |-> FALSE]
    /\ failures = 0 /\ merges = 0

Spec == Init /\ [][Next]_vars

-----------------------------------------------------------------------------
\* Properties.

\* The documents are those that the calls write; the counters keep their bounds.
TypeOK ==
    /\ \A c \in Checkouts :
          /\ docs[c].records \subseteq Pressures
          /\ \A t \in docs[c].transitions : t.prev < t.id /\ t.id <= ids /\ t.to \in DOMAIN Allowed
    /\ ids <= MaxEvents /\ merges <= MaxMerges /\ failures <= MaxFailures

\* "Closed transition law shared by write-time admission and row replay"
\* (lifecycle.mncs): the replay in Python and the native fold agree on every
\* registry that calls and merges lead to: a history that the first accepts has
\* the same status in the second.
ReplaysAgree ==
    \A c \in Checkouts : \A p \in docs[c].records :
        Project(docs[c], p).valid => NativeFold(docs[c], p) = Project(docs[c], p).status

\* "A projection is invalid if its event history has two heads"
\* (docs/PRESSURE_PROTOCOL.md): after merges, too, of the transitions that were
\* acknowledged in the checkout for a pressure that is shown valid, no two follow the
\* same event, of which the replay would leave one aside.
NoTransitionIgnored ==
    \A c \in Checkouts : \A p \in docs[c].records :
        Show(docs[c], p).valid =>
            \A t, u \in {t \in acked[c] : t.pressure = p} : t # u => t.prev # u.prev

\* What validate can report has one of these causes: an alias declared twice, an
\* observation that its caller dates before an event of its pressure (or an event
\* that its caller dates after what is observed later), a merge of registries that
\* do not fit together, and a check that failed.  A checkout that met none of them
\* is valid after every call and every merge: what is observed, related, declared
\* or merged later does not undo an event that was accepted ("Unreferenced
\* observations recorded after the event must not rewrite its historical
\* affected-repository requirements").
StaysValid == \A c \in Checkouts : Quiet(c) /\ ~suspect[c] => RegistryValid(docs[c])
=============================================================================
