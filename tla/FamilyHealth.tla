---------------------------- MODULE FamilyHealth ----------------------------
(***************************************************************************)
(* Proposals, health sweeps and family coverage over the work requests of  *)
(* WorkClaims: propose_work and family_health_sweep of                     *)
(* application/services.py, next_work of work.py and family_coverage of    *)
(* family_registry.py.                                                     *)
(*                                                                         *)
(* A proposal is classified against one read of the store and submitted or *)
(* attached by a later write; a sweep publishes an observation, reads the  *)
(* work again and writes again.  Scanners, proposers and workers           *)
(* interleave between any two of these.  The reasons why a proposal cannot *)
(* be resolved from its own fields are one field, resolved.                *)
(***************************************************************************)
EXTENDS WorkClaims, FiniteSetsExt, Functions

CONSTANTS
    Scanners,     \* the sessions that send sweeps; the others are workers
    Proposals,    \* what workers propose
    Sweeps,       \* the observation lists that scanners send
    Projects,     \* the canonical repositories of the family
    Posture,      \* project -> the coveragePosture the family registry gives it
    NoTime,       \* a proposal without observationTimestamp
    NoFinding,
    Rank,         \* the order of work ids in list_work
    MaxSweeps     \* bound on the sweeps that are sent

\* The observations that sweeps report.
Reported == UNION {Range(todo) : todo \in Sweeps}

\* observedAt is an instant, and list_work sorts by work id.
ASSUME HealthAssumption ==
    /\ Scanners \subseteq Sessions
    /\ Sweeps \subseteq Seq(Reported)
    /\ \A o \in Reported : o.at \in Nat
    /\ \A w \in Works : Rank[w] \in Nat
    /\ MaxSweeps \in Nat

VARIABLES
    observations,   \* the family-health observations in the store
    sweep,          \* session -> what is left of its sweep
    sweeps,         \* sweeps sent so far
    tracked,        \* <<observation, work>>: the FAIL was submitted or attached
    superseding,    \* <<observation, work>>: the PASS cancelled the work
    unseen          \* work -> the work committed since its proposal was classified

healthVars == <<observations, sweep, sweeps, tracked, superseding, unseen>>

Hygiene == "REPO_HYGIENE"

NoSweep == [todo |-> <<>>, items |-> {}, keys |-> {}]

-----------------------------------------------------------------------------
\* propose_work.

OpenStates ==
    {"AVAILABLE", "CLAIMED", "IN_PROGRESS", "BLOCKED", "VERIFYING", "NEEDS_RECONCILIATION"}

Listed == {w \in Works : history[w] # <<>>}

\* Mutant of CurrentWork: blocked work is not looked at.
CurrentWorkUnblocked ==
    {w \in Listed : Current(w).coordination \in OpenStates \ {"BLOCKED"}}

CurrentWork == {w \in Listed : Current(w).coordination \in OpenStates}

\* _hygiene_scope_invalid.
HygieneScopeInvalid(q) == q.lane = Hygiene /\ Cardinality(q.repos) # 1

Unresolved(q) ==
    \/ ~q.resolved
    \/ q.lane = NoLane
    \/ \E d \in q.deps : d \notin Listed
    \/ q.lane = SharedCore /\ q.capability = <<>>
    \/ HygieneScopeInvalid(q)

\* capability_overlap on normalized capabilities, sequences of parts.
CapabilityOverlap(a, b) ==
    IF a = b THEN "exact"
    ELSE IF Cardinality(Range(a) \cap Range(b)) >= 2 THEN "ambiguous"
    ELSE "distinct"

SameRepo(q, r) == q.repos \cap r.repos # {}

Comparable(q, r) ==
    /\ q.capability # <<>> /\ r.capability # <<>>
    /\ SameRepo(q, r) \/ (q.lane = SharedCore /\ r.lane = SharedCore)

Exact(q, r) ==
    \/ q.finding # NoFinding /\ r.finding = q.finding /\ SameRepo(q, r) /\ r.lane = q.lane
    \/ Comparable(q, r) /\ CapabilityOverlap(q.capability, r.capability) = "exact"

Duplicates(q) == {w \in CurrentWork : Exact(q, request[w])}

\* The loop stops at the first exact duplicate.
AmbiguousWith(q) ==
    {w \in CurrentWork :
        /\ Current(w).coordination = "AVAILABLE"
        /\ Comparable(q, request[w])
        /\ CapabilityOverlap(q.capability, request[w].capability) = "ambiguous"
        /\ \A v \in Duplicates(q) : Rank[w] < Rank[v]}

FirstOf(ws) == CHOOSE w \in ws : \A v \in ws : Rank[w] <= Rank[v]

\* uuid4: an id that no other request has, of the proposal's lane and scope.
FreshIds(q) ==
    {w \in Works :
        /\ history[w] = <<>>
        /\ \A s \in Sessions : pc[s] = "submit" => call[s].work # w
        /\ Lane[w] = q.lane
        /\ w \in ScopeInvalid <=> HygieneScopeInvalid(q)}

Reconcile(q) == Unresolved(q) \/ AmbiguousWith(q) # {}

Classify(s, q) ==
    IF Duplicates(q) # {} /\ ~Reconcile(q)
    THEN LET w == FirstOf(Duplicates(q))
         IN  Proceed(s, "attach", [work |-> w, expected |-> Len(history[w])])
    ELSE \E w \in FreshIds(q) :
            Proceed(s, "submit",
                    [work |-> w, request |-> q, seen |-> Listed,
                     next |-> [state |-> "submitted", claim |-> NoOne,
                               coordination |-> IF Reconcile(q) THEN "NEEDS_RECONCILIATION"
                                                ELSE "AVAILABLE"]])

ProposeWork(s, q) ==
    /\ s \notin Scanners /\ pc[s] = "idle"
    /\ Classify(s, q)
    /\ UNCHANGED <<history, request, claims, submissions>> /\ UNCHANGED healthVars

\* The transition of an attached proposal names neither a state nor a
\* coordination state.
AttachTransition ==
    [state |-> Unset, coordination |-> Unset, claim |-> Unset, attachments |-> TRUE]

CancelTransition ==
    [state |-> "cancelled", coordination |-> "SUPERSEDED", claim |-> Unset, attachments |-> FALSE]

Transition(s) == IF pc[s] = "attach" THEN AttachTransition ELSE CancelTransition

\* transition_work reads the history again: the revision that was seen must still
\* be the current one.
MayTransit(s) ==
    /\ Len(history[call[s].work]) = call[s].expected
    /\ MayRevise(call[s].work, Current(call[s].work), Transition(s))

\* An error ends the call, and a sweep with it.
Raise(s) ==
    /\ Return(s)
    /\ sweep' = [sweep EXCEPT ![s] = NoSweep]

Transit(s) ==
    LET w == call[s].work
    IN  /\ pc[s] \in {"attach", "cancel"}
        /\ Len(history[w]) < MaxRevisions
        /\ IF MayTransit(s)
           THEN /\ Proceed(s, "add", [work |-> w, expected |-> Len(history[w]), claiming |-> FALSE,
                                      next |-> Revised(Current(w), Transition(s)),
                                      cancels |-> pc[s] = "cancel"])
                /\ UNCHANGED sweep
           ELSE Raise(s)
        /\ UNCHANGED <<history, request, claims, submissions>>
        /\ UNCHANGED <<observations, sweeps, tracked, superseding, unseen>>

-----------------------------------------------------------------------------
\* family_health_sweep.

Key(o) == <<o.repo, o.finding>>

HealthProposal(o) ==
    [lane |-> Hygiene, repos |-> {o.repo}, finding |-> o.finding, capability |-> <<>>,
     resolved |-> TRUE, deps |-> {}, at |-> o.at]

Observation(s) == Head(sweep[s].todo)

Advanced(w) == [w EXCEPT !.todo = Tail(@), !.items = {}]

\* One of the listed items is dealt with; the last one ends the observation.
ItemDone(s, item) ==
    LET rest == sweep[s].items \ {item}
    IN  [sweep EXCEPT ![s] = IF rest = {} THEN Advanced(@) ELSE [@ EXCEPT !.items = rest]]

FirstItem(s) == CHOOSE i \in sweep[s].items : \A j \in sweep[s].items : Rank[i[1]] <= Rank[j[1]]

StartSweep(s, todo) ==
    /\ s \in Scanners /\ pc[s] = "idle" /\ sweep[s] = NoSweep
    /\ sweeps < MaxSweeps /\ sweeps' = sweeps + 1
    /\ sweep' = [sweep EXCEPT ![s] = [NoSweep EXCEPT !.todo = todo]]
    /\ UNCHANGED vars /\ UNCHANGED <<observations, tracked, superseding, unseen>>

EndSweep(s) ==
    /\ pc[s] = "idle" /\ sweep[s].todo = <<>> /\ sweep[s] # NoSweep
    /\ sweep' = [sweep EXCEPT ![s] = NoSweep]
    /\ UNCHANGED vars /\ UNCHANGED <<observations, sweeps, tracked, superseding, unseen>>

Published(o) == observations \cup {o}

\* One observation per repository and finding; then it is published.
Publish(s) ==
    LET o == Observation(s)
    IN  /\ pc[s] = "idle" /\ sweep[s].todo # <<>> /\ sweep[s].items = {}
        /\ IF Key(o) \in sweep[s].keys
           THEN Raise(s) /\ UNCHANGED observations
           ELSE /\ observations' = Published(o)
                /\ sweep' = [sweep EXCEPT ![s].keys = @ \cup {Key(o)},
                                          ![s].todo = IF o.outcome = "UNKNOWN" THEN Tail(@) ELSE @]
                /\ pc' = [pc EXCEPT ![s] = CASE o.outcome = "FAIL" -> "propose"
                                             [] o.outcome = "PASS" -> "list"
                                             [] OTHER -> "idle"]
                /\ UNCHANGED call
        /\ UNCHANGED <<history, request, claims, submissions>>
        /\ UNCHANGED <<sweeps, tracked, superseding, unseen>>

ProposeFailure(s) ==
    /\ pc[s] = "propose"
    /\ Classify(s, HealthProposal(Observation(s)))
    /\ UNCHANGED <<history, request, claims, submissions>> /\ UNCHANGED healthVars

\* list_work of the AVAILABLE hygiene work of this repository and finding.
PassList(s) ==
    LET o == Observation(s)
        items == {<<w, Len(history[w])>> : w \in
                    {v \in Listed : /\ Current(v).coordination = "AVAILABLE"
                                    /\ request[v].lane = Hygiene
                                    /\ request[v].finding = o.finding
                                    /\ o.repo \in request[v].repos}}
    IN  /\ pc[s] = "list"
        /\ pc' = [pc EXCEPT ![s] = "idle"]
        /\ sweep' = [sweep EXCEPT ![s] = IF items = {} THEN Advanced(@)
                                         ELSE [@ EXCEPT !.items = items]]
        /\ UNCHANGED <<history, request, call, claims, submissions>>
        /\ UNCHANGED <<observations, sweeps, tracked, superseding, unseen>>

\* Mutant of Supersedes: the PASS is compared with the request's own timestamp.
SupersedesRequest(o, w) == request[w].at # NoTime /\ request[w].at < o.at

\* Strictly newer than the latest FAIL in the store for the work's finding, or
\* than the request itself when there is none.
Supersedes(o, w) ==
    LET fails == {f \in observations : /\ f.outcome = "FAIL"
                                       /\ f.finding = request[w].finding
                                       /\ f.repo \in request[w].repos}
    IN  IF fails # {} THEN \A f \in fails : f.at < o.at
        ELSE request[w].at # NoTime /\ request[w].at < o.at

PassScan(s) ==
    LET item == FirstItem(s)
    IN  /\ pc[s] = "idle" /\ sweep[s].items # {}
        /\ IF Supersedes(Observation(s), item[1])
           THEN /\ Proceed(s, "cancel", [work |-> item[1], expected |-> item[2]])
                /\ UNCHANGED sweep
           ELSE /\ sweep' = ItemDone(s, item)
                /\ UNCHANGED <<pc, call>>
        /\ UNCHANGED <<history, request, claims, submissions>>
        /\ UNCHANGED <<observations, sweeps, tracked, superseding, unseen>>

-----------------------------------------------------------------------------
\* The writes, made by the actions of WorkClaims.

Sweeping(s) == sweep[s].todo # <<>>

Submit(s) ==
    LET w == call[s].work
    IN  /\ SubmitAdd(s)
        /\ unseen' = [unseen EXCEPT ![w] = Listed \ call[s].seen]
        /\ IF Sweeping(s)
           THEN /\ tracked' = tracked \cup {<<Observation(s), w>>}
                /\ sweep' = [sweep EXCEPT ![s] = Advanced(@)]
           ELSE UNCHANGED <<tracked, sweep>>
        /\ UNCHANGED <<observations, sweeps, superseding>>

\* WORK_CONFLICT ends a sweep as any error does.
Add(s) ==
    LET w == call[s].work
        committed == Len(history[w]) = call[s].expected
    IN  /\ AddRevision(s)
        /\ CASE Sweeping(s) /\ committed /\ ~call[s].cancels ->
                  /\ tracked' = tracked \cup {<<Observation(s), w>>}
                  /\ sweep' = [sweep EXCEPT ![s] = Advanced(@)]
                  /\ UNCHANGED superseding
             [] Sweeping(s) /\ committed /\ call[s].cancels ->
                  /\ superseding' = superseding \cup {<<Observation(s), w>>}
                  /\ sweep' = ItemDone(s, FirstItem(s))
                  /\ UNCHANGED tracked
             [] Sweeping(s) /\ ~committed ->
                  /\ sweep' = [sweep EXCEPT ![s] = NoSweep]
                  /\ UNCHANGED <<tracked, superseding>>
             [] OTHER -> UNCHANGED <<tracked, sweep, superseding>>
        /\ UNCHANGED <<observations, sweeps, unseen>>

-----------------------------------------------------------------------------
\* Workers: work_next, claim_work and transition_work.

NextWork ==
    {w \in Listed :
        /\ Current(w).coordination = "AVAILABLE"
        /\ \A d \in request[w].deps : d \in Listed /\ Current(d).coordination = "COMPLETE"}

TakeNext(s) ==
    /\ s \notin Scanners
    /\ \E w \in NextWork : ClaimRead(s, w, Len(history[w]))
    /\ UNCHANGED healthVars

ContinueClaim(s) == (ClaimActive(s) \/ ClaimRevise(s)) /\ UNCHANGED healthVars

Work(s) ==
    /\ s \notin Scanners
    /\ \E w \in Works, t \in Transitions : TransitionRead(s, w, Len(history[w]), t)
    /\ UNCHANGED healthVars

HealthNext ==
    \E s \in Sessions :
        \/ \E todo \in Sweeps : StartSweep(s, todo)
        \/ \E q \in Proposals : ProposeWork(s, q)
        \/ Publish(s) \/ ProposeFailure(s) \/ PassList(s) \/ PassScan(s) \/ EndSweep(s)
        \/ Transit(s) \/ Submit(s) \/ Add(s)
        \/ TakeNext(s) \/ ContinueClaim(s) \/ Work(s)

HealthInit ==
    /\ Init
    /\ observations = {} /\ tracked = {} /\ superseding = {} /\ sweeps = 0
    /\ sweep = [s \in Sessions |-> NoSweep]
    /\ unseen = [w \in Works |-> {}]

HealthSpec == HealthInit /\ [][HealthNext]_<<vars, healthVars>>

-----------------------------------------------------------------------------
\* family_coverage.

LatestHealth(p) ==
    {o \in observations : o.repo = p /\ \A f \in observations : f.repo = p => f.at <= o.at}

\* The outcome of the last observation of a project, when it has one.
LatestOutcomes(p) ==
    IF LatestHealth(p) = {} THEN {"none"} ELSE {o.outcome : o \in LatestHealth(p)}

\* What is left to say of a project with no work: a registry's ACTIVE_WORK is not
\* taken from it.
StateByHealth(p, outcome) ==
    CASE outcome = "PASS" -> "HEALTHY_NO_WORK"
      [] outcome = "UNKNOWN" -> "NEEDS_REVIEW"
      [] OTHER -> IF Posture[p] # "ACTIVE_WORK" THEN Posture[p] ELSE "NEEDS_REVIEW"

\* Mutant of ProjectState: a PASS counts before blocked work does.
ProjectStateHealthFirst(p, outcome) == StateByHealth(p, outcome)

\* _project_state, outcome being that of the last of the project's observations.
ProjectState(p, outcome) ==
    LET in(states) == {w \in Listed : p \in request[w].repos /\ Current(w).coordination \in states}
        sharedCore == {w \in CurrentWork : request[w].lane = SharedCore}
    IN  CASE in({"AVAILABLE", "CLAIMED", "IN_PROGRESS", "VERIFYING"}) # {} -> "ACTIVE_WORK"
          [] OTHER ->
               CASE in({"BLOCKED"}) # {} ->
                      IF \E w \in in({"BLOCKED"}) : request[w].deps \cap sharedCore # {}
                      THEN "WAITING_SHARED_CORE" ELSE "BLOCKED"
                 [] OTHER ->
                      CASE in({"NEEDS_RECONCILIATION"}) # {} -> "NEEDS_REVIEW"
                        [] OTHER -> StateByHealth(p, outcome)

-----------------------------------------------------------------------------
\* Properties.

\* The type of the sweeps and of what they have recorded.
HealthTypeOK ==
    /\ \A s \in Scanners :
          /\ pc[s] \in {"idle", "propose", "attach", "submit", "list", "cancel", "add"}
          /\ pc[s] # "idle" => Sweeping(s)
          /\ pc[s] = "cancel" => sweep[s].items # {}
          /\ \A i \in sweep[s].items : i[1] \in Listed /\ i[2] \in 1..Len(history[i[1]])
    /\ sweeps \in 0..MaxSweeps
    /\ tracked \cup superseding \subseteq observations \X Listed
    /\ \A w \in Works : unseen[w] \subseteq Listed

\* A PASS cancels no work on which a FAIL of the same time or later has been
\* tracked, although the FAIL may be swept between the scan that found none and the
\* cancellation (services.py: "strictly newer than the *latest* FAIL evidence").
SupersededByNewer ==
    \A p \in superseding, f \in tracked : p[2] = f[2] => f[1].at < p[1].at

\* "Exact capability or finding duplicates attach" (docs/PARALLEL_WORK.md): two
\* open requests that were both found AVAILABLE are duplicates of one another only
\* if one was committed while the other was being proposed.
DuplicatesOnlyByRace ==
    \A v, w \in CurrentWork :
        /\ v # w
        /\ history[v][1].coordination = "AVAILABLE" /\ history[w][1].coordination = "AVAILABLE"
        /\ Exact(request[v], request[w])
        => v \in unseen[w] \/ w \in unseen[v]

\* A family project is reported healthy and without work only when each FAIL that
\* a sweep has tracked for it was worked on to an end or overtaken by a later PASS.
HealthyMeansSettled ==
    \A p \in Projects : \A outcome \in LatestOutcomes(p) :
        ProjectState(p, outcome) = "HEALTHY_NO_WORK" =>
            \A f \in tracked : f[1].repo = p =>
                \/ Current(f[2]).coordination \in {"COMPLETE", "ABANDONED"}
                \/ \E q \in superseding : q[2] = f[2] /\ f[1].at < q[1].at

=============================================================================
