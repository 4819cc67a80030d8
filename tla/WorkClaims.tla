----------------------------- MODULE WorkClaims -----------------------------
(***************************************************************************)
(* Durable work requests of src/mncs_commons/work.py and the optimistic    *)
(* submit_work, transition_work and claim_work of application/services.py. *)
(*                                                                         *)
(* The store under it is the append-only log that CommonsStore implements: *)
(* a read sees every committed record, and add_record admits a revision    *)
(* only after the latest one it names.  A call is several such reads and   *)
(* one add, and calls of several sessions interleave.  A call that is      *)
(* refused changes nothing; it is a step of its own only if the call had   *)
(* already made one.                                                       *)
(***************************************************************************)
EXTENDS Naturals, Sequences, FiniteSets

CONSTANTS
    Works,          \* work ids
    Lane,           \* work id -> its lane, or NoLane
    NoLane,
    ScopeInvalid,   \* REPO_HYGIENE work whose scope is not one repository
    Requests,       \* the fields of a submission that a retry must repeat
    Sessions,       \* callers
    ActorOf,        \* session -> the worker it acts for
    NoOne,          \* no claim, no request
    Unset,          \* a field that a transition does not mention
    Transitions,    \* what callers of transition_work ask for
    MaxRevisions    \* bound on the revisions of one work request

SharedCore == "SHARED_CORE"

WorkStates ==
    {"submitted", "accepted", "assigned", "queued", "running", "checkpointed",
     "blocked", "retrying", "completed", "failed", "cancelled"}

CoordinationStates ==
    {"AVAILABLE", "CLAIMED", "IN_PROGRESS", "BLOCKED", "VERIFYING", "COMPLETE",
     "ABANDONED", "SUPERSEDED", "NEEDS_RECONCILIATION"}

\* The states in which a worker owns the work.
ActiveStates == {"CLAIMED", "IN_PROGRESS", "VERIFYING"}

Actors == {ActorOf[s] : s \in Sessions}

ASSUME WorkAssumption ==
    /\ NoOne \notin Actors \cup Requests
    /\ Unset \notin Actors \cup WorkStates \cup CoordinationStates \cup {NoOne}
    /\ Transitions \subseteq
          [state : WorkStates \cup {Unset}, coordination : CoordinationStates \cup {Unset},
           claim : Actors \cup {NoOne, Unset}, attachments : BOOLEAN]
    /\ ScopeInvalid \subseteq {w \in Works : Lane[w] # NoLane}
    /\ MaxRevisions \in Nat

\* _TRANSITIONS.
AllowedWork(s) ==
    CASE s = "submitted"    -> {"accepted", "assigned", "failed", "cancelled"}
      [] s = "accepted"     -> {"assigned", "queued", "failed", "cancelled"}
      [] s = "assigned"     -> {"queued", "running", "blocked", "retrying", "failed", "cancelled"}
      [] s = "queued"       -> {"assigned", "running", "blocked", "retrying", "failed", "cancelled"}
      [] s \in {"running", "checkpointed"} ->
           {"running", "checkpointed", "blocked", "retrying", "completed", "failed", "cancelled"}
             \ {s}
      [] s = "blocked"      -> {"assigned", "queued", "running", "retrying", "failed", "cancelled"}
      [] s = "retrying"     -> {"assigned", "queued", "running", "blocked", "failed", "cancelled"}
      [] OTHER              -> {}

\* _COORDINATION_TRANSITIONS.
AllowedCoordination(c) ==
    CASE c = "AVAILABLE"   -> {"CLAIMED", "ABANDONED", "SUPERSEDED"}
      [] c = "CLAIMED"     -> {"IN_PROGRESS", "BLOCKED", "ABANDONED", "SUPERSEDED"}
      [] c = "IN_PROGRESS" -> {"BLOCKED", "VERIFYING", "COMPLETE", "ABANDONED",
                               "NEEDS_RECONCILIATION"}
      [] c = "BLOCKED"     -> {"CLAIMED", "IN_PROGRESS", "ABANDONED", "NEEDS_RECONCILIATION"}
      [] c = "VERIFYING"   -> {"COMPLETE", "BLOCKED", "NEEDS_RECONCILIATION"}
      [] c = "NEEDS_RECONCILIATION" -> {"CLAIMED", "IN_PROGRESS", "ABANDONED"}
      [] OTHER             -> {}

\* The coordination state that goes with a state when none is given.
DefaultCoordination(s) ==
    CASE s \in {"submitted", "accepted"} -> "AVAILABLE"
      [] s \in {"assigned", "queued"}    -> "CLAIMED"
      [] s = "running"                   -> "IN_PROGRESS"
      [] s = "checkpointed"              -> "VERIFYING"
      [] s = "blocked"                   -> "BLOCKED"
      [] s = "retrying"                  -> "NEEDS_RECONCILIATION"
      [] s = "completed"                 -> "COMPLETE"
      [] OTHER                           -> "ABANDONED"

VARIABLES
    history,      \* work -> its committed revisions, the digest of one is its place
    request,      \* work -> the immutable fields of its first revision
    pc,           \* session -> control point
    call,         \* session -> what the call has in hand
    claims,       \* claims that claim_work has reported as persisted
    submissions   \* submissions that submit_work has reported as persisted

vars == <<history, request, pc, call, claims, submissions>>

Revisions ==
    [state : WorkStates, coordination : CoordinationStates, claim : Actors \cup {NoOne}]

Current(w) == history[w][Len(history[w])]

NoCall == [work |-> NoOne]

Return(s) ==
    /\ pc' = [pc EXCEPT ![s] = "idle"]
    /\ call' = [call EXCEPT ![s] = NoCall]

Proceed(s, label, c) ==
    /\ pc' = [pc EXCEPT ![s] = label]
    /\ call' = [call EXCEPT ![s] = c]

-----------------------------------------------------------------------------
\* submit_work.

\* validate_work_record: lane work that is active names its claim, and work out of
\* scope is in no state but the inert one.  Blockers and results are given where
\* they are required.
ValidWorkRecord(w, r) ==
    /\ Lane[w] # NoLane /\ r.coordination \in ActiveStates => r.claim # NoOne
    /\ w \in ScopeInvalid => r.coordination = "NEEDS_RECONCILIATION"

\* work_semantic_diagnostics, which add_record asks under the lock of the store: a
\* first revision submits, a later one is a legal successor of the latest.
WorkAdmitted(w, r) ==
    IF history[w] = <<>> THEN r.state = "submitted"
    ELSE /\ r.state \in AllowedWork(Current(w).state) \cup {Current(w).state}
         /\ r.coordination \in AllowedCoordination(Current(w).coordination)
                                 \cup {Current(w).coordination}

\* A new record has no blockers and no result, so a lane request that claims to be
\* blocked or complete is invalid.
FirstRevisions(w) ==
    {r \in [state : {"submitted"}, coordination : CoordinationStates, claim : {NoOne}] :
        /\ Lane[w] # NoLane => r.coordination \notin {"BLOCKED", "COMPLETE"}
        /\ ValidWorkRecord(w, r)}

SubmitRead(s, w, q, r) ==
    /\ pc[s] = "idle"
    /\ history[w] = <<>>
    /\ Proceed(s, "submit", [work |-> w, request |-> q, next |-> r])
    /\ UNCHANGED <<history, request, claims, submissions>>

\* duplicate_ack: a retry repeats the immutable fields, or WORK_CONFLICT.
SubmitDuplicate(s, w, q) ==
    /\ pc[s] = "idle"
    /\ history[w] # <<>>
    /\ request[w] = q
    /\ submissions' = submissions \cup {[work |-> w, request |-> q]}
    /\ UNCHANGED <<history, request, pc, call, claims>>

\* Mutant of SubmitAdd: losing the race is reported as a retry without a look at
\* the fields.
SubmitAddTrusting(s) ==
    LET w == call[s].work
        q == call[s].request
    IN  /\ pc[s] = "submit"
        /\ IF history[w] = <<>>
           THEN /\ history' = [history EXCEPT ![w] = <<call[s].next>>]
                /\ request' = [request EXCEPT ![w] = q]
           ELSE UNCHANGED <<history, request>>
        /\ submissions' = submissions \cup {[work |-> w, request |-> q]}
        /\ Return(s)
        /\ UNCHANGED claims

\* add_record refuses a second first revision; the prior one is then looked up.
SubmitAdd(s) ==
    LET w == call[s].work
        q == call[s].request
        done == submissions' = submissions \cup {[work |-> w, request |-> q]}
    IN  /\ pc[s] = "submit"
        /\ \/ /\ history[w] = <<>> /\ WorkAdmitted(w, call[s].next)
              /\ history' = [history EXCEPT ![w] = <<call[s].next>>]
              /\ request' = [request EXCEPT ![w] = q]
              /\ done
           \/ /\ history[w] # <<>>
              /\ IF request[w] = q THEN done ELSE UNCHANGED submissions
              /\ UNCHANGED <<history, request>>
        /\ Return(s)
        /\ UNCHANGED claims

-----------------------------------------------------------------------------
\* transition_work.

\* revised_work_record: the revision that follows r when transition t is asked
\* for, and whether it is made.  Blockers, results and evidence are given when
\* they are needed.
TargetState(r, t) == IF t.state = Unset THEN r.state ELSE t.state

TargetCoordination(r, t) ==
    IF t.coordination = Unset THEN DefaultCoordination(TargetState(r, t)) ELSE t.coordination

Revised(r, t) ==
    [state |-> TargetState(r, t),
     coordination |-> TargetCoordination(r, t),
     claim |-> IF t.claim = Unset THEN r.claim ELSE t.claim]

MayRevise(w, r, t) ==
    LET next == Revised(r, t)
    IN  /\ next.state \in AllowedWork(r.state) \/ (next.state = r.state /\ t.attachments)
        /\ next.coordination \in AllowedCoordination(r.coordination) \cup {r.coordination}
        /\ ValidWorkRecord(w, next)

\* The caller names the revision it has seen, n; it must still be the current one
\* when transition_work reads the history.
TransitionRead(s, w, n, t) ==
    /\ pc[s] = "idle"
    /\ n = Len(history[w]) /\ n > 0 /\ n < MaxRevisions
    /\ MayRevise(w, Current(w), t)
    /\ Proceed(s, "add", [work |-> w, expected |-> n, next |-> Revised(Current(w), t),
                          claiming |-> FALSE])
    /\ UNCHANGED <<history, request, claims, submissions>>

\* Mutant of AddRevision: the revision is added to whatever is the latest now.
AddRevisionBlind(s) ==
    LET w == call[s].work
        n == call[s].expected
    IN  /\ pc[s] = "add"
        /\ history' = [history EXCEPT ![w] = Append(@, call[s].next)]
        /\ claims' = IF call[s].claiming
                     THEN claims \cup {[session |-> s, work |-> w, expected |-> n]}
                     ELSE claims
        /\ Return(s)
        /\ UNCHANGED <<request, submissions>>

\* add_record: the next revision of the one it names, or WORK_CONFLICT.
AddRevision(s) ==
    LET w == call[s].work
        n == call[s].expected
    IN  /\ pc[s] = "add"
        /\ IF Len(history[w]) = n /\ WorkAdmitted(w, call[s].next)
           THEN /\ history' = [history EXCEPT ![w] = Append(@, call[s].next)]
                /\ claims' = IF call[s].claiming
                             THEN claims \cup {[session |-> s, work |-> w, expected |-> n]}
                             ELSE claims
           ELSE UNCHANGED <<history, claims>>
        /\ Return(s)
        /\ UNCHANGED <<request, submissions>>

-----------------------------------------------------------------------------
\* claim_work.

Claimable == {"AVAILABLE", "BLOCKED"}

\* The work is claimable; the caller saw revision n of it at some earlier time.
ClaimRead(s, w, n) ==
    /\ pc[s] = "idle"
    /\ n \in 1..Len(history[w]) /\ n < MaxRevisions
    /\ Current(w).coordination \in Claimable
    /\ Proceed(s, "active", [work |-> w, expected |-> n])
    /\ UNCHANGED <<history, request, claims, submissions>>

Active(w) == history[w] # <<>> /\ Current(w).coordination \in ActiveStates

\* WORK_SHARED_CORE_BUSY and WORK_ACTIVE_CLAIM_LIMIT.
MayClaim(s, w) ==
    /\ Lane[w] = SharedCore => \A v \in Works : ~(Active(v) /\ Lane[v] = SharedCore)
    /\ \A v \in Works \ {w} : ~(Active(v) /\ Current(v).claim = ActorOf[s])

ClaimActive(s) ==
    /\ pc[s] = "active"
    /\ IF MayClaim(s, call[s].work) THEN Proceed(s, "revise", call[s]) ELSE Return(s)
    /\ UNCHANGED <<history, request, claims, submissions>>

\* The transition that claim_work asks for.
ClaimTransition(s) ==
    [state |-> "assigned", coordination |-> "CLAIMED", claim |-> ActorOf[s], attachments |-> FALSE]

\* Mutant of ClaimRevise: the digest the caller saw is not compared.
ClaimReviseLatest(s) ==
    LET w == call[s].work
        t == ClaimTransition(s)
    IN  /\ pc[s] = "revise"
        /\ IF MayRevise(w, Current(w), t) /\ Len(history[w]) < MaxRevisions
           THEN Proceed(s, "add", [work |-> w, expected |-> Len(history[w]),
                                   next |-> Revised(Current(w), t), claiming |-> TRUE])
           ELSE Return(s)
        /\ UNCHANGED <<history, request, claims, submissions>>

\* transition_work, called by claim_work.
ClaimRevise(s) ==
    LET w == call[s].work
        n == call[s].expected
        t == ClaimTransition(s)
    IN  /\ pc[s] = "revise"
        /\ IF n = Len(history[w]) /\ MayRevise(w, Current(w), t)
           THEN Proceed(s, "add", [work |-> w, expected |-> n, next |-> Revised(Current(w), t),
                                   claiming |-> TRUE])
           ELSE Return(s)
        /\ UNCHANGED <<history, request, claims, submissions>>

-----------------------------------------------------------------------------
Next ==
    \E s \in Sessions :
        \/ \E w \in Works, q \in Requests :
              SubmitDuplicate(s, w, q) \/ \E r \in FirstRevisions(w) : SubmitRead(s, w, q, r)
        \/ \E w \in Works, n \in 1..MaxRevisions :
              ClaimRead(s, w, n) \/ \E t \in Transitions : TransitionRead(s, w, n, t)
        \/ SubmitAdd(s) \/ ClaimActive(s) \/ ClaimRevise(s) \/ AddRevision(s)

Init ==
    /\ history = [w \in Works |-> <<>>]
    /\ request = [w \in Works |-> NoOne]
    /\ pc = [s \in Sessions |-> "idle"]
    /\ call = [s \in Sessions |-> NoCall]
    /\ claims = {}
    /\ submissions = {}

Spec == Init /\ [][Next]_vars

-----------------------------------------------------------------------------
\* Properties.

\* The type of the histories, the calls in progress and what was reported.
TypeOK ==
    /\ history \in [Works -> Seq(Revisions)]
    /\ request \in [Works -> Requests \cup {NoOne}]
    /\ pc \in [Sessions -> {"idle", "submit", "active", "revise", "add"}]
    /\ DOMAIN call = Sessions
    /\ \A s \in Sessions :
          /\ pc[s] # "idle" => call[s].work \in Works
          /\ pc[s] = "submit" => call[s].next \in Revisions /\ call[s].request \in Requests
          /\ pc[s] \in {"active", "revise", "add"} => call[s].expected \in 1..Len(history[call[s].work])
          /\ pc[s] = "add" => call[s].next \in Revisions /\ call[s].claiming \in BOOLEAN
    /\ claims \in SUBSET [session : Sessions, work : Works, expected : Nat]
    /\ submissions \in SUBSET [work : Works, request : Requests]

\* project_work_history never raises WORK_HISTORY_INVALID, however the
\* transitions of several sessions interleave: every committed revision is a
\* legal successor of the one before it.
HistoryLegal ==
    \A w \in Works : \A i \in 1..Len(history[w]) :
        LET r == history[w][i]
        IN  IF i = 1 THEN r.state = "submitted"
            ELSE LET q == history[w][i - 1]
                 IN  /\ r.state \in AllowedWork(q.state) \cup {q.state}
                     /\ r.coordination \in AllowedCoordination(q.coordination) \cup {q.coordination}

\* "A claim therefore loses deterministically when another writer has already
\* claimed the task" (docs/PARALLEL_WORK.md): of the claims made on one revision
\* at most one is reported as persisted, its revision is the next one, and it
\* took over work that nobody was active on.
OneClaimWins ==
    \A c \in claims :
        /\ \A d \in claims : c.work = d.work /\ c.expected = d.expected => c = d
        /\ c.expected < Len(history[c.work])
        /\ history[c.work][c.expected + 1].claim = ActorOf[c.session]
        /\ history[c.work][c.expected].coordination \in Claimable

\* Every submission that was reported as persisted is the one that is stored,
\* also when two submitters raced for the work id.
SubmissionsAgree == \A x \in submissions : request[x.work] = x.request

\* "`mncs-commons work claim --lane SHARED_CORE` enforces the single-writer
\* invariant" (docs/PARALLEL_WORK.md).
SingleWriter ==
    \A v, w \in Works :
        Active(v) /\ Active(w) /\ Lane[v] = SharedCore /\ Lane[w] = SharedCore => v = w
=============================================================================
