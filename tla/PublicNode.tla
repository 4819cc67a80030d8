----------------------------- MODULE PublicNode -----------------------------
(***************************************************************************)
(* The public node of http_server.py over the store, the visibility        *)
(* policy of visibility.py and the clients of remote.py.                   *)
(*                                                                         *)
(* One event loop runs every request.  It is given up only while a body is *)
(* awaited, so a request is one step up to its body and one from there on, *)
(* except that a local process may write to the same store between the     *)
(* reads and the write of a publication.  The ledger is the append-only    *)
(* log that CommonsStore implements.  Records are the numbers of their     *)
(* digests; an event has no contentDigest.                                 *)
(***************************************************************************)
EXTENDS Traversal, FiniteSetsExt

CONSTANTS
    Clients,
    SourceOf,        \* client -> the address that _source finds for it
    Records,
    Events,
    PublicRecords,   \* records that validate_for_exchange accepts
    Logical, Revision, Previous,   \* record -> its logical identity, revision number and
                                   \* the record that it says it follows, or None
    Size,            \* entry -> the length of its canonical form
    Links,           \* the relationships between records
    OpenWork,        \* records that work_queue lists
    Experiments,     \* records of kind ConceptExperiment, one experiment
    RequestsOf,      \* client -> the requests it sends
    Policies,        \* what the policy file may withhold at first
    None,
    Window, SourceLimit, GlobalLimit,   \* per kind of request, "read" or "write"
    MaxBody,         \* max_request_bytes
    MaxSyncEntries, MaxResults,
    MaxResponse,     \* max_response_bytes
    MaxLedgerEntries, MaxContent,
    MaxLocal,        \* bound on the writes of the local process
    MaxFaults        \* bound on restarts, changes of policy and clients that give up

Kinds == {"read", "write"}
Sources == {SourceOf[c] : c \in Clients}

ASSUME NodeAssumption ==
    /\ Window \in [Kinds -> Nat \ {0}]
    /\ SourceLimit \in [Kinds -> Nat] /\ GlobalLimit \in [Kinds -> Nat]
    /\ PublicRecords \subseteq Records
    /\ Size \in [Records \cup Events -> Nat]
    /\ None \notin {"WRITE_DISABLED", "NODE_CAPACITY_REACHED", "PUBLIC_POLICY_REJECTED"}

VARIABLES
    mode,        \* "read-only" or "anonymous-public"
    ledger,      \* records and events in the order they were added
    policy,      \* what the policy file withholds
    withheld,    \* what the node withholds: the policy when it started
    windows,     \* kind -> the ages of the requests allowed, by source and of all
    conn,        \* client -> its request and how far the node is with it
    cursor,      \* client -> its place in the ledger
    held,        \* client -> the records it was sent
    locals, faults,
    recent,      \* kind -> the ages of the requests allowed in the last window
    ingested,    \* record -> the times a publication of it was answered 201
    acked,       \* records whose publication was answered 200 or 201
    sealed,      \* records withheld ever since the node first started
    hidden       \* records withheld at some time

store == <<ledger, policy, locals, faults>>
ghosts == <<recent, ingested, acked, sealed, hidden>>
vars == <<mode, store, withheld, windows, conn, cursor, held, ghosts>>

Idle == [at |-> "idle"]
Stored == Range(ledger) \cap Records
Publishing == {c \in Clients : conn[c].at \in {"get", "add"}}
Free == Publishing = {}

-----------------------------------------------------------------------------
\* _WindowLimiter: a window is the sequence of the ages of what it allowed.

Kind(q) == IF q.route = "publish" THEN "write" ELSE "read"

\* The routes that are served without a look at the limiter.
Exempt == {"discover"}

\* The loop of popleft: what is at least as old as the window leaves at the front.
DropOld(ages, window) ==
    LET old == Max({n \in 0..Len(ages) : \A i \in 1..n : ages[i] >= window})
    IN  SubSeq(ages, old + 1, Len(ages))

\* Mutant of Trim: an entry is dropped one unit early.
TrimEarly(ages, kind) == DropOld(ages, Window[kind] - 1)

\* Mutant of Trim: nothing leaves a window that is full.
TrimNotFull(ages, kind) ==
    IF Len(ages) < SourceLimit[kind] THEN DropOld(ages, Window[kind]) ELSE ages

Trim(ages, kind) == DropOld(ages, Window[kind])

NoRequests == [k \in Kinds |-> [of |-> [s \in Sources |-> <<>>], all |-> <<>>]]

Trimmed(w, source, kind) ==
    [w EXCEPT ![kind].of[source] = Trim(@, kind), ![kind].all = Trim(@, kind)]

Allows(w, source, kind) ==
    /\ Len(w[kind].of[source]) < SourceLimit[kind]
    /\ Len(w[kind].all) < GlobalLimit[kind]

Counted(w, source, kind) ==
    [w EXCEPT ![kind].of[source] = Append(@, 0), ![kind].all = Append(@, 0)]

\* Ages beyond the window of their kind are not told apart.
Older(ages, kind) ==
    [i \in DOMAIN ages |-> IF ages[i] < Window[kind] THEN ages[i] + 1 ELSE ages[i]]

Tick ==
    /\ windows' = [k \in Kinds |->
                     [of |-> [s \in Sources |-> Older(windows[k].of[s], k)],
                      all |-> Older(windows[k].all, k)]]
    /\ LET StillRecent(ages, k) == DropOld([i \in DOMAIN ages |-> ages[i] + 1], Window[k])
       IN  recent' = [k \in Kinds |->
                        [of |-> [s \in Sources |-> StillRecent(recent[k].of[s], k)],
                         all |-> StillRecent(recent[k].all, k)]]
    /\ UNCHANGED <<mode, store, withheld, conn, cursor, held>>
    /\ UNCHANGED <<ingested, acked, sealed, hidden>>

-----------------------------------------------------------------------------
\* What the routes answer.

Refused(code) == [status |-> "error", code |-> code, records |-> {}, next |-> None]
Sent(records, next) == [status |-> "ok", code |-> None, records |-> records, next |-> next]

SizeOf(entry) == Size[entry]
Bytes(entries) == MapThenSumSet(SizeOf, entries)

\* _response_body, for an answer that carries the entries: one that is too large
\* becomes an error.
Respond(entries, next) ==
    IF Bytes(entries) > MaxResponse THEN Refused("RESPONSE_TOO_LARGE")
    ELSE Sent(entries \cap Records, next)

Ok(entries) == Respond(entries, None)

Visible(records) == records \ withheld

\* The list is in the order of digests and is cut at the limit.
FirstOf(records, limit) ==
    {x \in records : Cardinality({y \in records : y < x}) < limit}

\* The policy is asked about the digest before the store is.
GetRecord(d) ==
    CASE d \in withheld -> Refused("VISIBILITY_WITHHELD")
      [] d \notin withheld /\ d \notin Stored -> Refused("UNKNOWN_RECORD")
      [] OTHER -> Ok({d})

\* work_queue cuts the list before what is withheld is left out, _query after.
Work == Ok(Visible(FirstOf(Stored \cap OpenWork, MaxResults)))
Query == Ok(FirstOf(Visible(Stored), MaxResults))

\* _descriptor names the open work that the work route answers with, and only names it.
Discover == Sent(Visible(FirstOf(Stored \cap OpenWork, MaxResults)), None)

LinksStored == {l \in Links : l[1] \in Stored /\ l[2] \in Stored}

\* bounded_graph, when it is not cut off by its number of nodes.
Around(root, depth) == Within(LinksStored, {root} \cap Stored, depth)

\* The conversation route has no return of its own and ends as this one.
EvidenceTrace(root) == Ok(Visible(Around(root, 3)))

\* The experiment and its revisions are answered as they are, what is related to
\* them only when it is visible.
Experiment ==
    LET revisions == Stored \cap Experiments
    IN  IF revisions = {} THEN Refused("STORE_UNAVAILABLE")
        ELSE Ok(revisions \cup Visible(Around(Max(revisions), 3)))

Page(place, limit) == (place + 1)..Min({place + limit, Len(ledger)})

\* Mutant of SyncPage: the entries are not filtered.
SyncPageAll(place, limit) ==
    Respond({ledger[i] : i \in Page(place, limit)}, Min({place + limit, Len(ledger)}))

\* The page is cut from the ledger and then filtered; the cursor follows the page.
SyncPage(place, limit) ==
    Respond(Visible({ledger[i] : i \in Page(place, limit)}), Min({place + limit, Len(ledger)}))

Sync(place, limit) ==
    IF limit \in 1..MaxSyncEntries THEN SyncPage(place, limit)
    ELSE Refused("QUERY_LIMIT_EXCEEDED")

\* Every route but publish, for client c.
Served(c, q) ==
    CASE q.route = "get"         -> GetRecord(q.record)
      [] q.route = "work"        -> Work
      [] q.route = "discover"    -> Discover
      [] q.route = "query"       -> Query
      [] q.route = "sync"        -> Sync(cursor[c], q.limit)
      [] q.route \in {"conversation", "evidence-trace"} -> EvidenceTrace(q.record)
      [] q.route = "experiment"  -> Experiment
      [] OTHER                   -> Ok({})

-----------------------------------------------------------------------------
\* A request, from the client that sends it to the answer.

\* The answer is lost when the client has given up.
Answer(c, r) ==
    LET got == conn[c].there /\ r.status # "error"
    IN  /\ conn' = [conn EXCEPT ![c] = Idle]
        /\ held' = [held EXCEPT ![c] = IF got THEN @ \cup r.records ELSE @]
        /\ cursor' = [cursor EXCEPT ![c] = IF got /\ r.next # None THEN r.next ELSE @]

SyncRequests(c) == {q \in RequestsOf[c] : q.route = "sync" /\ q.limit \in 1..MaxSyncEntries}

Send(c, q) ==
    /\ conn[c].at = "idle"
    /\ conn' = [conn EXCEPT ![c] = [at |-> "sent", req |-> q, there |-> TRUE, total |-> 0]]
    /\ UNCHANGED <<mode, store, withheld, windows, cursor, held, ghosts>>

\* A timeout of the client; RemoteClient does not retry by itself.
GiveUp(c) ==
    /\ conn[c].at # "idle" /\ conn[c].there
    /\ faults < MaxFaults /\ faults' = faults + 1
    /\ conn' = [conn EXCEPT ![c].there = FALSE]
    /\ UNCHANGED <<mode, ledger, policy, locals, withheld, windows, cursor, held, ghosts>>

\* _dispatch up to the body: the limiter, then the headers and the route.
Dispatch(c) ==
    LET q == conn[c].req
        source == SourceOf[c]
        kind == Kind(q)
        w == Trimmed(windows, source, kind)
        body == conn' = [conn EXCEPT ![c].at = "body"] /\ UNCHANGED <<cursor, held>>
    IN  /\ conn[c].at = "sent" /\ Free
        /\ IF q.route \in Exempt
           THEN Answer(c, Served(c, q)) /\ UNCHANGED <<windows, recent>>
           ELSE IF ~Allows(w, source, kind)
           THEN Answer(c, Refused("RATE_LIMITED")) /\ windows' = w /\ UNCHANGED recent
           ELSE /\ windows' = Counted(w, source, kind)
                /\ recent' = [recent EXCEPT ![kind].of[source] = Append(@, 0),
                                            ![kind].all = Append(@, 0)]
                /\ CASE q.headers # "fine"       -> Answer(c, Refused(q.headers))
                     [] q.headers = "fine" /\ q.route \in {"get", "work"} -> Answer(c, Served(c, q))
                     [] OTHER                    -> body
        /\ UNCHANGED <<mode, store, withheld, ingested, acked, sealed, hidden>>

AtCapacity == Len(ledger) >= MaxLedgerEntries \/ Bytes(Range(ledger)) >= MaxContent

\* validate_for_exchange: a Commons record, within the limits, public, without
\* attachments that run.
Exchangeable(r) == r \in PublicRecords

\* Why a publication is refused before the store is asked, or None.
Admit(q) ==
    CASE mode # "anonymous-public" -> "WRITE_DISABLED"
      [] mode = "anonymous-public" /\ AtCapacity -> "NODE_CAPACITY_REACHED"
      [] OTHER -> IF Exchangeable(q.record) THEN None ELSE "PUBLIC_POLICY_REJECTED"

\* _body and what follows the last chunk.
Body(c) ==
    LET q == conn[c].req
        total == conn[c].total + 1
    IN  /\ conn[c].at = "body" /\ Free
        /\ CASE ~conn[c].there -> Answer(c, Refused("INVALID_REQUEST"))
             [] conn[c].there /\ total > MaxBody -> Answer(c, Refused("REQUEST_TOO_LARGE"))
             [] conn[c].there /\ total <= MaxBody /\ total < q.size ->
                  conn' = [conn EXCEPT ![c].total = total] /\ UNCHANGED <<cursor, held>>
             [] OTHER ->
                  IF q.route # "publish" THEN Answer(c, Served(c, q))
                  ELSE IF Admit(q) # None THEN Answer(c, Refused(Admit(q)))
                  ELSE conn' = [conn EXCEPT ![c].at = "get"] /\ UNCHANGED <<cursor, held>>
        /\ UNCHANGED <<mode, store, withheld, windows, ghosts>>

\* publish of application/services.py: whether it is a duplicate.
PublishGet(c) ==
    /\ conn[c].at = "get"
    /\ conn' = [conn EXCEPT ![c].at = "add", ![c].total = IF conn[c].req.record \in Stored THEN 1 ELSE 0]
    /\ UNCHANGED <<mode, store, withheld, windows, cursor, held, ghosts>>

\* record_semantic_diagnostics, of the revisions: the first record of its logical
\* identity that arrives is taken whatever its revision, and from there on only the
\* one that follows the latest.
Diagnosed(r) ==
    LET same == {x \in Stored : Logical[x] = Logical[r]}
    IN  /\ r \notin same /\ same # {}
        /\ \A latest \in same :
              (\A x \in same : Revision[x] <= Revision[latest]) =>
                  Revision[r] # Revision[latest] + 1 \/ Previous[r] # latest

\* Mutant of Admits: the record is appended whether it is there or not.
AdmitsAgain(r) == TRUE

\* add_record: a record that is there already stays as it is.
Admits(r) == r \notin Stored

PublishAdd(c) ==
    LET r == conn[c].req.record
        duplicate == conn[c].total = 1
        refused == Diagnosed(r)
    IN  /\ conn[c].at = "add"
        /\ ledger' = IF ~refused /\ Admits(r) THEN Append(ledger, r) ELSE ledger
        /\ Answer(c, IF refused THEN Refused("STORE_UNAVAILABLE") ELSE Ok({}))
        /\ ingested' = IF refused \/ duplicate THEN ingested ELSE [ingested EXCEPT ![r] = @ + 1]
        /\ acked' = IF refused THEN acked ELSE acked \cup {r}
        /\ UNCHANGED <<mode, policy, locals, faults, withheld, windows>>
        /\ UNCHANGED <<recent, sealed, hidden>>

-----------------------------------------------------------------------------
\* The operator and the local process.

\* An agent on the node's own machine adds to the store.
LocalAdd(e) ==
    /\ locals < MaxLocal /\ locals' = locals + 1
    /\ e \notin Range(ledger)
    /\ e \in Records => ~Diagnosed(e)
    /\ ledger' = Append(ledger, e)
    /\ UNCHANGED <<mode, policy, faults, withheld, windows, conn, cursor, held>>
    /\ UNCHANGED <<recent, ingested, acked, sealed, hidden>>

\* visibility set and visibility clear: the file is replaced; the node does not
\* look at it again.
SetPolicy(d) ==
    /\ faults < MaxFaults /\ faults' = faults + 1
    /\ policy' = IF d \in policy THEN policy \ {d} ELSE policy \cup {d}
    /\ UNCHANGED <<mode, ledger, locals, withheld, windows, conn, cursor, held, ghosts>>

\* Nothing of the limiter and no request outlives the process.
Restart ==
    /\ faults < MaxFaults /\ faults' = faults + 1
    /\ withheld' = policy
    /\ sealed' = sealed \cap policy
    /\ hidden' = hidden \cup policy
    /\ windows' = NoRequests /\ recent' = NoRequests
    /\ conn' = [c \in Clients |-> Idle]
    /\ UNCHANGED <<mode, ledger, policy, locals, cursor, held, ingested, acked>>

Init ==
    /\ mode \in {"read-only", "anonymous-public"}
    /\ policy \in Policies
    /\ withheld = policy /\ sealed = policy /\ hidden = policy
    /\ ledger = <<>>
    /\ windows = NoRequests /\ recent = NoRequests
    /\ conn = [c \in Clients |-> Idle]
    /\ cursor = [c \in Clients |-> 0]
    /\ held = [c \in Clients |-> {}]
    /\ locals = 0 /\ faults = 0
    /\ acked = {}
    /\ ingested = [r \in Records |-> 0]

Handle(c) == Dispatch(c) \/ Body(c) \/ PublishGet(c) \/ PublishAdd(c)

Next ==
    \/ \E c \in Clients : Handle(c) \/ GiveUp(c) \/ \E q \in RequestsOf[c] : Send(c, q)
    \/ \E e \in Records \cup Events : LocalAdd(e)
    \/ \E d \in Records : SetPolicy(d)
    \/ Tick \/ Restart

Spec == Init /\ [][Next]_vars

\* Time passes, the loop takes what is ready in turn, although a publication holds it
\* again and again, and a client that follows the node asks again whenever it can.
Progress ==
    /\ WF_vars(Tick)
    /\ \A c \in Clients :
          /\ SF_vars(Handle(c))
          /\ WF_vars(\E q \in SyncRequests(c) : Send(c, q))

FairSpec == Spec /\ Progress

-----------------------------------------------------------------------------
\* Properties.

\* The type of the requests, of the limiter's windows and of the clients' cursors.
TypeOK ==
    /\ mode \in {"read-only", "anonymous-public"}
    /\ ledger \in Seq(Records \cup Events)
    /\ policy \subseteq Records /\ withheld \subseteq Records
    /\ \A c \in Clients :
          /\ conn[c].at \in {"idle", "sent", "body", "get", "add"}
          /\ conn[c].at # "idle" => conn[c].req \in RequestsOf[c] /\ conn[c].total \in 0..MaxBody
          /\ cursor[c] \in 0..Len(ledger)
          /\ held[c] \subseteq Stored
    /\ Cardinality(Publishing) <= 1
    /\ \A k \in Kinds : Len(windows[k].all) <= GlobalLimit[k]

\* In any window of time since the node started no source and not all sources
\* together were allowed more requests than their limits, refused ones included.
RateBound ==
    \A k \in Kinds :
        /\ \A s \in Sources : Len(recent[k].of[s]) <= SourceLimit[k]
        /\ Len(recent[k].all) <= GlobalLimit[k]

\* A record that the policy has withheld ever since the node first started reaches
\* no client, by any route and at any time, except as the experiment asked for.
WithheldStaysHome ==
    \A c \in Clients : held[c] \cap sealed \subseteq Experiments

\* A publication is answered 201 at most once for a record, however often it is
\* retried, given up or raced by a local write, and what was answered 200 or 201
\* is in the ledger, once.
IngestedOnce ==
    /\ \A r \in Records : ingested[r] <= 1
    /\ \A r \in acked : Cardinality({i \in DOMAIN ledger : ledger[i] = r}) = 1

\* The page that a client asks for is too large for an answer, whichever of its
\* requests it sends; its cursor does not move.
Blocked(c) ==
    \A q \in SyncRequests(c) : Sync(cursor[c], q.limit).code = "RESPONSE_TOO_LARGE"

\* A source of its own, and a limit for all that the others cannot use up.
Unstarved(c) ==
    /\ \A d \in Clients \ {c} : SourceOf[d] # SourceOf[c]
    /\ SourceLimit["read"] > 0
    /\ GlobalLimit["read"] >= SourceLimit["read"] * Cardinality(Sources)

\* A client that goes on synchronizing gets each record that was never withheld,
\* although a page may be withheld as a whole, a restart forgets its requests and
\* requests may be rate limited, however many others there are: unless others of its
\* source or a global limit below those of the sources starve it, or its page is too
\* large and stays so.
Follows ==
    \A c \in Clients, r \in Records :
        (SyncRequests(c) # {} /\ Unstarved(c)) =>
            (<>[]~Blocked(c) => (r \in Stored ~> (r \in held[c] \/ r \in hidden)))
=============================================================================
