-------------------------------- MODULE Mesh --------------------------------
(***************************************************************************)
(* The Commons mesh of src/mncs_commons/mesh: nodes that hold records,     *)
(* a relay, a bundle file, and synchronize, which pulls what a node is     *)
(* missing over a carrier and then pushes what the other side is missing.  *)
(* Identities are numbers, in the order of the digests: frontiers are      *)
(* sorted by them.  A batch is the set of what is left of it, which is     *)
(* gone through in the order of the list that the code has.                *)
(***************************************************************************)
EXTENDS Interest, Sequences

CONSTANTS
    Nodes,         \* the nodes; each runs one call at a time
    Links,         \* <<node, carrier>>: carriers a node synchronizes over
    PushLinks,     \* links over which it pushes too (the parameter push of synchronize)
    Info,          \* digest -> what is known of the record or event
    Produced,      \* node -> digests that are produced there
    InterestOf,    \* node -> its interest
    PushInterest,  \* node -> push_interest of its calls, by default MatchAll
    Limit,         \* MAX_SYNC_RECORDS, or the limit of a call
    RelayLimit,    \* MAX_CAPSULES of the relay
    NoOrigin,      \* a digest without an origin mark
    NoBundle,      \* no bundle was exported
    Offline,       \* node -> what it produced before it was connected
    Announced,     \* records that are announced by a capsule
    MaxFaults      \* bound on processes that die in a call and losses of the relay

Digests  == DOMAIN Info
RecordsD == {d \in Digests : Info[d].type = "record"}
EventsD  == {d \in Digests : Info[d].type = "event"}

ASSUME MeshAssumption ==
    /\ Digests \subseteq Nat
    /\ {"relay", "bundle", "local", NoOrigin} \cap Nodes = {} /\ NoOrigin # "local"
    /\ Links \subseteq Nodes \X (Nodes \cup {"relay", "bundle"}) /\ \A l \in Links : l[1] # l[2]
    /\ PushLinks \subseteq Links
    /\ \A d \in EventsD : Info[d].target \in RecordsD
    /\ \A n \in Nodes : Produced[n] \subseteq Digests
    /\ Limit \in Nat \ {0} /\ RelayLimit \in Nat
    /\ DOMAIN Offline = Nodes
    /\ \A n \in Nodes :
          /\ Offline[n] \in Seq(Produced[n])
          /\ \A i, j \in 1..Len(Offline[n]) : Offline[n][i] = Offline[n][j] => i = j
    /\ Announced \subseteq RecordsD
    /\ \A d \in RecordsD : {"kind", "projects", "contracts", "producer", "outcomes", "relations",
                            "labels", "open"} \subseteq DOMAIN Info[d]
    /\ MaxFaults \in Nat

VARIABLES
    store,     \* node -> the digests in its ledger, in order
    origins,   \* node -> digest -> origin mark (mesh-state.json)
    relay,     \* [records, capsules]
    bundle,    \* digests in the bundle file
    call,      \* node -> the call its process is in
    faults

vars == <<store, origins, relay, bundle, call, faults>>

Held(n) == {store[n][i] : i \in 1..Len(store[n])}

-----------------------------------------------------------------------------
\* The store of a node, as the mesh uses it.

\* record_semantic_diagnostics, of the revisions.
Admissible(held, d) ==
    LET same == {e \in held \cap RecordsD : Info[e].logical = Info[d].logical}
    IN  \/ same = {} \/ d \in same
        \/ \E latest \in same :
              /\ \A e \in same : Info[e].revision <= Info[latest].revision
              /\ Info[d].revision = Info[latest].revision + 1 /\ Info[d].previous = latest

\* lifecycle: the state that a node's own events give a record, the last one of
\* them (each takes effect, see CommonsStore!EventsTakeEffect).
StateAt(n, d) ==
    LET at == {i \in 1..Len(store[n]) : store[n][i] \in EventsD /\ Info[store[n][i]].target = d}
    IN  IF at = {} THEN "proposed"
        ELSE Info[store[n][CHOOSE i \in at : \A j \in at : j <= i]].state

-----------------------------------------------------------------------------
\* Carriers.

\* fetch_frontier.
Frontier(c) ==
    CASE c \in Nodes   -> Held(c)
      [] c = "relay"   -> relay.records \cup relay.capsules
      [] c = "bundle"  -> bundle

\* import_bundle into an empty store, in the order of the digests.
Importable(ds) ==
    \A d \in ds \cap RecordsD : Admissible({e \in ds : e < d}, d)

\* Mutant of Fetched: everything that was asked for is handed over, events too.
FetchedAll(c, ds) == Frontier(c) \cap ds

\* fetch_records.
Fetched(c, ds) ==
    CASE c \in Nodes  -> Held(c) \cap RecordsD \cap ds
      [] c = "relay"  -> relay.records \cap ds
      [] c = "bundle" -> bundle \cap RecordsD \cap ds

\* A sorted list, cut at a limit.
FirstOf(ds, k) == {d \in ds : Cardinality({e \in ds : e < d}) < k}

Selected(n, ds) ==
    {d \in ds \cap RecordsD : Matches(d, Info[d], PushInterest[n], StateAt(n, d))}

\* Mutant of SelectForPeer: the difference of the frontiers is taken the other way round.
SelectForPeerSwapped(n, remote) == FirstOf(Selected(n, remote \ Held(n)), Limit)

\* select_for_peer.
SelectForPeer(n, remote) == FirstOf(Selected(n, Held(n) \ remote), Limit)

-----------------------------------------------------------------------------
\* Calls.

NoCall == [pc |-> "idle", carrier |-> "relay", remote |-> {}, batch |-> {}, seen |-> {}]

Set(n, fields) == call' = [call EXCEPT ![n] = fields]

Return(n) == Set(n, NoCall)

\* The node that a batch is for: the caller, or the peer that it is pushed to.
Receiver(n) == IF call[n].pc \in {"push", "push mark", "push save"} THEN call[n].carrier ELSE n

\* The next record of a batch: a peer answers in the order of its ledger, the other
\* lists are sorted by digest.
Place(n, d) ==
    IF Receiver(n) = n /\ call[n].carrier \in Nodes
    THEN CHOOSE i \in 1..Len(store[call[n].carrier]) : store[call[n].carrier][i] = d
    ELSE d

NextOf(n) == CHOOSE d \in call[n].batch : \A e \in call[n].batch : Place(n, d) <= Place(n, e)

\* publish_local: the record is added, unless it is held, and then its origin marked,
\* whatever the mark was before.
Publish(n, d) ==
    /\ call[n].pc = "idle"
    /\ d \in Produced[n] \cap RecordsD
    /\ Admissible(Held(n), d)
    /\ store' = [store EXCEPT ![n] = IF d \in Held(n) THEN @ ELSE Append(@, d)]
    /\ Set(n, [NoCall EXCEPT !.pc = "mark", !.carrier = "local", !.batch = {d}])
    /\ UNCHANGED <<origins, relay, bundle, faults>>

\* A lifecycle event of the node's own domain.
AddEvent(n, e) ==
    /\ call[n].pc = "idle"
    /\ e \in Produced[n] \cap EventsD /\ e \notin Held(n) /\ Info[e].target \in Held(n)
    /\ store' = [store EXCEPT ![n] = Append(@, e)]
    /\ UNCHANGED <<origins, relay, bundle, call, faults>>

\* publish_capsule.
PublishCapsule(n, d) ==
    /\ call[n].pc = "idle"
    /\ d \in Announced \cap Held(n)
    /\ d \in relay.capsules \/ Cardinality(relay.capsules) < RelayLimit
    /\ relay' = [relay EXCEPT !.capsules = @ \cup {d}]
    /\ UNCHANGED <<store, origins, bundle, call, faults>>

\* BundleCarrier.export: the records of a node and the events on them, unless the
\* file exists.
ExportBundle(n) ==
    /\ call[n].pc = "idle"
    /\ bundle = NoBundle
    /\ bundle' = Held(n)
    /\ UNCHANGED <<store, origins, relay, call, faults>>

\* synchronize: the frontiers are compared, and what is missing is cut to the limit.
SyncStart(n, c) ==
    LET missing == FirstOf(Frontier(c) \ Held(n), Limit)
    IN  /\ call[n].pc = "idle"
        /\ c = "bundle" => bundle # NoBundle
        /\ Set(n, [NoCall EXCEPT !.pc = "fetch", !.carrier = c, !.remote = Frontier(c),
                                 !.batch = missing])
        /\ UNCHANGED <<store, origins, relay, bundle, faults>>

\* ... the records are fetched; a bundle that cannot be imported ends the call.
SyncFetch(n) ==
    LET c == call[n].carrier
    IN  /\ call[n].pc = "fetch"
        /\ IF c = "bundle" /\ ~Importable(bundle) THEN Return(n)
           ELSE Set(n, [call[n] EXCEPT !.pc = "pull", !.batch = Fetched(c, @)])
        /\ UNCHANGED <<store, origins, relay, bundle, faults>>

\* receive_records: what is too large, and on a pull what is not of interest, is
\* skipped.
Gate(n, d) ==
    /\ ~Info[d].large
    /\ call[n].pc = "pull" => Matches(d, Info[d], InterestOf[n], "none")

\* ingest_foreign, for the next record of the batch: a record the node holds is a
\* duplicate; one that the store refuses raises an error that nothing catches, and
\* the call ends with it.
Ingest(n) ==
    LET d == NextOf(n)
        r == Receiver(n)
    IN  /\ call[n].pc \in {"pull", "push"}
        /\ call[n].batch # {}
        /\ IF ~Gate(n, d) \/ d \in Held(r)
           THEN Set(n, [call[n] EXCEPT !.batch = @ \ {d}]) /\ UNCHANGED store
           ELSE IF ~Admissible(Held(r), d)
           THEN Return(n) /\ UNCHANGED store
           ELSE /\ store' = [store EXCEPT ![r] = Append(@, d)]
                /\ Set(n, [call[n] EXCEPT !.pc = IF @ = "pull" THEN "mark" ELSE "push mark"])
        /\ UNCHANGED <<origins, relay, bundle, faults>>

\* _mark_origin reads the state of the node ...
MarkRead(n) ==
    /\ call[n].pc \in {"mark", "push mark"}
    /\ Set(n, [call[n] EXCEPT !.pc = IF @ = "mark" THEN "save" ELSE "push save",
                              !.seen = origins[Receiver(n)]])
    /\ UNCHANGED <<store, origins, relay, bundle, faults>>

\* The source that a batch is marked with.
Source(n) == IF call[n].pc = "push save" THEN n ELSE call[n].carrier

\* Mutant of MarkWrite: the node that runs the call is marked as the source.
MarkWriteCaller(n) ==
    /\ call[n].pc \in {"save", "push save"}
    /\ origins' = [origins EXCEPT ![Receiver(n)] = [call[n].seen EXCEPT ![NextOf(n)] = n]]
    /\ IF call[n].carrier = "local" THEN Return(n)
       ELSE Set(n, [call[n] EXCEPT !.pc = IF @ = "save" THEN "pull" ELSE "push",
                                   !.batch = @ \ {NextOf(n)}, !.seen = {}])
    /\ UNCHANGED <<store, relay, bundle, faults>>

\* ... and writes it back with one mark more.
MarkWrite(n) ==
    /\ call[n].pc \in {"save", "push save"}
    /\ origins' = [origins EXCEPT ![Receiver(n)] =
                     [call[n].seen EXCEPT ![NextOf(n)] = Source(n)]]
    /\ IF call[n].carrier = "local" THEN Return(n)
       ELSE Set(n, [call[n] EXCEPT !.pc = IF @ = "save" THEN "pull" ELSE "push",
                                   !.batch = @ \ {NextOf(n)}, !.seen = {}])
    /\ UNCHANGED <<store, relay, bundle, faults>>

\* The push, if the call has one: a peer receives what it lacked when the call began,
\* a relay is offered it, a bundle is read-only.
PushSelect(n) ==
    LET c == call[n].carrier
    IN  /\ call[n].pc = "pull" /\ call[n].batch = {}
        /\ IF c = "bundle" \/ <<n, c>> \notin PushLinks THEN Return(n)
           ELSE Set(n, [call[n] EXCEPT !.pc = IF c = "relay" THEN "offer" ELSE "push",
                                       !.batch = SelectForPeer(n, call[n].remote), !.remote = {}])
        /\ UNCHANGED <<store, origins, relay, bundle, faults>>

PushDone(n) ==
    /\ call[n].pc \in {"push", "offer"} /\ call[n].batch = {}
    /\ Return(n)
    /\ UNCHANGED <<store, origins, relay, bundle, faults>>

\* offer_record loads the relay's records ...
OfferLoad(n) ==
    /\ call[n].pc = "offer" /\ call[n].batch # {}
    /\ Set(n, [call[n] EXCEPT !.pc = "offer save", !.seen = relay.records])
    /\ UNCHANGED <<store, origins, relay, bundle, faults>>

\* ... and saves them with one more, or refuses it when it is large or the table full.
OfferSave(n) ==
    LET d    == NextOf(n)
        seen == call[n].seen
    IN  /\ call[n].pc = "offer save"
        /\ IF Info[d].large \/ (d \notin seen /\ Cardinality(seen) >= RelayLimit)
           THEN UNCHANGED relay
           ELSE relay' = [relay EXCEPT !.records = seen \cup {d}]
        /\ Set(n, [call[n] EXCEPT !.pc = "offer", !.batch = @ \ {d}, !.seen = {}])
        /\ UNCHANGED <<store, origins, bundle, faults>>

-----------------------------------------------------------------------------
\* The process dies in a call: between the ledger and the mark, between the reading of
\* the state file and its replacement, between two records of a batch.
Crash(n) ==
    /\ call[n].pc # "idle"
    /\ faults < MaxFaults
    /\ faults' = faults + 1
    /\ Return(n)
    /\ UNCHANGED <<store, origins, relay, bundle>>

\* The relay is lost and set up again.
LoseRelay ==
    /\ faults < MaxFaults
    /\ faults' = faults + 1
    /\ relay' = [records |-> {}, capsules |-> {}]
    /\ UNCHANGED <<store, origins, bundle, call>>

Step(n) ==
    \/ SyncFetch(n) \/ Ingest(n) \/ MarkRead(n) \/ MarkWrite(n)
    \/ PushSelect(n) \/ PushDone(n) \/ OfferLoad(n) \/ OfferSave(n)

Next ==
    \/ \E n \in Nodes :
          \/ \E d \in Digests : Publish(n, d) \/ AddEvent(n, d) \/ PublishCapsule(n, d)
          \/ ExportBundle(n)
          \/ Step(n) \/ Crash(n)
    \/ \E l \in Links : SyncStart(l[1], l[2])
    \/ LoseRelay

Init ==
    /\ store = Offline
    /\ origins = [n \in Nodes |-> [d \in Digests |-> IF d \in Held(n) \cap RecordsD
                                                    THEN "local" ELSE NoOrigin]]
    /\ relay = [records |-> {}, capsules |-> {}]
    /\ bundle = NoBundle
    /\ call = [n \in Nodes |-> NoCall]
    /\ faults = 0

Spec == Init /\ [][Next]_vars

\* "continued opportunity to exchange" (mesh/node.py): every link is used again and
\* again, and a call that has begun goes on.
Fairness ==
    /\ \A n \in Nodes : WF_vars(Step(n))
    /\ \A l \in Links : SF_vars(SyncStart(l[1], l[2]))

FairSpec == Spec /\ Fairness

-----------------------------------------------------------------------------
\* Properties.

\* The ledgers hold each digest once, the tables keep their bounds.
TypeOK ==
    /\ \A n \in Nodes : /\ store[n] \in Seq(Digests)
                        /\ \A i, j \in 1..Len(store[n]) : store[n][i] = store[n][j] => i = j
    /\ Cardinality(relay.records) <= RelayLimit /\ Cardinality(relay.capsules) <= RelayLimit
    /\ faults <= MaxFaults

\* "the origin marker records where the bytes were learned from" (ingest_foreign):
\* whatever marks are lost in races and crashes, one that is there is true: a local
\* record was produced by the node, and the peer that a record is marked with holds it.
OriginsTruthful ==
    \A n \in Nodes, d \in Digests :
        LET o == origins[n][d]
        IN  /\ o = "local" => d \in Produced[n]
            /\ o \in Nodes => o # n /\ d \in Held(o)

\* "Delivery never promotes into correctness: foreign records land as proposed ... and
\* no lifecycle event is ever synthesized on ingest" (mesh/node.py): a frontier names
\* the events of its node too and the difference is asked for, but whatever is pulled,
\* pushed or read from a bundle, the events that a node replays are those of its own
\* domain.
PossessionOnly == \A n \in Nodes : Held(n) \cap EventsD \subseteq Produced[n]

\* "Is it relevant?" (mesh/capsule.py): a capsule that a node would retain is of a
\* record that it lacks and that its gate lets in.
TriageSound ==
    \A n \in Nodes, d \in relay.capsules :
        RetainCandidate(d, Info[d], InterestOf[n], Held(n)) =>
            d \notin Held(n) /\ Matches(d, Info[d], InterestOf[n], "none")

\* What a node's own pulls leave out for good, of what others make: events, what is too
\* large, and what is not of interest.
LeftOut(n) ==
    {d \in UNION {Produced[m] : m \in Nodes \ {n}} :
        d \in EventsD \/ Info[d].large \/ ~Matches(d, Info[d], InterestOf[n], "none")}

\* No two records that a node takes are revisions of one logical identity: of those,
\* the order of arrival decides which the store admits, and an error ends the call.
NoConflict(n) ==
    \A d, e \in RecordsD \ LeftOut(n) : Info[d].logical = Info[e].logical => d = e

\* The condition under which pulls get to a record: what is left out of the sorted
\* list of missing identities below it does not fill the limit of a call.
Reachable(n, d) ==
    /\ d \in RecordsD \ LeftOut(n) /\ NoConflict(n)
    /\ Cardinality({e \in LeftOut(n) : e < d}) < Limit

\* "both nodes eventually possess the same set of relevant immutable record
\* identities" (mesh/node.py): a record that some node holds gets to every other one
\* that it is reachable for, in as many calls as the limit takes.
Converges ==
    \A n \in Nodes : \A d \in {d \in Digests : Reachable(n, d)} :
        (\E m \in Nodes : d \in Held(m)) ~> d \in Held(n)
=============================================================================
