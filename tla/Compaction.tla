----------------------------- MODULE Compaction -----------------------------
(***************************************************************************)
(* Retention and compaction of a store: src/mncs_commons/retention.py and  *)
(* archive.py, with install_generation, verify, get and sync_since of      *)
(* store.py.  Processes add entries, pin records, and replace the hot      *)
(* ledger by a generation that keeps only the records that did not expire; *)
(* a consumer follows the ledger by cursors.  Adds are atomic here: their  *)
(* file effects are the subject of CommonsStore.  The tail file is left    *)
(* out: a tail of another generation is never trusted (TrustedTailIsRight).*)
(***************************************************************************)
EXTENDS Naturals, Sequences, SequencesExt, FiniteSets, FiniteSetsExt

CONSTANTS
    Info,            \* entry -> what it says, see Entries
    Stored,          \* sequence of the entries the store starts with
    Compactors,      \* processes that compact
    Pinners,         \* processes that pin and unpin
    EphemeralTtl,    \* policy.ephemeral_ttl_days
    DiagnosticTtl,   \* policy.diagnostic_ttl_days
    Gone,            \* a file or directory that does not exist
    MaxDay,          \* bound on the clock
    MaxArchives,     \* bound on compactions
    MaxPins,         \* bound on pin and unpin calls
    MaxCrashes       \* bound on crashes

Entries == DOMAIN Info

RecordIds == {x \in Entries : Info[x].type = "record"}
EventIds  == {x \in Entries : Info[x].type = "event"}

ASSUME CompactionAssumption ==
    /\ \A x \in Entries : Info[x].type \in {"record", "event"} /\ Info[x].created \in Nat
    /\ \A x \in EventIds : Info[x].target \in RecordIds
    /\ Stored \in Seq(Entries)
    /\ Compactors \cap Pinners = {} /\ Gone \notin Compactors \cup Pinners
    /\ EphemeralTtl \in Nat /\ DiagnosticTtl \in Nat
    /\ MaxDay \in Nat /\ MaxArchives \in Nat /\ MaxPins \in Nat /\ MaxCrashes \in Nat

VARIABLES
    ledger,    \* hot ledger: sequence of rows
    content,   \* [record, event]: the content files of the hot store
    lock,      \* holder of the writer lock, or Gone
    staging,   \* .compaction-staging
    archives,  \* the archives, in the order they were made
    pins,      \* retention-pins.json
    call,      \* process -> the call it is in
    day,       \* the clock
    consumer,  \* [sequence, digest, seen]: a consumer of sync_since
    acked,     \* entries whose add returned (history)
    pinned,    \* pins that returned, less the unpins (history)
    raced,     \* what was added or pinned beside a compaction (history)
    calls,     \* pin and unpin calls so far
    crashes

hotVars     == <<ledger, content>>
historyVars == <<acked, pinned, raced>>
vars == <<ledger, content, lock, staging, archives, pins, call, day, consumer,
          acked, pinned, raced, calls, crashes>>

Processes == Compactors \cup Pinners

Row(x) == [type |-> Info[x].type, of |-> x]
SnapshotRow(a) == [type |-> "snapshot", of |-> a]

\* The entries of a type in the rows of a ledger: records() and events().
Hot(rows, type) == {rows[i].of : i \in {j \in DOMAIN rows : rows[j].type = type}}

-----------------------------------------------------------------------------
\* Retention classes and protection.

\* PROTECTED_KINDS.
ProtectedKinds ==
    {"ConceptExperiment", "FailureClassification", "Claim", "Decision", "Finding", "Question",
     "Hypothesis", "FailedApproach", "Handoff", "Thread", "Epoch", "EpochSummary",
     "ReplicationSeries", "ObservationSeries"}

\* classify_record: by kind, and by the detail that decides within the kind (the
\* state of a request, the outcome, or the label of a passing observation).
ClassifyRecord(x) ==
    LET kind == Info[x].kind
        detail == Info[x].detail
    IN  CASE kind \in ProtectedKinds -> "canonical"
          [] kind = "WorkRequest" ->
                IF detail \in {"open", "claimed", "responded"} THEN "canonical" ELSE "diagnostic"
          [] kind = "ArtifactReference" -> "evidence"
          [] kind = "Replication" -> IF detail = "FAIL" THEN "evidence" ELSE "ephemeral"
          [] kind = "Observation" ->
                IF detail \in {"FAIL", "UNKNOWN"} THEN "diagnostic"
                ELSE IF detail \in {"canonical", "evidence"} THEN detail ELSE "ephemeral"
          [] OTHER -> "diagnostic"

\* referenced_digests: the sources, relationship targets, details and evidence.
ReferencedDigests(x) == Info[x].refs

\* Mutant of ProtectionGraph: references are followed one step.
ProtectionOneStep(records) ==
    LET roots == {x \in records : ClassifyRecord(x) = "canonical"}
    IN  roots \cup UNION {ReferencedDigests(x) : x \in roots}

\* protection_graph: what the canonical records name, through any number of
\* records of the store.
ProtectionGraph(records) ==
    LET Follow(found) == found \cup UNION {ReferencedDigests(x) : x \in found \cap records}
        reach[n \in 0..Cardinality(records)] ==
            IF n = 0 THEN {x \in records : ClassifyRecord(x) = "canonical"}
                     ELSE Follow(reach[n - 1])
    IN  reach[Cardinality(records)]

\* The record has outlived its class.
Expired(x, today) ==
    \/ ClassifyRecord(x) = "ephemeral" /\ today - Info[x].created >= EphemeralTtl
    \/ ClassifyRecord(x) = "diagnostic" /\ today - Info[x].created >= DiagnosticTtl

\* _all_candidates.
Candidates(records, pinSet, today) ==
    {x \in records : x \notin ProtectionGraph(records) \cup pinSet /\ Expired(x, today)}

-----------------------------------------------------------------------------
\* The store.

\* Whether a store of these rows and files accepts x: the target of an event is
\* a record there, a revision follows the latest revision there.
Accepts(rows, x) ==
    LET there == {y \in Hot(rows, "record") :
                    Info[x].type = "record" /\ Info[y].logical = Info[x].logical}
    IN  IF Info[x].type = "event"
        THEN Info[x].target \in Hot(rows, "record")
        ELSE \A y \in there : (\A z \in there : Info[z].revision <= Info[y].revision) =>
                                 Info[x].revision = Info[y].revision + 1

\* verify: every entry of the ledger has its content file, and no other has.
Verified(rows, files) ==
    /\ files.record = Hot(rows, "record")
    /\ files.event = Hot(rows, "event")

\* get: the hot ledger, then the archives.
Get(x) == x \in Hot(ledger, "record") \cup Hot(ledger, "event")
            \/ \E i \in DOMAIN archives : x \in archives[i].records

\* A compaction has read the store and has not replaced it yet.
Busy == \E p \in Compactors : call[p].pc \notin {"idle", "records", "done"}

\* add_record and add_event.  (An entry that is there is a duplicate: no change.)
Add(x) ==
    /\ lock = Gone
    /\ x \notin Hot(ledger, Info[x].type)
    /\ Info[x].created = day
    /\ Accepts(ledger, x)
    /\ ledger' = Append(ledger, Row(x))
    /\ content' = [content EXCEPT ![Info[x].type] = @ \cup {x}]
    /\ acked' = acked \cup {x}
    /\ raced' = IF Busy THEN raced \cup {x} ELSE raced
    /\ UNCHANGED <<lock, staging, archives, pins, call, day, consumer, pinned, calls, crashes>>

-----------------------------------------------------------------------------
\* Pins: read, changed, written back.

\* records and events are the ledger as it was when each was read, todo the entries
\* that are still to be added to the new generation.
Idle == [pc |-> "idle", records |-> <<>>, events |-> <<>>, todo |-> {}, archive |-> 0,
         pins |-> {}, digest |-> Gone]

Goto(p, label) == call' = [call EXCEPT ![p].pc = label]

Return(p) == call' = [call EXCEPT ![p] = Idle]

\* pin and unpin: the file is read.
PinRead(p, x, op) ==
    /\ call[p].pc = "idle"
    /\ calls < MaxPins
    /\ calls' = calls + 1
    /\ call' = [call EXCEPT ![p] = [Idle EXCEPT !.pc = op, !.digest = x, !.pins = pins]]
    /\ UNCHANGED <<hotVars, lock, staging, archives, pins, day, consumer, historyVars, crashes>>

\* The file is replaced.
PinWrite(p) ==
    LET x == call[p].digest
    IN  /\ call[p].pc \in {"pin", "unpin"}
        /\ pins' = IF call[p].pc = "pin" THEN call[p].pins \cup {x} ELSE call[p].pins \ {x}
        /\ pinned' = IF call[p].pc = "pin" THEN pinned \cup {x} ELSE pinned \ {x}
        /\ raced' = IF call[p].pc = "pin" /\ Busy THEN raced \cup {x} ELSE raced
        /\ Return(p)
        /\ UNCHANGED <<hotVars, lock, staging, archives, day, consumer, acked, calls, crashes>>

-----------------------------------------------------------------------------
\* compact(confirm, not dry_run).

\* records = list(self.store.records())
CompactRecords(p) ==
    /\ call[p].pc = "idle"
    /\ Len(archives) < MaxArchives
    /\ call' = [call EXCEPT ![p] = [Idle EXCEPT !.pc = "events", !.records = ledger]]
    /\ UNCHANGED <<hotVars, lock, staging, archives, pins, day, consumer, historyVars, calls,
                   crashes>>

\* events = list(self.store.events())
CompactEvents(p) ==
    /\ call[p].pc = "events"
    /\ call' = [call EXCEPT ![p].pc = "select", ![p].events = ledger]
    /\ UNCHANGED <<hotVars, lock, staging, archives, pins, day, consumer, historyVars, calls,
                   crashes>>

\* The candidates are chosen among the records that were read, and what is to be
\* added to the new generation is everything else; none: "blocked".
CompactSelect(p) ==
    LET records == Hot(call[p].records, "record")
        gone    == Candidates(records, pins, day)
        keep    == records \ gone
        keepEvents == {x \in Hot(call[p].events, "event") : Info[x].target \in keep}
    IN  /\ call[p].pc = "select"
        /\ IF gone = {} THEN Return(p)
                        ELSE call' = [call EXCEPT ![p].pc = "archive", ![p].todo = keep \cup keepEvents]
        /\ UNCHANGED <<hotVars, lock, staging, archives, pins, day, consumer, historyVars, calls,
                       crashes>>

\* Mutant of CompactArchive: only what stays in the hot store is archived.
CompactArchiveKept(p) ==
    LET c == call[p]
    IN  /\ c.pc = "archive"
        /\ archives' = Append(archives, [ledger |-> ledger, events |-> Hot(c.events, "event"),
                                         records |-> Hot(c.records, "record") \cap c.todo])
        /\ call' = [call EXCEPT ![p].pc = "stage", ![p].archive = Len(archives) + 1]
        /\ UNCHANGED <<hotVars, lock, staging, pins, day, consumer, historyVars, calls, crashes>>

\* create_archive and verify_archive: the ledger as it is now, the payloads as
\* they were read.
CompactArchive(p) ==
    LET c == call[p]
    IN  /\ c.pc = "archive"
        /\ archives' = Append(archives, [ledger |-> ledger, records |-> Hot(c.records, "record"),
                                         events |-> Hot(c.events, "event")])
        /\ call' = [call EXCEPT ![p].pc = "stage", ![p].archive = Len(archives) + 1]
        /\ UNCHANGED <<hotVars, lock, staging, pins, day, consumer, historyVars, calls, crashes>>

\* What is left of a staging directory is removed; the new one starts with the
\* snapshot row.
CompactStage(p) ==
    /\ call[p].pc = "stage"
    /\ staging' = [rows |-> <<SnapshotRow(call[p].archive)>>, record |-> {}, event |-> {}]
    /\ Goto(p, "fill")
    /\ UNCHANGED <<hotVars, lock, archives, pins, day, consumer, historyVars, calls, crashes>>

\* The first of the entries in the order of a ledger.
FirstIn(rows, entries) ==
    rows[Min({i \in DOMAIN rows : rows[i].type # "snapshot" /\ rows[i].of \in entries})].of

\* for record in keep, and then for event in keep_events.
NextOf(c) ==
    IF c.todo \cap RecordIds # {} THEN FirstIn(c.records, c.todo \cap RecordIds)
                                 ELSE FirstIn(c.events, c.todo)

\* The next entry is added to the staging store, or compact raises: the store is
\* not there, or does not accept the entry.
CompactFill(p) ==
    LET x == NextOf(call[p])
    IN  /\ call[p].pc = "fill"
        /\ call[p].todo # {}
        /\ IF staging # Gone /\ (x \in staging[Info[x].type] \/ Accepts(staging.rows, x))
           THEN /\ staging' = IF x \in staging[Info[x].type] THEN staging
                              ELSE [staging EXCEPT !.rows = Append(@, Row(x)),
                                                   ![Info[x].type] = @ \cup {x}]
                /\ call' = [call EXCEPT ![p].todo = @ \ {x}]
           ELSE Return(p) /\ UNCHANGED staging
        /\ UNCHANGED <<hotVars, lock, archives, pins, day, consumer, historyVars, calls, crashes>>

\* The lock is taken and install_generation verifies what it is to install.
InstallStart(p) ==
    /\ call[p].pc = "fill"
    /\ call[p].todo = {}
    /\ lock = Gone
    /\ IF staging # Gone /\ Verified(staging.rows, staging)
       THEN lock' = p /\ Goto(p, "ledger")
       ELSE Return(p) /\ UNCHANGED lock
    /\ UNCHANGED <<hotVars, staging, archives, pins, day, consumer, historyVars, calls, crashes>>

\* os.replace of the ledger (and of its tail file).
InstallLedger(p) ==
    /\ call[p].pc = "ledger"
    /\ ledger' = staging.rows
    /\ Goto(p, "record")
    /\ UNCHANGED <<content, lock, staging, archives, pins, day, consumer, historyVars, calls,
                   crashes>>

\* rmtree of the old directory, records and then events ...
InstallRemove(p) ==
    /\ call[p].pc \in {"record", "event"}
    /\ content' = [content EXCEPT ![call[p].pc] = {}]
    /\ Goto(p, IF call[p].pc = "record" THEN "move record" ELSE "move event")
    /\ UNCHANGED <<ledger, lock, staging, archives, pins, day, consumer, historyVars, calls,
                   crashes>>

\* ... and os.replace of the new one; after the second the staging directory is
\* removed and the lock released.
InstallMove(p) ==
    LET type == IF call[p].pc = "move record" THEN "record" ELSE "event"
    IN  /\ call[p].pc \in {"move record", "move event"}
        /\ content' = [content EXCEPT ![type] = staging[type]]
        /\ IF type = "record"
           THEN Goto(p, "event") /\ UNCHANGED <<lock, staging>>
           ELSE Return(p) /\ lock' = Gone /\ staging' = Gone
        /\ UNCHANGED <<ledger, archives, pins, day, consumer, historyVars, calls, crashes>>

Compact(p) ==
    \/ CompactRecords(p) \/ CompactEvents(p) \/ CompactSelect(p) \/ CompactArchive(p)
    \/ CompactStage(p) \/ CompactFill(p)
    \/ InstallStart(p) \/ InstallLedger(p) \/ InstallRemove(p) \/ InstallMove(p)

\* A process dies: its lock is released, its files stay as they are.
Crash(p) ==
    /\ call[p].pc # "idle"
    /\ crashes < MaxCrashes
    /\ crashes' = crashes + 1
    /\ Return(p)
    /\ lock' = IF lock = p THEN Gone ELSE lock
    /\ UNCHANGED <<hotVars, staging, archives, pins, day, consumer, historyVars, calls>>

Tick ==
    /\ day < MaxDay
    /\ day' = day + 1
    /\ UNCHANGED <<hotVars, lock, staging, archives, pins, call, consumer, historyVars, calls,
                   crashes>>

-----------------------------------------------------------------------------
\* sync_since.  The digest of a row stands for the ledger up to it (each digest
\* covers the one before), so it is modelled by that prefix.

DigestAt(rows, n) == SubSeq(rows, 1, n)

\* Mutant of CursorFits: only the sequence is compared.
CursorFitsBySequence(c) == c.sequence <= Len(ledger)

\* The cursor names a row of this ledger; else STALE_CURSOR.
CursorFits(c) ==
    c.sequence <= Len(ledger) /\ DigestAt(ledger, c.sequence) = c.digest

\* One page of one row; a consumer that is told STALE_CURSOR starts again.
SyncSince ==
    /\ IF CursorFits(consumer)
       THEN /\ consumer.sequence < Len(ledger)
            /\ LET n == consumer.sequence + 1
               IN  consumer' = [sequence |-> n, digest |-> DigestAt(ledger, n),
                                seen |-> consumer.seen \cup {ledger[n]}]
       ELSE consumer' = [sequence |-> 0, digest |-> <<>>, seen |-> {}]
    /\ UNCHANGED <<hotVars, lock, staging, archives, pins, call, day, historyVars, calls, crashes>>

-----------------------------------------------------------------------------
Init ==
    /\ ledger = [i \in DOMAIN Stored |-> Row(Stored[i])]
    /\ content = [type \in {"record", "event"} |-> Hot(ledger, type)]
    /\ lock = Gone
    /\ staging = Gone
    /\ archives = <<>>
    /\ pins = {}
    /\ call = [p \in Processes |-> Idle]
    /\ day = 0
    /\ consumer = [sequence |-> 0, digest |-> <<>>, seen |-> {}]
    /\ acked = ToSet(Stored) /\ pinned = {} /\ raced = {}
    /\ calls = 0
    /\ crashes = 0

Next ==
    \/ \E x \in Entries : Add(x)
    \/ \E p \in Pinners : PinWrite(p) \/ \E x \in RecordIds, op \in {"pin", "unpin"} : PinRead(p, x, op)
    \/ \E p \in Compactors : Compact(p)
    \/ \E p \in Processes : Crash(p)
    \/ SyncSince
    \/ Tick

Spec == Init /\ [][Next]_vars

-----------------------------------------------------------------------------
\* Properties.

\* The type of the files and of the calls.
TypeOK ==
    /\ \A i \in DOMAIN ledger : ledger[i].type \in {"record", "event", "snapshot"}
    /\ content.record \subseteq RecordIds /\ content.event \subseteq EventIds
    /\ lock \in Processes \cup {Gone}
    /\ pins \subseteq RecordIds /\ pinned \subseteq RecordIds
    /\ consumer.sequence = Len(consumer.digest)
    /\ Len(archives) <= MaxArchives /\ calls <= MaxPins /\ crashes <= MaxCrashes

\* "Pins and reference protection override TTL" (docs/INFORMATION_LIFECYCLE.md):
\* a record leaves the hot ledger only when it has expired, is not pinned, and no
\* canonical record leads to it: some set of hot records that holds the canonical
\* ones and all that its members name does without it.  What arrived beside the
\* compaction is excepted.
OnlyExpiredLeave ==
    [][\A x \in Hot(ledger, "record") \ (Hot(ledger', "record") \cup raced) :
          /\ Expired(x, day)
          /\ x \notin pinned
          /\ LET records == Hot(ledger, "record") \ raced
             IN  \E named \in SUBSET (records \ {x}) :
                    \A y \in records :
                        /\ ClassifyRecord(y) = "canonical" => y \in named
                        /\ y \in named => ReferencedDigests(y) \cap records \subseteq named]_vars

\* restore_archive: the ledger of the archive, with the payloads of the archive
\* as content files, verifies.
Restorable(a) == Verified(a.ledger, [record |-> a.records, event |-> a.events])

ArchivesRestorable ==
    \A i \in DOMAIN archives :
        Restorable(archives[i]) \/ \E j \in DOMAIN archives[i].ledger : archives[i].ledger[j].of \in raced

\* "keep resolving archived digests through store.get()": a record that was
\* acknowledged is in the hot ledger or in an archive, through any number of
\* compactions, crashes and repeated compactions, and each archive can be restored;
\* what arrived beside a compaction is excepted.
SettledRetrievable ==
    /\ \A x \in (acked \cap RecordIds) \ raced : Get(x)
    /\ ArchivesRestorable

\* "Read an ordered ledger slice without skipping entries" (sync_since): a cursor
\* that is accepted comes after rows that the consumer has all seen, although the
\* ledger was replaced in the meantime.
SyncSkipsNothing ==
    CursorFits(consumer) =>
        \A i \in 1..consumer.sequence : ledger[i] \in consumer.seen
=============================================================================
