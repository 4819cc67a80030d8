---------------------------- MODULE CommonsStore ----------------------------
(***************************************************************************)
(* The filesystem store of src/mncs_commons/store.py: a hash-linked        *)
(* ledger, content files, a disposable tail file, journaled transactions   *)
(* and a writer lock, used by several processes that may crash at any      *)
(* step.                                                                   *)
(*                                                                         *)
(* A step of this module is one file system effect, or the reads between   *)
(* two of them under the writer lock (nothing they read can change: only   *)
(* the tail file is written without the lock).  A call that is refused     *)
(* changes nothing and is a stuttering step, unless it has already taken   *)
(* the lock in an earlier step.                                            *)
(***************************************************************************)
EXTENDS Semantic

CONSTANTS
    Procs,          \* processes and threads that open the store
    InitProcs,      \* those that call init()
    CursorProcs,    \* those that call current_cursor() (unlocked)
    NoProc,         \* the writer lock is free
    NoTail,         \* the tail file does not exist
    Oversized,      \* entries whose journal exceeds MAX_TRANSACTION_BYTES
    MaxLedgerRows,  \* MAX_LEDGER_ROWS: _rows raises beyond it
    TornWrites,     \* whether an append to the ledger can stop half-way
    MaxSnapshots,   \* bound on snapshot rows
    MaxCrashes      \* bound on crashes

ASSUME StoreAssumption ==
    /\ InitProcs \subseteq Procs
    /\ CursorProcs \subseteq Procs
    /\ NoProc \notin Procs
    /\ NoDigest \notin Payloads
    /\ TornWrites \in BOOLEAN
    /\ MaxLedgerRows \in Nat
    /\ MaxSnapshots \in Nat
    /\ MaxCrashes \in Nat

VARIABLES
    created,   \* ledger.jsonl exists
    ledger,    \* its complete rows
    torn,      \* it ends with an incomplete row
    tail,      \* .ledger-tail.json
    contents,  \* digests with a content file under records/ or events/
    pending,   \* the directories under .transactions
    lock,      \* holder of .writer.lock
    pc,        \* control point of each process
    item,      \* the payload an add is about (NoDigest: none)
    row,       \* the ledger row in hand
    seen,      \* what current_cursor has read so far
    acked,     \* entries some add_record/add_event has returned
    crashes

disk  == <<created, ledger, torn, tail, contents, pending>>
local == <<pc, item, row, seen>>
vars  == <<disk, lock, local, acked, crashes>>

-----------------------------------------------------------------------------
\* Ledger rows.  canonical_digest is collision free, so the digest of a row is
\* represented by what it commits to: the row, after its predecessor's digest.

Digests == Seq(Nat \X Payloads)
None    == <<>>

Rows == [seq : Nat, payload : Payloads, prev : Digests]

NoRow == [seq |-> 0, payload |-> Snapshot, prev |-> None]

EntryDigest(r) == Append(r.prev, <<r.seq, r.payload>>)

LastDigest == IF ledger = <<>> THEN None ELSE EntryDigest(ledger[Len(ledger)])

\* st_size of the ledger: a complete row counts two, a partial one counts one.
LedgerBytes == 2 * Len(ledger) + (IF torn THEN 1 ELSE 0)

Tails == [seq : Nat, digest : Digests, bytes : Nat]

EmptyTail == [seq |-> 0, digest |-> None, bytes |-> 0]

ASSUME TailAssumption == NoTail \notin Tails

\* _rows: raises on an incomplete line and beyond the row limit.
Readable == ~torn /\ Len(ledger) <= MaxLedgerRows

PayloadsOf(rows) == [i \in 1..Len(rows) |-> rows[i].payload]

Committed(x) == \E i \in 1..Len(ledger) : ledger[i].payload = x

\* _tail_from_rows.
TailFromRows == [seq |-> Len(ledger), digest |-> LastDigest, bytes |-> LedgerBytes]

\* The last line of the ledger carries the sequence and digest of the tail.
LastRowMatches(t) ==
    /\ ~torn
    /\ ledger # <<>>
    /\ ledger[Len(ledger)].seq = t.seq
    /\ EntryDigest(ledger[Len(ledger)]) = t.digest

\* Mutant of TailFits: the size recorded in the tail is not compared.
TailFitsAnySize(t, size) == t # NoTail

\* The acceptance test of _load_tail_locked: the tail file is of the ledger's
\* size; an empty tail is then taken without a look at the ledger.
TailFits(t, size) == t # NoTail /\ t.bytes = size

\* Mutant of TrustedTail: the last line of the ledger is not compared.
TrustedTailBySize(t, size) == TailFits(t, size)

TrustedTail(t, size) ==
    /\ TailFits(t, size)
    /\ (t.seq = 0 /\ t.digest = None) \/ LastRowMatches(t)

MakeLedgerRow(x, t) == [seq |-> t.seq + 1, payload |-> x, prev |-> t.digest]

\* A transaction directory, known by the row it was made for.
Transactions == [row : Rows, files : SUBSET {"journal", "content"}]

Transaction(r, f) == [row |-> r, files |-> f]

NothingSeen == [size |-> 0, tail |-> EmptyTail]

-----------------------------------------------------------------------------
Goto(p, label) == pc' = [pc EXCEPT ![p] = label]

\* The call returns or raises: the locals are dead, the lock is released.
Return(p) ==
    /\ Goto(p, "idle")
    /\ item' = [item EXCEPT ![p] = NoDigest]
    /\ row'  = [row EXCEPT ![p] = NoRow]
    /\ seen' = [seen EXCEPT ![p] = NothingSeen]
    /\ lock' = IF lock = p THEN NoProc ELSE lock

-----------------------------------------------------------------------------
\* init(): unlocked, each file is tested for and then written.

\* Mutant of InitStart: the ledger is written without a test that it is absent.
InitStartAlways(p) ==
    /\ p \in InitProcs
    /\ pc[p] = "idle"
    /\ Goto(p, "init_ledger")
    /\ UNCHANGED <<disk, lock, item, row, seen, acked, crashes>>

InitStart(p) ==
    /\ p \in InitProcs
    /\ pc[p] = "idle"
    /\ Goto(p, IF created THEN "init_tail" ELSE "init_ledger")
    /\ UNCHANGED <<disk, lock, item, row, seen, acked, crashes>>

InitLedger(p) ==
    /\ pc[p] = "init_ledger"
    /\ created' = TRUE
    /\ ledger'  = <<>>
    /\ torn'    = FALSE
    /\ Goto(p, "init_tail")
    /\ UNCHANGED <<tail, contents, pending, lock, item, row, seen, acked, crashes>>

InitTestTail(p) ==
    /\ pc[p] = "init_tail"
    /\ IF tail = NoTail
       THEN Goto(p, "init_write_tail") /\ UNCHANGED <<lock, item, row, seen>>
       ELSE Return(p)
    /\ UNCHANGED <<disk, acked, crashes>>

InitTail(p) ==
    /\ pc[p] = "init_write_tail"
    /\ tail' = EmptyTail
    /\ Return(p)
    /\ UNCHANGED <<created, ledger, torn, contents, pending, acked, crashes>>

-----------------------------------------------------------------------------
\* add_record, add_event and add_snapshot.

\* Mutant of EnterWriter: the lock is not taken.
EnterWriterUnlocked(p) == pc[p] = "idle" /\ created /\ pending = {}

\* _file_lock and _require_no_pending.
EnterWriter(p) ==
    /\ pc[p] = "idle"
    /\ created
    /\ lock = NoProc
    /\ pending = {}

\* The checks that precede _commit.
AddEntry(p, x) ==
    /\ EnterWriter(p)
    /\ Readable
    /\ ~Committed(x)
    /\ Admitted(x, PayloadsOf(ledger))
    /\ lock' = p
    /\ item' = [item EXCEPT ![p] = x]
    /\ Goto(p, "load")
    /\ UNCHANGED <<disk, row, seen, acked, crashes>>

\* The digest is in the ledger already: the call reports the entry as stored.
AckDuplicate(p, x) ==
    /\ EnterWriter(p)
    /\ Readable
    /\ Committed(x)
    /\ acked' = acked \cup {x}
    /\ UNCHANGED <<disk, lock, local, crashes>>

AddSnapshot(p) ==
    /\ EnterWriter(p)
    /\ Cardinality({i \in 1..Len(ledger) : ledger[i].payload = Snapshot}) < MaxSnapshots
    /\ lock' = p
    /\ item' = [item EXCEPT ![p] = Snapshot]
    /\ Goto(p, "load")
    /\ UNCHANGED <<disk, row, seen, acked, crashes>>

\* A snapshot row has no content file and no journal.
AfterLoad(p) == IF item[p] = Snapshot THEN "append" ELSE "mkdir"

\* _load_tail_locked, by the lock holder: take the tail file, or read the rows.
LoadTail(p) ==
    /\ pc[p] = "load"
    /\ \/ /\ TrustedTail(tail, LedgerBytes)
          /\ row' = [row EXCEPT ![p] = MakeLedgerRow(item[p], tail)]
          /\ Goto(p, AfterLoad(p))
          /\ UNCHANGED <<lock, item, seen>>
       \/ /\ ~TrustedTail(tail, LedgerBytes)
          /\ Readable
          /\ Goto(p, "rebuild")
          /\ UNCHANGED <<lock, item, row, seen>>
       \/ /\ ~TrustedTail(tail, LedgerBytes)
          /\ ~Readable
          /\ Return(p)
    /\ UNCHANGED <<disk, acked, crashes>>

RebuildTail(p) ==
    /\ pc[p] = "rebuild"
    /\ tail' = TailFromRows
    /\ row'  = [row EXCEPT ![p] = MakeLedgerRow(item[p], TailFromRows)]
    /\ Goto(p, AfterLoad(p))
    /\ UNCHANGED <<created, ledger, torn, contents, pending, lock, item, seen, acked, crashes>>

\* _stage_transaction: the directory, then the journal, then the staged bytes.
MakeTransaction(p) ==
    /\ pc[p] = "mkdir"
    /\ pending' = pending \cup {Transaction(row[p], {})}
    /\ Goto(p, "journal")
    /\ UNCHANGED <<created, ledger, torn, tail, contents, lock, item, row, seen, acked, crashes>>

RejectOversized(p) ==
    /\ pc[p] = "journal"
    /\ item[p] \in Oversized
    /\ pending' = pending \ {Transaction(row[p], {})}
    /\ Return(p)
    /\ UNCHANGED <<created, ledger, torn, tail, contents, acked, crashes>>

ReplaceFiles(p, old, new) ==
    pending' = (pending \ {Transaction(row[p], old)}) \cup {Transaction(row[p], new)}

\* Mutant of WriteJournal: the entry is reported as stored once it is journaled.
WriteJournalAcks(p) ==
    /\ pc[p] = "journal"
    /\ item[p] \notin Oversized
    /\ ReplaceFiles(p, {}, {"journal"})
    /\ Goto(p, "stage")
    /\ acked' = acked \cup {item[p]}
    /\ UNCHANGED <<created, ledger, torn, tail, contents, lock, item, row, seen, crashes>>

WriteJournal(p) ==
    /\ pc[p] = "journal"
    /\ item[p] \notin Oversized
    /\ ReplaceFiles(p, {}, {"journal"})
    /\ Goto(p, "stage")
    /\ UNCHANGED <<created, ledger, torn, tail, contents, lock, item, row, seen, acked, crashes>>

StageContent(p) ==
    /\ pc[p] = "stage"
    /\ ReplaceFiles(p, {"journal"}, {"journal", "content"})
    /\ Goto(p, "content")
    /\ UNCHANGED <<created, ledger, torn, tail, contents, lock, item, row, seen, acked, crashes>>

-----------------------------------------------------------------------------
\* _finish_transaction, and the same steps of _recover_one_locked.

WriteContent(p) ==
    /\ pc[p] = "content"
    /\ contents' = contents \cup {row[p].payload}
    /\ Goto(p, "append")
    /\ UNCHANGED <<created, ledger, torn, tail, pending, lock, item, row, seen, acked, crashes>>

\* _append_row: the bytes may reach the file in two parts.
StartAppend(p) ==
    /\ TornWrites
    /\ pc[p] = "append"
    /\ torn' = TRUE
    /\ Goto(p, "appending")
    /\ UNCHANGED <<created, ledger, tail, contents, pending, lock, item, row, seen, acked, crashes>>

AppendRow(p) ==
    /\ pc[p] = IF TornWrites THEN "appending" ELSE "append"
    /\ ledger' = Append(ledger, row[p])
    /\ torn'   = FALSE
    /\ Goto(p, "tail")
    /\ UNCHANGED <<created, tail, contents, pending, lock, item, row, seen, acked, crashes>>

SaveTail(p) ==
    /\ pc[p] = "tail"
    /\ tail' = [seq |-> row[p].seq, digest |-> EntryDigest(row[p]), bytes |-> LedgerBytes]
    /\ IF row[p].payload = Snapshot
       THEN Return(p)
       ELSE Goto(p, "clean") /\ UNCHANGED <<lock, item, row, seen>>
    /\ UNCHANGED <<created, ledger, torn, contents, pending, acked, crashes>>

\* shutil.rmtree(transaction): the files in directory order, then the directory.
RemoveFile(p) ==
    /\ pc[p] = "clean"
    /\ \E t \in pending : \E f \in t.files :
          /\ t.row = row[p]
          /\ ReplaceFiles(p, t.files, t.files \ {f})
    /\ UNCHANGED <<created, ledger, torn, tail, contents, lock, local, acked, crashes>>

\* The add returns; recover goes on to the next pending transaction.
RemoveDirectory(p) ==
    /\ pc[p] = "clean"
    /\ Transaction(row[p], {}) \in pending
    /\ pending' = pending \ {Transaction(row[p], {})}
    /\ IF item[p] = NoDigest
       THEN /\ Goto(p, "recover")
            /\ row' = [row EXCEPT ![p] = NoRow]
            /\ UNCHANGED <<lock, item, seen, acked>>
       ELSE /\ acked' = acked \cup {item[p]}
            /\ Return(p)
    /\ UNCHANGED <<created, ledger, torn, tail, contents, crashes>>

-----------------------------------------------------------------------------
\* recover().

StartRecover(p) ==
    /\ pc[p] = "idle"
    /\ created
    /\ lock = NoProc
    /\ lock' = p
    /\ Goto(p, "recover")
    /\ UNCHANGED <<disk, item, row, seen, acked, crashes>>

InLedger(r) == \E i \in 1..Len(ledger) : EntryDigest(ledger[i]) = EntryDigest(r)

IsNextRow(r) == r.prev = LastDigest /\ r.seq = Len(ledger) + 1

\* Mutant of CanRecover: the staged bytes must be there too.
CanRecoverStaged(t) ==
    /\ t.files = {"journal", "content"}
    /\ Readable
    /\ IF InLedger(t.row) THEN t.row.payload \in contents ELSE IsNextRow(t.row)

\* _recover_one_locked does not raise for t.
CanRecover(t) ==
    /\ "journal" \in t.files
    /\ Readable
    /\ IF InLedger(t.row) THEN t.row.payload \in contents ELSE IsNextRow(t.row)

RecoverOne(p) ==
    /\ pc[p] = "recover"
    /\ \E t \in pending :
          /\ CanRecover(t)
          /\ row' = [row EXCEPT ![p] = t.row]
          /\ Goto(p, IF InLedger(t.row) THEN "clean" ELSE "content")
    /\ UNCHANGED <<disk, lock, item, seen, acked, crashes>>

\* Nothing is left, or RECOVERY_FAILED on the transaction at hand.
EndRecover(p) ==
    /\ pc[p] = "recover"
    /\ pending = {} \/ \E t \in pending : ~CanRecover(t)
    /\ Return(p)
    /\ UNCHANGED <<disk, acked, crashes>>

-----------------------------------------------------------------------------
\* current_cursor(): _load_tail_locked without the lock.

CursorStat(p) ==
    /\ p \in CursorProcs
    /\ pc[p] = "idle"
    /\ created
    /\ seen' = [seen EXCEPT ![p].size = LedgerBytes]
    /\ Goto(p, "cursor_tail")
    /\ UNCHANGED <<disk, lock, item, row, acked, crashes>>

CursorReadTail(p) ==
    /\ pc[p] = "cursor_tail"
    /\ \/ /\ ~TailFits(tail, seen[p].size)
          /\ Goto(p, "cursor_rows")
          /\ UNCHANGED <<lock, item, row, seen>>
       \/ /\ TailFits(tail, seen[p].size)
          /\ tail.seq = 0 /\ tail.digest = None
          /\ Return(p)
       \/ /\ TailFits(tail, seen[p].size)
          /\ ~(tail.seq = 0 /\ tail.digest = None)
          /\ seen' = [seen EXCEPT ![p].tail = tail]
          /\ Goto(p, "cursor_last")
          /\ UNCHANGED <<lock, item, row>>
    /\ UNCHANGED <<disk, acked, crashes>>

CursorReadLast(p) ==
    /\ pc[p] = "cursor_last"
    /\ IF LastRowMatches(seen[p].tail)
       THEN Return(p)
       ELSE Goto(p, "cursor_rows") /\ UNCHANGED <<lock, item, row, seen>>
    /\ UNCHANGED <<disk, acked, crashes>>

CursorReadRows(p) ==
    /\ pc[p] = "cursor_rows"
    /\ IF Readable
       THEN /\ seen' = [seen EXCEPT ![p].tail = TailFromRows]
            /\ Goto(p, "cursor_size")
            /\ UNCHANGED <<lock, item, row>>
       ELSE Return(p)
    /\ UNCHANGED <<disk, acked, crashes>>

\* _tail_from_rows takes the size after the rows were read.
CursorStatAgain(p) ==
    /\ pc[p] = "cursor_size"
    /\ seen' = [seen EXCEPT ![p].tail.bytes = LedgerBytes]
    /\ Goto(p, "cursor_write")
    /\ UNCHANGED <<disk, lock, item, row, acked, crashes>>

CursorWriteTail(p) ==
    /\ pc[p] = "cursor_write"
    /\ tail' = seen[p].tail
    /\ Return(p)
    /\ UNCHANGED <<created, ledger, torn, contents, pending, acked, crashes>>

-----------------------------------------------------------------------------
\* A process dies, or an exception (OSError, KeyboardInterrupt) leaves the call
\* in mid-way: the files stay as they are and the lock is released.
Crash(p) ==
    /\ pc[p] # "idle"
    /\ crashes < MaxCrashes
    /\ crashes' = crashes + 1
    /\ Return(p)
    /\ UNCHANGED <<disk, acked>>

-----------------------------------------------------------------------------
Begin(p) ==
    \/ InitStart(p)
    \/ \E x \in Entries : AddEntry(p, x) \/ AckDuplicate(p, x)
    \/ AddSnapshot(p)
    \/ StartRecover(p)
    \/ CursorStat(p)

\* A call that has begun goes on.
Continue(p) ==
    \/ InitLedger(p) \/ InitTestTail(p) \/ InitTail(p)
    \/ LoadTail(p) \/ RebuildTail(p)
    \/ MakeTransaction(p) \/ RejectOversized(p) \/ WriteJournal(p) \/ StageContent(p)
    \/ WriteContent(p) \/ StartAppend(p) \/ AppendRow(p) \/ SaveTail(p)
    \/ RemoveFile(p) \/ RemoveDirectory(p)
    \/ RecoverOne(p) \/ EndRecover(p)
    \/ CursorReadTail(p) \/ CursorReadLast(p) \/ CursorReadRows(p)
    \/ CursorStatAgain(p) \/ CursorWriteTail(p)

Next == \E p \in Procs : Begin(p) \/ Continue(p) \/ Crash(p)

Quiet ==
    /\ ledger = <<>>
    /\ torn = FALSE
    /\ contents = {}
    /\ pending = {}
    /\ lock = NoProc
    /\ pc   = [p \in Procs |-> "idle"]
    /\ item = [p \in Procs |-> NoDigest]
    /\ row  = [p \in Procs |-> NoRow]
    /\ seen = [p \in Procs |-> NothingSeen]
    /\ acked = {}
    /\ crashes = 0

\* The store that `store init` leaves behind.
Init == Quiet /\ created = TRUE /\ tail = EmptyTail

\* An empty directory.
InitFresh == Quiet /\ created = FALSE /\ tail = NoTail

Spec      == Init /\ [][Next]_vars
FreshSpec == InitFresh /\ [][Next]_vars

-----------------------------------------------------------------------------
\* Safety properties.

Labels ==
    {"idle", "init_ledger", "init_tail", "init_write_tail", "load", "rebuild", "mkdir",
     "journal", "stage", "content", "append", "appending", "tail", "clean", "recover",
     "cursor_tail", "cursor_last", "cursor_rows", "cursor_size", "cursor_write"}

\* The type of every variable of the store and of the processes that use it.
TypeOK ==
    /\ created \in BOOLEAN
    /\ ledger \in Seq(Rows)
    /\ torn \in BOOLEAN
    /\ tail \in Tails \cup {NoTail}
    /\ contents \in SUBSET Payloads
    /\ pending \in SUBSET Transactions
    /\ lock \in Procs \cup {NoProc}
    /\ pc \in [Procs -> Labels]
    /\ item \in [Procs -> Payloads \cup {NoDigest}]
    /\ row \in [Procs -> Rows]
    /\ seen \in [Procs -> [size : Nat, tail : Tails]]
    /\ acked \in SUBSET Payloads
    /\ crashes \in Nat

\* A writer that is about to make a row holds the payload for it.
LoadHasItem == \A p \in Procs : pc[p] \in {"load", "rebuild"} => item[p] \in Payloads

\* What verify() checks of the ledger (SEQUENCE_MISMATCH and
\* PREVIOUS_DIGEST_MISMATCH): row i has sequence i and names the digest of row
\* i - 1, whatever crashed, was recovered, or rewrote the tail file in between.
ChainValid ==
    \A i \in 1..Len(ledger) :
        /\ ledger[i].seq = i
        /\ ledger[i].prev = IF i = 1 THEN None ELSE EntryDigest(ledger[i - 1])

\* Whenever _load_tail_locked would take the tail file at its word, the file
\* says what the ledger says: the tail is only an acceleration, although
\* current_cursor rewrites it without the lock.
TrustedTailIsRight ==
    TrustedTail(tail, LedgerBytes) => tail = TailFromRows

\* t is the sequence and digest of some prefix of the rows.
NamesPrefix(t, rows) ==
    \/ t.seq = 0 /\ t.digest = None
    \/ t.seq \in 1..Len(rows) /\ t.digest = EntryDigest(rows[t.seq])

\* The sequence and digest in the tail file, and those a running current_cursor
\* is about to return, always name a prefix of the ledger: sync_since never
\* finds a cursor of this store stale.
CursorsNamePrefix ==
    /\ tail # NoTail => NamesPrefix(tail, ledger)
    /\ \A p \in Procs : NamesPrefix(seen[p].tail, ledger)

\* No interleaving of writers, crashes and recoveries leaves two transactions
\* pending, so recover never has to order them.
OneTransaction == \A t, u \in pending : t = u

\* A retried add, or a recovery of a transaction that had reached the ledger,
\* does not commit an entry a second time.
NoDuplicateCommits ==
    \A i, j \in 1..Len(ledger) :
        ledger[i].payload = ledger[j].payload /\ ledger[i].payload # Snapshot => i = j

\* What add_record and add_event have reported as stored stays in the ledger
\* and keeps its content file.
AckedDurable == \A x \in acked : Committed(x) /\ x \in contents

\* CONTENT_FILE_MISSING never occurs, and ORPHAN_RECORD/ORPHAN_EVENT only while
\* the journal that will link the file is pending.
ContentMatchesLedger ==
    /\ \A x \in Entries : Committed(x) => x \in contents
    /\ \A x \in contents : ~Committed(x) =>
          \E t \in pending : t.row.payload = x /\ "journal" \in t.files

\* A journaled transaction is in the ledger already or is still the next row,
\* and still passes the checks made before it was staged: recover, which does
\* not repeat them, cannot commit an entry that add would now refuse.
PendingCommittable ==
    \A t \in pending :
        "journal" \in t.files =>
            \/ InLedger(t.row)
            \/ /\ IsNextRow(t.row)
               /\ ~Committed(t.row.payload)
               /\ Admitted(t.row.payload, PayloadsOf(ledger))

\* The files implement one admitted, append-only history.
Log == INSTANCE AppendLog WITH history <- PayloadsOf(ledger)

ImplementsAppendLog == Log!Spec

-----------------------------------------------------------------------------
\* Consequences for the histories that are stored.

\* The committed revisions of one logical record are consecutive and each names
\* the one before it, although the writers raced for the next revision.
RevisionsLinear ==
    \A i, j \in 1..Len(ledger) :
        LET a == ledger[i].payload
            b == ledger[j].payload
        IN  a \in Records /\ b \in Records /\ i < j /\ Attr[a].id = Attr[b].id =>
              /\ Attr[a].rev < Attr[b].rev
              /\ Attr[b].rev = Attr[a].rev + 1 => Attr[b].prev = a

\* No committed event is a dead letter: an event whose domain is written without
\* blanks takes effect in the projection of its domain, for good.
EventsTakeEffect ==
    \A i \in 1..Len(ledger) :
        LET e == ledger[i].payload
            before == PayloadsOf(SubSeq(ledger, 1, i - 1))
        IN  e \in Events /\ ~Attr[e].padded =>
              /\ DeriveForDomain(Attr[e].target, Attr[e].domain, before) = Attr[e].from
              /\ DeriveForDomain(Attr[e].target, Attr[e].domain, Append(before, e)) = Attr[e].to

Disposition(target, domain) == DeriveForDomain(target, domain, PayloadsOf(ledger))

\* A final disposition is for good: nothing that is committed later, in its
\* domain or another or against a state that is stale, moves the record out of
\* it (_derive_for_domain).
FinalDispositions ==
    [][\A target \in Records, domain \in {Attr[e].domain : e \in Events} :
         Disposition(target, domain) \in {"superseded", "expired", "withdrawn"} =>
           Disposition(target, domain)' = Disposition(target, domain)]_ledger

\* "supersedes and depends_on relationships must remain acyclic" (semantic.py):
\* no chain of relations of any length leads from a stored record back to
\* itself, although a relation by logical id moves to each later revision of
\* its target.  (TLC checks it as RelationsAcyclic of Admission.)
NoRelationCycles ==
    \A n \in Nat \ {0} : \A path \in [0..n -> Records] :
        (\A i \in 1..n : <<path[i - 1], path[i]>> \in RelationEdges(PayloadsOf(ledger))) =>
            path[0] # path[n]

-----------------------------------------------------------------------------
\* The inductive invariant of Spec: what holds of a process p at each control
\* point, and of the tail file and the pending transactions.

Files == {"journal", "content"}

Holding ==
    {"load", "rebuild", "mkdir", "journal", "stage", "content", "append", "appending",
     "tail", "clean", "recover"}

LockInv(p) == pc[p] \in Holding <=> lock = p

CursorLabels == {"cursor_tail", "cursor_last", "cursor_rows", "cursor_size", "cursor_write"}

\* Once there is a ledger, no init() is about to write another.  Where cursors are
\* taken both files are there; where none are, init() may still have to write the
\* tail, over the one that a writer has left by then.
StartedInv ==
    /\ created
    /\ \A p \in Procs : pc[p] # "init_ledger"
    /\ \/ tail # NoTail /\ \A p \in Procs : pc[p] # "init_write_tail"
       \/ CursorProcs = {} /\ \A p \in Procs : pc[p] \notin CursorLabels

\* The transaction of the lock holder is the only one.
StageInv(p) ==
    /\ pc[p] \in {"load", "rebuild", "mkdir"} => pending = {}
    /\ pc[p] = "journal" => pending = {Transaction(row[p], {})}
    /\ pc[p] = "stage" => pending = {Transaction(row[p], {"journal"})}
    /\ pc[p] = "content" => row[p].payload # Snapshot
    /\ pc[p] \in {"content", "append", "appending", "tail"} =>
          IF row[p].payload = Snapshot
          THEN pending = {}
          ELSE \E f \in SUBSET Files : "journal" \in f /\ pending = {Transaction(row[p], f)}
    /\ pc[p] = "clean" => \E f \in SUBSET Files : pending = {Transaction(row[p], f)}

\* x may still be committed next.
Fresh(x) == ~Committed(x) /\ Admitted(x, PayloadsOf(ledger))

\* What was checked when the lock was taken still holds when the row is appended.
RowInv(p) ==
    /\ pc[p] \in {"idle", "recover"} => item[p] = NoDigest
    /\ pc[p] \in {"load", "rebuild"} /\ item[p] # Snapshot => Fresh(item[p])
    /\ pc[p] \in {"mkdir", "journal", "stage", "content", "append", "appending"} =>
          IsNextRow(row[p]) /\ (row[p].payload # Snapshot => Fresh(row[p].payload))
    /\ pc[p] \in {"mkdir", "journal", "stage", "clean"} => row[p].payload # Snapshot
    /\ pc[p] = "tail" => ledger # <<>> /\ ledger[Len(ledger)] = row[p]
    /\ pc[p] = "clean" => Committed(row[p].payload)
    /\ pc[p] \in {"mkdir", "journal", "stage", "content", "append", "appending", "tail", "clean"} =>
          item[p] \in {NoDigest, row[p].payload}
    /\ pc[p] \in {"append", "appending", "tail", "clean"} /\ row[p].payload # Snapshot =>
          row[p].payload \in contents

\* A writer starts an append only on a ledger of complete rows.
TornInv(p) ==
    pc[p] \in {"rebuild", "mkdir", "journal", "stage", "content", "append"} => ~torn

\* A tail of no rows is of an empty file, and current_cursor rebuilds the tail
\* only from a ledger that has rows.
TailInv == tail # NoTail /\ tail.seq = 0 => tail.bytes = 0

CursorInv(p) ==
    /\ pc[p] = "cursor_tail" /\ seen[p].size > 0 => ledger # <<>> \/ torn
    /\ pc[p] = "cursor_last" => seen[p].tail.seq > 0
    /\ pc[p] = "cursor_rows" => ledger # <<>> \/ torn
    /\ pc[p] \in {"cursor_size", "cursor_write"} => seen[p].tail.seq > 0

PendingRowsAreEntries == \A t \in pending : t.row.payload # Snapshot

StoreInv ==
    /\ TypeOK
    /\ LoadHasItem
    /\ StartedInv
    /\ \A p \in Procs : LockInv(p) /\ StageInv(p) /\ RowInv(p) /\ TornInv(p) /\ CursorInv(p)
    /\ TailInv
    /\ CursorsNamePrefix
    /\ PendingRowsAreEntries
    /\ OneTransaction
    /\ PendingCommittable
    /\ ChainValid
    /\ NoDuplicateCommits
    /\ AckedDurable
    /\ ContentMatchesLedger

\* An empty directory in which init() may be about to write the ledger.
BlankInv ==
    /\ ~created /\ tail = NoTail
    /\ ledger = <<>> /\ torn = FALSE /\ contents = {} /\ pending = {} /\ acked = {}
    /\ lock = NoProc
    /\ pc \in [Procs -> {"idle", "init_ledger"}]
    /\ \A p \in Procs : pc[p] = "init_ledger" => p \in InitProcs
    /\ item = [p \in Procs |-> NoDigest]
    /\ row = [p \in Procs |-> NoRow]
    /\ seen = [p \in Procs |-> NothingSeen]
    /\ crashes \in Nat

\* The inductive invariant of FreshSpec when one process at most runs init() and
\* no cursor is taken.
FreshInv == BlankInv \/ StoreInv

-----------------------------------------------------------------------------
\* Liveness.

\* A call that has begun goes on when its process does not die, and an operator
\* runs `store recover` on a store that reports PENDING_TRANSACTION.
Fairness ==
    /\ \A p \in Procs : WF_vars(Continue(p))
    /\ WF_vars(pending # {} /\ \E p \in Procs : StartRecover(p))

FreshFairSpec == FreshSpec /\ Fairness

\* An entry whose journal has been written is committed in the end, by its
\* writer or by recover.
JournaledCommits ==
    \A x \in Entries :
        (\E t \in pending : t.row.payload = x /\ "journal" \in t.files) ~> Committed(x)
=============================================================================
