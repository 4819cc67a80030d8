------------------------- MODULE CommonsStoreProofs -------------------------
(***************************************************************************)
(* Proofs about the store, for any number of writers, any records, events  *)
(* and relations, and crashes at any control point; and about what the     *)
(* admission rules and the plan contracts let in.                          *)
(***************************************************************************)
EXTENDS CommonsStore, Admission, FiniteSetTheorems, WellFoundedInduction, TLAPS

\* Digests of well-formed rows are well formed.
LEMMA DigestType == \A r \in Rows : EntryDigest(r) \in Digests
  BY DEF Rows, EntryDigest, Digests

\* The digest of nothing is a digest.
LEMMA NoneType == None \in Digests
  BY DEF None, Digests

\* The digest of the last row of a well-formed ledger is well formed.
LEMMA LastDigestType == ledger \in Seq(Rows) => LastDigest \in Digests
  BY DigestType, NoneType DEF LastDigest

\* The values that a process starts from and returns to are well formed.
LEMMA ConstantTypes ==
    /\ EmptyTail \in Tails
    /\ NoRow \in Rows
    /\ NothingSeen \in [size : Nat, tail : Tails]
  <1>1. EmptyTail \in Tails
    BY NoneType DEF EmptyTail, Tails
  <1>2. NoRow \in Rows
    BY NoneType DEF NoRow, Rows, Payloads
  <1> QED BY <1>1, <1>2 DEF NothingSeen

\* The tail that _tail_from_rows makes of a well-formed ledger is well formed.
LEMMA RowTypes ==
    ASSUME TypeOK
    PROVE  TailFromRows \in Tails /\ LedgerBytes \in Nat
  <1>1. LedgerBytes \in Nat
    BY DEF TypeOK, LedgerBytes
  <1> QED
    BY <1>1, LastDigestType DEF TypeOK, TailFromRows, Tails

\* A row made from a well-formed tail is well formed.
LEMMA MadeRowType ==
    ASSUME NEW x \in Payloads, NEW t \in Tails
    PROVE  MakeLedgerRow(x, t) \in Rows
  BY DEF MakeLedgerRow, Rows, Tails

\* A call that returns or raises leaves well-formed locals and a well-formed lock.
LEMMA TypeReturn ==
    ASSUME TypeOK, NEW p \in Procs, Return(p)
    PROVE  /\ pc' \in [Procs -> Labels]
           /\ item' \in [Procs -> Payloads \cup {NoDigest}]
           /\ row' \in [Procs -> Rows]
           /\ seen' \in [Procs -> [size : Nat, tail : Tails]]
           /\ lock' \in Procs \cup {NoProc}
  BY ConstantTypes DEF TypeOK, Return, Goto, Labels

\* The store that init leaves behind is well formed.
LEMMA InitType == Init => TypeOK /\ LoadHasItem
  <1> SUFFICES ASSUME Init PROVE TypeOK /\ LoadHasItem
    OBVIOUS
  <1>1. ledger \in Seq(Rows)
    BY DEF Init, Quiet
  <1>2. TypeOK
    BY <1>1, ConstantTypes DEF Init, Quiet, TypeOK, Labels
  <1> QED BY <1>2 DEF Init, Quiet, LoadHasItem

\* A step of one process keeps every variable in its type.
LEMMA StepType ==
    ASSUME TypeOK, LoadHasItem, NEW p \in Procs, Begin(p) \/ Continue(p) \/ Crash(p)
    PROVE  TypeOK'
  <1> USE ConstantTypes, RowTypes, TypeReturn DEF disk, local
  <1>1. CASE InitStart(p)
    BY <1>1 DEF TypeOK, Labels, Goto, InitStart
  <1>2. CASE StartRecover(p)
    BY <1>2 DEF TypeOK, Labels, Goto, StartRecover
  <1>3. CASE CursorStat(p)
    BY <1>3 DEF TypeOK, Labels, Goto, CursorStat
  <1>4. CASE AddSnapshot(p)
    BY <1>4 DEF TypeOK, Labels, Goto, AddSnapshot, EnterWriter, Payloads
  <1>5. ASSUME NEW x \in Entries, AddEntry(p, x) \/ AckDuplicate(p, x)
        PROVE  TypeOK'
    BY <1>5, ZenonT(60) DEF TypeOK, Labels, Goto, AddEntry, AckDuplicate, EnterWriter, Payloads
  <1>6. CASE InitLedger(p)
    <2>1. ledger' \in Seq(Rows)
      BY <1>6 DEF InitLedger
    <2> QED BY <1>6, <2>1 DEF TypeOK, Labels, Goto, InitLedger
  <1>7. CASE InitTestTail(p)
    BY <1>7 DEF TypeOK, Labels, Goto, InitTestTail
  <1>8. CASE InitTail(p)
    BY <1>8 DEF TypeOK, Labels, Goto, InitTail
  <1>9. CASE LoadTail(p)
    <2>1. CASE TrustedTail(tail, LedgerBytes)
      <3>1. MakeLedgerRow(item[p], tail) \in Rows
        BY <1>9, <2>1, MadeRowType, TailAssumption
        DEF TypeOK, LoadHasItem, LoadTail, TrustedTail, TailFits
      <3> QED BY <1>9, <2>1, <3>1, ZenonT(60) DEF TypeOK, Labels, Goto, LoadTail, AfterLoad
    <2>2. CASE ~TrustedTail(tail, LedgerBytes)
      BY <1>9, <2>2 DEF TypeOK, Labels, Goto, LoadTail
    <2> QED BY <2>1, <2>2
  <1>10. CASE RebuildTail(p)
    <2>1. MakeLedgerRow(item[p], TailFromRows) \in Rows
      BY <1>10, MadeRowType DEF LoadHasItem, RebuildTail
    <2> QED BY <1>10, <2>1 DEF TypeOK, Labels, Goto, RebuildTail, AfterLoad
  <1>11. CASE MakeTransaction(p)
    BY <1>11 DEF TypeOK, Labels, Goto, MakeTransaction, Transaction, Transactions
  <1>12. CASE RejectOversized(p)
    BY <1>12 DEF TypeOK, Labels, Goto, RejectOversized
  <1>13. CASE WriteJournal(p)
    BY <1>13 DEF TypeOK, Labels, Goto, WriteJournal, ReplaceFiles, Transaction, Transactions
  <1>14. CASE StageContent(p)
    BY <1>14 DEF TypeOK, Labels, Goto, StageContent, ReplaceFiles, Transaction, Transactions
  <1>15. CASE WriteContent(p)
    BY <1>15 DEF TypeOK, Labels, Goto, WriteContent, Rows
  <1>16. CASE StartAppend(p)
    BY <1>16 DEF TypeOK, Labels, Goto, StartAppend
  <1>17. CASE AppendRow(p)
    <2>1. ledger' \in Seq(Rows)
      BY <1>17 DEF TypeOK, AppendRow
    <2> QED BY <1>17, <2>1 DEF TypeOK, Labels, Goto, AppendRow
  <1>18. CASE SaveTail(p)
    <2>1. tail' \in Tails
      BY <1>18, DigestType DEF TypeOK, SaveTail, Tails, Rows
    <2>2. CASE row[p].payload = Snapshot
      BY <1>18, <2>1, <2>2 DEF TypeOK, SaveTail
    <2>3. CASE row[p].payload # Snapshot
      BY <1>18, <2>1, <2>3 DEF TypeOK, Labels, Goto, SaveTail
    <2> QED BY <2>2, <2>3
  <1>19. CASE RemoveFile(p)
    BY <1>19 DEF TypeOK, Labels, Goto, RemoveFile, ReplaceFiles, Transaction, Transactions
  <1>20. CASE RemoveDirectory(p)
    <2>1. CASE item[p] = NoDigest
      BY <1>20, <2>1 DEF TypeOK, Labels, Goto, RemoveDirectory
    <2>2. CASE item[p] # NoDigest
      BY <1>20, <2>2 DEF TypeOK, RemoveDirectory
    <2> QED BY <2>1, <2>2
  <1>21. CASE RecoverOne(p)
    BY <1>21 DEF TypeOK, Labels, Goto, RecoverOne, Transactions
  <1>22. CASE EndRecover(p)
    BY <1>22 DEF TypeOK, Labels, Goto, EndRecover
  <1>23. CASE CursorReadTail(p)
    <2>1. CASE UNCHANGED seen \/ Return(p)
      BY <1>23, <2>1 DEF TypeOK, Labels, Goto, CursorReadTail
    <2>2. CASE TailFits(tail, seen[p].size) /\ seen' = [seen EXCEPT ![p].tail = tail]
      <3>1. tail \in Tails
        BY <2>2 DEF TypeOK, TailFits
      <3>2. seen' \in [Procs -> [size : Nat, tail : Tails]]
        BY <2>2, <3>1 DEF TypeOK
      <3> QED BY <1>23, <3>2 DEF TypeOK, Labels, Goto, Return, CursorReadTail
    <2> QED BY <1>23, <2>1, <2>2 DEF CursorReadTail
  <1>24. CASE CursorReadLast(p)
    BY <1>24 DEF TypeOK, Labels, Goto, CursorReadLast
  <1>25. CASE CursorReadRows(p)
    <2>1. CASE Readable
      <3>1. seen' = [seen EXCEPT ![p].tail = TailFromRows]
        BY <1>25, <2>1 DEF CursorReadRows
      <3>2. seen' \in [Procs -> [size : Nat, tail : Tails]]
        <4>1. TailFromRows \in Tails
          BY RowTypes
        <4> QED BY <3>1, <4>1 DEF TypeOK
      <3> QED BY <1>25, <2>1, <3>2 DEF TypeOK, Labels, Goto, CursorReadRows
    <2>2. CASE ~Readable
      BY <1>25, <2>2 DEF TypeOK, CursorReadRows
    <2> QED BY <2>1, <2>2
  <1>26. CASE CursorStatAgain(p)
    BY <1>26 DEF TypeOK, Labels, Goto, CursorStatAgain, Tails
  <1>27. CASE CursorWriteTail(p)
    BY <1>27 DEF TypeOK, Labels, Goto, CursorWriteTail
  <1>28. CASE Crash(p)
    BY <1>28 DEF TypeOK, Labels, Goto, Crash
  <1> QED BY <1>1, <1>2, <1>3, <1>4, <1>5, <1>6, <1>7, <1>8, <1>9, <1>10, <1>11, <1>12, <1>13, <1>14, <1>15, <1>16, <1>17, <1>18, <1>19, <1>20, <1>21, <1>22, <1>23, <1>24, <1>25, <1>26, <1>27, <1>28 DEF Begin, Continue

\* A step of a process leaves the locals of every other process alone.
LEMMA StepFrame ==
    ASSUME TypeOK, NEW p \in Procs, Begin(p) \/ Continue(p) \/ Crash(p),
           NEW q \in Procs, q # p
    PROVE  /\ pc'[q] = pc[q]
           /\ item'[q] = item[q]
           /\ row'[q] = row[q]
           /\ seen'[q] = seen[q]
  <1> USE DEF TypeOK, Goto, Return, disk, local
  <1>1. CASE Begin(p)
    BY <1>1 DEF Begin, InitStart, EnterWriter, AddEntry, AckDuplicate, AddSnapshot,
                StartRecover, CursorStat
  <1>2. CASE Continue(p)
    BY <1>2
    DEF Continue, InitStart, InitLedger, InitTestTail, InitTail, EnterWriter, AddEntry, AckDuplicate, AddSnapshot, LoadTail,
      RebuildTail, AfterLoad, MakeTransaction, RejectOversized, WriteJournal, StageContent, WriteContent,
      StartAppend, AppendRow, SaveTail, RemoveFile, RemoveDirectory, StartRecover, RecoverOne,
      EndRecover, CursorStat, CursorReadTail, CursorReadLast, CursorReadRows, CursorStatAgain,
      CursorWriteTail, Crash
  <1>3. CASE Crash(p)
    BY <1>3 DEF Crash
  <1> QED BY <1>1, <1>2, <1>3

\* Every step keeps the payload in hand of a writer that is about to make a row.
LEMMA StepLoad ==
    ASSUME TypeOK, LoadHasItem, NEW p \in Procs, Begin(p) \/ Continue(p) \/ Crash(p)
    PROVE  LoadHasItem'
  <1>1. pc'[p] \in {"load", "rebuild"} => item'[p] \in Payloads
    <2> USE DEF TypeOK, Goto, Return, disk, local
    <2>1. CASE Begin(p)
      BY <2>1 DEF Begin, InitStart, EnterWriter, AddEntry, AckDuplicate, AddSnapshot,
                  StartRecover, CursorStat, Payloads
    <2>2. CASE Continue(p)
      BY <2>2
      DEF Continue, LoadHasItem, InitStart, InitLedger, InitTestTail, InitTail, EnterWriter, AddEntry, AckDuplicate, AddSnapshot, LoadTail,
      RebuildTail, AfterLoad, MakeTransaction, RejectOversized, WriteJournal, StageContent, WriteContent,
      StartAppend, AppendRow, SaveTail, RemoveFile, RemoveDirectory, StartRecover, RecoverOne,
      EndRecover, CursorStat, CursorReadTail, CursorReadLast, CursorReadRows, CursorStatAgain,
      CursorWriteTail, Crash
    <2>3. CASE Crash(p)
      BY <2>3 DEF Crash
    <2> QED BY <2>1, <2>2, <2>3
  <1> QED BY <1>1, StepFrame DEF LoadHasItem

\* In every reachable state of the store and the processes that use it, for any
\* number of processes, entries and crashes, every variable is of its type: what
\* MakeLedgerRow, _tail_from_rows and _stage_transaction produce is well formed.
THEOREM TypeCorrect == Spec => []TypeOK
  <1> DEFINE Typed == TypeOK /\ LoadHasItem
  <1>1. Init => Typed
    BY InitType
  <1>2. Typed /\ [Next]_vars => Typed'
    <2> SUFFICES ASSUME Typed, [Next]_vars PROVE Typed'
      OBVIOUS
    <2>1. CASE Next
      BY <2>1, StepType, StepLoad DEF Next
    <2>2. CASE UNCHANGED vars
      BY <2>2 DEF TypeOK, LoadHasItem, vars, disk, local
    <2> QED BY <2>1, <2>2
  <1> QED BY <1>1, <1>2, PTL DEF Spec

-----------------------------------------------------------------------------
\* Facts about sequences of rows.

\* EntryDigest is injective on the payload: the digest ends with it.
LEMMA DigestPayload ==
    ASSUME NEW r \in Rows, NEW u \in Rows, EntryDigest(r) = EntryDigest(u)
    PROVE  r.payload = u.payload /\ r.seq = u.seq
  <1>1. /\ r.prev \in Seq(Nat \X Payloads) /\ <<r.seq, r.payload>> \in Nat \X Payloads
        /\ u.prev \in Seq(Nat \X Payloads) /\ <<u.seq, u.payload>> \in Nat \X Payloads
    BY DEF Rows, Digests
  <1>2. /\ EntryDigest(r)[Len(r.prev) + 1] = <<r.seq, r.payload>>
        /\ Len(EntryDigest(r)) = Len(r.prev) + 1
    BY <1>1 DEF EntryDigest
  <1>3. /\ EntryDigest(u)[Len(u.prev) + 1] = <<u.seq, u.payload>>
        /\ Len(EntryDigest(u)) = Len(u.prev) + 1
    BY <1>1 DEF EntryDigest
  <1>4. Len(r.prev) = Len(u.prev)
    BY <1>1, <1>2, <1>3
  <1>5. <<r.seq, r.payload>> = <<u.seq, u.payload>>
    BY <1>2, <1>3, <1>4
  <1> QED BY <1>5

\* A digest is never the digest of nothing.
LEMMA DigestNotNone == ASSUME NEW r \in Rows PROVE EntryDigest(r) # None
  <1>1. r.prev \in Seq(Nat \X Payloads) /\ <<r.seq, r.payload>> \in Nat \X Payloads
    BY DEF Rows, Digests
  <1>2. Len(EntryDigest(r)) = Len(r.prev) + 1 /\ Len(r.prev) \in Nat
    BY <1>1 DEF EntryDigest
  <1>3. Len(None) = 0
    BY DEF None
  <1> QED BY <1>2, <1>3

\* The rows, the commits and the digests after one append.
LEMMA AppendFacts ==
    ASSUME TypeOK, NEW r \in Rows, ledger' = Append(ledger, r)
    PROVE  /\ Len(ledger') = Len(ledger) + 1
           /\ Len(ledger) \in Nat
           /\ ledger' # <<>>
           /\ \A i \in 1..Len(ledger) : ledger'[i] = ledger[i]
           /\ ledger'[Len(ledger) + 1] = r
           /\ ledger'[Len(ledger')] = r
           /\ \A i \in 1..Len(ledger) : ledger[i] \in Rows
  <1>1. ledger \in Seq(Rows)
    BY DEF TypeOK
  <1>2. Len(ledger') = Len(ledger) + 1 /\ Len(ledger) \in Nat
    BY <1>1
  <1>3. /\ \A i \in 1..Len(ledger) : ledger'[i] = ledger[i]
        /\ ledger'[Len(ledger) + 1] = r
    BY <1>1
  <1>4. ledger' # <<>>
    BY <1>2
  <1>5. \A i \in 1..Len(ledger) : ledger[i] \in Rows
    BY <1>1
  <1> QED BY <1>2, <1>3, <1>4, <1>5

\* After an append, exactly the payload of the row is committed in addition.
LEMMA AppendCommits ==
    ASSUME TypeOK, NEW r \in Rows, ledger' = Append(ledger, r)
    PROVE  \A x : Committed(x)' <=> Committed(x) \/ x = r.payload
  <1> USE AppendFacts
  <1> SUFFICES ASSUME NEW x PROVE Committed(x)' <=> Committed(x) \/ x = r.payload
    OBVIOUS
  <1>1. Committed(x)' => Committed(x) \/ x = r.payload
    BY DEF Committed
  <1>2. Committed(x) => Committed(x)'
    BY DEF Committed
  <1>3. x = r.payload => Committed(x)'
    BY DEF Committed
  <1> QED BY <1>1, <1>2, <1>3

-----------------------------------------------------------------------------
\* What one step may touch.

\* In an initialised store only an append changes the ledger.
LEMMA StepLedger ==
    ASSUME StartedInv, NEW p \in Procs, Begin(p) \/ Continue(p) \/ Crash(p), ~AppendRow(p)
    PROVE  ledger' = ledger
  BY DEF StartedInv, Begin, Continue, disk, local, InitStart, InitLedger, InitTestTail, InitTail, EnterWriter, AddEntry, AckDuplicate,
    AddSnapshot, LoadTail, RebuildTail, AfterLoad, MakeTransaction, RejectOversized, WriteJournal,
    StageContent, ReplaceFiles, WriteContent, StartAppend, AppendRow, SaveTail, RemoveFile,
    RemoveDirectory, StartRecover, RecoverOne, EndRecover, CursorStat, CursorReadTail,
    CursorReadLast, CursorReadRows, CursorStatAgain, CursorWriteTail, Crash

\* While a process holds the lock, the steps of the others touch the tail file
\* and their own locals only.
LEMMA StepOther ==
    ASSUME TypeOK, StartedInv, NEW p \in Procs, NEW q \in Procs, q # p,
           Begin(p) \/ Continue(p) \/ Crash(p),
           LockInv(p), LockInv(q), pc[q] \in Holding
    PROVE  UNCHANGED <<ledger, torn, contents, pending, lock>>
  <1>1. lock = q /\ pc[p] \notin Holding /\ q # NoProc
    BY StoreAssumption DEF LockInv
  <1> USE <1>1 DEF StartedInv, Holding, Return, Goto, disk, local
  <1>2. CASE Begin(p)
    BY <1>2 DEF Begin, InitStart, EnterWriter, AddEntry, AckDuplicate, AddSnapshot,
                StartRecover, CursorStat
  <1>3. CASE Continue(p)
    BY <1>3 DEF Continue, InitStart, InitLedger, InitTestTail, InitTail, EnterWriter, AddEntry, AckDuplicate,
    AddSnapshot, LoadTail, RebuildTail, AfterLoad, MakeTransaction, RejectOversized, WriteJournal,
    StageContent, ReplaceFiles, WriteContent, StartAppend, AppendRow, SaveTail, RemoveFile,
    RemoveDirectory, StartRecover, RecoverOne, EndRecover, CursorStat, CursorReadTail,
    CursorReadLast, CursorReadRows, CursorStatAgain, CursorWriteTail, Crash
  <1>4. CASE Crash(p)
    BY <1>4 DEF Crash
  <1> QED BY <1>2, <1>3, <1>4

\* The steps that write the tail file.
LEMMA StepTailFile ==
    ASSUME NEW p \in Procs, Begin(p) \/ Continue(p) \/ Crash(p)
    PROVE  \/ tail' = tail
           \/ SaveTail(p) \/ RebuildTail(p) \/ CursorWriteTail(p) \/ InitTail(p)
  BY DEF Begin, Continue, disk, local, InitStart, InitLedger, InitTestTail, InitTail, EnterWriter, AddEntry, AckDuplicate,
    AddSnapshot, LoadTail, RebuildTail, AfterLoad, MakeTransaction, RejectOversized, WriteJournal,
    StageContent, ReplaceFiles, WriteContent, StartAppend, AppendRow, SaveTail, RemoveFile,
    RemoveDirectory, StartRecover, RecoverOne, EndRecover, CursorStat, CursorReadTail,
    CursorReadLast, CursorReadRows, CursorStatAgain, CursorWriteTail, Crash

\* init never replaces a ledger, and writes a tail only where no cursor is taken.
LEMMA StepStarted ==
    ASSUME TypeOK, StartedInv, NEW p \in Procs, Begin(p) \/ Continue(p) \/ Crash(p)
    PROVE  StartedInv'
  <1>1. created'
    BY DEF StartedInv, Begin, Continue, disk, local, InitStart, InitLedger, InitTestTail, InitTail, EnterWriter, AddEntry, AckDuplicate,
    AddSnapshot, LoadTail, RebuildTail, AfterLoad, MakeTransaction, RejectOversized, WriteJournal,
    StageContent, ReplaceFiles, WriteContent, StartAppend, AppendRow, SaveTail, RemoveFile,
    RemoveDirectory, StartRecover, RecoverOne, EndRecover, CursorStat, CursorReadTail,
    CursorReadLast, CursorReadRows, CursorStatAgain, CursorWriteTail, Crash
  <1>2. tail # NoTail => tail' # NoTail
    <2>1. \A t \in Tails : t # NoTail
      BY TailAssumption
    <2>2. CASE SaveTail(p)
      BY <2>1, <2>2, RowTypes, DigestType DEF TypeOK, SaveTail, Tails, Rows
    <2>3. CASE RebuildTail(p)
      BY <2>1, <2>3, RowTypes DEF RebuildTail
    <2>4. CASE CursorWriteTail(p)
      BY <2>1, <2>4 DEF TypeOK, CursorWriteTail
    <2>5. CASE InitTail(p)
      BY <2>1, <2>5, ConstantTypes DEF InitTail
    <2> QED BY <2>2, <2>3, <2>4, <2>5, StepTailFile
  <1>3. /\ pc'[p] # "init_ledger"
        /\ pc'[p] = "init_write_tail" => tail = NoTail
        /\ pc'[p] \in CursorLabels => p \in CursorProcs \/ pc[p] \in CursorLabels
    <2> USE DEF StartedInv, TypeOK, Return, Goto, disk, local, CursorLabels
    <2>1. CASE Begin(p)
      BY <2>1 DEF Begin, InitStart, EnterWriter, AddEntry, AckDuplicate, AddSnapshot,
                  StartRecover, CursorStat
    <2>2. CASE Continue(p)
      BY <2>2 DEF Continue, InitStart, InitLedger, InitTestTail, InitTail, EnterWriter, AddEntry, AckDuplicate,
    AddSnapshot, LoadTail, RebuildTail, AfterLoad, MakeTransaction, RejectOversized, WriteJournal,
    StageContent, ReplaceFiles, WriteContent, StartAppend, AppendRow, SaveTail, RemoveFile,
    RemoveDirectory, StartRecover, RecoverOne, EndRecover, CursorStat, CursorReadTail,
    CursorReadLast, CursorReadRows, CursorStatAgain, CursorWriteTail, Crash
    <2>3. CASE Crash(p)
      BY <2>3 DEF Crash
    <2> QED BY <2>1, <2>2, <2>3
  <1>4. \A q \in Procs : q # p => pc'[q] = pc[q]
    BY StepFrame
  <1> QED BY <1>1, <1>2, <1>3, <1>4 DEF StartedInv

\* The processes at a control point inside the lock are those that hold it.
LEMMA StepLock ==
    ASSUME TypeOK, StartedInv, NEW p \in Procs, Begin(p) \/ Continue(p) \/ Crash(p),
           \A q \in Procs : LockInv(q)
    PROVE  \A q \in Procs : LockInv(q)'
  <1>1. lock' = lock \/ (lock \in {p, NoProc} /\ lock' \in {p, NoProc})
    BY DEF Begin, Continue, Return, disk, local, InitStart, InitLedger, InitTestTail, InitTail, EnterWriter, AddEntry, AckDuplicate,
    AddSnapshot, LoadTail, RebuildTail, AfterLoad, MakeTransaction, RejectOversized, WriteJournal,
    StageContent, ReplaceFiles, WriteContent, StartAppend, AppendRow, SaveTail, RemoveFile,
    RemoveDirectory, StartRecover, RecoverOne, EndRecover, CursorStat, CursorReadTail,
    CursorReadLast, CursorReadRows, CursorStatAgain, CursorWriteTail, Crash
  <1>2. pc'[p] \in Holding <=> lock' = p
    <2> USE StoreAssumption DEF TypeOK, StartedInv, LockInv, Holding, Return, Goto, disk, local
    <2>1. CASE Begin(p)
      BY <2>1 DEF Begin, InitStart, EnterWriter, AddEntry, AckDuplicate, AddSnapshot, StartRecover, CursorStat
    <2>2. CASE Continue(p)
      <3>1. pc'[p] \in Holding => pc[p] \in Holding /\ lock' = lock
        BY <2>2, ZenonT(60) DEF Continue, InitStart, InitLedger, InitTestTail, InitTail, EnterWriter, AddEntry, AckDuplicate,
    AddSnapshot, LoadTail, RebuildTail, AfterLoad, MakeTransaction, RejectOversized, WriteJournal,
    StageContent, ReplaceFiles, WriteContent, StartAppend, AppendRow, SaveTail, RemoveFile,
    RemoveDirectory, StartRecover, RecoverOne, EndRecover, CursorStat, CursorReadTail,
    CursorReadLast, CursorReadRows, CursorStatAgain, CursorWriteTail, Crash
      <3>2. pc'[p] \notin Holding => lock' # p
        BY <2>2 DEF Continue, InitStart, InitLedger, InitTestTail, InitTail, EnterWriter, AddEntry, AckDuplicate,
    AddSnapshot, LoadTail, RebuildTail, AfterLoad, MakeTransaction, RejectOversized, WriteJournal,
    StageContent, ReplaceFiles, WriteContent, StartAppend, AppendRow, SaveTail, RemoveFile,
    RemoveDirectory, StartRecover, RecoverOne, EndRecover, CursorStat, CursorReadTail,
    CursorReadLast, CursorReadRows, CursorStatAgain, CursorWriteTail, Crash
      <3> QED BY <3>1, <3>2
    <2>3. CASE Crash(p)
      BY <2>3 DEF Crash
    <2> QED BY <2>1, <2>2, <2>3
  <1> QED BY <1>1, <1>2, StepFrame, StoreAssumption DEF LockInv

-----------------------------------------------------------------------------
\* The parts of StoreInv that speak of the process that moves.

\* The lock holder's transaction directory follows its control point.
LEMMA StepStage ==
    ASSUME StoreInv, NEW p \in Procs, Begin(p) \/ Continue(p) \/ Crash(p)
    PROVE  StageInv(p)'
  <1> USE DEF StoreInv, TypeOK, StageInv, Goto, Return, disk, local, Transaction
  <1>1. CASE Begin(p)
    BY <1>1 DEF Begin, InitStart, EnterWriter, AddEntry, AckDuplicate, AddSnapshot, StartRecover, CursorStat
  <1>2. CASE InitLedger(p) \/ InitTestTail(p) \/ InitTail(p) \/ RejectOversized(p)
           \/ EndRecover(p) \/ CursorReadTail(p) \/ CursorReadLast(p) \/ CursorReadRows(p)
           \/ CursorStatAgain(p) \/ CursorWriteTail(p) \/ Crash(p)
    BY <1>2 DEF InitLedger, InitTestTail, InitTail, RejectOversized, EndRecover, CursorReadTail,
         CursorReadLast, CursorReadRows, CursorStatAgain, CursorWriteTail, Crash, StartedInv
  <1>3. CASE LoadTail(p) \/ RebuildTail(p)
    BY <1>3 DEF LoadTail, RebuildTail, AfterLoad, MakeLedgerRow
  <1>4. CASE MakeTransaction(p)
    BY <1>4 DEF MakeTransaction
  <1>5. CASE WriteJournal(p)
    BY <1>5 DEF WriteJournal, ReplaceFiles
  <1>6. CASE StageContent(p)
    <2>1. row[p].payload # Snapshot /\ pc' = [pc EXCEPT ![p] = "content"] /\ row' = row
      BY <1>6 DEF StageContent, RowInv
    <2>2. pending' = {Transaction(row[p], Files)}
      BY <1>6 DEF StageContent, ReplaceFiles, Files
    <2> QED BY <2>1, <2>2 DEF Files
  <1>7. CASE WriteContent(p)
    BY <1>7 DEF WriteContent
  <1>8. CASE StartAppend(p)
    BY <1>8 DEF StartAppend
  <1>9. CASE AppendRow(p)
    BY <1>9 DEF AppendRow
  <1>10. CASE SaveTail(p)
    BY <1>10 DEF SaveTail
  <1>11. CASE RemoveFile(p)
    <2>1. PICK t \in pending, f \in Files :
            t.row = row[p] /\ ReplaceFiles(p, t.files, t.files \ {f})
      BY <1>11 DEF RemoveFile, Transactions, Files
    <2>2. PICK g \in SUBSET Files : pending = {Transaction(row[p], g)}
      BY <1>11 DEF RemoveFile
    <2>3. t = Transaction(row[p], g) /\ t.files = g
      BY <2>1, <2>2
    <2>4. pending' = {Transaction(row[p], g \ {f})}
      BY <2>1, <2>2, <2>3 DEF ReplaceFiles
    <2>5. pc'[p] = "clean" /\ row' = row /\ g \ {f} \in SUBSET Files
      BY <1>11 DEF RemoveFile
    <2> QED BY <2>4, <2>5
  <1>12. CASE RemoveDirectory(p)
    BY <1>12 DEF RemoveDirectory
  <1>13. CASE RecoverOne(p)
    <2>1. PICK t \in pending : /\ CanRecover(t)
                              /\ row' = [row EXCEPT ![p] = t.row]
                              /\ Goto(p, IF InLedger(t.row) THEN "clean" ELSE "content")
      BY <1>13 DEF RecoverOne
    <2>2. t \in Transactions /\ t.row.payload # Snapshot /\ "journal" \in t.files
      BY <2>1 DEF CanRecover, PendingRowsAreEntries
    <2>3. t = Transaction(t.row, t.files) /\ t.files \in SUBSET Files
      BY <2>2 DEF Transactions, Files
    <2>4. pending' = {Transaction(t.row, t.files)}
      <3>1. pending' = pending
        BY <1>13 DEF RecoverOne
      <3>2. pending = {t}
        BY DEF OneTransaction
      <3> QED BY <2>3, <3>1, <3>2
    <2>5. row'[p] = t.row /\ pc'[p] \in {"clean", "content"}
      BY <2>1
    <2> HIDE DEF Transaction
    <2> QED BY <2>2, <2>3, <2>4, <2>5
  <1> QED BY <1>1, <1>2, <1>3, <1>4, <1>5, <1>6, <1>7, <1>8, <1>9, <1>10, <1>11, <1>12, <1>13 DEF Begin, Continue

\* What depends on the ledger alone is kept while the ledger is.
LEMMA LedgerStable ==
    ASSUME ledger' = ledger
    PROVE  /\ \A x : Committed(x)' <=> Committed(x)
           /\ \A x : Fresh(x)' <=> Fresh(x)
           /\ \A r : IsNextRow(r)' <=> IsNextRow(r)
           /\ \A r : InLedger(r)' <=> InLedger(r)
           /\ LastDigest' = LastDigest
  <1>1. LastDigest' = LastDigest
    BY DEF LastDigest
  <1>2. \A x : Committed(x)' <=> Committed(x)
    BY DEF Committed
  <1>3. \A r : InLedger(r)' <=> InLedger(r)
    BY DEF InLedger
  <1>4. \A x : Fresh(x)' <=> Fresh(x)
    BY <1>2 DEF Fresh
  <1> QED BY <1>1, <1>2, <1>3, <1>4 DEF IsNextRow

\* The tail file is trusted only when it is right.
LEMMA TrustedRight ==
    ASSUME StoreInv
    PROVE  TrustedTailIsRight
  <1> SUFFICES ASSUME TrustedTail(tail, LedgerBytes) PROVE tail = TailFromRows
    BY DEF TrustedTailIsRight
  <1>1. /\ tail \in Tails /\ tail.bytes = LedgerBytes
        /\ Len(ledger) \in Nat /\ ledger \in Seq(Rows)
    BY DEF StoreInv, TypeOK, TrustedTail, TailFits
  <1>2. tail.seq = Len(ledger) /\ tail.digest = LastDigest
    <2>1. CASE tail.seq = 0 /\ tail.digest = None
      <3>1. LedgerBytes = 0
        BY <1>1, <2>1, TailAssumption DEF StoreInv, TailInv
      <3>2. Len(ledger) = 0
        BY <1>1, <3>1 DEF LedgerBytes, StoreInv, TypeOK
      <3>3. ledger = <<>>
        BY <1>1, <3>2
      <3> QED BY <2>1, <3>2, <3>3 DEF LastDigest
    <2>2. CASE LastRowMatches(tail)
      <3>1. ledger # <<>> /\ Len(ledger) \in 1..Len(ledger)
        BY <1>1, <2>2 DEF LastRowMatches
      <3>2. ledger[Len(ledger)].seq = Len(ledger)
        BY <3>1 DEF StoreInv, ChainValid
      <3> QED BY <2>2, <3>1, <3>2 DEF LastRowMatches, LastDigest
    <2> QED BY <2>1, <2>2 DEF TrustedTail
  <1> QED BY <1>1, <1>2 DEF Tails, TailFromRows

\* The row in hand stays the next row, and admitted, until it is appended.
LEMMA StepRow ==
    ASSUME StoreInv, NEW p \in Procs, Begin(p) \/ Continue(p) \/ Crash(p)
    PROVE  RowInv(p)'
  <1> USE DEF StoreInv, TypeOK, RowInv, Goto, Return, disk, local
  <1>1. CASE Begin(p)
    <2>1. ledger' = ledger
      BY <1>1 DEF Begin, InitStart, EnterWriter, AddEntry, AckDuplicate, AddSnapshot, StartRecover, CursorStat
    <2> USE <2>1, LedgerStable
    <2>2. CASE \E x \in Entries : AddEntry(p, x)
      BY <1>1, <2>2 DEF AddEntry, EnterWriter, Fresh
    <2>3. CASE ~\E x \in Entries : AddEntry(p, x)
      BY <1>1, <2>3 DEF Begin, InitStart, EnterWriter, AddEntry, AckDuplicate, AddSnapshot, StartRecover, CursorStat
    <2> QED BY <2>2, <2>3
  <1>2. CASE InitLedger(p) \/ InitTestTail(p) \/ InitTail(p) \/ RejectOversized(p)
           \/ EndRecover(p) \/ CursorReadTail(p) \/ CursorReadLast(p) \/ CursorReadRows(p)
           \/ CursorStatAgain(p) \/ CursorWriteTail(p) \/ Crash(p)
    BY <1>2, ZenonT(60) DEF InitLedger, InitTestTail, InitTail, RejectOversized, EndRecover, CursorReadTail,
         CursorReadLast, CursorReadRows, CursorStatAgain, CursorWriteTail, Crash, StartedInv
  <1>3. CASE LoadTail(p)
    <2>1. ledger' = ledger
      BY <1>3 DEF LoadTail
    <2>2. CASE TrustedTail(tail, LedgerBytes)
      <3>1. IsNextRow(MakeLedgerRow(item[p], tail)) /\ MakeLedgerRow(item[p], tail).payload = item[p]
        BY <2>2, TrustedRight DEF TrustedTailIsRight, IsNextRow, MakeLedgerRow, TailFromRows
      <3> QED BY <1>3, <2>1, <2>2, <3>1, LedgerStable DEF LoadTail, AfterLoad
    <2>3. CASE ~TrustedTail(tail, LedgerBytes)
      BY <1>3, <2>1, <2>3, LedgerStable DEF LoadTail
    <2> QED BY <2>2, <2>3
  <1>4. CASE RebuildTail(p)
    <2>1. ledger' = ledger
      BY <1>4 DEF RebuildTail
    <2>2. IsNextRow(MakeLedgerRow(item[p], TailFromRows))
          /\ MakeLedgerRow(item[p], TailFromRows).payload = item[p]
      BY DEF IsNextRow, MakeLedgerRow, TailFromRows
    <2> QED BY <1>4, <2>1, <2>2, LedgerStable DEF RebuildTail, AfterLoad
  <1>5. CASE MakeTransaction(p) \/ WriteJournal(p) \/ StageContent(p) \/ StartAppend(p)
    <2>1. ledger' = ledger
      BY <1>5 DEF MakeTransaction, WriteJournal, StageContent, StartAppend
    <2> QED BY <1>5, <2>1, LedgerStable DEF MakeTransaction, WriteJournal, StageContent, StartAppend
  <1>6. CASE WriteContent(p)
    <2>1. ledger' = ledger
      BY <1>6 DEF WriteContent
    <2> QED BY <1>6, <2>1, LedgerStable DEF WriteContent
  <1>7. CASE AppendRow(p)
    <2>1. row[p] \in Rows /\ ledger' = Append(ledger, row[p])
      BY <1>7 DEF AppendRow
    <2>2. ledger' # <<>> /\ ledger'[Len(ledger')] = row[p]
      BY <2>1, AppendFacts
    <2> QED BY <1>7, <2>2, StoreAssumption DEF AppendRow
  <1>8. CASE SaveTail(p)
    <2>1. ledger' = ledger
      BY <1>8 DEF SaveTail
    <2>2. Committed(row[p].payload)
      <3>1. ledger # <<>> /\ ledger[Len(ledger)] = row[p] /\ ledger \in Seq(Rows)
        BY <1>8 DEF SaveTail
      <3> QED BY <3>1 DEF Committed
    <2> QED BY <1>8, <2>1, <2>2, LedgerStable DEF SaveTail
  <1>9. CASE RemoveFile(p) \/ RemoveDirectory(p)
    <2>1. ledger' = ledger
      BY <1>9 DEF RemoveFile, RemoveDirectory
    <2> QED BY <1>9, <2>1, LedgerStable DEF RemoveFile, RemoveDirectory
  <1>10. CASE RecoverOne(p)
    <2>1. PICK t \in pending : /\ CanRecover(t)
                              /\ row' = [row EXCEPT ![p] = t.row]
                              /\ Goto(p, IF InLedger(t.row) THEN "clean" ELSE "content")
      BY <1>10 DEF RecoverOne
    <2>2. t.row \in Rows /\ t.row.payload # Snapshot /\ "journal" \in t.files /\ ledger' = ledger
      BY <1>10, <2>1 DEF RecoverOne, CanRecover, PendingRowsAreEntries, Transactions
    <2>3. CASE InLedger(t.row)
      <3>1. Committed(t.row.payload)
        BY <2>2, <2>3, DigestPayload DEF InLedger, Committed
      <3> QED BY <1>10, <2>1, <2>2, <2>3, <3>1, LedgerStable DEF RecoverOne, CanRecover
    <2>4. CASE ~InLedger(t.row)
      <3>1. IsNextRow(t.row) /\ Fresh(t.row.payload)
        BY <2>1, <2>2, <2>4 DEF PendingCommittable, Fresh
      <3> QED BY <1>10, <2>1, <2>2, <2>4, <3>1, LedgerStable DEF RecoverOne
    <2> QED BY <2>3, <2>4
  <1> QED BY <1>1, <1>2, <1>3, <1>4, <1>5, <1>6, <1>7, <1>8, <1>9, <1>10 DEF Begin, Continue

\* A writer that goes on to append has found the ledger whole.
LEMMA StepTorn ==
    ASSUME StoreInv, NEW p \in Procs, Begin(p) \/ Continue(p) \/ Crash(p)
    PROVE  TornInv(p)'
  <1> USE DEF StoreInv, TypeOK, TornInv, Goto, Return, disk, local
  <1>1. CASE Begin(p)
    BY <1>1 DEF Begin, InitStart, EnterWriter, AddEntry, AckDuplicate, AddSnapshot, StartRecover, CursorStat
  <1>2. CASE InitLedger(p) \/ InitTestTail(p) \/ InitTail(p) \/ RejectOversized(p)
           \/ EndRecover(p) \/ CursorReadTail(p) \/ CursorReadLast(p) \/ CursorReadRows(p)
           \/ CursorStatAgain(p) \/ CursorWriteTail(p) \/ Crash(p)
    BY <1>2 DEF InitLedger, InitTestTail, InitTail, RejectOversized, EndRecover, CursorReadTail,
         CursorReadLast, CursorReadRows, CursorStatAgain, CursorWriteTail, Crash, StartedInv
  <1>3. CASE LoadTail(p)
    <2>1. CASE TrustedTail(tail, LedgerBytes)
      <3>1. LedgerBytes = 2 * Len(ledger)
        <4>1. CASE LastRowMatches(tail)
          BY <4>1 DEF LastRowMatches, LedgerBytes
        <4>2. CASE tail.seq = 0
          BY <2>1, <4>2 DEF TailInv, LedgerBytes, TrustedTail, TailFits
        <4> QED BY <2>1, <4>1, <4>2 DEF TrustedTail
      <3>2. ~torn
        BY <3>1 DEF LedgerBytes
      <3> QED BY <1>3, <3>2 DEF LoadTail
    <2>2. CASE ~TrustedTail(tail, LedgerBytes)
      BY <1>3, <2>2 DEF LoadTail, Readable
    <2> QED BY <2>1, <2>2
  <1>4. CASE RebuildTail(p) \/ MakeTransaction(p) \/ WriteJournal(p) \/ StageContent(p) \/ WriteContent(p)
    BY <1>4 DEF RebuildTail, AfterLoad, MakeTransaction, WriteJournal, StageContent, WriteContent
  <1>5. CASE StartAppend(p) \/ AppendRow(p) \/ SaveTail(p) \/ RemoveFile(p) \/ RemoveDirectory(p)
    BY <1>5 DEF StartAppend, AppendRow, SaveTail, RemoveFile, RemoveDirectory
  <1>6. CASE RecoverOne(p)
    BY <1>6 DEF RecoverOne, CanRecover, Readable
  <1> QED BY <1>1, <1>2, <1>3, <1>4, <1>5, <1>6 DEF Begin, Continue

\* The other processes keep their parts: the lock holder is alone.
LEMMA StepProcs ==
    ASSUME StoreInv, NEW p \in Procs, Begin(p) \/ Continue(p) \/ Crash(p)
    PROVE  \A q \in Procs : StageInv(q)' /\ RowInv(q)' /\ TornInv(q)'
  <1> SUFFICES ASSUME NEW q \in Procs, q # p PROVE StageInv(q)' /\ RowInv(q)' /\ TornInv(q)'
    BY StepStage, StepRow, StepTorn
  <1>1. pc'[q] = pc[q] /\ item'[q] = item[q] /\ row'[q] = row[q]
    BY StepFrame DEF StoreInv
  <1>2. StageInv(q) /\ RowInv(q) /\ TornInv(q) /\ LockInv(q) /\ LockInv(p)
    BY DEF StoreInv
  <1>3. CASE pc[q] \in Holding
    <2>1. UNCHANGED <<ledger, torn, contents, pending, lock>>
      BY <1>2, <1>3, StepOther DEF StoreInv
    <2>2. StageInv(q)' /\ TornInv(q)'
      BY <1>1, <1>2, <2>1 DEF StageInv, TornInv
    <2>3. RowInv(q)'
      BY <1>1, <1>2, <2>1, LedgerStable DEF RowInv
    <2> QED BY <2>2, <2>3
  <1>4. CASE pc[q] \notin Holding
    BY <1>1, <1>2, <1>4 DEF Holding, StageInv, RowInv, TornInv
  <1> QED BY <1>3, <1>4

\* A ledger that has something in it is never empty again.
LEMMA StepGrow ==
    ASSUME StoreInv, NEW p \in Procs, Begin(p) \/ Continue(p) \/ Crash(p),
           ledger # <<>> \/ torn
    PROVE  (ledger # <<>> \/ torn)'
  <1>1. CASE AppendRow(p)
    BY <1>1, AppendFacts DEF StoreInv, TypeOK, AppendRow
  <1>2. CASE ~AppendRow(p)
    <2>1. ledger' = ledger
      BY <1>2, StepLedger DEF StoreInv
    <2>2. torn' = torn \/ torn'
      BY <1>2 DEF StoreInv, StartedInv, Begin, Continue, disk, local, InitStart, InitLedger, InitTestTail, InitTail, EnterWriter, AddEntry, AckDuplicate,
    AddSnapshot, LoadTail, RebuildTail, AfterLoad, MakeTransaction, RejectOversized, WriteJournal,
    StageContent, ReplaceFiles, WriteContent, StartAppend, AppendRow, SaveTail, RemoveFile,
    RemoveDirectory, StartRecover, RecoverOne, EndRecover, CursorStat, CursorReadTail,
    CursorReadLast, CursorReadRows, CursorStatAgain, CursorWriteTail, Crash
    <2> QED BY <2>1, <2>2
  <1> QED BY <1>1, <1>2

\* A prefix stays one.
LEMMA StepPrefix ==
    ASSUME StoreInv, NEW p \in Procs, Begin(p) \/ Continue(p) \/ Crash(p),
           NEW t \in Tails, NamesPrefix(t, ledger)
    PROVE  NamesPrefix(t, ledger')
  <1>1. CASE AppendRow(p)
    <2>1. row[p] \in Rows /\ ledger' = Append(ledger, row[p])
      BY <1>1 DEF AppendRow, StoreInv, TypeOK
    <2>2. /\ Len(ledger') = Len(ledger) + 1 /\ Len(ledger) \in Nat
          /\ \A i \in 1..Len(ledger) : ledger'[i] = ledger[i]
      BY <2>1, AppendFacts DEF StoreInv
    <2> QED BY <2>2 DEF NamesPrefix
  <1>2. CASE ~AppendRow(p)
    BY <1>2, StepLedger DEF StoreInv, NamesPrefix
  <1> QED BY <1>1, <1>2

\* _tail_from_rows names the whole ledger, which is a prefix of it.
LEMMA TailFromRowsPrefix == ASSUME TypeOK PROVE NamesPrefix(TailFromRows, ledger)
  <1>1. ledger \in Seq(Rows) /\ Len(ledger) \in Nat
    BY DEF TypeOK
  <1>2. CASE ledger = <<>>
    BY <1>2 DEF NamesPrefix, TailFromRows, LastDigest
  <1>3. CASE ledger # <<>>
    BY <1>1, <1>3 DEF NamesPrefix, TailFromRows, LastDigest
  <1> QED BY <1>2, <1>3

\* What a process hands on as a cursor names a prefix of the ledger.
LEMMA StepCursors ==
    ASSUME StoreInv, NEW p \in Procs, Begin(p) \/ Continue(p) \/ Crash(p)
    PROVE  CursorsNamePrefix'
  <1>1. NamesPrefix(TailFromRows, ledger) /\ NamesPrefix(EmptyTail, ledger) /\ TailFromRows \in Tails
    BY TailFromRowsPrefix, RowTypes DEF StoreInv, NamesPrefix, EmptyTail
  <1>2. /\ tail # NoTail => tail \in Tails /\ NamesPrefix(tail, ledger)
        /\ \A q \in Procs : NamesPrefix(seen[q].tail, ledger)
    BY DEF StoreInv, TypeOK, CursorsNamePrefix
  <1>3. \A q \in Procs : seen[q].tail \in Tails
    BY DEF StoreInv, TypeOK
  <1>4. tail' # NoTail => NamesPrefix(tail', ledger')
    <2>1. \/ tail' = tail
          \/ SaveTail(p) \/ RebuildTail(p) \/ CursorWriteTail(p) \/ InitTail(p)
      BY StepTailFile
    <2>2. CASE tail' = tail
      BY <1>2, <2>2, StepPrefix
    <2>3. CASE SaveTail(p)
      <3>1. /\ ledger' = ledger /\ ledger # <<>> /\ ledger[Len(ledger)] = row[p]
            /\ ledger \in Seq(Rows)
        BY <2>3 DEF SaveTail, StoreInv, RowInv, TypeOK
      <3>2. Len(ledger) \in 1..Len(ledger) /\ row[p].seq = Len(ledger)
        BY <3>1 DEF StoreInv, ChainValid
      <3> QED BY <2>3, <3>1, <3>2 DEF SaveTail, NamesPrefix
    <2>4. CASE RebuildTail(p)
      BY <1>1, <2>4, StepPrefix DEF RebuildTail
    <2>5. CASE CursorWriteTail(p)
      BY <1>2, <1>3, <2>5, StepPrefix DEF CursorWriteTail
    <2>6. CASE InitTail(p)
      BY <2>6 DEF InitTail, EmptyTail, NamesPrefix
    <2> QED BY <2>1, <2>2, <2>3, <2>4, <2>5, <2>6
  <1>5. ASSUME NEW q \in Procs PROVE NamesPrefix(seen'[q].tail, ledger')
    <2>1. CASE q # p
      <3>1. seen'[q] = seen[q]
        BY <2>1, StepFrame DEF StoreInv
      <3> QED BY <1>2, <1>3, <3>1, StepPrefix
    <2>2. CASE q = p
      <3>1. \/ /\ seen'[p].tail.seq = seen[p].tail.seq
               /\ seen'[p].tail.digest = seen[p].tail.digest
            \/ seen'[p].tail \in {EmptyTail, tail, TailFromRows}
        <4> USE DEF StoreInv, TypeOK, Tails, NothingSeen, Return, Goto, disk, local
        <4>1. CASE Begin(p)
          BY <4>1 DEF Begin, InitStart, EnterWriter, AddEntry, AckDuplicate, AddSnapshot, StartRecover, CursorStat
        <4>2. CASE CursorReadRows(p) \/ CursorReadTail(p) \/ CursorStatAgain(p)
          <5>1. CASE CursorReadRows(p)
            BY <5>1 DEF CursorReadRows
          <5>2. CASE CursorReadTail(p)
            <6>1. Return(p) \/ UNCHANGED seen \/ seen' = [seen EXCEPT ![p].tail = tail]
              BY <5>2 DEF CursorReadTail
            <6> QED BY <6>1
          <5>3. CASE CursorStatAgain(p)
            BY <5>3 DEF CursorStatAgain
          <5> QED BY <4>2, <5>1, <5>2, <5>3
        <4>3. CASE Continue(p) /\ ~(CursorReadRows(p) \/ CursorReadTail(p) \/ CursorStatAgain(p))
          <5>1. Return(p) \/ UNCHANGED seen
            BY <4>3 DEF Continue, InitStart, InitLedger, InitTestTail, InitTail, EnterWriter, AddEntry, AckDuplicate,
    AddSnapshot, LoadTail, RebuildTail, AfterLoad, MakeTransaction, RejectOversized, WriteJournal,
    StageContent, ReplaceFiles, WriteContent, StartAppend, AppendRow, SaveTail, RemoveFile,
    RemoveDirectory, StartRecover, RecoverOne, EndRecover, CursorStat, CursorReadTail,
    CursorReadLast, CursorReadRows, CursorStatAgain, CursorWriteTail, Crash
          <5> QED BY <5>1
        <4>4. CASE Crash(p)
          BY <4>4 DEF Crash
        <4> QED BY <4>1, <4>2, <4>3, <4>4
      <3>2. EmptyTail \in Tails
        BY ConstantTypes
      <3>3. seen'[p].tail \in Tails
        BY StepType DEF StoreInv, TypeOK
      <3>4. seen'[p].tail = tail => tail # NoTail
        BY <3>3, TailAssumption
      <3> QED BY <1>1, <1>2, <1>3, <2>2, <3>1, <3>2, <3>4, StepPrefix DEF NamesPrefix
    <2> QED BY <2>1, <2>2
  <1> QED BY <1>4, <1>5 DEF CursorsNamePrefix

\* current_cursor rebuilds the tail from a ledger that has rows.
LEMMA StepCursorInv ==
    ASSUME StoreInv, NEW p \in Procs, Begin(p) \/ Continue(p) \/ Crash(p)
    PROVE  \A q \in Procs : CursorInv(q)'
  <1> SUFFICES ASSUME NEW q \in Procs PROVE CursorInv(q)'
    OBVIOUS
  <1>1. CursorInv(q) /\ CursorInv(p) /\ ((ledger # <<>> \/ torn) => (ledger # <<>> \/ torn)')
    BY StepGrow DEF StoreInv
  <1>2. CASE q # p
    BY <1>1, <1>2, StepFrame DEF CursorInv, StoreInv
  <1>3. CASE q = p
    <2>1. \A t \in Tails : NamesPrefix(t, ledger) /\ t.seq # 0 => ledger # <<>> /\ t.seq > 0
      BY DEF NamesPrefix, Tails, StoreInv, TypeOK
    <2>2. /\ pc[p] \in CursorLabels => tail # NoTail
          /\ tail # NoTail => tail \in Tails /\ NamesPrefix(tail, ledger)
          /\ seen[p].tail \in Tails /\ NamesPrefix(seen[p].tail, ledger)
          /\ seen[p].size \in Nat
      BY DEF StoreInv, TypeOK, StartedInv, CursorsNamePrefix
    <2> USE DEF CursorInv, Return, Goto
    <2>3. CASE CursorStat(p)
      <3>1. LedgerBytes > 0 => ledger # <<>> \/ torn
        BY DEF LedgerBytes
      <3> QED BY <1>1, <1>3, <2>3, <3>1 DEF CursorStat, disk, StoreInv, TypeOK
    <2>4. CASE CursorReadTail(p)
      <3>0. tail # NoTail /\ tail \in Tails /\ NamesPrefix(tail, ledger)
        BY <2>2, <2>4 DEF CursorReadTail, CursorLabels
      <3>1. CASE ~TailFits(tail, seen[p].size)
        <4>1. tail.bytes # seen[p].size
          BY <3>0, <3>1 DEF TailFits
        <4>2. ledger # <<>> \/ torn
          <5>1. CASE seen[p].size > 0
            BY <1>1, <2>4, <5>1 DEF CursorReadTail
          <5>2. CASE seen[p].size = 0
            BY <2>1, <3>0, <4>1, <5>2 DEF StoreInv, TailInv
          <5> QED BY <2>2, <5>1, <5>2
        <4> QED BY <1>1, <1>3, <2>4, <3>1, <4>2 DEF CursorReadTail, StoreInv, TypeOK
      <3>2. CASE TailFits(tail, seen[p].size)
        <4>1. ~(tail.seq = 0 /\ tail.digest = None) => tail.seq > 0
          BY <2>1, <3>0 DEF NamesPrefix
        <4> QED BY <1>3, <2>4, <3>2, <4>1 DEF CursorReadTail, StoreInv, TypeOK
      <3> QED BY <3>1, <3>2
    <2>5. CASE CursorReadLast(p)
      <3>1. ledger # <<>>
        BY <1>1, <2>1, <2>2, <2>5 DEF CursorReadLast
      <3> QED BY <1>1, <1>3, <2>5, <3>1 DEF CursorReadLast, StoreInv, TypeOK
    <2>6. CASE CursorReadRows(p)
      <3>1. CASE Readable
        <4>1. TailFromRows.seq > 0
          BY <1>1, <2>6, <3>1 DEF CursorReadRows, Readable, TailFromRows, StoreInv, TypeOK
        <4>2. seen'[p].tail = TailFromRows /\ pc'[p] = "cursor_size"
          BY <2>6, <3>1 DEF CursorReadRows, StoreInv, TypeOK
        <4> QED BY <1>3, <4>1, <4>2
      <3>2. CASE ~Readable
        BY <1>3, <2>6, <3>2 DEF CursorReadRows, StoreInv, TypeOK
      <3> QED BY <3>1, <3>2
    <2>7. CASE CursorStatAgain(p)
      BY <1>1, <1>3, <2>7 DEF CursorStatAgain, StoreInv, TypeOK, Tails
    <2>8. CASE CursorWriteTail(p) \/ Crash(p)
      BY <1>3, <2>8 DEF CursorWriteTail, Crash, StoreInv, TypeOK
    <2>9. pc'[p] \in {"cursor_tail", "cursor_last", "cursor_rows", "cursor_size", "cursor_write"} =>
            \/ CursorStat(p) \/ CursorReadTail(p) \/ CursorReadLast(p) \/ CursorReadRows(p)
            \/ CursorStatAgain(p) \/ CursorWriteTail(p) \/ Crash(p)
      BY DEF StoreInv, TypeOK, Begin, Continue, disk, local, InitStart, InitLedger, InitTestTail, InitTail, EnterWriter, AddEntry, AckDuplicate,
    AddSnapshot, LoadTail, RebuildTail, AfterLoad, MakeTransaction, RejectOversized, WriteJournal,
    StageContent, ReplaceFiles, WriteContent, StartAppend, AppendRow, SaveTail, RemoveFile,
    RemoveDirectory, StartRecover, RecoverOne, EndRecover, CursorStat, CursorReadTail,
    CursorReadLast, CursorReadRows, CursorStatAgain, CursorWriteTail, Crash
    <2> QED BY <1>3, <2>3, <2>4, <2>5, <2>6, <2>7, <2>8, <2>9
  <1> QED BY <1>2, <1>3

\* A tail of no rows is of an empty file.
LEMMA StepTail ==
    ASSUME StoreInv, NEW p \in Procs, Begin(p) \/ Continue(p) \/ Crash(p)
    PROVE  TailInv'
  <1>1. \/ tail' = tail
        \/ SaveTail(p) \/ RebuildTail(p) \/ CursorWriteTail(p) \/ InitTail(p)
    BY StepTailFile
  <1>2. CASE tail' = tail
    BY <1>2 DEF StoreInv, TailInv
  <1>3. CASE SaveTail(p)
    <2>1. ledger # <<>> /\ ledger[Len(ledger)] = row[p] /\ ledger \in Seq(Rows)
      BY <1>3 DEF SaveTail, StoreInv, RowInv, TypeOK
    <2>2. Len(ledger) \in 1..Len(ledger) /\ row[p].seq = Len(ledger)
      BY <2>1 DEF StoreInv, ChainValid
    <2> QED BY <1>3, <2>2 DEF SaveTail, TailInv
  <1>4. CASE RebuildTail(p)
    BY <1>4 DEF RebuildTail, TailFromRows, LedgerBytes, TailInv, StoreInv, TornInv
  <1>5. CASE CursorWriteTail(p)
    BY <1>5 DEF CursorWriteTail, TailInv, StoreInv, CursorInv, TypeOK, Tails
  <1>6. CASE InitTail(p)
    BY <1>6 DEF InitTail, EmptyTail, TailInv
  <1> QED BY <1>1, <1>2, <1>3, <1>4, <1>5, <1>6

\* Rows are linked as they are appended, and no entry is appended twice.
LEMMA StepChain ==
    ASSUME StoreInv, NEW p \in Procs, Begin(p) \/ Continue(p) \/ Crash(p)
    PROVE  ChainValid' /\ NoDuplicateCommits'
  <1>1. CASE ~AppendRow(p)
    BY <1>1, StepLedger DEF StoreInv, ChainValid, NoDuplicateCommits
  <1>2. CASE AppendRow(p)
    <2>1. /\ row[p] \in Rows /\ ledger' = Append(ledger, row[p])
          /\ IsNextRow(row[p]) /\ (row[p].payload # Snapshot => ~Committed(row[p].payload))
      BY <1>2 DEF AppendRow, StoreInv, TypeOK, RowInv, Fresh
    <2>2. /\ Len(ledger') = Len(ledger) + 1 /\ Len(ledger) \in Nat
          /\ \A i \in 1..Len(ledger) : ledger'[i] = ledger[i]
          /\ ledger'[Len(ledger) + 1] = row[p]
      BY <2>1, AppendFacts DEF StoreInv
    <2>3. ChainValid'
      <3> SUFFICES ASSUME NEW i \in 1..Len(ledger')
                   PROVE  /\ ledger'[i].seq = i
                          /\ ledger'[i].prev = IF i = 1 THEN None ELSE EntryDigest(ledger'[i - 1])
        BY DEF ChainValid
      <3>1. CASE i \in 1..Len(ledger)
        BY <2>2, <3>1 DEF StoreInv, ChainValid
      <3>2. CASE i = Len(ledger) + 1
        <4>1. CASE ledger = <<>>
          BY <2>1, <2>2, <3>2, <4>1 DEF IsNextRow, LastDigest
        <4>2. CASE ledger # <<>>
          <5>1. Len(ledger) > 0
            BY <2>2, <4>2 DEF StoreInv, TypeOK
          <5> QED BY <2>1, <2>2, <3>2, <4>2, <5>1 DEF IsNextRow, LastDigest
        <4> QED BY <4>1, <4>2
      <3> QED BY <2>2, <3>1, <3>2
    <2>4. NoDuplicateCommits'
      BY <2>1, <2>2 DEF StoreInv, NoDuplicateCommits, Committed
    <2> QED BY <2>3, <2>4
  <1> QED BY <1>1, <1>2

\* What a step may do to the transaction directories.
LEMMA PendingCases ==
    ASSUME StoreInv, NEW p \in Procs, Begin(p) \/ Continue(p) \/ Crash(p)
    PROVE  \/ pending' = pending
           \/ MakeTransaction(p) \/ RejectOversized(p) \/ WriteJournal(p) \/ StageContent(p)
           \/ RemoveFile(p) \/ RemoveDirectory(p)
  BY DEF Begin, Continue, disk, local, InitStart, InitLedger, InitTestTail, InitTail, EnterWriter, AddEntry, AckDuplicate,
    AddSnapshot, LoadTail, RebuildTail, AfterLoad, MakeTransaction, RejectOversized, WriteJournal,
    StageContent, ReplaceFiles, WriteContent, StartAppend, AppendRow, SaveTail, RemoveFile,
    RemoveDirectory, StartRecover, RecoverOne, EndRecover, CursorStat, CursorReadTail,
    CursorReadLast, CursorReadRows, CursorStatAgain, CursorWriteTail, Crash

\* At most one transaction is pending after a step, and it is for a record or event.
LEMMA StepPending ==
    ASSUME StoreInv, NEW p \in Procs, Begin(p) \/ Continue(p) \/ Crash(p)
    PROVE  PendingRowsAreEntries' /\ OneTransaction'
  <1>1. PendingRowsAreEntries /\ OneTransaction
    BY DEF StoreInv
  <1>2. CASE pending' \subseteq pending
    BY <1>1, <1>2 DEF PendingRowsAreEntries, OneTransaction
  <1>3. CASE MakeTransaction(p) \/ WriteJournal(p) \/ StageContent(p) \/ RemoveFile(p)
    <2>1. /\ pc'[p] \in {"journal", "stage", "content", "clean"}
          /\ row' = row /\ row[p].payload # Snapshot
      BY <1>3 DEF StoreInv, TypeOK, RowInv, MakeTransaction, WriteJournal, StageContent,
                  RemoveFile, Goto, local
    <2>2. \E f : pending' = {Transaction(row[p], f)}
      BY <2>1, StepStage DEF StageInv
    <2> QED BY <2>1, <2>2 DEF PendingRowsAreEntries, OneTransaction, Transaction
  <1>4. CASE RejectOversized(p) \/ RemoveDirectory(p)
    BY <1>2, <1>4 DEF RejectOversized, RemoveDirectory
  <1> QED BY <1>2, <1>3, <1>4, PendingCases

\* A journaled transaction stays committable by recover.
LEMMA StepCommittable ==
    ASSUME StoreInv, NEW p \in Procs, Begin(p) \/ Continue(p) \/ Crash(p)
    PROVE  PendingCommittable'
  <1> DEFINE Committable(t) ==
               "journal" \in t.files => InLedger(t.row) \/ (IsNextRow(t.row) /\ Fresh(t.row.payload))
  <1>1. \A t \in pending : Committable(t)
    BY DEF StoreInv, PendingCommittable, Fresh
  <1> SUFFICES ASSUME NEW t \in pending', "journal" \in t.files
               PROVE  InLedger(t.row)' \/ (IsNextRow(t.row)' /\ Fresh(t.row.payload)')
    BY DEF PendingCommittable, Fresh
  <1>2. CASE AppendRow(p)
    <2>1. /\ row[p] \in Rows /\ ledger' = Append(ledger, row[p])
          /\ pending' = pending
          /\ pc[p] \in {"append", "appending"}
      BY <1>2 DEF AppendRow, StoreInv, TypeOK
    <2>2. t.row = row[p]
      BY <2>1 DEF StoreInv, StageInv, Transaction
    <2>3. Len(ledger) + 1 \in 1..Len(ledger') /\ ledger'[Len(ledger) + 1] = row[p]
      BY <2>1, AppendFacts DEF StoreInv
    <2> QED BY <2>2, <2>3 DEF InLedger
  <1>3. CASE ~AppendRow(p)
    <2>1. ledger' = ledger
      BY <1>3, StepLedger DEF StoreInv
    <2> SUFFICES Committable(t)
      BY <2>1, LedgerStable
    <2>2. CASE t \in pending
      BY <1>1, <2>2
    <2>3. CASE MakeTransaction(p)
      BY <1>1, <2>3 DEF MakeTransaction, Transaction
    <2>4. CASE WriteJournal(p) \/ StageContent(p)
      <3>1. IsNextRow(row[p]) /\ Fresh(row[p].payload)
        BY <2>4 DEF StoreInv, RowInv, WriteJournal, StageContent
      <3>2. t \in pending \/ t.row = row[p]
        BY <2>4 DEF WriteJournal, StageContent, ReplaceFiles, Transaction
      <3> QED BY <1>1, <3>1, <3>2
    <2>5. CASE RemoveFile(p)
      <3>1. PICK u \in pending : \E f \in u.files :
              u.row = row[p] /\ ReplaceFiles(p, u.files, u.files \ {f})
        BY <2>5 DEF RemoveFile
      <3>2. t \in pending \/ (t.row = u.row /\ t.files \subseteq u.files)
        BY <3>1 DEF ReplaceFiles, Transaction
      <3> QED BY <1>1, <3>1, <3>2
    <2>6. CASE RejectOversized(p) \/ RemoveDirectory(p)
      BY <1>1, <2>6 DEF RejectOversized, RemoveDirectory
    <2> QED BY <2>2, <2>3, <2>4, <2>5, <2>6, PendingCases
  <1> QED BY <1>2, <1>3

\* Commits and content files are for good.
LEMMA StepMonotone ==
    ASSUME StoreInv, NEW p \in Procs, Begin(p) \/ Continue(p) \/ Crash(p)
    PROVE  /\ \A x : Committed(x) => Committed(x)'
           /\ contents \subseteq contents'
  <1>1. \A x : Committed(x) => Committed(x)'
    <2>1. CASE AppendRow(p)
      BY <2>1, AppendCommits DEF AppendRow, StoreInv, TypeOK
    <2>2. CASE ~AppendRow(p)
      BY <2>2, StepLedger, LedgerStable DEF StoreInv
    <2> QED BY <2>1, <2>2
  <1>2. contents \subseteq contents'
    BY DEF Begin, Continue, disk, local, InitStart, InitLedger, InitTestTail, InitTail, EnterWriter, AddEntry, AckDuplicate,
    AddSnapshot, LoadTail, RebuildTail, AfterLoad, MakeTransaction, RejectOversized, WriteJournal,
    StageContent, ReplaceFiles, WriteContent, StartAppend, AppendRow, SaveTail, RemoveFile,
    RemoveDirectory, StartRecover, RecoverOne, EndRecover, CursorStat, CursorReadTail,
    CursorReadLast, CursorReadRows, CursorStatAgain, CursorWriteTail, Crash
  <1> QED BY <1>1, <1>2

\* What was reported as stored stays stored.
LEMMA StepAcked ==
    ASSUME StoreInv, NEW p \in Procs, Begin(p) \/ Continue(p) \/ Crash(p)
    PROVE  AckedDurable'
  <1> SUFFICES ASSUME NEW x \in acked' PROVE Committed(x) /\ x \in contents
    BY StepMonotone DEF AckedDurable
  <1>1. CASE x \in acked
    BY <1>1 DEF StoreInv, AckedDurable
  <1>2. CASE \E y \in Entries : AckDuplicate(p, y)
    BY <1>1, <1>2 DEF StoreInv, AckDuplicate, ContentMatchesLedger
  <1>3. CASE RemoveDirectory(p) /\ item[p] # NoDigest
    BY <1>1, <1>3 DEF StoreInv, RowInv, RemoveDirectory
  <1>4. \/ acked' = acked \/ (\E y \in Entries : AckDuplicate(p, y))
        \/ (RemoveDirectory(p) /\ item[p] # NoDigest)
    BY DEF Begin, Continue, disk, local, InitStart, InitLedger, InitTestTail, InitTail, EnterWriter, AddEntry, AckDuplicate,
    AddSnapshot, LoadTail, RebuildTail, AfterLoad, MakeTransaction, RejectOversized, WriteJournal,
    StageContent, ReplaceFiles, WriteContent, StartAppend, AppendRow, SaveTail, RemoveFile,
    RemoveDirectory, StartRecover, RecoverOne, EndRecover, CursorStat, CursorReadTail,
    CursorReadLast, CursorReadRows, CursorStatAgain, CursorWriteTail, Crash
  <1> QED BY <1>1, <1>2, <1>3, <1>4

\* Content files and ledger stay in step, up to the pending journal.
LEMMA StepContent ==
    ASSUME StoreInv, NEW p \in Procs, Begin(p) \/ Continue(p) \/ Crash(p)
    PROVE  ContentMatchesLedger'
  <1>1. \A x \in Entries : Committed(x)' => x \in contents'
    <2>1. CASE AppendRow(p)
      <3>1. /\ row[p] \in Rows /\ ledger' = Append(ledger, row[p])
            /\ row[p].payload # Snapshot => row[p].payload \in contents
        BY <2>1 DEF AppendRow, StoreInv, TypeOK, RowInv
      <3> QED BY <3>1, AppendCommits, StepMonotone, EntryAssumption
              DEF StoreInv, ContentMatchesLedger, Entries
    <2>2. CASE ~AppendRow(p)
      BY <2>2, StepLedger, LedgerStable, StepMonotone DEF StoreInv, ContentMatchesLedger
    <2> QED BY <2>1, <2>2
  <1>2. ASSUME NEW x \in contents', ~Committed(x)'
        PROVE  \E t \in pending' : t.row.payload = x /\ "journal" \in t.files
    <2>1. ~Committed(x)
      BY <1>2, StepMonotone
    <2>2. CASE WriteContent(p)
      <3>1. PICK f \in SUBSET Files : "journal" \in f /\ pending = {Transaction(row[p], f)}
        BY <2>2 DEF StoreInv, StageInv, WriteContent
      <3>2. CASE x = row[p].payload
        BY <2>2, <3>1, <3>2 DEF WriteContent, Transaction
      <3>3. CASE x \in contents
        BY <2>1, <2>2, <3>3 DEF WriteContent, StoreInv, ContentMatchesLedger
      <3> QED BY <2>2, <3>2, <3>3 DEF WriteContent
    <2>3. CASE ~WriteContent(p)
      <3>1. contents' = contents
        BY <2>3 DEF Begin, Continue, disk, local, InitStart, InitLedger, InitTestTail, InitTail, EnterWriter, AddEntry, AckDuplicate,
    AddSnapshot, LoadTail, RebuildTail, AfterLoad, MakeTransaction, RejectOversized, WriteJournal,
    StageContent, ReplaceFiles, WriteContent, StartAppend, AppendRow, SaveTail, RemoveFile,
    RemoveDirectory, StartRecover, RecoverOne, EndRecover, CursorStat, CursorReadTail,
    CursorReadLast, CursorReadRows, CursorStatAgain, CursorWriteTail, Crash
      <3>2. PICK t \in pending : t.row.payload = x /\ "journal" \in t.files
        BY <1>2, <2>1, <3>1 DEF StoreInv, ContentMatchesLedger
      <3>3. CASE t \in pending'
        BY <3>2, <3>3
      <3>4. CASE RejectOversized(p) \/ MakeTransaction(p)
        BY <3>2, <3>4 DEF RejectOversized, MakeTransaction, Transaction
      <3>5. CASE WriteJournal(p)
        BY <3>2, <3>5 DEF WriteJournal, ReplaceFiles, Transaction
      <3>6. CASE StageContent(p)
        <4>1. pending = {Transaction(row[p], {"journal"})}
          BY <3>6 DEF StageContent, StoreInv, StageInv
        <4>2. Transaction(row[p], {"journal", "content"}) \in pending'
          BY <3>6 DEF StageContent, ReplaceFiles
        <4>3. row[p].payload = x
          BY <3>2, <4>1 DEF Transaction
        <4> QED BY <4>2, <4>3 DEF Transaction
      <3>7. CASE RemoveFile(p) \/ RemoveDirectory(p)
        <4>1. t.row = row[p] /\ Committed(row[p].payload)
          BY <3>7 DEF RemoveFile, RemoveDirectory, StoreInv, StageInv, RowInv, Transaction
        <4> QED BY <2>1, <3>2, <4>1
      <3> QED BY <3>3, <3>4, <3>5, <3>6, <3>7, PendingCases
    <2> QED BY <2>2, <2>3
  <1> QED BY <1>1, <1>2 DEF ContentMatchesLedger

-----------------------------------------------------------------------------
\* The inductive invariant holds initially.
LEMMA InitInv == Init => StoreInv
  <1> SUFFICES ASSUME Init PROVE StoreInv
    OBVIOUS
  <1>1. ledger = <<>> /\ Len(ledger) = 0
    BY DEF Init, Quiet
  <1>2. tail # NoTail /\ tail = EmptyTail /\ created
    BY ConstantTypes, TailAssumption DEF Init, Quiet
  <1>3. ASSUME NEW p \in Procs
        PROVE  LockInv(p) /\ StageInv(p) /\ RowInv(p) /\ TornInv(p) /\ CursorInv(p)
    <2>1. pc[p] = "idle" /\ lock # p /\ item[p] = NoDigest
      BY StoreAssumption DEF Init, Quiet
    <2> QED BY <2>1 DEF LockInv, Holding, StageInv, RowInv, TornInv, CursorInv
  <1>4. StartedInv /\ TailInv /\ CursorsNamePrefix
    BY <1>2 DEF Init, Quiet, StartedInv, TailInv, EmptyTail, NothingSeen, CursorsNamePrefix, NamesPrefix
  <1>5. PendingRowsAreEntries /\ OneTransaction /\ PendingCommittable
    BY DEF Init, Quiet, PendingRowsAreEntries, OneTransaction, PendingCommittable
  <1>6. ChainValid /\ NoDuplicateCommits
    BY <1>1 DEF ChainValid, NoDuplicateCommits
  <1>7. AckedDurable /\ ContentMatchesLedger
    BY <1>1 DEF Init, Quiet, AckedDurable, ContentMatchesLedger, Committed
  <1> QED BY <1>3, <1>4, <1>5, <1>6, <1>7, InitType DEF StoreInv

\* Every step, and every stuttering step, preserves it.
LEMMA StepInv == StoreInv /\ [Next]_vars => StoreInv'
  <1> SUFFICES ASSUME StoreInv, [Next]_vars PROVE StoreInv'
    OBVIOUS
  <1>1. CASE Next
    <2>1. PICK p \in Procs : Begin(p) \/ Continue(p) \/ Crash(p)
      BY <1>1 DEF Next
    <2>2. TypeOK' /\ LoadHasItem' /\ StartedInv'
      BY <2>1, StepType, StepLoad, StepStarted DEF StoreInv
    <2>3. \A q \in Procs : LockInv(q)'
      BY <2>1, StepLock DEF StoreInv
    <2>4. \A q \in Procs : StageInv(q)' /\ RowInv(q)' /\ TornInv(q)'
      BY <2>1, StepProcs
    <2>5. \A q \in Procs : CursorInv(q)'
      BY <2>1, StepCursorInv
    <2>6. TailInv' /\ CursorsNamePrefix'
      BY <2>1, StepTail, StepCursors
    <2>7. PendingRowsAreEntries' /\ OneTransaction' /\ PendingCommittable'
      BY <2>1, StepPending, StepCommittable
    <2>8. ChainValid' /\ NoDuplicateCommits' /\ AckedDurable' /\ ContentMatchesLedger'
      BY <2>1, StepChain, StepAcked, StepContent
    <2> QED BY <2>2, <2>3, <2>4, <2>5, <2>6, <2>7, <2>8 DEF StoreInv
  <1>2. CASE UNCHANGED vars
    <2>1. UNCHANGED <<created, ledger, torn, tail, contents, pending, lock, pc, item, row, seen,
                      acked, crashes>>
      BY <1>2 DEF vars, disk, local
    <2>2. /\ \A x : Committed(x)' <=> Committed(x)
          /\ \A x : Fresh(x)' <=> Fresh(x)
          /\ \A r : IsNextRow(r)' <=> IsNextRow(r)
          /\ \A r : InLedger(r)' <=> InLedger(r)
      BY <2>1, LedgerStable
    <2>3. TypeOK' /\ LoadHasItem' /\ StartedInv' /\ TailInv' /\ CursorsNamePrefix'
      BY <2>1 DEF StoreInv, TypeOK, LoadHasItem, StartedInv, TailInv, CursorsNamePrefix
    <2>4. ASSUME NEW q \in Procs
          PROVE  LockInv(q)' /\ StageInv(q)' /\ RowInv(q)' /\ TornInv(q)' /\ CursorInv(q)'
      <3>1. LockInv(q) /\ StageInv(q) /\ RowInv(q) /\ TornInv(q) /\ CursorInv(q)
        BY DEF StoreInv
      <3>2. LockInv(q)' /\ StageInv(q)' /\ TornInv(q)' /\ CursorInv(q)'
        BY <2>1, <3>1 DEF LockInv, StageInv, TornInv, CursorInv
      <3>3. RowInv(q)'
        BY <2>1, <2>2, <3>1 DEF RowInv
      <3> QED BY <3>2, <3>3
    <2>5. PendingRowsAreEntries' /\ OneTransaction'
      BY <2>1 DEF StoreInv, PendingRowsAreEntries, OneTransaction
    <2>6. PendingCommittable'
      BY <2>1 DEF StoreInv, PendingCommittable, InLedger, IsNextRow, LastDigest, Committed
    <2>7. ChainValid' /\ NoDuplicateCommits'
      BY <2>1 DEF StoreInv, ChainValid, NoDuplicateCommits
    <2>8. AckedDurable' /\ ContentMatchesLedger'
      BY <2>1, <2>2 DEF StoreInv, AckedDurable, ContentMatchesLedger
    <2> QED BY <2>3, <2>4, <2>5, <2>6, <2>7, <2>8 DEF StoreInv
  <1> QED BY <1>1, <1>2

\* The invariant of the store: it holds in every state that any number of
\* processes can reach through add_record, add_event, add_snapshot, recover and
\* current_cursor, with crashes between any two of their file effects.
THEOREM StoreInvariant == Spec => []StoreInv
  BY InitInv, StepInv, PTL DEF Spec

\* The ledger that _append_row writes is a chain: verify() never reports a
\* SEQUENCE_MISMATCH or a PREVIOUS_DIGEST_MISMATCH on it.
THEOREM Chained == Spec => []ChainValid
  <1>1. StoreInv => ChainValid
    BY DEF StoreInv
  <1> QED BY <1>1, StoreInvariant, PTL

\* _load_tail_locked never takes a tail file that disagrees with the ledger,
\* although current_cursor writes the file without the lock.
THEOREM TailTrustworthy == Spec => []TrustedTailIsRight
  <1>1. StoreInv => TrustedTailIsRight
    BY TrustedRight DEF TrustedTailIsRight
  <1> QED BY <1>1, StoreInvariant, PTL

\* The cursor that current_cursor returns always names a prefix of the ledger,
\* so sync_since does not reject it as stale.
THEOREM CursorsFresh == Spec => []CursorsNamePrefix
  <1>1. StoreInv => CursorsNamePrefix
    BY DEF StoreInv
  <1> QED BY <1>1, StoreInvariant, PTL

\* _require_no_pending and the writer lock leave at most one transaction
\* directory, and what its journal holds recover may commit without repeating
\* the checks of add_record and add_event.
THEOREM Recoverable == Spec => [](OneTransaction /\ PendingCommittable)
  <1>1. StoreInv => OneTransaction /\ PendingCommittable
    BY DEF StoreInv
  <1> QED BY <1>1, StoreInvariant, PTL

\* A retried add_record or add_event and a repeated recover commit an entry once.
THEOREM CommitsOnce == Spec => []NoDuplicateCommits
  <1>1. StoreInv => NoDuplicateCommits
    BY DEF StoreInv
  <1> QED BY <1>1, StoreInvariant, PTL

\* What an add has reported as stored is in the ledger and has its content file
\* in every later state, crashes included.
THEOREM Durable == Spec => [](AckedDurable /\ ContentMatchesLedger)
  <1>1. StoreInv => AckedDurable /\ ContentMatchesLedger
    BY DEF StoreInv
  <1> QED BY <1>1, StoreInvariant, PTL
-----------------------------------------------------------------------------
\* Refinement.

\* Appending a row appends its payload to the history.
LEMMA PayloadsAppend ==
    ASSUME TypeOK, NEW r \in Rows, ledger' = Append(ledger, r)
    PROVE  PayloadsOf(ledger') = Append(PayloadsOf(ledger), r.payload)
  <1> DEFINE h == PayloadsOf(ledger)
             n == Len(ledger)
  <1>1. /\ n \in Nat /\ Len(ledger') = n + 1
        /\ \A i \in 1..n : ledger'[i] = ledger[i]
        /\ ledger'[n + 1] = r
        /\ \A i \in 1..n : ledger[i] \in Rows
    BY AppendFacts
  <1>2. h = [i \in 1..n |-> ledger[i].payload]
    BY DEF PayloadsOf
  <1>3. h \in Seq(Payloads) /\ Len(h) = n
    BY <1>1, <1>2 DEF Rows
  <1>4. Append(h, r.payload) = [i \in 1..n + 1 |-> IF i = n + 1 THEN r.payload ELSE h[i]]
    BY <1>1, <1>3 DEF Rows
  <1>5. \A i \in 1..n + 1 : ledger'[i].payload = IF i = n + 1 THEN r.payload ELSE h[i]
    BY <1>1, <1>2
  <1>6. PayloadsOf(ledger') = [i \in 1..n + 1 |-> ledger'[i].payload]
    BY <1>1 DEF PayloadsOf
  <1> QED BY <1>4, <1>5, <1>6

\* A step of a process is a commit of the abstract log, or leaves it alone.
LEMMA StepRefines ==
    ASSUME StoreInv, NEW p \in Procs, Begin(p) \/ Continue(p) \/ Crash(p)
    PROVE  Log!Next \/ PayloadsOf(ledger)' = PayloadsOf(ledger)
  <1>1. CASE ~AppendRow(p)
    BY <1>1, StepLedger DEF StoreInv
  <1>2. CASE AppendRow(p)
    <2>1. /\ row[p] \in Rows /\ ledger' = Append(ledger, row[p])
          /\ row[p].payload # Snapshot => Fresh(row[p].payload)
      BY <1>2 DEF AppendRow, StoreInv, TypeOK, RowInv
    <2>2. PayloadsOf(ledger)' = Append(PayloadsOf(ledger), row[p].payload)
      BY <2>1, PayloadsAppend DEF StoreInv
    <2>3. CASE row[p].payload = Snapshot
      BY <2>2, <2>3 DEF Log!Next, Log!CommitSnapshot
    <2>4. CASE row[p].payload # Snapshot
      <3>1. row[p].payload \in Entries
        BY <2>1, <2>4 DEF Rows, Payloads
      <3>2. \A i \in 1..Len(PayloadsOf(ledger)) : PayloadsOf(ledger)[i] # row[p].payload
        <4>1. ledger \in Seq(Rows)
          BY DEF StoreInv, TypeOK
        <4>2. Len(ledger) \in Nat /\ Len(PayloadsOf(ledger)) = Len(ledger)
          BY <4>1 DEF PayloadsOf
        <4> QED BY <2>1, <2>4, <4>2 DEF PayloadsOf, Fresh, Committed
      <3>3. Log!Commit(row[p].payload)
        BY <2>1, <2>2, <2>4, <3>2 DEF Log!Commit, Fresh
      <3> QED BY <3>1, <3>3 DEF Log!Next
    <2> QED BY <2>3, <2>4
  <1> QED BY <1>1, <1>2

\* So does every step of the store.
LEMMA NextRefines == StoreInv /\ [Next]_vars => [Log!Next]_(PayloadsOf(ledger))
  <1> SUFFICES ASSUME StoreInv, [Next]_vars
               PROVE  Log!Next \/ PayloadsOf(ledger)' = PayloadsOf(ledger)
    OBVIOUS
  <1>1. CASE Next
    BY <1>1, StepRefines DEF Next
  <1>2. CASE UNCHANGED vars
    BY <1>2 DEF vars, disk
  <1> QED BY <1>1, <1>2

\* The store implements the append-only, admitted log: with any number of
\* processes, crashes and recoveries, the ledger changes only by one admitted,
\* new entry or one snapshot at its end.
THEOREM StoreImplementsLog == Spec => ImplementsAppendLog
  <1>1. Init => Log!Init
    BY DEF Init, Quiet, Log!Init, PayloadsOf
  <1> QED BY <1>1, NextRefines, StoreInvariant, PTL DEF Spec, ImplementsAppendLog, Log!Spec
-----------------------------------------------------------------------------
\* The histories of records.

\* A nonempty set of numbers has a smallest one.
LEMMA SmallestIn ==
    ASSUME NEW S, S \subseteq Nat, S # {}
    PROVE  \E m \in S : \A n \in S : m <= n
  <1> DEFINE R == {ss \in Nat \X Nat : ss[1] < ss[2]}
  <1>1. IsWellFoundedOn(R, Nat)
    BY NatLessThanWellFounded DEF OpToRel
  <1> HIDE DEF R
  <1>2. PICK m \in S : \A n \in S : <<n, m>> \notin R
    BY <1>1, WFMin
  <1>3. \A n \in S : ~(n < m)
    BY <1>2 DEF R
  <1> QED BY <1>3

\* A nonempty set of places in a sequence has a last one.
LEMMA LastIn ==
    ASSUME NEW n \in Nat, NEW S, S \subseteq 1..n, S # {}
    PROVE  \E m \in S : \A i \in S : i <= m
  <1> DEFINE T == {n - i : i \in S}
  <1>1. T \subseteq Nat /\ T # {}
    <2>1. \A i \in S : i \in Nat /\ n - i \in Nat
      OBVIOUS
    <2>2. PICK i \in S : TRUE
      OBVIOUS
    <2>3. n - i \in T
      OBVIOUS
    <2> QED BY <2>1, <2>3
  <1>2. PICK t \in T : \A u \in T : t <= u
    BY <1>1, SmallestIn
  <1>3. PICK m \in S : t = n - m
    BY <1>2
  <1>4. \A i \in S : n - m <= n - i
    BY <1>2, <1>3
  <1> QED BY <1>3, <1>4

\* The revision that REVISION_REQUIRED lets in comes after all of its logical id
\* and names the one just before it.
LEMMA StepRevisions ==
    ASSUME StoreInv, RevisionsLinear, NEW p \in Procs, Begin(p) \/ Continue(p) \/ Crash(p)
    PROVE  RevisionsLinear'
  <1>1. CASE ~AppendRow(p)
    BY <1>1, StepLedger DEF StoreInv, RevisionsLinear
  <1>2. CASE AppendRow(p)
    <2> DEFINE n == Len(ledger)
               b == row[p].payload
               h == PayloadsOf(ledger)
    <2>1. /\ row[p] \in Rows /\ ledger' = Append(ledger, row[p])
          /\ b # Snapshot => Fresh(b)
      BY <1>2 DEF AppendRow, StoreInv, TypeOK, RowInv
    <2>2. /\ Len(ledger') = n + 1 /\ n \in Nat
          /\ \A i \in 1..n : ledger'[i] = ledger[i]
          /\ ledger'[n + 1] = row[p]
      BY <2>1, AppendFacts DEF StoreInv
    <2>3. ASSUME NEW i \in 1..n, ledger[i].payload \in Records, b \in Records,
                 Attr[ledger[i].payload].id = Attr[b].id
          PROVE  /\ Attr[ledger[i].payload].rev < Attr[b].rev
                 /\ Attr[b].rev = Attr[ledger[i].payload].rev + 1 => Attr[b].prev = ledger[i].payload
      <3> DEFINE same == SameLogicalId(b, h)
                 at == {k \in 1..n : ledger[k].payload \in same}
      <3>1. /\ Len(h) = n
            /\ \A k \in 1..n : h[k] = ledger[k].payload
        BY <2>2 DEF PayloadsOf
      <3>2. same = {x \in {ledger[k].payload : k \in 1..n} \cap Records : Attr[x].id = Attr[b].id}
        BY <3>1 DEF SameLogicalId, RecordsIn, Elements
      <3>3. \A x \in same : x \in Records /\ Attr[x].rev \in Nat
        BY <3>2, EntryAssumption
      <3>4. i \in at
        BY <2>3, <3>2
      <3>5. PICK m \in at : \A k \in at : k <= m
        BY <2>2, <3>4, LastIn
      <3>6. \A x \in same : \E k \in at : x = ledger[k].payload
        BY <3>2
      <3>7. \A k \in at : /\ k \in 1..n /\ ledger[k].payload \in Records
                          /\ Attr[ledger[k].payload].id = Attr[b].id
        BY <3>2
      <3>8. \A k \in at : k = m \/ Attr[ledger[k].payload].rev < Attr[ledger[m].payload].rev
        BY <3>5, <3>7, <2>2 DEF RevisionsLinear
      <3>9. ledger[m].payload \in same
        BY <3>5
      <3> HIDE DEF same, at
      <3>10. ASSUME NEW y \in same
             PROVE  y = ledger[m].payload \/ Attr[y].rev < Attr[ledger[m].payload].rev
        <4>1. PICK k \in at : y = ledger[k].payload
          BY <3>6
        <4> QED BY <3>8, <4>1
      <3>11. /\ \A y \in same : Attr[y].rev <= Attr[ledger[m].payload].rev
             /\ \A x \in same : (\A y \in same : Attr[y].rev <= Attr[x].rev) => x = ledger[m].payload
        BY <3>3, <3>9, <3>10
      <3>12. Latest(same) = ledger[m].payload
        BY <3>9, <3>11 DEF Latest
      <3>13. b # Snapshot
        BY <2>3, EntryAssumption
      <3>14. NextRevision(b, h)
        BY <2>1, <2>3, <3>13 DEF Fresh, Admitted, RecordAdmitted
      <3>15. /\ Attr[b].rev = Attr[ledger[m].payload].rev + 1
             /\ Attr[b].prev = ledger[m].payload
        BY <3>9, <3>12, <3>14 DEF NextRevision, same
      <3>16. i = m \/ Attr[ledger[i].payload].rev < Attr[ledger[m].payload].rev
        BY <3>4, <3>8
      <3>17. Attr[ledger[i].payload].rev \in Nat /\ Attr[ledger[m].payload].rev \in Nat
        BY <3>3, <3>4, <3>9 DEF at
      <3> QED BY <3>15, <3>16, <3>17, SMTT(40)
    <2> QED BY <2>2, <2>3 DEF RevisionsLinear
  <1> QED BY <1>1, <1>2

\* The revisions of a logical record that raced for the next place are in line:
\* REVISION_REQUIRED of record_semantic_diagnostics, asked under the writer lock,
\* still holds when the row is appended, after any crash and recovery.
THEOREM RevisionsInLine == Spec => []RevisionsLinear
  <1>1. Init => RevisionsLinear
    BY DEF Init, Quiet, RevisionsLinear
  <1>2. StoreInv /\ RevisionsLinear /\ [Next]_vars => RevisionsLinear'
    <2>1. ASSUME StoreInv, RevisionsLinear, Next PROVE RevisionsLinear'
      BY <2>1, StepRevisions DEF Next
    <2>2. ASSUME RevisionsLinear, UNCHANGED vars PROVE RevisionsLinear'
      BY <2>2 DEF vars, disk, RevisionsLinear
    <2> QED BY <2>1, <2>2
  <1> QED BY <1>1, <1>2, StoreInvariant, PTL DEF Spec

-----------------------------------------------------------------------------
\* The dispositions that the events of a history project to.  The projection is
\* a recursive function; that such a function exists, and that one more payload
\* moves it by one step, is shown on the smallest place where it would fail.

\* f replays the first k payloads of a history.
Replays(f, k, past, target, domain) ==
    f = [i \in 0..k |-> IF i = 0 THEN Proposed
                        ELSE AfterPayload(f[i - 1], past[i], target, domain)]

\* Every history can be replayed.
LEMMA ReplayExists ==
    ASSUME NEW past, NEW n \in Nat, NEW target, NEW domain
    PROVE  \E f : Replays(f, n, past, target, domain)
  <1> DEFINE Bad == {k \in Nat : \A f : ~Replays(f, k, past, target, domain)}
  <1> SUFFICES ASSUME Bad # {} PROVE FALSE
    OBVIOUS
  <1>1. PICK k \in Bad : \A j \in Bad : k <= j
    BY SmallestIn
  <1>2. k # 0
    <2> DEFINE f == [i \in 0..0 |-> Proposed]
    <2>1. Replays(f, 0, past, target, domain)
      BY DEF Replays
    <2> QED BY <2>1, <1>1
  <1>3. k \in Nat /\ k - 1 \in Nat /\ k - 1 \notin Bad
    BY <1>1, <1>2
  <1>4. PICK f : Replays(f, k - 1, past, target, domain)
    BY <1>3
  <1> DEFINE g == [i \in 0..k |-> IF i < k THEN f[i]
                                  ELSE AfterPayload(f[k - 1], past[k], target, domain)]
  <1> HIDE DEF Bad
  <1>5. \A i \in 0..(k - 1) : f[i] = IF i = 0 THEN Proposed
                                    ELSE AfterPayload(f[i - 1], past[i], target, domain)
    BY <1>4 DEF Replays
  <1>6. \A i \in 0..k : g[i] = IF i = 0 THEN Proposed
                               ELSE AfterPayload(g[i - 1], past[i], target, domain)
    <2> SUFFICES ASSUME NEW i \in 0..k
                 PROVE  g[i] = IF i = 0 THEN Proposed
                               ELSE AfterPayload(g[i - 1], past[i], target, domain)
      OBVIOUS
    <2>1. CASE i = k
      BY <1>2, <1>3, <2>1
    <2>2. CASE i # k
      BY <1>3, <1>5, <2>2
    <2> QED BY <2>1, <2>2
  <1>7. Replays(g, k, past, target, domain)
    <2>1. g = [i \in 0..k |-> g[i]]
      OBVIOUS
    <2> HIDE DEF g
    <2> QED BY <1>6, <2>1 DEF Replays
  <1> QED BY <1>1, <1>7 DEF Bad

\* Two replays of histories that begin alike begin alike.
LEMMA ReplayOnce ==
    ASSUME NEW n \in Nat, NEW f, NEW g, NEW h, NEW k,
           NEW target, NEW domain, \A i \in 1..n : h[i] = k[i],
           Replays(f, n, h, target, domain), Replays(g, n + 1, k, target, domain)
    PROVE  f[n] = g[n]
  <1> DEFINE Bad == {i \in 0..n : f[i] # g[i]}
  <1> SUFFICES ASSUME Bad # {} PROVE FALSE
    OBVIOUS
  <1>1. PICK i \in Bad : \A j \in Bad : i <= j
    <2>1. Bad \subseteq Nat
      OBVIOUS
    <2> QED BY <2>1, SmallestIn
  <1>2. i \in 0..n /\ i \in 0..(n + 1) /\ f[i] # g[i]
    BY <1>1
  <1> HIDE DEF Bad
  <1>3. /\ f[i] = IF i = 0 THEN Proposed ELSE AfterPayload(f[i - 1], h[i], target, domain)
        /\ g[i] = IF i = 0 THEN Proposed ELSE AfterPayload(g[i - 1], k[i], target, domain)
    BY <1>2 DEF Replays
  <1>4. CASE i = 0
    BY <1>2, <1>3, <1>4
  <1>5. CASE i # 0
    <2>1. i - 1 \in 0..n /\ i - 1 \notin Bad /\ i \in 1..n
      BY <1>1, <1>2, <1>5
    <2>2. f[i - 1] = g[i - 1] /\ h[i] = k[i]
      BY <2>1 DEF Bad
    <2> QED BY <1>2, <1>3, <1>5, <2>2
  <1> QED BY <1>4, <1>5

\* DeriveForDomain is the end of a replay of the history.
LEMMA DeriveIsReplay ==
    ASSUME NEW past, Len(past) \in Nat, NEW target, NEW domain
    PROVE  \E f : /\ Replays(f, Len(past), past, target, domain)
                  /\ DeriveForDomain(target, domain, past) = f[Len(past)]
  <1> DEFINE F == CHOOSE f : f = [i \in 0..Len(past) |->
                    IF i = 0 THEN Proposed
                    ELSE AfterPayload(f[i - 1], past[i], target, domain)]
  <1>1. DeriveForDomain(target, domain, past) = F[Len(past)]
    BY DEF DeriveForDomain
  <1>2. \E f : f = [i \in 0..Len(past) |->
                    IF i = 0 THEN Proposed
                    ELSE AfterPayload(f[i - 1], past[i], target, domain)]
    <2>1. PICK f : Replays(f, Len(past), past, target, domain)
      BY ReplayExists
    <2>2. f = [i \in 0..Len(past) |->
                 IF i = 0 THEN Proposed
                 ELSE AfterPayload(f[i - 1], past[i], target, domain)]
      BY <2>1 DEF Replays
    <2> QED BY <2>2
  <1>3. Replays(F, Len(past), past, target, domain)
    BY <1>2 DEF Replays
  <1> QED BY <1>1, <1>3

\* _derive_for_domain is a fold: one more payload is one more step.
LEMMA DeriveAppend ==
    ASSUME NEW h \in Seq(Payloads), NEW x \in Payloads, NEW target, NEW domain
    PROVE  DeriveForDomain(target, domain, Append(h, x)) =
             AfterPayload(DeriveForDomain(target, domain, h), x, target, domain)
  <1> DEFINE k == Append(h, x)
             n == Len(h)
  <1>1. /\ n \in Nat /\ Len(k) = n + 1 /\ k[n + 1] = x
        /\ \A i \in 1..n : h[i] = k[i]
    OBVIOUS
  <1>2. PICK f : /\ Replays(f, n, h, target, domain)
                 /\ DeriveForDomain(target, domain, h) = f[n]
    BY <1>1, DeriveIsReplay
  <1> HIDE DEF k
  <1>3. PICK g : /\ Replays(g, n + 1, k, target, domain)
                 /\ DeriveForDomain(target, domain, k) = g[n + 1]
    BY <1>1, DeriveIsReplay
  <1>4. f[n] = g[n]
    <2> HIDE DEF n
    <2> QED BY <1>1, <1>2, <1>3, ReplayOnce
  <1>5. g[n + 1] = AfterPayload(g[n], k[n + 1], target, domain)
    BY <1>1, <1>3 DEF Replays
  <1> QED BY <1>1, <1>2, <1>3, <1>4, <1>5 DEF k

\* The payloads before a row.
LEMMA PayloadsBefore ==
    ASSUME NEW rows \in Seq(Rows), NEW i \in 1..Len(rows)
    PROVE  PayloadsOf(SubSeq(rows, 1, i - 1)) = [k \in 1..(i - 1) |-> rows[k].payload]
  <1> DEFINE s == SubSeq(rows, 1, i - 1)
  <1>1. Len(rows) \in Nat /\ i \in Nat /\ i - 1 \in Nat
    OBVIOUS
  <1>2. Len(s) = i - 1 /\ \A k \in 1..(i - 1) : s[k] = rows[k]
    BY <1>1
  <1> HIDE DEF s
  <1>3. PayloadsOf(s) = [k \in 1..(i - 1) |-> s[k].payload]
    BY <1>2 DEF PayloadsOf
  <1> QED BY <1>2, <1>3 DEF s

\* The payloads of a ledger form a history.
LEMMA HistoryType ==
    ASSUME TypeOK PROVE PayloadsOf(ledger) \in Seq(Payloads)
  <1>1. ledger \in Seq(Rows) /\ Len(ledger) \in Nat
    BY DEF TypeOK
  <1>2. \A i \in 1..Len(ledger) : ledger[i] \in Rows
    BY <1>1
  <1>3. \A i \in 1..Len(ledger) : ledger[i].payload \in Payloads
    BY <1>2 DEF Rows
  <1> QED BY <1>1, <1>3 DEF PayloadsOf

\* An event that add_event admits leaves the state its domain is in, and the
\* projection after it is the state it moves to.
LEMMA AdmittedTakesEffect ==
    ASSUME NEW h \in Seq(Payloads), NEW e \in Events, ~Attr[e].padded, Admitted(e, h)
    PROVE  /\ DeriveForDomain(Attr[e].target, Attr[e].domain, h) = Attr[e].from
           /\ DeriveForDomain(Attr[e].target, Attr[e].domain, Append(h, e)) = Attr[e].to
  <1> DEFINE state == DeriveForDomain(Attr[e].target, Attr[e].domain, h)
  <1>1. e \notin Records /\ e \in Payloads
    BY EntryAssumption DEF Payloads, Entries
  <1>2. ValidTransition(state, Attr[e])
    BY <1>1 DEF Admitted, EventAdmitted, CurrentState
  <1>3. DeriveForDomain(Attr[e].target, Attr[e].domain, Append(h, e)) =
          AfterPayload(state, e, Attr[e].target, Attr[e].domain)
    BY <1>1, DeriveAppend
  <1>4. AfterPayload(state, e, Attr[e].target, Attr[e].domain) = Attr[e].to
    BY <1>2 DEF AfterPayload
  <1>5. state = Attr[e].from
    BY <1>2 DEF ValidTransition
  <1> QED BY <1>3, <1>4, <1>5

\* A step keeps the effect of the events before, and commits no dead letter.
LEMMA StepEvents ==
    ASSUME StoreInv, EventsTakeEffect, NEW p \in Procs, Begin(p) \/ Continue(p) \/ Crash(p)
    PROVE  EventsTakeEffect'
  <1>1. CASE ~AppendRow(p)
    BY <1>1, StepLedger DEF StoreInv, EventsTakeEffect
  <1>2. CASE AppendRow(p)
    <2> DEFINE n == Len(ledger)
               h == PayloadsOf(ledger)
    <2>1. /\ row[p] \in Rows /\ ledger' = Append(ledger, row[p])
          /\ row[p].payload # Snapshot => Fresh(row[p].payload)
      BY <1>2 DEF AppendRow, StoreInv, TypeOK, RowInv
    <2>2. /\ Len(ledger') = n + 1 /\ n \in Nat
          /\ \A i \in 1..n : ledger'[i] = ledger[i]
          /\ ledger'[n + 1] = row[p]
      BY <2>1, AppendFacts DEF StoreInv
    <2>3. ledger \in Seq(Rows) /\ ledger' \in Seq(Rows)
      BY <2>1 DEF StoreInv, TypeOK
    <2>4. \A i \in 1..n : PayloadsOf(SubSeq(ledger', 1, i - 1)) = PayloadsOf(SubSeq(ledger, 1, i - 1))
      <3> SUFFICES ASSUME NEW i \in 1..n
                   PROVE  PayloadsOf(SubSeq(ledger', 1, i - 1)) = PayloadsOf(SubSeq(ledger, 1, i - 1))
        OBVIOUS
      <3>1. i \in 1..Len(ledger')
        BY <2>2
      <3>2. /\ PayloadsOf(SubSeq(ledger', 1, i - 1)) = [k \in 1..(i - 1) |-> ledger'[k].payload]
            /\ PayloadsOf(SubSeq(ledger, 1, i - 1)) = [k \in 1..(i - 1) |-> ledger[k].payload]
        BY <2>3, <3>1, PayloadsBefore
      <3>3. \A k \in 1..(i - 1) : ledger'[k] = ledger[k]
        BY <2>2
      <3> QED BY <3>2, <3>3
    <2>5. PayloadsOf(SubSeq(ledger', 1, (n + 1) - 1)) = h
      <3>1. PayloadsOf(SubSeq(ledger', 1, (n + 1) - 1)) = [k \in 1..n |-> ledger'[k].payload]
        <4>1. n + 1 \in 1..Len(ledger') /\ (n + 1) - 1 = n
          BY <2>2
        <4>2. PayloadsOf(SubSeq(ledger', 1, (n + 1) - 1)) = [k \in 1..((n + 1) - 1) |-> ledger'[k].payload]
          BY <2>3, <4>1, PayloadsBefore
        <4> QED BY <4>1, <4>2
      <3> QED BY <2>2, <3>1 DEF PayloadsOf
    <2>6. ASSUME row[p].payload \in Events, ~Attr[row[p].payload].padded
          PROVE  /\ DeriveForDomain(Attr[row[p].payload].target, Attr[row[p].payload].domain, h)
                      = Attr[row[p].payload].from
                 /\ DeriveForDomain(Attr[row[p].payload].target, Attr[row[p].payload].domain,
                                    Append(h, row[p].payload)) = Attr[row[p].payload].to
      <3>1. h \in Seq(Payloads)
        BY HistoryType DEF StoreInv
      <3>2. Admitted(row[p].payload, h)
        BY <2>1, <2>6, EntryAssumption DEF Fresh
      <3> QED BY <2>6, <3>1, <3>2, AdmittedTakesEffect
    <2> SUFFICES ASSUME NEW i \in 1..Len(ledger'),
                        ledger'[i].payload \in Events, ~Attr[ledger'[i].payload].padded
                 PROVE  /\ DeriveForDomain(Attr[ledger'[i].payload].target,
                                           Attr[ledger'[i].payload].domain,
                                           PayloadsOf(SubSeq(ledger', 1, i - 1)))
                             = Attr[ledger'[i].payload].from
                        /\ DeriveForDomain(Attr[ledger'[i].payload].target,
                                           Attr[ledger'[i].payload].domain,
                                           Append(PayloadsOf(SubSeq(ledger', 1, i - 1)),
                                                  ledger'[i].payload))
                             = Attr[ledger'[i].payload].to
      BY DEF EventsTakeEffect
    <2>7. CASE i \in 1..n
      BY <2>2, <2>4, <2>7 DEF EventsTakeEffect
    <2>8. CASE i = n + 1
      BY <2>2, <2>5, <2>6, <2>8
    <2> QED BY <2>2, <2>7, <2>8
  <1> QED BY <1>1, <1>2

\* So does every step of the store.
LEMMA NextEvents == StoreInv /\ EventsTakeEffect /\ [Next]_vars => EventsTakeEffect'
  <1>1. ASSUME StoreInv, EventsTakeEffect, Next PROVE EventsTakeEffect'
    BY <1>1, StepEvents DEF Next
  <1>2. ASSUME EventsTakeEffect, UNCHANGED vars PROVE EventsTakeEffect'
    BY <1>2 DEF vars, disk, EventsTakeEffect
  <1> QED BY <1>1, <1>2

\* No event that add_event stores is a dead letter: the state it claims to leave
\* was the state of its domain at its place in the ledger, although writers race
\* and recover commits journals without repeating the check.
THEOREM NoDeadLetters == Spec => []EventsTakeEffect
  <1>1. Init => EventsTakeEffect
    BY DEF Init, Quiet, EventsTakeEffect
  <1> QED BY <1>1, NextEvents, StoreInvariant, PTL DEF Spec

\* A step keeps the final dispositions.
DispositionsKept ==
    \A target \in Records, domain \in {Attr[e].domain : e \in Events} :
        Disposition(target, domain) \in {"superseded", "expired", "withdrawn"} =>
          Disposition(target, domain)' = Disposition(target, domain)

\* Every step of the store does.
LEMMA NextDispositions == StoreInv /\ [Next]_vars => [DispositionsKept]_ledger
  <1> SUFFICES ASSUME StoreInv, Next, ledger' # ledger,
                      NEW target \in Records, NEW domain \in {Attr[e].domain : e \in Events},
                      Disposition(target, domain) \in {"superseded", "expired", "withdrawn"}
               PROVE  Disposition(target, domain)' = Disposition(target, domain)
    BY DEF vars, disk, DispositionsKept
  <1>1. PICK p \in Procs : Begin(p) \/ Continue(p) \/ Crash(p)
    BY DEF Next
  <1>2. AppendRow(p)
    BY <1>1, StepLedger DEF StoreInv
  <1>3. row[p] \in Rows /\ ledger' = Append(ledger, row[p])
    BY <1>2 DEF AppendRow, StoreInv, TypeOK
  <1>4. PayloadsOf(ledger') = Append(PayloadsOf(ledger), row[p].payload)
    BY <1>3, PayloadsAppend DEF StoreInv
  <1>5. PayloadsOf(ledger) \in Seq(Payloads) /\ row[p].payload \in Payloads
    BY <1>3, HistoryType DEF StoreInv, Rows
  <1>6. Disposition(target, domain)' =
          AfterPayload(Disposition(target, domain), row[p].payload, target, domain)
    BY <1>4, <1>5, DeriveAppend DEF Disposition
  <1>7. AllowedTransitions(Disposition(target, domain)) = {}
    BY DEF AllowedTransitions
  <1> QED BY <1>6, <1>7 DEF AfterPayload, ValidTransition

\* A final disposition of a record in a trust domain is kept by every later step
\* of the store: _derive_for_domain passes over whatever is committed after it,
\* the events with a padded domain that add_event checks against the wrong state
\* included.
THEOREM DispositionsFinal == Spec => FinalDispositions
  BY NextDispositions, StoreInvariant, PTL DEF Spec, FinalDispositions, DispositionsKept

-----------------------------------------------------------------------------
\* Relations.

\* An event or a snapshot moves no relation.
LEMMA RelationsKept ==
    ASSUME NEW h \in Seq(Payloads), NEW x \in Payloads, x \notin Records
    PROVE  RelationEdges(Append(h, x)) = RelationEdges(h)
  <1> DEFINE k == Append(h, x)
             n == Len(h)
             At(g, id) == {i \in 1..Len(g) : g[i] \in Records /\ Attr[g[i]].id = id}
             Ids == {Attr[y].id : y \in RecordsIn(h)}
  <1>1. /\ n \in Nat /\ Len(k) = n + 1 /\ k[n + 1] = x
        /\ \A i \in 1..n : h[i] = k[i]
    OBVIOUS
  <1> HIDE DEF k
  <1>2. RecordsIn(k) = RecordsIn(h)
    <2>1. Elements(k) = Elements(h) \cup {x}
      BY <1>1 DEF Elements
    <2> QED BY <2>1 DEF RecordsIn
  <1>3. ASSUME NEW id \in Ids PROVE LastOf(id, k) = LastOf(id, h)
    <2>1. At(k, id) = At(h, id)
      BY <1>1
    <2>2. At(h, id) # {} /\ At(h, id) \subseteq 1..n
      BY DEF RecordsIn, Elements
    <2>3. \E i \in At(h, id) : \A j \in At(h, id) : j <= i
      BY <1>1, <2>2, LastIn
    <2>4. (CHOOSE i \in At(h, id) : \A j \in At(h, id) : j <= i) \in At(h, id)
      BY <2>3
    <2>5. k[CHOOSE i \in At(h, id) : \A j \in At(h, id) : j <= i] =
          h[CHOOSE i \in At(h, id) : \A j \in At(h, id) : j <= i]
      BY <1>1, <2>2, <2>4
    <2>6. /\ LastOf(id, k) = k[CHOOSE i \in At(k, id) : \A j \in At(k, id) : j <= i]
          /\ LastOf(id, h) = h[CHOOSE i \in At(h, id) : \A j \in At(h, id) : j <= i]
      BY DEF LastOf
    <2> HIDE DEF At
    <2> QED BY <2>1, <2>5, <2>6
  <1>4. /\ RelationEdges(k) =
             {e \in RecordsIn(h) \X RecordsIn(h) :
                \/ e[2] \in Attr[e[1]].links
                \/ \E id \in Attr[e[1]].links \cap Ids : e[2] = LastOf(id, k)}
        /\ RelationEdges(h) =
             {e \in RecordsIn(h) \X RecordsIn(h) :
                \/ e[2] \in Attr[e[1]].links
                \/ \E id \in Attr[e[1]].links \cap Ids : e[2] = LastOf(id, h)}
    BY <1>2 DEF RelationEdges
  <1> HIDE DEF Ids
  <1> QED BY <1>3, <1>4 DEF k

\* _has_cycle finds every chain that comes back, of whatever length.
LEMMA NoCycleNoChain ==
    ASSUME NEW edges, ~HasCycle(edges), NEW n \in Nat \ {0}, NEW S, NEW path \in [0..n -> S],
           \A i \in 1..n : <<path[i - 1], path[i]>> \in edges
    PROVE  path[0] # path[n]
  <1> SUFFICES ASSUME path[0] = path[n] PROVE FALSE
    OBVIOUS
  <1> DEFINE on == {path[i - 1] : i \in 1..n}
             nodes == {e[1] : e \in edges}
  <1>1. on # {}
    <2>1. 1 \in 1..n
      OBVIOUS
    <2> QED BY <2>1
  <1>2. on \subseteq nodes
    <2>1. \A i \in 1..n : <<path[i - 1], path[i]>>[1] \in nodes
      OBVIOUS
    <2> QED BY <2>1
  <1>3. ASSUME NEW a \in on PROVE \E b \in on : <<a, b>> \in edges
    <2>1. PICK i \in 1..n : a = path[i - 1]
      OBVIOUS
    <2>2. CASE i < n
      <3>1. i + 1 \in 1..n /\ (i + 1) - 1 = i
        BY <2>2
      <3>2. path[i] \in on
        BY <3>1
      <3> QED BY <2>1, <3>2
    <2>3. CASE i = n
      <3>1. path[n] \in on
        <4>1. 1 \in 1..n /\ 1 - 1 = 0
          OBVIOUS
        <4>2. path[0] \in on
          BY <4>1
        <4> QED BY <4>2
      <3> QED BY <2>1, <2>3, <3>1
    <2>4. i < n \/ i = n
      BY <2>1
    <2> QED BY <2>2, <2>3, <2>4
  <1> HIDE DEF on
  <1> QED BY <1>1, <1>2, <1>3 DEF HasCycle

\* Relations by digest and by logical id form no cycle in any reachable ledger:
\* the check of record_semantic_diagnostics is made on the history that the
\* record is appended to, although it is made long before the append.
THEOREM RelationsStayAcyclic == Spec => []NoRelationCycles
  <1> DEFINE Acyclic == ~HasCycle(RelationEdges(PayloadsOf(ledger)))
  <1>1. Init => Acyclic
    <2> SUFFICES ASSUME Init PROVE Acyclic
      OBVIOUS
    <2>1. PayloadsOf(ledger) = <<>>
      BY DEF Init, Quiet, PayloadsOf
    <2>2. RecordsIn(<<>>) = {}
      BY DEF RecordsIn, Elements
    <2>3. RelationEdges(<<>>) = {}
      BY <2>2 DEF RelationEdges
    <2>4. {e[1] : e \in {}} = {}
      OBVIOUS
    <2>5. ~HasCycle({})
      BY <2>4 DEF HasCycle
    <2> QED BY <2>1, <2>3, <2>5
  <1>2. StoreInv /\ Acyclic /\ [Next]_vars => Acyclic'
    <2> SUFFICES ASSUME StoreInv, Acyclic, Next, ledger' # ledger PROVE Acyclic'
      BY DEF vars, disk
    <2>1. PICK p \in Procs : Begin(p) \/ Continue(p) \/ Crash(p)
      BY DEF Next
    <2>2. AppendRow(p)
      BY <2>1, StepLedger DEF StoreInv
    <2>3. /\ row[p] \in Rows /\ ledger' = Append(ledger, row[p])
          /\ row[p].payload # Snapshot => Fresh(row[p].payload)
      BY <2>2 DEF AppendRow, StoreInv, TypeOK, RowInv
    <2>4. PayloadsOf(ledger') = Append(PayloadsOf(ledger), row[p].payload)
      BY <2>3, PayloadsAppend DEF StoreInv
    <2>5. PayloadsOf(ledger) \in Seq(Payloads) /\ row[p].payload \in Payloads
      BY <2>3, HistoryType DEF StoreInv, Rows
    <2>6. CASE row[p].payload \notin Records
      BY <2>4, <2>5, <2>6, RelationsKept
    <2>7. CASE row[p].payload \in Records
      BY <2>3, <2>4, <2>7, EntryAssumption DEF Fresh, Admitted, RecordAdmitted
    <2> QED BY <2>6, <2>7
  <1>3. Acyclic => NoRelationCycles
    BY NoCycleNoChain DEF NoRelationCycles
  <1> QED BY <1>1, <1>2, <1>3, StoreInvariant, PTL DEF Spec

-----------------------------------------------------------------------------
\* The store from an empty directory.

OneInitialiser == \A p, q \in InitProcs : p = q

\* init may begin in an empty directory, die, or write the ledger; nothing else
\* finds a store there.
LEMMA BlankSteps ==
    ASSUME BlankInv, NEW p \in Procs, Begin(p) \/ Continue(p) \/ Crash(p)
    PROVE  \/ InitStart(p)
           \/ pc[p] = "init_ledger" /\ (InitLedger(p) \/ Crash(p))
  <1>1. pc[p] \in {"idle", "init_ledger"} /\ ~created
    BY DEF BlankInv
  <1>2. CASE Begin(p)
    BY <1>1, <1>2 DEF Begin, EnterWriter, AddEntry, AckDuplicate, AddSnapshot, StartRecover, CursorStat, BlankInv
  <1>3. CASE Continue(p)
    BY <1>1, <1>3 DEF Continue, InitStart, InitLedger, InitTestTail, InitTail, EnterWriter,
    LoadTail, RebuildTail, MakeTransaction, RejectOversized, WriteJournal,
    StageContent, WriteContent, StartAppend, AppendRow, SaveTail, RemoveFile,
    RemoveDirectory, RecoverOne, EndRecover, CursorReadTail,
    CursorReadLast, CursorReadRows, CursorStatAgain, CursorWriteTail
  <1>4. CASE Crash(p)
    BY <1>1, <1>4 DEF Crash
  <1> QED BY <1>2, <1>3, <1>4

\* The store that init's first write leaves behind.
LEMMA BlankLedger ==
    ASSUME BlankInv, OneInitialiser, CursorProcs = {}, NEW p \in Procs, InitLedger(p)
    PROVE  StoreInv'
  <1>1. /\ ledger' = <<>> /\ Len(ledger') = 0 /\ torn' = FALSE /\ created' /\ tail' = NoTail
        /\ contents' = {} /\ pending' = {} /\ acked' = {} /\ lock' = NoProc
        /\ item' = [q \in Procs |-> NoDigest]
        /\ row' = [q \in Procs |-> NoRow]
        /\ seen' = [q \in Procs |-> NothingSeen]
        /\ crashes' \in Nat
    BY DEF BlankInv, InitLedger
  <1>2. pc' \in [Procs -> {"idle", "init_tail"}]
    <2>1. pc' = [pc EXCEPT ![p] = "init_tail"] /\ pc \in [Procs -> {"idle", "init_ledger"}]
      BY DEF BlankInv, InitLedger, Goto
    <2>2. p \in InitProcs
      BY DEF BlankInv, InitLedger
    <2>3. ASSUME NEW q \in Procs, q # p PROVE pc[q] = "idle"
      BY <2>1, <2>2, <2>3 DEF BlankInv, OneInitialiser
    <2> QED BY <2>1, <2>3
  <1>3. TypeOK'
    <2>1. ledger' \in Seq(Rows)
      BY <1>1
    <2> QED BY <1>1, <1>2, <2>1, ConstantTypes DEF TypeOK, Labels
  <1>4. ASSUME NEW q \in Procs
        PROVE  LockInv(q)' /\ StageInv(q)' /\ RowInv(q)' /\ TornInv(q)' /\ CursorInv(q)'
    <2>1. pc'[q] \in {"idle", "init_tail"} /\ lock' # q /\ item'[q] = NoDigest
      BY <1>1, <1>2, StoreAssumption
    <2> QED BY <2>1 DEF LockInv, Holding, StageInv, RowInv, TornInv, CursorInv
  <1>5. LoadHasItem' /\ StartedInv' /\ TailInv'
    BY <1>1, <1>2 DEF LoadHasItem, StartedInv, CursorLabels, TailInv
  <1>6. CursorsNamePrefix'
    BY <1>1 DEF CursorsNamePrefix, NothingSeen, EmptyTail, NamesPrefix
  <1>7. PendingRowsAreEntries' /\ OneTransaction' /\ PendingCommittable'
    BY <1>1 DEF PendingRowsAreEntries, OneTransaction, PendingCommittable
  <1>8. ChainValid' /\ NoDuplicateCommits'
    BY <1>1 DEF ChainValid, NoDuplicateCommits
  <1>9. AckedDurable' /\ ContentMatchesLedger'
    BY <1>1 DEF AckedDurable, ContentMatchesLedger, Committed
  <1> QED BY <1>3, <1>4, <1>5, <1>6, <1>7, <1>8, <1>9 DEF StoreInv

\* A step in an empty directory leaves the ledger empty.
LEMMA BlankKeepsLedger == BlankInv /\ [Next]_vars => ledger' = ledger /\ ledger = <<>>
  <1> SUFFICES ASSUME BlankInv, [Next]_vars PROVE ledger' = ledger
    BY DEF BlankInv
  <1>1. CASE UNCHANGED vars
    BY <1>1 DEF vars, disk
  <1>2. CASE Next
    <2>1. PICK p \in Procs : Begin(p) \/ Continue(p) \/ Crash(p)
      BY <1>2 DEF Next
    <2>2. InitStart(p) \/ InitLedger(p) \/ Crash(p)
      BY <2>1, BlankSteps
    <2> QED BY <2>2 DEF InitStart, InitLedger, Crash, disk, BlankInv
  <1> QED BY <1>1, <1>2

\* The invariant of a store from an empty directory is inductive.
LEMMA FreshStep ==
    ASSUME OneInitialiser, CursorProcs = {}
    PROVE  FreshInv /\ [Next]_vars => FreshInv'
  <1> SUFFICES ASSUME BlankInv, [Next]_vars PROVE FreshInv'
    BY StepInv DEF FreshInv
  <1>1. CASE UNCHANGED vars
    BY <1>1 DEF vars, disk, local, FreshInv, BlankInv
  <1>2. CASE Next
    <2>1. PICK p \in Procs : Begin(p) \/ Continue(p) \/ Crash(p)
      BY <1>2 DEF Next
    <2>2. CASE InitStart(p)
      <3>1. /\ pc' = [pc EXCEPT ![p] = "init_ledger"] /\ p \in InitProcs
            /\ UNCHANGED <<created, ledger, torn, tail, contents, pending, lock, item, row, seen,
                           acked, crashes>>
        BY <2>2 DEF InitStart, Goto, disk, BlankInv
      <3>2. BlankInv'
        BY <3>1 DEF BlankInv
      <3> QED BY <3>2 DEF FreshInv
    <2>3. CASE InitLedger(p)
      BY <2>3, BlankLedger DEF FreshInv
    <2>4. CASE Crash(p)
      <3>1. /\ pc' = [pc EXCEPT ![p] = "idle"] /\ crashes' = crashes + 1
            /\ item' = [item EXCEPT ![p] = NoDigest] /\ row' = [row EXCEPT ![p] = NoRow]
            /\ seen' = [seen EXCEPT ![p] = NothingSeen] /\ lock' = NoProc
            /\ UNCHANGED <<created, ledger, torn, tail, contents, pending, acked>>
        BY <2>4 DEF Crash, Return, Goto, disk, BlankInv
      <3>2. item' = item /\ row' = row /\ seen' = seen
        BY <3>1 DEF BlankInv
      <3>3. /\ pc' \in [Procs -> {"idle", "init_ledger"}]
            /\ \A q \in Procs : pc'[q] = "init_ledger" => q \in InitProcs
        BY <3>1 DEF BlankInv
      <3>4. crashes' \in Nat
        BY <3>1 DEF BlankInv
      <3>5. BlankInv'
        BY <3>1, <3>2, <3>3, <3>4, Zenon DEF BlankInv
      <3> QED BY <3>5 DEF FreshInv
    <2> QED BY <2>1, <2>2, <2>3, <2>4, BlankSteps
  <1> QED BY <1>1, <1>2

\* The invariant of the store that init makes in an empty directory, while writers
\* are at work already between its two writes: it overwrites the tail of the first
\* writer with the tail of an empty ledger, which nobody then trusts.
THEOREM FreshInvariant ==
    ASSUME OneInitialiser, CursorProcs = {}
    PROVE  FreshSpec => []FreshInv
  <1>1. InitFresh => FreshInv
    BY DEF InitFresh, Quiet, FreshInv, BlankInv
  <1>2. FreshInv /\ [Next]_vars => FreshInv'
    BY FreshStep
  <1> QED BY <1>1, <1>2, PTL DEF FreshSpec

\* From an empty directory, too, the store implements the append-only log: init
\* never removes what a writer has committed.
THEOREM FreshImplementsLog ==
    ASSUME OneInitialiser, CursorProcs = {}
    PROVE  FreshSpec => ImplementsAppendLog
  <1>1. InitFresh => Log!Init
    BY DEF InitFresh, Quiet, Log!Init, PayloadsOf
  <1>2. FreshInv /\ [Next]_vars => [Log!Next]_(PayloadsOf(ledger))
    BY NextRefines, BlankKeepsLedger DEF FreshInv
  <1>3. FreshSpec => []FreshInv
    BY FreshInvariant
  <1> QED BY <1>1, <1>2, <1>3, PTL DEF FreshSpec, ImplementsAppendLog, Log!Spec

\* From an empty directory no stored event is a dead letter.
THEOREM FreshNoDeadLetters ==
    ASSUME OneInitialiser, CursorProcs = {}
    PROVE  FreshSpec => []EventsTakeEffect
  <1>1. InitFresh => EventsTakeEffect
    BY DEF InitFresh, Quiet, EventsTakeEffect
  <1>2. FreshInv /\ EventsTakeEffect /\ [Next]_vars => EventsTakeEffect'
    <2>1. BlankInv /\ EventsTakeEffect /\ [Next]_vars => EventsTakeEffect'
      BY BlankKeepsLedger DEF EventsTakeEffect
    <2> QED BY <2>1, NextEvents DEF FreshInv
  <1>3. FreshSpec => []FreshInv
    BY FreshInvariant
  <1> QED BY <1>1, <1>2, <1>3, PTL DEF FreshSpec

\* From an empty directory every final disposition is for good.
THEOREM FreshDispositionsFinal ==
    ASSUME OneInitialiser, CursorProcs = {}
    PROVE  FreshSpec => FinalDispositions
  <1>1. FreshInv /\ [Next]_vars => [DispositionsKept]_ledger
    BY NextDispositions, BlankKeepsLedger DEF FreshInv
  <1>2. FreshSpec => []FreshInv
    BY FreshInvariant
  <1> QED BY <1>1, <1>2, PTL DEF FreshSpec, FinalDispositions, DispositionsKept

-----------------------------------------------------------------------------
\* Admission: the histories and the plans.

\* f follows the relations from r over n steps.
FollowsFrom(f, n, edges, r) ==
    f = [i \in 0..n |-> IF i = 0 THEN Following(edges, {r})
                        ELSE f[i - 1] \cup Following(edges, f[i - 1])]

\* The relations can be followed over any number of steps.
LEMMA FollowsExists ==
    ASSUME NEW n \in Nat, NEW edges, NEW r
    PROVE  \E f : FollowsFrom(f, n, edges, r)
  <1> DEFINE Bad == {k \in Nat : \A f : ~FollowsFrom(f, k, edges, r)}
  <1> SUFFICES ASSUME n \in Bad PROVE FALSE
    OBVIOUS
  <1>1. PICK k \in Bad : \A m \in Bad : k <= m
    BY SmallestIn
  <1>2. k # 0
    <2> DEFINE f == [i \in 0..0 |-> Following(edges, {r})]
    <2>1. FollowsFrom(f, 0, edges, r)
      BY DEF FollowsFrom
    <2> QED BY <2>1, <1>1
  <1>3. k \in Nat /\ k - 1 \in Nat /\ k - 1 \notin Bad
    BY <1>1, <1>2
  <1>4. PICK f : FollowsFrom(f, k - 1, edges, r)
    BY <1>3
  <1> DEFINE g == [i \in 0..k |-> IF i < k THEN f[i]
                                  ELSE f[k - 1] \cup Following(edges, f[k - 1])]
  <1> HIDE DEF Bad
  <1>5. \A i \in 0..(k - 1) : f[i] = IF i = 0 THEN Following(edges, {r})
                                    ELSE f[i - 1] \cup Following(edges, f[i - 1])
    BY <1>4 DEF FollowsFrom
  <1>6. ASSUME NEW i \in 0..k
        PROVE  g[i] = IF i = 0 THEN Following(edges, {r})
                               ELSE g[i - 1] \cup Following(edges, g[i - 1])
    <2>1. CASE i = k
      BY <1>2, <1>3, <2>1
    <2>2. CASE i # k
      <3>1. i \in 0..(k - 1) /\ i < k /\ g[i] = f[i]
        BY <1>3, <2>2
      <3>2. i # 0 => i - 1 \in 0..k /\ i - 1 < k /\ g[i - 1] = f[i - 1]
        BY <1>3, <2>2
      <3> HIDE DEF g
      <3> QED BY <1>5, <3>1, <3>2
    <2> QED BY <2>1, <2>2
  <1>7. g = [i \in 0..k |-> g[i]]
    OBVIOUS
  <1> HIDE DEF g
  <1>8. FollowsFrom(g, k, edges, r)
    BY <1>6, <1>7 DEF FollowsFrom
  <1> QED BY <1>1, <1>8 DEF Bad

\* Descendants is the end of such a walk.
LEMMA DescendantsFollow ==
    ASSUME NEW edges, NEW r, NEW n, n = Cardinality({e[1] : e \in edges}), n \in Nat
    PROVE  \E f : FollowsFrom(f, n, edges, r) /\ Descendants(edges, r) = f[n]
  <1> DEFINE F == CHOOSE f : f = [i \in 0..n |->
                    IF i = 0 THEN Following(edges, {r})
                    ELSE f[i - 1] \cup Following(edges, f[i - 1])]
  <1>1. PICK f : FollowsFrom(f, n, edges, r)
    BY FollowsExists
  <1>2. f = [i \in 0..n |-> IF i = 0 THEN Following(edges, {r})
                            ELSE f[i - 1] \cup Following(edges, f[i - 1])]
    BY <1>1 DEF FollowsFrom
  <1>3. F = [i \in 0..n |-> IF i = 0 THEN Following(edges, {r})
                            ELSE F[i - 1] \cup Following(edges, F[i - 1])]
    BY <1>2
  <1>4. FollowsFrom(F, n, edges, r)
    BY <1>3 DEF FollowsFrom
  <1>5. Descendants(edges, r) = F[n]
    BY DEF Descendants
  <1> QED BY <1>4, <1>5

\* The nodes S lead from r to y: r is one of them, and each has a successor that
\* is one of them or y.
Leads(S, edges, r, y) ==
    /\ r \in S /\ S \subseteq {e[1] : e \in edges}
    /\ \A a \in S : \E b \in S \cup {y} : <<a, b>> \in edges

\* What a node leads to, it leads to through such nodes; so a node that leads to
\* itself is what _has_cycle finds.
LEMMA NoCycleNoDescent ==
    ASSUME NEW N, NEW edges, edges \subseteq N \X N, IsFiniteSet(N), ~HasCycle(edges), NEW r
    PROVE  r \notin Descendants(edges, r)
  <1> DEFINE nodes == {e[1] : e \in edges}
  <1>1. nodes \in SUBSET N
    OBVIOUS
  <1>2. PICK n : n = Cardinality(nodes) /\ n \in Nat
    BY <1>1, FS_Subset, FS_CardinalityType
  <1>3. PICK f : FollowsFrom(f, n, edges, r) /\ Descendants(edges, r) = f[n]
    BY <1>2, DescendantsFollow
  <1>4. \A i \in 0..n : f[i] = IF i = 0 THEN Following(edges, {r})
                               ELSE f[i - 1] \cup Following(edges, f[i - 1])
    BY <1>3 DEF FollowsFrom
  <1> DEFINE Bad == {i \in 0..n : \E y \in f[i] : \A S : ~Leads(S, edges, r, y)}
  <1>5. \A e \in edges : e = <<e[1], e[2]>>
    OBVIOUS
  <1>6. ASSUME NEW y \in Following(edges, {r}) PROVE Leads({r}, edges, r, y)
    BY <1>5 DEF Following, Leads
  <1>7. ASSUME NEW S, NEW z, Leads(S, edges, r, z), NEW y \in Following(edges, {z})
        PROVE  Leads(S \cup {z}, edges, r, y)
    <2>1. <<z, y>> \in edges /\ z \in nodes
      BY <1>5, <1>7 DEF Following
    <2> QED BY <1>7, <2>1 DEF Leads
  <1>8. Bad = {}
    <2> SUFFICES ASSUME Bad # {} PROVE FALSE
      OBVIOUS
    <2>1. Bad \subseteq Nat
      BY <1>2
    <2>2. PICK i \in Bad : \A m \in Bad : i <= m
      BY <2>1, SmallestIn
    <2>3. PICK y \in f[i] : \A S : ~Leads(S, edges, r, y)
      BY <2>2
    <2>4. i \in 0..n /\ i # 0
      BY <1>4, <1>6, <2>2, <2>3
    <2>5. i - 1 \in 0..n /\ i - 1 \notin Bad
      BY <1>2, <2>2, <2>4
    <2>6. \A z \in f[i - 1] : \E S : Leads(S, edges, r, z)
      BY <2>5
    <2>7. y \in Following(edges, f[i - 1])
      BY <1>4, <2>3, <2>4, <2>6
    <2>8. PICK z \in f[i - 1] : y \in Following(edges, {z})
      BY <2>7 DEF Following
    <2>9. PICK S : Leads(S, edges, r, z)
      BY <2>6, <2>8
    <2> QED BY <1>7, <2>3, <2>8, <2>9
  <1> SUFFICES ASSUME r \in f[n] PROVE FALSE
    BY <1>3
  <1>9. PICK S : Leads(S, edges, r, r)
    <2>1. n \in 0..n /\ n \notin Bad
      BY <1>2, <1>8
    <2> QED BY <2>1
  <1>10. S # {} /\ S \subseteq nodes /\ \A a \in S : \E b \in S : <<a, b>> \in edges
    BY <1>9 DEF Leads
  <1> QED BY <1>10 DEF HasCycle

\* The admitted history, and what is known of the plan that was accepted.
AdmissionInv ==
    /\ history \in Seq(Payloads)
    /\ ~HasCycle(RelationEdges(history))
    /\ plan # <<>> =>
          \/ \E p : plan = <<"obligations", p>> /\ ValidObligationPlan(p)
          \/ \E p : plan = <<"verification", p>> /\ ValidPlan(p, PlanSource, TestInventory)

\* No relation is in the empty history.
LEMMA EmptyAcyclic == ~HasCycle(RelationEdges(<<>>))
  <1>1. RecordsIn(<<>>) = {}
    BY DEF RecordsIn, Elements
  <1>2. RelationEdges(<<>>) = {}
    BY <1>1 DEF RelationEdges
  <1>3. {e[1] : e \in {}} = {}
    OBVIOUS
  <1>4. ~HasCycle({})
    BY <1>3 DEF HasCycle
  <1> QED BY <1>2, <1>4

\* The invariant of the admission rules is inductive.
LEMMA AdmissionInvariant == AdmissionSpec => []AdmissionInv
  <1>1. AdmissionInit => AdmissionInv
    BY EmptyAcyclic DEF AdmissionInit, History!Init, AdmissionInv
  <1>2. AdmissionInv /\ [AdmissionNext]_<<history, plan>> => AdmissionInv'
    <2> SUFFICES ASSUME AdmissionInv, [AdmissionNext]_<<history, plan>> PROVE AdmissionInv'
      OBVIOUS
    <2>1. ASSUME NEW x \in Payloads, history' = Append(history, x), plan' = plan,
                 x \in Records => Admitted(x, history)
          PROVE  AdmissionInv'
      <3>1. history' \in Seq(Payloads)
        BY <2>1 DEF AdmissionInv
      <3>2. CASE x \notin Records
        BY <2>1, <3>1, <3>2, RelationsKept DEF AdmissionInv
      <3>3. CASE x \in Records
        BY <2>1, <3>1, <3>3 DEF AdmissionInv, Admitted, RecordAdmitted
      <3> QED BY <3>2, <3>3
    <2>2. CASE Admit
      <3>1. CASE History!CommitSnapshot
        <4>1. Snapshot \in Payloads /\ Snapshot \notin Records
          BY EntryAssumption DEF Payloads
        <4> QED BY <2>1, <2>2, <3>1, <4>1 DEF Admit, History!CommitSnapshot
      <3>2. ASSUME NEW x \in Entries, History!Commit(x) PROVE AdmissionInv'
        <4>1. x \in Payloads
          BY DEF Payloads
        <4> QED BY <2>1, <2>2, <3>2, <4>1 DEF Admit, History!Commit
      <3> QED BY <2>2, <3>1, <3>2 DEF Admit
    <2>3. CASE AcceptObligationPlan
      BY <2>3 DEF AcceptObligationPlan, AdmissionInv
    <2>4. CASE AcceptPlan
      BY <2>4 DEF AcceptPlan, AdmissionInv
    <2>5. CASE UNCHANGED <<history, plan>>
      BY <2>5 DEF AdmissionInv
    <2> QED BY <2>2, <2>3, <2>4, <2>5 DEF AdmissionNext
  <1> QED BY <1>1, <1>2, PTL DEF AdmissionSpec

\* In every admitted history no record reaches itself through relations, by
\* digest or by logical id (_has_cycle of semantic.py).
THEOREM AdmittedAcyclic == AdmissionSpec => []RelationsAcyclic
  <1>1. AdmissionInv => RelationsAcyclic
    <2> SUFFICES ASSUME AdmissionInv, NEW r \in RecordsIn(history)
                 PROVE  r \notin Descendants(RelationEdges(history), r)
      BY DEF RelationsAcyclic
    <2>1. Len(history) \in Nat
      BY DEF AdmissionInv
    <2>2. IsFiniteSet(1..Len(history))
      BY <2>1, FS_Interval
    <2>3. IsFiniteSet(Elements(history))
      <3> DEFINE f == [i \in 1..Len(history) |-> history[i]]
      <3>1. f \in Surjection(1..Len(history), Elements(history))
        BY DEF Surjection, Elements
      <3> HIDE DEF f
      <3> QED BY <2>2, <3>1, FS_Surjection
    <2>4. IsFiniteSet(RecordsIn(history))
      BY <2>3, FS_Subset DEF RecordsIn
    <2>5. RelationEdges(history) \subseteq RecordsIn(history) \X RecordsIn(history)
      BY DEF RelationEdges
    <2> QED BY <2>4, <2>5, NoCycleNoDescent DEF AdmissionInv
  <1> QED BY <1>1, AdmissionInvariant, PTL

\* The proof that an accepted plan claims is backed, for every plan that is handed
\* in (validate_obligation_plan and validate_plan).
THEOREM AcceptedPlansBacked == AdmissionSpec => []PlansBacked
  <1>1. ASSUME NEW p, plan = <<"obligations", p>>, ValidObligationPlan(p) PROVE StopIsProven
    <2> SUFFICES ASSUME p.stop.sufficient, p.repository.scope # NoIdentity,
                        NEW o \in ToSet(p.repository.required)
                 PROVE  /\ o \in ToSet(p.stop.required) \cap DOMAIN p.obligations
                        /\ {e.status : e \in ExactEvidence(p, o)} = {"PASS"}
      BY <1>1 DEF StopIsProven, ExactEvidence
    <2>1. p.repository.scope = Canonical /\ ValidClosure(p)
      BY <1>1 DEF ValidObligationPlan, ValidElsewhere
    <2>2. p.repository.complete /\ o \in ToSet(p.stop.required)
      BY <2>1 DEF ValidClosure
    <2>3. o \in DOMAIN p.obligations /\ CurrentBacked(p, o) /\ p.obligations[o].status = "current"
      BY <2>1, <2>2 DEF ValidClosure
    <2>4. ExactEvidence(p, o) # {} /\ \A e \in ExactEvidence(p, o) : e.status = "PASS"
      BY <2>3 DEF CurrentBacked
    <2> QED BY <2>2, <2>3, <2>4
  <1>2. ASSUME NEW p, plan = <<"verification", p>>, ValidPlan(p, PlanSource, TestInventory)
        PROVE  ProofCoversRouting
    <2> SUFFICES ASSUME p.established
                 PROVE  /\ p.claimed # "family"
                        /\ p.repositories # {} =>
                              /\ p.claimed = "selected_repositories"
                              /\ "selected_consumer_proofs_pass" \in p.evidence
      BY <1>2 DEF ProofCoversRouting
    <2>1. ValidSelection(p) /\ ValidProof(p)
      BY <1>2 DEF ValidPlan
    <2>2. p.level # "family"
      BY <2>1 DEF ValidProof
    <2>3. p.repositories # {} => Routing(p) = "selected_repositories"
      BY <2>1, <2>2 DEF ValidSelection, RoutingScopes
    <2>4. p.claimed = ExpectedScope(p)
      BY <2>1 DEF ValidProof
    <2>5. p.claimed # "family"
      BY <2>2, <2>4 DEF ExpectedScope
    <2>6. Routing(p) = "selected_repositories" => p.claimed = "selected_repositories"
      BY <2>4 DEF ExpectedScope
    <2> QED BY <2>1, <2>3, <2>5, <2>6 DEF ValidProof
  <1>3. AdmissionInv => PlansBacked
    <2> SUFFICES ASSUME AdmissionInv, plan # <<>> PROVE PlansBacked
      BY DEF PlansBacked, StopIsProven, ProofCoversRouting
    <2>1. CASE \E p : plan = <<"obligations", p>> /\ ValidObligationPlan(p)
      <3>1. plan[1] = "obligations"
        BY <2>1
      <3> QED BY <1>1, <2>1, <3>1 DEF PlansBacked, ProofCoversRouting
    <2>2. CASE \E p : plan = <<"verification", p>> /\ ValidPlan(p, PlanSource, TestInventory)
      <3>1. plan[1] = "verification"
        BY <2>2
      <3> QED BY <1>2, <2>2, <3>1 DEF PlansBacked, StopIsProven
    <2> QED BY <2>1, <2>2 DEF AdmissionInv
  <1> QED BY <1>3, AdmissionInvariant, PTL
=============================================================================
