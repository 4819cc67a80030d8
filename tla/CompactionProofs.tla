-------------------------- MODULE CompactionProofs --------------------------
(***************************************************************************)
(* Proofs about retention and compaction, for any entries, any number of   *)
(* pinners and compactors that share one staging directory, any number of  *)
(* generations and any crashes; archives are shown to restore for one      *)
(* compactor at a time, and what leaves the hot ledger to be what may      *)
(* leave for one compactor and one operator who pins.                      *)
(*                                                                         *)
(* The argument for retrieval does not look at what the staged generation  *)
(* holds. From the moment a compaction has read the records, whatever was  *)
(* settled is among them or in an archive, because what is added since     *)
(* then is not settled; once it has made its archive, whatever was settled *)
(* is in an archive, and the hot ledger may be replaced by anything. What  *)
(* leaves is what the compaction did not keep of the records it read; that *)
(* none of it is named by a canonical record rests on the walk of          *)
(* protection_graph, which finds a record more with each step or has       *)
(* nothing left to follow.                                                 *)
(***************************************************************************)
EXTENDS Compaction, FiniteSetTheorems, SequenceTheorems, WellFoundedInduction, TLAPS

Rows == {Row(x) : x \in Entries} \cup {SnapshotRow(a) : a \in Nat}

Stagings == [rows : Seq(Rows), record : SUBSET Entries, event : SUBSET Entries]

Archives == [ledger : Seq(Rows), records : SUBSET RecordIds, events : SUBSET EventIds]

Installing == {"ledger", "record", "move record", "event", "move event"}

Labels ==
    {"idle", "pin", "unpin", "events", "select", "archive", "stage", "fill"} \cup Installing

Calls ==
    [pc : Labels, records : Seq(Rows), events : Seq(Rows), todo : SUBSET Entries, archive : Nat,
     pins : SUBSET RecordIds, digest : RecordIds \cup {Gone}]

\* A call of process p: what is to be pinned is a record, what is to be added was read.
CallOK(p, c) ==
    /\ c \in Calls
    /\ c.todo \subseteq Hot(c.records, "record") \cup Hot(c.events, "event")
    /\ c.pc \in {"events", "select"} => c.todo = {}
    /\ c.pc \in {"pin", "unpin"} => c.digest \in RecordIds
    /\ p \in Pinners => c.pc \in {"idle", "pin", "unpin"}
    /\ p \in Compactors => c.pc \notin {"pin", "unpin"}

\* Who installs a generation holds the lock and finds the staging directory.
LockOK(p, c) == c.pc \in Installing => lock = p /\ staging \in Stagings

FileInv ==
    /\ ledger \in Seq(Rows)
    /\ archives \in Seq(Archives)
    /\ staging = Gone \/ staging \in Stagings
    /\ pins \subseteq RecordIds
    /\ DOMAIN call = Processes
    /\ \A p \in Processes : CallOK(p, call[p]) /\ LockOK(p, call[p])

-----------------------------------------------------------------------------
\* Facts about the rows of a ledger.

LEMMA SmallestIn ==
    ASSUME NEW S, S \subseteq Nat, S # {}
    PROVE  \E m \in S : \A n \in S : m <= n
<1> DEFINE R == {ss \in Nat \X Nat : ss[1] < ss[2]}
<1>1. IsWellFoundedOn(R, Nat)
  BY NatLessThanWellFounded DEF OpToRel
<1> HIDE DEF R
<1>2. PICK m \in S : \A n \in S : <<n, m>> \notin R
  BY <1>1, WFMin
<1>3. \A n \in S : ~(n < m)
  BY <1>2 DEF R
<1>4. \A n \in S : m <= n
  BY <1>3
<1> QED BY <1>4

LEMMA RowTypes ==
    /\ \A x \in Entries : /\ Row(x) \in Rows /\ Row(x).of = x
                          /\ Row(x).type = Info[x].type /\ Info[x].type \in {"record", "event"}
    /\ \A a \in Nat : /\ SnapshotRow(a) \in Rows /\ SnapshotRow(a).type = "snapshot"
    /\ \A r \in Rows : /\ r.type = "record" => r.of \in RecordIds
                       /\ r.type = "event" => r.of \in EventIds
                       /\ r.type # "snapshot" => r.of \in Entries
<1>1. ASSUME NEW x \in Entries
      PROVE  /\ Row(x) \in Rows /\ Row(x).of = x
             /\ Row(x).type = Info[x].type /\ Info[x].type \in {"record", "event"}
  BY CompactionAssumption DEF Rows, Row
<1>2. ASSUME NEW a \in Nat PROVE SnapshotRow(a) \in Rows /\ SnapshotRow(a).type = "snapshot"
  BY DEF Rows, SnapshotRow
<1>3. ASSUME NEW r \in Rows
      PROVE  /\ r.type = "record" => r.of \in RecordIds
             /\ r.type = "event" => r.of \in EventIds
             /\ r.type # "snapshot" => r.of \in Entries
  <2>1. CASE \E x \in Entries : r = Row(x)
    BY <1>1, <2>1 DEF RecordIds, EventIds
  <2>2. CASE \E a \in Nat : r = SnapshotRow(a)
    BY <1>2, <2>2
  <2> QED BY <2>1, <2>2 DEF Rows
<1> QED BY <1>1, <1>2, <1>3

LEMMA HotTypes ==
    ASSUME NEW rows \in Seq(Rows)
    PROVE  Hot(rows, "record") \subseteq RecordIds /\ Hot(rows, "event") \subseteq EventIds
<1>1. \A i \in DOMAIN rows : rows[i] \in Rows
  OBVIOUS
<1> QED BY <1>1, RowTypes DEF Hot

LEMMA HotAppend ==
    ASSUME NEW rows \in Seq(Rows), NEW r \in Rows, NEW type
    PROVE  Hot(Append(rows, r), type) =
              IF r.type = type THEN Hot(rows, type) \cup {r.of} ELSE Hot(rows, type)
<1>1. PICK a : a = Append(rows, r)
  OBVIOUS
<1>2. /\ DOMAIN rows = 1..Len(rows) /\ Len(rows) \in Nat
      /\ DOMAIN a = 1..(Len(rows) + 1)
      /\ \A i \in 1..Len(rows) : a[i] = rows[i]
      /\ a[Len(rows) + 1] = r
  BY <1>1
<1>3. \A i \in DOMAIN a : i \in DOMAIN rows \/ i = Len(rows) + 1
  BY <1>2
<1>4. Len(rows) + 1 \in DOMAIN a /\ \A i \in DOMAIN rows : i \in DOMAIN a
  BY <1>2
<1>5. ASSUME NEW y \in Hot(a, type) PROVE y \in Hot(rows, type) \/ (r.type = type /\ y = r.of)
  <2>1. PICK i \in DOMAIN a : a[i].type = type /\ y = a[i].of
    BY <1>5 DEF Hot
  <2> QED BY <2>1, <1>2, <1>3 DEF Hot
<1>6. ASSUME NEW y \in Hot(rows, type) PROVE y \in Hot(a, type)
  <2>1. PICK i \in DOMAIN rows : rows[i].type = type /\ y = rows[i].of
    BY <1>6 DEF Hot
  <2>2. i \in DOMAIN a /\ a[i] = rows[i]
    BY <2>1, <1>2, <1>4
  <2> QED BY <2>1, <2>2 DEF Hot
<1>7. r.type = type => r.of \in Hot(a, type)
  BY <1>2, <1>4 DEF Hot
<1> QED BY <1>1, <1>5, <1>6, <1>7

\* The entry that is added next is one that was to be added.
LEMMA NextIsLeft ==
    ASSUME NEW p, NEW c, CallOK(p, c), c.todo # {}
    PROVE  NextOf(c) \in c.todo /\ NextOf(c) \in Entries
<1>1. c.records \in Seq(Rows) /\ c.events \in Seq(Rows) /\ c.todo \subseteq Entries
  BY DEF CallOK, Calls
<1>2. ASSUME NEW rows \in Seq(Rows), NEW xs, NEW type \in {"record", "event"},
             xs \subseteq Hot(rows, type), xs # {}
      PROVE  FirstIn(rows, xs) \in xs
  <2>1. PICK is : is = {i \in DOMAIN rows : rows[i].type # "snapshot" /\ rows[i].of \in xs}
    OBVIOUS
  <2>2. is \subseteq Nat
    BY <1>2, <2>1
  <2>3. is # {}
    <3>1. PICK x \in xs : x \in Hot(rows, type)
      BY <1>2
    <3>2. PICK i \in DOMAIN rows : rows[i].type = type /\ rows[i].of = x
      BY <3>1 DEF Hot
    <3>3. i \in is
      BY <2>1, <3>1, <3>2
    <3> QED BY <3>3
  <2>4. \E m \in is : \A n \in is : m <= n
    BY <2>2, <2>3, SmallestIn
  <2>5. Min(is) \in is
    BY <2>4 DEF Min
  <2>6. rows[Min(is)].of \in xs
    BY <2>1, <2>5
  <2> QED BY <2>1, <2>6 DEF FirstIn
<1>3. CASE c.todo \cap RecordIds # {}
  <2>1. c.todo \cap RecordIds \subseteq Hot(c.records, "record")
    BY <1>1, HotTypes DEF CallOK, RecordIds, EventIds
  <2>2. FirstIn(c.records, c.todo \cap RecordIds) \in c.todo \cap RecordIds
    BY <1>1, <1>2, <1>3, <2>1
  <2> QED BY <1>1, <1>3, <2>2 DEF NextOf
<1>4. CASE c.todo \cap RecordIds = {}
  <2>1. c.todo \subseteq Hot(c.events, "event")
    BY <1>1, <1>4, HotTypes DEF CallOK
  <2>2. FirstIn(c.events, c.todo) \in c.todo
    BY <1>1, <1>2, <2>1
  <2> QED BY <1>1, <1>4, <2>2 DEF NextOf
<1> QED BY <1>3, <1>4

-----------------------------------------------------------------------------
\* The files and the calls keep their shape.

Typed ==
    /\ ledger \in Seq(Rows)
    /\ archives \in Seq(Archives)
    /\ staging = Gone \/ staging \in Stagings
    /\ pins \subseteq RecordIds

LEMMA OneCall ==
    ASSUME FileInv, Typed', NEW p \in Processes, NEW c, CallOK(p, c),
           call' = [call EXCEPT ![p] = c],
           c.pc \in Installing => lock' = p /\ staging' \in Stagings,
           \A q \in Processes \ {p} : call[q].pc \in Installing => lock' = q /\ staging' \in Stagings
    PROVE  FileInv'
<1>1. DOMAIN call' = Processes /\ call'[p] = c /\ \A q \in Processes \ {p} : call'[q] = call[q]
  BY DEF FileInv
<1>2. ASSUME NEW q \in Processes PROVE CallOK(q, call'[q]) /\ LockOK(q, call[q])'
  <2>1. CASE q = p
    BY <1>1, <2>1 DEF LockOK
  <2>2. CASE q # p
    <3>1. CallOK(q, call[q]) /\ call'[q] = call[q]
      BY <1>1, <2>2 DEF FileInv
    <3> QED BY <2>2, <3>1 DEF LockOK
  <2> QED BY <2>1, <2>2
<1> QED BY <1>1, <1>2 DEF FileInv, Typed, CallOK

\* A call that leaves the lock alone and leaves a staging directory behind, if only
\* the one it found, disturbs no other.
LEMMA QuietCall ==
    ASSUME FileInv, Typed', NEW p \in Processes, NEW c, CallOK(p, c),
           call' = [call EXCEPT ![p] = c], UNCHANGED lock,
           staging' = staging \/ staging' \in Stagings,
           c.pc \in Installing => call[p].pc \in Installing
    PROVE  FileInv'
<1>1. \A q \in Processes : call[q].pc \in Installing => lock = q /\ staging \in Stagings
  BY DEF FileInv, LockOK
<1> QED BY <1>1, OneCall

LEMMA IdleOK == ASSUME NEW p \in Processes PROVE CallOK(p, Idle) /\ Idle.pc = "idle"
<1>1. Idle \in Calls
  BY DEF Idle, Calls, Labels
<1> QED BY <1>1 DEF CallOK, Idle

LEMMA PinFiles ==
    ASSUME FileInv, NEW p \in Pinners,
           PinWrite(p) \/ \E x \in RecordIds, op \in {"pin", "unpin"} : PinRead(p, x, op)
    PROVE  FileInv'
<1>0. p \in Processes /\ p \notin Compactors
  BY CompactionAssumption DEF Processes
<1>1. UNCHANGED <<ledger, archives, staging, lock>>
  BY DEF PinWrite, PinRead, hotVars
<1>2. CallOK(p, call[p])
  BY <1>0 DEF FileInv
<1>3. CASE PinWrite(p)
  <2>1. call' = [call EXCEPT ![p] = Idle]
    BY <1>3 DEF PinWrite, Return
  <2>2. pins' \subseteq RecordIds
    <3>1. /\ call[p].pins \subseteq RecordIds
          /\ call[p].pc \in {"pin", "unpin"} => call[p].digest \in RecordIds
      BY <1>2 DEF CallOK, Calls
    <3> QED BY <1>3, <3>1 DEF PinWrite
  <2> QED BY <1>0, <1>1, <2>1, <2>2, IdleOK, QuietCall DEF FileInv, Typed, Installing
<1>4. ASSUME NEW x \in RecordIds, NEW op \in {"pin", "unpin"}, PinRead(p, x, op)
      PROVE  FileInv'
  <2>1. PICK c : c = [Idle EXCEPT !.pc = op, !.digest = x, !.pins = pins]
    OBVIOUS
  <2>2. call' = [call EXCEPT ![p] = c] /\ UNCHANGED pins
    BY <1>4, <2>1 DEF PinRead
  <2>3. c \in Calls /\ c.pc = op /\ c.todo = {} /\ c.digest = x
    <3>1. Idle \in Calls /\ Idle.todo = {}
      BY DEF Idle, Calls, Labels
    <3>2. op \in Labels /\ pins \in SUBSET RecordIds
      BY DEF Labels, FileInv
    <3> QED BY <1>4, <2>1, <3>1, <3>2 DEF Calls
  <2>4. CallOK(p, c)
    BY <1>0, <1>4, <2>3 DEF CallOK
  <2> QED BY <1>0, <1>1, <2>2, <2>3, <2>4, QuietCall DEF FileInv, Typed, Installing
<1> QED BY <1>3, <1>4

\* The reads of compact, up to the archive.
LEMMA ReadFiles ==
    ASSUME FileInv, NEW p \in Compactors,
           CompactRecords(p) \/ CompactEvents(p) \/ CompactSelect(p) \/ CompactArchive(p)
    PROVE  FileInv'
<1>0. p \in Processes /\ p \notin Pinners
  BY CompactionAssumption DEF Processes
<1>1. UNCHANGED <<ledger, staging, lock, pins>>
  BY DEF CompactRecords, CompactEvents, CompactSelect, CompactArchive, hotVars
<1>2. CallOK(p, call[p]) /\ call[p] \in Calls /\ Typed
  BY <1>0 DEF FileInv, CallOK, Typed
<1>3. Idle \in Calls /\ Idle.todo = {} /\ Idle.pc = "idle"
  BY DEF Idle, Calls, Labels
<1>4. CASE CompactRecords(p)
  <2>1. PICK c : c = [Idle EXCEPT !.pc = "events", !.records = ledger]
    OBVIOUS
  <2>2. call' = [call EXCEPT ![p] = c] /\ UNCHANGED archives
    BY <1>4, <2>1 DEF CompactRecords
  <2>3. c \in Calls /\ c.pc = "events" /\ c.todo = {}
    BY <1>2, <1>3, <2>1 DEF Calls, Labels, Typed
  <2>4. CallOK(p, c)
    BY <1>0, <2>3 DEF CallOK
  <2> QED BY <1>0, <1>1, <1>2, <2>2, <2>3, <2>4, QuietCall DEF Typed, Installing
<1>5. CASE CompactEvents(p)
  <2>1. PICK c : c = [call[p] EXCEPT !.pc = "select", !.events = ledger]
    OBVIOUS
  <2>2. call' = [call EXCEPT ![p] = c] /\ UNCHANGED archives /\ call[p].pc = "events"
    BY <1>5, <2>1 DEF CompactEvents
  <2>3. c \in Calls /\ c.pc = "select" /\ c.todo = call[p].todo
    BY <1>2, <2>1 DEF Calls, Labels, Typed
  <2>4. CallOK(p, c)
    BY <1>0, <1>2, <2>2, <2>3 DEF CallOK
  <2> QED BY <1>0, <1>1, <1>2, <2>2, <2>3, <2>4, QuietCall DEF Typed, Installing
<1>6. CASE CompactSelect(p)
  <2>1. PICK records : records = Hot(call[p].records, "record")
    OBVIOUS
  <2>2. PICK gone : gone = Candidates(records, pins, day)
    OBVIOUS
  <2>3. PICK todo : todo = (records \ gone) \cup
                             {x \in Hot(call[p].events, "event") : Info[x].target \in records \ gone}
    OBVIOUS
  <2>4. /\ UNCHANGED archives
        /\ \/ call' = [call EXCEPT ![p] = Idle]
           \/ call' = [call EXCEPT ![p].pc = "archive", ![p].todo = todo]
    BY <1>6, <2>1, <2>2, <2>3 DEF CompactSelect, Return
  <2>5. CASE call' = [call EXCEPT ![p] = Idle]
    BY <1>0, <1>1, <1>2, <1>3, <2>4, <2>5, IdleOK, QuietCall DEF Typed, Installing
  <2>6. CASE call' = [call EXCEPT ![p].pc = "archive", ![p].todo = todo]
    <3>1. PICK c : c = [call[p] EXCEPT !.pc = "archive", !.todo = todo]
      OBVIOUS
    <3>2. call' = [call EXCEPT ![p] = c]
      BY <2>6, <3>1
    <3>3. todo \subseteq Hot(call[p].records, "record") \cup Hot(call[p].events, "event")
      BY <2>1, <2>3
    <3>4. todo \in SUBSET Entries
      <4>1. call[p].records \in Seq(Rows) /\ call[p].events \in Seq(Rows)
        BY <1>2 DEF Calls
      <4> QED BY <3>3, <4>1, HotTypes DEF RecordIds, EventIds
    <3>5. /\ c \in Calls /\ c.pc = "archive" /\ c.todo = todo
          /\ c.records = call[p].records /\ c.events = call[p].events
      BY <1>2, <3>1, <3>4 DEF Calls, Labels
    <3>6. CallOK(p, c)
      BY <1>0, <3>3, <3>5 DEF CallOK
    <3> QED BY <1>0, <1>1, <1>2, <2>4, <3>2, <3>5, <3>6, QuietCall DEF Typed, Installing
  <2> QED BY <2>4, <2>5, <2>6
<1>7. CASE CompactArchive(p)
  <2>1. PICK c : c = [call[p] EXCEPT !.pc = "stage", !.archive = Len(archives) + 1]
    OBVIOUS
  <2>2. PICK a : a = [ledger |-> ledger, records |-> Hot(call[p].records, "record"),
                      events |-> Hot(call[p].events, "event")]
    OBVIOUS
  <2>3. call' = [call EXCEPT ![p] = c] /\ archives' = Append(archives, a)
    BY <1>7, <2>1, <2>2 DEF CompactArchive
  <2>4. /\ c \in Calls /\ c.pc = "stage" /\ c.todo = call[p].todo
        /\ c.records = call[p].records /\ c.events = call[p].events
    <3>1. Len(archives) + 1 \in Nat
      BY <1>2 DEF Typed
    <3> QED BY <1>2, <2>1, <3>1 DEF Calls, Labels
  <2>5. CallOK(p, c)
    BY <1>0, <1>2, <2>4 DEF CallOK
  <2>6. archives' \in Seq(Archives)
    <3>1. call[p].records \in Seq(Rows) /\ call[p].events \in Seq(Rows)
      BY <1>2 DEF Calls
    <3>2. a \in Archives
      BY <1>2, <2>2, <3>1, HotTypes DEF Archives, Typed
    <3> QED BY <1>2, <2>3, <3>2 DEF Typed
  <2> QED BY <1>0, <1>1, <1>2, <2>3, <2>4, <2>5, <2>6, QuietCall DEF Typed, Installing
<1> QED BY <1>4, <1>5, <1>6, <1>7

\* The staging directory is filled.
LEMMA StageFiles ==
    ASSUME FileInv, NEW p \in Compactors, CompactStage(p) \/ CompactFill(p)
    PROVE  FileInv'
<1>0. p \in Processes /\ p \notin Pinners
  BY CompactionAssumption DEF Processes
<1>1. UNCHANGED <<ledger, archives, lock, pins>>
  BY DEF CompactStage, CompactFill, hotVars
<1>2. CallOK(p, call[p]) /\ call[p] \in Calls /\ Typed
  BY <1>0 DEF FileInv, CallOK, Typed
<1>3. CASE CompactStage(p)
  <2>1. PICK c : c = [call[p] EXCEPT !.pc = "fill"]
    OBVIOUS
  <2>2. call' = [call EXCEPT ![p] = c]
    BY <1>3, <2>1 DEF CompactStage, Goto
  <2>3. staging' \in Stagings
    <3>1. SnapshotRow(call[p].archive) \in Rows
      BY <1>2, RowTypes DEF Calls
    <3>2. <<SnapshotRow(call[p].archive)>> \in Seq(Rows)
      BY <3>1
    <3> QED BY <1>3, <3>2 DEF CompactStage, Stagings
  <2>4. /\ c \in Calls /\ c.pc = "fill" /\ c.todo = call[p].todo
        /\ c.records = call[p].records /\ c.events = call[p].events
    BY <1>2, <2>1 DEF Calls, Labels
  <2>5. CallOK(p, c)
    BY <1>0, <1>2, <2>4 DEF CallOK
  <2> QED BY <1>0, <1>1, <1>2, <2>2, <2>3, <2>4, <2>5, QuietCall DEF Typed, Installing
<1>4. CASE CompactFill(p)
  <2>1. PICK x : x = NextOf(call[p])
    OBVIOUS
  <2>2. /\ call[p].todo # {} /\ call[p].pc = "fill"
        /\ \/ /\ staging # Gone /\ call' = [call EXCEPT ![p].todo = @ \ {x}]
              /\ \/ UNCHANGED staging
                 \/ staging' = [staging EXCEPT !.rows = Append(@, Row(x)),
                                              ![Info[x].type] = @ \cup {x}]
           \/ call' = [call EXCEPT ![p] = Idle] /\ UNCHANGED staging
    BY <1>4, <2>1 DEF CompactFill, Return
  <2>3. CASE call' = [call EXCEPT ![p] = Idle] /\ UNCHANGED staging
    BY <1>0, <1>1, <1>2, <2>3, IdleOK, QuietCall DEF Typed, Installing
  <2>4. CASE /\ staging # Gone /\ call' = [call EXCEPT ![p].todo = @ \ {x}]
             /\ \/ UNCHANGED staging
                \/ staging' = [staging EXCEPT !.rows = Append(@, Row(x)),
                                             ![Info[x].type] = @ \cup {x}]
    <3>1. x \in Entries
      BY <1>2, <2>1, <2>2, NextIsLeft
    <3>2. staging \in Stagings
      BY <1>2, <2>4 DEF Typed
    <3>3. staging' \in Stagings
      <4>1. Row(x) \in Rows /\ Info[x].type \in {"record", "event"}
        BY <3>1, RowTypes
      <4>2. Append(staging.rows, Row(x)) \in Seq(Rows)
        BY <3>2, <4>1 DEF Stagings
      <4>3. CASE UNCHANGED staging
        BY <3>2, <4>3
      <4>4. CASE staging' = [staging EXCEPT !.rows = Append(@, Row(x)),
                                            ![Info[x].type] = @ \cup {x}]
        <5>1. CASE Info[x].type = "record"
          BY <3>1, <3>2, <4>2, <4>4, <5>1 DEF Stagings
        <5>2. CASE Info[x].type = "event"
          BY <3>1, <3>2, <4>2, <4>4, <5>2 DEF Stagings
        <5> QED BY <4>1, <5>1, <5>2
      <4> QED BY <2>4, <4>3, <4>4
    <3>4. PICK c : c = [call[p] EXCEPT !.todo = @ \ {x}]
      OBVIOUS
    <3>5. call' = [call EXCEPT ![p] = c]
      BY <2>4, <3>4
    <3>6. /\ c \in Calls /\ c.pc = "fill" /\ c.todo = call[p].todo \ {x}
          /\ c.records = call[p].records /\ c.events = call[p].events
      BY <1>2, <2>2, <3>4 DEF Calls
    <3>7. CallOK(p, c)
      BY <1>0, <1>2, <3>6 DEF CallOK
    <3> QED BY <1>0, <1>1, <1>2, <3>3, <3>5, <3>6, <3>7, QuietCall DEF Typed, Installing
  <2> QED BY <2>2, <2>3, <2>4
<1> QED BY <1>3, <1>4

\* A label is all that changes.
LEMMA LabelOK ==
    ASSUME NEW p \in Compactors, NEW c, CallOK(p, c), NEW l \in Labels,
           l \notin {"events", "select", "pin", "unpin"}
    PROVE  /\ CallOK(p, [c EXCEPT !.pc = l]) /\ [c EXCEPT !.pc = l].pc = l
           /\ [c EXCEPT !.pc = l].records = c.records
<1>1. p \notin Pinners
  BY CompactionAssumption
<1>2. PICK d : d = [c EXCEPT !.pc = l]
  OBVIOUS
<1>3. d \in Calls /\ d.pc = l /\ d.todo = c.todo /\ d.records = c.records /\ d.events = c.events
  BY <1>2 DEF CallOK, Calls
<1>4. CallOK(p, d)
  BY <1>1, <1>3 DEF CallOK
<1> QED BY <1>2, <1>3, <1>4

\* install_generation.
LEMMA InstallFiles ==
    ASSUME FileInv, NEW p \in Compactors,
           InstallStart(p) \/ InstallLedger(p) \/ InstallRemove(p) \/ InstallMove(p)
    PROVE  FileInv'
<1>0. p \in Processes /\ p # Gone /\ \A q \in Processes : q # Gone
  BY CompactionAssumption DEF Processes
<1>1. UNCHANGED <<archives, pins>>
  BY DEF InstallStart, InstallLedger, InstallRemove, InstallMove
<1>2. CallOK(p, call[p]) /\ Typed
  BY <1>0 DEF FileInv, Typed
<1>3. \A q \in Processes : call[q].pc \in Installing => lock = q /\ staging \in Stagings
  BY DEF FileInv, LockOK
<1>4. ASSUME NEW l \in Installing, Goto(p, l), call[p].pc \in Installing,
             UNCHANGED <<lock, staging>>, ledger' \in Seq(Rows)
      PROVE  FileInv'
  <2>1. l \in Labels /\ l \notin {"events", "select", "pin", "unpin"}
    BY DEF Labels, Installing
  <2>2. PICK c : c = [call[p] EXCEPT !.pc = l]
    OBVIOUS
  <2>3. CallOK(p, c)
    BY <1>2, <2>1, <2>2, LabelOK
  <2>4. call' = [call EXCEPT ![p] = c]
    BY <1>4, <2>2 DEF Goto
  <2> QED BY <1>0, <1>1, <1>2, <1>4, <2>3, <2>4, QuietCall DEF Typed
<1>5. CASE InstallStart(p)
  <2>1. UNCHANGED <<ledger, staging>> /\ lock = Gone
    BY <1>5 DEF InstallStart, hotVars
  <2>2. \A q \in Processes : call[q].pc \notin Installing
    BY <1>0, <1>3, <2>1
  <2>3. CASE call' = [call EXCEPT ![p] = Idle] /\ UNCHANGED lock
    BY <1>0, <1>1, <1>2, <2>1, <2>3, IdleOK, QuietCall DEF Typed, Installing
  <2>4. CASE staging # Gone /\ lock' = p /\ Goto(p, "ledger")
    <3>1. PICK c : c = [call[p] EXCEPT !.pc = "ledger"]
      OBVIOUS
    <3>2. CallOK(p, c)
      BY <1>2, <3>1, LabelOK DEF Labels, Installing
    <3>3. call' = [call EXCEPT ![p] = c]
      BY <2>4, <3>1 DEF Goto
    <3>4. staging' \in Stagings
      BY <1>2, <2>1, <2>4 DEF Typed
    <3> QED BY <1>0, <1>1, <1>2, <2>1, <2>2, <2>4, <3>2, <3>3, <3>4, OneCall DEF Typed
  <2> QED BY <1>5, <2>3, <2>4 DEF InstallStart, Return
<1>6. CASE InstallLedger(p)
  <2>1. /\ call[p].pc = "ledger" /\ ledger' = staging.rows /\ Goto(p, "record")
        /\ UNCHANGED <<lock, staging>>
    BY <1>6 DEF InstallLedger
  <2>2. staging \in Stagings
    BY <1>0, <1>3, <2>1 DEF Installing
  <2>3. ledger' \in Seq(Rows)
    BY <2>1, <2>2 DEF Stagings
  <2> QED BY <1>4, <2>1, <2>3 DEF Installing
<1>7. CASE InstallRemove(p)
  <2>1. /\ call[p].pc \in {"record", "event"} /\ UNCHANGED <<ledger, lock, staging>>
        /\ Goto(p, "move record") \/ Goto(p, "move event")
    BY <1>7 DEF InstallRemove
  <2>2. ledger' \in Seq(Rows)
    BY <1>2, <2>1 DEF Typed
  <2> QED BY <1>4, <2>1, <2>2 DEF Installing
<1>8. CASE InstallMove(p)
  <2>1. /\ call[p].pc \in {"move record", "move event"} /\ UNCHANGED ledger
        /\ \/ Goto(p, "event") /\ UNCHANGED <<lock, staging>>
           \/ call' = [call EXCEPT ![p] = Idle] /\ lock' = Gone /\ staging' = Gone
    BY <1>8 DEF InstallMove, Return
  <2>2. ledger' \in Seq(Rows)
    BY <1>2, <2>1 DEF Typed
  <2>3. CASE Goto(p, "event") /\ UNCHANGED <<lock, staging>>
    BY <1>4, <2>1, <2>2, <2>3 DEF Installing
  <2>4. CASE call' = [call EXCEPT ![p] = Idle] /\ lock' = Gone /\ staging' = Gone
    <3>1. \A q \in Processes \ {p} : call[q].pc \notin Installing
      BY <1>0, <1>3, <2>1 DEF Installing
    <3>2. Idle.pc \notin Installing /\ CallOK(p, Idle)
      BY <1>0, IdleOK DEF Installing
    <3> QED BY <1>0, <1>1, <1>2, <2>2, <2>4, <3>1, <3>2, OneCall DEF Typed
  <2> QED BY <2>1, <2>3, <2>4
<1> QED BY <1>5, <1>6, <1>7, <1>8

LEMMA CrashFiles ==
    ASSUME FileInv, NEW p \in Processes, Crash(p)
    PROVE  FileInv'
<1>1. /\ UNCHANGED <<ledger, archives, staging, pins>> /\ call' = [call EXCEPT ![p] = Idle]
      /\ lock' = IF lock = p THEN Gone ELSE lock
  BY DEF Crash, Return, hotVars
<1>2. \A q \in Processes \ {p} : call[q].pc \in Installing => lock' = q /\ staging' \in Stagings
  BY <1>1 DEF FileInv, LockOK
<1>3. Idle.pc \notin Installing /\ CallOK(p, Idle)
  BY IdleOK DEF Installing
<1> QED BY <1>1, <1>2, <1>3, OneCall DEF Typed, FileInv

LEMMA AddFiles ==
    ASSUME FileInv, NEW x \in Entries, Add(x)
    PROVE  FileInv'
<1>1. /\ UNCHANGED <<archives, staging, pins, call, lock>>
      /\ ledger' = Append(ledger, Row(x))
  BY DEF Add
<1>2. ledger' \in Seq(Rows)
  BY <1>1, RowTypes DEF FileInv
<1> QED BY <1>1, <1>2 DEF FileInv, LockOK, CallOK

LEMMA FileInit == Init => FileInv
<1> SUFFICES ASSUME Init PROVE FileInv
  OBVIOUS
<1>1. ledger \in Seq(Rows)
  <2>1. Stored \in Seq(Entries) /\ DOMAIN Stored = 1..Len(Stored) /\ Len(Stored) \in Nat
    BY CompactionAssumption
  <2>2. ledger = [i \in 1..Len(Stored) |-> Row(Stored[i])]
    BY <2>1 DEF Init
  <2>3. ledger \in [1..Len(Stored) -> Rows]
    BY <2>1, <2>2, RowTypes
  <2> QED BY <2>1, <2>3
<1>2. \A p \in Processes : call[p] = Idle
  BY DEF Init
<1>3. \A p \in Processes : CallOK(p, call[p]) /\ LockOK(p, call[p])
  BY <1>2, IdleOK DEF LockOK, Installing
<1> QED BY <1>1, <1>3 DEF Init, FileInv

LEMMA FileStep == FileInv /\ [Next]_vars => FileInv'
<1> SUFFICES ASSUME FileInv, [Next]_vars PROVE FileInv'
  OBVIOUS
<1>1. ASSUME UNCHANGED <<ledger, archives, staging, pins, call, lock>> PROVE FileInv'
  BY <1>1 DEF FileInv, LockOK, CallOK
<1>2. CASE SyncSince \/ Tick \/ UNCHANGED vars
  BY <1>1, <1>2 DEF SyncSince, Tick, vars, hotVars
<1> QED
  BY <1>2, AddFiles, PinFiles, ReadFiles, StageFiles, InstallFiles, CrashFiles DEF Next, Compact

-----------------------------------------------------------------------------
\* What was settled can be retrieved.

Archived == UNION {archives[i].records : i \in DOMAIN archives}

Settled == (acked \cap RecordIds) \ raced

\* A compaction that has read the records has read what is settled and not archived;
\* one that has made its archive has archived what it read.
ReadOK(c) ==
    /\ c.pc # "idle" => Settled \subseteq Hot(c.records, "record") \cup Archived
    /\ c.pc \in {"stage", "fill"} \cup Installing => Hot(c.records, "record") \subseteq Archived

RetrievalInv ==
    /\ FileInv
    /\ Settled \subseteq Hot(ledger, "record") \cup Archived
    /\ \A p \in Compactors : ReadOK(call[p])

\* Entries leave what is settled and enter the archives; of the calls only p's changes.
LEMMA OneRead ==
    ASSUME RetrievalInv, FileInv', NEW p \in Compactors, NEW c,
           call' = [call EXCEPT ![p] = c],
           Settled' \subseteq Settled, Archived \subseteq Archived',
           Settled' \subseteq Hot(ledger', "record") \cup Archived',
           c.pc # "idle" => Settled' \subseteq Hot(c.records, "record") \cup Archived',
           c.pc \in {"stage", "fill"} \cup Installing => Hot(c.records, "record") \subseteq Archived'
    PROVE  RetrievalInv'
<1>1. DOMAIN call = Processes /\ Compactors \subseteq Processes
  BY DEF RetrievalInv, FileInv, Processes
<1>2. ASSUME NEW q \in Compactors PROVE ReadOK(call[q])'
  <2>1. CASE q = p
    <3>1. call'[q] = c
      BY <1>1, <2>1
    <3> QED BY <3>1 DEF ReadOK
  <2>2. CASE q # p
    <3>1. call'[q] = call[q] /\ ReadOK(call[q])
      BY <1>1, <2>2 DEF RetrievalInv
    <3> QED BY <3>1 DEF ReadOK
  <2> QED BY <2>1, <2>2
<1> QED BY <1>2 DEF RetrievalInv

\* A step of compact that keeps what was read and moves on.
LEMMA SameRead ==
    ASSUME RetrievalInv, FileInv', NEW p \in Compactors, NEW c,
           call' = [call EXCEPT ![p] = c], UNCHANGED <<acked, raced, archives>>,
           c.records = call[p].records, call[p].pc # "idle",
           c.pc \in {"stage", "fill"} \cup Installing =>
              call[p].pc \in {"stage", "fill"} \cup Installing,
           UNCHANGED ledger \/ call[p].pc \in {"stage", "fill"} \cup Installing
    PROVE  RetrievalInv'
<1>1. Settled' = Settled /\ Archived' = Archived
  BY DEF Settled, Archived
<1>2. ReadOK(call[p]) /\ Settled \subseteq Hot(ledger, "record") \cup Archived
  BY DEF RetrievalInv
<1> QED BY <1>1, <1>2, OneRead DEF ReadOK

LEMMA BackToIdle ==
    ASSUME RetrievalInv, FileInv', NEW p \in Compactors, call' = [call EXCEPT ![p] = Idle],
           UNCHANGED <<acked, raced, archives, ledger>>
    PROVE  RetrievalInv'
<1>1. Settled' = Settled /\ Archived' = Archived
  BY DEF Settled, Archived
<1>2. Idle.pc = "idle" /\ "idle" \notin {"stage", "fill"} \cup Installing
  BY DEF Idle, Installing
<1> QED BY <1>1, <1>2, OneRead DEF RetrievalInv

LEMMA CompactRetrieves ==
    ASSUME RetrievalInv, FileInv', NEW p \in Compactors, Compact(p)
    PROVE  RetrievalInv'
<1>0. FileInv /\ ReadOK(call[p]) /\ call[p] \in Calls
  BY DEF RetrievalInv, FileInv, CallOK, Processes
<1>1. UNCHANGED <<acked, raced>>
  BY DEF Compact, CompactRecords, CompactEvents, CompactSelect, CompactArchive, CompactStage,
         CompactFill, InstallStart, InstallLedger, InstallRemove, InstallMove, historyVars
<1>2. CASE CompactRecords(p)
  <2>1. PICK c : c = [Idle EXCEPT !.pc = "events", !.records = ledger]
    OBVIOUS
  <2>2. call' = [call EXCEPT ![p] = c] /\ UNCHANGED <<archives, ledger>>
    BY <1>2, <2>1 DEF CompactRecords, hotVars
  <2>3. c.pc = "events" /\ c.records = ledger /\ c.pc \notin {"stage", "fill"} \cup Installing
    BY <2>1 DEF Idle, Installing
  <2>4. Settled' = Settled /\ Archived' = Archived
    BY <1>1, <2>2 DEF Settled, Archived
  <2> QED BY <2>2, <2>3, <2>4, OneRead DEF RetrievalInv
<1>3. CASE CompactEvents(p)
  <2>1. PICK c : c = [call[p] EXCEPT !.pc = "select", !.events = ledger]
    OBVIOUS
  <2>2. /\ call' = [call EXCEPT ![p] = c] /\ UNCHANGED <<archives, ledger>>
        /\ call[p].pc = "events"
    BY <1>3, <2>1 DEF CompactEvents, hotVars
  <2>3. c.pc = "select" /\ c.records = call[p].records
    BY <1>0, <2>1 DEF Calls
  <2> QED BY <1>1, <2>2, <2>3, SameRead DEF Installing
<1>4. CASE CompactSelect(p)
  <2>1. /\ call[p].pc = "select" /\ UNCHANGED <<archives, ledger>>
        /\ \/ call' = [call EXCEPT ![p] = Idle]
           \/ \E todo : call' = [call EXCEPT ![p].pc = "archive", ![p].todo = todo]
    BY <1>4, Zenon DEF CompactSelect, Return, hotVars
  <2>2. CASE call' = [call EXCEPT ![p] = Idle]
    BY <1>1, <2>1, <2>2, BackToIdle
  <2>3. ASSUME NEW todo, call' = [call EXCEPT ![p].pc = "archive", ![p].todo = todo]
        PROVE  RetrievalInv'
    <3>1. PICK c : c = [call[p] EXCEPT !.pc = "archive", !.todo = todo]
      OBVIOUS
    <3>2. call' = [call EXCEPT ![p] = c]
      BY <2>3, <3>1
    <3>3. c.pc = "archive" /\ c.records = call[p].records
      BY <1>0, <3>1 DEF Calls
    <3> QED BY <1>1, <2>1, <3>2, <3>3, SameRead DEF Installing
  <2> QED BY <2>1, <2>2, <2>3
<1>5. CASE CompactArchive(p)
  <2>1. PICK c : c = [call[p] EXCEPT !.pc = "stage", !.archive = Len(archives) + 1]
    OBVIOUS
  <2>2. PICK a : a = [ledger |-> ledger, records |-> Hot(call[p].records, "record"),
                      events |-> Hot(call[p].events, "event")]
    OBVIOUS
  <2>3. /\ call' = [call EXCEPT ![p] = c] /\ archives' = Append(archives, a) /\ UNCHANGED ledger
        /\ call[p].pc = "archive"
    BY <1>5, <2>1, <2>2 DEF CompactArchive, hotVars
  <2>4. c.pc = "stage" /\ c.records = call[p].records
    BY <1>0, <2>1 DEF Calls
  <2>5. Archived' = Archived \cup Hot(call[p].records, "record")
    <3>1. archives \in Seq(Archives) /\ DOMAIN archives = 1..Len(archives) /\ Len(archives) \in Nat
      BY <1>0 DEF FileInv
    <3>2. /\ DOMAIN archives' = 1..(Len(archives) + 1)
          /\ \A i \in 1..Len(archives) : archives'[i] = archives[i]
          /\ archives'[Len(archives) + 1] = a
      BY <2>3, <3>1
    <3>3. \A i \in DOMAIN archives' : i \in DOMAIN archives \/ i = Len(archives) + 1
      BY <3>1, <3>2
    <3>4. Len(archives) + 1 \in DOMAIN archives' /\ \A i \in DOMAIN archives : i \in DOMAIN archives'
      BY <3>1, <3>2
    <3>5. a.records = Hot(call[p].records, "record")
      BY <2>2
    <3>6. \A x : x \in Archived' <=> x \in Archived \/ x \in a.records
      BY <3>1, <3>2, <3>3, <3>4 DEF Archived
    <3> QED BY <3>5, <3>6
  <2>6. Settled' = Settled
    BY <1>1 DEF Settled
  <2> QED BY <1>0, <2>3, <2>4, <2>5, <2>6, OneRead DEF RetrievalInv, ReadOK
<1>6. CASE CompactStage(p)
  <2>1. PICK c : c = [call[p] EXCEPT !.pc = "fill"]
    OBVIOUS
  <2>2. /\ call' = [call EXCEPT ![p] = c] /\ UNCHANGED <<archives, ledger>>
        /\ call[p].pc = "stage"
    BY <1>6, <2>1 DEF CompactStage, Goto, hotVars
  <2>3. c.pc = "fill" /\ c.records = call[p].records
    BY <1>0, <2>1 DEF Calls
  <2> QED BY <1>1, <2>2, <2>3, SameRead
<1>7. CASE CompactFill(p)
  <2>1. /\ call[p].pc = "fill" /\ UNCHANGED <<archives, ledger>>
        /\ \/ call' = [call EXCEPT ![p] = Idle]
           \/ \E todo : call' = [call EXCEPT ![p].todo = todo]
    BY <1>7, Zenon DEF CompactFill, Return, hotVars
  <2>2. CASE call' = [call EXCEPT ![p] = Idle]
    BY <1>1, <2>1, <2>2, BackToIdle
  <2>3. ASSUME NEW todo, call' = [call EXCEPT ![p].todo = todo] PROVE RetrievalInv'
    <3>1. PICK c : c = [call[p] EXCEPT !.todo = todo]
      OBVIOUS
    <3>2. call' = [call EXCEPT ![p] = c]
      BY <2>3, <3>1
    <3>3. c.pc = "fill" /\ c.records = call[p].records
      BY <1>0, <2>1, <3>1 DEF Calls
    <3> QED BY <1>1, <2>1, <3>2, <3>3, SameRead
  <2> QED BY <2>1, <2>2, <2>3
<1>8. CASE InstallStart(p)
  <2>1. /\ call[p].pc = "fill" /\ UNCHANGED <<archives, ledger>>
        /\ call' = [call EXCEPT ![p] = Idle] \/ Goto(p, "ledger")
    BY <1>8 DEF InstallStart, Return, hotVars
  <2>2. CASE call' = [call EXCEPT ![p] = Idle]
    BY <1>1, <2>1, <2>2, BackToIdle
  <2>3. CASE Goto(p, "ledger")
    <3>1. PICK c : c = [call[p] EXCEPT !.pc = "ledger"]
      OBVIOUS
    <3>2. call' = [call EXCEPT ![p] = c] /\ c.pc = "ledger" /\ c.records = call[p].records
      BY <1>0, <2>3, <3>1 DEF Goto, Calls
    <3> QED BY <1>1, <2>1, <3>2, SameRead
  <2> QED BY <2>1, <2>2, <2>3
<1>9. CASE InstallLedger(p) \/ InstallRemove(p) \/ InstallMove(p)
  <2>1. /\ call[p].pc \in Installing /\ UNCHANGED archives
        /\ \/ \E l : Goto(p, l)
           \/ call' = [call EXCEPT ![p] = Idle] /\ UNCHANGED ledger
    BY <1>9 DEF InstallLedger, InstallRemove, InstallMove, Return, Installing
  <2>2. CASE call' = [call EXCEPT ![p] = Idle] /\ UNCHANGED ledger
    BY <1>1, <2>1, <2>2, BackToIdle
  <2>3. ASSUME NEW l, Goto(p, l) PROVE RetrievalInv'
    <3>1. PICK c : c = [call[p] EXCEPT !.pc = l]
      OBVIOUS
    <3>2. call' = [call EXCEPT ![p] = c] /\ c.pc = l /\ c.records = call[p].records
      BY <1>0, <2>3, <3>1 DEF Goto, Calls
    <3>3. call[p].pc # "idle"
      BY <2>1 DEF Installing
    <3> QED BY <1>1, <2>1, <3>2, <3>3, SameRead
  <2> QED BY <2>1, <2>2, <2>3
<1> QED BY <1>2, <1>3, <1>4, <1>5, <1>6, <1>7, <1>8, <1>9 DEF Compact

\* A compactor that is not idle is busy.
LEMMA NotBusy ==
    ASSUME FileInv, ~Busy, NEW p \in Compactors
    PROVE  call[p].pc = "idle"
<1>1. call[p].pc \in {"idle", "records", "done"}
  BY DEF Busy
<1>2. call[p].pc \in Labels
  BY DEF FileInv, CallOK, Calls, Processes
<1> QED BY <1>1, <1>2 DEF Labels, Installing

LEMMA AddRetrieves ==
    ASSUME RetrievalInv, FileInv', NEW x \in Entries, Add(x)
    PROVE  RetrievalInv'
<1>1. /\ ledger' = Append(ledger, Row(x)) /\ acked' = acked \cup {x}
      /\ raced' = IF Busy THEN raced \cup {x} ELSE raced
      /\ UNCHANGED <<archives, call>>
  BY DEF Add
<1>2. Archived' = Archived
  BY <1>1 DEF Archived
<1>3. /\ Hot(ledger, "record") \subseteq Hot(ledger', "record")
      /\ x \in RecordIds => x \in Hot(ledger', "record")
  <2>1. ledger \in Seq(Rows) /\ Row(x) \in Rows /\ Row(x).of = x /\ Row(x).type = Info[x].type
    BY RowTypes DEF RetrievalInv, FileInv
  <2> QED BY <1>1, <2>1, HotAppend DEF RecordIds
<1>4. CASE Busy
  <2>1. Settled' \subseteq Settled
    BY <1>1, <1>4 DEF Settled
  <2> QED BY <1>1, <1>2, <1>3, <2>1 DEF RetrievalInv, ReadOK
<1>5. CASE ~Busy
  <2>1. Settled' \subseteq Settled \cup {x} /\ Settled' \subseteq RecordIds
    BY <1>1 DEF Settled
  <2>2. \A p \in Compactors : call'[p].pc = "idle"
    BY <1>1, <1>5, NotBusy DEF RetrievalInv
  <2>3. \A p \in Compactors : ReadOK(call[p])'
    BY <2>2 DEF ReadOK, Installing
  <2> QED BY <1>2, <1>3, <2>1, <2>3 DEF RetrievalInv
<1> QED BY <1>4, <1>5

\* Steps that are no business of a compaction.
LEMMA OtherRetrieves ==
    ASSUME RetrievalInv, FileInv', UNCHANGED <<archives, acked, ledger>>, raced \subseteq raced',
           \A p \in Compactors : call'[p] = call[p]
    PROVE  RetrievalInv'
<1>1. Settled' \subseteq Settled /\ Archived' = Archived
  BY DEF Settled, Archived
<1> QED BY <1>1 DEF RetrievalInv, ReadOK

LEMMA RetrievalStep == RetrievalInv /\ [Next]_vars => RetrievalInv'
<1> SUFFICES ASSUME RetrievalInv, [Next]_vars PROVE RetrievalInv'
  OBVIOUS
<1>1. FileInv'
  BY FileStep DEF RetrievalInv
<1>2. ASSUME NEW p \in Pinners,
             PinWrite(p) \/ \E x \in RecordIds, op \in {"pin", "unpin"} : PinRead(p, x, op)
      PROVE  RetrievalInv'
  <2>1. UNCHANGED <<archives, acked, ledger>> /\ raced \subseteq raced'
    BY <1>2, ZenonT(60) DEF PinWrite, PinRead, hotVars, historyVars
  <2>2. \E c : call' = [call EXCEPT ![p] = c]
    BY <1>2 DEF PinWrite, PinRead, Return
  <2>3. \A q \in Compactors : call'[q] = call[q]
    BY <2>2, CompactionAssumption DEF RetrievalInv, FileInv, Processes
  <2> QED BY <1>1, <2>1, <2>3, OtherRetrieves, SMTT(40)
<1>3. ASSUME NEW p \in Processes, Crash(p) PROVE RetrievalInv'
  <2>1. UNCHANGED <<archives, acked, raced, ledger>> /\ call' = [call EXCEPT ![p] = Idle]
    BY <1>3 DEF Crash, Return, hotVars, historyVars
  <2>2. CASE p \in Compactors
    BY <1>1, <2>1, <2>2, BackToIdle
  <2>3. CASE p \notin Compactors
    <3>1. \A q \in Compactors : call'[q] = call[q]
      BY <2>1, <2>3 DEF RetrievalInv, FileInv, Processes
    <3> QED BY <1>1, <2>1, <3>1, OtherRetrieves
  <2> QED BY <2>2, <2>3
<1>4. CASE SyncSince \/ Tick \/ UNCHANGED vars
  <2>1. UNCHANGED <<archives, acked, raced, ledger, call>>
    BY <1>4 DEF SyncSince, Tick, vars, hotVars, historyVars
  <2> QED BY <1>1, <2>1, OtherRetrieves
<1> QED BY <1>1, <1>2, <1>3, <1>4, AddRetrieves, CompactRetrieves DEF Next

LEMMA RetrievalInit == Init => RetrievalInv
<1> SUFFICES ASSUME Init PROVE RetrievalInv
  OBVIOUS
<1>1. FileInv
  BY FileInit
<1>2. ASSUME NEW x \in Settled PROVE x \in Hot(ledger, "record")
  <2>1. PICK i \in DOMAIN Stored : Stored[i] = x
    BY <1>2 DEF Settled, Init, ToSet
  <2>2. ledger = [j \in DOMAIN Stored |-> Row(Stored[j])]
    BY DEF Init
  <2>3. i \in DOMAIN ledger /\ ledger[i] = Row(x)
    BY <2>1, <2>2
  <2>4. ledger[i].type = "record" /\ ledger[i].of = x
    BY <1>2, <2>3, RowTypes DEF Settled, RecordIds
  <2> QED BY <2>3, <2>4 DEF Hot
<1>3. \A p \in Compactors : ReadOK(call[p])
  BY DEF Init, Processes, Idle, ReadOK, Installing
<1> QED BY <1>1, <1>2, <1>3 DEF RetrievalInv

\* Everything retrievable, whatever the number of compactors.
Retrievable == \A x \in (acked \cap RecordIds) \ raced : Get(x)

LEMMA InvRetrieves == RetrievalInv => Retrievable
<1> SUFFICES ASSUME RetrievalInv, NEW x \in Settled PROVE Get(x)
  BY DEF Retrievable, Settled
<1>1. x \in Hot(ledger, "record") \cup Archived
  BY DEF RetrievalInv
<1> QED BY <1>1 DEF Get, Archived

\* store.get after compact: a record that was acknowledged, and did not arrive beside
\* a compaction, is in the hot ledger or in an archive, for any number of compactors
\* that share the staging directory, crash in the middle of install_generation and
\* install what others have staged.
THEOREM NothingSettledIsLost == Spec => []Retrievable
<1>1. RetrievalInv => Retrievable
  BY InvRetrieves
<1> QED BY <1>1, RetrievalInit, RetrievalStep, PTL DEF Spec

-----------------------------------------------------------------------------
\* The archives restore, when one compaction runs at a time.

HasRaced(rows) == \E j \in DOMAIN rows : rows[j].of \in raced

\* What a compaction has read is what the ledger holds, but for what raced it.
FreshOK(c) ==
    \/ HasRaced(ledger)
    \/ /\ c.pc \in {"events", "select", "archive"} =>
             Hot(c.records, "record") = Hot(ledger, "record")
       /\ c.pc \in {"select", "archive"} => Hot(c.events, "event") = Hot(ledger, "event")

OneCompactor == \A p, q \in Compactors : p = q

RestoreInv ==
    /\ FileInv
    /\ ArchivesRestorable
    /\ \A p \in Compactors : FreshOK(call[p])

\* The archives are as they were, and more has raced.
LEMMA SameArchives ==
    ASSUME RestoreInv, FileInv', UNCHANGED archives, raced \subseteq raced',
           \A p \in Compactors : FreshOK(call[p])'
    PROVE  RestoreInv'
  BY DEF RestoreInv, ArchivesRestorable

LEMMA RestoreStep ==
    ASSUME OneCompactor
    PROVE  RestoreInv /\ [Next]_vars => RestoreInv'
<1> SUFFICES ASSUME RestoreInv, [Next]_vars PROVE RestoreInv'
  OBVIOUS
<1>1. FileInv /\ FileInv' /\ DOMAIN call = Processes /\ Compactors \subseteq Processes
  BY FileStep DEF RestoreInv, FileInv, Processes
<1>2. ASSUME UNCHANGED <<ledger, archives>>, raced \subseteq raced',
             \A p \in Compactors : call'[p] = call[p]
      PROVE  RestoreInv'
  <2>1. \A p \in Compactors : FreshOK(call[p])'
    BY <1>2 DEF RestoreInv, FreshOK, HasRaced
  <2> QED BY <1>1, <1>2, <2>1, SameArchives
<1>3. ASSUME NEW x \in Entries, Add(x) PROVE RestoreInv'
  <2>1. /\ ledger' = Append(ledger, Row(x)) /\ UNCHANGED <<archives, call>>
        /\ raced' = IF Busy THEN raced \cup {x} ELSE raced
    BY <1>3 DEF Add
  <2>2. CASE Busy
    <3>1. Len(ledger) + 1 \in DOMAIN ledger' /\ ledger'[Len(ledger) + 1] = Row(x)
      BY <1>1, <2>1, RowTypes DEF FileInv
    <3>2. HasRaced(ledger)'
      BY <2>1, <2>2, <3>1, RowTypes DEF HasRaced
    <3>3. \A p \in Compactors : FreshOK(call[p])'
      BY <3>2 DEF FreshOK
    <3> QED BY <1>1, <2>1, <3>3, SameArchives
  <2>3. CASE ~Busy
    <3>1. \A p \in Compactors : call'[p].pc = "idle"
      BY <1>1, <2>1, <2>3, NotBusy
    <3>2. \A p \in Compactors : FreshOK(call[p])'
      BY <3>1 DEF FreshOK
    <3> QED BY <1>1, <2>1, <3>2, SameArchives
  <2> QED BY <2>2, <2>3
<1>4. ASSUME NEW p \in Pinners,
             PinWrite(p) \/ \E x \in RecordIds, op \in {"pin", "unpin"} : PinRead(p, x, op)
      PROVE  RestoreInv'
  <2>1. UNCHANGED <<archives, ledger>> /\ raced \subseteq raced'
    BY <1>4, ZenonT(60) DEF PinWrite, PinRead, hotVars, historyVars
  <2>2. \E c : call' = [call EXCEPT ![p] = c]
    BY <1>4 DEF PinWrite, PinRead, Return
  <2>3. \A q \in Compactors : call'[q] = call[q]
    BY <1>1, <2>2, CompactionAssumption
  <2> QED BY <1>2, <2>1, <2>3, SMTT(40)
<1>5. ASSUME NEW p \in Compactors, NEW c, call' = [call EXCEPT ![p] = c],
             UNCHANGED <<archives, raced>>, FreshOK(c)'
      PROVE  RestoreInv'
  <2>1. \A q \in Compactors : call'[q] = c
    BY <1>1, <1>5 DEF OneCompactor
  <2>2. \A q \in Compactors : FreshOK(call[q])'
    BY <1>5, <2>1 DEF FreshOK
  <2> QED BY <1>1, <1>5, <2>2, SameArchives
<1>6. ASSUME NEW p \in Compactors, Compact(p) PROVE RestoreInv'
  <2>0. call[p] \in Calls /\ FreshOK(call[p]) /\ UNCHANGED raced
    BY <1>1, <1>6 DEF RestoreInv, FileInv, CallOK, Compact, CompactRecords, CompactEvents,
       CompactSelect, CompactArchive, CompactStage, CompactFill, InstallStart, InstallLedger,
       InstallRemove, InstallMove, historyVars
  <2>1. CASE CompactRecords(p)
    <3>1. PICK c : c = [Idle EXCEPT !.pc = "events", !.records = ledger]
      OBVIOUS
    <3>2. call' = [call EXCEPT ![p] = c] /\ UNCHANGED <<archives, ledger>>
      BY <2>1, <3>1 DEF CompactRecords, hotVars
    <3>3. c.pc = "events" /\ c.records = ledger
      BY <3>1 DEF Idle
    <3> QED BY <1>5, <2>0, <3>2, <3>3 DEF FreshOK
  <2>2. CASE CompactEvents(p)
    <3>1. PICK c : c = [call[p] EXCEPT !.pc = "select", !.events = ledger]
      OBVIOUS
    <3>2. /\ call' = [call EXCEPT ![p] = c] /\ UNCHANGED <<archives, ledger>>
          /\ call[p].pc = "events"
      BY <2>2, <3>1 DEF CompactEvents, hotVars
    <3>3. c.pc = "select" /\ c.records = call[p].records /\ c.events = ledger
      BY <2>0, <3>1 DEF Calls
    <3>4. FreshOK(c)'
      BY <2>0, <3>2, <3>3 DEF FreshOK, HasRaced
    <3> QED BY <1>5, <2>0, <3>2, <3>4
  <2>3. CASE CompactSelect(p)
    <3>1. /\ call[p].pc = "select" /\ UNCHANGED <<archives, ledger>>
          /\ \/ call' = [call EXCEPT ![p] = Idle]
             \/ \E todo : call' = [call EXCEPT ![p].pc = "archive", ![p].todo = todo]
      BY <2>3, Zenon DEF CompactSelect, Return, hotVars
    <3>2. CASE call' = [call EXCEPT ![p] = Idle]
      <4>1. FreshOK(Idle)'
        BY DEF FreshOK, Idle
      <4> QED BY <1>5, <2>0, <3>1, <3>2, <4>1
    <3>3. ASSUME NEW todo, call' = [call EXCEPT ![p].pc = "archive", ![p].todo = todo]
          PROVE  RestoreInv'
      <4>1. PICK c : c = [call[p] EXCEPT !.pc = "archive", !.todo = todo]
        OBVIOUS
      <4>2. call' = [call EXCEPT ![p] = c]
        BY <3>3, <4>1
      <4>3. c.pc = "archive" /\ c.records = call[p].records /\ c.events = call[p].events
        BY <2>0, <4>1 DEF Calls
      <4>4. FreshOK(c)'
        BY <2>0, <3>1, <4>3 DEF FreshOK, HasRaced
      <4> QED BY <1>5, <2>0, <3>1, <4>2, <4>4
    <3> QED BY <3>1, <3>2, <3>3
  <2>4. CASE CompactArchive(p)
    <3>1. PICK c : c = [call[p] EXCEPT !.pc = "stage", !.archive = Len(archives) + 1]
      OBVIOUS
    <3>2. PICK a : a = [ledger |-> ledger, records |-> Hot(call[p].records, "record"),
                        events |-> Hot(call[p].events, "event")]
      OBVIOUS
    <3>3. /\ call' = [call EXCEPT ![p] = c] /\ archives' = Append(archives, a) /\ UNCHANGED ledger
          /\ call[p].pc = "archive"
      BY <2>4, <3>1, <3>2 DEF CompactArchive, hotVars
    <3>4. c.pc = "stage"
      BY <2>0, <3>1 DEF Calls
    <3>5. Restorable(a) \/ HasRaced(a.ledger)
      <4>1. /\ a.ledger = ledger /\ a.records = Hot(call[p].records, "record")
            /\ a.events = Hot(call[p].events, "event")
        BY <3>2
      <4>2. Restorable(a) <=> a.records = Hot(a.ledger, "record") /\ a.events = Hot(a.ledger, "event")
        BY DEF Restorable, Verified
      <4> QED BY <2>0, <3>3, <4>1, <4>2 DEF FreshOK
    <3>6. ArchivesRestorable'
      <4>1. archives \in Seq(Archives)
        BY <1>1 DEF FileInv
      <4>2. \A i \in DOMAIN archives' : (i \in DOMAIN archives /\ archives'[i] = archives[i])
                                        \/ archives'[i] = a
        BY <3>3, <4>1
      <4>3. \A i \in DOMAIN archives : Restorable(archives[i]) \/ HasRaced(archives[i].ledger)
        BY DEF RestoreInv, ArchivesRestorable, HasRaced
      <4>4. \A i \in DOMAIN archives' : Restorable(archives'[i]) \/ HasRaced(archives'[i].ledger)
        BY <3>5, <4>2, <4>3
      <4> QED BY <2>0, <4>4 DEF ArchivesRestorable, HasRaced
    <3>7. \A q \in Compactors : call'[q] = c
      BY <1>1, <3>3 DEF OneCompactor
    <3>8. \A q \in Compactors : FreshOK(call[q])'
      BY <3>4, <3>7 DEF FreshOK
    <3> QED BY <1>1, <3>6, <3>8 DEF RestoreInv
  <2>5. CASE \/ CompactStage(p) \/ CompactFill(p) \/ InstallStart(p) \/ InstallLedger(p)
             \/ InstallRemove(p) \/ InstallMove(p)
    <3>1. /\ UNCHANGED archives /\ call[p].pc \in {"stage", "fill"} \cup Installing
          /\ \/ call' = [call EXCEPT ![p] = Idle]
             \/ \E l \in {"fill"} \cup Installing : call' = [call EXCEPT ![p].pc = l]
             \/ \E todo : call' = [call EXCEPT ![p].todo = todo]
      BY <2>5, Zenon DEF CompactStage, CompactFill, InstallStart, InstallLedger, InstallRemove,
         InstallMove, Return, Goto, Installing
    <3>2. PICK c : call' = [call EXCEPT ![p] = c] /\ c.pc \notin {"events", "select", "archive"}
      <4>1. CASE call' = [call EXCEPT ![p] = Idle]
        <5>1. Idle.pc = "idle"
          BY DEF Idle
        <5> QED BY <4>1, <5>1
      <4>2. ASSUME NEW l \in {"fill"} \cup Installing, call' = [call EXCEPT ![p].pc = l]
            PROVE  \E c : call' = [call EXCEPT ![p] = c] /\ c.pc \notin {"events", "select", "archive"}
        <5>1. PICK c : c = [call[p] EXCEPT !.pc = l]
          OBVIOUS
        <5>2. call' = [call EXCEPT ![p] = c] /\ c.pc = l
          BY <2>0, <4>2, <5>1 DEF Calls
        <5> QED BY <5>2 DEF Installing
      <4>3. ASSUME NEW todo, call' = [call EXCEPT ![p].todo = todo]
            PROVE  \E c : call' = [call EXCEPT ![p] = c] /\ c.pc \notin {"events", "select", "archive"}
        <5>1. PICK c : c = [call[p] EXCEPT !.todo = todo]
          OBVIOUS
        <5>2. call' = [call EXCEPT ![p] = c] /\ c.pc = call[p].pc
          BY <2>0, <4>3, <5>1 DEF Calls
        <5> QED BY <3>1, <5>2 DEF Installing
      <4> QED BY <3>1, <4>1, <4>2, <4>3
    <3>3. FreshOK(c)'
      BY <3>2 DEF FreshOK
    <3> QED BY <1>5, <2>0, <3>1, <3>2, <3>3
  <2> QED BY <1>6, <2>1, <2>2, <2>3, <2>4, <2>5 DEF Compact
<1>7. ASSUME NEW p \in Processes, Crash(p) PROVE RestoreInv'
  <2>1. UNCHANGED <<archives, raced, ledger>> /\ call' = [call EXCEPT ![p] = Idle]
    BY <1>7 DEF Crash, Return, hotVars, historyVars
  <2>2. CASE p \in Compactors
    <3>1. FreshOK(Idle)'
      BY DEF FreshOK, Idle
    <3> QED BY <1>5, <2>1, <2>2, <3>1
  <2>3. CASE p \notin Compactors
    <3>1. \A q \in Compactors : call'[q] = call[q]
      BY <1>1, <2>1, <2>3
    <3> QED BY <1>2, <2>1, <3>1
  <2> QED BY <2>2, <2>3
<1>8. CASE SyncSince \/ Tick \/ UNCHANGED vars
  <2>1. UNCHANGED <<archives, raced, ledger, call>>
    BY <1>8 DEF SyncSince, Tick, vars, hotVars, historyVars
  <2> QED BY <1>2, <2>1
<1> QED BY <1>3, <1>4, <1>6, <1>7, <1>8 DEF Next

LEMMA RestoreInit == Init => RestoreInv
<1> SUFFICES ASSUME Init PROVE RestoreInv
  OBVIOUS
<1>1. ArchivesRestorable
  BY DEF Init, ArchivesRestorable
<1>2. \A p \in Compactors : FreshOK(call[p])
  BY DEF Init, Processes, Idle, FreshOK
<1> QED BY <1>1, <1>2, FileInit DEF RestoreInv

\* docs/INFORMATION_LIFECYCLE.md, "keep resolving archived digests through
\* store.get()": with one compactor beside any number of writers and pinners, what
\* was settled stays retrievable and each archive restores to a store that verifies.
THEOREM SettledStaysRetrievable ==
    ASSUME OneCompactor
    PROVE  Spec => []SettledRetrievable
<1>1. RetrievalInv => Retrievable
  BY InvRetrieves
<1>2. RetrievalInv /\ RestoreInv => SettledRetrievable
  BY <1>1 DEF SettledRetrievable, Retrievable, RestoreInv
<1>3. RestoreInv /\ [Next]_vars => RestoreInv'
  BY RestoreStep
<1> QED BY <1>2, <1>3, RetrievalInit, RetrievalStep, RestoreInit, PTL DEF Spec

-----------------------------------------------------------------------------
\* protection_graph is closed: it holds the canonical records and what its members name.

\* What holds of 0 and goes from each number to the next holds up to n.
LEMMA UpTo ==
    ASSUME NEW n \in Nat, NEW S, 0 \in S, \A i \in 1..n : i - 1 \in S => i \in S
    PROVE  0..n \subseteq S
<1> DEFINE Bad == {i \in 0..n : i \notin S}
<1> SUFFICES ASSUME Bad # {} PROVE FALSE
  OBVIOUS
<1>1. Bad \subseteq Nat
  OBVIOUS
<1>2. PICK i \in Bad : \A j \in Bad : i <= j
  BY <1>1, SmallestIn
<1>3. i \in 1..n /\ i - 1 \in 0..n /\ i - 1 \notin Bad
  BY <1>2
<1> QED
  BY <1>2, <1>3

Canonical(R) == {x \in R : ClassifyRecord(x) = "canonical"}

Followed(found, R) == found \cup UNION {ReferencedDigests(x) : x \in found \cap R}

\* f is the walk of protection_graph over n steps.
Walks(f, n, R) ==
    f = [i \in 0..n |-> IF i = 0 THEN Canonical(R) ELSE Followed(f[i - 1], R)]

LEMMA WalkExists ==
    ASSUME NEW n \in Nat, NEW R
    PROVE  \E f : Walks(f, n, R)
<1> DEFINE S == {k \in Nat : \E f : Walks(f, k, R)}
<1>1. 0 \in S
  <2> DEFINE f == [i \in 0..0 |-> Canonical(R)]
  <2>1. Walks(f, 0, R)
    BY DEF Walks
  <2> QED BY <2>1
<1>2. ASSUME NEW k \in 1..n, k - 1 \in S PROVE k \in S
  <2>1. PICK f : Walks(f, k - 1, R)
    BY <1>2
  <2> DEFINE g == [i \in 0..k |-> IF i < k THEN f[i] ELSE Followed(f[k - 1], R)]
  <2>2. \A i \in 0..(k - 1) : f[i] = IF i = 0 THEN Canonical(R) ELSE Followed(f[i - 1], R)
    BY <2>1 DEF Walks
  <2>3. ASSUME NEW i \in 0..k
        PROVE  g[i] = IF i = 0 THEN Canonical(R) ELSE Followed(g[i - 1], R)
    <3>1. CASE i = k
      BY <3>1
    <3>2. CASE i # k
      BY <2>2, <3>2
    <3> QED BY <3>1, <3>2
  <2>4. g = [i \in 0..k |-> g[i]]
    OBVIOUS
  <2> HIDE DEF g
  <2>5. Walks(g, k, R)
    BY <2>3, <2>4 DEF Walks
  <2> QED BY <2>5
<1> HIDE DEF S
<1>3. 0..n \subseteq S
  BY <1>1, <1>2, UpTo
<1> QED BY <1>3 DEF S

LEMMA GraphIsWalk ==
    ASSUME NEW R, NEW n, n = Cardinality(R), n \in Nat
    PROVE  \E f : Walks(f, n, R) /\ ProtectionGraph(R) = f[n]
<1> DEFINE F == CHOOSE f : f = [i \in 0..n |->
                  IF i = 0 THEN {x \in R : ClassifyRecord(x) = "canonical"}
                           ELSE f[i - 1] \cup UNION {ReferencedDigests(x) : x \in f[i - 1] \cap R}]
<1>1. PICK f : Walks(f, n, R)
  BY WalkExists
<1>2. f = [i \in 0..n |->
             IF i = 0 THEN {x \in R : ClassifyRecord(x) = "canonical"}
                      ELSE f[i - 1] \cup UNION {ReferencedDigests(x) : x \in f[i - 1] \cap R}]
  BY <1>1 DEF Walks, Canonical, Followed
<1>3. F = [i \in 0..n |->
             IF i = 0 THEN {x \in R : ClassifyRecord(x) = "canonical"}
                      ELSE F[i - 1] \cup UNION {ReferencedDigests(x) : x \in F[i - 1] \cap R}]
  BY <1>2
<1>4. Walks(F, n, R)
  BY <1>3 DEF Walks, Canonical, Followed
<1>5. ProtectionGraph(R) = F[n]
  BY DEF ProtectionGraph
<1> QED BY <1>4, <1>5

\* Every member of found that is in R names, in R, members of found only.
ClosedIn(found, R) ==
    \A y \in found \cap R : ReferencedDigests(y) \cap R \subseteq found

\* Either nothing is left to follow, or a record more is found with each step; so
\* after as many steps as there are records nothing is left to follow.
LEMMA GraphClosed ==
    ASSUME NEW R, IsFiniteSet(R)
    PROVE  Canonical(R) \subseteq ProtectionGraph(R) /\ ClosedIn(ProtectionGraph(R), R)
<1>1. PICK n : n = Cardinality(R) /\ n \in Nat
  BY FS_CardinalityType
<1>2. PICK f : Walks(f, n, R) /\ ProtectionGraph(R) = f[n]
  BY <1>1, GraphIsWalk
<1>3. \A i \in 0..n : f[i] = IF i = 0 THEN Canonical(R) ELSE Followed(f[i - 1], R)
  BY <1>2 DEF Walks
<1> DEFINE Found(i) == f[i] \cap R
           S == {i \in 0..n : /\ Canonical(R) \subseteq f[i]
                              /\ ClosedIn(f[i], R) \/ Cardinality(Found(i)) >= i}
<1>4. \A i \in 0..n : IsFiniteSet(Found(i)) /\ Cardinality(Found(i)) \in Nat
  <2>1. \A i \in 0..n : Found(i) \in SUBSET R
    OBVIOUS
  <2>2. \A i \in 0..n : IsFiniteSet(Found(i))
    BY <2>1, FS_Subset
  <2> QED BY <2>2, FS_CardinalityType
<1>5. 0 \in S
  BY <1>1, <1>3, <1>4
<1>6. ASSUME NEW i \in 1..n, i - 1 \in S PROVE i \in S
  <2>0. i \in 0..n /\ i - 1 \in 0..n /\ i # 0
    BY <1>1
  <2>1. f[i] = Followed(f[i - 1], R)
    BY <1>3, <2>0
  <2>2. f[i - 1] \subseteq f[i] /\ Canonical(R) \subseteq f[i]
    BY <1>6, <2>1 DEF Followed
  <2>3. CASE ClosedIn(f[i - 1], R)
    <3>1. f[i] \cap R = f[i - 1] \cap R
      BY <2>1, <2>3 DEF Followed, ClosedIn
    <3>2. ClosedIn(f[i], R)
      BY <2>2, <2>3, <3>1 DEF ClosedIn
    <3> QED BY <2>0, <2>2, <3>2
  <2>4. CASE ~ClosedIn(f[i - 1], R)
    <3>1. PICK y \in f[i - 1] \cap R, z \in R : z \in ReferencedDigests(y) /\ z \notin f[i - 1]
      BY <2>4 DEF ClosedIn
    <3>2. z \in f[i]
      BY <2>1, <3>1 DEF Followed
    <3>3. Found(i - 1) \cup {z} \in SUBSET Found(i) /\ z \notin Found(i - 1)
      BY <2>2, <3>1, <3>2
    <3>4. Cardinality(Found(i - 1)) >= i - 1
      BY <1>6, <2>4
    <3> HIDE DEF Found
    <3>5. Cardinality(Found(i - 1) \cup {z}) = Cardinality(Found(i - 1)) + 1
      BY <1>4, <2>0, <3>3, FS_AddElement
    <3>6. Cardinality(Found(i - 1) \cup {z}) <= Cardinality(Found(i))
      BY <1>4, <2>0, <3>3, FS_Subset
    <3>7. Cardinality(Found(i)) >= i
      BY <1>4, <2>0, <3>4, <3>5, <3>6
    <3> QED BY <2>0, <2>2, <3>7
  <2> QED BY <2>3, <2>4
<1>7. n \in S
  <2> HIDE DEF S
  <2>1. 0..n \subseteq S
    BY <1>1, <1>5, <1>6, UpTo
  <2> QED BY <1>1, <2>1
<1>8. ASSUME Cardinality(Found(n)) >= n PROVE ClosedIn(f[n], R)
  <2>1. Found(n) \in SUBSET R /\ n \in 0..n
    BY <1>1
  <2>2. Cardinality(Found(n)) <= Cardinality(R) /\ (Cardinality(R) = Cardinality(Found(n)) => R = Found(n))
    BY <2>1, FS_Subset
  <2>3. Cardinality(R) = Cardinality(Found(n))
    BY <1>1, <1>4, <1>8, <2>1, <2>2
  <2>4. R \subseteq f[n]
    BY <2>2, <2>3
  <2> QED BY <2>4 DEF ClosedIn
<1> QED BY <1>2, <1>7, <1>8

LEMMA HotFinite ==
    ASSUME NEW rows \in Seq(Rows), NEW type
    PROVE  IsFiniteSet(Hot(rows, type))
<1>1. PICK is : is = {j \in DOMAIN rows : rows[j].type = type}
  OBVIOUS
<1>2. IsFiniteSet(is)
  <2>1. Len(rows) \in Nat /\ DOMAIN rows = 1..Len(rows)
    OBVIOUS
  <2>2. IsFiniteSet(1..Len(rows))
    BY <2>1, FS_Interval
  <2>3. is \in SUBSET (1..Len(rows))
    BY <1>1, <2>1
  <2> QED BY <2>2, <2>3, FS_Subset
<1>3. PICK hot : hot = Hot(rows, type)
  OBVIOUS
<1>4. hot = {rows[i].of : i \in is}
  BY <1>1, <1>3 DEF Hot
<1>5. PICK f : f = [i \in is |-> rows[i].of]
  OBVIOUS
<1>6. f \in Surjection(is, hot)
  BY <1>4, <1>5 DEF Surjection
<1> QED BY <1>2, <1>3, <1>6, FS_Surjection

-----------------------------------------------------------------------------
\* What leaves the hot ledger.

OnePinner == \A p, q \in Pinners : p = q

Reading  == {"events", "select"}
Choosing == {"archive", "stage"}
Staging  == {"fill", "ledger"}

\* A record of R that is not kept had to go.
MayLeave(x, R) == Expired(x, day) /\ x \notin pinned \ raced /\ x \notin ProtectionGraph(R)

\* What a compaction read covers what is hot, less what raced; what it does not keep
\* may leave, and what it keeps is still to be staged or is in a row of the staging store.
LeaveOK(c) ==
    LET R == Hot(c.records, "record")
    IN  /\ c.pc \in Reading \cup Choosing \cup Staging => Hot(ledger, "record") \ raced \subseteq R
        /\ c.pc \in Choosing => \A x \in R \ c.todo : MayLeave(x, R)
        /\ c.pc \in Staging =>
              /\ staging \in Stagings
              /\ staging.record \subseteq Hot(staging.rows, "record")
              /\ \A x \in R \ (c.todo \cup staging.record) : MayLeave(x, R)
        /\ c.pc = "ledger" => c.todo = {}

\* The file of pins is what the calls that returned made it.
PinsInv ==
    /\ pinned = pins
    /\ \A p \in Pinners : call[p].pc \in {"pin", "unpin"} => call[p].pins = pins

LeaveInv ==
    /\ FileInv
    /\ day \in Nat
    /\ PinsInv
    /\ \A p \in Compactors : LeaveOK(call[p])

\* Days pass and pins come and go: what may leave still may.
LEMMA StillMayLeave ==
    ASSUME NEW R, NEW x \in Entries, MayLeave(x, R), day \in Nat, day' \in Nat, day <= day',
           pinned' \ raced' \subseteq pinned \ raced
    PROVE  MayLeave(x, R)'
<1>1. Info[x].created \in Nat /\ EphemeralTtl \in Nat /\ DiagnosticTtl \in Nat
  BY CompactionAssumption
<1>2. Expired(x, day) => Expired(x, day')
  BY <1>1 DEF Expired
<1> QED BY <1>2 DEF MayLeave

LEMMA StillLeaveOK ==
    ASSUME NEW c \in Calls, LeaveOK(c), day \in Nat, day' \in Nat, day <= day', UNCHANGED staging,
           pinned' \ raced' \subseteq pinned \ raced,
           Hot(ledger', "record") \ raced' \subseteq Hot(ledger, "record") \ raced
    PROVE  LeaveOK(c)'
<1>1. PICK R : R = Hot(c.records, "record")
  OBVIOUS
<1>2. R \subseteq Entries
  BY <1>1, HotTypes DEF Calls, RecordIds
<1>3. \A x \in R : MayLeave(x, R) => MayLeave(x, R)'
  BY <1>2, StillMayLeave
<1>4. /\ c.pc \in Reading \cup Choosing \cup Staging => Hot(ledger, "record") \ raced \subseteq R
      /\ c.pc \in Choosing => \A x \in R \ c.todo : MayLeave(x, R)
      /\ c.pc \in Staging => /\ staging \in Stagings
                             /\ staging.record \subseteq Hot(staging.rows, "record")
                             /\ \A x \in R \ (c.todo \cup staging.record) : MayLeave(x, R)
      /\ c.pc = "ledger" => c.todo = {}
  BY <1>1 DEF LeaveOK
<1> QED BY <1>1, <1>3, <1>4 DEF LeaveOK

\* A step that is not the compactor's.
LEMMA OtherLeaves ==
    ASSUME LeaveInv, FileInv', PinsInv', day' \in Nat, day <= day', UNCHANGED staging,
           \A p \in Compactors : call'[p] = call[p],
           \/ \A p \in Compactors : call[p].pc = "idle"
           \/ /\ pinned' \ raced' \subseteq pinned \ raced
              /\ Hot(ledger', "record") \ raced' \subseteq Hot(ledger, "record") \ raced
    PROVE  LeaveInv'
<1> SUFFICES ASSUME NEW p \in Compactors PROVE LeaveOK(call[p])'
  BY DEF LeaveInv
<1>1. PICK c : c = call[p] /\ c = call'[p]
  OBVIOUS
<1>2. c \in Calls /\ LeaveOK(c) /\ day \in Nat
  BY <1>1 DEF LeaveInv, FileInv, CallOK, Processes
<1>3. LeaveOK(c)'
  <2>1. CASE c.pc = "idle"
    BY <2>1 DEF LeaveOK, Reading, Choosing, Staging
  <2>2. CASE c.pc # "idle"
    BY <1>1, <1>2, <2>2, StillLeaveOK
  <2> QED BY <2>1, <2>2
<1> QED BY <1>1, <1>3

LEMMA AddLeaves ==
    ASSUME LeaveInv, FileInv', NEW x \in Entries, Add(x)
    PROVE  LeaveInv'
<1>1. /\ ledger' = Append(ledger, Row(x)) /\ raced' = IF Busy THEN raced \cup {x} ELSE raced
      /\ UNCHANGED <<staging, pins, pinned, call, day>>
  BY DEF Add
<1>2. PinsInv' /\ day' \in Nat /\ day <= day'
  BY <1>1 DEF LeaveInv, PinsInv
<1>3. CASE Busy
  <2>1. Hot(ledger', "record") \subseteq Hot(ledger, "record") \cup {x}
    <3>1. ledger \in Seq(Rows) /\ Row(x) \in Rows /\ Row(x).of = x
      BY RowTypes DEF LeaveInv, FileInv
    <3> QED BY <1>1, <3>1, HotAppend
  <2>2. raced' = raced \cup {x}
    BY <1>1, <1>3
  <2> QED BY <1>1, <1>2, <2>1, <2>2, OtherLeaves
<1>4. CASE ~Busy
  <2>1. \A p \in Compactors : call[p].pc = "idle"
    BY <1>4, NotBusy DEF LeaveInv
  <2> QED BY <1>1, <1>2, <2>1, OtherLeaves
<1> QED BY <1>3, <1>4

LEMMA PinLeaves ==
    ASSUME OnePinner, LeaveInv, FileInv', NEW p \in Pinners,
           PinWrite(p) \/ \E x \in RecordIds, op \in {"pin", "unpin"} : PinRead(p, x, op)
    PROVE  LeaveInv'
<1>1. DOMAIN call = Processes /\ p \in Processes /\ p \notin Compactors /\ CallOK(p, call[p])
  BY CompactionAssumption DEF LeaveInv, FileInv, Processes
<1>2. UNCHANGED <<ledger, staging, day>> /\ day' \in Nat /\ day <= day'
  <2>1. UNCHANGED <<ledger, staging, day>>
    BY DEF PinWrite, PinRead, hotVars
  <2> QED BY <2>1 DEF LeaveInv
<1>3. ASSUME NEW c, call' = [call EXCEPT ![p] = c]
      PROVE  /\ \A q \in Compactors : call'[q] = call[q]
             /\ \A q \in Pinners : call'[q] = c
  BY <1>1, <1>3 DEF OnePinner, Processes
<1>4. CASE PinWrite(p)
  <2>1. /\ call[p].pc \in {"pin", "unpin"}
        /\ pins' = IF call[p].pc = "pin" THEN call[p].pins \cup {call[p].digest}
                                         ELSE call[p].pins \ {call[p].digest}
        /\ pinned' = IF call[p].pc = "pin" THEN pinned \cup {call[p].digest}
                                           ELSE pinned \ {call[p].digest}
        /\ raced' = IF call[p].pc = "pin" /\ Busy THEN raced \cup {call[p].digest} ELSE raced
        /\ call' = [call EXCEPT ![p] = Idle]
    BY <1>4 DEF PinWrite, Return
  <2>2. pinned = pins /\ call[p].pins = pins
    BY <2>1 DEF LeaveInv, PinsInv
  <2>3. pinned' = pins'
    BY <2>1, <2>2
  <2>4. /\ \A q \in Compactors : call'[q] = call[q]
        /\ \A q \in Pinners : call'[q] = Idle
    BY <1>3, <2>1
  <2>5. Idle.pc = "idle"
    BY DEF Idle
  <2>6. PinsInv'
    BY <2>3, <2>4, <2>5 DEF PinsInv
  <2>7. CASE Busy
    <3>1. pinned' \ raced' \subseteq pinned \ raced /\ raced \subseteq raced'
      BY <2>1, <2>7
    <3> QED BY <1>2, <2>4, <2>6, <3>1, OtherLeaves
  <2>8. CASE ~Busy
    <3>1. \A q \in Compactors : call[q].pc = "idle"
      BY <2>8, NotBusy DEF LeaveInv
    <3> QED BY <1>2, <2>4, <2>6, <3>1, OtherLeaves
  <2> QED BY <2>7, <2>8
<1>5. ASSUME NEW x \in RecordIds, NEW op \in {"pin", "unpin"}, PinRead(p, x, op)
      PROVE  LeaveInv'
  <2>1. PICK c : c = [Idle EXCEPT !.pc = op, !.digest = x, !.pins = pins]
    OBVIOUS
  <2>2. call' = [call EXCEPT ![p] = c] /\ UNCHANGED <<pins, pinned, raced>>
    BY <1>5, <2>1 DEF PinRead, historyVars
  <2>3. c.pins = pins
    BY <2>1 DEF Idle
  <2>4. /\ \A q \in Compactors : call'[q] = call[q]
        /\ \A q \in Pinners : call'[q] = c
    BY <1>3, <2>2
  <2>5. PinsInv'
    BY <2>2, <2>3, <2>4 DEF PinsInv, LeaveInv
  <2> QED BY <1>2, <2>2, <2>4, <2>5, OtherLeaves
<1> QED BY <1>4, <1>5

\* A step of the one compactor.
LEMMA OneLeaves ==
    ASSUME OneCompactor, LeaveInv, FileInv', NEW p \in Compactors, NEW c, LeaveOK(c)',
           call' = [call EXCEPT ![p] = c], UNCHANGED <<pins, pinned, day>>
    PROVE  LeaveInv'
<1>1. DOMAIN call = Processes /\ p \in Processes /\ p \notin Pinners
  BY CompactionAssumption DEF LeaveInv, FileInv, Processes
<1>2. /\ \A q \in Compactors : call'[q] = c
      /\ \A q \in Pinners : call'[q] = call[q]
  BY <1>1 DEF OneCompactor, Processes
<1>3. PinsInv'
  BY <1>2 DEF LeaveInv, PinsInv
<1>4. \A q \in Compactors : LeaveOK(call[q])'
  BY <1>2
<1> QED BY <1>3, <1>4 DEF LeaveInv

\* compact, up to the archive.
LEMMA ChooseLeaves ==
    ASSUME OneCompactor, LeaveInv, FileInv', NEW p \in Compactors,
           CompactRecords(p) \/ CompactEvents(p) \/ CompactSelect(p) \/ CompactArchive(p)
    PROVE  LeaveInv'
<1>1. UNCHANGED <<ledger, staging, pins, pinned, raced, day>>
  BY DEF CompactRecords, CompactEvents, CompactSelect, CompactArchive, hotVars, historyVars
<1>2. call[p] \in Calls /\ LeaveOK(call[p]) /\ pinned = pins
  BY DEF LeaveInv, FileInv, CallOK, Processes, PinsInv
<1>3. PICK d : d = call[p]
  OBVIOUS
<1>4. CASE CompactRecords(p)
  <2>1. PICK c : c = [Idle EXCEPT !.pc = "events", !.records = ledger]
    OBVIOUS
  <2>2. call' = [call EXCEPT ![p] = c]
    BY <1>4, <2>1 DEF CompactRecords
  <2>3. c.pc = "events" /\ c.records = ledger
    BY <2>1 DEF Idle
  <2>4. LeaveOK(c)'
    BY <1>1, <2>3 DEF LeaveOK, Reading, Choosing, Staging
  <2> QED BY <1>1, <2>2, <2>4, OneLeaves
<1>5. CASE CompactEvents(p)
  <2>1. PICK c : c = [d EXCEPT !.pc = "select", !.events = ledger]
    OBVIOUS
  <2>2. call' = [call EXCEPT ![p] = c] /\ d.pc = "events"
    BY <1>3, <1>5, <2>1 DEF CompactEvents
  <2>3. c.pc = "select" /\ c.records = d.records
    BY <1>2, <1>3, <2>1 DEF Calls
  <2>4. LeaveOK(c)'
    BY <1>1, <1>2, <1>3, <2>2, <2>3 DEF LeaveOK, Reading, Choosing, Staging
  <2> QED BY <1>1, <2>2, <2>4, OneLeaves
<1>6. CASE CompactSelect(p)
  <2>1. PICK R : R = Hot(d.records, "record")
    OBVIOUS
  <2>2. PICK gone : gone = Candidates(R, pins, day)
    OBVIOUS
  <2>3. PICK todo : todo = (R \ gone) \cup
                             {x \in Hot(d.events, "event") : Info[x].target \in R \ gone}
    OBVIOUS
  <2>4. /\ d.pc = "select"
        /\ \/ call' = [call EXCEPT ![p] = Idle]
           \/ call' = [call EXCEPT ![p].pc = "archive", ![p].todo = todo]
    BY <1>3, <1>6, <2>1, <2>2, <2>3 DEF CompactSelect, Return
  <2>5. CASE call' = [call EXCEPT ![p] = Idle]
    <3>1. LeaveOK(Idle)'
      BY DEF LeaveOK, Idle, Reading, Choosing, Staging
    <3> QED BY <1>1, <2>5, <3>1, OneLeaves
  <2>6. CASE call' = [call EXCEPT ![p].pc = "archive", ![p].todo = todo]
    <3>1. PICK c : c = [d EXCEPT !.pc = "archive", !.todo = todo]
      OBVIOUS
    <3>2. call' = [call EXCEPT ![p] = c]
      BY <1>3, <2>6, <3>1
    <3>3. c.pc = "archive" /\ c.todo = todo /\ c.records = d.records
      BY <1>2, <1>3, <3>1 DEF Calls
    <3>4. \A x \in R \ todo : MayLeave(x, R)
      BY <1>2, <2>2, <2>3 DEF Candidates, MayLeave
    <3>5. \A x \in R \ todo : MayLeave(x, R)'
      BY <1>1, <3>4 DEF MayLeave
    <3>6. Hot(ledger', "record") \ raced' \subseteq R
      BY <1>1, <1>2, <1>3, <2>1, <2>4 DEF LeaveOK, Reading
    <3>7. LeaveOK(c)'
      BY <2>1, <3>3, <3>5, <3>6 DEF LeaveOK, Staging
    <3> QED BY <1>1, <3>2, <3>7, OneLeaves
  <2> QED BY <2>4, <2>5, <2>6
<1>7. CASE CompactArchive(p)
  <2>1. PICK c : c = [d EXCEPT !.pc = "stage", !.archive = Len(archives) + 1]
    OBVIOUS
  <2>2. call' = [call EXCEPT ![p] = c] /\ d.pc = "archive"
    BY <1>3, <1>7, <2>1 DEF CompactArchive
  <2>3. c.pc = "stage" /\ c.records = d.records /\ c.todo = d.todo
    BY <1>2, <1>3, <2>1 DEF Calls
  <2>4. PICK R : R = Hot(d.records, "record")
    OBVIOUS
  <2>5. \A x \in R \ c.todo : MayLeave(x, R)
    BY <1>2, <1>3, <2>2, <2>3, <2>4 DEF LeaveOK, Choosing
  <2>6. \A x \in R \ c.todo : MayLeave(x, R)'
    BY <1>1, <2>5 DEF MayLeave
  <2>7. Hot(ledger', "record") \ raced' \subseteq R
    BY <1>1, <1>2, <1>3, <2>2, <2>4 DEF LeaveOK, Choosing
  <2>8. LeaveOK(c)'
    BY <2>3, <2>4, <2>6, <2>7 DEF LeaveOK, Staging
  <2> QED BY <1>1, <2>2, <2>8, OneLeaves
<1> QED BY <1>4, <1>5, <1>6, <1>7

\* The staging store is made and filled.
LEMMA StageLeaves ==
    ASSUME OneCompactor, LeaveInv, FileInv', NEW p \in Compactors, CompactStage(p) \/ CompactFill(p)
    PROVE  LeaveInv'
<1>1. UNCHANGED <<ledger, pins, pinned, raced, day>>
  BY DEF CompactStage, CompactFill, hotVars, historyVars
<1>2. PICK d : d = call[p]
  OBVIOUS
<1>3. CallOK(p, d) /\ d \in Calls /\ LeaveOK(d)
  BY <1>2 DEF LeaveInv, FileInv, CallOK, Processes
<1>4. PICK R : R = Hot(d.records, "record") /\ R \subseteq RecordIds
  BY <1>3, HotTypes DEF Calls
<1>5. \A x : MayLeave(x, R) => MayLeave(x, R)'
  BY <1>1 DEF MayLeave
<1>6. CASE CompactStage(p)
  <2>1. PICK c : c = [d EXCEPT !.pc = "fill"]
    OBVIOUS
  <2>2. /\ call' = [call EXCEPT ![p] = c] /\ d.pc = "stage"
        /\ staging' = [rows |-> <<SnapshotRow(d.archive)>>, record |-> {}, event |-> {}]
    BY <1>2, <1>6, <2>1 DEF CompactStage, Goto
  <2>3. c.pc = "fill" /\ c.records = d.records /\ c.todo = d.todo
    BY <1>3, <2>1 DEF Calls
  <2>4. staging' \in Stagings /\ staging'.record = {}
    <3>1. SnapshotRow(d.archive) \in Rows
      BY <1>3, RowTypes DEF Calls
    <3>2. <<SnapshotRow(d.archive)>> \in Seq(Rows)
      BY <3>1
    <3> QED BY <2>2, <3>2 DEF Stagings
  <2>5. \A x \in R \ (c.todo \cup staging'.record) : MayLeave(x, R)'
    BY <1>3, <1>4, <1>5, <2>2, <2>3, <2>4 DEF LeaveOK, Choosing
  <2>6. Hot(ledger', "record") \ raced' \subseteq R
    BY <1>1, <1>3, <1>4, <2>2 DEF LeaveOK, Choosing
  <2>7. LeaveOK(c)'
    BY <1>4, <2>3, <2>4, <2>5, <2>6 DEF LeaveOK, Choosing
  <2> QED BY <1>1, <2>2, <2>7, OneLeaves
<1>7. CASE CompactFill(p)
  <2>1. PICK x : x = NextOf(d)
    OBVIOUS
  <2>2. d.pc = "fill" /\ d.todo # {}
    BY <1>2, <1>7 DEF CompactFill
  <2>3. x \in d.todo /\ x \in Entries
    BY <1>3, <2>1, <2>2, NextIsLeft
  <2>4. /\ staging \in Stagings /\ staging.record \subseteq Hot(staging.rows, "record")
        /\ \A y \in R \ (d.todo \cup staging.record) : MayLeave(y, R)
        /\ Hot(ledger', "record") \ raced' \subseteq R
    BY <1>1, <1>3, <1>4, <2>2 DEF LeaveOK, Staging
  <2>5. CASE call' = [call EXCEPT ![p] = Idle]
    <3>1. LeaveOK(Idle)'
      BY DEF LeaveOK, Idle, Reading, Choosing, Staging
    <3> QED BY <1>1, <2>5, <3>1, OneLeaves
  <2>6. CASE /\ call' = [call EXCEPT ![p].todo = @ \ {x}]
             /\ staging' = IF x \in staging[Info[x].type] THEN staging
                           ELSE [staging EXCEPT !.rows = Append(@, Row(x)),
                                                ![Info[x].type] = @ \cup {x}]
    <3>1. PICK c : c = [d EXCEPT !.todo = @ \ {x}]
      OBVIOUS
    <3>2. call' = [call EXCEPT ![p] = c]
      BY <1>2, <2>6, <3>1
    <3>3. c.pc = "fill" /\ c.records = d.records /\ c.todo = d.todo \ {x}
      BY <1>3, <2>2, <3>1 DEF Calls
    <3>4. /\ staging' \in Stagings
          /\ staging'.record \subseteq Hot(staging'.rows, "record")
          /\ staging.record \subseteq staging'.record
          /\ Info[x].type = "record" => x \in staging'.record
      <4>0. /\ Row(x) \in Rows /\ Row(x).of = x /\ Row(x).type = Info[x].type
            /\ Info[x].type \in {"record", "event"}
        BY <2>3, RowTypes
      <4>1. CASE x \in staging[Info[x].type]
        BY <2>4, <2>6, <4>1
      <4>2. CASE x \notin staging[Info[x].type] /\ Info[x].type = "record"
        <5>1. PICK rows : rows = Append(staging.rows, Row(x))
          OBVIOUS
        <5>2. staging' = [staging EXCEPT !.rows = rows, !.record = @ \cup {x}]
          BY <2>6, <4>2, <5>1
        <5>3. rows \in Seq(Rows) /\ Hot(rows, "record") = Hot(staging.rows, "record") \cup {x}
          BY <2>4, <4>0, <4>2, <5>1, HotAppend DEF Stagings
        <5>4. /\ staging'.rows = rows /\ staging'.record = staging.record \cup {x}
              /\ staging' \in Stagings
          BY <2>3, <2>4, <5>2, <5>3 DEF Stagings
        <5> QED BY <2>4, <5>3, <5>4
      <4>3. CASE x \notin staging[Info[x].type] /\ Info[x].type = "event"
        <5>1. PICK rows : rows = Append(staging.rows, Row(x))
          OBVIOUS
        <5>2. staging' = [staging EXCEPT !.rows = rows, !.event = @ \cup {x}]
          BY <2>6, <4>3, <5>1
        <5>3. rows \in Seq(Rows) /\ Hot(rows, "record") = Hot(staging.rows, "record")
          BY <2>4, <4>0, <4>3, <5>1, HotAppend DEF Stagings
        <5>4. /\ staging'.rows = rows /\ staging'.record = staging.record
              /\ staging' \in Stagings
          BY <2>3, <2>4, <5>2, <5>3 DEF Stagings
        <5> QED BY <2>4, <4>3, <5>3, <5>4
      <4> QED BY <4>0, <4>1, <4>2, <4>3
    <3>5. x \in R => x \in staging'.record
      BY <1>4, <3>4 DEF RecordIds
    <3>6. \A y \in R \ (c.todo \cup staging'.record) : MayLeave(y, R)'
      BY <1>5, <2>4, <3>3, <3>4, <3>5
    <3>7. LeaveOK(c)'
      BY <1>4, <2>4, <3>3, <3>4, <3>6 DEF LeaveOK, Choosing
    <3> QED BY <1>1, <3>2, <3>7, OneLeaves
  <2> QED BY <1>2, <1>7, <2>1, <2>5, <2>6 DEF CompactFill, Return
<1> QED BY <1>6, <1>7

\* install_generation: only the replacement of the ledger matters.
LEMMA InstallLeaves ==
    ASSUME OneCompactor, LeaveInv, FileInv', NEW p \in Compactors,
           InstallStart(p) \/ InstallLedger(p) \/ InstallRemove(p) \/ InstallMove(p)
    PROVE  LeaveInv'
<1>1. UNCHANGED <<pins, pinned, raced, day>>
  BY DEF InstallStart, InstallLedger, InstallRemove, InstallMove, historyVars
<1>2. PICK d : d = call[p]
  OBVIOUS
<1>3. d \in Calls /\ LeaveOK(d)
  BY <1>2 DEF LeaveInv, FileInv, CallOK, Processes
<1>4. CASE call' = [call EXCEPT ![p] = Idle]
  <2>1. LeaveOK(Idle)'
    BY DEF LeaveOK, Idle, Reading, Choosing, Staging
  <2> QED BY <1>1, <1>4, <2>1, OneLeaves
<1>5. ASSUME NEW l \in {"record", "move record", "event", "move event"}, Goto(p, l)
      PROVE  LeaveInv'
  <2>1. PICK c : c = [d EXCEPT !.pc = l]
    OBVIOUS
  <2>2. call' = [call EXCEPT ![p] = c] /\ c.pc = l
    BY <1>2, <1>3, <1>5, <2>1 DEF Goto, Calls
  <2>3. LeaveOK(c)'
    BY <2>2 DEF LeaveOK, Reading, Choosing, Staging
  <2> QED BY <1>1, <2>2, <2>3, OneLeaves
<1>6. CASE InstallStart(p) /\ Goto(p, "ledger")
  <2>1. PICK c : c = [d EXCEPT !.pc = "ledger"]
    OBVIOUS
  <2>2. /\ call' = [call EXCEPT ![p] = c] /\ d.pc = "fill" /\ d.todo = {}
        /\ UNCHANGED <<ledger, staging>>
    BY <1>2, <1>6, <2>1 DEF Goto, InstallStart, hotVars
  <2>3. c.pc = "ledger" /\ c.records = d.records /\ c.todo = {}
    BY <1>3, <2>1, <2>2 DEF Calls
  <2>4. PICK R : R = Hot(d.records, "record")
    OBVIOUS
  <2>5. \A x : MayLeave(x, R) => MayLeave(x, R)'
    BY <1>1 DEF MayLeave
  <2>6. /\ staging \in Stagings /\ staging.record \subseteq Hot(staging.rows, "record")
        /\ \A y \in R \ (d.todo \cup staging.record) : MayLeave(y, R)
        /\ Hot(ledger', "record") \ raced' \subseteq R
    BY <1>1, <1>3, <2>2, <2>4 DEF LeaveOK, Staging
  <2>7. LeaveOK(c)'
    BY <2>2, <2>3, <2>4, <2>5, <2>6 DEF LeaveOK, Choosing
  <2> QED BY <1>1, <2>2, <2>7, OneLeaves
<1> QED BY <1>4, <1>5, <1>6 DEF InstallStart, InstallLedger, InstallRemove, InstallMove, Return

LEMMA LeaveStep ==
    ASSUME OneCompactor, OnePinner
    PROVE  LeaveInv /\ [Next]_vars => LeaveInv'
<1> SUFFICES ASSUME LeaveInv, [Next]_vars PROVE LeaveInv'
  OBVIOUS
<1>1. FileInv /\ FileInv'
  BY FileStep DEF LeaveInv
<1>2. ASSUME NEW x \in Entries, Add(x) PROVE LeaveInv'
  BY <1>1, <1>2, AddLeaves
<1>3. ASSUME NEW p \in Pinners,
             PinWrite(p) \/ \E x \in RecordIds, op \in {"pin", "unpin"} : PinRead(p, x, op)
      PROVE  LeaveInv'
  BY <1>1, <1>3, PinLeaves
<1>4. ASSUME NEW p \in Compactors, Compact(p) PROVE LeaveInv'
  BY <1>1, <1>4, ChooseLeaves, StageLeaves, InstallLeaves DEF Compact
<1>5. ASSUME NEW p \in Processes, Crash(p) PROVE LeaveInv'
  <2>1. /\ call' = [call EXCEPT ![p] = Idle]
        /\ UNCHANGED <<ledger, staging, pins, pinned, raced, day>>
    BY <1>5 DEF Crash, Return, hotVars, historyVars
  <2>2. CASE p \in Compactors
    <3>1. LeaveOK(Idle)'
      BY DEF LeaveOK, Idle, Reading, Choosing, Staging
    <3> QED BY <1>1, <2>1, <2>2, <3>1, OneLeaves
  <2>3. CASE p \notin Compactors
    <3>1. \A q \in Processes : call'[q] = call[q] \/ (q = p /\ call'[q].pc = "idle")
      BY <1>1, <2>1 DEF FileInv, Idle
    <3>2. PinsInv' /\ day' \in Nat /\ day <= day'
      BY <2>1, <3>1 DEF LeaveInv, PinsInv, Processes
    <3>3. \A q \in Compactors : call'[q] = call[q]
      BY <2>3, <3>1 DEF Processes
    <3> QED BY <1>1, <2>1, <3>2, <3>3, OtherLeaves
  <2> QED BY <2>2, <2>3
<1>6. CASE SyncSince \/ UNCHANGED vars
  <2>1. UNCHANGED <<ledger, staging, pins, pinned, raced, call, day>>
    BY <1>6 DEF SyncSince, vars, hotVars, historyVars
  <2>2. PinsInv' /\ day' \in Nat /\ day <= day'
    BY <2>1 DEF LeaveInv, PinsInv
  <2> QED BY <1>1, <2>1, <2>2, OtherLeaves
<1>7. CASE Tick
  <2>1. UNCHANGED <<ledger, staging, pins, pinned, raced, call>> /\ day' = day + 1
    BY <1>7 DEF Tick, hotVars, historyVars
  <2>2. PinsInv' /\ day' \in Nat /\ day <= day'
    BY <2>1 DEF LeaveInv, PinsInv
  <2> QED BY <1>1, <2>1, <2>2, OtherLeaves
<1> QED BY <1>2, <1>3, <1>4, <1>5, <1>6, <1>7 DEF Next

LEMMA LeaveInit == Init => LeaveInv
<1> SUFFICES ASSUME Init PROVE LeaveInv
  OBVIOUS
<1>1. \A p \in Processes : call[p].pc = "idle"
  BY DEF Init, Idle
<1>2. PinsInv /\ day \in Nat
  BY <1>1 DEF Init, PinsInv, Processes
<1>3. \A p \in Compactors : LeaveOK(call[p])
  BY <1>1 DEF LeaveOK, Reading, Choosing, Staging, Processes
<1> QED BY <1>2, <1>3, FileInit DEF LeaveInv

\* The replacement of the ledger lets go only of what may leave; no other step lets
\* go of anything.
LeaveAction ==
    \A x \in Hot(ledger, "record") \ (Hot(ledger', "record") \cup raced) :
          /\ Expired(x, day)
          /\ x \notin pinned
          /\ LET records == Hot(ledger, "record") \ raced
             IN  \E named \in SUBSET (records \ {x}) :
                    \A y \in records :
                        /\ ClassifyRecord(y) = "canonical" => y \in named
                        /\ y \in named => ReferencedDigests(y) \cap records \subseteq named

LEMMA OnlyInstallRemoves ==
    ASSUME FileInv, [Next]_vars, NEW x \in Hot(ledger, "record"), x \notin Hot(ledger', "record")
    PROVE  \E p \in Compactors : InstallLedger(p)
<1> SUFFICES ASSUME ~\E p \in Compactors : InstallLedger(p) PROVE FALSE
  OBVIOUS
<1>1. CASE UNCHANGED ledger
  BY <1>1
<1>2. ASSUME NEW y \in Entries, Add(y) PROVE FALSE
  <2>1. ledger' = Append(ledger, Row(y)) /\ ledger \in Seq(Rows) /\ Row(y) \in Rows
    BY <1>2, RowTypes DEF Add, FileInv
  <2> QED BY <2>1, HotAppend
<1>3. ASSUME NEW p, PinWrite(p) \/ \E y \in RecordIds, op \in {"pin", "unpin"} : PinRead(p, y, op)
      PROVE  UNCHANGED ledger
  BY <1>3 DEF PinWrite, PinRead, hotVars
<1>4. ASSUME NEW p \in Compactors, Compact(p) PROVE UNCHANGED ledger
  BY <1>4 DEF Compact, CompactRecords, CompactEvents, CompactSelect, CompactArchive, CompactStage,
     CompactFill, InstallStart, InstallRemove, InstallMove, hotVars
<1>5. ASSUME NEW p, Crash(p) PROVE UNCHANGED ledger
  BY <1>5 DEF Crash, hotVars
<1>6. CASE SyncSince \/ Tick \/ UNCHANGED vars
  BY <1>1, <1>6 DEF SyncSince, Tick, vars, hotVars
<1> QED BY <1>1, <1>2, <1>3, <1>4, <1>5, <1>6 DEF Next

LEMMA LeavesRightly == LeaveInv /\ [Next]_vars => LeaveAction
<1> SUFFICES ASSUME LeaveInv, [Next]_vars,
                    NEW x \in Hot(ledger, "record") \ (Hot(ledger', "record") \cup raced)
             PROVE  /\ Expired(x, day)
                    /\ x \notin pinned
                    /\ \E named \in SUBSET ((Hot(ledger, "record") \ raced) \ {x}) :
                          \A y \in Hot(ledger, "record") \ raced :
                             /\ ClassifyRecord(y) = "canonical" => y \in named
                             /\ y \in named =>
                                  ReferencedDigests(y) \cap (Hot(ledger, "record") \ raced)
                                    \subseteq named
  BY DEF LeaveAction
<1>1. PICK p \in Compactors : InstallLedger(p)
  BY OnlyInstallRemoves DEF LeaveInv
<1>2. PICK d : d = call[p]
  OBVIOUS
<1>3. d \in Calls /\ LeaveOK(d) /\ d.pc = "ledger" /\ ledger' = staging.rows
  BY <1>1, <1>2 DEF LeaveInv, FileInv, CallOK, Processes, InstallLedger
<1>4. PICK R : R = Hot(d.records, "record")
  OBVIOUS
<1>5. PICK records : records = Hot(ledger, "record") \ raced
  OBVIOUS
<1>6. /\ records \subseteq R /\ staging.record \subseteq Hot(staging.rows, "record")
      /\ \A y \in R \ staging.record : MayLeave(y, R)
  BY <1>3, <1>4, <1>5 DEF LeaveOK, Staging
<1>7. MayLeave(x, R) /\ x \in records
  BY <1>3, <1>5, <1>6
<1>8. IsFiniteSet(R)
  BY <1>3, <1>4, HotFinite DEF Calls
<1>9. PICK graph : graph = ProtectionGraph(R)
  OBVIOUS
<1>10. Canonical(R) \subseteq graph /\ ClosedIn(graph, R)
  BY <1>8, <1>9, GraphClosed
<1>11. PICK named : named = graph \cap records
  OBVIOUS
<1>12. named \in SUBSET (records \ {x})
  BY <1>7, <1>9, <1>11 DEF MayLeave
<1>13. \A y \in records : /\ ClassifyRecord(y) = "canonical" => y \in named
                          /\ y \in named => ReferencedDigests(y) \cap records \subseteq named
  BY <1>6, <1>10, <1>11 DEF Canonical, ClosedIn
<1>14. Expired(x, day) /\ x \notin pinned
  BY <1>5, <1>7 DEF MayLeave
<1> QED BY <1>5, <1>12, <1>13, <1>14

\* "Pins and reference protection override TTL" (docs/INFORMATION_LIFECYCLE.md): with
\* one compactor and one operator who pins, beside any number of writers and crashes,
\* a record leaves the hot ledger only when it has expired, is not pinned and is out of
\* reach of every canonical record; what arrived beside the compaction is excepted.
THEOREM OnlyExpiredEverLeave ==
    ASSUME OneCompactor, OnePinner
    PROVE  Spec => OnlyExpiredLeave
<1>1. LeaveInv /\ [Next]_vars => LeaveInv'
  BY LeaveStep
<1>2. LeaveInv /\ [Next]_vars => [LeaveAction]_vars
  BY LeavesRightly
<1>3. Spec => [][LeaveAction]_vars
  BY <1>1, <1>2, LeaveInit, PTL DEF Spec
<1> QED BY <1>3 DEF OnlyExpiredLeave, LeaveAction

-----------------------------------------------------------------------------
\* Cursors.

\* The rows that the digest of the cursor stands for were seen.
CursorInv ==
    /\ FileInv
    /\ consumer.digest \in Seq(Rows) /\ consumer.sequence = Len(consumer.digest)
    /\ \A i \in 1..Len(consumer.digest) : consumer.digest[i] \in consumer.seen

LEMMA CursorStep == CursorInv /\ [Next]_vars => CursorInv'
<1> SUFFICES ASSUME CursorInv, [Next]_vars PROVE CursorInv'
  OBVIOUS
<1>1. FileInv /\ FileInv'
  BY FileStep DEF CursorInv
<1>2. CASE UNCHANGED consumer
  BY <1>1, <1>2 DEF CursorInv
<1>3. CASE SyncSince
  <2>1. CASE consumer' = [sequence |-> 0, digest |-> <<>>, seen |-> {}]
    BY <1>1, <2>1 DEF CursorInv
  <2>2. CASE CursorFits(consumer)
    <3>1. PICK n : n = consumer.sequence + 1
      OBVIOUS
    <3>2. PICK d : d = SubSeq(ledger, 1, n)
      OBVIOUS
    <3>3. /\ consumer.sequence < Len(ledger)
          /\ consumer' = [sequence |-> n, digest |-> d, seen |-> consumer.seen \cup {ledger[n]}]
      BY <1>3, <2>2, <3>1, <3>2 DEF SyncSince, DigestAt
    <3>4. ledger \in Seq(Rows) /\ Len(ledger) \in Nat /\ consumer.sequence \in Nat
      BY <1>1 DEF FileInv, CursorInv
    <3>5. d \in Seq(Rows) /\ Len(d) = n /\ \A i \in 1..n : d[i] = ledger[i]
      <4>1. n \in 1..Len(ledger)
        BY <3>1, <3>3, <3>4
      <4> QED BY <3>2, <3>4, <4>1
    <3>6. \A i \in 1..consumer.sequence : ledger[i] \in consumer.seen
      <4>1. SubSeq(ledger, 1, consumer.sequence) = consumer.digest
        BY <2>2 DEF CursorFits, DigestAt
      <4>2. \A i \in 1..consumer.sequence : ledger[i] = consumer.digest[i]
        BY <3>3, <3>4, <4>1
      <4> QED BY <4>2 DEF CursorInv
    <3>7. \A i \in 1..n : i \in 1..consumer.sequence \/ i = n
      BY <3>1, <3>4
    <3>8. \A i \in 1..n : d[i] \in consumer.seen \cup {ledger[n]}
      BY <3>5, <3>6, <3>7, SMTT(40)
    <3> QED BY <1>1, <3>3, <3>5, <3>8 DEF CursorInv
  <2> QED BY <1>3, <2>1, <2>2 DEF SyncSince
<1>4. ASSUME NEW p, PinWrite(p) \/ \E x \in RecordIds, op \in {"pin", "unpin"} : PinRead(p, x, op)
      PROVE  UNCHANGED consumer
  BY <1>4 DEF PinWrite, PinRead
<1>5. ASSUME NEW p, Compact(p) PROVE UNCHANGED consumer
  BY <1>5 DEF Compact, CompactRecords, CompactEvents, CompactSelect, CompactArchive, CompactStage,
     CompactFill, InstallStart, InstallLedger, InstallRemove, InstallMove
<1>6. ASSUME NEW p, Crash(p) PROVE UNCHANGED consumer
  BY <1>6 DEF Crash
<1>7. ASSUME NEW x, Add(x) PROVE UNCHANGED consumer
  BY <1>7 DEF Add
<1>8. CASE Tick \/ UNCHANGED vars
  BY <1>2, <1>8 DEF Tick, vars
<1> QED BY <1>2, <1>3, <1>4, <1>5, <1>6, <1>7, <1>8 DEF Next

\* sync_since, "Read an ordered ledger slice without skipping entries": a cursor that
\* is accepted comes after rows that its holder was sent, whatever generations were
\* installed since and whatever their lengths, by any number of compactors.
THEOREM CursorsSkipNothing == Spec => []SyncSkipsNothing
<1>1. Init => CursorInv
  BY FileInit DEF Init, CursorInv
<1>2. CursorInv => SyncSkipsNothing
  <2> SUFFICES ASSUME CursorInv, CursorFits(consumer), NEW i \in 1..consumer.sequence
               PROVE  ledger[i] \in consumer.seen
    BY DEF SyncSkipsNothing
  <2>1. /\ ledger \in Seq(Rows) /\ consumer.sequence \in Nat /\ consumer.sequence <= Len(ledger)
        /\ SubSeq(ledger, 1, consumer.sequence) = consumer.digest
    BY DEF CursorInv, FileInv, CursorFits, DigestAt
  <2>2. ledger[i] = consumer.digest[i]
    BY <2>1
  <2> QED BY <2>2 DEF CursorInv
<1> QED BY <1>1, <1>2, CursorStep, PTL DEF Spec
=============================================================================
