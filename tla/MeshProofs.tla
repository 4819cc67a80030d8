----------------------------- MODULE MeshProofs -----------------------------
(***************************************************************************)
(* Proofs about the mesh, for any nodes, links, records, interests and     *)
(* limits, and any number of faults.                                       *)
(*                                                                         *)
(* The argument is that stores only grow.  What a call took from a peer,   *)
(* or selected for one, is still held by the node it came from when it is  *)
(* marked, however stale the state file is that the mark is written into,  *)
(* and what is in its hands after a fetch is a record, never an event.     *)
(***************************************************************************)
EXTENDS Mesh, FiniteSetTheorems, WellFoundedInduction, TLAPS

CallFields == {"pc", "carrier", "remote", "batch", "seen"}

Pulling == {"pull", "mark", "save"}
Pushing == {"push", "push mark", "push save"}

\* A table of the relay within its limit.
Few(ds) == IsFiniteSet(ds) /\ Cardinality(ds) <= RelayLimit

\* The origin marks of a node, as they are in its state file or in the hands of a
\* call that is about to write it, are true.
Marks(n, marks) ==
    /\ DOMAIN marks = Digests
    /\ \A d \in Digests :
          /\ marks[d] = "local" => d \in Produced[n]
          /\ marks[d] \in Nodes => marks[d] # n /\ d \in Held(marks[d])

\* What holds of the call c of a node.
CallOK(n, c) ==
    /\ DOMAIN c = CallFields
    /\ c.batch \subseteq Digests
    /\ c.pc # "fetch" => c.batch \subseteq RecordsD
    /\ c.pc = "fetch" => <<n, c.carrier>> \in Links /\ (c.carrier = "bundle" => bundle # NoBundle)
    /\ c.pc \in Pulling =>
          /\ <<n, c.carrier>> \in Links \/ (c.carrier = "local" /\ c.pc # "pull")
          /\ c.carrier \in Nodes => c.batch \subseteq Held(c.carrier)
          /\ c.carrier = "local" => c.batch \subseteq Produced[n]
    /\ c.pc \in Pushing =>
          /\ <<n, c.carrier>> \in Links /\ c.carrier \in Nodes
          /\ c.batch \subseteq Held(n)
    /\ c.pc \in {"offer", "offer save"} => c.carrier = "relay"
    /\ c.pc \in {"mark", "save", "push mark", "push save", "offer save"} => c.batch # {}
    /\ c.pc = "save" => Marks(n, c.seen)
    /\ c.pc = "push save" => Marks(c.carrier, c.seen)
    /\ c.pc = "offer save" => Few(c.seen) /\ c.seen \subseteq RecordsD

CallsOK == DOMAIN call = Nodes /\ \A n \in Nodes : CallOK(n, call[n])

StoresOK ==
    /\ DOMAIN store = Nodes
    /\ \A n \in Nodes : /\ store[n] \in Seq(Digests)
                        /\ \A i, j \in 1..Len(store[n]) : store[n][i] = store[n][j] => i = j

MarksOK == DOMAIN origins = Nodes /\ \A n \in Nodes : Marks(n, origins[n])

RelayOK ==
    /\ DOMAIN relay = {"records", "capsules"}
    /\ Few(relay.records) /\ relay.records \subseteq RecordsD
    /\ Few(relay.capsules) /\ relay.capsules \subseteq Announced

FaultsOK == faults \in Nat /\ faults <= MaxFaults

BundleOK == bundle = NoBundle \/ bundle \subseteq Digests

\* The inductive invariant.
MeshInv == StoresOK /\ MarksOK /\ RelayOK /\ BundleOK /\ CallsOK /\ FaultsOK

\* What every step does to the stores and the bundle file.
Grows ==
    /\ \A m \in Nodes : Held(m) \subseteq Held(m)'
    /\ bundle # NoBundle => bundle' # NoBundle

-----------------------------------------------------------------------------
\* Stores.

\* A nonempty set of numbers has a smallest one.
LEMMA SmallestIn ==
    ASSUME NEW S, S \subseteq Nat, S # {}
    PROVE  \E m \in S : \A n \in S : m <= n
<1> DEFINE R == {ss \in Nat \X Nat : ss[1] < ss[2]}
<1>1. IsWellFoundedOn(R, Nat)
  BY NatLessThanWellFounded DEF OpToRel
<1> HIDE DEF R
<1>2. PICK m \in S : \A n \in S : <<n, m>> \notin R
  BY <1>1, WFMin
<1>3. \A n \in S : ~(n < m)
  BY <1>2 DEF R
<1> QED BY <1>3

LEMMA HeldType == ASSUME StoresOK PROVE \A n \in Nodes : Held(n) \subseteq Digests
BY DEF StoresOK, Held

\* A digest that was not held is added to a ledger.
LEMMA AddDigest ==
    ASSUME StoresOK, NEW r \in Nodes, NEW d \in Digests, d \notin Held(r),
           store' = [store EXCEPT ![r] = Append(store[r], d)]
    PROVE  /\ StoresOK'
           /\ \A m \in Nodes : Held(m)' = IF m = r THEN Held(r) \cup {d} ELSE Held(m)
<1>1. PICK old : old = store[r]
  OBVIOUS
<1>2. PICK new : new = Append(old, d)
  OBVIOUS
<1>3. /\ old \in Seq(Digests) /\ Len(old) \in Nat
      /\ new \in Seq(Digests) /\ Len(new) = Len(old) + 1
      /\ \A i \in 1..Len(old) : new[i] = old[i]
      /\ new[Len(old) + 1] = d
  BY <1>1, <1>2 DEF StoresOK
<1>4. /\ DOMAIN store' = Nodes /\ store'[r] = new
      /\ \A m \in Nodes : m # r => store'[m] = store[m]
  BY <1>1, <1>2 DEF StoresOK
<1>5. \A i \in 1..Len(old) : old[i] # d
  BY <1>1 DEF Held
<1>6. \A i, j \in 1..Len(new) : new[i] = new[j] => i = j
  <2> SUFFICES ASSUME NEW i \in 1..Len(new), NEW j \in 1..Len(new), new[i] = new[j]
               PROVE  i = j
    OBVIOUS
  <2>1. \A h, k \in 1..Len(old) : old[h] = old[k] => h = k
    BY <1>1 DEF StoresOK
  <2>2. (i \in 1..Len(old) \/ i = Len(old) + 1) /\ (j \in 1..Len(old) \/ j = Len(old) + 1)
    BY <1>3
  <2> QED BY <1>3, <1>5, <2>1, <2>2
<1>7. {new[i] : i \in 1..Len(new)} = {old[i] : i \in 1..Len(old)} \cup {d}
  <2>1. \A i \in 1..Len(new) : i \in 1..Len(old) \/ i = Len(old) + 1
    BY <1>3
  <2>2. Len(old) + 1 \in 1..Len(new) /\ \A i \in 1..Len(old) : i \in 1..Len(new)
    BY <1>3
  <2> QED BY <1>3, <2>1, <2>2
<1>8. StoresOK'
  <2> SUFFICES ASSUME NEW m \in Nodes
               PROVE  /\ store'[m] \in Seq(Digests)
                      /\ \A i, j \in 1..Len(store'[m]) : store'[m][i] = store'[m][j] => i = j
    BY <1>4 DEF StoresOK
  <2>1. CASE m = r
    <3>1. store'[m] = new
      BY <1>4, <2>1
    <3> DEFINE Ledger(s) == s \in Seq(Digests) /\ \A i, j \in 1..Len(s) : s[i] = s[j] => i = j
    <3>2. Ledger(new)
      BY <1>3, <1>6
    <3> HIDE DEF Ledger
    <3>3. Ledger(store'[m])
      BY <3>1, <3>2
    <3> QED BY <3>3 DEF Ledger
  <2>2. CASE m # r
    <3>1. store'[m] = store[m]
      BY <1>4, <2>2
    <3> QED BY <3>1 DEF StoresOK
  <2> QED BY <2>1, <2>2
<1>9. Held(r)' = Held(r) \cup {d}
  BY <1>1, <1>4, <1>7 DEF Held
<1>10. \A m \in Nodes : m # r => Held(m)' = Held(m)
  BY <1>4 DEF Held
<1> QED BY <1>8, <1>9, <1>10

LEMMA MarksStay ==
    ASSUME Grows, NEW n, NEW marks, Marks(n, marks) PROVE Marks(n, marks)'
BY DEF Grows, Marks

-----------------------------------------------------------------------------
\* Calls.

LEMMA LinkTypes ==
    \A n \in Nodes : \A c : <<n, c>> \in Links =>
        c \in Nodes \cup {"relay", "bundle"} /\ c # n /\ c # "local"
BY MeshAssumption

LEMMA IdleOK == \A n \in Nodes : CallOK(n, NoCall)
BY DEF CallOK, NoCall, CallFields, Pulling, Pushing

\* What holds of a call stays true while others go on.
LEMMA StillOK ==
    ASSUME Grows, NEW n \in Nodes, NEW c, CallOK(n, c) PROVE CallOK(n, c)'
<1>2. \A m, marks : Marks(m, marks) => Marks(m, marks)'
  BY MarksStay
<1>3. \A m \in Nodes : Held(m) \subseteq Held(m)'
  BY DEF Grows
<1>4. bundle # NoBundle => bundle' # NoBundle
  BY DEF Grows
<1> QED BY <1>2, <1>3, <1>4 DEF CallOK, Few

\* One call goes on, the others stay.
LEMMA CallsGoOn ==
    ASSUME CallsOK, Grows, NEW n \in Nodes, NEW c, CallOK(n, c)',
           call' = [call EXCEPT ![n] = c]
    PROVE  CallsOK'
<1>1. DOMAIN call' = Nodes /\ call'[n] = c /\ \A m \in Nodes : m # n => call'[m] = call[m]
  BY DEF CallsOK
<1>2. \A m \in Nodes : CallOK(m, call[m])'
  <2> SUFFICES ASSUME NEW m \in Nodes PROVE CallOK(m, call[m])'
    OBVIOUS
  <2>1. CASE m = n
    BY <1>1, <2>1 DEF CallOK
  <2>2. CASE m # n
    <3>1. PICK e : e = call[m]
      OBVIOUS
    <3>2. CallOK(m, e)
      BY <3>1 DEF CallsOK
    <3>3. CallOK(m, e)'
      BY <3>2, StillOK
    <3> QED BY <1>1, <2>2, <3>1, <3>3 DEF CallOK
  <2> QED BY <2>1, <2>2
<1> QED BY <1>1, <1>2 DEF CallsOK

\* A step that leaves the stores and the bundle file alone.
LEMMA QuietStep ==
    ASSUME MeshInv, store' = store, bundle' = bundle, NEW n \in Nodes, NEW c, CallOK(n, c),
           call' = [call EXCEPT ![n] = c], MarksOK', RelayOK', FaultsOK'
    PROVE  MeshInv'
<1>1. Grows
  BY DEF Grows, Held
<1>2. CallOK(n, c)'
  BY <1>1, StillOK
<1>3. CallsOK'
  BY <1>1, <1>2, CallsGoOn DEF MeshInv
<1>4. StoresOK' /\ BundleOK'
  BY DEF MeshInv, StoresOK, BundleOK
<1> QED BY <1>3, <1>4 DEF MeshInv

\* Parts that a step leaves alone.
LEMMA PartsStay ==
    ASSUME MeshInv, Grows
    PROVE  /\ origins' = origins => MarksOK'
           /\ relay' = relay => RelayOK'
           /\ faults' = faults => FaultsOK'
<1>1. ASSUME origins' = origins PROVE MarksOK'
  <2>1. \A n \in Nodes : Marks(n, origins[n])
    BY DEF MeshInv, MarksOK
  <2>2. \A n \in Nodes : \A marks : Marks(n, marks) => Marks(n, marks)'
    BY MarksStay
  <2>3. ASSUME NEW n \in Nodes PROVE Marks(n, origins[n])'
    <3>1. PICK marks : marks = origins[n]
      OBVIOUS
    <3>2. Marks(n, marks)'
      BY <2>1, <2>2, <3>1
    <3> QED BY <1>1, <3>1, <3>2 DEF Marks
  <2> QED BY <1>1, <2>3 DEF MeshInv, MarksOK
<1>2. relay' = relay => RelayOK'
  BY DEF MeshInv, RelayOK, Few
<1>3. faults' = faults => FaultsOK'
  BY DEF MeshInv, FaultsOK
<1> QED BY <1>1, <1>2, <1>3

\* The place of a digest in a ledger that holds it.
LEMMA PlaceIn ==
    ASSUME NEW ledger \in Seq(Digests), NEW d, \E i \in 1..Len(ledger) : ledger[i] = d
    PROVE  (CHOOSE i \in 1..Len(ledger) : ledger[i] = d) \in Nat
OBVIOUS

\* The next record of a batch is in it.
LEMMA NextIsLeft ==
    ASSUME MeshInv, NEW n \in Nodes, call[n].batch # {},
           call[n].pc \in Pulling \cup Pushing \cup {"offer", "offer save"}
    PROVE  NextOf(n) \in call[n].batch
<1> DEFINE batch == call[n].batch
           c == call[n].carrier
<1>1. CallOK(n, call[n])
  BY DEF MeshInv, CallsOK
<1>2. \A d \in batch : Place(n, d) \in Nat
  <2> SUFFICES ASSUME NEW d \in batch PROVE Place(n, d) \in Nat
    OBVIOUS
  <2>1. d \in Nat
    BY <1>1, MeshAssumption DEF CallOK
  <2>2. CASE Receiver(n) = n /\ c \in Nodes
    <3>1. call[n].pc \in Pulling
      <4>1. call[n].pc \notin Pushing
        BY <1>1, <2>2, LinkTypes DEF CallOK, Receiver, Pushing
      <4>2. call[n].pc \notin {"offer", "offer save"}
        BY <1>1, <2>2, MeshAssumption DEF CallOK
      <4> QED BY <4>1, <4>2
    <3>2. d \in Held(c)
      BY <1>1, <2>2, <3>1 DEF CallOK
    <3>3. \E i \in 1..Len(store[c]) : store[c][i] = d
      BY <3>2 DEF Held
    <3>4. store[c] \in Seq(Digests)
      BY <2>2 DEF MeshInv, StoresOK
    <3>5. Place(n, d) = CHOOSE i \in 1..Len(store[c]) : store[c][i] = d
      BY <2>2 DEF Place
    <3> QED BY <3>3, <3>4, <3>5, PlaceIn
  <2>3. CASE ~(Receiver(n) = n /\ c \in Nodes)
    BY <2>1, <2>3 DEF Place
  <2> QED BY <2>2, <2>3
<1> DEFINE P == {Place(n, d) : d \in batch}
<1>3. P \subseteq Nat /\ P # {}
  BY <1>2
<1>4. PICK m \in P : \A k \in P : m <= k
  BY <1>3, SmallestIn
<1>5. \E d \in batch : \A e \in batch : Place(n, d) <= Place(n, e)
  BY <1>4
<1> QED BY <1>5 DEF NextOf

-----------------------------------------------------------------------------
\* One lemma per operation.

\* publish_local and the events of a node's own domain.
LEMMA LocalKeeps ==
    ASSUME MeshInv, NEW n \in Nodes, NEW d \in Digests, Publish(n, d) \/ AddEvent(n, d)
    PROVE  MeshInv' /\ Grows /\ \A m \in Nodes : Held(m)' \subseteq Held(m) \cup Produced[m]
<1>1. /\ StoresOK /\ CallsOK /\ d \in Produced[n]
      /\ bundle' = bundle /\ origins' = origins /\ relay' = relay /\ faults' = faults
  BY DEF MeshInv, Publish, AddEvent
<1>2. StoresOK' /\ \A m \in Nodes : Held(m)' = IF m = n THEN Held(n) \cup {d} ELSE Held(m)
  <2>1. CASE d \in Held(n)
    <3>1. store' = [store EXCEPT ![n] = store[n]]
      BY <2>1 DEF Publish, AddEvent
    <3>2. DOMAIN store' = Nodes /\ \A m \in Nodes : store'[m] = store[m]
      BY <1>1, <3>1 DEF StoresOK
    <3>3. \A m \in Nodes : Held(m)' = Held(m)
      BY <3>2 DEF Held
    <3>4. StoresOK'
      BY <1>1, <3>2 DEF StoresOK
    <3> QED BY <2>1, <3>3, <3>4
  <2>2. CASE d \notin Held(n)
    <3>1. store' = [store EXCEPT ![n] = Append(store[n], d)]
      BY <2>2 DEF Publish, AddEvent
    <3> QED BY <1>1, <2>2, <3>1, AddDigest
  <2> QED BY <2>1, <2>2
<1>3. Grows
  BY <1>1, <1>2 DEF Grows
<1>4. MarksOK' /\ RelayOK' /\ FaultsOK'
  BY <1>1, <1>3, PartsStay
<1>5. CallsOK'
  <2>1. CASE Publish(n, d)
    <3>1. PICK c : c = [NoCall EXCEPT !.pc = "mark", !.carrier = "local", !.batch = {d}]
      OBVIOUS
    <3>2. DOMAIN c = CallFields /\ c.pc = "mark" /\ c.carrier = "local" /\ c.batch = {d}
      BY <3>1 DEF NoCall, CallFields
    <3>3. CallOK(n, c)
      BY <1>1, <2>1, <3>2, MeshAssumption DEF CallOK, Pulling, Pushing, Publish
    <3>4. CallOK(n, c)'
      BY <1>3, <3>3, StillOK
    <3>5. call' = [call EXCEPT ![n] = c]
      BY <2>1, <3>1 DEF Publish, Set
    <3> QED BY <1>1, <1>3, <3>4, <3>5, CallsGoOn
  <2>2. CASE AddEvent(n, d)
    <3>1. PICK c : c = call[n]
      OBVIOUS
    <3>2. CallOK(n, c)'
      BY <1>1, <1>3, <3>1, StillOK DEF CallsOK
    <3>3. \A m \in Nodes : CallOK(m, call[m])'
      <4> SUFFICES ASSUME NEW m \in Nodes PROVE CallOK(m, call[m])'
        OBVIOUS
      <4>1. PICK e : e = call[m]
        OBVIOUS
      <4>2. CallOK(m, e)'
        BY <1>1, <1>3, <4>1, StillOK DEF CallsOK
      <4> QED BY <2>2, <4>1, <4>2 DEF AddEvent, CallOK
    <3> QED BY <1>1, <2>2, <3>3 DEF AddEvent, CallsOK
  <2> QED BY <2>1, <2>2
<1> QED BY <1>1, <1>2, <1>3, <1>4, <1>5 DEF MeshInv, BundleOK

\* Steps that change neither a store nor a call.
LEMMA OutsideKeeps ==
    ASSUME MeshInv, store' = store, call' = call, origins' = origins, RelayOK', BundleOK', FaultsOK',
           bundle # NoBundle => bundle' = bundle
    PROVE  MeshInv'
<1>1. Grows
  BY DEF Grows, Held
<1>2. MarksOK' /\ StoresOK'
  BY <1>1, PartsStay DEF MeshInv, StoresOK
<1>3. CallsOK'
  <2>1. \A m \in Nodes : CallOK(m, call[m])'
    <3> SUFFICES ASSUME NEW m \in Nodes PROVE CallOK(m, call[m])'
      OBVIOUS
    <3>1. PICK e : e = call[m]
      OBVIOUS
    <3>2. CallOK(m, e)'
      BY <1>1, <3>1, StillOK DEF MeshInv, CallsOK
    <3> QED BY <3>1, <3>2 DEF CallOK
  <2> QED BY <2>1 DEF MeshInv, CallsOK
<1> QED BY <1>2, <1>3 DEF MeshInv

\* publish_capsule, the export of a bundle, and the loss of the relay.
LEMMA OutsideSteps ==
    ASSUME MeshInv,
           \/ \E n \in Nodes, d \in Digests : PublishCapsule(n, d)
           \/ \E n \in Nodes : ExportBundle(n)
           \/ LoseRelay
    PROVE  MeshInv' /\ store' = store
<1>1. CASE \E n \in Nodes, d \in Digests : PublishCapsule(n, d)
  <2>1. PICK n \in Nodes, d \in Digests : PublishCapsule(n, d)
    BY <1>1
  <2>2. DOMAIN relay = {"records", "capsules"} /\ Few(relay.capsules) /\ d \in Announced
    BY <2>1 DEF MeshInv, RelayOK, PublishCapsule
  <2>3. /\ DOMAIN relay' = {"records", "capsules"} /\ relay'.records = relay.records
        /\ relay'.capsules = relay.capsules \cup {d}
    BY <2>1, <2>2 DEF PublishCapsule
  <2>4. Few(relay.capsules \cup {d})
    <3>1. /\ IsFiniteSet(relay.capsules \cup {d})
          /\ Cardinality(relay.capsules \cup {d}) =
                IF d \in relay.capsules THEN Cardinality(relay.capsules)
                ELSE Cardinality(relay.capsules) + 1
      BY <2>2, FS_AddElement DEF Few
    <3>2. Cardinality(relay.capsules) \in Nat /\ RelayLimit \in Nat
      BY <2>2, FS_CardinalityType, MeshAssumption DEF Few
    <3> QED BY <2>1, <2>2, <3>1, <3>2 DEF Few, PublishCapsule
  <2>5. RelayOK'
    BY <2>2, <2>3, <2>4 DEF MeshInv, RelayOK, Few
  <2> QED BY <2>1, <2>5, OutsideKeeps DEF PublishCapsule, MeshInv, BundleOK, FaultsOK
<1>2. CASE \E n \in Nodes : ExportBundle(n)
  <2>1. PICK n \in Nodes : ExportBundle(n)
    BY <1>2
  <2>2. BundleOK'
    BY <2>1, HeldType DEF MeshInv, BundleOK, ExportBundle
  <2> QED BY <2>1, <2>2, OutsideKeeps DEF ExportBundle, MeshInv, RelayOK, Few, FaultsOK
<1>3. CASE LoseRelay
  <2>1. Few({})
    BY FS_EmptySet, MeshAssumption DEF Few
  <2>2. RelayOK'
    BY <1>3, <2>1 DEF LoseRelay, RelayOK, Few
  <2>3. FaultsOK'
    BY <1>3, MeshAssumption DEF LoseRelay, MeshInv, FaultsOK
  <2> QED BY <1>3, <2>2, <2>3, OutsideKeeps DEF LoseRelay, MeshInv, BundleOK
<1> QED BY <1>1, <1>2, <1>3

\* A call begins, fetches, is done, or dies.
LEMMA SyncKeeps ==
    ASSUME MeshInv, NEW n \in Nodes,
           \/ \E l \in Links : l[1] = n /\ SyncStart(l[1], l[2])
           \/ SyncFetch(n) \/ PushDone(n) \/ Crash(n)
    PROVE  MeshInv' /\ store' = store
<1>1. store' = store /\ bundle' = bundle /\ origins' = origins /\ relay' = relay
  BY DEF SyncStart, SyncFetch, PushDone, Crash
<1>2. FaultsOK'
  <2>1. faults' = faults \/ (faults' = faults + 1 /\ faults < MaxFaults)
    BY DEF SyncStart, SyncFetch, PushDone, Crash
  <2> QED BY <2>1, MeshAssumption DEF MeshInv, FaultsOK
<1>3. MarksOK' /\ RelayOK'
  <2>1. Grows
    BY <1>1 DEF Grows, Held
  <2> QED BY <1>1, <2>1, PartsStay
<1>4. \E c : CallOK(n, c) /\ call' = [call EXCEPT ![n] = c]
  <2>1. ASSUME NEW l \in Links, l[1] = n, SyncStart(l[1], l[2])
        PROVE  \E c : CallOK(n, c) /\ call' = [call EXCEPT ![n] = c]
    <3> DEFINE k == l[2]
               missing == FirstOf(Frontier(k) \ Held(n), Limit)
    <3>1. <<n, k>> \in Links /\ k \in Nodes \cup {"relay", "bundle"} /\ (k = "bundle" => bundle # NoBundle)
      <4>1. l \in Nodes \X (Nodes \cup {"relay", "bundle"})
        BY MeshAssumption
      <4>2. l = <<n, k>> /\ k \in Nodes \cup {"relay", "bundle"}
        BY <2>1, <4>1
      <4> QED BY <2>1, <4>2 DEF SyncStart
    <3>2. Frontier(k) \subseteq Digests
      <4>1. CASE k \in Nodes
        <5>1. Frontier(k) = Held(k)
          BY <4>1, MeshAssumption DEF Frontier
        <5> QED BY <4>1, <5>1, HeldType DEF MeshInv
      <4>2. CASE k = "relay"
        BY <4>2, MeshAssumption DEF Frontier, MeshInv, RelayOK, RecordsD
      <4>3. CASE k = "bundle"
        BY <3>1, <4>3, MeshAssumption DEF Frontier, MeshInv, BundleOK
      <4> QED BY <3>1, <4>1, <4>2, <4>3
    <3>3. missing \subseteq Digests
      BY <3>2 DEF FirstOf
    <3>4. PICK c : c = [NoCall EXCEPT !.pc = "fetch", !.carrier = k, !.remote = Frontier(k), !.batch = missing]
      OBVIOUS
    <3>5. call' = [call EXCEPT ![n] = c]
      BY <2>1, <3>4 DEF SyncStart, Set
    <3> HIDE DEF missing, k
    <3>6. DOMAIN c = CallFields /\ c.pc = "fetch" /\ c.carrier = k /\ c.batch = missing
      BY <3>4 DEF NoCall, CallFields
    <3>7. CallOK(n, c)
      BY <3>1, <3>3, <3>6 DEF CallOK, Pulling, Pushing
    <3> QED BY <3>5, <3>7
  <2>2. ASSUME SyncFetch(n), ~Return(n)
        PROVE  \E c : CallOK(n, c) /\ call' = [call EXCEPT ![n] = c]
    <3> DEFINE k == call[n].carrier
               batch == Fetched(k, call[n].batch)
    <3>1. /\ CallOK(n, call[n]) /\ call[n].pc = "fetch"
          /\ call' = [call EXCEPT ![n] = [call[n] EXCEPT !.pc = "pull", !.batch = batch]]
      BY <2>2 DEF SyncFetch, Set, MeshInv, CallsOK
    <3>2. <<n, k>> \in Links /\ k \in Nodes \cup {"relay", "bundle"} /\ call[n].batch \subseteq Digests
      BY <3>1, LinkTypes DEF CallOK
    <3>3. batch \subseteq RecordsD /\ (k \in Nodes => batch \subseteq Held(k))
      <4>1. CASE k \in Nodes
        BY <3>2, <4>1, MeshAssumption DEF Fetched
      <4>2. CASE k = "relay"
        BY <3>2, <4>2, MeshAssumption DEF Fetched, MeshInv, RelayOK
      <4>3. CASE k = "bundle"
        BY <3>2, <4>3, MeshAssumption DEF Fetched
      <4> QED BY <3>2, <4>1, <4>2, <4>3
    <3>4. PICK c : c = [call[n] EXCEPT !.pc = "pull", !.batch = batch]
      OBVIOUS
    <3> HIDE DEF batch
    <3>5. DOMAIN c = CallFields /\ c.pc = "pull" /\ c.carrier = k /\ c.batch = batch
      BY <3>1, <3>4 DEF CallOK, CallFields
    <3>6. k # "local"
      BY <3>2, LinkTypes
    <3> HIDE DEF k
    <3>7. CallOK(n, c)
      BY <3>2, <3>3, <3>5, <3>6 DEF CallOK, Pulling, Pushing, RecordsD
    <3> QED BY <3>1, <3>4, <3>7
  <2>3. ASSUME Return(n) PROVE \E c : CallOK(n, c) /\ call' = [call EXCEPT ![n] = c]
    BY <2>3, IdleOK DEF Return, Set
  <2> QED BY <2>1, <2>2, <2>3 DEF PushDone, Crash
<1>5. PICK c : CallOK(n, c) /\ call' = [call EXCEPT ![n] = c]
  BY <1>4
<1> QED BY <1>1, <1>2, <1>3, <1>5, QuietStep

\* The marks of a node are read.
LEMMA MarkReadKeeps ==
    ASSUME MeshInv, NEW n \in Nodes, MarkRead(n) PROVE MeshInv' /\ store' = store
<1> DEFINE old == call[n]
           r == Receiver(n)
           pc == IF old.pc = "mark" THEN "save" ELSE "push save"
<1>1. /\ CallOK(n, old) /\ old.pc \in {"mark", "push mark"}
      /\ call' = [call EXCEPT ![n] = [old EXCEPT !.pc = pc, !.seen = origins[r]]]
      /\ store' = store /\ bundle' = bundle /\ origins' = origins /\ relay' = relay /\ faults' = faults
  BY DEF MarkRead, Set, MeshInv, CallsOK
<1>2. Grows
  BY <1>1 DEF Grows, Held
<1>3. MarksOK' /\ RelayOK' /\ FaultsOK'
  BY <1>1, <1>2, PartsStay
<1>4. PICK c : c = [old EXCEPT !.pc = pc, !.seen = origins[r]]
  OBVIOUS
<1>5. /\ DOMAIN c = CallFields /\ c.pc = pc /\ c.carrier = old.carrier /\ c.batch = old.batch
      /\ c.seen = origins[r]
  BY <1>1, <1>4 DEF CallOK, CallFields
<1>6. /\ old.pc = "mark" => r = n
      /\ old.pc = "push mark" => r = old.carrier /\ old.carrier \in Nodes
  BY <1>1 DEF Receiver, CallOK, Pushing
<1>7. /\ old.pc = "mark" => Marks(n, origins[r])
      /\ old.pc = "push mark" => Marks(old.carrier, origins[r])
  BY <1>6 DEF MeshInv, MarksOK
<1> HIDE DEF r
<1>8. CallOK(n, c)
  <2>1. CASE old.pc = "mark"
    BY <1>1, <1>5, <1>7, <2>1 DEF CallOK, Pulling, Pushing
  <2>2. CASE old.pc = "push mark"
    BY <1>1, <1>5, <1>7, <2>2 DEF CallOK, Pulling, Pushing
  <2> QED BY <1>1, <2>1, <2>2
<1> QED BY <1>1, <1>3, <1>4, <1>8, QuietStep
\* A mark is written into the marks that were read.
LEMMA MarkWriteKeeps ==
    ASSUME MeshInv, NEW n \in Nodes, MarkWrite(n) PROVE MeshInv' /\ store' = store
<1>1. PICK old : old = call[n]
  OBVIOUS
<1>2. PICK r : r = Receiver(n)
  OBVIOUS
<1>3. PICK d : d = NextOf(n)
  OBVIOUS
<1>4. PICK source : source = Source(n)
  OBVIOUS
<1>5. /\ CallOK(n, old) /\ old.pc \in {"save", "push save"}
      /\ origins' = [origins EXCEPT ![r] = [old.seen EXCEPT ![d] = source]]
      /\ store' = store /\ bundle' = bundle /\ relay' = relay /\ faults' = faults
  BY <1>1, <1>2, <1>3, <1>4 DEF MarkWrite, MeshInv, CallsOK
<1>6. d \in old.batch /\ d \in Digests
  <2>1. old.batch # {} /\ old.pc \in Pulling \cup Pushing /\ old.batch \subseteq Digests
    BY <1>5 DEF CallOK, Pulling, Pushing
  <2>2. NextOf(n) \in call[n].batch
    BY <1>1, <2>1, NextIsLeft
  <2> QED BY <1>1, <1>3, <2>1, <2>2
<1>7. /\ r \in Nodes /\ Marks(r, old.seen)
      /\ source = "local" => d \in Produced[r]
      /\ source \in Nodes => source # r /\ d \in Held(source)
  <2>1. CASE old.pc = "save"
    <3>1. r = n /\ source = old.carrier
      BY <1>1, <1>2, <1>4, <2>1 DEF Receiver, Source
    <3>2. /\ Marks(n, old.seen)
          /\ <<n, old.carrier>> \in Links \/ old.carrier = "local"
          /\ old.carrier \in Nodes => old.batch \subseteq Held(old.carrier)
          /\ old.carrier = "local" => old.batch \subseteq Produced[n]
      BY <1>5, <2>1 DEF CallOK, Pulling
    <3>3. "local" \notin Nodes
      BY MeshAssumption
    <3> QED BY <1>6, <3>1, <3>2, <3>3, LinkTypes
  <2>2. CASE old.pc = "push save"
    <3>1. r = old.carrier /\ source = n
      BY <1>1, <1>2, <1>4, <2>2 DEF Receiver, Source
    <3>2. /\ Marks(old.carrier, old.seen)
          /\ <<n, old.carrier>> \in Links /\ old.carrier \in Nodes /\ old.batch \subseteq Held(n)
      BY <1>5, <2>2 DEF CallOK, Pushing
    <3>3. "local" \notin Nodes
      BY MeshAssumption
    <3> QED BY <1>6, <3>1, <3>2, <3>3, LinkTypes
  <2> QED BY <1>5, <2>1, <2>2
<1>8. PICK marks : marks = [old.seen EXCEPT ![d] = source]
  OBVIOUS
<1>9. Marks(r, marks)
  <2>1. /\ DOMAIN marks = Digests /\ marks[d] = source
        /\ \A e \in Digests : e # d => marks[e] = old.seen[e]
    BY <1>6, <1>7, <1>8 DEF Marks
  <2> QED BY <1>7, <2>1 DEF Marks
<1>10. Grows
  BY <1>5 DEF Grows, Held
<1>11. MarksOK'
  <2>1. /\ DOMAIN origins' = Nodes /\ origins'[r] = marks
        /\ \A m \in Nodes : m # r => origins'[m] = origins[m]
    BY <1>5, <1>7, <1>8 DEF MeshInv, MarksOK
  <2>2. ASSUME NEW m \in Nodes PROVE Marks(m, origins[m])'
    <3>1. PICK e : e = origins'[m]
      OBVIOUS
    <3>2. Marks(m, e)
      <4>1. CASE m = r
        BY <1>9, <2>1, <3>1, <4>1
      <4>2. CASE m # r
        BY <2>1, <3>1, <4>2 DEF MeshInv, MarksOK
      <4> QED BY <4>1, <4>2
    <3>3. Marks(m, e)'
      BY <1>10, <3>2, MarksStay
    <3> QED BY <3>1, <3>3 DEF Marks
  <2> QED BY <2>1, <2>2 DEF MarksOK
<1>12. RelayOK' /\ FaultsOK'
  BY <1>5, <1>10, PartsStay
<1>13. \E c : CallOK(n, c) /\ call' = [call EXCEPT ![n] = c]
  <2>1. CASE old.carrier = "local"
    BY <1>1, <2>1, IdleOK DEF MarkWrite, Return, Set
  <2>2. CASE old.carrier # "local"
    <3>1. PICK c : c = [old EXCEPT !.pc = IF old.pc = "save" THEN "pull" ELSE "push",
                                   !.batch = old.batch \ {d}, !.seen = {}]
      OBVIOUS
    <3>2. call' = [call EXCEPT ![n] = c]
      BY <1>1, <1>3, <2>2, <3>1 DEF MarkWrite, Set
    <3>3. /\ DOMAIN c = CallFields /\ c.carrier = old.carrier /\ c.batch = old.batch \ {d}
          /\ c.pc = IF old.pc = "save" THEN "pull" ELSE "push"
      BY <1>5, <3>1 DEF CallOK, CallFields
    <3>4. CASE old.pc = "save"
      BY <1>5, <2>2, <3>2, <3>3, <3>4 DEF CallOK, Pulling, Pushing
    <3>5. CASE old.pc = "push save"
      BY <1>5, <2>2, <3>2, <3>3, <3>5 DEF CallOK, Pulling, Pushing
    <3> QED BY <1>5, <3>4, <3>5
  <2> QED BY <2>1, <2>2
<1>14. PICK c : CallOK(n, c) /\ call' = [call EXCEPT ![n] = c]
  BY <1>13
<1> QED BY <1>5, <1>11, <1>12, <1>14, QuietStep

\* What is pushed are records that are held.
LEMMA PushSelectKeeps ==
    ASSUME MeshInv, NEW n \in Nodes, PushSelect(n) PROVE MeshInv' /\ store' = store
<1>1. PICK old : old = call[n]
  OBVIOUS
<1>2. /\ CallOK(n, old) /\ old.pc = "pull"
      /\ store' = store /\ bundle' = bundle /\ origins' = origins /\ relay' = relay /\ faults' = faults
  BY <1>1 DEF PushSelect, MeshInv, CallsOK
<1>3. Grows
  BY <1>2 DEF Grows, Held
<1>4. MarksOK' /\ RelayOK' /\ FaultsOK'
  BY <1>2, <1>3, PartsStay
<1>5. PICK batch : batch = SelectForPeer(n, old.remote)
  OBVIOUS
<1>6. batch \subseteq Held(n) /\ batch \subseteq Digests /\ batch \subseteq RecordsD
  BY <1>5, HeldType DEF SelectForPeer, FirstOf, Selected, MeshInv
<1>7. \E c : CallOK(n, c) /\ call' = [call EXCEPT ![n] = c]
  <2>1. CASE old.carrier = "bundle" \/ <<n, old.carrier>> \notin PushLinks
    BY <1>1, <2>1, IdleOK DEF PushSelect, Return, Set
  <2>2. CASE old.carrier # "bundle" /\ <<n, old.carrier>> \in PushLinks
    <3>1. PICK c : c = [old EXCEPT !.pc = IF old.carrier = "relay" THEN "offer" ELSE "push",
                                   !.batch = batch, !.remote = {}]
      OBVIOUS
    <3>2. call' = [call EXCEPT ![n] = c]
      BY <1>1, <1>5, <2>2, <3>1 DEF PushSelect, Set
    <3>3. /\ DOMAIN c = CallFields /\ c.carrier = old.carrier /\ c.batch = batch
          /\ c.pc = IF old.carrier = "relay" THEN "offer" ELSE "push"
      BY <1>2, <3>1 DEF CallOK, CallFields
    <3>4. /\ <<n, old.carrier>> \in Links
          /\ old.carrier = "relay" \/ old.carrier \in Nodes
      BY <1>2, <2>2, LinkTypes DEF CallOK, Pulling
    <3>5. CallOK(n, c)
      BY <1>6, <3>3, <3>4 DEF CallOK, Pulling, Pushing
    <3> QED BY <3>2, <3>5
  <2> QED BY <2>1, <2>2
<1>8. PICK c : CallOK(n, c) /\ call' = [call EXCEPT ![n] = c]
  BY <1>7
<1> QED BY <1>2, <1>4, <1>8, QuietStep

\* offer_record.
LEMMA OfferKeeps ==
    ASSUME MeshInv, NEW n \in Nodes, OfferLoad(n) \/ OfferSave(n) PROVE MeshInv' /\ store' = store
<1>1. PICK old : old = call[n]
  OBVIOUS
<1>2. /\ CallOK(n, old)
      /\ store' = store /\ bundle' = bundle /\ origins' = origins /\ faults' = faults
  BY <1>1 DEF OfferLoad, OfferSave, MeshInv, CallsOK
<1>3. Grows
  BY <1>2 DEF Grows, Held
<1>4. MarksOK' /\ FaultsOK' /\ (relay' = relay => RelayOK')
  BY <1>2, <1>3, PartsStay
<1>5. CASE OfferLoad(n)
  <2>1. PICK c : c = [old EXCEPT !.pc = "offer save", !.seen = relay.records]
    OBVIOUS
  <2>2. call' = [call EXCEPT ![n] = c] /\ relay' = relay /\ old.pc = "offer" /\ old.batch # {}
    BY <1>1, <1>5, <2>1 DEF OfferLoad, Set
  <2>3. /\ DOMAIN c = CallFields /\ c.carrier = old.carrier /\ c.batch = old.batch
        /\ c.pc = "offer save" /\ c.seen = relay.records
    BY <1>2, <2>1 DEF CallOK, CallFields
  <2>4. Few(relay.records) /\ relay.records \subseteq RecordsD
    BY DEF MeshInv, RelayOK
  <2>5. CallOK(n, c)
    BY <1>2, <2>2, <2>3, <2>4 DEF CallOK, Pulling, Pushing
  <2> QED BY <1>2, <1>4, <2>2, <2>5, QuietStep
<1>6. CASE OfferSave(n)
  <2>1. PICK d : d = NextOf(n)
    OBVIOUS
  <2>2. old.pc = "offer save" /\ old.batch # {} /\ Few(old.seen) /\ old.seen \subseteq RecordsD
    BY <1>1, <1>2, <1>6 DEF OfferSave, CallOK
  <2>3. d \in RecordsD
    <3>1. NextOf(n) \in call[n].batch
      BY <1>1, <2>2, NextIsLeft
    <3> QED BY <1>1, <1>2, <2>1, <2>2, <3>1 DEF CallOK
  <2>4. RelayOK'
    <3>1. CASE relay' = relay
      BY <1>4, <3>1
    <3>2. CASE relay' # relay
      <4>1. /\ relay' = [relay EXCEPT !.records = old.seen \cup {d}]
            /\ d \in old.seen \/ ~(Cardinality(old.seen) >= RelayLimit)
        BY <1>1, <1>6, <2>1, <3>2 DEF OfferSave
      <4>2. /\ DOMAIN relay' = {"records", "capsules"} /\ relay'.capsules = relay.capsules
            /\ relay'.records = old.seen \cup {d}
        BY <4>1 DEF MeshInv, RelayOK
      <4>3. Few(old.seen \cup {d})
        <5>1. /\ IsFiniteSet(old.seen \cup {d})
              /\ Cardinality(old.seen \cup {d}) =
                    IF d \in old.seen THEN Cardinality(old.seen) ELSE Cardinality(old.seen) + 1
          BY <2>2, FS_AddElement DEF Few
        <5>2. Cardinality(old.seen) \in Nat /\ RelayLimit \in Nat
          BY <2>2, FS_CardinalityType, MeshAssumption DEF Few
        <5>3. PICK k \in Nat : k = Cardinality(old.seen)
          BY <5>2
        <5>4. k <= RelayLimit /\ (d \in old.seen \/ ~(k >= RelayLimit))
          BY <2>2, <4>1, <5>3 DEF Few
        <5>5. RelayLimit \in Nat
          BY <5>2
        <5>6. (d \in old.seen /\ k <= RelayLimit) \/ k + 1 <= RelayLimit
          BY <5>4, <5>5
        <5>7. Cardinality(old.seen \cup {d}) <= RelayLimit
          <6>1. CASE d \in old.seen
            BY <5>1, <5>3, <5>4, <6>1
          <6>2. CASE d \notin old.seen
            BY <5>1, <5>3, <5>6, <6>2
          <6> QED BY <6>1, <6>2
        <5> QED BY <5>1, <5>7 DEF Few
      <4> QED BY <2>2, <2>3, <4>2, <4>3 DEF MeshInv, RelayOK, Few
    <3> QED BY <3>1, <3>2
  <2>5. PICK c : c = [old EXCEPT !.pc = "offer", !.batch = old.batch \ {d}, !.seen = {}]
    OBVIOUS
  <2>6. call' = [call EXCEPT ![n] = c]
    BY <1>1, <1>6, <2>1, <2>5 DEF OfferSave, Set
  <2>7. DOMAIN c = CallFields /\ c.carrier = old.carrier /\ c.batch = old.batch \ {d} /\ c.pc = "offer"
    BY <1>2, <2>5 DEF CallOK, CallFields
  <2>8. CallOK(n, c)
    BY <1>2, <2>2, <2>7 DEF CallOK, Pulling, Pushing
  <2> QED BY <1>2, <1>4, <2>4, <2>6, <2>8, QuietStep
<1> QED BY <1>5, <1>6

\* ingest_foreign: what a node gets is a record.
LEMMA IngestKeeps ==
    ASSUME MeshInv, NEW n \in Nodes, Ingest(n)
    PROVE  /\ MeshInv' /\ Grows
           /\ \A m \in Nodes : Held(m)' \ Held(m) \subseteq RecordsD
<1>1. PICK old : old = call[n]
  OBVIOUS
<1>2. PICK d : d = NextOf(n)
  OBVIOUS
<1>3. PICK r : r = Receiver(n)
  OBVIOUS
<1>4. /\ CallOK(n, old) /\ old.pc \in {"pull", "push"} /\ old.batch # {}
      /\ bundle' = bundle /\ origins' = origins /\ relay' = relay /\ faults' = faults
  BY <1>1 DEF Ingest, MeshInv, CallsOK
<1>5. d \in old.batch /\ d \in Digests /\ d \in RecordsD
  <2>1. old.pc \in Pulling \cup Pushing /\ old.batch \subseteq Digests
    BY <1>4 DEF CallOK, Pulling, Pushing
  <2>2. NextOf(n) \in call[n].batch
    BY <1>1, <1>4, <2>1, NextIsLeft
  <2>3. old.batch \subseteq RecordsD
    BY <1>4 DEF CallOK
  <2> QED BY <1>1, <1>2, <2>1, <2>2, <2>3
<1>6. CASE store' = store
  <2>1. Grows /\ \A m \in Nodes : Held(m)' = Held(m)
    BY <1>4, <1>6 DEF Grows, Held
  <2>2. MarksOK' /\ RelayOK' /\ FaultsOK'
    BY <1>4, <2>1, PartsStay
  <2>3. \E c : CallOK(n, c) /\ call' = [call EXCEPT ![n] = c]
    <3>1. PICK c : c = [old EXCEPT !.batch = old.batch \ {d}]
      OBVIOUS
    <3>2. DOMAIN c = CallFields /\ c.carrier = old.carrier /\ c.batch = old.batch \ {d} /\ c.pc = old.pc
      BY <1>4, <3>1 DEF CallOK, CallFields
    <3>3. CallOK(n, c)
      BY <1>4, <3>2 DEF CallOK, Pulling, Pushing
    <3>4. PICK e : e = [old EXCEPT !.pc = IF old.pc = "pull" THEN "mark" ELSE "push mark"]
      OBVIOUS
    <3>5. /\ DOMAIN e = CallFields /\ e.carrier = old.carrier /\ e.batch = old.batch
          /\ e.pc = IF old.pc = "pull" THEN "mark" ELSE "push mark"
      BY <1>4, <3>4 DEF CallOK, CallFields
    <3>6. CallOK(n, e)
      BY <1>4, <3>5 DEF CallOK, Pulling, Pushing
    <3>7. call' \in {[call EXCEPT ![n] = c], [call EXCEPT ![n] = NoCall], [call EXCEPT ![n] = e]}
      BY <1>1, <1>2, <3>1, <3>4 DEF Ingest, Return, Set
    <3> QED BY <3>3, <3>6, <3>7, IdleOK
  <2>4. PICK c : CallOK(n, c) /\ call' = [call EXCEPT ![n] = c]
    BY <2>3
  <2>5. MeshInv'
    BY <1>4, <1>6, <2>2, <2>4, QuietStep
  <2> QED BY <2>1, <2>5
<1>7. CASE store' # store
  <2>1. /\ Gate(n, d) /\ d \notin Held(r)
        /\ store' = [store EXCEPT ![r] = Append(store[r], d)]
        /\ call' = [call EXCEPT ![n] =
                      [old EXCEPT !.pc = IF old.pc = "pull" THEN "mark" ELSE "push mark"]]
    BY <1>1, <1>2, <1>3, <1>7 DEF Ingest, Set
  <2>2. /\ old.pc = "pull" => r = n
        /\ old.pc = "push" => r = old.carrier /\ <<n, r>> \in Links /\ r \in Nodes
    BY <1>1, <1>3, <1>4, <1>5 DEF Receiver, CallOK, Pushing
  <2>3. r \in Nodes
    BY <1>4, <2>2
  <2>4. /\ StoresOK'
        /\ \A m \in Nodes : Held(m)' = IF m = r THEN Held(r) \cup {d} ELSE Held(m)
    BY <1>5, <2>1, <2>3, AddDigest DEF MeshInv
  <2>5. Grows
    BY <1>4, <2>4 DEF Grows
  <2>6. MarksOK' /\ RelayOK' /\ FaultsOK'
    BY <1>4, <2>5, PartsStay
  <2>7. CallsOK'
    <3>1. PICK e : e = [old EXCEPT !.pc = IF old.pc = "pull" THEN "mark" ELSE "push mark"]
      OBVIOUS
    <3>2. /\ DOMAIN e = CallFields /\ e.carrier = old.carrier /\ e.batch = old.batch
          /\ e.pc = IF old.pc = "pull" THEN "mark" ELSE "push mark"
      BY <1>4, <3>1 DEF CallOK, CallFields
    <3>3. CallOK(n, e)
      BY <1>4, <3>2 DEF CallOK, Pulling, Pushing
    <3>4. CallOK(n, e)'
      BY <2>5, <3>3, StillOK
    <3> QED BY <2>1, <2>5, <3>1, <3>4, CallsGoOn DEF MeshInv
  <2>8. MeshInv'
    BY <1>4, <2>4, <2>6, <2>7 DEF MeshInv, BundleOK
  <2> QED BY <1>5, <2>4, <2>5, <2>8
<1> QED BY <1>6, <1>7

-----------------------------------------------------------------------------
\* The steps of the mesh.

\* Stores only grow, by what a node makes or by records.
Gained(m, d) == d \in Produced[m] \/ d \in RecordsD

LEMMA StepKeeps ==
    ASSUME MeshInv, [Next]_vars
    PROVE  /\ MeshInv' /\ Grows
           /\ \A m \in Nodes : \A d \in Held(m)' \ Held(m) : Gained(m, d)
<1>1. ASSUME NEW n \in Nodes, NEW d \in Digests, Publish(n, d) \/ AddEvent(n, d)
      PROVE  /\ MeshInv' /\ Grows
             /\ \A m \in Nodes : \A e \in Held(m)' \ Held(m) : Gained(m, e)
  <2>1. MeshInv' /\ Grows /\ \A m \in Nodes : Held(m)' \subseteq Held(m) \cup Produced[m]
    BY <1>1, LocalKeeps
  <2> QED BY <2>1 DEF Gained
<1>2. ASSUME store' = store, MeshInv', bundle # NoBundle => bundle' = bundle
      PROVE  /\ MeshInv' /\ Grows
             /\ \A m \in Nodes : \A e \in Held(m)' \ Held(m) : Gained(m, e)
  BY <1>2 DEF Grows, Held
<1>3. ASSUME NEW n \in Nodes, NEW d \in Digests, PublishCapsule(n, d) \/ ExportBundle(n)
      PROVE  /\ MeshInv' /\ Grows
             /\ \A m \in Nodes : \A e \in Held(m)' \ Held(m) : Gained(m, e)
  <2>1. bundle # NoBundle => bundle' = bundle
    BY <1>3 DEF PublishCapsule, ExportBundle
  <2>2. MeshInv' /\ store' = store
    BY <1>3, OutsideSteps
  <2> QED BY <1>2, <2>1, <2>2
<1>4. ASSUME LoseRelay
      PROVE  /\ MeshInv' /\ Grows
             /\ \A m \in Nodes : \A e \in Held(m)' \ Held(m) : Gained(m, e)
  <2>1. MeshInv' /\ store' = store /\ bundle' = bundle
    BY <1>4, OutsideSteps DEF LoseRelay
  <2> QED BY <1>2, <2>1
<1>5. ASSUME NEW n \in Nodes, ExportBundle(n)
      PROVE  /\ MeshInv' /\ Grows
             /\ \A m \in Nodes : \A e \in Held(m)' \ Held(m) : Gained(m, e)
  <2>1. bundle # NoBundle => bundle' = bundle
    BY <1>5 DEF ExportBundle
  <2>2. MeshInv' /\ store' = store
    BY <1>5, OutsideSteps
  <2> QED BY <1>2, <2>1, <2>2
<1>6. ASSUME NEW n \in Nodes,
             \/ SyncFetch(n) \/ MarkRead(n) \/ MarkWrite(n) \/ PushSelect(n)
             \/ PushDone(n) \/ OfferLoad(n) \/ OfferSave(n) \/ Crash(n)
      PROVE  /\ MeshInv' /\ Grows
             /\ \A m \in Nodes : \A e \in Held(m)' \ Held(m) : Gained(m, e)
  <2>1. MeshInv' /\ store' = store
    BY <1>6, SyncKeeps, MarkReadKeeps, MarkWriteKeeps, PushSelectKeeps, OfferKeeps
  <2>2. bundle' = bundle
    BY <1>6 DEF SyncFetch, MarkRead, MarkWrite, PushSelect, PushDone, OfferLoad, OfferSave, Crash
  <2> QED BY <1>2, <2>1, <2>2
<1>7. ASSUME NEW n \in Nodes, Ingest(n)
      PROVE  /\ MeshInv' /\ Grows
             /\ \A m \in Nodes : \A e \in Held(m)' \ Held(m) : Gained(m, e)
  BY <1>7, IngestKeeps DEF Gained
<1>8. ASSUME NEW l \in Links, SyncStart(l[1], l[2])
      PROVE  /\ MeshInv' /\ Grows
             /\ \A m \in Nodes : \A e \in Held(m)' \ Held(m) : Gained(m, e)
  <2>1. l[1] \in Nodes
    BY MeshAssumption
  <2>2. MeshInv' /\ store' = store
    BY <1>8, <2>1, SyncKeeps
  <2>3. bundle' = bundle
    BY <1>8 DEF SyncStart
  <2> QED BY <1>2, <2>2, <2>3
<1>9. ASSUME UNCHANGED vars
      PROVE  /\ MeshInv' /\ Grows
             /\ \A m \in Nodes : \A e \in Held(m)' \ Held(m) : Gained(m, e)
  <2>1. /\ store' = store /\ call' = call /\ origins' = origins /\ relay' = relay
        /\ bundle' = bundle /\ faults' = faults
    BY <1>9 DEF vars
  <2>2. RelayOK' /\ BundleOK' /\ FaultsOK'
    BY <2>1 DEF MeshInv, RelayOK, Few, BundleOK, FaultsOK
  <2>3. MeshInv'
    BY <2>1, <2>2, OutsideKeeps
  <2> QED BY <1>2, <2>1, <2>3
<1> QED BY <1>1, <1>3, <1>4, <1>5, <1>6, <1>7, <1>8, <1>9 DEF Next, Step

LEMMA StartsRight == ASSUME Init PROVE MeshInv
<1>1. StoresOK
  <2>1. \A n \in Nodes : Offline[n] \in Seq(Digests)
    <3> SUFFICES ASSUME NEW n \in Nodes PROVE Offline[n] \in Seq(Digests)
      OBVIOUS
    <3>1. Offline[n] \in Seq(Produced[n]) /\ Produced[n] \subseteq Digests
      BY MeshAssumption
    <3> QED BY <3>1
  <2> QED BY <2>1, MeshAssumption DEF Init, StoresOK
<1>2. MarksOK
  <2>1. /\ DOMAIN origins = Nodes /\ "local" \notin Nodes /\ NoOrigin \notin Nodes /\ NoOrigin # "local"
        /\ \A n \in Nodes : origins[n] = [d \in Digests |-> IF d \in Held(n) \cap RecordsD
                                                            THEN "local" ELSE NoOrigin]
    BY MeshAssumption DEF Init
  <2>2. \A n \in Nodes : Held(n) \subseteq Produced[n]
    <3> SUFFICES ASSUME NEW n \in Nodes PROVE Held(n) \subseteq Produced[n]
      OBVIOUS
    <3>1. store[n] \in Seq(Produced[n])
      BY MeshAssumption DEF Init
    <3> QED BY <3>1 DEF Held
  <2> QED BY <2>1, <2>2 DEF MarksOK, Marks
<1>3. RelayOK
  <2>1. Few({})
    BY FS_EmptySet, MeshAssumption DEF Few
  <2> QED BY <2>1 DEF Init, RelayOK
<1>4. CallsOK
  BY IdleOK DEF Init, CallsOK
<1>5. BundleOK /\ FaultsOK
  BY MeshAssumption DEF Init, BundleOK, FaultsOK
<1> QED BY <1>1, <1>2, <1>3, <1>4, <1>5 DEF MeshInv

\* What the mesh keeps true: ledgers without duplicates, tables within their limits,
\* true marks on disk and in the hands of every call, batches that are held where
\* they came from (mesh/node.py, mesh/transport.py).
THEOREM MeshInvariant == Spec => []MeshInv
<1>1. Init => MeshInv
  BY StartsRight
<1>2. MeshInv /\ [Next]_vars => MeshInv'
  BY StepKeeps
<1> QED BY <1>1, <1>2, PTL DEF Spec

\* The ledgers hold each digest once, and neither table of the relay grows past its
\* limit, however many nodes offer at the same time (offer_record, publish_capsule).
THEOREM MeshTyped == Spec => []TypeOK
<1>1. MeshInv => TypeOK
  BY DEF MeshInv, StoresOK, RelayOK, Few, FaultsOK, TypeOK
<1> QED BY <1>1, MeshInvariant, PTL

\* An origin mark is true, whatever marks were lost in races between the calls that
\* rewrite a state file (_mark_origin).
THEOREM MarksTruthful == Spec => []OriginsTruthful
<1>1. MeshInv => OriginsTruthful
  BY DEF MeshInv, MarksOK, Marks, OriginsTruthful
<1> QED BY <1>1, MeshInvariant, PTL

-----------------------------------------------------------------------------
\* Delivery.

\* What is delivered to a node never changes the state in which it sees a record: the
\* events it holds are its own, over every carrier, with stale frontiers and with
\* pushes that nobody filters (fetch_records, select_for_peer, ingest_foreign).
THEOREM DeliveryPromotesNothing == Spec => []PossessionOnly
<1>1. Init => PossessionOnly
  <2> SUFFICES ASSUME Init, NEW n \in Nodes PROVE Held(n) \subseteq Produced[n]
    BY DEF PossessionOnly
  <2>1. store[n] \in Seq(Produced[n])
    BY MeshAssumption DEF Init
  <2> QED BY <2>1 DEF Held
<1>2. MeshInv /\ PossessionOnly /\ [Next]_vars => PossessionOnly'
  <2> SUFFICES ASSUME MeshInv, PossessionOnly, [Next]_vars,
                      NEW n \in Nodes, NEW d \in Held(n)' \cap EventsD
               PROVE  d \in Produced[n]
    BY DEF PossessionOnly
  <2>1. d \notin Held(n) => Gained(n, d)
    BY StepKeeps
  <2>2. d \notin RecordsD
    BY DEF RecordsD, EventsD
  <2> QED BY <2>1, <2>2 DEF Gained, PossessionOnly
<1> QED BY <1>1, <1>2, MeshInvariant, PTL DEF Spec

\* A capsule leaves out of a record only what could have made it match.
LEMMA CapsuleClaimsLess ==
    ASSUME NEW record, NEW digest, NEW interest,
           {"kind", "projects", "contracts", "producer", "outcomes", "relations", "labels", "open"}
               \subseteq DOMAIN record,
           Matches(digest, CapsuleRecord(record), interest, "none")
    PROVE  Matches(digest, record, interest, "none")
<1>1. PICK capsule : capsule = CapsuleRecord(record)
  OBVIOUS
<1>2. /\ capsule.contracts = {} /\ capsule.outcomes = {} /\ capsule.labels = {} /\ capsule.open = FALSE
      /\ capsule.kind = record.kind /\ capsule.projects = record.projects
      /\ capsule.producer = record.producer /\ capsule.relations = record.relations
  BY <1>1 DEF CapsuleRecord
<1>3. PICK less : less = Offered(capsule, "none")
  OBVIOUS
<1>4. PICK more : more = Offered(record, "none")
  OBVIOUS
<1>5. DOMAIN less = DOMAIN more
  BY <1>3, <1>4 DEF Offered
<1>6. ProjectedOutcome(capsule) = {}
  BY <1>2 DEF ProjectedOutcome
<1>7. \A dimension \in DOMAIN less : less[dimension] \subseteq more[dimension]
  BY <1>2, <1>3, <1>4, <1>6 DEF Offered
<1>8. CASE digest \in interest.ids
  BY <1>8 DEF Matches
<1>9. CASE digest \notin interest.ids
  <2>1. /\ \A dimension \in DOMAIN less : Admitted(interest[dimension], less[dimension])
        /\ interest.openWork => capsule.kind = "WorkRequest" /\ capsule.open
        /\ interest.promotion => PromotionRelevant(capsule, "none")
    BY <1>1, <1>3, <1>9 DEF Matches
  <2>2. \A dimension \in DOMAIN more : Admitted(interest[dimension], more[dimension])
    BY <1>5, <1>7, <2>1 DEF Admitted
  <2>3. ~interest.openWork
    BY <1>2, <2>1
  <2>4. interest.promotion => PromotionRelevant(record, "none")
    BY <1>2, <2>1 DEF PromotionRelevant
  <2> QED BY <1>4, <2>2, <2>3, <2>4 DEF Matches
<1> QED BY <1>8, <1>9

\* A capsule that a node would retain is of a record that it lacks and lets in
\* (assess_capsule, compose_capsule).
THEOREM TriageIsSound == Spec => []TriageSound
<1>1. MeshInv => TriageSound
  <2> SUFFICES ASSUME MeshInv, NEW n \in Nodes, NEW d \in relay.capsules,
                      RetainCandidate(d, Info[d], InterestOf[n], Held(n))
               PROVE  d \notin Held(n) /\ Matches(d, Info[d], InterestOf[n], "none")
    BY DEF TriageSound
  <2>1. d \in RecordsD
    BY MeshAssumption DEF MeshInv, RelayOK
  <2>2. {"kind", "projects", "contracts", "producer", "outcomes", "relations", "labels", "open"}
            \subseteq DOMAIN Info[d]
    BY <2>1, MeshAssumption
  <2>3. d \notin Held(n) /\ Matches(d, CapsuleRecord(Info[d]), InterestOf[n], "none")
    BY DEF RetainCandidate
  <2> QED BY <2>2, <2>3, CapsuleClaimsLess
<1> QED BY <1>1, MeshInvariant, PTL
=============================================================================
