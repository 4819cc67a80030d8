--------------------------- MODULE PressureProofs ---------------------------
(***************************************************************************)
(* Proofs about the pressure registry and about pressure_kernel().         *)
(*                                                                         *)
(* The registry: any agents and checkouts, shared or not, any documents,   *)
(* merges, failures and instants, earlier ones included.  That the two     *)
(* replays agree is a fact about any finite set of transitions: a replay   *)
(* in Python that ends valid has taken one transition in each step, so the *)
(* native fold has taken the same.  That none is ignored rests on the ids, *)
(* which grow along a chain, so that the steps take distinct transitions   *)
(* and therefore all of them.  That a valid registry stays valid is shown  *)
(* document by document: what is added later has no part in the checks of  *)
(* an earlier event, and what a call wrote unchecked it can take back.     *)
(*                                                                         *)
(* The kernel: any threads and processes, any number of edits of the build *)
(* inputs, back to an earlier content included, and any number of deaths.  *)
(* No history of the inputs is needed: what a call read at the present     *)
(* number of edits is what the inputs hold now, and an edit makes all that *)
(* was read before it old.  The lock plays no part in the argument.        *)
(***************************************************************************)
EXTENDS Pressure, PressureKernel, FiniteSetTheorems, WellFoundedInduction, TLAPS

-----------------------------------------------------------------------------
\* The kernel.

\* Control points at which a call has its stamp, its key, and an artifact in hand.
Stamped ==
    {"enter", "digest", "receipt", "artifact", "compile", "write_artifact", "write_receipt", "open"}
Keyed == {"receipt", "artifact", "compile", "write_artifact", "write_receipt", "open"}
Armed == {"artifact", "write_artifact", "write_receipt", "open"}

Points == {"idle", "stamp"} \cup Stamped

Hands ==
    [began : Nat, digest : Sources \cup {NoArtifact}, stamp : {<<>>} \cup (Sources \X Nat),
     key : Sources \cup {NoArtifact}, keyed : Nat, artifact : Sources \cup {NoArtifact}]

Opened == [artifact : Sources \cup {NoArtifact}, stamp : {<<>>} \cup (Sources \X Nat)]

\* Of the callers, the cache and the sessions.
KernelTypeOK ==
    /\ source \in Sources /\ edits \in Nat
    /\ cache \in [Sources -> [artifact : Sources \cup {NoArtifact}, receipt : Sources \cup {NoArtifact}]]
    /\ session \in [Processes -> Opened]
    /\ at \in [Callers -> Points]
    /\ hand \in [Callers -> Hands]

\* What a call read at the present number of edits is what the inputs hold now,
\* and it read the stamp before the key.
CallOK(c) ==
    /\ at[c] # "idle" =>
          /\ hand[c].digest \in Sources /\ hand[c].began <= edits
          /\ hand[c].began = edits => hand[c].digest = source
    /\ at[c] \in Stamped =>
          /\ hand[c].stamp \in Sources \X Nat
          /\ hand[c].began <= hand[c].stamp[2] /\ hand[c].stamp[2] <= edits
    /\ at[c] \in Keyed =>
          /\ hand[c].key \in Sources
          /\ hand[c].stamp[2] <= hand[c].keyed /\ hand[c].keyed <= edits
          /\ hand[c].keyed = edits => hand[c].key = source
    /\ at[c] \in Armed =>
          /\ hand[c].artifact \in Sources
          /\ hand[c].artifact = hand[c].key \/ hand[c].key \in raced

\* A session whose stamp is of the present inputs was built from them.
SessionOK(p) ==
    session[p].artifact # NoArtifact =>
        /\ session[p].stamp \in Sources \X Nat /\ session[p].stamp[2] <= edits
        /\ session[p].stamp[2] = edits => session[p].artifact = source \/ source \in raced

\* Neither file of a directory of the cache is of other inputs.
CacheOK(s) ==
    s \in raced \/ (cache[s].artifact \in {NoArtifact, s} /\ cache[s].receipt \in {NoArtifact, s})

\* The inductive invariant of the kernel.
KernelInv ==
    /\ KernelTypeOK
    /\ \A c \in Callers : CallOK(c)
    /\ \A p \in Processes : SessionOK(p)
    /\ \A s \in Sources : CacheOK(s)
    /\ KernelCurrent

-----------------------------------------------------------------------------
\* An edit makes everything that was read before it old.
LEMMA EditKeeps ==
    ASSUME KernelInv, Edit
    PROVE  KernelInv'
<1>1. edits' = edits + 1 /\ edits \in Nat /\ source' \in Sources
  BY DEF Edit, KernelInv, KernelTypeOK
<1>2. UNCHANGED <<placement, cache, session, at, hand, got, raced>>
  BY DEF Edit
<1>3. KernelTypeOK'
  BY <1>1, <1>2 DEF KernelInv, KernelTypeOK, Processes
<1>4. ASSUME NEW c \in Callers PROVE CallOK(c)'
  <2>1. CallOK(c) /\ hand[c] \in Hands
    BY DEF KernelInv, KernelTypeOK
  <2>2. hand[c].stamp \in Sources \X Nat => hand[c].stamp[2] \in Nat
    OBVIOUS
  <2> QED
    BY <1>1, <1>2, <2>1, <2>2 DEF CallOK, Hands, Stamped, Keyed
<1>5. ASSUME NEW p \in Processes' PROVE SessionOK(p)'
  <2>1. SessionOK(p)
    BY <1>2 DEF KernelInv, Processes
  <2>2. session[p].stamp \in Sources \X Nat => session[p].stamp[2] \in Nat
    OBVIOUS
  <2> QED
    BY <1>1, <1>2, <2>1, <2>2 DEF SessionOK
<1> QED
  BY <1>2, <1>3, <1>4, <1>5 DEF KernelInv, CacheOK, KernelCurrent

\* A process that dies takes its calls and its session with it.
LEMMA DieKeeps ==
    ASSUME KernelInv, NEW q \in Processes, Die(q)
    PROVE  KernelInv'
<1>1. UNCHANGED <<placement, source, edits, cache, got, raced>>
  BY DEF Die
<1>2. NothingInHand \in Hands /\ NoSession \in Opened
  BY DEF NothingInHand, Hands, NoSession, Opened
<1>3. /\ session' = [session EXCEPT ![q] = NoSession]
      /\ at' = [c \in Callers |-> IF placement[c] = q THEN "idle" ELSE at[c]]
      /\ hand' = [c \in Callers |-> IF placement[c] = q THEN NothingInHand ELSE hand[c]]
  BY DEF Die
<1>4. KernelTypeOK'
  BY <1>1, <1>2, <1>3 DEF KernelInv, KernelTypeOK, Processes, Points
<1>5. ASSUME NEW c \in Callers PROVE CallOK(c)'
  BY <1>1, <1>3 DEF KernelInv, CallOK, Stamped, Keyed, Armed
<1>6. ASSUME NEW p \in Processes' PROVE SessionOK(p)'
  <2>1. p \in Processes /\ SessionOK(p)
    BY <1>1 DEF KernelInv, Processes
  <2> QED
    BY <1>1, <1>3, <2>1 DEF SessionOK, NoSession, KernelInv, KernelTypeOK
<1> QED
  BY <1>1, <1>4, <1>5, <1>6 DEF KernelInv, CacheOK, KernelCurrent

\* It is enough to look at the call that a step is about, once the cache, the
\* sessions and the answer are in order.
LEMMA OneCall ==
    ASSUME KernelInv, NEW c \in Callers, NEW point \in Points, NEW h \in Hands,
           at' = [at EXCEPT ![c] = point], hand' = [hand EXCEPT ![c] = h],
           UNCHANGED <<placement, source, edits>>, raced \subseteq raced',
           cache' \in [Sources -> [artifact : Sources \cup {NoArtifact},
                                   receipt : Sources \cup {NoArtifact}]],
           session' \in [Processes -> Opened],
           CallOK(c)', \A p \in Processes : SessionOK(p)', \A s \in Sources : CacheOK(s)',
           KernelCurrent'
    PROVE  KernelInv'
<1>1. KernelTypeOK'
  BY DEF KernelInv, KernelTypeOK, Processes
<1>2. ASSUME NEW d \in Callers PROVE CallOK(d)'
  <2>1. CASE d = c
    BY <2>1
  <2>2. CASE d # c
    <3>1. at'[d] = at[d] /\ hand'[d] = hand[d] /\ CallOK(d)
      BY <2>2 DEF KernelInv, KernelTypeOK
    <3> QED
      BY <3>1 DEF CallOK
  <2> QED
    BY <2>1, <2>2
<1>3. Processes' = Processes
  BY DEF Processes
<1> QED
  BY <1>1, <1>2, <1>3 DEF KernelInv

\* A step that only moves its call.
LEMMA QuietCall ==
    ASSUME KernelInv, NEW c \in Callers, NEW point \in Points, NEW h \in Hands,
           at' = [at EXCEPT ![c] = point], hand' = [hand EXCEPT ![c] = h],
           UNCHANGED <<placement, source, edits, cache, session, got>>, raced \subseteq raced',
           CallOK(c)'
    PROVE  KernelInv'
<1>1. \A p \in Processes : SessionOK(p)'
  BY DEF KernelInv, SessionOK
<1>2. \A s \in Sources : CacheOK(s)'
  BY DEF KernelInv, CacheOK
<1>3. KernelCurrent'
  BY DEF KernelInv, KernelCurrent
<1>4. /\ session' \in [Processes -> Opened]
      /\ cache' \in [Sources -> [artifact : Sources \cup {NoArtifact},
                                 receipt : Sources \cup {NoArtifact}]]
  BY DEF KernelInv, KernelTypeOK
<1> QED
  BY <1>1, <1>2, <1>3, <1>4, OneCall

\* The steps of a call before it looks at the cache.
LEMMA ReadingKeeps ==
    ASSUME KernelInv, NEW c \in Callers,
           ReadDigest(c) \/ ReadStamp(c) \/ EnterBuild(c) \/ DigestInputs(c)
    PROVE  KernelInv'
<1>0. /\ source \in Sources /\ edits \in Nat /\ at \in [Callers -> Points]
      /\ hand \in [Callers -> Hands] /\ hand[c] \in Hands /\ CallOK(c)
  BY DEF KernelInv, KernelTypeOK
<1>1. CASE ReadDigest(c)
  <2> DEFINE h == [hand[c] EXCEPT !.began = edits, !.digest = source]
  <2>1. h \in Hands /\ h.began = edits /\ h.digest = source
    BY <1>0 DEF Hands
  <2>2. at' = [at EXCEPT ![c] = "stamp"] /\ hand' = [hand EXCEPT ![c] = h]
    BY <1>0, <1>1 DEF ReadDigest, Step
  <2>3. UNCHANGED <<placement, source, edits, cache, session, got, raced>>
    BY <1>1 DEF ReadDigest
  <2> HIDE DEF h
  <2>4. CallOK(c)'
    BY <1>0, <2>1, <2>2, <2>3 DEF CallOK, Stamped, Keyed, Armed
  <2> QED
    BY <2>1, <2>2, <2>3, <2>4, QuietCall DEF Points
<1>2. CASE ReadStamp(c)
  <2> DEFINE h == [hand[c] EXCEPT !.stamp = <<hand[c].digest, edits>>]
  <2>0. at[c] = "stamp"
    BY <1>2 DEF ReadStamp, Step
  <2>1. <<hand[c].digest, edits>> \in Sources \X Nat
    BY <1>0, <2>0 DEF CallOK
  <2>2. /\ h \in Hands /\ h.stamp = <<hand[c].digest, edits>>
        /\ h.began = hand[c].began /\ h.digest = hand[c].digest
    BY <1>0, <2>1 DEF Hands
  <2>3. at' = [at EXCEPT ![c] = "enter"] /\ hand' = [hand EXCEPT ![c] = h]
    BY <1>0, <1>2 DEF ReadStamp, Step, Take, Hands
  <2>4. UNCHANGED <<placement, source, edits, cache, session, got, raced>>
    BY <1>2 DEF ReadStamp
  <2>5. h.stamp[2] = edits
    BY <2>2
  <2> HIDE DEF h
  <2>6. hand'[c] = h /\ at'[c] = "enter"
    BY <1>0, <2>3
  <2>7. CallOK(c)'
    BY <1>0, <2>0, <2>1, <2>2, <2>4, <2>5, <2>6 DEF CallOK, Stamped, Keyed, Armed, Hands
  <2> QED
    BY <2>2, <2>3, <2>4, <2>7, QuietCall DEF Points, Stamped
<1>3. CASE EnterBuild(c)
  <2>1. at[c] = "enter" /\ at' = [at EXCEPT ![c] = "digest"] /\ hand' = [hand EXCEPT ![c] = hand[c]]
    BY <1>0, <1>3 DEF EnterBuild, Step
  <2>2. UNCHANGED <<placement, source, edits, cache, session, got, raced>>
    BY <1>3 DEF EnterBuild
  <2>3. CallOK(c)'
    BY <1>0, <2>1, <2>2 DEF CallOK, Stamped, Keyed, Armed
  <2> QED
    BY <1>0, <2>1, <2>2, <2>3, QuietCall DEF Points, Stamped
<1>4. CASE DigestInputs(c)
  <2> DEFINE h == [hand[c] EXCEPT !.key = source, !.keyed = edits]
  <2>0. at[c] = "digest"
    BY <1>4 DEF DigestInputs, Step
  <2>1. /\ h \in Hands /\ h.key = source /\ h.keyed = edits /\ h.stamp = hand[c].stamp
        /\ h.began = hand[c].began /\ h.digest = hand[c].digest
    BY <1>0 DEF Hands
  <2>2. at' = [at EXCEPT ![c] = "receipt"] /\ hand' = [hand EXCEPT ![c] = h]
    BY <1>0, <1>4 DEF DigestInputs, Step
  <2>3. UNCHANGED <<placement, source, edits, cache, session, got, raced>>
    BY <1>4 DEF DigestInputs
  <2> HIDE DEF h
  <2>4. hand'[c] = h /\ at'[c] = "receipt"
    BY <1>0, <2>2
  <2>5. CallOK(c)'
    BY <1>0, <2>0, <2>1, <2>3, <2>4 DEF CallOK, Stamped, Keyed, Armed
  <2> QED
    BY <2>1, <2>2, <2>3, <2>5, QuietCall DEF Points, Stamped
<1> QED
  BY <1>1, <1>2, <1>3, <1>4

\* The steps by which a call comes to an artifact, from the cache or the compiler.
LEMMA ArmingKeeps ==
    ASSUME KernelInv, NEW c \in Callers, ReadReceipt(c) \/ ReadArtifact(c) \/ Compile(c)
    PROVE  KernelInv'
<1>0. /\ source \in Sources /\ edits \in Nat /\ at \in [Callers -> Points]
      /\ hand \in [Callers -> Hands] /\ hand[c] \in Hands /\ CallOK(c)
  BY DEF KernelInv, KernelTypeOK
<1>1. at[c] \in Keyed /\ at[c] \in Stamped /\ at[c] # "idle" /\ hand[c].key \in Sources
  BY <1>0 DEF ReadReceipt, ReadArtifact, Compile, Step, Keyed, Stamped, CallOK
<1>2. CASE ReadReceipt(c)
  <2> DEFINE h == [hand[c] EXCEPT !.artifact = cache[hand[c].key].receipt]
             to == IF cache[hand[c].key].receipt = NoArtifact THEN "compile" ELSE "artifact"
  <2>1. cache[hand[c].key].receipt \in Sources \cup {NoArtifact} /\ CacheOK(hand[c].key)
    BY <1>1 DEF KernelInv, KernelTypeOK
  <2>2. /\ h \in Hands /\ h.key = hand[c].key /\ h.keyed = hand[c].keyed /\ h.stamp = hand[c].stamp
        /\ h.began = hand[c].began /\ h.digest = hand[c].digest
        /\ h.artifact = cache[hand[c].key].receipt
    BY <1>0, <2>1 DEF Hands
  <2>3. at' = [at EXCEPT ![c] = to] /\ hand' = [hand EXCEPT ![c] = h]
    BY <1>0, <1>2 DEF ReadReceipt, Step, Take, Hands
  <2>4. UNCHANGED <<placement, source, edits, cache, session, got, raced>>
    BY <1>2 DEF ReadReceipt
  <2> HIDE DEF h
  <2>5. hand'[c] = h /\ at'[c] = to
    BY <1>0, <2>3
  <2>6. to = "artifact" => h.artifact \in Sources /\ (h.artifact = h.key \/ h.key \in raced)
    BY <2>1, <2>2 DEF CacheOK
  <2>7. to \in {"compile", "artifact"}
    OBVIOUS
  <2> HIDE DEF to
  <2>8. CallOK(c)'
    BY <1>0, <1>1, <2>2, <2>4, <2>5, <2>6, <2>7 DEF CallOK, Stamped, Keyed, Armed
  <2> QED
    BY <2>2, <2>3, <2>4, <2>7, <2>8, QuietCall DEF Points, Stamped
<1>3. CASE ReadArtifact(c)
  <2>1. PICK to \in {"open", "compile"} : at' = [at EXCEPT ![c] = to] /\ at[c] = "artifact"
    BY <1>3 DEF ReadArtifact, Step
  <2>2. hand' = [hand EXCEPT ![c] = hand[c]]
    BY <1>0, <1>3 DEF ReadArtifact
  <2>3. UNCHANGED <<placement, source, edits, cache, session, got, raced>>
    BY <1>3 DEF ReadArtifact
  <2>4. CallOK(c)'
    BY <1>0, <1>1, <2>1, <2>2, <2>3 DEF CallOK, Stamped, Keyed, Armed
  <2> QED
    BY <1>0, <2>1, <2>2, <2>3, <2>4, QuietCall DEF Points, Stamped
<1>4. CASE Compile(c)
  <2> DEFINE h == [hand[c] EXCEPT !.artifact = source]
  <2>1. /\ h \in Hands /\ h.key = hand[c].key /\ h.keyed = hand[c].keyed /\ h.stamp = hand[c].stamp
        /\ h.began = hand[c].began /\ h.digest = hand[c].digest /\ h.artifact = source
    BY <1>0 DEF Hands
  <2>2. at' = [at EXCEPT ![c] = "write_artifact"] /\ hand' = [hand EXCEPT ![c] = h]
    BY <1>0, <1>4 DEF Compile, Step, Take, Hands
  <2>3. /\ UNCHANGED <<placement, source, edits, cache, session, got>>
        /\ raced' = IF hand[c].keyed = edits THEN raced ELSE raced \cup {hand[c].key}
    BY <1>4 DEF Compile
  <2> HIDE DEF h
  <2>4. hand'[c] = h /\ at'[c] = "write_artifact"
    BY <1>0, <2>2
  <2>5. h.artifact = h.key \/ h.key \in raced'
    BY <1>0, <1>1, <2>1, <2>3 DEF CallOK
  <2>6. CallOK(c)'
    BY <1>0, <1>1, <2>1, <2>3, <2>4, <2>5 DEF CallOK, Stamped, Keyed, Armed
  <2> QED
    BY <2>1, <2>2, <2>3, <2>6, QuietCall DEF Points, Stamped
<1> QED
  BY <1>2, <1>3, <1>4

\* The two atomic writes into the cache.
LEMMA WritingKeeps ==
    ASSUME KernelInv, NEW c \in Callers, WriteArtifact(c) \/ WriteReceipt(c)
    PROVE  KernelInv'
<1>0. /\ source \in Sources /\ edits \in Nat /\ at \in [Callers -> Points]
      /\ hand \in [Callers -> Hands] /\ hand[c] \in Hands /\ CallOK(c)
  BY DEF KernelInv, KernelTypeOK
<1> DEFINE k == hand[c].key
           x == hand[c].artifact
<1>1. /\ at[c] \in Armed /\ at[c] \in Keyed /\ at[c] \in Stamped /\ at[c] # "idle"
      /\ k \in Sources /\ x \in Sources /\ (x = k \/ k \in raced)
  BY <1>0 DEF WriteArtifact, WriteReceipt, Step, Keyed, Armed, Stamped, CallOK
<1>2. PICK to \in {"write_receipt", "open"} : at' = [at EXCEPT ![c] = to]
  BY DEF WriteArtifact, WriteReceipt, Step
<1>3. /\ UNCHANGED <<placement, source, edits, session, got, raced>>
      /\ hand' = [hand EXCEPT ![c] = hand[c]]
  BY <1>0 DEF WriteArtifact, WriteReceipt
<1>4. CallOK(c)'
  BY <1>0, <1>1, <1>2, <1>3 DEF CallOK, Stamped, Keyed, Armed
<1>5. \/ cache' = [cache EXCEPT ![k].artifact = x]
      \/ cache' = [cache EXCEPT ![k].receipt = x]
  BY DEF WriteArtifact, WriteReceipt
<1>6. cache \in [Sources -> [artifact : Sources \cup {NoArtifact}, receipt : Sources \cup {NoArtifact}]]
  BY DEF KernelInv, KernelTypeOK
<1> HIDE DEF k, x
<1>7. cache' \in [Sources -> [artifact : Sources \cup {NoArtifact}, receipt : Sources \cup {NoArtifact}]]
  BY <1>1, <1>5, <1>6
<1>8. ASSUME NEW s \in Sources PROVE CacheOK(s)'
  <2>1. CacheOK(s)
    BY DEF KernelInv
  <2>2. cache'[s].artifact = cache[s].artifact \/ (s = k /\ cache'[s].artifact = x)
    BY <1>1, <1>5, <1>6
  <2>3. cache'[s].receipt = cache[s].receipt \/ (s = k /\ cache'[s].receipt = x)
    BY <1>1, <1>5, <1>6
  <2> QED
    BY <1>1, <1>3, <2>1, <2>2, <2>3 DEF CacheOK
<1>9. (\A p \in Processes : SessionOK(p)') /\ KernelCurrent' /\ session' \in [Processes -> Opened]
  BY <1>3 DEF KernelInv, KernelTypeOK, SessionOK, KernelCurrent
<1> QED
  BY <1>0, <1>2, <1>3, <1>4, <1>7, <1>8, <1>9, OneCall DEF Points, Stamped

\* A call that ends, with the session that is kept, with a new one or without.
LEMMA EndingKeeps ==
    ASSUME KernelInv, NEW c \in Callers, EnterReuse(c) \/ BuildFails(c) \/ Open(c)
    PROVE  KernelInv'
<1>0. /\ source \in Sources /\ edits \in Nat /\ at \in [Callers -> Points]
      /\ session \in [Processes -> Opened] /\ placement[c] \in Processes
      /\ hand \in [Callers -> Hands] /\ hand[c] \in Hands /\ CallOK(c)
  BY DEF KernelInv, KernelTypeOK, Processes
<1>1. NothingInHand \in Hands
  BY DEF NothingInHand, Hands
<1>2. /\ at' = [at EXCEPT ![c] = "idle"] /\ hand' = [hand EXCEPT ![c] = NothingInHand]
      /\ UNCHANGED <<placement, source, edits, cache, raced>>
  BY DEF EnterReuse, BuildFails, Open, Step, Answer, Drop
<1>3. CallOK(c)'
  BY <1>0, <1>2 DEF CallOK, Stamped, Keyed, Armed
<1>4. (\A s \in Sources : CacheOK(s)')
  BY <1>2 DEF KernelInv, CacheOK
<1>5. cache' \in [Sources -> [artifact : Sources \cup {NoArtifact}, receipt : Sources \cup {NoArtifact}]]
  BY <1>2 DEF KernelInv, KernelTypeOK
<1>6. ASSUME session' \in [Processes -> Opened], \A p \in Processes : SessionOK(p)', KernelCurrent'
      PROVE  KernelInv'
  BY <1>1, <1>2, <1>3, <1>4, <1>5, <1>6, OneCall DEF Points
<1>7. CASE BuildFails(c)
  BY <1>0, <1>2, <1>6, <1>7 DEF BuildFails, KernelInv, SessionOK, KernelCurrent
<1>8. CASE EnterReuse(c)
  <2> DEFINE s == session[placement[c]]
  <2>1. /\ at[c] = "enter" /\ session' = session /\ s.artifact # NoArtifact /\ s.stamp = hand[c].stamp
        /\ got' = [artifact |-> s.artifact,
                   of |-> IF hand[c].began = edits THEN source ELSE NoArtifact]
    BY <1>8 DEF EnterReuse, Step, MustBuild, Answer
  <2>2. SessionOK(placement[c])
    BY <1>0 DEF KernelInv
  <2>3. hand[c].began = edits => hand[c].stamp[2] = edits
    <3>1. /\ hand[c].stamp[2] \in Nat /\ hand[c].began \in Nat
          /\ hand[c].began <= hand[c].stamp[2] /\ hand[c].stamp[2] <= edits
      BY <1>0, <2>1 DEF CallOK, Stamped, Hands
    <3> QED
      BY <1>0, <3>1
  <2>4. KernelCurrent'
    BY <1>2, <2>1, <2>2, <2>3 DEF KernelCurrent, SessionOK
  <2>5. \A p \in Processes : SessionOK(p)'
    BY <1>2, <2>1 DEF KernelInv, SessionOK
  <2> QED
    BY <1>0, <1>6, <2>1, <2>4, <2>5
<1>9. CASE Open(c)
  <2> DEFINE new == [artifact |-> hand[c].artifact, stamp |-> hand[c].stamp]
  <2>1. /\ at[c] = "open" /\ session' = [session EXCEPT ![placement[c]] = new]
        /\ got' = [artifact |-> hand[c].artifact,
                   of |-> IF hand[c].began = edits THEN source ELSE NoArtifact]
    BY <1>9 DEF Open, Step, Answer
  <2>2. new \in Opened /\ new.artifact = hand[c].artifact /\ new.stamp = hand[c].stamp
    BY <1>0 DEF Opened, Hands
  <2>3. /\ hand[c].stamp \in Sources \X Nat /\ hand[c].stamp[2] \in Nat /\ hand[c].began \in Nat
        /\ hand[c].keyed \in Nat
        /\ hand[c].began <= hand[c].stamp[2] /\ hand[c].stamp[2] <= hand[c].keyed
        /\ hand[c].keyed <= edits /\ hand[c].stamp[2] <= edits
        /\ hand[c].keyed = edits => hand[c].key = source
        /\ hand[c].artifact = hand[c].key \/ hand[c].key \in raced
    BY <1>0, <2>1 DEF CallOK, Stamped, Keyed, Armed, Hands
  <2>4. hand[c].stamp[2] = edits => hand[c].artifact = source \/ source \in raced
    BY <1>0, <2>3
  <2>5. hand[c].began = edits => hand[c].artifact = source \/ source \in raced
    BY <1>0, <2>3, <2>4
  <2>6. KernelCurrent'
    BY <1>2, <2>1, <2>5 DEF KernelCurrent
  <2> HIDE DEF new
  <2>7. ASSUME NEW p \in Processes PROVE SessionOK(p)'
    <3>1. CASE p = placement[c]
      <4>1. session'[p] = new
        BY <1>0, <2>1, <3>1
      <4> QED
        BY <1>2, <2>2, <2>3, <2>4, <4>1 DEF SessionOK
    <3>2. CASE p # placement[c]
      <4>1. session'[p] = session[p] /\ SessionOK(p)
        BY <1>0, <2>1, <3>2 DEF KernelInv
      <4> QED
        BY <1>2, <4>1 DEF SessionOK
    <3> QED
      BY <3>1, <3>2
  <2>8. session' \in [Processes -> Opened]
    BY <1>0, <2>1, <2>2
  <2> QED
    BY <1>6, <2>6, <2>7, <2>8
<1> QED
  BY <1>7, <1>8, <1>9

-----------------------------------------------------------------------------
\* The first state, with an empty cache, satisfies the invariant.
LEMMA InitKernel ==
    ASSUME KernelInit
    PROVE  KernelInv
<1>1. source \in Sources
  BY KernelAssumption DEF KernelInit
<1>2. NothingInHand \in Hands /\ NoSession \in Opened
  BY DEF NothingInHand, Hands, NoSession, Opened
<1>3. KernelTypeOK
  BY <1>1, <1>2 DEF KernelInit, KernelTypeOK, Points
<1> QED
  BY <1>1, <1>3, KernelAssumption
     DEF KernelInit, KernelInv, CallOK, SessionOK, CacheOK, KernelCurrent, NoSession, Stamped, Keyed, Armed

\* Every step, and every stutter, preserves the invariant.
LEMMA StepKernel ==
    ASSUME KernelInv, [KernelNext]_kernelVars
    PROVE  KernelInv'
<1>1. CASE UNCHANGED kernelVars
  BY <1>1 DEF kernelVars, KernelInv, KernelTypeOK, Processes, CallOK, SessionOK, CacheOK, KernelCurrent
<1>2. CASE KernelNext
  BY <1>2, ReadingKeeps, ArmingKeeps, WritingKeeps, EndingKeeps, EditKeeps, DieKeeps DEF KernelNext
<1> QED
  BY <1>1, <1>2

\* In every reachable state the inductive invariant holds.
THEOREM KernelInvariant == KernelSpec => []KernelInv
BY InitKernel, StepKernel, PTL DEF KernelSpec

\* pressure_kernel answers with a session of the inputs as they are, and the cache
\* vouches for no artifact of other inputs, unless an edit fell between the digest
\* and the compile of one call.
THEOREM KernelIsSound == KernelSpec => []KernelSound
<1>1. KernelInv => KernelSound
  BY DEF KernelInv, KernelSound, CacheSound, CacheOK
<1> QED
  BY <1>1, KernelInvariant, PTL

-----------------------------------------------------------------------------
\* The replays of the registry.

\* A nonempty set of numbers has a smallest one.
LEMMA SmallestIn ==
    ASSUME NEW S, S \subseteq Nat, S # {}
    PROVE  \E m \in S : \A n \in S : m <= n
<1> DEFINE R == {ss \in Nat \X Nat : ss[1] < ss[2]}
<1>1. IsWellFoundedOn(R, Nat)
  BY NatLessThanWellFounded DEF OpToRel
<1> HIDE DEF R
<1>2. PICK m \in S : \A n \in S : <<n, m>> \notin R
  BY <1>1, WFMin
<1>3. \A n \in S : ~(n < m)
  BY <1>2 DEF R
<1> QED
  BY <1>3

\* What holds of 0 and goes from each number to the next holds up to n.
LEMMA UpTo ==
    ASSUME NEW n \in Nat, NEW S, 0 \in S, \A i \in 1..n : i - 1 \in S => i \in S
    PROVE  0..n \subseteq S
<1> DEFINE Bad == {i \in 0..n : i \notin S}
<1> SUFFICES ASSUME Bad # {} PROVE FALSE
  OBVIOUS
<1>1. Bad \subseteq Nat
  OBVIOUS
<1>2. PICK i \in Bad : \A j \in Bad : i <= j
  BY <1>1, SmallestIn
<1>3. i \in 1..n /\ i - 1 \in 0..n /\ i - 1 \notin Bad
  BY <1>2
<1> QED
  BY <1>2, <1>3

ProjectStart == [status |-> "discovered", head |-> 0, seen |-> 0, valid |-> TRUE]
NativeStart  == [status |-> "discovered", head |-> 0, processed |-> 0, conflicted |-> FALSE]

\* f is the replay of _project_one over n steps, g that of the native fold.
Projects(f, n, d, p) ==
    f = [i \in 0..n |-> IF i = 0 THEN ProjectStart ELSE ProjectAdvance(f[i - 1], d, p)]

Folds(g, n, ts) ==
    g = [i \in 0..n |-> IF i = 0 THEN NativeStart ELSE NativeAdvance(g[i - 1], ts)]

\* Both exist: they are the values that Project and NativeFold choose.
LEMMA ProjectsExists ==
    ASSUME NEW n \in Nat, NEW d, NEW p
    PROVE  \E f : Projects(f, n, d, p)
<1> DEFINE S == {k \in Nat : \E f : Projects(f, k, d, p)}
<1>1. 0 \in S
  <2> DEFINE f == [i \in 0..0 |-> ProjectStart]
  <2>1. Projects(f, 0, d, p)
    BY DEF Projects
  <2> QED
    BY <2>1
<1>2. ASSUME NEW k \in 1..n, k - 1 \in S PROVE k \in S
  <2>1. PICK f : Projects(f, k - 1, d, p)
    BY <1>2
  <2> DEFINE g == [i \in 0..k |-> IF i < k THEN f[i] ELSE ProjectAdvance(f[k - 1], d, p)]
  <2>2. \A i \in 0..(k - 1) : f[i] = IF i = 0 THEN ProjectStart ELSE ProjectAdvance(f[i - 1], d, p)
    BY <2>1 DEF Projects
  <2>3. ASSUME NEW i \in 0..k
        PROVE  g[i] = IF i = 0 THEN ProjectStart ELSE ProjectAdvance(g[i - 1], d, p)
    <3>1. CASE i = k
      BY <3>1
    <3>2. CASE i # k
      BY <2>2, <3>2
    <3> QED
      BY <3>1, <3>2
  <2>4. g = [i \in 0..k |-> g[i]]
    OBVIOUS
  <2> HIDE DEF g
  <2>5. Projects(g, k, d, p)
    BY <2>3, <2>4 DEF Projects
  <2> QED
    BY <2>5
<1> HIDE DEF S
<1>3. 0..n \subseteq S
  BY <1>1, <1>2, UpTo
<1> QED
  BY <1>3 DEF S

LEMMA FoldsExists ==
    ASSUME NEW n \in Nat, NEW ts
    PROVE  \E g : Folds(g, n, ts)
<1> DEFINE S == {k \in Nat : \E g : Folds(g, k, ts)}
<1>1. 0 \in S
  <2> DEFINE f == [i \in 0..0 |-> NativeStart]
  <2>1. Folds(f, 0, ts)
    BY DEF Folds
  <2> QED
    BY <2>1
<1>2. ASSUME NEW k \in 1..n, k - 1 \in S PROVE k \in S
  <2>1. PICK f : Folds(f, k - 1, ts)
    BY <1>2
  <2> DEFINE g == [i \in 0..k |-> IF i < k THEN f[i] ELSE NativeAdvance(f[k - 1], ts)]
  <2>2. \A i \in 0..(k - 1) : f[i] = IF i = 0 THEN NativeStart ELSE NativeAdvance(f[i - 1], ts)
    BY <2>1 DEF Folds
  <2>3. ASSUME NEW i \in 0..k
        PROVE  g[i] = IF i = 0 THEN NativeStart ELSE NativeAdvance(g[i - 1], ts)
    <3>1. CASE i = k
      BY <3>1
    <3>2. CASE i # k
      BY <2>2, <3>2
    <3> QED
      BY <3>1, <3>2
  <2>4. g = [i \in 0..k |-> g[i]]
    OBVIOUS
  <2> HIDE DEF g
  <2>5. Folds(g, k, ts)
    BY <2>3, <2>4 DEF Folds
  <2> QED
    BY <2>5
<1> HIDE DEF S
<1>3. 0..n \subseteq S
  BY <1>1, <1>2, UpTo
<1> QED
  BY <1>3 DEF S

\* Project is the last state of its replay, with the count compared.
LEMMA ProjectIsReplay ==
    ASSUME NEW d, NEW p, NEW n, n = Cardinality(TransitionsOf(d, p)), n \in Nat
    PROVE  \E f : /\ Projects(f, n, d, p)
                  /\ Project(d, p) = [f[n] EXCEPT !.valid = @ /\ f[n].seen = n]
<1> DEFINE F == CHOOSE f : f = [i \in 0..n |->
                  IF i = 0 THEN [status |-> "discovered", head |-> 0, seen |-> 0, valid |-> TRUE]
                           ELSE ProjectAdvance(f[i - 1], d, p)]
<1>1. PICK f : Projects(f, n, d, p)
  BY ProjectsExists
<1>2. f = [i \in 0..n |->
             IF i = 0 THEN [status |-> "discovered", head |-> 0, seen |-> 0, valid |-> TRUE]
                      ELSE ProjectAdvance(f[i - 1], d, p)]
  BY <1>1 DEF Projects, ProjectStart
<1>3. F = [i \in 0..n |->
             IF i = 0 THEN [status |-> "discovered", head |-> 0, seen |-> 0, valid |-> TRUE]
                      ELSE ProjectAdvance(F[i - 1], d, p)]
  BY <1>2
<1>4. Projects(F, n, d, p)
  BY <1>3 DEF Projects, ProjectStart
<1>5. Project(d, p) = [F[n] EXCEPT !.valid = @ /\ F[n].seen = n]
  BY DEF Project
<1> QED
  BY <1>4, <1>5

LEMMA NativeIsReplay ==
    ASSUME NEW d, NEW p, NEW n, n = Cardinality(TransitionsOf(d, p)), n \in Nat
    PROVE  \E g : /\ Folds(g, n, TransitionsOf(d, p))
                  /\ NativeFold(d, p) = IF g[n].conflicted \/ g[n].processed # n
                                        THEN "conflicted" ELSE g[n].status
<1> DEFINE ts == TransitionsOf(d, p)
           G == CHOOSE g : g = [i \in 0..n |->
                  IF i = 0 THEN [status |-> "discovered", head |-> 0, processed |-> 0, conflicted |-> FALSE]
                           ELSE NativeAdvance(g[i - 1], ts)]
<1>1. PICK g : Folds(g, n, ts)
  BY FoldsExists
<1>2. g = [i \in 0..n |->
             IF i = 0 THEN [status |-> "discovered", head |-> 0, processed |-> 0, conflicted |-> FALSE]
                      ELSE NativeAdvance(g[i - 1], ts)]
  BY <1>1 DEF Folds, NativeStart
<1>3. G = [i \in 0..n |->
             IF i = 0 THEN [status |-> "discovered", head |-> 0, processed |-> 0, conflicted |-> FALSE]
                      ELSE NativeAdvance(G[i - 1], ts)]
  BY <1>2
<1>4. Folds(G, n, ts)
  BY <1>3 DEF Folds, NativeStart
<1>5. NativeFold(d, p) = IF G[n].conflicted \/ G[n].processed # n THEN "conflicted" ELSE G[n].status
  BY DEF NativeFold
<1> QED
  BY <1>4, <1>5

\* The states of a replay are records of a status, a head, a count of at most
\* the steps that were made, and a verdict.
ReplayState(w) ==
    w = [status |-> w.status, head |-> w.head, seen |-> w.seen, valid |-> w.valid]

LEMMA StateFields ==
    ASSUME NEW w, NEW a, NEW h, NEW c, NEW v,
           w = [status |-> a, head |-> h, seen |-> c, valid |-> v]
    PROVE  ReplayState(w) /\ w.status = a /\ w.head = h /\ w.seen = c /\ w.valid = v
<1>1. w.status = a /\ w.head = h /\ w.seen = c /\ w.valid = v
  OBVIOUS
<1> QED
  BY <1>1 DEF ReplayState

LEMMA ReplayStates ==
    ASSUME NEW d, NEW p, NEW n \in Nat, NEW f, Projects(f, n, d, p)
    PROVE  \A i \in 0..n : ReplayState(f[i]) /\ f[i].seen \in 0..i /\ f[i].valid \in BOOLEAN
<1> DEFINE S == {i \in 0..n : ReplayState(f[i]) /\ f[i].seen \in 0..i /\ f[i].valid \in BOOLEAN}
<1>1. f[0] = ProjectStart /\ \A i \in 1..n : f[i] = ProjectAdvance(f[i - 1], d, p)
  BY DEF Projects
<1>2. 0 \in S
  <2>1. ReplayState(f[0]) /\ f[0].seen = 0 /\ f[0].valid = TRUE
    BY <1>1, StateFields DEF ProjectStart
  <2>2. f[0].valid \in BOOLEAN
    BY <2>1, Zenon
  <2> QED
    BY <2>1, <2>2
<1>3. ASSUME NEW i \in 1..n, i - 1 \in S PROVE i \in S
  <2> DEFINE w == f[i - 1]
             t == CHOOSE t \in Successors(TransitionsOf(d, p), w.head) : TRUE
  <2>1. ReplayState(w) /\ w.seen \in 0..(i - 1) /\ w.valid \in BOOLEAN
    BY <1>3
  <2>2. \/ f[i] = w
        \/ f[i] = [w EXCEPT !.valid = FALSE]
        \/ f[i] = [status |-> t.to, head |-> t.id, seen |-> w.seen + 1, valid |-> TRUE]
    BY <1>1 DEF ProjectAdvance
  <2> HIDE DEF w, t
  <2>3. CASE f[i] = w
    BY <2>1, <2>3
  <2>4. CASE f[i] = [w EXCEPT !.valid = FALSE]
    <3>1. f[i] = [status |-> w.status, head |-> w.head, seen |-> w.seen, valid |-> FALSE]
      BY <2>1, <2>4 DEF ReplayState
    <3>2. ReplayState(f[i]) /\ f[i].seen = w.seen /\ f[i].valid = FALSE
      BY <3>1, StateFields
    <3>3. f[i].valid \in BOOLEAN
      BY <3>2, Zenon
    <3> QED
      BY <2>1, <3>2, <3>3
  <2>5. CASE f[i] = [status |-> t.to, head |-> t.id, seen |-> w.seen + 1, valid |-> TRUE]
    <3>1. ReplayState(f[i]) /\ f[i].seen = w.seen + 1 /\ f[i].valid = TRUE
      BY <2>5, StateFields
    <3>2. f[i].valid \in BOOLEAN
      BY <3>1, Zenon
    <3> QED
      BY <2>1, <3>1, <3>2
  <2> QED
    BY <2>2, <2>3, <2>4, <2>5
<1> HIDE DEF S
<1>4. 0..n \subseteq S
  BY <1>2, <1>3, UpTo
<1> QED
  BY <1>4 DEF S

\* The transition that a replay f takes in step i.
Taken(f, i, d, p) == CHOOSE t \in Successors(TransitionsOf(d, p), f[i - 1].head) : TRUE

\* Each of n steps of a replay takes the only successor of its head.
TakesEach(f, n, d, p) ==
    \A i \in 1..n :
        /\ Successors(TransitionsOf(d, p), f[i - 1].head) = {Taken(f, i, d, p)}
        /\ Follows(Taken(f, i, d, p), f[i - 1].status, d, p)
        /\ f[i] = [status |-> Taken(f, i, d, p).to, head |-> Taken(f, i, d, p).id,
                   seen |-> i, valid |-> TRUE]

\* A replay that ends valid, with as many transitions seen as it made steps, took
\* in each step the only successor of its head.
LEMMA EveryStepTakes ==
    ASSUME NEW d, NEW p, NEW n \in Nat, NEW f, Projects(f, n, d, p),
           IsFiniteSet(TransitionsOf(d, p)), f[n].valid = TRUE, f[n].seen = n
    PROVE  f[0] = ProjectStart /\ TakesEach(f, n, d, p)
<1>1. f[0] = ProjectStart /\ \A i \in 1..n : f[i] = ProjectAdvance(f[i - 1], d, p)
  BY DEF Projects
<1>2. \A i \in 0..n : ReplayState(f[i]) /\ f[i].seen \in 0..i /\ f[i].valid \in BOOLEAN
  BY ReplayStates
<1> DEFINE Full(i) == f[i].valid = TRUE /\ f[i].seen = i
<1>3. ASSUME NEW i \in 1..n, Full(i)
      PROVE  /\ Full(i - 1)
             /\ Successors(TransitionsOf(d, p), f[i - 1].head) # {}
             /\ ~(Cardinality(Successors(TransitionsOf(d, p), f[i - 1].head)) > 1)
             /\ Follows(Taken(f, i, d, p), f[i - 1].status, d, p)
             /\ f[i] = [status |-> Taken(f, i, d, p).to, head |-> Taken(f, i, d, p).id,
                        seen |-> f[i - 1].seen + 1, valid |-> TRUE]
  <2> DEFINE w == f[i - 1]
             next == Successors(TransitionsOf(d, p), w.head)
             t == Taken(f, i, d, p)
  <2>1. ReplayState(w) /\ w.seen \in 0..(i - 1) /\ w.valid \in BOOLEAN
    BY <1>2
  <2>2. f[i] = IF ~w.valid \/ next = {} THEN w
               ELSE IF Cardinality(next) > 1 \/ ~Follows(t, w.status, d, p)
                    THEN [w EXCEPT !.valid = FALSE]
               ELSE [status |-> t.to, head |-> t.id, seen |-> w.seen + 1, valid |-> TRUE]
    BY <1>1 DEF ProjectAdvance, Taken
  <2> HIDE DEF w, next, t
  <2>3. f[i] # w
    BY <1>3, <2>1
  <2>4. f[i] # [w EXCEPT !.valid = FALSE]
    <3>1. [w EXCEPT !.valid = FALSE].valid = FALSE
      BY <2>1 DEF ReplayState
    <3> QED
      BY <1>3, <3>1
  <2>5. /\ w.valid /\ next # {} /\ ~(Cardinality(next) > 1) /\ Follows(t, w.status, d, p)
        /\ f[i] = [status |-> t.to, head |-> t.id, seen |-> w.seen + 1, valid |-> TRUE]
    BY <2>2, <2>3, <2>4
  <2>6. w.seen = i - 1
    BY <1>3, <2>1, <2>5
  <2> QED
    BY <2>5, <2>6 DEF w, next, t
<1>4. \A i \in 0..n : Full(i)
  <2> DEFINE S == {j \in Nat : j <= n => Full(n - j)}
  <2>1. 0 \in S
    OBVIOUS
  <2>2. ASSUME NEW j \in 1..n, j - 1 \in S PROVE j \in S
    <3>1. Full(n - (j - 1))
      BY <2>2
    <3>2. n - (j - 1) \in 1..n /\ (n - (j - 1)) - 1 = n - j
      OBVIOUS
    <3> HIDE DEF Full
    <3>3. Full((n - (j - 1)) - 1)
      BY <1>3, <3>1, <3>2
    <3> QED
      BY <3>2, <3>3
  <2> HIDE DEF S
  <2>3. 0..n \subseteq S
    BY <2>1, <2>2, UpTo
  <2>4. ASSUME NEW i \in 0..n PROVE Full(i)
    <3>1. n - i \in 0..n /\ n - (n - i) = i
      OBVIOUS
    <3>2. n - i \in S
      BY <2>3, <3>1
    <3> HIDE DEF Full
    <3> QED
      BY <3>1, <3>2 DEF S
  <2> QED
    BY <2>4
<1>5. ASSUME NEW i \in 1..n
      PROVE  /\ Successors(TransitionsOf(d, p), f[i - 1].head) = {Taken(f, i, d, p)}
             /\ Follows(Taken(f, i, d, p), f[i - 1].status, d, p)
             /\ f[i] = [status |-> Taken(f, i, d, p).to, head |-> Taken(f, i, d, p).id,
                        seen |-> i, valid |-> TRUE]
  <2> DEFINE next == Successors(TransitionsOf(d, p), f[i - 1].head)
  <2>1. i \in 0..n /\ i - 1 \in 0..n
    OBVIOUS
  <2>2. Full(i) /\ Full(i - 1)
    BY <1>4, <2>1
  <2>3. IsFiniteSet(next)
    <3>1. next \in SUBSET TransitionsOf(d, p)
      BY DEF Successors
    <3> QED
      BY <3>1, FS_Subset
  <2>4. next # {} /\ ~(Cardinality(next) > 1)
    BY <1>3, <2>2
  <2>5. Cardinality(next) = 1
    BY <2>3, <2>4, FS_EmptySet, FS_CardinalityType
  <2>6. PICK x : next = {x}
    BY <2>3, <2>5, FS_Singleton
  <2>7. Taken(f, i, d, p) = x
    BY <2>6 DEF Taken
  <2>8. /\ Follows(Taken(f, i, d, p), f[i - 1].status, d, p)
        /\ f[i] = [status |-> Taken(f, i, d, p).to, head |-> Taken(f, i, d, p).id,
                   seen |-> f[i - 1].seen + 1, valid |-> TRUE]
    BY <1>3, <2>2
  <2>9. f[i - 1].seen + 1 = i
    BY <2>2
  <2> QED
    BY <2>6, <2>7, <2>8, <2>9
<1> QED
  BY <1>1, <1>5 DEF TakesEach

\* A projection that is valid is a replay in which every step took a transition.
LEMMA ValidProjection ==
    ASSUME NEW d, NEW p, IsFiniteSet(TransitionsOf(d, p)), Project(d, p).valid
    PROVE  \E f : /\ Projects(f, Cardinality(TransitionsOf(d, p)), d, p)
                  /\ f[Cardinality(TransitionsOf(d, p))].valid = TRUE
                  /\ f[Cardinality(TransitionsOf(d, p))].seen = Cardinality(TransitionsOf(d, p))
                  /\ Project(d, p).status = f[Cardinality(TransitionsOf(d, p))].status
<1> DEFINE n == Cardinality(TransitionsOf(d, p))
<1>1. n \in Nat
  BY FS_CardinalityType
<1>2. PICK f : /\ Projects(f, n, d, p)
               /\ Project(d, p) = [f[n] EXCEPT !.valid = @ /\ f[n].seen = n]
  BY <1>1, ProjectIsReplay
<1> HIDE DEF n
<1>3. ReplayState(f[n])
  <2>1. n \in 0..n
    BY <1>1
  <2> QED
    BY <1>1, <1>2, <2>1, ReplayStates
<1> DEFINE v == f[n].valid /\ f[n].seen = n
<1>4. Project(d, p) = [status |-> f[n].status, head |-> f[n].head, seen |-> f[n].seen,
                       valid |-> v]
  BY <1>2, <1>3 DEF ReplayState
<1>5. f[n].valid = TRUE /\ f[n].seen = n
  <2> HIDE DEF v
  <2>1. Project(d, p).valid = v
    BY <1>4
  <2>2. v
    BY <2>1, Zenon
  <2>3. f[n].valid \in BOOLEAN
    <3>1. n \in 0..n
      BY <1>1
    <3> QED
      BY <1>1, <1>2, <3>1, ReplayStates
  <2> QED
    BY <2>2, <2>3, Zenon DEF v
<1>6. Project(d, p).status = f[n].status
  BY <1>4
<1> QED
  BY <1>2, <1>5, <1>6 DEF n

\* The native fold takes the same steps.
LEMMA FoldAgrees ==
    ASSUME NEW d, NEW p, IsFiniteSet(TransitionsOf(d, p)), Project(d, p).valid
    PROVE  NativeFold(d, p) = Project(d, p).status
<1> DEFINE ts == TransitionsOf(d, p)
           n == Cardinality(ts)
<1>1. n \in Nat
  BY FS_CardinalityType
<1>2. PICK f : /\ Projects(f, n, d, p) /\ f[n].valid = TRUE /\ f[n].seen = n
               /\ Project(d, p).status = f[n].status
  BY ValidProjection
<1>3. PICK g : /\ Folds(g, n, ts)
               /\ NativeFold(d, p) = IF g[n].conflicted \/ g[n].processed # n
                                     THEN "conflicted" ELSE g[n].status
  BY <1>1, NativeIsReplay
<1> HIDE DEF n
<1>4. /\ f[0] = ProjectStart
      /\ \A i \in 1..n :
            /\ Successors(ts, f[i - 1].head) = {Taken(f, i, d, p)}
            /\ Follows(Taken(f, i, d, p), f[i - 1].status, d, p)
            /\ f[i] = [status |-> Taken(f, i, d, p).to, head |-> Taken(f, i, d, p).id,
                       seen |-> i, valid |-> TRUE]
  <2>1. f[0] = ProjectStart /\ TakesEach(f, n, d, p)
    BY <1>1, <1>2, EveryStepTakes
  <2> QED
    BY <2>1 DEF TakesEach
<1>5. g[0] = NativeStart /\ \A i \in 1..n : g[i] = NativeAdvance(g[i - 1], ts)
  BY <1>1, <1>3 DEF Folds
<1> DEFINE Same(i) == g[i] = [status |-> f[i].status, head |-> f[i].head, processed |-> i,
                              conflicted |-> FALSE]
           S == {i \in 0..n : Same(i)}
<1>6. 0 \in S
  <2>1. f[0].status = "discovered" /\ f[0].head = 0
    BY <1>4 DEF ProjectStart
  <2>2. Same(0)
    BY <1>5, <2>1 DEF NativeStart
  <2>3. 0 \in 0..n
    BY <1>1
  <2> HIDE DEF Same
  <2> QED
    BY <2>2, <2>3
<1>7. ASSUME NEW i \in 1..n, i - 1 \in S PROVE i \in S
  <2> DEFINE t == Taken(f, i, d, p)
             w == g[i - 1]
  <2>1. /\ w.status = f[i - 1].status /\ w.head = f[i - 1].head /\ w.processed = i - 1
        /\ w.conflicted = FALSE
    BY <1>7
  <2>2. /\ Successors(ts, f[i - 1].head) = {t}
        /\ Follows(t, f[i - 1].status, d, p)
        /\ f[i] = [status |-> t.to, head |-> t.id, seen |-> i, valid |-> TRUE]
    BY <1>4
  <2>3. Cardinality(Successors(ts, w.head)) = 1
    BY <2>1, <2>2, FS_Singleton
  <2>4. (CHOOSE u \in Successors(ts, w.head) : TRUE) = t
    BY <2>1, <2>2
  <2>5. t.from = w.status /\ t.to \in Allowed[w.status]
    BY <2>1, <2>2 DEF Follows
  <2>6. ~w.conflicted /\ ~(w.processed >= n)
    BY <1>1, <2>1
  <2> HIDE DEF t, w, ts
  <2>7. NativeAdvance(w, ts) = [status |-> t.to, head |-> t.id, processed |-> w.processed + 1,
                                conflicted |-> FALSE]
    BY <2>3, <2>4, <2>5, <2>6 DEF NativeAdvance, n
  <2>8. g[i] = NativeAdvance(w, ts)
    BY <1>5 DEF w
  <2>9. f[i].status = t.to /\ f[i].head = t.id /\ w.processed + 1 = i
    BY <2>1, <2>2
  <2>10. Same(i)
    BY <2>7, <2>8, <2>9
  <2> QED
    BY <2>10
<1> HIDE DEF S
<1>8. 0..n \subseteq S
  BY <1>1, <1>6, <1>7, UpTo
<1>9. Same(n)
  BY <1>1, <1>8 DEF S
<1>10. g[n].status = f[n].status /\ g[n].processed = n /\ g[n].conflicted = FALSE
  BY <1>9
<1> QED
  BY <1>2, <1>3, <1>10

\* When ids grow along the chain, the steps took every transition, and no two
\* follow the same event.
LEMMA ChainTakesAll ==
    ASSUME NEW d, NEW p, IsFiniteSet(TransitionsOf(d, p)), Project(d, p).valid,
           \A t \in TransitionsOf(d, p) : t.id \in Nat /\ t.prev \in Nat /\ t.prev < t.id,
           NEW x \in TransitionsOf(d, p), NEW y \in TransitionsOf(d, p), x.prev = y.prev
    PROVE  x = y
<1> DEFINE ts == TransitionsOf(d, p)
           n == Cardinality(ts)
<1>1. n \in Nat
  BY FS_CardinalityType
<1>2. PICK f : Projects(f, n, d, p) /\ f[n].valid = TRUE /\ f[n].seen = n
  BY ValidProjection
<1> HIDE DEF n
<1>3. /\ f[0] = ProjectStart
      /\ \A i \in 1..n :
            /\ Successors(ts, f[i - 1].head) = {Taken(f, i, d, p)}
            /\ Follows(Taken(f, i, d, p), f[i - 1].status, d, p)
            /\ f[i] = [status |-> Taken(f, i, d, p).to, head |-> Taken(f, i, d, p).id,
                       seen |-> i, valid |-> TRUE]
  <2>1. f[0] = ProjectStart /\ TakesEach(f, n, d, p)
    BY <1>1, <1>2, EveryStepTakes
  <2> QED
    BY <2>1 DEF TakesEach
<1> DEFINE T(i) == Taken(f, i, d, p)
<1>4. \A i \in 1..n : /\ T(i) \in ts /\ T(i).prev = f[i - 1].head /\ T(i).id = f[i].head
                      /\ \A t \in ts : t.prev = f[i - 1].head => t = T(i)
  <2> SUFFICES ASSUME NEW i \in 1..n
               PROVE  /\ T(i) \in ts /\ T(i).prev = f[i - 1].head /\ T(i).id = f[i].head
                      /\ \A t \in ts : t.prev = f[i - 1].head => t = T(i)
    OBVIOUS
  <2>1. Successors(ts, f[i - 1].head) = {T(i)}
    BY <1>3
  <2>2. T(i).id = f[i].head
    <3>1. f[i] = [status |-> T(i).to, head |-> T(i).id, seen |-> i, valid |-> TRUE]
      BY <1>3
    <3> HIDE DEF T
    <3> QED
      BY <3>1
  <2>3. {t \in ts : t.prev = f[i - 1].head} = {T(i)}
    BY <2>1 DEF Successors
  <2> HIDE DEF T, ts
  <2> QED
    BY <2>2, <2>3
<1>5. \A i \in 1..n : f[i - 1].head \in Nat /\ f[i].head \in Nat /\ f[i - 1].head < f[i].head
  BY <1>4
<1>6. \A i \in 1..n, j \in 1..n : i < j => f[i].head < f[j].head
  <2> SUFFICES ASSUME NEW i \in 1..n
               PROVE  \A j \in 1..n : i < j => f[i].head < f[j].head
    OBVIOUS
  <2> DEFINE S == {j \in 0..n : i < j => f[i].head < f[j].head}
  <2>1. 0 \in S
    BY <1>1
  <2>2. ASSUME NEW j \in 1..n, j - 1 \in S PROVE j \in S
    BY <1>5, <2>2
  <2> HIDE DEF S
  <2>3. 0..n \subseteq S
    BY <1>1, <2>1, <2>2, UpTo
  <2> QED
    BY <1>1, <2>3 DEF S
<1> DEFINE m == [i \in 1..n |-> T(i)]
<1>7. m \in Injection(1..n, ts)
  <2>1. m \in [1..n -> ts]
    BY <1>4
  <2>2. ASSUME NEW i \in 1..n, NEW j \in 1..n, m[i] = m[j] PROVE i = j
    <3>1. f[i].head = f[j].head
      BY <1>4, <2>2
    <3> QED
      BY <1>5, <1>6, <3>1
  <2> HIDE DEF m
  <2> QED
    BY <2>1, <2>2 DEF Injection, IsInjective
<1>8. m \in Surjection(1..n, ts)
  <2>1. Cardinality(1..n) = n
    BY <1>1, FS_Interval
  <2> HIDE DEF m
  <2> QED
    BY <1>7, <2>1, FS_Injection DEF n
<1>9. PICK i \in 1..n : x = m[i]
  <2> HIDE DEF m
  <2> QED
    BY <1>8 DEF Surjection
<1> QED
  BY <1>4, <1>9

\* The head is the declaration or a transition of the pressure.
LEMMA HeadIsTransition ==
    ASSUME NEW d, NEW p, IsFiniteSet(TransitionsOf(d, p))
    PROVE  Project(d, p).head \in {0} \cup {t.id : t \in TransitionsOf(d, p)}
<1> DEFINE ts == TransitionsOf(d, p)
           n == Cardinality(ts)
           Heads == {0} \cup {t.id : t \in ts}
<1>1. n \in Nat
  BY FS_CardinalityType
<1>2. PICK f : /\ Projects(f, n, d, p)
               /\ Project(d, p) = [f[n] EXCEPT !.valid = @ /\ f[n].seen = n]
  BY <1>1, ProjectIsReplay
<1> HIDE DEF n
<1>3. \A i \in 0..n : ReplayState(f[i])
  BY <1>1, <1>2, ReplayStates
<1>4. f[0] = ProjectStart /\ \A i \in 1..n : f[i] = ProjectAdvance(f[i - 1], d, p)
  BY <1>1, <1>2 DEF Projects
<1> DEFINE S == {i \in 0..n : f[i].head \in Heads}
<1>5. 0 \in S
  BY <1>1, <1>4 DEF ProjectStart
<1>6. ASSUME NEW i \in 1..n, i - 1 \in S PROVE i \in S
  <2> DEFINE w == f[i - 1]
             next == Successors(ts, w.head)
             t == CHOOSE t \in next : TRUE
  <2>1. \/ f[i] = w
        \/ f[i] = [w EXCEPT !.valid = FALSE]
        \/ next # {} /\ f[i] = [status |-> t.to, head |-> t.id, seen |-> w.seen + 1, valid |-> TRUE]
    BY <1>4 DEF ProjectAdvance
  <2>2. next # {} => t \in ts
    BY DEF Successors
  <2>3. ReplayState(w) /\ w.head \in Heads
    BY <1>3, <1>6
  <2> HIDE DEF w, next, t
  <2>4. [w EXCEPT !.valid = FALSE].head = w.head
    BY <2>3 DEF ReplayState
  <2>5. CASE f[i] = [status |-> t.to, head |-> t.id, seen |-> w.seen + 1, valid |-> TRUE] /\ next # {}
    <3>1. f[i].head = t.id
      BY <2>5
    <3> QED
      BY <2>2, <2>5, <3>1
  <2>6. CASE f[i] = w \/ f[i] = [w EXCEPT !.valid = FALSE]
    <3>1. f[i].head = w.head
      BY <2>4, <2>6
    <3> HIDE DEF Heads
    <3> QED
      BY <2>3, <3>1
  <2> QED
    BY <2>1, <2>5, <2>6
<1> HIDE DEF S, Heads
<1>7. 0..n \subseteq S
  BY <1>1, <1>5, <1>6, UpTo
<1>8. f[n].head \in Heads
  BY <1>1, <1>7 DEF S
<1>9. Project(d, p).head = f[n].head
  <2>1. ReplayState(f[n])
    BY <1>1, <1>3
  <2> QED
    BY <1>2, <2>1 DEF ReplayState
<1> QED
  BY <1>8, <1>9 DEF Heads

-----------------------------------------------------------------------------
\* The documents of the checkouts and the calls that write them.

Fields == {"records", "observations", "transitions", "relations"}

\* Ids are given in order, and an event follows one with a smaller id.
Numbered(t) == t.id \in Nat /\ t.prev \in Nat /\ t.prev < t.id /\ t.id <= ids

DocsOK ==
    /\ DOMAIN docs = Checkouts
    /\ \A c \in Checkouts :
          /\ DOMAIN docs[c] = Fields
          /\ IsFiniteSet(docs[c].transitions)
          /\ \A t \in docs[c].transitions : Numbered(t)

\* What was acknowledged is there.
AckedOK ==
    /\ acked = [c \in Checkouts |-> acked[c]]
    /\ \A c \in Checkouts : acked[c] \subseteq docs[c].transitions

InFlight(a) == call[a].pc \in {"write transition", "check transition"}

\* An event that is being written is that of one call alone, and is not
\* acknowledged anywhere yet: only its own call may remove it.
CallsOK ==
    /\ DOMAIN call = Agents
    /\ \A a \in Agents :
          /\ InFlight(a) =>
                /\ "event" \in DOMAIN call[a] /\ Numbered(call[a].event)
                /\ \A c \in Checkouts : call[a].event \notin acked[c]
                /\ \A b \in Agents : InFlight(b) /\ b # a => call[a].event.id # call[b].event.id
          /\ call[a].pc = "check transition" =>
                call[a].event \in docs[CheckoutOf[a]].transitions

\* The inductive invariant of the registry.
RegistryInv == ids \in Nat /\ DocsOK /\ AckedOK /\ CallsOK

\* A checkout of an agent is a checkout.
LEMMA CheckoutType == \A a \in Agents : CheckoutOf[a] \in Checkouts
BY DEF Checkouts

\* A write of one field of a checkout leaves the other documents alone.
LEMMA OneField ==
    ASSUME RegistryInv, NEW c \in Checkouts, NEW field \in Fields, NEW v,
           docs' = [docs EXCEPT ![c][field] = v]
    PROVE  /\ DOMAIN docs' = Checkouts
           /\ \A e \in Checkouts :
                 /\ DOMAIN docs'[e] = Fields
                 /\ docs'[e].transitions = IF e = c /\ field = "transitions" THEN v
                                           ELSE docs[e].transitions
<1>1. /\ DOMAIN docs = Checkouts /\ \A e \in Checkouts : DOMAIN docs[e] = Fields
  BY DEF RegistryInv, DocsOK
<1>2. "transitions" \in Fields
  BY DEF Fields
<1>3. DOMAIN docs' = Checkouts
  BY <1>1
<1>4. \A e \in Checkouts : docs'[e] = IF e = c THEN [docs[c] EXCEPT ![field] = v] ELSE docs[e]
  BY <1>1
<1> QED
  BY <1>1, <1>2, <1>3, <1>4

\* A step that touches no transition, and no call that writes one, is harmless.
LEMMA QuietKeeps ==
    ASSUME RegistryInv, ids' = ids, acked' = acked, DOMAIN docs' = Checkouts,
           \A c \in Checkouts : DOMAIN docs'[c] = Fields /\ docs'[c].transitions = docs[c].transitions,
           DOMAIN call' = Agents,
           \A b \in Agents : InFlight(b)' => call'[b] = call[b]
    PROVE  RegistryInv'
<1>1. DocsOK'
  BY DEF RegistryInv, DocsOK, Numbered
<1>2. AckedOK'
  BY DEF RegistryInv, AckedOK
<1>3. \A b \in Agents : InFlight(b)' => InFlight(b)
  BY DEF InFlight
<1>4. CallsOK'
  <2> SUFFICES ASSUME NEW a \in Agents
               PROVE  /\ InFlight(a)' =>
                            /\ "event" \in DOMAIN call'[a] /\ Numbered(call[a].event)'
                            /\ \A c \in Checkouts : call'[a].event \notin acked'[c]
                            /\ \A b \in Agents :
                                  InFlight(b)' /\ b # a => call'[a].event.id # call'[b].event.id
                      /\ call'[a].pc = "check transition" =>
                            call'[a].event \in docs'[CheckoutOf[a]].transitions
    BY DEF CallsOK
  <2>1. InFlight(a)' => /\ "event" \in DOMAIN call'[a] /\ Numbered(call[a].event)'
                        /\ \A c \in Checkouts : call'[a].event \notin acked'[c]
    BY <1>3 DEF RegistryInv, CallsOK, Numbered
  <2>2. ASSUME InFlight(a)', NEW b \in Agents, InFlight(b)', b # a
        PROVE  call'[a].event.id # call'[b].event.id
    BY <1>3, <2>2, ZenonT(60) DEF RegistryInv, CallsOK
  <2>3. call'[a].pc = "check transition" => call'[a].event \in docs'[CheckoutOf[a]].transitions
    BY CheckoutType DEF RegistryInv, CallsOK, InFlight
  <2> QED
    BY <2>1, <2>2, <2>3
<1> QED
  BY <1>1, <1>2, <1>4 DEF RegistryInv

\* A record, an observation or a relation is written or removed.
LEMMA PutOther ==
    ASSUME RegistryInv, NEW a \in Agents, NEW field \in Fields \ {"transitions"}, NEW x,
           Put(a, field, x) \/ Unlink(a, field, x)
    PROVE  /\ DOMAIN docs' = Checkouts
           /\ \A c \in Checkouts : DOMAIN docs'[c] = Fields /\ docs'[c].transitions = docs[c].transitions
<1> DEFINE c == CheckoutOf[a]
<1>1. /\ c \in Checkouts /\ field \in Fields /\ field # "transitions" /\ "transitions" \in Fields
      /\ DOMAIN docs = Checkouts /\ \A e \in Checkouts : DOMAIN docs[e] = Fields
  BY CheckoutType DEF RegistryInv, DocsOK, Fields
<1>2. ASSUME NEW v, docs' = [docs EXCEPT ![c][field] = v]
      PROVE  /\ DOMAIN docs' = Checkouts
             /\ \A e \in Checkouts :
                   DOMAIN docs'[e] = Fields /\ docs'[e].transitions = docs[e].transitions
  <2> HIDE DEF c
  <2>1. DOMAIN docs' = Checkouts
    BY <1>1, <1>2
  <2>2. \A e \in Checkouts : docs'[e] = IF e = c THEN [docs[c] EXCEPT ![field] = v] ELSE docs[e]
    BY <1>1, <1>2
  <2>3. /\ DOMAIN [docs[c] EXCEPT ![field] = v] = Fields
        /\ [docs[c] EXCEPT ![field] = v].transitions = docs[c].transitions
    BY <1>1
  <2> QED
    BY <1>1, <2>1, <2>2, <2>3
<1>3. \/ docs' = [docs EXCEPT ![c][field] = docs[c][field] \cup {x}]
      \/ docs' = [docs EXCEPT ![c][field] = docs[c][field] \ {x}]
  BY DEF Put, Unlink
<1> HIDE DEF c
<1> QED
  BY <1>2, <1>3

\* A transition is written or removed.
LEMMA PutTransition ==
    ASSUME RegistryInv, NEW a \in Agents, NEW x
    PROVE  /\ Put(a, "transitions", x) =>
                /\ DOMAIN docs' = Checkouts
                /\ \A c \in Checkouts :
                      /\ DOMAIN docs'[c] = Fields
                      /\ docs'[c].transitions = IF c = CheckoutOf[a] THEN docs[c].transitions \cup {x}
                                                ELSE docs[c].transitions
           /\ Unlink(a, "transitions", x) =>
                /\ DOMAIN docs' = Checkouts
                /\ \A c \in Checkouts :
                      /\ DOMAIN docs'[c] = Fields
                      /\ docs'[c].transitions = IF c = CheckoutOf[a] THEN docs[c].transitions \ {x}
                                                ELSE docs[c].transitions
<1> DEFINE c == CheckoutOf[a]
<1>1. c \in Checkouts /\ "transitions" \in Fields
  BY CheckoutType DEF Fields
<1>2. ASSUME Put(a, "transitions", x)
      PROVE  /\ DOMAIN docs' = Checkouts
             /\ \A e \in Checkouts :
                   /\ DOMAIN docs'[e] = Fields
                   /\ docs'[e].transitions = IF e = c THEN docs[c].transitions \cup {x}
                                             ELSE docs[e].transitions
  <2>1. docs' = [docs EXCEPT ![c]["transitions"] = docs[c].transitions \cup {x}]
    BY <1>2 DEF Put
  <2> HIDE DEF c
  <2> QED
    BY <1>1, <2>1, OneField
<1>3. ASSUME Unlink(a, "transitions", x)
      PROVE  /\ DOMAIN docs' = Checkouts
             /\ \A e \in Checkouts :
                   /\ DOMAIN docs'[e] = Fields
                   /\ docs'[e].transitions = IF e = c THEN docs[c].transitions \ {x}
                                             ELSE docs[e].transitions
  <2>1. docs' = [docs EXCEPT ![c]["transitions"] = docs[c].transitions \ {x}]
    BY <1>3 DEF Unlink
  <2> HIDE DEF c
  <2> QED
    BY <1>1, <2>1, OneField
<1> QED
  BY <1>2, <1>3

\* The calls that write records, observations and relations.
LEMMA OtherCallsKeep ==
    ASSUME RegistryInv, NEW a \in Agents,
           \/ \E p \in Pressures : AddRecord(a, p)
           \/ AddObservation(a)
           \/ \E report \in Reports, at0 \in Instants \cup {NoInstant} : Observe(a, report, at0)
           \/ \E r \in RelationSpecs : Relate(a, r)
           \/ \E ledger \in Ledgers : MigrateStart(a, ledger)
           \/ CheckRaises(a)
    PROVE  RegistryInv'
<1> DEFINE Same == /\ DOMAIN docs' = Checkouts
                   /\ \A c \in Checkouts :
                         DOMAIN docs'[c] = Fields /\ docs'[c].transitions = docs[c].transitions
           Calm == DOMAIN call' = Agents /\ \A b \in Agents : InFlight(b)' => call'[b] = call[b]
<1>1. DOMAIN call = Agents /\ (docs' = docs => Same)
  BY DEF RegistryInv, CallsOK, DocsOK
<1>2. /\ "records" \in Fields \ {"transitions"} /\ "observations" \in Fields \ {"transitions"}
      /\ "relations" \in Fields \ {"transitions"}
  BY DEF Fields
<1>3. Same
  <2>1. ASSUME NEW p, AddRecord(a, p) PROVE Same
    BY <1>2, <2>1, PutOther DEF AddRecord
  <2>2. CASE AddObservation(a)
    BY <1>2, <2>2, PutOther DEF AddObservation
  <2>3. ASSUME NEW report, NEW at0, Observe(a, report, at0) PROVE Same
    BY <1>2, <2>3, PutOther DEF Observe
  <2>4. ASSUME NEW r, Relate(a, r) PROVE Same
    BY <1>2, <2>4, PutOther DEF Relate
  <2>5. ASSUME CheckRaises(a) \/ \E ledger \in Ledgers : MigrateStart(a, ledger) PROVE Same
    BY <1>1, <2>5 DEF CheckRaises, MigrateStart
  <2> QED
    BY <2>1, <2>2, <2>3, <2>4, <2>5
<1>4. Calm
  <2>1. ASSUME NEW l, l.pc \notin {"write transition", "check transition"},
               call' = [call EXCEPT ![a] = l]
        PROVE  Calm
    BY <1>1, <2>1 DEF InFlight
  <2>2. /\ NoCall.pc \notin {"write transition", "check transition"}
        /\ \A x : [NoCall EXCEPT !.pc = "first report", !.event = x].pc = "first report"
        /\ \A x : [NoCall EXCEPT !.pc = "check relation", !.event = x].pc = "check relation"
        /\ \A x : [NoCall EXCEPT !.pc = "migrate", !.todo = x].pc = "migrate"
    BY DEF NoCall
  <2>3. ASSUME NEW p, AddRecord(a, p) PROVE Calm
    <3>1. call' = [call EXCEPT ![a] = [NoCall EXCEPT !.pc = "first report", !.event = p]]
      BY <2>3 DEF AddRecord
    <3>2. [NoCall EXCEPT !.pc = "first report", !.event = p].pc \notin {"write transition", "check transition"}
      BY <2>2
    <3> QED
      BY <2>1, <3>1, <3>2
  <2>4. CASE AddObservation(a) \/ CheckRaises(a)
    BY <2>1, <2>2, <2>4 DEF AddObservation, CheckRaises, Return
  <2>5. ASSUME NEW report, NEW at0, Observe(a, report, at0) PROVE Calm
    BY <1>1, <2>5 DEF Observe
  <2>6. ASSUME NEW r, Relate(a, r) PROVE Calm
    <3>1. call' = [call EXCEPT ![a] = [NoCall EXCEPT !.pc = "check relation", !.event = r]]
      BY <2>6 DEF Relate
    <3>2. [NoCall EXCEPT !.pc = "check relation", !.event = r].pc \notin {"write transition", "check transition"}
      BY <2>2
    <3> QED
      BY <2>1, <3>1, <3>2
  <2>7. ASSUME NEW ledger, MigrateStart(a, ledger) PROVE Calm
    <3>1. call' = [call EXCEPT ![a] = [NoCall EXCEPT !.pc = "migrate", !.todo = ledger]]
      BY <2>7 DEF MigrateStart
    <3>2. [NoCall EXCEPT !.pc = "migrate", !.todo = ledger].pc \notin {"write transition", "check transition"}
      BY <2>2
    <3> QED
      BY <2>1, <3>1, <3>2
  <2> QED
    BY <2>3, <2>4, <2>5, <2>6, <2>7
<1>5. ids' = ids /\ acked' = acked
  BY DEF AddRecord, AddObservation, Observe, Relate, MigrateStart, CheckRaises
<1> QED
  BY <1>3, <1>4, <1>5, QuietKeeps

\* migrate_legacy writes a record and its first observation.
LEMMA MigrateKeeps ==
    ASSUME RegistryInv, NEW a \in Agents, MigrateNext(a)
    PROVE  RegistryInv'
<1> DEFINE e == CheckoutOf[a]
<1>1. /\ DOMAIN call = Agents /\ DOMAIN docs = Checkouts /\ e \in Checkouts
      /\ \A c \in Checkouts : DOMAIN docs[c] = Fields
  BY CheckoutType DEF RegistryInv, CallsOK, DocsOK
<1>2. /\ "records" \in Fields /\ "observations" \in Fields /\ "transitions" \in Fields
  BY DEF Fields
<1>3. \/ docs' = docs
      \/ \E v, w : docs' = [docs EXCEPT ![e] = [docs[e] EXCEPT !.records = v, !.observations = w]]
  <2> DEFINE p == Head(call[a].todo)
  <2>1. ASSUME NEW r, docs' = [docs EXCEPT ![e].records = @ \cup {p},
                                           ![e].observations = @ \cup {FirstReport(p, r, NoInstant)}]
        PROVE  docs' = [docs EXCEPT ![e] = [docs[e] EXCEPT !.records = docs[e].records \cup {p},
                            !.observations = docs[e].observations \cup {FirstReport(p, r, NoInstant)}]]
    <3> HIDE DEF e, p
    <3> QED
      BY <1>1, <1>2, <2>1
  <2>2. \/ docs' = docs
        \/ \E r : docs' = [docs EXCEPT ![e].records = @ \cup {p},
                                       ![e].observations = @ \cup {FirstReport(p, r, NoInstant)}]
    BY DEF MigrateNext
  <2> QED
    BY <2>1, <2>2
<1>4. /\ DOMAIN docs' = Checkouts
      /\ \A c \in Checkouts : DOMAIN docs'[c] = Fields /\ docs'[c].transitions = docs[c].transitions
  <2> HIDE DEF e
  <2>1. ASSUME NEW v, NEW w, docs' = [docs EXCEPT ![e] = [docs[e] EXCEPT !.records = v, !.observations = w]]
        PROVE  /\ DOMAIN docs' = Checkouts
               /\ \A c \in Checkouts : DOMAIN docs'[c] = Fields /\ docs'[c].transitions = docs[c].transitions
    <3>1. \A c \in Checkouts : docs'[c] = IF c = e THEN [docs[e] EXCEPT !.records = v, !.observations = w]
                                          ELSE docs[c]
      BY <1>1, <2>1
    <3> QED
      BY <1>1, <1>2, <2>1, <3>1
  <2> QED
    BY <1>1, <1>3, <2>1
<1>5. DOMAIN call' = Agents /\ \A b \in Agents : InFlight(b)' => call'[b] = call[b]
  <2>1. call[a].pc = "migrate"
    BY DEF MigrateNext
  <2>2. CASE Return(a)
    BY <1>1, <2>2 DEF Return, NoCall, InFlight
  <2>3. CASE call' = [call EXCEPT ![a].todo = Tail(@)]
    <3>1. DOMAIN call' = Agents /\ \A b \in Agents : b # a => call'[b] = call[b]
      BY <1>1, <2>3
    <3>2. call'[a] = [call[a] EXCEPT !.todo = Tail(@)]
      BY <1>1, <2>3
    <3>3. call'[a].pc = call[a].pc
      BY <3>2
    <3> QED
      BY <2>1, <3>1, <3>3 DEF InFlight
  <2> QED
    BY <2>2, <2>3 DEF MigrateNext
<1>6. ids' = ids /\ acked' = acked
  BY DEF MigrateNext
<1> QED
  BY <1>4, <1>5, <1>6, QuietKeeps

\* transition reads the pressure and makes an event with a new id.
LEMMA TransitionReadKeeps ==
    ASSUME RegistryInv, NEW a \in Agents, NEW p, NEW to, NEW refs, NEW at0,
           TransitionRead(a, p, to, refs, at0)
    PROVE  RegistryInv'
<1> DEFINE d == Registry(a)
           head == Project(d, p).head
           event == [id |-> ids + 1, pressure |-> p, prev |-> Show(d, p).head,
                     from |-> Show(d, p).status, to |-> to, at |-> at0, refs |-> refs]
<1>1. /\ ids \in Nat /\ DOMAIN call = Agents
      /\ d = docs[CheckoutOf[a]] /\ IsFiniteSet(d.transitions)
      /\ \A t \in d.transitions : Numbered(t)
  BY CheckoutType DEF RegistryInv, DocsOK, CallsOK, Registry
<1>2. head \in 0..ids
  <2>1. IsFiniteSet(TransitionsOf(d, p)) /\ TransitionsOf(d, p) \subseteq d.transitions
    <3>1. TransitionsOf(d, p) \subseteq d.transitions
      BY DEF TransitionsOf
    <3> QED
      BY <1>1, <3>1, FS_Subset
  <2>2. head \in {0} \cup {t.id : t \in TransitionsOf(d, p)}
    BY <2>1, HeadIsTransition
  <2> HIDE DEF d, head
  <2> QED
    BY <1>1, <2>1, <2>2 DEF Numbered
<1>3. event.id = ids + 1 /\ event.prev = head
  BY DEF Show
<1>4. /\ call' = [call EXCEPT ![a] = [NoCall EXCEPT !.pc = "write transition", !.event = event]]
      /\ ids' = ids + 1 /\ docs' = docs /\ acked' = acked
  BY DEF TransitionRead
<1> HIDE DEF event, head, d
<1>5. /\ DOMAIN call' = Agents
      /\ call'[a].pc = "write transition" /\ call'[a].event = event /\ "event" \in DOMAIN call'[a]
      /\ \A b \in Agents : b # a => call'[b] = call[b]
  <2>1. /\ [NoCall EXCEPT !.pc = "write transition", !.event = event].pc = "write transition"
        /\ [NoCall EXCEPT !.pc = "write transition", !.event = event].event = event
        /\ "event" \in DOMAIN [NoCall EXCEPT !.pc = "write transition", !.event = event]
    BY DEF NoCall
  <2> QED
    BY <1>1, <1>4, <2>1
<1>6. /\ event.id \in Nat /\ event.prev \in Nat /\ event.prev < event.id /\ event.id <= ids'
      /\ \A t : Numbered(t) => Numbered(t)' /\ t.id # event.id
  BY <1>1, <1>2, <1>3, <1>4 DEF Numbered
<1>7. DocsOK' /\ AckedOK'
  BY <1>4, <1>6 DEF RegistryInv, DocsOK, AckedOK
<1>8. \A c \in Checkouts : event \notin acked[c]
  BY <1>6 DEF RegistryInv, DocsOK, AckedOK
<1>9. \A b \in Agents : b # a /\ InFlight(b)' => InFlight(b) /\ call[b].event.id # event.id
  BY <1>5, <1>6 DEF RegistryInv, CallsOK, InFlight
<1>10. CallsOK'
  <2> SUFFICES ASSUME NEW b \in Agents
               PROVE  /\ InFlight(b)' =>
                            /\ "event" \in DOMAIN call'[b] /\ Numbered(call[b].event)'
                            /\ \A c \in Checkouts : call'[b].event \notin acked'[c]
                            /\ \A e \in Agents :
                                  InFlight(e)' /\ e # b => call'[b].event.id # call'[e].event.id
                      /\ call'[b].pc = "check transition" =>
                            call'[b].event \in docs'[CheckoutOf[b]].transitions
    BY <1>5 DEF CallsOK
  <2>1. CASE b = a
    BY <1>4, <1>5, <1>6, <1>8, <1>9, <2>1 DEF Numbered
  <2>2. CASE b # a
    <3>1. InFlight(b)' => /\ "event" \in DOMAIN call'[b] /\ Numbered(call[b].event)'
                          /\ \A c \in Checkouts : call'[b].event \notin acked'[c]
      BY <1>4, <1>5, <1>6, <1>9, <2>2 DEF RegistryInv, CallsOK
    <3>2. ASSUME InFlight(b)', NEW e \in Agents, InFlight(e)', e # b
          PROVE  call'[b].event.id # call'[e].event.id
      BY <1>5, <1>9, <2>2, <3>2 DEF RegistryInv, CallsOK
    <3>3. call'[b].pc = "check transition" => call'[b].event \in docs'[CheckoutOf[b]].transitions
      BY <1>4, <1>5, <2>2 DEF RegistryInv, CallsOK
    <3> QED
      BY <3>1, <3>2, <3>3
  <2> QED
    BY <2>1, <2>2
<1> QED
  BY <1>1, <1>4, <1>7, <1>10 DEF RegistryInv

\* transition writes the file of its event.
LEMMA TransitionWriteKeeps ==
    ASSUME RegistryInv, NEW a \in Agents, TransitionWrite(a)
    PROVE  RegistryInv'
<1> DEFINE x == call[a].event
           e == CheckoutOf[a]
<1>1. /\ DOMAIN call = Agents /\ call[a].pc = "write transition" /\ InFlight(a)
      /\ ids' = ids /\ acked' = acked /\ e \in Checkouts
      /\ call' = [call EXCEPT ![a].pc = "check transition"]
  BY CheckoutType DEF RegistryInv, CallsOK, TransitionWrite, InFlight
<1>2. /\ DOMAIN docs' = Checkouts
      /\ \A c \in Checkouts :
            /\ DOMAIN docs'[c] = Fields
            /\ docs'[c].transitions = IF c = e THEN docs[c].transitions \cup {x}
                                      ELSE docs[c].transitions
  BY PutTransition DEF TransitionWrite
<1>3. Numbered(x)
  BY <1>1 DEF RegistryInv, CallsOK
<1> HIDE DEF e
<1>4. DocsOK'
  <2>1. \A c \in Checkouts : IsFiniteSet(docs'[c].transitions)
    <3> SUFFICES ASSUME NEW c \in Checkouts PROVE IsFiniteSet(docs'[c].transitions)
      OBVIOUS
    <3>1. IsFiniteSet(docs[c].transitions)
      BY DEF RegistryInv, DocsOK
    <3>2. IsFiniteSet(docs[c].transitions \cup {x})
      BY <3>1, FS_AddElement
    <3> QED
      BY <1>2, <3>1, <3>2
  <2>2. \A c \in Checkouts : \A t \in docs'[c].transitions : Numbered(t)'
    BY <1>1, <1>2, <1>3 DEF RegistryInv, DocsOK, Numbered
  <2> QED
    BY <1>2, <2>1, <2>2 DEF DocsOK
<1>5. AckedOK'
  BY <1>1, <1>2 DEF RegistryInv, AckedOK
<1>6. /\ DOMAIN call' = Agents
      /\ \A b \in Agents : b # a => call'[b] = call[b]
      /\ call'[a].event = x
      /\ \A b \in Agents : call'[b].event = call[b].event /\ DOMAIN call'[b] = DOMAIN call[b]
  <2>1. call'[a] = [call[a] EXCEPT !.pc = "check transition"]
    BY <1>1
  <2>2. call'[a].event = x /\ DOMAIN call'[a] = DOMAIN call[a]
    <3>1. "event" \in DOMAIN call[a]
      BY <1>1 DEF RegistryInv, CallsOK
    <3> QED
      BY <2>1, <3>1
  <2> QED
    BY <1>1, <2>2
<1>7. \A b \in Agents : InFlight(b)' => InFlight(b)
  BY <1>1, <1>6 DEF InFlight
<1>8. CallsOK'
  <2> SUFFICES ASSUME NEW b \in Agents
               PROVE  /\ InFlight(b)' =>
                            /\ "event" \in DOMAIN call'[b] /\ Numbered(call[b].event)'
                            /\ \A c \in Checkouts : call'[b].event \notin acked'[c]
                            /\ \A h \in Agents :
                                  InFlight(h)' /\ h # b => call'[b].event.id # call'[h].event.id
                      /\ call'[b].pc = "check transition" =>
                            call'[b].event \in docs'[CheckoutOf[b]].transitions
    BY <1>6 DEF CallsOK
  <2>1. InFlight(b)' => /\ "event" \in DOMAIN call'[b] /\ Numbered(call[b].event)'
                        /\ \A c \in Checkouts : call'[b].event \notin acked'[c]
    BY <1>1, <1>6, <1>7 DEF RegistryInv, CallsOK, Numbered
  <2>2. ASSUME InFlight(b)', NEW h \in Agents, InFlight(h)', h # b
        PROVE  call'[b].event.id # call'[h].event.id
    BY <1>6, <1>7, <2>2 DEF RegistryInv, CallsOK
  <2>3. call'[b].pc = "check transition" => call'[b].event \in docs'[CheckoutOf[b]].transitions
    <3>1. CASE b = a
      BY <1>1, <1>2, <1>6, <3>1 DEF e
    <3>2. CASE b # a
      BY <1>2, <1>6, <3>2, CheckoutType, ZenonT(60) DEF RegistryInv, CallsOK
    <3> QED
      BY <3>1, <3>2
  <2> QED
    BY <2>1, <2>2, <2>3
<1> QED
  BY <1>1, <1>4, <1>5, <1>8 DEF RegistryInv

\* The registry is valid or the file is removed: the event is acknowledged or
\* gone, and was nobody else's.
LEMMA CheckWrittenKeeps ==
    ASSUME RegistryInv, NEW a \in Agents, CheckWritten(a)
    PROVE  RegistryInv'
<1> DEFINE x == call[a].event
           e == CheckoutOf[a]
<1>1. /\ DOMAIN call = Agents /\ e \in Checkouts /\ ids' = ids
      /\ DOMAIN docs = Checkouts /\ DOMAIN acked = Checkouts
      /\ \A c \in Checkouts : DOMAIN docs[c] = Fields
      /\ call' = [call EXCEPT ![a] = NoCall]
  BY CheckoutType DEF RegistryInv, CallsOK, DocsOK, AckedOK, CheckWritten, Return
<1>2. /\ DOMAIN call' = Agents
      /\ ~InFlight(a)'
      /\ call'[a].pc # "check transition"
      /\ \A b \in Agents : b # a => call'[b] = call[b]
  BY <1>1 DEF NoCall, InFlight
<1>3. \A b \in Agents : InFlight(b)' => b # a /\ InFlight(b) /\ call'[b] = call[b]
  BY <1>2 DEF InFlight
<1>4. CASE call[a].pc = "check relation"
  <2>1. acked' = acked
    <3>1. \/ acked' = acked
          \/ acked' = [acked EXCEPT ![e] = acked[e]]
      BY <1>4 DEF CheckWritten
    <3>2. acked = [c \in Checkouts |-> acked[c]]
      BY DEF RegistryInv, AckedOK
    <3> HIDE DEF e
    <3> QED
      BY <1>1, <3>1, <3>2
  <2>2. /\ DOMAIN docs' = Checkouts
        /\ \A c \in Checkouts : DOMAIN docs'[c] = Fields /\ docs'[c].transitions = docs[c].transitions
    <3>1. docs' = docs \/ Unlink(a, "relations", call[a].event)
      BY <1>4 DEF CheckWritten
    <3>2. "relations" \in Fields \ {"transitions"}
      BY DEF Fields
    <3> QED
      BY <1>1, <3>1, <3>2, PutOther
  <2> QED
    BY <1>1, <1>2, <1>3, <2>1, <2>2, QuietKeeps
<1>5. CASE call[a].pc = "check transition"
  <2>1. /\ InFlight(a) /\ x \in docs[e].transitions
        /\ \A c \in Checkouts : x \notin acked[c]
        /\ \A b \in Agents : InFlight(b)' => call[b].event # x
    BY <1>3, <1>5 DEF RegistryInv, CallsOK, InFlight
  <2>2. \/ docs' = docs /\ acked' = [acked EXCEPT ![e] = acked[e] \cup {x}]
        \/ Unlink(a, "transitions", x) /\ acked' = acked
    BY <1>5 DEF CheckWritten
  <2>3. /\ DOMAIN docs' = Checkouts
        /\ \A c \in Checkouts :
              /\ DOMAIN docs'[c] = Fields
              /\ docs'[c].transitions = docs[c].transitions
                    \/ docs'[c].transitions = docs[c].transitions \ {x}
    <3>1. Unlink(a, "transitions", x) =>
            /\ DOMAIN docs' = Checkouts
            /\ \A c \in Checkouts :
                  /\ DOMAIN docs'[c] = Fields
                  /\ docs'[c].transitions = IF c = e THEN docs[c].transitions \ {x}
                                            ELSE docs[c].transitions
      BY PutTransition
    <3> HIDE DEF x, e
    <3> QED
      BY <1>1, <2>2, <3>1
  <2> HIDE DEF e, x
  <2>4. /\ acked' = [c \in Checkouts |-> acked'[c]]
        /\ \A c \in Checkouts : acked'[c] \subseteq acked[c] \cup {x}
        /\ \A c \in Checkouts : acked'[c] \subseteq docs'[c].transitions
    <3>1. CASE docs' = docs /\ acked' = [acked EXCEPT ![e] = acked[e] \cup {x}]
      BY <1>1, <2>1, <3>1 DEF RegistryInv, AckedOK
    <3>2. CASE Unlink(a, "transitions", x) /\ acked' = acked
      BY <1>1, <2>1, <2>3, <3>2 DEF RegistryInv, AckedOK
    <3> QED
      BY <2>2, <3>1, <3>2
  <2>5. DocsOK'
    <3>1. \A c \in Checkouts : IsFiniteSet(docs'[c].transitions)
      BY <2>3, FS_Subset DEF RegistryInv, DocsOK
    <3>2. \A c \in Checkouts : \A t \in docs'[c].transitions : Numbered(t)'
      BY <1>1, <2>3 DEF RegistryInv, DocsOK, Numbered
    <3> QED
      BY <2>3, <3>1, <3>2 DEF DocsOK
  <2>6. AckedOK'
    BY <2>4 DEF AckedOK
  <2>7. CallsOK'
    <3> SUFFICES ASSUME NEW b \in Agents
                 PROVE  /\ InFlight(b)' =>
                              /\ "event" \in DOMAIN call'[b] /\ Numbered(call[b].event)'
                              /\ \A c \in Checkouts : call'[b].event \notin acked'[c]
                              /\ \A h \in Agents :
                                    InFlight(h)' /\ h # b => call'[b].event.id # call'[h].event.id
                        /\ call'[b].pc = "check transition" =>
                              call'[b].event \in docs'[CheckoutOf[b]].transitions
      BY <1>2 DEF CallsOK
    <3>1. InFlight(b)' => /\ "event" \in DOMAIN call'[b] /\ Numbered(call[b].event)'
                          /\ \A c \in Checkouts : call'[b].event \notin acked'[c]
      BY <1>1, <1>3, <2>1, <2>4, ZenonT(60) DEF RegistryInv, CallsOK, Numbered
    <3>2. ASSUME InFlight(b)', NEW h \in Agents, InFlight(h)', h # b
          PROVE  call'[b].event.id # call'[h].event.id
      BY <1>3, <3>2 DEF RegistryInv, CallsOK
    <3>3. ASSUME call'[b].pc = "check transition"
          PROVE  call'[b].event \in docs'[CheckoutOf[b]].transitions
      <4>1. InFlight(b)' /\ b # a /\ call'[b] = call[b]
        BY <1>2, <3>3 DEF InFlight
      <4>2. call[b].event \in docs[CheckoutOf[b]].transitions /\ call[b].event # x
        BY <2>1, <3>3, <4>1 DEF RegistryInv, CallsOK
      <4> QED
        BY <2>3, <4>1, <4>2, CheckoutType
    <3> QED
      BY <3>1, <3>2, <3>3
  <2> QED
    BY <1>1, <2>5, <2>6, <2>7 DEF RegistryInv
<1> QED
  BY <1>4, <1>5 DEF CheckWritten

\* A merge takes the documents, and what was acknowledged, of both; no call is
\* in either checkout.
LEMMA MergeKeeps ==
    ASSUME RegistryInv, NEW c \in Checkouts, NEW e \in Checkouts, Merge(c, e)
    PROVE  RegistryInv'
<1>1. /\ DOMAIN docs = Checkouts /\ DOMAIN acked = Checkouts
      /\ DOMAIN docs[c] = Fields /\ DOMAIN docs[e] = Fields /\ "transitions" \in Fields
      /\ call' = call /\ ids' = ids
      /\ docs' = [docs EXCEPT ![c] = [f \in DOMAIN docs[c] |-> docs[c][f] \cup docs[e][f]]]
      /\ acked' = [acked EXCEPT ![c] = acked[c] \cup acked[e]]
  BY DEF RegistryInv, DocsOK, AckedOK, Merge, Union, Fields
<1>2. /\ DOMAIN docs' = Checkouts /\ acked' = [h \in Checkouts |-> acked'[h]]
      /\ \A h \in Checkouts :
            /\ DOMAIN docs'[h] = Fields
            /\ docs'[h].transitions = IF h = c THEN docs[c].transitions \cup docs[e].transitions
                                      ELSE docs[h].transitions
            /\ acked'[h] = IF h = c THEN acked[c] \cup acked[e] ELSE acked[h]
  <2>1. docs'[c] = [f \in Fields |-> docs[c][f] \cup docs[e][f]]
    BY <1>1
  <2>2. docs'[c].transitions = docs[c].transitions \cup docs[e].transitions /\ DOMAIN docs'[c] = Fields
    BY <1>1, <2>1
  <2>3. \A h \in Checkouts : h # c => docs'[h] = docs[h]
    BY <1>1
  <2>4. \A h \in Checkouts : DOMAIN docs[h] = Fields
    BY DEF RegistryInv, DocsOK
  <2> QED
    BY <1>1, <2>2, <2>3, <2>4
<1>3. DocsOK'
  <2>1. \A h \in Checkouts : IsFiniteSet(docs'[h].transitions)
    <3>1. \A h \in Checkouts : IsFiniteSet(docs[h].transitions)
      BY DEF RegistryInv, DocsOK
    <3>2. IsFiniteSet(docs[c].transitions \cup docs[e].transitions)
      BY <3>1, FS_Union
    <3> QED
      BY <1>2, <3>1, <3>2
  <2>2. \A h \in Checkouts : \A t \in docs'[h].transitions : Numbered(t)'
    BY <1>1, <1>2 DEF RegistryInv, DocsOK, Numbered
  <2> QED
    BY <1>2, <2>1, <2>2 DEF DocsOK
<1>4. AckedOK'
  BY <1>2 DEF RegistryInv, AckedOK
<1>5. CallsOK'
  <2>1. \A a \in Agents : InFlight(a)' <=> InFlight(a)
    BY <1>1 DEF InFlight
  <2>2. \A a \in Agents : \A h \in Checkouts : InFlight(a) => call[a].event \notin acked'[h]
    <3>1. \A h \in Checkouts : acked'[h] \subseteq acked[h] \cup acked[e]
      BY <1>2
    <3>2. \A a \in Agents : InFlight(a) => \A h \in Checkouts : call[a].event \notin acked[h]
      BY DEF RegistryInv, CallsOK
    <3> QED
      BY <3>1, <3>2
  <2>3. \A a \in Agents : call[a].pc = "check transition" =>
            call[a].event \in docs'[CheckoutOf[a]].transitions
    <3>1. \A h \in Checkouts : docs[h].transitions \subseteq docs'[h].transitions
      BY <1>2
    <3>2. ASSUME NEW a \in Agents, call[a].pc = "check transition"
          PROVE  call[a].event \in docs'[CheckoutOf[a]].transitions
      <4>1. call[a].event \in docs[CheckoutOf[a]].transitions
        BY <3>2 DEF RegistryInv, CallsOK
      <4> QED
        BY <3>1, <4>1, CheckoutType
    <3> QED
      BY <3>2
  <2>4. \A t : Numbered(t)' <=> Numbered(t)
    BY <1>1 DEF Numbered
  <2> QED
    BY <1>1, <2>1, <2>2, <2>3, <2>4, ZenonT(60) DEF RegistryInv, CallsOK
<1> QED
  BY <1>1, <1>3, <1>4, <1>5 DEF RegistryInv

\* Every checkout starts with documents that are numbered.
LEMMA RegistryStarts == Init => RegistryInv
<1> SUFFICES ASSUME Init PROVE RegistryInv
  OBVIOUS
<1>1. ids \in Nat
  BY PressureAssumption, FS_CardinalityType DEF Init
<1>2. DocsOK
  BY PressureAssumption DEF Init, DocsOK, Numbered, Fields
<1>3. AckedOK
  BY DEF Init, AckedOK
<1>4. CallsOK
  BY DEF Init, CallsOK, InFlight, NoCall
<1> QED
  BY <1>1, <1>2, <1>3, <1>4 DEF RegistryInv

\* Every step of the registry keeps it.
LEMMA RegistryStep == RegistryInv /\ [Next]_vars => RegistryInv'
<1> SUFFICES ASSUME RegistryInv, [Next]_vars PROVE RegistryInv'
  OBVIOUS
<1>1. ASSUME NEW a \in Agents,
             \/ \E p \in Pressures : AddRecord(a, p)
             \/ AddObservation(a)
             \/ \E report \in Reports, at0 \in Instants \cup {NoInstant} : Observe(a, report, at0)
             \/ \E r \in RelationSpecs : Relate(a, r)
             \/ CheckRaises(a)
             \/ \E ledger \in Ledgers : MigrateStart(a, ledger)
      PROVE  RegistryInv'
  BY <1>1, OtherCallsKeep
<1>2. ASSUME NEW a \in Agents, NEW p, NEW to, NEW refs, NEW at0, TransitionRead(a, p, to, refs, at0)
      PROVE  RegistryInv'
  BY <1>2, TransitionReadKeeps
<1>3. ASSUME NEW a \in Agents, TransitionWrite(a) \/ CheckWritten(a) \/ MigrateNext(a)
      PROVE  RegistryInv'
  BY <1>3, TransitionWriteKeeps, CheckWrittenKeeps, MigrateKeeps
<1>4. ASSUME NEW c \in Checkouts, NEW e \in Checkouts, Merge(c, e) PROVE RegistryInv'
  BY <1>4, MergeKeeps
<1>5. CASE UNCHANGED vars
  <2>1. docs' = docs /\ call' = call /\ ids' = ids /\ acked' = acked
    BY <1>5 DEF vars
  <2> QED
    BY <2>1, ZenonT(60) DEF RegistryInv, DocsOK, AckedOK, CallsOK, InFlight, Numbered
<1> QED
  BY <1>1, <1>2, <1>3, <1>4, <1>5 DEF Next

\* The events of a registry are numbered, each after the one it follows; what
\* was acknowledged in a checkout is there, whatever calls and merges came
\* between; and a file that a failed check removes is nobody else's event.
THEOREM RegistryInvariant == Spec => []RegistryInv
BY RegistryStarts, RegistryStep, PTL DEF Spec

\* The documents of one checkout, for the lemmas about replays.
LEMMA RegistryFinite ==
    ASSUME RegistryInv, NEW c \in Checkouts, NEW p
    PROVE  /\ IsFiniteSet(TransitionsOf(docs[c], p))
           /\ \A t \in TransitionsOf(docs[c], p) : t.id \in Nat /\ t.prev \in Nat /\ t.prev < t.id
<1>1. TransitionsOf(docs[c], p) \subseteq docs[c].transitions
  BY DEF TransitionsOf
<1> QED
  BY <1>1, FS_Subset DEF RegistryInv, DocsOK, Numbered

\* _project_one and pressure_lifecycle_projection agree: a history that the first
\* accepts has the same status in the second, for every registry that calls and
\* merges lead to.
THEOREM ReplaysAlwaysAgree == Spec => []ReplaysAgree
<1>1. RegistryInv => ReplaysAgree
  BY RegistryFinite, FoldAgrees DEF ReplaysAgree
<1> QED
  BY <1>1, RegistryInvariant, PTL

\* Of the transitions that were acknowledged in a checkout for a pressure that show
\* calls valid no two follow the same event.
THEOREM NoneIgnored == Spec => []NoTransitionIgnored
<1>1. ASSUME RegistryInv PROVE NoTransitionIgnored
  <2> SUFFICES ASSUME NEW c \in Checkouts, NEW p \in docs[c].records, Show(docs[c], p).valid,
                      NEW t \in acked[c], NEW u \in acked[c],
                      t.pressure = p, u.pressure = p, t.prev = u.prev
               PROVE  t = u
    BY DEF NoTransitionIgnored
  <2>1. Project(docs[c], p).valid
    BY DEF Show
  <2>2. t \in TransitionsOf(docs[c], p) /\ u \in TransitionsOf(docs[c], p)
    BY <1>1 DEF RegistryInv, AckedOK, TransitionsOf
  <2> QED
    BY <1>1, <2>1, <2>2, RegistryFinite, ChainTakesAll
<1> QED
  BY <1>1, RegistryInvariant, PTL

-----------------------------------------------------------------------------
\* A registry that was valid stays so.

\* Two registries in which the transitions of p are the same and rest on the same.
SameFor(d, e, p) ==
    /\ TransitionsOf(e, p) = TransitionsOf(d, p)
    /\ RelationsOf(e, p) = RelationsOf(d, p)
    /\ \A t \in TransitionsOf(d, p) :
          VisibleAt(t, ObservationsOf(e, p)) = VisibleAt(t, ObservationsOf(d, p))

\* The replay of p is the same in both.
LEMMA SameReplay ==
    ASSUME NEW d, NEW e, NEW p, SameFor(d, e, p), IsFiniteSet(TransitionsOf(d, p))
    PROVE  Project(e, p) = Project(d, p)
<1>1. PICK n : n = Cardinality(TransitionsOf(d, p)) /\ n \in Nat
  BY FS_CardinalityType
<1>2. n = Cardinality(TransitionsOf(e, p))
  BY <1>1 DEF SameFor
<1>3. ASSUME NEW t \in TransitionsOf(d, p), NEW s
      PROVE  Follows(t, s, e, p) <=> Follows(t, s, d, p)
  <2>1. /\ VisibleAt(t, ObservationsOf(e, p)) = VisibleAt(t, ObservationsOf(d, p))
        /\ RelationsOf(e, p) = RelationsOf(d, p)
    BY DEF SameFor
  <2> QED
    BY <2>1, Zenon DEF Follows
<1>4. ASSUME NEW w PROVE ProjectAdvance(w, e, p) = ProjectAdvance(w, d, p)
  <2>1. PICK next : next = Successors(TransitionsOf(d, p), w.head)
    OBVIOUS
  <2>2. next = Successors(TransitionsOf(e, p), w.head) /\ next \subseteq TransitionsOf(d, p)
    BY <2>1 DEF SameFor, Successors
  <2>3. PICK t : t = CHOOSE u \in next : TRUE
    OBVIOUS
  <2>4. /\ ProjectAdvance(w, d, p) =
             IF ~w.valid \/ next = {} THEN w
             ELSE IF Cardinality(next) > 1 \/ ~Follows(t, w.status, d, p) THEN [w EXCEPT !.valid = FALSE]
             ELSE [status |-> t.to, head |-> t.id, seen |-> w.seen + 1, valid |-> TRUE]
        /\ ProjectAdvance(w, e, p) =
             IF ~w.valid \/ next = {} THEN w
             ELSE IF Cardinality(next) > 1 \/ ~Follows(t, w.status, e, p) THEN [w EXCEPT !.valid = FALSE]
             ELSE [status |-> t.to, head |-> t.id, seen |-> w.seen + 1, valid |-> TRUE]
    BY <2>1, <2>2, <2>3 DEF ProjectAdvance
  <2>5. CASE next = {}
    BY <2>4, <2>5
  <2>6. CASE next # {}
    <3>1. t \in TransitionsOf(d, p)
      BY <2>2, <2>3, <2>6
    <3>2. Follows(t, w.status, e, p) <=> Follows(t, w.status, d, p)
      BY <1>3, <3>1
    <3> QED
      BY <2>4, <3>2
  <2> QED
    BY <2>5, <2>6
<1>5. PICK f : Projects(f, n, d, p) /\ Project(d, p) = [f[n] EXCEPT !.valid = @ /\ f[n].seen = n]
  BY <1>1, ProjectIsReplay
<1>6. PICK g : Projects(g, n, e, p) /\ Project(e, p) = [g[n] EXCEPT !.valid = @ /\ g[n].seen = n]
  BY <1>1, <1>2, ProjectIsReplay
<1> DEFINE S == {i \in 0..n : g[i] = f[i]}
<1>7. 0 \in S
  BY <1>1, <1>5, <1>6 DEF Projects
<1>8. ASSUME NEW i \in 1..n, i - 1 \in S PROVE i \in S
  <2>0. i \in 0..n /\ i # 0 /\ Projects(f, n, d, p) /\ Projects(g, n, e, p)
    BY <1>1, <1>5, <1>6
  <2>1. f[i] = ProjectAdvance(f[i - 1], d, p) /\ g[i] = ProjectAdvance(g[i - 1], e, p)
    BY <2>0 DEF Projects
  <2> QED
    BY <1>1, <1>4, <1>8, <2>1
<1>9. n \in S
  <2> HIDE DEF S
  <2>1. 0..n \subseteq S
    BY <1>1, <1>7, <1>8, UpTo
  <2> QED
    BY <1>1, <2>1
<1> QED
  BY <1>5, <1>6, <1>9

\* The targets of the duplicate_of relations of the nodes.
DuplicatesOf(nodes, relations) ==
    {r.target : r \in {r \in relations : r.relation = "duplicate_of" /\ r.source \in nodes}}

\* f follows them n times, from the records on.
Chases(f, n, records, relations) ==
    f = [i \in 0..n |-> IF i = 0 THEN records ELSE DuplicatesOf(f[i - 1], relations)]

LEMMA ChaseExists ==
    ASSUME NEW n \in Nat, NEW records, NEW relations
    PROVE  \E f : Chases(f, n, records, relations)
<1> DEFINE S == {k \in Nat : \E f : Chases(f, k, records, relations)}
<1>1. 0 \in S
  <2> DEFINE f == [i \in 0..0 |-> records]
  <2>1. Chases(f, 0, records, relations)
    BY DEF Chases
  <2> QED
    BY <2>1
<1>2. ASSUME NEW k \in 1..n, k - 1 \in S PROVE k \in S
  <2>1. PICK f : Chases(f, k - 1, records, relations)
    BY <1>2
  <2> DEFINE g == [i \in 0..k |-> IF i < k THEN f[i] ELSE DuplicatesOf(f[k - 1], relations)]
  <2>2. \A i \in 0..(k - 1) : f[i] = IF i = 0 THEN records ELSE DuplicatesOf(f[i - 1], relations)
    BY <2>1 DEF Chases
  <2>3. ASSUME NEW i \in 0..k
        PROVE  g[i] = IF i = 0 THEN records ELSE DuplicatesOf(g[i - 1], relations)
    <3>1. CASE i = k
      BY <3>1
    <3>2. CASE i # k
      BY <2>2, <3>2
    <3> QED
      BY <3>1, <3>2
  <2>4. g = [i \in 0..k |-> g[i]]
    OBVIOUS
  <2> HIDE DEF g
  <2>5. Chases(g, k, records, relations)
    BY <2>3, <2>4 DEF Chases
  <2> QED
    BY <2>5
<1> HIDE DEF S
<1>3. 0..n \subseteq S
  BY <1>1, <1>2, UpTo
<1> QED
  BY <1>3 DEF S

LEMMA ChaseUnique ==
    ASSUME NEW n \in Nat, NEW records, NEW relations, NEW f, NEW g,
           Chases(f, n, records, relations), Chases(g, n, records, relations)
    PROVE  f[n] = g[n]
<1> DEFINE S == {i \in 0..n : g[i] = f[i]}
<1>1. 0 \in S
  BY DEF Chases
<1>2. ASSUME NEW i \in 1..n, i - 1 \in S PROVE i \in S
  <2>1. f[i] = DuplicatesOf(f[i - 1], relations) /\ g[i] = DuplicatesOf(g[i - 1], relations)
    BY DEF Chases
  <2> QED
    BY <1>2, <2>1
<1> HIDE DEF S
<1>3. 0..n \subseteq S
  BY <1>1, <1>2, UpTo
<1>4. n \in S
  BY <1>3
<1> QED
  BY <1>4 DEF S

\* validate finds no cycle when the relations, followed as often as there are
\* records, end.
LEMMA AcyclicIsChase ==
    ASSUME NEW d, NEW n, n = Cardinality(d.records), n \in Nat
    PROVE  DuplicatesAcyclic(d) <=> \E f : Chases(f, n, d.records, d.relations) /\ f[n] = {}
<1> DEFINE F == CHOOSE f : f = [i \in 0..n |->
                  IF i = 0 THEN d.records
                  ELSE {r.target : r \in {r \in d.relations : r.relation = "duplicate_of"
                                                            /\ r.source \in f[i - 1]}}]
<1>1. PICK f : Chases(f, n, d.records, d.relations)
  BY ChaseExists
<1>2. f = [i \in 0..n |->
             IF i = 0 THEN d.records
             ELSE {r.target : r \in {r \in d.relations : r.relation = "duplicate_of"
                                                       /\ r.source \in f[i - 1]}}]
  BY <1>1 DEF Chases, DuplicatesOf
<1>3. F = [i \in 0..n |->
             IF i = 0 THEN d.records
             ELSE {r.target : r \in {r \in d.relations : r.relation = "duplicate_of"
                                                       /\ r.source \in F[i - 1]}}]
  BY <1>2
<1>4. Chases(F, n, d.records, d.relations)
  BY <1>3 DEF Chases, DuplicatesOf
<1>5. DuplicatesAcyclic(d) <=> F[n] = {}
  BY DEF DuplicatesAcyclic
<1> HIDE DEF F
<1> QED
  BY <1>4, <1>5, ChaseUnique

\* A record that no relation has as its source ends no chase later.
LEMMA OneMoreRecord ==
    ASSUME NEW d, NEW e, NEW p, IsFiniteSet(d.records), p \notin d.records,
           e.records = d.records \cup {p}, e.relations = d.relations,
           \A r \in d.relations : r.source # p,
           DuplicatesAcyclic(d)
    PROVE  DuplicatesAcyclic(e)
<1>1. PICK n : n = Cardinality(d.records) /\ n \in Nat
  BY FS_CardinalityType
<1>2. Cardinality(e.records) = n + 1 /\ n + 1 \in Nat
  <2>1. Cardinality(d.records \cup {p}) = Cardinality(d.records) + 1
    BY FS_AddElement
  <2> QED
    BY <1>1, <2>1
<1>3. PICK f : Chases(f, n, d.records, d.relations) /\ f[n] = {}
  BY <1>1, AcyclicIsChase
<1>4. /\ DuplicatesOf(e.records, d.relations) = DuplicatesOf(d.records, d.relations)
      /\ DuplicatesOf({}, d.relations) = {}
  BY DEF DuplicatesOf
<1>5. f[0] = d.records /\ \A i \in 1..n : f[i] = DuplicatesOf(f[i - 1], d.relations)
  BY <1>1, <1>3 DEF Chases
<1>6. PICK g : g = [i \in 0..(n + 1) |-> IF i = 0 THEN e.records ELSE IF i <= n THEN f[i] ELSE {}]
  OBVIOUS
<1>7. ASSUME NEW i \in 0..(n + 1)
      PROVE  g[i] = IF i = 0 THEN e.records ELSE DuplicatesOf(g[i - 1], d.relations)
  <2>1. CASE i = 0
    BY <1>1, <1>6, <2>1
  <2>2. CASE i = 1
    <3>1. g[0] = e.records
      BY <1>1, <1>6
    <3>2. CASE n = 0
      <4>1. g[1] = {} /\ d.records = {}
        BY <1>3, <1>5, <1>6, <3>2
      <4> QED
        BY <1>4, <2>2, <3>1, <4>1
    <3>3. CASE n # 0
      <4>1. g[1] = f[1] /\ f[1] = DuplicatesOf(d.records, d.relations)
        BY <1>1, <1>5, <1>6, <3>3
      <4> QED
        BY <1>4, <2>2, <3>1, <4>1
    <3> QED
      BY <3>2, <3>3
  <2>3. CASE i # 0 /\ i # 1 /\ i <= n
    BY <1>1, <1>5, <1>6, <2>3
  <2>4. CASE i # 0 /\ i # 1 /\ i = n + 1
    <3>1. g[i] = {} /\ g[i - 1] = f[n]
      BY <1>1, <1>6, <2>4
    <3> QED
      BY <1>3, <1>4, <2>4, <3>1
  <2> QED
    BY <1>1, <2>1, <2>2, <2>3, <2>4
<1>8. Chases(g, n + 1, e.records, e.relations)
  BY <1>6, <1>7 DEF Chases
<1>9. g[n + 1] = {}
  BY <1>1, <1>6
<1> QED
  BY <1>2, <1>8, <1>9, AcyclicIsChase

\* The transitions of a finite set are finitely many for each pressure.
LEMMA TransitionsFinite ==
    ASSUME NEW d, NEW p, IsFiniteSet(d.transitions)
    PROVE  IsFiniteSet(TransitionsOf(d, p))
<1>1. TransitionsOf(d, p) \in SUBSET d.transitions
  BY DEF TransitionsOf
<1> QED
  BY <1>1, FS_Subset

\* A pressure without transitions is valid.
LEMMA UntouchedValid ==
    ASSUME NEW d, NEW p, TransitionsOf(d, p) = {}
    PROVE  Project(d, p).valid
<1>1. Cardinality(TransitionsOf(d, p)) = 0
  BY FS_EmptySet
<1>2. PICK f : Projects(f, 0, d, p) /\ Project(d, p) = [f[0] EXCEPT !.valid = @ /\ f[0].seen = 0]
  BY <1>1, ProjectIsReplay
<1>3. f[0] = ProjectStart
  BY <1>2 DEF Projects
<1>4. Project(d, p) = [ProjectStart EXCEPT !.valid = ProjectStart.valid /\ ProjectStart.seen = 0]
  BY <1>2, <1>3
<1>5. Project(d, p).valid = (ProjectStart.valid /\ ProjectStart.seen = 0)
  BY <1>4 DEF ProjectStart
<1>6. ProjectStart.valid = TRUE /\ ProjectStart.seen = 0
  BY DEF ProjectStart
<1> QED
  BY <1>5, <1>6

\* The same documents, whatever else there is.
LEMMA ValidSame ==
    ASSUME NEW d, NEW e, RegistryValid(d), IsFiniteSet(d.records), IsFiniteSet(d.transitions),
           e.records = d.records, e.observations = d.observations,
           e.transitions = d.transitions, e.relations = d.relations
    PROVE  RegistryValid(e)
<1>1. RecordsValid(e) /\ ObservationsValid(e) /\ EventsValid(e)
  BY DEF RegistryValid, RecordsValid, ObservationsValid, EventsValid
<1>2. DuplicatesAcyclic(e)
  <2>1. PICK n : n = Cardinality(d.records) /\ n \in Nat
    BY FS_CardinalityType
  <2>2. \E f : Chases(f, n, e.records, e.relations) /\ f[n] = {}
    BY <2>1, AcyclicIsChase DEF RegistryValid
  <2> QED
    BY <2>1, <2>2, AcyclicIsChase
<1>3. ASSUME NEW p \in e.records PROVE Project(e, p).valid
  <2>1. SameFor(d, e, p)
    BY DEF SameFor, TransitionsOf, RelationsOf, ObservationsOf
  <2>2. Project(e, p) = Project(d, p)
    BY <2>1, TransitionsFinite, SameReplay
  <2> QED
    BY <2>2 DEF RegistryValid
<1> QED
  BY <1>1, <1>2, <1>3 DEF RegistryValid

\* A declaration is added, of no alias that another owns.
LEMMA ValidDeclared ==
    ASSUME NEW d, NEW e, NEW p, RegistryValid(d), IsFiniteSet(d.records), IsFiniteSet(d.transitions),
           p \notin d.records,
           \/ Declarations[p].legacy = NoLegacy
           \/ \A q \in d.records : Declarations[q].legacy # Declarations[p].legacy,
           e.records = d.records \cup {p}, e.observations = d.observations,
           e.transitions = d.transitions, e.relations = d.relations
    PROVE  RegistryValid(e)
<1>1. RecordsValid(e) /\ ObservationsValid(e) /\ EventsValid(e)
  BY DEF RegistryValid, RecordsValid, ObservationsValid, EventsValid
<1>2. DuplicatesAcyclic(e)
  <2>1. \A r \in d.relations : r.source # p
    BY DEF RegistryValid, EventsValid
  <2> QED
    BY <2>1, OneMoreRecord DEF RegistryValid
<1>3. ASSUME NEW q \in d.records PROVE Project(e, q).valid
  <2>1. SameFor(d, e, q)
    BY DEF SameFor, TransitionsOf, RelationsOf, ObservationsOf
  <2>2. Project(e, q) = Project(d, q)
    BY <2>1, TransitionsFinite, SameReplay
  <2> QED
    BY <2>2 DEF RegistryValid
<1>4. Project(e, p).valid
  <2>1. TransitionsOf(e, p) = {}
    BY DEF RegistryValid, EventsValid, TransitionsOf
  <2> QED
    BY <2>1, UntouchedValid
<1>5. \A q \in e.records : q \in d.records \/ q = p
  OBVIOUS
<1> QED
  BY <1>1, <1>2, <1>3, <1>4, <1>5 DEF RegistryValid

\* An observation is added that is not late for its pressure: no transition rests
\* on it.
LEMMA ValidObserved ==
    ASSUME NEW d, NEW e, NEW o, RegistryValid(d), IsFiniteSet(d.records), IsFiniteSet(d.transitions),
           o.pressure \in d.records,
           ~Late(o, d.transitions),
           e.records = d.records, e.observations = d.observations \cup {o},
           e.transitions = d.transitions, e.relations = d.relations
    PROVE  RegistryValid(e)
<1>1. CASE o \in d.observations
  <2>1. e.observations = d.observations
    BY <1>1
  <2> QED
    BY <2>1, ValidSame
<1>2. CASE o \notin d.observations
  <2>1. RecordsValid(e) /\ ObservationsValid(e) /\ EventsValid(e)
    BY DEF RegistryValid, RecordsValid, ObservationsValid, EventsValid
  <2>2. DuplicatesAcyclic(e)
    <3>1. PICK n : n = Cardinality(d.records) /\ n \in Nat
      BY FS_CardinalityType
    <3>2. \E f : Chases(f, n, e.records, e.relations) /\ f[n] = {}
      BY <3>1, AcyclicIsChase DEF RegistryValid
    <3> QED
      BY <3>1, <3>2, AcyclicIsChase
  <2>3. ASSUME NEW p \in e.records PROVE Project(e, p).valid
    <3>1. TransitionsOf(e, p) = TransitionsOf(d, p) /\ RelationsOf(e, p) = RelationsOf(d, p)
      BY DEF TransitionsOf, RelationsOf
    <3>2. ASSUME NEW t \in TransitionsOf(d, p)
          PROVE  VisibleAt(t, ObservationsOf(e, p)) = VisibleAt(t, ObservationsOf(d, p))
      <4>1. t \in d.transitions /\ t.refs \subseteq d.observations
        BY DEF TransitionsOf, RegistryValid, EventsValid
      <4>2. o \notin t.refs /\ (o.pressure = p => ~(o.at # NoInstant /\ o.at < t.at))
        BY <1>2, <4>1 DEF Late, TransitionsOf
      <4> QED
        BY <4>2 DEF VisibleAt, ObservationsOf
    <3>3. SameFor(d, e, p)
      BY <3>1, <3>2 DEF SameFor
    <3>4. Project(e, p) = Project(d, p)
      BY <3>3, TransitionsFinite, SameReplay
    <3> QED
      BY <3>4 DEF RegistryValid
  <2> QED
    BY <2>1, <2>2, <2>3 DEF RegistryValid
<1> QED
  BY <1>1, <1>2

-----------------------------------------------------------------------------
\* The invariant of a registry in which each agent has its own checkout.

OwnCheckout == \A a, b \in Agents : CheckoutOf[a] = CheckoutOf[b] => a = b

\* The registry that a checkout starts with is valid.
PriorValid == RegistryValid(Prior)

With(d, field, x)    == [d EXCEPT ![field] = @ \cup {x}]
Without(d, field, x) == [d EXCEPT ![field] = @ \ {x}]

\* What a call has written that it did not check yet, it can take back.
ValidBut(d, field, x) == RegistryValid(d) \/ RegistryValid(Without(d, field, x))

ValidIn(l, d) ==
    /\ l.pc \in {"idle", "migrate", "write transition"} => RegistryValid(d)
    /\ l.pc = "first report" =>
          /\ l.event \in d.records /\ ~AliasTaken(d, l.event)
          /\ RegistryValid(Without(d, "records", l.event))
    /\ l.pc = "check relation" => ValidBut(d, "relations", l.event)
    /\ l.pc = "check transition" => ValidBut(d, "transitions", l.event)

ValidInv ==
    /\ RegistryInv
    /\ \A c \in Checkouts : IsFiniteSet(docs[c].records)
    /\ DOMAIN suspect = Checkouts
    /\ \A a \in Agents : DOMAIN call[a] = DOMAIN NoCall
    /\ \A a \in Agents : suspect[CheckoutOf[a]] \/ ValidIn(call[a], docs[CheckoutOf[a]])

\* What is written and taken back again leaves the documents as they were.
LEMMA TakenBack ==
    ASSUME NEW d, DOMAIN d = Fields, NEW f \in Fields, NEW x, RegistryValid(d),
           IsFiniteSet(d.records), IsFiniteSet(d.transitions)
    PROVE  /\ ValidBut(With(d, f, x), f, x)
           /\ x \notin d[f] => RegistryValid(Without(With(d, f, x), f, x))
<1>0. PICK e : e = With(d, f, x)
  OBVIOUS
<1>1. DOMAIN e = Fields /\ \A g \in Fields : e[g] = IF g = f THEN d[f] \cup {x} ELSE d[g]
  BY <1>0 DEF With
<1> DEFINE b == Without(e, f, x)
<1>2. \A g \in Fields : b[g] = IF g = f THEN e[f] \ {x} ELSE e[g]
  BY <1>1 DEF Without
<1>3. /\ "records" \in Fields /\ "observations" \in Fields /\ "transitions" \in Fields
      /\ "relations" \in Fields
  BY DEF Fields
<1> HIDE DEF b
<1>4. CASE x \in d[f]
  <2>1. \A g \in Fields : e[g] = d[g]
    BY <1>1, <1>4
  <2>2. RegistryValid(e)
    BY <1>3, <2>1, ValidSame
  <2> QED
    BY <1>0, <1>4, <2>2 DEF ValidBut
<1>5. CASE x \notin d[f]
  <2>1. \A g \in Fields : b[g] = d[g]
    BY <1>1, <1>2, <1>5
  <2>2. RegistryValid(b)
    BY <1>3, <2>1, ValidSame
  <2> QED
    BY <1>0, <2>2 DEF ValidBut, b
<1> QED
  BY <1>4, <1>5

LEMMA WriteGives ==
    ASSUME RegistryInv, NEW a \in Agents, NEW f \in Fields, NEW x
    PROVE  /\ Put(a, f, x) => \A c \in Checkouts :
                 docs'[c] = IF c = CheckoutOf[a] THEN With(docs[CheckoutOf[a]], f, x) ELSE docs[c]
           /\ Unlink(a, f, x) => \A c \in Checkouts :
                 docs'[c] = IF c = CheckoutOf[a] THEN Without(docs[CheckoutOf[a]], f, x) ELSE docs[c]
<1>1. PICK e : e = CheckoutOf[a] /\ e \in Checkouts
  BY CheckoutType
<1>2. DOMAIN docs = Checkouts
  BY DEF RegistryInv, DocsOK
<1>3. ASSUME Put(a, f, x)
      PROVE  \A c \in Checkouts : docs'[c] = IF c = e THEN With(docs[e], f, x) ELSE docs[c]
  <2>1. docs' = [docs EXCEPT ![e][f] = @ \cup {x}]
    BY <1>1, <1>3 DEF Put
  <2> QED
    BY <1>1, <1>2, <2>1 DEF With
<1>4. ASSUME Unlink(a, f, x)
      PROVE  \A c \in Checkouts : docs'[c] = IF c = e THEN Without(docs[e], f, x) ELSE docs[c]
  <2>1. docs' = [docs EXCEPT ![e][f] = @ \ {x}]
    BY <1>1, <1>4 DEF Unlink
  <2> QED
    BY <1>1, <1>2, <2>1 DEF Without
<1> QED
  BY <1>1, <1>3, <1>4

\* A step of one agent, in its own checkout: it leaves the call l and the documents e.
OwnStep(a, l, e) ==
    /\ call' = [call EXCEPT ![a] = l] \/ (call' = call /\ l = call[a])
    /\ \A c \in Checkouts : docs'[c] = IF c = CheckoutOf[a] THEN e ELSE docs[c]
    /\ suspect' = suspect \/ \E v : suspect' = [suspect EXCEPT ![CheckoutOf[a]] = v]
    /\ DOMAIN l = DOMAIN NoCall
    /\ IsFiniteSet(e.records)
    /\ suspect'[CheckoutOf[a]] \/ ValidIn(l, e)

LEMMA OneAgent ==
    ASSUME OwnCheckout, ValidInv, RegistryInv', NEW a \in Agents, NEW l, NEW e, OwnStep(a, l, e)
    PROVE  ValidInv'
<1>0. /\ call' = [call EXCEPT ![a] = l] \/ (call' = call /\ l = call[a])
      /\ \A c \in Checkouts : docs'[c] = IF c = CheckoutOf[a] THEN e ELSE docs[c]
      /\ suspect' = suspect \/ \E v : suspect' = [suspect EXCEPT ![CheckoutOf[a]] = v]
      /\ DOMAIN l = DOMAIN NoCall
      /\ IsFiniteSet(e.records)
      /\ suspect'[CheckoutOf[a]] \/ ValidIn(l, e)
  BY DEF OwnStep
<1>1. DOMAIN call = Agents /\ CheckoutOf[a] \in Checkouts /\ DOMAIN suspect = Checkouts
  BY CheckoutType DEF ValidInv, RegistryInv, CallsOK
<1>2. \A b \in Agents : call'[b] = IF b = a THEN l ELSE call[b]
  BY <1>0, <1>1
<1>3. DOMAIN suspect' = Checkouts /\ \A c \in Checkouts \ {CheckoutOf[a]} : suspect'[c] = suspect[c]
  BY <1>0, <1>1
<1>5. \A c \in Checkouts : IsFiniteSet(docs'[c].records)
  BY <1>0 DEF ValidInv
<1>6. \A b \in Agents : DOMAIN call'[b] = DOMAIN NoCall
  BY <1>0, <1>2 DEF ValidInv
<1>7. ASSUME NEW b \in Agents
      PROVE  suspect'[CheckoutOf[b]] \/ ValidIn(call'[b], docs'[CheckoutOf[b]])
  <2>1. CASE b = a
    BY <1>0, <1>1, <1>2, <2>1
  <2>2. CASE b # a
    <3>1. CheckoutOf[b] \in Checkouts \ {CheckoutOf[a]}
      BY <2>2, CheckoutType DEF OwnCheckout
    <3>2. /\ suspect'[CheckoutOf[b]] = suspect[CheckoutOf[b]] /\ call'[b] = call[b]
          /\ docs'[CheckoutOf[b]] = docs[CheckoutOf[b]]
      BY <1>0, <1>2, <1>3, <2>2, <3>1
    <3> QED
      BY <3>2 DEF ValidInv
  <2> QED
    BY <2>1, <2>2
<1> QED
  BY <1>3, <1>5, <1>6, <1>7 DEF ValidInv

\* What an agent finds in its checkout.
LEMMA AtHand ==
    ASSUME ValidInv, NEW a \in Agents, NEW d, d = docs[CheckoutOf[a]]
    PROVE  /\ DOMAIN d = Fields /\ IsFiniteSet(d.records) /\ IsFiniteSet(d.transitions)
           /\ suspect[CheckoutOf[a]] \/ ValidIn(call[a], d)
           /\ DOMAIN call[a] = DOMAIN NoCall /\ DOMAIN call = Agents
BY CheckoutType DEF ValidInv, RegistryInv, DocsOK, CallsOK

LEMMA NewCall ==
    /\ NoCall.pc = "idle"
    /\ \A x, y : /\ DOMAIN [NoCall EXCEPT !.pc = x, !.event = y] = DOMAIN NoCall
                 /\ [NoCall EXCEPT !.pc = x, !.event = y].pc = x
                 /\ [NoCall EXCEPT !.pc = x, !.event = y].event = y
                 /\ DOMAIN [NoCall EXCEPT !.pc = x, !.todo = y] = DOMAIN NoCall
                 /\ [NoCall EXCEPT !.pc = x, !.todo = y].pc = x
BY DEF NoCall

\* The fields of a registry that was written to once.
LEMMA WithFields ==
    ASSUME NEW d, DOMAIN d = Fields, NEW x
    PROVE  /\ LET e == With(d, "records", x)
              IN  /\ e.records = d.records \cup {x} /\ e.observations = d.observations
                  /\ e.transitions = d.transitions /\ e.relations = d.relations
           /\ LET e == With(d, "observations", x)
              IN  /\ e.records = d.records /\ e.observations = d.observations \cup {x}
                  /\ e.transitions = d.transitions /\ e.relations = d.relations
           /\ LET e == With(d, "relations", x)
              IN  e.records = d.records /\ e.transitions = d.transitions
           /\ LET e == With(d, "transitions", x)
              IN  e.records = d.records /\ e.transitions = d.transitions \cup {x}
           /\ LET e == Without(d, "records", x)
              IN  /\ e.records = d.records \ {x} /\ e.observations = d.observations
                  /\ e.transitions = d.transitions /\ e.relations = d.relations
           /\ LET e == Without(d, "relations", x)
              IN  e.records = d.records /\ e.transitions = d.transitions
           /\ LET e == Without(d, "transitions", x)
              IN  e.records = d.records /\ e.transitions = d.transitions \ {x}
BY DEF With, Without, Fields

\* add, its two halves.
LEMMA AddValid ==
    ASSUME OwnCheckout, ValidInv, RegistryInv', NEW a \in Agents,
           \/ AddObservation(a)
           \/ \E p \in Pressures : AddRecord(a, p)
    PROVE  ValidInv'
<1>0. PICK d : d = docs[CheckoutOf[a]]
  OBVIOUS
<1>1. /\ DOMAIN d = Fields /\ IsFiniteSet(d.records) /\ IsFiniteSet(d.transitions)
      /\ suspect[CheckoutOf[a]] \/ ValidIn(call[a], d)
  BY <1>0, AtHand
<1>2. RegistryInv /\ DOMAIN suspect = Checkouts /\ CheckoutOf[a] \in Checkouts
  BY CheckoutType DEF ValidInv
<1>3. /\ "records" \in Fields /\ "observations" \in Fields
  BY DEF Fields
<1>4. ASSUME NEW p \in Pressures, AddRecord(a, p)
      PROVE  ValidInv'
  <2>1. PICK l : l = [NoCall EXCEPT !.pc = "first report", !.event = p]
    OBVIOUS
  <2>2. PICK e : e = With(d, "records", p)
    OBVIOUS
  <2>3. /\ call' = [call EXCEPT ![a] = l] /\ Put(a, "records", p)
        /\ call[a].pc = "idle" /\ p \notin d.records
        /\ suspect' = [suspect EXCEPT ![CheckoutOf[a]] = @ \/ AliasTaken(d, p)]
    BY <1>0, <1>4, <2>1 DEF AddRecord, Registry, Suspect
  <2>4. \A c \in Checkouts : docs'[c] = IF c = CheckoutOf[a] THEN e ELSE docs[c]
    BY <1>0, <1>2, <1>3, <2>2, <2>3, WriteGives
  <2>5. DOMAIN l = DOMAIN NoCall /\ l.pc = "first report" /\ l.event = p
    BY <2>1, NewCall
  <2>6. e.records = d.records \cup {p} /\ e.transitions = d.transitions
    BY <1>1, <2>2, WithFields
  <2>7. IsFiniteSet(e.records)
    BY <1>1, <2>6, FS_AddElement
  <2>8. ASSUME ValidIn(call[a], d), ~AliasTaken(d, p) PROVE ValidIn(l, e)
    <3>1. RegistryValid(d)
      BY <2>3, <2>8 DEF ValidIn
    <3>2. RegistryValid(Without(e, "records", p))
      BY <1>1, <1>3, <2>2, <2>3, <3>1, TakenBack
    <3>3. ~AliasTaken(e, p) /\ p \in e.records
      BY <2>6, <2>8 DEF AliasTaken
    <3> QED
      BY <2>5, <3>2, <3>3 DEF ValidIn
  <2>9. suspect'[CheckoutOf[a]] \/ ValidIn(l, e)
    <3>1. suspect'[CheckoutOf[a]] = (suspect[CheckoutOf[a]] \/ AliasTaken(d, p))
      BY <1>2, <2>3
    <3> QED
      BY <1>1, <2>8, <3>1
  <2>10. \E v : suspect' = [suspect EXCEPT ![CheckoutOf[a]] = v]
    BY <2>3
  <2>step. OwnStep(a, l, e)
    BY <2>3, <2>4, <2>5, <2>7, <2>9, <2>10 DEF OwnStep
  <2> QED
    BY <2>step, OneAgent
<1>5. CASE AddObservation(a)
  <2>1. PICK p : p = call[a].event
    OBVIOUS
  <2>2. PICK b : b = Without(d, "records", p)
    OBVIOUS
  <2>3. /\ call' = [call EXCEPT ![a] = NoCall] /\ call[a].pc = "first report"
        /\ suspect' = suspect
        /\ \/ \E r, at0 : Put(a, "observations", FirstReport(p, r, at0))
           \/ Unlink(a, "records", p)
    BY <1>5, <2>1 DEF AddObservation, Return
  <2>4. /\ b.records = d.records \ {p} /\ b.observations = d.observations
        /\ b.transitions = d.transitions /\ b.relations = d.relations
    BY <1>1, <2>2, WithFields
  <2>5. IsFiniteSet(b.records)
    <3>1. b.records \in SUBSET d.records
      BY <2>4
    <3> QED
      BY <1>1, <3>1, FS_Subset
  <2>6. ASSUME ValidIn(call[a], d)
        PROVE  RegistryValid(b) /\ p \in d.records /\ ~AliasTaken(d, p)
    BY <2>1, <2>2, <2>3, <2>6 DEF ValidIn
  <2>7. CASE Unlink(a, "records", p)
    <3>1. \A c \in Checkouts : docs'[c] = IF c = CheckoutOf[a] THEN b ELSE docs[c]
      BY <1>0, <1>2, <1>3, <2>2, <2>7, WriteGives
    <3>2. ValidIn(call[a], d) => ValidIn(NoCall, b)
      BY <2>6, NewCall DEF ValidIn
    <3>3. NoCall.pc = "idle"
      BY NewCall
    <3>step. OwnStep(a, NoCall, b)
      BY <1>1, <1>2, <2>3, <2>4, <2>5, <3>1, <3>2, <3>3 DEF OwnStep
    <3> QED
      BY <3>step, OneAgent
  <2>8. ASSUME NEW r, NEW at0, Put(a, "observations", FirstReport(p, r, at0))
        PROVE  ValidInv'
    <3>1. PICK o : o = FirstReport(p, r, at0)
      OBVIOUS
    <3>2. o.pressure = p
      BY <3>1 DEF FirstReport
    <3>3. PICK e : e = With(d, "observations", o)
      OBVIOUS
    <3>4. \A c \in Checkouts : docs'[c] = IF c = CheckoutOf[a] THEN e ELSE docs[c]
      BY <1>0, <1>2, <1>3, <2>8, <3>1, <3>3, WriteGives
    <3>5. /\ e.records = d.records /\ e.observations = d.observations \cup {o}
          /\ e.transitions = d.transitions /\ e.relations = d.relations
      BY <1>1, <3>3, WithFields
    <3>6. ASSUME ValidIn(call[a], d) PROVE ValidIn(NoCall, e)
      <4>1. p \notin b.records /\ d.records = b.records \cup {p} /\ RegistryValid(b)
        BY <2>4, <2>6, <3>6
      <4>2. /\ IsFiniteSet(b.transitions)
            /\ \/ Declarations[p].legacy = NoLegacy
               \/ \A q \in b.records : Declarations[q].legacy # Declarations[p].legacy
        BY <1>1, <2>4, <2>6, <3>6 DEF AliasTaken
      <4>3. RegistryValid(d)
        BY <2>4, <2>5, <4>1, <4>2, ValidDeclared
      <4>4. o.pressure \in d.records /\ ~Late(o, d.transitions)
        <5>1. \A t \in b.transitions : t.pressure \in b.records
          BY <4>1 DEF RegistryValid, EventsValid
        <5> QED
          BY <2>4, <2>6, <3>2, <3>6, <4>1, <5>1 DEF Late
      <4>5. RegistryValid(e)
        BY <1>1, <3>2, <3>5, <4>3, <4>4, ValidObserved
      <4> QED
        BY <4>5, NewCall DEF ValidIn
    <3>7. NoCall.pc = "idle"
      BY NewCall
    <3>step. OwnStep(a, NoCall, e)
      BY <1>1, <1>2, <2>3, <3>4, <3>5, <3>6, <3>7 DEF OwnStep
    <3> QED
      BY <3>step, OneAgent
  <2> QED
    BY <2>3, <2>7, <2>8
<1> QED
  BY <1>4, <1>5

\* observe and verify: what is not late changes nothing for an event.
LEMMA ObserveValid ==
    ASSUME OwnCheckout, ValidInv, RegistryInv', NEW a \in Agents,
           NEW report \in Reports, NEW at0, Observe(a, report, at0)
    PROVE  ValidInv'
<1>0. PICK d : d = docs[CheckoutOf[a]]
  OBVIOUS
<1>1. /\ DOMAIN d = Fields /\ IsFiniteSet(d.records) /\ IsFiniteSet(d.transitions)
      /\ suspect[CheckoutOf[a]] \/ ValidIn(call[a], d)
      /\ DOMAIN call[a] = DOMAIN NoCall
      /\ DOMAIN suspect = Checkouts /\ CheckoutOf[a] \in Checkouts
  BY <1>0, AtHand, CheckoutType DEF ValidInv
<1>2. PICK o : o = [report EXCEPT !.at = at0]
  OBVIOUS
<1>3. o.pressure = report.pressure
  BY <1>2, PressureAssumption
<1>5. /\ UNCHANGED call /\ call[a].pc = "idle" /\ o.pressure \in d.records
      /\ Put(a, "observations", o)
      /\ suspect' = [suspect EXCEPT ![CheckoutOf[a]] = @ \/ Late(o, d.transitions)]
  BY <1>0, <1>2, <1>3 DEF Observe, Registry, Suspect
<1>6. PICK e : e = With(d, "observations", o)
  OBVIOUS
<1>7. \A c \in Checkouts : docs'[c] = IF c = CheckoutOf[a] THEN e ELSE docs[c]
  <2>1. "observations" \in Fields /\ RegistryInv
    BY DEF Fields, ValidInv
  <2> QED
    BY <1>0, <1>5, <1>6, <2>1, WriteGives
<1>8. /\ e.records = d.records /\ e.observations = d.observations \cup {o}
      /\ e.transitions = d.transitions /\ e.relations = d.relations
  BY <1>1, <1>6, WithFields
<1>9. ASSUME ValidIn(call[a], d), ~Late(o, d.transitions) PROVE ValidIn(call[a], e)
  <2>1. RegistryValid(d)
    BY <1>5, <1>9 DEF ValidIn
  <2>3. RegistryValid(e)
    BY <1>1, <1>5, <1>8, <1>9, <2>1, ValidObserved
  <2> QED
    BY <1>5, <2>3 DEF ValidIn
<1>10. PICK l : l = call[a]
  OBVIOUS
<1>11. /\ DOMAIN l = DOMAIN NoCall /\ l.pc = "idle" /\ call' = call
       /\ IsFiniteSet(e.records)
  BY <1>1, <1>5, <1>8, <1>10
<1>12. suspect'[CheckoutOf[a]] \/ ValidIn(l, e)
  <2>1. suspect'[CheckoutOf[a]] = (suspect[CheckoutOf[a]] \/ Late(o, d.transitions))
    BY <1>1, <1>5
  <2> QED
    BY <1>1, <1>9, <1>10, <2>1
<1>13. \E v : suspect' = [suspect EXCEPT ![CheckoutOf[a]] = v]
  BY <1>5
<1>step. OwnStep(a, l, e)
  BY <1>5, <1>7, <1>10, <1>11, <1>12, <1>13 DEF OwnStep
<1> QED
  BY <1>step, OneAgent

\* relate, up to its check.
LEMMA RelateValid ==
    ASSUME OwnCheckout, ValidInv, RegistryInv', NEW a \in Agents, NEW r, Relate(a, r)
    PROVE  ValidInv'
<1>0. PICK d : d = docs[CheckoutOf[a]]
  OBVIOUS
<1>1. /\ DOMAIN d = Fields /\ IsFiniteSet(d.records) /\ IsFiniteSet(d.transitions)
      /\ suspect[CheckoutOf[a]] \/ ValidIn(call[a], d)
  BY <1>0, AtHand
<1>2. PICK l : l = [NoCall EXCEPT !.pc = "check relation", !.event = r]
  OBVIOUS
<1>3. PICK e : e = With(d, "relations", r)
  OBVIOUS
<1>4. /\ call' = [call EXCEPT ![a] = l] /\ Put(a, "relations", r) /\ call[a].pc = "idle"
      /\ UNCHANGED suspect
  BY <1>2 DEF Relate
<1>5. "relations" \in Fields /\ RegistryInv
  BY DEF Fields, ValidInv
<1>6. \A c \in Checkouts : docs'[c] = IF c = CheckoutOf[a] THEN e ELSE docs[c]
  BY <1>0, <1>3, <1>4, <1>5, WriteGives
<1>7. DOMAIN l = DOMAIN NoCall /\ l.pc = "check relation" /\ l.event = r
  BY <1>2, NewCall
<1>8. e.records = d.records /\ e.transitions = d.transitions
  BY <1>1, <1>3, WithFields
<1>9. ASSUME ValidIn(call[a], d) PROVE ValidIn(l, e)
  <2>1. RegistryValid(d)
    BY <1>4, <1>9 DEF ValidIn
  <2>2. ValidBut(e, "relations", r)
    BY <1>1, <1>3, <1>5, <2>1, TakenBack
  <2> QED
    BY <1>7, <2>2 DEF ValidIn
<1>10. /\ IsFiniteSet(e.records)
       /\ suspect'[CheckoutOf[a]] \/ ValidIn(l, e)
  BY <1>1, <1>4, <1>7, <1>8, <1>9
<1>step. OwnStep(a, l, e)
  BY <1>4, <1>6, <1>7, <1>10 DEF OwnStep
<1> QED
  BY <1>step, OneAgent

\* transition, up to its check.
LEMMA TransitionValid ==
    ASSUME OwnCheckout, ValidInv, RegistryInv', NEW a \in Agents,
           TransitionWrite(a) \/ \E p, to, refs, at0 : TransitionRead(a, p, to, refs, at0)
    PROVE  ValidInv'
<1>0. PICK d : d = docs[CheckoutOf[a]]
  OBVIOUS
<1>1. /\ DOMAIN d = Fields /\ IsFiniteSet(d.records) /\ IsFiniteSet(d.transitions)
      /\ suspect[CheckoutOf[a]] \/ ValidIn(call[a], d)
      /\ DOMAIN call[a] = DOMAIN NoCall
  BY <1>0, AtHand
<1>2. RegistryInv
  BY DEF ValidInv
<1>3. ASSUME NEW p, NEW to, NEW refs, NEW at0, TransitionRead(a, p, to, refs, at0) PROVE ValidInv'
  <2>1. PICK event : event = [id |-> ids + 1, pressure |-> p, prev |-> Show(Registry(a), p).head,
                              from |-> Show(Registry(a), p).status, to |-> to, at |-> at0,
                              refs |-> refs]
    OBVIOUS
  <2>2. PICK l : l = [NoCall EXCEPT !.pc = "write transition", !.event = event]
    OBVIOUS
  <2>3. /\ call' = [call EXCEPT ![a] = l] /\ call[a].pc = "idle"
        /\ UNCHANGED <<docs, suspect>>
    BY <1>3, <2>1, <2>2 DEF TransitionRead
  <2>4. DOMAIN l = DOMAIN NoCall /\ l.pc = "write transition" /\ l.event = event
    BY <2>2, NewCall
  <2>6. \A c \in Checkouts : docs'[c] = IF c = CheckoutOf[a] THEN d ELSE docs[c]
    BY <1>0, <2>3
  <2>7. ValidIn(call[a], d) => ValidIn(l, d)
    BY <2>3, <2>4 DEF ValidIn
  <2>8. suspect'[CheckoutOf[a]] \/ ValidIn(l, d)
    BY <1>1, <2>3, <2>7
  <2>step. OwnStep(a, l, d)
    BY <1>1, <2>3, <2>4, <2>6, <2>8 DEF OwnStep
  <2> QED
    BY <2>step, OneAgent
<1>4. CASE TransitionWrite(a)
  <2>1. PICK x : x = call[a].event
    OBVIOUS
  <2>2. PICK l : l = [call[a] EXCEPT !.pc = "check transition"]
    OBVIOUS
  <2>3. PICK e : e = With(d, "transitions", x)
    OBVIOUS
  <2>4. /\ Put(a, "transitions", x) /\ call[a].pc = "write transition"
        /\ UNCHANGED suspect
    BY <1>4, <2>1 DEF TransitionWrite
  <2>5. call' = [call EXCEPT ![a] = l]
    BY <1>4, <2>2 DEF TransitionWrite
  <2>6. DOMAIN l = DOMAIN NoCall /\ l.pc = "check transition" /\ l.event = x
    BY <1>1, <2>1, <2>2 DEF NoCall
  <2>8. "transitions" \in Fields
    BY DEF Fields
  <2>9. \A c \in Checkouts : docs'[c] = IF c = CheckoutOf[a] THEN e ELSE docs[c]
    <3>1. \A c \in Checkouts : docs'[c] = IF c = CheckoutOf[a]
                                            THEN With(docs[CheckoutOf[a]], "transitions", x) ELSE docs[c]
      BY <1>2, <2>4, <2>8, WriteGives
    <3> QED
      BY <1>0, <2>3, <3>1
  <2>10. e.records = d.records /\ e.transitions = d.transitions \cup {x}
    BY <1>1, <2>3, WithFields
  <2>11. ASSUME ValidIn(call[a], d) PROVE ValidIn(l, e)
    <3>1. RegistryValid(d)
      BY <2>4, <2>11 DEF ValidIn
    <3>2. ValidBut(e, "transitions", x)
      BY <1>1, <2>3, <2>8, <3>1, TakenBack
    <3> QED
      BY <2>6, <3>2 DEF ValidIn
  <2>12. /\ IsFiniteSet(e.records)
         /\ suspect'[CheckoutOf[a]] \/ ValidIn(l, e)
    BY <1>1, <2>4, <2>10, <2>11
  <2>step. OwnStep(a, l, e)
    BY <2>4, <2>5, <2>6, <2>9, <2>12 DEF OwnStep
  <2> QED
    BY <2>step, OneAgent
<1> QED
  BY <1>3, <1>4

\* The checks: what is not valid is taken back.
LEMMA CheckValid ==
    ASSUME OwnCheckout, ValidInv, RegistryInv', NEW a \in Agents, CheckWritten(a) \/ CheckRaises(a)
    PROVE  ValidInv'
<1>0. PICK d : d = docs[CheckoutOf[a]]
  OBVIOUS
<1>1. /\ DOMAIN d = Fields /\ IsFiniteSet(d.records) /\ IsFiniteSet(d.transitions)
      /\ suspect[CheckoutOf[a]] \/ ValidIn(call[a], d)
      /\ RegistryInv /\ DOMAIN suspect = Checkouts /\ CheckoutOf[a] \in Checkouts
  BY <1>0, AtHand, CheckoutType DEF ValidInv
<1>2. /\ call' = [call EXCEPT ![a] = NoCall]
      /\ call[a].pc \in {"check transition", "check relation"}
  BY DEF CheckWritten, CheckRaises, Return
<1>3. NoCall.pc = "idle" /\ \A e : RegistryValid(e) => ValidIn(NoCall, e)
  BY NewCall DEF ValidIn
<1>4. ASSUME UNCHANGED docs PROVE \A c \in Checkouts : docs'[c] = IF c = CheckoutOf[a] THEN d ELSE docs[c]
  BY <1>0, <1>4
<1>5. CASE CheckRaises(a)
  <2>1. suspect' = [suspect EXCEPT ![CheckoutOf[a]] = @ \/ TRUE] /\ UNCHANGED docs
    BY <1>5 DEF CheckRaises, Suspect
  <2>2. suspect'[CheckoutOf[a]] = (suspect[CheckoutOf[a]] \/ TRUE) /\ suspect'[CheckoutOf[a]]
        /\ \E v : suspect' = [suspect EXCEPT ![CheckoutOf[a]] = v]
    BY <1>1, <2>1
  <2>3. \A c \in Checkouts : docs'[c] = IF c = CheckoutOf[a] THEN d ELSE docs[c]
    BY <1>4, <2>1
  <2>4. NoCall.pc \notin {"write transition", "check transition"}
    BY <1>3
  <2>step. OwnStep(a, NoCall, d)
    BY <1>1, <1>2, <2>1, <2>2, <2>3, <2>4 DEF OwnStep
  <2> QED
    BY <2>step, OneAgent
<1>6. CASE CheckWritten(a) /\ RegistryValid(d)
  <2>1. UNCHANGED <<docs, suspect>>
    BY <1>0, <1>6 DEF CheckWritten
  <2>step. OwnStep(a, NoCall, d)
    BY <1>1, <1>2, <1>3, <1>4, <1>6, <2>1 DEF OwnStep
  <2> QED
    BY <2>step, OneAgent
<1>7. CASE CheckWritten(a) /\ ~RegistryValid(d)
  <2>1. PICK x : x = call[a].event
    OBVIOUS
  <2>2. /\ UNCHANGED suspect
        /\ Unlink(a, IF call[a].pc = "check transition" THEN "transitions" ELSE "relations", x)
    BY <1>0, <1>7, <2>1 DEF CheckWritten
  <2>3. ASSUME NEW f \in Fields, Unlink(a, f, x), f \in {"transitions", "relations"},
               ValidIn(call[a], d) => ValidBut(d, f, x)
        PROVE  ValidInv'
    <3>1. PICK e : e = Without(d, f, x)
      OBVIOUS
    <3>2. \A c \in Checkouts : docs'[c] = IF c = CheckoutOf[a] THEN e ELSE docs[c]
      BY <1>0, <1>1, <2>3, <3>1, WriteGives
    <3>3. e.records = d.records /\ e.transitions \subseteq d.transitions
      BY <1>1, <2>3, <3>1, WithFields
    <3>4. ValidIn(call[a], d) => ValidIn(NoCall, e)
      BY <1>3, <1>7, <2>3, <3>1 DEF ValidBut
    <3>step. OwnStep(a, NoCall, e)
      BY <1>1, <1>2, <1>3, <2>2, <3>2, <3>3, <3>4 DEF OwnStep
    <3> QED
      BY <3>step, OneAgent
  <2>4. CASE call[a].pc = "check transition"
    <3>1. Unlink(a, "transitions", x) /\ "transitions" \in Fields
      BY <2>2, <2>4 DEF Fields
    <3>2. ValidIn(call[a], d) => ValidBut(d, "transitions", x)
      BY <2>1, <2>4 DEF ValidIn
    <3> QED
      BY <2>3, <3>1, <3>2
  <2>5. CASE call[a].pc = "check relation"
    <3>1. Unlink(a, "relations", x) /\ "relations" \in Fields
      BY <2>2, <2>5 DEF Fields
    <3>2. ValidIn(call[a], d) => ValidBut(d, "relations", x)
      BY <2>1, <2>5 DEF ValidIn
    <3> QED
      BY <2>3, <3>1, <3>2
  <2> QED
    BY <1>2, <2>4, <2>5
<1> QED
  BY <1>5, <1>6, <1>7

\* migrate_legacy: an entry that was not imported brings a new alias.
LEMMA MigrateValid ==
    ASSUME OwnCheckout, ValidInv, RegistryInv', NEW a \in Agents,
           MigrateNext(a) \/ \E ledger : MigrateStart(a, ledger)
    PROVE  ValidInv'
<1>0. PICK d : d = docs[CheckoutOf[a]]
  OBVIOUS
<1>1. /\ DOMAIN d = Fields /\ IsFiniteSet(d.records) /\ IsFiniteSet(d.transitions)
      /\ suspect[CheckoutOf[a]] \/ ValidIn(call[a], d)
      /\ DOMAIN call[a] = DOMAIN NoCall
      /\ CheckoutOf[a] \in Checkouts /\ DOMAIN docs = Checkouts
  BY <1>0, AtHand, CheckoutType DEF ValidInv, RegistryInv, DocsOK
<1>2. UNCHANGED suspect /\ call[a].pc \in {"idle", "migrate"}
  BY DEF MigrateNext, MigrateStart
<1>3. ValidIn(call[a], d) => RegistryValid(d)
  BY <1>2 DEF ValidIn
<1>4. ASSUME NEW l, call' = [call EXCEPT ![a] = l], DOMAIN l = DOMAIN NoCall,
             l.pc \in {"idle", "migrate"}, NEW e,
             \A c \in Checkouts : docs'[c] = IF c = CheckoutOf[a] THEN e ELSE docs[c],
             IsFiniteSet(e.records), e.transitions = d.transitions,
             RegistryValid(d) => RegistryValid(e)
      PROVE  ValidInv'
  <2>1. ValidIn(call[a], d) => ValidIn(l, e)
    BY <1>3, <1>4 DEF ValidIn
  <2>2. suspect'[CheckoutOf[a]] \/ ValidIn(l, e)
    BY <1>1, <1>2, <1>4, <2>1
  <2>step. OwnStep(a, l, e)
    BY <1>2, <1>4, <2>2 DEF OwnStep
  <2> QED
    BY <2>step, OneAgent
<1>5. ASSUME UNCHANGED docs PROVE \A c \in Checkouts : docs'[c] = IF c = CheckoutOf[a] THEN d ELSE docs[c]
  BY <1>0, <1>5
<1>6. ASSUME NEW ledger, MigrateStart(a, ledger) PROVE ValidInv'
  <2>1. PICK l : l = [NoCall EXCEPT !.pc = "migrate", !.todo = ledger]
    OBVIOUS
  <2>2. call' = [call EXCEPT ![a] = l] /\ UNCHANGED docs
    BY <1>6, <2>1 DEF MigrateStart
  <2>3. DOMAIN l = DOMAIN NoCall /\ l.pc = "migrate"
    BY <2>1, NewCall
  <2> QED
    BY <1>1, <1>4, <1>5, <2>2, <2>3
<1>7. CASE MigrateNext(a)
  <2>1. PICK l : /\ call' = [call EXCEPT ![a] = l] /\ DOMAIN l = DOMAIN NoCall
                 /\ l.pc \in {"idle", "migrate"}
    <3>1. CASE Return(a)
      BY <3>1, NewCall DEF Return
    <3>2. CASE call' = [call EXCEPT ![a].todo = Tail(@)]
      <4>1. PICK l : l = [call[a] EXCEPT !.todo = Tail(@)]
        OBVIOUS
      <4>2. call' = [call EXCEPT ![a] = l]
        BY <3>2, <4>1
      <4>3. DOMAIN l = DOMAIN call[a] /\ l.pc = call[a].pc
        BY <1>1, <4>1 DEF NoCall
      <4> QED
        BY <1>1, <1>2, <4>2, <4>3
    <3> QED
      BY <1>7, <3>1, <3>2 DEF MigrateNext
  <2>2. PICK p : p = Head(call[a].todo)
    OBVIOUS
  <2>3. CASE UNCHANGED docs
    BY <1>1, <1>4, <1>5, <2>1, <2>3
  <2>4. ASSUME NEW r, ~Imported(d, p),
               docs' = [docs EXCEPT ![CheckoutOf[a]].records = @ \cup {p},
                                    ![CheckoutOf[a]].observations = @ \cup {FirstReport(p, r, NoInstant)}]
        PROVE  ValidInv'
    <3>0. PICK o : o = FirstReport(p, r, NoInstant)
      OBVIOUS
    <3>1. o = FirstReport(p, r, NoInstant) /\ o.pressure = p /\ o.at = NoInstant
      BY <3>0 DEF FirstReport
    <3>2. PICK m : m = With(d, "records", p)
      OBVIOUS
    <3>3. PICK e : e = With(m, "observations", o)
      OBVIOUS
    <3>4. /\ m.records = d.records \cup {p} /\ m.observations = d.observations
          /\ m.transitions = d.transitions /\ m.relations = d.relations /\ DOMAIN m = Fields
      <4>1. DOMAIN m = Fields
        BY <1>1, <3>2 DEF With
      <4> QED
        BY <1>1, <3>2, <4>1, WithFields
    <3>5. /\ e.records = m.records /\ e.observations = m.observations \cup {o}
          /\ e.transitions = m.transitions /\ e.relations = m.relations
      BY <3>3, <3>4, WithFields
    <3>6. \A c \in Checkouts : docs'[c] = IF c = CheckoutOf[a] THEN e ELSE docs[c]
      <4>1. PICK k : k = CheckoutOf[a]
        OBVIOUS
      <4>2. docs' = [docs EXCEPT ![k].records = @ \cup {p}, ![k].observations = @ \cup {o}]
        BY <2>4, <3>1, <4>1
      <4>3. \A c \in Checkouts : docs'[c] =
               IF c = k THEN [d EXCEPT !.records = @ \cup {p}, !.observations = @ \cup {o}] ELSE docs[c]
        BY <1>0, <1>1, <4>1, <4>2
      <4>4. e = [d EXCEPT !.records = @ \cup {p}, !.observations = @ \cup {o}]
        BY <1>1, <3>2, <3>3 DEF With, Fields
      <4> QED
        BY <4>1, <4>3, <4>4
    <3>7. IsFiniteSet(e.records) /\ IsFiniteSet(m.records) /\ IsFiniteSet(m.transitions)
      BY <1>1, <3>4, <3>5, FS_AddElement
    <3>8. ASSUME RegistryValid(d) PROVE RegistryValid(e)
      <4>1. p \notin d.records /\ \A q \in d.records : Declarations[q].legacy # Declarations[p].legacy
        BY <2>4 DEF Imported
      <4>2. RegistryValid(m)
        BY <1>1, <3>4, <3>8, <4>1, ValidDeclared
      <4>3. o.pressure \in m.records /\ ~Late(o, m.transitions)
        BY <3>1, <3>4 DEF Late
      <4> QED
        BY <3>1, <3>5, <3>7, <4>2, <4>3, ValidObserved
    <3>9. e.transitions = d.transitions
      BY <3>4, <3>5
    <3> QED
      BY <1>4, <2>1, <3>6, <3>7, <3>8, <3>9
  <2>5. \/ UNCHANGED docs
        \/ \E r : /\ ~Imported(d, p)
                  /\ docs' = [docs EXCEPT ![CheckoutOf[a]].records = @ \cup {p},
                                  ![CheckoutOf[a]].observations = @ \cup {FirstReport(p, r, NoInstant)}]
    BY <1>0, <1>7, <2>2 DEF MigrateNext, Registry
  <2> QED
    BY <2>3, <2>4, <2>5
<1> QED
  BY <1>6, <1>7

\* A replay that was valid is valid with more relations.
LEMMA MoreRelations ==
    ASSUME NEW d, NEW e, NEW p, IsFiniteSet(TransitionsOf(d, p)), Project(d, p).valid,
           TransitionsOf(e, p) = TransitionsOf(d, p), RelationsOf(d, p) \subseteq RelationsOf(e, p),
           \A t \in TransitionsOf(d, p) :
              VisibleAt(t, ObservationsOf(e, p)) = VisibleAt(t, ObservationsOf(d, p))
    PROVE  Project(e, p).valid
<1>1. PICK n : n = Cardinality(TransitionsOf(d, p)) /\ n \in Nat
  BY FS_CardinalityType
<1>2. n = Cardinality(TransitionsOf(e, p))
  BY <1>1
<1>3. ASSUME NEW t \in TransitionsOf(d, p), NEW s, Follows(t, s, d, p)
      PROVE  Follows(t, s, e, p)
  <2>1. PICK seen : seen = VisibleAt(t, ObservationsOf(d, p))
    OBVIOUS
  <2>2. /\ t.from = s /\ t.to \in Allowed[s]
        /\ MeetsRequirements(t, seen, Affected(p, seen), RelationsOf(d, p))
    BY <1>3, <2>1, Zenon DEF Follows
  <2>3. MeetsRequirements(t, seen, Affected(p, seen), RelationsOf(e, p))
    BY <2>2, Zenon DEF MeetsRequirements
  <2> QED
    BY <2>1, <2>2, <2>3, Zenon DEF Follows
<1>4. ASSUME NEW w, ReplayState(w), ProjectAdvance(w, d, p).valid
      PROVE  w.valid /\ ProjectAdvance(w, e, p) = ProjectAdvance(w, d, p)
  <2>1. PICK next : next = Successors(TransitionsOf(d, p), w.head)
    OBVIOUS
  <2>2. next = Successors(TransitionsOf(e, p), w.head) /\ next \subseteq TransitionsOf(d, p)
    BY <2>1 DEF Successors
  <2>3. PICK t : t = CHOOSE u \in next : TRUE
    OBVIOUS
  <2>4. /\ ProjectAdvance(w, d, p) =
             IF ~w.valid \/ next = {} THEN w
             ELSE IF Cardinality(next) > 1 \/ ~Follows(t, w.status, d, p) THEN [w EXCEPT !.valid = FALSE]
             ELSE [status |-> t.to, head |-> t.id, seen |-> w.seen + 1, valid |-> TRUE]
        /\ ProjectAdvance(w, e, p) =
             IF ~w.valid \/ next = {} THEN w
             ELSE IF Cardinality(next) > 1 \/ ~Follows(t, w.status, e, p) THEN [w EXCEPT !.valid = FALSE]
             ELSE [status |-> t.to, head |-> t.id, seen |-> w.seen + 1, valid |-> TRUE]
    BY <2>1, <2>2, <2>3 DEF ProjectAdvance
  <2>5. w.valid
    BY <1>4, <2>4
  <2>6. CASE next = {}
    BY <2>4, <2>5, <2>6
  <2>7. CASE next # {}
    <3>1. t \in TransitionsOf(d, p)
      BY <2>2, <2>3, <2>7
    <3>2. [w EXCEPT !.valid = FALSE].valid = FALSE
      BY <1>4 DEF ReplayState
    <3>3. ~(Cardinality(next) > 1) /\ Follows(t, w.status, d, p)
      BY <1>4, <2>4, <2>5, <2>7, <3>2
    <3>4. Follows(t, w.status, e, p)
      BY <1>3, <3>1, <3>3
    <3> QED
      BY <2>4, <2>5, <2>7, <3>3, <3>4
  <2> QED
    BY <2>6, <2>7
<1>5. PICK f : Projects(f, n, d, p) /\ Project(d, p) = [f[n] EXCEPT !.valid = @ /\ f[n].seen = n]
  BY <1>1, ProjectIsReplay
<1>6. PICK g : Projects(g, n, e, p) /\ Project(e, p) = [g[n] EXCEPT !.valid = @ /\ g[n].seen = n]
  BY <1>1, <1>2, ProjectIsReplay
<1>7. \A i \in 0..n : ReplayState(f[i])
  BY <1>1, <1>5, ReplayStates
<1> DEFINE S == {i \in 0..n : f[i].valid => g[i] = f[i]}
<1>8. 0 \in S
  BY <1>1, <1>5, <1>6 DEF Projects
<1>9. ASSUME NEW i \in 1..n, i - 1 \in S PROVE i \in S
  <2>0. i \in 0..n /\ i # 0 /\ i - 1 \in 0..n /\ Projects(f, n, d, p) /\ Projects(g, n, e, p)
    BY <1>1, <1>5, <1>6
  <2>1. f[i] = ProjectAdvance(f[i - 1], d, p) /\ g[i] = ProjectAdvance(g[i - 1], e, p)
    BY <2>0 DEF Projects
  <2>2. ASSUME f[i].valid PROVE g[i] = f[i]
    <3>1. /\ f[i - 1].valid
          /\ ProjectAdvance(f[i - 1], e, p) = ProjectAdvance(f[i - 1], d, p)
      BY <1>4, <1>7, <2>0, <2>1, <2>2
    <3> QED
      BY <1>9, <2>1, <3>1
  <2> QED
    BY <2>0, <2>2
<1>10. f[n].valid => g[n] = f[n]
  <2> HIDE DEF S
  <2>1. 0..n \subseteq S
    BY <1>1, <1>8, <1>9, UpTo
  <2>2. n \in S
    BY <1>1, <2>1
  <2> QED
    BY <2>2 DEF S
<1>11. f[n].valid
  <2>1. ReplayState(f[n])
    BY <1>1, <1>7
  <2>2. Project(d, p).valid = (f[n].valid /\ f[n].seen = n)
    BY <1>5, <2>1 DEF ReplayState
  <2> QED
    BY <2>2
<1> QED
  BY <1>5, <1>6, <1>10, <1>11

\* What one registry brings to the other, for a pressure of which the other has all
\* transitions.
LEMMA ValidWithMore ==
    ASSUME NEW d, NEW e, NEW u, NEW p, RegistryValid(d), IsFiniteSet(d.transitions),
           TransitionsOf(e, p) \subseteq TransitionsOf(d, p),
           \A o \in e.observations \ d.observations : ~Late(o, d.transitions),
           u.observations = d.observations \cup e.observations,
           u.transitions = d.transitions \cup e.transitions,
           u.relations = d.relations \cup e.relations
    PROVE  Project(u, p).valid
<1>1. TransitionsOf(u, p) = TransitionsOf(d, p)
  BY DEF TransitionsOf
<1>2. CASE p \notin d.records
  <2>1. TransitionsOf(d, p) = {}
    BY <1>2 DEF RegistryValid, EventsValid, TransitionsOf
  <2> QED
    BY <1>1, <2>1, UntouchedValid
<1>3. CASE p \in d.records
  <2>1. Project(d, p).valid
    BY <1>3 DEF RegistryValid
  <2>2. RelationsOf(d, p) \subseteq RelationsOf(u, p)
    BY DEF RelationsOf
  <2>3. ASSUME NEW t \in TransitionsOf(d, p)
        PROVE  VisibleAt(t, ObservationsOf(u, p)) = VisibleAt(t, ObservationsOf(d, p))
    <3>1. t \in d.transitions /\ t.pressure = p /\ t.refs \subseteq d.observations
      BY DEF TransitionsOf, RegistryValid, EventsValid
    <3>2. \A o \in u.observations \ d.observations :
             o \notin t.refs /\ (o.pressure = p => ~(o.at # NoInstant /\ o.at < t.at))
      BY <3>1 DEF Late
    <3> QED
      BY <3>2 DEF VisibleAt, ObservationsOf
  <2> QED
    BY <1>1, <2>1, <2>2, <2>3, TransitionsFinite, MoreRelations
<1> QED
  BY <1>2, <1>3

\* Two valid registries that fit together are valid as one.
LEMMA ValidTogether ==
    ASSUME NEW d, NEW e, DOMAIN d = Fields, DOMAIN e = Fields,
           RegistryValid(d), RegistryValid(e), Fit(d, e),
           IsFiniteSet(d.transitions), IsFiniteSet(e.transitions)
    PROVE  RegistryValid(Union(d, e))
<1>1. PICK u : u = Union(d, e)
  OBVIOUS
<1>2. /\ u.records = d.records \cup e.records /\ u.observations = d.observations \cup e.observations
      /\ u.transitions = d.transitions \cup e.transitions /\ u.relations = d.relations \cup e.relations
  BY <1>1 DEF Union, Fields
<1>3. RecordsValid(u) /\ DuplicatesAcyclic(u)
  BY <1>1 DEF Fit
<1>4. ObservationsValid(u) /\ EventsValid(u)
  BY <1>2 DEF RegistryValid, ObservationsValid, EventsValid
<1>5. ASSUME NEW p \in u.records PROVE Project(u, p).valid
  <2>1. Agree(d, e, p)
    BY <1>2 DEF Fit
  <2>2. CASE TransitionsOf(e, p) \subseteq TransitionsOf(d, p)
    BY <1>2, <2>2, ValidWithMore DEF Fit
  <2>3. CASE TransitionsOf(d, p) \subseteq TransitionsOf(e, p)
    <3>1. /\ u.observations = e.observations \cup d.observations
          /\ u.transitions = e.transitions \cup d.transitions
          /\ u.relations = e.relations \cup d.relations
      BY <1>2
    <3> QED
      BY <2>3, <3>1, ValidWithMore DEF Fit
  <2> QED
    BY <2>1, <2>2, <2>3 DEF Agree
<1> QED
  BY <1>1, <1>3, <1>4, <1>5 DEF RegistryValid

\* A checkout is merged into; the others are as they were.
LEMMA MergeValid ==
    ASSUME ValidInv, RegistryInv', NEW k \in Checkouts, NEW e \in Checkouts, Merge(k, e)
    PROVE  ValidInv'
<1>1. /\ docs' = [docs EXCEPT ![k] = Union(docs[k], docs[e])]
      /\ suspect' = [suspect EXCEPT ![k] = @ \/ (suspect[e] \/ ~Fit(docs[k], docs[e]))]
      /\ call' = call /\ Quiet(k) /\ Quiet(e)
  BY DEF Merge, Suspect
<1>2. /\ DOMAIN docs = Checkouts /\ DOMAIN suspect = Checkouts
      /\ \A c \in Checkouts : /\ DOMAIN docs[c] = Fields /\ IsFiniteSet(docs[c].records)
                               /\ IsFiniteSet(docs[c].transitions)
  BY DEF ValidInv, RegistryInv, DocsOK
<1>3. /\ \A c \in Checkouts \ {k} : docs'[c] = docs[c] /\ suspect'[c] = suspect[c]
      /\ DOMAIN suspect' = Checkouts /\ docs'[k] = Union(docs[k], docs[e])
      /\ suspect'[k] = (suspect[k] \/ (suspect[e] \/ ~Fit(docs[k], docs[e])))
  BY <1>1, <1>2
<1>4. \A c \in Checkouts : IsFiniteSet(docs'[c].records)
  <2>1. docs'[k].records = docs[k].records \cup docs[e].records
    BY <1>2, <1>3 DEF Union, Fields
  <2>2. IsFiniteSet(docs'[k].records)
    BY <1>2, <2>1, FS_Union
  <2> QED
    BY <1>2, <1>3, <2>2
<1>5. ASSUME NEW c \in Checkouts, Quiet(c), ~suspect[c] PROVE RegistryValid(docs[c])
  <2>1. PICK a \in Agents : c = CheckoutOf[a]
    BY DEF Checkouts
  <2>2. call[a].pc = "idle" /\ ValidIn(call[a], docs[c])
    BY <1>5, <2>1 DEF Quiet, ValidInv
  <2> QED
    BY <2>2 DEF ValidIn
<1>6. ASSUME NEW a \in Agents
      PROVE  suspect'[CheckoutOf[a]] \/ ValidIn(call'[a], docs'[CheckoutOf[a]])
  <2>1. CASE CheckoutOf[a] = k
    <3>1. CASE ~suspect[k] /\ ~suspect[e] /\ Fit(docs[k], docs[e])
      <4>1. RegistryValid(docs[k]) /\ RegistryValid(docs[e])
        BY <1>1, <1>5, <3>1
      <4>2. RegistryValid(docs'[k])
        BY <1>2, <1>3, <3>1, <4>1, ValidTogether
      <4>3. call'[a].pc = "idle"
        BY <1>1, <2>1 DEF Quiet
      <4> QED
        BY <2>1, <4>2, <4>3 DEF ValidIn
    <3>2. CASE ~(~suspect[k] /\ ~suspect[e] /\ Fit(docs[k], docs[e]))
      BY <1>3, <2>1, <3>2
    <3> QED
      BY <3>1, <3>2
  <2>2. CASE CheckoutOf[a] # k
    <3>1. CheckoutOf[a] \in Checkouts \ {k}
      BY <2>2, CheckoutType
    <3>2. /\ docs'[CheckoutOf[a]] = docs[CheckoutOf[a]] /\ call'[a] = call[a]
          /\ suspect'[CheckoutOf[a]] = suspect[CheckoutOf[a]]
      BY <1>1, <1>3, <3>1
    <3> QED
      BY <3>2 DEF ValidInv
  <2> QED
    BY <2>1, <2>2
<1>7. \A a \in Agents : DOMAIN call'[a] = DOMAIN NoCall
  BY <1>1 DEF ValidInv
<1> QED
  BY <1>3, <1>4, <1>6, <1>7 DEF ValidInv

LEMMA ValidStep ==
    ASSUME OwnCheckout
    PROVE  ValidInv /\ [Next]_vars => ValidInv'
<1> SUFFICES ASSUME ValidInv, [Next]_vars PROVE ValidInv'
  OBVIOUS
<1>0. RegistryInv'
  BY RegistryStep DEF ValidInv
<1>1. ASSUME NEW a \in Agents, AddObservation(a) \/ \E p \in Pressures : AddRecord(a, p)
      PROVE  ValidInv'
  BY <1>0, <1>1, AddValid
<1>2. ASSUME NEW a \in Agents, NEW report \in Reports, NEW at0, Observe(a, report, at0)
      PROVE  ValidInv'
  BY <1>0, <1>2, ObserveValid
<1>3. ASSUME NEW a \in Agents, NEW r, Relate(a, r) PROVE ValidInv'
  BY <1>0, <1>3, RelateValid
<1>4. ASSUME NEW a \in Agents,
             TransitionWrite(a) \/ \E p, to, refs, at0 : TransitionRead(a, p, to, refs, at0)
      PROVE  ValidInv'
  BY <1>0, <1>4, TransitionValid
<1>5. ASSUME NEW a \in Agents, CheckWritten(a) \/ CheckRaises(a) PROVE ValidInv'
  BY <1>0, <1>5, CheckValid
<1>6. ASSUME NEW a \in Agents, MigrateNext(a) \/ \E ledger : MigrateStart(a, ledger) PROVE ValidInv'
  BY <1>0, <1>6, MigrateValid
<1>7. ASSUME NEW k \in Checkouts, NEW e \in Checkouts, Merge(k, e) PROVE ValidInv'
  BY <1>0, <1>7, MergeValid
<1>8. CASE UNCHANGED vars
  BY <1>0, <1>8 DEF vars, ValidInv
<1> QED
  BY <1>1, <1>2, <1>3, <1>4, <1>5, <1>6, <1>7, <1>8 DEF Next

LEMMA ValidStarts ==
    ASSUME PriorValid
    PROVE  Init => ValidInv
<1> SUFFICES ASSUME Init PROVE ValidInv
  OBVIOUS
<1>1. /\ docs = [c \in Checkouts |-> Prior] /\ call = [a \in Agents |-> NoCall]
      /\ DOMAIN suspect = Checkouts
  BY DEF Init
<1>2. \A c \in Checkouts : IsFiniteSet(docs[c].records)
  BY <1>1, PressureAssumption
<1>3. ASSUME NEW a \in Agents PROVE ValidIn(call[a], docs[CheckoutOf[a]])
  <2>1. call[a] = NoCall /\ docs[CheckoutOf[a]] = Prior
    BY <1>1, CheckoutType
  <2> QED
    BY <2>1, NewCall DEF ValidIn, PriorValid
<1> QED
  BY <1>1, <1>2, <1>3, RegistryStarts DEF ValidInv

\* "Unreferenced observations recorded after the event must not rewrite its
\* historical affected-repository requirements" (pressure.py): when each agent has
\* its own checkout, a registry that started valid is valid after every call and
\* every merge, whatever was declared, observed, related, migrated or taken back and
\* whatever instants callers gave, unless an alias was declared twice, an observation
\* dated before an event of its pressure, registries merged that do not fit
\* together, or a check failed.
THEOREM ValidRegistriesStay ==
    ASSUME OwnCheckout, PriorValid
    PROVE  Spec => []StaysValid
<1>1. ASSUME ValidInv, NEW c \in Checkouts, Quiet(c), ~suspect[c] PROVE RegistryValid(docs[c])
  <2>1. PICK a \in Agents : c = CheckoutOf[a]
    BY DEF Checkouts
  <2>2. call[a].pc = "idle" /\ ValidIn(call[a], docs[c])
    BY <1>1, <2>1 DEF Quiet, ValidInv
  <2> QED
    BY <2>2 DEF ValidIn
<1>2. ValidInv => StaysValid
  BY <1>1 DEF StaysValid
<1>3. ValidInv /\ [Next]_vars => ValidInv'
  BY ValidStep
<1>4. Init => ValidInv
  BY ValidStarts
<1> QED
  BY <1>2, <1>3, <1>4, PTL DEF Spec
=============================================================================
