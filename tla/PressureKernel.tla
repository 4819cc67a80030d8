--------------------------- MODULE PressureKernel ---------------------------
(***************************************************************************)
(* pressure_kernel() of src/mncs_commons/pressure_runtime.py: the compiled *)
(* lifecycle policy that the pressure registry asks.  A process keeps one  *)
(* open session, guarded by a lock and by a stamp of the build inputs; a   *)
(* new session takes its artifact from a cache directory that all          *)
(* processes share, or compiles it and fills the cache.  The inputs (the   *)
(* policy source, its library, the compiler) are one content here, edited  *)
(* at any time; an artifact is the content it was compiled from, and the   *)
(* number of edits stands for the file stamps.                             *)
(***************************************************************************)
EXTENDS Naturals

CONSTANTS
    Callers,      \* threads that call pressure_kernel
    Placements,   \* which callers are threads of one process: caller -> process
    Sources,      \* contents of the build inputs
    NoArtifact,   \* no artifact, session, receipt or lock holder
    MaxEdits,     \* bound on edits of the inputs
    MaxDeaths     \* bound on processes that die

ASSUME KernelAssumption ==
    /\ NoArtifact \notin Sources \cup Callers
    /\ Sources # {}
    /\ MaxEdits \in Nat /\ MaxDeaths \in Nat

VARIABLES
    placement, \* the placement of the callers, fixed from the start
    source,    \* what the build inputs hold
    edits,     \* how often they were edited
    cache,     \* content, by its digest -> what backend.json and receipt.json there hold
    session,   \* process -> [artifact, stamp]: _RUNTIME and _RUNTIME_STAMP
    holder,    \* process -> the caller that holds _RUNTIME_LOCK
    at,        \* caller -> control point
    hand,      \* caller -> what the call has in hand
    got,       \* the last answer: its artifact, and the inputs during the call
    raced,     \* contents whose digest was taken before an edit and the compile after it
    deaths

kernelVars == <<placement, source, edits, cache, session, holder, at, hand, got, raced, deaths>>

Processes == {placement[c] : c \in Callers}

NoSession == [artifact |-> NoArtifact, stamp |-> <<>>]
NothingInHand ==
    [began |-> 0, digest |-> NoArtifact, stamp |-> <<>>, key |-> NoArtifact, keyed |-> 0,
     artifact |-> NoArtifact]

Step(c, from, to) == at[c] = from /\ at' = [at EXCEPT ![c] = to]

Take(c, field, value) == hand' = [hand EXCEPT ![c][field] = value]

Drop(c) == hand' = [hand EXCEPT ![c] = NothingInHand]

\* The call returns a session of an artifact.  of is what the inputs held during
\* the whole call, if they were not edited in it.
Answer(c, artifact) ==
    /\ got' = [artifact |-> artifact, of |-> IF hand[c].began = edits THEN source ELSE NoArtifact]
    /\ Drop(c)

-----------------------------------------------------------------------------
\* pressure_kernel: the digest of the source, then the stamp, without the lock.
ReadDigest(c) ==
    /\ Step(c, "idle", "stamp")
    /\ hand' = [hand EXCEPT ![c].began = edits, ![c].digest = source]
    /\ UNCHANGED <<placement, source, edits, cache, session, holder, got, raced, deaths>>

ReadStamp(c) ==
    /\ Step(c, "stamp", "enter")
    /\ Take(c, "stamp", <<hand[c].digest, edits>>)
    /\ UNCHANGED <<placement, source, edits, cache, session, holder, got, raced, deaths>>

\* Mutant of MustBuild: a session is opened once.
MustBuildOnce(s, stamp) == s.artifact = NoArtifact

MustBuild(s, stamp) == s.artifact = NoArtifact \/ s.stamp # stamp

\* With the lock, the open session is answered when its stamp fits.
EnterReuse(c) ==
    LET p == placement[c]
    IN  /\ holder[p] = NoArtifact
        /\ ~MustBuild(session[p], hand[c].stamp)
        /\ Step(c, "enter", "idle")
        /\ Answer(c, session[p].artifact)
        /\ UNCHANGED <<placement, source, edits, cache, session, holder, raced, deaths>>

EnterBuild(c) ==
    LET p == placement[c]
    IN  /\ holder[p] = NoArtifact
        /\ MustBuild(session[p], hand[c].stamp)
        /\ Step(c, "enter", "digest")
        /\ holder' = [holder EXCEPT ![p] = c]
        /\ UNCHANGED <<placement, source, edits, cache, session, hand, got, raced, deaths>>

-----------------------------------------------------------------------------
\* _EmbedRuntime.__init__ and _compile_and_open.

\* The identity of the inputs names the directory in the cache.
DigestInputs(c) ==
    /\ Step(c, "digest", "receipt")
    /\ hand' = [hand EXCEPT ![c].key = source, ![c].keyed = edits]
    /\ UNCHANGED <<placement, source, edits, cache, session, holder, got, raced, deaths>>

\* _read_cached_artifact: the receipt, then the artifact it must name.
ReadReceipt(c) ==
    /\ Step(c, "receipt", IF cache[hand[c].key].receipt = NoArtifact THEN "compile" ELSE "artifact")
    /\ Take(c, "artifact", cache[hand[c].key].receipt)
    /\ UNCHANGED <<placement, source, edits, cache, session, holder, got, raced, deaths>>

ReadArtifact(c) ==
    /\ Step(c, "artifact", IF cache[hand[c].key].artifact = hand[c].artifact THEN "open" ELSE "compile")
    /\ UNCHANGED <<placement, source, edits, cache, session, holder, hand, got, raced, deaths>>

\* The compiler reads the inputs as they are now.
Compile(c) ==
    /\ Step(c, "compile", "write_artifact")
    /\ Take(c, "artifact", source)
    /\ raced' = IF hand[c].keyed = edits THEN raced ELSE raced \cup {hand[c].key}
    /\ UNCHANGED <<placement, source, edits, cache, session, holder, got, deaths>>

\* PressureKernelError, of the compiler or of the session: the lock is released
\* and the session stays as it was.
BuildFails(c) ==
    /\ Step(c, "compile", "idle") \/ Step(c, "open", "idle")
    /\ holder' = [holder EXCEPT ![placement[c]] = NoArtifact]
    /\ Drop(c)
    /\ UNCHANGED <<placement, source, edits, cache, session, got, raced, deaths>>

\* Two atomic writes, the receipt last.
WriteArtifact(c) ==
    /\ Step(c, "write_artifact", "write_receipt")
    /\ cache' = [cache EXCEPT ![hand[c].key].artifact = hand[c].artifact]
    /\ UNCHANGED <<placement, source, edits, session, holder, hand, got, raced, deaths>>

WriteReceipt(c) ==
    /\ Step(c, "write_receipt", "open")
    /\ cache' = [cache EXCEPT ![hand[c].key].receipt = hand[c].artifact]
    /\ UNCHANGED <<placement, source, edits, session, holder, hand, got, raced, deaths>>

\* The session is kept with the stamp that its caller read at first.
Open(c) ==
    LET p == placement[c]
    IN  /\ Step(c, "open", "idle")
        /\ session' = [session EXCEPT ![p] = [artifact |-> hand[c].artifact,
                                              stamp |-> hand[c].stamp]]
        /\ holder' = [holder EXCEPT ![p] = NoArtifact]
        /\ Answer(c, hand[c].artifact)
        /\ UNCHANGED <<placement, source, edits, cache, raced, deaths>>

-----------------------------------------------------------------------------
\* A checkout of the sources is edited or switched while processes run.
Edit ==
    /\ edits < MaxEdits
    /\ edits' = edits + 1
    /\ source' \in Sources \ {source}
    /\ UNCHANGED <<placement, cache, session, holder, at, hand, got, raced, deaths>>

\* A process dies; the cache keeps what it has written.
Die(p) ==
    /\ deaths < MaxDeaths
    /\ deaths' = deaths + 1
    /\ session' = [session EXCEPT ![p] = NoSession]
    /\ holder' = [holder EXCEPT ![p] = NoArtifact]
    /\ at' = [c \in Callers |-> IF placement[c] = p THEN "idle" ELSE at[c]]
    /\ hand' = [c \in Callers |-> IF placement[c] = p THEN NothingInHand ELSE hand[c]]
    /\ UNCHANGED <<placement, source, edits, cache, got, raced>>

KernelNext ==
    \/ \E c \in Callers :
          \/ ReadDigest(c) \/ ReadStamp(c) \/ EnterReuse(c) \/ EnterBuild(c)
          \/ DigestInputs(c) \/ ReadReceipt(c) \/ ReadArtifact(c)
          \/ Compile(c) \/ BuildFails(c) \/ WriteArtifact(c) \/ WriteReceipt(c) \/ Open(c)
    \/ Edit
    \/ \E p \in Processes : Die(p)

KernelInit ==
    /\ placement \in Placements
    /\ source = CHOOSE s \in Sources : TRUE
    /\ edits = 0
    /\ cache = [s \in Sources |-> [artifact |-> NoArtifact, receipt |-> NoArtifact]]
    /\ session = [p \in Processes |-> NoSession]
    /\ holder = [p \in Processes |-> NoArtifact]
    /\ at = [c \in Callers |-> "idle"]
    /\ hand = [c \in Callers |-> NothingInHand]
    /\ got = [artifact |-> NoArtifact, of |-> NoArtifact]
    /\ raced = {}
    /\ deaths = 0

KernelSpec == KernelInit /\ [][KernelNext]_kernelVars

-----------------------------------------------------------------------------
\* Properties.

\* An artifact that the cache vouches for was compiled from the inputs that its
\* directory is named after, whoever wrote the two files and died between them;
\* only an edit between the digest and the compile of one call can put another
\* artifact there.
CacheSound ==
    \A s \in Sources :
        cache[s].receipt # NoArtifact /\ cache[s].receipt = cache[s].artifact =>
            cache[s].artifact = s \/ s \in raced

\* "Return the cached kernel session for the current source artifact"
\* (pressure_kernel): a call during which nothing was edited answers with a
\* session of the inputs as they are, although the stamp of the kept session was
\* read before it was built, outside the lock, and by any thread.
KernelCurrent == got.of # NoArtifact => got.artifact = got.of \/ got.of \in raced

\* No caller is answered by the policy of inputs that are gone, neither from its
\* process's session nor from the shared cache.
KernelSound == CacheSound /\ KernelCurrent
=============================================================================
