---------------------------- MODULE FamilyGraph ----------------------------
(***************************************************************************)
(* The family's semantic graph: scripts/reconcile_semantic_edges.py over   *)
(* family_graph.py.                                                        *)
(*                                                                         *)
(* Each repository keeps a declaration of the contracts it provides and    *)
(* consumes, the evidence it names, a manifest of verification checks and, *)
(* if it likes, generated provider metadata.  A reconciliation reads these *)
(* files one after the other while their owners edit them, joins them, and *)
(* writes the graph or compares it with the one that is checked in.  The   *)
(* digest of a file is its content; evidence is a file of two contents, or *)
(* missing.                                                                *)
(***************************************************************************)
EXTENDS Naturals, Sequences, FiniteSets

CONSTANTS
    Projects,         \* the registry
    Order,            \* the projects in the order they are read
    Declarations,     \* project -> the declarations its owner may check in
    Manifests,        \* project -> the manifests, sets of <<check, contract>>
    Classes,          \* the participation files: project -> state, or None for no file
    None,
    MaxEdits          \* bound on edits

ASSUME GraphAssumption ==
    /\ Order \in Seq(Projects) /\ Order # <<>>
    /\ Projects = {Order[i] : i \in 1..Len(Order)}
    /\ MaxEdits \in Nat

VARIABLES
    decl,           \* project -> its declaration, or None
    evidence,       \* project -> the evidence its declaration names, or None
    manifest,       \* project -> its verification manifest
    metadata,       \* project -> its generated provider metadata, or None
    participation,  \* the participation file
    graph,          \* the checked-in graph, or None
    run,            \* the reconciliation under way
    verdict,        \* how the last one ended, if nothing was edited since it began
    edits

files == <<decl, evidence, manifest, metadata, participation>>
vars == <<files, graph, run, verdict, edits>>

NoRun == [pc |-> "idle"]

-----------------------------------------------------------------------------
\* The documents.

Unique(entries) == \A a, b \in entries : a.contract = b.contract => a = b

\* validate_declaration.
ValidDeclaration(d) == Unique(d.provides) /\ Unique(d.consumes)

\* validate_generated_provider_metadata; evidence digests are optional.
MetadataFresh(d, m, content) ==
    /\ m.providers = d.provides
    /\ m.digest # None => m.digest = content

\* load_participation.
With(p, states) == IF p = None THEN {} ELSE {r \in Projects : p[r] \in states}

\* Without a participation file the projects found are taken for the participants,
\* and coverage is not claimed.
Coverage(p, found) ==
    [participants |-> IF p = None THEN found ELSE With(p, {"participant"}),
     nonparticipants |-> With(p, {"explicit_nonparticipant"}),
     unclassified |-> With(p, {"pending", "unknown"}),
     status |-> IF p # None /\ With(p, {"pending", "unknown"}) = {} THEN "complete" ELSE "incomplete"]

\* bind_declaration_evidence: every verification that is named is a check of the
\* manifest for that contract.
Verified(d) == \E e \in d.consumes : e.check # None

ChecksDeclared(d, m) ==
    \A e \in d.consumes : e.check # None => <<e.check, e.contract>> \in m

-----------------------------------------------------------------------------
\* generate_graph, from the declarations found and what was bound to them.

Provisions(found) ==
    UNION {{[project |-> r, entry |-> e] : e \in found[r].provides} : r \in DOMAIN found}

OneProducer(found) ==
    \A a, b \in Provisions(found) : a.entry.contract = b.entry.contract => a = b

\* Mutant of Joinable: a producer of another revision will do.
JoinableAnyRevision(found) ==
    \A r \in DOMAIN found : \A c \in found[r].consumes :
        \E p \in Provisions(found) : p.entry.contract = c.contract

\* Every consumed contract has a producer, of the revision asked for.
Joinable(found) ==
    \A r \in DOMAIN found : \A c \in found[r].consumes :
        \E p \in Provisions(found) : p.entry.contract = c.contract /\ p.entry.rev = c.rev

\* Mutant of Edge: the digest of the producer's evidence is left out.
EdgeUnbound(found, bound, r, c) ==
    LET p == CHOOSE q \in Provisions(found) : q.entry.contract = c.contract
    IN  [producer |-> p.project, consumer |-> r, contract |-> c.contract, rev |-> p.entry.rev,
         check |-> c.check, manifest |-> bound[r].manifest, verification |-> bound[r].digest,
         provided |-> None, consumed |-> bound[r].evidence]

Edge(found, bound, r, c) ==
    LET p == CHOOSE q \in Provisions(found) : q.entry.contract = c.contract
    IN  [producer |-> p.project, consumer |-> r, contract |-> c.contract, rev |-> p.entry.rev,
         check |-> c.check, manifest |-> bound[r].manifest, verification |-> bound[r].digest,
         provided |-> bound[p.project].evidence, consumed |-> bound[r].evidence]

Generated(found, bound, coverage) ==
    [repositories |-> DOMAIN found,
     sources |-> [r \in DOMAIN found |-> <<found[r], bound[r]>>],
     edges |-> UNION {{Edge(found, bound, r, c) : c \in found[r].consumes} : r \in DOMAIN found},
     coverage |-> coverage]

\* validate_graph: an edge without a verification is refused, and so is coverage of
\* other repositories.
ValidGraph(g) ==
    /\ g.repositories # {}
    /\ \A e \in g.edges : e.check # None
    /\ g.coverage.participants = g.repositories

\* consumers_for.
ConsumersFor(g, r) == {<<e.consumer, e.contract>> : e \in {f \in g.edges : f.producer = r}}

-----------------------------------------------------------------------------
\* One reconciliation.

Ended(result) ==
    /\ run' = NoRun
    /\ verdict' = IF run.quiet THEN result ELSE "none"

\* A FamilyGraphError ends the run and leaves the graph as it is.
Fails == Ended("raised") /\ UNCHANGED graph

Start(check) ==
    /\ run = NoRun
    /\ run' = [pc |-> "declaration", check |-> check, class |-> participation, at |-> 1,
               found |-> <<>>, bound |-> <<>>, quiet |-> TRUE]
    /\ verdict' = "none"
    /\ UNCHANGED <<files, graph, edits>>

Reading == Order[run.at]

\* The next project, or the next phase.
Advanced(s, phase, next) ==
    IF s.at = Len(Order) THEN [s EXCEPT !.pc = next, !.at = 1]
    ELSE [s EXCEPT !.pc = phase, !.at = @ + 1]

Extended(f, r, v) == [s \in DOMAIN f \cup {r} |-> IF s = r THEN v ELSE f[s]]

\* load_declarations, the declaration of one checkout.
ReadDeclaration ==
    LET r == Reading
        participants == With(run.class, {"participant"})
    IN  /\ run.pc = "declaration"
        /\ IF decl[r] = None
           THEN /\ run' = Advanced(run, "declaration", "missing")
                /\ UNCHANGED <<graph, verdict>>
           ELSE IF ValidDeclaration(decl[r]) /\ (participants = {} \/ r \in participants)
           THEN /\ run' = [run EXCEPT !.pc = "metadata", !.found = Extended(@, r, decl[r])]
                /\ UNCHANGED <<graph, verdict>>
           ELSE Fails
        /\ UNCHANGED <<files, edits>>

ReadMetadata ==
    LET r == Reading
    IN  /\ run.pc = "metadata"
        /\ IF metadata[r] = None \/ MetadataFresh(run.found[r], metadata[r], evidence[r])
           THEN /\ run' = Advanced(run, "declaration", "missing")
                /\ UNCHANGED <<graph, verdict>>
           ELSE Fails
        /\ UNCHANGED <<files, edits>>

NoneMissing ==
    /\ run.pc = "missing"
    /\ IF With(run.class, {"participant"}) \subseteq DOMAIN run.found
       THEN run' = [run EXCEPT !.pc = "evidence"] /\ UNCHANGED <<graph, verdict>>
       ELSE Fails
    /\ UNCHANGED <<files, edits>>

Unverified(content) == [evidence |-> content, manifest |-> {}, digest |-> None]

\* An entry names evidence that does not exist.
EvidenceMissing(d, content) == content = None /\ d.provides \cup d.consumes # {}

\* bind_declaration_evidence: the evidence is hashed, the manifest is parsed, and
\* then read again to be hashed.
BindEvidence ==
    LET r == Reading
    IN  /\ run.pc = "evidence"
        /\ IF r \in DOMAIN run.found /\ EvidenceMissing(run.found[r], evidence[r]) THEN Fails
           ELSE /\ run' = IF r \notin DOMAIN run.found THEN Advanced(run, "evidence", "generate")
                          ELSE LET next == [run EXCEPT !.bound = Extended(@, r, Unverified(evidence[r]))]
                               IN  IF Verified(run.found[r]) THEN [next EXCEPT !.pc = "parse"]
                                   ELSE Advanced(next, "evidence", "generate")
                /\ UNCHANGED <<graph, verdict>>
        /\ UNCHANGED <<files, edits>>

BindManifest ==
    LET r == Reading
    IN  /\ run.pc = "parse"
        /\ IF ChecksDeclared(run.found[r], manifest[r])
           THEN /\ run' = [run EXCEPT !.pc = "hash", !.bound[r].manifest = manifest[r]]
                /\ UNCHANGED <<graph, verdict>>
           ELSE Fails
        /\ UNCHANGED <<files, edits>>

BindDigest ==
    /\ run.pc = "hash"
    /\ run' = Advanced([run EXCEPT !.bound[Reading].digest = manifest[Reading]],
                       "evidence", "generate")
    /\ UNCHANGED <<files, graph, verdict, edits>>

\* The graph is generated and written, or compared with what is checked in.
Finish ==
    LET g == Generated(run.found, run.bound, Coverage(run.class, DOMAIN run.found))
    IN  /\ run.pc = "generate"
        /\ IF ~(OneProducer(run.found) /\ Joinable(run.found))
           THEN Fails
           ELSE IF ~ValidGraph(g)
           THEN Fails
           ELSE IF run.check
           THEN Ended(IF graph = g THEN "passed" ELSE "stale") /\ UNCHANGED graph
           ELSE Ended("written") /\ graph' = g
        /\ UNCHANGED <<files, edits>>

-----------------------------------------------------------------------------
\* The owners of the repositories.

Edited ==
    /\ edits < MaxEdits /\ edits' = edits + 1
    /\ verdict' = "none"
    /\ run' = IF run = NoRun THEN run ELSE [run EXCEPT !.quiet = FALSE]
    /\ UNCHANGED graph

EditDeclaration(r, d) ==
    /\ decl[r] # d /\ decl' = [decl EXCEPT ![r] = d]
    /\ Edited /\ UNCHANGED <<evidence, manifest, metadata, participation>>

EditEvidence(r, content) ==
    /\ evidence[r] # content /\ evidence' = [evidence EXCEPT ![r] = content]
    /\ Edited /\ UNCHANGED <<decl, manifest, metadata, participation>>

EditManifest(r, m) ==
    /\ manifest[r] # m /\ manifest' = [manifest EXCEPT ![r] = m]
    /\ Edited /\ UNCHANGED <<decl, evidence, metadata, participation>>

\* generate_provider_facts.py names no digests; other generators may.
GenerateFacts(r, digest) ==
    /\ decl[r] # None
    /\ metadata' = [metadata EXCEPT ![r] = [providers |-> decl[r].provides,
                                            digest |-> IF digest THEN evidence[r] ELSE None]]
    /\ Edited /\ UNCHANGED <<decl, evidence, manifest, participation>>

EditParticipation(p) ==
    /\ participation # p /\ participation' = p
    /\ Edited /\ UNCHANGED <<decl, evidence, manifest, metadata>>

Init ==
    /\ decl \in [Projects -> UNION {Declarations[r] : r \in Projects}]
    /\ \A r \in Projects : decl[r] \in Declarations[r]
    /\ evidence = [r \in Projects |-> 0]
    /\ manifest \in [Projects -> UNION {Manifests[r] : r \in Projects}]
    /\ \A r \in Projects : manifest[r] \in Manifests[r]
    /\ metadata = [r \in Projects |-> None]
    /\ participation \in Classes
    /\ graph = None /\ run = NoRun /\ verdict = "none" /\ edits = 0

Reconcile ==
    \/ \E check \in BOOLEAN : Start(check)
    \/ ReadDeclaration \/ ReadMetadata \/ NoneMissing
    \/ BindEvidence \/ BindManifest \/ BindDigest \/ Finish

Next ==
    \/ Reconcile
    \/ \E r \in Projects :
          \/ \E d \in Declarations[r] : EditDeclaration(r, d)
          \/ \E content \in {0, 1, None} : EditEvidence(r, content)
          \/ \E m \in Manifests[r] : EditManifest(r, m)
          \/ \E digest \in BOOLEAN : GenerateFacts(r, digest)
    \/ \E p \in Classes : EditParticipation(p)

Spec == Init /\ [][Next]_vars

-----------------------------------------------------------------------------
\* Properties, against the files as they are.

Declared == {r \in Projects : decl[r] # None}

\* The edges that the repositories declare.
DeclaredEdge(p, r, c) ==
    [producer |-> p, consumer |-> r, contract |-> c.contract, rev |-> c.rev, check |-> c.check,
     manifest |-> manifest[r], verification |-> manifest[r],
     provided |-> evidence[p], consumed |-> evidence[r]]

DeclaredEdges ==
    {DeclaredEdge(p, r, c) :
        p \in Declared, r \in Declared, c \in UNION {decl[s].consumes : s \in Declared}}

EdgeDeclared(e) ==
    /\ \E c \in decl[e.consumer].consumes :
          c.contract = e.contract /\ c.rev = e.rev /\ c.check = e.check
    /\ \E q \in decl[e.producer].provides : q.contract = e.contract

\* The type of a run and of the graph that is checked in.
TypeOK ==
    /\ run.pc \in {"idle", "declaration", "metadata", "missing", "evidence", "parse", "hash",
                   "generate"}
    /\ run # NoRun =>
          /\ run.at \in DOMAIN Order
          /\ DOMAIN run.bound \subseteq DOMAIN run.found /\ DOMAIN run.found \subseteq Projects
          /\ run.pc = "generate" => DOMAIN run.bound = DOMAIN run.found
    /\ graph # None => DOMAIN graph.sources = graph.repositories
    /\ verdict \in {"none", "passed", "stale", "raised", "written"}

\* The graph g has an edge for each declared consumer, bound to the files
\* as they are, and no other.
EdgesCurrent(g) ==
    /\ g.edges = {e \in DeclaredEdges : EdgeDeclared(e)}
    /\ g.repositories = Declared
    /\ \A r \in Declared : g.sources[r][1] = decl[r]

\* Provider metadata states what its repository declares, and names no evidence
\* that has changed.
MetadataCurrent ==
    \A r \in Declared : metadata[r] # None =>
        /\ metadata[r].providers = decl[r].provides
        /\ metadata[r].digest \in {None, evidence[r]}

\* A planner that asks the graph for the consumers of a producer misses none of
\* them; a registry that is called covered has no project left to classify.
PlannerMissesNone(g) ==
    /\ \A p \in Declared : ConsumersFor(g, p) =
          {x \in Declared \X {c.contract : c \in UNION {decl[s].consumes : s \in Declared}} :
              /\ \E c \in decl[x[1]].consumes : c.contract = x[2]
              /\ \E q \in decl[p].provides : q.contract = x[2]}
    /\ g.coverage.status = "complete" => With(participation, {"pending", "unknown"}) = {}

\* A reconciliation that wrote the graph, or checked it and passed, while nothing
\* was edited means that graph, metadata and consumer index agree with the files
\* as they are until the next edit, whatever the run that wrote the graph had read
\* half of.
CheckedIsCurrent ==
    verdict \in {"passed", "written"} =>
        EdgesCurrent(graph) /\ MetadataCurrent /\ PlannerMissesNone(graph)

\* Whatever was edited while it was made, a graph that is checked in joins each
\* consumer to the one producer of the contract among its own sources, at the same
\* revision, and covers exactly the participants.
GraphJoins ==
    graph # None =>
        /\ graph.coverage.participants = graph.repositories
        /\ \A e \in graph.edges :
              {p \in graph.repositories : \E q \in graph.sources[p][1].provides :
                                             q.contract = e.contract} = {e.producer}
        /\ \A r \in graph.repositories : \A c \in graph.sources[r][1].consumes :
              \E e \in graph.edges : e.consumer = r /\ e.contract = c.contract /\ e.rev = c.rev
=============================================================================
