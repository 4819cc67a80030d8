------------------------- MODULE FamilyGraphProofs -------------------------
(***************************************************************************)
(* Proofs about the reconciliation of the family graph, for any registry   *)
(* of projects, any declarations, manifests and participation files, and   *)
(* any number of edits at any time.                                        *)
(*                                                                         *)
(* That a checked-in graph joins is a fact about generate_graph alone.     *)
(* That a check means something needs what a run has read so far: as long  *)
(* as nothing was edited, it agrees with the files as they are.            *)
(***************************************************************************)
EXTENDS FamilyGraph, TLAPS

\* The projects that a run has looked at when it is at place n + 1.
ReadTo(n) == {Order[i] : i \in 1..n}

FoundTo(f, n) ==
    /\ DOMAIN f = {r \in ReadTo(n) : decl[r] # None}
    /\ \A r \in DOMAIN f : f[r] = decl[r]

FreshTo(n) ==
    \A r \in ReadTo(n) : decl[r] # None /\ metadata[r] # None =>
        MetadataFresh(decl[r], metadata[r], evidence[r])

\* What bind_declaration_evidence makes of the files of one repository.
Binding(r) ==
    IF Verified(decl[r])
    THEN [evidence |-> evidence[r], manifest |-> manifest[r], digest |-> manifest[r]]
    ELSE Unverified(evidence[r])

BoundTo(b, n) ==
    /\ DOMAIN b = {r \in ReadTo(n) : decl[r] # None}
    /\ \A r \in DOMAIN b : b[r] = Binding(r)

\* The binding of the project that is read is on its way.
BindingAt(s, value) ==
    LET r == Order[s.at]
    IN  /\ decl[r] # None /\ Verified(decl[r])
        /\ DOMAIN s.bound = {x \in ReadTo(s.at) : decl[x] # None}
        /\ \A x \in DOMAIN s.bound \ {r} : s.bound[x] = Binding(x)
        /\ s.bound[r] = value

\* A run during which nothing was edited agrees with the files.
Faithful(s) ==
    /\ s.class = participation
    /\ s.pc = "declaration" =>
          FoundTo(s.found, s.at - 1) /\ FreshTo(s.at - 1) /\ DOMAIN s.bound = {}
    /\ s.pc = "metadata" =>
          /\ FoundTo(s.found, s.at) /\ FreshTo(s.at - 1) /\ DOMAIN s.bound = {}
          /\ decl[Order[s.at]] # None
    /\ s.pc \in {"missing", "evidence", "parse", "hash", "generate"} =>
          FoundTo(s.found, Len(Order)) /\ FreshTo(Len(Order))
    /\ s.pc = "missing" => DOMAIN s.bound = {} /\ s.at = 1
    /\ s.pc = "evidence" => BoundTo(s.bound, s.at - 1)
    /\ s.pc = "parse" => BindingAt(s, Unverified(evidence[Order[s.at]]))
    /\ s.pc = "hash" =>
          BindingAt(s, [evidence |-> evidence[Order[s.at]], manifest |-> manifest[Order[s.at]],
                        digest |-> None])
    /\ s.pc = "generate" => BoundTo(s.bound, Len(Order))

Fields == {"pc", "check", "class", "at", "found", "bound", "quiet"}
Phases == {"declaration", "metadata", "missing", "evidence", "parse", "hash", "generate"}

RunOK(s) ==
    /\ DOMAIN s = Fields /\ s.pc \in Phases /\ s.at \in 1..Len(Order)
    /\ s.quiet \in BOOLEAN
    /\ s.quiet => Faithful(s)

\* The inductive invariant of the reconciliation.
GraphInv ==
    /\ run = NoRun \/ RunOK(run)
    /\ run # NoRun => verdict = "none"
    /\ CheckedIsCurrent
    /\ GraphJoins

-----------------------------------------------------------------------------
\* generate_graph.

\* p is the one producer of the contract that r consumes by c, and the edge says so.
EdgeFrom(found, bound, r, c, p) ==
    /\ \E e \in found[p].provides : e.contract = c.contract
    /\ \A q \in DOMAIN found : \A e \in found[q].provides : e.contract = c.contract => q = p
    /\ Edge(found, bound, r, c) =
          [producer |-> p, consumer |-> r, contract |-> c.contract, rev |-> c.rev,
           check |-> c.check, manifest |-> bound[r].manifest, verification |-> bound[r].digest,
           provided |-> bound[p].evidence, consumed |-> bound[r].evidence]

\* When generate_graph does not raise, every consumed contract has one producer,
\* and the edge names it at the revision that is asked for.
LEMMA ProducerOf ==
    ASSUME NEW found, NEW bound, OneProducer(found), Joinable(found),
           NEW r \in DOMAIN found, NEW c \in found[r].consumes
    PROVE  \E p \in DOMAIN found : EdgeFrom(found, bound, r, c, p)
<1> DEFINE P == Provisions(found)
           x == CHOOSE q \in P : q.entry.contract = c.contract
<1>1. PICK y \in P : y.entry.contract = c.contract /\ y.entry.rev = c.rev
  BY DEF Joinable
<1>2. x \in P /\ x.entry.contract = c.contract
  BY <1>1
<1>3. x = y
  BY <1>1, <1>2 DEF OneProducer
<1>4. PICK p \in DOMAIN found : \E e \in found[p].provides : x = [project |-> p, entry |-> e]
  BY <1>2 DEF Provisions
<1>5. PICK e \in found[p].provides : x = [project |-> p, entry |-> e]
  BY <1>4
<1>6. Edge(found, bound, r, c) =
        [producer |-> x.project, consumer |-> r, contract |-> c.contract, rev |-> x.entry.rev,
         check |-> c.check, manifest |-> bound[r].manifest, verification |-> bound[r].digest,
         provided |-> bound[x.project].evidence, consumed |-> bound[r].evidence]
  BY DEF Edge
<1> HIDE DEF x
<1>7. x.project = p /\ x.entry = e /\ x.entry.rev = c.rev
  BY <1>1, <1>3, <1>5
<1>8. ASSUME NEW q \in DOMAIN found, NEW f \in found[q].provides, f.contract = c.contract PROVE q = p
  <2> DEFINE z == [project |-> q, entry |-> f]
  <2>1. z \in P
    BY DEF Provisions
  <2>2. z.entry.contract = c.contract /\ z.project = q
    BY <1>8
  <2> HIDE DEF z
  <2>3. z = x
    BY <1>2, <2>1, <2>2 DEF OneProducer
  <2> QED
    BY <1>7, <2>2, <2>3
<1> QED
  BY <1>2, <1>5, <1>6, <1>7, <1>8 DEF EdgeFrom

\* The fields of what is generated.
LEMMA GeneratedIs ==
    ASSUME NEW found, NEW bound, NEW coverage, NEW g, g = Generated(found, bound, coverage)
    PROVE  /\ g.repositories = DOMAIN found /\ g.coverage = coverage
           /\ \A r \in DOMAIN found : g.sources[r][1] = found[r]
           /\ \A e : e \in g.edges <=>
                 \E r \in DOMAIN found : \E c \in found[r].consumes : e = Edge(found, bound, r, c)
BY DEF Generated

\* A graph that is generated and valid joins its own sources.
LEMMA GeneratedJoins ==
    ASSUME NEW found, NEW bound, NEW coverage, OneProducer(found), Joinable(found),
           NEW g, g = Generated(found, bound, coverage), ValidGraph(g)
    PROVE  /\ g.coverage.participants = g.repositories
           /\ \A e \in g.edges :
                 {p \in g.repositories : \E q \in g.sources[p][1].provides :
                                            q.contract = e.contract} = {e.producer}
           /\ \A r \in g.repositories : \A c \in g.sources[r][1].consumes :
                 \E e \in g.edges : e.consumer = r /\ e.contract = c.contract /\ e.rev = c.rev
<1>0. /\ g.repositories = DOMAIN found
      /\ \A r \in DOMAIN found : g.sources[r][1] = found[r]
      /\ \A e : e \in g.edges <=>
            \E r \in DOMAIN found : \E c \in found[r].consumes : e = Edge(found, bound, r, c)
  BY GeneratedIs
<1>1. g.coverage.participants = g.repositories
  BY DEF ValidGraph
<1>2. ASSUME NEW e \in g.edges
      PROVE  {p \in g.repositories : \E q \in g.sources[p][1].provides :
                                        q.contract = e.contract} = {e.producer}
  <2>0. PICK r \in DOMAIN found : \E c \in found[r].consumes : e = Edge(found, bound, r, c)
    BY <1>0
  <2>1. PICK c \in found[r].consumes : e = Edge(found, bound, r, c)
    BY <2>0
  <2>2. PICK p \in DOMAIN found : EdgeFrom(found, bound, r, c, p)
    BY ProducerOf
  <2>3. e.producer = p /\ e.contract = c.contract
    BY <2>1, <2>2 DEF EdgeFrom
  <2> QED
    BY <1>0, <2>2, <2>3 DEF EdgeFrom
<1>3. ASSUME NEW r \in g.repositories, NEW c \in g.sources[r][1].consumes
      PROVE  \E e \in g.edges : e.consumer = r /\ e.contract = c.contract /\ e.rev = c.rev
  <2>1. r \in DOMAIN found /\ c \in found[r].consumes
    BY <1>0, <1>3
  <2>2. PICK e : e = Edge(found, bound, r, c)
    OBVIOUS
  <2>3. e \in g.edges
    BY <1>0, <2>1, <2>2
  <2>4. e.consumer = r /\ e.contract = c.contract /\ e.rev = c.rev
    <3>1. PICK p \in DOMAIN found : EdgeFrom(found, bound, r, c, p)
      BY <2>1, ProducerOf
    <3> QED
      BY <2>2, <3>1 DEF EdgeFrom
  <2> QED
    BY <2>3, <2>4
<1> QED
  BY <1>1, <1>2, <1>3

-----------------------------------------------------------------------------
\* What a run that nobody disturbed generates.

\* All projects are read in the end.
LEMMA AllRead == ReadTo(Len(Order)) = Projects
BY GraphAssumption DEF ReadTo

\* An edge with a verification is bound to the manifest and the evidence as they are.
LEMMA EdgeValue ==
    ASSUME NEW found, NEW bound, FoundTo(found, Len(Order)), BoundTo(bound, Len(Order)),
           NEW r \in DOMAIN found, NEW c \in found[r].consumes, c.check # None,
           NEW p \in DOMAIN found, EdgeFrom(found, bound, r, c, p)
    PROVE  Edge(found, bound, r, c) = DeclaredEdge(p, r, c)
<1>1. /\ DOMAIN bound = DOMAIN found /\ found[r] = decl[r]
      /\ bound[r] = Binding(r) /\ bound[p] = Binding(p)
  BY DEF FoundTo, BoundTo
<1>2. Verified(decl[r])
  BY <1>1 DEF Verified
<1>3. bound[r].manifest = manifest[r] /\ bound[r].digest = manifest[r] /\ bound[r].evidence = evidence[r]
  BY <1>1, <1>2 DEF Binding
<1>4. bound[p].evidence = evidence[p]
  BY <1>1 DEF Binding, Unverified
<1> QED
  BY <1>3, <1>4 DEF EdgeFrom, DeclaredEdge

\* Every consumed contract names its verification, or validate_graph refuses.
LEMMA EdgesVerified ==
    ASSUME NEW found, NEW bound, NEW coverage, OneProducer(found), Joinable(found),
           NEW g, g = Generated(found, bound, coverage), ValidGraph(g),
           NEW r \in DOMAIN found, NEW c \in found[r].consumes
    PROVE  c.check # None /\ Edge(found, bound, r, c) \in g.edges
<1>1. PICK e : e = Edge(found, bound, r, c)
  OBVIOUS
<1>2. e \in g.edges
  BY <1>1, GeneratedIs
<1>3. PICK p \in DOMAIN found : EdgeFrom(found, bound, r, c, p)
  BY ProducerOf
<1>4. e.check = c.check
  BY <1>1, <1>3 DEF EdgeFrom
<1> QED
  BY <1>1, <1>2, <1>4 DEF ValidGraph

\* The graph that is generated has the declared edges and no others.
LEMMA GeneratedCurrent ==
    ASSUME NEW found, NEW bound, NEW coverage, OneProducer(found), Joinable(found),
           FoundTo(found, Len(Order)), BoundTo(bound, Len(Order)),
           NEW g, g = Generated(found, bound, coverage), ValidGraph(g)
    PROVE  EdgesCurrent(g)
<1>0. DOMAIN found = Declared /\ \A r \in Declared : found[r] = decl[r]
  BY AllRead DEF FoundTo, Declared
<1>1. /\ g.repositories = DOMAIN found
      /\ \A r \in DOMAIN found : g.sources[r][1] = found[r]
      /\ \A e : e \in g.edges <=>
            \E r \in DOMAIN found : \E c \in found[r].consumes : e = Edge(found, bound, r, c)
  BY GeneratedIs
<1>2. ASSUME NEW e \in g.edges PROVE e \in DeclaredEdges /\ EdgeDeclared(e)
  <2>1. PICK r \in DOMAIN found : \E c \in found[r].consumes : e = Edge(found, bound, r, c)
    BY <1>1
  <2>2. PICK c \in found[r].consumes : e = Edge(found, bound, r, c)
    BY <2>1
  <2>3. PICK p \in DOMAIN found : EdgeFrom(found, bound, r, c, p)
    BY ProducerOf
  <2>4. c.check # None
    BY EdgesVerified
  <2>5. e = DeclaredEdge(p, r, c)
    BY <2>2, <2>3, <2>4, EdgeValue
  <2>6. e \in DeclaredEdges
    BY <1>0, <2>5 DEF DeclaredEdges
  <2>7. /\ e.consumer = r /\ e.producer = p /\ e.contract = c.contract
        /\ e.rev = c.rev /\ e.check = c.check
    BY <2>5 DEF DeclaredEdge
  <2>8. \E q \in decl[p].provides : q.contract = c.contract
    BY <1>0, <2>3 DEF EdgeFrom
  <2> QED
    BY <1>0, <2>2, <2>6, <2>7, <2>8 DEF EdgeDeclared
<1>3. ASSUME NEW e \in DeclaredEdges, EdgeDeclared(e) PROVE e \in g.edges
  <2>1. PICK p \in Declared, r \in Declared, c0 \in UNION {decl[s].consumes : s \in Declared} :
           e = DeclaredEdge(p, r, c0)
    BY <1>3 DEF DeclaredEdges
  <2>2. /\ e.consumer = r /\ e.producer = p /\ e.contract = c0.contract
        /\ e.rev = c0.rev /\ e.check = c0.check
    BY <2>1 DEF DeclaredEdge
  <2>3. PICK c \in decl[r].consumes : c.contract = c0.contract /\ c.rev = c0.rev /\ c.check = c0.check
    BY <1>3, <2>2 DEF EdgeDeclared
  <2>4. \E q \in decl[p].provides : q.contract = c.contract
    BY <1>3, <2>2, <2>3 DEF EdgeDeclared
  <2>5. r \in DOMAIN found /\ p \in DOMAIN found /\ c \in found[r].consumes
    BY <1>0
  <2>6. PICK p2 \in DOMAIN found : EdgeFrom(found, bound, r, c, p2)
    BY <2>5, ProducerOf
  <2>7. p2 = p
    BY <1>0, <2>4, <2>5, <2>6 DEF EdgeFrom
  <2>8. c.check # None /\ Edge(found, bound, r, c) \in g.edges
    BY <2>5, EdgesVerified
  <2>9. Edge(found, bound, r, c) = DeclaredEdge(p, r, c)
    BY <2>5, <2>6, <2>7, <2>8, EdgeValue
  <2>10. DeclaredEdge(p, r, c) = e
    BY <2>1, <2>3 DEF DeclaredEdge
  <2> QED
    BY <2>8, <2>9, <2>10
<1>4. g.edges = {e \in DeclaredEdges : EdgeDeclared(e)}
  <2>1. g.edges \subseteq {e \in DeclaredEdges : EdgeDeclared(e)}
    BY <1>2
  <2>2. {e \in DeclaredEdges : EdgeDeclared(e)} \subseteq g.edges
    BY <1>3
  <2> QED
    BY <2>1, <2>2
<1> QED
  BY <1>0, <1>1, <1>4 DEF EdgesCurrent

\* consumers_for finds every consumer that is declared.
LEMMA GeneratedPlans ==
    ASSUME NEW found, NEW bound, OneProducer(found), Joinable(found),
           FoundTo(found, Len(Order)), BoundTo(bound, Len(Order)),
           NEW g, g = Generated(found, bound, Coverage(participation, DOMAIN found)), ValidGraph(g)
    PROVE  PlannerMissesNone(g)
<1>0. DOMAIN found = Declared /\ \A r \in Declared : found[r] = decl[r]
  BY AllRead DEF FoundTo, Declared
<1>1. /\ g.coverage = Coverage(participation, DOMAIN found)
      /\ \A e : e \in g.edges <=>
            \E r \in DOMAIN found : \E c \in found[r].consumes : e = Edge(found, bound, r, c)
  BY GeneratedIs
<1>2. g.coverage.status = "complete" => With(participation, {"pending", "unknown"}) = {}
  BY <1>1 DEF Coverage
<1> DEFINE Wanted(p) ==
      {x \in Declared \X {c.contract : c \in UNION {decl[s].consumes : s \in Declared}} :
          /\ \E c \in decl[x[1]].consumes : c.contract = x[2]
          /\ \E q \in decl[p].provides : q.contract = x[2]}
<1>3. ASSUME NEW p \in Declared, NEW x \in ConsumersFor(g, p) PROVE x \in Wanted(p)
  <2>1. PICK e \in g.edges : e.producer = p /\ x = <<e.consumer, e.contract>>
    BY <1>3 DEF ConsumersFor
  <2>2. PICK r \in DOMAIN found : \E c \in found[r].consumes : e = Edge(found, bound, r, c)
    BY <1>1
  <2>3. PICK c \in found[r].consumes : e = Edge(found, bound, r, c)
    BY <2>2
  <2>4. PICK p2 \in DOMAIN found : EdgeFrom(found, bound, r, c, p2)
    BY ProducerOf
  <2>5. e.producer = p2 /\ e.consumer = r /\ e.contract = c.contract
    BY <2>3, <2>4 DEF EdgeFrom
  <2>6. x = <<r, c.contract>> /\ p2 = p
    BY <2>1, <2>5
  <2>7. \E q \in decl[p].provides : q.contract = c.contract
    BY <1>0, <2>4, <2>6 DEF EdgeFrom
  <2>8. c \in decl[r].consumes /\ r \in Declared
    BY <1>0
  <2>9. c.contract \in {d.contract : d \in UNION {decl[s].consumes : s \in Declared}}
    BY <2>8
  <2>10. x[1] = r /\ x[2] = c.contract
         /\ x \in Declared \X {d.contract : d \in UNION {decl[s].consumes : s \in Declared}}
    BY <2>6, <2>8, <2>9
  <2> QED
    BY <2>7, <2>8, <2>10
<1>4. ASSUME NEW p \in Declared, NEW x \in Wanted(p) PROVE x \in ConsumersFor(g, p)
  <2>1. PICK r, k : x = <<r, k>> /\ r \in Declared
    BY <1>4
  <2>2. x[1] = r /\ x[2] = k
    BY <2>1
  <2>3. PICK c \in decl[r].consumes : c.contract = k
    BY <1>4, <2>2
  <2>4. \E q \in decl[p].provides : q.contract = c.contract
    BY <1>4, <2>2, <2>3
  <2>5. r \in DOMAIN found /\ p \in DOMAIN found /\ c \in found[r].consumes
    BY <1>0, <2>1
  <2>6. PICK p2 \in DOMAIN found : EdgeFrom(found, bound, r, c, p2)
    BY <2>5, ProducerOf
  <2>7. p2 = p
    BY <1>0, <2>4, <2>5, <2>6 DEF EdgeFrom
  <2>8. PICK e \in g.edges : e = Edge(found, bound, r, c)
    BY <2>5, EdgesVerified
  <2>9. e.producer = p /\ e.consumer = r /\ e.contract = k
    BY <2>3, <2>6, <2>7, <2>8 DEF EdgeFrom
  <2> QED
    BY <2>1, <2>8, <2>9 DEF ConsumersFor
<1>5. ASSUME NEW p \in Declared PROVE ConsumersFor(g, p) = Wanted(p)
  <2>1. ConsumersFor(g, p) \subseteq Wanted(p)
    BY <1>3
  <2>2. Wanted(p) \subseteq ConsumersFor(g, p)
    BY <1>4
  <2> QED
    BY <2>1, <2>2
<1> QED
  BY <1>2, <1>5 DEF PlannerMissesNone

\* A run that read every file and found no metadata out of date.
LEMMA MetadataRead ==
    ASSUME FreshTo(Len(Order))
    PROVE  MetadataCurrent
BY AllRead DEF FreshTo, MetadataCurrent, MetadataFresh, Declared

-----------------------------------------------------------------------------
\* The steps of a run.

\* One more project is read.
LEMMA ReadOne ==
    ASSUME NEW n \in 1..Len(Order)
    PROVE  ReadTo(n) = ReadTo(n - 1) \cup {Order[n]} /\ Order[n] \in ReadTo(n)
<1>0. Len(Order) \in Nat
  BY GraphAssumption
<1>1. 1..n = 1..(n - 1) \cup {n}
  BY <1>0
<1> QED
  BY <1>1 DEF ReadTo

LEMMA ReadNone == ReadTo(0) = {}
BY DEF ReadTo

\* The next project, or the next phase.
LEMMA AdvancedIs ==
    ASSUME NEW s, DOMAIN s = Fields, s.at \in 1..Len(Order), NEW phase, NEW next,
           NEW x, x = Advanced(s, phase, next)
    PROVE  /\ DOMAIN x = Fields /\ x.check = s.check /\ x.class = s.class /\ x.found = s.found
           /\ x.bound = s.bound /\ x.quiet = s.quiet /\ x.at \in 1..Len(Order)
           /\ \/ s.at = Len(Order) /\ x.pc = next /\ x.at = 1
              \/ s.at # Len(Order) /\ x.pc = phase /\ x.at = s.at + 1 /\ x.at - 1 = s.at
<1>0. Len(Order) \in Nat /\ Len(Order) > 0
  BY GraphAssumption
<1>1. CASE s.at = Len(Order)
  BY <1>0, <1>1 DEF Advanced, Fields
<1>2. CASE s.at # Len(Order)
  BY <1>0, <1>2 DEF Advanced, Fields
<1> QED
  BY <1>1, <1>2

\* What a run has in hand depends on the run and the files.
LEMMA FilesSame ==
    ASSUME UNCHANGED files, NEW x, run' = x, RunOK(x)
    PROVE  RunOK(run)'
BY DEF files, RunOK, Faithful, FoundTo, FreshTo, BoundTo, BindingAt, Binding, Unverified, MetadataFresh,
       Verified

\* A step that leaves the run going.
LEMMA RunGoes ==
    ASSUME GraphInv, run # NoRun, UNCHANGED <<files, graph, verdict>>, NEW x, run' = x, RunOK(x)
    PROVE  GraphInv'
<1>1. RunOK(run)'
  BY FilesSame
<1>2. verdict' = "none" /\ graph' = graph
  BY DEF GraphInv
<1>3. CheckedIsCurrent' /\ GraphJoins'
  BY <1>2 DEF GraphInv, CheckedIsCurrent, GraphJoins
<1> QED
  BY <1>1, <1>2, <1>3 DEF GraphInv

\* A run that raises leaves the graph as it is, and no verdict that means anything.
LEMMA RunFails ==
    ASSUME GraphInv, Fails
    PROVE  GraphInv'
<1>1. run' = NoRun /\ verdict' \in {"raised", "none"} /\ graph' = graph
  BY DEF Fails, Ended
<1>2. CheckedIsCurrent' /\ GraphJoins'
  BY <1>1 DEF GraphInv, CheckedIsCurrent, GraphJoins
<1> QED
  BY <1>1, <1>2 DEF GraphInv

LEMMA StartKeeps ==
    ASSUME GraphInv, NEW check \in BOOLEAN, Start(check)
    PROVE  GraphInv'
<1>1. PICK x : x = [pc |-> "declaration", check |-> check, class |-> participation, at |-> 1,
                    found |-> <<>>, bound |-> <<>>, quiet |-> TRUE]
  OBVIOUS
<1>2. /\ DOMAIN x = Fields /\ x.pc = "declaration" /\ x.class = participation /\ x.at = 1
      /\ x.found = <<>> /\ x.bound = <<>> /\ x.quiet = TRUE
  BY <1>1 DEF Fields
<1>3. FoundTo(x.found, x.at - 1) /\ FreshTo(x.at - 1)
  BY <1>2, ReadNone DEF FoundTo, FreshTo
<1>4. 1 \in 1..Len(Order)
  BY GraphAssumption
<1>5. RunOK(x)
  <2>1. DOMAIN x.bound = {}
    BY <1>2
  <2>2. Faithful(x)
    BY <1>2, <1>3, <2>1 DEF Faithful
  <2> QED
    BY <1>2, <1>4, <2>2 DEF RunOK, Phases
<1>6. run' = x /\ verdict' = "none" /\ graph' = graph /\ UNCHANGED files
  BY <1>1 DEF Start
<1>7. RunOK(run)'
  BY <1>5, <1>6, FilesSame
<1>8. CheckedIsCurrent' /\ GraphJoins'
  BY <1>6 DEF GraphInv, CheckedIsCurrent, GraphJoins
<1> QED
  BY <1>6, <1>7, <1>8 DEF GraphInv

LEMMA ReadDeclarationKeeps ==
    ASSUME GraphInv, ReadDeclaration
    PROVE  GraphInv'
<1>0. run # NoRun /\ RunOK(run) /\ run.pc = "declaration"
  BY DEF ReadDeclaration, GraphInv, NoRun
<1> DEFINE r == Order[run.at]
<1>1. CASE decl[r] = None
  <2>1. PICK x : x = Advanced(run, "declaration", "missing")
    OBVIOUS
  <2>2. run' = x /\ UNCHANGED <<files, graph, verdict>>
    BY <1>1, <2>1 DEF ReadDeclaration, Reading
  <2>3. /\ DOMAIN x = Fields /\ x.class = run.class /\ x.found = run.found
        /\ x.bound = run.bound /\ x.quiet = run.quiet /\ x.at \in 1..Len(Order)
        /\ \/ run.at = Len(Order) /\ x.pc = "missing" /\ x.at = 1
           \/ run.at # Len(Order) /\ x.pc = "declaration" /\ x.at - 1 = run.at
    BY <1>0, <2>1, AdvancedIs DEF RunOK
  <2>4. ASSUME run.quiet PROVE Faithful(x)
    <3>1. Faithful(run) /\ ReadTo(run.at) = ReadTo(run.at - 1) \cup {r}
      BY <1>0, <2>4, ReadOne DEF RunOK
    <3>2. FoundTo(run.found, run.at) /\ FreshTo(run.at)
      BY <1>0, <1>1, <3>1 DEF Faithful, FoundTo, FreshTo
    <3> QED
      BY <1>0, <2>3, <3>1, <3>2 DEF Faithful
  <2> QED
    BY <1>0, <2>2, <2>3, <2>4, RunGoes DEF RunOK, Phases
<1>2. CASE decl[r] # None /\ ~Fails
  <2>1. PICK x : x = [run EXCEPT !.pc = "metadata", !.found = Extended(run.found, r, decl[r])]
    OBVIOUS
  <2>2. run' = x /\ UNCHANGED <<files, graph, verdict>>
    BY <1>0, <1>2, <2>1 DEF ReadDeclaration, Reading, RunOK, Fields
  <2>3. /\ DOMAIN x = Fields /\ x.pc = "metadata" /\ x.class = run.class
        /\ x.found = Extended(run.found, r, decl[r])
        /\ x.bound = run.bound /\ x.quiet = run.quiet /\ x.at = run.at
    BY <1>0, <2>1 DEF RunOK, Fields
  <2>4. ASSUME run.quiet PROVE Faithful(x)
    <3>1. Faithful(run) /\ ReadTo(run.at) = ReadTo(run.at - 1) \cup {r}
      BY <1>0, <2>4, ReadOne DEF RunOK
    <3>2. FoundTo(run.found, run.at - 1)
      BY <1>0, <3>1 DEF Faithful
    <3>3. FoundTo(x.found, run.at)
      <4>1. /\ DOMAIN x.found = DOMAIN run.found \cup {r} /\ x.found[r] = decl[r]
            /\ \A s \in DOMAIN run.found \ {r} : x.found[s] = run.found[s]
        BY <2>3 DEF Extended
      <4>2. DOMAIN x.found = {s \in ReadTo(run.at) : decl[s] # None}
        BY <1>2, <3>1, <3>2, <4>1 DEF FoundTo
      <4> QED
        BY <3>2, <4>1, <4>2 DEF FoundTo
    <3> QED
      BY <1>0, <1>2, <2>3, <3>1, <3>3 DEF Faithful
  <2> QED
    BY <1>0, <2>2, <2>3, <2>4, RunGoes DEF RunOK, Phases
<1>3. CASE decl[r] # None /\ Fails
  BY <1>3, RunFails
<1> QED
  BY <1>1, <1>2, <1>3

LEMMA ReadMetadataKeeps ==
    ASSUME GraphInv, ReadMetadata
    PROVE  GraphInv'
<1>0. run # NoRun /\ RunOK(run) /\ run.pc = "metadata"
  BY DEF ReadMetadata, GraphInv, NoRun
<1> DEFINE r == Order[run.at]
<1>1. CASE metadata[r] = None \/ MetadataFresh(run.found[r], metadata[r], evidence[r])
  <2>1. PICK x : x = Advanced(run, "declaration", "missing")
    OBVIOUS
  <2>2. run' = x /\ UNCHANGED <<files, graph, verdict>>
    BY <1>1, <2>1 DEF ReadMetadata, Reading
  <2>3. /\ DOMAIN x = Fields /\ x.class = run.class /\ x.found = run.found
        /\ x.bound = run.bound /\ x.quiet = run.quiet /\ x.at \in 1..Len(Order)
        /\ \/ run.at = Len(Order) /\ x.pc = "missing" /\ x.at = 1
           \/ run.at # Len(Order) /\ x.pc = "declaration" /\ x.at - 1 = run.at
    BY <1>0, <2>1, AdvancedIs DEF RunOK
  <2>4. ASSUME run.quiet PROVE Faithful(x)
    <3>1. /\ Faithful(run) /\ ReadTo(run.at) = ReadTo(run.at - 1) \cup {r} /\ r \in ReadTo(run.at)
      BY <1>0, <2>4, ReadOne DEF RunOK
    <3>2. FoundTo(run.found, run.at) /\ FreshTo(run.at - 1) /\ decl[r] # None
      BY <1>0, <3>1 DEF Faithful
    <3>3. run.found[r] = decl[r]
      BY <3>1, <3>2 DEF FoundTo
    <3>4. FreshTo(run.at)
      BY <1>1, <3>1, <3>2, <3>3 DEF FreshTo
    <3> QED
      BY <1>0, <2>3, <3>1, <3>2, <3>4 DEF Faithful
  <2> QED
    BY <1>0, <2>2, <2>3, <2>4, RunGoes DEF RunOK, Phases
<1>2. CASE ~(metadata[r] = None \/ MetadataFresh(run.found[r], metadata[r], evidence[r]))
  BY <1>2, RunFails DEF ReadMetadata, Reading
<1> QED
  BY <1>1, <1>2

LEMMA NoneMissingKeeps ==
    ASSUME GraphInv, NoneMissing
    PROVE  GraphInv'
<1>0. run # NoRun /\ RunOK(run) /\ run.pc = "missing"
  BY DEF NoneMissing, GraphInv, NoRun
<1>1. CASE Fails
  BY <1>1, RunFails
<1>2. CASE ~Fails
  <2>1. PICK x : x = [run EXCEPT !.pc = "evidence"]
    OBVIOUS
  <2>2. run' = x /\ UNCHANGED <<files, graph, verdict>>
    BY <1>2, <2>1 DEF NoneMissing
  <2>3. /\ DOMAIN x = Fields /\ x.pc = "evidence" /\ x.class = run.class /\ x.found = run.found
        /\ x.bound = run.bound /\ x.quiet = run.quiet /\ x.at = run.at
    BY <1>0, <2>1 DEF RunOK, Fields
  <2>4. ASSUME run.quiet PROVE Faithful(x)
    <3>1. Faithful(run)
      BY <1>0, <2>4 DEF RunOK
    <3>2. x.at - 1 = 0 /\ DOMAIN x.bound = {}
      BY <1>0, <2>3, <3>1 DEF Faithful
    <3>3. BoundTo(x.bound, x.at - 1)
      BY <3>2, ReadNone DEF BoundTo
    <3> QED
      BY <1>0, <2>3, <3>1, <3>3 DEF Faithful
  <2> QED
    BY <1>0, <2>2, <2>3, <2>4, RunGoes DEF RunOK, Phases
<1> QED
  BY <1>1, <1>2

LEMMA BindEvidenceKeeps ==
    ASSUME GraphInv, BindEvidence
    PROVE  GraphInv'
<1>0. run # NoRun /\ RunOK(run) /\ run.pc = "evidence" /\ run.at \in 1..Len(Order)
  BY DEF BindEvidence, GraphInv, NoRun, RunOK
<1> DEFINE r == Order[run.at]
<1>f. CASE r \in DOMAIN run.found /\ EvidenceMissing(run.found[r], evidence[r])
  BY <1>0, <1>f, RunFails DEF BindEvidence, Reading
<1>n. SUFFICES ASSUME ~(r \in DOMAIN run.found /\ EvidenceMissing(run.found[r], evidence[r]))
               PROVE  GraphInv'
  BY <1>f
<1>a. UNCHANGED <<files, graph, verdict>>
  BY <1>n DEF BindEvidence, Reading
<1>b. ReadTo(run.at) = ReadTo(run.at - 1) \cup {r} /\ r \in ReadTo(run.at) /\ r \in ReadTo(Len(Order))
  <2>1. r \in Projects
    BY <1>0, GraphAssumption
  <2> QED
    BY <1>0, <2>1, ReadOne, AllRead
<1>c. ASSUME run.quiet
      PROVE  /\ Faithful(run) /\ FoundTo(run.found, Len(Order)) /\ FreshTo(Len(Order))
             /\ BoundTo(run.bound, run.at - 1)
             /\ r \in DOMAIN run.found <=> decl[r] # None
             /\ r \in DOMAIN run.found => run.found[r] = decl[r]
  BY <1>0, <1>b, <1>c DEF RunOK, Faithful, FoundTo
<1>1. CASE r \notin DOMAIN run.found
  <2>1. PICK x : x = Advanced(run, "evidence", "generate")
    OBVIOUS
  <2>2. run' = x
    BY <1>1, <1>n, <2>1 DEF BindEvidence, Reading
  <2>3. /\ DOMAIN x = Fields /\ x.class = run.class /\ x.found = run.found
        /\ x.bound = run.bound /\ x.quiet = run.quiet /\ x.at \in 1..Len(Order)
        /\ \/ run.at = Len(Order) /\ x.pc = "generate" /\ x.at = 1
           \/ run.at # Len(Order) /\ x.pc = "evidence" /\ x.at - 1 = run.at
    BY <1>0, <2>1, AdvancedIs DEF RunOK
  <2>4. ASSUME run.quiet PROVE Faithful(x)
    <3>1. BoundTo(run.bound, run.at)
      BY <1>1, <1>b, <1>c, <2>4 DEF BoundTo
    <3> QED
      BY <1>0, <1>c, <2>3, <2>4, <3>1 DEF Faithful
  <2> QED
    BY <1>0, <1>a, <2>2, <2>3, <2>4, RunGoes DEF RunOK, Phases
<1>2. CASE r \in DOMAIN run.found
  <2>1. PICK y : y = [run EXCEPT !.bound = Extended(run.bound, r, Unverified(evidence[r]))]
    OBVIOUS
  <2>2. /\ DOMAIN y = Fields /\ y.pc = "evidence" /\ y.class = run.class /\ y.found = run.found
        /\ y.quiet = run.quiet /\ y.at = run.at
        /\ y.bound = Extended(run.bound, r, Unverified(evidence[r]))
    BY <1>0, <2>1 DEF RunOK, Fields
  <2>3. /\ DOMAIN y.bound = DOMAIN run.bound \cup {r} /\ y.bound[r] = Unverified(evidence[r])
        /\ \A s \in DOMAIN run.bound \ {r} : y.bound[s] = run.bound[s]
    BY <2>2 DEF Extended
  <2>4. run' = IF Verified(run.found[r]) THEN [y EXCEPT !.pc = "parse"]
                                         ELSE Advanced(y, "evidence", "generate")
    BY <1>2, <1>n, <2>1 DEF BindEvidence, Reading
  <2>5. ASSUME run.quiet
        PROVE  /\ DOMAIN y.bound = {s \in ReadTo(run.at) : decl[s] # None}
               /\ \A s \in DOMAIN y.bound \ {r} : y.bound[s] = Binding(s)
    BY <1>2, <1>b, <1>c, <2>3, <2>5 DEF BoundTo
  <2>6. CASE Verified(run.found[r])
    <3>1. PICK x : x = [y EXCEPT !.pc = "parse"]
      OBVIOUS
    <3>2. /\ run' = x /\ DOMAIN x = Fields /\ x.pc = "parse" /\ x.class = run.class
          /\ x.found = run.found /\ x.bound = y.bound /\ x.quiet = run.quiet /\ x.at = run.at
      BY <2>2, <2>4, <2>6, <3>1 DEF Fields
    <3>3. ASSUME run.quiet PROVE Faithful(x)
      <4>1. BindingAt(x, Unverified(evidence[r]))
        BY <1>2, <1>c, <2>3, <2>5, <2>6, <3>2, <3>3 DEF BindingAt
      <4> QED
        BY <1>c, <3>2, <3>3, <4>1 DEF Faithful
    <3> QED
      BY <1>0, <1>a, <3>2, <3>3, RunGoes DEF RunOK, Phases
  <2>7. CASE ~Verified(run.found[r])
    <3>1. PICK x : x = Advanced(y, "evidence", "generate")
      OBVIOUS
    <3>2. /\ run' = x /\ DOMAIN x = Fields /\ x.class = run.class /\ x.found = run.found
          /\ x.bound = y.bound /\ x.quiet = run.quiet /\ x.at \in 1..Len(Order)
          /\ \/ run.at = Len(Order) /\ x.pc = "generate" /\ x.at = 1
             \/ run.at # Len(Order) /\ x.pc = "evidence" /\ x.at - 1 = run.at
      BY <1>0, <2>2, <2>4, <2>7, <3>1, AdvancedIs
    <3>3. ASSUME run.quiet PROVE Faithful(x)
      <4>1. BoundTo(x.bound, run.at)
        BY <1>2, <1>c, <2>3, <2>5, <2>7, <3>2, <3>3 DEF BoundTo, Binding
      <4> QED
        BY <1>c, <3>2, <3>3, <4>1 DEF Faithful
    <3> QED
      BY <1>0, <1>a, <3>2, <3>3, RunGoes DEF RunOK, Phases
  <2> QED
    BY <2>6, <2>7
<1> QED
  BY <1>1, <1>2

LEMMA BindManifestKeeps ==
    ASSUME GraphInv, BindManifest
    PROVE  GraphInv'
<1>0. run # NoRun /\ RunOK(run) /\ run.pc = "parse" /\ run.at \in 1..Len(Order)
  BY DEF BindManifest, GraphInv, NoRun, RunOK
<1> DEFINE r == Order[run.at]
<1>1. CASE Fails
  BY <1>1, RunFails
<1>2. CASE ~Fails
  <2>1. PICK x : x = [run EXCEPT !.pc = "hash", !.bound[r].manifest = manifest[r]]
    OBVIOUS
  <2>2. run' = x /\ UNCHANGED <<files, graph, verdict>>
    BY <1>2, <2>1 DEF BindManifest, Reading
  <2>3. /\ DOMAIN x = Fields /\ x.pc = "hash" /\ x.class = run.class /\ x.found = run.found
        /\ x.quiet = run.quiet /\ x.at = run.at
        /\ x.bound = [run.bound EXCEPT ![r].manifest = manifest[r]]
    BY <1>0, <2>1 DEF RunOK, Fields
  <2>4. ASSUME run.quiet PROVE Faithful(x)
    <3>1. Faithful(run) /\ BindingAt(run, Unverified(evidence[r]))
      BY <1>0, <2>4 DEF RunOK, Faithful
    <3>2. r \in DOMAIN run.bound
      BY <1>0, <3>1, ReadOne DEF BindingAt
    <3>3. /\ DOMAIN x.bound = DOMAIN run.bound
          /\ \A s \in DOMAIN run.bound \ {r} : x.bound[s] = run.bound[s]
      BY <2>3
    <3>4. x.bound[r] = [evidence |-> evidence[r], manifest |-> manifest[r], digest |-> None]
      <4>1. x.bound[r] = [run.bound[r] EXCEPT !.manifest = manifest[r]]
        BY <2>3, <3>2
      <4>2. run.bound[r] = Unverified(evidence[r])
        BY <3>1 DEF BindingAt
      <4> QED
        BY <4>1, <4>2 DEF Unverified
    <3>5. BindingAt(x, [evidence |-> evidence[r], manifest |-> manifest[r], digest |-> None])
      BY <2>3, <3>1, <3>3, <3>4 DEF BindingAt
    <3> QED
      BY <1>0, <2>3, <3>1, <3>5 DEF Faithful
  <2> QED
    BY <1>0, <2>2, <2>3, <2>4, RunGoes DEF RunOK, Phases
<1> QED
  BY <1>1, <1>2

LEMMA BindDigestKeeps ==
    ASSUME GraphInv, BindDigest
    PROVE  GraphInv'
<1>0. run # NoRun /\ RunOK(run) /\ run.pc = "hash" /\ run.at \in 1..Len(Order)
  BY DEF BindDigest, GraphInv, NoRun, RunOK
<1> DEFINE r == Order[run.at]
<1>1. PICK y : y = [run EXCEPT !.bound[r].digest = manifest[r]]
  OBVIOUS
<1>2. /\ DOMAIN y = Fields /\ y.class = run.class /\ y.found = run.found
      /\ y.quiet = run.quiet /\ y.at = run.at
      /\ y.bound = [run.bound EXCEPT ![r].digest = manifest[r]]
  BY <1>0, <1>1 DEF RunOK, Fields
<1>3. PICK x : x = Advanced(y, "evidence", "generate")
  OBVIOUS
<1>4. run' = x /\ UNCHANGED <<files, graph, verdict>>
  BY <1>1, <1>3 DEF BindDigest, Reading
<1>5. /\ DOMAIN x = Fields /\ x.class = run.class /\ x.found = run.found
      /\ x.bound = y.bound /\ x.quiet = run.quiet /\ x.at \in 1..Len(Order)
      /\ \/ run.at = Len(Order) /\ x.pc = "generate" /\ x.at = 1
         \/ run.at # Len(Order) /\ x.pc = "evidence" /\ x.at - 1 = run.at
  BY <1>0, <1>2, <1>3, AdvancedIs
<1>6. ASSUME run.quiet PROVE Faithful(x)
  <2> DEFINE half == [evidence |-> evidence[r], manifest |-> manifest[r], digest |-> None]
  <2>1. Faithful(run) /\ BindingAt(run, half) /\ FoundTo(run.found, Len(Order)) /\ FreshTo(Len(Order))
    BY <1>0, <1>6 DEF RunOK, Faithful
  <2>2. r \in DOMAIN run.bound
    BY <1>0, <2>1, ReadOne DEF BindingAt
  <2>3. /\ DOMAIN x.bound = DOMAIN run.bound
        /\ \A s \in DOMAIN run.bound \ {r} : x.bound[s] = run.bound[s]
    BY <1>2, <1>5
  <2>4. x.bound[r] = [evidence |-> evidence[r], manifest |-> manifest[r], digest |-> manifest[r]]
    <3>1. x.bound[r] = [run.bound[r] EXCEPT !.digest = manifest[r]]
      BY <1>2, <1>5, <2>2
    <3>2. run.bound[r] = half
      BY <2>1 DEF BindingAt
    <3> QED
      BY <3>1, <3>2
  <2>5. x.bound[r] = Binding(r)
    BY <2>1, <2>4 DEF BindingAt, Binding
  <2>6. BoundTo(x.bound, run.at)
    BY <2>1, <2>3, <2>5 DEF BindingAt, BoundTo
  <2> QED
    BY <1>5, <2>1, <2>6 DEF Faithful
<1> QED
  BY <1>0, <1>4, <1>5, <1>6, RunGoes DEF RunOK, Phases

LEMMA FinishKeeps ==
    ASSUME GraphInv, Finish
    PROVE  GraphInv'
<1>0. run # NoRun /\ RunOK(run) /\ run.pc = "generate"
  BY DEF Finish, GraphInv, NoRun
<1>1. CASE Fails
  BY <1>1, RunFails
<1>2. CASE ~Fails
  <2>1. PICK found, bound, coverage, g :
           /\ found = run.found /\ bound = run.bound /\ coverage = Coverage(run.class, DOMAIN found)
           /\ g = Generated(found, bound, coverage)
    OBVIOUS
  <2>2. /\ OneProducer(found) /\ Joinable(found) /\ ValidGraph(g) /\ UNCHANGED files
        /\ run' = NoRun
        /\ \/ graph' = g /\ verdict' = IF run.quiet THEN "written" ELSE "none"
           \/ /\ graph' = graph
              /\ verdict' = IF run.quiet THEN IF graph = g THEN "passed" ELSE "stale" ELSE "none"
    BY <1>2, <2>1 DEF Finish, Ended
  <2>3. GraphJoins'
    <3>1. CASE graph' = g
      BY <2>1, <2>2, <3>1, GeneratedJoins DEF GraphJoins
    <3>2. CASE graph' = graph
      BY <3>2 DEF GraphInv, GraphJoins
    <3> QED
      BY <2>2, <3>1, <3>2
  <2>4. CheckedIsCurrent'
    <3>1. CASE run.quiet /\ graph' = g
      <4>1. /\ run.class = participation /\ FoundTo(found, Len(Order)) /\ FreshTo(Len(Order))
            /\ BoundTo(bound, Len(Order))
        BY <1>0, <2>1, <3>1 DEF RunOK, Faithful
      <4>2. EdgesCurrent(g) /\ MetadataCurrent /\ PlannerMissesNone(g)
        BY <2>1, <2>2, <4>1, GeneratedCurrent, GeneratedPlans, MetadataRead
      <4>3. EdgesCurrent(graph)'
        BY <2>2, <3>1, <4>2 DEF EdgesCurrent, DeclaredEdges, DeclaredEdge, EdgeDeclared, Declared, files
      <4>4. MetadataCurrent'
        BY <2>2, <4>2 DEF MetadataCurrent, Declared, files
      <4>5. PlannerMissesNone(graph)'
        BY <2>2, <3>1, <4>2 DEF PlannerMissesNone, ConsumersFor, Declared, With, files
      <4> QED
        BY <4>3, <4>4, <4>5 DEF CheckedIsCurrent
    <3>2. CASE ~(run.quiet /\ graph' = g)
      BY <2>2, <3>2 DEF CheckedIsCurrent
    <3> QED
      BY <3>1, <3>2
  <2> QED
    BY <2>2, <2>3, <2>4 DEF GraphInv
<1> QED
  BY <1>1, <1>2

\* An edit ends what verdicts and runs can say of the files.
LEMMA EditKeeps ==
    ASSUME GraphInv, Edited
    PROVE  GraphInv'
<1>1. verdict' = "none" /\ graph' = graph
  BY DEF Edited
<1>2. CheckedIsCurrent' /\ GraphJoins'
  BY <1>1 DEF GraphInv, CheckedIsCurrent, GraphJoins
<1>3. run' = NoRun \/ RunOK(run)'
  <2>1. CASE run = NoRun
    BY <2>1 DEF Edited
  <2>2. CASE run # NoRun
    <3>1. RunOK(run) /\ run' = [run EXCEPT !.quiet = FALSE]
      BY <2>2 DEF GraphInv, Edited
    <3>2. DOMAIN run' = Fields /\ run'.pc = run.pc /\ run'.at = run.at /\ run'.quiet = FALSE
      BY <3>1 DEF RunOK, Fields
    <3> QED
      BY <3>1, <3>2 DEF RunOK
  <2> QED
    BY <2>1, <2>2
<1> QED
  BY <1>1, <1>2, <1>3 DEF GraphInv

-----------------------------------------------------------------------------
LEMMA InitGraph ==
    ASSUME Init
    PROVE  GraphInv
BY DEF Init, GraphInv, CheckedIsCurrent, GraphJoins

\* Every step, and every stutter, preserves the invariant.
LEMMA StepGraph ==
    ASSUME GraphInv, [Next]_vars
    PROVE  GraphInv'
<1>1. CASE Reconcile
  BY <1>1, StartKeeps, ReadDeclarationKeeps, ReadMetadataKeeps, NoneMissingKeeps, BindEvidenceKeeps,
     BindManifestKeeps, BindDigestKeeps, FinishKeeps DEF Reconcile
<1>2. CASE Edited
  BY <1>2, EditKeeps
<1>3. CASE UNCHANGED vars
  <2>1. UNCHANGED <<files, run, graph, verdict>>
    BY <1>3 DEF vars
  <2>2. run' = NoRun \/ RunOK(run)'
    BY <2>1, FilesSame DEF GraphInv
  <2>3. GraphJoins'
    BY <2>1 DEF GraphInv, GraphJoins
  <2>4. CheckedIsCurrent'
    <3> SUFFICES ASSUME verdict \in {"passed", "written"}
                 PROVE  EdgesCurrent(graph)' /\ MetadataCurrent' /\ PlannerMissesNone(graph)'
      BY <2>1 DEF CheckedIsCurrent
    <3>1. EdgesCurrent(graph) /\ MetadataCurrent /\ PlannerMissesNone(graph)
      BY DEF GraphInv, CheckedIsCurrent
    <3>2. EdgesCurrent(graph)'
      BY <2>1, <3>1 DEF EdgesCurrent, DeclaredEdges, DeclaredEdge, EdgeDeclared, Declared, files
    <3>3. MetadataCurrent'
      BY <2>1, <3>1 DEF MetadataCurrent, Declared, files
    <3>4. PlannerMissesNone(graph)'
      BY <2>1, <3>1 DEF PlannerMissesNone, ConsumersFor, Declared, With, files
    <3> QED
      BY <3>2, <3>3, <3>4
  <2> QED
    BY <2>1, <2>2, <2>3, <2>4 DEF GraphInv
<1>4. CASE Next /\ ~Reconcile
  BY <1>2, <1>4 DEF Next, EditDeclaration, EditEvidence, EditManifest, GenerateFacts, EditParticipation
<1> QED
  BY <1>1, <1>3, <1>4

\* In every reachable state the inductive invariant holds.
THEOREM GraphInvariant == Spec => []GraphInv
BY InitGraph, StepGraph, PTL DEF Spec

\* A reconciliation that wrote the graph, or passed its check, undisturbed, leaves
\* graph, metadata and consumer index in agreement with the files until an edit.
THEOREM CheckMeansCurrent == Spec => []CheckedIsCurrent
<1>1. GraphInv => CheckedIsCurrent
  BY DEF GraphInv
<1> QED
  BY <1>1, GraphInvariant, PTL

\* Whatever was edited while it was made, a graph that is checked in joins.
THEOREM GraphsJoin == Spec => []GraphJoins
<1>1. GraphInv => GraphJoins
  BY DEF GraphInv
<1> QED
  BY <1>1, GraphInvariant, PTL
=============================================================================
