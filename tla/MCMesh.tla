------------------------------- MODULE MCMesh -------------------------------
(***************************************************************************)
(* Instances of Mesh for TLC.                                              *)
(***************************************************************************)
EXTENDS Mesh, TLC

Record(kind, logical, revision, previous) ==
    [type |-> "record", kind |-> kind, projects |-> {"ptx"}, contracts |-> {}, producer |-> "p",
     outcomes |-> {"PASS", "FAIL"}, relations |-> {}, labels |-> {"gpu"}, open |-> TRUE,
     logical |-> logical, revision |-> revision, previous |-> previous, large |-> FALSE]

Verification ==
    [type |-> "event", target |-> 4, state |-> "verified"] @@ Record("LifecycleEvent", "event", 1, 0)

\* An event, which nobody else takes, and a failure of another project, which a does
\* not want, below a finding that both nodes make and one that a makes.
Knowledge ==
       (1 :> Verification)
    @@ (2 :> [Record("Finding", "failure", 1, 0) EXCEPT !.outcomes = {"FAIL"}, !.projects = {"core"}])
    @@ (3 :> Record("Finding", "shared", 1, 0))
    @@ (4 :> Record("Finding", "finding", 1, 0))

Makes  == ("a" :> {1, 3, 4}) @@ ("b" :> {2, 3})
Before == ("a" :> <<4>>) @@ ("b" :> <<2>>)
Likes  == ("a" :> [MatchAll EXCEPT !.outcomes = {"PASS"}])
       @@ ("b" :> [MatchAll EXCEPT !.projects = {"ptx"}])
Gives  == ("a" :> MatchAll) @@ ("b" :> MatchAll)

Connected == {<<"b", "a">>, <<"a", "b">>, <<"a", "relay">>, <<"b", "relay">>, <<"a", "bundle">>}
Pushed    == {<<"b", "a">>, <<"a", "relay">>, <<"b", "relay">>}

-----------------------------------------------------------------------------
\* Four ways to be connected.  b pulls from a, which makes an event, and pushes to it,
\* and processes die; a pulls from b and b from a, with capsules on a relay; both share
\* a relay, which is lost; a reads a bundle while b pushes to it.
LinksOf ==
       ("direct"   :> {<<"b", "a">>})
    @@ ("capsules" :> {<<"b", "a">>, <<"a", "b">>})
    @@ ("relay"    :> {<<"a", "relay">>, <<"b", "relay">>})
    @@ ("bundle"   :> {<<"b", "a">>, <<"a", "bundle">>})

VARIABLE way

MCInit == Init /\ way \in DOMAIN LinksOf

MCNext ==
    /\ UNCHANGED way
    /\ \/ \E n \in Nodes :
             \/ \E d \in Digests : Publish(n, d)
             \/ way = "direct" /\ \E d \in Digests : AddEvent(n, d)
             \/ way = "capsules" /\ \E d \in Digests : PublishCapsule(n, d)
             \/ way = "bundle" /\ ExportBundle(n)
             \/ Step(n)
             \/ way = "direct" /\ Crash(n)
       \/ \E l \in LinksOf[way] : SyncStart(l[1], l[2])
       \/ way = "relay" /\ LoseRelay

MCVars == <<vars, way>>

\* Fairness, for the links that there are; in these ways to be connected it is enough
\* that the calls that push are made again and again.
MCSpec ==
    /\ MCInit /\ [][MCNext]_MCVars
    /\ \A n \in Nodes : WF_MCVars(Step(n) /\ UNCHANGED way)
    /\ \A l \in PushLinks :
          SF_MCVars(l \in LinksOf[way] /\ SyncStart(l[1], l[2]) /\ UNCHANGED way)
=============================================================================
