---------------------------- MODULE MCCompaction ----------------------------
(***************************************************************************)
(* Instances of Compaction for TLC: a claim that leads through an artifact *)
(* to an old observation, an observation that nothing protects, an event   *)
(* on it, and a late failed observation.                                   *)
(***************************************************************************)
EXTENDS Compaction, TLC

CONSTANTS c1, p1

Rec(kind, detail, created, refs) ==
    [type |-> "record", kind |-> kind, detail |-> detail, created |-> created, refs |-> refs,
     logical |-> <<kind, detail>>, revision |-> 1]

Knowledge ==
       ("claim"    :> Rec("Claim", "none", 0, {"artifact"}))
    @@ ("artifact" :> Rec("ArtifactReference", "none", 0, {"source"}))
    @@ ("source"   :> Rec("Observation", "PASS", 0, {}))
    @@ ("passing"  :> Rec("Replication", "PASS", 0, {}))
    @@ ("late"     :> Rec("Finding", "none", 1, {"passing"}))
    @@ ("review"   :> [type |-> "event", created |-> 1, target |-> "passing"])

Old == <<"source", "passing", "artifact", "claim">>
=============================================================================
