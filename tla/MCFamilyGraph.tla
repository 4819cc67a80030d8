--------------------------- MODULE MCFamilyGraph ---------------------------
(***************************************************************************)
(* An instance of FamilyGraph for TLC: a producer, a consumer that may     *)
(* declare the same contract, and a project that need not take part.       *)
(***************************************************************************)
EXTENDS FamilyGraph

Provide(rev) == [contract |-> "json", rev |-> rev]
Consume(rev, check) == [contract |-> "json", rev |-> rev, check |-> check]

Declares(provides, consumes) == [provides |-> provides, consumes |-> consumes]

MCDeclarations ==
    [mncs |-> {Declares({Provide(1)}, {}), Declares({Provide(1), Provide(2)}, {}),
               Declares({Provide(2)}, {})},
     ravel |-> {Declares({}, {Consume(1, "smoke")}), Declares({}, {Consume(1, None)}),
                Declares({Provide(1)}, {Consume(1, "smoke")})},
     docs |-> {None, Declares({}, {Consume(2, "smoke")})}]

MCManifests ==
    [mncs |-> {{}}, ravel |-> {{<<"smoke", "json">>}, {}, {<<"smoke", "json">>, <<"deep", "json">>}},
     docs |-> {{<<"smoke", "json">>}}]

MCOrder == <<"docs", "mncs", "ravel">>

Classified(docs) == [mncs |-> "participant", ravel |-> "participant", docs |-> docs]

MCClasses ==
    {None, Classified("pending"), Classified("explicit_nonparticipant"), Classified("participant")}
=============================================================================
