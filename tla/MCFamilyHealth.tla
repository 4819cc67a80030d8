--------------------------- MODULE MCFamilyHealth ---------------------------
(***************************************************************************)
(* An instance of FamilyHealth for TLC: two scanners report on one finding *)
(* of one repository while a worker proposes, claims and finishes work.    *)
(***************************************************************************)
EXTENDS FamilyHealth, TLC

CONSTANTS s1, s2, s3, amy, bob

MCActorOf == s1 :> amy @@ s2 :> amy @@ s3 :> bob

\* The two scanners act for one operator and claim nothing.
ScannerSymmetry == Permutations({s1, s2})

MCLane == [h1 |-> Hygiene, h2 |-> Hygiene, h3 |-> Hygiene, bad |-> Hygiene, core |-> SharedCore]

\* As in the packaged family-registry-v0alpha1.json, for every project.
MCPosture == [p \in Projects |-> "NEEDS_REVIEW"]

MCRank == [h1 |-> 1, h2 |-> 2, h3 |-> 3, bad |-> 4, core |-> 5]

Obs(outcome, at) == [repo |-> "ravel", finding |-> "lint", outcome |-> outcome, at |-> at]

MCSweeps ==
    {<<Obs("FAIL", 1)>>, <<Obs("PASS", 2)>>, <<Obs("FAIL", 3), Obs("UNKNOWN", 3)>>}

Proposal(lane, repos, finding, capability, deps) ==
    [lane |-> lane, repos |-> repos, finding |-> finding, capability |-> capability,
     resolved |-> TRUE, deps |-> deps, at |-> NoTime]

MCProposals ==
    {Proposal(Hygiene, {"ravel"}, NoFinding, <<"json", "parse">>, {"h1"}),
     Proposal(Hygiene, {"ravel", "mnel"}, "lint", <<"json", "parse", "fast">>, {})}

MCRequests == MCProposals \cup {HealthProposal(o) : o \in {Obs("FAIL", 1), Obs("FAIL", 3)}}

Ask(state, coordination, claim) ==
    [state |-> state, coordination |-> coordination, claim |-> claim, attachments |-> FALSE]

MCTransitions ==
    {Ask("queued", "BLOCKED", Unset), Ask("running", Unset, Unset), Ask("completed", Unset, Unset)}
=============================================================================
