--------------------------- MODULE MCCommonsStore ---------------------------
(***************************************************************************)
(* Instances of CommonsStore for TLC.  Two revisions race for the place    *)
(* after rec1, two events race for its disposition in one domain, and one  *)
(* event spells that domain with blanks.                                   *)
(***************************************************************************)
EXTENDS CommonsStore, TLC

CONSTANTS p1, p2

Rec(id, rev, prev, links) ==
    [id |-> id, rev |-> rev, prev |-> prev, links |-> links, mentions |-> {}, refs |-> <<>>]

Ev(target, padded, from, to) ==
    [target |-> target, domain |-> "dom", padded |-> padded, from |-> from, to |-> to]

MCAttr ==
    [rec1  |-> Rec("A", 1, NoDigest, {}),
     rec2a |-> Rec("A", 2, "rec1", {}),
     rec2b |-> Rec("A", 2, "rec1", {}),
     big   |-> Rec("B", 1, NoDigest, {"A"}),
     ev1   |-> Ev("rec1", FALSE, "proposed", "withdrawn"),
     ev2   |-> Ev("rec1", FALSE, "proposed", "disputed"),
     ev3   |-> Ev("rec1", TRUE, "proposed", "rejected")]

Symmetry == Permutations(Procs)
=============================================================================
