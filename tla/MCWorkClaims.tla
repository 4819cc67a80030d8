---------------------------- MODULE MCWorkClaims ----------------------------
(***************************************************************************)
(* Instances of WorkClaims for TLC: two sessions of one or two workers,    *)
(* and the transitions a worker makes, with one that cancels work without  *)
(* letting go of it, one that changes nothing but attachments, and one     *)
(* that gives the claim to somebody else.                                  *)
(***************************************************************************)
EXTENDS WorkClaims, TLC

CONSTANTS w1, w2, s1, s2, amy, bob

TwoWorkers == s1 :> amy @@ s2 :> bob

Ask(state, coordination, claim) ==
    [state |-> state, coordination |-> coordination, claim |-> claim, attachments |-> FALSE]

Usual ==
    {Ask("running", Unset, Unset), Ask("blocked", Unset, Unset),
     Ask("completed", Unset, Unset), Ask("cancelled", Unset, NoOne)}

Odd ==
    {Ask("cancelled", "CLAIMED", Unset), Ask("queued", "CLAIMED", bob),
     [Ask(Unset, Unset, Unset) EXCEPT !.attachments = TRUE],
     Ask("accepted", "NEEDS_RECONCILIATION", Unset)}

UsualAndOdd == Usual \cup Odd

SharedCoreLanes == w1 :> SharedCore @@ w2 :> SharedCore

MixedLanes == w1 :> SharedCore @@ w2 :> "REPO_HYGIENE"
=============================================================================
