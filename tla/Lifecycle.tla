----------------------------- MODULE Lifecycle -----------------------------
(***************************************************************************)
(* The append-only lifecycle rules of src/mncs_commons/lifecycle.py: which *)
(* dispositions may follow which.  The projection of a history of events   *)
(* is in Semantic, with the histories.                                     *)
(*                                                                         *)
(* An event is a record [target, domain, padded, from, to]: the content    *)
(* digest of the record it is about, its authority domain with the blanks  *)
(* stripped, whether the stored domain string had blanks around it, and    *)
(* the transition it claims to make.                                       *)
(***************************************************************************)
EXTENDS Naturals, Sequences

Proposed == "proposed"

\* _ALLOWED: the dispositions that may follow each disposition.
AllowedTransitions(s) ==
    CASE s = "proposed"   -> {"reproduced", "disputed", "expired", "rejected", "withdrawn"}
      [] s = "reproduced" -> {"verified", "disputed", "expired", "rejected", "withdrawn"}
      [] s = "verified"   -> {"accepted", "disputed", "superseded", "expired", "withdrawn"}
      [] s = "accepted"   -> {"superseded", "expired", "withdrawn"}
      [] s = "disputed"   -> {"reproduced", "verified", "superseded", "expired",
                              "rejected", "withdrawn"}
      [] s = "rejected"   -> {"superseded", "withdrawn"}
      [] OTHER            -> {}

\* Mutant of ValidTransition: a stale transition is let through.
ValidTransitionStale(current, ev) == ev.to \in AllowedTransitions(current)

\* validate_transition: the move is allowed, and the event names the current
\* state as the one it leaves (otherwise STALE_TRANSITION).
ValidTransition(current, ev) ==
    /\ ev.to \in AllowedTransitions(current)
    /\ ev.from = current
=============================================================================
