----------------------------- MODULE AppendLog -----------------------------
(***************************************************************************)
(* What the Commons store promises: one history that only grows, in which  *)
(* every record and lifecycle event was admitted against exactly the       *)
(* payloads before it, and occurs once.  CommonsStore, with its files,     *)
(* lock, journals, crashes and recovery, implements this specification.    *)
(***************************************************************************)
EXTENDS Naturals, Sequences

CONSTANTS
    Entries,         \* content digests of records and lifecycle events
    Snapshot,        \* the payload of an operator snapshot row
    Admitted(_, _)   \* may the entry be added after the history?

VARIABLE history

Init == history = <<>>

\* A completed add_record or add_event.
Commit(x) ==
    /\ \A i \in 1..Len(history) : history[i] # x
    /\ Admitted(x, history)
    /\ history' = Append(history, x)

\* A completed add_snapshot.
CommitSnapshot == history' = Append(history, Snapshot)

Next == CommitSnapshot \/ \E x \in Entries : Commit(x)

Spec == Init /\ [][Next]_history
=============================================================================
