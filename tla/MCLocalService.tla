--------------------------- MODULE MCLocalService ---------------------------
(***************************************************************************)
(* An instance of LocalService for TLC: two service processes of one store *)
(* and one pair of sockets.  One client publishes or reads, the other      *)
(* publishes the same record, under the same id, recovers or compacts.     *)
(***************************************************************************)
EXTENDS LocalService, TLC

CONSTANTS v1, v2, k1, k2

SamePaths == [s \in Servers |-> [consumer |-> "commons.sock", operator |-> "operator.sock"]]

Q(id, op, x) == [id |-> id, op |-> op, entry |-> x]

Publish == Q("q1", "commons.publish", "x")
Read    == Q("q2", "commons.get", "x")
Recover == Q("q3", "store.recover", "x")
Compact == Q("q4", "store.compact", "x")

Sends == k1 :> {Publish, Read} @@ k2 :> {Publish, Recover, Compact}
AllRequests == UNION {Sends[k] : k \in Connections}

MCNext ==
    \/ \E s \in Servers : AcquireOwnership(s) \/ Progress(s) \/ StartClose(s) \/ Exit(s) \/ Crash(s)
    \/ \E k \in Connections :
          Handle(k) \/ ClientTimeout(k) \/ \E q \in Sends[k], p \in AllPaths : Connect(k, q, p)

MCSpec == Init /\ [][MCNext]_vars /\ Fairness
=============================================================================
