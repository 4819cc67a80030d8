-------------------------- MODULE WorkClaimsProofs --------------------------
(***************************************************************************)
(* Theorems about WorkClaims, for any sets of work, sessions, requests and *)
(* transitions: histories are legal, one claim of a revision wins, and a   *)
(* submission that was acknowledged is the one that is stored.  Then about *)
(* FamilyHealth, for any scanners and observations: a PASS cancels no work *)
(* with news as recent as its own, duplicates come only from proposals at  *)
(* the same time, and a healthy project has settled its failures.          *)
(***************************************************************************)
EXTENDS FamilyHealth, WellFoundedInduction, TLAPS

\* A claim that is under way named a revision that was claimable when claim_work
\* looked; it still is, or another revision has come after it.
ClaimsInHand ==
    \A s \in Sessions :
        LET c == call[s]
        IN  pc[s] \in {"active", "revise"} \/ (pc[s] = "add" /\ c.claiming) =>
                \/ c.expected < Len(history[c.work])
                \/ history[c.work][c.expected].coordination \in Claimable

\* The revision that a claim is about to add names its worker.
ClaimsNameWorker ==
    \A s \in Sessions :
        pc[s] = "add" /\ call[s].claiming => call[s].next.claim = ActorOf[s]

\* The revision that a reported claim names is one.
ClaimsPlaced == \A c \in claims : c.expected > 0

\* Work whose submission was acknowledged has a first revision.
SubmittedExist == \A x \in submissions : history[x.work] # <<>>

WorkInv ==
    /\ TypeOK
    /\ HistoryLegal
    /\ ClaimsInHand
    /\ ClaimsNameWorker
    /\ ClaimsPlaced
    /\ OneClaimWins
    /\ SubmittedExist
    /\ SubmissionsAgree

-----------------------------------------------------------------------------
\* The revision that revised_work_record makes is well formed.
LEMMA RevisedType ==
    ASSUME NEW r \in Revisions,
           NEW t \in [state : WorkStates \cup {Unset}, coordination : CoordinationStates \cup {Unset},
                      claim : Actors \cup {NoOne, Unset}, attachments : BOOLEAN]
    PROVE  Revised(r, t) \in Revisions
  <1>1. TargetState(r, t) \in WorkStates
    BY DEF TargetState, Revisions
  <1>2. DefaultCoordination(TargetState(r, t)) \in CoordinationStates
    BY DEF DefaultCoordination, CoordinationStates
  <1>3. TargetCoordination(r, t) \in CoordinationStates
    BY <1>2 DEF TargetCoordination
  <1> QED BY <1>1, <1>3 DEF Revised, Revisions

\* What claim_work asks for is a transition.
LEMMA ClaimTransitionType ==
    ASSUME NEW s \in Sessions
    PROVE  ClaimTransition(s) \in
             [state : WorkStates \cup {Unset}, coordination : CoordinationStates \cup {Unset},
              claim : Actors \cup {NoOne, Unset}, attachments : BOOLEAN]
  BY DEF ClaimTransition, WorkStates, CoordinationStates, Actors

\* The latest revision of work that has one is well formed.
LEMMA CurrentType ==
    ASSUME TypeOK, NEW w \in Works, Len(history[w]) > 0
    PROVE  Current(w) \in Revisions
  BY DEF TypeOK, Current

\* How a call may change the histories: not at all, by a first revision, or by one
\* revision at the end.
Grows(w, r) ==
    /\ history' = [history EXCEPT ![w] = Append(@, r)]
    /\ WorkAdmitted(w, r)

\* An add appends a revision that work_semantic_diagnostics has let in, or leaves
\* the histories alone.
LEMMA OnlyGrows ==
    ASSUME TypeOK, Next
    PROVE  \/ UNCHANGED history
           \/ \E w \in Works, r \in Revisions : Grows(w, r)
  <1> PICK s \in Sessions :
        \/ \E w \in Works, q \in Requests :
              SubmitDuplicate(s, w, q) \/ \E r \in FirstRevisions(w) : SubmitRead(s, w, q, r)
        \/ \E w \in Works, n \in 1..MaxRevisions :
              ClaimRead(s, w, n) \/ \E t \in Transitions : TransitionRead(s, w, n, t)
        \/ SubmitAdd(s) \/ ClaimActive(s) \/ ClaimRevise(s) \/ AddRevision(s)
    BY DEF Next
  <1>1. CASE SubmitAdd(s)
    <2> DEFINE w == call[s].work
               r == call[s].next
    <2>1. w \in Works /\ r \in Revisions
      BY <1>1 DEF SubmitAdd, TypeOK
    <2>2. CASE history[w] = <<>> /\ WorkAdmitted(w, r) /\ history' = [history EXCEPT ![w] = <<r>>]
      <3>1. Append(history[w], r) = <<r>>
        BY <2>2
      <3>2. history' = [history EXCEPT ![w] = Append(@, r)]
        BY <2>2, <3>1
      <3> QED BY <2>1, <2>2, <3>2 DEF Grows
    <2> QED BY <1>1, <2>2 DEF SubmitAdd
  <1>2. CASE AddRevision(s)
    <2>1. call[s].work \in Works /\ call[s].next \in Revisions
      BY <1>2 DEF AddRevision, TypeOK
    <2> QED BY <1>2, <2>1 DEF AddRevision, Grows
  <1> QED BY <1>1, <1>2 DEF SubmitDuplicate, SubmitRead, ClaimRead, TransitionRead, ClaimActive, ClaimRevise

\* Appending keeps the revisions that are there, and adds r at the end.
LEMMA Grown ==
    ASSUME TypeOK, NEW w \in Works, NEW r \in Revisions, Grows(w, r)
    PROVE  /\ history' \in [Works -> Seq(Revisions)]
           /\ Len(history'[w]) = Len(history[w]) + 1
           /\ history'[w][Len(history[w]) + 1] = r
           /\ \A i \in 1..Len(history[w]) : history'[w][i] = history[w][i]
           /\ \A v \in Works \ {w} : history'[v] = history[v]
  BY DEF TypeOK, Grows

\* No revision is ever changed or dropped.
LEMMA Kept ==
    ASSUME TypeOK, Next
    PROVE  /\ history' \in [Works -> Seq(Revisions)]
           /\ \A w \in Works : /\ Len(history[w]) \in Nat /\ Len(history'[w]) \in Nat
                               /\ Len(history[w]) <= Len(history'[w])
                               /\ \A i \in 1..Len(history[w]) : history'[w][i] = history[w][i]
  <1>1. CASE UNCHANGED history
    BY <1>1 DEF TypeOK
  <1>2. ASSUME NEW w \in Works, NEW r \in Revisions, Grows(w, r)
        PROVE  /\ history' \in [Works -> Seq(Revisions)]
               /\ \A v \in Works : /\ Len(history[v]) \in Nat /\ Len(history'[v]) \in Nat
                                   /\ Len(history[v]) <= Len(history'[v])
                                   /\ \A i \in 1..Len(history[v]) : history'[v][i] = history[v][i]
    <2>1. history' \in [Works -> Seq(Revisions)]
      BY <1>2, Grown
    <2>2. \A v \in Works : Len(history[v]) \in Nat /\ Len(history'[v]) \in Nat
      BY <2>1 DEF TypeOK
    <2>3. \A v \in Works \ {w} : history'[v] = history[v]
      BY <1>2, Grown
    <2>4. /\ Len(history'[w]) = Len(history[w]) + 1
          /\ \A i \in 1..Len(history[w]) : history'[w][i] = history[w][i]
      BY <1>2, Grown
    <2> QED BY <2>1, <2>2, <2>3, <2>4
  <1> QED BY <1>1, <1>2, OnlyGrows

-----------------------------------------------------------------------------
\* Every step keeps the types.
LEMMA StepType ==
    ASSUME TypeOK, Next
    PROVE  TypeOK'
  <1> USE WorkAssumption
  <1>1. history' \in [Works -> Seq(Revisions)]
    BY Kept
  <1> PICK s \in Sessions :
        \/ \E w \in Works, q \in Requests :
              SubmitDuplicate(s, w, q) \/ \E r \in FirstRevisions(w) : SubmitRead(s, w, q, r)
        \/ \E w \in Works, n \in 1..MaxRevisions :
              ClaimRead(s, w, n) \/ \E t \in Transitions : TransitionRead(s, w, n, t)
        \/ SubmitAdd(s) \/ ClaimActive(s) \/ ClaimRevise(s) \/ AddRevision(s)
    BY DEF Next
  <1> DEFINE CallOK(p, c, h) ==
               /\ p # "idle" => c.work \in Works
               /\ p = "submit" => c.next \in Revisions /\ c.request \in Requests
               /\ p \in {"active", "revise", "add"} => c.expected \in 1..Len(h[c.work])
               /\ p = "add" => c.next \in Revisions /\ c.claiming \in BOOLEAN
  <1>2. \A t \in Sessions : CallOK(pc[t], call[t], history)
    BY DEF TypeOK
  <1>3. \A t \in Sessions : CallOK(pc[t], call[t], history')
    BY <1>2, Kept
  <1> HIDE DEF CallOK
  \* It is enough to look at the call of s.
  <1>4. ASSUME NEW p \in {"idle", "submit", "active", "revise", "add"}, NEW c,
               pc' = [pc EXCEPT ![s] = p], call' = [call EXCEPT ![s] = c],
               CallOK(p, c, history'),
               request' \in [Works -> Requests \cup {NoOne}],
               claims' \in SUBSET [session : Sessions, work : Works, expected : Nat],
               submissions' \in SUBSET [work : Works, request : Requests]
        PROVE  TypeOK'
    <2>1. \A t \in Sessions : CallOK(pc'[t], call'[t], history')
      BY <1>3, <1>4 DEF TypeOK
    <2>2. pc' \in [Sessions -> {"idle", "submit", "active", "revise", "add"}] /\ DOMAIN call' = Sessions
      BY <1>4 DEF TypeOK
    <2> QED BY <1>1, <1>4, <2>1, <2>2 DEF TypeOK, CallOK
  <1>5. CallOK("idle", NoCall, history')
    BY DEF CallOK
  <1>6. ASSUME NEW w \in Works, NEW q \in Requests, SubmitDuplicate(s, w, q) PROVE TypeOK'
    BY <1>6 DEF SubmitDuplicate, TypeOK
  <1>7. ASSUME NEW w \in Works, NEW q \in Requests, NEW r \in FirstRevisions(w),
               SubmitRead(s, w, q, r)
        PROVE  TypeOK'
    <2>1. r \in Revisions
      BY DEF FirstRevisions, Revisions, WorkStates
    <2>2. CallOK("submit", [work |-> w, request |-> q, next |-> r], history')
      BY <2>1 DEF CallOK
    <2> QED BY <1>4, <1>7, <2>2 DEF SubmitRead, Proceed, TypeOK
  <1>8. ASSUME NEW w \in Works, NEW n \in 1..MaxRevisions, ClaimRead(s, w, n) PROVE TypeOK'
    <2>1. CallOK("active", [work |-> w, expected |-> n], history')
      BY <1>8 DEF ClaimRead, CallOK
    <2> QED BY <1>4, <1>8, <2>1 DEF ClaimRead, Proceed, TypeOK
  <1>9. ASSUME NEW w \in Works, NEW n \in 1..MaxRevisions, NEW t \in Transitions,
               TransitionRead(s, w, n, t)
        PROVE  TypeOK'
    <2>1. Revised(Current(w), t) \in Revisions
      BY <1>9, CurrentType, RevisedType DEF TransitionRead
    <2>2. n \in 1..Len(history'[w])
      BY <1>9 DEF TransitionRead, TypeOK
    <2>3. CallOK("add", [work |-> w, expected |-> n, next |-> Revised(Current(w), t),
                         claiming |-> FALSE], history')
      BY <2>1, <2>2 DEF CallOK
    <2> QED BY <1>4, <1>9, <2>3 DEF TransitionRead, Proceed, TypeOK
  <1>10. CASE SubmitAdd(s)
    <2>1. call[s].work \in Works /\ call[s].request \in Requests
      BY <1>10 DEF SubmitAdd, TypeOK
    <2>2. request' \in [Works -> Requests \cup {NoOne}]
      BY <1>10, <2>1 DEF SubmitAdd, TypeOK
    <2>3. submissions' \in SUBSET [work : Works, request : Requests]
      BY <1>10, <2>1 DEF SubmitAdd, TypeOK
    <2> QED BY <1>4, <1>5, <1>10, <2>2, <2>3 DEF SubmitAdd, Return, TypeOK
  <1>11. CASE ClaimActive(s)
    <2>1. CASE Proceed(s, "revise", call[s])
      <3>1. CallOK("revise", call[s], history')
        BY <1>3, <1>11 DEF ClaimActive, CallOK
      <3> QED BY <1>4, <1>11, <2>1, <3>1 DEF ClaimActive, Proceed, TypeOK
    <2>2. CASE Return(s)
      BY <1>4, <1>5, <1>11, <2>2 DEF ClaimActive, Return, TypeOK
    <2> QED BY <1>11, <2>1, <2>2 DEF ClaimActive
  <1>12. CASE ClaimRevise(s)
    <2> DEFINE w == call[s].work
               n == call[s].expected
               c == [work |-> w, expected |-> n, next |-> Revised(Current(w), ClaimTransition(s)),
                     claiming |-> TRUE]
    <2>1. w \in Works /\ n \in 1..Len(history[w]) /\ Len(history[w]) \in Nat /\ history' = history
      BY <1>12 DEF ClaimRevise, TypeOK
    <2>2. CASE Proceed(s, "add", c)
      <3>1. c.next \in Revisions
        BY <2>1, CurrentType, RevisedType, ClaimTransitionType
      <3>2. CallOK("add", c, history')
        BY <2>1, <3>1 DEF CallOK
      <3> QED BY <1>4, <1>12, <2>2, <3>2 DEF ClaimRevise, Proceed, TypeOK
    <2>3. CASE Return(s)
      BY <1>4, <1>5, <1>12, <2>3 DEF ClaimRevise, Return, TypeOK
    <2> QED BY <1>12, <2>2, <2>3 DEF ClaimRevise
  <1>13. CASE AddRevision(s)
    <2>1. call[s].work \in Works /\ call[s].expected \in 1..Len(history[call[s].work])
      BY <1>13 DEF AddRevision, TypeOK
    <2>2. call[s].expected \in Nat
      BY <2>1 DEF TypeOK
    <2>3. claims' \in SUBSET [session : Sessions, work : Works, expected : Nat]
      BY <1>13, <2>1, <2>2 DEF AddRevision, TypeOK
    <2> QED BY <1>4, <1>5, <1>13, <2>3 DEF AddRevision, Return, TypeOK
  <1> QED BY <1>6, <1>7, <1>8, <1>9, <1>10, <1>11, <1>12, <1>13

\* The start is well formed.
LEMMA InitInv == Init => WorkInv
  BY DEF Init, WorkInv, TypeOK, HistoryLegal, ClaimsInHand, ClaimsNameWorker, ClaimsPlaced, OneClaimWins,
         SubmittedExist, SubmissionsAgree

-----------------------------------------------------------------------------
\* A revision that add_record lets in is a legal successor of the one before it.
LEMMA StepLegal ==
    ASSUME TypeOK, HistoryLegal, Next
    PROVE  HistoryLegal'
  <1>1. CASE UNCHANGED history
    BY <1>1 DEF HistoryLegal
  <1>2. ASSUME NEW w \in Works, NEW r \in Revisions, Grows(w, r)
        PROVE  HistoryLegal'
    <2> DEFINE n == Len(history[w])
    <2>1. n \in Nat
      BY DEF TypeOK
    <2> SUFFICES ASSUME NEW v \in Works, NEW i \in 1..Len(history'[v])
                 PROVE  LET q == history'[v][i]
                        IN  IF i = 1 THEN q.state = "submitted"
                            ELSE LET p == history'[v][i - 1]
                                 IN  /\ q.state \in AllowedWork(p.state) \cup {p.state}
                                     /\ q.coordination \in AllowedCoordination(p.coordination)
                                                             \cup {p.coordination}
      BY DEF HistoryLegal
    <2>2. CASE v # w
      <3>1. history'[v] = history[v]
        BY <1>2, <2>2, Grown
      <3> QED BY <3>1 DEF HistoryLegal
    <2>3. CASE v = w /\ i # n + 1
      <3>1. i \in 1..n /\ (i # 1 => i - 1 \in 1..n)
        BY <1>2, <2>1, <2>3, Grown
      <3>2. history'[v][i] = history[v][i] /\ (i # 1 => history'[v][i - 1] = history[v][i - 1])
        BY <1>2, <2>3, <3>1, Grown
      <3> QED BY <2>3, <3>1, <3>2 DEF HistoryLegal
    <2>4. CASE v = w /\ i = n + 1
      <3>1. history'[v][i] = r
        BY <1>2, <2>4, Grown
      <3>2. CASE n = 0
        <4>1. history[w] = <<>>
          BY <3>2 DEF TypeOK
        <4> QED BY <1>2, <2>4, <3>1, <3>2, <4>1 DEF Grows, WorkAdmitted
      <3>3. CASE n # 0
        <4>1. history[w] # <<>> /\ i # 1 /\ i - 1 = n /\ n \in 1..n
          BY <2>1, <2>4, <3>3
        <4>2. history'[v][i - 1] = Current(w)
          BY <1>2, <2>4, <4>1, Grown DEF Current
        <4>3. /\ r.state \in AllowedWork(Current(w).state) \cup {Current(w).state}
              /\ r.coordination \in AllowedCoordination(Current(w).coordination)
                                      \cup {Current(w).coordination}
          BY <1>2, <4>1 DEF Grows, WorkAdmitted
        <4> QED BY <3>1, <4>1, <4>2, <4>3
      <3> QED BY <3>2, <3>3
    <2> QED BY <2>2, <2>3, <2>4
  <1> QED BY <1>1, <1>2, OnlyGrows

-----------------------------------------------------------------------------
\* MayRevise with the transition of claim_work makes a revision of the worker.
LEMMA ClaimRevision ==
    ASSUME NEW s \in Sessions, NEW r \in Revisions
    PROVE  Revised(r, ClaimTransition(s)).claim = ActorOf[s]
  BY WorkAssumption DEF Revised, ClaimTransition, Actors

\* A claim keeps hold of the revision that it found claimable.
LEMMA StepInHand ==
    ASSUME TypeOK, ClaimsInHand, ClaimsNameWorker, Next
    PROVE  ClaimsInHand' /\ ClaimsNameWorker'
  <1> PICK s \in Sessions :
        \/ \E w \in Works, q \in Requests :
              SubmitDuplicate(s, w, q) \/ \E r \in FirstRevisions(w) : SubmitRead(s, w, q, r)
        \/ \E w \in Works, n \in 1..MaxRevisions :
              ClaimRead(s, w, n) \/ \E t \in Transitions : TransitionRead(s, w, n, t)
        \/ SubmitAdd(s) \/ ClaimActive(s) \/ ClaimRevise(s) \/ AddRevision(s)
    BY DEF Next
  <1> DEFINE Holds(c, h) == \/ c.expected < Len(h[c.work])
                            \/ h[c.work][c.expected].coordination \in Claimable
             Claiming(p, c) == p \in {"active", "revise"} \/ (p = "add" /\ c.claiming)
             HandOK(t, p, c, h) ==
               /\ Claiming(p, c) => Holds(c, h)
               /\ p = "add" /\ c.claiming => c.next.claim = ActorOf[t]
  <1>1. \A t \in Sessions : HandOK(t, pc[t], call[t], history)
    BY DEF ClaimsInHand, ClaimsNameWorker
  <1>2. \A t \in Sessions : Claiming(pc[t], call[t]) =>
            /\ call[t].work \in Works
            /\ call[t].expected \in 1..Len(history[call[t].work])
    BY DEF TypeOK
  <1>3. \A t \in Sessions : HandOK(t, pc[t], call[t], history')
    <2> SUFFICES ASSUME NEW t \in Sessions, Claiming(pc[t], call[t])
                 PROVE  Holds(call[t], history')
      BY <1>1
    <2> DEFINE w == call[t].work
               n == call[t].expected
    <2>1. w \in Works /\ n \in 1..Len(history[w])
      BY <1>2
    <2>2. /\ Len(history[w]) \in Nat /\ Len(history'[w]) \in Nat
          /\ Len(history[w]) <= Len(history'[w]) /\ history'[w][n] = history[w][n]
      BY <2>1, Kept
    <2>3. Holds(call[t], history)
      BY <1>1
    <2> QED BY <2>1, <2>2, <2>3
  <1> HIDE DEF HandOK
  <1>4. SUFFICES \A t \in Sessions : HandOK(t, pc'[t], call'[t], history')
    BY <1>4 DEF HandOK, ClaimsInHand, ClaimsNameWorker
  <1>5. ASSUME NEW p, NEW c, pc' = [pc EXCEPT ![s] = p], call' = [call EXCEPT ![s] = c],
               HandOK(s, p, c, history')
        PROVE  \A t \in Sessions : HandOK(t, pc'[t], call'[t], history')
    BY <1>3, <1>5 DEF TypeOK
  <1>6. ASSUME NEW c PROVE HandOK(s, "idle", c, history')
    BY DEF HandOK
  <1>7. ASSUME NEW w \in Works, NEW q \in Requests, SubmitDuplicate(s, w, q)
        PROVE  \A t \in Sessions : HandOK(t, pc'[t], call'[t], history')
    BY <1>3, <1>7 DEF SubmitDuplicate
  <1>8. ASSUME NEW w \in Works, NEW q \in Requests, NEW r \in FirstRevisions(w),
               SubmitRead(s, w, q, r)
        PROVE  \A t \in Sessions : HandOK(t, pc'[t], call'[t], history')
    <2>1. HandOK(s, "submit", [work |-> w, request |-> q, next |-> r], history')
      BY DEF HandOK
    <2> QED BY <1>5, <1>8, <2>1 DEF SubmitRead, Proceed
  <1>9. ASSUME NEW w \in Works, NEW n \in 1..MaxRevisions, ClaimRead(s, w, n)
        PROVE  \A t \in Sessions : HandOK(t, pc'[t], call'[t], history')
    <2>1. n < Len(history[w]) \/ history[w][n].coordination \in Claimable
      BY <1>9, WorkAssumption DEF ClaimRead, Current, TypeOK
    <2>2. HandOK(s, "active", [work |-> w, expected |-> n], history')
      BY <1>9, <2>1 DEF HandOK, ClaimRead
    <2> QED BY <1>5, <1>9, <2>2 DEF ClaimRead, Proceed
  <1>10. ASSUME NEW w \in Works, NEW n \in 1..MaxRevisions, NEW t \in Transitions,
                TransitionRead(s, w, n, t)
         PROVE  \A u \in Sessions : HandOK(u, pc'[u], call'[u], history')
    <2>1. HandOK(s, "add", [work |-> w, expected |-> n, next |-> Revised(Current(w), t),
                            claiming |-> FALSE], history')
      BY DEF HandOK
    <2> QED BY <1>5, <1>10, <2>1 DEF TransitionRead, Proceed
  <1>11. CASE SubmitAdd(s)
    BY <1>5, <1>6, <1>11 DEF SubmitAdd, Return
  <1>12. CASE ClaimActive(s)
    <2>1. HandOK(s, "revise", call[s], history')
      BY <1>3, <1>12 DEF ClaimActive, HandOK
    <2> QED BY <1>5, <1>6, <1>12, <2>1 DEF ClaimActive, Proceed, Return
  <1>13. CASE ClaimRevise(s)
    <2> DEFINE w == call[s].work
               c == [work |-> w, expected |-> call[s].expected,
                     next |-> Revised(Current(w), ClaimTransition(s)), claiming |-> TRUE]
    <2>1. Claiming(pc[s], call[s])
      BY <1>13 DEF ClaimRevise
    <2>2. w \in Works /\ Len(history[w]) > 0
      BY <1>2, <2>1 DEF TypeOK
    <2>3. c.next.claim = ActorOf[s]
      BY <2>2, CurrentType, ClaimRevision
    <2>4. Holds(call[s], history')
      BY <1>3, <2>1 DEF HandOK
    <2>5. HandOK(s, "add", c, history')
      BY <2>3, <2>4 DEF HandOK
    <2> QED BY <1>5, <1>6, <1>13, <2>5 DEF ClaimRevise, Proceed, Return
  <1>14. CASE AddRevision(s)
    BY <1>5, <1>6, <1>14 DEF AddRevision, Return
  <1> QED BY <1>7, <1>8, <1>9, <1>10, <1>11, <1>12, <1>13, <1>14

\* What a reported claim says of the history stays true as the history grows.
LEMMA ClaimKept ==
    ASSUME TypeOK, ClaimsPlaced, OneClaimWins, Next, NEW c \in claims
    PROVE  /\ c.work \in Works /\ c.expected \in 1..Len(history[c.work])
           /\ c.expected < Len(history'[c.work])
           /\ history'[c.work][c.expected + 1].claim = ActorOf[c.session]
           /\ history'[c.work][c.expected].coordination \in Claimable
  <1> DEFINE w == c.work
             n == c.expected
  <1>1. w \in Works /\ n \in Nat /\ n < Len(history[w])
    BY DEF TypeOK, OneClaimWins
  <1>2. n \in 1..Len(history[w])
    BY <1>1 DEF ClaimsPlaced, TypeOK
  <1>3. n + 1 \in 1..Len(history[w])
    BY <1>1, Kept
  <1> QED BY <1>1, <1>2, <1>3, Kept DEF OneClaimWins

\* A claim wins only the revision it named, and no claim of that revision was
\* reported before it.
LEMMA StepClaims ==
    ASSUME TypeOK, ClaimsInHand, ClaimsNameWorker, ClaimsPlaced, OneClaimWins, Next
    PROVE  OneClaimWins' /\ ClaimsPlaced'
  <1>1. CASE UNCHANGED claims
    BY <1>1, ClaimKept, SMTT(40) DEF OneClaimWins, ClaimsPlaced
  <1>2. ASSUME NEW s \in Sessions, AddRevision(s), claims' # claims
        PROVE  OneClaimWins' /\ ClaimsPlaced'
    <2> DEFINE w == call[s].work
               n == call[s].expected
               d == [session |-> s, work |-> w, expected |-> n]
    <2>1. /\ w \in Works /\ n \in 1..Len(history[w]) /\ Len(history[w]) = n
          /\ call[s].next \in Revisions /\ call[s].claiming
          /\ history' = [history EXCEPT ![w] = Append(@, call[s].next)]
          /\ claims' = claims \cup {d}
      BY <1>2 DEF AddRevision, TypeOK
    <2>2. Grows(w, call[s].next)
      BY <1>2 DEF AddRevision, Grows
    <2>3. /\ Len(history'[w]) = n + 1 /\ history'[w][n + 1] = call[s].next
          /\ history'[w][n] = history[w][n]
      BY <2>1, <2>2, Grown
    <2>4. history[w][n].coordination \in Claimable
      BY <1>2, <2>1 DEF ClaimsInHand, AddRevision
    <2>5. call[s].next.claim = ActorOf[s]
      BY <1>2, <2>1 DEF ClaimsNameWorker, AddRevision
    <2>6. \A c \in claims : ~(c.work = w /\ c.expected = n)
      BY <2>1 DEF OneClaimWins
    <2>7. /\ d.expected < Len(history'[d.work])
          /\ history'[d.work][d.expected + 1].claim = ActorOf[d.session]
          /\ history'[d.work][d.expected].coordination \in Claimable
      BY <2>1, <2>3, <2>4, <2>5
    <2>8. \A c, e \in claims' : c.work = e.work /\ c.expected = e.expected => c = e
      BY <2>1, <2>6 DEF OneClaimWins
    <2>9. ClaimsPlaced'
      BY <2>1 DEF ClaimsPlaced
    <2> QED BY <2>1, <2>7, <2>8, <2>9, ClaimKept DEF OneClaimWins
  <1>3. UNCHANGED claims \/ \E s \in Sessions : AddRevision(s)
    BY ZenonT(60) DEF Next, SubmitDuplicate, SubmitRead, ClaimRead, TransitionRead, SubmitAdd, ClaimActive,
           ClaimRevise
  <1> QED BY <1>1, <1>2, <1>3

\* The immutable fields of work are set by its first revision and never again.
LEMMA StepSubmissions ==
    ASSUME TypeOK, SubmittedExist, SubmissionsAgree, Next
    PROVE  SubmittedExist' /\ SubmissionsAgree'
  <1>1. \A w \in Works : history[w] # <<>> => history'[w] # <<>>
    <2>1. \A w \in Works : history[w] \in Seq(Revisions) /\ history'[w] \in Seq(Revisions)
      BY Kept DEF TypeOK
    <2>2. \A w \in Works : history[w] # <<>> => Len(history[w]) > 0
      BY <2>1
    <2> QED BY <2>1, <2>2, Kept
  <1>2. CASE UNCHANGED <<request, submissions>>
    BY <1>1, <1>2 DEF SubmittedExist, SubmissionsAgree, TypeOK
  <1>3. ASSUME NEW s \in Sessions, NEW w \in Works, NEW q \in Requests, SubmitDuplicate(s, w, q)
        PROVE  SubmittedExist' /\ SubmissionsAgree'
    BY <1>3 DEF SubmitDuplicate, SubmittedExist, SubmissionsAgree
  <1>4. ASSUME NEW s \in Sessions, SubmitAdd(s)
        PROVE  SubmittedExist' /\ SubmissionsAgree'
    <2> DEFINE w == call[s].work
               q == call[s].request
    <2>1. w \in Works /\ q \in Requests
      BY <1>4 DEF SubmitAdd, TypeOK
    <2>2. CASE history[w] = <<>>
      <3>1. \A x \in submissions : x.work \in Works /\ x.work # w
        BY <2>2 DEF SubmittedExist, TypeOK
      <3>2. /\ history' = [history EXCEPT ![w] = <<call[s].next>>]
            /\ request' = [request EXCEPT ![w] = q]
            /\ submissions' = submissions \cup {[work |-> w, request |-> q]}
        BY <1>4, <2>2 DEF SubmitAdd
      <3>3. request'[w] = q /\ history'[w] # <<>>
        BY <2>1, <3>2 DEF TypeOK
      <3> QED BY <1>1, <3>1, <3>2, <3>3 DEF SubmittedExist, SubmissionsAgree, TypeOK
    <2>3. CASE history[w] # <<>>
      BY <1>4, <2>1, <2>3 DEF SubmitAdd, SubmittedExist, SubmissionsAgree
    <2> QED BY <2>2, <2>3
  <1>5. \/ UNCHANGED <<request, submissions>>
        \/ \E s \in Sessions, w \in Works, q \in Requests : SubmitDuplicate(s, w, q)
        \/ \E s \in Sessions : SubmitAdd(s)
    BY ZenonT(60) DEF Next, SubmitRead, ClaimRead, TransitionRead, ClaimActive, ClaimRevise, AddRevision
  <1> QED BY <1>2, <1>3, <1>4, <1>5

-----------------------------------------------------------------------------
\* Every step of any session keeps the invariant.
LEMMA StepInv == WorkInv /\ [Next]_vars => WorkInv'
  <1> SUFFICES ASSUME WorkInv, [Next]_vars PROVE WorkInv'
    OBVIOUS
  <1>1. CASE Next
    BY <1>1, StepType, StepLegal, StepInHand, StepClaims, StepSubmissions DEF WorkInv
  <1>2. CASE UNCHANGED vars
    BY <1>2 DEF vars, WorkInv, TypeOK, HistoryLegal, ClaimsInHand, ClaimsNameWorker, ClaimsPlaced, OneClaimWins,
                SubmittedExist, SubmissionsAgree, Current
  <1> QED BY <1>1, <1>2

\* The invariant of the calls of submit_work, transition_work and claim_work, for
\* any number of sessions and requests.
THEOREM WorkInvariant == Spec => []WorkInv
  BY InitInv, StepInv, PTL DEF Spec

\* However transitions and claims of any number of sessions interleave,
\* project_work_history never finds a revision that does not follow from the one
\* before it.
THEOREM HistoriesLegal == Spec => []HistoryLegal
  <1>1. WorkInv => HistoryLegal
    BY DEF WorkInv
  <1> QED BY <1>1, WorkInvariant, PTL

\* Of the calls of claim_work that name one revision at most one is reported as
\* persisted, and it took over work that nobody was active on, although the state
\* was read in a step before the add.
THEOREM ClaimsExclusive == Spec => []OneClaimWins
  <1>1. WorkInv => OneClaimWins
    BY DEF WorkInv
  <1> QED BY <1>1, WorkInvariant, PTL

\* What submit_work has acknowledged, as new or as a retry, is what is stored.
THEOREM SubmissionsStored == Spec => []SubmissionsAgree
  <1>1. WorkInv => SubmissionsAgree
    BY DEF WorkInv
  <1> QED BY <1>1, WorkInvariant, PTL

-----------------------------------------------------------------------------
(***************************************************************************)
(* Proposals and health sweeps, for any sessions, sweeps and proposals.    *)
(* Every call keeps, between its read and its write, what the write relies *)
(* on: an id nobody else has, a revision that is still the current one or  *)
(* an add that is refused, and no FAIL that came in behind the scan.       *)
(***************************************************************************)

HealthPoints ==
    {"idle", "submit", "active", "revise", "add", "propose", "attach", "list", "cancel"}

SweepTypes ==
    [todo : Seq(Reported), items : SUBSET (Works \X Nat), keys : SUBSET {Key(o) : o \in Reported}]

HealthTypes ==
    /\ history \in [Works -> Seq(Revisions)]
    /\ DOMAIN request = Works
    /\ pc \in [Sessions -> HealthPoints]
    /\ DOMAIN call = Sessions
    /\ sweep \in [Sessions -> SweepTypes]
    /\ DOMAIN unseen = Works
    /\ observations \subseteq Reported
    /\ sweeps \in 0..MaxSweeps

\* The revision n may follow r.
Follows(n, r) ==
    /\ n.state \in AllowedWork(r.state) \cup {r.state}
    /\ n.coordination \in AllowedCoordination(r.coordination) \cup {r.coordination}

\* A call that is about to change work names a revision of it, and what it adds
\* follows from that one.
CallTyped(s) ==
    /\ pc[s] \in {"active", "revise", "attach", "cancel", "add"} =>
          /\ call[s].work \in Works
          /\ call[s].expected \in 1..Len(history[call[s].work])
    /\ pc[s] = "add" =>
          /\ call[s].next \in Revisions
          /\ Follows(call[s].next, history[call[s].work][call[s].expected])

\* A first revision in hand has an id that is not taken.  If it is AVAILABLE, no
\* work that the proposal was compared with and that is still open is its duplicate.
FirstInHand(s) ==
    pc[s] = "submit" =>
        /\ call[s].work \in Works /\ history[call[s].work] = <<>>
        /\ call[s].next \in Revisions /\ call[s].next.state = "submitted"
        /\ call[s].next.coordination \in {"AVAILABLE", "NEEDS_RECONCILIATION"}
        /\ call[s].seen \subseteq Listed
        /\ call[s].next.coordination = "AVAILABLE" =>
              \A w \in call[s].seen \cap CurrentWork : ~Exact(call[s].request, request[w])

\* Two proposals never draw the same id.
IdsDistinct ==
    \A s, t \in Sessions :
        pc[s] = "submit" /\ pc[t] = "submit" /\ call[s].work = call[t].work => s = t

\* Only scanners sweep, and they claim nothing.  The observation that a scanner
\* works on is in the store.
Scanning(s) ==
    /\ s \notin Scanners => sweep[s] = NoSweep /\ pc[s] \notin {"propose", "list", "cancel"}
    /\ s \in Scanners => pc[s] \notin {"active", "revise"}
    /\ s \in Scanners /\ pc[s] = "add" => call[s].cancels \in BOOLEAN
    /\ pc[s] = "cancel" => sweep[s].items # {}
    /\ s \in Scanners /\ (pc[s] # "idle" \/ sweep[s].items # {}) =>
          sweep[s].todo # <<>> /\ Observation(s) \in observations
    /\ \A i \in sweep[s].items : i[2] \in 1..Len(history[i[1]])

\* The observation o is a FAIL that the work w is about.
FailOf(o, w) ==
    o.outcome = "FAIL" /\ o.finding = request[w].finding /\ o.repo \in request[w].repos

\* A scanner that proposes has a FAIL in hand: its request is the proposal of that
\* FAIL, and work that it attaches to was open and is about it.
Failing(s) ==
    s \in Scanners /\ (pc[s] \in {"propose", "attach", "submit"} \/ (pc[s] = "add" /\ ~call[s].cancels)) =>
        /\ Observation(s).outcome = "FAIL"
        /\ pc[s] = "submit" => call[s].request = HealthProposal(Observation(s))
        /\ pc[s] \in {"attach", "add"} =>
              /\ FailOf(Observation(s), call[s].work)
              /\ history[call[s].work][call[s].expected].coordination \in OpenStates

\* A cancellation that can still succeed is newer than each FAIL tracked on its work.
Cancelling(s) ==
    s \in Scanners /\ (pc[s] = "cancel" \/ (pc[s] = "add" /\ call[s].cancels)) =>
        /\ pc[s] = "add" => call[s].next.coordination = "SUPERSEDED"
        /\ call[s].expected = Len(history[call[s].work]) =>
              \A f \in tracked : f[2] = call[s].work => f[1].at < Observation(s).at

SessionInv(s) ==
    CallTyped(s) /\ FirstInHand(s) /\ Scanning(s) /\ Failing(s) /\ Cancelling(s)

\* What was tracked is a stored FAIL of its work; superseded work stays so.
RecordedInv ==
    /\ tracked \subseteq observations \X Listed
    /\ superseding \subseteq observations \X Listed
    /\ \A f \in tracked : FailOf(f[1], f[2])
    /\ \A p \in superseding : Current(p[2]).coordination = "SUPERSEDED"
    /\ \A w \in Works : unseen[w] \subseteq Listed

HealthInv ==
    /\ HealthTypes
    /\ \A s \in Sessions : SessionInv(s)
    /\ IdsDistinct
    /\ RecordedInv
    /\ SupersededByNewer
    /\ DuplicatesOnlyByRace

-----------------------------------------------------------------------------
\* What a step may do to the store: histories and observations only grow, a request
\* is never changed, work that is closed stays as it is, and a FAIL is tracked only
\* with a new revision of the work.
Extended ==
    /\ history' \in [Works -> Seq(Revisions)]
    /\ DOMAIN request' = Works
    /\ \A w \in Works :
          /\ Len(history[w]) <= Len(history'[w])
          /\ \A i \in 1..Len(history[w]) : history'[w][i] = history[w][i]
          /\ history[w] # <<>> => request'[w] = request[w]
          /\ history[w] # <<>> /\ Current(w).coordination \notin OpenStates =>
                Current(w)'.coordination = Current(w).coordination
    /\ observations \subseteq observations'
    /\ \A f \in tracked' \ tracked : Len(history[f[2]]) < Len(history'[f[2]])

\* The sessions other than s are left alone.
OnlyOf(s) ==
    /\ pc' \in [Sessions -> HealthPoints]
    /\ DOMAIN call' = Sessions
    /\ sweep' \in [Sessions -> SweepTypes]
    /\ \A t \in Sessions \ {s} : pc'[t] = pc[t] /\ call'[t] = call[t] /\ sweep'[t] = sweep[t]

\* The latest revision of work that has one is well formed, and its place is its last.
LEMMA HealthCurrent ==
    ASSUME HealthTypes, NEW w \in Works, history[w] # <<>>
    PROVE  /\ Len(history[w]) \in Nat \ {0}
           /\ Current(w) = history[w][Len(history[w])]
           /\ Current(w) \in Revisions
  <1>1. history[w] \in Seq(Revisions)
    BY DEF HealthTypes
  <1>2. Len(history[w]) \in Nat \ {0}
    BY <1>1
  <1> QED BY <1>1, <1>2 DEF Current

\* Work stays listed, and work that is open was open before.
LEMMA ListedStays ==
    ASSUME HealthTypes, Extended
    PROVE  /\ Listed \subseteq Listed'
           /\ \A w \in CurrentWork' : w \in Listed => w \in CurrentWork
  <1>1. \A w \in Works : history[w] \in Seq(Revisions) /\ history'[w] \in Seq(Revisions)
    BY DEF HealthTypes, Extended
  <1>2. ASSUME NEW w \in Works, history[w] # <<>> PROVE history'[w] # <<>>
    BY <1>1, <1>2 DEF Extended
  <1>3. Listed \subseteq Listed'
    BY <1>2 DEF Listed
  <1>4. ASSUME NEW w \in CurrentWork', w \in Listed PROVE w \in CurrentWork
    <2>1. w \in Works /\ history[w] # <<>> /\ Current(w)'.coordination \in OpenStates
      BY <1>4 DEF CurrentWork, Listed
    <2>2. Current(w).coordination \in OpenStates
      BY <2>1 DEF Extended
    <2> QED BY <1>4, <2>2 DEF CurrentWork
  <1> QED BY <1>3, <1>4

\* A session that does not act keeps what it relies on, provided that nobody takes
\* the id it has drawn.
LEMMA Others ==
    ASSUME HealthTypes, Extended, RecordedInv, NEW t \in Sessions, SessionInv(t),
           pc'[t] = pc[t], call'[t] = call[t], sweep'[t] = sweep[t],
           pc[t] = "submit" => history'[call[t].work] = <<>>
    PROVE  SessionInv(t)'
  <1> PICK c : c = call[t]
    OBVIOUS
  <1>c. call[t] = c /\ call'[t] = c
    OBVIOUS
  <1>h. \A w \in Works : history[w] \in Seq(Revisions) /\ history'[w] \in Seq(Revisions)
    BY DEF HealthTypes, Extended
  <1>l. \A w \in Works : Len(history[w]) \in Nat /\ Len(history'[w]) \in Nat /\ Len(history[w]) <= Len(history'[w])
    BY <1>h DEF Extended
  <1>i. \A w \in Works : \A i \in 1..Len(history[w]) : i \in 1..Len(history'[w]) /\ history'[w][i] = history[w][i]
    BY <1>l DEF Extended
  <1>1. CallTyped(t)'
    <2>1. CASE pc[t] \in {"active", "revise", "attach", "cancel", "add"}
      <3>1. c.work \in Works /\ c.expected \in 1..Len(history[c.work])
        BY <1>c, <2>1 DEF SessionInv, CallTyped
      <3>2. c.expected \in 1..Len(history'[c.work]) /\ history'[c.work][c.expected] = history[c.work][c.expected]
        BY <3>1, <1>i
      <3> QED BY <1>c, <3>1, <3>2 DEF SessionInv, CallTyped
    <2> QED BY <2>1 DEF CallTyped
  <1>2. FirstInHand(t)'
    <2> SUFFICES ASSUME pc[t] = "submit" PROVE FirstInHand(t)'
      BY DEF FirstInHand
    <2>1. /\ c.work \in Works /\ c.next \in Revisions /\ c.next.state = "submitted"
          /\ c.next.coordination \in {"AVAILABLE", "NEEDS_RECONCILIATION"}
          /\ c.seen \subseteq Listed
          /\ c.next.coordination = "AVAILABLE" =>
                \A w \in c.seen \cap CurrentWork : ~Exact(c.request, request[w])
      BY <1>c DEF SessionInv, FirstInHand
    <2>2. c.seen \subseteq Listed'
      BY <2>1, ListedStays
    <2>3. ASSUME c.next.coordination = "AVAILABLE", NEW w \in c.seen \cap CurrentWork'
          PROVE  ~Exact(c.request, request'[w])
      <3>1. w \in Listed /\ w \in CurrentWork
        BY <2>1, <2>3, ListedStays
      <3>2. request'[w] = request[w]
        BY <3>1 DEF Extended, Listed
      <3> QED BY <2>1, <2>3, <3>1, <3>2
    <2> QED BY <1>c, <2>1, <2>2, <2>3 DEF FirstInHand
  <1>3. Scanning(t)'
    <2>1. \A i \in sweep[t].items : i[2] \in 1..Len(history'[i[1]])
      <3>1. \A i \in sweep[t].items : i[1] \in Works
        BY DEF HealthTypes, SweepTypes
      <3> QED BY <3>1, <1>i DEF SessionInv, Scanning
    <2> QED BY <1>c, <2>1 DEF SessionInv, Scanning, Observation, Extended
  <1>4. Failing(t)'
    <2> SUFFICES ASSUME t \in Scanners,
                        pc[t] \in {"propose", "attach", "submit"} \/ (pc[t] = "add" /\ ~c.cancels)
                 PROVE  Failing(t)'
      BY <1>c DEF Failing
    <2>1. CASE pc[t] \in {"attach", "add"}
      <3>1. c.work \in Works /\ c.expected \in 1..Len(history[c.work])
        BY <1>c, <2>1 DEF SessionInv, CallTyped
      <3>2. history'[c.work][c.expected] = history[c.work][c.expected] /\ history[c.work] # <<>>
        BY <3>1, <1>i
      <3>3. request'[c.work] = request[c.work]
        BY <3>1, <3>2 DEF Extended
      <3> QED BY <1>c, <2>1, <3>2, <3>3 DEF SessionInv, Failing, FailOf, Observation
    <2> QED BY <1>c, <2>1 DEF SessionInv, Failing, Observation
  <1>5. Cancelling(t)'
    <2> SUFFICES ASSUME t \in Scanners, pc[t] = "cancel" \/ (pc[t] = "add" /\ c.cancels)
                 PROVE  Cancelling(t)'
      BY <1>c DEF Cancelling
    <2>1. c.work \in Works /\ c.expected \in 1..Len(history[c.work])
      BY <1>c DEF SessionInv, CallTyped
    <2>2. ASSUME c.expected = Len(history'[c.work]), NEW f \in tracked', f[2] = c.work
          PROVE  f[1].at < Observation(t).at
      <3>1. c.expected = Len(history[c.work]) /\ ~(Len(history[c.work]) < Len(history'[c.work]))
        BY <1>l, <2>1, <2>2
      <3>2. f \in tracked
        BY <2>2, <3>1 DEF Extended
      <3> QED BY <1>c, <2>2, <3>1, <3>2 DEF SessionInv, Cancelling
    <2> QED BY <1>c, <2>2 DEF SessionInv, Cancelling, Observation
  <1> QED BY <1>1, <1>2, <1>3, <1>4, <1>5 DEF SessionInv

\* A step of s that writes no work keeps what was recorded, and all that is left to
\* show is what s itself relies on.
LEMMA Quiet ==
    ASSUME HealthInv, NEW s \in Sessions, OnlyOf(s), SessionInv(s)',
           UNCHANGED <<history, request, tracked, superseding, unseen>>,
           observations \subseteq observations', observations' \subseteq Reported,
           sweeps' \in 0..MaxSweeps,
           pc'[s] = "submit" => \A t \in Sessions \ {s} : pc[t] = "submit" => call[t].work # call'[s].work
    PROVE  HealthInv'
  <1>1. Extended
    BY DEF HealthInv, HealthTypes, Extended, Current
  <1>2. HealthTypes'
    BY DEF HealthInv, HealthTypes, OnlyOf
  <1>3. ASSUME NEW t \in Sessions \ {s} PROVE SessionInv(t)'
    <2>1. pc[t] = "submit" => history'[call[t].work] = <<>>
      BY DEF HealthInv, SessionInv, FirstInHand
    <2> QED BY <1>1, <2>1, Others DEF HealthInv, OnlyOf
  <1>4. IdsDistinct'
    BY DEF HealthInv, IdsDistinct, OnlyOf
  <1>5. RecordedInv'
    BY DEF HealthInv, RecordedInv, FailOf, Current, Listed
  <1>6. SupersededByNewer'
    BY DEF HealthInv, SupersededByNewer
  <1>7. DuplicatesOnlyByRace'
    <2>1. CurrentWork' = CurrentWork
      BY DEF CurrentWork, Listed, Current
    <2> QED BY <2>1 DEF HealthInv, DuplicatesOnlyByRace
  <1> QED BY <1>2, <1>3, <1>4, <1>5, <1>6, <1>7 DEF HealthInv

LEMMA SmallestIn ==
    ASSUME NEW S, S \subseteq Nat, S # {}
    PROVE  \E m \in S : \A n \in S : m <= n
  <1> DEFINE R == {ss \in Nat \X Nat : ss[1] < ss[2]}
  <1>1. IsWellFoundedOn(R, Nat)
    BY NatLessThanWellFounded DEF OpToRel
  <1> HIDE DEF R
  <1>2. PICK m \in S : \A n \in S : <<n, m>> \notin R
    BY <1>1, WFMin
  <1>3. \A n \in S : ~(n < m)
    BY <1>2 DEF R
  <1> QED BY <1>3

\* list_work has a first entry among those that are looked for.
LEMMA FirstOfIn ==
    ASSUME NEW ws, ws \subseteq Works, ws # {}
    PROVE  FirstOf(ws) \in ws
  <1> DEFINE ranks == {Rank[w] : w \in ws}
  <1>1. ranks \subseteq Nat /\ ranks # {}
    BY HealthAssumption
  <1>2. PICK m \in ranks : \A n \in ranks : m <= n
    BY <1>1, SmallestIn
  <1>3. \E w \in ws : \A v \in ws : Rank[w] <= Rank[v]
    BY <1>2
  <1> QED BY <1>3 DEF FirstOf

LEMMA FirstItemIn ==
    ASSUME HealthTypes, NEW s \in Sessions, sweep[s].items # {}
    PROVE  FirstItem(s) \in sweep[s].items
  <1>1. \A i \in sweep[s].items : i[1] \in Works
    BY DEF HealthTypes, SweepTypes
  <1> DEFINE ranks == {Rank[i[1]] : i \in sweep[s].items}
  <1>2. ranks \subseteq Nat /\ ranks # {}
    BY <1>1, HealthAssumption
  <1>3. PICK m \in ranks : \A n \in ranks : m <= n
    BY <1>2, SmallestIn
  <1>4. \E i \in sweep[s].items : \A j \in sweep[s].items : Rank[i[1]] <= Rank[j[1]]
    BY <1>3
  <1> QED BY <1>4 DEF FirstItem

\* A health proposal has no capability, so what it duplicates is of its finding and
\* repository.
LEMMA HealthDuplicate ==
    ASSUME NEW o, NEW w \in Duplicates(HealthProposal(o)), o.outcome = "FAIL"
    PROVE  FailOf(o, w)
  <1> DEFINE q == HealthProposal(o)
  <1>1. q.capability = <<>> /\ q.finding = o.finding /\ q.repos = {o.repo}
    BY DEF HealthProposal
  <1>2. Exact(q, request[w])
    BY DEF Duplicates
  <1>3. request[w].finding = q.finding /\ SameRepo(q, request[w])
    BY <1>1, <1>2 DEF Exact, Comparable
  <1>4. q.repos \cap request[w].repos # {}
    BY <1>3 DEF SameRepo
  <1>5. o.repo \in request[w].repos
    BY <1>1, <1>4
  <1> QED BY <1>1, <1>3, <1>5 DEF FailOf

\* What propose_work has in hand after it has read the store.
LEMMA Classified ==
    ASSUME HealthInv, NEW s \in Sessions, NEW q, Classify(s, q)
    PROVE  \/ \E w \in Duplicates(q) :
                 /\ Proceed(s, "attach", [work |-> w, expected |-> Len(history[w])])
                 /\ w \in Works /\ history[w] # <<>> /\ Current(w).coordination \in OpenStates
           \/ \E w \in FreshIds(q), c \in {"AVAILABLE", "NEEDS_RECONCILIATION"} :
                 /\ Proceed(s, "submit",
                            [work |-> w, request |-> q, seen |-> Listed,
                             next |-> [state |-> "submitted", claim |-> NoOne, coordination |-> c]])
                 /\ c = "AVAILABLE" => Duplicates(q) = {}
  <1>1. CASE Duplicates(q) # {} /\ ~Reconcile(q)
    <2>1. Duplicates(q) \subseteq Works
      BY DEF Duplicates, CurrentWork, Listed
    <2>2. FirstOf(Duplicates(q)) \in Duplicates(q)
      BY <1>1, <2>1, FirstOfIn
    <2>3. PICK w \in Duplicates(q) : w = FirstOf(Duplicates(q))
      BY <2>2
    <2>4. w \in Works /\ history[w] # <<>> /\ Current(w).coordination \in OpenStates
      BY <2>3 DEF Duplicates, CurrentWork, Listed
    <2>5. Proceed(s, "attach", [work |-> w, expected |-> Len(history[w])])
      BY <1>1, <2>3 DEF Classify
    <2> QED BY <2>4, <2>5
  <1>2. CASE ~(Duplicates(q) # {} /\ ~Reconcile(q))
    <2> DEFINE c == IF Reconcile(q) THEN "NEEDS_RECONCILIATION" ELSE "AVAILABLE"
    <2>1. PICK w \in FreshIds(q) :
            Proceed(s, "submit",
                    [work |-> w, request |-> q, seen |-> Listed,
                     next |-> [state |-> "submitted", claim |-> NoOne, coordination |-> c]])
      BY <1>2 DEF Classify
    <2>2. c \in {"AVAILABLE", "NEEDS_RECONCILIATION"}
      OBVIOUS
    <2>3. c = "AVAILABLE" => Duplicates(q) = {}
      BY <1>2
    <2> HIDE DEF c
    <2> QED BY <2>1, <2>2, <2>3
  <1> QED BY <1>1, <1>2

\* The steps that only move a call, only a sweep, or both.
LEMMA Moves ==
    ASSUME HealthTypes, NEW s \in Sessions
    PROVE  /\ \A p \in HealthPoints : \A c : Proceed(s, p, c) /\ UNCHANGED sweep =>
                OnlyOf(s) /\ pc'[s] = p /\ call'[s] = c
           /\ \A x \in SweepTypes : sweep' = [sweep EXCEPT ![s] = x] /\ UNCHANGED <<pc, call>> =>
                OnlyOf(s) /\ sweep'[s] = x
           /\ \A p \in HealthPoints, x \in SweepTypes :
                pc' = [pc EXCEPT ![s] = p] /\ UNCHANGED call /\ sweep' = [sweep EXCEPT ![s] = x] =>
                  OnlyOf(s) /\ pc'[s] = p /\ sweep'[s] = x
           /\ \A x \in SweepTypes : Return(s) /\ sweep' = [sweep EXCEPT ![s] = x] =>
                OnlyOf(s) /\ pc'[s] = "idle" /\ call'[s] = NoCall /\ sweep'[s] = x
           /\ Return(s) /\ UNCHANGED sweep => OnlyOf(s) /\ pc'[s] = "idle" /\ call'[s] = NoCall
           /\ NoSweep \in SweepTypes
  <1>1. ASSUME NEW p \in HealthPoints, NEW c, Proceed(s, p, c), UNCHANGED sweep
        PROVE  OnlyOf(s) /\ pc'[s] = p /\ call'[s] = c
    BY <1>1 DEF HealthTypes, OnlyOf, Proceed
  <1>2. ASSUME NEW x \in SweepTypes, sweep' = [sweep EXCEPT ![s] = x], UNCHANGED <<pc, call>>
        PROVE  OnlyOf(s) /\ sweep'[s] = x
    BY <1>2 DEF HealthTypes, OnlyOf
  <1>3. ASSUME NEW p \in HealthPoints, NEW x \in SweepTypes,
               pc' = [pc EXCEPT ![s] = p], UNCHANGED call, sweep' = [sweep EXCEPT ![s] = x]
        PROVE  OnlyOf(s) /\ pc'[s] = p /\ sweep'[s] = x
    BY <1>3 DEF HealthTypes, OnlyOf
  <1>4. ASSUME NEW x \in SweepTypes, Return(s), sweep' = [sweep EXCEPT ![s] = x]
        PROVE  OnlyOf(s) /\ pc'[s] = "idle" /\ call'[s] = NoCall /\ sweep'[s] = x
    BY <1>4 DEF HealthTypes, OnlyOf, Return, HealthPoints
  <1>5. ASSUME Return(s), UNCHANGED sweep
        PROVE  OnlyOf(s) /\ pc'[s] = "idle" /\ call'[s] = NoCall
    BY <1>5 DEF HealthTypes, OnlyOf, Return, HealthPoints
  <1>6. NoSweep \in SweepTypes
    BY DEF NoSweep, SweepTypes
  <1> QED BY <1>1, <1>2, <1>3, <1>4, <1>5, <1>6

\* A call that ends has nothing in hand; an error ends the sweep with it.
LEMMA Ended ==
    ASSUME HealthInv, NEW s \in Sessions, Return(s),
           sweep' = [sweep EXCEPT ![s] = NoSweep] \/ (UNCHANGED sweep /\ sweep[s] = NoSweep),
           UNCHANGED <<history, request, tracked, superseding, unseen, observations, sweeps>>
    PROVE  HealthInv'
  <1>1. OnlyOf(s) /\ pc'[s] = "idle" /\ sweep'[s] = NoSweep
    BY Moves DEF HealthInv
  <1>2. SessionInv(s)'
    <2>1. sweep'[s].items = {}
      BY <1>1 DEF NoSweep
    <2> QED BY <1>1, <2>1 DEF SessionInv, CallTyped, FirstInHand, Scanning, Failing, Cancelling
  <1> QED BY <1>1, <1>2, Quiet DEF HealthInv, HealthTypes

\* propose_work reads the store: of a worker, or of a scanner that has a FAIL in hand.
LEMMA ClassifyStep ==
    ASSUME HealthInv, NEW s \in Sessions, NEW q, Classify(s, q), pc[s] \in {"idle", "propose"},
           s \in Scanners => /\ pc[s] = "propose"
                             /\ q = HealthProposal(Observation(s)),
           UNCHANGED <<history, request, claims, submissions>>, UNCHANGED healthVars
    PROVE  HealthInv'
  <1> PICK o : o = Observation(s)
    OBVIOUS
  <1>o. Observation(s)' = o
    BY DEF Observation, healthVars
  <1>s. s \in Scanners => /\ sweep[s].todo # <<>> /\ o \in observations /\ o.outcome = "FAIL"
                          /\ q = HealthProposal(o)
    BY DEF HealthInv, SessionInv, Scanning, Failing
  <1>u. UNCHANGED <<sweep, observations, sweeps, tracked, superseding, unseen>>
    BY DEF healthVars
  <1>i. \A i \in sweep'[s].items : i[2] \in 1..Len(history'[i[1]])
    BY <1>u DEF HealthInv, SessionInv, Scanning
  <1>n. s \notin Scanners => sweep'[s] = NoSweep
    BY <1>u DEF HealthInv, SessionInv, Scanning
  <1>1. ASSUME NEW w \in Duplicates(q),
               Proceed(s, "attach", [work |-> w, expected |-> Len(history[w])]),
               w \in Works, history[w] # <<>>, Current(w).coordination \in OpenStates
        PROVE  HealthInv'
    <2>1. OnlyOf(s) /\ pc'[s] = "attach" /\ call'[s] = [work |-> w, expected |-> Len(history[w])]
      BY <1>1, <1>u, Moves DEF HealthInv, HealthPoints
    <2>2. call'[s].work = w /\ call'[s].expected = Len(history[w])
      BY <2>1
    <2>3. Len(history[w]) \in Nat \ {0} /\ history[w][Len(history[w])] = Current(w)
      BY <1>1, HealthCurrent DEF HealthInv
    <2>4. CallTyped(s)'
      BY <1>1, <2>1, <2>2, <2>3 DEF CallTyped
    <2>5. Scanning(s)'
      BY <1>i, <1>n, <1>o, <1>s, <1>u, <2>1 DEF Scanning
    <2>6. Failing(s)'
      <3>1. s \in Scanners => FailOf(o, w)
        BY <1>s, <1>1, HealthDuplicate
      <3>2. s \in Scanners => FailOf(o, w)'
        BY <3>1 DEF FailOf
      <3> QED BY <1>o, <1>s, <1>1, <2>1, <2>2, <2>3, <3>2 DEF Failing
    <2>7. SessionInv(s)'
      BY <2>1, <2>4, <2>5, <2>6 DEF SessionInv, FirstInHand, Cancelling
    <2> QED BY <1>u, <2>1, <2>7, Quiet DEF HealthInv, HealthTypes
  <1>2. ASSUME NEW w \in FreshIds(q), NEW c \in {"AVAILABLE", "NEEDS_RECONCILIATION"},
               Proceed(s, "submit",
                       [work |-> w, request |-> q, seen |-> Listed,
                        next |-> [state |-> "submitted", claim |-> NoOne, coordination |-> c]]),
               c = "AVAILABLE" => Duplicates(q) = {}
        PROVE  HealthInv'
    <2>1. /\ OnlyOf(s) /\ pc'[s] = "submit"
          /\ call'[s] = [work |-> w, request |-> q, seen |-> Listed,
                         next |-> [state |-> "submitted", claim |-> NoOne, coordination |-> c]]
      BY <1>2, <1>u, Moves DEF HealthInv, HealthPoints
    <2>2. /\ call'[s].work = w /\ call'[s].request = q /\ call'[s].seen = Listed
          /\ call'[s].next = [state |-> "submitted", claim |-> NoOne, coordination |-> c]
      BY <2>1
    <2>3. call'[s].next \in Revisions /\ call'[s].next.state = "submitted" /\ call'[s].next.coordination = c
      BY <2>2 DEF Revisions, WorkStates, CoordinationStates
    <2>4. w \in Works /\ history[w] = <<>> /\ \A t \in Sessions : pc[t] = "submit" => call[t].work # w
      BY <1>2 DEF FreshIds
    <2>5. Listed' = Listed /\ CurrentWork' = CurrentWork
      BY DEF Listed, CurrentWork, Current
    <2>6. c = "AVAILABLE" => \A v \in Listed \cap CurrentWork : ~Exact(q, request[v])
      BY <1>2 DEF Duplicates
    <2>7. FirstInHand(s)'
      BY <2>1, <2>2, <2>3, <2>4, <2>5, <2>6 DEF FirstInHand
    <2>8. Scanning(s)'
      BY <1>i, <1>n, <1>o, <1>s, <1>u, <2>1 DEF Scanning
    <2>9. Failing(s)'
      BY <1>o, <1>s, <2>1, <2>2 DEF Failing
    <2>10. SessionInv(s)'
      BY <2>1, <2>7, <2>8, <2>9 DEF SessionInv, CallTyped, Cancelling
    <2> QED BY <1>u, <2>1, <2>2, <2>4, <2>10, Quiet DEF HealthInv, HealthTypes
  <1> QED BY <1>1, <1>2, Classified

\* A sequence of observations is used up from its head.
LEMMA TodoType ==
    ASSUME HealthTypes, NEW s \in Sessions, sweep[s].todo # <<>>
    PROVE  /\ Observation(s) \in Reported
           /\ Tail(sweep[s].todo) \in Seq(Reported)
           /\ Advanced(sweep[s]) \in SweepTypes
           /\ Advanced(sweep[s]).items = {}
  <1>1. sweep[s] \in SweepTypes
    BY DEF HealthTypes
  <1>2. sweep[s].todo \in Seq(Reported)
    BY <1>1 DEF SweepTypes
  <1>3. Head(sweep[s].todo) \in Reported /\ Tail(sweep[s].todo) \in Seq(Reported)
    BY <1>2
  <1> QED BY <1>1, <1>3 DEF Observation, Advanced, SweepTypes

\* A scanner between two observations, with nothing in hand.
LEMMA Between ==
    ASSUME NEW s \in Sessions, pc'[s] = "idle", sweep'[s].items = {}, s \in Scanners \/ sweep'[s] = NoSweep
    PROVE  SessionInv(s)'
  BY DEF SessionInv, CallTyped, FirstInHand, Scanning, Failing, Cancelling

LEMMA StartSweepStep ==
    ASSUME HealthInv, NEW s \in Sessions, NEW todo \in Sweeps, StartSweep(s, todo)
    PROVE  HealthInv'
  <1> DEFINE x == [NoSweep EXCEPT !.todo = todo]
  <1>1. x \in SweepTypes /\ x.items = {}
    BY HealthAssumption DEF NoSweep, SweepTypes
  <1>2. pc[s] = "idle" /\ UNCHANGED <<pc, call>> /\ sweep' = [sweep EXCEPT ![s] = x] /\ s \in Scanners
    BY DEF StartSweep, vars
  <1> HIDE DEF x
  <1>3. OnlyOf(s) /\ sweep'[s] = x
    BY <1>1, <1>2, Moves DEF HealthInv
  <1>4. SessionInv(s)'
    BY <1>1, <1>2, <1>3, Between
  <1>5. sweeps' \in 0..MaxSweeps
    BY HealthAssumption DEF HealthInv, HealthTypes, StartSweep
  <1>6. UNCHANGED <<history, request, tracked, superseding, unseen, observations>>
    BY DEF StartSweep, vars
  <1> QED BY <1>2, <1>3, <1>4, <1>5, <1>6, Quiet DEF HealthInv, HealthTypes

LEMMA EndSweepStep ==
    ASSUME HealthInv, NEW s \in Sessions, EndSweep(s)
    PROVE  HealthInv'
  <1>1. pc[s] = "idle" /\ UNCHANGED <<pc, call>> /\ sweep' = [sweep EXCEPT ![s] = NoSweep]
    BY DEF EndSweep, vars
  <1>2. OnlyOf(s) /\ sweep'[s] = NoSweep
    BY <1>1, Moves DEF HealthInv
  <1>3. NoSweep.items = {}
    BY DEF NoSweep
  <1>4. SessionInv(s)'
    BY <1>1, <1>2, <1>3, Between
  <1>5. UNCHANGED <<history, request, tracked, superseding, unseen, observations, sweeps>>
    BY DEF EndSweep, vars
  <1> QED BY <1>1, <1>2, <1>4, <1>5, Quiet DEF HealthInv, HealthTypes

\* The observation is in the store before anything is done about it.
LEMMA PublishStep ==
    ASSUME HealthInv, NEW s \in Sessions, Publish(s)
    PROVE  HealthInv'
  <1> PICK o : o = Observation(s)
    OBVIOUS
  <1>u. /\ UNCHANGED <<history, request, tracked, superseding, unseen, sweeps>>
        /\ pc[s] = "idle" /\ sweep[s].todo # <<>> /\ sweep[s].items = {}
    BY DEF Publish
  <1>t. HealthTypes /\ sweep[s] \in SweepTypes
    BY DEF HealthInv, HealthTypes
  <1>s. s \in Scanners
    BY <1>u DEF HealthInv, SessionInv, Scanning, NoSweep
  <1>o. o \in Reported /\ Tail(sweep[s].todo) \in Seq(Reported)
    BY <1>t, <1>u, TodoType
  <1>1. CASE Raise(s) /\ UNCHANGED observations
    BY <1>1, <1>u, Ended DEF Raise
  <1>2. CASE Key(o) \notin sweep[s].keys
    <2> DEFINE x == [sweep[s] EXCEPT !.keys = @ \cup {Key(o)},
                                     !.todo = IF o.outcome = "UNKNOWN" THEN Tail(@) ELSE @]
               p == CASE o.outcome = "FAIL" -> "propose" [] o.outcome = "PASS" -> "list" [] OTHER -> "idle"
    <2>1. /\ observations' = observations \cup {o}
          /\ sweep' = [sweep EXCEPT ![s].keys = @ \cup {Key(o)},
                                    ![s].todo = IF o.outcome = "UNKNOWN" THEN Tail(@) ELSE @]
          /\ pc' = [pc EXCEPT ![s] = p]
          /\ UNCHANGED call
      BY <1>2 DEF Publish, Published
    <2>2. x \in SweepTypes
      BY <1>o, <1>t DEF SweepTypes
    <2>3. sweep' = [sweep EXCEPT ![s] = x]
      BY <2>1, <1>t DEF HealthTypes, SweepTypes
    <2>4. x.items = {} /\ (o.outcome # "UNKNOWN" => x.todo = sweep[s].todo)
      BY <1>t, <1>u DEF SweepTypes
    <2>5. /\ p \in {"propose", "list", "idle"}
          /\ p = "propose" => o.outcome = "FAIL"
          /\ p # "idle" => o.outcome # "UNKNOWN"
      OBVIOUS
    <2> HIDE DEF x, p
    <2>6. OnlyOf(s) /\ pc'[s] = p /\ sweep'[s] = x
      BY <1>t, <2>1, <2>2, <2>3, <2>5, Moves DEF HealthPoints
    <2>7. p # "idle" => Observation(s)' = o /\ sweep'[s].todo # <<>>
      BY <1>u, <2>4, <2>5, <2>6 DEF Observation
    <2>8. SessionInv(s)'
      <3>1. Scanning(s)'
        BY <1>s, <2>1, <2>4, <2>5, <2>6, <2>7 DEF Scanning
      <3>2. Failing(s)'
        BY <1>s, <2>5, <2>6, <2>7 DEF Failing
      <3> QED BY <3>1, <3>2, <2>5, <2>6 DEF SessionInv, CallTyped, FirstInHand, Cancelling
    <2>9. observations \subseteq observations' /\ observations' \subseteq Reported
      BY <1>o, <1>t, <2>1 DEF HealthTypes
    <2> QED BY <1>t, <1>u, <2>5, <2>6, <2>8, <2>9, Quiet DEF HealthTypes
  <1> QED BY <1>1, <1>2 DEF Publish

\* The listed items name revisions that are there.
LEMMA PassListStep ==
    ASSUME HealthInv, NEW s \in Sessions, PassList(s)
    PROVE  HealthInv'
  <1> DEFINE vs == {v \in Listed : /\ Current(v).coordination = "AVAILABLE"
                                   /\ request[v].lane = Hygiene
                                   /\ request[v].finding = Observation(s).finding
                                   /\ Observation(s).repo \in request[v].repos}
             items == {<<w, Len(history[w])>> : w \in vs}
             x == IF items = {} THEN Advanced(sweep[s]) ELSE [sweep[s] EXCEPT !.items = items]
  <1>t. HealthTypes /\ sweep[s] \in SweepTypes
    BY DEF HealthInv, HealthTypes
  <1>v. \A w \in vs : w \in Works /\ history[w] # <<>>
    BY DEF Listed
  <1>u. /\ UNCHANGED <<history, request, tracked, superseding, unseen, observations, sweeps>>
        /\ pc[s] = "list" /\ UNCHANGED call
        /\ pc' = [pc EXCEPT ![s] = "idle"] /\ sweep' = [sweep EXCEPT ![s] = x]
    BY DEF PassList
  <1>s. s \in Scanners /\ sweep[s].todo # <<>> /\ Observation(s) \in observations
    BY <1>u DEF HealthInv, SessionInv, Scanning
  <1> HIDE DEF vs
  <1>w. \A w \in vs : Len(history[w]) \in Nat \ {0}
    BY <1>t, <1>v, HealthCurrent
  <1>i. /\ items \subseteq Works \X Nat
        /\ \A i \in items : i[2] \in 1..Len(history[i[1]])
    BY <1>v, <1>w
  <1> HIDE DEF items
  <1>1. x \in SweepTypes /\ (items = {} => x.items = {}) /\ (items # {} => x.items = items /\ x.todo = sweep[s].todo)
    BY <1>i, <1>s, <1>t, TodoType DEF SweepTypes
  <1> HIDE DEF x
  <1>2. OnlyOf(s) /\ pc'[s] = "idle" /\ sweep'[s] = x
    BY <1>t, <1>u, <1>1, Moves DEF HealthPoints
  <1>3. SessionInv(s)'
    <2>1. CASE items = {}
      BY <1>s, <1>1, <1>2, <2>1, Between
    <2>2. CASE items # {}
      <3>1. Observation(s)' = Observation(s) /\ sweep'[s].todo # <<>>
        BY <1>s, <1>1, <1>2, <2>2 DEF Observation
      <3>2. Scanning(s)'
        BY <1>i, <1>s, <1>u, <1>1, <1>2, <2>2, <3>1 DEF Scanning
      <3> QED BY <1>2, <3>2 DEF SessionInv, CallTyped, FirstInHand, Failing, Cancelling
    <2> QED BY <2>1, <2>2
  <1> QED BY <1>t, <1>u, <1>2, <1>3, Quiet DEF HealthTypes

\* The scan of the store behind a cancellation sees every FAIL that was tracked on
\* the work, for a FAIL is published before it is tracked.
LEMMA PassScanStep ==
    ASSUME HealthInv, NEW s \in Sessions, PassScan(s)
    PROVE  HealthInv'
  <1> PICK item : item = FirstItem(s)
    OBVIOUS
  <1> PICK o : o = Observation(s)
    OBVIOUS
  <1>t. HealthTypes /\ sweep[s] \in SweepTypes
    BY DEF HealthInv, HealthTypes
  <1>u. /\ UNCHANGED <<history, request, tracked, superseding, unseen, observations, sweeps>>
        /\ pc[s] = "idle" /\ sweep[s].items # {}
    BY DEF PassScan
  <1>s. s \in Scanners /\ sweep[s].todo # <<>> /\ o \in observations
    BY <1>u DEF HealthInv, SessionInv, Scanning, NoSweep
  <1>i. item \in sweep[s].items
    BY <1>t, <1>u, FirstItemIn
  <1>j. \A i \in sweep[s].items : i[1] \in Works /\ i[2] \in 1..Len(history[i[1]])
    BY <1>t DEF HealthInv, SessionInv, Scanning, SweepTypes
  <1>1. CASE /\ Supersedes(o, item[1])
             /\ Proceed(s, "cancel", [work |-> item[1], expected |-> item[2]])
             /\ UNCHANGED sweep
    <2>1. OnlyOf(s) /\ pc'[s] = "cancel" /\ call'[s] = [work |-> item[1], expected |-> item[2]]
      BY <1>t, <1>1, Moves DEF HealthPoints
    <2>2. call'[s].work = item[1] /\ call'[s].expected = item[2]
      BY <2>1
    <2>3. Observation(s)' = o
      BY <1>1 DEF Observation
    <2>4. ASSUME NEW f \in tracked, f[2] = item[1] PROVE f[1].at < o.at
      <3>1. f[1] \in observations /\ FailOf(f[1], item[1])
        BY <2>4 DEF HealthInv, RecordedInv
      <3> QED BY <1>1, <3>1 DEF Supersedes, FailOf
    <2>5. Scanning(s)'
      BY <1>j, <1>s, <1>u, <1>1, <2>1, <2>3 DEF Scanning
    <2>6. CallTyped(s)'
      BY <1>i, <1>j, <1>u, <2>1, <2>2 DEF CallTyped
    <2>7. Cancelling(s)'
      BY <1>u, <2>1, <2>2, <2>3, <2>4 DEF Cancelling
    <2>8. SessionInv(s)'
      BY <2>1, <2>5, <2>6, <2>7 DEF SessionInv, FirstInHand, Failing
    <2> QED BY <1>t, <1>u, <2>1, <2>8, Quiet DEF HealthTypes
  <1>2. CASE sweep' = ItemDone(s, item) /\ UNCHANGED <<pc, call>>
    <2> DEFINE rest == sweep[s].items \ {item}
               x == IF rest = {} THEN Advanced(sweep[s]) ELSE [sweep[s] EXCEPT !.items = rest]
    <2>1. sweep' = [sweep EXCEPT ![s] = x]
      BY <1>2 DEF ItemDone
    <2>2. /\ x \in SweepTypes /\ x.items \subseteq sweep[s].items
          /\ x.items # {} => x.todo = sweep[s].todo
      BY <1>s, <1>t, TodoType DEF SweepTypes
    <2> HIDE DEF x
    <2>3. OnlyOf(s) /\ sweep'[s] = x
      BY <1>t, <1>2, <2>1, <2>2, Moves
    <2>4. Scanning(s)'
      BY <1>j, <1>s, <1>u, <1>2, <2>2, <2>3 DEF Scanning, Observation
    <2>5. SessionInv(s)'
      BY <1>u, <1>2, <2>4 DEF SessionInv, CallTyped, FirstInHand, Failing, Cancelling
    <2> QED BY <1>t, <1>u, <1>2, <2>3, <2>5, Quiet DEF HealthTypes
  <1> QED BY <1>1, <1>2 DEF PassScan

\* What transition_work makes of a revision may follow it.
LEMMA RevisedFollows ==
    ASSUME NEW w \in Works, NEW r, NEW t, MayRevise(w, r, t)
    PROVE  Follows(Revised(r, t), r)
  BY DEF MayRevise, Follows

LEMMA TransitionTypes ==
    {AttachTransition, CancelTransition} \subseteq
        [state : WorkStates \cup {Unset}, coordination : CoordinationStates \cup {Unset},
         claim : Actors \cup {NoOne, Unset}, attachments : BOOLEAN]
  BY DEF AttachTransition, CancelTransition, WorkStates, CoordinationStates

\* transition_work for an attachment or a cancellation.
LEMMA TransitStep ==
    ASSUME HealthInv, NEW s \in Sessions, Transit(s)
    PROVE  HealthInv'
  <1> PICK c : c = call[s]
    OBVIOUS
  <1> PICK w : w = c.work
    OBVIOUS
  <1> PICK t : t = Transition(s)
    OBVIOUS
  <1>t. HealthTypes
    BY DEF HealthInv
  <1>u. /\ UNCHANGED <<history, request, tracked, superseding, unseen, observations, sweeps>>
        /\ pc[s] \in {"attach", "cancel"}
    BY DEF Transit
  <1>w. w \in Works /\ c.expected \in 1..Len(history[w])
    BY <1>u DEF HealthInv, SessionInv, CallTyped
  <1>h. history[w] # <<>> /\ history[w] \in Seq(Revisions)
    BY <1>t, <1>w DEF HealthTypes
  <1>1. CASE Raise(s)
    BY <1>1, <1>u, Ended DEF Raise
  <1>2. CASE MayTransit(s) /\ UNCHANGED sweep
    <2>1. PICK d : d = [work |-> w, expected |-> Len(history[w]), claiming |-> FALSE,
                        next |-> Revised(Current(w), t), cancels |-> pc[s] = "cancel"]
      OBVIOUS
    <2>2. \/ Proceed(s, "add", d)
          \/ Raise(s)
      BY <1>2, <2>1 DEF Transit
    <2>3. CASE Proceed(s, "add", d)
      <3>1. OnlyOf(s) /\ pc'[s] = "add" /\ call'[s] = d
        BY <1>t, <1>2, <2>3, Moves DEF HealthPoints
      <3>2. Len(history[w]) = c.expected /\ MayRevise(w, Current(w), t)
        BY <1>2 DEF MayTransit
      <3>3. /\ Len(history[w]) \in Nat \ {0} /\ Current(w) = history[w][Len(history[w])]
            /\ Current(w) \in Revisions
        BY <1>t, <1>w, <1>h, HealthCurrent
      <3>4. t \in {AttachTransition, CancelTransition}
        BY DEF Transition
      <3>5. Revised(Current(w), t) \in Revisions /\ Follows(Revised(Current(w), t), Current(w))
        BY <1>w, <3>2, <3>3, <3>4, TransitionTypes, RevisedType, RevisedFollows
      <3>6. /\ d.work = w /\ d.expected = Len(history[w]) /\ d.next = Revised(Current(w), t)
            /\ d.cancels = (pc[s] = "cancel")
        BY <2>1
      <3>7. d.cancels \in BOOLEAN /\ (d.cancels <=> pc[s] = "cancel")
        BY <3>6
      <3>8. CallTyped(s)'
        BY <1>w, <1>u, <3>1, <3>3, <3>5, <3>6 DEF CallTyped
      <3>9. Observation(s)' = Observation(s)
        BY <1>2 DEF Observation
      <3>10. Scanning(s)'
        <4>1. s \in Scanners => sweep[s].todo # <<>> /\ Observation(s) \in observations
          BY <1>u DEF HealthInv, SessionInv, Scanning
        <4>2. s \notin Scanners => sweep'[s] = NoSweep
          BY <1>2 DEF HealthInv, SessionInv, Scanning
        <4>3. \A i \in sweep'[s].items : i[2] \in 1..Len(history'[i[1]])
          BY <1>2, <1>u DEF HealthInv, SessionInv, Scanning
        <4> QED BY <1>u, <1>2, <3>1, <3>7, <3>9, <4>1, <4>2, <4>3 DEF Scanning
      <3>11. Failing(s)'
        <4> SUFFICES ASSUME s \in Scanners, pc[s] = "attach" PROVE Failing(s)'
          BY <1>u, <3>1, <3>7 DEF Failing
        <4>1. /\ Observation(s).outcome = "FAIL" /\ FailOf(Observation(s), w)
              /\ history[w][c.expected].coordination \in OpenStates
          BY DEF HealthInv, SessionInv, Failing
        <4>2. FailOf(Observation(s), w)'
          BY <1>u, <3>9, <4>1 DEF FailOf
        <4> QED BY <1>u, <3>1, <3>2, <3>6, <3>9, <4>1, <4>2 DEF Failing
      <3>12. Cancelling(s)'
        <4> SUFFICES ASSUME s \in Scanners, pc[s] = "cancel" PROVE Cancelling(s)'
          BY <1>u, <3>1, <3>7 DEF Cancelling
        <4>1. t = CancelTransition
          BY DEF Transition
        <4>2. Revised(Current(w), t).coordination = "SUPERSEDED"
          BY <4>1, WorkAssumption DEF CancelTransition, Revised, TargetCoordination, CoordinationStates
        <4>3. \A f \in tracked : f[2] = w => f[1].at < Observation(s).at
          BY <3>2 DEF HealthInv, SessionInv, Cancelling
        <4> QED BY <1>u, <3>1, <3>6, <3>9, <4>2, <4>3 DEF Cancelling
      <3>13. SessionInv(s)'
        BY <3>1, <3>8, <3>10, <3>11, <3>12 DEF SessionInv, FirstInHand
      <3> QED BY <1>t, <1>u, <3>1, <3>13, Quiet DEF HealthTypes
    <2>4. CASE Raise(s)
      BY <2>4, <1>u, Ended DEF Raise
    <2> QED BY <2>2, <2>3, <2>4
  <1> QED BY <1>1, <1>2 DEF Transit

\* A worker goes on with a call that names a revision of its work.
LEMMA WorkerStep ==
    ASSUME HealthInv, NEW s \in Sessions \ Scanners, NEW p \in {"active", "revise", "add"}, NEW c,
           Proceed(s, p, c), UNCHANGED <<history, request, claims, submissions>>, UNCHANGED healthVars,
           c.work \in Works, c.expected \in 1..Len(history[c.work]),
           p = "add" => c.next \in Revisions /\ Follows(c.next, history[c.work][c.expected])
    PROVE  HealthInv'
  <1>1. UNCHANGED <<history, request, tracked, superseding, unseen, observations, sweeps, sweep>>
    BY DEF healthVars
  <1>2. OnlyOf(s) /\ pc'[s] = p /\ call'[s] = c
    BY <1>1, Moves DEF HealthInv, HealthPoints
  <1>3. sweep'[s] = NoSweep /\ sweep'[s].items = {}
    BY <1>1 DEF HealthInv, SessionInv, Scanning, NoSweep
  <1>4. CallTyped(s)'
    BY <1>1, <1>2 DEF CallTyped
  <1>5. Scanning(s)'
    BY <1>1, <1>2, <1>3 DEF Scanning
  <1>6. SessionInv(s)'
    BY <1>2, <1>4, <1>5 DEF SessionInv, FirstInHand, Failing, Cancelling
  <1> QED BY <1>1, <1>2, <1>6, Quiet DEF HealthInv, HealthTypes

LEMMA TakeNextStep ==
    ASSUME HealthInv, NEW s \in Sessions, TakeNext(s)
    PROVE  HealthInv'
  <1>1. PICK w \in NextWork : ClaimRead(s, w, Len(history[w]))
    BY DEF TakeNext
  <1>2. w \in Works
    BY DEF NextWork, Listed
  <1>3. Proceed(s, "active", [work |-> w, expected |-> Len(history[w])])
        /\ UNCHANGED <<history, request, claims, submissions>> /\ Len(history[w]) \in 1..Len(history[w])
    BY <1>1 DEF ClaimRead
  <1>4. UNCHANGED healthVars /\ s \notin Scanners
    BY DEF TakeNext
  <1> QED BY <1>2, <1>3, <1>4, WorkerStep

LEMMA ContinueClaimStep ==
    ASSUME HealthInv, NEW s \in Sessions, ContinueClaim(s)
    PROVE  HealthInv'
  <1> PICK w : w = call[s].work
    OBVIOUS
  <1>1. /\ pc[s] \in {"active", "revise"} /\ UNCHANGED healthVars
        /\ UNCHANGED <<history, request, claims, submissions>>
    BY DEF ContinueClaim, ClaimActive, ClaimRevise
  <1>2. /\ s \notin Scanners /\ sweep[s] = NoSweep
        /\ w \in Works /\ call[s].expected \in 1..Len(history[w])
    BY <1>1 DEF HealthInv, SessionInv, Scanning, CallTyped
  <1>3. CASE Return(s)
    BY <1>1, <1>2, <1>3, Ended DEF healthVars
  <1>4. CASE Proceed(s, "revise", call[s])
    BY <1>1, <1>2, <1>4, WorkerStep
  <1>5. CASE /\ call[s].expected = Len(history[w]) /\ MayRevise(w, Current(w), ClaimTransition(s))
             /\ Proceed(s, "add", [work |-> w, expected |-> call[s].expected,
                                   next |-> Revised(Current(w), ClaimTransition(s)), claiming |-> TRUE])
    <2>1. history[w] # <<>>
      BY <1>2 DEF HealthInv, HealthTypes
    <2>2. Current(w) = history[w][call[s].expected] /\ Current(w) \in Revisions
      BY <1>2, <1>5, <2>1, HealthCurrent DEF HealthInv
    <2>3. /\ Revised(Current(w), ClaimTransition(s)) \in Revisions
          /\ Follows(Revised(Current(w), ClaimTransition(s)), Current(w))
      BY <1>2, <1>5, <2>2, ClaimTransitionType, RevisedType, RevisedFollows
    <2> QED BY <1>1, <1>2, <1>5, <2>2, <2>3, WorkerStep
  <1> QED BY <1>3, <1>4, <1>5 DEF ContinueClaim, ClaimActive, ClaimRevise

LEMMA WorkStep ==
    ASSUME HealthInv, NEW s \in Sessions, Work(s)
    PROVE  HealthInv'
  <1>1. PICK w \in Works, t \in Transitions : TransitionRead(s, w, Len(history[w]), t)
    BY DEF Work
  <1>2. /\ Len(history[w]) > 0 /\ MayRevise(w, Current(w), t)
        /\ Proceed(s, "add", [work |-> w, expected |-> Len(history[w]),
                              next |-> Revised(Current(w), t), claiming |-> FALSE])
        /\ UNCHANGED <<history, request, claims, submissions>>
    BY <1>1 DEF TransitionRead
  <1>3. UNCHANGED healthVars /\ s \notin Scanners
    BY DEF Work
  <1>4. history[w] # <<>>
    BY <1>2
  <1>5. /\ Len(history[w]) \in Nat \ {0} /\ Current(w) = history[w][Len(history[w])]
        /\ Current(w) \in Revisions
    BY <1>4, HealthCurrent DEF HealthInv
  <1>6. Revised(Current(w), t) \in Revisions /\ Follows(Revised(Current(w), t), Current(w))
    BY <1>2, <1>5, WorkAssumption, RevisedType, RevisedFollows
  <1> QED BY <1>2, <1>3, <1>5, <1>6, WorkerStep

-----------------------------------------------------------------------------
\* The writes.

\* Two proposals are duplicates of one another or neither is of the other.
LEMMA ExactSymmetric ==
    ASSUME NEW q, NEW r, Exact(q, r)
    PROVE  Exact(r, q)
  <1>1. SameRepo(q, r) => SameRepo(r, q)
    BY DEF SameRepo
  <1>2. CapabilityOverlap(q.capability, r.capability) = "exact" => q.capability = r.capability
    BY DEF CapabilityOverlap
  <1>3. q.capability = r.capability => CapabilityOverlap(r.capability, q.capability) = "exact"
    BY DEF CapabilityOverlap
  <1> QED BY <1>1, <1>2, <1>3 DEF Exact, Comparable

\* A first revision is committed under an id that nobody else holds.
LEMMA SubmitStep ==
    ASSUME HealthInv, NEW s \in Sessions, Submit(s)
    PROVE  HealthInv'
  <1> PICK c : c = call[s]
    OBVIOUS
  <1> PICK w : w = c.work
    OBVIOUS
  <1> PICK r : r = c.next
    OBVIOUS
  <1> PICK o : o = Observation(s)
    OBVIOUS
  <1>t. HealthTypes /\ RecordedInv /\ IdsDistinct
    BY DEF HealthInv
  <1>p. pc[s] = "submit" /\ Return(s) /\ UNCHANGED <<observations, sweeps, superseding>>
    BY DEF Submit, SubmitAdd
  <1>f. /\ w \in Works /\ history[w] = <<>> /\ r \in Revisions
        /\ r.coordination \in {"AVAILABLE", "NEEDS_RECONCILIATION"}
        /\ c.seen \subseteq Listed
        /\ r.coordination = "AVAILABLE" =>
              \A v \in c.seen \cap CurrentWork : ~Exact(c.request, request[v])
    BY <1>p DEF HealthInv, SessionInv, FirstInHand
  <1>h. history' = [history EXCEPT ![w] = <<r>>] /\ request' = [request EXCEPT ![w] = c.request]
    BY <1>f DEF Submit, SubmitAdd
  <1>v. /\ history'[w] = <<r>> /\ request'[w] = c.request
        /\ \A v \in Works \ {w} : history'[v] = history[v] /\ request'[v] = request[v]
        /\ DOMAIN request' = Works
        /\ history' \in [Works -> Seq(Revisions)]
    BY <1>f, <1>h, <1>t DEF HealthTypes
  <1>l. Len(history[w]) = 0 /\ Len(history'[w]) = 1
    BY <1>f, <1>v
  <1>n. unseen' = [unseen EXCEPT ![w] = Listed \ c.seen]
    BY DEF Submit
  <1>k. Listed' = Listed \cup {w} /\ w \notin Listed
    <2>1. history'[w] # <<>>
      BY <1>l
    <2>2. \A v \in Works : v \in Listed' <=> v \in Listed \/ v = w
      BY <1>f, <1>v, <2>1 DEF Listed
    <2> QED BY <1>f, <2>2 DEF Listed
  <1>x. \A v \in Listed : v \in Works \ {w} /\ Current(v)' = Current(v)
    BY <1>f, <1>v DEF Listed, Current
  <1>g. \/ s \in Scanners /\ Sweeping(s) /\ o \in observations /\ o.outcome = "FAIL"
           /\ c.request = HealthProposal(o)
           /\ tracked' = tracked \cup {<<o, w>>} /\ sweep' = [sweep EXCEPT ![s] = Advanced(@)]
        \/ s \notin Scanners /\ sweep[s] = NoSweep /\ UNCHANGED <<tracked, sweep>>
    <2>1. CASE s \in Scanners
      <3>1. Sweeping(s) /\ o \in observations /\ o.outcome = "FAIL" /\ c.request = HealthProposal(o)
        BY <1>p, <2>1 DEF HealthInv, SessionInv, Scanning, Failing, Sweeping
      <3> QED BY <2>1, <3>1 DEF Submit
    <2>2. CASE s \notin Scanners
      <3>1. sweep[s] = NoSweep /\ ~Sweeping(s)
        BY <2>2 DEF HealthInv, SessionInv, Scanning, Sweeping, NoSweep
      <3> QED BY <2>2, <3>1 DEF Submit
    <2> QED BY <2>1, <2>2
  <1>1. OnlyOf(s) /\ SessionInv(s)'
    <2>1. CASE s \in Scanners /\ sweep' = [sweep EXCEPT ![s] = Advanced(@)] /\ Sweeping(s)
      <3>1. Advanced(sweep[s]) \in SweepTypes /\ Advanced(sweep[s]).items = {}
        BY <1>t, <2>1, TodoType DEF Sweeping
      <3>2. OnlyOf(s) /\ pc'[s] = "idle" /\ sweep'[s] = Advanced(sweep[s])
        BY <1>p, <1>t, <2>1, <3>1, Moves
      <3> QED BY <2>1, <3>1, <3>2, Between
    <2>2. CASE UNCHANGED sweep /\ sweep[s] = NoSweep
      <3>1. OnlyOf(s) /\ pc'[s] = "idle"
        BY <1>p, <1>t, <2>2, Moves
      <3>2. sweep'[s] = NoSweep /\ sweep'[s].items = {}
        BY <2>2 DEF NoSweep
      <3> QED BY <3>1, <3>2, Between
    <2> QED BY <1>g, <2>1, <2>2
  <1>2. tracked' \subseteq tracked \cup {<<o, w>>} /\ tracked \subseteq tracked'
    BY <1>g
  <1>3. Extended
    <2>1. \A v \in Works : history[v] # <<>> => v # w
      BY <1>f
    <2>2. \A v \in Works : Len(history[v]) <= Len(history'[v])
      <3>1. \A v \in Works : Len(history[v]) \in Nat
        BY <1>t DEF HealthTypes
      <3> QED BY <1>l, <1>v, <3>1
    <2>3. \A v \in Works : \A i \in 1..Len(history[v]) : history'[v][i] = history[v][i]
      BY <1>l, <1>v
    <2>4. \A v \in Works : history[v] # <<>> => request'[v] = request[v] /\ Current(v)' = Current(v)
      BY <1>v, <1>x, <2>1 DEF Listed
    <2>5. \A f \in tracked' \ tracked : Len(history[f[2]]) < Len(history'[f[2]])
      BY <1>2, <1>l
    <2> QED BY <1>p, <1>v, <2>2, <2>3, <2>4, <2>5 DEF Extended
  <1>4. ASSUME NEW t \in Sessions \ {s} PROVE SessionInv(t)'
    <2>1. pc[t] = "submit" => history'[call[t].work] = <<>>
      <3>1. pc[t] = "submit" => call[t].work \in Works /\ history[call[t].work] = <<>>
        BY DEF HealthInv, SessionInv, FirstInHand
      <3>2. pc[t] = "submit" => call[t].work # w
        BY <1>p, <1>t DEF IdsDistinct
      <3> QED BY <1>v, <3>1, <3>2
    <2> QED BY <1>1, <1>3, <1>t, <2>1, Others DEF HealthInv, OnlyOf
  <1>5. HealthTypes'
    BY <1>p, <1>v, <1>1, <1>n, <1>t DEF HealthTypes, OnlyOf
  <1>6. IdsDistinct'
    <2>1. pc'[s] = "idle"
      BY <1>p, <1>t DEF Return, HealthTypes
    <2> QED BY <1>1, <2>1, <1>t DEF IdsDistinct, OnlyOf
  <1>7. RecordedInv'
    <2>1. tracked' \subseteq observations' \X Listed'
      BY <1>g, <1>p, <1>k, <1>t DEF RecordedInv
    <2>2. superseding' \subseteq observations' \X Listed'
      BY <1>p, <1>k, <1>t DEF RecordedInv
    <2>3. \A f \in tracked' : FailOf(f[1], f[2])'
      <3>1. ASSUME NEW f \in tracked PROVE FailOf(f[1], f[2])'
        <4>1. f[2] \in Listed /\ FailOf(f[1], f[2])
          BY <1>t DEF RecordedInv
        <4>2. request'[f[2]] = request[f[2]]
          BY <4>1, <1>x, <1>v
        <4> QED BY <4>1, <4>2 DEF FailOf
      <3>2. <<o, w>> \in tracked' \ tracked => FailOf(o, w)'
        BY <1>g, <1>v DEF FailOf, HealthProposal
      <3> QED BY <1>2, <3>1, <3>2
    <2>4. \A x \in superseding' : Current(x[2])'.coordination = "SUPERSEDED"
      BY <1>p, <1>t, <1>x DEF RecordedInv
    <2>5. \A v \in Works : unseen'[v] \subseteq Listed'
      BY <1>n, <1>k, <1>f, <1>t DEF RecordedInv, HealthTypes
    <2> QED BY <2>1, <2>2, <2>3, <2>4, <2>5 DEF RecordedInv
  <1>8. SupersededByNewer'
    <2>1. \A x \in superseding : x[2] # w
      BY <1>k, <1>t DEF RecordedInv
    <2> QED BY <1>2, <1>p, <2>1 DEF HealthInv, SupersededByNewer
  <1>9. DuplicatesOnlyByRace'
    <2> SUFFICES ASSUME NEW u \in CurrentWork', NEW v \in CurrentWork', u # v,
                        history'[u][1].coordination = "AVAILABLE", history'[v][1].coordination = "AVAILABLE",
                        Exact(request'[u], request'[v])
                 PROVE  u \in unseen'[v] \/ v \in unseen'[u]
      BY DEF DuplicatesOnlyByRace
    <2>1. ASSUME NEW z \in CurrentWork', z # w PROVE z \in CurrentWork /\ z \in Listed /\ z \in Works
      <3>1. z \in Listed'
        BY <2>1 DEF CurrentWork
      <3>2. z \in Listed
        BY <2>1, <3>1, <1>k
      <3> QED BY <1>3, <1>t, <1>x, <2>1, <3>2, ListedStays
    <2>2. \A z \in Works \ {w} : unseen'[z] = unseen[z]
      BY <1>n, <1>t, <1>f DEF HealthTypes
    <2>3. unseen'[w] = Listed \ c.seen
      BY <1>n, <1>t, <1>f DEF HealthTypes
    \* What is open and was looked at is no duplicate.
    <2>4. ASSUME NEW z \in CurrentWork', z # w, Exact(c.request, request[z]), r.coordination = "AVAILABLE"
          PROVE  z \in unseen'[w]
      BY <1>f, <2>1, <2>3, <2>4
    <2>5. CASE u # w /\ v # w
      BY <1>v, <2>1, <2>2, <2>5 DEF HealthInv, DuplicatesOnlyByRace
    <2>6. CASE u = w
      <3>1. v # w /\ Exact(c.request, request[v]) /\ r.coordination = "AVAILABLE"
        BY <1>v, <2>1, <2>6
      <3> QED BY <2>4, <2>6, <3>1
    <2>7. CASE v = w
      <3>1. u # w /\ Exact(request[u], c.request) /\ r.coordination = "AVAILABLE"
        BY <1>v, <2>1, <2>7
      <3>2. Exact(c.request, request[u])
        BY <3>1, ExactSymmetric
      <3> QED BY <2>4, <2>7, <3>1, <3>2
    <2> QED BY <2>5, <2>6, <2>7
  <1> QED BY <1>1, <1>4, <1>5, <1>6, <1>7, <1>8, <1>9 DEF HealthInv

\* A revision is added if the one the call names is still the latest.  An attached
\* FAIL is then tracked on work that was open; a PASS supersedes work on which every
\* tracked FAIL is older.
LEMMA AddStep ==
    ASSUME HealthInv, NEW s \in Sessions, Add(s)
    PROVE  HealthInv'
  <1> PICK c : c = call[s]
    OBVIOUS
  <1> PICK w : w = c.work
    OBVIOUS
  <1> PICK r : r = c.next
    OBVIOUS
  <1> PICK o : o = Observation(s)
    OBVIOUS
  <1>t. HealthTypes /\ RecordedInv /\ IdsDistinct
    BY DEF HealthInv
  <1>p. /\ pc[s] = "add" /\ Return(s)
        /\ UNCHANGED <<request, observations, sweeps, unseen>>
    BY DEF Add, AddRevision
  <1>w. /\ w \in Works /\ c.expected \in 1..Len(history[w]) /\ r \in Revisions
        /\ Follows(r, history[w][c.expected])
    BY <1>p DEF HealthInv, SessionInv, CallTyped
  <1>h. history[w] \in Seq(Revisions) /\ history[w] # <<>>
    BY <1>t, <1>w DEF HealthTypes
  <1>s. /\ s \in Scanners => /\ Sweeping(s) /\ o \in observations /\ c.cancels \in BOOLEAN
        /\ s \notin Scanners => ~Sweeping(s) /\ sweep[s] = NoSweep
    BY <1>p DEF HealthInv, SessionInv, Scanning, Sweeping, NoSweep
  <1>1. CASE Len(history[w]) # c.expected
    <2>1. UNCHANGED history
      BY <1>1 DEF Add, AddRevision
    <2>2. UNCHANGED <<tracked, superseding>>
      BY <1>1 DEF Add
    <2>3. CASE s \in Scanners
      <3>1. sweep' = [sweep EXCEPT ![s] = NoSweep]
        BY <1>1, <1>s, <2>3 DEF Add
      <3> QED BY <1>p, <2>1, <2>2, <3>1, Ended
    <2>4. CASE s \notin Scanners
      <3>1. UNCHANGED sweep
        BY <1>1, <1>s, <2>4 DEF Add
      <3> QED BY <1>p, <1>s, <2>1, <2>2, <2>4, <3>1, Ended
    <2> QED BY <2>3, <2>4
  <1>2. CASE Len(history[w]) = c.expected
    <2>1. /\ Len(history[w]) \in Nat \ {0} /\ Current(w) = history[w][Len(history[w])]
          /\ Current(w) \in Revisions
      BY <1>t, <1>w, <1>h, HealthCurrent
    <2>2. Follows(r, Current(w))
      BY <1>w, <1>2, <2>1
    <2>3. WorkAdmitted(w, r)
      BY <1>h, <2>2 DEF WorkAdmitted, Follows
    <2>4. history' = [history EXCEPT ![w] = Append(@, r)]
      BY <1>2, <2>3 DEF Add, AddRevision
    <2>5. /\ history' \in [Works -> Seq(Revisions)]
          /\ history'[w] = Append(history[w], r)
          /\ \A v \in Works \ {w} : history'[v] = history[v]
      BY <1>t, <1>w, <2>4 DEF HealthTypes
    <2>6. /\ Len(history'[w]) = Len(history[w]) + 1 /\ history'[w][Len(history[w]) + 1] = r
          /\ \A i \in 1..Len(history[w]) : history'[w][i] = history[w][i]
      BY <1>h, <1>w, <2>5
    <2>7. history'[w] # <<>> /\ Current(w)' = r
      BY <2>1, <2>6 DEF Current
    <2>8. Listed' = Listed /\ w \in Listed
      <3>1. \A v \in Works : v \in Listed' <=> v \in Listed
        BY <1>h, <2>5, <2>7 DEF Listed
      <3> QED BY <1>h, <1>w, <3>1 DEF Listed
    <2>9. \A v \in Works \ {w} : Current(v)' = Current(v)
      BY <2>5 DEF Current
    \* Work that is closed stays so, and superseded work superseded.
    <2>10. Current(w).coordination \notin OpenStates => r.coordination = Current(w).coordination
      BY <2>1, <2>2 DEF Follows, OpenStates, AllowedCoordination, Revisions, CoordinationStates
    \* What the call leaves behind.
    <2>11. \/ /\ s \in Scanners /\ ~c.cancels
              /\ tracked' = tracked \cup {<<o, w>>} /\ UNCHANGED superseding
              /\ sweep' = [sweep EXCEPT ![s] = Advanced(@)]
           \/ /\ s \in Scanners /\ c.cancels
              /\ superseding' = superseding \cup {<<o, w>>} /\ UNCHANGED tracked
              /\ sweep' = ItemDone(s, FirstItem(s))
           \/ s \notin Scanners /\ UNCHANGED <<tracked, sweep, superseding>>
      BY <1>2, <1>s DEF Add
    <2>12. OnlyOf(s) /\ pc'[s] = "idle" /\ SessionInv(s)'
      <3>1. CASE s \in Scanners /\ sweep' = [sweep EXCEPT ![s] = Advanced(@)]
        <4>1. Advanced(sweep[s]) \in SweepTypes /\ Advanced(sweep[s]).items = {}
          BY <1>s, <1>t, <3>1, TodoType DEF Sweeping
        <4>2. OnlyOf(s) /\ pc'[s] = "idle" /\ sweep'[s] = Advanced(sweep[s])
          BY <1>p, <1>t, <3>1, <4>1, Moves
        <4> QED BY <3>1, <4>1, <4>2, Between
      <3>2. CASE s \in Scanners /\ sweep' = ItemDone(s, FirstItem(s))
        <4> DEFINE rest == sweep[s].items \ {FirstItem(s)}
                   x == IF rest = {} THEN Advanced(sweep[s]) ELSE [sweep[s] EXCEPT !.items = rest]
        <4>1. sweep' = [sweep EXCEPT ![s] = x]
          BY <3>2 DEF ItemDone
        <4>2. sweep[s] \in SweepTypes /\ sweep[s].todo # <<>>
          BY <1>s, <1>t, <3>2 DEF HealthTypes, Sweeping
        <4>3. /\ x \in SweepTypes /\ x.items \subseteq sweep[s].items
              /\ x.items # {} => x.todo = sweep[s].todo
          BY <1>t, <4>2, TodoType DEF SweepTypes
        <4> HIDE DEF x
        <4>4. OnlyOf(s) /\ pc'[s] = "idle" /\ sweep'[s] = x
          BY <1>p, <1>t, <4>1, <4>3, Moves
        <4>5. \A i \in x.items : i[2] \in 1..Len(history'[i[1]])
          <5>1. \A i \in x.items : i[1] \in Works /\ i[2] \in 1..Len(history[i[1]])
            BY <4>2, <4>3 DEF HealthInv, SessionInv, Scanning, SweepTypes
          <5>2. \A v \in Works : \A i \in 1..Len(history[v]) : i \in 1..Len(history'[v])
            BY <2>1, <2>5, <2>6
          <5> QED BY <5>1, <5>2
        <4>6. Scanning(s)'
          BY <1>p, <1>s, <3>2, <4>2, <4>3, <4>4, <4>5 DEF Scanning, Observation
        <4> QED BY <4>4, <4>6 DEF SessionInv, CallTyped, FirstInHand, Failing, Cancelling
      <3>3. CASE s \notin Scanners /\ UNCHANGED sweep
        <4>1. OnlyOf(s) /\ pc'[s] = "idle"
          BY <1>p, <1>t, <3>3, Moves
        <4>2. sweep'[s] = NoSweep /\ sweep'[s].items = {}
          BY <1>s, <3>3 DEF NoSweep
        <4> QED BY <4>1, <4>2, Between
      <3> QED BY <2>11, <3>1, <3>2, <3>3
    <2>13. tracked' \subseteq tracked \cup {<<o, w>>} /\ tracked \subseteq tracked'
      BY <2>11
    <2>14. Extended
      <3>1. \A v \in Works : Len(history[v]) \in Nat
        BY <1>t DEF HealthTypes
      <3>2. \A v \in Works : /\ Len(history[v]) <= Len(history'[v])
                             /\ \A i \in 1..Len(history[v]) : history'[v][i] = history[v][i]
        BY <2>5, <2>6, <3>1
      <3>3. \A v \in Works : Current(v).coordination \notin OpenStates =>
                                Current(v)'.coordination = Current(v).coordination
        BY <2>7, <2>9, <2>10
      <3>4. \A f \in tracked' \ tracked : Len(history[f[2]]) < Len(history'[f[2]])
        BY <2>1, <2>6, <2>13
      <3>5. DOMAIN request' = Works /\ UNCHANGED <<request, observations>>
        BY <1>p, <1>t DEF HealthTypes
      <3> QED BY <2>5, <3>2, <3>3, <3>4, <3>5 DEF Extended
    <2>15. ASSUME NEW t \in Sessions \ {s} PROVE SessionInv(t)'
      <3>1. pc[t] = "submit" => call[t].work \in Works /\ history[call[t].work] = <<>>
        BY DEF HealthInv, SessionInv, FirstInHand
      <3>2. pc[t] = "submit" => history'[call[t].work] = <<>>
        BY <1>h, <2>5, <3>1
      <3> QED BY <1>t, <2>12, <2>14, <3>2, Others DEF HealthInv, OnlyOf
    <2>16. HealthTypes'
      BY <1>p, <1>t, <2>5, <2>12 DEF HealthTypes, OnlyOf
    <2>17. IdsDistinct'
      BY <1>t, <2>12 DEF IdsDistinct, OnlyOf
    \* An attachment is made to work that was open, so to none that was superseded.
    <2>18. s \in Scanners /\ ~c.cancels => FailOf(o, w) /\ Current(w).coordination \in OpenStates
      BY <1>p, <1>2, <2>1 DEF HealthInv, SessionInv, Failing
    <2>19. s \in Scanners /\ c.cancels =>
              r.coordination = "SUPERSEDED" /\ \A f \in tracked : f[2] = w => f[1].at < o.at
      BY <1>p, <1>2 DEF HealthInv, SessionInv, Cancelling
    <2>20. RecordedInv'
      <3>1. tracked' \subseteq observations' \X Listed' /\ superseding' \subseteq observations' \X Listed'
        BY <1>p, <1>s, <1>t, <2>8, <2>11 DEF RecordedInv
      <3>2. \A f \in tracked' : FailOf(f[1], f[2])'
        <4>1. \A f \in tracked' : FailOf(f[1], f[2])
          BY <1>t, <2>11, <2>18 DEF RecordedInv
        <4> QED BY <1>p, <4>1 DEF FailOf
      <3>3. \A x \in superseding : Current(x[2])'.coordination = "SUPERSEDED"
        <4>1. ASSUME NEW x \in superseding PROVE Current(x[2])'.coordination = "SUPERSEDED"
          <5>1. x[2] \in Works /\ Current(x[2]).coordination = "SUPERSEDED"
            BY <1>t DEF RecordedInv, Listed
          <5>2. "SUPERSEDED" \notin OpenStates
            BY DEF OpenStates
          <5>3. CASE x[2] = w
            BY <2>7, <2>10, <5>1, <5>2, <5>3
          <5> QED BY <2>9, <5>1, <5>3
        <4> QED BY <4>1
      <3>4. \A x \in superseding' : Current(x[2])'.coordination = "SUPERSEDED"
        BY <2>7, <2>11, <2>19, <3>3
      <3> QED BY <1>p, <1>t, <2>8, <3>1, <3>2, <3>4 DEF RecordedInv
    <2>21. SupersededByNewer'
      <3>1. CASE s \in Scanners /\ ~c.cancels /\ tracked' = tracked \cup {<<o, w>>} /\ UNCHANGED superseding
        <4>1. \A x \in superseding : x[2] # w
          BY <1>t, <2>18, <3>1 DEF RecordedInv, OpenStates
        <4> QED BY <3>1, <4>1 DEF HealthInv, SupersededByNewer
      <3>2. CASE s \in Scanners /\ c.cancels /\ superseding' = superseding \cup {<<o, w>>} /\ UNCHANGED tracked
        BY <2>19, <3>2 DEF HealthInv, SupersededByNewer
      <3>3. CASE UNCHANGED <<tracked, superseding>>
        BY <3>3 DEF HealthInv, SupersededByNewer
      <3> QED BY <2>11, <3>1, <3>2, <3>3
    <2>22. DuplicatesOnlyByRace'
      <3>1. \A z \in CurrentWork' : z \in CurrentWork /\ z \in Works
        <4>1. \A z \in CurrentWork' : z \in Listed /\ z \in Works
          BY <2>8 DEF CurrentWork, Listed
        <4> QED BY <1>t, <2>14, <4>1, ListedStays
      <3>2. \A z \in Works : history[z] # <<>> => history'[z][1] = history[z][1]
        BY <2>1, <2>5, <2>6
      <3>3. \A z \in CurrentWork' : z \in CurrentWork /\ history'[z][1] = history[z][1]
        BY <3>1, <3>2 DEF CurrentWork, Listed
      <3> QED BY <1>p, <3>3 DEF HealthInv, DuplicatesOnlyByRace
    <2> QED BY <2>12, <2>15, <2>16, <2>17, <2>20, <2>21, <2>22 DEF HealthInv
  <1> QED BY <1>1, <1>2

LEMMA HealthInitInv == HealthInit => HealthInv
  <1> SUFFICES ASSUME HealthInit PROVE HealthInv
    OBVIOUS
  <1>1. HealthTypes
    <2>1. NoSweep \in SweepTypes
      BY DEF NoSweep, SweepTypes
    <2> QED BY <2>1, HealthAssumption DEF HealthInit, Init, HealthTypes, HealthPoints
  <1>2. \A s \in Sessions : SessionInv(s)
    <2>1. NoSweep.items = {}
      BY DEF NoSweep
    <2> QED BY <2>1 DEF HealthInit, Init, SessionInv, CallTyped, FirstInHand, Scanning, Failing, Cancelling
  <1>3. IdsDistinct
    BY DEF HealthInit, Init, IdsDistinct
  <1>4. RecordedInv /\ SupersededByNewer
    BY DEF HealthInit, Init, RecordedInv, SupersededByNewer
  <1>5. DuplicatesOnlyByRace
    BY DEF HealthInit, Init, DuplicatesOnlyByRace, CurrentWork, Listed
  <1> QED BY <1>1, <1>2, <1>3, <1>4, <1>5 DEF HealthInv

LEMMA HealthStepInv == HealthInv /\ [HealthNext]_<<vars, healthVars>> => HealthInv'
  <1>1. ASSUME HealthInv, HealthNext PROVE HealthInv'
    <2> PICK s \in Sessions :
          \/ \E todo \in Sweeps : StartSweep(s, todo)
          \/ \E q \in Proposals : ProposeWork(s, q)
          \/ Publish(s) \/ ProposeFailure(s) \/ PassList(s) \/ PassScan(s) \/ EndSweep(s)
          \/ Transit(s) \/ Submit(s) \/ Add(s)
          \/ TakeNext(s) \/ ContinueClaim(s) \/ Work(s)
      BY <1>1 DEF HealthNext
    <2>1. ASSUME NEW todo \in Sweeps, StartSweep(s, todo) PROVE HealthInv'
      BY <1>1, <2>1, StartSweepStep
    <2>2. ASSUME NEW q \in Proposals, ProposeWork(s, q) PROVE HealthInv'
      BY <1>1, <2>2, ClassifyStep DEF ProposeWork
    <2>3. CASE Publish(s)
      BY <1>1, <2>3, PublishStep
    <2>4. CASE ProposeFailure(s)
      BY <1>1, <2>4, ClassifyStep DEF ProposeFailure
    <2>5. CASE PassList(s)
      BY <1>1, <2>5, PassListStep
    <2>6. CASE PassScan(s)
      BY <1>1, <2>6, PassScanStep
    <2>7. CASE EndSweep(s)
      BY <1>1, <2>7, EndSweepStep
    <2>8. CASE Transit(s)
      BY <1>1, <2>8, TransitStep
    <2>9. CASE Submit(s)
      BY <1>1, <2>9, SubmitStep
    <2>10. CASE Add(s)
      BY <1>1, <2>10, AddStep
    <2>11. CASE TakeNext(s)
      BY <1>1, <2>11, TakeNextStep
    <2>12. CASE ContinueClaim(s)
      BY <1>1, <2>12, ContinueClaimStep
    <2>13. CASE Work(s)
      BY <1>1, <2>13, WorkStep
    <2> QED BY <2>1, <2>2, <2>3, <2>4, <2>5, <2>6, <2>7, <2>8, <2>9, <2>10, <2>11, <2>12, <2>13
  <1>2. ASSUME HealthInv, UNCHANGED <<vars, healthVars>> PROVE HealthInv'
    <2>1. UNCHANGED <<history, request, pc, call, observations, sweep, sweeps, tracked, superseding, unseen>>
      BY <1>2 DEF vars, healthVars
    <2>2. HealthTypes' /\ IdsDistinct'
      BY <1>2, <2>1 DEF HealthInv, HealthTypes, IdsDistinct
    <2>3. Extended
      BY <1>2, <2>1 DEF HealthInv, HealthTypes, Extended, Current
    <2>4. \A t \in Sessions : SessionInv(t)'
      <3>1. ASSUME NEW t \in Sessions PROVE SessionInv(t)'
        <4>1. pc[t] = "submit" => history'[call[t].work] = <<>>
          BY <1>2, <2>1 DEF HealthInv, SessionInv, FirstInHand
        <4> QED BY <1>2, <2>1, <2>3, <4>1, Others DEF HealthInv
      <3> QED BY <3>1
    <2>5. RecordedInv' /\ SupersededByNewer'
      BY <1>2, <2>1 DEF HealthInv, RecordedInv, SupersededByNewer, FailOf, Current, Listed
    <2>6. DuplicatesOnlyByRace'
      BY <1>2, <2>1 DEF HealthInv, DuplicatesOnlyByRace, CurrentWork, Current, Listed
    <2> QED BY <2>2, <2>4, <2>5, <2>6 DEF HealthInv
  <1> QED BY <1>1, <1>2

\* The invariant of proposals and health sweeps, for any sessions, works, proposals
\* and sweeps.
THEOREM HealthInvariant == HealthSpec => []HealthInv
  BY HealthInitInv, HealthStepInv, PTL DEF HealthSpec

\* The type of the sweeps, for any number of scanners.
THEOREM HealthTypesOK == HealthSpec => []HealthTypeOK
  <1>1. ASSUME HealthInv PROVE HealthTypeOK
    <2>1. ASSUME NEW s \in Scanners
          PROVE  /\ pc[s] \in {"idle", "propose", "attach", "submit", "list", "cancel", "add"}
                 /\ pc[s] # "idle" => Sweeping(s)
                 /\ pc[s] = "cancel" => sweep[s].items # {}
                 /\ \A i \in sweep[s].items : i[1] \in Listed /\ i[2] \in 1..Len(history[i[1]])
      <3>0. s \in Sessions /\ SessionInv(s)
        BY <1>1, HealthAssumption DEF HealthInv
      <3>1. pc[s] \in HealthPoints /\ pc[s] \notin {"active", "revise"}
        BY <1>1, <3>0 DEF HealthInv, HealthTypes, SessionInv, Scanning
      <3>2. pc[s] # "idle" => Sweeping(s)
        BY <3>0 DEF SessionInv, Scanning, Sweeping
      <3>3. \A i \in sweep[s].items : i[1] \in Works /\ i[2] \in 1..Len(history[i[1]])
        BY <1>1, <3>0 DEF HealthInv, HealthTypes, SessionInv, Scanning, SweepTypes
      <3>4. \A i \in sweep[s].items : i[1] \in Listed
        BY <3>3 DEF Listed
      <3> QED BY <3>0, <3>1, <3>2, <3>3, <3>4 DEF HealthPoints, SessionInv, Scanning
    <2>2. tracked \cup superseding \subseteq observations \X Listed
      BY <1>1 DEF HealthInv, RecordedInv
    <2> QED BY <1>1, <2>1, <2>2 DEF HealthInv, HealthTypes, RecordedInv, HealthTypeOK
  <1> QED BY <1>1, HealthInvariant, PTL

\* A PASS never cancels work on which a FAIL of the same time or later was tracked,
\* however sweeps, proposals and workers interleave between its scan of the store
\* and its cancellation.
THEOREM PassesNewer == HealthSpec => []SupersededByNewer
  <1>1. HealthInv => SupersededByNewer
    BY DEF HealthInv
  <1> QED BY <1>1, HealthInvariant, PTL

\* Two open requests that duplicate one another, both proposed as AVAILABLE, were
\* proposed at the same time: neither was there to be seen by the other.
THEOREM DuplicatesRaced == HealthSpec => []DuplicatesOnlyByRace
  <1>1. HealthInv => DuplicatesOnlyByRace
    BY DEF HealthInv
  <1> QED BY <1>1, HealthInvariant, PTL

-----------------------------------------------------------------------------
\* No worker asks for the coordination state that a PASS leaves.
NoWithdrawal == \A t \in Transitions : t.coordination # "SUPERSEDED"

\* Only a cancellation is about to supersede work, and superseded work has a PASS
\* that did it.
SupersededByPass ==
    /\ \A s \in Sessions :
          pc[s] = "add" /\ call[s].next.coordination = "SUPERSEDED" => s \in Scanners /\ call[s].cancels
    /\ \A w \in Listed : Current(w).coordination = "SUPERSEDED" => \E p \in superseding : p[2] = w

\* A step of s that writes nothing and does not prepare to supersede.
LEMMA QuietPass ==
    ASSUME SupersededByPass, HealthTypes, NEW s \in Sessions, UNCHANGED <<history, superseding>>,
           \A t \in Sessions \ {s} : pc'[t] = pc[t] /\ call'[t] = call[t],
           pc'[s] = "add" => \/ call'[s].next.coordination # "SUPERSEDED"
                             \/ s \in Scanners /\ call'[s].cancels
    PROVE  SupersededByPass'
  <1>1. \A t \in Sessions :
          pc'[t] = "add" /\ call'[t].next.coordination = "SUPERSEDED" => t \in Scanners /\ call'[t].cancels
    BY DEF SupersededByPass
  <1>2. \A w \in Listed' : Current(w)'.coordination = "SUPERSEDED" => \E p \in superseding' : p[2] = w
    BY DEF SupersededByPass, Listed, Current
  <1> QED BY <1>1, <1>2 DEF SupersededByPass

\* A transition that does not name SUPERSEDED does not lead there.
LEMMA NotSuperseding ==
    ASSUME NEW r, NEW t, t.coordination # "SUPERSEDED"
    PROVE  Revised(r, t).coordination # "SUPERSEDED"
  <1>1. \A x : DefaultCoordination(x) # "SUPERSEDED"
    BY DEF DefaultCoordination
  <1> QED BY <1>1 DEF Revised, TargetCoordination

LEMMA PassStep ==
    ASSUME NoWithdrawal, HealthInv, SupersededByPass, HealthNext
    PROVE  SupersededByPass'
  <1>t. HealthTypes
    BY DEF HealthInv
  <1> PICK s \in Sessions :
        \/ \E todo \in Sweeps : StartSweep(s, todo)
        \/ \E q \in Proposals : ProposeWork(s, q)
        \/ Publish(s) \/ ProposeFailure(s) \/ PassList(s) \/ PassScan(s) \/ EndSweep(s)
        \/ Transit(s) \/ Submit(s) \/ Add(s)
        \/ TakeNext(s) \/ ContinueClaim(s) \/ Work(s)
    BY DEF HealthNext
  \* A step that moves s and no other session.
  <1>p. ASSUME NEW p, NEW c, Proceed(s, p, c)
        PROVE  /\ \A t \in Sessions \ {s} : pc'[t] = pc[t] /\ call'[t] = call[t]
               /\ pc'[s] = p /\ call'[s] = c
    BY <1>p, <1>t DEF Proceed, HealthTypes
  <1>r. ASSUME Return(s)
        PROVE  /\ \A t \in Sessions \ {s} : pc'[t] = pc[t] /\ call'[t] = call[t]
               /\ pc'[s] = "idle"
    BY <1>r, <1>t DEF Return, HealthTypes
  <1>q. ASSUME NEW q, Classify(s, q), UNCHANGED <<history, superseding>>
        PROVE  SupersededByPass'
    <2>1. ASSUME NEW c, NEW p \in {"attach", "submit"}, Proceed(s, p, c) PROVE SupersededByPass'
      BY <1>p, <1>q, <1>t, <2>1, QuietPass
    <2> QED BY <1>q, <2>1, Classified
  <1>1. ASSUME NEW todo \in Sweeps, StartSweep(s, todo) PROVE SupersededByPass'
    BY <1>t, <1>1, QuietPass DEF StartSweep, vars
  <1>2. ASSUME NEW q \in Proposals, ProposeWork(s, q) PROVE SupersededByPass'
    BY <1>2, <1>q DEF ProposeWork, healthVars
  <1>3. CASE Publish(s)
    <2>1. UNCHANGED <<history, superseding>>
      BY <1>3 DEF Publish
    <2>2. CASE Raise(s)
      BY <1>r, <1>t, <2>1, <2>2, QuietPass DEF Raise
    <2>3. CASE ~Raise(s)
      <3>1. \E p \in {"propose", "list", "idle"} : pc' = [pc EXCEPT ![s] = p] /\ UNCHANGED call
        BY <1>3, <2>3 DEF Publish
      <3> QED BY <1>t, <2>1, <3>1, QuietPass DEF HealthTypes
    <2> QED BY <2>2, <2>3
  <1>4. CASE ProposeFailure(s)
    BY <1>4, <1>q DEF ProposeFailure, healthVars
  <1>5. CASE PassList(s)
    <2>1. UNCHANGED <<history, superseding, call>> /\ pc' = [pc EXCEPT ![s] = "idle"]
      BY <1>5 DEF PassList
    <2> QED BY <1>t, <2>1, QuietPass DEF HealthTypes
  <1>6. CASE PassScan(s)
    <2>1. UNCHANGED <<history, superseding>> /\ pc[s] = "idle"
      BY <1>6 DEF PassScan
    <2>2. CASE UNCHANGED <<pc, call>>
      BY <1>t, <2>1, <2>2, QuietPass
    <2>3. ASSUME NEW c, Proceed(s, "cancel", c) PROVE SupersededByPass'
      BY <1>p, <1>t, <2>1, <2>3, QuietPass
    <2> QED BY <1>6, <2>2, <2>3 DEF PassScan
  <1>7. CASE EndSweep(s)
    BY <1>t, <1>7, QuietPass DEF EndSweep, vars
  <1>8. CASE Transit(s)
    <2>1. UNCHANGED <<history, superseding>> /\ pc[s] \in {"attach", "cancel"}
      BY <1>8 DEF Transit
    <2>2. CASE Raise(s)
      BY <1>r, <1>t, <2>1, <2>2, QuietPass DEF Raise
    <2>3. CASE ~Raise(s)
      <3> PICK w : w = call[s].work
        OBVIOUS
      <3> PICK d : d = [work |-> w, expected |-> Len(history[w]), claiming |-> FALSE,
                        next |-> Revised(Current(w), Transition(s)), cancels |-> pc[s] = "cancel"]
        OBVIOUS
      <3>1. Proceed(s, "add", d)
        BY <1>8, <2>3 DEF Transit
      <3>2. d.next = Revised(Current(w), Transition(s)) /\ d.cancels = (pc[s] = "cancel")
        OBVIOUS
      <3>3. CASE pc[s] = "cancel"
        <4>1. s \in Scanners
          BY <3>3 DEF HealthInv, SessionInv, Scanning
        <4>2. d.cancels
          BY <3>2, <3>3, Zenon
        <4>3. /\ \A t \in Sessions \ {s} : pc'[t] = pc[t] /\ call'[t] = call[t]
              /\ call'[s].cancels
          BY <1>p, <3>1, <4>2
        <4> QED BY <1>t, <2>1, <4>1, <4>3, QuietPass
      <3>4. CASE pc[s] = "attach"
        <4>1. Transition(s).coordination # "SUPERSEDED"
          BY <3>4, WorkAssumption DEF Transition, AttachTransition, CoordinationStates
        <4>2. d.next.coordination # "SUPERSEDED"
          BY <3>2, <4>1, NotSuperseding
        <4> QED BY <1>p, <1>t, <2>1, <3>1, <4>2, QuietPass
      <3> QED BY <2>1, <3>3, <3>4
    <2> QED BY <2>2, <2>3
  <1>9. CASE Submit(s)
    <2> PICK w : w = call[s].work
      OBVIOUS
    <2> PICK r : r = call[s].next
      OBVIOUS
    <2>1. pc[s] = "submit" /\ Return(s) /\ UNCHANGED superseding
      BY <1>9 DEF Submit, SubmitAdd
    <2>2. /\ w \in Works /\ history[w] = <<>>
          /\ r.coordination \in {"AVAILABLE", "NEEDS_RECONCILIATION"}
      BY <2>1 DEF HealthInv, SessionInv, FirstInHand
    <2>3. history' = [history EXCEPT ![w] = <<r>>]
      BY <1>9, <2>2 DEF Submit, SubmitAdd
    <2>4. history'[w] = <<r>> /\ \A v \in Works \ {w} : history'[v] = history[v]
      BY <1>t, <2>2, <2>3 DEF HealthTypes
    <2>5. Current(w)' = r
      BY <2>4 DEF Current
    <2>6. \A v \in Listed' : Current(v)'.coordination = "SUPERSEDED" => \E p \in superseding' : p[2] = v
      <3>1. ASSUME NEW v \in Listed', v # w, Current(v)'.coordination = "SUPERSEDED"
            PROVE  \E p \in superseding' : p[2] = v
        <4>1. v \in Listed /\ Current(v)' = Current(v)
          BY <2>4, <3>1 DEF Listed, Current
        <4> QED BY <2>1, <3>1, <4>1 DEF SupersededByPass
      <3> QED BY <2>2, <2>5, <3>1
    <2>7. \A t \in Sessions :
            pc'[t] = "add" /\ call'[t].next.coordination = "SUPERSEDED" => t \in Scanners /\ call'[t].cancels
      BY <1>r, <2>1 DEF SupersededByPass
    <2> QED BY <2>6, <2>7 DEF SupersededByPass
  <1>10. CASE Add(s)
    <2> PICK c : c = call[s]
      OBVIOUS
    <2> PICK w : w = c.work
      OBVIOUS
    <2> PICK r : r = c.next
      OBVIOUS
    <2>1. pc[s] = "add" /\ Return(s)
      BY <1>10 DEF Add, AddRevision
    <2>2. w \in Works /\ c.expected \in 1..Len(history[w])
      BY <2>1 DEF HealthInv, SessionInv, CallTyped
    <2>3. CASE UNCHANGED <<history, superseding>>
      BY <1>r, <1>t, <2>1, <2>3, QuietPass
    <2>4. CASE history' = [history EXCEPT ![w] = Append(@, r)] /\ Len(history[w]) = c.expected
      <3>1. history[w] \in Seq(Revisions) /\ history[w] # <<>>
        BY <1>t, <2>2 DEF HealthTypes
      <3>2. r \in Revisions
        BY <2>1 DEF HealthInv, SessionInv, CallTyped
      <3>3. history'[w] = Append(history[w], r) /\ \A v \in Works \ {w} : history'[v] = history[v]
        BY <1>t, <2>2, <2>4 DEF HealthTypes
      <3>4. Current(w)' = r
        BY <3>1, <3>2, <3>3 DEF Current
      <3>5. superseding \subseteq superseding'
        BY <1>10 DEF Add
      <3>6. r.coordination = "SUPERSEDED" => \E p \in superseding' : p[2] = w
        <4> SUFFICES ASSUME r.coordination = "SUPERSEDED" PROVE \E p \in superseding' : p[2] = w
          OBVIOUS
        <4>1. s \in Scanners /\ c.cancels
          BY <2>1 DEF SupersededByPass
        <4>2. Sweeping(s)
          BY <2>1, <4>1 DEF HealthInv, SessionInv, Scanning, Sweeping
        <4> PICK o : o = Observation(s)
          OBVIOUS
        <4>3. superseding' = superseding \cup {<<o, w>>}
          BY <1>10, <2>4, <4>1, <4>2 DEF Add
        <4>4. <<o, w>> \in superseding' /\ <<o, w>>[2] = w
          BY <4>3
        <4> QED BY <4>4
      <3>7. \A v \in Listed' : Current(v)'.coordination = "SUPERSEDED" => \E p \in superseding' : p[2] = v
        <4>1. ASSUME NEW v \in Listed', v # w, Current(v)'.coordination = "SUPERSEDED"
              PROVE  \E p \in superseding' : p[2] = v
          <5>1. v \in Listed /\ Current(v)' = Current(v)
            BY <3>3, <4>1 DEF Listed, Current
          <5> QED BY <3>5, <4>1, <5>1 DEF SupersededByPass
        <4> QED BY <3>4, <3>6, <4>1
      <3>8. \A t \in Sessions :
              pc'[t] = "add" /\ call'[t].next.coordination = "SUPERSEDED" => t \in Scanners /\ call'[t].cancels
        BY <1>r, <2>1 DEF SupersededByPass
      <3> QED BY <3>7, <3>8 DEF SupersededByPass
    <2>5. \/ UNCHANGED <<history, superseding>>
          \/ history' = [history EXCEPT ![w] = Append(@, r)] /\ Len(history[w]) = c.expected
      <3>1. CASE Len(history[w]) # c.expected
        BY <1>10, <3>1 DEF Add, AddRevision
      <3>2. CASE Len(history[w]) = c.expected
        <4>1. Follows(r, history[w][c.expected]) /\ history[w] # <<>>
          BY <1>t, <2>1, <2>2 DEF HealthInv, HealthTypes, SessionInv, CallTyped
        <4>2. WorkAdmitted(w, r)
          BY <3>2, <4>1 DEF WorkAdmitted, Follows, Current
        <4> QED BY <1>10, <3>2, <4>2 DEF Add, AddRevision
      <3> QED BY <3>1, <3>2
    <2> QED BY <2>3, <2>4, <2>5
  <1>11. CASE TakeNext(s)
    <2>1. \E w \in NextWork : ClaimRead(s, w, Len(history[w]))
      BY <1>11 DEF TakeNext
    <2>2. PICK c : Proceed(s, "active", c)
      BY <2>1 DEF ClaimRead
    <2>3. UNCHANGED <<history, superseding>>
      BY <1>11 DEF TakeNext, ClaimRead, healthVars
    <2> QED BY <1>p, <1>t, <2>2, <2>3, QuietPass
  <1>12. CASE ContinueClaim(s)
    <2>1. UNCHANGED <<history, superseding>>
      BY <1>12 DEF ContinueClaim, ClaimActive, ClaimRevise, healthVars
    <2>2. CASE Return(s)
      BY <1>r, <1>t, <2>1, <2>2, QuietPass
    <2>3. CASE Proceed(s, "revise", call[s])
      BY <1>p, <1>t, <2>1, <2>3, QuietPass
    <2>4. CASE ~Return(s) /\ ClaimRevise(s)
      <3> PICK w : w = call[s].work
        OBVIOUS
      <3> PICK d : d = [work |-> w, expected |-> call[s].expected,
                        next |-> Revised(Current(w), ClaimTransition(s)), claiming |-> TRUE]
        OBVIOUS
      <3>1. Proceed(s, "add", d)
        BY <2>4 DEF ClaimRevise
      <3>2. ClaimTransition(s).coordination # "SUPERSEDED"
        BY DEF ClaimTransition
      <3>3. d.next.coordination # "SUPERSEDED"
        BY <3>2, NotSuperseding
      <3> QED BY <1>p, <1>t, <2>1, <3>1, <3>3, QuietPass
    <2> QED BY <1>12, <2>2, <2>3, <2>4 DEF ContinueClaim, ClaimActive
  <1>13. CASE Work(s)
    <2>1. PICK w \in Works, t \in Transitions : TransitionRead(s, w, Len(history[w]), t)
      BY <1>13 DEF Work
    <2> PICK d : d = [work |-> w, expected |-> Len(history[w]), next |-> Revised(Current(w), t),
                      claiming |-> FALSE]
      OBVIOUS
    <2>2. Proceed(s, "add", d)
      BY <2>1 DEF TransitionRead
    <2>3. d.next.coordination # "SUPERSEDED"
      BY NotSuperseding DEF NoWithdrawal
    <2>4. UNCHANGED <<history, superseding>>
      BY <1>13, <2>1 DEF Work, TransitionRead, healthVars
    <2> QED BY <1>p, <1>t, <2>2, <2>3, <2>4, QuietPass
  <1> QED BY <1>1, <1>2, <1>3, <1>4, <1>5, <1>6, <1>7, <1>8, <1>9, <1>10, <1>11, <1>12, <1>13

\* If workers leave the state SUPERSEDED to the sweeps, a family project is reported
\* healthy only when every FAIL tracked for it was worked on to an end or overtaken
\* by a later PASS.
THEOREM HealthySettled ==
    ASSUME NoWithdrawal
    PROVE  HealthSpec => []HealthyMeansSettled
  <1>1. HealthInit => SupersededByPass
    BY DEF HealthInit, Init, SupersededByPass, Listed
  <1>2. HealthInv /\ SupersededByPass /\ [HealthNext]_<<vars, healthVars>> => SupersededByPass'
    <2>1. ASSUME SupersededByPass, UNCHANGED <<vars, healthVars>> PROVE SupersededByPass'
      BY <2>1 DEF SupersededByPass, vars, healthVars, Listed, Current
    <2> QED BY <2>1, PassStep
  <1>3. HealthInv /\ SupersededByPass => HealthyMeansSettled
    <2> SUFFICES ASSUME HealthInv, SupersededByPass, NEW p \in Projects, NEW o \in LatestOutcomes(p),
                        ProjectState(p, o) = "HEALTHY_NO_WORK", NEW f \in tracked, f[1].repo = p
                 PROVE  \/ Current(f[2]).coordination \in {"COMPLETE", "ABANDONED"}
                        \/ \E q \in superseding : q[2] = f[2] /\ f[1].at < q[1].at
      BY DEF HealthyMeansSettled
    <2>1. f[2] \in Listed /\ p \in request[f[2]].repos
      BY DEF HealthInv, RecordedInv, FailOf
    <2>2. f[2] \in Works /\ history[f[2]] # <<>>
      BY <2>1 DEF Listed
    <2>3. Current(f[2]).coordination \in CoordinationStates
      BY <2>2, HealthCurrent DEF HealthInv, Revisions
    <2>4. Current(f[2]).coordination \notin
             {"AVAILABLE", "CLAIMED", "IN_PROGRESS", "VERIFYING", "BLOCKED", "NEEDS_RECONCILIATION"}
      <3> DEFINE in(states) == {w \in Listed : p \in request[w].repos /\ Current(w).coordination \in states}
      <3>1. /\ in({"AVAILABLE", "CLAIMED", "IN_PROGRESS", "VERIFYING"}) = {}
            /\ in({"BLOCKED"}) = {} /\ in({"NEEDS_RECONCILIATION"}) = {}
        BY DEF ProjectState
      <3> QED BY <2>1, <3>1
    <2>5. CASE Current(f[2]).coordination = "SUPERSEDED"
      <3>1. PICK q \in superseding : q[2] = f[2]
        BY <2>1, <2>5 DEF SupersededByPass
      <3>2. f[1].at < q[1].at
        BY <3>1 DEF HealthInv, SupersededByNewer
      <3> QED BY <3>1, <3>2
    <2> QED BY <2>3, <2>4, <2>5 DEF CoordinationStates
  <1>4. HealthSpec => [](HealthInv /\ SupersededByPass)
    BY <1>1, <1>2, HealthInvariant, PTL DEF HealthSpec
  <1> QED BY <1>3, <1>4, PTL
=============================================================================
