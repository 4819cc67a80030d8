-------------------------- MODULE PublicNodeProofs --------------------------
(***************************************************************************)
(* Proofs about the public node, for any number of clients, addresses,     *)
(* records and requests, any windows and limits, any policy and any number *)
(* of restarts.  Three invariants carry them, and none needs another:      *)
(*                                                                         *)
(* LimiterInv: each window of the limiter is what it has forgotten to drop *)
(* followed by the requests of the last window, oldest first, so that what *)
(* _trim leaves is what was allowed.                                       *)
(*                                                                         *)
(* PublishInv: one publication at a time is between its read and its       *)
(* write, and if it did not find its record then no publication of that    *)
(* record was answered 201, although a local write may have stored it.     *)
(*                                                                         *)
(* PrivacyInv: what was withheld since the first start is withheld now.    *)
(***************************************************************************)
EXTENDS PublicNode, FiniteSetTheorems, SequenceTheorems, WellFoundedInduction, TLAPS

-----------------------------------------------------------------------------
\* The limiter.

\* The window w holds the ages r of the requests of the last window after those of
\* requests that are too old; r is in the order of arrival, oldest first.
Tracks(w, r, window) ==
    /\ w \in Seq(Nat) /\ r \in Seq(Nat)
    /\ Len(r) <= Len(w)
    /\ \A i \in 1..(Len(w) - Len(r)) : w[i] >= window
    /\ \A i \in 1..Len(r) : r[i] < window /\ w[Len(w) - Len(r) + i] = r[i]
    /\ \A i, j \in 1..Len(r) : i <= j => r[i] >= r[j]

Lists == [of : [Sources -> Seq(Nat)], all : Seq(Nat)]

LimiterInv ==
    /\ windows \in [Kinds -> Lists] /\ recent \in [Kinds -> Lists]
    /\ \A k \in Kinds :
          /\ Tracks(windows[k].all, recent[k].all, Window[k])
          /\ Len(recent[k].all) <= GlobalLimit[k]
          /\ \A s \in Sources :
                /\ Tracks(windows[k].of[s], recent[k].of[s], Window[k])
                /\ Len(recent[k].of[s]) <= SourceLimit[k]

\* A set of natural numbers has a smallest one.
LEMMA SmallestIn ==
    ASSUME NEW S, S \subseteq Nat, S # {}
    PROVE  \E m \in S : \A n \in S : m <= n
<1> DEFINE R == {ss \in Nat \X Nat : ss[1] < ss[2]}
<1>1. IsWellFoundedOn(R, Nat)
  BY NatLessThanWellFounded DEF OpToRel
<1> HIDE DEF R
<1>2. PICK m \in S : \A n \in S : <<n, m>> \notin R
  BY <1>1, WFMin
<1>3. \A n \in S : ~(n < m)
  BY <1>2 DEF R
<1>4. \A n \in S : m <= n
  BY <1>3
<1> QED BY <1>4

LEMMA FunctionIsSeq ==
    ASSUME NEW n \in Nat, NEW f \in [1..n -> Nat]
    PROVE  f \in Seq(Nat) /\ Len(f) = n
  OBVIOUS

\* What is left of a list without its first d entries.
LEMMA RestOf ==
    ASSUME NEW s \in Seq(Nat), NEW d \in 0..Len(s), NEW rest, rest = SubSeq(s, d + 1, Len(s))
    PROVE  /\ rest \in Seq(Nat) /\ Len(rest) = Len(s) - d
           /\ \A i \in 1..Len(rest) : rest[i] = s[i + d]
<1>1. Len(s) \in Nat /\ d \in Nat /\ d <= Len(s) /\ \A i \in 1..Len(s) : s[i] \in Nat
  OBVIOUS
<1>2. PICK m \in Int, n \in Int : m = d + 1 /\ n = Len(s)
  BY <1>1
<1>3. \A i \in m..n : s[i] \in Nat
  BY <1>1, <1>2
<1>4. /\ rest \in Seq(Nat) /\ Len(rest) = IF m <= n THEN n - m + 1 ELSE 0
      /\ \A i \in 1..(n - m + 1) : rest[i] = s[m + i - 1]
  BY <1>2, <1>3, SubSeqProperties
<1>5. Len(rest) = Len(s) - d /\ n - m + 1 = Len(rest)
  BY <1>1, <1>2, <1>4
<1>6. ASSUME NEW i \in 1..Len(rest) PROVE rest[i] = s[i + d]
  <2>1. m + i - 1 = i + d /\ i \in 1..(n - m + 1)
    BY <1>1, <1>2, <1>5
  <2> QED BY <1>4, <2>1
<1> QED BY <1>4, <1>5, <1>6

\* popleft as long as the front is old drops the d entries of a list that are old,
\* when the old ones come first.
LEMMA DropOldDrops ==
    ASSUME NEW ages \in Seq(Nat), NEW window \in Nat, NEW d \in 0..Len(ages),
           \A i \in 1..d : ages[i] >= window,
           \A i \in (d + 1)..Len(ages) : ages[i] < window
    PROVE  DropOld(ages, window) = SubSeq(ages, d + 1, Len(ages))
<1> DEFINE olds == {n \in 0..Len(ages) : \A i \in 1..n : ages[i] >= window}
<1>1. d \in olds
  OBVIOUS
<1>2. ASSUME NEW n \in olds PROVE d >= n
  <2>1. CASE n > d
    <3>1. ages[d + 1] >= window /\ ages[d + 1] < window
      BY <2>1
    <3>2. ages[d + 1] \in Nat
      BY <2>1
    <3> QED BY <3>1, <3>2
  <2> QED BY <2>1
<1>3. olds \subseteq Nat
  OBVIOUS
<1>4. \E x \in olds : \A y \in olds : x >= y
  BY <1>1, <1>2
<1>5. Max(olds) \in olds /\ \A y \in olds : Max(olds) >= y
  BY <1>4 DEF Max
<1>6. Max(olds) = d
  BY <1>1, <1>2, <1>3, <1>5
<1> QED BY <1>6 DEF DropOld

\* What _trim leaves of a window is the requests of the last window.
LEMMA TrimLeaves ==
    ASSUME NEW w, NEW r, NEW window \in Nat, Tracks(w, r, window)
    PROVE  DropOld(w, window) = r /\ Tracks(r, r, window)
<1> DEFINE d == Len(w) - Len(r)
<1> USE DEF Tracks
<1>1. d \in 0..Len(w) /\ Len(w) \in Nat /\ Len(r) \in Nat
  OBVIOUS
<1>2. ASSUME NEW i \in (d + 1)..Len(w) PROVE w[i] < window
  <2>1. i - d \in 1..Len(r) /\ d + (i - d) = i
    BY <1>1
  <2> QED BY <2>1
<1>3. DropOld(w, window) = SubSeq(w, d + 1, Len(w))
  BY <1>1, <1>2, DropOldDrops
<1>4. SubSeq(w, d + 1, Len(w)) = r
  <2>1. SubSeq(w, d + 1, Len(w)) \in Seq(Nat) /\ Len(SubSeq(w, d + 1, Len(w))) = Len(r)
    BY <1>1
  <2>2. \A i \in 1..Len(r) : SubSeq(w, d + 1, Len(w))[i] = r[i]
    BY <1>1
  <2> QED BY <2>1, <2>2, SeqEqual
<1>5. Tracks(r, r, window)
  OBVIOUS
<1> QED BY <1>3, <1>4, <1>5

\* A request that is allowed is the latest.
LEMMA AppendTracks ==
    ASSUME NEW r, NEW window \in Nat \ {0}, Tracks(r, r, window)
    PROVE  /\ Tracks(Append(r, 0), Append(r, 0), window)
           /\ Len(Append(r, 0)) = Len(r) + 1
<1> DEFINE a == Append(r, 0)
<1>1. r \in Seq(Nat) /\ a \in Seq(Nat) /\ Len(a) = Len(r) + 1 /\ Len(r) \in Nat
  BY DEF Tracks
<1>2. \A i \in 1..Len(r) : a[i] = r[i] /\ r[i] \in Nat
  BY <1>1
<1>3. a[Len(r) + 1] = 0
  BY <1>1
<1>4. \A i \in 1..Len(a) : i \in 1..Len(r) \/ i = Len(r) + 1
  BY <1>1
<1>5. \A i \in 1..Len(a) : a[i] < window
  BY <1>1, <1>2, <1>3, <1>4 DEF Tracks
<1>6. ASSUME NEW i \in 1..Len(a), NEW j \in 1..Len(a), i <= j
      PROVE  a[i] >= a[j]
  <2>1. CASE j \in 1..Len(r)
    BY <2>1, <1>1, <1>2, <1>6 DEF Tracks
  <2>2. CASE j = Len(r) + 1
    BY <2>2, <1>1, <1>2, <1>3, <1>4, <1>6
  <2> QED BY <2>1, <2>2, <1>4
<1> HIDE DEF a
<1>7. Tracks(a, a, window)
  BY <1>1, <1>5, <1>6 DEF Tracks
<1> QED BY <1>1, <1>7 DEF a

StillRecently(ages, window) == DropOld([i \in DOMAIN ages |-> ages[i] + 1], window)

\* As time passes the oldest requests leave the last window, and the limiter keeps
\* them until it looks again.
LEMMA TickTracks ==
    ASSUME NEW w, NEW r, NEW k \in Kinds, Tracks(w, r, Window[k])
    PROVE  /\ Tracks(Older(w, k), StillRecently(r, Window[k]), Window[k])
           /\ Len(StillRecently(r, Window[k])) <= Len(r)
<1>0. PICK W \in Nat : W = Window[k]
  BY NodeAssumption
<1> DEFINE o == [i \in DOMAIN r |-> r[i] + 1]
           old == {n \in 0..Len(r) : \A i \in 1..n : r[i] + 1 >= W}
<1>1. /\ w \in Seq(Nat) /\ r \in Seq(Nat) /\ Len(r) <= Len(w)
      /\ Len(w) \in Nat /\ Len(r) \in Nat
      /\ \A i \in 1..Len(w) : w[i] \in Nat
      /\ \A i \in 1..Len(r) : r[i] \in Nat
  BY SMTT(40) DEF Tracks
<1>2. o \in Seq(Nat) /\ Len(o) = Len(r) /\ \A i \in 1..Len(r) : o[i] = r[i] + 1
  <2>1. DOMAIN r = 1..Len(r)
    BY <1>1
  <2>2. o \in [1..Len(r) -> Nat]
    BY <1>1, <2>1
  <2>3. o \in Seq(Nat) /\ Len(o) = Len(r)
    <3> HIDE DEF o
    <3> QED BY <1>1, <2>2, FunctionIsSeq
  <2> QED BY <2>1, <2>3
<1>3. PICK d \in 0..Len(r) : /\ \A i \in 1..d : r[i] + 1 >= W
                             /\ \A i \in (d + 1)..Len(r) : r[i] + 1 < W
  <2>1. CASE \E i \in 1..Len(r) : r[i] + 1 < W
    <3>1. PICK m \in 1..Len(r) : r[m] + 1 < W /\ \A n \in 1..Len(r) : r[n] + 1 < W => m <= n
      <4> DEFINE S == {i \in 1..Len(r) : r[i] + 1 < W}
      <4>1. S \subseteq Nat /\ S # {}
        BY <2>1
      <4>2. \E m \in S : \A n \in S : m <= n
        <5> HIDE DEF S
        <5> QED BY <4>1, SmallestIn
      <4> QED BY <4>2
    <3>2. ASSUME NEW i \in m..Len(r) PROVE r[i] + 1 < W
      <4>1. i \in 1..Len(r) /\ m <= i
        BY <3>1, <1>1
      <4>2. r[m] >= r[i] /\ r[m] \in Nat /\ r[i] \in Nat
        BY <3>1, <4>1, <1>1 DEF Tracks
      <4> QED BY <3>1, <4>2
    <3>3. ASSUME NEW i \in 1..(m - 1) PROVE r[i] + 1 >= W
      <4>1. i \in 1..Len(r) /\ ~(m <= i)
        BY <3>1, <1>1
      <4>2. ~(r[i] + 1 < W) /\ r[i] \in Nat
        BY <3>1, <4>1, <1>1
      <4> QED BY <4>2
    <3>4. m - 1 \in 0..Len(r) /\ (m - 1) + 1 = m
      BY <3>1, <1>1
    <3> QED BY <3>2, <3>3, <3>4
  <2>2. CASE ~\E i \in 1..Len(r) : r[i] + 1 < W
    <3>1. Len(r) \in 0..Len(r) /\ \A i \in 1..Len(r) : r[i] + 1 >= W
      BY <2>2, <1>0, <1>1, SMTT(40)
    <3>2. \A i \in (Len(r) + 1)..Len(r) : r[i] + 1 < W
      BY <1>1
    <3> QED BY <3>1, <3>2
  <2> QED BY <2>1, <2>2
<1> DEFINE n == SubSeq(o, d + 1, Len(o))
           v == Older(w, k)
<1>4. StillRecently(r, W) = n
  <2> HIDE DEF o
  <2>1. ASSUME NEW i \in 1..d PROVE o[i] >= W
    <3>1. i \in 1..Len(r)
      BY <1>1, <1>3
    <3> QED BY <3>1, <1>2, <1>3
  <2>2. \A i \in (d + 1)..Len(o) : o[i] < W
    BY <1>1, <1>2, <1>3, SMTT(40)
  <2>3. DropOld(o, W) = SubSeq(o, d + 1, Len(o))
    BY <1>0, <1>2, <1>3, <2>1, <2>2, DropOldDrops
  <2> QED BY <2>3 DEF StillRecently, o
<1> HIDE DEF o
<1>5. /\ n \in Seq(Nat) /\ Len(n) = Len(r) - d
      /\ \A i \in 1..Len(n) : i + d \in 1..Len(r) /\ n[i] = r[i + d] + 1
  <2>1. n \in Seq(Nat) /\ Len(n) = Len(r) - d /\ \A i \in 1..Len(n) : n[i] = o[i + d]
    <3>1. o \in Seq(Nat) /\ d \in 0..Len(o) /\ Len(o) = Len(r)
      BY <1>2, <1>3
    <3>2. PICK rest : rest = n
      OBVIOUS
    <3>3. rest \in Seq(Nat) /\ Len(rest) = Len(o) - d /\ \A i \in 1..Len(rest) : rest[i] = o[i + d]
      BY <3>1, <3>2, RestOf, SMTT(40)
    <3> HIDE DEF n
    <3> QED BY <3>1, <3>2, <3>3
  <2> HIDE DEF n
  <2>2. ASSUME NEW i \in 1..Len(n) PROVE i + d \in 1..Len(r)
    BY <2>1, <1>1, <1>3
  <2> QED BY <2>1, <2>2, <1>2
<1>6. /\ v \in Seq(Nat) /\ Len(v) = Len(w)
      /\ \A i \in 1..Len(w) : v[i] = IF w[i] < W THEN w[i] + 1 ELSE w[i]
  <2>1. DOMAIN w = 1..Len(w)
    BY <1>1
  <2>2. v = [i \in 1..Len(w) |-> IF w[i] < W THEN w[i] + 1 ELSE w[i]]
    BY <2>1, <1>0 DEF Older
  <2>3. v \in [1..Len(w) -> Nat]
    BY <2>2, <1>0, <1>1
  <2>4. \A i \in 1..Len(w) : v[i] = IF w[i] < W THEN w[i] + 1 ELSE w[i]
    BY <2>2
  <2> HIDE DEF v
  <2>5. v \in Seq(Nat) /\ Len(v) = Len(w)
    BY <2>3, <1>1, FunctionIsSeq
  <2> QED BY <2>4, <2>5
<1> HIDE DEF n, v
<1>7. Len(n) <= Len(v) /\ Len(n) <= Len(r) /\ Len(n) \in Nat
  BY <1>1, <1>3, <1>5, <1>6
<1>8. ASSUME NEW i \in 1..(Len(v) - Len(n)) PROVE v[i] >= W
  <2>1. i \in 1..Len(w) /\ i \in Nat
    BY <1>1, <1>6, <1>7, <1>8
  <2>2. CASE i <= Len(w) - Len(r)
    <3>1. w[i] >= W
      BY <1>0, <1>1, <2>1, <2>2 DEF Tracks
    <3> QED BY <3>1, <2>1, <1>0, <1>1, <1>6, SMTT(40)
  <2>3. CASE i > Len(w) - Len(r)
    <3>1. PICK j \in 1..d : i = Len(w) - Len(r) + j
      <4>1. i - (Len(w) - Len(r)) \in 1..d
        BY <1>1, <1>3, <1>5, <1>6, <1>8, <2>1, <2>3
      <4>2. i = Len(w) - Len(r) + (i - (Len(w) - Len(r)))
        BY <1>1, <2>1
      <4> QED BY <4>1, <4>2
    <3>2. j \in 1..Len(r)
      BY <1>1, <1>3, <3>1
    <3>3. w[i] = r[j] /\ r[j] + 1 >= W /\ r[j] < W /\ r[j] \in Nat
      BY <1>0, <1>1, <1>3, <3>1, <3>2 DEF Tracks
    <3> QED BY <3>3, <2>1, <1>0, <1>6
  <2> QED BY <2>1, <2>2, <2>3, <1>1
<1>9. ASSUME NEW i \in 1..Len(n) PROVE n[i] < W /\ v[Len(v) - Len(n) + i] = n[i]
  <2>1. i + d \in (d + 1)..Len(r) /\ i + d \in 1..Len(r) /\ n[i] = r[i + d] + 1
    BY <1>1, <1>3, <1>5, <1>7
  <2>2. n[i] < W
    BY <2>1, <1>3
  <2>3. Len(v) - Len(n) + i = Len(w) - Len(r) + (i + d) /\ Len(w) - Len(r) + (i + d) \in 1..Len(w)
    BY <1>1, <1>3, <1>5, <1>6, <1>7, <2>1
  <2>4. w[Len(w) - Len(r) + (i + d)] = r[i + d] /\ r[i + d] < W
    BY <1>0, <2>1 DEF Tracks
  <2>5. v[Len(w) - Len(r) + (i + d)] = r[i + d] + 1
    BY <1>6, <2>3, <2>4
  <2> QED BY <2>1, <2>2, <2>3, <2>5
<1>10. ASSUME NEW i \in 1..Len(n), NEW j \in 1..Len(n), i <= j PROVE n[i] >= n[j]
  <2>1. /\ i + d \in 1..Len(r) /\ j + d \in 1..Len(r) /\ i + d <= j + d
        /\ n[i] = r[i + d] + 1 /\ n[j] = r[j + d] + 1
    BY <1>3, <1>5, <1>7, <1>10
  <2>2. r[i + d] >= r[j + d]
    BY <2>1 DEF Tracks
  <2>3. r[i + d] \in Nat /\ r[j + d] \in Nat
    BY <2>1, <1>1
  <2> QED BY <2>1, <2>2, <2>3
<1>11. Tracks(v, n, W)
  BY <1>5, <1>6, <1>7, <1>8, <1>9, <1>10 DEF Tracks
<1> QED BY <1>0, <1>4, <1>7, <1>11 DEF v

\* It is enough to look at the two lists that a request is looked up in.
LEMMA OneSource ==
    ASSUME LimiterInv, NEW k \in Kinds, NEW s \in Sources, NEW a, NEW b, NEW ra, NEW rb,
           windows' = [windows EXCEPT ![k].of[s] = a, ![k].all = b],
           recent' = [recent EXCEPT ![k].of[s] = ra, ![k].all = rb],
           Tracks(a, ra, Window[k]), Len(ra) <= SourceLimit[k],
           Tracks(b, rb, Window[k]), Len(rb) <= GlobalLimit[k]
    PROVE  LimiterInv'
<1>1. a \in Seq(Nat) /\ b \in Seq(Nat) /\ ra \in Seq(Nat) /\ rb \in Seq(Nat)
  BY DEF Tracks
<1>2. windows \in [Kinds -> Lists] /\ recent \in [Kinds -> Lists]
  BY DEF LimiterInv
<1>3. windows' \in [Kinds -> Lists] /\ recent' \in [Kinds -> Lists]
  BY <1>1, <1>2 DEF Lists
<1>4. /\ windows'[k].all = b /\ recent'[k].all = rb
      /\ windows'[k].of = [windows[k].of EXCEPT ![s] = a]
      /\ recent'[k].of = [recent[k].of EXCEPT ![s] = ra]
      /\ \A l \in Kinds \ {k} : windows'[l] = windows[l] /\ recent'[l] = recent[l]
  BY <1>2 DEF Lists
<1>5. ASSUME NEW l \in Kinds
      PROVE  /\ Tracks(windows'[l].all, recent'[l].all, Window[l])
             /\ Len(recent'[l].all) <= GlobalLimit[l]
             /\ \A r \in Sources :
                   /\ Tracks(windows'[l].of[r], recent'[l].of[r], Window[l])
                   /\ Len(recent'[l].of[r]) <= SourceLimit[l]
  <2>1. CASE l # k
    BY <2>1, <1>4 DEF LimiterInv
  <2>2. CASE l = k
    <3>1. ASSUME NEW r \in Sources
          PROVE  /\ Tracks(windows'[k].of[r], recent'[k].of[r], Window[k])
                 /\ Len(recent'[k].of[r]) <= SourceLimit[k]
      <4>0. windows[k].of \in [Sources -> Seq(Nat)] /\ recent[k].of \in [Sources -> Seq(Nat)]
        BY <1>2 DEF Lists
      <4>1. CASE r = s
        <5>1. windows'[k].of[r] = a /\ recent'[k].of[r] = ra
          BY <4>0, <4>1, <1>4
        <5> QED BY <5>1
      <4>2. CASE r # s
        <5>1. windows'[k].of[r] = windows[k].of[r] /\ recent'[k].of[r] = recent[k].of[r]
          BY <4>0, <4>2, <1>4
        <5> QED BY <5>1 DEF LimiterInv
      <4> QED BY <4>1, <4>2
    <3> QED BY <2>2, <3>1, <1>4
  <2> QED BY <2>1, <2>2
<1> QED BY <1>3, <1>5 DEF LimiterInv

\* What _dispatch may do to the limiter: nothing, a look that refuses, or a look
\* that allows the request and counts it.
LEMMA DispatchLooks ==
    ASSUME NEW c \in Clients, Dispatch(c)
    PROVE  \E k \in Kinds, s \in Sources :
              \/ UNCHANGED <<windows, recent>>
              \/ windows' = Trimmed(windows, s, k) /\ UNCHANGED recent
              \/ /\ Allows(Trimmed(windows, s, k), s, k)
                 /\ windows' = Counted(Trimmed(windows, s, k), s, k)
                 /\ recent' = [recent EXCEPT ![k].of[s] = Append(@, 0), ![k].all = Append(@, 0)]
<1>1. Kind(conn[c].req) \in Kinds /\ SourceOf[c] \in Sources
  BY DEF Kind, Kinds, Sources
<1> QED BY <1>1, Zenon DEF Dispatch

LEMMA LookKeeps ==
    ASSUME LimiterInv, NEW k \in Kinds, NEW s \in Sources,
           \/ windows' = Trimmed(windows, s, k) /\ UNCHANGED recent
           \/ /\ Allows(Trimmed(windows, s, k), s, k)
              /\ windows' = Counted(Trimmed(windows, s, k), s, k)
              /\ recent' = [recent EXCEPT ![k].of[s] = Append(@, 0), ![k].all = Append(@, 0)]
    PROVE  LimiterInv'
<1>1. PICK ra, rb : ra = recent[k].of[s] /\ rb = recent[k].all
  OBVIOUS
<1>2. windows \in [Kinds -> Lists] /\ recent \in [Kinds -> Lists]
  BY DEF LimiterInv
<1>3. Window[k] \in Nat \ {0} /\ SourceLimit[k] \in Nat /\ GlobalLimit[k] \in Nat
  BY NodeAssumption
<1>4. /\ Tracks(windows[k].of[s], ra, Window[k]) /\ Tracks(windows[k].all, rb, Window[k])
      /\ Len(ra) <= SourceLimit[k] /\ Len(rb) <= GlobalLimit[k]
  BY <1>1 DEF LimiterInv
<1>5. /\ Trim(windows[k].of[s], k) = ra /\ Trim(windows[k].all, k) = rb
      /\ Tracks(ra, ra, Window[k]) /\ Tracks(rb, rb, Window[k])
  BY <1>3, <1>4, TrimLeaves DEF Trim
<1>6. PICK w : w = [windows EXCEPT ![k].of[s] = ra, ![k].all = rb]
  OBVIOUS
<1>7. Trimmed(windows, s, k) = w
  BY <1>5, <1>6 DEF Trimmed
<1>8. ra \in Seq(Nat) /\ rb \in Seq(Nat) /\ Len(ra) \in Nat /\ Len(rb) \in Nat
  BY <1>5 DEF Tracks
<1>9. CASE windows' = Trimmed(windows, s, k) /\ UNCHANGED recent
  <2>1. recent' = [recent EXCEPT ![k].of[s] = ra, ![k].all = rb]
    <3>1. recent[k] \in Lists /\ recent[k].of \in [Sources -> Seq(Nat)]
      BY <1>2 DEF Lists
    <3>2. [recent EXCEPT ![k].of[s] = ra, ![k].all = rb] = recent
      BY <1>1, <1>2, <3>1 DEF Lists
    <3> QED BY <3>2, <1>9
  <2>2. windows' = [windows EXCEPT ![k].of[s] = ra, ![k].all = rb]
    BY <1>6, <1>7, <1>9
  <2> QED BY ONLY LimiterInv, k \in Kinds, s \in Sources, <1>4, <1>5, <2>1, <2>2, OneSource
<1>10. CASE /\ Allows(Trimmed(windows, s, k), s, k)
            /\ windows' = Counted(Trimmed(windows, s, k), s, k)
            /\ recent' = [recent EXCEPT ![k].of[s] = Append(@, 0), ![k].all = Append(@, 0)]
  <2>1. /\ w \in [Kinds -> Lists] /\ w[k].of[s] = ra /\ w[k].all = rb
    BY <1>2, <1>6, <1>8, ZenonT(60) DEF Lists
  <2>2. Len(ra) < SourceLimit[k] /\ Len(rb) < GlobalLimit[k]
    BY <1>7, <1>10, <2>1 DEF Allows
  <2>3. PICK a, b : a = Append(ra, 0) /\ b = Append(rb, 0)
    OBVIOUS
  <2>4. /\ Tracks(a, a, Window[k]) /\ Len(a) = Len(ra) + 1
        /\ Tracks(b, b, Window[k]) /\ Len(b) = Len(rb) + 1
    BY <1>3, <1>5, <2>3, AppendTracks
  <2>5. Len(a) <= SourceLimit[k] /\ Len(b) <= GlobalLimit[k]
    BY <1>3, <1>8, <2>2, <2>4
  <2>6. recent' = [recent EXCEPT ![k].of[s] = a, ![k].all = b]
    BY <1>1, <1>10, <2>3
  <2>7. windows' = [w EXCEPT ![k].of[s] = a, ![k].all = b]
    BY <1>7, <1>10, <2>1, <2>3 DEF Counted
  <2>8. [w EXCEPT ![k].of[s] = a, ![k].all = b] = [windows EXCEPT ![k].of[s] = a, ![k].all = b]
    <3>1. windows[k].of \in [Sources -> Seq(Nat)]
      BY <1>2 DEF Lists
    <3>2. [w[k].of EXCEPT ![s] = a] = [windows[k].of EXCEPT ![s] = a]
      <4>1. w[k].of = [windows[k].of EXCEPT ![s] = ra]
        BY <1>2, <1>6 DEF Lists
      <4> QED BY <3>1, <4>1
    <3>3. windows[k] \in Lists /\ w[k] \in Lists
      BY <1>2, <2>1
    <3>4. [w[k] EXCEPT !.of[s] = a, !.all = b] = [windows[k] EXCEPT !.of[s] = a, !.all = b]
      BY <3>2, <3>3 DEF Lists
    <3>5. \A l \in Kinds \ {k} : w[l] = windows[l]
      BY <1>2, <1>6
    <3>6. /\ [w EXCEPT ![k].of[s] = a, ![k].all = b] =
                [w EXCEPT ![k] = [w[k] EXCEPT !.of[s] = a, !.all = b]]
          /\ [windows EXCEPT ![k].of[s] = a, ![k].all = b] =
                [windows EXCEPT ![k] = [windows[k] EXCEPT !.of[s] = a, !.all = b]]
      BY <1>2, <2>1
    <3> QED BY <1>2, <2>1, <3>4, <3>5, <3>6
  <2> QED BY <2>4, <2>5, <2>6, <2>7, <2>8, OneSource
<1> QED BY <1>9, <1>10

LEMMA TickKeeps ==
    ASSUME LimiterInv, Tick
    PROVE  LimiterInv'
<1>1. /\ windows' = [k \in Kinds |->
                       [of |-> [s \in Sources |-> Older(windows[k].of[s], k)],
                        all |-> Older(windows[k].all, k)]]
      /\ recent' = [k \in Kinds |->
                       [of |-> [s \in Sources |-> StillRecently(recent[k].of[s], Window[k])],
                        all |-> StillRecently(recent[k].all, Window[k])]]
  BY DEF Tick, StillRecently
<1>2. ASSUME NEW k \in Kinds
      PROVE  /\ Tracks(windows'[k].all, recent'[k].all, Window[k])
             /\ Len(recent'[k].all) <= GlobalLimit[k]
             /\ \A s \in Sources :
                   /\ Tracks(windows'[k].of[s], recent'[k].of[s], Window[k])
                   /\ Len(recent'[k].of[s]) <= SourceLimit[k]
  <2>0. SourceLimit[k] \in Nat /\ GlobalLimit[k] \in Nat
    BY NodeAssumption
  <2>1. /\ windows'[k].all = Older(windows[k].all, k)
        /\ recent'[k].all = StillRecently(recent[k].all, Window[k])
        /\ \A s \in Sources :
              /\ windows'[k].of[s] = Older(windows[k].of[s], k)
              /\ recent'[k].of[s] = StillRecently(recent[k].of[s], Window[k])
    BY <1>1
  <2>2. ASSUME NEW w, NEW r, NEW n \in Nat, Tracks(w, r, Window[k]), Len(r) <= n
        PROVE  /\ Tracks(Older(w, k), StillRecently(r, Window[k]), Window[k])
               /\ Len(StillRecently(r, Window[k])) <= n
    <3>1. /\ Tracks(Older(w, k), StillRecently(r, Window[k]), Window[k])
          /\ Len(StillRecently(r, Window[k])) <= Len(r)
      BY <2>2, TickTracks
    <3>2. Len(r) \in Nat /\ Len(StillRecently(r, Window[k])) \in Nat
      BY <2>2, <3>1 DEF Tracks
    <3> QED BY <2>2, <3>1, <3>2
  <2> QED BY <2>0, <2>1, <2>2 DEF LimiterInv
<1>3. windows' \in [Kinds -> Lists] /\ recent' \in [Kinds -> Lists]
  <2>1. \A k \in Kinds : /\ windows'[k].all \in Seq(Nat) /\ recent'[k].all \in Seq(Nat)
                         /\ \A s \in Sources : /\ windows'[k].of[s] \in Seq(Nat)
                                                /\ recent'[k].of[s] \in Seq(Nat)
    BY <1>2 DEF Tracks
  <2>2. ASSUME NEW k \in Kinds PROVE windows'[k] \in Lists /\ recent'[k] \in Lists
    BY <1>1, <2>1 DEF Lists
  <2>3. windows' = [k \in Kinds |-> windows'[k]] /\ recent' = [k \in Kinds |-> recent'[k]]
    BY <1>1
  <2> QED BY <2>2, <2>3
<1> QED BY <1>2, <1>3 DEF LimiterInv

LEMMA NoRequestsTracks ==
    /\ NoRequests \in [Kinds -> Lists]
    /\ \A k \in Kinds :
          /\ Tracks(NoRequests[k].all, NoRequests[k].all, Window[k])
          /\ Len(NoRequests[k].all) <= GlobalLimit[k]
          /\ \A s \in Sources : /\ Tracks(NoRequests[k].of[s], NoRequests[k].of[s], Window[k])
                                 /\ Len(NoRequests[k].of[s]) <= SourceLimit[k]
<1>1. \A k \in Kinds : SourceLimit[k] \in Nat /\ GlobalLimit[k] \in Nat
  BY NodeAssumption
<1>2. \A k \in Kinds : /\ NoRequests[k].all = <<>>
                       /\ \A s \in Sources : NoRequests[k].of[s] = <<>>
  BY DEF NoRequests
<1>3. \A k \in Kinds : Tracks(<<>>, <<>>, Window[k])
  BY DEF Tracks
<1>4. NoRequests \in [Kinds -> Lists]
  BY DEF NoRequests, Lists
<1> QED BY <1>1, <1>2, <1>3, <1>4

LEMMA LimiterInit == Init => LimiterInv
  BY NoRequestsTracks DEF Init, LimiterInv

LEMMA LimiterStep == LimiterInv /\ [Next]_vars => LimiterInv'
<1> SUFFICES ASSUME LimiterInv, [Next]_vars PROVE LimiterInv'
  OBVIOUS
<1>1. ASSUME UNCHANGED <<windows, recent>> PROVE LimiterInv'
  BY <1>1 DEF LimiterInv
<1>2. ASSUME NEW c \in Clients, Dispatch(c) PROVE LimiterInv'
  <2>1. PICK k \in Kinds, s \in Sources :
              \/ UNCHANGED <<windows, recent>>
              \/ windows' = Trimmed(windows, s, k) /\ UNCHANGED recent
              \/ /\ Allows(Trimmed(windows, s, k), s, k)
                 /\ windows' = Counted(Trimmed(windows, s, k), s, k)
                 /\ recent' = [recent EXCEPT ![k].of[s] = Append(@, 0), ![k].all = Append(@, 0)]
    BY <1>2, DispatchLooks
  <2> QED BY <2>1, <1>1, LookKeeps
<1>3. ASSUME NEW c \in Clients,
             Body(c) \/ PublishGet(c) \/ PublishAdd(c) \/ GiveUp(c)
      PROVE  LimiterInv'
  BY <1>1, <1>3 DEF Body, PublishGet, PublishAdd, GiveUp, ghosts
<1>4. ASSUME NEW c \in Clients, NEW q \in RequestsOf[c], Send(c, q) PROVE LimiterInv'
  BY <1>1, <1>4 DEF Send, ghosts
<1>5. CASE Tick
  BY <1>5, TickKeeps
<1>6. CASE Restart
  <2>1. windows' = NoRequests /\ recent' = NoRequests
    BY <1>6 DEF Restart
  <2> QED BY <2>1, NoRequestsTracks DEF LimiterInv
<1>7. ASSUME NEW e \in Records \cup Events, LocalAdd(e) PROVE LimiterInv'
  BY <1>1, <1>7 DEF LocalAdd
<1>8. ASSUME NEW d \in Records, SetPolicy(d) PROVE LimiterInv'
  BY <1>1, <1>8 DEF SetPolicy, ghosts
<1>9. CASE UNCHANGED vars
  BY <1>1, <1>9 DEF vars, ghosts
<1> QED BY <1>2, <1>3, <1>4, <1>5, <1>6, <1>7, <1>8, <1>9 DEF Next, Handle

\* _WindowLimiter: however requests of many addresses interleave with time and
\* restarts, no address and not all of them together are allowed more requests in a
\* window than the limits, refused requests being looked at in between.
THEOREM LimitsHold == Spec => []RateBound
<1>1. LimiterInv => RateBound
  BY DEF LimiterInv, RateBound
<1> QED BY <1>1, LimiterInit, LimiterStep, PTL DEF Spec

-----------------------------------------------------------------------------
\* What the policy withholds.

PrivacyInv ==
    /\ sealed \subseteq withheld
    /\ DOMAIN held = Clients
    /\ WithheldStaysHome

\* What a client may be sent: of what is withheld, only the experiment.
Discreet(r) == r.records \cap withheld \subseteq Experiments

LEMMA FirstOfSubset ==
    ASSUME NEW S, NEW n
    PROVE  FirstOf(S, n) \subseteq S
  BY DEF FirstOf

\* An answer that is too large carries nothing.
LEMMA RespondDiscreet ==
    ASSUME NEW E, NEW next, E \cap withheld \subseteq Experiments
    PROVE  Discreet(Respond(E, next))
<1>1. Respond(E, next).records \subseteq E
  BY DEF Respond, Refused, Sent
<1> QED BY <1>1 DEF Discreet

\* Each route leaves out what is withheld.
LEMMA ServedDiscreet ==
    ASSUME NEW c, NEW q
    PROVE  Discreet(Served(c, q))
<1>1. \A code : Discreet(Refused(code))
  BY DEF Discreet, Refused
<1>2. Discreet(Ok({}))
  BY RespondDiscreet DEF Ok
<1>3. ASSUME NEW S PROVE Discreet(Ok(Visible(S)))
  BY RespondDiscreet DEF Ok, Visible
<1>4. Discreet(GetRecord(q.record))
  <2>1. q.record \notin withheld => Discreet(Ok({q.record}))
    BY RespondDiscreet DEF Ok
  <2> HIDE DEF Discreet
  <2> QED BY <1>1, <2>1 DEF GetRecord
<1>5. Discreet(Work) /\ Discreet(Discover)
  <2>1. \A S : Discreet(Sent(Visible(S), None))
    BY DEF Discreet, Sent, Visible
  <2> QED BY <1>3, <2>1 DEF Work, Discover
<1>6. Discreet(Query)
  <2>1. FirstOf(Visible(Stored), MaxResults) \cap withheld \subseteq Experiments
    BY FirstOfSubset DEF Visible
  <2> QED BY <2>1, RespondDiscreet DEF Query, Ok
<1>7. Discreet(Sync(cursor[c], q.limit))
  <2>1. Discreet(SyncPage(cursor[c], q.limit))
    BY RespondDiscreet DEF SyncPage, Visible
  <2> QED BY <1>1, <2>1 DEF Sync
<1>8. Discreet(EvidenceTrace(q.record))
  BY <1>3 DEF EvidenceTrace
<1>9. Discreet(Experiment)
  <2>1. PICK revisions : revisions = Stored \cap Experiments
    OBVIOUS
  <2>2. PICK around : around = Around(Max(revisions), 3)
    OBVIOUS
  <2>3. Discreet(Ok(revisions \cup Visible(around)))
    BY <2>1, RespondDiscreet DEF Ok, Visible
  <2>4. Experiment = IF revisions = {} THEN Refused("STORE_UNAVAILABLE")
                     ELSE Ok(revisions \cup Visible(around))
    BY <2>1, <2>2 DEF Experiment
  <2> QED BY <1>1, <2>3, <2>4
<1> HIDE DEF Discreet
<1> QED BY <1>2, <1>4, <1>5, <1>6, <1>7, <1>8, <1>9 DEF Served

LEMMA AnswerDiscreet ==
    ASSUME PrivacyInv, NEW c \in Clients, NEW r, Discreet(r), Answer(c, r),
           UNCHANGED <<withheld, sealed>>
    PROVE  PrivacyInv'
<1>1. held' = [held EXCEPT ![c] = IF conn[c].there /\ r.status # "error"
                                  THEN @ \cup r.records ELSE @]
  BY DEF Answer
<1>2. DOMAIN held' = Clients
  BY <1>1 DEF PrivacyInv
<1>3. ASSUME NEW d \in Clients PROVE held'[d] \subseteq held[d] \cup (r.records \cap held'[d])
  BY <1>1 DEF PrivacyInv
<1>4. ASSUME NEW d \in Clients PROVE held'[d] \cap sealed' \subseteq Experiments
  BY <1>3 DEF PrivacyInv, WithheldStaysHome, Discreet
<1> QED BY <1>2, <1>4 DEF PrivacyInv, WithheldStaysHome

LEMMA PrivacyStep == PrivacyInv /\ [Next]_vars => PrivacyInv'
<1> SUFFICES ASSUME PrivacyInv, [Next]_vars PROVE PrivacyInv'
  OBVIOUS
<1>1. ASSUME UNCHANGED <<held, withheld, sealed>> PROVE PrivacyInv'
  BY <1>1 DEF PrivacyInv, WithheldStaysHome
<1>2. \A code : Discreet(Refused(code))
  BY DEF Discreet, Refused
<1>3. Discreet(Ok({}))
  BY RespondDiscreet DEF Ok
<1>4. ASSUME NEW c \in Clients, Dispatch(c) PROVE PrivacyInv'
  <2>1. UNCHANGED <<withheld, sealed>>
    BY <1>4 DEF Dispatch
  <2>2. \/ UNCHANGED held
        \/ \E r : Answer(c, r) /\ Discreet(r)
    BY <1>2, <1>4, ServedDiscreet, Zenon DEF Dispatch
  <2> QED BY <1>1, <2>1, <2>2, AnswerDiscreet
<1>5. ASSUME NEW c \in Clients, Body(c) PROVE PrivacyInv'
  <2>1. UNCHANGED <<withheld, sealed>>
    BY <1>5 DEF Body, ghosts
  <2>2. \/ UNCHANGED held
        \/ \E r : Answer(c, r) /\ Discreet(r)
    BY <1>2, <1>5, ServedDiscreet, Zenon DEF Body
  <2> QED BY <1>1, <2>1, <2>2, AnswerDiscreet
<1>6. ASSUME NEW c \in Clients, PublishAdd(c) PROVE PrivacyInv'
  <2>1. UNCHANGED <<withheld, sealed>>
    BY <1>6 DEF PublishAdd
  <2>2. \E r : Answer(c, r) /\ Discreet(r)
    BY <1>2, <1>3, <1>6, Zenon DEF PublishAdd
  <2> QED BY <2>1, <2>2, AnswerDiscreet
<1>7. ASSUME NEW c \in Clients, PublishGet(c) \/ GiveUp(c) PROVE PrivacyInv'
  BY <1>1, <1>7 DEF PublishGet, GiveUp, ghosts
<1>8. ASSUME NEW c \in Clients, NEW q \in RequestsOf[c], Send(c, q) PROVE PrivacyInv'
  BY <1>1, <1>8 DEF Send, ghosts
<1>9. CASE Tick
  BY <1>1, <1>9 DEF Tick
<1>10. CASE Restart
  BY <1>10 DEF Restart, PrivacyInv, WithheldStaysHome
<1>11. ASSUME NEW e \in Records \cup Events, LocalAdd(e) PROVE PrivacyInv'
  BY <1>1, <1>11 DEF LocalAdd
<1>12. ASSUME NEW d \in Records, SetPolicy(d) PROVE PrivacyInv'
  BY <1>1, <1>12 DEF SetPolicy, ghosts
<1>13. CASE UNCHANGED vars
  BY <1>1, <1>13 DEF vars, ghosts
<1> QED
  BY <1>4, <1>5, <1>6, <1>7, <1>8, <1>9, <1>10, <1>11, <1>12, <1>13 DEF Next, Handle

\* VisibilityPolicy on every route: a record that each start of the node found
\* withheld reaches no client by any of them, whatever is published, linked, listed
\* or synchronized, except as a revision of the experiment that was asked for.
THEOREM WithheldIsKept == Spec => []WithheldStaysHome
<1>1. Init => PrivacyInv
  BY DEF Init, PrivacyInv, WithheldStaysHome
<1>2. PrivacyInv => WithheldStaysHome
  BY DEF PrivacyInv
<1> QED BY <1>1, <1>2, PrivacyStep, PTL DEF Spec

-----------------------------------------------------------------------------
\* Publications.

Talks(c) ==
    [at : {"sent", "body", "get", "add"}, req : RequestsOf[c], there : BOOLEAN, total : Nat]

\* A connection of client c may be as x: what is being published was admitted, and a
\* publication that did not find its record was preceded by no 201 for it.
Fine(c, x) ==
    /\ x = Idle \/ x \in Talks(c)
    /\ x.at \in {"get", "add"} => x.req.record \in PublicRecords
    /\ x.at = "add" => /\ x.total \in {0, 1}
                       /\ x.total = 0 => ingested[x.req.record] = 0

LedgerInv ==
    /\ ledger \in Seq(Records \cup Events)
    /\ \A i, j \in 1..Len(ledger) : ledger[i] = ledger[j] => i = j
    /\ acked \subseteq Stored
    /\ ingested \in [Records -> {0, 1}]
    /\ \A r \in Records : ingested[r] = 1 => r \in Stored

ConnInv ==
    /\ DOMAIN conn = Clients
    /\ \A c \in Clients : Fine(c, conn[c])
    /\ \A c, d \in Publishing : c = d

PublishInv == LedgerInv /\ ConnInv

LEMMA IdleFine == ASSUME NEW c PROVE Fine(c, Idle)
  BY DEF Fine, Idle

\* It is enough to look at one client, which publishes only when no other does.
LEMMA OneClient ==
    ASSUME ConnInv, NEW c \in Clients, NEW x, Fine(c, x), conn' = [conn EXCEPT ![c] = x],
           UNCHANGED ingested,
           x.at \in {"get", "add"} => Publishing \subseteq {c}
    PROVE  ConnInv'
<1>1. DOMAIN conn' = Clients /\ conn'[c] = x /\ \A d \in Clients \ {c} : conn'[d] = conn[d]
  BY DEF ConnInv
<1>2. ASSUME NEW d \in Clients PROVE Fine(d, conn[d])'
  <2>1. CASE d = c
    BY <1>1, <2>1 DEF Fine
  <2>2. CASE d # c
    <3>1. Fine(d, conn[d]) /\ conn'[d] = conn[d]
      BY <1>1, <2>2 DEF ConnInv
    <3> QED BY <3>1 DEF Fine
  <2> QED BY <2>1, <2>2
<1>3. \A d, e \in Publishing' : d = e
  <2>1. \A d \in Publishing' : d \in Clients /\ conn'[d].at \in {"get", "add"}
    BY DEF Publishing
  <2>2. \A d \in Publishing' \ {c} : d \in Publishing
    BY <1>1, <2>1 DEF Publishing
  <2>3. c \in Publishing' => Publishing \subseteq {c}
    BY <1>1, <2>1
  <2> QED BY <2>2, <2>3 DEF ConnInv
<1> QED BY <1>1, <1>2, <1>3 DEF ConnInv

LEMMA LedgerSame ==
    ASSUME LedgerInv, UNCHANGED <<ledger, acked, ingested>>
    PROVE  LedgerInv'
  BY DEF LedgerInv, Stored

\* An entry that is not there is appended.
LEMMA LedgerAppends ==
    ASSUME LedgerInv, NEW e \in Records \cup Events, e \notin Range(ledger),
           ledger' = Append(ledger, e)
    PROVE  /\ ledger' \in Seq(Records \cup Events)
           /\ \A i, j \in 1..Len(ledger') : ledger'[i] = ledger'[j] => i = j
           /\ Range(ledger') = Range(ledger) \cup {e}
<1>1. ledger \in Seq(Records \cup Events) /\ Len(ledger) \in Nat
  BY DEF LedgerInv
<1>2. /\ ledger' \in Seq(Records \cup Events) /\ Len(ledger') = Len(ledger) + 1
      /\ \A i \in 1..Len(ledger) : ledger'[i] = ledger[i]
      /\ ledger'[Len(ledger) + 1] = e
  BY <1>1
<1>3. DOMAIN ledger = 1..Len(ledger) /\ DOMAIN ledger' = 1..Len(ledger')
  BY <1>1, <1>2
<1>4. \A i \in 1..Len(ledger') : i \in 1..Len(ledger) \/ i = Len(ledger) + 1
  BY <1>1, <1>2
<1>5. \A i \in 1..Len(ledger) : ledger[i] # e
  BY <1>3 DEF Range
<1>6. \A i, j \in 1..Len(ledger') : ledger'[i] = ledger'[j] => i = j
  BY <1>2, <1>4, <1>5 DEF LedgerInv
<1>7. Range(ledger') = Range(ledger) \cup {e}
  <2>1. Range(ledger') \subseteq Range(ledger) \cup {e}
    BY <1>2, <1>3, <1>4 DEF Range
  <2>2. Range(ledger) \subseteq Range(ledger')
    <3>1. \A i \in 1..Len(ledger) : i \in 1..Len(ledger')
      BY <1>1, <1>2
    <3> QED BY <3>1, <1>2, <1>3 DEF Range
  <2>3. e \in Range(ledger')
    <3>1. Len(ledger) + 1 \in DOMAIN ledger'
      BY <1>1, <1>2, <1>3
    <3> QED BY <3>1, <1>2 DEF Range
  <2> QED BY <2>1, <2>2, <2>3
<1> QED BY <1>2, <1>6, <1>7

LEMMA LocalAddPublish ==
    ASSUME PublishInv, NEW e \in Records \cup Events, LocalAdd(e)
    PROVE  PublishInv'
<1>1. /\ e \notin Range(ledger) /\ ledger' = Append(ledger, e)
      /\ UNCHANGED <<conn, ingested, acked>>
  BY DEF LocalAdd
<1>2. LedgerInv'
  BY <1>1, LedgerAppends DEF PublishInv, LedgerInv, Stored
<1>3. ConnInv'
  BY <1>1 DEF PublishInv, ConnInv, Fine, Publishing
<1> QED BY <1>2, <1>3 DEF PublishInv

\* Who is answered is idle, and nothing is stored.
LEMMA AnsweredPublish ==
    ASSUME PublishInv, NEW c \in Clients, conn' = [conn EXCEPT ![c] = Idle],
           UNCHANGED <<ledger, acked, ingested>>
    PROVE  PublishInv'
<1>1. ConnInv'
  <2>1. Idle.at \notin {"get", "add"}
    BY DEF Idle
  <2> QED BY <2>1, IdleFine, OneClient DEF PublishInv
<1> QED BY <1>1, LedgerSame DEF PublishInv

LEMMA DispatchPublish ==
    ASSUME PublishInv, NEW c \in Clients, Dispatch(c)
    PROVE  PublishInv'
<1>1. UNCHANGED <<ledger, acked, ingested>> /\ conn[c].at = "sent"
  BY DEF Dispatch, store
<1>2. \/ conn' = [conn EXCEPT ![c] = Idle]
      \/ conn' = [conn EXCEPT ![c].at = "body"]
  BY Zenon DEF Dispatch, Answer
<1>3. CASE conn' = [conn EXCEPT ![c].at = "body"]
  <2>1. PICK x : x = [conn[c] EXCEPT !.at = "body"]
    OBVIOUS
  <2>2. conn' = [conn EXCEPT ![c] = x]
    BY <1>3, <2>1
  <2>3. conn[c] \in Talks(c)
    BY <1>1 DEF PublishInv, ConnInv, Fine, Idle
  <2>4. x.at = "body" /\ x \in Talks(c)
    BY <2>1, <2>3 DEF Talks
  <2>5. Fine(c, x)
    BY <2>4 DEF Fine
  <2> QED BY <1>1, <2>2, <2>4, <2>5, OneClient, LedgerSame DEF PublishInv
<1> QED BY <1>1, <1>2, <1>3, AnsweredPublish

LEMMA BodyPublish ==
    ASSUME PublishInv, NEW c \in Clients, Body(c)
    PROVE  PublishInv'
<1>1. UNCHANGED <<ledger, acked, ingested>> /\ conn[c].at = "body" /\ Publishing = {}
  BY DEF Body, store, ghosts, Free
<1>2. \/ conn' = [conn EXCEPT ![c] = Idle]
      \/ conn' = [conn EXCEPT ![c].total = conn[c].total + 1]
      \/ Admit(conn[c].req) = None /\ conn' = [conn EXCEPT ![c].at = "get"]
  BY Zenon DEF Body, Answer
<1>3. conn[c] \in Talks(c)
  BY <1>1 DEF PublishInv, ConnInv, Fine, Idle
<1>4. CASE conn' = [conn EXCEPT ![c].total = conn[c].total + 1]
  <2>1. PICK x : x = [conn[c] EXCEPT !.total = conn[c].total + 1]
    OBVIOUS
  <2>2. conn' = [conn EXCEPT ![c] = x]
    BY <1>4, <2>1
  <2>3. x.at = "body" /\ x \in Talks(c)
    BY <1>1, <1>3, <2>1 DEF Talks
  <2>4. Fine(c, x)
    BY <2>3 DEF Fine
  <2> QED BY <1>1, <2>2, <2>3, <2>4, OneClient, LedgerSame DEF PublishInv
<1>5. CASE Admit(conn[c].req) = None /\ conn' = [conn EXCEPT ![c].at = "get"]
  <2>1. PICK x : x = [conn[c] EXCEPT !.at = "get"]
    OBVIOUS
  <2>2. conn' = [conn EXCEPT ![c] = x]
    BY <1>5, <2>1
  <2>3. x.at = "get" /\ x \in Talks(c) /\ x.req = conn[c].req
    BY <1>3, <2>1 DEF Talks
  <2>4. conn[c].req.record \in PublicRecords
    BY <1>5, NodeAssumption DEF Admit, Exchangeable
  <2>5. Fine(c, x)
    BY <2>3, <2>4 DEF Fine
  <2> QED BY <1>1, <2>2, <2>3, <2>5, OneClient, LedgerSame DEF PublishInv
<1> QED BY <1>1, <1>2, <1>4, <1>5, AnsweredPublish

LEMMA GetPublish ==
    ASSUME PublishInv, NEW c \in Clients, PublishGet(c)
    PROVE  PublishInv'
<1>1. UNCHANGED <<ledger, acked, ingested>> /\ conn[c].at = "get"
  BY DEF PublishGet, store, ghosts
<1>2. conn[c] \in Talks(c) /\ conn[c].req.record \in PublicRecords
  BY <1>1 DEF PublishInv, ConnInv, Fine, Idle
<1>3. PICK n \in Nat : n \in {0, 1} /\ n = IF conn[c].req.record \in Stored THEN 1 ELSE 0
  OBVIOUS
<1>4. PICK x : x = [conn[c] EXCEPT !.at = "add", !.total = n]
  OBVIOUS
<1>5. conn' = [conn EXCEPT ![c] = x]
  BY <1>3, <1>4 DEF PublishGet
<1>6. x.at = "add" /\ x \in Talks(c) /\ x.req = conn[c].req /\ x.total = n
  BY <1>2, <1>4 DEF Talks
<1>7. n = 0 => ingested[conn[c].req.record] = 0
  BY <1>2, <1>3, NodeAssumption DEF PublishInv, LedgerInv
<1>8. Fine(c, x)
  BY <1>2, <1>3, <1>6, <1>7 DEF Fine
<1>9. Publishing \subseteq {c}
  BY <1>1 DEF PublishInv, ConnInv, Publishing
<1> QED BY <1>1, <1>5, <1>6, <1>8, <1>9, OneClient, LedgerSame DEF PublishInv

LEMMA AddPublish ==
    ASSUME PublishInv, NEW c \in Clients, PublishAdd(c)
    PROVE  PublishInv'
<1>1. PICK r : r = conn[c].req.record
  OBVIOUS
<1>2. PICK refused \in BOOLEAN : refused = Diagnosed(r)
  BY DEF Diagnosed
<1>3. /\ conn[c].at = "add"
      /\ ledger' = IF ~refused /\ r \notin Stored THEN Append(ledger, r) ELSE ledger
      /\ conn' = [conn EXCEPT ![c] = Idle]
      /\ ingested' = IF refused \/ conn[c].total = 1 THEN ingested
                     ELSE [ingested EXCEPT ![r] = @ + 1]
      /\ acked' = IF refused THEN acked ELSE acked \cup {r}
  BY <1>1, <1>2 DEF PublishAdd, Answer, Admits
<1>4. /\ r \in Records /\ conn[c].total \in {0, 1}
      /\ conn[c].total = 0 => ingested[r] = 0
  BY <1>1, <1>3, NodeAssumption DEF PublishInv, ConnInv, Fine
<1>5. CASE refused
  BY <1>3, <1>5, AnsweredPublish
<1>6. CASE ~refused
  <2>1. /\ ledger' \in Seq(Records \cup Events)
        /\ \A i, j \in 1..Len(ledger') : ledger'[i] = ledger'[j] => i = j
        /\ Range(ledger') = Range(ledger) \cup {r}
    <3>1. CASE r \in Stored
      BY <1>3, <3>1 DEF PublishInv, LedgerInv, Stored
    <3>2. CASE r \notin Stored
      <4>1. r \notin Range(ledger) /\ ledger' = Append(ledger, r)
        BY <1>3, <1>4, <1>6, <3>2 DEF Stored
      <4> QED BY <4>1, <1>4, LedgerAppends DEF PublishInv
    <3> QED BY <3>1, <3>2
  <2>2. Stored' = Stored \cup {r}
    BY <2>1, <1>4 DEF Stored
  <2>3. acked' \subseteq Stored'
    BY <1>3, <1>6, <2>2 DEF PublishInv, LedgerInv
  <2>4. ingested' \in [Records -> {0, 1}] /\ \A s \in Records \ {r} : ingested'[s] = ingested[s]
    BY <1>3, <1>4, <1>6 DEF PublishInv, LedgerInv
  <2>5. \A s \in Records : ingested'[s] = 1 => s \in Stored'
    BY <2>2, <2>4 DEF PublishInv, LedgerInv
  <2>6. LedgerInv'
    BY <2>1, <2>3, <2>4, <2>5 DEF LedgerInv
  <2>7. DOMAIN conn' = Clients /\ conn'[c] = Idle /\ \A d \in Clients \ {c} : conn'[d] = conn[d]
    BY <1>3 DEF PublishInv, ConnInv
  <2>8. ASSUME NEW d \in Clients PROVE d \notin Publishing' /\ Fine(d, conn[d])'
    <3>1. CASE d = c
      <4>1. conn'[d] = Idle
        BY <2>7, <3>1
      <4>2. Idle.at = "idle"
        BY DEF Idle
      <4> QED BY <4>1, <4>2 DEF Fine, Publishing
    <3>2. CASE d # c
      <4>1. conn'[d] = conn[d] /\ Fine(d, conn[d])
        BY <2>7, <3>2 DEF PublishInv, ConnInv
      <4>2. conn[d].at \notin {"get", "add"}
        BY <1>3, <3>2 DEF PublishInv, ConnInv, Publishing
      <4> QED BY <4>1, <4>2 DEF Fine, Publishing
    <3> QED BY <3>1, <3>2
  <2>9. ConnInv'
    BY <2>7, <2>8 DEF ConnInv, Publishing
  <2> QED BY <2>6, <2>9 DEF PublishInv
<1> QED BY <1>5, <1>6

LEMMA PublishStep == PublishInv /\ [Next]_vars => PublishInv'
<1> SUFFICES ASSUME PublishInv, [Next]_vars PROVE PublishInv'
  OBVIOUS
<1>1. ASSUME UNCHANGED <<conn, ledger, acked, ingested>> PROVE PublishInv'
  BY <1>1, LedgerSame DEF PublishInv, ConnInv, Fine, Publishing
<1>2. ASSUME NEW c \in Clients, Handle(c) PROVE PublishInv'
  BY <1>2, DispatchPublish, BodyPublish, GetPublish, AddPublish DEF Handle
<1>3. ASSUME NEW c \in Clients, GiveUp(c) PROVE PublishInv'
  <2>1. UNCHANGED <<ledger, acked, ingested>> /\ conn[c].at # "idle"
    BY <1>3 DEF GiveUp, ghosts
  <2>2. PICK x : x = [conn[c] EXCEPT !.there = FALSE]
    OBVIOUS
  <2>3. conn' = [conn EXCEPT ![c] = x]
    BY <1>3, <2>2 DEF GiveUp
  <2>4. conn[c] \in Talks(c)
    BY <2>1 DEF PublishInv, ConnInv, Fine, Idle
  <2>5. x \in Talks(c) /\ x.at = conn[c].at /\ x.req = conn[c].req /\ x.total = conn[c].total
    BY <2>2, <2>4 DEF Talks
  <2>6. Fine(c, x)
    BY <2>5 DEF PublishInv, ConnInv, Fine
  <2>7. x.at \in {"get", "add"} => Publishing \subseteq {c}
    BY <2>5 DEF PublishInv, ConnInv, Publishing
  <2> QED BY <2>1, <2>3, <2>6, <2>7, OneClient, LedgerSame DEF PublishInv
<1>4. ASSUME NEW c \in Clients, NEW q \in RequestsOf[c], Send(c, q) PROVE PublishInv'
  <2>1. UNCHANGED <<ledger, acked, ingested>>
    BY <1>4 DEF Send, store, ghosts
  <2>2. PICK x : x = [at |-> "sent", req |-> q, there |-> TRUE, total |-> 0]
    OBVIOUS
  <2>3. conn' = [conn EXCEPT ![c] = x]
    BY <1>4, <2>2 DEF Send
  <2>4. x \in Talks(c) /\ x.at = "sent"
    BY <1>4, <2>2 DEF Talks
  <2>5. Fine(c, x)
    BY <2>4 DEF Fine
  <2> QED BY <2>1, <2>3, <2>4, <2>5, OneClient, LedgerSame DEF PublishInv
<1>5. CASE Tick
  BY <1>1, <1>5 DEF Tick, store
<1>6. CASE Restart
  <2>1. UNCHANGED <<ledger, acked, ingested>> /\ conn' = [c \in Clients |-> Idle]
    BY <1>6 DEF Restart
  <2>2. Idle.at = "idle"
    BY DEF Idle
  <2>3. Publishing' = {}
    BY <2>1, <2>2 DEF Publishing
  <2>4. ConnInv'
    BY <2>1, <2>2, <2>3 DEF ConnInv, Fine
  <2> QED BY <2>1, <2>4, LedgerSame DEF PublishInv
<1>7. ASSUME NEW e \in Records \cup Events, LocalAdd(e) PROVE PublishInv'
  BY <1>7, LocalAddPublish
<1>8. ASSUME NEW d \in Records, SetPolicy(d) PROVE PublishInv'
  BY <1>1, <1>8 DEF SetPolicy, ghosts
<1>9. CASE UNCHANGED vars
  BY <1>1, <1>9 DEF vars, store, ghosts
<1> QED BY <1>2, <1>3, <1>4, <1>5, <1>6, <1>7, <1>8, <1>9 DEF Next

LEMMA PublishInit == Init => PublishInv
<1> SUFFICES ASSUME Init PROVE PublishInv
  OBVIOUS
<1>1. LedgerInv
  BY DEF Init, LedgerInv, Stored, Range
<1>2. Idle.at = "idle"
  BY DEF Idle
<1>3. Publishing = {} /\ DOMAIN conn = Clients /\ \A c \in Clients : conn[c] = Idle
  BY <1>2 DEF Init, Publishing
<1>4. ConnInv
  BY <1>3, IdleFine DEF ConnInv
<1> QED BY <1>1, <1>4 DEF PublishInv

\* publish of application/services.py behind the HTTP route: a record is answered
\* 201 at most once, and what was answered 200 or 201 is in the ledger exactly once,
\* whatever is retried, given up or restarted and whatever the local process adds
\* between the read and the write of a publication.
THEOREM PublishedOnce == Spec => []IngestedOnce
<1>1. ASSUME PublishInv PROVE IngestedOnce
  <2>1. \A r \in Records : ingested[r] <= 1
    BY <1>1 DEF PublishInv, LedgerInv
  <2>2. ASSUME NEW r \in acked
        PROVE  Cardinality({i \in DOMAIN ledger : ledger[i] = r}) = 1
    <3>1. DOMAIN ledger = 1..Len(ledger)
      BY <1>1 DEF PublishInv, LedgerInv
    <3>2. PICK n \in DOMAIN ledger : ledger[n] = r
      BY <1>1, <2>2 DEF PublishInv, LedgerInv, Stored, Range
    <3>3. {i \in DOMAIN ledger : ledger[i] = r} = {n}
      BY <1>1, <3>1, <3>2 DEF PublishInv, LedgerInv
    <3> QED BY <3>3, FS_Singleton
  <2> QED BY <2>1, <2>2 DEF IngestedOnce
<1> QED BY <1>1, PublishInit, PublishStep, PTL DEF Spec
=============================================================================
