------------------------- MODULE LocalServiceProofs -------------------------
(***************************************************************************)
(* Proofs about the controller-local service, for any number of servers,   *)
(* connections and requests, any size of the pool of slots and of the      *)
(* memory of request ids, and socket paths shared between servers or not.  *)
(*                                                                         *)
(* The four safety properties of LocalService are not inductive.  The      *)
(* sockets need the control points of the servers (what a start has bound  *)
(* so far, and that whoever is between its start and its end owns the      *)
(* lock); the answers need what a handler is about to say, and that what a *)
(* compaction may drop was read and archived by it or came after its read; *)
(* the memory of ids has to be recognised as the end of all that was       *)
(* admitted.                                                               *)
(***************************************************************************)
EXTENDS LocalService, FiniteSetTheorems, SequenceTheorems, TLAPS

Conns ==
    [pc : Handling \cup {"closed", "backlog"}, server : Servers \cup {NoServer}, role : Roles,
     request : Requests \cup {NoRequest}, reply : {"none", "ok", "error"},
     outcome : {"none", "ok", "error", "timeout"}]

Files == [server : Servers \cup {NoServer}, listening : BOOLEAN]

Places ==
    [pc : {"down", "prepare", "unlink", "bind", "listen", "running", "join", "sweep", "closed"},
     role : Roles]

Ids == {q.id : q \in Requests}

\* The type of what the servers own and of where they are.
SocketType ==
    /\ owner \in Servers \cup {NoServer}
    /\ file \in [AllPaths -> Files]
    /\ server \in [Servers -> Places]

\* From its start to the end of its close a server holds the service lock.
ActiveOwns == \A s \in Servers : server[s].pc \notin {"down", "closed"} => owner = s

\* Whoever listens owns the lock.
ListenerOwns == \A p \in AllPaths : file[p].listening => file[p].server = owner /\ owner \in Servers

\* What the start of a server has bound when it is at its control point.
Bound(s) ==
    /\ server[s].pc \in {"prepare", "unlink", "bind", "listen"} /\ server[s].role = "operator" =>
          file[Paths[s]["consumer"]] = [server |-> s, listening |-> TRUE]
    /\ server[s].pc = "listen" => file[PathAt(s)] = [server |-> s, listening |-> FALSE]
    /\ server[s].pc = "running" =>
          \A r \in Roles : file[Paths[s][r]] = [server |-> s, listening |-> TRUE]

\* A socket file is at a path of the server that bound it.
AtOwnPath ==
    \A p \in AllPaths : file[p].server # NoServer => \E r \in Roles : Paths[file[p].server][r] = p

SocketInv == SocketType /\ ActiveOwns /\ ListenerOwns /\ \A s \in Servers : Bound(s)

\* What was ever committed.
Safe == Kept \cup raced

\* What is committed while a compaction is under way was read by it, is archived or came
\* beside it, and before it asks for the lock it has archived what it read.
CompactOK(k) ==
    /\ k \in Compacting => /\ conn[k].request.op = "store.compact"
                           /\ committed \subseteq read[k] \cup archived \cup raced
    /\ conn[k].pc \in {"stage", "install"} => read[k] \subseteq archived

CompactInv == DOMAIN read = Connections /\ \A k \in Connections : CompactOK(k)

\* A handler that says ok, or a client that was told so, stands for a stored entry;
\* a handler is inside a commit or an install exactly when it holds the writer lock.
ConnOK(k) ==
    /\ conn[k].pc # "closed" => conn[k].server \in Servers /\ conn[k].request \in Requests
    /\ (conn[k].reply = "ok" \/ conn[k].outcome = "ok") /\ conn[k].request.op \in WriteOperations =>
          conn[k].request.entry \in Safe
    /\ conn[k].pc \in {"commit", "install"} <=> writer = k

ConnType ==
    /\ conn \in [Connections -> Conns]
    /\ writer \in Connections \cup {NoRequest}

ConnInv == ConnType /\ \A k \in Connections : ConnOK(k)

SlotInv ==
    /\ slots \in [Servers -> 0..MaxConnections]
    /\ \A s \in Servers : slots[s] + Cardinality(HandlersOf(s)) = MaxConnections

\* A memory of ids is the end of all that was admitted, and no longer than MaxRecent.
EndOf(mem, all) ==
    /\ Len(mem) = IF Len(all) < MaxRecent THEN Len(all) ELSE MaxRecent
    /\ \A i \in 1..Len(mem) : mem[i] = all[(Len(all) - Len(mem)) + i]

\* An id returns only after MaxRecent others.
Spread(all) == \A i, j \in 1..Len(all) : i < j /\ all[i] = all[j] => j - i > MaxRecent

MemoryInv ==
    /\ recent \in [Servers -> Seq(Ids)]
    /\ admitted \in [Servers -> Seq(Ids)]
    /\ \A s \in Servers : EndOf(recent[s], admitted[s]) /\ Spread(admitted[s])

\* The inductive invariant of the service.
ServiceInv ==
    /\ SocketInv /\ AtOwnPath /\ ConnInv /\ CompactInv /\ SlotInv /\ MemoryInv
    /\ crashes \in 0..MaxCrashes

-----------------------------------------------------------------------------
\* The lock and the sockets.

\* Both sockets of a server are among all paths, and they are two.
LEMMA PathsOf ==
    ASSUME NEW s \in Servers
    PROVE  /\ \A r \in Roles : Paths[s][r] \in AllPaths
           /\ Paths[s]["consumer"] # Paths[s]["operator"]
BY ServiceAssumption DEF AllPaths, Roles

\* A step of the start or the close of a server keeps the sockets in order:
\* it owns the lock, so that no other server is between its start and its end.
LEMMA ProgressSockets ==
    ASSUME SocketInv, NEW s \in Servers, Progress(s)
    PROVE  SocketInv'
<1> USE DEF SocketInv, SocketType
<1>1. owner = s /\ \A t \in Servers \ {s} : server[t].pc \in {"down", "closed"}
  BY ServiceAssumption DEF Progress, Prepare, UnlinkStale, Bind, Listen, Join, Sweep, ActiveOwns
<1>2. server[s].role \in Roles /\ PathAt(s) \in AllPaths /\ NoFile \in Files
  BY PathsOf DEF Places, PathAt, NoFile, Files
<1>3. \A r \in Roles : Paths[s][r] \in AllPaths
  BY PathsOf
<1>4. Paths[s]["consumer"] # Paths[s]["operator"]
  BY PathsOf
<1>5. ASSUME NEW label, NEW r \in Roles, Goto(s, label, r), [pc |-> label, role |-> r] \in Places
      PROVE  /\ server' \in [Servers -> Places]
             /\ server'[s] = [pc |-> label, role |-> r]
             /\ \A t \in Servers \ {s} : server'[t] = server[t]
  BY <1>5 DEF Goto
<1>6. ASSUME server' \in [Servers -> Places], \A t \in Servers \ {s} : server'[t] = server[t],
             owner' = s \/ (server'[s].pc = "closed" /\ owner' = NoServer),
             file' \in [AllPaths -> Files], ListenerOwns', Bound(s)'
      PROVE  SocketInv'
  <2>1. ActiveOwns'
    BY <1>1, <1>6 DEF ActiveOwns
  <2>2. ASSUME NEW t \in Servers \ {s} PROVE Bound(t)'
    BY <1>1, <1>6, <2>2 DEF Bound
  <2> QED
    BY <1>6, <2>1, <2>2
<1>7. CASE Prepare(s)
  <2>1. PICK label \in {"bind", "join", "unlink"} : Goto(s, label, server[s].role)
    BY <1>7 DEF Prepare
  <2>2. [pc |-> label, role |-> server[s].role] \in Places
    BY <1>2 DEF Places
  <2>9. /\ server' \in [Servers -> Places]
        /\ server'[s] = [pc |-> label, role |-> server[s].role]
        /\ \A t \in Servers \ {s} : server'[t] = server[t]
    BY <1>2, <1>5, <2>1, <2>2
  <2>3. file' = file /\ owner' = owner
    BY <1>7 DEF Prepare, socketVars
  <2>4. Bound(s)'
    BY <1>2, <2>9, <1>7, <2>1, <2>2, <2>3 DEF Bound, Prepare, Roles
  <2> QED
    BY <1>1, <1>2, <2>9, <1>6, <2>1, <2>2, <2>3, <2>4 DEF ListenerOwns
<1>8. CASE UnlinkStale(s)
  <2>1. [pc |-> "bind", role |-> server[s].role] \in Places
    BY <1>2 DEF Places
  <2>2. /\ server[s].pc = "unlink" /\ Goto(s, "bind", server[s].role) /\ owner' = owner
        /\ file' = [file EXCEPT ![PathAt(s)] = NoFile]
    BY <1>8 DEF UnlinkStale
  <2>9. /\ server' \in [Servers -> Places]
        /\ server'[s] = [pc |-> "bind", role |-> server[s].role]
        /\ \A t \in Servers \ {s} : server'[t] = server[t]
    BY <1>2, <1>5, <2>1, <2>2
  <2>3. file' \in [AllPaths -> Files] /\ ListenerOwns'
    BY <1>2, <2>2 DEF ListenerOwns, NoFile
  <2>5. server[s].role = "operator" => file'[Paths[s]["consumer"]] = file[Paths[s]["consumer"]]
    BY <1>3, <1>4, <2>2 DEF PathAt, Roles
  <2>6. server[s].role = "operator" =>
          file'[Paths[s]["consumer"]] = [server |-> s, listening |-> TRUE]
    BY <2>2, <2>5 DEF Bound
  <2>4. Bound(s)'
    BY <2>6, <2>9 DEF Bound
  <2> QED
    BY <1>1, <1>2, <2>9, <1>6, <2>1, <2>2, <2>3, <2>4
<1>9. CASE Bind(s) /\ file[PathAt(s)] = NoFile
  <2>1. [pc |-> "listen", role |-> server[s].role] \in Places
    BY <1>2 DEF Places
  <2>2. /\ server[s].pc = "bind" /\ Goto(s, "listen", server[s].role) /\ owner' = owner
        /\ file' = [file EXCEPT ![PathAt(s)] = [server |-> s, listening |-> FALSE]]
    BY <1>9 DEF Bind
  <2>9. /\ server' \in [Servers -> Places]
        /\ server'[s] = [pc |-> "listen", role |-> server[s].role]
        /\ \A t \in Servers \ {s} : server'[t] = server[t]
    BY <1>2, <1>5, <2>1, <2>2
  <2>3. file' \in [AllPaths -> Files] /\ ListenerOwns'
    BY <1>2, <2>2 DEF ListenerOwns, Files
  <2>4. Bound(s)'
    BY <1>2, <1>3, <1>4, <2>9, <2>1, <2>2 DEF Bound, PathAt, Roles
  <2> QED
    BY <1>1, <1>2, <2>9, <1>6, <2>1, <2>2, <2>3, <2>4
<1>10. CASE Bind(s) /\ file[PathAt(s)] # NoFile
  <2>1. [pc |-> "join", role |-> "operator"] \in Places /\ "operator" \in Roles
    BY DEF Places, Roles
  <2>2. Goto(s, "join", "operator") /\ owner' = owner /\ file' = file
    BY <1>10 DEF Bind
  <2>9. /\ server' \in [Servers -> Places]
        /\ server'[s] = [pc |-> "join", role |-> "operator"]
        /\ \A t \in Servers \ {s} : server'[t] = server[t]
    BY <1>2, <1>5, <2>1, <2>2
  <2> QED
    BY <1>1, <2>9, <1>6, <2>1, <2>2 DEF ListenerOwns, Bound
<1>11. CASE Listen(s)
  <2> DEFINE next == IF server[s].role = "consumer" THEN "prepare" ELSE "running"
  <2>1. [pc |-> next, role |-> "operator"] \in Places /\ "operator" \in Roles
    BY DEF Places, Roles
  <2>2. /\ server[s].pc = "listen" /\ Goto(s, next, "operator") /\ owner' = owner
        /\ file' = [file EXCEPT ![PathAt(s)].listening = TRUE]
    BY <1>11 DEF Listen
  <2>9. /\ server' \in [Servers -> Places]
        /\ server'[s] = [pc |-> next, role |-> "operator"]
        /\ \A t \in Servers \ {s} : server'[t] = server[t]
    BY <1>2, <1>5, <2>1, <2>2
  <2>3. file[PathAt(s)] = [server |-> s, listening |-> FALSE]
    BY <2>2 DEF Bound
  <2>4. file'[PathAt(s)] = [server |-> s, listening |-> TRUE]
    <3>1. file'[PathAt(s)] = [file[PathAt(s)] EXCEPT !.listening = TRUE]
      BY <1>2, <2>2
    <3>2. ASSUME NEW f \in Files
          PROVE  [f EXCEPT !.listening = TRUE] = [server |-> f.server, listening |-> TRUE]
      <4> DEFINE g == [f EXCEPT !.listening = TRUE]
      <4>1. g \in Files /\ g.server = f.server /\ g.listening = TRUE
        BY DEF Files
      <4> HIDE DEF g
      <4>2. g = [server |-> f.server, listening |-> TRUE]
        BY <4>1 DEF Files
      <4> QED
        BY <4>2 DEF g
    <3>3. file[PathAt(s)] \in Files
      BY <1>2
    <3>4. file[PathAt(s)].server = s
      BY <2>3
    <3> QED
      BY <3>1, <3>2, <3>3, <3>4
  <2>5. \A p \in AllPaths : p # PathAt(s) => file'[p] = file[p]
    BY <1>2, <2>2
  <2>6. file' \in [AllPaths -> Files]
    <3>1. [file[PathAt(s)] EXCEPT !.listening = TRUE] \in Files
      BY <1>2 DEF Files
    <3> QED
      BY <1>2, <2>2, <3>1
  <2>7. ListenerOwns'
    BY <1>1, <1>2, <2>2, <2>4, <2>5 DEF ListenerOwns
  <2>8. Bound(s)'
    <3>1. CASE server[s].role = "consumer"
      BY <2>4, <2>9, <3>1 DEF Bound, PathAt
    <3>2. CASE server[s].role = "operator"
      <4>1. file'[Paths[s]["consumer"]] = [server |-> s, listening |-> TRUE]
        BY <1>3, <1>4, <2>2, <2>5, <3>2 DEF Bound, PathAt, Roles
      <4> QED
        BY <2>4, <2>9, <3>2, <4>1 DEF Bound, PathAt, Roles
    <3> QED
      BY <1>2, <3>1, <3>2 DEF Roles
  <2> QED
    BY <1>1, <2>9, <1>6, <2>1, <2>2, <2>6, <2>7, <2>8
<1>12. CASE Join(s)
  <2>1. [pc |-> "sweep", role |-> "operator"] \in Places /\ "operator" \in Roles
    BY DEF Places, Roles
  <2>2. /\ Goto(s, "sweep", "operator") /\ owner' = owner
        /\ file' = [p \in AllPaths |-> IF file[p].server = s THEN [file[p] EXCEPT !.listening = FALSE]
                                                             ELSE file[p]]
    BY <1>12 DEF Join, CloseListeners
  <2>9. /\ server' \in [Servers -> Places]
        /\ server'[s] = [pc |-> "sweep", role |-> "operator"]
        /\ \A t \in Servers \ {s} : server'[t] = server[t]
    BY <1>2, <1>5, <2>1, <2>2
  <2>3. file' \in [AllPaths -> Files] /\ \A p \in AllPaths : ~file'[p].listening
    <3>1. ASSUME NEW f \in Files
          PROVE  [f EXCEPT !.listening = FALSE] \in Files /\ ~[f EXCEPT !.listening = FALSE].listening
      BY DEF Files
    <3>2. \A p \in AllPaths : file[p].server # s => ~file[p].listening
      BY <1>1 DEF ListenerOwns
    <3>3. \A p \in AllPaths : file[p] \in Files
      OBVIOUS
    <3>4. ASSUME NEW p \in AllPaths PROVE file'[p] \in Files /\ ~file'[p].listening
      <4>1. CASE file[p].server = s
        <5>1. file'[p] = [file[p] EXCEPT !.listening = FALSE]
          BY <2>2, <4>1
        <5> QED BY <3>1, <3>3, <5>1
      <4>2. CASE file[p].server # s
        <5>1. file'[p] = file[p]
          BY <2>2, <4>2
        <5> QED BY <3>2, <3>3, <4>2, <5>1
      <4> QED BY <4>1, <4>2
    <3>5. file' = [p \in AllPaths |-> file'[p]]
      BY <2>2
    <3> QED BY <3>4, <3>5
  <2>4. ListenerOwns'
    BY <2>3 DEF ListenerOwns
  <2>5. Bound(s)'
    BY <2>9 DEF Bound
  <2>6. owner' = s
    BY <1>1, <2>2
  <2> QED
    BY <1>6, <2>9, <2>3, <2>4, <2>5, <2>6
<1>13. CASE Sweep(s)
  <2>1. [pc |-> "closed", role |-> "operator"] \in Places /\ "operator" \in Roles
    BY DEF Places, Roles
  <2>2. /\ Goto(s, "closed", "operator") /\ owner' = NoServer
        /\ file' = [p \in AllPaths |-> IF file[p].server = s THEN NoFile ELSE file[p]]
    BY <1>13 DEF Sweep
  <2>9. /\ server' \in [Servers -> Places]
        /\ server'[s] = [pc |-> "closed", role |-> "operator"]
        /\ \A t \in Servers \ {s} : server'[t] = server[t]
    BY <1>2, <1>5, <2>1, <2>2
  <2>3. file' \in [AllPaths -> Files] /\ ListenerOwns'
    BY <1>1, <1>2, <2>2 DEF ListenerOwns, NoFile
  <2>4. Bound(s)'
    BY <2>9 DEF Bound
  <2>5. server'[s].pc = "closed" /\ owner' = NoServer
    BY <2>2, <2>9
  <2> QED
    BY <1>6, <2>9, <2>3, <2>4, <2>5
<1> QED
  BY <1>7, <1>8, <1>9, <1>10, <1>11, <1>12, <1>13 DEF Progress

\* Every step keeps the sockets in order.
LEMMA StepSockets ==
    ASSUME SocketInv, Next
    PROVE  SocketInv'
<1> USE DEF SocketInv, SocketType
<1>1. ASSUME NEW s \in Servers, AcquireOwnership(s) PROVE SocketInv'
  <2>1. \A t \in Servers : server[t].pc \in {"down", "closed"}
    BY <1>1, ServiceAssumption DEF ActiveOwns, AcquireOwnership
  <2>2. \A p \in AllPaths : ~file[p].listening
    BY <1>1, ServiceAssumption DEF ListenerOwns, AcquireOwnership, Files
  <2>3. file' = file /\ owner' = s /\ server' = [server EXCEPT ![s] = [pc |-> "prepare", role |-> "consumer"]]
    BY <1>1 DEF AcquireOwnership, Goto
  <2>4. server' \in [Servers -> Places]
    BY <2>3 DEF Places, Roles
  <2>5. ActiveOwns' /\ ListenerOwns'
    BY <2>1, <2>2, <2>3, <2>4 DEF ActiveOwns, ListenerOwns
  <2>6. ASSUME NEW t \in Servers PROVE Bound(t)'
    BY <2>1, <2>3, <2>4, <2>6 DEF Bound
  <2> QED
    BY <2>3, <2>4, <2>5, <2>6
<1>2. ASSUME NEW s \in Servers, StartClose(s) PROVE SocketInv'
  <2>1. owner = s /\ \A t \in Servers \ {s} : server[t].pc \in {"down", "closed"}
    BY <1>2 DEF StartClose, ActiveOwns
  <2>2. /\ server' = [server EXCEPT ![s] = [pc |-> "join", role |-> "operator"]] /\ owner' = owner
        /\ file' = [p \in AllPaths |-> IF file[p].server = s THEN [file[p] EXCEPT !.listening = FALSE]
                                                             ELSE file[p]]
    BY <1>2 DEF StartClose, CloseListeners, Goto
  <2>3. server' \in [Servers -> Places] /\ file' \in [AllPaths -> Files]
    BY <2>2 DEF Places, Roles, Files
  <2>4. ActiveOwns' /\ ListenerOwns'
    BY <2>1, <2>2, <2>3 DEF ActiveOwns, ListenerOwns, Files
  <2>5. ASSUME NEW t \in Servers PROVE Bound(t)'
    BY <2>1, <2>2, <2>3, <2>5 DEF Bound
  <2> QED
    BY <2>2, <2>3, <2>4, <2>5
<1>3. ASSUME NEW s \in Servers, Exit(s) PROVE SocketInv'
  <2>1. /\ server' = [server EXCEPT ![s] = [pc |-> "down", role |-> "consumer"]]
        /\ owner' = owner /\ file' = file
    BY <1>3 DEF Exit, Dies, Goto, socketVars
  <2>2. server' \in [Servers -> Places]
    BY <2>1 DEF Places, Roles
  <2>3. ActiveOwns' /\ ListenerOwns'
    BY <2>1, <2>2 DEF ActiveOwns, ListenerOwns
  <2>4. ASSUME NEW t \in Servers PROVE Bound(t)'
    BY <2>1, <2>2, <2>4 DEF Bound, PathAt
  <2> QED
    BY <2>1, <2>2, <2>3, <2>4
<1>4. ASSUME NEW s \in Servers, Crash(s) PROVE SocketInv'
  <2>1. /\ server' = [server EXCEPT ![s] = [pc |-> "down", role |-> "consumer"]]
        /\ owner' = IF owner = s THEN NoServer ELSE owner
        /\ file' = [p \in AllPaths |-> IF file[p].server = s THEN [file[p] EXCEPT !.listening = FALSE]
                                                             ELSE file[p]]
    BY <1>4 DEF Crash, Dies, Goto
  <2>2. server' \in [Servers -> Places] /\ file' \in [AllPaths -> Files]
    BY <2>1 DEF Places, Roles, Files
  <2>3. ActiveOwns' /\ ListenerOwns'
    BY <2>1, <2>2 DEF ActiveOwns, ListenerOwns, Files
  <2>4. ASSUME NEW t \in Servers PROVE Bound(t)'
    <3>1. CASE t = s
      BY <2>1, <2>2, <3>1 DEF Bound
    <3>2. CASE t # s
      <4>1. server'[t] = server[t]
        BY <2>1, <3>2
      <4>2. ASSUME NEW p \in AllPaths, file[p].server = t PROVE file'[p] = file[p]
        BY <2>1, <3>2, <4>2
      <4>3. \A r \in Roles : Paths[t][r] \in AllPaths
        BY PathsOf
      <4> QED
        BY <4>1, <4>2, <4>3 DEF Bound, PathAt, Places, Roles
    <3> QED
      BY <3>1, <3>2
  <2> QED
    BY <2>1, <2>2, <2>3, <2>4
<1>5. ASSUME NEW s \in Servers, Progress(s) PROVE SocketInv'
  BY <1>5, ProgressSockets
<1>6. ASSUME NEW k \in Connections,
             \/ Handle(k) \/ ClientTimeout(k)
             \/ \E q \in Requests, p \in AllPaths : Connect(k, q, p)
      PROVE  SocketInv'
  <2>1. UNCHANGED <<owner, file, server>>
    BY <1>6 DEF Handle, Accept, Drop, Reject, Admit, DispatchRead, DispatchRecover, DispatchWrite,
                BeginWrite, EndWrite, CompactRead, CompactArchive, InstallStart, InstallEnd,
                Answer, ClientTimeout, Connect, socketVars
  <2> QED
    BY <2>1, SMTT(40) DEF ActiveOwns, ListenerOwns, Bound, PathAt
<1> QED
  BY <1>1, <1>2, <1>3, <1>4, <1>5, <1>6 DEF Next

\* Every step leaves a socket file at a path of the server that bound it.
LEMMA StepOwnPath ==
    ASSUME SocketInv, AtOwnPath, Next
    PROVE  AtOwnPath'
<1>0. file \in [AllPaths -> Files]
  BY DEF SocketInv, SocketType
<1>1. ASSUME \A p \in AllPaths : file'[p].server \in {file[p].server, NoServer} PROVE AtOwnPath'
  BY <1>1 DEF AtOwnPath
<1>2. ASSUME NEW s \in Servers, Progress(s) PROVE AtOwnPath'
  <2>1. CASE Bind(s)
    <3>1. server[s].role \in Roles /\ PathAt(s) = Paths[s][server[s].role]
      BY DEF SocketInv, SocketType, Places, PathAt
    <3>2. \A p \in AllPaths : file'[p].server = file[p].server \/ (p = PathAt(s) /\ file'[p].server = s)
      BY <1>0, <2>1 DEF Bind
    <3> QED
      BY <3>1, <3>2 DEF AtOwnPath
  <2>2. CASE Listen(s)
    <3>1. \A p \in AllPaths : file'[p].server = file[p].server
      BY <1>0, <2>2 DEF Listen, Files
    <3> QED
      BY <1>1, <3>1
  <2>3. CASE Prepare(s) \/ UnlinkStale(s) \/ Join(s) \/ Sweep(s)
    BY <1>0, <1>1, <2>3 DEF Prepare, UnlinkStale, Join, Sweep, CloseListeners, NoFile, Files, socketVars
  <2> QED
    BY <1>2, <2>1, <2>2, <2>3 DEF Progress
<1>3. ASSUME NEW s \in Servers, AcquireOwnership(s) \/ StartClose(s) \/ Exit(s) \/ Crash(s)
      PROVE  AtOwnPath'
  BY <1>0, <1>1, <1>3 DEF AcquireOwnership, StartClose, Exit, Crash, CloseListeners, Files, socketVars
<1>4. ASSUME NEW k \in Connections,
             \/ Handle(k) \/ ClientTimeout(k)
             \/ \E q \in Requests, p \in AllPaths : Connect(k, q, p)
      PROVE  AtOwnPath'
  <2>1. UNCHANGED file
    BY <1>4 DEF Handle, Accept, Drop, Reject, Admit, DispatchRead, DispatchRecover, DispatchWrite,
                BeginWrite, EndWrite, CompactRead, CompactArchive, InstallStart, InstallEnd,
                Answer, ClientTimeout, Connect, socketVars
  <2> QED
    BY <1>1, <2>1, SMTT(40)
<1> QED
  BY <1>2, <1>3, <1>4 DEF Next

-----------------------------------------------------------------------------
\* The connections and the store.

\* A stream that is closed keeps what the client was told and nothing else.
LEMMA HungUpIs ==
    ASSUME NEW c \in Conns
    PROVE  /\ HungUp(c) \in Conns
           /\ HungUp(c).pc = "closed" /\ HungUp(c).reply = "none"
           /\ HungUp(c).outcome = "ok" => c.outcome = "ok" /\ HungUp(c).request = c.request
<1>1. Closed \in Conns
  BY DEF Closed, Conns, Roles
<1>2. CASE c.outcome = "ok"
  BY <1>1, <1>2 DEF HungUp, Closed, Conns
<1>3. CASE c.outcome # "ok"
  BY <1>1, <1>3 DEF HungUp, Closed, Conns
<1> QED
  BY <1>2, <1>3

\* It is enough to look at the connection that a step is about.
LEMMA OneConn ==
    ASSUME ConnInv, NEW k \in Connections, NEW c \in Conns, conn' = [conn EXCEPT ![k] = c],
           writer' \in Connections \cup {NoRequest}, Safe \subseteq Safe',
           \A j \in Connections \ {k} : writer' = j <=> writer = j,
           c.pc # "closed" => c.server \in Servers /\ c.request \in Requests,
           (c.reply = "ok" \/ c.outcome = "ok") /\ c.request.op \in WriteOperations =>
              c.request.entry \in Safe',
           c.pc \in {"commit", "install"} <=> writer' = k
    PROVE  ConnInv'
<1>1. conn' \in [Connections -> Conns] /\ conn'[k] = c /\ \A j \in Connections \ {k} : conn'[j] = conn[j]
  BY DEF ConnInv, ConnType
<1>2. ConnOK(k)'
  BY <1>1 DEF ConnOK
<1>3. ASSUME NEW j \in Connections \ {k} PROVE ConnOK(j)'
  BY <1>1, <1>3 DEF ConnInv, ConnOK
<1> QED
  BY <1>1, <1>2, <1>3 DEF ConnInv, ConnType

\* A step that keeps a handler's stream open and neither takes nor frees the
\* writer lock.
LEMMA SameWriter ==
    ASSUME ConnInv, NEW k \in Connections, NEW c \in Conns, conn' = [conn EXCEPT ![k] = c],
           writer' = writer, Safe \subseteq Safe',
           c.server = conn[k].server, c.request = conn[k].request,
           conn[k].pc # "closed", conn[k].pc \notin {"commit", "install"}, c.pc \notin {"commit", "install"},
           (c.reply = "ok" \/ c.outcome = "ok") /\ c.request.op \in WriteOperations =>
              c.request.entry \in Safe'
    PROVE  ConnInv'
<1>1. ConnOK(k) /\ writer # k
  BY DEF ConnInv, ConnOK
<1>2. writer' \in Connections \cup {NoRequest} /\ \A j \in Connections \ {k} : writer' = j <=> writer = j
  BY DEF ConnInv, ConnType
<1> QED
  BY <1>1, <1>2, OneConn DEF ConnOK

\* A stream that is closed, by a server or by the death of one.
LEMMA OneHungUp ==
    ASSUME ConnInv, NEW k \in Connections, NEW c \in Conns, conn' = [conn EXCEPT ![k] = HungUp(c)],
           writer' = writer, Safe \subseteq Safe', conn[k].pc \notin {"commit", "install"},
           c.request = conn[k].request,
           c.outcome = "ok" => conn[k].reply = "ok" \/ conn[k].outcome = "ok"
    PROVE  ConnInv'
<1>1. ConnOK(k) /\ writer # k
  BY DEF ConnInv, ConnOK
<1>2. writer' \in Connections \cup {NoRequest} /\ \A j \in Connections \ {k} : writer' = j <=> writer = j
  BY DEF ConnInv, ConnType
<1>3. /\ HungUp(c) \in Conns /\ HungUp(c).pc = "closed" /\ HungUp(c).reply = "none"
      /\ HungUp(c).outcome = "ok" => c.outcome = "ok" /\ HungUp(c).request = c.request
  BY HungUpIs
<1>4. (HungUp(c).reply = "ok" \/ HungUp(c).outcome = "ok") /\ HungUp(c).request.op \in WriteOperations =>
        HungUp(c).request.entry \in Safe'
  BY <1>1, <1>3 DEF ConnOK
<1> HIDE DEF HungUp
<1> QED
  BY <1>1, <1>2, <1>3, <1>4, OneConn

\* The steps of a server that is started or closed leave the handlers alone.
LEMMA CloseConns ==
    ASSUME ConnInv, NEW s \in Servers, CloseListeners(s) \/ conn' = conn, UNCHANGED storeVars,
           Safe \subseteq Safe'
    PROVE  ConnInv'
<1>1. ASSUME NEW k \in Connections PROVE conn'[k] \in Conns /\ ConnOK(k)'
  <2>0. conn[k] \in Conns /\ ConnOK(k)
    BY DEF ConnInv, ConnType
  <2>1. CASE conn'[k] = conn[k]
    BY <2>0, <2>1 DEF ConnOK, storeVars
  <2>2. CASE conn[k].pc = "backlog" /\ conn'[k] = HungUp(conn[k])
    <3>1. writer' # k
      BY <2>0, <2>2 DEF ConnOK, storeVars
    <3> QED
      BY <2>0, <2>2, <3>1, HungUpIs DEF ConnOK, storeVars
  <2> QED
    BY <2>1, <2>2 DEF CloseListeners
<1>2. conn' = [k \in Connections |-> conn'[k]]
  BY DEF CloseListeners, ConnInv, ConnType
<1> QED
  BY <1>1, <1>2 DEF ConnInv, ConnType, storeVars

\* A server that dies inside a commit loses the lock and the handler.
LEMMA DiesConns ==
    ASSUME ConnInv, NEW s \in Servers, Dies(s), Safe \subseteq Safe'
    PROVE  ConnInv'
<1>1. /\ conn' = [k \in Connections |->
                    IF conn[k].server = s /\ conn[k].pc # "closed" THEN HungUp(conn[k]) ELSE conn[k]]
      /\ writer' = IF writer \in HandlersOf(s) THEN NoRequest ELSE writer
  BY DEF Dies, storeVars
<1>2. ASSUME NEW k \in Connections PROVE conn'[k] \in Conns /\ ConnOK(k)'
  <2>0. conn[k] \in Conns /\ ConnOK(k)
    BY DEF ConnInv, ConnType
  <2>1. CASE conn[k].server = s /\ conn[k].pc # "closed"
    <3>1. writer' # k
      BY <1>1, <2>0, <2>1, ServiceAssumption DEF ConnOK, HandlersOf, Handling
    <3>2. conn'[k] = HungUp(conn[k])
      BY <1>1, <2>1
    <3> QED
      BY <1>1, <2>0, <3>1, <3>2, HungUpIs DEF ConnOK
  <2>2. CASE ~(conn[k].server = s /\ conn[k].pc # "closed")
    <3>1. conn'[k] = conn[k]
      BY <1>1, <2>2
    <3>2. k \notin HandlersOf(s)
      BY <2>2 DEF HandlersOf, Handling
    <3>3. writer' = k <=> writer = k
      BY <1>1, <3>2, ServiceAssumption
    <3> QED
      BY <1>1, <2>0, <3>1, <3>3 DEF ConnOK
  <2> QED
    BY <2>1, <2>2
<1> QED
  BY <1>1, <1>2 DEF ConnInv, ConnType

\* Every step of a handler or of a client keeps what its answer stands for.
LEMMA HandleConns ==
    ASSUME ConnInv, CompactInv, SocketInv, AtOwnPath, NEW k \in Connections, Safe \subseteq Safe',
           \/ Handle(k) \/ ClientTimeout(k)
           \/ \E q \in Requests, p \in AllPaths : Connect(k, q, p)
    PROVE  ConnInv'
<1>0. conn \in [Connections -> Conns] /\ conn[k] \in Conns /\ ConnOK(k)
  BY DEF ConnInv, ConnType
<1>1. ASSUME NEW code \in {"ok", "error"}, Reply(k, code), writer' = writer,
             conn[k].pc \in Handling \ {"commit", "install"},
             code = "ok" /\ conn[k].request.op \in WriteOperations =>
                conn[k].request.entry \in Safe'
      PROVE  ConnInv'
  <2> DEFINE c == [conn[k] EXCEPT !.pc = "answer", !.reply = code]
  <2>1. /\ c \in Conns /\ c.server = conn[k].server /\ c.request = conn[k].request
        /\ c.pc = "answer" /\ c.reply = code /\ c.outcome = conn[k].outcome
    BY <1>0 DEF Conns, Handling
  <2>2. conn' = [conn EXCEPT ![k] = c]
    BY <1>0, <1>1 DEF Reply
  <2>3. conn[k].pc # "closed"
    BY <1>1 DEF Handling
  <2>4. (c.reply = "ok" \/ c.outcome = "ok") /\ c.request.op \in WriteOperations =>
          c.request.entry \in Safe'
    BY <1>0, <1>1, <2>1 DEF ConnOK
  <2> HIDE DEF c
  <2> QED
    BY <1>1, <2>1, <2>2, <2>3, <2>4, SameWriter
<1>2. ASSUME NEW label \in {"receive", "dispatch", "write", "archive", "stage"}, Step(k, label), writer' = writer,
             conn[k].pc # "closed", conn[k].pc \notin {"commit", "install"}
      PROVE  ConnInv'
  <2> DEFINE c == [conn[k] EXCEPT !.pc = label]
  <2>1. /\ c \in Conns /\ c.server = conn[k].server /\ c.request = conn[k].request
        /\ c.pc = label /\ c.reply = conn[k].reply /\ c.outcome = conn[k].outcome
    BY <1>0 DEF Conns, Handling
  <2>2. conn' = [conn EXCEPT ![k] = c]
    BY <1>0, <1>2 DEF Step
  <2>3. (c.reply = "ok" \/ c.outcome = "ok") /\ c.request.op \in WriteOperations =>
          c.request.entry \in Safe'
    BY <1>0, <1>2, <2>1 DEF ConnOK
  <2> HIDE DEF c
  <2> QED
    BY <1>2, <2>1, <2>2, <2>3, SameWriter
<1>3. ASSUME Hangup(k), UNCHANGED storeVars, conn[k].pc \notin {"commit", "install"}
      PROVE  ConnInv'
  BY <1>0, <1>3, OneHungUp DEF Hangup, storeVars
<1>4. CASE Accept(k)
  BY <1>2, <1>3, <1>4 DEF Accept, storeVars
<1>5. CASE Drop(k)
  BY <1>3, <1>5 DEF Drop
<1>6. CASE Reject(k)
  BY <1>1, <1>6 DEF Reject, Handling, storeVars
<1>7. CASE Admit(k)
  BY <1>1, <1>2, <1>7 DEF Admit, Handling, storeVars
<1>8. CASE DispatchRead(k)
  BY <1>1, <1>8 DEF DispatchRead, Handling, storeVars
<1>9. CASE DispatchRecover(k)
  <2>1. conn[k].request.op \notin WriteOperations
    BY <1>9 DEF DispatchRecover, WriteOperations
  <2> QED
    BY <1>1, <1>9, <2>1 DEF DispatchRecover, Handling
<1>10. CASE DispatchWrite(k)
  BY <1>1, <1>2, <1>10 DEF DispatchWrite, Handling, storeVars
<1>11. CASE BeginWrite(k) /\ writer' = writer
  BY <1>1, <1>11, ServiceAssumption DEF BeginWrite, Handling, Safe, Kept
<1>12. CASE BeginWrite(k) /\ writer' # writer
  <2> DEFINE c == [conn[k] EXCEPT !.pc = "commit"]
  <2>1. writer' = k /\ writer = NoRequest /\ Step(k, "commit") /\ conn[k].pc = "write"
    BY <1>12 DEF BeginWrite
  <2>2. /\ c \in Conns /\ c.server = conn[k].server /\ c.request = conn[k].request
        /\ c.pc = "commit" /\ c.reply = conn[k].reply /\ c.outcome = conn[k].outcome
    BY <1>0 DEF Conns, Handling
  <2>3. conn' = [conn EXCEPT ![k] = c]
    BY <1>0, <2>1 DEF Step
  <2>4. \A j \in Connections \ {k} : writer' = j <=> writer = j
    BY <2>1, ServiceAssumption
  <2> HIDE DEF c
  <2> QED
    BY <1>0, <2>1, <2>2, <2>3, <2>4, OneConn DEF ConnOK
<1>13. CASE EndWrite(k)
  <2> DEFINE c == [conn[k] EXCEPT !.pc = "answer", !.reply = "ok"]
  <2>1. /\ conn[k].pc = "commit" /\ Reply(k, "ok") /\ writer' = NoRequest /\ writer = k
        /\ conn[k].request.entry \in Safe'
    BY <1>0, <1>13 DEF EndWrite, ConnOK, Safe, Kept
  <2>2. /\ c \in Conns /\ c.server = conn[k].server /\ c.request = conn[k].request /\ c.pc = "answer"
    BY <1>0 DEF Conns, Handling
  <2>3. conn' = [conn EXCEPT ![k] = c]
    BY <1>0, <2>1 DEF Reply
  <2>4. \A j \in Connections \ {k} : writer' = j <=> writer = j
    BY <2>1, ServiceAssumption
  <2>5. writer' # k
    BY <2>1, ServiceAssumption
  <2> HIDE DEF c
  <2> QED
    BY <1>0, <2>1, <2>2, <2>3, <2>4, <2>5, OneConn DEF ConnOK
<1>14. CASE CompactRead(k)
  <2>1. conn[k].request.op \notin WriteOperations /\ writer' = writer
    BY <1>14 DEF CompactRead, WriteOperations
  <2> QED
    BY <1>1, <1>2, <1>14, <2>1 DEF CompactRead, Handling
<1>15. CASE CompactArchive(k)
  BY <1>2, <1>15 DEF CompactArchive
<1>16. CASE InstallStart(k) /\ writer' = writer
  BY <1>1, <1>16, ServiceAssumption DEF InstallStart, Handling
<1>17. CASE InstallStart(k) /\ writer' # writer
  <2> DEFINE c == [conn[k] EXCEPT !.pc = "install"]
  <2>1. writer' = k /\ writer = NoRequest /\ Step(k, "install") /\ conn[k].pc = "stage"
    BY <1>17 DEF InstallStart
  <2>2. /\ c \in Conns /\ c.server = conn[k].server /\ c.request = conn[k].request
        /\ c.pc = "install" /\ c.reply = conn[k].reply /\ c.outcome = conn[k].outcome
    BY <1>0 DEF Conns, Handling
  <2>3. conn' = [conn EXCEPT ![k] = c]
    BY <1>0, <2>1 DEF Step
  <2>4. \A j \in Connections \ {k} : writer' = j <=> writer = j
    BY <2>1, ServiceAssumption
  <2> HIDE DEF c
  <2> QED
    BY <1>0, <2>1, <2>2, <2>3, <2>4, OneConn DEF ConnOK
<1>18. CASE InstallEnd(k)
  <2>1. PICK code \in {"ok", "error"} : Reply(k, code)
    BY <1>18 DEF InstallEnd
  <2> DEFINE c == [conn[k] EXCEPT !.pc = "answer", !.reply = code]
  <2>2. /\ conn[k].pc = "install" /\ writer' = NoRequest /\ writer = k
        /\ conn[k].request.op \notin WriteOperations
    BY <1>0, <1>18 DEF InstallEnd, ConnOK, CompactInv, CompactOK, Compacting, WriteOperations
  <2>3. /\ c \in Conns /\ c.server = conn[k].server /\ c.request = conn[k].request /\ c.pc = "answer"
    BY <1>0 DEF Conns, Handling
  <2>4. conn' = [conn EXCEPT ![k] = c]
    BY <1>0, <2>1 DEF Reply
  <2>5. \A j \in Connections \ {k} : writer' = j <=> writer = j
    BY <2>2, ServiceAssumption
  <2>6. writer' # k
    BY <2>2, ServiceAssumption
  <2> HIDE DEF c
  <2> QED
    BY <1>0, <2>2, <2>3, <2>4, <2>5, <2>6, OneConn DEF ConnOK
<1>19. CASE Answer(k)
  <2> DEFINE c == [conn[k] EXCEPT !.outcome = Told(k)]
  <2>1. conn' = [conn EXCEPT ![k] = HungUp(c)] /\ conn[k].pc = "answer" /\ UNCHANGED storeVars
    BY <1>0, <1>19 DEF Answer
  <2>2. c \in Conns /\ c.request = conn[k].request
    BY <1>0 DEF Conns, Told
  <2>3. c.outcome = "ok" => conn[k].reply = "ok" \/ conn[k].outcome = "ok"
    BY <1>0 DEF Conns, Told
  <2> HIDE DEF c
  <2> QED
    BY <2>1, <2>2, <2>3, OneHungUp DEF storeVars
<1>20. CASE ClientTimeout(k)
  <2> DEFINE c == [conn[k] EXCEPT !.outcome = "timeout"]
  <2>1. conn' = [conn EXCEPT ![k] = c] /\ conn[k].pc # "closed" /\ UNCHANGED storeVars
    BY <1>0, <1>20 DEF ClientTimeout
  <2>2. /\ c \in Conns /\ c.server = conn[k].server /\ c.request = conn[k].request
        /\ c.pc = conn[k].pc /\ c.reply = conn[k].reply /\ c.outcome = "timeout"
    BY <1>0 DEF Conns
  <2>3. writer' \in Connections \cup {NoRequest}
    BY <2>1 DEF ConnInv, ConnType, storeVars
  <2> HIDE DEF c
  <2> QED
    BY <1>0, <2>1, <2>2, <2>3, OneConn DEF ConnOK, storeVars
<1>21. ASSUME NEW q \in Requests, NEW p \in AllPaths, Connect(k, q, p) PROVE ConnInv'
  <2> DEFINE r == CHOOSE r \in Roles : Paths[file[p].server][r] = p
             c == [Closed EXCEPT !.pc = "backlog", !.server = file[p].server, !.role = r, !.request = q]
  <2>1. conn' = [conn EXCEPT ![k] = c] /\ conn[k].pc = "closed" /\ UNCHANGED storeVars /\ file[p].listening
    BY <1>21 DEF Connect
  <2>2. file[p].server \in Servers
    BY <2>1 DEF SocketInv, ListenerOwns
  <2>3. r \in Roles
    <3>1. \E x \in Roles : Paths[file[p].server][x] = p
      BY <2>2, ServiceAssumption DEF AtOwnPath
    <3> QED
      BY <3>1
  <2>4. /\ c \in Conns /\ c.server = file[p].server /\ c.request = q
        /\ c.pc = "backlog" /\ c.reply = "none" /\ c.outcome = "none"
    BY <2>2, <2>3 DEF Conns, Closed
  <2>5. writer' \in Connections \cup {NoRequest}
    BY <2>1 DEF ConnInv, ConnType, storeVars
  <2> HIDE DEF c
  <2> QED
    BY <1>0, <2>1, <2>2, <2>4, <2>5, OneConn DEF ConnOK, storeVars
<1> QED
  BY <1>4, <1>5, <1>6, <1>7, <1>8, <1>9, <1>10, <1>11, <1>12, <1>13, <1>19, <1>20, <1>21,
     <1>14, <1>15, <1>16, <1>17, <1>18 DEF Handle

\* Every step keeps what the answers stand for.
LEMMA StepConns ==
    ASSUME ConnInv, CompactInv, SocketInv, AtOwnPath, Safe \subseteq Safe', Next
    PROVE  ConnInv'
<1>1. ASSUME NEW s \in Servers, AcquireOwnership(s) \/ Progress(s) \/ StartClose(s) PROVE ConnInv'
  <2>1. (CloseListeners(s) \/ conn' = conn) /\ UNCHANGED storeVars
    BY <1>1 DEF AcquireOwnership, StartClose, Progress, Prepare, UnlinkStale, Bind, Listen, Join, Sweep
  <2> QED
    BY <2>1, CloseConns
<1>2. ASSUME NEW s \in Servers, Exit(s) \/ Crash(s) PROVE ConnInv'
  BY <1>2, DiesConns DEF Exit, Crash
<1> QED
  BY <1>1, <1>2, HandleConns DEF Next

-----------------------------------------------------------------------------
\* Compactions.

\* What may change in the store, by a step of Next: nothing; a commit or a recovery adds
\* to the ledger; an install replaces it; a read or an archive of a compaction.
Adds == committed \subseteq committed' /\ Beside /\ UNCHANGED <<archived, read>>
Installs == Replaced /\ UNCHANGED <<archived, read, raced>>
Same == UNCHANGED <<committed, archived, read, raced>>

LEMMA DiesStore ==
    ASSUME NEW s \in Servers, Dies(s)
    PROVE  Same \/ Adds \/ (Installs /\ writer \in HandlersOf(s) /\ conn[writer].pc = "install")
<1>1. CASE writer \in HandlersOf(s) /\ conn[writer].pc = "commit"
  <2>1. HalfCommitted(conn[writer].request.entry)
    BY <1>1 DEF Dies
  <2> QED
    BY <2>1 DEF HalfCommitted, Adds
<1>2. CASE writer \in HandlersOf(s) /\ conn[writer].pc # "commit"
  <2>1. conn[writer].pc = "install" /\ HalfInstalled
    BY <1>2 DEF Dies
  <2> QED
    BY <1>2, <2>1 DEF HalfInstalled, Installs, Same
<1>3. CASE writer \notin HandlersOf(s)
  BY <1>3 DEF Dies, storeVars, Same
<1> QED
  BY <1>1, <1>2, <1>3

LEMMA HandleStore ==
    ASSUME NEW k \in Connections, Handle(k)
    PROVE  \/ Same \/ Adds \/ (Installs /\ conn[k].pc = "install")
           \/ CompactRead(k) \/ CompactArchive(k)
<1>1. CASE \/ Accept(k) \/ Drop(k) \/ Reject(k) \/ Admit(k) \/ DispatchRead(k) \/ DispatchWrite(k)
           \/ BeginWrite(k) \/ InstallStart(k) \/ Answer(k)
  BY <1>1 DEF Accept, Drop, Reject, Admit, DispatchRead, DispatchWrite, BeginWrite, InstallStart,
              Answer, storeVars, Same
<1>2. CASE DispatchRecover(k)
  BY <1>2 DEF DispatchRecover, Adds
<1>3. CASE EndWrite(k)
  BY <1>3 DEF EndWrite, Adds
<1>4. CASE InstallEnd(k)
  BY <1>4 DEF InstallEnd, Installs, Same
<1> QED
  BY <1>1, <1>2, <1>3, <1>4 DEF Handle

LEMMA NextStore ==
    ASSUME Next
    PROVE  \/ Same \/ Adds
           \/ Installs /\ \E k \in Connections : conn[k].pc = "install"
           \/ \E k \in Connections : CompactRead(k) \/ CompactArchive(k)
<1>1. ASSUME NEW s \in Servers, AcquireOwnership(s) \/ Progress(s) \/ StartClose(s) PROVE Same
  BY <1>1 DEF AcquireOwnership, StartClose, Progress, Prepare, UnlinkStale, Bind, Listen, Join, Sweep,
              storeVars, Same
<1>2. ASSUME NEW s \in Servers, Exit(s) \/ Crash(s)
      PROVE  Same \/ Adds \/ (Installs /\ \E k \in Connections : conn[k].pc = "install")
  <2>1. Dies(s)
    BY <1>2 DEF Exit, Crash
  <2> QED
    BY <2>1, DiesStore DEF HandlersOf
<1>3. ASSUME NEW k \in Connections,
             ClientTimeout(k) \/ \E q \in Requests, p \in AllPaths : Connect(k, q, p)
      PROVE  Same
  BY <1>3 DEF ClientTimeout, Connect, storeVars, Same
<1> QED
  BY <1>1, <1>2, <1>3, HandleStore DEF Next

\* Nothing that was ever committed is lost but beside a compaction.
LEMMA SafeGrows ==
    ASSUME CompactInv, Next
    PROVE  Safe \subseteq Safe'
<1>1. CASE Same
  BY <1>1 DEF Same, Safe, Kept
<1>2. CASE Adds
  BY <1>2 DEF Adds, Beside, Safe, Kept
<1>3. ASSUME Installs, NEW k \in Connections, conn[k].pc = "install"
      PROVE  Safe \subseteq Safe'
  <2>1. committed \subseteq archived \cup raced
    BY <1>3 DEF CompactInv, CompactOK, Compacting
  <2> QED
    BY <1>3, <2>1 DEF Installs, Safe, Kept
<1>4. ASSUME NEW k \in Connections, CompactRead(k) \/ CompactArchive(k) PROVE Safe \subseteq Safe'
  BY <1>4 DEF CompactRead, CompactArchive, Safe, Kept
<1> QED
  BY <1>1, <1>2, <1>3, <1>4, NextStore

\* Where the connections that compact may come from.
LEMMA StillCompacting ==
    ASSUME ConnType, Next, NEW k \in Connections, ~CompactRead(k), k \in Compacting'
    PROVE  /\ k \in Compacting /\ conn'[k].request = conn[k].request
           /\ CompactArchive(k) \/ conn'[k].pc = conn[k].pc \/ conn[k].pc = "stage"
<1>0. conn \in [Connections -> Conns] /\ conn[k] \in Conns
  BY DEF ConnType
<1>1. \A c \in Conns : HungUp(c).pc = "closed"
  BY HungUpIs
<1>2. conn'[k].pc \in {"archive", "stage", "install"}
  BY DEF Compacting
<1>3. ASSUME conn'[k] = conn[k] \/ conn'[k] = HungUp(conn[k])
      PROVE  k \in Compacting /\ conn'[k].request = conn[k].request /\ conn'[k].pc = conn[k].pc
  BY <1>0, <1>1, <1>2, <1>3 DEF Compacting
<1>4. ASSUME NEW s \in Servers,
             AcquireOwnership(s) \/ Progress(s) \/ StartClose(s) \/ Exit(s) \/ Crash(s)
      PROVE  conn'[k] = conn[k] \/ conn'[k] = HungUp(conn[k])
  BY <1>4 DEF AcquireOwnership, StartClose, Progress, Prepare, UnlinkStale, Bind, Listen, Join, Sweep,
              Exit, Crash, Dies, CloseListeners
<1>5. ASSUME NEW j \in Connections \ {k},
             \/ Handle(j) \/ ClientTimeout(j)
             \/ \E q \in Requests, p \in AllPaths : Connect(j, q, p)
      PROVE  conn'[k] = conn[k]
  BY <1>0, <1>5 DEF Handle, Accept, Drop, Reject, Admit, DispatchRead, DispatchRecover, DispatchWrite,
                BeginWrite, EndWrite, CompactRead, CompactArchive, InstallStart, InstallEnd, Answer,
                ClientTimeout, Connect, Step, Reply, Hangup
<1>6. CASE ClientTimeout(k)
  BY <1>0, <1>2, <1>6 DEF ClientTimeout, Conns, Compacting
<1>7. CASE \E q \in Requests, p \in AllPaths : Connect(k, q, p)
  BY <1>0, <1>2, <1>7 DEF Connect, Closed
<1>8. CASE Handle(k)
  <2>1. ASSUME NEW code, Reply(k, code) PROVE FALSE
    BY <1>0, <1>2, <2>1 DEF Reply
  <2>2. ASSUME Hangup(k) PROVE FALSE
    BY <1>0, <1>1, <1>2, <2>2 DEF Hangup
  <2>3. ASSUME NEW label \in {"receive", "dispatch", "write", "commit"}, Step(k, label) PROVE FALSE
    BY <1>0, <1>2, <2>3 DEF Step
  <2>4. CASE Accept(k) \/ Drop(k) \/ Reject(k) \/ Admit(k)
    BY <2>1, <2>2, <2>3, <2>4 DEF Accept, Drop, Reject, Admit
  <2>5. CASE DispatchRead(k) \/ DispatchRecover(k) \/ DispatchWrite(k) \/ BeginWrite(k) \/ EndWrite(k)
    BY <2>1, <2>3, <2>5 DEF DispatchRead, DispatchRecover, DispatchWrite, BeginWrite, EndWrite
  <2>6. CASE Answer(k)
    <3>1. [conn[k] EXCEPT !.outcome = Told(k)] \in Conns
      BY <1>0 DEF Conns, Told
    <3> QED
      BY <1>0, <1>1, <1>2, <2>6, <3>1 DEF Answer
  <2>7. CASE CompactArchive(k)
    BY <1>0, <2>7 DEF CompactArchive, Step, Conns, Compacting
  <2>8. CASE InstallStart(k) \/ InstallEnd(k)
    <3>1. conn[k].pc = "stage" /\ Step(k, "install")
      BY <2>1, <2>8 DEF InstallStart, InstallEnd
    <3> QED
      BY <1>0, <3>1 DEF Step, Conns, Compacting
  <2> QED
    BY <1>8, <2>4, <2>5, <2>6, <2>7, <2>8 DEF Handle
<1> QED
  BY <1>3, <1>4, <1>5, <1>6, <1>7, <1>8 DEF Next

LEMMA StepCompact ==
    ASSUME CompactInv, ConnInv, Next
    PROVE  CompactInv'
<1>1. DOMAIN read' = Connections
  BY NextStore DEF Same, Adds, Installs, CompactRead, CompactArchive, CompactInv
<1>2. ASSUME NEW k \in Connections PROVE CompactOK(k)'
  <2>0. /\ ConnType /\ CompactOK(k)
        /\ conn'[k].pc \in {"stage", "install"} => k \in Compacting'
    BY DEF ConnInv, CompactInv, Compacting
  <2>1. CASE CompactRead(k)
    <3>1. CASE k \in Compacting'
      <4>1. /\ Step(k, "archive") /\ read' = [read EXCEPT ![k] = committed]
            /\ conn[k].request.op = "store.compact" /\ committed' = committed
        <5>1. ~\E code \in {"ok", "error"} : Reply(k, code)
          <6> SUFFICES ASSUME NEW code \in {"ok", "error"}, Reply(k, code) PROVE FALSE
            OBVIOUS
          <6>1. conn'[k].pc = "answer"
            BY <2>0 DEF Reply, ConnType, Conns
          <6> QED
            BY <3>1, <6>1 DEF Compacting
        <5> QED
          BY <2>1, <5>1 DEF CompactRead
      <4>2. conn'[k].pc = "archive" /\ conn'[k].request = conn[k].request /\ read'[k] = committed
        BY <2>0, <4>1 DEF Step, ConnType, Conns, CompactInv
      <4> QED
        BY <4>1, <4>2 DEF CompactOK
    <3> QED
      BY <2>0, <3>1 DEF CompactOK
  <2>2. CASE ~CompactRead(k) /\ k \in Compacting'
    <3>1. /\ k \in Compacting /\ conn'[k].request = conn[k].request
          /\ CompactArchive(k) \/ conn'[k].pc = conn[k].pc \/ conn[k].pc = "stage"
      BY <2>0, <2>2, StillCompacting
    <3>2. /\ committed \subseteq read[k] \cup archived \cup raced
          /\ conn'[k].request.op = "store.compact"
          /\ conn[k].pc \in {"stage", "install"} => read[k] \subseteq archived
      BY <2>0, <3>1 DEF CompactOK
    <3>3. CASE Same
      BY <3>1, <3>2, <3>3 DEF Same, CompactOK, CompactArchive
    <3>4. CASE Adds
      BY <3>1, <3>2, <3>4 DEF Adds, Beside, CompactOK, CompactArchive
    <3>5. CASE Installs
      BY <3>1, <3>2, <3>5 DEF Installs, Replaced, CompactOK, CompactArchive
    <3>6. ASSUME NEW j \in Connections, CompactRead(j) PROVE CompactOK(k)'
      <4>1. read'[k] = read[k] /\ UNCHANGED <<committed, archived, raced>>
        BY <2>2, <3>6 DEF CompactRead, CompactInv
      <4> QED
        BY <3>1, <3>2, <4>1 DEF CompactOK, CompactArchive
    <3>7. ASSUME NEW j \in Connections, CompactArchive(j) PROVE CompactOK(k)'
      <4>1. /\ archived' = archived \cup read[j] /\ UNCHANGED <<committed, read, raced>>
        BY <3>7 DEF CompactArchive
      <4>2. CASE CompactArchive(k)
        BY <3>2, <4>2 DEF CompactOK, CompactArchive
      <4>3. CASE ~CompactArchive(k)
        BY <3>1, <3>2, <4>1, <4>3 DEF CompactOK
      <4> QED
        BY <4>2, <4>3
    <3> QED
      BY <3>3, <3>4, <3>5, <3>6, <3>7, NextStore
  <2> QED
    BY <2>0, <2>1, <2>2 DEF CompactOK
<1> QED
  BY <1>1, <1>2 DEF CompactInv

-----------------------------------------------------------------------------
\* The pool of slots.

\* The slots of the servers that a step does not concern stay accounted for.
LEMMA SlotsKept ==
    ASSUME SlotInv, NEW s \in Servers, HandlersOf(s)' = HandlersOf(s), slots'[s] = slots[s]
    PROVE  slots'[s] + Cardinality(HandlersOf(s)') = MaxConnections
BY DEF SlotInv

\* A connection between two control points of the same kind takes no slot.
LEMMA SlotsSame ==
    ASSUME SlotInv, slots' = slots, \A s \in Servers : HandlersOf(s)' = HandlersOf(s)
    PROVE  SlotInv'
BY DEF SlotInv

\* A handler that ends, whether it answers or not, gives its slot back.
LEMMA SlotReleased ==
    ASSUME SlotInv, ConnType, NEW k \in Connections, conn[k].pc \in Handling,
           NEW s \in Servers, s = conn[k].server, Release(k),
           NEW c \in Conns, c.pc = "closed", conn' = [conn EXCEPT ![k] = c]
    PROVE  SlotInv'
<1>1. IsFiniteSet(HandlersOf(s)) /\ k \in HandlersOf(s)
  <2>1. HandlersOf(s) \subseteq Connections
    BY DEF HandlersOf
  <2> QED
    BY <2>1, ServiceAssumption, FS_Subset DEF HandlersOf
<1>2. HandlersOf(s)' = HandlersOf(s) \ {k}
  BY DEF HandlersOf, ConnType, Handling
<1>3. Cardinality(HandlersOf(s)') = Cardinality(HandlersOf(s)) - 1 /\ Cardinality(HandlersOf(s)) \in Nat
  BY <1>1, <1>2, FS_RemoveElement, FS_CardinalityType
<1>4. IsFiniteSet(HandlersOf(s)') /\ Cardinality(HandlersOf(s)') \in Nat
  BY <1>1, <1>2, FS_RemoveElement, FS_CardinalityType
<1>5. \A t \in Servers \ {s} : HandlersOf(t)' = HandlersOf(t)
  BY DEF HandlersOf, ConnType, Handling
<1>6. slots' = [slots EXCEPT ![s] = @ + 1]
  BY DEF Release
<1>7. slots[s] \in 0..MaxConnections /\ slots[s] + Cardinality(HandlersOf(s)) = MaxConnections
  BY DEF SlotInv
<1>8. slots[s] + 1 \in 0..MaxConnections /\ slots[s] + 1 + Cardinality(HandlersOf(s)') = MaxConnections
  BY <1>3, <1>4, <1>7, ServiceAssumption
<1> QED
  BY <1>5, <1>6, <1>8 DEF SlotInv

\* A connection that is accepted takes a slot that was free.
LEMMA SlotTaken ==
    ASSUME SlotInv, ConnType, NEW k \in Connections, conn[k].pc = "backlog",
           NEW s \in Servers, s = conn[k].server, slots[s] > 0, slots' = [slots EXCEPT ![s] = @ - 1],
           Step(k, "receive")
    PROVE  SlotInv'
<1>1. IsFiniteSet(HandlersOf(s)) /\ k \notin HandlersOf(s)
  <2>1. HandlersOf(s) \subseteq Connections
    BY DEF HandlersOf
  <2> QED
    BY <2>1, ServiceAssumption, FS_Subset DEF HandlersOf, Handling
<1>2. /\ conn'[k].pc = "receive" /\ conn'[k].server = s
      /\ \A j \in Connections \ {k} : conn'[j] = conn[j]
  BY DEF Step, ConnType, Conns
<1>3. HandlersOf(s)' = HandlersOf(s) \cup {k}
  BY <1>2 DEF HandlersOf, Handling
<1>4. Cardinality(HandlersOf(s)') = Cardinality(HandlersOf(s)) + 1 /\ Cardinality(HandlersOf(s)) \in Nat
  BY <1>1, <1>3, FS_AddElement, FS_CardinalityType
<1>5. \A t \in Servers \ {s} : HandlersOf(t)' = HandlersOf(t)
  BY <1>2 DEF HandlersOf, Handling
<1>6. slots[s] \in 0..MaxConnections /\ slots[s] + Cardinality(HandlersOf(s)) = MaxConnections
  BY DEF SlotInv
<1>7. slots[s] - 1 \in 0..MaxConnections /\ slots[s] - 1 + Cardinality(HandlersOf(s)') = MaxConnections
  BY <1>4, <1>6, ServiceAssumption
<1> QED
  BY <1>5, <1>7 DEF SlotInv

\* A server that dies leaves no handler.
LEMMA DiesSlots ==
    ASSUME SlotInv, ConnType, NEW s \in Servers, Dies(s)
    PROVE  SlotInv'
<1>1. conn' = [k \in Connections |->
                 IF conn[k].server = s /\ conn[k].pc # "closed" THEN HungUp(conn[k]) ELSE conn[k]]
  BY DEF Dies
<1>2. \A k \in Connections : HungUp(conn[k]).pc = "closed"
  BY HungUpIs DEF ConnType
<1>3. HandlersOf(s)' = {}
  BY <1>1, <1>2 DEF HandlersOf, Handling
<1>4. \A t \in Servers \ {s} : HandlersOf(t)' = HandlersOf(t)
  BY <1>1, <1>2 DEF HandlersOf, Handling
<1>5. slots' = [slots EXCEPT ![s] = MaxConnections]
  BY DEF Dies
<1>6. MaxConnections \in 0..MaxConnections /\ MaxConnections + Cardinality({}) = MaxConnections
  BY ServiceAssumption, FS_EmptySet
<1> QED
  BY <1>3, <1>4, <1>5, <1>6 DEF SlotInv

\* Every step keeps the slots and the handlers in balance.
LEMMA StepSlots ==
    ASSUME SlotInv, ConnInv, Next
    PROVE  SlotInv'
<1>0. ConnType
  BY DEF ConnInv
<1>1. ASSUME NEW s \in Servers, AcquireOwnership(s) \/ Progress(s) \/ StartClose(s) PROVE SlotInv'
  <2>1. (CloseListeners(s) \/ conn' = conn) /\ slots' = slots
    BY <1>1 DEF AcquireOwnership, StartClose, Progress, Prepare, UnlinkStale, Bind, Listen, Join, Sweep
  <2>2. ASSUME NEW k \in Connections
        PROVE  \/ conn'[k] = conn[k]
               \/ conn[k].pc \notin Handling /\ conn'[k].pc \notin Handling
    BY <1>0, <2>1, HungUpIs DEF CloseListeners, ConnType, Handling
  <2>3. \A t \in Servers : HandlersOf(t)' = HandlersOf(t)
    BY <2>2 DEF HandlersOf
  <2> QED
    BY <2>1, <2>3, SlotsSame
<1>2. ASSUME NEW s \in Servers, Exit(s) \/ Crash(s) PROVE SlotInv'
  BY <1>0, <1>2, DiesSlots DEF Exit, Crash
<1>3. ASSUME NEW k \in Connections,
             \/ Handle(k) \/ ClientTimeout(k)
             \/ \E q \in Requests, p \in AllPaths : Connect(k, q, p)
      PROVE  SlotInv'
  <2>0. conn[k] \in Conns /\ (conn[k].pc # "closed" => conn[k].server \in Servers)
    BY DEF ConnInv, ConnType, ConnOK
  <2>1. ASSUME slots' = slots, conn'[k].server = conn[k].server, conn[k].pc \in Handling,
               conn'[k].pc \in Handling, \A j \in Connections \ {k} : conn'[j] = conn[j]
        PROVE  SlotInv'
    <3>1. \A s \in Servers : HandlersOf(s)' = HandlersOf(s)
      BY <2>1 DEF HandlersOf
    <3> QED
      BY <2>1, <3>1, SlotsSame
  <2>2. ASSUME slots' = slots, conn[k].pc \notin Handling, conn'[k].pc \notin Handling,
               \A j \in Connections \ {k} : conn'[j] = conn[j]
        PROVE  SlotInv'
    <3>1. \A s \in Servers : HandlersOf(s)' = HandlersOf(s)
      BY <2>2 DEF HandlersOf
    <3> QED
      BY <2>2, <3>1, SlotsSame
  <2>3. ASSUME NEW code, Reply(k, code), slots' = slots, conn[k].pc \in Handling PROVE SlotInv'
    <3>1. conn'[k].server = conn[k].server /\ conn'[k].pc \in Handling
      BY <1>0, <2>3 DEF Reply, ConnType, Conns, Handling
    <3>2. \A j \in Connections \ {k} : conn'[j] = conn[j]
      BY <1>0, <2>3 DEF Reply, ConnType
    <3> QED
      BY <2>1, <2>3, <3>1, <3>2
  <2>4. ASSUME NEW label \in Handling, Step(k, label), slots' = slots, conn[k].pc \in Handling
        PROVE  SlotInv'
    <3>1. conn'[k].server = conn[k].server /\ conn'[k].pc \in Handling
      BY <1>0, <2>4 DEF Step, ConnType, Conns, Handling
    <3>2. \A j \in Connections \ {k} : conn'[j] = conn[j]
      BY <1>0, <2>4 DEF Step, ConnType
    <3> QED
      BY <2>1, <2>4, <3>1, <3>2
  <2>5. CASE Accept(k)
    <3>1. CASE slots[conn[k].server] > 0
      BY <1>0, <2>0, <2>5, <3>1, SlotTaken DEF Accept
    <3>2. CASE ~(slots[conn[k].server] > 0)
      <4>1. Hangup(k) /\ slots' = slots /\ conn[k].pc \notin Handling
        BY <2>5, <3>2 DEF Accept, Handling
      <4>2. HungUp(conn[k]).pc = "closed"
        BY <2>0, HungUpIs
      <4>3. conn'[k].pc \notin Handling /\ \A j \in Connections \ {k} : conn'[j] = conn[j]
        BY <1>0, <4>1, <4>2 DEF Hangup, ConnType, Handling
      <4> QED
        BY <2>2, <4>1, <4>3
    <3> QED
      BY <3>1, <3>2
  <2>6. CASE Drop(k)
    <3>1. HungUp(conn[k]) \in Conns /\ HungUp(conn[k]).pc = "closed"
      BY <2>0, HungUpIs
    <3>2. /\ Release(k) /\ conn[k].pc \in Handling /\ conn[k].pc # "closed"
          /\ conn' = [conn EXCEPT ![k] = HungUp(conn[k])]
      BY <1>0, <2>6 DEF Drop, Hangup, Handling, ConnType
    <3> HIDE DEF HungUp
    <3> QED
      BY <1>0, <2>0, <3>1, <3>2, SlotReleased
  <2>7. CASE Answer(k)
    <3> DEFINE c == [conn[k] EXCEPT !.outcome = Told(k)]
    <3>1. c \in Conns
      BY <2>0 DEF Conns, Told
    <3>2. HungUp(c) \in Conns /\ HungUp(c).pc = "closed"
      BY <3>1, HungUpIs
    <3>3. /\ Release(k) /\ conn[k].pc \in Handling /\ conn[k].pc # "closed"
          /\ conn' = [conn EXCEPT ![k] = HungUp(c)]
      BY <1>0, <2>7 DEF Answer, Handling, ConnType
    <3> HIDE DEF HungUp, c
    <3> QED
      BY <1>0, <2>0, <3>2, <3>3, SlotReleased
  <2>8. CASE \/ Reject(k) \/ Admit(k) \/ DispatchRead(k) \/ DispatchRecover(k) \/ DispatchWrite(k)
             \/ BeginWrite(k) \/ EndWrite(k)
             \/ CompactRead(k) \/ CompactArchive(k) \/ InstallStart(k) \/ InstallEnd(k)
    <3>1. conn[k].pc \in Handling /\ slots' = slots
      BY <2>8 DEF Reject, Admit, DispatchRead, DispatchRecover, DispatchWrite, BeginWrite, EndWrite,
                  CompactRead, CompactArchive, InstallStart, InstallEnd, Handling
    <3>2. (\E code \in {"ok", "error"} : Reply(k, code)) \/ (\E label \in Handling : Step(k, label))
      BY <2>8 DEF Reject, Admit, DispatchRead, DispatchRecover, DispatchWrite, BeginWrite, EndWrite,
                  CompactRead, CompactArchive, InstallStart, InstallEnd, Handling
    <3> QED
      BY <2>3, <2>4, <3>1, <3>2
  <2>9. CASE ClientTimeout(k)
    <3>1. /\ conn'[k].pc = conn[k].pc /\ conn'[k].server = conn[k].server
          /\ \A j \in Connections \ {k} : conn'[j] = conn[j] /\ slots' = slots
      BY <1>0, <2>9 DEF ClientTimeout, ConnType, Conns
    <3> QED
      BY <1>0, <2>1, <2>2, <2>9, <3>1 DEF ClientTimeout
  <2>10. ASSUME NEW q \in Requests, NEW p \in AllPaths, Connect(k, q, p) PROVE SlotInv'
    <3>1. conn[k].pc \notin Handling /\ conn'[k].pc = "backlog" /\ slots' = slots
      BY <1>0, <2>10 DEF Connect, ConnType, Closed, Handling
    <3>2. \A j \in Connections \ {k} : conn'[j] = conn[j]
      BY <1>0, <2>10 DEF Connect, ConnType
    <3> QED
      BY <2>2, <3>1, <3>2 DEF Handling
  <2> QED
    BY <1>3, <2>5, <2>6, <2>7, <2>8, <2>9, <2>10 DEF Handle
<1> QED
  BY <1>1, <1>2, <1>3 DEF Next

-----------------------------------------------------------------------------
\* The memory of request ids.

\* The place, in a list of m, of the i-th of l that is among the last m.
LEMMA AmongLast ==
    ASSUME NEW l \in Nat, NEW m \in Nat, NEW r \in Nat, m = IF l < r THEN l ELSE r,
           NEW i \in 1..l, (l + 1) - i <= r
    PROVE  i - (l - m) \in 1..m /\ (l - m) + (i - (l - m)) = i
OBVIOUS

\* What is appended is at the end, and the rest stays in its place.
LEMMA Appended ==
    ASSUME NEW all \in Seq(Ids), NEW id \in Ids
    PROVE  /\ Append(all, id) \in Seq(Ids) /\ Len(Append(all, id)) = Len(all) + 1
           /\ Append(all, id)[Len(all) + 1] = id
           /\ \A i \in 1..Len(all) : Append(all, id)[i] = all[i]
OBVIOUS

\* The memory with one more id, cut to its length, is the end of all with that id.
LEMMA AdmitEnd ==
    ASSUME NEW old \in Seq(Ids), NEW all \in Seq(Ids), NEW id \in Ids, EndOf(old, all),
           NEW a, a = Append(old, id), NEW more, more = Append(all, id),
           NEW new, new = IF Len(a) > MaxRecent THEN Tail(a) ELSE a
    PROVE  new \in Seq(Ids) /\ EndOf(new, more)
<1>0. MaxRecent \in Nat /\ MaxRecent > 0 /\ Len(old) \in Nat /\ Len(all) \in Nat /\ Len(old) <= MaxRecent
  BY ServiceAssumption DEF EndOf
<1>1. /\ more \in Seq(Ids) /\ Len(more) = Len(all) + 1 /\ more[Len(all) + 1] = id
      /\ \A i \in 1..Len(all) : more[i] = all[i]
  BY Appended
<1>2. /\ a \in Seq(Ids) /\ Len(a) = Len(old) + 1 /\ a[Len(old) + 1] = id
      /\ \A i \in 1..Len(old) : a[i] = old[i]
  BY Appended
<1>3. Len(old) = IF Len(all) < MaxRecent THEN Len(all) ELSE MaxRecent
  BY DEF EndOf
<1>4. ASSUME NEW i \in 1..Len(a) PROVE a[i] = more[(Len(more) - Len(a)) + i]
  <2>1. CASE i = Len(a)
    <3>1. (Len(more) - Len(a)) + i = Len(all) + 1
      BY <1>0, <1>1, <1>2, <2>1
    <3>2. i = Len(old) + 1
      BY <1>2, <2>1
    <3> QED
      BY <1>1, <1>2, <3>1, <3>2
  <2>2. CASE i # Len(a)
    <3>1. i \in 1..Len(old) /\ (Len(all) - Len(old)) + i \in 1..Len(all)
      BY <1>0, <1>2, <1>3, <1>4, <2>2
    <3>2. (Len(more) - Len(a)) + i = (Len(all) - Len(old)) + i
      BY <1>0, <1>1, <1>2
    <3>3. old[i] = all[(Len(all) - Len(old)) + i]
      BY <3>1 DEF EndOf
    <3> QED
      BY <1>1, <1>2, <3>1, <3>2, <3>3
  <2> QED
    BY <2>1, <2>2
<1>5. CASE Len(a) > MaxRecent
  <2>1. new = Tail(a) /\ a # <<>>
    BY <1>2, <1>5, <1>0
  <2>2. new \in Seq(Ids) /\ Len(new) = Len(a) - 1 /\ \A i \in 1..Len(new) : new[i] = a[i + 1]
    BY <1>2, <2>1, HeadTailProperties
  <2>3. Len(new) = MaxRecent /\ Len(all) >= MaxRecent
    BY <1>0, <1>2, <1>3, <1>5, <2>2
  <2>4. ASSUME NEW i \in 1..Len(new) PROVE new[i] = more[(Len(more) - Len(new)) + i]
    <3>1. i + 1 \in 1..Len(a)
      BY <1>0, <1>2, <2>2, <2>3, <2>4
    <3>2. (Len(more) - Len(a)) + (i + 1) = (Len(more) - Len(new)) + i
      <4>1. Len(more) \in Nat /\ Len(a) \in Nat /\ i \in Nat
        BY <1>1, <1>2, <2>4
      <4>2. ASSUME NEW m \in Nat, NEW l \in Nat, NEW n \in Nat, NEW d, d = l - 1
            PROVE  (m - l) + (n + 1) = (m - d) + n
        BY <4>2
      <4>3. Len(new) = Len(a) - 1
        BY <2>2
      <4> QED
        BY ONLY <4>1, <4>2, <4>3
    <3>3. new[i] = a[i + 1]
      BY <2>2, <2>4
    <3> QED
      BY <1>4, <3>1, <3>2, <3>3
  <2>5. Len(new) = IF Len(more) < MaxRecent THEN Len(more) ELSE MaxRecent
    BY <1>0, <1>1, <2>3
  <2> QED
    BY <2>2, <2>4, <2>5 DEF EndOf
<1>6. CASE ~(Len(a) > MaxRecent)
  <2>1. new = a
    BY <1>6
  <2>2. Len(a) = IF Len(more) < MaxRecent THEN Len(more) ELSE MaxRecent
    BY <1>0, <1>1, <1>2, <1>3, <1>6
  <2> QED
    BY <1>2, <1>4, <2>1, <2>2 DEF EndOf
<1> QED
  BY <1>5, <1>6

\* An id that is not in the memory was not among the last MaxRecent admitted.
LEMMA AdmitSpread ==
    ASSUME NEW old \in Seq(Ids), NEW all \in Seq(Ids), NEW id \in Ids, EndOf(old, all), Spread(all),
           ~\E i \in 1..Len(old) : old[i] = id,
           NEW more, more = Append(all, id)
    PROVE  Spread(more)
<1>0. MaxRecent \in Nat /\ MaxRecent > 0 /\ Len(old) \in Nat /\ Len(all) \in Nat
  BY ServiceAssumption
<1>1. /\ Len(more) = Len(all) + 1 /\ more[Len(all) + 1] = id
      /\ \A i \in 1..Len(all) : more[i] = all[i]
  BY Appended
<1>2. ASSUME NEW i \in 1..Len(more), NEW j \in 1..Len(more), i < j, more[i] = more[j]
      PROVE  j - i > MaxRecent
  <2>0. i \in 1..Len(all)
    BY <1>0, <1>1, <1>2
  <2>1. CASE j <= Len(all)
    <3>1. j \in 1..Len(all)
      BY <1>0, <1>2, <2>1
    <3> QED
      BY <1>1, <1>2, <2>0, <3>1 DEF Spread
  <2>2. CASE ~(j <= Len(all))
    <3>1. j = Len(all) + 1
      BY <1>0, <1>1, <1>2, <2>2
    <3>2. all[i] = id
      BY <1>1, <1>2, <2>0, <3>1
    <3>3. SUFFICES ASSUME j - i <= MaxRecent PROVE FALSE
      BY <1>0, <2>0, <3>1
    <3> DEFINE n == i - (Len(all) - Len(old))
    <3>4. Len(old) = IF Len(all) < MaxRecent THEN Len(all) ELSE MaxRecent
      BY DEF EndOf
    <3>5. n \in 1..Len(old) /\ (Len(all) - Len(old)) + n = i
      BY <1>0, <2>0, <3>1, <3>3, <3>4, AmongLast
    <3> HIDE DEF n
    <3>6. old[n] = all[(Len(all) - Len(old)) + n]
      BY <3>5 DEF EndOf
    <3> QED
      BY <3>2, <3>5, <3>6
  <2> QED
    BY <2>1, <2>2
<1> QED
  BY <1>2 DEF Spread

\* Every step keeps the memory of every server the end of what it admitted.
LEMMA StepMemory ==
    ASSUME MemoryInv, ConnInv, Next
    PROVE  MemoryInv'
<1>1. ASSUME recent' = recent, admitted' = admitted PROVE MemoryInv'
  BY <1>1 DEF MemoryInv
<1>2. ASSUME NEW s \in Servers, NEW new \in Seq(Ids), NEW more \in Seq(Ids),
             recent' = [recent EXCEPT ![s] = new], admitted' = [admitted EXCEPT ![s] = more],
             EndOf(new, more), Spread(more)
      PROVE  MemoryInv'
  BY <1>2 DEF MemoryInv
<1>3. ASSUME NEW s \in Servers, Exit(s) \/ Crash(s) PROVE MemoryInv'
  <2>1. recent' = [recent EXCEPT ![s] = <<>>] /\ admitted' = [admitted EXCEPT ![s] = <<>>]
    BY <1>3 DEF Exit, Crash, Dies
  <2>2. <<>> \in Seq(Ids) /\ EndOf(<<>>, <<>>) /\ Spread(<<>>)
    BY ServiceAssumption DEF EndOf, Spread
  <2> QED
    BY <1>2, <2>1, <2>2
<1>4. ASSUME NEW k \in Connections, Admit(k) PROVE MemoryInv'
  <2>1. CASE Remembered(conn[k].server, conn[k].request.id)
    BY <1>1, <1>4, <2>1 DEF Admit
  <2>2. CASE ~Remembered(conn[k].server, conn[k].request.id)
    <3>1. PICK s \in Servers, q \in Requests : s = conn[k].server /\ q = conn[k].request
      BY <1>4 DEF Admit, ConnInv, ConnOK
    <3>2. PICK new, more : new = Remember(s, q.id) /\ more = Append(admitted[s], q.id)
      OBVIOUS
    <3>3. recent' = [recent EXCEPT ![s] = new] /\ admitted' = [admitted EXCEPT ![s] = more]
      BY <1>4, <2>2, <3>1, <3>2 DEF Admit, MemoryInv
    <3>4. /\ q.id \in Ids /\ recent[s] \in Seq(Ids) /\ admitted[s] \in Seq(Ids)
          /\ EndOf(recent[s], admitted[s]) /\ Spread(admitted[s])
      BY DEF MemoryInv, Ids
    <3>5. ~\E i \in 1..Len(recent[s]) : recent[s][i] = q.id
      BY <2>2, <3>1 DEF Remembered
    <3>6. more \in Seq(Ids) /\ Spread(more)
      BY <3>2, <3>4, <3>5, AdmitSpread, Appended
    <3>7. new \in Seq(Ids) /\ EndOf(new, more)
      <4>1. PICK old \in Seq(Ids), all \in Seq(Ids), id \in Ids :
               old = recent[s] /\ all = admitted[s] /\ id = q.id /\ EndOf(old, all)
        BY <3>4
      <4>2. PICK a : a = Append(old, id)
        OBVIOUS
      <4>3. new = IF Len(a) > MaxRecent THEN Tail(a) ELSE a
        BY <3>2, <4>1, <4>2 DEF Remember
      <4>4. more = Append(all, id)
        BY <3>2, <4>1
      <4> QED
        BY <4>1, <4>2, <4>3, <4>4, AdmitEnd, ZenonT(60)
    <3> QED
      BY <1>2, <3>3, <3>6, <3>7
  <2> QED
    BY <2>1, <2>2
<1>5. CASE UNCHANGED <<recent, admitted>>
  BY <1>1, <1>5
<1>6. \/ UNCHANGED <<recent, admitted>>
      \/ \E s \in Servers : Exit(s) \/ Crash(s)
      \/ \E k \in Connections : Admit(k)
  BY ZenonT(60) DEF Next, Progress, AcquireOwnership, StartClose, Prepare, UnlinkStale, Bind, Listen, Join, Sweep,
         Handle, Accept, Drop, Reject, DispatchRead, DispatchRecover, DispatchWrite, BeginWrite,
         EndWrite, CompactRead, CompactArchive, InstallStart, InstallEnd, Answer, ClientTimeout, Connect
<1> QED
  BY <1>3, <1>4, <1>5, <1>6

-----------------------------------------------------------------------------
\* Theorems.

\* The state in which no server has started satisfies the invariant.
LEMMA InitService ==
    ASSUME Init
    PROVE  ServiceInv
<1>1. SocketInv /\ AtOwnPath
  BY ServiceAssumption
     DEF Init, SocketInv, SocketType, Files, Places, NoFile, Roles, ActiveOwns, ListenerOwns, Bound,
         AtOwnPath
<1>2. Closed \in Conns
  BY DEF Closed, Conns, Roles
<1>3. ConnInv
  BY <1>2, ServiceAssumption DEF Init, ConnInv, ConnType, ConnOK, Closed
<1>4. SlotInv
  <2>1. \A s \in Servers : HandlersOf(s) = {}
    BY DEF Init, HandlersOf, Closed, Handling
  <2>2. MaxConnections \in 0..MaxConnections /\ MaxConnections + Cardinality({}) = MaxConnections
    BY ServiceAssumption, FS_EmptySet
  <2> QED
    BY <2>1, <2>2 DEF Init, SlotInv
<1>5. MemoryInv
  BY ServiceAssumption DEF Init, MemoryInv, EndOf, Spread
<1>6. CompactInv
  BY DEF Init, CompactInv, CompactOK, Compacting, Closed
<1> QED
  BY <1>1, <1>3, <1>4, <1>5, <1>6, ServiceAssumption DEF Init, ServiceInv

\* Every step, and every stutter, preserves the invariant.
LEMMA StepService ==
    ASSUME ServiceInv, [Next]_vars
    PROVE  ServiceInv'
<1>1. CASE Next
  <2>1. crashes' \in 0..MaxCrashes
    <3>1. crashes' = crashes \/ (crashes < MaxCrashes /\ crashes' = crashes + 1)
      BY <1>1 DEF Next, Progress, AcquireOwnership, StartClose, Prepare, UnlinkStale, Bind, Listen,
           Join, Sweep, Exit, Crash, Handle, Accept, Drop, Reject, Admit, DispatchRead,
           DispatchRecover, DispatchWrite, BeginWrite, EndWrite, CompactRead, CompactArchive,
           InstallStart, InstallEnd, Answer, ClientTimeout, Connect
    <3> QED
      BY <3>1, ServiceAssumption DEF ServiceInv
  <2> QED
    BY <1>1, <2>1, StepSockets, StepOwnPath, SafeGrows, StepConns, StepCompact, StepSlots, StepMemory
       DEF ServiceInv
<1>2. CASE UNCHANGED vars
  BY <1>2 DEF vars, ServiceInv, SocketInv, SocketType, ActiveOwns, ListenerOwns, Bound, PathAt, AtOwnPath,
              ConnInv, ConnType, ConnOK, Safe, Kept, CompactInv, CompactOK, Compacting, SlotInv,
              HandlersOf, MemoryInv
<1> QED
  BY <1>1, <1>2

\* In every reachable state the inductive invariant holds.
THEOREM ServiceInvariant == Spec => []ServiceInv
BY InitService, StepService, PTL DEF Spec

\* Types: the control points, sockets and connections are what the code knows,
\* and a server remembers at most MaxRecent ids.
THEOREM ServiceTyped == Spec => []TypeOK
<1>1. ServiceInv => TypeOK
  <2>1. ASSUME ServiceInv PROVE \A s \in Servers : Len(recent[s]) <= MaxRecent
    BY <2>1, ServiceAssumption DEF ServiceInv, MemoryInv, EndOf
  <2> QED
    BY <2>1 DEF ServiceInv, TypeOK, SocketInv, SocketType, ConnInv, ConnType, SlotInv, Conns, Files,
                Places
<1> QED
  BY <1>1, ServiceInvariant, PTL

\* Only the owner of the service lock listens, and a running service is reached
\* on both of its sockets (_acquire_ownership, _prepare, start and close).
THEOREM OnlyOwnerListens == Spec => []OwnerListens
<1>1. ServiceInv => OwnerListens
  BY DEF ServiceInv, SocketInv, ListenerOwns, Bound, OwnerListens
<1> QED
  BY <1>1, ServiceInvariant, PTL

\* The semaphore of _accept_loop and _handle_connection: free slots and handlers
\* add up to max_connections on every way out.
THEOREM SlotsBalance == Spec => []SlotsConserved
<1>1. ServiceInv => SlotsConserved
  BY DEF ServiceInv, SlotInv, SlotsConserved
<1> QED
  BY <1>1, ServiceInvariant, PTL

\* handle and its deque of ids: a served id is served again only after MaxRecent others.
THEOREM NoReplay == Spec => []ReplaysRefused
<1>1. ServiceInv => ReplaysRefused
  BY DEF ServiceInv, MemoryInv, Spread, ReplaysRefused
<1> QED
  BY <1>1, ServiceInvariant, PTL

\* A client that was told its write is stored finds it in the ledger or in an archive,
\* whichever servers died inside a commit or an install and whatever was compacted in
\* the meantime, unless it was committed between the read and the install of a compaction.
THEOREM OkIsStored == Spec => []OkMeansCommitted
<1>1. ServiceInv => OkMeansCommitted
  BY DEF ServiceInv, ConnInv, ConnOK, Safe, OkMeansCommitted
<1> QED
  BY <1>1, ServiceInvariant, PTL
=============================================================================
