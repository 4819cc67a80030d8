---------------------------- MODULE LocalService ----------------------------
(***************************************************************************)
(* The controller-local service of src/mncs_commons/local_service.py: its  *)
(* servers, which own a store by an advisory lock and listen on a consumer *)
(* and an operator socket, the request handlers, one per connection within *)
(* a bounded number of slots, and the clients, which may time out, send a  *)
(* request again, or meet a server that closes or dies.                    *)
(*                                                                         *)
(* The store under the service is abstracted to what the handlers tell     *)
(* apart: the entries of its ledger and of its archives, the handler that  *)
(* is inside a commit or an install, and what a dead server left half-way  *)
(* (see CommonsStore and Compaction).                                      *)
(***************************************************************************)
EXTENDS Naturals, Sequences, FiniteSets

CONSTANTS
    Servers,         \* service processes configured for one store
    Paths,           \* server -> [role -> socket path]
    NoServer,        \* the service lock is free; a path has no socket file
    Connections,     \* client connections
    Requests,        \* [id, op, entry]: what clients send
    NoRequest,
    NoEntry,         \* no transaction is pending
    Stored,          \* entries of the store at first
    MaxConnections,  \* config.max_connections
    MaxRecent,       \* length of the memory of request ids
    MaxCrashes       \* bound on crashes of a server

Roles == {"consumer", "operator"}

ASSUME ServiceAssumption ==
    /\ NoServer \notin Servers
    /\ IsFiniteSet(Connections)
    /\ NoRequest \notin Connections
    /\ MaxConnections \in Nat \ {0}
    /\ MaxRecent \in Nat \ {0}
    /\ MaxCrashes \in Nat
    /\ \A s \in Servers : Paths[s]["consumer"] # Paths[s]["operator"]

\* OPERATOR_OPERATIONS: refused on the consumer socket.
OperatorOperations ==
    {"commons.publish", "store.recover", "store.compact", "store.pin", "store.unpin",
     "work.submit", "work.propose", "work.transition", "work.claim", "family.health-sweep"}

\* The operations that _dispatch serves without asking for a healthy store.
UngatedOperations ==
    {"service.status", "service.doctor", "service.descriptor", "commons.describe",
     "family.registry", "family.graph", "commons.validate", "store.recover",
     "store.retention", "store.compact", "store.pin", "store.unpin"}

\* The operations that read records of a healthy store.
RecordReads ==
    {"commons.get", "commons.query", "commons.sync", "commons.conversation",
     "commons.evidence", "commons.experiment", "commons.work"}

\* The operations that read the work and the family state of a healthy store.
WorkReads ==
    {"work.status", "work.list", "work.next", "work.policy", "work.scope-check",
     "family.coverage", "family.consistency"}

\* The operations that add to the store, from commons.publish to work.claim.
WriteOperations ==
    {"commons.publish", "work.submit", "work.propose", "family.health-sweep",
     "work.transition", "work.claim"}

VARIABLES
    owner,      \* server that holds the service lock of the store
    file,       \* path -> [server, listening]: the socket file there
    server,     \* server -> control point, and the role whose socket it binds
    slots,      \* server -> free slots of its semaphore
    recent,     \* server -> memory of request ids, oldest first
    admitted,   \* server -> every id it went on to serve (history)
    conn,       \* connection -> its state, client and handler side
    committed,  \* entries in the ledger of the store
    writer,     \* the connection whose handler holds the writer lock
    stuck,      \* the entry of a transaction left by a dead server
    stranded,   \* the ledger that this transaction was for has been replaced
    archived,   \* entries in the archives of the store
    read,       \* connection -> the entries that its compaction has read
    torn,       \* an install has stopped between the ledger and the content files
    raced,      \* entries that were committed beside a compaction (history)
    crashes

socketVars == <<owner, file>>
storeVars  == <<committed, writer, stuck, stranded, archived, read, torn, raced>>
vars == <<owner, file, server, slots, recent, admitted, conn, committed, writer, stuck, stranded,
          archived, read, torn, raced, crashes>>

NoFile == [server |-> NoServer, listening |-> FALSE]

AllPaths == UNION {{Paths[s][r] : r \in Roles} : s \in Servers}

Closed == [pc |-> "closed", server |-> NoServer, role |-> "consumer", request |-> NoRequest,
           reply |-> "none", outcome |-> "none"]

\* Control points at which a handler thread holds a slot of its server.
Handling == {"receive", "dispatch", "write", "commit", "archive", "stage", "install", "answer"}

HandlersOf(s) == {k \in Connections : conn[k].server = s /\ conn[k].pc \in Handling}

\* A compaction has read the store and has not replaced its ledger yet.
Compacting == {k \in Connections : conn[k].pc \in {"archive", "stage", "install"}}

-----------------------------------------------------------------------------
\* Servers: start.

Goto(s, label, r) == server' = [server EXCEPT ![s] = [pc |-> label, role |-> r]]

PathAt(s) == Paths[s][server[s].role]

\* Mutant of AcquireOwnership: a lock that is held is not waited for.
AcquireShared(s) ==
    /\ server[s].pc = "down"
    /\ owner' = s
    /\ Goto(s, "prepare", "consumer")
    /\ UNCHANGED <<file, slots, recent, admitted, conn, storeVars, crashes>>

\* _acquire_ownership, or SERVICE_RUNNING.
AcquireOwnership(s) ==
    /\ server[s].pc = "down"
    /\ owner = NoServer
    /\ owner' = s
    /\ Goto(s, "prepare", "consumer")
    /\ UNCHANGED <<file, slots, recent, admitted, conn, storeVars, crashes>>

\* _prepare: a socket that answers is in use; one that does not is removed.
\* (No other service of the store can replace it in between: s owns the lock.)
Prepare(s) ==
    LET f == file[PathAt(s)]
    IN  /\ server[s].pc = "prepare"
        /\ Goto(s, IF f = NoFile THEN "bind" ELSE IF f.listening THEN "join" ELSE "unlink",
                server[s].role)
        /\ UNCHANGED <<socketVars, slots, recent, admitted, conn, storeVars, crashes>>

UnlinkStale(s) ==
    /\ server[s].pc = "unlink"
    /\ file' = [file EXCEPT ![PathAt(s)] = NoFile]
    /\ Goto(s, "bind", server[s].role)
    /\ UNCHANGED <<owner, slots, recent, admitted, conn, storeVars, crashes>>

\* bind makes the socket file; a file that is there by now is an OSError.
Bind(s) ==
    /\ server[s].pc = "bind"
    /\ IF file[PathAt(s)] = NoFile
       THEN /\ file' = [file EXCEPT ![PathAt(s)] = [server |-> s, listening |-> FALSE]]
            /\ Goto(s, "listen", server[s].role)
       ELSE /\ Goto(s, "join", "operator")
            /\ UNCHANGED file
    /\ UNCHANGED <<owner, slots, recent, admitted, conn, storeVars, crashes>>

\* The second socket bound, the accept loops start.
Listen(s) ==
    /\ server[s].pc = "listen"
    /\ file' = [file EXCEPT ![PathAt(s)].listening = TRUE]
    /\ IF server[s].role = "consumer" THEN Goto(s, "prepare", "operator")
                                      ELSE Goto(s, "running", "operator")
    /\ UNCHANGED <<owner, slots, recent, admitted, conn, storeVars, crashes>>

-----------------------------------------------------------------------------
\* Servers: close, exit, crash.

\* The stream is closed without an answer: FRAME_TRUNCATED for a waiting client.
HungUp(c) ==
    IF c.outcome = "ok" THEN [Closed EXCEPT !.request = c.request, !.outcome = "ok"]
                        ELSE [Closed EXCEPT !.outcome = "error"]

\* The listeners are closed: clients in the backlog lose their connections.
CloseListeners(s) ==
    /\ file' = [p \in AllPaths |-> IF file[p].server = s THEN [file[p] EXCEPT !.listening = FALSE]
                                                         ELSE file[p]]
    /\ conn' = [k \in Connections |->
                  IF conn[k].server = s /\ conn[k].pc = "backlog" THEN HungUp(conn[k]) ELSE conn[k]]

StartClose(s) ==
    /\ server[s].pc = "running"
    /\ CloseListeners(s)
    /\ Goto(s, "join", "operator")
    /\ UNCHANGED <<owner, slots, recent, admitted, storeVars, crashes>>

\* Threads are joined for a second each: they are done, or are left behind.
\* Listeners of a start that failed are closed here as well.
Join(s) ==
    /\ server[s].pc = "join"
    /\ CloseListeners(s)
    /\ Goto(s, "sweep", "operator")
    /\ UNCHANGED <<owner, slots, recent, admitted, storeVars, crashes>>

\* The socket files that are still those of s are removed, then the lock is
\* released.
Sweep(s) ==
    /\ server[s].pc = "sweep"
    /\ file' = [p \in AllPaths |-> IF file[p].server = s THEN NoFile ELSE file[p]]
    /\ owner' = NoServer
    /\ Goto(s, "closed", "operator")
    /\ UNCHANGED <<slots, recent, admitted, conn, storeVars, crashes>>

\* What becomes committed beside a compaction is not among what it has read.
Beside == raced' = IF Compacting = {} THEN raced ELSE raced \cup (committed' \ committed)

\* The ledger is replaced by that of the staging directory, which holds what this
\* compaction keeps and what others add there, all of it archived before; a pending
\* transaction fits the new ledger no longer.
Replaced ==
    /\ committed' \in SUBSET archived
    /\ stranded' = (stuck # NoEntry)

\* The writer dies: inside a commit, or inside an install.
HalfCommitted(x) ==
    /\ stuck' \in {NoEntry, x}
    /\ committed' \in {committed, committed \cup {x}}
    /\ Beside
    /\ UNCHANGED <<stranded, archived, read, torn>>

HalfInstalled ==
    /\ \/ Replaced /\ torn' \in BOOLEAN
       \/ UNCHANGED <<committed, stranded, torn>>
    /\ UNCHANGED <<stuck, archived, read, raced>>

\* The connections of a dead process are reset, its commit or install stops half-way,
\* and its semaphore and its memory of request ids are gone.
Dies(s) ==
    /\ conn' = [k \in Connections |->
                  IF conn[k].server = s /\ conn[k].pc # "closed"
                  THEN HungUp(conn[k])
                  ELSE conn[k]]
    /\ IF writer \in HandlersOf(s)
       THEN /\ writer' = NoRequest
            /\ \/ conn[writer].pc = "commit" /\ HalfCommitted(conn[writer].request.entry)
               \/ conn[writer].pc = "install" /\ HalfInstalled
       ELSE UNCHANGED storeVars
    /\ slots' = [slots EXCEPT ![s] = MaxConnections]
    /\ recent' = [recent EXCEPT ![s] = <<>>]
    /\ admitted' = [admitted EXCEPT ![s] = <<>>]
    /\ Goto(s, "down", "consumer")

\* The process of a closed service ends, and with it the threads left behind.
Exit(s) ==
    /\ server[s].pc = "closed"
    /\ Dies(s)
    /\ UNCHANGED <<socketVars, crashes>>

\* The process dies: the kernel closes its sockets and releases its lock, and
\* the socket files stay.
Crash(s) ==
    /\ server[s].pc # "down"
    /\ crashes < MaxCrashes
    /\ crashes' = crashes + 1
    /\ Dies(s)
    /\ owner' = IF owner = s THEN NoServer ELSE owner
    /\ file' = [p \in AllPaths |-> IF file[p].server = s THEN [file[p] EXCEPT !.listening = FALSE]
                                                         ELSE file[p]]

-----------------------------------------------------------------------------
\* Clients.

\* _request: connect to a socket and send one frame.  A request may be one that
\* was sent before.
Connect(k, q, p) ==
    /\ conn[k].pc = "closed"
    /\ conn[k].outcome = "none"
    /\ file[p].listening
    /\ LET s == file[p].server
           r == CHOOSE r \in Roles : Paths[s][r] = p
       IN  conn' = [conn EXCEPT ![k] = [Closed EXCEPT !.pc = "backlog", !.server = s, !.role = r,
                                                      !.request = q]]
    /\ UNCHANGED <<socketVars, server, slots, recent, admitted, storeVars, crashes>>

\* TRANSPORT_TIMEOUT: the client gives up, the handler does not know.
ClientTimeout(k) ==
    /\ conn[k].pc # "closed"
    /\ conn[k].outcome = "none"
    /\ conn' = [conn EXCEPT ![k].outcome = "timeout"]
    /\ UNCHANGED <<socketVars, server, slots, recent, admitted, storeVars, crashes>>

-----------------------------------------------------------------------------
\* Handlers.

Step(k, label) == conn' = [conn EXCEPT ![k].pc = label]

Hangup(k) == conn' = [conn EXCEPT ![k] = HungUp(@)]

Reply(k, code) == conn' = [conn EXCEPT ![k].pc = "answer", ![k].reply = code]

\* _accept_loop: a connection without a free slot is closed unanswered.
Accept(k) ==
    LET s == conn[k].server
    IN  /\ conn[k].pc = "backlog"
        /\ server[s].pc = "running"
        /\ IF slots[s] > 0
           THEN slots' = [slots EXCEPT ![s] = @ - 1] /\ Step(k, "receive")
           ELSE Hangup(k) /\ UNCHANGED slots
        /\ UNCHANGED <<socketVars, server, recent, admitted, storeVars, crashes>>

Told(k) == IF conn[k].outcome = "none" THEN conn[k].reply ELSE conn[k].outcome

Release(k) == slots' = [slots EXCEPT ![conn[k].server] = @ + 1]

\* Mutant of Drop: the early return keeps the slot.
DropKeepsSlot(k) ==
    /\ conn[k].pc = "receive"
    /\ Hangup(k)
    /\ UNCHANGED <<socketVars, server, slots, recent, admitted, storeVars, crashes>>

\* A peer of another user, a frame that is malformed or late: no answer.
Drop(k) ==
    /\ conn[k].pc = "receive"
    /\ Hangup(k)
    /\ Release(k)
    /\ UNCHANGED <<socketVars, server, recent, admitted, storeVars, crashes>>

\* _validate_request fails, or the deadline of the request has passed.
Reject(k) ==
    /\ conn[k].pc = "receive"
    /\ Reply(k, "error")
    /\ UNCHANGED <<socketVars, server, slots, recent, admitted, storeVars, crashes>>

\* Mutant of Remember: the memory is cut one id too early.
RememberLess(s, id) ==
    LET all == Append(recent[s], id)
    IN  IF Len(all) >= MaxRecent THEN Tail(all) ELSE all

\* deque(maxlen = MaxRecent).append.
Remember(s, id) ==
    LET all == Append(recent[s], id)
    IN  IF Len(all) > MaxRecent THEN Tail(all) ELSE all

Remembered(s, id) == \E i \in 1..Len(recent[s]) : recent[s][i] = id

\* A frame is received; handle: REQUEST_REPLAYED, or the id is remembered, under one lock; then
\* AUTHORITY_DENIED on the wrong socket.
Admit(k) ==
    LET s == conn[k].server
        q == conn[k].request
    IN  /\ conn[k].pc = "receive"
        /\ IF Remembered(s, q.id)
           THEN Reply(k, "error") /\ UNCHANGED <<recent, admitted>>
           ELSE /\ recent' = [recent EXCEPT ![s] = Remember(s, q.id)]
                /\ admitted' = [admitted EXCEPT ![s] = Append(@, q.id)]
                /\ IF q.op \in OperatorOperations /\ conn[k].role # "operator"
                   THEN Reply(k, "error")
                   ELSE Step(k, "dispatch")
        /\ UNCHANGED <<socketVars, server, slots, storeVars, crashes>>

\* What the unlocked verify behind _require_healthy may report: a commit or an install
\* under way can look like a store that needs recovery.
Verdicts ==
    IF stuck # NoEntry \/ torn THEN {FALSE} ELSE IF writer # NoRequest THEN BOOLEAN ELSE {TRUE}

\* _dispatch of an operation that reads or reports, or arguments it refuses.  (pin and
\* unpin write the file of pins, which only a compaction looks at: see Compaction.)
DispatchRead(k) ==
    LET op == conn[k].request.op
    IN  /\ conn[k].pc = "dispatch"
        /\ op \notin WriteOperations \cup {"store.recover", "store.compact"}
        /\ \/ Reply(k, "error")
           \/ op \in UngatedOperations /\ Reply(k, "ok")
           \/ \E healthy \in Verdicts :
                op \in RecordReads \cup WorkReads /\ Reply(k, IF healthy THEN "ok" ELSE "error")
        /\ UNCHANGED <<socketVars, server, slots, recent, admitted, storeVars, crashes>>

\* store.recover takes the writer lock and commits what it finds, unless that fits
\* the ledger no longer; either way it reports what it did.
DispatchRecover(k) ==
    /\ conn[k].pc = "dispatch"
    /\ conn[k].request.op = "store.recover"
    /\ writer = NoRequest
    /\ IF stranded THEN UNCHANGED <<committed, stuck>>
       ELSE committed' = committed \cup ({stuck} \ {NoEntry}) /\ stuck' = NoEntry
    /\ Beside
    /\ Reply(k, "ok")
    /\ UNCHANGED <<socketVars, server, slots, recent, admitted, writer, stranded, archived, read,
                   torn, crashes>>

DispatchWrite(k) ==
    /\ conn[k].pc = "dispatch"
    /\ conn[k].request.op \in WriteOperations
    /\ \/ Reply(k, "error")
       \/ \E healthy \in Verdicts :
             IF healthy THEN Step(k, "write") ELSE Reply(k, "error")
    /\ UNCHANGED <<socketVars, server, slots, recent, admitted, storeVars, crashes>>

\* The add of the store: PENDING_TRANSACTION, a duplicate, or a commit.
BeginWrite(k) ==
    LET x == conn[k].request.entry
    IN  /\ conn[k].pc = "write"
        /\ writer = NoRequest
        /\ \/ stuck # NoEntry /\ Reply(k, "error") /\ UNCHANGED writer
           \/ stuck = NoEntry /\ x \in committed /\ Reply(k, "ok") /\ UNCHANGED writer
           \/ stuck = NoEntry /\ x \notin committed /\ writer' = k /\ Step(k, "commit")
        /\ UNCHANGED <<socketVars, server, slots, recent, admitted, committed, stuck, stranded,
                       archived, read, torn, raced, crashes>>

\* Mutant of EndWrite: the writer lock is kept when the client has gone.
EndWriteKeepsLock(k) ==
    /\ conn[k].pc = "commit"
    /\ committed' = committed \cup {conn[k].request.entry}
    /\ writer' = IF conn[k].outcome = "none" THEN NoRequest ELSE writer
    /\ Beside
    /\ Reply(k, "ok")
    /\ UNCHANGED <<socketVars, server, slots, recent, admitted, stuck, stranded, archived, read,
                   torn, crashes>>

EndWrite(k) ==
    /\ conn[k].pc = "commit"
    /\ committed' = committed \cup {conn[k].request.entry}
    /\ writer' = NoRequest
    /\ Beside
    /\ Reply(k, "ok")
    /\ UNCHANGED <<socketVars, server, slots, recent, admitted, stuck, stranded, archived, read,
                   torn, crashes>>

\* store.compact, without a lock: a dry run, arguments that are refused or nothing that
\* has expired, or the entries to compact are read.
CompactRead(k) ==
    /\ conn[k].pc = "dispatch"
    /\ conn[k].request.op = "store.compact"
    /\ \/ \E code \in {"ok", "error"} : Reply(k, code) /\ UNCHANGED read
       \/ /\ committed # {}
          /\ read' = [read EXCEPT ![k] = committed]
          /\ Step(k, "archive")
    /\ UNCHANGED <<socketVars, server, slots, recent, admitted, committed, writer, stuck, stranded,
                   archived, torn, raced, crashes>>

\* Mutant of CompactArchive: the archive is of what the compaction keeps.
CompactArchiveKept(k) ==
    /\ conn[k].pc = "archive"
    /\ \E kept \in SUBSET read[k] : archived' = archived \cup kept
    /\ Step(k, "stage")
    /\ UNCHANGED <<socketVars, server, slots, recent, admitted, committed, writer, stuck, stranded,
                   read, torn, raced, crashes>>

\* create_archive of all that was read, and verify_archive.
CompactArchive(k) ==
    /\ conn[k].pc = "archive"
    /\ archived' = archived \cup read[k]
    /\ Step(k, "stage")
    /\ UNCHANGED <<socketVars, server, slots, recent, admitted, committed, writer, stuck, stranded,
                   read, torn, raced, crashes>>

\* The staging store is filled and verified, or is refused; then the writer lock.
InstallStart(k) ==
    /\ conn[k].pc = "stage"
    /\ \/ Reply(k, "error") /\ UNCHANGED writer
       \/ writer = NoRequest /\ writer' = k /\ Step(k, "install")
    /\ UNCHANGED <<socketVars, server, slots, recent, admitted, committed, stuck, stranded, archived,
                   read, torn, raced, crashes>>

\* install_generation: the staging store is refused, or is the store from now on.
InstallEnd(k) ==
    /\ conn[k].pc = "install"
    /\ \/ Reply(k, "error") /\ UNCHANGED <<committed, stranded, torn>>
       \/ Reply(k, "ok") /\ Replaced /\ torn' = FALSE
    /\ writer' = NoRequest
    /\ UNCHANGED <<socketVars, server, slots, recent, admitted, stuck, archived, read, raced, crashes>>

\* _send_frame, to a client that may have gone; the stream is closed and the
\* slot released in any case.
Answer(k) ==
    /\ conn[k].pc = "answer"
    /\ conn' = [conn EXCEPT ![k] = HungUp([@ EXCEPT !.outcome = Told(k)])]
    /\ Release(k)
    /\ UNCHANGED <<socketVars, server, recent, admitted, storeVars, crashes>>

-----------------------------------------------------------------------------
Handle(k) ==
    \/ Accept(k) \/ Drop(k) \/ Reject(k) \/ Admit(k)
    \/ DispatchRead(k) \/ DispatchRecover(k) \/ DispatchWrite(k)
    \/ BeginWrite(k) \/ EndWrite(k)
    \/ CompactRead(k) \/ CompactArchive(k) \/ InstallStart(k) \/ InstallEnd(k) \/ Answer(k)

\* start and close go on once they have begun.
Progress(s) ==
    Prepare(s) \/ UnlinkStale(s) \/ Bind(s) \/ Listen(s) \/ Join(s) \/ Sweep(s)

Next ==
    \/ \E s \in Servers : AcquireOwnership(s) \/ Progress(s) \/ StartClose(s) \/ Exit(s) \/ Crash(s)
    \/ \E k \in Connections :
          Handle(k) \/ ClientTimeout(k) \/ \E q \in Requests, p \in AllPaths : Connect(k, q, p)

Init ==
    /\ owner = NoServer
    /\ file = [p \in AllPaths |-> NoFile]
    /\ server = [s \in Servers |-> [pc |-> "down", role |-> "consumer"]]
    /\ slots = [s \in Servers |-> MaxConnections]
    /\ recent = [s \in Servers |-> <<>>]
    /\ admitted = [s \in Servers |-> <<>>]
    /\ conn = [k \in Connections |-> Closed]
    /\ committed = Stored
    /\ writer = NoRequest
    /\ stuck = NoEntry /\ stranded = FALSE
    /\ archived = {} /\ raced = {} /\ torn = FALSE
    /\ read = [k \in Connections |-> {}]
    /\ crashes = 0

Spec == Init /\ [][Next]_vars

\* The threads of a server run.
Fairness ==
    /\ \A s \in Servers : WF_vars(Progress(s))
    /\ \A k \in Connections : WF_vars(Handle(k))

FairSpec == Spec /\ Fairness

-----------------------------------------------------------------------------
\* Properties.

\* The type of the lock, the sockets, the servers, the connections and the store.
TypeOK ==
    /\ owner \in Servers \cup {NoServer}
    /\ file \in [AllPaths -> [server : Servers \cup {NoServer}, listening : BOOLEAN]]
    /\ server \in [Servers -> [pc : {"down", "prepare", "unlink", "bind", "listen", "running",
                                     "join", "sweep", "closed"}, role : Roles]]
    /\ slots \in [Servers -> 0..MaxConnections]
    /\ \A s \in Servers : Len(recent[s]) <= MaxRecent
    /\ conn \in [Connections ->
                  [pc : Handling \cup {"closed", "backlog"}, server : Servers \cup {NoServer},
                   role : Roles, request : Requests \cup {NoRequest},
                   reply : {"none", "ok", "error"},
                   outcome : {"none", "ok", "error", "timeout"}]]
    /\ writer \in Connections \cup {NoRequest}
    /\ crashes \in 0..MaxCrashes

\* "An advisory process-lifetime lock prevents a second service, even on
\* alternate sockets, from claiming the same store" (docs/LOCAL_AGENT_NODE.md):
\* only the owner listens, and a running service can be reached on both of its
\* paths, whatever sockets crashed services left there and other starts removed.
OwnerListens ==
    /\ \A p \in AllPaths : file[p].listening => file[p].server = owner
    /\ \A s \in Servers : server[s].pc = "running" =>
          \A r \in Roles : file[Paths[s][r]] = [server |-> s, listening |-> TRUE]

\* Every slot that a connection took is given back, on every way out of a
\* handler: the free slots and the running handlers are max_connections.
SlotsConserved ==
    \A s \in Servers : server[s].pc # "down" =>
        slots[s] + Cardinality(HandlersOf(s)) = MaxConnections

\* "nonce replay rejection" (docs/LOCAL_AGENT_NODE.md): one service instance
\* serves a request id a second time only after as many other requests as it
\* remembers.
ReplaysRefused ==
    \A s \in Servers : \A i, j \in 1..Len(admitted[s]) :
        i < j /\ admitted[s][i] = admitted[s][j] => j - i > MaxRecent

Kept == committed \cup archived

\* What a client was told is stored is in the ledger or in an archive, though servers
\* die inside commits and others recover them, and though compactions replace the
\* ledger beside the handlers that write: unless it was committed after a compaction
\* had read the store and before that compaction installed what it kept.
OkMeansCommitted ==
    \A k \in Connections :
        conn[k].outcome = "ok" /\ conn[k].request.op \in WriteOperations =>
            conn[k].request.entry \in Kept \cup raced

\* Every connection comes to an end, with or without an answer: no handler waits
\* for good for a slot, for the writer lock or for its client.
ConnectionsEnd == \A k \in Connections : conn[k].pc # "closed" ~> conn[k].pc = "closed"
=============================================================================
