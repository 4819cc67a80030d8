----------------------------- MODULE MCPressure -----------------------------
(***************************************************************************)
(* Instances of Pressure for TLC.  "slow" has been brought to verifying,   *)
(* "crash" has been declared, and the legacy entry "P-1" was imported in   *)
(* other words; "leak" is the entry "P-2".  The kernel that the calls ask  *)
(* shares no state with the registry: the run explores its sessions and    *)
(* its cache beside the registry of the start, and the registry beside an  *)
(* unused kernel.                                                          *)
(***************************************************************************)
EXTENDS Pressure, PressureKernel, TLC

CONSTANTS a1, a2

Ours == ("slow"  :> [affected |-> {"core", "ravel"}, legacy |-> NoLegacy])
     @@ ("crash" :> [affected |-> {"core"}, legacy |-> NoLegacy])
     @@ ("leak"  :> [affected |-> {"core"}, legacy |-> "P-2"])
     @@ ("old"   :> [affected |-> {"core"}, legacy |-> "P-1"])
     @@ ("older" :> [affected |-> {"core"}, legacy |-> "P-1"])

Report(p, kind, repository, status) ==
    [pressure |-> p, kind |-> kind, repository |-> repository, status |-> status,
     removed |-> TRUE, at |-> NoInstant]

Found  == [Report("slow", "observation", "core", "PASS") EXCEPT !.at = 0]
Passed == {[Report("slow", "verification", r, "PASS") EXCEPT !.at = 0] : r \in {"core", "ravel"}}

Event(id, from, to) ==
    [id |-> id, pressure |-> "slow", prev |-> id - 1, from |-> from, to |-> to, at |-> 0,
     refs |-> {Found}]

Verifying ==
    [records      |-> {"slow", "crash", "old"},
     observations |-> {Found} \cup Passed,
     transitions  |-> {Event(1, "discovered", "confirmed"), Event(2, "confirmed", "accepted"),
                       Event(3, "accepted", "implementing"), Event(4, "implementing", "available"),
                       Event(5, "available", "verifying")},
     relations    |-> {}]

\* A repository retracts its verification; another one turns out to be affected.
News ==
    {Report("slow", "verification", "core", "FAIL"), Report("slow", "observation", "forge", "PASS")}

Duplicates ==
    {[source |-> s, relation |-> "duplicate_of", target |-> t] : s, t \in {"slow", "crash"}}
Relating == {r \in Duplicates : r.source # r.target}

Rewordings == {<<"older", "leak">>}

\* Each agent has its own checkout, named after it.
Apart == [a \in Agents |-> a]
Symmetry == Permutations(Agents)

\* Two threads of one process, or two processes.
OneProcess   == ("t1" :> "p1") @@ ("t2" :> "p1")
TwoProcesses == ("t1" :> "p1") @@ ("t2" :> "p2")
OneOrTwo     == {OneProcess, TwoProcesses}

\* Calls in different checkouts share no documents: they are made one after the
\* other.  After the last merge only the checkout that was merged into goes on: the
\* other one goes on as if there had been no merge.
OneAtATime == \A a, b \in Agents : a # b => "idle" \in {call'[a].pc, call'[b].pc}
Behind(c)  == \E e \in Checkouts : \E f \in DOMAIN Prior : ~(docs[e][f] \subseteq docs[c][f])
Moves(a)   == call'[a] # call[a] \/ docs'[CheckoutOf[a]] # docs[CheckoutOf[a]]
Merged     == merges = MaxMerges => \A a \in Agents : Moves(a) => ~Behind(CheckoutOf[a])

RegistryStep ==
    /\ KernelInit /\ placement = OneProcess /\ UNCHANGED kernelVars
    /\ Next /\ OneAtATime /\ Merged

KernelStep == Init /\ KernelNext /\ UNCHANGED vars

BothInit == Init /\ KernelInit

BothSpec == BothInit /\ [][RegistryStep \/ KernelStep]_<<vars, kernelVars>>
=============================================================================
