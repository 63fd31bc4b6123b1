------------------------------- MODULE Cluster -------------------------------
(***************************************************************************)
(* express({ cluster }): the primary that forks the workers and keeps them *)
(* alive (forkWorkers, src/cluster.js), and what listen() and close() of a *)
(* clustered application do in it (src/application.js). Two applications   *)
(* of one process fork twice.                                              *)
(*                                                                         *)
(* Processes, signals and the 'exit' events are node's and the system's.   *)
(* stopping and the exit listener change together: `calls` holds both.     *)
(***************************************************************************)
EXTENDS Integers, FiniteSets, Functions

CONSTANTS
    NApps,          \* clustered applications in the entry
    Count,          \* workers each of them asks for
    MaxForks,       \* bound: workers forked in the life of the primary
    Total,          \* what app.cluster.share() splits
    None

\* What the constants must be.
ASSUME ClusterAssumption ==
    /\ NApps \in Nat \ {0} /\ Count \in Nat \ {0} /\ Total \in Nat
    /\ MaxForks \in Nat /\ None \notin Nat

VARIABLES
    supervising,    \* the process forks and serves nothing itself
    calls,          \* forkWorkers of each application: its listener and signals
    handle,         \* _clusterHandle
    index,          \* indexes of each call: the place of a worker, or none
    worker, place,  \* each worker's process, and its FULMINE_CLUSTER
    killed,         \* SIGTERM was sent to it
    busy, cut,      \* it has a request in flight; one was cut by the SIGTERM
    bound,          \* the primary took the port itself
    polling, exited \* after a signal: the interval, and process.exit

callVars == <<supervising, calls, handle, index>>
workerVars == <<worker, place, killed, busy, cut>>
primaryVars == <<bound, polling, exited>>
vars == <<callVars, workerVars, primaryVars>>

Apps == 1 .. NApps
Ids == 1 .. MaxForks
Places == 0 .. Count - 1

In(state) == {w \in Ids : worker[w] = state}
Unborn == In("unborn")
ClusterWorkers == In("up") \cup In("ended")     \* cluster.workers
Running == {a \in Apps : calls[a] = "running"}

\* The applications are constructed, and have said the process is a primary.
Init ==
    /\ supervising = TRUE
    /\ calls = [a \in Apps |-> "none"]
    /\ handle = [a \in Apps |-> FALSE]
    /\ index = [a \in Apps |-> [w \in Ids |-> None]]
    /\ worker = [w \in Ids |-> "unborn"]
    /\ place = [w \in Ids |-> None]
    /\ killed = [w \in Ids |-> FALSE]
    /\ busy = [w \in Ids |-> FALSE] /\ cut = FALSE
    /\ bound = FALSE /\ polling = FALSE /\ exited = FALSE

-----------------------------------------------------------------------------
\* The i-th worker forked in this step.
New(i) == MaxForks - Cardinality(Unborn) + i

\* listen() where the process supervises: the workers, each at its place.
ForkAll(a) ==
    /\ Cardinality(Unborn) >= Count
    /\ LET new == New(1) .. New(Count) IN
       /\ worker' = [w \in Ids |-> IF w \in new THEN "up" ELSE worker[w]]
       /\ place' = [w \in Ids |-> IF w \in new THEN w - New(1) ELSE place[w]]
       /\ index' = [index EXCEPT ![a] =
                       [w \in Ids |-> IF w \in new THEN w - New(1) ELSE None]]
    /\ calls' = [calls EXCEPT ![a] = "running"]
    /\ handle' = [handle EXCEPT ![a] = TRUE]

Listen(a) ==
    /\ ~exited
    /\ \/ /\ supervising /\ ~handle[a]
          /\ ForkAll(a)
          /\ UNCHANGED bound
       \/ /\ ~supervising                       \* the rest of listen(): it binds
          /\ bound' = TRUE
          /\ UNCHANGED <<calls, handle, index, worker, place>>
    /\ UNCHANGED <<supervising, killed, busy, cut, polling, exited>>

\* stop() of some calls: no more forks, and SIGTERM to every worker there is.
KillAll(as) == ClusterWorkers
Stop(as) ==
    /\ calls' = [a \in Apps |-> IF a \in as THEN "stopped" ELSE calls[a]]
    /\ supervising' = FALSE
    /\ killed' = [w \in Ids |-> killed[w] \/ w \in KillAll(as)]
    /\ UNCHANGED <<index, worker, place, busy, cut>>

\* close() of an application that forked.
Close(a) ==
    /\ ~exited /\ handle[a]
    /\ Stop({a})
    /\ handle' = [handle EXCEPT ![a] = FALSE]
    /\ UNCHANGED primaryVars

\* SIGTERM or SIGINT at the primary: the handler of every call, and a timer.
Signal ==
    /\ ~exited
    /\ \E a \in Apps : calls[a] # "none"
    /\ Stop({a \in Apps : calls[a] # "none"})
    /\ polling' = TRUE
    /\ UNCHANGED <<handle, bound, exited>>

\* The timer's turn once cluster.workers is empty.
PollsEmpty == ClusterWorkers = {}
Poll ==
    /\ polling /\ ~exited
    /\ PollsEmpty
    /\ exited' = TRUE
    /\ UNCHANGED <<callVars, workerVars, bound, polling>>

-----------------------------------------------------------------------------
\* The 'exit' listeners that fork a replacement, in the order they were added.
EveryListener == {a \in Apps : calls[a] # "none"}  \* a bug
PlaceOf(a, w) == index[a][w]
Listeners == Running
RankIn(a) == Cardinality({b \in Listeners : b <= a})

\* A worker's end reaches the primary.
Exit(w) ==
    /\ ~exited /\ worker[w] = "ended"
    /\ Cardinality(Unborn) >= Cardinality(Listeners)
    /\ LET born(v) == {a \in Listeners : v = New(RankIn(a))} IN
       /\ worker' = [v \in Ids |-> IF v = w THEN "gone"
                                    ELSE IF born(v) # {} THEN "up" ELSE worker[v]]
       /\ place' = [v \in Ids |-> IF born(v) = {} THEN place[v]
                                    ELSE PlaceOf(CHOOSE a \in born(v) : TRUE, w)]
       /\ index' = [a \in Apps |-> [v \in Ids |->
                       IF a \notin Listeners THEN index[a][v]
                       ELSE IF v = New(RankIn(a)) THEN PlaceOf(a, w)
                       ELSE IF v = w THEN None ELSE index[a][v]]]
    /\ UNCHANGED <<supervising, calls, handle, killed, busy, cut, primaryVars>>

-----------------------------------------------------------------------------
\* A worker serves.
Arrive(w) ==
    /\ worker[w] = "up" /\ ~busy[w]
    /\ busy' = [busy EXCEPT ![w] = TRUE]
    /\ UNCHANGED <<callVars, worker, place, killed, cut, primaryVars>>

Answer(w) ==
    /\ worker[w] = "up" /\ busy[w]
    /\ busy' = [busy EXCEPT ![w] = FALSE]
    /\ UNCHANGED <<callVars, worker, place, killed, cut, primaryVars>>

\* A worker's process ends: nothing in src/ listens for SIGTERM in a worker.
Ends(w) ==
    /\ worker' = [worker EXCEPT ![w] = "ended"]
    /\ busy' = [busy EXCEPT ![w] = FALSE]
    /\ UNCHANGED <<callVars, place, killed, primaryVars>>

Terminated(w) ==
    /\ worker[w] = "up" /\ killed[w]
    /\ Ends(w)
    /\ cut' = (cut \/ busy[w])

\* A crash, or a signal of its own; bounded by the workers left to fork.
Crash(w) ==
    /\ worker[w] = "up" /\ ~killed[w] /\ ~exited
    /\ Cardinality(Unborn) >= NApps * (Cardinality(In("ended")) + 1)
    /\ Ends(w)
    /\ UNCHANGED cut

Next ==
    \/ \E a \in Apps : Listen(a) \/ Close(a)
    \/ Signal \/ Poll
    \/ \E w \in Ids : \/ Exit(w) \/ Arrive(w) \/ Answer(w)
                      \/ Terminated(w) \/ Crash(w)

Spec == Init /\ [][Next]_vars

\* SIGTERM ends a process, its end is reported, and the interval ticks.
Fairness ==
    /\ \A w \in Ids : WF_vars(Terminated(w)) /\ WF_vars(Exit(w))
    /\ WF_vars(Poll)

FairSpec == Spec /\ Fairness

-----------------------------------------------------------------------------
\* shareOf, in a worker.
ShareOf(p) ==
    Total \div Count + IF p \in Places /\ p < Total % Count THEN 1 ELSE 0

\* Every variable has its type, workers are forked in the order of their ids.
TypeOK ==
    /\ supervising \in BOOLEAN
    /\ calls \in [Apps -> {"none", "running", "stopped"}]
    /\ handle \in [Apps -> BOOLEAN]
    /\ index \in [Apps -> [Ids -> Places \cup {None}]]
    /\ worker \in [Ids -> {"unborn", "up", "ended", "gone"}]
    /\ place \in [Ids -> Places \cup {None}]
    /\ killed \in [Ids -> BOOLEAN] /\ busy \in [Ids -> BOOLEAN]
    /\ cut \in BOOLEAN /\ bound \in BOOLEAN
    /\ polling \in BOOLEAN /\ exited \in BOOLEAN
    /\ Unborn = New(1) .. MaxForks

\* While it supervises, each place is held by exactly one worker, and the
\* worker knows it: a replacement takes the place of the one that died.
PlacesHeld ==
    \A a \in Running, p \in Places :
        LET holders == {w \in Ids : index[a][w] = p} IN
        /\ Cardinality(holders) = 1
        /\ \A w \in holders : w \in ClusterWorkers /\ place[w] = p

\* docs/examples/cluster-pool.md:7: all the workers together never open more
\* than the total, replacements and the ones they replace included.
PoolWithin ==
    SumFunctionOnSet([w \in Ids |-> ShareOf(place[w])], In("up")) <= Total

\* Nobody outlives the stop: once an application stopped and none keeps workers,
\* every worker still up was sent the signal, and no exit that comes after it, nor
\* any listen(), forks another.
NoneOutlivesStop ==
    Running = {} /\ (\E a \in Apps : calls[a] = "stopped") => \A w \in In("up") : killed[w]

\* The workers of a clustered application (cluster.js): each place is held by one
\* of them, and known to it, over crashes and replacements, and none outlives the
\* stop.
PoolHeld == TypeOK /\ PlacesHeld /\ PoolWithin /\ NoneOutlivesStop

\* After a signal the primary exits, and with it the last worker.
SignalEnds == polling ~> exited

-----------------------------------------------------------------------------
\* src/cluster.js:178: "keeps that many of them alive".
WorkersBounded == Cardinality(In("up")) <= NApps * Count

\* src/application.js:616: "With { cluster } the primary only forks".
PrimaryForksOnly == ~bound

\* src/application.js:932: "it stops the workers, each of which drains itself".
WorkersDrain == ~cut
=============================================================================
