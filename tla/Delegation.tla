----------------------------- MODULE Delegation -----------------------------
(***************************************************************************)
(* The runner (agent/runner.ts, agent/delegate.ts): a run pins the stores   *)
(* of its workspace when it starts, and delegates batches of tasks to child *)
(* loops that share its stores and its signal.  A pool of lanes works a     *)
(* batch off; a child that fails becomes an entry, never an exception.      *)
(***************************************************************************)
EXTENDS Naturals, FiniteSets

CONSTANTS
    Parents,     \* runs that delegate
    Folders,     \* folders the stores can be bound to
    MaxTasks,    \* bound: tasks of a batch
    Pool,        \* DELEGATE_MAX_CONCURRENT
    MaxBatches,  \* bound: batches of a run
    MaxRebinds   \* bound: profile or workspace switches

VARIABLES
    folder,   \* what the live stores are bound to
    parent,   \* the runs
    batch,    \* the batch of each run: the state of its tasks
    rebinds

delegVars == <<folder, parent, batch, rebinds>>

\* home is ghost: the folder the run started in.  next is the counter the lanes
\* share, done what onProgress reports.
Parent == [stage : {"idle", "running", "joining"}, home : Folders, memory : Folders,
           engine : Folders, aborted : BOOLEAN, next : Nat, done : Nat, batches : Nat]

TaskState == {"queued", "running", "completed", "error"}

DelegInit ==
    /\ folder \in Folders
    /\ parent = [p \in Parents |->
         [stage |-> "idle", home |-> folder, memory |-> folder, engine |-> folder,
          aborted |-> FALSE, next |-> 1, done |-> 0, batches |-> 0]]
    /\ batch = [p \in Parents |-> <<>>]
    /\ rebinds = 0

Running(p) == {i \in DOMAIN batch[p] : batch[p][i] = "running"}
Lanes(n)   == IF n < Pool THEN n ELSE Pool

\* snapshotWorkspacePolicy: the stores of the run are new ones on the folders
\* of now.
StartRun(p) ==
    /\ parent[p].stage = "idle" /\ parent[p].batches = 0
    /\ parent' = [parent EXCEPT ![p] = [@ EXCEPT !.stage = "running", !.home = folder,
                                                 !.memory = folder, !.engine = folder]]
    /\ UNCHANGED <<folder, batch, rebinds>>

\* storesFor of a pinned policy, called for every context and prompt: it moves
\* the engine store to the live folder and keeps the others.
StoresFor(q) == [q EXCEPT !.engine = folder]

\* runBatch: the lanes take the first tasks at once; every child has a context.
Delegate(p, n) ==
    /\ parent[p].stage = "running" /\ ~parent[p].aborted /\ parent[p].batches < MaxBatches
    /\ batch' = [batch EXCEPT ![p] = [i \in 1 .. n |-> IF i <= Lanes(n) THEN "running" ELSE "queued"]]
    /\ parent' = [parent EXCEPT ![p] =
         [StoresFor(parent[p]) EXCEPT !.stage = "joining", !.next = Lanes(n) + 1, !.done = 0,
                                      !.batches = parent[p].batches + 1]]
    /\ UNCHANGED <<folder, rebinds>>

\* A child ends with a summary or an error; its lane takes the next task, also
\* after an abort: that child stops at its first check of the signal.
ChildEnds(p, i, status) ==
    LET m == parent[p].next IN
    /\ parent[p].stage = "joining" /\ batch[p][i] = "running"
    /\ IF m \in DOMAIN batch[p]
       THEN /\ batch' = [batch EXCEPT ![p][i] = status, ![p][m] = "running"]
            /\ parent' = [parent EXCEPT ![p] = [StoresFor(parent[p]) EXCEPT !.next = m + 1,
                                                                            !.done = parent[p].done + 1]]
       ELSE /\ batch' = [batch EXCEPT ![p][i] = status]
            /\ parent' = [parent EXCEPT ![p].done = @ + 1]
    /\ UNCHANGED <<folder, rebinds>>

\* All lanes have returned: one entry per task, in the order of the tasks.
Joined(p) ==
    /\ parent[p].stage = "joining" /\ Running(p) = {}
    /\ parent' = [parent EXCEPT ![p].stage = "running"]
    /\ UNCHANGED <<folder, batch, rebinds>>

Abort(p) ==
    /\ parent[p].stage # "idle" /\ ~parent[p].aborted
    /\ parent' = [parent EXCEPT ![p].aborted = TRUE]
    /\ UNCHANGED <<folder, batch, rebinds>>

\* Settings or the active profile move the live stores.
Rebind(f) ==
    /\ f # folder /\ rebinds < MaxRebinds
    /\ folder' = f /\ rebinds' = rebinds + 1
    /\ UNCHANGED <<parent, batch>>

ParentEnds(p) ==
    /\ parent[p].stage = "running"
    /\ parent' = [parent EXCEPT ![p].stage = "idle"]
    /\ UNCHANGED <<folder, batch, rebinds>>

Children(p) ==
    \/ \E i \in DOMAIN batch[p], status \in {"completed", "error"} : ChildEnds(p, i, status)
    \/ Joined(p)

DelegNext ==
    \/ \E p \in Parents : \/ StartRun(p) \/ Children(p) \/ Abort(p) \/ ParentEnds(p)
                          \/ \E n \in 1 .. MaxTasks : Delegate(p, n)
    \/ \E f \in Folders : Rebind(f)

\* Every child loop terminates: its requests time out and its turns are bounded.
DelegSpec == DelegInit /\ [][DelegNext]_delegVars /\ \A p \in Parents : WF_delegVars(Children(p))

-----------------------------------------------------------------------------
DelegTypeOK ==
    /\ folder \in Folders /\ rebinds \in 0 .. MaxRebinds
    /\ parent \in [Parents -> Parent]
    /\ \A p \in Parents : \E n \in 0 .. MaxTasks : batch[p] \in [1 .. n -> TaskState]

\* The lanes never run more children than the pool allows, they take every task
\* once and in order, and when the batch is joined each task has one entry and
\* progress has counted each entry.
PoolKept ==
    \A p \in Parents :
        LET n == Cardinality(DOMAIN batch[p]) IN
        /\ Cardinality(Running(p)) <= Pool
        /\ \A i \in DOMAIN batch[p] : batch[p][i] = "queued" <=> i >= parent[p].next
        /\ parent[p].stage = "joining" =>
             parent[p].done = Cardinality({i \in DOMAIN batch[p] : batch[p][i] \in {"completed", "error"}})
        /\ parent[p].stage = "joining" /\ Running(p) = {} => parent[p].done = n

\* A settings or profile switch cannot move a run into the memory or skills
\* folder of another workspace, however many contexts the run builds after it.
StoresPinned == \A p \in Parents : parent[p].stage # "idle" => parent[p].memory = parent[p].home

\* Every batch is joined, also after an abort and with failing children.
\* Checked as: Waits leads to ~Waits.
Waits(p) == parent[p].stage = "joining"

=============================================================================
