---------------------------- MODULE SessionFiles ----------------------------
(***************************************************************************)
(* The session store and the view over it: one file per conversation in    *)
(* the partition of the profile or workspace, saved whole, pruned to the   *)
(* newest Limit, renamed in place, listed and opened; and the view that    *)
(* shows one of them while runs, titles, loads, branches and renames are   *)
(* under way.                                                              *)
(*                                                                         *)
(* A file keeps the partition its text was written for (home), how many    *)
(* turns it holds, its title, when it was updated and its parent.  An      *)
(* operation works on the partition it began with.  MaxOps bounds the      *)
(* user's gestures.                                                        *)
(***************************************************************************)
EXTENDS Integers, FiniteSets

CONSTANTS Partitions, Ids, Titles, Limit, MaxOps, None

VARIABLES dir,        \* the partition the live store is bound to
          files,      \* what is on disk, by partition and id
          shown,      \* the conversation in the view
          title,      \* its title, None until it has one
          running,    \* a run in the view, with the store it began with
          jobs,       \* saves, renames, loads and branches under way
          moved,      \* the store moved and the view has not followed yet
          request,    \* the number of the last load asked for
          clock,
          ops

filesVars == <<dir, files, shown, title, running, jobs, moved, request, clock, ops>>

File(home, turns, name, at, parent) ==
    [home |-> home, turns |-> turns, title |-> name, at |-> at, parent |-> parent]

FilesInit ==
    /\ dir \in Partitions
    /\ files = [p \in Partitions |-> [i \in Ids |-> None]]
    /\ \E i \in Ids : shown = [id |-> i, home |-> dir, turns |-> 0, parent |-> None]
    /\ title = None /\ running = None /\ jobs = {} /\ moved = FALSE
    /\ request = 0 /\ clock = 0 /\ ops = 0

Gesture == ops < MaxOps /\ ops' = ops + 1

\* An id nobody has used in any partition.
Unused(i) ==
    /\ shown.id # i
    /\ \A p \in Partitions : files[p][i] = None
    /\ \A j \in jobs : j.id # i

Present(p) == {i \in Ids : files[p][i] # None}

-----------------------------------------------------------------------------
(* The store. *)

\* A save on its way: the whole file, for the partition it was begun in.
Save(p, id, rec) == [kind |-> "save", part |-> p, id |-> id, rec |-> rec, of |-> None, req |-> 0]

\* The file a job read or was made with, saved under a name.
SavedAs(j, name) == [j EXCEPT !.kind = "save", !.rec.title = name, !.of = None]

Pruning(j, doomed) == [j EXCEPT !.kind = "prune", !.of = doomed]

\* Those beyond the newest Limit of a listing.
Overflow(fs) ==
    {i \in Ids : /\ fs[i] # None
                 /\ Cardinality({k \in Ids : fs[k] # None /\ fs[k].at > fs[i].at}) >= Limit}

\* The file is written, then the partition is listed for the files to drop.
Write(j) ==
    /\ j.kind = "save"
    /\ files' = [files EXCEPT ![j.part][j.id] = j.rec]
    /\ jobs' = (jobs \ {j}) \cup {Pruning(j, None)}
    /\ UNCHANGED <<dir, shown, title, running, moved, request, clock, ops>>

List(j) ==
    /\ j.kind = "prune" /\ j.of = None
    /\ jobs' = (jobs \ {j}) \cup {Pruning(j, Overflow(files[j.part]))}
    /\ UNCHANGED <<dir, files, shown, title, running, moved, request, clock, ops>>

Prune(j) ==
    /\ j.kind = "prune" /\ j.of # None
    /\ files' = [files EXCEPT ![j.part] = [i \in Ids |-> IF i \in j.of THEN None ELSE @[i]]]
    /\ jobs' = jobs \ {j}
    /\ UNCHANGED <<dir, shown, title, running, moved, request, clock, ops>>

\* A rename loads the file, changes its title and saves it whole.
Rename(i, name) ==
    /\ Gesture
    /\ files[dir][i] # None
    /\ jobs' = jobs \cup {[kind |-> "rename", part |-> dir, id |-> i, rec |-> files[dir][i], of |-> name, req |-> 0]}
    /\ UNCHANGED <<dir, files, shown, title, running, moved, request, clock>>

Renamed(j) ==
    /\ j.kind = "rename"
    /\ jobs' = (jobs \ {j}) \cup {SavedAs(j, j.of)}
    /\ title' = IF dir = j.part /\ shown.id = j.id THEN j.of ELSE title
    /\ UNCHANGED <<dir, files, shown, running, moved, request, clock, ops>>

Delete(i) ==
    /\ Gesture
    /\ files[dir][i] # None
    /\ files' = [files EXCEPT ![dir][i] = None]
    /\ UNCHANGED <<dir, shown, title, running, jobs, moved, request, clock>>

\* A profile or workspace switch rebinds the store; the view follows in an
\* effect of its own.
Switch(p) ==
    /\ Gesture
    /\ p # dir
    /\ dir' = p
    /\ moved' = TRUE
    /\ UNCHANGED <<files, shown, title, running, jobs, request, clock>>

-----------------------------------------------------------------------------
(* The view. *)

\* Stopping a run saves what it has, where it began.
Halted == IF running = None THEN {} ELSE {Save(running.part, running.id, running.rec)}

StartFresh(i) ==
    /\ Unused(i)
    /\ shown' = [id |-> i, home |-> dir, turns |-> 0, parent |-> None]
    /\ title' = None
    /\ running' = None
    /\ jobs' = jobs \cup Halted
    /\ request' = request + 1

NewChat(i) ==
    /\ Gesture
    /\ StartFresh(i)
    /\ UNCHANGED <<dir, files, moved, clock>>

Follow(i) ==
    /\ moved
    /\ StartFresh(i)
    /\ moved' = FALSE
    /\ UNCHANGED <<dir, files, clock, ops>>

\* A run begins in the partition and the session of the moment.
RunBegins ==
    /\ Gesture
    /\ running = None /\ ~moved
    /\ clock' = clock + 1
    /\ shown' = [shown EXCEPT !.turns = @ + 1]
    /\ running' = [part |-> dir, id |-> shown.id,
                   rec |-> File(shown.home, shown.turns + 1, title, clock + 1, shown.parent)]
    /\ UNCHANGED <<dir, files, title, jobs, moved, request>>

\* It saves its own payload, and a title may be asked for.
RunEnds ==
    /\ running # None
    /\ clock' = clock + 1
    /\ LET rec == [running.rec EXCEPT !.at = clock + 1]
           naming == IF title = None /\ rec.turns = 1
                     THEN {[kind |-> "title", part |-> running.part, id |-> running.id,
                            rec |-> rec, of |-> None, req |-> 0]}
                     ELSE {}
       IN  jobs' = jobs \cup {Save(running.part, running.id, rec)} \cup naming
    /\ running' = None
    /\ UNCHANGED <<dir, files, shown, title, moved, request, ops>>

\* The generated title comes back, for the turns it was made from.
Named(j) ==
    /\ j.kind = "title"
    /\ \/ /\ shown.id = j.id /\ shown.turns = j.rec.turns /\ running = None
          /\ \E name \in Titles :
               /\ title' = name
               /\ jobs' = (jobs \ {j}) \cup {SavedAs(j, name)}
       \/ /\ jobs' = jobs \ {j}
          /\ title' = title
    /\ UNCHANGED <<dir, files, shown, running, moved, request, clock, ops>>

\* Opening a session stops the run and reads the file.
AskLoad(i) ==
    /\ Gesture
    /\ request' = request + 1
    /\ jobs' = jobs \cup Halted
                    \cup {[kind |-> "load", part |-> dir, id |-> i, rec |-> None, of |-> shown.id, req |-> request + 1]}
    /\ running' = None
    /\ UNCHANGED <<dir, files, shown, title, moved, clock>>

\* A load still wanted: the last one asked for, in the partition and from
\* the conversation it was asked in.
Wanted(j) == j.req = request /\ j.part = dir /\ j.of = shown.id

Opened(j) ==
    /\ j.kind = "load"
    /\ jobs' = jobs \ {j}
    /\ LET f == files[j.part][j.id]
       IN  IF Wanted(j) /\ f # None
           THEN /\ shown' = [id |-> j.id, home |-> f.home, turns |-> f.turns, parent |-> f.parent]
                /\ title' = f.title
                /\ UNCHANGED running
           ELSE UNCHANGED <<shown, title, running>>
    /\ UNCHANGED <<dir, files, moved, request, clock, ops>>

\* A branch copies the settled chat into a file of its own and opens it.
Branch(i) ==
    /\ Gesture
    /\ running = None /\ ~moved /\ shown.turns > 0
    /\ Unused(i)
    /\ clock' = clock + 1
    /\ LET rec == File(shown.home, shown.turns, title, clock + 1, shown.id)
       IN  jobs' = jobs \cup {[kind |-> "branch", part |-> dir, id |-> i, rec |-> rec, of |-> shown.id, req |-> 0]}
    /\ UNCHANGED <<dir, files, shown, title, running, moved, request>>

Unchanged(j) == j.part = dir /\ shown.id = j.of /\ shown.turns = j.rec.turns

Branched(j) ==
    /\ j.kind = "branch"
    /\ IF Unchanged(j)
       THEN /\ files' = [files EXCEPT ![j.part][j.id] = j.rec]
            /\ jobs' = (jobs \ {j}) \cup {Pruning(j, None)}
            /\ shown' = [id |-> j.id, home |-> j.rec.home, turns |-> j.rec.turns, parent |-> j.of]
            /\ title' = j.rec.title
            /\ UNCHANGED running
            /\ request' = request + 1
       ELSE /\ jobs' = jobs \ {j}
            /\ UNCHANGED <<files, shown, title, running, request>>
    /\ UNCHANGED <<dir, moved, clock, ops>>

JobStep(j) == Write(j) \/ List(j) \/ Prune(j) \/ Renamed(j) \/ Named(j) \/ Opened(j) \/ Branched(j)

FilesNext ==
    \/ \E i \in Ids, n \in Titles : Rename(i, n)
    \/ \E i \in Ids : Delete(i) \/ NewChat(i) \/ Follow(i) \/ AskLoad(i) \/ Branch(i)
    \/ \E p \in Partitions : Switch(p)
    \/ RunBegins \/ RunEnds
    \/ \E j \in jobs : JobStep(j)

FilesFairness == WF_filesVars(\E j \in jobs : JobStep(j)) /\ WF_filesVars(RunEnds)
FilesSpec == FilesInit /\ [][FilesNext]_filesVars /\ FilesFairness

-----------------------------------------------------------------------------
FilesTypeOK ==
    /\ dir \in Partitions /\ shown.id \in Ids /\ moved \in BOOLEAN
    /\ \A p \in Partitions : \A i \in Present(p) : files[p][i].turns \in Nat
    /\ \A j \in jobs : j.part \in Partitions /\ j.id \in Ids

(***************************************************************************)
(* A file never lands in a partition other than the one its conversation   *)
(* was held in, however often the store is rebound under saves, titles,    *)
(* renames and branches.                                                   *)
(***************************************************************************)
StaysHome == \A p \in Partitions : \A i \in Present(p) : files[p][i].home = p

(***************************************************************************)
(* The view shows a conversation of the partition the store is bound to,   *)
(* or is about to follow it.                                               *)
(***************************************************************************)
ShownIsHere == moved \/ shown.home = dir

(***************************************************************************)
(* With nothing under way a partition holds no more than Limit files.      *)
(***************************************************************************)
StoreBounded ==
    \A p \in Partitions :
        (\A j \in jobs : j.part = p => j.kind \notin {"save", "prune"}) => Cardinality(Present(p)) <= Limit

(***************************************************************************)
(* A step of the view that opens a stored chat opens the last one asked    *)
(* for.                                                                    *)
(***************************************************************************)
OpensLastAsked ==
    \A j \in jobs \ jobs' :
         j.kind = "load" /\ shown'.id # shown.id => j.req = request /\ shown'.id = j.id

(***************************************************************************)
(* Every save, rename, load and branch comes to its end.                   *)
(* Checked as: Waits leads to ~Waits.                                      *)
(***************************************************************************)
Waits == jobs # {}

=============================================================================
