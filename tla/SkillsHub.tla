----------------------------- MODULE SkillsHub -----------------------------
(***************************************************************************)
(* The skills hub: the page with its sources, installs, uninstalls and     *)
(* "Update all", the client that downloads into the skills folder of the   *)
(* moment, and the lock file that says what of the hub is installed there. *)
(* The sources publish new versions and the folder changes at any await.   *)
(***************************************************************************)
EXTENDS Naturals, Sequences, FiniteSets, SequencesExt, Functions

CONSTANTS
    Flows,              \* installs, uninstalls and updates of the page under way at once
    Taps, Builtin,      \* sources; the ones that cannot be removed
    Skills, TapOf,      \* what the sources publish
    SlugOf,             \* the folder a skill is installed in
    Parts,              \* the files of a skill, in their order; the first is its SKILL.md
    Verdict,            \* what the guard says of each version of each skill
    Folders,            \* skills folders, one per profile
    None,
    MaxFlows, MaxEvents \* bounds: flows; releases, faults, profile switches and restarts

VARIABLES
    remote,         \* the version each skill is at
    taps,           \* the sources configured
    cache,          \* the listing of each source kept with the settings, and whether it is fresh
    entries,        \* the listing of each source the page works with
    loads,          \* the sources whose chip is loading
    installed,      \* the skills the page shows as installed
    busy,           \* the skills whose button is disabled, and "all"
    flow,           \* the flows
    folder,         \* the skills folder of the active profile
    disk,           \* what the folders hold, by slug and file
    lock,           \* the lock file of each folder
    mixed,          \* two writers met, the folder moved under one, or an uninstall was cut off (observer)
    started, events

hubVars == <<remote, taps, cache, entries, loads, installed, busy, flow, folder, disk, lock, mixed,
             started, events>>
pageVars == <<taps, entries, loads, cache>>
diskVars == <<disk, lock>>
bounds == <<started, events>>

NoShas == [p \in ToSet(Parts) |-> None]
Slugs == Range(SlugOf)
Listing(t) == [s \in {x \in Skills : TapOf[x] = t} |-> remote[s]]

HubInit ==
    /\ remote = [s \in Skills |-> 0]
    /\ taps = Taps
    /\ cache = [t \in Taps |-> None] /\ entries = [t \in Taps |-> None] /\ loads = {}
    /\ installed = {} /\ busy = {} /\ flow = [f \in Flows |-> None]
    /\ folder \in Folders
    /\ disk = [d \in Folders |-> [g \in Slugs |-> NoShas]]
    /\ lock = [d \in Folders |-> [s \in Skills |-> None]]
    /\ mixed = FALSE
    /\ started = 0 /\ events = 0

Event == events < MaxEvents /\ events' = events + 1 /\ UNCHANGED started
May(ok) == IF ok THEN UNCHANGED bounds ELSE Event

(* A source publishes a new version of a skill. *)
Release(s) ==
    /\ Event
    /\ remote' = [remote EXCEPT ![s] = @ + 1]
    /\ UNCHANGED <<pageVars, installed, busy, flow, folder, diskVars, mixed>>

(* Another profile, with its own folder. *)
Move(d) ==
    /\ Event
    /\ d # folder /\ folder' = d
    /\ mixed' = (mixed \/ \E f \in Flows : flow[f] # None)
    /\ UNCHANGED <<remote, pageVars, installed, busy, flow, diskVars>>

-----------------------------------------------------------------------------
(* The sources of the page. *)

(* hubEnsureLoaded, for one source; a fresh listing of the settings saves the request. *)
Ask(t, force) ==
    /\ t \in taps /\ t \notin loads
    /\ force \/ entries[t] = None
    /\ IF ~force /\ cache[t] # None /\ cache[t].fresh
       THEN entries' = [entries EXCEPT ![t] = cache[t].list] /\ UNCHANGED loads
       ELSE loads' = loads \cup {t} /\ UNCHANGED entries
    /\ UNCHANGED <<remote, taps, cache, installed, busy, flow, folder, diskVars, mixed, bounds>>

Cached(t) == cache' = [cache EXCEPT ![t] = [fresh |-> TRUE, list |-> Listing(t)]]

(* The listing arrives: for a source removed meanwhile as well. *)
Loaded(t, ok) ==
    /\ t \in loads /\ loads' = loads \ {t}
    /\ May(ok)
    /\ IF ok THEN Cached(t) /\ entries' = [entries EXCEPT ![t] = Listing(t)]
             ELSE UNCHANGED <<cache, entries>>
    /\ UNCHANGED <<remote, taps, installed, busy, flow, folder, diskVars, mixed>>

AddTap(t) ==
    /\ t \notin taps /\ taps' = taps \cup {t}
    /\ UNCHANGED <<remote, cache, entries, loads, installed, busy, flow, folder, diskVars, mixed, bounds>>

(* pruneHubCache *)
Pruned(c, keep) == [t \in Taps |-> IF t \in keep THEN c[t] ELSE None]

RemoveTap(t) ==
    /\ t \in taps \ Builtin /\ Event
    /\ taps' = taps \ {t}
    /\ cache' = Pruned(cache, taps') /\ entries' = [entries EXCEPT ![t] = None]
    /\ UNCHANGED <<remote, loads, installed, busy, flow, folder, diskVars, mixed>>

-----------------------------------------------------------------------------
(* The flows.  One on its own may do as it likes; two that write at once are noted. *)

Writing == {"head", "fetch", "write", "readLock", "writeLock", "rmdir", "unlock"}
Overlapping(f) == \E g \in Flows \ {f} : flow[g] # None /\ flow[g].stage \in Writing

To(f, rec) ==
    /\ flow' = [flow EXCEPT ![f] = rec]
    /\ mixed' = (mixed \/ (rec # None /\ rec.stage \in Writing /\ Overlapping(f)))

Flow(kind, s, stage) ==
    [kind |-> kind, skill |-> s, stage |-> stage, list |-> None, todo |-> <<>>, dest |-> None,
     got |-> None, shas |-> NoShas, table |-> None, queue |-> <<>>, stale |-> <<>>, holds |-> IF kind = "all" THEN "all" ELSE s]

Begin(f, held) ==
    /\ flow[f] = None
    /\ started < MaxFlows /\ started' = started + 1
    /\ held \notin busy /\ busy' = busy \cup {held}
    /\ UNCHANGED <<remote, pageVars, installed, folder, diskVars, events>>

(* The finally block: the button is released, unless the guard's question released it before. *)
Ends(f) == busy' = busy \ {flow[f].holds} /\ To(f, None)

Install(f, s) ==
    /\ entries[TapOf[s]] # None /\ s \notin installed
    /\ Begin(f, s) /\ To(f, [Flow("install", s, "scan") EXCEPT !.list = entries[TapOf[s]]])

Uninstall(f, s) ==
    /\ s \in installed /\ entries[TapOf[s]] # None
    /\ Begin(f, s)
    /\ flow' = [flow EXCEPT ![f] = Flow("uninstall", s, "readLock")]
    /\ mixed' = (mixed \/ Overlapping(f))

UpdateAll(f) ==
    /\ Begin(f, "all")
    /\ flow' = [flow EXCEPT ![f] = Flow("all", None, "list")] /\ UNCHANGED mixed

At(f, stage) == flow[f] # None /\ flow[f].stage = stage
Still == UNCHANGED <<remote, taps, entries, loads, folder>>

(* The guard reads the files as they are now. *)
Scan(s) == Verdict[s][remote[s]]
Asks(verdict) == verdict # "safe"

(* Asking ends the busy part of the flow. *)
Scanned(f) ==
    /\ At(f, "scan")
    /\ LET s == flow[f].skill IN
       IF Asks(Scan(s))
       THEN To(f, [flow[f] EXCEPT !.stage = "guard", !.holds = None]) /\ busy' = busy \ {s}
       ELSE To(f, [flow[f] EXCEPT !.stage = "head"]) /\ UNCHANGED busy
    /\ Still /\ UNCHANGED <<cache, installed, diskVars, bounds>>

GuardAnswers(f, yes) ==
    /\ At(f, "guard")
    /\ To(f, IF yes THEN [flow[f] EXCEPT !.stage = "head"] ELSE None)
    /\ Still /\ UNCHANGED <<cache, installed, busy, diskVars, bounds>>

(* install: the SKILL.md names the folder, then every file of the listing in turn. *)
Head0(f, ok) ==
    /\ At(f, "head") /\ May(ok)
    /\ IF ok THEN To(f, [flow[f] EXCEPT !.stage = "fetch", !.todo = Parts, !.shas = NoShas]) /\ UNCHANGED busy
             ELSE Ends(f)
    /\ Still /\ UNCHANGED <<cache, installed, diskVars>>

(* The path is made first, then the file is fetched; one that is missing or too large is passed
   over, a broken connection ends the flow. *)
Fetch(f, result) ==
    /\ At(f, "fetch") /\ flow[f].todo # <<>>
    /\ May(result = "file")
    /\ CASE result = "file" ->
              To(f, [flow[f] EXCEPT !.stage = "write", !.dest = folder, !.got = remote[flow[f].skill]])
              /\ UNCHANGED busy
         [] result = "none" -> To(f, [flow[f] EXCEPT !.todo = Tail(@)]) /\ UNCHANGED busy
         [] result = "broken" -> Ends(f)
    /\ Still /\ UNCHANGED <<cache, installed, diskVars>>

(* What the lock will say of the file: the version of the listing, not of what came. *)
Shas(f, p) == [flow[f].shas EXCEPT ![p] = flow[f].list[flow[f].skill]]

Write(f) ==
    /\ At(f, "write")
    /\ LET r == flow[f] p == Head(r.todo) IN
       /\ disk' = [disk EXCEPT ![r.dest][SlugOf[r.skill]][p] = [of |-> r.skill, v |-> r.got]]
       /\ To(f, [r EXCEPT !.stage = "fetch", !.todo = Tail(@), !.shas = Shas(f, p)])
    /\ Still /\ UNCHANGED <<cache, installed, busy, lock, bounds>>

(* readLock and writeLock each go to the folder of their moment. *)
ReadLock(f) ==
    /\ \/ At(f, "readLock")
       \/ At(f, "fetch") /\ flow[f].todo = <<>>
    /\ LET r == [flow[f] EXCEPT !.table = lock[folder], !.dest = folder] IN
       To(f, IF r.kind # "uninstall" THEN [r EXCEPT !.stage = "writeLock"]
             ELSE [r EXCEPT !.stage = IF r.table[r.skill] = None THEN "refresh" ELSE "rmdir"])
    /\ Still /\ UNCHANGED <<cache, installed, busy, diskVars, bounds>>

WriteLock(f) ==
    /\ At(f, "writeLock")
    /\ lock' = [lock EXCEPT ![folder] = [flow[f].table EXCEPT ![flow[f].skill] = flow[f].shas]]
    /\ To(f, [flow[f] EXCEPT !.stage = IF flow[f].kind = "all" THEN "next" ELSE "refresh"])
    /\ Still /\ UNCHANGED <<cache, installed, busy, disk, bounds>>

Rmdir(f) ==
    /\ At(f, "rmdir")
    /\ disk' = [disk EXCEPT ![flow[f].dest][SlugOf[flow[f].skill]] = NoShas]
    /\ To(f, [flow[f] EXCEPT !.stage = "unlock"])
    /\ Still /\ UNCHANGED <<cache, installed, busy, lock, bounds>>

Unlock(f) ==
    /\ At(f, "unlock")
    /\ lock' = [lock EXCEPT ![folder] = [flow[f].table EXCEPT ![flow[f].skill] = None]]
    /\ To(f, [flow[f] EXCEPT !.stage = "refresh"])
    /\ Still /\ UNCHANGED <<cache, installed, busy, disk, bounds>>

(* refreshHubInstalled, then the finally block. *)
Refresh(f) ==
    /\ At(f, "refresh")
    /\ installed' = {s \in Skills : lock[folder][s] # None}
    /\ Ends(f)
    /\ Still /\ UNCHANGED <<cache, diskVars, bounds>>

-----------------------------------------------------------------------------
(* Update all. *)

ListLocked(f) ==
    /\ At(f, "list")
    /\ To(f, [flow[f] EXCEPT !.stage = "check", !.table = lock[folder],
                             !.queue = SetToSeq({s \in Skills : lock[folder][s] # None})])
    /\ Still /\ UNCHANGED <<cache, installed, busy, diskVars, bounds>>

(* A file whose version changed, or one the lock does not know. *)
Stale(shas, v) ==
    \/ \E p \in ToSet(Parts) : shas[p] # None /\ shas[p] # v
    \/ \E p \in ToSet(Parts) : shas[p] = None

(* checkUpdates: the source of each skill of the lock is listed anew; one out of reach is passed
   over. *)
Check(f, ok) ==
    /\ At(f, "check") /\ flow[f].queue # <<>>
    /\ May(ok)
    /\ LET s == Head(flow[f].queue) r == [flow[f] EXCEPT !.queue = Tail(@)] IN
       IF ok
       THEN /\ Cached(TapOf[s])
            /\ To(f, IF Stale(r.table[s], remote[s]) THEN [r EXCEPT !.stale = Append(@, s)] ELSE r)
       ELSE UNCHANGED cache /\ To(f, r)
    /\ Still /\ UNCHANGED <<installed, busy, diskVars>>

Checked(f) ==
    /\ At(f, "check") /\ flow[f].queue = <<>>
    /\ IF flow[f].stale = <<>> THEN Ends(f)
       ELSE To(f, [flow[f] EXCEPT !.stage = "next"]) /\ UNCHANGED busy
    /\ Still /\ UNCHANGED <<cache, installed, diskVars, bounds>>

(* update: the lock and the listing once more, then an install over the folder. *)
UpdateNext(f, ok) ==
    /\ At(f, "next") /\ flow[f].stale # <<>>
    /\ LET s == Head(flow[f].stale) r == [flow[f] EXCEPT !.stale = Tail(@)] IN
       IF lock[folder][s] = None
       THEN ok /\ UNCHANGED bounds /\ To(f, r) /\ UNCHANGED <<busy, cache>>
       ELSE /\ May(ok)
            /\ IF ok THEN /\ Cached(TapOf[s])
                          /\ To(f, [r EXCEPT !.stage = "head", !.skill = s, !.list = Listing(TapOf[s])])
                          /\ UNCHANGED busy
                     ELSE UNCHANGED cache /\ Ends(f)
    /\ Still /\ UNCHANGED <<installed, diskVars>>

Updated(f) ==
    /\ At(f, "next") /\ flow[f].stale = <<>>
    /\ To(f, [flow[f] EXCEPT !.stage = "refresh"])
    /\ Still /\ UNCHANGED <<cache, installed, busy, diskVars, bounds>>

-----------------------------------------------------------------------------
(* A restart, also in the middle of a flow: the listings kept are pruned to the sources there
   are, and the page starts empty. *)
HubRestart ==
    /\ Event
    /\ cache' = Pruned(cache, taps)
    /\ entries' = [t \in Taps |-> None] /\ loads' = {} /\ busy' = {} /\ flow' = [f \in Flows |-> None]
    /\ installed' = {s \in Skills : lock[folder][s] # None}
    /\ mixed' = (mixed \/ \E f \in Flows : At(f, "unlock"))
    /\ UNCHANGED <<remote, taps, folder, diskVars>>

FlowStep(f) ==
    \/ Scanned(f) \/ Write(f) \/ ReadLock(f) \/ WriteLock(f) \/ Rmdir(f) \/ Unlock(f) \/ Refresh(f)
    \/ ListLocked(f) \/ Checked(f) \/ Updated(f)
    \/ \E ok \in BOOLEAN : Head0(f, ok) \/ Check(f, ok) \/ UpdateNext(f, ok)
    \/ \E result \in {"file", "none", "broken"} : Fetch(f, result)

HubNext ==
    \/ \E s \in Skills : Release(s)
    \/ \E d \in Folders : Move(d)
    \/ \E t \in Taps : AddTap(t) \/ RemoveTap(t)
    \/ \E t \in Taps, b \in BOOLEAN : Ask(t, b) \/ Loaded(t, b)
    \/ \E f \in Flows, s \in Skills : Install(f, s) \/ Uninstall(f, s)
    \/ \E f \in Flows : UpdateAll(f) \/ FlowStep(f)
    \/ \E f \in Flows, yes \in BOOLEAN : GuardAnswers(f, yes)
    \/ HubRestart

HubFairness == \A f \in Flows : WF_hubVars(FlowStep(f))
HubSpec == HubInit /\ [][HubNext]_hubVars /\ HubFairness

-----------------------------------------------------------------------------
(* Properties. *)

HubTypeOK ==
    /\ remote \in [Skills -> 0..MaxEvents] /\ taps \subseteq Taps /\ loads \subseteq Taps
    /\ installed \subseteq Skills /\ busy \subseteq Skills \cup {"all"} /\ folder \in Folders
    /\ mixed \in BOOLEAN

(* While flows took turns and the folder stayed, what "Update all" would call up to date is on
   disk as the source has it, whichever version came out between the listing and the downloads,
   which of them failed, and wherever a restart cut an install off. *)
UpToDateIsReal ==
    ~mixed =>
        \A d \in Folders, s \in Skills :
            /\ lock[d][s] # None /\ ~Stale(lock[d][s], remote[s])
            /\ \A x \in Skills \ {s} : SlugOf[x] # SlugOf[s]
            /\ \A f \in Flows : flow[f] = None
            => \A p \in ToSet(Parts) : disk[d][SlugOf[s]][p] = [of |-> s, v |-> remote[s]]

(* A button that is disabled has a flow that will give it back. *)
BusyIsHeld == \A s \in busy : \E f \in Flows : flow[f] # None /\ flow[f].holds = s

(* Every flow ends or waits for the user, and with it its button comes back, whatever fails. Checked as: Waits leads to ~Waits. *)
Waits(s) == s \in busy

=============================================================================
