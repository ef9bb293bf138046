---------------------------- MODULE HostSettings ----------------------------
(***************************************************************************)
(* The plugin host (main.ts, agent/profiles.ts, agent/mcp/secrets.ts): one  *)
(* live settings object, the data.json it is saved to, and what must agree  *)
(* with them: the consent ledgers of this vault, the private store of MCP   *)
(* secrets, the folders of the profiles and the folder the memory, skills   *)
(* and session stores are bound to.                                         *)
(*                                                                          *)
(* Every operation is a chain of awaits that others overlap.  A save writes *)
(* the settings of the moment it is asked for, in the order asked; any save *)
(* may fail, and the application may crash between any two steps.           *)
(***************************************************************************)
EXTENDS Naturals, Sequences, FiniteSets

CONSTANTS
    Procs,       \* operations under way at once
    Profiles,    \* profile ids
    Default,     \* the reserved profile
    None,        \* no receipt
    MaxOps,      \* bound: operations
    MaxCrashes,  \* bound: crashes
    MaxReceipts  \* bound: consents granted

ASSUME HostAssumption ==
    /\ Default \in Profiles
    /\ {MaxOps, MaxCrashes, MaxReceipts} \subseteq Nat
    /\ None \notin Nat

Kinds    == {"mcp", "terminal"}
Receipts == 1 .. MaxReceipts
Receipt  == Receipts \cup {None}

VARIABLES
    live,     \* this.settings
    gen,      \* its identity: the number of objects installed before it
    disk,     \* data.json
    queue,    \* saves asked for and not written yet, oldest first
    ledger,   \* the consent receipts in local storage
    store,    \* the private store holds the secret
    root,     \* the folder of each profile: absent, half written, or whole
    bound,    \* the profile the stores are bound to
    proc,     \* the operations
    up,       \* "loading", "saving", "running"
    minted,   \* receipts minted so far
    failed,   \* a save failed and nothing was bound since
    bundled,  \* profiles imported with skills, since their folder was made
    removed,  \* profiles whose folder a deletion takes, until a later import makes it anew
    torn,     \* profiles whose import a crash cut short
    cleared,  \* the secrets were cleared by a reset
    lost,     \* a bundle was published over settings changed during its save
    ops, crashes

vars == <<live, gen, disk, queue, ledger, store, root, bound, proc, up, minted,
          failed, bundled, removed, torn, cleared, lost, ops, crashes>>
ghosts == <<minted, bundled, removed, torn, cleared, lost, crashes>>

Settings == [profiles : SUBSET Profiles, active : Profiles, on : [Kinds -> BOOLEAN],
             receipt : [Kinds -> Receipt], secret : BOOLEAN]

Defaults == [profiles |-> {Default}, active |-> Default, on |-> [k \in Kinds |-> FALSE],
             receipt |-> [k \in Kinds |-> None], secret |-> FALSE]

Stages == {"idle", "probe", "claim", "skills", "cleanup", "load", "keep", "save", "rebind", "trash"}
Ops    == {"none", "edit", "grant", "switch", "create", "remove", "import", "bundle",
           "reset", "install"}

\* base is the settings object the operation started from and gen its identity;
\* cand is what it means to install; folders that it has folders to write or to
\* delete.
Proc == [op : Ops, stage : Stages, profile : Profiles, kind : Kinds, gen : Nat,
         base : Settings, cand : Settings, receipt : Receipt, folders : BOOLEAN]

Idle == [op |-> "none", stage |-> "idle", profile |-> Default, kind |-> "mcp", gen |-> 0,
         base |-> Defaults, cand |-> Defaults, receipt |-> None, folders |-> FALSE]

\* data.json may stem from before the secret store: a legacy configuration.
Init ==
    /\ live = Defaults /\ gen = 0 /\ queue = <<>>
    /\ disk \in {Defaults, [Defaults EXCEPT !.secret = TRUE]}
    /\ ledger = [k \in Kinds |-> None]
    /\ store = FALSE
    /\ root = [p \in Profiles |-> "absent"]
    /\ bound = Default
    /\ proc = [p \in Procs |-> Idle]
    /\ up = "loading" /\ minted = 0 /\ failed = FALSE
    /\ bundled = {} /\ removed = {} /\ torn = {} /\ cleared = FALSE /\ lost = FALSE /\ ops = 0 /\ crashes = 0

-----------------------------------------------------------------------------
(* Start-up.                                                               *)

\* Mutants: a consent that is gone is read back as an empty receipt; the
\* terminal switch is restored without its receipt.
RestoredEmpty(s) ==
    [s EXCEPT !.receipt = [k \in Kinds |-> IF s.receipt[k] = ledger[k] THEN s.receipt[k] ELSE 0]]
RestoredSwitch(s) ==
    [s EXCEPT !.receipt = [k \in Kinds |-> IF s.receipt[k] = ledger[k] THEN s.receipt[k] ELSE None]]

\* normalizeLoadedSettings rejects every consent; the ledger restores the one
\* whose receipt it shares with data.json, and the terminal switch with it.
Restored(s) ==
    LET held(k) == s.receipt[k] # None /\ s.receipt[k] = ledger[k] IN
    [s EXCEPT !.receipt = [k \in Kinds |-> IF held(k) THEN s.receipt[k] ELSE None],
              !.on      = [k \in Kinds |-> s.on[k] /\ (k = "mcp" \/ held(k))]]

\* Mutant: the secret leaves the configuration before the store holds it.
LoadUnkept ==
    /\ up = "loading"
    /\ live' = Restored(disk)
    /\ up' = IF disk.secret /\ ~store THEN "saving" ELSE "running"
    /\ UNCHANGED <<gen, disk, queue, ledger, store, root, bound, proc, failed, ops, ghosts>>

\* A legacy secret moves to the store first; one that is there already is left
\* in the configuration.
Load ==
    /\ up = "loading"
    /\ live' = Restored(disk)
    /\ IF disk.secret /\ ~store
       THEN store' = TRUE /\ up' = "saving" /\ UNCHANGED bound
       ELSE up' = "running" /\ bound' = disk.active /\ UNCHANGED store
    /\ UNCHANGED <<gen, disk, queue, ledger, root, proc, failed, ops, ghosts>>

\* The second write of the migration.
Migrated ==
    /\ up = "saving"
    /\ live' = [live EXCEPT !.secret = FALSE]
    /\ disk' = live'
    /\ up' = "running" /\ bound' = live.active
    /\ UNCHANGED <<gen, queue, ledger, store, root, proc, failed, ops, ghosts>>

\* An import between the claim of its folder and its end.
Owns(p, id) ==
    /\ proc[p].op = "bundle" /\ proc[p].folders /\ proc[p].profile = id
    /\ proc[p].stage \in {"skills", "save", "cleanup"}

Crash ==
    /\ crashes < MaxCrashes /\ up # "loading"
    /\ crashes' = crashes + 1
    /\ torn' = torn \cup {id \in Profiles : \E p \in Procs : Owns(p, id)}
    /\ up' = "loading" /\ queue' = <<>> /\ gen' = 0 /\ live' = Defaults
    /\ proc' = [p \in Procs |-> Idle] /\ failed' = FALSE
    /\ UNCHANGED <<disk, ledger, store, root, bound, minted, bundled, removed, cleared, lost, ops>>

-----------------------------------------------------------------------------
(* Operations up to their first await.                                     *)

Begin(p) == up = "running" /\ proc[p].stage = "idle" /\ ops < MaxOps /\ ops' = ops + 1

Started(p, op) == [Idle EXCEPT !.op = op, !.gen = gen, !.base = live]

\* saveSettings: the settings are serialized at once.
Ask(p, s) == queue' = Append(queue, [by |-> p, content |-> s])

\* A control of the settings page switches a consented feature on or off.
Toggle(p, k) ==
    /\ Begin(p) /\ (live.on[k] \/ live.receipt[k] # None)
    /\ live' = [live EXCEPT !.on[k] = ~@]
    /\ proc' = [proc EXCEPT ![p] = [Started(p, "edit") EXCEPT !.stage = "save"]]
    /\ Ask(p, live')
    /\ UNCHANGED <<gen, disk, ledger, store, root, bound, up, failed, ghosts>>

\* The modal appears while consent is missing: receipt, ledger, settings, save.
Grant(p, k) ==
    /\ Begin(p) /\ live.receipt[k] = None /\ minted < MaxReceipts
    /\ minted' = minted + 1
    /\ ledger' = [ledger EXCEPT ![k] = minted + 1]
    /\ live' = [live EXCEPT !.receipt[k] = minted + 1, !.on[k] = TRUE]
    /\ proc' = [proc EXCEPT ![p] =
         [Started(p, "grant") EXCEPT !.stage = "save", !.kind = k, !.receipt = ledger[k]]]
    /\ Ask(p, live')
    /\ UNCHANGED <<gen, disk, store, root, bound, up, failed, bundled, removed, torn, cleared, lost, crashes>>

\* applyProfile.
Switch(p, id) ==
    /\ Begin(p) /\ id \in live.profiles \ {live.active}
    /\ live' = [live EXCEPT !.active = id]
    /\ proc' = [proc EXCEPT ![p] = [Started(p, "switch") EXCEPT !.stage = "save"]]
    /\ Ask(p, live')
    /\ UNCHANGED <<gen, disk, ledger, store, root, bound, up, failed, ghosts>>

\* ProfileStore.remove: settings first, folders after the save.
Remove(p, id, trash) ==
    /\ Begin(p) /\ id \in live.profiles \ {Default}
    /\ live' = [live EXCEPT !.profiles = @ \ {id}, !.active = IF @ = id THEN Default ELSE @]
    /\ proc' = [proc EXCEPT ![p] =
         [Started(p, "remove") EXCEPT !.stage = "save", !.profile = id, !.folders = trash]]
    /\ removed' = IF trash THEN removed \cup {id} ELSE removed
    /\ Ask(p, live')
    /\ UNCHANGED <<gen, disk, ledger, store, root, bound, up, failed, minted, bundled, torn, cleared, lost, crashes>>

\* An import of settings persists the candidate before it publishes it.  It
\* carries no consent, no terminal switch and no secret.
ImportSettings(p, mcpOn) ==
    LET cand == [Defaults EXCEPT !.on = [k \in Kinds |-> k = "mcp" /\ mcpOn]] IN
    /\ Begin(p)
    /\ proc' = [proc EXCEPT ![p] = [Started(p, "import") EXCEPT !.stage = "save", !.cand = cand]]
    /\ Ask(p, cand)
    /\ UNCHANGED <<live, gen, disk, ledger, store, root, bound, up, failed, ghosts>>

\* resetEverything clears the secrets before it resets the settings; a reset
\* revokes the terminal ledger, not the MCP one.
Reset(p, everything) ==
    /\ Begin(p)
    /\ ledger' = [ledger EXCEPT !["terminal"] = None]
    /\ live' = Defaults /\ gen' = gen + 1
    /\ store' = (store /\ ~everything) /\ cleared' = (cleared \/ everything)
    /\ proc' = [proc EXCEPT ![p] = [Started(p, "reset") EXCEPT !.stage = "save"]]
    /\ Ask(p, live')
    /\ UNCHANGED <<disk, root, bound, up, failed, minted, bundled, removed, torn, lost, crashes>>

\* ProfileStore.create, the import of a bundle and a catalog install first
\* look at the disk.
Prepare(p, op, id) ==
    /\ Begin(p)
    /\ \/ op \in {"create", "bundle"} /\ id \notin live.profiles
          /\ proc' = [proc EXCEPT ![p] = [Started(p, op) EXCEPT !.stage = "probe", !.profile = id]]
       \/ op = "install" /\ id = Default
          /\ proc' = [proc EXCEPT ![p] = [Started(p, op) EXCEPT !.stage = "load"]]
    /\ UNCHANGED <<live, gen, disk, queue, ledger, store, root, bound, up, failed, ghosts>>

-----------------------------------------------------------------------------
(* After an await.                                                         *)

Ends(p) == proc' = [proc EXCEPT ![p] = Idle]

\* settingsStillCurrent compares the object and its content.
StillCurrent(p) == proc[p].gen = gen /\ proc[p].base = live

\* unusedProfileId found the id free; create compares the object only.
Created(p) ==
    LET id == proc[p].profile IN
    /\ proc[p].op = "create" /\ proc[p].stage = "probe" /\ root[id] = "absent"
    /\ proc[p].gen = gen /\ id \notin live.profiles
    /\ live' = [live EXCEPT !.profiles = @ \cup {id}]
    /\ proc' = [proc EXCEPT ![p].stage = "save", ![p].base = live]
    /\ Ask(p, live')
    /\ UNCHANGED <<gen, disk, ledger, store, root, bound, up, failed, ops, ghosts>>

Refused(p) ==
    /\ proc[p].stage = "probe"
    /\ \/ root[proc[p].profile] # "absent"
       \/ proc[p].op = "create" /\ (proc[p].gen # gen \/ proc[p].profile \in live.profiles)
       \/ proc[p].op = "bundle" /\ ~StillCurrent(p)
    /\ Ends(p)
    /\ UNCHANGED <<live, gen, disk, queue, ledger, store, root, bound, up, failed, ops, ghosts>>

\* importProfileFromText: a bundle with skills claims the root of the profile.
Probed(p, skills) ==
    /\ proc[p].op = "bundle" /\ proc[p].stage = "probe"
    /\ root[proc[p].profile] = "absent" /\ StillCurrent(p)
    /\ LET cand == [live EXCEPT !.profiles = @ \cup {proc[p].profile}] IN
       /\ proc' = [proc EXCEPT ![p].stage = IF skills THEN "claim" ELSE "save", ![p].cand = cand,
                                ![p].folders = skills]
       /\ IF skills THEN queue' = queue ELSE Ask(p, cand)
    /\ UNCHANGED <<live, gen, disk, ledger, store, root, bound, up, failed, ops, ghosts>>

\* An operation that has yet to take, or may take, the folder of a profile away.
Takes(p, id) ==
    \/ Owns(p, id)
    \/ proc[p].op = "remove" /\ proc[p].folders /\ proc[p].profile = id

\* createFolder fails when the folder exists, and then nothing is cleaned up.
Claimed(p, ok) ==
    LET id == proc[p].profile IN
    /\ proc[p].stage = "claim"
    /\ IF ok /\ root[id] = "absent"
       THEN /\ root' = [root EXCEPT ![id] = "half"] /\ proc' = [proc EXCEPT ![p].stage = "skills"]
            /\ bundled' = bundled \ {id}
            /\ removed' = IF \E q \in Procs : Takes(q, id) THEN removed ELSE removed \ {id}
       ELSE Ends(p) /\ UNCHANGED <<root, bundled, removed>>
    /\ UNCHANGED <<live, gen, disk, queue, ledger, store, bound, up, failed, ops,
                   minted, torn, cleared, lost, crashes>>

\* Mutant: a skill that failed to be written does not stop the import.
SkillsWrittenPartly(p, ok) ==
    LET id == proc[p].profile IN
    /\ proc[p].stage = "skills"
    /\ root' = IF ok /\ root[id] = "half" THEN [root EXCEPT ![id] = "whole"] ELSE root
    /\ IF StillCurrent(p)
       THEN proc' = [proc EXCEPT ![p].stage = "save"] /\ Ask(p, proc[p].cand)
       ELSE proc' = [proc EXCEPT ![p].stage = "cleanup"] /\ UNCHANGED queue
    /\ UNCHANGED <<live, gen, disk, ledger, store, bound, up, failed, ops, ghosts>>

\* The skills are written, and the candidate is saved if nothing changed.
SkillsWritten(p, ok) ==
    LET id == proc[p].profile IN
    /\ proc[p].stage = "skills"
    /\ root' = IF ok /\ root[id] = "half" THEN [root EXCEPT ![id] = "whole"] ELSE root
    /\ IF ok /\ StillCurrent(p)
       THEN proc' = [proc EXCEPT ![p].stage = "save"] /\ Ask(p, proc[p].cand)
       ELSE proc' = [proc EXCEPT ![p].stage = "cleanup"] /\ UNCHANGED queue
    /\ UNCHANGED <<live, gen, disk, ledger, store, bound, up, failed, ops, ghosts>>

Cleaned(p) ==
    /\ proc[p].stage = "cleanup"
    /\ root' = [root EXCEPT ![proc[p].profile] = "absent"]
    /\ Ends(p)
    /\ UNCHANGED <<live, gen, disk, queue, ledger, store, bound, up, failed, ops, ghosts>>

\* installMcpCatalogEntry keeps the secret before it saves the configuration.
Kept(p) ==
    /\ proc[p].stage \in {"load", "keep"}
    /\ IF proc[p].stage = "load"
       THEN proc' = [proc EXCEPT ![p].stage = "keep"] /\ UNCHANGED <<live, store, queue, cleared>>
       ELSE /\ store' = TRUE /\ cleared' = FALSE
            /\ live' = [live EXCEPT !.secret = FALSE]
            /\ proc' = [proc EXCEPT ![p].stage = "save"]
            /\ Ask(p, live')
    /\ UNCHANGED <<gen, disk, ledger, root, bound, up, failed, minted, bundled, removed, torn, lost, crashes, ops>>

\* What a failed save takes back, on the object the operation started from
\* (the profile lists) or on the current one (the consents).
RolledBack(p) ==
    LET q == proc[p] IN
    CASE q.op \in {"create", "remove"} /\ q.gen = gen ->
           [live EXCEPT !.profiles = q.base.profiles,
                        !.active   = IF q.op = "remove" THEN q.base.active ELSE @]
      [] q.op = "grant" ->
           [live EXCEPT !.receipt[q.kind] = q.base.receipt[q.kind], !.on[q.kind] = q.base.on[q.kind]]
      [] OTHER -> live

Oldest(p) == queue # <<>> /\ Head(queue).by = p /\ queue' = Tail(queue)

\* The oldest save fails.  The ledger of a failed grant is restored if the
\* local storage lets it.
SaveFails(p, restored) ==
    /\ Oldest(p)
    /\ live' = RolledBack(p)
    /\ ledger' = IF proc[p].op = "grant" /\ restored
                 THEN [ledger EXCEPT ![proc[p].kind] = proc[p].receipt] ELSE ledger
    /\ IF proc[p].op = "bundle" /\ proc[p].folders
       THEN proc' = [proc EXCEPT ![p].stage = "cleanup"]
       ELSE Ends(p)
    /\ failed' = (failed \/ proc[p].op \notin {"import", "bundle"})
    /\ UNCHANGED <<gen, disk, store, root, bound, up, ops, ghosts>>

\* It succeeds: saveSettings binds the stores to the active profile of now.
Saved(p) ==
    /\ Oldest(p) /\ proc[p].op \notin {"import", "bundle"}
    /\ disk' = Head(queue).content
    /\ bound' = live.active /\ failed' = FALSE
    /\ IF proc[p].folders THEN proc' = [proc EXCEPT ![p].stage = "trash"] ELSE Ends(p)
    /\ UNCHANGED <<live, gen, ledger, store, root, up, ops, ghosts>>

\* An import publishes its candidate; the stores follow after the terminal was
\* reconciled, those of a bundle at once.
Published(p) ==
    LET q == proc[p] IN
    /\ Oldest(p) /\ q.op \in {"import", "bundle"}
    /\ disk' = Head(queue).content
    /\ live' = q.cand /\ gen' = gen + 1
    /\ IF q.op = "import"
       THEN proc' = [proc EXCEPT ![p].stage = "rebind"] /\ UNCHANGED <<bound, bundled, failed, lost>>
       ELSE /\ Ends(p) /\ bound' = q.cand.active /\ failed' = FALSE
            /\ lost' = (lost \/ ~StillCurrent(p))
            /\ bundled' = IF q.folders THEN bundled \cup {q.profile} ELSE bundled
    /\ UNCHANGED <<ledger, store, root, up, ops, minted, removed, torn, cleared, crashes>>

\* Mutant: an import does not move the stores to its active profile.
ReboundUnmoved(p) ==
    /\ proc[p].stage = "rebind" /\ Ends(p)
    /\ UNCHANGED <<live, gen, disk, queue, ledger, store, root, bound, up, failed, ops, ghosts>>

Rebound(p) ==
    /\ proc[p].stage = "rebind"
    /\ bound' = live.active /\ failed' = FALSE
    /\ Ends(p)
    /\ UNCHANGED <<live, gen, disk, queue, ledger, store, root, up, ops, ghosts>>

\* A deleted profile loses its folder; an active one hands over to Default.
Trashed(p) ==
    /\ proc[p].stage = "trash"
    /\ root' = [root EXCEPT ![proc[p].profile] = "absent"]
    /\ bound' = live.active /\ failed' = FALSE
    /\ Ends(p)
    /\ UNCHANGED <<live, gen, disk, queue, ledger, store, up, ops, ghosts>>

-----------------------------------------------------------------------------
Next ==
    \/ Load \/ Migrated \/ Crash
    \/ \E p \in Procs :
         \/ \E k \in Kinds : Toggle(p, k) \/ Grant(p, k)
         \/ \E id \in Profiles : Switch(p, id) \/ \E b \in BOOLEAN : Remove(p, id, b)
         \/ \E b \in BOOLEAN : ImportSettings(p, b) \/ Reset(p, b)
         \/ \E op \in {"create", "bundle", "install"}, id \in Profiles : Prepare(p, op, id)
         \/ Created(p) \/ Refused(p) \/ Cleaned(p) \/ Kept(p)
         \/ \E b \in BOOLEAN : Probed(p, b) \/ Claimed(p, b) \/ SkillsWritten(p, b) \/ SaveFails(p, b)
         \/ Saved(p) \/ Published(p) \/ Rebound(p) \/ Trashed(p)

Spec == Init /\ [][Next]_vars

-----------------------------------------------------------------------------
(* Properties.                                                             *)

TypeOK ==
    /\ {live, disk} \subseteq Settings /\ gen \in Nat
    /\ queue \in Seq([by : Procs, content : Settings])
    /\ ledger \in [Kinds -> Receipt] /\ store \in BOOLEAN
    /\ root \in [Profiles -> {"absent", "half", "whole"}]
    /\ bound \in Profiles /\ proc \in [Procs -> Proc]
    /\ up \in {"loading", "saving", "running"}
    /\ minted \in 0 .. MaxReceipts /\ {failed, cleared, lost} \subseteq BOOLEAN
    /\ bundled \subseteq Profiles /\ removed \subseteq Profiles /\ torn \subseteq Profiles
    /\ ops \in 0 .. MaxOps /\ crashes \in 0 .. MaxCrashes

\* The terminal is switched on only under a receipt that the ledger of this
\* vault holds, whatever saves fail, settings are imported or reset meanwhile,
\* and however often the application restarts, as long as no profile bundle was
\* published over settings that changed during its save.
TerminalConsented ==
    up = "running" /\ ~lost /\ live.on["terminal"]
        => live.receipt["terminal"] # None /\ live.receipt["terminal"] = ledger["terminal"]

Quiet == up = "running" /\ queue = <<>> /\ \A p \in Procs : proc[p].stage = "idle"

\* A profile imported with skills has all of them, over crashes and whatever
\* other imports and deletions overlap, unless a deletion of the same id that was
\* not over when its folder was made takes it; and at rest an id that was not
\* imported has no folder, unless a crash cut its import short.
BundlesWhole ==
    \A id \in Profiles :
        /\ up = "running" /\ id \in (live.profiles \cap bundled) \ removed => root[id] = "whole"
        /\ Quiet /\ id \notin bundled \cup torn => root[id] = "absent"

\* A crash at any point of the start-up migration or of an install leaves the
\* secret on disk, in data.json or in the store, until a reset clears it.
SecretKept ==
    [][~cleared' /\ (disk.secret \/ store) => disk'.secret \/ store']_vars

\* At rest the stores write to the folders of the active profile, unless the
\* save that would have bound them failed.
StoresFollow == Quiet /\ ~failed => bound = live.active

\* Two things main.ts and agent/mcp/secrets.ts say and the code does not keep;
\* no run states them, TLC refutes either in the run of this module.
\* A bundle import is cancelled when the settings changed meanwhile: none is
\* published over such a change.
ImportCancelled == ~lost

\* Secret values never belong in the settings.
SecretsLeave == up = "running" => ~live.secret
=============================================================================
