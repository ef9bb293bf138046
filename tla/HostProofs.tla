----------------------------- MODULE HostProofs -----------------------------
(***************************************************************************)
(* TLAPS proofs about HostSettings, for any number of operations, profiles, *)
(* crashes and consents: its types, the terminal's consent, the secret that *)
(* survives every crash, the stores that follow the active profile, and the *)
(* folders of imported profiles.  Then about two parts that decide over a   *)
(* piece of the settings or of what is stored beside them: the model menu,  *)
(* and the notes of the memory tool.                                        *)
(***************************************************************************)
EXTENDS HostSettings, Integers, SequenceTheorems, FiniteSetTheorems, WellFoundedInduction,
        TLAPS

CONSTANTS
    Groups, Catalogs, FastOf, AliasOf, Matches, DefaultVisible, MaxChanges,  \* of ModelMenu
    Calls, Entries, Long, Activity, Limits, MaxEdits                         \* of MemoryNotes

VARIABLES
    catalog, stored, current, searching, collapsed, override, last, changes,
    note, limit, call, prompt, noteOps, edits

Menu == INSTANCE ModelMenu
Notes == INSTANCE MemoryNotes WITH ops <- noteOps

\* An operation whose save waits in the queue is in its save stage and has
\* asked for one save only; outside normal operation nothing is under way.
QueueSound ==
    /\ \A i \in DOMAIN queue : proc[queue[i].by].stage = "save"
    /\ \A i, j \in DOMAIN queue : queue[i].by = queue[j].by => i = j
    /\ up # "running" => queue = <<>> /\ proc = [p \in Procs |-> Idle]

\* Which operation can be in which stage, and what its record holds.  The
\* candidate of an import carries no consent and no secret, that of a bundle
\* is the settings it started from with one more profile.
StageSound(p) ==
    LET q == proc[p] IN
    /\ q.stage \in {"claim", "skills", "cleanup"} => q.op = "bundle" /\ q.folders
    /\ q.stage = "probe" => ~q.folders /\ q.op \in {"create", "bundle"}
    /\ q.stage \in {"load", "keep"} => q.op = "install" /\ ~q.folders
    /\ q.stage = "rebind" => q.op = "import"
    /\ q.stage = "trash" => q.op = "remove" /\ q.folders
    /\ q.folders => q.op \in {"remove", "bundle"}
    /\ q.op = "remove" /\ q.folders => q.profile \in removed
    /\ q.op = "import" => ~q.cand.on["terminal"] /\ q.cand.receipt["terminal"] = None
                          /\ ~q.cand.secret
    /\ q.op = "bundle" /\ q.stage \in {"claim", "skills", "save"} =>
          q.cand = [q.base EXCEPT !.profiles = @ \cup {q.profile}]

\* A terminal receipt in the live settings is the ledger's, the switch is on
\* under one only, and a grant under way started without either.
Consented ==
    /\ live.receipt["terminal"] # None => live.receipt["terminal"] = ledger["terminal"]
    /\ live.on["terminal"] => live.receipt["terminal"] # None

GrantSound(p) ==
    proc[p].op = "grant" /\ proc[p].kind = "terminal" =>
        ~proc[p].base.on["terminal"] /\ proc[p].base.receipt["terminal"] = None

ConsentSound == ~lost => Consented /\ \A p \in Procs : GrantSound(p)

\* After the start-up a secret that is in no store was cleared, or is nowhere:
\* not on disk, in the live settings, in a save asked for or in a candidate.
NoSecret ==
    /\ ~disk.secret /\ ~live.secret
    /\ \A i \in DOMAIN queue : ~queue[i].content.secret
    /\ \A p \in Procs : ~proc[p].cand.secret

SecretSound ==
    /\ up = "saving" => store
    /\ up = "running" /\ ~store /\ ~cleared => NoSecret

\* An operation that will bind the stores to the active profile.
Binds(p) ==
    \/ proc[p].stage = "rebind"
    \/ proc[p].stage = "save" /\ proc[p].op \notin {"import", "bundle"}

FollowSound ==
    up = "running" /\ ~failed => bound = live.active \/ \E p \in Procs : Binds(p)

\* A folder that no deletion takes belongs to one import at most, half written
\* until its skills are, and whole once the import published.
OwnedOnce(id) ==
    /\ id \in bundled => root[id] = "whole" /\ \A p \in Procs : ~Owns(p, id)
    /\ \A p \in Procs : Owns(p, id) =>
          /\ root[id] # "absent"
          /\ proc[p].stage = "skills" => root[id] = "half"
          /\ proc[p].stage = "save" => root[id] = "whole"
          /\ \A q \in Procs : Owns(q, id) => q = p

\* A folder there is was published, is in the hands of its import, or was left
\* by a crash.
FolderHasOwner(id) ==
    root[id] # "absent" => id \in bundled \cup torn \/ \E p \in Procs : Owns(p, id)

FolderSound ==
    /\ \A id \in Profiles \ removed : OwnedOnce(id)
    /\ \A id \in Profiles : FolderHasOwner(id)

Inv == /\ TypeOK /\ QueueSound /\ (\A p \in Procs : StageSound(p)) /\ ConsentSound
       /\ SecretSound /\ FollowSound /\ FolderSound

-----------------------------------------------------------------------------
(* Types.                                                                  *)

\* The two records every operation is built from.
LEMMA IdleTyped == Defaults \in Settings /\ Idle \in Proc
BY HostAssumption DEF Defaults, Settings, Idle, Proc, Ops, Stages, Kinds, Receipt

LEMMA StartedTyped ==
    ASSUME TypeOK, NEW p \in Procs, NEW op \in Ops
    PROVE  Started(p, op) \in Proc
BY IdleTyped DEF Started, TypeOK, Proc

LEMMA BeginTyped ==
    ASSUME TypeOK, NEW p \in Procs, Begin(p)
    PROVE  ops' \in 0 .. MaxOps /\ up = "running" /\ proc[p].stage = "idle"
BY HostAssumption DEF Begin, TypeOK

LEMMA StageNames ==
    {"idle", "probe", "claim", "skills", "cleanup", "load", "keep", "save", "rebind", "trash"} \subseteq Stages
BY DEF Stages

\* A stage that ends leaves an operation with its other fields, or none.
LEMMA ProcTyped ==
    ASSUME TypeOK, NEW p \in Procs
    PROVE  /\ proc[p] \in Proc /\ proc[p].cand \in Settings /\ proc[p].profile \in Profiles
           /\ proc[p].kind \in Kinds /\ proc[p].receipt \in Receipt
           /\ [proc EXCEPT ![p] = Idle] \in [Procs -> Proc]
BY IdleTyped DEF TypeOK, Proc

LEMMA StagedTyped ==
    ASSUME TypeOK, NEW p \in Procs, NEW s \in Stages
    PROVE  [proc EXCEPT ![p].stage = s] \in [Procs -> Proc]
<1>1. [proc[p] EXCEPT !.stage = s] \in Proc
  BY ProcTyped DEF Proc
<1>2. [proc EXCEPT ![p].stage = s] = [proc EXCEPT ![p] = [proc[p] EXCEPT !.stage = s]]
  BY DEF TypeOK
<1> QED BY <1>1, <1>2 DEF TypeOK

\* A save asked for extends the queue, a save that ends shortens it.
LEMMA AskTyped ==
    ASSUME TypeOK, NEW p \in Procs, NEW s \in Settings, Ask(p, s)
    PROVE  /\ queue' \in Seq([by : Procs, content : Settings])
           /\ Len(queue') = Len(queue) + 1
           /\ \A i \in DOMAIN queue : i \in DOMAIN queue' /\ queue'[i] = queue[i]
           /\ \A i \in DOMAIN queue' : i \in DOMAIN queue \/ i = Len(queue')
           /\ queue'[Len(queue')] = [by |-> p, content |-> s]
BY DEF Ask, TypeOK

LEMMA OldestTyped ==
    ASSUME TypeOK, NEW p \in Procs, Oldest(p)
    PROVE  /\ queue' \in Seq([by : Procs, content : Settings])
           /\ queue # <<>> /\ 1 \in DOMAIN queue /\ Head(queue) = queue[1]
           /\ queue[1].by = p /\ Head(queue).content \in Settings
           /\ \A i \in DOMAIN queue' : i + 1 \in DOMAIN queue /\ queue'[i] = queue[i + 1] /\ i + 1 # 1
<1> DEFINE E == [by : Procs, content : Settings]
<1>1. queue \in Seq(E) /\ queue # <<>> /\ queue' = Tail(queue) /\ Head(queue).by = p
  BY DEF Oldest, TypeOK
<1> HIDE DEF E
<1>2. /\ queue' \in Seq(E) /\ 1 \in DOMAIN queue /\ Head(queue) = queue[1] /\ Head(queue) \in E
      /\ \A i \in DOMAIN queue' : i + 1 \in DOMAIN queue /\ queue'[i] = queue[i + 1] /\ i + 1 # 1
  BY <1>1
<1>3. Head(queue).content \in Settings
  BY <1>2 DEF E
<1> QED BY <1>1, <1>2, <1>3 DEF E

LEMMA RestoredTyped ==
    ASSUME TypeOK, NEW s \in Settings
    PROVE  Restored(s) \in Settings
BY DEF Restored, Settings, TypeOK, Kinds, Receipt

LEMMA RolledBackTyped ==
    ASSUME TypeOK, NEW p \in Procs
    PROVE  RolledBack(p) \in Settings
<1>1. /\ live \in Settings /\ proc[p].base \in Settings /\ proc[p].kind \in Kinds
  BY DEF TypeOK, Proc
<1> DEFINE base == proc[p].base
           k == proc[p].kind
<1> HIDE DEF base, k
<1>2. /\ [live EXCEPT !.profiles = base.profiles, !.active = base.active] \in Settings
      /\ [live EXCEPT !.profiles = base.profiles, !.active = live.active] \in Settings
  BY <1>1 DEF Settings, base
<1>3. [live EXCEPT !.receipt[k] = base.receipt[k], !.on[k] = base.on[k]] \in Settings
  BY <1>1 DEF Settings, base, k
<1>4. CASE proc[p].op \in {"create", "remove"} /\ proc[p].gen = gen
  BY <1>1, <1>2, <1>4 DEF RolledBack, base
<1>5. CASE ~(proc[p].op \in {"create", "remove"} /\ proc[p].gen = gen) /\ proc[p].op = "grant"
  BY <1>3, <1>5 DEF RolledBack, base, k
<1>6. CASE ~(proc[p].op \in {"create", "remove"} /\ proc[p].gen = gen) /\ proc[p].op # "grant"
  BY <1>1, <1>6 DEF RolledBack
<1> QED BY <1>4, <1>5, <1>6

LEMMA KeptTyped ==
    ASSUME TypeOK
    PROVE  [live EXCEPT !.secret = FALSE] \in Settings
BY DEF TypeOK, Settings

LEMMA TypeInit == Init => TypeOK
<1> SUFFICES ASSUME Init PROVE TypeOK
  OBVIOUS
<1>1. [Defaults EXCEPT !.secret = TRUE] \in Settings
  BY IdleTyped DEF Settings
<1>2. {live, disk} \subseteq Settings
  BY <1>1, IdleTyped DEF Init
<1>3. queue \in Seq([by : Procs, content : Settings])
  BY DEF Init
<1>4. proc \in [Procs -> Proc]
  BY IdleTyped DEF Init
<1>5. /\ ledger \in [Kinds -> Receipt] /\ root \in [Profiles -> {"absent", "half", "whole"}]
      /\ gen \in Nat /\ store \in BOOLEAN /\ bound \in Profiles /\ up = "loading"
  BY HostAssumption DEF Init, Receipt
<1>6. /\ minted = 0 /\ ops = 0 /\ crashes = 0 /\ ~failed /\ ~cleared /\ ~lost
      /\ {failed, cleared, lost} \subseteq BOOLEAN /\ bundled = {} /\ removed = {} /\ torn = {}
  BY DEF Init
<1>7. minted \in 0 .. MaxReceipts /\ ops \in 0 .. MaxOps /\ crashes \in 0 .. MaxCrashes
  BY <1>6, HostAssumption
<1> QED BY <1>2, <1>3, <1>4, <1>5, <1>6, <1>7 DEF TypeOK

LEMMA TypeStep == TypeOK /\ [Next]_vars => TypeOK'
<1> SUFFICES ASSUME TypeOK, [Next]_vars PROVE TypeOK'
  OBVIOUS
<1> USE IdleTyped, HostAssumption
<1>1. CASE Load
  <2>1. disk \in Settings /\ disk.active \in Profiles
    BY DEF TypeOK, Settings
  <2>2. Restored(disk) \in Settings
    BY <2>1, RestoredTyped
  <2> QED BY <1>1, <2>1, <2>2 DEF Load, TypeOK, ghosts
<1>2. CASE Migrated
  BY <1>2 DEF Migrated, TypeOK, ghosts, Settings
<1>3. CASE Crash
  <2>1. crashes' \in 0 .. MaxCrashes
    BY <1>3 DEF Crash, TypeOK
  <2>2. queue' \in Seq([by : Procs, content : Settings]) /\ proc' \in [Procs -> Proc]
    BY <1>3 DEF Crash
  <2> QED BY <1>3, <2>1, <2>2 DEF Crash, TypeOK
<1>4. ASSUME NEW p \in Procs, NEW k \in Kinds, Toggle(p, k) PROVE TypeOK'
  <2>1. live' \in Settings
    BY <1>4 DEF Toggle, TypeOK, Settings
  <2>2. [Started(p, "edit") EXCEPT !.stage = "save"] \in Proc
    BY StartedTyped DEF Proc, Ops, Stages
  <2> QED BY <1>4, <2>1, <2>2, AskTyped, BeginTyped DEF Toggle, TypeOK, ghosts
<1>5. ASSUME NEW p \in Procs, NEW k \in Kinds, Grant(p, k) PROVE TypeOK'
  <2>1. minted + 1 \in Receipt /\ minted + 1 \in 0 .. MaxReceipts /\ ledger[k] \in Receipt
    BY <1>5 DEF Grant, TypeOK, Receipt, Receipts
  <2>2. live' \in Settings /\ ledger' \in [Kinds -> Receipt]
    BY <1>5, <2>1 DEF Grant, TypeOK, Settings
  <2>3. [Started(p, "grant") EXCEPT !.stage = "save", !.kind = k, !.receipt = ledger[k]] \in Proc
    <3> DEFINE r == Started(p, "grant")
    <3>1. r \in Proc
      BY StartedTyped DEF Ops
    <3> HIDE DEF r
    <3>2. [r EXCEPT !.stage = "save", !.kind = k, !.receipt = ledger[k]] \in Proc
      BY <2>1, <3>1, StageNames DEF Proc
    <3> QED BY <3>2 DEF r
  <2> QED BY <1>5, <2>1, <2>2, <2>3, AskTyped, BeginTyped DEF Grant, TypeOK
<1>6. ASSUME NEW p \in Procs, NEW id \in Profiles, Switch(p, id) PROVE TypeOK'
  <2>1. live' \in Settings
    BY <1>6 DEF Switch, TypeOK, Settings
  <2>2. [Started(p, "switch") EXCEPT !.stage = "save"] \in Proc
    BY StartedTyped DEF Proc, Ops, Stages
  <2> QED BY <1>6, <2>1, <2>2, AskTyped, BeginTyped DEF Switch, TypeOK, ghosts
<1>7. ASSUME NEW p \in Procs, NEW id \in Profiles, NEW b \in BOOLEAN, Remove(p, id, b) PROVE TypeOK'
  <2>1. live' \in Settings
    BY <1>7 DEF Remove, TypeOK, Settings
  <2>2. [Started(p, "remove") EXCEPT !.stage = "save", !.profile = id, !.folders = b] \in Proc
    <3> DEFINE r == Started(p, "remove")
    <3>1. r \in Proc
      BY StartedTyped DEF Ops
    <3> HIDE DEF r
    <3>2. [r EXCEPT !.stage = "save", !.profile = id, !.folders = b] \in Proc
      BY <3>1, StageNames DEF Proc
    <3> QED BY <3>2 DEF r
  <2> QED BY <1>7, <2>1, <2>2, AskTyped, BeginTyped DEF Remove, TypeOK
<1>8. ASSUME NEW p \in Procs, NEW b \in BOOLEAN, ImportSettings(p, b) PROVE TypeOK'
  <2> DEFINE cand == [Defaults EXCEPT !.on = [k \in Kinds |-> k = "mcp" /\ b]]
  <2>1. cand \in Settings
    BY DEF Settings
  <2>2. [Started(p, "import") EXCEPT !.stage = "save", !.cand = cand] \in Proc
    <3> DEFINE r == Started(p, "import")
    <3>1. r \in Proc
      BY StartedTyped DEF Ops
    <3> HIDE DEF r
    <3>2. [r EXCEPT !.stage = "save", !.cand = cand] \in Proc
      BY <2>1, <3>1, StageNames DEF Proc
    <3> QED BY <3>2 DEF r
  <2> QED BY <1>8, <2>1, <2>2, AskTyped, BeginTyped DEF ImportSettings, TypeOK, ghosts
<1>9. ASSUME NEW p \in Procs, NEW b \in BOOLEAN, Reset(p, b) PROVE TypeOK'
  <2>1. ledger' \in [Kinds -> Receipt] /\ live' \in Settings
    BY <1>9 DEF Reset, TypeOK, Receipt
  <2>2. [Started(p, "reset") EXCEPT !.stage = "save"] \in Proc
    BY StartedTyped DEF Proc, Ops, Stages
  <2>3. queue' \in Seq([by : Procs, content : Settings]) /\ proc' \in [Procs -> Proc]
    BY <1>9, <2>1, <2>2, AskTyped DEF Reset, TypeOK
  <2>4. store' \in BOOLEAN /\ cleared' \in BOOLEAN /\ gen' \in Nat /\ ops' \in 0 .. MaxOps
    BY <1>9, BeginTyped DEF Reset, TypeOK
  <2> QED BY <1>9, <2>1, <2>3, <2>4 DEF Reset, TypeOK
<1>10. ASSUME NEW p \in Procs, NEW op \in {"create", "bundle", "install"}, NEW id \in Profiles,
              Prepare(p, op, id)
       PROVE  TypeOK'
  <2>1. /\ [Started(p, op) EXCEPT !.stage = "probe", !.profile = id] \in Proc
        /\ [Started(p, op) EXCEPT !.stage = "load"] \in Proc
    <3> DEFINE r == Started(p, op)
    <3>1. r \in Proc
      BY StartedTyped DEF Ops
    <3> HIDE DEF r
    <3>2. [r EXCEPT !.stage = "probe", !.profile = id] \in Proc /\ [r EXCEPT !.stage = "load"] \in Proc
      BY <3>1, StageNames DEF Proc
    <3> QED BY <3>2 DEF r
  <2>2. proc' \in [Procs -> Proc]
    BY <1>10, <2>1 DEF Prepare, TypeOK
  <2> QED BY <1>10, <2>2, BeginTyped DEF Prepare, TypeOK, ghosts
<1>11. ASSUME NEW p \in Procs, Created(p) PROVE TypeOK'
  <2>1. proc[p] \in Proc
    BY DEF TypeOK
  <2>2. live' \in Settings
    BY <1>11, <2>1 DEF Created, TypeOK, Settings, Proc
  <2>3. proc' \in [Procs -> Proc]
    BY <1>11, <2>1 DEF Created, TypeOK, Proc, Stages
  <2> QED BY <1>11, <2>2, <2>3, AskTyped DEF Created, TypeOK, ghosts
<1>12. ASSUME NEW p \in Procs, Refused(p) PROVE TypeOK'
  BY <1>12 DEF Refused, Ends, TypeOK, ghosts
<1>13. ASSUME NEW p \in Procs, Cleaned(p) PROVE TypeOK'
  BY <1>13 DEF Cleaned, Ends, TypeOK, ghosts
<1>14. ASSUME NEW p \in Procs, Kept(p) PROVE TypeOK'
  <2>1. live' \in Settings /\ cleared' \in BOOLEAN /\ store' \in BOOLEAN
    BY <1>14, KeptTyped DEF Kept, TypeOK
  <2>2. proc' \in [Procs -> Proc]
    <3>1. /\ [proc EXCEPT ![p].stage = "keep"] \in [Procs -> Proc]
          /\ [proc EXCEPT ![p].stage = "save"] \in [Procs -> Proc]
      BY StagedTyped, StageNames
    <3> QED BY <1>14, <3>1 DEF Kept
  <2>3. queue' \in Seq([by : Procs, content : Settings])
    BY <1>14, <2>1, AskTyped DEF Kept, TypeOK
  <2> QED BY <1>14, <2>1, <2>2, <2>3 DEF Kept, TypeOK
<1>15. ASSUME NEW p \in Procs, NEW b \in BOOLEAN, Probed(p, b) PROVE TypeOK'
  <2>1. proc[p] \in Proc /\ proc[p].profile \in Profiles /\ live \in Settings
    BY ProcTyped DEF TypeOK
  <2>3. [live EXCEPT !.profiles = @ \cup {proc[p].profile}] \in Settings
    BY <2>1 DEF Settings
  <2>2. proc' \in [Procs -> Proc]
    BY <1>15, <2>1, <2>3 DEF Probed, TypeOK, Proc, Stages
  <2> QED BY <1>15, <2>3, <2>2, AskTyped DEF Probed, TypeOK, ghosts
<1>16. ASSUME NEW p \in Procs, NEW b \in BOOLEAN, Claimed(p, b) PROVE TypeOK'
  <2>1. proc' \in [Procs -> Proc]
    BY <1>16, ProcTyped, StagedTyped, StageNames DEF Claimed, Ends
  <2> QED BY <1>16, <2>1 DEF Claimed, TypeOK, ghosts
<1>17. ASSUME NEW p \in Procs, NEW b \in BOOLEAN, SkillsWritten(p, b) PROVE TypeOK'
  <2>1. proc[p].cand \in Settings
    BY DEF TypeOK, Proc
  <2>2. proc' \in [Procs -> Proc]
    <3>1. /\ [proc EXCEPT ![p].stage = "cleanup"] \in [Procs -> Proc]
          /\ [proc EXCEPT ![p].stage = "save"] \in [Procs -> Proc]
      BY StagedTyped, StageNames
    <3> QED BY <1>17, <3>1 DEF SkillsWritten
  <2>3. queue' \in Seq([by : Procs, content : Settings])
    BY <1>17, <2>1, AskTyped DEF SkillsWritten, TypeOK
  <2> QED BY <1>17, <2>2, <2>3 DEF SkillsWritten, TypeOK, ghosts
<1>18. ASSUME NEW p \in Procs, NEW b \in BOOLEAN, SaveFails(p, b) PROVE TypeOK'
  <2>1. proc' \in [Procs -> Proc]
    BY <1>18, ProcTyped, StagedTyped, StageNames DEF SaveFails, Ends
  <2>2. ledger' \in [Kinds -> Receipt]
    BY <1>18 DEF SaveFails, TypeOK, Proc
  <2> QED BY <1>18, <2>1, <2>2, OldestTyped, RolledBackTyped DEF SaveFails, TypeOK, ghosts
<1>19. ASSUME NEW p \in Procs, Saved(p) PROVE TypeOK'
  <2>1. proc' \in [Procs -> Proc]
    BY <1>19, ProcTyped, StagedTyped, StageNames DEF Saved, Ends
  <2>2. live.active \in Profiles
    BY DEF TypeOK, Settings
  <2> QED BY <1>19, <2>1, <2>2, OldestTyped DEF Saved, TypeOK, ghosts
<1>20. ASSUME NEW p \in Procs, Published(p) PROVE TypeOK'
  <2>1. proc' \in [Procs -> Proc]
    BY <1>20, ProcTyped, StagedTyped, StageNames DEF Published, Ends
  <2>2. proc[p].cand \in Settings /\ proc[p].cand.active \in Profiles /\ proc[p].profile \in Profiles
    BY DEF TypeOK, Proc, Settings
  <2>3. bound' \in Profiles /\ bundled' \subseteq Profiles /\ {failed', lost'} \subseteq BOOLEAN
    BY <1>20, <2>2 DEF Published, TypeOK
  <2> QED BY <1>20, <2>1, <2>2, <2>3, OldestTyped DEF Published, TypeOK
<1>21. ASSUME NEW p \in Procs, Rebound(p) PROVE TypeOK'
  BY <1>21 DEF Rebound, Ends, TypeOK, ghosts, Settings
<1>22. ASSUME NEW p \in Procs, Trashed(p) PROVE TypeOK'
  BY <1>22 DEF Trashed, Ends, TypeOK, ghosts, Settings
<1>23. CASE UNCHANGED vars
  BY <1>23 DEF vars, TypeOK
<1> QED
  BY <1>1, <1>2, <1>3, <1>4, <1>5, <1>6, <1>7, <1>8, <1>9, <1>10, <1>11, <1>12, <1>13, <1>14,
     <1>15, <1>16, <1>17, <1>18, <1>19, <1>20, <1>21, <1>22, <1>23 DEF Next

-----------------------------------------------------------------------------
(* One operation at a time: what a step of operation p leaves alone.       *)

Act(p) ==
    \/ \E k \in Kinds : Toggle(p, k) \/ Grant(p, k)
    \/ \E id \in Profiles : Switch(p, id) \/ \E b \in BOOLEAN : Remove(p, id, b)
    \/ \E b \in BOOLEAN : ImportSettings(p, b) \/ Reset(p, b)
    \/ \E op \in {"create", "bundle", "install"}, id \in Profiles : Prepare(p, op, id)
    \/ Created(p) \/ Refused(p) \/ Cleaned(p) \/ Kept(p)
    \/ \E b \in BOOLEAN : Probed(p, b) \/ Claimed(p, b) \/ SkillsWritten(p, b) \/ SaveFails(p, b)
    \/ Saved(p) \/ Published(p) \/ Rebound(p) \/ Trashed(p)

\* A step of p: no other operation changes; p asks for no save, asks for its
\* one save, or ends the oldest save, which is its own.
Moves(p) ==
    /\ \A q \in Procs \ {p} : proc'[q] = proc[q]
    /\ \/ proc[p].stage # "save" /\ queue' = queue
       \/ proc[p].stage # "save" /\ proc'[p].stage = "save" /\ \E s \in Settings : Ask(p, s)
       \/ Oldest(p)
    /\ up' = up /\ StageSound(p)'
    /\ \A id \in removed \ removed' :
          \A q \in Procs : proc[q].op = "remove" /\ proc[q].folders => proc[q].profile # id

LEMMA Begun ==
    ASSUME TypeOK, NEW p \in Procs, NEW r \in Proc, proc' = [proc EXCEPT ![p] = r]
    PROVE  proc'[p] = r /\ \A q \in Procs \ {p} : proc'[q] = proc[q]
BY DEF TypeOK

LEMMA IdleSound ==
    ASSUME TypeOK, NEW p \in Procs, Ends(p)
    PROVE  /\ proc'[p] = Idle /\ StageSound(p)'
           /\ \A q \in Procs \ {p} : proc'[q] = proc[q]
<1>1. proc'[p] = Idle /\ \A q \in Procs \ {p} : proc'[q] = proc[q]
  BY DEF TypeOK, Ends
<1> QED BY <1>1 DEF Idle, StageSound

LEMMA Staged ==
    ASSUME TypeOK, NEW p \in Procs, NEW s, proc' = [proc EXCEPT ![p].stage = s]
    PROVE  /\ proc'[p].stage = s /\ \A q \in Procs \ {p} : proc'[q] = proc[q]
           /\ proc'[p].op = proc[p].op /\ proc'[p].folders = proc[p].folders
           /\ proc'[p].profile = proc[p].profile /\ proc'[p].kind = proc[p].kind
           /\ proc'[p].base = proc[p].base /\ proc'[p].cand = proc[p].cand
           /\ proc'[p].gen = proc[p].gen
BY DEF TypeOK, Proc

LEMMA StartedFields ==
    ASSUME TypeOK, NEW p \in Procs, NEW op \in Ops
    PROVE  /\ Started(p, op).op = op /\ Started(p, op).folders = FALSE
           /\ Started(p, op).base = live /\ Started(p, op).cand = Defaults
           /\ Started(p, op).gen = gen
BY DEF Started, Idle

LEMMA ActsMove ==
    ASSUME TypeOK, QueueSound, NEW p \in Procs, StageSound(p), Act(p)
    PROVE  Moves(p) /\ up = "running"
<1> USE IdleTyped
<1>0. up = "running" \/ (queue = <<>> /\ proc[p] = Idle)
  BY DEF QueueSound
<1>1. ASSUME NEW k \in Kinds, Toggle(p, k) PROVE Moves(p)
  <2>1. live' \in Settings /\ Ask(p, live') /\ proc[p].stage = "idle"
    BY <1>1 DEF Toggle, Begin, TypeOK, Settings
  <2>2. proc' = [proc EXCEPT ![p] = [Started(p, "edit") EXCEPT !.stage = "save"]]
    BY <1>1 DEF Toggle
  <2>3. /\ proc'[p] = [Started(p, "edit") EXCEPT !.stage = "save"]
        /\ \A q \in Procs \ {p} : proc'[q] = proc[q]
    BY <2>2 DEF TypeOK
  <2>4. up' = up /\ removed \subseteq removed'
    BY <1>1 DEF Toggle, ghosts
  <2>5. proc'[p].stage = "save" /\ proc'[p].op = "edit" /\ ~proc'[p].folders
    BY <2>3 DEF Started, Idle
  <2>6. StageSound(p)'
    BY <2>1, <2>4, <2>5 DEF StageSound
  <2> QED BY <2>1, <2>3, <2>4, <2>5, <2>6 DEF Moves
<1>2. ASSUME NEW k \in Kinds, Grant(p, k) PROVE Moves(p)
  <2>1. live' \in Settings /\ Ask(p, live') /\ proc[p].stage = "idle"
    <3>1. minted + 1 \in Receipt
      BY <1>2, HostAssumption DEF Grant, TypeOK, Receipt, Receipts
    <3> QED BY <1>2, <3>1 DEF Grant, Begin, TypeOK, Settings
  <2>2. proc' = [proc EXCEPT ![p] =
          [Started(p, "grant") EXCEPT !.stage = "save", !.kind = k, !.receipt = ledger[k]]]
    BY <1>2 DEF Grant
  <2>3. /\ proc'[p] = [Started(p, "grant") EXCEPT !.stage = "save", !.kind = k, !.receipt = ledger[k]]
        /\ \A q \in Procs \ {p} : proc'[q] = proc[q]
    BY <2>2 DEF TypeOK
  <2>4. up' = up /\ removed \subseteq removed'
    BY <1>2 DEF Grant
  <2>5. proc'[p].stage = "save" /\ proc'[p].op = "grant" /\ ~proc'[p].folders
    BY <2>3 DEF Started, Idle
  <2>6. StageSound(p)'
    BY <2>1, <2>4, <2>5 DEF StageSound
  <2> QED BY <2>1, <2>3, <2>4, <2>5, <2>6 DEF Moves
<1>3. ASSUME NEW id \in Profiles, Switch(p, id) PROVE Moves(p)
  <2>1. live' \in Settings /\ Ask(p, live') /\ proc[p].stage = "idle"
    BY <1>3 DEF Switch, Begin, TypeOK, Settings
  <2>2. proc' = [proc EXCEPT ![p] = [Started(p, "switch") EXCEPT !.stage = "save"]]
    BY <1>3 DEF Switch
  <2>3. /\ proc'[p] = [Started(p, "switch") EXCEPT !.stage = "save"]
        /\ \A q \in Procs \ {p} : proc'[q] = proc[q]
    BY <2>2 DEF TypeOK
  <2>4. up' = up /\ removed \subseteq removed'
    BY <1>3 DEF Switch, ghosts
  <2>5. proc'[p].stage = "save" /\ proc'[p].op = "switch" /\ ~proc'[p].folders
    BY <2>3 DEF Started, Idle
  <2>6. StageSound(p)'
    BY <2>1, <2>4, <2>5 DEF StageSound
  <2> QED BY <2>1, <2>3, <2>4, <2>5, <2>6 DEF Moves
<1>4. ASSUME NEW id \in Profiles, NEW b \in BOOLEAN, Remove(p, id, b) PROVE Moves(p)
  <2>1. live' \in Settings /\ Ask(p, live') /\ proc[p].stage = "idle"
    BY <1>4, HostAssumption DEF Remove, Begin, TypeOK, Settings
  <2>2. proc' = [proc EXCEPT ![p] =
          [Started(p, "remove") EXCEPT !.stage = "save", !.profile = id, !.folders = b]]
    BY <1>4 DEF Remove
  <2>3. /\ proc'[p] = [Started(p, "remove") EXCEPT !.stage = "save", !.profile = id, !.folders = b]
        /\ \A q \in Procs \ {p} : proc'[q] = proc[q]
    BY <2>2 DEF TypeOK
  <2>4. up' = up /\ (b => id \in removed') /\ removed \subseteq removed'
    BY <1>4 DEF Remove
  <2>5. proc'[p].stage = "save" /\ proc'[p].op = "remove" /\ proc'[p].profile = id
        /\ proc'[p].folders = b
    BY <2>3 DEF Started, Idle
  <2>6. StageSound(p)'
    BY <2>1, <2>4, <2>5 DEF StageSound
  <2> QED BY <2>1, <2>3, <2>4, <2>5, <2>6 DEF Moves
<1>5. ASSUME NEW b \in BOOLEAN, ImportSettings(p, b) PROVE Moves(p)
  <2> DEFINE cand == [Defaults EXCEPT !.on = [k \in Kinds |-> k = "mcp" /\ b]]
  <2>1. /\ cand \in Settings /\ Ask(p, cand) /\ proc[p].stage = "idle"
        /\ ~cand.on["terminal"] /\ cand.receipt["terminal"] = None /\ ~cand.secret
    BY <1>5 DEF ImportSettings, Begin, Settings, Defaults, Kinds
  <2>2. proc' = [proc EXCEPT ![p] = [Started(p, "import") EXCEPT !.stage = "save", !.cand = cand]]
    BY <1>5 DEF ImportSettings
  <2> HIDE DEF cand
  <2>3. /\ proc'[p] = [Started(p, "import") EXCEPT !.stage = "save", !.cand = cand]
        /\ \A q \in Procs \ {p} : proc'[q] = proc[q]
    BY <2>2 DEF TypeOK
  <2>4. up' = up /\ removed \subseteq removed'
    BY <1>5 DEF ImportSettings, ghosts
  <2>5. proc'[p].stage = "save" /\ proc'[p].op = "import" /\ ~proc'[p].folders /\ proc'[p].cand = cand
    BY <2>3 DEF Started, Idle
  <2>6. StageSound(p)'
    BY <2>1, <2>4, <2>5 DEF StageSound
  <2> QED BY <2>1, <2>3, <2>4, <2>5, <2>6 DEF Moves
<1>6. ASSUME NEW b \in BOOLEAN, Reset(p, b) PROVE Moves(p)
  <2>1. live' \in Settings /\ Ask(p, live') /\ proc[p].stage = "idle"
    BY <1>6 DEF Reset, Begin
  <2>2. proc' = [proc EXCEPT ![p] = [Started(p, "reset") EXCEPT !.stage = "save"]]
    BY <1>6 DEF Reset
  <2>3. /\ proc'[p] = [Started(p, "reset") EXCEPT !.stage = "save"]
        /\ \A q \in Procs \ {p} : proc'[q] = proc[q]
    BY <2>2 DEF TypeOK
  <2>4. up' = up /\ removed \subseteq removed'
    BY <1>6 DEF Reset
  <2>5. proc'[p].stage = "save" /\ proc'[p].op = "reset" /\ ~proc'[p].folders
    BY <2>3 DEF Started, Idle
  <2>6. StageSound(p)'
    BY <2>1, <2>4, <2>5 DEF StageSound
  <2> QED BY <2>1, <2>3, <2>4, <2>5, <2>6 DEF Moves
<1>7. ASSUME NEW op \in {"create", "bundle", "install"}, NEW id \in Profiles, Prepare(p, op, id)
      PROVE  Moves(p)
  <2>1. proc[p].stage = "idle" /\ queue' = queue /\ up' = up /\ removed' = removed
    BY <1>7 DEF Prepare, Begin, ghosts
  <2>2. CASE /\ op \in {"create", "bundle"}
             /\ proc' = [proc EXCEPT ![p] = [Started(p, op) EXCEPT !.stage = "probe", !.profile = id]]
    <3>1. /\ proc'[p] = [Started(p, op) EXCEPT !.stage = "probe", !.profile = id]
          /\ \A q \in Procs \ {p} : proc'[q] = proc[q]
      BY <2>2 DEF TypeOK
    <3> QED BY <2>1, <2>2, <3>1 DEF Moves, StageSound, Started, Idle
  <2>3. CASE /\ op = "install"
             /\ proc' = [proc EXCEPT ![p] = [Started(p, op) EXCEPT !.stage = "load"]]
    <3>1. /\ proc'[p] = [Started(p, op) EXCEPT !.stage = "load"]
          /\ \A q \in Procs \ {p} : proc'[q] = proc[q]
      BY <2>3 DEF TypeOK
    <3> QED BY <2>1, <2>3, <3>1 DEF Moves, StageSound, Started, Idle
  <2> QED BY <1>7, <2>2, <2>3 DEF Prepare
<1>8. ASSUME Created(p) PROVE Moves(p)
  <2>1. live' \in Settings /\ Ask(p, live') /\ proc[p].stage = "probe" /\ proc[p].op = "create"
    BY <1>8, ProcTyped DEF Created, TypeOK, Settings
  <2>2. /\ \A q \in Procs \ {p} : proc'[q] = proc[q]
        /\ proc'[p] = [proc[p] EXCEPT !.stage = "save", !.base = live]
    BY <1>8 DEF Created, TypeOK
  <2>3. proc[p] \in Proc
    BY ProcTyped
  <2>7. up' = up /\ removed' = removed
    BY <1>8 DEF Created, ghosts
  <2>4. proc'[p].stage = "save" /\ up' = up /\ removed' = removed
    BY <2>2, <2>3, <2>7 DEF Proc
  <2>5. ~proc'[p].folders /\ proc'[p].op = "create"
    BY <2>1, <2>2, <2>3 DEF Proc, StageSound
  <2>6. StageSound(p)'
    BY <2>4, <2>5 DEF StageSound
  <2> QED BY <2>1, <2>2, <2>4, <2>6 DEF Moves
<1>9. ASSUME Refused(p) \/ Cleaned(p) \/ Rebound(p) \/ Trashed(p) PROVE Moves(p)
  <2>1. Ends(p) /\ proc[p].stage # "save" /\ queue' = queue /\ up' = up /\ removed' = removed
    BY <1>9 DEF Refused, Cleaned, Rebound, Trashed, ghosts
  <2> QED BY <2>1, IdleSound DEF Moves
<1>10. ASSUME Kept(p) PROVE Moves(p)
  <2>1. /\ up' = up /\ removed' = removed /\ proc[p].op = "install" /\ ~proc[p].folders
        /\ proc[p].stage # "save"
    BY <1>10 DEF Kept, StageSound
  <2>2. CASE proc' = [proc EXCEPT ![p].stage = "keep"] /\ queue' = queue
    <3>1. /\ proc'[p].stage = "keep" /\ proc'[p].op = "install" /\ ~proc'[p].folders
          /\ \A q \in Procs \ {p} : proc'[q] = proc[q]
      BY <2>1, <2>2, Staged
    <3> QED BY <2>1, <2>2, <3>1 DEF Moves, StageSound
  <2>3. CASE live' = [live EXCEPT !.secret = FALSE] /\ proc' = [proc EXCEPT ![p].stage = "save"] /\ Ask(p, live')
    <3>1. /\ proc'[p].stage = "save" /\ proc'[p].op = "install" /\ ~proc'[p].folders
          /\ \A q \in Procs \ {p} : proc'[q] = proc[q]
      BY <2>1, <2>3, Staged
    <3> QED BY <2>1, <2>3, <3>1, KeptTyped DEF Moves, StageSound
  <2> QED BY <1>10, <2>2, <2>3 DEF Kept
<1>11. ASSUME NEW b \in BOOLEAN, Probed(p, b) PROVE Moves(p)
  <2> DEFINE cand == [live EXCEPT !.profiles = @ \cup {proc[p].profile}]
             new  == [proc[p] EXCEPT !.stage = IF b THEN "claim" ELSE "save", !.cand = cand, !.folders = b]
  <2>1. /\ proc[p].op = "bundle" /\ proc[p].base = live /\ proc[p].stage = "probe" /\ proc[p] \in Proc
        /\ up' = up /\ removed' = removed
    BY <1>11, ProcTyped DEF Probed, StillCurrent, ghosts
  <2>2. cand \in Settings
    BY <2>1 DEF TypeOK, Settings, Proc
  <2>3. proc'[p] = new /\ \A q \in Procs \ {p} : proc'[q] = proc[q]
    BY <1>11 DEF Probed, TypeOK
  <2>4. StageSound(p)'
    BY <2>1, <2>3 DEF StageSound, Proc
  <2>6. IF b THEN queue' = queue ELSE Ask(p, cand)
    BY <1>11 DEF Probed
  <2>7. ~b => proc'[p].stage = "save"
    BY <2>1, <2>3 DEF Proc
  <2>5. \/ queue' = queue
        \/ proc'[p].stage = "save" /\ Ask(p, cand)
    BY <2>6, <2>7
  <2> QED BY <2>1, <2>2, <2>3, <2>4, <2>5 DEF Moves
<1>12. ASSUME NEW b \in BOOLEAN, Claimed(p, b) PROVE Moves(p)
  <2>1. /\ proc[p].stage = "claim" /\ queue' = queue /\ up' = up
        /\ \A id \in removed \ removed' :
              \A q \in Procs : proc[q].op = "remove" /\ proc[q].folders => proc[q].profile # id
    BY <1>12 DEF Claimed, Takes
  <2>2. CASE Ends(p)
    BY <2>1, <2>2, IdleSound DEF Moves
  <2>3. CASE proc' = [proc EXCEPT ![p].stage = "skills"]
    BY <2>1, <2>3, Staged DEF Moves, StageSound
  <2> QED BY <1>12, <2>2, <2>3 DEF Claimed
<1>13. ASSUME NEW b \in BOOLEAN, SkillsWritten(p, b) PROVE Moves(p)
  <2>1. proc[p].stage = "skills" /\ up' = up /\ removed' = removed /\ proc[p].cand \in Settings
    BY <1>13, ProcTyped DEF SkillsWritten, ghosts
  <2>2. CASE proc' = [proc EXCEPT ![p].stage = "save"] /\ Ask(p, proc[p].cand)
    <3>1. /\ proc[p].op = "bundle"
          /\ proc[p].cand = [proc[p].base EXCEPT !.profiles = @ \cup {proc[p].profile}]
      BY <2>1 DEF StageSound
    <3>2. /\ proc'[p].stage = "save" /\ \A q \in Procs \ {p} : proc'[q] = proc[q]
          /\ proc'[p].op = "bundle" /\ proc'[p].cand = proc[p].cand
          /\ proc'[p].base = proc[p].base /\ proc'[p].profile = proc[p].profile
      BY <2>2, <3>1, Staged
    <3>3. StageSound(p)'
      BY <3>1, <3>2 DEF StageSound
    <3> QED BY <2>1, <2>2, <3>2, <3>3 DEF Moves
  <2>3. CASE proc' = [proc EXCEPT ![p].stage = "cleanup"] /\ queue' = queue
    <3>1. /\ proc'[p].stage = "cleanup" /\ proc'[p].op = "bundle" /\ proc'[p].folders
          /\ \A q \in Procs \ {p} : proc'[q] = proc[q]
      BY <2>1, <2>3, Staged DEF StageSound
    <3>2. StageSound(p)'
      BY <3>1 DEF StageSound
    <3> QED BY <2>1, <2>3, <3>1, <3>2 DEF Moves
  <2> QED BY <1>13, <2>2, <2>3 DEF SkillsWritten
<1>14. ASSUME NEW b \in BOOLEAN, SaveFails(p, b) PROVE Moves(p)
  <2>1. Oldest(p) /\ up' = up /\ removed' = removed
    BY <1>14 DEF SaveFails, ghosts
  <2>2. CASE Ends(p)
    BY <2>1, <2>2, IdleSound DEF Moves
  <2>3. CASE /\ proc[p].op = "bundle" /\ proc[p].folders
             /\ proc' = [proc EXCEPT ![p].stage = "cleanup"]
    BY <2>1, <2>3, Staged DEF Moves, StageSound
  <2> QED BY <1>14, <2>2, <2>3 DEF SaveFails
<1>15. ASSUME Saved(p) PROVE Moves(p)
  <2>1. Oldest(p) /\ up' = up /\ removed' = removed /\ proc[p].op \notin {"import", "bundle"}
    BY <1>15 DEF Saved, ghosts
  <2>2. CASE Ends(p)
    BY <2>1, <2>2, IdleSound DEF Moves
  <2>3. CASE proc[p].folders /\ proc' = [proc EXCEPT ![p].stage = "trash"]
    <3>1. /\ proc'[p].stage = "trash" /\ proc'[p].op = "remove" /\ proc'[p].folders
          /\ proc'[p].profile \in removed /\ \A q \in Procs \ {p} : proc'[q] = proc[q]
      BY <2>1, <2>3, Staged DEF StageSound
    <3>2. StageSound(p)'
      BY <2>1, <3>1 DEF StageSound
    <3> QED BY <2>1, <3>1, <3>2 DEF Moves
  <2> QED BY <1>15, <2>2, <2>3 DEF Saved
<1>16. ASSUME Published(p) PROVE Moves(p)
  <2>1. Oldest(p) /\ up' = up /\ removed' = removed
    BY <1>16 DEF Published
  <2>2. CASE Ends(p)
    BY <2>1, <2>2, IdleSound DEF Moves
  <2>3. CASE proc[p].op = "import" /\ proc' = [proc EXCEPT ![p].stage = "rebind"]
    BY <2>1, <2>3, Staged DEF Moves, StageSound
  <2> QED BY <1>16, <2>2, <2>3 DEF Published
<1>17. Moves(p)
  BY <1>1, <1>2, <1>3, <1>4, <1>5, <1>6, <1>7, <1>8, <1>9, <1>10, <1>11, <1>12, <1>13, <1>14,
     <1>15, <1>16 DEF Act
<1>18. up = "running"
  <2>1. CASE proc[p] = Idle /\ queue = <<>>
    <3>1. proc[p].stage = "idle"
      BY <2>1 DEF Idle
    <3> QED BY <2>1, <3>1 DEF Act, Toggle, Grant, Switch, Remove, ImportSettings, Reset, Prepare, Begin, Created,
     Refused, Cleaned, Kept, Probed, Claimed, SkillsWritten, SaveFails, Saved, Published, Oldest,
     Rebound, Trashed
  <2> QED BY <1>0, <2>1
<1> QED BY <1>17, <1>18

-----------------------------------------------------------------------------
(* The saves wait one per operation, and the records keep their shape.     *)

Sound == QueueSound /\ \A p \in Procs : StageSound(p)

LEMMA SoundInit == Init => Sound
BY DEF Init, Sound, QueueSound, StageSound, Idle

\* The steps of no operation leave the queue and the operations empty.
LEMMA SoundAlone ==
    ASSUME TypeOK, Sound, Load \/ Migrated \/ Crash
    PROVE  Sound'
<1>1. /\ queue' = <<>> /\ proc' = [p \in Procs |-> Idle]
  BY DEF Load, Migrated, Crash, Sound, QueueSound
<1> QED BY <1>1 DEF Sound, QueueSound, StageSound, Idle

LEMMA SoundMove ==
    ASSUME TypeOK, Sound, NEW p \in Procs, Moves(p), up = "running"
    PROVE  Sound'
<1>1. ASSUME NEW q \in Procs PROVE StageSound(q)'
  <2>1. CASE q = p
    BY <2>1 DEF Moves
  <2>2. CASE q # p
    BY <2>2 DEF Moves, Sound, StageSound
  <2> QED BY <2>1, <2>2
<1>2. \A q \in Procs \ {p} : proc'[q] = proc[q]
  BY DEF Moves
<1>3. /\ \A i \in DOMAIN queue : queue[i].by \in Procs /\ proc[queue[i].by].stage = "save"
      /\ \A i, j \in DOMAIN queue : queue[i].by = queue[j].by => i = j
  <2> DEFINE E == [by : Procs, content : Settings]
  <2>1. queue \in Seq(E)
    BY DEF TypeOK
  <2> HIDE DEF E
  <2>2. \A i \in DOMAIN queue : queue[i] \in E
    BY <2>1
  <2>3. \A i \in DOMAIN queue : queue[i].by \in Procs
    BY <2>2 DEF E
  <2> QED BY <2>3 DEF Sound, QueueSound
<1>4. /\ \A i \in DOMAIN queue' : proc'[queue'[i].by].stage = "save"
      /\ \A i, j \in DOMAIN queue' : queue'[i].by = queue'[j].by => i = j
  <2>1. CASE proc[p].stage # "save" /\ queue' = queue
    <3>1. \A i \in DOMAIN queue : queue[i].by # p
      BY <1>3, <2>1
    <3> QED BY <1>2, <1>3, <2>1, <3>1
  <2>2. CASE proc[p].stage # "save" /\ proc'[p].stage = "save" /\ \E s \in Settings : Ask(p, s)
    <3>1. \A i \in DOMAIN queue : queue[i].by # p
      BY <1>3, <2>2
    <3>2. PICK s \in Settings : Ask(p, s)
      BY <2>2
    <3>3. /\ \A i \in DOMAIN queue' : i # Len(queue') => i \in DOMAIN queue /\ queue'[i] = queue[i]
          /\ queue'[Len(queue')].by = p
      <4>1. /\ \A i \in DOMAIN queue : queue'[i] = queue[i]
            /\ \A i \in DOMAIN queue' : i \in DOMAIN queue \/ i = Len(queue')
            /\ queue'[Len(queue')] = [by |-> p, content |-> s]
        BY <3>2, AskTyped
      <4> QED BY <4>1
    <3> QED BY <1>2, <1>3, <2>2, <3>1, <3>3
  <2>3. CASE Oldest(p)
    <3>1. /\ 1 \in DOMAIN queue /\ queue[1].by = p
          /\ \A i \in DOMAIN queue' : i + 1 \in DOMAIN queue /\ queue'[i] = queue[i + 1] /\ i + 1 # 1
      BY <2>3, OldestTyped
    <3>2. \A i \in DOMAIN queue' : queue'[i].by # p /\ queue'[i].by \in Procs
      BY <1>3, <3>1
    <3>3. \A i, j \in DOMAIN queue' : i + 1 = j + 1 => i = j
      BY <2>3, OldestTyped
    <3>4. \A i, j \in DOMAIN queue' : queue'[i].by = queue'[j].by => i = j
      BY <1>3, <3>1, <3>3
    <3> QED BY <1>2, <1>3, <3>1, <3>2, <3>4
  <2> QED BY <2>1, <2>2, <2>3 DEF Moves
<1>5. up' = "running"
  BY DEF Moves
<1> QED BY <1>1, <1>4, <1>5 DEF Sound, QueueSound

LEMMA SoundStep == TypeOK /\ Sound /\ [Next]_vars => Sound'
<1> SUFFICES ASSUME TypeOK, Sound, [Next]_vars PROVE Sound'
  OBVIOUS
<1>1. ASSUME NEW p \in Procs, Act(p) PROVE Sound'
  BY <1>1, ActsMove, SoundMove DEF Sound
<1>2. CASE UNCHANGED vars
  BY <1>2 DEF vars, Sound, QueueSound, StageSound
<1> QED BY <1>1, <1>2, SoundAlone DEF Next, Act

-----------------------------------------------------------------------------
(* The terminal's consent.                                                 *)

LEMMA ConsentInit == Init => ConsentSound
BY DEF Init, ConsentSound, Consented, GrantSound, Idle, Defaults, Kinds

LEMMA ConsentAlone ==
    ASSUME TypeOK, Sound, ConsentSound, Load \/ Migrated \/ Crash
    PROVE  ConsentSound'
<1> USE DEF ConsentSound, Consented, GrantSound
<1>1. CASE Load
  <2>1. /\ live'.receipt["terminal"] # None => live'.receipt["terminal"] = ledger["terminal"]
        /\ live'.on["terminal"] => live'.receipt["terminal"] # None
    BY <1>1 DEF Load, Restored, TypeOK, Settings, Kinds
  <2> QED BY <1>1, <2>1 DEF Load, ghosts
<1>2. CASE Migrated
  <2>1. live'.on = live.on /\ live'.receipt = live.receipt
    BY <1>2 DEF Migrated, TypeOK, Settings
  <2> QED BY <1>2, <2>1 DEF Migrated, ghosts
<1>3. CASE Crash
  <2>1. ~live'.on["terminal"] /\ live'.receipt["terminal"] = None /\ \A p \in Procs : proc'[p].op # "grant"
    BY <1>3 DEF Crash, Defaults, Kinds, Idle
  <2> QED BY <1>3, <2>1 DEF Crash
<1> QED BY <1>1, <1>2, <1>3

\* A step that touches no consent.
LEMMA ConsentKept ==
    ASSUME ConsentSound, NEW p \in Procs, \A q \in Procs \ {p} : proc'[q] = proc[q],
           lost' = lost, ledger' = ledger, live'.on = live.on, live'.receipt = live.receipt,
           proc'[p].op = "grant" =>
               /\ proc[p].op = "grant" /\ proc'[p].kind = proc[p].kind
               /\ proc'[p].base = proc[p].base
    PROVE  ConsentSound'
<1>1. ASSUME NEW q \in Procs, GrantSound(q) PROVE GrantSound(q)'
  BY <1>1 DEF GrantSound
<1> QED BY <1>1 DEF ConsentSound, Consented

\* A step that puts the terminal's consent in order, and leaves lost unset only
\* if it was.
LEMMA ConsentSet ==
    ASSUME ConsentSound, NEW p \in Procs, \A q \in Procs \ {p} : proc'[q] = proc[q],
           ~lost' => ~lost, ~lost' => Consented', ~lost' => GrantSound(p)'
    PROVE  ConsentSound'
<1>1. ASSUME NEW q \in Procs, GrantSound(q), ~lost' PROVE GrantSound(q)'
  BY <1>1 DEF GrantSound
<1> QED BY <1>1 DEF ConsentSound

LEMMA ConsentStep ==
    ASSUME TypeOK, Sound, ConsentSound, NEW p \in Procs, Act(p)
    PROVE  ConsentSound'
<1>0. /\ \A q \in Procs \ {p} : proc'[q] = proc[q]
      /\ StageSound(p)
  BY ActsMove DEF Moves, Sound
<1>t. /\ live \in Settings /\ live.on \in [Kinds -> BOOLEAN] /\ live.receipt \in [Kinds -> Receipt]
      /\ "terminal" \in Kinds /\ "mcp" \in Kinds /\ ledger \in [Kinds -> Receipt]
  BY DEF TypeOK, Settings, Kinds
<1>i. Idle.op = "none"
  BY DEF Idle
<1>1. ASSUME NEW k \in Kinds, Toggle(p, k) PROVE ConsentSound'
  <2>1. live' = [live EXCEPT !.on[k] = ~@] /\ (live.on[k] \/ live.receipt[k] # None)
        /\ ledger' = ledger /\ lost' = lost
    BY <1>1 DEF Toggle, ghosts
  <2>2. live'.receipt = live.receipt /\ live'.on = [live.on EXCEPT ![k] = ~@]
    BY <1>t, <2>1 DEF Settings
  <2>3. proc'[p].op = "edit"
    BY <1>1 DEF Toggle, TypeOK, Started, Idle
  <2>4. ~lost' => ~lost /\ Consented' /\ GrantSound(p)'
    BY <1>t, <2>1, <2>2, <2>3 DEF ConsentSound, Consented, GrantSound
  <2> QED BY <1>0, <2>4, ConsentSet
<1>2. ASSUME NEW k \in Kinds, Grant(p, k) PROVE ConsentSound'
  <2>1. /\ live' = [live EXCEPT !.receipt[k] = minted + 1, !.on[k] = TRUE] /\ live.receipt[k] = None
        /\ ledger' = [ledger EXCEPT ![k] = minted + 1] /\ lost' = lost
        /\ minted + 1 # None
    BY <1>2, HostAssumption DEF Grant, TypeOK
  <2>2. /\ live'.receipt = [live.receipt EXCEPT ![k] = minted + 1]
        /\ live'.on = [live.on EXCEPT ![k] = TRUE]
    BY <1>t, <2>1 DEF Settings
  <2>3. /\ proc'[p].kind = k /\ proc'[p].base = live
    BY <1>2 DEF Grant, TypeOK, Started, Idle
  <2>4. ~lost' => ~lost /\ Consented' /\ GrantSound(p)'
    BY <1>t, <2>1, <2>2, <2>3 DEF ConsentSound, Consented, GrantSound
  <2> QED BY <1>0, <2>4, ConsentSet
<1>3. ASSUME NEW id \in Profiles, Switch(p, id) PROVE ConsentSound'
  <2>1. live'.on = live.on /\ live'.receipt = live.receipt /\ ledger' = ledger /\ lost' = lost
    BY <1>3, <1>t DEF Switch, Settings, ghosts
  <2>2. proc'[p].op = "switch"
    BY <1>3 DEF Switch, TypeOK, Started, Idle
  <2> QED BY <1>0, <2>1, <2>2, ConsentKept
<1>4. ASSUME NEW id \in Profiles, NEW b \in BOOLEAN, Remove(p, id, b) PROVE ConsentSound'
  <2>1. live'.on = live.on /\ live'.receipt = live.receipt /\ ledger' = ledger /\ lost' = lost
    BY <1>4, <1>t DEF Remove, Settings
  <2>2. proc'[p].op = "remove"
    BY <1>4 DEF Remove, TypeOK, Started, Idle
  <2> QED BY <1>0, <2>1, <2>2, ConsentKept
<1>5. ASSUME NEW b \in BOOLEAN, ImportSettings(p, b) PROVE ConsentSound'
  <2>1. live' = live /\ ledger' = ledger /\ lost' = lost
    BY <1>5 DEF ImportSettings, ghosts
  <2>2. proc'[p].op = "import"
    BY <1>5 DEF ImportSettings, TypeOK, Started, Idle
  <2> QED BY <1>0, <2>1, <2>2, ConsentKept
<1>6. ASSUME NEW b \in BOOLEAN, Reset(p, b) PROVE ConsentSound'
  <2>1. ~live'.on["terminal"] /\ live'.receipt["terminal"] = None /\ lost' = lost
    BY <1>6, <1>t DEF Reset, Defaults
  <2>2. proc'[p].op = "reset"
    BY <1>6 DEF Reset, TypeOK, Started, Idle
  <2> QED BY <1>0, <2>1, <2>2, ConsentSet DEF Consented, GrantSound
<1>7. ASSUME NEW op \in {"create", "bundle", "install"}, NEW id \in Profiles, Prepare(p, op, id)
      PROVE  ConsentSound'
  <2>1. live' = live /\ ledger' = ledger /\ lost' = lost
    BY <1>7 DEF Prepare, ghosts
  <2>2. proc'[p].op # "grant"
    BY <1>7 DEF Prepare, TypeOK, Started, Idle
  <2> QED BY <1>0, <2>1, <2>2, ConsentKept
<1>8. ASSUME Created(p) PROVE ConsentSound'
  <2>1. live'.on = live.on /\ live'.receipt = live.receipt /\ ledger' = ledger /\ lost' = lost
    BY <1>8, <1>t DEF Created, Settings, ghosts
  <2>2. proc'[p] = [proc[p] EXCEPT !.stage = "save", !.base = live] /\ proc[p].op = "create"
    BY <1>8 DEF Created, TypeOK
  <2>3. proc'[p].op = "create"
    BY <2>2, ProcTyped DEF Proc
  <2> QED BY <1>0, <2>1, <2>3, ConsentKept
<1>9. ASSUME Refused(p) \/ Cleaned(p) \/ Rebound(p) \/ Trashed(p) PROVE ConsentSound'
  <2>1. Ends(p) /\ live' = live /\ ledger' = ledger /\ lost' = lost
    BY <1>9 DEF Refused, Cleaned, Rebound, Trashed, ghosts
  <2> QED BY <1>0, <1>i, <2>1, IdleSound, ConsentKept
<1>10. ASSUME Kept(p) PROVE ConsentSound'
  <2>1. live'.on = live.on /\ live'.receipt = live.receipt /\ ledger' = ledger /\ lost' = lost
    BY <1>10, <1>t DEF Kept, Settings
  <2>2. \E s \in Stages : proc' = [proc EXCEPT ![p].stage = s]
    BY <1>10, StageNames DEF Kept
  <2> QED BY <1>0, <2>1, <2>2, Staged, ConsentKept
<1>11. ASSUME NEW b \in BOOLEAN, Probed(p, b) PROVE ConsentSound'
  <2>1. live' = live /\ ledger' = ledger /\ lost' = lost /\ proc[p].op = "bundle"
    BY <1>11 DEF Probed, ghosts
  <2>2. proc'[p].op = "bundle"
    BY <1>11 DEF Probed, TypeOK, Proc
  <2> QED BY <1>0, <2>1, <2>2, ConsentKept
<1>12. ASSUME NEW b \in BOOLEAN, Claimed(p, b) \/ SkillsWritten(p, b) PROVE ConsentSound'
  <2>1. live' = live /\ ledger' = ledger /\ lost' = lost
    BY <1>12 DEF Claimed, SkillsWritten, ghosts
  <2>2. Ends(p) \/ \E s \in Stages : proc' = [proc EXCEPT ![p].stage = s]
    BY <1>12, StageNames DEF Claimed, SkillsWritten
  <2> QED BY <1>0, <1>i, <2>1, <2>2, IdleSound, Staged, ConsentKept
<1>13. ASSUME NEW b \in BOOLEAN, SaveFails(p, b) PROVE ConsentSound'
  <2>1. live' = RolledBack(p) /\ lost' = lost
    BY <1>13 DEF SaveFails, ghosts
  <2>2. proc'[p].op # "grant"
    <3>1. Ends(p) \/ (proc[p].op = "bundle" /\ proc' = [proc EXCEPT ![p].stage = "cleanup"])
      <4>1. IF proc[p].op = "bundle" /\ proc[p].folders
            THEN proc' = [proc EXCEPT ![p].stage = "cleanup"] ELSE Ends(p)
        BY <1>13 DEF SaveFails
      <4> QED BY <4>1
    <3> QED BY <1>i, <3>1, IdleSound, Staged
  <2>3. CASE proc[p].op # "grant"
    <3>1. ledger' = ledger
      BY <1>13, <2>3 DEF SaveFails
    <3>2. live'.on = live.on /\ live'.receipt = live.receipt
      BY <1>t, <2>1, <2>3 DEF RolledBack, Settings
    <3> QED BY <1>0, <2>1, <2>2, <3>1, <3>2, ConsentKept
  <2>4. CASE proc[p].op = "grant" /\ proc[p].kind # "terminal"
    <3> DEFINE base == proc[p].base
               k == proc[p].kind
    <3>1. k \in Kinds /\ ledger'["terminal"] = ledger["terminal"]
      BY <1>13, <1>t, <2>4, ProcTyped DEF SaveFails
    <3>2. live' = [live EXCEPT !.receipt[k] = base.receipt[k], !.on[k] = base.on[k]]
      BY <2>1, <2>4 DEF RolledBack
    <3>3. /\ live'.on["terminal"] = live.on["terminal"]
          /\ live'.receipt["terminal"] = live.receipt["terminal"]
      BY <1>t, <2>4, <3>1, <3>2 DEF Settings
    <3>4. ~lost' => ~lost /\ Consented' /\ GrantSound(p)'
      BY <2>1, <2>2, <3>1, <3>3 DEF ConsentSound, Consented, GrantSound
    <3> QED BY <1>0, <3>4, ConsentSet
  <2>5. CASE proc[p].op = "grant" /\ proc[p].kind = "terminal"
    <3> DEFINE base == proc[p].base
    <3>1. ~lost => ~base.on["terminal"] /\ base.receipt["terminal"] = None
      BY <2>5 DEF ConsentSound, GrantSound
    <3>2. live' = [live EXCEPT !.receipt["terminal"] = base.receipt["terminal"],
                               !.on["terminal"] = base.on["terminal"]]
      BY <2>1, <2>5 DEF RolledBack
    <3>3. /\ live'.on["terminal"] = base.on["terminal"]
          /\ live'.receipt["terminal"] = base.receipt["terminal"]
      BY <1>t, <3>2 DEF Settings
    <3>4. ~lost' => ~lost /\ Consented' /\ GrantSound(p)'
      BY <2>1, <2>2, <3>1, <3>3 DEF Consented, GrantSound
    <3> QED BY <1>0, <3>4, ConsentSet
  <2> QED BY <2>3, <2>4, <2>5
<1>14. ASSUME Saved(p) PROVE ConsentSound'
  <2>1. live' = live /\ ledger' = ledger /\ lost' = lost
    BY <1>14 DEF Saved, ghosts
  <2>2. Ends(p) \/ \E s \in Stages : proc' = [proc EXCEPT ![p].stage = s]
    BY <1>14, StageNames DEF Saved
  <2> QED BY <1>0, <1>i, <2>1, <2>2, IdleSound, Staged, ConsentKept
<1>15. ASSUME Published(p) PROVE ConsentSound'
  <2>1. live' = proc[p].cand /\ ledger' = ledger
    BY <1>15 DEF Published
  <2>2. proc[p].stage = "save"
    <3>1. 1 \in DOMAIN queue /\ queue[1].by = p
      BY <1>15, OldestTyped DEF Published
    <3> QED BY <3>1 DEF Sound, QueueSound
  <2>3. CASE proc[p].op = "import"
    <3>1. ~live'.on["terminal"] /\ live'.receipt["terminal"] = None
      BY <1>0, <2>1, <2>3 DEF StageSound
    <3>2. lost' = lost /\ proc'[p].op = "import"
      BY <1>15, <2>3, Staged DEF Published
    <3> QED BY <1>0, <3>1, <3>2, ConsentSet DEF Consented, GrantSound
  <2>4. CASE proc[p].op = "bundle"
    <3>1. Ends(p) /\ lost' = (lost \/ ~StillCurrent(p))
      BY <1>15, <2>4 DEF Published
    <3>2. proc[p].cand = [proc[p].base EXCEPT !.profiles = @ \cup {proc[p].profile}]
      BY <1>0, <2>2, <2>4 DEF StageSound
    <3>3. ~lost' => proc[p].base = live
      BY <3>1 DEF StillCurrent
    <3>4. ~lost' => live'.on = live.on /\ live'.receipt = live.receipt
      BY <1>t, <2>1, <3>2, <3>3 DEF Settings
    <3>5. proc'[p].op = "none"
      BY <1>i, <3>1, IdleSound
    <3>6. ~lost' => ~lost /\ Consented' /\ GrantSound(p)'
      BY <2>1, <3>1, <3>4, <3>5 DEF ConsentSound, Consented, GrantSound
    <3> QED BY <1>0, <3>6, ConsentSet
  <2> QED BY <1>15, <2>3, <2>4 DEF Published
<1> QED
  BY <1>1, <1>2, <1>3, <1>4, <1>5, <1>6, <1>7, <1>8, <1>9, <1>10, <1>11, <1>12, <1>13, <1>14,
     <1>15 DEF Act

-----------------------------------------------------------------------------
(* The secret.                                                             *)

LEMMA SecretInit == Init => SecretSound
BY DEF Init, SecretSound

LEMMA SecretAlone ==
    ASSUME TypeOK, Sound, SecretSound, Load \/ Migrated \/ Crash
    PROVE  SecretSound'
<1>1. CASE Load
  <2>1. /\ queue' = <<>> /\ queue = <<>> /\ proc' = proc /\ proc = [p \in Procs |-> Idle]
        /\ disk' = disk /\ live'.secret = disk.secret
    BY <1>1 DEF Load, Restored, Sound, QueueSound, TypeOK, Settings
  <2>2. \A p \in Procs : ~proc'[p].cand.secret
    BY <2>1 DEF Idle, Defaults
  <2>3. CASE disk.secret /\ ~store
    BY <1>1, <2>3 DEF Load, SecretSound
  <2>4. CASE ~(disk.secret /\ ~store)
    <3>1. up' = "running" /\ store' = store
      BY <1>1, <2>4 DEF Load
    <3>2. ~store => NoSecret'
      BY <2>1, <2>2, <2>4 DEF NoSecret
    <3> QED BY <3>1, <3>2 DEF SecretSound
  <2> QED BY <2>3, <2>4
<1>2. CASE Migrated
  BY <1>2 DEF Migrated, SecretSound
<1>3. CASE Crash
  BY <1>3 DEF Crash, SecretSound
<1> QED BY <1>1, <1>2, <1>3

LEMMA SecretQueue ==
    ASSUME TypeOK, NEW p \in Procs, NoSecret,
           queue' = queue \/ Oldest(p) \/ \E s \in Settings : Ask(p, s) /\ ~s.secret
    PROVE  \A i \in DOMAIN queue' : ~queue'[i].content.secret
<1>1. CASE queue' = queue
  BY <1>1 DEF NoSecret
<1>2. CASE Oldest(p)
  BY <1>2, OldestTyped DEF NoSecret
<1>3. CASE \E s \in Settings : Ask(p, s) /\ ~s.secret
  <2>1. PICK s \in Settings : Ask(p, s) /\ ~s.secret
    BY <1>3
  <2>2. /\ \A i \in DOMAIN queue : queue'[i] = queue[i]
        /\ \A i \in DOMAIN queue' : i \in DOMAIN queue \/ i = Len(queue')
        /\ queue'[Len(queue')] = [by |-> p, content |-> s]
    BY <2>1, AskTyped
  <2> QED BY <2>1, <2>2 DEF NoSecret
<1> QED BY <1>1, <1>2, <1>3

\* A step of an operation, while the secret is nowhere.
LEMMA SecretStays ==
    ASSUME TypeOK, NEW p \in Procs, \A q \in Procs \ {p} : proc'[q] = proc[q], NoSecret,
           queue' = queue \/ Oldest(p) \/ \E s \in Settings : Ask(p, s) /\ ~s.secret,
           ~live'.secret, ~disk'.secret, ~proc'[p].cand.secret
    PROVE  NoSecret'
<1>1. \A i \in DOMAIN queue' : ~queue'[i].content.secret
  BY SecretQueue
<1>2. \A q \in Procs : ~proc'[q].cand.secret
  BY DEF NoSecret
<1> QED BY <1>1, <1>2 DEF NoSecret

LEMMA SecretStep ==
    ASSUME TypeOK, Sound, SecretSound, NEW p \in Procs, Act(p)
    PROVE  SecretSound'
<1>0. /\ \A q \in Procs \ {p} : proc'[q] = proc[q]
      /\ StageSound(p) /\ up = "running" /\ up' = "running"
  BY ActsMove DEF Moves, Sound
<1>t. live \in Settings /\ proc[p] \in Proc
  BY ProcTyped DEF TypeOK
<1>i. ~Idle.cand.secret /\ ~Defaults.secret
  BY DEF Idle, Defaults
<1>s. SUFFICES ASSUME ~store', ~cleared' PROVE NoSecret'
  BY <1>0 DEF SecretSound
<1>n. ASSUME store' = store, cleared' = cleared PROVE NoSecret
  BY <1>0, <1>s, <1>n DEF SecretSound
<1>r. /\ NoSecret => ~live.secret /\ ~disk.secret /\ ~proc[p].cand.secret
      /\ NoSecret /\ Oldest(p) => ~Head(queue).content.secret
  BY OldestTyped DEF NoSecret
<1>1. ASSUME NEW k \in Kinds, Toggle(p, k) PROVE NoSecret'
  <2>1. store' = store /\ cleared' = cleared /\ disk' = disk
    BY <1>1 DEF Toggle, ghosts
  <2>2. live' \in Settings /\ live'.secret = live.secret /\ Ask(p, live')
    BY <1>1, <1>t DEF Toggle, Settings
  <2>3. proc'[p].cand = Defaults
    BY <1>1 DEF Toggle, TypeOK, Started, Idle
  <2> QED BY <1>0, <1>i, <1>n, <1>r, <2>1, <2>2, <2>3, SecretStays
<1>2. ASSUME NEW k \in Kinds, Grant(p, k) PROVE NoSecret'
  <2>1. store' = store /\ cleared' = cleared /\ disk' = disk /\ minted + 1 \in Receipt
    BY <1>2, HostAssumption DEF Grant, TypeOK, Receipt, Receipts
  <2>2. live' \in Settings /\ live'.secret = live.secret /\ Ask(p, live')
    BY <1>2, <1>t, <2>1 DEF Grant, Settings
  <2>3. proc'[p].cand = Defaults
    BY <1>2 DEF Grant, TypeOK, Started, Idle
  <2> QED BY <1>0, <1>i, <1>n, <1>r, <2>1, <2>2, <2>3, SecretStays
<1>3. ASSUME NEW id \in Profiles, Switch(p, id) PROVE NoSecret'
  <2>1. store' = store /\ cleared' = cleared /\ disk' = disk
    BY <1>3 DEF Switch, ghosts
  <2>2. live' \in Settings /\ live'.secret = live.secret /\ Ask(p, live')
    BY <1>3, <1>t DEF Switch, Settings
  <2>3. proc'[p].cand = Defaults
    BY <1>3 DEF Switch, TypeOK, Started, Idle
  <2> QED BY <1>0, <1>i, <1>n, <1>r, <2>1, <2>2, <2>3, SecretStays
<1>4. ASSUME NEW id \in Profiles, NEW b \in BOOLEAN, Remove(p, id, b) PROVE NoSecret'
  <2>1. store' = store /\ cleared' = cleared /\ disk' = disk
    BY <1>4 DEF Remove
  <2>2. live' \in Settings /\ live'.secret = live.secret /\ Ask(p, live')
    BY <1>4, <1>t, HostAssumption DEF Remove, Settings
  <2>3. proc'[p].cand = Defaults
    BY <1>4 DEF Remove, TypeOK, Started, Idle
  <2> QED BY <1>0, <1>i, <1>n, <1>r, <2>1, <2>2, <2>3, SecretStays
<1>5. ASSUME NEW b \in BOOLEAN, ImportSettings(p, b) PROVE NoSecret'
  <2> DEFINE cand == [Defaults EXCEPT !.on = [k \in Kinds |-> k = "mcp" /\ b]]
  <2>1. store' = store /\ cleared' = cleared /\ disk' = disk /\ live' = live
    BY <1>5 DEF ImportSettings, ghosts
  <2>2. cand \in Settings /\ ~cand.secret /\ Ask(p, cand)
    BY <1>5, IdleTyped DEF ImportSettings, Settings, Defaults
  <2>3. proc'[p].cand = cand
    BY <1>5 DEF ImportSettings, TypeOK, Started, Idle
  <2> QED BY <1>0, <1>n, <1>r, <2>1, <2>2, <2>3, SecretStays
<1>6. ASSUME NEW b \in BOOLEAN, Reset(p, b) PROVE NoSecret'
  <2>1. store' = store /\ cleared' = cleared /\ disk' = disk
    BY <1>6, <1>s DEF Reset, TypeOK
  <2>2. live' = Defaults /\ Ask(p, Defaults)
    BY <1>6 DEF Reset
  <2>3. proc'[p].cand = Defaults
    BY <1>6 DEF Reset, TypeOK, Started, Idle
  <2> QED BY <1>0, <1>i, <1>n, <1>r, <2>1, <2>2, <2>3, IdleTyped, SecretStays
<1>7. ASSUME NEW op \in {"create", "bundle", "install"}, NEW id \in Profiles, Prepare(p, op, id)
      PROVE  NoSecret'
  <2>1. store' = store /\ cleared' = cleared /\ disk' = disk /\ live' = live /\ queue' = queue
    BY <1>7 DEF Prepare, ghosts
  <2>2. proc'[p].cand = Defaults
    BY <1>7 DEF Prepare, TypeOK, Started, Idle
  <2> QED BY <1>0, <1>i, <1>n, <1>r, <2>1, <2>2, SecretStays
<1>8. ASSUME Created(p) PROVE NoSecret'
  <2>1. store' = store /\ cleared' = cleared /\ disk' = disk
    BY <1>8 DEF Created, ghosts
  <2>2. live' \in Settings /\ live'.secret = live.secret /\ Ask(p, live')
    BY <1>8, <1>t, ProcTyped DEF Created, Settings
  <2>3. proc'[p].cand = proc[p].cand
    BY <1>8, <1>t DEF Created, TypeOK, Proc
  <2> QED BY <1>0, <1>n, <1>r, <2>1, <2>2, <2>3, SecretStays
<1>9. ASSUME Refused(p) \/ Cleaned(p) \/ Rebound(p) \/ Trashed(p) PROVE NoSecret'
  <2>1. /\ Ends(p) /\ live' = live /\ store' = store /\ cleared' = cleared /\ disk' = disk
        /\ queue' = queue
    BY <1>9 DEF Refused, Cleaned, Rebound, Trashed, ghosts
  <2> QED BY <1>0, <1>i, <1>n, <1>r, <2>1, IdleSound, SecretStays
<1>10. ASSUME Kept(p) PROVE NoSecret'
  <2>1. /\ proc' = [proc EXCEPT ![p].stage = "keep"] /\ live' = live /\ store' = store
        /\ cleared' = cleared /\ disk' = disk /\ queue' = queue
    BY <1>10, <1>s DEF Kept
  <2>2. proc'[p].cand = proc[p].cand
    BY <2>1, Staged
  <2> QED BY <1>0, <1>n, <1>r, <2>1, <2>2, SecretStays
<1>11. ASSUME NEW b \in BOOLEAN, Probed(p, b) PROVE NoSecret'
  <2> DEFINE cand == [live EXCEPT !.profiles = @ \cup {proc[p].profile}]
  <2>1. store' = store /\ cleared' = cleared /\ disk' = disk /\ live' = live
    BY <1>11 DEF Probed, ghosts
  <2>2. cand \in Settings /\ cand.secret = live.secret
    BY <1>t, ProcTyped DEF Settings
  <2>3. proc'[p].cand = cand
    BY <1>11, <1>t DEF Probed, TypeOK, Proc
  <2>4. queue' = queue \/ Ask(p, cand)
    BY <1>11 DEF Probed
  <2> QED BY <1>0, <1>n, <1>r, <2>1, <2>2, <2>3, <2>4, SecretStays
<1>12. ASSUME NEW b \in BOOLEAN, Claimed(p, b) \/ SkillsWritten(p, b) PROVE NoSecret'
  <2>1. store' = store /\ cleared' = cleared /\ disk' = disk /\ live' = live
    BY <1>12 DEF Claimed, SkillsWritten, ghosts
  <2>2. Ends(p) \/ \E s \in Stages : proc' = [proc EXCEPT ![p].stage = s]
    BY <1>12, StageNames DEF Claimed, SkillsWritten
  <2>3. proc'[p].cand \in {Idle.cand, proc[p].cand}
    BY <2>2, IdleSound, Staged
  <2>4. queue' = queue \/ Ask(p, proc[p].cand)
    BY <1>12 DEF Claimed, SkillsWritten
  <2> QED BY <1>0, <1>i, <1>n, <1>r, <2>1, <2>3, <2>4, ProcTyped, SecretStays
<1>13. ASSUME NEW b \in BOOLEAN, SaveFails(p, b) PROVE NoSecret'
  <2>1. /\ live' = RolledBack(p) /\ store' = store /\ cleared' = cleared /\ disk' = disk
        /\ Oldest(p)
    BY <1>13 DEF SaveFails, ghosts
  <2>2. RolledBack(p).secret = live.secret
    BY <1>t DEF RolledBack, Settings
  <2>3. Ends(p) \/ \E s \in Stages : proc' = [proc EXCEPT ![p].stage = s]
    BY <1>13, StageNames DEF SaveFails
  <2>4. proc'[p].cand \in {Idle.cand, proc[p].cand}
    BY <2>3, IdleSound, Staged
  <2> QED BY <1>0, <1>i, <1>n, <1>r, <2>1, <2>2, <2>4, SecretStays
<1>14. ASSUME Saved(p) \/ Published(p) PROVE NoSecret'
  <2>1. /\ live' = live \/ live' = proc[p].cand
        /\ store' = store /\ cleared' = cleared /\ disk' = Head(queue).content /\ Oldest(p)
    BY <1>14 DEF Saved, Published, ghosts
  <2>2. Ends(p) \/ \E s \in Stages : proc' = [proc EXCEPT ![p].stage = s]
    BY <1>14, StageNames DEF Saved, Published
  <2>3. proc'[p].cand \in {Idle.cand, proc[p].cand}
    BY <2>2, IdleSound, Staged
  <2> QED BY <1>0, <1>i, <1>n, <1>r, <2>1, <2>3, SecretStays
<1> QED
  BY <1>1, <1>2, <1>3, <1>4, <1>5, <1>6, <1>7, <1>8, <1>9, <1>10, <1>11, <1>12, <1>13, <1>14 DEF Act

\* What a step may do to the secret.
LEMMA SecretSafe ==
    ASSUME TypeOK, Sound, SecretSound, [Next]_vars
    PROVE  ~cleared' /\ (disk.secret \/ store) => disk'.secret \/ store'
<1>1. ASSUME disk' = disk, store' = store \/ store' = TRUE
      PROVE  disk.secret \/ store => disk'.secret \/ store'
  BY <1>1 DEF TypeOK
<1>2. CASE Load
  BY <1>1, <1>2 DEF Load
<1>3. CASE Migrated
  BY <1>3 DEF Migrated, SecretSound
<1>4. CASE Crash
  BY <1>1, <1>4 DEF Crash
<1>5. ASSUME NEW p \in Procs, Act(p), ~cleared', disk.secret \/ store
      PROVE  disk'.secret \/ store'
  <2>0. up = "running"
    BY <1>5, ActsMove DEF Sound
  <2>1. CASE \E b \in BOOLEAN : Reset(p, b)
    BY <1>5, <2>1 DEF Reset, TypeOK
  <2>2. CASE Kept(p)
    BY <1>5, <2>2 DEF Kept, TypeOK
  <2>3. CASE Saved(p) \/ Published(p)
    <3>1. store' = store /\ cleared' = cleared
      BY <2>3 DEF Saved, Published, ghosts
    <3> QED BY <1>5, <2>0, <3>1 DEF SecretSound, NoSecret
  <2>4. CASE ~(\/ \E b \in BOOLEAN : Reset(p, b)
               \/ Kept(p) \/ Saved(p) \/ Published(p))
    <3>1. disk' = disk /\ store' = store
      BY <1>5, <2>4 DEF Act, Toggle, Grant, Switch, Remove, ImportSettings, Prepare, Created,
         Refused, Cleaned, Probed, Claimed, SkillsWritten, SaveFails, Rebound, Trashed
    <3> QED BY <1>5, <3>1
  <2> QED BY <2>1, <2>2, <2>3, <2>4
<1>6. CASE UNCHANGED vars
  BY <1>1, <1>6 DEF vars
<1> QED BY <1>2, <1>3, <1>4, <1>5, <1>6 DEF Next, Act

-----------------------------------------------------------------------------
(* The stores and the active profile.                                      *)

LEMMA FollowInit == Init => FollowSound
BY DEF Init, FollowSound

LEMMA FollowAlone ==
    ASSUME TypeOK, Sound, FollowSound, Load \/ Migrated \/ Crash
    PROVE  FollowSound'
<1>1. CASE Load
  <2>1. live'.active = disk.active
    BY <1>1 DEF Load, Restored, TypeOK, Settings
  <2> QED BY <1>1, <2>1 DEF Load, FollowSound
<1>2. CASE Migrated
  <2>1. live'.active = live.active
    BY <1>2 DEF Migrated, TypeOK, Settings
  <2> QED BY <1>2, <2>1 DEF Migrated, FollowSound
<1>3. CASE Crash
  BY <1>3 DEF Crash, FollowSound
<1> QED BY <1>1, <1>2, <1>3

\* A step that leaves the active profile, the bound one and the operations that
\* will bind.
LEMMA FollowKept ==
    ASSUME FollowSound, NEW p \in Procs, \A q \in Procs \ {p} : proc'[q] = proc[q],
           up' = up, failed' = failed, bound' = bound, live'.active = live.active, ~Binds(p)
    PROVE  FollowSound'
<1>1. ASSUME NEW q \in Procs, Binds(q) PROVE Binds(q)'
  BY <1>1 DEF Binds
<1> QED BY <1>1 DEF FollowSound

\* A step that binds the stores, or leaves an operation that will.
LEMMA FollowSet ==
    ASSUME NEW p \in Procs, bound' = live'.active \/ Binds(p)' \/ failed'
    PROVE  FollowSound'
BY DEF FollowSound

LEMMA FollowStep ==
    ASSUME TypeOK, Sound, FollowSound, NEW p \in Procs, Act(p)
    PROVE  FollowSound'
<1>0. /\ \A q \in Procs \ {p} : proc'[q] = proc[q]
      /\ StageSound(p) /\ up' = up
  BY ActsMove DEF Moves, Sound
<1>o. ASSUME Oldest(p) PROVE proc[p].stage = "save"
  BY <1>o, OldestTyped DEF Sound, QueueSound
<1>1. ASSUME NEW k \in Kinds, Toggle(p, k) \/ Grant(p, k) PROVE FollowSound'
  <2>1. proc'[p].stage = "save" /\ proc'[p].op \in {"edit", "grant"}
    <3>1. CASE Toggle(p, k)
      BY <3>1 DEF Toggle, TypeOK, Started, Idle
    <3>2. CASE Grant(p, k)
      BY <3>2 DEF Grant, TypeOK, Started, Idle
    <3> QED BY <1>1, <3>1, <3>2
  <2> QED BY <2>1, FollowSet DEF Binds
<1>2. ASSUME NEW id \in Profiles, Switch(p, id) PROVE FollowSound'
  <2>1. proc'[p].stage = "save" /\ proc'[p].op = "switch"
    BY <1>2 DEF Switch, TypeOK, Started, Idle
  <2> QED BY <2>1, FollowSet DEF Binds
<1>12. ASSUME NEW id \in Profiles, NEW b \in BOOLEAN, Remove(p, id, b) PROVE FollowSound'
  <2>1. proc'[p].stage = "save" /\ proc'[p].op = "remove"
    BY <1>12 DEF Remove, TypeOK, Started, Idle
  <2> QED BY <2>1, FollowSet DEF Binds
<1>13. ASSUME NEW b \in BOOLEAN, Reset(p, b) PROVE FollowSound'
  <2>1. proc'[p].stage = "save" /\ proc'[p].op = "reset"
    BY <1>13 DEF Reset, TypeOK, Started, Idle
  <2> QED BY <2>1, FollowSet DEF Binds
<1>3. ASSUME NEW b \in BOOLEAN, ImportSettings(p, b) PROVE FollowSound'
  <2>1. live' = live /\ bound' = bound /\ failed' = failed /\ proc[p].stage = "idle"
    BY <1>3 DEF ImportSettings, Begin
  <2> QED BY <1>0, <2>1, FollowKept DEF Binds
<1>4. ASSUME NEW op \in {"create", "bundle", "install"}, NEW id \in Profiles, Prepare(p, op, id)
      PROVE  FollowSound'
  <2>1. live' = live /\ bound' = bound /\ failed' = failed /\ proc[p].stage = "idle"
    BY <1>4 DEF Prepare, Begin
  <2> QED BY <1>0, <2>1, FollowKept DEF Binds
<1>5. ASSUME Created(p) PROVE FollowSound'
  <2>1. proc[p].op = "create" /\ proc'[p] = [proc[p] EXCEPT !.stage = "save", !.base = live]
    BY <1>5 DEF Created, TypeOK
  <2>2. proc'[p].stage = "save" /\ proc'[p].op = "create"
    BY <2>1, ProcTyped DEF Proc
  <2> QED BY <2>2, FollowSet DEF Binds
<1>6. ASSUME Refused(p) \/ Cleaned(p) PROVE FollowSound'
  <2>1. /\ live' = live /\ bound' = bound /\ failed' = failed
        /\ proc[p].stage \in {"probe", "cleanup"}
    BY <1>6 DEF Refused, Cleaned
  <2> QED BY <1>0, <2>1, FollowKept DEF Binds
<1>7. ASSUME Kept(p) PROVE FollowSound'
  <2>1. bound' = bound /\ failed' = failed /\ proc[p].stage \in {"load", "keep"}
    BY <1>7 DEF Kept
  <2>2. live'.active = live.active
    BY <1>7 DEF Kept, TypeOK, Settings
  <2> QED BY <1>0, <2>1, <2>2, FollowKept DEF Binds
<1>8. ASSUME NEW b \in BOOLEAN, Probed(p, b) \/ Claimed(p, b) \/ SkillsWritten(p, b)
      PROVE  FollowSound'
  <2>1. /\ live' = live /\ bound' = bound /\ failed' = failed
        /\ proc[p].stage \in {"probe", "claim", "skills"}
    BY <1>8 DEF Probed, Claimed, SkillsWritten
  <2> QED BY <1>0, <2>1, FollowKept DEF Binds
<1>9. ASSUME NEW b \in BOOLEAN, SaveFails(p, b) PROVE FollowSound'
  <2>1. CASE proc[p].op \in {"import", "bundle"}
    <3>1. live' = live /\ bound' = bound
      BY <1>9, <2>1 DEF SaveFails, RolledBack
    <3>2. failed' = failed
      BY <1>9, <2>1 DEF SaveFails, TypeOK
    <3>3. proc[p].stage = "save"
      BY <1>9, <1>o DEF SaveFails
    <3> QED BY <1>0, <2>1, <3>1, <3>2, <3>3, FollowKept DEF Binds
  <2>2. CASE proc[p].op \notin {"import", "bundle"}
    BY <1>9, <2>2, FollowSet DEF SaveFails
  <2> QED BY <2>1, <2>2
<1>10. ASSUME Saved(p) \/ Rebound(p) \/ Trashed(p) PROVE FollowSound'
  BY <1>10, FollowSet DEF Saved, Rebound, Trashed
<1>11. ASSUME Published(p) PROVE FollowSound'
  <2>1. CASE proc[p].op = "import"
    <3>1. proc'[p].stage = "rebind"
      BY <1>11, <2>1, Staged DEF Published
    <3> QED BY <3>1, FollowSet DEF Binds
  <2>2. CASE proc[p].op = "bundle"
    BY <1>11, <2>2, FollowSet DEF Published
  <2> QED BY <1>11, <2>1, <2>2 DEF Published
<1> QED
  BY <1>1, <1>2, <1>3, <1>4, <1>5, <1>6, <1>7, <1>8, <1>9, <1>10, <1>11, <1>12,
     <1>13 DEF Act

-----------------------------------------------------------------------------
(* The folders of imported profiles.                                       *)

LEMMA FolderInit == Init => FolderSound
BY DEF Init, FolderSound, OwnedOnce, FolderHasOwner, Owns, Idle

LEMMA FolderAlone ==
    ASSUME TypeOK, Sound, FolderSound, Load \/ Migrated \/ Crash
    PROVE  FolderSound'
<1>1. CASE Load \/ Migrated
  <2>1. /\ root' = root /\ proc' = proc /\ bundled' = bundled /\ removed' = removed
        /\ torn' = torn
    BY <1>1 DEF Load, Migrated, ghosts
  <2> QED BY <2>1 DEF FolderSound, OwnedOnce, FolderHasOwner, Owns
<1>2. CASE Crash
  <2>1. /\ root' = root /\ bundled' = bundled /\ removed' = removed
        /\ torn' = torn \cup {id \in Profiles : \E p \in Procs : Owns(p, id)}
        /\ \A p \in Procs : proc'[p].op = "none"
    BY <1>2 DEF Crash, Idle
  <2>2. \A p \in Procs : \A id : ~Owns(p, id)'
    BY <2>1 DEF Owns
  <2> QED BY <2>1, <2>2 DEF FolderSound, OwnedOnce, FolderHasOwner
<1> QED BY <1>1, <1>2

\* A step of an operation that owns no folder before or after it, and leaves
\* the folders.
LEMMA FolderKept ==
    ASSUME FolderSound, NEW p \in Procs, \A q \in Procs \ {p} : proc'[q] = proc[q],
           root' = root, bundled' = bundled, removed \subseteq removed', torn' = torn,
           \A id : ~Owns(p, id) /\ ~Owns(p, id)'
    PROVE  FolderSound'
<1>1. \A q \in Procs : \A id : Owns(q, id)' <=> Owns(q, id)
  BY DEF Owns
<1>2. \A q \in Procs : \A id : Owns(q, id)' => proc'[q] = proc[q]
  BY <1>1
<1> QED BY <1>1, <1>2 DEF FolderSound, OwnedOnce, FolderHasOwner

\* What is left alone about the other operations' folders.
LEMMA OwnsOther ==
    ASSUME NEW p \in Procs, \A q \in Procs \ {p} : proc'[q] = proc[q]
    PROVE  \A q \in Procs \ {p} : \A id : Owns(q, id)' <=> Owns(q, id)
BY DEF Owns

LEMMA FolderStep ==
    ASSUME TypeOK, Sound, FolderSound, NEW p \in Procs, Act(p)
    PROVE  FolderSound'
<1>0. /\ \A q \in Procs \ {p} : proc'[q] = proc[q]
      /\ StageSound(p) /\ StageSound(p)'
  BY ActsMove DEF Moves, Sound
<1>o. ASSUME Oldest(p) PROVE proc[p].stage = "save"
  BY <1>o, OldestTyped DEF Sound, QueueSound
<1>i. /\ Idle.stage = "idle"
      /\ proc'[p] = Idle => \A id : ~Owns(p, id)'
  BY DEF Idle, Owns
<1>1. ASSUME root' = root, bundled' = bundled, torn' = torn, removed \subseteq removed',
             \A id : ~Owns(p, id) /\ ~Owns(p, id)'
      PROVE  FolderSound'
  BY <1>0, <1>1, FolderKept
<1>2. ASSUME NEW k \in Kinds, Toggle(p, k) \/ Grant(p, k) PROVE FolderSound'
  <2>1. /\ root' = root /\ bundled' = bundled /\ torn' = torn /\ removed \subseteq removed' /\ proc[p].stage = "idle"
    BY <1>2 DEF Toggle, Grant, Begin, ghosts
  <2>2. proc'[p].op \in {"edit", "grant"}
    <3>1. CASE Toggle(p, k)
      BY <3>1 DEF Toggle, TypeOK, Started, Idle
    <3>2. CASE Grant(p, k)
      BY <3>2 DEF Grant, TypeOK, Started, Idle
    <3> QED BY <1>2, <3>1, <3>2
  <2> QED BY <1>1, <2>1, <2>2 DEF Owns
<1>3. ASSUME NEW id \in Profiles, Switch(p, id) PROVE FolderSound'
  <2>1. /\ root' = root /\ bundled' = bundled /\ torn' = torn /\ removed \subseteq removed' /\ proc[p].stage = "idle"
    BY <1>3 DEF Switch, Begin, ghosts
  <2>2. proc'[p].op = "switch"
    BY <1>3 DEF Switch, TypeOK, Started, Idle
  <2> QED BY <1>1, <2>1, <2>2 DEF Owns
<1>4. ASSUME NEW id \in Profiles, NEW b \in BOOLEAN, Remove(p, id, b) PROVE FolderSound'
  <2>1. /\ root' = root /\ bundled' = bundled /\ torn' = torn /\ removed \subseteq removed' /\ proc[p].stage = "idle"
    BY <1>4 DEF Remove, Begin
  <2>2. proc'[p].op = "remove"
    BY <1>4 DEF Remove, TypeOK, Started, Idle
  <2> QED BY <1>1, <2>1, <2>2 DEF Owns
<1>5. ASSUME NEW b \in BOOLEAN, ImportSettings(p, b) PROVE FolderSound'
  <2>1. /\ root' = root /\ bundled' = bundled /\ torn' = torn /\ removed \subseteq removed' /\ proc[p].stage = "idle"
    BY <1>5 DEF ImportSettings, Begin, ghosts
  <2>2. proc'[p].op = "import"
    BY <1>5 DEF ImportSettings, TypeOK, Started, Idle
  <2> QED BY <1>1, <2>1, <2>2 DEF Owns
<1>6. ASSUME NEW b \in BOOLEAN, Reset(p, b) PROVE FolderSound'
  <2>1. /\ root' = root /\ bundled' = bundled /\ torn' = torn /\ removed \subseteq removed' /\ proc[p].stage = "idle"
    BY <1>6 DEF Reset, Begin
  <2>2. proc'[p].op = "reset"
    BY <1>6 DEF Reset, TypeOK, Started, Idle
  <2> QED BY <1>1, <2>1, <2>2 DEF Owns
<1>7. ASSUME NEW op \in {"create", "bundle", "install"}, NEW id \in Profiles, Prepare(p, op, id)
      PROVE  FolderSound'
  <2>1. /\ root' = root /\ bundled' = bundled /\ torn' = torn /\ removed \subseteq removed' /\ proc[p].stage = "idle"
    BY <1>7 DEF Prepare, Begin, ghosts
  <2>2. proc'[p].stage \in {"probe", "load"}
    BY <1>7, ZenonT(30) DEF Prepare, TypeOK, Started, Idle
  <2> QED BY <1>1, <2>1, <2>2 DEF Owns
<1>8. ASSUME Created(p) PROVE FolderSound'
  <2>1. /\ root' = root /\ bundled' = bundled /\ torn' = torn /\ removed \subseteq removed' /\ proc[p].op = "create"
        /\ proc'[p] = [proc[p] EXCEPT !.stage = "save", !.base = live]
    BY <1>8 DEF Created, TypeOK, ghosts
  <2>2. proc'[p].op = "create"
    BY <2>1, ProcTyped DEF Proc
  <2> QED BY <1>1, <2>1, <2>2 DEF Owns
<1>9. ASSUME Refused(p) \/ Rebound(p) PROVE FolderSound'
  <2>1. /\ root' = root /\ bundled' = bundled /\ torn' = torn /\ removed \subseteq removed' /\ Ends(p)
        /\ proc[p].stage \in {"probe", "rebind"}
    BY <1>9 DEF Refused, Rebound, ghosts
  <2>2. proc'[p] = Idle
    BY <2>1, IdleSound
  <2> QED BY <1>i, <1>1, <2>1, <2>2 DEF Owns
<1>10. ASSUME Kept(p) PROVE FolderSound'
  <2>1. /\ root' = root /\ bundled' = bundled /\ torn' = torn /\ removed \subseteq removed'
        /\ \E s \in Stages : proc' = [proc EXCEPT ![p].stage = s]
        /\ proc[p].op = "install"
    BY <1>10, <1>0, StageNames DEF Kept, StageSound
  <2>2. proc'[p].op = "install"
    BY <2>1, Staged
  <2> QED BY <1>1, <2>1, <2>2 DEF Owns
<1>11. ASSUME NEW b \in BOOLEAN, Probed(p, b) PROVE FolderSound'
  <2>1. /\ root' = root /\ bundled' = bundled /\ torn' = torn /\ removed \subseteq removed' /\ proc[p].stage = "probe"
    BY <1>11 DEF Probed, ghosts
  <2>2. proc'[p].stage = "claim" \/ ~proc'[p].folders
    BY <1>11, ProcTyped DEF Probed, TypeOK, Proc
  <2> QED BY <1>1, <2>1, <2>2 DEF Owns
<1>12. ASSUME Cleaned(p) PROVE FolderSound'
  <2> DEFINE id == proc[p].profile
  <2>1. /\ root' = [root EXCEPT ![id] = "absent"] /\ proc'[p] = Idle
        /\ bundled' = bundled /\ removed' = removed /\ torn' = torn
        /\ id \in Profiles /\ Owns(p, id)
    BY <1>12, <1>0, IdleSound, ProcTyped DEF Cleaned, ghosts, StageSound, Owns
  <2>2. /\ \A q \in Procs \ {p} : \A i : Owns(q, i)' <=> Owns(q, i)
        /\ \A i : ~Owns(p, i)'
    BY <1>0, <1>i, <2>1, OwnsOther
  <2>3. \A i \in Profiles : i # id => root'[i] = root[i] /\ ~Owns(p, i)
    BY <2>1 DEF TypeOK, Owns
  <2>4. id \notin removed => id \notin bundled /\ \A q \in Procs \ {p} : ~Owns(q, id)
    BY <2>1 DEF FolderSound, OwnedOnce, FolderHasOwner
  <2>5. root'[id] = "absent"
    BY <2>1 DEF TypeOK
  <2> HIDE DEF id
  <2> QED BY <1>0, <2>1, <2>2, <2>3, <2>4, <2>5 DEF FolderSound, OwnedOnce, FolderHasOwner
<1>13. ASSUME NEW b \in BOOLEAN, Claimed(p, b) PROVE FolderSound'
  <2> DEFINE id == proc[p].profile
  <2>1. /\ torn' = torn
        /\ id \in Profiles /\ proc[p].stage = "claim" /\ proc[p].op = "bundle" /\ proc[p].folders
    BY <1>13, <1>0, ProcTyped DEF Claimed, StageSound
  <2>2. CASE Ends(p) /\ root' = root /\ bundled' = bundled /\ removed' = removed
    <3>1. proc'[p] = Idle
      BY <2>2, IdleSound
    <3> QED BY <1>i, <1>1, <2>1, <2>2, <3>1 DEF Owns
  <2>3. CASE /\ root[id] = "absent" /\ root' = [root EXCEPT ![id] = "half"]
             /\ proc' = [proc EXCEPT ![p].stage = "skills"]
             /\ bundled' = bundled \ {id}
             /\ removed' = IF \E q \in Procs : Takes(q, id) THEN removed ELSE removed \ {id}
    <3>1. /\ proc'[p].stage = "skills" /\ Owns(p, id)' /\ \A i : i # id => ~Owns(p, i)'
          /\ \A i : ~Owns(p, i)
      BY <2>1, <2>3, Staged DEF Owns
    <3>2. \A q \in Procs \ {p} : \A i : Owns(q, i)' <=> Owns(q, i)
      BY <1>0, OwnsOther
    <3>3. root'[id] = "half" /\ \A i \in Profiles : i # id => root'[i] = root[i]
      BY <2>1, <2>3 DEF TypeOK
    <3>4. id \notin removed' => \A q \in Procs : ~Owns(q, id)
      <4>1. id \notin removed => \A q \in Procs : ~Owns(q, id)
        BY <2>1, <2>3 DEF FolderSound, OwnedOnce
      <4>2. (\E q \in Procs : Takes(q, id)) \/ \A q \in Procs : ~Owns(q, id)
        BY DEF Takes
      <4> QED BY <2>3, <4>1, <4>2
    <3>5. \A i \in Profiles : i # id =>
             (i \in removed' <=> i \in removed) /\ (i \in bundled' <=> i \in bundled)
      BY <2>3
    <3>6. id \notin bundled'
      BY <2>3
    <3>7. \A i \in Profiles \ removed' : OwnedOnce(i)'
      <4> SUFFICES ASSUME NEW i \in Profiles, i \notin removed' PROVE OwnedOnce(i)'
        OBVIOUS
      <4> HIDE DEF id
      <4>1. CASE i = id
        BY <1>0, <3>1, <3>2, <3>3, <3>4, <3>6, <4>1 DEF OwnedOnce
      <4>2. CASE i # id
        <5>1. /\ i \in Profiles \ removed /\ (i \in bundled' <=> i \in bundled)
              /\ root'[i] = root[i]
          <6>1. i \notin removed
            BY <3>5, <4>2
          <6>2. i \in bundled' <=> i \in bundled
            BY <3>5, <4>2
          <6>3. root'[i] = root[i]
            BY <3>3, <4>2
          <6> QED BY <6>1, <6>2, <6>3
        <5>2. OwnedOnce(i)
          BY <5>1 DEF FolderSound
        <5>3. \A q \in Procs : Owns(q, i)' <=> Owns(q, i)
          BY <3>1, <3>2, <4>2
        <5>4. \A q \in Procs : Owns(q, i)' => proc'[q] = proc[q]
          BY <1>0, <3>1, <4>2
        <5> QED BY <5>1, <5>2, <5>3, <5>4 DEF OwnedOnce
      <4> QED BY <4>1, <4>2
    <3>8. \A i \in Profiles : FolderHasOwner(i)'
      <4> HIDE DEF id
      <4> QED BY <2>1, <3>1, <3>2, <3>3, <3>5 DEF FolderSound, FolderHasOwner
    <3> QED BY <3>7, <3>8 DEF FolderSound
  <2> QED BY <1>13, <2>2, <2>3 DEF Claimed
<1>14. ASSUME NEW b \in BOOLEAN, SkillsWritten(p, b) PROVE FolderSound'
  <2> DEFINE id == proc[p].profile
  <2>1. /\ bundled' = bundled /\ removed' = removed /\ torn' = torn
        /\ id \in Profiles /\ proc[p].stage = "skills" /\ Owns(p, id)
    BY <1>14, <1>0, ProcTyped DEF SkillsWritten, ghosts, StageSound, Owns
  <2>2. /\ \A i \in Profiles : i # id => root'[i] = root[i]
        /\ root'[id] = root[id] \/ (root[id] = "half" /\ root'[id] = "whole")
        /\ b /\ root[id] = "half" => root'[id] = "whole"
    BY <1>14, <2>1 DEF SkillsWritten, TypeOK
  <2>3. /\ \/ b /\ proc' = [proc EXCEPT ![p].stage = "save"]
           \/ proc' = [proc EXCEPT ![p].stage = "cleanup"]
    BY <1>14 DEF SkillsWritten
  <2>4. /\ (proc'[p].stage = "save" /\ b) \/ proc'[p].stage = "cleanup"
        /\ \A i : Owns(p, i)' <=> Owns(p, i)
        /\ \A i : Owns(p, i) => i = id
    BY <2>1, <2>3, Staged DEF Owns
  <2>5. \A q \in Procs \ {p} : \A i : Owns(q, i)' <=> Owns(q, i)
    BY <1>0, OwnsOther
  <2>6. id \notin removed =>
           id \notin bundled /\ root[id] = "half" /\ \A q \in Procs : Owns(q, id) => q = p
    BY <2>1 DEF FolderSound, OwnedOnce, FolderHasOwner
  <2> HIDE DEF id
  <2> QED BY <1>0, <2>1, <2>2, <2>4, <2>5, <2>6 DEF FolderSound, OwnedOnce, FolderHasOwner
<1>15. ASSUME NEW b \in BOOLEAN, SaveFails(p, b) PROVE FolderSound'
  <2>1. /\ root' = root /\ bundled' = bundled /\ removed' = removed /\ torn' = torn
        /\ proc[p].stage = "save"
    BY <1>15, <1>o DEF SaveFails, ghosts
  <2>2. CASE ~(proc[p].op = "bundle" /\ proc[p].folders)
    <3>1. proc'[p] = Idle
      BY <1>15, <2>2, IdleSound DEF SaveFails
    <3> QED BY <1>i, <1>1, <2>1, <2>2, <3>1 DEF Owns
  <2>3. CASE proc[p].op = "bundle" /\ proc[p].folders
    <3>1. proc'[p].stage = "cleanup" /\ \A i : Owns(p, i)' <=> Owns(p, i)
      BY <1>15, <2>1, <2>3, Staged DEF SaveFails, Owns
    <3>2. \A q \in Procs : \A i : Owns(q, i)' <=> Owns(q, i)
      BY <1>0, <3>1, OwnsOther
    <3> QED BY <1>0, <2>1, <3>1, <3>2 DEF FolderSound, OwnedOnce, FolderHasOwner
  <2> QED BY <2>2, <2>3
<1>16. ASSUME Saved(p) PROVE FolderSound'
  <2>1. /\ root' = root /\ bundled' = bundled /\ torn' = torn /\ removed \subseteq removed' /\ proc[p].op # "bundle"
    BY <1>16 DEF Saved, ghosts
  <2>2. Ends(p) \/ proc' = [proc EXCEPT ![p].stage = "trash"]
    BY <1>16 DEF Saved
  <2>3. proc'[p].op # "bundle"
    BY <2>1, <2>2, IdleSound, Staged DEF Idle
  <2> QED BY <1>1, <2>1, <2>3 DEF Owns
<1>17. ASSUME Published(p) PROVE FolderSound'
  <2> DEFINE id == proc[p].profile
  <2>1. root' = root /\ removed' = removed /\ torn' = torn /\ proc[p].stage = "save"
        /\ id \in Profiles
    BY <1>17, <1>o, ProcTyped DEF Published
  <2>2. CASE proc[p].op = "import"
    <3>1. bundled' = bundled /\ proc'[p].op = "import"
      BY <1>17, <2>2, Staged DEF Published
    <3> QED BY <1>1, <2>1, <2>2, <3>1 DEF Owns
  <2>3. CASE proc[p].op = "bundle"
    <3>1. proc'[p] = Idle /\ bundled' = IF proc[p].folders THEN bundled \cup {id} ELSE bundled
      BY <1>17, <2>3, IdleSound DEF Published
    <3>2. CASE ~proc[p].folders
      BY <1>i, <1>1, <2>1, <3>1, <3>2 DEF Owns
    <3>3. CASE proc[p].folders
      <4>1. Owns(p, id) /\ bundled' = bundled \cup {id} /\ \A i : Owns(p, i) => i = id
        BY <2>1, <2>3, <3>1, <3>3 DEF Owns
      <4>2. /\ \A q \in Procs \ {p} : \A i : Owns(q, i)' <=> Owns(q, i)
            /\ \A i : ~Owns(p, i)'
        BY <1>0, <1>i, <3>1, OwnsOther
      <4>3. id \notin removed => root[id] = "whole" /\ \A q \in Procs : Owns(q, id) => q = p
        BY <2>1, <4>1 DEF FolderSound, OwnedOnce, FolderHasOwner
      <4> HIDE DEF id
      <4> QED BY <1>0, <2>1, <4>1, <4>2, <4>3 DEF FolderSound, OwnedOnce, FolderHasOwner
    <3> QED BY <3>2, <3>3
  <2> QED BY <1>17, <2>2, <2>3 DEF Published
<1>18. ASSUME Trashed(p) PROVE FolderSound'
  <2> DEFINE id == proc[p].profile
  <2>1. /\ root' = [root EXCEPT ![id] = "absent"] /\ proc'[p] = Idle
        /\ bundled' = bundled /\ removed' = removed /\ torn' = torn
        /\ id \in removed
    BY <1>18, <1>0, IdleSound DEF Trashed, ghosts, StageSound
  <2>2. /\ \A i : ~Owns(p, i) /\ ~Owns(p, i)'
        /\ \A q \in Procs \ {p} : \A i : Owns(q, i)' <=> Owns(q, i)
    BY <1>18, <1>0, <1>i, <2>1, OwnsOther DEF Trashed, Owns
  <2>3. /\ \A i \in Profiles : i # id => root'[i] = root[i]
        /\ id \in Profiles => root'[id] = "absent"
    BY <2>1 DEF TypeOK
  <2> HIDE DEF id
  <2> QED BY <1>0, <2>1, <2>2, <2>3 DEF FolderSound, OwnedOnce, FolderHasOwner
<1> QED
  BY <1>2, <1>3, <1>4, <1>5, <1>6, <1>7, <1>8, <1>9, <1>10, <1>11, <1>12, <1>13, <1>14, <1>15,
     <1>16, <1>17, <1>18 DEF Act

-----------------------------------------------------------------------------
(* The invariant, and what it says of the runs' properties.                *)

LEMMA InvInit == Init => Inv
BY TypeInit, SoundInit, ConsentInit, SecretInit, FollowInit, FolderInit DEF Inv, Sound

LEMMA InvStep == Inv /\ [Next]_vars => Inv'
<1> SUFFICES ASSUME Inv, [Next]_vars PROVE Inv'
  OBVIOUS
<1>1. /\ TypeOK /\ Sound /\ ConsentSound /\ SecretSound /\ FollowSound /\ FolderSound
      /\ TypeOK' /\ Sound'
  BY TypeStep, SoundStep DEF Inv, Sound
<1>2. CASE Load \/ Migrated \/ Crash
  BY <1>1, <1>2, ConsentAlone, SecretAlone, FollowAlone, FolderAlone DEF Inv, Sound
<1>3. ASSUME NEW p \in Procs, Act(p) PROVE Inv'
  BY <1>1, <1>3, ConsentStep, SecretStep, FollowStep, FolderStep DEF Inv, Sound
<1>4. CASE UNCHANGED vars
  BY <1>1, <1>4 DEF Inv, Sound, vars, ConsentSound, Consented, GrantSound, SecretSound, NoSecret,
     FollowSound, Binds, FolderSound, OwnedOnce, FolderHasOwner, Owns
<1> QED BY <1>2, <1>3, <1>4 DEF Next, Act

\* The inductive invariant, for any number of overlapping operations, profiles,
\* consents and crashes of the plugin host.
THEOREM Invariance == Spec => []Inv
BY InvInit, InvStep, PTL DEF Spec

\* Every variable of the host keeps its type: the settings, the saves asked for
\* and the operations between their awaits.
THEOREM TypeCorrect == Spec => []TypeOK
<1>1. Inv => TypeOK
  BY DEF Inv
<1> QED BY <1>1, Invariance, PTL

\* The terminal is on only under a receipt the vault's ledger holds, whatever
\* saves fail, settings are imported or reset and restarts happen in between.
THEOREM TerminalUnderConsent == Spec => []TerminalConsented
<1>1. Inv => TerminalConsented
  BY DEF Inv, ConsentSound, Consented, TerminalConsented
<1> QED BY <1>1, Invariance, PTL

\* At rest the memory, skills and session stores write to the folder of the
\* active profile, unless the save that would have bound them failed.
THEOREM StoresAtRest == Spec => []StoresFollow
<1>1. Inv => StoresFollow
  BY DEF Inv, FollowSound, Binds, StoresFollow, Quiet
<1> QED BY <1>1, Invariance, PTL

\* A profile imported with skills has all of them, over any crashes and whatever
\* imports, deletions and failed saves overlap, unless a deletion of the same id that
\* was not over when its folder was made takes it; and at rest an id that was not
\* imported has no folder, unless a crash cut its import short.
THEOREM ImportedFolders == Spec => []BundlesWhole
<1>1. Inv => BundlesWhole
  <2> SUFFICES ASSUME Inv, NEW id \in Profiles
               PROVE  /\ id \in bundled \ removed => root[id] = "whole"
                      /\ Quiet /\ id \notin bundled \cup torn => root[id] = "absent"
    BY DEF BundlesWhole
  <2>1. id \notin removed => OwnedOnce(id)
    BY DEF Inv, FolderSound
  <2>2. Quiet => \A p \in Procs : ~Owns(p, id)
    BY DEF Quiet, Owns
  <2>3. FolderHasOwner(id)
    BY DEF Inv, FolderSound
  <2> QED BY <2>1, <2>2, <2>3 DEF OwnedOnce, FolderHasOwner
<1> QED BY <1>1, Invariance, PTL

\* No step of the start-up migration, of an install, a save, an import or a crash
\* loses the secret; only a reset of everything does.
THEOREM SecretSurvives == Spec => SecretKept
<1>1. Inv /\ [Next]_vars => [~cleared' /\ (disk.secret \/ store) => disk'.secret \/ store']_vars
  BY SecretSafe DEF Inv, Sound
<1> QED BY <1>1, Invariance, PTL DEF Spec, SecretKept

-----------------------------------------------------------------------------
(* ModelMenu, for any providers and catalogues.                            *)

MenuKeys == Menu!Providers \X (Menu!Models \cup {None})

\* Catalogues list models, and None is no model, no set of keys and no change.
MenuBounds ==
    /\ Catalogs \subseteq Seq(Menu!Models)
    /\ None \notin Menu!Models /\ None \notin SUBSET MenuKeys
    /\ None \notin [op : {"toggle", "master", "pick"}, prov : Menu!Providers,
                     model : Menu!Models \cup {None}]

MenuTyped ==
    /\ catalog \in [Menu!Providers -> Seq(Menu!Models)]
    /\ stored = None \/ stored \subseteq MenuKeys
    /\ changes \in Nat

\* The mark of a provider hidden as a whole stands alone.
MarksAlone ==
    stored # None =>
        \A p \in Menu!Providers :
            Menu!Sentinel(p) \in stored => \A k \in stored : k[1] = p => k = Menu!Sentinel(p)

MenuInv == MenuTyped /\ MarksAlone

-----------------------------------------------------------------------------
\* What is shown before the first change is models of the provider.
LEMMA DefaultKeys ==
    ASSUME MenuBounds, MenuTyped, NEW p \in Menu!Providers
    PROVE  Menu!Defaults(p) \subseteq {p} \X Menu!Models
<1>1. catalog[p] \in Seq(Menu!Models)
  BY DEF MenuTyped
<1>2. \A n \in DOMAIN catalog[p] : catalog[p][n] \in Menu!Models
  BY <1>1
<1>3. ASSUME NEW d \in Menu!Defaults(p)
      PROVE  \E n \in DOMAIN catalog[p] : d = <<p, catalog[p][n]>>
  BY <1>3 DEF Menu!Defaults, Menu!Key
<1>4. QED
  BY <1>2, <1>3

\* Of the working set what a provider has of its own stays, and nothing else of
\* it is added.
LEMMA WorkingKeys ==
    ASSUME MenuBounds, MenuInv
    PROVE  /\ Menu!Working \subseteq MenuKeys
           /\ \A p \in Menu!Providers, k \in Menu!Working :
                 k = Menu!Sentinel(p) => stored # None /\ k \in stored
           /\ \A p \in Menu!Providers :
                 Menu!Sentinel(p) \in Menu!Working =>
                     \A k \in Menu!Working : k[1] = p => k = Menu!Sentinel(p)
           /\ \A p \in Menu!Providers :
                 (~ \E k \in Menu!Working : k[1] = p) => Menu!Defaults(p) = {}
<1>1. \A p \in Menu!Providers : \A k \in Menu!Defaults(p) : k[1] = p /\ k[2] \in Menu!Models /\ k \in MenuKeys
  BY DefaultKeys DEF MenuInv, MenuKeys
<1>2. \A p \in Menu!Providers : Menu!Sentinel(p)[1] = p /\ Menu!Sentinel(p)[2] = None
  BY DEF Menu!Sentinel
<1>3. \A p, q \in Menu!Providers : Menu!Sentinel(p) \notin Menu!Defaults(q)
  BY <1>1, <1>2 DEF MenuBounds
<1>4. CASE stored = None
  <2>1. Menu!Working = UNION {Menu!Defaults(p) : p \in Menu!Providers}
    BY <1>4 DEF Menu!Working
  <2>2. \A k \in Menu!Working : \E p \in Menu!Providers : k \in Menu!Defaults(p)
    BY <2>1
  <2>3. \A p \in Menu!Providers : Menu!Defaults(p) \subseteq Menu!Working
    BY <2>1
  <2> HIDE DEF MenuKeys
  <2>4. QED
    BY <1>1, <1>3, <2>2, <2>3
<1>5. CASE stored # None
  <2>1. Menu!Working = stored \cup UNION {Menu!Defaults(p) : p \in {q \in Menu!Providers : ~ \E k \in stored : k[1] = q}}
    BY <1>5 DEF Menu!Working
  <2>2. \A k \in Menu!Working : \/ k \in stored
                                \/ \E p \in Menu!Providers : k \in Menu!Defaults(p) /\ ~ \E j \in stored : j[1] = p
    BY <2>1
  <2>3. stored \subseteq Menu!Working
    BY <2>1
  <2>4. \A p \in Menu!Providers : (~ \E k \in stored : k[1] = p) => Menu!Defaults(p) \subseteq Menu!Working
    BY <2>1
  <2>5. stored \subseteq MenuKeys
    BY <1>5 DEF MenuInv, MenuTyped
  <2>6. \A p \in Menu!Providers :
           Menu!Sentinel(p) \in stored => \A k \in stored : k[1] = p => k = Menu!Sentinel(p)
    BY <1>5 DEF MenuInv, MarksAlone
  <2> HIDE DEF MenuKeys
  <2>7. Menu!Working \subseteq MenuKeys
    BY <1>1, <2>2, <2>5
  <2>8. \A p \in Menu!Providers : Menu!Sentinel(p) \in Menu!Working => Menu!Sentinel(p) \in stored
    BY <1>3, <2>2
  <2>9. ASSUME NEW p \in Menu!Providers, Menu!Sentinel(p) \in Menu!Working, NEW k \in Menu!Working, k[1] = p
        PROVE  k = Menu!Sentinel(p)
    BY <1>1, <1>2, <2>2, <2>6, <2>8, <2>9
  <2>10. ASSUME NEW p \in Menu!Providers, ~ \E k \in Menu!Working : k[1] = p
         PROVE  Menu!Defaults(p) = {}
    BY <1>1, <2>3, <2>4, <2>10
  <2>11. QED
    BY <1>5, <2>7, <2>8, <2>9, <2>10
<1>6. QED
  BY <1>4, <1>5

\* A set that replaces the working set and leaves every provider something of
\* its own, unless it had nothing, is the working set after the step.
LEMMA WorkingAfter ==
    ASSUME MenuBounds, MenuInv, stored' \in SUBSET MenuKeys, catalog' = catalog,
           \A p \in Menu!Providers : (\E k \in Menu!Working : k[1] = p) => \E k \in stored' : k[1] = p
    PROVE  stored' # None /\ Menu!Working' = stored'
<1>1. stored' # None
  BY DEF MenuBounds
<1>2. \A p \in Menu!Providers : Menu!Defaults(p)' = Menu!Defaults(p)
  BY DEF Menu!Defaults
<1>3. Menu!Working' = stored' \cup UNION {Menu!Defaults(p)' : p \in {q \in Menu!Providers : ~ \E k \in stored' : k[1] = q}}
  BY <1>1 DEF Menu!Working
<1>4. \A p \in Menu!Providers : (~ \E k \in stored' : k[1] = p) => Menu!Defaults(p)' = {}
  BY <1>2, WorkingKeys
<1>5. QED
  BY <1>1, <1>3, <1>4

-----------------------------------------------------------------------------
LEMMA ToggledKeys ==
    ASSUME MenuBounds, MenuInv, NEW p \in Menu!Providers, NEW m \in Menu!Models
    PROVE  LET next == Menu!Toggled(p, m) IN
           /\ next \in SUBSET MenuKeys
           /\ \A q \in Menu!Providers : (\E k \in Menu!Working : k[1] = q) => \E k \in next : k[1] = q
           /\ \A q \in Menu!Providers :
                 Menu!Sentinel(q) \in next => \A k \in next : k[1] = q => k = Menu!Sentinel(q)
           /\ \A q \in Menu!Providers \ {p} : \A k : k[1] = q => (k \in next <=> k \in Menu!Working)
           /\ {k \in next : k[2] # None} =
                 IF Menu!Key(p, m) \in Menu!Working THEN Menu!Visible \ {Menu!Key(p, m)}
                 ELSE Menu!Visible \cup {Menu!Key(p, m)}
<1> DEFINE next == Menu!Toggled(p, m)
           key == <<p, m>>
           mark == <<p, None>>
           W == Menu!Working
<1>1. m # None /\ key # mark /\ key \in MenuKeys /\ mark \in MenuKeys
  BY DEF MenuBounds, MenuKeys
<1>2. W \subseteq MenuKeys
  BY WorkingKeys
<1>3. \A q \in Menu!Providers :
         <<q, None>> \in W => \A k \in W : k[1] = q => k = <<q, None>>
  BY WorkingKeys DEF Menu!Sentinel
<1>4. key[1] = p /\ key[2] = m /\ mark[1] = p /\ mark[2] = None
  OBVIOUS
<1>5. \A k \in MenuKeys : k = <<k[1], k[2]>>
  BY DEF MenuKeys
<1>6. Menu!Visible = {k \in W : k[2] # None}
  BY DEF Menu!Visible
<1>7. CASE key \notin W
  <2>1. next = (W \ {mark}) \cup {key}
    BY <1>7 DEF Menu!Toggled, Menu!Key, Menu!Sentinel
  <2> HIDE DEF MenuKeys, next, W
  <2>2. \A q \in Menu!Providers : (\E k \in W : k[1] = q) => \E k \in next : k[1] = q
    BY <1>4, <2>1
  <2>3. ASSUME NEW q \in Menu!Providers, <<q, None>> \in next, NEW k \in next, k[1] = q
        PROVE  k = <<q, None>>
    <3>1. q # p
      BY <1>1, <1>4, <2>1, <2>3
    <3>2. QED
      BY <1>1, <1>3, <1>4, <2>1, <2>3, <3>1
  <2>4. \A q \in Menu!Providers \ {p} : \A k : k[1] = q => (k \in next <=> k \in W)
    BY <1>4, <2>1
  <2>5. {k \in next : k[2] # None} = Menu!Visible \cup {key}
    BY <1>1, <1>4, <1>6, <2>1
  <2>6. next \in SUBSET MenuKeys
    BY <1>1, <1>2, <2>1
  <2>7. QED
    BY <1>7, <2>2, <2>3, <2>4, <2>5, <2>6 DEF next, W, Menu!Sentinel, Menu!Key
<1>8. CASE key \in W /\ \E k \in W \ {key} : k[1] = p /\ k[2] # None
  <2>1. next = W \ {key}
    BY <1>8 DEF Menu!Toggled, Menu!Key, Menu!Sentinel
  <2> HIDE DEF MenuKeys, next, W
  <2>2. \A q \in Menu!Providers : (\E k \in W : k[1] = q) => \E k \in next : k[1] = q
    BY <1>4, <1>8, <2>1
  <2>3. \A q \in Menu!Providers : <<q, None>> \in next => \A k \in next : k[1] = q => k = <<q, None>>
    BY <1>3, <2>1
  <2>4. \A q \in Menu!Providers \ {p} : \A k : k[1] = q => (k \in next <=> k \in W)
    BY <1>4, <2>1
  <2>5. {k \in next : k[2] # None} = Menu!Visible \ {key}
    BY <1>6, <2>1
  <2>6. QED
    BY <1>2, <1>8, <2>1, <2>2, <2>3, <2>4, <2>5 DEF next, W, Menu!Sentinel, Menu!Key
<1>9. CASE key \in W /\ ~ \E k \in W \ {key} : k[1] = p /\ k[2] # None
  <2>1. next = (W \ {key}) \cup {mark}
    BY <1>9 DEF Menu!Toggled, Menu!Key, Menu!Sentinel
  <2> HIDE DEF MenuKeys, next, W
  <2>2. \A q \in Menu!Providers : (\E k \in W : k[1] = q) => \E k \in next : k[1] = q
    BY <1>4, <2>1
  <2>3. ASSUME NEW q \in Menu!Providers, <<q, None>> \in next, NEW k \in next, k[1] = q
        PROVE  k = <<q, None>>
    <3>1. CASE q = p
      <4>1. CASE k = mark
        BY <3>1, <4>1
      <4>2. CASE k \in W \ {key}
        <5>1. k[2] = None
          BY <1>9, <2>3, <3>1, <4>2
        <5>2. QED
          BY <1>2, <1>5, <2>3, <4>2, <5>1
      <4>3. QED
        BY <2>1, <2>3, <4>1, <4>2
    <3>2. CASE q # p
      BY <1>3, <1>4, <2>1, <2>3, <3>2
    <3>3. QED
      BY <3>1, <3>2
  <2>4. \A q \in Menu!Providers \ {p} : \A k : k[1] = q => (k \in next <=> k \in W)
    BY <1>4, <2>1
  <2>5. {k \in next : k[2] # None} = Menu!Visible \ {key}
    BY <1>4, <1>6, <2>1
  <2>6. next \in SUBSET MenuKeys
    BY <1>1, <1>2, <2>1
  <2>7. QED
    BY <1>9, <2>2, <2>3, <2>4, <2>5, <2>6 DEF next, W, Menu!Sentinel, Menu!Key
<1>10. QED
  BY <1>7, <1>8, <1>9

LEMMA ProviderSetKeys ==
    ASSUME MenuBounds, MenuInv, NEW p \in Menu!Providers, NEW on \in BOOLEAN,
           \E m \in Menu!Models : Menu!IsFamily(catalog[p], m)
    PROVE  LET next == Menu!ProviderSet(p, on) IN
           /\ next \in SUBSET MenuKeys
           /\ \A q \in Menu!Providers : (\E k \in Menu!Working : k[1] = q) => \E k \in next : k[1] = q
           /\ \A q \in Menu!Providers :
                 Menu!Sentinel(q) \in next => \A k \in next : k[1] = q => k = Menu!Sentinel(q)
           /\ \A q \in Menu!Providers \ {p} : \A k : k[1] = q => (k \in next <=> k \in Menu!Working)
<1> DEFINE next == Menu!ProviderSet(p, on)
           W == Menu!Working
           own == IF on THEN {<<p, m>> : m \in {k \in Menu!Models : Menu!IsFamily(catalog[p], k)}}
                  ELSE {<<p, None>>}
<1>1. next = {k \in W : k[1] # p} \cup own
  BY DEF Menu!ProviderSet, Menu!Key, Menu!Sentinel
<1>2. own # {} /\ own \subseteq MenuKeys /\ \A k \in own : k[1] = p
  <2>1. own \subseteq {p} \X (Menu!Models \cup {None})
    OBVIOUS
  <2>2. CASE on
    <3>1. PICK m \in Menu!Models : Menu!IsFamily(catalog[p], m)
      OBVIOUS
    <3>2. <<p, m>> \in own
      BY <2>2, <3>1
    <3>3. QED
      BY <2>1, <3>2 DEF MenuKeys
  <2>3. CASE ~on
    BY <2>1, <2>3 DEF MenuKeys
  <2>4. QED
    BY <2>2, <2>3
<1>3. on => <<p, None>> \notin own
  BY DEF MenuBounds
<1>4. ~on => own = {<<p, None>>}
  OBVIOUS
<1>5. W \subseteq MenuKeys
  BY WorkingKeys
<1>6. \A q \in Menu!Providers :
         <<q, None>> \in W => \A k \in W : k[1] = q => k = <<q, None>>
  BY WorkingKeys DEF Menu!Sentinel
<1> HIDE DEF MenuKeys, next, W, own
<1>7. \A q \in Menu!Providers : <<q, None>>[1] = q
  OBVIOUS
<1>8. \A q \in Menu!Providers : (\E k \in W : k[1] = q) => \E k \in next : k[1] = q
  BY <1>1, <1>2
<1>9. ASSUME NEW q \in Menu!Providers, <<q, None>> \in next, NEW k \in next, k[1] = q
      PROVE  k = <<q, None>>
  BY <1>1, <1>2, <1>3, <1>4, <1>6, <1>7, <1>9
<1>10. \A q \in Menu!Providers \ {p} : \A k : k[1] = q => (k \in next <=> k \in W)
  BY <1>1, <1>2
<1>11. QED
  BY <1>1, <1>2, <1>5, <1>8, <1>9, <1>10 DEF next, W, Menu!Sentinel

-----------------------------------------------------------------------------
\* What a step does to what is stored: nothing, one switch, or one provider.
LEMMA MenuInvInit == ASSUME MenuBounds, Menu!MenuInit PROVE MenuInv
<1>1. Catalogs \subseteq Seq(Menu!Models)
  BY DEF MenuBounds
<1>2. catalog \in [Menu!Providers -> Seq(Menu!Models)]
  BY <1>1 DEF Menu!MenuInit
<1>3. QED
  BY <1>2 DEF Menu!MenuInit, MenuInv, MenuTyped, MarksAlone

MenuStores ==
    \/ stored' = stored
    \/ \E p \in Menu!Providers, m \in Menu!Models :
          /\ stored' = Menu!Toggled(p, m) /\ catalog' = catalog
          /\ changes' # changes /\ last' = [op |-> "toggle", prov |-> p, model |-> m]
    \/ \E p \in Menu!Providers, on \in BOOLEAN :
          /\ \E m \in Menu!Models : Menu!IsFamily(catalog[p], m)
          /\ stored' = Menu!ProviderSet(p, on) /\ catalog' = catalog
          /\ changes' # changes /\ last' = [op |-> "master", prov |-> p, model |-> None]

LEMMA MenuSteps ==
    ASSUME MenuBounds, MenuInv, [Menu!MenuNext]_(Menu!menuVars)
    PROVE  /\ MenuStores
           /\ catalog' \in [Menu!Providers -> Seq(Menu!Models)] /\ changes' \in Nat
           /\ Menu!Done("toggle") => \E p \in Menu!Providers, m \in Menu!Models :
                                         stored' = Menu!Toggled(p, m) /\ catalog' = catalog
                                         /\ last' = [op |-> "toggle", prov |-> p, model |-> m]
<1>1. catalog \in [Menu!Providers -> Seq(Menu!Models)] /\ changes \in Nat
  BY DEF MenuInv, MenuTyped
<1> DEFINE Goal == /\ MenuStores
                   /\ catalog' \in [Menu!Providers -> Seq(Menu!Models)] /\ changes' \in Nat
                   /\ Menu!Done("toggle") => \E p \in Menu!Providers, m \in Menu!Models :
                                         stored' = Menu!Toggled(p, m) /\ catalog' = catalog
                                         /\ last' = [op |-> "toggle", prov |-> p, model |-> m]
<1>2. ASSUME NEW p \in Menu!Providers, NEW m \in Menu!Models, Menu!Toggle(p, m) PROVE Goal
  BY <1>1, <1>2 DEF Menu!Toggle, Menu!MayChange, MenuStores
<1>3. ASSUME NEW p \in Menu!Providers, NEW on \in BOOLEAN, Menu!SetProvider(p, on) PROVE Goal
  <2>1. /\ stored' = Menu!ProviderSet(p, on) /\ catalog' = catalog /\ changes' = changes + 1
        /\ last' = [op |-> "master", prov |-> p, model |-> None]
        /\ \E m \in Menu!Models : Menu!IsFamily(catalog[p], m)
    BY <1>3 DEF Menu!SetProvider, Menu!MayChange
  <2>2. MenuStores
    BY <1>1, <2>1 DEF MenuStores
  <2>3. ~ Menu!Done("toggle")
    BY <2>1 DEF Menu!Done
  <2>4. QED
    BY <1>1, <2>1, <2>2, <2>3
<1>4. ASSUME NEW p \in Menu!Providers, Menu!Refresh(p) PROVE Goal
  <2>1. PICK cat \in Catalogs : catalog' = [catalog EXCEPT ![p] = cat]
    BY <1>4 DEF Menu!Refresh
  <2>2. cat \in Seq(Menu!Models)
    BY <2>1 DEF MenuBounds
  <2>3. catalog' \in [Menu!Providers -> Seq(Menu!Models)]
    BY <1>1, <2>1, <2>2
  <2>4. stored' = stored /\ last' = None /\ changes' = changes + 1
    BY <1>4 DEF Menu!Refresh, Menu!MayChange
  <2>5. QED
    BY <1>1, <2>3, <2>4 DEF MenuStores, Menu!Done
<1>5. ASSUME NEW n \in 1 .. Len(Menu!Rows), Menu!Commit(n) PROVE Goal
  BY <1>1, <1>5 DEF Menu!Commit, Menu!MayChange, MenuStores, Menu!Done
<1>6. ASSUME UNCHANGED <<catalog, stored, last, changes>> PROVE Goal
  BY <1>1, <1>6 DEF MenuStores, Menu!Done
<1>7. ASSUME NEW p \in Menu!Providers, Menu!Collapse(p) PROVE Goal
  BY <1>6, <1>7 DEF Menu!Collapse
<1>8. ASSUME NEW delta \in {-1, 1}, Menu!StepKb(delta) PROVE Goal
  BY <1>6, <1>8 DEF Menu!StepKb
<1>9. ASSUME Menu!Search PROVE Goal
  BY <1>6, <1>9 DEF Menu!Search
<1>10. CASE UNCHANGED Menu!menuVars
  BY <1>6, <1>10 DEF Menu!menuVars
<1> HIDE DEF Goal
<1>11. ASSUME Menu!MenuNext PROVE Goal
  <2>1. \/ \E p \in Menu!Providers :
              \/ \E m \in Menu!Models : Menu!Toggle(p, m)
              \/ \E on \in BOOLEAN : Menu!SetProvider(p, on)
              \/ Menu!Refresh(p)
              \/ Menu!Collapse(p)
        \/ \E delta \in {-1, 1} : Menu!StepKb(delta)
        \/ \E n \in 1 .. Len(Menu!Rows) : Menu!Commit(n)
        \/ Menu!Search
    BY <1>11 DEF Menu!MenuNext
  <2>2. CASE \E p \in Menu!Providers :
                \/ \E m \in Menu!Models : Menu!Toggle(p, m)
                \/ \E on \in BOOLEAN : Menu!SetProvider(p, on)
                \/ Menu!Refresh(p)
                \/ Menu!Collapse(p)
    BY <1>2, <1>3, <1>4, <1>7, <2>2
  <2>3. CASE \E n \in 1 .. Len(Menu!Rows) : Menu!Commit(n)
    BY <1>5, <2>3
  <2>4. CASE \E delta \in {-1, 1} : Menu!StepKb(delta)
    BY <1>8, <2>4
  <2>5. QED
    BY <1>9, <2>1, <2>2, <2>3, <2>4
<1>12. QED
  BY <1>10, <1>11 DEF Goal

LEMMA MenuInvNext ==
    ASSUME MenuBounds, MenuInv, [Menu!MenuNext]_(Menu!menuVars)
    PROVE  MenuInv'
<1>1. /\ MenuStores
      /\ catalog' \in [Menu!Providers -> Seq(Menu!Models)] /\ changes' \in Nat
  BY MenuSteps
<1>2. \A p : Menu!Sentinel(p)' = Menu!Sentinel(p)
  BY DEF Menu!Sentinel
<1> DEFINE Marked(S) == \A q \in Menu!Providers :
                 Menu!Sentinel(q) \in S => \A k \in S : k[1] = q => k = Menu!Sentinel(q)
<1>3. CASE stored' = stored
  BY <1>1, <1>3 DEF MenuInv, MenuTyped, MarksAlone, Menu!Sentinel, MenuKeys, Menu!Providers, Menu!Models
<1>4. ASSUME NEW p \in Menu!Providers, NEW m \in Menu!Models, stored' = Menu!Toggled(p, m)
      PROVE  stored' \in SUBSET MenuKeys /\ Marked(stored')
  BY <1>4, ToggledKeys
<1>5. ASSUME NEW p \in Menu!Providers, NEW on \in BOOLEAN, stored' = Menu!ProviderSet(p, on),
             \E m \in Menu!Models : Menu!IsFamily(catalog[p], m)
      PROVE  stored' \in SUBSET MenuKeys /\ Marked(stored')
  BY <1>5, ProviderSetKeys
<1>6. CASE stored' \in SUBSET MenuKeys /\ Marked(stored')
  BY <1>1, <1>6 DEF MenuInv, MenuTyped, MarksAlone, Menu!Sentinel, MenuKeys, Menu!Providers, Menu!Models
<1>7. QED
  BY <1>1, <1>3, <1>4, <1>5, <1>6 DEF MenuStores

-----------------------------------------------------------------------------
LEMMA FlipsOne ==
    ASSUME MenuBounds, MenuInv, [Menu!MenuNext]_(Menu!menuVars)
    PROVE  Menu!ToggleFlipsOne
<1>1. SUFFICES ASSUME Menu!Done("toggle")
               PROVE  LET k == Menu!Key(last'.prov, last'.model) IN
                      Menu!Visible' = (Menu!Visible \ {k}) \cup ({k} \ Menu!Visible)
  BY DEF Menu!ToggleFlipsOne
<1>2. PICK p \in Menu!Providers : \E m \in Menu!Models :
          stored' = Menu!Toggled(p, m) /\ catalog' = catalog /\ last' = [op |-> "toggle", prov |-> p, model |-> m]
  BY <1>1, MenuSteps
<1>3. PICK m \in Menu!Models :
          stored' = Menu!Toggled(p, m) /\ catalog' = catalog /\ last' = [op |-> "toggle", prov |-> p, model |-> m]
  BY <1>2
<1> DEFINE key == Menu!Key(p, m)
<1>4. /\ stored' \in SUBSET MenuKeys
      /\ \A q \in Menu!Providers : (\E k \in Menu!Working : k[1] = q) => \E k \in stored' : k[1] = q
      /\ {k \in stored' : k[2] # None} =
            IF key \in Menu!Working THEN Menu!Visible \ {key} ELSE Menu!Visible \cup {key}
  BY <1>3, ToggledKeys
<1>5. Menu!Working' = stored'
  BY <1>3, <1>4, WorkingAfter
<1>6. Menu!Visible' = {k \in stored' : k[2] # None}
  BY <1>5 DEF Menu!Visible
<1>7. key[2] # None
  BY DEF MenuBounds, Menu!Key
<1>8. key \in Menu!Working <=> key \in Menu!Visible
  BY <1>7 DEF Menu!Visible
<1>9. Menu!Key(last'.prov, last'.model) = key
  BY <1>3
<1> HIDE DEF key
<1>10. QED
  BY <1>4, <1>6, <1>8, <1>9

\* While a provider's mark is stored, its mark alone is in the working set.
LEMMA MarkKept ==
    ASSUME MenuBounds, MenuInv, NEW p \in Menu!Providers, stored # None, Menu!Sentinel(p) \in stored
    PROVE  /\ Menu!Sentinel(p) \in Menu!Working
           /\ ~ \E k \in Menu!Visible : k[1] = p
<1>1. Menu!Sentinel(p) \in Menu!Working
  BY DEF Menu!Working
<1>2. \A k \in Menu!Working : k[1] = p => k = Menu!Sentinel(p)
  BY <1>1, WorkingKeys
<1>3. QED
  BY <1>1, <1>2 DEF Menu!Visible, Menu!Sentinel

LEMMA StaysHidden ==
    ASSUME MenuBounds, MenuInv, [Menu!MenuNext]_(Menu!menuVars)
    PROVE  Menu!HiddenStaysHidden
<1>1. SUFFICES ASSUME NEW p \in Menu!Providers, stored # None, Menu!Sentinel(p) \in stored,
                      changes' = changes \/ last' = None \/ last'.op = "pick" \/ last'.prov # p
               PROVE  ~ \E k \in Menu!Visible' : k[1] = p
  BY DEF Menu!HiddenStaysHidden
<1>2. MenuInv'
  BY MenuInvNext
<1>3. Menu!Sentinel(p) \in Menu!Working /\ Menu!Sentinel(p)[1] = p
  BY <1>1, MarkKept DEF Menu!Sentinel
<1>4. CASE stored' = stored
  <2>1. MenuBounds' /\ Menu!Sentinel(p)' = Menu!Sentinel(p)
    BY <1>1 DEF MenuBounds, Menu!Models, MenuKeys, Menu!Providers, Menu!Sentinel
  <2>2. ~ \E k \in Menu!Visible' : k[1] = p
    <3>1. Menu!Working' = stored' \cup UNION {Menu!Defaults(q)' : q \in {r \in Menu!Providers : ~ \E k \in stored' : k[1] = r}}
      BY <1>1, <1>4 DEF Menu!Working
    <3>2. \A q \in Menu!Providers : \A k \in Menu!Defaults(q)' : k[1] = q
      <4>1. ASSUME NEW q \in Menu!Providers, NEW k \in Menu!Defaults(q)' PROVE k[1] = q
        <5>1. \E n \in DOMAIN catalog'[q] : k = <<q, catalog'[q][n]>>
          BY <4>1 DEF Menu!Defaults, Menu!Key
        <5>2. QED
          BY <5>1
      <4>2. QED
        BY <4>1
    <3>3. \A k \in Menu!Working' : k[1] = p => k \in stored
      BY <1>1, <1>3, <1>4, <3>1, <3>2
    <3>4. \A k \in stored : k[1] = p => k = Menu!Sentinel(p)
      BY <1>1 DEF MenuInv, MarksAlone
    <3>5. QED
      BY <3>3, <3>4 DEF Menu!Visible, Menu!Sentinel
  <2>3. QED
    BY <2>2
<1>5. ASSUME NEW q \in Menu!Providers \ {p}, catalog' = catalog, stored' \in SUBSET MenuKeys,
             \A r \in Menu!Providers : (\E k \in Menu!Working : k[1] = r) => \E k \in stored' : k[1] = r,
             \A r \in Menu!Providers \ {q} : \A k : k[1] = r => (k \in stored' <=> k \in Menu!Working)
      PROVE  ~ \E k \in Menu!Visible' : k[1] = p
  <2>1. Menu!Working' = stored'
    BY <1>5, WorkingAfter
  <2>2. \A k \in Menu!Visible' : k[1] = p => k \in Menu!Visible
    BY <1>5, <2>1 DEF Menu!Visible
  <2>3. QED
    BY <1>1, <2>2, MarkKept
<1>6. ASSUME NEW q \in Menu!Providers, NEW m \in Menu!Models, stored' = Menu!Toggled(q, m), catalog' = catalog, q # p
      PROVE  ~ \E k \in Menu!Visible' : k[1] = p
  BY <1>5, <1>6, ToggledKeys
<1>7. ASSUME NEW q \in Menu!Providers, NEW on \in BOOLEAN, stored' = Menu!ProviderSet(q, on), catalog' = catalog, q # p,
             \E m \in Menu!Models : Menu!IsFamily(catalog[q], m)
      PROVE  ~ \E k \in Menu!Visible' : k[1] = p
  BY <1>5, <1>7, ProviderSetKeys
<1>8. \A q \in Menu!Providers, m \in Menu!Models \cup {None} :
          changes' # changes /\ (last' = [op |-> "toggle", prov |-> q, model |-> m]
                                  \/ last' = [op |-> "master", prov |-> q, model |-> m]) => q # p
  BY <1>1 DEF MenuBounds
<1>9. MenuStores
  BY MenuSteps
<1>10. QED
  BY <1>4, <1>6, <1>7, <1>8, <1>9 DEF MenuStores

\* For any providers, catalogues and searches, a switch of the dialog turns the
\* one row it stands at, whatever was stored before (toggleModelVisibility).
THEOREM SwitchTurnsOne ==
    ASSUME MenuBounds
    PROVE  Menu!MenuSpec => [][Menu!ToggleFlipsOne]_(Menu!menuVars)
<1>1. Menu!MenuInit => MenuInv
  BY MenuInvInit
<1>2. MenuInv /\ [Menu!MenuNext]_(Menu!menuVars) => MenuInv'
  BY MenuInvNext
<1>3. MenuInv /\ [Menu!MenuNext]_(Menu!menuVars) => Menu!ToggleFlipsOne
  BY FlipsOne
<1>4. QED
  BY <1>1, <1>2, <1>3, PTL DEF Menu!MenuSpec

\* A provider hidden as a whole stays hidden until one of its own switches is
\* turned, whatever the other switches, the catalogues and the picks do.
THEOREM HiddenProviderStays ==
    ASSUME MenuBounds
    PROVE  Menu!MenuSpec => [][Menu!HiddenStaysHidden]_(Menu!menuVars)
<1>1. Menu!MenuInit => MenuInv
  BY MenuInvInit
<1>2. MenuInv /\ [Menu!MenuNext]_(Menu!menuVars) => MenuInv'
  BY MenuInvNext
<1>3. MenuInv /\ [Menu!MenuNext]_(Menu!menuVars) => Menu!HiddenStaysHidden
  BY StaysHidden
<1>4. QED
  BY <1>1, <1>2, <1>3, PTL DEF Menu!MenuSpec

-----------------------------------------------------------------------------
(* MemoryNotes, for any calls, texts and budgets.                          *)

\* The budgets are numbers and one is the largest.
NotesBounds ==
    /\ Limits \subseteq Nat
    /\ \E top \in Limits : \A n \in Limits : n <= top

NotesTyped ==
    /\ note \in [entries : Seq(Entries), other : Nat] /\ limit \in Limits /\ prompt \in Seq(Entries)
    /\ call \in [Calls -> [pc : {"ready", "look", "write"}, op : Notes!Ops \cup {None},
                           next : Seq(Entries), budget : Nat]]

\* What a call that is under way will write is within the budget it was held
\* against, unless it only takes an entry out.
NotesHeld ==
    \A c \in Calls :
        call[c].pc # "ready" =>
            Notes!Usage(call[c].next) <= call[c].budget \/ call[c].op.do = "remove"

NotesInv == NotesTyped /\ NotesHeld /\ Notes!PromptBounded

-----------------------------------------------------------------------------
LEMMA NotesCard == \A X : Notes!Cardinality(X) = Cardinality(X)
BY DEF Notes!Cardinality, Cardinality

LEMMA UsageIsNat ==
    ASSUME NEW s \in Seq(Entries)
    PROVE  Notes!Usage(s) \in Nat
<1> DEFINE P == {i \in DOMAIN s : s[i] \in Long}
<1>1. Len(s) \in Nat /\ DOMAIN s = 1 .. Len(s)
  OBVIOUS
<1>2. IsFiniteSet(1 .. Len(s))
  BY <1>1, FS_Interval
<1>3. P \in SUBSET (1 .. Len(s))
  BY <1>1
<1>4. Cardinality(P) \in Nat
  BY <1>2, <1>3, FS_Subset, FS_CardinalityType
<1>5. Notes!Usage(s) = Len(s) + Cardinality(P)
  BY NotesCard DEF Notes!Usage
<1>6. QED
  BY <1>1, <1>4, <1>5

\* The usage of a list with one entry more.
LEMMA UsageOfAppend ==
    ASSUME NEW s \in Seq(Entries), NEW e \in Entries
    PROVE  Notes!Usage(Append(s, e)) = Notes!Usage(s) + Notes!Cost(e)
<1> DEFINE t == Append(s, e)
           P == {i \in DOMAIN s : s[i] \in Long}
           Q == {i \in DOMAIN t : t[i] \in Long}
<1>1. Len(s) \in Nat /\ DOMAIN s = 1 .. Len(s)
  OBVIOUS
<1>2. /\ Len(t) = Len(s) + 1 /\ t \in Seq(Entries) /\ t[Len(s) + 1] = e
      /\ \A i \in 1 .. Len(s) : t[i] = s[i]
  BY AppendProperties
<1>3. DOMAIN t = 1 .. Len(s) + 1
  BY <1>2
<1>4. IsFiniteSet(1 .. Len(s))
  BY <1>1, FS_Interval
<1>5. P \in SUBSET (1 .. Len(s))
  BY <1>1
<1>6. IsFiniteSet(P) /\ Cardinality(P) \in Nat
  BY <1>4, <1>5, FS_Subset, FS_CardinalityType
<1>7. Notes!Usage(s) = Len(s) + Cardinality(P) /\ Notes!Usage(t) = Len(t) + Cardinality(Q)
  BY NotesCard DEF Notes!Usage
<1> HIDE DEF t
<1>8. CASE e \in Long
  <2>1. Q = P \cup {Len(s) + 1}
    BY <1>1, <1>2, <1>3, <1>8
  <2>2. Len(s) + 1 \notin P
    BY <1>1, <1>5
  <2> HIDE DEF P, Q
  <2>3. Cardinality(Q) = Cardinality(P) + 1
    BY <1>6, <2>1, <2>2, FS_AddElement
  <2>4. Notes!Cost(e) = 2
    BY <1>8 DEF Notes!Cost
  <2>5. Notes!Usage(t) = Notes!Usage(s) + Notes!Cost(e)
    BY <1>1, <1>2, <1>6, <1>7, <2>3, <2>4
  <2>6. QED
    BY <2>5 DEF t
<1>9. CASE e \notin Long
  <2>1. Q = P
    BY <1>1, <1>2, <1>3, <1>9
  <2>2. Notes!Cost(e) = 1
    BY <1>9 DEF Notes!Cost
  <2> HIDE DEF P, Q
  <2>3. Notes!Usage(t) = Notes!Usage(s) + Notes!Cost(e)
    BY <1>1, <1>2, <1>6, <1>7, <2>1, <2>2
  <2>4. QED
    BY <2>3 DEF t
<1>10. QED
  BY <1>8, <1>9

LEMMA UsageOfNothing == Notes!Usage(<<>>) = 0
<1>1. {i \in DOMAIN <<>> : <<>>[i] \in Long} = {}
  OBVIOUS
<1>2. Cardinality({}) = 0
  BY FS_EmptySet
<1>3. Len(<<>>) = 0
  OBVIOUS
<1>4. Notes!Usage(<<>>) = Len(<<>>) + Cardinality({i \in DOMAIN <<>> : <<>>[i] \in Long})
  BY NotesCard DEF Notes!Usage
<1>5. QED
  BY <1>1, <1>2, <1>3, <1>4

-----------------------------------------------------------------------------
\* A set of numbers below a bound that is not empty has a largest.
LEMMA LargestOf ==
    ASSUME NEW n \in Nat, NEW S \in SUBSET (0 .. n), S # {}
    PROVE  \E x \in S : \A y \in S : x >= y
<1> DEFINE T == {n - x : x \in S}
<1>1. T \in SUBSET Nat /\ T # {}
  <2>1. \A x \in S : n - x \in Nat
    OBVIOUS
  <2>2. QED
    BY <2>1
<1>2. \E t \in T : \A u \in T : ~ (<<u, t>> \in OpToRel(<, Nat))
  BY <1>1, NatLessThanWellFounded, WFMin
<1>3. PICK t \in T : \A u \in T : ~ (u < t)
  BY <1>1, <1>2 DEF OpToRel
<1>4. PICK x \in S : t = n - x
  BY <1>3
<1>5. \A y \in S : x >= y
  <2>1. ASSUME NEW y \in S PROVE x >= y
    <3>1. n - y \in T
      OBVIOUS
    <3>2. ~ (n - y < n - x)
      BY <1>3, <1>4, <3>1
    <3>3. x \in Int /\ y \in Int
      OBVIOUS
    <3>4. QED
      BY <3>2, <3>3
  <2>2. QED
    BY <2>1
<1>6. QED
  BY <1>5

\* What a prompt is given of the notes is within the budget.
LEMMA SelectedWithin ==
    ASSUME NEW s \in Seq(Entries), NEW max \in Nat
    PROVE  Notes!Selected(s, max) \in Seq(Entries) /\ Notes!Usage(Notes!Selected(s, max)) <= max
<1> DEFINE Last(n) == SubSeq(s, Len(s) - n + 1, Len(s))
           fits == {n \in 0 .. Len(s) : Notes!Usage(Last(n)) <= max}
<1>1. Len(s) \in Nat
  OBVIOUS
<1>2. Last(0) = <<>>
  BY <1>1, SubSeqEmpty
<1>3. 0 \in fits
  <2>1. Notes!Usage(Last(0)) = 0
    BY <1>2, UsageOfNothing
  <2> HIDE DEF Last
  <2>2. QED
    BY <1>1, <2>1
<1>4. fits \in SUBSET (0 .. Len(s)) /\ fits # {}
  BY <1>3
<1>5. \E x \in fits : \A y \in fits : x >= y
  <2> HIDE DEF fits
  <2>1. QED
    BY <1>1, <1>4, LargestOf
<1>6. Notes!Max(fits) \in fits
  BY <1>5 DEF Notes!Max
<1>7. Notes!Selected(s, max) = Last(Notes!Max(fits))
  BY DEF Notes!Selected
<1>8. Last(Notes!Max(fits)) \in Seq(Entries)
  <2>1. Notes!Max(fits) \in 0 .. Len(s)
    BY <1>6
  <2>2. \A i \in Len(s) - Notes!Max(fits) + 1 .. Len(s) : s[i] \in Entries
    BY <1>1, <2>1
  <2> HIDE DEF fits
  <2>3. Len(s) - Notes!Max(fits) + 1 \in Int /\ Len(s) \in Int
    BY <1>1, <2>1
  <2>4. QED
    BY <2>2, <2>3, SubSeqProperties
<1>9. QED
  BY <1>6, <1>7, <1>8

-----------------------------------------------------------------------------
LEMMA EntryRemoved ==
    ASSUME NEW s \in Seq(Entries), NEW i \in 1 .. Len(s)
    PROVE  Notes!RemoveAt(s, i) \in Seq(Entries)
<1>1. Len(s) \in Nat /\ \A k \in 1 .. Len(s) : s[k] \in Entries
  OBVIOUS
<1>2. SubSeq(s, 1, i - 1) \in Seq(Entries)
  BY <1>1, SubSeqProperties
<1>3. SubSeq(s, i + 1, Len(s)) \in Seq(Entries)
  BY <1>1, SubSeqProperties
<1>4. QED
  BY <1>2, <1>3, ConcatProperties DEF Notes!RemoveAt

\* The three operations on a list, when they are not refused.
LEMMA AppliedWithin ==
    ASSUME NEW op \in Notes!Ops, NEW s \in Seq(Entries), NEW max \in Nat,
           Notes!Applied(op, s, max) # Notes!Refused
    PROVE  LET t == Notes!Applied(op, s, max) IN
           t \in Seq(Entries) /\ (Notes!Usage(t) <= max \/ op.do = "remove")
<1> DEFINE t == Notes!Applied(op, s, max)
           M == Notes!Matches(s, op.old)
           at == CHOOSE i \in M : TRUE
<1>1. op.do \in {"add", "replace", "remove"}
  BY DEF Notes!Ops
<1>2. M \subseteq 1 .. Len(s)
  BY DEF Notes!Matches
<1>3. Cardinality(M) = 1 => at \in 1 .. Len(s)
  <2>1. Cardinality(M) = 1 => M # {}
    BY FS_EmptySet
  <2>2. QED
    BY <1>2, <2>1
<1>4. CASE op.do = "add"
  <2>1. op.e \in Entries
    BY <1>4 DEF Notes!Ops
  <2>2. t = Append(s, op.e) /\ ~(Notes!Usage(s) + Notes!Cost(op.e) > max)
    BY <1>4 DEF Notes!Applied, Notes!Added
  <2>3. Notes!Usage(t) = Notes!Usage(s) + Notes!Cost(op.e)
    BY <2>1, <2>2, UsageOfAppend
  <2>4. Notes!Cost(op.e) \in Nat /\ Notes!Usage(s) \in Nat
    BY UsageIsNat DEF Notes!Cost
  <2>5. t \in Seq(Entries)
    BY <2>1, <2>2, AppendProperties
  <2> HIDE DEF t
  <2>6. Notes!Usage(t) <= max
    BY <2>2, <2>3, <2>4
  <2>7. QED
    BY <2>5, <2>6 DEF t
<1>5. CASE op.do = "replace"
  <2>1. op.e \in Entries
    BY <1>5 DEF Notes!Ops
  <2> DEFINE u == [s EXCEPT ![at] = op.e]
  <2>2. /\ t = u /\ Cardinality(M) = 1 /\ ~(Notes!Usage(u) > max)
    BY <1>5, NotesCard DEF Notes!Applied, Notes!Replaced
  <2>3. u \in Seq(Entries)
    BY <1>3, <2>1, <2>2, ExceptSeq
  <2>4. Notes!Usage(u) \in Nat
    BY <2>3, UsageIsNat
  <2> HIDE DEF t, u
  <2>5. Notes!Usage(t) <= max
    BY <2>2, <2>4
  <2>6. QED
    BY <2>2, <2>3, <2>5 DEF t
<1>6. CASE op.do = "remove"
  <2>1. t = Notes!RemoveAt(s, at) /\ Cardinality(M) = 1
    BY <1>6, NotesCard DEF Notes!Applied, Notes!Removed
  <2>2. t \in Seq(Entries)
    BY <1>3, <2>1, EntryRemoved
  <2>3. QED
    BY <1>6, <2>2
<1>7. QED
  BY <1>1, <1>4, <1>5, <1>6

LEMMA LargestBudget ==
    ASSUME NotesBounds
    PROVE  Notes!Max(Limits) \in Nat /\ \A n \in Limits : n \in Nat /\ n <= Notes!Max(Limits)
<1>1. \E top \in Limits : \A n \in Limits : top >= n
  BY DEF NotesBounds
<1>2. Notes!Max(Limits) \in Limits /\ \A n \in Limits : Notes!Max(Limits) >= n
  BY <1>1 DEF Notes!Max
<1>3. QED
  BY <1>2 DEF NotesBounds

LEMMA NotesInvInit == ASSUME NotesBounds, Notes!NotesInit PROVE NotesInv
<1>1. Notes!Max(Limits) \in Nat
  BY LargestBudget
<1>2. <<>> \in Seq(Entries)
  OBVIOUS
<1>3. NotesTyped /\ NotesHeld
  BY <1>2 DEF Notes!NotesInit, NotesTyped, NotesHeld, Notes!Ready
<1>4. Notes!PromptBounded
  <2>1. limit \in Limits /\ prompt = <<>>
    BY DEF Notes!NotesInit
  <2>2. Notes!Usage(prompt) = 0
    BY <2>1, UsageOfNothing
  <2>3. QED
    BY <1>1, <2>2 DEF Notes!PromptBounded
<1>5. QED
  BY <1>3, <1>4 DEF NotesInv

-----------------------------------------------------------------------------
\* A step that leaves the calls alone, or takes one of them a place further.
LEMMA PromptGone ==
    ASSUME NotesBounds, prompt' = <<>>
    PROVE  Notes!PromptBounded' /\ prompt' \in Seq(Entries)
<1>1. Notes!Usage(prompt)' = 0
  <2>1. Notes!Usage(prompt') = 0
    BY UsageOfNothing
  <2>2. QED
    BY <2>1 DEF Notes!Usage
<1>2. Notes!Max(Limits) \in Nat
  BY LargestBudget
<1>3. QED
  BY <1>1, <1>2 DEF Notes!PromptBounded

LEMMA NotesInvNext ==
    ASSUME NotesBounds, NotesInv, [Notes!NotesNext]_(Notes!notesVars)
    PROVE  NotesInv'
<1> DEFINE Record == [pc : {"ready", "look", "write"}, op : Notes!Ops \cup {None},
                      next : Seq(Entries), budget : Nat]
<1>1. /\ note \in [entries : Seq(Entries), other : Nat] /\ limit \in Limits /\ prompt \in Seq(Entries)
      /\ call \in [Calls -> Record] /\ Limits \subseteq Nat
  BY DEF NotesInv, NotesTyped, NotesBounds
<1>2. Notes!Ready \in Record /\ Notes!Ready.pc = "ready"
  BY DEF Notes!Ready
<1>3. \A c \in Calls : call[c].pc # "ready" =>
          Notes!Usage(call[c].next) <= call[c].budget \/ call[c].op.do = "remove"
  BY DEF NotesInv, NotesHeld
<1>4. ASSUME UNCHANGED call, note' \in [entries : Seq(Entries), other : Nat], limit' \in Limits, prompt' = <<>>
      PROVE  NotesInv'
  <2>1. Notes!PromptBounded' /\ prompt' \in Seq(Entries)
    BY <1>4, PromptGone
  <2>2. NotesTyped'
    BY <1>1, <1>4, <2>1 DEF NotesTyped
  <2>3. NotesHeld'
    BY <1>3, <1>4 DEF NotesHeld, Notes!Usage
  <2>4. QED
    BY <2>1, <2>2, <2>3 DEF NotesInv
<1>5. ASSUME NEW c \in Calls, NEW q \in Record, call' = [call EXCEPT ![c] = q],
             q.pc # "ready" => Notes!Usage(q.next) <= q.budget \/ q.op.do = "remove",
             note' \in [entries : Seq(Entries), other : Nat], limit' = limit, prompt' = <<>>
      PROVE  NotesInv'
  <2>1. Notes!PromptBounded' /\ prompt' \in Seq(Entries)
    BY <1>5, PromptGone
  <2>2. call' \in [Calls -> Record]
    BY <1>1, <1>5
  <2>3. NotesTyped'
    BY <1>1, <1>5, <2>1, <2>2 DEF NotesTyped
  <2>4. \A d \in Calls : call'[d] = IF d = c THEN q ELSE call[d]
    BY <1>1, <1>5
  <2>5. NotesHeld'
    BY <1>3, <1>5, <2>4 DEF NotesHeld, Notes!Usage
  <2>6. QED
    BY <2>1, <2>3, <2>5 DEF NotesInv
<1>6. ASSUME NEW c \in Calls, NEW op \in Notes!Ops, Notes!Mutate(c, op)
      PROVE  NotesInv'
  <2> DEFINE next == Notes!Applied(op, note.entries, limit)
             q == [pc |-> "look", op |-> op, next |-> next, budget |-> limit]
  <2>1. /\ UNCHANGED <<note, limit>> /\ prompt' = <<>>
        /\ call' = IF next = Notes!Refused THEN call ELSE [call EXCEPT ![c] = q]
    BY <1>6 DEF Notes!Mutate, Notes!Built
  <2>2. CASE next = Notes!Refused
    BY <1>1, <1>4, <2>1, <2>2
  <2>3. CASE next # Notes!Refused
    <3>1. limit \in Nat /\ note.entries \in Seq(Entries)
      BY <1>1
    <3>2. next \in Seq(Entries) /\ (Notes!Usage(next) <= limit \/ op.do = "remove")
      BY <2>3, <3>1, AppliedWithin
    <3> HIDE DEF next
    <3>3. q \in Record /\ (Notes!Usage(q.next) <= q.budget \/ q.op.do = "remove")
      BY <3>1, <3>2
    <3> HIDE DEF q
    <3>4. QED
      BY <1>1, <1>5, <2>1, <2>3, <3>3
  <2>4. QED
    BY <2>2, <2>3
<1>7. ASSUME NEW c \in Calls, Notes!Look(c)
      PROVE  NotesInv'
  <2>1. /\ UNCHANGED <<note, limit>> /\ prompt' = <<>> /\ call[c].pc = "look"
        /\ call' = [call EXCEPT ![c] = IF note.other > 0 THEN Notes!Ready ELSE [@ EXCEPT !.pc = "write"]]
    BY <1>7 DEF Notes!Look, Notes!Built
  <2>2. PICK q : q = [call[c] EXCEPT !.pc = "write"]
    OBVIOUS
  <2>3. call[c] \in Record
    BY <1>1
  <2>4. q \in Record /\ q.next = call[c].next /\ q.budget = call[c].budget /\ q.op = call[c].op
    BY <2>2, <2>3
  <2>5. Notes!Usage(q.next) <= q.budget \/ q.op.do = "remove"
    BY <1>3, <2>1, <2>4
  <2>6. CASE note.other > 0
    <3>1. call' = [call EXCEPT ![c] = Notes!Ready]
      BY <2>1, <2>6
    <3>2. QED
      BY <1>1, <1>2, <1>5, <2>1, <3>1
  <2>7. CASE ~(note.other > 0)
    <3>1. call' = [call EXCEPT ![c] = q]
      BY <1>1, <2>1, <2>2, <2>7
    <3>2. QED
      BY <1>1, <1>5, <2>1, <2>4, <2>5, <3>1
  <2>8. QED
    BY <2>6, <2>7
<1>8. ASSUME NEW c \in Calls, Notes!Write(c)
      PROVE  NotesInv'
  <2>1. /\ limit' = limit /\ prompt' = <<>> /\ call' = [call EXCEPT ![c] = Notes!Ready]
        /\ note' = [entries |-> call[c].next, other |-> 0]
    BY <1>8 DEF Notes!Write, Notes!Built
  <2>2. call[c].next \in Seq(Entries)
    BY <1>1
  <2>3. note' \in [entries : Seq(Entries), other : Nat]
    BY <2>1, <2>2
  <2>4. QED
    BY <1>2, <1>5, <2>1, <2>3
<1>9. ASSUME NEW c \in Calls, Notes!Fails(c)
      PROVE  NotesInv'
  <2>1. /\ UNCHANGED <<note, limit>> /\ prompt' = <<>> /\ call' = [call EXCEPT ![c] = Notes!Ready]
    BY <1>9 DEF Notes!Fails, Notes!Built
  <2>2. QED
    BY <1>1, <1>2, <1>5, <2>1
<1>10. ASSUME Notes!ReadMemory
       PROVE  NotesInv'
  <2>1. UNCHANGED <<note, limit, call>> /\ prompt' = Notes!Selected(note.entries, limit)
    BY <1>10 DEF Notes!ReadMemory
  <2>2. limit \in Nat /\ note.entries \in Seq(Entries)
    BY <1>1
  <2>3. prompt' \in Seq(Entries) /\ Notes!Usage(prompt') <= limit
    BY <2>1, <2>2, SelectedWithin
  <2>4. limit <= Notes!Max(Limits) /\ Notes!Max(Limits) \in Nat
    BY <1>1, LargestBudget
  <2>5. Notes!Usage(prompt') \in Nat
    BY <2>3, UsageIsNat
  <2>6. Notes!Usage(prompt') <= Notes!Max(Limits)
    BY <2>2, <2>3, <2>4, <2>5
  <2>7. Notes!PromptBounded'
    BY <2>6 DEF Notes!PromptBounded, Notes!Usage
  <2>8. NotesTyped' /\ NotesHeld'
    BY <1>1, <1>3, <2>1, <2>3 DEF NotesTyped, NotesHeld, Notes!Usage
  <2>9. QED
    BY <2>7, <2>8 DEF NotesInv
<1>11. ASSUME Notes!UserEdits
       PROVE  NotesInv'
  <2>1. /\ UNCHANGED <<call, limit>> /\ prompt' = <<>>
        /\ \/ \E e \in Entries : note' = [note EXCEPT !.entries = Append(@, e)]
           \/ note' = [note EXCEPT !.other = @ + 1]
           \/ note.entries # <<>> /\ note' = [note EXCEPT !.entries = Tail(@)]
    BY <1>11 DEF Notes!UserEdits, Notes!Edit, Notes!Built
  <2>2. note.entries \in Seq(Entries) /\ note.other \in Nat
    BY <1>1
  <2>3. \A e \in Entries : Append(note.entries, e) \in Seq(Entries)
    BY <2>2, AppendProperties
  <2>4. note.entries # <<>> => Tail(note.entries) \in Seq(Entries)
    BY <2>2, HeadTailProperties
  <2> DEFINE Note == [entries : Seq(Entries), other : Nat]
  <2>5. note' \in Note
    <3>1. ASSUME NEW e \in Entries, note' = [note EXCEPT !.entries = Append(@, e)]
          PROVE  note' \in Note
      <4>1. PICK t \in Seq(Entries) : t = Append(note.entries, e)
        BY <2>3
      <4>2. note' = [note EXCEPT !.entries = t]
        BY <1>1, <3>1, <4>1
      <4>3. QED
        BY <1>1, <4>2
    <3>2. ASSUME note' = [note EXCEPT !.other = @ + 1]
          PROVE  note' \in Note
      <4>1. PICK k \in Nat : k = note.other + 1
        BY <2>2
      <4>2. note' = [note EXCEPT !.other = k]
        BY <1>1, <3>2, <4>1
      <4>3. QED
        BY <1>1, <4>2
    <3>3. ASSUME note.entries # <<>>, note' = [note EXCEPT !.entries = Tail(@)]
          PROVE  note' \in Note
      <4>1. PICK t \in Seq(Entries) : t = Tail(note.entries)
        BY <2>4, <3>3
      <4>2. note' = [note EXCEPT !.entries = t]
        BY <1>1, <3>3, <4>1
      <4>3. QED
        BY <1>1, <4>2
    <3> HIDE DEF Note
    <3>4. QED
      BY <2>1, <3>1, <3>2, <3>3
  <2>6. QED
    BY <1>1, <1>4, <2>1, <2>5
<1>12. ASSUME NEW n \in Limits, Notes!SetLimits(n)
       PROVE  NotesInv'
  BY <1>1, <1>4, <1>12 DEF Notes!SetLimits, Notes!Edit, Notes!Built
<1>13. ASSUME UNCHANGED Notes!notesVars
       PROVE  NotesInv'
  <2>1. UNCHANGED <<note, limit, call, prompt>>
    BY <1>13 DEF Notes!notesVars
  <2>2. QED
    BY <2>1 DEF NotesInv, NotesTyped, NotesHeld, Notes!PromptBounded, Notes!Usage
<1>14. QED
  BY <1>6, <1>7, <1>8, <1>9, <1>10, <1>11, <1>12, <1>13 DEF Notes!NotesNext, Notes!CallStep

\* For any calls, texts and budgets, an addition or a replacement leaves no more
\* in the note than the budget it was held against, whatever the user and the
\* other calls do between its read and its write (MemoryStore.mutateMemory).
THEOREM BudgetIsHeld ==
    ASSUME NotesBounds
    PROVE  Notes!NotesSpec => [][Notes!BudgetHeld]_(Notes!notesVars)
<1>1. Notes!NotesInit => NotesInv
  BY NotesInvInit
<1>2. NotesInv /\ [Notes!NotesNext]_(Notes!notesVars) => NotesInv'
  BY NotesInvNext
<1>3. NotesInv => Notes!BudgetHeld
  <2>1. SUFFICES ASSUME NotesInv, NEW c \in Calls, Notes!Write(c)
                 PROVE  Notes!Usage(note'.entries) <= call[c].budget \/ call[c].op.do = "remove"
    BY DEF Notes!BudgetHeld
  <2>2. note'.entries = call[c].next /\ call[c].pc = "write"
    BY <2>1 DEF Notes!Write
  <2>3. QED
    BY <2>1, <2>2 DEF NotesInv, NotesHeld
<1>4. QED
  BY <1>1, <1>2, <1>3, PTL DEF Notes!NotesSpec

\* A prompt is never given more of the notes than the largest budget, however the
\* note is written and the budget changed (MemoryStore.readMemory).
THEOREM PromptWithinBudget ==
    ASSUME NotesBounds
    PROVE  Notes!NotesSpec => []Notes!PromptBounded
<1>1. Notes!NotesInit => NotesInv
  BY NotesInvInit
<1>2. NotesInv /\ [Notes!NotesNext]_(Notes!notesVars) => NotesInv'
  BY NotesInvNext
<1>3. NotesInv => Notes!PromptBounded
  BY DEF NotesInv
<1>4. QED
  BY <1>1, <1>2, <1>3, PTL DEF Notes!NotesSpec

============================================================================
