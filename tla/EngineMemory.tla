----------------------------- MODULE EngineMemory -----------------------------
(***************************************************************************)
(* The structured memory (agent/memoryEngine.ts) and the chat's background  *)
(* job that feeds it (ChatApp's maybeRetainMemory): after a settled turn a  *)
(* model call turns the exchange into operations on the facts file, another *)
(* consolidates facts into observations and mental models.  Jobs of         *)
(* different turns overlap, the memory folder can be changed, and the       *)
(* plugin can be unloaded, between any read and the write that follows.     *)
(***************************************************************************)
EXTENDS Naturals, Sequences, FiniteSets, FiniteSetsExt, SequencesExt

CONSTANTS
    Jobs,        \* background jobs that can overlap
    Folders,     \* memory folders
    Keys,        \* canonical texts of facts (factKey)
    Threats,     \* those the injection scan refuses
    None,
    EveryN,      \* memoryEngineRetainEveryN
    MaxFacts,    \* MAX_ENGINE_FACTS
    MaxObs,      \* MAX_ENGINE_OBSERVATIONS
    DueAt,       \* facts a first consolidation wants
    RecallMax,   \* memoryEngineRecallMax
    MaxTurns,    \* bound: settled turns
    MaxMoves     \* bound: changes of the folder, and unloads

VARIABLES
    folder,    \* the store's folder
    disk,      \* the files of every folder
    job,       \* the background jobs
    turns,     \* retainCounterRef
    now,       \* the clock of updatedAt, and the source of ids
    recalled,  \* the texts of the recall block being put in a prompt
    moves,     \* bound
    wrote      \* history: passes whose observations and models were written

engVars == <<folder, disk, job, turns, now, recalled, moves, wrote>>

Files == [facts : SUBSET [id : Nat, key : Keys, at : Nat],
          obs : SUBSET [id : Nat, at : Nat, proofs : SUBSET Nat],
          meta : [count : Nat, pass : Nat] \cup {None}]
Empty == [facts |-> {}, obs |-> {}, meta |-> None]
Idle  == [pc |-> "idle", read |-> Empty, out |-> Empty, pass |-> 0]

EngInit ==
    /\ folder = (CHOOSE f \in Folders : TRUE) /\ disk = [f \in Folders |-> Empty]
    /\ job = [j \in Jobs |-> Idle] /\ turns = 0 /\ now = 1
    /\ recalled = {} /\ moves = 0 /\ wrote = {}

-----------------------------------------------------------------------------
(* What an answer does to the lists.                                       *)

\* The n most recently touched of a list; those touched together are cut in an
\* order of their own.
Pruned(S, n) ==
    IF Cardinality(S) <= n THEN {S}
    ELSE {K \in kSubset(n, S) : \A k \in K, d \in S \ K : k.at >= d.at}

\* applyRetainOps: an added text that is there under the same key touches it;
\* an update gives a fact another text, whatever else has that key.
Retained(F, op) ==
    CASE op.op = "add" /\ \E x \in F : x.key = op.key ->
             {IF x.key = op.key THEN [x EXCEPT !.at = now] ELSE x : x \in F}
      [] op.op = "add" /\ \A x \in F : x.key # op.key ->
             F \cup {[id |-> now, key |-> op.key, at |-> now]}
      [] op.op = "update" -> {IF x.id = op.id THEN [x EXCEPT !.key = op.key, !.at = now] ELSE x : x \in F}
      [] op.op = "delete" -> {x \in F : x.id # op.id}

\* What parseRetainOps can leave of an answer about these facts.
RetainOps(F) ==
    [op : {"add"}, key : Keys] \cup [op : {"update"}, id : {x.id : x \in F}, key : Keys]
        \cup [op : {"delete"}, id : {x.id : x \in F}]

\* consolidationDue, but for its cooldown, which may have passed or not.
Due(F, meta, cool) ==
    /\ F # {}
    /\ IF meta = None THEN Cardinality(F) >= DueAt
       ELSE Cardinality(F) > meta.count /\ cool

\* applyReflectOps: a refined observation gains evidence, a new one takes an id.
Reflected(O, op) ==
    CASE op.op = "obs" /\ \E x \in O : x.id = op.replace ->
             {IF x.id = op.replace THEN [x EXCEPT !.at = now, !.proofs = @ \cup op.proofs] ELSE x : x \in O}
      [] op.op = "obs" /\ \A x \in O : x.id # op.replace ->
             O \cup {[id |-> now, at |-> now, proofs |-> op.proofs]}
      [] op.op = "obsDelete" -> {x \in O : x.id # op.id}

ReflectOps(F, O) ==
    [op : {"obs"}, replace : {0} \cup {x.id : x \in O}, proofs : {{x.id : x \in F}}]
        \cup [op : {"obsDelete"}, id : {x.id : x \in O}]

-----------------------------------------------------------------------------
(* The background job.                                                     *)

\* A recall block goes into the prompt of its turn and is not kept.
Prompted == recalled' = {}

Enter(j, pc) == job' = [job EXCEPT ![j].pc = pc]
Over(j)      == job' = [job EXCEPT ![j] = Idle]

\* readFile gives "" for a file it cannot read.
Readings(f) == {disk[f], Empty}

\* maybeRetainMemory: every N turns that are not trivial; the facts are read
\* before the model is asked.
TurnSettles(j) ==
    /\ job[j].pc = "idle" /\ turns < MaxTurns /\ turns' = turns + 1
    /\ IF turns' % EveryN = 0
       THEN \E r \in Readings(folder) :
                job' = [job EXCEPT ![j] = [Idle EXCEPT !.pc = "retain", !.read = r]]
       ELSE UNCHANGED job
    /\ UNCHANGED <<folder, disk, now, moves, wrote>> /\ Prompted

\* The answer: no operation, or one that is applied to what was read and
\* written over the file of the folder the store has by now.
RetainAnswer(j) ==
    /\ job[j].pc = "retain"
    /\ \/ UNCHANGED <<disk, now>>
       \/ \E op \in RetainOps(job[j].read.facts) :
              \E F \in Pruned(Retained(job[j].read.facts, op), MaxFacts) :
                  /\ disk' = [disk EXCEPT ![folder].facts = F]
                  /\ now' = now + 1
    /\ Enter(j, "retained")
    /\ UNCHANGED <<folder, turns, moves, wrote>> /\ Prompted

\* reflect reads everything anew, and asks when consolidation is due.
ReflectStart(j) ==
    /\ job[j].pc = "retained"
    /\ \E r \in Readings(folder), cool \in BOOLEAN :
           IF Due(r.facts, r.meta, cool)
           THEN /\ job' = [job EXCEPT ![j] = [Idle EXCEPT !.pc = "reflect", !.read = r, !.pass = now]]
                /\ now' = now + 1
           ELSE Over(j) /\ UNCHANGED now
    /\ UNCHANGED <<folder, disk, turns, moves, wrote>> /\ Prompted

\* Its answer; an empty one only leaves the mark.
ReflectAnswer(j) ==
    /\ job[j].pc = "reflect"
    /\ \/ Enter(j, "mark") /\ wrote' = wrote \cup {job[j].pass} /\ UNCHANGED now
       \/ \E op \in ReflectOps(job[j].read.facts, job[j].read.obs) :
              \E O \in Pruned(Reflected(job[j].read.obs, op), MaxObs) :
                  /\ job' = [job EXCEPT ![j].pc = "obs", ![j].out = [Empty EXCEPT !.obs = O]]
                  /\ now' = now + 1 /\ UNCHANGED wrote
    /\ UNCHANGED <<folder, disk, turns, moves>> /\ Prompted

\* Observations, mental models and the mark are written one after the other,
\* each to the folder of its moment.
WriteObs(j) ==
    /\ job[j].pc = "obs" /\ Enter(j, "models")
    /\ disk' = [disk EXCEPT ![folder].obs = job[j].out.obs]
    /\ UNCHANGED <<folder, turns, now, moves, wrote>> /\ Prompted

WriteModels(j) ==
    /\ job[j].pc = "models" /\ Enter(j, "mark")
    /\ wrote' = wrote \cup {job[j].pass}
    /\ UNCHANGED <<folder, disk, turns, now, moves>> /\ Prompted

\* Mutant: the mark does not wait for what it marks.
MarkEarly(j) == job[j].pc \in {"obs", "models", "mark"}

MarkDue(j) == job[j].pc = "mark"

Mark(j) ==
    /\ MarkDue(j) /\ Over(j)
    /\ disk' = [disk EXCEPT ![folder].meta = [count |-> Cardinality(job[j].read.facts), pass |-> job[j].pass]]
    /\ UNCHANGED <<folder, turns, now, moves, wrote>> /\ Prompted

\* The model call or a write fails, or the run's signal aborts it: silent.
JobFails(j) ==
    /\ job[j].pc # "idle" /\ Over(j)
    /\ UNCHANGED <<folder, disk, turns, now, moves, wrote>> /\ Prompted

-----------------------------------------------------------------------------
(* Everyone else.                                                          *)

\* A turn recalls what matches it: the best facts and observations that pass
\* the scan (search, buildRecallBlock).  Reading may fail, and then recalls
\* nothing.
Recall ==
    /\ \E r \in Readings(folder) :
           \E best \in SUBSET r.facts :
               /\ Cardinality(best) <= RecallMax
               /\ recalled' = {x.key : x \in best} \ Threats
    /\ UNCHANGED <<folder, disk, job, turns, now, moves, wrote>>

\* The folder setting is saved; files stay where they are.
SetFolder(f) ==
    /\ f # folder /\ moves < MaxMoves /\ moves' = moves + 1
    /\ folder' = f
    /\ UNCHANGED <<disk, job, turns, now, wrote>> /\ Prompted

\* The plugin is unloaded, or Obsidian ends: what was not written is gone.
Unload ==
    /\ moves < MaxMoves /\ moves' = moves + 1
    /\ job' = [j \in Jobs |-> Idle] /\ turns' = turns /\ Prompted
    /\ UNCHANGED <<folder, disk, now, wrote>>

JobStep(j) ==
    \/ RetainAnswer(j) \/ ReflectStart(j) \/ ReflectAnswer(j)
    \/ WriteObs(j) \/ WriteModels(j) \/ Mark(j) \/ JobFails(j)

EngNext ==
    \/ Recall \/ Unload
    \/ \E f \in Folders : SetFolder(f)
    \/ \E j \in Jobs : TurnSettles(j) \/ JobStep(j)

\* A model call is answered, timed out or aborted; a write settles.
EngSpec == EngInit /\ [][EngNext]_engVars /\ \A j \in Jobs : WF_engVars(JobStep(j))

-----------------------------------------------------------------------------
EngTypeOK ==
    /\ folder \in Folders /\ recalled \subseteq Keys
    /\ \A f \in Folders : DOMAIN disk[f] = DOMAIN Empty
    /\ \A j \in Jobs : job[j].pc \in {"idle", "retain", "retained", "reflect", "obs", "models", "mark"}

\* However turns overlap, a facts file stays within its cap and holds no two
\* facts under one id (applyRetainOps, genId).
FactsBounded ==
    \A f \in Folders :
        /\ Cardinality(disk[f].facts) <= MaxFacts /\ Cardinality(disk[f].obs) <= MaxObs
        /\ Cardinality({x.id : x \in disk[f].facts}) = Cardinality(disk[f].facts)

\* What a turn just taught is not what the cap drops: unless it only removes,
\* a retain leaves a fact of its own moment in the file it writes.
JustLearntKept ==
    \A j \in Jobs : RetainAnswer(j) /\ now' # now =>
           LET F == disk'[folder].facts IN
           (\E x \in F : x.at = now) \/ Cardinality(F) < Cardinality(job[j].read.facts)

\* A folder is marked as consolidated by a pass only when that pass's
\* observations and models were written before, even when the plugin is
\* unloaded in the middle (to the folder of their moment, if it was changed).
MarkIsLast ==
    \A f \in Folders : disk[f].meta # None => disk[f].meta.pass \in wrote

\* No text the scan refuses is recalled, however it got into the file, and no
\* more than the budget allows.
RecallClean == recalled \cap Threats = {} /\ Cardinality(recalled) <= RecallMax

\* The background work of every turn ends.
\* Checked as: Waits leads to ~Waits.
Waits(j) == job[j].pc # "idle"
=============================================================================
