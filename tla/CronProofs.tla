----------------------------- MODULE CronProofs -----------------------------
(***************************************************************************)
(* TLAPS proofs about CronScheduler, for any number of tasks, ticks,       *)
(* manual runs, policies and settings objects: its types, the overlap      *)
(* guard, and no output of another policy in a prompt; and about CronForm, *)
(* for any calendar: its expressions fire when its words say, no matching  *)
(* minute is skipped, and a script and a watched page stay apart.          *)
(***************************************************************************)
EXTENDS CronScheduler, SequenceTheorems, WellFoundedInduction, TLAPS

CONSTANTS
    MinuteMax, HourMax, Days, DayMax, DowMax, SafeDay, Nine, Quarter,   \* of CronCalendar
    Raws, Empty, Custom, Urls, Script, Intervals, Times, OldIntervals, MaxNow, MaxMoves  \* of CronForm

VARIABLES
    task, form, formGen, by, moves, formNow, formRun

Form == INSTANCE CronForm WITH now <- formNow, gen <- formGen, run <- formRun

Inv == TypeOK /\ GuardExact /\ ChainScoped

\* What a step leaves of the callers' runs: the same callers run the same tasks.
SameRuns ==
    \A c \in Callers :
        /\ caller'[c].stage \in Active <=> caller[c].stage \in Active
        /\ caller[c].stage \in Active => caller'[c].id = caller[c].id

-----------------------------------------------------------------------------
(* Types.                                                                  *)

LEMMA IdleTyped == Idle \in Caller /\ Idle.gen = 0 /\ Idle.list = 0 /\ Idle.stage = "idle"
BY CronAssumption DEF Idle, Caller, Stages

LEMMA NewTaskTyped ==
    ASSUME NEW k \in Kinds, NEW time \in Nat
    PROVE  NewTask(k, time) \in Task /\ NoTask(k) \in Task
<1>1. /\ 0 \in Counts /\ time + Period \in Nat /\ 0 + Period \in Nat
      /\ None \in Scopes \cup {None}
  BY CronAssumption DEF Counts
<1>2. NewTask(k, time) \in Task /\ NewTask(k, 0) \in Task
  BY <1>1 DEF NewTask, Task
<1>3. NoTask(k) \in Task
  BY <1>2 DEF NoTask, Task
<1> QED BY <1>2, <1>3

LEMMA LiveTyped ==
    ASSUME TypeOK, NEW i \in Ids
    PROVE  Live(i) \in Task
BY CronAssumption DEF TypeOK, Live

LEMMA MineTyped ==
    ASSUME TypeOK, NEW c \in Callers
    PROVE  /\ caller[c] \in Caller
           /\ caller[c].gen \in 0 .. gen /\ caller[c].id \in Ids
           /\ Mine(c) \in Task
BY CronAssumption DEF TypeOK, Mine, Caller

LEMMA CountedTyped ==
    ASSUME NEW t \in Task
    PROVE  /\ Counted(t) \in Task
           /\ Counted(t).output = t.output
BY CronAssumption DEF Counted, Task, Counts

-----------------------------------------------------------------------------
(* What the helpers of the actions do.                                     *)

\* A stage of a run writes to the task object of that run only.
LEMMA StepEffect ==
    ASSUME TypeOK, NEW c \in Callers, NEW s \in Stages, NEW t \in Task, Step(c, s, t)
    PROVE  /\ TypeOK'
           /\ caller'[c].stage = s /\ caller'[c].id = caller[c].id
           /\ caller'[c].gen = caller[c].gen /\ caller'[c].scope = caller[c].scope
           /\ caller'[c].chain = caller[c].chain
           /\ \A d \in Callers \ {c} : caller'[d] = caller[d]
           /\ tasks'[caller[c].gen][caller[c].id] = t
           /\ \A g \in 0 .. gen, i \in Ids :
                 <<g, i>> # <<caller[c].gen, caller[c].id>> => tasks'[g][i] = tasks[g][i]
           /\ running' = running /\ stuck' = stuck /\ gen' = gen
<1> USE CronAssumption
<1>1. caller[c] \in Caller /\ caller[c].gen \in 0 .. gen /\ caller[c].id \in Ids
  BY MineTyped
<1>2. caller' = [caller EXCEPT ![c] = [caller[c] EXCEPT !.stage = s]]
  BY DEF Step
<1>3. [caller[c] EXCEPT !.stage = s] \in Caller
  BY <1>1 DEF Caller
<1>4. caller' \in [Callers -> Caller]
  BY <1>2, <1>3 DEF TypeOK
<1>5. tasks' \in [0 .. gen -> [Ids -> Task]]
  BY <1>1 DEF Step, TypeOK
<1>6. /\ caller'[c] = [caller[c] EXCEPT !.stage = s]
      /\ \A d \in Callers \ {c} : caller'[d] = caller[d]
  BY <1>2 DEF TypeOK
<1>7. /\ caller'[c].stage = s /\ caller'[c].id = caller[c].id
      /\ caller'[c].gen = caller[c].gen /\ caller'[c].scope = caller[c].scope
      /\ caller'[c].chain = caller[c].chain /\ caller'[c].list = caller[c].list
  BY <1>1, <1>6 DEF Caller
<1>8. /\ tasks'[caller[c].gen][caller[c].id] = t
      /\ \A g \in 0 .. gen, i \in Ids :
             <<g, i>> # <<caller[c].gen, caller[c].id>> => tasks'[g][i] = tasks[g][i]
  BY <1>1 DEF Step, TypeOK
<1>9. TypeOK'
  BY <1>4, <1>5, <1>6, <1>7 DEF Step, TypeOK, worldVars
<1> QED BY <1>6, <1>7, <1>8, <1>9 DEF Step

\* A run starts for a task that no caller runs.
LEMMA StartEffect ==
    ASSUME TypeOK, NEW c \in Callers, NEW i \in Ids, NEW todo \in SUBSET Ids, NEW s \in Scopes,
           Start(c, i, todo, s)
    PROVE  /\ TypeOK'
           /\ caller'[c].stage \in Active /\ caller'[c].id = i /\ caller'[c].gen = gen
           /\ caller'[c].scope = s /\ (caller'[c].chain => Live(i).output = s)
           /\ \A d \in Callers \ {c} : caller'[d] = caller[d]
           /\ i \notin running /\ running' = running \cup {i}
           /\ stuck' = stuck /\ gen' = gen /\ tasks' = tasks
<1> USE CronAssumption
<1>1. caller[c] \in Caller
  BY MineTyped
<1>2. FirstStage(Live(i).kind) \in Active
  BY DEF FirstStage, Active, Stages
<1> DEFINE new == [caller[c] EXCEPT !.stage = FirstStage(Live(i).kind), !.todo = todo, !.id = i,
                                    !.gen = gen, !.scope = s, !.chain = (Live(i).output = s)]
<1>3. caller' = [caller EXCEPT ![c] = new]
  BY DEF Start
<1>4. gen \in Nat /\ (Live(i).output = s) \in BOOLEAN
  BY DEF TypeOK
<1>5. new \in Caller /\ new.stage \in Active /\ new.id = i /\ new.gen = gen /\ new.scope = s
      /\ new.chain = (Live(i).output = s) /\ new.list = caller[c].list
  BY <1>1, <1>2, <1>4 DEF Caller, Active
<1> HIDE DEF new
<1>6. caller'[c] = new /\ \A d \in Callers \ {c} : caller'[d] = caller[d]
  BY <1>3 DEF TypeOK
<1>7. caller' \in [Callers -> Caller]
  BY <1>3, <1>5 DEF TypeOK
<1>8. TypeOK'
  BY <1>5, <1>6, <1>7 DEF Start, TypeOK, worldVars
<1> QED BY <1>5, <1>6, <1>8 DEF Start

\* The task an edit writes is of the settings object of now.
LEMMA EditedEffect ==
    ASSUME TypeOK, NEW i \in Ids, NEW t \in Task, Edited(t, i)
    PROVE  /\ TypeOK'
           /\ tasks'[gen][i] = t
           /\ \A g \in 0 .. gen, j \in Ids : <<g, j>> # <<gen, i>> => tasks'[g][j] = tasks[g][j]
           /\ running' = running /\ stuck' = stuck /\ gen' = gen /\ caller' = caller
<1> USE CronAssumption
<1>1. tasks' \in [0 .. gen -> [Ids -> Task]]
  BY DEF Edited, TypeOK
<1>2. ops' \in 0 .. MaxOps
  BY DEF Edited, Intervene, TypeOK
<1>3. TypeOK'
  BY <1>1, <1>2 DEF Edited, TypeOK
<1> QED BY <1>3 DEF Edited, TypeOK

\* A pass over the list begins, moves on or ends: no run begins or ends.
LEMMA LoopEffect ==
    ASSUME TypeOK, NEW c \in Callers, caller[c].stage \in {"idle", "loop"},
           NEW new \in Caller, caller' = [caller EXCEPT ![c] = new], new.stage \in {"idle", "loop"}
    PROVE  SameRuns
BY DEF SameRuns, TypeOK, Active

-----------------------------------------------------------------------------
(* The overlap guard.                                                      *)

\* It depends on who runs what and on the two sets only.
LEMMA GuardSame ==
    ASSUME GuardExact, SameRuns, running' = running, stuck' = stuck
    PROVE  GuardExact'
<1>1. \A i \in Ids : Busy(i)' = Busy(i)
  BY DEF SameRuns, Busy
<1> QED BY <1>1 DEF GuardExact

LEMMA GuardStart ==
    ASSUME TypeOK, GuardExact, NEW c \in Callers, NEW i \in Ids,
           caller[c].stage \notin Active,
           caller'[c].stage \in Active, caller'[c].id = i,
           \A d \in Callers \ {c} : caller'[d] = caller[d],
           i \notin running, running' = running \cup {i}, stuck' = stuck
    PROVE  GuardExact'
<1>1. Busy(i) = {} /\ i \notin stuck
  BY DEF GuardExact
<1>2. Busy(i)' = {c}
  BY <1>1 DEF Busy
<1>3. \A j \in Ids \ {i} : Busy(j)' = Busy(j)
  BY DEF Busy
<1> QED BY <1>1, <1>2, <1>3 DEF GuardExact

LEMMA GuardSaved ==
    ASSUME TypeOK, GuardExact, NEW c \in Callers, NEW ok \in BOOLEAN, Saved(c, ok)
    PROVE  GuardExact'
<1> PICK i \in Ids : i = caller[c].id
  BY MineTyped
<1>1. c \in Busy(i)
  BY DEF Saved, Busy, Active, Stages
<1>2. Busy(i) = {c} /\ i \in running /\ i \notin stuck
  BY <1>1 DEF GuardExact, Busy
<1>3. /\ caller'[c].stage \notin Active
      /\ \A d \in Callers \ {c} : caller'[d] = caller[d]
  <2>1. CASE ok
    <3> DEFINE new == [caller[c] EXCEPT !.stage = "loop", !.id = Idle.id, !.gen = 0, !.chain = FALSE]
    <3>1. caller' = [caller EXCEPT ![c] = new]
      BY <2>1 DEF Saved
    <3>2. caller[c] \in Caller /\ new.stage = "loop"
      BY MineTyped DEF Caller
    <3> HIDE DEF new
    <3> QED BY <3>1, <3>2 DEF TypeOK, Active
  <2>2. CASE ~ok
    BY <2>2, IdleTyped DEF Saved, TypeOK, Active
  <2> QED BY <2>1, <2>2
<1>4. Busy(i)' = {}
  BY <1>2, <1>3 DEF Busy
<1>5. \A j \in Ids \ {i} : Busy(j)' = Busy(j)
  BY <1>3 DEF Busy
<1>6. CASE ok
  <2>1. running' = running \ {i} /\ stuck' = stuck
    BY <1>6 DEF Saved
  <2> QED BY <1>1, <1>2, <1>4, <1>5, <2>1 DEF GuardExact
<1>7. CASE ~ok
  <2>1. running' = running /\ stuck' = stuck \cup {i}
    BY <1>7 DEF Saved
  <2> QED BY <1>1, <1>2, <1>4, <1>5, <2>1 DEF GuardExact
<1> QED BY <1>6, <1>7

-----------------------------------------------------------------------------
(* The output of another policy.                                           *)

\* A task object that is not written stays what it is; the run of a caller
\* writes to a task no other caller runs.
LEMMA ChainSame ==
    ASSUME TypeOK, ChainScoped,
           \A c \in Callers : caller'[c].stage \in {"script", "monitor", "model"} /\ caller'[c].chain
               => /\ caller[c].stage \in {"script", "monitor", "model"} /\ caller[c].chain
                  /\ caller'[c].gen = caller[c].gen /\ caller'[c].id = caller[c].id
                  /\ caller'[c].scope = caller[c].scope
                  /\ tasks'[caller[c].gen][caller[c].id].output = Mine(c).output
    PROVE  ChainScoped'
BY DEF ChainScoped, Mine

\* Two callers that run a task each run another task.
LEMMA RunsApart ==
    ASSUME TypeOK, GuardExact, NEW c \in Callers, NEW d \in Callers \ {c},
           caller[c].stage \in Active, caller[d].stage \in Active
    PROVE  caller[c].id # caller[d].id
BY MineTyped DEF GuardExact, Busy

\* A stage that keeps the last output, or ends what the prompt can read.
LEMMA ChainStep ==
    ASSUME Inv, NEW c \in Callers, NEW s \in Stages, NEW t \in Task, Step(c, s, t),
           caller[c].stage \in Active,
           s \in {"script", "monitor", "model"} =>
               caller[c].stage \in {"script", "monitor", "model"} /\ t.output = Mine(c).output
    PROVE  ChainScoped'
<1> USE DEF Inv
<1> SUFFICES ASSUME NEW d \in Callers, caller'[d].stage \in {"script", "monitor", "model"},
                    caller'[d].chain
             PROVE  /\ caller[d].stage \in {"script", "monitor", "model"} /\ caller[d].chain
                    /\ caller'[d].gen = caller[d].gen /\ caller'[d].id = caller[d].id
                    /\ caller'[d].scope = caller[d].scope
                    /\ tasks'[caller[d].gen][caller[d].id].output = Mine(d).output
  BY ChainSame
<1>1. CASE d = c
  BY <1>1, StepEffect
<1>2. CASE d # c
  <2>1. caller'[d] = caller[d] /\ caller[d].stage \in Active
    BY <1>2, StepEffect DEF Active, Stages
  <2>2. caller[c].id # caller[d].id
    BY <1>2, <2>1, RunsApart
  <2>3. tasks'[caller[d].gen][caller[d].id] = Mine(d)
    BY <2>2, StepEffect, MineTyped DEF Mine
  <2> QED BY <2>1, <2>3
<1> QED BY <1>1, <1>2

\* A write to a task that keeps its output, by nobody's run.
LEMMA ChainEdited ==
    ASSUME Inv, NEW i \in Ids, NEW t \in Task, Edited(t, i), t.output = Live(i).output
    PROVE  ChainScoped'
<1> USE DEF Inv
<1> SUFFICES ASSUME NEW d \in Callers
             PROVE  tasks'[caller[d].gen][caller[d].id].output = Mine(d).output
  BY ChainSame, EditedEffect
<1>1. caller[d].gen \in 0 .. gen /\ caller[d].id \in Ids
  BY MineTyped
<1>2. CASE <<caller[d].gen, caller[d].id>> = <<gen, i>>
  BY <1>2, EditedEffect DEF Mine, Live
<1>3. CASE <<caller[d].gen, caller[d].id>> # <<gen, i>>
  BY <1>1, <1>3, EditedEffect DEF Mine
<1> QED BY <1>2, <1>3

-----------------------------------------------------------------------------
(* The steps.                                                              *)

\* Any stage of a run but the end of its save.
LEMMA StageInv ==
    ASSUME Inv, NEW c \in Callers, NEW s \in Active, NEW t \in Task, Step(c, s, t),
           caller[c].stage \in Active,
           s \in {"script", "monitor", "model"} =>
               caller[c].stage \in {"script", "monitor", "model"} /\ t.output = Mine(c).output
    PROVE  Inv'
<1> USE DEF Inv
<1>1. s \in Stages
  BY DEF Active
<1>2. TypeOK'
  BY <1>1, StepEffect
<1>3. SameRuns /\ running' = running /\ stuck' = stuck
  BY <1>1, StepEffect DEF SameRuns
<1>4. GuardExact'
  BY <1>3, GuardSame
<1> QED BY <1>1, <1>2, <1>4, ChainStep

LEMMA SavedInv ==
    ASSUME Inv, NEW c \in Callers, NEW ok \in BOOLEAN, Saved(c, ok)
    PROVE  Inv'
<1> USE DEF Inv
<1>1. caller[c] \in Caller
  BY MineTyped
<1> DEFINE new == [caller[c] EXCEPT !.stage = "loop", !.id = Idle.id, !.gen = 0, !.chain = FALSE]
           next == IF ok THEN new ELSE Idle
<1>2. caller' = [caller EXCEPT ![c] = next] /\ tasks' = tasks /\ gen' = gen
  BY DEF Saved
<1>3. /\ next \in Caller /\ next.stage \in {"idle", "loop"} /\ next.gen = 0
      /\ next.list \in {caller[c].list, 0}
  BY <1>1, IdleTyped DEF Caller, Stages
<1> HIDE DEF new, next
<1>4. caller'[c] = next /\ \A d \in Callers \ {c} : caller'[d] = caller[d]
  BY <1>2 DEF TypeOK
<1>5. caller' \in [Callers -> Caller]
  BY <1>2, <1>3 DEF TypeOK
<1>6. running' \subseteq Ids /\ stuck' \subseteq Ids
  BY MineTyped DEF Saved, TypeOK
<1>7. \A d \in Callers : caller'[d].list <= gen /\ caller'[d].gen <= gen
  BY <1>3, <1>4 DEF TypeOK
<1>8. TypeOK'
  BY <1>5, <1>6, <1>7 DEF Saved, TypeOK, worldVars
<1>9. ChainScoped'
  BY <1>2, <1>3, <1>4, ChainSame DEF Mine
<1> QED BY <1>8, <1>9, GuardSaved

LEMMA RunStepInv ==
    ASSUME Inv, NEW c \in Callers, RunStep(c)
    PROVE  Inv'
<1> USE DEF Inv
<1>1. /\ Mine(c) \in Task /\ Counted(Mine(c)) \in Task /\ Counted(Mine(c)).output = Mine(c).output
      /\ caller[c] \in Caller
  BY MineTyped, CountedTyped
<1>2. Succeeded(c) \in Task
  BY <1>1 DEF Succeeded, Task, Caller
<1>3. {"scriptLog", "deliver", "monitor", "model", "noChange", "log", "save"} \subseteq Active
  BY DEF Active, Stages
<1>4. ASSUME NEW t \in Task, Finally(c, t), caller[c].stage \in Active
      PROVE  Inv'
  <2>1. [t EXCEPT !.next = IF t.enabled THEN now + Period ELSE 0] \in Task
    <3>1. now + Period \in Nat
      BY CronAssumption DEF TypeOK
    <3> QED BY <3>1 DEF Task
  <2> QED BY <1>3, <1>4, <2>1, StageInv DEF Finally
<1>5. ASSUME NEW ok \in BOOLEAN, ScriptEnds(c, ok)
      PROVE  Inv'
  <2>1. caller[c].stage = "script" /\ caller[c].stage \in Active
    BY <1>5 DEF ScriptEnds, Active, Stages
  <2>2. CASE Step(c, "scriptLog", Counted(Mine(c)))
    BY <1>1, <1>3, <2>1, <2>2, StageInv
  <2>3. CASE Step(c, "deliver", Succeeded(c))
    BY <1>2, <1>3, <2>1, <2>3, StageInv
  <2>4. CASE \E s \in {"monitor", "model"} : Step(c, s, Mine(c))
    BY <1>1, <1>3, <2>1, <2>4, StageInv
  <2> QED BY <1>5, <2>2, <2>3, <2>4 DEF ScriptEnds
<1>6. ASSUME NEW unchanged \in BOOLEAN, Fetched(c, unchanged)
      PROVE  Inv'
  <2>1. caller[c].stage = "monitor" /\ caller[c].stage \in Active
    BY <1>6 DEF Fetched, Active, Stages
  <2>2. \E s \in {"noChange", "model"} : Step(c, s, Mine(c))
    BY <1>6 DEF Fetched
  <2> QED BY <1>1, <1>3, <2>1, <2>2, StageInv
<1>7. ASSUME Caught(c), caller[c].stage \in Active
      PROVE  Inv'
  BY <1>1, <1>3, <1>7, StageInv DEF Caught
<1>8. ASSUME NEW ok \in BOOLEAN, ModelEnds(c, ok)
      PROVE  Inv'
  <2>1. caller[c].stage \in Active
    BY <1>8 DEF ModelEnds, Active, Stages
  <2>2. CASE Step(c, "deliver", Succeeded(c))
    BY <1>2, <1>3, <2>1, <2>2, StageInv
  <2> QED BY <1>7, <1>8, <2>1, <2>2 DEF ModelEnds
<1>9. ASSUME NEW ok \in BOOLEAN, Delivered(c, ok)
      PROVE  Inv'
  <2>1. caller[c].stage \in Active
    BY <1>9 DEF Delivered, Active, Stages
  <2>2. [Mine(c) EXCEPT !.enabled = @ /\ ~Completed(Mine(c))] \in Task
    BY <1>1 DEF Task
  <2> QED BY <1>4, <1>7, <1>9, <2>1, <2>2 DEF Delivered
<1>10. CASE Logged(c)
  BY <1>1, <1>4, <1>10 DEF Logged, Active, Stages
<1> QED BY <1>5, <1>6, <1>8, <1>9, <1>10, SavedInv DEF RunStep

\* A pass over the list begins, moves on or ends.
LEMMA LoopInv ==
    ASSUME Inv, NEW c \in Callers, NEW new \in Caller, caller[c].stage \in {"idle", "loop"},
           new.stage \in {"idle", "loop"}, new.list <= gen, new.gen <= gen,
           caller' = [caller EXCEPT ![c] = new], missed' \in {missed, {}},
           UNCHANGED <<now, gen, tasks, running, stuck, worldVars>>
    PROVE  Inv'
<1> USE DEF Inv
<1>1. caller'[c] = new /\ \A d \in Callers \ {c} : caller'[d] = caller[d]
  BY DEF TypeOK
<1>2. caller' \in [Callers -> Caller]
  BY DEF TypeOK
<1>3. \A d \in Callers : caller'[d].list <= gen /\ caller'[d].gen <= gen
  BY <1>1 DEF TypeOK
<1>4. TypeOK'
  BY <1>2, <1>3 DEF TypeOK, worldVars
<1>5. GuardExact'
  BY GuardSame, LoopEffect
<1>6. ChainScoped'
  BY <1>1, ChainSame DEF Mine
<1> QED BY <1>4, <1>5, <1>6

LEMMA StartInv ==
    ASSUME Inv, NEW c \in Callers, NEW i \in Ids, NEW todo \in SUBSET Ids, NEW s \in Scopes,
           Start(c, i, todo, s), caller[c].stage \in {"idle", "loop"}
    PROVE  Inv'
<1> USE DEF Inv
<1>1. caller[c].stage \notin Active
  BY DEF Active
<1>2. GuardExact'
  BY <1>1, StartEffect, GuardStart
<1>3. ASSUME NEW d \in Callers, caller'[d].stage \in {"script", "monitor", "model"}, caller'[d].chain
      PROVE  tasks'[caller'[d].gen][caller'[d].id].output = caller'[d].scope
  <2>1. CASE d = c
    <3>1. /\ tasks' = tasks /\ caller'[c].gen = gen /\ caller'[c].id = i /\ caller'[c].scope = s
          /\ caller'[c].chain => Live(i).output = s
      BY StartEffect
    <3> QED BY <1>3, <2>1, <3>1 DEF Live
  <2>2. CASE d # c
    <3>1. tasks' = tasks /\ caller'[d] = caller[d]
      BY <2>2, StartEffect
    <3> QED BY <1>3, <3>1 DEF ChainScoped, Mine
  <2> QED BY <2>1, <2>2
<1>4. ChainScoped'
  BY <1>3 DEF ChainScoped, Mine
<1> QED BY <1>2, <1>4, StartEffect

LEMMA EditedInv ==
    ASSUME Inv, NEW i \in Ids, NEW t \in Task, Edited(t, i), t.output = Live(i).output
    PROVE  Inv'
<1> USE DEF Inv
<1>1. SameRuns
  BY EditedEffect DEF SameRuns
<1>2. GuardExact'
  BY <1>1, EditedEffect, GuardSame
<1> QED BY <1>2, EditedEffect, ChainEdited

\* A step of the world that starts or ends no run and keeps every last output.
LEMMA WorldInv ==
    ASSUME Inv, TypeOK', UNCHANGED <<running, stuck, caller>>,
           \A g \in 0 .. gen, i \in Ids : tasks'[g][i].output = tasks[g][i].output
    PROVE  Inv'
<1> USE DEF Inv
<1>1. SameRuns
  BY DEF SameRuns
<1>2. GuardExact'
  BY <1>1, GuardSame
<1>3. ChainScoped'
  BY MineTyped, ChainSame DEF Mine
<1> QED BY <1>2, <1>3

LEMMA EditsInv ==
    ASSUME Inv, NEW i \in Ids,
           \/ Toggle(i) \/ Remove(i)
           \/ \E k \in UsedKinds : Edit(i, k, FALSE) \/ FormSave(i, k)
    PROVE  Inv'
<1> USE CronAssumption DEF Inv
<1>1. Live(i) \in Task /\ now \in Nat /\ now + Period \in Nat
  BY LiveTyped DEF TypeOK
<1>2. CASE Toggle(i)
  <2>1. [Live(i) EXCEPT !.enabled = ~@, !.next = IF Live(i).enabled THEN @ ELSE now + Period] \in Task
    BY <1>1 DEF Task
  <2> DEFINE t == [Live(i) EXCEPT !.enabled = ~@, !.next = IF Live(i).enabled THEN @ ELSE now + Period]
  <2>2. t.output = Live(i).output
    BY <1>1 DEF Task
  <2>3. Edited(t, i)
    BY <1>2 DEF Toggle
  <2> QED BY <2>1, <2>2, <2>3, EditedInv
<1>3. CASE Remove(i)
  <2> DEFINE t == [Live(i) EXCEPT !.present = FALSE]
  <2>1. t \in Task /\ t.output = Live(i).output
    BY <1>1 DEF Task
  <2>2. Edited(t, i)
    BY <1>3 DEF Remove
  <2> QED BY <2>1, <2>2, EditedInv
<1>4. ASSUME NEW k \in Kinds, NEW moved \in BOOLEAN, Edit(i, k, moved)
      PROVE  Inv'
  <2> DEFINE t == [Live(i) EXCEPT !.kind = k, !.next = IF moved THEN now + Period ELSE @]
  <2>1. t \in Task /\ t.output = Live(i).output
    BY <1>1 DEF Task
  <2>2. Edited(t, i)
    BY <1>4 DEF Edit
  <2> QED BY <2>1, <2>2, EditedInv
<1>5. ASSUME NEW k \in Kinds, Create(i, k)
      PROVE  Inv'
  <2>1. gen \in 0 .. gen
    BY DEF TypeOK
  <2>2. PICK j \in Kinds : tasks[gen][i] = NoTask(j)
    BY <1>5, <2>1 DEF Create
  <2>3. Live(i).output = None /\ NewTask(k, now).output = None
    BY <2>2 DEF Live, NoTask, NewTask
  <2>4. NewTask(k, now) \in Task
    BY <1>1, NewTaskTyped
  <2> QED BY <1>5, <2>3, <2>4, EditedInv DEF Create
<1> QED BY <1>2, <1>3, <1>4, <1>5 DEF FormSave

LEMMA ReplaceInv ==
    ASSUME Inv, NEW keep \in BOOLEAN, Replace(keep)
    PROVE  Inv'
<1> USE CronAssumption DEF Inv
<1> DEFINE fresh == [i \in Ids |-> IF keep THEN Live(i) ELSE NoTask(Live(i).kind)]
<1>1. fresh \in [Ids -> Task]
  <2>1. \A i \in Ids : Live(i) \in Task /\ Live(i).kind \in Kinds
    BY LiveTyped DEF Task
  <2>2. \A i \in Ids : NoTask(Live(i).kind) \in Task
    BY <2>1, NewTaskTyped
  <2> QED BY <2>1, <2>2
<1>2. gen' = gen + 1 /\ gen' \in 0 .. MaxGen /\ gen \in Nat
  BY DEF Replace, TypeOK
<1>3. tasks' = [g \in 0 .. gen + 1 |-> IF g <= gen THEN tasks[g] ELSE fresh]
  BY DEF Replace
<1> HIDE DEF fresh
<1>4. tasks' \in [0 .. gen' -> [Ids -> Task]]
  BY <1>1, <1>2, <1>3 DEF TypeOK
<1>5. \A g \in 0 .. gen : tasks'[g] = tasks[g]
  BY <1>2, <1>3
<1>6. \A c \in Callers : /\ caller'[c].list <= gen' /\ caller'[c].gen <= gen'
                        /\ caller[c].list \in Nat /\ caller[c].gen \in Nat
  BY <1>2 DEF Replace, TypeOK, Caller
<1>7. ops' \in 0 .. MaxOps
  BY DEF Replace, Intervene, TypeOK
<1>8. TypeOK'
  BY <1>2, <1>4, <1>6, <1>7 DEF Replace, TypeOK
<1> QED BY <1>5, <1>8, WorldInv DEF Replace

LEMMA SkipMissedInv ==
    ASSUME Inv, SkipMissed
    PROVE  Inv'
<1> USE CronAssumption DEF Inv
<1> DEFINE moved == [i \in Ids |->
             IF i \in missed THEN [tasks[0][i] EXCEPT !.next = now + Period] ELSE tasks[0][i]]
<1>1. 0 \in 0 .. gen /\ now + Period \in Nat
  BY DEF TypeOK
<1>2. \A i \in Ids : tasks[0][i] \in Task
  BY <1>1 DEF TypeOK
<1>3. \A i \in Ids : moved[i] \in Task /\ moved[i].output = tasks[0][i].output
  BY <1>1, <1>2 DEF Task
<1>4. tasks' = [tasks EXCEPT ![0] = moved] /\ moved \in [Ids -> Task]
  BY <1>3 DEF SkipMissed
<1> HIDE DEF moved
<1>5. /\ tasks' \in [0 .. gen -> [Ids -> Task]]
      /\ \A g \in 0 .. gen, i \in Ids : tasks'[g][i].output = tasks[g][i].output
  BY <1>1, <1>3, <1>4 DEF TypeOK
<1>6. TypeOK'
  BY <1>5 DEF SkipMissed, TypeOK, worldVars
<1> QED BY <1>5, <1>6, WorldInv DEF SkipMissed

-----------------------------------------------------------------------------
(* The theorems.                                                           *)

LEMMA InitInv == Init => Inv
<1> SUFFICES ASSUME Init PROVE Inv
  OBVIOUS
<1> USE CronAssumption
<1>1. \A k \in UsedKinds : /\ NewTask(k, 2) \in Task /\ NoTask(k) \in Task
                          /\ [NewTask(k, 2) EXCEPT !.next = 1] \in Task
  <2> SUFFICES ASSUME NEW k \in UsedKinds
               PROVE  /\ NewTask(k, 2) \in Task /\ NoTask(k) \in Task
                      /\ [NewTask(k, 2) EXCEPT !.next = 1] \in Task
    OBVIOUS
  <2>1. NewTask(k, 2) \in Task /\ NoTask(k) \in Task
    BY NewTaskTyped
  <2> QED BY <2>1 DEF Task
<1>2. tasks \in [0 .. gen -> [Ids -> Task]]
  <2> DEFINE First == UNION {{[NewTask(k, 2) EXCEPT !.next = 1], NewTask(k, 2), NoTask(k)}
                             : k \in UsedKinds}
  <2>1. 0 .. gen = {0}
    BY DEF Init
  <2>2. First \subseteq Task
    BY <1>1
  <2>3. tasks \in [{0} -> [Ids -> First]]
    BY DEF Init
  <2> HIDE DEF First
  <2> QED BY <2>1, <2>2, <2>3
<1>3. \A c \in Callers : caller[c] = Idle
  BY DEF Init
<1>4. caller \in [Callers -> Caller]
  BY IdleTyped DEF Init
<1>5. TypeOK
  BY <1>2, <1>3, <1>4, IdleTyped DEF Init, TypeOK
<1>6. \A i \in Ids : Busy(i) = {}
  BY <1>3, IdleTyped DEF Busy, Active
<1>7. GuardExact
  BY <1>6 DEF Init, GuardExact
<1>8. ChainScoped
  BY <1>3, IdleTyped DEF ChainScoped
<1> QED BY <1>5, <1>7, <1>8 DEF Inv

LEMMA NextInv == Inv /\ [Next]_vars => Inv'
<1> SUFFICES ASSUME Inv, [Next]_vars PROVE Inv'
  OBVIOUS
<1> USE DEF Inv
<1>1. ASSUME NEW c \in Callers, caller[c].stage = "idle", NEW list \in 0 .. gen, NEW at \in Nat,
             NEW s \in Scopes, NEW todo \in SUBSET Ids,
             caller' = [caller EXCEPT ![c] = [@ EXCEPT !.stage = "loop", !.list = list, !.at = at,
                                                       !.scope = s, !.todo = todo]],
             missed' \in {missed, {}}, UNCHANGED <<now, gen, tasks, running, stuck, worldVars>>
      PROVE  Inv'
  <2> DEFINE new == [caller[c] EXCEPT !.stage = "loop", !.list = list, !.at = at,
                                      !.scope = s, !.todo = todo]
  <2>1. caller[c] \in Caller /\ caller[c].gen <= gen
    BY DEF TypeOK
  <2>2. list \in Nat /\ list <= gen
    BY DEF TypeOK
  <2>3. new \in Caller /\ new.stage = "loop" /\ new.list = list /\ new.gen = caller[c].gen
    BY <2>1, <2>2 DEF Caller, Stages
  <2>4. caller' = [caller EXCEPT ![c] = new]
    BY <1>1
  <2> HIDE DEF new
  <2> QED BY <1>1, <2>1, <2>2, <2>3, <2>4, LoopInv
<1>2. ASSUME NEW c \in Tickers, Tick(c)
      PROVE  Inv'
  <2>1. {i \in Ids : Live(i).present} \in SUBSET Ids /\ gen \in 0 .. gen
    BY DEF TypeOK
  <2> QED BY <1>1, <1>2, <2>1 DEF Tick, TypeOK, Callers
<1>3. ASSUME NEW c \in Others, CatchUp(c)
      PROVE  Inv'
  <2>1. caller[c] \in Caller /\ caller[c].list \in 0 .. gen /\ c \in Callers
    BY DEF TypeOK, Callers, Caller
  <2> DEFINE new == [caller[c] EXCEPT !.stage = "loop", !.todo = missed]
  <2>2. new \in Caller /\ new.stage = "loop" /\ new.list <= gen /\ new.gen <= gen
    BY <2>1 DEF Caller, Stages, TypeOK
  <2>3. caller' = [caller EXCEPT ![c] = new]
    BY <1>3 DEF CatchUp
  <2> HIDE DEF new
  <2> QED BY <1>3, <2>1, <2>2, <2>3, LoopInv DEF CatchUp
<1>4. ASSUME NEW c \in Others, NEW i \in Ids, NEW s \in Scopes, ManualRun(c, i, s)
      PROVE  Inv'
  BY <1>4, StartInv DEF ManualRun, Callers
<1>5. ASSUME NEW c \in Callers, NEW i \in Ids, TickRun(c, i) \/ MissedRun(c, i)
      PROVE  Inv'
  <2>1. caller[c].todo \ {i} \in SUBSET Ids /\ caller[c].scope \in Scopes /\ scope \in Scopes
    BY DEF TypeOK, Caller
  <2> QED BY <1>5, <2>1, StartInv DEF TickRun, MissedRun
<1>6. ASSUME NEW c \in Callers, NEW i \in Ids, Skip(c, i)
      PROVE  Inv'
  <2> DEFINE new == [caller[c] EXCEPT !.todo = @ \ {i}]
  <2>1. caller[c] \in Caller /\ caller[c].list <= gen /\ caller[c].gen <= gen
    BY DEF TypeOK
  <2>2. new \in Caller /\ new.stage = caller[c].stage /\ new.list <= gen /\ new.gen <= gen
    BY <2>1 DEF Caller
  <2>3. caller' = [caller EXCEPT ![c] = new] /\ caller[c].stage = "loop"
    BY <1>6 DEF Skip
  <2> HIDE DEF new
  <2> QED BY <1>6, <2>2, <2>3, LoopInv DEF Skip
<1>7. ASSUME NEW c \in Callers, LoopEnds(c)
      PROVE  Inv'
  <2>1. 0 <= gen
    BY DEF TypeOK
  <2> QED BY <1>7, <2>1, IdleTyped, LoopInv DEF LoopEnds
<1>8. ASSUME NEW c \in Callers, CallerStep(c)
      PROVE  Inv'
  BY <1>5, <1>6, <1>7, <1>8, RunStepInv DEF CallerStep
<1>9. CASE Clock
  <2>1. TypeOK'
    BY <1>9 DEF Clock, TypeOK, worldVars
  <2> QED BY <1>9, <2>1, WorldInv DEF Clock
<1>10. CASE SwitchPolicy
  <2>1. TypeOK'
    BY <1>10, CronAssumption DEF SwitchPolicy, Intervene, TypeOK
  <2> QED BY <1>10, <2>1, WorldInv DEF SwitchPolicy
<1>11. CASE UNCHANGED vars
  <2>1. TypeOK'
    BY <1>11 DEF vars, TypeOK
  <2> QED BY <1>11, <2>1, WorldInv DEF vars
<1> QED BY <1>2, <1>3, <1>4, <1>8, <1>9, <1>10, <1>11, EditsInv, SkipMissedInv, ReplaceInv DEF Next

THEOREM Invariance == Spec => []Inv
BY InitInv, NextInv, PTL DEF Spec

(* Types: in particular no caller holds on to a settings object that was   *)
(* never installed, whatever imports and resets happen during its run.     *)
THEOREM TypeCorrect == Spec => []TypeOK
BY Invariance, PTL DEF Inv

(* The overlap guard (runningTasks of runCronTask, main.ts): a task has at *)
(* most one run, whatever overlaps, and the guard keeps out no other task  *)
(* than one that runs or whose last save threw.                            *)
THEOREM OneRunEach == Spec => []GuardExact
BY Invariance, PTL DEF Inv

(* The output of an earlier run is let into a prompt only under the policy *)
(* it was produced under, whatever edits, imports and switches of the      *)
(* workspace happen between the awaits of the run that reads it.           *)
THEOREM NoOtherPolicysOutput == Spec => []ChainScoped
BY Invariance, PTL DEF Inv

-----------------------------------------------------------------------------
(* CronForm, for any calendar, any texts and any number of changes.        *)

\* The calendar has weekdays and a day every month has; the numbers a user
\* types are numbers, and "none" is no number, time or expression.
CalendarSizes ==
    /\ {MinuteMax, HourMax, DayMax, DowMax, SafeDay, Nine, Quarter} \subseteq Nat
    /\ MinuteMax >= 1 /\ HourMax >= 1 /\ DowMax >= 3 /\ Nine <= HourMax
    /\ SafeDay >= 1 /\ SafeDay <= DayMax

CalendarBounds ==
    /\ CalendarSizes
    /\ Days \in Seq(Nat \X (Nat \ {0})) /\ Len(Days) >= 1 /\ Days[Len(Days)][1] >= 1

FormBounds ==
    /\ CalendarBounds
    /\ Times \subseteq ((0 .. HourMax) \X (0 .. MinuteMax)) \cup {None}
    /\ Intervals \subseteq Int /\ OldIntervals \subseteq Nat \ {0}
    /\ None \notin Int /\ \A a, b : None # <<a, b>>
    /\ \A a, b, c, d, e : None # Form!Expr(a, b, c, d, e)
    /\ \A says, n, at, on :
          None \notin {[says |-> says, n |-> n], [says |-> says, at |-> at],
                      [says |-> says, at |-> at, on |-> on]}
    /\ Custom \notin Form!Presets

LEMMA SizesOf ==
    ASSUME FormBounds
    PROVE  /\ CalendarSizes
           /\ MinuteMax \in Nat /\ HourMax \in Nat /\ DayMax \in Nat /\ DowMax \in Nat
<1>1. CalendarSizes
  BY DEF FormBounds, CalendarBounds
<1>2. {MinuteMax, HourMax, DayMax, DowMax, SafeDay, Nine, Quarter} \subseteq Nat
  BY <1>1 DEF CalendarSizes
<1>3. QED
  BY <1>1, <1>2

LEMMA StarIs ==
    ASSUME FormBounds
    PROVE  /\ \A f \in Form!Fields : Form!TokenOk(Form!Star, f)
           /\ Form!Star.kind = "star" /\ Form!Star.step = None
<1>0. CalendarSizes
  BY SizesOf
<1>1. Form!Star.kind = "star" /\ Form!Star.step = None
  BY DEF Form!Star
<1>2. Form!Last(Days) = Days[Len(Days)]
  BY DEF Form!Last
<1>3. Days[Len(Days)] \in Nat \X (Nat \ {0})
  <2>1. Days \in Seq(Nat \X (Nat \ {0})) /\ Len(Days) >= 1
    BY DEF FormBounds, CalendarBounds
  <2>2. Len(Days) \in 1 .. Len(Days)
    BY <2>1
  <2>3. QED
    BY <2>1, <2>2
<1>4. ASSUME NEW f \in Form!Fields
      PROVE  Form!Spec(f)[1] \in Nat /\ Form!Spec(f)[2] \in Nat /\ Form!Spec(f)[1] <= Form!Spec(f)[2]
  <2>1. PICK d \in Nat \X (Nat \ {0}) : d = Days[Len(Days)]
    BY <1>3
  <2>2. d[1] \in Nat /\ d[1] >= 1
    BY <2>1 DEF FormBounds, CalendarBounds
  <2>3. /\ MinuteMax \in Nat /\ HourMax \in Nat /\ DowMax \in Nat
        /\ DayMax \in Nat /\ DayMax >= 1
    BY SizesOf DEF CalendarSizes
  <2>4. Form!Spec(f) \in {<<0, MinuteMax>>, <<0, HourMax>>, <<1, DayMax>>, <<1, d[1]>>, <<0, DowMax>>}
    BY <1>2, <2>1 DEF Form!Spec, Form!Fields
  <2>5. PICK lo \in Nat, hi \in Nat : Form!Spec(f) = <<lo, hi>> /\ lo <= hi
    BY <2>2, <2>3, <2>4
  <2>6. QED
    BY <2>5
<1>5. ASSUME NEW f \in Form!Fields PROVE Form!TokenOk(Form!Star, f)
  BY <1>1, <1>4 DEF Form!TokenOk, Form!Bounds, Form!Step
<1>6. QED
  BY <1>1, <1>5

\* A record as a function of its field names; what EXCEPT makes of it.
Keyed(r, K) == r \in [K -> {r[k] : k \in K}]

LEMMA KeyedExcept ==
    ASSUME NEW K, NEW r, Keyed(r, K), NEW k \in K, NEW v
    PROVE  LET e == [r EXCEPT ![k] = v] IN
           Keyed(e, K) /\ e[k] = v /\ \A l \in K \ {k} : e[l] = r[l]
BY DEF Keyed

Keys == {"kind", "lo", "hi", "step", "pad"}

Put(r, k, v) == [r EXCEPT ![k] = v]

LEMMA KeyedPut ==
    ASSUME NEW K, NEW r, Keyed(r, K), NEW k \in K, NEW v
    PROVE  /\ Keyed(Put(r, k, v), K) /\ Put(r, k, v)[k] = v
           /\ \A l \in K \ {k} : Put(r, k, v)[l] = r[l]
BY DEF Keyed, Put

LEMMA NumberIs ==
    ASSUME FormBounds, NEW n \in Nat
    PROVE  LET a == Form!One(n)  b == Form!Padded(n)  c == Form!Every(n) IN
           /\ a.kind = "one" /\ a.lo = n /\ a.hi = n /\ a.step = None /\ a.pad = FALSE
           /\ b.kind = "one" /\ b.lo = n /\ b.hi = n /\ b.step = None /\ b.pad = (n < 10)
           /\ c.kind = "star" /\ c.step = n
<1> DEFINE s == Form!Star
           p == [s EXCEPT !["kind"] = "one"]
           q == [p EXCEPT !["lo"] = n]
           a == [q EXCEPT !["hi"] = n]
           c == [s EXCEPT !["step"] = n]
<1>1. Keyed(s, Keys) /\ s["kind"] = "star" /\ s["step"] = None /\ s["pad"] = FALSE
  BY DEF Form!Star, Keyed, Keys
<1>2. /\ "kind" \in Keys /\ "lo" \in Keys /\ "hi" \in Keys /\ "step" \in Keys /\ "pad" \in Keys
  BY DEF Keys
<1> HIDE DEF s
<1>3. Keyed(p, Keys) /\ p["kind"] = "one" /\ p["step"] = None /\ p["pad"] = FALSE
  BY <1>1, <1>2, KeyedExcept
<1>4. Keyed(c, Keys) /\ c["kind"] = "star" /\ c["step"] = n
  BY <1>1, <1>2, KeyedExcept
<1> HIDE DEF p, c
<1>5. Keyed(q, Keys) /\ q["kind"] = "one" /\ q["lo"] = n /\ q["step"] = None /\ q["pad"] = FALSE
  BY <1>2, <1>3, KeyedExcept
<1> HIDE DEF q
<1>6. Keyed(a, Keys) /\ a["kind"] = "one" /\ a["lo"] = n /\ a["hi"] = n /\ a["step"] = None /\ a["pad"] = FALSE
  BY <1>2, <1>5, KeyedExcept
<1> HIDE DEF a
<1>a. ASSUME NEW v
      PROVE  [a EXCEPT !["pad"] = v]["pad"] = v
             /\ \A l \in Keys \ {"pad"} : [a EXCEPT !["pad"] = v][l] = a[l]
  BY <1>2, <1>6 DEF Keyed
<1> DEFINE b == [a EXCEPT !["pad"] = n < 10]
<1>b. b["pad"] = (n < 10) /\ \A l \in Keys \ {"pad"} : b[l] = a[l]
  BY <1>a, Zenon
<1> HIDE DEF b
<1>7. b["kind"] = "one" /\ b["lo"] = n /\ b["hi"] = n /\ b["step"] = None /\ b["pad"] = (n < 10)
  BY <1>2, <1>6, <1>b
<1>8. Form!One(n) = a
  BY DEF Form!One, a, q, p, s
<1>9. Form!Padded(n) = b
  BY <1>8 DEF Form!Padded, b
<1>10. Form!Every(n) = c
  BY DEF Form!Every, c, s
<1>11. QED
  BY <1>4, <1>6, <1>7, <1>8, <1>9, <1>10

LEMMA RestIs == ASSUME NEW x \in Int, NEW m \in Nat, m > 0 PROVE x % m \in 0 .. m - 1 /\ x \div m \in Int
OBVIOUS

LEMMA TimeOf ==
    ASSUME FormBounds, NEW t \in Int
    PROVE  /\ Form!Minute(t) \in 0 .. MinuteMax
           /\ Form!Hour(t) \in 0 .. HourMax
           /\ Form!Dow(t) \in 0 .. DowMax
<1>1. /\ MinuteMax \in Nat /\ MinuteMax + 1 \in Nat /\ MinuteMax + 1 > 0
      /\ HourMax \in Nat /\ HourMax + 1 \in Nat /\ HourMax + 1 > 0
      /\ DowMax \in Nat /\ DowMax + 1 \in Nat /\ DowMax + 1 > 0
  <2>1. MinuteMax \in Nat /\ HourMax \in Nat /\ DowMax \in Nat
    BY SizesOf
  <2>2. QED
    BY <2>1
<1>2. PICK a \in Nat : a = MinuteMax + 1 /\ a > 0
  BY <1>1
<1>3. PICK b \in Nat : b = HourMax + 1 /\ b > 0
  BY <1>1
<1>4. PICK c \in Nat : c = DowMax + 1 /\ c > 0
  BY <1>1
<1>5. a * b \in Nat /\ a * b > 0
  BY <1>2, <1>3
<1>6. PICK q \in Int : q = t \div a
  BY <1>2, RestIs
<1>7. PICK d \in Int : d = t \div (a * b)
  <2>1. PICK p \in Nat : p = a * b /\ p > 0
    BY <1>5
  <2>2. QED
    BY <2>1, RestIs
<1>8. t % a \in 0 .. a - 1 /\ q % b \in 0 .. b - 1 /\ d % c \in 0 .. c - 1
  BY <1>2, <1>3, <1>4, RestIs
<1>9. a - 1 = MinuteMax /\ b - 1 = HourMax /\ c - 1 = DowMax
  BY <1>1, <1>2, <1>3, <1>4
<1>10. Form!Minute(t) = t % a /\ Form!Hour(t) = q % b /\ Form!Dow(t) = d % c
  BY <1>2, <1>3, <1>4, <1>6, <1>7 DEF Form!Minute, Form!Hour, Form!Dow, Form!PerHour, Form!PerDay
<1>11. QED
  BY <1>8, <1>9, <1>10

\* An expression of one token in each field.
LEMMA FieldsOf ==
    ASSUME NEW a, NEW b, NEW c, NEW d, NEW e
    PROVE  LET x == Form!Expr(a, b, c, d, e) IN
           /\ x["min"] = <<a>> /\ x["hour"] = <<b>> /\ x["dom"] = <<c>> /\ x["month"] = <<d>> /\ x["dow"] = <<e>>
           /\ x.min = <<a>> /\ x.hour = <<b>> /\ x.dom = <<c>> /\ x.month = <<d>> /\ x.dow = <<e>>
BY DEF Form!Expr

\* What a field of one token lets through.
LEMMA FitsOne ==
    ASSUME FormBounds, NEW x, NEW f \in Form!Fields, NEW a, x[f] = <<a>>, NEW v
    PROVE  Form!Fits(x, f, v) <=> (a = Form!Star \/ v \in Form!TokenValues(a, f))
BY DEF Form!Fits

LEMMA ValuesOf ==
    ASSUME FormBounds, NEW n \in Nat, NEW f \in Form!Fields, NEW a,
           a \in {Form!One(n), Form!Padded(n)}
    PROVE  /\ a # Form!Star
           /\ \A v : v \in Form!TokenValues(a, f) <=> v = n
           /\ (n >= Form!Spec(f)[1] /\ n <= Form!Spec(f)[2]) => Form!TokenOk(a, f)
<1>1. a.kind = "one" /\ a.lo = n /\ a.hi = n /\ a.step = None
  <2>1. CASE a = Form!One(n)
    BY <2>1, NumberIs
  <2>2. CASE a = Form!Padded(n)
    BY <2>2, NumberIs
  <2>3. QED
    BY <2>1, <2>2
<1>2. Form!Star.kind = "star"
  BY StarIs
<1>3. Form!Bounds(a, f) = <<n, n>> /\ Form!Step(a) = 1
  BY <1>1 DEF Form!Bounds, Form!Step
<1>4. Form!TokenValues(a, f) = {v \in n .. n : (v - n) % 1 = 0}
  BY <1>3 DEF Form!TokenValues
<1>5. \A v : v \in n .. n <=> v = n
  OBVIOUS
<1>6. (n - n) % 1 = 0
  OBVIOUS
<1>7. (n >= Form!Spec(f)[1] /\ n <= Form!Spec(f)[2]) => Form!TokenOk(a, f)
  BY <1>3 DEF Form!TokenOk
<1>8. QED
  BY <1>1, <1>2, <1>4, <1>5, <1>6, <1>7

LEMMA EveryOf ==
    ASSUME FormBounds, NEW n \in Nat, n > 0, NEW f \in Form!Fields
    PROVE  LET a == Form!Every(n) IN
           /\ a # Form!Star /\ Form!TokenOk(a, f)
           /\ Form!TokenValues(a, f) = {v \in Form!Spec(f)[1] .. Form!Spec(f)[2] : (v - Form!Spec(f)[1]) % n = 0}
<1> DEFINE a == Form!Every(n)
<1>1. a.kind = "star" /\ a.step = n
  BY NumberIs
<1>2. Form!Star.step = None /\ n # None /\ Form!Star.kind = "star"
  BY StarIs DEF FormBounds
<1> HIDE DEF a
<1>3. Form!Bounds(a, f) = Form!Spec(f) /\ Form!Step(a) = n
  BY <1>1, <1>2 DEF Form!Bounds, Form!Step
<1>4. Form!Bounds(Form!Star, f) = Form!Spec(f)
  BY <1>2 DEF Form!Bounds
<1>5. Form!TokenOk(Form!Star, f)
  BY StarIs
<1>6. Form!TokenOk(a, f)
  BY <1>3, <1>4, <1>5 DEF Form!TokenOk
<1>7. QED
  BY <1>1, <1>2, <1>3, <1>6 DEF Form!TokenValues, a

\* When an expression of one token in each field can be run, and what it matches.
LEMMA ValidOne ==
    ASSUME FormBounds, NEW a, NEW b, NEW c, NEW d, NEW e,
           Form!TokenOk(a, "min"), Form!TokenOk(b, "hour"), Form!TokenOk(c, "dom"),
           Form!TokenOk(d, "month"), Form!TokenOk(e, "dow")
    PROVE  Form!Valid(Form!Expr(a, b, c, d, e))
<1>1. PICK x : x = Form!Expr(a, b, c, d, e)
  OBVIOUS
<1>2. x # None
  BY <1>1 DEF FormBounds
<1>3. x["min"] = <<a>> /\ x["hour"] = <<b>> /\ x["dom"] = <<c>> /\ x["month"] = <<d>> /\ x["dow"] = <<e>>
  BY <1>1, FieldsOf
<1>4. ASSUME NEW f \in Form!Fields
      PROVE  x[f] # <<>> /\ \A n \in DOMAIN x[f] : Form!TokenOk(x[f][n], f)
  BY <1>3 DEF Form!Fields
<1>5. QED
  BY <1>1, <1>2, <1>4 DEF Form!Valid

LEMMA MatchesOne ==
    ASSUME FormBounds, NEW a, NEW b, NEW c, NEW e, NEW t \in Int, c = Form!Star \/ e = Form!Star
    PROVE  Form!Matches(Form!Expr(a, b, c, Form!Star, e), t) <=>
             /\ a = Form!Star \/ Form!Minute(t) \in Form!TokenValues(a, "min")
             /\ b = Form!Star \/ Form!Hour(t) \in Form!TokenValues(b, "hour")
             /\ c = Form!Star \/ Form!Day(t) \in Form!TokenValues(c, "dom")
             /\ e = Form!Star \/ Form!Dow(t) \in Form!TokenValues(e, "dow")
<1>1. PICK x : x = Form!Expr(a, b, c, Form!Star, e)
  OBVIOUS
<1>2. /\ x["min"] = <<a>> /\ x["hour"] = <<b>> /\ x["dom"] = <<c>> /\ x["month"] = <<Form!Star>> /\ x["dow"] = <<e>>
      /\ x.dom = <<c>> /\ x.dow = <<e>>
  BY <1>1, FieldsOf
<1>3. /\ Form!Fits(x, "min", Form!Minute(t)) <=> (a = Form!Star \/ Form!Minute(t) \in Form!TokenValues(a, "min"))
      /\ Form!Fits(x, "hour", Form!Hour(t)) <=> (b = Form!Star \/ Form!Hour(t) \in Form!TokenValues(b, "hour"))
      /\ Form!Fits(x, "dom", Form!Day(t)) <=> (c = Form!Star \/ Form!Day(t) \in Form!TokenValues(c, "dom"))
      /\ Form!Fits(x, "month", Form!Month(t))
      /\ Form!Fits(x, "dow", Form!Dow(t)) <=> (e = Form!Star \/ Form!Dow(t) \in Form!TokenValues(e, "dow"))
  BY <1>2, FitsOne DEF Form!Fields
<1>4. (x.dom = <<Form!Star>> <=> c = Form!Star) /\ (x.dow = <<Form!Star>> <=> e = Form!Star)
  BY <1>2
<1>5. QED
  BY <1>1, <1>3, <1>4 DEF Form!Matches

-----------------------------------------------------------------------------
(* The expressions of the builder, and the words for them.                 *)

LEMMA BasicsOf ==
    ASSUME FormBounds
    PROVE  /\ {MinuteMax, HourMax, DayMax, DowMax, SafeDay, Nine, Quarter} \subseteq Nat
           /\ MinuteMax >= 1 /\ HourMax >= 1 /\ DowMax >= 3 /\ SafeDay >= 1 /\ SafeDay <= DayMax
           /\ Nine <= HourMax
           /\ Form!Spec("min") = <<0, MinuteMax>> /\ Form!Spec("hour") = <<0, HourMax>>
           /\ Form!Spec("dom") = <<1, DayMax>> /\ Form!Spec("dow") = <<0, DowMax>>
<1>1. CalendarSizes
  BY SizesOf
<1>2. QED
  BY <1>1 DEF CalendarSizes, Form!Spec

\* An expression for one time of the day: of the words, none of the first four,
\* and what it matches.
Clocked(x, h, m, c, e) ==
    /\ Form!Valid(x)
    /\ Form!IsNumber(x.hour) /\ Form!IsNumber(x.min) /\ x.hour[1].lo = h /\ x.min[1].lo = m
    /\ ~ Form!Stars(x, Form!Fields) /\ ~ Form!Stars(x, Form!Fields \ {"min"})
    /\ ~ Form!IsEvery(x.min) /\ ~ Form!IsEvery(x.hour)
    /\ \A t \in Int : Form!Matches(x, t) <=>
         /\ Form!AtTime(<<h, m>>, t)
         /\ c = Form!Star \/ Form!Day(t) \in Form!TokenValues(c, "dom")
         /\ e = Form!Star \/ Form!Dow(t) \in Form!TokenValues(e, "dow")

LEMMA ClockOf ==
    ASSUME FormBounds, NEW h \in 0 .. HourMax, NEW m \in 0 .. MinuteMax, NEW c, NEW e,
           c = Form!Star \/ e = Form!Star, Form!TokenOk(c, "dom"), Form!TokenOk(e, "dow")
    PROVE  Clocked(Form!Expr(Form!Padded(m), Form!Padded(h), c, Form!Star, e), h, m, c, e)
<1>1. PICK a : a = Form!Padded(m)
  OBVIOUS
<1>2. PICK b : b = Form!Padded(h)
  OBVIOUS
<1>3. PICK x : x = Form!Expr(a, b, c, Form!Star, e)
  OBVIOUS
<1>4. m \in Nat /\ h \in Nat /\ m <= MinuteMax /\ h <= HourMax
  BY BasicsOf
<1>5. /\ a.kind = "one" /\ a.lo = m /\ a.step = None /\ b.kind = "one" /\ b.lo = h /\ b.step = None
  BY <1>1, <1>2, <1>4, NumberIs
<1>6. /\ a # Form!Star /\ \A v : v \in Form!TokenValues(a, "min") <=> v = m
      /\ (m >= Form!Spec("min")[1] /\ m <= Form!Spec("min")[2]) => Form!TokenOk(a, "min")
  BY <1>1, <1>4, ValuesOf DEF Form!Fields
<1>7. /\ b # Form!Star /\ \A v : v \in Form!TokenValues(b, "hour") <=> v = h
      /\ (h >= Form!Spec("hour")[1] /\ h <= Form!Spec("hour")[2]) => Form!TokenOk(b, "hour")
  BY <1>2, <1>4, ValuesOf DEF Form!Fields
<1>8. Form!TokenOk(a, "min") /\ Form!TokenOk(b, "hour") /\ Form!TokenOk(Form!Star, "month")
  <2>1. Form!TokenOk(Form!Star, "month")
    BY StarIs DEF Form!Fields
  <2>2. QED
    BY <1>4, <1>6, <1>7, <2>1, BasicsOf
<1>9. Form!Valid(x)
  BY <1>3, <1>8, ValidOne
<1>10. /\ x.min = <<a>> /\ x.hour = <<b>> /\ x["min"] = <<a>> /\ x["hour"] = <<b>>
  BY <1>3, FieldsOf
<1>11. /\ Form!IsNumber(x.hour) /\ Form!IsNumber(x.min) /\ x.hour[1].lo = h /\ x.min[1].lo = m
       /\ ~ Form!IsEvery(x.min) /\ ~ Form!IsEvery(x.hour)
  BY <1>5, <1>10 DEF Form!IsNumber, Form!IsEvery
<1>12. ~ Form!Stars(x, Form!Fields) /\ ~ Form!Stars(x, Form!Fields \ {"min"})
  <2>1. "hour" \in Form!Fields /\ "hour" \in Form!Fields \ {"min"} /\ x["hour"] # <<Form!Star>>
    BY <1>7, <1>10 DEF Form!Fields
  <2>2. QED
    BY <2>1 DEF Form!Stars
<1>13. ASSUME NEW t \in Int
       PROVE  Form!Matches(x, t) <=>
                /\ Form!AtTime(<<h, m>>, t)
                /\ c = Form!Star \/ Form!Day(t) \in Form!TokenValues(c, "dom")
                /\ e = Form!Star \/ Form!Dow(t) \in Form!TokenValues(e, "dow")
  <2>1. Form!AtTime(<<h, m>>, t) <=> Form!Minute(t) = m /\ Form!Hour(t) = h
    BY DEF Form!AtTime
  <2>2. Form!Matches(x, t) <=>
             /\ a = Form!Star \/ Form!Minute(t) \in Form!TokenValues(a, "min")
             /\ b = Form!Star \/ Form!Hour(t) \in Form!TokenValues(b, "hour")
             /\ c = Form!Star \/ Form!Day(t) \in Form!TokenValues(c, "dom")
             /\ e = Form!Star \/ Form!Dow(t) \in Form!TokenValues(e, "dow")
    BY <1>3, MatchesOne
  <2>3. QED
    BY <1>6, <1>7, <2>1, <2>2
<1>14. QED
  BY <1>1, <1>2, <1>3, <1>9, <1>11, <1>12, <1>13 DEF Clocked

\* One token that is no range is not the weekdays, written either way.
LEMMA NoWeekDays ==
    ASSUME FormBounds, NEW a, a.kind # "range"
    PROVE  <<a>> \notin {<<Form!WeekDays>>, [k \in 1 .. DowMax - 1 |-> Form!One(k)]}
<1> DEFINE s == Form!Star
           p == [s EXCEPT !["kind"] = "range"]
           q == [p EXCEPT !["lo"] = 1]
           r == [q EXCEPT !["hi"] = DowMax - 1]
<1>1. Keyed(s, Keys) /\ "kind" \in Keys /\ "lo" \in Keys /\ "hi" \in Keys
  BY DEF Form!Star, Keyed, Keys
<1> HIDE DEF s
<1>2. Keyed(p, Keys) /\ p["kind"] = "range"
  BY <1>1, KeyedExcept
<1> HIDE DEF p
<1>3. Keyed(q, Keys) /\ q["kind"] = "range"
  BY <1>1, <1>2, KeyedExcept
<1> HIDE DEF q
<1>4. r["kind"] = "range"
  BY <1>1, <1>3, KeyedExcept
<1> HIDE DEF r
<1>5. Form!WeekDays = r
  BY DEF Form!WeekDays, Form!Span, r, q, p, s
<1>6. <<a>> # <<Form!WeekDays>>
  <2>1. a # r
    BY <1>4
  <2>2. <<a>> # <<r>>
    BY <2>1
  <2>3. QED
    BY <1>5, <2>2
<1>7. <<a>> # [k \in 1 .. DowMax - 1 |-> Form!One(k)]
  <2>1. 2 \in 1 .. DowMax - 1
    BY BasicsOf
  <2>2. DOMAIN <<a>> = 1 .. 1
    OBVIOUS
  <2>3. QED
    BY <2>1, <2>2
<1>8. QED
  BY <1>6, <1>7

LEMMA DailyWords ==
    ASSUME FormBounds, NEW h \in 0 .. HourMax, NEW m \in 0 .. MinuteMax
    PROVE  LET x == Form!ForDaily(<<h, m>>) IN
           /\ Form!Valid(x)
           /\ Form!Describe(x) = [says |-> "daily", at |-> <<h, m>>]
           /\ \A t \in Int : Form!Matches(x, t) <=> Form!AtTime(<<h, m>>, t)
<1>1. PICK x : x = Form!Expr(Form!Padded(m), Form!Padded(h), Form!Star, Form!Star, Form!Star)
  OBVIOUS
<1>2. Form!TokenOk(Form!Star, "dom") /\ Form!TokenOk(Form!Star, "dow")
  BY StarIs DEF Form!Fields
<1>3. /\ Form!Valid(x)
      /\ Form!IsNumber(x.hour) /\ Form!IsNumber(x.min) /\ x.hour[1].lo = h /\ x.min[1].lo = m
      /\ ~ Form!Stars(x, Form!Fields) /\ ~ Form!Stars(x, Form!Fields \ {"min"})
      /\ ~ Form!IsEvery(x.min) /\ ~ Form!IsEvery(x.hour)
      /\ \A t \in Int : Form!Matches(x, t) <=> Form!AtTime(<<h, m>>, t)
  <2>1. Clocked(x, h, m, Form!Star, Form!Star)
    BY <1>1, <1>2, ClockOf
  <2>2. QED
    BY <2>1 DEF Clocked
<1>4. Form!Stars(x, {"dom", "month", "dow"})
  BY <1>1, FieldsOf DEF Form!Stars
<1>5. <<h, m>> # None
  BY DEF FormBounds
<1>6. x.dom = <<Form!Star>> /\ x.month = <<Form!Star>> /\ x.dow = <<Form!Star>>
  BY <1>1, FieldsOf
<1>7. ~ Form!IsNumber(x.dom) /\ ~ Form!IsNumber(x.month) /\ ~ Form!IsNumber(x.dow)
  BY <1>6, StarIs DEF Form!IsNumber
<1>8. x.dow \notin {<<Form!WeekDays>>, [k \in 1 .. DowMax - 1 |-> Form!One(k)]}
  BY <1>6, StarIs, NoWeekDays
<1>9. Form!Describe(x) = [says |-> "daily", at |-> <<h, m>>]
  BY <1>3, <1>4, <1>5, <1>7, <1>8 DEF Form!Describe
<1>10. x = Form!ForDaily(<<h, m>>)
  BY <1>1 DEF Form!ForDaily
<1>11. QED
  BY <1>3, <1>9, <1>10

LEMMA WeeklyWords ==
    ASSUME FormBounds, NEW h \in 0 .. HourMax, NEW m \in 0 .. MinuteMax, NEW d \in 0 .. DowMax
    PROVE  LET x == Form!ForWeekly(d, <<h, m>>) IN
           /\ Form!Valid(x)
           /\ Form!Describe(x) = [says |-> "weekly", at |-> <<h, m>>, on |-> d]
           /\ \A t \in Int : Form!Matches(x, t) <=> Form!AtTime(<<h, m>>, t) /\ Form!Dow(t) = d
<1>1. PICK e : e = Form!One(d)
  OBVIOUS
<1>2. PICK x : x = Form!Expr(Form!Padded(m), Form!Padded(h), Form!Star, Form!Star, e)
  OBVIOUS
<1>3. d \in Nat /\ "dow" \in Form!Fields /\ "dom" \in Form!Fields
  BY BasicsOf DEF Form!Fields
<1>4. e # Form!Star /\ (\A v : v \in Form!TokenValues(e, "dow") <=> v = d) /\ Form!TokenOk(e, "dow")
  BY <1>1, <1>3, ValuesOf, BasicsOf
<1>5. e.kind = "one" /\ e.step = None /\ e.lo = d
  BY <1>1, <1>3, NumberIs
<1>6. Form!TokenOk(Form!Star, "dom")
  BY <1>3, StarIs
<1>7. /\ Form!Valid(x)
      /\ Form!IsNumber(x.hour) /\ Form!IsNumber(x.min) /\ x.hour[1].lo = h /\ x.min[1].lo = m
      /\ ~ Form!Stars(x, Form!Fields) /\ ~ Form!Stars(x, Form!Fields \ {"min"})
      /\ ~ Form!IsEvery(x.min) /\ ~ Form!IsEvery(x.hour)
      /\ \A t \in Int : Form!Matches(x, t) <=>
            Form!AtTime(<<h, m>>, t) /\ (e = Form!Star \/ Form!Dow(t) \in Form!TokenValues(e, "dow"))
  <2>1. Form!TokenOk(Form!Star, "dom") /\ Form!TokenOk(e, "dow")
    BY <1>4, <1>6
  <2>2. Clocked(x, h, m, Form!Star, e)
    BY <1>2, <2>1, ClockOf
  <2>3. QED
    BY <2>2 DEF Clocked
<1>8. /\ x["dom"] = <<Form!Star>> /\ x["month"] = <<Form!Star>> /\ x["dow"] = <<e>> /\ x.dow = <<e>>
      /\ x.dom = <<Form!Star>> /\ x.month = <<Form!Star>>
  BY <1>2, FieldsOf
<1>9. /\ ~ Form!Stars(x, {"dom", "month", "dow"}) /\ Form!Stars(x, {"dom", "month"})
      /\ ~ Form!Stars(x, {"month", "dow"}) /\ ~ Form!Stars(x, {"dom", "dow"})
  BY <1>4, <1>8 DEF Form!Stars
<1>10. <<h, m>> # None
  BY DEF FormBounds
<1>11. Form!IsNumber(x.dow) /\ x.dow[1].lo = d
  BY <1>5, <1>8 DEF Form!IsNumber
<1>12. x.dow \notin {<<Form!WeekDays>>, [k \in 1 .. DowMax - 1 |-> Form!One(k)]}
  BY <1>5, <1>8, NoWeekDays
<1>13. Form!Describe(x) = [says |-> "weekly", at |-> <<h, m>>, on |-> d]
  BY <1>7, <1>9, <1>10, <1>11, <1>12 DEF Form!Describe
<1>14. x = Form!ForWeekly(d, <<h, m>>)
  BY <1>1, <1>2 DEF Form!ForWeekly
<1>15. QED
  BY <1>4, <1>7, <1>13, <1>14

LEMMA MonthlyWords ==
    ASSUME FormBounds, NEW h \in 0 .. HourMax, NEW m \in 0 .. MinuteMax, NEW d \in 1 .. SafeDay
    PROVE  LET x == Form!ForMonthly(d, <<h, m>>) IN
           /\ Form!Valid(x)
           /\ Form!Describe(x) = [says |-> "monthly", at |-> <<h, m>>, on |-> d]
           /\ \A t \in Int : Form!Matches(x, t) <=> Form!AtTime(<<h, m>>, t) /\ Form!Day(t) = d
<1>1. PICK c : c = Form!One(d)
  OBVIOUS
<1>2. PICK x : x = Form!Expr(Form!Padded(m), Form!Padded(h), c, Form!Star, Form!Star)
  OBVIOUS
<1>3. d \in Nat /\ "dow" \in Form!Fields /\ "dom" \in Form!Fields
  BY BasicsOf DEF Form!Fields
<1>4. c # Form!Star /\ (\A v : v \in Form!TokenValues(c, "dom") <=> v = d) /\ Form!TokenOk(c, "dom")
  BY <1>1, <1>3, ValuesOf, BasicsOf
<1>5. c.kind = "one" /\ c.step = None /\ c.lo = d
  BY <1>1, <1>3, NumberIs
<1>6. Form!TokenOk(Form!Star, "dow")
  BY <1>3, StarIs
<1>7. /\ Form!Valid(x)
      /\ Form!IsNumber(x.hour) /\ Form!IsNumber(x.min) /\ x.hour[1].lo = h /\ x.min[1].lo = m
      /\ ~ Form!Stars(x, Form!Fields) /\ ~ Form!Stars(x, Form!Fields \ {"min"})
      /\ ~ Form!IsEvery(x.min) /\ ~ Form!IsEvery(x.hour)
      /\ \A t \in Int : Form!Matches(x, t) <=>
            Form!AtTime(<<h, m>>, t) /\ (c = Form!Star \/ Form!Day(t) \in Form!TokenValues(c, "dom"))
  <2>1. Form!TokenOk(c, "dom") /\ Form!TokenOk(Form!Star, "dow")
    BY <1>4, <1>6
  <2>2. Clocked(x, h, m, c, Form!Star)
    BY <1>2, <2>1, ClockOf
  <2>3. QED
    BY <2>2 DEF Clocked
<1>8. /\ x["dom"] = <<c>> /\ x["month"] = <<Form!Star>> /\ x["dow"] = <<Form!Star>>
      /\ x.dow = <<Form!Star>> /\ x.dom = <<c>> /\ x.month = <<Form!Star>>
  BY <1>2, FieldsOf
<1>9. /\ ~ Form!Stars(x, {"dom", "month", "dow"}) /\ ~ Form!Stars(x, {"dom", "month"})
      /\ Form!Stars(x, {"month", "dow"}) /\ ~ Form!Stars(x, {"dom", "dow"})
  BY <1>4, <1>8 DEF Form!Stars
<1>10. <<h, m>> # None
  BY DEF FormBounds
<1>11. Form!IsNumber(x.dom) /\ x.dom[1].lo = d
  BY <1>5, <1>8 DEF Form!IsNumber
<1>12. Form!Describe(x) = [says |-> "monthly", at |-> <<h, m>>, on |-> d]
  BY <1>7, <1>9, <1>10, <1>11 DEF Form!Describe
<1>13. x = Form!ForMonthly(d, <<h, m>>)
  <2>1. Form!Clamp(d, 1, SafeDay) = d
    BY BasicsOf DEF Form!Clamp
  <2>2. QED
    BY <1>1, <1>2, <2>1 DEF Form!ForMonthly
<1>14. QED
  BY <1>4, <1>7, <1>12, <1>13

LEMMA ClampIs ==
    ASSUME NEW n \in Int, NEW lo \in Int, NEW hi \in Int, lo <= hi
    PROVE  Form!Clamp(n, lo, hi) \in lo .. hi
BY DEF Form!Clamp

\* Every n minutes, and every n hours at their start.
LEMMA IntervalWords ==
    ASSUME FormBounds, NEW n \in Int, NEW unit \in {"minutes", "hours"}
    PROVE  LET x == Form!ForInterval(n, unit)
               k == Form!Clamp(n, 1, MinuteMax) IN
           /\ Form!Valid(x)
           /\ Form!Describe(x) = [says |-> unit, n |-> k]
           /\ \A t \in Int : Form!Matches(x, t) <=>
                IF unit = "minutes" THEN Form!Minute(t) % k = 0
                                    ELSE Form!Minute(t) = 0 /\ Form!Hour(t) % k = 0
<1>1. PICK k \in 1 .. MinuteMax : k = Form!Clamp(n, 1, MinuteMax)
  <2>1. 1 \in Int /\ MinuteMax \in Int /\ 1 <= MinuteMax
    BY BasicsOf
  <2>2. QED
    BY <2>1, ClampIs
<1>2. PICK a : a = Form!Every(k)
  OBVIOUS
<1>3. k \in Nat /\ k > 0 /\ MinuteMax \in Nat
  BY BasicsOf
<1>4. a.kind = "star" /\ a.step = k /\ k # None
  <2>1. None \notin Int /\ k \in Int
    BY <1>3 DEF FormBounds
  <2>2. QED
    BY <1>2, <1>3, <2>1, NumberIs
<1>5. ASSUME NEW f \in Form!Fields
      PROVE  /\ a # Form!Star /\ Form!TokenOk(a, f)
             /\ Form!TokenValues(a, f) = {v \in Form!Spec(f)[1] .. Form!Spec(f)[2] : (v - Form!Spec(f)[1]) % k = 0}
  BY <1>2, <1>3, EveryOf
<1>6. \A f \in Form!Fields : Form!TokenOk(Form!Star, f)
  BY StarIs
<1>7. CASE unit = "minutes"
  <2>1. PICK x : x = Form!Expr(a, Form!Star, Form!Star, Form!Star, Form!Star)
    OBVIOUS
  <2>2. Form!Valid(x)
    BY <1>5, <1>6, <2>1, ValidOne DEF Form!Fields
  <2>3. ASSUME NEW t \in Int PROVE Form!Matches(x, t) <=> Form!Minute(t) % k = 0
    <3>1. Form!Matches(x, t) <=> Form!Minute(t) \in Form!TokenValues(a, "min")
      <4>1. a # Form!Star
        BY <1>5 DEF Form!Fields
      <4>2. QED
        BY <2>1, <4>1, MatchesOne
    <3>2. Form!TokenValues(a, "min") = {v \in 0 .. MinuteMax : (v - 0) % k = 0}
      BY <1>5, BasicsOf DEF Form!Fields
    <3>3. Form!Minute(t) \in 0 .. MinuteMax
      BY TimeOf
    <3>4. PICK v \in Nat : v = Form!Minute(t) /\ v <= MinuteMax
      BY <1>3, <3>3
    <3>5. v - 0 = v
      OBVIOUS
    <3>6. QED
      BY <3>1, <3>2, <3>3, <3>4, <3>5
  <2>4. /\ x.min = <<a>> /\ x["min"] = <<a>>
        /\ \A f \in {"hour", "dom", "month", "dow"} : x[f] = <<Form!Star>>
        /\ x.hour = <<Form!Star>> /\ x.dom = <<Form!Star>> /\ x.month = <<Form!Star>> /\ x.dow = <<Form!Star>>
    BY <2>1, FieldsOf
  <2>5. ~ Form!Stars(x, Form!Fields) /\ Form!Stars(x, Form!Fields \ {"min"})
    BY <1>5, <2>4 DEF Form!Stars, Form!Fields
  <2>6. Form!IsEvery(x.min) /\ x.min[1].step = k /\ ~ Form!IsEvery(x.hour) /\ ~ Form!IsNumber(x.hour)
    BY <1>4, <2>4, StarIs DEF Form!IsEvery, Form!IsNumber
  <2>7. x.min # <<Form!One(0)>>
    <3>1. Form!One(0).kind = "one"
      BY NumberIs
    <3>2. a # Form!One(0)
      BY <1>4, <3>1
    <3>3. QED
      BY <2>4, <3>2
  <2>8. Form!Describe(x) = [says |-> "minutes", n |-> k]
    BY <2>5, <2>6, <2>7 DEF Form!Describe
  <2>9. x = Form!ForInterval(n, unit)
    BY <1>1, <1>2, <1>7, <2>1 DEF Form!ForInterval
  <2>10. QED
    BY <1>1, <1>7, <2>2, <2>3, <2>8, <2>9
<1>8. CASE unit = "hours"
  <2>0. PICK o : o = Form!One(0)
    OBVIOUS
  <2>1. PICK x : x = Form!Expr(o, a, Form!Star, Form!Star, Form!Star)
    OBVIOUS
  <2>2. o # Form!Star /\ (\A v : v \in Form!TokenValues(o, "min") <=> v = 0) /\ Form!TokenOk(o, "min")
    BY <2>0, ValuesOf, BasicsOf DEF Form!Fields
  <2>3. Form!Valid(x)
    BY <1>5, <1>6, <2>1, <2>2, ValidOne DEF Form!Fields
  <2>4. ASSUME NEW t \in Int PROVE Form!Matches(x, t) <=> Form!Minute(t) = 0 /\ Form!Hour(t) % k = 0
    <3>1. Form!Matches(x, t) <=> Form!Minute(t) = 0 /\ Form!Hour(t) \in Form!TokenValues(a, "hour")
      <4>1. a # Form!Star
        BY <1>5 DEF Form!Fields
      <4>2. QED
        BY <2>1, <2>2, <4>1, MatchesOne
    <3>2. Form!TokenValues(a, "hour") = {v \in 0 .. HourMax : (v - 0) % k = 0}
      BY <1>5, BasicsOf DEF Form!Fields
    <3>3. Form!Hour(t) \in 0 .. HourMax
      BY TimeOf
    <3>4. PICK v \in Nat : v = Form!Hour(t) /\ v <= HourMax
      BY <3>3, BasicsOf
    <3>5. v - 0 = v
      OBVIOUS
    <3>6. QED
      BY <3>1, <3>2, <3>3, <3>4, <3>5
  <2>5. /\ x.min = <<o>> /\ x.hour = <<a>> /\ x["min"] = <<o>> /\ x["hour"] = <<a>>
        /\ \A f \in {"dom", "month", "dow"} : x[f] = <<Form!Star>>
    BY <2>1, FieldsOf
  <2>6. /\ ~ Form!Stars(x, Form!Fields) /\ ~ Form!Stars(x, Form!Fields \ {"min"})
        /\ Form!Stars(x, {"dom", "month", "dow"})
    BY <1>5, <2>2, <2>5 DEF Form!Stars, Form!Fields
  <2>7. o.kind = "one"
    BY <2>0, NumberIs
  <2>8. Form!IsEvery(x.hour) /\ x.hour[1].step = k /\ ~ Form!IsEvery(x.min) /\ ~ Form!IsNumber(x.hour)
    BY <1>4, <2>5, <2>7 DEF Form!IsEvery, Form!IsNumber
  <2>9. Form!Describe(x) = [says |-> "hours", n |-> k]
    BY <2>0, <2>5, <2>6, <2>8 DEF Form!Describe
  <2>10. x = Form!ForInterval(n, unit)
    BY <1>1, <1>2, <1>8, <2>0, <2>1 DEF Form!ForInterval
  <2>11. QED
    BY <1>1, <1>8, <2>3, <2>4, <2>9, <2>10
<1>9. QED
  BY <1>7, <1>8

-----------------------------------------------------------------------------
(* Drafts of the form.                                                     *)

DraftKeys == {"gen", "preset", "custom", "mode", "n", "unit", "time", "dow", "day", "raw",
              "url", "script", "alone"}

Modes == {"interval", "weekly", "monthly", "daily", "raw"}

ValueOk(k, v) ==
    /\ k = "mode" => v \in Modes
    /\ k = "n" => v \in Int
    /\ k = "unit" => v \in {"minutes", "hours"}
    /\ k = "time" => v \in Times \cup {<<Nine, 0>>}
    /\ k = "dow" => v \in 0 .. DowMax
    /\ k = "day" => v \in 1 .. SafeDay

Typed(d) == Keyed(d, DraftKeys) /\ \A k \in DraftKeys : ValueOk(k, d[k])

\* While the builder shows, the expression is the one it computed last.
DraftOk(d) == Typed(d) /\ (d["preset"] = Custom => d["custom"] = Form!Computed(d))

LEMMA DraftSet ==
    ASSUME NEW d, Typed(d), NEW k \in DraftKeys, NEW v, ValueOk(k, v)
    PROVE  LET e == [d EXCEPT ![k] = v] IN
           Typed(e) /\ e[k] = v /\ \A l \in DraftKeys \ {k} : e[l] = d[l]
<1> DEFINE e == [d EXCEPT ![k] = v]
<1>1. Keyed(e, DraftKeys) /\ e[k] = v /\ \A l \in DraftKeys \ {k} : e[l] = d[l]
  BY KeyedExcept DEF Typed
<1> HIDE DEF e
<1>2. ASSUME NEW l \in DraftKeys PROVE ValueOk(l, e[l])
  <2>1. CASE l = k
    BY <1>1, <2>1
  <2>2. CASE l # k
    BY <1>1, <2>2 DEF Typed
  <2>3. QED
    BY <2>1, <2>2
<1>3. QED
  BY <1>1, <1>2 DEF Typed, e

\* What is computed reads neither the expression nor what to watch or to run.
LEMMA SameComputed ==
    ASSUME NEW d, NEW e, \A k \in {"mode", "n", "unit", "time", "dow", "day", "raw"} : e[k] = d[k]
    PROVE  Form!Computed(e) = Form!Computed(d)
BY DEF Form!Computed, Form!At

LEMMA PaintedOk ==
    ASSUME NEW d, Typed(d)
    PROVE  DraftOk(Form!Painted(d))
<1>1. PICK v : v = Form!Computed(d)
  OBVIOUS
<1>2. PICK e : e = [d EXCEPT !["custom"] = v]
  OBVIOUS
<1>3. "custom" \in DraftKeys /\ ValueOk("custom", v)
  BY DEF DraftKeys, ValueOk
<1>4. Typed(e) /\ e["custom"] = v /\ \A l \in DraftKeys \ {"custom"} : e[l] = d[l]
  <2>1. Typed(e)
    BY <1>2, <1>3, DraftSet
  <2>2. Keyed(d, DraftKeys)
    BY DEF Typed
  <2>3. e["custom"] = v /\ \A l \in DraftKeys \ {"custom"} : e[l] = d[l]
    BY <1>2, <1>3, <2>2, KeyedExcept
  <2>4. QED
    BY <2>1, <2>3
<1>5. \A k \in {"mode", "n", "unit", "time", "dow", "day", "raw"} : e[k] = d[k]
  BY <1>4 DEF DraftKeys
<1>6. Form!Computed(e) = v
  BY <1>1, <1>5, SameComputed
<1>7. Form!Painted(d) = e
  BY <1>1, <1>2 DEF Form!Painted
<1>8. QED
  BY <1>4, <1>6, <1>7 DEF DraftOk

LEMMA AsideOk ==
    ASSUME NEW d, DraftOk(d), NEW k \in {"url", "script", "alone"}, NEW v
    PROVE  DraftOk([d EXCEPT ![k] = v])
<1>1. PICK e : e = [d EXCEPT ![k] = v]
  OBVIOUS
<1>2. k \in DraftKeys /\ ValueOk(k, v)
  BY DEF DraftKeys, ValueOk
<1>3. Typed(e) /\ \A l \in DraftKeys \ {k} : e[l] = d[l]
  <2>1. Typed(d)
    BY DEF DraftOk
  <2>2. Typed(e)
    BY <1>1, <1>2, <2>1, DraftSet
  <2>3. Keyed(d, DraftKeys)
    BY <2>1 DEF Typed
  <2>4. \A l \in DraftKeys \ {k} : e[l] = d[l]
    BY <1>1, <1>2, <2>3, KeyedExcept
  <2>5. QED
    BY <2>2, <2>4
<1>4. \A l \in {"mode", "n", "unit", "time", "dow", "day", "raw", "preset", "custom"} : e[l] = d[l]
  BY <1>3 DEF DraftKeys
<1>5. Form!Computed(e) = Form!Computed(d)
  BY <1>4, SameComputed
<1>6. QED
  BY <1>1, <1>3, <1>4, <1>5 DEF DraftOk

LEMMA RowOk ==
    ASSUME FormBounds, NEW d, Typed(d)
    PROVE  DraftOk(Form!ExprRow(d))
<1>1. CASE d.preset # Custom
  <2>1. Form!ExprRow(d) = d
    BY <1>1 DEF Form!ExprRow
  <2>2. QED
    BY <1>1, <2>1 DEF DraftOk
<1>2. CASE d.preset = Custom
  <2>1. PICK mode \in Modes : mode = IF d.custom = Empty THEN "daily" ELSE "raw"
    BY DEF Modes
  <2>2. PICK raw : raw = d.custom
    OBVIOUS
  <2>3. PICK e1 : e1 = [d EXCEPT !["mode"] = mode]
    OBVIOUS
  <2>4. PICK e2 : e2 = [e1 EXCEPT !["n"] = Quarter]
    OBVIOUS
  <2>5. PICK e3 : e3 = [e2 EXCEPT !["unit"] = "minutes"]
    OBVIOUS
  <2>6. PICK e4 : e4 = [e3 EXCEPT !["time"] = <<Nine, 0>>]
    OBVIOUS
  <2>7. PICK e5 : e5 = [e4 EXCEPT !["dow"] = 1]
    OBVIOUS
  <2>8. PICK e6 : e6 = [e5 EXCEPT !["day"] = 1]
    OBVIOUS
  <2>9. PICK e7 : e7 = [e6 EXCEPT !["raw"] = raw]
    OBVIOUS
  <2>10. {"mode", "n", "unit", "time", "dow", "day", "raw"} \subseteq DraftKeys
    BY DEF DraftKeys
  <2>11. /\ ValueOk("mode", mode) /\ ValueOk("n", Quarter) /\ ValueOk("unit", "minutes")
         /\ ValueOk("time", <<Nine, 0>>) /\ ValueOk("dow", 1) /\ ValueOk("day", 1) /\ ValueOk("raw", raw)
    BY BasicsOf DEF ValueOk
  <2>12. Typed(e1)
    BY <2>3, <2>10, <2>11, DraftSet
  <2>13. Typed(e2)
    BY <2>4, <2>10, <2>11, <2>12, DraftSet
  <2>14. Typed(e3)
    BY <2>5, <2>10, <2>11, <2>13, DraftSet
  <2>15. Typed(e4)
    BY <2>6, <2>10, <2>11, <2>14, DraftSet
  <2>16. Typed(e5)
    BY <2>7, <2>10, <2>11, <2>15, DraftSet
  <2>17. Typed(e6)
    BY <2>8, <2>10, <2>11, <2>16, DraftSet
  <2>18. Typed(e7)
    BY <2>9, <2>10, <2>11, <2>17, DraftSet
  <2>19. Form!ExprRow(d) = Form!Painted(e7)
    BY <1>2, <2>1, <2>2, <2>3, <2>4, <2>5, <2>6, <2>7, <2>8, <2>9 DEF Form!ExprRow
  <2>20. QED
    BY <2>18, <2>19, PaintedOk
<1>3. QED
  BY <1>1, <1>2

LEMMA BlankOk == ASSUME FormBounds PROVE DraftOk(Form!Blank)
<1> DEFINE b == Form!Blank
<1>1. Keyed(b, DraftKeys)
  BY DEF Form!Blank, Keyed, DraftKeys
<1>2. /\ b["mode"] = "daily" /\ b["n"] = Quarter /\ b["unit"] = "minutes" /\ b["time"] = <<Nine, 0>>
      /\ b["dow"] = 1 /\ b["day"] = 1 /\ b["preset"] = Form!Daily
  BY DEF Form!Blank
<1>3. Form!Daily \in Form!Presets
  BY DEF Form!Daily, Form!Presets
<1>4. b["preset"] # Custom
  BY <1>2, <1>3 DEF FormBounds
<1> HIDE DEF b
<1>5. \A k \in DraftKeys : ValueOk(k, b[k])
  BY <1>2, BasicsOf DEF ValueOk, Modes
<1>6. DraftOk(b)
  BY <1>1, <1>4, <1>5 DEF DraftOk, Typed
<1>7. QED
  BY <1>6 DEF b

LEMMA FormOfOk == ASSUME FormBounds, NEW t PROVE DraftOk(Form!FormOf(t))
<1>1. PICK preset : preset = IF t.expr \in Form!Presets THEN t.expr ELSE Custom
  OBVIOUS
<1>2. PICK custom : custom = IF t.expr \in Form!Presets THEN Empty ELSE t.expr
  OBVIOUS
<1>3. PICK e1 : e1 = [Form!Blank EXCEPT !["gen"] = formGen]
  OBVIOUS
<1>4. PICK e2 : e2 = [e1 EXCEPT !["url"] = t.url]
  OBVIOUS
<1>5. PICK e3 : e3 = [e2 EXCEPT !["script"] = t.script]
  OBVIOUS
<1>6. PICK e4 : e4 = [e3 EXCEPT !["alone"] = t.alone]
  OBVIOUS
<1>7. PICK e5 : e5 = [e4 EXCEPT !["preset"] = preset]
  OBVIOUS
<1>8. PICK e6 : e6 = [e5 EXCEPT !["custom"] = custom]
  OBVIOUS
<1>9. \A v : \A k \in {"gen", "url", "script", "alone", "preset", "custom"} : k \in DraftKeys /\ ValueOk(k, v)
  BY DEF DraftKeys, ValueOk
<1>10. Typed(Form!Blank)
  BY BlankOk DEF DraftOk
<1>11. Typed(e1)
  BY <1>3, <1>9, <1>10, DraftSet
<1>12. Typed(e2)
  BY <1>4, <1>9, <1>11, DraftSet
<1>13. Typed(e3)
  BY <1>5, <1>9, <1>12, DraftSet
<1>14. Typed(e4)
  BY <1>6, <1>9, <1>13, DraftSet
<1>15. Typed(e5)
  BY <1>7, <1>9, <1>14, DraftSet
<1>16. Typed(e6)
  BY <1>8, <1>9, <1>15, DraftSet
<1>17. Form!FormOf(t) = Form!ExprRow(e6)
  BY <1>1, <1>2, <1>3, <1>4, <1>5, <1>6, <1>7, <1>8 DEF Form!FormOf
<1>18. QED
  BY <1>16, <1>17, RowOk

\* The builder's expression fires when its words say.
LEMMA DraftFires ==
    ASSUME FormBounds, NEW d, DraftOk(d), d.preset = Custom, d.mode # "raw", NEW x, x = d.custom
    PROVE  /\ Form!Valid(x)
           /\ LET desc == Form!Describe(x) IN
              /\ desc # None
              /\ \A t \in Int : Form!Matches(x, t) <=> Form!Means(desc, t)
              /\ d.mode = "interval" => desc.n = Form!Clamp(d.n, 1, MinuteMax)
              /\ d.mode # "interval" => desc.at = Form!At(d.time)
              /\ d.mode = "weekly" => desc.on = d.dow
<1>1. x = Form!Computed(d)
  BY DEF DraftOk
<1>2. /\ d["mode"] \in Modes /\ d["n"] \in Int /\ d["unit"] \in {"minutes", "hours"}
      /\ d["time"] \in Times \cup {<<Nine, 0>>} /\ d["dow"] \in 0 .. DowMax /\ d["day"] \in 1 .. SafeDay
  BY DEF DraftOk, Typed, ValueOk, DraftKeys
<1>3. PICK h \in 0 .. HourMax, m \in 0 .. MinuteMax : Form!At(d.time) = <<h, m>>
  <2>1. 0 \in 0 .. MinuteMax /\ Nine \in 0 .. HourMax
    BY BasicsOf
  <2>2. CASE d.time = None \/ d.time = <<Nine, 0>>
    BY <2>1, <2>2 DEF Form!At
  <2>3. CASE d.time # None /\ d.time # <<Nine, 0>>
    <3>1. d.time \in (0 .. HourMax) \X (0 .. MinuteMax)
      BY <1>2, <2>3 DEF FormBounds
    <3>2. QED
      BY <2>3, <3>1 DEF Form!At
  <2>4. QED
    BY <2>2, <2>3
<1>4. CASE d.mode = "interval"
  <2>1. x = Form!ForInterval(d.n, d.unit)
    BY <1>1, <1>4 DEF Form!Computed
  <2>2. PICK k \in Int : k = Form!Clamp(d.n, 1, MinuteMax)
    BY <1>2, BasicsOf DEF Form!Clamp
  <2>3. PICK desc : desc = Form!Describe(x)
    OBVIOUS
  <2>4. Form!Valid(x) /\ desc = [says |-> d.unit, n |-> k]
    BY <1>2, <2>1, <2>2, <2>3, IntervalWords
  <2>5. \A t \in Int : Form!Matches(x, t) <=>
            IF d.unit = "minutes" THEN Form!Minute(t) % k = 0
                                  ELSE Form!Minute(t) = 0 /\ Form!Hour(t) % k = 0
    BY <1>2, <2>1, <2>2, IntervalWords
  <2>6. desc.says = d.unit /\ desc.n = k
    BY <2>4
  <2>7. \A t \in Int : Form!Matches(x, t) <=> Form!Means(desc, t)
    BY <1>2, <2>5, <2>6 DEF Form!Means
  <2>8. desc # None
    BY <2>4 DEF FormBounds
  <2>9. QED
    BY <1>4, <2>2, <2>3, <2>4, <2>6, <2>7, <2>8
<1>5. CASE d.mode = "daily"
  <2>1. x = Form!ForDaily(<<h, m>>)
    BY <1>1, <1>3, <1>5 DEF Form!Computed
  <2>2. PICK desc : desc = Form!Describe(x)
    OBVIOUS
  <2>3. Form!Valid(x) /\ desc = [says |-> "daily", at |-> <<h, m>>]
    BY <1>2, <2>1, <2>2, DailyWords
  <2>4. \A t \in Int : Form!Matches(x, t) <=> Form!AtTime(<<h, m>>, t)
    BY <1>2, <2>1, DailyWords
  <2>5. desc.says = "daily" /\ desc.at = <<h, m>>
    BY <2>3
  <2>6. \A t \in Int : Form!Matches(x, t) <=> Form!Means(desc, t)
    BY <2>4, <2>5 DEF Form!Means
  <2>7. desc # None
    BY <2>3 DEF FormBounds
  <2>8. QED
    BY <1>3, <1>5, <2>2, <2>3, <2>5, <2>6, <2>7
<1>6. CASE d.mode = "weekly"
  <2>0. PICK w \in 0 .. DowMax : w = d.dow
    BY <1>2
  <2>1. x = Form!ForWeekly(w, <<h, m>>)
    BY <1>1, <1>3, <1>6, <2>0 DEF Form!Computed
  <2>2. PICK desc : desc = Form!Describe(x)
    OBVIOUS
  <2>3. Form!Valid(x) /\ desc = [says |-> "weekly", at |-> <<h, m>>, on |-> w]
    BY <2>1, <2>2, WeeklyWords
  <2>4. \A t \in Int : Form!Matches(x, t) <=> Form!AtTime(<<h, m>>, t) /\ Form!Dow(t) = w
    <3>1. \A t \in Int : Form!Matches(Form!ForWeekly(w, <<h, m>>), t)
                           <=> Form!AtTime(<<h, m>>, t) /\ Form!Dow(t) = w
      BY WeeklyWords
    <3>2. QED
      BY <2>1, <3>1
  <2>5. desc.says = "weekly" /\ desc.at = <<h, m>> /\ desc.on = w
    BY <2>3
  <2>6. \A t \in Int : Form!Matches(x, t) <=> Form!Means(desc, t)
    BY <2>4, <2>5 DEF Form!Means
  <2>7. desc # None
    BY <2>3 DEF FormBounds
  <2>8. QED
    BY <1>3, <1>6, <2>0, <2>2, <2>3, <2>5, <2>6, <2>7
<1>7. CASE d.mode = "monthly"
  <2>0. PICK w \in 1 .. SafeDay : w = d.day
    BY <1>2
  <2>1. x = Form!ForMonthly(w, <<h, m>>)
    BY <1>1, <1>3, <1>7, <2>0 DEF Form!Computed
  <2>2. PICK desc : desc = Form!Describe(x)
    OBVIOUS
  <2>3. Form!Valid(x) /\ desc = [says |-> "monthly", at |-> <<h, m>>, on |-> w]
    BY <2>1, <2>2, MonthlyWords
  <2>4. \A t \in Int : Form!Matches(x, t) <=> Form!AtTime(<<h, m>>, t) /\ Form!Day(t) = w
    <3>1. \A t \in Int : Form!Matches(Form!ForMonthly(w, <<h, m>>), t)
                           <=> Form!AtTime(<<h, m>>, t) /\ Form!Day(t) = w
      BY MonthlyWords
    <3>2. QED
      BY <2>1, <3>1
  <2>5. desc.says = "monthly" /\ desc.at = <<h, m>> /\ desc.on = w
    BY <2>3
  <2>6. \A t \in Int : Form!Matches(x, t) <=> Form!Means(desc, t)
    BY <2>4, <2>5 DEF Form!Means
  <2>7. desc # None
    BY <2>3 DEF FormBounds
  <2>8. QED
    BY <1>3, <1>7, <2>0, <2>2, <2>3, <2>5, <2>6, <2>7
<1>8. QED
  BY <1>2, <1>4, <1>5, <1>6, <1>7 DEF Modes

-----------------------------------------------------------------------------
(* The automation the form, the agent, the row and the runs write to.      *)

TaskKeys == {"expr", "next", "set", "enabled", "url", "hash", "script", "alone"}

TaskOk(t) ==
    /\ Keyed(t, TaskKeys)
    /\ t["enabled"] \in BOOLEAN
    /\ Form!Valid(t["expr"])
    /\ t["set"] \in Nat \cup {None}
    /\ (t["enabled"] /\ t["set"] # None) => t["next"] = Form!NextRun(t["expr"], t["set"])

Apart(t) == ~ (t["script"] # None /\ t["url"] # None)

\* A field that no schedule depends on.
LEMMA AsideTask ==
    ASSUME NEW t, TaskOk(t), NEW k \in {"url", "hash", "script", "alone"}, NEW v
    PROVE  /\ TaskOk(Put(t, k, v)) /\ Put(t, k, v)[k] = v
           /\ \A l \in TaskKeys \ {k} : Put(t, k, v)[l] = t[l]
<1>1. PICK e : e = Put(t, k, v)
  OBVIOUS
<1>2. k \in TaskKeys /\ k \notin {"expr", "next", "set", "enabled"}
  BY DEF TaskKeys
<1>3. Keyed(e, TaskKeys) /\ e[k] = v /\ \A l \in TaskKeys \ {k} : e[l] = t[l]
  BY <1>1, <1>2, KeyedPut DEF TaskOk
<1>4. \A l \in {"expr", "next", "set", "enabled"} : e[l] = t[l]
  BY <1>2, <1>3 DEF TaskKeys
<1>5. TaskOk(e)
  BY <1>3, <1>4 DEF TaskOk
<1>6. QED
  BY <1>1, <1>3, <1>5

\* Scheduled again: the next run is the first one of the schedule since.
Timed(t, expr, next, set) == Put(Put(Put(t, "expr", expr), "next", next), "set", set)

LEMMA Scheduled ==
    ASSUME NEW t, Keyed(t, TaskKeys), t["enabled"] \in BOOLEAN, NEW expr, Form!Valid(expr),
           NEW next, NEW set \in Nat, t["enabled"] => next = Form!NextRun(expr, set)
    PROVE  /\ TaskOk(Timed(t, expr, next, set))
           /\ \A l \in {"enabled", "url", "hash", "script", "alone"} : Timed(t, expr, next, set)[l] = t[l]
<1>1. PICK a : a = Put(t, "expr", expr)
  OBVIOUS
<1>2. PICK b : b = Put(a, "next", next)
  OBVIOUS
<1>3. PICK e : e = Put(b, "set", set)
  OBVIOUS
<1>4. "expr" \in TaskKeys /\ "next" \in TaskKeys /\ "set" \in TaskKeys
  BY DEF TaskKeys
<1>5. Keyed(a, TaskKeys) /\ a["expr"] = expr /\ \A l \in TaskKeys \ {"expr"} : a[l] = t[l]
  BY <1>1, <1>4, KeyedPut
<1>6. Keyed(b, TaskKeys) /\ b["next"] = next /\ \A l \in TaskKeys \ {"next"} : b[l] = a[l]
  BY <1>2, <1>4, <1>5, KeyedPut
<1>7. Keyed(e, TaskKeys) /\ e["set"] = set /\ \A l \in TaskKeys \ {"set"} : e[l] = b[l]
  BY <1>3, <1>4, <1>6, KeyedPut
<1>8. /\ e["expr"] = expr /\ e["next"] = next /\ e["set"] = set
      /\ \A l \in {"enabled", "url", "hash", "script", "alone"} : e[l] = t[l]
  BY <1>5, <1>6, <1>7 DEF TaskKeys
<1>9. TaskOk(e)
  BY <1>7, <1>8 DEF TaskOk
<1>10. e = Timed(t, expr, next, set)
  BY <1>1, <1>2, <1>3 DEF Timed
<1>11. QED
  BY <1>8, <1>9, <1>10

\* A new automation, with alone as it is.
Made(expr, url, script, alone) ==
    [expr |-> expr, next |-> Form!NextRun(expr, formNow), set |-> formNow, enabled |-> TRUE,
     url |-> url, hash |-> None, script |-> script, alone |-> alone]

LEMMA NewOk ==
    ASSUME NEW expr, Form!Valid(expr), NEW url, NEW script, NEW alone, formNow \in Nat
    PROVE  /\ TaskOk(Made(expr, url, script, alone))
           /\ Made(expr, url, script, alone)["url"] = url
           /\ Made(expr, url, script, alone)["script"] = script
           /\ Made(expr, url, script, alone)["expr"] = expr
<1>1. PICK t : t = Made(expr, url, script, alone)
  OBVIOUS
<1>2. Keyed(t, TaskKeys)
  BY <1>1 DEF Made, Keyed, TaskKeys
<1>3. /\ t["expr"] = expr /\ t["url"] = url /\ t["script"] = script /\ t["enabled"] = TRUE
      /\ t["next"] = Form!NextRun(expr, formNow) /\ t["set"] = formNow
  BY <1>1 DEF Made
<1>4. TaskOk(t)
  BY <1>2, <1>3 DEF TaskOk
<1>5. QED
  BY <1>1, <1>3, <1>4

\* The early returns of the save keep a script and a watched page apart.
LEMMA ChangedOk ==
    ASSUME NEW t, TaskOk(t), NEW d, NEW expr, Form!Accepted(d, expr), formNow \in Nat
    PROVE  TaskOk(Form!Changed(t, d, expr)) /\ Apart(Form!Changed(t, d, expr))
<1>1. PICK w : w = IF d.url = t.url THEN t ELSE Put(Put(t, "url", d.url), "hash", None)
  OBVIOUS
<1>2. TaskOk(w) /\ w["url"] = d.url
  <2>1. CASE d.url = t.url
    BY <1>1, <2>1
  <2>2. CASE d.url # t.url
    <3>1. PICK a : a = Put(t, "url", d.url)
      OBVIOUS
    <3>2. TaskOk(a) /\ a["url"] = d.url
      BY <3>1, AsideTask
    <3>3. w = Put(a, "hash", None)
      BY <1>1, <2>2, <3>1
    <3>4. TaskOk(w) /\ \A l \in TaskKeys \ {"hash"} : w[l] = a[l]
      BY <3>2, <3>3, AsideTask
    <3>5. QED
      BY <3>2, <3>4 DEF TaskKeys
  <2>3. QED
    BY <2>1, <2>2
<1>3. PICK c : c = IF d.script # t.script /\ d.script # None
                   THEN Put(Put(w, "url", None), "hash", None) ELSE w
  OBVIOUS
<1>4. TaskOk(c) /\ c["url"] \in {None, d.url}
  <2>1. CASE c = w
    BY <1>2, <2>1
  <2>2. CASE c = Put(Put(w, "url", None), "hash", None)
    <3>1. PICK a : a = Put(w, "url", None)
      OBVIOUS
    <3>2. TaskOk(a) /\ a["url"] = None
      BY <1>2, <3>1, AsideTask
    <3>3. c = Put(a, "hash", None)
      BY <2>2, <3>1
    <3>4. TaskOk(c) /\ \A l \in TaskKeys \ {"hash"} : c[l] = a[l]
      BY <3>2, <3>3, AsideTask
    <3>5. QED
      BY <3>2, <3>4 DEF TaskKeys
  <2>3. QED
    BY <1>3, <2>1, <2>2
<1>5. PICK next : next = Form!NextRun(expr, formNow)
  OBVIOUS
<1>6. PICK e : e = Timed(c, expr, next, formNow)
  OBVIOUS
<1>7. Form!Valid(expr) /\ ~ (d.script # None /\ d.url # None)
  BY DEF Form!Accepted
<1>8. Keyed(c, TaskKeys) /\ c["enabled"] \in BOOLEAN
  BY <1>4 DEF TaskOk
<1>9. TaskOk(e) /\ e["url"] = c["url"]
  BY <1>5, <1>6, <1>7, <1>8, Scheduled
<1>10. PICK f : f = Put(e, "script", d.script)
  OBVIOUS
<1>11. TaskOk(f) /\ f["script"] = d.script /\ f["url"] = e["url"]
  BY <1>9, <1>10, AsideTask DEF TaskKeys
<1>12. ASSUME NEW alone, alone = (d.script # None /\ d.alone)
       PROVE  /\ TaskOk(Put(f, "alone", alone)) /\ Apart(Put(f, "alone", alone))
              /\ Put(f, "alone", alone) = Form!Changed(t, d, expr)
  <2>1. PICK g : g = Put(f, "alone", alone)
    OBVIOUS
  <2>2. TaskOk(g) /\ g["script"] = d.script /\ g["url"] = c["url"]
    BY <1>9, <1>11, <2>1, AsideTask DEF TaskKeys
  <2>3. g = Form!Changed(t, d, expr)
    BY <1>1, <1>3, <1>5, <1>6, <1>10, <1>12, <2>1 DEF Form!Changed, Put, Timed
  <2>4. Apart(g)
    BY <1>4, <1>7, <2>2 DEF Apart
  <2>5. QED
    BY <2>1, <2>2, <2>3, <2>4
<1>13. QED
  BY <1>12

-----------------------------------------------------------------------------
(* The page, the agent, the runs and the restarts keep both as they are.   *)

FormInv ==
    /\ formNow \in Nat
    /\ form # None => DraftOk(form)
    /\ task # None => TaskOk(task) /\ (by = "form" => Apart(task))

\* A change of the drafts, which leaves the automation alone.
LEMMA DraftSteps ==
    ASSUME FormBounds, FormInv, NEW d, DraftOk(d), form' = d, UNCHANGED <<task, by, formNow>>
    PROVE  FormInv'
BY DEF FormInv, DraftOk, Typed, Keyed, ValueOk, TaskOk, Apart, Modes

\* A change of the automation, which closes the form or leaves it.
LEMMA TaskSteps ==
    ASSUME FormBounds, FormInv, NEW t, TaskOk(t), task' = t, form' = None \/ form' = form,
           formNow' \in Nat,
           (by' = "form") => Apart(t)
    PROVE  FormInv'
<1>1. task' # None => TaskOk(t) /\ (by' = "form" => Apart(t))
  OBVIOUS
<1>2. form' # None => DraftOk(form)
  BY DEF FormInv
<1>3. QED
  BY <1>1, <1>2 DEF FormInv

LEMMA DraftKept ==
    ASSUME FormInv, form # None
    PROVE  DraftOk(form) /\ Typed(form) /\ form["mode"] \in Modes
BY DEF FormInv, DraftOk, Typed, DraftKeys, ValueOk

LEMMA FieldSet ==
    ASSUME NEW d, Typed(d), NEW k \in DraftKeys, NEW v, ValueOk(k, v)
    PROVE  Typed(Put(d, k, v)) /\ DraftOk(Form!Painted(Put(d, k, v)))
<1>1. Typed(Put(d, k, v))
  BY DraftSet DEF Put
<1>2. QED
  BY <1>1, PaintedOk

LEMMA PresetStep ==
    ASSUME FormBounds, FormInv, NEW p, Form!PickPreset(p)
    PROVE  FormInv'
<1>1. form # None /\ form' = Form!ExprRow([form EXCEPT !.preset = p]) /\ UNCHANGED <<task, by, formNow>>
  BY DEF Form!PickPreset, Form!Drafting
<1>2. PICK e : e = [form EXCEPT !["preset"] = p]
  OBVIOUS
<1>3. "preset" \in DraftKeys /\ ValueOk("preset", p)
  BY DEF DraftKeys, ValueOk
<1>4. Typed(e)
  BY <1>1, <1>2, <1>3, DraftKept, DraftSet
<1>5. DraftOk(Form!ExprRow(e))
  BY <1>4, RowOk
<1>6. form' = Form!ExprRow(e)
  BY <1>1, <1>2
<1>7. QED
  BY <1>1, <1>5, <1>6, DraftSteps

LEMMA BuilderSteps ==
    ASSUME FormBounds, FormInv,
           \/ \E m \in Modes : Form!PickMode(m)
           \/ \E n \in Intervals, unit \in {"minutes", "hours"} : Form!SetInterval(n, unit)
           \/ \E time \in Times : Form!SetTime(time)
           \/ \E n \in {0, DowMax, DayMax} : Form!SetDay(n)
           \/ \E expr \in Raws \cup {Empty} : Form!SetRaw(expr)
    PROVE  FormInv'
<1>1. ASSUME NEW k \in DraftKeys, NEW v, ValueOk(k, v), NEW e, Typed(e), form' = Form!Painted(Put(e, k, v)),
             UNCHANGED <<task, by, formNow>>
      PROVE  FormInv'
  BY <1>1, FieldSet, DraftSteps
<1>2. {"mode", "n", "unit", "time", "dow", "day", "raw"} \subseteq DraftKeys
  BY DEF DraftKeys
<1>3. ASSUME NEW m \in Modes, Form!PickMode(m) PROVE FormInv'
  <2>1. form # None /\ form' = Form!Painted(Put(form, "mode", m)) /\ UNCHANGED <<task, by, formNow>>
    BY <1>3 DEF Form!PickMode, Form!Drafting, Form!InBuilder, Put
  <2>2. ValueOk("mode", m) /\ Typed(form)
    BY <2>1, DraftKept DEF ValueOk
  <2>3. QED
    BY <1>1, <1>2, <2>1, <2>2
<1>4. ASSUME NEW n \in Intervals, NEW unit \in {"minutes", "hours"}, Form!SetInterval(n, unit)
      PROVE  FormInv'
  <2>1. form # None /\ form' = Form!Painted(Put(Put(form, "n", n), "unit", unit)) /\ UNCHANGED <<task, by, formNow>>
    BY <1>4 DEF Form!SetInterval, Form!Drafting, Form!InBuilder, Put
  <2>2. ValueOk("n", n) /\ ValueOk("unit", unit) /\ Typed(form)
    BY <2>1, DraftKept DEF ValueOk, FormBounds
  <2>3. Typed(Put(form, "n", n))
    BY <1>2, <2>2, FieldSet
  <2>4. QED
    BY <1>1, <1>2, <2>1, <2>2, <2>3
<1>5. ASSUME NEW time \in Times, Form!SetTime(time) PROVE FormInv'
  <2>1. form # None /\ form' = Form!Painted(Put(form, "time", time)) /\ UNCHANGED <<task, by, formNow>>
    BY <1>5 DEF Form!SetTime, Form!Drafting, Form!InBuilder, Put
  <2>2. ValueOk("time", time) /\ Typed(form)
    BY <2>1, DraftKept DEF ValueOk
  <2>3. QED
    BY <1>1, <1>2, <2>1, <2>2
<1>6. ASSUME NEW n \in {0, DowMax, DayMax}, Form!SetDay(n) PROVE FormInv'
  <2>1. form # None /\ UNCHANGED <<task, by, formNow>> /\ Typed(form)
    BY <1>6, DraftKept DEF Form!SetDay, Form!Drafting, Form!InBuilder
  <2>2. CASE n \in 0 .. DowMax /\ form' = Form!Painted(Put(form, "dow", n))
    <3>1. ValueOk("dow", n)
      BY <2>2 DEF ValueOk
    <3>2. QED
      BY <1>1, <1>2, <2>1, <2>2, <3>1
  <2>3. CASE form' = Form!Painted(Put(form, "day", Form!Clamp(n, 1, SafeDay)))
    <3>1. n \in Int /\ 1 \in Int /\ SafeDay \in Int /\ 1 <= SafeDay
      BY BasicsOf
    <3>2. Form!Clamp(n, 1, SafeDay) \in 1 .. SafeDay
      BY <3>1, ClampIs
    <3>3. ValueOk("day", Form!Clamp(n, 1, SafeDay))
      BY <3>2 DEF ValueOk
    <3>4. QED
      BY <1>1, <1>2, <2>1, <2>3, <3>3
  <2>4. QED
    BY <1>6, <2>2, <2>3 DEF Form!SetDay, Put
<1>7. ASSUME NEW expr, Form!SetRaw(expr) PROVE FormInv'
  <2>1. form # None /\ form' = Form!Painted(Put(form, "raw", expr)) /\ UNCHANGED <<task, by, formNow>>
    BY <1>7 DEF Form!SetRaw, Form!Drafting, Form!InBuilder, Put
  <2>2. ValueOk("raw", expr) /\ Typed(form)
    BY <2>1, DraftKept DEF ValueOk
  <2>3. QED
    BY <1>1, <1>2, <2>1, <2>2
<1>8. QED
  BY <1>3, <1>4, <1>5, <1>6, <1>7

LEMMA AsideSteps ==
    ASSUME FormBounds, FormInv,
           \/ \E url : Form!SetUrl(url)
           \/ \E script : Form!SetScript(script)
           \/ \E alone \in BOOLEAN : Form!SetAlone(alone)
    PROVE  FormInv'
<1>1. ASSUME NEW k \in {"url", "script", "alone"}, NEW v, form # None, form' = Put(form, k, v),
             UNCHANGED <<task, by, formNow>>
      PROVE  FormInv'
  <2>1. DraftOk(Put(form, k, v))
    BY <1>1, DraftKept, AsideOk DEF Put
  <2>2. QED
    BY <1>1, <2>1, DraftSteps
<1>2. ASSUME NEW url, Form!SetUrl(url) PROVE FormInv'
  <2>1. form # None /\ form' = Put(form, "url", url) /\ UNCHANGED <<task, by, formNow>>
    BY <1>2 DEF Form!SetUrl, Form!Drafting, Put
  <2>2. QED
    BY <1>1, <2>1
<1>3. ASSUME NEW script, Form!SetScript(script) PROVE FormInv'
  <2>1. form # None /\ form' = Put(form, "script", script) /\ UNCHANGED <<task, by, formNow>>
    BY <1>3 DEF Form!SetScript, Form!Drafting, Put
  <2>2. QED
    BY <1>1, <2>1
<1>4. ASSUME NEW alone \in BOOLEAN, Form!SetAlone(alone) PROVE FormInv'
  <2>1. form # None /\ form' = Put(form, "alone", alone) /\ UNCHANGED <<task, by, formNow>>
    BY <1>4 DEF Form!SetAlone, Form!Drafting, Put
  <2>2. QED
    BY <1>1, <2>1
<1>5. QED
  BY <1>2, <1>3, <1>4

\* Scheduled again by the schedule there is.
Again(t, next, set) == Put(Put(t, "next", next), "set", set)

LEMMA AgainOk ==
    ASSUME NEW t, Keyed(t, TaskKeys), t["enabled"] \in BOOLEAN, Form!Valid(t["expr"]), NEW next,
           NEW set \in Nat \cup {None},
           (t["enabled"] /\ set # None) => next = Form!NextRun(t["expr"], set)
    PROVE  /\ TaskOk(Again(t, next, set))
           /\ \A l \in {"url", "script"} : Again(t, next, set)[l] = t[l]
<1>1. PICK b : b = Put(t, "next", next)
  OBVIOUS
<1>2. PICK e : e = Put(b, "set", set)
  OBVIOUS
<1>3. "next" \in TaskKeys /\ "set" \in TaskKeys
  BY DEF TaskKeys
<1>4. Keyed(b, TaskKeys) /\ b["next"] = next /\ \A l \in TaskKeys \ {"next"} : b[l] = t[l]
  BY <1>1, <1>3, KeyedPut
<1>5. Keyed(e, TaskKeys) /\ e["set"] = set /\ \A l \in TaskKeys \ {"set"} : e[l] = b[l]
  BY <1>2, <1>3, <1>4, KeyedPut
<1>6. /\ e["next"] = next /\ e["set"] = set
      /\ \A l \in {"expr", "enabled", "url", "script"} : e[l] = t[l]
  BY <1>4, <1>5 DEF TaskKeys
<1>7. TaskOk(e)
  BY <1>5, <1>6 DEF TaskOk
<1>8. e = Again(t, next, set)
  BY <1>1, <1>2 DEF Again
<1>9. QED
  BY <1>6, <1>7, <1>8

\* What the invariant says of the automation there is.
LEMMA TaskKept ==
    ASSUME FormInv, task # None
    PROVE  /\ formNow \in Nat /\ task["set"] \in Nat \cup {None}
           /\ TaskOk(task) /\ Keyed(task, TaskKeys) /\ task["enabled"] \in BOOLEAN /\ Form!Valid(task["expr"])
           /\ by = "form" => Apart(task)
BY DEF FormInv, TaskOk

LEMMA QuietSteps ==
    ASSUME FormBounds, FormInv,
           \/ Form!TimePasses \/ Form!Cancel \/ Form!Delete \/ Form!AgentRemoves \/ Form!RunStarts
           \/ Form!ScriptTimesOut \/ Form!ScriptExits \/ \E edit \in BOOLEAN : Form!OpenForm(edit)
    PROVE  FormInv'
<1>1. ASSUME NEW edit \in BOOLEAN, Form!OpenForm(edit) PROVE FormInv'
  <2>1. UNCHANGED <<task, by, formNow>>
    BY <1>1 DEF Form!OpenForm
  <2>2. CASE form' = Form!FormOf(task)
    BY <2>1, <2>2, FormOfOk, DraftSteps
  <2>3. CASE form' = Form!Blank
    BY <2>1, <2>3, BlankOk, DraftSteps
  <2>4. QED
    BY <1>1, <2>2, <2>3 DEF Form!OpenForm
<1>2. CASE UNCHANGED <<task, by>> /\ (form' = None \/ form' = form) /\ formNow' \in Nat
  <2>1. CASE task = None
    BY <1>2, <2>1 DEF FormInv
  <2>2. CASE task # None
    BY <1>2, <2>2, TaskKept, TaskSteps
  <2>3. QED
    BY <2>1, <2>2
<1>3. CASE task' = None /\ (form' = None \/ form' = form) /\ formNow' \in Nat
  BY <1>3 DEF FormInv
<1>4. CASE Form!TimePasses \/ Form!Cancel \/ Form!RunStarts \/ Form!ScriptTimesOut \/ Form!ScriptExits
  BY <1>2, <1>4 DEF Form!TimePasses, Form!Cancel, Form!RunStarts, Form!ScriptTimesOut, Form!ScriptExits, FormInv
<1>5. CASE Form!Delete \/ Form!AgentRemoves
  BY <1>3, <1>5 DEF Form!Delete, Form!AgentRemoves, FormInv
<1>6. QED
  BY <1>1, <1>4, <1>5

LEMMA SaveStep ==
    ASSUME FormBounds, FormInv, Form!Save
    PROVE  FormInv'
<1>1. PICK expr : expr = IF form.preset = Custom THEN form.custom ELSE form.preset
  OBVIOUS
<1>2. form # None /\ form' = None /\ Form!Accepted(form, expr) /\ formNow' = formNow /\ formNow \in Nat
  BY <1>1 DEF Form!Save, FormInv
<1>3. CASE form.gen # 0 /\ task # None /\ formGen = form.gen
  <2>1. task' = Form!Changed(task, form, expr)
    BY <1>1, <1>3 DEF Form!Save
  <2>2. TaskOk(task') /\ Apart(task')
    BY <1>2, <1>3, <2>1, TaskKept, ChangedOk
  <2>3. QED
    BY <1>2, <2>2 DEF FormInv
<1>4. CASE form.gen # 0 /\ ~ (task # None /\ formGen = form.gen)
  <2>1. task' = task /\ by' = by
    BY <1>1, <1>4 DEF Form!Save
  <2>2. CASE task = None
    BY <1>2, <2>1, <2>2 DEF FormInv
  <2>3. CASE task # None
    BY <1>2, <2>1, <2>3, TaskKept, TaskSteps
  <2>4. QED
    BY <2>2, <2>3
<1>5. CASE form.gen = 0
  <2>1. task' = Form!NewTask(expr, form.url, form.script, form.alone)
    BY <1>1, <1>5 DEF Form!Save
  <2>2. Form!Valid(expr) /\ ~ (form.script # None /\ form.url # None)
    BY <1>2 DEF Form!Accepted
  <2>3. TaskOk(task') /\ task'["url"] = form.url /\ task'["script"] = form.script
    <3>1. ASSUME NEW alone, alone = (form.script # None /\ form.alone)
          PROVE  TaskOk(task') /\ task'["url"] = form.url /\ task'["script"] = form.script
      <4>1. task' = Made(expr, form.url, form.script, alone)
        BY <2>1, <3>1 DEF Form!NewTask, Made
      <4>2. QED
        BY <1>2, <2>2, <4>1, NewOk
    <3>2. QED
      BY <3>1
  <2>4. Apart(task')
    BY <2>2, <2>3 DEF Apart
  <2>5. QED
    BY <1>2, <2>3, <2>4 DEF FormInv
<1>6. QED
  BY <1>3, <1>4, <1>5

LEMMA ToggleStep ==
    ASSUME FormBounds, FormInv, Form!Toggle
    PROVE  FormInv'
<1>1. task # None /\ form' = None /\ by' = by /\ formNow' = formNow /\ formNow \in Nat
  BY DEF Form!Toggle, FormInv
<1>2. ASSUME NEW v, v = ~ task.enabled PROVE FormInv'
  <2>1. PICK a : a = Put(task, "enabled", v)
    OBVIOUS
  <2>2. PICK next : next = IF task.enabled THEN task.next ELSE Form!NextRun(task.expr, formNow)
    OBVIOUS
  <2>3. PICK set : set = IF task.enabled THEN task.set ELSE formNow
    OBVIOUS
  <2>4. "enabled" \in TaskKeys /\ {"expr", "url", "script"} \subseteq TaskKeys \ {"enabled"}
    BY DEF TaskKeys
  <2>5. Keyed(a, TaskKeys) /\ a["enabled"] = v /\ \A l \in {"expr", "url", "script"} : a[l] = task[l]
    BY <1>1, <2>1, <2>4, KeyedPut, TaskKept
  <2>6. v \in BOOLEAN
    BY <1>2
  <2>7. Form!Valid(a["expr"]) /\ a["enabled"] \in BOOLEAN
    BY <1>1, <2>5, <2>6, TaskKept
  <2>8. (a["enabled"] /\ set # None) => next = Form!NextRun(a["expr"], set)
    BY <1>2, <2>2, <2>3, <2>5
  <2>9. TaskOk(Again(a, next, set)) /\ \A l \in {"url", "script"} : Again(a, next, set)[l] = task[l]
    <3>1. set \in Nat \cup {None}
      BY <1>1, <2>3, TaskKept
    <3>2. QED
      BY <2>5, <2>7, <2>8, <3>1, AgainOk
  <2>10. task' = Again(a, next, set)
    BY <1>2, <2>1, <2>2, <2>3 DEF Form!Toggle, Again, Put
  <2>11. by' = "form" => Apart(task')
    BY <1>1, <2>9, <2>10, TaskKept DEF Apart
  <2>12. QED
    BY <1>1, <2>9, <2>10, <2>11, TaskSteps
<1>3. QED
  BY <1>2

LEMMA TemplateSteps ==
    ASSUME FormBounds, FormInv,
           \/ \E time \in Times \ {None}, dow \in Form!Recurrences : Form!UseBlueprint(time, dow)
           \/ \E n \in Intervals : Form!UseInterval(n)
    PROVE  FormInv'
<1>1. ASSUME NEW expr, Form!Valid(expr), Form!FromTemplate, task' = Form!NewTask(expr, None, None, FALSE)
      PROVE  FormInv'
  <2>0. formNow \in Nat
    BY DEF FormInv
  <2>1. ASSUME NEW alone, alone = (None # None /\ FALSE) PROVE TaskOk(task')
    <3>1. task' = Made(expr, None, None, alone)
      BY <1>1, <2>1 DEF Form!NewTask, Made
    <3>2. TaskOk(Made(expr, None, None, alone))
      <4>1. PICK a : a = alone
        OBVIOUS
      <4>2. TaskOk(Made(expr, None, None, a))
        BY <1>1, <2>0, NewOk
      <4>3. QED
        BY <4>1, <4>2
    <3>3. QED
      BY <3>1, <3>2
  <2>2. TaskOk(task')
    BY <2>1
  <2>3. form' = None /\ by' = "blueprint" /\ formNow' = formNow /\ formNow \in Nat
    BY <1>1 DEF Form!FromTemplate, FormInv
  <2>4. QED
    BY <2>2, <2>3 DEF FormInv
<1>2. ASSUME NEW time, NEW dow, Form!UseBlueprint(time, dow) PROVE FormInv'
  BY <1>1, <1>2 DEF Form!UseBlueprint
<1>3. ASSUME NEW n, Form!UseInterval(n) PROVE FormInv'
  BY <1>1, <1>3 DEF Form!UseInterval
<1>4. QED
  BY <1>2, <1>3

LEMMA AgentSteps ==
    ASSUME FormBounds, FormInv,
           \/ \E expr \in {e \in Raws : Form!Valid(e)} : \E script : Form!AgentUpdates(expr, script)
           \/ \E url : Form!AgentWatches(url)
    PROVE  FormInv'
<1>1. ASSUME NEW t, TaskOk(t), task' = t, form' = form, formNow' \in Nat, by' = "agent" PROVE FormInv'
  BY <1>1, TaskSteps
<1>2. ASSUME NEW expr, Form!Valid(expr), NEW script, Form!AgentUpdates(expr, script) PROVE FormInv'
  <2>1. task # None /\ form' = form /\ by' = "agent" /\ formNow' = formNow /\ formNow \in Nat
    BY <1>2 DEF Form!AgentUpdates, FormInv
  <2>2. CASE script = None
    <3>1. PICK next : next = Form!NextRun(expr, formNow)
      OBVIOUS
    <3>2. task' = Timed(task, expr, next, formNow)
      BY <1>2, <2>2, <3>1 DEF Form!AgentUpdates, Timed, Put
    <3>3. TaskOk(Timed(task, expr, next, formNow))
      BY <1>2, <2>1, <3>1, Scheduled, TaskKept
    <3>4. QED
      BY <1>1, <2>1, <3>2, <3>3
  <2>3. CASE script # None
    <3>1. PICK a : a = Put(task, "script", script)
      OBVIOUS
    <3>2. PICK b : b = Put(a, "url", None)
      OBVIOUS
    <3>3. PICK c : c = Put(b, "hash", None)
      OBVIOUS
    <3>4. TaskOk(a)
      BY <2>1, <3>1, TaskKept, AsideTask
    <3>5. TaskOk(b)
      BY <3>2, <3>4, AsideTask
    <3>6. TaskOk(c)
      BY <3>3, <3>5, AsideTask
    <3>7. task' = c
      BY <1>2, <2>3, <3>1, <3>2, <3>3 DEF Form!AgentUpdates, Put
    <3>8. QED
      BY <1>1, <2>1, <3>6, <3>7
  <2>4. QED
    BY <2>2, <2>3
<1>3. ASSUME NEW url, Form!AgentWatches(url) PROVE FormInv'
  <2>1. task # None /\ form' = form /\ by' = "agent" /\ formNow' = formNow /\ formNow \in Nat
    BY <1>3 DEF Form!AgentWatches, FormInv
  <2>2. PICK a : a = Put(task, "url", url)
    OBVIOUS
  <2>3. PICK c : c = Put(a, "hash", None)
    OBVIOUS
  <2>4. TaskOk(a)
    BY <2>1, <2>2, TaskKept, AsideTask
  <2>5. TaskOk(c)
    BY <2>3, <2>4, AsideTask
  <2>6. task' = c
    BY <1>3, <2>2, <2>3 DEF Form!AgentWatches, Put
  <2>7. QED
    BY <1>1, <2>1, <2>5, <2>6
<1>4. QED
  BY <1>2, <1>3

LEMMA RunEndStep ==
    ASSUME FormBounds, FormInv, NEW fetched \in BOOLEAN, Form!RunEnds(fetched)
    PROVE  FormInv'
<1>1. form' = form /\ by' = by /\ formNow' = formNow /\ formNow \in Nat
  BY DEF Form!RunEnds, FormInv
<1>2. CASE task' = task
  <2>1. CASE task = None
    BY <1>1, <1>2, <2>1 DEF FormInv
  <2>2. CASE task # None
    BY <1>1, <1>2, <2>2, TaskKept, TaskSteps
  <2>3. QED
    BY <2>1, <2>2
<1>3. CASE task # None /\ task' # task
  <2>1. PICK hash : hash = IF fetched /\ formRun.url # None THEN formRun.url ELSE task.hash
    OBVIOUS
  <2>2. PICK next : next = IF task.enabled THEN Form!NextRun(task.expr, formNow) ELSE 0
    OBVIOUS
  <2>3. PICK a : a = Put(task, "hash", hash)
    OBVIOUS
  <2>4. TaskOk(a) /\ \A l \in TaskKeys \ {"hash"} : a[l] = task[l]
    BY <1>3, <2>3, TaskKept, AsideTask
  <2>5. \A l \in {"expr", "enabled", "url", "script"} : a[l] = task[l]
    BY <2>4 DEF TaskKeys
  <2>6. Keyed(a, TaskKeys) /\ a["enabled"] \in BOOLEAN /\ Form!Valid(a["expr"])
    BY <2>4 DEF TaskOk
  <2>7. (a["enabled"] /\ formNow # None) => next = Form!NextRun(a["expr"], formNow)
    BY <2>2, <2>5
  <2>8. /\ TaskOk(Again(a, next, formNow))
        /\ \A l \in {"url", "script"} : Again(a, next, formNow)[l] = a[l]
    BY <1>1, <2>6, <2>7, AgainOk
  <2>9. task' = Again(a, next, formNow)
    BY <1>3, <2>1, <2>2, <2>3 DEF Form!RunEnds, Again, Put
  <2>10. by' = "form" => Apart(Again(a, next, formNow))
    BY <1>1, <1>3, <2>5, <2>8, TaskKept DEF Apart
  <2>11. QED
    BY <1>1, <2>8, <2>9, <2>10, TaskSteps
<1>4. QED
  BY <1>2, <1>3 DEF Form!RunEnds

LEMMA RestartStep ==
    ASSUME FormBounds, FormInv, Form!Restart
    PROVE  FormInv'
<1>1. form' = None /\ by' = by /\ formNow' = formNow /\ formNow \in Nat
  BY DEF Form!Restart, FormInv
<1>2. CASE task' = task
  <2>1. CASE task = None
    BY <1>1, <1>2, <2>1 DEF FormInv
  <2>2. CASE task # None
    BY <1>1, <1>2, <2>2, TaskKept, TaskSteps
  <2>3. QED
    BY <2>1, <2>2
<1>3. CASE task # None /\ task' # task
  <2>1. PICK next : next = Form!NextRun(task.expr, formNow)
    OBVIOUS
  <2>2. /\ TaskOk(Again(task, next, formNow))
        /\ \A l \in {"url", "script"} : Again(task, next, formNow)[l] = task[l]
    BY <1>3, <2>1, TaskKept, AgainOk
  <2>3. task' = Again(task, next, formNow)
    BY <1>3, <2>1 DEF Form!Restart, Again, Put
  <2>4. by' = "form" => Apart(Again(task, next, formNow))
    BY <1>1, <1>3, <2>2, TaskKept DEF Apart
  <2>5. QED
    BY <1>1, <2>2, <2>3, <2>4, TaskSteps
<1>4. QED
  BY <1>2, <1>3 DEF Form!Restart

\* A task of the first version gets a schedule that is one.
LEMMA MigratedIs ==
    ASSUME FormBounds, NEW n \in OldIntervals
    PROVE  Form!Valid(Form!Migrated(n))
<1>1. PICK p \in Nat : p = Form!PerHour /\ p >= 2
  BY BasicsOf DEF Form!PerHour
<1>2. n \in Nat /\ n > 0 /\ HourMax \in Nat /\ HourMax >= 1 /\ Nine \in Nat /\ Nine <= HourMax
  BY BasicsOf DEF FormBounds
<1>3. PICK hours : hours = (2 * n + Form!PerHour) \div (2 * Form!PerHour)
  OBVIOUS
<1>4. hours \in Int
  BY <1>1, <1>2, <1>3, 2 * p \in Nat, 2 * p > 0, 2 * n + p \in Int, RestIs
<1>5. n >= p => hours >= 1
  BY <1>1, <1>2, <1>3
<1>6. /\ Form!TokenOk(Form!Star, "hour") /\ Form!TokenOk(Form!Star, "dom")
      /\ Form!TokenOk(Form!Star, "month") /\ Form!TokenOk(Form!Star, "dow")
  BY StarIs DEF Form!Fields
<1>12. Form!TokenOk(Form!One(0), "min") /\ Form!TokenOk(Form!One(Nine), "hour")
  <2>1. /\ Form!Spec("min") = <<0, MinuteMax>> /\ Form!Spec("hour") = <<0, HourMax>>
        /\ MinuteMax \in Nat /\ HourMax \in Nat
    BY BasicsOf
  <2>2. "min" \in Form!Fields /\ "hour" \in Form!Fields
    BY DEF Form!Fields
  <2>3. Form!TokenOk(Form!One(0), "min")
    BY <2>1, <2>2, ValuesOf
  <2>4. Form!TokenOk(Form!One(Nine), "hour")
    BY <1>2, <2>1, <2>2, ValuesOf
  <2>5. QED
    BY <2>3, <2>4
<1>7. Form!Valid(Form!BlueprintInterval(n))
  <2>1. Form!TokenOk(Form!Every(n), "min")
    BY <1>2, EveryOf DEF Form!Fields
  <2>2. QED
    BY <1>6, <2>1, ValidOne DEF Form!BlueprintInterval
<1>8. ASSUME NEW k \in Nat, k > 0
      PROVE  Form!Valid(Form!Expr(Form!One(0), Form!Every(k), Form!Star, Form!Star, Form!Star))
  <2>1. Form!TokenOk(Form!Every(k), "hour") /\ Form!TokenOk(Form!One(0), "min")
    BY <1>8, <1>12, EveryOf DEF Form!Fields
  <2>2. QED
    BY <1>6, <2>1, ValidOne
<1>9. Form!Valid(Form!Daily)
  <2>1. Form!TokenOk(Form!One(0), "min") /\ Form!TokenOk(Form!One(Nine), "hour")
    BY <1>12
  <2>2. QED
    BY <1>6, <2>1, ValidOne DEF Form!Daily
<1>10. Form!Clamp(hours, 1, HourMax) \in 1 .. HourMax
  <2>1. 1 \in Int /\ HourMax \in Int /\ 1 <= HourMax
    BY <1>2
  <2>2. QED
    BY <1>4, <2>1, ClampIs
<1>11. QED
  BY <1>1, <1>2, <1>3, <1>4, <1>5, <1>7, <1>8, <1>9, <1>10 DEF Form!Migrated

LEMMA OldStep ==
    ASSUME FormBounds, FormInv, NEW n \in OldIntervals, NEW last, Form!LoadOld(n, last)
    PROVE  FormInv'
<1>1. form = None /\ form' = form /\ by' = "old" /\ formNow' = formNow /\ formNow \in Nat
  BY DEF Form!LoadOld, FormInv
<1>2. PICK expr : expr = Form!Migrated(n)
  OBVIOUS
<1>3. Form!Valid(expr)
  BY <1>2, MigratedIs
<1>4. ASSUME NEW alone, alone = (None # None /\ FALSE) PROVE TaskOk(task')
  <2>1. PICK new : new = Made(expr, None, None, alone)
    OBVIOUS
  <2>2. new = Form!NewTask(Form!Migrated(n), None, None, FALSE)
    BY <1>2, <1>4, <2>1 DEF Form!NewTask, Made
  <2>3. TaskOk(new)
    <3>1. PICK a : a = alone
      OBVIOUS
    <3>2. TaskOk(Made(expr, None, None, a))
      BY <1>1, <1>3, NewOk
    <3>3. QED
      BY <2>1, <3>1, <3>2
  <2>4. CASE last = 0
    <3>1. task' = new
      BY <2>2, <2>4 DEF Form!LoadOld
    <3>2. QED
      BY <2>3, <3>1
  <2>5. CASE last # 0
    <3>1. PICK next : next = last + n
      OBVIOUS
    <3>2. task' = Again(new, next, None)
      BY <2>2, <2>5, <3>1 DEF Form!LoadOld, Again, Put
    <3>3. Keyed(new, TaskKeys) /\ new["enabled"] \in BOOLEAN /\ Form!Valid(new["expr"])
      BY <2>3 DEF TaskOk
    <3>4. TaskOk(Again(new, next, None))
      BY <3>3, AgainOk
    <3>5. QED
      BY <3>2, <3>4
  <2>6. QED
    BY <2>4, <2>5
<1>5. TaskOk(task')
  BY <1>4
<1>6. QED
  BY <1>1, <1>5 DEF FormInv

LEMMA FormStarts == ASSUME Form!FormInit PROVE FormInv
BY DEF Form!FormInit, FormInv

LEMMA FormSteps ==
    ASSUME FormBounds, FormInv, [Form!FormNext]_(Form!formVars)
    PROVE  FormInv'
<1>1. CASE UNCHANGED Form!formVars
  <2>1. form' = form /\ task' = task /\ by' = by /\ formNow' = formNow
    BY <1>1 DEF Form!formVars
  <2>2. QED
    BY <2>1 DEF FormInv
<1>2. CASE Form!Save
  BY <1>2, SaveStep
<1>3. CASE Form!Toggle
  BY <1>3, ToggleStep
<1>4. CASE Form!Restart
  BY <1>4, RestartStep
<1>5. CASE \/ Form!TimePasses \/ Form!Cancel \/ Form!Delete \/ Form!AgentRemoves \/ Form!RunStarts
           \/ Form!ScriptTimesOut \/ Form!ScriptExits \/ \E edit \in BOOLEAN : Form!OpenForm(edit)
  BY <1>5, QuietSteps
<1>6. CASE \E p \in Form!Presets \cup {Custom} : Form!PickPreset(p)
  BY <1>6, PresetStep
<1>7. CASE \/ \E m \in Modes : Form!PickMode(m)
           \/ \E n \in Intervals, unit \in {"minutes", "hours"} : Form!SetInterval(n, unit)
           \/ \E time \in Times : Form!SetTime(time)
           \/ \E n \in {0, DowMax, DayMax} : Form!SetDay(n)
           \/ \E expr \in Raws \cup {Empty} : Form!SetRaw(expr)
  BY <1>7, BuilderSteps
<1>8. CASE \/ \E url \in Urls \cup {None} : Form!SetUrl(url)
           \/ \E script \in {Script, None} : Form!SetScript(script)
           \/ \E alone \in BOOLEAN : Form!SetAlone(alone)
  BY <1>8, AsideSteps
<1>9. CASE \/ \E time \in Times \ {None}, dow \in Form!Recurrences : Form!UseBlueprint(time, dow)
           \/ \E n \in Intervals : Form!UseInterval(n)
  BY <1>9, TemplateSteps
<1>10. CASE \/ \E expr \in {e \in Raws : Form!Valid(e)}, script \in {Script, None} : Form!AgentUpdates(expr, script)
            \/ \E url \in Urls : Form!AgentWatches(url)
  BY <1>10, AgentSteps
<1>11. CASE \E fetched \in BOOLEAN : Form!RunEnds(fetched)
  BY <1>11, RunEndStep
<1>12. CASE \E n \in OldIntervals, last \in 0 .. formNow : Form!LoadOld(n, last)
  BY <1>12, OldStep
<1>13. QED
  BY <1>1, <1>2, <1>3, <1>4, <1>5, <1>6, <1>7, <1>8, <1>9, <1>10, <1>11, <1>12 DEF Form!FormNext, Modes

LEMMA FormAlways ==
    ASSUME FormBounds
    PROVE  Form!FormInit /\ [][Form!FormNext]_(Form!formVars) => []FormInv
<1>1. Form!FormInit => FormInv
  BY FormStarts
<1>2. FormInv /\ [Form!FormNext]_(Form!formVars) => FormInv'
  BY FormSteps
<1>3. QED
  BY <1>1, <1>2, PTL

\* The words beside the builder are kept: whatever is picked in it, the
\* expression it makes is valid and matches exactly the minutes they name.
THEOREM BuilderFires ==
    ASSUME FormBounds
    PROVE  Form!FormInit /\ [][Form!FormNext]_(Form!formVars) => []Form!PickedFires
<1>1. FormInv => Form!PickedFires
  <2> SUFFICES ASSUME FormInv, form # None, form.preset = Custom, form.mode # "raw"
               PROVE  Form!PickedFires
    BY DEF Form!PickedFires, Form!InBuilder
  <2>1. DraftOk(form)
    BY DEF FormInv
  <2>2. PICK x : x = form.custom
    OBVIOUS
  <2>3. PICK desc : desc = Form!Describe(x)
    OBVIOUS
  <2>4. /\ Form!Valid(x) /\ desc # None
        /\ \A t \in Int : Form!Matches(x, t) <=> Form!Means(desc, t)
        /\ form.mode = "interval" => desc.n = Form!Clamp(form.n, 1, MinuteMax)
        /\ form.mode # "interval" => desc.at = Form!At(form.time)
        /\ form.mode = "weekly" => desc.on = form.dow
    BY <2>1, <2>2, <2>3, DraftFires
  <2>5. \A t \in formNow .. formNow + Form!Year : Form!Matches(x, t) <=> Form!Means(desc, t)
    BY <2>4
  <2>6. QED
    BY <2>2, <2>3, <2>4, <2>5 DEF Form!PickedFires
<1>2. QED
  BY <1>1, FormAlways, PTL

\* The next run of a schedule is the first minute after now that it matches;
\* there is none only if it matches no minute of a year.
FirstAfter(expr, set, next) ==
    /\ next # 0 => /\ next \in set + 1 .. set + Form!Year /\ Form!Matches(expr, next)
                   /\ \A t \in set + 1 .. next - 1 : ~ Form!Matches(expr, t)
    /\ next = 0 => \A t \in set + 1 .. set + Form!Year : ~ Form!Matches(expr, t)

LEMMA NextRunIs ==
    ASSUME FormBounds, NEW expr, NEW set \in Nat
    PROVE  FirstAfter(expr, set, Form!NextRun(expr, set))
<1> DEFINE C == set + 1 .. set + Form!Year
           S == {t \in C : Form!Matches(expr, t)}
<1>0. PICK last \in Int : last = set + Form!Year
  <2>1. MinuteMax \in Nat /\ HourMax \in Nat
    BY BasicsOf
  <2>2. Len(Days) \in Nat
    BY DEF FormBounds, CalendarBounds
  <2>3. Form!PerDay \in Nat
    BY <2>1 DEF Form!PerDay, Form!PerHour
  <2>4. Form!Year \in Nat
    BY <2>2, <2>3 DEF Form!Year
  <2>5. QED
    BY <2>4
<1>1. CASE S = {}
  <2>1. \A t \in C : ~ Form!Matches(expr, t)
    BY <1>1
  <2>2. Form!NextRun(expr, set) = 0
    BY <2>1 DEF Form!NextRun
  <2>3. QED
    BY <2>1, <2>2 DEF FirstAfter
<1>2. CASE S # {}
  <2>1. S \in SUBSET Nat
    OBVIOUS
  <2>2. PICK x \in S : \A y \in S : ~ (<<y, x>> \in OpToRel(<, Nat))
    BY <1>2, <2>1, NatLessThanWellFounded, WFMin
  <2>3. \A y \in S : ~ (y < x)
    BY <2>1, <2>2 DEF OpToRel
  <2>4. \A u \in set + 1 .. x - 1 : ~ Form!Matches(expr, u)
    <3>1. ASSUME NEW u \in set + 1 .. x - 1, Form!Matches(expr, u) PROVE FALSE
      <4>1. u \in Int /\ x \in Int /\ u < x /\ u >= set + 1 /\ x <= last
        BY <1>0
      <4>2. u \in C
        BY <1>0, <4>1
      <4>4. u \in S
        BY <3>1, <4>2
      <4>3. QED
        BY <2>3, <4>1, <4>4
    <3>2. QED
      BY <3>1
  <2>5. x \in C /\ Form!Matches(expr, x)
    OBVIOUS
  <2>6. PICK y : y = Form!NextRun(expr, set)
    OBVIOUS
  <2>7. y = CHOOSE t \in C : Form!Matches(expr, t) /\ \A u \in set + 1 .. t - 1 : ~ Form!Matches(expr, u)
    BY <2>5, <2>6 DEF Form!NextRun
  <2>8. y \in C /\ Form!Matches(expr, y) /\ \A u \in set + 1 .. y - 1 : ~ Form!Matches(expr, u)
    BY <2>4, <2>5, <2>7
  <2>9. y # 0
    BY <2>8
  <2>10. QED
    BY <2>6, <2>8, <2>9 DEF FirstAfter
<1>3. QED
  BY <1>1, <1>2

\* No matching minute is skipped: an automation that is on has a valid schedule
\* and waits for the first minute that it matches since it was last scheduled,
\* and for none only if it matches no minute of a year.
NothingSkipped ==
    (task # None /\ task.enabled /\ task.set # None) => FirstAfter(task.expr, task.set, task.next)

THEOREM NoMinuteSkipped ==
    ASSUME FormBounds
    PROVE  Form!FormInit /\ [][Form!FormNext]_(Form!formVars) => [](Form!NextIsFirst /\ NothingSkipped)
<1>1. FormInv => Form!NextIsFirst
  BY DEF FormInv, TaskOk, Form!NextIsFirst
<1>2. FormInv => NothingSkipped
  <2> SUFFICES ASSUME FormInv, task # None, task.enabled, task.set # None
               PROVE  FirstAfter(task.expr, task.set, task.next)
    BY DEF NothingSkipped
  <2>1. task.set \in Nat /\ task.next = Form!NextRun(task.expr, task.set)
    BY TaskKept DEF TaskOk
  <2>2. QED
    BY <2>1, NextRunIs
<1>3. QED
  BY <1>1, <1>2, FormAlways, PTL

\* What the form wrote last has no script beside a watched page, whatever the
\* agent did to the task under the open form.
THEOREM ScriptOrPage ==
    ASSUME FormBounds
    PROVE  Form!FormInit /\ [][Form!FormNext]_(Form!formVars) => []Form!SaveExclusive
<1>1. FormInv => Form!SaveExclusive
  BY DEF FormInv, Apart, Form!SaveExclusive
<1>2. QED
  BY <1>1, FormAlways, PTL

=============================================================================
