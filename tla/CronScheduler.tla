--------------------------- MODULE CronScheduler ---------------------------
(***************************************************************************)
(* The automations of the plugin (main.ts, agent/cron.ts): the minute      *)
(* timer, manual runs, the catch-up of missed runs, the stages of one run, *)
(* and the edits, imports and switches of the workspace that happen        *)
(* between any two of its awaits.                                          *)
(*                                                                         *)
(* A caller is an asynchronous chain that runs tasks one after the other:  *)
(* a tick, the catch-up, or a single manual run.  Ticks overlap, since     *)
(* setInterval does not wait for the previous one.  A task object belongs  *)
(* to one settings object; an import or a reset installs another settings  *)
(* object (a later generation) and a run under way keeps the old task.     *)
(***************************************************************************)
EXTENDS Naturals, FiniteSets

CONSTANTS
    Ids,         \* task ids
    Tickers,     \* callers that are minute ticks
    Others,      \* callers that are manual runs or the catch-up
    Scopes,      \* fingerprints of the workspace policy
    FirstScopes, \* those of them Obsidian may start under
    Sees,        \* the tasks whose target note a policy shows
    None,        \* no output
    Period,      \* minutes to the next slot of a schedule
    UsedKinds,   \* kinds of the tasks loaded, created and edited
    MaxTime,     \* bound: minutes
    MaxGen,      \* bound: settings objects installed after the first
    MaxOps,      \* bound: edits, replacements and switches of the policy
    MaxRuns      \* run budget of a task, 0 for none

Callers == Tickers \cup Others
Kinds   == {"agent", "script", "noAgent", "monitor", "scriptMonitor"}

ASSUME CronAssumption ==
    /\ Ids # {} /\ Scopes # {}
    /\ Tickers \cap Others = {}
    /\ Sees \in [Scopes -> SUBSET Ids] /\ FirstScopes \subseteq Scopes
    /\ None \notin Scopes
    /\ {Period, MaxTime, MaxGen, MaxOps, MaxRuns} \subseteq Nat
    /\ Period > 0
    /\ UsedKinds \subseteq Kinds

VARIABLES
    now,       \* minutes
    gen,       \* generation of this.settings
    tasks,     \* tasks[g][i]: the object of task i in settings object g
    running,   \* runningTasks, the overlap guard
    stuck,     \* tasks left in it by a save that threw
    caller,    \* the chain of each caller
    missed,    \* tasks of the start-up notice, while it is shown
    scope,     \* the current workspace policy
    ops        \* edits, replacements and switches so far

vars == <<now, gen, tasks, running, stuck, caller, missed, scope, ops>>
worldVars == <<scope, ops>>

\* Counts are compared with the budget only; one more than it stands for more.
Counts == 0 .. MaxRuns + 1

Task == [present : BOOLEAN, enabled : BOOLEAN, kind : Kinds, next : Nat,
         count : Counts, output : Scopes \cup {None}]

Stages == {"idle", "loop", "script", "scriptLog", "monitor", "noChange",
           "model", "deliver", "log", "save"}

Active == Stages \ {"idle", "loop"}

\* lastOutput and lastWorkspaceScope are set together: output is the scope of
\* the last output.  chain is what scopedTask lets into the prompt.
Caller == [stage : Stages, list : Nat, todo : SUBSET Ids, at : Nat, id : Ids, gen : Nat,
           scope : Scopes, chain : BOOLEAN]

Idle == [stage |-> "idle", list |-> 0, todo |-> {}, at |-> 0, id |-> CHOOSE i \in Ids : TRUE,
         gen |-> 0, scope |-> CHOOSE s \in Scopes : TRUE, chain |-> FALSE]

NewTask(kind, time) ==
    [present |-> TRUE, enabled |-> TRUE, kind |-> kind, next |-> time + Period,
     count |-> 0, output |-> None]

NoTask(kind) == [NewTask(kind, 0) EXCEPT !.present = FALSE, !.enabled = FALSE, !.next = 0]

Live(i) == tasks[gen][i]

\* A slot that was missed while Obsidian was closed lies at time 1; a task not
\* present yet may be created later.
Init ==
    /\ now = 2 /\ gen = 0
    /\ tasks \in [{0} -> [Ids -> UNION {{[NewTask(k, 2) EXCEPT !.next = 1], NewTask(k, 2), NoTask(k)}
                                         : k \in UsedKinds}]]
    /\ running = {} /\ stuck = {}
    /\ caller = [c \in Callers |-> Idle]
    /\ missed = {i \in Ids : tasks[0][i].next = 1}   \* announceMissedCronRuns
    /\ scope \in FirstScopes /\ ops = 0

-----------------------------------------------------------------------------
(* Callers.                                                                *)

\* tickCron: the task list, the time, the settings and the policy of this
\* moment serve the whole pass.
Tick(c) ==
    /\ caller[c].stage = "idle"
    /\ caller' = [caller EXCEPT ![c] =
         [@ EXCEPT !.stage = "loop", !.list = gen, !.at = now, !.scope = scope,
                   !.todo = {i \in Ids : Live(i).present}]]
    /\ UNCHANGED <<now, gen, tasks, running, stuck, missed, worldVars>>

\* "Run all now" of the start-up notice.
CatchUp(c) ==
    /\ caller[c].stage = "idle" /\ missed # {}
    /\ caller' = [caller EXCEPT ![c] = [@ EXCEPT !.stage = "loop", !.todo = missed]]
    /\ missed' = {}
    /\ UNCHANGED <<now, gen, tasks, running, stuck, worldVars>>

\* "Skip" of the notice moves the captured tasks of the first settings object on.
SkipMissed ==
    /\ missed # {}
    /\ tasks' = [tasks EXCEPT ![0] = [i \in Ids |->
         IF i \in missed THEN [tasks[0][i] EXCEPT !.next = now + Period] ELSE tasks[0][i]]]
    /\ missed' = {}
    /\ UNCHANGED <<now, gen, running, stuck, caller, worldVars>>

\* The first stage of a run: a script, a watched page, or the model at once.
FirstStage(kind) ==
    CASE kind \in {"script", "noAgent", "scriptMonitor"} -> "script"
      [] kind = "monitor"               -> "monitor"
      [] OTHER                          -> "model"

StartUnguarded(c, i, todo, runScope) ==
    /\ Live(i).present /\ i \in Sees[runScope]
    /\ running' = running \cup {i}
    /\ caller' = [caller EXCEPT ![c] =
         [@ EXCEPT !.stage = FirstStage(Live(i).kind), !.todo = todo, !.id = i, !.gen = gen,
                   !.scope = runScope, !.chain = Live(i).output = runScope]]
    /\ UNCHANGED <<now, gen, tasks, stuck, missed, worldVars>>

StartChained(c, i, todo, runScope) ==
    /\ Live(i).present /\ i \in Sees[runScope] /\ i \notin running
    /\ running' = running \cup {i}
    /\ caller' = [caller EXCEPT ![c] =
         [@ EXCEPT !.stage = FirstStage(Live(i).kind), !.todo = todo, !.id = i, !.gen = gen,
                   !.scope = runScope, !.chain = Live(i).output # None]]
    /\ UNCHANGED <<now, gen, tasks, stuck, missed, worldVars>>

\* runCronTask up to its first await.  The task is looked up by id in the
\* settings of now; the policy is the inherited one of a tick.
Start(c, i, todo, runScope) ==
    /\ Live(i).present /\ i \in Sees[runScope] /\ i \notin running
    /\ running' = running \cup {i}
    /\ caller' = [caller EXCEPT ![c] =
         [@ EXCEPT !.stage = FirstStage(Live(i).kind), !.todo = todo, !.id = i, !.gen = gen,
                   !.scope = runScope,
                   !.chain = Live(i).output = runScope]]
    /\ UNCHANGED <<now, gen, tasks, stuck, missed, worldVars>>

\* What tickCron asks of the listed object before it runs a task by its id.
TickWants(c, i) ==
    LET t == tasks[caller[c].list][i] IN
    /\ t.enabled /\ t.next > 0 /\ t.next <= caller[c].at

\* The cronjob tool passes on the policy and the settings of its own run.
ManualRun(c, i, s) ==
    /\ caller[c].stage = "idle"
    /\ Start(c, i, {}, s)

TickRun(c, i) ==
    /\ caller[c].stage = "loop" /\ i \in caller[c].todo /\ TickWants(c, i)
    /\ Start(c, i, caller[c].todo \ {i}, caller[c].scope)

MissedRun(c, i) ==
    /\ caller[c].stage = "loop" /\ i \in caller[c].todo
    /\ Start(c, i, caller[c].todo \ {i}, scope)

Skip(c, i) ==
    /\ caller[c].stage = "loop" /\ i \in caller[c].todo
    /\ \/ ~Live(i).present \/ i \in running
       \/ c \in Tickers /\ (~TickWants(c, i) \/ i \notin Sees[caller[c].scope])
       \/ c \in Others /\ i \notin Sees[scope]
    /\ caller' = [caller EXCEPT ![c].todo = @ \ {i}]
    /\ UNCHANGED <<now, gen, tasks, running, stuck, missed, worldVars>>

LoopEnds(c) ==
    /\ caller[c].stage = "loop" /\ caller[c].todo = {}
    /\ caller' = [caller EXCEPT ![c] = Idle]
    /\ UNCHANGED <<now, gen, tasks, running, stuck, missed, worldVars>>

-----------------------------------------------------------------------------
(* The stages of one run.  They write to the task object the run found,    *)
(* whichever settings object is installed by now.                          *)

Mine(c) == tasks[caller[c].gen][caller[c].id]

\* The run goes to stage s and its task object becomes t.
Step(c, s, t) ==
    /\ caller' = [caller EXCEPT ![c].stage = s]
    /\ tasks' = [tasks EXCEPT ![caller[c].gen][caller[c].id] = t]
    /\ UNCHANGED <<now, gen, running, stuck, missed, worldVars>>

FinallyUnscheduled(c, t) == Step(c, "save", t)

\* The finally block schedules the next slot from the time the run ends and
\* starts its save.
Finally(c, t) ==
    Step(c, "save", [t EXCEPT !.next = IF t.enabled THEN now + Period ELSE 0])

\* runCount is capped just above its budget, which is all that Completed reads.
CountedTwice(t) == [t EXCEPT !.count = @ + 2]
Counted(t) == [t EXCEPT !.count = IF @ > MaxRuns THEN @ ELSE @ + 1]

\* The catch block counts the run, again if it was counted before.
Caught(c) == Step(c, "log", Counted(Mine(c)))

Succeeded(c) == [Counted(Mine(c)) EXCEPT !.output = caller[c].scope]

\* The budget is compared on the two success paths only.
Completed(t) == MaxRuns > 0 /\ t.count >= MaxRuns

ScriptEnds(c, ok) ==
    /\ caller[c].stage = "script"
    /\ \/ ~ok /\ Step(c, "scriptLog", Counted(Mine(c)))
       \/ ok /\ Mine(c).kind = "noAgent" /\ Step(c, "deliver", Succeeded(c))
       \/ ok /\ Mine(c).kind # "noAgent"
             /\ Step(c, IF Mine(c).kind \in {"monitor", "scriptMonitor"} THEN "monitor" ELSE "model", Mine(c))

\* A page is unreadable, which fails open, or unchanged, which ends the run, or
\* changed; its hash is remembered before the model has seen it.
Fetched(c, unchanged) ==
    /\ caller[c].stage = "monitor"
    /\ Step(c, IF unchanged THEN "noChange" ELSE "model", Mine(c))

ModelEnds(c, ok) ==
    /\ caller[c].stage = "model"
    /\ IF ok THEN Step(c, "deliver", Succeeded(c)) ELSE Caught(c)

\* writeCronOutput; create() fails when the archive of this minute exists.
Delivered(c, ok) ==
    /\ caller[c].stage = "deliver"
    /\ IF ok THEN Finally(c, [Mine(c) EXCEPT !.enabled = @ /\ ~Completed(Mine(c))])
             ELSE Caught(c)

\* Failures of these writes are swallowed.
Logged(c) ==
    /\ caller[c].stage \in {"scriptLog", "noChange", "log"}
    /\ Finally(c, Mine(c))

\* A save that throws leaves the task in runningTasks and ends the chain.
Saved(c, ok) ==
    /\ caller[c].stage = "save"
    /\ IF ok THEN /\ running' = running \ {caller[c].id}
                  /\ stuck' = stuck
                  /\ caller' = [caller EXCEPT ![c] =
                       [@ EXCEPT !.stage = "loop", !.id = Idle.id, !.gen = 0, !.chain = FALSE]]
             ELSE /\ stuck' = stuck \cup {caller[c].id}
                  /\ running' = running
                  /\ caller' = [caller EXCEPT ![c] = Idle]
    /\ UNCHANGED <<now, gen, tasks, missed, worldVars>>

RunStep(c) ==
    \/ \E ok \in BOOLEAN : ScriptEnds(c, ok) \/ Fetched(c, ok) \/ ModelEnds(c, ok)
                           \/ Delivered(c, ok) \/ Saved(c, ok)
    \/ Logged(c)

-----------------------------------------------------------------------------
(* The user, the cronjob tool and the host.                                *)

Intervene == ops < MaxOps /\ ops' = ops + 1

Edited(t, i) ==
    /\ Intervene
    /\ tasks' = [tasks EXCEPT ![gen][i] = t]
    /\ UNCHANGED <<now, gen, running, stuck, caller, missed, scope>>

\* setEnabled, the toggle of the settings page.
Toggle(i) ==
    /\ Live(i).present
    /\ Edited([Live(i) EXCEPT !.enabled = ~@, !.next = IF Live(i).enabled THEN @ ELSE now + Period], i)

\* updateTask: the tool moves the slot when the patch has a schedule.
Edit(i, kind, moved) ==
    /\ Live(i).present
    /\ Edited([Live(i) EXCEPT !.kind = kind, !.next = IF moved THEN now + Period ELSE @], i)

\* newCronTask: ids are never used twice.
Create(i, kind) ==
    /\ \A g \in 0 .. gen : \E k \in Kinds : tasks[g][i] = NoTask(k)
    /\ Edited(NewTask(kind, now), i)

\* The form of the settings page always moves it.
FormSave(i, kind) == Edit(i, kind, TRUE) \/ Create(i, kind)

Remove(i) ==
    /\ Live(i).present
    /\ Edited([Live(i) EXCEPT !.present = FALSE], i)

\* An import brings a copy of the tasks, a reset none: a new settings object.
Replace(keep) ==
    /\ gen < MaxGen /\ Intervene
    /\ gen' = gen + 1
    /\ tasks' = [g \in 0 .. gen + 1 |->
         IF g <= gen THEN tasks[g]
         ELSE [i \in Ids |-> IF keep THEN Live(i) ELSE NoTask(Live(i).kind)]]
    /\ UNCHANGED <<now, running, stuck, caller, missed, scope>>

Clock ==
    /\ now < MaxTime
    /\ now' = now + 1
    /\ UNCHANGED <<gen, tasks, running, stuck, caller, missed, worldVars>>

SwitchPolicy ==
    /\ Intervene
    /\ scope' \in Scopes \ {scope}
    /\ UNCHANGED <<now, gen, tasks, running, stuck, caller, missed>>

CallerStep(c) ==
    \/ RunStep(c)
    \/ LoopEnds(c)
    \/ \E i \in Ids : Skip(c, i) \/ (c \in Tickers /\ TickRun(c, i))
                      \/ (c \in Others /\ MissedRun(c, i))

Next ==
    \/ \E c \in Tickers : Tick(c)
    \/ \E c \in Others : CatchUp(c) \/ \E i \in Ids, s \in Scopes : ManualRun(c, i, s)
    \/ \E c \in Callers : CallerStep(c)
    \/ \E i \in Ids : Toggle(i) \/ Remove(i)
                     \/ \E k \in UsedKinds : Edit(i, k, FALSE) \/ FormSave(i, k)
    \/ SkipMissed \/ Clock \/ SwitchPolicy
    \/ \E keep \in BOOLEAN : Replace(keep)

\* The timer keeps firing, and every await of a run ends: scripts and page
\* reads time out, the agent loop terminates, writes succeed or fail.
Fairness ==
    /\ WF_vars(\E c \in Tickers : Tick(c))
    /\ \A c \in Callers : WF_vars(CallerStep(c))

Spec == Init /\ [][Next]_vars /\ Fairness

-----------------------------------------------------------------------------
(* Properties.                                                             *)

TypeOK ==
    /\ now \in Nat /\ gen \in 0 .. MaxGen
    /\ tasks \in [0 .. gen -> [Ids -> Task]]
    /\ running \subseteq Ids /\ stuck \subseteq Ids /\ missed \subseteq Ids
    /\ caller \in [Callers -> Caller]
    /\ \A c \in Callers : caller[c].list <= gen /\ caller[c].gen <= gen
    /\ scope \in Scopes /\ ops \in 0 .. MaxOps

Busy(i) == {c \in Callers : caller[c].stage \in Active /\ caller[c].id = i}

\* Whatever ticks, catch-ups, manual runs and imports overlap, a task has at
\* most one run, and the guard holds the tasks that run and those whose last
\* save threw, nothing else: no ended run keeps a task from running again.
GuardExact ==
    \A i \in Ids :
        /\ \A c, d \in Busy(i) : c = d
        /\ i \in running <=> Busy(i) # {} \/ i \in stuck
        /\ i \in stuck => Busy(i) = {}

\* Output of an earlier run reaches the prompt of a run only if it was
\* produced under the same workspace policy, although it is read from the
\* task after the awaits of the script, the page and the skills.
ChainScoped ==
    \A c \in Callers : caller[c].stage \in {"script", "monitor", "model"} /\ caller[c].chain
        => Mine(c).output = caller[c].scope

Due(i) == Live(i).present /\ Live(i).enabled /\ Live(i).next \in 1 .. now /\ i \in Sees[scope]

\* An automation that is due is not due for ever: it runs, or the user turns
\* it off or moves it, unless a save failed at the end of a run of it.
DueRuns == \A i \in Ids : Due(i) ~> ~Due(i) \/ i \in stuck
=============================================================================
