------------------------------ MODULE CronForm ------------------------------
(***************************************************************************)
(* An automation and the page it is made and edited on: the form with its  *)
(* presets and its guided builder, the row with its switch and its delete  *)
(* button, the blueprints, and, at any moment while the form is open, the  *)
(* agent's cronjob tool, a run of the automation with its fetch of the     *)
(* watched page or its script, and a restart.  One automation exists at a  *)
(* time; gen tells a new one from the one before it.                       *)
(***************************************************************************)
EXTENDS CronCalendar

CONSTANTS
    Raws,           \* expressions typed by hand, None for a text that is not one
    Empty, Custom,  \* no text at all; the choice that opens the builder
    Urls, Script,   \* watched pages and a script's name
    Intervals,      \* numbers typed for "every n"
    Times,          \* times of day typed, None for one that cannot be read
    OldIntervals,   \* intervalMinutes of tasks of the first version
    MaxNow,         \* bound: time
    MaxMoves        \* bound: changes of the form, automations made, updates by the agent

VARIABLES
    now,
    task,           \* None, or the automation
    form,           \* None, or the drafts of the form
    run,            \* None, or a run on its way: what it looks at and whose it is
    gen,
    by,             \* who wrote the automation last: "form", "agent", "old", ... (observer)
    moves

formVars == <<now, task, form, run, gen, by, moves>>

(* parseTime: an unreadable time counts as nine o'clock. *)
At(time) == IF time = None THEN <<Nine, 0>> ELSE time

(* computeExpr *)
Computed(d) ==
    CASE d.mode = "interval" -> ForInterval(d.n, d.unit)
      [] d.mode = "weekly" -> ForWeekly(d.dow, At(d.time))
      [] d.mode = "monthly" -> ForMonthly(d.day, At(d.time))
      [] d.mode = "daily" -> ForDaily(At(d.time))
      [] OTHER -> d.raw

Painted(d) == [d EXCEPT !.custom = Computed(d)]

(* renderExprRow: the builder shows only for a custom schedule, and starts over from the
   expression there is, if any. *)
ExprRow(d) ==
    IF d.preset # Custom THEN d
    ELSE Painted([d EXCEPT !.mode = IF d.custom = Empty THEN "daily" ELSE "raw", !.n = Quarter,
                           !.unit = "minutes", !.time = <<Nine, 0>>, !.dow = 1, !.day = 1,
                           !.raw = d.custom])

Daily == Expr(One(0), One(Nine), Star, Star, Star)
Blank == [gen |-> 0, preset |-> Daily, custom |-> Empty, mode |-> "daily", n |-> Quarter,
          unit |-> "minutes", time |-> <<Nine, 0>>, dow |-> 1, day |-> 1, raw |-> Empty,
          url |-> None, script |-> None, alone |-> FALSE]

FormOf(t) ==
    ExprRow([Blank EXCEPT !.gen = gen, !.url = t.url, !.script = t.script, !.alone = t.alone,
                          !.preset = IF t.expr \in Presets THEN t.expr ELSE Custom,
                          !.custom = IF t.expr \in Presets THEN Empty ELSE t.expr])

(* newCronTask; the hash of a watched page is the page it is of, set is when the next run was
   computed (observer). *)
NewTask(expr, url, script, alone) ==
    [expr |-> expr, next |-> NextRun(expr, now), set |-> now, enabled |-> TRUE, url |-> url,
     hash |-> None, script |-> script, alone |-> script # None /\ alone]

-----------------------------------------------------------------------------
FormInit ==
    /\ now = 0 /\ task = None /\ form = None /\ run = None
    /\ gen = 0 /\ by = None /\ moves = 0

Moving == moves < MaxMoves /\ moves' = moves + 1
Drafting == Moving /\ UNCHANGED <<now, task, run, gen, by>>

TimePasses ==
    /\ now < MaxNow /\ now' = now + 1
    /\ UNCHANGED <<task, form, run, gen, by, moves>>

(* The page draws the form of the task being edited, or an empty one. *)
OpenForm(edit) ==
    /\ form = None
    /\ IF edit THEN task # None /\ form' = FormOf(task) ELSE task = None /\ form' = Blank
    /\ UNCHANGED <<now, task, run, gen, by, moves>>

Cancel == form # None /\ form' = None /\ UNCHANGED <<now, task, run, gen, by, moves>>

PickPreset(p) ==
    /\ Drafting
    /\ form # None /\ form.preset # p
    /\ form' = ExprRow([form EXCEPT !.preset = p])

InBuilder == form # None /\ form.preset = Custom

PickMode(m) ==
    /\ Drafting
    /\ InBuilder /\ form.mode # m /\ form' = Painted([form EXCEPT !.mode = m])

SetInterval(n, unit) ==
    /\ Drafting
    /\ InBuilder /\ form.mode = "interval" /\ form' = Painted([form EXCEPT !.n = n, !.unit = unit])

SetTime(time) ==
    /\ Drafting
    /\ InBuilder /\ form.mode \in {"daily", "weekly", "monthly"}
    /\ form' = Painted([form EXCEPT !.time = time])

SetDay(n) ==
    /\ Drafting
    /\ InBuilder
    /\ \/ form.mode = "weekly" /\ n \in 0..DowMax /\ form' = Painted([form EXCEPT !.dow = n])
       \/ form.mode = "monthly" /\ form' = Painted([form EXCEPT !.day = Clamp(n, 1, SafeDay)])

SetRaw(expr) ==
    /\ Drafting
    /\ InBuilder /\ form.mode = "raw" /\ form' = Painted([form EXCEPT !.raw = expr])

SetUrl(url) == Drafting /\ form # None /\ form' = [form EXCEPT !.url = url]
SetScript(script) == Drafting /\ form # None /\ form' = [form EXCEPT !.script = script]
SetAlone(alone) == Drafting /\ form # None /\ form' = [form EXCEPT !.alone = alone]

(* The early returns of the save. *)
Accepted(d, expr) ==
    /\ expr # Empty /\ Valid(expr)
    /\ ~(d.script # None /\ d.url # None)
    /\ ~(d.alone /\ d.script = None)

(* Save changes: the fields are written into the task the form was drawn with, which another
   may have replaced meanwhile. *)
Changed(t, d, expr) ==
    LET watched == IF d.url = t.url THEN t ELSE [t EXCEPT !.url = d.url, !.hash = None]
        cleared == IF d.script # t.script /\ d.script # None
                   THEN [watched EXCEPT !.url = None, !.hash = None] ELSE watched
    IN  [cleared EXCEPT !.expr = expr, !.next = NextRun(expr, now), !.set = now,
                        !.script = d.script, !.alone = d.script # None /\ d.alone]

Save ==
    /\ form # None
    /\ LET expr == IF form.preset = Custom THEN form.custom ELSE form.preset IN
       /\ Accepted(form, expr)
       /\ IF form.gen # 0
          THEN /\ task' = IF task # None /\ gen = form.gen THEN Changed(task, form, expr) ELSE task
               /\ by' = IF task # None /\ gen = form.gen THEN "form" ELSE by
               /\ UNCHANGED <<gen, moves>>
          ELSE /\ Moving /\ task = None
               /\ task' = NewTask(expr, form.url, form.script, form.alone)
               /\ gen' = gen + 1 /\ by' = "form"
    /\ form' = None
    /\ UNCHANGED <<now, run>>

(* The template modal: a time of day, or every n minutes. *)
FromTemplate ==
    /\ Moving /\ task = None
    /\ gen' = gen + 1 /\ by' = "blueprint" /\ form' = None
    /\ UNCHANGED <<now, run>>

UseBlueprint(time, dow) ==
    /\ FromTemplate
    /\ LET expr == Blueprint(time, dow) IN Valid(expr) /\ task' = NewTask(expr, None, None, FALSE)

UseInterval(n) ==
    /\ FromTemplate
    /\ LET expr == BlueprintInterval(n) IN Valid(expr) /\ task' = NewTask(expr, None, None, FALSE)

(* The row: the switch reschedules, the delete button closes the form on the task. *)
Toggle ==
    /\ task # None
    /\ task' = [task EXCEPT !.enabled = ~@, !.next = IF task.enabled THEN @ ELSE NextRun(task.expr, now),
                            !.set = IF task.enabled THEN @ ELSE now]
    /\ form' = None /\ UNCHANGED <<now, run, gen, by, moves>>

Delete ==
    /\ task # None /\ task' = None /\ form' = None
    /\ UNCHANGED <<now, run, gen, by, moves>>

-----------------------------------------------------------------------------
(* Meanwhile: the agent's tool, which leaves the form open. *)

AgentUpdates(expr, script) ==
    /\ Moving
    /\ task # None
    /\ task' = IF script = None
               THEN [task EXCEPT !.expr = expr, !.next = NextRun(expr, now), !.set = now]
               ELSE [task EXCEPT !.script = script, !.url = None, !.hash = None]
    /\ by' = "agent" /\ UNCHANGED <<now, form, run, gen>>

AgentWatches(url) ==
    /\ Moving
    /\ task # None /\ task' = [task EXCEPT !.url = url, !.hash = None]
    /\ by' = "agent" /\ UNCHANGED <<now, form, run, gen>>

AgentRemoves ==
    /\ Moving
    /\ task # None /\ task' = None
    /\ UNCHANGED <<now, form, run, gen, by>>

(* A run that watches a page or runs a script; a script is killed at its time limit and settles
   once whichever comes first, its end or the limit. *)
RunStarts ==
    /\ task # None /\ run = None /\ task.enabled /\ 0 < task.next /\ task.next <= now
    /\ run' = [url |-> task.url, gen |-> gen, child |-> task.script # None, settled |-> FALSE]
    /\ UNCHANGED <<now, task, form, gen, by, moves>>

ScriptTimesOut ==
    /\ run # None /\ run.child /\ ~run.settled /\ run' = [run EXCEPT !.settled = TRUE]
    /\ UNCHANGED <<now, task, form, gen, by, moves>>

ScriptExits ==
    /\ run # None /\ run.child /\ run' = [run EXCEPT !.child = FALSE, !.settled = TRUE]
    /\ UNCHANGED <<now, task, form, gen, by, moves>>

(* The run ends: the hash of what it fetched goes to the task as it is by now, and the task is
   scheduled again. *)
RunEnds(fetched) ==
    /\ run # None /\ (run.child => run.settled)
    /\ task' = IF task = None \/ run.gen # gen THEN task
               ELSE [task EXCEPT !.hash = IF fetched /\ run.url # None THEN run.url ELSE @,
                                 !.next = IF task.enabled THEN NextRun(task.expr, now) ELSE 0,
                                 !.set = now]
    /\ run' = None
    /\ UNCHANGED <<now, form, gen, by, moves>>

-----------------------------------------------------------------------------
(* migrateCronTasks: a task of the first version, every n minutes, rounded to whole hours. *)
Migrated(n) ==
    LET hours == (2 * n + PerHour) \div (2 * PerHour) IN
    CASE n < PerHour -> BlueprintInterval(n)
      [] n >= PerHour /\ n % PerHour = 0 /\ hours <= HourMax -> Expr(One(0), Every(hours), Star, Star, Star)
      [] n > PerHour /\ n % PerDay = 0 -> Daily
      [] OTHER -> Expr(One(0), Every(Clamp(hours, 1, HourMax)), Star, Star, Star)

(* One that ran before is due n minutes after, whatever its schedule. *)
LoadOld(n, last) ==
    /\ Moving
    /\ task = None /\ form = None /\ run = None
    /\ LET new == NewTask(Migrated(n), None, None, FALSE) IN
       task' = IF last = 0 THEN new ELSE [new EXCEPT !.next = last + n, !.set = None]
    /\ gen' = gen + 1 /\ by' = "old"
    /\ UNCHANGED <<now, form, run>>

(* A restart reads the task back; the form and the run are gone, a run due meanwhile is offered
   again. *)
Restart ==
    /\ form' = None /\ run' = None
    /\ task' = IF task # None /\ task.next = 0
               THEN [task EXCEPT !.next = NextRun(task.expr, now), !.set = now] ELSE task
    /\ UNCHANGED <<now, gen, by, moves>>

FormNext ==
    \/ TimePasses \/ Cancel \/ Save \/ Toggle \/ Delete \/ AgentRemoves \/ RunStarts \/ Restart
    \/ ScriptTimesOut \/ ScriptExits
    \/ \E edit \in BOOLEAN : OpenForm(edit)
    \/ \E p \in Presets \cup {Custom} : PickPreset(p)
    \/ \E m \in {"daily", "interval", "weekly", "monthly", "raw"} : PickMode(m)
    \/ \E n \in Intervals, unit \in {"minutes", "hours"} : SetInterval(n, unit)
    \/ \E time \in Times : SetTime(time)
    \/ \E n \in {0, DowMax, DayMax} : SetDay(n)
    \/ \E expr \in Raws \cup {Empty} : SetRaw(expr)
    \/ \E url \in Urls \cup {None} : SetUrl(url)
    \/ \E script \in {Script, None} : SetScript(script)
    \/ \E alone \in BOOLEAN : SetAlone(alone)
    \/ \E time \in Times \ {None}, dow \in Recurrences : UseBlueprint(time, dow)
    \/ \E n \in Intervals : UseInterval(n)
    \/ \E expr \in {e \in Raws : Valid(e)}, script \in {Script, None} : AgentUpdates(expr, script)
    \/ \E url \in Urls : AgentWatches(url)
    \/ \E fetched \in BOOLEAN : RunEnds(fetched)
    \/ \E n \in OldIntervals, last \in 0..now : LoadOld(n, last)

FormFairness == WF_formVars(ScriptTimesOut) /\ WF_formVars(\E fetched \in BOOLEAN : RunEnds(fetched))
FormSpec == FormInit /\ [][FormNext]_formVars /\ FormFairness

-----------------------------------------------------------------------------
(* Properties. *)

(* Whatever was picked in the builder, the expression it made is valid and fires exactly when
   the words beside it say: this time of this day, or every n minutes or hours where n divides
   the hour or the day. *)
PickedFires ==
    (InBuilder /\ form.mode # "raw") =>
        /\ Valid(form.custom)
        /\ LET desc == Describe(form.custom) IN
           /\ desc # None
           /\ Regular(desc) =>
                /\ \A t \in now .. now + Year : Matches(form.custom, t) <=> Means(desc, t)
                /\ form.mode = "interval" => desc.n = Clamp(form.n, 1, MinuteMax)
                /\ form.mode # "interval" => desc.at = At(form.time)
                /\ form.mode = "weekly" => desc.on = form.dow

(* An automation that is on waits for the first minute its schedule matches since it was last
   scheduled, however the form, the agent, the switch and the runs took turns: no matching minute
   is skipped, and only a schedule without one waits for ever. *)
NextIsFirst ==
    (task # None /\ task.enabled) =>
        /\ Valid(task.expr)
        /\ task.set # None => task.next = NextRun(task.expr, task.set)

(* An automation last written by its form never has both a script and a watched page, whatever
   the agent changed under the open form. *)
SaveExclusive == (task # None /\ by = "form") => ~(task.script # None /\ task.url # None)

(* Every run ends, a script that never exits included. Checked as: Waits leads to ~Waits. *)
Waits == run # None

=============================================================================
