------------------------- MODULE TerminalProcesses -------------------------
(***************************************************************************)
(* The desktop terminal service (src/agent/terminal/service.ts): the       *)
(* commands that interactive chat runs start, in the foreground (the tool  *)
(* call waits for the child) or in the background (a record of the process *)
(* registry).  A command is prepared, approved, revalidated and only then  *)
(* spawned, with awaits in between; a child ends by itself, by its         *)
(* timeout, by a kill the user approved, when its session is left, when    *)
(* the security settings change, or when the plugin unloads.               *)
(*                                                                         *)
(* Abstracted: command text, paths, captured output, exit codes, and       *)
(* Docker itself, of which only the wait for "docker rm" is kept; a child  *)
(* is "doomed" once it was sent SIGKILL or its container's removal was     *)
(* asked for, and "held" once its shell is gone but a process the shell    *)
(* started keeps its pipes open. The read-only process actions (list,      *)
(* poll, log, wait) change no state and are left out.                      *)
(***************************************************************************)
EXTENDS Naturals, FiniteSets

CONSTANTS
    Cmds,                  \* the terminal tool calls, one command each
    Sessions,              \* chat sessions
    Owner,                 \* the session of each command's run
    Background,            \* the commands with background: true
    Keys,                  \* values of settingsIdentity
    Saves,                 \* bound: concurrent saves of the settings
    NoWork,                \* the identity of no work
    Unload,                \* the stop-all pass of dispose
    MaxSessionProcesses, MaxGlobalProcesses,
    MaxSessionForeground, MaxGlobalForeground,
    MaxRetainedProcesses

ASSUME TerminalAssumption ==
    /\ IsFiniteSet(Cmds)
    /\ Owner \in [Cmds -> Sessions]
    /\ Background \subseteq Cmds
    /\ Keys # {}
    /\ NoWork \notin Keys
    /\ Unload \notin Saves
    /\ {MaxSessionProcesses, MaxGlobalProcesses, MaxSessionForeground,
        MaxGlobalForeground, MaxRetainedProcesses} \subseteq Nat
    \* 8 running processes and 64 records in the code
    /\ MaxGlobalProcesses <= MaxRetainedProcesses

VARIABLES
    call,              \* how far each tool call got after its approval
    identity,          \* the settings identity the call's work was allowed under
    interrupted,       \* the foreground calls under way whose run was aborted
    child,             \* each command's child process
    status,            \* ProcessRecord.status; completed and failed are "exited"
    finished,          \* the records with a finishedAt
    records,           \* the registry
    activeForeground,  \* the foreground commands not settled
    removing,          \* the killRecord calls that await docker rm
    live,              \* identity of the settings object
    securityKey,       \* identity of the last reconcile
    sweep              \* each save, and dispose: its stage and what it awaits

callVars == <<call, identity, interrupted>>
registry == <<status, finished, records, activeForeground, removing>>
hostVars == <<live, securityKey, sweep>>
vars == <<callVars, child, registry, hostVars>>

Foreground == Cmds \ Background
Statuses   == {"none", "running", "exited", "killed", "timed-out"}
Idle       == [stage |-> "idle"]
Disposed   == sweep[Unload].stage = "done"

Init ==
    /\ call = [c \in Cmds |-> "none"]
    /\ interrupted = {}
    /\ child = [c \in Cmds |-> "none"]
    /\ status = [c \in Cmds |-> "none"]
    /\ finished = {}
    /\ records = {}
    /\ activeForeground = {}
    /\ removing = {}
    /\ live \in Keys
    /\ identity = [c \in Cmds |-> NoWork]
    /\ securityKey = live
    /\ sweep = [w \in Saves \cup {Unload} |-> Idle]

Running == {c \in records : status[c] = "running"}

Doom(S) == child' = [c \in Cmds |-> IF c \in S /\ child[c] = "alive"
                                    THEN "doomed" ELSE child[c]]

----------------------------------------------------------------------------
(* Starting a command.  The tool waterfall of the agent loop calls         *)
(* prepare, asks the user, then revalidate and execute; the service        *)
(* changes no state before execute.                                        *)

Over(c) ==
    /\ call' = [call EXCEPT ![c] = "over"]
    /\ interrupted' = interrupted \ {c}

\* Allowed once and not interrupted, the call is revalidated: its settings
\* snapshot is compared with the live settings first, so one that goes on
\* has the live identity; then the physical scope and the image are awaited.
Revalidate(c) ==
    /\ call[c] = "none"
    /\ ~Disposed
    /\ call' = [call EXCEPT ![c] = "checking"]
    /\ identity' = [identity EXCEPT ![c] = live]
    /\ UNCHANGED <<interrupted, child, registry, hostVars>>

\* Over a quota, or one of the awaits found the call stale or failed.
Refuse(c) ==
    /\ call[c] = "checking"
    /\ Over(c)
    /\ identity' = [identity EXCEPT ![c] = NoWork]
    /\ UNCHANGED <<child, registry, hostVars>>

\* runForeground and startBackground count and insert without an await.
StartForeground(c) ==
    /\ c \in Foreground
    /\ call[c] = "checking"
    /\ ~Disposed
    /\ Cardinality({d \in activeForeground : Owner[d] = Owner[c]}) < MaxSessionForeground
    /\ Cardinality(activeForeground) < MaxGlobalForeground
    /\ call' = [call EXCEPT ![c] = "started"]
    /\ child' = [child EXCEPT ![c] = "alive"]
    /\ activeForeground' = activeForeground \cup {c}
    /\ UNCHANGED <<identity, interrupted, status, finished, records, removing, hostVars>>

\* Mutant: no record is ever forgotten to make room.
PrunableNone == {{}}

\* The records pruneFinishedRecords may forget to make room: as few as
\* needed, none of them running (which ones, the oldest, is left open).
Prunable == {P \in SUBSET (records \ Running) :
    IF Cardinality(records) < MaxRetainedProcesses
    THEN P = {}
    ELSE Cardinality(records \ P) = MaxRetainedProcesses - 1}

HasRoom(c) ==
    /\ Cardinality({d \in Running : Owner[d] = Owner[c]}) < MaxSessionProcesses
    /\ Cardinality(Running) < MaxGlobalProcesses

StartBackground(c) ==
    /\ c \in Background
    /\ call[c] = "checking"
    /\ ~Disposed
    /\ HasRoom(c)
    /\ \E P \in Prunable : records' = (records \ P) \cup {c}
    /\ Over(c)
    /\ child' = [child EXCEPT ![c] = "alive"]
    /\ status' = [status EXCEPT ![c] = "running"]
    /\ UNCHANGED <<identity, finished, activeForeground, removing, hostVars>>

----------------------------------------------------------------------------
(* Ending one.                                                             *)

\* Mutant: a record that has ended is finished once more.
FinishRecordAgain(c, st) ==
    /\ status' = [status EXCEPT ![c] = st]
    /\ finished' = finished \cup {c}

\* finishRecord does nothing the second time.
FinishRecord(c, st) ==
    IF c \in finished
    THEN UNCHANGED <<status, finished>>
    ELSE /\ status' = [status EXCEPT ![c] = st]
         /\ finished' = finished \cup {c}

\* The "close" event of a child, or its "error" event.
ChildEnds(c) ==
    /\ child[c] \in {"alive", "doomed", "held"}
    /\ child' = [child EXCEPT ![c] = "closed"]
    /\ identity' = [identity EXCEPT ![c] = NoWork]
    /\ IF c \in Background
       THEN /\ FinishRecord(c, IF status[c] = "running" THEN "exited" ELSE status[c])
            /\ UNCHANGED <<call, interrupted, activeForeground>>
       ELSE /\ Over(c)
            /\ activeForeground' = activeForeground \ {c}
            /\ UNCHANGED <<status, finished>>
    /\ UNCHANGED <<records, removing, hostVars>>

\* The shell of a foreground command is gone, by itself or by SIGKILL, which
\* reaches no other process; one it started holds its pipes, and until that
\* one ends there is no "close" event.
ShellLeaves(c) ==
    /\ c \in Foreground
    /\ child[c] \in {"alive", "doomed"}
    /\ child' = [child EXCEPT ![c] = "held"]
    /\ UNCHANGED <<callVars, registry, hostVars>>

BackgroundTimeout(c) ==
    /\ status[c] = "running"
    /\ ~Disposed   \* dispose clears the timers of the records
    /\ Doom({c})
    /\ FinishRecord(c, "timed-out")
    /\ UNCHANGED <<callVars, records, activeForeground, removing, hostVars>>

\* Mutant: an interrupted command is left to its abort listener.
ForegroundTimeoutUninterrupted(c) ==
    /\ c \in activeForeground /\ child[c] = "alive"
    /\ c \notin interrupted
    /\ Doom({c})
    /\ UNCHANGED <<callVars, registry, hostVars>>

\* The timer of a foreground command kills its child.
ForegroundTimeout(c) ==
    /\ c \in activeForeground /\ child[c] = "alive"
    /\ Doom({c})
    /\ UNCHANGED <<callVars, registry, hostVars>>

\* Mutant: the retention timer does not ask whether the record is finished.
ForgetEnded(c) ==
    /\ c \in records
    /\ records' = records \ {c}
    /\ UNCHANGED <<callVars, child, status, finished, activeForeground, removing, hostVars>>

\* The retention timer of a finished record.
Forget(c) ==
    /\ c \in records \cap finished
    /\ records' = records \ {c}
    /\ UNCHANGED <<callVars, child, status, finished, activeForeground, removing, hostVars>>

\* The user stops the runs of session s: only a foreground command that is
\* already started listens to the signal.
Interrupt(s) ==
    LET mine == {c \in Foreground : Owner[c] = s /\ call[c] \in {"checking", "started"}} IN
    /\ ~ mine \subseteq interrupted
    /\ interrupted' = interrupted \cup mine
    /\ Doom((mine \cap activeForeground) \ interrupted)
    /\ UNCHANGED <<call, identity, registry, hostVars>>

\* killRecord on the records of K, up to its await of docker rm.  A kill that
\* cannot be delivered raises the child's "error" event at once.
KillRecords(K) ==
    \E bad \in SUBSET (K \cap Running) :
       /\ status' = [c \in Cmds |-> IF c \in bad THEN "exited"
                                    ELSE IF c \in K \cap Running THEN "killed" ELSE status[c]]
       /\ finished' = finished \cup bad
       /\ removing' = removing \cup (K \cap Running)

\* Mutant: the removal of the container finishes nothing.
RemoveEndsOnly(c) ==
    /\ c \in removing
    /\ removing' = removing \ {c}
    /\ sweep' = [w \in DOMAIN sweep |->
                   IF sweep[w].stage = "stopping"
                   THEN [sweep[w] EXCEPT !.victims = @ \ {c}] ELSE sweep[w]]
    /\ UNCHANGED <<callVars, child, status, finished, records, activeForeground, live, securityKey>>

\* ... and after it.
RemoveEnds(c) ==
    /\ c \in removing
    /\ removing' = removing \ {c}
    /\ sweep' = [w \in DOMAIN sweep |->
                   IF sweep[w].stage = "stopping"
                   THEN [sweep[w] EXCEPT !.victims = @ \ {c}] ELSE sweep[w]]
    /\ FinishRecord(c, "killed")
    /\ UNCHANGED <<callVars, child, records, activeForeground, live, securityKey>>

\* Mutant: a background child is only recorded as killed.
StopUnsignalled(S) ==
    /\ KillRecords(S)
    /\ Doom(S \cap activeForeground)
    /\ UNCHANGED <<records, activeForeground>>

\* Every record of S is killed and every foreground child of S is signalled.
Stop(S) ==
    /\ KillRecords(S)
    /\ Doom(S \cap (Running \cup activeForeground))
    /\ UNCHANGED <<records, activeForeground>>

\* The process kill tool: its revalidation, in the same microtask as
\* killRecord, found the settings unchanged and the record still there.
KillTool(c) ==
    /\ c \in records
    /\ ~Disposed
    /\ Stop({c})
    /\ UNCHANGED <<callVars, hostVars>>

----------------------------------------------------------------------------
(* Stopping many.                                                          *)

\* onunload detaches the service from the runner as soon as dispose awaits.
Attached == sweep[Unload] = Idle

\* The view leaves session s: stopSession, which nobody awaits.
Leave(s) ==
    /\ Attached
    /\ \E c \in Running \cup activeForeground : Owner[c] = s
    /\ Stop({c \in Cmds : Owner[c] = s})
    /\ UNCHANGED <<callVars, hostVars>>

\* Nothing of a save after onunload reaches the service.
ChangeSettings(w, k) ==
    /\ sweep[w] = Idle
    /\ Attached
    /\ live' = k
    /\ sweep' = [sweep EXCEPT ![w] = [stage |-> "writing"]]
    /\ UNCHANGED <<callVars, child, registry, securityKey>>

\* saveData rejected: saveSettings throws before it reconciles.
SaveFails(w) ==
    /\ sweep[w].stage = "writing"
    /\ sweep' = [sweep EXCEPT ![w] = Idle]
    /\ UNCHANGED <<callVars, child, registry, live, securityKey>>

ReconcileUnchanged(w) ==
    /\ sweep[w].stage = "writing"
    /\ live = securityKey \/ ~Attached
    /\ sweep' = [sweep EXCEPT ![w] = Idle]
    /\ UNCHANGED <<callVars, child, registry, live, securityKey>>

\* The sweep awaits the kills it started, not those already under way.
ReconcileStops(w) ==
    /\ sweep[w].stage = "writing"
    /\ live # securityKey /\ Attached
    /\ Stop(Cmds)
    /\ sweep' = [sweep EXCEPT ![w] = [stage |-> "stopping", key |-> live, victims |-> Running]]
    /\ UNCHANGED <<callVars, live, securityKey>>

ReconcileEnds(w) ==
    /\ sweep[w].stage = "stopping" /\ w # Unload
    /\ sweep[w].victims = {}
    /\ securityKey' = sweep[w].key
    /\ sweep' = [sweep EXCEPT ![w] = Idle]
    /\ UNCHANGED <<callVars, child, registry, live>>

Dispose ==
    /\ Attached
    /\ Stop(Cmds)
    /\ sweep' = [sweep EXCEPT ![Unload] = [stage |-> "stopping", victims |-> Running]]
    /\ UNCHANGED <<callVars, live, securityKey>>

DisposeEnds ==
    /\ sweep[Unload].stage = "stopping"
    /\ sweep[Unload].victims = {}
    /\ sweep' = [sweep EXCEPT ![Unload] = [stage |-> "done"]]
    /\ records' = {}
    /\ UNCHANGED <<callVars, child, status, finished, activeForeground, removing, live, securityKey>>

----------------------------------------------------------------------------
Start(c) == StartForeground(c) \/ StartBackground(c)
Timeout(c) == BackgroundTimeout(c) \/ ForegroundTimeout(c)
Reconcile(w) == ReconcileUnchanged(w) \/ ReconcileStops(w) \/ ReconcileEnds(w)

Next ==
    \/ \E c \in Cmds : \/ Revalidate(c) \/ Refuse(c) \/ Start(c)
                       \/ KillTool(c) \/ ChildEnds(c) \/ ShellLeaves(c) \/ Timeout(c)
                       \/ Forget(c) \/ RemoveEnds(c)
    \/ \E s \in Sessions : Interrupt(s) \/ Leave(s)
    \/ \E w \in Saves : SaveFails(w) \/ Reconcile(w) \/ \E k \in Keys : ChangeSettings(w, k)
    \/ Dispose \/ DisposeEnds

Spec == Init /\ [][Next]_vars

(* JavaScript timers fire, docker rm ends or is given up after five        *)
(* seconds, and the shell of a foreground command that was sent SIGKILL    *)
(* dies: its call sees "close", or a process it left behind holds the      *)
(* pipes.  Nothing is assumed of such a process, of a child left alone, of *)
(* the close of a background child ("even if a broken runtime never emits  *)
(* close after kill"), of the user or of the settings.                     *)
Fairness ==
    /\ \A c \in Background : WF_vars(BackgroundTimeout(c)) /\ WF_vars(RemoveEnds(c))
    /\ \A c \in Foreground : /\ WF_vars(ForegroundTimeout(c))
                             /\ WF_vars(child[c] = "doomed" /\ (ChildEnds(c) \/ ShellLeaves(c)))

FairSpec == Spec /\ Fairness

----------------------------------------------------------------------------
SaveType ==
    {Idle, [stage |-> "writing"]}
    \cup [stage : {"stopping"}, key : Keys, victims : SUBSET Cmds]

UnloadType ==
    {Idle, [stage |-> "done"]} \cup [stage : {"stopping"}, victims : SUBSET Cmds]

(* The types of the service's state; the registry holds background records *)
(* only, never more than its retention limit (pruneFinishedRecords), and a *)
(* finished record is not running.                                         *)
TypeOK ==
    /\ call \in [Cmds -> {"none", "checking", "started", "over"}]
    /\ identity \in [Cmds -> Keys \cup {NoWork}]
    /\ interrupted \subseteq Foreground
    /\ child \in [Cmds -> {"none", "alive", "doomed", "held", "closed"}]
    /\ status \in [Cmds -> Statuses]
    /\ finished \subseteq Background
    /\ \A c \in finished : status[c] \notin {"none", "running"}
    /\ records \subseteq Background
    /\ Cardinality(records) <= MaxRetainedProcesses
    /\ activeForeground \subseteq Foreground
    /\ removing \subseteq Background
    /\ live \in Keys
    /\ securityKey \in Keys
    /\ sweep \in [Saves \cup {Unload} -> SaveType \cup UnloadType]
    /\ \A w \in Saves : sweep[w] \in SaveType
    /\ sweep[Unload] \in UnloadType

(* Until the plugin is unloaded, every live child is still owned: a        *)
(* background one has a running record in the registry, where kill, leave  *)
(* and reconcile find it, and a foreground one is in activeForeground.  No *)
(* pruning, retention timer, or kill under way loses one.                  *)
Reachable == \A c \in Cmds :
    child[c] = "alive" =>
        IF c \in Background THEN Disposed \/ c \in Running ELSE c \in activeForeground

(* The quotas hold of the live children themselves, not only of the        *)
(* statuses the service counts: per chat and for the plugin.               *)
LiveChildren(S) == {c \in S : child[c] = "alive"}
QuotaHeld ==
    /\ Cardinality(LiveChildren(Background)) <= MaxGlobalProcesses
    /\ Cardinality(LiveChildren(Foreground)) <= MaxGlobalForeground
    /\ \A s \in Sessions :
          LET mine == {c \in Cmds : Owner[c] = s} IN
          /\ Cardinality(LiveChildren(Background \cap mine)) <= MaxSessionProcesses
          /\ Cardinality(LiveChildren(Foreground \cap mine)) <= MaxSessionForeground

(* What poll and list once reported as the end of a process stays what     *)
(* they report, whichever of its close, its timeout, a failed kill and the *)
(* end of docker rm comes later.                                           *)
ReportedFinal == [][\A c \in Cmds :
    status[c] \notin {"none", "running"} => status'[c] = status[c]]_vars

(* Every child (the process that was spawned, not what it started in turn) *)
(* ends or is ended by its timeout, also one whose run was interrupted     *)
(* just before it was spawned, which never hears of it.  (A command is     *)
(* spawned once, so each child ends if always later none lives.)           *)
ChildrenEnd == []<>(Disposed \/ LiveChildren(Cmds) = {})

(* A killed record is finished even if its child never closes, and no      *)
(* foreground call waits for ever but one whose shell left a process       *)
(* behind on its pipes: runForeground settles by the close event alone.    *)
CallsSettle == []<>(/\ \A c \in activeForeground : child[c] = "held"
                    /\ \A c \in Background : status[c] = "killed" => c \in finished)
=============================================================================
