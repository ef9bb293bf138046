--------------------------- MODULE TerminalProofs ---------------------------
(***************************************************************************)
(* TLAPS proofs about TerminalProcesses, for any number of commands,       *)
(* sessions, saves and quotas: its types and retention limit, no live      *)
(* child without an owner, and ends that are reported once and for all.    *)
(* Then about what is cut out of a list, and three parts that cut theirs,   *)
(* for any instance of each:                                                *)
(*   - MoaPresets: that what is saved keeps the invariants of the settings, *)
(*     and that a preset is saved as edited;                                *)
(*   - CommandList: that a deleted command stays gone, and that the list    *)
(*     loses nothing else;                                                  *)
(*   - SessionLog: that the answers of a history follow their calls, also   *)
(*     after a reload that rebuilds it from the event log.                  *)
(***************************************************************************)
EXTENDS TerminalProcesses, Places, Integers, Sequences, SequenceTheorems, FiniteSetTheorems,
        WellFoundedInduction, TLAPS

CONSTANTS
    None, MaxOps,
    Names, Whole, Seed, MaxRefs,                                    \* of MoaPresets
    Seeds, Texts,                                                   \* of CommandList
    MaxTurns, MaxSteps, MaxBatch, ProtectLastN, Pictured, Breaks    \* of SessionLog

VARIABLES
    moaLive, draft, chosen, problems, moaOps,
    commands, rows, listDisk, saves, armed, dragging, modal, deleted, listOps,
    logWire, logEvents, logPanel, logCache, logRun, logFile, logAsked

Presets == INSTANCE MoaPresets WITH live <- moaLive
List == INSTANCE CommandList WITH disk <- listDisk, ops <- listOps
Log == INSTANCE SessionLog WITH
    messages <- logWire, events <- logEvents, panel <- logPanel, cache <- logCache, run <- logRun,
    file <- logFile, asked <- logAsked

\* A command that was not started has left no trace; a record whose end was
\* reported but which is not finished is a kill under way.
LifeInv == \A c \in Cmds :
    /\ call[c] \in {"none", "checking"} => child[c] = "none" /\ status[c] = "none"
    /\ c \in Background /\ child[c] # "none" => status[c] # "none"
    /\ c \notin Background => status[c] = "none"
    /\ status[c] \in {"none", "running", "killed"} \/ c \in finished
    /\ c \in removing => status[c] \notin {"none", "running"}

Inv == TypeOK /\ LifeInv /\ Reachable

\* The part of TypeOK that is about the sweeps.
SweepTyped ==
    /\ sweep \in [Saves \cup {Unload} -> SaveType \cup UnloadType]
    /\ \A w \in Saves : sweep[w] \in SaveType
    /\ sweep[Unload] \in UnloadType

-----------------------------------------------------------------------------
(* What the helpers of the actions do.                                     *)

\* Signalling a set of commands.
LEMMA DoomEffect ==
    ASSUME TypeOK, NEW S, Doom(S)
    PROVE  /\ child' \in [Cmds -> {"none", "alive", "doomed", "held", "closed"}]
           /\ \A c \in Cmds : /\ child'[c] = child[c] \/ child'[c] = "doomed"
                              /\ child'[c] = "alive" => child[c] = "alive" /\ c \notin S
                              /\ child[c] # "alive" => child'[c] = child[c]
BY DEF Doom, TypeOK

\* Ending a call touches that call only.
LEMMA OverEffect ==
    ASSUME TypeOK, NEW c \in Cmds, Over(c)
    PROVE  /\ call' \in [Cmds -> {"none", "checking", "started", "over"}]
           /\ call'[c] = "over" /\ \A d \in Cmds \ {c} : call'[d] = call[d]
           /\ interrupted' \subseteq Foreground
BY DEF Over, TypeOK

\* Finishing a record touches that record only, and only once.
LEMMA FinishEffect ==
    ASSUME TypeOK, NEW c \in Background, NEW st \in {"exited", "killed", "timed-out"},
           FinishRecord(c, st)
    PROVE  /\ status' \in [Cmds -> Statuses]
           /\ finished' = finished \cup {c}
           /\ \A d \in finished' : status'[d] \notin {"none", "running"}
           /\ \A d \in Cmds \ {c} : status'[d] = status[d]
           /\ status'[c] = IF c \in finished THEN status[c] ELSE st
<1> USE TerminalAssumption DEF TypeOK, Statuses
<1>1. c \in Cmds
  OBVIOUS
<1>2. CASE c \in finished
  BY <1>1, <1>2 DEF FinishRecord
<1>3. CASE c \notin finished
  BY <1>1, <1>3 DEF FinishRecord
<1> QED BY <1>2, <1>3

\* Stopping a set of commands ends no record but the running ones of the set
\* and signals all of them.
LEMMA StopEffect ==
    ASSUME TypeOK, NEW S, Stop(S)
    PROVE  /\ child' \in [Cmds -> {"none", "alive", "doomed", "held", "closed"}]
           /\ \A c \in Cmds : /\ child'[c] = "alive" => child[c] = "alive"
                                     /\ c \notin S \cap (Running \cup activeForeground)
                              /\ child[c] = "none" => child'[c] = "none"
           /\ status' \in [Cmds -> Statuses]
           /\ \A c \in Cmds : IF c \in S \cap Running
                              THEN status'[c] = "killed" \/ (status'[c] = "exited" /\ c \in finished')
                              ELSE status'[c] = status[c]
           /\ finished \subseteq finished' /\ finished' \subseteq finished \cup (S \cap Running)
           /\ removing' = removing \cup (S \cap Running)
           /\ UNCHANGED <<records, activeForeground>>
<1>1. /\ child' \in [Cmds -> {"none", "alive", "doomed", "held", "closed"}]
      /\ \A c \in Cmds : /\ child'[c] = "alive" => child[c] = "alive"
                                /\ c \notin S \cap (Running \cup activeForeground)
                         /\ child[c] = "none" => child'[c] = "none"
  BY DoomEffect DEF Stop
<1>2. PICK bad \in SUBSET (S \cap Running) :
         /\ status' = [c \in Cmds |-> IF c \in bad THEN "exited"
                                      ELSE IF c \in S \cap Running THEN "killed" ELSE status[c]]
         /\ finished' = finished \cup bad
         /\ removing' = removing \cup (S \cap Running)
  BY DEF Stop, KillRecords
<1>3. status' \in [Cmds -> Statuses]
  BY <1>2 DEF TypeOK, Statuses
<1>4. \A c \in Cmds : IF c \in S \cap Running
                      THEN status'[c] = "killed" \/ (status'[c] = "exited" /\ c \in finished')
                      ELSE status'[c] = status[c]
  BY <1>2
<1>5. UNCHANGED <<records, activeForeground>>
  BY DEF Stop
<1> QED BY <1>1, <1>2, <1>3, <1>4, <1>5

\* Stopping keeps the invariant, whatever becomes of the host's variables, as
\* long as the service is not disposed by it.
LEMMA StopInv ==
    ASSUME Inv, NEW S, Stop(S), UNCHANGED callVars, live' \in Keys, securityKey' \in Keys,
           SweepTyped', Disposed' <=> Disposed
    PROVE  Inv'
<1> USE TerminalAssumption DEF Inv
<1>1. TypeOK'
  <2>1. \A c \in finished' : status'[c] \notin {"none", "running"}
    BY StopEffect DEF TypeOK, Running
  <2>2. finished' \subseteq Background /\ removing' \subseteq Background
    BY StopEffect DEF TypeOK, Running
  <2> QED BY <2>1, <2>2, StopEffect DEF TypeOK, SweepTyped, callVars
<1>2. LifeInv'
  BY StopEffect DEF LifeInv, TypeOK, Running, callVars
<1>3. Reachable'
  BY StopEffect DEF Reachable, Running, TypeOK
<1> QED BY <1>1, <1>2, <1>3

\* Pruning and retention keep the registry finite and within its limit.
LEMMA RecordsFinite ==
    ASSUME TypeOK, NEW R, R \subseteq records
    PROVE  /\ IsFiniteSet(records) /\ IsFiniteSet(R)
           /\ Cardinality(R) \in Nat /\ Cardinality(R) <= Cardinality(records)
           /\ Cardinality(R) <= MaxRetainedProcesses
<1>1. IsFiniteSet(records)
  BY FS_Subset, TerminalAssumption DEF TypeOK
<1>2. IsFiniteSet(R) /\ Cardinality(R) <= Cardinality(records)
  BY <1>1, FS_Subset
<1>3. Cardinality(R) \in Nat /\ Cardinality(records) \in Nat
  BY <1>1, <1>2, FS_CardinalityType
<1> QED BY <1>1, <1>2, <1>3, TerminalAssumption DEF TypeOK

\* A new record fits once the records chosen for it are forgotten.
LEMMA PruneFits ==
    ASSUME TypeOK, NEW c \in Cmds, NEW P \in Prunable
    PROVE  /\ Cardinality((records \ P) \cup {c}) <= MaxRetainedProcesses
           /\ P \subseteq records \ Running
<1>1. IsFiniteSet(records \ P) /\ Cardinality(records \ P) \in Nat
  BY RecordsFinite
<1>2. Cardinality(records \ P) < MaxRetainedProcesses
  <2>1. CASE Cardinality(records) < MaxRetainedProcesses
    <3>1. records \ P = records
      BY <2>1 DEF Prunable
    <3> QED BY <2>1, <3>1
  <2>2. CASE ~(Cardinality(records) < MaxRetainedProcesses)
    BY <1>1, <2>2, TerminalAssumption DEF Prunable
  <2> QED BY <2>1, <2>2
<1>3. Cardinality((records \ P) \cup {c}) <= Cardinality(records \ P) + 1
  <2>1. Cardinality((records \ P) \cup {c}) =
          IF c \in records \ P THEN Cardinality(records \ P) ELSE Cardinality(records \ P) + 1
    BY <1>1, FS_AddElement
  <2> QED BY <1>1, <2>1
<1>4. MaxRetainedProcesses \in Nat /\ Cardinality((records \ P) \cup {c}) \in Nat
  BY <1>1, FS_AddElement, FS_CardinalityType, TerminalAssumption
<1> QED BY <1>1, <1>2, <1>3, <1>4 DEF Prunable

-----------------------------------------------------------------------------
(* The sweeps.                                                             *)

\* A sweep that loses a victim keeps its type and its stage.
LEMMA RemoveSweep ==
    ASSUME TypeOK, NEW c \in Cmds, RemoveEnds(c)
    PROVE  /\ SweepTyped'
           /\ Disposed' <=> Disposed
<1> DEFINE lose(x) == IF x.stage = "stopping" THEN [x EXCEPT !.victims = @ \ {c}] ELSE x
<1>1. sweep' = [w \in Saves \cup {Unload} |-> lose(sweep[w])]
  BY DEF RemoveEnds, TypeOK
<1>2. ASSUME NEW x \in SaveType PROVE lose(x) \in SaveType
  <2>1. CASE x = Idle \/ x = [stage |-> "writing"]
    BY <2>1 DEF SaveType, Idle
  <2>2. CASE x \in [stage : {"stopping"}, key : Keys, victims : SUBSET Cmds]
    <3>1. lose(x) = [x EXCEPT !.victims = x.victims \ {c}]
      BY <2>2
    <3>2. lose(x) \in [stage : {"stopping"}, key : Keys, victims : SUBSET Cmds]
      BY <2>2, <3>1
    <3> QED BY <3>2 DEF SaveType
  <2> QED BY <2>1, <2>2 DEF SaveType
<1>3. ASSUME NEW x \in UnloadType PROVE lose(x) \in UnloadType /\ lose(x).stage = x.stage
  <2>1. CASE x = Idle \/ x = [stage |-> "done"]
    BY <2>1 DEF UnloadType, Idle
  <2>2. CASE x \in [stage : {"stopping"}, victims : SUBSET Cmds]
    <3>1. lose(x) = [x EXCEPT !.victims = x.victims \ {c}] /\ x.stage = "stopping"
      BY <2>2
    <3>2. lose(x) \in [stage : {"stopping"}, victims : SUBSET Cmds]
      BY <2>2, <3>1
    <3> QED BY <3>1, <3>2 DEF UnloadType
  <2> QED BY <2>1, <2>2 DEF UnloadType
<1>4. /\ \A w \in Saves : sweep[w] \in SaveType
      /\ sweep[Unload] \in UnloadType
  BY DEF TypeOK
<1> HIDE DEF lose
<1> QED BY <1>1, <1>2, <1>3, <1>4 DEF Disposed, SweepTyped

\* The settings' own steps leave the service's types and its disposal alone.
LEMMA HostStep ==
    ASSUME TypeOK, NEW w \in Saves, NEW k \in Keys,
           \/ SaveFails(w) \/ ChangeSettings(w, k) \/ ReconcileUnchanged(w)
           \/ ReconcileStops(w) \/ ReconcileEnds(w)
    PROVE  /\ live' \in Keys /\ securityKey' \in Keys
           /\ SweepTyped'
           /\ Disposed' <=> Disposed
<1>1. w # Unload /\ w \in Saves \cup {Unload}
  BY TerminalAssumption
<1>2. ASSUME NEW x \in SaveType, sweep' = [sweep EXCEPT ![w] = x]
      PROVE  SweepTyped' /\ (Disposed' <=> Disposed)
  BY <1>1, <1>2 DEF TypeOK, SweepTyped, Disposed
<1>3. CASE SaveFails(w) \/ ReconcileUnchanged(w)
  BY <1>2, <1>3 DEF SaveFails, ReconcileUnchanged, TypeOK, SaveType
<1>4. CASE ChangeSettings(w, k)
  BY <1>2, <1>4 DEF ChangeSettings, TypeOK, SaveType
<1>5. CASE ReconcileStops(w)
  <2>1. [stage |-> "stopping", key |-> live, victims |-> Running] \in SaveType
    BY TerminalAssumption DEF SaveType, TypeOK, Running
  <2> QED BY <1>2, <1>5, <2>1 DEF ReconcileStops, TypeOK
<1>6. CASE ReconcileEnds(w)
  <2>1. sweep[w] \in SaveType /\ sweep[w].stage = "stopping"
    BY <1>6 DEF ReconcileEnds, TypeOK
  <2>2. sweep[w].key \in Keys
    BY <2>1 DEF SaveType, Idle
  <2> QED BY <1>2, <1>6, <2>2 DEF ReconcileEnds, TypeOK, SaveType
<1> QED BY <1>3, <1>4, <1>5, <1>6

-----------------------------------------------------------------------------
(* The inductive invariant.                                                *)

LEMMA InitInv == Init => Inv
<1> SUFFICES ASSUME Init PROVE Inv
  OBVIOUS
<1> USE TerminalAssumption DEF Init
<1>1. /\ call \in [Cmds -> {"none", "checking", "started", "over"}]
      /\ identity \in [Cmds -> Keys \cup {NoWork}]
      /\ child \in [Cmds -> {"none", "alive", "doomed", "held", "closed"}]
      /\ status \in [Cmds -> Statuses]
  BY DEF Statuses
<1>2. /\ interrupted \subseteq Foreground /\ finished = {} /\ records \subseteq Background
      /\ activeForeground \subseteq Foreground /\ removing \subseteq Background
      /\ live \in Keys /\ securityKey \in Keys
  OBVIOUS
<1>3. Cardinality(records) <= MaxRetainedProcesses
  <2>1. Cardinality({}) = 0 /\ MaxRetainedProcesses \in Nat
    BY FS_EmptySet
  <2> QED BY <2>1
<1>4. SweepTyped
  BY DEF SweepTyped, SaveType, UnloadType
<1>5. LifeInv /\ Reachable
  BY DEF LifeInv, Reachable, Running
<1> HIDE DEF Init
<1> QED BY <1>1, <1>2, <1>3, <1>4, <1>5 DEF Inv, TypeOK, SweepTyped

LEMMA StepInv == Inv /\ [Next]_vars => Inv'
<1> SUFFICES ASSUME Inv, [Next]_vars PROVE Inv'
  OBVIOUS
<1> USE TerminalAssumption DEF Inv
<1>1. ASSUME NEW c \in Cmds, Revalidate(c) PROVE Inv'
  <2>1. TypeOK'
    BY <1>1 DEF Revalidate, TypeOK, registry, hostVars
  <2>2. LifeInv' /\ Reachable'
    BY <1>1 DEF Revalidate, TypeOK, LifeInv, Reachable, Disposed, Running, registry, hostVars
  <2> QED BY <2>1, <2>2
<1>2. ASSUME NEW c \in Cmds, Refuse(c) PROVE Inv'
  <2>1. TypeOK'
    BY <1>2, OverEffect DEF Refuse, TypeOK, registry, hostVars
  <2>2. LifeInv' /\ Reachable'
    BY <1>2, OverEffect DEF Refuse, TypeOK, LifeInv, Reachable, Disposed, Running, registry, hostVars
  <2> QED BY <2>1, <2>2
<1>3. ASSUME NEW c \in Cmds, StartForeground(c) PROVE Inv'
  <2>1. TypeOK'
    BY <1>3 DEF StartForeground, TypeOK, hostVars
  <2>2. LifeInv' /\ Reachable'
    BY <1>3 DEF StartForeground, TypeOK, LifeInv, Reachable, Disposed, Running, Foreground, hostVars
  <2> QED BY <2>1, <2>2
<1>4. ASSUME NEW c \in Cmds, StartBackground(c) PROVE Inv'
  <2>1. PICK P \in Prunable : records' = (records \ P) \cup {c}
    BY <1>4 DEF StartBackground
  <2>2. /\ c \in Background /\ call[c] = "checking" /\ Over(c)
        /\ child' = [child EXCEPT ![c] = "alive"]
        /\ status' = [status EXCEPT ![c] = "running"]
        /\ UNCHANGED <<identity, finished, activeForeground, removing, hostVars>>
    BY <1>4 DEF StartBackground
  <2>3. c \notin finished /\ c \notin removing
    BY <2>2 DEF LifeInv, TypeOK
  <2>4. TypeOK'
    BY <2>1, <2>2, <2>3, PruneFits, OverEffect DEF TypeOK, Statuses, Prunable, hostVars
  <2>5. LifeInv'
    BY <2>2, <2>3, OverEffect DEF TypeOK, LifeInv
  <2>6. Reachable'
    <3>1. UNCHANGED <<Disposed, activeForeground>>
      BY <2>2 DEF Disposed, hostVars
    <3>2. \A d \in Running : d \in Running'
      BY <2>1, <2>2, PruneFits DEF Running, TypeOK
    <3>3. c \in Running'
      BY <2>1, <2>2 DEF Running, TypeOK
    <3> QED BY <2>2, <3>1, <3>2, <3>3 DEF Reachable, TypeOK
  <2> QED BY <2>4, <2>5, <2>6
<1>5. ASSUME NEW c \in Cmds, KillTool(c) PROVE Inv'
  <2>1. Stop({c}) /\ UNCHANGED callVars /\ UNCHANGED hostVars
    BY <1>5 DEF KillTool
  <2>2. SweepTyped' /\ live' \in Keys /\ securityKey' \in Keys /\ (Disposed' <=> Disposed)
    BY <2>1 DEF TypeOK, SweepTyped, Disposed, hostVars
  <2> QED BY <2>1, <2>2, StopInv
<1>6. ASSUME NEW c \in Cmds, ChildEnds(c) PROVE Inv'
  <2>1. /\ child' \in [Cmds -> {"none", "alive", "doomed", "held", "closed"}]
        /\ identity' \in [Cmds -> Keys \cup {NoWork}]
        /\ child'[c] = "closed" /\ child[c] # "none"
        /\ \A d \in Cmds \ {c} : child'[d] = child[d]
        /\ UNCHANGED <<records, removing, hostVars>>
    BY <1>6 DEF ChildEnds, TypeOK
  <2>2. CASE c \in Background
    <3>1. FinishRecord(c, IF status[c] = "running" THEN "exited" ELSE status[c])
          /\ UNCHANGED <<call, interrupted, activeForeground>>
      BY <1>6, <2>2 DEF ChildEnds
    <3>2. status[c] \in {"running", "exited", "killed", "timed-out"}
      BY <2>1, <2>2 DEF LifeInv, TypeOK, Statuses
    <3>3. (IF status[c] = "running" THEN "exited" ELSE status[c]) \in {"exited", "killed", "timed-out"}
      BY <3>2
    <3>4. TypeOK'
      BY <2>1, <2>2, <3>1, <3>3, FinishEffect DEF TypeOK, hostVars
    <3>5. LifeInv' /\ Reachable'
      BY <2>1, <2>2, <3>1, <3>3, FinishEffect
      DEF TypeOK, LifeInv, Reachable, Disposed, Running, hostVars
    <3> QED BY <3>4, <3>5
  <2>3. CASE c \notin Background
    <3>1. Over(c) /\ activeForeground' = activeForeground \ {c} /\ UNCHANGED <<status, finished>>
      BY <1>6, <2>3 DEF ChildEnds
    <3>2. TypeOK'
      BY <2>1, <3>1, OverEffect DEF TypeOK, hostVars
    <3>3. LifeInv' /\ Reachable'
      BY <2>1, <2>3, <3>1, OverEffect DEF TypeOK, LifeInv, Reachable, Disposed, Running, hostVars
    <3> QED BY <3>2, <3>3
  <2> QED BY <2>2, <2>3
<1>7. ASSUME NEW c \in Cmds, BackgroundTimeout(c) PROVE Inv'
  <2>1. /\ status[c] = "running" /\ Doom({c}) /\ FinishRecord(c, "timed-out")
        /\ UNCHANGED <<callVars, records, activeForeground, removing, hostVars>>
    BY <1>7 DEF BackgroundTimeout
  <2>2. c \in Background /\ c \notin finished
    BY <1>7, <2>1 DEF BackgroundTimeout, TypeOK, LifeInv
  <2>3. TypeOK'
    BY <2>1, <2>2, DoomEffect, FinishEffect DEF TypeOK, callVars, hostVars
  <2>4. LifeInv' /\ Reachable'
    BY <2>1, <2>2, DoomEffect, FinishEffect
    DEF TypeOK, LifeInv, Reachable, Disposed, Running, callVars, hostVars
  <2> QED BY <2>3, <2>4
<1>8. ASSUME NEW S, Doom(S), UNCHANGED <<call, identity, registry, hostVars>>,
             interrupted' \subseteq Foreground
      PROVE  Inv'
  <2>1. TypeOK'
    BY <1>8, DoomEffect DEF TypeOK, registry, hostVars
  <2>2. LifeInv' /\ Reachable'
    BY <1>8, DoomEffect DEF TypeOK, LifeInv, Reachable, Disposed, Running, registry, hostVars
  <2> QED BY <2>1, <2>2
<1>9. ASSUME NEW c \in Cmds, ForegroundTimeout(c) PROVE Inv'
  BY <1>8, <1>9 DEF ForegroundTimeout, callVars, TypeOK
<1>10. ASSUME NEW s \in Sessions, Interrupt(s) PROVE Inv'
  <2> DEFINE mine == {c \in Foreground : Owner[c] = s /\ call[c] \in {"checking", "started"}}
  <2>1. /\ interrupted' = interrupted \cup mine
        /\ Doom((mine \cap activeForeground) \ interrupted)
        /\ UNCHANGED <<call, identity, registry, hostVars>>
    BY <1>10 DEF Interrupt
  <2>2. interrupted' \subseteq Foreground
    BY <2>1 DEF TypeOK
  <2> QED BY <1>8, <2>1, <2>2
<1>11. ASSUME NEW c \in Cmds, Forget(c) PROVE Inv'
  <2>1. c \in records \cap finished /\ records' = records \ {c}
        /\ UNCHANGED <<callVars, child, status, finished, activeForeground, removing, hostVars>>
    BY <1>11 DEF Forget
  <2>2. Cardinality(records') <= MaxRetainedProcesses
    BY <2>1, RecordsFinite
  <2>3. TypeOK'
    BY <2>1, <2>2 DEF TypeOK, callVars, hostVars
  <2>4. LifeInv' /\ Reachable'
    BY <2>1 DEF TypeOK, LifeInv, Reachable, Disposed, Running, callVars, hostVars
  <2> QED BY <2>3, <2>4
<1>12. ASSUME NEW c \in Cmds, RemoveEnds(c) PROVE Inv'
  <2>1. /\ c \in removing /\ removing' = removing \ {c} /\ FinishRecord(c, "killed")
        /\ UNCHANGED <<callVars, child, records, activeForeground, live, securityKey>>
    BY <1>12 DEF RemoveEnds
  <2>2. c \in Background /\ SweepTyped' /\ (Disposed' <=> Disposed)
    BY <1>12, <2>1, RemoveSweep DEF TypeOK
  <2>3. TypeOK'
    BY <2>1, <2>2, FinishEffect DEF TypeOK, SweepTyped, callVars
  <2>4. LifeInv' /\ Reachable'
    BY <2>1, <2>2, FinishEffect DEF TypeOK, LifeInv, Reachable, Running, callVars
  <2> QED BY <2>3, <2>4
<1>13. ASSUME NEW s \in Sessions, Leave(s) PROVE Inv'
  <2>1. Stop({c \in Cmds : Owner[c] = s}) /\ UNCHANGED callVars /\ UNCHANGED hostVars
    BY <1>13 DEF Leave
  <2>2. SweepTyped' /\ live' \in Keys /\ securityKey' \in Keys /\ (Disposed' <=> Disposed)
    BY <2>1 DEF TypeOK, SweepTyped, Disposed, hostVars
  <2> QED BY <2>1, <2>2, StopInv
<1>14. ASSUME NEW w \in Saves, NEW k \in Keys,
              SaveFails(w) \/ ChangeSettings(w, k) \/ ReconcileUnchanged(w) \/ ReconcileEnds(w)
       PROVE  Inv'
  <2>1. UNCHANGED <<callVars, child, registry>>
    BY <1>14 DEF SaveFails, ChangeSettings, ReconcileUnchanged, ReconcileEnds
  <2>2. TypeOK'
    BY <1>14, <2>1, HostStep DEF TypeOK, SweepTyped, callVars, registry
  <2>3. LifeInv' /\ Reachable'
    BY <1>14, <2>1, HostStep DEF LifeInv, Reachable, Running, callVars, registry
  <2> QED BY <2>2, <2>3
<1>15. ASSUME NEW w \in Saves, ReconcileStops(w) PROVE Inv'
  <2>1. PICK k \in Keys : TRUE
    OBVIOUS
  <2>2. Stop(Cmds) /\ UNCHANGED callVars
    BY <1>15 DEF ReconcileStops
  <2> QED BY <1>15, <2>1, <2>2, HostStep, StopInv
<1>16. CASE Dispose
  <2>1. [stage |-> "stopping", victims |-> Running] \in UnloadType
    BY DEF UnloadType, Running, TypeOK
  <2>2. /\ SweepTyped' /\ (Disposed' <=> Disposed) /\ Stop(Cmds)
        /\ UNCHANGED callVars /\ live' \in Keys /\ securityKey' \in Keys
    BY <1>16, <2>1 DEF Dispose, Attached, SweepTyped, TypeOK, Disposed, Idle
  <2> QED BY <2>2, StopInv
<1>17. CASE DisposeEnds
  <2>1. SweepTyped' /\ Disposed'
    BY <1>17 DEF DisposeEnds, SweepTyped, UnloadType, TypeOK, Disposed
  <2>2. /\ records' = {}
        /\ UNCHANGED <<callVars, child, status, finished, activeForeground, removing, live, securityKey>>
    BY <1>17 DEF DisposeEnds
  <2>3. Cardinality(records') <= MaxRetainedProcesses
    BY <2>2, RecordsFinite
  <2>4. TypeOK'
    BY <2>1, <2>2, <2>3 DEF TypeOK, SweepTyped, callVars
  <2>5. LifeInv' /\ Reachable'
    BY <2>1, <2>2 DEF LifeInv, Reachable, callVars
  <2> QED BY <2>4, <2>5
<1>18. CASE UNCHANGED vars
  <2>1. TypeOK'
    BY <1>18 DEF vars, callVars, registry, hostVars, TypeOK
  <2>2. LifeInv' /\ Reachable'
    BY <1>18 DEF vars, callVars, registry, hostVars, LifeInv, Reachable, Disposed, Running
  <2> QED BY <2>1, <2>2
<1>19. ASSUME NEW c \in Cmds, ShellLeaves(c) PROVE Inv'
  <2>1. /\ child' \in [Cmds -> {"none", "alive", "doomed", "held", "closed"}]
        /\ child'[c] = "held" /\ child[c] \in {"alive", "doomed"} /\ c \in Foreground
        /\ \A d \in Cmds \ {c} : child'[d] = child[d]
        /\ UNCHANGED <<callVars, registry, hostVars>>
    BY <1>19 DEF ShellLeaves, TypeOK
  <2>2. TypeOK'
    BY <2>1 DEF TypeOK, callVars, registry, hostVars
  <2>3. LifeInv' /\ Reachable'
    BY <2>1 DEF LifeInv, Reachable, Disposed, Running, Foreground, callVars, registry, hostVars
  <2> QED BY <2>2, <2>3
<1> QED BY <1>1, <1>2, <1>3, <1>4, <1>5, <1>6, <1>7, <1>9, <1>10, <1>11, <1>12, <1>13, <1>14,
           <1>15, <1>16, <1>17, <1>18, <1>19 DEF Next, Start, Timeout, Reconcile

\* The service's state keeps its types and the registry its limit.
THEOREM TypeCorrect == Spec => []TypeOK
<1>1. Spec => []Inv
  BY InitInv, StepInv, PTL DEF Spec
<1> QED BY <1>1, PTL DEF Inv

\* No pruning, retention timer, kill or sweep loses a live child.
THEOREM NoChildLost == Spec => []Reachable
<1>1. Spec => []Inv
  BY InitInv, StepInv, PTL DEF Spec
<1> QED BY <1>1, PTL DEF Inv

\* Whatever ends a process first, later closes, timeouts, kills and removals
\* do not change what was reported.
THEOREM EndsFinal == Spec => ReportedFinal
<1>1. Inv /\ [Next]_vars =>
        \A c \in Cmds : status[c] \notin {"none", "running"} => status'[c] = status[c]
  <2> SUFFICES ASSUME Inv, [Next]_vars, NEW c \in Cmds, status[c] \notin {"none", "running"}
               PROVE  status'[c] = status[c]
    OBVIOUS
  <2> USE TerminalAssumption DEF Inv
  <2>1. ASSUME NEW S, Stop(S) PROVE status'[c] = status[c]
    <3>1. c \notin Running
      BY DEF Running
    <3> QED BY <2>1, <3>1, StopEffect
  <2>2. CASE \/ \E d \in Cmds : KillTool(d)
             \/ \E s \in Sessions : Leave(s)
             \/ \E w \in Saves : ReconcileStops(w)
             \/ Dispose
    BY <2>1, <2>2 DEF KillTool, Leave, ReconcileStops, Dispose
  <2>3. ASSUME NEW d \in Cmds, StartBackground(d) PROVE status'[c] = status[c]
    BY <2>3 DEF StartBackground, LifeInv, TypeOK
  <2>4. ASSUME NEW d \in Cmds, ChildEnds(d) PROVE status'[c] = status[c]
    <3>1. CASE d \in Background
      BY <2>4, <3>1 DEF ChildEnds, FinishRecord, TypeOK
    <3>2. CASE d \notin Background
      BY <2>4, <3>2 DEF ChildEnds
    <3> QED BY <3>1, <3>2
  <2>5. ASSUME NEW d \in Cmds, BackgroundTimeout(d) PROVE status'[c] = status[c]
    BY <2>5 DEF BackgroundTimeout, FinishRecord, TypeOK
  <2>6. ASSUME NEW d \in Cmds, RemoveEnds(d) PROVE status'[c] = status[c]
    <3>1. FinishRecord(d, "killed") /\ (d \in finished \/ status[d] = "killed")
      BY <2>6 DEF RemoveEnds, LifeInv
    <3> QED BY <3>1 DEF FinishRecord, TypeOK
  <2>7. CASE \/ \E d \in Cmds : \/ Revalidate(d) \/ Refuse(d) \/ StartForeground(d)
                                \/ ForegroundTimeout(d) \/ Forget(d) \/ ShellLeaves(d)
             \/ \E s \in Sessions : Interrupt(s)
             \/ \E w \in Saves : \/ SaveFails(w) \/ ReconcileUnchanged(w) \/ ReconcileEnds(w)
                                 \/ \E k \in Keys : ChangeSettings(w, k)
             \/ DisposeEnds \/ UNCHANGED vars
    BY <2>7 DEF Revalidate, Refuse, StartForeground, ForegroundTimeout, Forget, ShellLeaves, Interrupt,
                SaveFails, ReconcileUnchanged, ReconcileEnds, ChangeSettings, DisposeEnds,
                vars, registry
  <2> QED BY <2>2, <2>3, <2>4, <2>5, <2>6, <2>7 DEF Next, Start, Timeout, Reconcile
<1> QED BY <1>1, InitInv, StepInv, PTL DEF Spec, ReportedFinal

-----------------------------------------------------------------------------
(* The quotas.                                                             *)

Mine(s) == {c \in Cmds : Owner[c] = s}

\* While the service is not disposed the records it counts respect the quotas.
CountInv ==
    /\ ~Disposed =>
         /\ Cardinality(Running) <= MaxGlobalProcesses
         /\ \A s \in Sessions : Cardinality(Running \cap Mine(s)) <= MaxSessionProcesses
    /\ Cardinality(activeForeground) <= MaxGlobalForeground
    /\ \A s \in Sessions : Cardinality(activeForeground \cap Mine(s)) <= MaxSessionForeground

\* A subset of what respects a quota respects it.
LEMMA Fewer ==
    ASSUME NEW S, S \subseteq Cmds, NEW T, T \subseteq S, NEW n \in Nat, Cardinality(S) <= n
    PROVE  Cardinality(T) <= n
<1>1. IsFiniteSet(S) /\ IsFiniteSet(T)
  BY FS_Subset, TerminalAssumption
<1>2. Cardinality(T) <= Cardinality(S) /\ Cardinality(T) \in Nat /\ Cardinality(S) \in Nat
  BY <1>1, FS_Subset, FS_CardinalityType
<1> QED BY <1>2

\* One more than fewer than a quota respects it.
LEMMA OneMore ==
    ASSUME NEW S, S \subseteq Cmds, NEW c, NEW T, T \subseteq S \cup {c}, c \in Cmds,
           NEW n \in Nat, Cardinality(S) < n
    PROVE  Cardinality(T) <= n
<1>1. IsFiniteSet(S)
  BY FS_Subset, TerminalAssumption
<1>2. Cardinality(S) \in Nat
  BY <1>1, FS_CardinalityType
<1>3. Cardinality(S \cup {c}) = IF c \in S THEN Cardinality(S) ELSE Cardinality(S) + 1
  BY <1>1, FS_AddElement
<1>4. Cardinality(S \cup {c}) <= n
  BY <1>2, <1>3
<1> QED BY <1>4, Fewer

\* A step that spawns nothing keeps every quota.
LEMMA Shrinks ==
    ASSUME Inv, CountInv, QuotaHeld, Running' \subseteq Running,
           activeForeground' \subseteq activeForeground,
           \A c \in Cmds : child'[c] = "alive" => child[c] = "alive",
           Disposed => Disposed'
    PROVE  CountInv' /\ QuotaHeld'
<1> USE TerminalAssumption DEF Inv
<1>1. Running \subseteq Cmds /\ activeForeground \subseteq Cmds
  BY DEF Running, TypeOK, Foreground
<1>2. CountInv'
  <2>1. ASSUME ~Disposed' PROVE Cardinality(Running)' <= MaxGlobalProcesses
    BY <1>1, <2>1, Fewer DEF CountInv
  <2>2. ASSUME ~Disposed', NEW s \in Sessions
        PROVE  Cardinality(Running \cap Mine(s))' <= MaxSessionProcesses
    <3>1. (Running \cap Mine(s))' \subseteq Running \cap Mine(s) /\ Running \cap Mine(s) \subseteq Cmds
      BY <1>1 DEF Mine
    <3> QED BY <2>2, <3>1, Fewer DEF CountInv
  <2>3. Cardinality(activeForeground') <= MaxGlobalForeground
    BY <1>1, Fewer DEF CountInv
  <2>4. ASSUME NEW s \in Sessions
        PROVE  Cardinality(activeForeground' \cap Mine(s)) <= MaxSessionForeground
    <3>1. activeForeground' \cap Mine(s) \subseteq activeForeground \cap Mine(s)
          /\ activeForeground \cap Mine(s) \subseteq Cmds
      BY <1>1
    <3> QED BY <3>1, Fewer DEF CountInv
  <2> QED BY <2>1, <2>2, <2>3, <2>4 DEF CountInv, Mine
<1>3. QuotaHeld'
  <2>1. ASSUME NEW S, S \subseteq Cmds, NEW n \in Nat, Cardinality(LiveChildren(S)) <= n
        PROVE  Cardinality(LiveChildren(S)') <= n
    <3>1. LiveChildren(S)' \subseteq LiveChildren(S) /\ LiveChildren(S) \subseteq Cmds
      BY <2>1 DEF LiveChildren
    <3> QED BY <2>1, <3>1, Fewer
  <2>2. Cardinality(LiveChildren(Background)') <= MaxGlobalProcesses
    BY <2>1 DEF QuotaHeld
  <2>3. Cardinality(LiveChildren(Foreground)') <= MaxGlobalForeground
    BY <2>1 DEF QuotaHeld, Foreground
  <2>4. ASSUME NEW s \in Sessions
        PROVE  /\ Cardinality(LiveChildren(Background \cap Mine(s))') <= MaxSessionProcesses
               /\ Cardinality(LiveChildren(Foreground \cap Mine(s))') <= MaxSessionForeground
    <3>1. /\ Cardinality(LiveChildren(Background \cap Mine(s))) <= MaxSessionProcesses
          /\ Cardinality(LiveChildren(Foreground \cap Mine(s))) <= MaxSessionForeground
      BY DEF QuotaHeld, Mine
    <3> QED BY <2>1, <3>1 DEF Foreground
  <2> QED BY <2>2, <2>3, <2>4 DEF QuotaHeld, Mine, Foreground
<1> QED BY <1>2, <1>3

\* The live children are among what the service counts.
LEMMA LiveCounted ==
    ASSUME Inv
    PROVE  \A S : /\ ~Disposed => LiveChildren(Background \cap S) \subseteq Running \cap S
                  /\ LiveChildren(Foreground \cap S) \subseteq activeForeground \cap S
BY TerminalAssumption DEF Inv, Reachable, LiveChildren, Foreground

\* What is counted within the quotas is alive within the quotas.
LEMMA CountedHeld ==
    ASSUME Inv, CountInv
    PROVE  /\ ~Disposed =>
                /\ Cardinality(LiveChildren(Background)) <= MaxGlobalProcesses
                /\ \A s \in Sessions :
                      Cardinality(LiveChildren(Background \cap Mine(s))) <= MaxSessionProcesses
           /\ Cardinality(LiveChildren(Foreground)) <= MaxGlobalForeground
           /\ \A s \in Sessions :
                Cardinality(LiveChildren(Foreground \cap Mine(s))) <= MaxSessionForeground
<1> USE TerminalAssumption
<1>1. Running \subseteq Cmds /\ activeForeground \subseteq Cmds
  BY DEF Running, Inv, TypeOK, Foreground
<1>2. ASSUME ~Disposed PROVE Cardinality(LiveChildren(Background)) <= MaxGlobalProcesses
  <2>1. LiveChildren(Background) \subseteq Running
    BY <1>2 DEF Inv, Reachable, LiveChildren
  <2> QED BY <1>1, <1>2, <2>1, Fewer DEF CountInv
<1>3. ASSUME ~Disposed, NEW s \in Sessions
      PROVE  Cardinality(LiveChildren(Background \cap Mine(s))) <= MaxSessionProcesses
  <2>1. LiveChildren(Background \cap Mine(s)) \subseteq Running \cap Mine(s)
        /\ Running \cap Mine(s) \subseteq Cmds
    BY <1>1, <1>3, LiveCounted
  <2> QED BY <1>3, <2>1, Fewer DEF CountInv
<1>4. Cardinality(LiveChildren(Foreground)) <= MaxGlobalForeground
  <2>1. LiveChildren(Foreground) \subseteq activeForeground
    BY DEF Inv, Reachable, LiveChildren, Foreground
  <2> QED BY <1>1, <2>1, Fewer DEF CountInv
<1>5. ASSUME NEW s \in Sessions
      PROVE  Cardinality(LiveChildren(Foreground \cap Mine(s))) <= MaxSessionForeground
  <2>1. LiveChildren(Foreground \cap Mine(s)) \subseteq activeForeground \cap Mine(s)
        /\ activeForeground \cap Mine(s) \subseteq Cmds
    BY <1>1, LiveCounted
  <2> QED BY <2>1, Fewer DEF CountInv
<1> QED BY <1>2, <1>3, <1>4, <1>5

\* The counts and the quotas together are inductive, given Inv.
LEMMA InitQuota == Init => CountInv /\ QuotaHeld
<1> SUFFICES ASSUME Init PROVE CountInv /\ QuotaHeld
  OBVIOUS
<1>1. Running = {} /\ activeForeground = {} /\ \A S : LiveChildren(S \cap Cmds) = {}
  BY DEF Init, Running, LiveChildren
<1>2. LiveChildren(Background) = {} /\ LiveChildren(Foreground) = {}
      /\ \A s \in Sessions : /\ LiveChildren(Background \cap Mine(s)) = {}
                            /\ LiveChildren(Foreground \cap Mine(s)) = {}
  BY TerminalAssumption DEF Init, LiveChildren, Foreground
<1>3. Cardinality({}) = 0
  BY FS_EmptySet
<1>4. \A s \in Sessions : Running \cap Mine(s) = {} /\ activeForeground \cap Mine(s) = {}
  BY <1>1
<1>5. CountInv
  BY <1>1, <1>3, <1>4, TerminalAssumption DEF CountInv
<1>6. QuotaHeld
  <2>1. /\ Cardinality(LiveChildren(Background)) <= MaxGlobalProcesses
        /\ Cardinality(LiveChildren(Foreground)) <= MaxGlobalForeground
    BY <1>2, <1>3, TerminalAssumption
  <2>2. ASSUME NEW s \in Sessions
        PROVE  /\ Cardinality(LiveChildren(Background \cap Mine(s))) <= MaxSessionProcesses
               /\ Cardinality(LiveChildren(Foreground \cap Mine(s))) <= MaxSessionForeground
    <3>1. LiveChildren(Background \cap Mine(s)) = {}
      BY <1>2, <2>2, Zenon
    <3>2. LiveChildren(Foreground \cap Mine(s)) = {}
      BY <1>2, <2>2, Zenon
    <3>3. 0 <= MaxSessionProcesses /\ 0 <= MaxSessionForeground
      BY TerminalAssumption
    <3> QED BY <1>3, <3>1, <3>2, <3>3
  <2> QED BY <2>1, <2>2 DEF QuotaHeld, Mine
<1> QED BY <1>5, <1>6

\* The checks before a spawn are made on the state the spawn happens in.
LEMMA StartQuota ==
    ASSUME Inv, Inv', CountInv, QuotaHeld, NEW c \in Cmds, Start(c)
    PROVE  CountInv' /\ QuotaHeld'
<1> USE TerminalAssumption
<1>1. Running \subseteq Cmds /\ activeForeground \subseteq Cmds /\ Owner[c] \in Sessions
  BY DEF Inv, Running, TypeOK, Foreground
<1>2. ~Disposed /\ ~Disposed'
  BY DEF Start, StartForeground, StartBackground, Disposed, hostVars
<1>3. CountInv'
  <2>1. CASE StartForeground(c)
    <3>1. /\ activeForeground' = activeForeground \cup {c} /\ Running' = Running
          /\ Cardinality(activeForeground) < MaxGlobalForeground
          /\ Cardinality(activeForeground \cap Mine(Owner[c])) < MaxSessionForeground
      <4>1. {d \in activeForeground : Owner[d] = Owner[c]} = activeForeground \cap Mine(Owner[c])
        BY <1>1 DEF Mine
      <4> QED BY <2>1, <4>1 DEF StartForeground, Running
    <3>2. Cardinality(activeForeground') <= MaxGlobalForeground
      BY <1>1, <3>1, OneMore
    <3>3. ASSUME NEW s \in Sessions
          PROVE  Cardinality(activeForeground' \cap Mine(s)) <= MaxSessionForeground
      <4>1. CASE s = Owner[c]
        <5>1. activeForeground' \cap Mine(s) \subseteq (activeForeground \cap Mine(s)) \cup {c}
              /\ activeForeground \cap Mine(s) \subseteq Cmds
          BY <1>1, <3>1
        <5> QED BY <3>1, <4>1, <5>1, OneMore
      <4>2. CASE s # Owner[c]
        <5>1. activeForeground' \cap Mine(s) = activeForeground \cap Mine(s)
          BY <3>1, <4>2 DEF Mine
        <5> QED BY <5>1 DEF CountInv
      <4> QED BY <4>1, <4>2
    <3>4. /\ Cardinality(Running') <= MaxGlobalProcesses
          /\ \A s \in Sessions : Cardinality(Running' \cap Mine(s)) <= MaxSessionProcesses
      BY <1>2, <3>1 DEF CountInv
    <3> QED BY <3>2, <3>3, <3>4 DEF CountInv, Mine
  <2>2. CASE StartBackground(c)
    <3>1. /\ activeForeground' = activeForeground /\ Running' \subseteq Running \cup {c}
          /\ Cardinality(Running) < MaxGlobalProcesses
          /\ Cardinality(Running \cap Mine(Owner[c])) < MaxSessionProcesses
      <4>1. {d \in Running : Owner[d] = Owner[c]} = Running \cap Mine(Owner[c])
        BY <1>1 DEF Mine
      <4>2. Running' \subseteq Running \cup {c}
        BY <2>2 DEF StartBackground, Running, Inv, TypeOK
      <4> QED BY <2>2, <4>1, <4>2 DEF StartBackground, HasRoom
    <3>2. Cardinality(Running') <= MaxGlobalProcesses
      BY <1>1, <3>1, OneMore
    <3>3. ASSUME NEW s \in Sessions
          PROVE  Cardinality(Running' \cap Mine(s)) <= MaxSessionProcesses
      <4>1. Running \cap Mine(s) \subseteq Cmds
        BY <1>1
      <4>2. CASE s = Owner[c]
        <5>1. Running' \cap Mine(s) \subseteq (Running \cap Mine(s)) \cup {c}
          BY <3>1
        <5> QED BY <3>1, <4>1, <4>2, <5>1, OneMore
      <4>3. CASE s # Owner[c]
        <5>1. Running' \cap Mine(s) \subseteq Running \cap Mine(s)
          BY <3>1, <4>3 DEF Mine
        <5> QED BY <1>2, <4>1, <5>1, Fewer DEF CountInv
      <4> QED BY <4>2, <4>3
    <3> QED BY <3>1, <3>2, <3>3 DEF CountInv, Mine
  <2> QED BY <2>1, <2>2 DEF Start
<1>4. QuotaHeld'
  <2>1. (/\ ~Disposed =>
              /\ Cardinality(LiveChildren(Background)) <= MaxGlobalProcesses
              /\ \A s \in Sessions :
                    Cardinality(LiveChildren(Background \cap Mine(s))) <= MaxSessionProcesses
         /\ Cardinality(LiveChildren(Foreground)) <= MaxGlobalForeground
         /\ \A s \in Sessions :
              Cardinality(LiveChildren(Foreground \cap Mine(s))) <= MaxSessionForeground)'
    BY <1>3, CountedHeld, PTL
  <2> QED BY <1>2, <2>1 DEF QuotaHeld, Mine
<1> QED BY <1>3, <1>4

LEMMA StepQuota == Inv /\ Inv' /\ CountInv /\ QuotaHeld /\ [Next]_vars => CountInv' /\ QuotaHeld'
<1> SUFFICES ASSUME Inv, Inv', CountInv, QuotaHeld, [Next]_vars PROVE CountInv' /\ QuotaHeld'
  OBVIOUS
<1> USE TerminalAssumption DEF Inv
<1>1. ASSUME NEW S, Stop(S), Disposed => Disposed' PROVE CountInv' /\ QuotaHeld'
  <2>1. Running' \subseteq Running
    BY <1>1, StopEffect DEF Running, TypeOK
  <2> QED BY <1>1, <2>1, StopEffect, Shrinks
<1>2. CASE \/ \E c \in Cmds : KillTool(c)
           \/ \E s \in Sessions : Leave(s)
           \/ \E w \in Saves : ReconcileStops(w)
           \/ Dispose
  <2>1. (\E S : Stop(S)) /\ (Disposed => Disposed')
    <3>1. ASSUME NEW c \in Cmds, KillTool(c) PROVE (\E S : Stop(S)) /\ (Disposed => Disposed')
      BY <3>1 DEF KillTool, Disposed, hostVars
    <3>2. ASSUME NEW s \in Sessions, Leave(s) PROVE (\E S : Stop(S)) /\ (Disposed => Disposed')
      BY <3>2 DEF Leave, Disposed, hostVars
    <3>3. ASSUME NEW w \in Saves, ReconcileStops(w)
          PROVE  (\E S : Stop(S)) /\ (Disposed => Disposed')
      <4>1. PICK k \in Keys : TRUE
        OBVIOUS
      <4>2. Disposed' <=> Disposed
        BY <3>3, <4>1, HostStep
      <4> QED BY <3>3, <4>2 DEF ReconcileStops
    <3>4. CASE Dispose
      <4>1. ~Disposed
        BY <3>4 DEF Dispose, Attached, Disposed, Idle
      <4> QED BY <3>4, <4>1 DEF Dispose
    <3> QED BY <1>2, <3>1, <3>2, <3>3, <3>4
  <2> QED BY <1>1, <2>1
<1>3. ASSUME NEW c \in Cmds, ChildEnds(c) PROVE CountInv' /\ QuotaHeld'
  <2>1. activeForeground' \subseteq activeForeground /\ (Disposed => Disposed')
        /\ \A d \in Cmds : child'[d] = "alive" => child[d] = "alive"
    BY <1>3 DEF ChildEnds, TypeOK, Disposed, hostVars
  <2>2. Running' \subseteq Running
    <3>1. CASE c \in Background
      BY <1>3, <3>1 DEF ChildEnds, FinishRecord, Running, TypeOK
    <3>2. CASE c \notin Background
      BY <1>3, <3>2 DEF ChildEnds, Running
    <3> QED BY <3>1, <3>2
  <2> QED BY <2>1, <2>2, Shrinks
<1>4. ASSUME NEW c \in Cmds, Timeout(c) PROVE CountInv' /\ QuotaHeld'
  <2>1. /\ activeForeground' = activeForeground /\ (Disposed => Disposed') /\ Doom({c})
        /\ records' = records
        /\ UNCHANGED status \/ FinishRecord(c, "timed-out")
    BY <1>4 DEF Timeout, BackgroundTimeout, ForegroundTimeout, Disposed, hostVars, registry
  <2>2. Running' \subseteq Running
    BY <2>1 DEF FinishRecord, Running, TypeOK
  <2> QED BY <2>1, <2>2, DoomEffect, Shrinks
<1>5. ASSUME NEW c \in Cmds, RemoveEnds(c) PROVE CountInv' /\ QuotaHeld'
  <2>1. activeForeground' = activeForeground /\ child' = child /\ (Disposed' <=> Disposed)
        /\ records' = records /\ FinishRecord(c, "killed")
    BY <1>5, RemoveSweep DEF RemoveEnds
  <2>2. Running' \subseteq Running
    BY <2>1 DEF FinishRecord, Running, TypeOK
  <2> QED BY <2>1, <2>2, Shrinks
<1>6. ASSUME NEW s \in Sessions, Interrupt(s) PROVE CountInv' /\ QuotaHeld'
  <2>1. /\ UNCHANGED registry /\ (Disposed => Disposed')
        /\ \E S : Doom(S)
    BY <1>6 DEF Interrupt, Disposed, hostVars
  <2>2. Running' = Running /\ activeForeground' = activeForeground
    BY <2>1 DEF Running, registry
  <2> QED BY <2>1, <2>2, DoomEffect, Shrinks
<1>7. ASSUME NEW w \in Saves, NEW k \in Keys,
             SaveFails(w) \/ ChangeSettings(w, k) \/ ReconcileUnchanged(w) \/ ReconcileEnds(w)
      PROVE  CountInv' /\ QuotaHeld'
  <2>1. UNCHANGED <<child, registry>> /\ (Disposed' <=> Disposed)
    BY <1>7, HostStep DEF SaveFails, ChangeSettings, ReconcileUnchanged, ReconcileEnds
  <2>2. Running' = Running /\ activeForeground' = activeForeground
    BY <2>1 DEF Running, registry
  <2> QED BY <2>1, <2>2, Shrinks
<1>8. CASE \/ \E c \in Cmds : Revalidate(c) \/ Refuse(c) \/ Forget(c)
           \/ DisposeEnds \/ UNCHANGED vars
  <2>1. /\ child' = child /\ activeForeground' = activeForeground
        /\ status' = status /\ records' \subseteq records /\ (Disposed => Disposed')
    BY <1>8 DEF Revalidate, Refuse, Forget, DisposeEnds, vars, Disposed, TypeOK, registry, hostVars
  <2>2. Running' \subseteq Running
    BY <2>1 DEF Running
  <2> QED BY <2>1, <2>2, Shrinks
<1>9. ASSUME NEW c \in Cmds, ShellLeaves(c) PROVE CountInv' /\ QuotaHeld'
  <2>1. /\ UNCHANGED registry /\ (Disposed => Disposed')
        /\ \A d \in Cmds : child'[d] = "alive" => child[d] = "alive"
    BY <1>9 DEF ShellLeaves, TypeOK, Disposed, hostVars
  <2>2. Running' = Running /\ activeForeground' = activeForeground
    BY <2>1 DEF Running, registry
  <2> QED BY <2>1, <2>2, Shrinks
<1> QED BY <1>2, <1>3, <1>4, <1>5, <1>6, <1>7, <1>8, <1>9, StartQuota DEF Next, Reconcile

\* The quotas bound the live children of a chat and of the plugin, also while
\* some of them are being stopped and after the plugin is unloaded.
THEOREM QuotasHold == Spec => []QuotaHeld
<1>1. Spec => [](Inv /\ CountInv /\ QuotaHeld)
  BY InitInv, StepInv, InitQuota, StepQuota, PTL DEF Spec
<1> QED BY <1>1, PTL
-----------------------------------------------------------------------------
\* A set of numbers that is not empty has a smallest.
LEMMA LeastOf ==
    ASSUME NEW S \in SUBSET Nat, S # {}
    PROVE  \E x \in S : \A y \in S : x <= y
<1>1. PICK x \in S : \A y \in S : ~ (<<y, x>> \in OpToRel(<, Nat))
  BY NatLessThanWellFounded, WFMin
<1>2. \A y \in S : ~ (y < x)
  BY <1>1 DEF OpToRel
<1>3. QED
  BY <1>2


\* A set of numbers below a bound that is not empty has a largest.
LEMMA LargestOf ==
    ASSUME NEW n \in Nat, NEW S \in SUBSET (0 .. n), S # {}
    PROVE  \E x \in S : \A y \in S : x >= y
<1> DEFINE T == {n - x : x \in S}
<1>1. T \in SUBSET Nat /\ T # {}
  <2>1. \A x \in S : n - x \in Nat
    OBVIOUS
  <2>2. QED
    BY <2>1
<1>2. \E t \in T : \A u \in T : ~ (<<u, t>> \in OpToRel(<, Nat))
  BY <1>1, NatLessThanWellFounded, WFMin
<1>3. PICK t \in T : \A u \in T : ~ (u < t)
  BY <1>1, <1>2 DEF OpToRel
<1>4. PICK x \in S : t = n - x
  BY <1>3
<1>5. \A y \in S : x >= y
  <2>1. ASSUME NEW y \in S PROVE x >= y
    <3>1. n - y \in T
      OBVIOUS
    <3>2. ~ (n - y < n - x)
      BY <1>3, <1>4, <3>1
    <3>3. x \in Int /\ y \in Int
      OBVIOUS
    <3>4. QED
      BY <3>2, <3>3
  <2>2. QED
    BY <2>1
<1>6. QED
  BY <1>5

-----------------------------------------------------------------------------
(* Places.                                                                 *)

LEMMA RankIsNat ==
    ASSUME NEW n \in Nat, NEW P \in SUBSET (1 .. n), NEW i \in Int
    PROVE  /\ IsFiniteSet({j \in P : j <= i}) /\ Rank(P, i) \in Nat /\ Rank(P, i) <= Cardinality(P)
           /\ IsFiniteSet(P) /\ Cardinality(P) \in Nat
<1> DEFINE A == {j \in P : j <= i}
<1>1. IsFiniteSet(1 .. n)
  BY FS_Interval
<1>2. IsFiniteSet(P)
  BY <1>1, FS_Subset
<1>3. A \in SUBSET P
  OBVIOUS
<1>4. IsFiniteSet(A) /\ Cardinality(A) <= Cardinality(P)
  BY <1>2, <1>3, FS_Subset
<1>5. Cardinality(P) \in Nat /\ Cardinality(A) \in Nat
  BY <1>2, <1>4, FS_CardinalityType
<1>6. Rank(P, i) = Cardinality(A)
  BY DEF Rank
<1>7. QED
  BY <1>2, <1>4, <1>5, <1>6

\* One number further the rank grows by one, at a place, or not at all.
LEMMA RankStep ==
    ASSUME NEW n \in Nat, NEW P \in SUBSET (1 .. n), NEW i \in Int
    PROVE  Rank(P, i) = IF i \in P THEN Rank(P, i - 1) + 1 ELSE Rank(P, i - 1)
<1> DEFINE A == {j \in P : j <= i - 1}
           B == {j \in P : j <= i}
<1>1. i - 1 \in Int /\ \A j \in P : j \in Int
  OBVIOUS
<1>2. IsFiniteSet(A)
  BY <1>1, RankIsNat
<1>3. \A j \in P : j <= i <=> j <= i - 1 \/ j = i
  BY <1>1
<1>4. i \notin A
  BY <1>1
<1>5. Rank(P, i) = Cardinality(B) /\ Rank(P, i - 1) = Cardinality(A)
  BY DEF Rank
<1>6. CASE i \in P
  <2>1. B = A \cup {i}
    <3>1. i <= i
      OBVIOUS
    <3>2. QED
      BY <1>3, <1>6, <3>1
  <2> HIDE DEF A, B
  <2>2. Cardinality(B) = Cardinality(A) + 1
    BY <1>2, <1>4, <2>1, FS_AddElement
  <2>3. QED
    BY <1>5, <1>6, <2>2
<1>7. CASE i \notin P
  <2>1. B = A
    BY <1>3, <1>7
  <2>2. QED
    BY <1>5, <1>7, <2>1
<1>8. QED
  BY <1>6, <1>7

\* Later places have larger ranks.
LEMMA RankGrows ==
    ASSUME NEW n \in Nat, NEW P \in SUBSET (1 .. n), NEW i \in P, NEW j \in P, i < j
    PROVE  Rank(P, i) < Rank(P, j)
<1> DEFINE A == {k \in P : k <= i}
           B == {k \in P : k <= j - 1}
<1>1. i \in Int /\ j \in Int /\ j - 1 \in Int /\ i <= j - 1 /\ \A k \in P : k \in Int
  OBVIOUS
<1>2. A \in SUBSET B
  <2>1. \A k \in P : k <= i => k <= j - 1
    BY <1>1
  <2>2. QED
    BY <2>1
<1>3. IsFiniteSet(B) /\ Rank(P, i) \in Nat /\ Rank(P, j - 1) \in Nat
  BY <1>1, RankIsNat
<1>4. Cardinality(A) <= Cardinality(B)
  <2> HIDE DEF A, B
  <2>1. QED
    BY <1>2, <1>3, FS_Subset
<1>5. Rank(P, i) <= Rank(P, j - 1)
  BY <1>4 DEF Rank
<1>6. Rank(P, j) = Rank(P, j - 1) + 1
  BY <1>1, RankStep
<1>7. QED
  BY <1>3, <1>5, <1>6

\* Every number up to the size of P is the rank of one place, and every place
\* has such a rank.
LEMMA PlaceOf ==
    ASSUME NEW n \in Nat, NEW P \in SUBSET (1 .. n), NEW k \in 1 .. Cardinality(P)
    PROVE  \E i \in P : Rank(P, i) = k
<1> DEFINE T == {m \in Nat : Rank(P, m) >= k}
<1>1. Rank(P, n) = Cardinality(P)
  <2>1. \A j \in P : j <= n
    OBVIOUS
  <2>2. {j \in P : j <= n} = P
    BY <2>1
  <2>3. QED
    BY <2>2 DEF Rank
<1>2. Cardinality(P) \in Nat
  <2>1. n \in Int
    OBVIOUS
  <2>2. QED
    BY <2>1, RankIsNat
<1>3. n \in T
  BY <1>1, <1>2
<1>4. PICK m \in T : \A y \in T : m <= y
  BY <1>3, LeastOf
<1>5. m \in Nat /\ Rank(P, m) >= k
  BY <1>4
<1>6. Rank(P, 0) = 0
  <2>1. \A j \in P : ~ (j <= 0)
    OBVIOUS
  <2>2. {j \in P : j <= 0} = {}
    BY <2>1
  <2>3. QED
    BY <2>2, FS_EmptySet DEF Rank
<1>7. m # 0
  BY <1>5, <1>6
<1>8. m - 1 \in Nat /\ m - 1 \notin T
  BY <1>4, <1>5, <1>7
<1>9. Rank(P, m - 1) \in Nat /\ Rank(P, m) \in Nat /\ Rank(P, m - 1) < k
  <2>1. m \in Int /\ m - 1 \in Int
    BY <1>5
  <2>2. Rank(P, m - 1) \in Nat /\ Rank(P, m) \in Nat
    BY <2>1, RankIsNat
  <2>3. ~ (Rank(P, m - 1) >= k)
    BY <1>8
  <2>4. k \in Int
    BY <1>2
  <2>5. QED
    BY <2>2, <2>3, <2>4
<1>10. Rank(P, m) = IF m \in P THEN Rank(P, m - 1) + 1 ELSE Rank(P, m - 1)
  BY <1>5, RankStep
<1>11. m \in P /\ Rank(P, m) = k
  BY <1>5, <1>9, <1>10
<1>12. QED
  BY <1>11

\* What the filter returns: as many elements as places, each that of one place.
LEMMA KeptPlaces ==
    ASSUME NEW S, NEW s \in Seq(S), NEW n \in Nat, NEW P \in SUBSET (1 .. n), n = Len(s)
    PROVE  /\ KeepAt(s, P) \in Seq(S) /\ Len(KeepAt(s, P)) = Cardinality(P)
           /\ Cardinality(P) \in Nat
           /\ \A k \in 1 .. Cardinality(P) :
                 \E i \in P : Rank(P, i) = k /\ KeepAt(s, P)[k] = s[i]
           /\ \A i \in P : \E k \in 1 .. Cardinality(P) : Rank(P, i) = k /\ KeepAt(s, P)[k] = s[i]
<1> DEFINE at(k) == CHOOSE i \in P : Rank(P, i) = k
<1>0. \A i \in P : s[i] \in S
  OBVIOUS
<1>1. Cardinality(P) \in Nat
  <2>1. 0 \in Int
    OBVIOUS
  <2>2. QED
    BY <2>1, RankIsNat
<1>2. \A k \in 1 .. Cardinality(P) : at(k) \in P /\ Rank(P, at(k)) = k
  BY PlaceOf
<1>3. KeepAt(s, P) = [k \in 1 .. Cardinality(P) |-> s[at(k)]]
  BY DEF KeepAt
<1>4. \A k \in 1 .. Cardinality(P) : s[at(k)] \in S
  BY <1>0, <1>2
<1>5. \A i, j \in P : Rank(P, i) = Rank(P, j) => i = j
  <2>1. ASSUME NEW i \in P, NEW j \in P, Rank(P, i) = Rank(P, j) PROVE i = j
    <3>1. i \in Int /\ j \in Int
      OBVIOUS
    <3>2. Rank(P, i) \in Nat /\ Rank(P, j) \in Nat
      BY <3>1, RankIsNat
    <3>3. i < j => Rank(P, i) < Rank(P, j)
      BY RankGrows
    <3>4. j < i => Rank(P, j) < Rank(P, i)
      BY RankGrows
    <3>5. QED
      BY <2>1, <3>1, <3>2, <3>3, <3>4
  <2>2. QED
    BY <2>1
<1>6. ASSUME NEW i \in P PROVE Rank(P, i) \in 1 .. Cardinality(P) /\ at(Rank(P, i)) = i
  <2> HIDE DEF at
  <2>0. i \in Int /\ i - 1 \in Int
    OBVIOUS
  <2>1. i \in Int /\ Rank(P, i - 1) \in Nat /\ Rank(P, i) \in Nat /\ Rank(P, i) <= Cardinality(P)
    BY <2>0, RankIsNat
  <2>2. Rank(P, i) = Rank(P, i - 1) + 1
    BY <2>1, RankStep
  <2>3. Rank(P, i) \in 1 .. Cardinality(P)
    BY <1>1, <2>1, <2>2
  <2>4. at(Rank(P, i)) \in P /\ Rank(P, at(Rank(P, i))) = Rank(P, i)
    BY <1>2, <2>3
  <2>5. QED
    BY <1>5, <2>3, <2>4
<1> HIDE DEF at
<1>7. KeepAt(s, P) \in [1 .. Cardinality(P) -> S]
  BY <1>3, <1>4
<1>8. KeepAt(s, P) \in Seq(S) /\ Len(KeepAt(s, P)) = Cardinality(P)
  BY <1>1, <1>7
<1>9. \A k \in 1 .. Cardinality(P) : KeepAt(s, P)[k] = s[at(k)]
  BY <1>3
<1>10. QED
  BY <1>1, <1>2, <1>6, <1>8, <1>9

LEMMA KeptElement ==
    ASSUME NEW S, NEW s \in Seq(S), NEW n \in Nat, NEW P \in SUBSET (1 .. n), n = Len(s), NEW i \in P
    PROVE  /\ Rank(P, i) \in 1 .. Cardinality(P)
           /\ KeepAt(s, P)[Rank(P, i)] = s[i]
  BY KeptPlaces

\* A filter that keeps every place changes nothing.
LEMMA KeptWhole ==
    ASSUME NEW S, NEW s \in Seq(S), NEW n \in Nat, n = Len(s),
           NEW P \in SUBSET (1 .. n), P = 1 .. n
    PROVE  KeepAt(s, P) = s
<1>1. Len(s) \in Nat /\ \A i \in P : i \in Nat /\ 1 <= i /\ s[i] \in S
  OBVIOUS
<1>2. Cardinality(P) = Len(s)
  <2>1. Cardinality(1 .. n) = IF 1 > n THEN 0 ELSE n - 1 + 1
    <3>1. 1 \in Int /\ n \in Int
      OBVIOUS
    <3>2. QED
      BY <3>1, FS_Interval
  <2>2. QED
    BY <2>1
<1>3. ASSUME NEW i \in P PROVE Rank(P, i) = i
  <2>1. {j \in P : j <= i} = 1 .. i
    BY <1>1
  <2>2. i \in Nat /\ 1 <= i
    BY <1>1
  <2>3. Cardinality(1 .. i) = IF 1 > i THEN 0 ELSE i - 1 + 1
    BY <2>2, FS_Interval
  <2>4. Cardinality(1 .. i) = i
    BY <2>2, <2>3
  <2>5. QED
    BY <2>1, <2>4 DEF Rank
<1>5. \A i \in P : s[i] \in S
  BY <1>1
<1>6. PICK t : t = KeepAt(s, P)
  OBVIOUS
<1>7. /\ t \in Seq(S) /\ Len(t) = Cardinality(P)
      /\ \A i \in P : t[Rank(P, i)] = s[i]
  <2>1. KeepAt(s, P) \in Seq(S) /\ Len(KeepAt(s, P)) = Cardinality(P)
    BY <1>5, KeptPlaces
  <2>2. ASSUME NEW i \in P PROVE Rank(P, i) \in 1 .. Cardinality(P) /\ KeepAt(s, P)[Rank(P, i)] = s[i]
    BY KeptElement
  <2>3. QED
    BY <1>6, <2>1, <2>2
<1>8. \A i \in P : t[i] = s[i]
  BY <1>3, <1>7
<1>9. \A i \in 1 .. Len(t) : t[i] = s[i]
  BY <1>2, <1>7, <1>8
<1>10. t = s
  BY <1>2, <1>7, <1>9, SeqEqual
<1>11. QED
  BY <1>6, <1>10

-----------------------------------------------------------------------------
(* MoaPresets, for any names, slots and bounds.                            *)

\* There is a name, and the slot of the default preset is complete.
PresetBounds == Names # {} /\ Seed \in Whole /\ MaxRefs \in Nat

AnyPreset == [refs : Seq(Presets!Slots), agg : Presets!Slots, enabled : BOOLEAN]

\* A configuration of the presets in D, whatever stands in them.
ConfigOf(D) == [presets : [D -> AnyPreset], default : Names, active : Names \cup {None}]

\* The draft has a preset, and its default is one of them.
DraftSound(c, D) == D # {} /\ D \subseteq Names /\ c \in ConfigOf(D) /\ c.default \in D

\* The configuration in force is one that the tolerant read leaves as it is.
LiveSound(c, D) ==
    /\ DraftSound(c, D) /\ c.active \in D \cup {None}
    /\ \A n \in D : c.presets[n].refs \in Seq(Whole) /\ c.presets[n].refs # <<>>
                    /\ c.presets[n].agg \in Whole

PresetsInv ==
    /\ draft # None => \E D : DraftSound(draft, D)
    /\ moaLive # None => \E D : LiveSound(moaLive, D)

-----------------------------------------------------------------------------
LEMMA PresetKept == \A s, P : Presets!KeepAt(s, P) = KeepAt(s, P)
BY DEF Presets!KeepAt, KeepAt, Presets!Rank, Rank, Presets!Cardinality, Cardinality

\* The tolerant read of a preset: its complete slots, or the default one.
LEMMA NormalPresetIs ==
    ASSUME PresetBounds, NEW p \in AnyPreset
    PROVE  LET q == Presets!NormalPreset(p) IN
           /\ q \in AnyPreset /\ q.refs \in Seq(Whole) /\ q.refs # <<>> /\ q.agg \in Whole
           /\ p.refs \in Seq(Whole) /\ p.refs # <<>> /\ p.agg \in Whole => q = p
<1> DEFINE q == Presets!NormalPreset(p)
<1>1. p.refs \in Seq(Presets!Slots) /\ p.agg \in Presets!Slots /\ Whole \subseteq Presets!Slots
  BY DEF AnyPreset, Presets!Slots
<1>2. PICK n \in Nat : n = Len(p.refs)
  BY <1>1
<1>3. DOMAIN p.refs = 1 .. n
  BY <1>1, <1>2
<1>4. PICK P \in SUBSET (1 .. n) : P = {i \in DOMAIN p.refs : p.refs[i] \in Whole}
  BY <1>3
<1>5. PICK kept : kept = KeepAt(p.refs, P)
  OBVIOUS
<1>6. PICK refs : refs = IF kept = <<>> THEN <<Seed>> ELSE kept
  OBVIOUS
<1>7. q = [p EXCEPT !.refs = refs, !.agg = IF @ \in Whole THEN @ ELSE Seed]
  BY <1>4, <1>5, <1>6, PresetKept DEF Presets!NormalPreset
<1>8. kept \in Seq(Whole)
  <2>1. \A i \in P : p.refs[i] \in Whole
    BY <1>4
  <2>2. kept \in Seq(Presets!Slots) /\ Len(kept) = Cardinality(P) /\ Cardinality(P) \in Nat
    BY <1>1, <1>2, <1>5, KeptPlaces
  <2>3. \A k \in 1 .. Cardinality(P) : \E i \in P : kept[k] = p.refs[i]
    BY <1>1, <1>2, <1>5, KeptPlaces
  <2>4. \A k \in 1 .. Len(kept) : kept[k] \in Whole
    BY <2>1, <2>2, <2>3
  <2>5. QED
    BY <2>2, <2>4
<1>9. refs \in Seq(Whole) /\ refs # <<>>
  <2>1. <<Seed>> \in Seq(Whole) /\ <<Seed>> # <<>>
    BY DEF PresetBounds
  <2>2. QED
    BY <1>6, <1>8, <2>1
<1>10. refs \in Seq(Presets!Slots)
  BY <1>1, <1>9
<1>11. Seed \in Whole
  BY DEF PresetBounds
<1>12. q \in AnyPreset /\ q.refs = refs /\ q.agg \in Whole
  BY <1>1, <1>7, <1>10, <1>11 DEF AnyPreset
<1>13. ASSUME p.refs \in Seq(Whole), p.refs # <<>>, p.agg \in Whole
       PROVE  q = p
  <2>1. P = 1 .. n
    BY <1>2, <1>3, <1>4, <1>13
  <2>2. kept = p.refs
    BY <1>1, <1>2, <1>5, <2>1, KeptWhole
  <2>3. refs = p.refs
    BY <1>6, <1>13, <2>2
  <2>4. q = [p EXCEPT !.refs = p.refs, !.agg = p.agg]
    BY <1>7, <1>13, <2>3
  <2>5. QED
    BY <2>4 DEF AnyPreset
<1> HIDE DEF q
<1>14. QED
  BY <1>9, <1>12, <1>13 DEF q

LEMMA NormalConfigIs ==
    ASSUME PresetBounds, NEW D, D # {}, D \subseteq Names, NEW c \in ConfigOf(D)
    PROVE  LET d == Presets!NormalConfig(c) IN
           /\ LiveSound(d, D)
           /\ DOMAIN d.presets = D
           /\ c.default \in D => d.default = c.default
           /\ LiveSound(c, D) => d = c
           /\ (\A n \in D : c.presets[n].refs \in Seq(Whole) /\ c.presets[n].refs # <<>>
                            /\ c.presets[n].agg \in Whole) => d.presets = c.presets
<1> DEFINE d == Presets!NormalConfig(c)
<1>1. /\ c.presets \in [D -> AnyPreset] /\ c.default \in Names /\ c.active \in Names \cup {None}
      /\ DOMAIN c.presets = D
  BY DEF ConfigOf
<1>2. /\ d.presets = [n \in D |-> Presets!NormalPreset(c.presets[n])]
      /\ d.default = IF c.default \in D THEN c.default ELSE CHOOSE n \in D : TRUE
      /\ d.active = IF c.active \in D THEN c.active ELSE None
      /\ d = [presets |-> d.presets, default |-> d.default, active |-> d.active]
  BY <1>1 DEF Presets!NormalConfig
<1> HIDE DEF d
<1>3. \A n \in D : /\ d.presets[n] \in AnyPreset /\ d.presets[n].refs \in Seq(Whole) /\ d.presets[n].refs # <<>>
                   /\ d.presets[n].agg \in Whole
  BY <1>1, <1>2, NormalPresetIs
<1>4. d.presets \in [D -> AnyPreset]
  BY <1>1, <1>2, <1>3
<1>5. d.default \in D /\ d.active \in D \cup {None} /\ (c.default \in D => d.default = c.default)
  BY <1>2
<1>6. d \in ConfigOf(D)
  <2>1. d.default \in Names /\ d.active \in Names \cup {None}
    BY <1>5
  <2>2. QED
    BY <1>2, <1>4, <2>1 DEF ConfigOf
<1>7. LiveSound(d, D)
  BY <1>3, <1>5, <1>6 DEF LiveSound, DraftSound
<1>8. ASSUME \A n \in D : c.presets[n].refs \in Seq(Whole) /\ c.presets[n].refs # <<>>
                          /\ c.presets[n].agg \in Whole
      PROVE  d.presets = c.presets
  <2>1. \A n \in D : Presets!NormalPreset(c.presets[n]) = c.presets[n]
    BY <1>1, <1>8, NormalPresetIs
  <2>2. d.presets = [n \in D |-> c.presets[n]]
    BY <1>2, <2>1
  <2>3. QED
    BY <1>1, <2>2
<1>9. ASSUME LiveSound(c, D)
      PROVE  d = c
  <2>1. d.presets = c.presets
    BY <1>8, <1>9 DEF LiveSound
  <2>2. d.default = c.default
    BY <1>2, <1>9 DEF LiveSound, DraftSound
  <2>3. d.active = c.active
    BY <1>2, <1>9 DEF LiveSound
  <2>4. c = [presets |-> c.presets, default |-> c.default, active |-> c.active]
    BY DEF ConfigOf
  <2>5. QED
    BY <1>2, <2>1, <2>2, <2>3, <2>4
<1>10. DOMAIN d.presets = D
  BY <1>2
<1>11. QED
  BY <1>5, <1>7, <1>8, <1>9, <1>10 DEF d

-----------------------------------------------------------------------------
\* What the two gates let through is saved as it is.
LEMMA EditKeeps ==
    ASSUME PresetBounds, PresetsInv, NEW D, NEW d, DraftSound(d, D), NEW x \in BOOLEAN, Presets!Edited(d, x)
    PROVE  PresetsInv' /\ Presets!SavedAsEdited
<1>1. draft' = d /\ (moaLive' = moaLive \/ (Presets!Valid(d) /\ moaLive' = Presets!NormalConfig(d)))
  <2>0. draft' = d
    BY DEF Presets!Edited
  <2>1. Presets!MoaSave(d, x)
    BY DEF Presets!Edited
  <2>2. CASE Presets!Valid(d) /\ Presets!Complete(d)
    BY <2>0, <2>1, <2>2 DEF Presets!MoaSave
  <2>3. CASE ~ (Presets!Valid(d) /\ Presets!Complete(d))
    <3>1. moaLive' = moaLive
      BY <2>1, <2>3 DEF Presets!MoaSave
    <3>2. QED
      BY <2>0, <3>1
  <2>4. QED
    BY <2>2, <2>3
<1>2. D # {} /\ D \subseteq Names /\ d \in ConfigOf(D) /\ d.presets \in [D -> AnyPreset]
  BY DEF DraftSound, ConfigOf
<1>3. LiveSound(Presets!NormalConfig(d), D)
  BY <1>2, NormalConfigIs
<1>4. ASSUME Presets!Valid(d)
      PROVE  Presets!NormalConfig(d).presets = d.presets
  <2>1. ASSUME NEW n \in D
        PROVE  d.presets[n].refs \in Seq(Whole) /\ d.presets[n].refs # <<>> /\ d.presets[n].agg \in Whole
    <3>1. d.presets[n].refs \in Seq(Presets!Slots)
      BY <1>2 DEF AnyPreset
    <3>2. d.presets[n].refs # <<>> /\ Presets!ToSet(d.presets[n].refs) \subseteq Whole /\ d.presets[n].agg \in Whole
      BY <1>2, <1>4 DEF Presets!Valid, Presets!PresetValid
    <3>3. \A i \in 1 .. Len(d.presets[n].refs) : d.presets[n].refs[i] \in Whole
      BY <3>1, <3>2 DEF Presets!ToSet
    <3>4. QED
      BY <3>1, <3>2, <3>3
  <2>2. QED
    BY <1>2, <2>1, NormalConfigIs
<1>5. Presets!SavedAsEdited
  BY <1>1, <1>4 DEF Presets!SavedAsEdited
<1>6. (moaLive' # None => \E E : LiveSound(moaLive', E))
  BY <1>1, <1>3 DEF PresetsInv
<1>7. PresetsInv'
  BY <1>1, <1>6 DEF PresetsInv, DraftSound, LiveSound, ConfigOf, AnyPreset, Presets!Slots
<1>8. QED
  BY <1>5, <1>7

\* Steps that leave the draft, or drop it.
LEMMA LiveKeeps ==
    ASSUME PresetsInv, draft' = draft \/ draft' = None, moaLive' # None => \E D : LiveSound(moaLive', D)
    PROVE  PresetsInv' /\ Presets!SavedAsEdited
<1>1. draft' # None => \E D : DraftSound(draft', D)
  BY DEF PresetsInv
<1>2. PresetsInv'
  BY <1>1 DEF PresetsInv, DraftSound, LiveSound, ConfigOf, AnyPreset, Presets!Slots
<1>3. QED
  BY <1>2 DEF Presets!SavedAsEdited

\* A pick of the chat changes the active preset alone.
LEMMA ActiveSet ==
    ASSUME PresetBounds, NEW D, LiveSound(moaLive, D), NEW n \in D \cup {None}
    PROVE  LiveSound(Presets!SetActive(moaLive, n), D)
<1>1. moaLive \in ConfigOf(D) /\ D # {} /\ D \subseteq Names
  BY DEF LiveSound, DraftSound
<1>2. Presets!NormalConfig(moaLive) = moaLive
  BY <1>1, NormalConfigIs
<1>3. PICK c : c = [moaLive EXCEPT !.active = n]
  OBVIOUS
<1>4. c \in ConfigOf(D) /\ c.presets = moaLive.presets /\ c.default = moaLive.default /\ c.active = n
  BY <1>1, <1>3 DEF ConfigOf
<1>5. LiveSound(c, D)
  BY <1>1, <1>4 DEF LiveSound, DraftSound
<1>6. QED
  BY <1>2, <1>3, <1>5 DEF Presets!SetActive

LEMMA HandMadeRead ==
    ASSUME PresetBounds, NEW c \in Presets!HandMade
    PROVE  \E D : LiveSound(Presets!NormalConfig(c), D)
<1>1. Presets!FirstName \in Names
  BY DEF Presets!FirstName, PresetBounds
<1>2. Presets!Preset \subseteq AnyPreset
  <2>1. \A S, n : Presets!BoundedSeq(S, n) = UNION {[1 .. m -> S] : m \in 0 .. n}
    BY DEF Presets!BoundedSeq, Presets!SeqOf
  <2>2. Presets!BoundedSeq(Presets!Slots, MaxRefs) \subseteq Seq(Presets!Slots)
    BY <2>1 DEF PresetBounds
  <2>3. QED
    BY <2>2 DEF Presets!Preset, AnyPreset
<1>3. PICK p \in Presets!Preset : \E d \in Names, a \in Names \cup {None} :
          c = [presets |-> [n \in {Presets!FirstName} |-> p], default |-> d, active |-> a]
  BY DEF Presets!HandMade
<1>4. c \in ConfigOf({Presets!FirstName})
  BY <1>2, <1>3 DEF ConfigOf
<1>5. QED
  BY <1>1, <1>4, NormalConfigIs

-----------------------------------------------------------------------------
LEMMA PresetRemoved ==
    ASSUME NEW S, NEW s \in Seq(S), NEW i \in 1 .. Len(s)
    PROVE  Presets!RemoveAt(s, i) \in Seq(S)
<1>1. Len(s) \in Nat /\ \A k \in 1 .. Len(s) : s[k] \in S
  OBVIOUS
<1>2. SubSeq(s, 1, i - 1) \in Seq(S) /\ SubSeq(s, i + 1, Len(s)) \in Seq(S)
  BY <1>1, SubSeqProperties
<1>3. QED
  BY <1>2, ConcatProperties DEF Presets!RemoveAt

\* An edit of one preset leaves a preset.
LEMMA PresetEdited ==
    ASSUME NEW p \in AnyPreset
    PROVE  /\ [p EXCEPT !.enabled = ~@] \in AnyPreset
           /\ \A i \in DOMAIN p.refs, s \in Whole \cup {"half"} : [p EXCEPT !.refs[i] = s] \in AnyPreset
           /\ \A s \in Whole \cup {"half"} : [p EXCEPT !.agg = s] \in AnyPreset
           /\ \A i \in DOMAIN p.refs : [p EXCEPT !.refs = Presets!RemoveAt(@, i)] \in AnyPreset
           /\ [p EXCEPT !.refs = Append(@, p.agg)] \in AnyPreset
<1>1. p.refs \in Seq(Presets!Slots) /\ p.agg \in Presets!Slots /\ p.enabled \in BOOLEAN
  BY DEF AnyPreset
<1>2. Whole \cup {"half"} \subseteq Presets!Slots
  BY DEF Presets!Slots
<1>3. \A t \in Seq(Presets!Slots) : [p EXCEPT !.refs = t] \in AnyPreset
  BY DEF AnyPreset
<1>4. [p EXCEPT !.enabled = ~@] \in AnyPreset
  <2>1. PICK b \in BOOLEAN : b = ~p.enabled
    OBVIOUS
  <2>2. [p EXCEPT !.enabled = b] \in AnyPreset
    BY DEF AnyPreset
  <2>3. [p EXCEPT !.enabled = ~@] = [p EXCEPT !.enabled = b]
    BY <2>1
  <2>4. QED
    BY <2>2, <2>3
<1>5. ASSUME NEW s \in Whole \cup {"half"} PROVE [p EXCEPT !.agg = s] \in AnyPreset
  BY <1>2 DEF AnyPreset
<1>6. ASSUME NEW i \in DOMAIN p.refs, NEW s \in Whole \cup {"half"}
      PROVE  [p EXCEPT !.refs[i] = s] \in AnyPreset
  <2>1. [p.refs EXCEPT ![i] = s] \in Seq(Presets!Slots)
    BY <1>1, <1>2, ExceptSeq
  <2>2. [p EXCEPT !.refs[i] = s] = [p EXCEPT !.refs = [p.refs EXCEPT ![i] = s]]
    OBVIOUS
  <2>3. QED
    BY <1>3, <2>1, <2>2
<1>7. ASSUME NEW i \in DOMAIN p.refs
      PROVE  [p EXCEPT !.refs = Presets!RemoveAt(@, i)] \in AnyPreset
  <2>1. Presets!RemoveAt(p.refs, i) \in Seq(Presets!Slots)
    BY <1>1, PresetRemoved
  <2>2. QED
    BY <1>3, <2>1
<1>8. [p EXCEPT !.refs = Append(@, p.agg)] \in AnyPreset
  <2>1. Append(p.refs, p.agg) \in Seq(Presets!Slots)
    BY <1>1, AppendProperties
  <2>2. QED
    BY <1>3, <2>1
<1>9. QED
  BY <1>4, <1>5, <1>6, <1>7, <1>8

LEMMA EditIsPreset ==
    ASSUME NEW p \in AnyPreset, NEW q \in Presets!EditsOf(p)
    PROVE  q \in AnyPreset
<1>1. \/ q = [p EXCEPT !.enabled = ~@]
      \/ \E i \in DOMAIN p.refs, s \in Whole \cup {"half"} : q = [p EXCEPT !.refs[i] = s]
      \/ \E s \in Whole \cup {"half"} : q = [p EXCEPT !.agg = s]
      \/ \E i \in DOMAIN p.refs : q = [p EXCEPT !.refs = Presets!RemoveAt(@, i)]
      \/ q = [p EXCEPT !.refs = Append(@, p.agg)]
  BY DEF Presets!EditsOf
<1>2. CASE q = [p EXCEPT !.enabled = ~@]
  BY <1>2, PresetEdited
<1>3. CASE \E i \in DOMAIN p.refs, s \in Whole \cup {"half"} : q = [p EXCEPT !.refs[i] = s]
  <2>1. PICK i \in DOMAIN p.refs, s \in Whole \cup {"half"} : q = [p EXCEPT !.refs[i] = s]
    BY <1>3
  <2>2. [p EXCEPT !.refs[i] = s] \in AnyPreset
    BY PresetEdited
  <2>3. QED
    BY <2>1, <2>2, Zenon
<1>4. CASE \E s \in Whole \cup {"half"} : q = [p EXCEPT !.agg = s]
  BY <1>4, PresetEdited
<1>5. CASE \E i \in DOMAIN p.refs : q = [p EXCEPT !.refs = Presets!RemoveAt(@, i)]
  BY <1>5, PresetEdited
<1>6. CASE q = [p EXCEPT !.refs = Append(@, p.agg)]
  BY <1>6, PresetEdited
<1>7. QED
  BY <1>1, <1>2, <1>3, <1>4, <1>5, <1>6

LEMMA PresetsInvInit == ASSUME Presets!PresetsInit PROVE PresetsInv
BY DEF Presets!PresetsInit, PresetsInv

LEMMA PresetsNextKeeps ==
    ASSUME PresetBounds, PresetsInv, [Presets!PresetsNext]_(Presets!presetVars)
    PROVE  PresetsInv' /\ Presets!SavedAsEdited
<1> DEFINE Goal == PresetsInv' /\ Presets!SavedAsEdited
<1>1. moaLive # None => \E D : LiveSound(moaLive, D)
  BY DEF PresetsInv
<1>2. draft # None => \E D : DraftSound(draft, D)
  BY DEF PresetsInv
<1>3. ASSUME draft' = draft \/ draft' = None, moaLive' # None => \E D : LiveSound(moaLive', D) PROVE Goal
  BY <1>3, LiveKeeps
<1>4. ASSUME NEW D, NEW d, DraftSound(d, D), NEW x \in BOOLEAN, Presets!Edited(d, x) PROVE Goal
  BY <1>4, EditKeeps
<1>5. ASSUME Presets!OpenSection PROVE Goal
  <2>1. draft = None /\ moaLive' = moaLive /\ draft' = IF moaLive = None THEN Presets!Fresh ELSE Presets!NormalConfig(moaLive)
    BY <1>5 DEF Presets!OpenSection
  <2>2. \E D : DraftSound(draft', D)
    <3>1. CASE moaLive = None
      <4>1. Presets!FirstName \in Names
        BY DEF Presets!FirstName, PresetBounds
      <4>2. Presets!Fresh \in ConfigOf({Presets!FirstName}) /\ Presets!Fresh.default = Presets!FirstName
        <5>1. <<Seed>> \in Seq(Presets!Slots) /\ Seed \in Presets!Slots
          BY DEF PresetBounds, Presets!Slots
        <5>2. [refs |-> <<Seed>>, agg |-> Seed, enabled |-> TRUE] \in AnyPreset
          BY <5>1 DEF AnyPreset
        <5>3. QED
          BY <4>1, <5>2 DEF Presets!Fresh, ConfigOf
      <4>3. DraftSound(Presets!Fresh, {Presets!FirstName})
        BY <4>1, <4>2 DEF DraftSound
      <4>4. QED
        BY <2>1, <3>1, <4>3
    <3>2. CASE moaLive # None
      <4>1. PICK D : LiveSound(moaLive, D)
        BY <1>1, <3>2
      <4>2. LiveSound(Presets!NormalConfig(moaLive), D)
        BY <4>1, NormalConfigIs DEF LiveSound, DraftSound
      <4>3. QED
        BY <2>1, <3>2, <4>2 DEF LiveSound
    <3>3. QED
      BY <3>1, <3>2
  <2>3. PresetsInv'
    BY <1>1, <2>1, <2>2 DEF PresetsInv, DraftSound, LiveSound, ConfigOf, AnyPreset, Presets!Slots
  <2>4. QED
    BY <2>1, <2>3 DEF Presets!SavedAsEdited
<1>6. ASSUME draft # None
      PROVE  \E D : DraftSound(draft, D) /\ DOMAIN draft.presets = D /\ Presets!Selected \in D
  <2>1. PICK D : DraftSound(draft, D)
    BY <1>2, <1>6
  <2>2. DOMAIN draft.presets = D
    BY <2>1 DEF DraftSound, ConfigOf
  <2>3. QED
    BY <2>1, <2>2 DEF DraftSound, Presets!Selected
<1>7. ASSUME Presets!SetDefault PROVE Goal
  <2>1. draft # None /\ Presets!Edited([draft EXCEPT !.default = Presets!Selected], TRUE)
    BY <1>7 DEF Presets!SetDefault
  <2>2. PICK D : DraftSound(draft, D) /\ Presets!Selected \in D
    BY <1>6, <2>1
  <2>3. PICK d : d = [draft EXCEPT !.default = Presets!Selected]
    OBVIOUS
  <2>4. DraftSound(d, D)
    BY <2>2, <2>3 DEF DraftSound, ConfigOf
  <2>5. QED
    BY <1>4, <2>1, <2>3, <2>4
<1>8. ASSUME Presets!DeletePreset PROVE Goal
  <2> DEFINE rest == DOMAIN draft.presets \ {Presets!Selected}
             next == CHOOSE n \in rest : TRUE
  <2>1. /\ draft # None /\ Presets!Cardinality(DOMAIN draft.presets) > 1
        /\ Presets!Edited([presets |-> [n \in rest |-> draft.presets[n]],
                default |-> IF draft.default = Presets!Selected THEN next ELSE draft.default,
                active |-> IF draft.active = Presets!Selected THEN None ELSE draft.active], TRUE)
    BY <1>8 DEF Presets!DeletePreset
  <2>2. PICK D : DraftSound(draft, D) /\ DOMAIN draft.presets = D /\ Presets!Selected \in D
    BY <1>6, <2>1
  <2>3. rest # {}
    <3>1. Cardinality(D) > 1
      BY <2>1, <2>2 DEF Presets!Cardinality, Cardinality
    <3>2. Cardinality({Presets!Selected}) = 1
      BY FS_Singleton
    <3>3. D # {Presets!Selected}
      BY <3>1, <3>2
    <3>4. QED
      BY <2>2, <3>3
  <2>4. rest \subseteq D /\ D \subseteq Names /\ next \in rest
    BY <2>2, <2>3 DEF DraftSound
  <2>5. /\ draft.presets \in [D -> AnyPreset] /\ draft.default \in D
        /\ draft.active \in Names \cup {None}
    BY <2>2 DEF DraftSound, ConfigOf
  <2>6. PICK R : R = rest
    OBVIOUS
  <2>7. PICK ps : ps = [n \in R |-> draft.presets[n]]
    OBVIOUS
  <2>8. ps \in [R -> AnyPreset]
    BY <2>4, <2>5, <2>6, <2>7
  <2> HIDE DEF next, rest
  <2>9. PICK d : d = [presets |-> ps,
                      default |-> IF draft.default = Presets!Selected THEN next ELSE draft.default,
                      active |-> IF draft.active = Presets!Selected THEN None ELSE draft.active]
    OBVIOUS
  <2>10. d.default \in R
    <3>1. draft.default # Presets!Selected => draft.default \in R
      BY <2>2, <2>5, <2>6 DEF rest
    <3>2. next \in R
      BY <2>4, <2>6
    <3>3. QED
      BY <2>9, <3>1, <3>2
  <2>11. DraftSound(d, R)
    <3>1. R # {} /\ R \subseteq Names
      BY <2>3, <2>4, <2>6
    <3>2. d.default \in Names /\ d.active \in Names \cup {None} /\ d.presets = ps
      BY <2>5, <2>9, <2>10, <3>1
    <3>3. d = [presets |-> d.presets, default |-> d.default, active |-> d.active]
      BY <2>9
    <3>4. QED
      BY <2>8, <2>10, <3>1, <3>2, <3>3 DEF DraftSound, ConfigOf
  <2>12. Presets!Edited(d, TRUE)
    BY <2>1, <2>6, <2>7, <2>9
  <2>13. QED
    BY <1>4, <2>11, <2>12
<1>9. ASSUME NEW n \in Names, Presets!AddPreset(n) PROVE Goal
  <2>1. /\ draft # None
        /\ Presets!Edited([draft EXCEPT !.presets =
                [k \in DOMAIN @ \cup {n} |-> IF k = n THEN @[Presets!Selected] ELSE @[k]]], TRUE)
    BY <1>9 DEF Presets!AddPreset
  <2>2. PICK D : DraftSound(draft, D) /\ DOMAIN draft.presets = D /\ Presets!Selected \in D
    BY <1>6, <2>1
  <2>3. PICK E : E = D \cup {n}
    OBVIOUS
  <2>4. PICK ps : ps = [k \in E |-> IF k = n THEN draft.presets[Presets!Selected] ELSE draft.presets[k]]
    OBVIOUS
  <2>5. draft \in ConfigOf(D) /\ draft.presets \in [D -> AnyPreset] /\ draft.default \in D /\ D \subseteq Names
    BY <2>2 DEF DraftSound, ConfigOf
  <2>6. ps \in [E -> AnyPreset]
    BY <2>2, <2>3, <2>4, <2>5
  <2>7. PICK d : d = [draft EXCEPT !.presets = ps]
    OBVIOUS
  <2>8. d.presets = ps /\ d.default = draft.default /\ d \in ConfigOf(E)
    BY <2>5, <2>6, <2>7 DEF ConfigOf
  <2>9. DraftSound(d, E)
    BY <2>3, <2>5, <2>8 DEF DraftSound
  <2>10. Presets!Edited(d, TRUE)
    BY <2>1, <2>2, <2>3, <2>4, <2>7
  <2>11. QED
    BY <1>4, <2>9, <2>10
<1>10. ASSUME Presets!UpdatePreset PROVE Goal
  <2> DEFINE p == draft.presets[Presets!Selected]
  <2>1. draft # None
    BY <1>10 DEF Presets!UpdatePreset
  <2>2. PICK D : DraftSound(draft, D) /\ DOMAIN draft.presets = D /\ Presets!Selected \in D
    BY <1>6, <2>1
  <2>3. draft \in ConfigOf(D) /\ draft.presets \in [D -> AnyPreset] /\ draft.default \in D /\ p \in AnyPreset
    BY <2>2 DEF DraftSound, ConfigOf
  <2>4. PICK q \in Presets!EditsOf(p) :
            Presets!Edited([draft EXCEPT !.presets[Presets!Selected] = q], FALSE)
    BY <1>10 DEF Presets!UpdatePreset
  <2>5. q \in AnyPreset
    BY <2>3, EditIsPreset
  <2>6. PICK ps : ps = [draft.presets EXCEPT ![Presets!Selected] = q]
    OBVIOUS
  <2>7. ps \in [D -> AnyPreset]
    BY <2>3, <2>5, <2>6
  <2>8. PICK d : d = [draft EXCEPT !.presets = ps]
    OBVIOUS
  <2>9. d \in ConfigOf(D) /\ d.default = draft.default
    BY <2>3, <2>7, <2>8 DEF ConfigOf
  <2>10. DraftSound(d, D)
    BY <2>2, <2>3, <2>9 DEF DraftSound
  <2>11. d = [draft EXCEPT !.presets[Presets!Selected] = q]
    BY <2>3, <2>6, <2>8 DEF ConfigOf
  <2>12. Presets!Edited(d, FALSE)
    BY <2>4, <2>11
  <2>13. QED
    BY <1>4, <2>10, <2>12
<1>11. ASSUME NEW n \in Names, Presets!Select(n) PROVE Goal
  BY <1>1, <1>3, <1>11 DEF Presets!Select
<1>12. ASSUME NEW n, draft' = draft, moaLive # None, n \in DOMAIN moaLive.presets \cup {None}, moaLive' = Presets!SetActive(moaLive, n)
       PROVE  Goal
  <2>1. PICK D : LiveSound(moaLive, D)
    BY <1>1, <1>12
  <2>2. DOMAIN moaLive.presets = D
    BY <2>1 DEF LiveSound, DraftSound, ConfigOf
  <2>3. LiveSound(moaLive', D)
    BY <1>12, <2>1, <2>2, ActiveSet
  <2>4. QED
    BY <1>3, <1>12, <2>3
<1>13. ASSUME NEW n \in Names, Presets!PickPreset(n) PROVE Goal
  BY <1>12, <1>13 DEF Presets!PickPreset
<1>14. ASSUME NEW n \in Names, Presets!SlashPreset(n) PROVE Goal
  BY <1>12, <1>14 DEF Presets!SlashPreset, Presets!NamedPreset
<1>15. ASSUME Presets!PickNormal PROVE Goal
  BY <1>12, <1>15 DEF Presets!PickNormal
<1>16. ASSUME NEW c \in Presets!HandMade, draft' = draft \/ draft' = None, moaLive' = Presets!NormalConfig(c) PROVE Goal
  BY <1>3, <1>16, HandMadeRead
<1>17. ASSUME moaLive # None, draft' = None, moaLive' = Presets!NormalConfig(moaLive) PROVE Goal
  <2>1. PICK D : LiveSound(moaLive, D)
    BY <1>1, <1>17
  <2>2. LiveSound(moaLive', D)
    BY <1>17, <2>1, NormalConfigIs DEF LiveSound, DraftSound
  <2>3. QED
    BY <1>3, <1>17, <2>2
<1>18. ASSUME Presets!Restart PROVE Goal
  <2>1. draft' = None /\ \/ moaLive' = IF moaLive = None THEN None ELSE Presets!NormalConfig(moaLive)
                         \/ \E c \in Presets!HandMade : moaLive' = Presets!NormalConfig(c)
    BY <1>18 DEF Presets!Restart
  <2>2. CASE moaLive' = None
    BY <1>3, <2>1, <2>2
  <2>3. QED
    BY <1>16, <1>17, <2>1, <2>2
<1>19. ASSUME Presets!Import PROVE Goal
  <2>1. draft' = draft /\ ((\E c \in Presets!HandMade : moaLive' = Presets!NormalConfig(c)) \/ moaLive' = None)
    BY <1>19 DEF Presets!Import
  <2>2. CASE moaLive' = None
    BY <1>3, <2>1, <2>2
  <2>3. QED
    BY <1>16, <2>1, <2>2
<1>20. ASSUME UNCHANGED Presets!presetVars PROVE Goal
  BY <1>1, <1>3, <1>20 DEF Presets!presetVars
<1> HIDE DEF Goal
<1>21. Goal
  BY <1>5, <1>7, <1>8, <1>9, <1>10, <1>11, <1>13, <1>14, <1>15, <1>18, <1>19, <1>20 DEF Presets!PresetsNext
<1>22. QED
  BY <1>21 DEF Goal

LEMMA LiveIsUsable == ASSUME PresetBounds, PresetsInv PROVE Presets!PresetsUsable
<1>1. SUFFICES ASSUME moaLive # None
               PROVE  /\ Presets!Valid(moaLive) /\ moaLive.default \in DOMAIN moaLive.presets
                      /\ moaLive.active \in DOMAIN moaLive.presets \cup {None}
                      /\ Presets!NormalConfig(moaLive) = moaLive
  BY DEF Presets!PresetsUsable
<1>2. PICK D : LiveSound(moaLive, D)
  BY <1>1 DEF PresetsInv
<1>3. D # {} /\ D \subseteq Names /\ moaLive \in ConfigOf(D) /\ DOMAIN moaLive.presets = D
  BY <1>2 DEF LiveSound, DraftSound, ConfigOf
<1>4. Presets!NormalConfig(moaLive) = moaLive
  BY <1>2, <1>3, NormalConfigIs
<1>5. moaLive.default \in D /\ moaLive.active \in D \cup {None}
  BY <1>2 DEF LiveSound, DraftSound
<1>6. ASSUME NEW n \in D PROVE Presets!PresetValid(moaLive.presets[n])
  BY <1>2 DEF LiveSound, Presets!PresetValid, Presets!ToSet
<1>7. QED
  BY <1>3, <1>4, <1>5, <1>6 DEF Presets!Valid

\* For any names, slots and edits the presets in force can be run, and the next
\* start would leave them as they are (normalizeMoaConfig).
THEOREM PresetsRun ==
    ASSUME PresetBounds
    PROVE  Presets!PresetsSpec => []Presets!PresetsUsable
<1>1. Presets!PresetsInit => PresetsInv
  BY PresetsInvInit
<1>2. PresetsInv /\ [Presets!PresetsNext]_(Presets!presetVars) => PresetsInv'
  BY PresetsNextKeeps
<1>3. PresetsInv => Presets!PresetsUsable
  BY LiveIsUsable
<1>4. QED
  BY <1>1, <1>2, <1>3, PTL DEF Presets!PresetsSpec

\* An edit of the section that is saved is saved as it was made: the two gates
\* let nothing through that the tolerant read would repair (moaSave).
THEOREM PresetsSavedAsEdited ==
    ASSUME PresetBounds
    PROVE  Presets!PresetsSpec => [][Presets!SavedAsEdited]_(Presets!presetVars)
<1>1. Presets!PresetsInit => PresetsInv
  BY PresetsInvInit
<1>2. PresetsInv /\ [Presets!PresetsNext]_(Presets!presetVars) => PresetsInv'
  BY PresetsNextKeeps
<1>3. PresetsInv /\ [Presets!PresetsNext]_(Presets!presetVars) => Presets!SavedAsEdited
  BY PresetsNextKeeps
<1>4. QED
  BY <1>1, <1>2, <1>3, PTL DEF Presets!PresetsSpec

-----------------------------------------------------------------------------
(* CommandList, for any texts and any number of changes.                   *)

Cmd == [id : Nat, text : Seeds \cup Texts]

\* The seeds are finitely many, and a hole is no command.
ListBounds == IsFiniteSet(Seeds) /\ None \notin Cmd

Slot == Cmd \cup {None}

Distinct(s) == \A m, n \in DOMAIN s : (m # n /\ s[m] # None /\ s[n] # None) => s[m].id # s[n].id

Given == List!Ids(commands) \cup List!Ids(rows) \cup List!Ids(listDisk) \cup deleted

ListTyped ==
    /\ commands \in Seq(Slot) /\ listDisk \in Seq(Slot) /\ rows \in Seq(Cmd)
    /\ deleted \subseteq Nat /\ dragging \in Nat

\* A command has one id in the list and in data.json, no deleted id is in the
\* list, and all ids there are have a largest.
ListInv ==
    /\ ListTyped
    /\ Distinct(commands) /\ Distinct(listDisk)
    /\ List!DeletedStaysGone
    /\ \E top \in Nat : Given \subseteq 0 .. top

-----------------------------------------------------------------------------
LEMMA IdsWithin ==
    ASSUME ListBounds, NEW s \in Seq(Slot)
    PROVE  /\ List!Ids(s) \subseteq Nat
           /\ \A k \in 1 .. Len(s) : s[k] # None => s[k] \in Cmd /\ s[k].id \in List!Ids(s)
           /\ \A x \in List!Ids(s) : \E k \in 1 .. Len(s) : s[k] # None /\ s[k].id = x
<1>1. DOMAIN s = 1 .. Len(s) /\ \A k \in 1 .. Len(s) : s[k] \in Slot
  OBVIOUS
<1>2. \A k \in 1 .. Len(s) : s[k] # None => s[k] \in Cmd /\ s[k].id \in Nat
  BY <1>1 DEF Slot, Cmd
<1>3. QED
  BY <1>1, <1>2 DEF List!Ids

\* A new id is above all there are.
LEMMA FreshIs ==
    ASSUME ListBounds, ListInv
    PROVE  List!FreshId \in Nat /\ \A x \in Given : x \in Nat /\ x < List!FreshId
<1> DEFINE S == Given \cup {0}
<1>1. PICK top \in Nat : Given \subseteq 0 .. top
  BY DEF ListInv
<1>2. S \in SUBSET (0 .. top) /\ S # {}
  BY <1>1
<1>3. \E x \in S : \A y \in S : x >= y
  <2> HIDE DEF S
  <2>1. QED
    BY <1>1, <1>2, LargestOf
<1>4. List!FreshId = List!Max(S) + 1
  BY DEF List!FreshId, Given
<1>5. List!Max(S) \in S /\ \A y \in S : List!Max(S) >= y
  BY <1>3 DEF List!Max
<1>6. \A y \in S : y \in Nat
  BY <1>1
<1> HIDE DEF S
<1>7. List!Max(S) \in Nat
  BY <1>5, <1>6
<1>8. \A y \in S : y < List!Max(S) + 1
  BY <1>5, <1>6, <1>7
<1>9. QED
  BY <1>4, <1>6, <1>7, <1>8 DEF S

-----------------------------------------------------------------------------
(* What the changes of the list make of its commands.                      *)

LEMMA JoinedIs ==
    ASSUME NEW S, NEW a \in Seq(S), NEW b \in Seq(S)
    PROVE  /\ a \o b \in Seq(S) /\ Len(a \o b) = Len(a) + Len(b)
           /\ \A i \in 1 .. Len(a \o b) : (a \o b)[i] = IF i <= Len(a) THEN a[i] ELSE b[i - Len(a)]
<1>1. a \o b \in Seq(S) /\ Len(a \o b) = Len(a) + Len(b)
  BY ConcatProperties
<1>2. \A i \in 1 .. Len(a) + Len(b) : (a \o b)[i] = IF i <= Len(a) THEN a[i] ELSE b[i - Len(a)]
  BY ConcatProperties
<1>3. QED
  BY <1>1, <1>2

\* One element more, at place at, and one fewer.
Longer(t, s, at, e) ==
    /\ Len(t) = Len(s) + 1
    /\ \A i \in 1 .. Len(t) : t[i] = IF i < at THEN s[i] ELSE IF i = at THEN e ELSE s[i - 1]

Shorter(r, s, from) ==
    /\ Len(r) = Len(s) - 1
    /\ \A k \in 1 .. Len(r) : r[k] = IF k < from THEN s[k] ELSE s[k + 1]

LEMMA CmdInserted ==
    ASSUME NEW S, NEW s \in Seq(S), NEW e \in S, NEW at \in 1 .. Len(s) + 1
    PROVE  List!InsertAt(s, at, e) \in Seq(S) /\ Longer(List!InsertAt(s, at, e), s, at, e)
<1> DEFINE a == SubSeq(s, 1, at - 1)
           b == SubSeq(s, at, Len(s))
<1>1. Len(s) \in Nat /\ at \in Nat /\ at >= 1 /\ \A k \in 1 .. Len(s) : s[k] \in S
  OBVIOUS
<1>2. a \in Seq(S) /\ Len(a) = at - 1 /\ \A k \in 1 .. at - 1 : a[k] = s[k]
  BY <1>1, SubSeqProperties
<1>3. b \in Seq(S) /\ Len(b) = Len(s) - at + 1 /\ \A k \in 1 .. Len(s) - at + 1 : b[k] = s[at + k - 1]
  BY <1>1, SubSeqProperties
<1> HIDE DEF a, b
<1>4. PICK c : c = a \o <<e>>
  OBVIOUS
<1>5. c \in Seq(S) /\ Len(c) = at /\ \A k \in 1 .. at : c[k] = IF k < at THEN s[k] ELSE e
  <2>1. <<e>> \in Seq(S) /\ Len(<<e>>) = 1 /\ <<e>>[1] = e
    OBVIOUS
  <2>2. c \in Seq(S) /\ Len(c) = Len(a) + 1
        /\ \A k \in 1 .. Len(c) : c[k] = IF k <= Len(a) THEN a[k] ELSE <<e>>[k - Len(a)]
    BY <1>2, <1>4, <2>1, JoinedIs
  <2>3. Len(c) = at
    BY <1>1, <1>2, <2>2
  <2>4. ASSUME NEW k \in 1 .. at PROVE c[k] = IF k < at THEN s[k] ELSE e
    <3>1. CASE k < at
      BY <1>1, <1>2, <2>2, <2>3, <3>1
    <3>2. CASE k = at
      <4>1. k - Len(a) = 1 /\ ~ (k <= Len(a))
        BY <1>1, <1>2, <3>2
      <4>2. QED
        BY <2>1, <2>2, <2>3, <3>2, <4>1
    <3>3. QED
      BY <1>1, <3>1, <3>2
  <2>5. QED
    BY <2>2, <2>3, <2>4
<1>6. PICK t : t = c \o b
  OBVIOUS
<1>7. t \in Seq(S) /\ Len(t) = Len(c) + Len(b)
      /\ \A i \in 1 .. Len(t) : t[i] = IF i <= Len(c) THEN c[i] ELSE b[i - Len(c)]
  BY <1>3, <1>5, <1>6, JoinedIs
<1>8. Len(t) = Len(s) + 1
  BY <1>1, <1>3, <1>5, <1>7
<1>9. ASSUME NEW i \in 1 .. Len(t)
      PROVE  t[i] = IF i < at THEN s[i] ELSE IF i = at THEN e ELSE s[i - 1]
  <2>1. CASE i <= at
    <3>1. i \in 1 .. at /\ t[i] = c[i]
      BY <1>1, <1>5, <1>7, <2>1
    <3>2. QED
      BY <1>1, <1>5, <2>1, <3>1
  <2>2. CASE i > at
    <3>1. t[i] = b[i - at]
      BY <1>1, <1>5, <1>7, <2>2
    <3>2. i - at \in 1 .. Len(s) - at + 1 /\ at + (i - at) - 1 = i - 1
      BY <1>1, <1>8, <2>2
    <3>3. b[i - at] = s[at + (i - at) - 1]
      BY <1>3, <3>2
    <3>4. QED
      BY <1>1, <2>2, <3>1, <3>2, <3>3
  <2>3. QED
    BY <1>1, <2>1, <2>2
<1>10. t = List!InsertAt(s, at, e)
  BY <1>4, <1>6 DEF List!InsertAt, a, b
<1>11. QED
  BY <1>7, <1>8, <1>9, <1>10 DEF Longer

LEMMA CmdRemoved ==
    ASSUME NEW S, NEW s \in Seq(S), NEW from \in 1 .. Len(s)
    PROVE  List!RemoveAt(s, from) \in Seq(S) /\ Shorter(List!RemoveAt(s, from), s, from)
<1> DEFINE a == SubSeq(s, 1, from - 1)
           b == SubSeq(s, from + 1, Len(s))
<1>1. Len(s) \in Nat /\ \A k \in 1 .. Len(s) : s[k] \in S
  OBVIOUS
<1>2. a \in Seq(S) /\ Len(a) = from - 1 /\ \A k \in 1 .. from - 1 : a[k] = s[k]
  BY <1>1, SubSeqProperties
<1>3. b \in Seq(S) /\ Len(b) = Len(s) - from /\ \A k \in 1 .. Len(s) - from : b[k] = s[from + k]
  <2>1. from + 1 \in Int /\ Len(s) \in Int /\ \A k \in from + 1 .. Len(s) : s[k] \in S
    BY <1>1
  <2>2. from + 1 <= Len(s) + 1
    BY <1>1
  <2>3. b \in Seq(S) /\ Len(b) = Len(s) - (from + 1) + 1
        /\ \A k \in 1 .. Len(s) - (from + 1) + 1 : b[k] = s[(from + 1) + k - 1]
    BY <1>1, <2>1, <2>2, SubSeqProperties
  <2>4. Len(s) - (from + 1) + 1 = Len(s) - from /\ \A k \in 1 .. Len(s) - from : (from + 1) + k - 1 = from + k
    BY <1>1
  <2> HIDE DEF b
  <2>5. QED
    BY <2>3, <2>4
<1> HIDE DEF a, b
<1>4. PICK r : r = a \o b
  OBVIOUS
<1>5. r \in Seq(S) /\ Len(r) = Len(a) + Len(b)
      /\ \A k \in 1 .. Len(r) : r[k] = IF k <= Len(a) THEN a[k] ELSE b[k - Len(a)]
  BY <1>2, <1>3, <1>4, JoinedIs
<1>6. Len(r) = Len(s) - 1
  BY <1>1, <1>2, <1>3, <1>5
<1>7. ASSUME NEW k \in 1 .. Len(r) PROVE r[k] = IF k < from THEN s[k] ELSE s[k + 1]
  <2>1. CASE k < from
    BY <1>1, <1>2, <1>5, <2>1
  <2>2. CASE ~ (k < from)
    <3>1. r[k] = b[k - (from - 1)]
      BY <1>1, <1>2, <1>5, <2>2
    <3>2. k - (from - 1) \in 1 .. Len(s) - from /\ from + (k - (from - 1)) = k + 1
      BY <1>1, <1>6, <2>2
    <3>3. QED
      BY <1>3, <2>2, <3>1, <3>2
  <2>3. QED
    BY <2>1, <2>2
<1>8. r = List!RemoveAt(s, from)
  BY <1>4 DEF List!RemoveAt, a, b
<1>9. QED
  BY <1>5, <1>6, <1>7, <1>8 DEF Shorter

\* What a change may make of the list: the same commands, and new ones of ids
\* from n on that differ.
Grown(t, s, n) ==
    /\ t \in Seq(Slot) /\ Distinct(t)
    /\ List!Ids(s) \subseteq List!Ids(t)
    /\ \E top \in Nat : List!Ids(t) \subseteq List!Ids(s) \cup (n .. top)

\* Places whose commands come from the list, each from its own, and the others
\* with new ids, no two the same.
LEMMA GrownBy ==
    ASSUME ListBounds, NEW s \in Seq(Slot), Distinct(s), NEW t \in Seq(Slot), NEW n \in Nat, NEW top \in Nat,
           NEW P \in SUBSET (1 .. Len(t)),
           \A i, j \in P : i # j /\ t[i] # None /\ t[j] # None =>
               \E a, b \in 1 .. Len(s) : a # b /\ s[a] = t[i] /\ s[b] = t[j],
           \A i \in P : t[i] # None => \E a \in 1 .. Len(s) : s[a] = t[i],
           \A a \in 1 .. Len(s) : s[a] # None => \E i \in 1 .. Len(t) : t[i] = s[a],
           \A i \in (1 .. Len(t)) \ P : t[i] # None /\ t[i].id \in n .. top,
           \A i, j \in (1 .. Len(t)) \ P : i # j => t[i].id # t[j].id,
           \A x \in List!Ids(s) : x < n
    PROVE  Grown(t, s, n)
<1>1. DOMAIN s = 1 .. Len(s) /\ DOMAIN t = 1 .. Len(t)
  OBVIOUS
<1>2. ASSUME NEW i \in P, t[i] # None PROVE t[i].id \in List!Ids(s)
  <2>1. PICK a \in 1 .. Len(s) : s[a] = t[i]
    BY <1>2
  <2>2. QED
    BY <1>2, <2>1, IdsWithin
<1>3. ASSUME NEW i \in P, NEW j \in (1 .. Len(t)) \ P, t[i] # None PROVE t[i].id # t[j].id
  <2>1. t[i].id \in List!Ids(s) /\ List!Ids(s) \subseteq Nat
    BY <1>2, <1>3, IdsWithin
  <2>2. t[i].id < n /\ t[i].id \in Nat
    BY <2>1
  <2>3. t[j].id \in n .. top
    OBVIOUS
  <2>4. QED
    BY <2>2, <2>3
<1>4. Distinct(t)
  <2>1. ASSUME NEW i \in P, NEW j \in P, i # j, t[i] # None, t[j] # None
        PROVE  t[i].id # t[j].id
    <3>1. PICK a \in 1 .. Len(s), b \in 1 .. Len(s) : a # b /\ s[a] = t[i] /\ s[b] = t[j]
      BY <2>1
    <3>2. s[a].id # s[b].id
      BY <1>1, <2>1, <3>1 DEF Distinct
    <3>3. QED
      BY <3>1, <3>2
  <2>2. ASSUME NEW i \in 1 .. Len(t), NEW j \in 1 .. Len(t), i # j, t[i] # None, t[j] # None
        PROVE  t[i].id # t[j].id
    <3>1. CASE i \in P /\ j \in P
      BY <2>1, <2>2, <3>1
    <3>2. CASE i \in P /\ j \notin P
      BY <1>3, <2>2, <3>2
    <3>3. CASE i \notin P /\ j \in P
      BY <1>3, <2>2, <3>3
    <3>4. CASE i \notin P /\ j \notin P
      BY <2>2, <3>4
    <3>5. QED
      BY <3>1, <3>2, <3>3, <3>4
  <2>3. QED
    BY <1>1, <2>2 DEF Distinct
<1>5. ASSUME NEW x \in List!Ids(s) PROVE x \in List!Ids(t)
  <2>1. PICK a \in 1 .. Len(s) : s[a] # None /\ s[a].id = x
    BY IdsWithin
  <2>2. PICK i \in 1 .. Len(t) : t[i] = s[a]
    BY <2>1
  <2>3. QED
    BY <2>1, <2>2, IdsWithin
<1>6. ASSUME NEW x \in List!Ids(t) PROVE x \in List!Ids(s) \cup (n .. top)
  <2>1. PICK i \in 1 .. Len(t) : t[i] # None /\ t[i].id = x
    BY IdsWithin
  <2>2. CASE i \in P
    BY <1>2, <2>1, <2>2
  <2>3. CASE i \notin P
    BY <2>1, <2>3
  <2>4. QED
    BY <2>2, <2>3
<1>7. QED
  BY <1>4, <1>5, <1>6 DEF Grown

LEMMA MovedSound ==
    ASSUME ListBounds, NEW s \in Seq(Slot), Distinct(s), NEW n \in Nat, \A x \in List!Ids(s) : x < n,
           NEW from \in Nat, from >= 1, NEW to \in Nat, to >= 1
    PROVE  Grown(List!Moved(s, from, to), s, n)
<1>1. Len(s) \in Nat /\ \A k \in 1 .. Len(s) : s[k] \in Slot
  OBVIOUS
<1>2. CASE from <= Len(s)
  <2> DEFINE r == List!RemoveAt(s, from)
             at == IF to <= Len(r) THEN to ELSE Len(r) + 1
             t == List!InsertAt(r, at, s[from])
  <2>1. from \in 1 .. Len(s) /\ s[from] \in Slot
    BY <1>1, <1>2
  <2>2. r \in Seq(Slot) /\ Len(r) = Len(s) - 1
        /\ \A k \in 1 .. Len(r) : r[k] = IF k < from THEN s[k] ELSE s[k + 1]
    <3>1. r \in Seq(Slot) /\ Shorter(r, s, from)
      BY <2>1, CmdRemoved
    <3> HIDE DEF r
    <3>2. QED
      BY <3>1 DEF Shorter
  <2> HIDE DEF r
  <2>3. at \in 1 .. Len(r) + 1
    BY <1>1, <2>1, <2>2
  <2>4. List!Moved(s, from, to) = t
    BY <1>2 DEF List!Moved, r
  <2> HIDE DEF at
  <2>5. t \in Seq(Slot) /\ Len(t) = Len(r) + 1
        /\ \A i \in 1 .. Len(t) : t[i] = IF i < at THEN r[i] ELSE IF i = at THEN s[from] ELSE r[i - 1]
    <3>1. t \in Seq(Slot) /\ Longer(t, r, at, s[from])
      BY <2>1, <2>2, <2>3, CmdInserted
    <3> HIDE DEF t
    <3>2. QED
      BY <3>1 DEF Longer
  <2> HIDE DEF t
  <2> DEFINE o(i) == IF i < at THEN (IF i < from THEN i ELSE i + 1)
                     ELSE IF i = at THEN from ELSE (IF i - 1 < from THEN i - 1 ELSE i)
             back(a) == IF a = from THEN at
                        ELSE IF a < from THEN (IF a < at THEN a ELSE a + 1)
                        ELSE (IF a - 1 < at THEN a - 1 ELSE a)
  <2>6. ASSUME NEW i \in 1 .. Len(t)
        PROVE  o(i) \in 1 .. Len(s) /\ t[i] = s[o(i)]
    <3>1. CASE i < at
      <4>1. i \in 1 .. Len(r) /\ t[i] = r[i]
        BY <2>2, <2>3, <2>5, <3>1
      <4>2. QED
        BY <1>1, <2>1, <2>2, <3>1, <4>1
    <3>2. CASE i = at
      BY <2>1, <2>5, <3>2
    <3>3. CASE i > at
      <4>1. i - 1 \in 1 .. Len(r) /\ t[i] = r[i - 1]
        BY <2>2, <2>3, <2>5, <3>3
      <4>2. i \in Int /\ i - 1 + 1 = i
        OBVIOUS
      <4>3. r[i - 1] = IF i - 1 < from THEN s[i - 1] ELSE s[i]
        BY <2>2, <4>1, <4>2
      <4>4. QED
        BY <1>1, <2>1, <2>2, <2>3, <2>5, <3>3, <4>1, <4>3
    <3>4. QED
      BY <2>3, <3>1, <3>2, <3>3
  <2>7. \A i, j \in 1 .. Len(t) : i # j => o(i) # o(j)
    BY <1>1, <2>1, <2>2, <2>3, <2>5
  <2>8. ASSUME NEW a \in 1 .. Len(s) PROVE back(a) \in 1 .. Len(t) /\ o(back(a)) = a
    BY <1>1, <2>1, <2>2, <2>3, <2>5
  <2> HIDE DEF o, back
  <2>9. \A i, j \in 1 .. Len(t) : i # j => \E a, b \in 1 .. Len(s) : a # b /\ s[a] = t[i] /\ s[b] = t[j]
    BY <2>6, <2>7
  <2>10. \A i \in 1 .. Len(t) : \E a \in 1 .. Len(s) : s[a] = t[i]
    BY <2>6
  <2>11. \A a \in 1 .. Len(s) : \E i \in 1 .. Len(t) : t[i] = s[a]
    BY <2>6, <2>8
  <2>12. Grown(t, s, n)
    <3> DEFINE P == 1 .. Len(t)
    <3>1. P \in SUBSET (1 .. Len(t)) /\ (1 .. Len(t)) \ P = {}
      OBVIOUS
    <3>2. \A i, j \in P : i # j => \E a, b \in 1 .. Len(s) : a # b /\ s[a] = t[i] /\ s[b] = t[j]
      BY <2>9
    <3>3. \A i \in P : \E a \in 1 .. Len(s) : s[a] = t[i]
      BY <2>10
    <3> HIDE DEF P
    <3>4. QED
      BY <2>5, <2>11, <3>1, <3>2, <3>3, GrownBy
  <2>13. QED
    BY <2>4, <2>12
<1>3. CASE ~ (from <= Len(s))
  <2> DEFINE at == IF to <= Len(s) THEN to ELSE Len(s) + 1
             t == List!InsertAt(s, at, None)
  <2>1. at \in 1 .. Len(s) + 1 /\ None \in Slot
    BY <1>1 DEF Slot
  <2>2. List!Moved(s, from, to) = t
    BY <1>3 DEF List!Moved
  <2> HIDE DEF at
  <2>3. t \in Seq(Slot) /\ Len(t) = Len(s) + 1
        /\ \A i \in 1 .. Len(t) : t[i] = IF i < at THEN s[i] ELSE IF i = at THEN None ELSE s[i - 1]
    <3>1. t \in Seq(Slot) /\ Longer(t, s, at, None)
      BY <2>1, CmdInserted
    <3> HIDE DEF t
    <3>2. QED
      BY <3>1 DEF Longer
  <2> HIDE DEF t
  <2> DEFINE o(i) == IF i < at THEN i ELSE i - 1
             back(a) == IF a < at THEN a ELSE a + 1
  <2>4. ASSUME NEW i \in 1 .. Len(t), t[i] # None
        PROVE  i # at /\ o(i) \in 1 .. Len(s) /\ t[i] = s[o(i)]
    BY <1>1, <2>1, <2>3, <2>4
  <2>5. \A i, j \in 1 .. Len(t) : i # j /\ i # at /\ j # at => o(i) # o(j)
    BY <1>1, <2>1, <2>3
  <2>6. ASSUME NEW a \in 1 .. Len(s) PROVE back(a) \in 1 .. Len(t) /\ t[back(a)] = s[a]
    <3>1. back(a) \in 1 .. Len(t) /\ back(a) # at /\ (back(a) < at <=> a < at)
      BY <1>1, <2>1, <2>3
    <3>2. QED
      BY <1>1, <2>1, <2>3, <3>1
  <2> HIDE DEF o, back
  <2>7. \A i, j \in 1 .. Len(t) : i # j /\ t[i] # None /\ t[j] # None =>
            \E a, b \in 1 .. Len(s) : a # b /\ s[a] = t[i] /\ s[b] = t[j]
    BY <2>4, <2>5
  <2>8. \A i \in 1 .. Len(t) : t[i] # None => \E a \in 1 .. Len(s) : s[a] = t[i]
    BY <2>4
  <2>9. \A a \in 1 .. Len(s) : \E i \in 1 .. Len(t) : t[i] = s[a]
    BY <2>6
  <2>10. Grown(t, s, n)
    <3> DEFINE P == 1 .. Len(t)
    <3>1. P \in SUBSET (1 .. Len(t)) /\ (1 .. Len(t)) \ P = {}
      OBVIOUS
    <3>2. \A i, j \in P : i # j /\ t[i] # None /\ t[j] # None =>
              \E a, b \in 1 .. Len(s) : a # b /\ s[a] = t[i] /\ s[b] = t[j]
      BY <2>7
    <3>3. \A i \in P : t[i] # None => \E a \in 1 .. Len(s) : s[a] = t[i]
      BY <2>8
    <3> HIDE DEF P
    <3>4. QED
      BY <2>3, <2>9, <3>1, <3>2, <3>3, GrownBy
  <2>11. QED
    BY <2>2, <2>10
<1>4. QED
  BY <1>2, <1>3

LEMMA InsertedSound ==
    ASSUME ListBounds, NEW s \in Seq(Slot), Distinct(s), NEW at \in 1 .. Len(s) + 1,
           NEW e \in Cmd, \A x \in List!Ids(s) : x < e.id
    PROVE  Grown(List!InsertAt(s, at, e), s, e.id)
<1> DEFINE t == List!InsertAt(s, at, e)
<1>1. Len(s) \in Nat /\ e.id \in Nat /\ e \in Slot /\ e # None
  BY DEF Slot, Cmd, ListBounds
<1>2. t \in Seq(Slot) /\ Len(t) = Len(s) + 1
      /\ \A i \in 1 .. Len(t) : t[i] = IF i < at THEN s[i] ELSE IF i = at THEN e ELSE s[i - 1]
  <2>1. e \in Slot
    BY <1>1
  <2>2. t \in Seq(Slot) /\ Longer(t, s, at, e)
    BY <2>1, CmdInserted
  <2> HIDE DEF t
  <2>3. QED
    BY <2>2 DEF Longer
<1> HIDE DEF t
<1> DEFINE P == (1 .. Len(t)) \ {at}
           o(i) == IF i < at THEN i ELSE i - 1
           back(a) == IF a < at THEN a ELSE a + 1
<1>3. ASSUME NEW i \in P PROVE o(i) \in 1 .. Len(s) /\ t[i] = s[o(i)]
  BY <1>1, <1>2
<1>4. \A i, j \in P : i # j => o(i) # o(j)
  BY <1>1, <1>2
<1>5. ASSUME NEW a \in 1 .. Len(s) PROVE back(a) \in 1 .. Len(t) /\ t[back(a)] = s[a]
  <2>1. back(a) \in 1 .. Len(t) /\ back(a) # at /\ (back(a) < at <=> a < at)
    BY <1>1, <1>2
  <2>2. QED
    BY <1>1, <1>2, <2>1
<1>6. P \in SUBSET (1 .. Len(t))
  OBVIOUS
<1>7. \A i \in (1 .. Len(t)) \ P : i = at /\ t[i] = e
  BY <1>1, <1>2
<1> HIDE DEF o, back, P
<1>8. \A i, j \in P : i # j => \E a, b \in 1 .. Len(s) : a # b /\ s[a] = t[i] /\ s[b] = t[j]
  BY <1>3, <1>4
<1>9. \A i \in P : \E a \in 1 .. Len(s) : s[a] = t[i]
  BY <1>3
<1>10. \A a \in 1 .. Len(s) : \E i \in 1 .. Len(t) : t[i] = s[a]
  BY <1>5
<1>11. \A i \in (1 .. Len(t)) \ P : t[i] # None /\ t[i].id \in e.id .. e.id
  BY <1>1, <1>7
<1>12. \A i, j \in (1 .. Len(t)) \ P : i # j => t[i].id # t[j].id
  BY <1>7
<1>13. Grown(t, s, e.id)
  <2>1. PICK n \in Nat : n = e.id
    BY <1>1
  <2>2. \A x \in List!Ids(s) : x < n
    BY <2>1
  <2>3. \A i, j \in P : i # j /\ t[i] # None /\ t[j] # None =>
            \E a, b \in 1 .. Len(s) : a # b /\ s[a] = t[i] /\ s[b] = t[j]
    BY <1>8
  <2>4. \A i \in P : t[i] # None => \E a \in 1 .. Len(s) : s[a] = t[i]
    BY <1>9
  <2>5. \A a \in 1 .. Len(s) : s[a] # None => \E i \in 1 .. Len(t) : t[i] = s[a]
    BY <1>10
  <2>6. \A i \in (1 .. Len(t)) \ P : t[i] # None /\ t[i].id \in n .. n
    BY <1>11, <2>1
  <2>7. Grown(t, s, n)
    BY <1>2, <1>6, <2>2, <2>3, <2>4, <2>5, <2>6, <1>12, GrownBy
  <2>8. QED
    BY <2>1, <2>7
<1>14. QED
  BY <1>13 DEF t

\* New commands at the end of the list.
LEMMA JoinedSound ==
    ASSUME ListBounds, NEW s \in Seq(Slot), Distinct(s), NEW u \in Seq(Cmd), NEW n \in Nat,
           \A i \in 1 .. Len(u) : u[i].id = n + i - 1, \A x \in List!Ids(s) : x < n
    PROVE  Grown(s \o u, s, n)
<1> DEFINE t == s \o u
           P == 1 .. Len(s)
           top == n + Len(u)
<1>1. Len(s) \in Nat /\ Len(u) \in Nat /\ top \in Nat /\ \A i \in 1 .. Len(u) : u[i] \in Cmd /\ u[i] # None
  BY DEF ListBounds
<1>2. s \o u \in Seq(Slot) /\ Len(s \o u) = Len(s) + Len(u)
      /\ \A i \in 1 .. Len(s \o u) : (s \o u)[i] = IF i <= Len(s) THEN s[i] ELSE u[i - Len(s)]
  <2>1. u \in Seq(Slot)
    BY DEF Slot
  <2>2. QED
    BY <2>1, JoinedIs
<1>3. t \in Seq(Slot) /\ Len(t) = Len(s) + Len(u)
      /\ \A i \in 1 .. Len(t) : t[i] = IF i <= Len(s) THEN s[i] ELSE u[i - Len(s)]
  BY <1>2
<1> HIDE DEF t
<1>4. P \in SUBSET (1 .. Len(t)) /\ \A i \in P : i \in 1 .. Len(s) /\ t[i] = s[i]
  BY <1>1, <1>3
<1>5. ASSUME NEW i \in (1 .. Len(t)) \ P
      PROVE  i - Len(s) \in 1 .. Len(u) /\ t[i] = u[i - Len(s)] /\ t[i].id = n + (i - Len(s)) - 1
  <2>1. i - Len(s) \in 1 .. Len(u) /\ t[i] = u[i - Len(s)]
    BY <1>1, <1>3
  <2>2. QED
    BY <2>1
<1>6. \A i \in (1 .. Len(t)) \ P : t[i] # None /\ t[i].id \in n .. top
  <2>1. ASSUME NEW i \in (1 .. Len(t)) \ P PROVE t[i] # None /\ t[i].id \in n .. top
    <3>1. t[i] # None
      BY <1>1, <1>5
    <3>2. n + (i - Len(s)) - 1 \in n .. top
      BY <1>1, <1>5
    <3>3. QED
      BY <1>5, <3>1, <3>2
  <2>2. QED
    BY <2>1
<1>7. \A i, j \in (1 .. Len(t)) \ P : i # j => t[i].id # t[j].id
  <2>1. \A i, j \in (1 .. Len(t)) \ P : i # j => n + (i - Len(s)) - 1 # n + (j - Len(s)) - 1
    BY <1>1, <1>3
  <2>2. QED
    BY <1>5, <2>1
<1>8. \A a \in 1 .. Len(s) : a \in 1 .. Len(t) /\ t[a] = s[a]
  BY <1>1, <1>3
<1> HIDE DEF P, top
<1>9. \A i, j \in P : i # j => \E a, b \in 1 .. Len(s) : a # b /\ s[a] = t[i] /\ s[b] = t[j]
  BY <1>4
<1>10. \A i \in P : \E a \in 1 .. Len(s) : s[a] = t[i]
  BY <1>4
<1>11. \A a \in 1 .. Len(s) : \E i \in 1 .. Len(t) : t[i] = s[a]
  BY <1>8
<1>12. P \in SUBSET (1 .. Len(t))
  BY <1>4
<1>13. Grown(t, s, n)
  <2>1. top \in Nat
    BY <1>1
  <2>2. \A x \in List!Ids(s) : x < n
    OBVIOUS
  <2>3. \A i, j \in P : i # j /\ t[i] # None /\ t[j] # None =>
            \E a, b \in 1 .. Len(s) : a # b /\ s[a] = t[i] /\ s[b] = t[j]
    BY <1>9
  <2>4. \A i \in P : t[i] # None => \E a \in 1 .. Len(s) : s[a] = t[i]
    BY <1>10
  <2>5. \A a \in 1 .. Len(s) : s[a] # None => \E i \in 1 .. Len(t) : t[i] = s[a]
    BY <1>11
  <2>6. t \in Seq(Slot)
    BY <1>3
  <2>7. QED
    BY <1>6, <1>7, <1>12, <2>1, <2>2, <2>3, <2>4, <2>5, <2>6, GrownBy
<1>14. QED
  BY <1>13 DEF t

\* The editor changes the text of a command, which keeps its id and its place.
LEMMA TextSound ==
    ASSUME ListBounds, NEW s \in Seq(Slot), Distinct(s), NEW k \in 1 .. Len(s), s[k] # None,
           NEW x \in Texts, NEW n \in Nat, \A y \in List!Ids(s) : y < n
    PROVE  Grown([s EXCEPT ![k].text = x], s, n)
<1> DEFINE t == [s EXCEPT ![k].text = x]
<1>1. s[k] \in Cmd
  BY IdsWithin
<1>2. PICK e \in Cmd : e = [s[k] EXCEPT !.text = x] /\ e.id = s[k].id
  <2>1. s[k].id \in Nat /\ x \in Seeds \cup Texts /\ DOMAIN s[k] = {"id", "text"}
    BY <1>1 DEF Cmd
  <2>2. [s[k] EXCEPT !.text = x] \in Cmd /\ [s[k] EXCEPT !.text = x].id = s[k].id
    BY <1>1, <2>1 DEF Cmd
  <2>3. QED
    BY <2>2
<1>3. t = [s EXCEPT ![k] = e]
  BY <1>2
<1>4. e \in Slot /\ e # None
  BY DEF Slot, ListBounds
<1>5. t \in Seq(Slot) /\ Len(t) = Len(s)
      /\ \A i \in 1 .. Len(s) : t[i] = IF i = k THEN e ELSE s[i]
  <2>1. [s EXCEPT ![k] = e] \in Seq(Slot) /\ Len([s EXCEPT ![k] = e]) = Len(s)
        /\ \A i \in 1 .. Len(s) : [s EXCEPT ![k] = e][i] = IF i = k THEN e ELSE s[i]
    BY <1>4, ExceptSeq
  <2>2. QED
    BY <1>3, <2>1
<1> HIDE DEF t
<1>6. DOMAIN s = 1 .. Len(s) /\ DOMAIN t = 1 .. Len(s)
  BY <1>5
<1>7. \A i \in 1 .. Len(s) : (t[i] # None <=> s[i] # None) /\ (t[i] # None => t[i].id = s[i].id)
  BY <1>2, <1>4, <1>5
<1>8. Distinct(t)
  BY <1>6, <1>7 DEF Distinct
<1>9. List!Ids(t) = List!Ids(s)
  BY <1>6, <1>7 DEF List!Ids
<1>10. Grown(t, s, n)
  BY <1>5, <1>8, <1>9 DEF Grown
<1>11. QED
  BY <1>10 DEF t

LEMMA ListKept == \A s, P : List!KeepAt(s, P) = KeepAt(s, P)
BY DEF List!KeepAt, KeepAt, List!Rank, Rank, List!Cardinality, Cardinality

\* A filter of the list: the commands of its places.
LEMMA FilteredIs ==
    ASSUME ListBounds, NEW s \in Seq(Slot), Distinct(s), NEW P \in SUBSET (1 .. Len(s))
    PROVE  LET t == List!KeepAt(s, P) IN
           /\ t \in Seq(Slot) /\ Distinct(t) /\ List!Ids(t) \subseteq List!Ids(s)
           /\ \A i \in 1 .. Len(t) : \E k \in P : t[i] = s[k]
           /\ \A k \in P : s[k] # None => s[k].id \in List!Ids(t)
<1>1. Len(s) \in Nat
  OBVIOUS
<1>2. PICK t : t = KeepAt(s, P) /\ t = List!KeepAt(s, P)
  BY ListKept
<1>3. PICK n \in Nat : n = Len(s)
  BY <1>1
<1>4. P \in SUBSET (1 .. n)
  BY <1>3
<1>5. /\ t \in Seq(Slot) /\ Len(t) = Cardinality(P)
      /\ \A k \in 1 .. Cardinality(P) : \E i \in P : Rank(P, i) = k /\ t[k] = s[i]
      /\ \A i \in P : \E k \in 1 .. Cardinality(P) : Rank(P, i) = k /\ t[k] = s[i]
  <2>1. KeepAt(s, P) \in Seq(Slot) /\ Len(KeepAt(s, P)) = Cardinality(P)
    BY <1>3, <1>4, KeptPlaces
  <2>2. \A k \in 1 .. Cardinality(P) : \E i \in P : Rank(P, i) = k /\ KeepAt(s, P)[k] = s[i]
    BY <1>3, <1>4, KeptPlaces
  <2>3. \A i \in P : \E k \in 1 .. Cardinality(P) : Rank(P, i) = k /\ KeepAt(s, P)[k] = s[i]
    BY <1>3, <1>4, KeptPlaces
  <2>4. QED
    BY <1>2, <2>1, <2>2, <2>3
<1>6. DOMAIN s = 1 .. Len(s) /\ DOMAIN t = 1 .. Len(t)
  BY <1>5
<1>7. \A k \in 1 .. Len(t) : \E i \in P : Rank(P, i) = k /\ t[k] = s[i]
  BY <1>5
<1>8. Distinct(t)
  <2>1. ASSUME NEW k \in 1 .. Len(t), NEW l \in 1 .. Len(t), k # l, t[k] # None, t[l] # None
        PROVE  t[k].id # t[l].id
    <3>1. PICK i \in P : Rank(P, i) = k /\ t[k] = s[i]
      BY <1>7
    <3>2. PICK j \in P : Rank(P, j) = l /\ t[l] = s[j]
      BY <1>7
    <3>3. i # j /\ i \in 1 .. Len(s) /\ j \in 1 .. Len(s)
      BY <2>1, <3>1, <3>2
    <3>4. QED
      BY <1>6, <2>1, <3>1, <3>2, <3>3 DEF Distinct
  <2>2. QED
    BY <1>6, <2>1 DEF Distinct
<1>9. \A k \in P : s[k] # None => s[k].id \in List!Ids(t)
  <2>1. ASSUME NEW k \in P, s[k] # None PROVE s[k].id \in List!Ids(t)
    <3>1. PICK i \in 1 .. Len(t) : t[i] = s[k]
      BY <1>5
    <3>2. QED
      BY <1>5, <2>1, <3>1, IdsWithin
  <2>2. QED
    BY <2>1
<1>10. List!Ids(t) \subseteq List!Ids(s)
  <2>1. ASSUME NEW x \in List!Ids(t) PROVE x \in List!Ids(s)
    <3>1. PICK i \in 1 .. Len(t) : t[i] # None /\ t[i].id = x
      BY <1>5, IdsWithin
    <3>2. PICK k \in P : t[i] = s[k]
      BY <1>7
    <3>3. QED
      BY <3>1, <3>2, IdsWithin
  <2>2. QED
    BY <2>1
<1>11. \A i \in 1 .. Len(t) : \E k \in P : t[i] = s[k]
  BY <1>7
<1>12. QED
  BY <1>2, <1>5, <1>8, <1>9, <1>10, <1>11

\* The texts of a finite set, one after the other.
LEMMA TextsInOrder ==
    ASSUME NEW S, IsFiniteSet(S)
    PROVE  /\ List!Cardinality(S) \in Nat
           /\ \A k \in 1 .. List!Cardinality(S) : List!SetToSeq(S)[k] \in S
<1>1. PICK n \in Nat : ExistsBijection(1 .. n, S)
  BY FS_NatBijection
<1>2. Cardinality(S) = n
  BY <1>1, FS_CountingElements
<1>3. List!Cardinality(S) = n
  BY <1>2 DEF List!Cardinality, Cardinality
<1>4. PICK f \in Bijection(1 .. n, S) : TRUE
  BY <1>1 DEF ExistsBijection
<1>5. f \in [1 .. n -> S] /\ List!IsInjective(f)
  BY <1>4 DEF Bijection, Injection, IsInjective, List!IsInjective
<1>6. List!SetToSeq(S) \in [1 .. n -> S]
  BY <1>3, <1>5 DEF List!SetToSeq
<1>7. QED
  BY <1>3, <1>6

-----------------------------------------------------------------------------
(* Steps.                                                                  *)

LEMMA ListInvInit == ASSUME ListBounds, List!ListInit PROVE ListInv
<1> DEFINE n == List!Cardinality(Seeds)
<1>1. n \in Nat /\ \A k \in 1 .. n : List!SetToSeq(Seeds)[k] \in Seeds
  BY TextsInOrder DEF ListBounds
<1>2. commands = [k \in 1 .. n |-> [id |-> k, text |-> List!SetToSeq(Seeds)[k]]]
  BY DEF List!ListInit
<1>3. rows = commands /\ listDisk = commands /\ dragging = 0 /\ deleted = {}
  BY DEF List!ListInit
<1> HIDE DEF n
<1>4. commands \in [1 .. n -> Cmd]
  BY <1>1, <1>2 DEF Cmd
<1>5. commands \in Seq(Cmd) /\ commands \in Seq(Slot) /\ Len(commands) = n
  BY <1>1, <1>4 DEF Slot
<1>6. \A k \in 1 .. n : commands[k].id = k
  BY <1>2
<1>7. Distinct(commands)
  BY <1>4, <1>6 DEF Distinct
<1>8. List!Ids(commands) \subseteq 0 .. n
  BY <1>1, <1>4, <1>6 DEF List!Ids
<1>9. Given \subseteq 0 .. n
  BY <1>3, <1>8 DEF Given
<1>10. ListTyped
  BY <1>3, <1>5 DEF ListTyped
<1>11. List!DeletedStaysGone
  BY <1>3 DEF List!DeletedStaysGone
<1>12. QED
  BY <1>1, <1>3, <1>7, <1>9, <1>10, <1>11 DEF ListInv

LEMMA ChangeKeeps ==
    ASSUME ListBounds, ListInv, Grown(commands', commands, List!FreshId),
           rows' = rows \/ (rows' = commands' /\ commands' \in Seq(Cmd)),
           listDisk' = listDisk \/ listDisk' = commands', deleted' = deleted, dragging' \in Nat
    PROVE  ListInv' /\ List!LeavesByDelete
<1> DEFINE F == List!FreshId
<1>1. F \in Nat /\ \A x \in Given : x \in Nat /\ x < F
  BY FreshIs
<1>2. PICK new \in Nat : List!Ids(commands') \subseteq List!Ids(commands) \cup (F .. new)
  BY DEF Grown
<1>3. PICK old \in Nat : Given \subseteq 0 .. old
  BY DEF ListInv
<1> HIDE DEF F
<1>4. List!Ids(commands) \subseteq Given /\ deleted \subseteq Given
      /\ List!Ids(rows) \subseteq Given /\ List!Ids(listDisk) \subseteq Given
  BY DEF Given
<1>5. List!Ids(commands') \subseteq 0 .. old + new
  <2>1. ASSUME NEW x \in List!Ids(commands') PROVE x \in 0 .. old + new
    <3>1. CASE x \in Given
      <4>1. x \in 0 .. old
        BY <1>3, <3>1
      <4>2. QED
        BY <4>1
    <3>2. CASE x \in F .. new
      <4>1. F \in Nat
        BY <1>1
      <4>2. QED
        BY <3>2, <4>1
    <3>3. QED
      BY <1>2, <1>4, <3>1, <3>2
  <2>2. QED
    BY <2>1
<1>6. Given \subseteq 0 .. old + new
  <2>1. 0 .. old \subseteq 0 .. old + new
    OBVIOUS
  <2>2. QED
    BY <1>3, <2>1
<1>7. Given' \subseteq List!Ids(commands') \cup Given
  BY <1>4 DEF Given
<1>8. old + new \in Nat /\ Given' \subseteq 0 .. old + new
  <2>1. old + new \in Nat
    OBVIOUS
  <2>2. Given' \subseteq 0 .. old + new
    BY <1>5, <1>6, <1>7, Zenon
  <2>3. QED
    BY <2>1, <2>2
<1>9. ASSUME NEW x \in List!Ids(commands') PROVE x \notin deleted
  <2>1. CASE x \in List!Ids(commands)
    BY <2>1 DEF ListInv, List!DeletedStaysGone
  <2>2. CASE x \in F .. new
    <3>1. \A y \in deleted : y < F /\ y \in Nat
      BY <1>1, <1>4
    <3>2. QED
      BY <1>1, <2>2, <3>1
  <2>3. QED
    BY <1>2, <2>1, <2>2
<1>10. List!DeletedStaysGone'
  BY <1>9 DEF List!DeletedStaysGone
<1>11. commands' \in Seq(Slot) /\ Distinct(commands') /\ Distinct(listDisk')
  BY DEF Grown, ListInv
<1>12. ListTyped'
  BY <1>11 DEF ListInv, ListTyped
<1>13. ListInv'
  BY <1>8, <1>10, <1>11, <1>12 DEF ListInv
<1>14. List!LeavesByDelete
  BY DEF List!LeavesByDelete, Grown
<1>15. QED
  BY <1>13, <1>14

LEMMA RedrawnKeeps ==
    ASSUME ListBounds, ListInv, commands' = commands,
           rows' \in Seq(Cmd), List!Ids(rows') \subseteq Given,
           listDisk' = listDisk \/ listDisk' = commands, deleted' = deleted, dragging' \in Nat
    PROVE  ListInv' /\ List!LeavesByDelete
<1>1. Given' \subseteq Given
  BY DEF Given
<1>2. List!DeletedStaysGone'
  BY DEF List!DeletedStaysGone, ListInv
<1>3. ListTyped'
  BY DEF ListInv, ListTyped
<1>4. Distinct(commands') /\ Distinct(listDisk')
  BY DEF ListInv
<1>5. \E top \in Nat : Given' \subseteq 0 .. top
  BY <1>1 DEF ListInv
<1>6. List!LeavesByDelete
  BY DEF List!LeavesByDelete
<1>7. QED
  BY <1>2, <1>3, <1>4, <1>5, <1>6 DEF ListInv

\* The first hole of a list, and what stands before it.
LEMMA FirstHole ==
    ASSUME ListBounds, NEW s \in Seq(Slot), NEW H \in SUBSET (1 .. Len(s)), H # {}
    PROVE  List!Min(H) \in H /\ \A k \in 1 .. Len(s) : k < List!Min(H) => k \notin H
<1>1. H \in SUBSET Nat
  OBVIOUS
<1>2. \E x \in H : \A y \in H : x <= y
  BY <1>1, LeastOf
<1>3. List!Min(H) \in H /\ \A y \in H : List!Min(H) <= y
  BY <1>2 DEF List!Min
<1>4. ASSUME NEW k \in 1 .. Len(s), k < List!Min(H), k \in H PROVE FALSE
  <2>1. PICK m \in Nat : m = List!Min(H)
    BY <1>1, <1>3
  <2>2. m <= k /\ k < m
    BY <1>3, <1>4, <2>1
  <2>3. QED
    BY <2>2
<1>5. QED
  BY <1>3, <1>4

LEMMA Drawn ==
    ASSUME ListBounds, NEW s \in Seq(Slot), NEW H, H = {k \in DOMAIN s : s[k] = None}
    PROVE  LET t == IF H = {} THEN s ELSE SubSeq(s, 1, List!Min(H) - 1) IN
           t \in Seq(Cmd) /\ List!Ids(t) \subseteq List!Ids(s)
<1>1. Len(s) \in Nat /\ DOMAIN s = 1 .. Len(s) /\ \A k \in 1 .. Len(s) : s[k] # None => s[k] \in Cmd
  BY IdsWithin
<1>2. CASE H = {}
  <2>1. \A k \in 1 .. Len(s) : s[k] \in Cmd
    BY <1>1, <1>2
  <2>2. s \in Seq(Cmd)
    BY <1>1, <2>1
  <2>3. QED
    BY <1>2, <2>2
<1>3. CASE H # {}
  <2>1. H \in SUBSET (1 .. Len(s))
    BY <1>1
  <2>2. List!Min(H) \in H /\ \A k \in 1 .. Len(s) : k < List!Min(H) => k \notin H
    BY <1>3, <2>1, FirstHole
  <2>3. PICK m \in 1 .. Len(s) : m = List!Min(H)
    BY <2>1, <2>2
  <2>4. \A k \in 1 .. m - 1 : s[k] \in Cmd
    BY <1>1, <2>2, <2>3
  <2>5. PICK t : t = SubSeq(s, 1, m - 1)
    OBVIOUS
  <2>6. 1 \in Int /\ m - 1 \in Int /\ 1 <= m - 1 + 1
    OBVIOUS
  <2>7. t \in Seq(Cmd) /\ Len(t) = m - 1
    BY <1>1, <2>4, <2>5, <2>6, SubSeqProperties
  <2>8. \A k \in 1 .. m - 1 : t[k] = s[k]
    BY <1>1, <2>4, <2>5, <2>6, SubSeqProperties
  <2>9. \A k \in 1 .. Len(t) : t[k] = s[k] /\ t[k] # None /\ k \in 1 .. Len(s)
    BY <1>1, <2>4, <2>7, <2>8 DEF ListBounds
  <2>10. List!Ids(t) \subseteq List!Ids(s)
    <3>1. t \in Seq(Slot)
      BY <2>7 DEF Slot
    <3>2. ASSUME NEW x \in List!Ids(t) PROVE x \in List!Ids(s)
      <4>1. PICK k \in 1 .. Len(t) : t[k] # None /\ t[k].id = x
        BY <3>1, IdsWithin
      <4>2. QED
        BY <2>9, <4>1, IdsWithin
    <3>3. QED
      BY <3>2
  <2>11. QED
    BY <1>3, <2>3, <2>5, <2>7, <2>10
<1>4. QED
  BY <1>2, <1>3

LEMMA ListNextKeeps ==
    ASSUME ListBounds, ListInv, [List!ListNext]_(List!listVars)
    PROVE  ListInv' /\ List!LeavesByDelete
<1> DEFINE Goal == ListInv' /\ List!LeavesByDelete
           F == List!FreshId
<1>1. /\ commands \in Seq(Slot) /\ listDisk \in Seq(Slot) /\ rows \in Seq(Cmd)
      /\ deleted \subseteq Nat /\ dragging \in Nat /\ Distinct(commands) /\ Distinct(listDisk)
  BY DEF ListInv, ListTyped
<1>2. F \in Nat /\ \A x \in List!Ids(commands) : x < F
  BY FreshIs DEF Given
<1>3. List!Ids(commands) \subseteq Given /\ List!Ids(rows) \subseteq Given
  BY DEF Given
<1>4. ASSUME UNCHANGED <<commands, rows, listDisk, deleted>>, dragging' \in Nat PROVE Goal
  BY <1>1, <1>3, <1>4, RedrawnKeeps
<1>5. ASSUME Grown(commands', commands, F), rows' = rows, listDisk' = listDisk, deleted' = deleted,
             dragging' \in Nat
      PROVE  Goal
  BY <1>5, ChangeKeeps
<1>6. ASSUME NEW n \in DOMAIN rows, NEW lower \in BOOLEAN, List!Drop(n, lower) PROVE Goal
  <2>1. dragging >= 1 /\ n \in Nat /\ n >= 1
    BY <1>1, <1>6 DEF List!Drop
  <2>2. PICK to \in Nat : to >= 1 /\ commands' = List!Moved(commands, dragging, to)
    BY <1>6, <2>1 DEF List!Drop
  <2>3. Grown(commands', commands, F)
    BY <1>1, <1>2, <2>1, <2>2, MovedSound
  <2>4. rows' = rows /\ listDisk' = listDisk /\ deleted' = deleted /\ dragging' = 0
    BY <1>6 DEF List!Drop
  <2>5. QED
    BY <1>5, <2>3, <2>4
<1>7. ASSUME NEW n \in DOMAIN rows, NEW to \in {n - 1, n + 1}, List!Arrow(n, to) PROVE Goal
  <2>1. n \in Nat /\ n >= 1 /\ to \in Nat /\ to >= 1
    BY <1>1, <1>7 DEF List!Arrow
  <2>2. commands' = List!Moved(commands, n, to)
    BY <1>7 DEF List!Arrow
  <2>3. Grown(commands', commands, F)
    BY <1>1, <1>2, <2>1, <2>2, MovedSound
  <2>4. rows' = rows /\ listDisk' = listDisk /\ deleted' = deleted /\ dragging' = dragging
    BY <1>7 DEF List!Arrow
  <2>5. QED
    BY <1>1, <1>5, <2>3, <2>4
<1>8. ASSUME NEW n \in DOMAIN rows, List!Duplicate(n) PROVE Goal
  <2>1. rows[n] \in Cmd
    BY <1>1
  <2>2. PICK e \in Cmd : e = [rows[n] EXCEPT !.id = F] /\ e.id = F
    <3>1. PICK i \in Nat : i = F
      BY <1>2
    <3>2. DOMAIN rows[n] = {"id", "text"}
      BY <2>1 DEF Cmd
    <3>3. [rows[n] EXCEPT !.id = i] \in Cmd /\ [rows[n] EXCEPT !.id = i].id = i
      BY <2>1, <3>2 DEF Cmd
    <3>4. QED
      BY <3>1, <3>3
  <2>3. PICK at \in 1 .. Len(commands) + 1 : commands' = List!InsertAt(commands, at, e)
    <3> DEFINE p == IF n <= Len(commands) THEN n + 1 ELSE Len(commands) + 1
    <3>1. commands' = List!InsertAt(commands, p, e)
      BY <1>8, <2>2 DEF List!Duplicate
    <3>2. n \in Nat /\ Len(commands) \in Nat
      BY <1>1
    <3>3. p \in 1 .. Len(commands) + 1
      BY <3>2
    <3> HIDE DEF p
    <3>4. QED
      BY <3>1, <3>3
  <2>4. Grown(commands', commands, F)
    BY <1>1, <1>2, <2>2, <2>3, InsertedSound
  <2>5. rows' = rows /\ listDisk' = listDisk /\ deleted' = deleted /\ dragging' = dragging
    BY <1>8 DEF List!Duplicate
  <2>6. QED
    BY <1>1, <1>5, <2>4, <2>5
<1>9. ASSUME NEW n \in DOMAIN rows, List!Delete(n) PROVE Goal
  <2> DEFINE gone == rows[n].id
             P == {k \in DOMAIN commands : commands[k].id # gone}
             t == List!KeepAt(commands, P)
  <2>1. commands' = t /\ deleted' = deleted \cup {gone} /\ rows' = rows /\ listDisk' = listDisk
        /\ dragging' = dragging
    BY <1>9 DEF List!Delete
  <2>2. P \in SUBSET (1 .. Len(commands)) /\ DOMAIN commands = 1 .. Len(commands)
    BY <1>1
  <2>3. gone \in List!Ids(rows) /\ gone \in Nat
    <3>1. rows \in Seq(Slot) /\ rows[n] \in Cmd /\ rows[n] # None /\ n \in 1 .. Len(rows)
      BY <1>1 DEF Slot, ListBounds
    <3>2. QED
      BY <3>1, IdsWithin
  <2> HIDE DEF P
  <2>4. /\ t \in Seq(Slot) /\ Distinct(t) /\ List!Ids(t) \subseteq List!Ids(commands)
        /\ \A i \in 1 .. Len(t) : \E k \in P : t[i] = commands[k]
        /\ \A k \in P : commands[k] # None => commands[k].id \in List!Ids(t)
    BY <1>1, <2>2, FilteredIs
  <2> HIDE DEF t, gone
  <2>5. gone \notin List!Ids(t)
    <3>1. ASSUME gone \in List!Ids(t) PROVE FALSE
      <4>1. PICK i \in 1 .. Len(t) : t[i] # None /\ t[i].id = gone
        BY <2>4, <3>1, IdsWithin
      <4>2. PICK k \in P : t[i] = commands[k]
        BY <2>4
      <4>3. QED
        BY <4>1, <4>2 DEF P
    <3>2. QED
      BY <3>1
  <2>6. List!DeletedStaysGone'
    BY <2>1, <2>4, <2>5 DEF List!DeletedStaysGone, ListInv
  <2>7. ASSUME NEW x \in List!Ids(commands), x # gone PROVE x \in List!Ids(t)
    <3>1. PICK k \in 1 .. Len(commands) : commands[k] # None /\ commands[k].id = x
      BY <1>1, IdsWithin
    <3>2. k \in P
      BY <2>2, <2>7, <3>1 DEF P
    <3>3. QED
      BY <2>4, <3>1, <3>2
  <2>8. List!LeavesByDelete
    BY <2>1, <2>7 DEF List!LeavesByDelete
  <2>9. Given' \subseteq Given
    BY <2>1, <2>3, <2>4 DEF Given
  <2>10. \E top \in Nat : Given' \subseteq 0 .. top
    BY <2>9 DEF ListInv
  <2>11. ListTyped'
    BY <1>1, <2>1, <2>3, <2>4 DEF ListTyped
  <2>12. Distinct(commands') /\ Distinct(listDisk')
    BY <1>1, <2>1, <2>4
  <2>13. QED
    BY <2>6, <2>8, <2>10, <2>11, <2>12 DEF ListInv
<1>10. ASSUME NEW text \in Texts, List!EditorSaves(text) PROVE Goal
  <2> DEFINE at == {k \in DOMAIN commands : commands[k] = None \/ commands[k].id = modal.id}
  <2>1. rows' = rows /\ listDisk' = listDisk /\ deleted' = deleted /\ dragging' = dragging
    BY <1>10 DEF List!EditorSaves
  <2>2. CASE modal.text = None
    <3>1. commands' = Append(commands, [id |-> F, text |-> text])
      BY <1>10, <2>2 DEF List!EditorSaves
    <3>2. PICK e \in Cmd : e = [id |-> F, text |-> text] /\ e.id = F
      <4>1. F \in Nat /\ text \in Seeds \cup Texts
        BY <1>2
      <4>2. PICK i \in Nat : i = F
        BY <4>1
      <4>3. [id |-> i, text |-> text] \in Cmd /\ [id |-> i, text |-> text].id = i
        BY <4>1 DEF Cmd
      <4>4. QED
        BY <4>2, <4>3
    <3>3. commands' = commands \o <<e>>
      BY <1>1, <3>1, <3>2 DEF Slot
    <3>4. <<e>> \in Seq(Cmd) /\ Len(<<e>>) = 1 /\ \A i \in 1 .. Len(<<e>>) : <<e>>[i].id = F + i - 1
      BY <1>2, <3>2
    <3>5. Grown(commands', commands, F)
      BY <1>1, <1>2, <3>3, <3>4, JoinedSound
    <3>6. QED
      BY <1>1, <1>5, <2>1, <3>5
  <2>3. CASE modal.text # None /\ commands' = commands
    BY <1>1, <1>4, <2>1, <2>3
  <2>4. CASE modal.text # None /\ at # {} /\ commands[List!Min(at)] # None
             /\ commands' = [commands EXCEPT ![List!Min(at)].text = text]
    <3>1. at \in SUBSET (1 .. Len(commands))
      BY <1>1
    <3> HIDE DEF at
    <3>2. List!Min(at) \in at
      BY <1>1, <2>4, <3>1, FirstHole
    <3>3. PICK k \in 1 .. Len(commands) : k = List!Min(at)
      BY <3>1, <3>2
    <3>4. Grown([commands EXCEPT ![k].text = text], commands, F)
      BY <1>1, <1>2, <2>4, <3>3, TextSound
    <3>5. Grown(commands', commands, F)
      BY <2>4, <3>3, <3>4
    <3>6. QED
      BY <1>1, <1>5, <2>1, <3>5
  <2>5. QED
    <3>1. modal.text # None =>
            \/ commands' = commands
            \/ at # {} /\ commands[List!Min(at)] # None
               /\ commands' = [commands EXCEPT ![List!Min(at)].text = text]
      BY <1>10 DEF List!EditorSaves
    <3>2. QED
      BY <2>2, <2>3, <2>4, <3>1
<1>11. ASSUME List!Restore PROVE Goal
  <2> DEFINE missing == Seeds \ {commands[k].text : k \in DOMAIN commands}
             n == List!Cardinality(missing)
             u == [k \in 1 .. n |-> [id |-> F + k - 1, text |-> List!SetToSeq(missing)[k]]]
  <2>1. commands' = commands \o u /\ rows' = commands' /\ dragging' = 0 /\ deleted' = deleted
        /\ (listDisk' = listDisk \/ listDisk' = commands')
        /\ \A k \in DOMAIN commands : commands[k] # None
    BY <1>11 DEF List!Restore
  <2>2. missing \in SUBSET Seeds /\ IsFiniteSet(missing)
    BY FS_Subset DEF ListBounds
  <2> HIDE DEF missing
  <2>3. n \in Nat /\ \A k \in 1 .. n : List!SetToSeq(missing)[k] \in missing
    BY <2>2, TextsInOrder
  <2>4. u \in [1 .. n -> Cmd] /\ \A k \in 1 .. n : u[k].id = F + k - 1
    <3>1. \A k \in 1 .. n : F + k - 1 \in Nat /\ List!SetToSeq(missing)[k] \in Seeds \cup Texts
      BY <1>2, <2>2, <2>3
    <3> HIDE DEF n
    <3>2. QED
      BY <3>1 DEF Cmd
  <2> HIDE DEF u, n
  <2>5. u \in Seq(Cmd) /\ Len(u) = n
    BY <2>3, <2>4
  <2>6. Grown(commands', commands, F)
    BY <1>1, <1>2, <2>1, <2>4, <2>5, JoinedSound
  <2>7. commands' \in Seq(Cmd)
    <3>1. commands \in Seq(Cmd)
      <4>1. \A k \in 1 .. Len(commands) : commands[k] \in Cmd
        BY <1>1, <2>1, IdsWithin
      <4>2. QED
        BY <1>1, <4>1
    <3>2. QED
      BY <2>1, <2>5, <3>1, JoinedIs
  <2>8. QED
    BY <2>1, <2>6, <2>7, ChangeKeeps
<1>12. ASSUME List!SaveLands PROVE Goal
  <2> DEFINE holes == {k \in DOMAIN commands : commands[k] = None}
  <2>1. commands' = commands /\ listDisk' = commands /\ deleted' = deleted /\ dragging' = 0
        /\ rows' = IF holes = {} THEN commands ELSE SubSeq(commands, 1, List!Min(holes) - 1)
    BY <1>12 DEF List!SaveLands
  <2>2. rows' \in Seq(Cmd) /\ List!Ids(rows') \subseteq List!Ids(commands)
    BY <1>1, <2>1, Drawn
  <2>3. QED
    BY <1>3, <2>1, <2>2, RedrawnKeeps
<1>13. ASSUME List!Restart PROVE Goal
  <2> DEFINE P == {k \in DOMAIN listDisk : listDisk[k] # None}
             t == List!KeepAt(listDisk, P)
  <2>1. commands' = t /\ rows' = commands' /\ listDisk' = listDisk /\ dragging' = 0
        /\ deleted' = deleted \ List!Ids(listDisk)
    BY <1>13 DEF List!Restart, List!Sanitized
  <2>2. P \in SUBSET (1 .. Len(listDisk)) /\ DOMAIN listDisk = 1 .. Len(listDisk)
    BY <1>1
  <2>3. \A k \in P : listDisk[k] \in Cmd
    BY <1>1, <2>2, IdsWithin
  <2> HIDE DEF P
  <2>4. /\ t \in Seq(Slot) /\ Distinct(t) /\ List!Ids(t) \subseteq List!Ids(listDisk)
        /\ \A i \in 1 .. Len(t) : \E k \in P : t[i] = listDisk[k]
        /\ \A k \in P : listDisk[k] # None => listDisk[k].id \in List!Ids(t)
    BY <1>1, <2>2, FilteredIs
  <2> HIDE DEF t
  <2>5. \A i \in 1 .. Len(t) : t[i] \in Cmd
    BY <2>3, <2>4
  <2>6. t \in Seq(Cmd)
    BY <2>4, <2>5
  <2>7. ASSUME NEW x \in List!Ids(listDisk) PROVE x \in List!Ids(t)
    <3>1. PICK k \in 1 .. Len(listDisk) : listDisk[k] # None /\ listDisk[k].id = x
      BY <1>1, IdsWithin
    <3>2. QED
      BY <2>2, <2>4, <3>1 DEF P
  <2>8. List!LeavesByDelete
    BY <2>1, <2>7 DEF List!LeavesByDelete
  <2>9. Given' \subseteq Given
    BY <2>1, <2>4 DEF Given
  <2>10. \E top \in Nat : Given' \subseteq 0 .. top
    BY <2>9 DEF ListInv
  <2>11. ListTyped'
    BY <1>1, <2>1, <2>4, <2>6 DEF ListTyped
  <2>12. List!DeletedStaysGone'
    BY <2>1, <2>4 DEF List!DeletedStaysGone
  <2>13. Distinct(commands') /\ Distinct(listDisk')
    BY <1>1, <2>1, <2>4
  <2>14. QED
    BY <2>8, <2>10, <2>11, <2>12, <2>13 DEF ListInv
<1>14. ASSUME NEW n \in DOMAIN rows, List!DragStart(n) PROVE Goal
  <2>1. n \in Nat
    BY <1>1
  <2>2. QED
    BY <1>4, <1>14, <2>1 DEF List!DragStart
<1>15. ASSUME NEW n \in DOMAIN rows, List!Arm(n) \/ List!OpenEditor(rows[n]) PROVE Goal
  BY <1>1, <1>4, <1>15 DEF List!Arm, List!OpenEditor
<1>16. ASSUME NEW id \in armed, List!Disarm(id) PROVE Goal
  BY <1>1, <1>4, <1>16 DEF List!Disarm
<1>17. ASSUME List!OpenEditor([id |-> 0, text |-> None]) \/ List!DragEnd \/ List!CloseEditor
              \/ List!SaveFails \/ UNCHANGED List!listVars
       PROVE  Goal
  <2>1. UNCHANGED <<commands, rows, listDisk, deleted>> /\ (dragging' = dragging \/ dragging' = 0)
    BY <1>17 DEF List!OpenEditor, List!DragEnd, List!CloseEditor, List!SaveFails, List!listVars
  <2>2. dragging' \in Nat
    BY <1>1, <2>1
  <2>3. QED
    BY <1>4, <2>1, <2>2
<1> HIDE DEF Goal
<1>18. QED
  <2>1. Goal
    BY <1>6, <1>7, <1>8, <1>9, <1>10, <1>11, <1>12, <1>13, <1>14, <1>15, <1>16, <1>17
       DEF List!ListNext
  <2>2. QED
    BY <2>1 DEF Goal

\* What data.json holds of the deletions stays.
LEMMA WrittenKeeps ==
    ASSUME ListInv, ListInv', [List!ListNext]_(List!listVars)
    PROVE  List!WrittenStaysGone
<1>1. CASE List!Restart
  BY <1>1 DEF List!Restart, List!WrittenStaysGone
<1>2. ASSUME deleted \subseteq deleted', listDisk' = listDisk \/ listDisk' = commands'
      PROVE  List!WrittenStaysGone
  <2>1. List!Ids(commands') \cap deleted' = {}
    BY DEF ListInv, List!DeletedStaysGone
  <2>2. List!Ids(listDisk') = List!Ids(listDisk) \/ List!Ids(listDisk') \cap deleted' = {}
    BY <1>2, <2>1
  <2>3. QED
    BY <1>2, <2>2 DEF List!WrittenStaysGone
<1>3. CASE List!SaveLands \/ List!Restore \/ List!SaveFails \/ List!DragEnd \/ List!CloseEditor
           \/ UNCHANGED List!listVars
  BY <1>2, <1>3 DEF List!SaveLands, List!Restore, List!SaveFails, List!DragEnd, List!CloseEditor,
                    List!listVars
<1>4. ASSUME NEW n, \/ List!DragStart(n) \/ List!Duplicate(n) \/ List!Arm(n) \/ List!Delete(n)
                    \/ \E lower \in BOOLEAN : List!Drop(n, lower)
                    \/ \E to \in {n - 1, n + 1} : List!Arrow(n, to)
      PROVE  List!WrittenStaysGone
  BY <1>2, <1>4 DEF List!DragStart, List!Duplicate, List!Arm, List!Delete, List!Drop, List!Arrow
<1>5. ASSUME NEW x, \/ List!OpenEditor(x) \/ List!Disarm(x) \/ List!EditorSaves(x)
      PROVE  List!WrittenStaysGone
  BY <1>2, <1>5 DEF List!OpenEditor, List!Disarm, List!EditorSaves
<1>6. QED
  BY <1>1, <1>3, <1>4, <1>5 DEF List!ListNext

LEMMA ListInvariance == ASSUME ListBounds PROVE List!ListSpec => []ListInv
<1>1. List!ListInit => ListInv
  BY ListInvInit
<1>2. ListInv /\ [List!ListNext]_(List!listVars) => ListInv'
  BY ListNextKeeps
<1>3. QED
  BY <1>1, <1>2, PTL DEF List!ListSpec

\* A click on a row of an older drawing brings no deleted command back, and no
\* two commands share an id, whatever is dragged, duplicated, edited and
\* restored while writes are under way or fail; over restarts this holds of
\* every deletion that was written, and one that was not may come back with
\* the restart.
THEOREM DeletedForGood ==
    ASSUME ListBounds
    PROVE  List!ListSpec => /\ [](List!DeletedStaysGone /\ List!OneById)
                            /\ [][List!WrittenStaysGone]_(List!listVars)
<1>1. ListInv => List!DeletedStaysGone /\ List!OneById
  BY DEF ListInv, Distinct, List!OneById
<1>2. ListInv /\ ListInv' /\ [List!ListNext]_(List!listVars) => List!WrittenStaysGone
  BY WrittenKeeps
<1>3. QED
  BY <1>1, <1>2, ListInvariance, PTL DEF List!ListSpec

\* A command leaves the list by its own delete button, or with a restart that
\* found it never written.
THEOREM OnlyDeleteTakes ==
    ASSUME ListBounds
    PROVE  List!ListSpec => [][List!LeavesByDelete]_(List!listVars)
<1>1. ListInv /\ [List!ListNext]_(List!listVars) => List!LeavesByDelete
  BY ListNextKeeps
<1>2. QED
  BY <1>1, ListInvariance, PTL DEF List!ListSpec

-----------------------------------------------------------------------------
(* SessionLog, for any number of turns, steps and calls, and any cuts.     *)

LogBounds == {MaxTurns, MaxSteps, MaxBatch} \subseteq Nat /\ ProtectLastN \in Int

CallId == Nat \X Nat \X Nat
Message == [role : {"user", "assistant", "tool"}, turn : Nat, calls : Seq(CallId \cup {None})]
Entry == [type : {"user", "assistant", "call", "tool"}, turn : Nat, call : CallId \cup {None}]

Answers(m) == m.role = "tool"
CallOf(m) == m.calls[1]
Asks(m, c) == m.role = "assistant" /\ \E k \in 1 .. Len(m.calls) : m.calls[k] = c

\* A history of turns up to t in which every answer has its question before it.
WireOk(w, t) ==
    /\ w \in Seq(Message)
    /\ \A i \in 1 .. Len(w) : Answers(w[i]) =>
          /\ CallOf(w[i]) \in CallId /\ CallOf(w[i])[1] <= t
          /\ \E j \in 1 .. i - 1 : Asks(w[j], CallOf(w[i]))
    /\ \A i, j \in 1 .. Len(w) :
          (Answers(w[i]) /\ Answers(w[j]) /\ CallOf(w[i]) = CallOf(w[j])) => i = j

\* The same of an event log: every result has its call before it.
IdsOk(log, t) ==
    \A i \in 1 .. Len(log) : log[i].type \in {"call", "tool"} => log[i].call \in CallId /\ log[i].call[1] <= t

LogOk(log, t) ==
    /\ log \in Seq(Entry) /\ IdsOk(log, t)
    /\ \A i \in 1 .. Len(log) : log[i].type = "tool" =>
          \E j \in 1 .. i - 1 : log[j].type = "call" /\ log[j].call = log[i].call
    /\ \A i, j \in 1 .. Len(log) :
          (log[i].type = "tool" /\ log[j].type = "tool" /\ log[i].call = log[j].call) => i = j

LEMMA WireIsSound ==
    ASSUME NEW t \in Nat, NEW w, WireOk(w, t)
    PROVE  Log!Sound(w)
<1>1. w \in Seq(Message) /\ DOMAIN w = 1 .. Len(w)
  BY DEF WireOk
<1>2. ASSUME NEW i \in Log!AnswersOf(w)
      PROVE  /\ \E j \in 1 .. i - 1 : w[j].role = "assistant" /\ w[i].calls[1] \in Log!ToSet(w[j].calls)
             /\ \A j \in Log!AnswersOf(w) : w[j].calls = w[i].calls => i = j
  <2>1. i \in 1 .. Len(w) /\ Answers(w[i])
    BY <1>1 DEF Log!AnswersOf, Answers
  <2>2. PICK j \in 1 .. i - 1 : Asks(w[j], CallOf(w[i]))
    BY <2>1 DEF WireOk
  <2>3. w[j] \in Message
    BY <1>1, <2>1
  <2>4. w[j].calls \in Seq(CallId \cup {None})
    BY <2>3 DEF Message
  <2>5. PICK k \in 1 .. Len(w[j].calls) : w[j].calls[k] = w[i].calls[1]
    BY <2>2 DEF Asks, CallOf
  <2>6. w[i].calls[1] \in Log!ToSet(w[j].calls)
    BY <2>4, <2>5 DEF Log!ToSet
  <2>7. w[j].role = "assistant"
    BY <2>2 DEF Asks
  <2>8. ASSUME NEW l \in Log!AnswersOf(w), w[l].calls = w[i].calls PROVE i = l
    <3>1. l \in 1 .. Len(w) /\ Answers(w[l])
      BY <1>1 DEF Log!AnswersOf, Answers
    <3>2. CallOf(w[l]) = CallOf(w[i])
      BY <2>8 DEF CallOf
    <3>3. QED
      BY <2>1, <3>1, <3>2 DEF WireOk
  <2>9. QED
    BY <2>6, <2>7, <2>8
<1>3. QED
  BY <1>2 DEF Log!Sound

LEMMA WirePrefix ==
    ASSUME NEW t \in Nat, NEW w, WireOk(w, t), NEW n \in 0 .. Len(w)
    PROVE  WireOk(SubSeq(w, 1, n), t)
<1>1. PICK v : v = SubSeq(w, 1, n)
  OBVIOUS
<1>2. w \in Seq(Message) /\ Len(w) \in Nat
  BY DEF WireOk
<1>3. v \in Seq(Message) /\ Len(v) = n /\ \A i \in 1 .. n : v[i] = w[i]
  BY <1>1, <1>2
<1>4. \A i \in 1 .. Len(v) : i \in 1 .. Len(w) /\ v[i] = w[i]
  BY <1>2, <1>3
<1>5. ASSUME NEW i \in 1 .. Len(v), Answers(v[i])
      PROVE  /\ CallOf(v[i]) \in CallId /\ CallOf(v[i])[1] <= t
             /\ \E j \in 1 .. i - 1 : Asks(v[j], CallOf(v[i]))
  <2>1. i \in 1 .. Len(w) /\ Answers(w[i]) /\ v[i] = w[i]
    BY <1>4, <1>5
  <2>2. /\ CallOf(w[i]) \in CallId /\ CallOf(w[i])[1] <= t
        /\ \E j \in 1 .. i - 1 : Asks(w[j], CallOf(w[i]))
    BY <2>1 DEF WireOk
  <2>3. PICK j \in 1 .. i - 1 : Asks(w[j], CallOf(w[i]))
    BY <2>2
  <2>4. j \in 1 .. Len(v)
    BY <1>2, <1>3
  <2>5. v[j] = w[j]
    BY <1>4, <2>4
  <2>6. QED
    BY <2>1, <2>2, <2>3, <2>5
<1>6. ASSUME NEW i \in 1 .. Len(v), NEW j \in 1 .. Len(v),
             Answers(v[i]), Answers(v[j]), CallOf(v[i]) = CallOf(v[j])
      PROVE  i = j
  <2>1. /\ i \in 1 .. Len(w) /\ j \in 1 .. Len(w)
        /\ v[i] = w[i] /\ v[j] = w[j]
    BY <1>4
  <2>2. QED
    BY <1>6, <2>1 DEF WireOk
<1>7. WireOk(v, t)
  BY <1>3, <1>5, <1>6 DEF WireOk
<1>8. QED
  BY <1>1, <1>7

LEMMA WireLater ==
    ASSUME NEW t \in Nat, NEW w, WireOk(w, t), NEW u \in Nat, t <= u
    PROVE  WireOk(w, u)
<1>1. \A c \in CallId : c[1] \in Nat
  BY DEF CallId
<1>2. QED
  BY <1>1 DEF WireOk

\* An answer joins a history that holds its question and not its answer; what
\* is no answer joins any.
LEMMA WireAppend ==
    ASSUME NEW t \in Nat, NEW w, WireOk(w, t), NEW m \in Message,
           Answers(m) => /\ CallOf(m) \in CallId /\ CallOf(m)[1] <= t
                         /\ \E j \in 1 .. Len(w) : Asks(w[j], CallOf(m))
                         /\ \A i \in 1 .. Len(w) : Answers(w[i]) => CallOf(w[i]) # CallOf(m)
    PROVE  WireOk(Append(w, m), t)
<1>1. PICK v : v = Append(w, m)
  OBVIOUS
<1>2. w \in Seq(Message) /\ Len(w) \in Nat
  BY DEF WireOk
<1>3. PICK n \in Nat : n = Len(w)
  BY <1>2
<1>4. v \in Seq(Message) /\ Len(v) = n + 1 /\ v[n + 1] = m /\ \A i \in 1 .. n : v[i] = w[i]
  BY <1>1, <1>2, <1>3
<1>5. \A i \in 1 .. n + 1 : i \in 1 .. n \/ i = n + 1
  OBVIOUS
<1>6. \A i \in 1 .. n + 1 : Answers(v[i]) =>
          /\ CallOf(v[i]) \in CallId /\ CallOf(v[i])[1] <= t
          /\ \E j \in 1 .. i - 1 : Asks(v[j], CallOf(v[i]))
  <2>1. ASSUME NEW i \in 1 .. n, Answers(v[i])
        PROVE  /\ CallOf(v[i]) \in CallId /\ CallOf(v[i])[1] <= t
               /\ \E j \in 1 .. i - 1 : Asks(v[j], CallOf(v[i]))
    <3>1. PICK j \in 1 .. i - 1 : Asks(w[j], CallOf(w[i]))
      BY <1>3, <1>4, <2>1 DEF WireOk
    <3>2. j \in 1 .. n
      OBVIOUS
    <3>3. QED
      BY <1>3, <1>4, <2>1, <3>1, <3>2 DEF WireOk
  <2>2. ASSUME Answers(m)
        PROVE  /\ CallOf(m) \in CallId /\ CallOf(m)[1] <= t
               /\ \E j \in 1 .. (n + 1) - 1 : Asks(v[j], CallOf(m))
    <3>1. PICK j \in 1 .. n : Asks(w[j], CallOf(m))
      BY <1>3, <2>2
    <3>2. j \in 1 .. (n + 1) - 1 /\ v[j] = w[j]
      BY <1>4
    <3>3. QED
      BY <2>2, <3>1, <3>2
  <2>3. QED
    BY <1>4, <1>5, <2>1, <2>2
<1>7. \A i, j \in 1 .. n + 1 : (Answers(v[i]) /\ Answers(v[j]) /\ CallOf(v[i]) = CallOf(v[j])) => i = j
  <2>1. \A i, j \in 1 .. n : (Answers(v[i]) /\ Answers(v[j]) /\ CallOf(v[i]) = CallOf(v[j])) => i = j
    BY <1>3, <1>4 DEF WireOk
  <2>2. \A i \in 1 .. n : (Answers(v[i]) /\ Answers(m)) => CallOf(v[i]) # CallOf(m)
    BY <1>3, <1>4
  <2>3. QED
    BY <1>4, <1>5, <2>1, <2>2
<1>8. WireOk(v, t)
  BY <1>4, <1>6, <1>7 DEF WireOk
<1>9. QED
  BY <1>1, <1>8

LEMMA WireJoin ==
    ASSUME NEW t \in Nat, NEW w, NEW v, WireOk(w, t), WireOk(v, t),
           \A i \in 1 .. Len(w), j \in 1 .. Len(v) :
              (Answers(w[i]) /\ Answers(v[j])) => CallOf(w[i]) # CallOf(v[j])
    PROVE  WireOk(w \o v, t)
<1>1. PICK x : x = w \o v
  OBVIOUS
<1>2. w \in Seq(Message) /\ v \in Seq(Message)
  BY DEF WireOk
<1>3. PICK n \in Nat, m \in Nat : n = Len(w) /\ m = Len(v)
  BY <1>2
<1>4. /\ x \in Seq(Message) /\ Len(x) = n + m
      /\ \A i \in 1 .. n : x[i] = w[i]
      /\ \A i \in 1 .. m : x[n + i] = v[i]
  BY <1>1, <1>2, <1>3
<1>5. \A i \in 1 .. n + m : i \in 1 .. n \/ (i - n \in 1 .. m /\ i = n + (i - n))
  OBVIOUS
<1>6. ASSUME NEW i \in 1 .. n + m, Answers(x[i])
      PROVE  /\ CallOf(x[i]) \in CallId /\ CallOf(x[i])[1] <= t
             /\ \E j \in 1 .. i - 1 : Asks(x[j], CallOf(x[i]))
  <2>1. CASE i \in 1 .. n
    <3>1. x[i] = w[i]
      BY <1>4, <2>1
    <3>2. PICK j \in 1 .. i - 1 : Asks(w[j], CallOf(w[i]))
      BY <1>3, <1>6, <2>1, <3>1 DEF WireOk
    <3>3. x[j] = w[j]
      BY <1>4, <2>1
    <3>4. QED
      BY <1>3, <1>6, <2>1, <3>1, <3>2, <3>3 DEF WireOk
  <2>2. CASE i - n \in 1 .. m
    <3>1. PICK k \in 1 .. m : k = i - n /\ i = n + k
      BY <2>2
    <3>2. x[i] = v[k]
      BY <1>4, <3>1
    <3>3. PICK j \in 1 .. k - 1 : Asks(v[j], CallOf(v[k]))
      BY <1>3, <1>6, <3>2 DEF WireOk
    <3>4. j \in 1 .. m /\ n + j \in 1 .. i - 1
      BY <3>1
    <3>5. x[n + j] = v[j]
      BY <1>4, <3>4
    <3>6. QED
      BY <1>3, <1>6, <3>2, <3>3, <3>4, <3>5 DEF WireOk
  <2>3. QED
    BY <1>5, <2>1, <2>2
<1>7. ASSUME NEW i \in 1 .. n + m, NEW j \in 1 .. n + m, i <= j,
             Answers(x[i]), Answers(x[j]), CallOf(x[i]) = CallOf(x[j])
      PROVE  i = j
  <2>1. CASE i \in 1 .. n /\ j \in 1 .. n
    BY <1>3, <1>4, <1>7, <2>1 DEF WireOk
  <2>2. CASE i \in 1 .. n /\ j - n \in 1 .. m
    <3>1. PICK k \in 1 .. m : j = n + k
      BY <2>2
    <3>2. x[i] = w[i] /\ x[j] = v[k]
      BY <1>4, <2>2, <3>1
    <3>3. QED
      BY <1>3, <1>7, <2>2, <3>2
  <2>3. CASE i - n \in 1 .. m /\ j - n \in 1 .. m
    <3>1. PICK k \in 1 .. m, l \in 1 .. m : i = n + k /\ j = n + l
      BY <2>3
    <3>2. x[i] = v[k] /\ x[j] = v[l]
      BY <1>4, <3>1
    <3>3. k = l
      BY <1>3, <1>7, <3>2 DEF WireOk
    <3>4. QED
      BY <3>1, <3>3
  <2>4. QED
    BY <1>5, <1>7, <2>1, <2>2, <2>3
<1>8. \A i, j \in 1 .. n + m :
          (Answers(x[i]) /\ Answers(x[j]) /\ CallOf(x[i]) = CallOf(x[j])) => i = j
  <2>1. ASSUME NEW i \in 1 .. n + m, NEW j \in 1 .. n + m,
               Answers(x[i]), Answers(x[j]), CallOf(x[i]) = CallOf(x[j])
        PROVE  i = j
    <3>1. i <= j \/ j <= i
      OBVIOUS
    <3>2. QED
      BY <1>7, <2>1, <3>1
  <2>2. QED
    BY <2>1
<1>9. WireOk(x, t)
  BY <1>4, <1>6, <1>8 DEF WireOk
<1>10. QED
  BY <1>1, <1>9

\* A sequence with a prefix of its elements: what a cut of the log leaves.
LEMMA LogPrefix ==
    ASSUME NEW t \in Nat, NEW log, LogOk(log, t), NEW n \in 0 .. Len(log)
    PROVE  LogOk(SubSeq(log, 1, n), t)
<1>1. PICK v : v = SubSeq(log, 1, n)
  OBVIOUS
<1>2. log \in Seq(Entry) /\ Len(log) \in Nat
  BY DEF LogOk
<1>3. v \in Seq(Entry) /\ Len(v) = n /\ \A i \in 1 .. n : v[i] = log[i]
  BY <1>1, <1>2
<1>4. \A i \in 1 .. n : i \in 1 .. Len(log) /\ \A j \in 1 .. i - 1 : j \in 1 .. n
  BY <1>2
<1>5. IdsOk(v, t)
  BY <1>3, <1>4 DEF LogOk, IdsOk
<1>6. ASSUME NEW i \in 1 .. n, v[i].type = "tool"
      PROVE  \E j \in 1 .. i - 1 : v[j].type = "call" /\ v[j].call = v[i].call
  <2>1. PICK j \in 1 .. i - 1 : log[j].type = "call" /\ log[j].call = log[i].call
    BY <1>3, <1>4, <1>6 DEF LogOk
  <2>2. v[j] = log[j] /\ v[i] = log[i]
    BY <1>3, <1>4
  <2>3. QED
    BY <2>1, <2>2
<1>7. \A i, j \in 1 .. n : (v[i].type = "tool" /\ v[j].type = "tool" /\ v[i].call = v[j].call) => i = j
  BY <1>3, <1>4 DEF LogOk
<1>8. LogOk(v, t)
  BY <1>3, <1>5, <1>6, <1>7 DEF LogOk
<1>9. QED
  BY <1>1, <1>8

LEMMA LogLater ==
    ASSUME NEW t \in Nat, NEW log, LogOk(log, t), NEW u \in Nat, t <= u
    PROVE  LogOk(log, u)
<1>1. \A c \in CallId : c[1] \in Nat
  BY DEF CallId
<1>2. QED
  BY <1>1 DEF LogOk, IdsOk

\* A result joins a log that holds its call and not the result; what is no
\* result joins any.
LEMMA LogAppend ==
    ASSUME NEW t \in Nat, NEW log, LogOk(log, t), NEW e \in Entry,
           e.type \in {"call", "tool"} => e.call \in CallId /\ e.call[1] <= t,
           e.type = "tool" =>
              /\ \E j \in 1 .. Len(log) : log[j].type = "call" /\ log[j].call = e.call
              /\ \A i \in 1 .. Len(log) : log[i].type = "tool" => log[i].call # e.call
    PROVE  LogOk(Append(log, e), t)
<1>1. PICK v : v = Append(log, e)
  OBVIOUS
<1>2. log \in Seq(Entry) /\ Len(log) \in Nat
  BY DEF LogOk
<1>3. PICK n \in Nat : n = Len(log)
  BY <1>2
<1>4. v \in Seq(Entry) /\ Len(v) = n + 1 /\ v[n + 1] = e /\ \A i \in 1 .. n : v[i] = log[i]
  BY <1>1, <1>2, <1>3
<1>5. \A i \in 1 .. n + 1 : i \in 1 .. n \/ i = n + 1
  OBVIOUS
<1>6. IdsOk(v, t)
  <2>1. \A i \in 1 .. n : v[i].type \in {"call", "tool"} => v[i].call \in CallId /\ v[i].call[1] <= t
    BY <1>3, <1>4 DEF LogOk, IdsOk
  <2>2. QED
    BY <1>4, <1>5, <2>1 DEF IdsOk
<1>7. \A i \in 1 .. n + 1 : v[i].type = "tool" =>
          \E j \in 1 .. i - 1 : v[j].type = "call" /\ v[j].call = v[i].call
  <2>1. ASSUME NEW i \in 1 .. n, v[i].type = "tool"
        PROVE  \E j \in 1 .. i - 1 : v[j].type = "call" /\ v[j].call = v[i].call
    <3>1. PICK j \in 1 .. i - 1 : log[j].type = "call" /\ log[j].call = log[i].call
      BY <1>3, <1>4, <2>1 DEF LogOk
    <3>2. j \in 1 .. n
      OBVIOUS
    <3>3. QED
      BY <1>4, <3>1, <3>2
  <2>2. ASSUME e.type = "tool"
        PROVE  \E j \in 1 .. (n + 1) - 1 : v[j].type = "call" /\ v[j].call = e.call
    <3>1. PICK j \in 1 .. n : log[j].type = "call" /\ log[j].call = e.call
      BY <1>3, <2>2
    <3>2. j \in 1 .. (n + 1) - 1 /\ v[j] = log[j]
      BY <1>4
    <3>3. QED
      BY <3>1, <3>2
  <2>3. QED
    BY <1>4, <1>5, <2>1, <2>2
<1>8. \A i, j \in 1 .. n + 1 :
          (v[i].type = "tool" /\ v[j].type = "tool" /\ v[i].call = v[j].call) => i = j
  <2>1. \A i, j \in 1 .. n :
          (v[i].type = "tool" /\ v[j].type = "tool" /\ v[i].call = v[j].call) => i = j
    BY <1>3, <1>4 DEF LogOk
  <2>2. \A i \in 1 .. n : (v[i].type = "tool" /\ e.type = "tool") => v[i].call # e.call
    BY <1>3, <1>4
  <2>3. QED
    BY <1>4, <1>5, <2>1, <2>2
<1>9. LogOk(v, t)
  BY <1>4, <1>6, <1>7, <1>8 DEF LogOk
<1>10. QED
  BY <1>1, <1>9

-----------------------------------------------------------------------------
(* Messages made of a log.                                                 *)

LEMMA LogKept == \A s, P : Log!KeepAt(s, P) = KeepAt(s, P)
BY DEF Log!KeepAt, KeepAt, Log!Rank, Rank, Log!Cardinality, Cardinality

IdsOf(log) == [j \in DOMAIN log |-> log[j].call]
GroupCalls(log, i) == {j \in Log!Group(log, i) : log[j].type \in {"call", "tool"}}
Openers(log) == {i \in DOMAIN log : Log!Opens(log, i)}

\* The message of event i: its role, and the calls and results of its group.
LEMMA ToldIs ==
    ASSUME NEW log \in Seq(Entry), NEW i \in 1 .. Len(log)
    PROVE  /\ Log!Told(log, i) \in Message
           /\ Log!Told(log, i).role = IF log[i].type = "call" THEN "assistant" ELSE log[i].type
           /\ Log!Told(log, i).calls = KeepAt(IdsOf(log), GroupCalls(log, i))
           /\ GroupCalls(log, i) \in SUBSET (1 .. Len(log))
           /\ IdsOf(log) \in Seq(CallId \cup {None}) /\ Len(IdsOf(log)) = Len(log)
<1>1. Len(log) \in Nat /\ DOMAIN log = 1 .. Len(log) /\ \A j \in 1 .. Len(log) : log[j] \in Entry
  OBVIOUS
<1>2. \A j \in 1 .. Len(log) : log[j].call \in CallId \cup {None}
  BY <1>1 DEF Entry
<1>3. IdsOf(log) \in Seq(CallId \cup {None}) /\ Len(IdsOf(log)) = Len(log)
  BY <1>1, <1>2 DEF IdsOf
<1>4. GroupCalls(log, i) \in SUBSET (1 .. Len(log))
  BY <1>1 DEF GroupCalls, Log!Group
<1>5. PICK c : c = KeepAt(IdsOf(log), GroupCalls(log, i))
  OBVIOUS
<1>6. c \in Seq(CallId \cup {None})
  BY <1>1, <1>3, <1>4, <1>5, KeptPlaces
<1>7. PICK r : r = IF log[i].type = "call" THEN "assistant" ELSE log[i].type
  OBVIOUS
<1>8. r \in {"user", "assistant", "tool"} /\ log[i].turn \in Nat
  BY <1>1, <1>7 DEF Entry
<1>9. Log!Told(log, i) = [role |-> r, turn |-> log[i].turn, calls |-> c]
  BY <1>5, <1>7, LogKept DEF Log!Told, Log!Msg, IdsOf, GroupCalls
<1>10. QED
  BY <1>3, <1>4, <1>5, <1>6, <1>7, <1>8, <1>9 DEF Message

\* The message of a result answers the call of that result.
LEMMA ToldResult ==
    ASSUME NEW log \in Seq(Entry), NEW i \in 1 .. Len(log), log[i].type = "tool"
    PROVE  CallOf(Log!Told(log, i)) = log[i].call
<1>1. Len(log) \in Nat /\ DOMAIN log = 1 .. Len(log)
  OBVIOUS
<1>2. ASSUME NEW j \in Log!Group(log, i) PROVE j = i
  <2>1. j \in i .. Len(log) /\ \A k \in i + 1 .. j : ~ Log!Opens(log, k)
    BY DEF Log!Group
  <2>2. Log!Opens(log, i + 1)
    <3>1. (i + 1) - 1 = i
      OBVIOUS
    <3>2. QED
      BY <3>1 DEF Log!Opens
  <2>3. j # i => i + 1 \in i + 1 .. j
    BY <1>1, <2>1
  <2>4. QED
    BY <2>1, <2>2, <2>3
<1>3. i \in Log!Group(log, i)
  <2>1. i \in i .. Len(log) /\ \A k \in i + 1 .. i : FALSE
    BY <1>1
  <2>2. QED
    BY <2>1 DEF Log!Group
<1>4. GroupCalls(log, i) = {i}
  BY <1>2, <1>3 DEF GroupCalls
<1>5. Cardinality({i}) = 1
  BY FS_Singleton
<1>6. PICK P : P = {i}
  OBVIOUS
<1>7. P \in SUBSET (1 .. Len(log)) /\ i \in P /\ Cardinality(P) = 1
  BY <1>5, <1>6
<1>8. IdsOf(log) \in Seq(CallId \cup {None}) /\ Len(log) = Len(IdsOf(log))
  BY ToldIs
<1>9. Rank(P, i) \in 1 .. Cardinality(P) /\ KeepAt(IdsOf(log), P)[Rank(P, i)] = IdsOf(log)[i]
  BY <1>1, <1>7, <1>8, KeptElement
<1>10. Rank(P, i) = 1
  BY <1>7, <1>9
<1>11. Log!Told(log, i).calls = KeepAt(IdsOf(log), P)
  BY <1>4, <1>6, ToldIs
<1>12. IdsOf(log)[i] = log[i].call
  BY <1>1 DEF IdsOf
<1>13. QED
  BY <1>9, <1>10, <1>11, <1>12 DEF CallOf

\* A call of the log is in a message that opens no later than the call.
LEMMA ToldCall ==
    ASSUME NEW log \in Seq(Entry), NEW j \in 1 .. Len(log), log[j].type = "call"
    PROVE  \E o \in Openers(log) : o <= j /\ Asks(Log!Told(log, o), log[j].call)
<1>1. Len(log) \in Nat /\ DOMAIN log = 1 .. Len(log) /\ j \in Nat /\ j >= 1 /\ j <= Len(log)
  OBVIOUS
<1> DEFINE S == {o \in Openers(log) : o <= j}
<1>2. Openers(log) \subseteq 1 .. Len(log)
  BY <1>1 DEF Openers
<1>3. 1 \in Openers(log)
  <2>1. 1 \in DOMAIN log
    BY <1>1
  <2>2. QED
    BY <2>1 DEF Openers, Log!Opens
<1>4. S \in SUBSET (0 .. j) /\ S # {}
  BY <1>1, <1>2, <1>3
<1>5. \E x \in S : \A y \in S : x >= y
  <2> HIDE DEF S
  <2>1. QED
    BY <1>1, <1>4, LargestOf
<1>6. PICK o \in S : \A y \in S : o >= y
  BY <1>5
<1>7. o \in Openers(log) /\ o <= j /\ o \in 1 .. Len(log)
  BY <1>2, <1>6
<1>8. ASSUME NEW k \in o + 1 .. j PROVE ~ Log!Opens(log, k)
  <2>1. k \in 1 .. Len(log) /\ k <= j /\ k > o
    BY <1>1, <1>7
  <2>2. Log!Opens(log, k) => k \in S
    BY <1>1, <2>1 DEF Openers
  <2>3. k \in S => o >= k
    BY <1>6
  <2>4. QED
    BY <1>7, <2>1, <2>2, <2>3
<1>9. j \in GroupCalls(log, o)
  <2>1. j \in o .. Len(log)
    BY <1>1, <1>7
  <2>2. QED
    BY <1>8, <2>1 DEF GroupCalls, Log!Group
<1>10. log[o].type \in {"assistant", "call"}
  <2>1. CASE o = j
    BY <2>1
  <2>2. CASE o # j
    <3>1. o + 1 \in o + 1 .. j /\ (o + 1) - 1 = o
      BY <1>1, <1>7, <2>2
    <3>2. ~ Log!Opens(log, o + 1)
      BY <1>8, <3>1
    <3>3. QED
      BY <3>1, <3>2 DEF Log!Opens
  <2>3. QED
    BY <2>1, <2>2
<1>11. PICK P : P = GroupCalls(log, o)
  OBVIOUS
<1>12. /\ Log!Told(log, o).role = IF log[o].type = "call" THEN "assistant" ELSE log[o].type
       /\ Log!Told(log, o).calls = KeepAt(IdsOf(log), P)
       /\ P \in SUBSET (1 .. Len(log))
       /\ IdsOf(log) \in Seq(CallId \cup {None}) /\ Len(log) = Len(IdsOf(log))
  BY <1>7, <1>11, ToldIs
<1>13. j \in P
  BY <1>9, <1>11
<1>14. /\ KeepAt(IdsOf(log), P) \in Seq(CallId \cup {None})
       /\ Len(KeepAt(IdsOf(log), P)) = Cardinality(P)
  BY <1>1, <1>12, KeptPlaces
<1>15. Rank(P, j) \in 1 .. Cardinality(P) /\ KeepAt(IdsOf(log), P)[Rank(P, j)] = IdsOf(log)[j]
  BY <1>1, <1>12, <1>13, KeptElement
<1>16. IdsOf(log)[j] = log[j].call
  BY <1>1 DEF IdsOf
<1>17. Log!Told(log, o).role = "assistant"
  BY <1>10, <1>12
<1>18. Asks(Log!Told(log, o), log[j].call)
  BY <1>12, <1>14, <1>15, <1>16, <1>17 DEF Asks
<1>19. QED
  BY <1>7, <1>18

\* What the log tells is a history like any other.
LEMMA ToldOk ==
    ASSUME NEW t \in Nat, NEW log, LogOk(log, t)
    PROVE  WireOk(Log!ToWire(log), t)
<1>1. log \in Seq(Entry) /\ Len(log) \in Nat /\ DOMAIN log = 1 .. Len(log)
  BY DEF LogOk
<1> DEFINE M == [i \in DOMAIN log |-> Log!Told(log, i)]
<1>2. PICK s : s = M
  OBVIOUS
<1>3. \A i \in 1 .. Len(log) : Log!Told(log, i) \in Message
  BY <1>1, ToldIs
<1>4. s \in Seq(Message) /\ Len(s) = Len(log) /\ \A i \in 1 .. Len(log) : s[i] = Log!Told(log, i)
  BY <1>1, <1>2, <1>3
<1>5. PICK P : P = Openers(log)
  OBVIOUS
<1>6. P \in SUBSET (1 .. Len(log)) /\ \A i \in P : i \in Int
  BY <1>1, <1>5 DEF Openers
<1>7. PICK w : w = KeepAt(s, P)
  OBVIOUS
<1>8. w = Log!ToWire(log)
  BY <1>2, <1>5, <1>7, LogKept DEF Log!ToWire, Openers
<1>9. PICK n : n = Cardinality(P)
  OBVIOUS
<1>10. /\ w \in Seq(Message) /\ Len(w) = n /\ n \in Nat
       /\ \A k \in 1 .. n : \E i \in P : Rank(P, i) = k /\ w[k] = s[i]
  <2>1. PICK v : v = KeepAt(s, P)
    OBVIOUS
  <2>2. /\ s \in Seq(Message) /\ Len(log) \in Nat /\ P \in SUBSET (1 .. Len(log)) /\ Len(log) = Len(s)
    BY <1>1, <1>4, <1>6
  <2>3. /\ KeepAt(s, P) \in Seq(Message) /\ Len(KeepAt(s, P)) = Cardinality(P) /\ Cardinality(P) \in Nat
        /\ \A k \in 1 .. Cardinality(P) : \E i \in P : Rank(P, i) = k /\ KeepAt(s, P)[k] = s[i]
    <3>1. PICK c : c = Len(log)
      OBVIOUS
    <3>2. s \in Seq(Message) /\ c \in Nat /\ P \in SUBSET (1 .. c) /\ c = Len(s)
      BY <2>2, <3>1
    <3>3. PICK T : T = Message
      OBVIOUS
    <3>4. s \in Seq(T)
      BY <3>2, <3>3
    <3>5. /\ KeepAt(s, P) \in Seq(T) /\ Len(KeepAt(s, P)) = Cardinality(P) /\ Cardinality(P) \in Nat
          /\ \A k \in 1 .. Cardinality(P) : \E i \in P : Rank(P, i) = k /\ KeepAt(s, P)[k] = s[i]
      BY <3>2, <3>4, KeptPlaces
    <3>6. QED
      BY <3>3, <3>5
  <2>4. w = v
    BY <1>7, <2>1
  <2>5. v \in Seq(Message) /\ Len(v) = n /\ n \in Nat
    BY <1>9, <2>1, <2>3
  <2>6. \A k \in 1 .. n : \E i \in P : Rank(P, i) = k /\ v[k] = s[i]
    BY <1>9, <2>1, <2>3
  <2>7. QED
    BY <2>4, <2>5, <2>6
<1>11. \A i \in P : Rank(P, i) \in 1 .. n /\ w[Rank(P, i)] = s[i]
  BY <1>1, <1>4, <1>6, <1>7, <1>9, KeptElement
<1>12. ASSUME NEW k \in 1 .. n, Answers(w[k])
       PROVE  \E i \in P : Rank(P, i) = k /\ log[i].type = "tool" /\ CallOf(w[k]) = log[i].call
  <2>1. PICK i \in P : Rank(P, i) = k /\ w[k] = s[i]
    BY <1>10
  <2>2. i \in 1 .. Len(log) /\ w[k] = Log!Told(log, i)
    BY <1>4, <1>6, <2>1
  <2>3. Log!Told(log, i).role = IF log[i].type = "call" THEN "assistant" ELSE log[i].type
    BY <1>1, <2>2, ToldIs
  <2>4. log[i].type = "tool"
    BY <1>12, <2>2, <2>3 DEF Answers
  <2>5. QED
    BY <1>1, <2>1, <2>2, <2>4, ToldResult
<1>13. ASSUME NEW k \in 1 .. n, Answers(w[k])
       PROVE  /\ CallOf(w[k]) \in CallId /\ CallOf(w[k])[1] <= t
              /\ \E l \in 1 .. k - 1 : Asks(w[l], CallOf(w[k]))
  <2>1. PICK i \in P : Rank(P, i) = k /\ log[i].type = "tool" /\ CallOf(w[k]) = log[i].call
    BY <1>12, <1>13
  <2>2. i \in 1 .. Len(log)
    BY <1>6
  <2>3. CallOf(w[k]) \in CallId /\ CallOf(w[k])[1] <= t
    BY <2>1, <2>2 DEF LogOk, IdsOk
  <2>4. PICK j \in 1 .. i - 1 : log[j].type = "call" /\ log[j].call = log[i].call
    BY <2>1, <2>2 DEF LogOk
  <2>5. j \in 1 .. Len(log) /\ j < i
    BY <1>1, <2>2
  <2>6. PICK o \in Openers(log) : o <= j /\ Asks(Log!Told(log, o), log[j].call)
    BY <1>1, <2>4, <2>5, ToldCall
  <2>7. o \in P /\ o \in 1 .. Len(log) /\ o < i
    BY <1>5, <1>6, <2>2, <2>5, <2>6
  <2>8. Rank(P, o) < Rank(P, i)
    BY <1>1, <1>6, <2>7, RankGrows
  <2>9. Rank(P, o) \in 1 .. n /\ w[Rank(P, o)] = Log!Told(log, o)
    BY <1>4, <1>11, <2>7
  <2>10. Rank(P, o) \in 1 .. k - 1
    BY <2>1, <2>8, <2>9
  <2>11. QED
    BY <2>1, <2>3, <2>4, <2>6, <2>9, <2>10
<1>14. ASSUME NEW k \in 1 .. n, NEW l \in 1 .. n, Answers(w[k]), Answers(w[l]), CallOf(w[k]) = CallOf(w[l])
       PROVE  k = l
  <2>1. PICK i \in P : Rank(P, i) = k /\ log[i].type = "tool" /\ CallOf(w[k]) = log[i].call
    BY <1>12, <1>14
  <2>2. PICK j \in P : Rank(P, j) = l /\ log[j].type = "tool" /\ CallOf(w[l]) = log[j].call
    BY <1>12, <1>14
  <2>3. i = j
    BY <1>6, <1>14, <2>1, <2>2 DEF LogOk
  <2>4. QED
    BY <2>1, <2>2, <2>3
<1>15. WireOk(w, t)
  BY <1>10, <1>13, <1>14 DEF WireOk
<1>16. QED
  BY <1>8, <1>15

-----------------------------------------------------------------------------
(* The run under way.                                                      *)

\* No answer of the history is to a call of turn t.
Older(w, t) == \A i \in 1 .. Len(w) : Answers(w[i]) => CallOf(w[i])[1] < t

\* What the run made answers calls of its own; those still to do were asked
\* for, are not answered yet, and differ.
Progress(t, step, todo, made) ==
    /\ step \in Nat /\ todo \in Seq(CallId) /\ WireOk(made, t)
    /\ \A i \in 1 .. Len(made) : Answers(made[i]) =>
          /\ CallOf(made[i])[1] = t /\ CallOf(made[i])[2] <= step
          /\ \A k \in 1 .. Len(todo) : todo[k] # CallOf(made[i])
    /\ \A k \in 1 .. Len(todo) :
          /\ todo[k][1] = t /\ todo[k][2] <= step
          /\ \E j \in 1 .. Len(made) : Asks(made[j], todo[k])
    /\ \A k, l \in 1 .. Len(todo) : todo[k] = todo[l] => k = l

\* The results in the log are of older turns, or were answered by this run.
ToolsLogged(e, t, made) ==
    \A i \in 1 .. Len(e) : e[i].type = "tool" =>
        \/ e[i].call[1] < t
        \/ \E j \in 1 .. Len(made) : Answers(made[j]) /\ CallOf(made[j]) = e[i].call

CallLogged(e, c) == \E i \in 1 .. Len(e) : e[i].type = "call" /\ e[i].call = c

RunFields == {"turn", "stage", "step", "todo", "made", "sent"}

Working(r, t, w, e) ==
    /\ DOMAIN r = RunFields /\ r.turn = t
    /\ Progress(t, r.step, r.todo, r.made)
    /\ Older(w, t) /\ ToolsLogged(e, t, r.made)
    /\ r.stage = "calling" => r.todo # <<>> /\ CallLogged(e, r.todo[1])

FileOk(f, t) == WireOk(f.messages, t) /\ LogOk(f.events, t) /\ f.cache.upto \in Nat

LogInv ==
    /\ logAsked \in 0 .. MaxTurns
    /\ WireOk(logWire, logAsked) /\ LogOk(logEvents, logAsked) /\ logCache.upto \in Nat
    /\ logFile # None => FileOk(logFile, logAsked)
    /\ logRun # None => Working(logRun, logAsked, logWire, logEvents)

\* What the constructor of a message makes.
LEMMA MsgIs ==
    ASSUME NEW role \in {"user", "assistant", "tool"}, NEW t \in Nat, NEW c \in Seq(CallId \cup {None})
    PROVE  Log!Msg(role, t, c) \in Message /\ Log!Msg(role, t, c).role = role
  BY DEF Message, Log!Msg

LEMMA NothingOk ==
    ASSUME NEW t \in Nat
    PROVE  WireOk(<<>>, t) /\ LogOk(<<>>, t)
<1>1. <<>> \in Seq(Message) /\ <<>> \in Seq(Entry) /\ Len(<<>>) = 0
  OBVIOUS
<1>2. \A i \in 1 .. 0 : FALSE
  OBVIOUS
<1>3. QED
  BY <1>1, <1>2 DEF WireOk, LogOk, IdsOk

LEMMA CutLog ==
    ASSUME NEW t \in Nat, NEW log, LogOk(log, t), NEW n
    PROVE  LogOk(Log!Truncated(log, n), t)
<1> DEFINE weight(i) == Log!Cardinality({j \in 1 .. i : log[j].type # "call"})
           ends == {i \in DOMAIN log : log[i].type # "call" /\ weight(i) <= n}
           S == ends \cup {0}
           at == CHOOSE i \in S : \A j \in ends : j <= i
<1>1. log \in Seq(Entry) /\ Len(log) \in Nat /\ DOMAIN log = 1 .. Len(log)
  BY DEF LogOk
<1> HIDE DEF weight
<1>2. S \in SUBSET (0 .. Len(log)) /\ S # {} /\ ends \subseteq S
  BY <1>1
<1> HIDE DEF ends
<1>3. \E x \in S : \A y \in S : x >= y
  <2> HIDE DEF S
  <2>1. QED
    BY <1>1, <1>2, LargestOf
<1>4. \E x \in S : \A y \in ends : y <= x
  <2>1. PICK x \in S : \A y \in S : x >= y
    BY <1>3
  <2>2. \A y \in ends : y \in S /\ y <= x
    BY <1>1, <1>2, <2>1
  <2>3. QED
    BY <2>1, <2>2
<1>5. at \in S
  <2> HIDE DEF S
  <2>1. QED
    BY <1>4
<1>6. Log!Truncated(log, n) = SubSeq(log, 1, at)
  BY DEF Log!Truncated, S, ends, at, weight
<1> HIDE DEF at
<1>7. at \in 0 .. Len(log)
  BY <1>2, <1>5
<1>8. QED
  BY <1>6, <1>7, LogPrefix

\* A prompt starts a turn later than all there are.
LEMMA AskKeeps == ASSUME LogBounds, LogInv, Log!Ask PROVE LogInv'
<1> DEFINE t == logAsked + 1
           m == Log!Msg("user", t, <<>>)
           e == Log!Event("user", t, None)
<1>1. logAsked \in Nat /\ t \in Nat /\ logAsked <= t /\ logAsked < t /\ t \in 0 .. MaxTurns
  BY DEF LogBounds, LogInv, Log!Ask
<1>2. /\ logAsked' = t /\ logWire' = Append(logWire, m) /\ logEvents' = Append(logEvents, e)
      /\ logCache' = logCache /\ logFile' = logFile
      /\ logRun' = [turn |-> t, stage |-> "prepare", step |-> 0, todo |-> <<>>, made |-> <<>>, sent |-> <<>>]
  BY DEF Log!Ask
<1>3. m \in Message /\ ~ Answers(m)
  <2>1. <<>> \in Seq(CallId \cup {None}) /\ "user" \in {"user", "assistant", "tool"}
    OBVIOUS
  <2> HIDE DEF t
  <2>2. m \in Message /\ m.role = "user"
    BY <1>1, <2>1, MsgIs
  <2> HIDE DEF m
  <2>3. QED
    BY <2>2 DEF Answers
<1>4. e \in Entry /\ e.type = "user"
  BY <1>1 DEF Log!Event, Entry
<1> HIDE DEF t, m, e
<1>5. WireOk(logWire, t) /\ LogOk(logEvents, t)
  BY <1>1, WireLater, LogLater DEF LogInv
<1>6. WireOk(logWire', t)
  BY <1>1, <1>2, <1>3, <1>5, WireAppend
<1>7. LogOk(logEvents', t)
  BY <1>1, <1>2, <1>4, <1>5, LogAppend
<1>8. logFile # None => FileOk(logFile, t)
  BY <1>1, WireLater, LogLater DEF LogInv, FileOk
<1>9. Older(logWire', t)
  <2>1. logWire \in Seq(Message) /\ \A i \in 1 .. Len(logWire) : Answers(logWire[i]) => CallOf(logWire[i])[1] < t
    <3>1. \A c \in CallId : c[1] \in Nat
      BY DEF CallId
    <3>2. QED
      BY <1>1, <3>1 DEF LogInv, WireOk
  <2>2. \A i \in 1 .. Len(logWire') : logWire'[i] = m \/ (i \in 1 .. Len(logWire) /\ logWire'[i] = logWire[i])
    BY <1>2, <1>3, <2>1
  <2>3. QED
    BY <1>3, <2>1, <2>2 DEF Older
<1>10. ToolsLogged(logEvents', t, <<>>)
  <2>1. logEvents \in Seq(Entry) /\ \A i \in 1 .. Len(logEvents) : logEvents[i].type = "tool" => logEvents[i].call[1] < t
    <3>1. \A c \in CallId : c[1] \in Nat
      BY DEF CallId
    <3>2. QED
      BY <1>1, <3>1 DEF LogInv, LogOk, IdsOk
  <2>2. \A i \in 1 .. Len(logEvents') : logEvents'[i] = e \/ (i \in 1 .. Len(logEvents) /\ logEvents'[i] = logEvents[i])
    BY <1>2, <1>4, <2>1
  <2>3. QED
    BY <1>4, <2>1, <2>2 DEF ToolsLogged
<1>11. Progress(t, 0, <<>>, <<>>)
  <2>1. <<>> \in Seq(CallId) /\ Len(<<>>) = 0 /\ \A i \in 1 .. 0 : FALSE
    OBVIOUS
  <2>2. QED
    BY <1>1, <2>1, NothingOk DEF Progress
<1>12. Working(logRun', t, logWire', logEvents')
  BY <1>2, <1>9, <1>10, <1>11 DEF Working, RunFields
<1>13. QED
  BY <1>1, <1>2, <1>6, <1>7, <1>8, <1>12 DEF LogInv

\* What the history, the summary and the file are while the run moves on.
LEMMA RunMoves ==
    ASSUME LogBounds, LogInv, LogOk(logEvents', logAsked), logCache'.upto \in Nat,
           logWire' = logWire, logFile' = logFile, logAsked' = logAsked,
           Working(logRun', logAsked, logWire, logEvents')
    PROVE  LogInv'
  BY DEF LogInv

LEMMA ValidIs ==
    ASSUME NEW h, NEW c, c.upto \in Nat
    PROVE  Log!Valid(h, c).upto \in Nat
<1>1. Log!NoCache.upto = 0
  BY DEF Log!NoCache
<1>2. QED
  BY <1>1 DEF Log!Valid

\* What is sent after the summary is put before the rest is a sequence.
LEMMA AppliedIs ==
    ASSUME NEW t \in Nat, NEW w, WireOk(w, t), NEW c, c.upto \in Nat
    PROVE  Len(Log!Applied(w, c)) \in Nat
<1>1. w \in Seq(Message) /\ Len(w) \in Nat
  BY DEF WireOk
<1>2. Log!Valid(w, c).upto \in Nat
  BY ValidIs
<1> DEFINE from == Log!Valid(w, c).upto + 1
           S == Message \cup {Log!Note}
<1>3. from \in Nat /\ from >= 1
  BY <1>2
<1> HIDE DEF from
<1>4. SubSeq(w, from, Len(w)) \in Seq(S)
  BY <1>1, <1>3
<1>5. <<Log!Note>> \in Seq(S)
  OBVIOUS
<1> HIDE DEF S
<1>6. <<Log!Note>> \o SubSeq(w, from, Len(w)) \in Seq(S)
  BY <1>4, <1>5
<1>7. Log!Applied(w, c) = w \/ Log!Applied(w, c) = <<Log!Note>> \o SubSeq(w, from, Len(w))
  BY DEF Log!Applied, from
<1>8. PICK x : x = Log!Applied(w, c)
  OBVIOUS
<1>9. x \in Seq(Message) \/ x \in Seq(S)
  BY <1>1, <1>6, <1>7, <1>8
<1>10. Len(x) \in Nat
  BY <1>9
<1>11. QED
  BY <1>8, <1>10

\* Where the verbatim tail starts.
LEMMA TailStart ==
    ASSUME NEW base, NEW n \in Int, Len(base) \in Nat
    PROVE  Log!Boundaries(base) \subseteq Nat /\ Log!ProtectedStart(base, n) \in Nat
<1> DEFINE B == Log!Boundaries(base)
           S == {s \in B : s = 0 \/ s <= Len(base) - n}
<1>1. B \subseteq 0 .. Len(base) /\ 0 \in B
  BY DEF Log!Boundaries
<1>2. S \in SUBSET (0 .. Len(base)) /\ S # {}
  BY <1>1
<1>3. \E x \in S : \A y \in S : x >= y
  <2> HIDE DEF S
  <2>1. QED
    BY <1>2, LargestOf
<1>4. PICK x \in S : \A y \in S : x >= y
  BY <1>3
<1> HIDE DEF B
<1>5. x \in B /\ (x = 0 \/ x <= Len(base) - n) /\ \A r \in B : r <= Len(base) - n => r <= x
  <2>1. ASSUME NEW r \in B, r <= Len(base) - n PROVE r <= x
    <3>1. r \in S
      BY <2>1
    <3>2. x >= r /\ x \in Int /\ r \in Int
      BY <1>1, <1>4, <3>1
    <3>3. QED
      BY <3>2
  <2>2. QED
    BY <1>4, <2>1
<1>6. Log!ProtectedStart(base, n) \in B
  BY <1>5 DEF Log!ProtectedStart, B
<1>7. QED
  BY <1>1, <1>6 DEF B

LEMMA SendKeeps ==
    ASSUME LogBounds, LogInv, logRun # None, NEW c, c.upto \in Nat, Log!Send(c)
    PROVE  LogInv'
<1>1. /\ logCache' = c /\ logWire' = logWire /\ logEvents' = logEvents /\ logFile' = logFile
      /\ logAsked' = logAsked
      /\ logRun' = [logRun EXCEPT !.stage = "loop", !.sent = Log!Applied(logWire, c)]
  BY DEF Log!Send
<1>2. Working(logRun, logAsked, logWire, logEvents)
  BY DEF LogInv
<1>3. DOMAIN logRun = RunFields
  BY <1>2 DEF Working
<1>4. /\ DOMAIN logRun' = RunFields /\ logRun'.turn = logRun.turn /\ logRun'.step = logRun.step
      /\ logRun'.todo = logRun.todo /\ logRun'.made = logRun.made /\ logRun'.stage = "loop"
  BY <1>1, <1>3 DEF RunFields
<1>5. Working(logRun', logAsked, logWire, logEvents)
  BY <1>2, <1>4 DEF Working
<1>6. LogOk(logEvents', logAsked)
  BY <1>1 DEF LogInv
<1>7. QED
  BY <1>1, <1>5, <1>6, RunMoves

LEMMA UncompressedKeeps == ASSUME LogBounds, LogInv, Log!Uncompressed PROVE LogInv'
<1>1. PICK c : /\ c = IF Len(logWire) < 2 THEN logCache ELSE Log!Valid(logWire, logCache)
               /\ Log!Send(c)
  BY DEF Log!Uncompressed
<1>2. logCache.upto \in Nat /\ logRun # None
  BY DEF LogInv, Log!Uncompressed, Log!Idle
<1>3. c.upto \in Nat
  BY <1>1, <1>2, ValidIs
<1>4. QED
  BY <1>1, <1>2, <1>3, SendKeeps

LEMMA CompactKeeps == ASSUME LogBounds, LogInv, Log!Compact PROVE LogInv'
<1>1. logCache.upto \in Nat /\ logRun # None /\ logAsked \in Nat /\ WireOk(logWire, logAsked)
  BY DEF LogBounds, LogInv, Log!Compact, Log!Idle
<1>2. PICK cur : cur = Log!Valid(logWire, logCache)
  OBVIOUS
<1>3. PICK base : base = Log!Applied(logWire, cur)
  OBVIOUS
<1>4. cur.upto \in Nat
  BY <1>1, <1>2, ValidIs
<1>5. Len(base) \in Nat
  BY <1>1, <1>3, <1>4, AppliedIs
<1>6. ProtectLastN \in Int
  BY DEF LogBounds
<1>7. Log!Boundaries(base) \subseteq Nat /\ Log!ProtectedStart(base, ProtectLastN) \in Nat
  BY <1>5, <1>6, TailStart
<1>8. PICK byTokens \in Log!Boundaries(base) \ {0} :
        Log!Send(Log!Folded(cur, base, IF byTokens < Log!ProtectedStart(base, ProtectLastN)
                                       THEN byTokens ELSE Log!ProtectedStart(base, ProtectLastN)))
  BY <1>2, <1>3 DEF Log!Compact
<1>9. PICK start : start = IF byTokens < Log!ProtectedStart(base, ProtectLastN)
                            THEN byTokens ELSE Log!ProtectedStart(base, ProtectLastN)
  OBVIOUS
<1>10. start \in Nat
  BY <1>7, <1>9
<1>11. PICK c : c = Log!Folded(cur, base, start)
  OBVIOUS
<1>12. c.upto = cur.upto + start
  BY <1>11 DEF Log!Folded
<1>13. c.upto \in Nat
  BY <1>4, <1>10, <1>12
<1>14. Log!Send(c)
  BY <1>8, <1>9, <1>11
<1>15. QED
  BY <1>1, <1>13, <1>14, SendKeeps

\* A new answer: its calls are of a step of their own, so none has a result yet.
LEMMA AnswerKeeps ==
    ASSUME LogBounds, LogInv, NEW n \in 0 .. MaxBatch, Log!Answer(n)
    PROVE  LogInv'
<1> DEFINE m == Log!Msg("assistant", logRun.turn, Log!Calls(n))
           e == Log!Event("assistant", logRun.turn, None)
<1>1. logAsked \in Nat /\ n \in Nat /\ logRun # None /\ Working(logRun, logAsked, logWire, logEvents)
  BY DEF LogBounds, LogInv, Log!Answer, Log!Idle
<1>2. /\ logCache' = logCache /\ logWire' = logWire /\ logFile' = logFile /\ logAsked' = logAsked
      /\ logEvents' = Append(logEvents, e) /\ logRun.todo = <<>>
      /\ logRun' = [logRun EXCEPT !.step = @ + 1, !.todo = Log!Calls(n),
                                  !.stage = IF n = 0 THEN "end" ELSE "loop",
                                  !.made = Append(@, m)]
  BY DEF Log!Answer
<1>3. DOMAIN logRun = RunFields /\ logRun.turn = logAsked
      /\ Progress(logAsked, logRun.step, logRun.todo, logRun.made)
      /\ Older(logWire, logAsked) /\ ToolsLogged(logEvents, logAsked, logRun.made)
  BY <1>1 DEF Working
<1>4. /\ DOMAIN logRun' = RunFields /\ logRun'.turn = logRun.turn /\ logRun'.step = logRun.step + 1
      /\ logRun'.todo = Log!Calls(n) /\ logRun'.made = Append(logRun.made, m)
      /\ logRun'.stage \in {"end", "loop"}
  BY <1>2, <1>3 DEF RunFields
<1>5. PICK st \in Nat : st = logRun.step
  BY <1>3 DEF Progress
<1>6. PICK todo : todo = Log!Calls(n)
  OBVIOUS
<1>7. todo = [k \in 1 .. n |-> <<logAsked, st + 1, k>>]
  BY <1>3, <1>5, <1>6 DEF Log!Calls
<1>8. /\ todo \in Seq(CallId) /\ Len(todo) = n
      /\ \A k \in 1 .. n : todo[k] = <<logAsked, st + 1, k>>
  BY <1>1, <1>7 DEF CallId
<1>9. m = [role |-> "assistant", turn |-> logAsked, calls |-> todo]
  BY <1>3, <1>6 DEF Log!Msg
<1>10. m \in Message /\ ~ Answers(m)
  <2>1. todo \in Seq(CallId \cup {None})
    BY <1>1, <1>8
  <2>2. QED
    BY <1>1, <1>9, <2>1 DEF Message, Answers
<1>11. \A k \in 1 .. n : Asks(m, todo[k])
  BY <1>8, <1>9 DEF Asks
<1>12. e \in Entry /\ e.type = "assistant"
  BY <1>1, <1>3 DEF Log!Event, Entry
<1> HIDE DEF m, e
<1>13. PICK made : made = logRun.made
  OBVIOUS
<1>14. WireOk(made, logAsked) /\ made \in Seq(Message)
  BY <1>3, <1>13 DEF Progress, WireOk
<1>15. PICK more : more = Append(made, m)
  OBVIOUS
<1>16. WireOk(more, logAsked)
  BY <1>1, <1>10, <1>14, <1>15, WireAppend
<1>17. /\ Len(more) = Len(made) + 1 /\ Len(made) \in Nat /\ more[Len(made) + 1] = m
       /\ \A i \in 1 .. Len(made) : more[i] = made[i]
       /\ \A i \in 1 .. Len(more) : i \in 1 .. Len(made) \/ i = Len(made) + 1
  BY <1>14, <1>15
<1>18. Progress(logAsked, st + 1, todo, more)
  <2>1. ASSUME NEW i \in 1 .. Len(more), Answers(more[i])
        PROVE  /\ CallOf(more[i])[1] = logAsked /\ CallOf(more[i])[2] <= st + 1
               /\ \A k \in 1 .. Len(todo) : todo[k] # CallOf(more[i])
    <3>1. i \in 1 .. Len(made) /\ more[i] = made[i] /\ Answers(made[i])
      BY <1>10, <1>17, <2>1
    <3>2. CallOf(made[i])[1] = logAsked /\ CallOf(made[i])[2] <= st
      BY <1>3, <1>5, <1>13, <3>1 DEF Progress
    <3>3. CallOf(made[i]) \in CallId
      BY <1>14, <3>1 DEF WireOk
    <3>4. CallOf(made[i])[2] \in Nat
      BY <3>3 DEF CallId
    <3>5. \A k \in 1 .. Len(todo) : todo[k][2] = st + 1
      BY <1>8
    <3>6. QED
      BY <3>1, <3>2, <3>4, <3>5
  <2>2. ASSUME NEW k \in 1 .. Len(todo)
        PROVE  /\ todo[k][1] = logAsked /\ todo[k][2] <= st + 1
               /\ \E j \in 1 .. Len(more) : Asks(more[j], todo[k])
    <3>1. k \in 1 .. n /\ todo[k] = <<logAsked, st + 1, k>>
      BY <1>8
    <3>2. Len(made) + 1 \in 1 .. Len(more) /\ Asks(more[Len(made) + 1], todo[k])
      BY <1>11, <1>17, <3>1
    <3>3. QED
      BY <3>1, <3>2
  <2>3. \A k, l \in 1 .. Len(todo) : todo[k] = todo[l] => k = l
    BY <1>8
  <2>4. QED
    BY <1>8, <1>16, <2>1, <2>2, <2>3 DEF Progress
<1>19. \A j \in 1 .. Len(made) : j \in 1 .. Len(more) /\ more[j] = made[j]
  BY <1>17
<1>20. ToolsLogged(logEvents', logAsked, more)
  <2>1. logEvents \in Seq(Entry)
    BY DEF LogInv, LogOk
  <2>2. \A i \in 1 .. Len(logEvents') : logEvents'[i] = e \/ (i \in 1 .. Len(logEvents) /\ logEvents'[i] = logEvents[i])
    BY <1>2, <1>12, <2>1
  <2>3. ToolsLogged(logEvents, logAsked, more)
    BY <1>3, <1>13, <1>19 DEF ToolsLogged
  <2>4. QED
    BY <1>12, <2>2, <2>3 DEF ToolsLogged
<1>21. Working(logRun', logAsked, logWire, logEvents')
  BY <1>3, <1>4, <1>5, <1>6, <1>13, <1>15, <1>18, <1>20 DEF Working
<1>22. LogOk(logEvents', logAsked)
  <2>1. LogOk(logEvents, logAsked)
    BY DEF LogInv
  <2>2. QED
    BY <1>1, <1>2, <1>12, <2>1, LogAppend
<1>23. logCache'.upto \in Nat
  BY <1>2 DEF LogInv
<1>24. QED
  BY <1>2, <1>21, <1>22, <1>23, RunMoves

LEMMA CallBeginsKeeps == ASSUME LogBounds, LogInv, Log!CallBegins PROVE LogInv'
<1>1. logAsked \in Nat /\ logRun # None /\ Working(logRun, logAsked, logWire, logEvents)
  BY DEF LogBounds, LogInv, Log!CallBegins, Log!Idle
<1>2. PICK c : c = logRun.todo[1]
  OBVIOUS
<1>3. PICK e : e = Log!Event("call", logRun.turn, c)
  OBVIOUS
<1>4. DOMAIN logRun = RunFields /\ logRun.turn = logAsked
      /\ Progress(logAsked, logRun.step, logRun.todo, logRun.made)
      /\ Older(logWire, logAsked) /\ ToolsLogged(logEvents, logAsked, logRun.made)
  BY <1>1 DEF Working
<1>5. logRun.todo \in Seq(CallId) /\ logRun.todo # <<>>
  BY <1>4 DEF Progress, Log!CallBegins
<1>6. /\ logCache' = logCache /\ logWire' = logWire /\ logFile' = logFile /\ logAsked' = logAsked
      /\ logEvents' = Append(logEvents, e)
      /\ logRun' = [logRun EXCEPT !.stage = "calling"]
  BY <1>2, <1>3, <1>5 DEF Log!CallBegins
<1>7. /\ DOMAIN logRun' = RunFields /\ logRun'.turn = logRun.turn /\ logRun'.step = logRun.step
      /\ logRun'.todo = logRun.todo /\ logRun'.made = logRun.made
  BY <1>4, <1>6 DEF RunFields
<1>8. Len(logRun.todo) \in Nat /\ 1 \in 1 .. Len(logRun.todo) /\ c \in CallId
  BY <1>2, <1>5
<1>9. c[1] = logAsked
  BY <1>2, <1>4, <1>8 DEF Progress
<1>10. e = [type |-> "call", turn |-> logAsked, call |-> c]
  BY <1>3, <1>4 DEF Log!Event
<1>11. e \in Entry /\ e.type = "call" /\ e.call = c
  BY <1>1, <1>8, <1>10 DEF Entry
<1>12. LogOk(logEvents, logAsked) /\ logEvents \in Seq(Entry)
  BY DEF LogInv, LogOk
<1>13. e.call \in CallId /\ e.call[1] <= logAsked
  BY <1>1, <1>8, <1>9, <1>11
<1>14. LogOk(logEvents', logAsked)
  BY <1>1, <1>6, <1>11, <1>12, <1>13, LogAppend
<1>15. /\ \A i \in 1 .. Len(logEvents') : logEvents'[i] = e \/ (i \in 1 .. Len(logEvents) /\ logEvents'[i] = logEvents[i])
       /\ Len(logEvents) + 1 \in 1 .. Len(logEvents') /\ logEvents'[Len(logEvents) + 1] = e
  BY <1>6, <1>11, <1>12
<1>16. ToolsLogged(logEvents', logAsked, logRun.made)
  BY <1>4, <1>11, <1>15 DEF ToolsLogged
<1>17. CallLogged(logEvents', c)
  BY <1>11, <1>15 DEF CallLogged
<1>18. Working(logRun', logAsked, logWire, logEvents')
  BY <1>2, <1>4, <1>5, <1>7, <1>16, <1>17 DEF Working
<1>19. logCache'.upto \in Nat
  BY <1>6 DEF LogInv
<1>20. QED
  BY <1>6, <1>14, <1>18, <1>19, RunMoves

\* A result is of the call under way, which the log holds and nothing answered.
LEMMA CallEndsKeeps == ASSUME LogBounds, LogInv, Log!CallEnds PROVE LogInv'
<1>1. logAsked \in Nat /\ logRun # None /\ Working(logRun, logAsked, logWire, logEvents)
      /\ logRun.stage = "calling"
  BY DEF LogBounds, LogInv, Log!CallEnds, Log!Idle
<1>2. PICK todo : todo = logRun.todo
  OBVIOUS
<1>3. DOMAIN logRun = RunFields /\ logRun.turn = logAsked
      /\ Progress(logAsked, logRun.step, todo, logRun.made)
      /\ Older(logWire, logAsked) /\ ToolsLogged(logEvents, logAsked, logRun.made)
      /\ todo # <<>> /\ CallLogged(logEvents, todo[1])
  BY <1>1, <1>2 DEF Working
<1>4. todo \in Seq(CallId) /\ Len(todo) \in Nat /\ 1 \in 1 .. Len(todo)
  <2>1. todo \in Seq(CallId)
    BY <1>3 DEF Progress
  <2>2. QED
    BY <1>3, <2>1
<1>5. PICK c \in CallId : c = todo[1]
  BY <1>4
<1>6. PICK e : e = Log!Event("tool", logRun.turn, c)
  OBVIOUS
<1>7. PICK m : m = Log!Msg("tool", logRun.turn, <<c>>)
  OBVIOUS
<1>8. PICK rest : rest = Tail(todo)
  OBVIOUS
<1>9. Head(todo) = c
  BY <1>4, <1>5
<1>10. /\ logCache' = logCache /\ logWire' = logWire /\ logFile' = logFile /\ logAsked' = logAsked
       /\ logEvents' = Append(logEvents, e)
       /\ logRun' = [logRun EXCEPT !.stage = "loop", !.todo = Tail(@), !.made = Append(@, m)]
  BY <1>2, <1>6, <1>7, <1>9 DEF Log!CallEnds
<1>11. /\ DOMAIN logRun' = RunFields /\ logRun'.turn = logRun.turn /\ logRun'.step = logRun.step
       /\ logRun'.todo = rest /\ logRun'.made = Append(logRun.made, m) /\ logRun'.stage = "loop"
  BY <1>2, <1>3, <1>8, <1>10 DEF RunFields
<1>12. /\ rest \in Seq(CallId) /\ Len(rest) = Len(todo) - 1
       /\ \A k \in 1 .. Len(rest) : k + 1 \in 1 .. Len(todo) /\ rest[k] = todo[k + 1]
  BY <1>4, <1>8
<1>13. e = [type |-> "tool", turn |-> logAsked, call |-> c]
       /\ m = [role |-> "tool", turn |-> logAsked, calls |-> <<c>>]
  BY <1>3, <1>6, <1>7 DEF Log!Event, Log!Msg
<1>14. e \in Entry /\ e.type = "tool" /\ e.call = c
  BY <1>1, <1>13 DEF Entry
<1>15. m \in Message /\ Answers(m) /\ CallOf(m) = c
  <2>1. <<c>> \in Seq(CallId \cup {None}) /\ <<c>>[1] = c
    OBVIOUS
  <2>2. QED
    BY <1>1, <1>13, <2>1 DEF Message, Answers, CallOf
<1>16. PICK made : made = logRun.made
  OBVIOUS
<1>17. WireOk(made, logAsked) /\ made \in Seq(Message) /\ Len(made) \in Nat
  <2>1. WireOk(made, logAsked)
    BY <1>3, <1>16 DEF Progress
  <2>2. QED
    BY <2>1 DEF WireOk
<1>18. c[1] = logAsked /\ (\E j \in 1 .. Len(made) : Asks(made[j], c))
       /\ \A i \in 1 .. Len(made) : Answers(made[i]) => CallOf(made[i]) # c
  BY <1>3, <1>4, <1>5, <1>16 DEF Progress
<1>19. PICK more : more = Append(made, m)
  OBVIOUS
<1>20. WireOk(more, logAsked)
  <2>1. Answers(m) => /\ CallOf(m) \in CallId /\ CallOf(m)[1] <= logAsked
                      /\ \E j \in 1 .. Len(made) : Asks(made[j], CallOf(m))
                      /\ \A i \in 1 .. Len(made) : Answers(made[i]) => CallOf(made[i]) # CallOf(m)
    BY <1>1, <1>15, <1>18
  <2>2. QED
    BY <1>1, <1>15, <1>17, <1>19, <2>1, WireAppend
<1>21. /\ Len(more) = Len(made) + 1 /\ more[Len(made) + 1] = m
       /\ \A i \in 1 .. Len(made) : i \in 1 .. Len(more) /\ more[i] = made[i]
       /\ \A i \in 1 .. Len(more) : i \in 1 .. Len(made) \/ i = Len(made) + 1
       /\ Len(made) + 1 \in 1 .. Len(more)
  BY <1>17, <1>19
<1>22. PICK st : st = logRun.step
  OBVIOUS
<1>23. Progress(logAsked, st, rest, more)
  <2>1. ASSUME NEW i \in 1 .. Len(more), Answers(more[i])
        PROVE  /\ CallOf(more[i])[1] = logAsked /\ CallOf(more[i])[2] <= st
               /\ \A k \in 1 .. Len(rest) : rest[k] # CallOf(more[i])
    <3>1. CASE i \in 1 .. Len(made)
      BY <1>3, <1>12, <1>16, <1>21, <1>22, <2>1, <3>1 DEF Progress
    <3>2. CASE i = Len(made) + 1
      <4>1. CallOf(more[i]) = c
        BY <1>15, <1>21, <3>2
      <4>2. c[1] = logAsked /\ c[2] <= st
        BY <1>3, <1>4, <1>5, <1>22 DEF Progress
      <4>3. ASSUME NEW k \in 1 .. Len(rest) PROVE rest[k] # c
        <5>1. rest[k] = todo[k + 1] /\ k + 1 \in 1 .. Len(todo) /\ k + 1 # 1
          BY <1>4, <1>12
        <5>2. todo[k + 1] # todo[1]
          BY <1>3, <1>4, <5>1 DEF Progress
        <5>3. QED
          BY <1>5, <5>1, <5>2
      <4>4. QED
        BY <4>1, <4>2, <4>3
    <3>3. QED
      BY <1>21, <3>1, <3>2
  <2>2. ASSUME NEW k \in 1 .. Len(rest)
        PROVE  /\ rest[k][1] = logAsked /\ rest[k][2] <= st
               /\ \E j \in 1 .. Len(more) : Asks(more[j], rest[k])
    <3>1. rest[k] = todo[k + 1] /\ k + 1 \in 1 .. Len(todo)
      BY <1>12
    <3>2. /\ todo[k + 1][1] = logAsked /\ todo[k + 1][2] <= st
          /\ \E j \in 1 .. Len(made) : Asks(made[j], todo[k + 1])
      BY <1>3, <1>16, <1>22, <3>1 DEF Progress
    <3>3. QED
      BY <1>21, <3>1, <3>2
  <2>3. ASSUME NEW k \in 1 .. Len(rest), NEW l \in 1 .. Len(rest), rest[k] = rest[l] PROVE k = l
    <3>1. k + 1 \in 1 .. Len(todo) /\ l + 1 \in 1 .. Len(todo) /\ todo[k + 1] = todo[l + 1]
      BY <1>12, <2>3
    <3>2. k + 1 = l + 1
      BY <1>3, <3>1 DEF Progress
    <3>3. QED
      BY <3>2
  <2>4. st \in Nat
    BY <1>3, <1>22 DEF Progress
  <2>5. QED
    BY <1>12, <1>20, <2>1, <2>2, <2>3, <2>4 DEF Progress
<1>24. LogOk(logEvents, logAsked) /\ logEvents \in Seq(Entry)
  BY DEF LogInv, LogOk
<1>25. LogOk(logEvents', logAsked)
  <2>1. e.call \in CallId /\ e.call[1] <= logAsked
    BY <1>1, <1>14, <1>18
  <2>2. \E j \in 1 .. Len(logEvents) : logEvents[j].type = "call" /\ logEvents[j].call = e.call
    BY <1>3, <1>5, <1>14 DEF CallLogged
  <2>3. \A i \in 1 .. Len(logEvents) : logEvents[i].type = "tool" => logEvents[i].call # e.call
    <3>1. ASSUME NEW i \in 1 .. Len(logEvents), logEvents[i].type = "tool", logEvents[i].call = c
          PROVE  FALSE
      <4>1. ~ (logEvents[i].call[1] < logAsked)
        BY <1>1, <1>18, <3>1
      <4>2. \E j \in 1 .. Len(made) : Answers(made[j]) /\ CallOf(made[j]) = c
        BY <1>3, <1>16, <3>1, <4>1 DEF ToolsLogged
      <4>3. QED
        BY <1>18, <4>2
    <3>2. QED
      BY <1>14, <3>1
  <2>4. QED
    BY <1>1, <1>10, <1>14, <1>24, <2>1, <2>2, <2>3, LogAppend
<1>26. ToolsLogged(logEvents', logAsked, more)
  <2>1. \A i \in 1 .. Len(logEvents') : logEvents'[i] = e \/ (i \in 1 .. Len(logEvents) /\ logEvents'[i] = logEvents[i])
    BY <1>10, <1>14, <1>24
  <2>2. \E j \in 1 .. Len(more) : Answers(more[j]) /\ CallOf(more[j]) = e.call
    BY <1>14, <1>15, <1>21
  <2>3. ToolsLogged(logEvents, logAsked, more)
    BY <1>3, <1>16, <1>21 DEF ToolsLogged
  <2>4. QED
    BY <2>1, <2>2, <2>3 DEF ToolsLogged
<1>27. Working(logRun', logAsked, logWire, logEvents')
  BY <1>3, <1>11, <1>16, <1>19, <1>22, <1>23, <1>26 DEF Working
<1>28. logCache'.upto \in Nat
  BY <1>10 DEF LogInv
<1>29. QED
  BY <1>10, <1>25, <1>27, <1>28, RunMoves

-----------------------------------------------------------------------------
(* The end of a run, and what an idle chat is asked to do.                 *)

\* Nothing runs any more, or nothing did.
LEMMA RestOk ==
    ASSUME LogBounds, LogInv, logAsked' = logAsked, logRun' = None,
           WireOk(logWire', logAsked), LogOk(logEvents', logAsked), logCache'.upto \in Nat,
           logFile' # None => FileOk(logFile', logAsked)
    PROVE  LogInv'
  BY DEF LogInv

LEMMA StoredIs ==
    ASSUME LogBounds, LogInv, NEW w, WireOk(w, logAsked)
    PROVE  FileOk(Log!Stored(w), logAsked)
<1>1. /\ Log!Stored(w).messages = w /\ Log!Stored(w).events = logEvents
      /\ Log!Stored(w).cache = logCache
  BY DEF Log!Stored
<1>2. QED
  BY <1>1 DEF FileOk, LogInv

LEMMA CommitKeeps == ASSUME LogBounds, LogInv, Log!Commit PROVE LogInv'
<1>1. logAsked \in Nat /\ Working(logRun, logAsked, logWire, logEvents) /\ WireOk(logWire, logAsked)
  BY DEF LogBounds, LogInv, Log!Commit, Log!Idle
<1>2. /\ logWire' = logWire \o logRun.made /\ logFile' = Log!Stored(logWire') /\ logRun' = None
      /\ logEvents' = logEvents /\ logCache' = logCache /\ logAsked' = logAsked
  BY DEF Log!Commit
<1>3. PICK made : made = logRun.made
  OBVIOUS
<1>4. Progress(logAsked, logRun.step, logRun.todo, made) /\ Older(logWire, logAsked)
  BY <1>1, <1>3 DEF Working
<1>5. WireOk(made, logAsked)
  BY <1>4 DEF Progress
<1>6. \A i \in 1 .. Len(logWire), j \in 1 .. Len(made) :
        (Answers(logWire[i]) /\ Answers(made[j])) => CallOf(logWire[i]) # CallOf(made[j])
  <2>1. \A j \in 1 .. Len(made) : Answers(made[j]) => CallOf(made[j])[1] = logAsked
    BY <1>4 DEF Progress
  <2>2. \A i \in 1 .. Len(logWire) : Answers(logWire[i]) => CallOf(logWire[i])[1] # logAsked
    <3>1. \A i \in 1 .. Len(logWire) : Answers(logWire[i]) => CallOf(logWire[i])[1] < logAsked
      BY <1>4 DEF Older
    <3>2. QED
      BY <1>1, <3>1
  <2>3. QED
    BY <2>1, <2>2
<1>7. WireOk(logWire', logAsked)
  <2>1. WireOk(logWire \o made, logAsked)
    BY <1>1, <1>5, <1>6, WireJoin
  <2>2. QED
    BY <1>2, <1>3, <2>1
<1>8. FileOk(logFile', logAsked)
  BY <1>2, <1>7, StoredIs
<1>9. LogOk(logEvents', logAsked) /\ logCache'.upto \in Nat
  BY <1>2 DEF LogInv
<1>10. QED
  BY <1>2, <1>7, <1>8, <1>9, RestOk

LEMMA UnwindKeeps == ASSUME LogBounds, LogInv, Log!Unwind PROVE LogInv'
<1>1. /\ logFile' = Log!Stored(logWire) /\ logRun' = None /\ logWire' = logWire
      /\ logEvents' = logEvents /\ logCache' = logCache /\ logAsked' = logAsked
  BY DEF Log!Unwind
<1>2. WireOk(logWire, logAsked)
  BY DEF LogInv
<1>3. FileOk(logFile', logAsked)
  BY <1>1, <1>2, StoredIs
<1>4. WireOk(logWire', logAsked) /\ LogOk(logEvents', logAsked) /\ logCache'.upto \in Nat
  BY <1>1 DEF LogInv
<1>5. QED
  BY <1>1, <1>3, <1>4, RestOk

LEMMA CutKeeps ==
    ASSUME LogBounds, LogInv, logRun = None, NEW n \in 0 .. Len(logWire), NEW turns, Log!CutAt(n, turns)
    PROVE  LogInv'
<1>1. /\ logWire' = SubSeq(logWire, 1, n) /\ logEvents' = Log!Truncated(logEvents, n)
      /\ logCache' = logCache /\ logRun' = None /\ logFile' = logFile /\ logAsked' = logAsked
  BY DEF Log!CutAt
<1>2. logAsked \in Nat /\ WireOk(logWire, logAsked) /\ LogOk(logEvents, logAsked)
  BY DEF LogBounds, LogInv
<1>3. WireOk(logWire', logAsked)
  BY <1>1, <1>2, WirePrefix
<1>4. LogOk(logEvents', logAsked)
  BY <1>1, <1>2, CutLog
<1>5. logCache'.upto \in Nat /\ (logFile' # None => FileOk(logFile', logAsked))
  BY <1>1 DEF LogInv
<1>6. QED
  BY <1>1, <1>3, <1>4, <1>5, RestOk

LEMMA UndoKeeps == ASSUME LogBounds, LogInv, Log!Undo PROVE LogInv'
<1> DEFINE U == Log!UsersAt(logWire)
           at == CHOOSE i \in U : \A j \in U : j <= i
<1>1. logRun = None
  BY DEF Log!Undo, Log!Idle
<1>2. PICK n : n = IF U = {} THEN 0 ELSE at - 1
  <2> HIDE DEF U, at
  <2>1. QED
    OBVIOUS
<1>3. PICK turns : Log!CutAt(n, turns)
  BY <1>2 DEF Log!Undo
<1>4. logWire \in Seq(Message) /\ Len(logWire) \in Nat
  BY DEF LogInv, WireOk
<1>5. U \subseteq 1 .. Len(logWire)
  BY <1>4 DEF Log!UsersAt
<1>6. n \in 0 .. Len(logWire)
  <2>1. CASE U = {}
    BY <1>2, <1>4, <2>1
  <2>2. CASE U # {}
    <3>1. \E x \in U : \A y \in U : x >= y
      <4> HIDE DEF U
      <4>1. U \in SUBSET (0 .. Len(logWire))
        BY <1>5
      <4>2. QED
        BY <1>4, <2>2, <4>1, LargestOf
    <3>2. \E x \in U : \A y \in U : y <= x
      <4> HIDE DEF U
      <4>1. \A x, y \in U : x >= y <=> y <= x
        BY <1>5
      <4>2. QED
        BY <3>1, <4>1
    <3>3. at \in U
      <4> HIDE DEF U
      <4>1. QED
        BY <3>2
    <3> HIDE DEF U, at
    <3>4. QED
      BY <1>2, <1>4, <1>5, <2>2, <3>3
  <2>3. QED
    BY <2>1, <2>2
<1>7. QED
  BY <1>1, <1>3, <1>6, CutKeeps

LEMMA EditKeepsLog ==
    ASSUME LogBounds, LogInv, NEW k \in 1 .. MaxTurns, Log!Edit(k)
    PROVE  LogInv'
<1>1. logRun = None
  BY DEF Log!Edit, Log!Idle
<1>2. PICK i \in Log!UsersAt(logWire) : Log!CutAt(i - 1, SubSeq(logPanel, 1, k - 1))
  BY DEF Log!Edit
<1>3. logWire \in Seq(Message) /\ Len(logWire) \in Nat
  BY DEF LogInv, WireOk
<1>4. i \in 1 .. Len(logWire)
  BY <1>2, <1>3 DEF Log!UsersAt
<1>5. i - 1 \in 0 .. Len(logWire)
  BY <1>3, <1>4
<1>6. QED
  BY <1>1, <1>2, <1>5, CutKeeps

LEMMA CompressKeeps == ASSUME LogBounds, LogInv, Log!Compress PROVE LogInv'
<1>1. logAsked \in Nat /\ WireOk(<<>>, logAsked) /\ LogOk(<<>>, logAsked)
  BY NothingOk DEF LogBounds, LogInv
<1>2. PICK m : m = Log!Msg("user", Log!Brief, <<>>)
  OBVIOUS
<1>3. PICK a : a = Log!Msg("assistant", Log!Brief, <<>>)
  OBVIOUS
<1>4. m \in Message /\ a \in Message /\ ~ Answers(m) /\ ~ Answers(a)
  <2>1. <<>> \in Seq(CallId \cup {None})
    OBVIOUS
  <2>2. m = [role |-> "user", turn |-> 0, calls |-> <<>>]
        /\ a = [role |-> "assistant", turn |-> 0, calls |-> <<>>]
    BY <1>2, <1>3 DEF Log!Msg, Log!Brief
  <2>3. QED
    BY <2>1, <2>2 DEF Message, Answers
<1>5. <<m, a>> \in Seq(Message) /\ Len(<<m, a>>) = 2
      /\ \A i \in 1 .. 2 : <<m, a>>[i] = m \/ <<m, a>>[i] = a
  BY <1>4
<1>6. WireOk(<<m, a>>, logAsked)
  BY <1>4, <1>5 DEF WireOk
<1>7. /\ logWire' = <<m, a>> /\ logEvents' = <<>> /\ logCache' = Log!NoCache /\ logRun' = None
      /\ logFile' = logFile /\ logAsked' = logAsked
  BY <1>2, <1>3 DEF Log!Compress, Log!Idle
<1>8. logCache'.upto \in Nat
  BY <1>7 DEF Log!NoCache
<1>9. WireOk(logWire', logAsked) /\ LogOk(logEvents', logAsked)
  BY <1>1, <1>6, <1>7
<1>10. logFile' # None => FileOk(logFile', logAsked)
  BY <1>7 DEF LogInv
<1>11. QED
  BY <1>7, <1>8, <1>9, <1>10, RestOk

LEMMA SaveKeeps == ASSUME LogBounds, LogInv, Log!SaveNow PROVE LogInv'
<1>1. /\ logFile' = Log!Stored(logWire) /\ logRun' = None /\ logWire' = logWire
      /\ logEvents' = logEvents /\ logCache' = logCache /\ logAsked' = logAsked
  BY DEF Log!SaveNow, Log!Idle
<1>2. WireOk(logWire, logAsked)
  BY DEF LogInv
<1>3. FileOk(logFile', logAsked)
  BY <1>1, <1>2, StoredIs
<1>4. WireOk(logWire', logAsked) /\ LogOk(logEvents', logAsked) /\ logCache'.upto \in Nat
  BY <1>1 DEF LogInv
<1>5. QED
  BY <1>1, <1>3, <1>4, RestOk

\* A chat comes back with the stored messages, or with what its log tells.
LEMMA ReloadKeeps == ASSUME LogBounds, LogInv, Log!Reload PROVE LogInv'
<1>1. logAsked \in Nat /\ logFile # None /\ FileOk(logFile, logAsked)
  BY DEF LogBounds, LogInv, Log!Reload
<1>2. /\ logWire' = Log!Resumed(logFile) /\ logEvents' = logFile.events /\ logCache' = logFile.cache
      /\ logRun' = None /\ logFile' = logFile /\ logAsked' = logAsked
  BY DEF Log!Reload
<1>3. WireOk(Log!ToWire(logFile.events), logAsked)
  BY <1>1, ToldOk DEF FileOk
<1>4. Log!Resumed(logFile) = logFile.messages \/ Log!Resumed(logFile) = Log!ToWire(logFile.events)
  BY DEF Log!Resumed
<1>5. WireOk(logWire', logAsked)
  BY <1>1, <1>2, <1>3, <1>4 DEF FileOk
<1>6. LogOk(logEvents', logAsked) /\ logCache'.upto \in Nat
  BY <1>1, <1>2 DEF FileOk
<1>7. QED
  BY <1>1, <1>2, <1>5, <1>6, RestOk

LEMMA LogInvInit == ASSUME LogBounds, Log!LogInit PROVE LogInv
<1>1. /\ logWire = <<>> /\ logEvents = <<>> /\ logCache = Log!NoCache /\ logRun = None
      /\ logFile = None /\ logAsked = 0
  BY DEF Log!LogInit
<1>2. WireOk(<<>>, 0) /\ LogOk(<<>>, 0)
  BY NothingOk
<1>3. Log!NoCache.upto = 0
  BY DEF Log!NoCache
<1>4. 0 \in 0 .. MaxTurns
  BY DEF LogBounds
<1>5. QED
  BY <1>1, <1>2, <1>3, <1>4 DEF LogInv

LEMMA LogInvNext ==
    ASSUME LogBounds, LogInv, [Log!LogNext]_(Log!logVars)
    PROVE  LogInv'
<1>1. CASE UNCHANGED Log!logVars
  BY <1>1 DEF Log!logVars, LogInv
<1>2. CASE Log!LogNext
  <2>1. CASE Log!Ask
    BY <2>1, AskKeeps
  <2>2. CASE Log!Uncompressed
    BY <2>2, UncompressedKeeps
  <2>3. CASE Log!Compact
    BY <2>3, CompactKeeps
  <2>4. CASE \E n \in 0 .. MaxBatch : Log!Answer(n)
    BY <2>4, AnswerKeeps
  <2>5. CASE Log!CallBegins
    BY <2>5, CallBeginsKeeps
  <2>6. CASE Log!CallEnds
    BY <2>6, CallEndsKeeps
  <2>7. CASE Log!Commit
    BY <2>7, CommitKeeps
  <2>8. CASE Log!Fail \/ Log!Stop
    BY <2>8, UnwindKeeps DEF Log!Fail, Log!Stop
  <2>9. CASE Log!Undo
    BY <2>9, UndoKeeps
  <2>10. CASE \E k \in 1 .. MaxTurns : Log!Edit(k)
    BY <2>10, EditKeepsLog
  <2>11. CASE Log!Compress
    BY <2>11, CompressKeeps
  <2>12. CASE Log!SaveNow
    BY <2>12, SaveKeeps
  <2>13. CASE Log!Reload
    BY <2>13, ReloadKeeps
  <2>14. QED
    BY <1>2, <2>1, <2>2, <2>3, <2>4, <2>5, <2>6, <2>7, <2>8, <2>9, <2>10, <2>11, <2>12, <2>13
       DEF Log!LogNext
<1>3. QED
  BY <1>1, <1>2

LEMMA LogInvTyped == ASSUME LogBounds, LogInv PROVE Log!LogTypeOK
<1>1. logWire \in Seq(Message) /\ logEvents \in Seq(Entry)
  BY DEF LogInv, WireOk, LogOk
<1>2. \A i \in DOMAIN logWire : logWire[i].role \in {"user", "assistant", "tool"}
  <2>1. \A m \in Message : m.role \in {"user", "assistant", "tool"}
    BY DEF Message
  <2>2. \A i \in DOMAIN logWire : logWire[i] \in Message
    BY <1>1
  <2>3. QED
    BY <2>1, <2>2
<1>3. \A i \in DOMAIN logEvents : logEvents[i].type \in {"user", "assistant", "call", "tool"}
  <2>1. \A e \in Entry : e.type \in {"user", "assistant", "call", "tool"}
    BY DEF Entry
  <2>2. \A i \in DOMAIN logEvents : logEvents[i] \in Entry
    BY <1>1
  <2>3. QED
    BY <2>1, <2>2
<1>4. QED
  BY <1>2, <1>3 DEF LogInv, Log!LogTypeOK

\* However a chat was cut, stopped, failed, compressed and reloaded, every tool
\* message of its history comes after the message that asked for the call, and
\* no call is answered twice: at commit, after /undo and an edited turn, and
\* when a reload rebuilds the history from the event log.
THEOREM AnswersFollowCalls ==
    ASSUME LogBounds
    PROVE  Log!LogSpec => [](Log!LogTypeOK /\ Log!ResultsFollowCalls)
<1>1. Log!LogInit => LogInv
  BY LogInvInit
<1>2. LogInv /\ [Log!LogNext]_(Log!logVars) => LogInv'
  BY LogInvNext
<1>3. LogInv => Log!LogTypeOK /\ Log!ResultsFollowCalls
  <2>1. ASSUME LogInv PROVE Log!Sound(logWire)
    <3>1. logAsked \in Nat /\ WireOk(logWire, logAsked)
      BY <2>1 DEF LogBounds, LogInv
    <3>2. QED
      BY <3>1, WireIsSound
  <2>2. QED
    BY <2>1, LogInvTyped DEF Log!ResultsFollowCalls
<1>4. QED
  BY <1>1, <1>2, <1>3, PTL DEF Log!LogSpec

=============================================================================
