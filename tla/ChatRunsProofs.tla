--------------------------- MODULE ChatRunsProofs ---------------------------
(***************************************************************************)
(* TLAPS proofs about the two views a user talks to.  ChatRuns, for any    *)
(* number of overlapping calls of runAgent and any budget: the view has a  *)
(* live run behind its Stop button, an old run never takes the view from   *)
(* its replacement, an interrupted run is silent, and the goal loop is     *)
(* bounded.  Composer, for any instance of it: texts and attachments stay  *)
(* in their conversation, and a prompt under edit stays in the queue.      *)
(* QuickAsk, for any instance of it: its types, that Replace spares what   *)
(* was not selected, and that the one panel shows its wire and its current *)
(* attempt.                                                                *)
(***************************************************************************)
EXTENDS ChatRuns, Integers, Sequences, SequenceTheorems, FiniteSetTheorems, TLAPS

CONSTANTS
    Chats, Scopes, None, MaxFiles, MaxEntries, MaxTurns, MaxGestures,                  \* of Composer
    Views, Files, Chars, Docs, Fails, MaxLen, MaxShows, MaxQuickEdits, MaxQuestions    \* of QuickAsk

VARIABLES
    chat, known, parent, turns, scope, seen, input, files, armed, drafts, browse,
    queued, saving, laid, edit, snap, busy, asks, entries, gestures,
    doc, file, alive, overlay, widget, panel, hit, qaEdits

Box == INSTANCE Composer WITH queue <- queued, parked <- laid, running <- busy
Quick == INSTANCE QuickAsk WITH MaxEdits <- MaxQuickEdits, MaxTurns <- MaxQuestions

\* The running flag and abortRef are set and cleared together, and the run
\* abortRef names has not gone through its finally block.
ViewInv ==
    /\ running <=> owner # NoRun
    /\ owner # NoRun => stage[owner] \in Committed

\* A judge whose snapshot still holds judges an active goal within its budget.
JudgeInv ==
    \A r \in Slots : stage[r] = "judge" /\ owned[r] =>
        goal.status = "active" /\ goal.used < GoalMaxTurns

Inv == TypeOK /\ ViewInv /\ JudgeInv

\* The slot variables but stage keep their types when a call begins or ends.
LEMMA BeginTyped ==
    ASSUME TypeOK, NEW r \in Slots, Begin(r) \/ Discard(r)
    PROVE  /\ stage' \in [Slots -> Stages]
           /\ aborted' \in [Slots -> BOOLEAN]
           /\ sameChat' \in [Slots -> BOOLEAN]
           /\ inbox' \in [Slots -> 0 .. MaxSteers]
           /\ leftover' \in [Slots -> 0 .. MaxSteers]
           /\ stage'[r] \in {"idle", "preflight"}
           /\ \A s \in Slots \ {r} : stage'[s] = stage[s]
<1>1. CASE Begin(r)
  <2>1. stage' \in [Slots -> Stages] /\ stage'[r] = "preflight"
    BY <1>1 DEF Begin, TypeOK, Stages
  <2>2. aborted' \in [Slots -> BOOLEAN] /\ sameChat' \in [Slots -> BOOLEAN]
    BY <1>1 DEF Begin, TypeOK
  <2>3. inbox' \in [Slots -> 0 .. MaxSteers] /\ leftover' \in [Slots -> 0 .. MaxSteers]
    BY <1>1, BoundsAssumption DEF Begin, TypeOK
  <2>4. \A s \in Slots \ {r} : stage'[s] = stage[s]
    BY <1>1 DEF Begin, TypeOK
  <2> QED BY <2>1, <2>2, <2>3, <2>4
<1>2. CASE Discard(r)
  <2>1. stage' \in [Slots -> Stages] /\ stage'[r] = "idle"
    BY <1>2 DEF Discard, TypeOK, Stages
  <2>2. aborted' \in [Slots -> BOOLEAN] /\ sameChat' \in [Slots -> BOOLEAN]
    BY <1>2 DEF Discard, TypeOK
  <2>3. inbox' \in [Slots -> 0 .. MaxSteers] /\ leftover' \in [Slots -> 0 .. MaxSteers]
    BY <1>2, BoundsAssumption DEF Discard, TypeOK
  <2>4. \A s \in Slots \ {r} : stage'[s] = stage[s]
    BY <1>2 DEF Discard, TypeOK
  <2> QED BY <2>1, <2>2, <2>3, <2>4
<1> QED BY <1>1, <1>2

\* Replacing the goal object types the goal and the flags of the judges.
LEMMA TouchTyped ==
    ASSUME Touch
    PROVE  /\ owned' \in [Slots -> BOOLEAN] /\ timer' = FALSE
           /\ \A r \in Slots : ~owned'[r]
BY DEF Touch

\* What a call that ends leaves of the view.
LEMMA ReleaseView ==
    ASSUME TypeOK, ViewInv, NEW r \in Slots, Release(r),
           \A s \in Slots \ {r} : stage'[s] = stage[s]
    PROVE  /\ owner' \in Slots \cup {NoRun} /\ loop' \in Slots \cup {NoRun}
           /\ running' \in BOOLEAN
           /\ ViewInv'
BY DEF Release, ViewInv, TypeOK, viewVars

\* A verdict that counts leaves the goal typed.
LEMMA JudgedTyped ==
    ASSUME TypeOK, goal.used < GoalMaxTurns, NEW v \in Verdicts
    PROVE  Judged(v) \in [status : {"none", "active", "paused", "done"},
                          used : 0 .. GoalMaxTurns,
                          parse : 0 .. GoalMaxParse, transport : 0 .. GoalMaxTransport]
<1> USE BoundsAssumption DEF TypeOK
<1>1. /\ goal = [status |-> goal.status, used |-> goal.used, parse |-> goal.parse,
                 transport |-> goal.transport]
      /\ goal.used \in 0 .. GoalMaxTurns /\ goal.used + 1 \in 0 .. GoalMaxTurns
      /\ goal.parse \in 0 .. GoalMaxParse /\ goal.transport \in 0 .. GoalMaxTransport
  OBVIOUS
<1>2. CASE v = "done"
  <2>1. Judged(v) = [status |-> "done", used |-> goal.used, parse |-> 0, transport |-> 0]
    BY <1>1, <1>2 DEF Judged, Failures
  <2> QED BY <1>1, <2>1
<1>3. CASE v = "wait"
  BY <1>3 DEF Judged
<1>4. CASE v = "continue"
  <2>1. Judged(v) = [status |-> goal.status, used |-> goal.used + 1, parse |-> 0, transport |-> 0]
    BY <1>1, <1>4 DEF Judged, Failures
  <2> QED BY <1>1, <2>1
<1>5. CASE v \in Failures
  <2>1. PICK parse \in 0 .. GoalMaxParse, transport \in 0 .. GoalMaxTransport,
             status \in {"active", "paused"} :
          Judged(v) = [status |-> status, used |-> goal.used, parse |-> parse,
                       transport |-> transport]
    <3> DEFINE parse == IF v = "unparsable" THEN Failed(goal.parse, GoalMaxParse) ELSE goal.parse
               transport == IF v = "unreachable" THEN Failed(goal.transport, GoalMaxTransport)
                            ELSE goal.transport
               status == IF parse >= GoalMaxParse \/ transport >= GoalMaxTransport
                         THEN "paused" ELSE "active"
    <3>1. parse \in 0 .. GoalMaxParse /\ transport \in 0 .. GoalMaxTransport
      BY <1>1 DEF Failed
    <3>2. Judged(v) = [status |-> status, used |-> goal.used, parse |-> parse,
                       transport |-> transport]
      BY <1>1, <1>5 DEF Judged, Failures
    <3>3. status \in {"active", "paused"}
      OBVIOUS
    <3> HIDE DEF parse, transport, status
    <3> QED BY <3>1, <3>2, <3>3
  <2> QED BY <1>1, <2>1
<1> QED BY <1>2, <1>3, <1>4, <1>5 DEF Verdicts, Failures

\* The inductive invariant of the view, one case per action.
LEMMA InitInv == Init => Inv
<1> SUFFICES ASSUME Init PROVE Inv
  OBVIOUS
<1> USE BoundsAssumption DEF Init
<1>1. /\ stage \in [Slots -> Stages]
      /\ inbox \in [Slots -> 0 .. MaxSteers] /\ leftover \in [Slots -> 0 .. MaxSteers]
  BY DEF Stages
<1>2. /\ aborted \in [Slots -> BOOLEAN] /\ sameChat \in [Slots -> BOOLEAN]
      /\ owned \in [Slots -> BOOLEAN]
  OBVIOUS
<1>3. goal \in [status : {"none", "active", "paused", "done"}, used : 0 .. GoalMaxTurns,
                parse : 0 .. GoalMaxParse, transport : 0 .. GoalMaxTransport]
  BY DEF NoGoal
<1>4. /\ owner \in Slots \cup {NoRun} /\ loop \in Slots \cup {NoRun}
      /\ queue \in 0 .. MaxQueue /\ claims \subseteq {"drain", "user"} /\ continued \in Nat
  OBVIOUS
<1>5. running \in BOOLEAN /\ parked \in BOOLEAN /\ timer \in BOOLEAN
  OBVIOUS
<1>6. ViewInv /\ JudgeInv
  BY DEF ViewInv, JudgeInv
<1> HIDE DEF Init
<1> QED BY <1>1, <1>2, <1>3, <1>4, <1>5, <1>6 DEF Inv, TypeOK

LEMMA StepInv == Inv /\ [Next]_vars => Inv'
<1> SUFFICES ASSUME Inv, [Next]_vars PROVE Inv'
  OBVIOUS
<1> USE BoundsAssumption DEF Inv
<1>1. ASSUME NEW r \in Slots, RunStep(r) PROVE Inv'
  <2>1. CASE Commit(r)
    <3>1. CASE sameChat[r]
      <4>1. /\ stage[r] = "preflight" /\ stage' = [stage EXCEPT ![r] = "setup"]
            /\ owner' = r /\ running' = TRUE /\ Touch
            /\ UNCHANGED <<aborted, sameChat, inbox, leftover, loop, queueVars, goal, continued>>
        BY <2>1, <3>1 DEF Commit
      <4>2. TypeOK'
        BY <4>1, TouchTyped DEF TypeOK, Stages, queueVars
      <4>3. ViewInv' /\ JudgeInv'
        BY <4>1, TouchTyped DEF TypeOK, ViewInv, JudgeInv, Committed
      <4> QED BY <4>2, <4>3
    <3>2. CASE ~sameChat[r]
      BY <2>1, <3>2, BeginTyped
      DEF Commit, TypeOK, ViewInv, JudgeInv, Committed, queueVars
    <3> QED BY <3>1, <3>2
  <2>2. CASE SetupDone(r)
    BY <2>2 DEF SetupDone, TypeOK, ViewInv, JudgeInv, Stages, Committed, queueVars, goalVars
  <2>3. CASE SetupFails(r)
    BY <2>3, TouchTyped
    DEF SetupFails, Catch, TypeOK, ViewInv, JudgeInv, Stages, Committed, viewVars, queueVars
  <2>4. CASE Deliver(r)
    <3>1. inbox' \in [Slots -> 0 .. MaxSteers]
      BY <2>4 DEF Deliver, TypeOK
    <3>2. TypeOK'
      BY <2>4, <3>1, TouchTyped DEF Deliver, TypeOK, viewVars, queueVars
    <3>3. ViewInv' /\ JudgeInv'
      BY <2>4, TouchTyped DEF Deliver, ViewInv, JudgeInv, viewVars
    <3> QED BY <3>2, <3>3
  <2>5. CASE Streams(r)
    BY <2>5, TouchTyped DEF Streams, TypeOK, ViewInv, JudgeInv, viewVars, queueVars
  <2>6. CASE LoopReturns(r)
    <3>1. /\ stage' = [stage EXCEPT ![r] = IF aborted[r] THEN "closing" ELSE "settle"]
          /\ stage[r] = "loop"
          /\ UNCHANGED <<aborted, sameChat, viewVars, queueVars, goal, continued>>
      BY <2>6 DEF LoopReturns
    <3>2. inbox' \in [Slots -> 0 .. MaxSteers] /\ leftover' \in [Slots -> 0 .. MaxSteers]
      BY <2>6 DEF LoopReturns, TypeOK
    <3>3. UNCHANGED <<owned, timer>> \/ Touch
      BY <2>6 DEF LoopReturns
    <3>4. TypeOK'
      BY <3>1, <3>2, <3>3, TouchTyped DEF TypeOK, Stages, viewVars, queueVars
    <3>5. ViewInv' /\ JudgeInv'
      BY <3>1, <3>3, TouchTyped DEF TypeOK, ViewInv, JudgeInv, Committed, viewVars
    <3> QED BY <3>4, <3>5
  <2>7. CASE LoopThrows(r)
    BY <2>7, TouchTyped
    DEF LoopThrows, Catch, TypeOK, ViewInv, JudgeInv, Stages, Committed, viewVars, queueVars
  <2>8. CASE Close(r)
    BY <2>8, BeginTyped, ReleaseView DEF Close, End, TypeOK, JudgeInv, queueVars, goalVars
  <2>9. CASE SettleInterrupted(r)
    BY <2>9, BeginTyped, ReleaseView
    DEF SettleInterrupted, End, TypeOK, JudgeInv, queueVars, goalVars
  <2>10. CASE SettleFails(r)
    BY <2>10, TouchTyped
    DEF SettleFails, Catch, TypeOK, ViewInv, JudgeInv, Stages, Committed, viewVars, queueVars
  <2>11. CASE SettleLeftover(r)
    BY <2>11, BeginTyped, ReleaseView, TouchTyped
    DEF SettleLeftover, TypeOK, JudgeInv, queueVars
  <2>12. CASE SettleNoGoal(r)
    BY <2>12, BeginTyped, ReleaseView DEF SettleNoGoal, End, TypeOK, JudgeInv, queueVars, goalVars
  <2>13. CASE SettleBudgetSpent(r)
    BY <2>13, BeginTyped, ReleaseView, TouchTyped
    DEF SettleBudgetSpent, End, TypeOK, JudgeInv, queueVars
  <2>14. CASE SettleJudges(r)
    BY <2>14 DEF SettleJudges, TypeOK, ViewInv, JudgeInv, Stages, Committed, viewVars,
                 queueVars, goalVars
  <2>15. ASSUME NEW v \in Verdicts, JudgeEnds(r, v) PROVE Inv'
    <3>1. CASE aborted[r] \/ ~owned[r]
      BY <2>15, <3>1, BeginTyped, ReleaseView, ZenonT(30)
      DEF JudgeEnds, End, TypeOK, JudgeInv, queueVars, goalVars
    <3>2. CASE ~(aborted[r] \/ ~owned[r])
      <4>1. /\ Discard(r) /\ Release(r) /\ UNCHANGED queueVars
            /\ goal' = Judged(v)
            /\ owned' = [s \in Slots |-> FALSE]
            /\ timer' = (goal'.status = "active")
            /\ continued' = IF timer' THEN continued + 1 ELSE continued
        BY <2>15, <3>2 DEF JudgeEnds, End
      <4>2. goal.used < GoalMaxTurns
        BY <2>15, <3>2 DEF JudgeEnds, JudgeInv
      <4>3. /\ owned' \in [Slots -> BOOLEAN] /\ \A s \in Slots : ~owned'[s]
            /\ timer' \in BOOLEAN /\ continued' \in Nat
        BY <4>1 DEF TypeOK
      <4>4. goal' \in [status : {"none", "active", "paused", "done"}, used : 0 .. GoalMaxTurns,
                       parse : 0 .. GoalMaxParse, transport : 0 .. GoalMaxTransport]
        BY <2>15, <4>1, <4>2, JudgedTyped
      <4>5. TypeOK' /\ ViewInv'
        BY <4>1, <4>3, <4>4, BeginTyped, ReleaseView DEF TypeOK, queueVars
      <4>6. JudgeInv'
        BY <4>3 DEF JudgeInv
      <4> QED BY <4>5, <4>6
    <3> QED BY <3>1, <3>2
  <2> QED BY <1>1, <2>1, <2>2, <2>3, <2>4, <2>5, <2>6, <2>7, <2>8, <2>9, <2>10, <2>11,
             <2>12, <2>13, <2>14, <2>15 DEF RunStep
<1>2. ASSUME NEW r \in Slots, TimerFires(r) \/ UserSends(r) \/ SteerWithoutLoop(r)
      PROVE  Inv'
  <2>1. Begin(r) /\ stage[r] = "idle" /\ timer' \in BOOLEAN
        /\ UNCHANGED <<owned, viewVars, queueVars, goal, continued>>
    BY <1>2 DEF TimerFires, UserSends, SteerWithoutLoop, goalVars, TypeOK
  <2>2. TypeOK'
    BY <2>1, BeginTyped DEF TypeOK, viewVars, queueVars
  <2>3. ViewInv' /\ JudgeInv'
    BY <2>1, BeginTyped DEF TypeOK, ViewInv, JudgeInv, Committed, viewVars
  <2> QED BY <2>2, <2>3
<1>3. ASSUME NEW r \in Slots, SetGoal(r) \/ ResumeGoal(r) PROVE Inv'
  <2>1. /\ Begin(r) /\ Touch /\ stage[r] = "idle" /\ continued' = 0
        /\ goal' = NewGoal \/ goal' = [goal EXCEPT !.status = "active"]
        /\ UNCHANGED <<viewVars, queueVars>>
    BY <1>3 DEF SetGoal, ResumeGoal
  <2>2. goal' \in [status : {"none", "active", "paused", "done"}, used : 0 .. GoalMaxTurns,
                   parse : 0 .. GoalMaxParse, transport : 0 .. GoalMaxTransport]
    BY <2>1 DEF NewGoal, NoGoal, TypeOK
  <2>3. TypeOK'
    BY <2>1, <2>2, BeginTyped, TouchTyped DEF TypeOK, viewVars, queueVars
  <2>4. ViewInv' /\ JudgeInv'
    BY <2>1, BeginTyped, TouchTyped DEF TypeOK, ViewInv, JudgeInv, Committed, viewVars
  <2> QED BY <2>3, <2>4
<1>4. CASE UserSteers
  <2>1. inbox' \in [Slots -> 0 .. MaxSteers]
    BY <1>4 DEF UserSteers, TypeOK
  <2>2. TypeOK'
    BY <1>4, <2>1, TouchTyped DEF UserSteers, TypeOK, viewVars, queueVars
  <2>3. ViewInv' /\ JudgeInv'
    BY <1>4, TouchTyped DEF UserSteers, ViewInv, JudgeInv, viewVars
  <2> QED BY <2>2, <2>3
<1>5. CASE UserStops \/ UserSendsNow
  <2>1. AbortOwner /\ parked' \in BOOLEAN
        /\ UNCHANGED <<stage, sameChat, owned, inbox, leftover, viewVars, queue, claims, goalVars>>
    BY <1>5 DEF UserStops, UserSendsNow
  <2>2. aborted' \in [Slots -> BOOLEAN]
    BY <2>1 DEF AbortOwner, TypeOK
  <2>3. TypeOK'
    BY <2>1, <2>2 DEF TypeOK, viewVars, goalVars
  <2>4. ViewInv' /\ JudgeInv'
    BY <2>1 DEF ViewInv, JudgeInv, viewVars, goalVars
  <2> QED BY <2>3, <2>4
<1>6. CASE UserQueues \/ UserDrains \/ Drain \/ \E c \in claims : ClaimFails(c)
  <2>1. /\ UNCHANGED <<slotVars, viewVars, goalVars>>
        /\ queue' \in 0 .. MaxQueue /\ parked' \in BOOLEAN
        /\ claims' \subseteq {"drain", "user"}
    <3>1. CASE UserQueues
      <4>1. queue' = queue + 1 /\ queue < MaxQueue /\ queue \in 0 .. MaxQueue
            /\ claims' \subseteq {"drain", "user"} /\ UNCHANGED <<slotVars, viewVars, goalVars>>
        BY <3>1 DEF UserQueues, TypeOK
      <4>2. parked' \in BOOLEAN
        BY <3>1 DEF UserQueues
      <4> QED BY <4>1, <4>2
    <3>2. CASE UserDrains \/ Drain
      BY <3>2 DEF UserDrains, Drain, TypeOK
    <3>3. CASE \E c \in claims : ClaimFails(c)
      BY <3>3 DEF ClaimFails, TypeOK
    <3> QED BY <1>6, <3>1, <3>2, <3>3
  <2>2. TypeOK'
    BY <2>1 DEF TypeOK, slotVars, viewVars, goalVars
  <2>3. ViewInv' /\ JudgeInv'
    BY <2>1 DEF ViewInv, JudgeInv, slotVars, viewVars, goalVars
  <2> QED BY <2>2, <2>3
<1>7. CASE NewConversation \/ PauseGoal \/ ClearGoal
  <2>1. /\ Touch /\ continued' \in Nat
        /\ goal' = NoGoal \/ goal' = [goal EXCEPT !.status = "paused"]
        /\ queue' \in 0 .. MaxQueue /\ parked' \in BOOLEAN
        /\ claims' \subseteq {"drain", "user"}
        /\ UNCHANGED <<stage, inbox, leftover, viewVars>>
    <3>1. CASE NewConversation
      <4>1. Touch /\ continued' = 0 /\ goal' = NoGoal /\ queue' = 0 /\ claims' = {}
            /\ UNCHANGED <<stage, inbox, leftover, viewVars>>
        BY <3>1 DEF NewConversation
      <4>2. parked' \in BOOLEAN
        BY <3>1 DEF NewConversation
      <4> QED BY <4>1, <4>2
    <3>2. CASE PauseGoal \/ ClearGoal
      BY <3>2 DEF PauseGoal, ClearGoal, TypeOK, queueVars
    <3> QED BY <1>7, <3>1, <3>2
  <2>2. aborted' \in [Slots -> BOOLEAN] /\ sameChat' \in [Slots -> BOOLEAN]
    BY <1>7 DEF NewConversation, PauseGoal, ClearGoal, AbortOwner, TypeOK
  <2>3. goal' \in [status : {"none", "active", "paused", "done"}, used : 0 .. GoalMaxTurns,
                   parse : 0 .. GoalMaxParse, transport : 0 .. GoalMaxTransport]
    BY <2>1 DEF NoGoal, TypeOK
  <2>4. TypeOK'
    BY <2>1, <2>2, <2>3, TouchTyped DEF TypeOK, viewVars
  <2>5. ViewInv' /\ JudgeInv'
    BY <2>1, TouchTyped DEF ViewInv, JudgeInv, viewVars
  <2> QED BY <2>4, <2>5
<1>8. ASSUME NEW c \in claims, NEW r \in Slots, ClaimSaved(c, r) PROVE Inv'
  <2>1. CASE queue > 0
    BY <1>8, <2>1, BeginTyped
    DEF ClaimSaved, TypeOK, ViewInv, JudgeInv, Committed, viewVars, goalVars
  <2>2. CASE ~(queue > 0)
    BY <1>8, <2>2 DEF ClaimSaved, TypeOK, ViewInv, JudgeInv, viewVars, goalVars
  <2> QED BY <2>1, <2>2
<1>9. CASE UNCHANGED vars
  BY <1>9 DEF vars, TypeOK, ViewInv, JudgeInv
<1> QED BY <1>1, <1>2, <1>3, <1>4, <1>5, <1>6, <1>7, <1>8, <1>9
        DEF Next, UserStep, ClaimStep

\* Every variable of the view and of its runs keeps its type; the turn budget
\* is never overspent.
THEOREM TypeCorrect == Spec => []TypeOK
<1>1. Spec => []Inv
  BY InitInv, StepInv, PTL DEF Spec
<1> QED BY <1>1, PTL DEF Inv

\* Whenever the view shows a run, its Stop button reaches a live one.
THEOREM StopAlwaysReaches == Spec => []StopReaches
<1>1. Inv => StopReaches
  BY DEF Inv, ViewInv, StopReaches
<1> QED BY <1>1, InitInv, StepInv, PTL DEF Spec

-----------------------------------------------------------------------------
(* Action properties.                                                      *)

\* The owner changes by the commit of a new run or by the owner's own end.
LEMMA ViewStep ==
    ASSUME Inv, [Next]_vars
    PROVE  \/ UNCHANGED <<owner, running>>
           \/ \E s \in Slots : stage[s] = "preflight" /\ owner' = s /\ running' = TRUE
           \/ \E s \in Slots : owner = s /\ stage'[s] \in {"idle", "preflight"}
<1> USE DEF Inv
<1>1. ASSUME NEW r \in Slots, Release(r), Begin(r) \/ Discard(r)
      PROVE  \/ UNCHANGED <<owner, running>>
             \/ owner = r /\ stage'[r] \in {"idle", "preflight"}
  BY <1>1, BeginTyped DEF Release, viewVars
<1>2. ASSUME NEW r \in Slots, RunStep(r)
      PROVE  \/ UNCHANGED <<owner, running>>
             \/ stage[r] = "preflight" /\ owner' = r /\ running' = TRUE
             \/ owner = r /\ stage'[r] \in {"idle", "preflight"}
  <2>1. CASE Commit(r)
    BY <2>1 DEF Commit
  <2>2. CASE SetupDone(r) \/ SetupFails(r) \/ Deliver(r) \/ Streams(r) \/ LoopReturns(r)
             \/ LoopThrows(r) \/ SettleFails(r) \/ SettleJudges(r)
    BY <2>2 DEF SetupDone, SetupFails, Deliver, Streams, LoopReturns, LoopThrows,
                SettleFails, SettleJudges, viewVars
  <2>3. CASE Close(r) \/ SettleInterrupted(r) \/ SettleNoGoal(r) \/ SettleBudgetSpent(r)
             \/ SettleLeftover(r) \/ \E v \in Verdicts : JudgeEnds(r, v)
    <3>1. Release(r) /\ (Begin(r) \/ Discard(r))
      BY <2>3 DEF Close, SettleInterrupted, SettleNoGoal, SettleBudgetSpent, SettleLeftover,
                  JudgeEnds, End
    <3> QED BY <3>1, <1>1
  <2> QED BY <1>2, <2>1, <2>2, <2>3 DEF RunStep
<1>3. CASE \/ \E r \in Slots : \/ TimerFires(r) \/ UserSends(r) \/ SteerWithoutLoop(r)
                               \/ SetGoal(r) \/ ResumeGoal(r)
           \/ UserSteers \/ UserStops \/ UserSendsNow \/ UserQueues \/ UserDrains
           \/ NewConversation \/ PauseGoal \/ ClearGoal \/ Drain \/ ClaimStep \/ UNCHANGED vars
  BY <1>3 DEF TimerFires, UserSends, SteerWithoutLoop, SetGoal, ResumeGoal, UserSteers,
              UserStops, UserSendsNow, UserQueues, UserDrains, NewConversation, PauseGoal,
              ClearGoal, Drain, ClaimStep, ClaimSaved, ClaimFails, vars, viewVars
<1> QED BY <1>2, <1>3 DEF Next, UserStep

\* A run that ends late never clears the view of its replacement.
THEOREM ViewKept == Spec => OwnershipKept
<1>1. Inv /\ [Next]_vars => \A r \in Slots :
        owner = r /\ stage[r] \in Committed /\ stage'[r] \in Committed =>
            /\ running'
            /\ owner' # r => owner' \in Slots /\ stage[owner'] = "preflight"
  <2> SUFFICES ASSUME Inv, [Next]_vars, NEW r \in Slots,
                      owner = r, stage'[r] \in Committed
               PROVE  /\ running'
                      /\ owner' # r => owner' \in Slots /\ stage[owner'] = "preflight"
    OBVIOUS
  <2>1. running = TRUE
    BY BoundsAssumption DEF Inv, ViewInv, TypeOK
  <2> QED BY <2>1, ViewStep DEF Committed
<1> QED BY <1>1, InitInv, StepInv, PTL DEF Spec, OwnershipKept

\* Only its own steps move a committed run on.
LEMMA StageStep ==
    ASSUME Inv, [Next]_vars, NEW r \in Slots, stage[r] \in Committed, stage'[r] # stage[r]
    PROVE  RunStep(r)
<1> USE DEF Inv
<1>1. ASSUME NEW s \in Slots, RunStep(s), s # r PROVE FALSE
  <2>1. ASSUME Begin(s) \/ Discard(s) PROVE FALSE
    BY <1>1, <2>1, BeginTyped
  <2>2. CASE Commit(s) \/ SetupDone(s) \/ SetupFails(s) \/ LoopReturns(s) \/ LoopThrows(s)
             \/ SettleFails(s) \/ SettleJudges(s) \/ Deliver(s) \/ Streams(s)
    BY <1>1, <2>1, <2>2 DEF Commit, SetupDone, SetupFails, LoopReturns, LoopThrows, SettleFails,
                SettleJudges, Deliver, Streams, Catch, TypeOK
  <2>3. CASE Close(s) \/ SettleInterrupted(s) \/ SettleNoGoal(s) \/ SettleBudgetSpent(s)
             \/ SettleLeftover(s) \/ \E v \in Verdicts : JudgeEnds(s, v)
    BY <2>1, <2>3 DEF Close, SettleInterrupted, SettleNoGoal, SettleBudgetSpent, SettleLeftover,
                      JudgeEnds, End
  <2> QED BY <1>1, <2>2, <2>3 DEF RunStep
<1>2. ASSUME NEW s \in Slots, stage[s] = "idle", Begin(s) PROVE FALSE
  BY <1>2, BeginTyped DEF Committed
<1>3. CASE \/ \E s \in Slots : \/ TimerFires(s) \/ UserSends(s) \/ SteerWithoutLoop(s)
                               \/ SetGoal(s) \/ ResumeGoal(s)
  BY <1>2, <1>3 DEF TimerFires, UserSends, SteerWithoutLoop, SetGoal, ResumeGoal
<1>4. CASE ClaimStep
  BY <1>2, <1>4 DEF ClaimStep, ClaimSaved, ClaimFails, slotVars
<1>5. CASE \/ UserSteers \/ UserStops \/ UserSendsNow \/ UserQueues \/ UserDrains
           \/ NewConversation \/ PauseGoal \/ ClearGoal \/ Drain \/ UNCHANGED vars
  BY <1>5 DEF UserSteers, UserStops, UserSendsNow, UserQueues, UserDrains, NewConversation,
              PauseGoal, ClearGoal, Drain, vars, slotVars
<1> QED BY <1>1, <1>3, <1>4, <1>5 DEF Next, UserStep

\* Once interrupted, a run moves no goal, schedules nothing and sends nothing.
THEOREM InterruptSilences == Spec => InterruptedRunSilent
<1>1. Inv /\ [Next]_vars => \A r \in Slots :
        aborted[r] /\ stage[r] \in Committed /\ stage'[r] # stage[r] =>
            goal' = goal /\ (timer' => timer) /\ stage'[r] # "preflight"
  <2> SUFFICES ASSUME Inv, [Next]_vars, NEW r \in Slots,
                      aborted[r], stage[r] \in Committed, stage'[r] # stage[r]
               PROVE  goal' = goal /\ (timer' => timer) /\ stage'[r] # "preflight"
    OBVIOUS
  <2> USE DEF Inv
  <2>1. RunStep(r)
    BY StageStep
  <2>2. CASE Commit(r) \/ Deliver(r) \/ Streams(r) \/ SettleLeftover(r) \/ SettleNoGoal(r)
             \/ SettleBudgetSpent(r) \/ SettleJudges(r)
    BY <2>2 DEF Commit, Deliver, Streams, SettleLeftover, SettleNoGoal, SettleBudgetSpent,
                SettleJudges, Committed
  <2>3. CASE SetupDone(r) \/ SetupFails(r) \/ LoopReturns(r) \/ LoopThrows(r) \/ SettleFails(r)
    BY <2>3 DEF SetupDone, SetupFails, LoopReturns, LoopThrows, SettleFails, Catch, TypeOK, goalVars
  <2>4. CASE Close(r) \/ SettleInterrupted(r) \/ \E v \in Verdicts : JudgeEnds(r, v)
    <3>1. Discard(r) /\ UNCHANGED goalVars
      BY <2>4 DEF Close, SettleInterrupted, JudgeEnds, End
    <3> QED BY <3>1 DEF Discard, TypeOK, goalVars
  <2> QED BY <2>1, <2>2, <2>3, <2>4 DEF RunStep
<1> QED BY <1>1, InitInv, StepInv, PTL DEF Spec, InterruptedRunSilent

-----------------------------------------------------------------------------
(* The bound of the goal loop.                                             *)

\* The continuations of an active goal are paid for by the turns it has spent
\* and the failures since the last of them; one resumed with its failures
\* used up gets none until a verdict counts.
CountInv ==
    /\ continued <= GoalMaxTurns * GoalStride
    /\ goal.status = "active" =>
         /\ continued <= goal.used * GoalStride + goal.parse + goal.transport
         /\ goal.parse >= GoalMaxParse \/ goal.transport >= GoalMaxTransport => continued = 0

\* A turn more pays for one stride more.
LEMMA NextTurn ==
    ASSUME NEW u \in Nat, NEW m \in Nat, u < m, NEW k \in Nat
    PROVE  /\ (u + 1) * k = u * k + k
           /\ u * k + k <= m * k
           /\ u * k \in Nat /\ m * k \in Nat
<1>1. (u + 1) * k = u * k + k
  OBVIOUS
<1>2. PICK d \in Nat : m = u + 1 + d
  <2>1. m - (u + 1) \in Nat /\ m = u + 1 + (m - (u + 1))
    OBVIOUS
  <2> QED BY <2>1
<1>3. m * k = (u + 1) * k + d * k
  BY <1>2
<1>4. d * k \in Nat /\ u * k \in Nat /\ m * k \in Nat
  OBVIOUS
<1> QED BY <1>1, <1>3, <1>4

\* The invariant that counts continuations.
LEMMA InitCount == Init => CountInv
<1> SUFFICES ASSUME Init PROVE CountInv
  OBVIOUS
<1>1. GoalStride \in Nat /\ continued = 0 /\ goal.status = "none"
  BY BoundsAssumption DEF Init, GoalStride, NoGoal
<1>2. GoalMaxTurns * GoalStride \in Nat
  BY <1>1, BoundsAssumption
<1> QED BY <1>1, <1>2 DEF CountInv

\* A goal that keeps its counters, or is not active, needs no new payment.
LEMMA CountFrame ==
    ASSUME TypeOK, CountInv, UNCHANGED continued \/ continued' = 0,
           \/ goal' = goal
           \/ goal'.status # "active"
           \/ /\ continued' = 0 /\ goal'.used \in Nat
              /\ goal'.parse \in Nat /\ goal'.transport \in Nat
    PROVE  CountInv'
<1>1. GoalStride \in Nat /\ GoalMaxTurns * GoalStride \in Nat
  <2>1. GoalStride \in Nat
    BY BoundsAssumption DEF GoalStride
  <2> QED BY <2>1, BoundsAssumption
<1>2. continued' <= GoalMaxTurns * GoalStride
  BY <1>1 DEF CountInv
<1>3. CASE goal'.status # "active"
  BY <1>2, <1>3 DEF CountInv, GoalStride
<1>4. CASE goal' = goal /\ UNCHANGED continued
  BY <1>4 DEF CountInv, GoalStride
<1>5. CASE continued' = 0 /\ goal'.used \in Nat /\ goal'.parse \in Nat /\ goal'.transport \in Nat
  <2>1. goal'.used * GoalStride \in Nat
    BY <1>1, <1>5
  <2> QED BY <1>2, <1>5, <2>1 DEF CountInv, GoalStride
<1>6. CASE goal' = goal /\ continued' = 0
  BY <1>5, <1>6 DEF TypeOK
<1> QED BY <1>3, <1>4, <1>5, <1>6

\* Only a verdict that counts adds a continuation, and it pays for it.
LEMMA JudgedCount ==
    ASSUME TypeOK, CountInv, goal.status = "active", goal.used < GoalMaxTurns,
           NEW v \in Verdicts, goal' = Judged(v),
           continued' = IF goal'.status = "active" THEN continued + 1 ELSE continued
    PROVE  CountInv'
<1> USE BoundsAssumption DEF TypeOK
<1>1. /\ goal.used \in Nat /\ GoalMaxTurns \in Nat /\ continued \in Nat
      /\ goal.parse \in Nat /\ goal.transport \in Nat
      /\ GoalStride \in Nat \ {0} /\ GoalStride = GoalMaxParse + GoalMaxTransport - 1
  BY DEF GoalStride
<1>2. /\ (goal.used + 1) * GoalStride = goal.used * GoalStride + GoalStride
      /\ goal.used * GoalStride + GoalStride <= GoalMaxTurns * GoalStride
      /\ goal.used * GoalStride \in Nat /\ GoalMaxTurns * GoalStride \in Nat
  BY <1>1, NextTurn
<1>3. continued + 1 <= goal.used * GoalStride + GoalStride
  BY <1>1, <1>2 DEF CountInv
<1>4. CASE goal'.status # "active"
  BY <1>1, <1>2, <1>4 DEF CountInv, GoalStride
<1>5. CASE v = "continue"
  <2>1. goal'.used = goal.used + 1 /\ goal'.parse = 0 /\ goal'.transport = 0
    BY <1>5 DEF Judged, Failures
  <2> QED BY <1>1, <1>2, <1>3, <1>4, <1>5, <2>1 DEF CountInv, GoalStride
<1>6. CASE v \in Failures /\ goal'.status = "active"
  <2>1. /\ goal'.used = goal.used
        /\ goal'.parse < GoalMaxParse /\ goal'.transport < GoalMaxTransport
        /\ goal'.parse + goal'.transport = goal.parse + goal.transport + 1
        /\ goal'.parse \in Nat /\ goal'.transport \in Nat
    BY <1>6 DEF Judged, Failures, Failed
  <2>2. continued' = continued + 1
    BY <1>6
  <2>3. continued' <= goal.used * GoalStride + goal'.parse + goal'.transport
    BY <1>1, <1>2, <2>1, <2>2 DEF CountInv
  <2>4. continued' <= GoalMaxTurns * GoalStride
    BY <1>1, <1>2, <1>3, <2>2
  <2> QED BY <1>1, <2>1, <2>3, <2>4 DEF CountInv, GoalStride
<1>7. CASE v = "done" \/ v = "wait"
  BY <1>4, <1>7 DEF Judged, Failures
<1> QED BY <1>4, <1>5, <1>6, <1>7 DEF Verdicts, Failures

LEMMA StepCount == Inv /\ CountInv /\ [Next]_vars => CountInv'
<1> SUFFICES ASSUME Inv, CountInv, [Next]_vars PROVE CountInv'
  OBVIOUS
<1> USE DEF Inv
<1>1. ASSUME NEW r \in Slots, RunStep(r) PROVE CountInv'
  <2>1. CASE UNCHANGED <<goal, continued>>
    BY <2>1, CountFrame
  <2>2. CASE SettleBudgetSpent(r)
    <3>1. goal'.status # "active" /\ UNCHANGED continued
      BY <2>2 DEF SettleBudgetSpent, TypeOK
    <3> QED BY <3>1, CountFrame
  <2>3. ASSUME NEW v \in Verdicts, JudgeEnds(r, v) PROVE CountInv'
    <3>1. CASE aborted[r] \/ ~owned[r]
      BY <2>1, <2>3, <3>1 DEF JudgeEnds, goalVars
    <3>2. CASE ~(aborted[r] \/ ~owned[r])
      <4>1. /\ goal.status = "active" /\ goal.used < GoalMaxTurns
            /\ goal' = Judged(v)
            /\ timer' = (goal'.status = "active")
            /\ continued' = IF timer' THEN continued + 1 ELSE continued
        BY <2>3, <3>2 DEF JudgeEnds, JudgeInv
      <4> QED BY <2>3, <4>1, JudgedCount
    <3> QED BY <3>1, <3>2
  <2>4. CASE \/ Commit(r) \/ SetupDone(r) \/ SetupFails(r) \/ Deliver(r) \/ Streams(r)
             \/ LoopReturns(r) \/ LoopThrows(r) \/ Close(r) \/ SettleInterrupted(r)
             \/ SettleFails(r) \/ SettleLeftover(r) \/ SettleNoGoal(r) \/ SettleJudges(r)
    BY <2>1, <2>4 DEF Commit, SetupDone, SetupFails, Deliver, Streams, LoopReturns, LoopThrows,
                Close, SettleInterrupted, SettleFails, SettleLeftover, SettleNoGoal,
                SettleJudges, goalVars
  <2> QED BY <1>1, <2>2, <2>3, <2>4 DEF RunStep
<1>2. CASE \E r \in Slots : SetGoal(r) \/ ResumeGoal(r)
  <2>1. /\ continued' = 0 /\ goal'.used \in Nat
        /\ goal'.parse \in Nat /\ goal'.transport \in Nat
    BY <1>2, BoundsAssumption DEF SetGoal, ResumeGoal, NewGoal, NoGoal, TypeOK
  <2> QED BY <2>1, CountFrame
<1>3. CASE NewConversation \/ PauseGoal \/ ClearGoal
  <2>1. goal'.status # "active" /\ (UNCHANGED continued \/ continued' = 0)
    BY <1>3 DEF NewConversation, PauseGoal, ClearGoal, NoGoal, TypeOK
  <2> QED BY <2>1, CountFrame
<1>4. CASE \/ \E r \in Slots : TimerFires(r) \/ UserSends(r) \/ SteerWithoutLoop(r)
           \/ UserSteers \/ UserStops \/ UserSendsNow \/ UserQueues \/ UserDrains
           \/ Drain \/ ClaimStep \/ UNCHANGED vars
  <2>1. UNCHANGED <<goal, continued>>
    BY <1>4 DEF TimerFires, UserSends, SteerWithoutLoop, UserSteers, UserStops, UserSendsNow,
                UserQueues, UserDrains, Drain, ClaimStep, ClaimSaved, ClaimFails, vars, goalVars
  <2> QED BY <2>1, CountFrame
<1> QED BY <1>1, <1>2, <1>3, <1>4 DEF Next, UserStep

\* For every budget and every number of tolerated failures, a goal that is left
\* alone continues at most budget times stride turns.
THEOREM GoalBounded == Spec => []GoalBackstop
<1>1. Spec => [](Inv /\ CountInv)
  BY InitInv, StepInv, InitCount, StepCount, PTL DEF Spec
<1>2. CountInv => GoalBackstop
  BY DEF CountInv, GoalBackstop
<1> QED BY <1>1, <1>2, PTL

-----------------------------------------------------------------------------
(* Composer, for any conversations, policies and bounds.                   *)

\* There is a conversation and a policy to start in, the bounds are numbers, and
\* None is no conversation.
BoxBounds ==
    /\ Chats # {} /\ Scopes # {} /\ None \notin Chats
    /\ MaxEntries \in Nat /\ MaxTurns \in Nat

\* What may stand in a conversation: nothing, or what was typed in its family.
HomeOf(c) == Box!Family(c) \cup {None}

Prompt == [id : Nat, chat : Chats, text : Box!Text, files : SUBSET Box!File]

OfHome(e, c) == e.chat = c /\ e.text \in HomeOf(c)

AskOf == [what : {"pick", "skill", "disk", "load", "branch"}, chat : Chats, scope : Scopes,
          to : Chats \cup Nat \cup {None}]

BoxPlaces ==
    /\ chat \in known /\ known \subseteq Chats /\ scope \in Scopes
    /\ parent \in [Chats -> Chats \cup {None}]
    /\ \A c \in Chats \ known : parent[c] = None

BoxTurns ==
    /\ turns \in [Chats -> Seq(Box!Text)]
    /\ \A c \in Chats : \A i \in 1 .. Len(turns[c]) : turns[c][i] \in HomeOf(c)

BoxTyped ==
    /\ input \in HomeOf(chat)
    /\ browse \in [cursor : Nat, draft : Box!Text]
    /\ browse.draft \in HomeOf(chat) /\ browse.cursor <= Len(turns[chat])

BoxDrafts ==
    /\ drafts \in [Chats -> Box!Text]
    /\ \A c \in Chats : drafts[c] \in HomeOf(c)

BoxFiles ==
    /\ files \subseteq Box!File /\ asks \subseteq AskOf
    /\ \A a \in asks : a.what = "load" => a.to \in known

\* The draft and the files an edit put aside come back when it is cancelled.
BoxSnap ==
    /\ edit \in Nat \cup {None}
    /\ snap # None => snap.files \subseteq Box!File
    /\ edit # None /\ snap # None => snap.draft \in HomeOf(chat)

BoxQueue ==
    /\ entries \in Nat /\ queued \in [Chats -> Seq(Prompt)]
    /\ \A c \in Chats : \A i \in 1 .. Len(queued[c]) : OfHome(queued[c][i], c)

\* The list that a failed save brings back is of the same conversation, and but
\* for an addition it misses none of the entries that show.
BoxSave ==
    saving # None =>
        /\ saving.chat \in Chats /\ saving.before \in Seq(Prompt)
        /\ \A i \in 1 .. Len(saving.before) : OfHome(saving.before[i], saving.chat)
        /\ \A e \in saving.gone : OfHome(e, saving.chat)
        /\ saving.op # "add" =>
              \A i \in 1 .. Len(queued[saving.chat]) :
                  \E k \in 1 .. Len(saving.before) : saving.before[k].id = queued[saving.chat][i].id

BoxInv ==
    BoxPlaces /\ BoxTurns /\ BoxTyped /\ BoxDrafts /\ BoxFiles /\ BoxSnap /\ BoxQueue /\ BoxSave

-----------------------------------------------------------------------------
\* A conversation is of its own family, and a family grows with a branch.
LEMMA OwnFamily ==
    ASSUME NEW c \in Chats
    PROVE  c \in Box!Family(c) /\ Box!Family(c) \subseteq Chats
BY DEF Box!Family

LEMMA FamilyKept ==
    ASSUME UNCHANGED parent
    PROVE  \A c : HomeOf(c)' = HomeOf(c)
BY DEF HomeOf, Box!Family

LEMMA FamilyGrows ==
    ASSUME NEW d \in Chats, NEW b \in Chats, parent[d] = None, parent \in [Chats -> Chats \cup {None}],
           parent' = [parent EXCEPT ![d] = b], None \notin Chats
    PROVE  /\ \A c \in Chats : HomeOf(c) \subseteq HomeOf(c)'
           /\ HomeOf(b) \subseteq HomeOf(d)'
<1>1. ASSUME NEW S \in SUBSET Chats, \A x \in S : parent'[x] # None => parent'[x] \in S
      PROVE  /\ \A x \in S : parent[x] # None => parent[x] \in S
             /\ d \in S => b \in S
  BY <1>1
<1>2. ASSUME NEW c \in Chats, NEW e \in Box!Family(c) PROVE e \in Box!Family(c)'
  <2>1. e \in Chats  BY <1>2 DEF Box!Family
  <2>2. ASSUME NEW S \in SUBSET Chats, c \in S, \A x \in S : parent'[x] # None => parent'[x] \in S
        PROVE  e \in S
    BY <1>1, <1>2, <2>2 DEF Box!Family
  <2> QED  BY <2>1, <2>2 DEF Box!Family
<1>3. ASSUME NEW e \in Box!Family(b) PROVE e \in Box!Family(d)'
  <2>1. e \in Chats  BY <1>3 DEF Box!Family
  <2>2. ASSUME NEW S \in SUBSET Chats, d \in S, \A x \in S : parent'[x] # None => parent'[x] \in S
        PROVE  e \in S
    BY <1>1, <1>3, <2>2 DEF Box!Family
  <2> QED  BY <2>1, <2>2 DEF Box!Family
<1> QED  BY <1>2, <1>3 DEF HomeOf

\* Homes are sets of texts.
LEMMA HomeTexts ==
    ASSUME NEW c \in Chats
    PROVE  HomeOf(c) \subseteq Box!Text /\ c \in HomeOf(c) /\ None \in HomeOf(c)
BY OwnFamily DEF HomeOf, Box!Text

\* A list without the entry at one place holds the others.
LEMMA WithoutOne ==
    ASSUME NEW S, NEW q \in Seq(S), NEW i \in 1 .. Len(q)
    PROVE  /\ Box!RemoveAt(q, i) \in Seq(S) /\ Len(Box!RemoveAt(q, i)) = Len(q) - 1
           /\ \A k \in 1 .. Len(q) - 1 : Box!RemoveAt(q, i)[k] = IF k < i THEN q[k] ELSE q[k + 1]
<1> DEFINE a == SubSeq(q, 1, i - 1)
           b == SubSeq(q, i + 1, Len(q))
<1>1. a \in Seq(S) /\ Len(a) = i - 1 /\ \A k \in 1 .. i - 1 : a[k] = q[k]
  BY SubSeqProperties
<1>2. b \in Seq(S) /\ Len(b) = Len(q) - i /\ \A k \in 1 .. Len(q) - i : b[k] = q[k + i]
  BY SubSeqProperties
<1>3. Box!RemoveAt(q, i) = a \o b
  BY DEF Box!RemoveAt
<1> HIDE DEF a, b
<1>4. /\ a \o b \in Seq(S) /\ Len(a \o b) = Len(q) - 1
      /\ \A k \in 1 .. Len(q) - 1 : (a \o b)[k] = IF k <= i - 1 THEN a[k] ELSE b[k - (i - 1)]
  <2>1. Len(q) \in Nat  OBVIOUS
  <2>2. a \o b \in Seq(S) /\ Len(a \o b) = Len(a) + Len(b)
    BY <1>1, <1>2, ConcatProperties
  <2>3. \A k \in 1 .. Len(a) + Len(b) : (a \o b)[k] = IF k <= Len(a) THEN a[k] ELSE b[k - Len(a)]
    BY <1>1, <1>2, ConcatProperties
  <2> QED BY <1>1, <1>2, <2>1, <2>2, <2>3
<1>5. \A k \in 1 .. Len(q) - 1 : (a \o b)[k] = IF k < i THEN q[k] ELSE q[k + 1]
  BY <1>1, <1>2, <1>4
<1> QED BY <1>3, <1>4, <1>5

-----------------------------------------------------------------------------
LEMMA BoxInitial ==
    ASSUME BoxBounds, Box!ComposerInit
    PROVE  BoxInv
<1>1. chat \in Chats /\ known = {chat} /\ scope \in Scopes
  BY DEF Box!ComposerInit, BoxBounds
<1>2. BoxPlaces
  BY <1>1 DEF BoxPlaces, Box!ComposerInit
<1>3. BoxTurns
  <2>1. PICK said \in {<<>>, <<chat>>} : turns = [c \in Chats |-> IF c = chat THEN said ELSE <<>>]
    BY DEF Box!ComposerInit
  <2>2. chat \in Box!Text
    BY <1>1 DEF Box!Text
  <2>5. said \in Seq(Box!Text) /\ \A i \in 1 .. Len(said) : said[i] = chat
    <3>1. CASE said = <<>>  BY <3>1
    <3>2. CASE said = <<chat>>  BY <2>2, <3>2
    <3> QED  BY <2>1, <3>1, <3>2
  <2> QED  BY <1>1, <2>1, <2>5, HomeTexts DEF BoxTurns
<1>4. BoxTyped
  BY <1>1, <1>3, HomeTexts DEF BoxTyped, BoxTurns, Box!ComposerInit, Box!Idle, Box!Text
<1>5. BoxDrafts
  BY HomeTexts DEF BoxDrafts, Box!ComposerInit, Box!Text
<1>6. BoxFiles /\ BoxSnap /\ BoxSave
  BY DEF BoxFiles, BoxSnap, BoxSave, Box!ComposerInit
<1>7. BoxQueue
  <2> DEFINE n(c) == IF c = chat THEN entries ELSE 0
             e(i) == [id |-> i, chat |-> chat, text |-> chat, files |-> {}]
  <2>1. entries \in Nat /\ queued = [c \in Chats |-> [i \in 1 .. n(c) |-> e(i)]]
    BY DEF Box!ComposerInit, BoxBounds
  <2>2. \A i \in Nat : e(i) \in Prompt /\ OfHome(e(i), chat)
    BY <1>1, HomeTexts DEF Prompt, OfHome, Box!Text
  <2> HIDE DEF e
  <2>3. ASSUME NEW c \in Chats
        PROVE  queued[c] \in Seq(Prompt) /\ \A i \in 1 .. Len(queued[c]) : OfHome(queued[c][i], c)
    <3>1. queued[c] = [i \in 1 .. n(c) |-> e(i)] /\ n(c) \in Nat
      BY <2>1
    <3>2. CASE c = chat  BY <2>2, <3>1, <3>2
    <3>3. CASE c # chat  BY <3>1, <3>3
    <3> QED  BY <3>2, <3>3
  <2> QED  BY <2>1, <2>3 DEF BoxQueue
<1> QED BY <1>2, <1>3, <1>4, <1>5, <1>6, <1>7 DEF BoxInv

-----------------------------------------------------------------------------
\* What a step keeps when it leaves the conversations, the queue or the edit alone.
LEMMA ChatsKept ==
    ASSUME BoxInv, UNCHANGED <<chat, known, parent, turns, drafts>>, scope' \in Scopes
    PROVE  BoxPlaces' /\ BoxTurns' /\ BoxDrafts'
<1>1. \A c : HomeOf(c)' = HomeOf(c)  BY FamilyKept
<1>2. BoxPlaces'  BY DEF BoxInv, BoxPlaces
<1>3. BoxTurns'  BY <1>1 DEF BoxInv, BoxTurns
<1>4. BoxDrafts'  BY <1>1 DEF BoxInv, BoxDrafts
<1> QED BY <1>2, <1>3, <1>4

LEMMA QueueKept ==
    ASSUME BoxInv, UNCHANGED <<parent, queued, saving, entries>>
    PROVE  BoxQueue' /\ BoxSave'
<1>1. \A c : HomeOf(c)' = HomeOf(c)  BY FamilyKept
<1>2. \A e, c : OfHome(e, c)' = OfHome(e, c)  BY <1>1 DEF OfHome
<1>3. BoxQueue'  BY <1>2 DEF BoxInv, BoxQueue
<1>4. BoxSave'  BY <1>2 DEF BoxInv, BoxSave
<1> QED BY <1>3, <1>4

LEMMA SnapKept ==
    ASSUME BoxInv, UNCHANGED <<chat, parent, snap, edit>>
    PROVE  BoxSnap'
<1>1. HomeOf(chat)' = HomeOf(chat)  BY FamilyKept
<1> QED BY <1>1 DEF BoxInv, BoxSnap

LEMMA TypedKept ==
    ASSUME BoxInv, UNCHANGED <<chat, parent, turns, input, browse>>
    PROVE  BoxTyped'
<1>1. HomeOf(chat)' = HomeOf(chat)  BY FamilyKept
<1> QED BY <1>1 DEF BoxInv, BoxTyped

LEMMA FilesKept ==
    ASSUME BoxInv, files' \subseteq Box!File, asks' \subseteq asks, known \subseteq known'
    PROVE  BoxFiles'
BY DEF BoxInv, BoxFiles

\* The file of a conversation and a policy, as a step adds it.
LEMMA FileAdded ==
    ASSUME BoxInv, NEW c \in Chats, NEW s \in Scopes
    PROVE  Box!Added([chat |-> c, scope |-> s]) \subseteq Box!File
BY DEF BoxInv, BoxFiles, Box!Added, Box!File

LEMMA Asked ==
    ASSUME BoxInv, NEW w \in {"pick", "skill", "disk", "branch"}, NEW t \in Nat \cup {None},
           Box!Ask(w, t)
    PROVE  asks' \subseteq AskOf /\ \A a \in asks' : a.what = "load" => a.to \in known
<1> DEFINE r == [what |-> w, chat |-> chat, scope |-> scope, to |-> t]
<1>1. r \in AskOf /\ r.what # "load"
  BY DEF BoxInv, BoxPlaces, AskOf
<1>2. asks' = asks \cup {r}
  BY DEF Box!Ask
<1> HIDE DEF r
<1> QED BY <1>1, <1>2 DEF BoxInv, BoxFiles

LEMMA TypeStep ==
    ASSUME BoxBounds, BoxInv, Box!Type \/ Box!Erase \/ Box!AcceptRow
    PROVE  BoxInv'
<1>1. UNCHANGED <<chat, known, parent, turns, drafts, queued, saving, entries, snap, edit, scope, files, asks, browse>>
  BY DEF Box!Type, Box!Erase, Box!AcceptRow, Box!view, Box!held, Box!mode
<1>2. input' \in {None, chat}
  BY DEF Box!Type, Box!Erase, Box!AcceptRow
<1>3. chat \in Chats /\ scope \in Scopes
  BY DEF BoxInv, BoxPlaces
<1>4. HomeOf(chat)' = HomeOf(chat) /\ input' \in HomeOf(chat)
  BY <1>1, <1>2, <1>3, FamilyKept, HomeTexts
<1>5. BoxTyped'
  BY <1>1, <1>4 DEF BoxInv, BoxTyped
<1>6. BoxFiles'
  BY <1>1, FilesKept DEF BoxInv, BoxFiles
<1> QED BY <1>1, <1>3, <1>5, <1>6, ChatsKept, QueueKept, SnapKept DEF BoxInv

LEMMA RecallStep ==
    ASSUME BoxBounds, BoxInv, Box!Older \/ Box!Newer
    PROVE  BoxInv'
<1>1. UNCHANGED <<chat, known, parent, turns, drafts, queued, saving, entries, snap, edit, scope, files, asks>>
  BY DEF Box!Older, Box!Newer, Box!view, Box!held, Box!mode
<1>2. chat \in Chats /\ scope \in Scopes
  BY DEF BoxInv, BoxPlaces
<1>3. HomeOf(chat)' = HomeOf(chat) /\ HomeOf(chat) \subseteq Box!Text
  BY <1>1, <1>2, FamilyKept, HomeTexts
<1>4. /\ turns[chat] \in Seq(Box!Text) /\ Len(turns[chat]) \in Nat
      /\ \A i \in 1 .. Len(turns[chat]) : turns[chat][i] \in HomeOf(chat)
      /\ browse \in [cursor : Nat, draft : Box!Text] /\ browse.cursor <= Len(turns[chat])
      /\ browse.cursor \in Nat /\ browse.draft \in HomeOf(chat) /\ input \in HomeOf(chat)
  BY <1>2 DEF BoxInv, BoxTurns, BoxTyped
<1>5. /\ Len(Box!History) = Len(turns[chat])
      /\ \A i \in 1 .. Len(turns[chat]) : Box!History[i] \in HomeOf(chat)
  <2>1. Box!History = [i \in 1 .. Len(turns[chat]) |-> turns[chat][(Len(turns[chat]) - i) + 1]]
    BY DEF Box!History, Box!Reverse
  <2>2. \A i \in 1 .. Len(turns[chat]) : (Len(turns[chat]) - i) + 1 \in 1 .. Len(turns[chat])
    BY <1>4
  <2> QED BY <1>4, <2>1, <2>2
<1>6. BoxTyped'
  <2>1. CASE Box!Older
    <3>1. browse' = Box!browseBackward /\ input' = Box!History[browse'.cursor] /\ browse.cursor < Len(turns[chat])
      BY <1>5, <2>1 DEF Box!Older
    <3>2. browse'.cursor = browse.cursor + 1 /\ browse'.draft \in {input, browse.draft}
      BY <3>1 DEF Box!browseBackward
    <3>3. browse' \in [cursor : Nat, draft : Box!Text]
      BY <1>3, <1>4, <3>1 DEF Box!browseBackward
    <3>4. input' \in HomeOf(chat)
      BY <1>4, <1>5, <3>1, <3>2
    <3> QED BY <1>1, <1>3, <1>4, <3>1, <3>2, <3>3, <3>4 DEF BoxTyped
  <2>2. CASE Box!Newer
    <3>1. browse' = Box!browseForward.to /\ input' = Box!browseForward.text
      BY <2>2 DEF Box!Newer
    <3>2. CASE browse.cursor > 1
      <4>1. browse' = [browse EXCEPT !.cursor = @ - 1] /\ input' = Box!History[browse.cursor - 1]
        BY <3>1, <3>2 DEF Box!browseForward
      <4>2. browse' \in [cursor : Nat, draft : Box!Text] /\ browse'.draft = browse.draft
            /\ browse'.cursor = browse.cursor - 1
        BY <1>4, <3>2, <4>1
      <4>3. input' \in HomeOf(chat)
        BY <1>4, <1>5, <3>2, <4>1
      <4> QED BY <1>1, <1>3, <1>4, <4>2, <4>3 DEF BoxTyped
    <3>3. CASE ~(browse.cursor > 1)
      <4>1. browse' = Box!Idle /\ input' = browse.draft
        BY <3>1, <3>3 DEF Box!browseForward
      <4> QED BY <1>1, <1>2, <1>3, <1>4, <4>1, HomeTexts DEF BoxTyped, Box!Idle
    <3> QED BY <3>2, <3>3
  <2> QED BY <2>1, <2>2
<1>7. BoxFiles'
  BY <1>1, FilesKept DEF BoxInv, BoxFiles
<1> QED BY <1>1, <1>2, <1>6, <1>7, ChatsKept, QueueKept, SnapKept DEF BoxInv

\* Steps that are about attachments and requests.
LEMMA AttachStep ==
    ASSUME BoxBounds, BoxInv,
           \/ Box!PickVault \/ Box!DropFiles \/ Box!RunSkillOnSelection \/ Box!RemoveFile \/ Box!Branch
           \/ \E a \in asks, ok \in BOOLEAN : Box!Picked(a, ok) \/ Box!SkillLoaded(a, ok)
           \/ \E a \in asks : Box!Dropped(a)
           \/ \E c \in Chats : Box!Load(c)
           \/ Box!TurnEnds
    PROVE  BoxInv'
<1>1. UNCHANGED <<chat, known, parent, turns, drafts, queued, saving, entries, snap, edit, scope, input, browse>>
  BY DEF Box!PickVault, Box!DropFiles, Box!RunSkillOnSelection, Box!RemoveFile, Box!Branch, Box!Picked,
         Box!SkillLoaded, Box!Dropped, Box!Load, Box!TurnEnds, Box!view, Box!box, Box!held, Box!mode
<1>2. chat \in Chats /\ scope \in Scopes /\ files \subseteq Box!File
  BY DEF BoxInv, BoxPlaces, BoxFiles
<1>3. BoxFiles'
  <2>1. CASE Box!PickVault \/ Box!DropFiles
    <3>1. files' = files /\ \E w \in {"pick", "disk"} : Box!Ask(w, None)
      BY <2>1 DEF Box!PickVault, Box!DropFiles, Box!box
    <3> QED BY <1>1, <1>2, <3>1, Asked DEF BoxFiles
  <2>2. CASE Box!RunSkillOnSelection
    <3>1. Box!Ask("skill", None) /\ \E s \in Scopes : files' = Box!Added([chat |-> chat, scope |-> s])
      BY <2>2 DEF Box!RunSkillOnSelection
    <3> QED BY <1>2, <3>1, <1>1, Asked, FileAdded DEF BoxFiles
  <2>3. CASE Box!RemoveFile
    BY <1>1, <1>2, <2>3, FilesKept DEF Box!RemoveFile
  <2>4. CASE Box!Branch
    <3>1. files' = files /\ Box!Ask("branch", Len(turns[chat]))
      BY <2>4 DEF Box!Branch, Box!box
    <3>2. Len(turns[chat]) \in Nat
      BY <1>2 DEF BoxInv, BoxTurns
    <3> QED BY <1>2, <3>1, <1>1, <3>2, Asked DEF BoxFiles
  <2>5. ASSUME NEW a \in asks, NEW ok \in BOOLEAN, Box!Picked(a, ok) \/ Box!SkillLoaded(a, ok) \/ Box!Dropped(a)
        PROVE  BoxFiles'
    <3>1. asks' \subseteq asks /\ a.chat \in Chats /\ a.scope \in Scopes
      BY <2>5 DEF BoxInv, BoxFiles, AskOf, Box!Picked, Box!SkillLoaded, Box!Dropped
    <3>2. files' \in {files, Box!Added([chat |-> a.chat, scope |-> a.scope])}
      BY <2>5 DEF Box!Picked, Box!SkillLoaded, Box!Dropped
    <3> QED BY <1>1, <1>2, <3>1, <3>2, FileAdded, FilesKept
  <2>6. ASSUME NEW c \in Chats, Box!Load(c) PROVE BoxFiles'
    <3> DEFINE r == [what |-> "load", chat |-> chat, scope |-> scope, to |-> c]
    <3>1. asks' = Box!NoLoad \cup {r} /\ files' = files /\ c \in known
      BY <2>6 DEF Box!Load, Box!box
    <3>2. r \in AskOf /\ r.to \in known
      BY <1>2, <3>1 DEF AskOf
    <3> HIDE DEF r
    <3> QED BY <1>1, <1>2, <3>1, <3>2 DEF BoxInv, BoxFiles, Box!NoLoad
  <2>7. CASE Box!TurnEnds
    BY <1>1, <1>2, <2>7, FilesKept DEF Box!TurnEnds, Box!box
  <2> QED BY <2>1, <2>2, <2>3, <2>4, <2>5, <2>6, <2>7
<1> QED BY <1>1, <1>2, <1>3, ChatsKept, QueueKept, SnapKept, TypedKept DEF BoxInv

-----------------------------------------------------------------------------
\* The effects of a new sessionId.
LEMMA Switched ==
    ASSUME BoxInv, NEW c \in Chats, Box!SwitchTo(c)
    PROVE  /\ chat' = c /\ drafts' \in [Chats -> Box!Text] /\ input' \in HomeOf(c)
           /\ \A x \in Chats : drafts'[x] \in HomeOf(x)
           /\ edit' \in {edit, None} /\ (c # chat => edit' = None)
<1>1. chat \in Chats /\ input \in HomeOf(chat) /\ drafts \in [Chats -> Box!Text]
  BY DEF BoxInv, BoxPlaces, BoxTyped, BoxDrafts
<1>2. input \in Box!Text
  BY <1>1, HomeTexts
<1>3. \A x \in Chats : drafts[x] \in HomeOf(x)
  BY DEF BoxInv, BoxDrafts
<1>4. chat' = c /\ input' \in HomeOf(c) /\ edit' \in {edit, None} /\ (c # chat => edit' = None)
  BY <1>3 DEF Box!SwitchTo
<1>5. drafts' \in {drafts, [drafts EXCEPT ![chat] = input]}
  BY DEF Box!SwitchTo
<1> QED BY <1>1, <1>2, <1>3, <1>4, <1>5

LEMMA NewBegun ==
    ASSUME BoxBounds, BoxInv, Box!NewConversation
    PROVE  /\ BoxPlaces' /\ BoxTurns' /\ BoxTyped' /\ BoxDrafts' /\ BoxFiles' /\ BoxSnap'
           /\ UNCHANGED parent /\ files' = {} /\ armed' = None /\ edit' = None
<1>1. PICK c \in Chats \ known : Box!SwitchTo(c) /\ known' = known \cup {c} /\ browse' = Box!Idle
  BY DEF Box!NewConversation
<1>2. UNCHANGED <<parent, turns, scope, snap>> /\ files' = {} /\ armed' = None /\ asks' = Box!NoLoad
  BY DEF Box!NewConversation
<1>3. /\ chat' = c /\ drafts' \in [Chats -> Box!Text] /\ input' \in HomeOf(c)
      /\ \A x \in Chats : drafts'[x] \in HomeOf(x) /\ edit' \in {edit, None} /\ (c # chat => edit' = None)
  BY <1>1, Switched
<1>4. \A x : HomeOf(x)' = HomeOf(x)
  BY <1>2, FamilyKept
<1>5. edit' = None
  BY <1>1, <1>3 DEF BoxInv, BoxPlaces
<1>6. BoxPlaces'
  BY <1>1, <1>2, <1>3 DEF BoxInv, BoxPlaces
<1>7. BoxTurns'
  BY <1>2, <1>4 DEF BoxInv, BoxTurns
<1>8. BoxTyped'
  <2>1. Len(turns'[c]) \in Nat  BY <1>7 DEF BoxTurns
  <2>2. input' \in HomeOf(chat)'  BY <1>3, <1>4
  <2>3. browse'.draft \in HomeOf(chat)' /\ browse' \in [cursor : Nat, draft : Box!Text]
    BY <1>1, <1>3, <1>4 DEF Box!Idle, HomeOf, Box!Text
  <2>4. browse'.cursor <= Len(turns'[chat'])
    BY <1>1, <1>3, <2>1 DEF Box!Idle
  <2> QED BY <2>2, <2>3, <2>4 DEF BoxTyped
<1>9. BoxDrafts'
  BY <1>3, <1>4 DEF BoxDrafts
<1>10. BoxFiles'
  BY <1>1, <1>2, FilesKept DEF Box!NoLoad
<1>11. BoxSnap'
  BY <1>2, <1>5 DEF BoxInv, BoxSnap
<1> QED BY <1>2, <1>5, <1>6, <1>7, <1>8, <1>9, <1>10, <1>11

LEMMA NewStep ==
    ASSUME BoxBounds, BoxInv, Box!New \/ Box!ScopeRendered
    PROVE  BoxInv'
<1>1. Box!NewConversation /\ UNCHANGED <<queued, saving, entries>>
  BY DEF Box!New, Box!ScopeRendered, Box!held
<1> QED BY <1>1, NewBegun, QueueKept DEF BoxInv

LEMMA ScopeStep ==
    ASSUME BoxBounds, BoxInv, Box!ChangeScope
    PROVE  BoxInv'
<1>1. /\ UNCHANGED <<chat, known, parent, turns, drafts, queued, saving, entries, snap, edit, input, browse, files, asks>>
      /\ scope' \in Scopes
  BY DEF Box!ChangeScope, Box!box, Box!held, Box!mode
<1>2. BoxFiles'
  BY <1>1, FilesKept DEF BoxInv, BoxFiles
<1> QED BY <1>1, <1>2, ChatsKept, QueueKept, SnapKept, TypedKept DEF BoxInv

LEMMA LoadedStep ==
    ASSUME BoxBounds, BoxInv, NEW a \in asks, NEW found \in BOOLEAN, Box!Loaded(a, found)
    PROVE  BoxInv'
<1>1. /\ UNCHANGED <<known, parent, turns, scope, files, queued, saving, entries, snap>>
      /\ asks' = asks \ {a} /\ a.what = "load"
  BY DEF Box!Loaded, Box!held
<1>2. BoxFiles' /\ a.to \in known /\ scope \in Scopes /\ known \subseteq Chats
  BY <1>1, FilesKept DEF BoxInv, BoxFiles, BoxPlaces
<1>3. CASE Box!Current(a) /\ found
  <2>1. Box!SwitchTo(a.to) /\ browse' = Box!Idle
    BY <1>3 DEF Box!Loaded
  <2>2. /\ chat' = a.to /\ drafts' \in [Chats -> Box!Text] /\ input' \in HomeOf(a.to)
        /\ \A x \in Chats : drafts'[x] \in HomeOf(x)
        /\ edit' \in {edit, None} /\ (a.to # chat => edit' = None)
    BY <1>2, <2>1, Switched
  <2>3. \A x : HomeOf(x)' = HomeOf(x)
    BY <1>1, FamilyKept
  <2>4. BoxPlaces'
    BY <1>1, <1>2, <2>2 DEF BoxInv, BoxPlaces
  <2>5. BoxTurns'
    BY <1>1, <2>3 DEF BoxInv, BoxTurns
  <2>6. BoxTyped'
    <3>1. Len(turns'[a.to]) \in Nat  BY <1>2, <2>5 DEF BoxTurns
    <3>2. input' \in HomeOf(chat)'  BY <2>2, <2>3
    <3>3. browse'.draft \in HomeOf(chat)' /\ browse' \in [cursor : Nat, draft : Box!Text]
      BY <2>1 DEF Box!Idle, HomeOf, Box!Text
    <3>4. browse'.cursor <= Len(turns'[chat'])
      BY <2>1, <2>2, <3>1 DEF Box!Idle
    <3> QED BY <3>2, <3>3, <3>4 DEF BoxTyped
  <2>7. BoxDrafts'
    BY <2>2, <2>3 DEF BoxDrafts
  <2>8. BoxSnap'
    BY <1>1, <2>2, <2>3 DEF BoxInv, BoxSnap
  <2> QED BY <1>1, <1>2, <2>4, <2>5, <2>6, <2>7, <2>8, QueueKept DEF BoxInv
<1>4. CASE ~(Box!Current(a) /\ found)
  <2>1. UNCHANGED <<chat, input, drafts, edit, browse>>
    BY <1>4 DEF Box!Loaded
  <2> QED BY <1>1, <1>2, <2>1, ChatsKept, QueueKept, SnapKept, TypedKept DEF BoxInv
<1> QED BY <1>3, <1>4

\* A branch has the family of the conversation it was made from.
LEMMA BranchedStep ==
    ASSUME BoxBounds, BoxInv, NEW a \in asks, Box!Branched(a)
    PROVE  BoxInv'
<1>1. UNCHANGED <<scope, files, browse, queued, saving, entries, snap>> /\ asks' \subseteq asks
  BY DEF Box!Branched, Box!held, Box!NoLoad
<1>2. CASE Box!Current(a) /\ Len(turns[chat]) = a.to
  <2>1. PICK c \in Chats \ known :
          /\ Box!SwitchTo(c) /\ known' = known \cup {c} /\ parent' = [parent EXCEPT ![c] = chat]
          /\ turns' = [turns EXCEPT ![c] = turns[chat]]
    BY <1>2 DEF Box!Branched
  <2>2. /\ chat' = c /\ drafts' \in [Chats -> Box!Text] /\ input' \in HomeOf(c)
        /\ \A x \in Chats : drafts'[x] \in HomeOf(x)
        /\ edit' \in {edit, None} /\ (c # chat => edit' = None)
    BY <2>1, Switched
  <2>3. c # chat /\ chat \in Chats /\ parent[c] = None /\ parent \in [Chats -> Chats \cup {None}]
    BY DEF BoxInv, BoxPlaces
  <2>4. (\A x \in Chats : HomeOf(x) \subseteq HomeOf(x)') /\ HomeOf(chat) \subseteq HomeOf(c)'
    BY <2>1, <2>3, FamilyGrows DEF BoxBounds
  <2>5. BoxPlaces'
    BY <1>1, <2>1, <2>2, <2>3 DEF BoxInv, BoxPlaces
  <2>6. BoxTurns'
    <3>1. turns \in [Chats -> Seq(Box!Text)] /\ \A x \in Chats : \A i \in 1 .. Len(turns[x]) : turns[x][i] \in HomeOf(x)
      BY DEF BoxInv, BoxTurns
    <3>2. turns' \in [Chats -> Seq(Box!Text)]
      BY <2>1, <2>3, <3>1
    <3>3. \A x \in Chats : \A i \in 1 .. Len(turns'[x]) : turns'[x][i] \in HomeOf(x)'
      BY <2>1, <2>3, <2>4, <3>1
    <3> QED BY <3>2, <3>3 DEF BoxTurns
  <2>7. BoxTyped'
    <3>1. turns'[c] = turns[chat]
      BY <2>1 DEF BoxInv, BoxTurns
    <3> QED BY <1>1, <2>2, <2>4, <3>1 DEF BoxInv, BoxTyped
  <2>8. BoxDrafts'
    BY <2>2, <2>4 DEF BoxDrafts
  <2>9. BoxSnap' /\ BoxFiles'
    BY <1>1, <2>1, <2>2, <2>3, FilesKept DEF BoxInv, BoxSnap, BoxFiles
  <2>10. \A e, x : x \in Chats /\ OfHome(e, x) => OfHome(e, x)'
    BY <2>4 DEF OfHome
  <2>11. BoxQueue' /\ BoxSave'
    BY <1>1, <2>10 DEF BoxInv, BoxQueue, BoxSave
  <2> QED BY <2>5, <2>6, <2>7, <2>8, <2>9, <2>11 DEF BoxInv
<1>3. CASE ~(Box!Current(a) /\ Len(turns[chat]) = a.to)
  <2>1. UNCHANGED <<chat, known, parent, turns, input, drafts, edit>>
    BY <1>3 DEF Box!Branched
  <2>2. BoxFiles' /\ scope \in Scopes
    BY <1>1, <2>1, FilesKept DEF BoxInv, BoxFiles, BoxPlaces
  <2> QED BY <1>1, <2>1, <2>2, ChatsKept, QueueKept, SnapKept, TypedKept DEF BoxInv
<1> QED BY <1>2, <1>3

-----------------------------------------------------------------------------
\* The texts and files of an entry, and the conversation it is in.
LEMMA EntryHas ==
    ASSUME BoxInv, NEW e \in Box!Range(queued[chat])
    PROVE  e \in Prompt /\ OfHome(e, chat) /\ e.id \in Nat /\ e.files \subseteq Box!File
<1>1. chat \in Chats
  BY DEF BoxInv, BoxPlaces
<1>2. PICK i \in 1 .. Len(queued[chat]) : e = queued[chat][i]
  BY <1>1 DEF BoxInv, BoxQueue, Box!Range
<1>3. e \in Prompt /\ OfHome(e, chat)
  BY <1>1, <1>2 DEF BoxInv, BoxQueue
<1> QED BY <1>3 DEF Prompt

LEMMA EditStep ==
    ASSUME BoxBounds, BoxInv,
           \/ \E e \in Box!Range(queued[chat]) : Box!BeginQueueEdit(e)
           \/ \E dir \in {-1, 1} : Box!StepQueueEdit(dir)
           \/ Box!CancelQueueEdit
    PROVE  BoxInv'
<1>1. UNCHANGED <<chat, known, parent, turns, drafts, queued, saving, entries, scope, asks>>
  BY DEF Box!BeginQueueEdit, Box!StepQueueEdit, Box!CancelQueueEdit, Box!view, Box!held
<1>2. /\ chat \in Chats /\ scope \in Scopes /\ files \subseteq Box!File /\ input \in HomeOf(chat)
      /\ edit \in Nat \cup {None} /\ (snap # None => snap.files \subseteq Box!File)
      /\ (edit # None /\ snap # None => snap.draft \in HomeOf(chat))
      /\ None \in HomeOf(chat) /\ browse.draft \in HomeOf(chat) /\ Len(turns[chat]) \in Nat
  BY HomeTexts DEF BoxInv, BoxPlaces, BoxTyped, BoxFiles, BoxSnap, BoxTurns
<1>3. HomeOf(chat)' = HomeOf(chat)
  BY <1>1, FamilyKept
<1>4. /\ browse' \in {browse, Box!Idle} /\ input' \in HomeOf(chat) /\ files' \subseteq Box!File /\ BoxSnap'
  <2>1. ASSUME NEW e \in Box!Range(queued[chat]), Box!BeginQueueEdit(e)
        PROVE  browse' \in {browse, Box!Idle} /\ input' \in HomeOf(chat) /\ files' \subseteq Box!File /\ BoxSnap'
    <3>1. /\ snap' = [draft |-> input, files |-> files] /\ browse' = Box!Idle
          /\ edit' = e.id /\ input' = e.text /\ files' = e.files
      BY <2>1 DEF Box!BeginQueueEdit
    <3>2. OfHome(e, chat) /\ e.id \in Nat /\ e.files \subseteq Box!File
      BY EntryHas
    <3>3. snap'.draft = input /\ snap'.files = files
      BY <3>1
    <3> QED BY <1>2, <1>3, <3>1, <3>2, <3>3 DEF BoxSnap, OfHome
  <2>2. ASSUME NEW dir \in {-1, 1}, Box!StepQueueEdit(dir)
        PROVE  browse' \in {browse, Box!Idle} /\ input' \in HomeOf(chat) /\ files' \subseteq Box!File /\ BoxSnap'
    <3>1. PICK i \in DOMAIN queued[chat] :
            /\ edit' = queued[chat][i].id /\ edit # None
            /\ input' = queued[chat][i].text /\ files' = queued[chat][i].files
      BY <2>2 DEF Box!StepQueueEdit
    <3>2. UNCHANGED <<browse, snap>>
      BY <2>2 DEF Box!StepQueueEdit
    <3>3. OfHome(queued[chat][i], chat) /\ queued[chat][i].id \in Nat /\ queued[chat][i].files \subseteq Box!File
      BY EntryHas DEF Box!Range
    <3> QED BY <1>2, <1>3, <3>1, <3>2, <3>3 DEF BoxSnap, OfHome
  <2>3. ASSUME Box!CancelQueueEdit
        PROVE  browse' \in {browse, Box!Idle} /\ input' \in HomeOf(chat) /\ files' \subseteq Box!File /\ BoxSnap'
    <3>1. /\ edit # None /\ edit' = None /\ snap' = None /\ browse' = browse
          /\ IF snap = None THEN UNCHANGED <<input, files>> ELSE input' = snap.draft /\ files' = snap.files
      BY <2>3 DEF Box!CancelQueueEdit
    <3> QED BY <1>2, <3>1 DEF BoxSnap
  <2> QED BY <2>1, <2>2, <2>3
<1>5. BoxTyped'
  BY <1>1, <1>2, <1>3, <1>4 DEF BoxInv, BoxTyped, Box!Idle, Box!Text
<1>6. BoxFiles'
  BY <1>1, <1>4, FilesKept
<1> QED BY <1>1, <1>2, <1>4, <1>5, <1>6, ChatsKept, QueueKept DEF BoxInv

\* A transaction that shows a list of entries of this conversation, and drops none
\* unseen but when it is to add one.
LEMMA Persisted ==
    ASSUME BoxBounds, BoxInv, NEW op, NEW list \in Seq(Prompt), Box!Persist(op, list),
           UNCHANGED <<chat, parent>>, entries' \in Nat,
           \A i \in 1 .. Len(list) : OfHome(list[i], chat),
           op # "add" => \A i \in 1 .. Len(list) :
               \E k \in 1 .. Len(queued[chat]) : queued[chat][k].id = list[i].id
    PROVE  BoxQueue' /\ BoxSave'
<1>1. chat \in Chats /\ queued \in [Chats -> Seq(Prompt)]
  BY DEF BoxInv, BoxPlaces, BoxQueue
<1>2. \A e, c : OfHome(e, c)' = OfHome(e, c)
  BY FamilyKept DEF OfHome
<1>3. queued' = [queued EXCEPT ![chat] = list]
  BY DEF Box!Persist
<1>4. PICK s : s = [op |-> op, chat |-> chat, scope |-> scope, before |-> queued[chat],
                    gone |-> Box!Range(queued[chat]) \ Box!Range(list)]
  OBVIOUS
<1>5. saving' = s
  BY <1>4 DEF Box!Persist
<1>6. s.op = op /\ s.chat = chat /\ s.before = queued[chat] /\ s.gone \subseteq Box!Range(queued[chat])
  BY <1>4
<1>7. BoxQueue'
  BY <1>1, <1>2, <1>3 DEF BoxInv, BoxQueue
<1>8. /\ queued[chat] \in Seq(Prompt)
      /\ \A i \in 1 .. Len(queued[chat]) : OfHome(queued[chat][i], chat)
      /\ \A e \in s.gone : OfHome(e, chat)
      /\ queued'[chat] = list
  BY <1>1, <1>3, <1>6, EntryHas DEF BoxInv, BoxQueue
<1>9. BoxSave'
  BY <1>1, <1>2, <1>5, <1>6, <1>8 DEF BoxSave
<1> QED BY <1>7, <1>9

\* An entry filtered out, or put first.
LEMMA WithoutFits ==
    ASSUME BoxInv, NEW i \in DOMAIN queued[chat]
    PROVE  /\ Box!Without(i) \in Seq(Prompt) /\ <<queued[chat][i]>> \o Box!Without(i) \in Seq(Prompt)
           /\ \A k \in 1 .. Len(Box!Without(i)) :
                 \E n \in 1 .. Len(queued[chat]) : n # i /\ Box!Without(i)[k] = queued[chat][n]
           /\ \A n \in 1 .. Len(queued[chat]) :
                 n # i => \E k \in 1 .. Len(Box!Without(i)) : Box!Without(i)[k] = queued[chat][n]
<1> DEFINE q == queued[chat]
           r == Box!Without(i)
<1>1. q \in Seq(Prompt) /\ Len(q) \in Nat /\ i \in 1 .. Len(q)
  BY DEF BoxInv, BoxPlaces, BoxQueue
<1>2. r = Box!RemoveAt(q, i)
  BY DEF Box!Without
<1> HIDE DEF q, r
<1>3. /\ r \in Seq(Prompt) /\ Len(r) = Len(q) - 1
      /\ \A k \in 1 .. Len(q) - 1 : r[k] = IF k < i THEN q[k] ELSE q[k + 1]
  BY <1>1, <1>2, WithoutOne
<1>4. q[i] \in Prompt
  BY <1>1
<1>5. <<q[i]>> \o r \in Seq(Prompt)
  BY <1>3, <1>4, ConcatProperties
<1>6. ASSUME NEW k \in 1 .. Len(r) PROVE \E n \in 1 .. Len(q) : n # i /\ r[k] = q[n]
  <2>1. CASE k < i  BY <1>1, <1>3, <2>1
  <2>2. CASE ~(k < i)
    <3>1. k + 1 \in 1 .. Len(q) /\ k + 1 # i /\ r[k] = q[k + 1]
      BY <1>1, <1>3, <2>2
    <3> QED BY <3>1
  <2> QED BY <2>1, <2>2
<1>7. ASSUME NEW n \in 1 .. Len(q), n # i PROVE \E k \in 1 .. Len(r) : r[k] = q[n]
  <2>1. CASE n < i  BY <1>1, <1>3, <2>1
  <2>2. CASE ~(n < i)
    <3>1. n - 1 \in 1 .. Len(r) /\ ~(n - 1 < i) /\ r[n - 1] = q[n]
      BY <1>1, <1>3, <1>7, <2>2
    <3> QED BY <3>1
  <2> QED BY <2>1, <2>2
<1> QED BY <1>3, <1>5, <1>6, <1>7 DEF q, r

LEMMA PutFirst ==
    ASSUME NEW S, NEW e \in S, NEW r \in Seq(S)
    PROVE  /\ <<e>> \o r \in Seq(S) /\ Len(<<e>> \o r) = Len(r) + 1 /\ (<<e>> \o r)[1] = e
           /\ \A k \in 1 .. Len(r) : (<<e>> \o r)[k + 1] = r[k]
<1>1. <<e>> \in Seq(S) /\ Len(<<e>>) = 1 /\ <<e>>[1] = e /\ Len(r) \in Nat
  OBVIOUS
<1>2. /\ <<e>> \o r \in Seq(S) /\ Len(<<e>> \o r) = 1 + Len(r)
      /\ \A k \in 1 .. 1 + Len(r) : (<<e>> \o r)[k] = IF k <= 1 THEN <<e>>[k] ELSE r[k - 1]
  BY <1>1, ConcatProperties
<1>3. (<<e>> \o r)[1] = e
  BY <1>1, <1>2
<1>4. ASSUME NEW k \in 1 .. Len(r) PROVE (<<e>> \o r)[k + 1] = r[k]
  <2>1. k + 1 \in 1 .. 1 + Len(r) /\ ~(k + 1 <= 1) /\ (k + 1) - 1 = k
    BY <1>1
  <2> QED BY <1>2, <2>1
<1> QED BY <1>1, <1>2, <1>3, <1>4

\* What a transaction needs to show: the entry edited in its place, the list
\* without an entry, or with one first.
LEMMA SaveEditStep ==
    ASSUME BoxBounds, BoxInv, Box!SaveEdit
    PROVE  BoxInv'
<1>1. /\ UNCHANGED <<chat, known, parent, turns, drafts, entries, scope, asks>>
      /\ edit' = None /\ snap' = None /\ input' = None /\ files' = {} /\ browse' = Box!Idle
  BY DEF Box!SaveEdit, Box!view
<1>2. /\ chat \in Chats /\ scope \in Scopes /\ files \subseteq Box!File /\ input \in HomeOf(chat)
      /\ None \in HomeOf(chat) /\ Len(turns[chat]) \in Nat /\ entries \in Nat /\ HomeOf(chat) \subseteq Box!Text
      /\ queued[chat] \in Seq(Prompt)
  BY HomeTexts DEF BoxInv, BoxPlaces, BoxTyped, BoxFiles, BoxTurns, BoxQueue
<1>3. HomeOf(chat)' = HomeOf(chat)
  BY <1>1, FamilyKept
<1>4. BoxTyped' /\ BoxSnap'
  BY <1>1, <1>2, <1>3 DEF BoxTyped, BoxSnap, Box!Idle, Box!Text
<1>5. BoxFiles'
  BY <1>1, FilesKept
<1>6. BoxQueue' /\ BoxSave'
  <2>1. CASE UNCHANGED <<queued, saving>>
    BY <1>1, <2>1, QueueKept
  <2>2. CASE ~UNCHANGED <<queued, saving>>
    <3> DEFINE q == queued[chat]
               n(i) == IF q[i].id = edit THEN [q[i] EXCEPT !.text = input, !.files = files] ELSE q[i]
               list == [i \in DOMAIN q |-> n(i)]
    <3>1. Box!Persist("edit", list)
      BY <2>2 DEF Box!SaveEdit
    <3>2. ASSUME NEW i \in 1 .. Len(q)
          PROVE  n(i) \in Prompt /\ OfHome(n(i), chat) /\ n(i).id = q[i].id
      <4>1. q[i] \in Prompt /\ OfHome(q[i], chat)
        BY <1>2, EntryHas DEF Box!Range
      <4>2. PICK e : e = [q[i] EXCEPT !.text = input, !.files = files]
        OBVIOUS
      <4>3. e \in Prompt /\ e.chat = q[i].chat /\ e.id = q[i].id /\ e.text = input
        BY <1>2, <4>1, <4>2 DEF Prompt
      <4>4. n(i) \in {e, q[i]}
        BY <4>2
      <4> HIDE DEF n
      <4> QED BY <1>2, <4>1, <4>3, <4>4 DEF OfHome
    <3> HIDE DEF n
    <3>3. DOMAIN q = 1 .. Len(q) /\ Len(q) \in Nat
      BY <1>2
    <3>4. list \in Seq(Prompt) /\ Len(list) = Len(q) /\ \A i \in 1 .. Len(q) : list[i] = n(i)
      BY <3>2, <3>3
    <3>5. \A i \in 1 .. Len(list) : OfHome(list[i], chat) /\ list[i].id = q[i].id
      BY <3>2, <3>4
    <3> HIDE DEF list
    <3> QED BY <1>1, <1>2, <3>1, <3>3, <3>4, <3>5, Persisted
  <2> QED BY <2>1, <2>2
<1> QED BY <1>1, <1>2, <1>4, <1>5, <1>6, ChatsKept DEF BoxInv

LEMMA EnqueueStep ==
    ASSUME BoxBounds, BoxInv, Box!Enqueue
    PROVE  BoxInv'
<1>1. /\ UNCHANGED <<chat, known, parent, turns, drafts, scope, asks, edit, snap>>
      /\ input' = None /\ files' = {} /\ browse' = Box!Idle /\ entries' = entries + 1
  BY DEF Box!Enqueue, Box!view, Box!mode
<1>2. /\ chat \in Chats /\ scope \in Scopes /\ files \subseteq Box!File /\ input \in HomeOf(chat)
      /\ None \in HomeOf(chat) /\ Len(turns[chat]) \in Nat /\ entries \in Nat /\ HomeOf(chat) \subseteq Box!Text
      /\ queued[chat] \in Seq(Prompt)
  BY HomeTexts DEF BoxInv, BoxPlaces, BoxTyped, BoxFiles, BoxTurns, BoxQueue
<1>3. HomeOf(chat)' = HomeOf(chat)
  BY <1>1, FamilyKept
<1>4. BoxTyped'
  BY <1>1, <1>2, <1>3 DEF BoxTyped, Box!Idle, Box!Text
<1>5. BoxFiles'
  BY <1>1, FilesKept
<1>6. BoxQueue' /\ BoxSave'
  <2> DEFINE e == [id |-> entries + 1, chat |-> chat, text |-> input, files |-> files]
             list == Append(queued[chat], e)
  <2>1. Box!Persist("add", list)
    BY DEF Box!Enqueue
  <2>2. e \in Prompt /\ OfHome(e, chat)
    BY <1>2 DEF Prompt, OfHome
  <2>3. \A i \in 1 .. Len(queued[chat]) : OfHome(queued[chat][i], chat)
    BY <1>2 DEF BoxInv, BoxQueue
  <2> HIDE DEF e
  <2>4. list \in Seq(Prompt) /\ \A i \in 1 .. Len(list) : OfHome(list[i], chat)
    BY <1>2, <2>2, <2>3, AppendProperties
  <2>5. entries' \in Nat
    BY <1>1, <1>2
  <2> HIDE DEF list
  <2> QED BY <1>1, <2>1, <2>4, <2>5, Persisted
<1> QED BY <1>1, <1>2, <1>4, <1>5, <1>6, ChatsKept, SnapKept DEF BoxInv

LEMMA TakeStep ==
    ASSUME BoxBounds, BoxInv,
           \/ Box!DeleteEntry \/ Box!Drain
           \/ \E i \in DOMAIN queued[chat] : Box!SendQueued(i) \/ Box!Promote(i)
    PROVE  BoxInv'
<1>1. UNCHANGED <<chat, known, parent, turns, drafts, scope, asks, edit, snap, input, browse, files, entries>>
  BY DEF Box!DeleteEntry, Box!Drain, Box!SendQueued, Box!Promote, Box!view, Box!box, Box!mode
<1>2. chat \in Chats /\ scope \in Scopes /\ entries \in Nat /\ queued[chat] \in Seq(Prompt)
      /\ files \subseteq Box!File
  BY DEF BoxInv, BoxPlaces, BoxQueue, BoxFiles
<1>3. PICK i \in DOMAIN queued[chat], op \in {"drop", "take", "first"} :
        \E list \in {Box!Without(i), <<queued[chat][i]>> \o Box!Without(i)} : Box!Persist(op, list)
  <2>1. CASE Box!DeleteEntry  BY <2>1 DEF Box!DeleteEntry
  <2>2. CASE Box!Drain  BY <2>2 DEF Box!Drain
  <2>3. ASSUME NEW i \in DOMAIN queued[chat], Box!SendQueued(i) PROVE Box!Persist("take", Box!Without(i))
    BY <2>3 DEF Box!SendQueued
  <2>4. ASSUME NEW i \in DOMAIN queued[chat], Box!Promote(i)
        PROVE  Box!Persist("first", <<queued[chat][i]>> \o Box!Without(i))
    BY <2>4 DEF Box!Promote
  <2> QED BY <2>1, <2>2, <2>3, <2>4
<1>4. PICK list \in {Box!Without(i), <<queued[chat][i]>> \o Box!Without(i)} : Box!Persist(op, list)
  BY <1>3
<1>5. list \in Seq(Prompt) /\ \A k \in 1 .. Len(list) : \E n \in 1 .. Len(queued[chat]) : list[k] = queued[chat][n]
  <2>1. CASE list = Box!Without(i)
    BY <2>1, WithoutFits
  <2>2. CASE list = <<queued[chat][i]>> \o Box!Without(i)
    <3>1. queued[chat][i] \in Prompt /\ i \in 1 .. Len(queued[chat]) /\ Box!Without(i) \in Seq(Prompt)
      BY <1>2, WithoutFits
    <3> DEFINE r == Box!Without(i)
    <3>2. /\ Len(list) = Len(r) + 1 /\ list[1] = queued[chat][i] /\ Len(r) \in Nat
          /\ \A k \in 1 .. Len(r) : list[k + 1] = r[k]
      BY <2>2, <3>1, PutFirst
    <3>3. \A k \in 1 .. Len(r) : \E n \in 1 .. Len(queued[chat]) : r[k] = queued[chat][n]
      BY WithoutFits
    <3> HIDE DEF r
    <3>4. ASSUME NEW k \in 1 .. Len(list) PROVE \E n \in 1 .. Len(queued[chat]) : list[k] = queued[chat][n]
      <4>1. CASE k = 1  BY <3>1, <3>2, <4>1
      <4>2. CASE k # 1
        <5>1. k - 1 \in 1 .. Len(r) /\ (k - 1) + 1 = k  BY <3>2, <4>2
        <5> QED BY <3>2, <3>3, <5>1
      <4> QED BY <4>1, <4>2
    <3> QED BY <2>2, <3>4, WithoutFits
  <2> QED BY <2>1, <2>2
<1>6. \A k \in 1 .. Len(list) : OfHome(list[k], chat)
  BY <1>2, <1>5 DEF BoxInv, BoxQueue
<1>7. \A k \in 1 .. Len(list) : \E n \in 1 .. Len(queued[chat]) : queued[chat][n].id = list[k].id
  BY <1>5
<1>8. BoxQueue' /\ BoxSave'
  BY <1>1, <1>2, <1>4, <1>5, <1>6, <1>7, Persisted
<1>9. BoxFiles'
  BY <1>1, <1>2, FilesKept
<1> QED BY <1>1, <1>2, <1>8, <1>9, ChatsKept, SnapKept, TypedKept DEF BoxInv

\* The end of a save, whatever else its step does.
LEMMA SettledQueue ==
    ASSUME BoxBounds, BoxInv, NEW ok \in BOOLEAN, Box!Settled(ok), UNCHANGED parent
    PROVE  BoxQueue' /\ BoxSave'
<1>1. saving # None /\ saving' = None /\ entries' = entries
  BY DEF Box!Settled
<1>2. queued' = IF Box!SaveStands(ok) THEN queued ELSE [queued EXCEPT ![saving.chat] = saving.before]
  BY DEF Box!Settled
<1>3. saving.chat \in Chats /\ saving.before \in Seq(Prompt)
      /\ \A i \in 1 .. Len(saving.before) : OfHome(saving.before[i], saving.chat)
  BY <1>1 DEF BoxInv, BoxSave
<1>4. \A e, c : OfHome(e, c)' = OfHome(e, c)
  BY FamilyKept DEF OfHome
<1>5. BoxQueue'
  BY <1>1, <1>2, <1>3, <1>4 DEF BoxInv, BoxQueue
<1>6. BoxSave'
  BY <1>1 DEF BoxSave
<1> QED BY <1>5, <1>6

LEMMA SaveEndsStep ==
    ASSUME BoxBounds, BoxInv, NEW ok \in BOOLEAN, Box!SaveEnds(ok)
    PROVE  BoxInv'
<1>1. /\ UNCHANGED <<chat, known, parent, turns, drafts, scope, asks, edit, snap, input, browse, files>>
      /\ Box!Settled(ok)
  BY DEF Box!SaveEnds, Box!view, Box!box, Box!mode
<1>2. BoxQueue' /\ BoxSave'
  BY <1>1, SettledQueue
<1>3. BoxFiles' /\ scope \in Scopes
  BY <1>1, FilesKept DEF BoxInv, BoxFiles, BoxPlaces
<1> QED BY <1>1, <1>2, <1>3, ChatsKept, SnapKept, TypedKept DEF BoxInv

\* A prompt of this conversation becomes one of its turns.
LEMMA RunBegun ==
    ASSUME BoxBounds, BoxInv, NEW text \in HomeOf(chat), Box!RunAgent(text),
           UNCHANGED <<chat, known, parent, scope, drafts>>
    PROVE  /\ BoxPlaces' /\ BoxTurns' /\ BoxDrafts' /\ Len(turns'[chat]) \in Nat
           /\ Len(turns[chat]) <= Len(turns'[chat])
<1>1. chat \in Chats /\ scope \in Scopes /\ turns \in [Chats -> Seq(Box!Text)] /\ text \in Box!Text
      /\ \A c \in Chats : \A i \in 1 .. Len(turns[c]) : turns[c][i] \in HomeOf(c)
  BY HomeTexts DEF BoxInv, BoxPlaces, BoxTurns
<1>2. turns' = [turns EXCEPT ![chat] = Append(@, text)]
  BY DEF Box!RunAgent
<1>3. \A c : HomeOf(c)' = HomeOf(c)
  BY FamilyKept
<1>4. PICK t \in Seq(Box!Text) : t = turns[chat]
  BY <1>1
<1>5. /\ Append(t, text) \in Seq(Box!Text) /\ Len(Append(t, text)) = Len(t) + 1 /\ Len(t) \in Nat
      /\ \A i \in 1 .. Len(t) + 1 : Append(t, text)[i] \in HomeOf(chat)
  <2>1. \A i \in 1 .. Len(t) : t[i] \in HomeOf(chat)
    BY <1>1, <1>4
  <2> QED BY <1>1, <2>1, AppendProperties
<1>6. turns'[chat] = Append(t, text) /\ \A c \in Chats \ {chat} : turns'[c] = turns[c]
  BY <1>1, <1>2, <1>4
<1>7. turns' \in [Chats -> Seq(Box!Text)]
  BY <1>1, <1>2, <1>4, <1>5
<1>8. BoxTurns'
  BY <1>1, <1>3, <1>5, <1>6, <1>7 DEF BoxTurns
<1>9. BoxPlaces' /\ BoxDrafts'
  BY <1>3 DEF BoxInv, BoxPlaces, BoxDrafts
<1> QED BY <1>4, <1>5, <1>6, <1>8, <1>9

LEMMA SendStep ==
    ASSUME BoxBounds, BoxInv, Box!Send \/ Box!EntrySent
    PROVE  BoxInv'
<1>1. UNCHANGED <<chat, known, parent, drafts, scope, asks, edit, snap>>
  BY DEF Box!Send, Box!EntrySent, Box!mode
<1>2. chat \in Chats /\ files \subseteq Box!File /\ None \in HomeOf(chat) /\ Len(turns[chat]) \in Nat
      /\ browse.draft \in HomeOf(chat) /\ input \in HomeOf(chat) /\ browse \in [cursor : Nat, draft : Box!Text]
      /\ browse.cursor <= Len(turns[chat])
  BY HomeTexts DEF BoxInv, BoxPlaces, BoxFiles, BoxTurns, BoxTyped
<1>3. HomeOf(chat)' = HomeOf(chat)
  BY <1>1, FamilyKept
<1>4. /\ BoxPlaces' /\ BoxTurns' /\ BoxDrafts' /\ Len(turns'[chat]) \in Nat
      /\ Len(turns[chat]) <= Len(turns'[chat]) /\ BoxQueue' /\ BoxSave'
  <2>1. CASE Box!Send
    <3>1. Box!RunAgent(input) /\ UNCHANGED <<queued, saving, entries>>
      BY <2>1 DEF Box!Send, Box!held
    <3> QED BY <1>1, <1>2, <3>1, RunBegun, QueueKept
  <2>2. CASE Box!EntrySent
    <3>1. PICK e \in saving.gone : Box!RunAgent(e.text)
      BY <2>2 DEF Box!EntrySent
    <3>2. Box!Settled(TRUE) /\ saving # None /\ saving.chat = chat
      BY <2>2 DEF Box!EntrySent, Box!Settled, Box!SaveStands
    <3>3. e.text \in HomeOf(chat)
      BY <3>2 DEF BoxInv, BoxSave, OfHome
    <3> QED BY <1>1, <3>1, <3>2, <3>3, RunBegun, SettledQueue
  <2> QED BY <2>1, <2>2
<1>5. BoxTyped'
  <2>1. CASE Box!Send
    BY <1>1, <1>2, <1>3, <1>4, <2>1 DEF Box!Send, BoxTyped, Box!Idle, Box!Text
  <2>2. CASE Box!EntrySent
    BY <1>1, <1>2, <1>3, <1>4, <2>2 DEF Box!EntrySent, BoxTyped
  <2> QED BY <2>1, <2>2
<1>6. BoxFiles'
  <2>1. files' \in {files, {}}
    BY DEF Box!Send, Box!EntrySent
  <2> QED BY <1>1, <1>2, <2>1, FilesKept
<1> QED BY <1>1, <1>4, <1>5, <1>6, SnapKept DEF BoxInv

LEMMA DroppedStep ==
    ASSUME BoxBounds, BoxInv, Box!EntryDropped
    PROVE  BoxInv'
<1>1. Box!Settled(TRUE) /\ Box!NewConversation
  BY DEF Box!EntryDropped
<1> QED BY <1>1, NewBegun, SettledQueue DEF BoxInv

LEMMA BoxStep ==
    ASSUME BoxBounds
    PROVE  BoxInv /\ [Box!ComposerNext]_(Box!composerVars) => BoxInv'
<1> SUFFICES ASSUME BoxInv, [Box!ComposerNext]_(Box!composerVars) PROVE BoxInv'
  OBVIOUS
<1>1. CASE UNCHANGED Box!composerVars
  <2>1. UNCHANGED <<chat, known, parent, turns, drafts, queued, saving, entries, snap, edit, scope, input, browse, files, asks>>
    BY <1>1 DEF Box!composerVars, Box!view, Box!box, Box!held, Box!mode
  <2>2. BoxFiles' /\ scope \in Scopes
    BY <2>1, FilesKept DEF BoxInv, BoxFiles, BoxPlaces
  <2> QED BY <2>1, <2>2, ChatsKept, QueueKept, SnapKept, TypedKept DEF BoxInv
<1>2. CASE Box!ComposerNext
  BY <1>2, TypeStep, RecallStep, AttachStep, NewStep, ScopeStep, LoadedStep, BranchedStep, EditStep,
     SaveEditStep, EnqueueStep, TakeStep, SaveEndsStep, SendStep, DroppedStep DEF Box!ComposerNext
<1> QED BY <1>1, <1>2

LEMMA BoxInvariance ==
    ASSUME BoxBounds
    PROVE  Box!ComposerSpec => []BoxInv
<1>1. Box!ComposerInit => BoxInv  BY BoxInitial
<1>2. BoxInv /\ [Box!ComposerNext]_(Box!composerVars) => BoxInv'  BY BoxStep
<1> QED  BY <1>1, <1>2, PTL DEF Box!ComposerSpec

\* Whatever is typed, recalled, edited, queued, sent, loaded and branched, in
\* whatever order the awaited answers come: a text stands in the conversation it
\* was typed in, or in one branched from it (composerDrafts, ComposerHistoryBrowse,
\* queueEditSnapshotRef, persistQueue).
THEOREM TextsStayHome ==
    ASSUME BoxBounds
    PROVE  Box!ComposerSpec => []Box!TextStaysHome
<1>1. ASSUME BoxInv PROVE Box!TextStaysHome
  <2>1. {input, browse.draft} \subseteq HomeOf(chat) /\ (edit # None /\ snap # None => snap.draft \in HomeOf(chat))
    BY <1>1 DEF BoxInv, BoxTyped, BoxSnap
  <2>2. ASSUME NEW c \in Chats PROVE {drafts[c]} \cup Box!Range(turns[c]) \subseteq HomeOf(c)
    <3>1. turns[c] \in Seq(Box!Text)
      BY <1>1 DEF BoxInv, BoxTurns
    <3> QED BY <1>1, <3>1 DEF BoxInv, BoxTurns, BoxDrafts, Box!Range
  <2>3. ASSUME NEW c \in Chats, NEW e \in Box!Range(queued[c]) PROVE e.chat = c /\ e.text \in HomeOf(c)
    <3>1. queued[c] \in Seq(Prompt)
      BY <1>1 DEF BoxInv, BoxQueue
    <3> QED BY <1>1, <2>3, <3>1 DEF BoxInv, BoxQueue, Box!Range, OfHome
  <2> QED BY <2>1, <2>2, <2>3 DEF Box!TextStaysHome, HomeOf
<1> QED BY <1>1, BoxInvariance, PTL

\* The ids that show in the conversation.
LEMMA HoldsAt ==
    ASSUME BoxInv, NEW id
    PROVE  Box!Holds(id) <=> \E i \in 1 .. Len(queued[chat]) : queued[chat][i].id = id
<1>1. queued[chat] \in Seq(Prompt)
  BY DEF BoxInv, BoxPlaces, BoxQueue
<1> QED BY <1>1 DEF Box!Holds, Box!Range

\* A transaction keeps the entry under edit when its list has it.
LEMMA PersistKeeps ==
    ASSUME BoxInv, BoxInv', NEW op, NEW list, Box!Persist(op, list), UNCHANGED <<chat, edit>>, Box!Holds(edit),
           \A n \in 1 .. Len(queued[chat]) : queued[chat][n].id = edit =>
               \E k \in 1 .. Len(list) : list[k] = queued[chat][n]
    PROVE  Box!Holds(edit)'
<1>1. PICK n \in 1 .. Len(queued[chat]) : queued[chat][n].id = edit
  BY HoldsAt
<1>2. PICK k \in 1 .. Len(list) : list[k] = queued[chat][n]
  BY <1>1
<1>3. queued'[chat] = list /\ list \in Seq(Prompt)
  BY DEF Box!Persist, BoxInv, BoxPlaces, BoxQueue
<1>4. \E k1 \in DOMAIN queued'[chat'] : queued'[chat'][k1].id = edit'
  BY <1>1, <1>2, <1>3
<1> QED BY <1>4 DEF Box!Holds, Box!Range

LEMMA EditedHere ==
    ASSUME BoxBounds, BoxInv, BoxInv', [Box!ComposerNext]_(Box!composerVars)
    PROVE  Box!EditedStays
<1> SUFFICES ASSUME edit # None, edit' = edit, Box!Holds(edit), ~Box!DeleteEntry, ~(saving # None /\ saving.op = "add")
             PROVE  Box!Holds(edit)'
  BY DEF Box!EditedStays
<1>1. chat' = chat
  <2>1. ASSUME NEW c, Box!SwitchTo(c) PROVE c = chat /\ chat' = chat
    BY <2>1 DEF Box!SwitchTo
  <2>2. ~Box!NewConversation
    BY <2>1 DEF Box!NewConversation, BoxInv, BoxPlaces
  <2>3. ASSUME NEW a \in asks, NEW ok, Box!Loaded(a, ok) PROVE chat' = chat
    BY <2>1, <2>3 DEF Box!Loaded
  <2>4. ASSUME NEW a \in asks, Box!Branched(a) PROVE chat' = chat
    BY <2>1, <2>4 DEF Box!Branched
  <2>5. CASE UNCHANGED Box!composerVars
    BY <2>5 DEF Box!composerVars, Box!view
  <2> QED
    BY <2>2, <2>3, <2>4, <2>5 DEF Box!ComposerNext, Box!Type, Box!Erase, Box!AcceptRow, Box!Older, Box!Newer,
       Box!PickVault, Box!DropFiles, Box!RunSkillOnSelection, Box!RemoveFile, Box!Picked, Box!SkillLoaded,
       Box!Dropped, Box!New, Box!ChangeScope, Box!ScopeRendered, Box!Branch, Box!Load, Box!BeginQueueEdit,
       Box!SendQueued, Box!Promote, Box!StepQueueEdit, Box!CancelQueueEdit, Box!SaveEdit, Box!Enqueue,
       Box!DeleteEntry, Box!Drain, Box!SaveEnds, Box!EntrySent, Box!EntryDropped, Box!Send, Box!TurnEnds, Box!view
<1>2. CASE queued' = queued
  BY <1>1, <1>2 DEF Box!Holds
<1>3. ASSUME NEW ok \in BOOLEAN, Box!Settled(ok) PROVE Box!Holds(edit)'
  <2>1. CASE Box!SaveStands(ok) \/ saving.chat # chat
    <3>1. queued'[chat] = queued[chat]
      BY <1>3, <2>1 DEF Box!Settled, BoxInv, BoxPlaces, BoxQueue
    <3> QED BY <1>1, <3>1 DEF Box!Holds
  <2>2. CASE ~Box!SaveStands(ok) /\ saving.chat = chat
    <3>1. queued'[chat] = saving.before /\ saving # None
      BY <1>3, <2>2 DEF Box!Settled, BoxInv, BoxPlaces, BoxQueue
    <3>2. PICK i \in 1 .. Len(queued[chat]) : queued[chat][i].id = edit
      BY HoldsAt
    <3>3. PICK k \in 1 .. Len(saving.before) : saving.before[k].id = edit
      BY <2>2, <3>1, <3>2 DEF BoxInv, BoxSave
    <3>4. saving.before \in Seq(Prompt)
      BY <3>1 DEF BoxInv, BoxSave
    <3>5. \E k1 \in DOMAIN queued'[chat'] : queued'[chat'][k1].id = edit'
      BY <1>1, <3>1, <3>3, <3>4
    <3> QED BY <3>5 DEF Box!Holds, Box!Range
  <2> QED BY <2>1, <2>2
<1>4. ASSUME NEW i \in DOMAIN queued[chat], queued[chat][i].id # edit,
             \/ Box!Persist("take", Box!Without(i))
             \/ Box!Persist("first", <<queued[chat][i]>> \o Box!Without(i))
      PROVE  Box!Holds(edit)'
  <2>1. \A n \in 1 .. Len(queued[chat]) : queued[chat][n].id = edit =>
            \E k \in 1 .. Len(Box!Without(i)) : Box!Without(i)[k] = queued[chat][n]
    BY <1>4, WithoutFits
  <2>2. CASE Box!Persist("take", Box!Without(i))
    BY <1>1, <2>1, <2>2, PersistKeeps
  <2>3. CASE Box!Persist("first", <<queued[chat][i]>> \o Box!Without(i))
    <3>1. queued[chat][i] \in Prompt /\ Box!Without(i) \in Seq(Prompt) /\ Len(Box!Without(i)) \in Nat
      BY WithoutFits, EntryHas DEF Box!Range
    <3> DEFINE r == Box!Without(i)
               list == <<queued[chat][i]>> \o r
    <3>2. /\ Len(list) = Len(r) + 1 /\ \A k \in 1 .. Len(r) : list[k + 1] = r[k]
      BY <3>1, PutFirst
    <3> HIDE DEF r, list
    <3>3. ASSUME NEW n \in 1 .. Len(queued[chat]), queued[chat][n].id = edit
          PROVE  \E k \in 1 .. Len(list) : list[k] = queued[chat][n]
      <4>1. PICK k \in 1 .. Len(r) : r[k] = queued[chat][n]
        BY <2>1, <3>3 DEF r
      <4>2. k + 1 \in 1 .. Len(list) /\ list[k + 1] = queued[chat][n]
        BY <3>1, <3>2, <4>1 DEF r
      <4> QED BY <4>2
    <3> QED BY <1>1, <2>3, <3>3, PersistKeeps DEF r, list
  <2> QED BY <1>4, <2>2, <2>3
<1>5. CASE \E i \in DOMAIN queued[chat] : Box!SendQueued(i) \/ Box!Promote(i)
  BY <1>4, <1>5 DEF Box!SendQueued, Box!Promote
<1>6. CASE Box!Drain
  BY <1>4, <1>6 DEF Box!Drain
<1>7. CASE Box!SaveEdit \/ Box!Enqueue
  BY <1>7 DEF Box!SaveEdit, Box!Enqueue
<1>8. CASE (\E ok \in BOOLEAN : Box!SaveEnds(ok)) \/ Box!EntrySent \/ Box!EntryDropped
  BY <1>3, <1>8 DEF Box!SaveEnds, Box!EntrySent, Box!EntryDropped
<1>9. CASE UNCHANGED Box!composerVars
  BY <1>2, <1>9 DEF Box!composerVars, Box!held
<1> QED
  BY <1>2, <1>5, <1>6, <1>7, <1>8, <1>9 DEF Box!ComposerNext, Box!Type, Box!Erase, Box!AcceptRow, Box!Older, Box!Newer,
     Box!PickVault, Box!DropFiles, Box!RunSkillOnSelection, Box!RemoveFile, Box!Picked, Box!SkillLoaded,
     Box!Dropped, Box!New, Box!ChangeScope, Box!ScopeRendered, Box!Branch, Box!Load, Box!Loaded, Box!Branched,
     Box!BeginQueueEdit, Box!StepQueueEdit, Box!CancelQueueEdit, Box!Send, Box!TurnEnds, Box!held

\* A queued prompt under edit leaves the queue by its delete button, or by the
\* failure of the save that queued it, and else when the edit ends (shouldAutoDrain,
\* sendQueuedNow, persistQueue).
THEOREM EditedPromptStays ==
    ASSUME BoxBounds
    PROVE  Box!ComposerSpec => [][Box!EditedStays]_(Box!composerVars)
<1>1. BoxInv /\ BoxInv' /\ [Box!ComposerNext]_(Box!composerVars) => Box!EditedStays
  BY EditedHere
<1> QED BY <1>1, BoxInvariance, PTL DEF Box!ComposerSpec

LEMMA AttachedHere ==
    ASSUME [Box!ComposerNext]_(Box!composerVars)
    PROVE  Box!AttachedWhereAsked
<1> SUFFICES ASSUME NEW a \in asks \ asks', a.what # "disk", ~Box!Current(a)
             PROVE  files' \subseteq files /\ armed' \in {armed, None}
  BY DEF Box!AttachedWhereAsked, Box!Current
<1>1. ASSUME NEW b \in asks, NEW ok \in BOOLEAN,
             Box!Picked(b, ok) \/ Box!SkillLoaded(b, ok) \/ Box!Loaded(b, ok) \/ Box!Dropped(b) \/ Box!Branched(b)
      PROVE  files' \subseteq files /\ armed' \in {armed, None}
  <2>1. CASE Box!Picked(b, ok)
    <3>1. b = a  BY <2>1 DEF Box!Picked
    <3> QED BY <2>1, <3>1 DEF Box!Picked
  <2>2. CASE Box!SkillLoaded(b, ok)
    <3>1. b = a  BY <2>2 DEF Box!SkillLoaded
    <3> QED BY <2>2, <3>1 DEF Box!SkillLoaded
  <2>3. CASE Box!Dropped(b)
    <3>1. b = a  BY <2>3 DEF Box!Dropped
    <3> QED BY <2>3, <3>1 DEF Box!Dropped
  <2>4. CASE Box!Loaded(b, ok) \/ Box!Branched(b)
    BY <2>4 DEF Box!Loaded, Box!Branched
  <2> QED BY <1>1, <2>1, <2>2, <2>3, <2>4
<1>2. CASE Box!NewConversation
  BY <1>2 DEF Box!NewConversation
<1>3. CASE \E c \in Chats : Box!Load(c)
  BY <1>3 DEF Box!Load, Box!box
<1>4. CASE asks \subseteq asks'
  BY <1>4
<1> QED
  BY <1>1, <1>2, <1>3, <1>4 DEF Box!ComposerNext, Box!composerVars, Box!Type, Box!Erase, Box!AcceptRow, Box!Older,
     Box!Newer, Box!PickVault, Box!DropFiles, Box!RunSkillOnSelection, Box!RemoveFile, Box!Ask,
     Box!New, Box!ChangeScope, Box!ScopeRendered, Box!Branch, Box!BeginQueueEdit,
     Box!SendQueued, Box!Promote, Box!StepQueueEdit, Box!CancelQueueEdit, Box!SaveEdit, Box!Enqueue,
     Box!DeleteEntry, Box!Drain, Box!SaveEnds, Box!EntrySent, Box!EntryDropped, Box!Send, Box!TurnEnds

\* A note or a skill whose read is answered late is attached nowhere but in the
\* conversation and under the policy it was asked in (requestIsCurrent).
THEOREM AttachedHome ==
    ASSUME BoxBounds
    PROVE  Box!ComposerSpec => [][Box!AttachedWhereAsked]_(Box!composerVars)
<1>1. [Box!ComposerNext]_(Box!composerVars) => Box!AttachedWhereAsked
  BY AttachedHere
<1> QED BY <1>1, PTL DEF Box!ComposerSpec
-----------------------------------------------------------------------------
(* QuickAsk, for any views, notes, documents and numbers of gestures.      *)

\* None is no number, there is a note to open, and attempts fail as the code says.
QuickBounds ==
    /\ MaxLen \in Nat /\ MaxShows \in Nat /\ MaxQuickEdits \in Nat /\ MaxQuestions \in Nat
    /\ None \notin Nat /\ Files # {}
    /\ \A d \in Docs : d \in Seq(Chars)
    /\ Fails \subseteq {"busy", "network", "refused"}

Turn == [stage : {"idle", "send", "stream", "sleep"}, target : 1 .. 2, attempt : 0 .. 3,
         abort : BOOLEAN, reset : BOOLEAN]
Said == [role : Quick!Roles, sel : BOOLEAN]

\* The tokens shown are of the attempt that streams.
Streamed(stream, t) ==
    /\ stream \subseteq {<<t.target, t.attempt>>}
    /\ t.stage # "stream" \/ t.reset => stream = {}
    /\ t.stage \in {"send", "sleep"} => t.attempt < 3

\* What is displayed is what the wire says; the selection rides first.
Carried(wire, display, text) ==
    /\ display = [i \in DOMAIN wire |-> wire[i].role]
    /\ \A i \in DOMAIN wire : wire[i].sel <=> i = 1 /\ Len(text) > 0

\* A turn under way is one question more than there was before it.
AskedOne(wire, before) ==
    Len(wire) = Len(before) + 1 /\ \A i \in 1 .. Len(before) : wire[i] = before[i]

Conversing(q) ==
    /\ Streamed(q.stream, q.turn) /\ Carried(q.wire, q.display, q.text)
    /\ q.turn.stage # "idle" => AskedOne(q.wire, q.before)

\* The range of the panel of a view lies in the document and over nothing that
\* stood outside the selection.
Guarded(d, from, to) == /\ from <= to /\ to <= Len(d)
                        /\ \A i \in from + 1 .. to : d[i].org # "out"

Mounted ==
    \A v \in Views : overlay[v] # None =>
        /\ overlay[v] \in DOMAIN panel /\ panel[overlay[v]].view = v
        /\ Guarded(doc[v], panel[overlay[v]].from, panel[overlay[v]].to)

QuickInv ==
    /\ Quick!QuickTypeOK /\ Len(panel) <= MaxShows
    /\ Mounted /\ \A p \in DOMAIN panel : Conversing(panel[p])
    /\ Quick!OnePanel /\ Quick!OutsideKept

-----------------------------------------------------------------------------
(* The operators.                                                          *)

LEMMA QuickHas ==
    ASSUME QuickBounds, QuickInv
    PROVE  /\ panel \in Seq(Quick!Panel) /\ DOMAIN panel = 1 .. Len(panel) /\ Len(panel) \in Nat
           /\ \A p \in DOMAIN panel : panel[p] \in Quick!Panel
           /\ \A v \in Views : doc[v] \in Seq(Quick!Cell) /\ Len(doc[v]) \in Nat
BY DEF QuickInv, Quick!QuickTypeOK

LEMMA DocCells ==
    ASSUME NEW d \in Seq(Quick!Cell)
    PROVE  /\ DOMAIN d = 1 .. Len(d) /\ Len(d) \in Nat
           /\ \A i \in DOMAIN d : /\ d[i].ch \in Chars /\ d[i].org \in Quick!Origins
                                 /\ \A o \in Quick!Origins : /\ [d[i] EXCEPT !.org = o] \in Quick!Cell
                                                             /\ [d[i] EXCEPT !.org = o].org = o
<1>1. \A i \in DOMAIN d : d[i] \in Quick!Cell
  OBVIOUS
<1>2. ASSUME NEW c \in Quick!Cell
      PROVE  /\ c.ch \in Chars /\ c.org \in Quick!Origins
             /\ \A o \in Quick!Origins : [c EXCEPT !.org = o] \in Quick!Cell /\ [c EXCEPT !.org = o].org = o
  BY DEF Quick!Cell
<1> QED BY <1>1, <1>2

\* A document whose characters outside a range are marked so, and those in it.
Selected(d, from, to) ==
    [i \in DOMAIN d |-> [d[i] EXCEPT !.org = IF i > from /\ i <= to THEN "in" ELSE "out"]]

LEMMA DocMarked ==
    ASSUME NEW d \in Seq(Quick!Cell), NEW from, NEW to
    PROVE  /\ Selected(d, from, to) \in Seq(Quick!Cell) /\ Len(Selected(d, from, to)) = Len(d)
           /\ \A i \in DOMAIN d : i > from /\ i <= to => Selected(d, from, to)[i].org = "in"
<1> DEFINE o(i) == IF i > from /\ i <= to THEN "in" ELSE "out"
           m == [i \in DOMAIN d |-> [d[i] EXCEPT !.org = o(i)]]
<1>1. \A i \in DOMAIN d : [d[i] EXCEPT !.org = o(i)] \in Quick!Cell /\ [d[i] EXCEPT !.org = o(i)].org = o(i)
  <2> TAKE i \in DOMAIN d
  <2>1. o(i) \in Quick!Origins
    BY DEF Quick!Origins
  <2> HIDE DEF o
  <2> QED BY <2>1, DocCells
<1>2. \A i \in DOMAIN d : i > from /\ i <= to => o(i) = "in"
  OBVIOUS
<1> HIDE DEF o
<1>3. m \in [1 .. Len(d) -> Quick!Cell] /\ Len(d) \in Nat /\ DOMAIN d = 1 .. Len(d)
  BY <1>1, DocCells
<1>4. \A i \in DOMAIN d : i > from /\ i <= to => m[i].org = "in"
  BY <1>1, <1>2
<1> HIDE DEF m
<1>5. m \in Seq(Quick!Cell) /\ Len(m) = Len(d)
  BY <1>3
<1>6. m = Selected(d, from, to)
  BY DEF m, o, Selected
<1> QED BY <1>4, <1>5, <1>6

LEMMA PlainDoc ==
    ASSUME NEW d \in Seq(Quick!Cell)
    PROVE  Quick!Plain(d) \in Seq(Quick!Cell)
<1>1. \A i \in DOMAIN d : [d[i] EXCEPT !.org = "out"] \in Quick!Cell
  BY DocCells DEF Quick!Origins
<1> DEFINE e == [i \in DOMAIN d |-> [d[i] EXCEPT !.org = "out"]]
<1>2. e \in [1 .. Len(d) -> Quick!Cell] /\ Len(d) \in Nat
  BY <1>1, DocCells
<1> HIDE DEF e
<1>3. e \in Seq(Quick!Cell)
  BY <1>2
<1> QED BY <1>3 DEF e, Quick!Plain

LEMMA DocText ==
    ASSUME NEW d \in Seq(Quick!Cell)
    PROVE  Quick!Text(d) \in Seq(Chars)
<1> DEFINE e == [i \in DOMAIN d |-> d[i].ch]
<1>1. e \in [1 .. Len(d) -> Chars] /\ Len(d) \in Nat
  BY DocCells
<1> HIDE DEF e
<1>2. e \in Seq(Chars)
  BY <1>1
<1> QED BY <1>2 DEF e, Quick!Text

\* Two documents in one.
LEMMA DocJoined ==
    ASSUME NEW a \in Seq(Quick!Cell), NEW b \in Seq(Quick!Cell)
    PROVE  /\ a \o b \in Seq(Quick!Cell) /\ Len(a \o b) = Len(a) + Len(b)
           /\ \A i \in 1 .. Len(a) : (a \o b)[i] = a[i]
           /\ \A i \in Len(a) + 1 .. Len(a) + Len(b) : (a \o b)[i] = b[i - Len(a)]
<1>1. /\ a \o b \in Seq(Quick!Cell) /\ Len(a \o b) = Len(a) + Len(b)
      /\ \A i \in 1 .. Len(a) + Len(b) :
           (a \o b)[i] = IF i <= Len(a) THEN a[i] ELSE b[i - Len(a)]
  BY ConcatProperties
<1>2. Len(a) \in Nat /\ Len(b) \in Nat
  OBVIOUS
<1> QED BY <1>1, <1>2

\* A document with s put in at a position.
LEMMA DocInserted ==
    ASSUME NEW d \in Seq(Quick!Cell), NEW s \in Seq(Quick!Cell), NEW at \in 0 .. Len(d)
    PROVE  LET e == SubSeq(d, 1, at) \o s \o SubSeq(d, at + 1, Len(d))
           IN  /\ e \in Seq(Quick!Cell) /\ Len(e) = Len(d) + Len(s)
               /\ \A i \in 1 .. at : e[i] = d[i]
               /\ \A i \in at + 1 .. at + Len(s) : e[i] = s[i - at]
               /\ \A i \in at + Len(s) + 1 .. Len(d) + Len(s) : e[i] = d[i - Len(s)]
<1> DEFINE a == SubSeq(d, 1, at)
           b == SubSeq(d, at + 1, Len(d))
<1>1. a \in Seq(Quick!Cell) /\ Len(a) = at /\ \A i \in 1 .. at : a[i] = d[i]
  OBVIOUS
<1>2. b \in Seq(Quick!Cell) /\ Len(b) = Len(d) - at /\ \A i \in 1 .. Len(d) - at : b[i] = d[at + i]
  OBVIOUS
<1> HIDE DEF a, b
<1>3. PICK ab : ab = a \o s
  OBVIOUS
<1>4. /\ ab \in Seq(Quick!Cell) /\ Len(ab) = at + Len(s)
      /\ \A i \in 1 .. at : ab[i] = a[i]
      /\ \A i \in at + 1 .. at + Len(s) : ab[i] = s[i - at]
  BY <1>1, <1>3, DocJoined
<1>5. PICK e : e = ab \o b
  OBVIOUS
<1>6. /\ e \in Seq(Quick!Cell) /\ Len(e) = Len(ab) + Len(b)
      /\ \A i \in 1 .. Len(ab) : e[i] = ab[i]
      /\ \A i \in Len(ab) + 1 .. Len(ab) + Len(b) : e[i] = b[i - Len(ab)]
  BY <1>2, <1>4, <1>5, DocJoined
<1>7. Len(e) = Len(d) + Len(s)
  BY <1>2, <1>4, <1>6
<1>8. \A i \in 1 .. at : e[i] = d[i]
  BY <1>1, <1>4, <1>6
<1>9. \A i \in at + 1 .. at + Len(s) : e[i] = s[i - at]
  BY <1>4, <1>6
<1>10. ASSUME NEW i \in at + Len(s) + 1 .. Len(d) + Len(s)
       PROVE  e[i] = d[i - Len(s)]
  <2>1. e[i] = b[i - (at + Len(s))] /\ i - (at + Len(s)) \in 1 .. Len(d) - at
    <3>1. Len(s) \in Nat /\ Len(d) \in Nat /\ Len(ab) = at + Len(s) /\ Len(b) = Len(d) - at
      BY <1>2, <1>4
    <3>2. i \in Len(ab) + 1 .. Len(ab) + Len(b)
      BY <3>1
    <3>3. e[i] = b[i - Len(ab)]
      BY <1>6, <3>2
    <3> QED BY <3>1, <3>3
  <2>2. at + (i - (at + Len(s))) = i - Len(s)
    BY <1>4
  <2>3. b[i - (at + Len(s))] = d[at + (i - (at + Len(s)))]
    BY <1>2, <2>1
  <2> QED BY <2>1, <2>2, <2>3
<1> QED BY <1>3, <1>5, <1>6, <1>7, <1>8, <1>9, <1>10 DEF a, b

\* A document with n characters taken out at a position.
LEMMA DocDeleted ==
    ASSUME NEW d \in Seq(Quick!Cell), NEW at \in 0 .. Len(d), NEW n \in Nat, at + n <= Len(d)
    PROVE  LET e == SubSeq(d, 1, at) \o SubSeq(d, at + n + 1, Len(d))
           IN  /\ e \in Seq(Quick!Cell) /\ Len(e) = Len(d) - n
               /\ \A i \in 1 .. at : e[i] = d[i]
               /\ \A i \in at + 1 .. Len(d) - n : e[i] = d[i + n]
<1> DEFINE a == SubSeq(d, 1, at)
           b == SubSeq(d, at + n + 1, Len(d))
<1>1. a \in Seq(Quick!Cell) /\ Len(a) = at /\ \A i \in 1 .. at : a[i] = d[i]
  OBVIOUS
<1>2. b \in Seq(Quick!Cell) /\ Len(b) = Len(d) - (at + n)
      /\ \A i \in 1 .. Len(d) - (at + n) : b[i] = d[at + n + i]
  OBVIOUS
<1> HIDE DEF a, b
<1>3. PICK e : e = a \o b
  OBVIOUS
<1>4. /\ e \in Seq(Quick!Cell) /\ Len(e) = Len(a) + Len(b)
      /\ \A i \in 1 .. Len(a) : e[i] = a[i]
      /\ \A i \in Len(a) + 1 .. Len(a) + Len(b) : e[i] = b[i - Len(a)]
  BY <1>1, <1>2, <1>3, DocJoined
<1>5. Len(e) = Len(d) - n
  BY <1>1, <1>2, <1>4
<1>6. \A i \in 1 .. at : e[i] = d[i]
  BY <1>1, <1>4
<1>7. ASSUME NEW i \in at + 1 .. Len(d) - n
      PROVE  e[i] = d[i + n]
  <2>1. e[i] = b[i - at] /\ i - at \in 1 .. Len(d) - (at + n)
    BY <1>1, <1>2, <1>4
  <2>2. at + n + (i - at) = i + n
    OBVIOUS
  <2>3. b[i - at] = d[at + n + (i - at)]
    BY <1>2, <2>1
  <2> QED BY <2>1, <2>2, <2>3
<1> QED BY <1>3, <1>4, <1>5, <1>6, <1>7 DEF a, b

-----------------------------------------------------------------------------
(* The range of a panel through the changes of its document.               *)

LEMMA GuardInserted ==
    ASSUME NEW d \in Seq(Quick!Cell), NEW e \in Seq(Quick!Cell), NEW at \in 0 .. Len(d), NEW n \in Nat,
           NEW from \in Nat, NEW to \in Nat, Guarded(d, from, to),
           Len(e) = Len(d) + n, \A i \in 1 .. at : e[i] = d[i],
           \A i \in at + 1 .. at + n : e[i].org # "out",
           \A i \in at + n + 1 .. Len(d) + n : e[i] = d[i - n]
    PROVE  LET a == Quick!Inserted(from, at, n, 1)
               b == Quick!Inserted(to, at, n, 0)
           IN  /\ a \in Nat /\ b \in Nat
               /\ Guarded(e, IF a < b THEN a ELSE b, IF a < b THEN b ELSE a)
<1>1. from <= to /\ to <= Len(d) /\ \A i \in from + 1 .. to : d[i].org # "out"
  BY DEF Guarded
<1> DEFINE a == Quick!Inserted(from, at, n, 1)
           b == Quick!Inserted(to, at, n, 0)
           lo == IF a < b THEN a ELSE b
           hi == IF a < b THEN b ELSE a
<1>2. /\ a = (IF at <= from THEN from + n ELSE from) /\ b = (IF at < to THEN to + n ELSE to)
  BY DEF Quick!Inserted
<1>3. a \in Nat /\ b \in Nat
  BY <1>2
<1> HIDE DEF a, b
<1>4. lo <= hi /\ hi <= Len(e) /\ lo \in Nat /\ hi \in Nat
  BY <1>1, <1>2, <1>3
<1>5. ASSUME NEW i \in lo + 1 .. hi
      PROVE  e[i].org # "out"
  <2>1. i \in Int /\ i >= 1 /\ i <= Len(d) + n
    BY <1>4
  <2>2. CASE i <= at
    <3>1. i \in from + 1 .. to
      BY <1>1, <1>2, <1>3, <2>1, <2>2
    <3>2. i \in 1 .. at
      BY <2>1, <2>2
    <3> QED BY <1>1, <3>1, <3>2
  <2>3. CASE i > at /\ i <= at + n
    <3>1. i \in at + 1 .. at + n
      BY <2>1, <2>3
    <3> QED BY <3>1
  <2>4. CASE i > at + n
    <3>1. i - n \in from + 1 .. to
      BY <1>1, <1>2, <1>3, <2>1, <2>4
    <3>2. i \in at + n + 1 .. Len(d) + n
      BY <2>1, <2>4
    <3> QED BY <1>1, <3>1, <3>2
  <2> QED BY <2>1, <2>2, <2>3, <2>4
<1> QED BY <1>3, <1>4, <1>5 DEF Guarded, a, b

LEMMA GuardDeleted ==
    ASSUME NEW d \in Seq(Quick!Cell), NEW e \in Seq(Quick!Cell), NEW at \in 0 .. Len(d), NEW n \in Nat,
           at + n <= Len(d), NEW from \in Nat, NEW to \in Nat, Guarded(d, from, to),
           Len(e) = Len(d) - n, \A i \in 1 .. at : e[i] = d[i],
           \A i \in at + 1 .. Len(d) - n : e[i] = d[i + n]
    PROVE  LET a == Quick!Deleted(from, at, n)
               b == Quick!Deleted(to, at, n)
           IN  /\ a \in Nat /\ b \in Nat
               /\ Guarded(e, IF a < b THEN a ELSE b, IF a < b THEN b ELSE a)
<1>1. from <= to /\ to <= Len(d) /\ \A i \in from + 1 .. to : d[i].org # "out"
  BY DEF Guarded
<1> DEFINE a == Quick!Deleted(from, at, n)
           b == Quick!Deleted(to, at, n)
           lo == IF a < b THEN a ELSE b
           hi == IF a < b THEN b ELSE a
<1>2. /\ a = (IF from <= at THEN from ELSE IF from >= at + n THEN from - n ELSE at)
      /\ b = (IF to <= at THEN to ELSE IF to >= at + n THEN to - n ELSE at)
  BY DEF Quick!Deleted
<1>3. a \in Nat /\ b \in Nat
  BY <1>2
<1> HIDE DEF a, b
<1>4. lo <= hi /\ hi <= Len(e) /\ lo \in Nat /\ hi \in Nat
  BY <1>1, <1>2, <1>3
<1>5. ASSUME NEW i \in lo + 1 .. hi
      PROVE  e[i].org # "out"
  <2>1. i \in Int /\ i >= 1 /\ i <= Len(d) - n
    BY <1>4
  <2>2. CASE i <= at
    <3>1. i \in from + 1 .. to
      BY <1>1, <1>2, <1>3, <2>1, <2>2
    <3>2. i \in 1 .. at
      BY <2>1, <2>2
    <3> QED BY <1>1, <3>1, <3>2
  <2>3. CASE i > at
    <3>1. i + n \in from + 1 .. to
      BY <1>1, <1>2, <1>3, <2>1, <2>3
    <3>2. i \in at + 1 .. Len(d) - n
      BY <2>1, <2>3
    <3> QED BY <1>1, <3>1, <3>2
  <2> QED BY <2>1, <2>2, <2>3
<1> QED BY <1>3, <1>4, <1>5 DEF Guarded, a, b

-----------------------------------------------------------------------------
(* Panels.                                                                 *)

\* A turn of the panel q, what it streams and what it carries.
LEMMA PanelMade ==
    ASSUME NEW q \in Quick!Panel, NEW stream \in SUBSET (Nat \X Nat), NEW t \in Turn,
           NEW r, r = [q EXCEPT !.stream = stream, !.turn = t]
    PROVE  /\ r \in Quick!Panel /\ r.view = q.view /\ r.from = q.from /\ r.to = q.to
           /\ r.text = q.text /\ r.wire = q.wire /\ r.display = q.display /\ r.before = q.before
           /\ r.stream = stream /\ r.turn = t
BY DEF Quick!Panel, Turn

LEMMA PanelParts ==
    ASSUME NEW q \in Quick!Panel
    PROVE  /\ q.view \in Views /\ q.file \in Files /\ q.text \in Seq(Chars) /\ q.from \in Nat /\ q.to \in Nat
           /\ q.wire \in Seq(Said) /\ q.display \in Seq(Quick!Roles) /\ q.before \in Seq(Said)
           /\ q.stream \in SUBSET (Nat \X Nat) /\ q.turns \in 0 .. MaxQuestions /\ q.turn \in Turn
BY DEF Quick!Panel, Turn, Said

LEMMA IdleTurn == Quick!Idle \in Turn /\ Quick!Idle.stage = "idle" /\ Quick!Idle.attempt = 0
BY DEF Quick!Idle, Turn

\* A panel that was taken down holds nothing.
LEMMA PanelUnmounted ==
    ASSUME QuickBounds, NEW q \in Quick!Panel
    PROVE  Quick!Unmounted(q) \in Quick!Panel /\ Conversing(Quick!Unmounted(q))
<1>1. <<>> \in Seq(Chars) /\ <<>> \in Seq(Said) /\ <<>> \in Seq(Quick!Roles)
      /\ {} \in SUBSET (Nat \X Nat) /\ MaxQuestions \in 0 .. MaxQuestions /\ 0 \in Nat
  BY EmptySeq DEF QuickBounds
<1>2. PICK r : r = Quick!Unmounted(q)
  OBVIOUS
<1>3. /\ r \in Quick!Panel /\ r.wire = <<>> /\ r.display = <<>> /\ r.stream = {} /\ r.turn = Quick!Idle
  BY <1>1, <1>2, IdleTurn DEF Quick!Unmounted, Quick!Panel, Turn, Said
<1>4. Carried(r.wire, r.display, r.text)
  BY <1>3, EmptySeq DEF Carried
<1> QED BY <1>2, <1>3, <1>4, IdleTurn DEF Conversing, Streamed

\* The panels when only those of o stay mounted.
LEMMA PanelsKept ==
    ASSUME QuickBounds, QuickInv, NEW o
    PROVE  /\ Quick!Kept(o) \in Seq(Quick!Panel) /\ Len(Quick!Kept(o)) = Len(panel)
           /\ DOMAIN Quick!Kept(o) = DOMAIN panel
           /\ \A p \in DOMAIN panel : Conversing(Quick!Kept(o)[p])
<1> DEFINE k == Quick!Kept(o)
<1>1. /\ DOMAIN k = DOMAIN panel
      /\ \A p \in DOMAIN panel : k[p] \in {panel[p], Quick!Unmounted(panel[p])}
  BY DEF Quick!Kept
<1>2. \A p \in DOMAIN panel : k[p] \in Quick!Panel /\ Conversing(k[p])
  <2> TAKE p \in DOMAIN panel
  <2>1. panel[p] \in Quick!Panel /\ Conversing(panel[p])
    BY QuickHas DEF QuickInv
  <2> QED BY <1>1, <2>1, PanelUnmounted
<1>3. k = [p \in DOMAIN panel |-> k[p]]
  BY DEF Quick!Kept
<1>4. k \in [1 .. Len(panel) -> Quick!Panel] /\ Len(panel) \in Nat
  BY <1>1, <1>2, <1>3, QuickHas
<1> HIDE DEF k
<1>5. k \in Seq(Quick!Panel) /\ Len(k) = Len(panel)
  BY <1>4
<1> QED BY <1>1, <1>2, <1>5 DEF k

\* A step of the conversation of one panel.
LEMMA PanelSpeaks ==
    ASSUME QuickBounds, QuickInv, NEW p \in DOMAIN panel, NEW r \in Quick!Panel,
           panel' = [panel EXCEPT ![p] = r],
           r.view = panel[p].view, r.from = panel[p].from, r.to = panel[p].to, Conversing(r),
           UNCHANGED <<doc, file, alive, overlay, widget, hit, qaEdits>>
    PROVE  QuickInv'
<1>1. /\ panel' \in Seq(Quick!Panel) /\ Len(panel') = Len(panel) /\ DOMAIN panel' = DOMAIN panel
      /\ panel'[p] = r /\ \A q \in DOMAIN panel \ {p} : panel'[q] = panel[q]
  BY QuickHas
<1>2. Quick!QuickTypeOK'
  BY <1>1 DEF QuickInv, Quick!QuickTypeOK
<1>3. \A q \in DOMAIN panel' : Conversing(panel'[q])
  BY <1>1 DEF QuickInv
<1>4. Mounted'
  <2> SUFFICES ASSUME NEW v \in Views, overlay[v] # None
               PROVE  /\ overlay[v] \in DOMAIN panel' /\ panel'[overlay[v]].view = v
                      /\ Guarded(doc[v], panel'[overlay[v]].from, panel'[overlay[v]].to)
    BY DEF Mounted, Guarded
  <2>1. /\ overlay[v] \in DOMAIN panel /\ panel[overlay[v]].view = v
        /\ Guarded(doc[v], panel[overlay[v]].from, panel[overlay[v]].to)
    BY DEF QuickInv, Mounted
  <2>2. CASE overlay[v] = p
    BY <1>1, <2>1, <2>2
  <2>3. CASE overlay[v] # p
    BY <1>1, <2>1, <2>3
  <2> QED BY <2>2, <2>3
<1>5. Quick!OnePanel' /\ Quick!OutsideKept'
  BY DEF QuickInv, Quick!OnePanel, Quick!OutsideKept
<1>6. (\A q \in DOMAIN panel : Conversing(panel[q]))'
  BY <1>3 DEF Conversing, Streamed, Carried, AskedOne
<1> QED BY <1>1, <1>2, <1>4, <1>5, <1>6 DEF QuickInv

\* A step of a turn that keeps the conversation.
LEMMA TurnGoesOn ==
    ASSUME QuickBounds, QuickInv, NEW p \in DOMAIN panel, NEW t \in Turn, NEW stream,
           stream \in {{}, panel[p].stream, panel[p].stream \cup {<<t.target, t.attempt>>}},
           panel' = [panel EXCEPT ![p] = [panel[p] EXCEPT !.stream = stream, !.turn = t]],
           Streamed(stream, t), t.stage = "idle" \/ panel[p].turn.stage # "idle",
           UNCHANGED <<doc, file, alive, overlay, widget, hit, qaEdits>>
    PROVE  QuickInv'
<1>1. panel[p] \in Quick!Panel /\ Conversing(panel[p])
  BY QuickHas DEF QuickInv
<1>2. stream \in SUBSET (Nat \X Nat)
  BY <1>1, PanelParts DEF Turn
<1>3. PICK q \in Quick!Panel : q = panel[p]
  BY <1>1
<1>4. PICK r : r = [q EXCEPT !.stream = stream, !.turn = t]
  OBVIOUS
<1>5. /\ r \in Quick!Panel /\ r.view = q.view /\ r.from = q.from /\ r.to = q.to
      /\ r.text = q.text /\ r.wire = q.wire /\ r.display = q.display
      /\ r.before = q.before /\ r.stream = stream /\ r.turn = t
  BY <1>2, <1>4 DEF Quick!Panel, Turn
<1>6. panel' = [panel EXCEPT ![p] = r]
  BY <1>3, <1>4
<1>7. Conversing(r)
  BY <1>1, <1>3, <1>5 DEF Conversing
<1> QED BY <1>3, <1>5, <1>6, <1>7, PanelSpeaks

-----------------------------------------------------------------------------
(* The steps of a turn.                                                    *)

\* One message more, on the wire and on display.
LEMMA CarriedMore ==
    ASSUME NEW w \in Seq(Said), NEW d \in Seq(Quick!Roles), NEW text, NEW m \in Said, Carried(w, d, text),
           m.sel <=> w = <<>> /\ Len(text) > 0
    PROVE  Carried(Append(w, m), Append(d, m.role), text)
<1>1. PICK x, y : x = Append(w, m) /\ y = Append(d, m.role)
  OBVIOUS
<1>2. m.role \in Quick!Roles
  BY DEF Said
<1>3. d = [i \in DOMAIN w |-> w[i].role] /\ \A i \in DOMAIN w : w[i].sel <=> i = 1 /\ Len(text) > 0
  BY DEF Carried
<1>4. /\ Len(w) \in Nat /\ DOMAIN w = 1 .. Len(w) /\ Len(d) = Len(w)
      /\ \A i \in 1 .. Len(w) : d[i] = w[i].role
  BY <1>3
<1>5. /\ x \in Seq(Said) /\ DOMAIN x = 1 .. Len(w) + 1 /\ x[Len(w) + 1] = m
      /\ \A i \in 1 .. Len(w) : x[i] = w[i]
  BY <1>1, <1>4
<1>6. /\ y \in Seq(Quick!Roles) /\ DOMAIN y = 1 .. Len(w) + 1 /\ y[Len(w) + 1] = m.role
      /\ \A i \in 1 .. Len(w) : y[i] = d[i]
  BY <1>1, <1>2, <1>4
<1>7. ASSUME NEW i \in DOMAIN x PROVE y[i] = x[i].role
  <2>1. CASE i \in 1 .. Len(w)
    BY <1>4, <1>5, <1>6, <2>1
  <2>2. CASE i = Len(w) + 1
    BY <1>5, <1>6, <2>2
  <2> QED BY <1>4, <1>5, <2>1, <2>2
<1>8. y = [i \in DOMAIN x |-> x[i].role]
  <2>1. y = [i \in DOMAIN y |-> y[i]]
    BY <1>6
  <2> QED BY <1>5, <1>6, <1>7, <2>1
<1>9. ASSUME NEW i \in DOMAIN x
      PROVE  x[i].sel <=> i = 1 /\ Len(text) > 0
  <2>1. CASE i \in 1 .. Len(w)
    <3>1. i \in DOMAIN w /\ x[i] = w[i]
      BY <1>4, <1>5, <2>1
    <3> QED BY <1>3, <3>1
  <2>2. CASE i = Len(w) + 1
    <3>1. x[i] = m
      BY <1>5, <2>2
    <3>2. i = 1 <=> w = <<>>
      BY <1>4, <2>2, EmptySeq
    <3> QED BY <3>1, <3>2
  <2> QED BY <1>4, <1>5, <2>1, <2>2
<1> QED BY <1>1, <1>8, <1>9 DEF Carried

LEMMA QuickSends ==
    ASSUME QuickBounds, QuickInv, NEW p \in DOMAIN panel, Quick!Send(p)
    PROVE  QuickInv'
<1>1. PICK q \in Quick!Panel : q = panel[p] /\ Conversing(q)
  BY QuickHas DEF QuickInv
<1>2. q.turn.stage = "idle" /\ q.turns \in 0 .. MaxQuestions /\ q.turns < MaxQuestions
  BY <1>1, PanelParts DEF Quick!Send, Quick!Busy
<1>3. PICK ask : ask = [role |-> "user", sel |-> q.wire = <<>> /\ Len(q.text) > 0]
  OBVIOUS
<1>4. ask \in Said /\ ask.role = "user" /\ (ask.sel <=> q.wire = <<>> /\ Len(q.text) > 0)
  <2>1. (q.wire = <<>> /\ Len(q.text) > 0) \in BOOLEAN
    OBVIOUS
  <2> QED BY <1>3, <2>1 DEF Said, Quick!Roles
<1>5. PICK t : t = [Quick!Idle EXCEPT !.stage = "send"]
  OBVIOUS
<1>6. t \in Turn /\ t.stage = "send" /\ t.attempt = 0
  <2>1. t = [stage |-> "send", target |-> 1, attempt |-> 0, abort |-> FALSE, reset |-> FALSE]
    BY <1>5 DEF Quick!Idle
  <2> QED BY <2>1 DEF Turn
<1>7. PICK w, d, n : w = Append(q.wire, ask) /\ d = Append(q.display, "user") /\ n = q.turns + 1
  OBVIOUS
<1>8. /\ q.wire \in Seq(Said) /\ q.display \in Seq(Quick!Roles) /\ "user" \in Quick!Roles
      /\ {} \in SUBSET (Nat \X Nat)
  BY PanelParts DEF Quick!Roles
<1>9. /\ w \in Seq(Said) /\ d \in Seq(Quick!Roles) /\ n \in 0 .. MaxQuestions
      /\ Len(w) = Len(q.wire) + 1 /\ Len(q.wire) \in Nat
      /\ \A i \in 1 .. Len(q.wire) : w[i] = q.wire[i]
      /\ w[Len(q.wire) + 1] = ask
  BY <1>2, <1>4, <1>7, <1>8 DEF QuickBounds
<1>10. PICK r : r = [q EXCEPT !.wire = w, !.before = q.wire, !.display = d,
                              !.stream = {}, !.turns = n, !.turn = t]
  OBVIOUS
<1>11. /\ r \in Quick!Panel /\ r.view = q.view /\ r.from = q.from /\ r.to = q.to /\ r.text = q.text
       /\ r.wire = w /\ r.before = q.wire /\ r.display = d /\ r.stream = {} /\ r.turn = t
  BY <1>6, <1>8, <1>9, <1>10 DEF Quick!Panel, Said, Turn
<1>12. panel' = [panel EXCEPT ![p] = r]
  <2>1. panel' = [panel EXCEPT ![p] = [q EXCEPT
           !.wire = Append(q.wire, ask), !.before = q.wire, !.display = Append(q.display, "user"),
           !.stream = {}, !.turns = q.turns + 1, !.turn = t]]
    BY <1>1, <1>3, <1>5 DEF Quick!Send
  <2> QED BY <1>7, <1>10, <2>1
<1>13. Carried(w, d, q.text)
  <2>1. Carried(q.wire, q.display, q.text)
    BY <1>1 DEF Conversing
  <2>2. Carried(Append(q.wire, ask), Append(q.display, ask.role), q.text)
    BY <1>4, <1>8, <2>1, CarriedMore
  <2> QED BY <1>4, <1>7, <2>2
<1>14. Conversing(r)
  BY <1>6, <1>9, <1>11, <1>13 DEF Conversing, Streamed, AskedOne
<1> QED BY <1>1, <1>11, <1>12, <1>14, PanelSpeaks DEF Quick!Send

LEMMA TurnMade ==
    ASSUME NEW t \in Turn, NEW next \in {"idle", "send", "stream", "sleep"}, NEW b \in BOOLEAN
    PROVE  /\ [t EXCEPT !.stage = next] \in Turn /\ [t EXCEPT !.stage = next].stage = next
           /\ [t EXCEPT !.stage = next].target = t.target /\ [t EXCEPT !.stage = next].attempt = t.attempt
           /\ [t EXCEPT !.stage = next].reset = t.reset
           /\ [t EXCEPT !.reset = b] \in Turn /\ [t EXCEPT !.reset = b].stage = t.stage
           /\ [t EXCEPT !.reset = b].target = t.target /\ [t EXCEPT !.reset = b].attempt = t.attempt
           /\ [t EXCEPT !.reset = b].reset = b
           /\ [t EXCEPT !.abort = b] \in Turn /\ [t EXCEPT !.abort = b].stage = t.stage
           /\ [t EXCEPT !.abort = b].target = t.target /\ [t EXCEPT !.abort = b].attempt = t.attempt
           /\ [t EXCEPT !.abort = b].reset = t.reset
BY DEF Turn

\* A turn that ended, whatever is left of it on the wire.
LEMMA QuickEnds ==
    ASSUME QuickBounds, QuickInv, NEW p \in DOMAIN panel, NEW q \in Quick!Panel,
           q.view = panel[p].view, q.from = panel[p].from, q.to = panel[p].to,
           Carried(q.wire, q.display, q.text), Quick!Ended(p, q)
    PROVE  QuickInv'
<1>1. PICK r : r = [q EXCEPT !.stream = {}, !.turn = Quick!Idle]
  OBVIOUS
<1>2. PICK t \in Turn : t = Quick!Idle
  BY IdleTurn
<1>3. {} \in SUBSET (Nat \X Nat)
  OBVIOUS
<1>4. /\ r \in Quick!Panel /\ r.view = q.view /\ r.from = q.from /\ r.to = q.to
      /\ r.text = q.text /\ r.wire = q.wire /\ r.display = q.display /\ r.before = q.before
      /\ r.stream = {} /\ r.turn = t
  BY <1>1, <1>2, <1>3 DEF Quick!Panel, Turn
<1>5. t.stage = "idle"
  BY <1>2, IdleTurn
<1>6. Conversing(r)
  BY <1>4, <1>5 DEF Conversing, Streamed
<1>7. panel' = [panel EXCEPT ![p] = r] /\ UNCHANGED <<doc, file, alive, overlay, widget, hit, qaEdits>>
  BY <1>1 DEF Quick!Ended
<1> QED BY <1>4, <1>6, <1>7, PanelSpeaks

\* An error takes the question back.
LEMMA QuickTakesBack ==
    ASSUME NEW q \in Quick!Panel, Conversing(q), q.turn.stage # "idle"
    PROVE  /\ Quick!Failed(q) \in Quick!Panel /\ Quick!Failed(q).view = q.view
           /\ Quick!Failed(q).from = q.from /\ Quick!Failed(q).to = q.to
           /\ Carried(Quick!Failed(q).wire, Quick!Failed(q).display, Quick!Failed(q).text)
<1>1. CASE q.turn.abort
  BY <1>1 DEF Quick!Failed, Conversing
<1>2. CASE ~q.turn.abort
  <2>1. PICK b, d : b = q.before /\ d = SubSeq(q.display, 1, Len(q.display) - 1)
    OBVIOUS
  <2>2. PICK r : r = [q EXCEPT !.wire = b, !.display = d]
    OBVIOUS
  <2>3. r = Quick!Failed(q)
    BY <1>2, <2>1, <2>2 DEF Quick!Failed, Quick!Front
  <2>4. /\ q.wire \in Seq(Said) /\ q.display \in Seq(Quick!Roles) /\ b \in Seq(Said)
    BY <2>1, PanelParts
  <2>5. /\ q.display = [i \in DOMAIN q.wire |-> q.wire[i].role]
        /\ \A i \in DOMAIN q.wire : q.wire[i].sel <=> i = 1 /\ Len(q.text) > 0
        /\ Len(q.wire) = Len(b) + 1 /\ \A i \in 1 .. Len(b) : q.wire[i] = b[i]
    BY <2>1 DEF Conversing, Carried, AskedOne
  <2>6. /\ Len(q.display) = Len(b) + 1 /\ Len(b) \in Nat /\ DOMAIN b = 1 .. Len(b)
        /\ DOMAIN q.wire = 1 .. Len(b) + 1
        /\ \A i \in 1 .. Len(b) : q.display[i] = b[i].role
    BY <2>4, <2>5
  <2>7. d \in Seq(Quick!Roles) /\ DOMAIN d = 1 .. Len(b) /\ \A i \in 1 .. Len(b) : d[i] = b[i].role
    BY <2>1, <2>4, <2>6
  <2>8. d = [i \in DOMAIN b |-> b[i].role]
    <3>1. d = [i \in DOMAIN d |-> d[i]]
      BY <2>7
    <3> QED BY <2>6, <2>7, <3>1
  <2>9. ASSUME NEW i \in DOMAIN b PROVE b[i].sel <=> i = 1 /\ Len(q.text) > 0
    <3>1. i \in DOMAIN q.wire /\ q.wire[i] = b[i]
      BY <2>5, <2>6
    <3> QED BY <2>5, <3>1
  <2>10. r \in Quick!Panel /\ r.view = q.view /\ r.from = q.from /\ r.to = q.to /\ r.wire = b
         /\ r.display = d /\ r.text = q.text
    BY <2>2, <2>4, <2>7 DEF Quick!Panel, Said
  <2>11. Carried(b, d, q.text)
    BY <2>8, <2>9 DEF Carried
  <2> QED BY <2>3, <2>10, <2>11
<1> QED BY <1>1, <1>2

LEMMA QuickFails ==
    ASSUME QuickBounds, QuickInv, NEW p \in DOMAIN panel, panel[p].turn.stage # "idle",
           Quick!Ended(p, Quick!Failed(panel[p]))
    PROVE  QuickInv'
<1>1. panel[p] \in Quick!Panel /\ Conversing(panel[p])
  BY QuickHas DEF QuickInv
<1>2. PICK q : q = Quick!Failed(panel[p])
  OBVIOUS
<1>3. /\ q \in Quick!Panel /\ q.view = panel[p].view /\ q.from = panel[p].from /\ q.to = panel[p].to
      /\ Carried(q.wire, q.display, q.text)
  BY <1>1, <1>2, QuickTakesBack
<1> QED BY <1>2, <1>3, QuickEnds

LEMMA QuickAnswers ==
    ASSUME QuickBounds, QuickInv, NEW p \in DOMAIN panel, Quick!Answer(p)
    PROVE  QuickInv'
<1>1. PICK q \in Quick!Panel : q = panel[p] /\ Conversing(q) /\ q.turn.stage = "stream"
  BY QuickHas DEF QuickInv, Quick!Answer
<1>2. CASE q.turn.abort
  <2>1. Quick!Ended(p, q)
    BY <1>1, <1>2 DEF Quick!Answer
  <2> QED BY <1>1, <2>1, QuickEnds DEF Conversing
<1>3. CASE ~q.turn.abort
  <2>1. PICK m : m = [role |-> "assistant", sel |-> FALSE]
    OBVIOUS
  <2>2. m \in Said /\ m.role = "assistant" /\ m.sel = FALSE
    BY <2>1 DEF Said, Quick!Roles
  <2>3. PICK w, d : w = Append(q.wire, m) /\ d = Append(q.display, "assistant")
    OBVIOUS
  <2>4. PICK r : r = [q EXCEPT !.wire = w, !.display = d]
    OBVIOUS
  <2>5. q.wire \in Seq(Said) /\ q.display \in Seq(Quick!Roles) /\ q.before \in Seq(Said)
        /\ "assistant" \in Quick!Roles
    BY PanelParts DEF Quick!Roles
  <2>6. w \in Seq(Said) /\ d \in Seq(Quick!Roles)
    BY <2>2, <2>3, <2>5
  <2>7. r \in Quick!Panel /\ r.view = q.view /\ r.from = q.from /\ r.to = q.to /\ r.wire = w
        /\ r.display = d /\ r.text = q.text
    BY <2>4, <2>6 DEF Quick!Panel, Said
  <2>8. q.wire # <<>>
    <3>1. Len(q.wire) = Len(q.before) + 1 /\ Len(q.before) \in Nat
      BY <1>1, <2>5 DEF Conversing, AskedOne
    <3> QED BY <3>1, EmptySeq
  <2>9. Carried(w, d, q.text)
    BY <1>1, <2>2, <2>3, <2>5, <2>8, CarriedMore DEF Conversing
  <2>10. Quick!Ended(p, r)
    BY <1>1, <1>3, <2>1, <2>3, <2>4 DEF Quick!Answer
  <2> QED BY <1>1, <2>7, <2>9, <2>10, QuickEnds
<1> QED BY <1>2, <1>3

\* The attempts of a turn: one begins, streams, is reset, pauses, or is stopped.
LEMMA QuickAttempts ==
    ASSUME QuickBounds, QuickInv, NEW p \in DOMAIN panel,
           \/ Quick!Begin(p) \/ Quick!Token(p) \/ Quick!StreamReset(p) \/ Quick!Wake(p) \/ Quick!Stop(p)
    PROVE  QuickInv'
<1>1. PICK q \in Quick!Panel : q = panel[p] /\ Conversing(q)
  BY QuickHas DEF QuickInv
<1>2. PICK t \in Turn : t = q.turn
  BY PanelParts
<1>3. Streamed(q.stream, t)
  BY <1>1, <1>2 DEF Conversing
<1>4. q = [q EXCEPT !.stream = q.stream]
  BY DEF Quick!Panel
<1>5. ASSUME NEW u \in Turn,
             panel' = [panel EXCEPT ![p].turn = u] /\ UNCHANGED <<doc, file, alive, overlay, widget, hit, qaEdits>>,
             Streamed(q.stream, u), t.stage # "idle"
      PROVE  QuickInv'
  <2>1. panel' = [panel EXCEPT ![p] = [panel[p] EXCEPT !.stream = q.stream, !.turn = u]]
    <3>1. panel' = [panel EXCEPT ![p] = [q EXCEPT !.turn = u]]
      BY <1>1, <1>5
    <3>2. [q EXCEPT !.turn = u] = [q EXCEPT !.stream = q.stream, !.turn = u]
      BY DEF Quick!Panel
    <3> QED BY <1>1, <3>1, <3>2
  <2> QED BY <1>1, <1>2, <1>5, <2>1, TurnGoesOn
<1>6. CASE Quick!Begin(p)
  <2>1. PICK u : u = [t EXCEPT !.stage = "stream", !.attempt = t.attempt + 1, !.reset = FALSE]
    OBVIOUS
  <2>2. t.stage = "send" /\ t.attempt < 3
    BY <1>1, <1>2, <1>3, <1>6 DEF Quick!Begin, Quick!InTurn, Streamed
  <2>3. u \in Turn /\ u.stage = "stream"
    <3>1. PICK n \in 0 .. 3 : n = t.attempt + 1
      BY <2>2 DEF Turn
    <3>2. u = [t EXCEPT !.stage = "stream", !.attempt = n, !.reset = FALSE]
      BY <2>1, <3>1
    <3>3. u = [stage |-> "stream", target |-> t.target, attempt |-> n, abort |-> t.abort, reset |-> FALSE]
      BY <3>2 DEF Turn
    <3>4. t.target \in 1 .. 2 /\ t.abort \in BOOLEAN
      BY DEF Turn
    <3> QED BY <3>3, <3>4 DEF Turn
  <2>4. Streamed(q.stream, u)
    BY <1>3, <2>2, <2>3 DEF Streamed
  <2>5. panel' = [panel EXCEPT ![p].turn = u] /\ UNCHANGED <<doc, file, alive, overlay, widget, hit, qaEdits>>
    BY <1>1, <1>2, <1>6, <2>1 DEF Quick!Begin, Quick!InTurn
  <2> QED BY <1>5, <2>2, <2>3, <2>4, <2>5
<1>7. CASE Quick!Wake(p)
  <2>1. PICK u : u = [t EXCEPT !.stage = "send"]
    OBVIOUS
  <2>2. t.stage = "sleep" /\ u \in Turn /\ u.stage = "send" /\ u.target = t.target
        /\ u.attempt = t.attempt /\ u.reset = t.reset
    BY <1>1, <1>2, <1>7, <2>1, TurnMade DEF Quick!Wake, Quick!InTurn
  <2>3. Streamed(q.stream, u)
    BY <1>3, <2>2 DEF Streamed
  <2>4. panel' = [panel EXCEPT ![p].turn = u] /\ UNCHANGED <<doc, file, alive, overlay, widget, hit, qaEdits>>
    BY <1>1, <1>2, <1>7, <2>1 DEF Quick!Wake, Quick!InTurn
  <2> QED BY <1>5, <2>2, <2>3, <2>4
<1>8. CASE Quick!Stop(p)
  <2>1. PICK u : u = [t EXCEPT !.abort = TRUE]
    OBVIOUS
  <2>2. t.stage # "idle" /\ u \in Turn /\ u.stage = t.stage /\ u.target = t.target
        /\ u.attempt = t.attempt /\ u.reset = t.reset
    <3>1. t.stage # "idle" /\ TRUE \in BOOLEAN
      BY <1>1, <1>2, <1>8 DEF Quick!Stop, Quick!Busy
    <3> QED BY <2>1, <3>1, TurnMade
  <2>3. Streamed(q.stream, u)
    BY <1>3, <2>2 DEF Streamed
  <2>4. panel' = [panel EXCEPT ![p].turn = u] /\ UNCHANGED <<doc, file, alive, overlay, widget, hit, qaEdits>>
    BY <1>1, <1>2, <1>8, <2>1 DEF Quick!Stop, Quick!InTurn
  <2> QED BY <1>5, <2>2, <2>3, <2>4
<1>9. CASE Quick!Token(p)
  <2>1. t.stage = "stream" /\ ~t.reset /\ UNCHANGED <<doc, file, alive, overlay, widget, hit, qaEdits>>
    BY <1>1, <1>2, <1>9 DEF Quick!Token
  <2>2. PICK stream : stream = q.stream \cup {<<t.target, t.attempt>>}
    OBVIOUS
  <2>3. panel' = [panel EXCEPT ![p] = [panel[p] EXCEPT !.stream = stream, !.turn = t]]
    <3>1. panel' = [panel EXCEPT ![p] = [q EXCEPT !.stream = stream]]
      BY <1>1, <1>2, <1>9, <2>2 DEF Quick!Token
    <3>2. [q EXCEPT !.stream = stream] = [q EXCEPT !.stream = stream, !.turn = t]
      BY <1>2 DEF Quick!Panel
    <3> QED BY <1>1, <3>1, <3>2
  <2>4. Streamed(stream, t)
    BY <1>3, <2>1, <2>2 DEF Streamed
  <2> QED BY <1>1, <1>2, <2>1, <2>2, <2>3, <2>4, TurnGoesOn
<1>10. CASE Quick!StreamReset(p)
  <2>1. PICK u : u = [t EXCEPT !.reset = TRUE]
    OBVIOUS
  <2>2. t.stage = "stream" /\ u \in Turn /\ u.stage = t.stage /\ u.target = t.target
        /\ u.attempt = t.attempt /\ UNCHANGED <<doc, file, alive, overlay, widget, hit, qaEdits>>
    <3>1. t.stage = "stream" /\ TRUE \in BOOLEAN
          /\ UNCHANGED <<doc, file, alive, overlay, widget, hit, qaEdits>>
      BY <1>1, <1>2, <1>10 DEF Quick!StreamReset
    <3> QED BY <2>1, <3>1, TurnMade
  <2>3. panel' = [panel EXCEPT ![p] = [panel[p] EXCEPT !.stream = {}, !.turn = u]]
    BY <1>1, <1>2, <1>10, <2>1 DEF Quick!StreamReset
  <2>4. Streamed({}, u)
    BY <2>2 DEF Streamed
  <2> QED BY <1>1, <1>2, <2>2, <2>3, <2>4, TurnGoesOn
<1> QED BY <1>6, <1>7, <1>8, <1>9, <1>10

\* An attempt that failed: again after a pause, with the other model, or not at all.
LEMMA QuickRetries ==
    ASSUME QuickBounds, QuickInv, NEW p \in DOMAIN panel, NEW e \in Fails, NEW fallback \in BOOLEAN,
           Quick!AttemptFails(p, e, fallback)
    PROVE  QuickInv'
<1>1. PICK q \in Quick!Panel : q = panel[p] /\ Conversing(q)
  BY QuickHas DEF QuickInv
<1>2. PICK t \in Turn : t = q.turn
  BY PanelParts
<1>3. Streamed(q.stream, t) /\ t.stage = "stream"
  BY <1>1, <1>2 DEF Conversing, Quick!AttemptFails
<1>4. e \in {"busy", "network", "refused"} /\ Quick!MaxAttempts(e) \in 1 .. 3
  BY DEF QuickBounds, Quick!MaxAttempts
<1>5. ASSUME NEW u \in Turn, panel' = [panel EXCEPT ![p] = Quick!Hop(p, u)], u.reset = t.reset,
             u.stage \in {"send", "sleep"}, u.attempt < 3,
             UNCHANGED <<doc, file, alive, overlay, widget, hit, qaEdits>>
      PROVE  QuickInv'
  <2>1. PICK v : v = [u EXCEPT !.reset = FALSE]
    OBVIOUS
  <2>2. v \in Turn /\ v.stage = u.stage /\ v.attempt = u.attempt
    BY <2>1, TurnMade
  <2>3. Quick!Hop(p, u) = [q EXCEPT !.stream = {}, !.turn = v]
    <3>1. Quick!Hop(p, u) = [q EXCEPT !.stream = IF u.reset THEN q.stream ELSE {}, !.turn = v]
      BY <1>1, <2>1 DEF Quick!Hop
    <3>2. (IF u.reset THEN q.stream ELSE {}) = {}
      BY <1>3, <1>5 DEF Streamed
    <3> QED BY <3>1, <3>2
  <2>4. panel' = [panel EXCEPT ![p] = [panel[p] EXCEPT !.stream = {}, !.turn = v]]
    BY <1>1, <1>5, <2>3
  <2>5. Streamed({}, v)
    BY <1>5, <2>2 DEF Streamed
  <2> QED BY <1>1, <1>2, <1>3, <1>5, <2>2, <2>4, <2>5, TurnGoesOn
<1>6. CASE t.attempt < Quick!MaxAttempts(e)
  <2>1. PICK u : u = [t EXCEPT !.stage = "sleep"]
    OBVIOUS
  <2>2. u \in Turn /\ u.stage = "sleep" /\ u.attempt = t.attempt /\ u.reset = t.reset
    BY <2>1, TurnMade
  <2>3. panel' = [panel EXCEPT ![p] = Quick!Hop(p, u)]
        /\ UNCHANGED <<doc, file, alive, overlay, widget, hit, qaEdits>>
    BY <1>1, <1>2, <1>6, <2>1 DEF Quick!AttemptFails
  <2>4. t.attempt < 3
    BY <1>4, <1>6 DEF Turn
  <2> QED BY <1>5, <2>2, <2>3, <2>4
<1>7. CASE ~(t.attempt < Quick!MaxAttempts(e)) /\ t.target = 1 /\ fallback
  <2>1. PICK u : u = [t EXCEPT !.stage = "send", !.target = 2, !.attempt = 0]
    OBVIOUS
  <2>2. u \in Turn /\ u.stage = "send" /\ u.attempt = 0 /\ u.reset = t.reset
    <3>1. u = [stage |-> "send", target |-> 2, attempt |-> 0, abort |-> t.abort, reset |-> t.reset]
      BY <2>1 DEF Turn
    <3>2. t.reset \in BOOLEAN /\ t.abort \in BOOLEAN /\ 2 \in 1 .. 2 /\ 0 \in 0 .. 3
      BY DEF Turn
    <3> QED BY <3>1, <3>2 DEF Turn
  <2>3. panel' = [panel EXCEPT ![p] = Quick!Hop(p, u)]
        /\ UNCHANGED <<doc, file, alive, overlay, widget, hit, qaEdits>>
    BY <1>1, <1>2, <1>7, <2>1 DEF Quick!AttemptFails
  <2>4. u.stage \in {"send", "sleep"} /\ u.attempt < 3
    BY <2>2
  <2> QED BY <1>5, <2>2, <2>3, <2>4
<1>8. CASE ~(t.attempt < Quick!MaxAttempts(e)) /\ ~(t.target = 1 /\ fallback)
  <2>1. Quick!Ended(p, Quick!Failed(panel[p])) /\ panel[p].turn.stage # "idle"
    BY <1>1, <1>2, <1>3, <1>8 DEF Quick!AttemptFails
  <2> QED BY <2>1, QuickFails
<1> QED BY <1>6, <1>7, <1>8

-----------------------------------------------------------------------------
(* Panels come and go.                                                     *)

\* A panel that stays mounted stays as it is.
LEMMA KeptAsItWas ==
    ASSUME NEW o, NEW p \in DOMAIN panel, o[panel[p].view] = p
    PROVE  Quick!Kept(o)[p] = panel[p]
BY DEF Quick!Kept

LEMMA PanelTakenDown ==
    ASSUME QuickBounds, QuickInv, overlay' \in [Views -> 1 .. MaxShows \cup {None}],
           panel' = Quick!Kept(overlay'), doc' \in [Views -> Seq(Quick!Cell)],
           \A x \in Views : overlay'[x] # None =>
               overlay'[x] = overlay[x] /\ doc'[x] = doc[x] /\ widget' = x,
           widget' \in Views \cup {None}, alive' \subseteq Views, hit' \subseteq Quick!Origins \ {"out"},
           UNCHANGED <<file, qaEdits>>
    PROVE  QuickInv'
<1>1. /\ panel' \in Seq(Quick!Panel) /\ Len(panel') = Len(panel) /\ DOMAIN panel' = DOMAIN panel
      /\ \A p \in DOMAIN panel : Conversing(panel'[p])
  BY PanelsKept
<1>2. Quick!QuickTypeOK'
  BY <1>1 DEF QuickInv, Quick!QuickTypeOK, Quick!Cell, Quick!Origins
<1>3. Mounted'
  <2> SUFFICES ASSUME NEW v \in Views, overlay'[v] # None
               PROVE  /\ overlay'[v] \in DOMAIN panel' /\ panel'[overlay'[v]].view = v
                      /\ Guarded(doc'[v], panel'[overlay'[v]].from, panel'[overlay'[v]].to)
    BY DEF Mounted, Guarded
  <2>1. overlay'[v] = overlay[v] /\ doc'[v] = doc[v]
    OBVIOUS
  <2>2. /\ overlay[v] \in DOMAIN panel /\ panel[overlay[v]].view = v
        /\ Guarded(doc[v], panel[overlay[v]].from, panel[overlay[v]].to)
    BY <2>1 DEF QuickInv, Mounted
  <2>3. panel'[overlay[v]] = panel[overlay[v]]
    BY <2>1, <2>2, KeptAsItWas
  <2> QED BY <1>1, <2>1, <2>2, <2>3
<1>4. Quick!OnePanel' /\ Quick!OutsideKept'
  BY DEF Quick!OnePanel, Quick!OutsideKept
<1>5. (\A q \in DOMAIN panel : Conversing(panel[q]))'
  BY <1>1 DEF Conversing, Streamed, Carried, AskedOne
<1> QED BY <1>1, <1>2, <1>3, <1>4, <1>5 DEF QuickInv

\* A panel that is closed was the only one.
LEMMA NoneIsLeft ==
    ASSUME QuickBounds, QuickInv, NEW p \in DOMAIN panel, Quick!Shown(p), Quick!ClosedBy(p)
    PROVE  /\ overlay' \in [Views -> 1 .. MaxShows \cup {None}] /\ panel' = Quick!Kept(overlay')
           /\ \A x \in Views : overlay'[x] = None
           /\ widget' \in Views \cup {None} /\ panel[p].view \in Views
           /\ Guarded(doc[panel[p].view], panel[p].from, panel[p].to)
<1>1. panel[p] \in Quick!Panel /\ panel[p].view \in Views /\ p \in Nat
  BY QuickHas, PanelParts
<1>2. PICK v \in Views : v = panel[p].view
  BY <1>1
<1>3. overlay[v] = p /\ p # None
  BY <1>1, <1>2 DEF Quick!Shown, QuickBounds
<1>4. Guarded(doc[v], panel[p].from, panel[p].to) /\ widget = v
  BY <1>3 DEF QuickInv, Mounted, Quick!OnePanel
<1>5. overlay \in [Views -> 1 .. MaxShows \cup {None}] /\ overlay' = [overlay EXCEPT ![v] = None]
      /\ panel' = Quick!Kept(overlay') /\ widget' \in {None, widget} /\ widget \in Views \cup {None}
  BY <1>2 DEF QuickInv, Quick!QuickTypeOK, Quick!ClosedBy
<1>6. \A x \in Views : x # v => overlay[x] = None
  BY <1>4 DEF QuickInv, Quick!OnePanel
<1>7. \A x \in Views : overlay'[x] = None
  BY <1>5, <1>6
<1> QED BY <1>2, <1>4, <1>5, <1>7

LEMMA QuickCloses ==
    ASSUME QuickBounds, QuickInv, NEW p \in DOMAIN panel, Quick!Close(p)
    PROVE  QuickInv'
<1>1. /\ overlay' \in [Views -> 1 .. MaxShows \cup {None}] /\ panel' = Quick!Kept(overlay')
      /\ \A x \in Views : overlay'[x] = None
      /\ widget' \in Views \cup {None} /\ panel[p].view \in Views
  BY NoneIsLeft DEF Quick!Close
<1>2. PICK v \in Views : v = panel[p].view
  BY <1>1
<1>3. PICK e : e = Quick!Plain(doc[v])
  OBVIOUS
<1>4. e \in Seq(Quick!Cell) /\ doc \in [Views -> Seq(Quick!Cell)]
  BY <1>3, QuickHas, PlainDoc DEF QuickInv, Quick!QuickTypeOK
<1>5. doc' = [doc EXCEPT ![v] = e] /\ UNCHANGED <<file, alive, hit, qaEdits>>
  BY <1>2, <1>3 DEF Quick!Close
<1>6. doc' \in [Views -> Seq(Quick!Cell)]
  BY <1>4, <1>5
<1>7. alive' \subseteq Views /\ hit' \subseteq Quick!Origins \ {"out"}
  BY <1>5 DEF QuickInv, Quick!QuickTypeOK, Quick!OutsideKept
<1> QED BY <1>1, <1>5, <1>6, <1>7, PanelTakenDown

\* What Replace writes over lies in the range of the panel.
LEMMA QuickReplaces ==
    ASSUME QuickBounds, QuickInv, NEW p \in DOMAIN panel, Quick!Replace(p)
    PROVE  QuickInv'
<1>1. /\ overlay' \in [Views -> 1 .. MaxShows \cup {None}] /\ panel' = Quick!Kept(overlay')
      /\ \A x \in Views : overlay'[x] = None
      /\ widget' \in Views \cup {None} /\ panel[p].view \in Views
      /\ Guarded(doc[panel[p].view], panel[p].from, panel[p].to)
  BY NoneIsLeft DEF Quick!Replace
<1>2. PICK v \in Views : v = panel[p].view
  BY <1>1
<1>3. PICK from \in Nat, to \in Nat : from = panel[p].from /\ to = panel[p].to
  BY QuickHas, PanelParts
<1>4. PICK d \in Seq(Quick!Cell) : d = doc[v]
  BY QuickHas
<1>5. from <= to /\ to <= Len(d) /\ \A i \in from + 1 .. to : d[i].org # "out"
  BY <1>1, <1>2, <1>3, <1>4 DEF Guarded
<1>6. PICK a, b : a = SubSeq(d, 1, from) /\ b = SubSeq(d, to + 1, Len(d))
  OBVIOUS
<1>7. PICK ab : ab = a \o b
  OBVIOUS
<1>8. PICK e : e = Quick!Plain(ab)
  OBVIOUS
<1>9. a \in Seq(Quick!Cell) /\ b \in Seq(Quick!Cell)
  <2>1. Len(d) \in Nat
    OBVIOUS
  <2>2. a \in Seq(Quick!Cell)
    BY <1>5, <1>6, <2>1
  <2>3. b \in Seq(Quick!Cell)
    BY <1>5, <1>6, <2>1
  <2> QED BY <2>2, <2>3
<1>10. e \in Seq(Quick!Cell)
  <2>1. ab \in Seq(Quick!Cell)
    BY <1>7, <1>9, DocJoined
  <2> QED BY <1>8, <2>1, PlainDoc
<1>11. doc' = [doc EXCEPT ![v] = e] /\ UNCHANGED <<file, alive, qaEdits>>
  <2>1. doc' = [doc EXCEPT ![v] = Quick!Plain(SubSeq(doc[v], 1, from) \o SubSeq(doc[v], to + 1, Len(doc[v])))]
    BY <1>2, <1>3 DEF Quick!Replace
  <2>2. e = Quick!Plain(SubSeq(doc[v], 1, from) \o SubSeq(doc[v], to + 1, Len(doc[v])))
    BY <1>4, <1>6, <1>7, <1>8
  <2> QED BY <2>1, <2>2 DEF Quick!Replace
<1>12. doc' \in [Views -> Seq(Quick!Cell)]
  BY <1>10, <1>11 DEF QuickInv, Quick!QuickTypeOK
<1>13. hit' = hit \cup {d[i].org : i \in from + 1 .. to}
  BY <1>2, <1>3, <1>4 DEF Quick!Replace
<1>14. \A i \in from + 1 .. to : d[i].org \in Quick!Origins \ {"out"}
  <2> TAKE i \in from + 1 .. to
  <2>1. i \in DOMAIN d
    BY <1>5
  <2> QED BY <1>5, <2>1, DocCells
<1>15. hit \subseteq Quick!Origins \ {"out"} /\ alive' \subseteq Views
  BY <1>11 DEF QuickInv, Quick!QuickTypeOK, Quick!OutsideKept
<1>16. hit' \subseteq Quick!Origins \ {"out"}
  BY <1>13, <1>14, <1>15
<1> QED BY <1>1, <1>11, <1>12, <1>15, <1>16, PanelTakenDown

LEMMA QuickLosesView ==
    ASSUME QuickBounds, QuickInv, NEW v \in Views, Quick!Destroy(v)
    PROVE  QuickInv'
<1>1. /\ overlay' = [overlay EXCEPT ![v] = None] /\ panel' = Quick!Kept(overlay')
      /\ doc' = [doc EXCEPT ![v] = <<>>] /\ UNCHANGED <<file, widget, hit, qaEdits>>
      /\ alive' = alive \ {v}
  BY DEF Quick!Destroy
<1>2. /\ overlay \in [Views -> 1 .. MaxShows \cup {None}] /\ doc \in [Views -> Seq(Quick!Cell)]
      /\ widget \in Views \cup {None} /\ hit \subseteq Quick!Origins /\ alive \subseteq Views
      /\ "out" \notin hit /\ \A x \in Views : overlay[x] # None => widget = x
  BY DEF QuickInv, Quick!QuickTypeOK, Quick!OutsideKept, Quick!OnePanel
<1>3. overlay' \in [Views -> 1 .. MaxShows \cup {None}]
  BY <1>1, <1>2
<1>4. doc' \in [Views -> Seq(Quick!Cell)]
  <2>1. <<>> \in Seq(Quick!Cell)
    BY EmptySeq
  <2> QED BY <1>1, <1>2, <2>1
<1>5. ASSUME NEW x \in Views, overlay'[x] # None
      PROVE  overlay'[x] = overlay[x] /\ doc'[x] = doc[x] /\ widget' = x
  <2>1. x # v
    BY <1>1, <1>2, <1>5
  <2> QED BY <1>1, <1>2, <1>5, <2>1
<1>6. widget' \in Views \cup {None} /\ alive' \subseteq Views /\ hit' \subseteq Quick!Origins \ {"out"}
  BY <1>1, <1>2
<1> QED BY <1>1, <1>3, <1>4, <1>5, <1>6, PanelTakenDown

\* The panel that opens guards what is selected.
LEMMA QuickShows ==
    ASSUME QuickBounds, QuickInv, NEW v \in Views, NEW from \in 0 .. Len(doc[v]),
           NEW to \in from .. Len(doc[v]), Quick!Show(v, from, to)
    PROVE  QuickInv'
<1>1. PICK d \in Seq(Quick!Cell) : d = doc[v]
  BY QuickHas
<1>2. from \in Nat /\ to \in Nat /\ from <= to /\ to <= Len(d) /\ Len(d) \in Nat
  BY <1>1
<1>3. PICK p : p = Len(panel) + 1
  OBVIOUS
<1> DEFINE mark == Selected(d, from, to)
<1>5. /\ mark \in Seq(Quick!Cell) /\ Len(mark) = Len(d)
      /\ \A i \in DOMAIN d : i > from /\ i <= to => mark[i].org = "in"
  BY DocMarked
<1>6. PICK text : text = Quick!Text(SubSeq(d, from + 1, to))
  OBVIOUS
<1>7. text \in Seq(Chars)
  <2>1. PICK e : e = SubSeq(d, from + 1, to)
    OBVIOUS
  <2>2. e \in Seq(Quick!Cell)
    BY <1>2, <2>1
  <2> QED BY <1>6, <2>1, <2>2, DocText
<1>8. PICK f \in Files : f = file[v]
  BY DEF QuickInv, Quick!QuickTypeOK
<1>9. PICK n : n = [view |-> v, file |-> f, text |-> text,
          from |-> from, to |-> to, wire |-> <<>>, display |-> <<>>, before |-> <<>>,
          stream |-> {}, turns |-> 0, turn |-> Quick!Idle]
  OBVIOUS
<1>10. PICK k : k = Quick!Kept(overlay')
  OBVIOUS
<1>11. /\ p <= MaxShows /\ panel' = Append(k, n) /\ widget' = v
       /\ overlay' = [x \in Views |-> IF x = v THEN p ELSE IF x = widget THEN None ELSE overlay[x]]
       /\ doc' = [x \in Views |-> IF x = v THEN mark ELSE Quick!Plain(doc[x])]
       /\ UNCHANGED <<file, alive, hit, qaEdits>>
  BY <1>1, <1>3, <1>6, <1>8, <1>9, <1>10 DEF Quick!Show, Selected
<1> HIDE DEF mark
<1>12. n \in Quick!Panel
  <2>1. <<>> \in Seq(Said) /\ <<>> \in Seq(Quick!Roles) /\ {} \in SUBSET (Nat \X Nat)
        /\ 0 \in 0 .. MaxQuestions
    BY EmptySeq DEF QuickBounds
  <2>2. PICK t \in Turn : t = Quick!Idle
    BY IdleTurn
  <2> QED BY <1>2, <1>7, <1>9, <2>1, <2>2 DEF Quick!Panel, Said, Turn
<1>13. Conversing(n)
  <2>1. n.wire = <<>> /\ n.display = <<>> /\ n.stream = {} /\ n.turn = Quick!Idle
    BY <1>9
  <2>2. Carried(n.wire, n.display, n.text)
    BY <2>1, EmptySeq DEF Carried
  <2> QED BY <2>1, <2>2, IdleTurn DEF Conversing, Streamed
<1>14. /\ k \in Seq(Quick!Panel) /\ Len(k) = Len(panel) /\ DOMAIN k = DOMAIN panel
       /\ \A i \in DOMAIN panel : Conversing(k[i])
  BY <1>10, PanelsKept
<1>15. /\ Len(panel) \in Nat /\ p \in 1 .. MaxShows /\ p # None
  <2>1. Len(panel) \in Nat
    BY QuickHas
  <2> QED BY <1>3, <1>11, <2>1 DEF QuickBounds
<1>16. /\ panel' \in Seq(Quick!Panel) /\ Len(panel') = p /\ DOMAIN panel' = 1 .. p /\ panel'[p] = n
       /\ \A i \in 1 .. Len(panel) : panel'[i] = k[i]
  BY <1>3, <1>11, <1>12, <1>14, <1>15
<1>17. \A i \in DOMAIN panel' : Conversing(panel'[i])
  <2> TAKE i \in DOMAIN panel'
  <2>1. CASE i = p
    BY <1>13, <1>16, <2>1
  <2>2. CASE i # p
    <3>1. i \in 1 .. Len(panel) /\ i \in DOMAIN panel
      BY <1>3, <1>15, <1>16, <2>2, QuickHas
    <3> QED BY <1>14, <1>16, <3>1
  <2> QED BY <2>1, <2>2
<1>18. \A x \in Views : x # v => overlay'[x] = None
  BY <1>11 DEF QuickInv, Quick!OnePanel
<1>19. overlay' \in [Views -> 1 .. MaxShows \cup {None}]
  BY <1>11, <1>15 DEF QuickInv, Quick!QuickTypeOK
<1>20. doc' \in [Views -> Seq(Quick!Cell)] /\ doc'[v] = mark
  <2>1. \A x \in Views : Quick!Plain(doc[x]) \in Seq(Quick!Cell)
    BY QuickHas, PlainDoc
  <2> QED BY <1>5, <1>11, <2>1
<1>21. Quick!QuickTypeOK'
  <2>1. file' \in [Views -> Files] /\ alive' \subseteq Views /\ hit' \subseteq Quick!Origins
        /\ qaEdits' \in 0 .. MaxQuickEdits /\ widget' \in Views \cup {None}
    BY <1>11 DEF QuickInv, Quick!QuickTypeOK
  <2> QED BY <1>16, <1>19, <1>20, <2>1 DEF Quick!QuickTypeOK
<1>22. Guarded(mark, from, to)
  <2>1. \A i \in from + 1 .. to : mark[i].org # "out"
    <3> TAKE i \in from + 1 .. to
    <3>1. i \in DOMAIN d /\ i > from /\ i <= to
      BY <1>2
    <3>2. mark[i].org = "in"
      BY <1>5, <3>1
    <3> QED BY <3>2
  <2> QED BY <1>2, <1>5, <2>1 DEF Guarded
<1>23. Mounted'
  <2> SUFFICES ASSUME NEW x \in Views, overlay'[x] # None
               PROVE  /\ overlay'[x] \in DOMAIN panel' /\ panel'[overlay'[x]].view = x
                      /\ Guarded(doc'[x], panel'[overlay'[x]].from, panel'[overlay'[x]].to)
    BY DEF Mounted, Guarded
  <2>1. x = v /\ overlay'[x] = p
    BY <1>11, <1>18
  <2>2. panel'[p] = n /\ n.view = v /\ n.from = from /\ n.to = to /\ p \in DOMAIN panel'
    BY <1>9, <1>15, <1>16
  <2> QED BY <1>20, <1>22, <2>1, <2>2
<1>24. Quick!OnePanel' /\ Quick!OutsideKept'
  BY <1>11, <1>18 DEF QuickInv, Quick!OnePanel, Quick!OutsideKept
<1>25. (\A q \in DOMAIN panel : Conversing(panel[q]))'
  BY <1>17 DEF Conversing, Streamed, Carried, AskedOne
<1> QED BY <1>11, <1>16, <1>21, <1>23, <1>24, <1>25 DEF QuickInv

-----------------------------------------------------------------------------
(* Edits under the panel.                                                  *)

LEMMA PanelFollows ==
    ASSUME QuickBounds, QuickInv, NEW v \in Views, overlay[v] # None, NEW e \in Seq(Quick!Cell),
           NEW a \in Nat, NEW b \in Nat, doc' = [doc EXCEPT ![v] = e], panel' = Quick!Mapped(v, a, b),
           Guarded(e, IF a < b THEN a ELSE b, IF a < b THEN b ELSE a),
           qaEdits < MaxQuickEdits, qaEdits' = qaEdits + 1, UNCHANGED <<file, alive, overlay, widget, hit>>
    PROVE  QuickInv'
<1>1. PICK p \in DOMAIN panel : p = overlay[v] /\ panel[p].view = v /\ widget = v
  BY DEF QuickInv, Mounted, Quick!OnePanel
<1>2. PICK q \in Quick!Panel : q = panel[p] /\ Conversing(q)
  BY QuickHas DEF QuickInv
<1>3. PICK lo \in Nat, hi \in Nat : lo = (IF a < b THEN a ELSE b) /\ hi = (IF a < b THEN b ELSE a)
  OBVIOUS
<1>4. PICK r : r = [q EXCEPT !.from = lo, !.to = hi]
  OBVIOUS
<1>5. /\ r \in Quick!Panel /\ r.view = q.view /\ r.from = lo /\ r.to = hi /\ r.text = q.text
      /\ r.wire = q.wire /\ r.display = q.display /\ r.before = q.before /\ r.stream = q.stream
      /\ r.turn = q.turn
  BY <1>4 DEF Quick!Panel
<1>6. panel' = [panel EXCEPT ![p] = r]
  BY <1>1, <1>2, <1>3, <1>4 DEF Quick!Mapped, Quick!OnDocChanged, Quick!Ordered
<1>7. Conversing(r)
  BY <1>2, <1>5 DEF Conversing
<1>8. /\ panel' \in Seq(Quick!Panel) /\ Len(panel') = Len(panel) /\ DOMAIN panel' = DOMAIN panel
      /\ panel'[p] = r /\ \A x \in DOMAIN panel \ {p} : panel'[x] = panel[x]
  BY <1>5, <1>6, QuickHas
<1>9. \A x \in DOMAIN panel' : Conversing(panel'[x])
  BY <1>7, <1>8 DEF QuickInv
<1>10. doc' \in [Views -> Seq(Quick!Cell)] /\ doc'[v] = e
  BY DEF QuickInv, Quick!QuickTypeOK
<1>11. Quick!QuickTypeOK'
  <2>1. qaEdits' \in 0 .. MaxQuickEdits
    BY DEF QuickInv, Quick!QuickTypeOK, QuickBounds
  <2> QED BY <1>8, <1>10, <2>1 DEF QuickInv, Quick!QuickTypeOK
<1>12. Mounted'
  <2> SUFFICES ASSUME NEW x \in Views, overlay[x] # None
               PROVE  /\ overlay[x] \in DOMAIN panel' /\ panel'[overlay[x]].view = x
                      /\ Guarded(doc'[x], panel'[overlay[x]].from, panel'[overlay[x]].to)
    BY DEF Mounted, Guarded
  <2>1. x = v
    BY <1>1 DEF QuickInv, Quick!OnePanel
  <2> QED BY <1>1, <1>2, <1>3, <1>5, <1>8, <1>10, <2>1
<1>13. Quick!OnePanel' /\ Quick!OutsideKept'
  BY DEF QuickInv, Quick!OnePanel, Quick!OutsideKept
<1>14. (\A x \in DOMAIN panel : Conversing(panel[x]))'
  BY <1>9 DEF Conversing, Streamed, Carried, AskedOne
<1> QED BY <1>8, <1>11, <1>12, <1>13, <1>14 DEF QuickInv

LEMMA QuickInserts ==
    ASSUME QuickBounds, QuickInv, NEW v \in Views, NEW at \in 0 .. Len(doc[v]),
           NEW s \in Quick!SeqOf(Chars, 2), Quick!Insert(v, at, s)
    PROVE  QuickInv'
<1>1. PICK d \in Seq(Quick!Cell) : d = doc[v]
  BY QuickHas
<1>2. s \in Seq(Chars) /\ Len(s) \in Nat
  <2>1. PICK m \in 0 .. 2 : s \in [1 .. m -> Chars]
    BY DEF Quick!SeqOf
  <2> QED BY <2>1
<1>3. PICK t : t = [i \in DOMAIN s |-> [ch |-> s[i], org |-> "new"]]
  OBVIOUS
<1>4. t \in Seq(Quick!Cell) /\ Len(t) = Len(s) /\ \A i \in 1 .. Len(s) : t[i].org = "new"
  <2>1. \A i \in DOMAIN s : [ch |-> s[i], org |-> "new"] \in Quick!Cell
    BY <1>2 DEF Quick!Cell, Quick!Origins
  <2>2. t \in [1 .. Len(s) -> Quick!Cell]
    BY <1>2, <1>3, <2>1
  <2>3. \A i \in 1 .. Len(s) : t[i].org = "new"
    BY <1>2, <1>3
  <2> QED BY <1>2, <2>2, <2>3
<1>5. PICK e : e = SubSeq(d, 1, at) \o t \o SubSeq(d, at + 1, Len(d))
  OBVIOUS
<1>6. at \in 0 .. Len(d)
  BY <1>1
<1>7. /\ e \in Seq(Quick!Cell) /\ Len(e) = Len(d) + Len(s)
      /\ \A i \in 1 .. at : e[i] = d[i]
      /\ \A i \in at + 1 .. at + Len(s) : e[i] = t[i - at]
      /\ \A i \in at + Len(s) + 1 .. Len(d) + Len(s) : e[i] = d[i - Len(s)]
  <2>1. /\ e \in Seq(Quick!Cell) /\ Len(e) = Len(d) + Len(t)
        /\ \A i \in 1 .. at : e[i] = d[i]
        /\ \A i \in at + 1 .. at + Len(t) : e[i] = t[i - at]
        /\ \A i \in at + Len(t) + 1 .. Len(d) + Len(t) : e[i] = d[i - Len(t)]
    <3>1. t \in Seq(Quick!Cell)
      BY <1>4
    <3> HIDE <1>4
    <3> QED BY <1>5, <1>6, <3>1, DocInserted
  <2> QED BY <1>4, <2>1
<1>8. \A i \in at + 1 .. at + Len(s) : e[i].org # "out"
  <2> TAKE i \in at + 1 .. at + Len(s)
  <2>1. i - at \in 1 .. Len(s)
    BY <1>2, <1>6
  <2> QED BY <1>4, <1>7, <2>1
<1>9. PICK q \in Quick!Panel : q = panel[overlay[v]] /\ Guarded(d, q.from, q.to)
  BY <1>1, QuickHas DEF QuickInv, Mounted, Quick!Insert
<1>10. q.from \in Nat /\ q.to \in Nat
  BY PanelParts
<1>11. PICK a, b : a = Quick!Inserted(q.from, at, Len(s), 1) /\ b = Quick!Inserted(q.to, at, Len(s), 0)
  OBVIOUS
<1>12. a \in Nat /\ b \in Nat /\ Guarded(e, IF a < b THEN a ELSE b, IF a < b THEN b ELSE a)
  BY <1>2, <1>6, <1>7, <1>8, <1>9, <1>10, <1>11, GuardInserted
<1>13. doc' = [doc EXCEPT ![v] = e]
  BY <1>1, <1>3, <1>5 DEF Quick!Insert
<1>14. panel' = Quick!Mapped(v, a, b) /\ overlay[v] # None
  BY <1>9, <1>11 DEF Quick!Insert
<1>15. /\ qaEdits < MaxQuickEdits /\ qaEdits' = qaEdits + 1
       /\ UNCHANGED <<file, alive, overlay, widget, hit>>
  BY DEF Quick!Insert
<1> QED BY <1>7, <1>12, <1>13, <1>14, <1>15, PanelFollows

LEMMA QuickDeletes ==
    ASSUME QuickBounds, QuickInv, NEW v \in Views, NEW at \in 0 .. Len(doc[v]), NEW n \in 1 .. 2,
           Quick!Delete(v, at, n)
    PROVE  QuickInv'
<1>1. PICK d \in Seq(Quick!Cell) : d = doc[v]
  BY QuickHas
<1>2. at \in 0 .. Len(d) /\ at + n <= Len(d) /\ n \in Nat
  BY <1>1 DEF Quick!Delete
<1>3. PICK e : e = SubSeq(d, 1, at) \o SubSeq(d, at + n + 1, Len(d))
  OBVIOUS
<1>4. /\ e \in Seq(Quick!Cell) /\ Len(e) = Len(d) - n
      /\ \A i \in 1 .. at : e[i] = d[i]
      /\ \A i \in at + 1 .. Len(d) - n : e[i] = d[i + n]
  BY <1>2, <1>3, DocDeleted
<1>5. PICK q \in Quick!Panel : q = panel[overlay[v]] /\ Guarded(d, q.from, q.to)
  BY <1>1, QuickHas DEF QuickInv, Mounted, Quick!Delete
<1>6. q.from \in Nat /\ q.to \in Nat
  BY PanelParts
<1>7. PICK a, b : a = Quick!Deleted(q.from, at, n) /\ b = Quick!Deleted(q.to, at, n)
  OBVIOUS
<1>8. a \in Nat /\ b \in Nat /\ Guarded(e, IF a < b THEN a ELSE b, IF a < b THEN b ELSE a)
  BY <1>2, <1>4, <1>5, <1>6, <1>7, GuardDeleted
<1>9. doc' = [doc EXCEPT ![v] = e]
  BY <1>1, <1>3 DEF Quick!Delete
<1>10. panel' = Quick!Mapped(v, a, b) /\ overlay[v] # None
  BY <1>5, <1>7 DEF Quick!Delete
<1>11. /\ qaEdits < MaxQuickEdits /\ qaEdits' = qaEdits + 1
       /\ UNCHANGED <<file, alive, overlay, widget, hit>>
  BY DEF Quick!Delete
<1> QED BY <1>4, <1>8, <1>9, <1>10, <1>11, PanelFollows

\* Nothing the invariant is about changes with the note that is shown.
LEMMA QuickOpens ==
    ASSUME QuickBounds, QuickInv, NEW v \in Views, NEW f \in Files, Quick!Open(v, f)
    PROVE  QuickInv'
<1>1. /\ file' = [file EXCEPT ![v] = f] /\ qaEdits < MaxQuickEdits /\ qaEdits' = qaEdits + 1
      /\ UNCHANGED <<doc, alive, overlay, widget, panel, hit>>
  BY DEF Quick!Open
<1>2. file' \in [Views -> Files] /\ qaEdits' \in 0 .. MaxQuickEdits
  BY <1>1 DEF QuickInv, Quick!QuickTypeOK, QuickBounds
<1>3. Quick!QuickTypeOK' /\ Quick!OnePanel' /\ Quick!OutsideKept' /\ Len(panel') <= MaxShows
  BY <1>1, <1>2 DEF QuickInv, Quick!QuickTypeOK, Quick!OnePanel, Quick!OutsideKept
<1>4. Mounted' /\ (\A p \in DOMAIN panel : Conversing(panel[p]))'
  BY <1>1 DEF QuickInv, Mounted, Guarded, Conversing, Streamed, Carried, AskedOne
<1> QED BY <1>3, <1>4 DEF QuickInv

-----------------------------------------------------------------------------
(* The theorems.                                                           *)

LEMMA QuickKeeps ==
    ASSUME QuickBounds, QuickInv, [Quick!QuickNext]_Quick!qaVars
    PROVE  QuickInv'
<1>1. ASSUME NEW p \in DOMAIN panel, Quick!TurnStep(p)
      PROVE  QuickInv'
  <2>1. CASE Quick!Begin(p) \/ Quick!Wake(p)
    BY <2>1, QuickAttempts
  <2>2. CASE Quick!Aborted(p)
    BY <2>2, QuickFails DEF Quick!Aborted
  <2>3. CASE Quick!Answer(p)
    BY <2>3, QuickAnswers
  <2>4. CASE Quick!AbortFails(p)
    BY <2>4, QuickFails DEF Quick!AbortFails
  <2>5. CASE \E e \in Fails, fallback \in BOOLEAN : Quick!AttemptFails(p, e, fallback)
    BY <2>5, QuickRetries
  <2> QED BY <1>1, <2>1, <2>2, <2>3, <2>4, <2>5 DEF Quick!TurnStep
<1>2. ASSUME NEW p \in DOMAIN panel,
             \/ Quick!Close(p) \/ Quick!Replace(p) \/ Quick!Send(p) \/ Quick!Token(p)
             \/ Quick!StreamReset(p) \/ Quick!Stop(p) \/ Quick!TurnStep(p)
      PROVE  QuickInv'
  BY <1>1, <1>2, QuickCloses, QuickReplaces, QuickSends, QuickAttempts
<1>3. CASE UNCHANGED Quick!qaVars
  <2>1. UNCHANGED <<doc, file, alive, overlay, widget, panel, hit, qaEdits>>
    BY <1>3 DEF Quick!qaVars
  <2> QED BY <2>1 DEF QuickInv, Quick!QuickTypeOK, Quick!OnePanel, Quick!OutsideKept, Mounted, Guarded,
                      Conversing, Streamed, Carried, AskedOne
<1>4. CASE Quick!QuickNext
  BY <1>2, <1>4, QuickShows, QuickInserts, QuickDeletes, QuickOpens, QuickLosesView DEF Quick!QuickNext
<1> QED BY <1>3, <1>4

LEMMA QuickStarts ==
    ASSUME QuickBounds, Quick!QuickInit
    PROVE  QuickInv
<1>1. /\ file = [v \in Views |-> CHOOSE f \in Files : TRUE] /\ alive = Views
      /\ overlay = [v \in Views |-> None] /\ widget = None
      /\ panel = <<>> /\ hit = {} /\ qaEdits = 0
  BY DEF Quick!QuickInit
<1>2. doc \in [Views -> Seq(Quick!Cell)]
  <2>1. ASSUME NEW d \in Docs
        PROVE  [i \in DOMAIN d |-> [ch |-> d[i], org |-> "out"]] \in Seq(Quick!Cell)
    <3>1. d \in Seq(Chars) /\ DOMAIN d = 1 .. Len(d) /\ Len(d) \in Nat
      BY DEF QuickBounds
    <3>2. \A i \in DOMAIN d : [ch |-> d[i], org |-> "out"] \in Quick!Cell
      BY <3>1 DEF Quick!Cell, Quick!Origins
    <3>3. PICK e : e = [i \in DOMAIN d |-> [ch |-> d[i], org |-> "out"]]
      OBVIOUS
    <3>4. e \in [1 .. Len(d) -> Quick!Cell]
      BY <3>1, <3>2, <3>3
    <3> QED BY <3>1, <3>3, <3>4
  <2> QED BY <2>1 DEF Quick!QuickInit
<1>3. (CHOOSE f \in Files : TRUE) \in Files
  BY DEF QuickBounds
<1>4. panel \in Seq(Quick!Panel) /\ Len(panel) = 0 /\ DOMAIN panel = {}
  BY <1>1, EmptySeq
<1>5. Quick!QuickTypeOK
  BY <1>1, <1>2, <1>3, <1>4 DEF Quick!QuickTypeOK, QuickBounds
<1> QED BY <1>1, <1>4, <1>5
        DEF QuickInv, QuickBounds, Mounted, Quick!OnePanel, Quick!OutsideKept

\* What holds of every state of the Quick Ask panels, whatever is asked, edited or closed.
THEOREM QuickInvariance == ASSUME QuickBounds PROVE Quick!QuickSpec => []QuickInv
<1>1. ASSUME QuickInv, [Quick!QuickNext]_Quick!qaVars PROVE QuickInv'
  BY <1>1, QuickKeeps
<1> QED BY <1>1, QuickStarts, PTL DEF Quick!QuickSpec

\* Every variable of the Quick Ask model keeps its type.
THEOREM QuickTypes == ASSUME QuickBounds PROVE Quick!QuickSpec => []Quick!QuickTypeOK
<1>1. QuickInv => Quick!QuickTypeOK
  BY DEF QuickInv
<1> QED BY <1>1, QuickInvariance, PTL

\* Replace never writes over a character that stood outside the selection when the
\* panel opened, however the document was edited since (replaceGuard.ts).
THEOREM OutsideIsKept == ASSUME QuickBounds PROVE Quick!QuickSpec => []Quick!OutsideKept
<1>1. QuickInv => Quick!OutsideKept
  BY DEF QuickInv
<1> QED BY <1>1, QuickInvariance, PTL

\* At most one view shows a panel, and it is the one the controller can close.
THEOREM OnePanelAtATime == ASSUME QuickBounds PROVE Quick!QuickSpec => []Quick!OnePanel
<1>1. QuickInv => Quick!OnePanel
  BY DEF QuickInv
<1> QED BY <1>1, QuickInvariance, PTL

\* The text that streams in comes from the current attempt alone, and what the panel
\* shows is what the next request carries (panel.tsx, attemptReset.ts).
THEOREM PanelShowsTheWire ==
    ASSUME QuickBounds PROVE Quick!QuickSpec => [](Quick!StreamCurrent /\ Quick!WireShown)
<1>1. QuickInv => Quick!StreamCurrent
  BY DEF QuickInv, Conversing, Streamed, Quick!StreamCurrent
<1>2. QuickInv => Quick!WireShown
  BY DEF QuickInv, Conversing, Carried, Quick!WireShown
<1> QED BY <1>1, <1>2, QuickInvariance, PTL

=============================================================================
