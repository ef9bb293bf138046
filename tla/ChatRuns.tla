------------------------------ MODULE ChatRuns ------------------------------
(***************************************************************************)
(* The runs of one chat view (src/ui/ChatApp.tsx): runAgent from its       *)
(* preflight to its finally block, the references the view keeps to the    *)
(* live run (abortRef, loopRef, the running flag), steers, the Stop        *)
(* button, a new conversation, the drain of the prompt queue and the goal  *)
(* loop that judges a finished turn and schedules the next one.            *)
(*                                                                         *)
(* runAgent is asynchronous and nothing stops a second call while one is   *)
(* under way, so every call has a slot of its own.  Object identity        *)
(* (goalRef.current === g, turnsRef.current === ownedTurns, the session id *)
(* at send time) is a flag per slot, cleared by whatever replaces the      *)
(* object.  One run of the loop itself is module AgentLoop.                *)
(***************************************************************************)
EXTENDS Naturals, FiniteSets

CONSTANTS
    Slots,            \* bound: calls of runAgent under way at once
    NoRun,            \* the null of abortRef and loopRef
    MaxQueue,         \* bound: entries in the prompt queue
    MaxSteers,        \* bound: steers pending in one run
    GoalMaxTurns,     \* GOAL_MAX_TURNS
    GoalMaxParse,     \* GOAL_MAX_PARSE_FAILURES
    GoalMaxTransport  \* GOAL_MAX_TRANSPORT_FAILURES

ASSUME BoundsAssumption ==
    /\ NoRun \notin Slots
    /\ MaxQueue \in Nat
    /\ MaxSteers \in Nat
    /\ GoalMaxTurns \in Nat
    /\ GoalMaxParse \in Nat \ {0}
    /\ GoalMaxTransport \in Nat \ {0}

VARIABLES
    stage,      \* how far the call in a slot has come
    aborted,    \* its AbortController.signal.aborted
    sameChat,   \* sessionIdRef.current is still the call's runSessionId
    owned,      \* the judge's stillOwned(): goal and turns not replaced
    inbox,      \* steers pending in its loop
    leftover,   \* result.pendingSteer
    owner,      \* abortRef.current
    loop,       \* loopRef.current
    running,    \* the view's running state
    queue,      \* length of the session's prompt queue
    parked,     \* queueParked
    claims,     \* dispatch claims being saved: the drain effect's, the user's
    goal,       \* goalRef.current
    timer,      \* a goal continuation is scheduled and its identities hold
    continued   \* history: continuations scheduled since the goal was set or resumed

slotVars  == <<stage, aborted, sameChat, owned, inbox, leftover>>
viewVars  == <<owner, loop, running>>
queueVars == <<queue, parked, claims>>
goalVars  == <<goal, timer, continued>>
vars == <<stage, aborted, sameChat, owned, inbox, leftover, owner, loop, running,
          queue, parked, claims, goal, timer, continued>>

Stages    == {"idle", "preflight", "setup", "loop", "settle", "judge", "closing"}
Committed == {"setup", "loop", "settle", "judge", "closing"}
Looping   == {"loop", "settle", "judge", "closing"}
Failures  == {"unparsable", "unreachable"}
Verdicts  == {"done", "wait", "continue"} \cup Failures

NoGoal  == [status |-> "none", used |-> 0, parse |-> 0, transport |-> 0]
NewGoal == [NoGoal EXCEPT !.status = "active"]

\* Continuations that fail open before each verdict that counts, and that one.
GoalStride == GoalMaxParse + GoalMaxTransport - 1

Init ==
    /\ stage    = [r \in Slots |-> "idle"]
    /\ aborted  = [r \in Slots |-> FALSE]
    /\ sameChat = [r \in Slots |-> FALSE]
    /\ owned    = [r \in Slots |-> FALSE]
    /\ inbox    = [r \in Slots |-> 0]
    /\ leftover = [r \in Slots |-> 0]
    /\ owner = NoRun
    /\ loop = NoRun
    /\ running = FALSE
    /\ queue = 0
    /\ parked = FALSE
    /\ claims = {}
    /\ goal = NoGoal
    /\ timer = FALSE
    /\ continued = 0

-----------------------------------------------------------------------------
(* runAgent: the call, its commit and its finally block.                   *)

\* The synchronous head of the call: the session is pinned, the rest awaits
\* vault reads and the vision probe before anything is committed.
Begin(r) ==
    /\ stage'    = [stage EXCEPT ![r] = "preflight"]
    /\ aborted'  = [aborted EXCEPT ![r] = FALSE]
    /\ sameChat' = [sameChat EXCEPT ![r] = TRUE]
    /\ inbox'    = [inbox EXCEPT ![r] = 0]
    /\ leftover' = [leftover EXCEPT ![r] = 0]

\* The call is over and its locals are gone.
Discard(r) ==
    /\ stage'    = [stage EXCEPT ![r] = "idle"]
    /\ aborted'  = [aborted EXCEPT ![r] = FALSE]
    /\ sameChat' = [sameChat EXCEPT ![r] = FALSE]
    /\ inbox'    = [inbox EXCEPT ![r] = 0]
    /\ leftover' = [leftover EXCEPT ![r] = 0]

\* goalRef or turnsRef is replaced: every snapshot of them is stale.
Touch == owned' = [r \in Slots |-> FALSE] /\ timer' = FALSE

\* A changed conversation drops the call, whatever it was to send; else the
\* user turn is pushed and the call takes the view's references over.
Commit(r) ==
    /\ stage[r] = "preflight"
    /\ IF sameChat[r]
       THEN /\ stage' = [stage EXCEPT ![r] = "setup"]
            /\ owner' = r
            /\ running' = TRUE
            /\ Touch
            /\ UNCHANGED <<aborted, sameChat, inbox, leftover>>
       ELSE /\ Discard(r)
            /\ UNCHANGED <<owner, running, owned, timer>>
    /\ UNCHANGED <<loop, queueVars, goal, continued>>

\* Mutant: an interrupted run leaves the view as it is.
ReleaseUninterrupted(r) ==
    IF owner = r /\ ~aborted[r]
    THEN owner' = NoRun /\ loop' = NoRun /\ running' = FALSE
    ELSE UNCHANGED viewVars

\* Mutant: finally clears the view whoever owns it.
ReleaseAlways(r) ==
    /\ owner' = NoRun
    /\ loop' = NoRun
    /\ running' = FALSE

\* Only the controller that still owns the references clears them.
Release(r) ==
    IF owner = r THEN owner' = NoRun /\ loop' = NoRun /\ running' = FALSE
                 ELSE UNCHANGED viewVars

End(r) == Discard(r) /\ Release(r)

SetupDone(r) ==
    /\ stage[r] = "setup"
    /\ stage' = [stage EXCEPT ![r] = "loop"]
    /\ loop' = r
    /\ UNCHANGED <<aborted, sameChat, owned, inbox, leftover, owner, running,
                   queueVars, goalVars>>

\* The catch block shows the error, unless the run was interrupted, and then
\* awaits the save of what the run owns.
Catch(r) ==
    /\ stage' = [stage EXCEPT ![r] = "closing"]
    /\ IF aborted[r] THEN UNCHANGED <<owned, timer>> ELSE Touch

SetupFails(r) ==
    /\ stage[r] = "setup"
    /\ Catch(r)
    /\ UNCHANGED <<aborted, sameChat, inbox, leftover, viewVars, queueVars, goal,
                   continued>>

-----------------------------------------------------------------------------
(* The loop of a committed run, seen from the chat.                        *)

\* The pending steers ride a tool message; the run's turn is patched.
Deliver(r) ==
    /\ stage[r] = "loop"
    /\ ~aborted[r]
    /\ inbox[r] > 0
    /\ inbox' = [inbox EXCEPT ![r] = 0]
    /\ Touch
    /\ UNCHANGED <<stage, aborted, sameChat, leftover, viewVars, queueVars,
                   goal, continued>>

\* Tokens, tool cards and attempt restores patch the run's turn.
Streams(r) ==
    /\ stage[r] = "loop"
    /\ ~aborted[r]
    /\ Touch
    /\ UNCHANGED <<stage, aborted, sameChat, inbox, leftover, viewVars, queueVars,
                   goal, continued>>

\* An interrupted run drops its inbox and is thrown into the catch block.
LoopReturns(r) ==
    /\ stage[r] = "loop"
    /\ stage' = [stage EXCEPT ![r] = IF aborted[r] THEN "closing" ELSE "settle"]
    /\ leftover' = [leftover EXCEPT ![r] = IF aborted[r] THEN 0 ELSE inbox[r]]
    /\ inbox' = [inbox EXCEPT ![r] = 0]
    /\ IF aborted[r] THEN UNCHANGED <<owned, timer>> ELSE Touch
    /\ UNCHANGED <<aborted, sameChat, viewVars, queueVars, goal, continued>>

LoopThrows(r) ==
    /\ stage[r] = "loop"
    /\ Catch(r)
    /\ UNCHANGED <<aborted, sameChat, inbox, leftover, viewVars, queueVars, goal,
                   continued>>

Close(r) ==
    /\ stage[r] = "closing"
    /\ End(r)
    /\ UNCHANGED <<owned, queueVars, goalVars>>

-----------------------------------------------------------------------------
(* After the loop: the session is saved, then the leftover or the goal.    *)

\* The run was interrupted while its session and title were being saved.
SettleInterrupted(r) ==
    /\ stage[r] = "settle"
    /\ aborted[r]
    /\ End(r)
    /\ UNCHANGED <<owned, queueVars, goalVars>>

\* The session could not be saved: the catch block ends the run.
SettleFails(r) ==
    /\ stage[r] = "settle"
    /\ Catch(r)
    /\ UNCHANGED <<aborted, sameChat, inbox, leftover, viewVars, queueVars, goal,
                   continued>>

\* The leftover steer is sent as the next turn, once finally has released the
\* view, unless the conversation changed meanwhile.
SettleLeftover(r) ==
    /\ stage[r] = "settle"
    /\ ~aborted[r] /\ leftover[r] > 0
    /\ Release(r)
    /\ Touch
    /\ IF sameChat[r] THEN Begin(r) ELSE Discard(r)
    /\ UNCHANGED <<queueVars, goal, continued>>

SettleNoGoal(r) ==
    /\ stage[r] = "settle"
    /\ ~aborted[r] /\ leftover[r] = 0
    /\ goal.status # "active"
    /\ End(r)
    /\ UNCHANGED <<owned, queueVars, goalVars>>

SettleBudgetSpent(r) ==
    /\ stage[r] = "settle"
    /\ ~aborted[r] /\ leftover[r] = 0
    /\ goal.status = "active" /\ goal.used >= GoalMaxTurns
    /\ goal' = [goal EXCEPT !.status = "paused"]
    /\ End(r)
    /\ Touch
    /\ UNCHANGED <<queueVars, continued>>

\* Mutant: the budget check lets one turn too many be judged.
SettleJudgesPastBudget(r) ==
    /\ stage[r] = "settle"
    /\ ~aborted[r] /\ leftover[r] = 0
    /\ goal.status = "active" /\ goal.used <= GoalMaxTurns
    /\ stage' = [stage EXCEPT ![r] = "judge"]
    /\ owned' = [owned EXCEPT ![r] = TRUE]
    /\ UNCHANGED <<aborted, sameChat, inbox, leftover, viewVars, queueVars, goalVars>>

SettleJudges(r) ==
    /\ stage[r] = "settle"
    /\ ~aborted[r] /\ leftover[r] = 0
    /\ goal.status = "active" /\ goal.used < GoalMaxTurns
    /\ stage' = [stage EXCEPT ![r] = "judge"]
    /\ owned' = [owned EXCEPT ![r] = TRUE]
    /\ UNCHANGED <<aborted, sameChat, inbox, leftover, viewVars, queueVars, goalVars>>

\* Mutant: an unusable verdict does not count against the judge.
JudgedForgiving(v) ==
    CASE v = "done" -> [goal EXCEPT !.status = "done", !.parse = 0, !.transport = 0]
      [] v = "wait" -> [goal EXCEPT !.status = "paused"]
      [] v = "continue" -> [goal EXCEPT !.used = @ + 1, !.parse = 0, !.transport = 0]
      [] OTHER -> goal

\* A failure count, which matters only up to the count that pauses the goal.
Failed(n, max) == IF n < max THEN n + 1 ELSE max

\* The goal a verdict leaves: a failing judge fails open until it has failed
\* too often, and only a usable "continue" spends a turn of the budget.
Judged(v) ==
    CASE v = "done" -> [goal EXCEPT !.status = "done", !.parse = 0, !.transport = 0]
      [] v = "wait" -> [goal EXCEPT !.status = "paused"]
      [] v = "continue" -> [goal EXCEPT !.used = @ + 1, !.parse = 0, !.transport = 0]
      [] v \in Failures ->
            LET parse     == IF v = "unparsable"
                             THEN Failed(goal.parse, GoalMaxParse) ELSE goal.parse
                transport == IF v = "unreachable"
                             THEN Failed(goal.transport, GoalMaxTransport) ELSE goal.transport
                broken    == parse >= GoalMaxParse \/ transport >= GoalMaxTransport
            IN  [goal EXCEPT !.parse = parse, !.transport = transport,
                             !.status = IF broken THEN "paused" ELSE "active"]

\* Mutant: the verdict is applied to whatever the chat holds by now.
JudgeEndsUnowned(r, v) ==
    /\ stage[r] = "judge"
    /\ End(r)
    /\ goal' = Judged(v)
    /\ owned' = [s \in Slots |-> FALSE]
    /\ timer' = (goal'.status = "active")
    /\ continued' = IF timer' THEN continued + 1 ELSE continued
    /\ UNCHANGED queueVars

\* The judge answered or failed.  Its verdict counts only if neither goal nor
\* turns were replaced meanwhile; a goal left active gets a continuation.
JudgeEnds(r, v) ==
    /\ stage[r] = "judge"
    /\ End(r)
    /\ IF aborted[r] \/ ~owned[r]
       THEN owned' = [owned EXCEPT ![r] = FALSE] /\ UNCHANGED goalVars
       ELSE /\ goal' = Judged(v)
            /\ owned' = [s \in Slots |-> FALSE]
            /\ timer' = (goal'.status = "active")
            /\ continued' = IF timer' THEN continued + 1 ELSE continued
    /\ UNCHANGED queueVars

\* The scheduled continuation finds its goal and turns unchanged.
TimerFires(r) ==
    /\ timer
    /\ stage[r] = "idle"
    /\ timer' = FALSE
    /\ Begin(r)
    /\ UNCHANGED <<owned, viewVars, queueVars, goal, continued>>

-----------------------------------------------------------------------------
(* The user, and the effect that drains the queue.                         *)

UserSends(r) ==
    /\ ~running
    /\ stage[r] = "idle"
    /\ Begin(r)
    /\ UNCHANGED <<owned, viewVars, queueVars, goalVars>>

\* Enter while the agent is working, or /queue at any time, queues the prompt
\* and lifts a park.
UserQueues ==
    /\ queue < MaxQueue
    /\ queue' = queue + 1
    /\ parked' = FALSE
    /\ UNCHANGED <<slotVars, viewVars, claims, goalVars>>

\* /steer and the trajectory panel: the text goes to loopRef's inbox and a
\* notice turn is pushed, even if that loop is one nobody runs any more.
UserSteers ==
    /\ running
    /\ loop # NoRun
    /\ IF stage[loop] \in Looping
       THEN /\ inbox[loop] < MaxSteers
            /\ inbox' = [inbox EXCEPT ![loop] = @ + 1]
       ELSE UNCHANGED inbox
    /\ Touch
    /\ UNCHANGED <<stage, aborted, sameChat, leftover, viewVars, queueVars, goal,
                   continued>>

\* /steer before the run has its loop is an ordinary turn, on top of the run.
SteerWithoutLoop(r) ==
    /\ running /\ loop = NoRun
    /\ stage[r] = "idle"
    /\ Begin(r)
    /\ UNCHANGED <<owned, viewVars, queueVars, goalVars>>

AbortOwner ==
    aborted' = [r \in Slots |-> IF r = owner THEN TRUE ELSE aborted[r]]

UserStops ==
    /\ running
    /\ AbortOwner
    /\ parked' = TRUE
    /\ UNCHANGED <<stage, sameChat, owned, inbox, leftover, viewVars, queue,
                   claims, goalVars>>

\* "Send" on a queued row while the agent is working: the order is committed,
\* the park lifted, then the run stopped.
UserSendsNow ==
    /\ running
    /\ queue > 0
    /\ AbortOwner
    /\ parked' = FALSE
    /\ UNCHANGED <<stage, sameChat, owned, inbox, leftover, viewVars, queue,
                   claims, goalVars>>

\* A new conversation stops the run and leaves the old queue to its session.
NewConversation ==
    /\ AbortOwner
    /\ sameChat' = [r \in Slots |-> FALSE]
    /\ goal' = NoGoal
    /\ continued' = 0
    /\ Touch
    /\ queue' = 0
    /\ parked' = FALSE
    /\ claims' = {}
    /\ UNCHANGED <<stage, inbox, leftover, viewVars>>

SetGoal(r) ==
    /\ ~running
    /\ stage[r] = "idle"
    /\ goal' = NewGoal
    /\ continued' = 0
    /\ Touch
    /\ Begin(r)
    /\ UNCHANGED <<viewVars, queueVars>>

PauseGoal ==
    /\ ~running
    /\ goal.status = "active"
    /\ goal' = [goal EXCEPT !.status = "paused"]
    /\ Touch
    /\ UNCHANGED <<stage, aborted, sameChat, inbox, leftover, viewVars, queueVars,
                   continued>>

ClearGoal ==
    /\ ~running
    /\ goal # NoGoal
    /\ goal' = NoGoal
    /\ continued' = 0
    /\ Touch
    /\ UNCHANGED <<stage, aborted, sameChat, inbox, leftover, viewVars, queueVars>>

\* /goal resume keeps the counters.
ResumeGoal(r) ==
    /\ ~running
    /\ stage[r] = "idle"
    /\ goal.status \in {"paused", "done"}
    /\ goal' = [goal EXCEPT !.status = "active"]
    /\ continued' = 0
    /\ Touch
    /\ Begin(r)
    /\ UNCHANGED <<viewVars, queueVars>>

\* shouldAutoDrain: idle, not parked, something queued, nothing being saved.
Drain ==
    /\ ~running /\ ~parked /\ queue > 0 /\ claims = {}
    /\ claims' = {"drain"}
    /\ UNCHANGED <<slotVars, viewVars, queue, parked, goalVars>>

\* Enter on an empty composer, or "send" on a row, while idle.
UserDrains ==
    /\ ~running /\ queue > 0 /\ "user" \notin claims
    /\ claims' = claims \cup {"user"}
    /\ parked' = FALSE
    /\ UNCHANGED <<slotVars, viewVars, queue, goalVars>>

\* The claim is saved: the entry has left the queue and is sent.  With the
\* entry gone already, claimed by the other one, nothing is sent.
ClaimSaved(c, r) ==
    /\ c \in claims
    /\ stage[r] = "idle"
    /\ claims' = claims \ {c}
    /\ IF queue > 0
       THEN queue' = queue - 1 /\ Begin(r)
       ELSE UNCHANGED <<queue, stage, aborted, sameChat, inbox, leftover>>
    /\ parked' = (parked /\ queue > 1)
    /\ UNCHANGED <<owned, viewVars, goalVars>>

\* The save failed: the queue is restored and parked.
ClaimFails(c) ==
    /\ c \in claims
    /\ claims' = claims \ {c}
    /\ parked' = TRUE
    /\ UNCHANGED <<slotVars, viewVars, queue, goalVars>>

-----------------------------------------------------------------------------
RunStep(r) ==
    \/ Commit(r) \/ SetupDone(r) \/ SetupFails(r)
    \/ Deliver(r) \/ Streams(r) \/ LoopReturns(r) \/ LoopThrows(r) \/ Close(r)
    \/ SettleInterrupted(r) \/ SettleFails(r) \/ SettleLeftover(r)
    \/ SettleNoGoal(r) \/ SettleBudgetSpent(r) \/ SettleJudges(r)
    \/ \E v \in Verdicts : JudgeEnds(r, v)

ClaimStep == \E c \in claims : ClaimFails(c) \/ \E r \in Slots : ClaimSaved(c, r)

UserStep ==
    \/ \E r \in Slots : UserSends(r) \/ SteerWithoutLoop(r) \/ SetGoal(r) \/ ResumeGoal(r)
    \/ UserQueues \/ UserSteers \/ UserStops \/ UserSendsNow
    \/ NewConversation \/ PauseGoal \/ ClearGoal \/ UserDrains

Next ==
    \/ \E r \in Slots : RunStep(r) \/ TimerFires(r)
    \/ Drain \/ ClaimStep \/ UserStep

Spec == Init /\ [][Next]_vars

\* Every await of a run ends (requests time out, saves complete, a card is
\* answered or times out) and its loop does (AgentLoop's Terminates), however
\* often it is steered; a zero-delay timer fires; the drain effect runs after
\* every render, so it cannot miss every idle period.
FairSpec ==
    /\ Spec
    /\ \A r \in Slots : WF_vars(RunStep(r)) /\ WF_vars(LoopReturns(r) \/ LoopThrows(r))
    /\ WF_vars(\E r \in Slots : TimerFires(r))
    /\ WF_vars(ClaimStep)
    /\ SF_vars(Drain)
-----------------------------------------------------------------------------
(* Properties.                                                             *)

\* Type invariant of the view's state.
TypeOK ==
    /\ stage \in [Slots -> Stages]
    /\ aborted \in [Slots -> BOOLEAN]
    /\ sameChat \in [Slots -> BOOLEAN]
    /\ owned \in [Slots -> BOOLEAN]
    /\ inbox \in [Slots -> 0 .. MaxSteers]
    /\ leftover \in [Slots -> 0 .. MaxSteers]
    /\ owner \in Slots \cup {NoRun}
    /\ loop \in Slots \cup {NoRun}
    /\ running \in BOOLEAN
    /\ queue \in 0 .. MaxQueue
    /\ parked \in BOOLEAN
    /\ claims \subseteq {"drain", "user"}
    /\ goal \in [status : {"none", "active", "paused", "done"}, used : 0 .. GoalMaxTurns,
                 parse : 0 .. GoalMaxParse, transport : 0 .. GoalMaxTransport]
    /\ timer \in BOOLEAN
    /\ continued \in Nat

\* While the view shows a run, the Stop button has one to reach: the owner is
\* set and is a committed run that has not gone through its finally block.
StopReaches == running => owner # NoRun /\ stage[owner] \in Committed

\* A run keeps the view until its own finally block or the commit of a newer
\* run, whatever other runs end meanwhile: a late old run never clears the
\* Stop button, the approval card or the running flag of its replacement.
OwnershipKept ==
    [][\A r \in Slots :
        owner = r /\ stage[r] \in Committed /\ stage'[r] \in Committed =>
            /\ running'
            /\ owner' # r => owner' \in Slots /\ stage[owner'] = "preflight"]_vars

\* Once interrupted, a run has no further effect on the chat's future: it
\* neither moves the goal nor schedules a continuation nor sends a leftover.
InterruptedRunSilent ==
    [][\A r \in Slots :
        aborted[r] /\ stage[r] \in Committed /\ stage'[r] # stage[r] =>
            goal' = goal /\ (timer' => timer) /\ stage'[r] # "preflight"]_vars

\* The goal loop runs dry by itself: since a judge failure fails open without
\* spending a turn, the continuations of one goal are bounded by the budget
\* times the failures each counted turn can hide, not by the budget.
GoalBackstop == continued <= GoalMaxTurns * GoalStride

\* A queued prompt is not forgotten: unless the user holds the queue back, it
\* is claimed for dispatch (or leaves with its conversation).  Steering for
\* ever starves it: steers start turns of their own, as leftovers or before the run
\* has its loop, and two overlapping runs then keep the view running for ever.
QueueDrains ==
    \/ []<><<UserSteers \/ \E r \in Slots : SteerWithoutLoop(r)>>_vars
    \/ queue > 0 ~> parked \/ queue = 0 \/ claims # {}
=============================================================================
