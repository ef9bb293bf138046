-------------------------- MODULE AgentLoopProofs --------------------------
(***************************************************************************)
(* TLAPS proofs about AgentLoop, for every set of tools and operations and *)
(* every bound: the type invariant, that no gated tool call runs without   *)
(* the user's decision, that retries and the failover keep the transcript  *)
(* and the connection right, and that an interrupt stops the loop.  Then   *)
(* about two parts the tools of the loop reach, for any instance of each:  *)
(*   - SkillsHub: its types, that what the lock file calls up to date is   *)
(*     on disk, and that a disabled button has a flow;                     *)
(*   - EngineMemory: its types, that the caps hold and drop nothing just   *)
(*     learnt, and that the mark of a consolidation is written last.       *)
(***************************************************************************)
EXTENDS AgentLoop, Integers, FiniteSetTheorems, SequenceTheorems, TLAPS

CONSTANTS
    None, Folders,
    Flows, Taps, Builtin, Skills, TapOf, SlugOf, Parts, Verdict, MaxFlows, MaxEvents,        \* of SkillsHub
    Workers, Keys, Threats, EveryN, MaxFacts, MaxObs, DueAt, RecallMax, MaxTurns, MaxMoves   \* of EngineMemory

VARIABLES
    remote, taps, listings, entries, loads, installed, busy, flow, home, disk, lock, mixed, started, events,
    work, turns, tick, recalled, moves, wrote

Hub == INSTANCE SkillsHub WITH cache <- listings, folder <- home
Eng == INSTANCE EngineMemory WITH folder <- home, job <- work, now <- tick, Jobs <- Workers

CallPcs == {"call", "toolPrepare", "gate", "approval", "revalidate", "execute"}
ToolPcs == CallPcs \ {"call"}

\* While a batch is being executed, call points into it, and past the lookup
\* the call names a registered tool.
CallInv ==
    /\ pc \in CallPcs => call \in 1 .. Len(batch)
    /\ pc \in ToolPcs => CurOp \in Ops

Typed == TypeOK /\ CallInv

LEMMA OpFields ==
    ASSUME NEW op \in Ops
    PROVE  /\ op.tool \in Tools /\ op.kind \in Kinds
           /\ op.force \in BOOLEAN /\ op.always \in BOOLEAN
           /\ op.prepare \in BOOLEAN /\ op.revalidate \in BOOLEAN
BY OpsAssumption DEF OpType

\* Pushing the current call's tool message keeps the types.
LEMMA AnswerTyped ==
    ASSUME Typed, pc \in CallPcs, NEW text \in BOOLEAN, Answer(text)
    PROVE  /\ wire' \in Seq(Messages)
           /\ pc' \in {"returned", "iterate", "call"}
           /\ pc' = "call" => call' \in 1 .. Len(batch')
           /\ call' \in Nat \ {0}
           /\ aborted' \in BOOLEAN
           /\ inbox' \in Seq(Nat) /\ sent' = sent
           /\ delivered' = delivered /\ leftover' \in Seq(Nat)
           /\ UNCHANGED <<envVars, signal, iterations, connVars, batch>>
<1>1. call \in 1 .. Len(batch) /\ Len(batch) \in 0 .. MaxBatch
  BY BoundsAssumption DEF Typed, CallInv, TypeOK
<1>2. ToolMsg(call, text) \in Messages
  BY <1>1, BoundsAssumption DEF ToolMsg, Messages
<1>3. wire' \in Seq(Messages)
  BY <1>2 DEF Answer, Typed, TypeOK
<1>4. CASE signal
  BY <1>1, <1>3, <1>4 DEF Answer, Return, Typed, TypeOK, envVars, connVars
<1>5. CASE ~signal
  BY <1>1, <1>3, <1>5 DEF Answer, Typed, TypeOK, envVars, connVars, steerVars
<1> QED BY <1>4, <1>5

\* The tail of the gate keeps the types, whatever grants it is handed.
LEMMA PassTyped ==
    ASSUME Typed, pc \in ToolPcs,
           NEW allow, allow \subseteq Tools \X Kinds,
           NEW log, log \subseteq [id : (Nat \X Nat), op : Ops, decision : Decisions],
           PassAbortCheck(allow, log)
    PROVE  Typed'
<1> USE DEF Typed
<1>1. /\ CurOp \in Ops /\ CallId \in Nat \X Nat
      /\ call \in 1 .. Len(batch)
  BY DEF CallInv, ToolPcs, CallPcs, TypeOK, CallId
<1>2. [id |-> CallId, op |-> CurOp] \in [id : (Nat \X Nat), op : Ops]
  BY <1>1
<1>3. CASE signal
  <2>1. Answer(TRUE) /\ UNCHANGED ran /\ allowlist' = allow /\ answers' = log
    BY <1>3 DEF PassAbortCheck
  <2>2. pc \in CallPcs
    BY DEF ToolPcs
  <2> QED BY <2>1, <2>2, AnswerTyped
          DEF TypeOK, CallInv, CallPcs, ToolPcs, CurOp, Finished, Running, envVars, connVars
<1>4. CASE ~signal
  BY <1>1, <1>2, <1>4, OpFields, SMTT(20)
  DEF PassAbortCheck, TypeOK, CallInv, CallPcs, ToolPcs, CurOp, Awaits, envVars, connVars, steerVars
<1> QED BY <1>3, <1>4

\* The inductive invariant of the types.
LEMMA InitTyped == Init => Typed
<1> SUFFICES ASSUME Init PROVE Typed
  OBVIOUS
<1>1. TypeOK
  <2>1. <<>> \in Seq(Messages) /\ <<>> \in Seq(Calls) /\ <<>> \in Seq(Nat) /\ Len(<<>>) = 0
    OBVIOUS
  <2>2. histTool \in BOOLEAN
    BY DEF Init
  <2>3. Len(batch) <= MaxBatch
    BY <2>1, BoundsAssumption DEF Init
  <2>4. /\ pc \in Awaits \cup Running \cup Finished
        /\ mode \in Modes
        /\ signal \in BOOLEAN /\ aborted \in BOOLEAN
        /\ failoverUsed \in BOOLEAN /\ buffered \in BOOLEAN /\ partial \in BOOLEAN
    BY DEF Init, Running
  <2>5. /\ iterations \in 0 .. MaxIterations /\ sent \in 0 .. MaxSteers
        /\ conn \in 0 .. 1 /\ turnConn \in 0 .. 1 /\ retryAttempt \in 0 .. 2
        /\ call \in Nat \ {0}
    BY BoundsAssumption DEF Init
  <2>6. /\ wire \in Seq(Messages) /\ batch \in Seq(Calls)
        /\ inbox \in Seq(Nat) /\ delivered \in Seq(Nat) /\ leftover \in Seq(Nat)
    BY <2>1 DEF Init
  <2>7. /\ allowlist \subseteq Tools \X Kinds
        /\ answers \subseteq [id : (Nat \X Nat), op : Ops, decision : Decisions]
        /\ ran \subseteq [id : (Nat \X Nat), op : Ops]
    BY DEF Init
  <2> QED BY <2>2, <2>3, <2>4, <2>5, <2>6, <2>7 DEF TypeOK
<1>2. CallInv
  BY DEF Init, CallInv, CallPcs, ToolPcs
<1> QED BY <1>1, <1>2 DEF Typed

LEMMA StepTyped == Typed /\ [Next]_vars => Typed'
<1> SUFFICES ASSUME Typed, [Next]_vars PROVE Typed'
  OBVIOUS
<1> USE BoundsAssumption DEF Typed
<1>1. CASE StopAtTop
  BY <1>1 DEF StopAtTop, Return, TypeOK, CallInv, CallPcs, ToolPcs, Finished,
              envVars, connVars, grantVars
<1>2. CASE Iterate
  <2>1. /\ inbox' \in Seq(Nat) /\ delivered' \in Seq(Nat) /\ leftover' \in Seq(Nat)
        /\ sent' = sent
    <3>1. CASE inbox # <<>> /\ CanRide
      <4>1. delivered' = delivered \o inbox /\ inbox' = <<>> /\ UNCHANGED <<sent, leftover>>
        BY <1>2, <3>1, Zenon DEF Iterate, DrainSteer
      <4> QED BY <4>1 DEF TypeOK
    <3>2. CASE ~(inbox # <<>> /\ CanRide)
      BY <1>2, <3>2 DEF Iterate, DrainSteer, TypeOK, steerVars
    <3> QED BY <3>1, <3>2
  <2>2. pc' \in {"prepare", "attempt"} /\ conn' \in 0 .. 1 /\ iterations' \in 0 .. MaxIterations
    BY <1>2 DEF Iterate, TypeOK
  <2> QED BY <1>2, <2>1, <2>2
      DEF Iterate, TypeOK, CallInv, CallPcs, ToolPcs, Running, Awaits, envVars, grantVars
<1>3. CASE Prepared
  <2>1. CASE signal
    BY <1>3, <2>1 DEF Prepared, Return, TypeOK, CallInv, CallPcs, ToolPcs, Finished,
                      envVars, connVars, grantVars
  <2>2. CASE ~signal
    BY <1>3, <2>2 DEF Prepared, TypeOK, CallInv, CallPcs, ToolPcs, Running,
                      envVars, connVars, steerVars, grantVars
  <2> QED BY <2>1, <2>2
<1>4. CASE PrepareFails
  BY <1>4 DEF PrepareFails, Throw, DropLoop, TypeOK, CallInv, CallPcs, ToolPcs, Finished,
              envVars, connVars, steerVars, grantVars
<1>5. CASE AttemptStart
  BY <1>5 DEF AttemptStart, TypeOK, CallInv, CallPcs, ToolPcs, Awaits,
              envVars, steerVars, grantVars
<1>6. CASE BackoffEnds
  BY <1>6 DEF BackoffEnds, TypeOK, CallInv, CallPcs, ToolPcs, Running,
              envVars, connVars, steerVars, grantVars
<1>7. CASE \E calls \in Batches : Reply(calls)
  <2>1. PICK calls \in Batches : Reply(calls)
    BY <1>7
  <2>2. PICK n \in 0 .. MaxBatch : calls \in [1 .. n -> Calls]
    BY <2>1 DEF Batches
  <2>3. calls \in Seq(Calls) /\ Len(calls) = n
    BY <2>2
  <2>4. Assistant(Len(calls)) \in Messages
    BY <2>3 DEF Assistant, Messages
  <2>5. /\ wire' \in Seq(Messages) /\ partial' \in BOOLEAN
        /\ batch' \in Seq(Calls) /\ Len(batch') <= MaxBatch
        /\ call' \in Nat \ {0}
    <3>1. /\ wire' = Append(wire, Assistant(Len(calls)))
          /\ partial' = FALSE /\ batch' = calls /\ call' = 1
      BY <2>1 DEF Reply
    <3>2. wire' \in Seq(Messages)
      BY <3>1, <2>4 DEF TypeOK
    <3>3. batch' \in Seq(Calls) /\ Len(batch') <= MaxBatch
      BY <3>1, <2>2, <2>3
    <3>4. partial' \in BOOLEAN
      BY <3>1, Zenon
    <3>5. call' \in Nat \ {0}
      BY <3>1
    <3> QED BY <3>2, <3>3, <3>4, <3>5
  <2>6. /\ call' = 1 /\ batch' = calls
        /\ UNCHANGED <<envVars, signal, iterations, conn, turnConn, failoverUsed,
                       retryAttempt, buffered, grantVars>>
    BY <2>1 DEF Reply
  <2>7. /\ mode' \in Modes /\ histTool' \in BOOLEAN /\ signal' \in BOOLEAN
        /\ iterations' \in 0 .. MaxIterations
        /\ conn' \in 0 .. 1 /\ turnConn' \in 0 .. 1
        /\ failoverUsed' \in BOOLEAN /\ buffered' \in BOOLEAN
        /\ retryAttempt' \in 0 .. 2
        /\ allowlist' \subseteq Tools \X Kinds
        /\ answers' \subseteq [id : (Nat \X Nat), op : Ops, decision : Decisions]
        /\ ran' \subseteq [id : (Nat \X Nat), op : Ops]
    BY <2>6 DEF TypeOK, envVars, grantVars
  <2>8. CASE calls = <<>>
    <3>1. pc' = "returned" /\ aborted' \in BOOLEAN /\ inbox' = <<>> /\ leftover' = inbox
          /\ UNCHANGED <<sent, delivered>>
      BY <2>1, <2>8 DEF Reply, Return
    <3>2. inbox' \in Seq(Nat) /\ leftover' \in Seq(Nat) /\ delivered' \in Seq(Nat)
      BY <3>1 DEF TypeOK
    <3>3. TypeOK'
      BY <2>5, <2>7, <3>1, <3>2 DEF TypeOK, Finished
    <3>4. CallInv'
      BY <3>1 DEF CallInv, CallPcs, ToolPcs
    <3> QED BY <3>3, <3>4
  <2>9. CASE calls # <<>>
    <3>1. pc' = "call" /\ UNCHANGED <<aborted, steerVars>>
      BY <2>1, <2>9 DEF Reply
    <3>2. Len(calls) >= 1
      BY <2>3, <2>9
    <3>3. Len(batch') >= 1
      BY <3>2, <2>6
    <3>4. TypeOK'
      BY <2>5, <2>7, <3>1 DEF TypeOK, Running, steerVars
    <3>5. CallInv'
      BY <2>5, <2>6, <3>1, <3>3 DEF CallInv, CallPcs, ToolPcs
    <3> QED BY <3>4, <3>5
  <2> QED BY <2>8, <2>9
<1>8. CASE \E kind \in ErrorKinds : RequestFails(kind)
  <2>1. PICK kind \in ErrorKinds : RequestFails(kind)
    BY <1>8
  <2>2. MaxAttempts(kind) \in 1 .. 3
    BY DEF MaxAttempts, ErrorKinds
  <2>3. partial' \in BOOLEAN
    BY <2>1 DEF RequestFails, Discarded, TypeOK
  <2>4. /\ pc' \in {"backoff", "attempt", "threw"}
        /\ retryAttempt' \in 0 .. 2
        /\ conn' \in 0 .. 1 /\ turnConn' \in 0 .. 1 /\ failoverUsed' \in BOOLEAN
        /\ inbox' \in Seq(Nat)
        /\ UNCHANGED <<aborted, sent, delivered, leftover>>
    <3>1. CASE CanRetry(kind)
      BY <2>1, <2>2, <3>1 DEF RequestFails, CanRetry, CanFailover, TypeOK, steerVars
    <3>2. CASE CanFailover(kind)
      <4>1. /\ pc' = "attempt" /\ retryAttempt' = 0 /\ failoverUsed' = TRUE /\ conn' = 1
            /\ turnConn' = IF UseMoa THEN turnConn ELSE 1
            /\ UNCHANGED <<aborted, steerVars>>
        BY <2>1, <3>2, Zenon DEF RequestFails, CanFailover
      <4>2. turnConn' \in 0 .. 1 /\ inbox' \in Seq(Nat)
        BY <4>1 DEF TypeOK, steerVars
      <4> QED BY <4>1, <4>2 DEF steerVars
    <3>3. CASE ~CanRetry(kind) /\ ~CanFailover(kind)
      <4>1. Throw /\ UNCHANGED <<conn, turnConn, failoverUsed, retryAttempt>>
        BY <2>1, <3>3, Zenon DEF RequestFails
      <4>2. <<>> \in Seq(Nat)
        OBVIOUS
      <4>3. /\ retryAttempt \in 0 .. 2 /\ conn \in 0 .. 1 /\ turnConn \in 0 .. 1
            /\ failoverUsed \in BOOLEAN
        BY DEF TypeOK
      <4> QED BY <4>1, <4>2, <4>3 DEF Throw, DropLoop
    <3> QED BY <3>1, <3>2, <3>3
  <2> QED BY <2>1, <2>3, <2>4
    DEF RequestFails, TypeOK, CallInv, CallPcs, ToolPcs, Awaits, Running, Finished,
        envVars, grantVars
<1>9. CASE CallUnknown
  <2>1. pc \in CallPcs /\ Answer(TRUE) /\ UNCHANGED grantVars
    BY <1>9 DEF CallUnknown, CallPcs
  <2> QED BY <2>1, AnswerTyped
      DEF TypeOK, CallInv, CallPcs, ToolPcs, Finished, Running, envVars, connVars, grantVars
<1>10. CASE CallTool
  BY <1>10, OpFields
  DEF CallTool, TypeOK, CallInv, CallPcs, ToolPcs, CurOp, Calls, Awaits, Running,
      envVars, connVars, steerVars, grantVars
<1>11. CASE ToolPrepared
  BY <1>11 DEF ToolPrepared, TypeOK, CallInv, CallPcs, ToolPcs, CurOp, Running,
               envVars, connVars, steerVars, grantVars
<1>12. CASE ToolPrepareThrows
  <2>1. pc \in CallPcs /\ Answer(TRUE) /\ UNCHANGED grantVars
    BY <1>12 DEF ToolPrepareThrows, CallPcs
  <2> QED BY <2>1, AnswerTyped
      DEF TypeOK, CallInv, CallPcs, ToolPcs, Finished, Running, envVars, connVars, grantVars
<1>13. CASE GateAsks
  BY <1>13 DEF GateAsks, TypeOK, CallInv, CallPcs, ToolPcs, CurOp, Awaits,
               envVars, connVars, steerVars, grantVars
<1>14. CASE GatePasses
  <2>1. pc \in ToolPcs /\ PassAbortCheck(allowlist, answers)
    BY <1>14 DEF GatePasses, ToolPcs, CallPcs
  <2> QED BY <2>1, PassTyped DEF TypeOK
<1>15. CASE \E d \in Decisions : Decide(d)
  <2>1. PICK d \in Decisions : Decide(d)
    BY <1>15
  <2> DEFINE log   == answers \cup {[id |-> CallId, op |-> CurOp, decision |-> d]}
             grant == IF d = "allow-always" THEN {<<CurOp.tool, CurOp.kind>>} ELSE {}
  <2>2. pc \in ToolPcs /\ pc \in CallPcs
    BY <2>1 DEF Decide, ToolPcs, CallPcs
  <2>3. CurOp \in Ops /\ CallId \in Nat \X Nat
    BY <2>2 DEF CallInv, ToolPcs, CallPcs, TypeOK, CallId
  <2>4. log \subseteq [id : (Nat \X Nat), op : Ops, decision : Decisions]
    BY <2>3 DEF TypeOK
  <2>5. (allowlist \cup grant) \subseteq Tools \X Kinds
    BY <2>3, OpFields DEF TypeOK
  <2>6. CASE d = "deny" \/ (d = "allow-always" /\ ~CurOp.always)
    <3>1. Answer(TRUE) /\ answers' = log /\ UNCHANGED <<allowlist, ran>>
      BY <2>1, <2>6 DEF Decide
    <3>2. answers' \subseteq [id : (Nat \X Nat), op : Ops, decision : Decisions]
      BY <3>1, <2>4
    <3> HIDE DEF log
    <3> QED BY <3>1, <3>2, <2>2, AnswerTyped
        DEF TypeOK, CallInv, CallPcs, ToolPcs, Finished, Running, envVars, connVars
  <2>7. CASE ~(d = "deny" \/ (d = "allow-always" /\ ~CurOp.always))
    <3>1. PassAbortCheck(allowlist \cup grant, log)
      BY <2>1, <2>7 DEF Decide
    <3> HIDE DEF log, grant
    <3> QED BY <3>1, <2>2, <2>4, <2>5, PassTyped
  <2> QED BY <2>6, <2>7
<1>16. CASE RevalidateOk
  <2>1. CurOp \in Ops /\ CallId \in Nat \X Nat
    BY <1>16 DEF RevalidateOk, CallInv, ToolPcs, CallPcs, TypeOK, CallId
  <2>2. ran' \subseteq [id : (Nat \X Nat), op : Ops]
    BY <1>16, <2>1 DEF RevalidateOk, TypeOK
  <2> QED BY <1>16, <2>2
      DEF RevalidateOk, TypeOK, CallInv, CallPcs, ToolPcs, CurOp, Awaits,
          envVars, connVars, steerVars
<1>17. CASE RevalidateStale
  <2>1. pc \in CallPcs /\ Answer(TRUE) /\ UNCHANGED grantVars
    BY <1>17 DEF RevalidateStale, CallPcs
  <2> QED BY <2>1, AnswerTyped
      DEF TypeOK, CallInv, CallPcs, ToolPcs, Finished, Running, envVars, connVars, grantVars
<1>18. CASE \E text \in BOOLEAN : ToolDone(text)
  <2>1. PICK text \in BOOLEAN : pc \in CallPcs /\ Answer(text) /\ UNCHANGED grantVars
    BY <1>18 DEF ToolDone, CallPcs
  <2> QED BY <2>1, AnswerTyped
      DEF TypeOK, CallInv, CallPcs, ToolPcs, Finished, Running, envVars, connVars, grantVars
<1>19. CASE Token
  BY <1>19 DEF Token, TypeOK, CallInv, CallPcs, ToolPcs, CurOp, envVars, steerVars, grantVars
<1>20. CASE StreamReset
  BY <1>20 DEF StreamReset, Discarded, TypeOK, CallInv, CallPcs, ToolPcs, CurOp,
               envVars, steerVars, grantVars
<1>21. CASE Steer
  BY <1>21 DEF Steer, TypeOK, CallInv, CallPcs, ToolPcs, CurOp, envVars, connVars, grantVars
<1>22. CASE Interrupt
  BY <1>22 DEF Interrupt, TypeOK, CallInv, CallPcs, ToolPcs, CurOp,
               envVars, connVars, steerVars, grantVars
<1>23. CASE UNCHANGED vars
  BY <1>23 DEF vars, TypeOK, CallInv, CallPcs, ToolPcs, CurOp
<1> QED BY <1>1, <1>2, <1>3, <1>4, <1>5, <1>6, <1>7, <1>8, <1>9, <1>10, <1>11, <1>12,
           <1>13, <1>14, <1>15, <1>16, <1>17, <1>18, <1>19, <1>20, <1>21, <1>22, <1>23
        DEF Next, LoopStep, Ended

\* Every reachable state of the loop is of the declared types.
THEOREM TypeCorrect == Spec => []TypeOK
<1>1. Spec => []Typed
  BY InitTyped, StepTyped, PTL DEF Spec
<1> QED BY <1>1, PTL DEF Typed

-----------------------------------------------------------------------------
(* The approval gate.                                                      *)

\* Every grant in the allowlist goes back to an "always" the tool accepts,
\* and a call waiting in revalidate() has been allowed already: what
\* NoUnapprovedRun needs to hold when RevalidateOk or the gate runs the call.
Allowed(r) == MustAsk(r.op) => AllowedCall(r) \/ (~r.op.force /\ AllowedAlways(r))

GrantInv ==
    \A t \in Tools, k \in Kinds : <<t, k>> \in allowlist =>
        \E a \in answers : /\ a.op.tool = t /\ a.op.kind = k
                           /\ a.decision = "allow-always" /\ a.op.always

PendingInv == pc = "revalidate" => Allowed([id |-> CallId, op |-> CurOp])

GateInv == GrantInv /\ PendingInv /\ NoUnapprovedRun

\* Allowed, grants and runs survive as long as no answer is forgotten.
LEMMA AllowedMono ==
    ASSUME NEW r, Allowed(r), answers \subseteq answers', UNCHANGED mode
    PROVE  Allowed(r)'
BY DEF Allowed, MustAsk, AllowedCall, AllowedAlways

LEMMA GateFrame ==
    ASSUME GateInv, UNCHANGED <<mode, allowlist, ran>>, answers \subseteq answers',
           pc' # "revalidate"
    PROVE  GateInv'
<1>1. GrantInv'
  BY DEF GateInv, GrantInv
<1>2. NoUnapprovedRun'
  BY AllowedMono DEF GateInv, NoUnapprovedRun, Allowed
<1> QED BY <1>1, <1>2 DEF GateInv, PendingInv

\* A call the gate lets through is allowed by the answers it is let through on.
LEMMA PassGate ==
    ASSUME Typed, pc \in {"gate", "approval"}, GateInv,
           NEW allow, NEW log, PassAbortCheck(allow, log),
           answers \subseteq log, GrantInv',
           NEW r, r = [id |-> CallId, op |-> CurOp], UNCHANGED mode => Allowed(r)'
    PROVE  GateInv'
<1>1. answers' = log
  BY DEF PassAbortCheck
<1>2. CASE signal
  <2>1. Answer(TRUE) /\ ran' = ran
    BY <1>2 DEF PassAbortCheck
  <2>2. pc' # "revalidate" /\ UNCHANGED mode
    BY <2>1, AnswerTyped DEF CallPcs, envVars
  <2>3. NoUnapprovedRun'
    BY <1>1, <2>1, <2>2, AllowedMono DEF GateInv, NoUnapprovedRun, Allowed
  <2> QED BY <2>2, <2>3 DEF GateInv, PendingInv
<1>3. CASE ~signal
  <2>1. /\ pc' = IF CurOp.revalidate THEN "revalidate" ELSE "execute"
        /\ ran' = IF CurOp.revalidate THEN ran ELSE ran \cup {r}
        /\ UNCHANGED <<mode, iterations, batch, call>>
    BY <1>3 DEF PassAbortCheck, envVars
  <2>2. r = [id |-> CallId, op |-> CurOp]'
    BY <2>1 DEF CurOp, CallId
  <2>3. PendingInv'
    BY <2>1, <2>2 DEF PendingInv
  <2>4. NoUnapprovedRun'
    <3> SUFFICES ASSUME NEW q \in ran' PROVE Allowed(q)'
      BY DEF NoUnapprovedRun, Allowed
    <3>1. CASE q \in ran
      BY <3>1, <1>1, <2>1, AllowedMono DEF GateInv, NoUnapprovedRun, Allowed
    <3>2. CASE q = r
      BY <3>2, <2>1
    <3> QED BY <2>1, <3>1, <3>2
  <2> QED BY <2>3, <2>4 DEF GateInv
<1> QED BY <1>2, <1>3

LEMMA InitGate == Init => GateInv
BY DEF Init, GateInv, GrantInv, PendingInv, NoUnapprovedRun

LEMMA StepGate == Typed /\ GateInv /\ [Next]_vars => GateInv'
<1> SUFFICES ASSUME Typed, GateInv, [Next]_vars PROVE GateInv'
  OBVIOUS
<1>1. CASE StopAtTop \/ Iterate \/ Prepared \/ PrepareFails \/ AttemptStart \/ BackoffEnds
  <2>1. pc' # "revalidate" /\ UNCHANGED <<mode, grantVars>>
    BY <1>1 DEF StopAtTop, Iterate, Prepared, PrepareFails, AttemptStart, BackoffEnds,
                Return, Throw, DropLoop, envVars, grantVars
  <2> QED BY <2>1, GateFrame DEF grantVars
<1>2. CASE \E calls \in Batches : Reply(calls)
  <2>1. pc' # "revalidate" /\ UNCHANGED <<mode, grantVars>>
    BY <1>2 DEF Reply, Return, envVars
  <2> QED BY <2>1, GateFrame DEF grantVars
<1>3. CASE \E kind \in ErrorKinds : RequestFails(kind)
  <2>1. pc' # "revalidate" /\ UNCHANGED <<mode, grantVars>>
    BY <1>3 DEF RequestFails, Throw, DropLoop, envVars
  <2> QED BY <2>1, GateFrame DEF grantVars
<1>4. CASE CallUnknown \/ ToolPrepareThrows \/ RevalidateStale
           \/ \E text \in BOOLEAN : ToolDone(text)
  <2>1. PICK text \in BOOLEAN : pc \in CallPcs /\ Answer(text) /\ UNCHANGED grantVars
    BY <1>4 DEF CallUnknown, ToolPrepareThrows, RevalidateStale, ToolDone, CallPcs
  <2>2. pc' # "revalidate" /\ UNCHANGED mode
    BY <2>1, AnswerTyped DEF envVars
  <2> QED BY <2>1, <2>2, GateFrame DEF grantVars
<1>5. CASE CallTool \/ ToolPrepared \/ GateAsks
  <2>1. pc' # "revalidate" /\ UNCHANGED <<mode, grantVars>>
    BY <1>5 DEF CallTool, ToolPrepared, GateAsks, envVars
  <2> QED BY <2>1, GateFrame DEF grantVars
<1>6. CASE GatePasses
  <2> DEFINE cur == [id |-> CallId, op |-> CurOp]
  <2>1. pc = "gate" /\ ~NeedsApproval(CurOp) /\ PassAbortCheck(allowlist, answers)
    BY <1>6 DEF GatePasses
  <2>2. CurOp \in Ops
    BY <2>1 DEF Typed, CallInv, ToolPcs, CallPcs
  <2>3. allowlist' = allowlist /\ answers' = answers
    BY <2>1 DEF PassAbortCheck
  <2>4. GrantInv'
    BY <2>3 DEF GateInv, GrantInv
  <2>5. PICK r : r = cur
    OBVIOUS
  <2>6. Allowed(r)
    BY <2>1, <2>2, <2>5, OpFields
    DEF NeedsApproval, Allowed, AllowedAlways, GateInv, GrantInv
  <2> QED BY <2>1, <2>3, <2>4, <2>5, <2>6, AllowedMono, PassGate
<1>7. CASE \E d \in Decisions : Decide(d)
  <2>1. PICK d \in Decisions : Decide(d)
    BY <1>7
  <2> DEFINE yes   == [id |-> CallId, op |-> CurOp, decision |-> d]
             grant == IF d = "allow-always" THEN {<<CurOp.tool, CurOp.kind>>} ELSE {}
  <2>2. pc = "approval" /\ CurOp \in Ops
    BY <2>1 DEF Decide, Typed, CallInv, ToolPcs, CallPcs
  <2>3. CASE d = "deny" \/ (d = "allow-always" /\ ~CurOp.always)
    <3>1. /\ Answer(TRUE) /\ pc \in CallPcs
          /\ answers' = answers \cup {yes} /\ UNCHANGED <<allowlist, ran>>
      BY <2>1, <2>2, <2>3 DEF Decide, CallPcs
    <3>2. pc' # "revalidate" /\ UNCHANGED mode
      BY <3>1, AnswerTyped DEF envVars
    <3> QED BY <3>1, <3>2, GateFrame
  <2>4. CASE ~(d = "deny" \/ (d = "allow-always" /\ ~CurOp.always))
    <3>1. PassAbortCheck(allowlist \cup grant, answers \cup {yes})
      BY <2>1, <2>4 DEF Decide
    <3>2. allowlist' = allowlist \cup grant /\ answers' = answers \cup {yes}
      BY <3>1 DEF PassAbortCheck
    <3> yes \in answers' /\ yes.id = CallId /\ yes.op = CurOp /\ yes.decision = d
      BY <3>2
    <3> HIDE DEF yes
    <3>3. GrantInv'
      <4> SUFFICES ASSUME NEW t \in Tools, NEW k \in Kinds, <<t, k>> \in allowlist'
                   PROVE  \E a \in answers' : /\ a.op.tool = t /\ a.op.kind = k
                                             /\ a.decision = "allow-always" /\ a.op.always
        BY DEF GrantInv
      <4>1. CASE <<t, k>> \in allowlist
        BY <4>1, <3>2 DEF GateInv, GrantInv
      <4>2. CASE <<t, k>> \notin allowlist
        <5>1. d = "allow-always" /\ t = CurOp.tool /\ k = CurOp.kind /\ CurOp.always
          BY <4>2, <3>2, <2>2, <2>4, OpFields
        <5> WITNESS yes \in answers'
        <5> QED BY <5>1
      <4> QED BY <4>1, <4>2
    <3>4. PICK r : r = [id |-> CallId, op |-> CurOp]
      OBVIOUS
    <3>5. AllowedCall(r)'
      <4> SUFFICES \E a \in answers' : /\ a.id = r.id /\ a.op = r.op
                                       /\ a.decision # "deny"
                                       /\ a.decision = "allow-always" => a.op.always
        BY DEF AllowedCall
      <4> WITNESS yes \in answers'
      <4> QED BY <2>4, <3>4
    <3>6. Allowed(r)'
      BY <3>5 DEF Allowed
    <3> HIDE DEF grant
    <3> QED BY <2>2, <3>1, <3>3, <3>4, <3>6, PassGate
  <2> QED BY <2>3, <2>4
<1>8. CASE RevalidateOk
  <2> DEFINE cur == [id |-> CallId, op |-> CurOp]
  <2>1. /\ pc = "revalidate" /\ pc' = "execute" /\ ran' = ran \cup {cur}
        /\ UNCHANGED <<mode, answers, allowlist>>
    BY <1>8 DEF RevalidateOk, envVars
  <2>2. Allowed(cur)
    BY <2>1 DEF GateInv, PendingInv
  <2>3. NoUnapprovedRun'
    <3> SUFFICES ASSUME NEW q \in ran' PROVE Allowed(q)'
      BY DEF NoUnapprovedRun, Allowed
    <3>1. Allowed(q)
      BY <2>1, <2>2 DEF GateInv, NoUnapprovedRun, Allowed
    <3> QED BY <2>1, <3>1, AllowedMono
  <2>4. GrantInv'
    BY <2>1 DEF GateInv, GrantInv
  <2> QED BY <2>1, <2>3, <2>4 DEF GateInv, PendingInv
<1>9. CASE Token \/ StreamReset \/ Steer \/ Interrupt \/ UNCHANGED vars
  <2>1. UNCHANGED <<pc, mode, iterations, batch, call, allowlist, answers, ran>>
    BY <1>9 DEF Token, StreamReset, Steer, Interrupt, vars, envVars, grantVars
  <2>2. CASE pc = "revalidate"
    <3>1. UNCHANGED <<CallId, CurOp>>
      BY <2>1 DEF CallId, CurOp
    <3>2. PendingInv'
      BY <2>1, <2>2, <3>1
      DEF GateInv, PendingInv, Allowed, MustAsk, AllowedCall, AllowedAlways
    <3> QED BY <2>1, <3>2
        DEF GateInv, GrantInv, NoUnapprovedRun, MustAsk, AllowedCall, AllowedAlways
  <2>3. CASE pc # "revalidate"
    BY <2>1, <2>3, GateFrame
  <2> QED BY <2>2, <2>3
<1> QED BY <1>1, <1>2, <1>3, <1>4, <1>5, <1>6, <1>7, <1>8, <1>9 DEF Next, LoopStep, Ended

\* No gated tool call is executed without the user's decision, whatever the
\* tools, the model's calls, the mode and the interleaving of interrupts.
THEOREM ApprovalGate == Spec => []NoUnapprovedRun
<1>1. Spec => [](Typed /\ GateInv)
  BY InitTyped, StepTyped, InitGate, StepGate, PTL DEF Spec
<1> QED BY <1>1, PTL DEF GateInv

\* Once interrupted, no further call passes the gate.
THEOREM InterruptGate == Spec => NoRunAfterInterrupt
<1>1. Typed /\ [Next]_vars =>
        (signal /\ pc' \in {"revalidate", "execute"} => pc \in {"revalidate", "execute"})
  <2> SUFFICES ASSUME Typed, [Next]_vars, signal, pc' \in {"revalidate", "execute"},
                      pc \notin {"revalidate", "execute"}
               PROVE  FALSE
    OBVIOUS
  <2>1. ASSUME NEW text \in BOOLEAN, pc \in CallPcs, Answer(text) PROVE FALSE
    BY <2>1, AnswerTyped
  <2>2. ASSUME NEW allow, NEW log, PassAbortCheck(allow, log), pc \in CallPcs PROVE FALSE
    BY <2>1, <2>2 DEF PassAbortCheck
  <2>3. CASE GatePasses \/ \E d \in Decisions : Decide(d)
    BY <2>1, <2>2, <2>3 DEF GatePasses, Decide, CallPcs
  <2>4. CASE CallUnknown \/ ToolPrepareThrows \/ RevalidateStale
             \/ \E text \in BOOLEAN : ToolDone(text)
    BY <2>1, <2>4 DEF CallUnknown, ToolPrepareThrows, RevalidateStale, ToolDone, CallPcs
  <2>5. CASE StopAtTop \/ Iterate \/ Prepared \/ PrepareFails \/ AttemptStart \/ BackoffEnds
    BY <2>5 DEF StopAtTop, Iterate, Prepared, PrepareFails, AttemptStart, BackoffEnds,
                Return, Throw, DropLoop
  <2>6. CASE \E calls \in Batches : Reply(calls)
    BY <2>6 DEF Reply, Return
  <2>7. CASE \E kind \in ErrorKinds : RequestFails(kind)
    BY <2>7 DEF RequestFails, Throw, DropLoop
  <2>8. CASE CallTool \/ ToolPrepared \/ GateAsks
    BY <2>8 DEF CallTool, ToolPrepared, GateAsks
  <2>9. CASE RevalidateOk
    BY <2>9 DEF RevalidateOk
  <2>10. CASE Token \/ StreamReset \/ Steer \/ Interrupt \/ UNCHANGED vars
    BY <2>10 DEF Token, StreamReset, Steer, Interrupt, vars
  <2> QED BY <2>3, <2>4, <2>5, <2>6, <2>7, <2>8, <2>9, <2>10 DEF Next, LoopStep, Ended
<1>2. Spec => []Typed
  BY InitTyped, StepTyped, PTL DEF Spec
<1> QED BY <1>1, <1>2, PTL DEF Spec, NoRunAfterInterrupt

-----------------------------------------------------------------------------
(* Requests: the transcript's checkpoint and the failover connection.      *)

\* Without MoA the connection of the current request is the run's, and is the
\* fallback exactly after the failover, between iterations too.
ConnInv == ~UseMoa => conn = turnConn /\ (failoverUsed <=> (conn = 1))

RequestInv == NoOrphanOutput /\ ConnInv

\* Past the gate a call is answered at once or goes on.
LEMMA DecideCases ==
    ASSUME GatePasses \/ \E d \in Decisions : Decide(d)
    PROVE  /\ pc \in CallPcs
           /\ Answer(TRUE) \/ \E allow, log : PassAbortCheck(allow, log)
<1>1. CASE GatePasses
  BY <1>1 DEF GatePasses, CallPcs
<1>2. ASSUME NEW d \in Decisions, Decide(d)
      PROVE  /\ pc \in CallPcs
             /\ Answer(TRUE) \/ \E allow, log : PassAbortCheck(allow, log)
  <2> DEFINE log   == answers \cup {[id |-> CallId, op |-> CurOp, decision |-> d]}
             grant == IF d = "allow-always" THEN {<<CurOp.tool, CurOp.kind>>} ELSE {}
  <2>1. pc = "approval" /\ (Answer(TRUE) \/ PassAbortCheck(allowlist \cup grant, log))
    BY <1>2 DEF Decide
  <2> HIDE DEF log, grant
  <2> QED BY <2>1 DEF CallPcs
<1> QED BY <1>1, <1>2

\* Both hold before the first request, and every step keeps them.
LEMMA InitRequest == Init => RequestInv
BY DEF Init, RequestInv, NoOrphanOutput, ConnInv

LEMMA StepRequest == Typed /\ RequestInv /\ [Next]_vars => RequestInv'
<1> SUFFICES ASSUME Typed, RequestInv, [Next]_vars PROVE RequestInv'
  OBVIOUS
<1> USE BoundsAssumption DEF RequestInv, NoOrphanOutput, ConnInv
<1>1. ASSUME UNCHANGED <<connVars, signal>>, pc # "request" \/ pc' = "request" PROVE RequestInv'
  BY <1>1 DEF connVars
<1>2. CASE StopAtTop \/ Prepared \/ PrepareFails \/ BackoffEnds
  BY <1>1, <1>2 DEF StopAtTop, Prepared, PrepareFails, BackoffEnds
<1>3. CASE Iterate
  BY <1>3 DEF Iterate
<1>4. CASE AttemptStart
  BY <1>4 DEF AttemptStart
<1>5. CASE \E calls \in Batches : Reply(calls)
  BY <1>5 DEF Reply
<1>6. ASSUME NEW kind \in ErrorKinds, RequestFails(kind) PROVE RequestInv'
  <2>1. partial' => signal'
    BY <1>6 DEF RequestFails, Discarded, Typed, TypeOK
  <2>2. ConnInv'
    BY <1>6 DEF RequestFails
  <2> QED BY <2>1, <2>2
<1>7. ASSUME NEW text \in BOOLEAN, pc \in CallPcs, Answer(text) PROVE RequestInv'
  BY <1>1, <1>7 DEF Answer, CallPcs
<1>8. CASE CallUnknown \/ ToolPrepareThrows \/ RevalidateStale
           \/ \E text \in BOOLEAN : ToolDone(text)
  BY <1>7, <1>8 DEF CallUnknown, ToolPrepareThrows, RevalidateStale, ToolDone, CallPcs
<1>9. ASSUME NEW allow, NEW log, pc \in CallPcs, PassAbortCheck(allow, log) PROVE RequestInv'
  BY <1>1, <1>7, <1>9 DEF PassAbortCheck, CallPcs
<1>10. CASE GatePasses \/ \E d \in Decisions : Decide(d)
  <2>1. /\ pc \in CallPcs
        /\ Answer(TRUE) \/ \E allow, log : PassAbortCheck(allow, log)
    BY <1>10, DecideCases
  <2> QED BY <1>7, <1>9, <2>1
<1>11. CASE CallTool \/ ToolPrepared \/ GateAsks \/ RevalidateOk
  BY <1>1, <1>11 DEF CallTool, ToolPrepared, GateAsks, RevalidateOk
<1>12. CASE Token
  BY <1>12 DEF Token
<1>13. CASE StreamReset
  BY <1>13 DEF StreamReset, Discarded
<1>14. CASE Steer \/ UNCHANGED vars
  BY <1>1, <1>14 DEF Steer, vars, connVars
<1>15. CASE Interrupt
  BY <1>15 DEF Interrupt, connVars
<1> QED BY <1>2, <1>3, <1>4, <1>5, <1>6, <1>8, <1>10, <1>11, <1>12, <1>13, <1>14, <1>15
        DEF Next, LoopStep, Ended

\* The transcript never keeps output of an attempt that was not committed.
THEOREM CheckpointRestored == Spec => []NoOrphanOutput
<1>1. Spec => [](Typed /\ RequestInv)
  BY InitTyped, StepTyped, InitRequest, StepRequest, PTL DEF Spec
<1> QED BY <1>1, PTL DEF RequestInv

\* The failover moves every later request of the run, and none before it.
THEOREM FailoverHolds == Spec => []TurnConnection
<1>1. Spec => [](Typed /\ RequestInv)
  BY InitTyped, StepTyped, InitRequest, StepRequest, PTL DEF Spec
<1>2. RequestInv => TurnConnection
  BY DEF RequestInv, ConnInv, TurnConnection
<1> QED BY <1>1, <1>2, PTL

\* Once interrupted, the loop starts no iteration and repeats no request.
THEOREM InterruptEnds == Spec => InterruptEndsRun
<1>1. Typed /\ [Next]_vars =>
        (signal => /\ iterations' = iterations
                   /\ pc = "request" => pc' \notin {"attempt", "backoff"})
  <2> SUFFICES ASSUME Typed, [Next]_vars, signal
               PROVE  /\ iterations' = iterations
                      /\ pc = "request" => pc' \notin {"attempt", "backoff"}
    OBVIOUS
  <2>1. ASSUME NEW kind \in ErrorKinds, RequestFails(kind)
        PROVE  iterations' = iterations /\ pc' = "threw"
    BY <2>1 DEF RequestFails, CanRetry, CanFailover, Throw, DropLoop
  <2>2. CASE \E calls \in Batches : Reply(calls)
    BY <2>2 DEF Reply, Return
  <2>3. ASSUME NEW text \in BOOLEAN, pc \in CallPcs, Answer(text)
        PROVE  iterations' = iterations /\ pc # "request"
    BY <2>3 DEF Answer, CallPcs
  <2>4. CASE CallUnknown \/ ToolPrepareThrows \/ RevalidateStale
             \/ \E text \in BOOLEAN : ToolDone(text)
    BY <2>3, <2>4 DEF CallUnknown, ToolPrepareThrows, RevalidateStale, ToolDone, CallPcs
  <2>5. ASSUME NEW allow, NEW log, pc \in CallPcs, PassAbortCheck(allow, log)
        PROVE  iterations' = iterations /\ pc # "request"
    BY <2>3, <2>5 DEF PassAbortCheck, CallPcs
  <2>6. CASE GatePasses \/ \E d \in Decisions : Decide(d)
    <3>1. /\ pc \in CallPcs
          /\ Answer(TRUE) \/ \E allow, log : PassAbortCheck(allow, log)
      BY <2>6, DecideCases
    <3> QED BY <2>3, <2>5, <3>1
  <2>7. CASE StopAtTop \/ Iterate \/ Prepared \/ PrepareFails \/ AttemptStart \/ BackoffEnds
             \/ CallTool \/ ToolPrepared \/ GateAsks \/ RevalidateOk
    BY <2>7 DEF StopAtTop, Iterate, Prepared, PrepareFails, AttemptStart, BackoffEnds,
                CallTool, ToolPrepared, GateAsks, RevalidateOk
  <2>8. CASE Token \/ StreamReset \/ Steer \/ Interrupt \/ UNCHANGED vars
    BY <2>8 DEF Token, StreamReset, Steer, Interrupt, vars
  <2> QED BY <2>1, <2>2, <2>4, <2>6, <2>7, <2>8 DEF Next, LoopStep, Ended
<1> QED BY <1>1, InitTyped, StepTyped, PTL DEF Spec, InterruptEndsRun

-----------------------------------------------------------------------------
(* The wire: every call answered, in order.                                *)

\* The last assistant message is at p, its calls before the current one are
\* answered behind it, and every earlier assistant message is answered fully.
MidBatch ==
    \E p \in 1 .. Len(wire) :
        /\ Len(wire) = p + call - 1
        /\ wire[p].role = "assistant" /\ wire[p].n = Len(batch)
        /\ AnsweredAt(wire, p, call - 1)
        /\ \A i \in 1 .. Len(wire) :
              i # p /\ wire[i].role = "assistant" => AnsweredAt(wire, i, wire[i].n)

WireInv ==
    /\ pc \in {"iterate", "prepare", "attempt", "request", "backoff"}
          \/ (pc = "returned" /\ ~aborted) => WellFormed(wire)
    /\ pc \in CallPcs => MidBatch

LEMMA AppendMessage ==
    ASSUME NEW w \in Seq(Messages), NEW m \in Messages
    PROVE  /\ Append(w, m) \in Seq(Messages) /\ Len(Append(w, m)) = Len(w) + 1 /\ Len(w) \in Nat
           /\ \A i \in 1 .. Len(w) : Append(w, m)[i] = w[i]
           /\ Append(w, m)[Len(w) + 1] = m
OBVIOUS

\* A message pushed behind a batch does not undo its answers.
LEMMA AnsweredAppend ==
    ASSUME NEW w \in Seq(Messages), NEW m \in Messages, NEW i \in 1 .. Len(w), NEW n \in Nat,
           AnsweredAt(w, i, n)
    PROVE  AnsweredAt(Append(w, m), i, n)
<1> DEFINE a == Append(w, m)
<1>1. Len(a) = Len(w) + 1 /\ Len(w) \in Nat /\ \A j \in 1 .. Len(w) : a[j] = w[j]
  BY AppendMessage
<1> HIDE DEF a
<1>2. ASSUME NEW k \in 1 .. n PROVE i + k <= Len(a) /\ a[i + k].role = "tool" /\ a[i + k].n = k
  <2>1. i + k <= Len(w) /\ w[i + k].role = "tool" /\ w[i + k].n = k
    BY DEF AnsweredAt
  <2>2. i + k \in 1 .. Len(w)
    BY <1>1, <2>1
  <2> QED BY <1>1, <2>1, <2>2
<1> QED BY <1>2 DEF AnsweredAt, a

\* The tool message of the current call brings the batch one answer further,
\* or completes it.
LEMMA AnswerWire ==
    ASSUME Typed, WireInv, pc \in CallPcs, NEW text \in BOOLEAN, Answer(text)
    PROVE  WireInv'
<1>1. /\ call \in 1 .. Len(batch) /\ Len(batch) \in 0 .. MaxBatch /\ wire \in Seq(Messages)
      /\ Len(wire) \in Nat
  BY BoundsAssumption DEF Typed, CallInv, TypeOK
<1>2. PICK p \in 1 .. Len(wire) :
          /\ Len(wire) = p + call - 1
          /\ wire[p].role = "assistant" /\ wire[p].n = Len(batch)
          /\ AnsweredAt(wire, p, call - 1)
          /\ \A i \in 1 .. Len(wire) :
                i # p /\ wire[i].role = "assistant" => AnsweredAt(wire, i, wire[i].n)
  BY DEF WireInv, MidBatch
<1> DEFINE m == ToolMsg(call, text)
           w == Append(wire, m)
<1>3. m \in Messages /\ m.role = "tool" /\ m.n = call
  BY <1>1, BoundsAssumption DEF ToolMsg, Messages
<1> HIDE DEF m
<1>4. /\ w \in Seq(Messages) /\ Len(w) = Len(wire) + 1
      /\ \A i \in 1 .. Len(wire) : w[i] = wire[i]
      /\ w[Len(wire) + 1] = m
  BY <1>1, <1>3, AppendMessage
<1>5. AnsweredAt(w, p, call - 1)
  BY <1>1, <1>2, <1>3, AnsweredAppend
<1>6. ASSUME NEW i \in 1 .. Len(wire), i # p, wire[i].role = "assistant"
      PROVE  AnsweredAt(w, i, wire[i].n)
  <2>1. wire[i] \in Messages
    BY <1>1
  <2>2. wire[i].n \in Nat
    BY <2>1, BoundsAssumption DEF Messages
  <2> QED BY <1>1, <1>2, <1>3, <1>6, <2>2, AnsweredAppend
<1> HIDE DEF w
<1>7. AnsweredAt(w, p, call)
  <2> SUFFICES ASSUME NEW k \in 1 .. call
               PROVE  p + k <= Len(w) /\ w[p + k].role = "tool" /\ w[p + k].n = k
    BY DEF AnsweredAt
  <2>1. CASE k = call
    <3>1. p + k = Len(wire) + 1
      BY <1>1, <1>2, <2>1
    <3> QED BY <1>3, <1>4, <2>1, <3>1
  <2>2. CASE k # call
    <3>1. k \in 1 .. call - 1
      BY <1>1, <2>2
    <3> QED BY <1>5, <3>1 DEF AnsweredAt
  <2> QED BY <2>1, <2>2
<1>8. \A i \in 1 .. Len(w) : i # p /\ w[i].role = "assistant" => AnsweredAt(w, i, w[i].n)
  <2> SUFFICES ASSUME NEW i \in 1 .. Len(w), i # p, w[i].role = "assistant"
               PROVE  AnsweredAt(w, i, w[i].n)
    OBVIOUS
  <2>1. i # Len(wire) + 1
    BY <1>3, <1>4
  <2>2. i \in 1 .. Len(wire)
    BY <1>1, <1>4, <2>1
  <2> QED BY <1>4, <1>6, <2>2
<1>9. wire' = w /\ batch' = batch
  BY DEF Answer, w, m
<1>10. CASE signal
  <2>1. pc' = "returned" /\ aborted' = TRUE
    BY <1>10 DEF Answer, Return
  <2> QED BY <2>1 DEF WireInv, CallPcs
<1>11. CASE ~signal /\ call = Len(batch)
  <2>1. pc' = "iterate"
    BY <1>11 DEF Answer
  <2>2. WellFormed(w)
    BY <1>2, <1>4, <1>7, <1>8, <1>11 DEF WellFormed
  <2> QED BY <1>9, <2>1, <2>2 DEF WireInv, CallPcs
<1>12. CASE ~signal /\ call # Len(batch)
  <2>1. pc' = "call" /\ call' = call + 1
    BY <1>12 DEF Answer
  <2>2. /\ p \in 1 .. Len(w) /\ Len(w) = p + (call + 1) - 1 /\ (call + 1) - 1 = call
        /\ w[p].role = "assistant" /\ w[p].n = Len(batch)
    BY <1>1, <1>2, <1>4
  <2>3. MidBatch'
    <3> SUFFICES \E q \in 1 .. Len(w) :
                    /\ Len(w) = q + (call + 1) - 1
                    /\ w[q].role = "assistant" /\ w[q].n = Len(batch)
                    /\ AnsweredAt(w, q, (call + 1) - 1)
                    /\ \A i \in 1 .. Len(w) :
                          i # q /\ w[i].role = "assistant" => AnsweredAt(w, i, w[i].n)
      BY <1>9, <2>1 DEF MidBatch
    <3> p \in 1 .. Len(w)
      BY <2>2
    <3> WITNESS p \in 1 .. Len(w)
    <3> QED BY <1>7, <1>8, <2>2
  <2> QED BY <2>1, <2>3 DEF WireInv
<1> QED BY <1>10, <1>11, <1>12

\* The assistant message is pushed: with no calls the wire is complete.
LEMMA ReplyWire ==
    ASSUME Typed, WireInv, NEW calls \in Batches, Reply(calls)
    PROVE  WireInv'
<1>1. PICK n \in 0 .. MaxBatch : calls \in [1 .. n -> Calls]
  BY DEF Batches
<1>2. calls \in Seq(Calls) /\ Len(calls) = n /\ n \in Nat
  BY <1>1, BoundsAssumption
<1> DEFINE m == Assistant(Len(calls))
           w == Append(wire, m)
<1>3. m \in Messages /\ m.role = "assistant" /\ m.n = n /\ wire \in Seq(Messages)
  BY <1>1, <1>2 DEF Assistant, Messages, Typed, TypeOK
<1>4. WellFormed(wire) /\ wire' = w /\ batch' = calls /\ call' = 1
  BY DEF Reply, WireInv, m
<1> HIDE DEF m
<1>5. /\ w \in Seq(Messages) /\ Len(w) = Len(wire) + 1 /\ Len(wire) \in Nat
      /\ \A i \in 1 .. Len(wire) : w[i] = wire[i]
      /\ w[Len(wire) + 1] = m
  BY <1>3, AppendMessage
<1>6. ASSUME NEW i \in 1 .. Len(wire), wire[i].role = "assistant"
      PROVE  AnsweredAt(w, i, wire[i].n)
  <2>1. wire[i] \in Messages
    BY <1>3
  <2>2. wire[i].n \in Nat
    BY <2>1, BoundsAssumption DEF Messages
  <2> QED BY <1>3, <1>4, <1>6, <2>2, AnsweredAppend DEF WellFormed
<1> HIDE DEF w
<1>7. \A i \in 1 .. Len(w) :
          i # Len(wire) + 1 /\ w[i].role = "assistant" => AnsweredAt(w, i, w[i].n)
  <2> SUFFICES ASSUME NEW i \in 1 .. Len(w), i # Len(wire) + 1, w[i].role = "assistant"
               PROVE  AnsweredAt(w, i, w[i].n)
    OBVIOUS
  <2>1. i \in 1 .. Len(wire)
    BY <1>5
  <2> QED BY <1>5, <1>6, <2>1
<1>8. CASE calls = <<>>
  <2>1. n = 0 /\ pc' = "returned"
    BY <1>2, <1>8 DEF Reply, Return
  <2>2. AnsweredAt(w, Len(wire) + 1, 0)
    BY DEF AnsweredAt
  <2>3. WellFormed(w)
    BY <1>3, <1>5, <1>7, <2>1, <2>2 DEF WellFormed
  <2> QED BY <1>4, <2>1, <2>3 DEF WireInv, CallPcs
<1>9. CASE calls # <<>>
  <2>1. pc' = "call"
    BY <1>9 DEF Reply
  <2>2. AnsweredAt(w, Len(wire) + 1, 0)
    BY DEF AnsweredAt
  <2>3. MidBatch'
    <3> SUFFICES \E q \in 1 .. Len(w) :
                    /\ Len(w) = q + 1 - 1
                    /\ w[q].role = "assistant" /\ w[q].n = Len(calls)
                    /\ AnsweredAt(w, q, 1 - 1)
                    /\ \A i \in 1 .. Len(w) :
                          i # q /\ w[i].role = "assistant" => AnsweredAt(w, i, w[i].n)
      BY <1>4 DEF MidBatch
    <3> Len(wire) + 1 \in 1 .. Len(w)
      BY <1>5
    <3>1. 1 - 1 = 0 /\ Len(w) = (Len(wire) + 1) + 1 - 1
      BY <1>5
    <3> WITNESS Len(wire) + 1 \in 1 .. Len(w)
    <3> QED BY <1>2, <1>3, <1>5, <1>7, <2>2, <3>1
  <2> QED BY <2>1, <2>3 DEF WireInv
<1> QED BY <1>8, <1>9

LEMMA InitWire == Init => WireInv
BY DEF Init, WireInv, WellFormed, CallPcs

LEMMA StepWire == Typed /\ WireInv /\ [Next]_vars => WireInv'
<1> SUFFICES ASSUME Typed, WireInv, [Next]_vars PROVE WireInv'
  OBVIOUS
<1> DEFINE Whole == {"iterate", "prepare", "attempt", "request", "backoff"}
<1>1. ASSUME UNCHANGED wire, pc \in Whole, pc' \in Whole \cup Finished PROVE WireInv'
  BY <1>1 DEF WireInv, CallPcs, Finished
<1>2. ASSUME UNCHANGED <<wire, batch, call>>, pc \in CallPcs, pc' \in CallPcs PROVE WireInv'
  BY <1>2 DEF WireInv, MidBatch, CallPcs
<1>3. CASE StopAtTop \/ Prepared \/ PrepareFails \/ BackoffEnds \/ Iterate \/ AttemptStart
  BY <1>1, <1>3 DEF StopAtTop, Prepared, PrepareFails, BackoffEnds, Iterate, AttemptStart,
                    Return, Throw, DropLoop, Finished
<1>4. ASSUME NEW calls \in Batches, Reply(calls) PROVE WireInv'
  BY <1>4, ReplyWire
<1>5. ASSUME NEW kind \in ErrorKinds, RequestFails(kind) PROVE WireInv'
  BY <1>1, <1>5 DEF RequestFails, Throw, DropLoop, Finished
<1>6. CASE CallUnknown \/ ToolPrepareThrows \/ RevalidateStale
           \/ \E text \in BOOLEAN : ToolDone(text)
  BY <1>6, AnswerWire DEF CallUnknown, ToolPrepareThrows, RevalidateStale, ToolDone, CallPcs
<1>7. ASSUME NEW allow, NEW log, pc \in CallPcs, PassAbortCheck(allow, log) PROVE WireInv'
  <2>1. CASE signal
    BY <1>7, <2>1, AnswerWire DEF PassAbortCheck
  <2>2. CASE ~signal
    BY <1>2, <1>7, <2>2 DEF PassAbortCheck, CallPcs
  <2> QED BY <2>1, <2>2
<1>8. CASE GatePasses \/ \E d \in Decisions : Decide(d)
  <2>1. /\ pc \in CallPcs
        /\ Answer(TRUE) \/ \E allow, log : PassAbortCheck(allow, log)
    BY <1>8, DecideCases
  <2> QED BY <1>7, <2>1, AnswerWire
<1>9. CASE CallTool \/ ToolPrepared \/ GateAsks \/ RevalidateOk
  BY <1>2, <1>9 DEF CallTool, ToolPrepared, GateAsks, RevalidateOk, CallPcs
<1>10. CASE Token \/ StreamReset
  BY <1>1, <1>10 DEF Token, StreamReset
<1>11. CASE Steer \/ Interrupt \/ UNCHANGED vars
  <2>1. UNCHANGED <<pc, wire, batch, call, aborted>>
    BY <1>11 DEF Steer, Interrupt, vars
  <2> QED BY <2>1 DEF WireInv, WellFormed, MidBatch
<1> QED BY <1>3, <1>4, <1>5, <1>6, <1>8, <1>9, <1>10, <1>11 DEF Next, LoopStep, Ended

\* No request ever goes out, and no uninterrupted run ends, with a tool call on
\* the wire that lacks its result or has it out of place.
THEOREM EveryCallAnswered == Spec => []WireAnswered
<1>1. Spec => [](Typed /\ WireInv)
  BY InitTyped, StepTyped, InitWire, StepWire, PTL DEF Spec
<1>2. WireInv => WireAnswered
  BY DEF WireInv, WireAnswered
<1> QED BY <1>1, <1>2, PTL

-----------------------------------------------------------------------------
(* The steer inbox: nothing lost, doubled or reordered.                    *)

LEMMA ConcatEmpty ==
    ASSUME NEW s \in Seq(Nat)
    PROVE  s \o <<>> = s /\ <<>> \o s = s
OBVIOUS

LEMMA ConcatAppend ==
    ASSUME NEW a \in Seq(Nat), NEW b \in Seq(Nat), NEW x \in Nat
    PROVE  a \o Append(b, x) = Append(a \o b, x)
OBVIOUS

LEMMA CountAppend ==
    ASSUME NEW n \in Nat
    PROVE  Append([i \in 1 .. n |-> i], n + 1) = [i \in 1 .. n + 1 |-> i]
OBVIOUS

\* What stands before the steers that wait are the first of them.
LEMMA PrefixCount ==
    ASSUME NEW a \in Seq(Nat), NEW b \in Seq(Nat), NEW n \in Nat, a \o b = FirstSteers(n)
    PROVE  \E k \in 0 .. n : a = FirstSteers(k)
<1>1. FirstSteers(n) \in Seq(Nat) /\ Len(FirstSteers(n)) = n
  <2>1. PICK s : s = FirstSteers(n)
    OBVIOUS
  <2>2. DOMAIN s = 1 .. n /\ \A i \in 1 .. n : s[i] = i
    BY <2>1 DEF FirstSteers
  <2>3. s = [i \in 1 .. n |-> i]
    BY <2>1 DEF FirstSteers
  <2>4. s \in Seq(Nat)
    BY <2>3
  <2>5. Len(s) = n
    BY <2>2, <2>4
  <2> QED BY <2>1, <2>4, <2>5
<1>2. Len(a) \in Nat /\ Len(b) \in Nat /\ Len(a \o b) = Len(a) + Len(b)
  OBVIOUS
<1>3. Len(a) \in 0 .. n
  BY <1>1, <1>2
<1>4. \A i \in 1 .. Len(a) : a[i] = (a \o b)[i]
  OBVIOUS
<1>5. \A i \in 1 .. Len(a) : a[i] = i
  <2>1. \A i \in 1 .. Len(a) : i \in 1 .. n
    BY <1>3
  <2>2. \A i \in 1 .. n : FirstSteers(n)[i] = i
    BY DEF FirstSteers
  <2> QED BY <1>4, <2>1, <2>2
<1>6. a = [i \in 1 .. Len(a) |-> a[i]]
  OBVIOUS
<1>7. a = FirstSteers(Len(a))
  BY <1>5, <1>6 DEF FirstSteers
<1> QED BY <1>3, <1>7

\* While the loop runs nothing has been handed back, and it was not aborted.
SteerInv ==
    /\ pc \notin Finished => ~aborted /\ leftover = <<>>
    /\ SteerFIFO

LEMMA InitSteer == Init => SteerInv
<1>1. [i \in 1 .. 0 |-> i] = <<>> /\ <<>> \o <<>> \o <<>> = <<>>
  OBVIOUS
<1>2. FirstSteers(0) = <<>>
  BY <1>1 DEF FirstSteers
<1>3. Init => ~DropsSteers
  BY DEF Init, DropsSteers
<1> QED BY <1>1, <1>2, <1>3 DEF Init, SteerInv, SteerFIFO

\* At the end of the run the inbox becomes the leftover, or is dropped.
LEMMA ReturnSteer ==
    ASSUME TypeOK, SteerInv, pc \notin Finished, NEW interrupted \in BOOLEAN, Return(interrupted)
    PROVE  SteerInv'
<1>1. /\ pc' = "returned" /\ aborted' = interrupted /\ inbox' = <<>>
      /\ leftover' = IF interrupted THEN <<>> ELSE inbox
      /\ sent' = sent /\ delivered' = delivered
  BY DEF Return
<1>2. inbox \in Seq(Nat) /\ delivered \in Seq(Nat) /\ leftover = <<>> /\ ~aborted /\ ~DropsSteers
  BY DEF TypeOK, SteerInv, DropsSteers, Finished
<1>3. delivered \o inbox = FirstSteers(sent) /\ delivered \o inbox \in Seq(Nat)
  BY <1>2, ConcatEmpty DEF SteerInv, SteerFIFO
<1>4. CASE interrupted
  <2>1. \E n \in 0 .. sent : delivered = FirstSteers(n)
    <3>1. sent \in Nat
      BY BoundsAssumption DEF TypeOK
    <3> QED BY <1>2, <1>3, <3>1, PrefixCount
  <2> QED BY <1>1, <1>4, <2>1 DEF SteerInv, SteerFIFO, Finished, DropsSteers
<1>5. CASE ~interrupted
  <2>1. delivered' \o leftover' \o inbox' = delivered \o inbox
    BY <1>1, <1>3, <1>5, ConcatEmpty
  <2>2. ~DropsSteers'
    BY <1>1, <1>5 DEF DropsSteers
  <2> QED BY <1>1, <1>2, <1>3, <2>1, <2>2 DEF SteerInv, SteerFIFO, Finished
<1> QED BY <1>4, <1>5

\* A throw drops what waits.
LEMMA ThrowSteer ==
    ASSUME TypeOK, SteerInv, pc \notin Finished, Throw
    PROVE  SteerInv'
<1>1. /\ pc' = "threw" /\ inbox' = <<>> /\ sent' = sent /\ delivered' = delivered
      /\ leftover' = <<>>
  BY DEF Throw, DropLoop, SteerInv
<1>2. inbox \in Seq(Nat) /\ delivered \in Seq(Nat) /\ leftover = <<>> /\ ~DropsSteers /\ sent \in Nat
  BY BoundsAssumption DEF TypeOK, SteerInv, DropsSteers, Finished
<1>3. delivered \o inbox = FirstSteers(sent)
  BY <1>2, ConcatEmpty DEF SteerInv, SteerFIFO
<1>4. \E n \in 0 .. sent : delivered = FirstSteers(n)
  BY <1>2, <1>3, PrefixCount
<1> QED BY <1>1, <1>4 DEF SteerInv, SteerFIFO, Finished, DropsSteers

LEMMA KeptSteer ==
    ASSUME SteerInv, pc \notin Finished, pc' # "threw", UNCHANGED <<aborted, steerVars>>
    PROVE  SteerInv'
<1>1. DropsSteers' <=> DropsSteers
  BY DEF DropsSteers, Finished
<1> QED BY <1>1 DEF SteerInv, SteerFIFO, steerVars

LEMMA AnswerSteer ==
    ASSUME TypeOK, SteerInv, pc \in CallPcs, NEW text \in BOOLEAN, Answer(text)
    PROVE  SteerInv'
<1>1. pc \notin Finished
  BY DEF CallPcs, Finished
<1> QED BY <1>1, ReturnSteer, KeptSteer DEF Answer

LEMMA StepSteer == Typed /\ SteerInv /\ [Next]_vars => SteerInv'
<1> SUFFICES ASSUME Typed, SteerInv, [Next]_vars PROVE SteerInv'
  OBVIOUS
<1>t. TypeOK
  BY DEF Typed
<1>1. CASE StopAtTop
  <2>1. (iterations < MaxIterations /\ signal) \in BOOLEAN /\ pc \notin Finished
    BY <1>1 DEF StopAtTop, Finished
  <2> QED BY <1>1, <1>t, <2>1, ReturnSteer DEF StopAtTop
<1>2. CASE Iterate
  <2>1. pc = "iterate" /\ pc' \notin Finished /\ aborted' = aborted /\ DrainSteer /\ pc \notin Finished
    BY <1>2 DEF Iterate, Finished
  <2>2. CASE inbox # <<>> /\ CanRide
    <3>1. delivered' = delivered \o inbox /\ inbox' = <<>> /\ sent' = sent /\ leftover' = leftover
      BY <2>1, <2>2, Zenon DEF DrainSteer
    <3>2. inbox \in Seq(Nat) /\ delivered \in Seq(Nat) /\ leftover = <<>> /\ ~aborted
      BY <1>t, <2>1 DEF TypeOK, SteerInv
    <3>3. delivered \o <<>> = delivered /\ delivered \o inbox \in Seq(Nat)
      BY <3>2, ConcatEmpty
    <3>4. (delivered \o inbox) \o <<>> = delivered \o inbox
      BY <3>3, ConcatEmpty
    <3>5. delivered' \o leftover' \o inbox' = delivered \o leftover \o inbox
      BY <3>1, <3>2, <3>3, <3>4
    <3>6. ~DropsSteers /\ ~DropsSteers'
      BY <2>1, <3>2 DEF DropsSteers, Finished
    <3> QED BY <2>1, <3>1, <3>2, <3>5, <3>6 DEF SteerInv, SteerFIFO
  <2>3. CASE ~(inbox # <<>> /\ CanRide)
    BY <2>1, <2>3, KeptSteer DEF DrainSteer, Finished
  <2> QED BY <2>2, <2>3
<1>3. CASE Prepared
  BY <1>t, <1>3, ReturnSteer, KeptSteer DEF Prepared, Finished
<1>4. CASE PrepareFails
  BY <1>t, <1>4, ThrowSteer DEF PrepareFails, Finished
<1>5. CASE AttemptStart \/ BackoffEnds \/ CallTool \/ ToolPrepared \/ GateAsks \/ RevalidateOk
           \/ Token \/ StreamReset
  BY <1>5, KeptSteer DEF AttemptStart, BackoffEnds, CallTool, ToolPrepared, GateAsks,
                         RevalidateOk, Token, StreamReset, Finished
<1>6. ASSUME NEW calls \in Batches, Reply(calls) PROVE SteerInv'
  <2>1. pc \notin Finished
    BY <1>6 DEF Reply, Finished
  <2> QED BY <1>t, <1>6, <2>1, ReturnSteer, KeptSteer DEF Reply
<1>7. ASSUME NEW kind \in ErrorKinds, RequestFails(kind) PROVE SteerInv'
  BY <1>t, <1>7, ThrowSteer, KeptSteer DEF RequestFails, Finished
<1>8. CASE CallUnknown \/ ToolPrepareThrows \/ RevalidateStale
           \/ \E text \in BOOLEAN : ToolDone(text)
  BY <1>t, <1>8, AnswerSteer DEF CallUnknown, ToolPrepareThrows, RevalidateStale, ToolDone, CallPcs
<1>9. ASSUME NEW allow, NEW log, pc \in CallPcs, PassAbortCheck(allow, log) PROVE SteerInv'
  BY <1>t, <1>9, AnswerSteer, KeptSteer DEF PassAbortCheck, CallPcs, Finished
<1>10. CASE GatePasses \/ \E d \in Decisions : Decide(d)
  <2>1. /\ pc \in CallPcs
        /\ Answer(TRUE) \/ \E allow, log : PassAbortCheck(allow, log)
    BY <1>10, DecideCases
  <2> QED BY <1>t, <1>9, <2>1, AnswerSteer
<1>11. CASE Steer
  <2>1. /\ pc' = pc /\ pc \notin Finished /\ aborted' = aborted /\ sent' = sent + 1
        /\ inbox' = Append(inbox, sent + 1) /\ delivered' = delivered /\ leftover' = leftover
    BY <1>11 DEF Steer, Awaits, Finished
  <2>2. /\ inbox \in Seq(Nat) /\ delivered \in Seq(Nat) /\ leftover = <<>> /\ ~aborted
        /\ sent \in Nat
    BY <1>t, <2>1, BoundsAssumption DEF TypeOK, SteerInv
  <2>d. ~DropsSteers /\ ~DropsSteers'
    BY <2>1, <2>2 DEF DropsSteers, Finished
  <2>3. delivered \o inbox = FirstSteers(sent)
    BY <2>2, <2>d, ConcatEmpty DEF SteerInv, SteerFIFO
  <2>4. delivered \o Append(inbox, sent + 1) = Append(delivered \o inbox, sent + 1)
    BY <2>2, ConcatAppend
  <2>5. Append(FirstSteers(sent), sent + 1) = FirstSteers(sent + 1)
    BY <2>2, CountAppend DEF FirstSteers
  <2>6. delivered' \o leftover' \o inbox' = FirstSteers(sent')
    BY <2>1, <2>2, <2>3, <2>4, <2>5, ConcatEmpty
  <2> QED BY <2>1, <2>2, <2>d, <2>6 DEF SteerInv, SteerFIFO
<1>12. CASE Interrupt \/ UNCHANGED vars
  <2>1. pc' = pc /\ UNCHANGED <<aborted, steerVars>>
    BY <1>12 DEF Interrupt, vars, steerVars
  <2> QED BY <2>1 DEF SteerInv, SteerFIFO, DropsSteers, steerVars
<1> QED BY <1>1, <1>2, <1>3, <1>4, <1>5, <1>6, <1>7, <1>8, <1>10, <1>11, <1>12
        DEF Next, LoopStep, Ended

\* Every accepted steer rode a tool message, was handed back or still waits,
\* in the order of acceptance; after an interrupt or an error the ones the
\* model was told are the first ones, and none is handed back.
THEOREM SteersInOrder == Spec => []SteerFIFO
<1>1. Spec => [](Typed /\ SteerInv)
  BY InitTyped, StepTyped, InitSteer, StepSteer, PTL DEF Spec
<1> QED BY <1>1, PTL DEF SteerInv
-----------------------------------------------------------------------------
(* SkillsHub, for any sources, skills, files, verdicts, folders and flows. *)

Pieces == Hub!ToSet(Parts)
Hashes == [Pieces -> Nat \cup {None}]
LockTable == [Skills -> Hashes \cup {None}]
Published(t) == [{s \in Skills : TapOf[s] = t} -> Nat]
Lists == UNION {Published(t) : t \in Taps}
HubStages == {"scan", "guard", "head", "fetch", "write", "readLock", "writeLock", "rmdir", "unlock",
              "refresh", "list", "check", "next"}

HubFlow ==
    [kind : {"install", "uninstall", "all"}, skill : Skills \cup {None}, stage : HubStages,
     list : Lists \cup {None}, todo : Seq(Pieces), dest : Folders \cup {None},
     got : Nat \cup {None}, shas : Hashes, table : LockTable \cup {None}, queue : Seq(Skills),
     stale : Seq(Skills), holds : Skills \cup {"all", None}]

\* What the sources and the code give the constants: a skill is of one source and
\* installed in one folder, and None is no name and no flow.
HubBounds ==
    /\ IsFiniteSet(Skills) /\ TapOf \in [Skills -> Taps] /\ DOMAIN SlugOf = Skills
    /\ Parts \in Seq(Pieces) /\ MaxEvents \in Nat
    /\ None \notin Skills \cup {"all"} /\ None \notin HubFlow

\* No other skill is installed in the folder of s.
Sole(s) == \A x \in Skills \ {s} : SlugOf[x] # SlugOf[s]

\* The file p of s is on disk, of version n or one that came out since.
OnDisk(c, s, n) == c = [of |-> s, v |-> c.v] /\ c.v \in Nat /\ n <= c.v /\ c.v <= remote[s]
Has(d, s, p, n) == n \in Nat /\ n <= remote[s] /\ (Sole(s) => OnDisk(disk[d][SlugOf[s]][p], s, n))

\* The steps of a flow and what it carries on each.
Fits(r) ==
    /\ r.stage \in Hub!Writing \cup {"scan", "guard"} => r.skill \in Skills
    /\ r.stage \in {"scan", "guard", "head", "fetch", "write", "writeLock"} =>
         r.list \in Published(TapOf[r.skill]) /\ r.list[r.skill] <= remote[r.skill]
    /\ r.stage \in {"readLock", "rmdir", "unlock"} => r.kind = "uninstall"
    /\ r.stage \in {"scan", "guard", "head", "fetch", "write", "list", "check", "next"} => r.kind # "uninstall"
    /\ r.stage = "scan" => r.holds = r.skill
    /\ r.stage = "guard" => r.holds = None
    /\ r.stage = "write" => /\ r.todo # <<>> /\ r.dest \in Folders /\ r.got \in Nat
                            /\ r.list[r.skill] <= r.got /\ r.got <= remote[r.skill]
    /\ r.stage \in {"writeLock", "rmdir", "unlock"} => r.table \in LockTable /\ r.dest \in Folders

\* A flow that has the skills folder for itself: what it wrote is there, and the
\* lock is as it read it.
Carries(r) ==
    /\ r.stage \in {"fetch", "write", "writeLock"} =>
         \A p \in Pieces : r.shas[p] # None => Has(home, r.skill, p, r.shas[p])
    /\ r.stage = "write" =>
         /\ r.dest = home
         /\ \A p \in Pieces : lock[home][r.skill] # None /\ lock[home][r.skill][p] # None =>
                                  lock[home][r.skill][p] <= r.got
    /\ r.stage \in {"writeLock", "rmdir", "unlock"} => r.table = lock[home] /\ r.dest = home

Apart(f) == flow[f].stage \in Hub!Writing =>
                \A g \in Flows \ {f} : flow[g] # None => flow[g].stage \notin Hub!Writing

\* What the lock says of a file is true of the disk, but for the skill that is
\* being uninstalled.
Uninstalling(d, s) == \E f \in Flows : Hub!At(f, "unlock") /\ flow[f].skill = s /\ flow[f].dest = d
LockTells ==
    \A d \in Folders, s \in Skills, p \in Pieces :
        lock[d][s] # None /\ lock[d][s][p] # None => Uninstalling(d, s) \/ Has(d, s, p, lock[d][s][p])

TakeTurnsWriting == LockTells /\ \A f \in Flows : flow[f] # None => Apart(f) /\ Carries(flow[f])

Versions == remote \in [Skills -> Nat] /\ events \in 0 .. MaxEvents /\ \A s \in Skills : remote[s] <= events
Disks == [Folders -> [Hub!Slugs -> [Pieces -> [of : Skills, v : Nat] \cup {None}]]]
Locks == [Folders -> LockTable]
HubShape ==
    /\ Versions /\ taps \subseteq Taps /\ loads \subseteq Taps
    /\ installed \subseteq Skills /\ busy \subseteq Skills \cup {"all"} /\ home \in Folders
    /\ mixed \in BOOLEAN /\ flow \in [Flows -> HubFlow \cup {None}] /\ disk \in Disks /\ lock \in Locks

\* A listing is of its source, and no newer than the source.
ListedOf(t, l) == l \in Published(t) /\ \A s \in DOMAIN l : l[s] <= remote[s]
ListingsOld ==
    /\ entries \in [Taps -> Lists \cup {None}]
    /\ listings \in [Taps -> [fresh : BOOLEAN, list : Lists] \cup {None}]
    /\ \A t \in Taps : /\ entries[t] # None => ListedOf(t, entries[t])
                       /\ listings[t] # None => ListedOf(t, listings[t].list)

FlowsFit == \A f \in Flows : flow[f] # None => Fits(flow[f])

HubInv ==
    /\ HubShape /\ ListingsOld /\ FlowsFit /\ Hub!BusyIsHeld
    /\ ~mixed => TakeTurnsWriting

-----------------------------------------------------------------------------
(* The operators.                                                          *)

LEMMA HubFlows ==
    ASSUME HubBounds, HubInv, NEW f \in Flows, flow[f] # None
    PROVE  flow[f] \in HubFlow /\ Fits(flow[f])
BY DEF HubInv, HubShape, FlowsFit

\* The installed skills in some order.
LEMMA SkillsInOrder ==
    ASSUME HubBounds, NEW S \in SUBSET Skills
    PROVE  Hub!SetToSeq(S) \in Seq(Skills)
<1>1. IsFiniteSet(S)
  BY FS_Subset DEF HubBounds
<1>2. Cardinality(S) \in Nat /\ ExistsBijection(1 .. Cardinality(S), S)
  BY <1>1, FS_CardinalityType
<1>3. PICK b \in [1 .. Cardinality(S) -> S] : \A i, j \in 1 .. Cardinality(S) : b[i] = b[j] => i = j
  BY <1>2 DEF ExistsBijection, Bijection, Injection, IsInjective
<1>4. Hub!IsInjective(b)
  BY <1>3 DEF Hub!IsInjective
<1>5. Hub!Cardinality(S) = Cardinality(S)
  BY DEF Hub!Cardinality, Cardinality
<1>6. Hub!SetToSeq(S) \in [1 .. Cardinality(S) -> S]
  BY <1>3, <1>4, <1>5 DEF Hub!SetToSeq
<1> QED BY <1>2, <1>6

LEMMA ListingNow ==
    ASSUME HubBounds, HubInv, NEW t \in Taps
    PROVE  Hub!Listing(t) \in Lists /\ ListedOf(t, Hub!Listing(t))
<1>1. remote \in [Skills -> Nat]
  BY DEF HubInv, HubShape, Versions
<1>2. Hub!Listing(t) = [s \in {x \in Skills : TapOf[x] = t} |-> remote[s]]
  BY DEF Hub!Listing
<1>3. Hub!Listing(t) \in Published(t) /\ \A s \in DOMAIN Hub!Listing(t) : Hub!Listing(t)[s] <= remote[s]
  BY <1>1, <1>2 DEF Published
<1> QED BY <1>3 DEF Lists, ListedOf

LEMMA NoHashes == Hub!NoShas \in Hashes /\ \A p \in Pieces : Hub!NoShas[p] = None
BY DEF Hub!NoShas, Hashes, Pieces

\* A listing that was fetched is kept with the settings.
NewListings == UNCHANGED listings \/ \E t \in Taps : Hub!Cached(t)

LEMMA ListingsKept ==
    ASSUME HubBounds, HubInv, NewListings, UNCHANGED <<remote, entries>>
    PROVE  ListingsOld'
<1>1. ASSUME NEW t \in Taps, Hub!Cached(t)
      PROVE  ListingsOld'
  <2>1. PICK l : l = Hub!Listing(t)
    OBVIOUS
  <2>2. l \in Lists /\ ListedOf(t, l)
    BY <2>1, ListingNow
  <2>3. listings' = [listings EXCEPT ![t] = [fresh |-> TRUE, list |-> l]]
    BY <1>1, <2>1 DEF Hub!Cached
  <2>4. listings \in [Taps -> [fresh : BOOLEAN, list : Lists] \cup {None}]
    BY DEF HubInv, ListingsOld
  <2>5. listings' \in [Taps -> [fresh : BOOLEAN, list : Lists] \cup {None}]
    BY <2>2, <2>3, <2>4
  <2>6. ASSUME NEW u \in Taps, listings'[u] # None PROVE ListedOf(u, listings[u].list)'
    <3>1. CASE u = t
      <4>1. listings'[u].list = l
        BY <2>3, <2>4, <3>1
      <4> QED BY <2>2, <3>1, <4>1 DEF ListedOf
    <3>2. CASE u # t
      <4>1. listings'[u] = listings[u]
        BY <2>3, <2>4, <3>2
      <4> QED BY <2>6, <4>1 DEF HubInv, ListingsOld, ListedOf
    <3> QED BY <3>1, <3>2
  <2> QED BY <2>5, <2>6 DEF HubInv, ListingsOld, ListedOf
<1>2. CASE UNCHANGED listings
  BY <1>2 DEF HubInv, ListingsOld, ListedOf
<1> QED BY <1>1, <1>2 DEF NewListings

-----------------------------------------------------------------------------
(* A step of one flow.                                                     *)

\* The button of the flow f, that goes on as r: given back, or still held.
ButtonOf(f, r) ==
    /\ busy' \subseteq Skills \cup {"all"}
    /\ \A s \in busy' : \/ s \in busy /\ (flow[f] # None => flow[f].holds # s)
                        \/ r # None /\ r.holds = s

Ticks == events' \in 0 .. MaxEvents /\ events <= events'

LEMMA FlowMoves ==
    ASSUME HubBounds, HubInv, NEW f \in Flows, NEW r \in HubFlow \cup {None},
           flow' = [flow EXCEPT ![f] = r], r # None => Fits(r), mixed' \in BOOLEAN, ButtonOf(f, r),
           UNCHANGED <<remote, taps, entries, loads, home>>, Ticks, NewListings, installed' \subseteq Skills,
           disk' \in Disks, lock' \in Locks
    PROVE  HubShape' /\ ListingsOld' /\ FlowsFit' /\ Hub!BusyIsHeld'
<1>1. /\ flow' \in [Flows -> HubFlow \cup {None}] /\ flow'[f] = r
      /\ \A g \in Flows \ {f} : flow'[g] = flow[g]
  BY DEF HubInv, HubShape
<1>2. Versions'
  BY DEF HubInv, HubShape, Versions, Ticks
<1>3. HubShape'
  BY <1>1, <1>2 DEF HubInv, HubShape, ButtonOf, Disks, Locks
<1>4. FlowsFit'
  <2> SUFFICES ASSUME NEW g \in Flows, flow'[g] # None PROVE Fits(flow[g])'
    BY DEF FlowsFit
  <2>1. CASE g = f
    BY <1>1, <2>1 DEF Fits
  <2>2. CASE g # f
    <3>1. flow'[g] = flow[g] /\ Fits(flow[g])
      BY <1>1, <2>2 DEF HubInv, FlowsFit
    <3> QED BY <3>1 DEF Fits
  <2> QED BY <2>1, <2>2
<1>5. Hub!BusyIsHeld'
  <2> SUFFICES ASSUME NEW s \in busy' PROVE \E g \in Flows : flow'[g] # None /\ flow'[g].holds = s
    BY DEF Hub!BusyIsHeld
  <2>1. CASE r # None /\ r.holds = s
    BY <1>1, <2>1
  <2>2. CASE s \in busy /\ (flow[f] # None => flow[f].holds # s)
    <3>1. PICK g \in Flows : flow[g] # None /\ flow[g].holds = s
      BY <2>2 DEF HubInv, Hub!BusyIsHeld
    <3>2. g # f
      BY <2>2, <3>1
    <3> QED BY <1>1, <3>1, <3>2
  <2> QED BY <2>1, <2>2 DEF ButtonOf
<1> QED BY <1>3, <1>4, <1>5, ListingsKept

\* One that leaves the disk and the lock file as they are.
LEMMA FlowGoesOn ==
    ASSUME HubBounds, HubInv, NEW f \in Flows, NEW r \in HubFlow \cup {None},
           flow' = [flow EXCEPT ![f] = r], r # None => Fits(r), mixed' \in BOOLEAN, ButtonOf(f, r),
           UNCHANGED <<remote, taps, entries, loads, home>>, Ticks, NewListings, installed' \subseteq Skills,
           UNCHANGED <<disk, lock>>, ~Hub!At(f, "unlock"),
           ~mixed' => ~mixed /\ (r # None /\ r.stage \in Hub!Writing => ~Hub!Overlapping(f)),
           ~mixed /\ r # None => Carries(r)
    PROVE  HubInv'
<1>1. /\ flow' \in [Flows -> HubFlow \cup {None}] /\ flow'[f] = r
      /\ \A g \in Flows \ {f} : flow'[g] = flow[g]
  BY DEF HubInv, HubShape
<1>2. disk' \in Disks /\ lock' \in Locks
  BY DEF HubInv, HubShape, Disks, Locks
<1>3. HubShape' /\ ListingsOld' /\ FlowsFit' /\ Hub!BusyIsHeld'
  BY <1>2, FlowMoves
<1>4. ASSUME ~mixed' PROVE TakeTurnsWriting'
  <2>1. ~mixed /\ TakeTurnsWriting /\ (r # None /\ r.stage \in Hub!Writing => ~Hub!Overlapping(f))
    BY <1>4 DEF HubInv
  <2>2. LockTells'
    <3> SUFFICES ASSUME NEW d \in Folders, NEW s \in Skills, NEW p \in Pieces,
                        lock[d][s] # None /\ lock[d][s][p] # None
                 PROVE  Uninstalling(d, s)' \/ Has(d, s, p, lock[d][s][p])'
      BY DEF LockTells
    <3>1. CASE Has(d, s, p, lock[d][s][p])
      BY <3>1 DEF Has, OnDisk
    <3>2. CASE Uninstalling(d, s)
      <4>1. PICK g \in Flows : Hub!At(g, "unlock") /\ flow[g].skill = s /\ flow[g].dest = d
        BY <3>2 DEF Uninstalling
      <4>2. g # f
        BY <4>1
      <4> QED BY <1>1, <4>1, <4>2 DEF Uninstalling, Hub!At
    <3> QED BY <2>1, <3>1, <3>2 DEF TakeTurnsWriting, LockTells
  <2>3. ASSUME NEW g \in Flows, flow'[g] # None PROVE Apart(g)' /\ Carries(flow[g])'
    <3>1. CASE g = f
      <4>1. Carries(r) /\ flow'[g] = r
        BY <1>1, <2>1, <2>3, <3>1
      <4>2. Carries(flow[g])'
        BY <4>1 DEF Carries, Has, OnDisk
      <4>3. Apart(g)'
        BY <1>1, <2>1, <2>3, <3>1 DEF Apart, Hub!Overlapping, Hub!Writing
      <4> QED BY <4>2, <4>3
    <3>2. CASE g # f
      <4>1. flow'[g] = flow[g] /\ Carries(flow[g]) /\ Apart(g)
        BY <1>1, <2>1, <2>3, <3>2 DEF TakeTurnsWriting
      <4>2. Carries(flow[g])'
        BY <4>1 DEF Carries, Has, OnDisk
      <4>3. Apart(g)'
        <5> SUFFICES ASSUME flow'[g].stage \in Hub!Writing, NEW h \in Flows \ {g}, flow'[h] # None
                     PROVE  flow'[h].stage \notin Hub!Writing
          BY DEF Apart, Hub!Writing
        <5>1. CASE h = f
          BY <1>1, <2>1, <2>3, <3>2, <4>1, <5>1 DEF Hub!Overlapping
        <5>2. CASE h # f
          BY <1>1, <4>1, <5>2 DEF Apart
        <5> QED BY <5>1, <5>2
      <4> QED BY <4>2, <4>3
    <3> QED BY <3>1, <3>2
  <2> QED BY <2>2, <2>3 DEF TakeTurnsWriting
<1> QED BY <1>3, <1>4 DEF HubInv

LEMMA HubTicks ==
    ASSUME HubBounds, HubInv, UNCHANGED Hub!bounds \/ Hub!Event \/ (\E ok \in BOOLEAN : Hub!May(ok))
    PROVE  Ticks
<1>1. events \in 0 .. MaxEvents
  BY DEF HubInv, HubShape, Versions
<1>2. UNCHANGED Hub!bounds \/ Hub!Event
  BY DEF Hub!May
<1> QED BY <1>1, <1>2 DEF Ticks, Hub!bounds, Hub!Event, HubBounds

\* A flow that goes on with the same button.
LEMMA FlowTo ==
    ASSUME HubBounds, HubInv, NEW f \in Flows, flow[f] # None, ~Hub!At(f, "unlock"), NEW r \in HubFlow,
           Hub!To(f, r), r.holds = flow[f].holds, UNCHANGED busy, Fits(r), ~mixed => Carries(r),
           Hub!Still, Ticks, NewListings, UNCHANGED <<disk, lock, installed>>
    PROVE  HubInv'
<1>1. flow' = [flow EXCEPT ![f] = r]
      /\ mixed' = (mixed \/ (r # None /\ r.stage \in Hub!Writing /\ Hub!Overlapping(f)))
  BY DEF Hub!To
<1>2. UNCHANGED <<remote, taps, entries, loads, home>>
  BY DEF Hub!Still
<1>3. mixed \in BOOLEAN /\ busy \subseteq Skills \cup {"all"} /\ installed' \subseteq Skills
  BY DEF HubInv, HubShape
<1>4. mixed' \in BOOLEAN /\ (~mixed' => ~mixed /\ (r # None /\ r.stage \in Hub!Writing => ~Hub!Overlapping(f)))
  BY <1>1, <1>3
<1>5. r # None
  BY DEF HubBounds
<1>6. ButtonOf(f, r)
  BY <1>3, <1>5 DEF ButtonOf
<1> QED BY <1>1, <1>2, <1>3, <1>4, <1>6, FlowGoesOn

\* A flow that ends and gives its button back.
LEMMA FlowEnds ==
    ASSUME HubBounds, HubInv, NEW f \in Flows, flow[f] # None, ~Hub!At(f, "unlock"), Hub!Ends(f),
           Hub!Still, Ticks, NewListings, installed' \subseteq Skills, UNCHANGED <<disk, lock>>
    PROVE  HubInv'
<1>1. flow' = [flow EXCEPT ![f] = None] /\ busy' = busy \ {flow[f].holds}
  BY DEF Hub!To, Hub!Ends
<1>2. mixed' = mixed
  <2>1. mixed' = (mixed \/ (None # None /\ None.stage \in Hub!Writing /\ Hub!Overlapping(f)))
    BY DEF Hub!To, Hub!Ends
  <2>2. mixed \in BOOLEAN
    BY DEF HubInv, HubShape
  <2> QED BY <2>1, <2>2
<1>3. UNCHANGED <<remote, taps, entries, loads, home>>
  BY DEF Hub!Still
<1>4. mixed \in BOOLEAN /\ busy \subseteq Skills \cup {"all"}
  BY DEF HubInv, HubShape
<1>5. ButtonOf(f, None)
  BY <1>1, <1>4 DEF ButtonOf
<1> QED BY <1>1, <1>2, <1>3, <1>4, <1>5, FlowGoesOn

\* The next stage of a flow, everything else as it was.
LEMMA FlowAt ==
    ASSUME NEW q \in HubFlow, NEW st \in HubStages, NEW r, r = [q EXCEPT !.stage = st]
    PROVE  /\ r \in HubFlow /\ r.stage = st /\ r.kind = q.kind /\ r.skill = q.skill /\ r.list = q.list
           /\ r.todo = q.todo /\ r.dest = q.dest /\ r.got = q.got /\ r.shas = q.shas /\ r.table = q.table
           /\ r.queue = q.queue /\ r.stale = q.stale /\ r.holds = q.holds
BY DEF HubFlow

LEMMA StageIs ==
    ASSUME HubBounds, HubInv, NEW f \in Flows, NEW st, Hub!At(f, st)
    PROVE  /\ flow[f] # None /\ flow[f] \in HubFlow /\ Fits(flow[f]) /\ flow[f].stage = st
           /\ ~mixed => Apart(f) /\ Carries(flow[f]) /\ LockTells
           /\ st # "unlock" => ~Hub!At(f, "unlock")
BY HubFlows DEF Hub!At, HubInv, TakeTurnsWriting

LEMMA HubScanned ==
    ASSUME HubBounds, HubInv, NEW f \in Flows, Hub!Scanned(f)
    PROVE  HubInv'
<1>1. PICK q \in HubFlow : q = flow[f] /\ q # None /\ Fits(q) /\ q.stage = "scan" /\ ~Hub!At(f, "unlock")
  BY StageIs DEF Hub!Scanned
<1>2. /\ q.skill \in Skills /\ q.kind # "uninstall" /\ q.holds = q.skill
      /\ q.list \in Published(TapOf[q.skill]) /\ q.list[q.skill] <= remote[q.skill]
  BY <1>1 DEF Fits
<1>3. /\ Hub!Still /\ UNCHANGED <<listings, installed, disk, lock>> /\ UNCHANGED Hub!bounds
  BY DEF Hub!Scanned, Hub!diskVars
<1>4. Ticks /\ NewListings
  BY <1>3, HubTicks DEF NewListings
<1>5. CASE Hub!Asks(Hub!Scan(q.skill))
  <2>1. PICK r : r = [q EXCEPT !.stage = "guard", !.holds = None]
    OBVIOUS
  <2>2. r \in HubFlow /\ r.stage = "guard" /\ r.skill = q.skill /\ r.kind = q.kind /\ r.list = q.list
        /\ r.holds = None
    BY <2>1 DEF HubFlow, HubStages
  <2>3. Hub!To(f, r) /\ busy' = busy \ {q.skill}
    BY <1>1, <1>5, <2>1 DEF Hub!Scanned
  <2>4. Fits(r)
    BY <1>2, <2>2 DEF Fits, Hub!Writing
  <2>5. Carries(r)
    BY <2>2 DEF Carries
  <2>6. flow' = [flow EXCEPT ![f] = r] /\ mixed' = mixed
    <3>1. flow' = [flow EXCEPT ![f] = r]
          /\ mixed' = (mixed \/ (r # None /\ r.stage \in Hub!Writing /\ Hub!Overlapping(f)))
      BY <2>3 DEF Hub!To
    <3>2. r.stage \notin Hub!Writing /\ mixed \in BOOLEAN
      BY <2>2 DEF Hub!Writing, HubInv, HubShape
    <3> QED BY <3>1, <3>2
  <2>7. busy \subseteq Skills \cup {"all"} /\ mixed \in BOOLEAN /\ installed' \subseteq Skills
    BY <1>3 DEF HubInv, HubShape
  <2>8. ButtonOf(f, r)
    BY <1>1, <1>2, <2>3, <2>7 DEF ButtonOf
  <2>9. UNCHANGED <<remote, taps, entries, loads, home>>
    BY <1>3 DEF Hub!Still
  <2>10. r.stage \notin Hub!Writing
    BY <2>2 DEF Hub!Writing
  <2> QED BY <1>1, <1>3, <1>4, <2>2, <2>4, <2>5, <2>6, <2>7, <2>8, <2>9, <2>10, FlowGoesOn
<1>6. CASE ~Hub!Asks(Hub!Scan(q.skill))
  <2>1. PICK r : r = [q EXCEPT !.stage = "head"]
    OBVIOUS
  <2>2. r \in HubFlow /\ r.stage = "head" /\ r.skill = q.skill /\ r.kind = q.kind /\ r.list = q.list
        /\ r.holds = q.holds
    BY <2>1, FlowAt DEF HubStages
  <2>3. Hub!To(f, r) /\ UNCHANGED busy
    BY <1>1, <1>6, <2>1 DEF Hub!Scanned
  <2>4. Fits(r) /\ Carries(r)
    BY <1>2, <2>2 DEF Fits, Hub!Writing, Carries
  <2> QED BY <1>1, <1>3, <1>4, <2>2, <2>3, <2>4, FlowTo
<1> QED BY <1>5, <1>6

LEMMA HubGuardAnswers ==
    ASSUME HubBounds, HubInv, NEW f \in Flows, NEW yes \in BOOLEAN, Hub!GuardAnswers(f, yes)
    PROVE  HubInv'
<1>1. PICK q \in HubFlow : q = flow[f] /\ q # None /\ Fits(q) /\ q.stage = "guard" /\ ~Hub!At(f, "unlock")
  BY StageIs DEF Hub!GuardAnswers
<1>2. /\ q.skill \in Skills /\ q.kind # "uninstall" /\ q.holds = None
      /\ q.list \in Published(TapOf[q.skill]) /\ q.list[q.skill] <= remote[q.skill]
  BY <1>1 DEF Fits
<1>3. /\ Hub!Still /\ UNCHANGED <<listings, installed, busy, disk, lock>> /\ UNCHANGED Hub!bounds
  BY DEF Hub!GuardAnswers, Hub!diskVars
<1>4. Ticks /\ NewListings /\ installed' \subseteq Skills
  BY <1>3, HubTicks DEF NewListings, HubInv, HubShape
<1>5. CASE yes
  <2>1. PICK r : r = [q EXCEPT !.stage = "head"]
    OBVIOUS
  <2>2. r \in HubFlow /\ r.stage = "head" /\ r.skill = q.skill /\ r.kind = q.kind /\ r.list = q.list
        /\ r.holds = q.holds
    BY <2>1, FlowAt DEF HubStages
  <2>3. Hub!To(f, r)
    BY <1>1, <1>5, <2>1 DEF Hub!GuardAnswers
  <2>4. Fits(r) /\ Carries(r)
    BY <1>2, <2>2 DEF Fits, Hub!Writing, Carries
  <2> QED BY <1>1, <1>3, <1>4, <2>2, <2>3, <2>4, FlowTo
<1>6. CASE ~yes
  <2>1. busy' = busy \ {flow[f].holds}
    <3>1. None \notin busy
      BY DEF HubInv, HubShape, HubBounds
    <3> QED BY <1>1, <1>2, <1>3, <3>1
  <2>2. Hub!To(f, None)
    BY <1>6 DEF Hub!GuardAnswers
  <2> QED BY <1>1, <1>3, <1>4, <2>1, <2>2, FlowEnds DEF Hub!Ends
<1> QED BY <1>5, <1>6

LEMMA HubHead ==
    ASSUME HubBounds, HubInv, NEW f \in Flows, NEW ok \in BOOLEAN, Hub!Head0(f, ok)
    PROVE  HubInv'
<1>1. PICK q \in HubFlow : q = flow[f] /\ q # None /\ Fits(q) /\ q.stage = "head" /\ ~Hub!At(f, "unlock")
  BY StageIs DEF Hub!Head0
<1>2. /\ q.skill \in Skills /\ q.kind # "uninstall"
      /\ q.list \in Published(TapOf[q.skill]) /\ q.list[q.skill] <= remote[q.skill]
  BY <1>1 DEF Fits, Hub!Writing
<1>3. /\ Hub!Still /\ UNCHANGED <<listings, installed, disk, lock>> /\ Hub!May(ok)
  BY DEF Hub!Head0, Hub!diskVars
<1>4. Ticks /\ NewListings /\ installed' \subseteq Skills
  BY <1>3, HubTicks DEF NewListings, HubInv, HubShape
<1>5. CASE ok
  <2>1. PICK r : r = [q EXCEPT !.stage = "fetch", !.todo = Parts, !.shas = Hub!NoShas]
    OBVIOUS
  <2>2. r \in HubFlow /\ r.stage = "fetch" /\ r.skill = q.skill /\ r.kind = q.kind /\ r.list = q.list
        /\ r.holds = q.holds /\ r.shas = Hub!NoShas
    <3>1. Parts \in Seq(Pieces) /\ Hub!NoShas \in Hashes
      BY NoHashes DEF HubBounds
    <3> QED BY <2>1, <3>1 DEF HubFlow, HubStages
  <2>3. Hub!To(f, r) /\ UNCHANGED busy
    BY <1>1, <1>5, <2>1 DEF Hub!Head0
  <2>4. Fits(r)
    BY <1>2, <2>2 DEF Fits, Hub!Writing
  <2>5. Carries(r)
    BY <2>2, NoHashes DEF Carries
  <2> QED BY <1>1, <1>3, <1>4, <2>2, <2>3, <2>4, <2>5, FlowTo
<1>6. CASE ~ok
  <2>1. Hub!Ends(f)
    BY <1>6 DEF Hub!Head0
  <2> QED BY <1>1, <1>3, <1>4, <2>1, FlowEnds
<1> QED BY <1>5, <1>6

LEMMA HubFetch ==
    ASSUME HubBounds, HubInv, NEW f \in Flows, NEW result \in {"file", "none", "broken"},
           Hub!Fetch(f, result)
    PROVE  HubInv'
<1>1. PICK q \in HubFlow : /\ q = flow[f] /\ q # None /\ Fits(q) /\ q.stage = "fetch" /\ ~Hub!At(f, "unlock")
                           /\ ~mixed => Apart(f) /\ Carries(q) /\ LockTells
  BY StageIs DEF Hub!Fetch
<1>2. /\ q.skill \in Skills /\ q.kind # "uninstall"
      /\ q.list \in Published(TapOf[q.skill]) /\ q.list[q.skill] <= remote[q.skill]
  BY <1>1 DEF Fits, Hub!Writing
<1>3. /\ Hub!Still /\ UNCHANGED <<listings, installed, disk, lock>> /\ q.todo # <<>>
      /\ \E ok \in BOOLEAN : Hub!May(ok)
  <2>1. Hub!May(result = "file") /\ (result = "file") \in BOOLEAN
    BY DEF Hub!Fetch
  <2> QED BY <1>1, <2>1 DEF Hub!Fetch, Hub!diskVars
<1>4. Ticks /\ NewListings /\ installed' \subseteq Skills
  BY <1>3, HubTicks DEF NewListings, HubInv, HubShape
<1>5. CASE result = "file"
  <2>1. PICK r : r = [q EXCEPT !.stage = "write", !.dest = home, !.got = remote[q.skill]]
    OBVIOUS
  <2>2. remote[q.skill] \in Nat /\ home \in Folders /\ q.list[q.skill] \in Nat
    <3>1. q.skill \in {s \in Skills : TapOf[s] = TapOf[q.skill]}
      BY <1>2
    <3> QED BY <1>2, <3>1 DEF HubInv, HubShape, Versions, Published
  <2>3. r \in HubFlow /\ r.stage = "write" /\ r.skill = q.skill /\ r.kind = q.kind /\ r.list = q.list
        /\ r.holds = q.holds /\ r.shas = q.shas /\ r.dest = home /\ r.got = remote[q.skill] /\ r.todo = q.todo
    BY <2>1, <2>2 DEF HubFlow, HubStages
  <2>4. Hub!To(f, r) /\ UNCHANGED busy
    BY <1>1, <1>5, <2>1 DEF Hub!Fetch
  <2>5. Fits(r)
    BY <1>2, <1>3, <2>2, <2>3 DEF Fits, Hub!Writing
  <2>6. ASSUME ~mixed PROVE Carries(r)
    <3>1. ASSUME NEW p \in Pieces, lock[home][q.skill] # None, lock[home][q.skill][p] # None
          PROVE  lock[home][q.skill][p] <= r.got
      <4>1. ~Uninstalling(home, q.skill)
        BY <1>1, <2>6 DEF Apart, Uninstalling, Hub!At, Hub!Writing
      <4>2. Has(home, q.skill, p, lock[home][q.skill][p])
        BY <1>1, <1>2, <2>2, <2>6, <3>1, <4>1 DEF LockTells
      <4> QED BY <2>3, <4>2 DEF Has
    <3>2. \A p \in Pieces : q.shas[p] # None => Has(home, q.skill, p, q.shas[p])
      BY <1>1, <2>6 DEF Carries
    <3> QED BY <2>3, <3>1, <3>2 DEF Carries
  <2> QED BY <1>1, <1>3, <1>4, <2>3, <2>4, <2>5, <2>6, FlowTo
<1>6. CASE result = "none"
  <2>1. PICK t : t = Tail(q.todo)
    OBVIOUS
  <2>2. t \in Seq(Pieces)
    BY <1>3, <2>1 DEF HubFlow
  <2>3. PICK r : r = [q EXCEPT !.todo = t]
    OBVIOUS
  <2>4. r \in HubFlow /\ r.stage = "fetch" /\ r.skill = q.skill /\ r.kind = q.kind /\ r.list = q.list
        /\ r.holds = q.holds /\ r.shas = q.shas
    BY <1>1, <2>2, <2>3 DEF HubFlow
  <2>5. Hub!To(f, r) /\ UNCHANGED busy
    BY <1>1, <1>6, <2>1, <2>3 DEF Hub!Fetch
  <2>6. Fits(r)
    BY <1>2, <2>4 DEF Fits, Hub!Writing
  <2>7. ~mixed => Carries(r)
    BY <1>1, <2>4 DEF Carries
  <2> QED BY <1>1, <1>3, <1>4, <2>4, <2>5, <2>6, <2>7, FlowTo
<1>7. CASE result = "broken"
  <2>1. Hub!Ends(f)
    BY <1>7 DEF Hub!Fetch
  <2> QED BY <1>1, <1>3, <1>4, <2>1, FlowEnds
<1> QED BY <1>5, <1>6, <1>7

\* The lock file is read where the skills folder is now.
LEMMA HubReadLock ==
    ASSUME HubBounds, HubInv, NEW f \in Flows, Hub!ReadLock(f)
    PROVE  HubInv'
<1>1. PICK q \in HubFlow : /\ q = flow[f] /\ q # None /\ Fits(q) /\ ~Hub!At(f, "unlock")
                           /\ q.stage = "readLock" \/ q.stage = "fetch"
                           /\ ~mixed => Carries(q)
  BY StageIs DEF Hub!ReadLock
<1>2. q.skill \in Skills /\ (q.stage = "readLock" <=> q.kind = "uninstall")
  BY <1>1 DEF Fits, Hub!Writing
<1>3. /\ Hub!Still /\ UNCHANGED <<listings, installed, busy, disk, lock>> /\ UNCHANGED Hub!bounds
  BY DEF Hub!ReadLock, Hub!diskVars
<1>4. Ticks /\ NewListings
  BY <1>3, HubTicks DEF NewListings
<1>5. PICK q2 : q2 = [q EXCEPT !.table = lock[home], !.dest = home]
  OBVIOUS
<1>6. lock[home] \in LockTable /\ home \in Folders
  BY DEF HubInv, HubShape, Locks
<1>7. /\ q2 \in HubFlow /\ q2.stage = q.stage /\ q2.kind = q.kind /\ q2.skill = q.skill /\ q2.list = q.list
      /\ q2.shas = q.shas /\ q2.holds = q.holds /\ q2.table = lock[home] /\ q2.dest = home
  BY <1>5, <1>6 DEF HubFlow
<1>8. CASE q.kind # "uninstall"
  <2>1. PICK r : r = [q2 EXCEPT !.stage = "writeLock"]
    OBVIOUS
  <2>2. r \in HubFlow /\ r.stage = "writeLock" /\ r.skill = q.skill /\ r.kind = q.kind /\ r.list = q.list
        /\ r.holds = q.holds /\ r.shas = q.shas /\ r.table = lock[home] /\ r.dest = home
    BY <1>7, <2>1, FlowAt DEF HubStages
  <2>3. Hub!To(f, r)
    BY <1>1, <1>5, <1>7, <1>8, <2>1 DEF Hub!ReadLock
  <2>4. q.stage = "fetch" /\ q.list \in Published(TapOf[q.skill]) /\ q.list[q.skill] <= remote[q.skill]
    BY <1>1, <1>2, <1>8 DEF Fits
  <2>5. Fits(r)
    BY <1>2, <1>6, <1>8, <2>2, <2>4 DEF Fits, Hub!Writing
  <2>6. ~mixed => Carries(r)
    BY <1>1, <2>2, <2>4 DEF Carries
  <2> QED BY <1>1, <1>3, <1>4, <2>2, <2>3, <2>5, <2>6, FlowTo
<1>9. CASE q.kind = "uninstall"
  <2>1. PICK st \in {"refresh", "rmdir"} : st = IF q2.table[q2.skill] = None THEN "refresh" ELSE "rmdir"
    OBVIOUS
  <2>2. PICK r : r = [q2 EXCEPT !.stage = st]
    OBVIOUS
  <2>3. r \in HubFlow /\ r.stage = st /\ r.skill = q.skill /\ r.kind = q.kind /\ r.list = q.list
        /\ r.holds = q.holds /\ r.shas = q.shas /\ r.table = lock[home] /\ r.dest = home
    <3>1. st \in HubStages
      BY DEF HubStages
    <3> QED BY <1>7, <2>2, <3>1, FlowAt
  <2>4. Hub!To(f, r)
    BY <1>1, <1>5, <1>7, <1>9, <2>1, <2>2 DEF Hub!ReadLock
  <2>5. Fits(r)
    BY <1>2, <1>6, <1>9, <2>3 DEF Fits, Hub!Writing
  <2>6. Carries(r)
    BY <2>3 DEF Carries
  <2> QED BY <1>1, <1>3, <1>4, <2>3, <2>4, <2>5, <2>6, FlowTo
<1> QED BY <1>8, <1>9

LEMMA HubRefresh ==
    ASSUME HubBounds, HubInv, NEW f \in Flows, Hub!Refresh(f)
    PROVE  HubInv'
<1>1. flow[f] # None /\ ~Hub!At(f, "unlock")
  BY StageIs DEF Hub!Refresh
<1>2. /\ Hub!Still /\ UNCHANGED <<listings, disk, lock>> /\ UNCHANGED Hub!bounds
      /\ Hub!Ends(f) /\ installed' \subseteq Skills
  BY DEF Hub!Refresh, Hub!diskVars
<1>3. Ticks /\ NewListings
  BY <1>2, HubTicks DEF NewListings
<1> QED BY <1>1, <1>2, <1>3, FlowEnds

\* "Update all" lists what is locked and asks the sources.
LEMMA HubLists ==
    ASSUME HubBounds, HubInv, NEW f \in Flows, Hub!ListLocked(f)
    PROVE  HubInv'
<1>1. PICK q \in HubFlow : q = flow[f] /\ q # None /\ Fits(q) /\ q.stage = "list" /\ ~Hub!At(f, "unlock")
  BY StageIs DEF Hub!ListLocked
<1>2. q.kind # "uninstall"
  BY <1>1 DEF Fits
<1>3. /\ Hub!Still /\ UNCHANGED <<listings, installed, busy, disk, lock>> /\ UNCHANGED Hub!bounds
  BY DEF Hub!ListLocked, Hub!diskVars
<1>4. Ticks /\ NewListings
  BY <1>3, HubTicks DEF NewListings
<1>5. PICK u : u = Hub!SetToSeq({s \in Skills : lock[home][s] # None})
  OBVIOUS
<1>6. u \in Seq(Skills) /\ lock[home] \in LockTable
  <2>1. {s \in Skills : lock[home][s] # None} \in SUBSET Skills
    OBVIOUS
  <2> QED BY <1>5, <2>1, SkillsInOrder DEF HubInv, HubShape, Locks
<1>7. PICK r : r = [q EXCEPT !.stage = "check", !.table = lock[home], !.queue = u]
  OBVIOUS
<1>8. r \in HubFlow /\ r.stage = "check" /\ r.kind = q.kind /\ r.holds = q.holds
  BY <1>6, <1>7 DEF HubFlow, HubStages
<1>9. Hub!To(f, r)
  BY <1>1, <1>5, <1>7 DEF Hub!ListLocked
<1>10. Fits(r) /\ Carries(r)
  BY <1>2, <1>8 DEF Fits, Carries, Hub!Writing
<1> QED BY <1>1, <1>3, <1>4, <1>8, <1>9, <1>10, FlowTo

LEMMA HubCheck ==
    ASSUME HubBounds, HubInv, NEW f \in Flows, NEW ok \in BOOLEAN, Hub!Check(f, ok)
    PROVE  HubInv'
<1>1. PICK q \in HubFlow : q = flow[f] /\ q # None /\ Fits(q) /\ q.stage = "check" /\ ~Hub!At(f, "unlock")
  BY StageIs DEF Hub!Check
<1>2. q.kind # "uninstall"
  BY <1>1 DEF Fits
<1>3. /\ Hub!Still /\ UNCHANGED <<installed, busy, disk, lock>> /\ Hub!May(ok) /\ q.queue # <<>>
  BY <1>1 DEF Hub!Check, Hub!diskVars
<1>4. Ticks
  BY <1>3, HubTicks
<1>5. PICK s, u : s = Head(q.queue) /\ u = Tail(q.queue)
  OBVIOUS
<1>6. s \in Skills /\ u \in Seq(Skills) /\ TapOf[s] \in Taps /\ q.stale \in Seq(Skills)
  <2>1. q.queue \in Seq(Skills) /\ q.stale \in Seq(Skills)
    BY DEF HubFlow
  <2> QED BY <1>3, <1>5, <2>1 DEF HubBounds
<1>7. PICK q2 : q2 = [q EXCEPT !.queue = u]
  OBVIOUS
<1>8. q2 \in HubFlow /\ q2.stage = "check" /\ q2.kind = q.kind /\ q2.holds = q.holds /\ q2.stale = q.stale
  BY <1>1, <1>6, <1>7 DEF HubFlow
<1>9. PICK l : l = Append(q2.stale, s)
  OBVIOUS
<1>10. PICK q3 : q3 = [q2 EXCEPT !.stale = l]
  OBVIOUS
<1>11. q3 \in HubFlow /\ q3.stage = "check" /\ q3.kind = q.kind /\ q3.holds = q.holds
  <2>1. l \in Seq(Skills)
    BY <1>6, <1>8, <1>9
  <2> QED BY <1>8, <1>10, <2>1 DEF HubFlow
<1>12. PICK r \in {q2, q3} : Hub!To(f, r)
  <2>1. [q2 EXCEPT !.stale = Append(@, s)] = q3
    BY <1>8, <1>9, <1>10
  <2>2. CASE ok
    <3>1. Hub!To(f, IF Hub!Stale(q2.table[s], remote[s]) THEN q3 ELSE q2)
      BY <1>1, <1>5, <1>7, <2>1, <2>2 DEF Hub!Check
    <3> QED BY <3>1
  <2>3. CASE ~ok
    BY <1>1, <1>5, <1>7, <2>3 DEF Hub!Check
  <2> QED BY <2>2, <2>3
<1>13. NewListings
  <2>1. UNCHANGED listings \/ Hub!Cached(TapOf[s])
    BY <1>1, <1>5 DEF Hub!Check
  <2> QED BY <1>6, <2>1 DEF NewListings
<1>14. r \in HubFlow /\ r.stage = "check" /\ r.kind = q.kind /\ r.holds = q.holds
  BY <1>8, <1>11
<1>15. Fits(r) /\ Carries(r)
  BY <1>2, <1>14 DEF Fits, Carries, Hub!Writing
<1> QED BY <1>1, <1>3, <1>4, <1>12, <1>13, <1>14, <1>15, FlowTo

LEMMA HubChecked ==
    ASSUME HubBounds, HubInv, NEW f \in Flows, Hub!Checked(f)
    PROVE  HubInv'
<1>1. PICK q \in HubFlow : q = flow[f] /\ q # None /\ Fits(q) /\ q.stage = "check" /\ ~Hub!At(f, "unlock")
  BY StageIs DEF Hub!Checked
<1>2. q.kind # "uninstall"
  BY <1>1 DEF Fits
<1>3. /\ Hub!Still /\ UNCHANGED <<listings, installed, disk, lock>> /\ UNCHANGED Hub!bounds
  BY DEF Hub!Checked, Hub!diskVars
<1>4. Ticks /\ NewListings /\ installed' \subseteq Skills
  BY <1>3, HubTicks DEF NewListings, HubInv, HubShape
<1>5. CASE q.stale = <<>>
  <2>1. Hub!Ends(f)
    BY <1>1, <1>5 DEF Hub!Checked
  <2> QED BY <1>1, <1>3, <1>4, <2>1, FlowEnds
<1>6. CASE q.stale # <<>>
  <2>1. PICK r : r = [q EXCEPT !.stage = "next"]
    OBVIOUS
  <2>2. r \in HubFlow /\ r.stage = "next" /\ r.kind = q.kind /\ r.holds = q.holds
    BY <2>1, FlowAt DEF HubStages
  <2>3. Hub!To(f, r) /\ UNCHANGED busy
    BY <1>1, <1>6, <2>1 DEF Hub!Checked
  <2>4. Fits(r) /\ Carries(r)
    BY <1>2, <2>2 DEF Fits, Carries, Hub!Writing
  <2> QED BY <1>1, <1>3, <1>4, <2>2, <2>3, <2>4, FlowTo
<1> QED BY <1>5, <1>6

\* The next skill that is out of date, with a new listing of its source.
LEMMA HubUpdatesNext ==
    ASSUME HubBounds, HubInv, NEW f \in Flows, NEW ok \in BOOLEAN, Hub!UpdateNext(f, ok)
    PROVE  HubInv'
<1>1. PICK q \in HubFlow : q = flow[f] /\ q # None /\ Fits(q) /\ q.stage = "next" /\ ~Hub!At(f, "unlock")
  BY StageIs DEF Hub!UpdateNext
<1>2. q.kind # "uninstall"
  BY <1>1 DEF Fits
<1>3. /\ Hub!Still /\ UNCHANGED <<installed, disk, lock>> /\ q.stale # <<>>
  BY <1>1 DEF Hub!UpdateNext, Hub!diskVars
<1>4. PICK s, u : s = Head(q.stale) /\ u = Tail(q.stale)
  OBVIOUS
<1>5. s \in Skills /\ u \in Seq(Skills) /\ TapOf[s] \in Taps
  <2>1. q.stale \in Seq(Skills)
    BY DEF HubFlow
  <2> QED BY <1>3, <1>4, <2>1 DEF HubBounds
<1>6. PICK q2 : q2 = [q EXCEPT !.stale = u]
  OBVIOUS
<1>7. q2 \in HubFlow /\ q2.stage = "next" /\ q2.kind = q.kind /\ q2.holds = q.holds
  BY <1>1, <1>5, <1>6 DEF HubFlow
<1>8. installed' \subseteq Skills
  BY <1>3 DEF HubInv, HubShape
<1>9. Ticks
  <2>1. UNCHANGED Hub!bounds \/ Hub!May(ok)
    BY DEF Hub!UpdateNext
  <2> QED BY <2>1, HubTicks
<1>10. CASE lock[home][s] = None
  <2>1. Hub!To(f, q2) /\ UNCHANGED <<busy, listings>>
    BY <1>1, <1>4, <1>6, <1>10 DEF Hub!UpdateNext
  <2>2. Fits(q2) /\ Carries(q2)
    BY <1>2, <1>7 DEF Fits, Carries, Hub!Writing
  <2> QED BY <1>1, <1>3, <1>7, <1>9, <2>1, <2>2, FlowTo DEF NewListings
<1>11. CASE lock[home][s] # None /\ ok
  <2>1. PICK l : l = Hub!Listing(TapOf[s])
    OBVIOUS
  <2>2. l \in Lists /\ ListedOf(TapOf[s], l)
    BY <1>5, <2>1, ListingNow
  <2>3. PICK r : r = [q2 EXCEPT !.stage = "head", !.skill = s, !.list = l]
    OBVIOUS
  <2>4. r \in HubFlow /\ r.stage = "head" /\ r.kind = q.kind /\ r.holds = q.holds /\ r.skill = s /\ r.list = l
    BY <1>5, <1>7, <2>2, <2>3 DEF HubFlow, HubStages
  <2>5. Hub!To(f, r) /\ UNCHANGED busy /\ Hub!Cached(TapOf[s])
    BY <1>1, <1>4, <1>6, <1>11, <2>1, <2>3 DEF Hub!UpdateNext
  <2>6. l \in Published(TapOf[s]) /\ l[s] <= remote[s]
    <3>1. l \in Published(TapOf[s]) /\ \A x \in DOMAIN l : l[x] <= remote[x]
      BY <2>2 DEF ListedOf
    <3>2. s \in DOMAIN l
      BY <1>5, <3>1 DEF Published
    <3> QED BY <3>1, <3>2
  <2>7. Fits(r) /\ Carries(r)
    BY <1>2, <1>5, <2>4, <2>6 DEF Fits, Carries, Hub!Writing
  <2>8. NewListings
    BY <1>5, <2>5 DEF NewListings
  <2> QED BY <1>1, <1>3, <1>9, <2>4, <2>5, <2>7, <2>8, FlowTo
<1>12. CASE lock[home][s] # None /\ ~ok
  <2>1. Hub!Ends(f) /\ UNCHANGED listings
    BY <1>1, <1>4, <1>12 DEF Hub!UpdateNext
  <2> QED BY <1>1, <1>3, <1>8, <1>9, <2>1, FlowEnds DEF NewListings
<1> QED BY <1>10, <1>11, <1>12

LEMMA HubUpdated ==
    ASSUME HubBounds, HubInv, NEW f \in Flows, Hub!Updated(f)
    PROVE  HubInv'
<1>1. PICK q \in HubFlow : q = flow[f] /\ q # None /\ q.stage = "next" /\ ~Hub!At(f, "unlock")
  BY StageIs DEF Hub!Updated
<1>2. /\ Hub!Still /\ UNCHANGED <<listings, installed, busy, disk, lock>> /\ UNCHANGED Hub!bounds
  BY DEF Hub!Updated, Hub!diskVars
<1>3. Ticks /\ NewListings
  BY <1>2, HubTicks DEF NewListings
<1>4. PICK r : r = [q EXCEPT !.stage = "refresh"]
  OBVIOUS
<1>5. r \in HubFlow /\ r.stage = "refresh" /\ r.holds = q.holds
  BY <1>4, FlowAt DEF HubStages
<1>6. Hub!To(f, r)
  BY <1>1, <1>4 DEF Hub!Updated
<1>7. Fits(r) /\ Carries(r)
  BY <1>5 DEF Fits, Carries, Hub!Writing
<1> QED BY <1>1, <1>2, <1>3, <1>5, <1>6, <1>7, FlowTo

-----------------------------------------------------------------------------
(* The steps that write.                                                   *)

\* While nobody met another writer, the flow that writes is the only one.
LEMMA WritesAlone ==
    ASSUME HubInv, ~mixed, NEW f \in Flows, flow[f] # None, flow[f].stage \in Hub!Writing
    PROVE  /\ Carries(flow[f]) /\ LockTells
           /\ \A g \in Flows \ {f} : flow[g] # None => flow[g].stage \notin Hub!Writing
           /\ \A d, s : Uninstalling(d, s) =>
                  flow[f].stage = "unlock" /\ flow[f].skill = s /\ flow[f].dest = d
BY DEF HubInv, TakeTurnsWriting, Apart, Uninstalling, Hub!At, Hub!Writing

LEMMA FlowWrites ==
    ASSUME HubBounds, HubInv, NEW f \in Flows, flow[f] # None, flow[f].stage \in Hub!Writing,
           NEW r \in HubFlow, Hub!To(f, r), r.holds = flow[f].holds, Fits(r), Hub!Still,
           UNCHANGED <<busy, listings, installed>>, UNCHANGED Hub!bounds, disk' \in Disks, lock' \in Locks,
           ~mixed' => LockTells' /\ Carries(r)'
    PROVE  HubInv'
<1>1. flow' = [flow EXCEPT ![f] = r]
      /\ mixed' = (mixed \/ (r # None /\ r.stage \in Hub!Writing /\ Hub!Overlapping(f)))
  BY DEF Hub!To
<1>2. UNCHANGED <<remote, taps, entries, loads, home>>
  BY DEF Hub!Still
<1>3. mixed \in BOOLEAN /\ busy \subseteq Skills \cup {"all"} /\ installed' \subseteq Skills
      /\ r # None /\ Ticks /\ NewListings
  BY HubTicks DEF HubInv, HubShape, NewListings, HubBounds
<1>4. ButtonOf(f, r)
  BY <1>3 DEF ButtonOf
<1>5. mixed' \in BOOLEAN /\ (~mixed' => ~mixed)
  BY <1>1, <1>3
<1>6. HubShape' /\ ListingsOld' /\ FlowsFit' /\ Hub!BusyIsHeld'
  BY <1>1, <1>2, <1>3, <1>4, <1>5, FlowMoves
<1>7. /\ flow' \in [Flows -> HubFlow \cup {None}] /\ flow'[f] = r
      /\ \A g \in Flows \ {f} : flow'[g] = flow[g]
  BY <1>1 DEF HubInv, HubShape
<1>8. ASSUME ~mixed', NEW g \in Flows, flow'[g] # None PROVE Apart(g)' /\ Carries(flow[g])'
  <2>1. \A h \in Flows \ {f} : flow'[h] # None => flow'[h].stage \notin Hub!Writing
    BY <1>5, <1>7, <1>8, WritesAlone
  <2>2. CASE g = f
    <3>1. Carries(r)' /\ flow'[g] = r
      BY <1>7, <1>8, <2>2
    <3>2. Carries(flow[g])'
      BY <3>1 DEF Carries
    <3> QED BY <2>1, <2>2, <3>2 DEF Apart, Hub!Writing
  <2>3. CASE g # f
    <3>1. flow'[g].stage \notin Hub!Writing
      BY <1>8, <2>1, <2>3
    <3> QED BY <3>1 DEF Apart, Carries, Hub!Writing
  <2> QED BY <2>2, <2>3
<1> QED BY <1>6, <1>8 DEF HubInv, TakeTurnsWriting

CellWritten(d, g, p, c) == disk' = [disk EXCEPT ![d][g][p] = c]

\* The cells of the disk after one of them, or all of one skill's, was written.
LEMMA OneCellWritten ==
    ASSUME disk \in Disks, NEW d0 \in Folders, NEW g0 \in Hub!Slugs, NEW p0 \in Pieces,
           NEW c \in [of : Skills, v : Nat], CellWritten(d0, g0, p0, c)
    PROVE  /\ disk' \in Disks /\ disk'[d0][g0][p0] = c
           /\ \A d \in Folders, g \in Hub!Slugs, p \in Pieces :
                  d # d0 \/ g # g0 \/ p # p0 => disk'[d][g][p] = disk[d][g][p]
<1>1. PICK a : a = [disk[d0][g0] EXCEPT ![p0] = c]
  OBVIOUS
<1>2. PICK b : b = [disk[d0] EXCEPT ![g0] = a]
  OBVIOUS
<1>3. disk' = [disk EXCEPT ![d0] = b]
  BY <1>1, <1>2 DEF CellWritten
<1>4. disk[d0] \in [Hub!Slugs -> [Pieces -> [of : Skills, v : Nat] \cup {None}]]
      /\ disk[d0][g0] \in [Pieces -> [of : Skills, v : Nat] \cup {None}]
  BY DEF Disks
<1>5. a \in [Pieces -> [of : Skills, v : Nat] \cup {None}] /\ a[p0] = c
      /\ \A p \in Pieces \ {p0} : a[p] = disk[d0][g0][p]
  BY <1>1, <1>4
<1>6. b \in [Hub!Slugs -> [Pieces -> [of : Skills, v : Nat] \cup {None}]] /\ b[g0] = a
      /\ \A g \in Hub!Slugs \ {g0} : b[g] = disk[d0][g]
  BY <1>2, <1>4, <1>5
<1>7. disk' \in Disks /\ disk'[d0] = b /\ \A d \in Folders \ {d0} : disk'[d] = disk[d]
  BY <1>3, <1>6 DEF Disks
<1> QED BY <1>5, <1>6, <1>7

LEMMA OneFolderEmptied ==
    ASSUME disk \in Disks, NEW d0 \in Folders, NEW g0 \in Hub!Slugs,
           disk' = [disk EXCEPT ![d0][g0] = Hub!NoShas]
    PROVE  /\ disk' \in Disks
           /\ \A d \in Folders, g \in Hub!Slugs : d # d0 \/ g # g0 => disk'[d][g] = disk[d][g]
<1>1. PICK b : b = [disk[d0] EXCEPT ![g0] = Hub!NoShas]
  OBVIOUS
<1>2. disk' = [disk EXCEPT ![d0] = b]
  BY <1>1
<1>3. disk[d0] \in [Hub!Slugs -> [Pieces -> [of : Skills, v : Nat] \cup {None}]]
  BY DEF Disks
<1>4. Hub!NoShas \in [Pieces -> [of : Skills, v : Nat] \cup {None}]
  BY DEF Hub!NoShas, Pieces
<1>5. b \in [Hub!Slugs -> [Pieces -> [of : Skills, v : Nat] \cup {None}]]
      /\ \A g \in Hub!Slugs \ {g0} : b[g] = disk[d0][g]
  BY <1>1, <1>3, <1>4
<1>6. disk' \in Disks /\ disk'[d0] = b /\ \A d \in Folders \ {d0} : disk'[d] = disk[d]
  BY <1>2, <1>5 DEF Disks
<1> QED BY <1>5, <1>6

\* The lock file of the folder of the moment after the table a flow read is written
\* back with one entry changed.
LEMMA OneEntryWritten ==
    ASSUME lock \in Locks, home \in Folders, NEW tb \in LockTable, NEW s0 \in Skills,
           NEW e \in Hashes \cup {None}, lock' = [lock EXCEPT ![home] = [tb EXCEPT ![s0] = e]]
    PROVE  /\ lock' \in Locks /\ lock'[home][s0] = e
           /\ \A d \in Folders \ {home} : lock'[d] = lock[d]
           /\ \A s \in Skills \ {s0} : lock'[home][s] = tb[s]
<1>1. PICK b : b = [tb EXCEPT ![s0] = e]
  OBVIOUS
<1>2. b \in LockTable /\ b[s0] = e /\ \A s \in Skills \ {s0} : b[s] = tb[s]
  BY <1>1 DEF LockTable
<1>3. lock' = [lock EXCEPT ![home] = b]
  BY <1>1
<1>4. lock' \in Locks /\ lock'[home] = b /\ \A d \in Folders \ {home} : lock'[d] = lock[d]
  BY <1>2, <1>3 DEF Locks
<1> QED BY <1>2, <1>4

LEMMA SlugsOfSkills ==
    ASSUME HubBounds, NEW s \in Skills
    PROVE  SlugOf[s] \in Hub!Slugs
BY DEF HubBounds, Hub!Slugs, Hub!Range

\* A file comes down: newer than, or as new as, anything the lock says of it.
LEMMA HubWrites ==
    ASSUME HubBounds, HubInv, NEW f \in Flows, Hub!Write(f)
    PROVE  HubInv'
<1>1. PICK q \in HubFlow : q = flow[f] /\ q # None /\ Fits(q) /\ q.stage = "write"
  BY StageIs, SMTT(20) DEF Hub!Write
<1>2. /\ q.skill \in Skills /\ q.kind # "uninstall" /\ q.stage \in Hub!Writing /\ q.todo # <<>>
      /\ q.dest \in Folders /\ q.got \in Nat /\ q.list[q.skill] <= q.got /\ q.got <= remote[q.skill]
      /\ q.list \in Published(TapOf[q.skill]) /\ q.list[q.skill] <= remote[q.skill]
  BY <1>1 DEF Fits, Hub!Writing
<1>3. q.list[q.skill] \in Nat
  BY <1>2 DEF Published
<1>4. /\ Hub!Still /\ UNCHANGED <<listings, installed, busy, lock>> /\ UNCHANGED Hub!bounds
  BY DEF Hub!Write
<1>5. PICK p0, t, sh, g0 : /\ p0 = Head(q.todo) /\ t = Tail(q.todo) /\ g0 = SlugOf[q.skill]
                           /\ sh = [q.shas EXCEPT ![p0] = q.list[q.skill]]
  OBVIOUS
<1>6. /\ p0 \in Pieces /\ t \in Seq(Pieces) /\ g0 \in Hub!Slugs /\ sh \in Hashes
      /\ sh[p0] = q.list[q.skill] /\ \A p \in Pieces \ {p0} : sh[p] = q.shas[p]
  <2>1. q.todo \in Seq(Pieces) /\ q.shas \in Hashes
    BY DEF HubFlow
  <2>2. p0 \in Pieces /\ t \in Seq(Pieces)
    BY <1>2, <1>5, <2>1
  <2> QED BY <1>2, <1>3, <1>5, <2>1, <2>2, SlugsOfSkills DEF Hashes
<1>7. PICK r : r = [q EXCEPT !.stage = "fetch", !.todo = t, !.shas = sh]
  OBVIOUS
<1>8. r \in HubFlow /\ r.stage = "fetch" /\ r.skill = q.skill /\ r.kind = q.kind /\ r.list = q.list
      /\ r.holds = q.holds /\ r.shas = sh
  BY <1>6, <1>7 DEF HubFlow, HubStages
<1>9. Hub!Shas(f, p0) = sh
  BY <1>1, <1>5 DEF Hub!Shas
<1>10. Hub!To(f, r)
  <2>1. Hub!To(f, [q EXCEPT !.stage = "fetch", !.todo = Tail(q.todo), !.shas = Hub!Shas(f, p0)])
    BY <1>1, <1>5 DEF Hub!Write
  <2> QED BY <1>5, <1>7, <1>9, <2>1
<1>11. PICK c \in [of : Skills, v : Nat] : c = [of |-> q.skill, v |-> q.got]
  BY <1>2
<1>12. disk' = [disk EXCEPT ![q.dest][g0][p0] = c]
  BY <1>1, <1>5, <1>11 DEF Hub!Write
<1>13. disk \in Disks /\ lock \in Locks /\ lock' \in Locks
  BY <1>4 DEF HubInv, HubShape, Locks
<1>14. /\ disk' \in Disks /\ disk'[q.dest][g0][p0] = c
       /\ \A d \in Folders, g \in Hub!Slugs, p \in Pieces :
              d # q.dest \/ g # g0 \/ p # p0 => disk'[d][g][p] = disk[d][g][p]
  <2>1. PICK d0 : d0 = q.dest
    OBVIOUS
  <2>2. d0 \in Folders /\ CellWritten(d0, g0, p0, c)
    BY <1>2, <1>12, <2>1 DEF CellWritten
  <2>3. /\ disk' \in Disks /\ disk'[d0][g0][p0] = c
        /\ \A d \in Folders, g \in Hub!Slugs, p \in Pieces :
               d # d0 \/ g # g0 \/ p # p0 => disk'[d][g][p] = disk[d][g][p]
    BY <1>6, <1>13, <2>2, OneCellWritten
  <2> QED BY <2>1, <2>3
<1>15. Fits(r)
  BY <1>2, <1>8 DEF Fits, Hub!Writing
<1>16. UNCHANGED <<remote, home>> /\ home \in Folders
  BY <1>4 DEF Hub!Still, HubInv, HubShape
<1>17. ASSUME ~mixed' PROVE LockTells' /\ Carries(r)'
  <2>1. ~mixed
    BY <1>10, <1>17 DEF Hub!To, HubInv, HubShape
  <2>2. /\ Carries(q) /\ LockTells /\ \A d, s : ~Uninstalling(d, s)
    BY <1>1, <1>2, <2>1, WritesAlone
  <2>3. /\ q.dest = home /\ \A p \in Pieces : q.shas[p] # None => Has(home, q.skill, p, q.shas[p])
        /\ \A p \in Pieces : lock[home][q.skill] # None /\ lock[home][q.skill][p] # None =>
                                 lock[home][q.skill][p] <= q.got
    BY <1>1, <2>2 DEF Carries
  <2>4. ASSUME NEW d \in Folders, NEW s \in Skills, NEW p \in Pieces, NEW n, Has(d, s, p, n),
               d = q.dest /\ s = q.skill /\ p = p0 => n <= q.got
        PROVE  Has(d, s, p, n)'
    <3>1. n \in Nat /\ n <= remote'[s]
      BY <1>16, <2>4 DEF Has
    <3>2. ASSUME Sole(s) PROVE OnDisk(disk[d][SlugOf[s]][p], s, n)'
      <4>1. CASE d = q.dest /\ SlugOf[s] = g0 /\ p = p0
        <5>1. s = q.skill
          BY <1>2, <1>5, <3>2, <4>1 DEF Sole
        <5> QED BY <1>2, <1>11, <1>14, <1>16, <2>4, <4>1, <5>1 DEF OnDisk
      <4>2. CASE ~(d = q.dest /\ SlugOf[s] = g0 /\ p = p0)
        <5>1. disk'[d][SlugOf[s]][p] = disk[d][SlugOf[s]][p]
          BY <1>14, <4>2, SlugsOfSkills
        <5> QED BY <1>16, <2>4, <3>2, <5>1 DEF Has, OnDisk
      <4> QED BY <4>1, <4>2
    <3> QED BY <3>1, <3>2 DEF Has, Sole
  <2>5. LockTells'
    <3> SUFFICES ASSUME NEW d \in Folders, NEW s \in Skills, NEW p \in Pieces,
                        lock[d][s] # None /\ lock[d][s][p] # None
                 PROVE  Has(d, s, p, lock[d][s][p])'
      BY <1>4 DEF LockTells
    <3>1. PICK n : n = lock[d][s][p]
      OBVIOUS
    <3>2. Has(d, s, p, n)
      BY <2>2, <3>1 DEF LockTells
    <3>3. Has(d, s, p, n)'
      BY <2>3, <2>4, <3>1, <3>2
    <3> QED BY <1>4, <3>1, <3>3 DEF Has, OnDisk
  <2>6. ASSUME NEW p \in Pieces, sh[p] # None PROVE Has(home, q.skill, p, sh[p])'
    <3>1. CASE p = p0
      <4>1. OnDisk(disk[home][g0][p0], q.skill, sh[p0])'
        BY <1>2, <1>6, <1>11, <1>14, <1>16, <2>3 DEF OnDisk
      <4> QED BY <1>2, <1>3, <1>5, <1>6, <1>16, <3>1, <4>1 DEF Has
    <3>2. CASE p # p0
      <4>1. Has(home, q.skill, p, sh[p])
        BY <1>6, <2>3, <2>6, <3>2
      <4>2. PICK n, h : n = sh[p] /\ h = home
        OBVIOUS
      <4>3. Has(h, q.skill, p, n)'
        BY <1>2, <1>16, <2>4, <3>2, <4>1, <4>2
      <4> QED BY <1>16, <4>2, <4>3 DEF Has, OnDisk
    <3> QED BY <3>1, <3>2
  <2>7. Carries(r)'
    BY <1>8, <2>6 DEF Carries
  <2> QED BY <2>5, <2>7
<1> QED BY <1>1, <1>2, <1>4, <1>8, <1>10, <1>13, <1>14, <1>15, <1>17, FlowWrites


LEMMA HubWritesLock ==
    ASSUME HubBounds, HubInv, NEW f \in Flows, Hub!WriteLock(f)
    PROVE  HubInv'
<1>1. PICK q \in HubFlow : q = flow[f] /\ q # None /\ Fits(q) /\ q.stage = "writeLock"
  BY StageIs DEF Hub!WriteLock
<1>2. /\ q.skill \in Skills /\ q.stage \in Hub!Writing /\ q.table \in LockTable /\ q.shas \in Hashes
  BY <1>1 DEF Fits, Hub!Writing, HubFlow
<1>3. /\ Hub!Still /\ UNCHANGED <<listings, installed, busy, disk>> /\ UNCHANGED Hub!bounds
  BY DEF Hub!WriteLock
<1>4. PICK st \in {"next", "refresh"} : st = IF q.kind = "all" THEN "next" ELSE "refresh"
  OBVIOUS
<1>5. PICK r : r = [q EXCEPT !.stage = st]
  OBVIOUS
<1>6. r \in HubFlow /\ r.stage = st /\ r.kind = q.kind /\ r.holds = q.holds
  <2>1. st \in HubStages
    BY DEF HubStages
  <2> QED BY <1>5, <2>1, FlowAt
<1>7. Hub!To(f, r)
  BY <1>1, <1>4, <1>5 DEF Hub!WriteLock
<1>8. disk \in Disks /\ disk' \in Disks /\ lock \in Locks /\ home \in Folders
  BY <1>3 DEF HubInv, HubShape, Disks
<1>9. lock' = [lock EXCEPT ![home] = [q.table EXCEPT ![q.skill] = q.shas]]
  BY <1>1 DEF Hub!WriteLock
<1>10. /\ lock' \in Locks /\ lock'[home][q.skill] = q.shas
       /\ \A d \in Folders \ {home} : lock'[d] = lock[d]
       /\ \A s \in Skills \ {q.skill} : lock'[home][s] = q.table[s]
  BY <1>2, <1>8, <1>9, OneEntryWritten
<1>11. Fits(r)
  BY <1>4, <1>6 DEF Fits, Hub!Writing
<1>12. UNCHANGED <<remote, disk>>
  BY <1>3 DEF Hub!Still
<1>13. ASSUME ~mixed' PROVE LockTells' /\ Carries(r)'
  <2>1. ~mixed
    BY <1>7, <1>13 DEF Hub!To, HubInv, HubShape
  <2>2. /\ Carries(q) /\ LockTells /\ \A d, s : ~Uninstalling(d, s)
    BY <1>1, <1>2, <2>1, WritesAlone
  <2>3. /\ q.table = lock[home]
        /\ \A p \in Pieces : q.shas[p] # None => Has(home, q.skill, p, q.shas[p])
    BY <1>1, <2>2 DEF Carries
  <2>4. ASSUME NEW d \in Folders, NEW s \in Skills, NEW p \in Pieces,
               lock'[d][s] # None /\ lock'[d][s][p] # None
        PROVE  Has(d, s, p, lock'[d][s][p])
    <3>1. CASE d = home /\ s = q.skill
      BY <1>10, <2>3, <2>4, <3>1
    <3>2. CASE ~(d = home /\ s = q.skill)
      <4>1. lock'[d][s] = lock[d][s]
        BY <1>10, <2>3, <3>2
      <4> QED BY <2>2, <2>4, <4>1 DEF LockTells
    <3> QED BY <3>1, <3>2
  <2>5. LockTells'
    <3> SUFFICES ASSUME NEW d \in Folders, NEW s \in Skills, NEW p \in Pieces,
                        lock'[d][s] # None /\ lock'[d][s][p] # None
                 PROVE  Has(d, s, p, lock[d][s][p])'
      BY DEF LockTells
    <3>1. Has(d, s, p, lock'[d][s][p])
      BY <2>4
    <3> QED BY <1>12, <3>1 DEF Has, OnDisk
  <2>6. Carries(r)'
    BY <1>6 DEF Carries
  <2> QED BY <2>5, <2>6
<1> QED BY <1>1, <1>2, <1>3, <1>6, <1>7, <1>8, <1>10, <1>11, <1>13, FlowWrites

\* The folder goes before its entry: until then the entry is the flow's.
LEMMA HubRmdirs ==
    ASSUME HubBounds, HubInv, NEW f \in Flows, Hub!Rmdir(f)
    PROVE  HubInv'
<1>1. PICK q \in HubFlow : q = flow[f] /\ q # None /\ Fits(q) /\ q.stage = "rmdir"
  BY StageIs DEF Hub!Rmdir
<1>2. /\ q.skill \in Skills /\ q.stage \in Hub!Writing /\ q.table \in LockTable /\ q.dest \in Folders
      /\ q.kind = "uninstall"
  BY <1>1 DEF Fits, Hub!Writing
<1>3. /\ Hub!Still /\ UNCHANGED <<listings, installed, busy, lock>> /\ UNCHANGED Hub!bounds
  BY DEF Hub!Rmdir
<1>4. PICK r : r = [q EXCEPT !.stage = "unlock"]
  OBVIOUS
<1>5. r \in HubFlow /\ r.stage = "unlock" /\ r.kind = q.kind /\ r.skill = q.skill /\ r.dest = q.dest
      /\ r.table = q.table /\ r.holds = q.holds
  BY <1>4, FlowAt DEF HubStages
<1>6. Hub!To(f, r)
  BY <1>1, <1>4 DEF Hub!Rmdir
<1>7. disk \in Disks /\ lock' \in Locks
  BY <1>3 DEF HubInv, HubShape, Locks
<1>8. disk' = [disk EXCEPT ![q.dest][SlugOf[q.skill]] = Hub!NoShas]
  BY <1>1 DEF Hub!Rmdir
<1>9. /\ disk' \in Disks
      /\ \A d \in Folders, g \in Hub!Slugs : d # q.dest \/ g # SlugOf[q.skill] => disk'[d][g] = disk[d][g]
  BY <1>2, <1>7, <1>8, OneFolderEmptied, SlugsOfSkills
<1>10. Fits(r)
  BY <1>2, <1>5 DEF Fits, Hub!Writing
<1>11. UNCHANGED <<remote, home, lock>>
  BY <1>3 DEF Hub!Still
<1>12. flow'[f] = r /\ r # None
  <2>1. flow' = [flow EXCEPT ![f] = r]
    BY <1>6 DEF Hub!To
  <2> QED BY <1>5, <2>1 DEF HubInv, HubShape, HubBounds
<1>13. ASSUME ~mixed' PROVE LockTells' /\ Carries(r)'
  <2>1. ~mixed
    BY <1>6, <1>13 DEF Hub!To, HubInv, HubShape
  <2>2. /\ Carries(q) /\ LockTells /\ \A d, s : ~Uninstalling(d, s)
    BY <1>1, <1>2, <2>1, WritesAlone
  <2>3. LockTells'
    <3> SUFFICES ASSUME NEW d \in Folders, NEW s \in Skills, NEW p \in Pieces,
                        lock[d][s] # None /\ lock[d][s][p] # None
                 PROVE  Uninstalling(d, s)' \/ Has(d, s, p, lock[d][s][p])'
      BY <1>11 DEF LockTells
    <3>1. Has(d, s, p, lock[d][s][p])
      BY <2>2 DEF LockTells
    <3>2. CASE d = q.dest /\ s = q.skill
      BY <1>5, <1>12, <3>2 DEF Uninstalling, Hub!At
    <3>3. CASE ~(d = q.dest /\ s = q.skill)
      <4>1. ASSUME Sole(s) PROVE disk'[d][SlugOf[s]][p] = disk[d][SlugOf[s]][p]
        <5>1. d # q.dest \/ SlugOf[s] # SlugOf[q.skill]
          BY <1>2, <3>3, <4>1 DEF Sole
        <5> QED BY <1>9, <5>1, SlugsOfSkills
      <4> QED BY <1>11, <3>1, <4>1 DEF Has, OnDisk, Sole
    <3> QED BY <3>2, <3>3
  <2>4. Carries(r)'
    BY <1>1, <1>5, <1>11, <2>2 DEF Carries
  <2> QED BY <2>3, <2>4
<1> QED BY <1>1, <1>2, <1>3, <1>5, <1>6, <1>7, <1>9, <1>10, <1>13, FlowWrites

LEMMA HubUnlocks ==
    ASSUME HubBounds, HubInv, NEW f \in Flows, Hub!Unlock(f)
    PROVE  HubInv'
<1>1. PICK q \in HubFlow : q = flow[f] /\ q # None /\ Fits(q) /\ q.stage = "unlock"
  BY StageIs DEF Hub!Unlock
<1>2. /\ q.skill \in Skills /\ q.stage \in Hub!Writing /\ q.table \in LockTable
  BY <1>1 DEF Fits, Hub!Writing
<1>3. /\ Hub!Still /\ UNCHANGED <<listings, installed, busy, disk>> /\ UNCHANGED Hub!bounds
  BY DEF Hub!Unlock
<1>4. PICK r : r = [q EXCEPT !.stage = "refresh"]
  OBVIOUS
<1>5. r \in HubFlow /\ r.stage = "refresh" /\ r.kind = q.kind /\ r.holds = q.holds
  BY <1>4, FlowAt DEF HubStages
<1>6. Hub!To(f, r)
  BY <1>1, <1>4 DEF Hub!Unlock
<1>7. disk \in Disks /\ disk' \in Disks /\ lock \in Locks /\ home \in Folders
  BY <1>3 DEF HubInv, HubShape, Disks
<1>8. lock' = [lock EXCEPT ![home] = [q.table EXCEPT ![q.skill] = None]]
  BY <1>1 DEF Hub!Unlock
<1>9. /\ lock' \in Locks /\ lock'[home][q.skill] = None
      /\ \A d \in Folders \ {home} : lock'[d] = lock[d]
      /\ \A s \in Skills \ {q.skill} : lock'[home][s] = q.table[s]
  BY <1>2, <1>7, <1>8, OneEntryWritten
<1>10. Fits(r)
  BY <1>5 DEF Fits, Hub!Writing
<1>11. UNCHANGED <<remote, disk>>
  BY <1>3 DEF Hub!Still
<1>12. ASSUME ~mixed' PROVE LockTells' /\ Carries(r)'
  <2>1. ~mixed
    BY <1>6, <1>12 DEF Hub!To, HubInv, HubShape
  <2>2. /\ Carries(q) /\ LockTells /\ \A d, s : Uninstalling(d, s) => q.skill = s /\ q.dest = d
    BY <1>1, <1>2, <2>1, WritesAlone
  <2>3. q.table = lock[home] /\ q.dest = home
    BY <1>1, <2>2 DEF Carries
  <2>4. ASSUME NEW d \in Folders, NEW s \in Skills, NEW p \in Pieces,
               lock'[d][s] # None /\ lock'[d][s][p] # None
        PROVE  Has(d, s, p, lock'[d][s][p])
    <3>1. ~(d = home /\ s = q.skill)
      BY <1>9, <2>4
    <3>2. lock'[d][s] = lock[d][s] /\ ~Uninstalling(d, s)
      BY <1>9, <2>2, <2>3, <3>1
    <3> QED BY <2>2, <2>4, <3>2 DEF LockTells
  <2>5. LockTells'
    <3> SUFFICES ASSUME NEW d \in Folders, NEW s \in Skills, NEW p \in Pieces,
                        lock'[d][s] # None /\ lock'[d][s][p] # None
                 PROVE  Has(d, s, p, lock[d][s][p])'
      BY DEF LockTells
    <3>1. Has(d, s, p, lock'[d][s][p])
      BY <2>4
    <3> QED BY <1>11, <3>1 DEF Has, OnDisk
  <2>6. Carries(r)'
    BY <1>5 DEF Carries
  <2> QED BY <2>5, <2>6
<1> QED BY <1>1, <1>2, <1>3, <1>5, <1>6, <1>7, <1>9, <1>10, <1>12, FlowWrites

-----------------------------------------------------------------------------
(* The sources, the folder and the page.                                   *)

\* A step that leaves the flows, the disk and the lock file alone.
LEMMA HubElsewhere ==
    ASSUME HubInv, Versions', \A s \in Skills : remote[s] <= remote'[s], home' \in Folders, mixed' \in BOOLEAN,
           UNCHANGED <<installed, busy, flow, disk, lock>>, taps' \subseteq Taps, loads' \subseteq Taps,
           ListingsOld', ~mixed' => ~mixed /\ (home' = home \/ \A f \in Flows : flow[f] = None)
    PROVE  HubInv'
<1>1. remote \in [Skills -> Nat] /\ remote' \in [Skills -> Nat]
  BY DEF Versions, HubInv, HubShape
<1>2. HubShape'
  BY DEF HubInv, HubShape, Disks, Locks
<1>3. ASSUME NEW f \in Flows, flow[f] # None PROVE Fits(flow[f])'
  <2>1. Fits(flow[f]) /\ flow[f] \in HubFlow
    BY <1>3 DEF HubInv, HubShape, FlowsFit
  <2>2. ASSUME flow[f].stage \in {"scan", "guard", "head", "fetch", "write", "writeLock"}
        PROVE  flow[f].list[flow[f].skill] <= remote'[flow[f].skill]
    <3>1. flow[f].stage \in Hub!Writing \cup {"scan", "guard"}
      BY <2>2 DEF Hub!Writing
    <3>2. flow[f].skill \in Skills /\ flow[f].list \in Published(TapOf[flow[f].skill])
          /\ flow[f].list[flow[f].skill] <= remote[flow[f].skill]
      BY <2>1, <2>2, <3>1 DEF Fits
    <3>3. flow[f].list[flow[f].skill] \in Nat
      BY <3>2 DEF Published
    <3> QED BY <1>1, <3>2, <3>3
  <2>3. ASSUME flow[f].stage = "write"
        PROVE  flow[f].got <= remote'[flow[f].skill]
    <3>1. flow[f].skill \in Skills /\ flow[f].got \in Nat /\ flow[f].got <= remote[flow[f].skill]
      BY <2>1, <2>3 DEF Fits, Hub!Writing
    <3> QED BY <1>1, <3>1
  <2>4. flow' = flow
    OBVIOUS
  <2> QED BY <2>1, <2>2, <2>3, <2>4 DEF Fits
<1>4. ASSUME NEW d, NEW s \in Skills, NEW p, NEW n, Has(d, s, p, n) PROVE Has(d, s, p, n)'
  <2>1. n \in Nat /\ n <= remote'[s]
    BY <1>1, <1>4 DEF Has
  <2>2. ASSUME Sole(s) PROVE OnDisk(disk[d][SlugOf[s]][p], s, n)'
    BY <1>1, <1>4, <2>2 DEF Has, OnDisk
  <2> QED BY <2>1, <2>2 DEF Has, Sole
<1>5. ASSUME ~mixed' PROVE TakeTurnsWriting'
  <2>1. TakeTurnsWriting
    BY <1>5 DEF HubInv
  <2>2. LockTells'
    <3> SUFFICES ASSUME NEW d \in Folders, NEW s \in Skills, NEW p \in Pieces,
                        lock[d][s] # None /\ lock[d][s][p] # None
                 PROVE  Uninstalling(d, s)' \/ Has(d, s, p, lock[d][s][p])'
      BY DEF LockTells
    <3>1. PICK n : n = lock[d][s][p]
      OBVIOUS
    <3>2. CASE Has(d, s, p, n)
      <4>1. Has(d, s, p, n)'
        BY <1>4, <3>2
      <4> QED BY <3>1, <4>1 DEF Has, OnDisk
    <3>3. CASE Uninstalling(d, s)
      BY <3>3 DEF Uninstalling, Hub!At
    <3> QED BY <2>1, <3>1, <3>2, <3>3 DEF TakeTurnsWriting, LockTells
  <2>3. ASSUME NEW f \in Flows, flow[f] # None PROVE Apart(f)' /\ Carries(flow[f])'
    <3>1. Apart(f) /\ Carries(flow[f]) /\ home' = home /\ flow[f] \in HubFlow /\ Fits(flow[f])
      BY <1>5, <2>1, <2>3 DEF TakeTurnsWriting, HubInv, HubShape, FlowsFit
    <3>2. Apart(f)'
      BY <3>1 DEF Apart, Hub!Writing
    <3>3. ASSUME flow[f].stage \in {"fetch", "write", "writeLock"}, NEW p \in Pieces, flow[f].shas[p] # None
          PROVE  Has(home, flow[f].skill, p, flow[f].shas[p])'
      <4>1. PICK h, s, n : h = home /\ s = flow[f].skill /\ n = flow[f].shas[p]
        OBVIOUS
      <4>2. s \in Skills
        BY <3>1, <3>3, <4>1 DEF Fits, Hub!Writing
      <4>3. Has(h, s, p, n)
        BY <3>1, <3>3, <4>1 DEF Carries
      <4>4. Has(h, s, p, n)'
        BY <1>4, <4>2, <4>3
      <4> QED BY <3>1, <4>1, <4>4 DEF Has, OnDisk
    <3> QED BY <3>1, <3>2, <3>3 DEF Carries
  <2> QED BY <2>2, <2>3 DEF TakeTurnsWriting
<1> QED BY <1>2, <1>3, <1>5 DEF HubInv, FlowsFit, Hub!BusyIsHeld

LEMMA HubReleases ==
    ASSUME HubBounds, HubInv, NEW s \in Skills, Hub!Release(s)
    PROVE  HubInv'
<1>1. /\ remote' = [remote EXCEPT ![s] = @ + 1] /\ events < MaxEvents /\ events' = events + 1
      /\ UNCHANGED <<taps, entries, loads, listings, installed, busy, flow, home, disk, lock, mixed>>
  BY DEF Hub!Release, Hub!Event, Hub!pageVars, Hub!diskVars
<1>2. remote \in [Skills -> Nat] /\ events \in 0 .. MaxEvents /\ \A x \in Skills : remote[x] <= events
  BY DEF HubInv, HubShape, Versions
<1>3. remote' \in [Skills -> Nat] /\ \A x \in Skills : remote[x] <= remote'[x] /\ remote'[x] <= remote[x] + 1
  BY <1>1, <1>2
<1>4. Versions'
  BY <1>1, <1>2, <1>3 DEF Versions, HubBounds
<1>5. ListingsOld'
  <2>1. ASSUME NEW t \in Taps, NEW l, ListedOf(t, l) PROVE ListedOf(t, l)'
    <3>1. l \in Published(t) /\ \A x \in DOMAIN l : x \in Skills /\ l[x] \in Nat /\ l[x] <= remote[x]
      BY <2>1 DEF ListedOf, Published
    <3> QED BY <1>2, <1>3, <3>1 DEF ListedOf
  <2>2. ASSUME NEW t \in Taps, entries[t] # None PROVE ListedOf(t, entries[t])'
    <3>1. PICK l : l = entries[t]
      OBVIOUS
    <3>2. ListedOf(t, l)'
      BY <2>1, <2>2, <3>1 DEF HubInv, ListingsOld
    <3> QED BY <1>1, <3>1, <3>2 DEF ListedOf
  <2>3. ASSUME NEW t \in Taps, listings[t] # None PROVE ListedOf(t, listings[t].list)'
    <3>1. PICK l : l = listings[t].list
      OBVIOUS
    <3>2. ListedOf(t, l)'
      BY <2>1, <2>3, <3>1 DEF HubInv, ListingsOld
    <3> QED BY <1>1, <3>1, <3>2 DEF ListedOf
  <2> QED BY <1>1, <2>2, <2>3 DEF HubInv, ListingsOld
<1> QED BY <1>1, <1>3, <1>4, <1>5, HubElsewhere DEF HubInv, HubShape

LEMMA HubMoves ==
    ASSUME HubBounds, HubInv, NEW d \in Folders, Hub!Move(d)
    PROVE  HubInv'
<1>1. /\ home' = d /\ mixed' = (mixed \/ \E f \in Flows : flow[f] # None)
      /\ UNCHANGED <<remote, taps, entries, loads, listings, installed, busy, flow, disk, lock>> /\ Hub!Event
  BY DEF Hub!Move, Hub!pageVars, Hub!diskVars
<1>2. Ticks
  BY <1>1, HubTicks
<1>3. Versions' /\ \A s \in Skills : remote[s] <= remote'[s]
  BY <1>1, <1>2 DEF HubInv, HubShape, Versions, Ticks
<1>4. ListingsOld'
  BY <1>1 DEF HubInv, ListingsOld, ListedOf
<1>5. mixed \in BOOLEAN /\ mixed' \in BOOLEAN /\ taps' \subseteq Taps /\ loads' \subseteq Taps
  BY <1>1 DEF HubInv, HubShape
<1> QED BY <1>1, <1>3, <1>4, <1>5, HubElsewhere

\* The steps of the page that only touch the sources and what they listed.
LEMMA PageSteps ==
    ASSUME HubBounds, HubInv, ListingsOld', Ticks, taps' \subseteq Taps, loads' \subseteq Taps,
           UNCHANGED <<remote, installed, busy, flow, home, disk, lock, mixed>>
    PROVE  HubInv'
<1>1. Versions' /\ \A s \in Skills : remote[s] <= remote'[s]
  BY DEF HubInv, HubShape, Versions, Ticks
<1>2. home' \in Folders /\ mixed' \in BOOLEAN /\ (~mixed' => ~mixed /\ home' = home)
  BY DEF HubInv, HubShape
<1> QED BY <1>1, <1>2, HubElsewhere

LEMMA HubAsks ==
    ASSUME HubBounds, HubInv, NEW t \in Taps, NEW force \in BOOLEAN, Hub!Ask(t, force)
    PROVE  HubInv'
<1>1. /\ UNCHANGED <<remote, taps, listings, installed, busy, flow, home, disk, lock, mixed>>
      /\ UNCHANGED Hub!bounds
  BY DEF Hub!Ask, Hub!diskVars
<1>2. \/ UNCHANGED entries /\ loads' = loads \cup {t}
      \/ listings[t] # None /\ entries' = [entries EXCEPT ![t] = listings[t].list] /\ UNCHANGED loads
  BY DEF Hub!Ask
<1>3. taps' \subseteq Taps /\ loads' \subseteq Taps /\ Ticks
  BY <1>1, <1>2, HubTicks DEF HubInv, HubShape
<1>4. /\ entries \in [Taps -> Lists \cup {None}]
      /\ listings \in [Taps -> [fresh : BOOLEAN, list : Lists] \cup {None}]
      /\ \A u \in Taps : /\ entries[u] # None => ListedOf(u, entries[u])
                         /\ listings[u] # None => ListedOf(u, listings[u].list)
  BY DEF HubInv, ListingsOld
<1>5. ListingsOld'
  <2>1. CASE UNCHANGED entries
    BY <1>1, <1>4, <2>1 DEF ListingsOld, ListedOf
  <2>2. CASE listings[t] # None /\ entries' = [entries EXCEPT ![t] = listings[t].list]
    <3>1. PICK l : l = listings[t].list
      OBVIOUS
    <3>2. l \in Lists /\ ListedOf(t, l) /\ entries' = [entries EXCEPT ![t] = l]
      BY <1>4, <2>2, <3>1
    <3>3. entries' \in [Taps -> Lists \cup {None}] /\ entries'[t] = l
          /\ \A u \in Taps \ {t} : entries'[u] = entries[u]
      BY <1>4, <3>2
    <3> QED BY <1>1, <1>4, <3>2, <3>3 DEF ListingsOld, ListedOf
  <2> QED BY <1>2, <2>1, <2>2
<1> QED BY <1>1, <1>3, <1>5, PageSteps

LEMMA HubLoads ==
    ASSUME HubBounds, HubInv, NEW t \in Taps, NEW ok \in BOOLEAN, Hub!Loaded(t, ok)
    PROVE  HubInv'
<1>1. /\ UNCHANGED <<remote, taps, installed, busy, flow, home, disk, lock, mixed>>
      /\ loads' = loads \ {t} /\ Hub!May(ok)
  BY DEF Hub!Loaded, Hub!diskVars
<1>2. taps' \subseteq Taps /\ loads' \subseteq Taps /\ Ticks
  BY <1>1, HubTicks DEF HubInv, HubShape
<1>3. /\ entries \in [Taps -> Lists \cup {None}]
      /\ listings \in [Taps -> [fresh : BOOLEAN, list : Lists] \cup {None}]
      /\ \A u \in Taps : /\ entries[u] # None => ListedOf(u, entries[u])
                         /\ listings[u] # None => ListedOf(u, listings[u].list)
  BY DEF HubInv, ListingsOld
<1>4. ListingsOld'
  <2>1. CASE ~ok
    BY <1>1, <1>3, <2>1 DEF Hub!Loaded, ListingsOld, ListedOf
  <2>2. CASE ok
    <3>1. PICK l : l = Hub!Listing(t)
      OBVIOUS
    <3>2. l \in Lists /\ ListedOf(t, l)
      BY <3>1, ListingNow
    <3>3. entries' = [entries EXCEPT ![t] = l] /\ listings' = [listings EXCEPT ![t] = [fresh |-> TRUE, list |-> l]]
      BY <2>2, <3>1 DEF Hub!Loaded, Hub!Cached
    <3>4. entries' \in [Taps -> Lists \cup {None}] /\ entries'[t] = l
          /\ \A u \in Taps \ {t} : entries'[u] = entries[u]
      BY <1>3, <3>2, <3>3
    <3>5. listings' \in [Taps -> [fresh : BOOLEAN, list : Lists] \cup {None}] /\ listings'[t].list = l
          /\ \A u \in Taps \ {t} : listings'[u] = listings[u]
      BY <1>3, <3>2, <3>3
    <3> QED BY <1>1, <1>3, <3>2, <3>4, <3>5 DEF ListingsOld, ListedOf
  <2> QED BY <2>1, <2>2
<1> QED BY <1>1, <1>2, <1>4, PageSteps

LEMMA HubTaps ==
    ASSUME HubBounds, HubInv, NEW t \in Taps, Hub!AddTap(t) \/ Hub!RemoveTap(t)
    PROVE  HubInv'
<1>1. /\ UNCHANGED <<remote, loads, installed, busy, flow, home, disk, lock, mixed>>
      /\ taps' \subseteq Taps /\ loads' \subseteq Taps /\ (UNCHANGED Hub!bounds \/ Hub!Event)
  BY DEF Hub!AddTap, Hub!RemoveTap, Hub!diskVars, HubInv, HubShape
<1>2. Ticks
  BY <1>1, HubTicks
<1>3. /\ entries \in [Taps -> Lists \cup {None}]
      /\ listings \in [Taps -> [fresh : BOOLEAN, list : Lists] \cup {None}]
      /\ \A u \in Taps : /\ entries[u] # None => ListedOf(u, entries[u])
                         /\ listings[u] # None => ListedOf(u, listings[u].list)
  BY DEF HubInv, ListingsOld
<1>4. ListingsOld'
  <2>1. CASE Hub!AddTap(t)
    <3>1. UNCHANGED <<remote, listings, entries>>
      BY <2>1 DEF Hub!AddTap
    <3> QED BY <1>3, <3>1 DEF ListingsOld, ListedOf
  <2>2. CASE Hub!RemoveTap(t)
    <3>1. listings' = [u \in Taps |-> IF u \in taps' THEN listings[u] ELSE None]
          /\ entries' = [entries EXCEPT ![t] = None]
      BY <2>2 DEF Hub!RemoveTap, Hub!Pruned
    <3>2. entries' \in [Taps -> Lists \cup {None}] /\ \A u \in Taps : entries'[u] \in {entries[u], None}
      BY <1>3, <3>1
    <3>3. listings' \in [Taps -> [fresh : BOOLEAN, list : Lists] \cup {None}]
          /\ \A u \in Taps : listings'[u] \in {listings[u], None}
      BY <1>3, <3>1
    <3> QED BY <1>1, <1>3, <3>2, <3>3 DEF ListingsOld, ListedOf
  <2> QED BY <2>1, <2>2
<1> QED BY <1>1, <1>2, <1>4, PageSteps

-----------------------------------------------------------------------------
(* A flow begins, and a restart.                                           *)

LEMMA FlowBegins ==
    ASSUME HubBounds, HubInv, NEW f \in Flows, NEW held \in Skills \cup {"all"}, Hub!Begin(f, held),
           NEW r \in HubFlow, r.holds = held, flow' = [flow EXCEPT ![f] = r], Fits(r), Carries(r),
           mixed' \in BOOLEAN, ~mixed' => ~mixed /\ (r.stage \in Hub!Writing => ~Hub!Overlapping(f))
    PROVE  HubInv'
<1>1. /\ flow[f] = None /\ busy' = busy \cup {held} /\ events' = events
      /\ UNCHANGED <<remote, taps, entries, loads, listings, installed, home, disk, lock>>
  BY DEF Hub!Begin, Hub!pageVars, Hub!diskVars
<1>2. busy \subseteq Skills \cup {"all"} /\ installed' \subseteq Skills /\ r # None /\ events \in 0 .. MaxEvents
  BY <1>1 DEF HubInv, HubShape, Versions, HubBounds
<1>3. ButtonOf(f, r)
  BY <1>1, <1>2 DEF ButtonOf
<1>4. Ticks /\ NewListings /\ ~Hub!At(f, "unlock")
  BY <1>1, <1>2 DEF Ticks, NewListings, Hub!At, HubBounds
<1> QED BY <1>1, <1>2, <1>3, <1>4, FlowGoesOn

LEMMA HubFlowNew ==
    ASSUME NEW kind \in {"install", "uninstall", "all"}, NEW s \in Skills \cup {None},
           NEW st \in HubStages, kind # "all" => s \in Skills
    PROVE  LET r == Hub!Flow(kind, s, st) IN
           /\ r \in HubFlow /\ r.kind = kind /\ r.skill = s /\ r.stage = st
           /\ r.holds = IF kind = "all" THEN "all" ELSE s
BY NoHashes DEF Hub!Flow, HubFlow

LEMMA HubInstalls ==
    ASSUME HubBounds, HubInv, NEW f \in Flows, NEW s \in Skills, Hub!Install(f, s)
    PROVE  HubInv'
<1>1. PICK q, l : q = Hub!Flow("install", s, "scan") /\ l = entries[TapOf[s]]
  OBVIOUS
<1>2. q \in HubFlow /\ q.kind = "install" /\ q.skill = s /\ q.stage = "scan" /\ q.holds = s
  BY <1>1, HubFlowNew DEF HubStages
<1>3. TapOf[s] \in Taps /\ l \in Lists /\ ListedOf(TapOf[s], l)
  BY <1>1 DEF Hub!Install, HubBounds, HubInv, ListingsOld
<1>4. l \in Published(TapOf[s]) /\ l[s] <= remote[s]
  BY <1>3 DEF ListedOf, Published
<1>5. PICK r : r = [q EXCEPT !.list = l]
  OBVIOUS
<1>6. r \in HubFlow /\ r.kind = "install" /\ r.skill = s /\ r.stage = "scan" /\ r.holds = s /\ r.list = l
  BY <1>2, <1>3, <1>5 DEF HubFlow
<1>7. Hub!Begin(f, s) /\ Hub!To(f, r)
  BY <1>1, <1>5 DEF Hub!Install
<1>8. Fits(r) /\ Carries(r) /\ r.stage \notin Hub!Writing
  BY <1>4, <1>6 DEF Fits, Carries, Hub!Writing
<1>9. flow' = [flow EXCEPT ![f] = r] /\ mixed' \in BOOLEAN /\ (~mixed' => ~mixed)
  BY <1>7 DEF Hub!To, HubInv, HubShape
<1> QED BY <1>6, <1>7, <1>8, <1>9, FlowBegins

LEMMA HubUninstalls ==
    ASSUME HubBounds, HubInv, NEW f \in Flows, NEW s \in Skills, Hub!Uninstall(f, s)
    PROVE  HubInv'
<1>1. PICK r : r = Hub!Flow("uninstall", s, "readLock")
  OBVIOUS
<1>2. r \in HubFlow /\ r.kind = "uninstall" /\ r.skill = s /\ r.stage = "readLock" /\ r.holds = s
  BY <1>1, HubFlowNew DEF HubStages
<1>3. Hub!Begin(f, s) /\ flow' = [flow EXCEPT ![f] = r] /\ mixed' = (mixed \/ Hub!Overlapping(f))
  BY <1>1 DEF Hub!Uninstall
<1>4. Fits(r) /\ Carries(r)
  BY <1>2 DEF Fits, Carries, Hub!Writing
<1>5. mixed \in BOOLEAN /\ Hub!Overlapping(f) \in BOOLEAN
  BY DEF HubInv, HubShape, Hub!Overlapping
<1>6. mixed' \in BOOLEAN /\ (~mixed' => ~mixed /\ ~Hub!Overlapping(f))
  BY <1>3, <1>5
<1> QED BY <1>2, <1>3, <1>4, <1>6, FlowBegins

LEMMA HubUpdatesAll ==
    ASSUME HubBounds, HubInv, NEW f \in Flows, Hub!UpdateAll(f)
    PROVE  HubInv'
<1>1. PICK r : r = Hub!Flow("all", None, "list")
  OBVIOUS
<1>2. r \in HubFlow /\ r.kind = "all" /\ r.stage = "list" /\ r.holds = "all"
  BY <1>1, HubFlowNew DEF HubStages
<1>3. Hub!Begin(f, "all") /\ flow' = [flow EXCEPT ![f] = r] /\ UNCHANGED mixed
  BY <1>1 DEF Hub!UpdateAll
<1>4. Fits(r) /\ Carries(r) /\ r.stage \notin Hub!Writing
  BY <1>2 DEF Fits, Carries, Hub!Writing
<1>5. mixed' \in BOOLEAN /\ (~mixed' => ~mixed)
  BY <1>3 DEF HubInv, HubShape
<1> QED BY <1>2, <1>3, <1>4, <1>5, FlowBegins

LEMMA HubRestarts ==
    ASSUME HubBounds, HubInv, Hub!HubRestart
    PROVE  HubInv'
<1>1. /\ flow' = [f \in Flows |-> None] /\ busy' = {} /\ loads' = {} /\ entries' = [t \in Taps |-> None]
      /\ listings' = [u \in Taps |-> IF u \in taps THEN listings[u] ELSE None]
      /\ installed' \subseteq Skills /\ mixed' = (mixed \/ \E f \in Flows : Hub!At(f, "unlock"))
      /\ UNCHANGED <<remote, taps, home, disk, lock>> /\ Hub!Event
  BY DEF Hub!HubRestart, Hub!Pruned, Hub!diskVars
<1>2. Ticks
  BY <1>1, HubTicks
<1>3. Versions'
  BY <1>1, <1>2 DEF HubInv, HubShape, Versions, Ticks
<1>4. mixed' \in BOOLEAN /\ (~mixed' => ~mixed /\ \A f \in Flows : ~Hub!At(f, "unlock"))
  BY <1>1 DEF HubInv, HubShape, Hub!At
<1>5. HubShape'
  BY <1>1, <1>3, <1>4 DEF HubInv, HubShape, Disks, Locks
<1>6. ListingsOld'
  <2>1. listings \in [Taps -> [fresh : BOOLEAN, list : Lists] \cup {None}]
        /\ \A u \in Taps : listings[u] # None => ListedOf(u, listings[u].list)
    BY DEF HubInv, ListingsOld
  <2>2. listings' \in [Taps -> [fresh : BOOLEAN, list : Lists] \cup {None}]
        /\ \A u \in Taps : listings'[u] \in {listings[u], None}
    BY <1>1, <2>1
  <2>3. entries' \in [Taps -> Lists \cup {None}] /\ \A u \in Taps : entries'[u] = None
    BY <1>1
  <2> QED BY <1>1, <2>1, <2>2, <2>3 DEF ListingsOld, ListedOf
<1>7. FlowsFit' /\ Hub!BusyIsHeld'
  BY <1>1 DEF FlowsFit, Hub!BusyIsHeld
<1>8. ASSUME ~mixed' PROVE TakeTurnsWriting'
  <2>1. LockTells /\ \A d, s : ~Uninstalling(d, s)
    BY <1>4, <1>8 DEF HubInv, TakeTurnsWriting, Uninstalling
  <2>2. LockTells'
    BY <1>1, <2>1 DEF LockTells, Has, OnDisk, Sole
  <2> QED BY <1>1, <2>2 DEF TakeTurnsWriting
<1> QED BY <1>5, <1>6, <1>7, <1>8 DEF HubInv

LEMMA HubStarts ==
    ASSUME HubBounds, Hub!HubInit
    PROVE  HubInv
<1>1. /\ remote = [s \in Skills |-> 0] /\ taps = Taps /\ listings = [t \in Taps |-> None]
      /\ entries = [t \in Taps |-> None] /\ loads = {} /\ installed = {} /\ busy = {}
      /\ flow = [f \in Flows |-> None] /\ home \in Folders /\ mixed = FALSE /\ events = 0
      /\ disk = [d \in Folders |-> [g \in Hub!Slugs |-> Hub!NoShas]]
      /\ lock = [d \in Folders |-> [s \in Skills |-> None]]
  BY DEF Hub!HubInit
<1>2. Versions
  BY <1>1 DEF Versions, HubBounds
<1>3. disk \in Disks
  <2>1. Hub!NoShas \in [Pieces -> [of : Skills, v : Nat] \cup {None}]
    BY DEF Hub!NoShas, Pieces
  <2> QED BY <1>1, <2>1 DEF Disks
<1>4. lock \in Locks /\ \A d \in Folders, s \in Skills : lock[d][s] = None
  BY <1>1 DEF Locks, LockTable
<1>5. HubShape
  BY <1>1, <1>2, <1>3, <1>4 DEF HubShape
<1>6. ListingsOld
  BY <1>1 DEF ListingsOld
<1>7. FlowsFit /\ Hub!BusyIsHeld /\ TakeTurnsWriting
  BY <1>1, <1>4 DEF FlowsFit, Hub!BusyIsHeld, TakeTurnsWriting, LockTells
<1> QED BY <1>5, <1>6, <1>7 DEF HubInv

LEMMA HubFlowSteps ==
    ASSUME HubBounds, HubInv, NEW f \in Flows, Hub!FlowStep(f)
    PROVE  HubInv'
BY HubScanned, HubWrites, HubReadLock, HubWritesLock, HubRmdirs, HubUnlocks, HubRefresh, HubLists,
   HubChecked, HubUpdated, HubHead, HubCheck, HubUpdatesNext, HubFetch DEF Hub!FlowStep

LEMMA HubKeeps ==
    ASSUME HubBounds, HubInv, [Hub!HubNext]_Hub!hubVars
    PROVE  HubInv'
<1>1. CASE Hub!HubNext
  <2>1. CASE \E s \in Skills : Hub!Release(s)
    BY <2>1, HubReleases
  <2>2. CASE \E d \in Folders : Hub!Move(d)
    BY <2>2, HubMoves
  <2>3. CASE \E t \in Taps : Hub!AddTap(t) \/ Hub!RemoveTap(t)
    BY <2>3, HubTaps
  <2>4. CASE \E t \in Taps, b \in BOOLEAN : Hub!Ask(t, b) \/ Hub!Loaded(t, b)
    BY <2>4, HubAsks, HubLoads
  <2>5. CASE \E f \in Flows, s \in Skills : Hub!Install(f, s) \/ Hub!Uninstall(f, s)
    BY <2>5, HubInstalls, HubUninstalls
  <2>6. CASE \E f \in Flows : Hub!UpdateAll(f) \/ Hub!FlowStep(f)
    BY <2>6, HubUpdatesAll, HubFlowSteps
  <2>7. CASE \E f \in Flows, yes \in BOOLEAN : Hub!GuardAnswers(f, yes)
    BY <2>7, HubGuardAnswers
  <2>8. CASE Hub!HubRestart
    BY <2>8, HubRestarts
  <2> QED BY <1>1, <2>1, <2>2, <2>3, <2>4, <2>5, <2>6, <2>7, <2>8 DEF Hub!HubNext
<1>2. CASE UNCHANGED Hub!hubVars
  <2>1. UNCHANGED <<remote, taps, listings, entries, loads, installed, busy, flow, home, disk, lock, mixed,
                    started, events>>
    BY <1>2 DEF Hub!hubVars
  <2>2. ListingsOld'
    BY <2>1 DEF HubInv, ListingsOld, ListedOf
  <2>3. Ticks /\ taps' \subseteq Taps /\ loads' \subseteq Taps
    BY <2>1, HubTicks DEF Hub!bounds, HubInv, HubShape
  <2> QED BY <2>1, <2>2, <2>3, PageSteps
<1> QED BY <1>1, <1>2

-----------------------------------------------------------------------------
(* The theorems.                                                           *)

LEMMA HubInvariance ==
    ASSUME HubBounds
    PROVE  Hub!HubSpec => []HubInv
<1>1. Hub!HubInit => HubInv
  BY HubStarts
<1>2. HubInv /\ [Hub!HubNext]_Hub!hubVars => HubInv'
  BY HubKeeps
<1> QED BY <1>1, <1>2, PTL DEF Hub!HubSpec

LEMMA HubTypes ==
    ASSUME HubBounds, HubInv
    PROVE  Hub!HubTypeOK
<1>1. remote \in [Skills -> 0 .. MaxEvents]
  BY DEF HubInv, HubShape, Versions, HubBounds
<1> QED BY <1>1 DEF HubInv, HubShape, Hub!HubTypeOK

LEMMA UpToDateHere ==
    ASSUME HubBounds, HubInv
    PROVE  Hub!UpToDateIsReal
<1> SUFFICES ASSUME ~mixed, NEW d \in Folders, NEW s \in Skills, lock[d][s] # None,
                    ~Hub!Stale(lock[d][s], remote[s]), \A x \in Skills \ {s} : SlugOf[x] # SlugOf[s],
                    \A f \in Flows : flow[f] = None, NEW p \in Pieces
             PROVE  disk[d][SlugOf[s]][p] = [of |-> s, v |-> remote[s]]
  BY DEF Hub!UpToDateIsReal, Pieces
<1>1. lock[d][s][p] = remote[s] /\ lock[d][s][p] # None
  BY DEF Hub!Stale, Pieces
<1>2. ~Uninstalling(d, s)
  BY DEF Uninstalling, Hub!At
<1>3. Has(d, s, p, lock[d][s][p]) /\ Sole(s)
  BY <1>1, <1>2 DEF HubInv, TakeTurnsWriting, LockTells, Sole
<1>4. remote[s] \in Nat
  BY DEF HubInv, HubShape, Versions
<1>5. OnDisk(disk[d][SlugOf[s]][p], s, remote[s])
  BY <1>1, <1>3 DEF Has
<1>6. disk[d][SlugOf[s]][p].v = remote[s]
  BY <1>4, <1>5 DEF OnDisk
<1> QED BY <1>5, <1>6 DEF OnDisk

\* While the flows took turns and the skills folder stayed, a skill the lock file
\* calls up to date is on disk as its source has it (HubClient.install,
\* checkUpdates, uninstall), whatever came out or failed in between.
THEOREM UpToDate ==
    ASSUME HubBounds
    PROVE  Hub!HubSpec => []Hub!UpToDateIsReal
<1>1. HubInv => Hub!UpToDateIsReal
  BY UpToDateHere
<1> QED BY <1>1, HubInvariance, PTL

\* A button of the skills page that is disabled belongs to a flow that is under way
\* and will give it back (the finally blocks of the page's handlers), and the
\* state is of its types.
THEOREM ButtonsAreHeld ==
    ASSUME HubBounds
    PROVE  Hub!HubSpec => [](Hub!HubTypeOK /\ Hub!BusyIsHeld)
<1>1. HubInv => Hub!HubTypeOK /\ Hub!BusyIsHeld
  BY HubTypes DEF HubInv
<1> QED BY <1>1, HubInvariance, PTL

-----------------------------------------------------------------------------
(* EngineMemory, for any folders, keys, jobs and caps. *)

FactOf == [id : Nat, key : Keys, at : Nat]
ObsOf == [id : Nat, at : Nat, proofs : SUBSET Nat]
JobStages == {"idle", "retain", "retained", "reflect", "obs", "models", "mark"}
EngJobOf == [pc : JobStages, read : Eng!Files, out : Eng!Files, pass : Nat]

\* The caps are numbers, and one fact may be kept; there is a folder.
EngBounds == MaxFacts \in Nat \ {0} /\ MaxObs \in Nat /\ RecallMax \in Nat /\ Folders # {}

\* A list of facts as the engine writes it before t: each has an id of its own,
\* and neither ids nor touches are of the future.
Listed(F, t) ==
    /\ F \in SUBSET FactOf /\ IsFiniteSet(F)
    /\ \A x \in F : x.id < t /\ x.at < t
    /\ \A x, y \in F : x.id = y.id => x = y

Capped(q, t) == Listed(q.facts, t) /\ Cardinality(q.facts) <= MaxFacts /\ IsFiniteSet(q.obs) /\ Cardinality(q.obs) <= MaxObs

EngTyped ==
    /\ home \in Folders /\ disk \in [Folders -> Eng!Files]
    /\ work \in [Workers -> EngJobOf] /\ tick \in Nat

\* What lies on disk, and what a job has read of it or will write, keeps the caps.
EngKept ==
    /\ \A f \in Folders : Capped(disk[f], tick)
    /\ \A j \in Workers : Capped(work[j].read, tick) /\ Capped(work[j].out, tick)

\* A pass about to leave its mark has written what it marks.
EngMarked ==
    /\ Eng!MarkIsLast
    /\ \A j \in Workers : work[j].pc = "mark" => work[j].pass \in wrote

EngRecalled == recalled \in SUBSET Keys /\ Eng!RecallClean

EngInv == EngTyped /\ EngKept /\ EngMarked /\ EngRecalled

\* The image of a finite set is no larger, and as large when no two are mapped to one.
LEMMA ImageCounts ==
    ASSUME NEW S, IsFiniteSet(S), NEW f, DOMAIN f = S
    PROVE  LET T == {f[x] : x \in S} IN
           /\ IsFiniteSet(T) /\ Cardinality(T) <= Cardinality(S)
           /\ (\A x, y \in S : f[x] = f[y] => x = y) => Cardinality(T) = Cardinality(S)
<1> DEFINE T == {f[x] : x \in S}
<1> DEFINE g == [x \in S |-> f[x]]
<1>1. g \in [S -> T] /\ \A y \in T : \E x \in S : g[x] = y  OBVIOUS
<1>2. g \in Surjection(S, T)  BY <1>1 DEF Surjection
<1>3. ASSUME \A x, y \in S : f[x] = f[y] => x = y PROVE g \in Injection(S, T)
  BY <1>1, <1>3 DEF Injection, IsInjective
<1> QED  BY <1>2, <1>3, FS_Surjection

\* What a cut leaves of a list: no more than fits, and the last touched.
LEMMA CutKeeps ==
    ASSUME NEW S, IsFiniteSet(S), NEW n \in Nat, NEW K \in Eng!Pruned(S, n)
    PROVE  /\ K \in SUBSET S /\ IsFiniteSet(K) /\ Cardinality(K) \in Nat /\ Cardinality(K) <= n
           /\ K = S \/ (Cardinality(K) = n /\ Cardinality(K) < Cardinality(S) /\ \A k \in K, d \in S \ K : k.at >= d.at)
<1>0. Cardinality(S) \in Nat  BY FS_CardinalityType
<1>c. \A X : Eng!Cardinality(X) = Cardinality(X)  BY DEF Eng!Cardinality, Cardinality
<1>1. CASE Cardinality(S) <= n
  BY <1>0, <1>1, <1>c DEF Eng!Pruned
<1>2. CASE ~(Cardinality(S) <= n)
  <2>1. K \in Eng!kSubset(n, S) /\ \A k \in K, d \in S \ K : k.at >= d.at
    BY <1>2, <1>c DEF Eng!Pruned
  <2>2. K \in SUBSET S /\ Cardinality(K) = n
    BY <2>1, <1>c DEF Eng!kSubset
  <2>3. IsFiniteSet(K)  BY <2>2, FS_Subset
  <2> QED  BY <1>0, <1>2, <2>1, <2>2, <2>3
<1> QED  BY <1>1, <1>2


\* A list of which some facts were touched, and perhaps worded anew, is a list.
LEMMA TouchedListed ==
    ASSUME NEW F, tick \in Nat, Listed(F, tick), NEW h, DOMAIN h = F,
           \A x \in F : h[x] \in FactOf /\ h[x].id = x.id /\ (h[x] = x \/ h[x].at = tick),
           \E x \in F : h[x].at = tick
    PROVE  LET G == {h[x] : x \in F} IN Listed(G, tick + 1) /\ \E x \in G : x.at = tick
<1> DEFINE G == {h[x] : x \in F}
<1>0. F \in SUBSET FactOf /\ IsFiniteSet(F) /\ (\A x \in F : x.id \in Nat /\ x.at \in Nat /\ x.id < tick /\ x.at < tick)
      /\ (\A x, y \in F : x.id = y.id => x = y)
  BY DEF Listed, FactOf
<1>1. IsFiniteSet(G)  BY <1>0, ImageCounts
<1>2. \A x \in F : h[x].id = x.id /\ h[x].at < tick + 1 /\ h[x].id < tick + 1  BY <1>0
<1>3. G \in SUBSET FactOf  OBVIOUS
<1>4. \A y \in G : y.id < tick + 1 /\ y.at < tick + 1  BY <1>2
<1>5. \A y, z \in G : y.id = z.id => y = z  BY <1>0, <1>2
<1> QED  BY <1>1, <1>3, <1>4, <1>5 DEF Listed

\* What an operation of the model does to a list of facts: it stays a list, of
\* before the next moment, and either a fact of this moment is in it or one left.
LEMMA RetainedListed ==
    ASSUME NEW F, tick \in Nat, Listed(F, tick), NEW op \in Eng!RetainOps(F)
    PROVE  LET R == Eng!Retained(F, op) IN
           /\ Listed(R, tick + 1)
           /\ (\E x \in R : x.at = tick) \/ Cardinality(R) < Cardinality(F)
<1> DEFINE R == Eng!Retained(F, op)
<1>0. F \in SUBSET FactOf /\ IsFiniteSet(F) /\ (\A x \in F : x.id \in Nat /\ x.key \in Keys /\ x.at \in Nat /\ x.id < tick /\ x.at < tick)
      /\ (\A x, y \in F : x.id = y.id => x = y)
  BY DEF Listed, FactOf
<1>1. CASE op.op = "add" /\ \E x \in F : x.key = op.key
  <2> DEFINE h == [x \in F |-> IF x.key = op.key THEN [x EXCEPT !.at = tick] ELSE x]
  <2>1. R = {h[x] : x \in F}  BY <1>1 DEF Eng!Retained
  <2>2. \A x \in F : h[x] \in FactOf /\ h[x].id = x.id /\ (h[x] = x \/ h[x].at = tick)  BY <1>0 DEF FactOf
  <2>3. \E x \in F : h[x].at = tick  BY <1>0, <1>1 DEF FactOf
  <2> HIDE DEF h
  <2>4. DOMAIN h = F  BY DEF h
  <2> QED  BY <2>1, <2>2, <2>3, <2>4, TouchedListed
<1>2. CASE op.op = "add" /\ \A x \in F : x.key # op.key
  <2> DEFINE new == [id |-> tick, key |-> op.key, at |-> tick]
  <2>1. R = F \cup {new}  BY <1>2 DEF Eng!Retained
  <2>2. op.key \in Keys  BY <1>2 DEF Eng!RetainOps
  <2>3. new \in FactOf /\ new.id = tick /\ new.at = tick  BY <2>2 DEF FactOf
  <2> HIDE DEF new, R
  <2>4. IsFiniteSet(R)  BY <1>0, <2>1, FS_AddElement
  <2>5. Listed(R, tick + 1)  BY <1>0, <2>1, <2>3, <2>4 DEF Listed
  <2> QED  BY <2>1, <2>3, <2>5 DEF R
<1>3. CASE op.op = "update"
  <2>0. op.key \in Keys /\ \E x \in F : x.id = op.id  BY <1>3 DEF Eng!RetainOps
  <2> DEFINE h == [x \in F |-> IF x.id = op.id THEN [x EXCEPT !.key = op.key, !.at = tick] ELSE x]
  <2>1. R = {h[x] : x \in F}  BY <1>3 DEF Eng!Retained
  <2>2. \A x \in F : h[x] \in FactOf /\ h[x].id = x.id /\ (h[x] = x \/ h[x].at = tick)  BY <1>0, <2>0 DEF FactOf
  <2>3. \E x \in F : h[x].at = tick  BY <1>0, <2>0 DEF FactOf
  <2> HIDE DEF h
  <2>4. DOMAIN h = F  BY DEF h
  <2> QED  BY <2>1, <2>2, <2>3, <2>4, TouchedListed
<1>4. CASE op.op = "delete"
  <2>1. PICK x \in F : x.id = op.id  BY <1>4 DEF Eng!RetainOps
  <2>2. R = {y \in F : y.id # op.id}  BY <1>4 DEF Eng!Retained
  <2>3. R \in SUBSET (F \ {x}) /\ R \in SUBSET F  BY <2>1, <2>2
  <2>4. IsFiniteSet(F \ {x}) /\ Cardinality(F \ {x}) = Cardinality(F) - 1  BY <1>0, <2>1, FS_RemoveElement
  <2>5. IsFiniteSet(R) /\ Cardinality(R) <= Cardinality(F) - 1  BY <2>3, <2>4, FS_Subset
  <2>6. Cardinality(R) \in Nat /\ Cardinality(F) \in Nat  BY <1>0, <2>5, FS_CardinalityType
  <2>7. Listed(R, tick + 1)  BY <1>0, <2>3, <2>5 DEF Listed
  <2> QED  BY <2>5, <2>6, <2>7
<1>5. op.op \in {"add", "update", "delete"}  BY DEF Eng!RetainOps
<1> QED  BY <1>1, <1>2, <1>3, <1>4, <1>5

\* What a retain writes: a list within the cap, which keeps what it just learnt.
LEMMA WrittenListed ==
    ASSUME EngBounds, NEW F, tick \in Nat, Listed(F, tick), NEW op \in Eng!RetainOps(F),
           NEW K \in Eng!Pruned(Eng!Retained(F, op), MaxFacts)
    PROVE  /\ Listed(K, tick + 1) /\ Cardinality(K) <= MaxFacts
           /\ (\E x \in K : x.at = tick) \/ Cardinality(K) < Cardinality(F)
<1> DEFINE R == Eng!Retained(F, op)
<1>1. Listed(R, tick + 1) /\ ((\E x \in R : x.at = tick) \/ Cardinality(R) < Cardinality(F))
  BY RetainedListed
<1> HIDE DEF R
<1>2. IsFiniteSet(R) /\ IsFiniteSet(F)  BY <1>1 DEF Listed
<1>3. MaxFacts \in Nat /\ MaxFacts > 0  BY DEF EngBounds
<1>4. /\ K \in SUBSET R /\ IsFiniteSet(K) /\ Cardinality(K) \in Nat /\ Cardinality(K) <= MaxFacts
      /\ K = R \/ (Cardinality(K) = MaxFacts /\ Cardinality(K) < Cardinality(R) /\ \A k \in K, d \in R \ K : k.at >= d.at)
  BY <1>2, <1>3, CutKeeps DEF R
<1>5. Listed(K, tick + 1)  BY <1>1, <1>4 DEF Listed
<1>6. Cardinality(R) \in Nat /\ Cardinality(F) \in Nat  BY <1>2, FS_CardinalityType
<1>7. ASSUME K # R, NEW x \in R, x.at = tick PROVE \E k \in K : k.at = tick
  <2>1. CASE x \in K  BY <1>7, <2>1
  <2>2. CASE x \notin K
    <3>1. PICK k \in K : TRUE  BY <1>3, <1>4, <1>7, FS_EmptySet
    <3>2. k.at >= tick  BY <1>4, <1>7, <2>2, <3>1
    <3>3. k.at \in Nat /\ k.at < tick + 1  BY <1>1, <1>4, <3>1 DEF Listed, FactOf
    <3> QED  BY <3>1, <3>2, <3>3
  <2> QED  BY <2>1, <2>2
<1>8. ASSUME Cardinality(R) < Cardinality(F) PROVE Cardinality(K) < Cardinality(F)
  BY <1>4, <1>6, <1>8
<1> QED  BY <1>1, <1>4, <1>5, <1>7, <1>8

LEMMA EngInitial == ASSUME EngBounds, Eng!EngInit PROVE EngInv
<1>1. Eng!Empty \in Eng!Files /\ Eng!Empty.facts = {} /\ Eng!Empty.obs = {} /\ Eng!Empty.meta = None
  BY DEF Eng!Empty, Eng!Files
<1>2. Capped(Eng!Empty, 1)
  <2>1. IsFiniteSet({}) /\ Cardinality({}) = 0  BY FS_EmptySet
  <2> QED  BY <1>1, <2>1 DEF Capped, Listed, EngBounds
<1>3. Eng!Idle \in EngJobOf /\ Eng!Idle.read = Eng!Empty /\ Eng!Idle.out = Eng!Empty /\ Eng!Idle.pc = "idle"
  BY <1>1 DEF Eng!Idle, EngJobOf, JobStages
<1>4. EngTyped  BY <1>1, <1>3 DEF Eng!EngInit, EngTyped, EngBounds
<1>5. EngKept  BY <1>2, <1>3 DEF Eng!EngInit, EngKept
<1>6. EngMarked  BY <1>1, <1>3 DEF Eng!EngInit, EngMarked, Eng!MarkIsLast
<1>7. EngRecalled
  <2>1. recalled = {}  BY DEF Eng!EngInit
  <2>2. Eng!Cardinality({}) = 0  BY FS_EmptySet DEF Eng!Cardinality, Cardinality
  <2> QED  BY <2>1, <2>2 DEF EngRecalled, Eng!RecallClean, EngBounds
<1> QED  BY <1>4, <1>5, <1>6, <1>7 DEF EngInv

\* What a step may do to the files of one folder and to one job.
FilesWritten ==
    \/ disk' = disk
    \/ \E f \in Folders, q \in Eng!Files :
           /\ disk' = [disk EXCEPT ![f] = q] /\ Capped(q, tick')
           /\ q.meta = disk[f].meta \/ q.meta.pass \in wrote

WorkMoved ==
    \/ work' = work
    \/ \E j \in Workers, q \in EngJobOf :
           /\ work' = [work EXCEPT ![j] = q] /\ Capped(q.read, tick') /\ Capped(q.out, tick')
           /\ q.pc = "mark" => q.pass \in wrote'

LEMMA CappedLater ==
    ASSUME NEW q, NEW t \in Nat, q \in Eng!Files, Capped(q, t), NEW u \in Nat, t <= u PROVE Capped(q, u)
<1>1. \A x \in q.facts : x.id \in Nat /\ x.at \in Nat  BY DEF Capped, Listed, FactOf
<1> QED  BY <1>1 DEF Capped, Listed

LEMMA EngKeeps ==
    ASSUME EngTyped, EngKept, EngMarked, home' \in Folders, tick' \in {tick, tick + 1}, wrote \subseteq wrote',
           FilesWritten, WorkMoved
    PROVE  EngTyped' /\ EngKept' /\ EngMarked'
<1>1. tick \in Nat /\ tick' \in Nat /\ tick <= tick'  BY DEF EngTyped
<1>2. disk' \in [Folders -> Eng!Files] /\ \A f \in Folders : Capped(disk'[f], tick')
  <2>1. \A f \in Folders : disk[f] \in Eng!Files /\ Capped(disk[f], tick)  BY DEF EngTyped, EngKept
  <2>2. \A f \in Folders : Capped(disk[f], tick')  BY <1>1, <2>1, CappedLater
  <2> QED  BY <2>2 DEF EngTyped, FilesWritten
<1>3. work' \in [Workers -> EngJobOf] /\ \A j \in Workers : Capped(work'[j].read, tick') /\ Capped(work'[j].out, tick')
  <2>1. \A j \in Workers : work[j].read \in Eng!Files /\ work[j].out \in Eng!Files  BY DEF EngTyped, EngJobOf
  <2>2. \A j \in Workers : Capped(work[j].read, tick) /\ Capped(work[j].out, tick)  BY DEF EngKept
  <2>3. \A j \in Workers : Capped(work[j].read, tick') /\ Capped(work[j].out, tick')
    BY <1>1, <2>1, <2>2, CappedLater
  <2> QED  BY <2>3 DEF EngTyped, WorkMoved
<1>4. \A f \in Folders : disk'[f].meta # None => disk'[f].meta.pass \in wrote'
  BY DEF EngMarked, Eng!MarkIsLast, FilesWritten, EngTyped
<1>5. \A j \in Workers : work'[j].pc = "mark" => work'[j].pass \in wrote'
  BY DEF EngMarked, WorkMoved, EngTyped
<1> QED  BY <1>1, <1>2, <1>3, <1>4, <1>5 DEF EngTyped, EngKept, EngMarked, Eng!MarkIsLast

\* What a job reads, or is given to write, is within the caps.
LEMMA ReadingsCapped ==
    ASSUME EngBounds, EngTyped, EngKept, NEW r \in Eng!Readings(home)
    PROVE  r \in Eng!Files /\ Capped(r, tick)
<1>1. CASE r = disk[home]  BY <1>1 DEF EngTyped, EngKept
<1>2. CASE r = Eng!Empty
  <2>1. IsFiniteSet({}) /\ Cardinality({}) = 0  BY FS_EmptySet
  <2> QED  BY <1>2, <2>1 DEF Eng!Empty, Eng!Files, Capped, Listed, EngBounds
<1> QED  BY <1>1, <1>2 DEF Eng!Readings

LEMMA IdleCapped ==
    ASSUME EngBounds, NEW t
    PROVE  Eng!Idle \in EngJobOf /\ Capped(Eng!Idle.read, t) /\ Capped(Eng!Idle.out, t) /\ Eng!Idle.pc = "idle"
<1>1. IsFiniteSet({}) /\ Cardinality({}) = 0  BY FS_EmptySet
<1> QED  BY <1>1 DEF Eng!Idle, Eng!Empty, Eng!Files, EngJobOf, JobStages, Capped, Listed, EngBounds

\* A job that ends, or only goes on to its next place, is as it was but there.
LEMMA EntersOrEnds ==
    ASSUME EngBounds, EngTyped, EngKept, tick' \in {tick, tick + 1}, NEW j \in Workers, NEW to \in JobStages,
           Eng!Over(j) \/ (Eng!Enter(j, to) /\ (to = "mark" => work[j].pass \in wrote'))
    PROVE  WorkMoved
<1>1. CASE Eng!Over(j)
  BY <1>1, IdleCapped DEF Eng!Over, WorkMoved
<1>2. CASE Eng!Enter(j, to) /\ (to = "mark" => work[j].pass \in wrote')
  <2>1. PICK q : q = [work[j] EXCEPT !.pc = to]  OBVIOUS
  <2>2. work[j] \in EngJobOf  BY DEF EngTyped
  <2>3. q \in EngJobOf /\ q.pc = to /\ q.read = work[j].read /\ q.out = work[j].out /\ q.pass = work[j].pass
    BY <2>1, <2>2 DEF EngJobOf
  <2>4. work' = [work EXCEPT ![j] = q]  BY <1>2, <2>1, <2>2 DEF Eng!Enter, EngTyped
  <2>5. work[j].read \in Eng!Files /\ work[j].out \in Eng!Files  BY <2>2 DEF EngJobOf
  <2>6. tick \in Nat /\ tick' \in Nat /\ tick <= tick'  BY DEF EngTyped
  <2>7. Capped(work[j].read, tick') /\ Capped(work[j].out, tick')  BY <2>5, <2>6, CappedLater DEF EngKept
  <2> QED  BY <1>2, <2>3, <2>4, <2>7 DEF WorkMoved
<1> QED  BY <1>1, <1>2

\* Between two recalls nothing is recalled.
LEMMA PromptedClean == ASSUME EngBounds, Eng!Prompted PROVE EngRecalled'
<1>1. Eng!Cardinality({}) = 0  BY FS_EmptySet DEF Eng!Cardinality, Cardinality
<1> QED  BY <1>1 DEF Eng!Prompted, EngRecalled, Eng!RecallClean, EngBounds

\* What an operation of a consolidation does to the observations.
LEMMA ReflectedListed ==
    ASSUME NEW F \in SUBSET FactOf, NEW O \in SUBSET ObsOf, IsFiniteSet(O), tick \in Nat,
           NEW op \in Eng!ReflectOps(F, O)
    PROVE  LET R == Eng!Reflected(O, op) IN R \in SUBSET ObsOf /\ IsFiniteSet(R)
<1> DEFINE R == Eng!Reflected(O, op)
<1>1. op.op \in {"obs", "obsDelete"}  BY DEF Eng!ReflectOps
<1>2. CASE op.op = "obs"
  <2>1. op.proofs \in SUBSET Nat  BY <1>2 DEF Eng!ReflectOps, FactOf
  <2>2. CASE \E x \in O : x.id = op.replace
    <3> DEFINE h == [x \in O |-> IF x.id = op.replace THEN [x EXCEPT !.at = tick, !.proofs = x.proofs \cup op.proofs] ELSE x]
    <3>1. R = {h[x] : x \in O}  BY <1>2, <2>2 DEF Eng!Reflected
    <3>2. \A x \in O : h[x] \in ObsOf  BY <2>1 DEF ObsOf
    <3>3. DOMAIN h = O  OBVIOUS
    <3> HIDE DEF h, R
    <3>4. IsFiniteSet(R)  BY <3>1, <3>3, ImageCounts
    <3> QED  BY <3>1, <3>2, <3>4 DEF R
  <2>3. CASE \A x \in O : x.id # op.replace
    <3> DEFINE new == [id |-> tick, at |-> tick, proofs |-> op.proofs]
    <3>1. R = O \cup {new}  BY <1>2, <2>3 DEF Eng!Reflected
    <3>2. new \in ObsOf  BY <2>1 DEF ObsOf
    <3> HIDE DEF new, R
    <3>3. IsFiniteSet(R)  BY <3>1, FS_AddElement
    <3> QED  BY <3>1, <3>2, <3>3 DEF R
  <2> QED  BY <2>2, <2>3
<1>3. CASE op.op = "obsDelete"
  <2>1. R \in SUBSET O  BY <1>3 DEF Eng!Reflected
  <2> HIDE DEF R
  <2>2. IsFiniteSet(R)  BY <2>1, FS_Subset
  <2> QED  BY <2>1, <2>2 DEF R
<1> QED  BY <1>1, <1>2, <1>3

LEMMA TurnStep ==
    ASSUME EngBounds, EngInv, NEW j \in Workers, Eng!TurnSettles(j) PROVE EngInv'
<1> USE DEF EngInv
<1>1. home' = home /\ disk' = disk /\ tick' = tick /\ wrote' = wrote /\ Eng!Prompted  BY DEF Eng!TurnSettles
<1>2. WorkMoved
  <2>1. CASE work' = work  BY <2>1 DEF WorkMoved
  <2>2. CASE work' # work
    <3>1. PICK r \in Eng!Readings(home) : work' = [work EXCEPT ![j] = [Eng!Idle EXCEPT !.pc = "retain", !.read = r]]
      BY <2>2 DEF Eng!TurnSettles
    <3>2. PICK q : q = [Eng!Idle EXCEPT !.pc = "retain", !.read = r]  OBVIOUS
    <3>3. r \in Eng!Files /\ Capped(r, tick)  BY ReadingsCapped
    <3>4. Eng!Idle \in EngJobOf /\ Capped(Eng!Idle.out, tick)  BY IdleCapped
    <3>5. q \in EngJobOf /\ q.pc = "retain" /\ q.read = r /\ q.out = Eng!Idle.out
      BY <3>2, <3>3, <3>4 DEF EngJobOf, JobStages
    <3> QED  BY <1>1, <3>1, <3>2, <3>3, <3>4, <3>5 DEF WorkMoved
  <2> QED  BY <2>1, <2>2
<1>3. FilesWritten /\ home' \in Folders  BY <1>1 DEF FilesWritten, EngTyped
<1>4. EngTyped' /\ EngKept' /\ EngMarked'  BY <1>1, <1>2, <1>3, EngKeeps
<1>5. EngRecalled'  BY <1>1, PromptedClean
<1> QED  BY <1>4, <1>5

LEMMA RetainStep ==
    ASSUME EngBounds, EngInv, NEW j \in Workers, Eng!RetainAnswer(j) PROVE EngInv'
<1> USE DEF EngInv
<1>0. work[j] \in EngJobOf /\ work[j].read \in Eng!Files /\ Capped(work[j].read, tick) /\ tick \in Nat /\ home \in Folders
  BY DEF EngTyped, EngKept, EngJobOf
<1>1. home' = home /\ wrote' = wrote /\ Eng!Prompted /\ Eng!Enter(j, "retained")  BY DEF Eng!RetainAnswer
<1>2. tick' \in {tick, tick + 1} /\ FilesWritten
  <2>1. CASE UNCHANGED <<disk, tick>>  BY <2>1 DEF FilesWritten
  <2>2. CASE ~UNCHANGED <<disk, tick>>
    <3> DEFINE G == work[j].read.facts
    <3>1. PICK op \in Eng!RetainOps(G) : \E K \in Eng!Pruned(Eng!Retained(G, op), MaxFacts) :
              disk' = [disk EXCEPT ![home].facts = K] /\ tick' = tick + 1
      BY <2>2 DEF Eng!RetainAnswer
    <3>2. PICK K \in Eng!Pruned(Eng!Retained(G, op), MaxFacts) :
              disk' = [disk EXCEPT ![home].facts = K] /\ tick' = tick + 1
      BY <3>1
    <3>3. Listed(G, tick)  BY <1>0 DEF Capped
    <3>4. Listed(K, tick + 1) /\ Cardinality(K) <= MaxFacts  BY <1>0, <3>3, WrittenListed
    <3> HIDE DEF G
    <3>5. PICK q : q = [disk[home] EXCEPT !.facts = K]  OBVIOUS
    <3>6. disk[home] \in Eng!Files /\ Capped(disk[home], tick)  BY <1>0 DEF EngTyped, EngKept
    <3>7. K \in SUBSET FactOf  BY <3>4 DEF Listed
    <3>8. q \in Eng!Files /\ q.facts = K /\ q.obs = disk[home].obs /\ q.meta = disk[home].meta
      BY <3>5, <3>6, <3>7 DEF Eng!Files, FactOf
    <3>9. Capped(q, tick')  BY <3>2, <3>4, <3>6, <3>8 DEF Capped
    <3>10. disk' = [disk EXCEPT ![home] = q]  BY <3>2, <3>5
    <3> QED  BY <1>0, <3>2, <3>8, <3>9, <3>10 DEF FilesWritten
  <2> QED  BY <2>1, <2>2
<1>3. WorkMoved  BY <1>1, <1>2, EntersOrEnds DEF JobStages
<1>4. EngTyped' /\ EngKept' /\ EngMarked'  BY <1>0, <1>1, <1>2, <1>3, EngKeeps
<1>5. EngRecalled'  BY <1>1, PromptedClean
<1> QED  BY <1>4, <1>5

LEMMA ReflectStep ==
    ASSUME EngBounds, EngInv, NEW j \in Workers, Eng!ReflectStart(j) PROVE EngInv'
<1> USE DEF EngInv
<1>1. home' = home /\ disk' = disk /\ wrote' = wrote /\ Eng!Prompted  BY DEF Eng!ReflectStart
<1>2. tick' \in {tick, tick + 1} /\ WorkMoved
  <2>0. tick \in Nat  BY DEF EngTyped
  <2>1. PICK r \in Eng!Readings(home) :
          \/ work' = [work EXCEPT ![j] = [Eng!Idle EXCEPT !.pc = "reflect", !.read = r, !.pass = tick]] /\ tick' = tick + 1
          \/ Eng!Over(j) /\ tick' = tick
    BY DEF Eng!ReflectStart
  <2>2. CASE Eng!Over(j) /\ tick' = tick
    BY <2>2, EntersOrEnds DEF JobStages
  <2>3. CASE work' = [work EXCEPT ![j] = [Eng!Idle EXCEPT !.pc = "reflect", !.read = r, !.pass = tick]] /\ tick' = tick + 1
    <3>2. PICK q : q = [Eng!Idle EXCEPT !.pc = "reflect", !.read = r, !.pass = tick]  OBVIOUS
    <3>3. r \in Eng!Files /\ Capped(r, tick)  BY ReadingsCapped
    <3>4. Eng!Idle \in EngJobOf /\ Capped(Eng!Idle.out, tick')  BY IdleCapped
    <3>5. q \in EngJobOf /\ q.pc = "reflect" /\ q.read = r /\ q.out = Eng!Idle.out
      BY <2>0, <3>2, <3>3, <3>4 DEF EngJobOf, JobStages
    <3>6. Capped(r, tick')  BY <2>0, <2>3, <3>3, CappedLater
    <3> QED  BY <2>3, <3>2, <3>4, <3>5, <3>6 DEF WorkMoved
  <2> QED  BY <2>1, <2>2, <2>3
<1>3. FilesWritten /\ home' \in Folders  BY <1>1 DEF FilesWritten, EngTyped
<1>4. EngTyped' /\ EngKept' /\ EngMarked'  BY <1>1, <1>2, <1>3, EngKeeps
<1>5. EngRecalled'  BY <1>1, PromptedClean
<1> QED  BY <1>4, <1>5

LEMMA AnswerStep ==
    ASSUME EngBounds, EngInv, NEW j \in Workers, Eng!ReflectAnswer(j) PROVE EngInv'
<1> USE DEF EngInv
<1>0. work[j] \in EngJobOf /\ work[j].read \in Eng!Files /\ Capped(work[j].read, tick) /\ tick \in Nat
  BY DEF EngTyped, EngKept, EngJobOf
<1>1. home' = home /\ disk' = disk /\ Eng!Prompted  BY DEF Eng!ReflectAnswer
<1>2. tick' \in {tick, tick + 1} /\ wrote \subseteq wrote' /\ WorkMoved
  <2>1. CASE Eng!Enter(j, "mark") /\ wrote' = wrote \cup {work[j].pass} /\ UNCHANGED tick
    BY <2>1, EntersOrEnds DEF JobStages
  <2>2. CASE ~(Eng!Enter(j, "mark") /\ wrote' = wrote \cup {work[j].pass} /\ UNCHANGED tick)
    <3> DEFINE G == work[j].read.facts
               B == work[j].read.obs
    <3>1. PICK op \in Eng!ReflectOps(G, B) : \E O \in Eng!Pruned(Eng!Reflected(B, op), MaxObs) :
              /\ work' = [work EXCEPT ![j].pc = "obs", ![j].out = [Eng!Empty EXCEPT !.obs = O]]
              /\ tick' = tick + 1 /\ wrote' = wrote
      BY <2>2 DEF Eng!ReflectAnswer
    <3>2. PICK O \in Eng!Pruned(Eng!Reflected(B, op), MaxObs) :
              /\ work' = [work EXCEPT ![j].pc = "obs", ![j].out = [Eng!Empty EXCEPT !.obs = O]]
              /\ tick' = tick + 1 /\ wrote' = wrote
      BY <3>1
    <3>3. G \in SUBSET FactOf /\ B \in SUBSET ObsOf /\ IsFiniteSet(B)  BY <1>0 DEF Eng!Files, Capped, Listed, ObsOf
    <3> HIDE DEF G, B
    <3>4. Eng!Reflected(B, op) \in SUBSET ObsOf /\ IsFiniteSet(Eng!Reflected(B, op))  BY <1>0, <3>3, ReflectedListed
    <3>5. O \in SUBSET ObsOf /\ IsFiniteSet(O) /\ Cardinality(O) <= MaxObs
      BY <3>4, CutKeeps DEF EngBounds
    <3>6. PICK e : e = [Eng!Empty EXCEPT !.obs = O]  OBVIOUS
    <3>7. e \in Eng!Files /\ e.facts = {} /\ e.obs = O  BY <3>5, <3>6 DEF Eng!Empty, Eng!Files, ObsOf
    <3>8. Capped(e, tick')
      <4>1. IsFiniteSet({}) /\ Cardinality({}) = 0  BY FS_EmptySet
      <4> QED  BY <3>5, <3>7, <4>1 DEF Capped, Listed, EngBounds
    <3>9. PICK q : q = [work[j] EXCEPT !.pc = "obs", !.out = e]  OBVIOUS
    <3>10. q \in EngJobOf /\ q.pc = "obs" /\ q.read = work[j].read /\ q.out = e
      BY <1>0, <3>7, <3>9 DEF EngJobOf, JobStages
    <3>11. work' = [work EXCEPT ![j] = q]  BY <3>2, <3>6, <3>9 DEF EngTyped
    <3>12. Capped(work[j].read, tick')  BY <1>0, <3>2, CappedLater
    <3> QED  BY <3>2, <3>8, <3>10, <3>11, <3>12 DEF WorkMoved
  <2> QED  BY <2>1, <2>2
<1>3. FilesWritten /\ home' \in Folders  BY <1>1 DEF FilesWritten, EngTyped
<1>4. EngTyped' /\ EngKept' /\ EngMarked'  BY <1>1, <1>2, <1>3, EngKeeps
<1>5. EngRecalled'  BY <1>1, PromptedClean
<1> QED  BY <1>4, <1>5

LEMMA WriteObsStep ==
    ASSUME EngBounds, EngInv, NEW j \in Workers, Eng!WriteObs(j) PROVE EngInv'
<1> USE DEF EngInv
<1>0. work[j] \in EngJobOf /\ work[j].out \in Eng!Files /\ Capped(work[j].out, tick) /\ home \in Folders
  BY DEF EngTyped, EngKept, EngJobOf
<1>1. home' = home /\ tick' = tick /\ wrote' = wrote /\ Eng!Prompted /\ Eng!Enter(j, "models")  BY DEF Eng!WriteObs
<1>2. FilesWritten
  <2>1. disk[home] \in Eng!Files /\ Capped(disk[home], tick)  BY <1>0 DEF EngTyped, EngKept
  <2>2. PICK O : O = work[j].out.obs  OBVIOUS
  <2>3. PICK q : q = [disk[home] EXCEPT !.obs = O]  OBVIOUS
  <2>4. disk' = [disk EXCEPT ![home] = q]  BY <2>2, <2>3 DEF Eng!WriteObs
  <2>5. q \in Eng!Files /\ q.facts = disk[home].facts /\ q.obs = O /\ q.meta = disk[home].meta
    BY <1>0, <2>1, <2>2, <2>3 DEF Eng!Files
  <2>6. Capped(q, tick')  BY <1>0, <1>1, <2>1, <2>2, <2>5 DEF Capped
  <2> QED  BY <1>0, <2>4, <2>5, <2>6 DEF FilesWritten
<1>3. WorkMoved  BY <1>1, EntersOrEnds DEF JobStages
<1>4. EngTyped' /\ EngKept' /\ EngMarked'  BY <1>0, <1>1, <1>2, <1>3, EngKeeps
<1>5. EngRecalled'  BY <1>1, PromptedClean
<1> QED  BY <1>4, <1>5

LEMMA WriteModelsStep ==
    ASSUME EngBounds, EngInv, NEW j \in Workers, Eng!WriteModels(j) PROVE EngInv'
<1> USE DEF EngInv
<1>1. home' = home /\ tick' = tick /\ disk' = disk /\ wrote' = wrote \cup {work[j].pass} /\ Eng!Prompted /\ Eng!Enter(j, "mark")
  BY DEF Eng!WriteModels
<1>2. FilesWritten /\ home' \in Folders  BY <1>1 DEF FilesWritten, EngTyped
<1>3. WorkMoved  BY <1>1, EntersOrEnds DEF JobStages
<1>4. EngTyped' /\ EngKept' /\ EngMarked'  BY <1>1, <1>2, <1>3, EngKeeps
<1>5. EngRecalled'  BY <1>1, PromptedClean
<1> QED  BY <1>4, <1>5

LEMMA MarkStep ==
    ASSUME EngBounds, EngInv, NEW j \in Workers, Eng!Mark(j) PROVE EngInv'
<1> USE DEF EngInv
<1>0. work[j] \in EngJobOf /\ work[j].read \in Eng!Files /\ Capped(work[j].read, tick) /\ home \in Folders /\ work[j].pass \in wrote
  BY DEF EngTyped, EngKept, EngJobOf, EngMarked, Eng!Mark, Eng!MarkDue
<1>1. home' = home /\ tick' = tick /\ wrote' = wrote /\ Eng!Prompted /\ Eng!Over(j)  BY DEF Eng!Mark
<1>2. FilesWritten
  <2>1. disk[home] \in Eng!Files /\ Capped(disk[home], tick)  BY <1>0 DEF EngTyped, EngKept
  <2>2. PICK m : m = [count |-> Eng!Cardinality(work[j].read.facts), pass |-> work[j].pass]  OBVIOUS
  <2>3. Eng!Cardinality(work[j].read.facts) \in Nat
    <3>1. IsFiniteSet(work[j].read.facts)  BY <1>0 DEF Capped, Listed
    <3> QED  BY <3>1, FS_CardinalityType DEF Eng!Cardinality, Cardinality
  <2>4. m \in [count : Nat, pass : Nat] /\ m.pass = work[j].pass  BY <1>0, <2>2, <2>3 DEF EngJobOf
  <2>5. PICK q : q = [disk[home] EXCEPT !.meta = m]  OBVIOUS
  <2>6. disk' = [disk EXCEPT ![home] = q]  BY <2>2, <2>5 DEF Eng!Mark
  <2>7. q \in Eng!Files /\ q.facts = disk[home].facts /\ q.obs = disk[home].obs /\ q.meta = m
    BY <2>1, <2>4, <2>5 DEF Eng!Files
  <2>8. Capped(q, tick')  BY <1>1, <2>1, <2>7 DEF Capped
  <2> QED  BY <1>0, <2>4, <2>6, <2>7, <2>8 DEF FilesWritten
<1>3. WorkMoved  BY <1>1, EntersOrEnds DEF JobStages
<1>4. EngTyped' /\ EngKept' /\ EngMarked'  BY <1>0, <1>1, <1>2, <1>3, EngKeeps
<1>5. EngRecalled'  BY <1>1, PromptedClean
<1> QED  BY <1>4, <1>5

LEMMA FailStep ==
    ASSUME EngBounds, EngInv, NEW j \in Workers, Eng!JobFails(j) PROVE EngInv'
<1> USE DEF EngInv
<1>1. home' = home /\ tick' = tick /\ disk' = disk /\ wrote' = wrote /\ Eng!Prompted /\ Eng!Over(j)
  BY DEF Eng!JobFails
<1>2. FilesWritten /\ home' \in Folders  BY <1>1 DEF FilesWritten, EngTyped
<1>3. WorkMoved  BY <1>1, EntersOrEnds DEF JobStages
<1>4. EngTyped' /\ EngKept' /\ EngMarked'  BY <1>1, <1>2, <1>3, EngKeeps
<1>5. EngRecalled'  BY <1>1, PromptedClean
<1> QED  BY <1>4, <1>5

\* What a turn recalls passed the scan, and is no more than was asked for.
LEMMA RecallStep ==
    ASSUME EngBounds, EngInv, Eng!Recall PROVE EngInv'
<1> USE DEF EngInv
<1>1. UNCHANGED <<home, disk, work, tick, wrote>>  BY DEF Eng!Recall
<1>2. EngTyped' /\ EngKept' /\ EngMarked'
  BY <1>1 DEF EngTyped, EngKept, EngMarked, Eng!MarkIsLast, Capped, Listed
<1>3. PICK r \in Eng!Readings(home) : \E best \in SUBSET r.facts :
          Eng!Cardinality(best) <= RecallMax /\ recalled' = {x.key : x \in best} \ Threats
  BY DEF Eng!Recall
<1>4. PICK best \in SUBSET r.facts : Eng!Cardinality(best) <= RecallMax /\ recalled' = {x.key : x \in best} \ Threats
  BY <1>3
<1>5. best \in SUBSET FactOf /\ IsFiniteSet(best)
  <2>1. Capped(r, tick)  BY ReadingsCapped
  <2> QED  BY <1>4, <2>1, FS_Subset DEF Capped, Listed
<1> DEFINE h == [x \in best |-> x.key]
           T == {h[x] : x \in best}
<1>6. IsFiniteSet(T) /\ Cardinality(T) <= Cardinality(best)  BY <1>5, ImageCounts
<1>7. recalled' \in SUBSET T  BY <1>4
<1>8. \A X : Eng!Cardinality(X) = Cardinality(X)  BY DEF Eng!Cardinality, Cardinality
<1>9. recalled' \in SUBSET Keys /\ recalled' \cap Threats = {}  BY <1>4, <1>5 DEF FactOf
<1> HIDE DEF T
<1>10. Cardinality(recalled') <= RecallMax
  <2>1. IsFiniteSet(recalled') /\ Cardinality(recalled') <= Cardinality(T)  BY <1>6, <1>7, FS_Subset
  <2>2. Cardinality(best) \in Nat /\ Cardinality(T) \in Nat /\ Cardinality(recalled') \in Nat
    BY <1>5, <1>6, <2>1, FS_CardinalityType
  <2> QED  BY <1>4, <1>6, <1>8, <2>1, <2>2 DEF EngBounds
<1> QED  BY <1>2, <1>8, <1>9, <1>10 DEF EngRecalled, Eng!RecallClean

LEMMA OthersStep ==
    ASSUME EngBounds, EngInv, Eng!Unload \/ \E f \in Folders : Eng!SetFolder(f) PROVE EngInv'
<1> USE DEF EngInv
<1>1. Eng!Prompted /\ UNCHANGED <<disk, tick, wrote>> /\ home' \in Folders  BY DEF Eng!Unload, Eng!SetFolder, EngTyped
<1>2. EngRecalled'  BY <1>1, PromptedClean
<1>3. work' \in [Workers -> EngJobOf]
      /\ \A j \in Workers : /\ Capped(work'[j].read, tick) /\ Capped(work'[j].out, tick)
                            /\ work'[j].pc = "mark" => work'[j].pass \in wrote
  <2>1. CASE work' = work  BY <2>1 DEF EngTyped, EngKept, EngMarked
  <2>2. CASE work' = [j \in Workers |-> Eng!Idle]  BY <2>2, IdleCapped
  <2> QED  BY <2>1, <2>2 DEF Eng!Unload, Eng!SetFolder
<1>4. EngTyped' /\ EngKept' /\ EngMarked'
  BY <1>1, <1>3 DEF EngTyped, EngKept, EngMarked, Eng!MarkIsLast
<1> QED  BY <1>2, <1>4

LEMMA EngStep == ASSUME EngBounds, EngInv, [Eng!EngNext]_(Eng!engVars) PROVE EngInv'
<1>1. ASSUME NEW j \in Workers, Eng!TurnSettles(j) \/ Eng!JobStep(j) PROVE EngInv'
  BY <1>1, TurnStep, RetainStep, ReflectStep, AnswerStep, WriteObsStep, WriteModelsStep, MarkStep, FailStep DEF Eng!JobStep
<1>2. CASE UNCHANGED Eng!engVars
  BY <1>2 DEF Eng!engVars, EngInv, EngTyped, EngKept, EngMarked, EngRecalled, Eng!MarkIsLast, Eng!RecallClean, Capped, Listed
<1> QED  BY <1>1, <1>2, RecallStep, OthersStep DEF Eng!EngNext

LEMMA EngCounts == ASSUME EngInv PROVE Eng!EngTypeOK /\ Eng!FactsBounded
<1> USE DEF EngInv
<1>1. \A X : Eng!Cardinality(X) = Cardinality(X)  BY DEF Eng!Cardinality, Cardinality
<1>2. Eng!EngTypeOK
  BY DEF EngTyped, EngRecalled, Eng!EngTypeOK, Eng!Files, Eng!Empty, EngJobOf, JobStages
<1>3. ASSUME NEW f \in Folders
      PROVE  /\ Cardinality(disk[f].facts) <= MaxFacts /\ Cardinality(disk[f].obs) <= MaxObs
             /\ Cardinality({x.id : x \in disk[f].facts}) = Cardinality(disk[f].facts)
  <2> DEFINE F == disk[f].facts
             h == [x \in F |-> x.id]
  <2>1. Listed(F, tick) /\ Cardinality(F) <= MaxFacts /\ Cardinality(disk[f].obs) <= MaxObs  BY DEF EngKept, Capped
  <2>2. IsFiniteSet(F) /\ \A x, y \in F : h[x] = h[y] => x = y  BY <2>1 DEF Listed
  <2>4. {h[x] : x \in F} = {x.id : x \in F} /\ DOMAIN h = F  OBVIOUS
  <2> HIDE DEF h, F
  <2>3. Cardinality({h[x] : x \in F}) = Cardinality(F)  BY <2>2, <2>4, ImageCounts
  <2> QED  BY <2>1, <2>3, <2>4 DEF F
<1> QED  BY <1>1, <1>2, <1>3 DEF Eng!FactsBounded

LEMMA EngLearns == ASSUME EngBounds, EngInv PROVE Eng!JustLearntKept
<1> SUFFICES ASSUME NEW j \in Workers, Eng!RetainAnswer(j), tick' # tick
             PROVE  LET F == disk'[home].facts IN
                    (\E x \in F : x.at = tick) \/ Eng!Cardinality(F) < Eng!Cardinality(work[j].read.facts)
  BY DEF Eng!JustLearntKept
<1> DEFINE G == work[j].read.facts
<1>0. work[j] \in EngJobOf /\ Listed(G, tick) /\ tick \in Nat /\ home \in Folders /\ disk[home] \in Eng!Files /\ disk \in [Folders -> Eng!Files]
  BY DEF EngInv, EngTyped, EngKept, EngJobOf, Capped
<1>1. \A X : Eng!Cardinality(X) = Cardinality(X)  BY DEF Eng!Cardinality, Cardinality
<1>2. PICK op \in Eng!RetainOps(G) : \E K \in Eng!Pruned(Eng!Retained(G, op), MaxFacts) :
          disk' = [disk EXCEPT ![home].facts = K]
  BY DEF Eng!RetainAnswer
<1>3. PICK K \in Eng!Pruned(Eng!Retained(G, op), MaxFacts) : disk' = [disk EXCEPT ![home].facts = K]
  BY <1>2
<1>4. (\E x \in K : x.at = tick) \/ Cardinality(K) < Cardinality(G)  BY <1>0, WrittenListed
<1>5. disk'[home].facts = K  BY <1>0, <1>3 DEF Eng!Files
<1> QED  BY <1>1, <1>4, <1>5


LEMMA EngInvariance == ASSUME EngBounds PROVE Eng!EngSpec => []EngInv
<1>1. Eng!EngInit => EngInv  BY EngInitial
<1>2. EngInv /\ [Eng!EngNext]_(Eng!engVars) => EngInv'  BY EngStep
<1> QED  BY <1>1, <1>2, PTL DEF Eng!EngSpec

\* However the background jobs of turns overlap, the folder is changed and the
\* plugin unloaded, a facts file stays within its cap and holds no two facts
\* under one id (applyRetainOps, pruneFacts, genId), and the state is of its types.
THEOREM FactsWithinCap ==
    ASSUME EngBounds
    PROVE  Eng!EngSpec => [](Eng!EngTypeOK /\ Eng!FactsBounded)
<1>1. EngInv => Eng!EngTypeOK /\ Eng!FactsBounded  BY EngCounts
<1> QED  BY <1>1, EngInvariance, PTL

\* The mark of a consolidation is written last: what lies on disk as consolidated
\* is of a pass that wrote its observations and models before (reflect), and
\* what a turn recalls passed the scan and fits its budget (buildRecallBlock).
THEOREM MarkedWhenWritten ==
    ASSUME EngBounds
    PROVE  Eng!EngSpec => [](Eng!MarkIsLast /\ Eng!RecallClean)
<1>1. EngInv => Eng!MarkIsLast /\ Eng!RecallClean  BY DEF EngInv, EngMarked, EngRecalled
<1> QED  BY <1>1, EngInvariance, PTL

\* The cap never drops what a retain just learnt: a step that writes facts leaves
\* one of its own moment in the file, or only removed (applyRetainOps, pruneFacts).
THEOREM LearntIsKept ==
    ASSUME EngBounds
    PROVE  Eng!EngSpec => [][Eng!JustLearntKept]_(Eng!engVars)
<1>1. EngInv => Eng!JustLearntKept  BY EngLearns
<1> QED  BY <1>1, EngInvariance, PTL

=============================================================================
